------------------------------- MODULE MCServer -------------------------------
(* Small instances of Server: two clients with habits of their own.        *)
EXTENDS Server

CONSTANTS c1, c2

\* One works in a transaction and may stay idle in it; the other sends a
\* statement, or a frame that breaks off or never was one, and another one.
Scripts ==
    ({c1} \X {1} \X {"begin"})
    \cup ({c1} \X {2} \X {"update", "select", "fail"})
    \cup ({c1} \X {3} \X {"commit", "rollback"})
    \cup ({c2} \X {1} \X {"update", "select", "partial", "garbage", "refused"})
    \cup ({c2} \X {2} \X {"update"})
=============================================================================
