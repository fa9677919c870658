-------------------------------- MODULE MCBTree --------------------------------
(* Small instances of BTree: pages of two to four entries.                 *)
EXTENDS BTree

CONSTANTS t1, t2, t3

Insert(k, r) == [op |-> "insert", entry |-> [key |-> k, rid |-> r]]
Delete(k, r) == [op |-> "delete", entry |-> [key |-> k, rid |-> r]]
Scan(lower, upper) == [op |-> "scan", lower |-> lower, upper |-> upper]

Whole == Nowhere.position

\* Long keys, a short one and one that is too long: a leaf takes two long keys
\* and no more, an internal page two separators.
Lengths == <<10, 10, 10, 11, 10, 10, 10, 2>>

\* Two threads insert keys, upwards and downwards, so that leaves at the end and
\* inside of the chain split, and the root twice; one of the keys is there
\* already.  A third thread scans or inserts a key that is too long, and deletes.
TwoInserters ==
    {<<t1, 1, Insert(3, 3)>>, <<t1, 2, Insert(5, 5)>>, <<t1, 3, Insert(1, 1)>>, <<t1, 4, Insert(5, 2)>>}
    \cup {<<t2, 1, Insert(6, 6)>>, <<t2, 2, Insert(7, 7)>>, <<t2, 3, Insert(8, 8)>>}
    \cup {<<t3, 1, c>> : c \in {Scan(Whole, Whole), Scan(From(3), Towards(6)),
                                 Delete(5, 5), Insert(4, 4)}}
    \cup {<<t3, 2, Delete(6, 6)>>}

\* Keys that are there several times, in a tree that allows it, and a lookup.
Duplicates ==
    {<<t1, n, Insert(k, n)>> : n \in 1..5, k \in {1, 3, 5}}
    \cup {<<t1, 6, Scan(From(3), From(3))>>}

\* One key twice at once, in a tree that forbids it.
SameKey == {<<t1, 1, Insert(3, 3)>>, <<t2, 1, Insert(3, 4)>>}
=============================================================================
