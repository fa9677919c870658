------------------------------- MODULE MCStorage -------------------------------
(***************************************************************************)
(* Small instances of Storage: two tables, keys 1 and 2, pages that hold   *)
(* two short rows, and statements chosen to fill, split up, move, free and *)
(* reuse them.                                                             *)
(***************************************************************************)
EXTENDS Storage

MCNames == {"a", "b"}

Row(key, len) == [key |-> key, len |-> len]
Short(key) == Row(key, 2)
Long(key)  == Row(key, 4)
TooLong(key) == Row(key, 7)

MCTuples == [key : 0..2, len : {2, 3, 4, 5, 7}]

CreateTableOf(n, pk) == [op |-> "create_table", table |-> n, pk |-> pk]
DropTableOf(n)       == [op |-> "drop_table", table |-> n]
CreateIndexOf(i, n, unique) ==
    [op |-> "create_index", index |-> i, table |-> n, unique |-> unique]
DropIndexOf(i)       == [op |-> "drop_index", index |-> i]
InsertOf(n, rows)    == [op |-> "insert", table |-> n, rows |-> rows]
UpdateOf(n, keys, to) == [op |-> "update", table |-> n, keys |-> keys, to |-> to]
DeleteOf(n, keys)    == [op |-> "delete", table |-> n, keys |-> keys]
VacuumOf(n)          == [op |-> "vacuum", table |-> n]
AnalyzeOf(n)         == [op |-> "analyze", table |-> n]

\* SET clauses.
Grown   == [r \in MCTuples |-> Row(r.key, 4)]
Shrunk  == [r \in MCTuples |-> Row(r.key, 2)]
Swapped == [r \in MCTuples |-> IF r.key = Null THEN r ELSE Row(3 - r.key, r.len)]
Twos    == [r \in MCTuples |-> Row(2, r.len)]
WithLongKey == [r \in MCTuples |-> Row(r.key, 5)]

\* A table with a primary key, and one with a plain index and equal keys on
\* two pages.
Keyed  == <<CreateTableOf("a", TRUE), InsertOf("a", <<Short(1)>>)>>
Plain  == <<CreateTableOf("b", FALSE), CreateIndexOf("i", "b", FALSE),
            InsertOf("b", <<Short(1), Short(2), Short(1)>>)>>
Moving == <<CreateTableOf("b", FALSE), InsertOf("b", <<Short(1), Short(1), Short(2)>>),
            DeleteOf("b", {2}), CreateTableOf("a", TRUE), AnalyzeOf("b")>>

MCPreludes == {Keyed, Plain, Moving}

MCInputs ==
    {CreateTableOf("a", TRUE), CreateTableOf("b", FALSE), DropTableOf("b"),
     CreateIndexOf("u", "b", TRUE), CreateIndexOf("i", "b", FALSE), DropIndexOf("i"),
     DropIndexOf("a_key_idx"),
     InsertOf("a", <<Short(2), Short(1)>>), InsertOf("a", <<Short(Null)>>), InsertOf("a", <<Row(2, 5)>>),
     InsertOf("b", <<Long(1), Short(2)>>), InsertOf("b", <<Short(1), TooLong(2)>>),
     UpdateOf("a", {1, 2}, Swapped), UpdateOf("b", {1}, Grown), UpdateOf("b", {1, 2}, Shrunk),
     UpdateOf("b", {1}, Twos),
     UpdateOf("b", {0, 1, 2}, WithLongKey),
     DeleteOf("a", {1}), DeleteOf("b", {1}), DeleteOf("b", {1, 2}),
     VacuumOf("b"), AnalyzeOf("b")}

\* A row that grows onto another page, is refused by a unique index, and does
\* not fit there when it shrinks again.
TwosGrown == [r \in MCTuples |-> Row(2, 4)]

LengthPreludes ==
    {<<CreateTableOf("b", FALSE), CreateIndexOf("u", "b", TRUE),
       InsertOf("b", <<Row(1, 3), Row(2, 3)>>)>>}

LengthInputs == {UpdateOf("b", {1}, TwosGrown), DeleteOf("b", {1})}
=============================================================================
