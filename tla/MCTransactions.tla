---------------------------- MODULE MCTransactions ----------------------------
(* Small instances of Transactions: what their clients do.                 *)
EXTENDS Transactions

Statement(op, tab, ids) == [op |-> op, table |-> tab, ids |-> ids]

Read(tab)      == Statement("select", tab, Id)
Update(tab, i) == Statement("update", tab, {i})

\* Two tables, locked as wholes: one is read, grows, shrinks and is updated, the
\* other is only updated.
TableWork == ({"ReadCommitted"} \X {Read(1), Update(1, 1)})
             \cup ({"RepeatableRead"} \X {Read(1), Statement("insert", 1, {2}),
                                       Statement("delete", 1, {1}), Update(1, 1), Update(2, 1)})

\* Rows: transactions of two levels read all of table 1 and update its rows,
\* SERIALIZABLE ones work on a table that grows as well.
RowWork == ({"ReadCommitted"} \X {Read(1), Update(1, 1)})
           \cup ({"RepeatableRead"} \X {Read(1), Update(1, 1), Update(1, 2)})
           \cup ({"Serializable"} \X {Read(2), Statement("insert", 2, {3}), Update(2, 1)})

\* Rows that disappear and come back under the same key, at one level.
AnyWork == {"RepeatableRead"}
           \X {Statement("delete", 1, {1}), Statement("insert", 1, {1}), Update(1, 2)}

\* A table that grows while it is read.
InsertWork == {"ReadCommitted"} \X {Read(1), Statement("insert", 1, {2}), Update(1, 1)}

\* Rows come and go; a client may update them all.
DeleteStatements == {Read(1), Statement("update", 1, {1, 2}),
                     Statement("delete", 1, {1}), Statement("delete", 1, {2})}

DeleteWork       == {"RepeatableRead"} \X DeleteStatements
SerializableWork == {"Serializable"} \X DeleteStatements
=============================================================================
