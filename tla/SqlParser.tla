------------------------------ MODULE SqlParser ------------------------------
(***************************************************************************)
(* The parser: from the tokens of a statement to its syntax tree, by       *)
(* recursive descent, with binding powers for expressions (parser.rs).     *)
(*                                                                         *)
(* A parse is a record of the tokens that are left, the tree of what was   *)
(* read last, and whether all went well; a parse that failed has no tokens *)
(* left, so that nothing that follows can succeed.  Positions, messages,   *)
(* texts and CAST are left out; what is optional is a sequence of at most  *)
(* one element.                                                            *)
(***************************************************************************)
EXTENDS LogicalPlans

-----------------------------------------------------------------------------
(* Tokens                                                                  *)

Token(is, name, n) == [is |-> is, name |-> name, n |-> n]

Kw(word)    == Token("keyword", word, 0)
Id(name)    == Token("ident", name, 0)
Sym(sign)   == Token("symbol", sign, 0)
IntTok(n)   == Token("int", "", n)      \* without a sign
ParamTok(n) == Token("param", "", n)
Eof         == Token("eof", "", 0)

-----------------------------------------------------------------------------
(* Parser                                                                  *)

Start(tokens) == [rest |-> tokens, tree |-> Error, ok |-> TRUE]

Peek(p)       == IF p.rest = << >> THEN Eof ELSE p.rest[1]
Advance(p)    == [p EXCEPT !.rest = IF @ = << >> THEN @ ELSE Tail(@)]
PeekSecond(p) == Peek(Advance(p))
Unexpected(p) == [rest |-> << >>, tree |-> Error, ok |-> FALSE]

(* The tree of what has just been read, if it could be read; that tree     *)
(* alone in a list; and with it a part of what was being read before.      *)
Yield(p, tree)    == IF p.ok THEN [p EXCEPT !.tree = tree] ELSE p
Only(p)           == Yield(p, << p.tree >>)
Into(p, field, q) == Yield(q, [p.tree EXCEPT ![field] = q.tree])
Onto(p, field, q) == Yield(q, [p.tree EXCEPT ![field] = Append(@, q.tree)])

(* expect_keyword, expect_punct                                            *)
Expect(p, token) == IF Peek(p) = token THEN Advance(p) ELSE Unexpected(p)

ExpectIdent(p) == IF Peek(p).is = "ident" THEN Yield(Advance(p), Peek(p).name) ELSE Unexpected(p)

OptionalIdent(p) == IF Peek(p).is = "ident" THEN Only(ExpectIdent(p)) ELSE Yield(p, << >>)

ParseIdent(p, field) == Into(p, field, ExpectIdent(p))

(* expect_end                                                              *)
ExpectEnd(p) ==
    LET end == IF Peek(p) = Sym(";") THEN Advance(p) ELSE p
    IN  IF Peek(end) = Eof THEN end ELSE Unexpected(end)

-----------------------------------------------------------------------------
(* Expressions                                                             *)

RECURSIVE ParseExpr(_, _), ParseInfix(_, _), ParseList(_, _), ParseStatement(_)

(* infix_binding_power; 0: no operator that stands between two operands.   *)
LeftPower(token) ==
    CASE token = Kw("OR")                                    -> 1
      [] token = Kw("AND")                                   -> 3
      [] token \in {Sym(o) : o \in Compare} \cup {Kw("IS")}  -> 6
      [] token \in {Sym("+"), Sym("-")}                      -> 8
      [] token \in {Sym("*"), Sym("/")}                      -> 10
      [] OTHER                                               -> 0

\* Fault: operators of the same power gather on the right.
SamePower(token) == LeftPower(token)

RightPower(token) == LeftPower(token) + 1

NotPower    == 5
NegatePower == 12

(* negate_u64_to_i64: the smallest number has no positive counterpart.     *)
ParseNegative(p) ==
    IF Peek(p).n <= MaxInt + 1 THEN Yield(Advance(p), Int64(- Peek(p).n)) ELSE Unexpected(p)

ParseInt(p) == IF Peek(p).n <= MaxInt THEN Yield(Advance(p), Int64(Peek(p).n)) ELSE Unexpected(p)

ParseConstant(p) ==
    Yield(Advance(p), IF Peek(p) = Kw("NULL") THEN NullLit ELSE Truth(Peek(p) = Kw("TRUE")))

Constants == {Kw("TRUE"), Kw("FALSE"), Kw("NULL")}

AggregateFuncs == {"COUNT", "SUM", "MIN", "MAX"}

Applied(op, q) == Yield(q, Op(op, q.tree))

Aggregated(func, q) == Yield(q, Agg(func, q.tree))

(* COUNT alone takes a star.                                               *)
ParseAggregateArg(p, func) ==
    CASE Peek(p) # Sym("*") -> Only(ParseExpr(p, 0))
      [] func = "COUNT"     -> Yield(Advance(p), << >>)
      [] OTHER              -> Unexpected(p)

ParseAggregateCall(p, func) ==
    Aggregated(func, Expect(ParseAggregateArg(Expect(p, Sym("(")), func), Sym(")")))

ParseArgs(p) == IF Peek(p) = Sym(")") THEN Yield(p, << >>) ELSE ParseList(p, "expr")

ParseFunctionCall(p, name) == Applied(name, Expect(ParseArgs(Expect(p, Sym("("))), Sym(")")))

QualifiedRef(table, q) == Yield(q, Ref(table, << q.tree >>))

(* What a name is, the tokens behind it tell.                              *)
ParseNamed(p, name) ==
    CASE Peek(p) = Sym(".")      -> QualifiedRef(name, ExpectIdent(Advance(p)))
      [] Peek(p) # Sym("(")      -> Yield(p, Ref("", << name >>))
      [] name \in AggregateFuncs -> ParseAggregateCall(p, name)
      [] OTHER                   -> ParseFunctionCall(p, name)

ParseParen(p) == Applied("()", Expect(Only(ParseExpr(Expect(p, Sym("(")), 0)), Sym(")")))

ParsePrimary(p) ==
    CASE Peek(p).is = "int"     -> ParseInt(p)
      [] Peek(p).is = "param"   -> Yield(Advance(p), Param(Peek(p).n, "none"))
      [] Peek(p).is = "ident"   -> ParseNamed(Advance(p), Peek(p).name)
      [] Peek(p) \in Constants  -> ParseConstant(p)
      [] Peek(p) = Sym("(")     -> ParseParen(p)
      [] OTHER                  -> Unexpected(p)

ParsePrefix(p) ==
    CASE Peek(p) = Kw("NOT")       -> Applied("NOT", Only(ParseExpr(Advance(p), NotPower)))
      [] Peek(p) # Sym("-")        -> ParsePrimary(p)
      [] PeekSecond(p).is = "int"  -> ParseNegative(Advance(p))
      [] OTHER                     -> Applied("neg", Only(ParseExpr(Advance(p), NegatePower)))

(* [NOT] NULL, behind an operand and IS.                                   *)
ParseIsNull(p) ==
    IF Peek(p) = Kw("NOT") THEN Applied("IS NOT NULL", Only(Expect(Advance(p), Kw("NULL"))))
    ELSE Applied("IS NULL", Only(Expect(p, Kw("NULL"))))

Both(p, rhs) == Yield(rhs, Op(Peek(p).name, << p.tree, rhs.tree >>))

ParseBinary(p) == Both(p, ParseExpr(Advance(p), RightPower(Peek(p))))

(* The loop of parse_expr: the operators that bind at least as strongly as *)
(* minPower belong to the operand that has been read.                      *)
ParseInfix(p, minPower) ==
    IF LeftPower(Peek(p)) = 0 \/ LeftPower(Peek(p)) < minPower THEN p
    ELSE ParseInfix(IF Peek(p) = Kw("IS") THEN ParseIsNull(Advance(p)) ELSE ParseBinary(p), minPower)

ParseExpr(p, minPower) == ParseInfix(ParsePrefix(p), minPower)

(* parse_literal: what EXECUTE takes as a value.                           *)
ParseLiteral(p) ==
    CASE Peek(p).is = "int"    -> ParseInt(p)
      [] Peek(p) = Sym("-")    -> IF PeekSecond(p).is = "int" THEN ParseNegative(Advance(p)) ELSE Unexpected(p)
      [] Peek(p) \in Constants -> ParseConstant(p)
      [] OTHER                 -> Unexpected(p)

-----------------------------------------------------------------------------
(* SELECT                                                                  *)

ParseSelectItem(p) == IF Peek(p) = Sym("*") THEN Yield(Advance(p), Wildcard) ELSE ParseExpr(p, 0)

WithDirection(p) ==
    Yield(IF Peek(p) \in {Kw("ASC"), Kw("DESC")} THEN Advance(p) ELSE p,
          [expr |-> p.tree, desc |-> Peek(p) = Kw("DESC")])

ParseOrderByItem(p) == WithDirection(ParseExpr(p, 0))

(* A table of FROM or JOIN, which is its own alias if it has no other.     *)
WithAlias(p) ==
    LET own == Yield(p, [table |-> p.tree, alias |-> p.tree])
    IN  IF Peek(p) = Kw("AS") THEN ParseIdent(Advance(own), "alias") ELSE own

ParseTable(p) == WithAlias(ExpectIdent(p))

ParseJoined(p) ==
    Onto(p, "from", ParseTable(IF Peek(p) = Kw("INNER") THEN Expect(Advance(p), Kw("JOIN")) ELSE Advance(p)))

ParseOn(p) == Onto(p, "on", ParseExpr(Expect(p, Kw("ON")), 0))

RECURSIVE ParseJoins(_)
ParseJoins(p) == IF Peek(p) \in {Kw("JOIN"), Kw("INNER")} THEN ParseJoins(ParseOn(ParseJoined(p))) ELSE p

ParseFrom(p) == IF Peek(p) = Kw("FROM") THEN ParseJoins(Onto(p, "from", ParseTable(Advance(p)))) ELSE p

ParseDistinct(p) ==
    IF Peek(p) = Kw("DISTINCT") THEN Yield(Advance(p), [p.tree EXCEPT !.distinct = TRUE]) ELSE p

ParseItems(p) == Into(p, "items", ParseList(p, "item"))

(* The other clauses, in their order: one expression, or a list after BY.  *)
Clauses == << [field |-> "where", word |-> "WHERE", of |-> ""], [field |-> "group", word |-> "GROUP", of |-> "expr"],
              [field |-> "having", word |-> "HAVING", of |-> ""], [field |-> "order", word |-> "ORDER", of |-> "key"],
              [field |-> "limit", word |-> "LIMIT", of |-> ""], [field |-> "offset", word |-> "OFFSET", of |-> ""] >>

ParseClause(p, c) ==
    IF Peek(p) # Kw(c.word) THEN p
    ELSE Into(p, c.field, IF c.of = "" THEN Only(ParseExpr(Advance(p), 0))
                          ELSE ParseList(Expect(Advance(p), Kw("BY")), c.of))

EmptySelect == [items |-> << >>, from |-> << >>, on |-> << >>, where |-> << >>, group |-> << >>, having |-> << >>,
                order |-> << >>, distinct |-> FALSE, limit |-> << >>, offset |-> << >>]

SelectOf(p) == Yield(p, [kind |-> "SELECT", select |-> p.tree])

ParseSelectStatement(p) ==
    LET start == Yield(Expect(p, Kw("SELECT")), EmptySelect)
    IN  SelectOf(FoldLeft(ParseClause, ParseFrom(ParseItems(ParseDistinct(start))), Clauses))

-----------------------------------------------------------------------------
(* Changes of rows                                                         *)

ParseParenList(p, what) == Expect(ParseList(Expect(p, Sym("(")), what), Sym(")"))

ParseColumns(p) == IF Peek(p) = Sym("(") THEN Onto(p, "columns", ParseParenList(p, "ident")) ELSE p

ParseRows(p) == Into(p, "rows", ParseList(Expect(p, Kw("VALUES")), "row"))

ParseInsertStatement(p) ==
    LET start == Yield(Expect(Expect(p, Kw("INSERT")), Kw("INTO")),
                       [kind |-> "INSERT", table |-> "", columns |-> << >>, rows |-> << >>])
    IN  ParseRows(ParseColumns(ParseIdent(start, "table")))

ParseValue(p) == Into(p, "value", ParseExpr(Expect(p, Sym("=")), 0))

ParseAssignment(p) == ParseValue(ParseIdent(Yield(p, [column |-> "", value |-> Error]), "column"))

ParseWhere(p) == ParseClause(p, Clauses[1])

ParseSet(p) == Into(p, "set", ParseList(Expect(p, Kw("SET")), "assignment"))

ParseUpdateStatement(p) ==
    LET start == Yield(Expect(p, Kw("UPDATE")), [kind |-> "UPDATE", table |-> "", set |-> << >>, where |-> << >>])
    IN  ParseWhere(ParseSet(ParseIdent(start, "table")))

ParseDeleteStatement(p) ==
    LET start == Yield(Expect(Expect(p, Kw("DELETE")), Kw("FROM")),
                       [kind |-> "DELETE", table |-> "", where |-> << >>])
    IN  ParseWhere(ParseIdent(start, "table"))

-----------------------------------------------------------------------------
(* CREATE and DROP                                                         *)

(* NOT NULL, PRIMARY KEY and UNIQUE, in any order and number.              *)
ParseConstraint(p) ==
    CASE Peek(p) = Kw("NOT")     -> Expect(Advance(p), Kw("NULL"))
      [] Peek(p) = Kw("PRIMARY") -> Expect(Advance(p), Kw("KEY"))
      [] OTHER                   -> Advance(p)

WithConstraint(p, word) == Yield(p, [p.tree EXCEPT !.constraints = @ \cup {word}])

RECURSIVE ParseConstraints(_)
ParseConstraints(p) ==
    IF Peek(p) \notin {Kw("NOT"), Kw("PRIMARY"), Kw("UNIQUE")} THEN p
    ELSE ParseConstraints(WithConstraint(ParseConstraint(p), Peek(p).name))

ParseColumnDef(p) ==
    LET start == Yield(p, [name |-> "", type |-> "", constraints |-> {}])
    IN  ParseConstraints(ParseIdent(ParseIdent(start, "name"), "type"))

ParseColumnDefs(p) == Into(p, "columns", ParseParenList(p, "column"))

ParseCreateTableStatement(p) ==
    LET start == Yield(Expect(Advance(p), Kw("TABLE")), [kind |-> "CREATE TABLE", table |-> "", columns |-> << >>])
    IN  ParseColumnDefs(ParseIdent(start, "table"))

ParseUnique(p) == IF Peek(p) = Kw("UNIQUE") THEN Yield(Advance(p), [p.tree EXCEPT !.unique = TRUE]) ELSE p

ParseCreateIndexStatement(p) ==
    LET start  == Yield(Advance(p), [kind |-> "CREATE INDEX", unique |-> FALSE,
                                     index |-> "", table |-> "", column |-> ""])
        index  == ParseIdent(Expect(ParseUnique(start), Kw("INDEX")), "index")
        column == Expect(ParseIdent(Expect(index, Kw("ON")), "table"), Sym("("))
    IN  Expect(ParseIdent(column, "column"), Sym(")"))

ParseCreateStatement(p) ==
    CASE PeekSecond(p) = Kw("TABLE")                     -> ParseCreateTableStatement(p)
      [] PeekSecond(p) \in {Kw("INDEX"), Kw("UNIQUE")}   -> ParseCreateIndexStatement(p)
      [] OTHER                                           -> Unexpected(p)

ParseDropTableStatement(p) ==
    ParseIdent(Yield(Expect(Advance(p), Kw("TABLE")), [kind |-> "DROP TABLE", table |-> ""]), "table")

ParseDropIndexStatement(p) ==
    ParseIdent(Yield(Expect(Advance(p), Kw("INDEX")), [kind |-> "DROP INDEX", index |-> ""]), "index")

ParseDropStatement(p) ==
    CASE PeekSecond(p) = Kw("TABLE") -> ParseDropTableStatement(p)
      [] PeekSecond(p) = Kw("INDEX") -> ParseDropIndexStatement(p)
      [] OTHER                       -> Unexpected(p)

-----------------------------------------------------------------------------
(* Transactions, inspection and maintenance                                *)

ParseReadLevel(p) ==
    IF Peek(p) \in {Kw("UNCOMMITTED"), Kw("COMMITTED")} THEN Yield(Advance(p), Peek(p).name) ELSE Unexpected(p)

ParseIsolationLevel(p) ==
    CASE Peek(p) = Kw("READ")         -> ParseReadLevel(Advance(p))
      [] Peek(p) = Kw("REPEATABLE")   -> Yield(Expect(Advance(p), Kw("READ")), "REPEATABLE")
      [] Peek(p) = Kw("SERIALIZABLE") -> Yield(Advance(p), "SERIALIZABLE")
      [] OTHER                        -> Unexpected(p)

ParseLevel(p) ==
    IF Peek(p) # Kw("ISOLATION") THEN p
    ELSE Onto(p, "level", ParseIsolationLevel(Expect(Advance(p), Kw("LEVEL"))))

ParseBeginStatement(p) == ParseLevel(Yield(Expect(p, Kw("BEGIN")), [kind |-> "BEGIN", level |-> << >>]))

(* COMMIT, ROLLBACK and CHECKPOINT stand alone.                            *)
ParseWord(p) == Yield(Advance(p), [kind |-> Peek(p).name])

OptionalTable(p) == Into(p, "table", OptionalIdent(p))

(* ANALYZE and VACUUM of one table or of all.                              *)
ParseMaintenance(p) == OptionalTable(Yield(Advance(p), [kind |-> Peek(p).name, table |-> << >>]))

ParseOptionalFromTable(p) == IF Peek(p) = Kw("FROM") THEN Onto(p, "table", ExpectIdent(Advance(p))) ELSE p

ParseShown(p) ==
    LET shown == Yield(Advance(p), [kind |-> "SHOW", what |-> Peek(p).name, table |-> << >>])
    IN  CASE Peek(p) = Kw("TABLES")                      -> shown
          [] Peek(p) \in {Kw("INDEXES"), Kw("STATS")}    -> ParseOptionalFromTable(shown)
          [] OTHER                                       -> Unexpected(p)

ParseShowStatement(p) == ParseShown(Advance(p))

ParseDescribeStatement(p) == ParseIdent(Yield(Advance(p), [kind |-> "DESCRIBE", table |-> ""]), "table")

ParseExplained(p) ==
    IF Peek(p) \in {Kw("SELECT"), Kw("INSERT"), Kw("UPDATE"), Kw("DELETE")} THEN ParseStatement(p) ELSE Unexpected(p)

ParseAnalyze(p) == IF Peek(p) = Kw("ANALYZE") THEN Yield(Advance(p), [p.tree EXCEPT !.analyze = TRUE]) ELSE p

ParseExplainStatement(p) ==
    LET start == Yield(Advance(p), [kind |-> "EXPLAIN", analyze |-> FALSE, statement |-> Error])
    IN  Into(ParseAnalyze(start), "statement", ParseExplained(ParseAnalyze(start)))

-----------------------------------------------------------------------------
(* Prepared statements.  What may be prepared is the session's business.   *)

ParsePrepareStatement(p) ==
    LET start == Yield(Expect(p, Kw("PREPARE")), [kind |-> "PREPARE", name |-> "", statement |-> Error])
        name  == Expect(ParseIdent(start, "name"), Kw("AS"))
    IN  Into(name, "statement", ParseStatement(name))

ParseValues(p) ==
    CASE Peek(p) # Sym("(")       -> p
      [] PeekSecond(p) = Sym(")") -> Advance(Advance(p))
      [] OTHER                    -> Into(p, "args", ParseParenList(p, "literal"))

ParseExecuteStatement(p) ==
    LET start == Yield(Expect(p, Kw("EXECUTE")), [kind |-> "EXECUTE", name |-> "", args |-> << >>])
    IN  ParseValues(ParseIdent(start, "name"))

ParseDeallocateStatement(p) ==
    ParseIdent(Yield(Expect(p, Kw("DEALLOCATE")), [kind |-> "DEALLOCATE", name |-> ""]), "name")

-----------------------------------------------------------------------------

(* One element of a list, and lists, whose elements commas separate.       *)
ParseElement(p, what) ==
    CASE what = "expr"       -> ParseExpr(p, 0)
      [] what = "item"       -> ParseSelectItem(p)
      [] what = "key"        -> ParseOrderByItem(p)
      [] what = "ident"      -> ExpectIdent(p)
      [] what = "row"        -> ParseParenList(p, "expr")
      [] what = "assignment" -> ParseAssignment(p)
      [] what = "column"     -> ParseColumnDef(p)
      [] what = "literal"    -> ParseLiteral(p)

Prepended(first, others) == Yield(others, << first.tree >> \o others.tree)

ParseListFrom(first, what) ==
    IF Peek(first) = Sym(",") THEN Prepended(first, ParseList(Advance(first), what)) ELSE Only(first)

ParseList(p, what) == ParseListFrom(ParseElement(p, what), what)

ParseStatement(p) ==
    LET word == IF Peek(p).is = "keyword" THEN Peek(p).name ELSE ""
    IN  CASE word = "SELECT"               -> ParseSelectStatement(p)
          [] word = "CREATE"               -> ParseCreateStatement(p)
          [] word = "DROP"                 -> ParseDropStatement(p)
          [] word = "INSERT"               -> ParseInsertStatement(p)
          [] word = "UPDATE"               -> ParseUpdateStatement(p)
          [] word = "DELETE"               -> ParseDeleteStatement(p)
          [] word = "EXPLAIN"              -> ParseExplainStatement(p)
          [] word \in {"ANALYZE", "VACUUM"} -> ParseMaintenance(p)
          [] word = "BEGIN"                -> ParseBeginStatement(p)
          [] word \in {"COMMIT", "ROLLBACK", "CHECKPOINT"} -> ParseWord(p)
          [] word = "PREPARE"              -> ParsePrepareStatement(p)
          [] word = "EXECUTE"              -> ParseExecuteStatement(p)
          [] word = "DEALLOCATE"           -> ParseDeallocateStatement(p)
          [] word = "SHOW"                 -> ParseShowStatement(p)
          [] word \in {"DESCRIBE", "DESC"} -> ParseDescribeStatement(p)
          [] OTHER                         -> Unexpected(p)

TreeOf(p) == IF p.ok THEN p.tree ELSE Error

(* parse_statement of a text: its tree, or Error.                          *)
Parsed(text) == TreeOf(ExpectEnd(ParseStatement(Start(text))))
=============================================================================
