------------------------------- MODULE SqlText -------------------------------
(***************************************************************************)
(* How statements are written, the reference the parser is compared with:  *)
(* the words of a statement, with parentheses only where the precedence of *)
(* SQL's operators needs them, briefly or with every word that may be left *)
(* out.                                                                    *)
(***************************************************************************)
EXTENDS SqlParser

Keywords(words) == [i \in DOMAIN words |-> Kw(words[i])]

Commas(texts) ==
    IF texts = << >> THEN << >>
    ELSE FoldLeft(LAMBDA text, next : text \o << Sym(",") >> \o next, texts[1], Tail(texts))

Parens(text) == << Sym("(") >> \o text \o << Sym(")") >>

-----------------------------------------------------------------------------
(* Expressions.  From the loosest to the tightest: OR, AND, NOT, the       *)
(* comparisons and IS, + and -, * and /, the sign; operators of the same   *)
(* precedence gather on the left.                                          *)

Precedence(e) ==
    IF e.kind # "op" THEN 8
    ELSE CASE e.op = "OR"          -> 1
           [] e.op = "AND"         -> 2
           [] e.op = "NOT"         -> 3
           [] e.op \in Compare \cup {"IS NULL", "IS NOT NULL"} -> 4
           [] e.op \in {"+", "-"}  -> 5
           [] e.op \in {"*", "/"}  -> 6
           [] e.op = "neg"         -> 7
           [] OTHER                -> 8

IsPostfix(o) == o \in {"IS NULL", "IS NOT NULL"}

OperatorText(o) ==
    CASE o = "IS NULL"     -> Keywords(<< "IS", "NULL" >>)
      [] o = "IS NOT NULL" -> Keywords(<< "IS", "NOT", "NULL" >>)
      [] o \in {"OR", "AND", "NOT"} -> << Kw(o) >>
      [] o = "neg"         -> << Sym("-") >>
      [] OTHER             -> << Sym(o) >>

ConstantText(e) ==
    CASE e.kind = "null"  -> << Kw("NULL") >>
      [] e.kind = "bool"  -> << Kw(IF e.truth THEN "TRUE" ELSE "FALSE") >>
      [] e.kind = "param" -> << ParamTok(e.index) >>
      [] e.kind = "int"   -> IF e.value < 0 THEN << Sym("-"), IntTok(- e.value) >> ELSE << IntTok(e.value) >>

RECURSIVE ExprText(_)
ExprText(e) ==
    LET operator  == OperatorText(e.op)
        Within(f, level) == IF Precedence(f) < level THEN Parens(ExprText(f)) ELSE ExprText(f)
        Arg(i)    == ExprText(e.args[i])
        isNumber  == e.args[1].kind = "int" /\ e.args[1].value >= 0
    IN  CASE e.kind \in {"null", "bool", "param", "int"} -> ConstantText(e)
          [] e.kind = "*"   -> << Sym("*") >>
          [] e.kind = "ref" -> (IF e.qual = "" THEN << >> ELSE << Id(e.qual), Sym(".") >>) \o << Id(e.name[1]) >>
          [] e.kind = "agg" -> << Id(e.func) >> \o Parens(IF e.args = << >> THEN << Sym("*") >> ELSE Arg(1))
          [] e.kind = "op"  ->
                CASE e.op = "()"      -> Parens(Arg(1))
                  [] e.op = "abs"     -> << Id(e.op) >> \o Parens(Arg(1))
                  [] e.op = "neg" /\ isNumber -> operator \o Parens(Arg(1))
                  [] e.op \in {"neg", "NOT"}  -> operator \o Within(e.args[1], Precedence(e))
                  [] IsPostfix(e.op)  -> Within(e.args[1], Precedence(e)) \o operator
                  [] OTHER -> Within(e.args[1], Precedence(e)) \o operator \o Within(e.args[2], Precedence(e) + 1)

ExprTexts(exprs) == Commas([i \in DOMAIN exprs |-> ExprText(exprs[i])])

-----------------------------------------------------------------------------
(* Statements                                                              *)

(* A clause with the words in front of it, if there is one.                *)
Clause(words, text) == IF text = << >> THEN << >> ELSE Keywords(words) \o text

TableText(t, full) ==
    << Id(t.table) >> \o (IF full \/ t.alias # t.table THEN << Kw("AS"), Id(t.alias) >> ELSE << >>)

JoinText(t, on, full) ==
    (IF full THEN Keywords(<< "INNER", "JOIN" >>) ELSE Keywords(<< "JOIN" >>))
        \o TableText(t, full) \o << Kw("ON") >> \o ExprText(on)

KeyText(key, full) ==
    ExprText(key.expr) \o (IF key.desc THEN << Kw("DESC") >> ELSE IF full THEN << Kw("ASC") >> ELSE << >>)

SelectText(s, full) ==
    Keywords(IF s.distinct THEN << "SELECT", "DISTINCT" >> ELSE << "SELECT" >>) \o ExprTexts(s.items)
      \o (IF s.from = << >> THEN << >> ELSE << Kw("FROM") >> \o TableText(s.from[1], full))
      \o FlattenSeq([i \in DOMAIN s.on |-> JoinText(s.from[i + 1], s.on[i], full)])
      \o Clause(<< "WHERE" >>, ExprTexts(s.where))
      \o Clause(<< "GROUP", "BY" >>, ExprTexts(s.group))
      \o Clause(<< "HAVING" >>, ExprTexts(s.having))
      \o Clause(<< "ORDER", "BY" >>, Commas([i \in DOMAIN s.order |-> KeyText(s.order[i], full)]))
      \o Clause(<< "LIMIT" >>, ExprTexts(s.limit))
      \o Clause(<< "OFFSET" >>, ExprTexts(s.offset))

ColumnText(c) ==
    << Id(c.name), Id(c.type) >>
      \o FlattenSeq([i \in 1..3 |->
            LET words == << << "NOT", "NULL" >>, << "PRIMARY", "KEY" >>, << "UNIQUE" >> >>[i]
            IN  IF words[1] \in c.constraints THEN Keywords(words) ELSE << >>])

Names(names) == [i \in DOMAIN names |-> << Id(names[i]) >>]

OptionalName(names) == Commas(Names(names))

RECURSIVE StatementText(_, _)
StatementText(s, full) ==
    CASE s.kind = "SELECT" -> SelectText(s.select, full)
      [] s.kind = "INSERT" ->
            Keywords(<< "INSERT", "INTO" >>) \o << Id(s.table) >>
              \o FlattenSeq([i \in DOMAIN s.columns |-> Parens(Commas(Names(s.columns[i])))])
              \o << Kw("VALUES") >> \o Commas([i \in DOMAIN s.rows |-> Parens(ExprTexts(s.rows[i]))])
      [] s.kind = "UPDATE" ->
            << Kw("UPDATE"), Id(s.table), Kw("SET") >>
              \o Commas([i \in DOMAIN s.set |-> << Id(s.set[i].column), Sym("=") >> \o ExprText(s.set[i].value)])
              \o Clause(<< "WHERE" >>, ExprTexts(s.where))
      [] s.kind = "DELETE" ->
            << Kw("DELETE"), Kw("FROM"), Id(s.table) >> \o Clause(<< "WHERE" >>, ExprTexts(s.where))
      [] s.kind = "CREATE TABLE" ->
            << Kw("CREATE"), Kw("TABLE"), Id(s.table) >>
              \o Parens(Commas([i \in DOMAIN s.columns |-> ColumnText(s.columns[i])]))
      [] s.kind = "CREATE INDEX" ->
            << Kw("CREATE") >> \o (IF s.unique THEN << Kw("UNIQUE") >> ELSE << >>)
              \o << Kw("INDEX"), Id(s.index), Kw("ON"), Id(s.table) >> \o Parens(<< Id(s.column) >>)
      [] s.kind = "DROP TABLE" -> << Kw("DROP"), Kw("TABLE"), Id(s.table) >>
      [] s.kind = "DROP INDEX" -> << Kw("DROP"), Kw("INDEX"), Id(s.index) >>
      [] s.kind = "BEGIN" ->
            << Kw("BEGIN") >> \o FlattenSeq([i \in DOMAIN s.level |->
                Keywords(<< "ISOLATION", "LEVEL" >>
                    \o (CASE s.level[i] = "REPEATABLE"   -> << "REPEATABLE", "READ" >>
                          [] s.level[i] = "SERIALIZABLE" -> << "SERIALIZABLE" >>
                          [] OTHER                       -> << "READ", s.level[i] >>))])
      [] s.kind \in {"COMMIT", "ROLLBACK", "CHECKPOINT"} -> << Kw(s.kind) >>
      [] s.kind \in {"ANALYZE", "VACUUM"} -> << Kw(s.kind) >> \o OptionalName(s.table)
      [] s.kind = "SHOW"     -> << Kw("SHOW"), Kw(s.what) >> \o Clause(<< "FROM" >>, OptionalName(s.table))
      [] s.kind = "DESCRIBE" -> << Kw(IF full THEN "DESCRIBE" ELSE "DESC"), Id(s.table) >>
      [] s.kind = "EXPLAIN"  ->
            Keywords(IF s.analyze THEN << "EXPLAIN", "ANALYZE" >> ELSE << "EXPLAIN" >>)
              \o StatementText(s.statement, full)
      [] s.kind = "PREPARE"  -> << Kw("PREPARE"), Id(s.name), Kw("AS") >> \o StatementText(s.statement, full)
      [] s.kind = "EXECUTE"  ->
            << Kw("EXECUTE"), Id(s.name) >>
              \o (IF s.args = << >> /\ ~ full THEN << >> ELSE Parens(ExprTexts(s.args)))
      [] s.kind = "DEALLOCATE" -> << Kw("DEALLOCATE"), Id(s.name) >>

Brief(s) == StatementText(s, FALSE)
Full(s)  == StatementText(s, TRUE) \o << Sym(";") >>

(* Two statements in one text.                                             *)
Twice(s) == Brief(s) \o << Sym(";") >> \o Brief(s)

(* How many values the placeholders of a text need, and the statement that *)
(* it is with values written out.                                          *)
Placeholders(text) == Max({0} \cup {t.n : t \in {u \in ToSet(text) : u.is = "param"}})

WrittenOut(text, args) ==
    Parsed(FlattenSeq([i \in DOMAIN text |->
        IF text[i].is = "param" THEN ExprText(args[text[i].n]) ELSE << text[i] >>]))
=============================================================================
