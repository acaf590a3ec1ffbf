------------------------------ MODULE QueryText ------------------------------
(***************************************************************************)
(* fillGenQueryInpFromStrCond (rcMisc.cpp): from the string of a general   *)
(* query to the columns it selects and the conditions it puts on them. A   *)
(* text is the sequence of its words, brackets, commas and quotes; words   *)
(* have a blank between them.                                              *)
(***************************************************************************)
EXTENDS GrowingArrays, ColumnTable, FiniteSets

Ok == "ok"
Rejected(status) == [status |-> status, selectInp |-> Empty, sqlCondInp |-> Empty]
First(t, word) == SelectInSeq(t, LAMBDA w : w = word)
Before(t, i) == SubSeq(t, 1, i - 1)
After(t, i) == SubSeq(t, i + 1, Len(t))

\* The first row of a name counts.
columnId ==
    LET table == columnNames
        FirstRow(name) == CHOOSE i \in DOMAIN table :
            table[i][2] = name /\ \A j \in 1..(i - 1) : table[j][2] # name
    IN [name \in {table[i][2] : i \in DOMAIN table} |-> ColumnNumber[table[FirstRow(name)][1]]]
\* 0 stands for NO_COLUMN_NAME_FOUND.
getAttrIdFromAttrName(t) == IF Len(t) = 1 /\ t[1] \in DOMAIN columnId THEN columnId[t[1]] ELSE 0
NamesOfId ==
    LET id == columnId
    IN [cid \in {id[name] : name \in DOMAIN id} |-> {name \in DOMAIN id : id[name] = cid}]

\* A bracket that is not closed is no error.
separateSelFuncFromAttr(t) ==
    LET open == First(t, "(")
        rest == After(t, open)
    IN IF open = 0 THEN [aggOp |-> <<>>, colNm |-> t]
       ELSE [aggOp |-> Before(t, open),
             colNm |-> IF First(rest, ")") = 0 THEN rest ELSE Before(rest, First(rest, ")"))]

Functions == [sum |-> 4, SUM |-> 4, min |-> 2, MIN |-> 2, max |-> 3, MAX |-> 3, avg |-> 5, AVG |-> 5,
    count |-> 6, COUNT |-> 6, order |-> 1024, ORDER |-> 1024, order_desc |-> 2048, ORDER_DESC |-> 2048]
\* A function that is not known selects the column itself.
getSelVal(t) == IF Len(t) = 1 /\ t[1] \in DOMAIN Functions THEN Functions[t[1]] ELSE 1

\* No quote and no bracket of the text is left open; `in` is the quote a word
\* is inside of, and `open` the number of brackets.
goodStrExpr(t) ==
    LET Quote(s, w) == IF w = s.in THEN "" ELSE IF s.in = "" /\ w \in {"'", "\""} THEN w ELSE s.in
        Brackets(s, w) == IF s.in # "" THEN s.open ELSE IF w = "(" THEN s.open + 1
                          ELSE IF w = ")" /\ s.open > 0 THEN s.open - 1 ELSE s.open
        Read(s, w) == [in |-> Quote(s, w), open |-> Brackets(s, w)]
    IN FoldLeft(Read, [in |-> "", open |-> 0], t) = [in |-> "", open |-> 0]

\* The parts of t, each of which ends before the first word w for which
\* Ends(part, w), are taken one after another until one is rejected.
TakeParts(t, inp, Ends(_, _), Take(_, _)) ==
    LET Taken(s) == IF s.inp.status = Ok THEN Take(s.part, s.inp) ELSE s.inp
        Read(s, w) == IF Ends(s.part, w) THEN [part |-> <<>>, inp |-> Taken(s)]
                      ELSE [s EXCEPT !.part = Append(@, w)]
    IN Taken(FoldLeft(Read, [part |-> <<>>, inp |-> inp], t))

\* Mutant: any "and" ends a condition.
CondFromAnyString(cond, w) == w \in {"and", "AND"}
getCondFromString(cond, w) == w \in {"and", "AND"} /\ goodStrExpr(cond)

TakeCondition(cond, inp) ==
    LET n == getAttrIdFromAttrName(Before(cond, 2))
    IN IF Len(cond) < 2 THEN Rejected("INPUT_ARG_NOT_WELL_FORMED_ERR")
       ELSE IF n = 0 THEN Rejected("NO_COLUMN_NAME_FOUND")
       ELSE [inp EXCEPT !.sqlCondInp = addInxVal(@, n, Tail(cond))]
fillConditions(t, inp) == TakeParts(t, inp, getCondFromString, TakeCondition)

EndsItem(item, w) == w = ","
TakeItem(t, inp) ==
    LET item == separateSelFuncFromAttr(t)
        n == getAttrIdFromAttrName(item.colNm)
    IN IF n = 0 THEN Rejected("NO_COLUMN_NAME_FOUND")
       ELSE [inp EXCEPT !.selectInp = addInxIval(@, n, getSelVal(item.aggOp))]
fillSelection(t, inp) == TakeParts(t, inp, EndsItem, TakeItem)

\* The lower-case keyword first, wherever it is.
Keyword(t, lower, upper) == IF First(t, lower) # 0 THEN First(t, lower) ELSE First(t, upper)

fillGenQueryInpFromStrCond(text) ==
    LET select == Keyword(text, "select", "SELECT")
        t == After(text, select)
        where == Keyword(t, "where", "WHERE")
        selected == fillSelection(IF where = 0 THEN t ELSE Before(t, where), Rejected(Ok))
    IN IF select = 0 THEN Rejected("INPUT_ARG_NOT_WELL_FORMED_ERR")
       ELSE IF selected.status # Ok \/ where = 0 THEN selected
       ELSE fillConditions(After(t, where), selected)

-----------------------------------------------------------------------------
(* What a query string is written from: q = [select, where, upper], where  *)
(* a selection is [fn, name] and a condition [name, expr].                 *)

SelectionText(item) == IF item.fn = "" THEN <<item.name>> ELSE <<item.fn, "(", item.name, ")">>
CondText(cond) == <<cond.name>> \o cond.expr
Joined(texts, word) ==
    FoldLeft(LAMBDA t, u : IF t = <<>> THEN u ELSE t \o <<word>> \o u, <<>>, texts)
TextOf(q) ==
    <<IF q.upper THEN "SELECT" ELSE "select">>
    \o Joined([i \in DOMAIN q.select |-> SelectionText(q.select[i])], ",")
    \o (IF q.where = <<>> THEN <<>>
        ELSE <<IF q.upper THEN "WHERE" ELSE "where">>
             \o Joined([i \in DOMAIN q.where |-> CondText(q.where[i])], IF q.upper THEN "AND" ELSE "and"))

\* Texts that are read as they are written: the function is known, a
\* condition has no "and" outside brackets and quotes, as "between" has, and
\* a text in capitals does not have a keyword in small letters behind it.
Unambiguous(q) ==
    /\ \A i \in DOMAIN q.select : q.select[i].fn \in DOMAIN Functions \cup {""}
    /\ \A i \in DOMAIN q.where :
          LET expr == q.where[i].expr
          IN /\ expr # <<>> /\ goodStrExpr(expr)
             /\ \A j \in DOMAIN expr : expr[j] \in {"and", "AND"} => ~goodStrExpr(Before(expr, j))
             /\ q.upper => ToSet(expr) \cap {"select", "where"} = {}
NamesKnown(q) ==
    \A n \in {q.select[i].name : i \in DOMAIN q.select} \cup {q.where[i].name : i \in DOMAIN q.where} :
        n \in DOMAIN columnId

\* The selections and conditions q was written from, and no column that is
\* another one by its number.
Means(inp, q) ==
    /\ Fits(inp.selectInp) /\ Fits(inp.sqlCondInp)
    /\ [i \in DOMAIN inp.selectInp.items |->
          [fn |-> inp.selectInp.items[i].value, name |-> NamesOfId[inp.selectInp.items[i].key]]]
       = [i \in DOMAIN q.select |->
          [fn |-> IF q.select[i].fn = "" THEN 1 ELSE Functions[q.select[i].fn], name |-> {q.select[i].name}]]
    /\ [i \in DOMAIN inp.sqlCondInp.items |->
          [name |-> NamesOfId[inp.sqlCondInp.items[i].key], expr |-> inp.sqlCondInp.items[i].value]]
       = [i \in DOMAIN q.where |-> [name |-> {q.where[i].name}, expr |-> q.where[i].expr]]
=============================================================================
