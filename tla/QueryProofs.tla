---- MODULE QueryProofs ----
(***************************************************************************)
(* Proofs about Query: which statements are open at the catalog, where an  *)
(* iterator is in the current page, and where a loop ends, for any number  *)
(* of rows, page size and limit.                                           *)
(***************************************************************************)
EXTENDS Query, TLAPS

(* A page that is there has rows of the result set, and continues if rows  *)
(* are left behind it. Its statement goes on where it ends.                *)
PageInv ==
    output # NoPage =>
        /\ output.first >= 1 /\ output.rowCnt >= 1
        /\ output.first + output.rowCnt - 1 <= rows
        /\ output.continueInx = 0 => output.first + output.rowCnt - 1 = rows
        /\ output.continueInx # 0 =>
               cursor[output.continueInx] = output.first + output.rowCnt

(* Between the queries there is no page. *)
NoQueryInv == ~Referenced => output = NoPage

(* Each open statement has one reason. *)
StatementInv ==
    /\ StatementKnown
    /\ unclosed \cap forgotten = {}
    /\ output.continueInx \notin unclosed \cup forgotten

(* An iterator without a query is at the end. *)
EndInv ==
    \A i \in Iterators : /\ it[i].live /\ ~it[i].end => it[i].impl
                         /\ it[i].impl => it[i].live

(* One pass: at most one iterator, none before it, and when it begins the  *)
(* query is on its first page.                                             *)
PassInv ==
    /\ passes = 0 => \A i \in Iterators : ~it[i].impl
    /\ passes < 2 => \A i, j \in Iterators : it[i].impl /\ it[j].impl => i = j
    /\ passes = 0 /\ query = "live" /\ rows > 0 => output.first = 1 /\ output.rowCnt >= 1

(* The iterator of one pass counts its rows, and is below the limit.       *)
Counts(i) ==
    it[i].impl =>
        /\ it[i].row = it[i].total + 1
        /\ ~it[i].end /\ query_limit # 0 /\ ~crashed => it[i].total < query_limit

CountInv == passes < 2 => \A i \in Iterators : Counts(i)

Inv ==
    /\ TypeOK
    /\ PageInv
    /\ NoQueryInv
    /\ StatementInv
    /\ EndInv
    /\ PassInv
    /\ CountInv
    /\ IteratorDenotesRow
    /\ EndExact


IterType == [live : BOOLEAN, impl : BOOLEAN, end : BOOLEAN,
             rowIdx : Nat, total : Nat, row : Nat]
PageType == [first : Nat, rowCnt : Nat, continueInx : Handles \cup {0}]

----------------------------------------------------------------------------
(* Facts about the catalog *)

\* What is left of the limit is a number.
LEMMA LimitType == ASSUME TypeOK PROVE query_limit \in Nat
    BY LimitAssumption DEF TypeOK, query_limit

\* No handle is 0.
LEMMA NoHandleIsZero == 0 \notin Handles
    BY HandleAssumption

\* The outcomes of one page from row `from` on, of statement h.
LEMMA PageFacts ==
    ASSUME rows \in Nat, NEW cur \in [Handles -> Nat], NEW h \in Handles, NEW from \in Nat \ {0},
           NEW r \in Page(cur, h, from)
    PROVE  /\ r.cursor \in [Handles -> Nat] /\ r.output \in PageType
           /\ \A k \in Handles \ {h} : r.cursor[k] = cur[k]
           /\ \/ /\ r.err = "no_rows" /\ rows < from
                 /\ r.output = NoPage /\ r.cursor[h] = 0
              \/ /\ r.err = "ok"
                 /\ r.output.first = from /\ r.output.rowCnt >= 1
                 /\ from + r.output.rowCnt - 1 <= rows
                 /\ \/ /\ r.output.continueInx = 0 /\ r.cursor[h] = 0
                       /\ from + r.output.rowCnt - 1 = rows
                    \/ /\ r.output.continueInx = h
                       /\ r.cursor[h] = from + r.output.rowCnt
<1> DEFINE left == IF rows < from THEN 0 ELSE rows - from + 1
           cnt  == IF left < PageSize THEN left ELSE PageSize
           more == {m \in BOOLEAN : (m => cnt = PageSize) /\ (left > cnt => m)}
           Full(m) == [err |-> "ok",
                       output |-> [first |-> from, rowCnt |-> cnt,
                                   continueInx |-> IF m THEN h ELSE 0],
                       cursor |-> [cur EXCEPT ![h] = IF m THEN from + cnt ELSE 0]]
<1>1. left \in Nat /\ cnt \in Nat /\ cnt <= left
    BY SizeAssumption
<1>2. cnt # 0 /\ ~(left > cnt) => from + cnt - 1 = rows
    BY <1>1, SizeAssumption
<1>3. CASE cnt = 0
    <2>1. r = [err |-> "no_rows", output |-> NoPage, cursor |-> [cur EXCEPT ![h] = 0]]
        BY <1>3 DEF Page
    <2>2. rows < from
        BY <1>3, SizeAssumption
    <2>3. r.err = "no_rows" /\ r.output = NoPage /\ r.cursor = [cur EXCEPT ![h] = 0]
        BY <2>1
    <2>4. NoPage \in PageType
        BY DEF NoPage, PageType
    <2> QED BY <2>2, <2>3, <2>4
<1>4. CASE cnt # 0
    <2>1. PICK m \in more : r = Full(m)
        BY <1>4 DEF Page
    <2>2. cnt >= 1 /\ from + cnt - 1 <= rows
        BY <1>1, <1>4
    <2>3. ~m => from + cnt - 1 = rows
        <3>1. ~m => ~(left > cnt)
            BY Zenon
        <3> HIDE DEF left, cnt, more
        <3> QED BY <1>4, <1>2, <3>1, Zenon
    <2> HIDE DEF left, cnt, more
    <2>4. CASE m
        BY <1>1, <2>1, <2>2, <2>4 DEF PageType
    <2>5. CASE ~m
        BY <1>1, <2>1, <2>2, <2>3, <2>5 DEF PageType
    <2> QED BY <2>4, <2>5
<1> QED BY <1>3, <1>4

\* An answer gives up the statement that was asked, or makes it or a new one
\* that of its page; a failure changes nothing.
LEMMA ReplyFacts ==
    ASSUME rows \in Nat, NEW cur \in [Handles -> Nat], NEW cont \in Handles \cup {0},
           cont # 0 => cur[cont] # 0, NEW r \in Replies(cur, cont)
    PROVE  LET from == IF cont = 0 THEN 1 ELSE cur[cont]
           IN  /\ r.cursor \in [Handles -> Nat] /\ r.output \in PageType
               /\ \/ r.err = "failed" /\ r.output = NoPage /\ r.cursor = cur
                  \/ /\ r.err \in {"ok", "no_rows"}
                     /\ r.output.continueInx \notin OpenIn(cur) \ {cont}
                     /\ OpenIn(r.cursor) =
                            (OpenIn(cur) \ {cont}) \cup ({r.output.continueInx} \ {0})
               /\ r.err = "no_rows" => r.output = NoPage /\ rows < from
               /\ r.err = "ok" =>
                    /\ r.output.first = from /\ r.output.rowCnt >= 1
                    /\ from + r.output.rowCnt - 1 <= rows
                    /\ r.output.continueInx = 0 => from + r.output.rowCnt - 1 = rows
                    /\ r.output.continueInx # 0 =>
                           r.cursor[r.output.continueInx] = from + r.output.rowCnt
<1> DEFINE from == IF cont = 0 THEN 1 ELSE cur[cont]
<1>1. from \in Nat \ {0}
    BY NoHandleIsZero
<1>2. CASE r = [err |-> "failed", output |-> NoPage, cursor |-> cur]
    BY <1>2 DEF NoPage, PageType
<1>3. CASE \E h \in Handles : /\ r \in Page(cur, h, from)
                              /\ IF cont = 0 THEN cur[h] = 0 ELSE h = cont
    <2> PICK h \in Handles : /\ r \in Page(cur, h, from)
                             /\ IF cont = 0 THEN cur[h] = 0 ELSE h = cont
        BY <1>3
    <2> HIDE DEF from
    <2>1. /\ r.cursor \in [Handles -> Nat] /\ r.output \in PageType
          /\ \A k \in Handles \ {h} : r.cursor[k] = cur[k]
          /\ \/ /\ r.err = "no_rows" /\ rows < from
                /\ r.output = NoPage /\ r.cursor[h] = 0
             \/ /\ r.err = "ok"
                /\ r.output.first = from /\ r.output.rowCnt >= 1
                /\ from + r.output.rowCnt - 1 <= rows
                /\ \/ /\ r.output.continueInx = 0 /\ r.cursor[h] = 0
                      /\ from + r.output.rowCnt - 1 = rows
                   \/ /\ r.output.continueInx = h
                      /\ r.cursor[h] = from + r.output.rowCnt
        BY <1>1, PageFacts
    <2>2. OpenIn(cur) \ {cont} = OpenIn(cur) \ {h}
        BY NoHandleIsZero DEF OpenIn
    <2>3. r.output.continueInx \in {0, h}
        BY <2>1 DEF NoPage
    <2>4. r.cursor[h] # 0 <=> r.output.continueInx = h
        BY <1>1, <2>1, NoHandleIsZero DEF NoPage, PageType
    <2>5. OpenIn(r.cursor) = (OpenIn(cur) \ {h}) \cup ({r.output.continueInx} \ {0})
        BY <2>1, <2>3, <2>4, NoHandleIsZero DEF OpenIn
    <2>6. r.output.continueInx \notin OpenIn(cur) \ {cont}
        BY <2>2, <2>3, NoHandleIsZero DEF OpenIn
    <2> QED BY <2>1, <2>2, <2>3, <2>5, <2>6, NoHandleIsZero DEF from
<1>4. CASE r \in IF cont = 0 THEN UNION {Page(cur, h, 1) : h \in Handles \ OpenIn(cur)}
                             ELSE Page(cur, cont, cur[cont])
    <2>1. \E h \in Handles : r \in Page(cur, h, from) /\ IF cont = 0 THEN cur[h] = 0 ELSE h = cont
        BY <1>4 DEF OpenIn
    <2> QED BY <2>1, <1>3
<1>5. r = [err |-> "failed", output |-> NoPage, cursor |-> cur]
      \/ r \in IF cont = 0 THEN UNION {Page(cur, h, 1) : h \in Handles \ OpenIn(cur)}
                           ELSE Page(cur, cont, cur[cont])
    BY DEF Replies
<1> QED BY <1>2, <1>4, <1>5

\* Closing a page's statement closes it, or the request fails.
LEMMA CloseFacts ==
    ASSUME NEW cur \in [Handles -> Nat], NEW out \in PageType, Close(cur, out)
    PROVE  /\ cursor' \in [Handles -> Nat]
           /\ \/ /\ OpenIn(cursor') = OpenIn(cur) \ {out.continueInx}
                 /\ unclosed' = unclosed
              \/ /\ out.continueInx # 0
                 /\ cursor' = cur
                 /\ unclosed' = unclosed \cup {out.continueInx}
<1>1. CASE out.continueInx = 0
    BY <1>1, NoHandleIsZero DEF Close, OpenIn
<1>2. CASE out.continueInx # 0
    <2>1. out.continueInx \in Handles
        BY <1>2 DEF PageType
    <2>2. CASE cursor' = [cur EXCEPT ![out.continueInx] = 0] /\ unclosed' = unclosed
        BY <2>1, <2>2 DEF OpenIn
    <2> QED BY <1>2, <2>2 DEF Close
<1> QED BY <1>1, <1>2

\* Setting fields of an iterator leaves it one.
LEMMA FieldTypes ==
    ASSUME NEW r \in IterType, NEW n \in Nat, NEW b \in BOOLEAN
    PROVE  /\ [r EXCEPT !.rowIdx = n] \in IterType
           /\ [r EXCEPT !.end = b, !.rowIdx = n] \in IterType
           /\ [r EXCEPT !.rowIdx = n, !.end = b] \in IterType
    BY DEF IterType

\* The iterator after one more row is one.
LEMMA CountedType ==
    ASSUME TypeOK, NEW i \in Iterators
    PROVE  Counted(i) \in IterType
<1>1. \A r \in IterType, m \in Nat, n \in Nat :
         [r EXCEPT !.total = m, !.row = n] \in IterType
    BY DEF IterType
<1>2. it[i] \in IterType
    BY DEF TypeOK, IterType
<1>3. Counted(i) = [it[i] EXCEPT !.total = it[i].total + 1, !.row = it[i].row + 1]
    BY DEF Counted
<1>4. it[i].total + 1 \in Nat /\ it[i].row + 1 \in Nat
    BY <1>2 DEF IterType
<1> QED BY <1>1, <1>3, <1>4, <1>2

----------------------------------------------------------------------------
(* Iterators made, copied and advanced *)

\* begin and end: an iterator of the first row, or of none.
LEMMA BeginKeeps == ASSUME Inv, NEW i \in Iterators, Begin(i) PROVE Inv'
<1> USE DEF Inv, vars, input
<1>1. TypeOK'
    <2>1. Iter \in IterType
        BY DEF Iter, EndIterator, FirstIterator, NoIterator, IterType
    <2>2. it' \in [Iterators -> IterType]
        BY <2>1 DEF TypeOK, IterType, Begin
    <2> QED BY <2>2 DEF TypeOK, Begin, IterType
<1>2. PageInv'
    BY DEF PageInv, Begin
<1>3. NoQueryInv'
    BY DEF NoQueryInv, Referenced, Begin
<1>4. StatementInv'
    BY DEF StatementInv, StatementKnown, Begin
<1>5. EndInv'
    BY DEF EndInv, Begin, Iter, EndIterator, FirstIterator, NoIterator
<1>6. PassInv'
    BY DEF PassInv, Begin
<1>7. CountInv'
    <2>1. query_limit \in Nat /\ query_limit' = query_limit
        BY LimitType DEF Begin, query_limit
    <2> QED BY <2>1 DEF CountInv, Counts, TypeOK, Begin, Iter, EndIterator, FirstIterator,
                        NoIterator
<1>8. IteratorDenotesRow'
    BY DEF IteratorDenotesRow, DenotesRow, TypeOK, PassInv, Begin, Iter, EndIterator,
           FirstIterator, NoIterator
<1>9. EndExact'
    BY DEF EndExact, RowsDue, Begin, Iter, EndIterator, FirstIterator, NoIterator, query_limit
<1> QED BY <1>1, <1>2, <1>3, <1>4, <1>5, <1>6, <1>7, <1>8, <1>9

\* A copy is where its original is.
LEMMA CopyKeeps == ASSUME Inv, NEW i \in Iterators, NEW j \in Iterators, Copy(i, j) PROVE Inv'
<1> USE DEF Inv, vars, input
<1>1. TypeOK'
    BY DEF TypeOK, Copy
<1>2. PageInv'
    BY DEF PageInv, TypeOK, Copy
<1>3. NoQueryInv'
    <2>1. Referenced => Referenced'
        BY DEF Referenced, Copy, TypeOK, EndInv
    <2> QED BY <2>1 DEF NoQueryInv, Copy
<1>4. StatementInv'
    BY DEF StatementInv, StatementKnown, Copy
<1>5. EndInv'
    BY DEF EndInv, TypeOK, Copy
<1>6. PassInv'
    BY DEF PassInv, TypeOK, Copy
<1>7. CountInv'
    BY DEF CountInv, Copy
<1>8. IteratorDenotesRow'
    BY DEF IteratorDenotesRow, Copy
<1>9. EndExact'
    BY DEF EndExact, Copy
<1> QED BY <1>1, <1>2, <1>3, <1>4, <1>5, <1>6, <1>7, <1>8, <1>9

\* An iterator that is not at the end has a query.
LEMMA HasQuery ==
    ASSUME EndInv, NEW i \in Iterators, it[i].live, ~it[i].end
    PROVE  it[i].impl
    BY DEF EndInv

\* In one pass, the iterator that is advanced is in its page and below the
\* limit.
LEMMA AdvancingFacts ==
    ASSUME Inv, NEW i \in Iterators, Advancing(i), passes < 2
    PROVE  /\ it[i].impl
           /\ it[i].row \in Nat /\ it[i].total \in Nat /\ it[i].rowIdx \in Nat
           /\ it[i].row = it[i].total + 1
           /\ query_limit # 0 => it[i].total < query_limit
           /\ it[i].rowIdx < output.rowCnt
           /\ output.first + it[i].rowIdx = it[i].row
           /\ output # NoPage /\ output.first \in Nat /\ output.rowCnt \in Nat
           /\ it[i].row <= rows /\ rows \in Nat /\ query_limit \in Nat
<1> USE DEF Inv
<1>1. it[i].impl /\ ~it[i].end /\ ~crashed /\ it[i].live
    BY HasQuery DEF Advancing
<1>2. it[i].row \in Nat /\ it[i].total \in Nat /\ it[i].rowIdx \in Nat
    BY DEF TypeOK
<1>3. /\ it[i].impl /\ ~it[i].end /\ ~crashed /\ it[i].live
      /\ it[i].row \in Nat /\ it[i].total \in Nat /\ it[i].rowIdx \in Nat
    BY <1>1, <1>2
<1>4. /\ it[i].row = it[i].total + 1
      /\ query_limit # 0 => it[i].total < query_limit
      /\ it[i].rowIdx < output.rowCnt
      /\ output.first + it[i].rowIdx = it[i].row
    BY <1>3 DEF CountInv, Counts, IteratorDenotesRow, DenotesRow
<1>5. output # NoPage /\ output.first \in Nat /\ output.rowCnt \in Nat
    BY <1>3, <1>4 DEF NoPage, TypeOK
<1>6. it[i].row <= rows /\ rows \in Nat /\ query_limit \in Nat
    BY <1>3, <1>4, <1>5, SizeAssumption, LimitType DEF PageInv, TypeOK
<1> QED BY <1>3, <1>4, <1>5, <1>6

\* At the limit or at the last row of the last page the iterator becomes the end.
LEMMA AdvanceToEndKeeps == ASSUME Inv, NEW i \in Iterators, AdvanceToEnd(i) PROVE Inv'
<1> USE DEF Inv, vars, input
<1>1. TypeOK'
    <2> DEFINE rowIdx == IF LimitExceeded(Counted(i).total) THEN Counted(i).rowIdx
                         ELSE Counted(i).rowIdx + 1
               n == [Counted(i) EXCEPT !.end = TRUE, !.rowIdx = rowIdx]
    <2>1. Counted(i) \in IterType
        BY CountedType
    <2>2. rowIdx \in Nat
        BY <2>1 DEF IterType
    <2>3. it' = [it EXCEPT ![i] = n]
        BY <2>1 DEF AdvanceToEnd, IterType
    <2> HIDE DEF rowIdx
    <2>4. n \in IterType
        BY <2>1, <2>2, FieldTypes
    <2> HIDE DEF n
    <2> QED BY <2>3, <2>4 DEF TypeOK, AdvanceToEnd, IterType
<1>2. PageInv'
    BY DEF PageInv, AdvanceToEnd
<1>3. NoQueryInv'
    BY DEF NoQueryInv, Referenced, AdvanceToEnd, Counted
<1>4. StatementInv'
    BY DEF StatementInv, StatementKnown, AdvanceToEnd
<1>5. EndInv'
    BY DEF EndInv, AdvanceToEnd, Counted
<1>6. PassInv'
    BY DEF PassInv, AdvanceToEnd, Counted
<1>7. CountInv'
    BY DEF CountInv, Counts, AdvanceToEnd, Counted, query_limit
<1>8. IteratorDenotesRow'
    BY DEF IteratorDenotesRow, DenotesRow, AdvanceToEnd
<1>9. EndExact'
    <2> SUFFICES ASSUME passes < 2, NEW j \in Iterators, it'[j].impl, it'[j].end
                 PROVE  it'[j].row = RowsDue + 1
        BY DEF EndExact, AdvanceToEnd, RowsDue, query_limit
    <2>1. CASE j # i
        BY <2>1 DEF EndExact, AdvanceToEnd, TypeOK
    <2>2. CASE j = i
        <3>1. Advancing(i) /\ it'[i].row = it[i].row + 1
            BY DEF AdvanceToEnd, Counted, TypeOK
        <3>2. CASE LimitExceeded(it[i].total + 1)
            BY <2>2, <3>1, <3>2, AdvancingFacts DEF LimitExceeded, RowsDue
        <3>3. CASE ~LimitExceeded(it[i].total + 1)
            <4>1. it[i].rowIdx + 1 >= output.rowCnt /\ output.continueInx = 0
                BY <3>3 DEF AdvanceToEnd, Counted, TypeOK
            <4>2. it[i].row = rows
                BY <3>1, <4>1, AdvancingFacts DEF PageInv
            <4> QED BY <2>2, <3>1, <3>3, <4>2, AdvancingFacts DEF LimitExceeded, RowsDue
        <3> QED BY <3>2, <3>3
    <2> QED BY <2>1, <2>2
<1> QED BY <1>1, <1>2, <1>3, <1>4, <1>5, <1>6, <1>7, <1>8, <1>9

\* The next row of the page.
LEMMA AdvanceInPageKeeps == ASSUME Inv, NEW i \in Iterators, AdvanceInPage(i) PROVE Inv'
<1> USE DEF Inv, vars, input
<1>1. TypeOK'
    <2> DEFINE n == [Counted(i) EXCEPT !.rowIdx = Counted(i).rowIdx + 1]
    <2>1. Counted(i) \in IterType
        BY CountedType
    <2>2. Counted(i).rowIdx + 1 \in Nat
        BY <2>1 DEF IterType
    <2>3. n \in IterType
        BY <2>1, <2>2, FieldTypes
    <2>4. it' = [it EXCEPT ![i] = n]
        BY DEF AdvanceInPage
    <2> HIDE DEF n
    <2> QED BY <2>4, <2>3 DEF TypeOK, AdvanceInPage, IterType
<1>2. PageInv'
    BY DEF PageInv, AdvanceInPage
<1>3. NoQueryInv'
    BY DEF NoQueryInv, Referenced, AdvanceInPage, Counted
<1>4. StatementInv'
    BY DEF StatementInv, StatementKnown, AdvanceInPage
<1>5. EndInv'
    BY DEF EndInv, AdvanceInPage, Counted
<1>6. PassInv'
    BY DEF PassInv, AdvanceInPage, Counted
<1>7. CountInv'
    <2>1. query_limit \in Nat /\ query_limit' = query_limit
        BY LimitType DEF AdvanceInPage, query_limit
    <2> QED BY <2>1 DEF CountInv, Counts, TypeOK, LimitExceeded, AdvanceInPage, Counted
<1>8. IteratorDenotesRow'
    BY DEF IteratorDenotesRow, DenotesRow, TypeOK, AdvanceInPage, Counted
<1>9. EndExact'
    BY DEF EndExact, RowsDue, AdvanceInPage, Advancing, Counted, query_limit
<1> QED BY <1>1, <1>2, <1>3, <1>4, <1>5, <1>6, <1>7, <1>8, <1>9

\* An iterator that has no query crashes the program.
LEMMA AdvanceNullKeeps == ASSUME Inv, NEW i \in Iterators, AdvanceNull(i) PROVE Inv'
<1> USE DEF Inv, vars, input
<1>1. TypeOK'
    BY DEF TypeOK, AdvanceNull, Advancing
<1>2. PageInv'
    BY DEF PageInv, TypeOK, AdvanceNull, Advancing
<1>3. NoQueryInv'
    BY DEF NoQueryInv, AdvanceNull
<1>4. StatementInv'
    BY DEF StatementInv, StatementKnown, AdvanceNull
<1>5. EndInv'
    BY DEF EndInv, TypeOK, AdvanceNull, Advancing
<1>6. PassInv'
    BY DEF PassInv, TypeOK, AdvanceNull, Advancing
<1>7. CountInv'
    BY DEF CountInv, Counts, AdvanceNull
<1>8. IteratorDenotesRow'
    BY DEF IteratorDenotesRow, AdvanceNull
<1>9. EndExact'
    BY DEF EndExact, RowsDue, AdvanceNull, query_limit
<1> QED BY <1>1, <1>2, <1>3, <1>4, <1>5, <1>6, <1>7, <1>8, <1>9

\* The next page, its failure, or its lack.
LEMMA AdvanceToPageKeeps == ASSUME Inv, NEW i \in Iterators, AdvanceToPage(i) PROVE Inv'
<1> USE DEF Inv
<1> DEFINE c == output.continueInx
           from == cursor[c]
<1>1. ~crashed /\ it[i].live /\ ~it[i].end /\ it[i].impl
    BY HasQuery DEF AdvanceToPage, Advancing
<1>2. rows \in Nat /\ limit \in Nat /\ cursor \in [Handles -> Nat]
    BY SizeAssumption DEF TypeOK
<1>3. /\ ~crashed /\ it[i].live /\ ~it[i].end /\ it[i].impl
      /\ rows \in Nat /\ limit \in Nat /\ passes # 0
      /\ cursor \in [Handles -> Nat]
    BY <1>1, <1>2 DEF PassInv
<1>4. /\ c \in Handles /\ c # 0
      /\ from = output.first + output.rowCnt /\ from \in Nat \ {0}
      /\ output # NoPage
    BY DEF AdvanceToPage, PageInv, TypeOK, NoPage
<1>5. PICK r \in Replies(cursor, c) :
         /\ cursor' = r.cursor
         /\ output' = r.output
         /\ it' = [it EXCEPT ![i] = [Counted(i) EXCEPT !.rowIdx = 0, !.end = r.err = "no_rows"]]
         /\ crashed' = (r.err = "failed")
    BY DEF AdvanceToPage
<1>6. /\ UNCHANGED <<type, text, rows, limit, query, genInput, passes, unclosed, forgotten>>
      /\ continueInx' = c
      /\ ~LimitExceeded(Counted(i).total)
      /\ it[i].rowIdx + 1 >= output.rowCnt
    BY DEF AdvanceToPage, input
<1>7. /\ r.cursor \in [Handles -> Nat] /\ r.output \in PageType
      /\ \/ r.err = "failed" /\ r.output = NoPage /\ r.cursor = cursor
         \/ /\ r.err \in {"ok", "no_rows"}
            /\ r.output.continueInx \notin OpenIn(cursor) \ {c}
            /\ OpenIn(r.cursor) = (OpenIn(cursor) \ {c}) \cup ({r.output.continueInx} \ {0})
      /\ r.err = "no_rows" => r.output = NoPage /\ rows < from
      /\ r.err = "ok" =>
            /\ r.output.first = from /\ r.output.rowCnt >= 1
            /\ from + r.output.rowCnt - 1 <= rows
            /\ r.output.continueInx = 0 => from + r.output.rowCnt - 1 = rows
            /\ r.output.continueInx # 0 =>
                   r.cursor[r.output.continueInx] = from + r.output.rowCnt
    BY <1>3, <1>4, ReplyFacts
<1>8. TypeOK'
    <2>1. Counted(i) \in IterType
        BY CountedType
    <2>2. (r.err = "no_rows") \in BOOLEAN
        OBVIOUS
    <2>3. [Counted(i) EXCEPT !.rowIdx = 0, !.end = r.err = "no_rows"] \in IterType
        BY <2>1, <2>2, FieldTypes
    <2>4. it' \in [Iterators -> IterType]
        BY <1>5, <2>3 DEF TypeOK, IterType
    <2>5. crashed' \in BOOLEAN
        BY <1>5
    <2> HIDE DEF c
    <2> QED BY <1>4, <1>5, <1>6, <1>7, <2>4, <2>5 DEF TypeOK, IterType, PageType
<1> HIDE DEF c, from
<1>9. \A j \in Iterators :
         /\ it'[j].live = it[j].live /\ it'[j].impl = it[j].impl
         /\ j # i => it'[j] = it[j]
    BY <1>5 DEF Counted, TypeOK
<1>10. /\ it'[i].total = it[i].total + 1 /\ it'[i].row = it[i].row + 1
      /\ it'[i].rowIdx = 0 /\ it'[i].end = (r.err = "no_rows")
    BY <1>5 DEF Counted, TypeOK
<1>11. PageInv'
    BY <1>4, <1>5, <1>6, <1>7 DEF PageInv, NoPage, PageType
<1>12. NoQueryInv'
    BY <1>3, <1>9 DEF NoQueryInv, Referenced
<1>13. StatementInv'
    <2>1. /\ OpenIn(cursor) = {c} \cup unclosed \cup forgotten
          /\ c \notin unclosed \cup forgotten
          /\ unclosed \cap forgotten = {}
          /\ type = "GENERAL" => forgotten = {}
          /\ 0 \notin unclosed \cup forgotten
        BY <1>3, <1>4, NoHandleIsZero DEF StatementInv, StatementKnown, TypeOK, c
    <2>2. CASE r.err = "failed"
        <3>1. crashed'
            BY <1>5, <2>2
        <3>2. output'.continueInx = 0
            BY <1>5, <1>7, <2>2 DEF NoPage
        <3> QED BY <1>6, <2>1, <3>1, <3>2 DEF StatementInv, StatementKnown
    <2>3. CASE r.err # "failed"
        <3>1. /\ output'.continueInx \notin unclosed \cup forgotten
              /\ OpenIn(cursor') = unclosed \cup forgotten \cup ({output'.continueInx} \ {0})
            BY <1>5, <1>7, <2>1, <2>3
        <3> QED BY <1>6, <2>1, <3>1 DEF StatementInv, StatementKnown, OpenIn
    <2> QED BY <2>2, <2>3
<1>14. EndInv'
    BY <1>3, <1>9 DEF EndInv
<1>15. PassInv'
    BY <1>3, <1>6, <1>9 DEF PassInv
<1>16. CountInv'
    <2> SUFFICES ASSUME passes < 2, NEW j \in Iterators PROVE Counts(j)'
        BY <1>6 DEF CountInv
    <2>1. CASE j # i
        BY <1>3, <1>5, <1>6, <1>9, <2>1 DEF CountInv, Counts, query_limit
    <2>2. CASE j = i
        <3>1. it[i].row = it[i].total + 1
            BY <1>3 DEF CountInv, Counts
        <3>2. query_limit # 0 => it'[i].total < query_limit
            BY <1>3, <1>6, <1>10, LimitType DEF LimitExceeded, Counted, TypeOK
        <3>3. query_limit' = query_limit
            BY <1>6 DEF query_limit
        <3> QED BY <1>6, <1>10, <2>2, <3>1, <3>2, <3>3 DEF Counts
    <2> QED BY <2>1, <2>2
<1>17. IteratorDenotesRow'
    <2> SUFFICES ASSUME passes < 2, ~crashed', NEW j \in Iterators, it'[j].live, ~it'[j].end
                 PROVE  /\ it'[j].rowIdx < output'.rowCnt
                        /\ output'.first + it'[j].rowIdx = it'[j].row
        BY <1>6 DEF IteratorDenotesRow, DenotesRow
    <2>1. j = i
        <3>1. j # i => it[j].impl
            BY <1>9, HasQuery
        <3> QED BY <1>3, <3>1 DEF PassInv
    <2>2. r.err = "ok"
        BY <1>5, <1>7, <1>10, <2>1
    <2>3. Advancing(i)
        BY <1>3 DEF Advancing
    <2>4. from = it[i].row + 1
        BY <1>4, <1>6, <2>3, AdvancingFacts
    <2> QED BY <1>4, <1>5, <1>7, <1>10, <2>1, <2>2, <2>4 DEF PageType
<1>18. EndExact'
    <2> SUFFICES ASSUME passes < 2, NEW j \in Iterators, it'[j].impl, it'[j].end
                 PROVE  it'[j].row = RowsDue + 1
        BY <1>6 DEF EndExact, RowsDue, query_limit
    <2>1. CASE j # i
        BY <1>9, <2>1 DEF EndExact
    <2>2. CASE j = i
        <3>1. rows < from
            BY <1>7, <1>10, <2>2
        <3>2. Advancing(i)
            BY <1>3 DEF Advancing
        <3>3. it[i].row = rows
            BY <1>4, <1>6, <3>1, <3>2, AdvancingFacts
        <3>4. query_limit # 0 => it[i].total + 1 < query_limit
            BY <1>6, <3>2, AdvancingFacts DEF LimitExceeded, Counted, TypeOK
        <3> QED BY <1>10, <2>2, <3>2, <3>3, <3>4, AdvancingFacts DEF RowsDue
    <2> QED BY <2>1, <2>2
<1> QED BY <1>8, <1>11, <1>12, <1>13, <1>14, <1>15, <1>16, <1>17, <1>18

----------------------------------------------------------------------------
(* The query made and destroyed *)

\* A query is made when nothing is left of the one before.
LEMMA StartFacts ==
    ASSUME Inv, CanConstruct
    PROVE  /\ output = NoPage /\ ~crashed
           /\ \A i \in Iterators : ~it[i].impl
           /\ OpenIn(cursor) = unclosed \cup forgotten
           /\ rows \in Nat /\ cursor \in [Handles -> Nat]
<1>1. ~crashed /\ ~Referenced
    BY DEF CanConstruct
<1>2. output = NoPage
    BY <1>1 DEF Inv, NoQueryInv
<1>3. OpenIn(cursor) = unclosed \cup forgotten
    BY <1>1, <1>2 DEF Inv, StatementInv, StatementKnown, NoPage
<1>4. rows \in Nat /\ cursor \in [Handles -> Nat]
    BY SizeAssumption DEF Inv, TypeOK
<1> QED BY <1>1, <1>2, <1>3, <1>4 DEF Referenced

\* What a new query leaves to be shown: its page and its statements.
LEMMA StartKeeps ==
    ASSUME Inv, CanConstruct,
           UNCHANGED <<input, it, crashed>>, passes' = 0, continueInx' = 0,
           query' \in {"live", "threw"}, query' # "live" => output' = NoPage,
           query' = "live" /\ rows > 0 => output'.first = 1 /\ output'.rowCnt >= 1,
           output' \in PageType, cursor' \in [Handles -> Nat],
           unclosed' \subseteq Handles, forgotten' \subseteq Handles,
           PageInv', StatementInv'
    PROVE  Inv'
<1> USE DEF Inv, input
<1>1. ~crashed /\ \A i \in Iterators : ~it[i].impl
    BY StartFacts
<1>2. TypeOK'
    BY DEF TypeOK, PageType
<1>3. NoQueryInv'
    BY DEF NoQueryInv, Referenced
<1>4. EndInv'
    BY DEF EndInv
<1>5. PassInv'
    BY <1>1 DEF PassInv
<1>6. CountInv'
    BY <1>1 DEF CountInv, Counts
<1>7. IteratorDenotesRow'
    BY <1>1, HasQuery DEF IteratorDenotesRow, DenotesRow
<1>8. EndExact'
    BY <1>1 DEF EndExact
<1> QED BY <1>2, <1>3, <1>4, <1>5, <1>6, <1>7, <1>8

\* The answer to the first request of a query.
LEMMA FirstReply ==
    ASSUME rows \in Nat, NEW cur \in [Handles -> Nat], NEW r \in Replies(cur, 0)
    PROVE  /\ r.cursor \in [Handles -> Nat] /\ r.output \in PageType
           /\ \/ r.err = "failed" /\ r.output = NoPage /\ r.cursor = cur
              \/ /\ r.err \in {"ok", "no_rows"}
                 /\ r.output.continueInx \notin OpenIn(cur)
                 /\ OpenIn(r.cursor) = OpenIn(cur) \cup ({r.output.continueInx} \ {0})
           /\ r.err = "no_rows" => r.output = NoPage /\ rows < 1
           /\ r.err = "ok" =>
                /\ r.output.first = 1 /\ r.output.rowCnt >= 1
                /\ r.output.rowCnt <= rows
                /\ r.output.continueInx = 0 => r.output.rowCnt = rows
                /\ r.output.continueInx # 0 =>
                       r.cursor[r.output.continueInx] = 1 + r.output.rowCnt
<1>1. /\ r.cursor \in [Handles -> Nat] /\ r.output \in PageType
      /\ \/ r.err = "failed" /\ r.output = NoPage /\ r.cursor = cur
         \/ /\ r.err \in {"ok", "no_rows"}
            /\ r.output.continueInx \notin OpenIn(cur) \ {0}
            /\ OpenIn(r.cursor) = (OpenIn(cur) \ {0}) \cup ({r.output.continueInx} \ {0})
      /\ r.err = "no_rows" => r.output = NoPage /\ rows < 1
      /\ r.err = "ok" =>
            /\ r.output.first = 1 /\ r.output.rowCnt >= 1
            /\ 1 + r.output.rowCnt - 1 <= rows
            /\ r.output.continueInx = 0 => 1 + r.output.rowCnt - 1 = rows
            /\ r.output.continueInx # 0 =>
                   r.cursor[r.output.continueInx] = 1 + r.output.rowCnt
    BY ReplyFacts
<1>2. OpenIn(cur) \ {0} = OpenIn(cur) /\ r.output.rowCnt \in Nat
    BY <1>1, NoHandleIsZero DEF OpenIn, PageType
<1> QED BY <1>1, <1>2

\* A general query, which asks once.
LEMMA ConstructGeneralKeeps == ASSUME Inv, ConstructGeneral PROVE Inv'
<1> USE DEF Inv
<1>1. /\ CanConstruct /\ UNCHANGED <<input, it, crashed, forgotten>>
      /\ passes' = 0 /\ continueInx' = 0 /\ type = "GENERAL"
    BY DEF ConstructGeneral
<1>2. /\ output = NoPage /\ ~crashed /\ rows \in Nat /\ cursor \in [Handles -> Nat]
      /\ OpenIn(cursor) = unclosed \cup forgotten
    BY <1>1, StartFacts
<1>3. /\ NoPage \in PageType /\ unclosed \subseteq Handles /\ forgotten \subseteq Handles
      /\ NoPage.continueInx = 0
    BY DEF NoPage, PageType, TypeOK
<1>4. CASE query' = "threw" /\ UNCHANGED <<cursor, output, unclosed>>
    <2>1. PageInv' /\ StatementInv'
        BY <1>1, <1>2, <1>4 DEF PageInv, StatementInv, StatementKnown
    <2> QED BY <1>1, <1>2, <1>3, <1>4, <2>1, StartKeeps
<1>5. CASE \E r \in Replies(cursor, 0) : Fetched(r, NoPage)
    <2>1. PICK r \in Replies(cursor, 0) : Fetched(r, NoPage)
        BY <1>5
    <2>2. /\ r.cursor \in [Handles -> Nat] /\ r.output \in PageType
          /\ \/ r.err = "failed" /\ r.output = NoPage /\ r.cursor = cursor
             \/ /\ r.err \in {"ok", "no_rows"}
                /\ r.output.continueInx \notin OpenIn(cursor)
                /\ OpenIn(r.cursor) = OpenIn(cursor) \cup ({r.output.continueInx} \ {0})
          /\ r.err = "no_rows" => r.output = NoPage /\ rows < 1
          /\ r.err = "ok" =>
                /\ r.output.first = 1 /\ r.output.rowCnt >= 1
                /\ r.output.rowCnt <= rows
                /\ r.output.continueInx = 0 => r.output.rowCnt = rows
                /\ r.output.continueInx # 0 =>
                       r.cursor[r.output.continueInx] = 1 + r.output.rowCnt
        BY <1>2, FirstReply
    <2>3. CASE r.err = "failed"
        <3>1. /\ cursor' = cursor /\ unclosed' = unclosed
              /\ query' = "threw" /\ output' = NoPage
            BY <1>3, <2>1, <2>2, <2>3 DEF Fetched, Thrown, Close
        <3> QED BY <1>2, <1>4, <3>1
    <2>4. CASE r.err # "failed"
        <3>1. /\ cursor' = r.cursor /\ unclosed' = unclosed
              /\ query' = "live" /\ output' = r.output
            BY <2>1, <2>4 DEF Fetched
        <3>2. PageInv'
            BY <1>1, <2>2, <2>4, <3>1 DEF PageInv, PageType, input
        <3>3. StatementInv'
            <4>1. /\ output'.continueInx \notin unclosed \cup forgotten
                  /\ OpenIn(cursor') = ({output'.continueInx} \ {0}) \cup unclosed \cup forgotten
                BY <1>2, <1>3, <2>2, <2>4, <3>1, NoHandleIsZero
            <4>2. StatementKnown'
                BY <1>1, <3>1, <4>1 DEF StatementInv, StatementKnown, input, OpenIn
            <4>3. unclosed' \cap forgotten' = {}
                BY <1>1, <3>1 DEF StatementInv
            <4> QED BY <1>1, <3>1, <4>1, <4>2, <4>3 DEF StatementInv
        <3> QED BY <1>1, <1>2, <1>3, <2>2, <2>4, <3>1, <3>2, <3>3, StartKeeps
    <2> QED BY <2>3, <2>4
<1> QED BY <1>2, <1>4, <1>5 DEF ConstructGeneral

\* A specific query, whose first run is given up for the second.
LEMMA ConstructSpecificKeeps == ASSUME Inv, ConstructSpecific PROVE Inv'
<1> USE DEF Inv
<1>1. /\ CanConstruct /\ UNCHANGED <<input, it, crashed>>
      /\ passes' = 0 /\ continueInx' = 0 /\ type # "GENERAL"
    BY DEF ConstructSpecific
<1>2. /\ output = NoPage /\ ~crashed /\ rows \in Nat /\ cursor \in [Handles -> Nat]
      /\ OpenIn(cursor) = unclosed \cup forgotten
    BY <1>1, StartFacts
<1>3. /\ NoPage \in PageType /\ unclosed \subseteq Handles /\ forgotten \subseteq Handles
      /\ NoPage.continueInx = 0 /\ unclosed \cap forgotten = {}
      /\ 0 \notin unclosed \cup forgotten
    BY NoHandleIsZero DEF NoPage, PageType, TypeOK, StatementInv
<1>4. PICK a \in Replies(cursor, 0) :
         IF a.err # "ok"
         THEN Thrown(a.cursor, NoPage) /\ UNCHANGED forgotten
         ELSE \E r \in Replies(a.cursor, 0) :
                /\ Fetched(r, a.output)
                /\ forgotten' = IF r.err = "failed" THEN forgotten
                                ELSE forgotten \cup ({a.output.continueInx} \ {0})
    BY DEF ConstructSpecific
<1>5. /\ a.cursor \in [Handles -> Nat] /\ a.output \in PageType
      /\ \/ a.err = "failed" /\ a.output = NoPage /\ a.cursor = cursor
         \/ /\ a.err \in {"ok", "no_rows"}
            /\ a.output.continueInx \notin OpenIn(cursor)
            /\ OpenIn(a.cursor) = OpenIn(cursor) \cup ({a.output.continueInx} \ {0})
      /\ a.err = "no_rows" => a.output = NoPage
    BY <1>2, FirstReply
<1>6. CASE a.err # "ok"
    <2>1. /\ cursor' = a.cursor /\ unclosed' = unclosed /\ forgotten' = forgotten
          /\ query' = "threw" /\ output' = NoPage
        BY <1>3, <1>4, <1>6 DEF Thrown, Close
    <2>2. OpenIn(cursor') = unclosed \cup forgotten
        BY <1>2, <1>3, <1>5, <1>6, <2>1
    <2>3. PageInv' /\ StatementInv'
        BY <1>1, <1>3, <2>1, <2>2 DEF PageInv, StatementInv, StatementKnown, input
    <2> QED BY <1>1, <1>3, <1>5, <2>1, <2>3, StartKeeps
<1>7. CASE a.err = "ok"
    <2> DEFINE c == a.output.continueInx
    <2>1. PICK r \in Replies(a.cursor, 0) :
             /\ Fetched(r, a.output)
             /\ forgotten' = IF r.err = "failed" THEN forgotten
                             ELSE forgotten \cup ({c} \ {0})
        BY <1>4, <1>7
    <2>2. /\ r.cursor \in [Handles -> Nat] /\ r.output \in PageType
          /\ \/ r.err = "failed" /\ r.output = NoPage /\ r.cursor = a.cursor
             \/ /\ r.err \in {"ok", "no_rows"}
                /\ r.output.continueInx \notin OpenIn(a.cursor)
                /\ OpenIn(r.cursor) = OpenIn(a.cursor) \cup ({r.output.continueInx} \ {0})
          /\ r.err = "no_rows" => r.output = NoPage /\ rows < 1
          /\ r.err = "ok" =>
                /\ r.output.first = 1 /\ r.output.rowCnt >= 1
                /\ r.output.rowCnt <= rows
                /\ r.output.continueInx = 0 => r.output.rowCnt = rows
                /\ r.output.continueInx # 0 =>
                       r.cursor[r.output.continueInx] = 1 + r.output.rowCnt
        BY <1>2, <1>5, FirstReply
    <2>3. /\ c \in Handles \cup {0} /\ c \notin unclosed \cup forgotten
          /\ OpenIn(a.cursor) = unclosed \cup forgotten \cup ({c} \ {0})
        BY <1>2, <1>5, <1>7 DEF PageType
    <2> HIDE DEF c
    <2>4. CASE r.err = "failed"
        <3>1. /\ Close(a.cursor, a.output) /\ forgotten' = forgotten
              /\ query' = "threw" /\ output' = NoPage
            BY <2>1, <2>2, <2>4 DEF Fetched, Thrown
        <3>2. /\ cursor' \in [Handles -> Nat]
              /\ \/ /\ OpenIn(cursor') = OpenIn(a.cursor) \ {c}
                    /\ unclosed' = unclosed
                 \/ /\ c # 0
                    /\ cursor' = a.cursor
                    /\ unclosed' = unclosed \cup {c}
            BY <1>5, <3>1, CloseFacts DEF c
        <3>3. OpenIn(cursor') = unclosed' \cup forgotten
            BY <1>3, <2>3, <3>2
        <3>4. unclosed' \subseteq Handles /\ unclosed' \cap forgotten = {} /\ 0 \notin unclosed'
            BY <1>3, <2>3, <3>2
        <3>5. PageInv' /\ StatementInv'
            BY <1>1, <1>3, <3>1, <3>3, <3>4 DEF PageInv, StatementInv, StatementKnown, input
        <3> QED BY <1>1, <1>3, <3>1, <3>2, <3>4, <3>5, StartKeeps
    <2>5. CASE r.err # "failed"
        <3>1. /\ cursor' = r.cursor /\ unclosed' = unclosed
              /\ query' = "live" /\ output' = r.output
              /\ forgotten' = forgotten \cup ({c} \ {0})
            BY <2>1, <2>5 DEF Fetched
        <3>2. PageInv'
            BY <1>1, <2>2, <2>5, <3>1 DEF PageInv, PageType, input
        <3>3. /\ output'.continueInx \notin unclosed' \cup forgotten'
              /\ OpenIn(cursor') = ({output'.continueInx} \ {0}) \cup unclosed' \cup forgotten'
            BY <1>3, <2>2, <2>3, <2>5, <3>1
        <3>4. forgotten' \subseteq Handles /\ unclosed' \cap forgotten' = {}
            BY <1>3, <2>3, <3>1
        <3>5. StatementKnown'
            BY <1>1, <3>3 DEF StatementKnown, input, OpenIn
        <3>6. StatementInv'
            BY <3>3, <3>4, <3>5 DEF StatementInv
        <3> QED BY <1>1, <1>2, <1>3, <2>2, <2>5, <3>1, <3>2, <3>4, <3>6, StartKeeps
    <2> QED BY <2>4, <2>5
<1> QED BY <1>6, <1>7

\* The last reference gone, the page and its statement go with it.
LEMMA ReleaseKeeps ==
    ASSUME Inv, Release, ~crashed, UNCHANGED <<input, continueInx, crashed, passes, forgotten>>
    PROVE  /\ cursor' \in [Handles -> Nat] /\ output' \in PageType /\ unclosed' \subseteq Handles
           /\ Referenced' => UNCHANGED <<cursor, output, unclosed>>
           /\ PageInv' /\ NoQueryInv' /\ StatementInv'
<1> USE DEF Inv, input
<1>1. cursor \in [Handles -> Nat] /\ output \in PageType /\ unclosed \subseteq Handles
    BY DEF TypeOK, PageType
<1>2. CASE Referenced'
    <2>1. UNCHANGED <<cursor, output, unclosed>>
        BY <1>2 DEF Release
    <2> QED BY <1>1, <1>2, <2>1 DEF PageInv, NoQueryInv, StatementInv, StatementKnown
<1>3. CASE ~Referenced'
    <2> DEFINE c == output.continueInx
    <2>1. Close(cursor, output) /\ output' = NoPage
        BY <1>3 DEF Release
    <2>2. NoPage \in PageType /\ NoPage.continueInx = 0
        BY DEF NoPage, PageType
    <2>3. /\ OpenIn(cursor) = ({c} \ {0}) \cup unclosed \cup forgotten
          /\ c \in Handles \cup {0} /\ c \notin unclosed \cup forgotten
          /\ unclosed \cap forgotten = {} /\ forgotten \subseteq Handles
          /\ type = "GENERAL" => forgotten = {}
        BY <1>1 DEF StatementInv, StatementKnown, TypeOK
    <2>4. /\ cursor' \in [Handles -> Nat]
          /\ \/ /\ OpenIn(cursor') = OpenIn(cursor) \ {c}
                /\ unclosed' = unclosed
             \/ /\ c # 0
                /\ cursor' = cursor
                /\ unclosed' = unclosed \cup {c}
        BY <1>1, <2>1, CloseFacts
    <2> HIDE DEF c
    <2>5. OpenIn(cursor') = unclosed' \cup forgotten
        BY <1>1, <2>3, <2>4, NoHandleIsZero
    <2>6. /\ unclosed' \subseteq Handles /\ unclosed' \cap forgotten = {}
          /\ 0 \notin unclosed' \cup forgotten
        BY <1>1, <2>3, <2>4, NoHandleIsZero
    <2>7. PageInv' /\ NoQueryInv'
        BY <2>1 DEF PageInv, NoQueryInv
    <2>8. StatementInv'
        BY <2>1, <2>2, <2>3, <2>5, <2>6 DEF StatementInv, StatementKnown, OpenIn
    <2> QED BY <1>3, <2>1, <2>2, <2>4, <2>6, <2>7, <2>8
<1> QED BY <1>2, <1>3

\* A release that leaves the iterators as they are, or makes some of them none.
LEMMA ReleasedKeeps ==
    ASSUME Inv, Release, ~crashed, UNCHANGED <<input, continueInx, crashed, passes, forgotten>>,
           query' \in {query, "gone"}, it' \in [Iterators -> IterType],
           \A i \in Iterators : it'[i] = it[i] \/ it'[i] = NoIterator
    PROVE  Inv'
<1> USE DEF Inv, input
<1>1. /\ cursor' \in [Handles -> Nat] /\ output' \in PageType /\ unclosed' \subseteq Handles
      /\ Referenced' => UNCHANGED <<cursor, output, unclosed>>
      /\ PageInv' /\ NoQueryInv' /\ StatementInv'
    BY ReleaseKeeps
<1>2. TypeOK'
    BY <1>1 DEF TypeOK, PageType, IterType
<1>3. \A i \in Iterators : it'[i].live /\ (it'[i].impl \/ ~it'[i].end) => it'[i] = it[i]
    BY DEF NoIterator
<1>4. \A i \in Iterators : it'[i].impl => it'[i] = it[i]
    BY DEF NoIterator
<1>5. EndInv'
    BY DEF EndInv, NoIterator
<1>6. PassInv'
    <2>1. query' = "live" => UNCHANGED <<query, output>>
        BY <1>1 DEF Referenced
    <2> QED BY <1>4, <2>1 DEF PassInv
<1>7. CountInv'
    BY <1>4 DEF CountInv, Counts, query_limit
<1>8. IteratorDenotesRow'
    <2> SUFFICES ASSUME passes < 2, NEW i \in Iterators, it'[i].live, ~it'[i].end
                 PROVE  /\ it'[i].rowIdx < output'.rowCnt
                        /\ output'.first + it'[i].rowIdx = it'[i].row
        BY DEF IteratorDenotesRow, DenotesRow
    <2>1. it'[i] = it[i] /\ it[i].impl
        BY <1>3, HasQuery
    <2>2. output' = output
        BY <1>1, <2>1 DEF Referenced
    <2> QED BY <2>1, <2>2 DEF IteratorDenotesRow, DenotesRow
<1>9. EndExact'
    BY <1>4 DEF EndExact, RowsDue, query_limit
<1> QED BY <1>1, <1>2, <1>5, <1>6, <1>7, <1>8, <1>9

\* An iterator less, and perhaps the last reference.
LEMMA DropKeeps == ASSUME Inv, NEW i \in Iterators, Drop(i) PROVE Inv'
<1>1. NoIterator \in IterType /\ it \in [Iterators -> IterType]
    BY DEF NoIterator, IterType, Inv, TypeOK
<1>2. it' \in [Iterators -> IterType] /\ \A j \in Iterators : it'[j] = it[j] \/ it'[j] = NoIterator
    BY <1>1 DEF Drop
<1> QED BY <1>2, ReleasedKeeps DEF Drop

\* The query itself goes.
LEMMA DestroyKeeps == ASSUME Inv, Destroy PROVE Inv'
<1>1. it \in [Iterators -> IterType]
    BY DEF IterType, Inv, TypeOK
<1> QED BY <1>1, ReleasedKeeps DEF Destroy

----------------------------------------------------------------------------
(* Theorems *)

\* The invariant holds before the first query.
LEMMA InitInv == Init => Inv
<1> SUFFICES ASSUME Init PROVE Inv
    OBVIOUS
<1> USE DEF Init
<1>1. NoIterator \in IterType /\ NoPage \in PageType
    BY DEF NoIterator, IterType, NoPage, PageType
<1>2. limit \in Nat
    BY LimitAssumption
<1>3. it \in [Iterators -> IterType] /\ output \in PageType /\ crashed \in BOOLEAN
    BY <1>1
<1> HIDE DEF Init
<1>4. /\ type \in {"GENERAL", "SPECIFIC"} /\ rows \in 0 .. MaxRows
      /\ query \in {"none", "live", "threw", "gone"}
    BY DEF Init
<1>5. cursor \in [Handles -> Nat] /\ continueInx \in Handles \cup {0} /\ passes \in 0 .. 2
       /\ unclosed \subseteq Handles /\ forgotten \subseteq Handles
    BY DEF Init
<1>6. TypeOK
    BY <1>3, <1>4, <1>5, <1>2 DEF TypeOK, IterType, PageType
<1> USE DEF Init
<1>7. PageInv /\ NoQueryInv
    BY DEF PageInv, NoQueryInv
<1>8. StatementInv
    BY DEF StatementInv, StatementKnown, OpenIn, NoPage
<1>9. EndInv /\ PassInv
    BY DEF EndInv, PassInv, NoIterator
<1>10. CountInv /\ EndExact
    BY DEF CountInv, Counts, EndExact, NoIterator
<1>11. IteratorDenotesRow
    BY DEF IteratorDenotesRow, DenotesRow, NoIterator
<1> QED BY <1>6, <1>7, <1>8, <1>9, <1>10, <1>11 DEF Inv

\* Every call, and a stutter.
LEMMA NextKeeps == Inv /\ [Next]_vars => Inv'
<1> SUFFICES ASSUME Inv, [Next]_vars PROVE Inv'
    OBVIOUS
<1>1. CASE UNCHANGED vars
    BY <1>1 DEF Inv, vars, input, TypeOK, PageInv, NoQueryInv, Referenced, StatementInv,
           StatementKnown, EndInv, PassInv, CountInv, Counts, IteratorDenotesRow, DenotesRow,
           EndExact, RowsDue, query_limit
<1>2. CASE Next
    BY <1>2, ConstructGeneralKeeps, ConstructSpecificKeeps, DestroyKeeps, BeginKeeps,
       DropKeeps, AdvanceToEndKeeps, AdvanceInPageKeeps, AdvanceToPageKeeps, AdvanceNullKeeps,
       CopyKeeps DEF Next
<1> QED BY <1>1, <1>2

(* The inductive invariant, for any number of rows, page size and limit.   *)
THEOREM InvHolds == Spec => []Inv
    BY InitInv, NextKeeps, PTL DEF Spec

(* Every variable has its type, and the statements that are open at the    *)
(* catalog are those of the page, of the failed closings and of the first  *)
(* runs of a specific query, however the queries are made and given up.    *)
THEOREM StatementsAreKnown == Spec => []QueryInv
<1>1. Inv => QueryInv
    BY DEF Inv, StatementInv, QueryInv
<1> QED BY <1>1, InvHolds, PTL

(* In a program of one pass, an iterator that is not at the end finds its  *)
(* row in the current page, wherever the page boundaries fall.             *)
THEOREM RowIsInPage == Spec => []IteratorDenotesRow
<1>1. Inv => IteratorDenotesRow
    BY DEF Inv
<1> QED BY <1>1, InvHolds, PTL

(* A loop of one pass ends after exactly the rows there are, or the limit. *)
THEOREM LoopIsExact == Spec => []EndExact
<1>1. Inv => EndExact
    BY DEF Inv
<1> QED BY <1>1, InvHolds, PTL
====
