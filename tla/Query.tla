---- MODULE Query ----
(***************************************************************************)
(* irods::query: the pages of a general or specific query, the statement   *)
(* the catalog keeps open between two pages, and the iterators, copies of  *)
(* which share one query_impl and its current page.                        *)
(*                                                                         *)
(* A row of the result set is its number, 1 .. rows. The program is        *)
(* sequential: every action is one call of a public operation, with all    *)
(* the requests it makes.                                                  *)
(***************************************************************************)
EXTENDS QueryText

CONSTANTS Iterators,    \* iterator variables of the program
          MaxRows,      \* bound: rows of a result set
          PageSize,     \* MAX_SQL_ROWS
          Handles,      \* bound: statements the catalog can have open, all > 0
          Faults,       \* whether a request may fail
          Word,         \* 2^32: the limit is kept in a uint32_t
          Limits,       \* limits callers pass, of type uintmax_t
          Texts,        \* query strings: what they are written from
          UsualText     \* the one of every other query

ASSUME SizeAssumption == MaxRows \in Nat /\ PageSize \in Nat \ {0}
ASSUME HandleAssumption == Handles \subseteq Nat \ {0}
ASSUME FlagAssumption == Faults \in BOOLEAN
ASSUME LimitAssumption == Word \in Nat \ {0} /\ Limits \subseteq Nat

VARIABLES type,         \* _query_type
          text,         \* _query_string
          rows, limit,  \* size of the result set, and _query_limit of query::query
          cursor,       \* cursor[h]: the next row of statement h, 0 if closed
          query,        \* the query object: "none", "live", "threw", "gone"
          genInput,     \* gen_input_: its selectInp and sqlCondInp
          output,       \* gen_output_: its rows first .. first + rowCnt - 1
          continueInx,  \* gen_input_.continueInx
          it,           \* the iterators
          crashed,      \* a null pointer was dereferenced
          passes,       \* history: iterators made over this query, at most 2
          unclosed,     \* history: statements whose closing request failed
          forgotten     \* history: statements whose page was stored over

input == <<type, text, rows, limit>>
vars == <<input, cursor, query, genInput, output, continueInx, it, crashed, passes,
          unclosed, forgotten>>

NoPage == [first |-> 0, rowCnt |-> 0, continueInx |-> 0]    \* a null gen_output_

NoInput == Rejected(Ok)     \* nothing selected yet

(* An iterator: row_idx_, total_rows_processed_, end_iteration_state_, and *)
(* whether it has a query_impl_; row is the one it ought to stand for.     *)
NoIterator == [live |-> FALSE, impl |-> FALSE, end |-> TRUE, rowIdx |-> 0,
               total |-> 0, row |-> 0]
EndIterator == [NoIterator EXCEPT !.live = TRUE]
FirstIterator == [live |-> TRUE, impl |-> TRUE, end |-> FALSE, rowIdx |-> 0,
                  total |-> 0, row |-> 1]

(* iter_: made by the constructor, never changed, and copied by begin().   *)
Iter == IF rows = 0 THEN EndIterator ELSE FirstIterator

(* The shared_ptr count of query_impl_ is not zero. *)
Referenced == query = "live" \/ \E i \in Iterators : it[i].impl

----------------------------------------------------------------------------
(* The catalog: what a request with maxRows = PageSize is answered with. A *)
(* page that is full may be the last one without saying so; the statement  *)
(* of a page that is not full, or of no rows, is closed.                   *)
OpenIn(cur) == {h \in Handles : cur[h] # 0}

Page(cur, h, from) ==
    LET left == IF rows < from THEN 0 ELSE rows - from + 1
        cnt  == IF left < PageSize THEN left ELSE PageSize
        more == {m \in BOOLEAN : (m => cnt = PageSize) /\ (left > cnt => m)}
    IN IF cnt = 0
       THEN {[err |-> "no_rows", output |-> NoPage,
              cursor |-> [cur EXCEPT ![h] = 0]]}
       ELSE {[err |-> "ok",
              output |-> [first |-> from, rowCnt |-> cnt,
                          continueInx |-> IF m THEN h ELSE 0],
              cursor |-> [cur EXCEPT ![h] = IF m THEN from + cnt ELSE 0]] :
                m \in more}

(* A new query needs a free statement. *)
Replies(cur, cont) ==
    LET failure == {[err |-> "failed", output |-> NoPage, cursor |-> cur]}
        free    == Handles \ OpenIn(cur)
    IN (IF Faults \/ (cont = 0 /\ free = {}) THEN failure ELSE {})
       \cup IF cont = 0 THEN UNION {Page(cur, h, 1) : h \in free}
                        ELSE Page(cur, cont, cur[cont])

(* Mutant: the statement is not closed. *)
CloseNothing(cur, out) == cursor' = cur /\ UNCHANGED unclosed

(* The destructor of query_impl: a page with a continueInx makes it send a *)
(* request with maxRows = 0, which closes the statement unless it fails.   *)
Close(cur, out) ==
    IF out.continueInx = 0
    THEN cursor' = cur /\ UNCHANGED unclosed
    ELSE \/ /\ cursor' = [cur EXCEPT ![out.continueInx] = 0]
            /\ UNCHANGED unclosed
         \/ /\ Faults
            /\ cursor' = cur
            /\ unclosed' = unclosed \cup {out.continueInx}

----------------------------------------------------------------------------
Init ==
    /\ type \in {"GENERAL", "SPECIFIC"}
    /\ rows \in 0 .. MaxRows
    /\ limit \in Limits
    /\ text \in IF type = "GENERAL" /\ rows = 0 /\ limit = 0 THEN Texts ELSE {UsualText}
    /\ cursor = [h \in Handles |-> 0]
    /\ query = "none"
    /\ genInput = NoInput
    /\ output = NoPage
    /\ continueInx = 0
    /\ it = [i \in Iterators |-> NoIterator]
    /\ crashed = FALSE
    /\ passes = 0
    /\ unclosed = {}
    /\ forgotten = {}

(* The constructor threw: query_impl_, if it was made, is destroyed. *)
Thrown(cur, out) ==
    /\ Close(cur, out)
    /\ query' = "threw"
    /\ output' = NoPage

(* What query::query makes of its fetch_page; gen_output_ was out before.  *)
Fetched(r, out) ==
    IF r.err = "failed"
    THEN Thrown(r.cursor, out)
    ELSE /\ cursor' = r.cursor
         /\ query' = "live"
         /\ output' = r.output
         /\ UNCHANGED unclosed

CanConstruct == query # "live" /\ ~Referenced /\ ~crashed

(* A string that cannot be read ends in an exception before any request.   *)
ConstructGeneral ==
    /\ type = "GENERAL"
    /\ CanConstruct
    /\ LET filled == fillGenQueryInpFromStrCond(TextOf(text))
       IN IF filled.status # Ok
          THEN query' = "threw" /\ UNCHANGED <<cursor, genInput, output, unclosed>>
          ELSE /\ \E r \in Replies(cursor, 0) : Fetched(r, NoPage)
               /\ genInput' = IF query' = "live" THEN filled ELSE NoInput
    /\ continueInx' = 0
    /\ passes' = 0
    /\ UNCHANGED <<input, it, crashed, forgotten>>

(* The constructor of spec_query_impl has already run the query when       *)
(* query::query runs it again, with continueInx still 0, and the new page  *)
(* is stored over the one that is there.                                   *)
ConstructSpecific ==
    /\ type = "SPECIFIC"
    /\ CanConstruct
    /\ \E first \in Replies(cursor, 0) :
          IF first.err # "ok"
          THEN Thrown(first.cursor, NoPage) /\ UNCHANGED forgotten
          ELSE \E r \in Replies(first.cursor, 0) :
                 /\ Fetched(r, first.output)
                 /\ forgotten' = IF r.err = "failed" THEN forgotten
                                 ELSE forgotten \cup ({first.output.continueInx} \ {0})
    /\ continueInx' = 0
    /\ passes' = 0
    /\ UNCHANGED <<input, genInput, it, crashed>>

Begin(i) ==
    /\ query = "live"
    /\ ~crashed
    /\ ~it[i].live
    /\ it' = [it EXCEPT ![i] = Iter]
    /\ passes' = IF passes = 0 THEN 1 ELSE 2
    /\ UNCHANGED <<input, cursor, query, genInput, output, continueInx, crashed, unclosed, forgotten>>

(* A copy: also what it++ returns, before the increment. *)
Copy(i, j) ==
    /\ ~crashed
    /\ ~it[i].live
    /\ it[j].live
    /\ it' = [it EXCEPT ![i] = it[j]]
    /\ passes' = 2
    /\ UNCHANGED <<input, cursor, query, genInput, output, continueInx, crashed, unclosed, forgotten>>

----------------------------------------------------------------------------
(* iterator::advance_query, on an iterator that is not equal to end()      *)

(* The limit passes through an int on its way from query::query to its     *)
(* uint32_t: what is left are its low bits.                                *)
query_limit == limit % Word

(* Mutant: off by one. *)
LimitPassed(n) == query_limit # 0 /\ n > query_limit

LimitExceeded(n) == query_limit # 0 /\ n >= query_limit

(* The iterator after total_rows_processed_++, a uint32_t that can only    *)
(* overflow where there is no limit, and where nothing reads it.           *)
Counted(i) == [it[i] EXCEPT !.total = @ + 1, !.row = @ + 1]

Advancing(i) == ~crashed /\ it[i].live /\ ~it[i].end

(* The limit is reached, or the page was the last one. *)
AdvanceToEnd(i) ==
    /\ Advancing(i)
    /\ \/ LimitExceeded(Counted(i).total)
       \/ /\ output # NoPage
          /\ it[i].rowIdx + 1 >= output.rowCnt
          /\ output.continueInx = 0
    /\ it' = [it EXCEPT ![i] = [Counted(i) EXCEPT !.end = TRUE,
                 !.rowIdx = IF LimitExceeded(Counted(i).total) THEN @ ELSE @ + 1]]
    /\ UNCHANGED <<input, cursor, query, genInput, output, continueInx, crashed, passes,
                   unclosed, forgotten>>

AdvanceInPage(i) ==
    /\ Advancing(i)
    /\ ~LimitExceeded(Counted(i).total)
    /\ it[i].rowIdx + 1 < output.rowCnt
    /\ it' = [it EXCEPT ![i] = [Counted(i) EXCEPT !.rowIdx = @ + 1]]
    /\ UNCHANGED <<input, cursor, query, genInput, output, continueInx, crashed, passes,
                   unclosed, forgotten>>

(* Mutant: row_idx_ keeps counting over the page boundary. *)
AdvanceToPageNoReset(i) ==
    /\ Advancing(i)
    /\ ~LimitExceeded(Counted(i).total)
    /\ it[i].rowIdx + 1 >= output.rowCnt
    /\ output.continueInx # 0
    /\ continueInx' = output.continueInx
    /\ \E r \in Replies(cursor, output.continueInx) :
         /\ cursor' = r.cursor
         /\ output' = r.output
         /\ it' = [it EXCEPT ![i] = [Counted(i) EXCEPT !.rowIdx = @ + 1,
                                                       !.end = r.err = "no_rows"]]
         /\ crashed' = (r.err = "failed")
    /\ UNCHANGED <<input, query, genInput, passes, unclosed, forgotten>>

(* reset_for_page_boundary, then fetch_page; the message of its exception  *)
(* reads gen_input_, a null pointer in every iterator over a query.        *)
AdvanceToPage(i) ==
    /\ Advancing(i)
    /\ ~LimitExceeded(Counted(i).total)
    /\ it[i].rowIdx + 1 >= output.rowCnt
    /\ output.continueInx # 0
    /\ continueInx' = output.continueInx
    /\ \E r \in Replies(cursor, output.continueInx) :
         /\ cursor' = r.cursor
         /\ output' = r.output
         /\ it' = [it EXCEPT ![i] = [Counted(i) EXCEPT !.rowIdx = 0,
                                                       !.end = r.err = "no_rows"]]
         /\ crashed' = (r.err = "failed")
    /\ UNCHANGED <<input, query, genInput, passes, unclosed, forgotten>>

(* Another iterator has moved the shared query past its last page, and     *)
(* gen_output_ is null.                                                    *)
AdvanceNull(i) ==
    /\ Advancing(i)
    /\ ~LimitExceeded(Counted(i).total)
    /\ output = NoPage
    /\ crashed' = TRUE
    /\ UNCHANGED <<input, cursor, query, genInput, output, continueInx, it, passes,
                   unclosed, forgotten>>

----------------------------------------------------------------------------
(* The last reference to query_impl_ runs its destructor. *)
Release ==
    IF Referenced' THEN UNCHANGED <<cursor, genInput, output, unclosed>>
    ELSE Close(cursor, output) /\ output' = NoPage /\ genInput' = NoInput

Drop(i) ==
    /\ ~crashed
    /\ it[i].live
    /\ it' = [it EXCEPT ![i] = NoIterator]
    /\ UNCHANGED query
    /\ Release
    /\ UNCHANGED <<input, continueInx, crashed, passes, forgotten>>

Destroy ==
    /\ ~crashed
    /\ query = "live"
    /\ query' = "gone"
    /\ UNCHANGED it
    /\ Release
    /\ UNCHANGED <<input, continueInx, crashed, passes, forgotten>>

Next ==
    \/ ConstructGeneral
    \/ ConstructSpecific
    \/ Destroy
    \/ \E i \in Iterators : \/ Begin(i) \/ Drop(i)
                            \/ AdvanceToEnd(i) \/ AdvanceInPage(i)
                            \/ AdvanceToPage(i) \/ AdvanceNull(i)
    \/ \E i, j \in Iterators : Copy(i, j)

Spec == Init /\ [][Next]_vars

----------------------------------------------------------------------------
(* Properties *)

(* Every variable has its type. *)
TypeOK ==
    /\ type \in {"GENERAL", "SPECIFIC"}
    /\ rows \in 0 .. MaxRows
    /\ limit \in Nat
    /\ cursor \in [Handles -> Nat]
    /\ query \in {"none", "live", "threw", "gone"}
    /\ output \in [first : Nat, rowCnt : Nat, continueInx : Handles \cup {0}]
    /\ continueInx \in Handles \cup {0}
    /\ it \in [Iterators -> [live : BOOLEAN, impl : BOOLEAN, end : BOOLEAN,
                             rowIdx : Nat, total : Nat, row : Nat]]
    /\ crashed \in BOOLEAN
    /\ passes \in 0 .. 2
    /\ unclosed \subseteq Handles
    /\ forgotten \subseteq Handles

(* The statements that are open are the one the current page names, those  *)
(* the catalog failed to close, and those of a specific query, which is    *)
(* run twice (query.hpp:257, :421) and loses the one of its first run. So  *)
(* whoever destroys the query last closes the only one there is, whether   *)
(* the iteration ended, hit its limit or was given up in any page.         *)
StatementKnown ==
    /\ ~crashed => OpenIn(cursor) = ({output.continueInx} \ {0}) \cup unclosed \cup forgotten
    /\ type = "GENERAL" => forgotten = {}

(* Every variable has its type, and the statements are accounted for.      *)
QueryInv == TypeOK /\ StatementKnown

(* An iterator that is not at the end stands for the row that many         *)
(* increments have led to, and finds it inside the current page.           *)
DenotesRow(i) ==
    it[i].live /\ ~it[i].end =>
        /\ it[i].rowIdx < output.rowCnt
        /\ output.first + it[i].rowIdx = it[i].row

(* Copies of an iterator share the page it is on, so this is promised only *)
(* to a program that makes one pass over the query.                        *)
IteratorDenotesRow ==
    ~crashed /\ passes < 2 => \A i \in Iterators : DenotesRow(i)

(* A loop ends after exactly the rows there are, or the limit if that is   *)
(* less, wherever the page boundaries fall, in a program of one pass. A    *)
(* limit of 2^32 or more counts with its low 32 bits only, so that 2^32    *)
(* is no limit (query.hpp:176, :249).                                      *)
RowsDue == IF query_limit # 0 /\ query_limit < rows THEN query_limit ELSE rows

EndExact ==
    passes < 2 => \A i \in Iterators :
                     it[i].impl /\ it[i].end => it[i].row = RowsDue + 1

(* A query that is made asks for the columns its string selects, with the  *)
(* functions it names, under the conditions it states, cut where they end; *)
(* a string that names no other columns than there are is never refused.   *)
SelectionAsWritten ==
    type = "GENERAL" /\ Unambiguous(text) =>
        /\ query = "live" => NamesKnown(text) /\ Means(genInput, text)
        /\ query = "none" => (fillGenQueryInpFromStrCond(TextOf(text)).status = Ok) = NamesKnown(text)
====
