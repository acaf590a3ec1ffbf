--------------------------- MODULE CollectionReader ---------------------------
(***************************************************************************)
(* rclOpenCollection, rclReadCollection and rclCloseCollection             *)
(* (miscUtil.cpp): a handle pages through the sub-collections and the data *)
(* objects of a collection and hands them out one entry at a time.         *)
(*                                                                         *)
(* A call is one step, the calls it makes to the server included.  What a  *)
(* function of the source changes is a record x = [h, server, failed,      *)
(* leaked, status, ent]: the handle, the statements open at the server,    *)
(* the first request that failed, which arrays were dropped without being  *)
(* freed, and what the function returns.  Each function maps x to the set  *)
(* of its possible outcomes.                                               *)
(*                                                                         *)
(* A path is the sequence of its names.  A row of a reply is a record; the *)
(* text of a column of it is the pair <<column, row>>, so that an entry    *)
(* tells the column and the row each of its fields came from.              *)
(***************************************************************************)
EXTENDS GrowingArrays, FiniteSets

CONSTANTS
    Worlds,     \* what the server may hold: see Init
    MAX_SQL_ROWS,
    Openings    \* the calls of rclOpenCollection, first, second...:
                \* [flags, options, zeroed]

\* LongName: a name that fills more than half of MAX_NAME_LEN.
CONSTANT LongName
ASSUME PageAssumption == MAX_SQL_ROWS \in Nat \ {0}

VARIABLES
    world,      \* what the server holds
    x,          \* the handle and what surrounds it
    opening,    \* the arguments of the last rclOpenCollection
    got,        \* the entries handed out since
    seen,       \* the statuses of the reads since
    closed,     \* the caller has closed the handle
    openings,   \* number of openings so far
    refused     \* the openings that failed
vars == <<world, x, opening, got, seen, closed, openings, refused>>

Root == <<>>
Ok == "ok"
CAT_NO_ROWS_FOUND == "CAT_NO_ROWS_FOUND"
Failed == "failed"
Unknown == "unknown statement"
IsError(status) == status \notin {Ok, CAT_NO_ROWS_FOUND}

-----------------------------------------------------------------------------
(* The server: pages of MAX_SQL_ROWS rows, a statement for what is left.   *)

Reply(y, status, out) == [x |-> y, status |-> status, out |-> out]
NoOut == [rows |-> <<>>, columns |-> {}, continueInx |-> 0]

Page(y, n, left) ==
    LET k == MAX_SQL_ROWS
        more == Len(left.rows) > k
        rest == [left EXCEPT !.rows = SubSeq(@, k + 1, Len(@))]
        others == [m \in DOMAIN y.server \ {n} |-> y.server[m]]
    IN Reply([y EXCEPT !.server = IF more THEN (n :> rest) @@ others ELSE others], Ok,
             [rows |-> SubSeq(left.rows, 1, IF more THEN k ELSE Len(left.rows)),
              columns |-> left.columns, continueInx |-> IF more THEN n ELSE 0])

FirstPage(y, left) ==
    IF left.rows = <<>> THEN Reply(y, CAT_NO_ROWS_FOUND, NoOut)
    ELSE Page(y, CHOOSE n \in 1..3 : n \notin DOMAIN y.server, left)

\* A statement of another form is not known to the function asked.
FurtherPage(y, n, form) ==
    IF n \in DOMAIN y.server /\ y.server[n].form = form THEN Page(y, n, y.server[n])
    ELSE Reply(y, Unknown, NoOut)

\* One request of a reading may fail.
Refused(y) == IF y.failed = "no" THEN {Reply(y, Failed, NoOut)} ELSE {}

ValueOf(row, column) ==
    CASE column = "COL_COLL_NAME" -> row.coll
      [] column = "COL_COLL_PARENT_NAME" -> row.parent
      [] column = "COL_D_RESC_NAME" -> row.resc
Under(path, c) == IsStrictPrefix(c, path)
Meets(row, cond) ==
    LET v == ValueOf(row, cond.key)
    IN CASE cond.value.op = "differs" -> v # cond.value.arg
         [] cond.value.op = "equals" -> v = cond.value.arg
         [] cond.value.op = "under root" -> TRUE
         [] cond.value.op = "equals or under" ->
                v = cond.value.arg \/ (cond.value.arg # Root /\ Under(v, cond.value.arg))

genQuery(y, inp) ==
    LET conds == ToSet(inp.sqlCondInp.items)
        columns == {p.key : p \in ToSet(inp.selectInp.items)}
        table == IF "COL_DATA_NAME" \in columns THEN world.objs ELSE world.colls
        left == [form |-> "catalog", columns |-> columns,
                 rows |-> SelectSeq(table, LAMBDA row : \A c \in conds : Meets(row, c))]
    IN Refused(y) \cup
       {IF inp.continueInx > 0 THEN FurtherPage(y, inp.continueInx, "catalog")
        ELSE IF \E c \in conds : c.value.op = "cut" THEN Reply(y, Failed, NoOut)
        ELSE FirstPage(y, left)}

\* The listing of a mounted directory or a structured file.
SpecColumns == {"COL_COLL_NAME", "COL_DATA_NAME", "COL_D_CREATE_TIME", "COL_D_MODIFY_TIME", "COL_DATA_SIZE"}
querySpecColl(y, inp) ==
    LET table == IF getValByKey(inp.condInput, "SEL_OBJ_TYPE_KW", "") = "dataObj"
                 THEN SelectSeq(world.objs, LAMBDA row : row.coll = inp.objPath)
                 ELSE SelectSeq(world.colls, LAMBDA row : row.coll # Root /\ row.parent = inp.objPath)
    IN Refused(y) \cup
       {IF inp.openFlags > 0 THEN FurtherPage(y, inp.openFlags, "spec")
        ELSE FirstPage(y, [form |-> "spec", rows |-> table, columns |-> SpecColumns])}

-----------------------------------------------------------------------------
(* The handle.                                                             *)

NoInput == [selectInp |-> Empty, sqlCondInp |-> Empty, continueInx |-> 0]
clearedCollSqlResult == NoOut
clearedDataObjSqlResult == NoOut
ClosedHandle == [
    state |-> "COLL_CLOSED", flags |-> {}, rowInx |-> 0, specColl |-> "NO_SPEC_COLL",
    dataObjInp |-> [objPath |-> Root, openFlags |-> 0, condInput |-> Empty],
    genQueryInp |-> NoInput, coll |-> clearedCollSqlResult, data |-> clearedDataObjSqlResult,
    linkedObjPath |-> Root, prevdataId |-> 0]

Has(y, flag) == flag \in y.h.flags
Special(y) == y.h.specColl # "NO_SPEC_COLL"
Linked(y) == y.h.specColl = "LINKED_COLL"

\* clearGenQueryInp, which keeps continueInx.
clearGenQueryInp(inp) ==
    [inp EXCEPT !.selectInp = Cleared(@), !.sqlCondInp = Cleared(@)]
CleanUp(y) == IF Special(y) THEN y ELSE [y EXCEPT !.h.genQueryInp = clearGenQueryInp(@)]

\* The arrays a handle has: of its query, and of the options of the caller.
QueryArrays(h) == IF h.genQueryInp.selectInp.cap > 0 THEN {"query"} ELSE {}
CondArrays(h) == IF h.dataObjInp.condInput.cap > 0 THEN {"condInput"} ELSE {}

\* memset of a genQueryInp_t: arrays it still has are out of reach.
Zeroed(y) == [y EXCEPT !.h.genQueryInp = NoInput,
                       !.leaked = @ \cup QueryArrays(y.h)]

\* The condition repeats the path: one longer than half the buffer is cut.
genAllInCollQCond(c) ==
    IF c = Root THEN [op |-> "under root", arg |-> c]
    ELSE IF LongName \in ToSet(c) THEN [op |-> "cut", arg |-> c]
    ELSE [op |-> "equals or under", arg |-> c]

Select(columns) == FoldLeft(LAMBDA a, c : addInxIval(a, c, 1), Empty, columns)
Where(conds) == FoldLeft(LAMBDA a, p : addInxVal(a, p.key, p.value), Empty, conds)
EqualTo(v) == [op |-> "equals", arg |-> v]

\* Answers to a request, with the request that failed first.
Asked(replies, what) ==
    {IF r.status = Failed /\ r.x.failed = "no" THEN [r EXCEPT !.x.failed = what] ELSE r : r \in replies}

queryCollInColl(y, c, flags) ==
    LET scope == IF "RECUR_QUERY_FG" \in flags
                 THEN Pair("COL_COLL_NAME", genAllInCollQCond(c))
                 ELSE Pair("COL_COLL_PARENT_NAME", EqualTo(c))
        inp == [selectInp |-> Select(<<"COL_COLL_NAME", "COL_COLL_OWNER_NAME", "COL_COLL_CREATE_TIME",
                                       "COL_COLL_MODIFY_TIME", "COL_COLL_TYPE", "COL_COLL_INFO1", "COL_COLL_INFO2">>),
                sqlCondInp |-> Where(<<Pair("COL_COLL_NAME", [op |-> "differs", arg |-> Root]), scope>>),
                continueInx |-> 0]
    IN genQuery([Zeroed(y) EXCEPT !.h.genQueryInp = inp], inp)

setQueryInpForData(flags) ==
    Select(<<"COL_COLL_NAME", "COL_DATA_NAME", "COL_D_DATA_ID", "COL_DATA_MODE", "COL_DATA_SIZE",
             "COL_D_MODIFY_TIME", "COL_D_CREATE_TIME">>
           \o (IF {"LONG_METADATA_FG", "VERY_LONG_METADATA_FG"} \cap flags = {} THEN <<>>
               ELSE <<"COL_D_RESC_NAME", "COL_D_RESC_HIER", "COL_D_OWNER_NAME", "COL_DATA_REPL_NUM",
                      "COL_D_REPL_STATUS">>)
           \o (IF "VERY_LONG_METADATA_FG" \notin flags THEN <<>>
               ELSE <<"COL_D_DATA_PATH", "COL_D_DATA_CHECKSUM", "COL_DATA_TYPE_NAME">>))

\* The resource is a condition only where the flag says so.
queryDataObjInColl(y, c, flags) ==
    LET scope == IF "RECUR_QUERY_FG" \in flags THEN genAllInCollQCond(c) ELSE EqualTo(c)
        rescName == getValByKey(y.h.dataObjInp.condInput, "RESC_NAME_KW", "")
        resc == IF "INCLUDE_CONDINPUT_IN_QUERY" \in flags /\ rescName # ""
                THEN <<Pair("COL_D_RESC_NAME", EqualTo(rescName))>> ELSE <<>>
        inp == [selectInp |-> setQueryInpForData(flags),
                sqlCondInp |-> Where(<<Pair("COL_COLL_NAME", scope)>> \o resc), continueInx |-> 0]
    IN genQuery([Zeroed(y) EXCEPT !.h.genQueryInp = inp], inp)

-----------------------------------------------------------------------------
(* Replies become results: a column the reply lacks gets a default text.   *)

InheritParent == "INHERIT_PAR_SPEC_COLL"
Given(column, default) == [column |-> column, default |-> default]
CollColumns == [
    collName |-> Given("COL_COLL_NAME", ""), collType |-> Given("COL_COLL_TYPE", InheritParent),
    collInfo1 |-> Given("COL_COLL_INFO1", ""), collInfo2 |-> Given("COL_COLL_INFO2", ""),
    ownerName |-> Given("COL_COLL_OWNER_NAME", ""), createTime |-> Given("COL_COLL_CREATE_TIME", ""),
    modifyTime |-> Given("COL_COLL_MODIFY_TIME", "")]
DataColumns == [
    collName |-> Given("COL_COLL_NAME", ""), dataName |-> Given("COL_DATA_NAME", ""),
    dataMode |-> Given("COL_DATA_MODE", ""), dataSize |-> Given("COL_DATA_SIZE", "-1"),
    createTime |-> Given("COL_D_CREATE_TIME", ""), modifyTime |-> Given("COL_D_MODIFY_TIME", ""),
    dataId |-> Given("COL_D_DATA_ID", "")]
LongColumns == [
    chksum |-> Given("COL_D_DATA_CHECKSUM", ""), replStatus |-> Given("COL_D_REPL_STATUS", ""),
    resource |-> Given("COL_D_RESC_NAME", ""), resc_hier |-> Given("COL_D_RESC_HIER", ""),
    dataType |-> Given("COL_DATA_TYPE_NAME", ""), phyPath |-> Given("COL_D_DATA_PATH", ""),
    ownerName |-> Given("COL_D_OWNER_NAME", ""), replNum |-> Given("COL_DATA_REPL_NUM", "")]

getSqlResultByInx(out, column) == column \in out.columns
\* The text of a field: of which column, of which row.
Text(result, given, i) ==
    IF getSqlResultByInx(result, given.column) THEN <<given.column, result.rows[i]>> ELSE <<given.default>>

CollColumnsNeeded == {CollColumns[f].column : f \in DOMAIN CollColumns}
genQueryOutToCollRes(out) ==
    [result |-> out,
     status |-> IF "COL_COLL_NAME" \in out.columns
                   /\ ("COL_COLL_TYPE" \in out.columns => CollColumnsNeeded \subseteq out.columns)
                THEN Ok ELSE "UNMATCHED_KEY_OR_INDEX"]
genQueryOutToDataObjRes(out) ==
    [result |-> out,
     status |-> IF {"COL_COLL_NAME", "COL_DATA_NAME"} \subseteq out.columns THEN Ok
                ELSE "UNMATCHED_KEY_OR_INDEX"]

-----------------------------------------------------------------------------
(* The first page of each kind.                                            *)

\* The state moves on, whatever the answer.
Queried(r, state, taken) ==
    IF r.status = Ok THEN [r.x EXCEPT !.h.state = state, !.h.rowInx = 0, !.status = taken.status]
    ELSE [r.x EXCEPT !.h.state = state, !.h.rowInx = 0, !.status = r.status]

\* A special collection is listed by querySpecColl; a linked one is queried
\* at its target, without recursion.
PrepareSpecColl(y, type) ==
    [y EXCEPT !.h.dataObjInp.objPath = IF y.h.linkedObjPath # Root THEN y.h.linkedObjPath ELSE @,
              !.h.dataObjInp.condInput = addKeyVal(@, "SEL_OBJ_TYPE_KW", type),
              !.h.dataObjInp.openFlags = 0]
ListSpecColl(y, type) ==
    LET z == PrepareSpecColl(y, type) IN querySpecColl(z, z.h.dataObjInp)

genCollResInColl(y) ==
    LET replies == IF Linked(y)
                   THEN queryCollInColl(y, y.h.linkedObjPath, y.h.flags \ {"RECUR_QUERY_FG"})
                   ELSE IF Special(y) THEN ListSpecColl(y, "collection")
                   ELSE queryCollInColl(y, y.h.dataObjInp.objPath, y.h.flags)
    IN {LET taken == genQueryOutToCollRes(r.out)
            z == Queried(r, "COLL_COLL_OBJ_QUERIED", taken)
        IN IF r.status = Ok THEN [z EXCEPT !.h.coll = taken.result] ELSE z
        : r \in Asked(replies, "collections")}

genDataResInColl(y) ==
    LET replies == IF Linked(y)
                   THEN queryDataObjInColl(y, y.h.linkedObjPath, y.h.flags \ {"RECUR_QUERY_FG"})
                   ELSE IF Special(y) THEN ListSpecColl(y, "dataObj")
                   ELSE queryDataObjInColl(y, y.h.dataObjInp.objPath, y.h.flags)
    IN {LET taken == genQueryOutToDataObjRes(r.out)
            z == Queried(r, "COLL_DATA_OBJ_QUERIED", taken)
        IN IF r.status = Ok THEN [z EXCEPT !.h.data = taken.result] ELSE z
        : r \in Asked(replies, "objects")}

-----------------------------------------------------------------------------
(* The next entry of each kind.                                            *)

\* Any special collection, a linked one too, goes on with querySpecColl.
Continued(y, n, what) ==
    LET spec == [y EXCEPT !.h.dataObjInp.openFlags = n]
        plain == [y EXCEPT !.h.genQueryInp.continueInx = n]
    IN Asked(IF Special(y) THEN querySpecColl(spec, spec.h.dataObjInp)
             ELSE genQuery(plain, plain.h.genQueryInp), what)
Turned(r, result) ==
    IF r.status # Ok THEN [r.x EXCEPT !.h.rowInx = 0, !.h.genQueryInp.continueInx = 0, !.status = r.status]
    ELSE [r.x EXCEPT !.h.rowInx = 0, !.status = result.status]

resolveSpecCollType(type) ==
    CASE type = "mountPoint" -> Reply(0, Ok, "MOUNTED_COLL")
      [] type = "linkPoint" -> Reply(0, Ok, "LINKED_COLL")
      [] type = "tarFile" -> Reply(0, Ok, "STRUCT_FILE_COLL")
      [] OTHER -> Reply(0, "SYS_UNMATCHED_SPEC_COLL_TYPE", "NO_SPEC_COLL")

CollClass(y, i) ==
    LET type == IF getSqlResultByInx(y.h.coll, "COL_COLL_TYPE") THEN y.h.coll.rows[i].type ELSE InheritParent
    IN IF type = "" THEN Reply(0, Ok, "NO_SPEC_COLL")
       ELSE IF type = InheritParent THEN Reply(0, Ok, y.h.specColl)
       ELSE resolveSpecCollType(type)

TakeColl(y) ==
    LET i == y.h.rowInx + 1
        class == CollClass(y, i)
    IN [y EXCEPT !.h.rowInx = i, !.status = class.status,
                 !.ent = [objType |-> "COLL_OBJ_T", row |-> y.h.coll.rows[i], specColl |-> class.out,
                          fields |-> [f \in DOMAIN CollColumns \ {"collType", "collInfo1", "collInfo2"}
                                      |-> Text(y.h.coll, CollColumns[f], i)]]]

getNextCollMetaInfo(y) ==
    IF y.h.rowInx < Len(y.h.coll.rows) THEN {TakeColl(y)}
    ELSE LET emptied == [y EXCEPT !.h.coll = clearedCollSqlResult]
         IN IF y.h.coll.continueInx = 0 THEN {[emptied EXCEPT !.status = CAT_NO_ROWS_FOUND]}
            ELSE {LET taken == genQueryOutToCollRes(r.out)
                      z == Turned(r, taken)
                  IN IF r.status # Ok THEN z ELSE TakeColl([z EXCEPT !.h.coll = taken.result])
                  : r \in Continued(emptied, y.h.coll.continueInx, "more collections")}

Least(S) == CHOOSE i \in S : \A j \in S : i <= j
\* Mutant: what the page before ended with is forgotten.
PickForgetful(y) ==
    LET rows == y.h.data.rows
        first == y.h.rowInx + 1
        next == Least({i \in first + 1 .. Len(rows) : rows[i].id # rows[first].id} \cup {Len(rows) + 1})
    IN {[row |-> first, rowInx |-> next - 1, prevdataId |-> rows[first].id]}
\* Of each object the first replica is taken that is not of the object
\* before; a later one only where the number of the object is 0.
Pick(y) ==
    LET rows == y.h.data.rows
        others == {i \in y.h.rowInx + 1 .. Len(rows) : rows[i].id # y.h.prevdataId}
        first == Least(others)
        next == Least({i \in first + 1 .. Len(rows) : rows[i].id # rows[first].id} \cup {Len(rows) + 1})
        good == {i \in first + 1 .. next - 1 : rows[i].replStatus > 0}
    IN IF others = {} THEN {}
       ELSE {[row |-> IF rows[first].id = 0 /\ good # {} THEN Least(good) ELSE first,
              rowInx |-> next - 1, prevdataId |-> rows[first].id]}
Following(y) ==
    {[row |-> y.h.rowInx + 1, rowInx |-> y.h.rowInx + 1, prevdataId |-> y.h.prevdataId]}

DataFields(y, i) ==
    LET F == [f \in DOMAIN DataColumns |-> Text(y.h.data, DataColumns[f], i)]
        L == [f \in DOMAIN LongColumns |-> Text(y.h.data, LongColumns[f], i)]
    IN IF Special(y) /\ ~Linked(y)
       THEN [L EXCEPT !.resource = <<"of the collection">>, !.resc_hier = <<"of the collection">>,
                      !.ownerName = <<"of the collection">>, !.replStatus = <<"NEWLY_CREATED_COPY">>] @@ F
       ELSE L @@ F

TakeData(y) ==
    LET trimmed == getSqlResultByInx(y.h.data, "COL_D_DATA_ID") /\ ~Has(y, "NO_TRIM_REPL_FG")
        picked == IF trimmed THEN Pick(y) ELSE Following(y)
    IN IF picked = {} THEN {[y EXCEPT !.status = CAT_NO_ROWS_FOUND]}
       ELSE {[y EXCEPT !.h.rowInx = p.rowInx, !.h.prevdataId = p.prevdataId, !.status = Ok,
                       !.ent = [objType |-> "DATA_OBJ_T", row |-> y.h.data.rows[p.row],
                                specColl |-> y.h.specColl, fields |-> DataFields(y, p.row)]]
             : p \in picked}

getNextDataObjMetaInfo(y) ==
    IF y.h.rowInx < Len(y.h.data.rows) THEN TakeData(y)
    ELSE LET emptied == [y EXCEPT !.h.data = clearedDataObjSqlResult]
         IN IF y.h.data.continueInx = 0 THEN {[emptied EXCEPT !.status = CAT_NO_ROWS_FOUND]}
            ELSE UNION {LET taken == genQueryOutToDataObjRes(r.out)
                            z == Turned(r, taken)
                        IN IF r.status # Ok THEN {z} ELSE TakeData([z EXCEPT !.h.data = taken.result])
                        : r \in Continued(emptied, y.h.data.continueInx, "more objects")}

-----------------------------------------------------------------------------
(* rclReadCollection                                                       *)

Then(outcomes, F(_)) == UNION {F(y) : y \in outcomes}
In(y, state) == y.h.state = state
Finish(y) == IF y.status = Ok THEN y ELSE [CleanUp(y) EXCEPT !.h.state = "COLL_CLOSED"]

\* An error of the collections is logged, and the objects come next.
ReadCollectionsFirst(start) ==
    LET Query(y) == IF In(y, "COLL_OPENED") THEN genCollResInColl(y) ELSE {y}
        Move(y) == IF y.status = Ok THEN {y} ELSE genDataResInColl(CleanUp(y))
        Colls(y) == IF In(y, "COLL_COLL_OBJ_QUERIED") THEN Then(getNextCollMetaInfo(y), Move) ELSE {y}
        Data(y) == IF In(y, "COLL_DATA_OBJ_QUERIED")
                   THEN {Finish(z) : z \in getNextDataObjMetaInfo(y)} ELSE {y}
    IN Then(Then(Query(start), Colls), Data)

\* An error of a first page is kept and returned instead of what comes next.
ReadObjectsFirst(start) ==
    LET Saved(y) == IF IsError(y.status) THEN [y EXCEPT !.saved = y.status] ELSE y
        Query(y) == IF In(y, "COLL_OPENED") THEN {Saved(z) : z \in genDataResInColl(y)} ELSE {y}
        Move(y) == IF y.status = Ok THEN {y} ELSE {Saved(z) : z \in genCollResInColl(CleanUp(y))}
        Data(y) == IF In(y, "COLL_DATA_OBJ_QUERIED") THEN Then(getNextDataObjMetaInfo(y), Move) ELSE {y}
        Returned(y) == IF IsError(y.saved) THEN [y EXCEPT !.status = y.saved] ELSE y
        Colls(y) == IF In(y, "COLL_COLL_OBJ_QUERIED")
                    THEN {Returned(Finish(z)) : z \in getNextCollMetaInfo(y)} ELSE {y}
    IN Then(Then(Query(start), Data), Colls)

readCollection(y) ==
    IF In(y, "COLL_CLOSED") THEN {[y EXCEPT !.status = CAT_NO_ROWS_FOUND]}
    ELSE IF Has(y, "DATA_QUERY_FIRST_FG") THEN ReadObjectsFirst(y) ELSE ReadCollectionsFirst(y)

Read ==
    /\ ~closed
    /\ seen # <<>> => Last(seen) = Ok
    /\ \E y \in readCollection([x EXCEPT !.saved = Ok]) :
        /\ x' = [y EXCEPT !.saved = Ok, !.status = Ok, !.ent = <<>>]
        /\ seen' = Append(seen, y.status)
        /\ got' = IF y.status = Ok THEN Append(got, y.ent) ELSE got
    /\ UNCHANGED <<world, opening, closed, openings, refused>>

-----------------------------------------------------------------------------
(* rclOpenCollection and rclCloseCollection                                *)

\* initCondForChksum: a keyword for each option.
initCondForChksum(options) ==
    LET keys == <<"ADMIN_KW", "FORCE_CHKSUM_KW", "CHKSUM_ALL_KW", "VERIFY_CHKSUM_KW", "REPL_NUM_KW", "RESC_NAME_KW">>
        Add(a, k) == IF k \in options THEN addKeyVal(a, k, IF k = "RESC_NAME_KW" THEN "r1" ELSE "") ELSE a
    IN FoldLeft(Add, Empty, keys)

\* chksumCollUtil clears the handle first, another caller may not; without
\* the flag rclOpenCollection does.
Cleaned(o) ==
    IF "INCLUDE_CONDINPUT_IN_QUERY" \notin o.flags THEN ClosedHandle
    ELSE LET h == IF o.zeroed THEN ClosedHandle ELSE x.h
         IN [h EXCEPT !.dataObjInp.condInput = replKeyVal(initCondForChksum(o.options))]

Opening == IF openings < Len(Openings) THEN Openings[openings + 1] ELSE {}

\* The memset of the handle, by rclOpenCollection or its caller, drops the
\* arrays of the handle; without it replKeyVal still overwrites condInput.
Dropped(o) ==
    CondArrays(x.h) \cup
    IF "INCLUDE_CONDINPUT_IN_QUERY" \notin o.flags \/ o.zeroed THEN QueryArrays(x.h) ELSE {}

Open(o) ==
    /\ closed
    /\ LET h == Cleaned(o)
       IN x' = [x EXCEPT
            !.h = [h EXCEPT !.dataObjInp.objPath = world.top, !.specColl = world.specColl,
                            !.linkedObjPath = IF world.specColl \notin {"NO_SPEC_COLL", "STRUCT_FILE_COLL"}
                                                 /\ world.target # Root
                                              THEN world.target ELSE @,
                            !.state = "COLL_OPENED", !.flags = o.flags],
            !.leaked = @ \cup Dropped(o), !.failed = "no", !.server = <<>>]
    /\ opening' = o
    /\ got' = <<>> /\ seen' = <<>>
    /\ closed' = FALSE /\ openings' = openings + 1
    /\ UNCHANGED <<world, refused>>

\* rcObjStat fails, or finds no collection: the handle is left as it is, and
\* no caller closes it.
OpenFails(o) ==
    /\ closed
    /\ x' = [x EXCEPT !.h = [Cleaned(o) EXCEPT !.dataObjInp.objPath = world.top], !.leaked = @ \cup Dropped(o)]
    /\ openings' = openings + 1
    /\ refused' = refused \cup {o}
    /\ UNCHANGED <<world, opening, got, seen, closed>>

\* Mutant: the input of the query is only freed where a query was left open.
CloseKeepsInput(h) ==
    [h EXCEPT !.genQueryInp = IF @.continueInx = 0 THEN @ ELSE clearGenQueryInp(@),
              !.dataObjInp = ClosedHandle.dataObjInp, !.specColl = "NO_SPEC_COLL",
              !.coll = clearedCollSqlResult, !.data = clearedDataObjSqlResult,
              !.state = "COLL_CLOSED", !.rowInx = 0]
\* prevdataId and linkedObjPath stay as they are.
clearCollHandle(h) ==
    [h EXCEPT !.genQueryInp = IF h.specColl = "NO_SPEC_COLL" THEN clearGenQueryInp(@) ELSE @,
              !.dataObjInp = ClosedHandle.dataObjInp, !.specColl = "NO_SPEC_COLL",
              !.coll = clearedCollSqlResult, !.data = clearedDataObjSqlResult,
              !.state = "COLL_CLOSED", !.rowInx = 0]

\* The caller may close at any time.
Close ==
    /\ ~closed
    /\ x' = [x EXCEPT !.h = clearCollHandle(@)]
    /\ closed' = TRUE
    /\ UNCHANGED <<world, opening, got, seen, openings, refused>>

Init ==
    /\ world \in Worlds
    /\ x = [h |-> ClosedHandle, server |-> <<>>, failed |-> "no", leaked |-> {},
            status |-> Ok, saved |-> Ok, ent |-> <<>>]
    /\ opening = [flags |-> {}, options |-> {}, zeroed |-> TRUE]
    /\ got = <<>> /\ seen = <<>>
    /\ closed = TRUE /\ openings = 0 /\ refused = {}
Next == Read \/ Close \/ \E o \in Opening : Open(o) \/ OpenFails(o)
Spec == Init /\ [][Next]_vars

-----------------------------------------------------------------------------
(* What was asked for, from what the server holds.                         *)

Base == IF world.specColl \in {"NO_SPEC_COLL", "STRUCT_FILE_COLL"} \/ world.target = Root
        THEN world.top ELSE world.target
Flag(f) == f \in opening.flags
InScope(c, shallow) ==
    IF Flag("RECUR_QUERY_FG") /\ world.specColl = "NO_SPEC_COLL" THEN c = Base \/ Under(c, Base) ELSE shallow
CollsAsked == SelectSeq(world.colls, LAMBDA r : r.coll # Root /\ InScope(r.coll, r.parent = Base))
OneResource ==
    /\ Flag("INCLUDE_CONDINPUT_IN_QUERY") /\ "RESC_NAME_KW" \in opening.options
    /\ world.specColl \in {"NO_SPEC_COLL", "LINKED_COLL"}
ReplicasAsked == SelectSeq(world.objs, LAMBDA r : InScope(r.coll, r.coll = Base) /\ (OneResource => r.resc = "r1"))
KeepsReplicas == Flag("NO_TRIM_REPL_FG") \/ world.specColl \notin {"NO_SPEC_COLL", "LINKED_COLL"}
FirstOfObject(rows, i) == \A j \in 1..(i - 1) : rows[j].id # rows[i].id
ObjsAsked ==
    LET rows == ReplicasAsked
        kept == {i \in DOMAIN rows : KeepsReplicas \/ FirstOfObject(rows, i)}
    IN [k \in 1..Cardinality(kept) |-> rows[CHOOSE i \in kept : Cardinality({j \in kept : j <= i}) = k]]
Expected == IF Flag("DATA_QUERY_FIRST_FG") THEN ObjsAsked \o CollsAsked ELSE CollsAsked \o ObjsAsked

\* Where a reading loses entries without any request failing: a type that
\* is not known; a linked collection of more than a page; an object with
\* more replicas than a page has rows; a handle used before and not cleared.
Ordinary ==
    /\ \A i \in DOMAIN CollsAsked : world.specColl # "NO_SPEC_COLL" \/ CollsAsked[i].type # "odd"
    /\ world.specColl = "LINKED_COLL" => \A rows \in {CollsAsked, ReplicasAsked} : Len(rows) <= MAX_SQL_ROWS
    /\ \A i \in DOMAIN ReplicasAsked :
          Cardinality({j \in DOMAIN ReplicasAsked : ReplicasAsked[j].id = ReplicasAsked[i].id}) <= MAX_SQL_ROWS
    /\ Flag("INCLUDE_CONDINPUT_IN_QUERY") => opening.zeroed

Finished == seen # <<>> /\ Last(seen) # Ok
Rows == [i \in DOMAIN got |-> got[i].row]

\* The failures that the reader only logs: all but that of a further page of
\* objects where collections come first, only that one where objects do.
OnlyLogged == (x.failed = "more objects") = Flag("DATA_QUERY_FIRST_FG")

\* A reading that ends without a failed request has returned every
\* sub-collection and every object asked for, once, in the order asked for;
\* one with a failed request has returned nothing twice and nothing else,
\* and ends with the error unless it is one that is only logged.
ReadsEverything == Ordinary =>
    /\ x.failed = "no" => IsPrefix(Rows, Expected) /\ (Finished => Rows = Expected)
    /\ Cardinality(ToSet(Rows)) = Len(Rows) /\ ToSet(Rows) \subseteq ToSet(Expected)
    /\ Finished /\ x.failed # "no" /\ ~OnlyLogged => Last(seen) = Failed
    /\ \A i \in DOMAIN got : \A f \in DOMAIN got[i].fields :
          /\ Len(got[i].fields[f]) = 2 => got[i].fields[f][2] = got[i].row
          /\ f \in {"replNum", "resource"} /\ Flag("LONG_METADATA_FG") /\ world.specColl = "NO_SPEC_COLL"
                => Len(got[i].fields[f]) = 2

\* An opening filled condInput and failed: nobody frees it.
CondLost == \E o \in refused : "INCLUDE_CONDINPUT_IN_QUERY" \in o.flags /\ o.options # {}

\* No array is written behind its end. Those of a query are dropped before
\* they are freed only where a linked collection was read, those of condInput
\* only where an opening failed that was given options; but for that one, a
\* closed handle keeps nothing. A statement stays open at the server only
\* where the reading was given up, or a request failed.
Released ==
    /\ Fits(x.h.dataObjInp.condInput) /\ Fits(x.h.genQueryInp.selectInp) /\ Fits(x.h.genQueryInp.sqlCondInp)
    /\ "query" \in x.leaked => world.specColl = "LINKED_COLL"
    /\ "condInput" \in x.leaked => CondLost
    /\ closed => x.h.dataObjInp.condInput = Empty \/ CondLost
    /\ closed /\ openings > 0 /\ opening.flags = x.h.flags =>
          /\ world.specColl = "NO_SPEC_COLL" => x.h.genQueryInp.selectInp = Empty /\ x.h.genQueryInp.sqlCondInp = Empty
          /\ x.h.coll = NoOut /\ x.h.data = NoOut
          /\ Finished /\ Ordinary /\ x.failed = "no" => x.server = <<>>
=============================================================================
