----------------------------- MODULE MCApiCalls -----------------------------
(* Any call first, after it a few that differ in what they exchange.       *)
EXTENDS ApiCalls

FirstCalls == UNION {Calls(w) : w \in Wrappers \cup Direct} \cup Unknown
NextCalls == UNION {Calls(w) : w \in {rcObjStat, rcDataObjCopy, rcRmColl, rcDataObjWrite, rcDataObjOpen}}
MCCallers == <<FirstCalls, NextCalls, {rcObjStat, rcDataObjCopy, rcRmColl}>>

Success(n) == [info |-> n, cause |-> Ok]
Failure(e, errno) == [info |-> e.code - errno, cause |-> e.name]

\* Every error of the table once, of one call; elsewhere one of each sign.
MCStatuses(row, id) ==
    {Success(0), Failure(E("CAT_NO_ROWS_FOUND", ErrorCode["CAT_NO_ROWS_FOUND"]), 0)}
    \cup (IF row.out = "CollOprStat_PI" THEN {Success(CollStat)} ELSE {})
    \cup (IF id = 1 /\ row = RcApiTable[rcModColl.api]
          THEN {Failure(Errors[i], errno) : i \in DOMAIN Errors, errno \in {0, 2, MaxErrno}} ELSE {})
=============================================================================
