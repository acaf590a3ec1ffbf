------------------------------- MODULE ApiCalls ------------------------------
(***************************************************************************)
(* Calls of the API over one connection: the wrappers rc..., procApiRequest *)
(* with the row of the API table it looks up, the request, the agent that   *)
(* serves it, the reply, and the further replies of a collection operation, *)
(* each of which the client acknowledges.                                   *)
(*                                                                         *)
(* The bytes of a structure are its C type; a status is a number.  The     *)
(* agent is external: it serves requests in order with the function of the *)
(* row, waits for an acknowledgement after a progress report, and ends     *)
(* when it reads anything else in its place.                               *)
(***************************************************************************)
EXTENDS ApiTable, ErrorTable, ApiPackTables, FiniteSets

CONSTANTS
    NULL,
    Callers,            \* the calls a program makes, by their position
    MaxCalls,           \* bound: calls of one behaviour
    MaxReports,         \* bound: progress reports for one call
    Statuses(_, _)      \* what the function of a row may return to a call

ASSUME NullAssumption == NULL # "bytesBuf_t"
ASSUME BoundAssumption == MaxCalls \in Nat /\ MaxReports \in Nat

VARIABLES
    conn,       \* rcComm_t: apiInx, rError and transStat, by the call they stem from
    call,       \* the call in progress or the last one
    toAgent,    \* requests and acknowledgements not yet read
    toClient,   \* replies not yet read
    agent,      \* "serving", "reporting" (awaits an acknowledgement) or "ended"
    reports,    \* progress reports made for the request
    abandoned   \* calls that returned with a reply of theirs still to come

vars == <<conn, call, toAgent, toClient, agent, reports, abandoned>>

CollStat == 99999996
MaxErrno == 999

\* client_api_table: the rows by number.
RowsByName == ApiRows(NULL)
ApiTableNumbers == {ApiNumber[name] : name \in DOMAIN RowsByName}
RcApiTable == [n \in ApiTableNumbers |->
                 RowsByName[CHOOSE name \in DOMAIN RowsByName : ApiNumber[name] = n]]
Packable == DOMAIN RodsPackTable \cup DOMAIN ApiPackTable

\* The structure that the function of a row returns.
OutType(r) == SelectSeq(r.handler, LAMBDA p : p.passed = "out")[1].type
-----------------------------------------------------------------------------
\* A wrapper: the call it makes, with the types of its parameters, and the
\* arguments it supplies itself; the others are its caller's.
Wrapper(api, in, inBs, out, outBs, own) ==
    [api |-> ApiNumber[api], in |-> in, inBs |-> inBs, out |-> out, outBs |-> outBs, own |-> own,
     whole |-> TRUE]
Sends(api, in) == Wrapper(api, in, NULL, NULL, NULL, {})
Returns(api, in, out) == Wrapper(api, in, NULL, out, NULL, {})

rcAuthRequest == Wrapper("AUTH_REQUEST_AN", NULL, NULL, "authRequestOut_t", NULL, {})
rcAuthResponse == Sends("AUTH_RESPONSE_AN", "authResponseInp_t")
rcCloseCollection == Wrapper("CLOSE_COLLECTION_AN", "int", NULL, NULL, NULL, {"in"})
rcCollCreate == Sends("COLL_CREATE_AN", "collInp_t")
rcDataObjChksum == Returns("DATA_OBJ_CHKSUM_AN", "dataObjInp_t", "char")
rcDataObjClose == Sends("DATA_OBJ_CLOSE_AN", "openedDataObjInp_t")
rcDataObjCopy ==
    Wrapper("DATA_OBJ_COPY_AN", "dataObjCopyInp_t", NULL, "transferStat_t", NULL, {"in", "out"})
rcDataObjLseek == Returns("DATA_OBJ_LSEEK_AN", "openedDataObjInp_t", "fileLseekOut_t")
rcDataObjOpen == Sends("DATA_OBJ_OPEN_AN", "dataObjInp_t")
rcDataObjRead ==
    Wrapper("DATA_OBJ_READ_AN", "openedDataObjInp_t", NULL, NULL, "bytesBuf_t", {})
rcDataObjRename == Sends("DATA_OBJ_RENAME_AN", "dataObjCopyInp_t")
rcDataObjUnlink == Sends("DATA_OBJ_UNLINK_AN", "dataObjInp_t")
rcDataObjWrite ==
    Wrapper("DATA_OBJ_WRITE_AN", "openedDataObjInp_t", "bytesBuf_t", NULL, NULL, {})
rcGenQuery == Returns("GEN_QUERY_AN", "genQueryInp_t", "genQueryOut_t")
rcGetHierFromLeafId == Returns("GET_HIER_FROM_LEAF_ID_AN", "get_hier_inp_t", "get_hier_out_t")
rcGetHostForGet == Returns("GET_HOST_FOR_GET_AN", "dataObjInp_t", "char")
rcGetHostForPut == Returns("GET_HOST_FOR_PUT_AN", "dataObjInp_t", "char")
rcGetLimitedPassword ==
    Returns("GET_LIMITED_PASSWORD_AN", "getLimitedPasswordInp_t", "getLimitedPasswordOut_t")
rcGetRemoteZoneResc == Returns("GET_REMOTE_ZONE_RESC_AN", "dataObjInp_t", "rodsHostAddr_t")
rcModAVUMetadata == Sends("MOD_AVU_METADATA_AN", "modAVUMetadataInp_t")
rcModAccessControl == Sends("MOD_ACCESS_CONTROL_AN", "modAccessControlInp_t")
rcModColl == Sends("MOD_COLL_AN", "collInp_t")
rcModDataObjMeta == Wrapper("MOD_DATA_OBJ_META_AN", "modDataObjMeta_t", NULL, NULL, NULL, {"in"})
rcObjStat == Returns("OBJ_STAT_AN", "dataObjInp_t", "rodsObjStat_t")
rcOpenCollection == Sends("OPEN_COLLECTION_AN", "collInp_t")
rcPamAuthRequest == Returns("PAM_AUTH_REQUEST_AN", "pamAuthRequestInp_t", "pamAuthRequestOut_t")
rcQuerySpecColl == Returns("QUERY_SPEC_COLL_AN", "dataObjInp_t", "genQueryOut_t")
rcReadCollection == Wrapper("READ_COLLECTION_AN", "int", NULL, "collEnt_t", NULL, {"in"})
rcRmColl == Wrapper("RM_COLL_AN", "collInp_t", NULL, "collOprStat_t", NULL, {"out"})
rcSpecificQuery == Returns("SPECIFIC_QUERY_AN", "specificQueryInp_t", "genQueryOut_t")
rcSslEnd == Sends("SSL_END_AN", "sslEndInp_t")
rcSslStart == Sends("SSL_START_AN", "sslStartInp_t")

Wrappers == {
    rcAuthRequest, rcAuthResponse, rcCloseCollection, rcCollCreate, rcDataObjChksum, rcDataObjClose,
    rcDataObjCopy, rcDataObjLseek, rcDataObjOpen, rcDataObjRead, rcDataObjRename, rcDataObjUnlink,
    rcDataObjWrite, rcGenQuery, rcGetHierFromLeafId, rcGetHostForGet, rcGetHostForPut,
    rcGetLimitedPassword, rcGetRemoteZoneResc, rcModAVUMetadata, rcModAccessControl, rcModColl,
    rcModDataObjMeta, rcObjStat, rcOpenCollection, rcPamAuthRequest, rcQuerySpecColl,
    rcReadCollection, rcRmColl, rcSpecificQuery, rcSslEnd, rcSslStart}

\* A program may also call procApiRequest itself, with the structures that
\* the instructions of a row describe: any row that names an instruction
\* tells its structure.  A number without a row is possible too.
InTypes(instruction) ==
    {r.handler[1].type :
       r \in {RowsByName[a] : a \in {a \in DOMAIN RowsByName : RowsByName[a].in = instruction}}}
OutTypes(instruction) ==
    UNION {{p.type : p \in {q \in ToSet(r.handler) : q.passed = "out"}} :
             r \in {RowsByName[a] : a \in {a \in DOMAIN RowsByName : RowsByName[a].out = instruction}}}
Buffer(flag) == IF flag > 0 THEN "bytesBuf_t" ELSE NULL
Direct ==
    UNION {LET r == RowsByName[name]
           IN  {[api |-> ApiNumber[name], in |-> in, inBs |-> Buffer(r.inBs), out |-> out,
                 outBs |-> Buffer(r.outBs), own |-> {}, whole |-> TRUE] :
                  in \in IF r.in = NULL THEN {NULL} ELSE InTypes(r.in),
                  out \in IF r.out = NULL THEN {NULL} ELSE OutTypes(r.out)} :
               name \in DOMAIN RowsByName}
Unknown == {[api |-> ApiNumber[name], in |-> NULL, inBs |-> NULL, out |-> NULL, outBs |-> NULL, own |-> {},
             whole |-> TRUE] :
              name \in DOMAIN ApiNumber \ DOMAIN RowsByName}

\* The caller may pass NULL for a pointer that is his to supply.
Arguments == {"in", "inBs", "out", "outBs"}
WithNull(w, argument) ==
    [a \in DOMAIN w |-> IF a = argument THEN NULL ELSE IF a = "whole" THEN FALSE ELSE w[a]]
Calls(w) == {w} \cup {WithNull(w, a) : a \in {a \in Arguments \ w.own : w[a] # NULL}}

\* The room a caller makes for a result is that of a structure of its type.
Structures == {NULL} \cup STRING
Called == UNION {Callers[i] : i \in 1 .. MaxCalls}
ASSUME CallersAssumption ==
    \A w \in Called :
        /\ w \in [api : Int, in : Structures, inBs : Structures, out : Structures,
                   outBs : Structures, own : SUBSET Arguments, whole : BOOLEAN]
        /\ w.api \in ApiTableNumbers =>
             LET r == RcApiTable[w.api] IN r.out # NULL /\ w.out # NULL => OutType(r) = w.out
\* Why a call has the status it has: nothing failed, or an error of the table.
Ok == "0"
Causes == {Ok} \cup DOMAIN ErrorCode

\* Success is not negative; a failure is the code of its error less an errno.
StatusOf(v, cause) ==
    \/ cause = Ok /\ v >= 0
    \/ cause # Ok /\ \E errno \in 0 .. MaxErrno : v = ErrorCode[cause] - errno
ASSUME StatusAssumption ==
    \A n \in ApiTableNumbers, id \in 1 .. MaxCalls :
        \A s \in Statuses(RcApiTable[n], id) :
            s \in [info : Int, cause : Causes] /\ StatusOf(s.info, s.cause)
-----------------------------------------------------------------------------
\* The errors that the client raises. apiTableLookup, and what sendApiRequest
\* refuses before it sends, are SendError.
ClientErrors == {"SYS_UNMATCHED_API_NUM", "USER_API_INPUT_ERR", "SYS_UNMATCH_PACK_INSTRUCTI_NAME",
                 "SYS_INTERNAL_ERR", "USER_PACKSTRUCT_INPUT_ERR", "SYS_SOCK_WRITE_ERR"}
ASSUME CodeAssumption ==
    /\ ClientErrors \subseteq DOMAIN ErrorCode
    /\ \A e \in DOMAIN ErrorCode : ErrorCode[e] \in Int /\ ErrorCode[e] < 0
SendError(c) ==
    IF c.api \notin ApiTableNumbers THEN "SYS_UNMATCHED_API_NUM"
    ELSE LET r == RcApiTable[c.api]
         IN  IF r.in = NULL THEN Ok
             ELSE IF c.in = NULL THEN "USER_API_INPUT_ERR"
             ELSE IF r.in \notin Packable THEN "SYS_UNMATCH_PACK_INSTRUCTI_NAME" ELSE Ok

\* Mutant: only a flag above one lets the bytes through.
BytesOfTwo(flag, inBs) == flag > 1 /\ inBs # NULL
\* The request: bytes the row does not ask for are dropped.
BytesSent(flag, inBs) == flag > 0 /\ inBs # NULL
Request(c, id) ==
    LET r == RcApiTable[c.api]
    IN  [kind |-> "request", id |-> id, api |-> c.api, in |-> IF r.in = NULL THEN NULL ELSE c.in,
         bytes |-> BytesSent(r.inBs, c.inBs)]

Ack == [kind |-> "ack", id |-> 0, api |-> 0, in |-> NULL, bytes |-> FALSE]

\* Results the row promises and the caller has no room for.
OutRefused(c) ==
    LET r == RcApiTable[c.api]
    IN  (r.out # NULL /\ c.out = NULL) \/ (r.outBs > 0 /\ c.outBs = NULL)

CopiesStat(c) == c.api = rcDataObjCopy.api /\ c.own = rcDataObjCopy.own

\* A message to an agent that has ended goes nowhere: sendApiRequest keeps
\* the status of packStruct and the call goes on to read.
Deliver(message) ==
    toAgent' = IF agent.state = "ended" THEN toAgent ELSE Append(toAgent, message)

Return(status, cause) == call' = [call EXCEPT !.pc = "idle", !.status = status, !.cause = cause]
Fail(cause) == Return(ErrorCode[cause], cause)

\* What a call wipes of the connection before it starts.
Cleared(w) == [conn EXCEPT !.rError = 0, !.transStat = IF CopiesStat(w) THEN 0 ELSE @]

Begun(w, pc, id, status, cause) ==
    [api |-> w.api, in |-> w.in, inBs |-> w.inBs, out |-> w.out, outBs |-> w.outBs,
     own |-> w.own, whole |-> w.whole,
     pc |-> pc, id |-> id, status |-> status, cause |-> cause, answer |-> 0, got |-> NULL]

\* procApiRequest up to the reply.
procApiRequest(w) ==
    /\ call.pc = "idle"
    /\ LET error == SendError(w)
       IN  IF error # Ok
           THEN /\ conn' = Cleared(w)
                /\ call' = Begun(w, "idle", call.id, ErrorCode[error], error)
                /\ UNCHANGED toAgent
           ELSE /\ conn' = [Cleared(w) EXCEPT !.apiInx = w.api]
                /\ call' = Begun(w, "sent", call.id + 1, 0, Ok)
                /\ Deliver(Request(w, call.id + 1))
    /\ UNCHANGED <<toClient, agent, reports, abandoned>>
-----------------------------------------------------------------------------
\* readAndProcApiReply looks at the pointers for the result only now: the
\* request is on its way and its reply will be there for the next call.
RefuseOut ==
    /\ call.pc = "sent"
    /\ OutRefused(call)
    /\ Fail("USER_API_INPUT_ERR")
    /\ abandoned' = abandoned \cup {call.id}
    /\ UNCHANGED <<conn, toAgent, toClient, agent, reports>>

\* procApiReply: the status of the call when the structure of the reply can
\* be unpacked and when it cannot.
ReplyStatus(reply, unpacked) ==
    IF unpacked \/ reply.info < 0 THEN [status |-> reply.info, cause |-> reply.cause]
    ELSE [status |-> ErrorCode["USER_PACKSTRUCT_INPUT_ERR"], cause |-> "USER_PACKSTRUCT_INPUT_ERR"]

\* cliGetCollOprStat goes on while reports come.
MoreToCome(c, s) == c.out = "collOprStat_t" /\ s.status = CollStat

\* Mutant: the rest of a reply of a failure is left in the socket.
TakenIfSucceeded(reply, c, s, unpacked) ==
    /\ toClient' = IF reply.info < 0 THEN toClient ELSE Tail(toClient)
    /\ conn' = [conn EXCEPT
           !.rError = IF reply.rError THEN reply.id ELSE @,
           !.transStat = IF CopiesStat(c) /\ s.status >= 0 /\ reply.out # NULL /\ unpacked
                         THEN reply.id ELSE @]

Taken(reply, c, s, unpacked) ==
    /\ toClient' = Tail(toClient)
    /\ conn' = [conn EXCEPT
           !.rError = IF reply.rError THEN reply.id ELSE @,
           !.transStat = IF CopiesStat(c) /\ s.status >= 0 /\ reply.out # NULL /\ unpacked
                         THEN reply.id ELSE @]

\* Mutant: the next report is awaited without one.
AcknowledgeNothing(read) == call' = read /\ UNCHANGED toAgent
\* _cliGetCollOprStat: the acknowledgement without which no report follows.
\* It may be lost with an agent that has ended, or fail to be written.
Acknowledge(read) ==
    \/ call' = read /\ Deliver(Ack)
    \/ /\ agent.state = "ended"
       /\ call' = [read EXCEPT !.pc = "idle", !.cause = "SYS_SOCK_WRITE_ERR",
                               !.status = ErrorCode["SYS_SOCK_WRITE_ERR"]]
       /\ UNCHANGED toAgent

\* readAndProcApiReply reads the oldest reply.  A structure of a wrong type,
\* or one that does not fit its own, may or may not be refused.
ReadReply ==
    /\ call.pc = "sent"
    /\ ~ OutRefused(call)
    /\ toClient # <<>>
    /\ LET reply == Head(toClient)
       IN  \E unpacked \in IF reply.out = NULL \/ call.out = NULL THEN {TRUE} ELSE BOOLEAN :
             LET s == ReplyStatus(reply, unpacked)
                 read == [call EXCEPT !.answer = reply.id, !.status = s.status, !.cause = s.cause,
                                      !.got = IF unpacked /\ call.out # NULL THEN reply.out ELSE NULL]
             IN  /\ Taken(reply, call, s, unpacked)
                 /\ IF MoreToCome(call, s)
                    THEN Acknowledge(read) /\ UNCHANGED abandoned
                    ELSE /\ call' = [read EXCEPT !.pc = "idle"]
                         /\ abandoned' = IF reply.info = CollStat THEN abandoned \cup {call.id} ELSE abandoned
                         /\ UNCHANGED toAgent
    /\ UNCHANGED <<agent, reports>>

\* The agent has ended: the header cannot be read, or the header of its last
\* reply can and the body cannot, which returns the status 0 of no failure.
ReadHeaderFails ==
    /\ call.pc = "sent"
    /\ ~ OutRefused(call)
    /\ agent.state = "ended"
    /\ toClient = <<>>
    /\ Fail("SYS_INTERNAL_ERR")
    /\ UNCHANGED <<conn, toAgent, toClient, agent, reports, abandoned>>

ReadBodyFails ==
    /\ call.pc = "sent"
    /\ ~ OutRefused(call)
    /\ agent.state = "ended"
    /\ Len(toClient) = 1
    /\ Return(0, Ok)
    /\ toClient' = <<>>
    /\ UNCHANGED <<conn, toAgent, agent, reports, abandoned>>
-----------------------------------------------------------------------------
\* The agent, external.
AgentReads ==
    /\ toAgent # <<>>
    /\ agent.state \in {"idle", "reporting"}
    /\ toAgent' = Tail(toAgent)
    /\ agent' = IF Head(toAgent).kind # (IF agent.state = "idle" THEN "request" ELSE "ack")
                THEN [agent EXCEPT !.state = "ended"]
                ELSE [state |-> "working",
                      request |-> IF agent.state = "idle" THEN Head(toAgent) ELSE agent.request]
    /\ reports' = IF agent.state = "idle" THEN 0 ELSE reports
    /\ UNCHANGED <<conn, call, toClient, abandoned>>

Served(request) == RcApiTable[request.api]

AgentReplies ==
    /\ agent.state = "working"
    /\ LET r == Served(agent.request)
       IN  \E s \in Statuses(r, agent.request.id), present \in BOOLEAN :
             /\ present => r.out # NULL /\ s.info >= 0
             /\ s.info = CollStat => reports < MaxReports
             /\ toClient' = Append(toClient,
                   [id |-> agent.request.id, info |-> s.info, cause |-> s.cause,
                    out |-> IF present THEN OutType(r) ELSE NULL, rError |-> s.info < 0])
             /\ agent' = [agent EXCEPT !.state = IF s.info = CollStat THEN "reporting" ELSE "idle"]
             /\ reports' = IF s.info = CollStat THEN reports + 1 ELSE 0
    /\ UNCHANGED <<conn, call, toAgent, abandoned>>

AgentEnds ==
    /\ agent.state # "ended"
    /\ call.id > 0
    /\ agent' = [agent EXCEPT !.state = "ended"]
    /\ UNCHANGED <<conn, call, toAgent, toClient, reports, abandoned>>
-----------------------------------------------------------------------------
NoCall == [api |-> 0, in |-> NULL, inBs |-> NULL, out |-> NULL, outBs |-> NULL, own |-> {}, whole |-> TRUE]
Init ==
    /\ conn = [apiInx |-> 0, rError |-> 0, transStat |-> 0]
    /\ call = Begun(NoCall, "idle", 0, 0, Ok)
    /\ toAgent = <<>>
    /\ toClient = <<>>
    /\ agent = [state |-> "idle", request |-> Ack]
    /\ reports = 0
    /\ abandoned = {}

Client == RefuseOut \/ ReadReply \/ ReadHeaderFails \/ ReadBodyFails
Agent == AgentReads \/ AgentReplies
Next ==
    \/ call.id < MaxCalls /\ \E w \in Callers[call.id + 1] : procApiRequest(w)
    \/ Client
    \/ Agent
    \/ AgentEnds

\* A call in progress goes on, and the agent serves what it has read.
Fairness == WF_vars(Client) /\ WF_vars(Agent)
Spec == Init /\ [][Next]_vars /\ Fairness
-----------------------------------------------------------------------------
(* Properties *)

\* One structure under two names.
SameType(t) == IF t = "fileCreateInp_t" THEN "fileOpenInp_t" ELSE t

\* What a call passes, in the order of the parameters of the function.
PassedBy(c) ==
    (IF c.in = NULL THEN <<>> ELSE <<In(c.in)>>) \o (IF c.inBs = NULL THEN <<>> ELSE <<Bytes>>)
    \o (IF c.out = NULL THEN <<>> ELSE <<Out(c.out)>>) \o (IF c.outBs = NULL THEN <<>> ELSE <<Bytes>>)
Received(request, c) == PassedBy([c EXCEPT !.in = request.in, !.inBs = IF request.bytes THEN "bytesBuf_t" ELSE NULL])
Handed(parameters) == [i \in DOMAIN parameters |-> [parameters[i] EXCEPT !.type = SameType(@)]]

\* The parameters of a call that is sent are those of the function of its
\* row, if the caller left no pointer NULL.
ASSUME ParameterAssumption ==
    \A w \in Called :
        LET r == RcApiTable[w.api]
        IN  w.whole /\ SendError(w) = Ok =>
              /\ r.in = NULL => w.in = NULL
              /\ r.inBs > 0 <=> w.inBs # NULL
              /\ Handed(PassedBy(w)) = Handed(r.handler)

\* The function that serves a request is handed its parameters and no
\* others, each of its type: the wrapper, the row and the instructions of
\* the row agree.  A pointer the caller left NULL excepted.
ArgumentsReachHandler ==
    (agent.state = "working" /\ call.pc = "sent" /\ agent.request.id = call.id /\ call.whole) =>
        Handed(Received(agent.request, call)) = Handed(Served(agent.request).handler)

\* Every variable has its type, and a request is of a row of the table.
Returning == {n \in ApiTableNumbers : RcApiTable[n].out # NULL}
Results == {NULL} \cup {OutType(RcApiTable[n]) : n \in Returning}
Messages == {Ack} \cup [kind : {"request"}, id : 1 .. MaxCalls, api : ApiTableNumbers,
                         in : Structures, bytes : BOOLEAN]
Replies == [id : 1 .. MaxCalls, info : Int, cause : Causes, out : Results, rError : BOOLEAN]
ConnRecords ==
    [apiInx : ApiTableNumbers \cup {0}, rError : 0 .. MaxCalls, transStat : 0 .. MaxCalls]
CallRecords ==
    [api : Int, in : Structures, inBs : Structures, out : Structures, outBs : Structures,
     own : SUBSET Arguments, whole : BOOLEAN, pc : {"idle", "sent"}, id : 0 .. MaxCalls,
     status : Int, cause : Causes, answer : 0 .. MaxCalls, got : Results]
TypeOK ==
    /\ conn \in ConnRecords
    /\ call \in CallRecords
    /\ toAgent \in Seq(Messages)
    /\ toClient \in Seq(Replies)
    /\ agent \in [state : {"idle", "working", "reporting", "ended"}, request : Messages]
    /\ reports \in 0 .. MaxReports
    /\ abandoned \subseteq 1 .. MaxCalls

\* A call reads its own reply, in the structure it asked for, unless calls
\* before it returned with a reply to come: it then reads the reply of the
\* call that is as many calls before it.
ReplyAnswersCall ==
    (call.pc = "idle" /\ call.answer # 0) =>
        LET late == Cardinality({a \in abandoned : a < call.id})
        IN  /\ call.answer = call.id - late
            /\ late = 0 /\ call.got # NULL => call.got = call.out

\* The error stack and the statistics of the connection are those of the
\* reply its last call read.
CarriesLastCall ==
    call.pc = "idle" =>
        /\ conn.rError \in {0, call.answer}
        /\ CopiesStat(call) => conn.transStat \in {0, call.answer}
        /\ conn.rError # 0 => call.status < 0

\* What a call returns, in the caller's structure and in the connection, is
\* of one reply, and of the right one.
ReplyInv == TypeOK /\ ReplyAnswersCall /\ CarriesLastCall

\* rodsErrorName: the first name entered for the code without its errno.
Floored(v) == v \div 1000   \* Mutant: a division that rounds down
Truncated(v) == IF v < 0 THEN -((-v) \div 1000) ELSE v \div 1000
rodsErrorName(v) ==
    LET code == Truncated(v) * 1000
        i == SelectInSeq(Errors, LAMBDA e : e.code = code)
    IN  IF i = 0 THEN "Unknown iRODS error" ELSE Errors[i].name

\* These the table gives codes that are no multiple of a thousand, or the
\* code of another.
Misnamed == {
    "SYS_SOCK_LISTEN_ERR", "HDFS_FILE_GET_FS_FREESPACE_ERR", "SYS_NULL_INPUT",
    "SYS_HANDLER_DONE_WITH_ERROR", "SYS_HANDLER_DONE_NO_ERROR", "SYS_NO_HANDLER_REPLY_MSG"}

\* A code that is a multiple of a thousand is that of the first error it is
\* entered for, and of no other.
ASSUME TableAssumption ==
    /\ Errors \in Seq([name : STRING, code : Int])
    /\ \A i \in 1 .. Len(Errors) :
          Errors[i].name \notin Misnamed <=>
              /\ Errors[i].code % 1000 = 0
              /\ \A j \in 1 .. i - 1 : Errors[j].code # Errors[i].code

\* The name given to a status that a call returns is that of the error that
\* was raised, whatever errno it carries, save for six errors, for which it
\* never is.
StatusNamed ==
    (call.pc = "idle" /\ call.status < 0) => (rodsErrorName(call.status) = call.cause <=> call.cause \notin Misnamed)

\* Every call returns, even when the agent has taken its request for
\* something else.
CallsReturn == call.pc = "sent" ~> call.pc = "idle"
=============================================================================
