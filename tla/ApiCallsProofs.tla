--------------------------- MODULE ApiCallsProofs ---------------------------
(***************************************************************************)
(* Proofs about ApiCalls: a call reads its own reply, or is late by as     *)
(* many as were abandoned, for any number of calls and reports; the        *)
(* function that serves it is handed its parameters; and its status is     *)
(* named after its cause.                                                  *)
(***************************************************************************)
EXTENDS ApiCalls, FiniteSetTheorems, SequenceTheorems, WellFoundedInduction, TLAPS

(* How many calls returned with a reply still to come, and the call whose  *)
(* reply is read next.                                                     *)
Late == Cardinality(abandoned)
Due == (IF call.pc = "sent" THEN call.id ELSE call.id + 1) - Late

\* The call in progress is not abandoned, and has a row.
AbandonedInv ==
    /\ abandoned \subseteq 1 .. call.id
    /\ call.pc = "sent" => /\ call.id \in 1 .. MaxCalls \ abandoned
                           /\ call.api \in ApiTableNumbers

\* Every message is of a call there was, and those of the call in progress
\* are for its row.
OwnRow(m) == m.id <= call.id /\ (call.pc = "sent" /\ m.id = call.id => m.api = call.api)
OfCalls ==
    /\ \A i \in 1 .. Len(toAgent) : OwnRow(toAgent[i])
    /\ OwnRow(agent.request)
    /\ agent.state \in {"working", "reporting"} => agent.request # Ack

\* The structure of a reply to a call of a row.
OutOf(api, out) ==
    out # NULL => RcApiTable[api].out # NULL /\ out = OutType(RcApiTable[api])

\* The replies to come are to the calls from the one that is due on, one each.
\* A report is the last, since it has to be acknowledged before the next.
QueueInv ==
    \A i \in 1 .. Len(toClient) :
        LET m == toClient[i]
        IN  /\ m.id = Due + i - 1 /\ m.id <= call.id
            /\ m.rError <=> m.info < 0
            /\ call.pc = "sent" /\ m.id = call.id => OutOf(call.api, m.out)
            /\ m.info = CollStat => i = Len(toClient) /\ agent.state \in {"reporting", "ended"}

\* The requests not yet read are those of the calls from n on.
RequestsFrom(n) ==
    /\ Len(toAgent) = call.id + 1 - n
    /\ \A i \in 1 .. Len(toAgent) : toAgent[i].kind = "request" /\ toAgent[i].id = n + i - 1

\* An agent that awaits an acknowledgement is about to read a request, which
\* ends it; or its report has not been read, and then no call came after its
\* own; or has been, and the acknowledgement is on its way or will not come.
Reporting ==
    \/ toAgent # <<>> /\ toAgent[1].kind = "request"
    \/ toAgent = <<>> /\ toClient # <<>> /\ agent.request.id = call.id
       /\ Due + Len(toClient) = call.id + 1 /\ toClient[Len(toClient)].info = CollStat
    \/ toAgent = <<>> /\ toClient = <<>> /\ call.pc = "idle"
    \/ toAgent = <<Ack>> /\ toClient = <<>> /\ call.pc = "sent" /\ ~OutRefused(call)
       /\ Due = call.id /\ agent.request.id = call.id

\* What the agent serves, and what it will read, come after the replies that
\* are under way.
AgentInv ==
    /\ agent.state = "idle" => RequestsFrom(Due + Len(toClient))
    /\ agent.state = "working" => /\ agent.request.id = Due + Len(toClient)
                                  /\ RequestsFrom(Due + Len(toClient) + 1)
    /\ agent.state = "reporting" => Reporting

\* A call in progress has read nothing or reports of its own reply's call.
SentInv ==
    call.pc = "sent" =>
        /\ call.answer \in {0, Due}
        /\ call.answer # 0 /\ Late = 0 /\ call.got # NULL => call.got = call.out
        /\ conn.rError = 0
        /\ CopiesStat(call) => conn.transStat \in {0, call.answer}
        /\ LET r == RcApiTable[call.api]
           IN  r.out # NULL /\ call.out # NULL => OutType(r) = call.out

Inv == /\ TypeOK /\ AbandonedInv /\ OfCalls /\ QueueInv /\ AgentInv /\ SentInv
       /\ ReplyAnswersCall /\ CarriesLastCall

----------------------------------------------------------------------------
(* Abandoned calls *)

\* How many numbers there are from 1.
LEMMA FirstN ==
    ASSUME NEW n \in Nat
    PROVE  IsFiniteSet(1 .. n) /\ Cardinality(1 .. n) = n
<1>1. IsFiniteSet(1 .. n) /\ Cardinality(1 .. n) = IF 1 > n THEN 0 ELSE n - 1 + 1
    BY FS_Interval
<1> QED BY <1>1

\* There are no more abandoned calls than calls, and the one in progress is
\* not among them.
LEMMA LateFacts ==
    ASSUME TypeOK, AbandonedInv
    PROVE  /\ IsFiniteSet(abandoned) /\ Late \in Nat /\ call.id \in Nat
           /\ Due \in Nat /\ Due > 0 /\ Due <= call.id + 1
           /\ call.pc = "sent" => Due = call.id - Late
           /\ call.pc # "sent" => Due = call.id + 1 - Late
<1>1. call.id \in 0 .. MaxCalls /\ MaxCalls \in Nat
    BY BoundAssumption DEF TypeOK, CallRecords
<1>2. IsFiniteSet(1 .. call.id) /\ Cardinality(1 .. call.id) = call.id
    <2> DEFINE n == call.id
    <2>1. n \in Nat
        BY <1>1
    <2> HIDE DEF n
    <2>2. IsFiniteSet(1 .. n) /\ Cardinality(1 .. n) = n
        BY <2>1, FirstN
    <2> QED BY <2>2 DEF n
<1>3. IsFiniteSet(abandoned) /\ Late <= call.id /\ Late \in Nat
    BY <1>1, <1>2, FS_Subset, FS_CardinalityType DEF AbandonedInv, Late
<1>4. CASE call.pc = "sent"
    <2>1. IsFiniteSet(1 .. call.id - 1) /\ Cardinality(1 .. call.id - 1) = call.id - 1
        <3> DEFINE n == call.id - 1
        <3>1. n \in Nat
            BY <1>1, <1>4 DEF AbandonedInv
        <3> HIDE DEF n
        <3>2. IsFiniteSet(1 .. n) /\ Cardinality(1 .. n) = n
            BY <3>1, FirstN
        <3> QED BY <3>2 DEF n
    <2>2. abandoned \subseteq 1 .. call.id - 1
        BY <1>1, <1>4 DEF AbandonedInv
    <2>3. Late <= call.id - 1
        BY <2>1, <2>2, FS_Subset DEF Late
    <2> QED BY <1>1, <1>3, <1>4, <2>3 DEF Due
<1> QED BY <1>1, <1>3, <1>4 DEF Due

\* A call that is abandoned is one more.
LEMMA OneMore ==
    ASSUME NEW S, NEW n \in Nat, S \subseteq 1 .. n, n \notin S
    PROVE  /\ Cardinality(S \cup {n}) = Cardinality(S) + 1
           /\ {a \in S : a < n} = S
           /\ {a \in S \cup {n} : a < n} = S
<1>1. IsFiniteSet(S)
    <2>1. IsFiniteSet(1 .. n)
        BY FS_Interval
    <2> QED BY <2>1, FS_Subset
<1>2. \A a \in S : a < n
    OBVIOUS
<1>3. Cardinality(S \cup {n}) = Cardinality(S) + 1
    <2>1. Cardinality(S \cup {n}) = IF n \in S THEN Cardinality(S) ELSE Cardinality(S) + 1
        BY <1>1, FS_AddElement
    <2> QED BY <2>1
<1>4. {a \in S : a < n} = S
    BY <1>2
<1>5. {a \in S \cup {n} : a < n} = S
    <2>1. ~(n < n)
        OBVIOUS
    <2> QED BY <1>2, <2>1, Zenon
<1> QED BY <1>3, <1>4, <1>5

\* Who leaves the calls alone does not change which is due.
LEMMA SameDue ==
    ASSUME UNCHANGED <<abandoned, call>>
    PROVE  Late' = Late /\ Due' = Due
BY DEF Late, Due

----------------------------------------------------------------------------
(* Records and messages *)

\* The types of the parts of a call.
LEMMA CallFields ==
    ASSUME TypeOK
    PROVE  /\ call.id \in 0 .. MaxCalls /\ call.pc \in {"idle", "sent"}
           /\ call.answer \in 0 .. MaxCalls /\ call.status \in Int /\ call.cause \in Causes
           /\ call.got \in Results /\ MaxCalls \in Nat
BY BoundAssumption DEF TypeOK, CallRecords

\* What a call passes and where it stands, which its return leaves alone.
SameCall == /\ call'.api = call.api /\ call'.in = call.in /\ call'.inBs = call.inBs
            /\ call'.out = call.out /\ call'.outBs = call.outBs /\ call'.own = call.own
            /\ call'.id = call.id /\ call' \in CallRecords

\* Its arguments are what they were.
LEMMA SameCallFacts ==
    ASSUME SameCall
    PROVE  OutRefused(call') = OutRefused(call) /\ CopiesStat(call') = CopiesStat(call)
BY DEF SameCall, OutRefused, CopiesStat

\* What a return leaves of a call.
LEMMA ReturnFacts ==
    ASSUME TypeOK, NEW status \in Int, NEW cause \in Causes, Return(status, cause)
    PROVE  /\ SameCall /\ call'.pc = "idle" /\ call'.status = status
           /\ call'.answer = call.answer /\ call'.got = call.got
BY DEF TypeOK, CallRecords, Return, SameCall

\* The errors that the client raises are negative codes of the table.
LEMMA CodeFacts ==
    ASSUME NEW e \in ClientErrors
    PROVE  e \in Causes /\ ErrorCode[e] \in Int /\ ErrorCode[e] < 0
BY CodeAssumption DEF Causes

\* The rest of a sequence.
LEMMA TailFacts ==
    ASSUME NEW S, NEW s \in Seq(S), s # <<>>
    PROVE  /\ Head(s) = s[1] /\ Head(s) \in S /\ Tail(s) \in Seq(S)
           /\ Len(s) \in Nat /\ Len(s) > 0 /\ Len(Tail(s)) = Len(s) - 1
           /\ \A i \in 1 .. Len(Tail(s)) : Tail(s)[i] = s[i + 1]
BY HeadTailProperties, EmptySeq, LenProperties, ElementOfSeq

\* A sequence with one more at its end.
LEMMA AppendFacts ==
    ASSUME NEW S, NEW s \in Seq(S), NEW m \in S
    PROVE  /\ Append(s, m) \in Seq(S) /\ Append(s, m) # <<>>
           /\ Len(s) \in Nat /\ Len(Append(s, m)) = Len(s) + 1
           /\ \A i \in 1 .. Len(s) : Append(s, m)[i] = s[i]
           /\ Append(s, m)[Len(s) + 1] = m
BY AppendProperties, LenProperties

\* An acknowledgement is not a request.
LEMMA MessageFacts ==
    ASSUME NEW m \in Messages
    PROVE  /\ m.id \in 0 .. MaxCalls /\ m.kind \in {"request", "ack"}
           /\ m.kind = "ack" <=> m = Ack
           /\ m # Ack => m.api \in ApiTableNumbers /\ m.id \in 1 .. MaxCalls
BY BoundAssumption DEF Messages, Ack

\* The types of the parts of a reply.
LEMMA ReplyFacts ==
    ASSUME NEW m \in Replies
    PROVE  /\ m.id \in 1 .. MaxCalls /\ m.info \in Int /\ m.cause \in Causes
           /\ m.out \in Results /\ m.rError \in BOOLEAN
BY DEF Replies

\* The types of the parts of the connection.
LEMMA ConnFacts ==
    ASSUME TypeOK
    PROVE  conn.rError \in 0 .. MaxCalls /\ conn.transStat \in 0 .. MaxCalls
BY DEF TypeOK, ConnRecords

----------------------------------------------------------------------------
(* Calls *)

\* What sendApiRequest refuses is an error; what it sends is a request for a
\* row of the table.
LEMMA SendFacts ==
    ASSUME NEW w \in Called
    PROVE  /\ SendError(w) # Ok => SendError(w) \in ClientErrors
           /\ SendError(w) = Ok => w.api \in ApiTableNumbers
<1>1. w.api \notin ApiTableNumbers => SendError(w) = "SYS_UNMATCHED_API_NUM"
    BY DEF SendError
<1>2. w.api \in ApiTableNumbers =>
        SendError(w) \in {Ok, "USER_API_INPUT_ERR", "SYS_UNMATCH_PACK_INSTRUCTI_NAME"}
    BY DEF SendError
<1> QED BY <1>1, <1>2 DEF ClientErrors, Ok

\* A request carries the number of its call and of its row.
LEMMA RequestFacts ==
    ASSUME NEW w \in Called, w.api \in ApiTableNumbers, NEW id \in 1 .. MaxCalls
    PROVE  /\ Request(w, id) \in Messages /\ Request(w, id).kind = "request"
           /\ Request(w, id).id = id /\ Request(w, id).api = w.api
<1>1. w.in \in Structures /\ NULL \in Structures
    BY CallersAssumption DEF Structures
<1>2. BytesSent(RcApiTable[w.api].inBs, w.inBs) \in BOOLEAN
    BY DEF BytesSent
<1>3. Request(w, id).in \in Structures
    BY <1>1 DEF Request
<1> QED BY <1>2, <1>3 DEF Request, Messages

\* A call that begins has no answer yet.
LEMMA BegunFacts ==
    ASSUME NEW w \in Called, NEW pc \in {"idle", "sent"}, NEW id \in 0 .. MaxCalls,
           NEW status \in Int, NEW cause \in Causes
    PROVE  /\ Begun(w, pc, id, status, cause) \in CallRecords
           /\ LET c == Begun(w, pc, id, status, cause)
              IN  /\ c.api = w.api /\ c.out = w.out /\ c.outBs = w.outBs /\ c.own = w.own
                  /\ c.pc = pc /\ c.id = id /\ c.status = status /\ c.answer = 0 /\ c.got = NULL
<1>1. /\ w.api \in Int /\ w.in \in Structures /\ w.inBs \in Structures /\ w.out \in Structures
      /\ w.outBs \in Structures /\ w.own \in SUBSET Arguments /\ w.whole \in BOOLEAN
    BY CallersAssumption
<1>2. NULL \in Results /\ 0 \in 0 .. MaxCalls
    BY BoundAssumption DEF Results, Returning
<1> QED BY <1>1, <1>2 DEF Begun, CallRecords

\* A new error stack and new statistics, with the row or without.
LEMMA ConnUpdate ==
    ASSUME NEW A, NEW B, NEW c \in [apiInx : A, rError : B, transStat : B],
           NEW a \in A, NEW e \in B, NEW t \in B
    PROVE  LET d == [c EXCEPT !.rError = e, !.transStat = t]
               x == [d EXCEPT !.apiInx = a]
           IN  /\ d \in [apiInx : A, rError : B, transStat : B] /\ d.rError = e /\ d.transStat = t
               /\ x \in [apiInx : A, rError : B, transStat : B] /\ x.rError = e /\ x.transStat = t
OBVIOUS

\* What is left of the connection's status when a call begins.
LEMMA ClearedFacts ==
    ASSUME TypeOK, NEW w, NEW n \in ApiTableNumbers \cup {0}
    PROVE  \A c \in {Cleared(w), [Cleared(w) EXCEPT !.apiInx = n]} :
             /\ c \in ConnRecords
             /\ c.rError = 0 /\ (CopiesStat(w) => c.transStat = 0)
<1> DEFINE A == ApiTableNumbers \cup {0}
           B == 0 .. MaxCalls
           t == IF CopiesStat(w) THEN 0 ELSE conn.transStat
<1>1. /\ conn \in [apiInx : A, rError : B, transStat : B]
      /\ ConnRecords = [apiInx : A, rError : B, transStat : B]
    BY DEF TypeOK, ConnRecords
<1>2. 0 \in B /\ n \in A
    BY BoundAssumption
<1>3. t \in B
    BY <1>2, ConnFacts
<1>4. Cleared(w) = [conn EXCEPT !.rError = 0, !.transStat = t]
    BY DEF Cleared
<1>5. CopiesStat(w) => t = 0
    OBVIOUS
<1> HIDE DEF A, B, t
<1> DEFINE d == [conn EXCEPT !.rError = 0, !.transStat = t]
           x == [d EXCEPT !.apiInx = n]
<1>6. /\ d \in ConnRecords /\ d.rError = 0 /\ d.transStat = t
      /\ x \in ConnRecords /\ x.rError = 0 /\ x.transStat = t
    BY <1>1, <1>2, <1>3, ConnUpdate
<1>7. Cleared(w) = d /\ [Cleared(w) EXCEPT !.apiInx = n] = x
    BY <1>4
<1> HIDE DEF d, x
<1> QED BY <1>5, <1>6, <1>7

\* A call that is refused leaves everything but the connection's status as
\* it is.
LEMMA RefusedKeeps ==
    ASSUME Inv, NEW w \in Called, call.pc = "idle", SendError(w) # Ok,
           conn' = Cleared(w),
           call' = Begun(w, "idle", call.id, ErrorCode[SendError(w)], SendError(w)),
           UNCHANGED <<toAgent, toClient, agent, reports, abandoned>>
    PROVE  Inv'
<1> DEFINE e == SendError(w)
<1>1. TypeOK /\ AbandonedInv /\ OfCalls /\ QueueInv /\ AgentInv
    BY DEF Inv
<1>2. call.id \in 0 .. MaxCalls
    BY <1>1, CallFields
<1>3. e \in Causes /\ ErrorCode[e] \in Int
    BY SendFacts, CodeFacts
<1> HIDE DEF e
<1>4. /\ call' \in CallRecords /\ call'.api = w.api /\ call'.own = w.own
      /\ call'.pc = "idle" /\ call'.id = call.id /\ call'.answer = 0
    BY <1>2, <1>3, BegunFacts DEF e
<1>5. /\ conn' \in ConnRecords
      /\ conn'.rError = 0 /\ (CopiesStat(w) => conn'.transStat = 0)
    BY <1>1, ClearedFacts
<1>6. Due' = Due
    BY <1>4 DEF Due, Late
<1>7. TypeOK'
    BY <1>1, <1>4, <1>5 DEF TypeOK
<1>8. AbandonedInv'
    BY <1>1, <1>4 DEF AbandonedInv
<1>9. OfCalls'
    BY <1>1, <1>4 DEF OfCalls, OwnRow
<1>10. QueueInv'
    BY <1>1, <1>4, <1>6 DEF QueueInv
<1>11. AgentInv'
    BY <1>1, <1>4, <1>6 DEF AgentInv, RequestsFrom, Reporting
<1>12. SentInv' /\ ReplyAnswersCall'
    BY <1>4 DEF SentInv, ReplyAnswersCall
<1>13. CarriesLastCall'
    BY <1>4, <1>5 DEF CarriesLastCall, CopiesStat
<1> QED BY <1>7, <1>8, <1>9, <1>10, <1>11, <1>12, <1>13 DEF Inv

\* A request is the last of those under way, unless nobody is there to
\* serve it.
LEMMA SentKeeps ==
    ASSUME Inv, call.id < MaxCalls, NEW w \in Called, call.pc = "idle", SendError(w) = Ok,
           conn' = [Cleared(w) EXCEPT !.apiInx = w.api],
           call' = Begun(w, "sent", call.id + 1, 0, Ok), Deliver(Request(w, call.id + 1)),
           UNCHANGED <<toClient, agent, reports, abandoned>>
    PROVE  Inv'
<1> DEFINE n == call.id + 1
           m == Request(w, call.id + 1)
<1>1. TypeOK /\ AbandonedInv /\ OfCalls /\ QueueInv /\ AgentInv
    BY DEF Inv
<1>2. call.id \in 0 .. MaxCalls /\ call.id \in Nat /\ n = call.id + 1 /\ n \in 1 .. MaxCalls
    BY <1>1, CallFields
<1>3. w.api \in ApiTableNumbers /\ 0 \in Int /\ Ok \in Causes
    BY SendFacts DEF Causes
<1>4. m \in Messages /\ m.kind = "request" /\ m.id = n /\ m.api = w.api
    BY <1>2, <1>3, RequestFacts
<1>5. /\ call' \in CallRecords /\ call'.api = w.api /\ call'.own = w.own /\ call'.out = w.out
      /\ call'.pc = "sent" /\ call'.id = n /\ call'.answer = 0 /\ call'.got = NULL
    <2>1. call' = Begun(w, "sent", n, 0, Ok) /\ n \in 0 .. MaxCalls
        BY <1>2
    <2> HIDE DEF n
    <2> QED BY <1>3, <2>1, BegunFacts
<1>6. /\ conn' \in ConnRecords
      /\ conn'.rError = 0 /\ (CopiesStat(w) => conn'.transStat = 0)
    BY <1>1, <1>3, ClearedFacts
<1>7. IF agent.state = "ended" THEN toAgent' = toAgent ELSE toAgent' = Append(toAgent, m)
    BY DEF Deliver
<1> HIDE DEF n, m
<1>8. toAgent \in Seq(Messages)
    BY <1>1 DEF TypeOK
<1>9. /\ Append(toAgent, m) \in Seq(Messages) /\ Append(toAgent, m) # <<>>
      /\ Len(toAgent) \in Nat /\ Len(Append(toAgent, m)) = Len(toAgent) + 1
      /\ \A i \in 1 .. Len(toAgent) : Append(toAgent, m)[i] = toAgent[i]
      /\ Append(toAgent, m)[Len(toAgent) + 1] = m
    BY <1>4, <1>8, AppendFacts
<1>10. Due' = Due /\ Late' = Late /\ Due \in Nat
    <2>1. Late' = Late /\ Late \in Nat /\ Due = call.id + 1 - Late
        BY <1>1, LateFacts DEF Late
    <2> QED BY <1>1, <1>2, <1>5, <2>1, LateFacts DEF Due
<1>11. TypeOK'
    BY <1>1, <1>5, <1>6, <1>7, <1>9 DEF TypeOK
<1>12. AbandonedInv'
    BY <1>1, <1>2, <1>3, <1>5 DEF AbandonedInv
<1>13. OfCalls'
    <2>1. \A i \in 1 .. Len(toAgent) : toAgent[i].id \in Nat /\ toAgent[i].id <= call.id
        BY <1>1, <1>8, ElementOfSeq, MessageFacts DEF OfCalls, OwnRow
    <2>2. agent.request.id \in Nat /\ agent.request.id <= call.id
        BY <1>1, MessageFacts DEF OfCalls, OwnRow, TypeOK
    <2>3. \A i \in 1 .. Len(toAgent)' : OwnRow(toAgent[i])'
        <3>1. CASE agent.state = "ended"
            BY <1>2, <1>5, <1>7, <2>1, <3>1 DEF OwnRow
        <3>2. CASE agent.state # "ended"
            BY <1>2, <1>4, <1>5, <1>7, <1>9, <2>1, <3>2 DEF OwnRow
        <3> QED BY <3>1, <3>2
    <2>4. OwnRow(agent.request)'
        BY <1>2, <1>5, <2>2 DEF OwnRow
    <2> QED BY <1>1, <2>3, <2>4 DEF OfCalls
<1>14. QueueInv'
    <2> SUFFICES ASSUME NEW i \in 1 .. Len(toClient)
                 PROVE  /\ toClient[i].id = Due + i - 1 /\ toClient[i].id <= call'.id
                        /\ toClient[i].rError <=> toClient[i].info < 0
                        /\ toClient[i].id = call'.id => OutOf(call'.api, toClient[i].out)
                        /\ toClient[i].info = CollStat =>
                             i = Len(toClient) /\ agent.state \in {"reporting", "ended"}
        BY <1>10 DEF QueueInv
    <2>1. toClient[i].id \in Nat
        BY <1>1, ElementOfSeq, ReplyFacts DEF TypeOK
    <2>2. toClient[i].id <= call.id
        BY <1>1 DEF QueueInv
    <2> QED BY <1>1, <1>2, <1>5, <2>1, <2>2 DEF QueueInv
<1>15. AgentInv'
    <2>1. CASE agent.state = "ended"
        BY <2>1 DEF AgentInv
    <2>2. CASE agent.state \in {"idle", "working"}
        <3> DEFINE f == Due + Len(toClient)
        <3>1. f \in Nat
            BY <1>1, <1>10, LenProperties DEF TypeOK
        <3> HIDE DEF f
        <3>2. ASSUME NEW k \in Nat, RequestsFrom(k)
              PROVE  /\ Len(toAgent)' = call'.id + 1 - k
                     /\ \A i \in 1 .. Len(toAgent)' :
                          toAgent'[i].kind = "request" /\ toAgent'[i].id = k + i - 1
            <4>1. Len(toAgent) = call.id + 1 - k
                BY <3>2 DEF RequestsFrom
            <4>2. toAgent' = Append(toAgent, m)
                BY <1>7, <2>2
            <4>3. n = k + (Len(toAgent) + 1) - 1
                BY <1>2, <1>9, <4>1
            <4>4. Len(toAgent)' = call'.id + 1 - k
                BY <1>2, <1>5, <1>9, <3>2, <4>1, <4>2
            <4>5. ASSUME NEW i \in 1 .. Len(toAgent)'
                  PROVE  toAgent'[i].kind = "request" /\ toAgent'[i].id = k + i - 1
                <5>1. CASE i = Len(toAgent) + 1
                    BY <1>4, <1>9, <4>2, <4>3, <5>1
                <5>2. CASE i \in 1 .. Len(toAgent)
                    BY <1>9, <3>2, <4>2, <5>2 DEF RequestsFrom
                <5> QED BY <1>9, <4>2, <5>1, <5>2
            <4> QED BY <4>4, <4>5
        <3>3. agent.state = "idle" => RequestsFrom(f)
            BY <1>1 DEF AgentInv, f
        <3>4. agent.state = "working" => agent.request.id = f /\ RequestsFrom(f + 1)
            BY <1>1 DEF AgentInv, f
        <3>5. f + 1 \in Nat /\ f' = f
            BY <1>10, <3>1 DEF f
        <3>6. agent.state = "idle" => RequestsFrom(f)'
            BY <3>1, <3>2, <3>3, <3>5 DEF RequestsFrom
        <3>7. agent.state = "working" => RequestsFrom(f + 1)'
            BY <3>2, <3>4, <3>5 DEF RequestsFrom
        <3> QED BY <2>2, <3>4, <3>5, <3>6, <3>7 DEF AgentInv, f
    <2>3. CASE agent.state = "reporting"
        <3>1. Reporting
            BY <1>1, <2>3 DEF AgentInv
        <3>2. toAgent' = Append(toAgent, m)
            BY <1>7, <2>3
        <3>3. CASE toAgent = <<>>
            <4>1. Len(toAgent) = 0
                BY <3>3, EmptySeq
            <4>2. toAgent'[1] = m
                BY <1>9, <3>2, <4>1
            <4> QED BY <1>4, <1>9, <2>3, <3>2, <4>2 DEF AgentInv, Reporting
        <3>4. CASE toAgent # <<>> /\ toAgent[1].kind = "request"
            <4>1. Len(toAgent) > 0
                BY <1>8, <3>4, EmptySeq
            <4>2. toAgent'[1] = toAgent[1]
                BY <1>9, <3>2, <4>1
            <4> QED BY <1>9, <2>3, <3>2, <3>4, <4>2 DEF AgentInv, Reporting
        <3> QED BY <3>1, <3>3, <3>4 DEF Reporting
    <2> QED BY <1>1, <2>1, <2>2, <2>3 DEF TypeOK
<1>16. SentInv'
    BY <1>3, <1>5, <1>6, CallersAssumption DEF SentInv, CopiesStat
<1>17. ReplyAnswersCall' /\ CarriesLastCall'
    BY <1>5 DEF ReplyAnswersCall, CarriesLastCall
<1> QED BY <1>11, <1>12, <1>13, <1>14, <1>15, <1>16, <1>17 DEF Inv

\* procApiRequest either refuses a call or sends it.
LEMMA CallKeeps ==
    ASSUME Inv, call.id < MaxCalls, NEW w \in Callers[call.id + 1], procApiRequest(w)
    PROVE  Inv'
<1>1. w \in Called
    <2>1. call.id + 1 \in 1 .. MaxCalls
        BY CallFields DEF Inv
    <2> QED BY <2>1 DEF Called
<1>2. CASE SendError(w) # Ok
    BY <1>1, <1>2, RefusedKeeps DEF procApiRequest
<1>3. CASE SendError(w) = Ok
    BY <1>1, <1>3, SentKeeps DEF procApiRequest
<1> QED BY <1>2, <1>3

----------------------------------------------------------------------------
(* The agent *)

\* The agent changes nothing of the client's.
LEMMA ClientUntouched ==
    ASSUME Inv, UNCHANGED <<conn, call, abandoned>>
    PROVE  /\ AbandonedInv' /\ SentInv' /\ ReplyAnswersCall' /\ CarriesLastCall'
           /\ Due' = Due /\ Due \in Nat /\ Due > 0
<1>1. Due' = Due /\ Late' = Late
    BY SameDue
<1>2. Due \in Nat /\ Due > 0
    BY LateFacts DEF Inv
<1>3. AbandonedInv' /\ SentInv'
    BY <1>1 DEF Inv, AbandonedInv, SentInv, CopiesStat
<1>4. ReplyAnswersCall' /\ CarriesLastCall'
    BY DEF Inv, ReplyAnswersCall, CarriesLastCall, CopiesStat
<1> QED BY <1>1, <1>2, <1>3, <1>4

\* Of an agent that has ended only the replies are left.
LEMMA AgentEndsKeeps ==
    ASSUME Inv, AgentEnds
    PROVE  Inv'
<1>1. /\ agent' = [agent EXCEPT !.state = "ended"]
      /\ UNCHANGED <<conn, call, toAgent, toClient, reports, abandoned>>
    BY DEF AgentEnds
<1>2. /\ agent' \in [state : {"idle", "working", "reporting", "ended"}, request : Messages]
      /\ agent'.state = "ended" /\ agent'.request = agent.request
    BY <1>1 DEF Inv, TypeOK
<1>3. Due' = Due
    BY <1>1, ClientUntouched
<1>4. TypeOK'
    BY <1>1, <1>2 DEF Inv, TypeOK
<1>5. OfCalls' /\ AgentInv'
    BY <1>1, <1>2 DEF Inv, OfCalls, OwnRow, AgentInv
<1>6. QueueInv'
    BY <1>1, <1>2, <1>3 DEF Inv, QueueInv
<1> QED BY <1>1, <1>4, <1>5, <1>6, ClientUntouched DEF Inv

\* The agent reads the next request, or the acknowledgement of its report;
\* anything else ends it.
LEMMA AgentReadsKeeps ==
    ASSUME Inv, AgentReads
    PROVE  Inv'
<1> DEFINE m == Head(toAgent)
<1>1. /\ toAgent # <<>> /\ agent.state \in {"idle", "reporting"}
      /\ toAgent' = Tail(toAgent)
      /\ UNCHANGED <<conn, call, toClient, abandoned>>
    BY DEF AgentReads
<1>2. TypeOK /\ OfCalls /\ QueueInv /\ AgentInv /\ toAgent \in Seq(Messages)
    BY DEF Inv, TypeOK
<1>3. /\ m = toAgent[1] /\ m \in Messages /\ toAgent' \in Seq(Messages)
      /\ Len(toAgent) \in Nat /\ Len(toAgent) > 0 /\ Len(toAgent') = Len(toAgent) - 1
      /\ \A i \in 1 .. Len(toAgent') : toAgent'[i] = toAgent[i + 1]
    BY <1>1, <1>2, TailFacts
<1>4. \/ /\ agent'.state = "ended" /\ agent'.request = agent.request
      \/ /\ agent.state = "idle" /\ m.kind = "request"
         /\ agent'.state = "working" /\ agent'.request = m
      \/ /\ agent.state = "reporting" /\ m.kind = "ack"
         /\ agent'.state = "working" /\ agent'.request = agent.request
    <2>1. agent' = IF m.kind # (IF agent.state = "idle" THEN "request" ELSE "ack")
                   THEN [agent EXCEPT !.state = "ended"]
                   ELSE [state |-> "working",
                         request |-> IF agent.state = "idle" THEN m ELSE agent.request]
        BY DEF AgentReads
    <2> HIDE DEF m
    <2> QED BY <1>1, <1>2, <2>1 DEF TypeOK
<1>5. agent' \in [state : {"idle", "working", "reporting", "ended"}, request : Messages]
    <2>1. agent' = IF m.kind # (IF agent.state = "idle" THEN "request" ELSE "ack")
                   THEN [agent EXCEPT !.state = "ended"]
                   ELSE [state |-> "working",
                         request |-> IF agent.state = "idle" THEN m ELSE agent.request]
        BY DEF AgentReads
    <2> HIDE DEF m
    <2> QED BY <1>2, <1>3, <2>1 DEF TypeOK
<1> HIDE DEF m
<1>6. reports' \in 0 .. MaxReports
    BY <1>2, BoundAssumption DEF AgentReads, TypeOK
<1>7. Due' = Due /\ Due \in Nat /\ call.id \in Nat
    BY <1>1, <1>2, ClientUntouched, LateFacts DEF Inv
<1>8. TypeOK'
    BY <1>1, <1>2, <1>3, <1>5, <1>6 DEF TypeOK
<1>9. OfCalls'
    <2>1. \A i \in 1 .. Len(toAgent') : OwnRow(toAgent[i])'
        BY <1>1, <1>2, <1>3 DEF OfCalls, OwnRow
    <2>2. OwnRow(agent.request)'
        BY <1>1, <1>2, <1>3, <1>4 DEF OfCalls, OwnRow
    <2>3. agent'.state = "working" => agent'.request # Ack
        BY <1>2, <1>3, <1>4, MessageFacts DEF OfCalls
    <2> QED BY <1>4, <2>1, <2>2, <2>3 DEF OfCalls
<1>10. QueueInv'
    <2>1. CASE agent'.state = "ended"
        BY <1>1, <1>2, <1>7, <2>1 DEF QueueInv
    <2>2. CASE agent.state = "idle" \/ toClient = <<>>
        BY <1>1, <1>2, <1>7, <2>2, EmptySeq DEF QueueInv
    <2>3. agent.state = "reporting" /\ m.kind = "ack" => toClient = <<>>
        BY <1>2, <1>3 DEF AgentInv, Reporting
    <2> QED BY <1>4, <2>1, <2>2, <2>3
<1>11. AgentInv'
    <2> DEFINE f == Due + Len(toClient)
    <2>1. f \in Nat /\ f' = f
        BY <1>1, <1>2, <1>7, LenProperties DEF TypeOK
    <2>2. CASE agent'.state = "ended"
        BY <2>2 DEF AgentInv
    <2>3. CASE agent.state = "idle" /\ agent'.state = "working" /\ agent'.request = m
        <3>1. RequestsFrom(f)
            BY <1>2, <2>3 DEF AgentInv
        <3> HIDE DEF f
        <3>2. m.id = f
            BY <1>3, <2>1, <3>1 DEF RequestsFrom
        <3>3. Len(toAgent)' = call'.id + 1 - (f + 1)
            BY <1>1, <1>3, <1>7, <2>1, <3>1 DEF RequestsFrom
        <3>4. ASSUME NEW i \in 1 .. Len(toAgent)'
              PROVE  toAgent'[i].kind = "request" /\ toAgent'[i].id = f + 1 + i - 1
            <4>1. i + 1 \in 1 .. Len(toAgent) /\ toAgent'[i] = toAgent[i + 1]
                BY <1>3
            <4>2. toAgent[i + 1].kind = "request" /\ toAgent[i + 1].id = f + (i + 1) - 1
                BY <3>1, <4>1 DEF RequestsFrom
            <4> QED BY <2>1, <4>1, <4>2
        <3>5. RequestsFrom(f + 1)'
            BY <2>1, <3>3, <3>4 DEF RequestsFrom
        <3> QED BY <2>1, <2>3, <3>2, <3>5 DEF AgentInv, f
    <2>4. CASE /\ agent.state = "reporting" /\ m.kind = "ack"
               /\ agent'.state = "working" /\ agent'.request = agent.request
        <3>1. toAgent = <<Ack>> /\ toClient = <<>> /\ Due = call.id /\ agent.request.id = call.id
            BY <1>2, <1>3, <2>4 DEF AgentInv, Reporting
        <3>2. Len(toClient) = 0 /\ f = call.id
            BY <1>7, <3>1, EmptySeq
        <3>3. Len(toAgent) = 1 /\ Len(toAgent') = 0
            BY <1>3, <3>1
        <3> HIDE DEF f
        <3>4. RequestsFrom(f + 1)'
            <4>1. Len(toAgent)' = call'.id + 1 - (f + 1)
                <5>1. Len(toAgent)' = 0 /\ call'.id = call.id
                    BY <1>1, <3>3
                <5> QED BY <1>7, <3>2, <5>1
            <4>2. 1 .. Len(toAgent)' = {}
                BY <3>3
            <4> QED BY <2>1, <4>1, <4>2 DEF RequestsFrom
        <3> QED BY <2>1, <2>4, <3>1, <3>2, <3>4 DEF AgentInv, f
    <2> QED BY <1>4, <2>2, <2>3, <2>4
<1> QED BY <1>1, <1>8, <1>9, <1>10, <1>11, ClientUntouched DEF Inv

\* The reply joins the queue behind those of the calls before it; a report
\* is the last of the queue until it has been acknowledged.
LEMMA AgentRepliesKeeps ==
    ASSUME Inv, AgentReplies
    PROVE  Inv'
<1> DEFINE r == RcApiTable[agent.request.api]
           q == agent.request
<1>1. PICK s \in Statuses(r, q.id), present \in BOOLEAN :
        /\ present => r.out # NULL /\ s.info >= 0
        /\ s.info = CollStat => reports < MaxReports
        /\ toClient' = Append(toClient,
              [id |-> q.id, info |-> s.info, cause |-> s.cause,
               out |-> IF present THEN OutType(r) ELSE NULL, rError |-> s.info < 0])
        /\ agent' = [agent EXCEPT !.state = IF s.info = CollStat THEN "reporting" ELSE "idle"]
        /\ reports' = IF s.info = CollStat THEN reports + 1 ELSE 0
    BY DEF AgentReplies, Served
<1> DEFINE m == [id |-> q.id, info |-> s.info, cause |-> s.cause,
                 out |-> IF present THEN OutType(r) ELSE NULL, rError |-> s.info < 0]
<1>2. agent.state = "working" /\ UNCHANGED <<conn, call, toAgent, abandoned>>
    BY DEF AgentReplies
<1>3. /\ TypeOK /\ OfCalls /\ QueueInv /\ AgentInv
      /\ toClient \in Seq(Replies) /\ agent.request \in Messages
    BY DEF Inv, TypeOK
<1>4. agent.request.api \in ApiTableNumbers /\ q.id \in 1 .. MaxCalls
    BY <1>2, <1>3, MessageFacts DEF OfCalls
<1>5. s \in [info : Int, cause : Causes]
    BY <1>4, StatusAssumption
<1>6. m \in Replies
    <2>1. (IF present THEN OutType(r) ELSE NULL) \in Results
        BY <1>1, <1>4 DEF Results, Returning
    <2>2. (s.info < 0) \in BOOLEAN
        OBVIOUS
    <2>3. s.info \in Int /\ s.cause \in Causes
        BY <1>5
    <2> QED BY <1>4, <2>1, <2>2, <2>3 DEF Replies
<1>7. /\ m.id = q.id /\ m.info = s.info /\ (m.rError <=> m.info < 0)
      /\ m.out # NULL => r.out # NULL /\ m.out = OutType(r)
    BY <1>1
<1>8. toClient' = Append(toClient, m)
    BY <1>1
<1> HIDE DEF m
<1>9. /\ toClient' \in Seq(Replies) /\ toClient' # <<>>
      /\ Len(toClient) \in Nat /\ Len(toClient') = Len(toClient) + 1
      /\ \A i \in 1 .. Len(toClient) : toClient'[i] = toClient[i]
      /\ toClient'[Len(toClient) + 1] = m
    BY <1>3, <1>6, <1>8, AppendFacts
<1>10. /\ agent' \in [state : {"idle", "working", "reporting", "ended"}, request : Messages]
       /\ agent'.request = q
       /\ agent'.state = IF s.info = CollStat THEN "reporting" ELSE "idle"
    BY <1>1, <1>3 DEF TypeOK
<1>11. Due' = Due /\ Due \in Nat /\ Due > 0 /\ call.id \in Nat
    BY <1>2, <1>3, ClientUntouched, LateFacts DEF Inv
<1> HIDE DEF r, q
<1>12. TypeOK'
    <2>1. reports' \in 0 .. MaxReports
        BY <1>1, <1>3, BoundAssumption DEF TypeOK
    <2> QED BY <1>2, <1>3, <1>9, <1>10, <2>1 DEF TypeOK
<1>13. OfCalls'
    BY <1>2, <1>3, <1>10 DEF OfCalls, OwnRow, q
<1>14. q.id = Due + Len(toClient) /\ RequestsFrom(Due + Len(toClient) + 1)
    BY <1>2, <1>3 DEF AgentInv, q
<1>15. QueueInv'
    <2>1. ASSUME NEW i \in 1 .. Len(toClient)
          PROVE  /\ toClient'[i].id = Due + i - 1 /\ toClient'[i].id <= call.id
                 /\ toClient'[i].rError <=> toClient'[i].info < 0
                 /\ call.pc = "sent" /\ toClient'[i].id = call.id =>
                      OutOf(call.api, toClient'[i].out)
                 /\ toClient'[i].info # CollStat
        BY <1>2, <1>3, <1>9 DEF QueueInv
    <2>2. /\ m.id = Due + (Len(toClient) + 1) - 1 /\ m.id <= call.id
          /\ call.pc = "sent" /\ m.id = call.id => OutOf(call.api, m.out)
          /\ m.info = CollStat => agent'.state = "reporting"
        <3>1. m.id = Due + (Len(toClient) + 1) - 1
            BY <1>7, <1>9, <1>11, <1>14
        <3>2. /\ m.id <= call.id
              /\ call.pc = "sent" /\ m.id = call.id => agent.request.api = call.api
            BY <1>3, <1>7 DEF OfCalls, OwnRow, q
        <3>3. call.pc = "sent" /\ m.id = call.id => OutOf(call.api, m.out)
            BY <1>7, <3>2 DEF OutOf, r
        <3> QED BY <1>7, <1>10, <3>1, <3>2, <3>3
    <2>3. ASSUME NEW i \in 1 .. Len(toClient')
          PROVE  /\ toClient'[i].id = Due' + i - 1 /\ toClient'[i].id <= call'.id
                 /\ toClient'[i].rError <=> toClient'[i].info < 0
                 /\ call'.pc = "sent" /\ toClient'[i].id = call'.id =>
                      OutOf(call'.api, toClient'[i].out)
                 /\ toClient'[i].info = CollStat =>
                      i = Len(toClient') /\ agent'.state \in {"reporting", "ended"}
        <3>1. CASE i \in 1 .. Len(toClient)
            BY <1>2, <1>11, <2>1, <3>1
        <3>2. CASE i = Len(toClient) + 1
            BY <1>2, <1>7, <1>9, <1>11, <2>2, <3>2
        <3> QED BY <1>9, <3>1, <3>2
    <2> QED BY <2>3 DEF QueueInv
<1>16. AgentInv'
    <2> DEFINE f == Due + Len(toClient) + 1
    <2>1. f \in Nat /\ Due' + Len(toClient') = f
        BY <1>9, <1>11
    <2>2. RequestsFrom(f)
        BY <1>14
    <2> HIDE DEF f
    <2>3. RequestsFrom(Due + Len(toClient))'
        BY <1>2, <2>1, <2>2 DEF RequestsFrom
    <2>4. CASE s.info # CollStat
        BY <1>10, <2>1, <2>3, <2>4 DEF AgentInv
    <2>5. CASE s.info = CollStat
        <3>1. agent'.state = "reporting"
            BY <1>10, <2>5
        <3>2. CASE toAgent = <<>>
            <4>1. Len(toAgent) = 0
                BY <3>2, EmptySeq
            <4>2. f = call.id + 1
                BY <1>11, <2>1, <2>2, <4>1 DEF RequestsFrom
            <4>3. q.id = call.id
                BY <1>9, <1>11, <1>14, <4>2 DEF f
            <4>4. toClient'[Len(toClient')].info = CollStat
                BY <1>7, <1>9, <2>5
            <4> QED BY <1>2, <1>9, <1>10, <2>1, <3>1, <3>2, <4>2, <4>3, <4>4 DEF AgentInv,
                Reporting
        <3>3. CASE toAgent # <<>>
            <4>1. toAgent[1].kind = "request"
                <5>1. 1 \in 1 .. Len(toAgent)
                    BY <1>3, <3>3, EmptySeq DEF TypeOK
                <5> QED BY <2>2, <5>1 DEF RequestsFrom
            <4> QED BY <1>2, <3>1, <3>3, <4>1 DEF AgentInv, Reporting
        <3> QED BY <3>2, <3>3
    <2> QED BY <2>4, <2>5
<1> QED BY <1>2, <1>12, <1>13, <1>15, <1>16, ClientUntouched DEF Inv

----------------------------------------------------------------------------
(* The client *)

\* A call that returns late leaves its reply to the next.
LEMMA Abandon ==
    ASSUME TypeOK, AbandonedInv, call.pc = "sent", call'.pc = "idle", call'.id = call.id,
           abandoned' = abandoned \cup {call.id}
    PROVE  /\ Due' = Due /\ AbandonedInv' /\ abandoned' \subseteq 1 .. MaxCalls
           /\ {a \in abandoned' : a < call'.id} = abandoned
<1> DEFINE n == call.id
<1>1. n \in Nat /\ n \in 1 .. MaxCalls /\ n \notin abandoned /\ abandoned \subseteq 1 .. n
    BY CallFields DEF AbandonedInv
<1>2. abandoned \subseteq 1 .. MaxCalls
    BY DEF TypeOK
<1>3. Late \in Nat /\ Due = n - Late
    BY LateFacts
<1> HIDE DEF n
<1>4. /\ Cardinality(abandoned \cup {n}) = Cardinality(abandoned) + 1
      /\ {a \in abandoned \cup {n} : a < n} = abandoned
    BY <1>1, OneMore
<1>5. abandoned' = abandoned \cup {n} /\ call'.id = n
    BY DEF n
<1>6. Late' = Late + 1
    BY <1>4, <1>5 DEF Late
<1>7. Due' = Due
    BY <1>1, <1>3, <1>5, <1>6 DEF Due
<1>8. AbandonedInv'
    <2>1. abandoned' \subseteq 1 .. call'.id
        BY <1>1, <1>5
    <2> QED BY <2>1 DEF AbandonedInv
<1> QED BY <1>1, <1>2, <1>4, <1>5, <1>7, <1>8

\* After one that returns in time, the next call's reply is due.
LEMMA Finish ==
    ASSUME TypeOK, AbandonedInv, call.pc = "sent", call'.pc = "idle", call'.id = call.id,
           abandoned' = abandoned
    PROVE  /\ Due' = Due + 1 /\ AbandonedInv'
           /\ {a \in abandoned' : a < call'.id} = abandoned
<1> DEFINE n == call.id
<1>1. n \in Nat /\ n \in 1 .. MaxCalls /\ n \notin abandoned /\ abandoned \subseteq 1 .. n
    BY CallFields DEF AbandonedInv
<1>2. Late \in Nat /\ Due = n - Late /\ Late' = Late
    BY LateFacts DEF Late
<1> HIDE DEF n
<1>3. {a \in abandoned : a < n} = abandoned
    BY <1>1, OneMore
<1>4. call'.id = n
    BY DEF n
<1>5. Due' = Due + 1
    BY <1>1, <1>2, <1>4 DEF Due
<1> QED BY <1>1, <1>3, <1>4, <1>5 DEF AbandonedInv

\* Whether a call has been answered when it returns, it was by the reply
\* that was due.
LEMMA Answered ==
    ASSUME Inv, call.pc = "sent", call'.pc = "idle", call'.id = call.id,
           {a \in abandoned' : a < call'.id} = abandoned,
           call'.answer \in {0, Due},
           call'.answer # 0 /\ Late = 0 /\ call'.got # NULL => call'.got = call'.out
    PROVE  ReplyAnswersCall'
<1>1. Due = call.id - Late
    BY LateFacts DEF Inv
<1>2. Cardinality({a \in abandoned' : a < call'.id}) = Late
    BY DEF Late
<1> QED BY <1>1, <1>2 DEF ReplyAnswersCall

\* The queues do not change with a call that only returns.
LEMMA ReturnKeepsQueues ==
    ASSUME Inv, call.pc = "sent", call'.pc = "idle", SameCall, Due' = Due,
           UNCHANGED <<toAgent, agent>>, toAgent # <<Ack>> \/ agent.state # "reporting",
           UNCHANGED toClient
    PROVE  OfCalls' /\ QueueInv' /\ AgentInv'
<1>1. OfCalls'
    BY DEF Inv, OfCalls, OwnRow, SameCall
<1>2. QueueInv'
    BY DEF Inv, QueueInv, SameCall
<1>3. AgentInv'
    BY DEF Inv, AgentInv, RequestsFrom, Reporting, SameCall
<1> QED BY <1>1, <1>2, <1>3

\* A call without room for its result returns before its reply is read, and
\* the next reads it.
LEMMA RefuseOutKeeps ==
    ASSUME Inv, RefuseOut
    PROVE  Inv'
<1>1. /\ call.pc = "sent" /\ OutRefused(call)
      /\ Return(ErrorCode["USER_API_INPUT_ERR"], "USER_API_INPUT_ERR")
      /\ abandoned' = abandoned \cup {call.id}
      /\ UNCHANGED <<conn, toAgent, toClient, agent, reports>>
    BY DEF RefuseOut, Fail
<1>2. TypeOK /\ AbandonedInv /\ AgentInv /\ SentInv
    BY DEF Inv
<1>3. /\ SameCall /\ call'.pc = "idle" /\ call'.answer = call.answer /\ call'.got = call.got
    BY <1>1, <1>2, CodeFacts, ReturnFacts DEF ClientErrors
<1>4. call'.id = call.id /\ call'.out = call.out /\ call' \in CallRecords
    BY <1>3 DEF SameCall
<1>5. /\ Due' = Due /\ AbandonedInv' /\ abandoned' \subseteq 1 .. MaxCalls
      /\ {a \in abandoned' : a < call'.id} = abandoned
    BY <1>1, <1>2, <1>3, <1>4, Abandon
<1>6. TypeOK'
    BY <1>1, <1>2, <1>4, <1>5 DEF TypeOK
<1>7. toAgent # <<Ack>> \/ agent.state # "reporting"
    <2>1. SUFFICES ASSUME toAgent = <<Ack>>, agent.state = "reporting" PROVE FALSE
        OBVIOUS
    <2>2. Reporting
        BY <1>2, <2>1 DEF AgentInv
    <2>3. toAgent # <<>> /\ toAgent[1] = Ack /\ Ack.kind # "request"
        BY <2>1 DEF Ack
    <2> QED BY <1>1, <2>2, <2>3 DEF Reporting
<1>8. OfCalls' /\ QueueInv' /\ AgentInv'
    BY <1>1, <1>3, <1>5, <1>7, ReturnKeepsQueues
<1>9. SentInv'
    BY <1>3 DEF SentInv
<1>10. ReplyAnswersCall'
    BY <1>1, <1>2, <1>3, <1>4, <1>5, Answered DEF SentInv
<1>11. CarriesLastCall'
    BY <1>1, <1>2, <1>3, SameCallFacts DEF SentInv, CarriesLastCall
<1> QED BY <1>5, <1>6, <1>8, <1>9, <1>10, <1>11 DEF Inv

\* A call whose reply does not come any more, because the agent has ended.
LEMMA UnansweredKeeps ==
    ASSUME Inv, call.pc = "sent", NEW status \in Int, NEW cause \in Causes, Return(status, cause),
           agent.state = "ended", toClient' = <<>>,
           UNCHANGED <<conn, toAgent, agent, reports, abandoned>>
    PROVE  Inv'
<1>1. TypeOK /\ AbandonedInv /\ OfCalls /\ SentInv
    BY DEF Inv
<1>2. /\ SameCall /\ call'.pc = "idle" /\ call'.answer = call.answer /\ call'.got = call.got
    BY <1>1, ReturnFacts
<1>3. call'.id = call.id /\ call'.out = call.out /\ call' \in CallRecords
    BY <1>2 DEF SameCall
<1>4. /\ Due' = Due + 1 /\ AbandonedInv'
      /\ {a \in abandoned' : a < call'.id} = abandoned
    BY <1>1, <1>2, <1>3, Finish
<1>5. TypeOK'
    BY <1>1, <1>3, EmptySeq DEF TypeOK
<1>6. OfCalls' /\ AgentInv'
    BY <1>1, <1>2, <1>3 DEF OfCalls, OwnRow, AgentInv
<1>7. QueueInv'
    <2>1. Len(toClient') = 0
        BY EmptySeq
    <2> QED BY <2>1 DEF QueueInv
<1>8. SentInv'
    BY <1>2 DEF SentInv
<1>9. ReplyAnswersCall'
    BY <1>1, <1>2, <1>3, <1>4, Answered DEF SentInv
<1>10. CarriesLastCall'
    BY <1>1, <1>2, SameCallFacts DEF SentInv, CarriesLastCall
<1> QED BY <1>4, <1>5, <1>6, <1>7, <1>8, <1>9, <1>10 DEF Inv

\* Nothing is left to read: readMsgHeader fails.
LEMMA ReadHeaderFailsKeeps ==
    ASSUME Inv, ReadHeaderFails
    PROVE  Inv'
<1>1. "SYS_INTERNAL_ERR" \in Causes /\ ErrorCode["SYS_INTERNAL_ERR"] \in Int
    BY CodeFacts DEF ClientErrors
<1>2. /\ call.pc = "sent" /\ agent.state = "ended" /\ toClient' = <<>>
      /\ Return(ErrorCode["SYS_INTERNAL_ERR"], "SYS_INTERNAL_ERR")
      /\ UNCHANGED <<conn, toAgent, agent, reports, abandoned>>
    BY DEF ReadHeaderFails, Fail
<1> QED BY <1>1, <1>2, UnansweredKeeps

\* Only the header of the last reply is left to read.
LEMMA ReadBodyFailsKeeps ==
    ASSUME Inv, ReadBodyFails
    PROVE  Inv'
<1>1. Ok \in Causes /\ 0 \in Int
    BY DEF Causes
<1>2. /\ call.pc = "sent" /\ agent.state = "ended" /\ toClient' = <<>> /\ Return(0, Ok)
      /\ UNCHANGED <<conn, toAgent, agent, reports, abandoned>>
    BY DEF ReadBodyFails
<1> QED BY <1>1, <1>2, UnansweredKeeps

\* The connection's status after a reply: that of the reply, where it says
\* anything.
LEMMA TakenFacts ==
    ASSUME TypeOK, NEW m \in Replies, NEW s, NEW unpacked, Taken(m, call, s, unpacked)
    PROVE  /\ toClient' = Tail(toClient) /\ conn' \in ConnRecords
           /\ conn'.rError = IF m.rError THEN m.id ELSE conn.rError
           /\ conn'.transStat \in {m.id, conn.transStat}
<1> DEFINE A == ApiTableNumbers \cup {0}
           B == 0 .. MaxCalls
           e == IF m.rError THEN m.id ELSE conn.rError
           t == IF CopiesStat(call) /\ s.status >= 0 /\ m.out # NULL /\ unpacked
                THEN m.id ELSE conn.transStat
<1>1. /\ conn \in [apiInx : A, rError : B, transStat : B]
      /\ ConnRecords = [apiInx : A, rError : B, transStat : B]
    BY DEF TypeOK, ConnRecords
<1>2. m.id \in B
    BY ReplyFacts, CallFields
<1>3. e \in B /\ t \in B /\ t \in {m.id, conn.transStat}
    BY <1>2, ConnFacts
<1>4. toClient' = Tail(toClient) /\ conn' = [conn EXCEPT !.rError = e, !.transStat = t]
    BY DEF Taken
<1>5. 0 \in A
    OBVIOUS
<1> HIDE DEF A, B, t
<1>6. conn' \in ConnRecords /\ conn'.rError = e /\ conn'.transStat = t
    <2> HIDE DEF e
    <2> QED BY <1>1, <1>3, <1>4, <1>5, ConnUpdate
<1> QED BY <1>3, <1>4, <1>6

\* The status of a call that has read a reply: that of the reply, unless its
\* structure cannot be unpacked, which is a failure.
LEMMA StatusFacts ==
    ASSUME NEW m \in Replies, NEW unpacked
    PROVE  LET s == ReplyStatus(m, unpacked)
           IN  /\ s.status \in Int /\ s.cause \in Causes
               /\ m.info < 0 => s.status < 0
               /\ s.status = CollStat => m.info = CollStat
<1> DEFINE e == "USER_PACKSTRUCT_INPUT_ERR"
<1>1. m.info \in Int /\ m.cause \in Causes
    BY ReplyFacts
<1>2. e \in Causes /\ ErrorCode[e] \in Int /\ ErrorCode[e] < 0
    BY CodeFacts DEF ClientErrors
<1>3. \/ ReplyStatus(m, unpacked) = [status |-> m.info, cause |-> m.cause]
      \/ ~(m.info < 0) /\ ReplyStatus(m, unpacked) = [status |-> ErrorCode[e], cause |-> e]
    BY DEF ReplyStatus
<1> QED BY <1>1, <1>2, <1>3 DEF CollStat

\* The reply read is the one that is due.  A report is the last in the
\* queue, and is acknowledged or abandons the call.
LEMMA ReadReplyKeeps ==
    ASSUME Inv, ReadReply
    PROVE  Inv'
<1> DEFINE m == Head(toClient)
<1>1. /\ call.pc = "sent" /\ ~OutRefused(call) /\ toClient # <<>>
      /\ UNCHANGED <<agent, reports>>
    BY DEF ReadReply
<1>2. PICK unpacked \in IF m.out = NULL \/ call.out = NULL THEN {TRUE} ELSE BOOLEAN :
        LET s == ReplyStatus(m, unpacked)
            read == [call EXCEPT !.answer = m.id, !.status = s.status, !.cause = s.cause,
                                 !.got = IF unpacked /\ call.out # NULL THEN m.out ELSE NULL]
        IN  /\ Taken(m, call, s, unpacked)
            /\ IF MoreToCome(call, s)
               THEN Acknowledge(read) /\ UNCHANGED abandoned
               ELSE /\ call' = [read EXCEPT !.pc = "idle"]
                    /\ abandoned' = IF m.info = CollStat THEN abandoned \cup {call.id}
                                    ELSE abandoned
                    /\ UNCHANGED toAgent
    BY DEF ReadReply
<1> DEFINE s == ReplyStatus(m, unpacked)
           g == IF unpacked /\ call.out # NULL THEN m.out ELSE NULL
           read == [call EXCEPT !.answer = m.id, !.status = s.status, !.cause = s.cause,
                                !.got = g]
           lost == [read EXCEPT !.pc = "idle", !.cause = "SYS_SOCK_WRITE_ERR",
                                !.status = ErrorCode["SYS_SOCK_WRITE_ERR"]]
<1>3. /\ TypeOK /\ AbandonedInv /\ OfCalls /\ QueueInv /\ AgentInv /\ SentInv
      /\ toClient \in Seq(Replies) /\ toAgent \in Seq(Messages) /\ call \in CallRecords
    BY DEF Inv, TypeOK
<1>4. /\ m = toClient[1] /\ m \in Replies /\ Tail(toClient) \in Seq(Replies)
      /\ Len(toClient) \in Nat /\ Len(toClient) > 0 /\ Len(Tail(toClient)) = Len(toClient) - 1
      /\ \A i \in 1 .. Len(Tail(toClient)) : Tail(toClient)[i] = toClient[i + 1]
    BY <1>1, <1>3, TailFacts
<1>5. /\ Due \in Nat /\ Due > 0 /\ Due = call.id - Late /\ Late \in Nat
      /\ call.id \in Nat /\ call.id \in 1 .. MaxCalls /\ call.id \notin abandoned
    BY <1>1, <1>3, LateFacts DEF AbandonedInv
<1>6. /\ m.id = Due /\ (m.rError <=> m.info < 0)
      /\ m.id = call.id => OutOf(call.api, m.out)
      /\ m.info = CollStat => 1 = Len(toClient) /\ agent.state \in {"reporting", "ended"}
    <2>1. 1 \in 1 .. Len(toClient) /\ Due + 1 - 1 = Due
        BY <1>4, <1>5
    <2> QED BY <1>1, <1>3, <1>4, <2>1 DEF QueueInv
<1>7. /\ s.status \in Int /\ s.cause \in Causes
      /\ m.info < 0 => s.status < 0
      /\ s.status = CollStat => m.info = CollStat
    BY <1>4, StatusFacts
<1>8. g \in Results /\ m.id \in 0 .. MaxCalls
    <2>1. m.out \in Results /\ m.id \in 0 .. MaxCalls
        BY <1>4, ReplyFacts
    <2> QED BY <2>1 DEF Results, Returning
<1>9. g # NULL => g = m.out /\ call.out # NULL
    OBVIOUS
<1>10. Taken(m, call, s, unpacked)
    BY <1>2
<1>11. \/ MoreToCome(call, s) /\ call' = read /\ Deliver(Ack) /\ UNCHANGED abandoned
       \/ /\ MoreToCome(call, s) /\ agent.state = "ended" /\ call' = lost
          /\ UNCHANGED <<toAgent, abandoned>>
       \/ /\ call' = [read EXCEPT !.pc = "idle"] /\ UNCHANGED toAgent
          /\ abandoned' = IF m.info = CollStat THEN abandoned \cup {call.id} ELSE abandoned
    BY <1>2 DEF Acknowledge
<1> HIDE DEF s, g, m
<1>12. /\ read \in CallRecords /\ [read EXCEPT !.pc = "idle"] \in CallRecords /\ lost \in CallRecords
       /\ read.pc = "sent" /\ [read EXCEPT !.pc = "idle"].pc = "idle" /\ lost.pc = "idle"
       /\ \A d \in {read, [read EXCEPT !.pc = "idle"], lost} :
            /\ d.api = call.api /\ d.in = call.in /\ d.inBs = call.inBs /\ d.out = call.out
            /\ d.outBs = call.outBs /\ d.own = call.own /\ d.id = call.id
            /\ d.answer = m.id /\ d.got = g /\ (m.info < 0 => d.status < 0)
    <2> DEFINE a == m.id
               c == s.status
               u == s.cause
               d == [call EXCEPT !.answer = a, !.status = c, !.cause = u, !.got = g]
               x == [d EXCEPT !.pc = "idle"]
               e == "SYS_SOCK_WRITE_ERR"
               w == ErrorCode[e]
               y == [d EXCEPT !.pc = "idle", !.cause = e, !.status = w]
    <2>1. a \in 0 .. MaxCalls /\ c \in Int /\ u \in Causes /\ (m.info < 0 => c < 0)
        BY <1>7, <1>8
    <2>7. e \in Causes /\ w \in Int /\ w < 0
        BY CodeFacts DEF ClientErrors
    <2>2. call \in CallRecords /\ g \in Results
        BY <1>3, <1>8
    <2>3. d = read /\ x = [read EXCEPT !.pc = "idle"] /\ y = lost
        OBVIOUS
    <2> HIDE DEF a, c, u, w
    <2>4. d \in CallRecords /\ x \in CallRecords /\ d.pc = call.pc /\ x.pc = "idle"
        BY <2>1, <2>2 DEF CallRecords
    <2>8. y \in CallRecords /\ y.pc = "idle"
        BY <2>1, <2>2, <2>7 DEF CallRecords
    <2>5. /\ d.api = call.api /\ d.in = call.in /\ d.inBs = call.inBs /\ d.out = call.out
          /\ d.outBs = call.outBs /\ d.own = call.own /\ d.id = call.id
          /\ d.answer = a /\ d.status = c /\ d.got = g
        BY <2>2 DEF CallRecords
    <2>6. /\ x.api = call.api /\ x.in = call.in /\ x.inBs = call.inBs /\ x.out = call.out
          /\ x.outBs = call.outBs /\ x.own = call.own /\ x.id = call.id
          /\ x.answer = a /\ x.status = c /\ x.got = g
        BY <2>2 DEF CallRecords
    <2>9. /\ y.api = call.api /\ y.in = call.in /\ y.inBs = call.inBs /\ y.out = call.out
          /\ y.outBs = call.outBs /\ y.own = call.own /\ y.id = call.id
          /\ y.answer = a /\ y.status = w /\ y.got = g
        BY <2>2 DEF CallRecords
    <2> HIDE DEF d, x, y, read, lost
    <2> QED BY <1>1, <2>1, <2>3, <2>4, <2>5, <2>6, <2>7, <2>8, <2>9 DEF a
<1>13. /\ SameCall /\ call'.answer = m.id /\ call'.got = g /\ (m.info < 0 => call'.status < 0)
       /\ call'.api = call.api /\ call'.id = call.id /\ call'.out = call.out
    <2> HIDE DEF read, lost
    <2>1. call' \in {read, [read EXCEPT !.pc = "idle"], lost}
        BY <1>11
    <2> QED BY <1>12, <2>1 DEF SameCall
<1>14. \/ call'.pc = "sent" /\ MoreToCome(call, s) /\ Deliver(Ack) /\ abandoned' = abandoned
       \/ /\ call'.pc = "idle" /\ MoreToCome(call, s) /\ agent.state = "ended"
          /\ UNCHANGED toAgent /\ abandoned' = abandoned
       \/ /\ call'.pc = "idle" /\ UNCHANGED toAgent
          /\ abandoned' = IF m.info = CollStat THEN abandoned \cup {call.id} ELSE abandoned
    <2> HIDE DEF read, lost
    <2> QED BY <1>11, <1>12
<1> HIDE DEF read, lost
<1>15. /\ toClient' = Tail(toClient) /\ conn' \in ConnRecords
       /\ conn'.rError = IF m.rError THEN m.id ELSE conn.rError
       /\ conn'.transStat \in {m.id, conn.transStat}
    BY <1>3, <1>4, <1>10, TakenFacts
<1>16. CopiesStat(call) => conn'.transStat \in {0, m.id}
    BY <1>1, <1>3, <1>5, <1>6, <1>15 DEF SentInv
<1>17. call'.answer # 0 /\ Late = 0 /\ call'.got # NULL => call'.got = call'.out
    BY <1>1, <1>3, <1>5, <1>6, <1>9, <1>13 DEF OutOf, SentInv
<1>18. OutRefused(call') = OutRefused(call) /\ CopiesStat(call') = CopiesStat(call)
    BY <1>13, SameCallFacts
<1>19. TypeOK'
    <2>1. call' \in CallRecords /\ abandoned' \subseteq 1 .. MaxCalls
        BY <1>3, <1>5, <1>13, <1>14 DEF SameCall, TypeOK
    <2>2. toAgent' \in Seq(Messages)
        <3>1. Ack \in Messages
            BY DEF Messages
        <3> QED BY <1>3, <1>14, <3>1, AppendFacts DEF Deliver
    <2> QED BY <1>1, <1>3, <1>4, <1>15, <2>1, <2>2 DEF TypeOK

<1>20. ReplyAnswersCall'
    <2>1. call'.pc = "idle" => {a \in abandoned' : a < call'.id} = abandoned
        BY <1>1, <1>3, <1>13, <1>14, Abandon, Finish
    <2> QED BY <1>1, <1>6, <1>13, <1>14, <1>17, <2>1, Answered DEF ReplyAnswersCall
<1>21. CarriesLastCall'
    <2>1. conn'.rError \in {0, m.id} /\ (conn'.rError # 0 => m.rError)
        BY <1>1, <1>3, <1>15 DEF SentInv
    <2> QED BY <1>6, <1>7, <1>13, <1>16, <1>18, <2>1 DEF CarriesLastCall
<1>22. m.info = CollStat => toClient' = <<>> /\ Len(toClient') = 0 /\ Len(toClient) = 1
    BY <1>4, <1>6, <1>15, EmptySeq
<1>23. CASE call'.pc = "sent"
    <2>1. MoreToCome(call, s) /\ Deliver(Ack) /\ abandoned' = abandoned
        BY <1>14, <1>23
    <2>2. m.info = CollStat /\ agent.state \in {"reporting", "ended"}
        BY <1>6, <1>7, <2>1 DEF MoreToCome
    <2>3. Due' = Due /\ Late' = Late
        BY <1>1, <1>13, <1>23, <2>1 DEF Due, Late
    <2>4. AbandonedInv'
        BY <1>1, <1>3, <1>13, <2>1 DEF AbandonedInv
    <2>5. /\ Ack \in Messages /\ Append(toAgent, Ack) \in Seq(Messages)
          /\ Append(toAgent, Ack) # <<>> /\ Len(toAgent) \in Nat
          /\ Len(Append(toAgent, Ack)) = Len(toAgent) + 1
          /\ \A i \in 1 .. Len(toAgent) : Append(toAgent, Ack)[i] = toAgent[i]
          /\ Append(toAgent, Ack)[Len(toAgent) + 1] = Ack
        <3>1. Ack \in Messages
            BY DEF Messages
        <3> QED BY <1>3, <3>1, AppendFacts
    <2>6. IF agent.state = "ended" THEN toAgent' = toAgent ELSE toAgent' = Append(toAgent, Ack)
        BY <2>1 DEF Deliver
    <2>7. OfCalls'
        <3>1. Ack.id <= call.id /\ Ack.id # call.id
            BY <1>5 DEF Ack
        <3>2. \A i \in 1 .. Len(toAgent') :
                \/ toAgent'[i] = Ack
                \/ \E j \in 1 .. Len(toAgent) : toAgent'[i] = toAgent[j]
            BY <2>5, <2>6
        <3>3. \A i \in 1 .. Len(toAgent') : OwnRow(toAgent[i])'
            BY <1>1, <1>3, <1>13, <3>1, <3>2 DEF OfCalls, OwnRow
        <3> QED BY <1>1, <1>3, <1>13, <3>3 DEF OfCalls, OwnRow
    <2>8. QueueInv'
        BY <1>22, <2>2 DEF QueueInv
    <2>9. AgentInv'
        <3>1. CASE agent.state = "ended"
            BY <1>1, <3>1 DEF AgentInv
        <3>2. CASE agent.state = "reporting" /\ toAgent # <<>>
            <4>1. toAgent[1].kind = "request"
                BY <1>1, <1>3, <3>2 DEF AgentInv, Reporting
            <4>2. toAgent' # <<>> /\ toAgent'[1] = toAgent[1]
                <5>1. 1 \in 1 .. Len(toAgent)
                    BY <1>3, <3>2, EmptySeq
                <5> QED BY <2>5, <2>6, <3>2, <5>1
            <4> QED BY <1>1, <3>2, <4>1, <4>2 DEF AgentInv, Reporting
        <3>3. CASE agent.state = "reporting" /\ toAgent = <<>>
            <4>1. agent.request.id = call.id /\ Due + Len(toClient) = call.id + 1
                BY <1>1, <1>3, <3>3 DEF AgentInv, Reporting
            <4>2. Due' = call'.id /\ agent'.request.id = call'.id
                <5>1. Len(toClient) = 1
                    BY <1>22, <2>2
                <5>2. Due = call.id
                    BY <1>5, <4>1, <5>1
                <5> QED BY <1>1, <1>13, <2>3, <4>1, <5>2
            <4>3. toAgent' = <<Ack>>
                BY <2>6, <3>3
            <4>4. toClient' = <<>> /\ ~OutRefused(call')
                BY <1>1, <1>18, <1>22, <2>2
            <4> QED BY <1>1, <1>23, <3>3, <4>2, <4>3, <4>4 DEF AgentInv, Reporting
        <3> QED BY <2>2, <3>1, <3>2, <3>3
    <2>10. SentInv'
        <3>1. call'.answer \in {0, Due'}
            BY <1>6, <1>13, <2>3
        <3>2. conn'.rError = 0
            <4>1. ~m.rError
                BY <1>6, <2>2 DEF CollStat
            <4> QED BY <1>1, <1>3, <1>15, <4>1 DEF SentInv
        <3>3. CopiesStat(call') => conn'.transStat \in {0, call'.answer}
            BY <1>13, <1>16, <1>18
        <3> QED BY <1>1, <1>3, <1>13, <1>17, <2>3, <3>1, <3>2, <3>3 DEF SentInv
    <2> QED BY <1>19, <1>20, <1>21, <2>4, <2>7, <2>8, <2>9, <2>10 DEF Inv
<1>26. CASE call'.pc = "idle" /\ m.info = CollStat /\ abandoned' = abandoned
    <2>1. UNCHANGED toAgent /\ agent.state = "ended"
        BY <1>5, <1>14, <1>26
    <2>2. AbandonedInv'
        BY <1>1, <1>3, <1>13, <1>26, Finish
    <2>3. OfCalls'
        BY <1>1, <1>3, <1>13, <1>26, <2>1 DEF OfCalls, OwnRow
    <2>4. QueueInv'
        BY <1>22, <1>26 DEF QueueInv
    <2>5. AgentInv'
        BY <1>1, <2>1 DEF AgentInv
    <2> QED BY <1>19, <1>20, <1>21, <1>26, <2>2, <2>3, <2>4, <2>5 DEF Inv, SentInv
<1>24. CASE call'.pc = "idle" /\ m.info = CollStat /\ abandoned' = abandoned \cup {call.id}
    <2>1. UNCHANGED toAgent /\ abandoned' = abandoned \cup {call.id}
        BY <1>5, <1>14, <1>24
    <2>2. Due' = Due /\ AbandonedInv'
        BY <1>1, <1>3, <1>13, <1>24, <2>1, Abandon
    <2>3. OfCalls'
        BY <1>1, <1>3, <1>13, <1>24, <2>1 DEF OfCalls, OwnRow
    <2>4. QueueInv'
        BY <1>22, <1>24 DEF QueueInv
    <2>5. AgentInv'
        BY <1>1, <1>3, <1>6, <1>22, <1>24, <2>1 DEF AgentInv, Reporting
    <2> QED BY <1>19, <1>20, <1>21, <1>24, <2>2, <2>3, <2>4, <2>5 DEF Inv, SentInv
<1>25. CASE call'.pc = "idle" /\ m.info # CollStat
    <2>1. UNCHANGED <<toAgent, abandoned>>
        BY <1>7, <1>14, <1>25 DEF MoreToCome
    <2>2. Due' = Due + 1 /\ AbandonedInv'
        BY <1>1, <1>3, <1>13, <1>25, <2>1, Finish
    <2>3. OfCalls'
        BY <1>1, <1>3, <1>13, <1>25, <2>1 DEF OfCalls, OwnRow
    <2>4. Len(toClient') = Len(toClient) - 1 /\ Due' + Len(toClient') = Due + Len(toClient)
        BY <1>4, <1>5, <1>15, <2>2
    <2>5. QueueInv'
        <3>1. ASSUME NEW i \in 1 .. Len(toClient')
              PROVE  /\ toClient'[i].id = Due' + i - 1 /\ toClient'[i].id <= call'.id
                     /\ toClient'[i].rError <=> toClient'[i].info < 0
                     /\ toClient'[i].info = CollStat =>
                          i = Len(toClient') /\ agent'.state \in {"reporting", "ended"}
            <4>1. i + 1 \in 1 .. Len(toClient) /\ toClient'[i] = toClient[i + 1]
                BY <1>4, <1>15
            <4> DEFINE k == i + 1
                       t == toClient[k]
            <4>2. /\ t.id = Due + k - 1 /\ t.id <= call.id /\ (t.rError <=> t.info < 0)
                  /\ t.info = CollStat =>
                       k = Len(toClient) /\ agent.state \in {"reporting", "ended"}
                BY <1>3, <4>1 DEF QueueInv
            <4> HIDE DEF t
            <4>3. toClient'[i] = t
                BY <4>1 DEF t
            <4> QED BY <1>1, <1>5, <1>13, <2>2, <2>4, <4>1, <4>2, <4>3
        <3> QED BY <1>25, <3>1 DEF QueueInv
    <2>6. AgentInv'
        <3>1. CASE agent.state \in {"idle", "working", "ended"}
            <4>1. RequestsFrom(Due + Len(toClient)) => RequestsFrom(Due + Len(toClient))'
                BY <1>13, <2>1, <2>4 DEF RequestsFrom
            <4>2. RequestsFrom(Due + Len(toClient) + 1) => RequestsFrom(Due + Len(toClient) + 1)'
                BY <1>13, <2>1, <2>4 DEF RequestsFrom
            <4> QED BY <1>1, <1>3, <2>4, <3>1, <4>1, <4>2 DEF AgentInv
        <3>2. CASE agent.state = "reporting" /\ toAgent # <<>>
            BY <1>1, <1>3, <2>1, <3>2 DEF AgentInv, Reporting
        <3>3. CASE agent.state = "reporting" /\ toAgent = <<>>
            <4>1. /\ agent.request.id = call.id /\ Due + Len(toClient) = call.id + 1
                  /\ toClient[Len(toClient)].info = CollStat
                BY <1>1, <1>3, <3>3 DEF AgentInv, Reporting
            <4>2. Len(toClient) # 1
                BY <1>4, <1>25, <4>1
            <4>3. Len(toClient') \in 1 .. Len(toClient')
                BY <1>4, <2>4, <4>2
            <4>4. toClient' # <<>> /\ toClient'[Len(toClient')] = toClient[Len(toClient)]
                <5> DEFINE k == Len(toClient')
                <5>1. k + 1 = Len(toClient) /\ k \in 1 .. k
                    BY <1>4, <2>4, <4>3
                <5>2. toClient' # <<>>
                    BY <4>3, EmptySeq
                <5>3. k = Len(Tail(toClient)) /\ toClient' = Tail(toClient)
                    BY <1>15
                <5> HIDE DEF k
                <5>4. Tail(toClient)[k] = toClient[k + 1]
                    BY <1>4, <5>1, <5>3
                <5> QED BY <5>1, <5>2, <5>3, <5>4 DEF k
            <4> QED BY <1>1, <1>13, <2>1, <2>4, <3>3, <4>1, <4>4 DEF AgentInv, Reporting
        <3> QED BY <1>3, <3>1, <3>2, <3>3 DEF TypeOK
    <2> QED BY <1>19, <1>20, <1>21, <1>25, <2>2, <2>3, <2>5, <2>6 DEF Inv, SentInv
<1> QED BY <1>7, <1>14, <1>23, <1>24, <1>25, <1>26 DEF MoreToCome

----------------------------------------------------------------------------
(* The theorems *)

\* Nothing has been asked for yet.
LEMMA InitInv == Init => Inv
<1> SUFFICES ASSUME Init PROVE Inv
    OBVIOUS
<1> DEFINE c == Begun(NoCall, "idle", 0, 0, Ok)
<1>1. /\ call = c /\ toAgent = <<>> /\ toClient = <<>>
      /\ agent = [state |-> "idle", request |-> Ack]
      /\ conn = [apiInx |-> 0, rError |-> 0, transStat |-> 0] /\ reports = 0 /\ abandoned = {}
    BY DEF Init
<1>2. NULL \in Structures /\ NULL \in Results /\ Ok \in Causes /\ Ack \in Messages
    BY DEF Structures, Results, Causes, Messages
<1>3. c \in CallRecords /\ c.pc = "idle" /\ c.id = 0 /\ c.answer = 0
    BY <1>2, BoundAssumption DEF Begun, NoCall, CallRecords
<1> HIDE DEF c
<1>4. /\ Len(toAgent) = 0 /\ toAgent \in Seq(Messages)
      /\ Len(toClient) = 0 /\ toClient \in Seq(Replies)
    BY <1>1, EmptySeq
<1>5. TypeOK
    BY <1>1, <1>2, <1>3, <1>4, BoundAssumption DEF TypeOK, ConnRecords
<1>6. Late = 0 /\ Due = 1
    BY <1>1, <1>3, FS_EmptySet DEF Late, Due
<1>7. AbandonedInv /\ OfCalls /\ QueueInv
    BY <1>1, <1>3, <1>4 DEF AbandonedInv, OfCalls, OwnRow, QueueInv, Ack
<1>8. AgentInv
    <2>1. Due + Len(toClient) = 1 /\ 1 .. Len(toAgent) = {} /\ Len(toAgent) = call.id + 1 - 1
        BY <1>1, <1>3, <1>4, <1>6
    <2>2. RequestsFrom(1)
        BY <2>1 DEF RequestsFrom
    <2> QED BY <1>1, <2>1, <2>2 DEF AgentInv
<1>9. SentInv /\ ReplyAnswersCall /\ CarriesLastCall
    BY <1>1, <1>3 DEF SentInv, ReplyAnswersCall, CarriesLastCall
<1> QED BY <1>5, <1>7, <1>8, <1>9 DEF Inv

\* Every step of the program, the connection and the agent keeps the
\* invariant.
LEMMA NextKeeps == Inv /\ [Next]_vars => Inv'
<1> SUFFICES ASSUME Inv, [Next]_vars PROVE Inv'
    OBVIOUS
<1>1. ASSUME call.id < MaxCalls, NEW w \in Callers[call.id + 1], procApiRequest(w) PROVE Inv'
    BY <1>1, CallKeeps
<1>2. CASE Client
    BY <1>2, RefuseOutKeeps, ReadReplyKeeps, ReadHeaderFailsKeeps, ReadBodyFailsKeeps DEF Client
<1>3. CASE Agent
    BY <1>3, AgentReadsKeeps, AgentRepliesKeeps DEF Agent
<1>4. CASE AgentEnds
    BY <1>4, AgentEndsKeeps
<1>5. CASE UNCHANGED vars
    <2>1. UNCHANGED <<conn, call, toAgent, toClient, agent, reports, abandoned>>
        BY <1>5 DEF vars
    <2>2. Due' = Due
        BY <2>1, ClientUntouched
    <2>3. TypeOK' /\ OfCalls'
        BY <2>1 DEF Inv, TypeOK, OfCalls, OwnRow
    <2>4. QueueInv'
        BY <2>1, <2>2 DEF Inv, QueueInv
    <2>5. AgentInv'
        BY <2>1, <2>2 DEF Inv, AgentInv, RequestsFrom, Reporting
    <2> QED BY <2>1, <2>3, <2>4, <2>5, ClientUntouched DEF Inv
<1> QED BY <1>1, <1>2, <1>3, <1>4, <1>5 DEF Next

(* What the queues between client and agent hold, and which calls are      *)
(* still to be answered, for any programs, calls, reports and statuses.    *)
THEOREM InvHolds == Spec => []Inv
<1> QED BY InitInv, NextKeeps, PTL DEF Spec

(* procApiRequest returns what the reply to this call says; after calls    *)
(* that returned with a reply to come, that to the call as many before it. *)
(* Error stack and statistics are of the same reply.                       *)
THEOREM CallsGetTheirReplies == Spec => []ReplyInv
<1>1. Inv => ReplyInv
    BY DEF Inv, ReplyInv
<1> QED BY InvHolds, <1>1, PTL

----------------------------------------------------------------------------
(* Requests and statuses *)

\* The request of the call c is the one that c makes, and c is one of the
\* program's calls that are not refused.
RequestOf(c, m) == c.pc = "sent" /\ m.id = c.id => m = Request(c, c.id)
SameParameters(c, w) ==
    /\ c.api = w.api /\ c.in = w.in /\ c.inBs = w.inBs /\ c.out = w.out /\ c.outBs = w.outBs
    /\ c.whole = w.whole
Admitted(c) == c.pc = "sent" => \E w \in Called : SendError(w) = Ok /\ SameParameters(c, w)

\* Wherever the request of the call in progress is, its parameters are those
\* of the call.
RequestsInv ==
    /\ \A i \in 1 .. Len(toAgent) : RequestOf(call, toAgent[i])
    /\ RequestOf(call, agent.request)
    /\ Admitted(call)

\* Every status, under way or returned, is that of its cause.
StatusesInv ==
    /\ \A i \in 1 .. Len(toClient) : StatusOf(toClient[i].info, toClient[i].cause)
    /\ StatusOf(call.status, call.cause)

CallsInv == Inv /\ RequestsInv /\ StatusesInv

\* A call that goes on or returns keeps its parameters.
GoesOn == SameParameters(call', call) /\ call'.id = call.id /\ (call'.pc = "sent" => call.pc = "sent")
LEMMA GoesOnFacts ==
    ASSUME GoesOn
    PROVE  /\ \A m : RequestOf(call, m) => RequestOf(call', m)
           /\ Admitted(call) => Admitted(call')
<1>1. Request(call', call'.id) = Request(call, call.id)
    BY DEF GoesOn, SameParameters, Request
<1> QED BY <1>1 DEF GoesOn, SameParameters, RequestOf, Admitted

\* An error of the client has its own code.
LEMMA CodeIsStatus ==
    ASSUME NEW e \in ClientErrors
    PROVE  StatusOf(ErrorCode[e], e)
<1>1. ErrorCode[e] \in Int /\ e # Ok
    BY CodeAssumption DEF ClientErrors, Ok
<1>2. 0 \in 0 .. MaxErrno /\ ErrorCode[e] = ErrorCode[e] - 0
    BY <1>1 DEF MaxErrno
<1> QED BY <1>1, <1>2 DEF StatusOf

LEMMA NoFailure == StatusOf(0, Ok)
BY DEF StatusOf

\* A call that begins.
LEMMA BegunArguments ==
    ASSUME NEW w, NEW pc, NEW id, NEW status, NEW cause, NEW c,
           c = Begun(w, pc, id, status, cause)
    PROVE  /\ SameParameters(c, w) /\ c.pc = pc /\ c.id = id /\ c.status = status
           /\ c.cause = cause
BY DEF Begun, SameParameters

LEMMA CallSays ==
    ASSUME CallsInv, call.id < MaxCalls, NEW w \in Callers[call.id + 1], procApiRequest(w)
    PROVE  RequestsInv' /\ StatusesInv'
<1> DEFINE e == SendError(w)
           n == call.id + 1
           m == Request(w, n)
<1>1. TypeOK /\ OfCalls /\ toAgent \in Seq(Messages) /\ agent.request \in Messages
      /\ call.id \in 0 .. MaxCalls /\ MaxCalls \in Nat
    BY BoundAssumption DEF CallsInv, Inv, TypeOK, CallRecords
<1>2. w \in Called /\ n \in 1 .. MaxCalls
    BY <1>1 DEF Called
<1>3. UNCHANGED <<toClient, agent>>
    BY DEF procApiRequest
<1>4. CASE e # Ok
    <2>1. /\ call' = Begun(w, "idle", call.id, ErrorCode[e], e) /\ UNCHANGED toAgent
        BY <1>4 DEF procApiRequest
    <2>2. e \in ClientErrors
        BY <1>2, <1>4, SendFacts
    <2> DEFINE id == call.id
               c == call'
               status == ErrorCode[e]
    <2>3. StatusOf(status, e)
        BY <2>2, CodeIsStatus
    <2> HIDE DEF id, c, status, e
    <2>4. c.pc = "idle" /\ c.status = status /\ c.cause = e
        BY <2>1, BegunArguments DEF id, c, status
    <2>5. RequestsInv'
        BY <2>4 DEF RequestsInv, RequestOf, Admitted, c
    <2> QED BY <1>3, <2>3, <2>4, <2>5 DEF CallsInv, StatusesInv, c
<1>5. CASE e = Ok
    <2>1. call' = Begun(w, "sent", n, 0, Ok) /\ Deliver(m)
        BY <1>5 DEF procApiRequest
    <2> DEFINE c == call'
    <2> HIDE DEF n, c
    <2>2. SameParameters(c, w) /\ c.pc = "sent" /\ c.id = n /\ c.status = 0 /\ c.cause = Ok
        BY <2>1, BegunArguments DEF c
    <2>3. m = Request(c, c.id)
        BY <2>2 DEF SameParameters, Request
    <2> HIDE DEF m
    <2>4. \A x : x.id \in Nat /\ x.id <= call.id => RequestOf(c, x)
        BY <1>1, <2>2 DEF RequestOf, n
    <2>5. \A i \in 1 .. Len(toAgent) : RequestOf(c, toAgent[i])
        <3>1. \A i \in 1 .. Len(toAgent) : toAgent[i].id \in Nat /\ toAgent[i].id <= call.id
            BY <1>1, ElementOfSeq, MessageFacts DEF OfCalls, OwnRow
        <3> QED BY <2>4, <3>1
    <2>6. RequestOf(c, agent.request)
        <3>1. agent.request.id \in Nat /\ agent.request.id <= call.id
            BY <1>1, MessageFacts DEF OfCalls, OwnRow
        <3> QED BY <2>4, <3>1
    <2>7. \A i \in 1 .. Len(toAgent') : RequestOf(c, toAgent'[i])
        <3>1. CASE toAgent' = toAgent
            BY <2>5, <3>1
        <3>2. CASE toAgent' = Append(toAgent, m)
            <4>1. /\ Len(toAgent) \in Nat /\ Len(toAgent') = Len(toAgent) + 1
                  /\ \A i \in 1 .. Len(toAgent) : toAgent'[i] = toAgent[i]
                  /\ toAgent'[Len(toAgent) + 1] = m
                <5>1. m \in Messages
                    BY <1>2, <1>5, SendFacts, RequestFacts DEF m
                <5> QED BY <1>1, <3>2, <5>1, AppendFacts
            <4>2. RequestOf(c, m)
                BY <2>3 DEF RequestOf
            <4> QED BY <2>5, <4>1, <4>2
        <3> QED BY <2>1, <3>1, <3>2 DEF Deliver
    <2>8. Admitted(c)
        BY <1>2, <1>5, <2>2 DEF Admitted
    <2>9. RequestsInv'
        BY <1>3, <2>6, <2>7, <2>8 DEF RequestsInv, c
    <2> QED BY <1>3, <2>2, <2>9, NoFailure DEF CallsInv, StatusesInv, c
<1> QED BY <1>4, <1>5

\* What the agent reads and replies.
LEMMA AgentReadsSays == ASSUME CallsInv, AgentReads PROVE RequestsInv' /\ StatusesInv'
<1>1. /\ toAgent # <<>> /\ toAgent' = Tail(toAgent) /\ toAgent \in Seq(Messages)
      /\ UNCHANGED <<call, toClient>>
    BY DEF AgentReads, CallsInv, Inv, TypeOK
<1>2. /\ Head(toAgent) = toAgent[1] /\ Len(toAgent) \in Nat /\ Len(toAgent) > 0
      /\ Len(toAgent') = Len(toAgent) - 1
      /\ \A i \in 1 .. Len(toAgent') : toAgent'[i] = toAgent[i + 1]
    BY <1>1, TailFacts
<1>3. agent'.request \in {agent.request, Head(toAgent)}
    <2> DEFINE m == Head(toAgent)
    <2>1. agent' = IF m.kind # (IF agent.state = "idle" THEN "request" ELSE "ack")
                   THEN [agent EXCEPT !.state = "ended"]
                   ELSE [state |-> "working",
                         request |-> IF agent.state = "idle" THEN m ELSE agent.request]
        BY DEF AgentReads
    <2> HIDE DEF m
    <2>2. agent \in [state : {"idle", "working", "reporting", "ended"}, request : Messages]
        BY DEF CallsInv, Inv, TypeOK
    <2>3. agent'.request \in {agent.request, m}
        BY <2>1, <2>2
    <2> QED BY <2>3 DEF m
<1>4. RequestOf(call, agent'.request)
    BY <1>2, <1>3 DEF CallsInv, RequestsInv
<1>5. \A i \in 1 .. Len(toAgent') : RequestOf(call, toAgent'[i])
    <2> SUFFICES ASSUME NEW i \in 1 .. Len(toAgent') PROVE RequestOf(call, toAgent'[i])
        OBVIOUS
    <2>1. i + 1 \in 1 .. Len(toAgent) /\ toAgent'[i] = toAgent[i + 1]
        BY <1>2
    <2> QED BY <2>1 DEF CallsInv, RequestsInv
<1> QED BY <1>1, <1>4, <1>5 DEF CallsInv, RequestsInv, StatusesInv

LEMMA AgentRepliesSays == ASSUME CallsInv, AgentReplies PROVE RequestsInv' /\ StatusesInv'
<1> DEFINE r == RcApiTable[agent.request.api]
           q == agent.request
<1>1. PICK s \in Statuses(r, q.id), present \in BOOLEAN :
        /\ toClient' = Append(toClient,
              [id |-> q.id, info |-> s.info, cause |-> s.cause,
               out |-> IF present THEN OutType(r) ELSE NULL, rError |-> s.info < 0])
        /\ agent' = [agent EXCEPT !.state = IF s.info = CollStat THEN "reporting" ELSE "idle"]
        /\ present => r.out # NULL
    BY DEF AgentReplies, Served
<1> DEFINE m == [id |-> q.id, info |-> s.info, cause |-> s.cause,
                 out |-> IF present THEN OutType(r) ELSE NULL, rError |-> s.info < 0]
<1>2. agent.state = "working" /\ UNCHANGED <<call, toAgent>>
    BY DEF AgentReplies
<1>3. /\ OfCalls /\ toClient \in Seq(Replies) /\ agent.request \in Messages
      /\ agent \in [state : {"idle", "working", "reporting", "ended"}, request : Messages]
    BY DEF CallsInv, Inv, TypeOK
<1>4. agent.request.api \in ApiTableNumbers /\ q.id \in 1 .. MaxCalls
    BY <1>2, <1>3, MessageFacts DEF OfCalls
<1>5. s \in [info : Int, cause : Causes] /\ StatusOf(s.info, s.cause)
    BY <1>4, StatusAssumption
<1>6. m \in Replies
    <2>1. (IF present THEN OutType(r) ELSE NULL) \in Results
        BY <1>1, <1>4 DEF Results, Returning
    <2>2. (s.info < 0) \in BOOLEAN
        OBVIOUS
    <2>3. s.info \in Int /\ s.cause \in Causes
        BY <1>5
    <2> QED BY <1>4, <2>1, <2>2, <2>3 DEF Replies
<1>7. StatusOf(m.info, m.cause) /\ toClient' = Append(toClient, m)
    BY <1>1, <1>5
<1> HIDE DEF m
<1>8. /\ Len(toClient) \in Nat /\ Len(toClient') = Len(toClient) + 1
      /\ \A i \in 1 .. Len(toClient) : toClient'[i] = toClient[i]
      /\ toClient'[Len(toClient) + 1] = m
    BY <1>3, <1>6, <1>7, AppendFacts
<1>9. \A i \in 1 .. Len(toClient') : StatusOf(toClient'[i].info, toClient'[i].cause)
    BY <1>7, <1>8 DEF CallsInv, StatusesInv
<1>10. agent'.request = agent.request
    BY <1>1, <1>3
<1> QED BY <1>2, <1>9, <1>10 DEF CallsInv, RequestsInv, StatusesInv

\* A call that returns, and one that reads a reply.
LEMMA ReturnSays ==
    ASSUME CallsInv, NEW status, NEW cause, Return(status, cause), StatusOf(status, cause),
           UNCHANGED <<toAgent, agent>>, toClient' = toClient \/ toClient' = <<>>
    PROVE  RequestsInv' /\ StatusesInv'
<1>1. call \in CallRecords
    BY DEF CallsInv, Inv, TypeOK
<1>2. GoesOn /\ call'.status = status /\ call'.cause = cause
    BY <1>1 DEF Return, CallRecords, GoesOn, SameParameters
<1>3. RequestsInv'
    BY <1>2, GoesOnFacts DEF CallsInv, RequestsInv
<1>4. \A i \in 1 .. Len(toClient') : StatusOf(toClient'[i].info, toClient'[i].cause)
    BY EmptySeq DEF CallsInv, StatusesInv
<1> QED BY <1>2, <1>3, <1>4 DEF StatusesInv

LEMMA ReadReplySays == ASSUME CallsInv, ReadReply PROVE RequestsInv' /\ StatusesInv'
<1> DEFINE reply == Head(toClient)
<1>1. /\ TypeOK /\ AbandonedInv /\ call.pc = "sent" /\ toClient # <<>>
      /\ toClient \in Seq(Replies) /\ toAgent \in Seq(Messages) /\ call \in CallRecords
      /\ UNCHANGED agent
    BY DEF ReadReply, CallsInv, Inv, TypeOK
<1>2. PICK unpacked \in BOOLEAN :
        LET s == ReplyStatus(reply, unpacked)
            read == [call EXCEPT !.answer = reply.id, !.status = s.status, !.cause = s.cause,
                                 !.got = IF unpacked /\ call.out # NULL THEN reply.out ELSE NULL]
        IN  /\ Taken(reply, call, s, unpacked)
            /\ \/ Acknowledge(read)
               \/ call' = [read EXCEPT !.pc = "idle"] /\ UNCHANGED toAgent
    BY Zenon DEF ReadReply
<1> DEFINE s == ReplyStatus(reply, unpacked)
           e == "SYS_SOCK_WRITE_ERR"
<1>3. /\ Len(toClient) \in Nat /\ Len(toClient) > 0 /\ toClient' = Tail(toClient)
      /\ Len(toClient') = Len(toClient) - 1 /\ reply = toClient[1]
      /\ \A i \in 1 .. Len(toClient') : toClient'[i] = toClient[i + 1]
    BY <1>1, <1>2, TailFacts DEF Taken
<1>4. StatusOf(s.status, s.cause)
    <2>1. StatusOf(reply.info, reply.cause)
        BY <1>3 DEF CallsInv, StatusesInv
    <2>2. StatusOf(ErrorCode["USER_PACKSTRUCT_INPUT_ERR"], "USER_PACKSTRUCT_INPUT_ERR")
        BY CodeIsStatus DEF ClientErrors
    <2> QED BY <2>1, <2>2 DEF ReplyStatus
<1>9. StatusOf(ErrorCode[e], e)
    BY CodeIsStatus DEF ClientErrors
<1> HIDE DEF s, reply
<1>5. /\ GoesOn /\ StatusOf(call'.status, call'.cause)
      /\ \/ call'.pc = "sent" /\ Deliver(Ack)
         \/ UNCHANGED toAgent
    <2>1. /\ GoesOn
          /\ \/ call'.status = s.status /\ call'.cause = s.cause
             \/ call'.status = ErrorCode[e] /\ call'.cause = e
          /\ \/ call'.pc = "sent" /\ Deliver(Ack)
             \/ UNCHANGED toAgent
        BY <1>1, <1>2 DEF Acknowledge, CallRecords, GoesOn, SameParameters, s
    <2> QED BY <1>4, <1>9, <2>1
<1>6. /\ \A i \in 1 .. Len(toAgent) : RequestOf(call', toAgent[i])
      /\ RequestOf(call', agent.request) /\ Admitted(call')
    BY <1>5, GoesOnFacts DEF CallsInv, RequestsInv
<1>7. \A i \in 1 .. Len(toAgent') : RequestOf(call', toAgent'[i])
    <2>1. CASE toAgent' = toAgent
        BY <1>6, <2>1
    <2>2. CASE toAgent' = Append(toAgent, Ack)
        <3>1. Ack \in Messages
            BY DEF Messages
        <3>2. /\ Len(toAgent) \in Nat /\ Len(toAgent') = Len(toAgent) + 1
              /\ \A i \in 1 .. Len(toAgent) : toAgent'[i] = toAgent[i]
              /\ toAgent'[Len(toAgent) + 1] = Ack
            BY <1>1, <2>2, <3>1, AppendFacts
        <3>3. RequestOf(call', Ack)
            <4>1. call'.id \in 1 .. MaxCalls
                BY <1>1, <1>5 DEF AbandonedInv, GoesOn
            <4> QED BY <4>1 DEF RequestOf, Ack
        <3> QED BY <1>6, <3>2, <3>3
    <2> QED BY <1>5, <2>1, <2>2 DEF Deliver
<1>8. \A i \in 1 .. Len(toClient') : StatusOf(toClient'[i].info, toClient'[i].cause)
    <2> SUFFICES ASSUME NEW i \in 1 .. Len(toClient')
                 PROVE  StatusOf(toClient'[i].info, toClient'[i].cause)
        OBVIOUS
    <2>1. i + 1 \in 1 .. Len(toClient) /\ toClient'[i] = toClient[i + 1]
        BY <1>3
    <2> QED BY <2>1 DEF CallsInv, StatusesInv
<1> QED BY <1>1, <1>4, <1>5, <1>6, <1>7, <1>8 DEF RequestsInv, StatusesInv

LEMMA ClientSays == ASSUME CallsInv, Client PROVE RequestsInv' /\ StatusesInv'
<1>1. \A e \in {"USER_API_INPUT_ERR", "SYS_INTERNAL_ERR"} : StatusOf(ErrorCode[e], e)
    BY CodeIsStatus DEF ClientErrors
<1>2. CASE RefuseOut
    BY <1>1, <1>2, ReturnSays DEF RefuseOut, Fail
<1>3. CASE ReadHeaderFails
    BY <1>1, <1>3, ReturnSays DEF ReadHeaderFails, Fail
<1>4. CASE ReadBodyFails
    BY <1>4, NoFailure, ReturnSays DEF ReadBodyFails
<1> QED BY <1>2, <1>3, <1>4, ReadReplySays DEF Client

LEMMA InitSays == Init => RequestsInv /\ StatusesInv
<1> SUFFICES ASSUME Init PROVE RequestsInv /\ StatusesInv
    OBVIOUS
<1>1. call = Begun(NoCall, "idle", 0, 0, Ok) /\ toAgent = <<>> /\ toClient = <<>>
    BY DEF Init
<1>2. call.pc = "idle" /\ call.status = 0 /\ call.cause = Ok
    BY <1>1, BegunArguments
<1> QED BY <1>1, <1>2, NoFailure, EmptySeq DEF RequestsInv, RequestOf, Admitted, StatusesInv

LEMMA NextSays == CallsInv /\ [Next]_vars => RequestsInv' /\ StatusesInv'
<1> SUFFICES ASSUME CallsInv, [Next]_vars PROVE RequestsInv' /\ StatusesInv'
    OBVIOUS
<1>1. ASSUME call.id < MaxCalls, NEW w \in Callers[call.id + 1], procApiRequest(w)
      PROVE  RequestsInv' /\ StatusesInv'
    BY <1>1, CallSays
<1>2. CASE UNCHANGED vars \/ AgentEnds
    <2>1. UNCHANGED <<call, toAgent, toClient>>
        BY <1>2 DEF AgentEnds, vars
    <2>2. agent'.request = agent.request
        BY <1>2 DEF AgentEnds, vars, CallsInv, Inv, TypeOK
    <2> QED BY <2>1, <2>2 DEF CallsInv, RequestsInv, StatusesInv
<1> QED BY <1>1, <1>2, ClientSays, AgentReadsSays, AgentRepliesSays DEF Next, Agent

\* What a call passes is what its program passed to it, wherever its request
\* is, and every status is that of its cause.
THEOREM CallsInvHolds == Spec => []CallsInv
<1>1. Init => CallsInv
    BY InitInv, InitSays DEF CallsInv
<1>2. CallsInv /\ [Next]_vars => CallsInv'
    BY NextKeeps, NextSays DEF CallsInv
<1> QED BY <1>1, <1>2, PTL DEF Spec

(* A wrapper's call, and any that procApiRequest is given whole, reaches   *)
(* the function of its row with all its parameters and no others, each of  *)
(* the type the function takes, whatever else is on the connection.        *)
THEOREM ArgumentsAreHanded == Spec => []ArgumentsReachHandler
<1>1. CallsInv => ArgumentsReachHandler
    <2> SUFFICES ASSUME CallsInv, agent.state = "working", call.pc = "sent",
                        agent.request.id = call.id, call.whole
                 PROVE  Handed(Received(agent.request, call)) = Handed(Served(agent.request).handler)
        BY DEF ArgumentsReachHandler
    <2> DEFINE m == agent.request
               r == RcApiTable[call.api]
    <2>1. m = Request(call, call.id)
        BY DEF CallsInv, RequestsInv, RequestOf
    <2>2. PICK w \in Called : SendError(w) = Ok /\ SameParameters(call, w)
        BY DEF CallsInv, RequestsInv, Admitted
    <2>3. /\ r.in = NULL => w.in = NULL
          /\ r.inBs > 0 <=> w.inBs # NULL
          /\ Handed(PassedBy(w)) = Handed(r.handler)
        BY <2>2, ParameterAssumption DEF SameParameters
    <2>4. m.api = call.api /\ m.in = call.in /\ m.bytes = BytesSent(r.inBs, call.inBs)
        BY <2>1, <2>2, <2>3 DEF Request, SameParameters
    <2>5. m.bytes <=> call.inBs # NULL
        BY <2>2, <2>3, <2>4 DEF BytesSent, SameParameters
    <2> DEFINE bs == IF m.bytes THEN "bytesBuf_t" ELSE NULL
               c == [call EXCEPT !.in = m.in, !.inBs = bs]
    <2>6. bs = NULL <=> w.inBs = NULL
        BY <2>2, <2>5, NullAssumption DEF SameParameters
    <2>7. /\ c.in = w.in /\ c.inBs = bs /\ c.out = w.out /\ c.outBs = w.outBs
        BY <2>2, <2>4 DEF SameParameters, CallsInv, Inv, TypeOK, CallRecords
    <2> HIDE DEF c, bs
    <2>8. PassedBy(c) = PassedBy(w)
        BY <2>6, <2>7 DEF PassedBy
    <2>9. Received(m, call) = PassedBy(c)
        BY DEF Received, c, bs
    <2>10. Served(m).handler = r.handler
        BY <2>4 DEF Served
    <2> QED BY <2>3, <2>8, <2>9, <2>10
<1> QED BY <1>1, CallsInvHolds, PTL
----------------------------------------------------------------------------
(* The names of errors *)

\* A code without its errno, of which there are fewer than a thousand.
Carries(v, code, errno) == code \in Int /\ code < 0 /\ errno \in 0 .. MaxErrno /\ v = code - errno
LEMMA WithoutErrno ==
    ASSUME NEW v, NEW code, NEW errno, Carries(v, code, errno)
    PROVE  /\ Truncated(v) \in Int
           /\ (Truncated(v) * 1000) % 1000 = 0
           /\ code % 1000 = 0 => Truncated(v) * 1000 = code
<1> DEFINE k == (-v) \div 1000
<1>1. v \in Int /\ v < 0 /\ -v \in Nat /\ errno \in 0 .. 999 /\ v = code - errno
      /\ code \in Int /\ code < 0
    BY DEF MaxErrno, Carries
<1>2. k \in Int /\ 1000 * k <= -v /\ -v < 1000 * k + 1000
    BY <1>1
<1>3. Truncated(v) = -k
    BY <1>1 DEF Truncated
<1>4. code % 1000 = 0 => \E n \in Int : code = 1000 * n
    BY <1>1
<1> HIDE DEF k
<1>5. code % 1000 = 0 => (-k) * 1000 = code
    <2> SUFFICES ASSUME code % 1000 = 0 PROVE (-k) * 1000 = code
        OBVIOUS
    <2>1. PICK n \in Int : code = 1000 * n
        BY <1>4
    <2>2. n = -k
        BY <1>1, <1>2, <2>1
    <2> QED BY <1>2, <2>1, <2>2
<1>6. ((-k) * 1000) % 1000 = 0
    BY <1>2
<1> QED BY <1>2, <1>3, <1>5, <1>6

\* The name of a code is that of the first error entered for it.
LEMMA FirstName ==
    ASSUME NEW v \in Int, NEW i \in 1 .. Len(Errors), Errors[i].code = Truncated(v) * 1000,
           \A j \in 1 .. i - 1 : Errors[j].code # Errors[i].code
    PROVE  rodsErrorName(v) = Errors[i].name
<1> DEFINE code == Truncated(v) * 1000
           I == {j \in 1 .. Len(Errors) : Errors[j].code = code}
<1>1. Len(Errors) \in Nat
    BY TableAssumption, LenProperties
<1>2. i \in I /\ \A j \in I : i <= j
    BY <1>1
<1>3. \A k \in I : (\A j \in I : k <= j) => k = i
    BY <1>1, <1>2
<1> HIDE DEF I
<1>4. Min(I) = i
    BY <1>2, <1>3 DEF Min
<1>5. SelectInSeq(Errors, LAMBDA e : e.code = code) = i
    BY <1>2, <1>4 DEF SelectInSeq, I
<1>6. i # 0
    BY <1>1
<1> QED BY <1>5, <1>6 DEF rodsErrorName

\* A set of numbers has a least one.
LEMMA LeastOfSet == ASSUME NEW I \in SUBSET Nat, I # {} PROVE \E i \in I : \A j \in I : i <= j
<1> DEFINE R == OpToRel(<, Nat)
<1>1. PICK i \in I : \A j \in I : <<j, i>> \notin R
    <2>1. IsWellFoundedOn(R, Nat)
        BY NatLessThanWellFounded
    <2> HIDE DEF R
    <2> QED BY <2>1, WFMin
<1>2. \A j \in I : ~(j < i)
    BY <1>1 DEF OpToRel
<1> QED BY <1>2

\* The code of a name is that of an error entered under it.
LEMMA CodeOfName ==
    ASSUME NEW e \in DOMAIN ErrorCode
    PROVE  \E i \in 1 .. Len(Errors) : Errors[i].name = e /\ Errors[i].code = ErrorCode[e]
<1> DEFINE I == {j \in 1 .. Len(Errors) : Errors[j].name = e}
           n == SelectInSeq(Errors, LAMBDA r : r.name = e)
<1>1. Len(Errors) \in Nat /\ DOMAIN Errors = 1 .. Len(Errors)
    BY TableAssumption, LenProperties
<1>2. ErrorCode[e] = Errors[n].code /\ I # {} /\ I \in SUBSET Nat
    BY <1>1 DEF ErrorCode
<1>3. n = Min(I)
    BY <1>2 DEF SelectInSeq
<1> HIDE DEF I, n
<1>4. \E i \in I : \A j \in I : i <= j
    BY <1>2, LeastOfSet
<1>5. n \in I
    BY <1>3, <1>4 DEF Min
<1> QED BY <1>2, <1>5 DEF I

\* It is one of the table, or none.
LEMMA SomeName ==
    ASSUME NEW v \in Int, (Truncated(v) * 1000) % 1000 = 0
    PROVE  rodsErrorName(v) \notin Misnamed
<1> DEFINE code == Truncated(v) * 1000
           I == {j \in 1 .. Len(Errors) : Errors[j].code = code}
<1>1. Len(Errors) \in Nat
    BY TableAssumption, LenProperties
<1>2. CASE I = {}
    <2>1. SelectInSeq(Errors, LAMBDA e : e.code = code) = 0
        BY <1>2 DEF SelectInSeq
    <2>2. rodsErrorName(v) = "Unknown iRODS error"
        BY <2>1 DEF rodsErrorName
    <2> QED BY <2>2 DEF Misnamed
<1>3. CASE I # {}
    <2>1. I \in SUBSET Nat
        OBVIOUS
    <2>2. PICK i \in I : \A j \in I : i <= j
        <3> HIDE DEF I
        <3> QED BY <1>3, <2>1, LeastOfSet
    <2>3. i \in 1 .. Len(Errors) /\ Errors[i].code = code
        OBVIOUS
    <2>4. \A j \in 1 .. i - 1 : Errors[j].code # code
        BY <1>1, <2>2
    <2>5. Errors[i].name \notin Misnamed
        BY <2>3, <2>4, TableAssumption
    <2> QED BY <2>3, <2>4, <2>5, FirstName
<1> QED BY <1>2, <1>3

\* A status is named by its error, save for the misnamed ones.
LEMMA NameOfStatus ==
    ASSUME NEW e \in DOMAIN ErrorCode, NEW errno \in 0 .. MaxErrno
    PROVE  rodsErrorName(ErrorCode[e] - errno) = e <=> e \notin Misnamed
<1> DEFINE code == ErrorCode[e]
           v == code - errno
<1>1. code \in Int /\ code < 0
    BY CodeAssumption
<1>2. PICK i \in 1 .. Len(Errors) : Errors[i].name = e /\ Errors[i].code = code
    BY CodeOfName
<1> HIDE DEF code
<1>3. /\ v \in Int /\ (Truncated(v) * 1000) % 1000 = 0
      /\ code % 1000 = 0 => Truncated(v) * 1000 = code
    <2>1. v \in Int /\ Carries(v, code, errno)
        BY <1>1 DEF MaxErrno, Carries
    <2> HIDE DEF v
    <2> QED BY <2>1, WithoutErrno
<1> HIDE DEF v
<1>4. CASE e \notin Misnamed
    <2>1. code % 1000 = 0 /\ \A j \in 1 .. i - 1 : Errors[j].code # Errors[i].code
        BY <1>2, <1>4, TableAssumption
    <2>2. Errors[i].code = Truncated(v) * 1000
        BY <1>2, <1>3, <2>1
    <2>3. rodsErrorName(v) = Errors[i].name
        BY <1>3, <2>1, <2>2, FirstName
    <2> QED BY <1>2, <1>4, <2>3 DEF v, code
<1>5. CASE e \in Misnamed
    <2>1. rodsErrorName(v) \notin Misnamed
        BY <1>3, SomeName
    <2> QED BY <1>5, <2>1 DEF v, code
<1> QED BY <1>4, <1>5

(* What rodsErrorName makes of a status that a call returns is the error   *)
(* that was raised, whatever errno it carries, but for the six.            *)
THEOREM StatusesAreNamed == Spec => []StatusNamed
<1>1. CallsInv => StatusNamed
    <2> SUFFICES ASSUME CallsInv, call.status < 0
                 PROVE  rodsErrorName(call.status) = call.cause <=> call.cause \notin Misnamed
        BY DEF StatusNamed
    <2>1. call.status \in Int /\ call.cause \in Causes /\ StatusOf(call.status, call.cause)
        BY DEF CallsInv, Inv, TypeOK, CallRecords, StatusesInv
    <2>2. PICK errno \in 0 .. MaxErrno : call.cause # Ok /\ call.status = ErrorCode[call.cause] - errno
        BY <2>1 DEF StatusOf
    <2>3. call.cause \in DOMAIN ErrorCode
        BY <2>1, <2>2 DEF Causes
    <2> QED BY <2>2, <2>3, NameOfStatus
<1> QED BY <1>1, CallsInvHolds, PTL
=============================================================================
