------------------------ MODULE ConnectionSetupProofs ------------------------
(***************************************************************************)
(* Proofs about ConnectionSetup, for any number of threads, descriptors    *)
(* and connect attempts.                                                   *)
(***************************************************************************)
EXTENDS ConnectionSetup, WellFoundedInduction, TLAPS

Steps == Exchanging \cup {"idle", "connect", "start", "reconnThr", "login", "ready", "failed", "crashed"}
Attempts == 1..2
Failures == 0..(MaxConnRetryCnt - 1)
CommType == [next : Steps, attempt : Attempts, failures : Failures,
             sock : Fds \cup {NoFd}, results : {NoResult, UseSSL, UseTCP},
             obj : {"tcp", "ssl"}, version : {"none", "ok", "refused"},
             loading : BOOLEAN]
SocketType == [asked : BOOLEAN, uses : {UseSSL, UseTCP}, tls : BOOLEAN]

\* A thread has a socket exactly from the connect to the end, and loads a
\* plugin only where it needs one.
Stepped(c) ==
    /\ comm[c].sock # NoFd <=> comm[c].next \in Exchanging \cup {"start", "reconnThr", "login", "ready", "crashed"}
    /\ comm[c].loading => comm[c].next \in Exchanging \cup {"start", "login"}

\* A result is that of the two policies, it is there when a negotiation has
\* ended, and only a second try can have a TLS object before.
Agreed(c) ==
    /\ comm[c].next = "answer" \/ comm[c].results # NoResult =>
          env.token = "exact" /\ env.server # NoResult
    /\ comm[c].results # NoResult => comm[c].results = Negotiate(env.client, env.server)
    /\ comm[c].next \in {"version", "start", "reconnThr", "login", "ready"} /\ WaitsForServer =>
          comm[c].results # NoResult
    /\ comm[c].obj = "ssl" => comm[c].results = UseSSL
    /\ comm[c].next \in {"negotiate", "answer", "version"} => comm[c].obj = "tcp"

\* What the server was asked and uses, step by step.
Served(c) ==
    LET socket == net[comm[c].sock]
        at == comm[c].next
    IN  /\ at \in Exchanging \cup {"start"} => ~socket.tls
        /\ at = "negotiate" /\ socket.asked => env.token = "exact"
        /\ at \in {"startup", "negotiate", "answer"} => socket.uses = UseTCP
        /\ at \in {"version", "start", "reconnThr", "login", "ready"} =>
              (socket.uses = UseSSL <=> comm[c].results = UseSSL)
        /\ at \in {"reconnThr", "login", "ready"} => (socket.tls <=> comm[c].results = UseSSL)

\* What a thread has looked up is in the tables; the others begin when the
\* first has looked up everything, and only the first ever loads anything.
Loaded(c) ==
    /\ comm[c].next \in {"negotiate", "answer", "version", "start", "reconnThr", "login", "ready"} => "tcp" \in plugins
    /\ comm[c].next \in {"reconnThr", "login", "ready"} => NetworkObject(comm[c].results) \in plugins
    /\ comm[c].next = "ready" => "auth" \in plugins
    /\ c # First /\ comm[c].next # "idle" => comm[First].next = "ready"
    /\ comm[c].loading => c = First

Inv ==
    /\ TypeOK /\ SocketsAccountedFor
    /\ \A c \in Conns : Stepped(c) /\ Agreed(c) /\ Served(c) /\ Loaded(c)

-----------------------------------------------------------------------------
(* Facts about the operators *)

\* The system gives out a descriptor that is not open.
LEMMA NewFdUnused == Unused # {} => NewFd \in Unused
<1> SUFFICES ASSUME Unused # {} PROVE NewFd \in Unused
    OBVIOUS
<1>1. Unused \subseteq Nat
    BY SetupAssumption DEF Unused
<1>2. PICK f \in Unused : \A g \in Unused : <<g, f>> \notin OpToRel(<, Nat)
    BY <1>1, WFMin, NatLessThanWellFounded, Zenon
<1>3. \A g \in Unused : ~(g < f)
    BY <1>1, <1>2, Zenon DEF OpToRel
<1>4. \A g \in Unused : f <= g
    BY <1>1, <1>3, SMT
<1> QED BY <1>4, Zenon DEF NewFd

\* What two policies agree on: TLS where one requires it, none where one
\* refuses it.
LEMMA Agreement ==
    ASSUME NEW p, NEW q, NEW result, result = Negotiate(p, q)
    PROVE  /\ result \in {UseSSL, UseTCP, Failure}
           /\ result # Failure /\ {p, q} \cap {Require, Unknown} # {} => result = UseSSL
           /\ result # Failure /\ Refuse \in {p, q} => result = UseTCP
<1> DEFINE Index(s, i) == /\ i \in 1..3
                          /\ s \in {Require, Unknown} => i = 1
                          /\ s = Refuse => i = 3
<1>1. ASSUME NEW s PROVE Index(s, PolicyIndex(s))
    <2>1. CASE s = DontCare
        <3>1. PolicyIndex(s) = 2
            BY <2>1, Zenon DEF PolicyIndex, DontCare, Refuse
        <3> QED BY <2>1, <3>1 DEF Require, Unknown, Refuse, DontCare
    <2>2. CASE s = Refuse
        <3>1. PolicyIndex(s) = 3
            BY <2>2, Zenon DEF PolicyIndex, DontCare, Refuse
        <3> QED BY <2>2, <3>1 DEF Require, Unknown, Refuse
    <2>3. CASE s # DontCare /\ s # Refuse
        <3>1. PolicyIndex(s) = 1
            BY <2>3, Zenon DEF PolicyIndex
        <3> QED BY <2>3, <3>1
    <2> QED BY <2>1, <2>2, <2>3
<1>2. \A i, j \in 1..3 :
        LET n == NegotiationTable[i][j]
        IN  /\ n \in {UseSSL, UseTCP, Failure}
            /\ n # Failure /\ 1 \in {i, j} => n = UseSSL
            /\ n # Failure /\ 3 \in {i, j} => n = UseTCP
    <2> SUFFICES ASSUME NEW i \in 1..3, NEW j \in 1..3
                 PROVE LET n == NegotiationTable[i][j]
                       IN  /\ n \in {UseSSL, UseTCP, Failure}
                           /\ n # Failure /\ 1 \in {i, j} => n = UseSSL
                           /\ n # Failure /\ 3 \in {i, j} => n = UseTCP
        OBVIOUS
    <2>1. (i = 1 \/ i = 2 \/ i = 3) /\ (j = 1 \/ j = 2 \/ j = 3)
        OBVIOUS
    <2> QED BY <2>1 DEF NegotiationTable, UseSSL, UseTCP, Failure
<1>3. result = NegotiationTable[PolicyIndex(p)][PolicyIndex(q)]
    BY DEF Negotiate
<1> QED BY <1>1, <1>2, <1>3

\* The parts of the type of an rcComm_t.
LEMMA TypeFacts ==
    /\ 0 \in Failures /\ {1, 2} \subseteq Attempts
    /\ Exchanging \cup {"idle", "connect", "start", "reconnThr", "login", "ready", "failed", "crashed"} \subseteq Steps
    /\ TypeOK => comm \in [Conns -> CommType]
    /\ NewComm \in CommType
    /\ [NewComm EXCEPT !.next = "failed"] \in CommType
<1>1. /\ 0 \in Failures /\ {1, 2} \subseteq Attempts
      /\ Exchanging \cup {"idle", "connect", "start", "reconnThr", "login", "ready", "failed", "crashed"} \subseteq Steps
    BY SetupAssumption DEF Failures, Attempts, Steps
<1>2. TypeOK => comm \in [Conns -> CommType]
    BY DEF TypeOK, CommType, Failures, Attempts, Steps
<1>3. NewComm \in CommType
    BY <1>1 DEF NewComm, CommType
<1>4. [NewComm EXCEPT !.next = "failed"] \in CommType
    BY <1>1, <1>3 DEF CommType
<1> QED BY <1>1, <1>2, <1>3, <1>4

\* A return with an error leaves a thread without a socket and without a
\* plugin to load, ready to try again or at its end.
Returned(c) ==
    /\ comm' \in [Conns -> CommType]
    /\ \A d \in Conns \ {c} : comm'[d] = comm[d]
    /\ comm'[c].sock = NoFd
    /\ comm'[c].next \in {"connect", "failed"}
    /\ ~comm'[c].loading
    /\ \/ comm'[c].results = comm[c].results /\ comm'[c].obj = comm[c].obj
       \/ comm'[c].results = NoResult /\ comm'[c].obj = "tcp"

\* What the way out of connectToRhost leaves in the rcComm_t.
LEMMA ReturnReturns ==
    ASSUME TypeOK, NEW c \in Conns, NEW status, NEW v \in {"none", "ok", "refused"}
    PROVE  /\ ReturnWith(c, [comm[c] EXCEPT !.version = v], status) => Returned(c)
           /\ Return(c, status) => Returned(c)
           /\ comm' = [comm EXCEPT ![c] = [NewComm EXCEPT !.next = "failed"]] => Returned(c)
<1>1. comm \in [Conns -> CommType]
    BY TypeFacts
<1> DEFINE failed == [NewComm EXCEPT !.next = "failed"]
<1>2. ASSUME comm' = [comm EXCEPT ![c] = failed]
      PROVE  Returned(c)
    <2>1. /\ failed \in CommType
          /\ failed.next = "failed" /\ failed.sock = NoFd /\ failed.loading = FALSE
          /\ failed.results = NoResult /\ failed.obj = "tcp"
        BY TypeFacts DEF NewComm
    <2> HIDE DEF failed
    <2>2. /\ comm' \in [Conns -> CommType]
          /\ \A d \in Conns \ {c} : comm'[d] = comm[d]
          /\ comm'[c] = failed
        BY <1>1, <1>2, <2>1
    <2> QED BY <2>1, <2>2 DEF Returned
<1>3. ASSUME NEW r \in CommType, r.results = comm[c].results, r.obj = comm[c].obj,
             ReturnWith(c, r, status)
      PROVE Returned(c)
    <2> DEFINE again == [r EXCEPT !.next = "connect", !.attempt = 2, !.failures = 0,
                                  !.sock = NoFd, !.loading = FALSE]
    <2>1. again \in CommType
        BY TypeFacts DEF CommType
    <2>2. /\ again.next = "connect" /\ again.sock = NoFd /\ again.loading = FALSE
          /\ again.results = r.results /\ again.obj = r.obj
        BY DEF CommType
    <2>3. comm' = [comm EXCEPT ![c] = again] \/ comm' = [comm EXCEPT ![c] = failed]
        BY <1>3 DEF ReturnWith
    <2> HIDE DEF again
    <2>4. CASE comm' = [comm EXCEPT ![c] = again]
        <3>1. /\ comm' \in [Conns -> CommType]
              /\ \A d \in Conns \ {c} : comm'[d] = comm[d]
              /\ comm'[c] = again
            BY <1>1, <2>1, <2>4
        <3> QED BY <1>3, <2>2, <3>1 DEF Returned
    <2> QED BY <1>2, <2>3, <2>4
<1>4. ASSUME ReturnWith(c, [comm[c] EXCEPT !.version = v], status)
      PROVE  Returned(c)
    <2> DEFINE r == [comm[c] EXCEPT !.version = v]
    <2>1. r \in CommType /\ r.results = comm[c].results /\ r.obj = comm[c].obj
        BY <1>1 DEF CommType
    <2> QED BY <1>3, <1>4, <2>1
<1>5. Return(c, status) => Returned(c)
    BY <1>1, <1>3 DEF Return
<1> QED BY <1>2, <1>4, <1>5

\* What a step makes of the part of the rcComm_t that the invariant is about.
Becomes(c, next, sock, results, obj, loading) ==
    /\ comm' \in [Conns -> CommType]
    /\ \A d \in Conns \ {c} : comm'[d] = comm[d]
    /\ comm'[c].next = next /\ comm'[c].sock = sock
    /\ comm'[c].results = results /\ comm'[c].obj = obj
    /\ comm'[c].loading = loading

\* What a step that goes on leaves in the rcComm_t.
LEMMA GotoBecomes ==
    ASSUME TypeOK, NEW c \in Conns, NEW step \in Steps, Goto(c, step)
    PROVE  Becomes(c, step, comm[c].sock, comm[c].results, comm[c].obj, comm[c].loading)
<1>1. comm \in [Conns -> CommType]
    BY TypeFacts
<1>2. comm' = [comm EXCEPT ![c].next = step]
    BY DEF Goto
<1> QED BY <1>1, <1>2 DEF Becomes, CommType

-----------------------------------------------------------------------------
(* The other threads *)

\* A step of c leaves what the invariant says of the others as it was, if it
\* leaves their sockets alone, takes nothing out of the tables, and the
\* first does not step back from the end.
LEMMA OthersKept ==
    ASSUME Inv, NEW c \in Conns, comm[c].next # "ready",
           \A d \in Conns \ {c} : comm'[d] = comm[d],
           \A d \in HasSocket \ {c} : net'[comm[d].sock] = net[comm[d].sock],
           env' = env, plugins \subseteq plugins'
    PROVE  \A d \in Conns \ {c} : Stepped(d)' /\ Agreed(d)' /\ Served(d)' /\ Loaded(d)'
<1> SUFFICES ASSUME NEW d \in Conns \ {c}
             PROVE  Stepped(d)' /\ Agreed(d)' /\ Served(d)' /\ Loaded(d)'
    OBVIOUS
<1>1. comm'[d] = comm[d] /\ Stepped(d) /\ Agreed(d) /\ Served(d) /\ Loaded(d)
    BY DEF Inv
<1>2. Stepped(d)'
    BY <1>1 DEF Stepped
<1>3. Agreed(d)'
    BY <1>1 DEF Agreed, WaitsForServer
<1>4. Served(d)'
    <2>1. CASE d \in HasSocket
        BY <1>1, <2>1 DEF Served
    <2>2. CASE d \notin HasSocket
        BY <1>1, <2>2 DEF Served, HasSocket, Stepped, Exchanging
    <2> QED BY <2>1, <2>2
<1>5. Loaded(d)'
    <2>1. comm[First].next = "ready" => comm'[First].next = "ready"
        BY SetupAssumption
    <2> QED BY <1>1, <2>1 DEF Loaded
<1> QED BY <1>2, <1>3, <1>4, <1>5

-----------------------------------------------------------------------------
(* The ways out *)

UnderWay == Exchanging \cup {"connect", "start", "reconnThr", "login"}

\* However a try ends, its thread is as it must be.
LEMMA OwnKeptByReturn ==
    ASSUME Inv, NEW c \in Conns, comm[c].next \in UnderWay, Returned(c),
           env' = env, plugins' = plugins
    PROVE  Stepped(c)' /\ Agreed(c)' /\ Served(c)' /\ Loaded(c)'
<1>1. Stepped(c) /\ Agreed(c) /\ Loaded(c)
    BY DEF Inv
<1>2. Stepped(c)'
    BY DEF Returned, Stepped, Exchanging
<1>3. Agreed(c)'
    BY <1>1 DEF Returned, Agreed
<1>4. Served(c)'
    BY DEF Returned, Served, Exchanging
<1>5. Loaded(c)'
    <2>1. comm[c].next # "idle"
        BY DEF UnderWay, Exchanging
    <2>2. c # First => comm'[First] = comm[First]
        BY SetupAssumption DEF Returned
    <2> QED BY <1>1, <2>1, <2>2 DEF Returned, Loaded
<1> QED BY <1>2, <1>3, <1>4, <1>5

\* The types and the invariants of all threads but the sockets, in one place.
LEMMA KeptByReturn ==
    ASSUME Inv, NEW c \in Conns, comm[c].next \in UnderWay, Returned(c),
           env' = env, plugins' = plugins, abandoned' \subseteq Fds,
           DOMAIN net' \subseteq Fds, net' \in [DOMAIN net' -> SocketType],
           \A d \in HasSocket \ {c} : net'[comm[d].sock] = net[comm[d].sock],
           SocketsAccountedFor'
    PROVE  Inv'
<1>1. TypeOK'
    BY DEF Inv, TypeOK, Returned, CommType, SocketType, Steps, Attempts, Failures
<1>2. comm[c].next # "ready"
    BY DEF UnderWay, Exchanging
<1>3. \A d \in Conns \ {c} : Stepped(d)' /\ Agreed(d)' /\ Served(d)' /\ Loaded(d)'
    BY <1>2, OthersKept DEF Returned
<1>4. Stepped(c)' /\ Agreed(c)' /\ Served(c)' /\ Loaded(c)'
    BY OwnKeptByReturn
<1> QED BY <1>1, <1>3, <1>4 DEF Inv

\* No socket was there to close.
LEMMA ReturnWithoutSocket ==
    ASSUME Inv, NEW c \in Conns, comm[c].next = "connect", Returned(c),
           UNCHANGED <<env, net, abandoned, plugins>>
    PROVE  Inv'
<1>1. HasSocket' = HasSocket
    <2>1. comm[c].sock = NoFd
        BY DEF Inv, Stepped, Exchanging
    <2> QED BY <2>1 DEF HasSocket, Returned
<1>2. c \notin HasSocket
    BY DEF Inv, Stepped, Exchanging, HasSocket
<1>3. SocketsAccountedFor'
    BY <1>1, <1>2 DEF Inv, SocketsAccountedFor, Returned, HasSocket
<1>4. /\ DOMAIN net' \subseteq Fds /\ net' \in [DOMAIN net' -> SocketType]
      /\ abandoned' \subseteq Fds
    BY DEF Inv, TypeOK, SocketType
<1> QED BY <1>3, <1>4, KeptByReturn DEF UnderWay

\* The socket is closed.
LEMMA ReturnAndClose ==
    ASSUME Inv, NEW c \in Conns, comm[c].next \in Exchanging \cup {"start", "reconnThr", "login"}, Returned(c),
           net' = Closed(c), UNCHANGED <<env, abandoned, plugins>>
    PROVE  Inv'
<1> DEFINE s == comm[c].sock
<1>1. c \in HasSocket
    BY DEF Inv, Stepped, HasSocket, Exchanging
<1>2. HasSocket' = HasSocket \ {c}
    BY DEF HasSocket, Returned
<1>3. /\ s \notin abandoned
      /\ \A d \in HasSocket \ {c} : comm[d].sock # s
    BY <1>1 DEF Inv, SocketsAccountedFor
<1>4. /\ DOMAIN net' = DOMAIN net \ {s}
      /\ \A f \in DOMAIN net \ {s} : net'[f] = net[f]
    BY DEF Closed, Restrict
<1>5. \A d \in HasSocket \ {c} : comm'[d] = comm[d] /\ comm[d].sock \in DOMAIN net \ {s}
    BY <1>3 DEF Inv, SocketsAccountedFor, HasSocket, Returned
<1>6. SocketsAccountedFor'
    <2>1. DOMAIN net = {comm[d].sock : d \in HasSocket} \cup abandoned
        BY DEF Inv, SocketsAccountedFor
    <2>2. DOMAIN net' = {comm'[d].sock : d \in HasSocket \ {c}} \cup abandoned
        BY <1>3, <1>4, <1>5, <2>1
    <2>3. \A d \in HasSocket \ {c} :
            /\ comm'[d].sock \notin abandoned
            /\ \A e \in (HasSocket \ {c}) \ {d} : comm'[e].sock # comm'[d].sock
        BY <1>5 DEF Inv, SocketsAccountedFor
    <2> QED BY <1>2, <2>2, <2>3 DEF SocketsAccountedFor
<1>7. /\ DOMAIN net' \subseteq Fds /\ net' \in [DOMAIN net' -> SocketType]
      /\ abandoned' \subseteq Fds
    <2>1. DOMAIN net \subseteq Fds /\ net \in [DOMAIN net -> SocketType] /\ abandoned \subseteq Fds
        BY DEF Inv, TypeOK, SocketType
    <2>2. net' = [f \in DOMAIN net \ {s} |-> net[f]]
        BY DEF Closed, Restrict
    <2> QED BY <1>4, <2>1, <2>2
<1>8. \A d \in HasSocket \ {c} : net'[comm[d].sock] = net[comm[d].sock]
    BY <1>4, <1>5
<1> QED BY <1>6, <1>7, <1>8, KeptByReturn DEF UnderWay

\* The socket is left open, and nobody's.
LEMMA ReturnAndAbandon ==
    ASSUME Inv, NEW c \in Conns, comm[c].next \in Exchanging \cup {"start", "reconnThr", "login"}, Returned(c),
           net' = [net EXCEPT ![comm[c].sock] = NewSocket],
           abandoned' = abandoned \cup {comm[c].sock}, UNCHANGED <<env, plugins>>
    PROVE  Inv'
<1> DEFINE s == comm[c].sock
<1>1. c \in HasSocket
    BY DEF Inv, Stepped, HasSocket, Exchanging
<1>2. HasSocket' = HasSocket \ {c}
    BY DEF HasSocket, Returned
<1>3. /\ s \in DOMAIN net
      /\ \A d \in HasSocket \ {c} : comm[d].sock # s
    BY <1>1 DEF Inv, SocketsAccountedFor
<1>4. \A d \in HasSocket \ {c} : comm'[d] = comm[d] /\ comm[d].sock \in DOMAIN net \ {s}
    BY <1>3 DEF Inv, SocketsAccountedFor, HasSocket, Returned
<1>5. SocketsAccountedFor'
    <2>1. DOMAIN net = {comm[d].sock : d \in HasSocket} \cup abandoned
        BY DEF Inv, SocketsAccountedFor
    <2>2. DOMAIN net' = {comm'[d].sock : d \in HasSocket \ {c}} \cup abandoned'
        BY <1>1, <1>3, <1>4, <2>1
    <2>3. \A d \in HasSocket \ {c} :
            /\ comm'[d].sock \notin abandoned'
            /\ \A e \in (HasSocket \ {c}) \ {d} : comm'[e].sock # comm'[d].sock
        BY <1>4 DEF Inv, SocketsAccountedFor
    <2> QED BY <1>2, <2>2, <2>3 DEF SocketsAccountedFor
<1>6. /\ DOMAIN net' \subseteq Fds /\ net' \in [DOMAIN net' -> SocketType]
      /\ abandoned' \subseteq Fds
    <2>1. DOMAIN net \subseteq Fds /\ net \in [DOMAIN net -> SocketType] /\ abandoned \subseteq Fds
        BY DEF Inv, TypeOK, SocketType
    <2>2. NewSocket \in SocketType
        BY DEF NewSocket, SocketType
    <2> QED BY <1>3, <2>1, <2>2
<1>7. \A d \in HasSocket \ {c} : net'[comm[d].sock] = net[comm[d].sock]
    BY <1>4
<1> QED BY <1>5, <1>6, <1>7, KeptByReturn DEF UnderWay

-----------------------------------------------------------------------------
(* The steps that go on *)

\* Which plugin a step looks up.
LEMMA NeededPlugin ==
    ASSUME NEW c
    PROVE  /\ comm[c].next \in Exchanging => Needed(c) = comm[c].obj
           /\ comm[c].next = "start" => Needed(c) = NetworkObject(comm[c].results)
           /\ comm[c].next = "login" => Needed(c) = "auth"
           /\ comm[c].next \notin Exchanging \cup {"start", "login"} => Needed(c) = "none"
<1>1. CASE comm[c].next \in Exchanging
    <2>1. comm[c].next # "start" /\ comm[c].next # "login"
        BY <1>1 DEF Exchanging
    <2> QED BY <1>1, <2>1, Zenon DEF Needed
<1>2. CASE comm[c].next = "start"
    <2>1. comm[c].next \notin Exchanging /\ comm[c].next # "login"
        BY <1>2 DEF Exchanging
    <2> QED BY <1>2, <2>1, Zenon DEF Needed
<1>3. CASE comm[c].next = "login"
    <2>1. comm[c].next \notin Exchanging /\ comm[c].next # "start"
        BY <1>3 DEF Exchanging
    <2> QED BY <1>3, <2>1, Zenon DEF Needed
<1>4. CASE comm[c].next \notin Exchanging \cup {"start", "login"}
    <2>1. comm[c].next \notin Exchanging /\ comm[c].next # "start" /\ comm[c].next # "login"
        BY <1>4
    <2> QED BY <2>1, Zenon DEF Needed
<1> QED BY <1>1, <1>2, <1>3, <1>4

\* A step that keeps the socket of its thread, if there is one.
LEMMA KeptWithSocket ==
    ASSUME Inv, NEW c \in Conns, comm[c].next # "ready",
           comm' \in [Conns -> CommType], \A d \in Conns \ {c} : comm'[d] = comm[d],
           comm'[c].sock = comm[c].sock,
           DOMAIN net' = DOMAIN net, net' \in [DOMAIN net -> SocketType],
           \A f \in DOMAIN net \ {comm[c].sock} : net'[f] = net[f],
           UNCHANGED <<env, abandoned>>,
           plugins \subseteq plugins', plugins' \subseteq {"tcp", "ssl", "auth"},
           Stepped(c)', Agreed(c)', Served(c)', Loaded(c)'
    PROVE  Inv'
<1>1. TypeOK'
    BY DEF Inv, TypeOK, CommType, SocketType, Steps, Attempts, Failures
<1>2. \A d \in Conns : comm'[d].sock = comm[d].sock
    OBVIOUS
<1>3. SocketsAccountedFor'
    <2>1. HasSocket' = HasSocket
        BY <1>2 DEF HasSocket
    <2>2. {comm'[d].sock : d \in HasSocket} = {comm[d].sock : d \in HasSocket}
        BY <1>2 DEF HasSocket
    <2>3. \A d \in HasSocket : d \in Conns
        BY DEF HasSocket
    <2> QED BY <1>2, <2>1, <2>2, <2>3 DEF Inv, SocketsAccountedFor
<1>4. \A d \in HasSocket \ {c} : net'[comm[d].sock] = net[comm[d].sock]
    <2> SUFFICES ASSUME NEW d \in HasSocket \ {c} PROVE net'[comm[d].sock] = net[comm[d].sock]
        OBVIOUS
    <2>1. comm[d].sock \in DOMAIN net
        BY DEF Inv, SocketsAccountedFor
    <2>2. comm[d].sock # comm[c].sock
        BY DEF Inv, SocketsAccountedFor, HasSocket
    <2> QED BY <2>1, <2>2
<1>5. \A d \in Conns \ {c} : Stepped(d)' /\ Agreed(d)' /\ Served(d)' /\ Loaded(d)'
    BY <1>4, OthersKept
<1> QED BY <1>1, <1>3, <1>5 DEF Inv

\* Those of them that change only the rcComm_t.
LEMMA KeptWithNet ==
    ASSUME Inv, NEW c \in Conns, comm[c].next # "ready",
           NEW next, NEW results, NEW obj, NEW loading,
           Becomes(c, next, comm[c].sock, results, obj, loading),
           UNCHANGED <<env, net, abandoned, plugins>>,
           Stepped(c)', Agreed(c)', Served(c)', Loaded(c)'
    PROVE  Inv'
<1>1. net \in [DOMAIN net -> SocketType] /\ plugins \subseteq {"tcp", "ssl", "auth"}
    BY DEF Inv, TypeOK, SocketType
<1> QED BY <1>1, KeptWithSocket DEF Becomes

\* A thread begins when it is the first, or the first has come to its end.
LEMMA BeginKeeps == ASSUME Inv, NEW c \in Conns, Begin(c) PROVE Inv'
<1>1. Becomes(c, "connect", comm[c].sock, comm[c].results, comm[c].obj, comm[c].loading)
    BY TypeFacts, GotoBecomes DEF Inv, Begin
<1>2. comm[c].next = "idle" /\ Stepped(c) /\ Agreed(c) /\ Loaded(c)
    BY DEF Begin, At, Inv
<1>3. Stepped(c)'
    BY <1>1, <1>2 DEF Becomes, Stepped, Exchanging
<1>4. Agreed(c)'
    BY <1>1, <1>2 DEF Becomes, Agreed, Begin
<1>5. Served(c)'
    BY <1>1 DEF Becomes, Served, Exchanging
<1>6. Loaded(c)'
    <2>1. c # First => comm'[First].next = "ready"
        BY <1>1, SetupAssumption DEF Begin, CanBegin, Becomes
    <2> QED BY <1>1, <1>2, <2>1 DEF Becomes, Loaded
<1> QED BY <1>1, <1>2, <1>3, <1>4, <1>5, <1>6, KeptWithNet DEF Begin

\* A connect that fails is counted.
LEMMA ConnectAttemptFailsKeeps == ASSUME Inv, NEW c \in Conns, ConnectAttemptFails(c) PROVE Inv'
<1>1. comm[c].next = "connect"
    BY DEF ConnectAttemptFails, At
<1>2. CASE comm[c].failures + 1 < MaxConnRetryCnt
    <2>1. comm \in [Conns -> CommType]
        BY TypeFacts DEF Inv
    <2>2. comm[c].failures + 1 \in Failures
        BY <1>2, <2>1, SetupAssumption DEF CommType, Failures
    <2>3. comm' = [comm EXCEPT ![c].failures = @ + 1]
        BY <1>2 DEF ConnectAttemptFails
    <2>4. Becomes(c, "connect", comm[c].sock, comm[c].results, comm[c].obj, comm[c].loading)
        BY <1>1, <2>1, <2>2, <2>3 DEF Becomes, CommType
    <2>5. Stepped(c)' /\ Agreed(c)' /\ Served(c)' /\ Loaded(c)'
        <3>1. Stepped(c) /\ Agreed(c) /\ Loaded(c)
            BY DEF Inv
        <3>2. Stepped(c)'
            BY <1>1, <2>4, <3>1 DEF Becomes, Stepped
        <3>3. Agreed(c)'
            BY <1>1, <2>4, <3>1 DEF Becomes, Agreed, ConnectAttemptFails
        <3>4. Served(c)'
            BY <2>4 DEF Becomes, Served, Exchanging
        <3>5. Loaded(c)'
            BY <1>1, <2>4, <3>1, SetupAssumption DEF Becomes, Loaded, ConnectAttemptFails
        <3> QED BY <3>2, <3>3, <3>4, <3>5
    <2> QED BY <1>1, <2>4, <2>5, KeptWithNet DEF ConnectAttemptFails
<1>3. CASE ~(comm[c].failures + 1 < MaxConnRetryCnt)
    BY <1>1, <1>3, ReturnReturns, ReturnWithoutSocket DEF ConnectAttemptFails, Inv
<1> QED BY <1>2, <1>3

\* The new socket is nobody else's.
LEMMA ConnectKeeps == ASSUME Inv, NEW c \in Conns, Connect(c) PROVE Inv'
<1> DEFINE s == NewFd
           o == NetworkObject(comm[c].results)
<1>1. s \in Fds \ DOMAIN net
    BY NewFdUnused DEF Connect, Unused
<1>2. comm \in [Conns -> CommType] /\ comm[c].next = "connect" /\ comm[c].sock = NoFd
    BY TypeFacts DEF Inv, Connect, At, Stepped, Exchanging
<1>3. o \in {"tcp", "ssl"} /\ (o = "ssl" => comm[c].results = UseSSL)
    BY DEF NetworkObject
<1> HIDE DEF s, o
<1>4. comm' = [comm EXCEPT ![c].sock = s, ![c].failures = 0, ![c].next = "startup", ![c].obj = o]
    BY DEF Connect, s, o
<1>5. Becomes(c, "startup", s, comm[c].results, o, comm[c].loading)
    BY <1>1, <1>2, <1>3, <1>4, TypeFacts DEF Becomes, CommType, Exchanging
<1>6. /\ DOMAIN net' = DOMAIN net \cup {s} /\ net'[s] = NewSocket
      /\ \A f \in DOMAIN net : net'[f] = net[f]
    BY <1>1 DEF Connect, s
<1>7. UNCHANGED <<env, abandoned, plugins>>
    BY DEF Connect
<1>8. HasSocket' = HasSocket \cup {c} /\ c \notin HasSocket
    BY <1>1, <1>2, <1>5, SetupAssumption DEF HasSocket, Becomes
<1>9. TypeOK'
    <2>1. net' \in [DOMAIN net' -> SocketType]
        BY <1>1, <1>6, Zenon DEF Inv, TypeOK, NewSocket, SocketType, Connect
    <2> QED BY <1>1, <1>5, <1>6, <1>7, <2>1 DEF Becomes, Inv, TypeOK, CommType, SocketType, Steps, Attempts, Failures
<1>10. \A d \in HasSocket : comm'[d] = comm[d] /\ comm[d].sock \in DOMAIN net /\ d # c
    BY <1>5, <1>8 DEF Inv, SocketsAccountedFor, HasSocket, Becomes
<1>11. SocketsAccountedFor'
    <2>1. DOMAIN net = {comm[d].sock : d \in HasSocket} \cup abandoned
        BY DEF Inv, SocketsAccountedFor
    <2>2. DOMAIN net' = {comm'[d].sock : d \in HasSocket \cup {c}} \cup abandoned
        BY <1>5, <1>6, <1>10, <2>1 DEF Becomes
    <2>3. \A d \in HasSocket \cup {c} :
            /\ comm'[d].sock \notin abandoned
            /\ \A e \in (HasSocket \cup {c}) \ {d} : comm'[e].sock # comm'[d].sock
        BY <1>1, <1>5, <1>10, <2>1 DEF Inv, SocketsAccountedFor, Becomes
    <2> QED BY <1>7, <1>8, <2>2, <2>3 DEF SocketsAccountedFor
<1>12. Stepped(c)' /\ Agreed(c)' /\ Served(c)' /\ Loaded(c)'
    <2>1. Stepped(c) /\ Agreed(c) /\ Loaded(c)
        BY DEF Inv
    <2>2. Stepped(c)'
        BY <1>1, <1>2, <1>5, <2>1, SetupAssumption DEF Becomes, Stepped, Exchanging
    <2>3. Agreed(c)'
        BY <1>2, <1>3, <1>5, <1>7, <2>1 DEF Becomes, Agreed
    <2>4. Served(c)'
        BY <1>5, <1>6 DEF Becomes, Served, Exchanging, NewSocket
    <2>5. Loaded(c)'
        BY <1>2, <1>5, <1>7, <2>1, SetupAssumption DEF Becomes, Loaded
    <2> QED BY <2>2, <2>3, <2>4, <2>5
<1>13. \A d \in Conns \ {c} : Stepped(d)' /\ Agreed(d)' /\ Served(d)' /\ Loaded(d)'
    <2>1. /\ \A d \in HasSocket \ {c} : net'[comm[d].sock] = net[comm[d].sock]
          /\ \A d \in Conns \ {c} : comm'[d] = comm[d]
          /\ comm[c].next # "ready"
        BY <1>2, <1>5, <1>6, <1>10 DEF Becomes
    <2> QED BY <1>7, <2>1, OthersKept
<1> QED BY <1>9, <1>11, <1>12, <1>13 DEF Inv

\* When the first has looked up everything, the others find what they need:
\* they can only need TLS if the first has needed it.
LEMMA OthersFind ==
    ASSUME Inv, NEW c \in Conns, c # First, comm[c].next \in Exchanging \cup {"start", "login"}
    PROVE  Needed(c) \in plugins
<1>1. comm[c].next # "idle"
    BY DEF Exchanging
<1>2. First \in Conns /\ comm[First].next = "ready" /\ Agreed(c) /\ Agreed(First) /\ Loaded(First)
    BY <1>1, SetupAssumption DEF Inv, Loaded
<1>3. /\ {"tcp", "auth"} \subseteq plugins
      /\ NetworkObject(comm[First].results) \in plugins
    BY <1>2 DEF Loaded
<1>4. comm[c].results = UseSSL => "ssl" \in plugins
    <2> SUFFICES ASSUME comm[c].results = UseSSL PROVE "ssl" \in plugins
        OBVIOUS
    <2>1. WaitsForServer /\ Negotiate(env.client, env.server) = UseSSL
        BY <1>2 DEF Agreed, WaitsForServer, UseSSL, NoResult
    <2>2. comm[First].results = UseSSL
        BY <1>2, <2>1 DEF Agreed
    <2> QED BY <1>3, <2>2 DEF NetworkObject
<1>5. comm \in [Conns -> CommType]
    BY TypeFacts DEF Inv
<1>6. CASE comm[c].next \in Exchanging
    <2>1. Needed(c) = comm[c].obj
        BY <1>6, NeededPlugin
    <2> QED BY <1>2, <1>3, <1>4, <1>5, <2>1 DEF Agreed, CommType
<1>7. CASE comm[c].next = "start"
    <2>1. Needed(c) = NetworkObject(comm[c].results)
        BY <1>7, NeededPlugin
    <2> QED BY <1>3, <1>4, <2>1 DEF NetworkObject
<1>8. CASE comm[c].next = "login"
    BY <1>3, <1>8, NeededPlugin
<1> QED BY <1>6, <1>7, <1>8

\* Only the first does not find a plugin.
LEMMA LoadPluginKeeps == ASSUME Inv, NEW c \in Conns, LoadPlugin(c) PROVE Inv'
<1>1. comm[c].next \in Exchanging \cup {"start", "login"}
    BY NeededPlugin DEF LoadPlugin, LooksUp
<1>2. c = First
    BY <1>1, OthersFind DEF LoadPlugin
<1>3. Becomes(c, comm[c].next, comm[c].sock, comm[c].results, comm[c].obj, TRUE)
    <2>1. comm \in [Conns -> CommType]
        BY TypeFacts DEF Inv
    <2>2. comm' = [comm EXCEPT ![c].loading = TRUE]
        BY DEF LoadPlugin
    <2> QED BY <2>1, <2>2 DEF Becomes, CommType
<1>4. Stepped(c) /\ Agreed(c) /\ Served(c) /\ Loaded(c) /\ comm[c].next # "ready"
    BY <1>1 DEF Inv, Exchanging
<1>5. Stepped(c)'
    BY <1>1, <1>3, <1>4 DEF Becomes, Stepped
<1>6. Agreed(c)' /\ Served(c)'
    BY <1>3, <1>4 DEF Becomes, Agreed, Served, LoadPlugin, WaitsForServer
<1>7. Loaded(c)'
    BY <1>2, <1>3, <1>4 DEF Becomes, Loaded, LoadPlugin
<1> QED BY <1>3, <1>4, <1>5, <1>6, <1>7, KeptWithNet DEF LoadPlugin

\* The tables of loaded plugins only grow.
LEMMA AddPluginKeeps == ASSUME Inv, NEW c \in Conns, AddPlugin(c) PROVE Inv'
<1>1. comm \in [Conns -> CommType] /\ Stepped(c) /\ Agreed(c) /\ Served(c) /\ Loaded(c)
    BY TypeFacts DEF Inv
<1>2. comm[c].next \in Exchanging \cup {"start", "login"} /\ comm[c].next # "ready"
    BY <1>1 DEF AddPlugin, Stepped, Exchanging
<1>3. Needed(c) \in {"tcp", "ssl", "auth"}
    <2>1. comm[c].obj \in {"tcp", "ssl"} /\ NetworkObject(comm[c].results) \in {"tcp", "ssl"}
        BY <1>1 DEF CommType, NetworkObject
    <2> QED BY <1>2, <2>1, NeededPlugin
<1>4. Becomes(c, comm[c].next, comm[c].sock, comm[c].results, comm[c].obj, FALSE)
    <2>1. comm' = [comm EXCEPT ![c].loading = FALSE]
        BY DEF AddPlugin
    <2> QED BY <1>1, <2>1 DEF Becomes, CommType
<1>5. Stepped(c)'
    BY <1>1, <1>4 DEF Becomes, Stepped
<1>6. Agreed(c)' /\ Served(c)'
    BY <1>1, <1>4 DEF Becomes, Agreed, Served, AddPlugin, WaitsForServer
<1>7. Loaded(c)'
    <2>1. comm'[First].next = comm[First].next
        BY <1>4, SetupAssumption DEF Becomes
    <2> QED BY <1>1, <1>4, <2>1 DEF Becomes, Loaded, AddPlugin
<1>8. /\ net \in [DOMAIN net -> SocketType]
      /\ plugins \subseteq plugins' /\ plugins' \subseteq {"tcp", "ssl", "auth"}
    BY <1>3 DEF Inv, TypeOK, SocketType, AddPlugin
<1> QED BY <1>2, <1>4, <1>5, <1>6, <1>7, <1>8, KeptWithSocket DEF AddPlugin, Becomes

\* What a step knows that calls a plugin.
LEMMA CalledFacts ==
    ASSUME Inv, NEW c \in Conns, NEW step \in Exchanging \cup {"start", "login"}, Called(c, step)
    PROVE  /\ comm \in [Conns -> CommType] /\ comm[c].next = step
           /\ Needed(c) \in plugins /\ comm[c].loading = FALSE
           /\ comm[c].sock \in DOMAIN net /\ net \in [DOMAIN net -> SocketType]
           /\ plugins \subseteq {"tcp", "ssl", "auth"}
           /\ Stepped(c) /\ Agreed(c) /\ Served(c) /\ Loaded(c)
<1>1. comm \in [Conns -> CommType]
    BY TypeFacts DEF Inv
<1>2. comm[c].next = step
    BY DEF Called, At
<1>3. comm[c].sock \in DOMAIN net
    BY <1>2 DEF Inv, Stepped, SocketsAccountedFor, HasSocket, Exchanging
<1>4. comm[c].loading = FALSE
    BY <1>1 DEF Called, CommType
<1> QED BY <1>1, <1>2, <1>3, <1>4 DEF Inv, TypeOK, SocketType, Called

\* A socket without TLS takes an object without TLS.
LEMMA SendStartupPackKeeps == ASSUME Inv, NEW c \in Conns, SendStartupPack(c) PROVE Inv'
<1> DEFINE s == comm[c].sock
           step == IF WaitsForServer THEN "negotiate" ELSE "version"
<1>1. /\ comm \in [Conns -> CommType] /\ comm[c].next = "startup"
      /\ Needed(c) \in plugins /\ comm[c].loading = FALSE
      /\ s \in DOMAIN net /\ net \in [DOMAIN net -> SocketType]
      /\ plugins \subseteq {"tcp", "ssl", "auth"}
      /\ Stepped(c) /\ Agreed(c) /\ Served(c) /\ Loaded(c)
    BY CalledFacts DEF SendStartupPack, Exchanging
<1>2. Becomes(c, step, s, comm[c].results, comm[c].obj, FALSE)
    BY <1>1, TypeFacts, GotoBecomes DEF SendStartupPack, Inv, Exchanging
<1>3. comm[c].obj = "tcp" /\ "tcp" \in plugins
    BY <1>1, NeededPlugin DEF SendStartupPack, Usable, Served, Exchanging, CommType
<1>4. /\ DOMAIN net' = DOMAIN net /\ net' \in [DOMAIN net -> SocketType]
      /\ \A f \in DOMAIN net \ {s} : net'[f] = net[f]
      /\ net'[s].asked => env.token = "exact"
      /\ net'[s].uses = net[s].uses /\ net'[s].tls = net[s].tls
    <2>1. net' = [net EXCEPT ![s].asked = AsksServer]
        BY DEF SendStartupPack
    <2>2. AsksServer \in BOOLEAN /\ (AsksServer => env.token = "exact")
        BY DEF AsksServer
    <2> QED BY <1>1, <2>1, <2>2 DEF SocketType
<1>5. env' = env /\ abandoned' = abandoned /\ plugins' = plugins
    BY DEF SendStartupPack
<1>6. Stepped(c)'
    BY <1>1, <1>2 DEF Becomes, Stepped, Exchanging
<1>7. Agreed(c)'
    BY <1>1, <1>2, <1>3, <1>5 DEF Becomes, Agreed, WaitsForServer
<1>8. Served(c)'
    BY <1>1, <1>2, <1>4, <1>5 DEF Becomes, Served, Exchanging, Agreed, WaitsForServer, UseSSL, UseTCP, NoResult
<1>9. Loaded(c)'
    BY <1>1, <1>2, <1>3, <1>5, SetupAssumption DEF Becomes, Loaded
<1> QED BY <1>1, <1>2, <1>4, <1>5, <1>6, <1>7, <1>8, <1>9, KeptWithSocket DEF Becomes

\* A server answers when it was asked, and has a policy.
LEMMA ReadNegotiationKeeps == ASSUME Inv, NEW c \in Conns, ReadNegotiation(c) PROVE Inv'
<1>1. /\ comm \in [Conns -> CommType] /\ comm[c].next = "negotiate"
      /\ Needed(c) \in plugins /\ comm[c].loading = FALSE
      /\ comm[c].sock \in DOMAIN net /\ net \in [DOMAIN net -> SocketType]
      /\ plugins \subseteq {"tcp", "ssl", "auth"}
      /\ Stepped(c) /\ Agreed(c) /\ Served(c) /\ Loaded(c)
    BY CalledFacts DEF ReadNegotiation, Exchanging
<1>2. Becomes(c, "answer", comm[c].sock, comm[c].results, comm[c].obj, FALSE)
    BY <1>1, TypeFacts, GotoBecomes DEF ReadNegotiation, Inv, Exchanging
<1>3. UNCHANGED <<env, net, abandoned, plugins>>
    BY DEF ReadNegotiation
<1>4. Stepped(c)'
    BY <1>1, <1>2 DEF Becomes, Stepped, Exchanging
<1>5. Agreed(c)'
    BY <1>1, <1>2, <1>3 DEF Becomes, Agreed, Served, ReadNegotiation
<1>6. Served(c)'
    BY <1>1, <1>2, <1>3 DEF Becomes, Served, Exchanging
<1>7. Loaded(c)'
    BY <1>1, <1>2, <1>3, SetupAssumption DEF Becomes, Loaded
<1> QED BY <1>1, <1>2, <1>3, <1>4, <1>5, <1>6, <1>7, KeptWithNet

\* The server then uses what the client keeps.
LEMMA AnswerNegotiationKeeps == ASSUME Inv, NEW c \in Conns, AnswerNegotiation(c) PROVE Inv'
<1> DEFINE s == comm[c].sock
           result == Negotiate(env.client, env.server)
<1>1. /\ comm \in [Conns -> CommType] /\ comm[c].next = "answer"
      /\ Needed(c) \in plugins /\ comm[c].loading = FALSE
      /\ comm[c].sock \in DOMAIN net /\ net \in [DOMAIN net -> SocketType]
      /\ plugins \subseteq {"tcp", "ssl", "auth"}
      /\ Stepped(c) /\ Agreed(c) /\ Served(c) /\ Loaded(c)
    BY CalledFacts DEF AnswerNegotiation, Exchanging
<1>2. result \in {UseSSL, UseTCP}
    BY Agreement DEF AnswerNegotiation
<1> HIDE DEF result
<1>3. Becomes(c, "version", s, result, comm[c].obj, FALSE)
    <2>1. comm' = [comm EXCEPT ![c].results = result, ![c].next = "version"]
        BY DEF AnswerNegotiation, result
    <2> QED BY <1>1, <1>2, <2>1, TypeFacts DEF Becomes, CommType, Exchanging
<1>4. /\ DOMAIN net' = DOMAIN net /\ net' \in [DOMAIN net -> SocketType]
      /\ \A f \in DOMAIN net \ {s} : net'[f] = net[f]
      /\ net'[s].uses = result /\ net'[s].tls = net[s].tls
    <2>1. net' = [net EXCEPT ![s].uses = result]
        BY DEF AnswerNegotiation, result
    <2> QED BY <1>1, <1>2, <2>1 DEF SocketType
<1>5. env' = env /\ abandoned' = abandoned /\ plugins' = plugins
    BY DEF AnswerNegotiation
<1>6. Stepped(c)'
    BY <1>1, <1>3 DEF Becomes, Stepped, Exchanging
<1>7. Agreed(c)'
    <2>1. result # NoResult
        BY <1>2 DEF UseSSL, UseTCP, NoResult
    <2>2. comm[c].results = NoResult \/ comm[c].results = result
        BY <1>1 DEF Agreed, result
    <2>3. comm[c].obj = "tcp"
        BY <1>1 DEF Agreed
    <2> QED BY <1>1, <1>3, <1>5, <2>1, <2>3 DEF Becomes, Agreed, result
<1>8. Served(c)'
    BY <1>1, <1>3, <1>4, <1>5 DEF Becomes, Served, Exchanging
<1>9. Loaded(c)'
    BY <1>1, <1>3, <1>5, SetupAssumption DEF Becomes, Loaded
<1> QED BY <1>1, <1>3, <1>4, <1>5, <1>6, <1>7, <1>8, <1>9, KeptWithSocket DEF Becomes

\* A version lets the start of TLS follow, ends the process, or is refused.
LEMMA ReadVersionKeeps == ASSUME Inv, NEW c \in Conns, ReadVersion(c) PROVE Inv'
<1>1. /\ comm \in [Conns -> CommType] /\ comm[c].next = "version"
      /\ Needed(c) \in plugins /\ comm[c].loading = FALSE
      /\ comm[c].sock \in DOMAIN net /\ net \in [DOMAIN net -> SocketType]
      /\ plugins \subseteq {"tcp", "ssl", "auth"}
      /\ Stepped(c) /\ Agreed(c) /\ Served(c) /\ Loaded(c)
    BY CalledFacts DEF ReadVersion, Exchanging
<1>2. CASE /\ comm' = [comm EXCEPT ![c].version = "ok", ![c].next = "start"]
           /\ UNCHANGED <<env, net, abandoned, plugins>>
    <2>1. Becomes(c, "start", comm[c].sock, comm[c].results, comm[c].obj, FALSE)
        BY <1>1, <1>2, TypeFacts DEF Becomes, CommType
    <2>2. Stepped(c)'
        BY <1>1, <2>1 DEF Becomes, Stepped, Exchanging
    <2>3. Agreed(c)'
        BY <1>1, <1>2, <2>1 DEF Becomes, Agreed, WaitsForServer
    <2>4. Served(c)'
        BY <1>1, <1>2, <2>1 DEF Becomes, Served, Exchanging
    <2>5. Loaded(c)'
        BY <1>1, <1>2, <2>1, SetupAssumption DEF Becomes, Loaded
    <2> QED BY <1>1, <1>2, <2>1, <2>2, <2>3, <2>4, <2>5, KeptWithNet
<1>3. CASE Goto(c, "crashed") /\ UNCHANGED <<env, net, abandoned, plugins>>
    <2>1. Becomes(c, "crashed", comm[c].sock, comm[c].results, comm[c].obj, FALSE)
        BY <1>1, <1>3, TypeFacts, GotoBecomes DEF Inv
    <2>2. Stepped(c)'
        BY <1>1, <2>1 DEF Becomes, Stepped, Exchanging
    <2>3. Agreed(c)'
        BY <1>1, <1>3, <2>1 DEF Becomes, Agreed
    <2>4. Served(c)'
        BY <2>1 DEF Becomes, Served, Exchanging
    <2>5. Loaded(c)'
        BY <1>1, <1>3, <2>1, SetupAssumption DEF Becomes, Loaded
    <2> QED BY <1>1, <1>3, <2>1, <2>2, <2>3, <2>4, <2>5, KeptWithNet
<1>4. CASE /\ \E status \in {Timedout, Other} :
                ReturnWith(c, [comm[c] EXCEPT !.version = "refused"], status)
           /\ net' = Closed(c)
           /\ UNCHANGED <<env, abandoned, plugins>>
    <2>1. Returned(c)
        BY <1>4, ReturnReturns DEF Inv
    <2> QED BY <1>1, <1>4, <2>1, ReturnAndClose DEF Exchanging
<1> QED BY <1>2, <1>3, <1>4 DEF ReadVersion

\* TLS starts where both sides use it.
LEMMA SockClientStartKeeps == ASSUME Inv, NEW c \in Conns, SockClientStart(c) PROVE Inv'
<1> DEFINE s == comm[c].sock
           ssl == comm[c].results = UseSSL
<1>1. /\ comm \in [Conns -> CommType] /\ comm[c].next = "start"
      /\ Needed(c) \in plugins /\ comm[c].loading = FALSE
      /\ comm[c].sock \in DOMAIN net /\ net \in [DOMAIN net -> SocketType]
      /\ plugins \subseteq {"tcp", "ssl", "auth"}
      /\ Stepped(c) /\ Agreed(c) /\ Served(c) /\ Loaded(c)
    BY CalledFacts DEF SockClientStart, Exchanging
<1>2. Becomes(c, "reconnThr", s, comm[c].results, comm[c].obj, FALSE)
    BY <1>1, TypeFacts, GotoBecomes DEF SockClientStart, Inv
<1>3. /\ DOMAIN net' = DOMAIN net /\ net' \in [DOMAIN net -> SocketType]
      /\ \A f \in DOMAIN net \ {s} : net'[f] = net[f]
      /\ net'[s].uses = net[s].uses /\ (net'[s].tls <=> ssl)
    <2>1. net' = [net EXCEPT ![s].tls = ssl]
        BY DEF SockClientStart
    <2>2. ssl \in BOOLEAN
        OBVIOUS
    <2> HIDE DEF ssl
    <2> QED BY <1>1, <2>1, <2>2 DEF SocketType
<1>4. env' = env /\ abandoned' = abandoned /\ plugins' = plugins
    BY DEF SockClientStart
<1>5. Stepped(c)'
    BY <1>1, <1>2 DEF Becomes, Stepped, Exchanging
<1>6. Agreed(c)'
    BY <1>1, <1>2, <1>4 DEF Becomes, Agreed, WaitsForServer
<1>7. Served(c)'
    BY <1>1, <1>2, <1>3, <1>4 DEF Becomes, Served, Exchanging
<1>8. Loaded(c)'
    <2>1. NetworkObject(comm[c].results) \in plugins
        BY <1>1, NeededPlugin
    <2> QED BY <1>1, <1>2, <1>4, <2>1, SetupAssumption DEF Becomes, Loaded
<1> QED BY <1>1, <1>2, <1>3, <1>4, <1>5, <1>6, <1>7, <1>8, KeptWithSocket DEF Becomes

\* The thread that reconnects changes nothing of what was set up.
LEMMA StartReconnThreadKeeps == ASSUME Inv, NEW c \in Conns, StartReconnThread(c) PROVE Inv'
<1>1. /\ comm[c].next = "reconnThr" /\ comm[c].loading = FALSE
      /\ Stepped(c) /\ Agreed(c) /\ Served(c) /\ Loaded(c)
    <2>1. comm \in [Conns -> CommType] /\ comm[c].next = "reconnThr"
        BY TypeFacts DEF StartReconnThread, At, Inv
    <2>2. Stepped(c) /\ Agreed(c) /\ Served(c) /\ Loaded(c)
        BY DEF Inv
    <2> QED BY <2>1, <2>2 DEF Stepped, Exchanging, CommType
<1>2. Becomes(c, "login", comm[c].sock, comm[c].results, comm[c].obj, FALSE)
    BY <1>1, TypeFacts, GotoBecomes DEF StartReconnThread, Inv
<1>3. UNCHANGED <<env, net, abandoned, plugins>>
    BY DEF StartReconnThread
<1>4. Stepped(c)'
    BY <1>1, <1>2 DEF Becomes, Stepped, Exchanging
<1>5. Agreed(c)'
    BY <1>1, <1>2, <1>3 DEF Becomes, Agreed, WaitsForServer
<1>6. Served(c)'
    BY <1>1, <1>2, <1>3 DEF Becomes, Served, Exchanging
<1>7. Loaded(c)'
    BY <1>1, <1>2, <1>3, SetupAssumption DEF Becomes, Loaded
<1> QED BY <1>1, <1>2, <1>3, <1>4, <1>5, <1>6, <1>7, KeptWithNet

\* The login ends the set-up, and leaves the socket to its connection.
LEMMA ClientLoginKeeps == ASSUME Inv, NEW c \in Conns, ClientLogin(c) PROVE Inv'
<1>1. /\ comm \in [Conns -> CommType] /\ comm[c].next = "login"
      /\ Needed(c) \in plugins /\ comm[c].loading = FALSE
      /\ comm[c].sock \in DOMAIN net /\ net \in [DOMAIN net -> SocketType]
      /\ plugins \subseteq {"tcp", "ssl", "auth"}
      /\ Stepped(c) /\ Agreed(c) /\ Served(c) /\ Loaded(c)
    BY CalledFacts DEF ClientLogin, Exchanging
<1>2. Becomes(c, "ready", comm[c].sock, comm[c].results, comm[c].obj, FALSE)
    BY <1>1, TypeFacts, GotoBecomes DEF ClientLogin, Inv
<1>3. UNCHANGED <<env, net, abandoned, plugins>>
    BY DEF ClientLogin
<1>4. Stepped(c)'
    BY <1>1, <1>2 DEF Becomes, Stepped, Exchanging
<1>5. Agreed(c)'
    BY <1>1, <1>2, <1>3 DEF Becomes, Agreed, WaitsForServer
<1>6. Served(c)'
    BY <1>1, <1>2, <1>3 DEF Becomes, Served, Exchanging
<1>7. Loaded(c)'
    <2>1. "auth" \in plugins
        BY <1>1, NeededPlugin
    <2> QED BY <1>1, <1>2, <1>3, <2>1, SetupAssumption DEF Becomes, Loaded
<1> QED BY <1>1, <1>2, <1>3, <1>4, <1>5, <1>6, <1>7, KeptWithNet

\* The failures, by what they do with the socket.
LEMMA FailuresKeep ==
    ASSUME Inv, NEW c \in Conns,
           \/ ConnectGivesUp(c) \/ SendStartupPackFails(c) \/ ReadNegotiationFails(c)
           \/ AnswerNegotiationFails(c) \/ ReadVersionFails(c)
           \/ SockClientStartFails(c) \/ StartReconnThreadFails(c)
           \/ ClientLoginFails(c)
    PROVE  Inv'
<1>1. CASE ConnectGivesUp(c)
    BY <1>1, ReturnReturns, ReturnWithoutSocket DEF ConnectGivesUp, At, Inv
<1>2. ASSUME comm[c].next \in Exchanging \cup {"start", "login"}, NEW status,
             CloseAndReturn(c, status)
      PROVE  Inv'
    BY <1>2, ReturnReturns, ReturnAndClose DEF CloseAndReturn, Inv
<1>3. ASSUME comm[c].next \in Exchanging \cup {"start", "reconnThr", "login"}, NEW status,
             AbandonAndReturn(c, status)
      PROVE  Inv'
    BY <1>3, ReturnReturns, ReturnAndAbandon DEF AbandonAndReturn, Inv
<1>4. CASE SendStartupPackFails(c)
    BY <1>2, <1>4 DEF SendStartupPackFails, Fails, At, Exchanging
<1>5. CASE ReadNegotiationFails(c)
    BY <1>3, <1>5 DEF ReadNegotiationFails, Fails, At, Exchanging
<1>6. CASE AnswerNegotiationFails(c)
    BY <1>3, <1>6 DEF AnswerNegotiationFails, Fails, At, Exchanging
<1>7. CASE ReadVersionFails(c)
    BY <1>2, <1>7 DEF ReadVersionFails, Fails, At, Exchanging
<1>8. CASE SockClientStartFails(c)
    BY <1>3, <1>8 DEF SockClientStartFails, Fails, At
<1>9. CASE ClientLoginFails(c)
    <2>1. Returned(c) /\ comm[c].next = "login"
        BY <1>9, ReturnReturns DEF ClientLoginFails, Fails, At, Inv
    <2> QED BY <1>9, <2>1, ReturnAndClose DEF ClientLoginFails
<1>10. CASE StartReconnThreadFails(c)
    BY <1>3, <1>10 DEF StartReconnThreadFails, At
<1> QED BY <1>1, <1>4, <1>5, <1>6, <1>7, <1>8, <1>9, <1>10

-----------------------------------------------------------------------------
(* The theorems *)

\* No thread has begun: none has a socket, and the tables are empty.
LEMMA InitInv == Init => Inv
<1> SUFFICES ASSUME Init PROVE Inv
    OBVIOUS
<1>1. \A c \in Conns : comm[c] = NewComm
    BY DEF Init
<1>2. TypeOK
    <2>1. comm \in [Conns -> CommType]
        BY TypeFacts DEF Init
    <2>2. DOMAIN net = {} /\ net \in [DOMAIN net -> SocketType]
        BY DEF Init
    <2> QED BY <2>1, <2>2 DEF Init, TypeOK, CommType, SocketType, Steps, Attempts, Failures
<1>3. SocketsAccountedFor
    <2>1. HasSocket = {}
        BY <1>1 DEF HasSocket, NewComm
    <2> QED BY <2>1 DEF Init, SocketsAccountedFor
<1>4. ASSUME NEW c \in Conns PROVE Stepped(c) /\ Agreed(c) /\ Served(c) /\ Loaded(c)
    <2>1. /\ comm[c].next = "idle" /\ comm[c].sock = NoFd /\ comm[c].loading = FALSE
          /\ comm[c].results = NoResult /\ comm[c].obj = "tcp"
        BY <1>1 DEF NewComm
    <2>2. Stepped(c)
        BY <2>1 DEF Stepped, Exchanging
    <2>3. Agreed(c)
        BY <2>1 DEF Agreed
    <2>4. Served(c)
        BY <2>1 DEF Served, Exchanging
    <2>5. Loaded(c)
        BY <2>1 DEF Loaded
    <2> QED BY <2>2, <2>3, <2>4, <2>5
<1> QED BY <1>2, <1>3, <1>4 DEF Inv

\* Every step keeps the invariant: one lemma per action.
LEMMA NextKeeps == Inv /\ [Next]_vars => Inv'
<1> SUFFICES ASSUME Inv, [Next]_vars PROVE Inv'
    OBVIOUS
<1>1. CASE UNCHANGED vars
    BY <1>1 DEF vars, Inv, TypeOK, SocketsAccountedFor, HasSocket, Stepped, Agreed, Served, Loaded,
                WaitsForServer
<1>2. ASSUME NEW c \in Conns, Begin(c) \/ Advance(c) PROVE Inv'
    BY <1>2, BeginKeeps, LoadPluginKeeps, AddPluginKeeps, ConnectKeeps, ConnectAttemptFailsKeeps,
       SendStartupPackKeeps, ReadNegotiationKeeps, AnswerNegotiationKeeps, ReadVersionKeeps,
       SockClientStartKeeps, StartReconnThreadKeeps, ClientLoginKeeps, FailuresKeep
    DEF Advance
<1> QED BY <1>1, <1>2 DEF Next

\* The inductive invariant: what each thread knows of its step, its socket
\* and the tables.
THEOREM InvHolds == Spec => []Inv
<1> QED BY InitInv, NextKeeps, PTL DEF Spec

\* rcConnect and clientLogin leave no socket open but where the negotiation,
\* the start of TLS or the start of the reconnection thread fails, and no
\* connection works on another's socket.
THEOREM SocketsAreAccountedFor == Spec => []SocketsAccountedFor
<1>1. Inv => SocketsAccountedFor
    BY DEF Inv
<1> QED BY <1>1, InvHolds, PTL

\* A connection that is handed out uses the transport that both policies
\* admit, and its server the same.
THEOREM TransportIsAgreed == Spec => []TransportAgreed
<1>1. ASSUME Inv PROVE TransportAgreed
    <2> SUFFICES ASSUME NEW c \in Conns, comm[c].next \in {"login", "ready"}
                 PROVE LET socket == net[comm[c].sock]
                       IN  /\ socket.tls <=> socket.uses = UseSSL
                           /\ socket.tls <=> comm[c].results = UseSSL
                           /\ WaitsForServer =>
                                /\ {env.client, env.server} \cap {Require, Unknown} # {} => socket.tls
                                /\ Refuse \in {env.client, env.server} => ~socket.tls
        BY DEF TransportAgreed
    <2> DEFINE socket == net[comm[c].sock]
    <2>1. Served(c) /\ Agreed(c) /\ comm \in [Conns -> CommType]
        BY <1>1, TypeFacts DEF Inv
    <2>2. (socket.tls <=> socket.uses = UseSSL) /\ (socket.tls <=> comm[c].results = UseSSL)
        BY <2>1 DEF Served
    <2>3. ASSUME WaitsForServer
          PROVE  /\ {env.client, env.server} \cap {Require, Unknown} # {} => socket.tls
                 /\ Refuse \in {env.client, env.server} => ~socket.tls
        <3>1. comm[c].results = Negotiate(env.client, env.server) /\ comm[c].results # NoResult
            BY <2>1, <2>3 DEF Agreed
        <3>2. comm[c].results # Failure
            BY <2>1, <3>1 DEF CommType, Failure, UseSSL, UseTCP, NoResult
        <3>3. /\ {env.client, env.server} \cap {Require, Unknown} # {} => comm[c].results = UseSSL
              /\ Refuse \in {env.client, env.server} => comm[c].results = UseTCP
            BY <3>1, <3>2, Agreement
        <3> QED BY <2>2, <3>3 DEF UseSSL, UseTCP
    <2> QED BY <2>2, <2>3
<1> QED BY <1>1, InvHolds, PTL

\* The variables keep their types, and while a plugin is loaded no other
\* thread looks one up, since the pool's first connection is made alone.
THEOREM SetupIsSafe == Spec => []SetupInv
<1>1. ASSUME Inv PROVE SetupInv
    <2>1. ASSUME NEW c \in Conns, NEW d \in Conns, c # d, comm[c].loading, LooksUp(d)
          PROVE  FALSE
        <3>1. c = First /\ comm[c].next \in Exchanging \cup {"start", "login"}
            BY <1>1, <2>1 DEF Inv, Loaded, Stepped
        <3>2. comm[d].next # "idle"
            BY <2>1, NeededPlugin DEF LooksUp, Exchanging
        <3>3. comm[First].next = "ready"
            BY <1>1, <2>1, <3>1, <3>2 DEF Inv, Loaded
        <3> QED BY <3>1, <3>3 DEF Exchanging
    <2> QED BY <1>1, <2>1 DEF Inv, SetupInv, PluginsLoadedAlone
<1> QED BY <1>1, InvHolds, PTL
=============================================================================
