-------------------------- MODULE ConnectionSetup --------------------------
(***************************************************************************)
(* How a connection comes about: rcConnect with its second try, the        *)
(* TCP connect with a timeout, the start-up message, the negotiation of    *)
(* the transport, the version, the start of TLS, the start of the thread   *)
(* that reconnects, and clientLogin.                                       *)
(*                                                                         *)
(* Several threads connect at once, as in the constructor of the pool,     *)
(* which makes the connection First alone; they share the tables of loaded *)
(* plugins. A descriptor is the smallest unused number, so that one that   *)
(* is closed by mistake belongs to another connection soon.                *)
(*                                                                         *)
(* The server is external: it is told whether to negotiate, sends its      *)
(* policy, and uses the transport that the client answers.                 *)
(***************************************************************************)
EXTENDS Integers, FiniteSets, Functions

CONSTANTS Conns,            \* the threads, each connecting once
          First,            \* the one that goes first
          Fds, NoFd,        \* descriptors
          MaxConnRetryCnt   \* MAX_CONN_RETRY_CNT

ASSUME SetupAssumption ==
    /\ First \in Conns
    /\ Fds \subseteq Nat /\ NoFd \notin Fds
    /\ MaxConnRetryCnt \in Nat \ {0}

VARIABLES
    env,        \* the environment of the client, and the policy of the server
    comm,       \* per thread: the rcComm_t, and where its set-up stands
    net,        \* per open descriptor: what its server was asked and uses,
                \* and whether the client has started TLS on it
    abandoned,  \* the descriptors that a failed try left open
    plugins     \* the plugins in the tables of the managers

vars == <<env, comm, net, abandoned, plugins>>

----------------------------------------------------------------------------
(* The negotiation *)

Require == "CS_NEG_REQUIRE"    DontCare == "CS_NEG_DONT_CARE"
Refuse == "CS_NEG_REFUSE"      Unknown == "unknown policy"
UseSSL == "CS_NEG_USE_SSL"     UseTCP == "CS_NEG_USE_TCP"
Failure == "CS_NEG_FAILURE"    NoResult == ""

\* A policy that is not in the map gets the index of Require, zero.
PolicyIndex(p) == CASE p = DontCare -> 2 [] p = Refuse -> 3 [] OTHER -> 1

NegotiationTableLenient ==
    << <<UseSSL, UseSSL, Failure>>,
       <<UseSSL, UseSSL, UseTCP>>,
       <<UseTCP, UseTCP, UseTCP>> >>

NegotiationTable ==
    << <<UseSSL,  UseSSL, Failure>>,
       <<UseSSL,  UseSSL, UseTCP>>,
       <<Failure, UseTCP, UseTCP>> >>

Negotiate(client, server) ==
    NegotiationTable[PolicyIndex(client)][PolicyIndex(server)]

\* Is the token in the start-up message? It must be the whole setting.
AsksServer == env.token = "exact"

\* Does the client wait for a negotiation? The token may be part of a setting.
WaitsForServer == env.token \in {"exact", "contained"}

Environments ==
    [token : {"none", "contained"}, client : {DontCare}, server : {DontCare}]
        \cup [token : {"exact"}, client : {Require, DontCare, Refuse, Unknown},
              server : {Require, DontCare, Refuse}]
        \cup [token : {"exact"}, client : {DontCare}, server : {NoResult}]

----------------------------------------------------------------------------
(* The plugins *)

NetworkObject(results) == IF results = UseSSL THEN "ssl" ELSE "tcp"

Exchanging == {"startup", "negotiate", "answer", "version"}

\* The plugin that the next step looks up: that of the network object the
\* handshake made at its start, that of the object of the result, or the
\* one that authenticates.
Needed(c) == CASE comm[c].next \in Exchanging -> comm[c].obj
               [] comm[c].next = "start" -> NetworkObject(comm[c].results)
               [] comm[c].next = "login" -> "auth"
               [] OTHER -> "none"

LooksUp(c) == Needed(c) # "none"

Running == \A c \in Conns : comm[c].next # "crashed"

At(c, step) == Running /\ comm[c].next = step

\* resolve found no entry: the plugin is loaded, and then put in the table.
LoadPlugin(c) ==
    /\ Running /\ LooksUp(c) /\ Needed(c) \notin plugins /\ ~comm[c].loading
    /\ comm' = [comm EXCEPT ![c].loading = TRUE]
    /\ UNCHANGED <<env, net, abandoned, plugins>>

AddPlugin(c) ==
    /\ Running /\ comm[c].loading
    /\ plugins' = plugins \cup {Needed(c)}
    /\ comm' = [comm EXCEPT ![c].loading = FALSE]
    /\ UNCHANGED <<env, net, abandoned>>

\* The plugin is called, or the call fails, perhaps since it does not load.
Called(c, step) == At(c, step) /\ Needed(c) \in plugins /\ ~comm[c].loading
Fails(c, step) == At(c, step) /\ (Needed(c) \in plugins \/ comm[c].loading)

----------------------------------------------------------------------------
(* The ways out of connectToRhost, and of _rcConnect after it *)

Timedout == "SYS_SOCK_READ_TIMEDOUT"
Other == "another error"

NewComm == [next |-> "idle", attempt |-> 1, failures |-> 0, sock |-> NoFd,
            results |-> NoResult, obj |-> "tcp", version |-> "none", loading |-> FALSE]

ReturnWithRetries(c, r, status) ==
    comm' = [comm EXCEPT ![c] =
        IF status = Timedout
          THEN [r EXCEPT !.next = "connect", !.attempt = 2, !.failures = 0,
                         !.sock = NoFd, !.loading = FALSE]
          ELSE [NewComm EXCEPT !.next = "failed"]]

\* A try that timed out is repeated, once and with the same rcComm_t (here r);
\* otherwise the rcComm_t is freed (or lost, where a thread does not start).
ReturnWith(c, r, status) ==
    comm' = [comm EXCEPT ![c] =
        IF status = Timedout /\ r.attempt = 1
          THEN [r EXCEPT !.next = "connect", !.attempt = 2, !.failures = 0,
                         !.sock = NoFd, !.loading = FALSE]
          ELSE [NewComm EXCEPT !.next = "failed"]]

Return(c, status) == ReturnWith(c, comm[c], status)

NewSocket == [asked |-> FALSE, uses |-> UseTCP, tls |-> FALSE]

Closed(c) == Restrict(net, DOMAIN net \ {comm[c].sock})

ReturnOpen(c, status) ==
    /\ Return(c, status)
    /\ UNCHANGED <<env, net, abandoned, plugins>>

CloseAndReturn(c, status) ==
    /\ Return(c, status)
    /\ net' = Closed(c)
    /\ UNCHANGED <<env, abandoned, plugins>>

\* Several of the ways out leave out the call of close.
AbandonAndReturn(c, status) ==
    /\ Return(c, status)
    /\ abandoned' = abandoned \cup {comm[c].sock}
    /\ net' = [net EXCEPT ![comm[c].sock] = NewSocket]
    /\ UNCHANGED <<env, plugins>>

Goto(c, step) == comm' = [comm EXCEPT ![c].next = step]

----------------------------------------------------------------------------
(* The steps of connectToRhost *)

Unused == Fds \ DOMAIN net
NewFd == CHOOSE f \in Unused : \A g \in Unused : f <= g

CanBeginAtOnce(c) == TRUE

\* Always initialize the first connection to guarantee that the plugin is loaded.
CanBegin(c) == c = First \/ comm[First].next = "ready"

\* _rcConnect makes a new rcComm_t.
Begin(c) ==
    /\ At(c, "idle") /\ CanBegin(c)
    /\ Goto(c, "connect")
    /\ UNCHANGED <<env, net, abandoned, plugins>>

\* connectToRhostWithTout: connected, and blocking again; then setConnAddr.
Connect(c) ==
    /\ At(c, "connect")
    /\ Unused # {}
    /\ comm' = [comm EXCEPT ![c].sock = NewFd, ![c].failures = 0, ![c].next = "startup",
                            ![c].obj = NetworkObject(comm[c].results)]
    /\ net' = [f \in DOMAIN net \cup {NewFd} |-> IF f = NewFd THEN NewSocket ELSE net[f]]
    /\ UNCHANGED <<env, abandoned, plugins>>

\* One turn of the loop fails; its socket is closed. A select that is
\* interrupted is not counted, and leaves everything as it was.
ConnectAttemptFails(c) ==
    /\ At(c, "connect")
    /\ IF comm[c].failures + 1 < MaxConnRetryCnt
         THEN comm' = [comm EXCEPT ![c].failures = @ + 1]
         ELSE Return(c, Other)
    /\ UNCHANGED <<env, net, abandoned, plugins>>

\* The loop is left with an error: no socket, a timeout, getsockopt, fcntl.
\* _rcConnect may also end before it, on the protocol, the user or the host.
ConnectGivesUp(c) ==
    /\ At(c, "connect")
    /\ Return(c, Other)
    /\ UNCHANGED <<env, net, abandoned, plugins>>

\* A message gets through only on an object that suits the socket: the TLS
\* object of a socket without TLS has a null SSL pointer.
Usable(c) == comm[c].obj = "ssl" => net[comm[c].sock].tls

SendStartupPack(c) ==
    /\ Called(c, "startup") /\ Usable(c)
    /\ net' = [net EXCEPT ![comm[c].sock].asked = AsksServer]
    /\ Goto(c, IF WaitsForServer THEN "negotiate" ELSE "version")
    /\ UNCHANGED <<env, abandoned, plugins>>

SendStartupPackFails(c) ==
    /\ Fails(c, "startup")
    /\ CloseAndReturn(c, Other)

\* The message with the server's policy. A server that was not asked sends
\* its version instead, and one without a policy something that is invalid.
ReadNegotiation(c) ==
    /\ Called(c, "negotiate") /\ Usable(c)
    /\ net[comm[c].sock].asked /\ env.server # NoResult
    /\ Goto(c, "answer")
    /\ UNCHANGED <<env, net, abandoned, plugins>>

ReadNegotiationFails(c) ==
    /\ Fails(c, "negotiate")
    /\ \E status \in {Timedout, Other} : AbandonAndReturn(c, status)

\* The result goes to the server and is kept, unless it is a failure.
AnswerNegotiation(c) ==
    LET result == Negotiate(env.client, env.server)
    IN  /\ Called(c, "answer") /\ Usable(c) /\ result # Failure
        /\ net' = [net EXCEPT ![comm[c].sock].uses = result]
        /\ comm' = [comm EXCEPT ![c].results = result, ![c].next = "version"]
        /\ UNCHANGED <<env, abandoned, plugins>>

\* A failure is returned, or the answer is not sent.
AnswerNegotiationFails(c) ==
    /\ Fails(c, "answer")
    /\ AbandonAndReturn(c, Other)

\* readVersion. What does not unpack is no error to its caller, who looks
\* into the version the rcComm_t had before, or into a null pointer.
ReadVersion(c) ==
    /\ Called(c, "version") /\ Usable(c)
    /\ \E v \in {"ok", "refused", comm[c].version} :
         \/ /\ v = "ok"
            /\ comm' = [comm EXCEPT ![c].version = v, ![c].next = "start"]
            /\ UNCHANGED <<env, net, abandoned, plugins>>
         \/ /\ v = "none" /\ Goto(c, "crashed")
            /\ UNCHANGED <<env, net, abandoned, plugins>>
         \/ /\ v = "refused"
            /\ \E status \in {Timedout, Other} :
                 ReturnWith(c, [comm[c] EXCEPT !.version = v], status)
            /\ net' = Closed(c)
            /\ UNCHANGED <<env, abandoned, plugins>>

ReadVersionFails(c) ==
    /\ Fails(c, "version")
    /\ \E status \in {Timedout, Other} : CloseAndReturn(c, status)

\* sockClientStart: TLS begins if both sides begin it; then to_client.
SockClientStart(c) ==
    LET ssl == comm[c].results = UseSSL
    IN  /\ Called(c, "start")
        /\ ssl => net[comm[c].sock].uses = UseSSL
        /\ net' = [net EXCEPT ![comm[c].sock].tls = ssl]
        /\ Goto(c, "reconnThr")
        /\ UNCHANGED <<env, abandoned, plugins>>

SockClientStartFails(c) ==
    /\ Fails(c, "start")
    /\ \E status \in {Timedout, Other} : AbandonAndReturn(c, status)

\* _rcConnect starts the reconnection thread, if the caller asked for it
\* (RECONN_TIMEOUT, which the pool does not) and the server has a port for it.
StartReconnThread(c) ==
    /\ At(c, "reconnThr")
    /\ Goto(c, "login")
    /\ UNCHANGED <<env, net, abandoned, plugins>>

\* thread_resource_error: neither the socket is closed nor the rcComm_t freed.
StartReconnThreadFails(c) ==
    /\ At(c, "reconnThr")
    /\ AbandonAndReturn(c, Other)

\* clientLogin, which sets loggedIn last.
ClientLogin(c) ==
    /\ Called(c, "login")
    /\ Goto(c, "ready")
    /\ UNCHANGED <<env, net, abandoned, plugins>>

\* The caller disconnects what it could not log in to.
ClientLoginFails(c) ==
    /\ Fails(c, "login")
    /\ comm' = [comm EXCEPT ![c] = [NewComm EXCEPT !.next = "failed"]]
    /\ net' = Closed(c)
    /\ UNCHANGED <<env, abandoned, plugins>>

----------------------------------------------------------------------------

Init ==
    /\ env \in Environments
    /\ comm = [c \in Conns |-> NewComm]
    /\ net = <<>>
    /\ abandoned = {}
    /\ plugins = {}

Advance(c) ==
    \/ LoadPlugin(c) \/ AddPlugin(c)
    \/ Connect(c) \/ ConnectAttemptFails(c) \/ ConnectGivesUp(c)
    \/ SendStartupPack(c) \/ SendStartupPackFails(c)
    \/ ReadNegotiation(c) \/ ReadNegotiationFails(c)
    \/ AnswerNegotiation(c) \/ AnswerNegotiationFails(c)
    \/ ReadVersion(c) \/ ReadVersionFails(c)
    \/ SockClientStart(c) \/ SockClientStartFails(c)
    \/ StartReconnThread(c) \/ StartReconnThreadFails(c)
    \/ ClientLogin(c) \/ ClientLoginFails(c)

Next == \E c \in Conns : Begin(c) \/ Advance(c)

Spec == Init /\ [][Next]_vars

\* Some thread runs while one can, the network answers or times out, and not
\* every select is interrupted.
FairSpec == Spec /\ WF_vars(\E c \in Conns : Advance(c))

----------------------------------------------------------------------------
(* Properties *)

\* The variables have values of their types.
TypeOK ==
    /\ env \in Environments
    /\ comm \in [Conns -> [next : Exchanging \cup {"idle", "connect", "start", "reconnThr",
                                                   "login", "ready", "failed", "crashed"},
                           attempt : 1..2, failures : 0..(MaxConnRetryCnt - 1),
                           sock : Fds \cup {NoFd}, results : {NoResult, UseSSL, UseTCP},
                           obj : {"tcp", "ssl"}, version : {"none", "ok", "refused"},
                           loading : BOOLEAN]]
    /\ DOMAIN net \subseteq Fds
    /\ net \in [DOMAIN net -> [asked : BOOLEAN, uses : {UseSSL, UseTCP}, tls : BOOLEAN]]
    /\ abandoned \subseteq Fds
    /\ plugins \subseteq {"tcp", "ssl", "auth"}

\* A connection that is handed out uses the transport its server uses, and
\* one that was negotiated uses what both policies admit: TLS where one side
\* requires it (or states something unknown), none where one refuses it.
TransportAgreed ==
    \A c \in {d \in Conns : comm[d].next \in {"login", "ready"}} :
        LET socket == net[comm[c].sock]
        IN  /\ socket.tls <=> socket.uses = UseSSL
            /\ socket.tls <=> comm[c].results = UseSSL
            /\ WaitsForServer =>
                 /\ {env.client, env.server} \cap {Require, Unknown} # {} => socket.tls
                 /\ Refuse \in {env.client, env.server} => ~socket.tls

HasSocket == {c \in Conns : comm[c].sock # NoFd}

\* Every descriptor of the process is the socket of one connection that is
\* in use or under way, or one of those that the negotiation, the start of
\* TLS and the start of the reconnection thread leave open when they fail: no
\* other way out of rcConnect and clientLogin leaves one behind, and no
\* connection works on a descriptor that is closed or another's.
SocketsAccountedFor ==
    /\ DOMAIN net = {comm[c].sock : c \in HasSocket} \cup abandoned
    /\ \A c \in HasSocket :
         /\ comm[c].sock \notin abandoned
         /\ \A d \in HasSocket \ {c} : comm[d].sock # comm[c].sock

\* While a thread loads a plugin no other thread looks one up: the first
\* connection of a pool, which is made alone, loads all that the others need.
PluginsLoadedAlone ==
    \A c, d \in Conns : c # d /\ comm[c].loading => ~LooksUp(d)

\* The variables keep their types, the plugin tables their one user.
SetupInv == TypeOK /\ PluginsLoadedAlone

\* A set-up that begins ends, in a connection or an error.
SetupEnds ==
    \A c \in Conns :
        comm[c].next = "connect" ~> (comm[c].next \in {"ready", "failed"} \/ ~Running)
============================================================================
