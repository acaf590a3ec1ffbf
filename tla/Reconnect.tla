---- MODULE Reconnect ----
(***************************************************************************)
(* One rcComm_t opened with RECONN_TIMEOUT: the application thread that    *)
(* sends API requests and reads replies on conn->sock, and the thread      *)
(* cliReconnManager that from time to time replaces conn->sock by a new    *)
(* connection to the agent. They share a mutex, a condition variable and   *)
(* the fields clientState and reconnThrState; the application uses the     *)
(* socket without holding the mutex.                                       *)
(*                                                                         *)
(* A section of the application that holds the mutex contains no blocking  *)
(* call and is one action; the manager holds the mutex over several calls  *)
(* to the network and is cut at each of them.                              *)
(***************************************************************************)
CONSTANTS Socks,        \* file descriptors greater than zero
          NoSock,       \* reconnectedSock = 0
          SockError,    \* reconnectedSock < 0
          Ops,          \* what the application does with the connection
          HostMayFail   \* whether load_in_addr_from_hostname may fail

ASSUME SockAssumption == NoSock \notin Socks /\ SockError \notin Socks
ASSUME OpsAssumption == Ops \subseteq {"api", "branch", "collStat", "disconnect"}
ASSUME FlagAssumption == HostMayFail \in BOOLEAN

VARIABLES sock, reconnectedSock, clientState, reconnThrState, agentState,
                        \* fields of rcComm_t
          exitFlg,      \* conn->exit_flg
          open,         \* the descriptors this process has open
          sslSock,      \* the descriptor conn->ssl reads and writes, NoSock
                        \* on a connection without TLS
          mgrHolds,     \* the manager holds thread_ctx->lock
          waiters,      \* threads in cond->wait that nothing has woken
          appPc, mgrPc,
          netSock,      \* socket_handle_ of the application's network_object
          reqSock,      \* the socket sendApiRequest sent the request in
                        \* progress on, NoSock if it did not
          replied,      \* the call in progress has read a whole reply
          succeeded     \* status of the last finished call was not negative

sockVars == <<sock, reconnectedSock, agentState, open, sslSock>>
mgrVars  == <<reconnThrState, mgrHolds, mgrPc>>
callVars == <<reqSock, replied, succeeded>>
vars == <<sockVars, mgrVars, callVars, clientState, exitFlg, waiters, appPc,
          netSock>>

(* A descriptor the kernel may return: not open, and unlike every one that *)
(* some object still remembers, so that a use after close stays visible.   *)
Fresh(s) == s \notin open \cup {sock, netSock, reqSock, sslSock}

(* Where the bytes of a network object go, and those that _cliGetCollOpr-  *)
(* Stat writes: an ssl_object copies conn->ssl, which is bound to the      *)
(* descriptor TLS was started on, whatever its socket_handle_ says.        *)
Wire == IF sslSock # NoSock THEN sslSock ELSE netSock

Init ==
    /\ sock \in Socks
    /\ reconnectedSock = NoSock
    /\ clientState = "PROCESSING"
    /\ reconnThrState = "PROCESSING"
    /\ agentState = "PROCESSING"
    /\ exitFlg = FALSE
    /\ open = {sock}
    /\ sslSock \in {NoSock, sock}
    /\ mgrHolds = FALSE
    /\ waiters = {}
    /\ appPc = "idle"
    /\ mgrPc = "top"
    /\ netSock = NoSock
    /\ reqSock = NoSock
    /\ replied = FALSE
    /\ succeeded = FALSE

(* Mutant: the old socket stays open. *)
SwitchKeepsOld ==
    IF reconnectedSock \in Socks
    THEN /\ sock' = reconnectedSock
         /\ reconnectedSock' = NoSock
         /\ UNCHANGED <<agentState, open, sslSock>>
    ELSE UNCHANGED <<sockVars>>

(* cliSwitchConnect: nothing happens unless a reconnected socket waits.    *)
(* The message to an agent in RECEIVING_STATE goes out on the old socket.  *)
(* conn->ssl is not touched: it stays bound to the descriptor closed here. *)
SwitchConnect ==
    IF reconnectedSock \in Socks
    THEN /\ agentState' = IF agentState = "RECEIVING" THEN "PROCESSING"
                                                      ELSE agentState
         /\ open' = open \ {sock}
         /\ sock' = reconnectedSock
         /\ reconnectedSock' = NoSock
         /\ UNCHANGED sslSock
    ELSE UNCHANGED <<sockVars>>

----------------------------------------------------------------------------
(* The application: procApiRequest *)

(* The end of a call: status is what it returns, negative or not. *)
Return(ok) == appPc' = "idle" /\ succeeded' = ok

(* cliChkReconnAtSendStart. *)
SendStart ==
    /\ "api" \in Ops
    /\ appPc = "idle"
    /\ ~mgrHolds
    /\ IF reconnThrState = "CONN_WAIT"
       THEN /\ clientState' = "PROCESSING"
            /\ waiters' = {"app"}       \* notify_all, then wait
            /\ appPc' = "send_wait"
       ELSE /\ clientState' = "SENDING"
            /\ appPc' = "prepare"
            /\ UNCHANGED waiters
    /\ replied' = FALSE
    /\ reqSock' = NoSock
    /\ UNCHANGED <<sockVars, mgrVars, exitFlg, netSock, succeeded>>

(* Mutant: the state after the wait is not set. *)
SendWokenStateless ==
    /\ appPc = "send_wait"
    /\ "app" \notin waiters
    /\ ~mgrHolds
    /\ appPc' = "prepare"
    /\ UNCHANGED <<sockVars, mgrVars, callVars, clientState, exitFlg, waiters,
                   netSock>>

(* The single wait of cliChkReconnAtSendStart is over. *)
SendWoken ==
    /\ appPc = "send_wait"
    /\ "app" \notin waiters
    /\ ~mgrHolds
    /\ clientState' = "SENDING"
    /\ appPc' = "prepare"
    /\ UNCHANGED <<sockVars, mgrVars, callVars, exitFlg, waiters, netSock>>

(* packStruct, then network_factory, which copies conn->sock. The API      *)
(* number was looked up before, and network_factory fails only on a null   *)
(* conn: neither early return that skips cliChkReconnAtSendEnd is taken.   *)
Prepare ==
    /\ appPc = "prepare"
    /\ \/ appPc' = "send_end" /\ UNCHANGED netSock
       \/ appPc' = "transmit" /\ netSock' = sock
    /\ UNCHANGED <<sockVars, mgrVars, callVars, clientState, exitFlg,
                   waiters>>

(* Mutant: the manager is not notified. *)
SendEndSilent ==
    /\ appPc = "send_end"
    /\ ~mgrHolds
    /\ clientState' = "PROCESSING"
    /\ Return(FALSE)
    /\ UNCHANGED <<sockVars, mgrVars, exitFlg, waiters, netSock, reqSock,
                   replied>>

(* cliChkReconnAtSendEnd, on the error paths only. *)
SendEnd ==
    /\ appPc = "send_end"
    /\ ~mgrHolds
    /\ clientState' = "PROCESSING"
    /\ waiters' = IF reconnThrState = "CONN_WAIT" THEN {} ELSE waiters
    /\ Return(FALSE)
    /\ UNCHANGED <<sockVars, mgrVars, exitFlg, netSock, reqSock, replied>>

(* sendRodsMsg on the network object. *)
Transmit ==
    /\ appPc = "transmit"
    /\ \/ appPc' = "read_start" /\ reqSock' = Wire
       \/ appPc' = "send_retry" /\ UNCHANGED reqSock
    /\ UNCHANGED <<sockVars, mgrVars, clientState, exitFlg, waiters,
                   netSock, replied, succeeded>>

(* After a failed send the client may switch and send again with the same  *)
(* network object; a second success returns the status of the first send,  *)
(* and without a switch the status stays zero and the reply is awaited.    *)
SendRetry ==
    /\ appPc = "send_retry"
    /\ ~mgrHolds
    /\ SwitchConnect
    /\ appPc' \in IF reconnectedSock \in Socks THEN {"read_start", "idle"}
                                               ELSE {"read_start"}
    /\ succeeded' = (succeeded /\ appPc' # "idle")
    /\ UNCHANGED <<mgrVars, clientState, exitFlg, waiters, netSock,
                   reqSock, replied>>

(* Mutant: the state of a sender that becomes a reader is reset. *)
ReadStartQuiet ==
    /\ \/ appPc = "read_start" /\ UNCHANGED <<replied, reqSock>>
       \/ /\ "branch" \in Ops /\ appPc = "idle"
          /\ replied' = FALSE /\ reqSock' = NoSock
    /\ ~mgrHolds
    /\ clientState' = "PROCESSING"
    /\ appPc' = "expect"
    /\ UNCHANGED <<sockVars, mgrVars, exitFlg, waiters, netSock, succeeded>>

(* cliChkReconnAtReadStart; branchReadAndProcApiReply begins here.         *)
ReadStart ==
    /\ \/ appPc = "read_start" /\ UNCHANGED <<replied, reqSock>>
       \/ /\ "branch" \in Ops /\ appPc = "idle"
          /\ replied' = FALSE /\ reqSock' = NoSock
    /\ ~mgrHolds
    /\ clientState' = "RECEIVING"
    /\ appPc' = "expect"
    /\ UNCHANGED <<sockVars, mgrVars, exitFlg, waiters, netSock, succeeded>>

(* The checks of the output arguments, then network_factory. *)
Expect ==
    /\ appPc = "expect"
    /\ \/ appPc' = "read_failed" /\ UNCHANGED netSock
       \/ appPc' = "header" /\ netSock' = sock
    /\ UNCHANGED <<sockVars, mgrVars, callVars, clientState, exitFlg,
                   waiters>>

ReadHeader ==
    /\ appPc = "header"
    /\ appPc' \in {"body", "read_retry"}
    /\ UNCHANGED <<sockVars, mgrVars, callVars, clientState, exitFlg,
                   waiters, netSock>>

(* cliSwitchConnect, then readMsgHeader again on the same network object.  *)
ReadRetry ==
    /\ appPc = "read_retry"
    /\ ~mgrHolds
    /\ SwitchConnect
    /\ appPc' \in {"body", "read_failed"}
    /\ UNCHANGED <<mgrVars, callVars, clientState, exitFlg, waiters,
                   netSock>>

(* readMsgBody. *)
ReadBody ==
    /\ appPc = "body"
    /\ replied' \in BOOLEAN
    /\ appPc' = "read_end"
    /\ UNCHANGED <<sockVars, mgrVars, clientState, exitFlg, waiters,
                   netSock, reqSock, succeeded>>

(* What readAndProcApiReply returns: the first error of the header, the    *)
(* reply's own status, or 0 when the body could not be read.               *)
ReplyStatus == IF appPc = "read_failed" THEN {FALSE}
               ELSE IF replied THEN BOOLEAN ELSE {TRUE}

(* cliChkReconnAtReadEnd. *)
ReadEnd ==
    /\ appPc \in {"read_end", "read_failed"}
    /\ ~mgrHolds
    /\ clientState' = "PROCESSING"
    /\ succeeded' \in ReplyStatus
    /\ IF reconnThrState = "CONN_WAIT"
       THEN waiters' = {"app"} /\ appPc' = "read_wait"
       ELSE appPc' = "idle" /\ UNCHANGED waiters
    /\ UNCHANGED <<sockVars, mgrVars, exitFlg, netSock, reqSock, replied>>

ReadWoken ==
    /\ appPc = "read_wait"
    /\ "app" \notin waiters
    /\ ~mgrHolds
    /\ appPc' = "idle"
    /\ UNCHANGED <<sockVars, mgrVars, callVars, clientState, exitFlg,
                   waiters, netSock>>

(* _cliGetCollOprStat, called while the last status was                    *)
(* SYS_SVR_TO_CLI_COLL_STAT: four bytes are written, with no               *)
(* cliChkReconnAtSendStart before, and the next reply is read.             *)
CollStat ==
    /\ "collStat" \in Ops
    /\ appPc = "idle"
    /\ replied
    /\ netSock' = sock
    /\ appPc' = "coll_write"
    /\ UNCHANGED <<sockVars, mgrVars, callVars, clientState, exitFlg,
                   waiters>>

(* sslWrite through conn->ssl on a connection with TLS, myWrite on         *)
(* conn->sock without: on the Wire. A write that is cut short ends the     *)
(* call with SYS_SOCK_WRITE_ERR, in either branch.                         *)
CollWrite ==
    /\ appPc = "coll_write"
    /\ \/ appPc' = "read_start" /\ UNCHANGED succeeded
       \/ Return(FALSE)
    /\ reqSock' = NoSock
    /\ replied' = FALSE
    /\ UNCHANGED <<sockVars, mgrVars, clientState, exitFlg, waiters,
                   netSock>>

----------------------------------------------------------------------------
(* The application: rcDisconnect, which takes no lock *)

(* network_factory copies conn->sock; the disconnect message is sent and   *)
(* the network plugin stopped.                                             *)
Disconnect ==
    /\ "disconnect" \in Ops
    /\ appPc = "idle"
    /\ netSock' = sock
    /\ appPc' = "disc_close"
    /\ UNCHANGED <<sockVars, mgrVars, callVars, clientState, exitFlg,
                   waiters>>

(* net_obj->to_client(_conn); close(_conn->sock). *)
DisconnectClose ==
    /\ appPc = "disc_close"
    /\ sock' = netSock
    /\ open' = open \ {netSock}
    /\ appPc' = "disc_exit"
    /\ UNCHANGED <<mgrVars, callVars, reconnectedSock, clientState,
                   agentState, sslSock, exitFlg, waiters, netSock>>

DisconnectExit ==
    /\ appPc = "disc_exit"
    /\ exitFlg' = TRUE
    /\ appPc' = "disc_join"
    /\ UNCHANGED <<sockVars, mgrVars, callVars, clientState, waiters,
                   netSock>>

(* try_join_for(2 s) ends with the manager or without it; then freeRcComm. *)
DisconnectFree ==
    /\ appPc = "disc_join"
    /\ appPc' = "gone"
    /\ UNCHANGED <<sockVars, mgrVars, callVars, clientState, exitFlg,
                   waiters, netSock>>

----------------------------------------------------------------------------
(* The reconnection thread: cliReconnManager *)

(* After freeRcComm the rcComm_t the thread works on does not exist, and   *)
(* after a crash nothing does: there is no state left to speak of.         *)
Alive == appPc \notin {"gone", "killed"}

(* The loop's test of exit_flg; then it sleeps, for any time. *)
MgrTop ==
    /\ Alive
    /\ mgrPc = "top"
    /\ mgrPc' = IF exitFlg THEN "done" ELSE "lock"
    /\ UNCHANGED <<sockVars, callVars, clientState, reconnThrState,
                   exitFlg, mgrHolds, waiters, appPc, netSock>>

(* Mutant: clientState is not looked at. *)
MgrLockUnchecked ==
    /\ Alive
    /\ mgrPc = "lock"
    /\ ~mgrHolds
    /\ reconnThrState' = "PROCESSING"
    /\ mgrHolds' = TRUE
    /\ mgrPc' = "lookup"
    /\ UNCHANGED <<sockVars, callVars, clientState, exitFlg, waiters, appPc,
                   netSock>>

(* The mutex is taken, after the sleep or on being woken, and clientState  *)
(* is looked at.                                                           *)
MgrLock ==
    /\ Alive
    /\ \/ mgrPc = "lock"
       \/ mgrPc = "wait" /\ "mgr" \notin waiters
    /\ ~mgrHolds
    /\ IF clientState # "PROCESSING"
       THEN /\ reconnThrState' = "CONN_WAIT"
            /\ waiters' = waiters \cup {"mgr"}
            /\ mgrPc' = "wait"
            /\ UNCHANGED mgrHolds
       ELSE /\ reconnThrState' = "PROCESSING"
            /\ mgrHolds' = TRUE
            /\ mgrPc' = "lookup"
            /\ UNCHANGED waiters
    /\ UNCHANGED <<sockVars, callVars, clientState, exitFlg, appPc, netSock>>

(* load_in_addr_from_hostname; when it fails the thread returns, and only  *)
(* the lock is released.                                                   *)
MgrLookup ==
    /\ Alive
    /\ mgrPc = "lookup"
    /\ \/ mgrPc' = "connect" /\ UNCHANGED mgrHolds
       \/ HostMayFail /\ mgrPc' = "done" /\ mgrHolds' = FALSE
    /\ UNCHANGED <<sockVars, callVars, clientState, reconnThrState,
                   exitFlg, waiters, appPc, netSock>>

(* Mutant: nobody is notified. *)
MgrReleaseSilent ==
    /\ mgrHolds' = FALSE
    /\ mgrPc' = "top"
    /\ UNCHANGED waiters

(* notify_all, unlock, and back to the top of the loop. *)
MgrRelease ==
    /\ waiters' = {}
    /\ mgrHolds' = FALSE
    /\ mgrPc' = "top"

(* connectToRhostWithRaddr. *)
MgrConnect ==
    /\ Alive
    /\ mgrPc = "connect"
    /\ \/ /\ \E s \in Socks : /\ Fresh(s)
                              /\ reconnectedSock' = s
                              /\ open' = open \cup {s}
          /\ mgrPc' = "exchange"
          /\ UNCHANGED <<mgrHolds, waiters>>
       \/ /\ reconnectedSock' = SockError
          /\ MgrRelease
          /\ UNCHANGED open
    /\ UNCHANGED <<callVars, sock, sslSock, clientState, reconnThrState,
                   agentState, exitFlg, appPc, netSock>>

(* Mutant: the socket of a failed exchange is not closed. *)
MgrExchangeLeak ==
    /\ Alive
    /\ mgrPc = "exchange"
    /\ \/ /\ agentState' \in {"PROCESSING", "RECEIVING", "SENDING"}
          /\ mgrPc' = "switch"
          /\ UNCHANGED <<reconnectedSock, mgrHolds, waiters>>
       \/ /\ reconnectedSock' = NoSock
          /\ MgrRelease
          /\ UNCHANGED agentState
    /\ UNCHANGED <<callVars, sock, sslSock, open, clientState, reconnThrState,
                   exitFlg, appPc, netSock>>

(* sendReconnMsg and readReconMsg, either of which may fail. A reply that  *)
(* does not unpack counts as read and its null pointer is dereferenced:    *)
(* the process ends. On a connection with TLS the messages go through      *)
(* conn->ssl, whatever socket_handle_ was set to; the outcomes are these.  *)
MgrExchange ==
    /\ Alive
    /\ mgrPc = "exchange"
    /\ \/ /\ agentState' \in {"PROCESSING", "RECEIVING", "SENDING"}
          /\ mgrPc' = "switch"
          /\ UNCHANGED <<reconnectedSock, open, mgrHolds, waiters, appPc>>
       \/ /\ open' = open \ {reconnectedSock}
          /\ reconnectedSock' = NoSock
          /\ MgrRelease
          /\ UNCHANGED <<agentState, appPc>>
       \/ /\ mgrPc' = "crashed"
          /\ appPc' = "killed"
          /\ UNCHANGED <<agentState, reconnectedSock, open, mgrHolds, waiters>>
    /\ UNCHANGED <<callVars, sock, sslSock, clientState, reconnThrState, exitFlg,
                   netSock>>

MgrSwitch ==
    /\ Alive
    /\ mgrPc = "switch"
    /\ IF clientState = "PROCESSING"
       THEN SwitchConnect
       ELSE UNCHANGED <<sockVars>>
    /\ MgrRelease
    /\ UNCHANGED <<callVars, clientState, reconnThrState, exitFlg, appPc,
                   netSock>>

----------------------------------------------------------------------------
(* A condition variable may wake a thread that nobody notified. *)
SpuriousWakeup ==
    /\ Alive
    /\ \E t \in waiters : waiters' = waiters \ {t}
    /\ UNCHANGED <<sockVars, mgrVars, callVars, clientState, exitFlg,
                   appPc, netSock>>

(* A call that begins, and the steps of one that has begun.                *)
AppBegin == SendStart \/ CollStat \/ Disconnect \/ (appPc = "idle" /\ ReadStart)
AppStep == /\ appPc # "idle"
           /\ \/ SendWoken \/ Prepare \/ SendEnd \/ Transmit \/ SendRetry
              \/ ReadStart \/ Expect \/ ReadHeader \/ ReadRetry \/ ReadBody
              \/ ReadEnd \/ ReadWoken \/ CollWrite
              \/ DisconnectClose \/ DisconnectExit \/ DisconnectFree
MgrStep == \/ MgrTop \/ MgrLock \/ MgrLookup \/ MgrConnect \/ MgrExchange
           \/ MgrSwitch

Next == AppBegin \/ AppStep \/ MgrStep \/ SpuriousWakeup

Spec == Init /\ [][Next]_vars

(* Scheduling: both threads run. A call to the network or to the resolver  *)
(* returns at some time, with a result or an error; nothing makes the      *)
(* application begin a call. The application gets the mutex if it is free  *)
(* again and again: the manager sleeps for minutes before it takes it the  *)
(* next time.                                                              *)
FairSpec == Spec /\ SF_vars(AppStep) /\ WF_vars(MgrStep)

----------------------------------------------------------------------------
(* Properties *)

States == {"PROCESSING", "RECEIVING", "SENDING"}

AppLabels == {"idle", "send_wait", "prepare", "send_end", "transmit",
              "send_retry", "read_start", "expect", "header", "read_retry",
              "body", "read_failed", "read_end", "read_wait", "coll_write",
              "disc_close", "disc_exit", "disc_join", "gone", "killed"}

MgrLabels == {"top", "lock", "wait", "lookup", "connect", "exchange", "switch",
              "done", "crashed"}

(* Every variable has its type. *)
TypeOK ==
    /\ sock \in Socks
    /\ reconnectedSock \in Socks \cup {NoSock, SockError}
    /\ clientState \in States
    /\ reconnThrState \in {"PROCESSING", "CONN_WAIT"}
    /\ agentState \in States
    /\ exitFlg \in BOOLEAN
    /\ open \in SUBSET Socks
    /\ sslSock \in Socks \cup {NoSock}
    /\ mgrHolds \in BOOLEAN
    /\ waiters \in SUBSET {"app", "mgr"}
    /\ appPc \in AppLabels
    /\ mgrPc \in MgrLabels
    /\ netSock \in Socks \cup {NoSock}
    /\ reqSock \in Socks \cup {NoSock}
    /\ replied \in BOOLEAN
    /\ succeeded \in BOOLEAN

(* The application's network object is about to be used, or used again.    *)
Exchanging == appPc \in {"transmit", "send_retry", "header", "read_retry",
                         "body"}

(* From the moment the application copies conn->sock into a network object *)
(* to its last use of it, that descriptor is conn->sock and is open: the   *)
(* manager never closes or replaces the socket in the middle of a request  *)
(* or a reply, though it asks for no consent beyond clientState. The bytes *)
(* go there too, unless TLS is on and the socket has been switched: then   *)
(* they go to the descriptor the switch closed, and never to one that is   *)
(* open and not the connection's, such as a socket half reconnected.       *)
ExchangeOnCurrentSocket ==
    Exchanging => /\ netSock = sock
                  /\ sock \in open
                  /\ Wire # sock => sslSock \in Socks \ open

(* A reply is read from the descriptor its request was sent on, with TLS   *)
(* or without.                                                             *)
ReplyFromRequestSocket ==
    appPc \in {"header", "read_retry", "body"} =>
        reqSock \in {NoSock, Wire}

(* rcDisconnect has closed the socket, or the process is gone.             *)
Disconnecting == appPc \in {"disc_exit", "disc_join", "gone", "killed"}

(* Outside the manager's critical section there is one open socket, and no *)
(* reconnected one waits: "should not be here", says the code where the    *)
(* client would find one (procApiRequest.cpp:190).                         *)
NoSocketLeft ==
    ~mgrHolds /\ ~Disconnecting =>
        open = {sock} /\ reconnectedSock \notin Socks

(* PROCESSING_STATE means "the process is not sending nor receiving"       *)
(* (rcConnect.h:42): the manager relies on it. The reply to a collection   *)
(* status is written without regard to that, and left out here.            *)
ProcessingIsQuiet == clientState = "PROCESSING" => ~Exchanging

(* Between calls the state is PROCESSING, also after every error return,   *)
(* so that a manager waiting for its turn is not held up by an idle client.*)
IdleIsProcessing == appPc = "idle" => clientState = "PROCESSING"

(* Every variable has its type, and the state that the two threads share   *)
(* says what the application is doing, after every way out of a call.      *)
StateInv == TypeOK /\ ProcessingIsQuiet /\ IdleIsProcessing

(* conn->sock changes only at the hands of the manager with the mutex      *)
(* held, in a state where the application is idle, waits for the mutex or  *)
(* is disconnecting, and the socket that goes is the one that was in use.  *)
SwitchOnlyWhenQuiet ==
    [][sock' # sock => \/ mgrPc = "switch" /\ ~Exchanging /\ open' = {sock'}
                       \/ appPc \in {"disc_close", "disc_exit", "disc_join"}]_vars

(* "wait for reconnManager to get done" (rcConnect.cpp:522, :591): it gets *)
(* done, and the application goes on.                                      *)
Waiting == appPc \in {"send_wait", "read_wait"}

WaiterResumes == Waiting ~> ~Waiting

(* That holds as long as no look-up of the host name fails: the manager    *)
(* never ends before rcDisconnect tells it to.                             *)
WaiterResumesWithHost ==
    [](mgrPc = "done" => exitFlg) => WaiterResumes

(* A manager that waits for the client to stop sending or receiving gets   *)
(* its turn when the call in progress is over, or sees the connection go,  *)
(* unless wakeups that nobody asked for keep ending the client's waits,    *)
(* which test no condition.                                                *)
ManagerResumes ==
    <>[][~SpuriousWakeup]_vars =>
        (mgrPc = "wait" ~> (mgrPc # "wait" \/ Disconnecting \/ appPc = "disc_close"))

(* A call that returns a status that is not negative has read its reply.   *)
SuccessHasReply == appPc = "idle" /\ succeeded => replied
====
