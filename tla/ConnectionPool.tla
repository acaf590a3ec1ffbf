---- MODULE ConnectionPool ----
(***************************************************************************)
(* irods::connection_pool: its constructor, which fills the slots from a   *)
(* thread pool; get_connection, which spins over the slots with try_lock;  *)
(* and connection_proxy, the movable object that holds a slot.             *)
(*                                                                         *)
(* An action is one access to memory that threads share (a slot mutex, an  *)
(* in_use flag, an error flag) or one call to the server.                  *)
(***************************************************************************)
EXTENDS Naturals, FiniteSets

CONSTANTS Threads,      \* the threads that call get_connection
          Proxies,      \* the connection_proxy variables of the program
          Conns,        \* rcComm_t objects
          Size,         \* _size, the number of slots
          Workers,      \* threads of the constructor's pool
          MaxFailures,  \* bound: failed refreshes after construction
          NoConn,       \* nullptr
          NoThread,     \* an unlocked mutex
          Dead, Empty   \* a proxy that does not exist, and one moved from

ASSUME SizeAssumption == Size \in Nat \ {0}
ASSUME WorkersAssumption == Workers \in Nat \ {0}
ASSUME FailuresAssumption == MaxFailures \in Nat
ASSUME NullAssumption ==
    /\ NoConn \notin Conns
    /\ NoThread \notin Threads
    /\ Dead # Empty

Slots == 0 .. Size - 1

(* A proxy that would return its slot: pool_, conn_ and index_ are set.    *)
Holding == [conn : Conns, index : Slots]

ASSUME ProxyAssumption == Dead \notin Holding /\ Empty \notin Holding

VARIABLES phase,        \* of the constructor
          build,        \* build[s]: the constructor's task for slot s
          connectError, loginError,     \* the constructor's atomic flags
          mutex,        \* mutex[s]: the thread that has locked slot s
          inUse,        \* inUse[s]: the atomic in_use flag
          conn,         \* conn[s]: the unique_ptr of slot s
          loggedIn,     \* the connections clientLogin succeeded on
          proxy,        \* proxy[v]: Dead, Empty or the slot v holds
          pc, idx, target,  \* of get_connection in each thread
          failures,     \* refreshes that threw so far
          lost          \* history: slots that no code can return any more

ctorVars  == <<phase, build, connectError, loginError>>
slotVars  == <<mutex, inUse, conn, loggedIn>>
callVars  == <<pc, idx, target>>
vars == <<ctorVars, slotVars, proxy, callVars, failures, lost>>

----------------------------------------------------------------------------
(* Connections *)

Holds(v, s) == proxy[v] \in Holding /\ proxy[v].index = s

(* An address rcConnect may return: no slot owns it and no proxy still     *)
(* refers to it, so that a use of a freed connection stays visible.        *)
Unused(c) == /\ \A s \in Slots : conn[s] # c
             /\ \A v \in Proxies : proxy[v] \in Holding => proxy[v].conn # c

(* ctx.conn.reset(...): the new connection is in place, the old one has    *)
(* been given to rcDisconnect.                                             *)
ResetConn(s, c) ==
    /\ conn' = [conn EXCEPT ![s] = c]
    /\ loggedIn' = loggedIn \ {conn[s]}

----------------------------------------------------------------------------
(* connection_pool::connection_pool *)

Init ==
    /\ phase = "first"
    /\ build = [s \in Slots |-> "queued"]
    /\ connectError = FALSE
    /\ loginError = FALSE
    /\ mutex = [s \in Slots |-> NoThread]
    /\ inUse = [s \in Slots |-> FALSE]
    /\ conn = [s \in Slots |-> NoConn]
    /\ loggedIn = {}
    /\ proxy = [v \in Proxies |-> Dead]
    /\ pc = [t \in Threads |-> "idle"]
    /\ idx = [t \in Threads |-> 0]
    /\ target \in [Threads -> Proxies]
    /\ failures = 0
    /\ lost = {}

(* The constructor threw: conn_ctxs_ is destroyed, and every connection in *)
(* it is disconnected.                                                     *)
ConstructorThrows ==
    /\ phase' = "failed"
    /\ conn' = [s \in Slots |-> NoConn]
    /\ loggedIn' = {}

(* create_connection(0, throw, throw), and the return for a pool of one.   *)
BuildFirst ==
    /\ phase = "first"
    /\ \/ ConstructorThrows
       \/ \E c \in Conns :
            /\ Unused(c)
            /\ conn' = [conn EXCEPT ![0] = c]
            /\ loggedIn' = {c}
            /\ phase' = IF Size = 1 THEN "ready" ELSE "workers"
    /\ build' = [build EXCEPT ![0] = "finished"]
    /\ UNCHANGED <<connectError, loginError, mutex, inUse, proxy, callVars,
                   failures, lost>>

Running == {s \in Slots : build[s] \in {"connect", "login"}}

(* A worker takes the next task of the queue and reads the error flags.    *)
TaskStart(s) ==
    /\ phase = "workers"
    /\ build[s] = "queued"
    /\ \A q \in Slots : q < s => build[q] # "queued"
    /\ Cardinality(Running) < Workers
    /\ build' = [build EXCEPT ![s] =
                    IF connectError \/ loginError THEN "finished" ELSE "connect"]
    /\ UNCHANGED <<phase, connectError, loginError, slotVars, proxy, callVars,
                   failures, lost>>

(* The task's rcConnect; a null connection calls _on_connect_error.        *)
TaskConnect(s) ==
    /\ build[s] = "connect"
    /\ \/ \E c \in Conns :
            /\ Unused(c)
            /\ ResetConn(s, c)
            /\ build' = [build EXCEPT ![s] = "login"]
            /\ UNCHANGED connectError
       \/ /\ ResetConn(s, NoConn)
          /\ build' = [build EXCEPT ![s] = "finished"]
          /\ connectError' = TRUE
    /\ UNCHANGED <<phase, loginError, mutex, inUse, proxy, callVars, failures,
                   lost>>

(* The task's clientLogin; on failure the connection stays in the slot.    *)
TaskLogin(s) ==
    /\ build[s] = "login"
    /\ build' = [build EXCEPT ![s] = "finished"]
    /\ \/ /\ loggedIn' = loggedIn \cup {conn[s]}
          /\ UNCHANGED loginError
       \/ /\ loginError' = TRUE
          /\ UNCHANGED loggedIn
    /\ UNCHANGED <<phase, connectError, mutex, inUse, conn, proxy, callVars,
                   failures, lost>>

(* Mutant: login_error is not tested after the join. *)
JoinConnectErrorOnly ==
    /\ phase = "workers"
    /\ \A s \in Slots : build[s] = "finished"
    /\ IF connectError
       THEN ConstructorThrows
       ELSE phase' = "ready" /\ UNCHANGED <<conn, loggedIn>>
    /\ UNCHANGED <<build, connectError, loginError, mutex, inUse, proxy,
                   callVars, failures, lost>>

(* Mutant: a task that fails does not count as ended. *)
JoinSuccesses ==
    /\ phase = "workers"
    /\ \A s \in Slots : build[s] = "finished" /\ conn[s] \in loggedIn
    /\ IF connectError \/ loginError
       THEN ConstructorThrows
       ELSE phase' = "ready" /\ UNCHANGED <<conn, loggedIn>>
    /\ UNCHANGED <<build, connectError, loginError, mutex, inUse, proxy,
                   callVars, failures, lost>>

(* thread_pool.join(), and the two tests after it. *)
Join ==
    /\ phase = "workers"
    /\ \A s \in Slots : build[s] = "finished"
    /\ IF connectError \/ loginError
       THEN ConstructorThrows
       ELSE phase' = "ready" /\ UNCHANGED <<conn, loggedIn>>
    /\ UNCHANGED <<build, connectError, loginError, mutex, inUse, proxy,
                   callVars, failures, lost>>

----------------------------------------------------------------------------
(* connection_pool::get_connection in thread t, into proxy variable v *)

Goto(t, l) == pc' = [pc EXCEPT ![t] = l]
Unlock(t) == mutex' = [mutex EXCEPT ![idx[t]] = NoThread]

(* Mutant: the index does not wrap around. *)
NextSlotUnbounded(t) == idx' = [idx EXCEPT ![t] = idx[t] + 1]

NextSlot(t) == idx' = [idx EXCEPT ![t] = (idx[t] + 1) % Size]

GetConnection(t, v) ==
    /\ phase = "ready"
    /\ pc[t] = "idle"
    /\ proxy[v] = Dead
    /\ \A u \in Threads : pc[u] # "idle" => target[u] # v
    /\ Goto(t, "try_lock")
    /\ idx' = [idx EXCEPT ![t] = 0]
    /\ target' = [target EXCEPT ![t] = v]
    /\ UNCHANGED <<ctorVars, slotVars, proxy, failures, lost>>

TryLock(t) ==
    /\ pc[t] = "try_lock"
    /\ IF mutex[idx[t]] = NoThread
       THEN /\ mutex' = [mutex EXCEPT ![idx[t]] = t]
            /\ Goto(t, "load")
            /\ UNCHANGED idx
       ELSE /\ NextSlot(t)
            /\ UNCHANGED <<mutex, pc>>
    /\ UNCHANGED <<ctorVars, inUse, conn, loggedIn, proxy, target, failures,
                   lost>>

(* Mutant: in_use is not looked at. *)
LoadInUseIgnored(t) ==
    /\ pc[t] = "load"
    /\ Goto(t, "store")
    /\ UNCHANGED <<ctorVars, slotVars, proxy, idx, target, failures, lost>>

(* Mutant: the lock on a slot in use is kept. *)
LoadInUseKeepsLock(t) ==
    /\ pc[t] = "load"
    /\ IF inUse[idx[t]]
       THEN NextSlot(t) /\ Goto(t, "try_lock")
       ELSE Goto(t, "store") /\ UNCHANGED idx
    /\ UNCHANGED <<ctorVars, slotVars, proxy, target, failures, lost>>

(* in_use.load(); a taken slot is unlocked and the next one is tried. *)
LoadInUse(t) ==
    /\ pc[t] = "load"
    /\ IF inUse[idx[t]]
       THEN Unlock(t) /\ NextSlot(t) /\ Goto(t, "try_lock")
       ELSE Goto(t, "store") /\ UNCHANGED <<mutex, idx>>
    /\ UNCHANGED <<ctorVars, inUse, conn, loggedIn, proxy, target, failures,
                   lost>>

StoreInUse(t) ==
    /\ pc[t] = "store"
    /\ inUse' = [inUse EXCEPT ![idx[t]] = TRUE]
    /\ Goto(t, "verify")
    /\ UNCHANGED <<ctorVars, mutex, conn, loggedIn, proxy, idx, target,
                   failures, lost>>

(* verify_connection: false for a null connection; the query it sends, or  *)
(* the age of the connection, may make it false for any other.             *)
Verify(t) ==
    /\ pc[t] = "verify"
    /\ \/ conn[idx[t]] # NoConn /\ Goto(t, "hand_out")
       \/ Goto(t, "connect")
    /\ UNCHANGED <<ctorVars, slotVars, proxy, idx, target, failures, lost>>

(* create_connection: rcConnect. *)
Connect(t) ==
    /\ pc[t] = "connect"
    /\ \/ \E c \in Conns :
            Unused(c) /\ ResetConn(idx[t], c) /\ Goto(t, "login")
            /\ UNCHANGED failures
       \/ /\ failures < MaxFailures
          /\ failures' = failures + 1
          /\ ResetConn(idx[t], NoConn)
          /\ Goto(t, "throw")
    /\ UNCHANGED <<ctorVars, mutex, inUse, proxy, idx, target, lost>>

(* Mutant: a failed login is not noticed. *)
LoginUnchecked(t) ==
    /\ pc[t] = "login"
    /\ loggedIn' \in {loggedIn, loggedIn \cup {conn[idx[t]]}}
    /\ Goto(t, "hand_out")
    /\ UNCHANGED <<ctorVars, mutex, inUse, conn, proxy, idx, target, failures,
                   lost>>

(* create_connection: clientLogin. *)
Login(t) ==
    /\ pc[t] = "login"
    /\ \/ /\ loggedIn' = loggedIn \cup {conn[idx[t]]}
          /\ Goto(t, "hand_out")
          /\ UNCHANGED failures
       \/ /\ failures < MaxFailures
          /\ failures' = failures + 1
          /\ Goto(t, "throw")
          /\ UNCHANGED loggedIn
    /\ UNCHANGED <<ctorVars, mutex, inUse, conn, proxy, idx, target, lost>>

(* The exception of a failed refresh leaves get_connection: the lock is    *)
(* released, in_use is not reset, and no proxy was made.                   *)
Throw(t) ==
    /\ pc[t] = "throw"
    /\ Unlock(t)
    /\ lost' = lost \cup {idx[t]}
    /\ Goto(t, "idle")
    /\ UNCHANGED <<ctorVars, inUse, conn, loggedIn, proxy, idx, target,
                   failures>>

(* return {*this, *refresh_connection(i), i}: the caller's proxy exists    *)
(* and the lock is released.                                               *)
HandOut(t) ==
    /\ pc[t] = "hand_out"
    /\ proxy' = [proxy EXCEPT ![target[t]] =
                    [conn |-> conn[idx[t]], index |-> idx[t]]]
    /\ Unlock(t)
    /\ Goto(t, "idle")
    /\ UNCHANGED <<ctorVars, inUse, conn, loggedIn, idx, target, failures, lost>>

----------------------------------------------------------------------------
(* connection_pool::connection_proxy *)

(* Mutant: the destructor does not return the connection. *)
DestroyOnly(v) ==
    /\ proxy[v] # Dead
    /\ proxy' = [proxy EXCEPT ![v] = Dead]
    /\ UNCHANGED <<ctorVars, slotVars, callVars, failures, lost>>

(* ~connection_proxy, and return_connection, which takes no lock. *)
Destroy(v) ==
    /\ proxy[v] # Dead
    /\ proxy' = [proxy EXCEPT ![v] = Dead]
    /\ inUse' = IF proxy[v] \in Holding
                THEN [inUse EXCEPT ![proxy[v].index] = FALSE]
                ELSE inUse
    /\ UNCHANGED <<ctorVars, mutex, conn, loggedIn, callVars, failures, lost>>

(* Mutant: the source keeps its pool_ pointer. *)
CopyConstruct(v, w) ==
    /\ proxy[v] = Dead
    /\ \A t \in Threads : pc[t] # "idle" => target[t] # v
    /\ proxy[w] # Dead
    /\ proxy' = [proxy EXCEPT ![v] = proxy[w]]
    /\ UNCHANGED <<ctorVars, slotVars, callVars, failures, lost>>

(* connection_proxy(connection_proxy&& w) makes v. *)
MoveConstruct(v, w) ==
    /\ proxy[v] = Dead
    /\ \A t \in Threads : pc[t] # "idle" => target[t] # v
    /\ proxy[w] # Dead
    /\ proxy' = [proxy EXCEPT ![v] = proxy[w], ![w] = Empty]
    /\ UNCHANGED <<ctorVars, slotVars, callVars, failures, lost>>

(* v = std::move(w): what v held is overwritten, not returned, and w is    *)
(* cleared last, also when v and w are the same object.                    *)
MoveAssign(v, w) ==
    /\ proxy[v] # Dead
    /\ proxy[w] # Dead
    /\ proxy' = [proxy EXCEPT ![v] = proxy[w], ![w] = Empty]
    /\ lost' = IF proxy[v] \in Holding THEN lost \cup {proxy[v].index} ELSE lost
    /\ UNCHANGED <<ctorVars, slotVars, callVars, failures>>

----------------------------------------------------------------------------
Build == \/ BuildFirst
         \/ Join
         \/ \E s \in Slots : TaskStart(s) \/ TaskConnect(s) \/ TaskLogin(s)

(* The steps of a call that has begun. *)
Step(t) == \/ TryLock(t) \/ LoadInUse(t) \/ StoreInUse(t) \/ Verify(t)
           \/ Connect(t) \/ Login(t) \/ Throw(t) \/ HandOut(t)

Next == \/ Build
        \/ \E t \in Threads : Step(t) \/ \E v \in Proxies : GetConnection(t, v)
        \/ \E v \in Proxies : Destroy(v)
        \/ \E v, w \in Proxies : MoveConstruct(v, w) \/ MoveAssign(v, w)

Spec == Init /\ [][Next]_vars

(* Scheduling: the constructor's thread pool and every calling thread run, *)
(* and whoever holds a slot destroys its proxy at some time, wherever the  *)
(* slot has been moved to meanwhile. Nothing makes a program call          *)
(* get_connection, or move a proxy.                                        *)
ReturnSlot(s) == \E v \in Proxies : Holds(v, s) /\ Destroy(v)

FairSpec == /\ Spec
            /\ WF_vars(Build)
            /\ \A t \in Threads : WF_vars(Step(t))
            /\ \A s \in Slots : WF_vars(ReturnSlot(s))

----------------------------------------------------------------------------
(* Properties *)

Labels == {"idle", "try_lock", "load", "store", "verify", "connect", "login",
           "hand_out", "throw"}

(* Every variable has its type. *)
TypeOK ==
    /\ phase \in {"first", "workers", "ready", "failed"}
    /\ build \in [Slots -> {"queued", "connect", "login", "finished"}]
    /\ connectError \in BOOLEAN
    /\ loginError \in BOOLEAN
    /\ mutex \in [Slots -> Threads \cup {NoThread}]
    /\ inUse \in [Slots -> BOOLEAN]
    /\ conn \in [Slots -> Conns \cup {NoConn}]
    /\ loggedIn \in SUBSET Conns
    /\ proxy \in [Proxies -> Holding \cup {Dead, Empty}]
    /\ pc \in [Threads -> Labels]
    /\ idx \in [Threads -> Slots]
    /\ target \in [Threads -> Proxies]
    /\ failures \in Nat
    /\ lost \in SUBSET Slots

(* Thread t is between in_use.store(true) and the end of get_connection.   *)
Claims(t, s) ==
    pc[t] \in {"verify", "connect", "login", "hand_out", "throw"} /\ idx[t] = s

(* A connection never has two users: no two proxies hold one slot, and no  *)
(* thread verifies, replaces or hands out the connection of a slot that a  *)
(* proxy holds or that another thread is refreshing.                       *)
Exclusive ==
    \A s \in Slots :
        /\ \A v, w \in Proxies : Holds(v, s) /\ Holds(w, s) => v = w
        /\ \A t \in Threads : Claims(t, s) =>
              /\ \A v \in Proxies : ~Holds(v, s)
              /\ \A u \in Threads : Claims(u, s) => u = t

(* The rcComm_t behind a proxy is the one its slot owns and is logged in,  *)
(* for as long as the proxy holds it: operator rcComm_t& never yields a    *)
(* connection that another call has disconnected or that failed to log in. *)
HeldConnectionUsable ==
    \A v \in Proxies : proxy[v] \in Holding =>
        /\ conn[proxy[v].index] = proxy[v].conn
        /\ proxy[v].conn \in loggedIn

(* in_use says exactly what it should: a slot is marked when a proxy holds *)
(* it, a call is refreshing it or it has been lost, and never two of them. *)
SlotAccounting ==
    \A s \in Slots :
        LET held    == \E v \in Proxies : Holds(v, s)
            claimed == \E t \in Threads : Claims(t, s)
        IN /\ inUse[s] <=> held \/ claimed \/ s \in lost
           /\ ~(held /\ s \in lost)
           /\ ~(claimed /\ s \in lost)

(* A slot that get_connection may pick has a connection that was logged in *)
(* even though half-built ones are left in place by a failed clientLogin   *)
(* and skipped by tasks that found an error flag set.                      *)
AvailableConnectionUsable ==
    phase = "ready" => \A s \in Slots : ~inUse[s] => conn[s] \in loggedIn

(* What the pool's users see of it: which slot a proxy has, and the slots  *)
(* that are free. A slot changes hands when its proxy comes to exist; the  *)
(* call that refreshes it has only reserved it.                            *)
SlotOf == [v \in Proxies |-> IF proxy[v] \in Holding THEN proxy[v].index
                                                     ELSE Empty]
FreeSlots == {s \in Slots : ~inUse[s] \/ \E t \in Threads : Claims(t, s)}

Ownership == INSTANCE SlotOwnership
                WITH None <- Empty, has <- SlotOf, free <- FreeSlots

(* The pool implements slot ownership: it is handed out only when free, by *)
(* one proxy at a time, and comes back only from the proxy that has it.    *)
ImplementsOwnership == Ownership!OwnerSpec

(* The constructor ends, whatever the connections do. *)
ConstructorEnds == <>(phase \in {"ready", "failed"})

(* While a slot is left that has not been lost, spinning threads cannot    *)
(* hold each other up for ever: some call gets its connection or throws.   *)
SomeCallEnds ==
    (\E t \in Threads : pc[t] = "try_lock")
        ~> (lost = Slots \/ \E t \in Threads : pc[t] \in {"hand_out", "throw"})

(* The comment on connection_proxy: "On destruction, the underlying        *)
(* connection is immediately returned to the pool." With no proxy left and *)
(* no call running every slot would be available.                          *)
EveryConnectionReturned ==
    /\ \A v \in Proxies : proxy[v] = Dead
    /\ \A t \in Threads : pc[t] = "idle"
    => \A s \in Slots : ~inUse[s]
====
