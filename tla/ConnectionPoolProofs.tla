---- MODULE ConnectionPoolProofs ----
(***************************************************************************)
(* Proofs about ConnectionPool, for any number of threads, proxies, slots, *)
(* workers and failures.                                                   *)
(***************************************************************************)
EXTENDS ConnectionPool, TLAPS

(* A thread owns a slot's mutex exactly while it is between its try_lock   *)
(* and the release of its unique_lock on that slot.                        *)
Locked(t, s) == pc[t] \notin {"idle", "try_lock"} /\ idx[t] = s

MutexInv == \A t \in Threads, s \in Slots : mutex[s] = t <=> Locked(t, s)

(* Until the constructor has returned there are no calls and no proxies.   *)
BuildInv ==
    phase # "ready" =>
        /\ \A t \in Threads : pc[t] = "idle"
        /\ \A v \in Proxies : proxy[v] = Dead
        /\ \A s \in Slots : ~inUse[s]
        /\ lost = {}

(* What each step of a call knows of its slot. *)
CallInv ==
    \A t \in Threads :
        /\ pc[t] = "store" => ~inUse[idx[t]]
        /\ pc[t] = "hand_out" => conn[idx[t]] \in loggedIn
        /\ pc[t] = "login" => conn[idx[t]] \in Conns
        /\ pc[t] = "verify" /\ conn[idx[t]] # NoConn =>
               conn[idx[t]] \in loggedIn

(* A call's proxy variable is not in use and is its own. *)
TargetInv ==
    \A t \in Threads : pc[t] # "idle" =>
        /\ proxy[target[t]] = Dead
        /\ \A u \in Threads : pc[u] # "idle" /\ target[u] = target[t] => u = t

(* Every slot owns its own rcComm_t. *)
OwnConn == \A s, q \in Slots : conn[s] = conn[q] /\ conn[s] # NoConn => s = q

(* The constructor's tasks: a finished one has left its connection logged  *)
(* in, unless an error flag is set.                                        *)
TaskInv ==
    /\ phase = "first" => \A s \in Slots : build[s] = "queued"
    /\ phase \in {"ready", "failed"} =>
         \A s \in Slots : build[s] \notin {"connect", "login"}
    /\ \A s \in Slots : build[s] = "login" => conn[s] \in Conns
    /\ phase = "workers" /\ ~connectError /\ ~loginError =>
         \A s \in Slots : build[s] = "finished" => conn[s] \in loggedIn

Inv == /\ TypeOK /\ MutexInv /\ BuildInv /\ CallInv /\ TargetInv /\ OwnConn
       /\ TaskInv
       /\ Exclusive /\ HeldConnectionUsable /\ SlotAccounting
       /\ AvailableConnectionUsable

----------------------------------------------------------------------------
(* Slots is not empty, and the index that get_connection goes through      *)
(* stays in it.                                                            *)
LEMMA SlotFacts ==
    /\ 0 \in Slots
    /\ \A i \in Slots : (i + 1) % Size \in Slots
    /\ Size = 1 => \A i \in Slots : i = 0
BY SizeAssumption, SMT DEF Slots

(* The constructor starts with every slot empty and nobody there.          *)
LEMMA InitInv == Init => Inv
<1> SUFFICES ASSUME Init PROVE Inv
    OBVIOUS
<1> USE SlotFacts, NullAssumption, ProxyAssumption DEF Init
<1>1. TypeOK
    BY DEF TypeOK, Labels
<1>2. MutexInv /\ BuildInv /\ CallInv /\ TargetInv /\ OwnConn /\ TaskInv
    BY DEF MutexInv, Locked, BuildInv, CallInv, TargetInv, OwnConn, TaskInv
<1>3. Exclusive /\ HeldConnectionUsable /\ SlotAccounting
      /\ AvailableConnectionUsable
    BY DEF Exclusive, HeldConnectionUsable, SlotAccounting,
           AvailableConnectionUsable, Holds, Claims
<1> QED BY <1>1, <1>2, <1>3 DEF Inv

----------------------------------------------------------------------------
(* The steps of the constructor keep the invariant.                        *)

(* The first connection, or the exception: there are no calls and no       *)
(* proxies yet that could refer to anything.                               *)
LEMMA BuildFirstKeepsInv ==
    ASSUME Inv, BuildFirst
    PROVE  Inv'
<1>1. TypeOK'
  BY SlotFacts DEF Inv, TypeOK, BuildFirst, ConstructorThrows, callVars
<1>2. BuildInv'
  BY DEF Inv, BuildInv, BuildFirst, callVars
<1>3. CallInv'
  BY DEF Inv, CallInv, BuildInv, BuildFirst, callVars
<1>4. OwnConn'
  BY DEF Inv, OwnConn, TypeOK, BuildFirst, ConstructorThrows, Unused
<1>5. TaskInv'
  BY DEF Inv, TaskInv, TypeOK, BuildFirst, ConstructorThrows
<1>6. HeldConnectionUsable'
  BY ProxyAssumption DEF Inv, HeldConnectionUsable, BuildInv, BuildFirst
<1>7. AvailableConnectionUsable'
  BY SlotFacts
     DEF Inv, AvailableConnectionUsable, TypeOK, BuildFirst,
         ConstructorThrows
<1>8. MutexInv' /\ TargetInv' /\ Exclusive' /\ SlotAccounting'
  BY DEF Inv, MutexInv, TargetInv, Exclusive, SlotAccounting, Locked, Holds,
         Claims, BuildFirst, callVars
<1> QED BY <1>1, <1>2, <1>3, <1>4, <1>5, <1>6, <1>7, <1>8 DEF Inv

(* The pool is ready only if no flag was set, and then every task has left *)
(* a connection that is logged in.                                         *)
LEMMA JoinKeepsInv ==
    ASSUME Inv, Join
    PROVE  Inv'
<1>1. TypeOK'
  BY DEF Inv, TypeOK, Join, ConstructorThrows, callVars
<1>2. BuildInv'
  BY DEF Inv, BuildInv, Join, callVars
<1>3. CallInv'
  BY DEF Inv, CallInv, BuildInv, Join, callVars
<1>4. OwnConn'
  BY DEF Inv, OwnConn, Join, ConstructorThrows
<1>5. TaskInv'
  BY DEF Inv, TaskInv, Join, ConstructorThrows
<1>6. HeldConnectionUsable'
  BY ProxyAssumption DEF Inv, HeldConnectionUsable, BuildInv, Join, ctorVars
<1>7. AvailableConnectionUsable'
  BY DEF Inv, AvailableConnectionUsable, TaskInv, Join, ConstructorThrows
<1>8. MutexInv' /\ TargetInv' /\ Exclusive' /\ SlotAccounting'
  BY DEF Inv, MutexInv, TargetInv, Exclusive, SlotAccounting, Locked, Holds,
         Claims, Join, callVars
<1> QED BY <1>1, <1>2, <1>3, <1>4, <1>5, <1>6, <1>7, <1>8 DEF Inv

(* A task starts, or is skipped because of a flag.                         *)
LEMMA TaskStartKeepsInv ==
    ASSUME Inv, NEW s \in Slots, TaskStart(s)
    PROVE  Inv'
<1>1. TypeOK'
  BY DEF Inv, TypeOK, TaskStart, slotVars, callVars
<1>2. TaskInv'
  BY DEF Inv, TaskInv, TaskStart, slotVars
<1>3. MutexInv' /\ BuildInv' /\ CallInv' /\ TargetInv' /\ OwnConn' /\
      Exclusive' /\ HeldConnectionUsable' /\ SlotAccounting' /\
      AvailableConnectionUsable'
  BY DEF Inv, MutexInv, BuildInv, CallInv, TargetInv, OwnConn, Exclusive,
         HeldConnectionUsable, SlotAccounting, AvailableConnectionUsable,
         Locked, Holds, Claims, TaskStart, slotVars, callVars
<1> QED BY <1>1, <1>2, <1>3 DEF Inv

(* A task puts a new connection into its own slot: no other slot has it,   *)
(* and nobody holds one yet.                                               *)
LEMMA TaskConnectKeepsInv ==
    ASSUME Inv, NEW s \in Slots, TaskConnect(s)
    PROVE  Inv'
<1>1. TypeOK'
  <2>1. CASE \E c \in Conns : /\ ResetConn(s, c)
                             /\ build' = [build EXCEPT ![s] = "login"]
                             /\ UNCHANGED connectError
    BY <2>1 DEF Inv, TypeOK, TaskConnect, ResetConn, callVars
  <2>2. CASE /\ ResetConn(s, NoConn)
             /\ build' = [build EXCEPT ![s] = "finished"]
             /\ connectError' = TRUE
    BY <2>2 DEF Inv, TypeOK, TaskConnect, ResetConn, callVars
  <2> QED BY <2>1, <2>2 DEF TaskConnect
<1>2. CallInv'
  BY DEF Inv, CallInv, BuildInv, TaskInv, TaskConnect, callVars
<1>3. OwnConn'
  BY DEF Inv, OwnConn, TypeOK, TaskConnect, ResetConn, Unused
<1>4. TaskInv'
  BY NullAssumption DEF Inv, TaskInv, TypeOK, OwnConn, TaskConnect, ResetConn
<1>5. HeldConnectionUsable'
  BY ProxyAssumption
     DEF Inv, HeldConnectionUsable, BuildInv, TaskInv, TaskConnect
<1>6. AvailableConnectionUsable'
  BY DEF Inv, AvailableConnectionUsable, TaskInv, TaskConnect
<1>7. MutexInv' /\ BuildInv' /\ TargetInv' /\ Exclusive' /\
      SlotAccounting'
  BY DEF Inv, MutexInv, BuildInv, TargetInv, Exclusive, SlotAccounting,
         Locked, Holds, Claims, TaskConnect, callVars
<1> QED BY <1>1, <1>2, <1>3, <1>4, <1>5, <1>6, <1>7 DEF Inv

(* A task logs its connection in, or sets the flag.                        *)
LEMMA TaskLoginKeepsInv ==
    ASSUME Inv, NEW s \in Slots, TaskLogin(s)
    PROVE  Inv'
<1>1. TypeOK'
  BY DEF Inv, TypeOK, TaskInv, TaskLogin, callVars
<1>2. CallInv'
  BY DEF Inv, CallInv, TaskLogin, callVars
<1>3. TaskInv'
  BY DEF Inv, TaskInv, TaskLogin
<1>4. HeldConnectionUsable'
  BY DEF Inv, HeldConnectionUsable, TaskLogin
<1>5. AvailableConnectionUsable'
  BY DEF Inv, AvailableConnectionUsable, TaskLogin
<1>6. MutexInv' /\ BuildInv' /\ TargetInv' /\ OwnConn' /\ Exclusive' /\
      SlotAccounting'
  BY DEF Inv, MutexInv, BuildInv, TargetInv, OwnConn, Exclusive,
         SlotAccounting, Locked, Holds, Claims, TaskLogin, callVars
<1> QED BY <1>1, <1>2, <1>3, <1>4, <1>5, <1>6 DEF Inv

----------------------------------------------------------------------------
(* The steps of get_connection keep the invariant.                         *)

(* A call begins in a proxy variable that no one uses.                     *)
LEMMA GetConnectionKeepsInv ==
    ASSUME Inv, NEW t \in Threads, NEW v \in Proxies, GetConnection(t, v)
    PROVE  Inv'
<1>1. TypeOK'
  BY SlotFacts
     DEF Inv, TypeOK, Labels, GetConnection, Goto, slotVars, ctorVars
<1>2. MutexInv'
  BY DEF Inv, MutexInv, Locked, GetConnection, Goto, slotVars
<1>3. BuildInv'
  BY DEF Inv, BuildInv, GetConnection, slotVars, ctorVars
<1>4. CallInv'
  BY DEF Inv, CallInv, GetConnection, Goto, slotVars
<1>5. TargetInv'
  BY DEF Inv, TargetInv, TypeOK, GetConnection, Goto
<1>6. Exclusive'
  BY DEF Inv, Exclusive, Holds, Claims, GetConnection, Goto
<1>7. SlotAccounting'
  BY DEF Inv, SlotAccounting, Holds, Claims, GetConnection, Goto, slotVars
<1>8. OwnConn' /\ TaskInv' /\ HeldConnectionUsable' /\
      AvailableConnectionUsable'
  BY DEF Inv, OwnConn, TaskInv, HeldConnectionUsable,
         AvailableConnectionUsable, GetConnection, slotVars, ctorVars
<1> QED BY <1>1, <1>2, <1>3, <1>4, <1>5, <1>6, <1>7, <1>8 DEF Inv

(* A thread takes a free mutex, or goes on to the next slot.               *)
LEMMA TryLockKeepsInv ==
    ASSUME Inv, NEW t \in Threads, TryLock(t)
    PROVE  Inv'
<1>1. TypeOK'
  BY SlotFacts DEF Inv, TypeOK, Labels, TryLock, Goto, NextSlot, ctorVars
<1>2. MutexInv'
  BY NullAssumption DEF Inv, MutexInv, Locked, TypeOK, TryLock, Goto, NextSlot
<1>3. BuildInv'
  BY DEF Inv, BuildInv, TryLock, NextSlot, ctorVars
<1>4. CallInv'
  BY DEF Inv, CallInv, TypeOK, TryLock, Goto, NextSlot
<1>5. TargetInv'
  BY DEF Inv, TargetInv, TypeOK, TryLock, Goto, NextSlot
<1>6. Exclusive'
  BY DEF Inv, Exclusive, Holds, Claims, TypeOK, TryLock, Goto, NextSlot
<1>7. SlotAccounting'
  BY DEF Inv, SlotAccounting, Holds, Claims, TypeOK, TryLock, Goto, NextSlot
<1>8. OwnConn' /\ TaskInv' /\ HeldConnectionUsable' /\
      AvailableConnectionUsable'
  BY DEF Inv, OwnConn, TaskInv, HeldConnectionUsable,
         AvailableConnectionUsable, TryLock, ctorVars
<1> QED BY <1>1, <1>2, <1>3, <1>4, <1>5, <1>6, <1>7, <1>8 DEF Inv

(* A taken slot is unlocked; one that is not is known to be free.          *)
LEMMA LoadInUseKeepsInv ==
    ASSUME Inv, NEW t \in Threads, LoadInUse(t)
    PROVE  Inv'
<1>1. TypeOK'
  BY SlotFacts
     DEF Inv, TypeOK, Labels, LoadInUse, Goto, Unlock, NextSlot, ctorVars
<1>2. MutexInv'
  BY NullAssumption
     DEF Inv, MutexInv, Locked, TypeOK, LoadInUse, Goto, Unlock, NextSlot,
         ctorVars
<1>3. BuildInv'
  BY DEF Inv, BuildInv, LoadInUse, NextSlot, ctorVars
<1>4. CallInv'
  BY DEF Inv, CallInv, TypeOK, LoadInUse, Goto, NextSlot
<1>5. TargetInv'
  BY DEF Inv, TargetInv, TypeOK, LoadInUse, Goto, NextSlot
<1>6. Exclusive'
  BY NullAssumption
     DEF Inv, Exclusive, Holds, Claims, TypeOK, LoadInUse, Goto, Unlock,
         NextSlot
<1>7. SlotAccounting'
  BY DEF Inv, SlotAccounting, Holds, Claims, TypeOK, LoadInUse, Goto,
         NextSlot
<1>8. OwnConn'
  BY DEF Inv, OwnConn, LoadInUse, NextSlot
<1>9. TaskInv'
  BY DEF Inv, TaskInv, LoadInUse, NextSlot, ctorVars
<1>10. HeldConnectionUsable'
  BY DEF Inv, HeldConnectionUsable, LoadInUse, NextSlot
<1>11. AvailableConnectionUsable'
  BY DEF Inv, AvailableConnectionUsable, LoadInUse, NextSlot, ctorVars
<1> QED BY <1>1, <1>2, <1>3, <1>4, <1>5, <1>6, <1>7, <1>8, <1>9, <1>10, <1>11
     DEF Inv

(* The thread that found in_use reset sets it. The mutex keeps any other   *)
(* from having found the same, and a proxy can only reset it: the slot is  *)
(* free, and its connection is logged in.                                  *)
LEMMA StoreInUseKeepsInv ==
    ASSUME Inv, NEW t \in Threads, StoreInUse(t)
    PROVE  Inv'
<1>1. TypeOK'
  BY DEF Inv, TypeOK, Labels, StoreInUse, Goto, ctorVars
<1>2. MutexInv'
  BY DEF Inv, MutexInv, Locked, StoreInUse, Goto
<1>3. BuildInv'
  BY DEF Inv, BuildInv, StoreInUse, ctorVars
<1>4. CallInv'
  <2>1. phase = "ready" BY DEF Inv, BuildInv, StoreInUse
  <2>2. conn[idx[t]] \in loggedIn
    BY <2>1 DEF Inv, TypeOK, CallInv, AvailableConnectionUsable, StoreInUse
  <2>3. \A u \in Threads : u # t /\ pc[u] = "store" => idx[u] # idx[t]
    BY DEF Inv, TypeOK, MutexInv, Locked, StoreInUse
  <2> QED BY <2>2, <2>3 DEF Inv, TypeOK, CallInv, StoreInUse, Goto
<1>5. TargetInv'
  BY DEF Inv, TargetInv, StoreInUse, Goto
<1>6. Exclusive'
  BY DEF Inv, Exclusive, Holds, Claims, CallInv, SlotAccounting, StoreInUse,
         Goto
<1>7. SlotAccounting'
  BY DEF Inv, SlotAccounting, Holds, Claims, TypeOK, CallInv, StoreInUse,
         Goto
<1>8. AvailableConnectionUsable'
  BY DEF Inv, AvailableConnectionUsable, StoreInUse, ctorVars
<1>9. OwnConn' /\ TaskInv' /\ HeldConnectionUsable'
  BY DEF Inv, OwnConn, TaskInv, HeldConnectionUsable, StoreInUse, ctorVars
<1> QED BY <1>1, <1>2, <1>3, <1>4, <1>5, <1>6, <1>7, <1>8, <1>9 DEF Inv

(* The connection is found good, or will be replaced.                      *)
LEMMA VerifyKeepsInv ==
    ASSUME Inv, NEW t \in Threads, Verify(t)
    PROVE  Inv'
<1>1. TypeOK'
  BY DEF Inv, TypeOK, Labels, Verify, Goto, slotVars, ctorVars
<1>2. MutexInv'
  BY DEF Inv, MutexInv, Locked, TypeOK, Verify, Goto, slotVars
<1>3. BuildInv'
  BY DEF Inv, BuildInv, Verify, slotVars, ctorVars
<1>4. CallInv'
  BY DEF Inv, CallInv, TypeOK, Verify, Goto, slotVars
<1>5. TargetInv'
  BY DEF Inv, TargetInv, TypeOK, Verify, Goto
<1>6. Exclusive'
  BY DEF Inv, Exclusive, Holds, Claims, TypeOK, Verify, Goto
<1>7. SlotAccounting'
  BY DEF Inv, SlotAccounting, Holds, Claims, TypeOK, Verify, Goto, slotVars
<1>8. OwnConn' /\ TaskInv' /\ HeldConnectionUsable' /\
      AvailableConnectionUsable'
  BY DEF Inv, OwnConn, TaskInv, HeldConnectionUsable,
         AvailableConnectionUsable, Verify, slotVars, ctorVars
<1> QED BY <1>1, <1>2, <1>3, <1>4, <1>5, <1>6, <1>7, <1>8 DEF Inv

(* The connection of a claimed slot is replaced: no proxy holds that slot, *)
(* and the new connection is no other slot's.                              *)
LEMMA ConnectKeepsInv ==
    ASSUME Inv, NEW t \in Threads, Connect(t)
    PROVE  Inv'
<1>1. TypeOK'
  BY DEF Inv, TypeOK, Labels, Connect, ResetConn, Goto, ctorVars
<1>2. MutexInv'
  BY DEF Inv, MutexInv, Locked, TypeOK, Connect, Goto
<1>3. BuildInv'
  BY DEF Inv, BuildInv, Connect, ctorVars
<1>4. CallInv'
  BY NullAssumption
     DEF Inv, CallInv, TypeOK, OwnConn, Exclusive, Holds, Claims, Connect,
         ResetConn, Goto, ctorVars
<1>5. TargetInv'
  BY DEF Inv, TargetInv, TypeOK, Connect, Goto
<1>6. OwnConn'
  BY DEF Inv, OwnConn, TypeOK, Connect, ResetConn, Unused
<1>7. TaskInv'
  BY DEF Inv, TaskInv, BuildInv, Connect, ctorVars
<1>8. Exclusive'
  BY DEF Inv, Exclusive, Holds, Claims, TypeOK, Connect, Goto, Unused
<1>9. HeldConnectionUsable'
  <2> SUFFICES ASSUME NEW v \in Proxies, proxy[v] \in Holding
               PROVE  /\ conn'[proxy[v].index] = proxy[v].conn
                      /\ proxy[v].conn \in loggedIn'
    BY DEF Connect, HeldConnectionUsable
  <2> DEFINE i == idx[t]  q == proxy[v].index
  <2>1. /\ i \in Slots /\ q \in Slots /\ proxy[v].conn \in Conns
        /\ conn \in [Slots -> Conns \cup {NoConn}]
    BY DEF Inv, TypeOK, Holding
  <2>2. q # i BY <2>1 DEF Inv, Exclusive, Claims, Holds, Connect
  <2>3. conn[q] = proxy[v].conn /\ proxy[v].conn \in loggedIn
    BY DEF Inv, HeldConnectionUsable
  <2>4. conn[i] # conn[q]
    BY <2>1, <2>2, <2>3, NullAssumption DEF Inv, OwnConn
  <2>5. \E c \in Conns \cup {NoConn} : ResetConn(i, c) BY DEF Connect
  <2> QED BY <2>1, <2>2, <2>3, <2>4, <2>5 DEF ResetConn
<1>10. SlotAccounting'
  BY DEF Inv, SlotAccounting, Holds, Claims, TypeOK, Connect, Goto
<1>11. AvailableConnectionUsable'
  BY NullAssumption
     DEF Inv, AvailableConnectionUsable, TypeOK, OwnConn, SlotAccounting,
         Holds, Claims, Connect, ResetConn, ctorVars
<1> QED BY <1>1, <1>2, <1>3, <1>4, <1>5, <1>6, <1>7, <1>8, <1>9, <1>10, <1>11
     DEF Inv

(* The new connection is logged in, or the call will throw.                *)
LEMMA LoginKeepsInv ==
    ASSUME Inv, NEW t \in Threads, Login(t)
    PROVE  Inv'
<1>1. TypeOK'
  BY DEF Inv, TypeOK, Labels, CallInv, Login, Goto, ctorVars
<1>2. MutexInv'
  BY DEF Inv, MutexInv, Locked, TypeOK, Login, Goto
<1>3. BuildInv'
  BY DEF Inv, BuildInv, Login, ctorVars
<1>4. CallInv'
  BY DEF Inv, CallInv, TypeOK, Login, Goto
<1>5. TargetInv'
  BY DEF Inv, TargetInv, TypeOK, Login, Goto
<1>6. TaskInv'
  BY DEF Inv, TaskInv, Login, ctorVars
<1>7. Exclusive'
  BY DEF Inv, Exclusive, Holds, Claims, TypeOK, Login, Goto, ctorVars
<1>8. HeldConnectionUsable'
  BY DEF Inv, HeldConnectionUsable, Login
<1>9. SlotAccounting'
  BY DEF Inv, SlotAccounting, Holds, Claims, TypeOK, Login, Goto
<1>10. AvailableConnectionUsable'
  BY DEF Inv, AvailableConnectionUsable, Login, ctorVars
<1>11. OwnConn'
  BY DEF Inv, OwnConn, Login
<1> QED BY <1>1, <1>2, <1>3, <1>4, <1>5, <1>6, <1>7, <1>8, <1>9, <1>10, <1>11
     DEF Inv

(* The claim ends and the slot is lost.                                    *)
LEMMA ThrowKeepsInv ==
    ASSUME Inv, NEW t \in Threads, Throw(t)
    PROVE  Inv'
<1>1. TypeOK'
  BY DEF Inv, TypeOK, Labels, Throw, Goto, Unlock, ctorVars
<1>2. MutexInv'
  BY NullAssumption DEF Inv, MutexInv, Locked, TypeOK, Throw, Goto, Unlock
<1>3. BuildInv'
  BY DEF Inv, BuildInv, Throw, ctorVars
<1>4. CallInv'
  BY DEF Inv, CallInv, Throw, Goto
<1>5. TargetInv'
  BY DEF Inv, TargetInv, Throw, Goto
<1>6. Exclusive'
  BY DEF Inv, Exclusive, Holds, Claims, Throw, Goto
<1>7. SlotAccounting'
  BY DEF Inv, SlotAccounting, Holds, Claims, TypeOK, Exclusive, Throw, Goto
<1>8. OwnConn' /\ TaskInv' /\ HeldConnectionUsable' /\
      AvailableConnectionUsable'
  BY DEF Inv, OwnConn, TaskInv, HeldConnectionUsable,
         AvailableConnectionUsable, Throw, ctorVars
<1> QED BY <1>1, <1>2, <1>3, <1>4, <1>5, <1>6, <1>7, <1>8 DEF Inv

(* The claim ends and the proxy of the call holds the slot.                *)
LEMMA HandOutKeepsInv ==
    ASSUME Inv, NEW t \in Threads, HandOut(t)
    PROVE  Inv'
<1>1. TypeOK'
  <2>1. [conn |-> conn[idx[t]], index |-> idx[t]] \in Holding
    BY DEF Inv, TypeOK, CallInv, HandOut, Holding
  <2>2. proxy' \in [Proxies -> Holding \cup {Dead, Empty}]
    BY <2>1 DEF Inv, TypeOK, HandOut
  <2>3. /\ mutex' \in [Slots -> Threads \cup {NoThread}]
        /\ pc' \in [Threads -> Labels]
    BY DEF Inv, TypeOK, HandOut, Unlock, Goto, Labels
  <2> QED BY <2>2, <2>3 DEF Inv, TypeOK, HandOut, ctorVars
<1>2. MutexInv'
  BY NullAssumption DEF Inv, MutexInv, Locked, TypeOK, HandOut, Goto, Unlock
<1>3. BuildInv'
  BY DEF Inv, BuildInv, HandOut, ctorVars
<1>4. CallInv'
  BY DEF Inv, CallInv, HandOut, Goto
<1>5. TargetInv'
  BY DEF Inv, TargetInv, TypeOK, HandOut, Goto
<1>6. Exclusive'
  BY DEF Inv, Exclusive, Holds, Claims, TypeOK, HandOut, Goto
<1>7. HeldConnectionUsable'
  BY DEF Inv, HeldConnectionUsable, CallInv, HandOut
<1>8. SlotAccounting'
  <2> SUFFICES ASSUME NEW s \in Slots
               PROVE  LET held    == \E v \in Proxies : Holds(v, s)'
                          claimed == \E u \in Threads : Claims(u, s)'
                      IN /\ inUse[s] <=> held \/ claimed \/ s \in lost
                         /\ ~(held /\ s \in lost)
                         /\ ~(claimed /\ s \in lost)
    BY DEF HandOut, SlotAccounting
  <2>1. Claims(t, idx[t]) /\ target[t] \in Proxies /\ idx[t] \in Slots
    BY DEF Inv, TypeOK, HandOut, Claims
  <2>2. \A u \in Threads : Claims(u, s)' <=> Claims(u, s) /\ u # t
    BY DEF Inv, TypeOK, HandOut, Goto, Claims
  <2>3. \A v \in Proxies : Holds(v, s)' <=> IF v = target[t] THEN s = idx[t]
                                                           ELSE Holds(v, s)
    BY DEF Inv, TypeOK, CallInv, HandOut, Holds, Holding
  <2>4. ~Holds(target[t], s)
    BY ProxyAssumption DEF Inv, TargetInv, HandOut, Holds
  <2>5. CASE s = idx[t]
    BY <2>1, <2>2, <2>3, <2>5 DEF Inv, Exclusive, SlotAccounting
  <2>6. CASE s # idx[t]
    BY <2>1, <2>2, <2>3, <2>4, <2>6 DEF Inv, SlotAccounting, Claims
  <2> QED BY <2>5, <2>6
<1>9. OwnConn' /\ TaskInv' /\ AvailableConnectionUsable'
  BY DEF Inv, OwnConn, TaskInv, AvailableConnectionUsable, HandOut, ctorVars
<1> QED BY <1>1, <1>2, <1>3, <1>4, <1>5, <1>6, <1>7, <1>8, <1>9 DEF Inv

----------------------------------------------------------------------------
(* The operations of connection_proxy keep the invariant.                  *)

(* The slot that the proxy held, and nobody else claims, is free again.    *)
LEMMA DestroyKeepsInv ==
    ASSUME Inv, NEW v \in Proxies, Destroy(v)
    PROVE  Inv'
<1>1. TypeOK'
  BY DEF Inv, TypeOK, Destroy, callVars, ctorVars
<1>2. BuildInv'
  BY DEF Inv, BuildInv, Destroy, callVars, ctorVars
<1>3. CallInv'
  BY DEF Inv, CallInv, Destroy, callVars
<1>4. TargetInv'
  BY DEF Inv, TargetInv, Destroy, callVars
<1>5. Exclusive'
  BY ProxyAssumption DEF Inv, Exclusive, Holds, Claims, Destroy, callVars
<1>6. HeldConnectionUsable'
  BY ProxyAssumption DEF Inv, HeldConnectionUsable, Destroy
<1>7. SlotAccounting'
  BY ProxyAssumption
     DEF Inv, SlotAccounting, Holds, Claims, TypeOK, Exclusive, Destroy,
         callVars
<1>8. AvailableConnectionUsable'
  BY DEF Inv, AvailableConnectionUsable, HeldConnectionUsable, Destroy,
         callVars, ctorVars
<1>9. MutexInv' /\ OwnConn' /\ TaskInv'
  BY DEF Inv, MutexInv, OwnConn, TaskInv, Locked, Destroy, callVars, ctorVars
<1> QED BY <1>1, <1>2, <1>3, <1>4, <1>5, <1>6, <1>7, <1>8, <1>9 DEF Inv

(* A slot goes from one proxy to a new one.                                *)
LEMMA MoveConstructKeepsInv ==
    ASSUME Inv, NEW v \in Proxies, NEW w \in Proxies, MoveConstruct(v, w)
    PROVE  Inv'
<1>1. TypeOK'
  BY DEF Inv, TypeOK, MoveConstruct, slotVars, callVars, ctorVars
<1>2. BuildInv'
  BY DEF Inv, BuildInv, MoveConstruct, slotVars, callVars, ctorVars
<1>3. TargetInv'
  BY DEF Inv, TargetInv, TypeOK, MoveConstruct, callVars
<1>4. Exclusive'
  <2>1. \A x \in Proxies, s \in Slots :
          Holds(x, s)' <=> IF x = w THEN FALSE
                           ELSE IF x = v THEN Holds(w, s) ELSE Holds(x, s)
    BY ProxyAssumption DEF Inv, TypeOK, MoveConstruct, Holds
  <2>2. \A t \in Threads, s \in Slots : Claims(t, s)' <=> Claims(t, s)
    BY DEF MoveConstruct, callVars, Claims
  <2> QED BY <2>1, <2>2 DEF Inv, Exclusive
<1>5. HeldConnectionUsable'
  BY ProxyAssumption
     DEF Inv, HeldConnectionUsable, TypeOK, MoveConstruct, slotVars
<1>6. SlotAccounting'
  BY ProxyAssumption
     DEF Inv, SlotAccounting, Holds, Claims, TypeOK, MoveConstruct, slotVars,
         callVars
<1>7. MutexInv' /\ CallInv' /\ OwnConn' /\ TaskInv' /\
      AvailableConnectionUsable'
  BY DEF Inv, MutexInv, CallInv, OwnConn, TaskInv, AvailableConnectionUsable,
         Locked, MoveConstruct, slotVars, callVars, ctorVars
<1> QED BY <1>1, <1>2, <1>3, <1>4, <1>5, <1>6, <1>7 DEF Inv

(* A slot goes from one proxy to another, and what that one held is lost.  *)
LEMMA MoveAssignKeepsInv ==
    ASSUME Inv, NEW v \in Proxies, NEW w \in Proxies, MoveAssign(v, w)
    PROVE  Inv'
<1>1. TypeOK'
  BY DEF Inv, TypeOK, MoveAssign, Holding, slotVars, callVars, ctorVars
<1>2. BuildInv'
  BY DEF Inv, BuildInv, MoveAssign, slotVars, callVars, ctorVars
<1>3. TargetInv'
  BY DEF Inv, TargetInv, TypeOK, MoveAssign, callVars
<1>4. Exclusive'
  <2>1. \A x \in Proxies, s \in Slots :
          Holds(x, s)' <=> IF x = w THEN FALSE
                           ELSE IF x = v THEN Holds(w, s) ELSE Holds(x, s)
    BY ProxyAssumption DEF Inv, TypeOK, MoveAssign, Holds
  <2>2. \A t \in Threads, s \in Slots : Claims(t, s)' <=> Claims(t, s)
    BY DEF MoveAssign, callVars, Claims
  <2> QED BY <2>1, <2>2 DEF Inv, Exclusive
<1>5. HeldConnectionUsable'
  BY ProxyAssumption
     DEF Inv, HeldConnectionUsable, TypeOK, MoveAssign, slotVars
<1>6. SlotAccounting'
  <2> SUFFICES ASSUME NEW s \in Slots
               PROVE  LET held    == \E x \in Proxies : Holds(x, s)'
                          claimed == \E u \in Threads : Claims(u, s)
                      IN /\ inUse[s] <=> held \/ claimed \/ s \in lost'
                         /\ ~(held /\ s \in lost')
                         /\ ~(claimed /\ s \in lost')
    BY DEF MoveAssign, callVars, slotVars, SlotAccounting, Claims
  <2>1. \A x \in Proxies : Holds(x, s)' <=> IF x = w THEN FALSE
                                           ELSE IF x = v THEN Holds(w, s)
                                           ELSE Holds(x, s)
    BY ProxyAssumption DEF Inv, TypeOK, MoveAssign, Holds
  <2>2. s \in lost' <=> s \in lost \/ Holds(v, s) BY DEF MoveAssign, Holds
  <2>3. CASE Holds(v, s)
    BY <2>1, <2>2, <2>3 DEF Inv, Exclusive, SlotAccounting
  <2>4. CASE ~Holds(v, s)
    BY <2>1, <2>2, <2>4 DEF Inv, SlotAccounting
  <2> QED BY <2>3, <2>4
<1>7. MutexInv' /\ CallInv' /\ OwnConn' /\ TaskInv' /\
      AvailableConnectionUsable'
  BY DEF Inv, MutexInv, CallInv, OwnConn, TaskInv, AvailableConnectionUsable,
         Locked, MoveAssign, slotVars, callVars, ctorVars
<1> QED BY <1>1, <1>2, <1>3, <1>4, <1>5, <1>6, <1>7 DEF Inv

----------------------------------------------------------------------------
(* A step that changes nothing.                                            *)
LEMMA StutterKeepsInv == ASSUME Inv, UNCHANGED vars PROVE Inv'
BY DEF Inv, TypeOK, MutexInv, Locked, BuildInv, CallInv, TargetInv, OwnConn,
       TaskInv, Exclusive, HeldConnectionUsable, SlotAccounting,
       AvailableConnectionUsable, Holds, Claims, vars, ctorVars, slotVars,
       callVars

(* The invariant is inductive.                                             *)
LEMMA NextKeepsInv == Inv /\ [Next]_vars => Inv'
<1> SUFFICES ASSUME Inv, [Next]_vars PROVE Inv' OBVIOUS
<1>1. CASE Build
  BY <1>1, BuildFirstKeepsInv, JoinKeepsInv, TaskStartKeepsInv,
     TaskConnectKeepsInv, TaskLoginKeepsInv DEF Build
<1>2. ASSUME NEW t \in Threads, Step(t) PROVE Inv'
  BY <1>2, TryLockKeepsInv, LoadInUseKeepsInv, StoreInUseKeepsInv,
     VerifyKeepsInv, ConnectKeepsInv, LoginKeepsInv, ThrowKeepsInv,
     HandOutKeepsInv DEF Step
<1>3. ASSUME NEW t \in Threads, NEW v \in Proxies, GetConnection(t, v)
      PROVE  Inv'
  BY <1>3, GetConnectionKeepsInv
<1>4. ASSUME NEW v \in Proxies, Destroy(v) PROVE Inv'
  BY <1>4, DestroyKeepsInv
<1>5. ASSUME NEW v \in Proxies, NEW w \in Proxies,
             MoveConstruct(v, w) \/ MoveAssign(v, w)
      PROVE  Inv'
  BY <1>5, MoveConstructKeepsInv, MoveAssignKeepsInv
<1>6. CASE UNCHANGED vars BY <1>6, StutterKeepsInv
<1> QED BY <1>1, <1>2, <1>3, <1>4, <1>5, <1>6 DEF Next

(* The inductive invariant holds in every state of the pool, however many  *)
(* threads, proxies and slots there are.                                   *)
THEOREM InvHolds == Spec => []Inv
<1>1. Init => Inv BY InitInv
<1>2. Inv /\ [Next]_vars => Inv' BY NextKeepsInv
<1> QED BY <1>1, <1>2, PTL DEF Spec

----------------------------------------------------------------------------
(* What the runs check on small instances.                                 *)

(* Every variable has its type.                                            *)
THEOREM TypeCorrect == Spec => []TypeOK
<1>1. Inv => TypeOK BY DEF Inv
<1> QED BY <1>1, InvHolds, PTL

(* No connection ever has two users: no two proxies, and no proxy and a    *)
(* get_connection that refreshes it.                                       *)
THEOREM ConnectionsAreExclusive == Spec => []Exclusive
<1>1. Inv => Exclusive BY DEF Inv
<1> QED BY <1>1, InvHolds, PTL

(* operator rcComm_t& of a proxy yields the connection of its slot, which  *)
(* is logged in and has not been replaced.                                 *)
THEOREM HeldConnectionsAreUsable == Spec => []HeldConnectionUsable
<1>1. Inv => HeldConnectionUsable BY DEF Inv
<1> QED BY <1>1, InvHolds, PTL

(* in_use is set exactly for the slots that are held, claimed by a call or *)
(* lost, and a slot is only one of these.                                  *)
THEOREM SlotsAreAccountedFor == Spec => []SlotAccounting
<1>1. Inv => SlotAccounting BY DEF Inv
<1> QED BY <1>1, InvHolds, PTL

(* A pool whose constructor returned offers only connections that are      *)
(* logged in.                                                              *)
THEOREM AvailableConnectionsAreUsable == Spec => []AvailableConnectionUsable
<1>1. Inv => AvailableConnectionUsable BY DEF Inv
<1> QED BY <1>1, InvHolds, PTL

----------------------------------------------------------------------------
(* The pool implements SlotOwnership.                                      *)

(* At first no proxy has a slot and every slot is free.                    *)
LEMMA InitOwned == Init => Ownership!OwnerInit
BY ProxyAssumption
   DEF Init, Ownership!OwnerInit, SlotOf, FreeSlots, Claims, Holding

(* Steps that no user of the pool can see. *)
LEMMA BuildUnseen == ASSUME Build PROVE UNCHANGED <<SlotOf, FreeSlots>>
<1>1. UNCHANGED <<proxy, inUse, pc, idx>>
  BY DEF Build, BuildFirst, Join, TaskStart, TaskConnect, TaskLogin, callVars,
         slotVars
<1> QED BY <1>1 DEF SlotOf, FreeSlots, Claims

(* So are the steps of a call up to its end: a claimed slot counts as free *)
(* until the proxy exists.                                                 *)
LEMMA CallUnseen ==
    ASSUME Inv, NEW t \in Threads,
           TryLock(t) \/ LoadInUse(t) \/ StoreInUse(t) \/ Verify(t)
             \/ Connect(t) \/ Login(t) \/ \E v \in Proxies : GetConnection(t, v)
    PROVE  UNCHANGED <<SlotOf, FreeSlots>>
<1>1. CASE StoreInUse(t)
  <2>1. UNCHANGED <<proxy, idx>> BY <1>1 DEF StoreInUse
  <2>2. \A s \in Slots, u \in Threads :
          Claims(u, s)' <=> Claims(u, s) \/ (u = t /\ s = idx[t])
    BY <1>1 DEF StoreInUse, Claims, Goto, Inv, TypeOK
  <2>3. ~inUse[idx[t]] BY <1>1 DEF StoreInUse, Inv, CallInv
  <2>4. \A s \in Slots : inUse'[s] <=> inUse[s] \/ s = idx[t]
    BY <1>1 DEF StoreInUse, Inv, TypeOK
  <2> QED BY <2>1, <2>2, <2>3, <2>4 DEF SlotOf, FreeSlots
<1>2. CASE ~StoreInUse(t)
  <2>1. UNCHANGED <<proxy, inUse>>
    BY <1>2 DEF TryLock, LoadInUse, Verify, Connect, Login, GetConnection,
                slotVars
  <2>2. \A u \in Threads, s \in Slots : Claims(u, s)' <=> Claims(u, s)
    BY <1>2 DEF TryLock, LoadInUse, Verify, Connect, Login, GetConnection,
                NextSlot, Goto, Claims, Inv, TypeOK
  <2> QED BY <2>1, <2>2 DEF SlotOf, FreeSlots
<1> QED BY <1>1, <1>2

(* The end of a call: its slot is not reserved any more. *)
LEMMA ClaimEnds ==
    ASSUME Inv, NEW t \in Threads, Throw(t) \/ HandOut(t)
    PROVE  /\ idx[t] \in Slots
           /\ idx[t] \in FreeSlots
           /\ FreeSlots' = FreeSlots \ {idx[t]}
<1>1. idx[t] \in Slots /\ Claims(t, idx[t])
  BY DEF Inv, TypeOK, Throw, HandOut, Claims
<1>2. inUse' = inUse BY DEF Throw, HandOut
<1>3. \A u \in Threads, s \in Slots : Claims(u, s)' <=> Claims(u, s) /\ u # t
  BY DEF Throw, HandOut, Goto, Claims, Inv, TypeOK
<1>4. \A u \in Threads : Claims(u, idx[t]) => u = t BY <1>1 DEF Inv, Exclusive
<1>5. \A s \in Slots : Claims(t, s) => s = idx[t] BY DEF Claims
<1>6. inUse[idx[t]] BY <1>1 DEF Inv, SlotAccounting
<1> QED BY <1>1, <1>2, <1>3, <1>4, <1>5, <1>6 DEF FreeSlots

(* The slot of a call that throws is lost.                                 *)
LEMMA ThrowLoses ==
    ASSUME Inv, NEW t \in Threads, Throw(t) PROVE Ownership!Lose(idx[t])
<1>1. SlotOf' = SlotOf BY DEF Throw, SlotOf
<1> QED BY <1>1, ClaimEnds DEF Ownership!Lose

(* A proxy acquires a slot when the call returns it.                       *)
LEMMA HandOutAcquires ==
    ASSUME Inv, NEW t \in Threads, HandOut(t)
    PROVE  Ownership!Acquire(target[t], idx[t])
<1>1. target[t] \in Proxies BY DEF Inv, TypeOK
<1>2. SlotOf[target[t]] = Empty
  BY <1>1, ProxyAssumption DEF Inv, TargetInv, HandOut, SlotOf
<1>3. [conn |-> conn[idx[t]], index |-> idx[t]] \in Holding
  BY DEF Inv, TypeOK, CallInv, HandOut, Holding
<1>4. SlotOf' = [SlotOf EXCEPT ![target[t]] = idx[t]]
  BY <1>1, <1>3 DEF HandOut, Inv, TypeOK, SlotOf
<1> QED BY <1>2, <1>4, ClaimEnds DEF Ownership!Acquire

(* The destructor of a proxy releases its slot, if it has one.             *)
LEMMA DestroyReleases ==
    ASSUME Inv, NEW v \in Proxies, Destroy(v)
    PROVE  Ownership!Release(v) \/ UNCHANGED <<SlotOf, FreeSlots>>
<1>1. CASE proxy[v] \in Holding
  <2>1. PICK q \in Slots : q = proxy[v].index BY <1>1 DEF Holding
  <2>2. Holds(v, q) BY <1>1, <2>1 DEF Holds
  <2>3. SlotOf[v] = q /\ SlotOf' = [SlotOf EXCEPT ![v] = Empty]
    BY <1>1, <2>1, ProxyAssumption DEF Destroy, Inv, TypeOK, SlotOf
  <2>4. q \notin FreeSlots
    BY <2>2 DEF Inv, Exclusive, SlotAccounting, FreeSlots
  <2>5. FreeSlots' = FreeSlots \cup {q}
    BY <1>1, <2>1 DEF Destroy, callVars, Claims, Inv, TypeOK, FreeSlots
  <2> QED BY <2>1, <2>3, <2>4, <2>5 DEF Ownership!Release
<1>2. CASE proxy[v] \notin Holding
  BY <1>2, ProxyAssumption
     DEF Destroy, Inv, TypeOK, callVars, Claims, SlotOf, FreeSlots
<1> QED BY <1>1, <1>2

(* A move hands the slot on, and what the target had is lost.              *)
LEMMA MoveMoves ==
    ASSUME Inv, NEW v \in Proxies, NEW w \in Proxies,
           MoveConstruct(v, w) \/ MoveAssign(v, w)
    PROVE  Ownership!Move(v, w)
<1>1. /\ proxy' = [proxy EXCEPT ![v] = proxy[w], ![w] = Empty]
      /\ UNCHANGED <<inUse, pc, idx>>
  BY DEF MoveConstruct, MoveAssign, callVars, slotVars
<1>2. SlotOf' = [SlotOf EXCEPT ![v] = SlotOf[w], ![w] = Empty]
  BY <1>1, ProxyAssumption DEF Inv, TypeOK, SlotOf
<1>3. FreeSlots' = FreeSlots BY <1>1 DEF Claims, FreeSlots
<1> QED BY <1>2, <1>3 DEF Ownership!Move

(* Every step of the pool is one of SlotOwnership, or none.                *)
LEMMA StepOwned ==
    Inv /\ [Next]_vars => [Ownership!OwnerNext]_<<SlotOf, FreeSlots>>
<1> SUFFICES ASSUME Inv, [Next]_vars
             PROVE  Ownership!OwnerNext \/ UNCHANGED <<SlotOf, FreeSlots>>
  OBVIOUS
<1>1. CASE Build BY <1>1, BuildUnseen
<1>2. ASSUME NEW t \in Threads, Step(t)
      PROVE  Ownership!OwnerNext \/ UNCHANGED <<SlotOf, FreeSlots>>
  <2>1. CASE Throw(t)
    BY <2>1, ThrowLoses, ClaimEnds DEF Ownership!OwnerNext
  <2>2. CASE HandOut(t)
    BY <2>2, HandOutAcquires, ClaimEnds DEF Ownership!OwnerNext, Inv, TypeOK
  <2> QED BY <1>2, <2>1, <2>2, CallUnseen DEF Step
<1>3. ASSUME NEW t \in Threads, NEW v \in Proxies, GetConnection(t, v)
      PROVE  UNCHANGED <<SlotOf, FreeSlots>>
  BY <1>3, CallUnseen
<1>4. ASSUME NEW v \in Proxies, Destroy(v)
      PROVE  Ownership!OwnerNext \/ UNCHANGED <<SlotOf, FreeSlots>>
  BY <1>4, DestroyReleases DEF Ownership!OwnerNext
<1>5. ASSUME NEW v \in Proxies, NEW w \in Proxies,
             MoveConstruct(v, w) \/ MoveAssign(v, w)
      PROVE  Ownership!OwnerNext
  BY <1>5, MoveMoves DEF Ownership!OwnerNext
<1>6. CASE UNCHANGED vars
  BY <1>6 DEF vars, callVars, slotVars, SlotOf, FreeSlots, Claims
<1> QED BY <1>1, <1>2, <1>3, <1>4, <1>5, <1>6 DEF Next

(* Seen by its users, the pool hands each slot to one proxy at a time, and *)
(* only that proxy gives it back.                                          *)
THEOREM PoolImplementsOwnership == Spec => ImplementsOwnership
<1>1. Init => Ownership!OwnerInit BY InitOwned
<1>2. Inv /\ [Next]_vars => [Ownership!OwnerNext]_<<SlotOf, FreeSlots>>
  BY StepOwned
<1> QED
  BY <1>1, <1>2, InvHolds, PTL
     DEF Spec, ImplementsOwnership, Ownership!OwnerSpec
====
