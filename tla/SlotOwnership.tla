---- MODULE SlotOwnership ----
(***************************************************************************)
(* What a connection pool promises, seen from the code that uses it: a     *)
(* proxy is given a slot only if it is free, hands it on when it is moved, *)
(* and is the only one who can give it back.                               *)
(***************************************************************************)
CONSTANTS Slots,        \* the connections of the pool
          Proxies,      \* the proxy objects of its users
          None          \* what a proxy has that has no slot

VARIABLES has,          \* has[v]: the slot of proxy v, or None
          free          \* the slots that can be handed out

OwnerInit ==
    /\ has = [v \in Proxies |-> None]
    /\ free = Slots

(* A call hands slot s out through proxy v, which had nothing. *)
Acquire(v, s) ==
    /\ has[v] = None
    /\ s \in free
    /\ has' = [has EXCEPT ![v] = s]
    /\ free' = free \ {s}

(* Proxy v is destroyed and its slot is free again. *)
Release(v) ==
    /\ has[v] \in Slots \ free
    /\ has' = [has EXCEPT ![v] = None]
    /\ free' = free \cup {has[v]}

(* Proxy v takes over what w has. What v had itself is lost, and that is   *)
(* everything when v and w are one object.                                 *)
Move(v, w) ==
    /\ has' = [has EXCEPT ![v] = has[w], ![w] = None]
    /\ UNCHANGED free

(* A slot that could not be made usable is never offered again. *)
Lose(s) ==
    /\ s \in free
    /\ free' = free \ {s}
    /\ UNCHANGED has

OwnerNext ==
    \/ \E v \in Proxies : Release(v) \/ \E s \in Slots : Acquire(v, s)
    \/ \E v, w \in Proxies : Move(v, w)
    \/ \E s \in Slots : Lose(s)

OwnerSpec == OwnerInit /\ [][OwnerNext]_<<has, free>>
====
