---- MODULE MCConnectionPool ----
(***************************************************************************)
(* Instances of ConnectionPool for TLC.                                    *)
(***************************************************************************)
EXTENDS ConnectionPool

(* Programs that never move a proxy onto itself. *)
NoSelfMoveSpec ==
    Init /\ [][Next /\ ~ \E v \in Proxies : MoveAssign(v, v)]_vars
====
