---- MODULE ReconnectProofs ----
(***************************************************************************)
(* Proofs about Reconnect: the application uses one open socket from a     *)
(* request to its reply, no descriptor is left behind, and the manager     *)
(* switches only in a quiet moment, for any number of descriptors and any  *)
(* set of operations.                                                      *)
(***************************************************************************)
EXTENDS Reconnect, TLAPS

(* Where the application has told the manager to keep out. *)
Working == {"prepare", "send_end", "transmit", "send_retry", "expect",
            "header", "read_retry", "body", "read_failed", "read_end"}

(* Where it has not. At read_start it may have come from either side.      *)
AtRest == {"idle", "send_wait", "read_wait", "coll_write"}

(* Where the manager is between its lock and its unlock. *)
Critical == {"lookup", "connect", "exchange", "switch", "crashed"}

(* The manager holds the mutex in its critical section, and while it does  *)
(* the client stays in PROCESSING_STATE.                                   *)
MutexInv ==
    /\ mgrHolds <=> mgrPc \in Critical
    /\ mgrHolds => clientState = "PROCESSING"

(* What clientState says of the application. *)
ClientInv ==
    /\ appPc \in Working => clientState # "PROCESSING"
    /\ appPc \in AtRest => clientState = "PROCESSING"

(* The open descriptors, by where the manager is, and the one of conn->ssl: *)
(* the current one, or one that a switch has closed.                       *)
SocketInv ==
    ~Disconnecting =>
        /\ IF mgrPc \in {"exchange", "switch"}
           THEN /\ reconnectedSock \in Socks \ {sock}
                /\ open = {sock, reconnectedSock}
           ELSE /\ reconnectedSock \notin Socks
                /\ open = {sock}
        /\ sslSock \in {NoSock, sock} \cup (Socks \ open)

(* What carries the bytes of a network object of the current socket. *)
Carrier == IF sslSock # NoSock THEN sslSock ELSE sock

(* The network object in use is one of the current socket. *)
UseInv ==
    /\ Exchanging => netSock = sock
    /\ appPc = "disc_close" => netSock \in Socks

(* The request in progress went out where the current socket's bytes go. *)
RequestInv ==
    /\ appPc \in {"send_wait", "prepare", "transmit", "send_retry"} =>
           reqSock = NoSock
    /\ appPc = "read_start" =>
           reqSock = NoSock \/ (reqSock = Carrier /\ clientState # "PROCESSING")
    /\ appPc \in {"expect", "header", "read_retry", "body"} =>
           reqSock \in {NoSock, Carrier}

Inv == /\ TypeOK
       /\ MutexInv
       /\ ClientInv
       /\ SocketInv
       /\ UseInv
       /\ RequestInv

----------------------------------------------------------------------------
(* The application: procApiRequest *)

\* cliChkReconnAtSendStart: what reqSock and replied are reset to, and the two ways on.
LEMMA SendStartKeeps == ASSUME Inv, SendStart PROVE Inv'
<1> USE DEF Inv
<1>1. TypeOK'
    <2>1. replied' \in BOOLEAN
        BY DEF SendStart
    <2>2. waiters' \subseteq {"app", "mgr"}
        BY DEF TypeOK, SendStart
    <2> QED BY <2>1, <2>2 DEF SendStart, sockVars, mgrVars, TypeOK, AppLabels, States
<1>2. MutexInv'
    BY DEF SendStart, mgrVars, MutexInv
<1>3. ClientInv'
    BY DEF SendStart, ClientInv, AtRest, Working
<1>4. SocketInv'
    BY DEF SendStart, sockVars, mgrVars, SocketInv, Disconnecting
<1>5. UseInv'
    BY DEF SendStart, UseInv, Exchanging
<1>6. RequestInv'
    BY DEF SendStart, RequestInv
<1> QED BY <1>1, <1>2, <1>3, <1>4, <1>5, <1>6

\* The end of its wait, which leaves PROCESSING_STATE.
LEMMA SendWokenKeeps == ASSUME Inv, SendWoken PROVE Inv'
<1> USE DEF Inv
<1>1. TypeOK'
    BY DEF SendWoken, sockVars, mgrVars, callVars, TypeOK, AppLabels, States
<1>2. MutexInv'
    BY DEF SendWoken, mgrVars, MutexInv
<1>3. ClientInv'
    BY DEF SendWoken, ClientInv, AtRest
<1>4. SocketInv'
    BY DEF SendWoken, sockVars, mgrVars, SocketInv, Disconnecting
<1>5. UseInv'
    BY DEF SendWoken, UseInv, Exchanging
<1>6. RequestInv'
    BY DEF SendWoken, callVars, RequestInv, Carrier
<1> QED BY <1>1, <1>2, <1>3, <1>4, <1>5, <1>6

\* The socket is copied outside the mutex, in SENDING_STATE.
LEMMA PrepareKeeps == ASSUME Inv, Prepare PROVE Inv'
<1> USE DEF Inv
<1>1. TypeOK'
    BY DEF Prepare, sockVars, mgrVars, callVars, TypeOK, AppLabels
<1>2. MutexInv'
    BY DEF Prepare, mgrVars, MutexInv
<1>3. ClientInv'
    BY DEF Prepare, ClientInv, AtRest, Working
<1>4. SocketInv'
    BY DEF Prepare, sockVars, mgrVars, SocketInv, Disconnecting
<1>5. UseInv'
    BY DEF Prepare, sockVars, UseInv, Exchanging
<1>6. RequestInv'
    BY DEF Prepare, callVars, RequestInv, Carrier
<1> QED BY <1>1, <1>2, <1>3, <1>4, <1>5, <1>6

\* An error before anything was sent: back to PROCESSING_STATE.
LEMMA SendEndKeeps == ASSUME Inv, SendEnd PROVE Inv'
<1> USE DEF Inv
<1>1. TypeOK'
    <2>1. succeeded' \in BOOLEAN
        BY DEF SendEnd, Return
    <2> QED BY <2>1 DEF SendEnd, Return, sockVars, mgrVars, TypeOK, AppLabels, States
<1>2. MutexInv'
    BY DEF SendEnd, mgrVars, MutexInv
<1>3. ClientInv'
    BY DEF SendEnd, Return, ClientInv, Working
<1>4. SocketInv'
    BY DEF SendEnd, sockVars, mgrVars, SocketInv, Disconnecting
<1>5. UseInv'
    BY DEF SendEnd, Return, UseInv, Exchanging
<1>6. RequestInv'
    BY DEF SendEnd, Return, RequestInv
<1> QED BY <1>1, <1>2, <1>3, <1>4, <1>5, <1>6

\* The request leaves on the socket that was copied.
LEMMA TransmitKeeps == ASSUME Inv, Transmit PROVE Inv'
<1> USE DEF Inv
<1>1. TypeOK'
    BY DEF Transmit, Wire, sockVars, mgrVars, TypeOK, AppLabels
<1>2. MutexInv'
    BY DEF Transmit, mgrVars, MutexInv
<1>3. ClientInv'
    BY DEF Transmit, ClientInv, AtRest, Working
<1>4. SocketInv'
    BY DEF Transmit, sockVars, mgrVars, SocketInv, Disconnecting
<1>5. UseInv'
    BY DEF Transmit, sockVars, UseInv, Exchanging
<1>6. RequestInv'
    BY DEF Transmit, sockVars, Wire, RequestInv, Carrier, UseInv, ClientInv, Working, Exchanging
<1> QED BY <1>1, <1>2, <1>3, <1>4, <1>5, <1>6

\* The manager is outside its critical section: there is nothing to switch to.
LEMMA SendRetryKeeps == ASSUME Inv, SendRetry PROVE Inv'
<1> USE DEF Inv
<1>1. TypeOK'
    BY DEF SendRetry, SwitchConnect, sockVars, mgrVars, TypeOK, AppLabels, States
<1>2. MutexInv'
    BY DEF SendRetry, mgrVars, MutexInv
<1>3. ClientInv'
    BY DEF SendRetry, ClientInv, MutexInv, Critical, AtRest, Working, SocketInv, Disconnecting
<1>4. SocketInv'
    BY DEF SendRetry, SwitchConnect, sockVars, mgrVars, SocketInv, MutexInv, Critical,
        Disconnecting
<1>5. UseInv'
    BY DEF SendRetry, UseInv, Exchanging
<1>6. RequestInv'
    BY DEF SendRetry, RequestInv
<1> QED BY <1>1, <1>2, <1>3, <1>4, <1>5, <1>6

\* From the request or, in a branch, from an idle connection.
LEMMA ReadStartKeeps == ASSUME Inv, ReadStart PROVE Inv'
<1> USE DEF Inv
<1>1. TypeOK'
    <2>1. replied' \in BOOLEAN
        BY DEF TypeOK, ReadStart
    <2> QED BY <2>1 DEF ReadStart, sockVars, mgrVars, TypeOK, AppLabels, States
<1>2. MutexInv'
    BY DEF ReadStart, mgrVars, MutexInv
<1>3. ClientInv'
    BY DEF ReadStart, ClientInv, AtRest
<1>4. SocketInv'
    BY DEF ReadStart, sockVars, mgrVars, SocketInv, Disconnecting
<1>5. UseInv'
    BY DEF ReadStart, UseInv, Exchanging
<1>6. RequestInv'
    BY DEF ReadStart, sockVars, RequestInv, Carrier
<1> QED BY <1>1, <1>2, <1>3, <1>4, <1>5, <1>6

\* The socket is copied again, in RECEIVING_STATE.
LEMMA ExpectKeeps == ASSUME Inv, Expect PROVE Inv'
<1> USE DEF Inv
<1>1. TypeOK'
    BY DEF Expect, sockVars, mgrVars, callVars, TypeOK, AppLabels
<1>2. MutexInv'
    BY DEF Expect, mgrVars, MutexInv
<1>3. ClientInv'
    BY DEF Expect, ClientInv, AtRest, Working
<1>4. SocketInv'
    BY DEF Expect, sockVars, mgrVars, SocketInv, Disconnecting
<1>5. UseInv'
    BY DEF Expect, sockVars, UseInv, Exchanging
<1>6. RequestInv'
    BY DEF Expect, sockVars, callVars, RequestInv, Carrier
<1> QED BY <1>1, <1>2, <1>3, <1>4, <1>5, <1>6

\* The header, read or not, leaves the sockets alone.
LEMMA ReadHeaderKeeps == ASSUME Inv, ReadHeader PROVE Inv'
<1> USE DEF Inv
<1>1. TypeOK'
    BY DEF ReadHeader, sockVars, mgrVars, callVars, TypeOK, AppLabels
<1>2. MutexInv'
    BY DEF ReadHeader, mgrVars, MutexInv
<1>3. ClientInv'
    BY DEF ReadHeader, ClientInv, AtRest, Working
<1>4. SocketInv'
    BY DEF ReadHeader, sockVars, mgrVars, SocketInv, Disconnecting
<1>5. UseInv'
    BY DEF ReadHeader, sockVars, UseInv, Exchanging
<1>6. RequestInv'
    BY DEF ReadHeader, sockVars, callVars, RequestInv, Carrier
<1> QED BY <1>1, <1>2, <1>3, <1>4, <1>5, <1>6

\* As in SendRetry, nothing to switch to.
LEMMA ReadRetryKeeps == ASSUME Inv, ReadRetry PROVE Inv'
<1> USE DEF Inv
<1>1. TypeOK'
    BY DEF ReadRetry, SwitchConnect, sockVars, mgrVars, callVars, TypeOK, AppLabels, States
<1>2. MutexInv'
    BY DEF ReadRetry, mgrVars, MutexInv
<1>3. ClientInv'
    BY DEF ReadRetry, ClientInv, AtRest, Working
<1>4. SocketInv'
    BY DEF ReadRetry, SwitchConnect, sockVars, mgrVars, SocketInv, MutexInv, Critical,
        Disconnecting
<1>5. UseInv'
    BY DEF ReadRetry, SwitchConnect, sockVars, UseInv, SocketInv, MutexInv, Critical,
        Exchanging, Disconnecting
<1>6. RequestInv'
    BY DEF ReadRetry, SwitchConnect, sockVars, callVars, RequestInv, Carrier, SocketInv, MutexInv,
        Critical, Disconnecting
<1> QED BY <1>1, <1>2, <1>3, <1>4, <1>5, <1>6

\* The body, read or not, leaves the sockets alone.
LEMMA ReadBodyKeeps == ASSUME Inv, ReadBody PROVE Inv'
<1> USE DEF Inv
<1>1. TypeOK'
    BY DEF ReadBody, sockVars, mgrVars, TypeOK, AppLabels
<1>2. MutexInv'
    BY DEF ReadBody, mgrVars, MutexInv
<1>3. ClientInv'
    BY DEF ReadBody, ClientInv, AtRest, Working
<1>4. SocketInv'
    BY DEF ReadBody, sockVars, mgrVars, SocketInv, Disconnecting
<1>5. UseInv'
    BY DEF ReadBody, UseInv, Exchanging
<1>6. RequestInv'
    BY DEF ReadBody, RequestInv
<1> QED BY <1>1, <1>2, <1>3, <1>4, <1>5, <1>6

\* Back to PROCESSING_STATE; the network object is not used again.
LEMMA ReadEndKeeps == ASSUME Inv, ReadEnd PROVE Inv'
<1> USE DEF Inv
<1>1. TypeOK'
    <2>1. succeeded' \in BOOLEAN
        BY DEF ReadEnd, ReplyStatus
    <2>2. waiters' \subseteq {"app", "mgr"}
        BY DEF TypeOK, ReadEnd
    <2> QED BY <2>1, <2>2 DEF ReadEnd, sockVars, mgrVars, TypeOK, AppLabels, States
<1>2. MutexInv'
    BY DEF ReadEnd, mgrVars, MutexInv
<1>3. ClientInv'
    BY DEF ReadEnd, ClientInv, Working
<1>4. SocketInv'
    BY DEF ReadEnd, sockVars, mgrVars, SocketInv, Disconnecting
<1>5. UseInv'
    BY DEF ReadEnd, UseInv, Exchanging
<1>6. RequestInv'
    BY DEF ReadEnd, RequestInv
<1> QED BY <1>1, <1>2, <1>3, <1>4, <1>5, <1>6

\* The end of the wait after a reply.
LEMMA ReadWokenKeeps == ASSUME Inv, ReadWoken PROVE Inv'
<1> USE DEF Inv
<1>1. TypeOK'
    BY DEF ReadWoken, sockVars, mgrVars, callVars, TypeOK, AppLabels
<1>2. MutexInv'
    BY DEF ReadWoken, mgrVars, MutexInv
<1>3. ClientInv'
    BY DEF ReadWoken, ClientInv, AtRest, Working
<1>4. SocketInv'
    BY DEF ReadWoken, sockVars, mgrVars, SocketInv, Disconnecting
<1>5. UseInv'
    BY DEF ReadWoken, UseInv, Exchanging
<1>6. RequestInv'
    BY DEF ReadWoken, RequestInv
<1> QED BY <1>1, <1>2, <1>3, <1>4, <1>5, <1>6

\* The socket is copied in PROCESSING_STATE: no exchange in the sense of Exchanging.
LEMMA CollStatKeeps == ASSUME Inv, CollStat PROVE Inv'
<1> USE DEF Inv
<1>1. TypeOK'
    BY DEF CollStat, sockVars, mgrVars, callVars, TypeOK, AppLabels
<1>2. MutexInv'
    BY DEF CollStat, mgrVars, MutexInv
<1>3. ClientInv'
    BY DEF CollStat, ClientInv, AtRest, Working
<1>4. SocketInv'
    BY DEF CollStat, sockVars, mgrVars, SocketInv, Disconnecting
<1>5. UseInv'
    BY DEF CollStat, sockVars, UseInv
<1>6. RequestInv'
    BY DEF CollStat, RequestInv
<1> QED BY <1>1, <1>2, <1>3, <1>4, <1>5, <1>6

\* The call that goes on with the next reply begins as one without request.
LEMMA CollWriteKeeps == ASSUME Inv, CollWrite PROVE Inv'
<1> USE DEF Inv
<1>1. TypeOK'
    <2>1. replied' \in BOOLEAN
        BY DEF CollWrite
    <2>2. succeeded' \in BOOLEAN
        BY DEF TypeOK, CollWrite, Return
    <2> QED BY <2>1, <2>2 DEF CollWrite, Return, sockVars, mgrVars, TypeOK, AppLabels
<1>2. MutexInv'
    BY DEF CollWrite, mgrVars, MutexInv
<1>3. ClientInv'
    BY DEF CollWrite, Return, ClientInv, AtRest, Working
<1>4. SocketInv'
    BY DEF CollWrite, sockVars, mgrVars, SocketInv, Disconnecting
<1>5. UseInv'
    BY DEF CollWrite, Return, UseInv, Exchanging
<1>6. RequestInv'
    BY DEF CollWrite, RequestInv
<1> QED BY <1>1, <1>2, <1>3, <1>4, <1>5, <1>6

----------------------------------------------------------------------------
(* The application: rcDisconnect *)

\* The socket is copied without the mutex.
LEMMA DisconnectKeeps == ASSUME Inv, Disconnect PROVE Inv'
<1> USE DEF Inv
<1>1. TypeOK'
    BY DEF Disconnect, sockVars, mgrVars, callVars, TypeOK, AppLabels
<1>2. MutexInv'
    BY DEF Disconnect, mgrVars, MutexInv
<1>3. ClientInv'
    BY DEF Disconnect, ClientInv, AtRest, Working
<1>4. SocketInv'
    BY DEF Disconnect, sockVars, mgrVars, SocketInv, Disconnecting
<1>5. UseInv'
    BY DEF Disconnect, sockVars, UseInv, TypeOK
<1>6. RequestInv'
    BY DEF Disconnect, RequestInv
<1> QED BY <1>1, <1>2, <1>3, <1>4, <1>5, <1>6

\* Whatever was copied is closed, and SocketInv says no more.
LEMMA DisconnectCloseKeeps == ASSUME Inv, DisconnectClose PROVE Inv'
<1> USE DEF Inv
<1>1. TypeOK'
    BY DEF DisconnectClose, mgrVars, callVars, TypeOK, AppLabels, UseInv
<1>2. MutexInv'
    BY DEF DisconnectClose, mgrVars, MutexInv
<1>3. ClientInv'
    BY DEF DisconnectClose, ClientInv, AtRest, Working
<1>4. SocketInv'
    BY DEF DisconnectClose, SocketInv, Disconnecting
<1>5. UseInv'
    BY DEF DisconnectClose, UseInv
<1>6. RequestInv'
    BY DEF DisconnectClose, RequestInv
<1> QED BY <1>1, <1>2, <1>3, <1>4, <1>5, <1>6

\* The manager is told; no socket changes.
LEMMA DisconnectExitKeeps == ASSUME Inv, DisconnectExit PROVE Inv'
<1> USE DEF Inv
<1>1. TypeOK'
    BY DEF DisconnectExit, sockVars, mgrVars, callVars, TypeOK, AppLabels
<1>2. MutexInv'
    BY DEF DisconnectExit, mgrVars, MutexInv
<1>3. ClientInv'
    BY DEF DisconnectExit, ClientInv, AtRest, Working
<1>4. SocketInv'
    BY DEF DisconnectExit, SocketInv, Disconnecting
<1>5. UseInv'
    BY DEF DisconnectExit, UseInv, Exchanging
<1>6. RequestInv'
    BY DEF DisconnectExit, RequestInv
<1> QED BY <1>1, <1>2, <1>3, <1>4, <1>5, <1>6

\* The rcComm_t goes.
LEMMA DisconnectFreeKeeps == ASSUME Inv, DisconnectFree PROVE Inv'
<1> USE DEF Inv
<1>1. TypeOK'
    BY DEF DisconnectFree, sockVars, mgrVars, callVars, TypeOK, AppLabels
<1>2. MutexInv'
    BY DEF DisconnectFree, mgrVars, MutexInv
<1>3. ClientInv'
    BY DEF DisconnectFree, ClientInv, AtRest, Working
<1>4. SocketInv'
    BY DEF DisconnectFree, SocketInv, Disconnecting
<1>5. UseInv'
    BY DEF DisconnectFree, UseInv, Exchanging
<1>6. RequestInv'
    BY DEF DisconnectFree, RequestInv
<1> QED BY <1>1, <1>2, <1>3, <1>4, <1>5, <1>6

----------------------------------------------------------------------------
(* The manager *)

\* The loop's test leaves everything but the label alone.
LEMMA MgrTopKeeps == ASSUME Inv, MgrTop PROVE Inv'
<1> USE DEF Inv
<1>1. TypeOK'
    BY DEF MgrTop, sockVars, callVars, TypeOK, MgrLabels
<1>2. MutexInv'
    BY DEF MgrTop, MutexInv, Critical
<1>3. ClientInv'
    BY DEF MgrTop, ClientInv
<1>4. SocketInv'
    BY DEF MgrTop, sockVars, SocketInv, Disconnecting
<1>5. UseInv'
    BY DEF MgrTop, sockVars, UseInv, Exchanging
<1>6. RequestInv'
    BY DEF MgrTop, sockVars, callVars, RequestInv, Carrier
<1> QED BY <1>1, <1>2, <1>3, <1>4, <1>5, <1>6

\* The critical section begins only in PROCESSING_STATE.
LEMMA MgrLockKeeps == ASSUME Inv, MgrLock PROVE Inv'
<1> USE DEF Inv
<1>1. TypeOK'
    <2>1. mgrHolds' \in BOOLEAN
        BY DEF TypeOK, MgrLock
    <2>2. waiters' \subseteq {"app", "mgr"}
        BY DEF TypeOK, MgrLock
    <2> QED BY <2>1, <2>2 DEF MgrLock, sockVars, callVars, TypeOK, MgrLabels
<1>2. MutexInv'
    BY DEF MgrLock, MutexInv, Critical
<1>3. ClientInv'
    BY DEF MgrLock, ClientInv
<1>4. SocketInv'
    BY DEF MgrLock, sockVars, SocketInv, Disconnecting
<1>5. UseInv'
    BY DEF MgrLock, sockVars, UseInv, Exchanging
<1>6. RequestInv'
    BY DEF MgrLock, sockVars, callVars, RequestInv, Carrier
<1> QED BY <1>1, <1>2, <1>3, <1>4, <1>5, <1>6

\* The lock goes with a failed look-up.
LEMMA MgrLookupKeeps == ASSUME Inv, MgrLookup PROVE Inv'
<1> USE DEF Inv
<1>1. TypeOK'
    <2>1. mgrHolds' \in BOOLEAN
        BY DEF TypeOK, MgrLookup
    <2> QED BY <2>1 DEF MgrLookup, sockVars, callVars, TypeOK, MgrLabels
<1>2. MutexInv'
    <2>1. CASE mgrPc' = "connect"
        BY <2>1 DEF MgrLookup, MutexInv, Critical
    <2>2. CASE mgrPc' = "done"
        BY <2>2 DEF MgrLookup, MutexInv, Critical
    <2> QED BY <2>1, <2>2 DEF MgrLookup, MgrRelease
<1>3. ClientInv'
    BY DEF MgrLookup, ClientInv
<1>4. SocketInv'
    BY DEF MgrLookup, sockVars, SocketInv, Disconnecting
<1>5. UseInv'
    BY DEF MgrLookup, sockVars, UseInv, Exchanging
<1>6. RequestInv'
    BY DEF MgrLookup, sockVars, callVars, RequestInv, Carrier
<1> QED BY <1>1, <1>2, <1>3, <1>4, <1>5, <1>6

\* The new descriptor is unlike those that are open or remembered.
LEMMA MgrConnectKeeps == ASSUME Inv, MgrConnect PROVE Inv'
<1> USE DEF Inv
<1>1. TypeOK'
    <2>1. mgrHolds' \in BOOLEAN
        BY DEF TypeOK, MgrConnect, MgrRelease
    <2>2. waiters' \subseteq {"app", "mgr"}
        BY DEF TypeOK, MgrConnect, MgrRelease
    <2>3. open' \subseteq Socks
        BY DEF TypeOK, MgrConnect
    <2> QED BY <2>1, <2>2, <2>3 DEF MgrConnect, MgrRelease, callVars, TypeOK, MgrLabels
<1>2. MutexInv'
    <2>1. CASE mgrPc' = "exchange"
        BY <2>1 DEF MgrConnect, MgrRelease, MutexInv, Critical
    <2>2. CASE mgrPc' = "top"
        BY <2>2 DEF MgrConnect, MgrRelease, MutexInv, Critical
    <2> QED BY <2>1, <2>2 DEF MgrConnect, MgrRelease
<1>3. ClientInv'
    BY DEF MgrConnect, ClientInv
<1>4. SocketInv'
    BY SockAssumption DEF MgrConnect, MgrRelease, Fresh, SocketInv, Disconnecting
<1>5. UseInv'
    BY DEF MgrConnect, UseInv, Exchanging
<1>6. RequestInv'
    BY DEF MgrConnect, callVars, RequestInv, Carrier
<1> QED BY <1>1, <1>2, <1>3, <1>4, <1>5, <1>6

\* A failed exchange closes the new socket.
LEMMA MgrExchangeKeeps == ASSUME Inv, MgrExchange PROVE Inv'
<1> USE DEF Inv
<1>1. TypeOK'
    <2>1. mgrHolds' \in BOOLEAN
        BY DEF TypeOK, MgrExchange, MgrRelease
    <2>2. waiters' \subseteq {"app", "mgr"}
        BY DEF TypeOK, MgrExchange, MgrRelease
    <2>3. open' \subseteq Socks
        BY DEF TypeOK, MgrExchange
    <2> QED BY <2>1, <2>2, <2>3 DEF MgrExchange, MgrRelease, callVars, TypeOK, AppLabels,
        MgrLabels, States
<1>2. MutexInv'
    <2>1. CASE mgrPc' = "switch"
        BY <2>1 DEF MgrExchange, MgrRelease, MutexInv, Critical
    <2>2. CASE mgrPc' = "crashed"
        BY <2>2 DEF MgrExchange, MgrRelease, MutexInv, Critical
    <2>3. CASE mgrPc' = "top"
        BY <2>3 DEF MgrExchange, MgrRelease, MutexInv, Critical
    <2> QED BY <2>1, <2>2, <2>3 DEF MgrExchange, MgrRelease
<1>3. ClientInv'
    BY DEF MgrExchange, ClientInv, MutexInv, Critical, Working
<1>4. SocketInv'
    BY SockAssumption DEF MgrExchange, MgrRelease, SocketInv, Disconnecting
<1>5. UseInv'
    BY DEF MgrExchange, UseInv, Exchanging
<1>6. RequestInv'
    BY DEF MgrExchange, callVars, RequestInv, Carrier
<1> QED BY <1>1, <1>2, <1>3, <1>4, <1>5, <1>6

\* The client is in PROCESSING_STATE: no network object is in use.
LEMMA MgrSwitchKeeps == ASSUME Inv, MgrSwitch PROVE Inv'
<1> USE DEF Inv
<1>1. TypeOK'
    <2>1. mgrHolds' \in BOOLEAN
        BY DEF MgrSwitch, MgrRelease
    <2> QED BY <2>1 DEF MgrSwitch, SwitchConnect, MgrRelease, sockVars, callVars, TypeOK,
        MgrLabels
<1>2. MutexInv'
    BY DEF MgrSwitch, MgrRelease, MutexInv, Critical
<1>3. ClientInv'
    BY DEF MgrSwitch, ClientInv
<1>4. SocketInv'
    BY SockAssumption DEF TypeOK, sockVars, MgrSwitch, SwitchConnect, MgrRelease, SocketInv,
        MutexInv,
        Critical, Disconnecting
<1>5. UseInv'
    BY DEF MgrSwitch, sockVars, UseInv, ClientInv, Working, Exchanging
<1>6. RequestInv'
    BY DEF MgrSwitch, sockVars, callVars, RequestInv, Carrier, ClientInv, Working
<1> QED BY <1>1, <1>2, <1>3, <1>4, <1>5, <1>6

\* Only the set of waiters changes.
LEMMA SpuriousWakeupKeeps == ASSUME Inv, SpuriousWakeup PROVE Inv'
<1> USE DEF Inv
<1>1. TypeOK'
    BY DEF SpuriousWakeup, sockVars, mgrVars, callVars, TypeOK
<1>2. MutexInv'
    BY DEF SpuriousWakeup, mgrVars, MutexInv
<1>3. ClientInv'
    BY DEF SpuriousWakeup, ClientInv
<1>4. SocketInv'
    BY DEF SpuriousWakeup, sockVars, mgrVars, SocketInv, Disconnecting
<1>5. UseInv'
    BY DEF SpuriousWakeup, sockVars, UseInv, Exchanging
<1>6. RequestInv'
    BY DEF SpuriousWakeup, sockVars, callVars, RequestInv, Carrier
<1> QED BY <1>1, <1>2, <1>3, <1>4, <1>5, <1>6

----------------------------------------------------------------------------
(* What holds at the start and after every step *)

\* The invariant holds before the first call.
LEMMA InitInv == Init => Inv
BY SockAssumption DEF Inv, Init, TypeOK, MutexInv, ClientInv, SocketInv, UseInv, RequestInv,
    Carrier,
    Working, AtRest, Critical, Disconnecting, Exchanging, AppLabels, MgrLabels, States

\* Every step, of either thread, and a stutter.
LEMMA NextKeeps == ASSUME Inv, [Next]_vars PROVE Inv'
<1>1. CASE AppBegin
    BY <1>1, SendStartKeeps, CollStatKeeps, DisconnectKeeps, ReadStartKeeps DEF AppBegin
<1>2. CASE AppStep
    BY <1>2, SendWokenKeeps, PrepareKeeps, SendEndKeeps, TransmitKeeps, SendRetryKeeps,
        ReadStartKeeps, ExpectKeeps, ReadHeaderKeeps, ReadRetryKeeps, ReadBodyKeeps, ReadEndKeeps,
        ReadWokenKeeps, CollWriteKeeps, DisconnectCloseKeeps, DisconnectExitKeeps,
        DisconnectFreeKeeps
        DEF AppStep
<1>3. CASE MgrStep
    BY <1>3, MgrTopKeeps, MgrLockKeeps, MgrLookupKeeps, MgrConnectKeeps, MgrExchangeKeeps,
        MgrSwitchKeeps
        DEF MgrStep
<1>4. CASE SpuriousWakeup
    BY <1>4, SpuriousWakeupKeeps
<1>5. CASE UNCHANGED vars
    BY <1>5 DEF Inv, vars, sockVars, mgrVars, callVars, TypeOK, MutexInv, ClientInv, SocketInv,
        UseInv, RequestInv, Carrier, Exchanging, Disconnecting
<1> QED BY <1>1, <1>2, <1>3, <1>4, <1>5 DEF Next

(* The inductive invariant holds in every reachable state.                 *)
THEOREM InvHolds == Spec => []Inv
<1> QED BY InitInv, NextKeeps, PTL DEF Spec

(* From the moment the application copies conn->sock into a network object *)
(* to its last use of it, that descriptor is conn->sock and is open, and   *)
(* the bytes go to it or, with TLS on and the socket switched, to one that *)
(* the switch has closed (sendApiRequest, readAndProcApiReply).            *)
THEOREM ExchangesUseTheSocket == Spec => []ExchangeOnCurrentSocket
<1>1. Inv => ExchangeOnCurrentSocket
    BY DEF Inv, ExchangeOnCurrentSocket, Wire, UseInv, SocketInv, Exchanging, Disconnecting
<1> QED BY InvHolds, <1>1, PTL

(* A reply is read from the connection its request was sent on             *)
(* (readAndProcApiReply).                                                  *)
THEOREM RepliesMatchRequests == Spec => []ReplyFromRequestSocket
<1>1. Inv => ReplyFromRequestSocket
    BY DEF Inv, ReplyFromRequestSocket, Wire, UseInv, RequestInv, Carrier, Exchanging
<1> QED BY InvHolds, <1>1, PTL

(* Outside the critical section of cliReconnManager one socket is open,    *)
(* and no reconnected one waits.                                           *)
THEOREM OneSocketOpen == Spec => []NoSocketLeft
<1>1. Inv => NoSocketLeft
    BY DEF Inv, NoSocketLeft, SocketInv, MutexInv, Critical
<1> QED BY InvHolds, <1>1, PTL

(* Every variable has its type, and clientState says what the application  *)
(* is doing, after every way out of a call.                                *)
THEOREM StateIsTrue == Spec => []StateInv
<1>1. Inv => StateInv
    BY DEF Inv, StateInv, ClientInv, Working, AtRest, Exchanging, ProcessingIsQuiet,
        IdleIsProcessing
<1> QED BY InvHolds, <1>1, PTL

----------------------------------------------------------------------------
(* Who changes the socket *)

\* A switch made by the client finds no reconnected socket: only a manager
\* in its critical section has one.
LEMMA ClientNeverSwitches ==
    ASSUME Inv, SendRetry \/ ReadRetry
    PROVE  sock' = sock
<1>1. reconnectedSock \notin Socks
    BY DEF Inv, SendRetry, ReadRetry, SocketInv, MutexInv, Critical, Disconnecting
<1> QED BY <1>1 DEF SendRetry, ReadRetry, SwitchConnect, sockVars

(* conn->sock changes only at the hands of the manager with the mutex      *)
(* held, while the application exchanges nothing, and of rcDisconnect.     *)
THEOREM SwitchesAreQuiet == Spec => SwitchOnlyWhenQuiet
<1> DEFINE Quiet == \/ mgrPc = "switch" /\ ~Exchanging /\ open' = {sock'}
                    \/ appPc \in {"disc_close", "disc_exit", "disc_join"}
<1>1. ASSUME Inv, Next, sock' # sock PROVE Quiet
    <2>1. CASE DisconnectClose
        BY <2>1 DEF DisconnectClose
    <2>2. CASE MgrSwitch
        <3>1. /\ Alive /\ mgrPc = "switch" /\ clientState = "PROCESSING" /\ SwitchConnect
            BY <1>1, <2>2 DEF MgrSwitch, sockVars
        <3>2. ~Exchanging
            BY <1>1, <3>1 DEF Inv, ClientInv, Working, Exchanging
        <3>3. CASE Disconnecting
            BY <3>1, <3>3 DEF Alive, Disconnecting
        <3>4. CASE ~Disconnecting
            <4>1. reconnectedSock \in Socks \ {sock} /\ open = {sock, reconnectedSock}
                BY <1>1, <3>1, <3>4 DEF Inv, SocketInv
            <4>2. sock' = reconnectedSock /\ open' = open \ {sock}
                BY <3>1, <4>1 DEF SwitchConnect
            <4> QED BY <3>1, <3>2, <4>1, <4>2
        <3> QED BY <3>1, <3>2, <3>3, <3>4
    <2>3. CASE SendRetry \/ ReadRetry
        BY <1>1, <2>3, ClientNeverSwitches
    <2>4. CASE AppBegin
        BY <1>1, <2>4 DEF AppBegin, SendStart, CollStat, Disconnect, ReadStart, sockVars
    <2>5. CASE AppStep /\ ~DisconnectClose /\ ~(SendRetry \/ ReadRetry)
        BY <1>1, <2>5 DEF AppStep, SendWoken, Prepare, SendEnd, Transmit, ReadStart, Expect,
            ReadHeader, ReadBody, ReadEnd, ReadWoken, CollWrite, DisconnectExit, DisconnectFree,
            sockVars
    <2>6. CASE MgrStep /\ ~MgrSwitch
        BY <1>1, <2>6 DEF MgrStep, MgrTop, MgrLock, MgrLookup, MgrConnect, MgrExchange, sockVars
    <2>7. CASE SpuriousWakeup
        BY <1>1, <2>7 DEF SpuriousWakeup, sockVars
    <2> QED BY <1>1, <2>1, <2>2, <2>3, <2>4, <2>5, <2>6, <2>7 DEF Next
<1>2. Inv /\ [Next]_vars => [sock' # sock => Quiet]_vars
    BY <1>1
<1> QED BY InvHolds, <1>2, PTL DEF Spec, SwitchOnlyWhenQuiet
====
