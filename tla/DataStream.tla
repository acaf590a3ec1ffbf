---- MODULE DataStream ----
(***************************************************************************)
(* basic_data_object_buf over one default_transport: a stream buffer whose *)
(* array holds characters read ahead (its get area) or not yet written     *)
(* (its put area), and the position of the object's descriptor, which the  *)
(* buffer knows nothing of.                                                *)
(*                                                                         *)
(* An action is one call on the stream with all the requests it makes. A   *)
(* program reads a stream opened for input and writes one opened for       *)
(* output.                                                                 *)
(***************************************************************************)
EXTENDS Integers, Sequences

CONSTANTS Chars,        \* what a program writes
          Nul,          \* the value of a char that nobody has written
          Objects,      \* what the object may contain at first
          Modes,        \* openmodes, subsets of {in, out, app, trunc, ate}
          BufferSize,   \* buffer_size
          MaxLen,       \* bound: length of the object, and positions
          MaxCount      \* bound: characters of one bulk call

Symbols == Chars \cup {Nul} \cup UNION {{o[i] : i \in DOMAIN o} : o \in Objects}

ASSUME SizeAssumption == BufferSize \in Nat \ {0} /\ MaxLen \in Nat /\ MaxCount \in 1 .. MaxLen
ASSUME ObjectAssumption == \A o \in Objects : o \in Seq(Symbols) /\ Len(o) <= MaxLen
ASSUME ModeAssumption == Modes \subseteq SUBSET {"in", "out", "app", "trunc", "ate"}

VARIABLES object,       \* the data object
          fd,           \* how its descriptor was opened, {} if it is not open
          offset,       \* the position of the descriptor
          area,         \* which pointers are set: "none", "get" or "put"
          next, limit,  \* gptr and egptr, or pptr, relative to the array
          buf,          \* buf_
          stray,        \* the pointers designate the array of another buffer
          stale,        \* history: the descriptor has left the get area
          offTrack,     \* history: see OffTrack
          call,         \* the last call, its arguments and its result
          faulty        \* whether the server may fail

areaVars == <<area, next, limit, stray>>
vars == <<object, fd, offset, areaVars, buf, stale, offTrack, call, faulty>>

Cells == 0 .. BufferSize - 1
Unread == area = "get" /\ next < limit
Filled == area = "get" /\ limit > 0

Init ==
    /\ object \in Objects
    /\ fd = {} /\ offset = 0
    /\ area = "none" /\ next = 0 /\ limit = 0
    /\ buf = [i \in Cells |-> Nul]
    /\ stray = FALSE /\ stale = FALSE /\ offTrack = FALSE
    /\ call = <<"init">>
    /\ faulty \in BOOLEAN

(* What a call does that a file stream would not do, now or in a later     *)
(* call, is noted by its action as condition p.                            *)
OffTrack(p) == offTrack' = (offTrack \/ p)

----------------------------------------------------------------------------
(* basic_transport *)

Overwrite(s, p, w) ==
    IF w = <<>> THEN s
    ELSE LET length == IF p + Len(w) > Len(s) THEN p + Len(w) ELSE Len(s)
         IN [i \in 1 .. length |->
                IF i \in p + 1 .. p + Len(w) THEN w[i - p]
                ELSE IF i <= Len(s) THEN s[i] ELSE Nul]

(* rxDataObjWrite, "equivalent to write of UNIX", on a descriptor opened   *)
(* with m: how many of n characters it may take, and the object and the    *)
(* offset after it has taken w.                                            *)
Takes(n) == IF faulty THEN 0 .. n ELSE {n}
Sent(m, s, p, w) ==
    LET at == IF "app" \in m THEN Len(s) ELSE p
    IN [object |-> Overwrite(s, at, w),
        offset |-> IF w = <<>> THEN p ELSE at + Len(w)]

(* rxDataObjRead: how many of n characters it may return.                  *)
Receives(s, p, n) ==
    LET there == IF p >= Len(s) THEN 0 ELSE IF Len(s) - p < n THEN Len(s) - p ELSE n
    IN IF faulty /\ there > 0 THEN 1 .. there ELSE {there}

(* make_open_flags: the modes it does not refuse, and those it translates  *)
(* to flags with O_TRUNC.                                                  *)
Plain(m) == m \ {"ate"}
Translated == {{"in"}, {"out"}, {"out", "trunc"}, {"app"}, {"out", "app"},
               {"in", "out"}, {"in", "out", "trunc"}, {"in", "out", "app"},
               {"in", "app"}}
Truncating == {{"out"}, {"out", "trunc"}, {"in", "out", "trunc"},
               {"in", "out", "app"}, {"in", "app"}}

----------------------------------------------------------------------------
(* basic_data_object_buf: what its virtual functions are made of *)

Pending(n) == [i \in 1 .. n |-> buf[i - 1]]

(* The outcomes of sync on a descriptor opened with m, at p in object s:   *)
(* the put area is sent from the start of the array, and the next pointer  *)
(* goes back by as much as was taken, left characters from the start; what *)
(* was not taken is not moved there.                                       *)
Flushes(m, s, p) ==
    LET n == IF area = "put" THEN next ELSE 0
        Success(k) == LET sent == Sent(m, s, p, Pending(k))
                      IN [ok |-> TRUE, left |-> n - k, object |-> sent.object, offset |-> sent.offset]
        failure == [ok |-> FALSE, left |-> n, object |-> s, offset |-> p]
    IN IF n = 0 THEN {Success(0)}
       ELSE IF m \cap {"out", "app"} = {} THEN {failure}
       ELSE {Success(k) : k \in Takes(n)} \cup (IF faulty THEN {failure} ELSE {})

Sync == Flushes(fd, object, offset)

(* Mutant: the pointers of the put area stay. *)
PrepareForInputNoSetg(m, s, p) ==
    {[object |-> f.object, offset |-> f.offset, next |-> next,
      limit |-> limit, stray |-> stray, dropped |-> FALSE] : f \in Flushes(m, s, p)}

(* prepare_for_input: the pointers it leaves, and whether characters were  *)
(* still in the put area that it clears.                                   *)
PrepareForInput(m, s, p) ==
    IF area = "get"
    THEN {[object |-> s, offset |-> p, next |-> next, limit |-> limit,
           stray |-> stray, dropped |-> FALSE]}
    ELSE {[object |-> f.object, offset |-> f.offset, next |-> 0, limit |-> 0,
           stray |-> FALSE, dropped |-> f.left > 0] : f \in Flushes(m, s, p)}

(* prepare_for_output, which clears a get area with what is unread in it.  *)
PrepareForOutput ==
    /\ area' = "put"
    /\ limit' = 0
    /\ stray' = (stray /\ area = "put")
    /\ stale' = FALSE
Prepared == IF area = "put" THEN next ELSE 0
Skips == Unread /\ ~stale

(* Bound: no call makes the object longer than MaxLen. *)
Room(n) == /\ offset + Prepared + n <= MaxLen
           /\ "app" \in fd => Len(object) + Prepared + n <= MaxLen

----------------------------------------------------------------------------
(* open, close and the move operations *)

(* init_get_or_put_area finds pointers that close does not reset.          *)
InitArea(m, s, p) ==
    IF "in" \in m
    THEN \E q \in PrepareForInput(m, s, p) :
           /\ area' = "get"
           /\ next' = q.next /\ limit' = q.limit /\ stray' = q.stray
           /\ object' = q.object /\ offset' = q.offset
           /\ stale' = Filled
    ELSE /\ object' = s /\ offset' = p
         /\ IF "out" \in m
            THEN PrepareForOutput /\ next' = Prepared
            ELSE UNCHANGED areaVars /\ stale' = Filled

Open(m) ==
    /\ fd = {}
    /\ Plain(m) \in Translated
    /\ Len(object) + Prepared <= MaxLen    \* bound
    /\ LET s == IF Plain(m) \in Truncating THEN <<>> ELSE object
       IN InitArea(m, s, IF "ate" \in m THEN Len(s) ELSE 0)
    /\ fd' = m
    /\ call' = <<"open", m, TRUE>>
    /\ OffTrack((area = "put" /\ next > 0) \/ {"in", "app"} \subseteq m)
    /\ UNCHANGED <<buf, faulty>>

(* The descriptor is open already, the mode is refused, the request fails, *)
(* or the seek to the end fails, after which closing may fail as well.     *)
OpenFails(m) ==
    /\ fd # {} \/ Plain(m) \notin Translated \/ faulty
    /\ \/ UNCHANGED <<object, fd>>
       \/ /\ fd = {}
          /\ Plain(m) \in Translated
          /\ "ate" \in m
          /\ object' = IF Plain(m) \in Truncating THEN <<>> ELSE object
          /\ fd' \in {{}, m}
    /\ offset' = IF fd' = fd THEN offset ELSE 0
    /\ call' = <<"open", m, FALSE>>
    /\ OffTrack(fd' # fd \/ {"in", "app"} \subseteq m)
    /\ UNCHANGED <<areaVars, buf, stale, faulty>>

Close ==
    /\ IF fd = {}
       THEN call' = <<"close", FALSE>> /\ UNCHANGED <<object, fd, offset, next, offTrack>>
       ELSE \E f \in Sync, closed \in IF faulty THEN BOOLEAN ELSE {TRUE} :
              /\ object' = f.object
              /\ offset' = f.offset
              /\ next' = IF area = "put" THEN f.left ELSE next
              /\ fd' = IF closed THEN {} ELSE fd
              /\ call' = <<"close", f.ok /\ closed>>
              /\ OffTrack(f.ok /\ f.left > 0)
    /\ UNCHANGED <<area, limit, buf, stray, stale, faulty>>

(* The pointers are swapped, and so are the contents of the arrays: in the *)
(* buffer that was made or assigned to, they designate the array of the    *)
(* other, which is assumed to stay alive.                                  *)
Move ==
    /\ stray' = (area # "none")
    /\ call' = <<"move">>
    /\ UNCHANGED <<object, fd, offset, area, next, limit, buf, stale, offTrack,
                   faulty>>

----------------------------------------------------------------------------
(* Reading *)

(* sbumpc: a character of the get area, or underflow, which fills it. *)
Get ==
    /\ "in" \in fd
    /\ area' = "get"
    /\ UNCHANGED <<fd, faulty>>
    /\ \E q \in PrepareForInput(fd, object, offset) :
         /\ object' = q.object
         /\ \/ /\ q.next < q.limit
               /\ call' = <<"get", IF q.stray THEN Nul ELSE buf[q.next]>>
               /\ next' = q.next + 1
               /\ offset' = q.offset
               /\ limit' = q.limit
               /\ stray' = q.stray
               /\ OffTrack(q.stray \/ stale)
               /\ UNCHANGED <<buf, stale>>
            \/ /\ q.next = q.limit
               /\ \E k \in Receives(q.object, q.offset, BufferSize) :
                    /\ k > 0
                    /\ buf' = [i \in Cells |-> IF i < k THEN q.object[q.offset + i + 1]
                                                        ELSE buf[i]]
                    /\ call' = <<"get", buf'[0]>>
                    /\ next' = 1
                    /\ limit' = k
                    /\ offset' = q.offset + k
               /\ stray' = FALSE
               /\ stale' = FALSE
               /\ OffTrack(q.dropped)
            \/ /\ q.next = q.limit
               /\ faulty \/ 0 \in Receives(q.object, q.offset, BufferSize)
               /\ call' = <<"get", "eof">>
               /\ next' = q.next
               /\ limit' = q.limit
               /\ offset' = q.offset
               /\ stray' = q.stray
               /\ OffTrack(q.dropped)
               /\ UNCHANGED <<buf, stale>>

(* xsgetn copies all that is left of the get area, also when that is more  *)
(* than n, and returns only what it receives after that.                   *)
GetN(n) ==
    /\ "in" \in fd
    /\ area' = "get"
    /\ UNCHANGED <<fd, buf, faulty>>
    /\ \E q \in PrepareForInput(fd, object, offset) :
         LET copied == [i \in 1 .. q.limit - q.next |->
                           IF q.stray THEN Nul ELSE buf[q.next + i - 1]]
             got(k) == copied \o SubSeq(q.object, q.offset + 1, q.offset + k)
         IN /\ object' = q.object
            /\ next' = q.limit
            /\ limit' = q.limit
            /\ stray' = q.stray
            /\ OffTrack(q.dropped \/ copied # <<>>)
            /\ \/ /\ Len(copied) <= n
                  /\ \E k \in Receives(q.object, q.offset, n - Len(copied)) :
                       /\ call' = <<"getn", n, SubSeq(got(k), 1, k)>>
                       /\ offset' = q.offset + k
                       /\ stale' = (stale \/ (Filled /\ k > 0))
               \/ /\ Len(copied) > n
                  /\ call' = <<"getn", n, <<"overrun">>>>
                  /\ offset' = q.offset
                  /\ UNCHANGED stale
               \/ /\ faulty
                  /\ call' = <<"getn", n, <<"error">>>>
                  /\ offset' = q.offset
                  /\ UNCHANGED stale

(* What is stored through a stray pointer is not in buf_. *)
Store(i, c) == buf' = IF stray' THEN buf ELSE [buf EXCEPT ![i] = c]

(* sungetc, with c = "eof", and sputbackc, with pbackfail behind them,     *)
(* which puts a character that was not there into the array.               *)
Unget(c) ==
    /\ "in" \in fd
    /\ UNCHANGED <<object, fd, offset, area, limit, stray, stale, faulty>>
    /\ IF area = "get" /\ next > 0
       THEN /\ next' = next - 1
            /\ call' = <<"unget", c, TRUE>>
            /\ IF c = "eof" THEN UNCHANGED buf ELSE Store(next', c)
            /\ OffTrack(stray \/ stale \/ buf' # buf)
       ELSE call' = <<"unget", c, FALSE>> /\ UNCHANGED <<next, buf, offTrack>>

----------------------------------------------------------------------------
(* Writing *)

(* sputc: into the put area, or overflow, which makes room and tries again *)
(* for as long as the server takes none of it.                             *)
Put(c) ==
    /\ fd \cap {"out", "app"} # {}
    /\ Room(1)
    /\ PrepareForOutput
    /\ UNCHANGED <<fd, faulty>>
    /\ IF Prepared < BufferSize
       THEN /\ Store(Prepared, c)
            /\ next' = Prepared + 1
            /\ call' = <<"put", c, TRUE>>
            /\ OffTrack(Skips \/ stray')
            /\ UNCHANGED <<object, offset>>
       ELSE \E f \in Sync :
              /\ object' = f.object
              /\ offset' = f.offset
              /\ call' = <<"put", c, f.ok>>
              /\ IF f.ok
                 THEN /\ f.left < BufferSize
                      /\ Store(f.left, c)
                      /\ next' = f.left + 1
                      /\ OffTrack(f.left > 0 \/ stray')
                 ELSE UNCHANGED <<next, buf, offTrack>>

(* xsputn: flush, and send from the caller's memory. *)
PutN(w) ==
    /\ fd \cap {"out", "app"} # {}
    /\ Room(Len(w))
    /\ PrepareForOutput
    /\ UNCHANGED <<fd, buf, faulty>>
    /\ \E f \in Sync :
         /\ next' = f.left
         /\ OffTrack(Skips \/ (f.ok /\ f.left > 0))
         /\ \/ /\ f.ok
               /\ \E k \in Takes(Len(w)) :
                    LET s == Sent(fd, f.object, f.offset, SubSeq(w, 1, k))
                    IN /\ object' = s.object
                       /\ offset' = s.offset
                       /\ call' = <<"putn", w, k>>
            \/ /\ ~f.ok \/ faulty
               /\ object' = f.object
               /\ offset' = f.offset
               /\ call' = <<"putn", w, -1>>

----------------------------------------------------------------------------
(* Positions *)

SyncCall ==
    /\ fd # {}
    /\ \E f \in Sync :
         /\ object' = f.object
         /\ offset' = f.offset
         /\ next' = IF area = "put" THEN f.left ELSE next
         /\ call' = <<"sync", f.ok>>
         /\ OffTrack(f.ok /\ f.left > 0)
    /\ UNCHANGED <<fd, area, limit, buf, stray, stale, faulty>>

(* seekoff and seekpos: flush, and move the descriptor. The get area is    *)
(* left as it is.                                                          *)
Base(dir, f) == CASE dir = "beg" -> 0
                  [] dir = "cur" -> f.offset
                  [] dir = "end" -> Len(f.object)

(* Mutant: the put area is not flushed. *)
SeekUnsynced(dir, d) ==
    /\ fd # {}
    /\ LET p == Base(dir, [object |-> object, offset |-> offset]) + d
       IN p \in 0 .. MaxLen - Prepared /\ offset' = p /\ call' = <<dir, d, p>>
    /\ stale' = (stale \/ Filled)
    /\ UNCHANGED <<object, fd, areaVars, buf, offTrack, faulty>>

Seek(dir, d) ==
    /\ fd # {}
    /\ \E f \in Sync :
         /\ object' = f.object
         /\ next' = IF area = "put" THEN f.left ELSE next
         /\ OffTrack((f.ok /\ f.left > 0) \/ (dir = "cur" /\ Skips))
         /\ \/ /\ f.ok
               /\ Base(dir, f) + d \in 0 .. MaxLen - f.left
               /\ offset' = Base(dir, f) + d
               /\ call' = <<dir, d, offset'>>
               /\ stale' = (stale \/ Filled)
            \/ /\ ~f.ok \/ faulty \/ Base(dir, f) + d < 0
               /\ offset' = f.offset
               /\ call' = <<dir, d, -1>>
               /\ UNCHANGED stale
    /\ UNCHANGED <<fd, area, limit, buf, stray, faulty>>

----------------------------------------------------------------------------
Call ==
    \/ \E m \in Modes : Open(m) \/ OpenFails(m)
    \/ Close
    \/ Move
    \/ Get
    \/ \E n \in 1 .. MaxCount : GetN(n)
    \/ \E c \in Chars \cup {"eof"} : Unget(c)
    \/ \E c \in Chars : Put(c)
    \/ \E n \in 1 .. MaxCount : \E w \in [1 .. n -> Chars] : PutN(w)
    \/ SyncCall
    \/ \E p \in 0 .. MaxLen : Seek("beg", p)
    \/ \E d \in {-1, 0, 1} : Seek("cur", d)
    \/ \E d \in {-1, 0} : Seek("end", d)

(* Bound: a program that has made a call of the kind OffTrack notes stops. *)
Next == ~offTrack /\ Call

Spec == Init /\ [][Next]_vars

----------------------------------------------------------------------------
(* Properties *)

(* Every variable has its type. *)
TypeOK ==
    /\ object \in Seq(Symbols)
    /\ Len(object) <= MaxLen
    /\ fd \in Modes \cup {{}}
    /\ offset \in 0 .. MaxLen
    /\ area \in {"none", "get", "put"}
    /\ limit \in 0 .. BufferSize
    /\ next \in 0 .. IF area = "put" THEN BufferSize ELSE limit
    /\ buf \in [Cells -> Symbols]
    /\ {stray, stale, offTrack, faulty} \subseteq BOOLEAN

(* The file a program sees: the object with the put area written to it,    *)
(* and the position that is as far before the descriptor's as there are    *)
(* characters unread, or as far behind it as there are unwritten.          *)
Seen == Sent(fd, object, offset, Pending(Prepared))
Content == IF fd = {} THEN object ELSE Seen.object
Pos == IF fd = {} THEN 0
       ELSE IF Skips THEN offset - (limit - next) ELSE Seen.offset

File == INSTANCE SequentialFile
           WITH content <- Content, pos <- Pos, stored <- object, mode <- fd

(* The stream is a file: calls of any kind in any order, with any buffer   *)
(* boundary and failing requests between them, read and write what a file  *)
(* stream would, and a successful sync or close has stored all of it, for  *)
(* as long as the program stays off the calls that OffTrack notes.         *)
FileSteps ==
    File!FileInit /\ [][offTrack' \/ File!FileNext]_(File!fileVars)

====
