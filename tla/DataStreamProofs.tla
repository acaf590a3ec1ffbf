---- MODULE DataStreamProofs ----
(***************************************************************************)
(* Proofs about DataStream: a stream of any buffer size implements         *)
(* SequentialFile, as long as it is not off track.                         *)
(***************************************************************************)
EXTENDS DataStream, SequenceTheorems, TLAPS

(* The get area holds what is in the object before the descriptor, unless  *)
(* the descriptor has left it.                                             *)
GetInv ==
    fd # {} /\ Filled /\ ~stale =>
        /\ limit <= offset /\ offset <= Len(object)
        /\ \A i \in 0 .. limit - 1 : buf[i] = object[offset - limit + i + 1]

(* What is in the put area can be written, and finds room.                 *)
PutInv ==
    fd # {} /\ area = "put" =>
        /\ fd \cap {"out", "app"} # {}
        /\ offset + next <= MaxLen
        /\ "app" \in fd => Len(object) + next <= MaxLen

Inv == TypeOK /\ (~offTrack => GetInv /\ PutInv)

----------------------------------------------------------------------------
(* Sequences *)

\* A function on 1 .. n is a sequence of length n.
LEMMA FunctionIsSeq ==
    ASSUME NEW S, NEW n \in Nat, NEW f \in [1 .. n -> S]
    PROVE  f \in Seq(S) /\ Len(f) = n
<1>1. f \in Seq(S)
    BY SeqDef
<1>2. DOMAIN f = 1 .. n /\ DOMAIN f = 1 .. Len(f) /\ Len(f) \in Nat
    BY <1>1, LenProperties
<1> QED BY <1>1, <1>2

\* The length and the characters of what Overwrite returns.
WrittenLen(s, p, w) == IF p + Len(w) > Len(s) THEN p + Len(w) ELSE Len(s)
WrittenAt(s, p, w, i) == IF i \in p + 1 .. p + Len(w) THEN w[i - p]
                         ELSE IF i <= Len(s) THEN s[i] ELSE Nul

\* What Overwrite returns, character by character.
LEMMA OverwriteFacts ==
    ASSUME NEW S, Nul \in S, NEW s \in Seq(S), NEW p \in Nat, NEW w \in Seq(S), w # <<>>
    PROVE  /\ Overwrite(s, p, w) \in Seq(S)
           /\ Len(Overwrite(s, p, w)) = WrittenLen(s, p, w)
           /\ \A i \in 1 .. WrittenLen(s, p, w) : Overwrite(s, p, w)[i] = WrittenAt(s, p, w, i)
<1>1. Len(s) \in Nat /\ Len(w) \in Nat /\ WrittenLen(s, p, w) \in Nat
    BY LenProperties DEF WrittenLen
<1>2. Overwrite(s, p, w) = [i \in 1 .. WrittenLen(s, p, w) |-> WrittenAt(s, p, w, i)]
    BY DEF Overwrite, WrittenLen, WrittenAt
<1>3. ASSUME NEW i \in 1 .. WrittenLen(s, p, w) PROVE WrittenAt(s, p, w, i) \in S
    <2>1. CASE i \in p + 1 .. p + Len(w)
        <3>1. i - p \in 1 .. Len(w)
            BY <1>1, <2>1
        <3> QED BY <2>1, <3>1, ElementOfSeq DEF WrittenAt
    <2>2. CASE i \notin p + 1 .. p + Len(w) /\ i <= Len(s)
        <3>1. i \in 1 .. Len(s)
            BY <1>1, <2>2
        <3> QED BY <2>2, <3>1, ElementOfSeq DEF WrittenAt
    <2> QED BY <2>1, <2>2 DEF WrittenAt
<1>4. Overwrite(s, p, w) \in [1 .. WrittenLen(s, p, w) -> S]
    BY <1>2, <1>3
<1>5. Overwrite(s, p, w) \in Seq(S) /\ Len(Overwrite(s, p, w)) = WrittenLen(s, p, w)
    BY <1>1, <1>4, FunctionIsSeq
<1> QED BY <1>2, <1>5

\* Writing on where one has written is writing both at once.
LEMMA OverwriteOn ==
    ASSUME NEW S, Nul \in S, NEW s \in Seq(S), NEW p \in Nat,
           NEW w \in Seq(S), NEW v \in Seq(S)
    PROVE  Overwrite(Overwrite(s, p, w), p + Len(w), v) = Overwrite(s, p, w \o v)
<1>1. CASE w = <<>>
    BY <1>1 DEF Overwrite
<1>2. CASE v = <<>>
    <2>1. w \o v = w
        BY <1>2, ConcatEmptySeq
    <2> QED BY <1>2, <2>1 DEF Overwrite
<1>3. CASE w # <<>> /\ v # <<>>
    <2>1. /\ Len(s) \in Nat /\ Len(w) \in Nat /\ Len(v) \in Nat /\ p + Len(w) \in Nat
          /\ w \o v \in Seq(S) /\ Len(w \o v) = Len(w) + Len(v) /\ w \o v # <<>>
        BY <1>3, LenProperties, ConcatProperties, ConcatEqualIffEmpty
    <2> DEFINE a == Overwrite(s, p, w)
               b == Overwrite(a, p + Len(w), v)
               c == Overwrite(s, p, w \o v)
               n == WrittenLen(s, p, w \o v)
    <2>2. /\ a \in Seq(S) /\ Len(a) = WrittenLen(s, p, w)
          /\ \A i \in 1 .. WrittenLen(s, p, w) : a[i] = WrittenAt(s, p, w, i)
        BY <1>3, OverwriteFacts
    <2> HIDE DEF a
    <2>3. /\ b \in Seq(S) /\ Len(b) = WrittenLen(a, p + Len(w), v)
          /\ \A i \in 1 .. WrittenLen(a, p + Len(w), v) : b[i] = WrittenAt(a, p + Len(w), v, i)
        BY <1>3, <2>1, <2>2, OverwriteFacts
    <2>4. /\ c \in Seq(S) /\ Len(c) = n
          /\ \A i \in 1 .. n : c[i] = WrittenAt(s, p, w \o v, i)
        BY <2>1, OverwriteFacts
    <2> HIDE DEF b, c
    <2>5. /\ Len(a) \in Nat /\ Len(a) >= p + Len(w) /\ Len(a) >= Len(s)
          /\ n \in Nat /\ n >= Len(a)
          /\ n = WrittenLen(a, p + Len(w), v)
        <3>1. Len(a) = IF p + Len(w) > Len(s) THEN p + Len(w) ELSE Len(s)
            BY <2>2 DEF WrittenLen
        <3>2. n = IF p + (Len(w) + Len(v)) > Len(s) THEN p + (Len(w) + Len(v)) ELSE Len(s)
            BY <2>1 DEF WrittenLen
        <3>3. WrittenLen(a, p + Len(w), v) =
                IF p + Len(w) + Len(v) > Len(a) THEN p + Len(w) + Len(v) ELSE Len(a)
            BY DEF WrittenLen
        <3> HIDE DEF n
        <3> QED BY <2>1, <3>1, <3>2, <3>3
    <2> HIDE DEF n
    <2>6. ASSUME NEW i \in 1 .. n PROVE WrittenAt(a, p + Len(w), v, i) = WrittenAt(s, p, w \o v, i)
        <3>1. CASE i \in p + Len(w) + 1 .. p + Len(w) + Len(v)
            <4>1. /\ i - p \in 1 .. Len(w) + Len(v) /\ ~(i - p <= Len(w))
                  /\ i - p - Len(w) = i - (p + Len(w))
                BY <2>1, <3>1
            <4>2. (w \o v)[i - p] = v[i - (p + Len(w))]
                BY <4>1, ConcatProperties
            <4>3. i \in p + 1 .. p + Len(w \o v)
                BY <2>1, <3>1
            <4> QED BY <3>1, <4>2, <4>3 DEF WrittenAt
        <3>2. CASE i \in p + 1 .. p + Len(w)
            <4>1. i - p \in 1 .. Len(w) + Len(v) /\ i - p <= Len(w)
                BY <2>1, <3>2
            <4>2. (w \o v)[i - p] = w[i - p]
                BY <4>1, ConcatProperties
            <4>3. i \in p + 1 .. p + Len(w \o v) /\ i \notin p + Len(w) + 1 .. p + Len(w) + Len(v)
                BY <2>1, <3>2
            <4>4. i <= Len(a) /\ i \in 1 .. WrittenLen(s, p, w)
                BY <2>1, <2>2, <2>5, <3>2
            <4>5. a[i] = WrittenAt(s, p, w, i)
                BY <2>2, <4>4
            <4> QED BY <3>2, <4>2, <4>3, <4>4, <4>5 DEF WrittenAt
        <3>3. CASE i \notin p + 1 .. p + Len(w) + Len(v)
            <4>1. /\ i \notin p + 1 .. p + Len(w \o v) /\ i \notin p + 1 .. p + Len(w)
                  /\ i \notin p + Len(w) + 1 .. p + Len(w) + Len(v)
                BY <2>1, <3>3
            <4>2. CASE i <= Len(a)
                <5>1. i \in 1 .. WrittenLen(s, p, w)
                    BY <2>2, <2>5, <4>2
                <5>2. a[i] = WrittenAt(s, p, w, i)
                    BY <2>2, <5>1
                <5> QED BY <4>1, <4>2, <5>2 DEF WrittenAt
            <4>3. CASE ~(i <= Len(a))
                <5>1. ~(i <= Len(s))
                    BY <2>1, <2>5, <4>3
                <5> QED BY <4>1, <4>3, <5>1 DEF WrittenAt
            <4> QED BY <4>2, <4>3
        <3> QED BY <2>1, <2>5, <3>1, <3>2, <3>3
    <2>7. b = c
        BY <2>3, <2>4, <2>5, <2>6, SeqEqual
    <2> QED BY <2>7 DEF a, b, c
<1> QED BY <1>1, <1>2, <1>3

----------------------------------------------------------------------------
(* What is sent *)

\* Where characters are written, and what Sent makes of object and offset.
Where(m, s, p) == IF "app" \in m THEN Len(s) ELSE p
SentObject(m, s, p, w) == Overwrite(s, Where(m, s, p), w)
SentOffset(m, s, p, w) == IF w = <<>> THEN p ELSE Where(m, s, p) + Len(w)

\* The two parts of what a request leaves behind.
LEMMA SentIs ==
    ASSUME NEW m, NEW s, NEW p, NEW w
    PROVE  Sent(m, s, p, w) = [object |-> SentObject(m, s, p, w), offset |-> SentOffset(m, s, p, w)]
BY DEF Sent, SentObject, SentOffset, Where

\* Sending nothing changes nothing.
LEMMA SentNothing ==
    ASSUME NEW m, NEW s, NEW p
    PROVE  SentObject(m, s, p, <<>>) = s /\ SentOffset(m, s, p, <<>>) = p
BY DEF SentObject, SentOffset, Overwrite

\* What fills a gap is a character of objects.
LEMMA NulIsSymbol == Nul \in Symbols
BY DEF Symbols

\* What is sent finds room, if there was room for it.
LEMMA SentFits ==
    ASSUME NEW m, NEW s \in Seq(Symbols), NEW p \in Nat, NEW w \in Seq(Symbols), NEW n \in Nat,
           p + Len(w) <= n, "app" \in m => Len(s) + Len(w) <= n
    PROVE  /\ SentObject(m, s, p, w) \in Seq(Symbols)
           /\ SentOffset(m, s, p, w) \in 0 .. n
           /\ Len(SentObject(m, s, p, w)) <= n \/ Len(SentObject(m, s, p, w)) = Len(s)
           /\ "app" \in m => Len(SentObject(m, s, p, w)) <= n
<1>1. Len(s) \in Nat /\ Len(w) \in Nat
    BY LenProperties
<1>2. CASE w = <<>>
    <2>1. SentObject(m, s, p, w) = s /\ SentOffset(m, s, p, w) = p
        BY <1>2, SentNothing
    <2> QED BY <1>1, <2>1
<1>3. CASE w # <<>>
    <2>1. Where(m, s, p) \in Nat /\ Where(m, s, p) + Len(w) <= n
        BY <1>1 DEF Where
    <2>2. /\ SentObject(m, s, p, w) \in Seq(Symbols)
          /\ Len(SentObject(m, s, p, w)) = WrittenLen(s, Where(m, s, p), w)
        BY <1>3, <2>1, NulIsSymbol, OverwriteFacts DEF SentObject
    <2>3. SentOffset(m, s, p, w) = Where(m, s, p) + Len(w)
        BY <1>3 DEF SentOffset
    <2>4. "app" \in m => Where(m, s, p) = Len(s)
        BY DEF Where
    <2> QED BY <1>1, <2>1, <2>2, <2>3, <2>4 DEF WrittenLen
<1> QED BY <1>2, <1>3

\* Sending on is sending both at once.
LEMMA SentOn ==
    ASSUME NEW m, NEW s \in Seq(Symbols), NEW p \in Nat,
           NEW w \in Seq(Symbols), NEW v \in Seq(Symbols)
    PROVE  /\ SentObject(m, SentObject(m, s, p, w), SentOffset(m, s, p, w), v)
                = SentObject(m, s, p, w \o v)
           /\ SentOffset(m, SentObject(m, s, p, w), SentOffset(m, s, p, w), v)
                = SentOffset(m, s, p, w \o v)
<1> DEFINE t == SentObject(m, s, p, w)
           q == SentOffset(m, s, p, w)
<1>1. /\ Len(s) \in Nat /\ Len(w) \in Nat /\ Len(v) \in Nat
      /\ Len(w \o v) = Len(w) + Len(v)
    BY LenProperties, ConcatProperties
<1>2. CASE w = <<>>
    <2>1. w \o v = v
        BY <1>2, ConcatEmptySeq
    <2> QED BY <1>2, <2>1, SentNothing
<1>3. CASE v = <<>>
    <2>1. w \o v = w
        BY <1>3, ConcatEmptySeq
    <2> QED BY <1>3, <2>1, SentNothing
<1>4. CASE w # <<>> /\ v # <<>>
    <2>1. w \o v # <<>>
        BY <1>4, ConcatEqualIffEmpty
    <2>2. Where(m, s, p) \in Nat /\ q = Where(m, s, p) + Len(w)
        BY <1>1, <1>4 DEF Where, SentOffset
    <2>3. Len(t) = WrittenLen(s, Where(m, s, p), w)
        BY <1>4, <2>2, NulIsSymbol, OverwriteFacts DEF SentObject
    <2>4. Where(m, t, q) = Where(m, s, p) + Len(w)
        BY <1>1, <2>2, <2>3 DEF Where, WrittenLen
    <2>5. SentObject(m, t, q, v) = SentObject(m, s, p, w \o v)
        BY <2>2, <2>4, NulIsSymbol, OverwriteOn DEF SentObject
    <2>6. SentOffset(m, t, q, v) = SentOffset(m, s, p, w \o v)
        BY <1>1, <1>4, <2>1, <2>2, <2>4 DEF SentOffset
    <2> QED BY <2>5, <2>6
<1> QED BY <1>2, <1>3, <1>4

----------------------------------------------------------------------------
(* The put area *)

\* How many characters wait in the put area.
LEMMA PreparedFacts ==
    ASSUME TypeOK
    PROVE  /\ Prepared \in 0 .. BufferSize /\ Prepared \in Nat
           /\ Prepared > 0 => area = "put"
           /\ area = "put" => Prepared = next
BY SizeAssumption DEF TypeOK, Prepared

\* The characters that wait in it.
LEMMA PendingFacts ==
    ASSUME TypeOK, NEW n \in 0 .. BufferSize
    PROVE  /\ Pending(n) \in Seq(Symbols) /\ Len(Pending(n)) = n
           /\ n = 0 => Pending(n) = <<>>
<1>1. n \in Nat /\ \A i \in 1 .. n : i - 1 \in Cells
    BY SizeAssumption DEF Cells
<1>2. Pending(n) \in [1 .. n -> Symbols]
    BY <1>1 DEF Pending, TypeOK
<1>3. Pending(n) \in Seq(Symbols) /\ Len(Pending(n)) = n
    BY <1>1, <1>2, FunctionIsSeq
<1>4. n = 0 => Pending(n) = <<>>
    BY <1>3, EmptySeq
<1> QED BY <1>3, <1>4

\* What a flush on a descriptor opened with m, at p in object s, may lead to,
\* if there is room for the put area and r characters more.
LEMMA FlushFacts ==
    ASSUME TypeOK, NEW m, NEW s \in Seq(Symbols), NEW p \in Nat, NEW r \in Nat,
           Len(s) <= MaxLen, p + Prepared + r <= MaxLen,
           "app" \in m => Len(s) + Prepared + r <= MaxLen,
           NEW f \in Flushes(m, s, p)
    PROVE  /\ f.ok \in BOOLEAN
           /\ f.left \in 0 .. Prepared
           /\ f.object \in Seq(Symbols) /\ Len(f.object) <= MaxLen
           /\ f.offset \in Nat /\ f.offset + f.left + r <= MaxLen
           /\ "app" \in m => Len(f.object) + f.left + r <= MaxLen
           /\ f.ok /\ f.left = 0 => /\ f.object = SentObject(m, s, p, Pending(Prepared))
                                    /\ f.offset = SentOffset(m, s, p, Pending(Prepared))
           /\ ~f.ok => /\ f.object = s /\ f.offset = p /\ f.left = Prepared /\ Prepared > 0
                       /\ faulty \/ m \cap {"out", "app"} = {}
<1>1. Prepared \in Nat /\ Prepared \in 0 .. BufferSize /\ Len(s) \in Nat /\ MaxLen \in Nat
    BY PreparedFacts, LenProperties, SizeAssumption
<1>2. \/ \E k \in 0 .. Prepared :
           f = [ok |-> TRUE, left |-> Prepared - k, object |-> SentObject(m, s, p, Pending(k)),
                offset |-> SentOffset(m, s, p, Pending(k))]
      \/ /\ f = [ok |-> FALSE, left |-> Prepared, object |-> s, offset |-> p]
         /\ Prepared > 0
         /\ faulty \/ m \cap {"out", "app"} = {}
    BY <1>1, SentIs DEF Flushes, Prepared, Takes
<1>3. CASE f = [ok |-> FALSE, left |-> Prepared, object |-> s, offset |-> p]
           /\ Prepared > 0 /\ (faulty \/ m \cap {"out", "app"} = {})
    BY <1>1, <1>3
<1>4. ASSUME NEW k \in 0 .. Prepared,
             f = [ok |-> TRUE, left |-> Prepared - k, object |-> SentObject(m, s, p, Pending(k)),
                  offset |-> SentOffset(m, s, p, Pending(k))]
      PROVE  /\ f.ok = TRUE
             /\ f.left \in 0 .. Prepared
             /\ f.object \in Seq(Symbols) /\ Len(f.object) <= MaxLen
             /\ f.offset \in Nat /\ f.offset + f.left + r <= MaxLen
             /\ "app" \in m => Len(f.object) + f.left + r <= MaxLen
             /\ f.left = 0 => /\ f.object = SentObject(m, s, p, Pending(Prepared))
                              /\ f.offset = SentOffset(m, s, p, Pending(Prepared))
    <2>1. Pending(k) \in Seq(Symbols) /\ Len(Pending(k)) = k
        <3>1. k \in 0 .. BufferSize
            BY <1>1, SizeAssumption
        <3> QED BY <3>1, PendingFacts
    <2>2. /\ f.ok = TRUE /\ f.left = Prepared - k
          /\ f.object = SentObject(m, s, p, Pending(k))
          /\ f.offset = SentOffset(m, s, p, Pending(k))
        BY <1>4
    <2> DEFINE n == MaxLen - (f.left + r)
    <2>3. n \in Nat /\ p + k <= n /\ ("app" \in m => Len(s) + k <= n)
        BY <1>1, <2>2
    <2> HIDE DEF n
    <2>4. /\ f.object \in Seq(Symbols) /\ f.offset \in 0 .. n
          /\ Len(f.object) <= n \/ Len(f.object) = Len(s)
          /\ "app" \in m => Len(f.object) <= n
        BY <2>1, <2>2, <2>3, SentFits
    <2>5. Len(f.object) \in Nat
        BY <2>4, LenProperties
    <2>6. f.left = 0 => k = Prepared
        BY <1>1, <2>2
    <2> QED BY <1>1, <2>2, <2>4, <2>5, <2>6 DEF n
<1> QED BY <1>2, <1>3, <1>4

----------------------------------------------------------------------------
(* The file a program sees *)

SeenObject == SentObject(fd, object, offset, Pending(Prepared))
SeenOffset == SentOffset(fd, object, offset, Pending(Prepared))

\* The characters of an empty area are the empty sequence.
LEMMA EmptyFunction ==
    ASSUME NEW f, f = [i \in 1 .. 0 |-> f[i]]
    PROVE  f = <<>>
<1>1. f \in [1 .. 0 -> Symbols]
    OBVIOUS
<1>2. f \in Seq(Symbols) /\ Len(f) = 0
    BY <1>1, FunctionIsSeq
<1> QED BY <1>2, EmptySeq

\* What the program sees, by what is in the areas ...
LEMMA View ==
    /\ fd = {} => Content = object /\ Pos = 0
    /\ fd # {} => /\ Content = SeenObject
                  /\ Skips => Pos = offset - (limit - next)
                  /\ ~Skips => Pos = SeenOffset
    /\ Prepared = 0 => SeenObject = object /\ SeenOffset = offset
<1>1. Prepared = 0 => Pending(Prepared) = <<>>
    BY EmptyFunction DEF Pending
<1> QED BY <1>1, SentIs, SentNothing DEF Content, Pos, Seen, SeenObject, SeenOffset

\* ... and after a call.
LEMMA ViewNext ==
    /\ fd' = {} => Content' = object' /\ Pos' = 0
    /\ fd' # {} => /\ Content' = SeenObject'
                   /\ Skips' => Pos' = offset' - (limit' - next')
                   /\ ~Skips' => Pos' = SeenOffset'
    /\ Prepared' = 0 => SeenObject' = object' /\ SeenOffset' = offset'
<1>1. Prepared' = 0 => Pending(Prepared)' = <<>>
    BY EmptyFunction DEF Pending
<1> QED BY <1>1, SentIs, SentNothing DEF Content, Pos, Seen, SeenObject, SeenOffset

\* There is room for what is in the put area.
LEMMA RoomForArea ==
    ASSUME Inv, ~offTrack, fd # {}
    PROVE  Room(0)
<1>1. Prepared \in Nat /\ (Prepared > 0 => area = "put") /\ (area = "put" => Prepared = next)
    BY PreparedFacts DEF Inv
<1>2. Len(object) \in Nat /\ Len(object) <= MaxLen /\ offset \in Nat /\ offset <= MaxLen
    BY LenProperties, SizeAssumption DEF Inv, TypeOK
<1>3. CASE area = "put"
    BY <1>1, <1>2, <1>3 DEF Inv, PutInv, Room
<1>4. CASE area # "put"
    BY <1>1, <1>2, <1>4, SizeAssumption DEF Room
<1> QED BY <1>3, <1>4

\* What a flush of an open stream leads to.
LEMMA SyncFacts ==
    ASSUME Inv, ~offTrack, fd # {}, NEW r \in Nat, Room(r), NEW f \in Sync
    PROVE  /\ f.ok \in BOOLEAN
           /\ f.left \in Nat /\ f.left <= Prepared /\ f.left <= BufferSize
           /\ f.object \in Seq(Symbols) /\ Len(f.object) \in Nat /\ Len(f.object) <= MaxLen
           /\ f.offset \in Nat /\ f.offset + f.left + r <= MaxLen
           /\ "app" \in fd => Len(f.object) + f.left + r <= MaxLen
           /\ f.ok /\ f.left = 0 => f.object = SeenObject /\ f.offset = SeenOffset
           /\ ~f.ok => /\ f.object = object /\ f.offset = offset /\ f.left = Prepared
                       /\ faulty /\ area = "put"
           /\ Prepared = 0 => f.ok /\ f.left = 0 /\ f.object = object /\ f.offset = offset
<1>1. /\ Prepared \in Nat /\ Prepared <= BufferSize /\ BufferSize \in Nat
      /\ Prepared > 0 => area = "put"
    BY PreparedFacts, SizeAssumption DEF Inv
<1>2. object \in Seq(Symbols) /\ Len(object) <= MaxLen /\ offset \in Nat
    BY SizeAssumption DEF Inv, TypeOK
<1>3. /\ f.ok \in BOOLEAN
      /\ f.left \in 0 .. Prepared
      /\ f.object \in Seq(Symbols) /\ Len(f.object) <= MaxLen
      /\ f.offset \in Nat /\ f.offset + f.left + r <= MaxLen
      /\ "app" \in fd => Len(f.object) + f.left + r <= MaxLen
      /\ f.ok /\ f.left = 0 => f.object = SeenObject /\ f.offset = SeenOffset
      /\ ~f.ok => /\ f.object = object /\ f.offset = offset /\ f.left = Prepared /\ Prepared > 0
                  /\ faulty \/ fd \cap {"out", "app"} = {}
    BY <1>2, FlushFacts DEF Inv, Room, Sync, SeenObject, SeenOffset
<1>4. area = "put" => fd \cap {"out", "app"} # {}
    BY DEF Inv, PutInv
<1>5. Len(f.object) \in Nat
    BY <1>3, LenProperties
<1>6. Prepared = 0 => f.ok /\ f.left = 0
    BY <1>1, <1>3
<1> QED BY <1>1, <1>3, <1>4, <1>5, <1>6, View

----------------------------------------------------------------------------
(* Calls that flush *)

\* A flush that leaves descriptor, area and get area alone changes nothing
\* that a program sees.
LEMMA SyncStep ==
    ASSUME Inv, ~offTrack, fd # {}, NEW f \in Sync, object' = f.object, offset' = f.offset,
           next' = IF area = "put" THEN f.left ELSE next,
           UNCHANGED <<fd, area, limit, buf, stray, stale, faulty>>,
           offTrack' \in BOOLEAN, f.ok /\ f.left > 0 => offTrack'
    PROVE  /\ Inv'
           /\ ~offTrack' => /\ Content' = Content /\ Pos' = Pos
                            /\ object' \in {object, Content}
                            /\ f.ok => object' = Content
                            /\ ~f.ok => faulty
<1>1. /\ f.ok \in BOOLEAN
      /\ f.left \in Nat /\ f.left <= Prepared /\ f.left <= BufferSize
      /\ f.object \in Seq(Symbols) /\ Len(f.object) <= MaxLen
      /\ f.offset \in Nat /\ f.offset + f.left + 0 <= MaxLen
      /\ "app" \in fd => Len(f.object) + f.left + 0 <= MaxLen
      /\ f.ok /\ f.left = 0 => f.object = SeenObject /\ f.offset = SeenOffset
      /\ ~f.ok => /\ f.object = object /\ f.offset = offset /\ f.left = Prepared
                  /\ faulty /\ area = "put"
      /\ Prepared = 0 => f.ok /\ f.left = 0 /\ f.object = object /\ f.offset = offset
    BY RoomForArea, SyncFacts
<1>2. TypeOK'
    <2>1. offset' \in 0 .. MaxLen
        BY <1>1, SizeAssumption
    <2>2. next' \in 0 .. IF area' = "put" THEN BufferSize ELSE limit'
        BY <1>1, SizeAssumption DEF Inv, TypeOK
    <2> QED BY <1>1, <2>1, <2>2 DEF Inv, TypeOK, Cells
<1>3. CASE offTrack'
    BY <1>2, <1>3 DEF Inv
<1>4. CASE ~f.ok
    <2>1. object' = object /\ offset' = offset /\ next' = next
        BY <1>1, <1>4, PreparedFacts DEF Inv
    <2>2. GetInv' /\ PutInv'
        BY <2>1 DEF Inv, GetInv, PutInv, Filled
    <2>3. Content' = Content /\ Pos' = Pos
        BY <2>1 DEF Content, Pos, Seen, Pending, Prepared, Skips, Unread
    <2> QED BY <1>1, <1>2, <1>4, <2>1, <2>2, <2>3 DEF Inv
<1>5. CASE f.ok /\ f.left = 0
    <2>1. object' = SeenObject /\ offset' = SeenOffset /\ Prepared' = 0
        BY <1>1, <1>5 DEF Prepared
    <2>2. area # "put" => object' = object /\ offset' = offset /\ next' = next
        BY <1>1 DEF Prepared
    <2>3. GetInv'
        BY <2>2 DEF Inv, GetInv, Filled
    <2>4. PutInv'
        BY <1>1, <1>5 DEF Inv, PutInv
    <2>5. Content' = SeenObject /\ Content = SeenObject
        BY <2>1, View, ViewNext
    <2>6. Pos' = Pos
        <3>1. CASE Skips
            <4>1. Skips' /\ next' = next /\ offset' = offset
                BY <2>2, <3>1 DEF Skips, Unread
            <4> QED BY <3>1, <4>1, View, ViewNext
        <3>2. CASE ~Skips
            <4>1. ~Skips'
                BY <2>2, <3>2 DEF Skips, Unread
            <4> QED BY <2>1, <3>2, <4>1, View, ViewNext
        <3> QED BY <3>1, <3>2
    <2> QED BY <1>2, <1>5, <2>1, <2>3, <2>4, <2>5, <2>6 DEF Inv
<1>6. ~(f.ok /\ f.left > 0) \/ offTrack'
    OBVIOUS
<1> QED BY <1>1, <1>3, <1>4, <1>5, <1>6

\* offTrack stays FALSE exactly if what its action notes did not happen.
LEMMA OnTrack ==
    ASSUME NEW p, ~offTrack, OffTrack(p)
    PROVE  offTrack' <=> p
BY Zenon DEF OffTrack

\* sync flushes, and the file has been stored if it succeeds.
LEMMA SyncCallKeeps ==
    ASSUME Inv, ~offTrack, SyncCall
    PROVE  Inv' /\ (offTrack' \/ File!Sync)
<1>1. PICK f \in Sync :
         /\ object' = f.object
         /\ offset' = f.offset
         /\ next' = IF area = "put" THEN f.left ELSE next
         /\ call' = <<"sync", f.ok>>
         /\ OffTrack(f.ok /\ f.left > 0)
    BY DEF SyncCall
<1>2. fd # {} /\ UNCHANGED <<fd, area, limit, buf, stray, stale, faulty>>
    BY DEF SyncCall
<1>3. f.ok \in BOOLEAN
    BY <1>2, RoomForArea, SyncFacts
<1>4. offTrack' \in BOOLEAN /\ (f.ok /\ f.left > 0 => offTrack')
    BY <1>1, OnTrack DEF OffTrack
<1>5. /\ Inv'
      /\ ~offTrack' => /\ Content' = Content /\ Pos' = Pos
                       /\ object' \in {object, Content}
                       /\ f.ok => object' = Content
                       /\ ~f.ok => faulty
    BY <1>1, <1>2, <1>4, SyncStep
<1>6. ~offTrack' => File!Sync
    BY <1>1, <1>2, <1>3, <1>5 DEF File!Sync, File!Kept, File!Lag
<1> QED BY <1>5, <1>6

\* A seek flushes before it moves the descriptor.
LEMMA SeekKeeps ==
    ASSUME Inv, ~offTrack, NEW dir \in {"beg", "cur", "end"}, NEW d \in Int, Seek(dir, d)
    PROVE  Inv' /\ (offTrack' \/ File!Seek(dir, d))
<1>1. PICK f \in Sync :
         /\ object' = f.object
         /\ next' = IF area = "put" THEN f.left ELSE next
         /\ OffTrack((f.ok /\ f.left > 0) \/ (dir = "cur" /\ Skips))
         /\ \/ /\ f.ok
               /\ Base(dir, f) + d \in 0 .. MaxLen - f.left
               /\ offset' = Base(dir, f) + d
               /\ call' = <<dir, d, offset'>>
               /\ stale' = (stale \/ Filled)
            \/ /\ ~f.ok \/ faulty \/ Base(dir, f) + d < 0
               /\ offset' = f.offset
               /\ call' = <<dir, d, -1>>
               /\ UNCHANGED stale
    BY DEF Seek
<1>2. fd # {} /\ UNCHANGED <<fd, area, limit, buf, stray, faulty>>
    BY DEF Seek
<1>3. /\ f.ok \in BOOLEAN
      /\ f.left \in Nat /\ f.left <= Prepared /\ f.left <= BufferSize
      /\ f.object \in Seq(Symbols) /\ Len(f.object) <= MaxLen
      /\ f.ok /\ f.left = 0 => f.object = SeenObject /\ f.offset = SeenOffset
      /\ ~f.ok => faulty
      /\ Prepared = 0 => f.ok /\ f.left = 0 /\ f.object = object /\ f.offset = offset
    BY <1>2, RoomForArea, SyncFacts
<1>4. /\ offTrack' \in BOOLEAN
      /\ f.ok /\ f.left > 0 => offTrack'
      /\ dir = "cur" /\ Skips => offTrack'
    <2>1. offTrack' <=> (f.ok /\ f.left > 0) \/ (dir = "cur" /\ Skips)
        BY <1>1, OnTrack
    <2>2. offTrack' \in BOOLEAN
        BY <1>1 DEF OffTrack
    <2> QED BY <2>1, <2>2
<1>5. ~offTrack' /\ f.ok => Base(dir, f) = File!Base(dir)
    <2> SUFFICES ASSUME ~offTrack', f.ok PROVE Base(dir, f) = File!Base(dir)
        OBVIOUS
    <2>1. f.left = 0
        BY <1>3, <1>4
    <2>2. Len(f.object) = Len(Content)
        BY <1>2, <1>3, <2>1, View
    <2>3. dir = "cur" => f.offset = Pos
        BY <1>2, <1>3, <1>4, <2>1, View
    <2> QED BY <2>2, <2>3 DEF Base, File!Base
<1>6. CASE /\ f.ok
           /\ Base(dir, f) + d \in 0 .. MaxLen - f.left
           /\ offset' = Base(dir, f) + d
           /\ call' = <<dir, d, offset'>>
           /\ stale' = (stale \/ Filled)
    <2>1. TypeOK'
        <3>1. offset' \in 0 .. MaxLen
            BY <1>3, <1>6, SizeAssumption
        <3>2. next' \in 0 .. IF area' = "put" THEN BufferSize ELSE limit'
            BY <1>1, <1>2, <1>3, SizeAssumption DEF Inv, TypeOK
        <3>3. stale' \in BOOLEAN
            BY <1>6
        <3> QED BY <1>1, <1>2, <1>3, <1>4, <3>1, <3>2, <3>3 DEF Inv, TypeOK, Cells
    <2>2. GetInv'
        BY <1>2, <1>6 DEF GetInv, Filled
    <2>3. ASSUME ~offTrack' PROVE PutInv' /\ File!Seek(dir, d)
        <3>1. f.left = 0 /\ object' = SeenObject /\ Prepared' = 0
            BY <1>1, <1>2, <1>3, <1>4, <1>6, <2>3 DEF Prepared
        <3>2. PutInv'
            <4>1. fd # {} /\ area = "put" => fd \cap {"out", "app"} # {} /\ next' = 0
                BY <1>1, <3>1 DEF Inv, PutInv
            <4>2. offset' + 0 <= MaxLen /\ Len(object') + 0 <= MaxLen
                BY <2>1, SizeAssumption, LenProperties DEF TypeOK
            <4> QED BY <1>2, <4>1, <4>2 DEF PutInv
        <3>3. ~Skips'
            <4>1. Unread' => Filled
                BY <1>2, <2>1, SizeAssumption DEF TypeOK, Unread, Filled
            <4> QED BY <1>6, <4>1 DEF Skips
        <3>4. Content' = object' /\ Content = object' /\ Pos' = offset'
            BY <1>2, <3>1, <3>3, View, ViewNext
        <3>5. Base(dir, f) = File!Base(dir)
            BY <1>5, <1>6, <2>3
        <3>6. Base(dir, f) + d >= 0
            BY <1>3, <1>6
        <3> QED BY <1>2, <1>6, <3>2, <3>4, <3>5, <3>6 DEF File!Seek, File!Lag
    <2> QED BY <2>1, <2>2, <2>3 DEF Inv
<1>7. CASE /\ ~f.ok \/ faulty \/ Base(dir, f) + d < 0
           /\ offset' = f.offset
           /\ call' = <<dir, d, -1>>
           /\ UNCHANGED stale
    <2>1. /\ Inv'
          /\ ~offTrack' => Content' = Content /\ Pos' = Pos /\ object' \in {object, Content}
        BY <1>1, <1>2, <1>4, <1>7, SyncStep
    <2>2. ~offTrack' => faulty \/ File!Base(dir) + d < 0
        BY <1>3, <1>5, <1>7
    <2> QED BY <1>2, <1>7, <2>1, <2>2 DEF File!Seek, File!Kept, File!Lag
<1> QED BY <1>1, <1>6, <1>7

\* close flushes, and closes the descriptor whether or not that worked; the
\* pointers keep what they had.
LEMMA CloseKeeps ==
    ASSUME Inv, ~offTrack, Close
    PROVE  Inv' /\ (offTrack' \/ File!Close)
<1>1. CASE fd = {}
    <2>1. UNCHANGED <<object, fd, offset, area, next, limit, buf, stray, stale, offTrack, faulty>>
          /\ call' = <<"close", FALSE>>
        BY <1>1 DEF Close
    <2>2. Inv'
        BY <2>1 DEF Inv, TypeOK, GetInv, PutInv, Filled
    <2>3. Content' = Content /\ Pos' = Pos
        BY <1>1, <2>1, View, ViewNext
    <2> QED BY <1>1, <2>1, <2>2, <2>3 DEF File!Close, File!Kept, File!Lag
<1>2. CASE fd # {}
    <2>1. PICK f \in Sync, closed \in IF faulty THEN BOOLEAN ELSE {TRUE} :
              /\ object' = f.object
              /\ offset' = f.offset
              /\ next' = IF area = "put" THEN f.left ELSE next
              /\ fd' = IF closed THEN {} ELSE fd
              /\ call' = <<"close", f.ok /\ closed>>
              /\ OffTrack(f.ok /\ f.left > 0)
        BY <1>2 DEF Close
    <2>2. UNCHANGED <<area, limit, buf, stray, stale, faulty>>
        BY DEF Close
    <2>3. /\ f.ok \in BOOLEAN
          /\ f.left \in Nat /\ f.left <= Prepared /\ f.left <= BufferSize
          /\ f.object \in Seq(Symbols) /\ Len(f.object) <= MaxLen
          /\ f.offset \in Nat /\ f.offset + f.left + 0 <= MaxLen
          /\ f.ok /\ f.left = 0 => f.object = SeenObject /\ f.offset = SeenOffset
          /\ ~f.ok => faulty /\ f.object = object
        BY <1>2, RoomForArea, SyncFacts
    <2>4. offTrack' \in BOOLEAN /\ (f.ok /\ f.left > 0 => offTrack')
        BY <2>1, OnTrack DEF OffTrack
    <2>5. closed \in BOOLEAN /\ (~closed => faulty)
        OBVIOUS
    <2>6. CASE ~closed
        <3>1. fd' = fd /\ call' = <<"close", FALSE>> /\ faulty
            BY <2>1, <2>5, <2>6
        <3>2. /\ Inv'
              /\ ~offTrack' => Content' = Content /\ Pos' = Pos /\ object' \in {object, Content}
            BY <1>2, <2>1, <2>2, <2>4, <3>1, SyncStep
        <3> QED BY <2>2, <3>1, <3>2 DEF File!Close, File!Kept, File!Lag
    <2>7. CASE closed
        <3>1. fd' = {} /\ call' = <<"close", f.ok>>
            BY <2>1, <2>3, <2>7
        <3>2. TypeOK'
            <4>1. offset' \in 0 .. MaxLen
                BY <2>1, <2>3, SizeAssumption
            <4>2. next' \in 0 .. IF area' = "put" THEN BufferSize ELSE limit'
                BY <2>1, <2>2, <2>3, SizeAssumption DEF Inv, TypeOK
            <4> QED BY <2>1, <2>2, <2>3, <2>4, <3>1, <4>1, <4>2 DEF Inv, TypeOK, Cells
        <3>3. Inv'
            BY <3>1, <3>2 DEF Inv, GetInv, PutInv
        <3>4. Content' = object' /\ Pos' = 0
            BY <3>1, ViewNext
        <3>5. CASE f.ok /\ ~offTrack'
            <4>1. object' = Content
                BY <1>2, <2>1, <2>3, <2>4, <3>5, View
            <4> QED BY <1>2, <2>2, <3>1, <3>3, <3>4, <3>5, <4>1 DEF File!Close
        <3>6. CASE ~f.ok
            <4>1. object' = object /\ faulty
                BY <2>1, <2>3, <3>6
            <4>2. call' = <<"close", FALSE>>
                <5>1. f.ok = FALSE
                    BY <2>3, <3>6
                <5> QED BY <3>1, <5>1
            <4> QED BY <2>2, <4>2, <3>1, <3>3, <3>4, <3>6, <4>1 DEF File!Close
        <3> QED BY <2>3, <3>3, <3>5, <3>6
    <2> QED BY <2>5, <2>6, <2>7
<1> QED BY <1>1, <1>2

----------------------------------------------------------------------------
(* Calls that leave the descriptor alone *)

\* A move takes the pointers along but not the array, which the program can
\* only notice when it uses the buffer again.
LEMMA MoveKeeps ==
    ASSUME Inv, ~offTrack, Move
    PROVE  Inv' /\ File!Move
<1>1. /\ UNCHANGED <<object, fd, offset, area, next, limit, buf, stale, offTrack, faulty>>
      /\ stray' \in BOOLEAN /\ call' = <<"move">>
    BY DEF Move
<1>2. Inv'
    BY <1>1 DEF Inv, TypeOK, GetInv, PutInv, Filled
<1>3. Content' = Content /\ Pos' = Pos
    BY <1>1 DEF Content, Pos, Seen, Pending, Prepared, Skips, Unread
<1> QED BY <1>1, <1>2, <1>3 DEF File!Move

\* In an input area that is not stale the position is at the next pointer.
LEMMA ReadPosition ==
    ASSUME TypeOK, GetInv, fd # {}, Filled, ~stale
    PROVE  /\ Content = object
           /\ Pos = offset - limit + next /\ offset \in Nat /\ limit \in Nat /\ next \in 0 .. limit
           /\ limit <= offset /\ offset <= Len(object) /\ Len(object) \in Nat
           /\ \A i \in 0 .. limit - 1 : buf[i] = object[offset - limit + i + 1]
<1>1. /\ area = "get" /\ offset \in Nat /\ limit \in Nat /\ next \in 0 .. limit
      /\ Len(object) \in Nat
    BY SizeAssumption, LenProperties DEF TypeOK, Filled
<1>2. Prepared = 0
    BY <1>1 DEF Prepared
<1>3. Content = object /\ (Skips => Pos = offset - (limit - next)) /\ (~Skips => Pos = offset)
    BY <1>2, View
<1>4. ~Skips => next = limit
    BY <1>1 DEF Skips, Unread
<1> QED BY <1>1, <1>3, <1>4 DEF GetInv

\* pbackfail steps back in the get area and asks the server nothing.
LEMMA UngetKeeps ==
    ASSUME Inv, ~offTrack, NEW c \in Chars \cup {"eof"}, Unget(c)
    PROVE  Inv' /\ (offTrack' \/ File!Unget(c))
<1>1. fd # {} /\ UNCHANGED <<object, fd, offset, area, limit, stray, stale, faulty>>
    BY DEF Unget
<1>2. CASE area = "get" /\ next > 0
    <2>1. /\ next' = next - 1
          /\ call' = <<"unget", c, TRUE>>
          /\ IF c = "eof" THEN UNCHANGED buf ELSE Store(next', c)
          /\ OffTrack(stray \/ stale \/ buf' # buf)
        BY <1>2 DEF Unget
    <2>2. offTrack' \in BOOLEAN /\ (~offTrack' => ~stray /\ ~stale /\ buf' = buf)
        <3>1. offTrack' <=> stray \/ stale \/ buf' # buf
            BY <2>1, OnTrack
        <3>2. offTrack' \in BOOLEAN
            BY <2>1 DEF OffTrack
        <3> QED BY <3>1, <3>2
    <2>3. limit \in Nat /\ limit <= BufferSize /\ next \in 1 .. limit /\ BufferSize \in Nat
        BY <1>2, SizeAssumption DEF Inv, TypeOK
    <2>4. TypeOK'
        <3>1. buf' \in [Cells -> Symbols]
            <4>1. c # "eof" => c \in Symbols
                BY DEF Symbols
            <4> QED BY <2>1, <4>1 DEF Inv, TypeOK, Store
        <3>2. next' \in 0 .. IF area' = "put" THEN BufferSize ELSE limit'
            BY <1>1, <1>2, <2>1, <2>3
        <3> QED BY <1>1, <2>2, <3>1, <3>2 DEF Inv, TypeOK, Cells
    <2>5. ASSUME ~offTrack' PROVE GetInv' /\ PutInv' /\ File!Unget(c)
        <3>1. GetInv' /\ PutInv'
            BY <1>1, <1>2, <2>2, <2>5 DEF Inv, GetInv, PutInv, Filled
        <3>2. Filled
            BY <1>2, <2>3 DEF Filled
        <3>3. /\ Content = object
              /\ Pos = offset - limit + next /\ offset \in Nat
              /\ limit <= offset /\ offset <= Len(object) /\ Len(object) \in Nat
              /\ \A i \in 0 .. limit - 1 : buf[i] = object[offset - limit + i + 1]
            BY <1>1, <2>2, <2>5, <3>2, ReadPosition DEF Inv
        <3>4. Pos \in 1 .. Len(object)
            BY <2>3, <3>3
        <3>5. c # "eof" => c = object[Pos]
            <4>1. SUFFICES ASSUME c # "eof" PROVE c = object[Pos]
                OBVIOUS
            <4>2. buf = [buf EXCEPT ![next - 1] = c]
                BY <1>1, <2>1, <2>2, <2>5, <4>1 DEF Store
            <4>3. next - 1 \in Cells /\ next - 1 \in 0 .. limit - 1
                BY <2>3 DEF Cells
            <4>4. buf[next - 1] = c
                BY <4>2, <4>3 DEF Inv, TypeOK
            <4>5. buf[next - 1] = object[offset - limit + (next - 1) + 1]
                BY <3>3, <4>3
            <4>6. offset - limit + (next - 1) + 1 = Pos
                BY <2>3, <3>3
            <4> QED BY <4>4, <4>5, <4>6
        <3>6. Content' = object /\ Pos' = Pos - 1
            <4>1. Prepared' = 0
                BY <1>1, <1>2 DEF Prepared
            <4>2. Skips'
                BY <1>1, <1>2, <2>1, <2>2, <2>3, <2>5 DEF Skips, Unread
            <4>3. Content' = object /\ Pos' = offset - (limit - (next - 1))
                BY <1>1, <2>1, <4>1, <4>2, ViewNext
            <4> QED BY <2>3, <3>3, <4>3
        <3>7. DOMAIN Content = 1 .. Len(object)
            BY <3>3, LenProperties DEF Inv, TypeOK
        <3> QED BY <1>1, <2>1, <3>1, <3>3, <3>4, <3>5, <3>6, <3>7 DEF File!Unget, File!Lag
    <2> QED BY <2>4, <2>5 DEF Inv
<1>3. CASE ~(area = "get" /\ next > 0)
    <2>1. call' = <<"unget", c, FALSE>> /\ UNCHANGED <<next, buf, offTrack>>
        BY <1>3 DEF Unget
    <2>2. Inv'
        BY <1>1, <2>1 DEF Inv, TypeOK, GetInv, PutInv, Filled
    <2>3. Content' = Content /\ Pos' = Pos
        BY <1>1, <2>1 DEF Content, Pos, Seen, Pending, Prepared, Skips, Unread
    <2> QED BY <1>1, <2>1, <2>2, <2>3 DEF File!Unget, File!Kept, File!Lag
<1> QED BY <1>2, <1>3

----------------------------------------------------------------------------
(* Calls that write *)

\* The file and the stream write alike.
LEMMA FileOverwrite ==
    ASSUME NEW s, NEW p, NEW w
    PROVE  File!Overwrite(s, p, w) = Overwrite(s, p, w)
BY DEF File!Overwrite, Overwrite

\* To write characters to the file is to send them from where it is.
LEMMA FileWritten ==
    ASSUME NEW w, UNCHANGED fd, Content' = SentObject(fd, Content, Pos, w),
           Pos' = SentOffset(fd, Content, Pos, w), object' \in {object, Content, Content'}
    PROVE  File!Written(w)
BY FileOverwrite DEF File!Written, File!WriteAt, File!Lag, SentObject, SentOffset, Where

\* What is in the put area after one character more.
LEMMA PendingGrows ==
    ASSUME TypeOK, NEW n \in Nat, n < BufferSize, NEW c \in Chars, buf' = [buf EXCEPT ![n] = c]
    PROVE  [i \in 1 .. n + 1 |-> buf'[i - 1]] = Pending(n) \o <<c>>
<1>1. /\ buf \in [Cells -> Symbols] /\ c \in Symbols /\ n \in Cells /\ n \in 0 .. BufferSize
      /\ n + 1 \in Nat
    BY SizeAssumption DEF TypeOK, Symbols, Cells
<1>2. /\ Pending(n) \in Seq(Symbols) /\ Len(Pending(n)) = n
      /\ <<c>> \in Seq(Symbols) /\ Len(<<c>>) = 1 /\ <<c>>[1] = c
    BY <1>1, PendingFacts
<1>3. /\ Pending(n) \o <<c>> \in Seq(Symbols) /\ Len(Pending(n) \o <<c>>) = n + 1
      /\ \A i \in 1 .. n + 1 :
            (Pending(n) \o <<c>>)[i] = IF i <= n THEN Pending(n)[i] ELSE <<c>>[i - n]
    BY <1>2, ConcatProperties
<1>4. ASSUME NEW i \in 1 .. n + 1
      PROVE  buf'[i - 1] = (Pending(n) \o <<c>>)[i] /\ buf'[i - 1] \in Symbols
    <2>1. i - 1 \in Cells
        BY SizeAssumption DEF Cells
    <2>2. CASE i <= n
        <3>1. i - 1 # n /\ i \in 1 .. n
            BY <2>2
        <3>2. buf'[i - 1] = buf[i - 1] /\ buf[i - 1] \in Symbols
            BY <1>1, <2>1, <3>1
        <3>3. Pending(n)[i] = buf[i - 1]
            BY <3>1 DEF Pending
        <3> QED BY <1>3, <2>2, <3>2, <3>3
    <2>3. CASE i = n + 1
        <3>1. buf'[i - 1] = c
            BY <1>1, <2>3
        <3>2. (Pending(n) \o <<c>>)[i] = <<c>>[1]
            BY <1>3, <2>3
        <3> QED BY <1>1, <1>2, <3>1, <3>2
    <2>4. i <= n \/ i = n + 1
        OBVIOUS
    <2> QED BY <2>2, <2>3, <2>4
<1> DEFINE grown == [i \in 1 .. n + 1 |-> buf'[i - 1]]
<1>5. grown \in [1 .. n + 1 -> Symbols] /\ \A i \in 1 .. n + 1 : grown[i] = buf'[i - 1]
    BY <1>4
<1> HIDE DEF grown
<1>6. grown \in Seq(Symbols) /\ Len(grown) = n + 1
    BY <1>1, <1>5, FunctionIsSeq
<1>7. grown = Pending(n) \o <<c>>
    BY <1>3, <1>4, <1>5, <1>6, SeqEqual
<1> QED BY <1>7 DEF grown

\* overflow stores a character in the put area, and flushes a full one first
\* if it can.
LEMMA PutKeeps ==
    ASSUME Inv, ~offTrack, NEW c \in Chars, Put(c)
    PROVE  Inv' /\ (offTrack' \/ File!Put(c))
<1>1. /\ fd # {} /\ fd \cap {"out", "app"} # {}
      /\ area' = "put" /\ limit' = 0 /\ stray' = (stray /\ area = "put") /\ stale' = FALSE
      /\ UNCHANGED <<fd, faulty>>
    BY DEF Put, PrepareForOutput
<1>2. Room(1)
    BY DEF Put
<1>3. /\ Prepared \in Nat /\ Prepared <= BufferSize /\ BufferSize \in Nat \ {0}
      /\ Prepared > 0 => area = "put"
      /\ area = "put" => Prepared = next
    BY PreparedFacts, SizeAssumption DEF Inv
<1>4. /\ object \in Seq(Symbols) /\ Len(object) <= MaxLen /\ offset \in Nat /\ MaxLen \in Nat
      /\ Len(object) \in Nat
    BY LenProperties, SizeAssumption DEF Inv, TypeOK
<1>5. c \in Symbols /\ <<c>> \in Seq(Symbols) /\ Len(<<c>>) = 1
    BY DEF Symbols
<1>6. ASSUME NEW n \in Cells, Store(n, c) PROVE buf' \in [Cells -> Symbols]
    BY <1>5, <1>6 DEF Inv, TypeOK, Store
<1>7. stray' \in BOOLEAN /\ faulty' \in BOOLEAN /\ fd' \in Modes \cup {{}}
    BY <1>1 DEF Inv, TypeOK
<1>8. GetInv'
    BY <1>1 DEF GetInv, Filled
<1>9. ~Skips'
    BY <1>1 DEF Skips, Unread
<1>10. Prepared' = next'
    BY <1>1 DEF Prepared
<1>11. CASE Prepared < BufferSize
    <2>1. /\ Store(Prepared, c) /\ next' = Prepared + 1 /\ call' = <<"put", c, TRUE>>
          /\ OffTrack(Skips \/ stray') /\ UNCHANGED <<object, offset>>
        BY <1>11 DEF Put
    <2>2. offTrack' \in BOOLEAN /\ (~offTrack' => ~Skips /\ ~stray')
        <3>1. offTrack' <=> Skips \/ stray'
            BY <2>1, OnTrack
        <3>2. offTrack' \in BOOLEAN
            BY <2>1 DEF OffTrack
        <3> QED BY <3>1, <3>2
    <2>3. TypeOK'
        <3>1. buf' \in [Cells -> Symbols]
            <4>1. Prepared \in Cells
                BY <1>3, <1>11 DEF Cells
            <4> QED BY <1>6, <2>1, <4>1
        <3>2. next' \in 0 .. BufferSize /\ limit' \in 0 .. BufferSize
            BY <1>1, <1>3, <1>11, <2>1
        <3> QED BY <1>1, <1>4, <1>7, <2>1, <2>2, <3>1, <3>2 DEF Inv, TypeOK, Cells
    <2>4. PutInv'
        <3>1. offset + (Prepared + 1) <= MaxLen
            BY <1>2, <1>3, <1>4 DEF Room
        <3>2. "app" \in fd => Len(object) + (Prepared + 1) <= MaxLen
            BY <1>2, <1>3, <1>4 DEF Room
        <3> QED BY <1>1, <2>1, <3>1, <3>2 DEF PutInv
    <2>5. ASSUME ~offTrack' PROVE File!Put(c)
        <3>1. Pending(Prepared)' = Pending(Prepared) \o <<c>>
            <4>1. buf' = [buf EXCEPT ![Prepared] = c]
                BY <2>1, <2>2, <2>5 DEF Store
            <4>2. [i \in 1 .. Prepared + 1 |-> buf'[i - 1]] = Pending(Prepared) \o <<c>>
                BY <1>3, <1>11, <4>1, PendingGrows DEF Inv
            <4> QED BY <1>10, <2>1, <4>2 DEF Pending
        <3>2. Pending(Prepared) \in Seq(Symbols)
            BY <1>3, PendingFacts DEF Inv
        <3>3. Content = SeenObject /\ Pos = SeenOffset
            BY <1>1, <2>2, <2>5, View
        <3>4. Content' = SeenObject' /\ Pos' = SeenOffset'
            BY <1>1, <1>9, ViewNext
        <3>5. /\ SeenObject' = SentObject(fd, SeenObject, SeenOffset, <<c>>)
              /\ SeenOffset' = SentOffset(fd, SeenObject, SeenOffset, <<c>>)
            <4>1. /\ SentObject(fd, SeenObject, SeenOffset, <<c>>)
                       = SentObject(fd, object, offset, Pending(Prepared) \o <<c>>)
                  /\ SentOffset(fd, SeenObject, SeenOffset, <<c>>)
                       = SentOffset(fd, object, offset, Pending(Prepared) \o <<c>>)
                <5> DEFINE w == Pending(Prepared)
                           v == <<c>>
                <5>1. w \in Seq(Symbols) /\ v \in Seq(Symbols)
                    BY <1>5, <3>2
                <5> HIDE DEF w, v
                <5>2. /\ SentObject(fd, SentObject(fd, object, offset, w),
                                    SentOffset(fd, object, offset, w), v)
                           = SentObject(fd, object, offset, w \o v)
                      /\ SentOffset(fd, SentObject(fd, object, offset, w),
                                    SentOffset(fd, object, offset, w), v)
                           = SentOffset(fd, object, offset, w \o v)
                    BY <1>4, <5>1, SentOn
                <5> QED BY <5>2 DEF w, v, SeenObject, SeenOffset
            <4> QED BY <1>1, <2>1, <3>1, <4>1 DEF SeenObject, SeenOffset
        <3>6. File!Written(<<c>>)
            BY <1>1, <2>1, <3>3, <3>4, <3>5, FileWritten
        <3> QED BY <2>1, <3>6 DEF File!Put
    <2> QED BY <1>8, <2>3, <2>4, <2>5 DEF Inv
<1>12. CASE ~(Prepared < BufferSize)
    <2>1. PICK f \in Sync :
              /\ object' = f.object
              /\ offset' = f.offset
              /\ call' = <<"put", c, f.ok>>
              /\ IF f.ok
                 THEN /\ f.left < BufferSize
                      /\ Store(f.left, c)
                      /\ next' = f.left + 1
                      /\ OffTrack(f.left > 0 \/ stray')
                 ELSE UNCHANGED <<next, buf, offTrack>>
        BY <1>12 DEF Put
    <2>2. /\ f.ok \in BOOLEAN
          /\ f.left \in Nat
          /\ f.object \in Seq(Symbols) /\ Len(f.object) \in Nat /\ Len(f.object) <= MaxLen
          /\ f.offset \in Nat /\ f.offset + f.left + 1 <= MaxLen
          /\ "app" \in fd => Len(f.object) + f.left + 1 <= MaxLen
          /\ f.ok /\ f.left = 0 => f.object = SeenObject /\ f.offset = SeenOffset
          /\ ~f.ok => f.object = object /\ f.offset = offset /\ faulty
        BY <1>1, <1>2, SyncFacts
    <2>3. area = "put" /\ ~Skips
        BY <1>3, <1>12 DEF Skips, Unread
    <2>4. Content = SeenObject /\ Pos = SeenOffset
        BY <1>1, <2>3, View
    <2>5. Content' = SeenObject' /\ Pos' = SeenOffset'
        BY <1>1, <1>9, ViewNext
    <2>6. CASE f.ok
        <3>1. /\ f.left < BufferSize /\ Store(f.left, c) /\ next' = f.left + 1
              /\ OffTrack(f.left > 0 \/ stray')
            BY <2>1, <2>6
        <3>2. offTrack' \in BOOLEAN /\ (~offTrack' => ~(f.left > 0) /\ ~stray')
            <4>1. offTrack' <=> f.left > 0 \/ stray'
                BY <3>1, OnTrack
            <4>2. offTrack' \in BOOLEAN
                BY <3>1 DEF OffTrack
            <4> QED BY <4>1, <4>2
        <3>3. TypeOK'
            <4>1. buf' \in [Cells -> Symbols]
                <5>1. f.left \in Cells
                    BY <1>3, <2>2, <3>1 DEF Cells
                <5> QED BY <1>6, <3>1, <5>1
            <4>2. next' \in 0 .. BufferSize /\ limit' \in 0 .. BufferSize
                BY <1>1, <1>3, <2>2, <3>1
            <4>3. offset' \in 0 .. MaxLen
                BY <1>4, <2>1, <2>2
            <4> QED BY <1>1, <1>7, <2>1, <2>2, <3>2, <4>1, <4>2, <4>3 DEF TypeOK, Cells
        <3>4. PutInv'
            <4>1. f.offset + (f.left + 1) <= MaxLen
                BY <1>4, <2>2
            <4>2. "app" \in fd => Len(f.object) + (f.left + 1) <= MaxLen
                BY <1>4, <2>2
            <4> QED BY <1>1, <2>1, <3>1, <4>1, <4>2 DEF PutInv
        <3>5. ASSUME ~offTrack' PROVE File!Put(c)
            <4>1. f.left = 0 /\ f.left < BufferSize /\ Prepared' = f.left + 1
                BY <1>10, <2>2, <3>1, <3>2, <3>5
            <4>2. buf' = [buf EXCEPT ![f.left] = c]
                BY <3>1, <3>2, <3>5 DEF Store
            <4>3. [i \in 1 .. f.left + 1 |-> buf'[i - 1]] = Pending(f.left) \o <<c>>
                BY <2>2, <4>1, <4>2, PendingGrows DEF Inv
            <4>4. Pending(f.left) = <<>>
                BY <4>1, EmptyFunction DEF Pending
            <4>5. Pending(Prepared)' = <<c>>
                <5>1. Pending(Prepared)' = Pending(f.left) \o <<c>>
                    BY <4>1, <4>3 DEF Pending
                <5> QED BY <1>5, <4>4, <5>1, ConcatEmptySeq
            <4>6. object' = Content /\ offset' = Pos
                BY <2>1, <2>2, <2>4, <2>6, <4>1
            <4>7. /\ SeenObject' = SentObject(fd, Content, Pos, <<c>>)
                  /\ SeenOffset' = SentOffset(fd, Content, Pos, <<c>>)
                BY <1>1, <4>5, <4>6 DEF SeenObject, SeenOffset
            <4>8. File!Written(<<c>>)
                BY <1>1, <2>5, <4>6, <4>7, FileWritten
            <4>9. f.ok = TRUE
                BY <2>2, <2>6
            <4> QED BY <2>1, <4>8, <4>9 DEF File!Put
        <3> QED BY <1>8, <3>3, <3>4, <3>5 DEF Inv
    <2>7. CASE ~f.ok
        <3>1. UNCHANGED <<object, offset, next, buf, offTrack, area>> /\ faulty
            BY <1>1, <2>1, <2>2, <2>3, <2>7
        <3>2. TypeOK'
            <4>1. next' \in 0 .. BufferSize /\ limit' \in 0 .. BufferSize
                BY <1>1, <1>3, <2>3, <3>1
            <4> QED BY <1>1, <1>7, <3>1, <4>1 DEF Inv, TypeOK, Cells
        <3>3. PutInv'
            BY <1>1, <3>1 DEF Inv, PutInv
        <3>4. SeenObject' = SeenObject /\ SeenOffset' = SeenOffset
            BY <1>1, <3>1 DEF SeenObject, SeenOffset, Pending, Prepared
        <3>5. f.ok = FALSE
            BY <2>2, <2>7
        <3>6. File!Put(c)
            BY <1>1, <2>1, <2>4, <2>5, <3>1, <3>4, <3>5 DEF File!Put, File!Kept, File!Lag
        <3> QED BY <1>8, <3>2, <3>3, <3>6 DEF Inv
    <2> QED BY <2>2, <2>6, <2>7
<1> QED BY <1>11, <1>12

\* What xsputn is given, and the beginning of it that is sent.
LEMMA GivenFacts ==
    ASSUME NEW n \in 1 .. MaxCount, NEW w \in [1 .. n -> Chars]
    PROVE  /\ w \in Seq(Symbols) /\ Len(w) = n /\ n \in Nat
           /\ \A k \in 0 .. n : SubSeq(w, 1, k) \in Seq(Symbols) /\ Len(SubSeq(w, 1, k)) = k
<1>1. n \in Nat
    BY SizeAssumption
<1>2. w \in [1 .. n -> Symbols]
    BY DEF Symbols
<1>3. w \in Seq(Symbols) /\ Len(w) = n
    BY <1>1, <1>2, FunctionIsSeq
<1>4. ASSUME NEW k \in 0 .. n
      PROVE  SubSeq(w, 1, k) \in Seq(Symbols) /\ Len(SubSeq(w, 1, k)) = k
    <2>1. \A i \in 1 .. k : w[i] \in Symbols
        BY <1>1, <1>2
    <2>2. k \in Int /\ (1 <= k => k - 1 + 1 = k) /\ (~(1 <= k) => k = 0)
        BY <1>1
    <2>3. /\ SubSeq(w, 1, k) \in Seq(Symbols)
          /\ Len(SubSeq(w, 1, k)) = IF 1 <= k THEN k - 1 + 1 ELSE 0
        BY <2>1, <2>2, SubSeqProperties
    <2> QED BY <2>2, <2>3
<1> QED BY <1>1, <1>3, <1>4

\* xsputn flushes the put area and sends what it is given past it.
LEMMA PutNKeeps ==
    ASSUME Inv, ~offTrack, NEW n \in 1 .. MaxCount, NEW w \in [1 .. n -> Chars], PutN(w)
    PROVE  Inv' /\ (offTrack' \/ File!PutN(w))
<1>1. /\ fd # {} /\ fd \cap {"out", "app"} # {}
      /\ area' = "put" /\ limit' = 0 /\ stray' = (stray /\ area = "put") /\ stale' = FALSE
      /\ UNCHANGED <<fd, buf, faulty>>
    BY DEF PutN, PrepareForOutput
<1>2. Room(n) /\ n \in Nat /\ Len(w) = n
    BY GivenFacts DEF PutN
<1>3. PICK f \in Sync :
         /\ next' = f.left
         /\ OffTrack(Skips \/ (f.ok /\ f.left > 0))
         /\ \/ /\ f.ok
               /\ \E k \in Takes(Len(w)) :
                    LET s == Sent(fd, f.object, f.offset, SubSeq(w, 1, k))
                    IN /\ object' = s.object
                       /\ offset' = s.offset
                       /\ call' = <<"putn", w, k>>
            \/ /\ ~f.ok \/ faulty
               /\ object' = f.object
               /\ offset' = f.offset
               /\ call' = <<"putn", w, -1>>
    BY DEF PutN
<1>4. /\ f.ok \in BOOLEAN
      /\ f.left \in Nat /\ f.left <= BufferSize
      /\ f.object \in Seq(Symbols) /\ Len(f.object) \in Nat /\ Len(f.object) <= MaxLen
      /\ f.offset \in Nat /\ f.offset + f.left + n <= MaxLen
      /\ "app" \in fd => Len(f.object) + f.left + n <= MaxLen
      /\ f.ok /\ f.left = 0 => f.object = SeenObject /\ f.offset = SeenOffset
      /\ ~f.ok => /\ f.object = object /\ f.offset = offset /\ f.left = Prepared
                  /\ faulty /\ area = "put"
    BY <1>1, <1>2, SyncFacts
<1>5. offTrack' \in BOOLEAN /\ (~offTrack' => ~Skips /\ (f.ok => f.left = 0))
    <2>1. offTrack' <=> Skips \/ (f.ok /\ f.left > 0)
        BY <1>3, OnTrack
    <2>2. offTrack' \in BOOLEAN
        BY <1>3 DEF OffTrack
    <2>3. ~(f.left > 0) => f.left = 0
        BY <1>4
    <2> QED BY <2>1, <2>2, <2>3
<1>6. GetInv'
    BY <1>1 DEF GetInv, Filled
<1>7. ~Skips' /\ Prepared' = f.left
    BY <1>1, <1>3 DEF Skips, Unread, Prepared
<1>8. Content' = SeenObject' /\ Pos' = SeenOffset'
    BY <1>1, <1>7, ViewNext
<1>9. ~offTrack' => Content = SeenObject /\ Pos = SeenOffset
    BY <1>1, <1>5, View
<1>10. ASSUME object' \in Seq(Symbols), Len(object') <= MaxLen, offset' \in Nat, offset' <= MaxLen
       PROVE  TypeOK'
    <2>1. stray' \in BOOLEAN /\ faulty' \in BOOLEAN /\ fd' \in Modes \cup {{}}
        BY <1>1 DEF Inv, TypeOK
    <2>2. next' \in 0 .. BufferSize /\ limit' \in 0 .. BufferSize /\ offset' \in 0 .. MaxLen
        BY <1>1, <1>3, <1>4, <1>10, SizeAssumption
    <2> QED BY <1>1, <1>5, <1>10, <2>1, <2>2 DEF Inv, TypeOK, Cells
<1>11. ASSUME f.ok, NEW k \in Takes(n),
              object' = SentObject(fd, f.object, f.offset, SubSeq(w, 1, k)),
              offset' = SentOffset(fd, f.object, f.offset, SubSeq(w, 1, k)),
              call' = <<"putn", w, k>>
       PROVE  Inv' /\ (offTrack' \/ File!PutN(w))
    <2>1. k \in 0 .. n /\ (faulty \/ k = n)
        BY <1>2 DEF Takes
    <2> DEFINE v == SubSeq(w, 1, k)
    <2>2. v \in Seq(Symbols) /\ Len(v) = k
        BY <2>1, GivenFacts
    <2>3. /\ object' = SentObject(fd, f.object, f.offset, v)
           /\ offset' = SentOffset(fd, f.object, f.offset, v)
        BY <1>11
    <2> HIDE DEF v
    <2>4. /\ f.offset + Len(v) <= MaxLen /\ ("app" \in fd => Len(f.object) + Len(v) <= MaxLen)
          /\ MaxLen \in Nat
        BY <1>2, <1>4, <2>1, <2>2, SizeAssumption
    <2>5. /\ object' \in Seq(Symbols) /\ offset' \in 0 .. MaxLen
          /\ Len(object') <= MaxLen \/ Len(object') = Len(f.object)
        <3> DEFINE s == f.object
                   p == f.offset
        <3>1. /\ s \in Seq(Symbols) /\ p \in Nat /\ p + Len(v) <= MaxLen
              /\ "app" \in fd => Len(s) + Len(v) <= MaxLen
            BY <1>4, <2>4
        <3> HIDE DEF s, p
        <3>2. /\ SentObject(fd, s, p, v) \in Seq(Symbols)
              /\ SentOffset(fd, s, p, v) \in 0 .. MaxLen
              /\ Len(SentObject(fd, s, p, v)) <= MaxLen \/ Len(SentObject(fd, s, p, v)) = Len(s)
            BY <2>2, <2>4, <3>1, SentFits
        <3> QED BY <2>3, <3>2 DEF s, p
    <2>6. Len(object') \in Nat /\ Len(object') <= MaxLen /\ offset' \in Nat /\ offset' <= MaxLen
        BY <1>4, <2>4, <2>5, LenProperties
    <2>7. TypeOK'
        BY <1>10, <2>5, <2>6
    <2>8. ASSUME ~offTrack' PROVE PutInv' /\ File!PutN(w)
        <3>1. f.left = 0
            BY <1>5, <1>11, <2>8
        <3>2. PutInv'
            <4>1. offset' + 0 <= MaxLen /\ Len(object') + 0 <= MaxLen
                <5>1. \A x \in Nat : x + 0 = x
                    OBVIOUS
                <5> QED BY <2>6, <5>1
            <4> QED BY <1>1, <1>3, <3>1, <4>1 DEF PutInv
        <3>3. Content' = object' /\ Pos' = offset'
            BY <1>7, <1>8, <3>1, ViewNext
        <3>4. f.object = Content /\ f.offset = Pos
            BY <1>4, <1>9, <1>11, <2>8, <3>1
        <3>5. File!Written(v)
            BY <1>1, <2>3, <3>3, <3>4, FileWritten
        <3> QED BY <1>2, <1>11, <2>1, <3>2, <3>5 DEF File!PutN, v
    <2> QED BY <1>6, <2>7, <2>8 DEF Inv
<1>12. ASSUME ~f.ok \/ faulty, object' = f.object, offset' = f.offset, call' = <<"putn", w, -1>>
       PROVE  Inv' /\ (offTrack' \/ File!PutN(w))
    <2>1. f.offset <= MaxLen /\ faulty
        BY <1>2, <1>4, <1>12, SizeAssumption
    <2>2. TypeOK'
        BY <1>4, <1>10, <1>12, <2>1
    <2>3. PutInv'
        <3>1. f.offset + f.left <= MaxLen /\ ("app" \in fd => Len(f.object) + f.left <= MaxLen)
            BY <1>2, <1>4, SizeAssumption
        <3> QED BY <1>1, <1>3, <1>12, <3>1 DEF PutInv
    <2>4. ASSUME ~offTrack' PROVE File!PutN(w)
        <3>1. CASE f.ok
            <4>1. f.left = 0
                BY <1>5, <2>4, <3>1
            <4>2. Content' = Content /\ Pos' = Pos /\ object' = Content
                BY <1>4, <1>7, <1>8, <1>9, <1>12, <2>4, <3>1, <4>1, ViewNext
            <4> QED BY <1>1, <1>12, <2>1, <4>2 DEF File!PutN, File!Kept, File!Lag
        <3>2. CASE ~f.ok
            <4>1. UNCHANGED <<object, offset, area, buf, fd>> /\ next' = Prepared /\ area = "put"
                BY <1>1, <1>3, <1>4, <1>12, <3>2
            <4>2. next' = next
                BY <4>1 DEF Prepared
            <4>3. SeenObject' = SeenObject /\ SeenOffset' = SeenOffset
                BY <4>1, <4>2 DEF SeenObject, SeenOffset, Pending, Prepared
            <4> QED BY <1>1, <1>8, <1>9, <1>12, <2>1, <2>4, <4>1, <4>3 DEF File!PutN,
                           File!Kept, File!Lag
        <3> QED BY <1>4, <3>1, <3>2
    <2> QED BY <1>6, <2>2, <2>3, <2>4 DEF Inv
<1>13. CASE f.ok /\ \E k \in Takes(Len(w)) :
                    LET s == Sent(fd, f.object, f.offset, SubSeq(w, 1, k))
                    IN /\ object' = s.object
                       /\ offset' = s.offset
                       /\ call' = <<"putn", w, k>>
    <2>1. PICK k \in Takes(n) :
            /\ object' = SentObject(fd, f.object, f.offset, SubSeq(w, 1, k))
            /\ offset' = SentOffset(fd, f.object, f.offset, SubSeq(w, 1, k))
            /\ call' = <<"putn", w, k>>
        BY <1>2, <1>13, SentIs
    <2> QED BY <1>11, <1>13, <2>1
<1> QED BY <1>3, <1>12, <1>13

----------------------------------------------------------------------------
(* Calls that read *)

\* A read returns no more than was asked for or is there, and nothing only
\* at the end; less than both only if requests are served in part.
LEMMA ReceivesFacts ==
    ASSUME NEW s \in Seq(Symbols), NEW p \in Nat, NEW n \in Nat, NEW k \in Receives(s, p, n)
    PROVE  /\ k \in 0 .. n
           /\ k > 0 => p + k <= Len(s)
           /\ faulty \/ k = n \/ p + k >= Len(s)
           /\ k = 0 => n = 0 \/ p >= Len(s)
<1> DEFINE there == IF p >= Len(s) THEN 0 ELSE IF Len(s) - p < n THEN Len(s) - p ELSE n
<1>1. Len(s) \in Nat
    BY LenProperties
<1>2. /\ there \in 0 .. n
      /\ there > 0 => p + there <= Len(s)
      /\ there = n \/ p + there >= Len(s)
      /\ there = 0 => n = 0 \/ p >= Len(s)
    BY <1>1
<1>3. k \in IF faulty /\ there > 0 THEN 1 .. there ELSE {there}
    BY DEF Receives
<1> HIDE DEF there
<1>4. CASE faulty /\ there > 0
    <2>1. k \in 1 .. there
        BY <1>3, <1>4
    <2>2. faulty
        BY <1>4
    <2>3. k \in 0 .. n /\ (k > 0 => p + k <= Len(s)) /\ k # 0
        BY <1>1, <1>2, <1>4, <2>1
    <2> QED BY <2>2, <2>3
<1>5. CASE ~(faulty /\ there > 0)
    <2>1. k = there
        BY <1>3, <1>5
    <2> QED BY <1>2, <2>1
<1> QED BY <1>4, <1>5

\* What prepare_for_input leaves; if the get area is used up and the put
\* area was taken, the descriptor is where the program is.
LEMMA InputFacts ==
    ASSUME Inv, ~offTrack, fd # {}, NEW q \in PrepareForInput(fd, object, offset)
    PROVE  /\ q.object \in Seq(Symbols) /\ Len(q.object) \in Nat /\ Len(q.object) <= MaxLen
           /\ q.offset \in Nat /\ q.offset <= MaxLen
           /\ q.limit \in Nat /\ q.limit <= BufferSize /\ q.next \in Nat /\ q.next <= q.limit
           /\ q.stray \in BOOLEAN /\ q.dropped \in BOOLEAN
           /\ area = "get" => /\ q.object = object /\ q.offset = offset
                              /\ q.next = next /\ q.limit = limit /\ q.stray = stray
           /\ area # "get" => q.limit = 0 /\ q.next = 0
           /\ q.next = q.limit /\ ~q.dropped => q.object = Content /\ q.offset = Pos
<1>1. CASE area = "get"
    <2>1. q = [object |-> object, offset |-> offset, next |-> next, limit |-> limit,
               stray |-> stray, dropped |-> FALSE]
        BY <1>1 DEF PrepareForInput
    <2>2. /\ object \in Seq(Symbols) /\ Len(object) \in Nat /\ Len(object) <= MaxLen
          /\ offset \in Nat /\ offset <= MaxLen
          /\ limit \in Nat /\ limit <= BufferSize /\ next \in Nat /\ next <= limit
        BY <1>1, SizeAssumption, LenProperties DEF Inv, TypeOK
    <2>3. stray \in BOOLEAN
        BY DEF Inv, TypeOK
    <2>4. next = limit => object = Content /\ offset = Pos
        <3>1. Prepared = 0 /\ (next = limit => ~Skips)
            BY <1>1, <2>2 DEF Prepared, Skips, Unread
        <3> QED BY <3>1, View
    <2>5. /\ q.object = object /\ q.offset = offset /\ q.next = next /\ q.limit = limit
          /\ q.stray = stray /\ q.dropped = FALSE
        BY <2>1
    <2> QED BY <1>1, <2>2, <2>3, <2>4, <2>5
<1>2. CASE area # "get"
    <2>1. PICK f \in Sync :
            q = [object |-> f.object, offset |-> f.offset, next |-> 0, limit |-> 0,
                 stray |-> FALSE, dropped |-> f.left > 0]
        BY <1>2 DEF PrepareForInput, Sync
    <2>2. /\ f.ok \in BOOLEAN
          /\ f.left \in Nat
          /\ f.object \in Seq(Symbols) /\ Len(f.object) \in Nat /\ Len(f.object) <= MaxLen
          /\ f.offset \in Nat /\ f.offset + f.left + 0 <= MaxLen
          /\ f.ok /\ f.left = 0 => f.object = SeenObject /\ f.offset = SeenOffset
          /\ ~f.ok => f.left = Prepared
          /\ Prepared = 0 => f.ok
        BY RoomForArea, SyncFacts
    <2>3. /\ q.object = f.object /\ q.offset = f.offset /\ q.next = 0 /\ q.limit = 0
          /\ q.stray = FALSE /\ q.dropped = (f.left > 0)
        BY <2>1
    <2>4. f.left = 0 => f.object = Content /\ f.offset = Pos
        <3>1. ~Skips
            BY <1>2 DEF Skips, Unread
        <3> QED BY <2>2, <3>1, View
    <2>5. q.dropped \in BOOLEAN /\ (~q.dropped => f.left = 0)
        <3>1. f.left = 0 \/ f.left > 0
            BY <2>2
        <3>2. (f.left > 0) \in BOOLEAN
            OBVIOUS
        <3> QED BY <2>3, <3>1, <3>2, Zenon
    <2>6. f.offset <= MaxLen /\ 0 <= BufferSize
        BY <2>2, SizeAssumption
    <2>7. q.stray \in BOOLEAN
        BY <2>3
    <2>8. ~q.dropped => q.object = Content /\ q.offset = Pos
        BY <2>3, <2>4, <2>5
    <2>9. /\ q.object \in Seq(Symbols) /\ Len(q.object) \in Nat /\ Len(q.object) <= MaxLen
          /\ q.offset \in Nat /\ q.offset <= MaxLen
          /\ q.limit \in Nat /\ q.limit <= BufferSize /\ q.next \in Nat /\ q.next <= q.limit
          /\ q.limit = 0 /\ q.next = 0
        BY <2>2, <2>3, <2>6
    <2> QED BY <1>2, <2>5, <2>7, <2>8, <2>9
<1> QED BY <1>1, <1>2

\* underflow returns the next character of the get area, or refills it from
\* where the descriptor is.
LEMMA GetKeeps ==
    ASSUME Inv, ~offTrack, Get
    PROVE  Inv' /\ (offTrack' \/ File!Get)
<1>1. fd # {} /\ area' = "get" /\ UNCHANGED <<fd, faulty>>
    BY DEF Get
<1>2. PICK q \in PrepareForInput(fd, object, offset) :
         /\ object' = q.object
         /\ \/ /\ q.next < q.limit
               /\ call' = <<"get", IF q.stray THEN Nul ELSE buf[q.next]>>
               /\ next' = q.next + 1
               /\ offset' = q.offset
               /\ limit' = q.limit
               /\ stray' = q.stray
               /\ OffTrack(q.stray \/ stale)
               /\ UNCHANGED <<buf, stale>>
            \/ /\ q.next = q.limit
               /\ \E k \in Receives(q.object, q.offset, BufferSize) :
                    /\ k > 0
                    /\ buf' = [i \in Cells |-> IF i < k THEN q.object[q.offset + i + 1]
                                                        ELSE buf[i]]
                    /\ call' = <<"get", buf'[0]>>
                    /\ next' = 1
                    /\ limit' = k
                    /\ offset' = q.offset + k
               /\ stray' = FALSE
               /\ stale' = FALSE
               /\ OffTrack(q.dropped)
            \/ /\ q.next = q.limit
               /\ faulty \/ 0 \in Receives(q.object, q.offset, BufferSize)
               /\ call' = <<"get", "eof">>
               /\ next' = q.next
               /\ limit' = q.limit
               /\ offset' = q.offset
               /\ stray' = q.stray
               /\ OffTrack(q.dropped)
               /\ UNCHANGED <<buf, stale>>
    BY DEF Get
<1>3. /\ q.object \in Seq(Symbols) /\ Len(q.object) \in Nat /\ Len(q.object) <= MaxLen
      /\ q.offset \in Nat /\ q.offset <= MaxLen
      /\ q.limit \in Nat /\ q.limit <= BufferSize /\ q.next \in Nat /\ q.next <= q.limit
      /\ q.stray \in BOOLEAN /\ q.dropped \in BOOLEAN
      /\ area = "get" => /\ q.object = object /\ q.offset = offset
                         /\ q.next = next /\ q.limit = limit /\ q.stray = stray
      /\ area # "get" => q.limit = 0 /\ q.next = 0
      /\ q.next = q.limit /\ ~q.dropped => q.object = Content /\ q.offset = Pos
    BY <1>1, InputFacts
<1>4. PutInv' /\ Prepared' = 0
    BY <1>1 DEF PutInv, Prepared
<1>5. /\ Content' = object'
      /\ Skips' => Pos' = offset' - (limit' - next')
      /\ ~Skips' => Pos' = offset'
    BY <1>1, <1>4, ViewNext
<1>6. ASSUME offset' \in Nat, offset' <= MaxLen, limit' \in Nat, limit' <= BufferSize,
             next' \in Nat, next' <= limit', buf' \in [Cells -> Symbols],
             stray' \in BOOLEAN, stale' \in BOOLEAN, offTrack' \in BOOLEAN
      PROVE  TypeOK'
    <2>1. offset' \in 0 .. MaxLen /\ limit' \in 0 .. BufferSize /\ next' \in 0 .. limit'
        BY <1>6, SizeAssumption
    <2>2. fd' \in Modes \cup {{}} /\ faulty' \in BOOLEAN
        BY <1>1 DEF Inv, TypeOK
    <2> QED BY <1>1, <1>2, <1>3, <1>6, <2>1, <2>2 DEF TypeOK, Cells
<1>7. buf \in [Cells -> Symbols] /\ stale \in BOOLEAN
    BY DEF Inv, TypeOK
<1>8. CASE /\ q.next < q.limit
           /\ call' = <<"get", IF q.stray THEN Nul ELSE buf[q.next]>>
           /\ next' = q.next + 1
           /\ offset' = q.offset
           /\ limit' = q.limit
           /\ stray' = q.stray
           /\ OffTrack(q.stray \/ stale)
           /\ UNCHANGED <<buf, stale>>
    <2>1. /\ area = "get" /\ object' = object /\ offset' = offset /\ limit' = limit
          /\ next' = next + 1 /\ next < limit
          /\ limit \in Nat /\ next \in Nat /\ q.stray = stray /\ q.next = next
        BY <1>2, <1>3, <1>8
    <2>2. offTrack' \in BOOLEAN /\ (~offTrack' => ~stray /\ ~stale)
        <3>1. offTrack' <=> q.stray \/ stale
            BY <1>8, OnTrack
        <3>2. offTrack' \in BOOLEAN
            BY <1>8 DEF OffTrack
        <3> QED BY <2>1, <3>1, <3>2
    <2>3. TypeOK'
        <3>1. next' \in Nat /\ next' <= limit'
            BY <2>1
        <3> QED BY <1>3, <1>6, <1>7, <1>8, <2>2, <3>1
    <2>4. ASSUME ~offTrack' PROVE GetInv' /\ File!Get
        <3>1. Filled
            BY <2>1 DEF Filled
        <3>2. /\ Content = object
              /\ Pos = offset - limit + next /\ offset \in Nat
              /\ limit <= offset /\ offset <= Len(object) /\ Len(object) \in Nat
              /\ \A i \in 0 .. limit - 1 : buf[i] = object[offset - limit + i + 1]
            BY <1>1, <2>2, <2>4, <3>1, ReadPosition DEF Inv
        <3>3. GetInv'
            BY <1>1, <1>8, <2>1, <3>2 DEF GetInv
        <3>4. Pos < Len(Content)
            BY <2>1, <3>2
        <3>5. call' = <<"get", Content[Pos + 1]>>
            <4>1. next \in 0 .. limit - 1 /\ offset - limit + next + 1 = Pos + 1
                BY <2>1, <3>2
            <4>2. buf[next] = Content[Pos + 1]
                BY <3>2, <4>1
            <4>3. call' = <<"get", buf[next]>>
                BY <1>8, <2>1, <2>2, <2>4
            <4> QED BY <4>2, <4>3
        <3>6. Pos' = Pos + 1
            <4>1. Skips' <=> next + 1 < limit
                BY <1>1, <1>8, <2>1, <2>2, <2>4 DEF Skips, Unread
            <4> QED BY <1>5, <2>1, <3>2, <4>1
        <3> QED BY <1>1, <1>5, <2>1, <3>2, <3>3, <3>4, <3>5, <3>6 DEF File!Get, File!Lag
    <2> QED BY <1>4, <2>3, <2>4 DEF Inv
<1>9. ASSUME q.next = q.limit, NEW k \in Receives(q.object, q.offset, BufferSize), k > 0,
             buf' = [i \in Cells |-> IF i < k THEN q.object[q.offset + i + 1] ELSE buf[i]],
             call' = <<"get", buf'[0]>>, next' = 1, limit' = k, offset' = q.offset + k,
             stray' = FALSE, stale' = FALSE, OffTrack(q.dropped)
      PROVE  Inv' /\ (offTrack' \/ File!Get)
    <2>1. /\ k \in Nat /\ k >= 1 /\ k <= BufferSize /\ BufferSize \in Nat
          /\ q.offset + k <= Len(q.object)
        BY <1>3, <1>9, SizeAssumption, ReceivesFacts
    <2>2. offTrack' \in BOOLEAN /\ (~offTrack' => ~q.dropped)
        <3>1. offTrack' <=> q.dropped
            BY <1>9, OnTrack
        <3> QED BY <1>9, <3>1 DEF OffTrack
    <2>3. \A i \in Cells : i < k => q.offset + i + 1 \in 1 .. Len(q.object)
        BY <1>3, <2>1 DEF Cells
    <2>4. buf' \in [Cells -> Symbols]
        BY <1>3, <1>7, <1>9, <2>3, ElementOfSeq
    <2>5. TypeOK'
        <3>1. /\ offset' \in Nat /\ offset' <= MaxLen /\ limit' \in Nat /\ limit' <= BufferSize
              /\ next' \in Nat /\ next' <= limit'
            BY <1>3, <1>9, <2>1, SizeAssumption
        <3> QED BY <1>6, <1>9, <2>2, <2>4, <3>1
    <2>6. GetInv'
        <3>1. limit' <= offset' /\ offset' <= Len(object')
            BY <1>2, <1>3, <1>9, <2>1
        <3>2. ASSUME NEW i \in 0 .. limit' - 1 PROVE buf'[i] = object'[offset' - limit' + i + 1]
            <4>1. i \in Cells /\ i < k /\ offset' - limit' + i + 1 = q.offset + i + 1
                BY <1>3, <1>9, <2>1 DEF Cells
            <4> QED BY <1>2, <1>9, <4>1
        <3> QED BY <3>1, <3>2 DEF GetInv
    <2>7. ASSUME ~offTrack' PROVE File!Get
        <3>1. q.object = Content /\ q.offset = Pos
            BY <1>3, <1>9, <2>2, <2>7
        <3>2. buf'[0] = Content[Pos + 1]
            <4>1. 0 \in Cells /\ 0 < k /\ q.offset + 0 + 1 = q.offset + 1
                BY <1>3, <2>1 DEF Cells
            <4> QED BY <1>9, <3>1, <4>1
        <3>3. Pos' = Pos + 1
            <4>1. Skips' <=> 1 < k
                BY <1>1, <1>9 DEF Skips, Unread
            <4> QED BY <1>3, <1>5, <1>9, <2>1, <3>1, <4>1
        <3>4. Pos < Len(Content)
            BY <1>3, <2>1, <3>1
        <3> QED BY <1>1, <1>2, <1>5, <1>9, <3>1, <3>2, <3>3, <3>4 DEF File!Get, File!Lag
    <2> QED BY <1>4, <2>5, <2>6, <2>7 DEF Inv
<1>10. CASE /\ q.next = q.limit
            /\ faulty \/ 0 \in Receives(q.object, q.offset, BufferSize)
            /\ call' = <<"get", "eof">>
            /\ next' = q.next
            /\ limit' = q.limit
            /\ offset' = q.offset
            /\ stray' = q.stray
            /\ OffTrack(q.dropped)
            /\ UNCHANGED <<buf, stale>>
    <2>1. offTrack' \in BOOLEAN /\ (~offTrack' => ~q.dropped)
        <3>1. offTrack' <=> q.dropped
            BY <1>10, OnTrack
        <3> QED BY <1>3, <1>10, <3>1 DEF OffTrack
    <2>2. TypeOK'
        BY <1>3, <1>6, <1>7, <1>10, <2>1
    <2>3. GetInv'
        <3>1. Filled' => area = "get"
            BY <1>3, <1>10 DEF Filled
        <3> QED BY <1>1, <1>2, <1>3, <1>10, <3>1 DEF Inv, GetInv, Filled
    <2>4. ASSUME ~offTrack' PROVE File!Get
        <3>1. q.object = Content /\ q.offset = Pos
            BY <1>3, <1>10, <2>1, <2>4
        <3>2. ~Skips'
            BY <1>3, <1>10 DEF Skips, Unread
        <3>3. faulty \/ Pos >= Len(Content)
            <4>1. 0 \in Receives(q.object, q.offset, BufferSize) => q.offset >= Len(q.object)
                BY <1>3, SizeAssumption, ReceivesFacts
            <4> QED BY <1>10, <3>1, <4>1
        <3> QED BY <1>1, <1>2, <1>5, <1>10, <3>1, <3>2, <3>3 DEF File!Get, File!Kept, File!Lag
    <2> QED BY <1>4, <2>2, <2>3, <2>4 DEF Inv
<1> QED BY <1>2, <1>8, <1>9, <1>10

\* What xsgetn returns when it copied nothing.
LEMMA NothingCopied ==
    ASSUME NEW s \in Seq(Symbols), NEW p \in Nat, NEW k \in Nat, k > 0 => p + k <= Len(s)
    PROVE  SubSeq(<<>> \o SubSeq(s, p + 1, p + k), 1, k) = SubSeq(s, p + 1, p + k)
<1> DEFINE t == SubSeq(s, p + 1, p + k)
<1>1. \A i \in p + 1 .. p + k : s[i] \in Symbols
    <2> SUFFICES ASSUME NEW i \in p + 1 .. p + k PROVE s[i] \in Symbols
        OBVIOUS
    <2>1. Len(s) \in Nat
        BY LenProperties
    <2>2. i \in 1 .. Len(s)
        BY <2>1
    <2> QED BY <2>2, ElementOfSeq
<1>2. t \in Seq(Symbols) /\ Len(t) = IF p + 1 <= p + k THEN p + k - (p + 1) + 1 ELSE 0
    <2>1. p + 1 \in Int /\ p + k \in Int
        OBVIOUS
    <2> QED BY <1>1, <2>1, SubSeqProperties
<1> HIDE DEF t
<1>3. Len(t) = k
    BY <1>2
<1>4. <<>> \o t = t
    BY <1>2, ConcatEmptySeq
<1>5. SubSeq(t, 1, k) = t
    BY <1>2, <1>3, SubSeqFull
<1> QED BY <1>4, <1>5 DEF t

\* xsgetn reads past the get area; on track there was nothing left in it.
LEMMA GetNKeeps ==
    ASSUME Inv, ~offTrack, NEW n \in 1 .. MaxCount, GetN(n)
    PROVE  Inv' /\ (offTrack' \/ File!GetN(n))
<1>1. fd # {} /\ area' = "get" /\ UNCHANGED <<fd, buf, faulty>>
    BY DEF GetN
<1> DEFINE copied(q) == [i \in 1 .. q.limit - q.next |->
                            IF q.stray THEN Nul ELSE buf[q.next + i - 1]]
           got(q, k) == copied(q) \o SubSeq(q.object, q.offset + 1, q.offset + k)
<1>2. PICK q \in PrepareForInput(fd, object, offset) :
         /\ object' = q.object
         /\ next' = q.limit
         /\ limit' = q.limit
         /\ stray' = q.stray
         /\ OffTrack(q.dropped \/ copied(q) # <<>>)
         /\ \/ /\ Len(copied(q)) <= n
               /\ \E k \in Receives(q.object, q.offset, n - Len(copied(q))) :
                    /\ call' = <<"getn", n, SubSeq(got(q, k), 1, k)>>
                    /\ offset' = q.offset + k
                    /\ stale' = (stale \/ (Filled /\ k > 0))
            \/ /\ Len(copied(q)) > n
               /\ call' = <<"getn", n, <<"overrun">>>>
               /\ offset' = q.offset
               /\ UNCHANGED stale
            \/ /\ faulty
               /\ call' = <<"getn", n, <<"error">>>>
               /\ offset' = q.offset
               /\ UNCHANGED stale
    BY DEF GetN
<1>3. /\ q.object \in Seq(Symbols) /\ Len(q.object) \in Nat /\ Len(q.object) <= MaxLen
      /\ q.offset \in Nat /\ q.offset <= MaxLen
      /\ q.limit \in Nat /\ q.limit <= BufferSize /\ q.next \in Nat /\ q.next <= q.limit
      /\ q.stray \in BOOLEAN /\ q.dropped \in BOOLEAN
      /\ area = "get" => /\ q.object = object /\ q.offset = offset
                         /\ q.next = next /\ q.limit = limit /\ q.stray = stray
      /\ area # "get" => q.limit = 0 /\ q.next = 0
      /\ q.next = q.limit /\ ~q.dropped => q.object = Content /\ q.offset = Pos
    BY <1>1, InputFacts
<1>4. n \in Nat /\ n >= 1 /\ BufferSize \in Nat /\ MaxLen \in Nat
    BY SizeAssumption
<1>5. copied(q) \in Seq(Symbols) /\ Len(copied(q)) = q.limit - q.next
    <2> DEFINE m == q.limit - q.next
    <2>1. m \in Nat
        BY <1>3
    <2>2. ASSUME NEW i \in 1 .. m PROVE q.next + i - 1 \in Cells
        BY <1>3, <1>4 DEF Cells
    <2>3. copied(q) \in [1 .. m -> Symbols]
        BY <2>2, NulIsSymbol DEF Inv, TypeOK
    <2> HIDE DEF copied, m
    <2>4. copied(q) \in Seq(Symbols) /\ Len(copied(q)) = m
        BY <2>1, <2>3, FunctionIsSeq
    <2> QED BY <2>4 DEF m
<1> HIDE DEF copied
<1>6. offTrack' \in BOOLEAN
      /\ (~offTrack' => copied(q) = <<>> /\ q.object = Content /\ q.offset = Pos)
    <2>1. offTrack' <=> q.dropped \/ copied(q) # <<>>
        BY <1>2, OnTrack
    <2>2. offTrack' \in BOOLEAN
        BY <1>2 DEF OffTrack
    <2>3. copied(q) = <<>> => q.next = q.limit
        <3>1. copied(q) = <<>> => Len(copied(q)) = 0
            BY EmptySeq
        <3> QED BY <1>3, <1>5, <3>1
    <2> QED BY <1>3, <2>1, <2>2, <2>3
<1>7. ~offTrack' => Len(copied(q)) = 0
    BY <1>6, EmptySeq
<1>8. PutInv' /\ Prepared' = 0 /\ ~Skips'
    <2>1. ~(next' < limit')
        BY <1>2, <1>3
    <2> QED BY <1>1, <2>1 DEF PutInv, Prepared, Skips, Unread
<1>9. Content' = object' /\ Pos' = offset'
    BY <1>1, <1>8, ViewNext
<1>10. Filled' => Filled /\ object' = object /\ limit' = limit /\ q.offset = offset
    BY <1>1, <1>2, <1>3 DEF Filled
<1>11. ASSUME offset' \in Nat, offset' <= MaxLen, stale' \in BOOLEAN
       PROVE  TypeOK'
    <2>1. offset' \in 0 .. MaxLen /\ limit' \in 0 .. BufferSize /\ next' \in 0 .. limit'
        BY <1>2, <1>3, <1>4, <1>11
    <2>2. fd' \in Modes \cup {{}} /\ faulty' \in BOOLEAN /\ buf' \in [Cells -> Symbols]
        BY <1>1 DEF Inv, TypeOK
    <2> QED BY <1>1, <1>2, <1>3, <1>6, <1>11, <2>1, <2>2 DEF TypeOK, Cells
<1>12. stale \in BOOLEAN
    BY DEF Inv, TypeOK
<1>13. ASSUME Len(copied(q)) <= n, NEW k \in Receives(q.object, q.offset, n - Len(copied(q))),
              call' = <<"getn", n, SubSeq(got(q, k), 1, k)>>,
              offset' = q.offset + k, stale' = (stale \/ (Filled /\ k > 0))
       PROVE  Inv' /\ (offTrack' \/ File!GetN(n))
    <2>1. n - Len(copied(q)) \in Nat
        BY <1>3, <1>4, <1>5, <1>13
    <2>2. /\ k \in Nat /\ k <= n /\ (k > 0 => q.offset + k <= Len(q.object))
          /\ faulty \/ k = n - Len(copied(q)) \/ q.offset + k >= Len(q.object)
        <3> DEFINE room == n - Len(copied(q))
        <3>1. room \in Nat /\ room <= n /\ k \in Receives(q.object, q.offset, room)
            BY <1>3, <1>4, <1>5, <2>1
        <3> HIDE DEF room
        <3>2. /\ k \in 0 .. room /\ (k > 0 => q.offset + k <= Len(q.object))
              /\ faulty \/ k = room \/ q.offset + k >= Len(q.object)
            BY <1>3, <3>1, ReceivesFacts
        <3>3. k \in Nat /\ k <= n
            BY <1>4, <3>1, <3>2
        <3> QED BY <3>2, <3>3 DEF room
    <2>3. TypeOK'
        <3>1. offset' \in Nat /\ offset' <= MaxLen
            BY <1>3, <1>4, <1>13, <2>2
        <3>2. stale' \in BOOLEAN
            BY <1>13
        <3> QED BY <1>11, <3>1, <3>2
    <2>4. GetInv'
        <3>1. ASSUME Filled', ~stale' PROVE ~stale /\ offset' = offset
            <4>1. ~stale /\ ~(k > 0)
                BY <1>10, <1>13, <3>1
            <4> QED BY <1>3, <1>10, <1>13, <2>2, <3>1, <4>1
        <3> QED BY <1>1, <1>10, <3>1 DEF Inv, GetInv
    <2>5. ASSUME ~offTrack' PROVE File!GetN(n)
        <3>1. k \in 0 .. n
            BY <1>4, <2>2
        <3>2. Pos + k <= Len(Content) \/ k = 0
            BY <1>6, <2>2, <2>5
        <3>3. faulty \/ k = n \/ Pos + k >= Len(Content)
            BY <1>4, <1>6, <1>7, <2>2, <2>5
        <3>4. SubSeq(got(q, k), 1, k) = SubSeq(Content, Pos + 1, Pos + k)
            <4>1. got(q, k) = <<>> \o SubSeq(Content, Pos + 1, Pos + k)
                BY <1>6, <2>5
            <4>2. Content \in Seq(Symbols) /\ Pos \in Nat /\ (k > 0 => Pos + k <= Len(Content))
                BY <1>3, <1>6, <2>2, <2>5
            <4> QED BY <2>2, <4>1, <4>2, NothingCopied
        <3>5. call' = <<"getn", n, SubSeq(Content, Pos + 1, Pos + k)>>
            BY <1>13, <3>4
        <3>6. Content' = Content /\ Pos' = Pos + k /\ object' = Content
            BY <1>2, <1>6, <1>9, <1>13, <2>5
        <3> QED BY <1>1, <3>1, <3>2, <3>3, <3>5, <3>6 DEF File!GetN, File!Lag
    <2> QED BY <1>8, <2>3, <2>4, <2>5 DEF Inv
<1>14. ASSUME \/ Len(copied(q)) > n
              \/ faulty /\ call' = <<"getn", n, <<"error">>>>,
              offset' = q.offset, UNCHANGED stale
       PROVE  Inv' /\ (offTrack' \/ File!GetN(n))
    <2>1. TypeOK'
        BY <1>3, <1>11, <1>12, <1>14
    <2>2. GetInv'
        BY <1>1, <1>10, <1>14 DEF Inv, GetInv
    <2>3. ASSUME ~offTrack' PROVE File!GetN(n)
        <3>1. faulty /\ call' = <<"getn", n, <<"error">>>>
            BY <1>4, <1>7, <1>14, <2>3
        <3>2. Content' = Content /\ Pos' = Pos /\ object' = Content
            BY <1>2, <1>6, <1>9, <1>14, <2>3
        <3> QED BY <1>1, <3>1, <3>2 DEF File!GetN, File!Kept, File!Lag
    <2> QED BY <1>8, <2>1, <2>2, <2>3 DEF Inv
<1> HIDE DEF got
<1> QED BY <1>2, <1>13, <1>14

----------------------------------------------------------------------------
(* Opening *)

\* make_open_flags takes the modes that fopen does, and the truncating ones
\* are those that empty a file, unless a stream opened for input appends.
LEMMA ModeFacts ==
    ASSUME NEW m \in Modes
    PROVE  /\ Plain(m) \in Translated => m \cap {"in", "out", "app"} # {}
           /\ ~({"in", "app"} \subseteq m) =>
                /\ File!Openable(m) <=> Plain(m) \in Translated
                /\ File!Openable(m) => (File!Empties(m) <=> Plain(m) \in Truncating)
<1> DEFINE p == Plain(m)
<1>1. m \subseteq {"in", "out", "app", "trunc", "ate"}
    BY ModeAssumption
<1>2. /\ p \subseteq {"in", "out", "app", "trunc"}
      /\ \A x \in {"in", "out", "app", "trunc"} : x \in m <=> x \in p
    BY <1>1 DEF Plain
<1>3. /\ m \cap {"in", "out", "app"} # {} <=> p \cap {"in", "out", "app"} # {}
      /\ {"in", "app"} \subseteq m <=> "in" \in p /\ "app" \in p
      /\ File!Openable(m) <=> /\ p \cap {"in", "out", "app"} # {}
                              /\ "trunc" \in p => "out" \in p /\ "app" \notin p
      /\ File!Empties(m) <=> "trunc" \in p \/ p = {"out"}
    BY <1>1, <1>2 DEF File!Openable, File!Empties, Plain
<1> HIDE DEF p
<1>4. p \in Translated => p \cap {"in", "out", "app"} # {}
    BY DEF Translated
<1>5. ASSUME ~("in" \in p /\ "app" \in p), p \cap {"in", "out", "app"} # {},
             "trunc" \in p => "out" \in p /\ "app" \notin p
      PROVE  p \in Translated /\ ("trunc" \in p \/ p = {"out"} <=> p \in Truncating)
    <2>1. \/ p = {"in"} \/ p = {"out"} \/ p = {"out", "trunc"} \/ p = {"app"} \/ p = {"out", "app"}
          \/ p = {"in", "out"} \/ p = {"in", "out", "trunc"}
        <3>1. CASE "in" \in p
            BY <1>2, <1>5, <3>1
        <3>2. CASE "in" \notin p /\ "app" \in p
            BY <1>2, <1>5, <3>2
        <3>3. CASE "in" \notin p /\ "app" \notin p
            BY <1>2, <1>5, <3>3
        <3> QED BY <3>1, <3>2, <3>3
    <2> QED BY <2>1 DEF Translated, Truncating
<1>6. ASSUME ~("in" \in p /\ "app" \in p), p \in Translated
      PROVE  "trunc" \in p => "out" \in p /\ "app" \notin p
    BY <1>6 DEF Translated
<1> QED BY <1>3, <1>4, <1>5, <1>6 DEF p

\* open puts the descriptor where the mode says, and both areas are empty.
LEMMA OpenKeeps ==
    ASSUME Inv, ~offTrack, NEW m \in Modes, Open(m)
    PROVE  Inv' /\ (offTrack' \/ File!Open(m))
<1> DEFINE s == IF Plain(m) \in Truncating THEN <<>> ELSE object
           p == IF "ate" \in m THEN Len(s) ELSE 0
<1>1. /\ fd = {} /\ Plain(m) \in Translated /\ Len(object) + Prepared <= MaxLen
      /\ InitArea(m, s, p)
      /\ fd' = m /\ call' = <<"open", m, TRUE>> /\ UNCHANGED <<buf, faulty>>
      /\ OffTrack((area = "put" /\ next > 0) \/ {"in", "app"} \subseteq m)
    BY DEF Open
<1>2. /\ Prepared \in Nat /\ Prepared <= BufferSize /\ (area = "put" => Prepared = next)
      /\ (Prepared > 0 => area = "put") /\ BufferSize \in Nat /\ MaxLen \in Nat
    BY PreparedFacts, SizeAssumption DEF Inv
<1>3. /\ s \in Seq(Symbols) /\ Len(s) \in Nat /\ Len(s) <= Len(object) /\ Len(object) \in Nat
      /\ Len(object) <= MaxLen
      /\ p \in Nat /\ p <= Len(s)
    <2>1. object \in Seq(Symbols) /\ Len(object) \in Nat /\ Len(object) <= MaxLen
        BY LenProperties DEF Inv, TypeOK
    <2>2. <<>> \in Seq(Symbols) /\ Len(<<>>) = 0
        BY EmptySeq
    <2>3. s \in Seq(Symbols) /\ Len(s) \in Nat /\ Len(s) <= Len(object)
        BY <2>1, <2>2
    <2> QED BY <2>1, <2>3
<1>4. offTrack' \in BOOLEAN
      /\ (~offTrack' => ~(area = "put" /\ next > 0) /\ ~({"in", "app"} \subseteq m))
    <2>1. offTrack' <=> (area = "put" /\ next > 0) \/ {"in", "app"} \subseteq m
        BY <1>1, OnTrack
    <2> QED BY <1>1, <2>1 DEF OffTrack
<1>5. ~offTrack' => Prepared = 0
    BY <1>2, <1>4
<1>6. m # {} /\ m \cap {"in", "out", "app"} # {}
    BY <1>1, ModeFacts
<1> HIDE DEF s, p
<1>7. /\ object' \in Seq(Symbols) /\ Len(object') <= MaxLen /\ offset' \in 0 .. MaxLen
      /\ area' \in {"none", "get", "put"} /\ limit' \in 0 .. BufferSize
      /\ next' \in 0 .. IF area' = "put" THEN BufferSize ELSE limit'
      /\ Filled' => area = "get" /\ limit' = limit /\ stale' = Filled
      /\ ~offTrack' => /\ object' = s /\ offset' = p /\ Prepared' = 0
                       /\ area' = "put" => next' = 0 /\ "in" \notin m
    <2>1. CASE "in" \in m
        <3>1. PICK q \in PrepareForInput(m, s, p) :
                /\ area' = "get"
                /\ next' = q.next /\ limit' = q.limit /\ stray' = q.stray
                /\ object' = q.object /\ offset' = q.offset
                /\ stale' = Filled
            BY <1>1, <2>1 DEF InitArea
        <3>2. CASE area = "get"
            <4>1. /\ q.object = s /\ q.offset = p /\ q.next = next /\ q.limit = limit
                BY <3>2 DEF PrepareForInput
            <4>2. limit \in 0 .. BufferSize /\ next \in 0 .. limit
                BY <3>2 DEF Inv, TypeOK
            <4> QED BY <1>2, <1>3, <3>1, <3>2, <4>1, <4>2 DEF Prepared
        <3>3. CASE area # "get"
            <4>1. PICK f \in Flushes(m, s, p) :
                    q = [object |-> f.object, offset |-> f.offset, next |-> 0, limit |-> 0,
                         stray |-> FALSE, dropped |-> f.left > 0]
                BY <3>3 DEF PrepareForInput
            <4>2. q.object = f.object /\ q.offset = f.offset /\ q.next = 0 /\ q.limit = 0
                BY <4>1
            <4>3. /\ p + Prepared + 0 <= MaxLen /\ Len(s) <= MaxLen
                  /\ Len(s) + Prepared + 0 <= MaxLen
                BY <1>1, <1>2, <1>3
            <4>4. /\ f.ok \in BOOLEAN /\ f.left \in 0 .. Prepared
                  /\ f.object \in Seq(Symbols) /\ Len(f.object) <= MaxLen
                  /\ f.offset \in Nat /\ f.offset + f.left + 0 <= MaxLen
                  /\ f.ok /\ f.left = 0 => /\ f.object = SentObject(m, s, p, Pending(Prepared))
                                           /\ f.offset = SentOffset(m, s, p, Pending(Prepared))
                  /\ ~f.ok => Prepared > 0
                BY <1>3, <4>3, FlushFacts DEF Inv
            <4>5. ~offTrack' => f.object = s /\ f.offset = p
                <5>1. Prepared = 0 => Pending(Prepared) = <<>>
                    BY EmptyFunction DEF Pending
                <5>2. Prepared = 0 => f.ok /\ f.left = 0
                    BY <1>2, <4>4
                <5> QED BY <1>5, <4>4, <5>1, <5>2, SentNothing
            <4>6. f.offset \in 0 .. MaxLen
                BY <1>2, <4>4
            <4>7. ~Filled'
                BY <3>1, <4>2 DEF Filled
            <4> QED BY <1>2, <3>1, <4>2, <4>4, <4>5, <4>6, <4>7 DEF Prepared
        <3> QED BY <3>2, <3>3
    <2>2. CASE "in" \notin m /\ "out" \in m
        <3>1. /\ object' = s /\ offset' = p /\ area' = "put" /\ limit' = 0 /\ stale' = FALSE
              /\ next' = Prepared
            BY <1>1, <2>2 DEF InitArea, PrepareForOutput
        <3>2. ~Filled' /\ Prepared' = next'
            BY <3>1 DEF Filled, Prepared
        <3>3. next' \in 0 .. BufferSize /\ limit' \in 0 .. BufferSize /\ offset' \in 0 .. MaxLen
            BY <1>2, <1>3, <3>1
        <3>4. next' \in 0 .. IF area' = "put" THEN BufferSize ELSE limit'
            BY <3>1, <3>3
        <3>5. ~offTrack' => Prepared' = 0 /\ next' = 0
            BY <1>5, <3>1, <3>2
        <3>6. object' \in Seq(Symbols) /\ Len(object') <= MaxLen
            BY <1>2, <1>3, <3>1
        <3> QED BY <2>2, <3>1, <3>2, <3>3, <3>4, <3>5, <3>6
    <2>3. CASE "in" \notin m /\ "out" \notin m
        <3>1. /\ object' = s /\ offset' = p
              /\ UNCHANGED <<area, next, limit, stray>> /\ stale' = Filled
            BY <1>1, <2>3 DEF InitArea, areaVars
        <3>2. /\ area \in {"none", "get", "put"} /\ limit \in 0 .. BufferSize
              /\ next \in 0 .. IF area = "put" THEN BufferSize ELSE limit
            BY DEF Inv, TypeOK
        <3>3. Prepared' = Prepared /\ (Filled' => area = "get") /\ offset' \in 0 .. MaxLen
            BY <1>2, <1>3, <3>1 DEF Prepared, Filled
        <3> QED BY <1>2, <1>3, <1>5, <2>3, <3>1, <3>2, <3>3
    <2> QED BY <2>1, <2>2, <2>3
<1>8. stray' \in BOOLEAN /\ stale' \in BOOLEAN
    <2>1. stray \in BOOLEAN
        BY DEF Inv, TypeOK
    <2>2. ASSUME NEW q \in PrepareForInput(m, s, p) PROVE q.stray \in BOOLEAN
        <3>1. CASE area = "get"
            <4>1. q = [object |-> s, offset |-> p, next |-> next, limit |-> limit,
                       stray |-> stray, dropped |-> FALSE]
                BY <3>1 DEF PrepareForInput
            <4> QED BY <2>1, <4>1
        <3>2. CASE area # "get"
            <4>1. PICK f \in Flushes(m, s, p) :
                    q = [object |-> f.object, offset |-> f.offset, next |-> 0, limit |-> 0,
                         stray |-> FALSE, dropped |-> f.left > 0]
                BY <3>2 DEF PrepareForInput
            <4> QED BY <4>1
        <3> QED BY <3>1, <3>2
    <2>3. stale' \in BOOLEAN
        BY <1>1 DEF InitArea, PrepareForOutput, Filled
    <2>4. stray' \in BOOLEAN
        BY <1>1, <2>1, <2>2 DEF InitArea, PrepareForOutput, areaVars
    <2> QED BY <2>3, <2>4
<1>9. TypeOK'
    <2>1. fd' \in Modes \cup {{}} /\ faulty' \in BOOLEAN /\ buf' \in [Cells -> Symbols]
        BY <1>1 DEF Inv, TypeOK
    <2> QED BY <1>4, <1>7, <1>8, <2>1 DEF TypeOK, Cells
<1>10. Filled' => stale'
    BY <1>7 DEF Filled
<1>11. GetInv'
    BY <1>10 DEF GetInv
<1>12. ASSUME ~offTrack' PROVE PutInv' /\ File!Open(m)
    <2>1. ~({"in", "app"} \subseteq m)
        BY <1>4, <1>12
    <2>2. File!Openable(m) /\ (File!Empties(m) <=> Plain(m) \in Truncating)
        BY <1>1, <2>1, ModeFacts
    <2>3. PutInv'
        <3>1. area' = "put" => fd' \cap {"out", "app"} # {} /\ next' = 0
            BY <1>1, <1>6, <1>7, <1>12
        <3>2. offset' + 0 <= MaxLen /\ Len(object') + 0 <= MaxLen
            BY <1>2, <1>3, <1>7, <1>12
        <3> QED BY <3>1, <3>2 DEF PutInv
    <2>4. Content = object
        BY <1>1, View
    <2>5. ~Skips'
        <3>1. Unread' => Filled'
            BY <1>2, <1>9 DEF TypeOK, Unread, Filled
        <3> QED BY <1>10, <3>1 DEF Skips
    <2>6. Content' = object' /\ Pos' = offset'
        BY <1>1, <1>6, <1>7, <1>12, <2>5, ViewNext
    <2>7. object' = s /\ offset' = p
        BY <1>7, <1>12
    <2> QED BY <1>1, <2>2, <2>3, <2>4, <2>6, <2>7 DEF File!Open, s, p
<1> QED BY <1>9, <1>11, <1>12 DEF Inv

\* An open that fails on track has changed nothing, or emptied the object as
\* the mode asks.
LEMMA OpenFailsKeeps ==
    ASSUME Inv, ~offTrack, NEW m \in Modes, OpenFails(m)
    PROVE  Inv' /\ (offTrack' \/ File!OpenFails(m))
<1>1. /\ fd # {} \/ Plain(m) \notin Translated \/ faulty
      /\ \/ UNCHANGED <<object, fd>>
         \/ /\ fd = {} /\ Plain(m) \in Translated
            /\ object' = IF Plain(m) \in Truncating THEN <<>> ELSE object
            /\ fd' \in {{}, m}
      /\ offset' = IF fd' = fd THEN offset ELSE 0
      /\ call' = <<"open", m, FALSE>>
      /\ OffTrack(fd' # fd \/ {"in", "app"} \subseteq m)
      /\ UNCHANGED <<area, next, limit, stray, buf, stale, faulty>>
    BY DEF OpenFails, areaVars
<1>2. offTrack' \in BOOLEAN /\ (~offTrack' => fd' = fd /\ ~({"in", "app"} \subseteq m))
    <2>1. offTrack' <=> fd' # fd \/ {"in", "app"} \subseteq m
        BY <1>1, OnTrack
    <2> QED BY <1>1, <2>1 DEF OffTrack
<1>3. TypeOK'
    <2>1. object' \in Seq(Symbols) /\ Len(object') <= MaxLen
        <3>1. <<>> \in Seq(Symbols) /\ Len(<<>>) = 0
            BY EmptySeq
        <3>2. object \in Seq(Symbols) /\ Len(object) <= MaxLen
            BY DEF Inv, TypeOK
        <3>3. object' = object \/ object' = <<>>
            BY <1>1
        <3>4. 0 <= MaxLen
            BY SizeAssumption
        <3>5. CASE object' = object
            BY <3>2, <3>5
        <3>6. CASE object' = <<>>
            BY <3>1, <3>4, <3>6
        <3> QED BY <3>3, <3>5, <3>6
    <2>2. offset' \in 0 .. MaxLen /\ fd' \in Modes \cup {{}}
        BY <1>1, SizeAssumption DEF Inv, TypeOK
    <2> QED BY <1>1, <1>2, <2>1, <2>2 DEF Inv, TypeOK, Cells
<1>4. ASSUME ~offTrack' PROVE GetInv' /\ PutInv' /\ File!OpenFails(m)
    <2>1. fd' = fd /\ offset' = offset
        BY <1>1, <1>2, <1>4
    <2>2. /\ File!Openable(m) <=> Plain(m) \in Translated
          /\ File!Openable(m) => (File!Empties(m) <=> Plain(m) \in Truncating)
        BY <1>2, <1>4, ModeFacts
    <2>3. CASE UNCHANGED <<object, fd>>
        <3>1. GetInv' /\ PutInv'
            BY <1>1, <2>1, <2>3 DEF Inv, GetInv, PutInv, Filled
        <3>2. Content' = Content /\ Pos' = Pos
            BY <1>1, <2>1, <2>3 DEF Content, Pos, Seen, Pending, Prepared, Skips, Unread
        <3> QED BY <1>1, <2>2, <2>3, <3>1, <3>2 DEF File!OpenFails, File!Kept, File!Lag
    <2>4. CASE /\ fd = {} /\ Plain(m) \in Translated
               /\ object' = IF Plain(m) \in Truncating THEN <<>> ELSE object
        <3>1. GetInv' /\ PutInv'
            BY <2>1, <2>4 DEF GetInv, PutInv
        <3>2. Content' = object' /\ Content = object /\ Pos' = Pos
            BY <2>1, <2>4, View, ViewNext
        <3> QED BY <1>1, <2>1, <2>2, <2>4, <3>1, <3>2 DEF File!OpenFails, File!Kept, File!Lag
    <2> QED BY <1>1, <2>3, <2>4
<1> QED BY <1>3, <1>4 DEF Inv

----------------------------------------------------------------------------
(* The stream is a file *)

\* The invariant holds before the first call, and the file is closed.
LEMMA InitInv == Init => Inv /\ File!FileInit
<1> SUFFICES ASSUME Init PROVE Inv /\ File!FileInit
    OBVIOUS
<1>1. object \in Seq(Symbols) /\ Len(object) <= MaxLen
    BY ObjectAssumption DEF Init
<1>2. buf \in [Cells -> Symbols]
    BY NulIsSymbol DEF Init
<1>3. {stray, stale, offTrack, faulty} \subseteq BOOLEAN
    BY DEF Init
<1>4. offset \in 0 .. MaxLen /\ limit \in 0 .. BufferSize /\ next \in 0 .. limit /\ area = "none"
    BY SizeAssumption DEF Init
<1>5. TypeOK
    BY <1>1, <1>2, <1>3, <1>4 DEF Init, TypeOK
<1>6. GetInv /\ PutInv
    BY DEF Init, GetInv, PutInv
<1>7. File!FileInit
    BY View DEF Init, File!FileInit
<1> QED BY <1>5, <1>6, <1>7 DEF Inv

\* Every call of a stream is a call of a file, or leaves the track.
LEMMA NextKeeps ==
    ASSUME Inv, Next
    PROVE  Inv' /\ (offTrack' \/ File!FileNext)
<1>1. ~offTrack /\ Call
    BY DEF Next
<1>2. UNCHANGED faulty
    BY <1>1 DEF Call, Open, OpenFails, Close, Move, Get, GetN, Unget, Put, PutN, SyncCall, Seek
<1>3. 1 \in 1 .. MaxLen /\ MaxLen \in Nat /\ 1 .. MaxCount \subseteq 1 .. MaxLen
    BY SizeAssumption
<1>4. ASSUME NEW m \in Modes, Open(m) \/ OpenFails(m)
      PROVE  Inv' /\ (offTrack' \/ File!FileNext)
    BY <1>1, <1>2, <1>4, OpenKeeps, OpenFailsKeeps DEF File!FileNext
<1>5. CASE Close \/ Move \/ Get \/ SyncCall
    BY <1>1, <1>2, <1>5, CloseKeeps, MoveKeeps, GetKeeps, SyncCallKeeps DEF File!FileNext
<1>6. ASSUME NEW n \in 1 .. MaxCount, GetN(n)
      PROVE  Inv' /\ (offTrack' \/ File!FileNext)
    BY <1>1, <1>2, <1>3, <1>6, GetNKeeps DEF File!FileNext
<1>7. ASSUME NEW c \in Chars \cup {"eof"}, Unget(c)
      PROVE  Inv' /\ (offTrack' \/ File!FileNext)
    BY <1>1, <1>2, <1>7, UngetKeeps DEF File!FileNext
<1>8. ASSUME NEW c \in Chars, Put(c)
      PROVE  Inv' /\ (offTrack' \/ File!FileNext)
    BY <1>1, <1>2, <1>8, PutKeeps DEF File!FileNext
<1>9. ASSUME NEW n \in 1 .. MaxCount, NEW w \in [1 .. n -> Chars], PutN(w)
      PROVE  Inv' /\ (offTrack' \/ File!FileNext)
    BY <1>1, <1>2, <1>3, <1>9, PutNKeeps DEF File!FileNext
<1>10. ASSUME NEW dir \in {"beg", "cur", "end"}, NEW d \in -MaxLen .. MaxLen, Seek(dir, d)
       PROVE  Inv' /\ (offTrack' \/ File!FileNext)
    <2>1. d \in Int
        BY <1>3
    <2> QED BY <1>1, <1>2, <1>10, <2>1, SeekKeeps DEF File!FileNext
<1>11. 0 .. MaxLen \subseteq -MaxLen .. MaxLen /\ {-1, 0, 1} \subseteq -MaxLen .. MaxLen
    BY <1>3
<1> QED BY <1>1, <1>4, <1>5, <1>6, <1>7, <1>8, <1>9, <1>10, <1>11 DEF Call

\* Nor does a stutter change anything.
LEMMA StutterKeeps ==
    ASSUME Inv, UNCHANGED vars
    PROVE  Inv' /\ UNCHANGED File!fileVars
<1> USE DEF vars, areaVars
<1>1. Inv'
    BY DEF Inv, TypeOK, GetInv, PutInv, Filled
<1>2. Content' = Content /\ Pos' = Pos
    BY DEF Content, Pos, Seen, Pending, Prepared, Skips, Unread
<1> QED BY <1>1, <1>2 DEF File!fileVars

(* What is in the areas, the put area's room and the types hold in every   *)
(* reachable state.                                                        *)
THEOREM InvHolds == Spec => []Inv
<1> QED BY InitInv, NextKeeps, StutterKeeps, PTL DEF Spec

(* Every variable has its type: the pointers of basic_data_object_buf stay *)
(* in the array, and no call makes the object longer than there is room.   *)
THEOREM PointersInBuffer == Spec => []TypeOK
<1>1. Inv => TypeOK
    BY DEF Inv
<1> QED BY InvHolds, <1>1, PTL

(* The stream implements SequentialFile, for any buffer size, any objects, *)
(* openmodes and characters, as long as the program stays on track.        *)
THEOREM StreamIsFile == Spec => FileSteps
<1>1. Inv /\ [Next]_vars => [offTrack' \/ File!FileNext]_(File!fileVars)
    BY NextKeeps, StutterKeeps
<1> QED BY InitInv, InvHolds, <1>1, PTL DEF Spec, FileSteps
====
