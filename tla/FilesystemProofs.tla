--------------------------- MODULE FilesystemProofs ---------------------------
(***************************************************************************)
(* Proofs about Filesystem: every handle that is open at the server is     *)
(* owned by one iterator, or was left in one of two known ways; the        *)
(* catalog stays a tree; and the data of an object is lost only to a       *)
(* client that was asked for it, whatever the clients do, for any clients, *)
(* programs and catalogs.                                                  *)
(***************************************************************************)
EXTENDS Filesystem, FiniteSetTheorems, SequenceTheorems, TLAPS

(* The handles in a stack of frames or of iterators. *)
IsSeq(s) == s \in Seq(ToSet(s))
HandlesOf(s) == {s[i].handle : i \in 1 .. Len(s)} \ {0}
Distinct(s) ==
    \A i, j \in 1 .. Len(s) : i # j => s[i].handle = 0 \/ s[i].handle # s[j].handle

(* A loop of copy has a handle while it runs, and no other frame has one.  *)
(* A walk and a remove are called by no other function.                    *)
Iterating(f) == f.name = "copy" /\ f.at = "next"
IsFrame(f) ==
    /\ f = [name |-> f.name, from |-> f.from, to |-> f.to, options |-> f.options,
            at |-> f.at, seen |-> f.seen, handle |-> f.handle]
    /\ f.handle # 0 <=> Iterating(f)
FramesInv(s) ==
    /\ IsSeq(s) /\ Distinct(s)
    /\ \A i \in 1 .. Len(s) : IsFrame(s[i]) /\ (i # 1 => s[i].name \notin {"walk", "remove"})

(* An iterator without a handle is at its end. *)
IsIterator(i) ==
    /\ i = [handle |-> i.handle, entry |-> i.entry]
    /\ i.handle = 0 => i.entry = NoEntry
IteratorsInv(s) ==
    /\ IsSeq(s) /\ Distinct(s)
    /\ \A i \in 1 .. Len(s) : IsIterator(s[i])

(* Only a walk has iterators on a stack, from its first step to its last.  *)
(* Once it has looked at an entry, the iterator at the top is not at its   *)
(* end.                                                                    *)
Looking == {"visited", "over", "into", "probe", "declined"}
WalkingInv(frames, walk) ==
    /\ walk # <<>> => Len(frames) = 1 /\ frames[1].name = "walk" /\ frames[1].at # "stat"
    /\ frames # <<>> /\ frames[1].name = "walk" =>
           /\ frames[1].at = "visit" => walk # <<>>
           /\ frames[1].at \in Looking => walk # <<>> /\ walk[Len(walk)].handle # 0

IsClient(k) ==
    k = [frames |-> k.frames, walk |-> k.walk, visited |-> k.visited, twice |-> k.twice,
         skipped |-> k.skipped, count |-> k.count, op |-> k.op, todo |-> k.todo,
         outcome |-> k.outcome]
ClientInv(k) ==
    /\ IsClient(k) /\ k.todo \in Seq(Requests)
    /\ FramesInv(k.frames) /\ IteratorsInv(k.walk) /\ WalkingInv(k.frames, k.walk)

HandlesInv(H) ==
    /\ IsFiniteSet(DOMAIN H) /\ 0 \notin DOMAIN H
    /\ \A h \in DOMAIN H : H[h] = [left |-> H[h].left, read |-> H[h].read]

Inv ==
    /\ DOMAIN client = Clients /\ \A c \in Clients : ClientInv(client[c])
    /\ HandlesInv(handles)
    /\ HandlesAccounted

-----------------------------------------------------------------------------
(* Stacks *)

\* A sequence over any set is one over the set of its elements.
LEMMA SeqFacts ==
    ASSUME NEW S, NEW s \in Seq(S)
    PROVE  /\ IsSeq(s) /\ Len(s) \in Nat /\ DOMAIN s = 1 .. Len(s)
           /\ ToSet(s) = {s[i] : i \in 1 .. Len(s)}
           /\ s # <<>> <=> Len(s) > 0
<1>1. Len(s) \in Nat /\ DOMAIN s = 1 .. Len(s) /\ s \in [1 .. Len(s) -> S]
    BY LenProperties
<1>2. ToSet(s) = {s[i] : i \in 1 .. Len(s)}
    BY <1>1 DEF ToSet
<1>3. s \in [1 .. Len(s) -> ToSet(s)]
    BY <1>1, <1>2
<1>4. IsSeq(s)
    BY <1>1, <1>3, SeqDef DEF IsSeq
<1> QED BY <1>1, <1>2, <1>4, EmptySeq

\* The empty stack has no handle.
LEMMA NoStack == IsSeq(<<>>) /\ Len(<<>>) = 0 /\ Distinct(<<>>) /\ HandlesOf(<<>>) = {}
<1>1. <<>> \in Seq({}) /\ Len(<<>>) = 0
    BY EmptySeq
<1>2. IsSeq(<<>>)
    BY <1>1, SeqFacts
<1>3. 1 .. Len(<<>>) = {}
    BY <1>1
<1> QED BY <1>1, <1>2, <1>3 DEF Distinct, HandlesOf

\* Taking the top off a stack takes its handle.
LEMMA Popped ==
    ASSUME NEW s, IsSeq(s), s # <<>>, Distinct(s)
    PROVE  /\ IsSeq(Front(s)) /\ Len(Front(s)) = Len(s) - 1 /\ Len(s) \in Nat \ {0}
           /\ \A i \in 1 .. Len(s) - 1 : Front(s)[i] = s[i]
           /\ Distinct(Front(s)) /\ HandlesOf(Front(s)) = HandlesOf(s) \ {Last(s).handle}
<1> DEFINE S == ToSet(s)
<1>1. s \in Seq(S)
    BY DEF IsSeq
<1> HIDE DEF S
<1>2. Len(s) \in Nat \ {0} /\ \A i \in 1 .. Len(s) : s[i] \in S
    BY <1>1, EmptySeq, LenProperties
<1>3. /\ Front(s) \in Seq(S) /\ Len(Front(s)) = Len(s) - 1
      /\ \A i \in 1 .. Len(s) - 1 : Front(s)[i] = s[i]
    <2> DEFINE n == Len(s) - 1
               t == SubSeq(s, 1, n)
    <2>1. n \in Nat /\ \A i \in 1 .. n : s[i] \in S
        BY <1>2
    <2> HIDE DEF n
    <2>2. /\ t \in Seq(S) /\ Len(t) = IF 1 <= n THEN n - 1 + 1 ELSE 0
          /\ \A i \in 1 .. n - 1 + 1 : t[i] = s[1 + i - 1]
        BY <2>1, SubSeqProperties
    <2> HIDE DEF t
    <2>3. t \in Seq(S) /\ Len(t) = n /\ \A i \in 1 .. n : t[i] = s[i]
        BY <2>1, <2>2
    <2> QED BY <2>3 DEF Front, n, t
<1>4. Distinct(Front(s))
    BY <1>2, <1>3 DEF Distinct
<1>5. HandlesOf(Front(s)) = HandlesOf(s) \ {Last(s).handle}
    BY <1>2, <1>3 DEF Distinct, HandlesOf, Last
<1> QED BY <1>2, <1>3, <1>4, <1>5, SeqFacts

\* Putting something on a stack adds its handle.
LEMMA Pushed ==
    ASSUME NEW s, IsSeq(s), Distinct(s), NEW a, a.handle = 0 \/ a.handle \notin HandlesOf(s)
    PROVE  /\ IsSeq(Append(s, a)) /\ Append(s, a) # <<>>
           /\ Len(s) \in Nat /\ Len(Append(s, a)) = Len(s) + 1
           /\ \A i \in 1 .. Len(s) : Append(s, a)[i] = s[i]
           /\ Append(s, a)[Len(s) + 1] = a
           /\ Distinct(Append(s, a)) /\ HandlesOf(Append(s, a)) = HandlesOf(s) \cup ({a.handle} \ {0})
<1> DEFINE S == ToSet(s) \cup {a}
<1>1. s \in Seq(S) /\ a \in S
    <2>1. s \in Seq(ToSet(s))
        BY DEF IsSeq
    <2>2. Len(s) \in Nat /\ s \in [1 .. Len(s) -> ToSet(s)]
        BY <2>1, LenProperties
    <2>3. s \in [1 .. Len(s) -> S]
        BY <2>2
    <2> QED BY <2>2, <2>3, SeqDef
<1> HIDE DEF S
<1>2. /\ Append(s, a) \in Seq(S) /\ Append(s, a) # <<>>
      /\ Len(s) \in Nat /\ Len(Append(s, a)) = Len(s) + 1
      /\ \A i \in 1 .. Len(s) : Append(s, a)[i] = s[i]
      /\ Append(s, a)[Len(s) + 1] = a
    BY <1>1, AppendProperties, LenProperties
<1> DEFINE t == Append(s, a)
           h == a.handle
<1>3. /\ Len(t) = Len(s) + 1 /\ \A i \in 1 .. Len(s) : t[i] = s[i]
      /\ t[Len(s) + 1] = a
    BY <1>2
<1> HIDE DEF t
<1>4. HandlesOf(t) = HandlesOf(s) \cup ({h} \ {0})
    BY <1>2, <1>3 DEF HandlesOf
<1>5. Distinct(t)
    <2> SUFFICES ASSUME NEW i \in 1 .. Len(t), NEW j \in 1 .. Len(t), i # j
                 PROVE  t[i].handle = 0 \/ t[i].handle # t[j].handle
        BY DEF Distinct
    <2>1. CASE i \in 1 .. Len(s) /\ j \in 1 .. Len(s)
        BY <1>3, <2>1 DEF Distinct
    <2>2. CASE i \in 1 .. Len(s) /\ j = Len(s) + 1
        <3>1. s[i].handle = 0 \/ s[i].handle \in HandlesOf(s)
            BY <2>2 DEF HandlesOf
        <3> QED BY <1>3, <2>2, <3>1
    <2>3. CASE i = Len(s) + 1 /\ j \in 1 .. Len(s)
        <3>1. s[j].handle = 0 \/ s[j].handle \in HandlesOf(s)
            BY <2>3 DEF HandlesOf
        <3> QED BY <1>3, <2>3, <3>1
    <2> QED BY <1>2, <1>3, <2>1, <2>2, <2>3
<1> QED BY <1>2, <1>4, <1>5, SeqFacts DEF t

\* What Become makes of the frames: the top is taken off, and up to two
\* frames put in its place.
LEMMA Become3 ==
    ASSUME NEW s, IsSeq(s), NEW a, NEW b
    PROVE  /\ s \o <<>> = s /\ s \o <<a>> = Append(s, a)
           /\ s \o <<a, b>> = Append(Append(s, a), b)
<1> DEFINE S == ToSet(s) \cup {a, b}
<1>1. s \in Seq(S) /\ a \in S /\ b \in S
    <2>1. s \in Seq(ToSet(s))
        BY DEF IsSeq
    <2>2. Len(s) \in Nat /\ s \in [1 .. Len(s) -> ToSet(s)]
        BY <2>1, LenProperties
    <2>3. s \in [1 .. Len(s) -> S]
        BY <2>2
    <2> QED BY <2>2, <2>3, SeqDef
<1> HIDE DEF S
<1>2. s \o <<>> = s /\ Append(s, a) = s \o <<a>> /\ Append(s, a) \in Seq(S)
    BY <1>1, ConcatEmptySeq, AppendIsConcat, AppendProperties
<1>3. Append(Append(s, a), b) = (s \o <<a>>) \o <<b>>
    BY <1>1, <1>2, AppendIsConcat
<1>4. (s \o <<a>>) \o <<b>> = s \o (<<a>> \o <<b>>)
    <2>1. <<a>> \in Seq(S) /\ <<b>> \in Seq(S)
        BY <1>1
    <2> QED BY <1>1, <2>1, ConcatAssociative
<1>5. <<a>> \o <<b>> = <<a, b>>
    <2>1. <<a>> \in Seq(S) /\ <<b>> \in Seq(S) /\ <<a, b>> \in Seq(S)
        BY <1>1
    <2>2. Len(<<a>>) = 1 /\ Len(<<b>>) = 1 /\ Len(<<a, b>>) = 2
        OBVIOUS
    <2>3. /\ <<a>> \o <<b>> \in Seq(S) /\ Len(<<a>> \o <<b>>) = 2
          /\ \A i \in 1 .. 2 : (<<a>> \o <<b>>)[i] = IF i <= 1 THEN <<a>>[i] ELSE <<b>>[i - 1]
        BY <2>1, <2>2, ConcatProperties
    <2>4. \A i \in 1 .. 2 : (IF i <= 1 THEN <<a>>[i] ELSE <<b>>[i - 1]) = <<a, b>>[i]
        OBVIOUS
    <2> DEFINE t == <<a>> \o <<b>>
               u == <<a, b>>
    <2>5. t \in Seq(S) /\ u \in Seq(S) /\ Len(t) = 2 /\ Len(u) = 2 /\ \A i \in 1 .. 2 : t[i] = u[i]
        BY <2>1, <2>2, <2>3, <2>4
    <2> HIDE DEF t, u
    <2>6. t = u
        BY <2>5, SeqEqual
    <2> QED BY <2>6 DEF t, u
<1> QED BY <1>2, <1>3, <1>4, <1>5

\* The top of the frames becomes another one.
LEMMA FrameReplaced ==
    ASSUME NEW s, FramesInv(s), s # <<>>, NEW a, IsFrame(a),
           a.name = Last(s).name \/ a.name \notin {"walk", "remove"},
           a.handle \in {0, Last(s).handle} \/ a.handle \notin HandlesOf(s)
    PROVE  /\ FramesInv(Append(Front(s), a)) /\ Append(Front(s), a) # <<>>
           /\ Len(s) \in Nat \ {0} /\ Len(Append(Front(s), a)) = Len(s)
           /\ Append(Front(s), a)[Len(s)] = a
           /\ \A i \in 1 .. Len(s) - 1 : Append(Front(s), a)[i] = s[i]
           /\ HandlesOf(Append(Front(s), a)) =
                (HandlesOf(s) \ {Last(s).handle}) \cup ({a.handle} \ {0})
<1> DEFINE f == Front(s)
           t == Append(f, a)
           h == a.handle
<1>1. /\ IsSeq(f) /\ Len(f) = Len(s) - 1 /\ Len(s) \in Nat \ {0} /\ Distinct(f)
      /\ \A i \in 1 .. Len(s) - 1 : f[i] = s[i]
      /\ HandlesOf(f) = HandlesOf(s) \ {Last(s).handle}
    BY Popped DEF FramesInv
<1>2. a.handle = 0 \/ a.handle \notin HandlesOf(f)
    BY <1>1
<1> HIDE DEF f
<1>3. /\ IsSeq(t) /\ t # <<>> /\ Len(t) = Len(f) + 1 /\ Distinct(t)
      /\ \A i \in 1 .. Len(f) : t[i] = f[i]
      /\ t[Len(f) + 1] = a
      /\ HandlesOf(t) = HandlesOf(f) \cup ({h} \ {0})
    BY <1>1, <1>2, Pushed
<1> HIDE DEF t
<1>4. /\ Len(t) = Len(s) /\ t[Len(s)] = a
      /\ \A i \in 1 .. Len(s) - 1 : t[i] = s[i]
    BY <1>1, <1>3
<1>5. ASSUME NEW i \in 1 .. Len(t)
      PROVE  IsFrame(t[i]) /\ (i # 1 => t[i].name \notin {"walk", "remove"})
    <2>1. CASE i = Len(s)
        BY <1>1, <1>4, <2>1 DEF FramesInv, Last
    <2>2. CASE i # Len(s)
        BY <1>1, <1>4, <2>2 DEF FramesInv
    <2> QED BY <2>1, <2>2
<1> QED BY <1>1, <1>3, <1>4, <1>5 DEF FramesInv, f, t

\* A function calls another one, which is neither a walk nor a remove.
LEMMA FramePushed ==
    ASSUME NEW s, FramesInv(s), s # <<>>, NEW b, IsFrame(b), b.handle = 0,
           b.name \notin {"walk", "remove"}
    PROVE  /\ FramesInv(Append(s, b)) /\ Append(s, b) # <<>>
           /\ Len(s) \in Nat \ {0} /\ Len(Append(s, b)) = Len(s) + 1
           /\ \A i \in 1 .. Len(s) : Append(s, b)[i] = s[i]
           /\ HandlesOf(Append(s, b)) = HandlesOf(s)
<1> DEFINE t == Append(s, b)
           h == b.handle
<1>1. /\ IsSeq(t) /\ t # <<>> /\ Len(s) \in Nat /\ Len(t) = Len(s) + 1 /\ Distinct(t)
      /\ \A i \in 1 .. Len(s) : t[i] = s[i]
      /\ t[Len(s) + 1] = b
      /\ HandlesOf(t) = HandlesOf(s) \cup ({h} \ {0})
    BY Pushed DEF FramesInv
<1>2. Len(s) \in Nat \ {0}
    BY Popped DEF FramesInv
<1> HIDE DEF t
<1>3. ASSUME NEW i \in 1 .. Len(t)
      PROVE  IsFrame(t[i]) /\ (i # 1 => t[i].name \notin {"walk", "remove"})
    <2>1. CASE i = Len(s) + 1
        BY <1>1, <2>1
    <2>2. CASE i # Len(s) + 1
        BY <1>1, <2>2 DEF FramesInv
    <2> QED BY <2>1, <2>2
<1> QED BY <1>1, <1>2, <1>3 DEF FramesInv, t

\* A function returns.
LEMMA FramePopped ==
    ASSUME NEW s, FramesInv(s), s # <<>>
    PROVE  /\ FramesInv(Front(s)) /\ Len(Front(s)) = Len(s) - 1 /\ Len(s) \in Nat \ {0}
           /\ \A i \in 1 .. Len(s) - 1 : Front(s)[i] = s[i]
           /\ HandlesOf(Front(s)) = HandlesOf(s) \ {Last(s).handle}
<1> DEFINE t == Front(s)
<1>1. /\ IsSeq(t) /\ Len(t) = Len(s) - 1 /\ Len(s) \in Nat \ {0} /\ Distinct(t)
      /\ \A i \in 1 .. Len(s) - 1 : t[i] = s[i]
      /\ HandlesOf(t) = HandlesOf(s) \ {Last(s).handle}
    BY Popped DEF FramesInv
<1> HIDE DEF t
<1>2. ASSUME NEW i \in 1 .. Len(t)
      PROVE  IsFrame(t[i]) /\ (i # 1 => t[i].name \notin {"walk", "remove"})
    BY <1>1 DEF FramesInv
<1> QED BY <1>1, <1>2 DEF FramesInv, t

\* Who does not walk has no iterators but in frames.
LEMMA NotWalking ==
    ASSUME NEW k, ClientInv(k), k.frames # <<>>, Last(k.frames).name # "walk"
    PROVE  k.walk = <<>>
BY DEF ClientInv, WalkingInv, Last

-----------------------------------------------------------------------------
(* Handles *)

Reading(H) == {h \in DOMAIN H : H[h].read = "some"}
Own(k) == HandlesOf(k.frames) \cup HandlesOf(k.walk)

\* How many numbers there are from 1.
LEMMA FirstN ==
    ASSUME NEW n \in Nat
    PROVE  Cardinality(1 .. n) = n
<1>1. Cardinality(1 .. n) = IF 1 > n THEN 0 ELSE n - 1 + 1
    BY FS_Interval
<1> QED BY <1>1

\* A new handle differs from those that are open.
LEMMA NewHandleFacts ==
    ASSUME NEW H, HandlesInv(H)
    PROVE  NewHandle(H) \notin DOMAIN H /\ NewHandle(H) # 0
<1> DEFINE D == DOMAIN H
           n == Cardinality(D)
<1>1. IsFiniteSet(D) /\ n \in Nat
    BY FS_CardinalityType DEF HandlesInv
<1>2. \E h \in 1 .. n + 1 : h \notin D
    <2> SUFFICES ASSUME 1 .. n + 1 \subseteq D PROVE FALSE
        OBVIOUS
    <2> DEFINE m == n + 1
    <2>1. m \in Nat /\ m = n + 1
        BY <1>1
    <2> HIDE DEF m, n
    <2>2. Cardinality(1 .. m) = m
        BY <2>1, FirstN
    <2>3. Cardinality(1 .. m) <= n
        BY <1>1, <2>1, FS_Subset DEF n
    <2> QED BY <1>1, <2>1, <2>2, <2>3
<1>3. NewHandle(H) = CHOOSE h \in 1 .. n + 1 : h \notin D
    BY DEF NewHandle
<1> HIDE DEF D, n
<1>4. NewHandle(H) \in 1 .. n + 1 /\ NewHandle(H) \notin D
    BY <1>2, <1>3
<1> QED BY <1>1, <1>4 DEF D

\* A handle is opened.
LEMMA OpenedFacts ==
    ASSUME NEW H, HandlesInv(H), NEW left, NEW read
    PROVE  /\ HandlesInv(Opened(H, left, read))
           /\ Reading(Opened(H, left, read)) =
                Reading(H) \cup IF read = "some" THEN {NewHandle(H)} ELSE {}
<1> DEFINE n == NewHandle(H)
           G == Opened(H, left, read)
<1>1. n \notin DOMAIN H /\ n # 0
    BY NewHandleFacts
<1>2. /\ DOMAIN G = DOMAIN H \cup {n}
      /\ G[n] = [left |-> left, read |-> read]
      /\ \A h \in DOMAIN H : G[h] = H[h]
    BY <1>1 DEF Opened
<1> HIDE DEF n, G
<1>3. IsFiniteSet(DOMAIN G)
    BY <1>2, FS_AddElement DEF HandlesInv
<1>4. \A h \in DOMAIN G : G[h] = [left |-> G[h].left, read |-> G[h].read]
    BY <1>2 DEF HandlesInv
<1>5. Reading(G) = Reading(H) \cup IF read = "some" THEN {n} ELSE {}
    BY <1>1, <1>2 DEF Reading
<1> QED BY <1>1, <1>2, <1>3, <1>4, <1>5 DEF HandlesInv, n, G

\* Handles are closed.
LEMMA ClosedFacts ==
    ASSUME NEW H, HandlesInv(H), NEW hs
    PROVE  HandlesInv(Closed(H, hs)) /\ Reading(Closed(H, hs)) = Reading(H) \ hs
<1> DEFINE G == Closed(H, hs)
<1>1. DOMAIN G = DOMAIN H \ hs /\ \A h \in DOMAIN G : G[h] = H[h]
    BY DEF Closed
<1> HIDE DEF G
<1>2. IsFiniteSet(DOMAIN G)
    BY <1>1, FS_Subset DEF HandlesInv
<1>3. HandlesInv(G)
    BY <1>1, <1>2 DEF HandlesInv
<1>4. Reading(G) = Reading(H) \ hs
    BY <1>1 DEF Reading
<1> QED BY <1>3, <1>4 DEF G

\* An entry is read.
LEMMA TakenFacts ==
    ASSUME NEW H, HandlesInv(H), NEW n \in DOMAIN H, NEW left
    PROVE  /\ HandlesInv([H EXCEPT ![n].left = left])
           /\ Reading([H EXCEPT ![n].left = left]) = Reading(H)
<1> DEFINE G == [H EXCEPT ![n].left = left]
<1>1. DOMAIN G = DOMAIN H /\ \A h \in DOMAIN H \ {n} : G[h] = H[h]
    OBVIOUS
<1>2. G[n] = [left |-> left, read |-> H[n].read]
    BY DEF HandlesInv
<1> HIDE DEF G
<1>3. HandlesInv(G)
    BY <1>1, <1>2 DEF HandlesInv
<1>4. Reading(G) = Reading(H)
    BY <1>1, <1>2 DEF Reading
<1> QED BY <1>3, <1>4 DEF G

\* The end is read.
LEMMA EndedFacts ==
    ASSUME NEW H, HandlesInv(H), NEW n \in DOMAIN H
    PROVE  /\ HandlesInv([H EXCEPT ![n].read = "all"])
           /\ Reading([H EXCEPT ![n].read = "all"]) = Reading(H) \ {n}
<1> DEFINE G == [H EXCEPT ![n].read = "all"]
<1>1. DOMAIN G = DOMAIN H /\ \A h \in DOMAIN H \ {n} : G[h] = H[h]
    OBVIOUS
<1>2. G[n] = [left |-> H[n].left, read |-> "all"]
    BY DEF HandlesInv
<1> HIDE DEF G
<1>3. HandlesInv(G)
    BY <1>1, <1>2 DEF HandlesInv
<1>4. Reading(G) = Reading(H) \ {n}
    BY <1>1, <1>2 DEF Reading
<1> QED BY <1>3, <1>4 DEF G

\* What a client owns.
LEMMA OwnedIs ==
    ASSUME NEW c, ClientInv(client[c])
    PROVE  Owned(c) = Own(client[c])
<1> DEFINE s == client[c].frames
           w == client[c].walk
<1>1. IsSeq(s) /\ IsSeq(w)
    BY DEF ClientInv, FramesInv, IteratorsInv
<1>2. Owned(c) = ({f.handle : f \in ToSet(s)} \cup {i.handle : i \in ToSet(w)}) \ {0}
    BY DEF Owned
<1>3. Own(client[c]) = ({s[i].handle : i \in 1 .. Len(s)} \ {0}) \cup ({w[i].handle : i \in 1 .. Len(w)} \ {0})
    BY DEF Own, HandlesOf
<1> HIDE DEF s, w
<1>4. ToSet(s) = {s[i] : i \in 1 .. Len(s)} /\ ToSet(w) = {w[i] : i \in 1 .. Len(w)}
    BY <1>1, SeqFacts DEF IsSeq
<1> QED BY <1>2, <1>3, <1>4

\* A step of one client, after which the handles that it does not own are
\* the same as before.
LEMMA Accounts ==
    ASSUME Inv, NEW c \in Clients,
           DOMAIN client' = Clients, \A d \in Clients \ {c} : client'[d] = client[d],
           ClientInv(client'[c]), HandlesInv(handles'),
           Own(client'[c]) \subseteq Reading(handles'),
           Reading(handles') \ Own(client'[c]) = Reading(handles) \ Own(client[c])
    PROVE  Inv'
<1>1. \A d \in Clients : ClientInv(client[d]) /\ Owned(d) = Own(client[d])
    BY OwnedIs DEF Inv
<1>2. \A d \in Clients : ClientInv(client'[d])
    BY <1>1
<1>3. ASSUME NEW d \in Clients PROVE Owned(d)' = Own(client'[d])
    <2> DEFINE s == client'[d].frames
               w == client'[d].walk
    <2>1. IsSeq(s) /\ IsSeq(w)
        BY <1>2 DEF ClientInv, FramesInv, IteratorsInv
    <2>2. Owned(d)' = ({f.handle : f \in ToSet(s)} \cup {i.handle : i \in ToSet(w)}) \ {0}
        BY DEF Owned
    <2>3. Own(client'[d]) = ({s[i].handle : i \in 1 .. Len(s)} \ {0}) \cup ({w[i].handle : i \in 1 .. Len(w)} \ {0})
        BY DEF Own, HandlesOf
    <2> HIDE DEF s, w
    <2>4. ToSet(s) = {s[i] : i \in 1 .. Len(s)} /\ ToSet(w) = {w[i] : i \in 1 .. Len(w)}
        BY <2>1, SeqFacts DEF IsSeq
    <2> QED BY <2>2, <2>3, <2>4
<1>4. \A d \in Clients \ {c} : Own(client'[d]) = Own(client[d])
    OBVIOUS
<1> DEFINE R == Reading(handles)
           S == Reading(handles')
           O == [d \in Clients |-> Own(client[d])]
           P == [d \in Clients |-> Own(client'[d])]
<1>5. /\ \A d \in Clients : O[d] \subseteq R
      /\ \A d, e \in Clients : d # e => O[d] \cap O[e] = {}
      /\ \A h \in R : \E d \in Clients : h \in O[d]
    BY <1>1 DEF Inv, HandlesAccounted, Reading
<1>6. P[c] \subseteq S /\ S \ P[c] = R \ O[c] /\ \A d \in Clients \ {c} : P[d] = O[d]
    BY <1>4
<1> HIDE DEF R, S, O, P
<1>7. /\ \A d \in Clients : P[d] \subseteq S
      /\ \A d, e \in Clients : d # e => P[d] \cap P[e] = {}
      /\ \A h \in S : \E d \in Clients : h \in P[d]
    <2>1. \A d \in Clients \ {c} : O[d] \subseteq R \ O[c]
        BY <1>5
    <2>2. \A d \in Clients \ {c} : P[d] \subseteq S \ P[c]
        BY <1>6, <2>1
    <2>3. \A d, e \in Clients : d # e => P[d] \cap P[e] = {}
        BY <1>5, <1>6, <2>2
    <2>4. \A h \in S : \E d \in Clients : h \in P[d]
        BY <1>5, <1>6
    <2> QED BY <1>6, <2>2, <2>3, <2>4
<1>8. HandlesAccounted'
    <2>1. \A d \in Clients : P[d] = Owned(d)'
        BY <1>3 DEF P
    <2>2. S = {h \in DOMAIN handles' : handles'[h].read = "some"}
        BY DEF S, Reading
    <2> QED BY <1>7, <2>1, <2>2 DEF HandlesAccounted
<1> QED BY <1>2, <1>8 DEF Inv

-----------------------------------------------------------------------------
(* Calls and returns *)

\* What a client that is in a call is like.
LEMMA TopFacts ==
    ASSUME Inv, NEW c \in Clients, Busy(c)
    PROVE  /\ ClientInv(client[c]) /\ FramesInv(client[c].frames) /\ client[c].frames # <<>>
           /\ Len(client[c].frames) \in Nat \ {0}
           /\ Top(c) = Last(client[c].frames) /\ Top(c) = client[c].frames[Len(client[c].frames)]
           /\ IsFrame(Top(c))
           /\ Top(c).name \in {"walk", "remove"} => Len(client[c].frames) = 1
           /\ Top(c).name # "walk" \/ Top(c).at = "stat" => client[c].walk = <<>>
           /\ Own(client[c]) \subseteq Reading(handles)
           /\ HandlesInv(handles)
<1> DEFINE s == client[c].frames
<1>1. ClientInv(client[c]) /\ FramesInv(s) /\ s # <<>> /\ Top(c) = Last(s)
    BY DEF Inv, ClientInv, Busy, Top
<1>2. Len(s) \in Nat \ {0} /\ Top(c) = s[Len(s)]
    BY <1>1, FramePopped DEF Last
<1> HIDE DEF s
<1>3. IsFrame(Top(c)) /\ (Top(c).name \in {"walk", "remove"} => Len(s) = 1)
    <2>1. Len(s) \in 1 .. Len(s)
        BY <1>2
    <2>2. IsFrame(s[Len(s)]) /\ (Len(s) # 1 => s[Len(s)].name \notin {"walk", "remove"})
        BY <1>1, <2>1 DEF FramesInv
    <2> QED BY <1>2, <2>2
<1>4. Top(c).name # "walk" \/ Top(c).at = "stat" => client[c].walk = <<>>
    BY <1>1, <1>2, <1>3 DEF ClientInv, WalkingInv, s
<1>5. Own(client[c]) \subseteq Reading(handles)
    BY <1>1, OwnedIs DEF Inv, HandlesAccounted, Reading
<1> QED BY <1>1, <1>2, <1>3, <1>4, <1>5 DEF Inv, s

\* A frame that begins has no handle.
LEMMA FrameIs ==
    ASSUME NEW name, NEW from, NEW to, NEW options
    PROVE  /\ IsFrame(Frame(name, from, to, options))
           /\ Frame(name, from, to, options).handle = 0
           /\ Frame(name, from, to, options).name = name
BY DEF Frame, IsFrame, Iterating

\* A step of a client that leaves it with these frames and iterators.
Alters(c, frames, walk) ==
    /\ DOMAIN client' = Clients /\ \A d \in Clients \ {c} : client'[d] = client[d]
    /\ IsClient(client'[c]) /\ client'[c].todo = client[c].todo
    /\ client'[c].frames = frames /\ client'[c].walk = walk

\* Continue does so.
LEMMA ContinueAlters ==
    ASSUME Inv, NEW c \in Clients, NEW fs, Continue(c, fs)
    PROVE  Alters(c, Front(client[c].frames) \o fs, client[c].walk)
<1>1. DOMAIN client = Clients /\ IsClient(client[c])
    BY DEF Inv, ClientInv
<1> DEFINE r == Front(client[c].frames) \o fs
<1>2. client' = [client EXCEPT ![c] = [client[c] EXCEPT !.frames = r]]
    BY DEF Continue, Become
<1> HIDE DEF r
<1>3. /\ DOMAIN client' = Clients /\ \A d \in Clients \ {c} : client'[d] = client[d]
      /\ client'[c] = [client[c] EXCEPT !.frames = r]
    BY <1>1, <1>2
<1>4. /\ IsClient(client'[c]) /\ client'[c].todo = client[c].todo
      /\ client'[c].frames = r /\ client'[c].walk = client[c].walk
    BY <1>1, <1>3 DEF IsClient
<1> QED BY <1>3, <1>4 DEF Alters, r

\* The top of the frames becomes a, and may call b.
LEMMA ContinuedClient ==
    ASSUME Inv, NEW c \in Clients, Busy(c), Top(c).name = "walk" => Top(c).at = "stat",
           NEW a, IsFrame(a), a.name = Top(c).name \/ a.name \notin {"walk", "remove"},
           a.name = "walk" => a.at = "stat",
           a.handle \in {0, Top(c).handle} \/ a.handle \notin Own(client[c]),
           NEW b, IsFrame(b), b.handle = 0, b.name \notin {"walk", "remove"},
           NEW fs \in {<<a>>, <<a, b>>}, Alters(c, Front(client[c].frames) \o fs, client[c].walk)
    PROVE  /\ ClientInv(client'[c])
           /\ Own(client'[c]) = (Own(client[c]) \ {Top(c).handle}) \cup ({a.handle} \ {0})
<1> DEFINE s == client[c].frames
           f == Front(s)
           r == f \o fs
           t == Append(f, a)
           u == Append(t, b)
<1>1. /\ ClientInv(client[c]) /\ FramesInv(s) /\ s # <<>> /\ Top(c) = Last(s)
      /\ client[c].walk = <<>> /\ Len(s) \in Nat \ {0} /\ Top(c) = s[Len(s)]
    BY TopFacts
<1>2. IsSeq(f)
    BY <1>1, FramePopped DEF FramesInv
<1>3. r \in {t, u}
    <2> HIDE DEF f
    <2>1. f \o <<a>> = t /\ f \o <<a, b>> = u
        BY <1>2, Become3
    <2> QED BY <2>1
<1>4. /\ IsClient(client'[c]) /\ client'[c].frames = r /\ client'[c].walk = <<>>
      /\ client'[c].todo = client[c].todo
    BY <1>1 DEF Alters
<1>5. /\ FramesInv(t) /\ t # <<>> /\ Len(t) = Len(s) /\ t[Len(s)] = a
      /\ \A i \in 1 .. Len(s) - 1 : t[i] = s[i]
      /\ HandlesOf(t) = (HandlesOf(s) \ {Last(s).handle}) \cup ({a.handle} \ {0})
    <2>1. a.handle \in {0, Last(s).handle} \/ a.handle \notin HandlesOf(s)
        BY <1>1 DEF Own
    <2>2. FramesInv(s) /\ s # <<>> /\ (a.name = Last(s).name \/ a.name \notin {"walk", "remove"})
        BY <1>1
    <2> HIDE DEF s
    <2> QED BY <2>1, <2>2, FrameReplaced
<1>6. /\ FramesInv(u) /\ u # <<>> /\ Len(u) = Len(t) + 1
      /\ \A i \in 1 .. Len(t) : u[i] = t[i]
      /\ HandlesOf(u) = HandlesOf(t)
    <2> HIDE DEF t
    <2> QED BY <1>5, FramePushed
<1> HIDE DEF s, f, r, t, u
<1>7. FramesInv(r) /\ r # <<>> /\ HandlesOf(r) = HandlesOf(t)
    BY <1>3, <1>5, <1>6
<1>8. r[1].name = "walk" => r[1].at \notin {"visit"} \cup Looking
    <2>1. CASE Len(s) = 1
        <3>1. r[1] = a
            BY <1>3, <1>5, <1>6, <2>1
        <3> QED BY <3>1 DEF Looking
    <2>2. CASE Len(s) # 1
        <3>1. r[1] = s[1]
            BY <1>1, <1>3, <1>5, <1>6, <2>2
        <3> QED BY <1>1, <3>1 DEF ClientInv, WalkingInv, s
    <2> QED BY <2>1, <2>2
<1>9. ClientInv(client'[c])
    <2>1. WalkingInv(r, <<>>)
        BY <1>8 DEF WalkingInv
    <2> QED BY <1>1, <1>4, <1>7, <2>1 DEF ClientInv
<1>10. Own(client'[c]) = HandlesOf(r) /\ Own(client[c]) = HandlesOf(s)
    BY <1>1, <1>4, NoStack DEF Own, s
<1> QED BY <1>1, <1>5, <1>7, <1>9, <1>10

\* A function returns to its caller.
LEMMA ReturnedClient ==
    ASSUME Inv, NEW c \in Clients, Busy(c), Top(c).name # "walk", NEW value, Return(c, value)
    PROVE  /\ DOMAIN client' = Clients /\ \A d \in Clients \ {c} : client'[d] = client[d]
           /\ ClientInv(client'[c])
           /\ Own(client'[c]) = Own(client[c]) \ {Top(c).handle}
<1> DEFINE s == client[c].frames
           f == Front(s)
<1>1. /\ ClientInv(client[c]) /\ FramesInv(s) /\ s # <<>> /\ Top(c) = Last(s)
      /\ client[c].walk = <<>> /\ Len(s) \in Nat \ {0}
    BY TopFacts
<1>2. /\ FramesInv(f) /\ Len(f) = Len(s) - 1 /\ \A i \in 1 .. Len(s) - 1 : f[i] = s[i]
      /\ HandlesOf(f) = HandlesOf(s) \ {Last(s).handle}
    BY <1>1, FramePopped
<1>3. f \o <<>> = f
    BY <1>2, Become3 DEF FramesInv
<1>4. /\ client' = [client EXCEPT ![c] =
            [Become(c, <<>>) EXCEPT !.outcome = IF Len(client[c].frames) = 1 THEN value ELSE @]]
      /\ Become(c, <<>>) = [client[c] EXCEPT !.frames = f] /\ DOMAIN client = Clients
    BY <1>3 DEF Return, Become, Inv
<1> HIDE DEF s, f
<1>5. /\ DOMAIN client' = Clients /\ \A d \in Clients \ {c} : client'[d] = client[d]
      /\ client'[c] = [[client[c] EXCEPT !.frames = f]
                        EXCEPT !.outcome = IF Len(client[c].frames) = 1 THEN value ELSE @]
    BY <1>4
<1>6. /\ IsClient(client'[c]) /\ client'[c].frames = f /\ client'[c].walk = <<>>
      /\ client'[c].todo = client[c].todo
    BY <1>1, <1>5 DEF ClientInv, IsClient
<1>7. WalkingInv(f, <<>>)
    <2>1. CASE f = <<>>
        BY <2>1 DEF WalkingInv
    <2>2. CASE f # <<>>
        <3>1. Len(f) # 0
            BY <1>2, <2>2, Popped DEF FramesInv
        <3>2. f[1] = s[1] /\ s # <<>>
            BY <1>1, <1>2, <3>1
        <3> QED BY <1>1, <3>2 DEF ClientInv, WalkingInv, s
    <2> QED BY <2>1, <2>2
<1>8. ClientInv(client'[c])
    BY <1>1, <1>2, <1>6, <1>7 DEF ClientInv
<1>9. Own(client'[c]) = HandlesOf(f) /\ Own(client[c]) = HandlesOf(s)
    BY <1>1, <1>6, NoStack DEF Own, s
<1> QED BY <1>1, <1>2, <1>5, <1>8, <1>9

\* Something is thrown, or the process ends: the whole stack goes.
LEMMA UnwoundClient ==
    ASSUME Inv, NEW c \in Clients, NEW outcome, Unwinds(c, outcome)
    PROVE  /\ DOMAIN client' = Clients /\ \A d \in Clients \ {c} : client'[d] = client[d]
           /\ ClientInv(client'[c]) /\ Own(client'[c]) = {}
<1>1. ClientInv(client[c]) /\ DOMAIN client = Clients
    BY DEF Inv
<1>2. /\ DOMAIN client' = Clients /\ \A d \in Clients \ {c} : client'[d] = client[d]
      /\ client'[c] = [client[c] EXCEPT !.frames = <<>>, !.walk = <<>>, !.outcome = outcome]
    BY <1>1 DEF Unwinds
<1>3. /\ IsClient(client'[c]) /\ client'[c].frames = <<>> /\ client'[c].walk = <<>>
      /\ client'[c].todo = client[c].todo
    BY <1>1, <1>2 DEF ClientInv, IsClient
<1>4. FramesInv(<<>>) /\ IteratorsInv(<<>>) /\ WalkingInv(<<>>, <<>>)
    BY NoStack DEF FramesInv, IteratorsInv, WalkingInv
<1>5. ClientInv(client'[c])
    BY <1>1, <1>3, <1>4 DEF ClientInv
<1> QED BY <1>2, <1>3, <1>5, NoStack DEF Own

\* A throw that closes what the client owned.
LEMMA ThrowFromKeeps ==
    ASSUME Inv, NEW c \in Clients, NEW owned, NEW H, HandlesInv(H),
           Reading(H) \ owned = Reading(handles) \ Own(client[c]), ThrowFrom(c, owned, H)
    PROVE  Inv'
<1>1. HandlesInv(handles') /\ Reading(handles') = Reading(H) \ owned
    BY ClosedFacts DEF ThrowFrom
<1>2. Unwinds(c, "thrown")
    BY DEF ThrowFrom, Unwind
<1>3. UNCHANGED cat
    BY DEF ThrowFrom
<1> QED BY <1>1, <1>2, <1>3, UnwoundClient, Accounts

\* What is thrown closes what its client owned, whatever it was doing.
LEMMA ThrowKeeps ==
    ASSUME Inv, NEW c \in Clients, Throw(c)
    PROVE  Inv'
<1>1. HandlesInv(handles) /\ Owned(c) = Own(client[c])
    BY OwnedIs DEF Inv
<1> QED BY <1>1, ThrowFromKeeps DEF Throw

\* So does the process that ends.
LEMMA CrashKeeps == ASSUME Inv, NEW c \in Clients, Crash(c) PROVE Inv'
<1>1. HandlesInv(handles) /\ Owned(c) = Own(client[c])
    BY OwnedIs DEF Inv
<1>2. HandlesInv(handles') /\ Reading(handles') = Reading(handles) \ Own(client[c])
    BY <1>1, ClosedFacts DEF Crash
<1>3. Unwinds(c, "crashed") /\ UNCHANGED cat
    BY DEF Crash
<1> QED BY <1>2, <1>3, UnwoundClient, Accounts

\* A collection that cannot be opened, or whose first entry cannot be read.
LEMMA OpenFailsKeeps ==
    ASSUME Inv, NEW c \in Clients, NEW p, NEW owned, NEW H, HandlesInv(H),
           Reading(H) \ owned = Reading(handles) \ Own(client[c]), OpenFails(c, p, owned, H)
    PROVE  Inv'
<1>1. CASE ThrowFrom(c, owned, H)
    BY <1>1, ThrowFromKeeps
<1>2. CASE ThrowFrom(c, owned, Opened(H, Entries(p), "none"))
    <2> DEFINE G == Opened(H, Entries(p), "none")
    <2>1. HandlesInv(G) /\ Reading(G) = Reading(H)
        BY OpenedFacts
    <2> HIDE DEF G
    <2> QED BY <1>2, <2>1, ThrowFromKeeps DEF G
<1> QED BY <1>1, <1>2 DEF OpenFails

\* A function without a handle returns, and no handle is opened or closed.
LEMMA ReturnKeeps ==
    ASSUME Inv, NEW c \in Clients, Busy(c), Top(c).name # "walk", ~Iterating(Top(c)),
           NEW value, Return(c, value), UNCHANGED handles
    PROVE  Inv'
<1>1. Top(c).handle = 0
    BY TopFacts DEF IsFrame
<1>2. Own(client'[c]) = Own(client[c])
    BY <1>1, ReturnedClient DEF Own, HandlesOf
<1> QED BY <1>2, TopFacts, ReturnedClient, Accounts

\* A function without a handle goes on, or calls another one.
LEMMA AlterKeeps ==
    ASSUME Inv, NEW c \in Clients, Busy(c), ~Iterating(Top(c)),
           Top(c).name = "walk" => Top(c).at = "stat",
           NEW a, IsFrame(a), a.name = Top(c).name \/ a.name \notin {"walk", "remove"},
           a.name = "walk" => a.at = "stat", a.handle = 0,
           NEW b, IsFrame(b), b.handle = 0, b.name \notin {"walk", "remove"},
           NEW fs \in {<<a>>, <<a, b>>}, Alters(c, Front(client[c].frames) \o fs, client[c].walk),
           UNCHANGED handles
    PROVE  Inv'
<1>1. Top(c).handle = 0
    BY TopFacts DEF IsFrame
<1>2. /\ ClientInv(client'[c])
      /\ Own(client'[c]) = (Own(client[c]) \ {Top(c).handle}) \cup ({a.handle} \ {0})
    BY ContinuedClient
<1>3. Own(client'[c]) = Own(client[c])
    BY <1>1, <1>2 DEF Own, HandlesOf
<1> QED BY <1>2, <1>3, TopFacts, Accounts DEF Alters

\* The same with a frame that calls no other one.
LEMMA GoesOn ==
    ASSUME Inv, NEW c \in Clients, Busy(c), ~Iterating(Top(c)),
           Top(c).name = "walk" => Top(c).at = "stat",
           NEW a, IsFrame(a), a.name = Top(c).name \/ a.name \notin {"walk", "remove"},
           a.name = "walk" => a.at = "stat", a.handle = 0, Continue(c, <<a>>),
           UNCHANGED handles
    PROVE  Inv'
<1> DEFINE b == Frame("copy", <<>>, <<>>, {})
<1>1. IsFrame(b) /\ b.handle = 0 /\ b.name \notin {"walk", "remove"}
    BY FrameIs
<1> HIDE DEF b
<1> QED BY <1>1, ContinueAlters, AlterKeeps

\* A request that changes the catalog, and ends the function.
LEMMA CallKeeps ==
    ASSUME Inv, NEW c \in Clients, Busy(c), Top(c).name # "walk", ~Iterating(Top(c)),
           NEW admitted, NEW C, Call(c, admitted, C) \/ CallOrFalse(c, admitted, C)
    PROVE  Inv'
BY ReturnKeeps, ThrowKeeps DEF Call, CallOrFalse, NoChange

-----------------------------------------------------------------------------
(* The functions that read and change the catalog *)

\* A frame without a handle that is at another step has none either, unless
\* its loop begins.
LEMMA FrameMoved ==
    ASSUME NEW f, IsFrame(f), ~Iterating(f), NEW step, f.name = "copy" => step # "next"
    PROVE  /\ IsFrame([f EXCEPT !.at = step]) /\ [f EXCEPT !.at = step].handle = 0
           /\ [f EXCEPT !.at = step].name = f.name /\ [f EXCEPT !.at = step].at = step
BY DEF IsFrame, Iterating

\* throw_if_path_length_exceeds_limit, and the status calls.
LEMMA StatKeeps == ASSUME Inv, NEW c \in Clients, Stat(c) PROVE Inv'
<1> DEFINE f == Top(c)
           look == Look(Lookups(f)[Len(f.seen) + 1])
           a == [f EXCEPT !.seen = Append(@, look)]
<1>1. Busy(c) /\ f.at = "stat" /\ ((Continue(c, <<a>>) /\ NoChange) \/ Crash(c) \/ Throw(c))
    BY DEF Stat
<1> HIDE DEF look
<1>2. IsFrame(f) /\ ~Iterating(f) /\ f.handle = 0
    BY <1>1, TopFacts DEF IsFrame, Iterating
<1>3. IsFrame(a) /\ a.name = f.name /\ a.at = "stat" /\ a.handle = 0
    <2> DEFINE seen == Append(f.seen, look)
    <2>1. a = [f EXCEPT !.seen = seen]
        OBVIOUS
    <2> HIDE DEF f, a, seen
    <2> QED BY <1>1, <1>2, <2>1 DEF IsFrame, Iterating
<1> HIDE DEF a
<1> QED BY <1>1, <1>2, <1>3, GoesOn, CrashKeeps, ThrowKeeps DEF NoChange

\* copy before its loop.
LEMMA CopyBeginsKeeps ==
    ASSUME Inv, NEW c \in Clients, CopyThrows(c) \/ CopyOfDataObject(c) \/ CopyOfCollection(c)
    PROVE  Inv'
<1> DEFINE f == Top(c)
<1>1. CASE CopyThrows(c)
    BY <1>1, ThrowKeeps DEF CopyThrows
<1>2. CASE CopyOfDataObject(c)
    <2> DEFINE target == IF f.seen[2].kind = "coll" THEN Append(f.to, Last(f.from)) ELSE f.to
               a == Frame("copy_data_object", f.from, target, f.options)
    <2>1. /\ Busy(c) /\ f.name = "copy" /\ f.at = "stat" /\ UNCHANGED handles
          /\ Return(c, "true") \/ Continue(c, <<a>>)
        BY <1>2 DEF CopyOfDataObject, Ready, At, NoChange
    <2>2. IsFrame(a) /\ a.handle = 0 /\ a.name = "copy_data_object"
        BY FrameIs
    <2> HIDE DEF a
    <2> QED BY <2>1, <2>2, ReturnKeeps, GoesOn DEF Iterating
<1>3. CASE CopyOfCollection(c)
    <2> DEFINE a == [f EXCEPT !.at = "open"]
               b == Frame("create_collection_like", f.to, f.from, {})
    <2>1. /\ Busy(c) /\ f.name = "copy" /\ f.at = "stat" /\ UNCHANGED handles
          /\ Return(c, "true") \/ Continue(c, <<a>>) \/ Continue(c, <<a, b>>)
        BY <1>3 DEF CopyOfCollection, Ready, At, NoChange
    <2>2. IsFrame(f) /\ ~Iterating(f)
        BY <2>1, TopFacts DEF Iterating
    <2>3. IsFrame(a) /\ a.handle = 0 /\ a.name = "copy"
        BY <2>1, <2>2, FrameMoved
    <2>4. IsFrame(b) /\ b.handle = 0 /\ b.name \notin {"walk", "remove"}
        BY FrameIs
    <2> HIDE DEF f, a, b
    <2>5. CASE Return(c, "true")
        BY <2>1, <2>2, <2>5, ReturnKeeps DEF f
    <2>6. CASE Continue(c, <<a>>)
        BY <2>1, <2>2, <2>3, <2>6, GoesOn DEF f
    <2>7. CASE Continue(c, <<a, b>>)
        BY <2>1, <2>2, <2>3, <2>4, <2>7, ContinueAlters, AlterKeeps DEF f
    <2> QED BY <2>1, <2>5, <2>6, <2>7
<1> QED BY <1>1, <1>2, <1>3

\* The call that the loop of copy makes for a child.
LEMMA ChildFacts ==
    ASSUME NEW f, NEW e
    PROVE  /\ IsFrame(CopyOfChild(f, e)) /\ CopyOfChild(f, e).handle = 0
           /\ CopyOfChild(f, e).name = "copy"
BY FrameIs DEF CopyOfChild

\* The loop of copy begins: the collection is empty, or its handle is the
\* iterator's, or it is lost.
LEMMA CopyOpenKeeps == ASSUME Inv, NEW c \in Clients, CopyOpen(c) PROVE Inv'
<1> DEFINE f == Top(c)
           entries == Entries(f.from)
           n == NewHandle(handles)
<1>1. Busy(c) /\ f.name = "copy" /\ f.at = "open"
    BY DEF CopyOpen, At
<1>2. IsFrame(f) /\ ~Iterating(f) /\ f.handle = 0 /\ HandlesInv(handles)
    BY <1>1, TopFacts DEF IsFrame, Iterating
<1>3. CASE handles' = Opened(handles, {}, "all") /\ Return(c, "true")
    <2>1. HandlesInv(handles') /\ Reading(handles') = Reading(handles)
        BY <1>2, <1>3, OpenedFacts
    <2>2. Own(client'[c]) = Own(client[c])
        BY <1>1, <1>2, <1>3, ReturnedClient DEF Own, HandlesOf
    <2> QED BY <1>1, <1>3, <2>1, <2>2, TopFacts, ReturnedClient, Accounts
<1>4. ASSUME NEW e \in entries, handles' = Opened(handles, entries \ {e}, "some"),
             Continue(c, <<[f EXCEPT !.at = "next", !.handle = n], CopyOfChild(f, e)>>)
      PROVE  Inv'
    <2> DEFINE a == [f EXCEPT !.at = "next", !.handle = n]
               b == CopyOfChild(f, e)
               fs == <<a, b>>
    <2>1. n \notin DOMAIN handles /\ n # 0
        BY <1>2, NewHandleFacts
    <2>2. HandlesInv(handles') /\ Reading(handles') = Reading(handles) \cup {n}
        BY <1>2, <1>4, OpenedFacts
    <2>3. IsFrame(b) /\ b.handle = 0 /\ b.name \notin {"walk", "remove"}
        BY ChildFacts
    <2>4. Own(client[c]) \subseteq Reading(handles) /\ n \notin Own(client[c])
        BY <1>1, <2>1, TopFacts DEF Reading
    <2> HIDE DEF f, b, n
    <2>5. IsFrame(a) /\ a.name = "copy" /\ a.handle = n
        <3> DEFINE m == [f EXCEPT !.at = "next"]
        <3>1. m = [name |-> f.name, from |-> f.from, to |-> f.to, options |-> f.options,
                   at |-> "next", seen |-> f.seen, handle |-> f.handle]
            BY <1>2 DEF IsFrame
        <3>2. a = [m EXCEPT !.handle = n]
            BY <1>2 DEF IsFrame
        <3> HIDE DEF m
        <3>3. a = [name |-> f.name, from |-> f.from, to |-> f.to, options |-> f.options,
                   at |-> "next", seen |-> f.seen, handle |-> n]
            BY <3>1, <3>2
        <3> HIDE DEF a
        <3>4. a.name = "copy" /\ a.at = "next" /\ a.handle = n /\ a.from = f.from
              /\ a.to = f.to /\ a.options = f.options /\ a.seen = f.seen
            BY <1>1, <3>3
        <3> QED BY <2>1, <3>3, <3>4 DEF IsFrame, Iterating
    <2>6. Alters(c, Front(client[c].frames) \o fs, client[c].walk)
        BY <1>4, ContinueAlters DEF b
    <2> HIDE DEF a
    <2>7. /\ ClientInv(client'[c])
          /\ Own(client'[c]) = (Own(client[c]) \ {f.handle}) \cup ({a.handle} \ {0})
        BY <1>1, <2>3, <2>4, <2>5, <2>6, ContinuedClient DEF f
    <2>8. Own(client'[c]) = Own(client[c]) \cup {n}
        BY <1>2, <2>1, <2>5, <2>7 DEF Own, HandlesOf
    <2>9. n \notin Reading(handles)
        BY <2>1 DEF Reading
    <2> QED BY <2>2, <2>4, <2>6, <2>7, <2>8, <2>9, Accounts DEF Alters
<1>5. CASE OpenFails(c, f.from, Owned(c), handles)
    <2>1. Owned(c) = Own(client[c])
        BY OwnedIs DEF Inv
    <2> HIDE DEF f
    <2> QED BY <1>2, <1>5, <2>1, OpenFailsKeeps
<1> QED BY <1>3, <1>4, <1>5 DEF CopyOpen

\* Each turn of the loop reads an entry, and the last one closes the handle.
LEMMA CopyNextKeeps == ASSUME Inv, NEW c \in Clients, CopyNext(c) PROVE Inv'
<1> DEFINE f == Top(c)
           n == f.handle
           left == handles[n].left
<1>1. Busy(c) /\ f.name = "copy" /\ f.at = "next"
    BY DEF CopyNext, At
<1>2. /\ IsFrame(f) /\ n # 0 /\ HandlesInv(handles)
      /\ Own(client[c]) \subseteq Reading(handles)
    BY <1>1, TopFacts DEF IsFrame, Iterating
<1>3. n \in Own(client[c])
    <2> DEFINE s == client[c].frames
    <2>1. Len(s) \in 1 .. Len(s) /\ f = s[Len(s)]
        BY <1>1, TopFacts
    <2>2. HandlesOf(s) \subseteq Own(client[c])
        BY DEF Own
    <2> HIDE DEF s, f
    <2>3. n \in HandlesOf(s)
        BY <1>2, <2>1 DEF HandlesOf
    <2> QED BY <2>2, <2>3
<1>4. CASE handles' = Closed(handles, {n}) /\ Return(c, "true")
    <2>1. HandlesInv(handles') /\ Reading(handles') = Reading(handles) \ {n}
        BY <1>2, <1>4, ClosedFacts
    <2>2. /\ DOMAIN client' = Clients /\ \A d \in Clients \ {c} : client'[d] = client[d]
          /\ ClientInv(client'[c])
          /\ Own(client'[c]) = Own(client[c]) \ {n}
        BY <1>1, <1>4, ReturnedClient
    <2> QED BY <1>2, <1>3, <2>1, <2>2, Accounts
<1>5. ASSUME NEW e \in left, handles' = [handles EXCEPT ![n].left = left \ {e}],
             Continue(c, <<f, CopyOfChild(f, e)>>)
      PROVE  Inv'
    <2> DEFINE b == CopyOfChild(f, e)
               fs == <<f, b>>
    <2>1. n \in DOMAIN handles
        BY <1>2, <1>3 DEF Reading
    <2>2. HandlesInv(handles') /\ Reading(handles') = Reading(handles)
        BY <1>2, <1>5, <2>1, TakenFacts
    <2>3. IsFrame(b) /\ b.handle = 0 /\ b.name \notin {"walk", "remove"}
        BY ChildFacts
    <2> HIDE DEF b
    <2>4. Alters(c, Front(client[c].frames) \o fs, client[c].walk)
        BY <1>5, ContinueAlters DEF b
    <2> HIDE DEF f
    <2>5. /\ ClientInv(client'[c])
          /\ Own(client'[c]) = (Own(client[c]) \ {f.handle}) \cup ({f.handle} \ {0})
        BY <1>1, <1>2, <2>3, <2>4, ContinuedClient DEF f
    <2>6. Own(client'[c]) = Own(client[c])
        BY <1>2, <1>3, <2>5
    <2> QED BY <1>2, <2>2, <2>4, <2>5, <2>6, Accounts DEF Alters
<1>6. CASE Throw(c)
    BY <1>6, ThrowKeeps
<1> QED BY <1>4, <1>5, <1>6 DEF CopyNext

\* Functions that look, and then end with one call of the API.
LEMMA EndsKeep ==
    ASSUME Inv, NEW c \in Clients, NEW name, Ready(c, name), name # "walk",
           NEW value, NEW admitted, NEW C,
           \/ Throw(c)
           \/ Return(c, value) /\ NoChange
           \/ Call(c, admitted, C)
           \/ CallOrFalse(c, admitted, C)
    PROVE  Inv'
<1>1. Busy(c) /\ Top(c).name # "walk" /\ ~Iterating(Top(c))
    BY DEF Ready, At, Iterating
<1> QED BY <1>1, ThrowKeeps, ReturnKeeps, CallKeeps DEF NoChange

\* copy_data_object has no iterator.
LEMMA CopyDataObjectKeeps == ASSUME Inv, NEW c \in Clients, CopyDataObject(c) PROVE Inv'
<1> DEFINE f == Top(c)
           object == IF Is(f.to, "data") THEN [cat[f.to] EXCEPT !.data = Look(f.from).data, !.mtime = 2]
                                         ELSE NewObject("data", Look(f.from).data)
           admitted == /\ Is(f.from, "data")
                       /\ \/ ~Found(Look(f.to)) /\ Is(Parent(f.to), "coll")
                          \/ Is(f.to, "data") /\ ForceFlag(f)
           C == With(f.to, object)
<1>1. /\ Ready(c, "copy_data_object")
      /\ Throw(c) \/ (Return(c, "false") /\ NoChange) \/ Call(c, admitted, C)
    BY DEF CopyDataObject
<1> HIDE DEF admitted, C
<1> QED BY <1>1, EndsKeep

-----------------------------------------------------------------------------
(* Creating, removing, renaming and setting attributes *)

\* create_collection, create_collections, and the likeness of a collection.
LEMMA CreatingKeeps == ASSUME Inv, NEW c \in Clients, Creating(c) PROVE Inv'
<1> DEFINE f == Top(c)
<1>1. CASE CreateCollection(c)
    <2> DEFINE admitted == ~Found(Look(f.from)) /\ Is(Parent(f.from), "coll")
               C == With(f.from, NewObject("coll", 0))
    <2>1. /\ Ready(c, "create_collection")
          /\ Throw(c) \/ (Return(c, "false") /\ NoChange) \/ Call(c, admitted, C)
        BY <1>1 DEF CreateCollection
    <2> HIDE DEF admitted, C
    <2> QED BY <2>1, EndsKeep
<1>2. CASE CreateCollectionLike(c)
    <2> DEFINE model == [f.seen[1] EXCEPT !.perms = PermissionsOf(f.to)]
               seen == <<model>>
               a == [f EXCEPT !.at = "permissions", !.seen = seen]
               b == Frame("create_collection", f.from, <<>>, {})
    <2>1. /\ Busy(c) /\ f.name = "create_collection_like" /\ f.at = "stat"
          /\ Throw(c) \/ (Continue(c, <<a, b>>) /\ UNCHANGED handles)
        BY <1>2 DEF CreateCollectionLike, Ready, At, NoChange
    <2>2. IsFrame(f) /\ ~Iterating(f)
        BY <2>1, TopFacts DEF Iterating
    <2> HIDE DEF seen, f
    <2>3. IsFrame(a) /\ a.handle = 0 /\ a.name = "create_collection_like"
        <3> DEFINE m == [f EXCEPT !.at = "permissions"]
        <3>1. m = [name |-> f.name, from |-> f.from, to |-> f.to, options |-> f.options,
                   at |-> "permissions", seen |-> f.seen, handle |-> f.handle]
            BY <2>2 DEF IsFrame
        <3>2. a = [m EXCEPT !.seen = seen]
            BY <2>2 DEF IsFrame
        <3> HIDE DEF m
        <3>3. a = [name |-> f.name, from |-> f.from, to |-> f.to, options |-> f.options,
                   at |-> "permissions", seen |-> seen, handle |-> f.handle]
            BY <3>1, <3>2
        <3> HIDE DEF a
        <3>4. a.name = f.name /\ a.at = "permissions" /\ a.handle = f.handle /\ a.from = f.from
              /\ a.to = f.to /\ a.options = f.options /\ a.seen = seen
            BY <3>3
        <3> QED BY <2>1, <2>2, <3>3, <3>4 DEF IsFrame, Iterating
    <2>4. IsFrame(b) /\ b.handle = 0 /\ b.name \notin {"walk", "remove"}
        BY FrameIs
    <2> HIDE DEF a, b
    <2> QED BY <2>1, <2>2, <2>3, <2>4, ContinueAlters, AlterKeeps, ThrowKeeps DEF f
<1>3. CASE CreatedLike(c)
    <2> DEFINE C == With(f.from, [Look(f.from) EXCEPT !.perms = f.seen[1].perms])
    <2>1. /\ Busy(c) /\ f.name = "create_collection_like" /\ Call(c, Found(Look(f.from)), C)
        BY <1>3 DEF CreatedLike, At
    <2> HIDE DEF C
    <2> QED BY <2>1, CallKeeps DEF Iterating
<1>4. CASE CreateCollections(c)
    <2> DEFINE line == {SubSeq(f.from, 1, n) : n \in 1..Len(f.from)}
               admitted == ~Found(Look(f.from)) /\ \A p \in line : ~Is(p, "data")
               C == [p \in DOMAIN cat \cup line |->
                        IF p \in DOMAIN cat THEN cat[p]
                        ELSE [NewObject("coll", 0) EXCEPT !.id = @ + Len(p)]]
    <2>1. /\ Ready(c, "create_collections")
          /\ Throw(c) \/ (Return(c, "false") /\ NoChange) \/ CallOrFalse(c, admitted, C)
        BY <1>4 DEF CreateCollections
    <2> HIDE DEF admitted, C
    <2> QED BY <2>1, EndsKeep
<1> QED BY <1>1, <1>2, <1>3, <1>4 DEF Creating

\* remove_all counts, and goes on.
LEMMA CountKeeps ==
    ASSUME Inv, NEW c \in Clients, Busy(c), Top(c).name = "remove", NEW step, NEW count,
           client' = [client EXCEPT ![c] =
                [Become(c, <<[Top(c) EXCEPT !.at = step]>>) EXCEPT !.count = count]],
           UNCHANGED handles
    PROVE  Inv'
<1> DEFINE f == Top(c)
           a == [f EXCEPT !.at = step]
           b == Frame("copy", <<>>, <<>>, {})
           fs == <<a>>
           r == Front(client[c].frames) \o fs
           k == client[c]
<1>1. IsFrame(f) /\ ~Iterating(f) /\ IsClient(k) /\ DOMAIN client = Clients
    BY TopFacts DEF Iterating, Inv, ClientInv
<1>2. IsFrame(a) /\ a.handle = 0 /\ a.name = "remove"
    BY <1>1, FrameMoved
<1>3. IsFrame(b) /\ b.handle = 0 /\ b.name \notin {"walk", "remove"}
    BY FrameIs
<1>4. client' = [client EXCEPT ![c] = [[k EXCEPT !.frames = r] EXCEPT !.count = count]]
    BY DEF Become
<1> HIDE DEF f, a, b, r, k
<1>5. /\ DOMAIN client' = Clients /\ \A d \in Clients \ {c} : client'[d] = client[d]
      /\ client'[c] = [[k EXCEPT !.frames = r] EXCEPT !.count = count]
    BY <1>1, <1>4
<1>6. /\ IsClient(client'[c]) /\ client'[c].todo = k.todo
      /\ client'[c].frames = r /\ client'[c].walk = k.walk
    BY <1>1, <1>5 DEF IsClient
<1>7. Alters(c, Front(client[c].frames) \o fs, client[c].walk)
    BY <1>5, <1>6 DEF Alters, r, k
<1> QED BY <1>1, <1>2, <1>3, <1>7, AlterKeeps DEF f

\* is_collection_empty opens a handle for good.
LEMMA RemoveProbeKeeps == ASSUME Inv, NEW c \in Clients, RemoveProbe(c) PROVE Inv'
<1> DEFINE f == Top(c)
           a == [f EXCEPT !.at = "empty"]
           b == Frame("copy", <<>>, <<>>, {})
           fs == <<a>>
<1>1. Busy(c) /\ f.name = "remove" /\ f.at = "stat"
    BY DEF RemoveProbe, Ready, At
<1>2. /\ IsFrame(f) /\ ~Iterating(f) /\ f.handle = 0 /\ HandlesInv(handles)
      /\ Own(client[c]) \subseteq Reading(handles)
    BY <1>1, TopFacts DEF IsFrame, Iterating
<1>3. CASE handles' = Opened(handles, {}, "all") /\ Continue(c, fs)
    <2>1. IsFrame(a) /\ a.handle = 0 /\ a.name = "remove"
        BY <1>1, <1>2, FrameMoved
    <2>2. IsFrame(b) /\ b.handle = 0 /\ b.name \notin {"walk", "remove"}
        BY FrameIs
    <2>3. Alters(c, Front(client[c].frames) \o fs, client[c].walk)
        BY <1>3, ContinueAlters
    <2>4. HandlesInv(handles') /\ Reading(handles') = Reading(handles)
        BY <1>2, <1>3, OpenedFacts
    <2> HIDE DEF f, a, b
    <2>5. /\ ClientInv(client'[c])
          /\ Own(client'[c]) = (Own(client[c]) \ {f.handle}) \cup ({a.handle} \ {0})
        BY <1>1, <1>2, <2>1, <2>2, <2>3, ContinuedClient DEF f
    <2>6. Own(client'[c]) = Own(client[c])
        BY <1>2, <2>1, <2>5 DEF Own, HandlesOf
    <2> QED BY <1>2, <2>3, <2>4, <2>5, <2>6, Accounts DEF Alters
<1>4. CASE OpenFails(c, f.from, {}, handles)
    <2>1. Own(client[c]) = {}
        <3> DEFINE s == client[c].frames
        <3>1. Len(s) = 1 /\ f = s[Len(s)] /\ client[c].walk = <<>>
            BY <1>1, TopFacts
        <3>2. Own(client[c]) = HandlesOf(s)
            BY <3>1, NoStack DEF Own
        <3> HIDE DEF s, f
        <3> QED BY <1>2, <3>1, <3>2 DEF HandlesOf
    <2> HIDE DEF f
    <2> QED BY <1>2, <1>4, <2>1, OpenFailsKeeps
<1> QED BY <1>3, <1>4 DEF RemoveProbe

\* remove and remove_all.
LEMMA RemovingKeeps == ASSUME Inv, NEW c \in Clients, Removing(c) PROVE Inv'
<1> DEFINE f == Top(c)
<1>1. CASE CountDataObjects(c)
    BY <1>1, CountKeeps, ThrowKeeps DEF CountDataObjects, At, NoChange
<1>2. CASE CountCollections(c)
    <2> DEFINE count == client[c].count + Cardinality(LikeCollections(f.from))
    <2>1. /\ Busy(c) /\ f.name = "remove" /\ f.at = "count collections"
          /\ \/ Return(c, "false") /\ UNCHANGED handles
             \/ /\ client' = [client EXCEPT ![c] =
                        [Become(c, <<[f EXCEPT !.at = "stat"]>>) EXCEPT !.count = count]]
                /\ UNCHANGED handles
             \/ Throw(c)
        BY <1>2 DEF CountCollections, At, NoChange
    <2> HIDE DEF count
    <2> QED BY <2>1, CountKeeps, ReturnKeeps, ThrowKeeps DEF Iterating
<1>3. CASE RemoveEnds(c)
    BY <1>3, EndsKeep DEF RemoveEnds
<1>4. CASE RemoveDataObject(c)
    <2> DEFINE C == Without({f.from})
    <2>1. Ready(c, "remove") /\ CallOrFalse(c, Is(f.from, "data"), C)
        BY <1>4 DEF RemoveDataObject
    <2> HIDE DEF C
    <2> QED BY <2>1, EndsKeep
<1>5. CASE RemoveCollection(c)
    <2> DEFINE admitted == /\ Is(f.from, "coll")
                           /\ "recursive" \in f.options \/ Children(cat, f.from) = {}
               C == Without(Tree(cat, f.from))
    <2>1. Busy(c) /\ f.name = "remove" /\ CallOrFalse(c, admitted, C)
        BY <1>5 DEF RemoveCollection, Ready, At
    <2> HIDE DEF admitted, C
    <2> QED BY <2>1, CallKeeps DEF Iterating
<1> QED BY <1>1, <1>2, <1>3, <1>4, <1>5, RemoveProbeKeeps DEF Removing

\* rename.
LEMMA RenameKeeps == ASSUME Inv, NEW c \in Clients, Rename(c) PROVE Inv'
<1> DEFINE f == Top(c)
           admitted == /\ Found(Look(f.from)) /\ Is(Parent(f.to), "coll")
                       /\ \/ ~Found(Look(f.to))
                          \/ Is(f.to, Look(f.from).kind) /\ Children(cat, f.to) = {}
           C == Renamed(f.from, f.to)
<1>1. /\ Ready(c, "rename")
      /\ Throw(c) \/ (Return(c, "true") /\ NoChange) \/ Call(c, admitted, C)
    BY DEF Rename
<1> HIDE DEF admitted, C
<1> QED BY <1>1, EndsKeep

\* The functions that set an attribute.
LEMMA UpdatingKeeps == ASSUME Inv, NEW c \in Clients, Updating(c) PROVE Inv'
<1>1. ASSUME NEW name, name # "walk", NEW kinds, NEW field, NEW value,
             Update(c, name, kinds, field, value)
      PROVE  Inv'
    <2> DEFINE f == Top(c)
               kind == IF name = "permissions" THEN Look(f.from).kind ELSE f.seen[1].kind
               C == With(f.from, [Look(f.from) EXCEPT ![field] = value])
    <2>1. Ready(c, name) /\ (Throw(c) \/ Call(c, Is(f.from, kind), C))
        BY <1>1 DEF Update
    <2> HIDE DEF kind, C
    <2> QED BY <1>1, <2>1, EndsKeep
<1>2. CASE DataObjectChecksum(c)
    <2> DEFINE f == Top(c)
               a == [f EXCEPT !.at = "query"]
    <2>1. /\ Busy(c) /\ f.name = "data_object_checksum"
          /\ Throw(c) \/ (Continue(c, <<a>>) /\ UNCHANGED handles)
        BY <1>2 DEF DataObjectChecksum, Ready, At
    <2>2. IsFrame(f) /\ ~Iterating(f)
        BY <2>1, TopFacts DEF Iterating
    <2>3. IsFrame(a) /\ a.handle = 0 /\ a.name = "data_object_checksum"
        BY <2>1, <2>2, FrameMoved
    <2> HIDE DEF f, a
    <2> QED BY <2>1, <2>2, <2>3, GoesOn, ThrowKeeps DEF f
<1>3. CASE QueryChecksums(c)
    <2>1. /\ Busy(c) /\ Top(c).name = "data_object_checksum"
          /\ Throw(c) \/ (Return(c, "true") /\ NoChange)
        BY <1>3 DEF QueryChecksums, At
    <2> QED BY <2>1, ReturnKeeps, ThrowKeeps DEF Iterating, NoChange
<1> QED BY <1>1, <1>2, <1>3 DEF Updating, LastWriteTime, Permissions, SetMetadata, RemoveMetadata

-----------------------------------------------------------------------------
(* The walk *)

\* The iterator at the top is taken off the stack of a walk.
LEMMA IteratorPopped ==
    ASSUME NEW s, IteratorsInv(s), s # <<>>
    PROVE  /\ IteratorsInv(Front(s)) /\ Len(Front(s)) = Len(s) - 1 /\ Len(s) \in Nat \ {0}
           /\ HandlesOf(Front(s)) = HandlesOf(s) \ {Last(s).handle}
<1> DEFINE t == Front(s)
<1>1. /\ IsSeq(t) /\ Len(t) = Len(s) - 1 /\ Len(s) \in Nat \ {0} /\ Distinct(t)
      /\ \A i \in 1 .. Len(s) - 1 : t[i] = s[i]
      /\ HandlesOf(t) = HandlesOf(s) \ {Last(s).handle}
    BY Popped DEF IteratorsInv
<1> HIDE DEF t
<1>2. \A i \in 1 .. Len(t) : IsIterator(t[i])
    BY <1>1 DEF IteratorsInv
<1> QED BY <1>1, <1>2 DEF IteratorsInv, t

\* An iterator over a collection below is put on it.
LEMMA IteratorPushed ==
    ASSUME NEW s, IteratorsInv(s), NEW a, IsIterator(a),
           a.handle = 0 \/ a.handle \notin HandlesOf(s)
    PROVE  /\ IteratorsInv(Append(s, a)) /\ Append(s, a) # <<>>
           /\ Append(s, a)[Len(Append(s, a))] = a
           /\ HandlesOf(Append(s, a)) = HandlesOf(s) \cup ({a.handle} \ {0})
<1> DEFINE t == Append(s, a)
           h == a.handle
<1>1. /\ IsSeq(t) /\ t # <<>> /\ Len(s) \in Nat /\ Len(t) = Len(s) + 1 /\ Distinct(t)
      /\ \A i \in 1 .. Len(s) : t[i] = s[i]
      /\ t[Len(s) + 1] = a
      /\ HandlesOf(t) = HandlesOf(s) \cup ({h} \ {0})
    BY Pushed DEF IteratorsInv
<1> HIDE DEF t
<1>2. \A i \in 1 .. Len(t) : IsIterator(t[i])
    <2> TAKE i \in 1 .. Len(t)
    <2>1. CASE i = Len(s) + 1
        BY <1>1, <2>1
    <2>2. CASE i # Len(s) + 1
        BY <1>1, <2>2 DEF IteratorsInv
    <2> QED BY <2>1, <2>2
<1> QED BY <1>1, <1>2 DEF IteratorsInv, t

\* What a client that walks is like.
LEMMA WalkFacts ==
    ASSUME Inv, NEW c \in Clients, Busy(c), Top(c).name = "walk"
    PROVE  /\ IsClient(client[c]) /\ Front(client[c].frames) = <<>>
           /\ IsFrame(Top(c)) /\ IteratorsInv(Walk(c)) /\ Own(client[c]) = HandlesOf(Walk(c))
           /\ Own(client[c]) \subseteq Reading(handles) /\ HandlesInv(handles)
           /\ Top(c).at = "stat" => Walk(c) = <<>>
           /\ Top(c).at = "visit" => Walk(c) # <<>>
           /\ Top(c).at \in Looking => Walk(c) # <<>> /\ Here(c).handle # 0
           /\ Walk(c) # <<>> => Here(c) = Walk(c)[Len(Walk(c))]
<1> DEFINE s == client[c].frames
           f == Top(c)
<1>1. /\ ClientInv(client[c]) /\ FramesInv(s) /\ s # <<>> /\ Len(s) = 1 /\ f = s[1]
      /\ IsFrame(f) /\ Own(client[c]) \subseteq Reading(handles) /\ HandlesInv(handles)
      /\ f.at = "stat" => Walk(c) = <<>>
    BY TopFacts DEF Walk
<1>2. Front(s) = <<>>
    <2> DEFINE t == Front(s)
    <2>1. IsSeq(t) /\ Len(t) = Len(s) - 1
        BY <1>1, FramePopped DEF FramesInv
    <2> HIDE DEF t
    <2>2. Len(t) = 0 /\ t \in Seq(ToSet(t))
        BY <1>1, <2>1 DEF IsSeq
    <2>3. t = <<>>
        BY <2>2, EmptySeq
    <2> QED BY <2>3 DEF t
<1>3. HandlesOf(s) = {}
    <2>1. f.handle = 0
        BY <1>1 DEF IsFrame, Iterating
    <2> HIDE DEF s, f
    <2> QED BY <1>1, <2>1 DEF HandlesOf
<1>4. Own(client[c]) = HandlesOf(Walk(c))
    BY <1>3 DEF Own, Walk
<1>5. /\ IsClient(client[c]) /\ IteratorsInv(Walk(c)) /\ WalkingInv(s, Walk(c))
    BY <1>1 DEF ClientInv, Walk
<1> HIDE DEF s, f
<1>6. /\ f.at = "visit" => Walk(c) # <<>>
      /\ f.at \in Looking => Walk(c) # <<>> /\ Here(c).handle # 0
      /\ Here(c) = Walk(c)[Len(Walk(c))]
    BY <1>1, <1>5 DEF WalkingInv, Here, Last, f
<1> QED BY <1>1, <1>2, <1>4, <1>5, <1>6 DEF s, f

\* A frame on its own.
LEMMA Alone ==
    ASSUME NEW f, IsFrame(f), f.handle = 0
    PROVE  /\ FramesInv(<<f>>) /\ HandlesOf(<<f>>) = {}
           /\ <<f>> # <<>> /\ Len(<<f>>) = 1 /\ <<f>>[1] = f
<1> DEFINE r == <<f>>
<1>1. r \in Seq({f}) /\ r # <<>> /\ Len(r) = 1 /\ r[1] = f
    OBVIOUS
<1> HIDE DEF r
<1>2. IsSeq(r)
    BY <1>1, SeqFacts
<1>3. Distinct(r) /\ HandlesOf(r) = {}
    BY <1>1 DEF Distinct, HandlesOf
<1> QED BY <1>1, <1>2, <1>3 DEF FramesInv, r

\* The walk goes on: at the next step with this stack of iterators.
LEMMA WalkGoesKeeps ==
    ASSUME Inv, NEW c \in Clients, Busy(c), Top(c).name = "walk",
           NEW step \in Looking \cup {"visit"}, NEW walk, IteratorsInv(walk), walk # <<>>,
           step \in Looking => walk[Len(walk)].handle # 0,
           Alters(c, Front(client[c].frames) \o <<[Top(c) EXCEPT !.at = step]>>, walk),
           HandlesInv(handles'), HandlesOf(walk) \subseteq Reading(handles'),
           Reading(handles') \ HandlesOf(walk) = Reading(handles) \ HandlesOf(Walk(c))
    PROVE  Inv'
<1> DEFINE f == Top(c)
           a == [f EXCEPT !.at = step]
           r == <<a>>
<1>1. /\ Front(client[c].frames) = <<>> /\ IsFrame(f)
      /\ Own(client[c]) = HandlesOf(Walk(c)) /\ ClientInv(client[c])
    BY WalkFacts DEF Inv
<1>2. IsFrame(a) /\ a.handle = 0 /\ a.name = "walk" /\ a.at = step
    <2>1. ~Iterating(f)
        BY DEF Iterating
    <2> HIDE DEF f
    <2> QED BY <1>1, <2>1, FrameMoved DEF f
<1>3. step \notin {"stat", "next"}
    BY DEF Looking
<1>4. <<>> \o <<a>> = r
    <2> HIDE DEF a
    <2>1. <<a>> \in Seq({a})
        OBVIOUS
    <2> QED BY <2>1, ConcatEmptySeq
<1> HIDE DEF a
<1>5. FramesInv(r) /\ r # <<>> /\ Len(r) = 1 /\ r[1] = a /\ HandlesOf(r) = {}
    BY <1>2, Alone
<1>6. /\ DOMAIN client' = Clients /\ \A d \in Clients \ {c} : client'[d] = client[d]
      /\ IsClient(client'[c]) /\ client'[c].frames = r /\ client'[c].walk = walk
      /\ client'[c].todo = client[c].todo
    BY <1>1, <1>4 DEF Alters, a
<1> HIDE DEF r
<1>7. WalkingInv(r, walk)
    BY <1>2, <1>3, <1>5 DEF WalkingInv
<1>8. ClientInv(client'[c])
    BY <1>1, <1>5, <1>6, <1>7 DEF ClientInv
<1>9. Own(client'[c]) = HandlesOf(walk)
    BY <1>5, <1>6 DEF Own
<1> QED BY <1>1, <1>6, <1>8, <1>9, Accounts

\* The walk stops.
LEMMA WalkStopsKeeps ==
    ASSUME Inv, NEW c \in Clients, Busy(c), Top(c).name = "walk", Alters(c, <<>>, <<>>),
           HandlesInv(handles'), Reading(handles') = Reading(handles) \ HandlesOf(Walk(c))
    PROVE  Inv'
<1>1. ClientInv(client[c]) /\ Own(client[c]) = HandlesOf(Walk(c))
    BY WalkFacts DEF Inv
<1>2. FramesInv(<<>>) /\ IteratorsInv(<<>>) /\ WalkingInv(<<>>, <<>>)
    BY NoStack DEF FramesInv, IteratorsInv, WalkingInv
<1>3. ClientInv(client'[c])
    BY <1>1, <1>2 DEF ClientInv, Alters
<1>4. Own(client'[c]) = {}
    BY NoStack DEF Own, Alters
<1> QED BY <1>1, <1>3, <1>4, Accounts DEF Alters

\* Goto and WalkEnds alter the frame and the stack only.
LEMMA WalkAlters ==
    ASSUME Inv, NEW c \in Clients, Busy(c), Top(c).name = "walk"
    PROVE  /\ \A step, walk : Goto(c, step, walk) =>
                Alters(c, Front(client[c].frames) \o <<[Top(c) EXCEPT !.at = step]>>, walk)
           /\ WalkEnds(c) => Alters(c, <<>>, <<>>)
<1> DEFINE k == client[c]
<1>1. IsClient(k) /\ DOMAIN client = Clients /\ Front(k.frames) = <<>>
    BY WalkFacts DEF Inv
<1>2. ASSUME NEW step, NEW walk, Goto(c, step, walk)
      PROVE  Alters(c, Front(client[c].frames) \o <<[Top(c) EXCEPT !.at = step]>>, walk)
    <2> DEFINE r == Front(k.frames) \o <<[Top(c) EXCEPT !.at = step]>>
    <2>1. client' = [client EXCEPT ![c] = [[k EXCEPT !.frames = r] EXCEPT !.walk = walk]]
        BY <1>2 DEF Goto, Become
    <2> HIDE DEF r, k
    <2>2. /\ DOMAIN client' = Clients /\ \A d \in Clients \ {c} : client'[d] = client[d]
          /\ client'[c] = [[k EXCEPT !.frames = r] EXCEPT !.walk = walk]
        BY <1>1, <2>1
    <2>3. /\ IsClient(client'[c]) /\ client'[c].todo = k.todo
          /\ client'[c].frames = r /\ client'[c].walk = walk
        BY <1>1, <2>2 DEF IsClient
    <2> QED BY <2>2, <2>3 DEF Alters, r, k
<1>3. ASSUME WalkEnds(c) PROVE Alters(c, <<>>, <<>>)
    <2> DEFINE r == Front(k.frames) \o <<>>
    <2>1. client' = [client EXCEPT ![c] = [[k EXCEPT !.frames = r] EXCEPT !.walk = <<>>, !.outcome = "true"]]
        BY <1>3 DEF WalkEnds, Become
    <2>2. r = <<>>
        BY <1>1, NoStack, Become3
    <2> HIDE DEF r, k
    <2>3. /\ DOMAIN client' = Clients /\ \A d \in Clients \ {c} : client'[d] = client[d]
          /\ client'[c] = [[k EXCEPT !.frames = r] EXCEPT !.walk = <<>>, !.outcome = "true"]
        BY <1>1, <2>1
    <2>4. /\ IsClient(client'[c]) /\ client'[c].todo = k.todo
          /\ client'[c].frames = <<>> /\ client'[c].walk = <<>>
        BY <1>1, <2>2, <2>3 DEF IsClient
    <2> QED BY <2>3, <2>4 DEF Alters, k
<1> QED BY <1>2, <1>3

\* What the constructor of an iterator does with the stack and the handles.
LEMMA OpenOntoKeeps ==
    ASSUME Inv, NEW c \in Clients, Busy(c), Top(c).name = "walk", NEW p,
           NEW walk, IteratorsInv(walk), NEW H, HandlesInv(H),
           HandlesOf(walk) \subseteq Reading(H),
           Reading(H) \ HandlesOf(walk) = Reading(handles) \ HandlesOf(Walk(c)),
           OpenOnto(c, p, walk, H)
    PROVE  Inv'
<1> DEFINE n == NewHandle(H)
<1>1. n \notin DOMAIN H /\ n # 0
    BY NewHandleFacts
<1>2. ASSUME NEW h, NEW e, NEW left, NEW read,
             \/ h = 0 /\ e = NoEntry /\ read = "all"
             \/ h = n /\ read = "some",
             handles' = Opened(H, left, read),
             Goto(c, "visit", Append(walk, [handle |-> h, entry |-> e]))
      PROVE  Inv'
    <2> DEFINE i == [handle |-> h, entry |-> e]
               w == Append(walk, i)
    <2>1. IsIterator(i) /\ i.handle = h
        BY <1>1, <1>2 DEF IsIterator
    <2>2. Alters(c, Front(client[c].frames) \o <<[Top(c) EXCEPT !.at = "visit"]>>, w)
        BY <1>2, WalkAlters
    <2>3. HandlesInv(handles') /\ Reading(handles') =
                Reading(H) \cup IF read = "some" THEN {n} ELSE {}
        BY <1>2, OpenedFacts
    <2>4. h = 0 \/ h \notin HandlesOf(walk)
        BY <1>1, <1>2 DEF Reading
    <2> HIDE DEF i, n
    <2>5. /\ IteratorsInv(w) /\ w # <<>>
          /\ HandlesOf(w) = HandlesOf(walk) \cup ({i.handle} \ {0})
        BY <2>1, <2>4, IteratorPushed
    <2> HIDE DEF w
    <2>6. /\ HandlesOf(w) \subseteq Reading(handles')
          /\ Reading(handles') \ HandlesOf(w) = Reading(H) \ HandlesOf(walk)
        <3>1. n \notin Reading(H)
            BY <1>1 DEF Reading
        <3>2. CASE h = 0 /\ read = "all"
            BY <2>1, <2>3, <2>5, <3>2
        <3>3. CASE h = n /\ read = "some"
            BY <1>1, <2>1, <2>3, <2>5, <3>1, <3>3
        <3> QED BY <1>2, <3>2, <3>3
    <2> QED BY <2>2, <2>3, <2>5, <2>6, WalkGoesKeeps DEF Looking
<1>3. CASE OpenFails(c, p, {i.handle : i \in ToSet(walk)}, H)
    <2> DEFINE owned == {i.handle : i \in ToSet(walk)}
    <2>1. owned \ {0} = HandlesOf(walk)
        <3>1. ToSet(walk) = {walk[i] : i \in 1 .. Len(walk)}
            BY SeqFacts DEF IteratorsInv, IsSeq
        <3> QED BY <3>1 DEF HandlesOf
    <2>2. 0 \notin Reading(H)
        BY DEF HandlesInv, Reading
    <2>3. Reading(H) \ owned = Reading(H) \ HandlesOf(walk)
        BY <2>1, <2>2
    <2>4. Own(client[c]) = HandlesOf(Walk(c))
        BY WalkFacts
    <2> HIDE DEF owned
    <2> QED BY <1>3, <2>3, <2>4, OpenFailsKeeps DEF owned
<1>4. ASSUME CanOpen(p), ~OpenFails(c, p, {i.handle : i \in ToSet(walk)}, H)
      PROVE  \/ handles' = Opened(H, {}, "all") /\ Goto(c, "visit", Append(walk, [handle |-> 0, entry |-> NoEntry]))
             \/ \E e \in Entries(p) :
                    /\ handles' = Opened(H, Entries(p) \ {e}, "some")
                    /\ Goto(c, "visit", Append(walk, [handle |-> n, entry |-> e]))
    BY <1>4 DEF OpenOnto
<1> HIDE DEF n
<1> QED BY <1>2, <1>3, <1>4 DEF OpenOnto

\* What ++ of the iterator at the top leaves.
LEMMA AdvancesFacts ==
    ASSUME Inv, NEW c \in Clients, Busy(c), Top(c).name = "walk", Top(c).at \in Looking,
           NEW a \in Advances(c)
    PROVE  /\ IteratorsInv(a.walk) /\ HandlesInv(a.handles)
           /\ HandlesOf(a.walk) \subseteq Reading(a.handles)
           /\ Reading(a.handles) \ HandlesOf(a.walk) = Reading(handles) \ HandlesOf(Walk(c))
<1> DEFINE w == Walk(c)
           i == Here(c)
           n == i.handle
           left == handles[n].left
<1>1. /\ IteratorsInv(w) /\ w # <<>> /\ n # 0 /\ i = Last(w) /\ i = w[Len(w)]
      /\ HandlesOf(w) \subseteq Reading(handles) /\ HandlesInv(handles)
    BY WalkFacts DEF Here
<1>2. /\ IteratorsInv(Front(w)) /\ Len(w) \in Nat \ {0}
      /\ HandlesOf(Front(w)) = HandlesOf(w) \ {n}
    <2>1. HandlesOf(Front(w)) = HandlesOf(w) \ {Last(w).handle}
        BY <1>1, IteratorPopped
    <2> QED BY <1>1, <2>1, IteratorPopped
<1>3. n \in HandlesOf(w) /\ n \in DOMAIN handles
    <2>1. Len(w) \in 1 .. Len(w)
        BY <1>2
    <2> HIDE DEF w, i
    <2>2. n \in HandlesOf(w)
        BY <1>1, <2>1 DEF HandlesOf
    <2> QED BY <1>1, <2>2 DEF Reading
<1>4. CASE a = [walk |-> Front(w), handles |-> [handles EXCEPT ![n].read = "all"]]
    <2> DEFINE H == [handles EXCEPT ![n].read = "all"]
    <2>1. HandlesInv(H) /\ Reading(H) = Reading(handles) \ {n}
        BY <1>1, <1>3, EndedFacts
    <2>2. a.walk = Front(w) /\ a.handles = H
        BY <1>4
    <2> HIDE DEF H, w, n
    <2> QED BY <1>1, <1>2, <1>3, <2>1, <2>2 DEF w
<1>5. ASSUME NEW e \in left,
             a = [walk |-> Append(Front(w), [i EXCEPT !.entry = e]),
                  handles |-> [handles EXCEPT ![n].left = left \ {e}]]
      PROVE  /\ IteratorsInv(a.walk) /\ HandlesInv(a.handles)
             /\ HandlesOf(a.walk) \subseteq Reading(a.handles)
             /\ Reading(a.handles) \ HandlesOf(a.walk) = Reading(handles) \ HandlesOf(Walk(c))
    <2> DEFINE H == [handles EXCEPT ![n].left = left \ {e}]
               v == Front(w)
               j == [i EXCEPT !.entry = e]
               u == Append(v, j)
    <2>1. HandlesInv(H) /\ Reading(H) = Reading(handles)
        BY <1>1, <1>3, TakenFacts
    <2>2. a.walk = u /\ a.handles = H
        BY <1>5
    <2>3. IsIterator(j) /\ j.handle = n
        <3>1. IsIterator(i)
            <4>1. Len(w) \in 1 .. Len(w)
                BY <1>2
            <4> QED BY <1>1, <4>1 DEF IteratorsInv
        <3> HIDE DEF i
        <3> QED BY <1>1, <3>1 DEF IsIterator
    <2> HIDE DEF H, v, j
    <2>4. IteratorsInv(u) /\ HandlesOf(u) = HandlesOf(v) \cup ({j.handle} \ {0})
        BY <1>2, <2>3, IteratorPushed DEF v
    <2> HIDE DEF u, n
    <2>5. HandlesOf(u) = HandlesOf(w)
        BY <1>1, <1>2, <1>3, <2>3, <2>4 DEF v
    <2> HIDE DEF w
    <2> QED BY <1>1, <2>1, <2>2, <2>4, <2>5 DEF w
<1> QED BY <1>4, <1>5 DEF Advances

\* A step of the walk that leaves the stack and the handles as they are.
LEMMA WalkStaysKeeps ==
    ASSUME Inv, NEW c \in Clients, Busy(c), Top(c).name = "walk", Walk(c) # <<>>,
           NEW step \in Looking \cup {"visit"}, step \in Looking => Here(c).handle # 0,
           Alters(c, Front(client[c].frames) \o <<[Top(c) EXCEPT !.at = step]>>, Walk(c)),
           UNCHANGED handles
    PROVE  Inv'
<1>1. /\ IteratorsInv(Walk(c)) /\ HandlesOf(Walk(c)) \subseteq Reading(handles)
      /\ HandlesInv(handles) /\ Here(c) = Walk(c)[Len(Walk(c))]
    BY WalkFacts
<1> DEFINE w == Walk(c)
<1>2. /\ IteratorsInv(w) /\ w # <<>> /\ HandlesOf(w) \subseteq Reading(handles')
      /\ step \in Looking => w[Len(w)].handle # 0
      /\ Alters(c, Front(client[c].frames) \o <<[Top(c) EXCEPT !.at = step]>>, w)
      /\ Reading(handles') \ HandlesOf(w) = Reading(handles) \ HandlesOf(Walk(c))
      /\ HandlesInv(handles')
    BY <1>1
<1> HIDE DEF w
<1> QED BY <1>2, WalkGoesKeeps

\* Fields other than the frames and the stack change, too.
LEMMA VisitedAlters ==
    ASSUME Inv, NEW c \in Clients, NEW r, NEW visited, NEW twice, NEW skipped,
           \/ client' = [client EXCEPT ![c] =
                [[client[c] EXCEPT !.frames = r] EXCEPT !.visited = visited, !.twice = twice]]
           \/ client' = [client EXCEPT ![c] =
                [[client[c] EXCEPT !.frames = r] EXCEPT !.skipped = skipped]]
    PROVE  Alters(c, r, client[c].walk)
<1> DEFINE k == client[c]
<1>1. IsClient(k) /\ DOMAIN client = Clients
    BY DEF Inv, ClientInv
<1> HIDE DEF k
<1>2. /\ DOMAIN client' = Clients /\ \A d \in Clients \ {c} : client'[d] = client[d]
      /\ \/ client'[c] = [[k EXCEPT !.frames = r] EXCEPT !.visited = visited, !.twice = twice]
         \/ client'[c] = [[k EXCEPT !.frames = r] EXCEPT !.skipped = skipped]
    BY <1>1 DEF k
<1>3. /\ IsClient(client'[c]) /\ client'[c].todo = k.todo
      /\ client'[c].frames = r /\ client'[c].walk = k.walk
    BY <1>1, <1>2 DEF IsClient
<1> QED BY <1>2, <1>3 DEF Alters, k

\* The program looks at the entry, and may decline to enter it.
LEMMA WalkVisitKeeps ==
    ASSUME Inv, NEW c \in Clients, WalkVisit(c) \/ WalkDecline(c) PROVE Inv'
<1>1. CASE WalkVisit(c)
    <2> DEFINE p == Here(c).entry.path
               visited == client[c].visited \cup {p}
               twice == client[c].twice \/ p \in client[c].visited
               r == Front(client[c].frames) \o <<[Top(c) EXCEPT !.at = "visited"]>>
    <2>1. /\ Busy(c) /\ Top(c).name = "walk" /\ Top(c).at = "visit" /\ UNCHANGED handles
          /\ Here(c).entry # NoEntry
          /\ client' = [client EXCEPT ![c] =
                [[client[c] EXCEPT !.frames = r] EXCEPT !.visited = visited, !.twice = twice]]
        BY <1>1 DEF WalkVisit, WalkAt, At, NoChange, Become
    <2> HIDE DEF visited, twice
    <2>2. Alters(c, r, Walk(c))
        <3> HIDE DEF r
        <3> QED BY <2>1, VisitedAlters DEF Walk
    <2>3. Walk(c) # <<>> /\ Here(c).handle # 0
        <3>1. /\ Walk(c) # <<>> /\ IteratorsInv(Walk(c)) /\ Here(c) = Walk(c)[Len(Walk(c))]
            BY <2>1, WalkFacts
        <3>2. Len(Walk(c)) \in 1 .. Len(Walk(c))
            BY <3>1, IteratorPopped
        <3> QED BY <2>1, <3>1, <3>2 DEF IteratorsInv, IsIterator
    <2> QED BY <2>1, <2>2, <2>3, WalkStaysKeeps DEF Looking
<1>2. CASE WalkDecline(c)
    <2> DEFINE skipped == client[c].skipped \cup Below(cat, Here(c).entry.path)
               r == Front(client[c].frames) \o <<[Top(c) EXCEPT !.at = "declined"]>>
    <2>1. /\ Busy(c) /\ Top(c).name = "walk" /\ Top(c).at \in Looking /\ UNCHANGED handles
          /\ client' = [client EXCEPT ![c] =
                [[client[c] EXCEPT !.frames = r] EXCEPT !.skipped = skipped]]
        BY <1>2 DEF WalkDecline, Skips, WalkAt, At, NoChange, Become, Looking
    <2> HIDE DEF skipped
    <2>2. Alters(c, r, Walk(c))
        <3> HIDE DEF r
        <3> QED BY <2>1, VisitedAlters DEF Walk
    <2>3. Walk(c) # <<>> /\ Here(c).handle # 0
        BY <2>1, WalkFacts
    <2> QED BY <2>1, <2>2, <2>3, WalkStaysKeeps DEF Looking
<1> QED BY <1>1, <1>2

\* pop closes the handle of the iterator that it takes off.
LEMMA WalkPopKeeps == ASSUME Inv, NEW c \in Clients, WalkPop(c) PROVE Inv'
<1> DEFINE k == client[c]
           w == Walk(c)
           n == Here(c).handle
           f == Top(c)
           skipped == k.skipped \cup (Below(cat, Here(c).entry.path)
                        \cup UNION {Tree(cat, e.path) : e \in handles[n].left})
           r == Front(k.frames) \o <<>>
           s == Front(k.frames) \o <<[f EXCEPT !.at = "visit"]>>
<1>1. /\ Busy(c) /\ f.name = "walk" /\ f.at = "visited" /\ handles' = Closed(handles, {n})
      /\ client' = [client EXCEPT ![c] =
            IF Len(w) = 1
              THEN [[k EXCEPT !.frames = r] EXCEPT !.walk = <<>>, !.outcome = "true",
                                                   !.skipped = skipped]
              ELSE [[k EXCEPT !.frames = s] EXCEPT !.walk = Front(w), !.skipped = skipped]]
    BY DEF WalkPop, WalkAt, At, Become, Walk
<1>2. /\ IsClient(k) /\ DOMAIN client = Clients /\ r = <<>>
      /\ IteratorsInv(w) /\ w # <<>> /\ Here(c) = Last(w) /\ HandlesInv(handles)
      /\ HandlesOf(w) \subseteq Reading(handles)
    <2>1. Front(k.frames) = <<>>
        BY <1>1, WalkFacts
    <2>2. r = <<>>
        BY <2>1, NoStack, Become3
    <2> QED BY <1>1, <2>2, WalkFacts DEF Looking, Here, Inv
<1>3. /\ IteratorsInv(Front(w)) /\ Len(Front(w)) = Len(w) - 1 /\ Len(w) \in Nat \ {0}
      /\ HandlesOf(Front(w)) = HandlesOf(w) \ {n}
    <2>1. HandlesOf(Front(w)) = HandlesOf(w) \ {Last(w).handle}
        BY <1>2, IteratorPopped
    <2> QED BY <1>2, <2>1, IteratorPopped
<1>4. HandlesInv(handles') /\ Reading(handles') = Reading(handles) \ {n}
    BY <1>1, <1>2, ClosedFacts
<1> HIDE DEF k, n, f, skipped, r, s
<1>5. CASE Len(w) = 1
    <2>1. HandlesOf(w) \subseteq {n}
        <3>1. Len(Front(w)) = 0
            BY <1>3, <1>5
        <3> DEFINE v == Front(w)
        <3> HIDE DEF v
        <3>2. HandlesOf(v) = {}
            BY <3>1 DEF HandlesOf, v
        <3> QED BY <1>3, <3>2 DEF v
    <2>2. 0 \notin Reading(handles) /\ n \in HandlesOf(w)
        <3>1. Len(w) \in 1 .. Len(w) /\ n = w[Len(w)].handle /\ n # 0
            BY <1>1, <1>3, WalkFacts DEF Looking, n, f
        <3> HIDE DEF w
        <3> QED BY <1>2, <3>1 DEF HandlesOf, HandlesInv, Reading
    <2>3. Reading(handles') = Reading(handles) \ HandlesOf(w)
        BY <1>4, <2>1, <2>2
    <2>4. /\ DOMAIN client' = Clients /\ \A d \in Clients \ {c} : client'[d] = client[d]
          /\ client'[c] = [[k EXCEPT !.frames = r] EXCEPT !.walk = <<>>, !.outcome = "true",
                                                          !.skipped = skipped]
        BY <1>1, <1>2, <1>5
    <2>5. /\ IsClient(client'[c]) /\ client'[c].todo = k.todo
          /\ client'[c].frames = <<>> /\ client'[c].walk = <<>>
        BY <1>2, <2>4 DEF IsClient
    <2> QED BY <1>1, <1>4, <2>3, <2>4, <2>5, WalkStopsKeeps DEF Alters, k, f
<1>6. CASE Len(w) # 1
    <2> DEFINE v == Front(w)
    <2>1. /\ IteratorsInv(v) /\ HandlesOf(v) = HandlesOf(w) \ {n} /\ v # <<>>
        <3>1. Len(v) # 0
            BY <1>3, <1>6
        <3> QED BY <1>3, <3>1, NoStack
    <2> HIDE DEF v, w
    <2>2. /\ DOMAIN client' = Clients /\ \A d \in Clients \ {c} : client'[d] = client[d]
          /\ client'[c] = [[k EXCEPT !.frames = s] EXCEPT !.walk = v, !.skipped = skipped]
        BY <1>1, <1>2, <1>6 DEF v
    <2>3. /\ IsClient(client'[c]) /\ client'[c].todo = k.todo
          /\ client'[c].frames = s /\ client'[c].walk = v
        BY <1>2, <2>2 DEF IsClient
    <2>4. Alters(c, Front(client[c].frames) \o <<[Top(c) EXCEPT !.at = "visit"]>>, v)
        BY <2>2, <2>3 DEF Alters, s, k, f
    <2>5. n \in HandlesOf(w)
        <3>1. Len(w) \in 1 .. Len(w) /\ n = w[Len(w)].handle /\ n # 0
            BY <1>1, <1>3, WalkFacts DEF Looking, n, f, w
        <3> QED BY <3>1 DEF HandlesOf
    <2>6. /\ HandlesOf(v) \subseteq Reading(handles')
          /\ Reading(handles') \ HandlesOf(v) = Reading(handles) \ HandlesOf(w)
        BY <1>2, <1>4, <2>1, <2>5
    <2> QED BY <1>1, <1>4, <2>1, <2>4, <2>6, WalkGoesKeeps DEF Looking, f, w
<1> QED BY <1>5, <1>6

\* Before it moves, the walk asks what the entry is.
LEMMA WalkStatKeeps == ASSUME Inv, NEW c \in Clients, WalkStat(c) PROVE Inv'
<1>1. Busy(c) /\ Top(c).name = "walk" /\ Top(c).at \in Looking
    BY DEF WalkStat, WalkAt, At, Looking
<1>2. CASE Throw(c) \/ Crash(c)
    BY <1>2, ThrowKeeps, CrashKeeps
<1>3. ASSUME NEW step \in {"probe", "over", "into"}, Goto(c, step, Walk(c)), NoChange
      PROVE  Inv'
    <2>1. Alters(c, Front(client[c].frames) \o <<[Top(c) EXCEPT !.at = step]>>, Walk(c))
        BY <1>1, <1>3, WalkAlters
    <2>2. Walk(c) # <<>> /\ Here(c).handle # 0 /\ step \in Looking \cup {"visit"}
        BY <1>1, WalkFacts DEF Looking
    <2> QED BY <1>1, <1>3, <2>1, <2>2, WalkStaysKeeps DEF NoChange
<1> QED BY <1>2, <1>3 DEF WalkStat

\* is_empty opens a handle of its own, which is lost if it is empty.
LEMMA WalkProbeKeeps == ASSUME Inv, NEW c \in Clients, WalkProbe(c) PROVE Inv'
<1> DEFINE p == Here(c).entry.path
           w == Walk(c)
<1>1. Busy(c) /\ Top(c).name = "walk" /\ Top(c).at \in Looking
    BY DEF WalkProbe, WalkAt, At, Looking
<1>2. /\ w # <<>> /\ w[Len(w)].handle # 0 /\ IteratorsInv(w) /\ Here(c).handle # 0
      /\ HandlesInv(handles) /\ HandlesOf(w) \subseteq Reading(handles)
    BY <1>1, WalkFacts
<1>3. CASE OpenFails(c, p, Owned(c), handles)
    <2>1. Owned(c) = Own(client[c])
        BY OwnedIs DEF Inv
    <2> HIDE DEF p
    <2> QED BY <1>2, <1>3, <2>1, OpenFailsKeeps
<1>4. CASE handles' = Opened(handles, {}, "all") /\ Goto(c, "over", w)
    <2>1. HandlesInv(handles') /\ Reading(handles') = Reading(handles)
        BY <1>2, <1>4, OpenedFacts
    <2>2. Alters(c, Front(client[c].frames) \o <<[Top(c) EXCEPT !.at = "over"]>>, w)
        BY <1>1, <1>4, WalkAlters
    <2>3. Reading(handles') \ HandlesOf(w) = Reading(handles) \ HandlesOf(Walk(c))
        BY <2>1
    <2>4. HandlesOf(w) \subseteq Reading(handles')
        BY <1>2, <2>1
    <2> HIDE DEF w
    <2> QED BY <1>1, <1>2, <2>1, <2>2, <2>3, <2>4, WalkGoesKeeps DEF Looking
<1>5. CASE UNCHANGED handles /\ Goto(c, "into", w)
    <2>1. Alters(c, Front(client[c].frames) \o <<[Top(c) EXCEPT !.at = "into"]>>, w)
        BY <1>1, <1>5, WalkAlters
    <2> QED BY <1>1, <1>2, <1>5, <2>1, WalkStaysKeeps DEF Looking
<1> QED BY <1>3, <1>4, <1>5 DEF WalkProbe

\* The walk opens its collection, enters one below, or passes one over.
LEMMA WalkMovesKeeps ==
    ASSUME Inv, NEW c \in Clients, WalkOpen(c) \/ WalkInto(c) \/ WalkOver(c) PROVE Inv'
<1> DEFINE w == Walk(c)
<1>1. CASE WalkOpen(c)
    <2> DEFINE p == Top(c).from
    <2>1. /\ Busy(c) /\ Top(c).name = "walk" /\ Top(c).at = "stat"
          /\ OpenOnto(c, p, <<>>, handles)
        BY <1>1 DEF WalkOpen, WalkAt, At
    <2>2. w = <<>> /\ HandlesInv(handles)
        BY <2>1, WalkFacts
    <2>3. IteratorsInv(<<>>) /\ HandlesOf(<<>>) = {}
        BY NoStack DEF IteratorsInv
    <2> HIDE DEF p
    <2> QED BY <2>1, <2>2, <2>3, OpenOntoKeeps
<1>2. CASE WalkInto(c)
    <2>1. Busy(c) /\ Top(c).name = "walk" /\ Top(c).at \in Looking
        BY <1>2 DEF WalkInto, WalkAt, At, Looking
    <2>2. ASSUME NEW a \in Advances(c), OpenOnto(c, Here(c).entry.path, a.walk, a.handles)
          PROVE  Inv'
        <3> DEFINE p == Here(c).entry.path
                   v == a.walk
                   H == a.handles
        <3>1. /\ IteratorsInv(v) /\ HandlesInv(H) /\ HandlesOf(v) \subseteq Reading(H)
              /\ Reading(H) \ HandlesOf(v) = Reading(handles) \ HandlesOf(Walk(c))
            BY <2>1, AdvancesFacts
        <3>2. OpenOnto(c, p, v, H)
            BY <2>2
        <3> HIDE DEF p, v, H
        <3> QED BY <2>1, <3>1, <3>2, OpenOntoKeeps
    <2> QED BY <1>2, <2>2, ThrowKeeps DEF WalkInto
<1>3. CASE WalkOver(c)
    <2>1. Busy(c) /\ Top(c).name = "walk" /\ Top(c).at \in Looking
        BY <1>3 DEF WalkOver, WalkAt, At, Looking
    <2>2. ASSUME NEW a \in Advances(c), handles' = a.handles,
                 IF a.walk = <<>> THEN WalkEnds(c) ELSE Goto(c, "visit", a.walk)
          PROVE  Inv'
        <3> DEFINE v == a.walk
                   H == a.handles
        <3>1. /\ IteratorsInv(v) /\ HandlesInv(H) /\ HandlesOf(v) \subseteq Reading(H)
              /\ Reading(H) \ HandlesOf(v) = Reading(handles) \ HandlesOf(w)
            BY <2>1, AdvancesFacts
        <3>2. handles' = H /\ IF v = <<>> THEN WalkEnds(c) ELSE Goto(c, "visit", v)
            BY <2>2
        <3>3. HandlesOf(w) \subseteq Reading(handles)
            BY <2>1, WalkFacts
        <3> HIDE DEF v, H
        <3>4. CASE v = <<>>
            <4>1. Alters(c, <<>>, <<>>)
                BY <2>1, <3>2, <3>4, WalkAlters
            <4>2. Reading(handles') = Reading(handles) \ HandlesOf(Walk(c))
                BY <3>1, <3>2, <3>4, NoStack
            <4> QED BY <2>1, <3>1, <3>2, <4>1, <4>2, WalkStopsKeeps
        <3>5. CASE v # <<>>
            <4>1. Alters(c, Front(client[c].frames) \o <<[Top(c) EXCEPT !.at = "visit"]>>, v)
                BY <2>1, <3>2, <3>5, WalkAlters
            <4> QED BY <2>1, <3>1, <3>2, <3>5, <4>1, WalkGoesKeeps DEF Looking
        <3> QED BY <3>4, <3>5
    <2> QED BY <1>3, <2>2, ThrowKeeps DEF WalkOver
<1> QED BY <1>1, <1>2, <1>3

-----------------------------------------------------------------------------
(* The specification *)

\* An operation begins with no handle.
LEMMA StartKeeps == ASSUME Inv, NEW c \in Clients, Start(c) PROVE Inv'
<1> DEFINE k == client[c]
           f == Head(k.todo)
           rest == Tail(k.todo)
           r == <<f>>
           m == Client(f, rest)
<1>1. /\ k.frames = <<>> /\ k.todo # <<>> /\ UNCHANGED handles
      /\ client' = [client EXCEPT ![c] = [m EXCEPT !.frames = r]]
    BY DEF Start, Busy, NoChange
<1>2. ClientInv(k) /\ DOMAIN client = Clients /\ HandlesInv(handles)
    BY DEF Inv
<1>3. f \in Requests /\ rest \in Seq(Requests)
    <2>1. k.todo \in Seq(Requests)
        BY <1>2 DEF ClientInv
    <2> HIDE DEF k
    <2> QED BY <1>1, <2>1, HeadTailProperties
<1>4. k.walk = <<>> /\ Own(k) = {}
    <2>1. k.walk = <<>>
        <3>1. Len(k.frames) = 0
            BY <1>1, NoStack
        <3> QED BY <1>2, <3>1 DEF ClientInv, WalkingInv
    <2> QED BY <1>1, <2>1, NoStack DEF Own
<1>5. IsFrame(f) /\ f.handle = 0 /\ f.at \in {"stat", "count data"}
    <2> HIDE DEF f
    <2>1. /\ f = [name |-> f.name, from |-> f.from, to |-> f.to, options |-> f.options,
                  at |-> f.at, seen |-> f.seen, handle |-> f.handle]
          /\ f.handle = 0 /\ f.at \in {"stat", "count data"}
        BY <1>3 DEF Requests
    <2> QED BY <2>1 DEF IsFrame, Iterating
<1>6. /\ IsClient(m) /\ m.todo = rest /\ m.walk = <<>>
    BY DEF Client, IsClient
<1> HIDE DEF k, f, rest, m
<1>7. FramesInv(r) /\ HandlesOf(r) = {} /\ Len(r) = 1 /\ r[1] = f
    BY <1>5, Alone
<1> HIDE DEF r
<1>8. /\ DOMAIN client' = Clients /\ \A d \in Clients \ {c} : client'[d] = client[d]
      /\ client'[c] = [m EXCEPT !.frames = r]
    BY <1>1, <1>2
<1>9. /\ IsClient(client'[c]) /\ client'[c].todo = rest
      /\ client'[c].frames = r /\ client'[c].walk = <<>>
    BY <1>6, <1>8 DEF IsClient
<1>10. IteratorsInv(<<>>) /\ WalkingInv(r, <<>>)
    <2>1. r[1].at \notin {"visit"} \cup Looking
        BY <1>5, <1>7 DEF Looking
    <2> QED BY <2>1, NoStack DEF IteratorsInv, WalkingInv
<1>11. ClientInv(client'[c])
    BY <1>3, <1>7, <1>9, <1>10 DEF ClientInv
<1>12. Own(client'[c]) = {}
    BY <1>7, <1>9, NoStack DEF Own
<1> QED BY <1>1, <1>2, <1>4, <1>8, <1>11, <1>12, Accounts DEF k

\* At first no handle is open.
LEMMA InitInv == ASSUME Init PROVE Inv
<1>1. handles = <<>> /\ DOMAIN client = Clients
    BY DEF Init
<1>2. HandlesInv(handles) /\ DOMAIN handles = {}
    <2>1. DOMAIN <<>> = {}
        OBVIOUS
    <2> QED BY <1>1, <2>1, FS_EmptySet DEF HandlesInv
<1>3. ASSUME NEW c \in Clients
      PROVE  ClientInv(client[c]) /\ client[c].frames = <<>> /\ client[c].walk = <<>>
    <2>1. PICK program : client[c] = Client(Frame("none", <<>>, <<>>, {}), program)
        BY DEF Init
    <2> DEFINE k == client[c]
               op == Frame("none", <<>>, <<>>, {})
    <2> HIDE DEF op
    <2>2. /\ IsClient(k) /\ k.frames = <<>> /\ k.walk = <<>> /\ k.todo = program
        BY <2>1 DEF Client, IsClient, op
    <2>3. k.todo \in Seq(Requests)
        BY ProgramAssumption DEF Init
    <2>4. FramesInv(<<>>) /\ IteratorsInv(<<>>) /\ WalkingInv(<<>>, <<>>)
        BY NoStack DEF FramesInv, IteratorsInv, WalkingInv
    <2> QED BY <2>2, <2>3, <2>4 DEF ClientInv
<1>4. \A c \in Clients : Owned(c) = {}
    BY <1>3, OwnedIs, NoStack DEF Own
<1> QED BY <1>1, <1>2, <1>3, <1>4 DEF Inv, HandlesAccounted

\* Every step of a client.
LEMMA StepKeeps == ASSUME Inv, NEW c \in Clients, Step(c) PROVE Inv'
<1>1. CASE Copying(c)
    BY <1>1, CopyBeginsKeeps, CopyOpenKeeps, CopyNextKeeps, CopyDataObjectKeeps DEF Copying
<1>2. CASE Walking(c)
    BY <1>2, WalkMovesKeeps, WalkVisitKeeps, CrashKeeps, WalkPopKeeps, WalkStatKeeps,
       WalkProbeKeeps DEF Walking, WalkCrash
<1> QED BY <1>1, <1>2, StatKeeps, CreatingKeeps, RemovingKeeps, RenameKeeps, UpdatingKeeps
        DEF Step

\* The loop of a copy that runs, and every iterator of a walk that is not at
\* its end, has a handle that is open and that no other frame, iterator or
\* client has; nothing else has one.
THEOREM InvHolds == Spec => []Inv
<1>1. ASSUME Inv, UNCHANGED vars PROVE Inv'
    BY <1>1 DEF Inv, vars, HandlesAccounted, Owned
<1>2. Inv /\ [Next]_vars => Inv'
    BY <1>1, StartKeeps, StepKeeps DEF Next
<1> QED BY InitInv, <1>2, PTL DEF Spec

\* Clients own open handles, each its own, and a handle that nobody owns has
\* been read to its end or could not be read at all.
THEOREM HandlesAreAccountedFor == Spec => []HandlesAccounted
<1>1. Inv => HandlesAccounted
    BY DEF Inv
<1> QED BY <1>1, InvHolds, PTL

-----------------------------------------------------------------------------
(* The catalog and the data *)


(* Above(z, p): the collection z is on the way to p. *)
Above(z, p) == IsSeq(z) /\ z # <<>> /\ z # p /\ IsPrefix(z, p)

IsObject(o) ==
    /\ o = [kind |-> o.kind, id |-> o.id, data |-> o.data, mtime |-> o.mtime,
            perms |-> o.perms, avu |-> o.avu, sum |-> o.sum]
    /\ o.kind \in Kinds
CatalogInv(C) ==
    \A p \in DOMAIN C :
        /\ IsSeq(p) /\ IsObject(C[p])
        /\ \A z : Above(z, p) => z \in DOMAIN C /\ C[z].kind = "coll"

(* Every frame was asked for what it may destroy: a copy that overwrites   *)
(* is part of one that was to overwrite, and a remove or a rename is the   *)
(* operation itself.                                                       *)
Overwrites(f) == f.name \in {"copy", "copy_data_object"} /\ "overwrite_existing" \in f.options
FrameOf(f, op) ==
    /\ IsSeq(f.from) /\ IsSeq(f.to)
    /\ Overwrites(f) => Overwrites(op)
    /\ f.name \in {"remove", "rename"} => op.name = f.name /\ op.from = f.from /\ op.to = f.to
FramesOf(s, op) == \A i \in 1 .. Len(s) : FrameOf(s[i], op)

(* What the server has still to give to an iterator are paths. *)
EntriesInv(H) == \A h \in DOMAIN H : \A e \in H[h].left : IsSeq(e.path)

DataInv ==
    /\ Inv
    /\ CatalogInv(cat)
    /\ \A c \in Clients : FramesOf(client[c].frames, client[c].op)
    /\ EntriesInv(handles)

-----------------------------------------------------------------------------
(* Paths *)

\* Paths with the same names are one path.
LEMMA SamePath ==
    ASSUME NEW p, IsSeq(p), NEW q, IsSeq(q), Len(p) = Len(q), \A i \in 1 .. Len(p) : p[i] = q[i]
    PROVE  p = q
<1> DEFINE S == ToSet(p)
           R == ToSet(q)
           T == S \cup R
<1>1. p \in Seq(S) /\ q \in Seq(R)
    BY DEF IsSeq
<1> HIDE DEF S, R
<1>2. Len(p) \in Nat /\ p \in [1 .. Len(p) -> S] /\ q \in [1 .. Len(q) -> R]
    BY <1>1, LenProperties
<1>3. p \in [1 .. Len(p) -> T] /\ q \in [1 .. Len(q) -> T]
    BY <1>2
<1> HIDE DEF T
<1>4. p \in Seq(T) /\ q \in Seq(T)
    BY <1>2, <1>3, SeqDef
<1> QED BY <1>4, SeqEqual

\* The first names of a path.
LEMMA Begin ==
    ASSUME NEW p, IsSeq(p), NEW n \in Nat, n <= Len(p)
    PROVE  /\ IsSeq(SubSeq(p, 1, n)) /\ Len(SubSeq(p, 1, n)) = n
           /\ \A i \in 1 .. n : SubSeq(p, 1, n)[i] = p[i]
<1> DEFINE S == ToSet(p)
           t == SubSeq(p, 1, n)
<1>1. p \in Seq(S)
    BY DEF IsSeq
<1> HIDE DEF S
<1>2. Len(p) \in Nat /\ \A i \in 1 .. n : p[i] \in S
    BY <1>1, LenProperties
<1>3. /\ t \in Seq(S) /\ Len(t) = IF 1 <= n THEN n - 1 + 1 ELSE 0
      /\ \A i \in 1 .. n - 1 + 1 : t[i] = p[1 + i - 1]
    BY <1>2, SubSeqProperties
<1> HIDE DEF t
<1>4. t \in Seq(S) /\ Len(t) = n /\ \A i \in 1 .. n : t[i] = p[i]
    BY <1>3
<1>5. IsSeq(t)
    BY <1>4, SeqFacts
<1> QED BY <1>4, <1>5 DEF t

\* The length of a path.
LEMMA PathLen ==
    ASSUME NEW p, IsSeq(p)
    PROVE  Len(p) \in Nat /\ (p = <<>> <=> Len(p) = 0)
BY SeqFacts, EmptySeq DEF IsSeq

\* A prefix has the first names.
LEMMA PrefixIs ==
    ASSUME NEW p, IsSeq(p), NEW q, IsSeq(q)
    PROVE  IsPrefix(p, q) <=> Len(p) <= Len(q) /\ \A i \in 1 .. Len(p) : p[i] = q[i]
<1> DEFINE n == Len(p)
           s == SubSeq(p, 1, n)
           t == SubSeq(q, 1, n)
<1>1. n \in Nat /\ Len(q) \in Nat
    BY PathLen
<1>2. IsPrefix(p, q) <=> n <= Len(q) /\ s = t
    BY DEF IsPrefix
<1>3. ASSUME n <= Len(q)
      PROVE  s = t <=> \A i \in 1 .. n : p[i] = q[i]
    <2>1. IsSeq(s) /\ Len(s) = n /\ \A i \in 1 .. n : s[i] = p[i]
        BY <1>1, Begin
    <2>2. IsSeq(t) /\ Len(t) = n /\ \A i \in 1 .. n : t[i] = q[i]
        BY <1>1, <1>3, Begin
    <2> HIDE DEF s, t, n
    <2>3. ASSUME \A i \in 1 .. n : p[i] = q[i] PROVE s = t
        <3>1. \A i \in 1 .. Len(s) : s[i] = t[i]
            BY <2>1, <2>2, <2>3
        <3> QED BY <2>1, <2>2, <3>1, SamePath
    <2> QED BY <2>1, <2>2, <2>3
<1> QED BY <1>2, <1>3

\* What is above is shorter, and is above all that is below.
LEMMA PrefixFacts ==
    ASSUME NEW p, IsSeq(p), NEW q, IsSeq(q), NEW r, IsSeq(r)
    PROVE  /\ IsPrefix(p, q) /\ IsPrefix(q, r) => IsPrefix(p, r)
           /\ IsPrefix(p, r) /\ IsPrefix(q, r) => IsPrefix(p, q) \/ IsPrefix(q, p)
           /\ IsPrefix(p, q) /\ Len(q) <= Len(p) => p = q
           /\ IsPrefix(p, q) => Len(p) <= Len(q)
           /\ IsPrefix(p, p)
<1>1. Len(p) \in Nat /\ Len(q) \in Nat /\ Len(r) \in Nat
    BY PathLen
<1>2. IsPrefix(p, q) /\ Len(q) <= Len(p) => p = q
    BY <1>1, PrefixIs, SamePath
<1> QED BY <1>1, <1>2, PrefixIs

\* The parent.
LEMMA ParentFacts ==
    ASSUME NEW p, IsSeq(p)
    PROVE  /\ IsSeq(Parent(p))
           /\ p = <<>> => Parent(p) = <<>>
           /\ p # <<>> => Len(Parent(p)) = Len(p) - 1 /\ IsPrefix(Parent(p), p)
           /\ \A z : Above(z, p) => z = Parent(p) \/ Above(z, Parent(p))
<1> DEFINE f == Parent(p)
<1>1. Len(p) \in Nat /\ (p = <<>> <=> Len(p) = 0)
    BY PathLen
<1>2. ASSUME p = <<>> PROVE f = <<>>
    <2> DEFINE n == Len(p) - 1
    <2>1. n \in Int /\ n < 1
        BY <1>1, <1>2
    <2> HIDE DEF n
    <2>2. SubSeq(p, 1, n) = <<>>
        BY <2>1, SubSeqEmpty
    <2> QED BY <2>2 DEF Parent, Front, n
<1>3. ASSUME p # <<>>
      PROVE  IsSeq(f) /\ Len(f) = Len(p) - 1 /\ \A i \in 1 .. Len(p) - 1 : f[i] = p[i]
    <2> DEFINE n == Len(p) - 1
    <2>1. n \in Nat /\ n <= Len(p)
        BY <1>1, <1>3
    <2> HIDE DEF n
    <2>2. /\ IsSeq(SubSeq(p, 1, n)) /\ Len(SubSeq(p, 1, n)) = n
          /\ \A i \in 1 .. n : SubSeq(p, 1, n)[i] = p[i]
        BY <2>1, Begin
    <2> QED BY <2>2 DEF Parent, Front, n
<1>4. IsSeq(f)
    BY <1>2, <1>3, NoStack
<1> HIDE DEF f
<1>5. p # <<>> => Len(f) = Len(p) - 1 /\ IsPrefix(f, p)
    BY <1>1, <1>3, <1>4, PrefixIs
<1>6. ASSUME NEW z, Above(z, p) PROVE z = f \/ Above(z, f)
    <2>1. IsSeq(z) /\ z # <<>> /\ z # p /\ IsPrefix(z, p) /\ Len(z) \in Nat
        BY <1>6, PathLen DEF Above
    <2>2. Len(z) <= Len(p) /\ \A i \in 1 .. Len(z) : z[i] = p[i]
        BY <2>1, PrefixIs
    <2>3. Len(z) # Len(p)
        BY <2>1, <2>2, SamePath
    <2>4. p # <<>>
        BY <1>1, <2>1, <2>2, <2>3
    <2>5. IsPrefix(z, f)
        BY <1>1, <1>3, <1>4, <2>1, <2>2, <2>3, <2>4, PrefixIs
    <2> QED BY <2>1, <2>5 DEF Above
<1> QED BY <1>2, <1>4, <1>5, <1>6 DEF f

\* Above, in one order.
LEMMA AboveTwo ==
    ASSUME NEW p, IsSeq(p), NEW q, Above(q, p), NEW z, Above(z, q)
    PROVE  Above(z, p)
<1>1. IsSeq(z) /\ IsSeq(q) /\ z # q /\ z # <<>> /\ IsPrefix(z, q) /\ IsPrefix(q, p)
    BY DEF Above
<1>2. IsPrefix(z, p)
    BY <1>1, PrefixFacts
<1>3. z # p
    <2>1. ASSUME z = p PROVE FALSE
        <3>1. Len(q) <= Len(p) /\ Len(p) <= Len(q)
            BY <1>1, <2>1, PrefixFacts
        <3> QED BY <1>1, <2>1, <3>1, PrefixFacts
    <2> QED BY <2>1
<1> QED BY <1>1, <1>2, <1>3 DEF Above

\* A path and one more name.
LEMMA Appended ==
    ASSUME NEW p, IsSeq(p), NEW a
    PROVE  IsSeq(Append(p, a))
<1> DEFINE S == ToSet(p)
           T == S \cup {a}
           t == Append(p, a)
<1>1. p \in Seq(S)
    BY DEF IsSeq
<1> HIDE DEF S
<1>2. p \in Seq(T) /\ a \in T
    BY <1>1, LenProperties, SeqDef
<1> HIDE DEF T
<1>3. t \in Seq(T)
    BY <1>2, AppendProperties
<1> HIDE DEF t
<1> QED BY <1>3, SeqFacts DEF t

-----------------------------------------------------------------------------
(* Changes of the catalog *)

\* C becomes D, and no data is lost but at the paths in lost.
Kept(C, D, lost) ==
    \A p \in DOMAIN C \ lost : \E q \in DOMAIN D : D[q].id = C[p].id /\ D[q].data = C[p].data

\* A tree, as the assumption on the catalogs says it.
LEMMA TreeIsCatalog == ASSUME NEW C, IsCatalog(C) PROVE CatalogInv(C)
<1> SUFFICES ASSUME NEW p \in DOMAIN C
             PROVE  /\ IsSeq(p) /\ IsObject(C[p])
                    /\ \A z : Above(z, p) => z \in DOMAIN C /\ C[z].kind = "coll"
    BY DEF CatalogInv
<1>1. /\ p \in Seq(STRING) /\ C[p] \in Objects
      /\ \A n \in 1..Len(p) - 1 : SubSeq(p, 1, n) \in DOMAIN C /\ C[SubSeq(p, 1, n)].kind = "coll"
    BY DEF IsCatalog
<1>2. IsSeq(p) /\ Len(p) \in Nat
    BY <1>1, SeqFacts
<1>3. IsObject(C[p])
    BY <1>1 DEF Objects, IsObject
<1>4. ASSUME NEW z, Above(z, p) PROVE z \in DOMAIN C /\ C[z].kind = "coll"
    <2> DEFINE n == Len(z)
               t == SubSeq(p, 1, n)
    <2>1. IsSeq(z) /\ z # <<>> /\ z # p /\ IsPrefix(z, p) /\ n \in Nat /\ n # 0
        BY <1>4, PathLen DEF Above
    <2>2. n <= Len(p) /\ \A i \in 1 .. n : z[i] = p[i]
        BY <1>2, <2>1, PrefixIs
    <2>3. n # Len(p)
        BY <1>2, <2>1, <2>2, SamePath
    <2>4. IsSeq(t) /\ Len(t) = n /\ \A i \in 1 .. n : t[i] = p[i]
        BY <1>2, <2>1, <2>2, Begin
    <2>5. t \in DOMAIN C /\ C[t].kind = "coll"
        BY <1>1, <1>2, <2>1, <2>2, <2>3
    <2> HIDE DEF t
    <2>6. z = t
        BY <2>1, <2>2, <2>4, SamePath
    <2> QED BY <2>5, <2>6
<1> QED BY <1>2, <1>3, <1>4

\* A new object in a collection.
LEMMA Added ==
    ASSUME NEW C, CatalogInv(C), NEW p, IsSeq(p), p \notin DOMAIN C, NEW o, IsObject(o),
           Parent(p) \in DOMAIN C, C[Parent(p)].kind = "coll",
           NEW D, D = [q \in DOMAIN C \cup {p} |-> IF q = p THEN o ELSE C[q]]
    PROVE  CatalogInv(D) /\ Kept(C, D, {})
<1>1. /\ DOMAIN D = DOMAIN C \cup {p} /\ D[p] = o
      /\ \A q \in DOMAIN C : D[q] = C[q]
    OBVIOUS
<1> DEFINE f == Parent(p)
<1>2. \A z : Above(z, p) => z = f \/ Above(z, f)
    BY ParentFacts
<1> HIDE DEF f
<1>3. \A z : Above(z, p) => z \in DOMAIN C /\ C[z].kind = "coll"
    BY <1>2 DEF CatalogInv, f
<1>4. CatalogInv(D)
    BY <1>1, <1>3 DEF CatalogInv
<1> QED BY <1>1, <1>4 DEF Kept

\* Another object of the same kind in place of one.
LEMMA Replaced ==
    ASSUME NEW C, CatalogInv(C), NEW p \in DOMAIN C, NEW o, IsObject(o), o.kind = C[p].kind,
           NEW D, D = [q \in DOMAIN C \cup {p} |-> IF q = p THEN o ELSE C[q]]
    PROVE  /\ CatalogInv(D) /\ Kept(C, D, {p})
           /\ o.id = C[p].id /\ o.data = C[p].data => Kept(C, D, {})
<1>1. /\ DOMAIN D = DOMAIN C /\ D[p] = o
      /\ \A q \in DOMAIN C \ {p} : D[q] = C[q]
    OBVIOUS
<1>2. \A q \in DOMAIN C : D[q].kind = C[q].kind /\ IsObject(D[q])
    BY <1>1 DEF CatalogInv
<1>3. CatalogInv(D)
    BY <1>1, <1>2 DEF CatalogInv
<1>4. Kept(C, D, {p})
    BY <1>1 DEF Kept
<1>5. ASSUME o.id = C[p].id, o.data = C[p].data PROVE Kept(C, D, {})
    BY <1>1, <1>5 DEF Kept
<1> QED BY <1>3, <1>4, <1>5

\* An object with its id and its data in place of one.
LEMMA ReplacedSame ==
    ASSUME NEW C, CatalogInv(C), NEW p \in DOMAIN C, NEW o, IsObject(o), o.kind = C[p].kind,
           o.id = C[p].id, o.data = C[p].data,
           NEW D, D = [q \in DOMAIN C \cup {p} |-> IF q = p THEN o ELSE C[q]]
    PROVE  CatalogInv(D) /\ Kept(C, D, {})
<1>1. /\ DOMAIN D = DOMAIN C /\ D[p] = o
      /\ \A q \in DOMAIN C \ {p} : D[q] = C[q]
    OBVIOUS
<1>2. \A q \in DOMAIN C : D[q].kind = C[q].kind /\ IsObject(D[q])
    BY <1>1 DEF CatalogInv
<1>3. CatalogInv(D)
    BY <1>1, <1>2 DEF CatalogInv
<1> QED BY <1>1, <1>3 DEF Kept

\* Objects go, and with a collection all that is below it.
LEMMA Removed ==
    ASSUME NEW C, CatalogInv(C), NEW P,
           \A z \in P : \A q \in DOMAIN C : Above(z, q) => q \in P,
           NEW D, D = [q \in DOMAIN C \ P |-> C[q]]
    PROVE  CatalogInv(D) /\ Kept(C, D, P)
<1>1. DOMAIN D = DOMAIN C \ P /\ \A q \in DOMAIN C \ P : D[q] = C[q]
    OBVIOUS
<1>2. CatalogInv(D)
    BY <1>1 DEF CatalogInv
<1> QED BY <1>1, <1>2 DEF Kept

\* A data object goes.
LEMMA RemovedOne ==
    ASSUME NEW C, CatalogInv(C), NEW p \in DOMAIN C, C[p].kind = "data",
           NEW D, D = [q \in DOMAIN C \ {p} |-> C[q]]
    PROVE  CatalogInv(D) /\ Kept(C, D, {p})
<1>1. \A z \in {p} : \A q \in DOMAIN C : Above(z, q) => q \in {p}
    BY DEF CatalogInv
<1> QED BY <1>1, Removed

\* A collection goes.
LEMMA RemovedTree ==
    ASSUME NEW C, CatalogInv(C), NEW p, IsSeq(p),
           NEW D, D = [q \in DOMAIN C \ Tree(C, p) |-> C[q]]
    PROVE  CatalogInv(D) /\ Kept(C, D, Tree(C, p))
<1>1. ASSUME NEW z \in Tree(C, p), NEW q \in DOMAIN C, Above(z, q) PROVE q \in Tree(C, p)
    <2>1. IsSeq(z) /\ IsSeq(q) /\ IsPrefix(p, z) /\ IsPrefix(z, q)
        BY <1>1 DEF Tree, Above, CatalogInv
    <2>2. IsPrefix(p, q)
        BY <2>1, PrefixFacts
    <2> QED BY <2>2 DEF Tree
<1> DEFINE P == Tree(C, p)
<1>2. \A z \in P : \A q \in DOMAIN C : Above(z, q) => q \in P
    BY <1>1
<1> HIDE DEF P
<1> QED BY <1>2, Removed DEF P

\* A collection and the missing ones above it.
LEMMA AddedLine ==
    ASSUME NEW C, CatalogInv(C), NEW p, IsSeq(p),
           NEW line, line = {SubSeq(p, 1, n) : n \in 1..Len(p)},
           \A q \in line : q \in DOMAIN C => C[q].kind # "data",
           NEW D, DOMAIN D = DOMAIN C \cup line, \A q \in DOMAIN C : D[q] = C[q],
           \A q \in line \ DOMAIN C : IsObject(D[q]) /\ D[q].kind = "coll"
    PROVE  CatalogInv(D) /\ Kept(C, D, {})
<1>1. Len(p) \in Nat
    BY PathLen
<1>4. ASSUME NEW z, IsSeq(z), IsPrefix(z, p), z # <<>> PROVE z \in line
    <2> DEFINE n == Len(z)
               t == SubSeq(p, 1, n)
    <2>1. n \in Nat /\ n # 0 /\ n <= Len(p) /\ \A i \in 1 .. n : z[i] = p[i]
        BY <1>4, PathLen, PrefixIs
    <2>2. IsSeq(t) /\ Len(t) = n /\ \A i \in 1 .. n : t[i] = p[i]
        BY <2>1, Begin
    <2>3. t \in line
        BY <1>1, <2>1
    <2> HIDE DEF t
    <2>4. z = t
        BY <1>4, <2>1, <2>2, SamePath
    <2> QED BY <2>3, <2>4
<1>5. ASSUME NEW q \in line PROVE IsSeq(q) /\ IsPrefix(q, p)
    <2>1. PICK n \in 1 .. Len(p) : q = SubSeq(p, 1, n)
        OBVIOUS
    <2>2. n \in Nat /\ n <= Len(p)
        BY <1>1
    <2>3. IsSeq(q) /\ Len(q) = n /\ \A i \in 1 .. n : q[i] = p[i]
        BY <2>1, <2>2, Begin
    <2> QED BY <2>2, <2>3, PrefixIs
<1>6. \A q \in line : D[q].kind = "coll" /\ IsObject(D[q])
    <2> TAKE q \in line
    <2>1. CASE q \in DOMAIN C
        BY <2>1 DEF CatalogInv, IsObject, Kinds
    <2>2. CASE q \notin DOMAIN C
        BY <2>2
    <2> QED BY <2>1, <2>2
<1>7. ASSUME NEW q \in line, NEW z, Above(z, q) PROVE z \in line
    <2>1. IsSeq(q) /\ IsPrefix(q, p)
        BY <1>5
    <2>2. IsSeq(z) /\ z # <<>> /\ IsPrefix(z, q)
        BY <1>7 DEF Above
    <2>3. IsPrefix(z, p)
        BY <2>1, <2>2, PrefixFacts
    <2> QED BY <1>4, <2>2, <2>3
<1>8. CatalogInv(D)
    <2>1. ASSUME NEW q \in line
          PROVE  /\ IsSeq(q) /\ IsObject(D[q])
                 /\ \A z : Above(z, q) => z \in DOMAIN D /\ D[z].kind = "coll"
        BY <1>5, <1>6, <1>7
    <2>2. ASSUME NEW q \in DOMAIN C
          PROVE  /\ IsSeq(q) /\ IsObject(D[q])
                 /\ \A z : Above(z, q) => z \in DOMAIN D /\ D[z].kind = "coll"
        BY DEF CatalogInv
    <2> QED BY <2>1, <2>2 DEF CatalogInv
<1> QED BY <1>8 DEF Kept

\* m has the names of r, and then those that q has below p.
MovesTo(q, p, r, m) ==
    /\ IsSeq(m) /\ Len(m) = Len(r) + Len(q) - Len(p)
    /\ \A i \in 1 .. Len(r) : m[i] = r[i]
    /\ \A i \in Len(r) + 1 .. Len(r) + Len(q) - Len(p) : m[i] = q[i - Len(r) + Len(p)]

\* Where a path below p goes when p becomes r.
LEMMA MovedNames ==
    ASSUME NEW p, IsSeq(p), NEW q, IsSeq(q), NEW r, IsSeq(r), IsPrefix(p, q)
    PROVE  MovesTo(q, p, r, Moved(q, p, r))
<1> DEFINE R == ToSet(r)
           Q == ToSet(q)
           S == R \cup Q
           a == Len(p) + 1
           n == Len(q)
           t == SubSeq(q, a, n)
           m == r \o t
<1>1. r \in Seq(R) /\ q \in Seq(Q) /\ Len(p) \in Nat /\ Len(p) <= Len(q)
    BY PathLen, PrefixIs DEF IsSeq
<1> HIDE DEF R, Q
<1>2. Len(q) \in Nat /\ Len(r) \in Nat /\ r \in Seq(S) /\ q \in Seq(S)
    BY <1>1, LenProperties, SeqDef
<1>3. a \in Int /\ n \in Int /\ \A i \in a .. n : q[i] \in S
    BY <1>1, <1>2, LenProperties
<1> HIDE DEF S, n, a
<1>4. /\ t \in Seq(S) /\ Len(t) = IF a <= n THEN n - a + 1 ELSE 0
      /\ \A i \in 1 .. n - a + 1 : t[i] = q[a + i - 1]
    BY <1>3, SubSeqProperties
<1> HIDE DEF t
<1>5. t \in Seq(S) /\ Len(t) = n - Len(p) /\ \A i \in 1 .. n - Len(p) : t[i] = q[Len(p) + i]
    BY <1>1, <1>2, <1>4 DEF a, n
<1>6. /\ m \in Seq(S) /\ Len(m) = Len(r) + Len(t)
      /\ \A i \in 1 .. Len(r) + Len(t) : m[i] = IF i <= Len(r) THEN r[i] ELSE t[i - Len(r)]
    BY <1>2, <1>5, ConcatProperties
<1> HIDE DEF m
<1>7. IsSeq(m)
    BY <1>6, SeqFacts
<1>8. Len(m) = Len(r) + Len(q) - Len(p) /\ \A i \in 1 .. Len(r) : m[i] = r[i]
    <2>1. Len(t) \in Nat /\ Len(m) = Len(r) + Len(q) - Len(p)
        BY <1>1, <1>2, <1>5, <1>6 DEF n
    <2>2. \A i \in 1 .. Len(r) : i \in 1 .. Len(r) + Len(t) /\ i <= Len(r)
        BY <1>2, <2>1
    <2>3. \A i \in 1 .. Len(r) : m[i] = r[i]
        BY <1>6, <2>2
    <2> QED BY <2>1, <2>3
<1>9. ASSUME NEW i \in Len(r) + 1 .. Len(r) + Len(q) - Len(p)
      PROVE  m[i] = q[i - Len(r) + Len(p)]
    <2> DEFINE j == i - Len(r)
    <2>1. j \in 1 .. n - Len(p) /\ i \in 1 .. Len(r) + Len(t) /\ ~(i <= Len(r))
        BY <1>1, <1>2, <1>5 DEF n
    <2>2. m[i] = t[j] /\ Len(p) + j = i - Len(r) + Len(p)
        BY <1>1, <1>2, <1>6, <2>1
    <2> HIDE DEF j
    <2> QED BY <1>5, <2>1, <2>2
<1>10. Moved(q, p, r) = m
    BY DEF Moved, m, t, a, n
<1> QED BY <1>7, <1>8, <1>9, <1>10 DEF MovesTo

\* It comes back, and what is above another path stays above it.
LEMMA MovedFacts ==
    ASSUME NEW p, IsSeq(p), NEW q, IsSeq(q), NEW r, IsSeq(r), IsPrefix(p, q)
    PROVE  /\ IsSeq(Moved(q, p, r)) /\ IsPrefix(r, Moved(q, p, r))
           /\ Moved(Moved(q, p, r), r, p) = q
           /\ \A x : IsSeq(x) /\ IsPrefix(p, x) /\ IsPrefix(x, q) =>
                IsPrefix(Moved(x, p, r), Moved(q, p, r))
<1> DEFINE m == Moved(q, p, r)
           b == Moved(m, r, p)
<1>1. /\ IsSeq(m) /\ Len(m) = Len(r) + Len(q) - Len(p)
      /\ \A i \in 1 .. Len(r) : m[i] = r[i]
      /\ \A i \in Len(r) + 1 .. Len(r) + Len(q) - Len(p) : m[i] = q[i - Len(r) + Len(p)]
    <2>1. MovesTo(q, p, r, m)
        BY MovedNames
    <2> HIDE DEF m
    <2> QED BY <2>1 DEF MovesTo
<1>2. Len(p) \in Nat /\ Len(q) \in Nat /\ Len(r) \in Nat /\ Len(p) <= Len(q)
    BY PathLen, PrefixIs
<1>3. \A i \in 1 .. Len(p) : p[i] = q[i]
    BY PrefixIs
<1> HIDE DEF m
<1>4. IsPrefix(r, m)
    BY <1>1, <1>2, PrefixIs
<1>5. /\ IsSeq(b) /\ Len(b) = Len(p) + Len(m) - Len(r)
      /\ \A i \in 1 .. Len(p) : b[i] = p[i]
      /\ \A i \in Len(p) + 1 .. Len(p) + Len(m) - Len(r) : b[i] = m[i - Len(p) + Len(r)]
    <2>1. IsSeq(m)
        BY <1>1
    <2>2. MovesTo(m, r, p, b)
        BY <1>4, <2>1, MovedNames
    <2> HIDE DEF b
    <2> QED BY <2>2 DEF MovesTo
<1> HIDE DEF b
<1>6. b = q
    <2>1. Len(b) = Len(q)
        BY <1>1, <1>2, <1>5
    <2>2. ASSUME NEW i \in 1 .. Len(b) PROVE b[i] = q[i]
        <3>1. CASE i <= Len(p)
            BY <1>2, <1>3, <1>5, <3>1
        <3>2. CASE ~(i <= Len(p))
            <4> DEFINE j == i - Len(p) + Len(r)
            <4>1. j \in Len(r) + 1 .. Len(r) + Len(q) - Len(p) /\ b[i] = m[j]
                BY <1>1, <1>2, <1>5, <2>1, <3>2
            <4>2. j - Len(r) + Len(p) = i
                BY <1>2
            <4> HIDE DEF j
            <4> QED BY <1>1, <4>1, <4>2
        <3> QED BY <3>1, <3>2
    <2> QED BY <1>5, <2>1, <2>2, SamePath
<1>7. ASSUME NEW x, IsSeq(x), IsPrefix(p, x), IsPrefix(x, q)
      PROVE  IsPrefix(Moved(x, p, r), m)
    <2> DEFINE y == Moved(x, p, r)
    <2>1. /\ IsSeq(y) /\ Len(y) = Len(r) + Len(x) - Len(p)
          /\ \A i \in 1 .. Len(r) : y[i] = r[i]
          /\ \A i \in Len(r) + 1 .. Len(r) + Len(x) - Len(p) : y[i] = x[i - Len(r) + Len(p)]
        <3>1. MovesTo(x, p, r, y)
            BY <1>7, MovedNames
        <3> HIDE DEF y
        <3> QED BY <3>1 DEF MovesTo
    <2>2. /\ Len(x) \in Nat /\ Len(x) <= Len(q) /\ Len(p) <= Len(x)
          /\ \A i \in 1 .. Len(x) : x[i] = q[i]
        BY <1>7, PathLen, PrefixIs
    <2> HIDE DEF y
    <2>3. ASSUME NEW i \in 1 .. Len(y) PROVE y[i] = m[i]
        <3>1. CASE i <= Len(r)
            BY <1>1, <1>2, <2>1, <2>2, <3>1
        <3>2. CASE ~(i <= Len(r))
            <4> DEFINE j == i - Len(r) + Len(p)
            <4>1. j \in 1 .. Len(x) /\ y[i] = x[j] /\ m[i] = q[j]
                BY <1>1, <1>2, <2>1, <2>2, <3>2
            <4> HIDE DEF j
            <4> QED BY <2>2, <4>1
        <3> QED BY <3>1, <3>2
    <2>4. Len(y) <= Len(m)
        BY <1>1, <1>2, <2>1, <2>2
    <2> QED BY <1>1, <2>1, <2>3, <2>4, PrefixIs DEF y
<1> QED BY <1>1, <1>4, <1>6, <1>7 DEF m, b

\* The path that something is renamed to has nothing below it.
LEMMA NothingBelow ==
    ASSUME NEW C, CatalogInv(C), NEW r, IsSeq(r), Parent(r) \in DOMAIN C,
           r \notin DOMAIN C \/ Children(C, r) = {}
    PROVE  \A x \in DOMAIN C : IsPrefix(r, x) => x = r
<1> SUFFICES ASSUME NEW x \in DOMAIN C, IsPrefix(r, x), x # r PROVE FALSE
    OBVIOUS
<1>1. IsSeq(x) /\ Len(x) \in Nat /\ Len(r) \in Nat /\ Len(r) <= Len(x)
    BY PathLen, PrefixIs DEF CatalogInv
<1>2. r \in DOMAIN C
    <2>1. CASE r = <<>>
        BY <2>1, ParentFacts
    <2>2. CASE r # <<>>
        BY <2>2 DEF CatalogInv, Above
    <2> QED BY <2>1, <2>2
<1> DEFINE n == Len(r) + 1
           t == SubSeq(x, 1, n)
<1>3. Len(r) # Len(x)
    BY <1>1, PrefixFacts
<1>4. n \in Nat /\ n <= Len(x)
    BY <1>1, <1>3
<1>5. IsSeq(t) /\ Len(t) = n /\ \A i \in 1 .. n : t[i] = x[i]
    BY <1>1, <1>4, Begin
<1> HIDE DEF t
<1>6. IsPrefix(t, x) /\ IsPrefix(r, t) /\ t # r /\ t # <<>>
    <2>1. IsPrefix(t, x)
        BY <1>1, <1>4, <1>5, PrefixIs
    <2>2. \A i \in 1 .. Len(r) : r[i] = x[i]
        BY <1>1, PrefixIs
    <2>3. IsPrefix(r, t)
        BY <1>1, <1>5, <2>2, PrefixIs
    <2>4. t # r /\ t # <<>>
        BY <1>1, <1>5, NoStack
    <2> QED BY <2>1, <2>3, <2>4
<1>7. t \in DOMAIN C
    <2>1. CASE t = x
        BY <2>1
    <2>2. CASE t # x
        BY <1>5, <1>6, <2>2 DEF CatalogInv, Above
    <2> QED BY <2>1, <2>2
<1>8. t \in Children(C, r)
    BY <1>5, <1>6, <1>7 DEF Children, Below, Tree
<1> QED BY <1>2, <1>8

\* p becomes r, and all that is below it goes with it.
LEMMA RenamedTree ==
    ASSUME NEW C, CatalogInv(C), NEW p, IsSeq(p), NEW r, IsSeq(r), ~IsPrefix(p, r),
           Parent(r) \in DOMAIN C, C[Parent(r)].kind = "coll",
           r \notin DOMAIN C \/ Children(C, r) = {},
           NEW image, image = {Moved(q, p, r) : q \in Tree(C, p)},
           NEW D, DOMAIN D = (DOMAIN C \ (Tree(C, p) \cup {r})) \cup image,
           \A q \in DOMAIN D : D[q] = IF q \in image THEN C[Moved(q, r, p)] ELSE C[q]
    PROVE  CatalogInv(D) /\ Kept(C, D, {r})
<1> DEFINE T == Tree(C, p)
<1>1. \A x \in DOMAIN C : IsPrefix(r, x) => x = r
    BY NothingBelow
<1>2. p # <<>> /\ Len(p) \in Nat \ {0}
    <2>1. Len(p) \in Nat /\ Len(r) \in Nat
        BY PathLen
    <2>2. ~(Len(p) = 0)
        BY <2>1, PrefixIs
    <2> QED BY <2>1, <2>2, NoStack
<1>3. \A q \in T : q \in DOMAIN C /\ IsSeq(q) /\ IsPrefix(p, q)
    BY DEF Tree, CatalogInv
<1>4. /\ \A q \in T : Moved(q, p, r) \in DOMAIN D /\ D[Moved(q, p, r)] = C[q]
      /\ \A y \in image : \E q \in T : y = Moved(q, p, r)
    <2>1. ASSUME NEW q \in T
          PROVE  Moved(q, p, r) \in DOMAIN D /\ D[Moved(q, p, r)] = C[q]
        <3> DEFINE y == Moved(q, p, r)
        <3>1. Moved(y, r, p) = q
            BY <1>3, MovedFacts
        <3>2. y \in image
            OBVIOUS
        <3> HIDE DEF y
        <3> QED BY <3>1, <3>2 DEF y
    <2> QED BY <2>1
<1>5. /\ DOMAIN D = (DOMAIN C \ (T \cup {r})) \cup image
      /\ \A q \in DOMAIN C \ (T \cup {r}) : q \notin image => D[q] = C[q]
    OBVIOUS
<1>6. \A y \in image : IsSeq(y) /\ IsPrefix(r, y)
    <2> TAKE y \in image
    <2>1. PICK q \in T : y = Moved(q, p, r)
        BY <1>4
    <2> QED BY <1>3, <2>1, MovedFacts
<1>7. \A x \in DOMAIN C : x # r => x \notin image
    BY <1>1, <1>6
<1> HIDE DEF T
<1>8. ASSUME NEW y \in image
      PROVE  /\ IsSeq(y) /\ IsObject(D[y])
             /\ \A z : Above(z, y) => z \in DOMAIN D /\ D[z].kind = "coll"
    <2>1. PICK q \in T : y = Moved(q, p, r)
        BY <1>4
    <2>2. q \in DOMAIN C /\ IsSeq(q) /\ IsPrefix(p, q) /\ D[y] = C[q] /\ Moved(y, r, p) = q
          /\ IsSeq(y) /\ IsPrefix(r, y)
        BY <1>3, <1>4, <1>6, <2>1, MovedFacts
    <2>3. ASSUME NEW z, Above(z, y) PROVE z \in DOMAIN D /\ D[z].kind = "coll"
        <3>1. IsSeq(z) /\ z # <<>> /\ z # y /\ IsPrefix(z, y)
            BY <2>3 DEF Above
        <3>2. CASE IsPrefix(r, z)
            <4> DEFINE x == Moved(z, r, p)
            <4>1. /\ IsSeq(x) /\ IsPrefix(p, x) /\ Moved(x, p, r) = z
                  /\ IsPrefix(x, Moved(y, r, p))
                <5>1. IsSeq(x) /\ IsPrefix(p, x) /\ Moved(x, p, r) = z
                    BY <3>1, <3>2, MovedFacts
                <5>2. IsPrefix(x, Moved(y, r, p))
                    BY <2>2, <3>1, <3>2, MovedFacts
                <5> QED BY <5>1, <5>2
            <4> HIDE DEF x
            <4>2. x # q /\ x # <<>>
                <5>1. x # q
                    BY <2>1, <3>1, <4>1
                <5>2. Len(x) \in Nat /\ Len(p) <= Len(x)
                    BY <4>1, PathLen, PrefixFacts
                <5> QED BY <1>2, <5>1, <5>2, PathLen, NoStack
            <4>3. Above(x, q)
                BY <2>2, <4>1, <4>2 DEF Above
            <4>4. x \in DOMAIN C /\ C[x].kind = "coll"
                BY <2>2, <4>3 DEF CatalogInv
            <4>5. x \in T
                BY <4>1, <4>4 DEF T, Tree
            <4> QED BY <1>4, <4>1, <4>4, <4>5
        <3>3. CASE ~IsPrefix(r, z)
            <4>1. IsPrefix(z, r) /\ z # r
                <5>1. IsPrefix(z, r)
                    BY <2>2, <3>1, <3>3, PrefixFacts
                <5>2. z # r
                    BY <3>3, PrefixFacts
                <5> QED BY <5>1, <5>2
            <4>2. Above(z, r)
                BY <3>1, <4>1 DEF Above
            <4>3. z \in DOMAIN C /\ C[z].kind = "coll"
                <5> DEFINE f == Parent(r)
                <5>1. z = f \/ Above(z, f)
                    BY <4>2, ParentFacts
                <5> HIDE DEF f
                <5> QED BY <5>1 DEF CatalogInv, f
            <4>4. z \notin T
                <5>1. ASSUME z \in T PROVE FALSE
                    <6>1. IsPrefix(p, z)
                        BY <1>3, <5>1
                    <6> QED BY <3>1, <4>1, <6>1, PrefixFacts
                <5> QED BY <5>1
            <4>5. z \notin image
                BY <1>6, <3>3
            <4> QED BY <1>5, <4>1, <4>3, <4>4, <4>5
        <3> QED BY <3>2, <3>3
    <2> QED BY <2>2, <2>3 DEF CatalogInv
<1>9. ASSUME NEW y \in DOMAIN C \ (T \cup {r})
      PROVE  /\ IsSeq(y) /\ IsObject(D[y])
             /\ \A z : Above(z, y) => z \in DOMAIN D /\ D[z].kind = "coll"
    <2>1. D[y] = C[y] /\ IsSeq(y)
        BY <1>5, <1>7 DEF CatalogInv
    <2>2. ASSUME NEW z, Above(z, y) PROVE z \in DOMAIN D /\ D[z].kind = "coll"
        <3>1. z \in DOMAIN C /\ C[z].kind = "coll" /\ IsSeq(z) /\ IsPrefix(z, y)
            BY <2>2 DEF CatalogInv, Above
        <3>2. z \notin T
            <4>1. ASSUME z \in T PROVE FALSE
                <5>1. IsPrefix(p, z)
                    BY <1>3, <4>1
                <5>2. IsPrefix(p, y)
                    BY <2>1, <3>1, <5>1, PrefixFacts
                <5> QED BY <5>2 DEF T, Tree
            <4> QED BY <4>1
        <3>3. z # r
            BY <1>1, <3>1
        <3> QED BY <1>5, <1>7, <3>1, <3>2, <3>3
    <2> QED BY <2>1, <2>2 DEF CatalogInv
<1>10. CatalogInv(D)
    BY <1>5, <1>8, <1>9 DEF CatalogInv
<1>11. Kept(C, D, {r})
    <2> SUFFICES ASSUME NEW x \in DOMAIN C, x # r
                 PROVE  \E q \in DOMAIN D : D[q].id = C[x].id /\ D[q].data = C[x].data
        BY DEF Kept
    <2>1. CASE x \in T
        BY <1>4, <2>1
    <2>2. CASE x \notin T
        BY <1>5, <1>7, <2>2
    <2> QED BY <2>1, <2>2
<1> QED BY <1>10, <1>11

-----------------------------------------------------------------------------
(* Frames and handles *)

\* A step of the client c in the operation that it is in.
Keeps(c, frames) ==
    /\ \A d \in Clients \ {c} : client'[d] = client[d]
    /\ client'[c].op = client[c].op /\ client'[c].frames = frames

\* What has to be shown of every step.
DataStep ==
    /\ CatalogInv(cat') /\ EntriesInv(handles')
    /\ \A c \in Clients : FramesOf(client'[c].frames, client'[c].op)
    /\ KeepsData

\* The record of the client becomes m.
LEMMA Sets ==
    ASSUME Inv, NEW c \in Clients, NEW m, m.op = client[c].op, client' = [client EXCEPT ![c] = m]
    PROVE  Keeps(c, m.frames)
<1>1. DOMAIN client = Clients
    BY DEF Inv
<1> QED BY <1>1 DEF Keeps

\* A frame changes or calls another one.
LEMMA ContinueSets ==
    ASSUME Inv, NEW c \in Clients, NEW fs, Continue(c, fs)
    PROVE  Keeps(c, Front(client[c].frames) \o fs)
<1> DEFINE r == Front(client[c].frames) \o fs
           m == [client[c] EXCEPT !.frames = r]
<1>1. client' = [client EXCEPT ![c] = m]
    BY DEF Continue, Become
<1> HIDE DEF r
<1>2. m.op = client[c].op /\ m.frames = r
    BY DEF Inv, ClientInv, IsClient
<1> HIDE DEF m
<1>3. Keeps(c, m.frames)
    BY <1>1, <1>2, Sets
<1> QED BY <1>2, <1>3 DEF r

\* A function returns.
LEMMA ReturnSets ==
    ASSUME Inv, NEW c \in Clients, Busy(c), NEW value, Return(c, value)
    PROVE  Keeps(c, Front(client[c].frames)) /\ client'[c] # client[c]
<1> DEFINE s == client[c].frames
           f == Front(s)
           r == f \o <<>>
           k == [client[c] EXCEPT !.frames = r]
           m == [k EXCEPT !.outcome = IF Len(s) = 1 THEN value ELSE @]
<1>1. client' = [client EXCEPT ![c] = m] /\ DOMAIN client = Clients
    BY DEF Return, Become, Inv
<1>2. FramesInv(s) /\ s # <<>> /\ IsClient(client[c])
    BY TopFacts DEF ClientInv
<1>3. Len(f) = Len(s) - 1 /\ Len(s) \in Nat /\ IsSeq(f)
    <2> HIDE DEF s
    <2> QED BY <1>2, FramePopped DEF FramesInv
<1>4. r = f
    <2> HIDE DEF f
    <2> QED BY <1>3, Become3
<1> HIDE DEF r, s, f
<1>5. k.op = client[c].op /\ k.frames = r /\ IsClient(k)
    BY <1>2 DEF IsClient
<1> HIDE DEF k
<1>6. m.op = client[c].op /\ m.frames = r
    BY <1>5 DEF IsClient
<1> HIDE DEF m
<1>7. Keeps(c, m.frames) /\ client'[c] = m
    BY <1>1, <1>6, Sets
<1>8. r # s
    BY <1>3, <1>4
<1> QED BY <1>4, <1>6, <1>7, <1>8 DEF f, s

\* The whole stack goes.
LEMMA UnwindSets ==
    ASSUME Inv, NEW c \in Clients, NEW outcome, Unwinds(c, outcome) PROVE Keeps(c, <<>>)
<1>1. client' = [client EXCEPT ![c] =
            [client[c] EXCEPT !.frames = <<>>, !.walk = <<>>, !.outcome = outcome]]
    BY DEF Unwinds, Inv
<1> DEFINE m == [client[c] EXCEPT !.frames = <<>>, !.walk = <<>>, !.outcome = outcome]
<1>2. m.op = client[c].op /\ m.frames = <<>>
    BY DEF Inv, ClientInv, IsClient
<1>3. client' = [client EXCEPT ![c] = m]
    BY <1>1
<1> HIDE DEF m
<1>4. Keeps(c, m.frames)
    BY <1>2, <1>3, Sets
<1> QED BY <1>2, <1>4

\* A frame that is at another step, or has seen more, is for the same paths.
LEMMA SameFrame ==
    ASSUME NEW f, IsFrame(f), NEW op, FrameOf(f, op), NEW x
    PROVE  FrameOf([f EXCEPT !.at = x], op) /\ FrameOf([f EXCEPT !.seen = x], op)
BY DEF IsFrame, FrameOf, Overwrites

\* The top frame, and those below it.
LEMMA TopOf ==
    ASSUME DataInv, NEW c \in Clients, Busy(c)
    PROVE  /\ FrameOf(Top(c), client[c].op) /\ IsFrame(Top(c))
           /\ FramesOf(Front(client[c].frames), client[c].op)
           /\ IsSeq(Front(client[c].frames))
<1> DEFINE s == client[c].frames
           f == Front(s)
<1>1. FramesInv(s) /\ s # <<>> /\ Len(s) \in Nat \ {0} /\ Top(c) = s[Len(s)] /\ IsFrame(Top(c))
    BY TopFacts DEF DataInv
<1>2. FramesOf(s, client[c].op)
    BY DEF DataInv
<1> HIDE DEF s
<1>3. IsSeq(f) /\ Len(f) = Len(s) - 1 /\ \A i \in 1 .. Len(s) - 1 : f[i] = s[i]
    BY <1>1, FramePopped DEF FramesInv
<1> HIDE DEF f
<1>4. FrameOf(Top(c), client[c].op) /\ FramesOf(f, client[c].op)
    BY <1>1, <1>2, <1>3 DEF FramesOf
<1> QED BY <1>1, <1>3, <1>4 DEF f, s

\* One frame more.
LEMMA OneMore ==
    ASSUME NEW s, IsSeq(s), NEW op, FramesOf(s, op), NEW a, FrameOf(a, op)
    PROVE  FramesOf(Append(s, a), op) /\ IsSeq(Append(s, a))
<1> DEFINE S == ToSet(s)
           T == S \cup {a}
           t == Append(s, a)
<1>1. s \in Seq(S)
    BY DEF IsSeq
<1> HIDE DEF S
<1>2. s \in Seq(T) /\ a \in T /\ Len(s) \in Nat
    BY <1>1, LenProperties, SeqDef
<1> HIDE DEF T
<1>3. Len(t) = Len(s) + 1 /\ (\A i \in 1 .. Len(s) : t[i] = s[i]) /\ t[Len(s) + 1] = a
    BY <1>2, AppendProperties
<1> HIDE DEF t
<1>4. FramesOf(t, op)
    BY <1>2, <1>3 DEF FramesOf
<1> QED BY <1>4, Appended DEF t

\* The stack of a client in place of its top.
LEMMA StackOf ==
    ASSUME NEW s, IsSeq(s), NEW op, FramesOf(s, op), NEW a, FrameOf(a, op), NEW b, FrameOf(b, op)
    PROVE  FramesOf(s \o <<a>>, op) /\ FramesOf(s \o <<a, b>>, op)
<1> DEFINE t == Append(s, a)
           u == Append(t, b)
<1>1. FramesOf(t, op) /\ IsSeq(t)
    BY OneMore
<1>2. s \o <<a>> = t /\ s \o <<a, b>> = u
    BY Become3
<1> HIDE DEF t
<1>3. FramesOf(u, op)
    BY <1>1, OneMore
<1> QED BY <1>1, <1>2, <1>3

\* A step that leaves the catalog as it is.
LEMMA LeavesCatalog ==
    ASSUME DataInv, NEW c \in Clients, NEW frames, Keeps(c, frames),
           FramesOf(frames, client[c].op), UNCHANGED cat, EntriesInv(handles')
    PROVE  DataStep
<1>1. \A d \in Clients : FramesOf(client'[d].frames, client'[d].op)
    BY DEF DataInv, Keeps
<1>2. KeepsData
    BY DEF KeepsData
<1> QED BY <1>1, <1>2 DEF DataStep, DataInv

\* The empty stack.
LEMMA NoFrames == ASSUME NEW op PROVE FramesOf(<<>>, op)
<1>1. 1 .. Len(<<>>) = {}
    BY NoStack
<1> QED BY <1>1 DEF FramesOf

\* Handles that open, close and move.
LEMMA EntriesKept ==
    ASSUME NEW H, EntriesInv(H)
    PROVE  /\ \A hs : EntriesInv(Closed(H, hs))
           /\ \A left, read : (\A e \in left : IsSeq(e.path)) => EntriesInv(Opened(H, left, read))
<1>1. ASSUME NEW hs PROVE EntriesInv(Closed(H, hs))
    BY DEF EntriesInv, Closed
<1>2. ASSUME NEW left, NEW read, \A e \in left : IsSeq(e.path)
      PROVE  EntriesInv(Opened(H, left, read))
    <2> DEFINE n == NewHandle(H)
               G == Opened(H, left, read)
    <2>1. /\ DOMAIN G = DOMAIN H \cup {n}
          /\ \A h \in DOMAIN G : G[h] = IF h = n THEN [left |-> left, read |-> read] ELSE H[h]
        BY DEF Opened
    <2> HIDE DEF n, G
    <2>2. \A h \in DOMAIN G : \A e \in G[h].left : IsSeq(e.path)
        BY <1>2, <2>1 DEF EntriesInv
    <2> QED BY <2>2 DEF EntriesInv, G
<1> QED BY <1>1, <1>2

\* An entry is taken, or the end is read.
LEMMA EntryTaken ==
    ASSUME NEW H, HandlesInv(H), EntriesInv(H), NEW n
    PROVE  /\ \A left : left \subseteq H[n].left =>  EntriesInv([H EXCEPT ![n].left = left])
           /\ \A read : EntriesInv([H EXCEPT ![n].read = read])
<1>1. ASSUME NEW left, left \subseteq H[n].left PROVE EntriesInv([H EXCEPT ![n].left = left])
    <2> DEFINE G == [H EXCEPT ![n].left = left]
    <2>1. DOMAIN G = DOMAIN H /\ \A h \in DOMAIN H \ {n} : G[h] = H[h]
        OBVIOUS
    <2>2. n \in DOMAIN H => G[n] = [left |-> left, read |-> H[n].read]
        BY DEF HandlesInv
    <2> HIDE DEF G
    <2>3. \A h \in DOMAIN G : G[h].left \subseteq H[h].left
        BY <1>1, <2>1, <2>2
    <2> QED BY <2>1, <2>3 DEF EntriesInv, G
<1>2. ASSUME NEW read PROVE EntriesInv([H EXCEPT ![n].read = read])
    <2> DEFINE G == [H EXCEPT ![n].read = read]
    <2>1. DOMAIN G = DOMAIN H /\ \A h \in DOMAIN H \ {n} : G[h] = H[h]
        OBVIOUS
    <2>2. n \in DOMAIN H => G[n] = [left |-> H[n].left, read |-> read]
        BY DEF HandlesInv
    <2> HIDE DEF G
    <2>3. \A h \in DOMAIN G : G[h].left \subseteq H[h].left
        BY <2>1, <2>2
    <2> QED BY <2>1, <2>3 DEF EntriesInv, G
<1> QED BY <1>1, <1>2

\* The entries of a collection are paths in the catalog.
LEMMA EntriesArePaths ==
    ASSUME CatalogInv(cat), NEW p
    PROVE  \A e \in Entries(p) : IsSeq(e.path)
BY DEF Entries, Children, Below, Tree, CatalogInv

-----------------------------------------------------------------------------
(* Steps *)

\* What is thrown.
LEMMA ThrowFromData ==
    ASSUME DataInv, NEW c \in Clients, NEW owned, NEW H, EntriesInv(H), ThrowFrom(c, owned, H)
    PROVE  DataStep
<1>1. Keeps(c, <<>>) /\ UNCHANGED cat /\ handles' = Closed(H, owned)
    BY UnwindSets DEF DataInv, ThrowFrom, Unwind
<1>2. EntriesInv(handles')
    BY <1>1, EntriesKept
<1> QED BY <1>1, <1>2, NoFrames, LeavesCatalog

LEMMA ThrowData == ASSUME DataInv, NEW c \in Clients, Throw(c) PROVE DataStep
BY ThrowFromData DEF Throw, DataInv

\* A process that ends.
LEMMA CrashData == ASSUME DataInv, NEW c \in Clients, Crash(c) PROVE DataStep
<1>1. Keeps(c, <<>>) /\ UNCHANGED cat /\ handles' = Closed(handles, Owned(c))
    BY UnwindSets DEF DataInv, Crash
<1>2. EntriesInv(handles')
    BY <1>1, EntriesKept DEF DataInv
<1> QED BY <1>1, <1>2, NoFrames, LeavesCatalog

\* A collection that cannot be opened or read.
LEMMA OpenFailsData ==
    ASSUME DataInv, NEW c \in Clients, NEW p, NEW owned, NEW H, EntriesInv(H),
           OpenFails(c, p, owned, H)
    PROVE  DataStep
<1> DEFINE G == Opened(H, Entries(p), "none")
<1>1. EntriesInv(G)
    BY EntriesArePaths, EntriesKept DEF DataInv
<1>2. ThrowFrom(c, owned, H) \/ ThrowFrom(c, owned, G)
    BY DEF OpenFails
<1> HIDE DEF G
<1> QED BY <1>1, <1>2, ThrowFromData

\* A function returns, and leaves the catalog as it is.
LEMMA ReturnData ==
    ASSUME DataInv, NEW c \in Clients, Busy(c), NEW value, Return(c, value), UNCHANGED cat,
           EntriesInv(handles')
    PROVE  DataStep
<1> DEFINE f == Front(client[c].frames)
<1>1. Keeps(c, f) /\ FramesOf(f, client[c].op)
    BY ReturnSets, TopOf DEF DataInv
<1> HIDE DEF f
<1> QED BY <1>1, LeavesCatalog

\* A function goes on, or calls another one.
LEMMA ContinueData ==
    ASSUME DataInv, NEW c \in Clients, Busy(c),
           NEW a, FrameOf(a, client[c].op), NEW b, FrameOf(b, client[c].op),
           Continue(c, <<a>>) \/ Continue(c, <<a, b>>), UNCHANGED cat, EntriesInv(handles')
    PROVE  DataStep
<1> DEFINE s == Front(client[c].frames)
           r == s \o <<a>>
           t == s \o <<a, b>>
<1>1. IsSeq(s) /\ FramesOf(s, client[c].op)
    BY TopOf
<1>2. Keeps(c, r) \/ Keeps(c, t)
    BY ContinueSets DEF DataInv
<1> HIDE DEF s
<1>3. FramesOf(r, client[c].op) /\ FramesOf(t, client[c].op)
    BY <1>1, StackOf
<1> HIDE DEF r, t
<1> QED BY <1>2, <1>3, LeavesCatalog

\* A frame goes on for the same paths.
LEMMA GoesOnData ==
    ASSUME DataInv, NEW c \in Clients, Busy(c), NEW x,
           NEW a \in {Top(c), [Top(c) EXCEPT !.at = x], [Top(c) EXCEPT !.seen = x]},
           Continue(c, <<a>>), UNCHANGED cat, EntriesInv(handles')
    PROVE  DataStep
<1> DEFINE f == Top(c)
           op == client[c].op
<1>1. FrameOf(f, op) /\ IsFrame(f)
    BY TopOf
<1>2. a \in {f, [f EXCEPT !.at = x], [f EXCEPT !.seen = x]}
    OBVIOUS
<1> HIDE DEF f, op
<1>3. FrameOf(a, op)
    <2>1. FrameOf([f EXCEPT !.at = x], op) /\ FrameOf([f EXCEPT !.seen = x], op)
        BY <1>1, SameFrame
    <2> QED BY <1>1, <1>2, <2>1
<1> QED BY <1>3, ContinueData DEF op

\* A walk or a remove goes on, or the walk stops, and other fields of the
\* client change.
LEMMA AltersData ==
    ASSUME DataInv, NEW c \in Clients, Busy(c), NEW step, NEW m, m.op = client[c].op,
           m.frames \in {<<>>, Front(client[c].frames) \o <<[Top(c) EXCEPT !.at = step]>>},
           client' = [client EXCEPT ![c] = m], UNCHANGED cat, EntriesInv(handles')
    PROVE  DataStep
<1> DEFINE s == Front(client[c].frames)
           f == Top(c)
           op == client[c].op
           a == [f EXCEPT !.at = step]
           r == s \o <<a>>
<1>1. FrameOf(f, op) /\ IsFrame(f) /\ IsSeq(s) /\ FramesOf(s, op)
    BY TopOf
<1>2. m.frames = <<>> \/ m.frames = r
    OBVIOUS
<1> HIDE DEF f, s
<1>3. FramesOf(r, op)
    <2>1. FrameOf(a, op)
        BY <1>1, SameFrame
    <2> HIDE DEF a, op
    <2> QED BY <1>1, <2>1, StackOf
<1> HIDE DEF r
<1>4. FramesOf(m.frames, op)
    BY <1>2, <1>3, NoFrames
<1>5. Keeps(c, m.frames)
    BY Sets DEF DataInv
<1> QED BY <1>4, <1>5, LeavesCatalog DEF op

\* A request that changes the catalog.
LEMMA CallData ==
    ASSUME DataInv, NEW c \in Clients, Busy(c), NEW admitted, NEW C, NEW lost,
           admitted => CatalogInv(C) /\ Kept(cat, C, lost),
           \A p \in lost : Asked(client[c].op, p),
           Call(c, admitted, C) \/ CallOrFalse(c, admitted, C)
    PROVE  DataStep
<1>1. CASE Throw(c)
    BY <1>1, ThrowData
<1>2. CASE NoChange /\ Return(c, "false")
    BY <1>2, ReturnData DEF NoChange, DataInv
<1>3. CASE admitted /\ cat' = C /\ UNCHANGED handles /\ Return(c, "true")
    <2> DEFINE f == Front(client[c].frames)
    <2>1. Keeps(c, f) /\ client'[c] # client[c] /\ FramesOf(f, client[c].op)
        BY <1>3, ReturnSets, TopOf DEF DataInv
    <2> HIDE DEF f
    <2>2. \A d \in Clients : FramesOf(client'[d].frames, client'[d].op)
        BY <2>1 DEF DataInv, Keeps
    <2>3. CatalogInv(cat') /\ Kept(cat, cat', lost) /\ EntriesInv(handles')
        BY <1>3 DEF DataInv
    <2>4. KeepsData
        <3> SUFFICES ASSUME NEW p \in DOMAIN cat
                     PROVE  \/ \E q \in DOMAIN cat' :
                                    cat'[q].id = cat[p].id /\ cat'[q].data = cat[p].data
                            \/ \E d \in Clients : client'[d] # client[d] /\ Asked(client[d].op, p)
            BY DEF KeepsData
        <3>1. CASE p \in lost
            BY <2>1, <3>1
        <3>2. CASE p \notin lost
            BY <2>3, <3>2 DEF Kept
        <3> QED BY <3>1, <3>2
    <2> QED BY <2>2, <2>3, <2>4 DEF DataStep
<1> QED BY <1>1, <1>2, <1>3 DEF Call, CallOrFalse

\* What a look at the catalog finds.
LEMMA LookFacts ==
    ASSUME CatalogInv(cat), NEW p
    PROVE  /\ Found(Look(p)) <=> p \in DOMAIN cat
           /\ p \in DOMAIN cat => Look(p) = cat[p] /\ IsSeq(p) /\ IsObject(cat[p])
           /\ \A kind \in Kinds : Is(p, kind) <=> p \in DOMAIN cat /\ cat[p].kind = kind
<1>1. p \in DOMAIN cat => Look(p) = cat[p] /\ IsSeq(p) /\ IsObject(cat[p])
    BY DEF Look, CatalogInv
<1>2. p \notin DOMAIN cat => Look(p).kind = "not_found"
    BY DEF Look, Nothing
<1>3. p \in DOMAIN cat => Look(p).kind \in Kinds
    BY <1>1 DEF IsObject
<1>4. "not_found" \notin Kinds
    BY DEF Kinds
<1> QED BY <1>1, <1>2, <1>3, <1>4 DEF Found, Is

\* A new object is an object.
LEMMA NewObjectIs ==
    ASSUME NEW kind \in Kinds, NEW data
    PROVE  IsObject(NewObject(kind, data)) /\ NewObject(kind, data).kind = kind
<1> DEFINE n == LastId + 1
           o == NewObject(kind, data)
<1>1. o = [kind |-> kind, id |-> n, data |-> data, mtime |-> 2, perms |-> 1, avu |-> 0, sum |-> 0]
    <2>1. o = [Nothing EXCEPT !.kind = kind, !.id = n, !.data = data, !.mtime = 2, !.perms = 1]
        BY DEF NewObject
    <2> DEFINE a == [Nothing EXCEPT !.kind = kind]
               b == [a EXCEPT !.id = n]
               d == [b EXCEPT !.data = data]
               e == [d EXCEPT !.mtime = 2]
    <2>2. o = [e EXCEPT !.perms = 1]
        BY <2>1
    <2> HIDE DEF o, n
    <2>3. a = [kind |-> kind, id |-> 0, data |-> 0,
               mtime |-> 0, perms |-> 0, avu |-> 0, sum |-> 0]
        BY DEF Nothing
    <2> HIDE DEF a
    <2>4. b = [kind |-> kind, id |-> n, data |-> 0,
               mtime |-> 0, perms |-> 0, avu |-> 0, sum |-> 0]
        BY <2>3
    <2> HIDE DEF b
    <2>5. d = [kind |-> kind, id |-> n, data |-> data,
               mtime |-> 0, perms |-> 0, avu |-> 0, sum |-> 0]
        BY <2>4
    <2> HIDE DEF d
    <2>6. e = [kind |-> kind, id |-> n, data |-> data,
               mtime |-> 2, perms |-> 0, avu |-> 0, sum |-> 0]
        BY <2>5
    <2> HIDE DEF e
    <2> QED BY <2>2, <2>6
<1> HIDE DEF n, o
<1> QED BY <1>1 DEF IsObject, o

\* An attribute is set.
LEMMA SetObject ==
    ASSUME NEW o, IsObject(o), NEW field \in {"mtime", "perms", "avu", "sum"}, NEW value
    PROVE  /\ IsObject([o EXCEPT ![field] = value]) /\ [o EXCEPT ![field] = value].kind = o.kind
           /\ [o EXCEPT ![field] = value].id = o.id /\ [o EXCEPT ![field] = value].data = o.data
<1> DEFINE a == [o EXCEPT ![field] = value]
<1>1. o = [kind |-> o.kind, id |-> o.id, data |-> o.data, mtime |-> o.mtime,
           perms |-> o.perms, avu |-> o.avu, sum |-> o.sum] /\ o.kind \in Kinds
    BY DEF IsObject
<1>2. CASE field = "mtime"
    <2>1. a = [o EXCEPT !.mtime = value]
        BY <1>2
    <2> HIDE DEF a
    <2>2. a = [kind |-> o.kind, id |-> o.id, data |-> o.data,
               mtime |-> value, perms |-> o.perms, avu |-> o.avu, sum |-> o.sum]
        BY <1>1, <2>1
    <2>3. IsObject(a) /\ a.kind = o.kind /\ a.id = o.id /\ a.data = o.data
        BY <1>1, <2>2 DEF IsObject
    <2> QED BY <2>3 DEF a
<1>3. CASE field = "perms"
    <2>1. a = [o EXCEPT !.perms = value]
        BY <1>3
    <2> HIDE DEF a
    <2>2. a = [kind |-> o.kind, id |-> o.id, data |-> o.data,
               mtime |-> o.mtime, perms |-> value, avu |-> o.avu, sum |-> o.sum]
        BY <1>1, <2>1
    <2>3. IsObject(a) /\ a.kind = o.kind /\ a.id = o.id /\ a.data = o.data
        BY <1>1, <2>2 DEF IsObject
    <2> QED BY <2>3 DEF a
<1>4. CASE field = "avu"
    <2>1. a = [o EXCEPT !.avu = value]
        BY <1>4
    <2> HIDE DEF a
    <2>2. a = [kind |-> o.kind, id |-> o.id, data |-> o.data,
               mtime |-> o.mtime, perms |-> o.perms, avu |-> value, sum |-> o.sum]
        BY <1>1, <2>1
    <2>3. IsObject(a) /\ a.kind = o.kind /\ a.id = o.id /\ a.data = o.data
        BY <1>1, <2>2 DEF IsObject
    <2> QED BY <2>3 DEF a
<1>5. CASE field = "sum"
    <2>1. a = [o EXCEPT !.sum = value]
        BY <1>5
    <2> HIDE DEF a
    <2>2. a = [kind |-> o.kind, id |-> o.id, data |-> o.data,
               mtime |-> o.mtime, perms |-> o.perms, avu |-> o.avu, sum |-> value]
        BY <1>1, <2>1
    <2>3. IsObject(a) /\ a.kind = o.kind /\ a.id = o.id /\ a.data = o.data
        BY <1>1, <2>2 DEF IsObject
    <2> QED BY <2>3 DEF a
<1> QED BY <1>2, <1>3, <1>4, <1>5

-----------------------------------------------------------------------------
(* The functions that copy and create *)

\* A frame that begins.
LEMMA FrameFor ==
    ASSUME NEW name, name \notin {"remove", "rename"}, NEW from, IsSeq(from), NEW to, IsSeq(to),
           NEW options, NEW op,
           name \in {"copy", "copy_data_object"} /\ "overwrite_existing" \in options =>
                Overwrites(op)
    PROVE  FrameOf(Frame(name, from, to, options), op)
<1> DEFINE f == Frame(name, from, to, options)
<1>1. f.name = name /\ f.from = from /\ f.to = to /\ f.options = options
    BY DEF Frame
<1> HIDE DEF f
<1> QED BY <1>1 DEF FrameOf, Overwrites, f

\* The status calls.
LEMMA StatData == ASSUME DataInv, NEW c \in Clients, Stat(c) PROVE DataStep
<1> DEFINE f == Top(c)
           seen == Append(f.seen, Look(Lookups(f)[Len(f.seen) + 1]))
           a == [f EXCEPT !.seen = seen]
<1>1. Busy(c) /\ ((Continue(c, <<a>>) /\ NoChange) \/ Crash(c) \/ Throw(c))
    BY DEF Stat
<1> HIDE DEF seen
<1>2. CASE Continue(c, <<a>>) /\ NoChange
    <2>1. UNCHANGED cat /\ EntriesInv(handles')
        BY <1>2 DEF NoChange, DataInv
    <2>2. a \in {f, [f EXCEPT !.at = seen], [f EXCEPT !.seen = seen]}
        OBVIOUS
    <2> HIDE DEF a
    <2> QED BY <1>1, <1>2, <2>1, <2>2, GoesOnData
<1> QED BY <1>1, <1>2, CrashData, ThrowData

\* copy before its loop.
LEMMA CopyBeginsData ==
    ASSUME DataInv, NEW c \in Clients, CopyThrows(c) \/ CopyOfDataObject(c) \/ CopyOfCollection(c)
    PROVE  DataStep
<1> DEFINE f == Top(c)
           op == client[c].op
<1>1. CASE CopyThrows(c)
    BY <1>1, ThrowData DEF CopyThrows
<1>2. CASE CopyOfDataObject(c)
    <2> DEFINE to == IF f.seen[2].kind = "coll" THEN Append(f.to, Last(f.from)) ELSE f.to
               a == Frame("copy_data_object", f.from, to, f.options)
    <2>1. /\ Busy(c) /\ f.name = "copy" /\ UNCHANGED cat /\ UNCHANGED handles
          /\ Return(c, "true") \/ Continue(c, <<a>>)
        BY <1>2 DEF CopyOfDataObject, Ready, At, NoChange
    <2>2. FrameOf(f, op)
        BY <2>1, TopOf
    <2>3. IsSeq(f.from) /\ IsSeq(to)
        <3>1. IsSeq(f.to) /\ IsSeq(f.from)
            BY <2>2 DEF FrameOf
        <3> QED BY <3>1, Appended
    <2>4. "overwrite_existing" \in f.options => Overwrites(op)
        BY <2>1, <2>2 DEF FrameOf, Overwrites
    <2> HIDE DEF f, to, op
    <2>5. FrameOf(a, op)
        BY <2>3, <2>4, FrameFor
    <2>6. EntriesInv(handles')
        BY <2>1 DEF DataInv
    <2> HIDE DEF a
    <2> QED BY <2>1, <2>5, <2>6, ReturnData, ContinueData DEF op
<1>3. CASE CopyOfCollection(c)
    <2> DEFINE step == "open"
               a == [f EXCEPT !.at = step]
               b == Frame("create_collection_like", f.to, f.from, {})
    <2>1. /\ Busy(c) /\ UNCHANGED cat /\ UNCHANGED handles
          /\ Return(c, "true") \/ Continue(c, <<a>>) \/ Continue(c, <<a, b>>)
        BY <1>3 DEF CopyOfCollection, Ready, At, NoChange
    <2>2. FrameOf(f, op) /\ IsFrame(f)
        BY <2>1, TopOf
    <2>3. IsSeq(f.from) /\ IsSeq(f.to)
        BY <2>2 DEF FrameOf
    <2> HIDE DEF f, op, step
    <2>4. FrameOf(a, op)
        BY <2>2, SameFrame
    <2>5. FrameOf(b, op)
        BY <2>3, FrameFor
    <2>6. EntriesInv(handles')
        BY <2>1 DEF DataInv
    <2> HIDE DEF a, b
    <2> QED BY <2>1, <2>4, <2>5, <2>6, ReturnData, ContinueData DEF op
<1> QED BY <1>1, <1>2, <1>3

\* The copy of a child overwrites only if its copy does.
LEMMA ChildOf ==
    ASSUME NEW f, NEW op, FrameOf(f, op), f.name = "copy", NEW e, IsSeq(e.path)
    PROVE  FrameOf(CopyOfChild(f, e), op)
<1> DEFINE from == e.path
           to == Append(f.to, Last(e.path))
           options == OptionsOfChild(f.options)
<1>1. IsSeq(from) /\ IsSeq(to)
    BY Appended DEF FrameOf
<1>2. "overwrite_existing" \in options =>
                Overwrites(op)
    BY DEF OptionsOfChild, FrameOf, Overwrites
<1> HIDE DEF from, to, options
<1>3. FrameOf(Frame("copy", from, to, options), op)
    BY <1>1, <1>2, FrameFor
<1> QED BY <1>3 DEF CopyOfChild, from, to, options

\* The loop of copy begins.
LEMMA CopyOpenData == ASSUME DataInv, NEW c \in Clients, CopyOpen(c) PROVE DataStep
<1> DEFINE f == Top(c)
           op == client[c].op
           entries == Entries(f.from)
           n == NewHandle(handles)
<1>1. Busy(c) /\ f.name = "copy" /\ FrameOf(f, op) /\ IsFrame(f)
    BY TopOf DEF CopyOpen, At
<1>2. (\A e \in entries : IsSeq(e.path)) /\ EntriesInv(handles)
    BY EntriesArePaths DEF DataInv
<1>3. CASE handles' = Opened(handles, {}, "all") /\ Return(c, "true") /\ UNCHANGED cat
    <2>1. EntriesInv(handles')
        BY <1>2, <1>3, EntriesKept
    <2> QED BY <1>1, <1>3, <2>1, ReturnData
<1>4. ASSUME NEW e \in entries, handles' = Opened(handles, entries \ {e}, "some"),
             Continue(c, <<[f EXCEPT !.at = "next", !.handle = n], CopyOfChild(f, e)>>),
             UNCHANGED cat
      PROVE  DataStep
    <2> DEFINE a == [f EXCEPT !.at = "next", !.handle = n]
               b == CopyOfChild(f, e)
               left == entries \ {e}
    <2>1. EntriesInv(handles')
        <3>1. \A x \in left : IsSeq(x.path)
            BY <1>2
        <3>2. handles' = Opened(handles, left, "some")
            BY <1>4
        <3> HIDE DEF left
        <3> QED BY <1>2, <3>1, <3>2, EntriesKept
    <2>2. Continue(c, <<a, b>>)
        BY <1>4
    <2>3. IsSeq(e.path)
        BY <1>2
    <2> HIDE DEF f, op, n
    <2>4. FrameOf(a, op)
        <3>1. a.name = f.name /\ a.from = f.from /\ a.to = f.to /\ a.options = f.options
            BY <1>1 DEF IsFrame
        <3> QED BY <1>1, <3>1 DEF FrameOf, Overwrites
    <2>5. FrameOf(b, op)
        BY <1>1, <2>3, ChildOf
    <2> HIDE DEF a, b
    <2> QED BY <1>1, <1>4, <2>1, <2>2, <2>4, <2>5, ContinueData DEF op
<1>5. CASE OpenFails(c, f.from, Owned(c), handles)
    BY <1>2, <1>5, OpenFailsData
<1> QED BY <1>3, <1>4, <1>5 DEF CopyOpen

\* The loop of copy.
LEMMA CopyNextData == ASSUME DataInv, NEW c \in Clients, CopyNext(c) PROVE DataStep
<1> DEFINE f == Top(c)
           op == client[c].op
           n == f.handle
           left == handles[n].left
<1>1. Busy(c) /\ f.name = "copy" /\ f.at = "next" /\ FrameOf(f, op) /\ IsFrame(f)
    BY TopOf DEF CopyNext, At
<1>2. EntriesInv(handles) /\ HandlesInv(handles)
    BY DEF DataInv, Inv
<1>3. CASE handles' = Closed(handles, {n}) /\ Return(c, "true") /\ UNCHANGED cat
    <2>1. EntriesInv(handles')
        BY <1>2, <1>3, EntriesKept
    <2> QED BY <1>1, <1>3, <2>1, ReturnData
<1>4. ASSUME NEW e \in left, handles' = [handles EXCEPT ![n].left = left \ {e}],
             Continue(c, <<f, CopyOfChild(f, e)>>), UNCHANGED cat
      PROVE  DataStep
    <2> DEFINE b == CopyOfChild(f, e)
               rest == left \ {e}
    <2>1. EntriesInv(handles')
        <3>1. handles' = [handles EXCEPT ![n].left = rest] /\ rest \subseteq handles[n].left
            BY <1>4
        <3> HIDE DEF rest, n
        <3> QED BY <1>2, <3>1, EntryTaken
    <2>2. IsSeq(e.path)
        <3>1. n \in DOMAIN handles
            <4> DEFINE s == client[c].frames
            <4>1. /\ Len(s) \in 1 .. Len(s) /\ f = s[Len(s)] /\ n # 0
                  /\ Own(client[c]) \subseteq Reading(handles)
                BY <1>1, TopFacts DEF DataInv, IsFrame, Iterating
            <4>2. HandlesOf(s) \subseteq Own(client[c])
                BY DEF Own
            <4> HIDE DEF s, f
            <4>3. n \in HandlesOf(s)
                BY <4>1 DEF HandlesOf
            <4> QED BY <4>1, <4>2, <4>3 DEF Reading
        <3> QED BY <1>2, <3>1 DEF EntriesInv
    <2> HIDE DEF f, op
    <2>3. FrameOf(b, op)
        BY <1>1, <2>2, ChildOf
    <2> HIDE DEF b
    <2>4. Continue(c, <<f, b>>)
        BY <1>4 DEF b
    <2> QED BY <1>1, <1>4, <2>1, <2>3, <2>4, ContinueData DEF op
<1>5. CASE Throw(c)
    BY <1>5, ThrowData
<1> QED BY <1>3, <1>4, <1>5 DEF CopyNext

\* copy_data_object makes an object, or overwrites one if it was to.
LEMMA CopyDataObjectData == ASSUME DataInv, NEW c \in Clients, CopyDataObject(c) PROVE DataStep
<1> DEFINE f == Top(c)
           op == client[c].op
           p == f.to
           data == Look(f.from).data
           object == IF Is(p, "data") THEN [cat[p] EXCEPT !.data = data, !.mtime = 2]
                                      ELSE NewObject("data", data)
           admitted == /\ Is(f.from, "data")
                       /\ \/ ~Found(Look(p)) /\ Is(Parent(p), "coll")
                          \/ Is(p, "data") /\ ForceFlag(f)
           C == With(p, object)
           lost == IF p \in DOMAIN cat /\ ForceFlag(f) THEN {p} ELSE {}
<1>1. /\ Busy(c) /\ f.name = "copy_data_object"
      /\ Throw(c) \/ (Return(c, "false") /\ NoChange) \/ Call(c, admitted, C)
    BY DEF CopyDataObject, Ready, At
<1>2. CatalogInv(cat) /\ FrameOf(f, op) /\ IsSeq(p)
    BY <1>1, TopOf DEF DataInv, FrameOf
<1>3. \A q \in lost : Asked(op, q)
    BY <1>1, <1>2 DEF FrameOf, Overwrites, Asked, ForceFlag
<1>4. /\ Found(Look(p)) <=> p \in DOMAIN cat
      /\ Is(p, "data") <=> p \in DOMAIN cat /\ cat[p].kind = "data"
      /\ Is(Parent(p), "coll") <=> Parent(p) \in DOMAIN cat /\ cat[Parent(p)].kind = "coll"
      /\ p \in DOMAIN cat => IsObject(cat[p])
    BY <1>2, LookFacts DEF Kinds
<1> HIDE DEF f, data
<1>5. C = [q \in DOMAIN cat \cup {p} |-> IF q = p THEN object ELSE cat[q]]
    BY DEF With
<1>6. ASSUME admitted PROVE CatalogInv(C) /\ Kept(cat, C, lost)
    <2>1. CASE p \notin DOMAIN cat
        <3>1. /\ Parent(p) \in DOMAIN cat /\ cat[Parent(p)].kind = "coll"
              /\ object = NewObject("data", data)
            BY <1>4, <1>6, <2>1
        <3>2. IsObject(object)
            BY <3>1, NewObjectIs DEF Kinds
        <3>3. lost = {}
            BY <2>1
        <3> HIDE DEF p, object, C, lost
        <3> QED BY <1>2, <1>5, <2>1, <3>1, <3>2, <3>3, Added
    <2>2. CASE p \in DOMAIN cat
        <3>1. /\ cat[p].kind = "data" /\ lost = {p}
              /\ object = [cat[p] EXCEPT !.data = data, !.mtime = 2]
            BY <1>4, <1>6, <2>2
        <3> DEFINE o == cat[p]
                   m == [o EXCEPT !.data = data]
        <3>2. object = [m EXCEPT !.mtime = 2] /\ IsObject(o) /\ o.kind = "data"
            BY <1>4, <2>2, <3>1
        <3> HIDE DEF object, o
        <3>3. m = [kind |-> o.kind, id |-> o.id, data |-> data, mtime |-> o.mtime,
                   perms |-> o.perms, avu |-> o.avu, sum |-> o.sum]
            BY <3>2 DEF IsObject
        <3> HIDE DEF m
        <3>4. object = [kind |-> o.kind, id |-> o.id, data |-> data, mtime |-> 2,
                        perms |-> o.perms, avu |-> o.avu, sum |-> o.sum]
            BY <3>2, <3>3
        <3>5. IsObject(object) /\ object.kind = o.kind
            <4>1. o.kind \in Kinds
                BY <3>2 DEF Kinds
            <4>2. /\ object.kind = o.kind /\ object.id = o.id /\ object.data = data
                  /\ object.mtime = 2 /\ object.perms = o.perms /\ object.avu = o.avu
                  /\ object.sum = o.sum
                BY <3>4
            <4> QED BY <3>4, <4>1, <4>2 DEF IsObject
        <3>6. object.kind = cat[p].kind /\ lost = {p} /\ CatalogInv(cat)
            BY <1>2, <3>1, <3>5 DEF o
        <3> HIDE DEF p, C, lost
        <3>7. CatalogInv(C) /\ Kept(cat, C, {p})
            BY <1>5, <2>2, <3>5, <3>6, Replaced
        <3> QED BY <3>6, <3>7
    <2> QED BY <2>1, <2>2
<1>7. EntriesInv(handles)
    BY DEF DataInv
<1> HIDE DEF admitted, C, lost, object
<1> QED BY <1>1, <1>3, <1>6, <1>7, ThrowData, ReturnData, CallData DEF NoChange

\* create_collection.
LEMMA CreateCollectionData ==
    ASSUME DataInv, NEW c \in Clients, CreateCollection(c) PROVE DataStep
<1> DEFINE f == Top(c)
           p == f.from
           object == NewObject("coll", 0)
           admitted == ~Found(Look(p)) /\ Is(Parent(p), "coll")
           C == With(p, object)
<1>1. /\ Busy(c)
      /\ Throw(c) \/ (Return(c, "false") /\ NoChange) \/ Call(c, admitted, C)
    BY DEF CreateCollection, Ready, At
<1>2. CatalogInv(cat) /\ IsSeq(p) /\ EntriesInv(handles)
    BY <1>1, TopOf DEF DataInv, FrameOf
<1>3. IsObject(object)
    BY NewObjectIs DEF Kinds
<1> HIDE DEF p, object
<1>4. C = [q \in DOMAIN cat \cup {p} |-> IF q = p THEN object ELSE cat[q]]
    BY DEF With
<1>5. ASSUME admitted PROVE CatalogInv(C) /\ Kept(cat, C, {})
    <2>1. p \notin DOMAIN cat /\ Parent(p) \in DOMAIN cat /\ cat[Parent(p)].kind = "coll"
        BY <1>2, <1>5, LookFacts DEF Kinds
    <2> HIDE DEF C
    <2> QED BY <1>2, <1>3, <1>4, <2>1, Added
<1> DEFINE lost == {}
<1> HIDE DEF admitted, C, f
<1>6. ASSUME Call(c, admitted, C) PROVE DataStep
    <2>1. Busy(c)
        BY <1>1
    <2>2. admitted => CatalogInv(C) /\ Kept(cat, C, lost)
        BY <1>5
    <2>3. \A q \in lost : Asked(client[c].op, q)
        OBVIOUS
    <2> HIDE DEF lost
    <2> QED BY <1>6, <2>1, <2>2, <2>3, CallData
<1>7. CASE Return(c, "false") /\ NoChange
    BY <1>1, <1>2, <1>7, ReturnData DEF NoChange
<1> QED BY <1>1, <1>6, <1>7, ThrowData

\* The permissions of the model.
LEMMA CreatedLikeData == ASSUME DataInv, NEW c \in Clients, CreatedLike(c) PROVE DataStep
<1> DEFINE f == Top(c)
           p == f.from
           perms == f.seen[1].perms
           o == Look(p)
           object == [o EXCEPT !.perms = perms]
           admitted == Found(Look(p))
           C == With(p, object)
<1>1. Busy(c) /\ Call(c, admitted, C)
    BY DEF CreatedLike, At
<1>2. CatalogInv(cat)
    BY DEF DataInv
<1> HIDE DEF p, perms
<1>3. C = [q \in DOMAIN cat \cup {p} |-> IF q = p THEN object ELSE cat[q]]
    BY DEF With
<1>4. ASSUME admitted PROVE CatalogInv(C) /\ Kept(cat, C, {})
    <2>1. p \in DOMAIN cat /\ o = cat[p] /\ IsObject(o)
        BY <1>2, <1>4, LookFacts
    <2> HIDE DEF o
    <2>2. /\ IsObject(object) /\ object.kind = o.kind
          /\ object.id = o.id /\ object.data = o.data
        <3> DEFINE field == "perms"
                   m == [o EXCEPT ![field] = perms]
        <3>1. object = m
            OBVIOUS
        <3>2. field \in {"mtime", "perms", "avu", "sum"}
            OBVIOUS
        <3> HIDE DEF field, object
        <3>3. IsObject(m) /\ m.kind = o.kind /\ m.id = o.id /\ m.data = o.data
            BY <2>1, <3>2, SetObject
        <3> QED BY <3>1, <3>3
    <2> HIDE DEF object
    <2>3. /\ IsObject(object) /\ object.kind = cat[p].kind
          /\ object.id = cat[p].id /\ object.data = cat[p].data
        BY <2>1, <2>2
    <2> HIDE DEF C
    <2>4. p \in DOMAIN cat
        BY <2>1
    <2> QED BY <1>2, <1>3, <2>3, <2>4, ReplacedSame
<1> HIDE DEF admitted, C
<1> QED BY <1>1, <1>4, CallData

\* create_collections.
LEMMA CreateCollectionsData ==
    ASSUME DataInv, NEW c \in Clients, CreateCollections(c) PROVE DataStep
<1> DEFINE f == Top(c)
           p == f.from
           line == {SubSeq(p, 1, n) : n \in 1..Len(p)}
           coll == NewObject("coll", 0)
           admitted == ~Found(Look(p)) /\ \A q \in line : ~Is(q, "data")
           C == [q \in DOMAIN cat \cup line |->
                    IF q \in DOMAIN cat THEN cat[q]
                    ELSE [coll EXCEPT !.id = @ + Len(q)]]
<1>1. /\ Busy(c)
      /\ Throw(c) \/ (Return(c, "false") /\ NoChange) \/ CallOrFalse(c, admitted, C)
    BY DEF CreateCollections, Ready, At
<1>2. CatalogInv(cat) /\ IsSeq(p) /\ EntriesInv(handles)
    BY <1>1, TopOf DEF DataInv, FrameOf
<1>3. IsObject(coll) /\ coll.kind = "coll"
    BY NewObjectIs DEF Kinds
<1> HIDE DEF p, coll
<1>4. ASSUME NEW n PROVE IsObject([coll EXCEPT !.id = n]) /\ [coll EXCEPT !.id = n].kind = "coll"
    BY <1>3 DEF IsObject
<1>5. line = {SubSeq(p, 1, n) : n \in 1..Len(p)}
    OBVIOUS
<1>6. ASSUME admitted PROVE CatalogInv(C) /\ Kept(cat, C, {})
    <2>1. \A q \in line : q \in DOMAIN cat => cat[q].kind # "data"
        <3> TAKE q \in line
        <3>1. ~Is(q, "data")
            BY <1>6
        <3> QED BY <1>2, <3>1, LookFacts DEF Kinds
    <2> HIDE DEF line
    <2>2. /\ DOMAIN C = DOMAIN cat \cup line /\ \A q \in DOMAIN cat : C[q] = cat[q]
          /\ \A q \in line \ DOMAIN cat : C[q] = [coll EXCEPT !.id = @ + Len(q)]
        OBVIOUS
    <2> HIDE DEF C
    <2>3. ASSUME NEW q \in line \ DOMAIN cat PROVE IsObject(C[q]) /\ C[q].kind = "coll"
        <3> DEFINE n == coll.id + Len(q)
        <3>1. C[q] = [coll EXCEPT !.id = n]
            BY <2>2
        <3> HIDE DEF n
        <3> QED BY <1>4, <3>1
    <2>4. \A q \in line \ DOMAIN cat : IsObject(C[q]) /\ C[q].kind = "coll"
        BY <2>3
    <2>5. CatalogInv(cat) /\ IsSeq(p)
        BY <1>2
    <2>6. DOMAIN C = DOMAIN cat \cup line /\ \A q \in DOMAIN cat : C[q] = cat[q]
        BY <2>2
    <2> QED BY <1>5, <2>1, <2>4, <2>5, <2>6, AddedLine
<1> HIDE DEF admitted, C, line
<1>7. CASE CallOrFalse(c, admitted, C)
    BY <1>1, <1>6, <1>7, CallData
<1>8. CASE Return(c, "false") /\ NoChange
    BY <1>1, <1>2, <1>8, ReturnData DEF NoChange
<1> QED BY <1>1, <1>7, <1>8, ThrowData

\* Everything that creates.
LEMMA CreatingData == ASSUME DataInv, NEW c \in Clients, Creating(c) PROVE DataStep
<1>1. CASE CreateCollectionLike(c)
    <2> DEFINE f == Top(c)
               op == client[c].op
               step == "permissions"
               seen == <<[f.seen[1] EXCEPT !.perms = PermissionsOf(f.to)]>>
               a == [f EXCEPT !.at = step, !.seen = seen]
               b == Frame("create_collection", f.from, <<>>, {})
    <2>1. Busy(c) /\ (Throw(c) \/ (Continue(c, <<a, b>>) /\ NoChange))
        BY <1>1 DEF CreateCollectionLike, Ready, At
    <2>2. FrameOf(f, op) /\ IsFrame(f) /\ EntriesInv(handles)
        BY <2>1, TopOf DEF DataInv
    <2>3. IsSeq(f.from) /\ IsSeq(<<>>)
        BY <2>2, NoStack DEF FrameOf
    <2> HIDE DEF f, op, step, seen
    <2>4. FrameOf(a, op)
        BY <2>2 DEF IsFrame, FrameOf, Overwrites
    <2>5. FrameOf(b, op)
        BY <2>3, FrameFor
    <2> HIDE DEF a, b
    <2> QED BY <2>1, <2>2, <2>4, <2>5, ThrowData, ContinueData DEF op, NoChange
<1> QED BY <1>1, CreateCollectionData, CreatedLikeData, CreateCollectionsData DEF Creating

-----------------------------------------------------------------------------
(* The functions that remove, rename, and set an attribute *)

\* The frame of a remove is the operation itself.
LEMMA RemoveFrame ==
    ASSUME DataInv, NEW c \in Clients, Busy(c), Top(c).name = "remove"
    PROVE  /\ IsSeq(Top(c).from)
           /\ \A p : IsPrefix(Top(c).from, p) => Asked(client[c].op, p)
BY TopOf DEF FrameOf, Asked

\* remove of a data object.
LEMMA RemoveDataObjectData ==
    ASSUME DataInv, NEW c \in Clients, RemoveDataObject(c) PROVE DataStep
<1> DEFINE p == Top(c).from
           admitted == Is(p, "data")
           C == Without({p})
           lost == {p}
<1>1. Busy(c) /\ Top(c).name = "remove" /\ CallOrFalse(c, admitted, C)
    BY DEF RemoveDataObject, Ready, At
<1>2. CatalogInv(cat) /\ IsSeq(p)
    BY <1>1, RemoveFrame DEF DataInv
<1>3. \A q \in lost : Asked(client[c].op, q)
    <2>1. IsPrefix(p, p)
        BY <1>2, PrefixFacts
    <2> QED BY <1>1, <2>1, RemoveFrame
<1> HIDE DEF p
<1>4. C = [q \in DOMAIN cat \ {p} |-> cat[q]]
    BY DEF Without
<1>5. ASSUME admitted PROVE CatalogInv(C) /\ Kept(cat, C, lost)
    <2>1. p \in DOMAIN cat /\ cat[p].kind = "data"
        BY <1>2, <1>5, LookFacts DEF Kinds
    <2> HIDE DEF C
    <2> QED BY <1>2, <1>4, <2>1, RemovedOne
<1> HIDE DEF admitted, C, lost
<1> QED BY <1>1, <1>3, <1>5, CallData

\* remove and remove_all of a collection.
LEMMA RemoveCollectionData ==
    ASSUME DataInv, NEW c \in Clients, RemoveCollection(c) PROVE DataStep
<1> DEFINE f == Top(c)
           p == f.from
           admitted == Is(p, "coll") /\ ("recursive" \in f.options \/ Children(cat, p) = {})
           lost == Tree(cat, p)
           C == Without(lost)
<1>1. Busy(c) /\ Top(c).name = "remove" /\ CallOrFalse(c, admitted, C)
    BY DEF RemoveCollection, Ready, At
<1>2. CatalogInv(cat) /\ IsSeq(p)
    BY <1>1, RemoveFrame DEF DataInv
<1>3. \A q \in lost : Asked(client[c].op, q)
    BY <1>1, RemoveFrame DEF Tree
<1> HIDE DEF f, p
<1>4. C = [q \in DOMAIN cat \ Tree(cat, p) |-> cat[q]]
    BY DEF Without
<1> HIDE DEF C
<1>5. CatalogInv(C) /\ Kept(cat, C, lost)
    BY <1>2, <1>4, RemovedTree
<1> HIDE DEF admitted, lost
<1> QED BY <1>1, <1>3, <1>5, CallData

\* Everything that removes.
LEMMA RemovingData == ASSUME DataInv, NEW c \in Clients, Removing(c) PROVE DataStep
<1> DEFINE f == Top(c)
<1>1. ASSUME Busy(c), NEW step, NEW count, NoChange,
             client' = [client EXCEPT ![c] =
                [Become(c, <<[f EXCEPT !.at = step]>>) EXCEPT !.count = count]]
      PROVE  DataStep
    <2> DEFINE r == Front(client[c].frames) \o <<[f EXCEPT !.at = step]>>
               k == [client[c] EXCEPT !.frames = r]
               m == [k EXCEPT !.count = count]
    <2>1. client' = [client EXCEPT ![c] = m]
        BY <1>1 DEF Become
    <2>2. r = Front(client[c].frames) \o <<[Top(c) EXCEPT !.at = step]>>
        OBVIOUS
    <2> HIDE DEF r
    <2>3. k.op = client[c].op /\ k.frames = r /\ IsClient(k)
        BY DEF IsClient, DataInv, Inv, ClientInv
    <2> HIDE DEF k
    <2>4. m.op = client[c].op /\ m.frames = r
        BY <2>3 DEF IsClient
    <2> HIDE DEF m, f
    <2>5. UNCHANGED cat /\ EntriesInv(handles')
        BY <1>1 DEF NoChange, DataInv
    <2>6. m.frames \in {<<>>, Front(client[c].frames) \o <<[Top(c) EXCEPT !.at = step]>>}
        BY <2>2, <2>4
    <2> QED BY <1>1, <2>1, <2>4, <2>5, <2>6, AltersData
<1>2. CASE CountDataObjects(c)
    BY <1>1, <1>2, ThrowData DEF CountDataObjects, At
<1>3. CASE CountCollections(c)
    <2> DEFINE count == client[c].count + Cardinality(LikeCollections(f.from))
    <2>1. /\ Busy(c)
          /\ \/ Return(c, "false") /\ NoChange
             \/ /\ client' = [client EXCEPT ![c] =
                        [Become(c, <<[f EXCEPT !.at = "stat"]>>) EXCEPT !.count = count]]
                /\ NoChange
             \/ Throw(c)
        BY <1>3 DEF CountCollections, At
    <2> HIDE DEF count, f
    <2> QED BY <1>1, <2>1, ThrowData, ReturnData DEF NoChange, DataInv
<1>4. CASE RemoveEnds(c)
    <2>1. Busy(c) /\ (Throw(c) \/ (Return(c, "false") /\ NoChange))
        BY <1>4 DEF RemoveEnds, Ready, At
    <2> QED BY <2>1, ThrowData, ReturnData DEF NoChange, DataInv
<1>5. CASE RemoveProbe(c)
    <2> DEFINE step == "empty"
               a == [f EXCEPT !.at = step]
               p == f.from
    <2>1. /\ Busy(c) /\ EntriesInv(handles)
          /\ \/ handles' = Opened(handles, {}, "all") /\ Continue(c, <<a>>) /\ UNCHANGED cat
             \/ OpenFails(c, p, {}, handles)
        BY <1>5 DEF RemoveProbe, Ready, At, DataInv
    <2>2. handles' = Opened(handles, {}, "all") => EntriesInv(handles')
        BY <2>1, EntriesKept
    <2>3. a \in {f, [f EXCEPT !.at = step], [f EXCEPT !.seen = step]}
        OBVIOUS
    <2> HIDE DEF a, p, step
    <2> QED BY <2>1, <2>2, <2>3, GoesOnData, OpenFailsData
<1> QED BY <1>2, <1>3, <1>4, <1>5, RemoveDataObjectData, RemoveCollectionData DEF Removing

\* rename.
LEMMA RenameData == ASSUME DataInv, NEW c \in Clients, Rename(c) PROVE DataStep
<1> DEFINE f == Top(c)
           op == client[c].op
           p == f.from
           r == f.to
           admitted == /\ Found(Look(p)) /\ Is(Parent(r), "coll")
                       /\ \/ ~Found(Look(r))
                          \/ Is(r, Look(p).kind) /\ Children(cat, r) = {}
           C == Renamed(p, r)
           lost == {r}
<1>1. /\ Busy(c) /\ f.name = "rename"
      /\ \/ Throw(c)
         \/ Return(c, "true") /\ NoChange
         \/ ~RenameRejects(f) /\ Call(c, admitted, C)
    BY DEF Rename, Ready, At
<1>2. CatalogInv(cat) /\ FrameOf(f, op) /\ EntriesInv(handles)
    BY <1>1, TopOf DEF DataInv
<1>3. IsSeq(p) /\ IsSeq(r) /\ \A q \in lost : Asked(op, q)
    BY <1>1, <1>2 DEF FrameOf, Asked
<1>4. ~RenameRejects(f) => ~IsPrefix(p, r)
    BY DEF RenameRejects
<1> DEFINE image == {Moved(q, p, r) : q \in Tree(cat, p)}
<1> HIDE DEF f, p, r
<1>5. C = [q \in (DOMAIN cat \ (Tree(cat, p) \cup {r})) \cup image |->
                IF q \in image THEN cat[Moved(q, r, p)] ELSE cat[q]]
    BY DEF Renamed
<1>6. ASSUME admitted, ~IsPrefix(p, r) PROVE CatalogInv(C) /\ Kept(cat, C, lost)
    <2>1. Parent(r) \in DOMAIN cat /\ cat[Parent(r)].kind = "coll"
        BY <1>2, <1>6, LookFacts DEF Kinds
    <2>2. r \notin DOMAIN cat \/ Children(cat, r) = {}
        BY <1>2, <1>6, LookFacts
    <2>3. image = {Moved(q, p, r) : q \in Tree(cat, p)}
        OBVIOUS
    <2>4. CatalogInv(cat) /\ IsSeq(p) /\ IsSeq(r) /\ ~IsPrefix(p, r)
        BY <1>2, <1>3, <1>6
    <2> HIDE DEF image, C, admitted
    <2>5. /\ DOMAIN C = (DOMAIN cat \ (Tree(cat, p) \cup {r})) \cup image
          /\ \A q \in DOMAIN C : C[q] = IF q \in image THEN cat[Moved(q, r, p)] ELSE cat[q]
        BY <1>5
    <2>6. CatalogInv(C) /\ Kept(cat, C, {r})
        BY <2>1, <2>2, <2>3, <2>4, <2>5, RenamedTree
    <2> QED BY <2>6
<1> HIDE DEF admitted, C, lost, image
<1>7. CASE Throw(c)
    BY <1>7, ThrowData
<1>8. CASE Return(c, "true") /\ NoChange
    BY <1>1, <1>2, <1>8, ReturnData DEF NoChange
<1>9. CASE ~RenameRejects(f) /\ Call(c, admitted, C)
    BY <1>1, <1>3, <1>4, <1>6, <1>9, CallData
<1> QED BY <1>1, <1>7, <1>8, <1>9

\* data_object_checksum, when it calculates one.
LEMMA ChecksumData ==
    ASSUME DataInv, NEW c \in Clients, Busy(c), Is(Top(c).from, "data"),
           cat' = With(Top(c).from, [Look(Top(c).from) EXCEPT !.sum = 1]),
           Continue(c, <<[Top(c) EXCEPT !.at = "query"]>>), UNCHANGED handles
    PROVE  DataStep
<1> DEFINE f == Top(c)
           p == f.from
           o == Look(p)
           field == "sum"
           object == [o EXCEPT ![field] = 1]
           a == [f EXCEPT !.at = "query"]
           r == Front(client[c].frames) \o <<a>>
           op == client[c].op
<1>1. /\ CatalogInv(cat) /\ FrameOf(f, op) /\ IsFrame(f) /\ Keeps(c, r)
      /\ IsSeq(Front(client[c].frames)) /\ FramesOf(Front(client[c].frames), op)
    BY TopOf, ContinueSets DEF DataInv
<1>2. FrameOf(a, op)
    BY <1>1, SameFrame
<1>3. FramesOf(r, op)
    <2> HIDE DEF a, op
    <2> QED BY <1>1, <1>2, StackOf
<1> HIDE DEF r
<1>4. \A d \in Clients : FramesOf(client'[d].frames, client'[d].op)
    BY <1>1, <1>3 DEF DataInv, Keeps
<1>5. Is(p, "data") /\ cat' = [q \in DOMAIN cat \cup {p} |-> IF q = p THEN object ELSE cat[q]]
    BY DEF With
<1> HIDE DEF f, p, a
<1>6. p \in DOMAIN cat /\ o = cat[p] /\ IsObject(o)
    BY <1>1, <1>5, LookFacts DEF Kinds
<1> HIDE DEF o
<1>7. /\ IsObject(object) /\ object.kind = o.kind
      /\ object.id = o.id /\ object.data = o.data
    BY <1>6, SetObject
<1> HIDE DEF object
<1>8. CatalogInv(cat') /\ Kept(cat, cat', {})
    <2>1. /\ IsObject(object) /\ object.kind = cat[p].kind
          /\ object.id = cat[p].id /\ object.data = cat[p].data
        BY <1>6, <1>7
    <2> QED BY <1>1, <1>5, <1>6, <2>1, ReplacedSame
<1>9. KeepsData
    BY <1>8 DEF KeepsData, Kept
<1> QED BY <1>4, <1>8, <1>9 DEF DataStep, DataInv

\* The functions that set an attribute.
LEMMA UpdatingData == ASSUME DataInv, NEW c \in Clients, Updating(c) PROVE DataStep
<1>1. ASSUME NEW name, NEW kinds, kinds \subseteq Kinds,
             NEW field \in {"mtime", "perms", "avu", "sum"}, NEW value,
             Update(c, name, kinds, field, value)
      PROVE  DataStep
    <2> DEFINE f == Top(c)
               p == f.from
               kind == IF name = "permissions" THEN Look(p).kind ELSE f.seen[1].kind
               o == Look(p)
               object == [o EXCEPT ![field] = value]
               admitted == Is(p, kind)
               C == With(p, object)
    <2>1. Busy(c) /\ (Throw(c) \/ (kind \in Kinds /\ Call(c, admitted, C)))
        BY <1>1 DEF Update, Ready, At
    <2>2. CatalogInv(cat)
        BY DEF DataInv
    <2> HIDE DEF p, kind
    <2>3. C = [q \in DOMAIN cat \cup {p} |-> IF q = p THEN object ELSE cat[q]]
        BY DEF With
    <2>4. ASSUME admitted, kind \in Kinds PROVE CatalogInv(C) /\ Kept(cat, C, {})
        <3>1. p \in DOMAIN cat /\ o = cat[p] /\ IsObject(o)
            BY <2>2, <2>4, LookFacts
        <3> HIDE DEF o
        <3>2. /\ IsObject(object) /\ object.kind = o.kind
              /\ object.id = o.id /\ object.data = o.data
            BY <3>1, SetObject
        <3> HIDE DEF object
        <3>3. /\ IsObject(object) /\ object.kind = cat[p].kind
              /\ object.id = cat[p].id /\ object.data = cat[p].data
            BY <3>1, <3>2
        <3> HIDE DEF C
        <3>4. p \in DOMAIN cat
            BY <3>1
        <3> QED BY <2>2, <2>3, <3>3, <3>4, ReplacedSame
    <2> HIDE DEF admitted, C
    <2> QED BY <2>1, <2>4, ThrowData, CallData
<1>2. {"data", "coll"} \subseteq Kinds /\ {"data"} \subseteq Kinds
    BY DEF Kinds
<1>3. CASE LastWriteTime(c)
    BY <1>1, <1>2, <1>3 DEF LastWriteTime
<1>4. CASE Permissions(c)
    BY <1>1, <1>2, <1>4 DEF Permissions
<1>5. CASE SetMetadata(c)
    BY <1>1, <1>2, <1>5 DEF SetMetadata
<1>6. CASE RemoveMetadata(c)
    BY <1>1, <1>2, <1>6 DEF RemoveMetadata
<1>7. CASE DataObjectChecksum(c)
    <2>1. CASE "calculate" \in Top(c).options /\ ~Throw(c)
        BY <1>7, <2>1, ChecksumData DEF DataObjectChecksum, Ready, At
    <2>2. CASE "calculate" \notin Top(c).options /\ ~Throw(c)
        <3> DEFINE step == "query"
                   a == [Top(c) EXCEPT !.at = step]
        <3>1. Busy(c) /\ Continue(c, <<a>>) /\ UNCHANGED cat /\ EntriesInv(handles')
            BY <1>7, <2>2 DEF DataObjectChecksum, Ready, At, DataInv
        <3>2. a \in {Top(c), [Top(c) EXCEPT !.at = step], [Top(c) EXCEPT !.seen = step]}
            OBVIOUS
        <3> HIDE DEF a
        <3> QED BY <3>1, <3>2, GoesOnData
    <2> QED BY <2>1, <2>2, ThrowData
<1>8. CASE QueryChecksums(c)
    BY <1>8, ThrowData, ReturnData DEF QueryChecksums, At, NoChange, DataInv
<1> QED BY <1>3, <1>4, <1>5, <1>6, <1>7, <1>8 DEF Updating

-----------------------------------------------------------------------------
(* The walk, which changes nothing *)

\* Goto and WalkEnds.
LEMMA WalkGoesData ==
    ASSUME DataInv, NEW c \in Clients, Busy(c), Top(c).name = "walk", NEW step, NEW walk,
           Goto(c, step, walk) \/ WalkEnds(c), UNCHANGED cat, EntriesInv(handles')
    PROVE  DataStep
<1> DEFINE r == Front(client[c].frames) \o <<[Top(c) EXCEPT !.at = step]>>
           e == Front(client[c].frames) \o <<>>
<1>1. IsClient(client[c])
    BY DEF DataInv, Inv, ClientInv
<1>2. CASE Goto(c, step, walk)
    <2> DEFINE k == [client[c] EXCEPT !.frames = r]
               m == [k EXCEPT !.walk = walk]
    <2>1. client' = [client EXCEPT ![c] = m]
        BY <1>2 DEF Goto, Become
    <2> HIDE DEF r
    <2>2. k.op = client[c].op /\ k.frames = r /\ IsClient(k)
        BY <1>1 DEF IsClient
    <2> HIDE DEF k
    <2>3. m.op = client[c].op /\ m.frames = r
        BY <2>2 DEF IsClient
    <2> HIDE DEF m
    <2>4. m.frames \in {<<>>, Front(client[c].frames) \o <<[Top(c) EXCEPT !.at = step]>>}
        BY <2>3 DEF r
    <2> QED BY <2>1, <2>3, <2>4, AltersData
<1>3. CASE WalkEnds(c)
    <2> DEFINE k == [client[c] EXCEPT !.frames = e]
               m == [k EXCEPT !.walk = <<>>, !.outcome = "true"]
    <2>1. client' = [client EXCEPT ![c] = m]
        BY <1>3 DEF WalkEnds, Become
    <2>2. e = <<>>
        <3>1. Front(client[c].frames) = <<>>
            BY WalkFacts DEF DataInv
        <3> QED BY <3>1, NoStack, Become3
    <2> HIDE DEF e
    <2>3. k.op = client[c].op /\ k.frames = <<>> /\ IsClient(k)
        BY <1>1, <2>2 DEF IsClient
    <2> HIDE DEF k
    <2>4. m.op = client[c].op /\ m.frames = <<>>
        BY <2>3 DEF IsClient
    <2> HIDE DEF m
    <2>5. m.frames \in {<<>>, Front(client[c].frames) \o <<[Top(c) EXCEPT !.at = step]>>}
        BY <2>4
    <2> QED BY <2>1, <2>4, <2>5, AltersData
<1> QED BY <1>2, <1>3

\* The constructor of an iterator.
LEMMA OpenOntoData ==
    ASSUME DataInv, NEW c \in Clients, Busy(c), Top(c).name = "walk", NEW p, NEW walk,
           NEW H, EntriesInv(H), OpenOnto(c, p, walk, H)
    PROVE  DataStep
<1> DEFINE owned == {i.handle : i \in ToSet(walk)}
           first(handle, e, left, read) ==
               /\ handles' = Opened(H, left, read)
               /\ Goto(c, "visit", Append(walk, [handle |-> handle, entry |-> e]))
<1>1. ASSUME NEW handle, NEW e, NEW left, NEW read, \A x \in left : IsSeq(x.path),
             UNCHANGED cat, first(handle, e, left, read)
      PROVE  DataStep
    <2> DEFINE w == Append(walk, [handle |-> handle, entry |-> e])
               step == "visit"
    <2>1. EntriesInv(handles') /\ Goto(c, step, w)
        BY <1>1, EntriesKept
    <2> HIDE DEF w, step, first
    <2> QED BY <1>1, <2>1, WalkGoesData
<1>2. CASE OpenFails(c, p, owned, H)
    <2> HIDE DEF owned
    <2> QED BY <1>2, OpenFailsData
<1>3. \A x \in Entries(p) : IsSeq(x.path)
    BY EntriesArePaths DEF DataInv
<1>4. \/ OpenFails(c, p, owned, H)
      \/ first(0, NoEntry, {}, "all") /\ UNCHANGED cat
      \/ (\E e \in Entries(p) : first(NewHandle(H), e, Entries(p) \ {e}, "some")) /\ UNCHANGED cat
    BY DEF OpenOnto
<1> HIDE DEF owned, first
<1>5. CASE first(0, NoEntry, {}, "all") /\ UNCHANGED cat
    <2> DEFINE left == {}
    <2>1. first(0, NoEntry, left, "all") /\ \A x \in left : IsSeq(x.path)
        BY <1>5
    <2> HIDE DEF left
    <2> QED BY <1>1, <1>5, <2>1
<1>6. ASSUME NEW e \in Entries(p), first(NewHandle(H), e, Entries(p) \ {e}, "some"), UNCHANGED cat
      PROVE  DataStep
    <2> DEFINE left == Entries(p) \ {e}
    <2>1. first(NewHandle(H), e, left, "some") /\ \A x \in left : IsSeq(x.path)
        BY <1>3, <1>6
    <2> HIDE DEF left
    <2> QED BY <1>1, <1>6, <2>1
<1> QED BY <1>2, <1>4, <1>5, <1>6

\* What ++ of the iterator leaves of the entries.
LEMMA AdvancesEntries ==
    ASSUME DataInv, NEW c \in Clients, NEW a \in Advances(c)
    PROVE  EntriesInv(a.handles)
<1> DEFINE i == Here(c)
           n == i.handle
           left == handles[n].left
<1>1. HandlesInv(handles) /\ EntriesInv(handles)
    BY DEF DataInv, Inv
<1>2. \/ a = [walk |-> Front(Walk(c)), handles |-> [handles EXCEPT ![n].read = "all"]]
      \/ \E e \in left : a = [walk |-> Append(Front(Walk(c)), [i EXCEPT !.entry = e]),
                              handles |-> [handles EXCEPT ![n].left = left \ {e}]]
    BY DEF Advances
<1>3. CASE a = [walk |-> Front(Walk(c)), handles |-> [handles EXCEPT ![n].read = "all"]]
    <2> DEFINE read == "all"
    <2>1. a.handles = [handles EXCEPT ![n].read = read]
        BY <1>3
    <2> HIDE DEF n, read
    <2> QED BY <1>1, <2>1, EntryTaken
<1>4. ASSUME NEW e \in left,
             a = [walk |-> Append(Front(Walk(c)), [i EXCEPT !.entry = e]),
                  handles |-> [handles EXCEPT ![n].left = left \ {e}]]
      PROVE  EntriesInv(a.handles)
    <2> DEFINE rest == left \ {e}
    <2>1. a.handles = [handles EXCEPT ![n].left = rest] /\ rest \subseteq handles[n].left
        BY <1>4
    <2> HIDE DEF n, rest
    <2> QED BY <1>1, <2>1, EntryTaken
<1> QED BY <1>2, <1>3, <1>4

\* The program looks at the entry, and may decline to enter it.
LEMMA WalkVisitData ==
    ASSUME DataInv, NEW c \in Clients, WalkVisit(c) \/ WalkDecline(c) PROVE DataStep
<1>1. IsClient(client[c]) /\ EntriesInv(handles)
    BY DEF DataInv, Inv, ClientInv
<1>2. CASE WalkVisit(c)
    <2> DEFINE p == Here(c).entry.path
               visited == client[c].visited \cup {p}
               twice == client[c].twice \/ p \in client[c].visited
               step == "visited"
               r == Front(client[c].frames) \o <<[Top(c) EXCEPT !.at = step]>>
               k == [client[c] EXCEPT !.frames = r]
               m == [k EXCEPT !.visited = visited, !.twice = twice]
    <2>1. Busy(c) /\ NoChange /\ client' = [client EXCEPT ![c] = m]
        <3>1. /\ Busy(c) /\ NoChange
              /\ client' = [client EXCEPT ![c] =
                    [k EXCEPT !.visited = client[c].visited \cup {p},
                              !.twice = client[c].twice \/ p \in client[c].visited]]
            BY <1>2 DEF WalkVisit, WalkAt, At, Become
        <3> QED BY <3>1
    <2> HIDE DEF r, visited, twice
    <2>2. k.op = client[c].op /\ k.frames = r /\ IsClient(k)
        BY <1>1 DEF IsClient
    <2> HIDE DEF k
    <2>3. m.op = client[c].op /\ m.frames = r
        BY <2>2 DEF IsClient
    <2> HIDE DEF m, step
    <2>4. m.frames \in {<<>>, Front(client[c].frames) \o <<[Top(c) EXCEPT !.at = step]>>}
        BY <2>3 DEF r
    <2> QED BY <1>1, <2>1, <2>3, <2>4, AltersData DEF NoChange
<1>3. CASE WalkDecline(c)
    <2> DEFINE skipped == client[c].skipped \cup Below(cat, Here(c).entry.path)
               step == "declined"
               r == Front(client[c].frames) \o <<[Top(c) EXCEPT !.at = step]>>
               k == [client[c] EXCEPT !.frames = r]
               m == [k EXCEPT !.skipped = skipped]
    <2>1. Busy(c) /\ NoChange /\ client' = [client EXCEPT ![c] = m]
        BY <1>3 DEF WalkDecline, Skips, WalkAt, At, Become
    <2> HIDE DEF r, skipped
    <2>2. k.op = client[c].op /\ k.frames = r /\ IsClient(k)
        BY <1>1 DEF IsClient
    <2> HIDE DEF k
    <2>3. m.op = client[c].op /\ m.frames = r
        BY <2>2 DEF IsClient
    <2> HIDE DEF m, step
    <2>4. m.frames \in {<<>>, Front(client[c].frames) \o <<[Top(c) EXCEPT !.at = step]>>}
        BY <2>3 DEF r
    <2> QED BY <1>1, <2>1, <2>3, <2>4, AltersData DEF NoChange
<1> QED BY <1>2, <1>3

\* pop.
LEMMA WalkPopData == ASSUME DataInv, NEW c \in Clients, WalkPop(c) PROVE DataStep
<1> DEFINE w == Walk(c)
           n == Here(c).handle
           step == "visit"
           skipped == client[c].skipped \cup (Below(cat, Here(c).entry.path)
                        \cup UNION {Tree(cat, e.path) : e \in handles[n].left})
           e == Front(client[c].frames) \o <<>>
           r == Front(client[c].frames) \o <<[Top(c) EXCEPT !.at = step]>>
           j == [client[c] EXCEPT !.frames = e]
           k == [client[c] EXCEPT !.frames = r]
           l == [j EXCEPT !.walk = <<>>, !.outcome = "true", !.skipped = skipped]
           m == [k EXCEPT !.walk = Front(w), !.skipped = skipped]
<1>1. /\ Busy(c) /\ Top(c).name = "walk" /\ UNCHANGED cat /\ handles' = Closed(handles, {n})
      /\ client' = [client EXCEPT ![c] = IF Len(w) = 1 THEN l ELSE m]
    <2>1. IsClient(client[c])
        BY DEF DataInv, Inv, ClientInv
    <2>2. k.walk = w
        BY <2>1 DEF Walk, IsClient
    <2> QED BY <2>2 DEF WalkPop, WalkAt, At, Become, Walk
<1>2. IsClient(client[c])
    BY DEF DataInv, Inv, ClientInv
<1>3. e = <<>>
    <2>1. Front(client[c].frames) = <<>>
        BY <1>1, WalkFacts DEF DataInv
    <2> QED BY <2>1, NoStack, Become3
<1> HIDE DEF e, r, skipped
<1>4. /\ j.op = client[c].op /\ j.frames = <<>> /\ IsClient(j)
      /\ k.op = client[c].op /\ k.frames = r /\ IsClient(k)
    BY <1>2, <1>3 DEF IsClient
<1> HIDE DEF j, k
<1>5. l.op = client[c].op /\ l.frames = <<>> /\ m.op = client[c].op /\ m.frames = r
    BY <1>4 DEF IsClient
<1> HIDE DEF l, m, step
<1>6. EntriesInv(handles')
    BY <1>1, EntriesKept DEF DataInv
<1>7. /\ l.frames \in {<<>>, Front(client[c].frames) \o <<[Top(c) EXCEPT !.at = step]>>}
      /\ m.frames \in {<<>>, Front(client[c].frames) \o <<[Top(c) EXCEPT !.at = step]>>}
    BY <1>5 DEF r
<1> QED BY <1>1, <1>5, <1>6, <1>7, AltersData

\* Before it moves, the walk asks what the entry is.
LEMMA WalkStatData == ASSUME DataInv, NEW c \in Clients, WalkStat(c) PROVE DataStep
<1>1. /\ Busy(c) /\ Top(c).name = "walk"
      /\ \/ \E step : Goto(c, step, Walk(c)) /\ NoChange
         \/ Throw(c) \/ Crash(c)
    BY DEF WalkStat, WalkAt, At
<1>2. EntriesInv(handles)
    BY DEF DataInv
<1> QED BY <1>1, <1>2, ThrowData, CrashData, WalkGoesData DEF NoChange

LEMMA WalkProbeData == ASSUME DataInv, NEW c \in Clients, WalkProbe(c) PROVE DataStep
<1> DEFINE p == Here(c).entry.path
           owned == Owned(c)
<1>1. /\ Busy(c) /\ Top(c).name = "walk"
      /\ \/ /\ handles' = Opened(handles, {}, "all") \/ UNCHANGED handles
            /\ \E step : Goto(c, step, Walk(c))
            /\ UNCHANGED cat
         \/ OpenFails(c, p, owned, handles)
    BY DEF WalkProbe, WalkAt, At
<1>2. EntriesInv(handles) /\ (handles' = Opened(handles, {}, "all") => EntriesInv(handles'))
    BY EntriesKept DEF DataInv
<1> HIDE DEF p, owned
<1> QED BY <1>1, <1>2, OpenFailsData, WalkGoesData

\* The walk opens its collection, enters one below, or passes one over.
LEMMA WalkMovesData ==
    ASSUME DataInv, NEW c \in Clients, WalkOpen(c) \/ WalkInto(c) \/ WalkOver(c) PROVE DataStep
<1>1. CASE WalkOpen(c)
    <2> DEFINE p == Top(c).from
               w == <<>>
    <2>1. /\ Busy(c) /\ Top(c).name = "walk" /\ OpenOnto(c, p, w, handles)
          /\ EntriesInv(handles)
        BY <1>1 DEF WalkOpen, WalkAt, At, DataInv
    <2> HIDE DEF p, w
    <2> QED BY <2>1, OpenOntoData
<1>2. CASE WalkInto(c)
    <2>1. ASSUME NEW a \in Advances(c), OpenOnto(c, Here(c).entry.path, a.walk, a.handles)
          PROVE  DataStep
        <3> DEFINE p == Here(c).entry.path
                   w == a.walk
                   H == a.handles
        <3>1. Busy(c) /\ Top(c).name = "walk" /\ OpenOnto(c, p, w, H)
            BY <1>2, <2>1 DEF WalkInto, WalkAt, At
        <3>2. EntriesInv(H)
            BY AdvancesEntries
        <3> HIDE DEF p, w, H
        <3> QED BY <3>1, <3>2, OpenOntoData
    <2> QED BY <1>2, <2>1, ThrowData DEF WalkInto
<1>3. CASE WalkOver(c)
    <2>1. ASSUME NEW a \in Advances(c), handles' = a.handles, UNCHANGED cat,
                 IF a.walk = <<>> THEN WalkEnds(c) ELSE Goto(c, "visit", a.walk)
          PROVE  DataStep
        <3> DEFINE w == a.walk
                   step == "visit"
        <3>1. Busy(c) /\ Top(c).name = "walk"
            BY <1>3 DEF WalkOver, WalkAt, At
        <3>2. EntriesInv(handles') /\ (Goto(c, step, w) \/ WalkEnds(c))
            BY <2>1, AdvancesEntries
        <3> HIDE DEF w, step
        <3> QED BY <2>1, <3>1, <3>2, WalkGoesData
    <2> QED BY <1>3, <2>1, ThrowData DEF WalkOver
<1> QED BY <1>1, <1>2, <1>3

-----------------------------------------------------------------------------
(* The specification *)

\* Every step of a client in its operation.
LEMMA StepData == ASSUME DataInv, NEW c \in Clients, Step(c) PROVE DataStep
<1>1. CASE Copying(c)
    BY <1>1, CopyBeginsData, CopyOpenData, CopyNextData, CopyDataObjectData DEF Copying
<1>2. CASE Walking(c)
    BY <1>2, WalkMovesData, WalkVisitData, CrashData, WalkPopData, WalkStatData,
       WalkProbeData DEF Walking, WalkCrash
<1> QED BY <1>1, <1>2, StatData, CreatingData, RemovingData, RenameData, UpdatingData DEF Step

\* An operation begins as it was asked for.
LEMMA StartData == ASSUME DataInv, NEW c \in Clients, Start(c) PROVE DataStep
<1> DEFINE k == client[c]
           f == Head(k.todo)
           rest == Tail(k.todo)
           r == <<f>>
           j == Client(f, rest)
           m == [j EXCEPT !.frames = r]
<1>1. /\ k.todo # <<>> /\ UNCHANGED <<cat, handles>> /\ client' = [client EXCEPT ![c] = m]
    BY DEF Start, NoChange
<1>2. ClientInv(k) /\ DOMAIN client = Clients
    BY DEF DataInv, Inv
<1>3. f \in Requests
    <2>1. k.todo \in Seq(Requests)
        BY <1>2 DEF ClientInv
    <2> HIDE DEF k
    <2> QED BY <1>1, <2>1, HeadTailProperties
<1>4. IsSeq(f.from) /\ IsSeq(f.to)
    <2>1. f.from \in Seq(STRING) /\ f.to \in Seq(STRING)
        BY <1>3 DEF Requests
    <2> HIDE DEF f
    <2> QED BY <2>1, SeqFacts
<1>5. IsClient(j) /\ j.op = f
    BY DEF Client, IsClient
<1> HIDE DEF f, rest, j
<1>6. m.op = f /\ m.frames = r
    BY <1>5 DEF IsClient
<1>7. FrameOf(f, f)
    BY <1>4 DEF FrameOf
<1>8. FramesOf(r, f)
    <2>1. r = Append(<<>>, f)
        OBVIOUS
    <2>2. IsSeq(<<>>) /\ FramesOf(<<>>, f)
        BY NoStack, NoFrames
    <2> HIDE DEF r
    <2> QED BY <1>7, <2>1, <2>2, OneMore
<1> HIDE DEF r, m, k
<1>9. client'[c] = m /\ \A d \in Clients \ {c} : client'[d] = client[d]
    BY <1>1, <1>2
<1>10. \A d \in Clients : FramesOf(client'[d].frames, client'[d].op)
    BY <1>6, <1>8, <1>9 DEF DataInv
<1>11. KeepsData
    BY <1>1 DEF KeepsData
<1> QED BY <1>1, <1>10, <1>11 DEF DataStep, DataInv

LEMMA InitData == ASSUME Init PROVE DataInv
<1>1. CatalogInv(cat)
    BY CatalogAssumption, TreeIsCatalog DEF Init
<1>2. EntriesInv(handles)
    <2>1. DOMAIN <<>> = {}
        OBVIOUS
    <2> QED BY <2>1 DEF Init, EntriesInv
<1>3. ASSUME NEW c \in Clients PROVE FramesOf(client[c].frames, client[c].op)
    <2>1. PICK program : client[c] = Client(Frame("none", <<>>, <<>>, {}), program)
        BY DEF Init
    <2> DEFINE k == client[c]
               op == Frame("none", <<>>, <<>>, {})
    <2> HIDE DEF op
    <2>2. k.frames = <<>>
        BY <2>1 DEF Client, op
    <2> QED BY <2>2, NoFrames
<1> QED BY <1>1, <1>2, <1>3, InitInv DEF DataInv

\* Every step.
LEMMA NextData == ASSUME DataInv, [Next]_vars PROVE DataInv' /\ [KeepsData]_vars
<1>1. CASE UNCHANGED vars
    <2>1. Inv'
        BY <1>1 DEF DataInv, Inv, vars, HandlesAccounted, Owned
    <2> QED BY <1>1, <2>1 DEF DataInv, vars
<1>2. ASSUME NEW c \in Clients, Start(c) \/ Step(c) PROVE DataInv' /\ KeepsData
    <2>1. DataStep
        BY <1>2, StartData, StepData
    <2>2. Inv'
        BY <1>2, StartKeeps, StepKeeps DEF DataInv
    <2> QED BY <2>1, <2>2 DEF DataStep, DataInv
<1> QED BY <1>1, <1>2 DEF Next

\* The catalog stays a tree of collections whatever the clients do, what is
\* done in an operation was asked of it, and what an iterator has still to
\* show are paths.
THEOREM DataInvHolds == Spec => []DataInv
<1>1. DataInv /\ [Next]_vars => DataInv'
    BY NextData
<1> QED BY InitData, <1>1, PTL DEF Spec

\* No step loses the data of an object but one of a client that was asked to
\* remove it, to rename something to its path, or to copy and overwrite.
THEOREM DataIsKept == Spec => [][KeepsData]_vars
<1>1. DataInv /\ [Next]_vars => [KeepsData]_vars
    BY NextData
<1> QED BY <1>1, DataInvHolds, PTL DEF Spec
=============================================================================
