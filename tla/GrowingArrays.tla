---------------------------- MODULE GrowingArrays ----------------------------
(***************************************************************************)
(* The arrays of keyValPair_t, inxIvalPair_t, inxValPair_t and rError_t:   *)
(* their length is kept, their capacity is not.  It is inferred: an array  *)
(* is enlarged when its length is a multiple of PTR_ARRAY_MALLOC_LEN.      *)
(* Here the capacity is part of the value, so that a write behind it shows.*)
(***************************************************************************)
EXTENDS Integers, Sequences, SequencesExt

CONSTANT PTR_ARRAY_MALLOC_LEN
ASSUME GrowthAssumption == PTR_ARRAY_MALLOC_LEN \in Nat \ {0}

Empty == [items |-> <<>>, cap |-> 0]
Pair(key, value) == [key |-> key, value |-> value]
Fits(a) == Len(a.items) <= a.cap
Position(a, key) == SelectInSeq(a.items, LAMBDA p : p.key = key)

\* Where the length calls for it the array is copied to one that is larger
\* by PTR_ARRAY_MALLOC_LEN than the length, whatever its capacity was.
Enlarged(a) ==
    IF Len(a.items) % PTR_ARRAY_MALLOC_LEN = 0
    THEN [a EXCEPT !.cap = Len(a.items) + PTR_ARRAY_MALLOC_LEN] ELSE a
Appended(a, p) == [Enlarged(a) EXCEPT !.items = Append(@, p)]

\* addInxIval and addInxVal append, also an index that is there already.
addInxIval(a, inx, value) == Appended(a, Pair(inx, value))
addInxVal(a, inx, value) == Appended(a, Pair(inx, value))

\* addKeyVal replaces the value of a key that is there.
addKeyVal(a, key, value) ==
    IF Position(a, key) # 0
    THEN [a EXCEPT !.items[Position(a, key)].value = value]
    ELSE Appended(a, Pair(key, value))

getValByKey(a, key, default) ==
    IF Position(a, key) = 0 THEN default ELSE a.items[Position(a, key)].value

\* replKeyVal fills a cleared structure with the pairs of another.
replKeyVal(a) ==
    LET Add(b, p) == addKeyVal(b, p.key, p.value) IN FoldLeft(Add, Empty, a.items)

\* clearKeyVal, clearInxIval and clearInxVal free nothing of an array that
\* has no elements.
Cleared(a) == IF a.items = <<>> THEN a ELSE Empty
=============================================================================
