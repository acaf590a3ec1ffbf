------------------------ MODULE FilesystemResultProofs ------------------------
(***************************************************************************)
(* Proofs about what the operations of Filesystem yield: a walk through a  *)
(* catalog that nobody changes sees nothing twice and, when it finishes,   *)
(* everything that it did not skip; remove_all counts all that it removes; *)
(* no call makes a path that is too long; and a copy of a collection makes *)
(* the image of its source, for any clients, programs and catalogs.        *)
(***************************************************************************)
EXTENDS FilesystemProofs

(* An entry as it is in the catalog, and those of a collection.            *)
EntryOf(C, q) == [path |-> q, kind |-> C[q].kind]
EntriesOf(C, p) == {EntryOf(C, q) : q \in Children(C, p)}

(* The entries that an iterator shows or has still to read, and those of   *)
(* all iterators of a walk, each in one of them and there once.            *)
Row(H, i) == H[i.handle].left \cup {i.entry}
Rows(H, w) == UNION {Row(H, w[n]) : n \in 1 .. Len(w)}
RowsInv(H, w) ==
    /\ \A n \in 1 .. Len(w) : w[n].entry \notin H[w[n].handle].left
    /\ \A n, m \in 1 .. Len(w) : n # m => Row(H, w[n]) \cap Row(H, w[m]) = {}

(* What is at or below an entry of F, which are no two below one another.  *)
Apart(F) == \A e, g \in F : e # g => ~IsPrefix(e.path, g.path)
Under(C, F) == {q \in DOMAIN C : \E e \in F : IsPrefix(e.path, q)}

(* What a walk that is at this step of the entry e may see there.          *)
Ahead(C, e, at) ==
    IF at = "visit" THEN Tree(C, e.path)
    ELSE IF at \in {"visited", "probe", "into"} THEN Below(C, e.path)
    ELSE {}

(* What is below the start is split into what the walk has seen, what it   *)
(* has skipped, and what is before it: at or below the entries of its      *)
(* iterators, F, of which it shows e.                                      *)
Splits(S, A, B, D) == S = A \cup B \cup D /\ A \cap B = {} /\ A \cap D = {} /\ B \cap D = {}
PathsInv(C, from, V, S, F, e, at) ==
    /\ F \subseteq {EntryOf(C, q) : q \in DOMAIN C \ {<<>>}} /\ Apart(F) /\ e \in F
    /\ Splits(Below(C, from), V, S, Under(C, F \ {e}) \cup Ahead(C, e, at))
    /\ Under(C, F \ {e}) \cap Ahead(C, e, at) = {}

-----------------------------------------------------------------------------
(* Trees *)

\* What is below a collection is at or below one of its entries.
LEMMA BelowEntries ==
    ASSUME NEW C, CatalogInv(C), NEW p \in DOMAIN C
    PROVE  Below(C, p) = Under(C, EntriesOf(C, p))
<1>1. IsSeq(p) /\ Len(p) \in Nat
    BY PathLen DEF CatalogInv
<1>2. ASSUME NEW x \in Below(C, p) PROVE x \in Under(C, EntriesOf(C, p))
    <2> DEFINE n == Len(p) + 1
               t == SubSeq(x, 1, n)
    <2>1. x \in DOMAIN C /\ IsPrefix(p, x) /\ x # p /\ IsSeq(x) /\ Len(x) \in Nat
        BY <1>2, PathLen DEF Below, Tree, CatalogInv
    <2>2. Len(p) <= Len(x) /\ Len(p) # Len(x)
        BY <1>1, <2>1, PrefixFacts
    <2>3. n \in Nat /\ n <= Len(x)
        BY <1>1, <2>1, <2>2
    <2>4. IsSeq(t) /\ Len(t) = n /\ \A i \in 1 .. n : t[i] = x[i]
        BY <2>1, <2>3, Begin
    <2> HIDE DEF t
    <2>5. IsPrefix(t, x)
        BY <2>1, <2>3, <2>4, PrefixIs
    <2>6. IsPrefix(p, t) /\ t # p /\ t # <<>>
        <3>1. \A i \in 1 .. Len(p) : p[i] = x[i]
            BY <1>1, <2>1, PrefixIs
        <3>2. IsPrefix(p, t)
            BY <1>1, <2>4, <3>1, PrefixIs
        <3> QED BY <1>1, <2>4, <3>2, NoStack
    <2>7. t \in DOMAIN C
        <3>1. t = x \/ Above(t, x)
            BY <2>4, <2>5, <2>6 DEF Above
        <3> QED BY <2>1, <3>1 DEF CatalogInv
    <2>8. t \in Children(C, p)
        BY <2>4, <2>6, <2>7 DEF Children, Below, Tree
    <2>9. EntryOf(C, t) \in EntriesOf(C, p) /\ EntryOf(C, t).path = t
        BY <2>8 DEF EntriesOf, EntryOf
    <2> QED BY <2>1, <2>5, <2>9 DEF Under
<1>3. ASSUME NEW x \in Under(C, EntriesOf(C, p)) PROVE x \in Below(C, p)
    <2>1. PICK t \in Children(C, p) : IsPrefix(t, x)
        BY <1>3 DEF Under, EntriesOf, EntryOf
    <2>2. x \in DOMAIN C /\ IsSeq(x) /\ IsSeq(t) /\ IsPrefix(p, t) /\ Len(t) = Len(p) + 1
        BY <1>3 DEF Under, Children, Below, Tree, CatalogInv
    <2>3. IsPrefix(p, x) /\ Len(t) <= Len(x)
        BY <1>1, <2>1, <2>2, PrefixFacts
    <2>4. x # p
        BY <1>1, <2>2, <2>3
    <2> QED BY <2>2, <2>3, <2>4 DEF Below, Tree
<1> QED BY <1>2, <1>3

\* The entries of a collection are apart, and in the catalog.
LEMMA EntriesApart ==
    ASSUME NEW C, CatalogInv(C), NEW p \in DOMAIN C
    PROVE  /\ Apart(EntriesOf(C, p))
           /\ EntriesOf(C, p) \subseteq {EntryOf(C, q) : q \in DOMAIN C \ {<<>>}}
           /\ \A e \in EntriesOf(C, p) : IsSeq(e.path) /\ IsPrefix(p, e.path)
<1>1. IsSeq(p) /\ Len(p) \in Nat
    BY PathLen DEF CatalogInv
<1>2. ASSUME NEW q \in Children(C, p)
      PROVE  q \in DOMAIN C /\ IsSeq(q) /\ Len(q) = Len(p) + 1 /\ q # <<>> /\ IsPrefix(p, q)
    <2>1. q \in DOMAIN C /\ IsSeq(q) /\ Len(q) = Len(p) + 1 /\ IsPrefix(p, q)
        BY DEF Children, Below, Tree, CatalogInv
    <2> QED BY <1>1, <2>1, NoStack
<1>3. ASSUME NEW q \in Children(C, p), NEW r \in Children(C, p), IsPrefix(q, r)
      PROVE  q = r
    <2>1. IsSeq(q) /\ IsSeq(r) /\ Len(r) = Len(q) /\ Len(r) \in Nat
        BY <1>1, <1>2
    <2> QED BY <1>3, <2>1, PrefixFacts
<1>4. Apart(EntriesOf(C, p))
    BY <1>3 DEF Apart, EntriesOf, EntryOf
<1>5. EntriesOf(C, p) \subseteq {EntryOf(C, q) : q \in DOMAIN C \ {<<>>}}
    BY <1>2 DEF EntriesOf
<1>6. \A e \in EntriesOf(C, p) : IsSeq(e.path) /\ IsPrefix(p, e.path)
    BY <1>2 DEF EntriesOf, EntryOf
<1> QED BY <1>4, <1>5, <1>6

\* There is nothing below a data object, nor below an empty collection.
LEMMA BelowNothing ==
    ASSUME NEW C, CatalogInv(C), NEW p \in DOMAIN C
    PROVE  /\ Children(C, p) = {} => Below(C, p) = {}
           /\ p # <<>> /\ C[p].kind # "coll" => Below(C, p) = {}
<1>1. ASSUME Children(C, p) = {} PROVE Below(C, p) = {}
    BY <1>1, BelowEntries DEF Under, EntriesOf
<1>2. ASSUME p # <<>>, C[p].kind # "coll", NEW x \in Below(C, p) PROVE FALSE
    <2>1. x \in DOMAIN C /\ IsPrefix(p, x) /\ x # p /\ IsSeq(p)
        BY DEF Below, Tree, CatalogInv
    <2>2. Above(p, x)
        BY <1>2, <2>1 DEF Above
    <2> QED BY <1>2, <2>1, <2>2 DEF CatalogInv
<1> QED BY <1>1, <1>2

\* What is at an entry is it and what is below.
LEMMA TreeIs ==
    ASSUME NEW C, CatalogInv(C), NEW p \in DOMAIN C
    PROVE  Tree(C, p) = Below(C, p) \cup {p} /\ p \notin Below(C, p)
<1>1. IsPrefix(p, p)
    BY PrefixFacts DEF CatalogInv
<1> QED BY <1>1 DEF Tree, Below

\* What is under entries that are apart is apart.
LEMMA UnderParts ==
    ASSUME NEW C, CatalogInv(C), NEW F, F \subseteq {EntryOf(C, q) : q \in DOMAIN C \ {<<>>}},
           Apart(F), NEW G, G \subseteq F
    PROVE  /\ Under(C, F) = Under(C, G) \cup Under(C, F \ G)
           /\ Under(C, G) \cap Under(C, F \ G) = {}
<1>1. ASSUME NEW x \in Under(C, G), x \in Under(C, F \ G) PROVE FALSE
    <2>1. PICK e \in G : IsPrefix(e.path, x)
        BY DEF Under
    <2>2. PICK g \in F \ G : IsPrefix(g.path, x)
        BY <1>1 DEF Under
    <2>3. IsSeq(e.path) /\ IsSeq(g.path) /\ IsSeq(x) /\ e \in F /\ g \in F /\ e # g
        BY DEF Under, CatalogInv, EntryOf
    <2>4. IsPrefix(e.path, g.path) \/ IsPrefix(g.path, e.path)
        BY <2>1, <2>2, <2>3, PrefixFacts
    <2> QED BY <2>3, <2>4 DEF Apart
<1> QED BY <1>1 DEF Under

LEMMA UnderOne ==
    ASSUME NEW C, CatalogInv(C), NEW F, F \subseteq {EntryOf(C, q) : q \in DOMAIN C \ {<<>>}},
           Apart(F), NEW e \in F
    PROVE  /\ Under(C, F) = Under(C, F \ {e}) \cup Tree(C, e.path)
           /\ Under(C, F \ {e}) \cap Tree(C, e.path) = {}
           /\ e.path \in DOMAIN C /\ e.path # <<>> /\ e = EntryOf(C, e.path)
<1>1. Under(C, {e}) = Tree(C, e.path)
    BY DEF Under, Tree
<1>2. {e} \subseteq F
    OBVIOUS
<1>3. Under(C, F) = Under(C, {e}) \cup Under(C, F \ {e}) /\ Under(C, {e}) \cap Under(C, F \ {e}) = {}
    BY <1>2, UnderParts
<1>4. e.path \in DOMAIN C /\ e.path # <<>> /\ e = EntryOf(C, e.path)
    BY DEF EntryOf
<1> QED BY <1>1, <1>3, <1>4

-----------------------------------------------------------------------------
(* What a walk has before it *)

\* The walk has looked at its entry: it had not seen it before.
LEMMA SeenPaths ==
    ASSUME NEW C, CatalogInv(C), NEW from, NEW V, NEW S, NEW F, NEW e,
           PathsInv(C, from, V, S, F, e, "visit")
    PROVE  /\ e.path \notin V
           /\ PathsInv(C, from, V \cup {e.path}, S, F, e, "visited")
<1> DEFINE p == e.path
           U == Under(C, F \ {e})
           T == Tree(C, p)
           B == Below(C, p)
           X == Below(C, from)
<1>1. Ahead(C, e, "visit") = T /\ Ahead(C, e, "visited") = B
    BY DEF Ahead
<1>2. /\ F \subseteq {EntryOf(C, q) : q \in DOMAIN C \ {<<>>}} /\ Apart(F) /\ e \in F
      /\ Splits(X, V, S, U \cup T) /\ U \cap T = {}
    BY <1>1 DEF PathsInv
<1>3. p \in DOMAIN C
    BY <1>2, UnderOne
<1>4. T = B \cup {p} /\ p \notin B
    BY <1>3, TreeIs
<1> HIDE DEF p, U, T, B, X
<1>5. p \notin V /\ Splits(X, V \cup {p}, S, U \cup B) /\ U \cap B = {}
    BY <1>2, <1>4 DEF Splits
<1> QED BY <1>1, <1>2, <1>5 DEF PathsInv, p, U, B, X

\* The walk looks closer at its entry.
LEMMA SamePaths ==
    ASSUME NEW C, NEW from, NEW V, NEW S, NEW F, NEW e, NEW at, NEW step,
           PathsInv(C, from, V, S, F, e, at), Ahead(C, e, step) = Ahead(C, e, at)
    PROVE  PathsInv(C, from, V, S, F, e, step)
BY DEF PathsInv

\* The walk declines to enter a collection.
LEMMA DeclinedPaths ==
    ASSUME NEW C, NEW from, NEW V, NEW S, NEW F, NEW e, PathsInv(C, from, V, S, F, e, "visited")
    PROVE  PathsInv(C, from, V, S \cup Below(C, e.path), F, e, "declined")
<1> DEFINE U == Under(C, F \ {e})
           B == Below(C, e.path)
           X == Below(C, from)
<1>1. Ahead(C, e, "visited") = B /\ Ahead(C, e, "declined") = {}
    BY DEF Ahead
<1>2. Splits(X, V, S, U \cup B) /\ U \cap B = {}
    BY <1>1 DEF PathsInv
<1> HIDE DEF U, B, X
<1>3. Splits(X, V, S \cup B, U \cup {})
    BY <1>2 DEF Splits
<1> QED BY <1>1, <1>3 DEF PathsInv, U, B, X

\* All that is left is F: the walk goes on to one of them, or ends.
LeavesOff(C, from, V, S, F) ==
    /\ \A g \in F : PathsInv(C, from, V, S, F, g, "visit")
    /\ F = {} => V = Below(C, from) \ S

\* The walk goes on to one of the entries that it has left, or ends.
LEMMA LeftPaths ==
    ASSUME NEW C, CatalogInv(C), NEW from, NEW V, NEW S, NEW F, NEW e, NEW at,
           PathsInv(C, from, V, S, F, e, at), Ahead(C, e, at) = {}
    PROVE  LeavesOff(C, from, V, S, F \ {e})
<1> DEFINE G == F \ {e}
           X == Below(C, from)
           U == Under(C, G)
<1>1. /\ F \subseteq {EntryOf(C, q) : q \in DOMAIN C \ {<<>>}} /\ Apart(F)
      /\ Splits(X, V, S, U)
    BY DEF PathsInv
<1>2. G \subseteq {EntryOf(C, q) : q \in DOMAIN C \ {<<>>}} /\ Apart(G)
    BY <1>1 DEF Apart
<1>3. ASSUME NEW g \in G PROVE PathsInv(C, from, V, S, G, g, "visit")
    <2>1. U = Under(C, G \ {g}) \cup Tree(C, g.path) /\ Under(C, G \ {g}) \cap Tree(C, g.path) = {}
        BY <1>2, UnderOne
    <2>2. Ahead(C, g, "visit") = Tree(C, g.path)
        BY DEF Ahead
    <2> HIDE DEF G, U, X
    <2> QED BY <1>1, <1>2, <2>1, <2>2 DEF PathsInv, X
<1>4. ASSUME G = {} PROVE V = X \ S
    <2>1. U = {}
        BY <1>4 DEF Under
    <2> HIDE DEF U, X
    <2> QED BY <1>1, <2>1 DEF Splits
<1> HIDE DEF G
<1>5. LeavesOff(C, from, V, S, G)
    BY <1>3, <1>4 DEF LeavesOff
<1> QED BY <1>5 DEF G

\* The walk leaves the collection that its iterator is in: K are the entries
\* there that it has not seen, and G those of the other iterators.
LEMMA PoppedPaths ==
    ASSUME NEW C, CatalogInv(C), NEW from, NEW V, NEW S, NEW F, NEW e, NEW G, NEW K,
           PathsInv(C, from, V, S, F, e, "visited"),
           \A x : x \in F /\ x # e <=> x \in G \/ x \in K, \A x \in G : x \notin K, NEW T,
           \A x : x \in T <=> x \in S \/ x \in Below(C, e.path) \/ x \in Under(C, K)
    PROVE  LeavesOff(C, from, V, T, G)
<1> DEFINE N == F \ {e}
           X == Below(C, from)
           B == Below(C, e.path)
           U == Under(C, N)
           UG == Under(C, G)
           UK == Under(C, K)
<1>1. Ahead(C, e, "visited") = B
    BY DEF Ahead
<1>2. /\ F \subseteq {EntryOf(C, q) : q \in DOMAIN C \ {<<>>}} /\ Apart(F)
      /\ Splits(X, V, S, U \cup B) /\ U \cap B = {}
    BY <1>1 DEF PathsInv
<1>3. N \subseteq {EntryOf(C, q) : q \in DOMAIN C \ {<<>>}} /\ Apart(N) /\ G \subseteq N /\ N \ G = K
    BY <1>2 DEF Apart
<1>4. U = UG \cup UK /\ UG \cap UK = {}
    BY <1>3, UnderParts
<1>5. G \subseteq {EntryOf(C, q) : q \in DOMAIN C \ {<<>>}} /\ Apart(G)
    BY <1>3 DEF Apart
<1>6. Splits(X, V, T, UG)
    <2>1. \A x : x \in T <=> x \in S \/ x \in B \/ x \in UK
        OBVIOUS
    <2> HIDE DEF N, X, B, U, UG, UK
    <2>2. T = S \cup B \cup UK
        BY <2>1
    <2> QED BY <1>2, <1>4, <2>2 DEF Splits
<1>7. ASSUME NEW g \in G PROVE PathsInv(C, from, V, T, G, g, "visit")
    <2>1. UG = Under(C, G \ {g}) \cup Tree(C, g.path) /\ Under(C, G \ {g}) \cap Tree(C, g.path) = {}
        BY <1>5, UnderOne
    <2>2. Ahead(C, g, "visit") = Tree(C, g.path)
        BY DEF Ahead
    <2> HIDE DEF N, X, B, U, UG, UK
    <2> QED BY <1>5, <1>6, <2>1, <2>2 DEF PathsInv, X
<1>8. ASSUME G = {} PROVE V = X \ T
    <2>1. UG = {}
        BY <1>8 DEF Under
    <2> HIDE DEF UG, X
    <2> QED BY <1>6, <2>1 DEF Splits
<1> QED BY <1>7, <1>8 DEF LeavesOff

\* The walk enters a collection that is not empty.
LEMMA EnteredPaths ==
    ASSUME NEW C, CatalogInv(C), NEW from, NEW V, NEW S, NEW F, NEW e,
           PathsInv(C, from, V, S, F, e, "into"), NEW g \in EntriesOf(C, e.path)
    PROVE  /\ PathsInv(C, from, V, S, (F \ {e}) \cup EntriesOf(C, e.path), g, "visit")
           /\ (F \ {e}) \cap EntriesOf(C, e.path) = {}
<1> DEFINE p == e.path
           G == F \ {e}
           K == EntriesOf(C, p)
           N == G \cup K
           X == Below(C, from)
           B == Below(C, p)
           U == Under(C, G)
<1>1. Ahead(C, e, "into") = B
    BY DEF Ahead
<1>2. /\ F \subseteq {EntryOf(C, q) : q \in DOMAIN C \ {<<>>}} /\ Apart(F) /\ e \in F
      /\ Splits(X, V, S, U \cup B) /\ U \cap B = {}
    BY <1>1 DEF PathsInv
<1>3. p \in DOMAIN C /\ IsSeq(p)
    BY <1>2, UnderOne DEF CatalogInv
<1>4. /\ Apart(K) /\ K \subseteq {EntryOf(C, q) : q \in DOMAIN C \ {<<>>}}
      /\ \A k \in K : IsSeq(k.path) /\ IsPrefix(p, k.path)
    BY <1>3, EntriesApart
<1>5. \A f \in F : IsSeq(f.path)
    BY <1>2 DEF EntryOf, CatalogInv
<1>6. ASSUME NEW f \in G, NEW k \in K
      PROVE  ~IsPrefix(f.path, k.path) /\ ~IsPrefix(k.path, f.path)
    <2>1. ~IsPrefix(f.path, p) /\ ~IsPrefix(p, f.path)
        BY <1>2, <1>6 DEF Apart
    <2>2. IsSeq(f.path) /\ IsSeq(k.path) /\ IsPrefix(p, k.path)
        BY <1>4, <1>5
    <2> QED BY <1>3, <2>1, <2>2, PrefixFacts
<1>7. G \cap K = {}
    <2> SUFFICES ASSUME NEW k \in K, k \in G PROVE FALSE
        OBVIOUS
    <2>1. IsPrefix(k.path, k.path)
        BY <1>4, PrefixFacts
    <2> QED BY <1>6, <2>1
<1>8. Apart(N)
    <2> SUFFICES ASSUME NEW x \in N, NEW y \in N, x # y PROVE ~IsPrefix(x.path, y.path)
        BY DEF Apart
    <2>1. CASE x \in G /\ y \in G
        BY <1>2, <2>1 DEF Apart
    <2>2. CASE x \in K /\ y \in K
        BY <1>4, <2>2 DEF Apart
    <2>3. CASE x \in G /\ y \in K
        BY <1>6, <2>3
    <2>4. CASE x \in K /\ y \in G
        BY <1>6, <2>4
    <2> QED BY <2>1, <2>2, <2>3, <2>4
<1>9. N \subseteq {EntryOf(C, q) : q \in DOMAIN C \ {<<>>}} /\ g \in N
    BY <1>2, <1>4
<1>10. Under(C, N) = U \cup B
    <2>1. Under(C, N) = U \cup Under(C, K)
        BY DEF Under
    <2> QED BY <1>3, <2>1, BelowEntries
<1>11. /\ Under(C, N) = Under(C, N \ {g}) \cup Tree(C, g.path)
       /\ Under(C, N \ {g}) \cap Tree(C, g.path) = {}
    BY <1>8, <1>9, UnderOne
<1>12. Ahead(C, g, "visit") = Tree(C, g.path)
    BY DEF Ahead
<1>13. PathsInv(C, from, V, S, N, g, "visit")
    <2> HIDE DEF N, U, B, X
    <2> QED BY <1>2, <1>8, <1>9, <1>10, <1>11, <1>12 DEF PathsInv, X
<1> QED BY <1>7, <1>13

\* The walk begins in a collection that is not empty.
LEMMA BegunPaths ==
    ASSUME NEW C, CatalogInv(C), NEW from \in DOMAIN C, NEW g \in EntriesOf(C, from)
    PROVE  PathsInv(C, from, {}, {}, EntriesOf(C, from), g, "visit")
<1> DEFINE K == EntriesOf(C, from)
           X == Below(C, from)
<1>1. Apart(K) /\ K \subseteq {EntryOf(C, q) : q \in DOMAIN C \ {<<>>}} /\ X = Under(C, K)
    BY EntriesApart, BelowEntries
<1> HIDE DEF K
<1>2. /\ Under(C, K) = Under(C, K \ {g}) \cup Tree(C, g.path)
      /\ Under(C, K \ {g}) \cap Tree(C, g.path) = {}
    BY <1>1, UnderOne DEF K
<1>3. Ahead(C, g, "visit") = Tree(C, g.path)
    BY DEF Ahead
<1>4. g \in K
    BY DEF K
<1> HIDE DEF X
<1> QED BY <1>1, <1>2, <1>3, <1>4 DEF PathsInv, Splits, X, K

-----------------------------------------------------------------------------
(* The iterators of a walk *)

\* Handles that have the same entries left.
LEMMA RowsAgree ==
    ASSUME NEW H, NEW G, NEW w, \A n \in 1 .. Len(w) : G[w[n].handle].left = H[w[n].handle].left
    PROVE  Rows(G, w) = Rows(H, w) /\ (RowsInv(H, w) => RowsInv(G, w))
<1>1. \A n \in 1 .. Len(w) : Row(G, w[n]) = Row(H, w[n])
    BY DEF Row
<1>2. Rows(G, w) = Rows(H, w)
    BY <1>1 DEF Rows
<1>3. ASSUME RowsInv(H, w) PROVE RowsInv(G, w)
    BY <1>1, <1>3 DEF RowsInv
<1> QED BY <1>2, <1>3

\* An iterator is put on the stack.
LEMMA RowsPushed ==
    ASSUME NEW H, NEW w, IsSeq(w), RowsInv(H, w), NEW i, i.entry \notin H[i.handle].left,
           Row(H, i) \cap Rows(H, w) = {}
    PROVE  /\ RowsInv(H, Append(w, i)) /\ Rows(H, Append(w, i)) = Rows(H, w) \cup Row(H, i)
           /\ Append(w, i)[Len(Append(w, i))] = i
<1> DEFINE S == ToSet(w)
           T == S \cup {i}
           t == Append(w, i)
           R == Row(H, i)
<1>1. w \in Seq(S)
    BY DEF IsSeq
<1> HIDE DEF S
<1>2. w \in Seq(T) /\ i \in T /\ Len(w) \in Nat
    BY <1>1, LenProperties, SeqDef
<1> HIDE DEF T
<1>3. Len(t) = Len(w) + 1 /\ (\A n \in 1 .. Len(w) : t[n] = w[n]) /\ t[Len(w) + 1] = i
    BY <1>2, AppendProperties
<1> HIDE DEF t
<1>4. /\ \A n \in 1 .. Len(t) : n \in 1 .. Len(w) \/ n = Len(t)
      /\ \A n \in 1 .. Len(w) : n \in 1 .. Len(t) /\ t[n] = w[n] /\ Row(H, t[n]) = Row(H, w[n])
      /\ Len(t) \in 1 .. Len(t) /\ t[Len(t)] = i /\ Row(H, t[Len(t)]) = R
    BY <1>2, <1>3
<1>5. Rows(H, t) = Rows(H, w) \cup R
    <2> HIDE DEF R
    <2> QED BY <1>4 DEF Rows
<1>6. \A n \in 1 .. Len(w) : Row(H, w[n]) \cap R = {}
    BY DEF Rows
<1>7. \A n \in 1 .. Len(t) : t[n].entry \notin H[t[n].handle].left
    <2> SUFFICES ASSUME NEW n \in 1 .. Len(t) PROVE t[n].entry \notin H[t[n].handle].left
        OBVIOUS
    <2>1. CASE n \in 1 .. Len(w)
        BY <1>4, <2>1 DEF RowsInv
    <2>2. CASE n = Len(t)
        BY <1>4, <2>2
    <2> QED BY <1>4, <2>1, <2>2
<1>8. ASSUME NEW n \in 1 .. Len(t), NEW m \in 1 .. Len(t), n # m
      PROVE  Row(H, t[n]) \cap Row(H, t[m]) = {}
    <2>1. CASE n \in 1 .. Len(w) /\ m \in 1 .. Len(w)
        BY <1>4, <1>8, <2>1 DEF RowsInv
    <2>2. CASE n \in 1 .. Len(w) /\ m = Len(t)
        <3> HIDE DEF R
        <3> QED BY <1>4, <1>6, <2>2
    <2>3. CASE n = Len(t) /\ m \in 1 .. Len(w)
        <3> HIDE DEF R
        <3> QED BY <1>4, <1>6, <2>3
    <2> QED BY <1>4, <1>8, <2>1, <2>2, <2>3
<1> QED BY <1>4, <1>5, <1>7, <1>8 DEF RowsInv, t, R

\* The iterator at the top is taken off.
LEMMA RowsPopped ==
    ASSUME NEW H, NEW w, IteratorsInv(w), w # <<>>, RowsInv(H, w)
    PROVE  /\ IteratorsInv(Front(w)) /\ Len(w) \in Nat \ {0} /\ Len(Front(w)) = Len(w) - 1
           /\ \A n \in 1 .. Len(w) - 1 : Front(w)[n] = w[n]
           /\ RowsInv(H, Front(w)) /\ Rows(H, w) = Rows(H, Front(w)) \cup Row(H, Last(w))
           /\ Rows(H, Front(w)) \cap Row(H, Last(w)) = {}
           /\ Last(w).entry \notin H[Last(w).handle].left
<1> DEFINE f == Front(w)
           i == Last(w)
<1>1. /\ IteratorsInv(f) /\ Len(f) = Len(w) - 1 /\ Len(w) \in Nat \ {0}
      /\ \A n \in 1 .. Len(w) - 1 : f[n] = w[n]
    <2>1. /\ IsSeq(f) /\ Distinct(f) /\ Len(f) = Len(w) - 1 /\ Len(w) \in Nat \ {0}
          /\ \A n \in 1 .. Len(w) - 1 : f[n] = w[n]
        BY Popped DEF IteratorsInv
    <2> HIDE DEF f
    <2> QED BY <2>1 DEF IteratorsInv
<1>2. i = w[Len(w)]
    BY DEF Last
<1> HIDE DEF f, i
<1>3. /\ \A n \in 1 .. Len(w) : n \in 1 .. Len(f) \/ n = Len(w)
      /\ \A n \in 1 .. Len(f) : n \in 1 .. Len(w) /\ n # Len(w) /\ f[n] = w[n]
      /\ Len(w) \in 1 .. Len(w)
    BY <1>1
<1>4. RowsInv(H, f)
    BY <1>3 DEF RowsInv
<1>5. Rows(H, w) = Rows(H, f) \cup Row(H, i)
    <2>1. \A n \in 1 .. Len(f) : Row(H, f[n]) = Row(H, w[n])
        BY <1>3
    <2>2. Row(H, i) = Row(H, w[Len(w)])
        BY <1>2
    <2> QED BY <1>3, <2>1, <2>2 DEF Rows
<1>6. Rows(H, f) \cap Row(H, i) = {}
    <2>1. \A n \in 1 .. Len(f) : Row(H, f[n]) \cap Row(H, i) = {}
        BY <1>2, <1>3 DEF RowsInv
    <2> QED BY <2>1 DEF Rows
<1>7. i.entry \notin H[i.handle].left
    BY <1>2, <1>3 DEF RowsInv
<1> QED BY <1>1, <1>4, <1>5, <1>6, <1>7 DEF f, i

-----------------------------------------------------------------------------
(* What a step does to a client and to the handles of the others *)

HandlesOK(H) ==
    \A h \in DOMAIN H : H[h].read \in {"none", "some", "all"} /\ \A e \in H[h].left : e.kind \in Kinds

(* A client that is in a call has no outcome, and its walk or its remove   *)
(* is the operation that it began.                                         *)
StateOK(k) ==
    /\ k.outcome \in {"none", "true", "false", "thrown", "crashed"}
    /\ k.frames # <<>> => k.outcome = "none"
    /\ k.frames # <<>> /\ k.op.name \in {"walk", "remove"} =>
           /\ Len(k.frames) = 1
           /\ k.frames[1].name = k.op.name /\ k.frames[1].from = k.op.from
           /\ k.frames[1].options = k.op.options

TypesInv ==
    /\ DataInv
    /\ HandlesOK(handles)
    /\ \A c \in Clients : StateOK(client[c])

(* The handles H become G, and those in own are the only ones that close   *)
(* or move.                                                                *)
HandlesStep(H, G, own) ==
    /\ \A h \in DOMAIN H \ own : h \in DOMAIN G /\ G[h] = H[h]
    /\ HandlesOK(H) => HandlesOK(G)

Acts(c) ==
    /\ \A d \in Clients \ {c} : client'[d] = client[d]
    /\ client'[c].op = client[c].op /\ StateOK(client'[c])
    /\ HandlesStep(handles, handles', Own(client[c]))

\* Handles that stay, close, open and move.
LEMMA HandlesStay == ASSUME NEW H, NEW own PROVE HandlesStep(H, H, own)
BY DEF HandlesStep

LEMMA HandlesTwice ==
    ASSUME NEW H, NEW G, NEW K, NEW own, HandlesStep(H, G, own), HandlesStep(G, K, own)
    PROVE  HandlesStep(H, K, own)
BY DEF HandlesStep

LEMMA HandlesClose ==
    ASSUME NEW H, NEW own, NEW hs, \A h \in DOMAIN H : h \in hs => h \in own
    PROVE  HandlesStep(H, Closed(H, hs), own)
BY DEF HandlesStep, HandlesOK, Closed

LEMMA HandlesOpen ==
    ASSUME NEW H, HandlesInv(H), NEW own, NEW left, \A e \in left : e.kind \in Kinds,
           NEW read \in {"none", "some", "all"}
    PROVE  HandlesStep(H, Opened(H, left, read), own)
<1> DEFINE n == NewHandle(H)
           G == Opened(H, left, read)
<1>1. n \notin DOMAIN H
    BY NewHandleFacts
<1>2. /\ DOMAIN G = DOMAIN H \cup {n}
      /\ \A h \in DOMAIN G : G[h] = IF h = n THEN [left |-> left, read |-> read] ELSE H[h]
    BY DEF Opened
<1> HIDE DEF n, G
<1>3. \A h \in DOMAIN H : h \in DOMAIN G /\ G[h] = H[h]
    BY <1>1, <1>2
<1>4. ASSUME HandlesOK(H) PROVE HandlesOK(G)
    <2> SUFFICES ASSUME NEW h \in DOMAIN G
                 PROVE  /\ G[h].read \in {"none", "some", "all"}
                        /\ \A e \in G[h].left : e.kind \in Kinds
        BY DEF HandlesOK
    <2>1. CASE h = n
        BY <1>2, <2>1
    <2>2. CASE h # n
        BY <1>2, <1>4, <2>2 DEF HandlesOK
    <2> QED BY <2>1, <2>2
<1> QED BY <1>3, <1>4 DEF HandlesStep, G

LEMMA HandlesMove ==
    ASSUME NEW H, HandlesInv(H), NEW own, NEW n \in own
    PROVE  /\ \A left : left \subseteq H[n].left => HandlesStep(H, [H EXCEPT ![n].left = left], own)
           /\ HandlesStep(H, [H EXCEPT ![n].read = "all"], own)
<1>1. ASSUME NEW left, left \subseteq H[n].left
      PROVE  HandlesStep(H, [H EXCEPT ![n].left = left], own)
    <2> DEFINE G == [H EXCEPT ![n].left = left]
    <2>1. DOMAIN G = DOMAIN H /\ \A h \in DOMAIN H \ {n} : G[h] = H[h]
        OBVIOUS
    <2>2. n \in DOMAIN H => G[n] = [left |-> left, read |-> H[n].read]
        BY DEF HandlesInv
    <2> HIDE DEF G
    <2>3. \A h \in DOMAIN G : G[h].left \subseteq H[h].left /\ G[h].read = H[h].read
        BY <1>1, <2>1, <2>2
    <2> QED BY <2>1, <2>3 DEF HandlesStep, HandlesOK, G
<1>2. HandlesStep(H, [H EXCEPT ![n].read = "all"], own)
    <2> DEFINE G == [H EXCEPT ![n].read = "all"]
    <2>1. DOMAIN G = DOMAIN H /\ \A h \in DOMAIN H \ {n} : G[h] = H[h]
        OBVIOUS
    <2>2. n \in DOMAIN H => G[n] = [left |-> H[n].left, read |-> "all"]
        BY DEF HandlesInv
    <2> HIDE DEF G
    <2>3. \A h \in DOMAIN G : G[h].left = H[h].left /\ G[h].read \in {H[h].read, "all"}
        BY <2>1, <2>2
    <2> QED BY <2>1, <2>3 DEF HandlesStep, HandlesOK, G
<1> QED BY <1>1, <1>2

\* The entries of a collection are of the two kinds.
LEMMA EntryKinds ==
    ASSUME CatalogInv(cat), NEW p
    PROVE  \A e \in Entries(p) : e.kind \in Kinds
BY DEF Entries, Children, Below, Tree, CatalogInv, IsObject

\* A walk and a remove are alone in their client.
LEMMA AloneTop ==
    ASSUME Inv, NEW c \in Clients, Busy(c), Top(c).name \in {"walk", "remove"}
    PROVE  /\ Front(client[c].frames) = <<>> /\ Len(client[c].frames) = 1
           /\ client[c].frames[1] = Top(c)
<1> DEFINE s == client[c].frames
           t == Front(s)
<1>1. FramesInv(s) /\ s # <<>> /\ Len(s) = 1 /\ Top(c) = s[1]
    BY TopFacts
<1> HIDE DEF s
<1>2. IsSeq(t) /\ Len(t) = Len(s) - 1
    BY <1>1, FramePopped DEF FramesInv
<1> HIDE DEF t
<1>3. t = <<>>
    BY <1>1, <1>2, PathLen
<1> QED BY <1>1, <1>3 DEF s, t

LEMMA OneFrame ==
    ASSUME NEW a
    PROVE  <<>> \o <<a>> = <<a>> /\ <<a>> # <<>> /\ Len(<<a>>) = 1 /\ <<a>>[1] = a
<1>1. <<a>> \in Seq({a})
    OBVIOUS
<1>2. <<>> \o <<a>> = <<a>>
    BY <1>1, ConcatEmptySeq
<1> QED BY <1>2

\* The record of the client becomes m: it goes on, or has finished.
LEMMA Becomes ==
    ASSUME TypesInv, NEW c \in Clients, Busy(c), NEW m, m.op = client[c].op,
           client' = [client EXCEPT ![c] = m],
           HandlesStep(handles, handles', Own(client[c])),
           \/ m.frames = <<>> /\ m.outcome \in {"none", "true", "false", "thrown", "crashed"}
           \/ Top(c).name \notin {"walk", "remove"} /\ m.outcome = client[c].outcome
           \/ /\ m.outcome = client[c].outcome
              /\ \E a : /\ m.frames = Front(client[c].frames) \o <<a>>
                        /\ a.name = Top(c).name /\ a.from = Top(c).from
                        /\ a.options = Top(c).options
    PROVE  Acts(c)
<1>1. Inv /\ DOMAIN client = Clients /\ StateOK(client[c]) /\ client[c].frames # <<>>
    BY DEF TypesInv, DataInv, Inv, Busy
<1>2. (\A d \in Clients \ {c} : client'[d] = client[d]) /\ client'[c] = m
    BY <1>1
<1>3. client[c].outcome = "none"
    BY <1>1 DEF StateOK
<1>4. client[c].op.name \in {"walk", "remove"} =>
          Top(c).name = client[c].op.name /\ Top(c).from = client[c].op.from
            /\ Top(c).options = client[c].op.options
    <2> HAVE client[c].op.name \in {"walk", "remove"}
    <2>1. Len(client[c].frames) = 1
        BY <1>1 DEF StateOK
    <2>2. Top(c) = client[c].frames[1]
        BY <1>1, <2>1, TopFacts
    <2> QED BY <1>1, <2>2 DEF StateOK
<1>5. CASE m.frames = <<>> /\ m.outcome \in {"none", "true", "false", "thrown", "crashed"}
    <2>1. StateOK(m)
        BY <1>5 DEF StateOK
    <2> QED BY <1>2, <2>1 DEF Acts
<1>6. CASE Top(c).name \notin {"walk", "remove"} /\ m.outcome = client[c].outcome
    <2>1. StateOK(m)
        BY <1>3, <1>4, <1>6 DEF StateOK
    <2> QED BY <1>2, <2>1 DEF Acts
<1>7. ASSUME Top(c).name \in {"walk", "remove"}, m.outcome = client[c].outcome,
             NEW a, m.frames = Front(client[c].frames) \o <<a>>,
             a.name = Top(c).name, a.from = Top(c).from, a.options = Top(c).options
      PROVE  Acts(c)
    <2>1. Front(client[c].frames) = <<>>
        BY <1>1, <1>7, AloneTop
    <2>2. m.frames = <<a>>
        BY <1>7, <2>1, OneFrame
    <2>3. Len(m.frames) = 1 /\ m.frames[1] = a
        BY <2>2, OneFrame
    <2>4. StateOK(m)
        BY <1>3, <1>4, <1>7, <2>3 DEF StateOK
    <2> QED BY <1>2, <2>4 DEF Acts
<1> QED BY <1>5, <1>6, <1>7

\* A function returns.
LEMMA ReturnActs ==
    ASSUME TypesInv, NEW c \in Clients, Busy(c), NEW value \in {"true", "false"}, Return(c, value),
           HandlesStep(handles, handles', Own(client[c]))
    PROVE  Acts(c)
<1> DEFINE s == client[c].frames
           f == Front(s)
           r == f \o <<>>
           k == [client[c] EXCEPT !.frames = r]
           m == [k EXCEPT !.outcome = IF Len(s) = 1 THEN value ELSE @]
<1>1. client' = [client EXCEPT ![c] = m]
    BY DEF Return, Become
<1>2. FramesInv(s) /\ s # <<>> /\ IsClient(client[c]) /\ Len(s) \in Nat \ {0}
    BY TopFacts DEF ClientInv, TypesInv, DataInv
<1>3. IsSeq(f) /\ Len(f) = Len(s) - 1
    <2> HIDE DEF s
    <2> QED BY <1>2, FramePopped DEF FramesInv
<1>4. r = f
    <2> HIDE DEF f
    <2> QED BY <1>3, Become3
<1>5. Len(s) = 1 => f = <<>>
    <2> HIDE DEF f, s
    <2> QED BY <1>3, PathLen
<1>6. Len(s) # 1 => Top(c).name \notin {"walk", "remove"}
    BY TopFacts DEF TypesInv, DataInv
<1> HIDE DEF r, s, f
<1>7. k.op = client[c].op /\ k.frames = r /\ k.outcome = client[c].outcome /\ IsClient(k)
    BY <1>2 DEF IsClient
<1> HIDE DEF k
<1>8. /\ m.op = client[c].op /\ m.frames = r
      /\ m.outcome = IF Len(s) = 1 THEN value ELSE client[c].outcome
    BY <1>7 DEF IsClient
<1> HIDE DEF m
<1>9. \/ m.frames = <<>> /\ m.outcome \in {"none", "true", "false", "thrown", "crashed"}
      \/ Top(c).name \notin {"walk", "remove"} /\ m.outcome = client[c].outcome
    BY <1>4, <1>5, <1>6, <1>8
<1> QED BY <1>1, <1>8, <1>9, Becomes

\* A function goes on, or calls another one.
LEMMA ContinueActs ==
    ASSUME TypesInv, NEW c \in Clients, Busy(c), NEW fs, Continue(c, fs),
           HandlesStep(handles, handles', Own(client[c])),
           \/ Top(c).name \notin {"walk", "remove"}
           \/ \E a : /\ fs = <<a>> /\ a.name = Top(c).name /\ a.from = Top(c).from
                     /\ a.options = Top(c).options
    PROVE  Acts(c)
<1> DEFINE r == Front(client[c].frames) \o fs
           m == [client[c] EXCEPT !.frames = r]
<1>1. client' = [client EXCEPT ![c] = m]
    BY DEF Continue, Become
<1> HIDE DEF r
<1>2. m.op = client[c].op /\ m.frames = r /\ m.outcome = client[c].outcome
    BY DEF TypesInv, DataInv, Inv, ClientInv, IsClient
<1> HIDE DEF m
<1>3. CASE Top(c).name \notin {"walk", "remove"}
    BY <1>1, <1>2, <1>3, Becomes
<1>4. ASSUME NEW a, fs = <<a>>, a.name = Top(c).name, a.from = Top(c).from,
             a.options = Top(c).options
      PROVE  Acts(c)
    <2>1. m.frames = Front(client[c].frames) \o <<a>>
        BY <1>2, <1>4 DEF r
    <2> QED BY <1>1, <1>2, <1>4, <2>1, Becomes
<1> QED BY <1>3, <1>4

\* What is thrown.
LEMMA ThrowFromActs ==
    ASSUME TypesInv, NEW c \in Clients, Busy(c), NEW owned, NEW H, ThrowFrom(c, owned, H),
           HandlesStep(handles, H, Own(client[c])),
           HandlesStep(H, Closed(H, owned), Own(client[c]))
    PROVE  Acts(c)
<1> DEFINE m == [client[c] EXCEPT !.frames = <<>>, !.walk = <<>>, !.outcome = "thrown"]
<1>1. client' = [client EXCEPT ![c] = m]
    BY DEF ThrowFrom, Unwind, Unwinds, TypesInv, DataInv, Inv
<1>2. m.op = client[c].op /\ m.frames = <<>> /\ m.outcome = "thrown"
    BY DEF TypesInv, DataInv, Inv, ClientInv, IsClient
<1> HIDE DEF m
<1>3. HandlesStep(handles, handles', Own(client[c]))
    BY HandlesTwice DEF ThrowFrom
<1> QED BY <1>1, <1>2, <1>3, Becomes

LEMMA ThrowActs ==
    ASSUME TypesInv, NEW c \in Clients, Busy(c), Throw(c)
    PROVE  Acts(c)
<1>1. Owned(c) = Own(client[c])
    BY OwnedIs DEF TypesInv, DataInv, Inv
<1>2. HandlesStep(handles, handles, Own(client[c]))
    BY HandlesStay
<1>3. HandlesStep(handles, Closed(handles, Owned(c)), Own(client[c]))
    BY <1>1, HandlesClose
<1> QED BY <1>2, <1>3, ThrowFromActs DEF Throw

\* The process that ends.
LEMMA CrashActs ==
    ASSUME TypesInv, NEW c \in Clients, Busy(c), Crash(c)
    PROVE  Acts(c)
<1> DEFINE m == [client[c] EXCEPT !.frames = <<>>, !.walk = <<>>, !.outcome = "crashed"]
<1>1. client' = [client EXCEPT ![c] = m]
    BY DEF Crash, Unwinds, TypesInv, DataInv, Inv
<1>2. m.op = client[c].op /\ m.frames = <<>> /\ m.outcome = "crashed"
    BY DEF TypesInv, DataInv, Inv, ClientInv, IsClient
<1> HIDE DEF m
<1>3. HandlesStep(handles, handles', Own(client[c]))
    <2>1. Owned(c) = Own(client[c])
        BY OwnedIs DEF TypesInv, DataInv, Inv
    <2> QED BY <2>1, HandlesClose DEF Crash
<1> QED BY <1>1, <1>2, <1>3, Becomes

\* A collection that cannot be opened or read.
LEMMA OpenFailsActs ==
    ASSUME TypesInv, NEW c \in Clients, Busy(c), NEW p, NEW owned, NEW H, HandlesInv(H),
           HandlesStep(handles, H, Own(client[c])), owned \ {0} \subseteq Own(client[c]),
           owned \ {0} \subseteq DOMAIN H, OpenFails(c, p, owned, H)
    PROVE  Acts(c)
<1> DEFINE G == Opened(H, Entries(p), "none")
           own == Own(client[c])
<1>1. CatalogInv(cat)
    BY DEF TypesInv, DataInv
<1>2. HandlesInv(G) /\ HandlesStep(H, G, own)
    <2> DEFINE left == Entries(p)
               read == "none"
    <2>1. (\A e \in left : e.kind \in Kinds) /\ read \in {"none", "some", "all"}
        BY <1>1, EntryKinds
    <2> HIDE DEF left, read
    <2>2. HandlesInv(Opened(H, left, read)) /\ HandlesStep(H, Opened(H, left, read), own)
        BY <2>1, OpenedFacts, HandlesOpen
    <2> QED BY <2>2 DEF left, read
<1> HIDE DEF G
<1>3. HandlesStep(handles, G, own)
    BY <1>2, HandlesTwice
<1>4. HandlesStep(H, Closed(H, owned), own) /\ HandlesStep(G, Closed(G, owned), own)
    <2>1. 0 \notin DOMAIN H /\ 0 \notin DOMAIN G
        BY <1>2 DEF HandlesInv
    <2> QED BY <2>1, HandlesClose
<1>5. ThrowFrom(c, owned, H) \/ ThrowFrom(c, owned, G)
    BY DEF OpenFails, G
<1> QED BY <1>3, <1>4, <1>5, ThrowFromActs

-----------------------------------------------------------------------------
(* What a step does to the record of a client that walks: the walk goes on *)
(* with its frame at this step, or stops.                                  *)

Leaves(c, k, visited, twice, skipped) ==
    /\ client' = [client EXCEPT ![c] = k] /\ client'[c] = k /\ k.op = client[c].op
    /\ k.visited = visited /\ k.twice = twice /\ k.skipped = skipped
    /\ \A d \in Clients \ {c} : client'[d] = client[d]
Goes(c, step, walk, visited, twice, skipped) ==
    \E k : /\ Leaves(c, k, visited, twice, skipped)
           /\ k.frames = <<[Top(c) EXCEPT !.at = step]>>
           /\ k.walk = walk /\ k.outcome = client[c].outcome
Stops(c, outcome, visited, twice, skipped) ==
    \E k : /\ Leaves(c, k, visited, twice, skipped)
           /\ k.frames = <<>> /\ k.walk = <<>> /\ k.outcome = outcome
GoesTo(c, step, walk) ==
    Goes(c, step, walk, client[c].visited, client[c].twice, client[c].skipped)
StopsWith(c, outcome) ==
    Stops(c, outcome, client[c].visited, client[c].twice, client[c].skipped)

\* The frames of a walk.
LEMMA WalkFrames ==
    ASSUME Inv, NEW c \in Clients, Busy(c), Top(c).name = "walk"
    PROVE  /\ DOMAIN client = Clients /\ IsClient(client[c])
           /\ Front(client[c].frames) \o <<>> = <<>>
           /\ \A a : Front(client[c].frames) \o <<a>> = <<a>>
<1>1. Front(client[c].frames) = <<>>
    BY AloneTop
<1>2. <<>> \o <<>> = <<>>
    BY NoStack, Become3
<1> QED BY <1>1, <1>2, OneFrame, WalkFacts DEF Inv

LEMMA GotoGoes ==
    ASSUME Inv, NEW c \in Clients, Busy(c), Top(c).name = "walk", NEW step, NEW walk,
           Goto(c, step, walk)
    PROVE  GoesTo(c, step, walk)
<1> DEFINE a == [Top(c) EXCEPT !.at = step]
           r == Front(client[c].frames) \o <<a>>
           k == [client[c] EXCEPT !.frames = r]
           m == [k EXCEPT !.walk = walk]
<1>1. client' = [client EXCEPT ![c] = m]
    BY DEF Goto, Become
<1>2. DOMAIN client = Clients /\ IsClient(client[c]) /\ r = <<a>>
    BY WalkFrames
<1> HIDE DEF a, r
<1>3. /\ IsClient(k) /\ k.op = client[c].op /\ k.frames = <<a>>
      /\ k.visited = client[c].visited /\ k.twice = client[c].twice
      /\ k.skipped = client[c].skipped /\ k.outcome = client[c].outcome
    BY <1>2 DEF IsClient
<1> HIDE DEF k
<1>4. /\ m.op = client[c].op /\ m.frames = <<a>> /\ m.walk = walk
      /\ m.visited = client[c].visited /\ m.twice = client[c].twice
      /\ m.skipped = client[c].skipped /\ m.outcome = client[c].outcome
    BY <1>3 DEF IsClient
<1> HIDE DEF m
<1>5. client'[c] = m /\ \A d \in Clients \ {c} : client'[d] = client[d]
    BY <1>1, <1>2
<1> QED BY <1>1, <1>4, <1>5 DEF GoesTo, Goes, Leaves, a

LEMMA EndsStops ==
    ASSUME Inv, NEW c \in Clients, Busy(c), Top(c).name = "walk", WalkEnds(c)
    PROVE  StopsWith(c, "true")
<1> DEFINE r == Front(client[c].frames) \o <<>>
           k == [client[c] EXCEPT !.frames = r]
           m == [k EXCEPT !.walk = <<>>, !.outcome = "true"]
<1>1. client' = [client EXCEPT ![c] = m]
    BY DEF WalkEnds, Become
<1>2. DOMAIN client = Clients /\ IsClient(client[c]) /\ r = <<>>
    BY WalkFrames
<1> HIDE DEF r
<1>3. /\ IsClient(k) /\ k.op = client[c].op /\ k.frames = <<>>
      /\ k.visited = client[c].visited /\ k.twice = client[c].twice
      /\ k.skipped = client[c].skipped
    BY <1>2 DEF IsClient
<1> HIDE DEF k
<1>4. /\ m.op = client[c].op /\ m.frames = <<>> /\ m.walk = <<>> /\ m.outcome = "true"
      /\ m.visited = client[c].visited /\ m.twice = client[c].twice
      /\ m.skipped = client[c].skipped
    BY <1>3 DEF IsClient
<1> HIDE DEF m
<1>5. client'[c] = m /\ \A d \in Clients \ {c} : client'[d] = client[d]
    BY <1>1, <1>2
<1> QED BY <1>1, <1>4, <1>5 DEF StopsWith, Stops, Leaves

\* What is thrown, and a crash.
LEMMA ThrownStops ==
    ASSUME Inv, NEW c \in Clients, NEW outcome,
           Unwinds(c, outcome)
    PROVE  StopsWith(c, outcome)
<1> DEFINE m == [client[c] EXCEPT !.frames = <<>>, !.walk = <<>>, !.outcome = outcome]
<1>1. client' = [client EXCEPT ![c] = m] /\ IsClient(client[c]) /\ DOMAIN client = Clients
    BY DEF Unwinds, Inv, ClientInv
<1>2. /\ m.op = client[c].op /\ m.frames = <<>> /\ m.walk = <<>> /\ m.outcome = outcome
      /\ m.visited = client[c].visited /\ m.twice = client[c].twice
      /\ m.skipped = client[c].skipped
    BY <1>1 DEF IsClient
<1> HIDE DEF m
<1>3. client'[c] = m /\ \A d \in Clients \ {c} : client'[d] = client[d]
    BY <1>1
<1> QED BY <1>1, <1>2, <1>3 DEF StopsWith, Stops, Leaves

LEMMA VisitGoes ==
    ASSUME Inv, NEW c \in Clients, WalkVisit(c)
    PROVE  LET p == Here(c).entry.path
           IN  Goes(c, "visited", Walk(c), client[c].visited \cup {p},
                    client[c].twice \/ p \in client[c].visited, client[c].skipped)
<1> DEFINE p == Here(c).entry.path
           a == [Top(c) EXCEPT !.at = "visited"]
           r == Front(client[c].frames) \o <<a>>
           k == [client[c] EXCEPT !.frames = r]
           b == client[c].twice \/ p \in client[c].visited
           v == client[c].visited \cup {p}
           m == [k EXCEPT !.visited = v, !.twice = b]
<1>1. Busy(c) /\ Top(c).name = "walk"
    BY DEF WalkVisit, WalkAt, At
<1>2. DOMAIN client = Clients /\ IsClient(client[c]) /\ r = <<a>>
    BY <1>1, WalkFrames
<1> HIDE DEF p, a, r
<1>3. /\ IsClient(k) /\ k.op = client[c].op /\ k.frames = <<a>> /\ k.walk = client[c].walk
      /\ k.visited = client[c].visited /\ k.twice = client[c].twice
      /\ k.skipped = client[c].skipped /\ k.outcome = client[c].outcome
    BY <1>2 DEF IsClient
<1>4. client' = [client EXCEPT ![c] = [k EXCEPT !.visited = k.visited \cup {p},
                                                !.twice = k.twice \/ p \in client[c].visited]]
    BY DEF WalkVisit, Become, p, a, r
<1>5. client' = [client EXCEPT ![c] = m]
    BY <1>3, <1>4
<1> HIDE DEF k, b, v
<1>6. /\ m.op = client[c].op /\ m.frames = <<a>> /\ m.walk = client[c].walk
      /\ m.visited = v /\ m.twice = b
      /\ m.skipped = client[c].skipped /\ m.outcome = client[c].outcome
    BY <1>3 DEF IsClient
<1> HIDE DEF m
<1>7. client'[c] = m /\ \A d \in Clients \ {c} : client'[d] = client[d]
    BY <1>2, <1>5
<1>8. Goes(c, "visited", client[c].walk, v, b, client[c].skipped)
    BY <1>5, <1>6, <1>7 DEF Goes, Leaves, a
<1> QED BY <1>8 DEF Walk, v, b, p

LEMMA DeclineGoes ==
    ASSUME Inv, NEW c \in Clients, Busy(c), Top(c).name = "walk", NEW paths, Skips(c, paths)
    PROVE  Goes(c, "declined", Walk(c), client[c].visited, client[c].twice,
                client[c].skipped \cup paths)
<1> DEFINE a == [Top(c) EXCEPT !.at = "declined"]
           r == Front(client[c].frames) \o <<a>>
           k == [client[c] EXCEPT !.frames = r]
           s == client[c].skipped \cup paths
           m == [k EXCEPT !.skipped = s]
<1>1. DOMAIN client = Clients /\ IsClient(client[c]) /\ r = <<a>>
    BY WalkFrames
<1> HIDE DEF a, r
<1>2. /\ IsClient(k) /\ k.op = client[c].op /\ k.frames = <<a>> /\ k.walk = client[c].walk
      /\ k.visited = client[c].visited /\ k.twice = client[c].twice
      /\ k.skipped = client[c].skipped /\ k.outcome = client[c].outcome
    BY <1>1 DEF IsClient
<1>3. client' = [client EXCEPT ![c] = [k EXCEPT !.skipped = k.skipped \cup paths]]
    BY DEF Skips, Become, a, r
<1>4. client' = [client EXCEPT ![c] = m]
    BY <1>2, <1>3
<1> HIDE DEF k, s
<1>5. /\ m.op = client[c].op /\ m.frames = <<a>> /\ m.walk = client[c].walk
      /\ m.visited = client[c].visited /\ m.twice = client[c].twice
      /\ m.skipped = s /\ m.outcome = client[c].outcome
    BY <1>2 DEF IsClient
<1> HIDE DEF m
<1>6. client'[c] = m /\ \A d \in Clients \ {c} : client'[d] = client[d]
    BY <1>1, <1>4
<1> QED BY <1>4, <1>5, <1>6 DEF Goes, Leaves, a, s, Walk

LEMMA PopGoes ==
    ASSUME Inv, NEW c \in Clients, WalkPop(c)
    PROVE  LET S == client[c].skipped \cup (Below(cat, Here(c).entry.path)
                      \cup UNION {Tree(cat, e.path) : e \in handles[Here(c).handle].left})
           IN  IF Len(Walk(c)) = 1
                 THEN Stops(c, "true", client[c].visited, client[c].twice, S)
                 ELSE Goes(c, "visit", Front(Walk(c)), client[c].visited, client[c].twice, S)
<1> DEFINE P == Below(cat, Here(c).entry.path)
                  \cup UNION {Tree(cat, e.path) : e \in handles[Here(c).handle].left}
           S == client[c].skipped \cup P
           a == [Top(c) EXCEPT !.at = "visit"]
           r == Front(client[c].frames) \o <<a>>
           t == Front(client[c].frames) \o <<>>
           w == Front(client[c].walk)
           k == [client[c] EXCEPT !.frames = r]
           j == [client[c] EXCEPT !.frames = t]
           m == [k EXCEPT !.walk = w, !.skipped = S]
           n == [j EXCEPT !.walk = <<>>, !.outcome = "true", !.skipped = S]
<1>1. Busy(c) /\ Top(c).name = "walk"
    BY DEF WalkPop, WalkAt, At
<1>2. DOMAIN client = Clients /\ IsClient(client[c]) /\ r = <<a>> /\ t = <<>>
    BY <1>1, WalkFrames
<1>3. client' = [client EXCEPT ![c] =
        IF Len(Walk(c)) = 1
          THEN [j EXCEPT !.walk = <<>>, !.outcome = "true", !.skipped = @ \cup P]
          ELSE [k EXCEPT !.walk = Front(@), !.skipped = @ \cup P]]
    BY DEF WalkPop, Become
<1> HIDE DEF P, a, r, t
<1>4. /\ IsClient(k) /\ k.op = client[c].op /\ k.frames = <<a>> /\ k.walk = client[c].walk
      /\ k.visited = client[c].visited /\ k.twice = client[c].twice
      /\ k.skipped = client[c].skipped /\ k.outcome = client[c].outcome
    BY <1>2 DEF IsClient
<1>5. /\ IsClient(j) /\ j.op = client[c].op /\ j.frames = <<>>
      /\ j.visited = client[c].visited /\ j.twice = client[c].twice
      /\ j.skipped = client[c].skipped
    BY <1>2 DEF IsClient
<1> HIDE DEF k, j
<1>6. client' = [client EXCEPT ![c] = IF Len(Walk(c)) = 1 THEN n ELSE m]
    BY <1>3, <1>4, <1>5
<1> HIDE DEF S, w
<1>7. /\ m.op = client[c].op /\ m.frames = <<a>> /\ m.walk = w
      /\ m.visited = client[c].visited /\ m.twice = client[c].twice
      /\ m.skipped = S /\ m.outcome = client[c].outcome
    BY <1>4 DEF IsClient
<1>8. /\ n.op = client[c].op /\ n.frames = <<>> /\ n.walk = <<>> /\ n.outcome = "true"
      /\ n.visited = client[c].visited /\ n.twice = client[c].twice /\ n.skipped = S
    BY <1>5 DEF IsClient
<1> HIDE DEF m, n
<1>9. CASE Len(Walk(c)) = 1
    <2>1. client' = [client EXCEPT ![c] = n]
        BY <1>6, <1>9
    <2>2. client'[c] = n /\ \A d \in Clients \ {c} : client'[d] = client[d]
        BY <1>2, <2>1
    <2>3. Stops(c, "true", client[c].visited, client[c].twice, S)
        BY <1>8, <2>1, <2>2 DEF Stops, Leaves
    <2> QED BY <1>9, <2>3 DEF S, P
<1>10. CASE Len(Walk(c)) # 1
    <2>1. client' = [client EXCEPT ![c] = m]
        BY <1>6, <1>10
    <2>2. client'[c] = m /\ \A d \in Clients \ {c} : client'[d] = client[d]
        BY <1>2, <2>1
    <2>3. Goes(c, "visit", w, client[c].visited, client[c].twice, S)
        BY <1>7, <2>1, <2>2 DEF Goes, Leaves, a
    <2> QED BY <1>10, <2>3 DEF S, P, w, Walk
<1> QED BY <1>9, <1>10

\* The step of a walk keeps what is known of its client.
LEMMA GoesActs ==
    ASSUME TypesInv, NEW c \in Clients, Busy(c), Top(c).name = "walk", NEW step, NEW walk,
           NEW visited, NEW twice, NEW skipped, Goes(c, step, walk, visited, twice, skipped),
           HandlesStep(handles, handles', Own(client[c]))
    PROVE  Acts(c)
<1> DEFINE f == Top(c)
           a == [f EXCEPT !.at = step]
<1>1. PICK k : /\ client' = [client EXCEPT ![c] = k] /\ k.op = client[c].op
               /\ k.frames = <<a>> /\ k.outcome = client[c].outcome
    BY DEF Goes, Leaves
<1>2. a.name = f.name /\ a.from = f.from /\ a.options = f.options
    <2>1. IsFrame(f)
        BY TopFacts DEF TypesInv, DataInv
    <2> HIDE DEF f
    <2> QED BY <2>1 DEF IsFrame
<1>3. Front(client[c].frames) \o <<a>> = <<a>>
    BY WalkFrames DEF TypesInv, DataInv
<1> HIDE DEF a
<1> QED BY <1>1, <1>2, <1>3, Becomes

LEMMA StopsActs ==
    ASSUME TypesInv, NEW c \in Clients, Busy(c),
           NEW outcome \in {"none", "true", "false", "thrown", "crashed"},
           NEW visited, NEW twice, NEW skipped, Stops(c, outcome, visited, twice, skipped),
           HandlesStep(handles, handles', Own(client[c]))
    PROVE  Acts(c)
<1>1. PICK k : /\ client' = [client EXCEPT ![c] = k] /\ k.op = client[c].op
               /\ k.frames = <<>> /\ k.outcome = outcome
    BY DEF Stops, Leaves
<1> QED BY <1>1, Becomes

\* A collection opens with no entry or with one of its entries, or fails to.
LEMMA OpensOnto ==
    ASSUME NEW c, NEW p, NEW walk, NEW H, OpenOnto(c, p, walk, H)
    PROVE  \/ OpenFails(c, p, {i.handle : i \in ToSet(walk)}, H)
           \/ /\ CanOpen(p) /\ UNCHANGED cat /\ Entries(p) = {} /\ handles' = Opened(H, {}, "all")
              /\ Goto(c, "visit", Append(walk, [handle |-> 0, entry |-> NoEntry]))
           \/ /\ CanOpen(p) /\ UNCHANGED cat
              /\ \E e \in Entries(p) :
                    /\ handles' = Opened(H, Entries(p) \ {e}, "some")
                    /\ Goto(c, "visit", Append(walk, [handle |-> NewHandle(H), entry |-> e]))
BY DEF OpenOnto

LEMMA OpenOntoActs ==
    ASSUME TypesInv, NEW c \in Clients, Busy(c), Top(c).name = "walk", NEW p,
           NEW walk, IteratorsInv(walk), NEW H, HandlesInv(H),
           HandlesOf(walk) \subseteq Own(client[c]), HandlesOf(walk) \subseteq DOMAIN H,
           HandlesStep(handles, H, Own(client[c])), OpenOnto(c, p, walk, H)
    PROVE  Acts(c)
<1> DEFINE owned == {i.handle : i \in ToSet(walk)}
           own == Own(client[c])
<1>1. owned \ {0} = HandlesOf(walk)
    <2>1. ToSet(walk) = {walk[i] : i \in 1 .. Len(walk)}
        BY SeqFacts DEF IteratorsInv, IsSeq
    <2> QED BY <2>1 DEF HandlesOf
<1>2. Inv /\ \A e \in Entries(p) : e.kind \in Kinds
    BY EntryKinds DEF TypesInv, DataInv
<1>3. CASE OpenFails(c, p, owned, H)
    <2> HIDE DEF owned
    <2> QED BY <1>1, <1>3, OpenFailsActs
<1>4. ASSUME NEW left, \A e \in left : e.kind \in Kinds, NEW read \in {"none", "some", "all"},
             handles' = Opened(H, left, read), NEW w, Goto(c, "visit", w)
      PROVE  Acts(c)
    <2>1. HandlesStep(H, handles', own)
        BY <1>4, HandlesOpen
    <2>2. HandlesStep(handles, handles', own)
        BY <2>1, HandlesTwice
    <2>3. GoesTo(c, "visit", w)
        BY <1>2, <1>4, GotoGoes
    <2> QED BY <2>2, <2>3, GoesActs DEF GoesTo
<1>5. CASE handles' = Opened(H, {}, "all")
             /\ Goto(c, "visit", Append(walk, [handle |-> 0, entry |-> NoEntry]))
    <2> DEFINE w == Append(walk, [handle |-> 0, entry |-> NoEntry])
               left == {}
    <2>1. handles' = Opened(H, left, "all") /\ Goto(c, "visit", w) /\ \A e \in left : e.kind \in Kinds
        BY <1>5
    <2> HIDE DEF w, left
    <2> QED BY <1>4, <2>1
<1>6. ASSUME NEW e \in Entries(p), handles' = Opened(H, Entries(p) \ {e}, "some"),
             Goto(c, "visit", Append(walk, [handle |-> NewHandle(H), entry |-> e]))
      PROVE  Acts(c)
    <2> DEFINE w == Append(walk, [handle |-> NewHandle(H), entry |-> e])
               left == Entries(p) \ {e}
    <2>1. handles' = Opened(H, left, "some") /\ Goto(c, "visit", w) /\ \A x \in left : x.kind \in Kinds
        BY <1>2, <1>6
    <2> HIDE DEF w, left
    <2> QED BY <1>4, <2>1
<1> QED BY <1>3, <1>5, <1>6, OpensOnto

\* What ++ leaves: the iterator at the top has read the end and is taken
\* off, or shows one of the entries that it had left.
LEMMA AdvancesIs ==
    ASSUME Inv, NEW c \in Clients, Busy(c), Top(c).name = "walk", Top(c).at \in Looking,
           NEW a \in Advances(c)
    PROVE  LET i == Here(c)
               n == i.handle
               w == Walk(c)
           IN  /\ n \in DOMAIN handles /\ n \in Own(client[c]) /\ n # 0 /\ w # <<>>
               /\ IteratorsInv(w) /\ HandlesInv(handles) /\ i = Last(w) /\ Len(w) \in Nat \ {0}
               /\ \/ /\ handles[n].left = {} /\ a.walk = Front(w)
                     /\ a.handles = [handles EXCEPT ![n].read = "all"]
                  \/ \E e \in handles[n].left :
                        /\ a.walk = Append(Front(w), [handle |-> n, entry |-> e])
                        /\ a.handles = [handles EXCEPT ![n].left = handles[n].left \ {e}]
<1> DEFINE i == Here(c)
           n == i.handle
           w == Walk(c)
           left == handles[n].left
<1>1. /\ IteratorsInv(w) /\ w # <<>> /\ i = Last(w) /\ n # 0 /\ i = w[Len(w)]
      /\ Own(client[c]) = HandlesOf(w) /\ HandlesOf(w) \subseteq Reading(handles)
      /\ HandlesInv(handles)
    BY WalkFacts DEF Here
<1>2. Len(w) \in Nat \ {0}
    BY <1>1, IteratorPopped
<1>3. n \in HandlesOf(w)
    <2>1. Len(w) \in 1 .. Len(w)
        BY <1>2
    <2> QED BY <1>1, <2>1 DEF HandlesOf
<1>4. n \in DOMAIN handles
    BY <1>1, <1>3 DEF Reading
<1>5. IsIterator(i)
    <2>1. Len(w) \in 1 .. Len(w)
        BY <1>2
    <2> QED BY <1>1, <2>1 DEF IteratorsInv
<1>6. CASE left = {}
    <2>1. a = [walk |-> Front(w), handles |-> [handles EXCEPT ![n].read = "all"]]
        BY <1>6 DEF Advances
    <2> QED BY <1>1, <1>2, <1>3, <1>4, <1>6, <2>1
<1>7. ASSUME NEW e \in left,
             a = [walk |-> Append(Front(w), [i EXCEPT !.entry = e]),
                  handles |-> [handles EXCEPT ![n].left = left \ {e}]]
      PROVE  /\ a.walk = Append(Front(w), [handle |-> n, entry |-> e])
             /\ a.handles = [handles EXCEPT ![n].left = left \ {e}]
    <2>1. [i EXCEPT !.entry = e] = [handle |-> n, entry |-> e]
        <3> HIDE DEF i
        <3> QED BY <1>5 DEF IsIterator
    <2> QED BY <1>7, <2>1
<1>8. left # {} => \E e \in left : a = [walk |-> Append(Front(w), [i EXCEPT !.entry = e]),
                                       handles |-> [handles EXCEPT ![n].left = left \ {e}]]
    BY DEF Advances
<1>9. left # {} => \E e \in left :
                        /\ a.walk = Append(Front(w), [handle |-> n, entry |-> e])
                        /\ a.handles = [handles EXCEPT ![n].left = left \ {e}]
    BY <1>7, <1>8
<1> QED BY <1>1, <1>2, <1>3, <1>4, <1>6, <1>9

LEMMA AdvancesSteps ==
    ASSUME Inv, NEW c \in Clients, Busy(c), Top(c).name = "walk", Top(c).at \in Looking,
           NEW a \in Advances(c)
    PROVE  /\ HandlesStep(handles, a.handles, Own(client[c]))
           /\ HandlesOf(a.walk) \subseteq Own(client[c])
<1> DEFINE n == Here(c).handle
           w == Walk(c)
           H == a.handles
<1>1. /\ n \in Own(client[c]) /\ HandlesInv(handles) /\ IteratorsInv(w) /\ w # <<>>
      /\ \/ a.walk = Front(w) /\ H = [handles EXCEPT ![n].read = "all"]
         \/ \E e \in handles[n].left :
               /\ a.walk = Append(Front(w), [handle |-> n, entry |-> e])
               /\ H = [handles EXCEPT ![n].left = handles[n].left \ {e}]
    BY AdvancesIs
<1>2. Own(client[c]) = HandlesOf(w)
    BY WalkFacts
<1>3. HandlesStep(handles, H, Own(client[c]))
    <2> DEFINE own == Own(client[c])
    <2>1. n \in own
        BY <1>1
    <2> HIDE DEF n, own, H
    <2>2. HandlesStep(handles, [handles EXCEPT ![n].read = "all"], own)
        BY <1>1, <2>1, HandlesMove, Zenon
    <2>3. \A left : left \subseteq handles[n].left
                      => HandlesStep(handles, [handles EXCEPT ![n].left = left], own)
        BY <1>1, <2>1, HandlesMove, Zenon
    <2>4. \A e \in handles[n].left : handles[n].left \ {e} \subseteq handles[n].left
        OBVIOUS
    <2>5. \/ H = [handles EXCEPT ![n].read = "all"]
          \/ \E e \in handles[n].left : H = [handles EXCEPT ![n].left = handles[n].left \ {e}]
        BY <1>1
    <2>6. HandlesStep(handles, H, own)
        BY <2>2, <2>3, <2>4, <2>5, Zenon
    <2> QED BY <2>6 DEF own
<1>4. IteratorsInv(Front(w)) /\ HandlesOf(Front(w)) = HandlesOf(w) \ {n}
    <2>1. n = Last(w).handle
        BY AdvancesIs
    <2> QED BY <1>1, <2>1, IteratorPopped
<1>5. ASSUME NEW e, a.walk = Append(Front(w), [handle |-> n, entry |-> e])
      PROVE  HandlesOf(a.walk) \subseteq HandlesOf(w)
    <2> DEFINE v == Front(w)
               j == [handle |-> n, entry |-> e]
               u == Append(v, j)
    <2>1. j.handle \notin HandlesOf(v) /\ IsSeq(v) /\ Distinct(v) /\ j.handle = n
        BY <1>4 DEF IteratorsInv
    <2> HIDE DEF j, v
    <2>2. HandlesOf(u) = HandlesOf(v) \cup ({n} \ {0})
        BY <2>1, Pushed
    <2> QED BY <1>1, <1>2, <1>4, <1>5, <2>2 DEF v, j
<1>6. HandlesOf(a.walk) \subseteq HandlesOf(w)
    BY <1>1, <1>4, <1>5
<1> QED BY <1>2, <1>3, <1>6

\* The functions that end with one call of the API, or without one.
LEMMA EndsActs ==
    ASSUME TypesInv, NEW c \in Clients, Busy(c), NEW value \in {"true", "false"},
           NEW admitted, NEW C,
           \/ Throw(c)
           \/ Return(c, value) /\ UNCHANGED handles
           \/ Call(c, admitted, C)
           \/ CallOrFalse(c, admitted, C)
    PROVE  Acts(c)
<1>1. CASE Throw(c)
    BY <1>1, ThrowActs
<1>2. ASSUME NEW v \in {"true", "false"}, Return(c, v), UNCHANGED handles PROVE Acts(c)
    <2>1. HandlesStep(handles, handles', Own(client[c]))
        BY <1>2, HandlesStay
    <2> QED BY <1>2, <2>1, ReturnActs
<1> QED BY <1>1, <1>2 DEF Call, CallOrFalse, NoChange

LEMMA StatActs == ASSUME TypesInv, NEW c \in Clients, Stat(c) PROVE Acts(c)
<1> DEFINE f == Top(c)
           look == Look(Lookups(f)[Len(f.seen) + 1])
           a == [f EXCEPT !.seen = Append(@, look)]
           fs == <<a>>
<1>1. Busy(c) /\ ((Continue(c, fs) /\ UNCHANGED handles) \/ Throw(c) \/ Crash(c))
    BY DEF Stat, NoChange
<1> HIDE DEF look
<1>2. IsFrame(f)
    BY <1>1, TopFacts DEF TypesInv, DataInv
<1>3. a.name = f.name /\ a.from = f.from /\ a.options = f.options
    <2> HIDE DEF f
    <2> QED BY <1>2 DEF IsFrame
<1> HIDE DEF a
<1>4. CASE Continue(c, fs) /\ UNCHANGED handles
    <2>1. HandlesStep(handles, handles', Own(client[c]))
        BY <1>4, HandlesStay
    <2>2. \E x : fs = <<x>> /\ x.name = f.name /\ x.from = f.from /\ x.options = f.options
        BY <1>3
    <2> HIDE DEF fs
    <2> QED BY <1>1, <1>4, <2>1, <2>2, ContinueActs
<1> QED BY <1>1, <1>4, ThrowActs, CrashActs

\* A function that is neither a walk nor a remove goes on.
LEMMA GoesOnActs ==
    ASSUME TypesInv, NEW c \in Clients, Busy(c), Top(c).name \notin {"walk", "remove"}, NEW fs,
           Continue(c, fs), HandlesStep(handles, handles', Own(client[c]))
    PROVE  Acts(c)
BY ContinueActs

LEMMA CopyingActs == ASSUME TypesInv, NEW c \in Clients, Copying(c) PROVE Acts(c)
<1> DEFINE f == Top(c)
           own == Own(client[c])
<1>1. CASE CopyThrows(c)
    BY <1>1, ThrowActs DEF CopyThrows, Ready, At
<1>2. CASE CopyOfDataObject(c)
    <2> DEFINE target == IF f.seen[2].kind = "coll" THEN Append(f.to, Last(f.from)) ELSE f.to
               fs == <<Frame("copy_data_object", f.from, target, f.options)>>
    <2>1. /\ Busy(c) /\ f.name = "copy" /\ UNCHANGED handles
          /\ Return(c, "true") \/ Continue(c, fs)
        BY <1>2 DEF CopyOfDataObject, Ready, At, NoChange
    <2> HIDE DEF fs
    <2> QED BY <2>1, EndsActs, GoesOnActs, HandlesStay
<1>3. CASE CopyOfCollection(c)
    <2> DEFINE a == [f EXCEPT !.at = "open"]
               fs == <<a>>
               gs == <<a, Frame("create_collection_like", f.to, f.from, {})>>
    <2>1. /\ Busy(c) /\ f.name = "copy" /\ UNCHANGED handles
          /\ Return(c, "true") \/ Continue(c, fs) \/ Continue(c, gs)
        BY <1>3 DEF CopyOfCollection, Ready, At, NoChange
    <2> HIDE DEF fs, gs
    <2> QED BY <2>1, EndsActs, GoesOnActs, HandlesStay
<1>4. CASE CopyOpen(c)
    <2>1. Busy(c) /\ f.name = "copy"
        BY <1>4 DEF CopyOpen, At
    <2>2. HandlesInv(handles) /\ Inv /\ CatalogInv(cat)
        BY DEF TypesInv, DataInv, Inv
    <2>3. CASE handles' = Opened(handles, {}, "all") /\ Return(c, "true")
        <3> DEFINE left == {}
        <3>1. handles' = Opened(handles, left, "all") /\ \A e \in left : e.kind \in Kinds
            BY <2>3
        <3> HIDE DEF left
        <3>2. HandlesStep(handles, handles', own)
            BY <2>2, <3>1, HandlesOpen
        <3> QED BY <2>1, <2>3, <3>2, ReturnActs
    <2>4. ASSUME NEW e \in Entries(f.from), handles' = Opened(handles, Entries(f.from) \ {e}, "some"),
                 NEW fs, Continue(c, fs)
          PROVE  Acts(c)
        <3> DEFINE left == Entries(f.from) \ {e}
        <3>1. \A x \in Entries(f.from) : x.kind \in Kinds
            BY <2>2, EntryKinds
        <3>2. handles' = Opened(handles, left, "some") /\ \A x \in left : x.kind \in Kinds
            BY <2>4, <3>1
        <3> HIDE DEF left
        <3>3. HandlesStep(handles, handles', own)
            BY <2>2, <3>2, HandlesOpen
        <3> QED BY <2>1, <2>4, <3>3, GoesOnActs
    <2>5. CASE OpenFails(c, f.from, Owned(c), handles)
        <3> DEFINE p == f.from
                   owned == Owned(c)
        <3>1. OpenFails(c, p, owned, handles) /\ owned = own /\ own \subseteq Reading(handles)
            BY <2>1, <2>2, <2>5, OwnedIs, TopFacts DEF Inv
        <3>2. owned \ {0} \subseteq own /\ owned \ {0} \subseteq DOMAIN handles
            BY <3>1 DEF Reading
        <3> HIDE DEF p, owned
        <3> QED BY <2>1, <2>2, <3>1, <3>2, HandlesStay, OpenFailsActs
    <2> QED BY <1>4, <2>3, <2>4, <2>5 DEF CopyOpen
<1>5. CASE CopyNext(c)
    <2> DEFINE n == f.handle
               left == handles[n].left
    <2>1. Busy(c) /\ f.name = "copy" /\ f.at = "next"
        BY <1>5 DEF CopyNext, At
    <2>2. n \in own /\ HandlesInv(handles)
        <3> DEFINE s == client[c].frames
        <3>1. IsFrame(f) /\ Len(s) \in 1 .. Len(s) /\ f = s[Len(s)] /\ HandlesInv(handles)
            BY <2>1, TopFacts DEF TypesInv, DataInv
        <3>2. HandlesOf(s) \subseteq own
            BY DEF Own
        <3> HIDE DEF s, f, own
        <3>3. n # 0
            BY <2>1, <3>1 DEF IsFrame, Iterating
        <3>4. n \in HandlesOf(s)
            BY <3>1, <3>3 DEF HandlesOf
        <3> QED BY <3>1, <3>2, <3>4
    <2> HIDE DEF own
    <2>3. CASE handles' = Closed(handles, {n}) /\ Return(c, "true")
        <3>1. HandlesStep(handles, handles', own)
            BY <2>2, <2>3, HandlesClose
        <3> QED BY <2>1, <2>3, <3>1, ReturnActs DEF own
    <2>4. ASSUME NEW e \in left, handles' = [handles EXCEPT ![n].left = left \ {e}],
                 NEW fs, Continue(c, fs)
          PROVE  Acts(c)
        <3> DEFINE rest == left \ {e}
        <3> HIDE DEF n
        <3>1. handles' = [handles EXCEPT ![n].left = rest] /\ rest \subseteq handles[n].left
            BY <2>4
        <3> HIDE DEF rest
        <3>2. HandlesStep(handles, [handles EXCEPT ![n].left = rest], own)
            BY <2>2, <3>1, HandlesMove, Zenon
        <3>3. HandlesStep(handles, handles', own)
            BY <3>1, <3>2
        <3> QED BY <2>1, <2>4, <3>3, GoesOnActs DEF own
    <2>5. \/ handles' = Closed(handles, {n}) /\ Return(c, "true")
          \/ \E e \in left : /\ handles' = [handles EXCEPT ![n].left = left \ {e}]
                             /\ \E fs : Continue(c, fs)
          \/ Throw(c)
        BY <1>5 DEF CopyNext
    <2> QED BY <2>1, <2>3, <2>4, <2>5, ThrowActs
<1>6. CASE CopyDataObject(c)
    <2> DEFINE object == IF Is(f.to, "data")
                           THEN [cat[f.to] EXCEPT !.data = Look(f.from).data, !.mtime = 2]
                           ELSE NewObject("data", Look(f.from).data)
               admitted == /\ Is(f.from, "data")
                           /\ \/ ~Found(Look(f.to)) /\ Is(Parent(f.to), "coll")
                              \/ Is(f.to, "data") /\ ForceFlag(f)
               C == With(f.to, object)
    <2>1. /\ Busy(c)
          /\ Throw(c) \/ (Return(c, "false") /\ UNCHANGED handles) \/ Call(c, admitted, C)
        BY <1>6 DEF CopyDataObject, Ready, At, NoChange
    <2> HIDE DEF admitted, C
    <2> QED BY <2>1, EndsActs
<1> QED BY <1>1, <1>2, <1>3, <1>4, <1>5, <1>6 DEF Copying

LEMMA CreatingActs == ASSUME TypesInv, NEW c \in Clients, Creating(c) PROVE Acts(c)
<1> DEFINE f == Top(c)
<1>1. CASE CreateCollection(c)
    <2> DEFINE admitted == ~Found(Look(f.from)) /\ Is(Parent(f.from), "coll")
               C == With(f.from, NewObject("coll", 0))
    <2>1. /\ Busy(c)
          /\ Throw(c) \/ (Return(c, "false") /\ UNCHANGED handles) \/ Call(c, admitted, C)
        BY <1>1 DEF CreateCollection, Ready, At, NoChange
    <2> HIDE DEF admitted, C
    <2> QED BY <2>1, EndsActs
<1>2. CASE CreateCollectionLike(c)
    <2> DEFINE model == [f.seen[1] EXCEPT !.perms = PermissionsOf(f.to)]
               fs == <<[f EXCEPT !.at = "permissions", !.seen = <<model>>],
                       Frame("create_collection", f.from, <<>>, {})>>
    <2>1. /\ Busy(c) /\ f.name = "create_collection_like"
          /\ Throw(c) \/ (Continue(c, fs) /\ UNCHANGED handles)
        BY <1>2 DEF CreateCollectionLike, Ready, At, NoChange
    <2> HIDE DEF fs
    <2> QED BY <2>1, ThrowActs, GoesOnActs, HandlesStay
<1>3. CASE CreatedLike(c)
    <2> DEFINE C == With(f.from, [Look(f.from) EXCEPT !.perms = f.seen[1].perms])
    <2>1. Busy(c) /\ Call(c, Found(Look(f.from)), C)
        BY <1>3 DEF CreatedLike, At
    <2> HIDE DEF C
    <2> QED BY <2>1, EndsActs
<1>4. CASE CreateCollections(c)
    <2> DEFINE line == {SubSeq(f.from, 1, n) : n \in 1..Len(f.from)}
               admitted == ~Found(Look(f.from)) /\ \A p \in line : ~Is(p, "data")
               C == [p \in DOMAIN cat \cup line |->
                        IF p \in DOMAIN cat THEN cat[p]
                        ELSE [NewObject("coll", 0) EXCEPT !.id = @ + Len(p)]]
    <2>1. /\ Busy(c)
          /\ Throw(c) \/ (Return(c, "false") /\ UNCHANGED handles) \/ CallOrFalse(c, admitted, C)
        BY <1>4 DEF CreateCollections, Ready, At, NoChange
    <2> HIDE DEF admitted, C
    <2> QED BY <2>1, EndsActs
<1> QED BY <1>1, <1>2, <1>3, <1>4 DEF Creating

\* remove_all counts, and goes on.
LEMMA CountActs ==
    ASSUME TypesInv, NEW c \in Clients, Busy(c), NEW step, NEW count,
           client' = [client EXCEPT ![c] =
                [Become(c, <<[Top(c) EXCEPT !.at = step]>>) EXCEPT !.count = count]],
           UNCHANGED handles
    PROVE  Acts(c)
<1> DEFINE f == Top(c)
           a == [f EXCEPT !.at = step]
           r == Front(client[c].frames) \o <<a>>
           k == [client[c] EXCEPT !.frames = r]
           m == [k EXCEPT !.count = count]
<1>1. IsFrame(f) /\ IsClient(client[c]) /\ HandlesStep(handles, handles', Own(client[c]))
    BY TopFacts, HandlesStay DEF TypesInv, DataInv, Inv, ClientInv
<1>2. a.name = f.name /\ a.from = f.from /\ a.options = f.options
    <2> HIDE DEF f
    <2> QED BY <1>1 DEF IsFrame
<1>3. client' = [client EXCEPT ![c] = m]
    BY DEF Become
<1> HIDE DEF a, r
<1>4. IsClient(k) /\ k.op = client[c].op /\ k.frames = r /\ k.outcome = client[c].outcome
    BY <1>1 DEF IsClient
<1> HIDE DEF k
<1>5. m.op = client[c].op /\ m.frames = r /\ m.outcome = client[c].outcome
    BY <1>4 DEF IsClient
<1> HIDE DEF m
<1>6. \E x : /\ m.frames = Front(client[c].frames) \o <<x>>
             /\ x.name = f.name /\ x.from = f.from /\ x.options = f.options
    BY <1>2, <1>5 DEF r
<1> QED BY <1>1, <1>3, <1>5, <1>6, Becomes

LEMMA RemovingActs == ASSUME TypesInv, NEW c \in Clients, Removing(c) PROVE Acts(c)
<1> DEFINE f == Top(c)
<1>1. CASE CountDataObjects(c)
    BY <1>1, CountActs, ThrowActs DEF CountDataObjects, At, NoChange
<1>2. CASE CountCollections(c)
    <2> DEFINE count == client[c].count + Cardinality(LikeCollections(f.from))
    <2>1. /\ Busy(c)
          /\ \/ Return(c, "false") /\ UNCHANGED handles
             \/ /\ client' = [client EXCEPT ![c] =
                        [Become(c, <<[f EXCEPT !.at = "stat"]>>) EXCEPT !.count = count]]
                /\ UNCHANGED handles
             \/ Throw(c)
        BY <1>2 DEF CountCollections, At, NoChange
    <2> HIDE DEF count
    <2> QED BY <2>1, CountActs, EndsActs
<1>3. CASE RemoveEnds(c)
    BY <1>3, EndsActs DEF RemoveEnds, Ready, At, NoChange
<1>4. CASE RemoveDataObject(c)
    <2> DEFINE C == Without({f.from})
    <2>1. Busy(c) /\ CallOrFalse(c, Is(f.from, "data"), C)
        BY <1>4 DEF RemoveDataObject, Ready, At
    <2> HIDE DEF C
    <2> QED BY <2>1, EndsActs
<1>5. CASE RemoveProbe(c)
    <2> DEFINE a == [f EXCEPT !.at = "empty"]
               fs == <<a>>
               own == Own(client[c])
    <2>1. Busy(c) /\ HandlesInv(handles) /\ IsFrame(f)
        BY <1>5, TopFacts DEF RemoveProbe, Ready, At, TypesInv, DataInv
    <2>2. CASE handles' = Opened(handles, {}, "all") /\ Continue(c, fs)
        <3> DEFINE left == {}
        <3>1. handles' = Opened(handles, left, "all") /\ \A e \in left : e.kind \in Kinds
            BY <2>2
        <3> HIDE DEF left
        <3>2. HandlesStep(handles, handles', own)
            BY <2>1, <3>1, HandlesOpen
        <3>3. a.name = f.name /\ a.from = f.from /\ a.options = f.options
            <4> HIDE DEF f
            <4> QED BY <2>1 DEF IsFrame
        <3>4. \E x : fs = <<x>> /\ x.name = f.name /\ x.from = f.from /\ x.options = f.options
            BY <3>3
        <3> HIDE DEF fs
        <3> QED BY <2>1, <2>2, <3>2, <3>4, ContinueActs
    <2>3. CASE OpenFails(c, f.from, {}, handles)
        <3> DEFINE p == f.from
                   owned == {}
        <3>1. OpenFails(c, p, owned, handles) /\ owned \ {0} \subseteq own
              /\ owned \ {0} \subseteq DOMAIN handles
            BY <2>3
        <3> HIDE DEF p, owned
        <3> QED BY <2>1, <3>1, HandlesStay, OpenFailsActs
    <2> QED BY <1>5, <2>2, <2>3 DEF RemoveProbe
<1>6. CASE RemoveCollection(c)
    <2> DEFINE admitted == /\ Is(f.from, "coll")
                           /\ "recursive" \in f.options \/ Children(cat, f.from) = {}
               C == Without(Tree(cat, f.from))
    <2>1. Busy(c) /\ CallOrFalse(c, admitted, C)
        BY <1>6 DEF RemoveCollection, Ready, At
    <2> HIDE DEF admitted, C
    <2> QED BY <2>1, EndsActs
<1> QED BY <1>1, <1>2, <1>3, <1>4, <1>5, <1>6 DEF Removing

LEMMA RenameActs == ASSUME TypesInv, NEW c \in Clients, Rename(c) PROVE Acts(c)
<1> DEFINE f == Top(c)
           admitted == /\ Found(Look(f.from)) /\ Is(Parent(f.to), "coll")
                       /\ \/ ~Found(Look(f.to))
                          \/ Is(f.to, Look(f.from).kind) /\ Children(cat, f.to) = {}
           C == Renamed(f.from, f.to)
<1>1. /\ Busy(c)
      /\ Throw(c) \/ (Return(c, "true") /\ UNCHANGED handles) \/ Call(c, admitted, C)
    BY DEF Rename, Ready, At, NoChange
<1> HIDE DEF admitted, C
<1> QED BY <1>1, EndsActs

LEMMA UpdatingActs == ASSUME TypesInv, NEW c \in Clients, Updating(c) PROVE Acts(c)
<1>1. ASSUME NEW name, NEW kinds, NEW field, NEW value, Update(c, name, kinds, field, value)
      PROVE  Acts(c)
    <2> DEFINE f == Top(c)
               kind == IF name = "permissions" THEN Look(f.from).kind ELSE f.seen[1].kind
               C == With(f.from, [Look(f.from) EXCEPT ![field] = value])
    <2>1. Busy(c) /\ (Throw(c) \/ Call(c, Is(f.from, kind), C))
        BY <1>1 DEF Update, Ready, At
    <2> HIDE DEF kind, C
    <2> QED BY <2>1, EndsActs
<1>2. CASE DataObjectChecksum(c)
    <2> DEFINE fs == <<[Top(c) EXCEPT !.at = "query"]>>
    <2>1. /\ Busy(c) /\ Top(c).name = "data_object_checksum"
          /\ Throw(c) \/ (Continue(c, fs) /\ UNCHANGED handles)
        BY <1>2 DEF DataObjectChecksum, Ready, At
    <2> HIDE DEF fs
    <2> QED BY <2>1, ThrowActs, GoesOnActs, HandlesStay
<1>3. CASE QueryChecksums(c)
    BY <1>3, EndsActs DEF QueryChecksums, At, NoChange
<1> QED BY <1>1, <1>2, <1>3 DEF Updating, LastWriteTime, Permissions, SetMetadata, RemoveMetadata

\* The steps of a walk.
LEMMA WalkingActs == ASSUME TypesInv, NEW c \in Clients, Walking(c) PROVE Acts(c)
<1> DEFINE p == Here(c).entry.path
           w == Walk(c)
           own == Own(client[c])
<1>1. Inv /\ HandlesInv(handles) /\ CatalogInv(cat) /\ HandlesStep(handles, handles, own)
    BY HandlesStay DEF TypesInv, DataInv, Inv
<1>2. ASSUME Busy(c), Top(c).name = "walk"
      PROVE  /\ IteratorsInv(w) /\ own = HandlesOf(w) /\ own \subseteq Reading(handles)
             /\ HandlesOf(w) \subseteq DOMAIN handles
    BY <1>1, <1>2, WalkFacts DEF Reading
<1>3. CASE WalkOpen(c)
    <2> DEFINE q == Top(c).from
               v == <<>>
    <2>1. Busy(c) /\ Top(c).name = "walk" /\ OpenOnto(c, q, v, handles)
        BY <1>3 DEF WalkOpen, WalkAt, At
    <2>2. IteratorsInv(v) /\ HandlesOf(v) = {}
        BY NoStack DEF IteratorsInv
    <2> HIDE DEF q, v
    <2> QED BY <1>1, <2>1, <2>2, OpenOntoActs
<1>4. CASE WalkVisit(c)
    <2>1. Busy(c) /\ Top(c).name = "walk" /\ UNCHANGED handles
        BY <1>4 DEF WalkVisit, WalkAt, At, NoChange
    <2> DEFINE V == client[c].visited \cup {p}
               b == client[c].twice \/ p \in client[c].visited
    <2>2. Goes(c, "visited", w, V, b, client[c].skipped)
        BY <1>1, <1>4, VisitGoes
    <2> HIDE DEF V, b
    <2> QED BY <1>1, <2>1, <2>2, GoesActs
<1>5. CASE WalkCrash(c)
    BY <1>5, CrashActs DEF WalkCrash, WalkAt, At
<1>6. CASE WalkDecline(c)
    <2> DEFINE paths == Below(cat, p)
    <2>1. Busy(c) /\ Top(c).name = "walk" /\ UNCHANGED handles /\ Skips(c, paths)
        BY <1>6 DEF WalkDecline, WalkAt, At, NoChange
    <2> HIDE DEF paths
    <2>2. Goes(c, "declined", w, client[c].visited, client[c].twice, client[c].skipped \cup paths)
        BY <1>1, <2>1, DeclineGoes
    <2> QED BY <1>1, <2>1, <2>2, GoesActs
<1>7. CASE WalkPop(c)
    <2> DEFINE S == client[c].skipped \cup (Below(cat, Here(c).entry.path)
                      \cup UNION {Tree(cat, e.path) : e \in handles[Here(c).handle].left})
               n == Here(c).handle
    <2>1. Busy(c) /\ Top(c).name = "walk" /\ Top(c).at = "visited" /\ handles' = Closed(handles, {n})
        BY <1>7 DEF WalkPop, WalkAt, At
    <2>2. IF Len(w) = 1 THEN Stops(c, "true", client[c].visited, client[c].twice, S)
                        ELSE Goes(c, "visit", Front(w), client[c].visited, client[c].twice, S)
        BY <1>1, <1>7, PopGoes
    <2>3. n \in own
        <3>1. w # <<>> /\ n # 0 /\ n = w[Len(w)].handle
            BY <1>1, <2>1, WalkFacts DEF Looking
        <3>2. Len(w) \in Nat \ {0}
            BY <1>2, <2>1, <3>1, IteratorPopped
        <3>3. Len(w) \in 1 .. Len(w)
            BY <3>2
        <3>4. n \in HandlesOf(w)
            <4> HIDE DEF w, n
            <4> QED BY <3>1, <3>3 DEF HandlesOf
        <3> QED BY <1>2, <2>1, <3>4
    <2>4. HandlesStep(handles, handles', own)
        <3> HIDE DEF n
        <3> QED BY <2>1, <2>3, HandlesClose
    <2> DEFINE v == Front(w)
    <2> HIDE DEF S, v
    <2>5. CASE Len(w) = 1
        <3>1. Stops(c, "true", client[c].visited, client[c].twice, S)
            BY <2>2, <2>5
        <3> QED BY <2>1, <2>4, <3>1, StopsActs
    <2>6. CASE Len(w) # 1
        <3>1. Goes(c, "visit", v, client[c].visited, client[c].twice, S)
            BY <2>2, <2>6 DEF v
        <3> QED BY <2>1, <2>4, <3>1, GoesActs
    <2> QED BY <2>5, <2>6
<1>8. ASSUME Busy(c), Top(c).name = "walk", NEW step, NEW v, Goto(c, step, v),
             HandlesStep(handles, handles', own)
      PROVE  Acts(c)
    <2>1. GoesTo(c, step, v)
        BY <1>1, <1>8, GotoGoes
    <2> QED BY <1>8, <2>1, GoesActs DEF GoesTo
<1>9. CASE WalkStat(c)
    BY <1>1, <1>8, <1>9, ThrowActs, CrashActs DEF WalkStat, WalkAt, At, NoChange
<1>10. CASE WalkProbe(c)
    <2>1. /\ Busy(c) /\ Top(c).name = "walk"
          /\ \/ handles' = Opened(handles, {}, "all") /\ Goto(c, "over", w)
             \/ UNCHANGED handles /\ Goto(c, "into", w)
             \/ OpenFails(c, p, Owned(c), handles)
        BY <1>10 DEF WalkProbe, WalkAt, At
    <2>2. CASE handles' = Opened(handles, {}, "all") /\ Goto(c, "over", w)
        <3> DEFINE left == {}
        <3>1. handles' = Opened(handles, left, "all") /\ \A e \in left : e.kind \in Kinds
            BY <2>2
        <3> HIDE DEF left
        <3>2. HandlesStep(handles, handles', own)
            BY <1>1, <3>1, HandlesOpen
        <3> QED BY <1>8, <2>1, <2>2, <3>2
    <2>3. CASE UNCHANGED handles /\ Goto(c, "into", w)
        BY <1>1, <1>8, <2>1, <2>3
    <2>4. CASE OpenFails(c, p, Owned(c), handles)
        <3> DEFINE owned == Owned(c)
        <3>1. owned = own
            BY <1>1, OwnedIs DEF Inv
        <3>2. owned \ {0} \subseteq own /\ owned \ {0} \subseteq DOMAIN handles
            BY <1>2, <2>1, <3>1
        <3> HIDE DEF p, owned
        <3> QED BY <1>1, <2>1, <2>4, <3>2, OpenFailsActs DEF owned
    <2> QED BY <2>1, <2>2, <2>3, <2>4
<1>11. CASE WalkInto(c)
    <2>1. Busy(c) /\ Top(c).name = "walk" /\ Top(c).at \in Looking
        BY <1>11 DEF WalkInto, WalkAt, At, Looking
    <2>2. ASSUME NEW a \in Advances(c), OpenOnto(c, p, a.walk, a.handles)
          PROVE  Acts(c)
        <3> DEFINE v == a.walk
                   H == a.handles
        <3>1. /\ IteratorsInv(v) /\ HandlesInv(H) /\ HandlesOf(v) \subseteq Reading(H)
              /\ HandlesStep(handles, H, own) /\ HandlesOf(v) \subseteq own
            BY <1>1, <2>1, AdvancesFacts, AdvancesSteps
        <3>2. OpenOnto(c, p, v, H) /\ HandlesOf(v) \subseteq DOMAIN H
            BY <2>2, <3>1 DEF Reading
        <3> HIDE DEF p, v, H
        <3> QED BY <2>1, <3>1, <3>2, OpenOntoActs
    <2> QED BY <1>11, <2>1, <2>2, ThrowActs DEF WalkInto
<1>12. CASE WalkOver(c)
    <2>1. Busy(c) /\ Top(c).name = "walk" /\ Top(c).at \in Looking
        BY <1>12 DEF WalkOver, WalkAt, At, Looking
    <2>2. ASSUME NEW a \in Advances(c), handles' = a.handles,
                 WalkEnds(c) \/ Goto(c, "visit", a.walk)
          PROVE  Acts(c)
        <3> DEFINE v == a.walk
        <3>1. HandlesStep(handles, handles', own)
            BY <1>1, <2>1, <2>2, AdvancesSteps
        <3>2. WalkEnds(c) \/ Goto(c, "visit", v)
            BY <2>2
        <3> HIDE DEF v
        <3>3. WalkEnds(c) => StopsWith(c, "true")
            BY <1>1, <2>1, EndsStops
        <3> QED BY <1>8, <2>1, <3>1, <3>2, <3>3, StopsActs DEF StopsWith
    <2> QED BY <1>12, <2>1, <2>2, ThrowActs DEF WalkOver
<1> QED BY <1>3, <1>4, <1>5, <1>6, <1>7, <1>9, <1>10, <1>11, <1>12 DEF Walking

LEMMA StepActs == ASSUME TypesInv, NEW c \in Clients, Step(c) PROVE Acts(c)
BY StatActs, CopyingActs, CreatingActs, RemovingActs, WalkingActs, RenameActs, UpdatingActs
    DEF Step

\* An operation begins.
Begins(c, k) ==
    /\ ~Busy(c) /\ client'[c] = k /\ \A d \in Clients \ {c} : client'[d] = client[d]
    /\ UNCHANGED <<cat, handles>> /\ before' = [before EXCEPT ![c] = cat]
    /\ k.op \in Requests /\ k.frames = <<k.op>> /\ k.walk = <<>> /\ k.visited = {}
    /\ k.twice = FALSE /\ k.skipped = {} /\ k.count = 0 /\ k.outcome = "none"

LEMMA StartBegins == ASSUME Inv, NEW c \in Clients, Start(c) PROVE Begins(c, client'[c])
<1> DEFINE k == client[c]
           f == Head(k.todo)
           rest == Tail(k.todo)
           j == Client(f, rest)
           m == [j EXCEPT !.frames = <<f>>]
<1>1. /\ ~Busy(c) /\ k.todo # <<>> /\ UNCHANGED <<cat, handles>>
      /\ client' = [client EXCEPT ![c] = m] /\ before' = [before EXCEPT ![c] = cat]
    BY DEF Start, NoChange
<1>2. ClientInv(k) /\ DOMAIN client = Clients
    BY DEF Inv
<1>3. f \in Requests
    <2>1. k.todo \in Seq(Requests)
        BY <1>2 DEF ClientInv
    <2> HIDE DEF k
    <2> QED BY <1>1, <2>1, HeadTailProperties
<1> HIDE DEF f, rest
<1>4. /\ IsClient(j) /\ j.op = f /\ j.walk = <<>> /\ j.visited = {} /\ j.skipped = {}
      /\ j.count = 0 /\ j.outcome = "none" /\ j.twice = FALSE
    BY DEF Client, IsClient
<1> HIDE DEF j
<1>5. /\ m.op = f /\ m.frames = <<f>> /\ m.walk = <<>> /\ m.visited = {} /\ m.skipped = {}
      /\ m.count = 0 /\ m.outcome = "none"
    BY <1>4 DEF IsClient
<1>6. m.twice = FALSE
    <2>1. m.twice = j.twice
        BY <1>4 DEF IsClient
    <2> QED BY <1>4, <2>1
<1> HIDE DEF m
<1>7. client'[c] = m /\ \A d \in Clients \ {c} : client'[d] = client[d]
    BY <1>1, <1>2
<1> QED BY <1>1, <1>3, <1>5, <1>6, <1>7 DEF Begins

LEMMA BeginsState == ASSUME NEW c, NEW k, Begins(c, k) PROVE StateOK(k)
<1> DEFINE f == k.op
           r == <<f>>
<1>1. k.frames = r /\ k.outcome = "none" /\ Len(r) = 1 /\ r[1] = f
    BY OneFrame DEF Begins
<1> HIDE DEF r
<1> QED BY <1>1 DEF StateOK

LEMMA InitTypes == ASSUME Init PROVE TypesInv
<1>1. HandlesOK(handles)
    <2>1. DOMAIN <<>> = {}
        OBVIOUS
    <2> QED BY <2>1 DEF Init, HandlesOK
<1>2. ASSUME NEW c \in Clients PROVE StateOK(client[c])
    <2>1. PICK program : client[c] = Client(Frame("none", <<>>, <<>>, {}), program)
        BY DEF Init
    <2> DEFINE k == client[c]
               op == Frame("none", <<>>, <<>>, {})
    <2> HIDE DEF op
    <2>2. k.frames = <<>> /\ k.outcome = "none"
        BY <2>1 DEF Client
    <2> HIDE DEF k
    <2>3. StateOK(k)
        BY <2>2 DEF StateOK
    <2> QED BY <2>3 DEF k
<1> QED BY <1>1, <1>2, InitData DEF TypesInv

LEMMA NextTypes == ASSUME TypesInv, [Next]_vars PROVE TypesInv'
<1>1. DataInv'
    BY NextData DEF TypesInv
<1>2. ASSUME UNCHANGED vars PROVE HandlesOK(handles') /\ \A d \in Clients : StateOK(client'[d])
    BY <1>2 DEF TypesInv, vars
<1>3. ASSUME NEW c \in Clients, Step(c)
      PROVE  HandlesOK(handles') /\ \A d \in Clients : StateOK(client'[d])
    <2>1. Acts(c)
        BY <1>3, StepActs
    <2> QED BY <2>1 DEF Acts, HandlesStep, TypesInv
<1>4. ASSUME NEW c \in Clients, Start(c)
      PROVE  HandlesOK(handles') /\ \A d \in Clients : StateOK(client'[d])
    <2>1. Begins(c, client'[c])
        BY <1>4, StartBegins DEF TypesInv, DataInv
    <2>2. StateOK(client'[c])
        BY <2>1, BeginsState
    <2> QED BY <2>1, <2>2 DEF Begins, TypesInv
<1>5. HandlesOK(handles') /\ \A d \in Clients : StateOK(client'[d])
    BY <1>2, <1>3, <1>4 DEF Next
<1> QED BY <1>1, <1>5 DEF TypesInv

LEMMA TypesHold == ASSUME TypesInv PROVE TypeOK
<1>1. \A p \in DOMAIN cat : cat[p].kind \in Kinds
    BY DEF TypesInv, DataInv, CatalogInv, IsObject
<1>2. ASSUME NEW c \in Clients, Walk(c) # <<>> PROVE Busy(c) /\ Top(c).name = "walk"
    <2> DEFINE s == client[c].frames
    <2>1. Inv /\ Len(s) = 1 /\ s[1].name = "walk"
        BY <1>2 DEF TypesInv, DataInv, Inv, ClientInv, WalkingInv, Walk
    <2>2. s # <<>>
        BY <2>1, NoStack
    <2>3. Busy(c)
        BY <2>2 DEF Busy
    <2>4. Top(c) = s[Len(s)]
        BY <2>1, <2>3, TopFacts
    <2> QED BY <2>1, <2>3, <2>4
<1> QED BY <1>1, <1>2 DEF TypesInv, HandlesOK, StateOK, Busy, TypeOK

-----------------------------------------------------------------------------
(* What a walk through a quiet catalog sees *)

\* A walk that is at this step, on this stack: it has not looked yet, it
\* began in an empty collection, or what is below its start is split.
Split(from, at, w, V, S, C, H) ==
    /\ at \in Looking \cup {"visit"} /\ RowsInv(H, w)
    /\ PathsInv(C, from, V, S, Rows(H, w), w[Len(w)].entry, at)
    /\ at = "into" => Children(C, w[Len(w)].entry.path) # {}
    /\ at # "visit" => w[Len(w)].entry.path \in V
Going(from, at, w, V, S, C, H) ==
    \/ at = "stat" /\ V = {} /\ S = {}
    \/ at = "visit" /\ w[Len(w)].entry = NoEntry /\ Below(C, from) = {}
    \/ Split(from, at, w, V, S, C, H)

\* Where a walk may end the process: it began in an empty collection, or it
\* came to a path that is too long.
MayCrash(C, from) == Below(C, from) = {} \/ \E q \in Below(C, from) : Len(q) > MaxDepth

WalkOf(k, C, H) ==
    /\ ~k.twice
    /\ k.outcome = "true" => k.visited = Below(C, k.op.from) \ k.skipped
    /\ k.outcome = "crashed" => MayCrash(C, k.op.from)
    /\ k.frames # <<>> => Going(k.op.from, k.frames[1].at, k.walk, k.visited, k.skipped, C, H)

WalksInv ==
    /\ DOMAIN before = Clients
    /\ \A c \in Clients : client[c].op.name = "walk" /\ before[c] # <<>> =>
            before[c] = cat /\ WalkOf(client[c], cat, handles)

\* What is known of a walk that takes a step.
LEMMA WalkNow ==
    ASSUME TypesInv, NEW c \in Clients, Busy(c), client[c].op.name = "walk",
           WalkOf(client[c], cat, handles)
    PROVE  /\ Top(c).name = "walk" /\ ~client[c].twice /\ client[c].outcome = "none"
           /\ Going(client[c].op.from, Top(c).at, Walk(c), client[c].visited, client[c].skipped,
                    cat, handles)
           /\ Top(c).from = client[c].op.from
<1>1. /\ client[c].outcome = "none" /\ Len(client[c].frames) = 1
      /\ client[c].frames[1].name = "walk" /\ client[c].frames[1].from = client[c].op.from
    BY DEF TypesInv, StateOK, Busy
<1>2. Top(c) = client[c].frames[1]
    BY <1>1, TopFacts DEF TypesInv, DataInv
<1> QED BY <1>1, <1>2 DEF WalkOf, Busy, Walk

\* What a step leaves of it.
LEMMA GoesWalk ==
    ASSUME TypesInv, NEW c \in Clients, Busy(c), Top(c).name = "walk", client[c].outcome = "none",
           NEW step, NEW w, NEW V, NEW b, ~b, NEW S, Goes(c, step, w, V, b, S), NEW C, NEW H,
           Going(client[c].op.from, step, w, V, S, C, H)
    PROVE  WalkOf(client'[c], C, H)
<1> DEFINE f == Top(c)
           a == [f EXCEPT !.at = step]
           r == <<a>>
<1>1. PICK k : /\ client'[c] = k /\ k.op = client[c].op /\ k.frames = r /\ k.walk = w
               /\ k.visited = V /\ k.twice = b /\ k.skipped = S /\ k.outcome = "none"
    BY DEF Goes, Leaves
<1>2. a.at = step
    <2>1. IsFrame(f)
        BY TopFacts DEF TypesInv, DataInv
    <2> HIDE DEF f
    <2> QED BY <2>1 DEF IsFrame
<1> HIDE DEF a
<1>3. r[1] = a
    BY OneFrame
<1> HIDE DEF r
<1>4. ~k.twice
    BY <1>1
<1> QED BY <1>1, <1>2, <1>3, <1>4 DEF WalkOf

LEMMA StopsWalk ==
    ASSUME NEW c, NEW outcome, NEW V, NEW b, ~b, NEW S, Stops(c, outcome, V, b, S), NEW C, NEW H,
           outcome = "true" => V = Below(C, client[c].op.from) \ S,
           outcome = "crashed" => MayCrash(C, client[c].op.from)
    PROVE  WalkOf(client'[c], C, H)
<1>1. PICK k : /\ client'[c] = k /\ k.op = client[c].op /\ k.frames = <<>>
               /\ k.visited = V /\ k.twice = b /\ k.skipped = S /\ k.outcome = outcome
    BY DEF Stops, Leaves
<1>2. ~k.twice
    BY <1>1
<1> QED BY <1>1, <1>2 DEF WalkOf

LEMMA ThrownWalk ==
    ASSUME TypesInv, NEW c \in Clients, Unwind(c), ~client[c].twice, NEW C, NEW H
    PROVE  WalkOf(client'[c], C, H)
<1> DEFINE V == client[c].visited
           b == client[c].twice
           S == client[c].skipped
           outcome == "thrown"
<1>1. ~b /\ Stops(c, outcome, V, b, S) /\ outcome # "true" /\ outcome # "crashed"
    BY ThrownStops DEF StopsWith, Unwind, TypesInv, DataInv
<1> HIDE DEF V, b, S, outcome
<1> QED BY <1>1, StopsWalk

\* No entry of a split walk is the end.
LEMMA PathsEntries ==
    ASSUME NEW C, NEW from, NEW V, NEW S, NEW F, NEW e, NEW at, PathsInv(C, from, V, S, F, e, at)
    PROVE  NoEntry \notin F /\ e \in F
<1>1. ASSUME NoEntry \in F PROVE FALSE
    <2>1. PICK q \in DOMAIN C \ {<<>>} : NoEntry = EntryOf(C, q)
        BY <1>1 DEF PathsInv
    <2> QED BY <2>1 DEF EntryOf, NoEntry
<1> QED BY <1>1 DEF PathsInv

\* The iterators of a split walk are not at their ends.
LEMMA RowsHandles ==
    ASSUME NEW H, NEW w, IteratorsInv(w), NoEntry \notin Rows(H, w)
    PROVE  \A n \in 1 .. Len(w) :
                /\ w[n].handle # 0 /\ w[n].handle \in HandlesOf(w)
                /\ w[n].entry \in Rows(H, w)
                /\ \A m \in 1 .. Len(w) : m # n => w[m].handle # w[n].handle
<1> SUFFICES ASSUME NEW n \in 1 .. Len(w)
             PROVE  /\ w[n].handle # 0 /\ w[n].handle \in HandlesOf(w)
                    /\ w[n].entry \in Rows(H, w)
                    /\ \A m \in 1 .. Len(w) : m # n => w[m].handle # w[n].handle
    OBVIOUS
<1>1. w[n].entry \in Rows(H, w)
    BY DEF Rows, Row
<1>2. w[n].entry # NoEntry
    BY <1>1
<1>3. w[n].handle # 0
    BY <1>2 DEF IteratorsInv, IsIterator
<1> QED BY <1>1, <1>3 DEF HandlesOf, IteratorsInv, Distinct

\* Handles that are not on the stack change.
LEMMA RowsStay ==
    ASSUME NEW H, NEW G, NEW w, IteratorsInv(w), RowsInv(H, w), NoEntry \notin Rows(H, w),
           \A h \in HandlesOf(w) : G[h].left = H[h].left
    PROVE  RowsInv(G, w) /\ Rows(G, w) = Rows(H, w)
<1>1. \A n \in 1 .. Len(w) : G[w[n].handle].left = H[w[n].handle].left
    BY RowsHandles
<1> QED BY <1>1, RowsAgree

\* A collection is opened, and its iterator put on the stack.
LEMMA RowsOpened ==
    ASSUME NEW H, HandlesInv(H), NEW w, IteratorsInv(w), RowsInv(H, w),
           HandlesOf(w) \subseteq DOMAIN H, NoEntry \notin Rows(H, w),
           NEW e, NEW left, e \notin left, e \notin Rows(H, w), left \cap Rows(H, w) = {}
    PROVE  LET G == Opened(H, left, "some")
               v == Append(w, [handle |-> NewHandle(H), entry |-> e])
           IN  /\ RowsInv(G, v) /\ v[Len(v)].entry = e
               /\ \A x : x \in Rows(G, v) <=> x \in Rows(H, w) \/ x \in left \/ x = e
<1> DEFINE n == NewHandle(H)
           G == Opened(H, left, "some")
           i == [handle |-> n, entry |-> e]
           v == Append(w, i)
<1>1. n \notin DOMAIN H /\ n # 0
    BY NewHandleFacts
<1>2. G[n] = [left |-> left, read |-> "some"] /\ \A h \in DOMAIN H : G[h] = H[h]
    BY <1>1 DEF Opened
<1>3. i.handle = n /\ i.entry = e
    OBVIOUS
<1> HIDE DEF n, G, i
<1>4. RowsInv(G, w) /\ Rows(G, w) = Rows(H, w)
    BY <1>2, RowsStay
<1>5. Row(G, i) = left \cup {e} /\ i.entry \notin G[i.handle].left
    BY <1>2, <1>3 DEF Row
<1>6. IsSeq(w) /\ Row(G, i) \cap Rows(G, w) = {}
    BY <1>4, <1>5 DEF IteratorsInv
<1>7. RowsInv(G, v) /\ Rows(G, v) = Rows(G, w) \cup Row(G, i) /\ v[Len(v)] = i
    BY <1>4, <1>5, <1>6, RowsPushed
<1>8. \A x : x \in Rows(G, v) <=> x \in Rows(H, w) \/ x \in left \/ x = e
    BY <1>4, <1>5, <1>7
<1> QED BY <1>3, <1>7, <1>8 DEF G, i, n

\* The iterator at the top moves on.
LEMMA RowsAdvanced ==
    ASSUME TypesInv, NEW c \in Clients, Busy(c), Top(c).name = "walk", Top(c).at \in Looking,
           RowsInv(handles, Walk(c)), NoEntry \notin Rows(handles, Walk(c)),
           NEW a \in Advances(c)
    PROVE  /\ RowsInv(a.handles, a.walk)
           /\ Rows(a.handles, a.walk) = Rows(handles, Walk(c)) \ {Here(c).entry}
           /\ a.walk # <<>> => a.walk[Len(a.walk)].entry \in Rows(a.handles, a.walk)
           /\ a.walk = <<>> => Rows(a.handles, a.walk) = {}
<1> DEFINE w == Walk(c)
           i == Here(c)
           n == i.handle
           v == Front(w)
           H == handles
           G == a.handles
<1>1. /\ n \in DOMAIN H /\ n # 0 /\ w # <<>>
      /\ IteratorsInv(w) /\ HandlesInv(H) /\ i = Last(w) /\ Len(w) \in Nat \ {0}
      /\ \/ H[n].left = {} /\ a.walk = v /\ G = [H EXCEPT ![n].read = "all"]
         \/ \E e \in H[n].left : /\ a.walk = Append(v, [handle |-> n, entry |-> e])
                                 /\ G = [H EXCEPT ![n].left = H[n].left \ {e}]
    BY AdvancesIs DEF TypesInv, DataInv
<1>2. HandlesOf(w) \subseteq DOMAIN H
    BY WalkFacts DEF TypesInv, DataInv, Reading
<1>3. /\ IteratorsInv(v) /\ Len(v) = Len(w) - 1 /\ RowsInv(H, v)
      /\ Rows(H, w) = Rows(H, v) \cup Row(H, i) /\ Rows(H, v) \cap Row(H, i) = {}
      /\ i.entry \notin H[n].left
    BY <1>1, RowsPopped
<1>4. HandlesOf(v) = HandlesOf(w) \ {n}
    BY <1>1, IteratorPopped
<1>5. Row(H, i) = H[n].left \cup {i.entry}
    BY DEF Row
<1>6. NoEntry \notin Rows(H, v)
    BY <1>3
<1>7. IteratorsInv(a.walk)
    BY AdvancesFacts DEF TypesInv, DataInv
<1> HIDE DEF w, i, n, v, H, G
<1>8. CASE H[n].left = {} /\ a.walk = v /\ G = [H EXCEPT ![n].read = "all"]
    <2>1. \A h \in HandlesOf(v) : G[h].left = H[h].left
        BY <1>2, <1>4, <1>8
    <2>2. RowsInv(G, v) /\ Rows(G, v) = Rows(H, v)
        BY <1>3, <1>6, <2>1, RowsStay
    <2>3. Rows(G, v) = Rows(H, w) \ {i.entry}
        BY <1>3, <1>5, <1>8, <2>2
    <2>4. ASSUME v # <<>> PROVE v[Len(v)].entry \in Rows(G, v)
        <3>1. Len(v) \in Nat \ {0}
            BY <1>3, <2>4, IteratorPopped
        <3>2. Len(v) \in 1 .. Len(v)
            BY <3>1
        <3> QED BY <3>2 DEF Rows, Row
    <2>5. v = <<>> => Rows(G, v) = {}
        BY NoStack DEF Rows
    <2> QED BY <1>8, <2>2, <2>3, <2>4, <2>5 DEF G, H, w, i
<1>9. ASSUME NEW e \in H[n].left, a.walk = Append(v, [handle |-> n, entry |-> e]),
             G = [H EXCEPT ![n].left = H[n].left \ {e}]
      PROVE  /\ RowsInv(G, a.walk) /\ Rows(G, a.walk) = Rows(H, w) \ {i.entry}
             /\ a.walk # <<>> /\ a.walk[Len(a.walk)].entry \in Rows(G, a.walk)
    <2> DEFINE left == H[n].left
               j == [handle |-> n, entry |-> e]
               u == Append(v, j)
    <2>1. \A h \in HandlesOf(v) : G[h].left = H[h].left
        BY <1>2, <1>4, <1>9
    <2>2. RowsInv(G, v) /\ Rows(G, v) = Rows(H, v)
        BY <1>3, <1>6, <2>1, RowsStay
    <2>3. G[n].left = left \ {e}
        <3>1. H[n] = [left |-> H[n].left, read |-> H[n].read]
            BY <1>1 DEF HandlesInv
        <3> QED BY <1>1, <1>9, <3>1
    <2>4. j.handle = n /\ j.entry = e /\ IsSeq(v)
        BY <1>3 DEF IteratorsInv
    <2>5. a.walk = u
        BY <1>9
    <2> HIDE DEF j
    <2>6. Row(G, j) = left /\ j.entry \notin G[j.handle].left
        BY <2>3, <2>4 DEF Row
    <2>7. Row(G, j) \cap Rows(G, v) = {}
        BY <1>3, <1>5, <2>2, <2>6
    <2>8. RowsInv(G, u) /\ Rows(G, u) = Rows(G, v) \cup Row(G, j) /\ u[Len(u)] = j
        BY <2>2, <2>4, <2>6, <2>7, RowsPushed
    <2>9. u # <<>>
        BY <1>3, <2>4, Pushed DEF IteratorsInv
    <2>10. Rows(G, u) = Rows(H, w) \ {i.entry} /\ u[Len(u)].entry \in Rows(G, u)
        BY <1>3, <1>5, <2>2, <2>4, <2>6, <2>8
    <2> QED BY <2>5, <2>8, <2>9, <2>10
<1> QED BY <1>1, <1>8, <1>9 DEF G, H, w, i

\* What can be opened is in the catalog, and its entries are.
LEMMA OpensEntries ==
    ASSUME NEW p
    PROVE  /\ Entries(p) = EntriesOf(cat, p) /\ (Entries(p) = {} => Children(cat, p) = {})
           /\ CanOpen(p) => p \in DOMAIN cat
<1>1. Entries(p) = EntriesOf(cat, p)
    BY DEF Entries, EntriesOf, EntryOf
<1>2. CanOpen(p) => p \in DOMAIN cat
    BY DEF CanOpen, Is, Look, Nothing
<1> QED BY <1>1, <1>2 DEF EntriesOf

\* An iterator that fails to open unwinds the walk.
LEMMA OpenFailsWalk ==
    ASSUME TypesInv, NEW c \in Clients, ~client[c].twice, NEW C, NEW H,
           \/ Throw(c)
           \/ \E p, owned, G : OpenFails(c, p, owned, G)
    PROVE  WalkOf(client'[c], C, H)
<1>1. Unwind(c)
    BY DEF Throw, ThrowFrom, OpenFails
<1> QED BY <1>1, ThrownWalk

\* The walk opens its collection.
LEMMA WalkOpenWalk ==
    ASSUME TypesInv, NEW c \in Clients, Busy(c), client[c].op.name = "walk",
           WalkOf(client[c], cat, handles), WalkOpen(c)
    PROVE  WalkOf(client'[c], cat, handles')
<1> DEFINE p == client[c].op.from
           C == cat
           V == client[c].visited
           S == client[c].skipped
           H == handles
           i == [handle |-> 0, entry |-> NoEntry]
<1>1. /\ Top(c).name = "walk" /\ ~client[c].twice /\ client[c].outcome = "none" /\ Top(c).from = p
      /\ Going(p, "stat", Walk(c), V, S, C, H) /\ OpenOnto(c, p, <<>>, H)
    BY WalkNow DEF WalkOpen, WalkAt, At
<1>2. V = {} /\ S = {}
    BY <1>1 DEF Going, Split, Looking
<1>3. Inv /\ CatalogInv(C) /\ HandlesInv(H)
    BY DEF TypesInv, DataInv, Inv
<1>4. \/ \E owned : OpenFails(c, p, owned, H)
      \/ /\ CanOpen(p) /\ Entries(p) = {} /\ Goto(c, "visit", Append(<<>>, i))
      \/ /\ CanOpen(p)
         /\ \E e \in Entries(p) :
               /\ handles' = Opened(H, Entries(p) \ {e}, "some")
               /\ Goto(c, "visit", Append(<<>>, [handle |-> NewHandle(H), entry |-> e]))
    BY <1>1, OpensOnto
<1>5. CASE \E owned : OpenFails(c, p, owned, H)
    BY <1>1, <1>5, OpenFailsWalk
<1>6. CASE CanOpen(p) /\ Entries(p) = {} /\ Goto(c, "visit", Append(<<>>, i))
    <2> DEFINE w == Append(<<>>, i)
    <2>1. Below(C, p) = {}
        BY <1>3, <1>6, OpensEntries, BelowNothing
    <2>2. w[Len(w)].entry = NoEntry
        <3>1. w = <<i>>
            OBVIOUS
        <3> QED BY <3>1, OneFrame
    <2>3. GoesTo(c, "visit", w)
        BY <1>1, <1>3, <1>6, GotoGoes
    <2> HIDE DEF w, p, C
    <2>4. Going(p, "visit", w, V, S, C, handles')
        BY <2>1, <2>2 DEF Going
    <2> QED BY <1>1, <2>3, <2>4, GoesWalk DEF GoesTo, p, C
<1>7. ASSUME CanOpen(p), NEW e \in Entries(p), handles' = Opened(H, Entries(p) \ {e}, "some"),
             Goto(c, "visit", Append(<<>>, [handle |-> NewHandle(H), entry |-> e]))
      PROVE  WalkOf(client'[c], C, handles')
    <2> DEFINE E == EntriesOf(C, p)
               w == <<>>
               v == Append(w, [handle |-> NewHandle(H), entry |-> e])
               G == Opened(H, E \ {e}, "some")
    <2>1. p \in DOMAIN C /\ E = Entries(p) /\ e \in E
        BY <1>7, OpensEntries
    <2>2. PathsInv(C, p, V, S, E, e, "visit")
        BY <1>2, <1>3, <2>1, BegunPaths
    <2>3. /\ IteratorsInv(w) /\ HandlesOf(w) = {} /\ RowsInv(H, w) /\ Rows(H, w) = {}
        <3>1. 1 .. Len(w) = {}
            BY NoStack
        <3> QED BY <3>1, NoStack DEF IteratorsInv, RowsInv, Rows
    <2>4. handles' = G
        BY <1>7, <2>1
    <2>5. GoesTo(c, "visit", v)
        BY <1>1, <1>3, <1>7, GotoGoes
    <2> HIDE DEF w, E
    <2>6. /\ HandlesOf(w) \subseteq DOMAIN H /\ E \cap Rows(H, w) = {}
          /\ NoEntry \notin Rows(H, w)
        BY <2>3
    <2>7. RowsInv(G, v) /\ Rows(G, v) = Rows(H, w) \cup E /\ v[Len(v)].entry = e
        <3> DEFINE left == E \ {e}
        <3>1. e \notin left /\ e \notin Rows(H, w) /\ left \cap Rows(H, w) = {}
            BY <2>1, <2>6
        <3> HIDE DEF H, left
        <3>2. RowsInv(G, v) /\ v[Len(v)].entry = e
            BY <1>3, <2>3, <2>6, <3>1, RowsOpened DEF left
        <3>3. \A x : x \in Rows(G, v) <=> x \in Rows(H, w) \/ x \in left \/ x = e
            BY <1>3, <2>3, <2>6, <3>1, RowsOpened DEF left
        <3>4. Rows(G, v) = Rows(H, w) \cup E
            BY <2>1, <3>3 DEF left
        <3> QED BY <3>2, <3>4
    <2> HIDE DEF v, G
    <2>8. Going(p, "visit", v, V, S, C, handles')
        BY <2>2, <2>3, <2>4, <2>7 DEF Going, Split
    <2> QED BY <1>1, <2>5, <2>8, GoesWalk DEF GoesTo
<1> QED BY <1>4, <1>5, <1>6, <1>7

\* The walk is split once it looks at an entry.
LEMMA WalkSplit ==
    ASSUME TypesInv, NEW c \in Clients, Busy(c), client[c].op.name = "walk",
           WalkOf(client[c], cat, handles),
           Top(c).at \in Looking \/ (Top(c).at = "visit" /\ Here(c).entry # NoEntry)
    PROVE  /\ Top(c).name = "walk" /\ ~client[c].twice /\ client[c].outcome = "none"
           /\ Top(c).from = client[c].op.from
           /\ Here(c) = Walk(c)[Len(Walk(c))] /\ Walk(c) # <<>>
           /\ IteratorsInv(Walk(c)) /\ HandlesOf(Walk(c)) \subseteq DOMAIN handles
           /\ RowsInv(handles, Walk(c))
           /\ PathsInv(cat, client[c].op.from, client[c].visited, client[c].skipped,
                       Rows(handles, Walk(c)), Here(c).entry, Top(c).at)
           /\ Top(c).at = "into" => Children(cat, Here(c).entry.path) # {}
           /\ Top(c).at # "visit" => Here(c).entry.path \in client[c].visited
<1>1. /\ Top(c).name = "walk" /\ ~client[c].twice /\ client[c].outcome = "none"
      /\ Top(c).from = client[c].op.from
      /\ Going(client[c].op.from, Top(c).at, Walk(c), client[c].visited, client[c].skipped,
               cat, handles)
    BY WalkNow
<1>2. /\ Here(c) = Walk(c)[Len(Walk(c))] /\ Walk(c) # <<>>
      /\ IteratorsInv(Walk(c)) /\ HandlesOf(Walk(c)) \subseteq DOMAIN handles
    BY <1>1, WalkFacts DEF TypesInv, DataInv, Reading
<1>3. Split(client[c].op.from, Top(c).at, Walk(c), client[c].visited, client[c].skipped,
            cat, handles)
    BY <1>1, <1>2 DEF Going, Looking
<1> QED BY <1>1, <1>2, <1>3 DEF Split

\* The walk sees an entry, and nothing that it has seen before.
LEMMA WalkVisitWalk ==
    ASSUME TypesInv, NEW c \in Clients, Busy(c), client[c].op.name = "walk",
           WalkOf(client[c], cat, handles), WalkVisit(c)
    PROVE  WalkOf(client'[c], cat, handles')
<1> DEFINE e == Here(c).entry
           p == e.path
           V == client[c].visited \cup {p}
           b == client[c].twice \/ p \in client[c].visited
           S == client[c].skipped
           w == Walk(c)
           F == Rows(handles, w)
           from == client[c].op.from
           C == cat
<1>1. Top(c).at = "visit" /\ e # NoEntry /\ UNCHANGED handles
    BY DEF WalkVisit, WalkAt, At, NoChange
<1>2. /\ Top(c).name = "walk" /\ ~client[c].twice /\ client[c].outcome = "none"
      /\ e = w[Len(w)].entry /\ RowsInv(handles, w)
      /\ PathsInv(C, from, client[c].visited, S, F, e, "visit")
    BY <1>1, WalkSplit
<1>3. CatalogInv(C) /\ Inv
    BY DEF TypesInv, DataInv
<1>4. p \notin client[c].visited /\ PathsInv(C, from, V, S, F, e, "visited")
    <2> HIDE DEF C, from, S, F, e
    <2> QED BY <1>2, <1>3, SeenPaths
<1>5. Goes(c, "visited", w, V, b, S)
    BY <1>3, VisitGoes
<1>6. ~b /\ e.path \in V
    BY <1>2, <1>4
<1> HIDE DEF V, b, S, w, from, C, e
<1>7. Going(from, "visited", w, V, S, C, handles')
    BY <1>1, <1>2, <1>4, <1>6 DEF Going, Split, Looking
<1> QED BY <1>2, <1>5, <1>6, <1>7, GoesWalk DEF from, C

\* A walk that ends the process where it may.
LEMMA CrashesWalk ==
    ASSUME Inv, NEW c \in Clients, ~client[c].twice, MayCrash(cat, client[c].op.from), Crash(c)
    PROVE  WalkOf(client'[c], cat, handles')
<1> DEFINE V == client[c].visited
           b == client[c].twice
           S == client[c].skipped
           C == cat
           H == handles'
           outcome == "crashed"
<1>1. /\ ~b /\ Stops(c, outcome, V, b, S) /\ MayCrash(C, client[c].op.from)
      /\ outcome = "crashed" /\ outcome # "true"
    BY ThrownStops DEF StopsWith, Crash
<1> HIDE DEF V, b, S, C, H, outcome
<1>2. WalkOf(client'[c], C, H)
    BY <1>1, StopsWalk
<1> QED BY <1>2 DEF C, H

\* A crash of an iterator is that of a walk that began in an empty collection.
LEMMA WalkCrashWalk ==
    ASSUME TypesInv, NEW c \in Clients, Busy(c), client[c].op.name = "walk",
           WalkOf(client[c], cat, handles), WalkCrash(c)
    PROVE  WalkOf(client'[c], cat, handles')
<1> DEFINE from == client[c].op.from
           w == Walk(c)
<1>1. /\ Top(c).at = "visit" /\ Here(c).entry = NoEntry
      /\ Unwinds(c, "crashed")
    BY DEF WalkCrash, Crash, WalkAt, At
<1>2. /\ Top(c).name = "walk" /\ ~client[c].twice
      /\ Going(from, "visit", w, client[c].visited, client[c].skipped, cat, handles)
    BY <1>1, WalkNow
<1>3. Here(c) = w[Len(w)] /\ Inv
    BY <1>1, <1>2, WalkFacts DEF TypesInv, DataInv
<1>4. Below(cat, from) = {}
    <2>1. CASE Split(from, "visit", w, client[c].visited, client[c].skipped, cat, handles)
        <3>1. w[Len(w)].entry # NoEntry
            BY <2>1, PathsEntries DEF Split
        <3> QED BY <1>1, <1>3, <3>1
    <2> QED BY <1>2, <2>1 DEF Going
<1> QED BY <1>2, <1>3, <1>4, CrashesWalk DEF MayCrash, WalkCrash

\* The walk declines to enter a collection.
LEMMA WalkDeclineWalk ==
    ASSUME TypesInv, NEW c \in Clients, Busy(c), client[c].op.name = "walk",
           WalkOf(client[c], cat, handles), WalkDecline(c)
    PROVE  WalkOf(client'[c], cat, handles')
<1> DEFINE e == Here(c).entry
           V == client[c].visited
           P == Below(cat, e.path)
           S == client[c].skipped
           w == Walk(c)
           F == Rows(handles, w)
           from == client[c].op.from
           C == cat
<1>1. Top(c).at = "visited" /\ Skips(c, P) /\ UNCHANGED handles
    BY DEF WalkDecline, WalkAt, At, NoChange
<1>2. /\ Top(c).name = "walk" /\ ~client[c].twice /\ client[c].outcome = "none"
      /\ e = w[Len(w)].entry /\ RowsInv(handles, w)
      /\ PathsInv(C, from, V, S, F, e, "visited") /\ e.path \in V
    BY <1>1, WalkSplit DEF Looking
<1>3. PathsInv(C, from, V, S \cup P, F, e, "declined")
    <2> HIDE DEF from, S, F, e
    <2> QED BY <1>2, DeclinedPaths
<1> HIDE DEF P
<1>4. Goes(c, "declined", w, V, client[c].twice, S \cup P)
    BY <1>1, <1>2, DeclineGoes DEF TypesInv, DataInv
<1> HIDE DEF w, from, C, e
<1>5. Going(from, "declined", w, V, S \cup P, C, handles')
    BY <1>1, <1>2, <1>3 DEF Going, Split, Looking
<1> DEFINE T == S \cup P
<1> HIDE DEF V, S
<1>6. Goes(c, "declined", w, V, client[c].twice, T) /\ Going(from, "declined", w, V, T, C, handles')
    BY <1>4, <1>5
<1> HIDE DEF T
<1> QED BY <1>2, <1>6, GoesWalk DEF from, C

\* The walk leaves the collection that it is in.
LEMMA WalkPopWalk ==
    ASSUME TypesInv, NEW c \in Clients, Busy(c), client[c].op.name = "walk",
           WalkOf(client[c], cat, handles), WalkPop(c)
    PROVE  WalkOf(client'[c], cat, handles')
<1> DEFINE e == Here(c).entry
           n == Here(c).handle
           V == client[c].visited
           b == client[c].twice
           S == client[c].skipped
           w == Walk(c)
           v == Front(w)
           H == handles
           F == Rows(H, w)
           G == Rows(H, v)
           K == H[n].left
           C == cat
           from == client[c].op.from
           U == UNION {Tree(C, x.path) : x \in K}
           T == S \cup (Below(C, e.path) \cup U)
<1>1. Top(c).at = "visited" /\ handles' = Closed(handles, {n})
    BY DEF WalkPop, WalkAt, At
<1>2. /\ Top(c).name = "walk" /\ ~b /\ client[c].outcome = "none"
      /\ e = w[Len(w)].entry /\ w # <<>> /\ IteratorsInv(w) /\ HandlesOf(w) \subseteq DOMAIN H
      /\ RowsInv(H, w) /\ PathsInv(C, from, V, S, F, e, "visited") /\ Here(c) = w[Len(w)]
    BY <1>1, WalkSplit DEF Looking
<1>3. CatalogInv(C) /\ Inv
    BY DEF TypesInv, DataInv
<1>4. IF Len(w) = 1 THEN Stops(c, "true", V, b, T) ELSE Goes(c, "visit", v, V, b, T)
    BY <1>3, PopGoes
<1>5. Here(c) = Last(w)
    BY <1>2 DEF Last
<1> HIDE DEF w, H, C, from, V, S, b
<1>6. /\ IteratorsInv(v) /\ Len(w) \in Nat \ {0} /\ Len(v) = Len(w) - 1 /\ RowsInv(H, v)
      /\ F = G \cup (K \cup {e}) /\ G \cap (K \cup {e}) = {} /\ e \notin K
    BY <1>2, <1>5, RowsPopped DEF Row
<1>7. F \ {e} = G \cup K /\ G \cap K = {}
    BY <1>6
<1>8. Under(C, K) = U
    <2>1. ASSUME NEW x \in Under(C, K) PROVE x \in U
        <3>1. PICK k \in K : x \in DOMAIN C /\ IsPrefix(k.path, x)
            BY <2>1 DEF Under
        <3> QED BY <3>1 DEF Tree
    <2>2. ASSUME NEW x \in U PROVE x \in Under(C, K)
        BY <2>2 DEF Under, Tree
    <2> QED BY <2>1, <2>2
<1> HIDE DEF F, G, K, U, e
<1>9. LeavesOff(C, from, V, T, G)
    <2>1. \A x : x \in F /\ x # e <=> x \in G \/ x \in K
        BY <1>7
    <2>2. \A x \in G : x \notin K
        BY <1>7
    <2>3. \A x : x \in T <=> x \in S \/ x \in Below(C, e.path) \/ x \in Under(C, K)
        BY <1>8
    <2> HIDE DEF T
    <2> QED BY <1>2, <1>3, <2>1, <2>2, <2>3, PoppedPaths
<1> HIDE DEF T
<1>10. CASE Len(w) = 1
    <2>1. v = <<>>
        BY <1>6, <1>10, NoStack, PathLen DEF IteratorsInv
    <2>2. G = {}
        BY <2>1, NoStack DEF G, Rows
    <2>3. Stops(c, "true", V, b, T)
        BY <1>4, <1>10
    <2> DEFINE outcome == "true"
    <2>4. outcome # "crashed" /\ Stops(c, outcome, V, b, T) /\ V = Below(C, from) \ T
        BY <1>9, <2>2, <2>3 DEF LeavesOff
    <2> HIDE DEF outcome
    <2> QED BY <1>2, <2>4, StopsWalk DEF C, from
<1>11. CASE Len(w) # 1
    <2>1. v # <<>> /\ Len(v) \in 1 .. Len(v)
        BY <1>6, <1>11, NoStack
    <2>2. v[Len(v)].entry \in G
        BY <2>1 DEF G, Rows, Row
    <2>3. RowsInv(handles', v) /\ Rows(handles', v) = G
        <3> DEFINE D == handles'
        <3>1. NoEntry \notin G
            BY <1>2, <1>7, PathsEntries
        <3>2. HandlesOf(v) = HandlesOf(w) \ {n}
            BY <1>2, <1>5, IteratorPopped
        <3>3. \A h \in HandlesOf(v) : D[h] = H[h]
            BY <1>1, <1>2, <3>2 DEF Closed, H
        <3> HIDE DEF D, v
        <3>4. RowsInv(D, v) /\ Rows(D, v) = Rows(H, v)
            BY <1>6, <3>1, <3>3, RowsStay DEF G
        <3> QED BY <3>4 DEF D, G
    <2> HIDE DEF v
    <2>4. Going(from, "visit", v, V, T, C, handles')
        BY <1>9, <2>2, <2>3 DEF Going, Split, LeavesOff
    <2>5. Goes(c, "visit", v, V, b, T)
        BY <1>4, <1>11
    <2> QED BY <1>2, <2>4, <2>5, GoesWalk DEF C, from
<1> QED BY <1>10, <1>11

\* The walk looks closer at a collection.
LEMMA WalkLooksWalk ==
    ASSUME TypesInv, NEW c \in Clients, Busy(c), client[c].op.name = "walk",
           WalkOf(client[c], cat, handles), WalkStat(c) \/ WalkProbe(c)
    PROVE  WalkOf(client'[c], cat, handles')
<1> DEFINE e == Here(c).entry
           V == client[c].visited
           b == client[c].twice
           S == client[c].skipped
           w == Walk(c)
           H == handles
           F == Rows(H, w)
           C == cat
           from == client[c].op.from
           at == Top(c).at
<1>1. at \in {"visited", "probe"}
    BY DEF WalkStat, WalkProbe, WalkAt, At
<1>2. /\ Top(c).name = "walk" /\ ~b /\ client[c].outcome = "none"
      /\ e = w[Len(w)].entry /\ w # <<>> /\ IteratorsInv(w) /\ HandlesOf(w) \subseteq DOMAIN H
      /\ RowsInv(H, w) /\ PathsInv(C, from, V, S, F, e, at)
      /\ e.path \in V
    BY <1>1, WalkSplit DEF Looking
<1>3. CatalogInv(C) /\ Inv /\ HandlesInv(H)
    BY DEF TypesInv, DataInv, Inv
<1>4. NoEntry \notin F /\ e.path \in DOMAIN C /\ e = EntryOf(C, e.path) /\ e.path # <<>>
    <2>1. NoEntry \notin F
        BY <1>2, PathsEntries
    <2>2. e.path \in DOMAIN C /\ e = EntryOf(C, e.path) /\ e.path # <<>>
        <3>1. /\ F \subseteq {EntryOf(C, q) : q \in DOMAIN C \ {<<>>}} /\ e \in F
            BY <1>2 DEF PathsInv
        <3> HIDE DEF C, F, e
        <3>2. PICK q \in DOMAIN C \ {<<>>} : e = EntryOf(C, q)
            BY <3>1
        <3> QED BY <3>2 DEF EntryOf
    <2> QED BY <2>1, <2>2
<1>5. ASSUME NEW step \in Looking, Goto(c, step, w), Ahead(C, e, step) = Ahead(C, e, at),
             step = "into" => Children(C, e.path) # {},
             \A h \in HandlesOf(w) : handles'[h] = H[h]
      PROVE  WalkOf(client'[c], C, handles')
    <2> DEFINE D == handles'
    <2>1. GoesTo(c, step, w)
        BY <1>2, <1>3, <1>5, GotoGoes
    <2>2. PathsInv(C, from, V, S, F, e, step)
        BY <1>2, <1>5, SamePaths
    <2>3. \A h \in HandlesOf(w) : D[h] = H[h]
        BY <1>5
    <2> HIDE DEF w, H, D, C, from, V, S, e
    <2>4. RowsInv(D, w) /\ Rows(D, w) = F
        BY <1>2, <1>4, <2>3, RowsStay
    <2>5. Going(from, step, w, V, S, C, D)
        BY <1>2, <1>5, <2>2, <2>4 DEF Going, Split
    <2>6. Goes(c, step, w, V, b, S)
        BY <2>1 DEF GoesTo, V, S
    <2> HIDE DEF b
    <2> QED BY <1>2, <2>5, <2>6, GoesWalk DEF C, D, from
<1>6. Entries(e.path) = {} <=> Children(C, e.path) = {}
    BY DEF Entries
<1>7. CASE WalkStat(c)
    <2>1. /\ e.kind = "coll" /\ at = "visited"
          /\ \/ Goto(c, "probe", w) /\ UNCHANGED handles
             \/ Look(e.path).kind = "data"
             \/ Len(e.path) > MaxDepth /\ Crash(c)
             \/ Throw(c)
        BY <1>7 DEF WalkStat, WalkAt, At, NoChange
    <2>2. Look(e.path).kind = e.kind
        BY <1>4 DEF Look, EntryOf
    <2>3. CASE Throw(c)
        BY <1>2, <2>3, OpenFailsWalk
    <2>4. CASE Goto(c, "probe", w) /\ UNCHANGED handles
        <3>1. Ahead(C, e, "probe") = Ahead(C, e, at)
            BY <2>1 DEF Ahead
        <3> QED BY <1>5, <2>4, <3>1 DEF Looking
    <2>5. CASE Len(e.path) > MaxDepth /\ Crash(c)
        <3>1. e.path \in Below(C, from)
            BY <1>1, <1>2, <1>3 DEF PathsInv, Splits
        <3> QED BY <1>2, <2>5, <3>1, CrashesWalk DEF MayCrash, TypesInv, DataInv
    <2> QED BY <2>1, <2>2, <2>3, <2>4, <2>5
<1>8. CASE WalkProbe(c)
    <2>1. /\ at = "probe"
          /\ \/ /\ Entries(e.path) = {} /\ handles' = Opened(handles, {}, "all")
                /\ Goto(c, "over", w)
             \/ Entries(e.path) # {} /\ UNCHANGED handles /\ Goto(c, "into", w)
             \/ OpenFails(c, e.path, Owned(c), handles)
        BY <1>8 DEF WalkProbe, WalkAt, At
    <2>2. CASE OpenFails(c, e.path, Owned(c), handles)
        BY <1>2, <2>2, OpenFailsWalk
    <2>3. CASE /\ Entries(e.path) = {} /\ handles' = Opened(handles, {}, "all")
               /\ Goto(c, "over", w)
        <3>1. Ahead(C, e, "over") = Ahead(C, e, at)
            BY <1>3, <1>4, <1>6, <2>1, <2>3, BelowNothing DEF Ahead
        <3>2. NewHandle(H) \notin DOMAIN H
            BY <1>3, NewHandleFacts
        <3>3. \A h \in HandlesOf(w) : handles'[h] = H[h]
            BY <1>2, <2>3, <3>2 DEF Opened
        <3> QED BY <1>5, <2>3, <3>1, <3>3 DEF Looking
    <2>4. CASE Entries(e.path) # {} /\ UNCHANGED handles /\ Goto(c, "into", w)
        <3>1. Ahead(C, e, "into") = Ahead(C, e, at)
            BY <2>1 DEF Ahead
        <3> QED BY <1>5, <1>6, <2>4, <3>1 DEF Looking
    <2> QED BY <2>1, <2>2, <2>3, <2>4
<1> QED BY <1>7, <1>8

\* The walk enters a collection.
LEMMA WalkIntoWalk ==
    ASSUME TypesInv, NEW c \in Clients, Busy(c), client[c].op.name = "walk",
           WalkOf(client[c], cat, handles), WalkInto(c)
    PROVE  WalkOf(client'[c], cat, handles')
<1> DEFINE e == Here(c).entry
           p == e.path
           V == client[c].visited
           b == client[c].twice
           S == client[c].skipped
           F == Rows(handles, Walk(c))
           C == cat
           from == client[c].op.from
           E == EntriesOf(C, p)
<1>1. Top(c).at = "into" /\ (Throw(c) \/ \E a \in Advances(c) : OpenOnto(c, p, a.walk, a.handles))
    BY DEF WalkInto, WalkAt, At
<1>2. /\ Top(c).name = "walk" /\ ~b /\ client[c].outcome = "none"
      /\ RowsInv(handles, Walk(c)) /\ PathsInv(C, from, V, S, F, e, "into")
      /\ Children(C, p) # {}
    BY <1>1, WalkSplit DEF Looking
<1>3. CatalogInv(C) /\ Inv
    BY DEF TypesInv, DataInv
<1>4. NoEntry \notin F
    BY <1>2, PathsEntries
<1>5. Entries(p) = E /\ E # {}
    BY <1>2, OpensEntries
<1>6. CASE Throw(c)
    BY <1>2, <1>6, OpenFailsWalk
<1>7. ASSUME NEW a \in Advances(c), OpenOnto(c, p, a.walk, a.handles)
      PROVE  WalkOf(client'[c], C, handles')
    <2> DEFINE H == a.handles
               w == a.walk
    <2>1. /\ IteratorsInv(w) /\ HandlesInv(H) /\ HandlesOf(w) \subseteq Reading(H)
          /\ RowsInv(H, w) /\ Rows(H, w) = F \ {e}
        BY <1>1, <1>2, <1>3, <1>4, AdvancesFacts, RowsAdvanced DEF Looking
    <2>2. OpenOnto(c, p, w, H) /\ HandlesOf(w) \subseteq DOMAIN H /\ NoEntry \notin Rows(H, w)
        BY <1>4, <1>7, <2>1 DEF Reading
    <2> HIDE DEF H, w
    <2>3. \/ \E owned : OpenFails(c, p, owned, H)
          \/ Entries(p) = {}
          \/ \E g \in E :
                /\ handles' = Opened(H, E \ {g}, "some")
                /\ Goto(c, "visit", Append(w, [handle |-> NewHandle(H), entry |-> g]))
        BY <1>5, <2>2, OpensOnto
    <2>4. ASSUME NEW g \in E, handles' = Opened(H, E \ {g}, "some"),
                 Goto(c, "visit", Append(w, [handle |-> NewHandle(H), entry |-> g]))
          PROVE  WalkOf(client'[c], C, handles')
        <3> DEFINE v == Append(w, [handle |-> NewHandle(H), entry |-> g])
                   left == E \ {g}
                   G == Opened(H, left, "some")
        <3>1. PathsInv(C, from, V, S, (F \ {e}) \cup E, g, "visit") /\ (F \ {e}) \cap E = {}
            BY <1>2, <1>3, EnteredPaths
        <3>2. g \notin left /\ g \notin Rows(H, w) /\ left \cap Rows(H, w) = {}
            BY <2>1, <2>4, <3>1
        <3>3. GoesTo(c, "visit", v)
            BY <1>2, <1>3, <2>4, GotoGoes
        <3>4. handles' = G
            BY <2>4
        <3> HIDE DEF left, E
        <3>5. RowsInv(G, v) /\ v[Len(v)].entry = g
            BY <2>1, <2>2, <3>2, RowsOpened
        <3>6. \A x : x \in Rows(G, v) <=> x \in Rows(H, w) \/ x \in left \/ x = g
            BY <2>1, <2>2, <3>2, RowsOpened
        <3>7. Rows(G, v) = (F \ {e}) \cup E
            BY <2>1, <2>4, <3>6 DEF left
        <3> HIDE DEF v, G, F, e, from
        <3>8. Going(from, "visit", v, V, S, C, handles')
            BY <3>1, <3>4, <3>5, <3>7 DEF Going, Split
        <3> QED BY <1>2, <3>3, <3>8, GoesWalk DEF GoesTo, from
    <2> QED BY <1>2, <1>5, <2>3, <2>4, OpenFailsWalk
<1> QED BY <1>1, <1>6, <1>7

\* The walk goes on to the next entry, or ends.
LEMMA WalkOverWalk ==
    ASSUME TypesInv, NEW c \in Clients, Busy(c), client[c].op.name = "walk",
           WalkOf(client[c], cat, handles), WalkOver(c)
    PROVE  WalkOf(client'[c], cat, handles')
<1> DEFINE e == Here(c).entry
           V == client[c].visited
           b == client[c].twice
           S == client[c].skipped
           F == Rows(handles, Walk(c))
           C == cat
           from == client[c].op.from
           at == Top(c).at
<1>1. /\ at \in {"over", "declined"} \/ (at = "visited" /\ e.kind # "coll")
      /\ \/ Throw(c)
         \/ \E a \in Advances(c) :
               handles' = a.handles /\ IF a.walk = <<>> THEN WalkEnds(c) ELSE Goto(c, "visit", a.walk)
    BY DEF WalkOver, WalkAt, At
<1>2. /\ Top(c).name = "walk" /\ ~b /\ client[c].outcome = "none" /\ at \in Looking
      /\ RowsInv(handles, Walk(c)) /\ PathsInv(C, from, V, S, F, e, at)
    BY <1>1, WalkSplit DEF Looking
<1>3. CatalogInv(C) /\ Inv
    BY DEF TypesInv, DataInv
<1>4. NoEntry \notin F
    BY <1>2, PathsEntries
<1>5. Ahead(C, e, at) = {}
    <2>1. e.path \in DOMAIN C /\ e = EntryOf(C, e.path) /\ e.path # <<>>
        BY <1>2, <1>3, UnderOne DEF PathsInv
    <2>2. e.kind = C[e.path].kind
        <3> DEFINE q == e.path
        <3> HIDE DEF e
        <3> QED BY <2>1 DEF EntryOf
    <2>3. e.kind # "coll" => Below(C, e.path) = {}
        BY <1>3, <2>1, <2>2, BelowNothing
    <2> QED BY <1>1, <2>3 DEF Ahead
<1>6. LeavesOff(C, from, V, S, F \ {e})
    <2> HIDE DEF e, V, S, F, C, from, at
    <2> QED BY <1>2, <1>3, <1>5, LeftPaths
<1>7. CASE Throw(c)
    BY <1>2, <1>7, OpenFailsWalk
<1>8. ASSUME NEW a \in Advances(c), handles' = a.handles,
             IF a.walk = <<>> THEN WalkEnds(c) ELSE Goto(c, "visit", a.walk)
      PROVE  WalkOf(client'[c], C, handles')
    <2> DEFINE H == a.handles
               w == a.walk
    <2>1. /\ RowsInv(H, w) /\ Rows(H, w) = F \ {e}
          /\ w # <<>> => w[Len(w)].entry \in Rows(H, w)
          /\ w = <<>> => Rows(H, w) = {}
        BY <1>2, <1>4, RowsAdvanced
    <2>2. handles' = H /\ IF w = <<>> THEN WalkEnds(c) ELSE Goto(c, "visit", w)
        BY <1>8
    <2> HIDE DEF H, w
    <2>3. CASE w = <<>>
        <3>1. StopsWith(c, "true")
            BY <1>2, <1>3, <2>2, <2>3, EndsStops
        <3> DEFINE outcome == "true"
        <3>2. outcome # "crashed" /\ Stops(c, outcome, V, b, S) /\ V = Below(C, from) \ S
            BY <1>6, <2>1, <2>3, <3>1 DEF StopsWith, LeavesOff
        <3> HIDE DEF outcome, V, S, b, C
        <3> QED BY <1>2, <3>2, StopsWalk
    <2>4. CASE w # <<>>
        <3>1. GoesTo(c, "visit", w)
            BY <1>2, <1>3, <2>2, <2>4, GotoGoes
        <3> HIDE DEF F, e, from
        <3>2. Going(from, "visit", w, V, S, C, handles')
            BY <1>6, <2>1, <2>2, <2>4 DEF Going, Split, LeavesOff
        <3> QED BY <1>2, <3>1, <3>2, GoesWalk DEF GoesTo, from
    <2> QED BY <2>3, <2>4
<1> QED BY <1>1, <1>7, <1>8

\* A client whose operation is a walk or a remove is in it.
LEMMA OwnTop ==
    ASSUME TypesInv, NEW c \in Clients, Busy(c), client[c].op.name \in {"walk", "remove"}
    PROVE  /\ Top(c).name = client[c].op.name /\ Top(c).from = client[c].op.from
           /\ Top(c).options = client[c].op.options /\ client[c].frames[1] = Top(c)
<1>1. /\ Len(client[c].frames) = 1 /\ client[c].frames[1].name = client[c].op.name
      /\ client[c].frames[1].from = client[c].op.from
      /\ client[c].frames[1].options = client[c].op.options
    BY DEF TypesInv, StateOK, Busy
<1> QED BY <1>1, TopFacts DEF TypesInv, DataInv

\* Which function takes the step.
LEMMA StepTop ==
    ASSUME NEW c, Step(c)
    PROVE  /\ Busy(c)
           /\ Top(c).name = "walk" => Stat(c) \/ Walking(c)
           /\ Top(c).name = "remove" => Stat(c) \/ Removing(c)
<1>1. ASSUME Copying(c) PROVE Busy(c) /\ Top(c).name \in {"copy", "copy_data_object"}
    BY <1>1 DEF Copying, CopyThrows, CopyOfDataObject, CopyOfCollection, CopyOpen, CopyNext,
                CopyDataObject, Ready, At
<1>2. ASSUME Creating(c)
      PROVE  /\ Busy(c)
             /\ Top(c).name \in {"create_collection", "create_collection_like", "create_collections"}
    BY <1>2 DEF Creating, CreateCollection, CreateCollectionLike, CreatedLike, CreateCollections,
                Ready, At
<1>3. ASSUME Removing(c) PROVE Busy(c) /\ Top(c).name = "remove"
    BY <1>3 DEF Removing, CountDataObjects, CountCollections, RemoveEnds, RemoveDataObject,
                RemoveProbe, RemoveCollection, Ready, At
<1>4. ASSUME Walking(c) PROVE Busy(c) /\ Top(c).name = "walk"
    BY <1>4 DEF Walking, WalkOpen, WalkVisit, WalkCrash, WalkDecline, WalkPop, WalkStat,
                WalkProbe, WalkInto, WalkOver, WalkAt, At
<1>5. ASSUME Rename(c) \/ Updating(c) PROVE Busy(c) /\ Top(c).name \notin {"walk", "remove"}
    BY <1>5 DEF Rename, Updating, LastWriteTime, Permissions, SetMetadata, RemoveMetadata,
                DataObjectChecksum, QueryChecksums, Update, Ready, At
<1> QED BY <1>1, <1>2, <1>3, <1>4, <1>5 DEF Step, Stat

\* A walk changes nothing in the catalog.
LEMMA WalkLeavesCatalog ==
    ASSUME NEW c, Stat(c) \/ Walking(c)
    PROVE  UNCHANGED cat
<1>1. \A owned, H : ThrowFrom(c, owned, H) => UNCHANGED cat
    BY DEF ThrowFrom
<1>2. Throw(c) \/ Crash(c) => UNCHANGED cat
    BY <1>1 DEF Throw, Crash
<1>3. \A p, owned, H : OpenFails(c, p, owned, H) => UNCHANGED cat
    BY <1>1 DEF OpenFails
<1>4. \A p, w, H : OpenOnto(c, p, w, H) => UNCHANGED cat
    BY <1>3 DEF OpenOnto
<1> QED BY <1>2, <1>3, <1>4 DEF Stat, Walking, WalkOpen, WalkVisit, WalkCrash, WalkDecline,
    WalkPop,
                WalkStat, WalkProbe, WalkInto, WalkOver, NoChange

\* A status call of a client that is in a walk or a remove, which keeps all
\* but what its frame has seen.
Reads(c, k) ==
    /\ \E g : k.frames = <<g>> /\ g.at = Top(c).at
    /\ k.op = client[c].op /\ k.walk = client[c].walk /\ k.visited = client[c].visited
    /\ k.twice = client[c].twice /\ k.skipped = client[c].skipped
    /\ k.count = client[c].count /\ k.outcome = client[c].outcome
LEMMA StatReads ==
    ASSUME TypesInv, NEW c \in Clients, Top(c).name \in {"walk", "remove"}, Stat(c)
    PROVE  Throw(c) \/ Crash(c) \/ (NoChange /\ Reads(c, client'[c]))
<1> DEFINE f == Top(c)
           look == Look(Lookups(f)[Len(f.seen) + 1])
           a == [f EXCEPT !.seen = Append(@, look)]
           r == Front(client[c].frames) \o <<a>>
           k == [client[c] EXCEPT !.frames = r]
<1>1. Busy(c) /\ ((Continue(c, <<a>>) /\ NoChange) \/ Throw(c) \/ Crash(c))
    BY DEF Stat
<1>2. Inv /\ DOMAIN client = Clients /\ IsClient(client[c])
    BY DEF TypesInv, DataInv, Inv, ClientInv
<1> HIDE DEF look
<1>3. a.at = f.at
    <2>1. IsFrame(f)
        BY <1>1, <1>2, TopFacts
    <2> HIDE DEF f
    <2> QED BY <2>1 DEF IsFrame
<1>4. Continue(c, <<a>>) => client'[c] = k
    BY <1>2 DEF Continue, Become
<1> HIDE DEF a
<1>5. r = <<a>>
    <2>1. Front(client[c].frames) = <<>>
        BY <1>1, <1>2, AloneTop
    <2> QED BY <2>1, OneFrame
<1> HIDE DEF r
<1>6. /\ k.frames = r /\ k.op = client[c].op /\ k.walk = client[c].walk
      /\ k.visited = client[c].visited /\ k.twice = client[c].twice
      /\ k.skipped = client[c].skipped /\ k.count = client[c].count
      /\ k.outcome = client[c].outcome
    BY <1>2 DEF IsClient
<1> HIDE DEF k
<1>7. Continue(c, <<a>>) => Reads(c, client'[c])
    BY <1>3, <1>4, <1>5, <1>6 DEF Reads
<1> QED BY <1>1, <1>7

\* A walk has no path to look at before it opens.
LEMMA WalkLooksNot ==
    ASSUME TypesInv, NEW c \in Clients, Busy(c), Top(c).name = "walk"
    PROVE  ~Stat(c)
<1>1. Lookups(Top(c)) = <<>>
    BY DEF Lookups
<1>2. Len(Lookups(Top(c))) = 0
    BY <1>1, NoStack
<1>3. Len(Top(c).seen) \in Nat
    BY TopOf DEF TypesInv, FrameOf
<1> QED BY <1>2, <1>3 DEF Stat

\* A step of the client of the walk.
LEMMA StepWalk ==
    ASSUME TypesInv, NEW c \in Clients, client[c].op.name = "walk",
           WalkOf(client[c], cat, handles), Step(c)
    PROVE  UNCHANGED cat /\ WalkOf(client'[c], cat, handles')
<1>1. Busy(c) /\ (Stat(c) \/ Walking(c)) /\ Top(c).name = "walk"
    BY OwnTop, StepTop
<1>2. UNCHANGED cat
    BY <1>1, WalkLeavesCatalog
<1>3. ~Stat(c)
    BY <1>1, WalkLooksNot
<1> QED BY <1>1, <1>2, <1>3, WalkOpenWalk, WalkVisitWalk, WalkCrashWalk, WalkDeclineWalk,
           WalkPopWalk, WalkLooksWalk, WalkIntoWalk, WalkOverWalk DEF Walking

\* A step of another client, whose handles are other ones.
LEMMA OtherWalk ==
    ASSUME TypesInv, NEW c \in Clients, NEW d \in Clients, c # d, client[c].op.name = "walk",
           WalkOf(client[c], cat, handles), Step(d)
    PROVE  WalkOf(client[c], cat, handles')
<1> DEFINE k == client[c]
           w == k.walk
           H == handles
           G == handles'
<1>1. CASE ~Busy(c)
    BY <1>1 DEF WalkOf, Busy
<1>2. CASE Busy(c)
    <2>1. Inv /\ Top(c).name = "walk" /\ k.frames[1].at = Top(c).at
        BY <1>2, OwnTop DEF TypesInv, DataInv
    <2>2. IteratorsInv(w) /\ Own(k) = HandlesOf(w) /\ Own(k) \subseteq DOMAIN H
        BY <1>2, <2>1, WalkFacts DEF Reading, Walk
    <2>3. Own(k) \cap Own(client[d]) = {}
        BY <2>1, OwnedIs DEF Inv, HandlesAccounted
    <2>4. HandlesStep(H, G, Own(client[d]))
        BY StepActs DEF Acts
    <2>5. \A h \in HandlesOf(w) : G[h].left = H[h].left
        BY <2>2, <2>3, <2>4 DEF HandlesStep
    <2> DEFINE from == k.op.from
               at == k.frames[1].at
               V == k.visited
               S == k.skipped
               C == cat
    <2>6. Going(from, at, w, V, S, C, H)
        BY <1>2 DEF WalkOf, Busy
    <2> HIDE DEF from, at, V, S, C, w, H, G
    <2>7. ASSUME Split(from, at, w, V, S, C, H) PROVE Going(from, at, w, V, S, C, G)
        <3>1. NoEntry \notin Rows(H, w) /\ RowsInv(H, w)
            BY <2>7, PathsEntries DEF Split
        <3>2. RowsInv(G, w) /\ Rows(G, w) = Rows(H, w)
            BY <2>2, <2>5, <3>1, RowsStay
        <3> QED BY <2>7, <3>2 DEF Split, Going
    <2>8. Going(from, at, w, V, S, C, G)
        BY <2>6, <2>7 DEF Going
    <2> QED BY <2>8 DEF WalkOf, from, at, V, S, C, w, G
<1> QED BY <1>1, <1>2

\* A walk that begins.
LEMMA BeginsWalk ==
    ASSUME NEW c, NEW k, Begins(c, k), k.op.name = "walk", NEW C, NEW H
    PROVE  WalkOf(k, C, H)
<1> DEFINE f == k.op
           r == <<f>>
<1>1. f \in Requests /\ k.frames = r /\ r[1] = f /\ ~k.twice /\ k.outcome = "none"
      /\ k.visited = {} /\ k.skipped = {}
    BY OneFrame DEF Begins
<1> HIDE DEF r
<1>2. f.at = "stat"
    BY <1>1 DEF Requests
<1>3. Going(k.op.from, k.frames[1].at, k.walk, k.visited, k.skipped, C, H)
    BY <1>1, <1>2 DEF Going
<1> QED BY <1>1, <1>3 DEF WalkOf

LEMMA InitWalks == ASSUME Init PROVE WalksInv
BY DEF Init, WalksInv

LEMMA NextWalks == ASSUME TypesInv, WalksInv, [Next]_vars PROVE WalksInv'
<1>1. CASE UNCHANGED vars
    BY <1>1 DEF WalksInv, vars
<1>2. ASSUME NEW d \in Clients, Step(d) PROVE WalksInv'
    <2>1. Acts(d) /\ before' = [e \in Clients |-> IF e # d /\ cat' # cat THEN <<>> ELSE before[e]]
        BY <1>2, StepActs DEF Step
    <2>2. DOMAIN before' = Clients
        BY <2>1
    <2>3. ASSUME NEW c \in Clients, client'[c].op.name = "walk", before'[c] # <<>>
          PROVE  before'[c] = cat' /\ WalkOf(client'[c], cat', handles')
        <3>1. before'[c] = before[c] /\ client'[c].op = client[c].op
            BY <2>1, <2>3 DEF Acts
        <3>2. before[c] = cat /\ WalkOf(client[c], cat, handles)
            BY <2>3, <3>1 DEF WalksInv
        <3>3. CASE c = d
            BY <1>2, <2>3, <3>1, <3>2, <3>3, StepWalk
        <3>4. CASE c # d
            <4>1. cat' = cat /\ client'[c] = client[c]
                BY <2>1, <2>3, <3>4 DEF Acts
            <4> QED BY <1>2, <2>3, <3>1, <3>2, <3>4, <4>1, OtherWalk
        <3> QED BY <3>3, <3>4
    <2> QED BY <2>2, <2>3 DEF WalksInv
<1>3. ASSUME NEW d \in Clients, Start(d) PROVE WalksInv'
    <2> DEFINE k == client'[d]
    <2>1. Begins(d, k)
        BY <1>3, StartBegins DEF TypesInv, DataInv
    <2>2. /\ UNCHANGED <<cat, handles>> /\ before' = [before EXCEPT ![d] = cat]
          /\ \A c \in Clients \ {d} : client'[c] = client[c]
        BY <2>1 DEF Begins
    <2>3. k.op.name = "walk" => WalkOf(k, cat, handles)
        BY <2>1, BeginsWalk
    <2>4. DOMAIN before = Clients
        BY DEF WalksInv
    <2>5. ASSUME NEW c \in Clients, client'[c].op.name = "walk", before'[c] # <<>>
          PROVE  before'[c] = cat' /\ WalkOf(client'[c], cat', handles')
        <3>1. CASE c = d
            BY <2>2, <2>3, <2>4, <2>5, <3>1
        <3>2. CASE c # d
            BY <2>2, <2>4, <2>5, <3>2 DEF WalksInv
        <3> QED BY <3>1, <3>2
    <2> QED BY <2>2, <2>4, <2>5 DEF WalksInv
<1> QED BY <1>1, <1>2, <1>3 DEF Next

\* In a catalog that nobody else changes, a walk with a
\* recursive_collection_iterator sees nothing twice, and if it finishes all
\* that is below its start, except what it declined to enter or left: the
\* entries on its stack and those that the open handles have left are apart,
\* and what is below them, what it has seen and what it has skipped split
\* what is below its start.
THEOREM WalkInvHolds == Spec => []WalkInv
<1>1. Init => TypesInv /\ WalksInv
    BY InitTypes, InitWalks
<1>2. TypesInv /\ WalksInv /\ [Next]_vars => TypesInv' /\ WalksInv'
    BY NextTypes, NextWalks
<1>3. TypesInv /\ WalksInv => WalkInv
    BY TypesHold DEF WalksInv, WalkOf, MayCrash, WalkInv, WalkVisitsOnce, Quietly
<1> QED BY <1>1, <1>2, <1>3, PTL DEF Spec

-----------------------------------------------------------------------------
(* What a step adds to the catalog *)

\* A step adds paths that are not too long, but for a rename, and no more
\* than finitely many.
Allowed(c, p) ==
    Len(p) <= MaxDepth \/ (client[c].op.name = "rename" /\ IsPrefix(client[c].op.to, p))
Grows(c) ==
    /\ IsFiniteSet(DOMAIN cat) => IsFiniteSet(DOMAIN cat')
    /\ \A p \in DOMAIN cat' \ DOMAIN cat : client'[c] # client[c] /\ Allowed(c, p)

LEMMA FiniteImage ==
    ASSUME NEW S, IsFiniteSet(S), NEW T, NEW f, f \in [S -> T], \A t \in T : \E s \in S : f[s] = t
    PROVE  IsFiniteSet(T)
<1>1. f \in Surjection(S, T)
    BY DEF Surjection
<1> QED BY <1>1, FS_Surjection

LEMMA Shrinks == ASSUME NEW c, DOMAIN cat' \subseteq DOMAIN cat PROVE Grows(c)
BY FS_Subset DEF Grows

LEMMA Steady == ASSUME NEW c, UNCHANGED cat PROVE Grows(c)
BY DEF Grows

\* A request that adds at most the paths in new.
LEMMA CallGrows ==
    ASSUME DataInv, NEW c \in Clients, Busy(c), NEW admitted, NEW C, NEW new,
           IsFiniteSet(DOMAIN cat) => IsFiniteSet(new),
           admitted => \A p \in DOMAIN C : p \in DOMAIN cat \/ p \in new,
           admitted => \A p \in new : Allowed(c, p),
           Call(c, admitted, C) \/ CallOrFalse(c, admitted, C)
    PROVE  Grows(c)
<1>1. ASSUME Throw(c) \/ NoChange PROVE Grows(c)
    BY <1>1, Steady DEF Throw, ThrowFrom, NoChange
<1>2. ASSUME admitted, cat' = C, Return(c, "true") PROVE Grows(c)
    <2>1. client'[c] # client[c]
        BY <1>2, ReturnSets DEF DataInv
    <2>2. ASSUME IsFiniteSet(DOMAIN cat) PROVE IsFiniteSet(DOMAIN C)
        <3>1. IsFiniteSet(DOMAIN cat \cup new)
            BY <2>2, FS_Union
        <3>2. DOMAIN C \in SUBSET (DOMAIN cat \cup new)
            BY <1>2
        <3> QED BY <3>1, <3>2, FS_Subset
    <2> QED BY <1>2, <2>1, <2>2 DEF Grows
<1> QED BY <1>1, <1>2 DEF Call, CallOrFalse

\* A request that adds one path, or none.
LEMMA OneGrows ==
    ASSUME DataInv, NEW c \in Clients, Busy(c), NEW admitted, NEW p, NEW o, Allowed(c, p),
           Call(c, admitted, With(p, o))
    PROVE  Grows(c)
<1> DEFINE new == {p}
           C == With(p, o)
<1>1. IsFiniteSet(new) /\ \A q \in new : Allowed(c, q)
    BY FS_Singleton
<1>2. \A q \in DOMAIN C : q \in DOMAIN cat \/ q \in new
    BY DEF With
<1> HIDE DEF new, C
<1>3. Call(c, admitted, C)
    BY DEF C
<1> QED BY <1>1, <1>2, <1>3, CallGrows

LEMMA NoneGrows ==
    ASSUME DataInv, NEW c \in Clients, Busy(c), NEW admitted, NEW C,
           admitted => DOMAIN C \subseteq DOMAIN cat,
           Call(c, admitted, C) \/ CallOrFalse(c, admitted, C)
    PROVE  Grows(c)
<1> DEFINE new == {}
<1>1. IsFiniteSet(new) /\ \A q \in new : Allowed(c, q)
    BY FS_EmptySet
<1>2. admitted => \A p \in DOMAIN C : p \in DOMAIN cat \/ p \in new
    OBVIOUS
<1> HIDE DEF new
<1> QED BY <1>1, <1>2, CallGrows

\* What is thrown changes nothing, and looks do not.
LEMMA Looks ==
    ASSUME NEW c
    PROVE  /\ Throw(c) => UNCHANGED cat
           /\ \A p, owned, H : OpenFails(c, p, owned, H) => UNCHANGED cat
BY DEF Throw, ThrowFrom, OpenFails

LEMMA CopyingGrows == ASSUME DataInv, NEW c \in Clients, Copying(c) PROVE Grows(c)
<1>1. CASE CopyDataObject(c)
    <2> DEFINE f == Top(c)
               object == IF Is(f.to, "data")
                           THEN [cat[f.to] EXCEPT !.data = Look(f.from).data, !.mtime = 2]
                           ELSE NewObject("data", Look(f.from).data)
               p == f.to
               admitted == /\ Is(f.from, "data")
                           /\ \/ ~Found(Look(p)) /\ Is(Parent(p), "coll")
                              \/ Is(p, "data") /\ ForceFlag(f)
    <2>1. /\ Busy(c)
          /\ Throw(c) \/ NoChange \/ (~TooLong(f) /\ Call(c, admitted, With(p, object)))
        BY <1>1 DEF CopyDataObject, Ready, At, CopyDataRejects
    <2>2. IsSeq(p)
        BY <2>1, TopOf DEF FrameOf
    <2>3. ~TooLong(f) => Allowed(c, p)
        BY <2>2, PathLen, LimitAssumption DEF TooLong, Allowed
    <2> HIDE DEF f, object, p, admitted
    <2> QED BY <2>1, <2>3, OneGrows, Looks, Steady DEF NoChange
<1>2. CASE ~CopyDataObject(c)
    BY <1>2, Looks, Steady DEF Copying, CopyThrows, CopyOfDataObject, CopyOfCollection, CopyOpen,
       CopyNext, NoChange
<1> QED BY <1>1, <1>2

LEMMA LineGrows == ASSUME DataInv, NEW c \in Clients, CreateCollections(c) PROVE Grows(c)
<1> DEFINE f == Top(c)
           p == f.from
           line == {SubSeq(p, 1, n) : n \in 1..Len(p)}
           C == [q \in DOMAIN cat \cup line |->
                    IF q \in DOMAIN cat THEN cat[q]
                    ELSE [NewObject("coll", 0) EXCEPT !.id = @ + Len(q)]]
           admitted == ~Found(Look(p)) /\ \A q \in line : ~Is(q, "data")
<1>1. /\ Busy(c)
      /\ Throw(c) \/ NoChange \/ (~TooLong(f) /\ CallOrFalse(c, admitted, C))
    BY DEF CreateCollections, Ready, At
<1>2. IsSeq(p) /\ Len(p) \in Nat
    BY <1>1, TopOf, PathLen DEF FrameOf
<1>3. IsFiniteSet(line)
    <2> DEFINE S == 1 .. Len(p)
               s == [n \in S |-> SubSeq(p, 1, n)]
    <2>1. IsFiniteSet(S)
        BY <1>2, FS_Interval
    <2>2. s \in [S -> line] /\ \A q \in line : \E n \in S : s[n] = q
        OBVIOUS
    <2> HIDE DEF S, s, line
    <2> QED BY <2>1, <2>2, FiniteImage
<1>4. ASSUME ~TooLong(f), NEW q \in line PROVE Allowed(c, q)
    <2>1. PICK n \in 1 .. Len(p) : q = SubSeq(p, 1, n)
        OBVIOUS
    <2>2. Len(q) = n
        BY <1>2, <2>1, Begin
    <2> QED BY <1>2, <1>4, <2>2, LimitAssumption DEF TooLong, Allowed
<1>5. \A q \in DOMAIN C : q \in DOMAIN cat \/ q \in line
    OBVIOUS
<1> HIDE DEF C, line, admitted, f
<1> QED BY <1>1, <1>3, <1>4, <1>5, CallGrows, Looks, Steady DEF NoChange

LEMMA CreatingGrows == ASSUME DataInv, NEW c \in Clients, Creating(c) PROVE Grows(c)
<1>1. CASE CreateCollection(c)
    <2> DEFINE f == Top(c)
               p == f.from
               o == NewObject("coll", 0)
               admitted == ~Found(Look(p)) /\ Is(Parent(p), "coll")
    <2>1. /\ Busy(c)
          /\ Throw(c) \/ NoChange \/ (~TooLong(f) /\ Call(c, admitted, With(p, o)))
        BY <1>1 DEF CreateCollection, Ready, At
    <2>2. IsSeq(p)
        BY <2>1, TopOf DEF FrameOf
    <2>3. ~TooLong(f) => Allowed(c, p)
        BY <2>2, PathLen, LimitAssumption DEF TooLong, Allowed
    <2> HIDE DEF f, o, p, admitted
    <2> QED BY <2>1, <2>3, OneGrows, Looks, Steady DEF NoChange
<1>2. CASE CreatedLike(c)
    <2> DEFINE f == Top(c)
               p == f.from
               admitted == Found(Look(p))
               C == With(p, [Look(p) EXCEPT !.perms = f.seen[1].perms])
    <2>1. Busy(c) /\ Call(c, admitted, C)
        BY <1>2 DEF CreatedLike, At
    <2>2. admitted => p \in DOMAIN cat
        BY LookFacts DEF DataInv
    <2>3. admitted => DOMAIN C \subseteq DOMAIN cat
        BY <2>2 DEF With
    <2> HIDE DEF C, admitted
    <2> QED BY <2>1, <2>3, NoneGrows
<1>3. CASE CreateCollectionLike(c)
    BY <1>3, Looks, Steady DEF CreateCollectionLike, NoChange
<1> QED BY <1>1, <1>2, <1>3, LineGrows DEF Creating

LEMMA RemovingGrows == ASSUME DataInv, NEW c \in Clients, Removing(c) PROVE Grows(c)
<1>1. ASSUME NEW paths, NEW admitted, Busy(c), CallOrFalse(c, admitted, Without(paths))
      PROVE  Grows(c)
    <2> DEFINE C == Without(paths)
    <2>1. DOMAIN C \subseteq DOMAIN cat
        BY DEF Without
    <2> HIDE DEF C
    <2>2. CallOrFalse(c, admitted, C)
        BY <1>1 DEF C
    <2> QED BY <1>1, <2>1, <2>2, NoneGrows
<1>2. CASE RemoveDataObject(c)
    BY <1>1, <1>2 DEF RemoveDataObject, Ready, At
<1>3. CASE RemoveCollection(c)
    BY <1>1, <1>3 DEF RemoveCollection, Ready, At
<1>4. CASE RemoveEnds(c) \/ CountDataObjects(c) \/ CountCollections(c) \/ RemoveProbe(c)
    BY <1>4, Looks, Steady DEF RemoveEnds, CountDataObjects, CountCollections, RemoveProbe,
        NoChange
<1> QED BY <1>2, <1>3, <1>4 DEF Removing

LEMMA RenameGrows == ASSUME DataInv, NEW c \in Clients, Rename(c) PROVE Grows(c)
<1> DEFINE f == Top(c)
           p == f.from
           r == f.to
           new == {Moved(q, p, r) : q \in Tree(cat, p)}
           C == Renamed(p, r)
           admitted == /\ Found(Look(p)) /\ Is(Parent(r), "coll")
                       /\ \/ ~Found(Look(r))
                          \/ Is(r, Look(p).kind) /\ Children(cat, r) = {}
<1>1. /\ Busy(c) /\ f.name = "rename"
      /\ Throw(c) \/ NoChange \/ Call(c, admitted, C)
    BY DEF Rename, Ready, At
<1>2. /\ IsSeq(p) /\ IsSeq(r) /\ client[c].op.name = "rename" /\ client[c].op.to = r
      /\ CatalogInv(cat)
    BY <1>1, TopOf DEF FrameOf, DataInv
<1>3. ASSUME IsFiniteSet(DOMAIN cat) PROVE IsFiniteSet(new)
    <2> DEFINE S == Tree(cat, p)
               s == [q \in S |-> Moved(q, p, r)]
    <2>1. IsFiniteSet(S)
        BY <1>3, FS_Subset DEF Tree
    <2>2. s \in [S -> new] /\ \A q \in new : \E n \in S : s[n] = q
        OBVIOUS
    <2> HIDE DEF S, s, new
    <2> QED BY <2>1, <2>2, FiniteImage
<1>4. ASSUME NEW m \in new PROVE Allowed(c, m)
    <2>1. PICK q \in Tree(cat, p) : m = Moved(q, p, r)
        OBVIOUS
    <2>2. IsSeq(q) /\ IsPrefix(p, q)
        BY <1>2 DEF Tree, CatalogInv
    <2> QED BY <1>2, <2>1, <2>2, MovedFacts DEF Allowed
<1>5. \A q \in DOMAIN C : q \in DOMAIN cat \/ q \in new
    BY DEF Renamed
<1> HIDE DEF C, new, admitted
<1> QED BY <1>1, <1>3, <1>4, <1>5, CallGrows, Looks, Steady DEF NoChange

LEMMA UpdatingGrows == ASSUME DataInv, NEW c \in Clients, Updating(c) PROVE Grows(c)
<1>1. ASSUME NEW name, NEW kinds, kinds \subseteq Kinds, NEW field, NEW value,
             Update(c, name, kinds, field, value)
      PROVE  Grows(c)
    <2> DEFINE f == Top(c)
               p == f.from
               kind == IF name = "permissions" THEN Look(p).kind ELSE f.seen[1].kind
               admitted == Is(p, kind) /\ kind \in Kinds
               C == With(p, [Look(p) EXCEPT ![field] = value])
    <2>1. Busy(c) /\ (Throw(c) \/ Call(c, admitted, C))
        BY <1>1 DEF Update, Ready, At, Call
    <2>2. admitted => p \in DOMAIN cat
        BY LookFacts DEF DataInv
    <2>3. admitted => DOMAIN C \subseteq DOMAIN cat
        BY <2>2 DEF With
    <2> HIDE DEF C, admitted
    <2> QED BY <2>1, <2>3, NoneGrows, Looks, Steady
<1>2. CASE DataObjectChecksum(c) \/ QueryChecksums(c)
    <2> DEFINE p == Top(c).from
               C == With(p, [Look(p) EXCEPT !.sum = 1])
    <2>1. \/ Throw(c) \/ UNCHANGED cat
          \/ Is(p, "data") /\ cat' = C
        BY <1>2 DEF DataObjectChecksum, QueryChecksums, NoChange
    <2>2. Is(p, "data") => p \in DOMAIN cat
        BY LookFacts DEF DataInv, Kinds
    <2>3. Is(p, "data") => DOMAIN C \subseteq DOMAIN cat
        BY <2>2 DEF With
    <2> HIDE DEF C
    <2> QED BY <2>1, <2>3, Looks, Steady, Shrinks
<1> QED BY <1>1, <1>2 DEF Updating, LastWriteTime, Permissions, SetMetadata, RemoveMetadata, Kinds

LEMMA StepGrows == ASSUME DataInv, NEW c \in Clients, Step(c) PROVE Grows(c)
<1>1. CASE Stat(c) \/ Walking(c)
    BY <1>1, WalkLeavesCatalog, Steady
<1> QED BY <1>1, CopyingGrows, CreatingGrows, RemovingGrows, RenameGrows, UpdatingGrows DEF Step

\* The catalog stays finite.
FiniteInv == IsFiniteSet(DOMAIN cat)

LEMMA NextGrows ==
    ASSUME DataInv, [Next]_vars
    PROVE  /\ FiniteInv => FiniteInv'
           /\ [KeepsData /\ KeepsLimit]_vars
<1>1. [KeepsData]_vars
    BY NextData
<1>2. CASE UNCHANGED vars
    BY <1>2 DEF FiniteInv, vars
<1>3. ASSUME NEW c \in Clients, Start(c) PROVE UNCHANGED cat
    BY <1>3 DEF Start, NoChange
<1>4. CASE UNCHANGED cat
    BY <1>1, <1>4 DEF FiniteInv, KeepsLimit
<1>5. ASSUME NEW c \in Clients, Step(c)
      PROVE  (FiniteInv => FiniteInv') /\ KeepsLimit
    <2>1. Grows(c)
        BY <1>5, StepGrows
    <2> QED BY <2>1 DEF Grows, Allowed, FiniteInv, KeepsLimit
<1> QED BY <1>1, <1>2, <1>3, <1>4, <1>5 DEF Next

\* Whatever the clients do, in whatever order: data is lost only to who was
\* asked for it, and no path becomes longer than the limit but in a rename.
THEOREM CatalogIsKept == Spec => CatalogKept
<1>1. DataInv /\ [Next]_vars => [KeepsData /\ KeepsLimit]_vars
    BY NextGrows
<1> QED BY <1>1, DataInvHolds, PTL DEF Spec, CatalogKept

-----------------------------------------------------------------------------
(* What remove_all counts *)

LikeData(C, p) == {q \in DOMAIN C : C[q].kind = "data" /\ Like(Parent(q), p)}
LikeColls(C, p) == {q \in DOMAIN C : C[q].kind = "coll" /\ Like(q, p)}

\* In the catalog B that it began with, a client has counted so far what is
\* in C, or has removed what is in B and not in C.
Counts(k, C, B) ==
    /\ k.frames # <<>> =>
         /\ C = B /\ k.frames[1].at \in {"count data", "count collections", "stat"}
         /\ k.frames[1].at = "count collections" =>
                k.count = Cardinality(LikeData(C, k.op.from))
         /\ k.frames[1].at = "stat" =>
                /\ k.count = Cardinality(LikeData(C, k.op.from))
                                + Cardinality(LikeColls(C, k.op.from))
                /\ k.count # 0
    /\ k.frames = <<>> /\ k.outcome = "true" => k.count >= Cardinality(DOMAIN B \ DOMAIN C)

Recursive(op) == op.name = "remove" /\ "recursive" \in op.options
CountsInv ==
    /\ FiniteInv
    /\ \A c \in Clients : Recursive(client[c].op) /\ before[c] # <<>> =>
            Counts(client[c], cat, before[c])

\* What is at or below a path is like it.
LEMMA LikeFacts ==
    ASSUME NEW p, IsSeq(p), NEW q, IsSeq(q), IsPrefix(p, q)
    PROVE  Like(q, p)
<1>1. CASE p = <<>>
    BY <1>1 DEF Like
<1>2. CASE p # <<>>
    <2> DEFINE n == Len(p) - 1
               s == SubSeq(p, 1, n)
               t == SubSeq(q, 1, n)
    <2>1. Len(p) \in Nat \ {0} /\ Len(p) <= Len(q) /\ \A i \in 1 .. Len(p) : p[i] = q[i]
        BY <1>2, PathLen, PrefixIs
    <2>2. n \in Nat /\ n <= Len(p) /\ n <= Len(q) /\ Len(q) \in Nat
        BY <2>1, PathLen
    <2>3. Parent(p) = s
        BY DEF Parent, Front
    <2> HIDE DEF n
    <2>4. IsSeq(s) /\ Len(s) = n /\ \A i \in 1 .. n : s[i] = p[i]
        BY <2>2, Begin
    <2>5. IsSeq(t) /\ Len(t) = n /\ \A i \in 1 .. n : t[i] = q[i]
        BY <2>2, Begin
    <2> HIDE DEF s, t
    <2>6. \A i \in 1 .. Len(t) : t[i] = s[i]
        BY <2>1, <2>2, <2>4, <2>5
    <2>7. t = s
        BY <2>4, <2>5, <2>6, SamePath
    <2>8. q[Len(p)] = p[Len(p)] /\ Len(q) >= Len(p)
        BY <2>1, <2>2
    <2> QED BY <2>3, <2>7, <2>8 DEF Like, n, t
<1> QED BY <1>1, <1>2

\* A collection and what is below it are all counted.
LEMMA TreeIsLike ==
    ASSUME NEW C, CatalogInv(C), NEW p \in DOMAIN C, C[p].kind = "coll"
    PROVE  Tree(C, p) \subseteq LikeData(C, p) \cup LikeColls(C, p)
<1> SUFFICES ASSUME NEW q \in Tree(C, p) PROVE q \in LikeData(C, p) \cup LikeColls(C, p)
    OBVIOUS
<1>1. q \in DOMAIN C /\ IsSeq(p) /\ IsSeq(q) /\ IsPrefix(p, q) /\ C[q].kind \in {"coll", "data"}
    BY DEF Tree, CatalogInv, IsObject, Kinds
<1>2. CASE C[q].kind = "coll"
    BY <1>1, <1>2, LikeFacts DEF LikeColls
<1>3. CASE C[q].kind = "data"
    <2>1. q # p
        BY <1>3
    <2>2. IsSeq(Parent(q)) /\ IsPrefix(p, Parent(q))
        <3>1. CASE p = <<>>
            <4>1. IsSeq(Parent(q)) /\ Len(Parent(q)) \in Nat
                BY <1>1, ParentFacts, PathLen
            <4> QED BY <1>1, <3>1, <4>1, PrefixIs, NoStack
        <3>2. CASE p # <<>>
            <4>1. Above(p, q)
                BY <1>1, <2>1, <3>2 DEF Above
            <4>2. IsSeq(Parent(q)) /\ (p = Parent(q) \/ Above(p, Parent(q)))
                BY <1>1, <4>1, ParentFacts
            <4> QED BY <1>1, <4>2, PrefixFacts DEF Above
        <3> QED BY <3>1, <3>2
    <2> QED BY <1>1, <1>3, <2>2, LikeFacts DEF LikeData
<1> QED BY <1>1, <1>2, <1>3

LEMMA LikeNumbers ==
    ASSUME FiniteInv, NEW p
    PROVE  /\ LikeDataObjects(p) = LikeData(cat, p) /\ LikeCollections(p) = LikeColls(cat, p)
           /\ IsFiniteSet(LikeData(cat, p)) /\ IsFiniteSet(LikeColls(cat, p))
           /\ Cardinality(LikeData(cat, p)) \in Nat /\ Cardinality(LikeColls(cat, p)) \in Nat
<1>1. LikeDataObjects(p) = LikeData(cat, p) /\ LikeCollections(p) = LikeColls(cat, p)
    BY DEF LikeDataObjects, LikeCollections, LikeData, LikeColls, Is, Look
<1>2. LikeData(cat, p) \in SUBSET DOMAIN cat /\ LikeColls(cat, p) \in SUBSET DOMAIN cat
    BY DEF LikeData, LikeColls
<1>3. IsFiniteSet(LikeData(cat, p)) /\ IsFiniteSet(LikeColls(cat, p))
    BY <1>2, FS_Subset DEF FiniteInv
<1> QED BY <1>1, <1>3, FS_CardinalityType

\* A remove that returns, and one that counts.
LEMMA Returned ==
    ASSUME TypesInv, NEW c \in Clients, Busy(c), Top(c).name = "remove", NEW value, Return(c, value)
    PROVE  /\ client'[c].op = client[c].op /\ client'[c].frames = <<>>
           /\ client'[c].count = client[c].count /\ client'[c].outcome = value
<1> DEFINE r == Front(client[c].frames) \o <<>>
           k == [client[c] EXCEPT !.frames = r]
           m == [k EXCEPT !.outcome = value]
<1>1. Front(client[c].frames) = <<>> /\ Len(client[c].frames) = 1
    BY AloneTop DEF TypesInv, DataInv
<1>2. r = <<>>
    BY <1>1, NoStack, Become3
<1>3. DOMAIN client = Clients /\ IsClient(client[c])
    BY DEF TypesInv, DataInv, Inv, ClientInv
<1>4. client' = [client EXCEPT ![c] = m]
    BY <1>1 DEF Return, Become
<1> HIDE DEF r
<1>5. /\ k.op = client[c].op /\ k.frames = <<>> /\ k.count = client[c].count /\ IsClient(k)
    BY <1>2, <1>3 DEF IsClient
<1> HIDE DEF k
<1>6. m.op = client[c].op /\ m.frames = <<>> /\ m.count = client[c].count /\ m.outcome = value
    BY <1>5 DEF IsClient
<1> HIDE DEF m
<1> QED BY <1>3, <1>4, <1>6

Tallies(c, step, count) ==
    client' = [client EXCEPT ![c] =
        [Become(c, <<[Top(c) EXCEPT !.at = step]>>) EXCEPT !.count = count]]
LEMMA Counted ==
    ASSUME TypesInv, NEW c \in Clients, Busy(c), Top(c).name = "remove", NEW step, NEW count,
           Tallies(c, step, count)
    PROVE  /\ client'[c].op = client[c].op /\ client'[c].frames # <<>>
           /\ client'[c].frames[1].at = step /\ client'[c].count = count
<1> DEFINE a == [Top(c) EXCEPT !.at = step]
           r == Front(client[c].frames) \o <<a>>
           k == [client[c] EXCEPT !.frames = r]
           m == [k EXCEPT !.count = count]
<1>1. Front(client[c].frames) = <<>>
    BY AloneTop DEF TypesInv, DataInv
<1>2. r = <<a>> /\ r # <<>> /\ r[1] = a
    BY <1>1, OneFrame
<1>3. DOMAIN client = Clients /\ IsClient(client[c])
    BY DEF TypesInv, DataInv, Inv, ClientInv
<1>4. client' = [client EXCEPT ![c] = m]
    BY DEF Tallies, Become
<1>5. a.at = step
    <2> DEFINE f == Top(c)
    <2>1. IsFrame(f)
        BY TopFacts DEF TypesInv, DataInv
    <2> HIDE DEF f
    <2> QED BY <2>1 DEF IsFrame, f
<1> HIDE DEF a, r
<1>6. k.op = client[c].op /\ k.frames = r /\ IsClient(k)
    BY <1>3 DEF IsClient
<1> HIDE DEF k
<1>7. m.op = client[c].op /\ m.frames = r /\ m.count = count
    BY <1>6 DEF IsClient
<1> HIDE DEF m
<1> QED BY <1>2, <1>3, <1>4, <1>5, <1>7

\* What a client that does not return true leaves.
LEMMA NotTrue ==
    ASSUME NEW k, k.frames = <<>>, k.outcome # "true", NEW C, NEW B
    PROVE  Counts(k, C, B)
BY DEF Counts

LEMMA ThrownCounts ==
    ASSUME TypesInv, NEW c \in Clients, NEW outcome, outcome # "true", Unwinds(c, outcome),
           NEW C, NEW B
    PROVE  Counts(client'[c], C, B)
<1>1. StopsWith(c, outcome)
    BY ThrownStops DEF TypesInv, DataInv
<1>2. client'[c].frames = <<>> /\ client'[c].outcome = outcome
    BY <1>1 DEF StopsWith, Stops, Leaves
<1> QED BY <1>2, NotTrue

\* A request that removes these paths.
LEMMA RemovesCounts ==
    ASSUME TypesInv, NEW c \in Clients, Busy(c), Top(c).name = "remove",
           NEW admitted, NEW paths, CallOrFalse(c, admitted, Without(paths)),
           client[c].count \in Nat,
           admitted => IsFiniteSet(paths) /\ Cardinality(paths) <= client[c].count
    PROVE  Counts(client'[c], cat', cat)
<1>1. CASE NoChange /\ Return(c, "false")
    BY <1>1, Returned, NotTrue
<1>2. CASE admitted /\ cat' = Without(paths) /\ Return(c, "true")
    <2>1. client'[c].frames = <<>> /\ client'[c].count = client[c].count
        BY <1>2, Returned
    <2>2. DOMAIN cat \ DOMAIN cat' \in SUBSET paths
        BY <1>2 DEF Without
    <2>3. IsFiniteSet(paths)
        BY <1>2
    <2>4. /\ Cardinality(DOMAIN cat \ DOMAIN cat') <= Cardinality(paths)
          /\ Cardinality(DOMAIN cat \ DOMAIN cat') \in Nat /\ Cardinality(paths) \in Nat
        BY <2>2, <2>3, FS_Subset, FS_CardinalityType
    <2>5. client'[c].count >= Cardinality(DOMAIN cat \ DOMAIN cat')
        BY <1>2, <2>1, <2>4
    <2> QED BY <2>1, <2>5 DEF Counts
<1> QED BY <1>1, <1>2 DEF CallOrFalse

\* What is known of a remove_all that takes a step.
Counting(c, B) ==
    /\ Busy(c) /\ Top(c).name = "remove" /\ "recursive" \in Top(c).options
    /\ Top(c).from = client[c].op.from /\ B = cat
    /\ Top(c).at \in {"count data", "count collections", "stat"}
    /\ Top(c).at = "count collections" =>
           client[c].count = Cardinality(LikeData(cat, Top(c).from))
    /\ Top(c).at = "stat" =>
           /\ client[c].count = Cardinality(LikeData(cat, Top(c).from))
                                  + Cardinality(LikeColls(cat, Top(c).from))
           /\ client[c].count # 0
LEMMA CountsNow ==
    ASSUME TypesInv, NEW c \in Clients, Recursive(client[c].op),
           NEW B, Counts(client[c], cat, B), Step(c)
    PROVE  Counting(c, B) /\ (Stat(c) \/ Removing(c))
<1>1. Busy(c) /\ (Top(c).name = "remove" => Stat(c) \/ Removing(c))
    BY StepTop
<1>2. client[c].op.name = "remove" /\ "recursive" \in client[c].op.options
    BY DEF Recursive
<1>3. client[c].op.name \in {"walk", "remove"}
    BY <1>2
<1>4. /\ Top(c).name = client[c].op.name /\ Top(c).from = client[c].op.from
      /\ Top(c).options = client[c].op.options /\ client[c].frames[1] = Top(c)
    BY <1>1, <1>3, OwnTop
<1> QED BY <1>1, <1>2, <1>4 DEF Counts, Busy, Counting

\* The steps of a remove_all.
LEMMA StatCounts ==
    ASSUME TypesInv, FiniteInv, NEW c \in Clients, NEW B, Counting(c, B), Stat(c)
    PROVE  Counts(client'[c], cat', B)
<1>1. Top(c).name \in {"walk", "remove"}
    BY DEF Counting
<1>2. Throw(c) \/ Crash(c) \/ (NoChange /\ Reads(c, client'[c]))
    BY <1>1, StatReads
<1>3. CASE Throw(c) \/ Crash(c)
    <2>1. PICK outcome \in {"thrown", "crashed"} : Unwinds(c, outcome)
        BY <1>3 DEF Throw, ThrowFrom, Unwind, Crash
    <2> DEFINE C == cat'
    <2> HIDE DEF C
    <2>2. Counts(client'[c], C, B)
        BY <2>1, ThrownCounts
    <2> QED BY <2>2 DEF C
<1>4. CASE NoChange /\ Reads(c, client'[c])
    <2> DEFINE k == client'[c]
    <2>1. PICK g : k.frames = <<g>> /\ g.at = Top(c).at
        BY <1>4 DEF Reads
    <2>2. k.frames[1] = g /\ k.frames # <<>>
        BY <2>1, OneFrame
    <2>3. k.op = client[c].op /\ k.count = client[c].count /\ cat' = cat
        BY <1>4 DEF Reads, NoChange
    <2>4. B = cat /\ Top(c).at = "stat" /\ Top(c).from = client[c].op.from
        BY DEF Counting, Stat
    <2>5. /\ client[c].count = Cardinality(LikeData(cat, client[c].op.from))
                                  + Cardinality(LikeColls(cat, client[c].op.from))
          /\ client[c].count # 0
        BY <2>4 DEF Counting
    <2> HIDE DEF k
    <2>6. Counts(k, cat, cat)
        BY <2>1, <2>2, <2>3, <2>4, <2>5 DEF Counts
    <2> QED BY <2>3, <2>4, <2>6 DEF k
<1> QED BY <1>2, <1>3, <1>4

LEMMA CountDataCounts ==
    ASSUME TypesInv, FiniteInv, NEW c \in Clients, NEW B, Counting(c, B), CountDataObjects(c)
    PROVE  Counts(client'[c], cat', B)
<1> DEFINE p == Top(c).from
           count == Cardinality(LikeDataObjects(p))
           step == "count collections"
<1>1. Busy(c) /\ Top(c).name = "remove" /\ p = client[c].op.from /\ B = cat
    BY DEF Counting
<1>2. \/ Throw(c)
      \/ /\ NoChange /\ Tallies(c, step, count)
    BY DEF CountDataObjects, Tallies
<1>3. CASE Throw(c)
    <2>1. Unwinds(c, "thrown")
        BY <1>3 DEF Throw, ThrowFrom, Unwind
    <2> DEFINE C == cat'
    <2> HIDE DEF C
    <2>2. Counts(client'[c], C, B)
        BY <2>1, ThrownCounts
    <2> QED BY <2>2 DEF C
<1>4. CASE NoChange /\ Tallies(c, step, count)
    <2>1. count = Cardinality(LikeData(cat, p))
        BY LikeNumbers
    <2> HIDE DEF p, count, step
    <2>2. /\ client'[c].op = client[c].op /\ client'[c].frames # <<>>
          /\ client'[c].frames[1].at = step /\ client'[c].count = count
        BY <1>1, <1>4, Counted
    <2>3. Counts(client'[c], cat, cat)
        BY <1>1, <2>1, <2>2 DEF Counts, step
    <2> QED BY <1>1, <1>4, <2>3 DEF NoChange
<1> QED BY <1>2, <1>3, <1>4

LEMMA CountCollectionsCounts ==
    ASSUME TypesInv, FiniteInv, NEW c \in Clients, NEW B, Counting(c, B), CountCollections(c)
    PROVE  Counts(client'[c], cat', B)
<1> DEFINE p == Top(c).from
           count == client[c].count + Cardinality(LikeCollections(p))
           step == "stat"
<1>1. /\ Busy(c) /\ Top(c).name = "remove" /\ p = client[c].op.from /\ B = cat
      /\ client[c].count = Cardinality(LikeData(cat, p))
    BY DEF Counting, CountCollections, At
<1>2. \/ Throw(c)
      \/ NoChange /\ Return(c, "false")
      \/ /\ NoChange /\ count # 0 /\ Tallies(c, step, count)
    BY DEF CountCollections, Tallies
<1>3. CASE Throw(c)
    <2>1. Unwinds(c, "thrown")
        BY <1>3 DEF Throw, ThrowFrom, Unwind
    <2> DEFINE C == cat'
    <2> HIDE DEF C
    <2>2. Counts(client'[c], C, B)
        BY <2>1, ThrownCounts
    <2> QED BY <2>2 DEF C
<1>4. CASE NoChange /\ Return(c, "false")
    <2>1. Counts(client'[c], cat, B)
        BY <1>1, <1>4, Returned, NotTrue
    <2> QED BY <1>4, <2>1 DEF NoChange
<1>5. CASE /\ NoChange /\ count # 0 /\ Tallies(c, step, count)
    <2>1. count = Cardinality(LikeData(cat, p)) + Cardinality(LikeColls(cat, p))
        BY <1>1, LikeNumbers
    <2> HIDE DEF p, count, step
    <2>2. /\ client'[c].op = client[c].op /\ client'[c].frames # <<>>
          /\ client'[c].frames[1].at = step /\ client'[c].count = count
        BY <1>1, <1>5, Counted
    <2>3. Counts(client'[c], cat, cat)
        BY <1>1, <1>5, <2>1, <2>2 DEF Counts, step
    <2> QED BY <1>1, <1>5, <2>3 DEF NoChange
<1> QED BY <1>2, <1>3, <1>4, <1>5

LEMMA RemoveEndsCounts ==
    ASSUME TypesInv, FiniteInv, NEW c \in Clients, NEW B, Counting(c, B), RemoveEnds(c)
    PROVE  Counts(client'[c], cat', B)
<1>1. CASE Throw(c)
    <2>1. Unwinds(c, "thrown")
        BY <1>1 DEF Throw, ThrowFrom, Unwind
    <2> DEFINE C == cat'
    <2> HIDE DEF C
    <2>2. Counts(client'[c], C, B)
        BY <2>1, ThrownCounts
    <2> QED BY <2>2 DEF C
<1>2. CASE NoChange /\ Return(c, "false")
    <2>1. Busy(c) /\ Top(c).name = "remove"
        BY DEF Counting
    <2>2. Counts(client'[c], cat, B)
        BY <1>2, <2>1, Returned, NotTrue
    <2> QED BY <1>2, <2>2 DEF NoChange
<1> QED BY <1>1, <1>2 DEF RemoveEnds

\* It removes no more than it has counted.
LEMMA RemovalCounts ==
    ASSUME TypesInv, FiniteInv, NEW c \in Clients, NEW B, Counting(c, B),
           RemoveDataObject(c) \/ RemoveProbe(c) \/ RemoveCollection(c)
    PROVE  Counts(client'[c], cat', B)
<1> DEFINE p == Top(c).from
           count == client[c].count
           tree == Tree(cat, p)
           datas == LikeData(cat, p)
           colls == LikeColls(cat, p)
<1>1. /\ Busy(c) /\ Top(c).name = "remove" /\ "recursive" \in Top(c).options /\ B = cat
      /\ Top(c).at # "empty"
      /\ Top(c).at = "stat" => count = Cardinality(datas) + Cardinality(colls) /\ count # 0
    BY DEF Counting
<1>2. /\ IsFiniteSet(datas) /\ IsFiniteSet(colls)
      /\ Cardinality(datas) \in Nat /\ Cardinality(colls) \in Nat
    BY LikeNumbers
<1>3. ~RemoveProbe(c)
    BY <1>1 DEF RemoveProbe
<1>4. CASE RemoveDataObject(c)
    <2> DEFINE paths == {p}
               admitted == Is(p, "data")
    <2>1. CallOrFalse(c, admitted, Without(paths)) /\ Top(c).at = "stat"
        BY <1>4 DEF RemoveDataObject, Ready, At
    <2>2. count \in Nat /\ count >= 1
        BY <1>1, <1>2, <2>1
    <2>3. IsFiniteSet(paths) /\ Cardinality(paths) = 1
        BY FS_Singleton
    <2>4. Cardinality(paths) <= count
        BY <2>2, <2>3
    <2> HIDE DEF paths, admitted
    <2>5. Counts(client'[c], cat', cat)
        BY <1>1, <2>1, <2>2, <2>3, <2>4, RemovesCounts
    <2> QED BY <1>1, <2>5
<1>5. CASE RemoveCollection(c)
    <2> DEFINE admitted == Is(p, "coll") /\ ("recursive" \in Top(c).options \/ Children(cat, p) = {})
    <2>1. CallOrFalse(c, admitted, Without(tree)) /\ Top(c).at = "stat"
        BY <1>1, <1>5 DEF RemoveCollection, Ready, At
    <2>2. count \in Nat /\ count = Cardinality(datas) + Cardinality(colls)
        BY <1>1, <1>2, <2>1
    <2>3. ASSUME admitted PROVE IsFiniteSet(tree) /\ Cardinality(tree) <= count
        <3>1. CatalogInv(cat) /\ "coll" \in Kinds
            BY DEF TypesInv, DataInv, Kinds
        <3>2. p \in DOMAIN cat /\ cat[p].kind = "coll"
            BY <2>3, <3>1, LookFacts
        <3>3. tree \in SUBSET (datas \cup colls)
            BY <3>1, <3>2, TreeIsLike
        <3> HIDE DEF tree, datas, colls
        <3>4. /\ IsFiniteSet(datas \cup colls) /\ IsFiniteSet(datas \cap colls)
              /\ Cardinality(datas \cup colls)
                   = Cardinality(datas) + Cardinality(colls) - Cardinality(datas \cap colls)
            <4>1. datas \cap colls \in SUBSET datas
                OBVIOUS
            <4> QED BY <1>2, <4>1, FS_Union, FS_Subset
        <3>5. Cardinality(datas \cap colls) \in Nat
            BY <3>4, FS_CardinalityType
        <3>6. IsFiniteSet(tree) /\ Cardinality(tree) <= Cardinality(datas \cup colls)
            BY <3>3, <3>4, FS_Subset
        <3>7. Cardinality(tree) \in Nat
            BY <3>6, FS_CardinalityType
        <3> QED BY <1>2, <2>2, <3>4, <3>5, <3>6, <3>7
    <2> HIDE DEF tree, admitted
    <2>4. Counts(client'[c], cat', cat)
        BY <1>1, <2>1, <2>2, <2>3, RemovesCounts
    <2> QED BY <1>1, <2>4
<1> QED BY <1>3, <1>4, <1>5

LEMMA StepCounts ==
    ASSUME TypesInv, FiniteInv, NEW c \in Clients, Recursive(client[c].op),
           NEW B, Counts(client[c], cat, B), Step(c)
    PROVE  Counts(client'[c], cat', B)
<1>1. Counting(c, B) /\ (Stat(c) \/ Removing(c))
    BY CountsNow
<1> QED BY <1>1, StatCounts, CountDataCounts, CountCollectionsCounts, RemoveEndsCounts,
           RemovalCounts DEF Removing

\* A remove_all that begins.
LEMMA BeginsCounts ==
    ASSUME NEW c, NEW k, Begins(c, k), Recursive(k.op), NEW C
    PROVE  Counts(k, C, C)
<1> DEFINE f == k.op
           r == <<f>>
<1>1. f \in Requests /\ k.frames = r /\ r[1] = f /\ r # <<>>
    BY OneFrame DEF Begins
<1> HIDE DEF r
<1>2. f.at = "count data"
    BY <1>1 DEF Requests, Recursive
<1> QED BY <1>1, <1>2 DEF Counts

LEMMA InitCounts == ASSUME Init PROVE CountsInv
<1>1. IsCatalog(cat)
    BY CatalogAssumption DEF Init
<1> QED BY <1>1 DEF Init, IsCatalog, CountsInv, FiniteInv

LEMMA NextCounts ==
    ASSUME TypesInv, DOMAIN before = Clients, CountsInv, [Next]_vars
    PROVE  CountsInv'
<1>1. FiniteInv'
    BY NextGrows DEF TypesInv, CountsInv
<1>2. CASE UNCHANGED vars
    BY <1>1, <1>2 DEF CountsInv, vars
<1>3. ASSUME NEW d \in Clients, Step(d) PROVE CountsInv'
    <2>1. Acts(d) /\ before' = [e \in Clients |-> IF e # d /\ cat' # cat THEN <<>> ELSE before[e]]
        BY <1>3, StepActs DEF Step
    <2>2. ASSUME NEW c \in Clients, Recursive(client'[c].op), before'[c] # <<>>
          PROVE  Counts(client'[c], cat', before'[c])
        <3>1. before'[c] = before[c] /\ client'[c].op = client[c].op
            BY <2>1, <2>2 DEF Acts
        <3>2. Counts(client[c], cat, before[c]) /\ FiniteInv /\ Recursive(client[c].op)
            BY <2>2, <3>1 DEF CountsInv
        <3>3. CASE c = d
            <4> DEFINE B == before[c]
            <4> HIDE DEF B
            <4>1. Counts(client'[c], cat', B)
                BY <1>3, <3>2, <3>3, StepCounts DEF B
            <4> QED BY <3>1, <4>1 DEF B
        <3>4. CASE c # d
            <4>1. cat' = cat /\ client'[c] = client[c]
                BY <2>1, <2>2, <3>4 DEF Acts
            <4> QED BY <3>1, <3>2, <4>1
        <3> QED BY <3>3, <3>4
    <2> QED BY <1>1, <2>2 DEF CountsInv
<1>4. ASSUME NEW d \in Clients, Start(d) PROVE CountsInv'
    <2> DEFINE k == client'[d]
    <2>1. Begins(d, k)
        BY <1>4, StartBegins DEF TypesInv, DataInv
    <2>2. /\ UNCHANGED <<cat, handles>> /\ before' = [before EXCEPT ![d] = cat]
          /\ \A c \in Clients \ {d} : client'[c] = client[c]
        BY <2>1 DEF Begins
    <2>3. Recursive(k.op) => Counts(k, cat, cat)
        BY <2>1, BeginsCounts
    <2>4. ASSUME NEW c \in Clients, Recursive(client'[c].op), before'[c] # <<>>
          PROVE  Counts(client'[c], cat', before'[c])
        <3>1. CASE c = d
            BY <2>2, <2>3, <2>4, <3>1
        <3>2. CASE c # d
            BY <2>2, <2>4, <3>2 DEF CountsInv
        <3> QED BY <3>1, <3>2
    <2> QED BY <1>1, <2>4 DEF CountsInv
<1> QED BY <1>2, <1>3, <1>4 DEF Next

\* In a catalog that nobody else changes, a remove_all that returns true has
\* counted at least what it removed: the collection, and whatever is below
\* it, is like the path it began with.
THEOREM RemoveAllIsCounted == Spec => []RemoveAllCounts
<1>1. Init => TypesInv /\ WalksInv /\ CountsInv
    BY InitTypes, InitWalks, InitCounts
<1>2. TypesInv /\ WalksInv /\ CountsInv /\ [Next]_vars => TypesInv' /\ WalksInv' /\ CountsInv'
    BY NextTypes, NextWalks, NextCounts DEF WalksInv
<1>3. TypesInv /\ CountsInv => RemoveAllCounts
    <2> SUFFICES ASSUME TypesInv, CountsInv, NEW c \in Clients, Quietly(c, "remove", "true"),
                        "recursive" \in client[c].op.options
                 PROVE  client[c].count >= Cardinality(DOMAIN before[c] \ DOMAIN cat)
        BY DEF RemoveAllCounts
    <2>1. client[c].outcome = "true" /\ Counts(client[c], cat, before[c])
        BY DEF Quietly, CountsInv, Recursive
    <2>2. client[c].frames = <<>>
        BY <2>1 DEF TypesInv, StateOK
    <2> QED BY <2>1, <2>2 DEF Counts
<1> QED BY <1>1, <1>2, <1>3, PTL DEF Spec

-----------------------------------------------------------------------------
(* The image of a copy *)

(* A collection is copied to a path that is neither above nor below it.    *)
Copies(op, B) ==
    /\ op.name = "copy" /\ B # <<>>
    /\ op.from \in DOMAIN B /\ B[op.from].kind = "coll"
    /\ ~IsPrefix(op.from, op.to) /\ ~IsPrefix(op.to, op.from)

(* The copy of q has been made. All that is in C and was not in B is one.  *)
Made(B, op, C, q) ==
    LET p == Landing(B, op, q)
    IN  p \in DOMAIN C /\ C[p].kind = B[q].kind /\ (C[p].kind = "data" => C[p].data = B[q].data)
Grown(B, op, C) ==
    /\ \A p \in DOMAIN B : p \in DOMAIN C /\ C[p] = B[p]
    /\ \A p \in DOMAIN C \ DOMAIN B :
         \E q \in Image(B, op) : p = Landing(B, op, q) /\ C[p].kind = B[q].kind

(* What a frame of copy is for: a path of the source, and where it goes.   *)
Placed(B, op, g) ==
    /\ g.from \in Tree(B, op.from) /\ g.to = Moved(g.from, op.from, op.to)
    /\ IF g.from = op.from THEN g.options = op.options
       ELSE /\ g.options = op.options \cup {"in_recursive_copy"}
            /\ "recursive" \in op.options \/ (op.options = {} /\ Parent(g.from) = op.from)

(* A frame that waits for another one, or has been waiting: its loop has   *)
(* still to read entries of its collection. What it is for is nothing that *)
(* the catalog may change.                                                 *)
Waits(B, op, H, g) ==
    \/ /\ g.name = "copy" /\ g.at \in {"open", "next"} /\ Placed(B, op, g)
       /\ "recursive" \in op.options \/ (op.options = {} /\ g.from = op.from)
       /\ g.at = "next" => H[g.handle].left \subseteq EntriesOf(B, g.from)
    \/ g.name = "create_collection_like" /\ g.at = "permissions" /\ g.from \notin DOMAIN B

(* A frame that begins: what it has seen is still so.                      *)
IsAt(C, p, o) == o = IF p \in DOMAIN C THEN C[p] ELSE Nothing
Starts(B, op, C, g) ==
    /\ g.at = "stat" /\ IsSeq(g.seen)
    /\ \/ /\ g.name = "copy" /\ Placed(B, op, g)
          /\ Len(g.seen) >= 1 => g.seen[1] = B[g.from]
          /\ Len(g.seen) >= 2 => IsAt(C, g.to, g.seen[2])
       \/ /\ g.name = "copy_data_object" /\ g.from \in Image(B, op) /\ B[g.from].kind = "data"
          /\ g.to = Landing(B, op, g.from) /\ "in_recursive_copy" \in g.options
       \/ /\ g.name \in {"create_collection_like", "create_collection"} /\ g.from \notin DOMAIN C
          /\ \E q \in Image(B, op) : B[q].kind = "coll" /\ g.from = Moved(q, op.from, op.to)
          /\ g.name = "create_collection" /\ Len(g.seen) >= 2 => ~Found(g.seen[2])

CopyStack(B, op, C, H, s) ==
    \A i \in 1 .. Len(s) : Waits(B, op, H, s[i]) \/ (i = Len(s) /\ Starts(B, op, C, s[i]))

(* What is still to be copied, by one of the frames.                       *)
Owes(B, H, op, g, q) ==
    \/ g.name = "copy" /\ g.at = "stat" /\ q \in Tree(B, g.from)
    \/ g.name = "copy" /\ g.at = "open" /\ q \in Below(B, g.from)
    \/ g.name = "copy" /\ g.at = "next" /\ q \in Under(B, H[g.handle].left)
    \/ g.name = "copy_data_object" /\ q = g.from
    \/ /\ g.name \in {"create_collection_like", "create_collection"} /\ g.at = "stat"
       /\ Moved(q, op.from, op.to) = g.from
Owed(B, H, op, s, q) == \E i \in 1 .. Len(s) : Owes(B, H, op, s[i], q)

Imaging(k, C, B, H) ==
    /\ IsSeq(k.op.to) /\ CatalogInv(B) /\ Grown(B, k.op, C)
    /\ k.frames # <<>> \/ k.outcome = "true" =>
         /\ CopyStack(B, k.op, C, H, k.frames)
         /\ \A q \in Image(B, k.op) : Made(B, k.op, C, q) \/ Owed(B, H, k.op, k.frames, q)

ImagesInv ==
    \A c \in Clients : Copies(client[c].op, before[c]) =>
        Imaging(client[c], cat, before[c], handles)

\* A path and one more name.
LEMMA AppendFacts ==
    ASSUME NEW p, IsSeq(p), NEW a
    PROVE  /\ IsSeq(Append(p, a)) /\ Len(p) \in Nat /\ Len(Append(p, a)) = Len(p) + 1
           /\ \A i \in 1 .. Len(p) : Append(p, a)[i] = p[i]
           /\ Append(p, a)[Len(p) + 1] = a /\ IsPrefix(p, Append(p, a)) /\ Append(p, a) # <<>>
<1> DEFINE S == ToSet(p)
           T == S \cup {a}
           t == Append(p, a)
<1>1. p \in Seq(S)
    BY DEF IsSeq
<1> HIDE DEF S
<1>2. p \in Seq(T) /\ a \in T /\ Len(p) \in Nat
    BY <1>1, LenProperties, SeqDef
<1> HIDE DEF T
<1>3. Len(t) = Len(p) + 1 /\ (\A i \in 1 .. Len(p) : t[i] = p[i]) /\ t[Len(p) + 1] = a
    BY <1>2, AppendProperties
<1>4. IsSeq(t)
    BY Appended
<1> HIDE DEF t
<1>5. IsPrefix(p, t)
    BY <1>2, <1>3, <1>4, PrefixIs
<1>6. t # <<>>
    BY <1>2, <1>3, <1>4, PathLen
<1> QED BY <1>2, <1>3, <1>4, <1>5, <1>6 DEF t

\* Two paths below one go to two paths below another one.
LEMMA MovedApart ==
    ASSUME NEW p, IsSeq(p), NEW r, IsSeq(r), NEW x, IsSeq(x), NEW y, IsSeq(y),
           IsPrefix(p, x), IsPrefix(p, y), Moved(x, p, r) = Moved(y, p, r)
    PROVE  x = y
<1>1. Moved(Moved(x, p, r), r, p) = x
    BY MovedFacts
<1>2. Moved(Moved(y, p, r), r, p) = y
    BY MovedFacts
<1> QED BY <1>1, <1>2

\* The path itself goes to the other one.
LEMMA MovedSelf ==
    ASSUME NEW p, IsSeq(p), NEW r, IsSeq(r)
    PROVE  Moved(p, p, r) = r
<1> DEFINE m == Moved(p, p, r)
<1>1. IsPrefix(p, p)
    BY PrefixFacts
<1>2. MovesTo(p, p, r, m)
    BY <1>1, MovedNames
<1> HIDE DEF m
<1>3. Len(p) \in Nat /\ Len(r) \in Nat
    BY PathLen
<1>4. IsSeq(m) /\ Len(m) = Len(r) /\ \A i \in 1 .. Len(m) : m[i] = r[i]
    BY <1>2, <1>3 DEF MovesTo
<1>5. m = r
    BY <1>4, SamePath
<1> QED BY <1>5 DEF m

\* An entry of x goes where x goes, with its own name.
LEMMA MovedChild ==
    ASSUME NEW p, IsSeq(p), NEW r, IsSeq(r), NEW x, IsSeq(x), NEW q, IsSeq(q),
           IsPrefix(p, x), IsPrefix(x, q), Len(q) = Len(x) + 1
    PROVE  Append(Moved(x, p, r), Last(q)) = Moved(q, p, r)
<1> DEFINE a == Last(q)
           y == Moved(x, p, r)
           m == Moved(q, p, r)
           t == Append(y, a)
<1>1. Len(p) \in Nat /\ Len(r) \in Nat /\ Len(x) \in Nat /\ Len(p) <= Len(x) /\ Len(q) \in Nat
    BY PathLen, PrefixFacts
<1>2. IsPrefix(p, q)
    BY PrefixFacts
<1>3. MovesTo(x, p, r, y)
    BY MovedNames
<1>4. MovesTo(q, p, r, m)
    BY <1>2, MovedNames
<1>5. \A i \in 1 .. Len(x) : x[i] = q[i]
    BY PrefixIs
<1>6. a = q[Len(q)]
    BY DEF Last
<1> HIDE DEF y, m, a
<1>7. IsSeq(y) /\ IsSeq(m) /\ Len(y) = Len(r) + Len(x) - Len(p) /\ Len(m) = Len(y) + 1
    BY <1>1, <1>3, <1>4 DEF MovesTo
<1>8. /\ IsSeq(t) /\ Len(t) = Len(y) + 1 /\ t[Len(y) + 1] = a
      /\ \A i \in 1 .. Len(y) : t[i] = y[i]
    BY <1>7, AppendFacts
<1> HIDE DEF t
<1>9. ASSUME NEW i \in 1 .. Len(t) PROVE t[i] = m[i]
    <2>1. CASE i <= Len(r)
        BY <1>1, <1>3, <1>4, <1>7, <1>8, <2>1 DEF MovesTo
    <2>2. CASE ~(i <= Len(r)) /\ i <= Len(y)
        <3> DEFINE j == i - Len(r) + Len(p)
        <3>1. /\ j \in 1 .. Len(x) /\ i \in 1 .. Len(y)
              /\ i \in Len(r) + 1 .. Len(r) + Len(x) - Len(p)
              /\ i \in Len(r) + 1 .. Len(r) + Len(q) - Len(p)
            BY <1>1, <1>7, <2>2
        <3>2. y[i] = x[j] /\ m[i] = q[j]
            BY <1>3, <1>4, <3>1 DEF MovesTo
        <3> HIDE DEF j
        <3> QED BY <1>5, <1>8, <3>1, <3>2
    <2>3. CASE ~(i <= Len(y))
        <3>1. /\ i = Len(y) + 1 /\ i - Len(r) + Len(p) = Len(q)
              /\ i \in Len(r) + 1 .. Len(r) + Len(q) - Len(p)
            BY <1>1, <1>7, <1>8, <2>3
        <3>2. m[i] = q[i - Len(r) + Len(p)]
            BY <1>4, <3>1 DEF MovesTo
        <3> QED BY <1>6, <1>8, <3>1, <3>2
    <2> QED BY <2>1, <2>2, <2>3
<1>10. t = m
    BY <1>7, <1>8, <1>9, SamePath
<1> QED BY <1>10 DEF t, m, a, y

\* The source of a copy, in the catalog that it began with.
Source(B, op) == CatalogInv(B) /\ IsSeq(op.to) /\ Copies(op, B)
LEMMA SourceFacts ==
    ASSUME NEW B, NEW op, Source(B, op)
    PROVE  /\ IsSeq(op.from) /\ op.from \in Tree(B, op.from)
           /\ \A x \in Tree(B, op.from) :
                /\ x \in DOMAIN B /\ IsSeq(x) /\ IsPrefix(op.from, x) /\ B[x].kind \in Kinds
                /\ IsSeq(Moved(x, op.from, op.to)) /\ IsPrefix(op.to, Moved(x, op.from, op.to))
           /\ Image(B, op) \subseteq Tree(B, op.from)
<1> DEFINE p == op.from
           r == op.to
<1>1. CatalogInv(B) /\ IsSeq(r) /\ p \in DOMAIN B
    BY DEF Source, Copies
<1>2. IsSeq(p) /\ Image(B, op) \subseteq Tree(B, p)
    BY <1>1 DEF CatalogInv, Image
<1> HIDE DEF p, r
<1>3. p \in Tree(B, p)
    BY <1>1, <1>2, PrefixFacts DEF Tree
<1>4. ASSUME NEW x \in Tree(B, p)
      PROVE  /\ x \in DOMAIN B /\ IsSeq(x) /\ IsPrefix(p, x) /\ B[x].kind \in Kinds
             /\ IsSeq(Moved(x, p, r)) /\ IsPrefix(r, Moved(x, p, r))
    <2>1. x \in DOMAIN B /\ IsPrefix(p, x)
        BY DEF Tree
    <2>2. IsSeq(x) /\ B[x].kind \in Kinds
        BY <1>1, <2>1 DEF CatalogInv, IsObject
    <2> QED BY <1>1, <1>2, <2>1, <2>2, MovedFacts
<1> QED BY <1>2, <1>3, <1>4 DEF p, r

\* What a copy makes is below its target, and so not in its source.
LEMMA LandingFacts ==
    ASSUME NEW B, NEW op, Source(B, op), NEW q \in Tree(B, op.from)
    PROVE  /\ IsPrefix(op.to, Landing(B, op, q)) /\ IsSeq(Landing(B, op, q))
           /\ ~IsPrefix(op.from, Landing(B, op, q))
           /\ B[q].kind = "coll" => Landing(B, op, q) = Moved(q, op.from, op.to)
<1> DEFINE p == op.from
           r == op.to
           m == Moved(q, p, r)
           a == Last(q)
           t == Append(m, a)
<1>1. IsSeq(p) /\ IsSeq(r) /\ IsSeq(m) /\ IsPrefix(r, m) /\ ~IsPrefix(p, r) /\ ~IsPrefix(r, p)
    BY SourceFacts DEF Source, Copies
<1>2. Landing(B, op, q) \in {m, t} /\ (B[q].kind = "coll" => Landing(B, op, q) = m)
    BY DEF Landing
<1> DEFINE n == Landing(B, op, q)
<1> HIDE DEF m, a
<1>3. IsSeq(t) /\ IsPrefix(m, t)
    BY <1>1, AppendFacts
<1> HIDE DEF t, n, p, r
<1>4. IsPrefix(r, t)
    BY <1>1, <1>3, PrefixFacts
<1>5. IsSeq(n) /\ IsPrefix(r, n)
    BY <1>1, <1>2, <1>3, <1>4 DEF n
<1>6. ~IsPrefix(p, n)
    BY <1>1, <1>5, PrefixFacts
<1> QED BY <1>2, <1>5, <1>6 DEF n, p, r, m

\* The source stays as it was.
LEMMA SourceStays ==
    ASSUME NEW B, NEW op, Source(B, op), NEW C, Grown(B, op, C), NEW x \in Tree(B, op.from)
    PROVE  x \in DOMAIN C /\ C[x] = B[x] /\ EntriesOf(C, x) = EntriesOf(B, x)
<1> DEFINE p == op.from
<1>1. IsSeq(p) /\ IsSeq(x) /\ IsPrefix(p, x) /\ x \in DOMAIN B
    BY SourceFacts
<1>2. \A y \in DOMAIN B : y \in DOMAIN C /\ C[y] = B[y] /\ IsSeq(y)
    BY DEF Grown, Source, CatalogInv
<1>3. ASSUME NEW y \in DOMAIN C, IsPrefix(x, y) PROVE y \in DOMAIN B
    <2>1. SUFFICES ASSUME y \notin DOMAIN B PROVE FALSE
        OBVIOUS
    <2>2. PICK q \in Image(B, op) : y = Landing(B, op, q)
        BY <2>1 DEF Grown
    <2>3. q \in Tree(B, p)
        BY SourceFacts
    <2>4. IsSeq(y) /\ ~IsPrefix(p, y)
        BY <2>2, <2>3, LandingFacts
    <2> QED BY <1>1, <1>3, <2>4, PrefixFacts
<1>4. Children(C, x) = Children(B, x)
    BY <1>2, <1>3 DEF Children, Below, Tree
<1>5. \A y \in Children(B, x) : EntryOf(C, y) = EntryOf(B, y)
    BY <1>2 DEF EntryOf, Children, Below, Tree
<1> HIDE DEF EntryOf
<1>6. EntriesOf(C, x) = EntriesOf(B, x)
    BY <1>4, <1>5 DEF EntriesOf
<1> QED BY <1>1, <1>2, <1>6

\* Where a data object goes is decided by what is there when it is copied.
LEMMA LandingNow ==
    ASSUME NEW B, NEW op, Source(B, op), NEW C, Grown(B, op, C), NEW x \in Tree(B, op.from),
           B[x].kind = "data", NEW m, m = Moved(x, op.from, op.to)
    PROVE  Landing(B, op, x) = IF m \in DOMAIN C /\ C[m].kind = "coll" THEN Append(m, Last(x)) ELSE m
<1>1. m \in DOMAIN B => m \in DOMAIN C /\ C[m] = B[m]
    BY DEF Grown
<1>2. ASSUME m \in DOMAIN C, C[m].kind = "coll", m \notin DOMAIN B PROVE FALSE
    <2>1. PICK q \in Image(B, op) : m = Landing(B, op, q) /\ C[m].kind = B[q].kind
        BY <1>2 DEF Grown
    <2>2. q \in Tree(B, op.from) /\ B[q].kind = "coll"
        BY <1>2, <2>1, SourceFacts
    <2>3. m = Moved(q, op.from, op.to)
        BY <2>1, <2>2, LandingFacts
    <2> DEFINE p == op.from
               r == op.to
    <2>4. IsSeq(p) /\ IsSeq(r) /\ IsSeq(x) /\ IsSeq(q) /\ IsPrefix(p, x) /\ IsPrefix(p, q)
        BY <2>2, SourceFacts DEF Source
    <2>5. Moved(x, p, r) = Moved(q, p, r)
        BY <2>3
    <2> HIDE DEF p, r
    <2>6. x = q
        BY <2>4, <2>5, MovedApart
    <2> QED BY <2>2, <2>6
<1> QED BY <1>1, <1>2 DEF Landing

-----------------------------------------------------------------------------
(* The stack of a copy *)

Behind(B, op, H, s) == \A i \in 1 .. Len(s) : Waits(B, op, H, s[i])
Fits(B, op, C, H, g) == Waits(B, op, H, g) \/ Starts(B, op, C, g)

\* The top of the stack, and those that wait for it.
LEMMA StackSplits ==
    ASSUME NEW s, FramesInv(s), s # <<>>, NEW B, NEW op, NEW C, NEW H, CopyStack(B, op, C, H, s)
    PROVE  /\ Behind(B, op, H, Front(s)) /\ Fits(B, op, C, H, s[Len(s)])
           /\ \A q : Owed(B, H, op, s, q) =>
                Owed(B, H, op, Front(s), q) \/ Owes(B, H, op, s[Len(s)], q)
<1> DEFINE r == Front(s)
<1>1. Len(r) = Len(s) - 1 /\ Len(s) \in Nat \ {0} /\ \A i \in 1 .. Len(s) - 1 : r[i] = s[i]
    BY FramePopped
<1> HIDE DEF r
<1>2. Behind(B, op, H, r)
    BY <1>1 DEF Behind, CopyStack
<1>3. Fits(B, op, C, H, s[Len(s)])
    <2>1. Len(s) \in 1 .. Len(s)
        BY <1>1
    <2> QED BY <2>1 DEF CopyStack, Fits
<1>4. ASSUME NEW q, Owed(B, H, op, s, q)
      PROVE  Owed(B, H, op, r, q) \/ Owes(B, H, op, s[Len(s)], q)
    <2>1. PICK i \in 1 .. Len(s) : Owes(B, H, op, s[i], q)
        BY <1>4 DEF Owed
    <2>2. CASE i = Len(s)
        BY <2>1, <2>2
    <2>3. CASE i # Len(s)
        <3>1. i \in 1 .. Len(r) /\ r[i] = s[i]
            BY <1>1, <2>3
        <3> QED BY <2>1, <3>1 DEF Owed
    <2> QED BY <2>2, <2>3
<1> QED BY <1>2, <1>3, <1>4 DEF r

\* The frames that waited, with a frame in front of them or without.
LEMMA StackReturns ==
    ASSUME NEW r, IsSeq(r), NEW B, NEW op, NEW C, NEW H, Behind(B, op, H, r)
    PROVE  CopyStack(B, op, C, H, r)
BY DEF Behind, CopyStack

LEMMA StackGoesOn ==
    ASSUME NEW r, IsSeq(r), NEW B, NEW op, NEW C, NEW H, Behind(B, op, H, r),
           NEW a, Fits(B, op, C, H, a)
    PROVE  /\ CopyStack(B, op, C, H, Append(r, a)) /\ IsSeq(Append(r, a))
           /\ Waits(B, op, H, a) => Behind(B, op, H, Append(r, a))
           /\ \A q : Owed(B, H, op, r, q) \/ Owes(B, H, op, a, q) => Owed(B, H, op, Append(r, a), q)
<1> DEFINE t == Append(r, a)
<1>1. /\ IsSeq(t) /\ Len(r) \in Nat /\ Len(t) = Len(r) + 1
      /\ \A i \in 1 .. Len(r) : t[i] = r[i]
      /\ t[Len(r) + 1] = a
    BY AppendFacts
<1> HIDE DEF t
<1>2. \A i \in 1 .. Len(t) : i \in 1 .. Len(r) \/ i = Len(t)
    BY <1>1
<1>3. CopyStack(B, op, C, H, t)
    BY <1>1, <1>2 DEF Behind, CopyStack, Fits
<1>4. Waits(B, op, H, a) => Behind(B, op, H, t)
    BY <1>1, <1>2 DEF Behind
<1>5. \A q : Owed(B, H, op, r, q) => Owed(B, H, op, t, q)
    BY <1>1 DEF Owed
<1>6. \A q : Owes(B, H, op, a, q) => Owed(B, H, op, t, q)
    <2>1. Len(t) \in 1 .. Len(t) /\ t[Len(t)] = a
        BY <1>1
    <2> QED BY <2>1 DEF Owed
<1> QED BY <1>1, <1>3, <1>4, <1>5, <1>6 DEF t

\* What waits looks at no other handle than its own.
LEMMA WaitsStill ==
    ASSUME NEW g, IsFrame(g), NEW H, NEW G, g.handle # 0 => G[g.handle] = H[g.handle],
           NEW B, NEW op
    PROVE  /\ Waits(B, op, H, g) => Waits(B, op, G, g)
           /\ \A q : Owes(B, H, op, g, q) => Owes(B, G, op, g, q)
<1>1. g.name = "copy" /\ g.at = "next" => G[g.handle].left = H[g.handle].left
    BY DEF IsFrame, Iterating
<1> QED BY <1>1 DEF Waits, Owes

Still(H, G, s) == \A i \in 1 .. Len(s) : s[i].handle # 0 => G[s[i].handle] = H[s[i].handle]
LEMMA BehindStill ==
    ASSUME NEW s, FramesInv(s), NEW H, NEW G, Still(H, G, s), NEW B, NEW op
    PROVE  /\ Behind(B, op, H, s) => Behind(B, op, G, s)
           /\ \A C : CopyStack(B, op, C, H, s) => CopyStack(B, op, C, G, s)
           /\ \A q : Owed(B, H, op, s, q) => Owed(B, G, op, s, q)
<1>1. \A i \in 1 .. Len(s) : /\ Waits(B, op, H, s[i]) => Waits(B, op, G, s[i])
                             /\ \A q : Owes(B, H, op, s[i], q) => Owes(B, G, op, s[i], q)
    BY WaitsStill DEF FramesInv, Still
<1> QED BY <1>1 DEF Behind, CopyStack, Owed

\* A step of the top frame, which leaves the handles of the others as they
\* are.
Only(H, G, h) == \A x \in DOMAIN H \ {h} : x \in DOMAIN G /\ G[x] = H[x]
LEMMA OnlyTop ==
    ASSUME NEW s, FramesInv(s), s # <<>>, NEW H, HandlesOf(s) \subseteq DOMAIN H,
           NEW G, Only(H, G, Last(s).handle)
    PROVE  Still(H, G, Front(s))
<1> DEFINE r == Front(s)
<1>1. /\ Len(r) = Len(s) - 1 /\ Len(s) \in Nat \ {0} /\ \A i \in 1 .. Len(s) - 1 : r[i] = s[i]
      /\ HandlesOf(r) = HandlesOf(s) \ {Last(s).handle}
    BY FramePopped
<1> HIDE DEF r
<1>2. ASSUME NEW i \in 1 .. Len(r), r[i].handle # 0 PROVE G[r[i].handle] = H[r[i].handle]
    <2>1. r[i].handle \in HandlesOf(r)
        BY <1>2 DEF HandlesOf
    <2> QED BY <1>1, <2>1 DEF Only
<1> QED BY <1>2 DEF Still, r

\* What has been made stays, and what is made grows, if nothing that was
\* there changes but permissions of what was made.
Extends(B, C, D) ==
    \A p \in DOMAIN C : /\ p \in DOMAIN D /\ D[p].kind = C[p].kind /\ D[p].data = C[p].data
                        /\ p \in DOMAIN B => D[p] = C[p]
LEMMA StillMade ==
    ASSUME NEW B, NEW op, NEW C, NEW D, Extends(B, C, D), Grown(B, op, C),
           \A p \in DOMAIN D \ DOMAIN C :
               \E q \in Image(B, op) : p = Landing(B, op, q) /\ D[p].kind = B[q].kind
    PROVE  Grown(B, op, D) /\ \A q : Made(B, op, C, q) => Made(B, op, D, q)
<1>1. \A p \in DOMAIN B : p \in DOMAIN D /\ D[p] = B[p]
    BY DEF Grown, Extends
<1>2. ASSUME NEW p \in DOMAIN D \ DOMAIN B
      PROVE  \E q \in Image(B, op) : p = Landing(B, op, q) /\ D[p].kind = B[q].kind
    <2>1. CASE p \in DOMAIN C
        BY <2>1 DEF Grown, Extends
    <2>2. CASE p \notin DOMAIN C
        BY <2>2
    <2> QED BY <2>1, <2>2
<1>3. \A q : Made(B, op, C, q) => Made(B, op, D, q)
    BY DEF Made, Extends
<1> QED BY <1>1, <1>2, <1>3 DEF Grown

-----------------------------------------------------------------------------
(* Steps of a copy *)

\* What is known of a copy that takes a step.
Copied(c, B) ==
    /\ Busy(c) /\ Source(B, client[c].op) /\ Grown(B, client[c].op, cat)
    /\ Behind(B, client[c].op, handles, Front(client[c].frames))
    /\ Fits(B, client[c].op, cat, handles, Top(c))
    /\ \A q \in Image(B, client[c].op) :
          \/ Made(B, client[c].op, cat, q)
          \/ Owed(B, handles, client[c].op, Front(client[c].frames), q)
          \/ Owes(B, handles, client[c].op, Top(c), q)
LEMMA CopiedNow ==
    ASSUME TypesInv, NEW c \in Clients, NEW B, Copies(client[c].op, B),
           Imaging(client[c], cat, B, handles), Busy(c)
    PROVE  Copied(c, B)
<1> DEFINE s == client[c].frames
           op == client[c].op
<1>1. FramesInv(s) /\ s # <<>> /\ Top(c) = s[Len(s)]
    BY TopFacts DEF TypesInv, DataInv
<1>2. /\ Source(B, op) /\ Grown(B, op, cat) /\ CopyStack(B, op, cat, handles, s)
      /\ \A q \in Image(B, op) : Made(B, op, cat, q) \/ Owed(B, handles, op, s, q)
    BY <1>1 DEF Imaging, Source
<1> HIDE DEF s, op
<1>3. /\ Behind(B, op, handles, Front(s)) /\ Fits(B, op, cat, handles, s[Len(s)])
      /\ \A q : Owed(B, handles, op, s, q) =>
            Owed(B, handles, op, Front(s), q) \/ Owes(B, handles, op, s[Len(s)], q)
    BY <1>1, <1>2, StackSplits
<1> QED BY <1>1, <1>2, <1>3 DEF Copied, s, op

\* The catalog becomes D and the handles G: what the frames below the top
\* stand for stays.
Stays(c, B, D, G) ==
    /\ Only(handles, G, Top(c).handle) /\ Grown(B, client[c].op, D)
    /\ \A q : Made(B, client[c].op, cat, q) => Made(B, client[c].op, D, q)
LEMMA StillBehind ==
    ASSUME TypesInv, NEW c \in Clients, NEW B, Copied(c, B), NEW D, NEW G, Stays(c, B, D, G)
    PROVE  /\ Behind(B, client[c].op, G, Front(client[c].frames))
           /\ IsSeq(Front(client[c].frames))
           /\ \A q \in Image(B, client[c].op) :
                  \/ Made(B, client[c].op, D, q)
                  \/ Owed(B, G, client[c].op, Front(client[c].frames), q)
                  \/ Owes(B, handles, client[c].op, Top(c), q)
<1> DEFINE s == client[c].frames
           r == Front(s)
           op == client[c].op
           H == handles
<1>1. /\ FramesInv(s) /\ s # <<>> /\ Top(c) = Last(s) /\ Own(client[c]) \subseteq Reading(H)
    BY TopFacts DEF TypesInv, DataInv, Copied
<1>2. HandlesOf(s) \subseteq DOMAIN H
    BY <1>1 DEF Own, Reading
<1>3. Only(H, G, Last(s).handle)
    BY <1>1 DEF Stays
<1> HIDE DEF s, H
<1>4. Still(H, G, r) /\ FramesInv(r)
    BY <1>1, <1>2, <1>3, OnlyTop, FramePopped
<1>5. Behind(B, op, H, r)
    BY DEF Copied, s, H
<1> HIDE DEF r, op
<1>6. Behind(B, op, G, r) /\ \A q : Owed(B, H, op, r, q) => Owed(B, G, op, r, q)
    BY <1>4, <1>5, BehindStill
<1>7. \A q \in Image(B, op) :
         Made(B, op, D, q) \/ Owed(B, H, op, r, q) \/ Owes(B, H, op, Top(c), q)
    BY DEF Copied, Stays, s, r, op, H
<1> QED BY <1>4, <1>6, <1>7 DEF FramesInv, s, r, op, H

\* The copy goes on with these frames.
LEMMA Imaged ==
    ASSUME NEW c, NEW B, Source(B, client[c].op), NEW D, Grown(B, client[c].op, D), NEW G,
           NEW t, Keeps(c, t), CopyStack(B, client[c].op, D, G, t),
           \A q \in Image(B, client[c].op) :
               Made(B, client[c].op, D, q) \/ Owed(B, G, client[c].op, t, q)
    PROVE  Imaging(client'[c], D, B, G)
BY DEF Keeps, Imaging, Source

\* A frame that has made what it owed returns.
LEMMA ReturnImages ==
    ASSUME TypesInv, NEW c \in Clients, NEW B, Copied(c, B), NEW value, Return(c, value),
           NEW D, NEW G, Stays(c, B, D, G),
           \A q \in Image(B, client[c].op) :
               Owes(B, handles, client[c].op, Top(c), q) => Made(B, client[c].op, D, q)
    PROVE  Imaging(client'[c], D, B, G)
<1> DEFINE r == Front(client[c].frames)
           op == client[c].op
<1>1. Keeps(c, r)
    BY ReturnSets DEF TypesInv, DataInv, Copied
<1>2. /\ Behind(B, op, G, r) /\ IsSeq(r) /\ Grown(B, op, D) /\ Source(B, op)
      /\ \A q \in Image(B, op) : Made(B, op, D, q) \/ Owed(B, G, op, r, q)
    BY StillBehind DEF Stays, Copied
<1> HIDE DEF r
<1>3. CopyStack(B, op, D, G, r)
    BY <1>2, StackReturns
<1> QED BY <1>1, <1>2, <1>3, Imaged

\* A frame goes on, and owes what it has not made.
LEMMA GoesOnImages ==
    ASSUME TypesInv, NEW c \in Clients, NEW B, Copied(c, B), NEW a, Continue(c, <<a>>),
           NEW D, NEW G, Stays(c, B, D, G), Fits(B, client[c].op, D, G, a),
           \A q \in Image(B, client[c].op) : Owes(B, handles, client[c].op, Top(c), q) =>
               Made(B, client[c].op, D, q) \/ Owes(B, G, client[c].op, a, q)
    PROVE  Imaging(client'[c], D, B, G)
<1> DEFINE r == Front(client[c].frames)
           op == client[c].op
           t == Append(r, a)
<1>1. Keeps(c, r \o <<a>>)
    BY ContinueSets DEF TypesInv, DataInv
<1>2. /\ Behind(B, op, G, r) /\ IsSeq(r) /\ Grown(B, op, D) /\ Source(B, op)
      /\ \A q \in Image(B, op) : Made(B, op, D, q) \/ Owed(B, G, op, r, q) \/ Owes(B, G, op, a, q)
    BY StillBehind DEF Stays, Copied
<1> HIDE DEF r
<1>3. /\ CopyStack(B, op, D, G, t)
      /\ \A q : Owed(B, G, op, r, q) \/ Owes(B, G, op, a, q) => Owed(B, G, op, t, q)
    BY <1>2, StackGoesOn
<1>4. Keeps(c, t)
    BY <1>1, <1>2, Become3
<1> HIDE DEF t
<1> QED BY <1>2, <1>3, <1>4, Imaged

\* A frame calls another one, and they share what it owed.
LEMMA CallsImages ==
    ASSUME TypesInv, NEW c \in Clients, NEW B, Copied(c, B), NEW a, NEW b, Continue(c, <<a, b>>),
           NEW D, NEW G, Stays(c, B, D, G), Waits(B, client[c].op, G, a),
           Starts(B, client[c].op, D, b),
           \A q \in Image(B, client[c].op) : Owes(B, handles, client[c].op, Top(c), q) =>
               \/ Made(B, client[c].op, D, q) \/ Owes(B, G, client[c].op, a, q)
               \/ Owes(B, G, client[c].op, b, q)
    PROVE  Imaging(client'[c], D, B, G)
<1> DEFINE r == Front(client[c].frames)
           op == client[c].op
           t == Append(r, a)
           u == Append(t, b)
<1>1. Keeps(c, r \o <<a, b>>)
    BY ContinueSets DEF TypesInv, DataInv
<1>2. /\ Behind(B, op, G, r) /\ IsSeq(r) /\ Grown(B, op, D) /\ Source(B, op)
      /\ \A q \in Image(B, op) : \/ Made(B, op, D, q) \/ Owed(B, G, op, r, q)
                                 \/ Owes(B, G, op, a, q) \/ Owes(B, G, op, b, q)
    BY StillBehind DEF Stays, Copied
<1> HIDE DEF r
<1>3. /\ Behind(B, op, G, t) /\ IsSeq(t)
      /\ \A q : Owed(B, G, op, r, q) \/ Owes(B, G, op, a, q) => Owed(B, G, op, t, q)
    <2>1. Fits(B, op, D, G, a)
        BY DEF Fits
    <2> QED BY <1>2, <2>1, StackGoesOn
<1>4. Keeps(c, u)
    <2> DEFINE v == r \o <<a, b>>
    <2>1. v = u
        BY <1>2, Become3
    <2>2. Keeps(c, v)
        BY <1>1
    <2> HIDE DEF u, v
    <2> QED BY <2>1, <2>2
<1> HIDE DEF t
<1>5. /\ CopyStack(B, op, D, G, u)
      /\ \A q : Owed(B, G, op, t, q) \/ Owes(B, G, op, b, q) => Owed(B, G, op, u, q)
    <2>1. Fits(B, op, D, G, b)
        BY DEF Fits
    <2> QED BY <1>3, <2>1, StackGoesOn
<1> HIDE DEF u
<1> QED BY <1>2, <1>3, <1>4, <1>5, Imaged

\* What is thrown leaves the promise open.
LEMMA ThrowImages ==
    ASSUME TypesInv, NEW c \in Clients, NEW B, Copied(c, B), NEW outcome \in {"thrown", "crashed"},
           Unwinds(c, outcome), NEW G
    PROVE  Imaging(client'[c], cat, B, G)
<1>1. StopsWith(c, outcome)
    BY ThrownStops DEF TypesInv, DataInv
<1>2. /\ client'[c].frames = <<>> /\ client'[c].outcome = outcome
      /\ client'[c].op = client[c].op
    BY <1>1 DEF StopsWith, Stops, Leaves
<1> QED BY <1>2 DEF Imaging, Copied, Source

\* Where neither the catalog nor a handle changes.
LEMMA NothingLeft ==
    ASSUME NEW c, NEW B, Copied(c, B)
    PROVE  Stays(c, B, cat, handles)
BY DEF Stays, Copied, Only

-----------------------------------------------------------------------------
(* What copy and create_collection look at *)

\* One path, and then others.
LEMMA OneThen ==
    ASSUME NEW a, NEW S, NEW t \in Seq(S)
    PROVE  /\ Len(<<a>> \o t) = Len(t) + 1 /\ Len(t) \in Nat /\ (<<a>> \o t)[1] = a
           /\ \A i \in 1 .. Len(t) : (<<a>> \o t)[i + 1] = t[i]
<1> DEFINE T == S \cup {a}
           u == <<a>>
           v == u \o t
<1>1. u \in Seq(T) /\ Len(u) = 1 /\ u[1] = a
    OBVIOUS
<1>2. t \in Seq(T) /\ Len(t) \in Nat
    BY LenProperties, SeqDef
<1> HIDE DEF T, u
<1>3. Len(v) = Len(u) + Len(t) /\ \A i \in 1 .. Len(u) + Len(t) : v[i] = IF i <= Len(u) THEN u[i] ELSE t[i - Len(u)]
    BY <1>1, <1>2, ConcatProperties
<1> HIDE DEF v
<1>4. Len(v) = Len(t) + 1 /\ v[1] = a /\ \A i \in 1 .. Len(t) : v[i + 1] = t[i]
    BY <1>1, <1>2, <1>3
<1> QED BY <1>2, <1>4 DEF u, v

LEMMA CopyLooks ==
    ASSUME NEW f, f.name = "copy"
    PROVE  /\ Len(Lookups(f)) \in Nat /\ Len(Lookups(f)) >= 1 /\ Lookups(f)[1] = f.from
           /\ Len(f.seen) >= 1 /\ Found(f.seen[1]) => Len(Lookups(f)) >= 2
           /\ Len(Lookups(f)) >= 2 => Lookups(f)[2] = f.to
<1> DEFINE a == f.from
           b == f.to
           second == Len(f.seen) >= 2 /\ Found(f.seen[2])
           both == IF second THEN <<a, b>> ELSE <<>>
           first == Len(f.seen) >= 1 /\ Found(f.seen[1])
           t == <<b>> \o both
           u == IF first THEN t ELSE <<>>
           v == <<a>> \o u
           S == {a, b}
<1>1. Lookups(f) = v
    BY DEF Lookups, OnlyIf
<1> HIDE DEF first, second, a, b
<1>2. both \in Seq(S) /\ <<b>> \in Seq(S)
    <2>1. <<a, b>> \in Seq(S) /\ <<b>> \in Seq(S) /\ <<>> \in Seq(S)
        OBVIOUS
    <2> QED BY <2>1
<1> HIDE DEF both
<1>3. t \in Seq(S) /\ Len(t) = Len(both) + 1 /\ Len(both) \in Nat /\ t[1] = b
    BY <1>2, OneThen, ConcatProperties
<1> HIDE DEF t
<1>4. u \in Seq(S) /\ (first => u = t) /\ (~first => u = <<>>)
    BY <1>3
<1> HIDE DEF u, S
<1>5. Len(v) = Len(u) + 1 /\ Len(u) \in Nat /\ v[1] = a /\ \A i \in 1 .. Len(u) : v[i + 1] = u[i]
    BY <1>4, OneThen
<1> HIDE DEF v
<1>6. Len(v) >= 2 => u = t /\ v[2] = b
    BY <1>3, <1>4, <1>5
<1>7. first => Len(v) >= 2
    BY <1>3, <1>4, <1>5
<1> QED BY <1>1, <1>5, <1>6, <1>7 DEF first, a, b

LEMMA CreateLooks ==
    ASSUME NEW f, f.name = "create_collection", ~TooLong(f)
    PROVE  /\ Len(Lookups(f)) \in Nat /\ Len(Lookups(f)) >= 1
           /\ Len(f.seen) >= 1 /\ Found(f.seen[1]) => Len(Lookups(f)) >= 2
           /\ Len(Lookups(f)) >= 2 => Lookups(f)[2] = f.from
<1> DEFINE a == Parent(f.from)
           b == f.from
           first == Len(f.seen) >= 1 /\ Found(f.seen[1])
           u == IF first THEN <<b>> ELSE <<>>
           v == <<a>> \o u
           S == {a, b}
<1>1. Lookups(f) = v
    BY Zenon DEF Lookups, OnlyIf
<1> HIDE DEF first, a, b
<1>2. u \in Seq(S) /\ (first => Len(u) = 1 /\ u[1] = b) /\ (~first => Len(u) = 0)
    <2>1. <<b>> \in Seq(S) /\ <<>> \in Seq(S) /\ Len(<<b>>) = 1 /\ <<b>>[1] = b
        OBVIOUS
    <2> QED BY <2>1, NoStack
<1> HIDE DEF u, S
<1>3. Len(v) = Len(u) + 1 /\ Len(u) \in Nat /\ \A i \in 1 .. Len(u) : v[i + 1] = u[i]
    BY <1>2, OneThen
<1> HIDE DEF v
<1>4. Len(v) >= 2 => v[2] = b
    BY <1>2, <1>3
<1>5. ASSUME first PROVE Len(v) >= 2
    <2>1. Len(u) = 1
        BY <1>2, <1>5
    <2> QED BY <1>3, <2>1
<1> QED BY <1>1, <1>3, <1>4, <1>5 DEF first, b, a

\* A frame that goes on is for the same paths.
Alike(f, g) ==
    g.name = f.name /\ g.from = f.from /\ g.to = f.to /\ g.options = f.options
LEMMA FrameSees ==
    ASSUME NEW f, IsFrame(f), NEW x, NEW g, g = [f EXCEPT !.seen = x]
    PROVE  Alike(f, g) /\ g.at = f.at /\ g.seen = x
BY DEF IsFrame, Alike

LEMMA FrameAt ==
    ASSUME NEW f, IsFrame(f), NEW x, NEW g, g = [f EXCEPT !.at = x]
    PROVE  Alike(f, g) /\ g.at = x /\ g.seen = f.seen
BY DEF IsFrame, Alike

Sees(f, x, t, g) == g = [f EXCEPT !.at = x, !.seen = t]
LEMMA FrameGoesSeeing ==
    ASSUME NEW f, IsFrame(f), NEW x, NEW t, NEW g, Sees(f, x, t, g)
    PROVE  Alike(f, g) /\ g.at = x
<1> DEFINE m == [f EXCEPT !.at = x]
<1>1. /\ Alike(f, m) /\ m.at = x
      /\ m = [name |-> m.name, from |-> m.from, to |-> m.to, options |-> m.options,
              at |-> m.at, seen |-> m.seen, handle |-> m.handle]
    BY DEF IsFrame, Alike
<1>2. g = [m EXCEPT !.seen = t]
    BY DEF Sees
<1> HIDE DEF m
<1> QED BY <1>1, <1>2 DEF Alike

Loops(f, x, h, g) == g = [f EXCEPT !.at = x, !.handle = h]
LEMMA FrameLoops ==
    ASSUME NEW f, IsFrame(f), NEW x, NEW h, NEW g, Loops(f, x, h, g)
    PROVE  Alike(f, g) /\ g.at = x /\ g.handle = h
<1> DEFINE m == [f EXCEPT !.at = x]
<1>1. /\ Alike(f, m) /\ m.at = x
      /\ m = [name |-> m.name, from |-> m.from, to |-> m.to, options |-> m.options,
              at |-> m.at, seen |-> m.seen, handle |-> m.handle]
    BY DEF IsFrame, Alike
<1>2. g = [m EXCEPT !.handle = h]
    BY DEF Loops
<1> HIDE DEF m
<1> QED BY <1>1, <1>2 DEF Alike

LEMMA AlikePlaced ==
    ASSUME NEW f, NEW g, Alike(f, g), NEW B, NEW op
    PROVE  Placed(B, op, f) => Placed(B, op, g)
BY DEF Alike, Placed

LEMMA FrameBegins ==
    ASSUME NEW name, NEW from, NEW to, NEW options
    PROVE  LET g == Frame(name, from, to, options)
           IN  /\ g.name = name /\ g.from = from /\ g.to = to /\ g.options = options
               /\ g.at = "stat" /\ IsSeq(g.seen) /\ Len(g.seen) = 0
<1> DEFINE g == Frame(name, from, to, options)
<1>1. /\ g.name = name /\ g.from = from /\ g.to = to /\ g.options = options
      /\ g.at = "stat" /\ g.seen = <<>>
    BY DEF Frame
<1> HIDE DEF g
<1>2. IsSeq(g.seen) /\ Len(g.seen) = 0
    BY <1>1, NoStack
<1> QED BY <1>1, <1>2 DEF g

\* Where the top of a copy is, and that it has begun.
LEMMA CopyTop ==
    ASSUME TypesInv, NEW c \in Clients, NEW B, Copied(c, B)
    PROVE  /\ IsFrame(Top(c)) /\ Source(B, client[c].op) /\ Grown(B, client[c].op, cat)
           /\ CatalogInv(cat) /\ HandlesInv(handles) /\ Inv
           /\ Top(c).at = "stat" => Starts(B, client[c].op, cat, Top(c))
           /\ Top(c).at # "stat" => Waits(B, client[c].op, handles, Top(c))
           /\ Top(c).handle # 0 => Top(c).handle \in DOMAIN handles
<1>1. Busy(c) /\ DataInv
    BY DEF Copied, TypesInv
<1>2. IsFrame(Top(c)) /\ HandlesInv(handles) /\ CatalogInv(cat) /\ Inv
    BY <1>1, TopFacts DEF DataInv
<1>3. Fits(B, client[c].op, cat, handles, Top(c))
    BY DEF Copied
<1> DEFINE f == Top(c)
           op == client[c].op
<1> HIDE DEF f, op
<1>4. /\ f.at = "stat" => Starts(B, op, cat, f)
      /\ f.at # "stat" => Waits(B, op, handles, f)
    BY <1>3 DEF Fits, Waits, Starts, f, op
<1>5. f.handle # 0 => f.handle \in DOMAIN handles
    <2> DEFINE s == client[c].frames
    <2>1. /\ s # <<>> /\ Len(s) \in Nat \ {0} /\ f = s[Len(s)] /\ HandlesOf(s) \subseteq DOMAIN handles
        BY <1>1, <1>2, TopFacts DEF Own, Reading, f
    <2> HIDE DEF s
    <2>2. f.handle # 0 => f.handle \in HandlesOf(s)
        BY <2>1 DEF HandlesOf
    <2> QED BY <2>1, <2>2
<1> QED BY <1>2, <1>4, <1>5 DEF Copied, f, op

\* What is thrown, by a call or by an iterator that does not open, and a
\* crash.
LEMMA ThrowsImages ==
    ASSUME TypesInv, NEW c \in Clients, NEW B, Copied(c, B)
    PROVE  /\ Throw(c) \/ Crash(c) => Imaging(client'[c], cat', B, handles')
           /\ \A p, owned, H : OpenFails(c, p, owned, H) => Imaging(client'[c], cat', B, handles')
<1> DEFINE G == handles'
           C == cat'
           D == cat
           k == client'[c]
<1> HIDE DEF G, C, D
<1> DEFINE Ends == Unwinds(c, "thrown") \/ Unwinds(c, "crashed")
<1>1. Ends => Imaging(k, D, B, G)
    BY ThrowImages DEF D
<1> HIDE DEF k
<1>2. Ends /\ C = D => Imaging(k, C, B, G)
    BY <1>1
<1>3. Throw(c) \/ Crash(c) => Ends /\ C = D
    BY DEF Throw, ThrowFrom, Unwind, Crash, C, D
<1>4. \A p, owned, H : OpenFails(c, p, owned, H) => Ends /\ C = D
    BY DEF OpenFails, ThrowFrom, Unwind, C, D
<1> HIDE DEF Ends
<1> QED BY <1>2, <1>3, <1>4 DEF G, C, k

-----------------------------------------------------------------------------
(* The steps of a copy that change no collection *)

\* A status call: what it finds at the source is what was there at the
\* beginning.
LEMMA LooksImage ==
    ASSUME NEW B, NEW op, Source(B, op), Grown(B, op, cat), NEW f, Starts(B, op, cat, f),
           NEW n, n = Len(f.seen) + 1, Len(f.seen) < Len(Lookups(f)),
           NEW look, look = Look(Lookups(f)[n]),
           NEW a, Alike(f, a), a.at = f.at, a.seen = Append(f.seen, look)
    PROVE  Starts(B, op, cat, a)
<1>1. /\ IsSeq(a.seen) /\ Len(f.seen) \in Nat /\ Len(a.seen) = n /\ n \in Nat
      /\ \A i \in 1 .. Len(f.seen) : a.seen[i] = f.seen[i]
      /\ a.seen[n] = look
    BY AppendFacts DEF Starts
<1>2. \A p : Look(p) = IF p \in DOMAIN cat THEN cat[p] ELSE Nothing
    BY DEF Look
<1>3. a.name = f.name /\ a.from = f.from /\ a.to = f.to /\ a.options = f.options
    BY DEF Alike
<1>4. CASE f.name = "copy"
    <2>1. Placed(B, op, f) /\ f.from \in Tree(B, op.from)
        BY <1>4 DEF Starts, Placed
    <2>2. /\ Lookups(f)[1] = f.from /\ Len(Lookups(f)) \in Nat
          /\ Len(Lookups(f)) >= 2 => Lookups(f)[2] = f.to
        BY <1>4, CopyLooks
    <2>3. f.from \in DOMAIN cat /\ cat[f.from] = B[f.from]
        BY <2>1, SourceStays
    <2>4. ASSUME Len(a.seen) >= 1 PROVE a.seen[1] = B[a.from]
        <3>1. CASE n = 1
            BY <1>1, <1>2, <1>3, <2>2, <2>3, <3>1
        <3>2. CASE n # 1
            <4>1. 1 \in 1 .. Len(f.seen)
                BY <1>1, <3>2
            <4> QED BY <1>1, <1>3, <1>4, <4>1 DEF Starts
        <3> QED BY <3>1, <3>2
    <2>5. ASSUME Len(a.seen) >= 2 PROVE IsAt(cat, a.to, a.seen[2])
        <3>1. CASE n = 2
            <4>1. a.seen[2] = Look(f.to)
                BY <1>1, <2>2, <3>1
            <4> QED BY <1>2, <1>3, <4>1 DEF IsAt
        <3>2. CASE n # 2
            <4>1. 2 \in 1 .. Len(f.seen)
                BY <1>1, <2>5, <3>2
            <4> QED BY <1>1, <1>3, <1>4, <4>1 DEF Starts
        <3> QED BY <3>1, <3>2
    <2>6. Placed(B, op, a)
        BY <2>1, AlikePlaced
    <2> QED BY <1>1, <1>3, <1>4, <2>4, <2>5, <2>6 DEF Starts
<1>5. CASE f.name = "create_collection"
    <2>1. f.from \notin DOMAIN cat
        BY <1>5 DEF Starts
    <2>2. ~Found(Look(f.from))
        BY <1>2, <2>1 DEF Found, Nothing
    <2>3. ~TooLong(f)
        <3>1. TooLong(f) => Lookups(f) = <<>>
            BY <1>5 DEF Lookups
        <3> QED BY <1>1, <3>1, NoStack
    <2>4. Len(Lookups(f)) \in Nat /\ (Len(Lookups(f)) >= 2 => Lookups(f)[2] = f.from)
        BY <1>5, <2>3, CreateLooks
    <2>5. ASSUME Len(a.seen) >= 2 PROVE ~Found(a.seen[2])
        <3>1. CASE n = 2
            BY <1>1, <2>2, <2>4, <3>1
        <3>2. CASE n # 2
            <4>1. 2 \in 1 .. Len(f.seen)
                BY <1>1, <2>5, <3>2
            <4> QED BY <1>1, <1>5, <4>1 DEF Starts
        <3> QED BY <3>1, <3>2
    <2> QED BY <1>1, <1>3, <1>5, <2>1, <2>5 DEF Starts
<1>6. CASE f.name \notin {"copy", "create_collection"}
    BY <1>1, <1>3, <1>6 DEF Starts
<1> QED BY <1>4, <1>5, <1>6

LEMMA StatImages ==
    ASSUME TypesInv, NEW c \in Clients, NEW B, Copied(c, B), Stat(c)
    PROVE  Imaging(client'[c], cat', B, handles')
<1> DEFINE f == Top(c)
           op == client[c].op
           n == Len(f.seen) + 1
           look == Look(Lookups(f)[n])
           seen == Append(f.seen, look)
           a == [f EXCEPT !.seen = seen]
<1>1. /\ f.at = "stat" /\ Len(f.seen) < Len(Lookups(f))
      /\ (Continue(c, <<a>>) /\ NoChange) \/ Throw(c) \/ Crash(c)
    BY DEF Stat
<1>2. /\ IsFrame(f) /\ Source(B, op) /\ Grown(B, op, cat) /\ Starts(B, op, cat, f)
    BY <1>1, CopyTop
<1> HIDE DEF f, look
<1>4. Alike(f, a) /\ a.at = f.at /\ a.seen = Append(f.seen, look)
    <2>1. a = [f EXCEPT !.seen = seen]
        OBVIOUS
    <2> HIDE DEF a, seen
    <2>2. Alike(f, a) /\ a.at = f.at /\ a.seen = seen
        BY <1>2, <2>1, FrameSees
    <2> QED BY <2>2 DEF seen
<1> HIDE DEF seen, a
<1>5. Starts(B, op, cat, a)
    <2>1. look = Look(Lookups(f)[n])
        BY DEF look
    <2> HIDE DEF n, op
    <2> QED BY <1>1, <1>2, <1>4, <2>1, LooksImage DEF n
<1>6. \A q : Owes(B, handles, op, f, q) => Owes(B, handles, op, a, q)
    BY <1>1, <1>4 DEF Owes, Alike
<1> DEFINE D == cat
           G == handles
<1>7. CASE Continue(c, <<a>>) /\ NoChange
    <2>1. Stays(c, B, D, G) /\ Fits(B, op, D, G, a)
        BY <1>5, NothingLeft DEF Fits
    <2> HIDE DEF D, G
    <2>2. \A q \in Image(B, op) : Owes(B, handles, op, Top(c), q) =>
               Made(B, op, D, q) \/ Owes(B, G, op, a, q)
        BY <1>6 DEF G, f
    <2>3. Imaging(client'[c], D, B, G)
        BY <1>7, <2>1, <2>2, GoesOnImages
    <2>4. cat' = D /\ handles' = G
        BY <1>7 DEF NoChange, D, G
    <2> DEFINE k == client'[c]
    <2> HIDE DEF k
    <2> QED BY <2>3, <2>4 DEF k
<1> QED BY <1>1, <1>7, ThrowsImages

\* A step that changes neither the catalog nor a handle: the frame returns,
\* goes on, or calls.
LEMMA QuietReturn ==
    ASSUME TypesInv, NEW c \in Clients, NEW B, Copied(c, B), NoChange, NEW value, Return(c, value),
           \A q \in Image(B, client[c].op) :
               Owes(B, handles, client[c].op, Top(c), q) => Made(B, client[c].op, cat, q)
    PROVE  Imaging(client'[c], cat', B, handles')
<1> DEFINE D == cat
           G == handles
           k == client'[c]
<1>1. Stays(c, B, D, G) /\ cat' = D /\ handles' = G
    BY NothingLeft DEF NoChange
<1>2. \A q \in Image(B, client[c].op) :
          Owes(B, handles, client[c].op, Top(c), q) => Made(B, client[c].op, D, q)
    OBVIOUS
<1> HIDE DEF D, G
<1>3. Imaging(k, D, B, G)
    BY <1>1, <1>2, ReturnImages
<1> HIDE DEF k
<1> QED BY <1>1, <1>3 DEF k

LEMMA QuietGoesOn ==
    ASSUME TypesInv, NEW c \in Clients, NEW B, Copied(c, B), NoChange, NEW a, Continue(c, <<a>>),
           Fits(B, client[c].op, cat, handles, a),
           \A q \in Image(B, client[c].op) : Owes(B, handles, client[c].op, Top(c), q) =>
               Made(B, client[c].op, cat, q) \/ Owes(B, handles, client[c].op, a, q)
    PROVE  Imaging(client'[c], cat', B, handles')
<1> DEFINE D == cat
           G == handles
           k == client'[c]
<1>1. Stays(c, B, D, G) /\ cat' = D /\ handles' = G /\ Fits(B, client[c].op, D, G, a)
    BY NothingLeft DEF NoChange
<1>2. \A q \in Image(B, client[c].op) : Owes(B, handles, client[c].op, Top(c), q) =>
          Made(B, client[c].op, D, q) \/ Owes(B, G, client[c].op, a, q)
    OBVIOUS
<1> HIDE DEF D, G
<1>3. Imaging(k, D, B, G)
    BY <1>1, <1>2, GoesOnImages
<1> HIDE DEF k
<1> QED BY <1>1, <1>3 DEF k

LEMMA QuietCalls ==
    ASSUME TypesInv, NEW c \in Clients, NEW B, Copied(c, B), NoChange, NEW a, NEW b,
           Continue(c, <<a, b>>),
           Waits(B, client[c].op, handles, a), Starts(B, client[c].op, cat, b),
           \A q \in Image(B, client[c].op) : Owes(B, handles, client[c].op, Top(c), q) =>
               Owes(B, handles, client[c].op, a, q) \/ Owes(B, handles, client[c].op, b, q)
    PROVE  Imaging(client'[c], cat', B, handles')
<1> DEFINE D == cat
           G == handles
           k == client'[c]
<1>1. /\ Stays(c, B, D, G) /\ cat' = D /\ handles' = G
      /\ Waits(B, client[c].op, G, a) /\ Starts(B, client[c].op, D, b)
    BY NothingLeft DEF NoChange
<1>2. \A q \in Image(B, client[c].op) : Owes(B, handles, client[c].op, Top(c), q) =>
          \/ Made(B, client[c].op, D, q) \/ Owes(B, G, client[c].op, a, q)
          \/ Owes(B, G, client[c].op, b, q)
    OBVIOUS
<1> HIDE DEF D, G
<1>3. Imaging(k, D, B, G)
    BY <1>1, <1>2, CallsImages
<1> HIDE DEF k
<1> QED BY <1>1, <1>3 DEF k

\* A copy that has seen both paths, and goes on.
LEMMA CopyReady ==
    ASSUME TypesInv, NEW c \in Clients, NEW B, Copied(c, B), Ready(c, "copy"),
           ~CopyRejects(Top(c))
    PROVE  /\ Top(c).name = "copy" /\ Top(c).at = "stat" /\ IsFrame(Top(c))
           /\ Placed(B, client[c].op, Top(c)) /\ Top(c).seen[1] = B[Top(c).from]
           /\ IsAt(cat, Top(c).to, Top(c).seen[2])
<1> DEFINE f == Top(c)
           op == client[c].op
<1>1. /\ f.name = "copy" /\ f.at = "stat" /\ IsFrame(f) /\ Starts(B, op, cat, f)
      /\ Len(f.seen) = Len(Lookups(f)) /\ Found(f.seen[1])
    BY CopyTop DEF Ready, At, CopyRejects
<1> HIDE DEF f
<1>2. Len(f.seen) >= 1 /\ Len(f.seen) >= 2
    BY <1>1, CopyLooks
<1> QED BY <1>1, <1>2 DEF Starts, f

LEMMA PlacedFacts ==
    ASSUME NEW B, NEW op, Source(B, op), NEW f, Placed(B, op, f)
    PROVE  /\ f.from \in Tree(B, op.from) /\ f.from \in DOMAIN B /\ IsSeq(f.from)
           /\ IsPrefix(op.from, f.from) /\ f.to = Moved(f.from, op.from, op.to) /\ IsSeq(f.to)
           /\ B[f.from].kind \in Kinds
           /\ f.from # op.from => f.from # <<>>
<1>1. /\ f.from \in Tree(B, op.from) /\ f.from \in DOMAIN B /\ IsSeq(f.from)
      /\ IsPrefix(op.from, f.from) /\ f.to = Moved(f.from, op.from, op.to) /\ IsSeq(f.to)
      /\ B[f.from].kind \in Kinds /\ IsSeq(op.from)
    BY SourceFacts DEF Placed
<1>2. f.from = <<>> => f.from = op.from
    <2>1. Len(op.from) <= Len(f.from) /\ Len(op.from) \in Nat
        BY <1>1, PrefixFacts, PathLen
    <2> QED BY <1>1, <2>1, PathLen
<1> QED BY <1>1, <1>2

LEMMA DataObjectImages ==
    ASSUME TypesInv, NEW c \in Clients, NEW B, Copied(c, B), CopyOfDataObject(c)
    PROVE  Imaging(client'[c], cat', B, handles')
<1> DEFINE f == Top(c)
           op == client[c].op
           target == IF f.seen[2].kind = "coll" THEN Append(f.to, Last(f.from)) ELSE f.to
           a == Frame("copy_data_object", f.from, target, f.options)
<1>1. /\ Ready(c, "copy") /\ ~CopyRejects(f) /\ f.seen[1].kind = "data" /\ NoChange
      /\ IF "collections_only" \in f.options THEN Return(c, "true") ELSE Continue(c, <<a>>)
    BY DEF CopyOfDataObject
<1>2. /\ f.name = "copy" /\ f.at = "stat" /\ Placed(B, op, f) /\ f.seen[1] = B[f.from]
      /\ IsAt(cat, f.to, f.seen[2])
    BY <1>1, CopyReady
<1>3. Source(B, op) /\ Grown(B, op, cat)
    BY CopyTop
<1> HIDE DEF f, op
<1>4. /\ f.from \in Tree(B, op.from) /\ f.from \in DOMAIN B /\ B[f.from].kind = "data"
      /\ f.to = Moved(f.from, op.from, op.to) /\ f.from # op.from /\ f.from # <<>>
    <2>1. B[op.from].kind = "coll"
        BY <1>3 DEF Source, Copies
    <2> QED BY <1>1, <1>2, <1>3, <2>1, PlacedFacts
<1>5. Tree(B, f.from) = {f.from}
    <2>1. CatalogInv(B)
        BY <1>3 DEF Source
    <2> DEFINE p == f.from
    <2>2. p \in DOMAIN B /\ p # <<>> /\ B[p].kind # "coll"
        BY <1>4
    <2> HIDE DEF p
    <2>3. Below(B, p) = {}
        BY <2>1, <2>2, BelowNothing
    <2> QED BY <2>1, <2>2, <2>3, TreeIs DEF p
<1>6. /\ f.options = op.options \cup {"in_recursive_copy"}
      /\ "recursive" \in op.options \/ (op.options = {} /\ Parent(f.from) = op.from)
    BY <1>2, <1>4 DEF Placed
<1>7. "collections_only" \in f.options <=> "collections_only" \in op.options
    BY <1>6
<1>8. \A q : Owes(B, handles, op, f, q) => q = f.from
    BY <1>2, <1>5 DEF Owes
<1>9. CASE "collections_only" \in f.options
    <2>1. f.from \notin Image(B, op)
        BY <1>4, <1>7, <1>9 DEF Image
    <2>2. \A q \in Image(B, client[c].op) :
              Owes(B, handles, client[c].op, Top(c), q) => Made(B, client[c].op, cat, q)
        BY <1>8, <2>1 DEF f, op
    <2> QED BY <1>1, <1>9, <2>2, QuietReturn
<1>10. CASE "collections_only" \notin f.options
    <2>1. f.from \in Image(B, op)
        BY <1>4, <1>6, <1>7, <1>10 DEF Image
    <2>2. target = Landing(B, op, f.from)
        <3> DEFINE m == f.to
                   x == f.from
                   there == m \in DOMAIN cat /\ cat[m].kind = "coll"
        <3>1. f.seen[2].kind = "coll" <=> there
            BY <1>2 DEF IsAt, Nothing
        <3>2. m = Moved(x, op.from, op.to) /\ x \in Tree(B, op.from) /\ B[x].kind = "data"
            BY <1>4
        <3> DEFINE C == cat
        <3>3. Grown(B, op, C)
            BY <1>3
        <3> HIDE DEF m, x, C
        <3>4. Landing(B, op, x) = IF m \in DOMAIN C /\ C[m].kind = "coll" THEN Append(m, Last(x))
                                                                         ELSE m
            BY <1>3, <3>2, <3>3, LandingNow
        <3> QED BY <3>1, <3>4 DEF m, x, C
    <2> HIDE DEF target
    <2>3. /\ a.name = "copy_data_object" /\ a.from = f.from /\ a.to = target
          /\ a.options = f.options /\ a.at = "stat" /\ IsSeq(a.seen)
        BY FrameBegins
    <2> HIDE DEF a
    <2>4. Fits(B, op, cat, handles, a)
        BY <1>4, <1>6, <2>1, <2>2, <2>3 DEF Fits, Starts
    <2>5. \A q : Owes(B, handles, op, f, q) => Owes(B, handles, op, a, q)
        BY <1>8, <2>3 DEF Owes
    <2>6. Continue(c, <<a>>)
        BY <1>1, <1>10 
    <2> QED BY <1>1, <2>4, <2>5, <2>6, QuietGoesOn DEF f, op
<1> QED BY <1>9, <1>10

\* The collection is in the image, if the loop over it begins.
LEMMA LoopSource ==
    ASSUME NEW B, NEW op, Source(B, op), NEW f, Placed(B, op, f), B[f.from].kind = "coll"
    PROVE  /\ "recursive" \in f.options \/ f.options = {} =>
                /\ "recursive" \in op.options \/ (op.options = {} /\ f.from = op.from)
                /\ f.from \in Image(B, op)
           /\ ~("recursive" \in f.options \/ f.options = {}) =>
                \A q \in Tree(B, f.from) : q \notin Image(B, op)
<1>1. /\ f.from \in Tree(B, op.from) /\ IsSeq(f.from) /\ IsPrefix(op.from, f.from)
      /\ IsSeq(op.from)
    BY SourceFacts, PlacedFacts
<1>2. ASSUME "recursive" \in f.options \/ f.options = {}
      PROVE  "recursive" \in op.options \/ (op.options = {} /\ f.from = op.from)
    BY <1>2 DEF Placed
<1>3. ASSUME "recursive" \in f.options \/ f.options = {} PROVE f.from \in Image(B, op)
    BY <1>1, <1>2, <1>3 DEF Image
<1>4. ASSUME ~("recursive" \in f.options \/ f.options = {}), NEW q \in Tree(B, f.from),
             q \in Image(B, op)
      PROVE  FALSE
    <2>1. op.options = {} \/ "recursive" \in op.options
        BY <1>4 DEF Image
    <2>2. f.from # op.from /\ op.options = {} /\ Parent(f.from) = op.from
        BY <1>4, <2>1 DEF Placed
    <2>3. q = op.from \/ (Parent(q) = op.from /\ B[q].kind = "data")
        BY <1>4, <2>2 DEF Image
    <2> DEFINE p == f.from
               r == op.from
    <2> HIDE DEF p, r
    <2>4. IsSeq(q) /\ IsPrefix(p, q) /\ q \in DOMAIN B
        BY <1>4 DEF Tree, Source, CatalogInv, p
    <2>5. IsSeq(p) /\ IsSeq(r) /\ IsPrefix(r, p) /\ p # r
        BY <1>1, <2>2 DEF p, r
    <2>6. /\ Len(p) \in Nat /\ Len(q) \in Nat /\ Len(r) \in Nat /\ Len(p) <= Len(q)
          /\ Len(r) <= Len(p) /\ Len(r) # Len(p)
        BY <2>4, <2>5, PathLen, PrefixFacts
    <2>7. q # r
        BY <2>6
    <2>8. Parent(q) = r /\ B[q].kind = "data"
        BY <2>3, <2>7 DEF r
    <2>9. Len(q) = Len(r) + 1
        <3>1. q # <<>>
            BY <2>4, <2>6, PathLen
        <3>2. Len(Parent(q)) = Len(q) - 1
            BY <2>4, <3>1, ParentFacts
        <3> QED BY <2>6, <2>8, <3>2
    <2>10. Len(q) <= Len(p)
        BY <2>6, <2>9
    <2>11. p = q
        BY <2>4, <2>5, <2>10, PrefixFacts
    <2> QED BY <2>8, <2>11 DEF p
<1> QED BY <1>2, <1>3, <1>4

LEMMA CollectionImages ==
    ASSUME TypesInv, NEW c \in Clients, NEW B, Copied(c, B), CopyOfCollection(c)
    PROVE  Imaging(client'[c], cat', B, handles')
<1> DEFINE f == Top(c)
           op == client[c].op
           loops == "recursive" \in f.options \/ f.options = {}
           a == [f EXCEPT !.at = "open"]
           b == Frame("create_collection_like", f.to, f.from, {})
<1>1. /\ Ready(c, "copy") /\ ~CopyRejects(f) /\ f.seen[1].kind = "coll" /\ NoChange
      /\ \/ ~loops /\ Return(c, "true")
         \/ loops /\ Found(f.seen[2]) /\ Continue(c, <<a>>)
         \/ loops /\ ~Found(f.seen[2]) /\ Continue(c, <<a, b>>)
    BY DEF CopyOfCollection
<1>2. /\ f.name = "copy" /\ f.at = "stat" /\ Placed(B, op, f) /\ f.seen[1] = B[f.from]
      /\ IsAt(cat, f.to, f.seen[2]) /\ IsFrame(f) /\ f.seen[2].kind # "data"
    BY <1>1, CopyReady DEF CopyRejects
<1>3. Source(B, op) /\ Grown(B, op, cat) /\ CatalogInv(cat)
    BY CopyTop
<1> HIDE DEF f, op
<1>4. /\ f.from \in DOMAIN B /\ B[f.from].kind = "coll"
      /\ f.to = Moved(f.from, op.from, op.to)
    BY <1>1, <1>2, <1>3, PlacedFacts
<1>5. Tree(B, f.from) = Below(B, f.from) \cup {f.from}
    <2>1. CatalogInv(B)
        BY <1>3 DEF Source
    <2> QED BY <1>4, <2>1, TreeIs
<1>6. \A q : Owes(B, handles, op, f, q) => q \in Tree(B, f.from)
    BY <1>2 DEF Owes
<1>7. ASSUME ~loops PROVE \A q \in Tree(B, f.from) : q \notin Image(B, op)
    BY <1>2, <1>3, <1>4, <1>7, LoopSource
<1>8. ASSUME loops
      PROVE  /\ "recursive" \in op.options \/ (op.options = {} /\ f.from = op.from)
             /\ f.from \in Image(B, op)
    BY <1>2, <1>3, <1>4, <1>8, LoopSource
<1>9. Alike(f, a) /\ a.at = "open"
    <2> DEFINE step == "open"
    <2>1. a = [f EXCEPT !.at = step]
        OBVIOUS
    <2> HIDE DEF step, a
    <2>2. Alike(f, a) /\ a.at = step
        BY <1>2, <2>1, FrameAt
    <2> QED BY <2>2 DEF step
<1>10. /\ b.name = "create_collection_like" /\ b.from = f.to /\ b.at = "stat" /\ IsSeq(b.seen)
    BY FrameBegins
<1>11. f.to \in DOMAIN cat => cat[f.to].kind \in Kinds
    BY <1>3 DEF CatalogInv, IsObject
<1> HIDE DEF loops, a, b
<1>12. CASE ~loops
    <2>1. \A q \in Image(B, client[c].op) :
              Owes(B, handles, client[c].op, Top(c), q) => Made(B, client[c].op, cat, q)
        BY <1>6, <1>7, <1>12 DEF f, op
    <2>2. Return(c, "true")
        BY <1>1, <1>12
    <2> QED BY <1>1, <2>1, <2>2, QuietReturn
<1>13. CASE loops
    <2>1. Waits(B, op, handles, a)
        <3>1. Placed(B, op, a)
            BY <1>2, <1>9, AlikePlaced
        <3> QED BY <1>2, <1>8, <1>9, <1>13, <3>1 DEF Waits, Alike
    <2>2. \A q : Owes(B, handles, op, f, q) => q = f.from \/ Owes(B, handles, op, a, q)
        BY <1>2, <1>5, <1>6, <1>9 DEF Owes, Alike
    <2>3. CASE Found(f.seen[2])
        <3>1. f.to \in DOMAIN cat /\ f.seen[2] = cat[f.to]
            BY <1>2, <2>3 DEF IsAt, Found, Nothing
        <3>2. cat[f.to].kind = "coll"
            BY <1>2, <1>11, <3>1 DEF Kinds
        <3>3. Made(B, op, cat, f.from)
            BY <1>4, <3>1, <3>2 DEF Made, Landing
        <3>4. Fits(B, op, cat, handles, a)
            BY <2>1 DEF Fits
        <3>5. \A q \in Image(B, op) : Owes(B, handles, op, f, q) =>
                  Made(B, op, cat, q) \/ Owes(B, handles, op, a, q)
            BY <2>2, <3>3
        <3>6. Continue(c, <<a>>)
            BY <1>1, <1>13, <2>3
        <3> QED BY <1>1, <3>4, <3>5, <3>6, QuietGoesOn DEF f, op
    <2>4. CASE ~Found(f.seen[2])
        <3>1. f.to \notin DOMAIN cat
            BY <1>2, <1>11, <2>4 DEF IsAt, Found, Kinds
        <3>2. Starts(B, op, cat, b)
            BY <1>4, <1>8, <1>10, <1>13, <3>1 DEF Starts
        <3>3. \A q \in Image(B, op) : Owes(B, handles, op, f, q) =>
                  Owes(B, handles, op, a, q) \/ Owes(B, handles, op, b, q)
            BY <1>4, <1>10, <2>2 DEF Owes
        <3>4. Continue(c, <<a, b>>)
            BY <1>1, <1>13, <2>4
        <3> QED BY <1>1, <2>1, <3>2, <3>3, <3>4, QuietCalls DEF f, op
    <2> QED BY <2>3, <2>4
<1> QED BY <1>12, <1>13

-----------------------------------------------------------------------------
(* The loop of a copy *)

\* The entries of a collection of the source are those it had.
LEMMA LoopEntries ==
    ASSUME NEW B, NEW op, Source(B, op), Grown(B, op, cat), NEW f, Placed(B, op, f)
    PROVE  /\ Entries(f.from) = EntriesOf(B, f.from)
           /\ Below(B, f.from) = Under(B, EntriesOf(B, f.from))
<1>1. f.from \in Tree(B, op.from) /\ f.from \in DOMAIN B /\ CatalogInv(B)
    BY PlacedFacts DEF Source
<1> DEFINE C == cat
           p == f.from
<1>2. Grown(B, op, C) /\ p \in Tree(B, op.from) /\ p \in DOMAIN B
    BY <1>1
<1>3. Entries(p) = EntriesOf(C, p)
    BY DEF Entries, EntriesOf, EntryOf
<1> HIDE DEF C, p
<1>4. EntriesOf(C, p) = EntriesOf(B, p)
    BY <1>2, SourceStays
<1>5. Below(B, p) = Under(B, EntriesOf(B, p))
    BY <1>1, <1>2, BelowEntries
<1> QED BY <1>3, <1>4, <1>5 DEF p

\* What is under some entries is under one of them or under the others.
LEMMA UnderSplit ==
    ASSUME NEW B, NEW F, NEW e \in F, NEW q \in Under(B, F)
    PROVE  q \in Tree(B, e.path) \/ q \in Under(B, F \ {e})
BY DEF Under, Tree

\* The copy of an entry is for the place where the entry goes.
LEMMA ChildStarts ==
    ASSUME NEW B, NEW op, Source(B, op), NEW f, Placed(B, op, f),
           "recursive" \in op.options \/ (op.options = {} /\ f.from = op.from),
           NEW e \in EntriesOf(B, f.from), NEW b, b = CopyOfChild(f, e), NEW C
    PROVE  Starts(B, op, C, b) /\ b.from = e.path /\ b.name = "copy" /\ b.at = "stat"
<1> DEFINE p == op.from
           r == op.to
           x == f.from
           q == e.path
           to == Append(f.to, Last(q))
           options == f.options \cup {"in_recursive_copy"}
<1>1. /\ b.name = "copy" /\ b.from = q /\ b.to = to /\ b.options = options
      /\ b.at = "stat" /\ IsSeq(b.seen) /\ Len(b.seen) = 0
    <2>1. b = Frame("copy", q, to, options)
        BY DEF CopyOfChild, OptionsOfChild
    <2> HIDE DEF q, to, options
    <2> QED BY <2>1, FrameBegins
<1>2. /\ x \in Tree(B, p) /\ x \in DOMAIN B /\ IsSeq(x) /\ IsPrefix(p, x) /\ f.to = Moved(x, p, r)
      /\ IsSeq(p) /\ IsSeq(r) /\ CatalogInv(B)
    BY PlacedFacts, SourceFacts DEF Source
<1>3. q \in DOMAIN B /\ IsPrefix(x, q) /\ Len(q) = Len(x) + 1 /\ IsSeq(q)
    BY <1>2 DEF EntriesOf, EntryOf, Children, Below, Tree, CatalogInv
<1>4. options = op.options \cup {"in_recursive_copy"}
    BY DEF Placed
<1> DEFINE opts == op.options
<1>5. "recursive" \in opts \/ (opts = {} /\ x = p)
    OBVIOUS
<1> HIDE DEF p, r, x, q, opts
<1>6. IsPrefix(p, q) /\ Len(x) \in Nat /\ Len(p) \in Nat /\ Len(p) <= Len(x) /\ q # p
    BY <1>2, <1>3, PrefixFacts, PathLen
<1>7. q \in Tree(B, p)
    BY <1>3, <1>6 DEF Tree
<1>8. to = Moved(q, p, r)
    BY <1>2, <1>3, MovedChild
<1>9. Parent(q) = x
    <2> DEFINE z == Parent(q)
    <2>1. q # <<>>
        BY <1>3, <1>6, PathLen
    <2>2. IsSeq(z) /\ Len(z) = Len(x) /\ IsPrefix(z, q)
        BY <1>3, <1>6, <2>1, ParentFacts
    <2> HIDE DEF z
    <2>3. z = x
        BY <1>2, <1>3, <1>6, <2>2, PrefixFacts
    <2> QED BY <2>3 DEF z
<1> HIDE DEF to, options
<1>10. Placed(B, op, b)
    BY <1>1, <1>4, <1>5, <1>6, <1>7, <1>8, <1>9 DEF Placed, p, r, opts
<1>11. Starts(B, op, C, b)
    BY <1>1, <1>10 DEF Starts
<1> QED BY <1>1, <1>11 DEF q

\* A handle is opened, or closed, or gives an entry.
LEMMA OnlyOpened ==
    ASSUME NEW H, HandlesInv(H), NEW left, NEW read, NEW G, G = Opened(H, left, read), NEW h
    PROVE  Only(H, G, h) /\ G[NewHandle(H)].left = left
<1> DEFINE n == NewHandle(H)
<1>1. n \notin DOMAIN H
    BY NewHandleFacts
<1>2. /\ DOMAIN G = DOMAIN H \cup {n}
      /\ \A x \in DOMAIN G : G[x] = IF x = n THEN [left |-> left, read |-> read] ELSE H[x]
    BY DEF Opened
<1> HIDE DEF n
<1>3. Only(H, G, h) /\ G[n].left = left
    BY <1>1, <1>2 DEF Only
<1> QED BY <1>3 DEF n

LEMMA OnlyClosed ==
    ASSUME NEW H, NEW h, NEW G, G = Closed(H, {h})
    PROVE  Only(H, G, h)
BY DEF Closed, Only

Gives(H, G, h, left) == G = [H EXCEPT ![h].left = left]
LEMMA OnlyMoved ==
    ASSUME NEW H, HandlesInv(H), NEW h \in DOMAIN H, NEW left, NEW G, Gives(H, G, h, left)
    PROVE  Only(H, G, h) /\ G[h].left = left
<1>1. H[h] = [left |-> H[h].left, read |-> H[h].read]
    BY DEF HandlesInv
<1>2. DOMAIN G = DOMAIN H /\ \A x \in DOMAIN H \ {h} : G[x] = H[x]
    BY DEF Gives
<1>3. G[h] = [left |-> left, read |-> H[h].read]
    BY <1>1 DEF Gives
<1> QED BY <1>2, <1>3 DEF Only

\* A turn of the loop: the entries that are left become fewer by one, which
\* is copied.
LEMMA LoopTurns ==
    ASSUME TypesInv, NEW c \in Clients, NEW B, Copied(c, B), Placed(B, client[c].op, Top(c)),
           \/ "recursive" \in client[c].op.options
           \/ client[c].op.options = {} /\ Top(c).from = client[c].op.from,
           NEW left, left \subseteq EntriesOf(B, Top(c).from), NEW e \in left,
           \A q : Owes(B, handles, client[c].op, Top(c), q) => q \in Under(B, left),
           NEW a, Alike(Top(c), a), Top(c).name = "copy", a.at = "next",
           NEW G, Only(handles, G, Top(c).handle), G[a.handle].left = left \ {e},
           Continue(c, <<a, CopyOfChild(Top(c), e)>>), UNCHANGED cat
    PROVE  Imaging(client'[c], cat', B, G)
<1> DEFINE f == Top(c)
           op == client[c].op
           b == CopyOfChild(f, e)
           D == cat
           k == client'[c]
<1>1. Source(B, op) /\ Grown(B, op, D) /\ cat' = D
    BY CopyTop
<1>2. Starts(B, op, D, b) /\ b.from = e.path /\ b.name = "copy" /\ b.at = "stat"
    <2> DEFINE g == CopyOfChild(f, e)
    <2>1. g = b
        OBVIOUS
    <2>2. e \in EntriesOf(B, f.from)
        OBVIOUS
    <2>3. g = CopyOfChild(f, e)
        OBVIOUS
    <2>4. Placed(B, op, f) /\ ("recursive" \in op.options \/ (op.options = {} /\ f.from = op.from))
        OBVIOUS
    <2> HIDE DEF g, f, op, D
    <2>5. Starts(B, op, D, g) /\ g.from = e.path /\ g.name = "copy" /\ g.at = "stat"
        BY <1>1, <2>2, <2>3, <2>4, ChildStarts
    <2> QED BY <2>1, <2>5
<1>3. Waits(B, op, G, a)
    <2>1. Placed(B, op, a)
        BY AlikePlaced
    <2>2. a.name = "copy" /\ a.from = f.from /\ left \ {e} \subseteq EntriesOf(B, a.from)
        BY DEF Alike
    <2> QED BY <2>1, <2>2 DEF Waits
<1>4. Stays(c, B, D, G)
    BY <1>1 DEF Stays
<1>5. ASSUME NEW q, Owes(B, handles, op, f, q)
      PROVE  Owes(B, G, op, a, q) \/ Owes(B, G, op, b, q)
    <2>1. q \in Tree(B, e.path) \/ q \in Under(B, left \ {e})
        BY <1>5, UnderSplit
    <2>2. a.name = "copy"
        BY DEF Alike
    <2> HIDE DEF b
    <2> QED BY <1>2, <2>1, <2>2 DEF Owes
<1>6. \A q \in Image(B, op) : Owes(B, handles, op, Top(c), q) =>
               \/ Made(B, op, D, q) \/ Owes(B, G, op, a, q)
               \/ Owes(B, G, op, b, q)
    BY <1>5
<1>7. Continue(c, <<a, b>>)
    OBVIOUS
<1> HIDE DEF D, b, f
<1>8. Imaging(k, D, B, G)
    BY <1>2, <1>3, <1>4, <1>6, <1>7, CallsImages
<1> HIDE DEF k
<1> QED BY <1>1, <1>8 DEF k

\* The loop ends: nothing is left.
LEMMA LoopEnds ==
    ASSUME TypesInv, NEW c \in Clients, NEW B, Copied(c, B),
           \A q : Owes(B, handles, client[c].op, Top(c), q) => q \in Under(B, {}),
           NEW G, Only(handles, G, Top(c).handle), NEW value, Return(c, value), UNCHANGED cat
    PROVE  Imaging(client'[c], cat', B, G)
<1> DEFINE D == cat
           k == client'[c]
<1>1. Grown(B, client[c].op, D) /\ cat' = D
    BY CopyTop
<1>2. Stays(c, B, D, G)
    BY <1>1 DEF Stays
<1>3. \A q \in Image(B, client[c].op) :
          Owes(B, handles, client[c].op, Top(c), q) => Made(B, client[c].op, D, q)
    BY DEF Under
<1> HIDE DEF D
<1>4. Imaging(k, D, B, G)
    BY <1>2, <1>3, ReturnImages
<1> HIDE DEF k
<1> QED BY <1>1, <1>4 DEF k

LEMMA OpenImages ==
    ASSUME TypesInv, NEW c \in Clients, NEW B, Copied(c, B), CopyOpen(c)
    PROVE  Imaging(client'[c], cat', B, handles')
<1> DEFINE f == Top(c)
           op == client[c].op
           entries == Entries(f.from)
           n == NewHandle(handles)
           G == handles'
<1>1. /\ f.name = "copy" /\ f.at = "open"
      /\ \/ entries = {} /\ G = Opened(handles, {}, "all") /\ Return(c, "true") /\ UNCHANGED cat
         \/ \E e \in entries :
              /\ G = Opened(handles, entries \ {e}, "some") /\ UNCHANGED cat
              /\ Continue(c, <<[f EXCEPT !.at = "next", !.handle = n], CopyOfChild(f, e)>>)
         \/ OpenFails(c, f.from, Owned(c), handles)
    BY DEF CopyOpen, At
<1>2. /\ IsFrame(f) /\ Source(B, op) /\ Grown(B, op, cat) /\ HandlesInv(handles)
      /\ Waits(B, op, handles, f)
    BY <1>1, CopyTop
<1>3. /\ Placed(B, op, f)
      /\ "recursive" \in op.options \/ (op.options = {} /\ f.from = op.from)
    BY <1>1, <1>2 DEF Waits
<1>4. entries = EntriesOf(B, f.from) /\ Below(B, f.from) = Under(B, EntriesOf(B, f.from))
    <2> HIDE DEF f, op
    <2> QED BY <1>2, <1>3, LoopEntries
<1>5. \A q : Owes(B, handles, op, f, q) => q \in Under(B, entries)
    BY <1>1, <1>4 DEF Owes
<1> HIDE DEF entries, n, G
<1>6. CASE entries = {} /\ G = Opened(handles, {}, "all") /\ Return(c, "true") /\ UNCHANGED cat
    <2> DEFINE none == {}
               all == "all"
    <2>1. G = Opened(handles, none, all)
        BY <1>6
    <2> HIDE DEF none, all
    <2>2. Only(handles, G, f.handle)
        BY <1>2, <2>1, OnlyOpened
    <2>3. \A q : Owes(B, handles, op, f, q) => q \in Under(B, {})
        BY <1>5, <1>6
    <2> QED BY <1>6, <2>2, <2>3, LoopEnds DEF G
<1>7. ASSUME NEW e \in entries, G = Opened(handles, entries \ {e}, "some"), UNCHANGED cat,
             Continue(c, <<[f EXCEPT !.at = "next", !.handle = n], CopyOfChild(f, e)>>)
      PROVE  Imaging(client'[c], cat', B, G)
    <2> DEFINE step == "next"
               some == "some"
               left == entries \ {e}
               a == [f EXCEPT !.at = step, !.handle = n]
    <2>1. G = Opened(handles, left, some) /\ Continue(c, <<a, CopyOfChild(f, e)>>)
        BY <1>7
    <2> HIDE DEF step, some, left
    <2>2. Only(handles, G, f.handle) /\ G[n].left = left
        BY <1>2, <2>1, OnlyOpened DEF n
    <2>3. Loops(f, step, n, a)
        BY DEF Loops
    <2> HIDE DEF a, f
    <2>4. Alike(f, a) /\ a.at = step /\ a.handle = n
        BY <1>2, <2>3, FrameLoops
    <2>5. G[a.handle].left = entries \ {e} /\ a.at = "next"
        BY <2>2, <2>4 DEF left, step
    <2>6. entries \subseteq EntriesOf(B, f.from)
        BY <1>4
    <2> QED BY <1>1, <1>3, <1>5, <1>7, <2>1, <2>2, <2>4, <2>5, <2>6, LoopTurns DEF f
<1> QED BY <1>1, <1>6, <1>7, ThrowsImages DEF G

LEMMA NextsImages ==
    ASSUME TypesInv, NEW c \in Clients, NEW B, Copied(c, B), CopyNext(c)
    PROVE  Imaging(client'[c], cat', B, handles')
<1> DEFINE f == Top(c)
           op == client[c].op
           left == handles[f.handle].left
           G == handles'
<1>1. /\ f.name = "copy" /\ f.at = "next"
      /\ \/ left = {} /\ G = Closed(handles, {f.handle}) /\ Return(c, "true") /\ UNCHANGED cat
         \/ \E e \in left :
              /\ G = [handles EXCEPT ![f.handle].left = left \ {e}] /\ UNCHANGED cat
              /\ Continue(c, <<f, CopyOfChild(f, e)>>)
         \/ Throw(c)
    BY DEF CopyNext, At
<1>2. /\ IsFrame(f) /\ HandlesInv(handles) /\ Waits(B, op, handles, f)
      /\ f.handle # 0 => f.handle \in DOMAIN handles
    BY <1>1, CopyTop
<1>3. /\ Placed(B, op, f) /\ left \subseteq EntriesOf(B, f.from)
      /\ "recursive" \in op.options \/ (op.options = {} /\ f.from = op.from)
    BY <1>1, <1>2 DEF Waits
<1>4. f.handle \in DOMAIN handles
    BY <1>1, <1>2 DEF IsFrame, Iterating
<1>5. \A q : Owes(B, handles, op, f, q) => q \in Under(B, left)
    BY <1>1 DEF Owes
<1> HIDE DEF left, G
<1>6. CASE left = {} /\ G = Closed(handles, {f.handle}) /\ Return(c, "true") /\ UNCHANGED cat
    <2>1. Only(handles, G, f.handle)
        BY <1>6, OnlyClosed
    <2>2. \A q : Owes(B, handles, op, f, q) => q \in Under(B, {})
        BY <1>5, <1>6
    <2> QED BY <1>6, <2>1, <2>2, LoopEnds DEF G
<1>7. ASSUME NEW e \in left, G = [handles EXCEPT ![f.handle].left = left \ {e}], UNCHANGED cat,
             Continue(c, <<f, CopyOfChild(f, e)>>)
      PROVE  Imaging(client'[c], cat', B, G)
    <2> DEFINE rest == left \ {e}
               h == f.handle
    <2>1. Gives(handles, G, h, rest) /\ h \in DOMAIN handles
        BY <1>4, <1>7 DEF Gives
    <2> HIDE DEF rest, h
    <2>2. Only(handles, G, h) /\ G[h].left = rest
        BY <1>2, <2>1, OnlyMoved
    <2>3. Only(handles, G, f.handle) /\ G[f.handle].left = left \ {e}
        BY <2>2 DEF rest, h
    <2>4. Alike(f, f)
        BY DEF Alike
    <2> QED BY <1>1, <1>3, <1>5, <1>7, <2>3, <2>4, LoopTurns
<1> QED BY <1>1, <1>6, <1>7, ThrowsImages DEF G

-----------------------------------------------------------------------------
(* The steps of a copy that make something *)

LEMMA NewObjectData == ASSUME NEW kind, NEW data PROVE NewObject(kind, data).data = data
<1> DEFINE n == LastId + 1
           a == [Nothing EXCEPT !.kind = kind]
           b == [a EXCEPT !.id = n]
           d == [b EXCEPT !.data = data]
           e == [d EXCEPT !.mtime = 2]
           o == [e EXCEPT !.perms = 1]
<1>1. NewObject(kind, data) = o
    BY DEF NewObject
<1>2. DOMAIN a = {"kind", "id", "data", "mtime", "perms", "avu", "sum"}
    BY DEF Nothing
<1> HIDE DEF a, n
<1>3. DOMAIN b = {"kind", "id", "data", "mtime", "perms", "avu", "sum"}
    BY <1>2
<1> HIDE DEF b
<1>4. d["data"] = data
    BY <1>3
<1> HIDE DEF d
<1>5. e["data"] = data
    BY <1>4
<1> HIDE DEF e
<1>6. o["data"] = data
    BY <1>5
<1> QED BY <1>1, <1>6

\* What becomes of the catalog: p is new, or what is at p changes its
\* permissions.
Grows1(B, op, C, D, p, q) ==
    /\ q \in Image(B, op) /\ p = Landing(B, op, q) /\ p \notin DOMAIN C
    /\ DOMAIN D = DOMAIN C \cup {p} /\ D[p].kind = B[q].kind /\ \A r \in DOMAIN C : D[r] = C[r]
LEMMA MakesOne ==
    ASSUME NEW B, NEW op, NEW C, Grown(B, op, C), NEW D, NEW p, NEW q, Grows1(B, op, C, D, p, q)
    PROVE  /\ Grown(B, op, D) /\ \A x : Made(B, op, C, x) => Made(B, op, D, x)
           /\ (D[p].kind = "data" => D[p].data = B[q].data) => Made(B, op, D, q)
<1>1. Extends(B, C, D)
    BY DEF Grows1, Extends
<1>2. \A r \in DOMAIN D \ DOMAIN C :
          \E x \in Image(B, op) : r = Landing(B, op, x) /\ D[r].kind = B[x].kind
    BY DEF Grows1
<1>3. Made(B, op, D, q) \/ ~(D[p].kind = "data" => D[p].data = B[q].data)
    BY DEF Grows1, Made
<1> QED BY <1>1, <1>2, <1>3, StillMade

\* A call that makes what the frame owes.
LEMMA MakesImages ==
    ASSUME TypesInv, NEW c \in Clients, NEW B, Copied(c, B), NEW D,
           Grown(B, client[c].op, D),
           \A q : Made(B, client[c].op, cat, q) => Made(B, client[c].op, D, q),
           \A q \in Image(B, client[c].op) :
               Owes(B, handles, client[c].op, Top(c), q) => Made(B, client[c].op, D, q),
           cat' = D, UNCHANGED handles, Return(c, "true")
    PROVE  Imaging(client'[c], cat', B, handles')
<1> DEFINE G == handles
           k == client'[c]
           value == "true"
<1>1. Only(handles, G, Top(c).handle) /\ handles' = G
    BY DEF Only
<1>2. Stays(c, B, D, G)
    BY <1>1 DEF Stays
<1>3. Return(c, value)
    OBVIOUS
<1> HIDE DEF G, value
<1>4. Imaging(k, D, B, G)
    BY <1>2, <1>3, ReturnImages
<1> HIDE DEF k
<1> QED BY <1>1, <1>4 DEF k

LEMMA CopyDataImages ==
    ASSUME TypesInv, NEW c \in Clients, NEW B, Copied(c, B), CopyDataObject(c)
    PROVE  Imaging(client'[c], cat', B, handles')
<1> DEFINE f == Top(c)
           op == client[c].op
           p == f.to
           q == f.from
           object == IF Is(p, "data") THEN [cat[p] EXCEPT !.data = Look(q).data, !.mtime = 2]
                                      ELSE NewObject("data", Look(q).data)
           D == With(p, object)
           admitted == ~Found(Look(p)) \/ ForceFlag(f)
<1>1. /\ f.name = "copy_data_object" /\ f.at = "stat"
      /\ \/ Throw(c)
         \/ CopyDataSkips(f)
         \/ admitted /\ cat' = D /\ UNCHANGED handles /\ Return(c, "true")
    BY DEF CopyDataObject, Call, Ready, At
<1>2. /\ Source(B, op) /\ Grown(B, op, cat) /\ Starts(B, op, cat, f) /\ CatalogInv(cat)
    BY <1>1, CopyTop
<1>3. /\ q \in Image(B, op) /\ B[q].kind = "data" /\ p = Landing(B, op, q)
      /\ "in_recursive_copy" \in f.options
    BY <1>1, <1>2 DEF Starts
<1>4. ~CopyDataSkips(f) /\ ~ForceFlag(f)
    BY <1>3 DEF CopyDataSkips, ForceFlag
<1> HIDE DEF D
<1>5. CASE ~Found(Look(p)) /\ cat' = D /\ UNCHANGED handles /\ Return(c, "true")
    <2> HIDE DEF p, q
    <2>1. p \notin DOMAIN cat /\ ~Is(p, "data")
        BY <1>2, <1>5, LookFacts DEF Kinds
    <2>2. q \in Tree(B, op.from)
        BY <1>2, <1>3, SourceFacts
    <2>3. q \in DOMAIN cat /\ cat[q] = B[q]
        BY <1>2, <2>2, SourceStays
    <2> DEFINE data == Look(q).data
               kind == "data"
    <2>4. data = B[q].data
        BY <2>3 DEF Look
    <2>5. object = NewObject(kind, data) /\ kind \in Kinds
        BY <2>1 DEF Kinds
    <2> HIDE DEF data, object, kind
    <2>6. object.kind = "data" /\ object.data = data
        BY <2>5, NewObjectIs, NewObjectData DEF kind
    <2>7. /\ DOMAIN D = DOMAIN cat \cup {p} /\ D[p] = object /\ \A r \in DOMAIN cat : D[r] = cat[r]
        BY <2>1 DEF D, With
    <2>8. Grows1(B, op, cat, D, p, q)
        BY <1>3, <2>1, <2>6, <2>7 DEF Grows1, p, q
    <2> DEFINE C == cat
    <2>9. Grown(B, op, C) /\ Grows1(B, op, C, D, p, q) /\ D[p].data = B[q].data
        BY <1>2, <2>4, <2>6, <2>7, <2>8
    <2> HIDE DEF C
    <2>10. /\ Grown(B, op, D) /\ \A x : Made(B, op, C, x) => Made(B, op, D, x)
           /\ Made(B, op, D, q)
        BY <2>9, MakesOne
    <2>11. \A x \in Image(B, op) : Owes(B, handles, op, f, x) => Made(B, op, D, x)
        BY <1>1, <2>10 DEF Owes, q
    <2>12. \A x : Made(B, op, cat, x) => Made(B, op, D, x)
        BY <2>10 DEF C
    <2> QED BY <1>5, <2>10, <2>11, <2>12, MakesImages
<1> QED BY <1>1, <1>4, <1>5, ThrowsImages

LEMMA CreatesImages ==
    ASSUME TypesInv, NEW c \in Clients, NEW B, Copied(c, B), CreateCollection(c)
    PROVE  Imaging(client'[c], cat', B, handles')
<1> DEFINE f == Top(c)
           op == client[c].op
           p == f.from
           kind == "coll"
           data == 0
           object == NewObject(kind, data)
           D == With(p, object)
<1>1. /\ f.name = "create_collection" /\ f.at = "stat"
      /\ \/ Throw(c)
         \/ /\ ~TooLong(f) /\ Found(f.seen[1]) /\ Len(f.seen) = Len(Lookups(f))
            /\ Found(f.seen[2])
         \/ cat' = D /\ UNCHANGED handles /\ Return(c, "true")
    BY DEF CreateCollection, Call, Ready, At
<1>2. /\ Source(B, op) /\ Grown(B, op, cat) /\ Starts(B, op, cat, f)
    BY <1>1, CopyTop
<1>3. /\ p \notin DOMAIN cat
      /\ \E q \in Image(B, op) : B[q].kind = "coll" /\ p = Moved(q, op.from, op.to)
      /\ Len(f.seen) >= 2 => ~Found(f.seen[2])
    BY <1>1, <1>2 DEF Starts
<1>4. ASSUME ~TooLong(f), Found(f.seen[1]), Len(f.seen) = Len(Lookups(f)), Found(f.seen[2])
      PROVE  FALSE
    <2> HIDE DEF f
    <2>1. Len(f.seen) >= 2
        BY <1>1, <1>4, CreateLooks
    <2> QED BY <1>3, <1>4, <2>1
<1> HIDE DEF D, object
<1>5. CASE cat' = D /\ UNCHANGED handles /\ Return(c, "true")
    <2>1. PICK q \in Image(B, op) : B[q].kind = "coll" /\ p = Moved(q, op.from, op.to)
        BY <1>3
    <2>2. object.kind = "coll"
        BY NewObjectIs DEF Kinds, object
    <2>3. q \in Tree(B, op.from)
        BY <1>2, SourceFacts
    <2>4. p = Landing(B, op, q)
        BY <2>1 DEF Landing
    <2> HIDE DEF p
    <2>5. /\ DOMAIN D = DOMAIN cat \cup {p} /\ D[p] = object /\ \A r \in DOMAIN cat : D[r] = cat[r]
        BY <1>3 DEF D, With, p
    <2>6. Grows1(B, op, cat, D, p, q)
        BY <1>3, <2>1, <2>2, <2>4, <2>5 DEF Grows1, p
    <2> DEFINE C == cat
    <2>7. Grown(B, op, C) /\ Grows1(B, op, C, D, p, q) /\ D[p].kind # "data"
        BY <1>2, <2>2, <2>5, <2>6
    <2> HIDE DEF C
    <2>8. /\ Grown(B, op, D) /\ \A x : Made(B, op, C, x) => Made(B, op, D, x)
          /\ Made(B, op, D, q)
        BY <2>7, MakesOne
    <2>9. ASSUME NEW x \in Image(B, op), Owes(B, handles, op, f, x) PROVE Made(B, op, D, x)
        <3>1. Moved(x, op.from, op.to) = Moved(q, op.from, op.to)
            BY <1>1, <2>1, <2>9 DEF Owes, p
        <3>2. x \in Tree(B, op.from)
            BY <1>2, SourceFacts
        <3> DEFINE z == op.from
                   r == op.to
        <3>3. IsSeq(z) /\ IsSeq(r) /\ IsSeq(x) /\ IsSeq(q) /\ IsPrefix(z, x) /\ IsPrefix(z, q)
            BY <1>2, <2>3, <3>2, SourceFacts DEF Source
        <3>4. Moved(x, z, r) = Moved(q, z, r)
            BY <3>1
        <3> HIDE DEF z, r
        <3>5. x = q
            BY <3>3, <3>4, MovedApart
        <3> QED BY <2>8, <3>5
    <2>10. \A x : Made(B, op, cat, x) => Made(B, op, D, x)
        BY <2>8 DEF C
    <2> QED BY <1>5, <2>8, <2>9, <2>10, MakesImages
<1> QED BY <1>1, <1>4, <1>5, ThrowsImages

LEMMA CreatesLikeImages ==
    ASSUME TypesInv, NEW c \in Clients, NEW B, Copied(c, B), CreateCollectionLike(c)
    PROVE  Imaging(client'[c], cat', B, handles')
<1> DEFINE f == Top(c)
           op == client[c].op
           step == "permissions"
           model == [f.seen[1] EXCEPT !.perms = PermissionsOf(f.to)]
           seen == <<model>>
           a == [f EXCEPT !.at = step, !.seen = seen]
           b == Frame("create_collection", f.from, <<>>, {})
<1>1. /\ f.name = "create_collection_like" /\ f.at = "stat"
      /\ Throw(c) \/ (Continue(c, <<a, b>>) /\ NoChange)
    BY DEF CreateCollectionLike, Ready, At
<1>2. Source(B, op) /\ Grown(B, op, cat) /\ Starts(B, op, cat, f) /\ IsFrame(f)
    BY <1>1, CopyTop
<1> HIDE DEF f, op, seen
<1>3. /\ f.from \notin DOMAIN cat
      /\ \E q \in Image(B, op) : B[q].kind = "coll" /\ f.from = Moved(q, op.from, op.to)
    BY <1>1, <1>2 DEF Starts
<1>4. f.from \notin DOMAIN B
    BY <1>2, <1>3 DEF Grown
<1>5. /\ b.name = "create_collection" /\ b.from = f.from /\ b.at = "stat" /\ IsSeq(b.seen)
      /\ Len(b.seen) = 0
    <2> DEFINE to == <<>>
               options == {}
    <2>1. b = Frame("create_collection", f.from, to, options)
        OBVIOUS
    <2> HIDE DEF to, options
    <2> QED BY <2>1, FrameBegins
<1>6. Alike(f, a) /\ a.at = step
    <2>1. Sees(f, step, seen, a)
        BY DEF Sees
    <2> HIDE DEF a, step
    <2> QED BY <1>2, <2>1, FrameGoesSeeing
<1> HIDE DEF a, b
<1>7. Waits(B, op, handles, a)
    BY <1>1, <1>4, <1>6 DEF Waits, Alike
<1>8. Starts(B, op, cat, b)
    BY <1>3, <1>5 DEF Starts
<1>9. \A q : Owes(B, handles, op, f, q) => Owes(B, handles, op, b, q)
    BY <1>1, <1>5 DEF Owes
<1> QED BY <1>1, <1>7, <1>8, <1>9, QuietCalls, ThrowsImages DEF f, op

LEMMA CreatedImages ==
    ASSUME TypesInv, NEW c \in Clients, NEW B, Copied(c, B), CreatedLike(c)
    PROVE  Imaging(client'[c], cat', B, handles')
<1> DEFINE f == Top(c)
           op == client[c].op
           p == f.from
           perms == f.seen[1].perms
           object == [Look(p) EXCEPT !.perms = perms]
           D == With(p, object)
<1>1. /\ f.name = "create_collection_like" /\ f.at = "permissions"
      /\ Throw(c) \/ (Found(Look(p)) /\ cat' = D /\ UNCHANGED handles /\ Return(c, "true"))
    BY DEF CreatedLike, Call, At
<1>2. Grown(B, op, cat) /\ Waits(B, op, handles, f) /\ CatalogInv(cat)
    BY <1>1, CopyTop
<1>3. p \notin DOMAIN B
    BY <1>1, <1>2 DEF Waits
<1> HIDE DEF D
<1>4. CASE Found(Look(p)) /\ cat' = D /\ UNCHANGED handles /\ Return(c, "true")
    <2> DEFINE o == Look(p)
               C == cat
               field == "perms"
    <2> HIDE DEF p, perms
    <2>1. p \in DOMAIN C /\ o = C[p] /\ IsObject(o) /\ Grown(B, op, C)
        BY <1>2, <1>4, LookFacts
    <2> DEFINE m == [o EXCEPT ![field] = perms]
    <2>2. object = m /\ field \in {"mtime", "perms", "avu", "sum"}
        OBVIOUS
    <2> HIDE DEF o, object, field
    <2>3. m.kind = o.kind /\ m.data = o.data
        BY <2>1, <2>2, SetObject
    <2>4. /\ DOMAIN D = DOMAIN C \cup {p} /\ D[p] = object
          /\ \A r \in DOMAIN C \ {p} : D[r] = C[r]
        BY DEF D, With
    <2> HIDE DEF C, m
    <2>5. Extends(B, C, D)
        BY <1>3, <2>1, <2>2, <2>3, <2>4 DEF Extends, p
    <2>6. DOMAIN D \ DOMAIN C = {}
        BY <2>1, <2>4
    <2>7. \A r \in DOMAIN D \ DOMAIN C :
              \E x \in Image(B, op) : r = Landing(B, op, x) /\ D[r].kind = B[x].kind
        BY <2>6
    <2>8. Grown(B, op, D) /\ \A x : Made(B, op, C, x) => Made(B, op, D, x)
        BY <2>1, <2>5, <2>7, StillMade
    <2>9. \A x \in Image(B, op) : Owes(B, handles, op, f, x) => Made(B, op, D, x)
        BY <1>1 DEF Owes
    <2>10. \A x : Made(B, op, cat, x) => Made(B, op, D, x)
        BY <2>8 DEF C
    <2> QED BY <1>4, <2>8, <2>9, <2>10, MakesImages
<1> QED BY <1>1, <1>4, ThrowsImages

\* Every step of a copy.
LEMMA StepImages ==
    ASSUME TypesInv, NEW c \in Clients, NEW B, Copies(client[c].op, B),
           Imaging(client[c], cat, B, handles), Step(c)
    PROVE  Imaging(client'[c], cat', B, handles')
<1>1. Busy(c)
    BY StepTop
<1>2. Copied(c, B)
    BY <1>1, CopiedNow
<1>3. Top(c).name \in {"copy", "copy_data_object", "create_collection_like", "create_collection"}
    BY <1>2 DEF Copied, Fits, Waits, Starts
<1>4. \/ Stat(c) \/ Copying(c)
      \/ CreateCollection(c) \/ CreateCollectionLike(c) \/ CreatedLike(c)
    <2>1. ~Removing(c) /\ ~Walking(c) /\ ~Rename(c)
        BY <1>3 DEF Removing, CountDataObjects, CountCollections, RemoveEnds, RemoveDataObject,
                    RemoveProbe, RemoveCollection, Walking, WalkOpen, WalkVisit, WalkCrash,
                    WalkDecline, WalkPop, WalkStat, WalkProbe, WalkInto, WalkOver, WalkAt, Rename,
                    Ready, At
    <2>2. ~Updating(c)
        BY <1>3 DEF Updating, LastWriteTime, Permissions, SetMetadata, RemoveMetadata,
                    DataObjectChecksum, QueryChecksums, Update, Ready, At
    <2>3. ~CreateCollections(c)
        BY <1>3 DEF CreateCollections, Ready, At
    <2> QED BY <2>1, <2>2, <2>3 DEF Step, Creating
<1>5. CopyThrows(c) => Imaging(client'[c], cat', B, handles')
    BY <1>2, ThrowsImages DEF CopyThrows
<1> QED BY <1>2, <1>4, <1>5, StatImages, DataObjectImages, CollectionImages, OpenImages,
           NextsImages, CopyDataImages, CreatesImages, CreatesLikeImages, CreatedImages DEF Copying

\* A step of another client that leaves the catalog as it is.
LEMMA OtherImages ==
    ASSUME TypesInv, NEW c \in Clients, NEW d \in Clients, c # d, NEW B,
           Imaging(client[c], cat, B, handles), Step(d)
    PROVE  Imaging(client[c], cat, B, handles')
<1> DEFINE k == client[c]
           s == k.frames
           op == k.op
           H == handles
           G == handles'
           C == cat
<1>1. Inv
    BY DEF TypesInv, DataInv
<1>2. FramesInv(s) /\ Own(k) \subseteq Reading(H)
    BY <1>1, OwnedIs DEF Inv, ClientInv, HandlesAccounted, Reading
<1>3. Own(k) \cap Own(client[d]) = {}
    BY <1>1, OwnedIs DEF Inv, HandlesAccounted
<1>4. HandlesStep(H, G, Own(client[d]))
    BY StepActs DEF Acts
<1>5. \A h \in HandlesOf(s) : G[h] = H[h]
    BY <1>2, <1>3, <1>4 DEF HandlesStep, Own, Reading
<1> HIDE DEF s, op, H, G, C
<1>6. Still(H, G, s)
    BY <1>5 DEF Still, HandlesOf
<1>7. /\ CopyStack(B, op, C, H, s) => CopyStack(B, op, C, G, s)
      /\ \A q : Owed(B, H, op, s, q) => Owed(B, G, op, s, q)
    BY <1>2, <1>6, BehindStill
<1>8. /\ IsSeq(op.to) /\ CatalogInv(B) /\ Grown(B, op, C)
      /\ s # <<>> \/ k.outcome = "true" =>
           /\ CopyStack(B, op, C, H, s)
           /\ \A q \in Image(B, op) : Made(B, op, C, q) \/ Owed(B, H, op, s, q)
    BY DEF Imaging, s, op, H, C
<1>9. s # <<>> \/ k.outcome = "true" =>
           /\ CopyStack(B, op, C, G, s)
           /\ \A q \in Image(B, op) : Made(B, op, C, q) \/ Owed(B, G, op, s, q)
    BY <1>7, <1>8
<1> QED BY <1>8, <1>9 DEF Imaging, s, op, G, C

\* A copy that begins owes all of its source.
LEMMA BeginsImages ==
    ASSUME NEW C, CatalogInv(C), NEW c, NEW k, Begins(c, k), Copies(k.op, C), NEW H
    PROVE  Imaging(k, C, C, H)
<1> DEFINE f == k.op
           s == <<f>>
<1>1. /\ f \in Requests /\ k.frames = s /\ Len(s) = 1 /\ s[1] = f /\ k.outcome = "none"
    BY OneFrame DEF Begins
<1> HIDE DEF s, f
<1>2. /\ f.name = "copy" /\ f.at = "stat" /\ f.from \in Seq(STRING) /\ f.to \in Seq(STRING)
      /\ f.seen = <<>>
    BY <1>1 DEF Requests, Copies, f
<1>3. IsSeq(f.from) /\ IsSeq(f.to) /\ IsSeq(f.seen) /\ Len(f.seen) = 0
    BY <1>2, SeqFacts, NoStack DEF IsSeq
<1>4. Source(C, f)
    BY <1>3 DEF Source, f
<1>5. Placed(C, f, f)
    <2>1. f.from \in Tree(C, f.from)
        BY <1>4, SourceFacts
    <2>2. f.to = Moved(f.from, f.from, f.to)
        <3> DEFINE p == f.from
                   r == f.to
        <3>1. IsSeq(p) /\ IsSeq(r)
            BY <1>3
        <3> HIDE DEF p, r
        <3>2. Moved(p, p, r) = r
            BY <3>1, MovedSelf
        <3> QED BY <3>2 DEF p, r
    <2> QED BY <2>1, <2>2 DEF Placed
<1>6. Starts(C, f, C, f)
    BY <1>2, <1>3, <1>5 DEF Starts
<1>7. CopyStack(C, f, C, H, s)
    BY <1>1, <1>6 DEF CopyStack
<1>8. Grown(C, f, C)
    BY DEF Grown
<1>9. ASSUME NEW q \in Image(C, f) PROVE Owed(C, H, f, s, q)
    <2>1. q \in Tree(C, f.from)
        BY <1>4, SourceFacts
    <2>2. Owes(C, H, f, s[1], q)
        BY <1>1, <1>2, <2>1 DEF Owes
    <2>3. 1 \in 1 .. Len(s)
        BY <1>1
    <2> QED BY <2>2, <2>3 DEF Owed
<1> QED BY <1>1, <1>3, <1>7, <1>8, <1>9 DEF Imaging, f

LEMMA InitImages == ASSUME Init PROVE ImagesInv
BY DEF Init, ImagesInv, Copies

LEMMA NextImages ==
    ASSUME TypesInv, DOMAIN before = Clients, ImagesInv, [Next]_vars
    PROVE  ImagesInv'
<1>1. CASE UNCHANGED vars
    BY <1>1 DEF ImagesInv, vars
<1>2. ASSUME NEW d \in Clients, Step(d) PROVE ImagesInv'
    <2>1. Acts(d) /\ before' = [e \in Clients |-> IF e # d /\ cat' # cat THEN <<>> ELSE before[e]]
        BY <1>2, StepActs DEF Step
    <2>2. ASSUME NEW c \in Clients, Copies(client'[c].op, before'[c])
          PROVE  Imaging(client'[c], cat', before'[c], handles')
        <3>1. before'[c] # <<>>
            BY <2>2 DEF Copies
        <3>2. before'[c] = before[c] /\ client'[c].op = client[c].op
            BY <2>1, <3>1 DEF Acts
        <3> DEFINE B == before[c]
                   k == client'[c]
                   C == cat'
                   G == handles'
        <3>3. Copies(client[c].op, B) /\ Imaging(client[c], cat, B, handles)
            BY <2>2, <3>2 DEF ImagesInv
        <3>4. CASE c = d
            <4> HIDE DEF B
            <4>1. Imaging(k, C, B, G)
                BY <1>2, <3>3, <3>4, StepImages
            <4> HIDE DEF k, C, G
            <4>2. before'[c] = B
                BY <3>2 DEF B
            <4> QED BY <4>1, <4>2 DEF k, C, G
        <3>5. CASE c # d
            <4>1. C = cat /\ k = client[c]
                BY <2>1, <3>1, <3>5 DEF Acts
            <4> HIDE DEF B, C, k
            <4>2. Imaging(client[c], cat, B, G)
                BY <1>2, <3>3, <3>5, OtherImages
            <4> HIDE DEF G
            <4>3. before'[c] = B
                BY <3>2 DEF B
            <4> QED BY <4>1, <4>2, <4>3 DEF C, k, G
        <3> QED BY <3>4, <3>5
    <2> QED BY <2>2 DEF ImagesInv
<1>3. ASSUME NEW d \in Clients, Start(d) PROVE ImagesInv'
    <2> DEFINE k == client'[d]
               C == cat
               H == handles
    <2>1. Begins(d, k)
        BY <1>3, StartBegins DEF TypesInv, DataInv
    <2>2. /\ UNCHANGED <<cat, handles>> /\ before' = [before EXCEPT ![d] = cat]
          /\ \A c \in Clients \ {d} : client'[c] = client[c]
        BY <2>1 DEF Begins
    <2>3. CatalogInv(C)
        BY DEF TypesInv, DataInv
    <2> HIDE DEF C, H, k
    <2>4. Copies(k.op, C) => Imaging(k, C, C, H)
        BY <2>1, <2>3, BeginsImages
    <2>5. ASSUME NEW c \in Clients, Copies(client'[c].op, before'[c])
          PROVE  Imaging(client'[c], cat', before'[c], handles')
        <3>1. CASE c = d
            <4>1. before'[c] = C /\ cat' = C /\ handles' = H /\ client'[c] = k
                BY <2>2, <3>1 DEF C, H, k
            <4> QED BY <2>4, <2>5, <4>1
        <3>2. CASE c # d
            <4>1. before'[c] = before[c] /\ cat' = cat /\ handles' = handles /\ client'[c] = client[c]
                BY <2>2, <3>2
            <4> QED BY <2>5, <4>1 DEF ImagesInv
        <3> QED BY <3>1, <3>2
    <2> QED BY <2>5 DEF ImagesInv
<1> QED BY <1>1, <1>2, <1>3 DEF Next

\* In a catalog that nobody else changes, a copy of a collection to a path
\* that is neither above nor below it, if it returns, has made the image of
\* its source and nothing else: what is still to be made is owed by one of
\* the frames, and the source, which no frame changes, is read in parts that
\* the frames and the open handles share.
THEOREM CopyIsItsImage == Spec => []CopyIsImage
<1>1. Init => TypesInv /\ WalksInv /\ ImagesInv
    BY InitTypes, InitWalks, InitImages
<1>2. TypesInv /\ WalksInv /\ ImagesInv /\ [Next]_vars => TypesInv' /\ WalksInv' /\ ImagesInv'
    BY NextTypes, NextWalks, NextImages DEF WalksInv
<1>3. TypesInv /\ ImagesInv => CopyIsImage
    <2> SUFFICES ASSUME TypesInv, ImagesInv, NEW c \in Clients, NEW B, B = before[c],
                        NEW f, f = client[c].op, Quietly(c, "copy", "true"),
                        f.from \in DOMAIN B, B[f.from].kind = "coll",
                        ~IsPrefix(f.from, f.to), ~IsPrefix(f.to, f.from)
                 PROVE  /\ DOMAIN cat = DOMAIN B \cup {Landing(B, f, q) : q \in Image(B, f)}
                        /\ \A p \in DOMAIN B : cat[p] = B[p]
                        /\ \A q \in Image(B, f) :
                             LET new == cat[Landing(B, f, q)]
                             IN  new.kind = B[q].kind /\ (new.kind = "data" => new.data = B[q].data)
        BY DEF CopyIsImage
    <2>1. Copies(f, B) /\ client[c].outcome = "true"
        BY DEF Quietly, Copies
    <2>2. Imaging(client[c], cat, B, handles)
        BY <2>1 DEF ImagesInv
    <2>3. client[c].frames = <<>>
        BY <2>1 DEF TypesInv, StateOK
    <2>4. \A q : ~Owed(B, handles, f, <<>>, q)
        BY NoStack DEF Owed
    <2>5. Grown(B, f, cat) /\ \A q \in Image(B, f) : Made(B, f, cat, q)
        BY <2>1, <2>2, <2>3, <2>4 DEF Imaging
    <2>6. \A p \in DOMAIN B : p \in DOMAIN cat /\ cat[p] = B[p]
        BY <2>5 DEF Grown
    <2>7. \A q \in Image(B, f) : Landing(B, f, q) \in DOMAIN cat
        BY <2>5 DEF Made
    <2>8. DOMAIN cat = DOMAIN B \cup {Landing(B, f, q) : q \in Image(B, f)}
        <3>1. \A p \in DOMAIN cat \ DOMAIN B : \E q \in Image(B, f) : p = Landing(B, f, q)
            BY <2>5 DEF Grown
        <3> QED BY <2>6, <2>7, <3>1
    <2> QED BY <2>5, <2>6, <2>8 DEF Made
<1> QED BY <1>1, <1>2, <1>3, PTL DEF Spec
=============================================================================
