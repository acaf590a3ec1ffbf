----------------------------- MODULE Filesystem -----------------------------
(***************************************************************************)
(* The filesystem library: copy, create_collection, create_collections,    *)
(* remove, remove_all, rename, the operations that set an attribute, and   *)
(* the walk of a recursive_collection_iterator, each as the sequence of    *)
(* API calls it makes. Several clients work on one catalog, and any call   *)
(* may fail.                                                               *)
(*                                                                         *)
(* A client has a stack of calls of the library's functions (frames), and  *)
(* a frame the answers of the status calls it made so far (seen). What is  *)
(* thrown unwinds the whole stack. Every look at the catalog and every     *)
(* change of it is a step of its own.                                      *)
(*                                                                         *)
(* The server is external: the catalog, its calls, and the handles of open *)
(* collections, each with the entries that are still to be read.           *)
(***************************************************************************)
EXTENDS Integers, FiniteSets, SequencesExt

CONSTANTS Clients,
          Catalogs,       \* the catalogs the clients may find
          Programs,       \* Programs[c]: the sequences of calls c may make
          MaxDepth,       \* MAX_NAME_LEN, in names
          BeginsWith      \* pairs <<n, m>> of different names such that m = n...

ASSUME LimitAssumption == MaxDepth \in Nat

\* What a program may call: a function of the library, at its beginning. A
\* remove that is recursive is remove_all, which begins with its counts.
Requests ==
    {f \in [name : STRING, from : Seq(STRING), to : Seq(STRING), options : SUBSET STRING,
            at : {"stat", "count data"}, seen : {<<>>}, handle : {0}] :
        f.at = "count data" <=> f.name = "remove" /\ "recursive" \in f.options}
ASSUME ProgramAssumption == \A c \in Clients : Programs[c] \subseteq Seq(Requests)

\* What a catalog is: finite, and whatever has something below it is a
\* collection in it.
Kinds == {"coll", "data"}
Objects == [kind : Kinds, id : Nat, data : Nat, mtime : Nat, perms : Nat, avu : Nat, sum : Nat]
IsCatalog(C) ==
    /\ IsFiniteSet(DOMAIN C)
    /\ \A p \in DOMAIN C :
         /\ p \in Seq(STRING) /\ C[p] \in Objects
         /\ \A n \in 1..Len(p) - 1 : SubSeq(p, 1, n) \in DOMAIN C /\ C[SubSeq(p, 1, n)].kind = "coll"
ASSUME CatalogAssumption == \A C \in Catalogs : IsCatalog(C)

VARIABLES
    cat,        \* the catalog: path -> object
    handles,    \* the open collection handles of the server: the entries that
                \* are left, and how much was read: none, some or all
    client,     \* per client: its frames, the stack of its walk, its outcome
    before      \* per client: the catalog it began with, unless another
                \* client has changed the catalog since

vars == <<cat, handles, client, before>>

----------------------------------------------------------------------------
(* The catalog. A path is a sequence of names; <<>> is the root. *)

Parent(p) == Front(p)
Tree(C, p) == {q \in DOMAIN C : IsPrefix(p, q)}
Below(C, p) == Tree(C, p) \ {p}
Children(C, p) == {q \in Below(C, p) : Len(q) = Len(p) + 1}

\* Where q, at or below p, is when p becomes r.
Moved(q, p, r) == r \o SubSeq(q, Len(p) + 1, Len(q))

Nothing == [kind |-> "not_found", id |-> 0, data |-> 0, mtime |-> 0, perms |-> 0,
            avu |-> 0, sum |-> 0]
Found(o) == o.kind # "not_found"
Look(p) == IF p \in DOMAIN cat THEN cat[p] ELSE Nothing
Is(p, kind) == Look(p).kind = kind

LastId == CHOOSE n \in {cat[p].id : p \in DOMAIN cat} : \A p \in DOMAIN cat : cat[p].id <= n
NewObject(kind, data) ==
    [Nothing EXCEPT !.kind = kind, !.id = LastId + 1, !.data = data, !.mtime = 2, !.perms = 1]

Without(paths) == [q \in DOMAIN cat \ paths |-> cat[q]]
With(p, o) == [q \in DOMAIN cat \cup {p} |-> IF q = p THEN o ELSE cat[q]]

Entries(p) == {[path |-> q, kind |-> cat[q].kind] : q \in Children(cat, p)}
NoEntry == [path |-> <<>>, kind |-> "none"]

\* H is what handles is or becomes in the step.
NewHandle(H) == CHOOSE h \in 1..(Cardinality(DOMAIN H) + 1) : h \notin DOMAIN H
Opened(H, left, read) ==
    [h \in DOMAIN H \cup {NewHandle(H)} |->
        IF h = NewHandle(H) THEN [left |-> left, read |-> read] ELSE H[h]]
Closed(H, hs) == [h \in DOMAIN H \ hs |-> H[h]]

----------------------------------------------------------------------------
(* Calls *)

\* `to` is the second path, `seen` what the status calls found so far, and
\* `handle` that of the iterator of the frame's loop.
Frame(name, from, to, options) ==
    [name |-> name, from |-> from, to |-> to, options |-> options, at |-> "stat",
     seen |-> <<>>, handle |-> 0]

\* A client about to make the call op, and then those in todo.
Client(op, todo) ==
    [frames |-> <<>>, walk |-> <<>>, visited |-> {}, twice |-> FALSE, skipped |-> {},
     count |-> 0, op |-> op, todo |-> todo, outcome |-> "none"]

Busy(c) == client[c].frames # <<>>
Top(c) == Last(client[c].frames)
At(c, name, step) == Busy(c) /\ Top(c).name = name /\ Top(c).at = step

\* The top frame becomes fs: one frame, or itself and a frame that it calls.
Become(c, fs) == [client[c] EXCEPT !.frames = Front(@) \o fs]
Continue(c, fs) == client' = [client EXCEPT ![c] = Become(c, fs)]

\* The top function returns. Its caller in the library does not look at what.
Return(c, value) ==
    client' = [client EXCEPT ![c] =
        [Become(c, <<>>) EXCEPT !.outcome = IF Len(client[c].frames) = 1 THEN value ELSE @]]

NoChange == UNCHANGED <<cat, handles>>

\* The handles of the iterators on the client's stack. An iterator that has
\* read the end has forgotten its handle: it is 0.
Owned(c) ==
    ({f.handle : f \in ToSet(client[c].frames)} \cup {i.handle : i \in ToSet(client[c].walk)}) \ {0}

Unwinds(c, outcome) ==
    client' = [client EXCEPT ![c].frames = <<>>, ![c].walk = <<>>, ![c].outcome = outcome]

Unwind(c) == Unwinds(c, "thrown")

\* The process ends, and with it its connection and all its handles.
Crash(c) ==
    /\ Unwinds(c, "crashed")
    /\ handles' = Closed(handles, Owned(c))
    /\ UNCHANGED cat

(* Mutant: the handles stay open. *)
ThrowFromOpen(c, owned, H) ==
    /\ Unwind(c)
    /\ handles' = H
    /\ UNCHANGED cat

\* What is thrown destroys the iterators, which close the handles they own.
ThrowFrom(c, owned, H) ==
    /\ Unwind(c)
    /\ handles' = Closed(H, owned)
    /\ UNCHANGED cat

Throw(c) == ThrowFrom(c, Owned(c), handles)

\* The constructor of an iterator looks at the length of the path first.
CanOpen(p) == Len(p) <= MaxDepth /\ Is(p, "coll")

\* The constructor of an iterator over p throws: the collection does not
\* open, or its first entry cannot be read and the new handle stays open.
OpenFails(c, p, owned, H) ==
    \/ ThrowFrom(c, owned, H)
    \/ CanOpen(p) /\ ThrowFrom(c, owned, Opened(H, Entries(p), "none"))

\* The server makes the catalog C if it admits the call, which else fails.
Call(c, admitted, C) ==
    \/ admitted /\ cat' = C /\ UNCHANGED handles /\ Return(c, "true")
    \/ Throw(c)

CallOrFalse(c, admitted, C) ==
    \/ admitted /\ cat' = C /\ UNCHANGED handles /\ Return(c, "true")
    \/ NoChange /\ Return(c, "false")

\* throw_if_path_length_exceeds_limit
TooLong(f) == Len(f.from) > MaxDepth \/ Len(f.to) > MaxDepth

OnlyIf(condition, paths) == IF condition THEN paths ELSE <<>>

\* The paths that a function asks the status of, given what it has found.
Lookups(f) ==
    LET found(n) == Len(f.seen) >= n /\ Found(f.seen[n])
        both == OnlyIf(found(2), <<f.from, f.to>>)
    IN  IF f.name = "copy" THEN <<f.from>> \o OnlyIf(found(1), <<f.to>> \o both)
        ELSE IF TooLong(f) THEN <<>>
        ELSE CASE f.name = "copy_data_object" ->
                    <<f.from>> \o OnlyIf(found(1), <<f.to>> \o both)
                               \o OnlyIf(found(4) /\ f.options = {"update_existing"},
                                         <<f.from>> \o OnlyIf(found(5), <<f.to>>))
               [] f.name = "create_collection" -> <<Parent(f.from)>> \o OnlyIf(found(1), <<f.from>>)
               [] f.name = "create_collection_like" -> <<f.to>>
               [] f.name = "rename" ->
                    <<f.from, f.to>> \o OnlyIf(found(1), both)
                      \o OnlyIf(found(1) /\ Len(f.seen) >= 2 /\ ~found(2) /\ ~IsPrefix(f.from, f.to),
                                <<Parent(f.to)>>)
               [] f.name \in {"permissions", "walk"} -> <<>>
               [] OTHER -> <<f.from>>

\* stat copies the path into a buffer and does not look at its length: one
\* that is too long may end the process. Of its two requests this is the
\* first; a failure of the second, for the permissions, is among what is
\* thrown, and its answer matters to create_collection_like only.
Stat(c) ==
    LET f == Top(c)
        path == Lookups(f)[Len(f.seen) + 1]
    IN  /\ Busy(c) /\ f.at = "stat" /\ Len(f.seen) < Len(Lookups(f))
        /\ \/ Continue(c, <<[f EXCEPT !.seen = Append(@, Look(path))]>>) /\ NoChange
           \/ Len(path) > MaxDepth /\ Crash(c)
           \/ Throw(c)

Ready(c, name) == At(c, name, "stat") /\ Len(Top(c).seen) = Len(Lookups(Top(c)))

\* equivalent, after both paths were found: one of them is gone, or they are
\* the same object.
Vanished(f) == Len(f.seen) >= 4 /\ ~(Found(f.seen[3]) /\ Found(f.seen[4]))
Equivalent(f) == Len(f.seen) >= 4 /\ f.seen[3].id = f.seen[4].id

----------------------------------------------------------------------------
(* copy *)

CopyRejects(f) ==
    \/ ~Found(f.seen[1]) \/ Vanished(f) \/ Equivalent(f)
    \/ f.seen[1].kind = "coll" /\ f.seen[2].kind = "data"

CopyThrows(c) == Ready(c, "copy") /\ CopyRejects(Top(c)) /\ Throw(c)

CopyOfDataObject(c) ==
    LET f == Top(c)
        target == IF f.seen[2].kind = "coll" THEN Append(f.to, Last(f.from)) ELSE f.to
    IN  /\ Ready(c, "copy") /\ ~CopyRejects(f) /\ f.seen[1].kind = "data"
        /\ IF "collections_only" \in f.options
             THEN Return(c, "true")
             ELSE Continue(c, <<Frame("copy_data_object", f.from, target, f.options)>>)
        /\ NoChange

CopyOfCollection(c) ==
    LET f == Top(c)
        opening == [f EXCEPT !.at = "open"]
    IN  /\ Ready(c, "copy") /\ ~CopyRejects(f) /\ f.seen[1].kind = "coll"
        /\ IF ~("recursive" \in f.options \/ f.options = {}) THEN Return(c, "true")
           ELSE IF Found(f.seen[2]) THEN Continue(c, <<opening>>)
           ELSE Continue(c, <<opening, Frame("create_collection_like", f.to, f.from, {})>>)
        /\ NoChange

(* Mutant: the flag that tells a recursive copy is forgotten. *)
OptionsOfChildKept(options) == options

OptionsOfChild(options) == options \cup {"in_recursive_copy"}

CopyOfChild(f, e) ==
    Frame("copy", e.path, Append(f.to, Last(e.path)), OptionsOfChild(f.options))

\* The loop. A temporary shares the context of the iterator that moves, and
\* closes the handle, unless the constructor has read the end already.
CopyOpen(c) ==
    LET f == Top(c)
        entries == Entries(f.from)
    IN  /\ At(c, "copy", "open")
        /\ \/ /\ CanOpen(f.from) /\ entries = {}
              /\ handles' = Opened(handles, {}, "all") /\ Return(c, "true") /\ UNCHANGED cat
           \/ /\ CanOpen(f.from)
              /\ \E e \in entries :
                   /\ handles' = Opened(handles, entries \ {e}, "some")
                   /\ Continue(c, <<[f EXCEPT !.at = "next", !.handle = NewHandle(handles)],
                                    CopyOfChild(f, e)>>)
              /\ UNCHANGED cat
           \/ OpenFails(c, f.from, Owned(c), handles)

(* Mutant: the iterator does not move. *)
CopyNextAgain(c) ==
    LET f == Top(c)
        left == handles[f.handle].left
    IN  /\ At(c, "copy", "next")
        /\ \/ left = {} /\ handles' = Closed(handles, {f.handle}) /\ Return(c, "true") /\ UNCHANGED cat
           \/ \E e \in left : Continue(c, <<f, CopyOfChild(f, e)>>) /\ NoChange
           \/ Throw(c)

CopyNext(c) ==
    LET f == Top(c)
        left == handles[f.handle].left
    IN  /\ At(c, "copy", "next")
        /\ \/ left = {} /\ handles' = Closed(handles, {f.handle}) /\ Return(c, "true") /\ UNCHANGED cat
           \/ \E e \in left :
                /\ handles' = [handles EXCEPT ![f.handle].left = left \ {e}]
                /\ Continue(c, <<f, CopyOfChild(f, e)>>)
                /\ UNCHANGED cat
           \/ Throw(c)

CopyDataRejects(f) ==
    \/ TooLong(f) \/ f.seen[1].kind # "data" \/ Vanished(f) \/ Equivalent(f)
    \/ Found(f.seen[2]) /\ (f.seen[2].kind # "data" \/ f.options = {})
    \/ Len(f.seen) >= 5 /\ ~(Found(f.seen[5]) /\ Found(f.seen[6]))

\* With update_existing the times of both were read, and both were found.
CopyDataSkips(f) ==
    /\ Found(f.seen[2])
    /\ \/ f.options = {"skip_existing"}
       \/ f.options = {"update_existing"} /\ f.seen[5].mtime <= f.seen[6].mtime

(* Mutant: whatever exists is overwritten. *)
ForceIfFound(f) == Found(f.seen[2])

\* FORCE_FLAG_KW. The options of a copy in a recursive copy equal no option.
ForceFlag(f) == Found(f.seen[2]) /\ f.options = {"overwrite_existing"}

CopyDataObject(c) ==
    LET f == Top(c)
        object == IF Is(f.to, "data") THEN [cat[f.to] EXCEPT !.data = Look(f.from).data, !.mtime = 2]
                                      ELSE NewObject("data", Look(f.from).data)
    IN  /\ Ready(c, "copy_data_object")
        /\ IF CopyDataRejects(f) THEN Throw(c)
           ELSE IF CopyDataSkips(f) THEN Return(c, "false") /\ NoChange
           ELSE Call(c, /\ Is(f.from, "data")
                        /\ \/ ~Found(Look(f.to)) /\ Is(Parent(f.to), "coll")
                           \/ Is(f.to, "data") /\ ForceFlag(f),
                     With(f.to, object))

----------------------------------------------------------------------------
(* create_collection, with and without a model for its permissions *)

CreateCollection(c) ==
    LET f == Top(c)
    IN  /\ Ready(c, "create_collection")
        /\ IF TooLong(f) \/ ~Found(f.seen[1]) THEN Throw(c)
           ELSE IF Found(f.seen[2]) THEN Return(c, "false") /\ NoChange
           ELSE Call(c, ~Found(Look(f.from)) /\ Is(Parent(f.from), "coll"),
                     With(f.from, NewObject("coll", 0)))

\* set_permissions, the second request of stat: what a collection that has
\* gone meanwhile permits is nothing.
PermissionsOf(p) == IF Is(p, "coll") THEN cat[p].perms ELSE Nothing.perms

CreateCollectionLike(c) ==
    LET f == Top(c)
    IN  /\ Ready(c, "create_collection_like")
        /\ \/ /\ ~TooLong(f) /\ f.seen[1].kind = "coll"
              /\ LET model == [f.seen[1] EXCEPT !.perms = PermissionsOf(f.to)]
                 IN  Continue(c, <<[f EXCEPT !.at = "permissions", !.seen = <<model>>],
                                   Frame("create_collection", f.from, <<>>, {})>>)
              /\ NoChange
           \/ Throw(c)

CreatedLike(c) ==
    LET f == Top(c)
    IN  /\ At(c, "create_collection_like", "permissions")
        /\ Call(c, Found(Look(f.from)),
                With(f.from, [Look(f.from) EXCEPT !.perms = f.seen[1].perms]))

\* The server makes the missing ancestors too.
CreateCollections(c) ==
    LET f == Top(c)
        line == {SubSeq(f.from, 1, n) : n \in 1..Len(f.from)}
    IN  /\ Ready(c, "create_collections")
        /\ IF TooLong(f) THEN Throw(c)
           ELSE IF Found(f.seen[1]) THEN Return(c, "false") /\ NoChange
           ELSE CallOrFalse(c, ~Found(Look(f.from)) /\ \A p \in line : ~Is(p, "data"),
                            [p \in DOMAIN cat \cup line |->
                                IF p \in DOMAIN cat THEN cat[p]
                                ELSE [NewObject("coll", 0) EXCEPT !.id = @ + Len(p)]])

----------------------------------------------------------------------------
(* remove and remove_all *)

\* Does the name of the collection q begin with the text of p? Every name
\* begins with that of the root.
Like(q, p) ==
    \/ p = <<>>
    \/ /\ Len(q) >= Len(p)
       /\ SubSeq(q, 1, Len(p) - 1) = Parent(p)
       /\ q[Len(p)] = p[Len(p)] \/ <<p[Len(p)], q[Len(p)]>> \in BeginsWith

LikeCollections(p) == {q \in DOMAIN cat : Is(q, "coll") /\ Like(q, p)}
LikeDataObjects(p) == {q \in DOMAIN cat : Is(q, "data") /\ Like(Parent(q), p)}

CountDataObjects(c) ==
    LET f == Top(c)
    IN  /\ At(c, "remove", "count data")
        /\ \/ /\ client' = [client EXCEPT ![c] =
                    [Become(c, <<[f EXCEPT !.at = "count collections"]>>)
                        EXCEPT !.count = Cardinality(LikeDataObjects(f.from))]]
              /\ NoChange
           \/ Throw(c)

(* Mutant: the collection itself is not counted. *)
CountCollectionsBelow(c) ==
    LET f == Top(c)
        count == client[c].count + Cardinality(LikeCollections(f.from) \ {f.from})
    IN  /\ At(c, "remove", "count collections")
        /\ IF count = 0
             THEN Return(c, "false")
             ELSE client' = [client EXCEPT ![c] =
                    [Become(c, <<[f EXCEPT !.at = "stat"]>>) EXCEPT !.count = count]]
        /\ NoChange

CountCollections(c) ==
    LET f == Top(c)
        count == client[c].count + Cardinality(LikeCollections(f.from))
    IN  /\ At(c, "remove", "count collections")
        /\ \/ /\ IF count = 0
                   THEN Return(c, "false")
                   ELSE client' = [client EXCEPT ![c] =
                          [Become(c, <<[f EXCEPT !.at = "stat"]>>) EXCEPT !.count = count]]
              /\ NoChange
           \/ Throw(c)

RemoveEnds(c) ==
    /\ Ready(c, "remove")
    /\ \/ TooLong(Top(c)) /\ Throw(c)
       \/ ~TooLong(Top(c)) /\ ~Found(Top(c).seen[1]) /\ Return(c, "false") /\ NoChange

FoundKind(c, kind) == ~TooLong(Top(c)) /\ Top(c).seen[1].kind = kind

RemoveDataObject(c) ==
    LET p == Top(c).from
    IN  /\ Ready(c, "remove") /\ FoundKind(c, "data")
        /\ CallOrFalse(c, Is(p, "data"), Without({p}))

\* is_collection_empty. The handle of an empty collection is left open.
RemoveProbe(c) ==
    LET f == Top(c)
    IN  /\ Ready(c, "remove") /\ FoundKind(c, "coll") /\ "recursive" \notin f.options
        /\ \/ /\ CanOpen(f.from) /\ Entries(f.from) = {}
              /\ handles' = Opened(handles, {}, "all")
              /\ Continue(c, <<[f EXCEPT !.at = "empty"]>>)
              /\ UNCHANGED cat
           \/ OpenFails(c, f.from, {}, handles)

RemoveCollection(c) ==
    LET f == Top(c)
        recursive == "recursive" \in f.options
    IN  /\ At(c, "remove", "empty") \/ (Ready(c, "remove") /\ FoundKind(c, "coll") /\ recursive)
        /\ CallOrFalse(c, Is(f.from, "coll") /\ (recursive \/ Children(cat, f.from) = {}),
                       Without(Tree(cat, f.from)))

----------------------------------------------------------------------------
(* rename, and the functions that set an attribute *)

RenameRejects(f) ==
    LET kind == f.seen[1].kind
    IN  \/ Vanished(f) \/ IsPrefix(f.from, f.to) \/ ~Found(f.seen[1])
        \/ Found(f.seen[2]) /\ f.seen[2].kind # kind
        \/ ~Found(f.seen[2]) /\ (\/ ~Found(f.seen[3])
                                 \/ kind = "coll" /\ f.seen[3].kind # "coll")

Renamed(p, r) ==
    LET image == {Moved(q, p, r) : q \in Tree(cat, p)}
    IN  [q \in (DOMAIN cat \ (Tree(cat, p) \cup {r})) \cup image |->
            IF q \in image THEN cat[Moved(q, r, p)] ELSE cat[q]]

\* The server renames as UNIX does.
Rename(c) ==
    LET f == Top(c)
    IN  /\ Ready(c, "rename")
        /\ IF TooLong(f) THEN Throw(c)
           ELSE IF ~Vanished(f) /\ Equivalent(f) THEN Return(c, "true") /\ NoChange
           ELSE IF RenameRejects(f) THEN Throw(c)
           ELSE Call(c, /\ Found(Look(f.from)) /\ Is(Parent(f.to), "coll")
                        /\ \/ ~Found(Look(f.to))
                           \/ Is(f.to, Look(f.from).kind) /\ Children(cat, f.to) = {},
                     Renamed(f.from, f.to))

\* A function that sets a field of the object at a path. All but permissions
\* look at what the object is, and tell the server.
Update(c, name, kinds, field, value) ==
    LET f == Top(c)
        kind == IF name = "permissions" THEN Look(f.from).kind ELSE f.seen[1].kind
    IN  /\ Ready(c, name)
        /\ IF TooLong(f) \/ kind \notin kinds THEN Throw(c)
           ELSE Call(c, Is(f.from, kind), With(f.from, [Look(f.from) EXCEPT ![field] = value]))

LastWriteTime(c) == Update(c, "last_write_time", {"data", "coll"}, "mtime", 1)
Permissions(c) == Update(c, "permissions", {"data", "coll"}, "perms", 2)
SetMetadata(c) == Update(c, "set_metadata", {"data", "coll"}, "avu", 1)
RemoveMetadata(c) == Update(c, "remove_metadata", {"data", "coll"}, "avu", 0)

\* data_object_checksum calculates a checksum if it is to, of one replica or
\* of all, and then asks for those there are.
ChecksumRejects(f) ==
    TooLong(f) \/ f.seen[1].kind # "data" \/ {"calculate", "no such replica"} \subseteq f.options

DataObjectChecksum(c) ==
    LET f == Top(c)
    IN  /\ Ready(c, "data_object_checksum")
        /\ \/ /\ ~ChecksumRejects(f)
              /\ IF "calculate" \in f.options
                   THEN Is(f.from, "data") /\ cat' = With(f.from, [Look(f.from) EXCEPT !.sum = 1])
                   ELSE UNCHANGED cat
              /\ Continue(c, <<[f EXCEPT !.at = "query"]>>)
              /\ UNCHANGED handles
           \/ Throw(c)

QueryChecksums(c) ==
    /\ At(c, "data_object_checksum", "query")
    /\ (Return(c, "true") /\ NoChange) \/ Throw(c)

----------------------------------------------------------------------------
(* A walk: a loop with a recursive_collection_iterator, which may decline *)
(* to enter a collection, or leave the one it is in.                      *)

Walk(c) == client[c].walk
Here(c) == Last(Walk(c))
WalkAt(c, step) == At(c, "walk", step)
Goto(c, step, walk) ==
    client' = [client EXCEPT ![c] = [Become(c, <<[Top(c) EXCEPT !.at = step]>>) EXCEPT !.walk = walk]]
WalkEnds(c) == client' = [client EXCEPT ![c] =
                    [Become(c, <<>>) EXCEPT !.walk = <<>>, !.outcome = "true"]]

\* The constructor: it opens p and reads the first entry, if there is one.
OpenOnto(c, p, walk, H) ==
    LET first(handle, e, left, read) ==
            /\ handles' = Opened(H, left, read)
            /\ Goto(c, "visit", Append(walk, [handle |-> handle, entry |-> e]))
    IN  \/ /\ CanOpen(p)
           /\ IF Entries(p) = {} THEN first(0, NoEntry, {}, "all")
              ELSE \E e \in Entries(p) : first(NewHandle(H), e, Entries(p) \ {e}, "some")
           /\ UNCHANGED cat
        \/ OpenFails(c, p, {i.handle : i \in ToSet(walk)}, H)

WalkOpen(c) ==
    /\ WalkAt(c, "stat")
    /\ OpenOnto(c, Top(c).from, <<>>, handles)

WalkVisit(c) ==
    LET p == Here(c).entry.path
    IN  /\ WalkAt(c, "visit") /\ Here(c).entry # NoEntry
        /\ client' = [client EXCEPT ![c] = [Become(c, <<[Top(c) EXCEPT !.at = "visited"]>>)
                EXCEPT !.visited = @ \cup {p}, !.twice = @ \/ p \in client[c].visited]]
        /\ NoChange

\* An iterator on the stack that is at its end has no entry to show: the
\* process reads a null pointer.
WalkCrash(c) == WalkAt(c, "visit") /\ Here(c).entry = NoEntry /\ Crash(c)

\* What ++ of the iterator at the top leaves. One that reads the end forgets
\* its handle, which stays open, and is taken off the stack.
Advances(c) ==
    LET i == Here(c)
        left == handles[i.handle].left
    IN  IF left = {}
          THEN {[walk |-> Front(Walk(c)), handles |-> [handles EXCEPT ![i.handle].read = "all"]]}
          ELSE {[walk |-> Append(Front(Walk(c)), [i EXCEPT !.entry = e]),
                 handles |-> [handles EXCEPT ![i.handle].left = left \ {e}]] : e \in left}

Skips(c, paths) == client' = [client EXCEPT ![c] =
    [Become(c, <<[Top(c) EXCEPT !.at = "declined"]>>) EXCEPT !.skipped = @ \cup paths]]

\* disable_recursion_pending
WalkDecline(c) ==
    /\ WalkAt(c, "visited") /\ Here(c).entry.kind = "coll"
    /\ Skips(c, Below(cat, Here(c).entry.path))
    /\ NoChange

\* pop: the iterator below has moved on already.
WalkPop(c) ==
    LET skipped == Below(cat, Here(c).entry.path)
                     \cup UNION {Tree(cat, e.path) : e \in handles[Here(c).handle].left}
    IN  /\ WalkAt(c, "visited")
        /\ handles' = Closed(handles, {Here(c).handle})
        /\ client' = [client EXCEPT ![c] =
               IF Len(Walk(c)) = 1
                 THEN [Become(c, <<>>) EXCEPT !.walk = <<>>, !.outcome = "true",
                                              !.skipped = @ \cup skipped]
                 ELSE [Become(c, <<[Top(c) EXCEPT !.at = "visit"]>>)
                         EXCEPT !.walk = Front(@), !.skipped = @ \cup skipped]]
        /\ UNCHANGED cat

\* is_empty: the status of the entry, and whether a data object has a size.
WalkStat(c) ==
    LET path == Here(c).entry.path
        found == Look(path).kind
    IN  /\ WalkAt(c, "visited") /\ Here(c).entry.kind = "coll"
        /\ \/ found = "coll" /\ Goto(c, "probe", Walk(c)) /\ NoChange
           \/ found = "data" /\ (\E s \in {"over", "into"} : Goto(c, s, Walk(c))) /\ NoChange
           \/ Len(path) > MaxDepth /\ Crash(c)
           \/ Throw(c)

\* is_empty of a collection, which leaves the handle of an empty one open.
WalkProbe(c) ==
    LET p == Here(c).entry.path
    IN  /\ WalkAt(c, "probe")
        /\ \/ /\ CanOpen(p)
              /\ IF Entries(p) = {}
                   THEN handles' = Opened(handles, {}, "all") /\ Goto(c, "over", Walk(c))
                   ELSE UNCHANGED handles /\ Goto(c, "into", Walk(c))
              /\ UNCHANGED cat
           \/ OpenFails(c, p, Owned(c), handles)

(* Mutant: the iterator is not moved before the collection is entered. *)
WalkIntoAgain(c) ==
    /\ WalkAt(c, "into")
    /\ OpenOnto(c, Here(c).entry.path, Walk(c), handles)

\* The iterator moves on before its collection is entered, so that it need
\* not when the walk comes back.
WalkInto(c) ==
    /\ WalkAt(c, "into")
    /\ \/ \E a \in Advances(c) : OpenOnto(c, Here(c).entry.path, a.walk, a.handles)
       \/ Throw(c)

WalkOver(c) ==
    /\ \/ WalkAt(c, "over") \/ WalkAt(c, "declined")
       \/ WalkAt(c, "visited") /\ Here(c).entry.kind # "coll"
    /\ \/ \E a \in Advances(c) :
            /\ handles' = a.handles
            /\ IF a.walk = <<>> THEN WalkEnds(c) ELSE Goto(c, "visit", a.walk)
            /\ UNCHANGED cat
       \/ Throw(c)

----------------------------------------------------------------------------

Init ==
    /\ cat \in Catalogs
    /\ handles = <<>>
    /\ client \in [Clients -> {Client(Frame("none", <<>>, <<>>, {}), program) :
                                  program \in UNION {Programs[c] : c \in Clients}}]
    /\ \A c \in Clients : client[c].todo \in Programs[c]
    /\ before = [c \in Clients |-> <<>>]

Start(c) ==
    /\ ~Busy(c) /\ client[c].todo # <<>> /\ client[c].outcome # "crashed"
    /\ LET f == Head(client[c].todo)
       IN  client' = [client EXCEPT ![c] = [Client(f, Tail(client[c].todo)) EXCEPT !.frames = <<f>>]]
    /\ before' = [before EXCEPT ![c] = cat]
    /\ NoChange

Copying(c) ==
    \/ CopyThrows(c) \/ CopyOfDataObject(c) \/ CopyOfCollection(c) \/ CopyOpen(c)
    \/ CopyNext(c) \/ CopyDataObject(c)
Creating(c) ==
    \/ CreateCollection(c) \/ CreateCollectionLike(c) \/ CreatedLike(c)
    \/ CreateCollections(c)
Removing(c) ==
    \/ CountDataObjects(c) \/ CountCollections(c) \/ RemoveEnds(c)
    \/ RemoveDataObject(c) \/ RemoveProbe(c) \/ RemoveCollection(c)
Updating(c) ==
    \/ LastWriteTime(c) \/ Permissions(c) \/ SetMetadata(c) \/ RemoveMetadata(c)
    \/ DataObjectChecksum(c) \/ QueryChecksums(c)
Walking(c) ==
    \/ WalkOpen(c) \/ WalkVisit(c) \/ WalkCrash(c) \/ WalkDecline(c) \/ WalkPop(c)
    \/ WalkStat(c) \/ WalkProbe(c) \/ WalkInto(c) \/ WalkOver(c)

\* Whoever changes the catalog changes it for the others.
Step(c) ==
    /\ Stat(c) \/ Copying(c) \/ Creating(c) \/ Removing(c) \/ Walking(c)
         \/ Rename(c) \/ Updating(c)
    /\ before' = [d \in Clients |-> IF d # c /\ cat' # cat THEN <<>> ELSE before[d]]

Next == \E c \in Clients : Start(c) \/ Step(c)

Spec == Init /\ [][Next]_vars

\* Calls of the API return, and some client that is busy goes on.
FairSpec == Spec /\ WF_vars(\E c \in Clients : Step(c))

----------------------------------------------------------------------------
(* Properties *)

\* The variables have values of their types, and who is in a call has no
\* outcome yet.
TypeOK ==
    /\ \A p \in DOMAIN cat : cat[p].kind \in Kinds
    /\ \A h \in DOMAIN handles :
         /\ handles[h].read \in {"none", "some", "all"}
         /\ \A e \in handles[h].left : e.kind \in Kinds
    /\ \A c \in Clients :
         /\ client[c].outcome \in {"none", "true", "false", "thrown", "crashed"}
         /\ Busy(c) => client[c].outcome = "none"
         /\ Walk(c) # <<>> => Busy(c) /\ Top(c).name = "walk"

\* The client has finished with this outcome, and nobody else changed the
\* catalog since it began.
Quietly(c, name, outcome) ==
    client[c].op.name = name /\ client[c].outcome = outcome /\ before[c] # <<>>

\* What copy makes of the collection at f.from in the catalog C.
Image(C, f) ==
    {q \in Tree(C, f.from) :
        /\ f.options = {} \/ "recursive" \in f.options
        /\ C[q].kind = "data" => "collections_only" \notin f.options
        /\ f.options = {} => q = f.from \/ (Parent(q) = f.from /\ C[q].kind = "data")}

\* Where copy puts what is at q in B: a data object goes into a collection
\* that has its name.
Landing(B, f, q) ==
    LET r == Moved(q, f.from, f.to)
    IN  IF B[q].kind = "data" /\ r \in DOMAIN B /\ B[r].kind = "coll" THEN Append(r, Last(q)) ELSE r

\* A copy that returns has made the image of its source in an otherwise
\* quiet catalog: all of the tree if it is recursive, its data objects if
\* there are no options, and nothing else; what existed is as it was. Not so
\* one onto a collection it is below, which may find its own copies.
CopyIsImage ==
    \A c \in Clients :
        LET B == before[c]
            f == client[c].op
        IN  /\ Quietly(c, "copy", "true") /\ f.from \in DOMAIN B /\ B[f.from].kind = "coll"
            /\ ~IsPrefix(f.from, f.to) /\ ~IsPrefix(f.to, f.from)
            => /\ DOMAIN cat = DOMAIN B \cup {Landing(B, f, q) : q \in Image(B, f)}
               /\ \A p \in DOMAIN B : cat[p] = B[p]
               /\ \A q \in Image(B, f) :
                    LET new == cat[Landing(B, f, q)]
                    IN  new.kind = B[q].kind /\ (new.kind = "data" => new.data = B[q].data)

\* remove_all counts everything it removes.
RemoveAllCounts ==
    \A c \in Clients :
        Quietly(c, "remove", "true") /\ "recursive" \in client[c].op.options =>
          client[c].count >= Cardinality(DOMAIN before[c] \ DOMAIN cat)

\* A walk sees nothing twice, and one that finishes in a quiet catalog has
\* seen everything but what it declined to enter or left. It crashes there
\* only if it began in an empty collection, or on a path that is too long,
\* as a rename may have made it.
WalkVisitsOnce ==
    \A c \in Clients :
        /\ Quietly(c, "walk", client[c].outcome) => ~client[c].twice
        /\ Quietly(c, "walk", "true") =>
             client[c].visited = Below(before[c], client[c].op.from) \ client[c].skipped
        /\ Quietly(c, "walk", "crashed") =>
             LET below == Below(before[c], client[c].op.from)
             IN  below = {} \/ \E q \in below : Len(q) > MaxDepth

\* The types, and what a walk sees.
WalkInv == TypeOK /\ WalkVisitsOnce

\* The iterators of the clients own open handles, each its own, and a handle
\* that nobody owns is one of two kinds of leak: its end was read, by an
\* iterator that forgot it, or its first entry could not be.
HandlesAccounted ==
    /\ \A c \in Clients : Owned(c) \subseteq {h \in DOMAIN handles : handles[h].read = "some"}
    /\ \A c, d \in Clients : c # d => Owned(c) \cap Owned(d) = {}
    /\ \A h \in DOMAIN handles : handles[h].read = "some" => \E c \in Clients : h \in Owned(c)

\* The data of an object is lost only to a client that was asked to: to
\* remove it, to rename something to its path, or to copy with
\* overwrite_existing.
Asked(f, p) ==
    \/ f.name = "remove" /\ IsPrefix(f.from, p)
    \/ f.name = "rename" /\ p = f.to
    \/ f.name \in {"copy", "copy_data_object"} /\ "overwrite_existing" \in f.options

KeepsData ==
    \A p \in DOMAIN cat :
        \/ \E q \in DOMAIN cat' : cat'[q].id = cat[p].id /\ cat'[q].data = cat[p].data
        \/ \E c \in Clients : client'[c] # client[c] /\ Asked(client[c].op, p)

\* No call makes a path that is longer than the limit, however copies and
\* collections nest, but for what a rename takes along with a collection.
KeepsLimit ==
    \A p \in DOMAIN cat' \ DOMAIN cat :
        \/ Len(p) <= MaxDepth
        \/ \E c \in Clients : LET f == client[c].op
                             IN  client'[c] # client[c] /\ f.name = "rename" /\ IsPrefix(f.to, p)

CatalogKept == [][KeepsData /\ KeepsLimit]_vars

\* Every operation that begins returns or throws.
OperationsEnd == \A c \in Clients : Busy(c) ~> ~Busy(c)
============================================================================
