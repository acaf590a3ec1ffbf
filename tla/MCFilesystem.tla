---------------------------- MODULE MCFilesystem ----------------------------
(* Catalogs and programs for TLC: one client makes any call, while the     *)
(* other one changes what the first looks at.                              *)
EXTENDS Filesystem

CONSTANTS c1, c2

Coll(n) == [Nothing EXCEPT !.kind = "coll", !.id = n, !.mtime = 1, !.perms = n]
Data(n, mtime) == [Nothing EXCEPT !.kind = "data", !.id = n, !.data = n, !.mtime = mtime, !.perms = 1]

a == <<"a">>    ax == <<"a", "x">>    ab == <<"a", "b">>    abx == <<"a", "b", "x">>
abxx == <<"a", "b", "x", "x">>      abxxx == <<"a", "b", "x", "x", "x">>
aa == <<"aa">>  aax == <<"aa", "x">>  c == <<"c">>          cb == <<"c", "b">>

\* The collection a with a data object and a collection, and aa beside it,
\* which is empty or has an object with the name of one in a; and a line of
\* collections with a path that is too long at its end.
MCCatalogs ==
    LET tree == (<<>> :> Coll(1)) @@ (a :> Coll(2)) @@ (ax :> Data(3, 2)) @@ (ab :> Coll(4))
                  @@ (abx :> Data(5, 1)) @@ (aa :> Coll(6))
        line == (<<>> :> Coll(1)) @@ (a :> Coll(2)) @@ (ab :> Coll(4)) @@ (abx :> Coll(5))
                  @@ (abxx :> Coll(8)) @@ (abxxx :> Coll(9))
    IN  {tree, tree @@ (aax :> Data(7, 1)), tree @@ (aax :> Coll(7)), line}

MCBeginsWith == {<<"a", "aa">>}

Copies ==
    {Frame("copy", a, c, o) : o \in {{}, {"recursive"}, {"recursive", "collections_only"}}}
      \cup {Frame("copy", a, aa, o) :
              o \in {{"recursive"}, {"skip_existing"}, {"recursive", "overwrite_existing"}}}
      \cup {Frame("copy", ax, abx, {o}) :
              o \in {"skip_existing", "overwrite_existing", "update_existing"}}
      \cup {Frame("copy", a, ab, {"recursive"}), Frame("copy", ax, aa, {}), Frame("copy", a, ax, {})}

RemoveAll(p) == [Frame("remove", p, <<>>, {"recursive"}) EXCEPT !.at = "count data"]
RemoveOne(p) == Frame("remove", p, <<>>, {})

Others ==
    {Frame("create_collection_like", c, a, {}), Frame("create_collections", cb, <<>>, {}),
     Frame("create_collection", ax, <<>>, {}),
     Frame("copy_data_object", ax, abx, {"overwrite_existing"}),
     RemoveOne(abx), RemoveOne(ab), RemoveOne(aa), RemoveAll(a), RemoveAll(aa), RemoveAll(cb),
     Frame("rename", ab, c, {}), Frame("rename", a, ab, {}), Frame("rename", ax, abx, {}),
     Frame("rename", ax, c, {})}
    \cup {Frame(name, ax, <<>>, {}) : name \in {"last_write_time", "permissions", "set_metadata",
                                                "remove_metadata"}}
    \cup {Frame("data_object_checksum", ax, <<>>, o) :
            o \in {{}, {"calculate"}, {"calculate", "no such replica"}}}
    \cup {Frame("walk", a, <<>>, {}), Frame("walk", aa, <<>>, {})}

Disturbances ==
    {<<RemoveOne(abx)>>, <<Frame("create_collection", c, <<>>, {})>>,
     <<Frame("rename", ab, c, {}), Frame("rename", ax, ab, {})>>,
     <<>>}

MCPrograms == (c1 :> {<<f>> : f \in Copies \cup Others}) @@ (c2 :> Disturbances)
=============================================================================
