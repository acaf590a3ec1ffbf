------------------------- MODULE MCCollectionReader -------------------------
(* Small collections of every kind, read with every set of flags first,    *)
(* and with a few more on the same handle.                                 *)
EXTENDS CollectionReader

C(path, type) == [coll |-> path, parent |-> IF path = Root THEN Root ELSE Front(path), type |-> type]
R(path, id, n, resc) == [coll |-> path, id |-> id, replNum |-> n, replStatus |-> n, resc |-> resc]
A == <<"a">>
B == <<"a", "b">>

Tree == <<C(Root, ""), C(A, ""), C(B, ""), C(<<"a", "c">>, "mountPoint"), C(<<"a", "b", "d">>, ""), C(<<"l">>, "")>>
Flat == <<C(Root, ""), C(A, ""), C(B, "")>>
Odd == <<C(A, ""), C(B, "odd"), C(<<"a", "c">>, "linkPoint")>>

Crossing == <<R(A, 1, 0, "r1"), R(A, 2, 0, "r1"), R(A, 2, 1, "r2"), R(B, 3, 0, "r2"), R(B, 3, 1, "r1")>>
Full == <<R(A, 1, 0, "r2"), R(A, 1, 1, "r1"), R(A, 2, 0, "r1")>>
Many == <<R(A, 1, 0, "r1"), R(A, 2, 0, "r1"), R(A, 2, 1, "r2"), R(A, 2, 2, "r1"), R(A, 3, 0, "r1")>>
Single == <<R(A, 1, 0, "r1"), R(A, 2, 0, "r1"), R(A, 3, 0, "r1")>>

W(top, class, target, colls, objs) ==
    [top |-> top, specColl |-> class, target |-> target, colls |-> colls, objs |-> objs]
MCWorlds ==
    {W(A, "NO_SPEC_COLL", Root, cs, os) : cs \in {Tree, Flat, Odd}, os \in {Crossing, Full, Many, <<>>}}
    \cup {W(Root, "NO_SPEC_COLL", Root, Flat, Full),
          W(<<"long">>, "NO_SPEC_COLL", Root, <<C(<<"long", "b">>, "")>>, <<R(<<"long">>, 1, 0, "r1")>>)}
    \cup {W(<<"l">>, "LINKED_COLL", A, cs, os) : cs \in {Tree, Flat}, os \in {Full, Single}}
    \cup {W(A, class, target, Tree, Single) :
            class \in {"MOUNTED_COLL", "STRUCT_FILE_COLL"}, target \in {Root, A, B}}

Sets == {S \cup L : S \in SUBSET {"DATA_QUERY_FIRST_FG", "RECUR_QUERY_FG", "NO_TRIM_REPL_FG"},
                    L \in {{}, {"LONG_METADATA_FG"}, {"LONG_METADATA_FG", "VERY_LONG_METADATA_FG"}}}
Plain(F) == [flags |-> F, options |-> {}, zeroed |-> TRUE]
With(F, options, zeroed) ==
    [flags |-> F \cup {"INCLUDE_CONDINPUT_IN_QUERY"}, options |-> options, zeroed |-> zeroed]
MCOpenings == <<
    {Plain(F) : F \in Sets} \cup {With(F, {"RESC_NAME_KW"}, TRUE) : F \in SUBSET {"DATA_QUERY_FIRST_FG", "RECUR_QUERY_FG"}},
    {Plain({}), Plain({"DATA_QUERY_FIRST_FG"}), With({}, {"ADMIN_KW", "CHKSUM_ALL_KW", "RESC_NAME_KW"}, TRUE), With({}, {}, FALSE)}>>
=============================================================================
