---- MODULE MCDataStream ----
(***************************************************************************)
(* Instances of DataStream for TLC.                                        *)
(***************************************************************************)
EXTENDS DataStream

CONSTANTS a, b, c

(* Nothing, and three different characters: more than the buffer holds.    *)
SomeObjects == {<<>>, <<a, b, c>>}

(* Streams for input, output, both, and appending, also from the end; a    *)
(* mode that make_open_flags truncates, and one that it refuses.           *)
SomeModes == {{"in"}, {"out"}, {"in", "out"}, {"app"}, {"out", "app", "ate"},
              {"in", "out", "app"}, {"in", "trunc"}}

(* No action reads call: states that differ only in it have the same       *)
(* successors, and every step from one of them is checked.                 *)
AllButCall == <<object, fd, offset, areaVars, buf, stale, offTrack, faulty>>

InputOnly == {{"in"}}
====
