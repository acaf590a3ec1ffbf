------------------------------ MODULE MCPacking ------------------------------
(* Messages for TLC: of every instruction a structure whose pointers lead   *)
(* somewhere, and those that differ from it in one or two fields.           *)
EXTENDS Packing

RECURSIVE Fields(_, _, _, _, _)

MCLengths ==
    [n \in DOMAIN PackConstantTable |->
       IF n \in {"MAX_SQL_ATTR", "OBJID_DIM", "CHALLENGE_LEN", "MAX_NUM_CONFIG_TRAN_THR"} THEN 2
       ELSE IF n \in {"H5S_MAX_RANK", "H5DATASPACE_MAX_RANK", "RESPONSE_LEN"} THEN 1 ELSE 3]

Marker == NullPointer[2]
Unit == [value |-> <<>>, changes |-> 0]

\* Structures within structures are empty unless a change fills them.
Base(type, deep) ==
    CASE type \in Numbers -> IF deep > 1 THEN 0 ELSE 1
      [] type \in {"char", "bin"} -> "a"
      [] type = "str" -> <<"a">>
      [] type = "piStr" -> <<"KeyValPair_PI">>
Others(type) ==
    CASE type = "int" -> {0, 2, -1}
      [] type \in {"int16", "double"} -> {-1}
      [] type \in {"char", "bin"} -> {"NUL", "<"}
      [] type = "str" -> {<<>>, <<"quote", "backtick">>, Marker}
      [] type = "piStr" -> {<<"INT_PI">>, <<"BinBytesBuf_PI">>, Marker}

\* Only the own fields of these change: the structures in them have messages
\* of their own.
Wide == {"Rei_PI", "RegReplica_PI", "ReiAndArg_PI", "UnregDataObj_PI", "ModDataObjMeta_PI"}

\* Values of n elements with at most budget changes from the plain ones.
Elements(table, r, n, max, budget, deep, wide) ==
    IF r.type = "struct"
    THEN IF r.name \notin DOMAIN table THEN {Unit}
         ELSE {[value |-> [i \in 1 .. n |-> f.value], changes |-> f.changes] :
                 f \in Fields(table, r.name, r.scope, IF deep > 1 \/ wide THEN 0 ELSE budget, deep + 1)}
    ELSE LET fits(v) == r.type \in Texts /\ max >= 0 => Len(v) < max
             plain == IF fits(Base(r.type, deep)) THEN Base(r.type, deep) ELSE <<>>
         IN  {[value |-> [i \in 1 .. n |-> plain], changes |-> 0]} \cup
             IF budget = 0 \/ n = 0 THEN {}
             ELSE {[value |-> [i \in 1 .. n |-> IF i = n THEN v ELSE plain], changes |-> 1] :
                     v \in {v \in Others(r.type) : fits(v)}}

Field(table, r, budget, deep, wide) ==
    LET max == IF r.mark = "" THEN IF r.dims = <<>> THEN -1 ELSE Last(r.dims)
               ELSE IF r.hints = <<>> THEN -1 ELSE Last(r.hints)
        sizes == IF r.mark = "" THEN r.dims ELSE r.hints
        n == IF r.type \in Texts THEN IF max = 0 THEN 0 ELSE Strings(sizes) ELSE Product(sizes)
        m == IF r.mark # "" /\ r.dims # <<>> THEN Product(r.dims) ELSE 1
        null == [value |-> NULL, changes |-> 0]
        Changed(x) == [x EXCEPT !.changes = @ + 1]
        pointed(b) == {IF r.mark # "" /\ r.dims # <<>> THEN [x EXCEPT !.value = [i \in 1 .. m |-> x.value]]
                       ELSE x : x \in Elements(table, r, n, max, b, deep, wide)}
    IN  IF r.mark = "" THEN Elements(table, r, n, max, budget, deep, wide)
        ELSE IF n = 0 \/ m = 0 \/ r.name \in {"STR_PTR_PI"} \/ (r.type = "struct" /\ deep > 1)
        THEN {null} \cup IF budget = 0 \/ r.name = "STR_PTR_PI" \/ deep > 2 THEN {}
                         ELSE {Changed(x) : x \in pointed(0)}
        ELSE pointed(budget) \cup IF budget = 0 THEN {} ELSE {Changed(null)}

Fields(table, name, outer, budget, deep) ==
    LET items == table[name].items
        Step(all, i) ==
          UNION {LET scope == IF i = 1 THEN <<>> ELSE s.seen \o outer
                     r == resolvePackedItem(items[i], scope, FALSE)
                     rr == IF r.status = Ok THEN r ELSE resolvePackedItem(items[i], scope, TRUE)
                     e == Entry(rr, <<>>)
                 IN  {[value |-> Append(s.value, f.value), changes |-> s.changes + f.changes,
                       seen |-> <<Entry(rr, f.value)>> \o s.seen] :
                        f \in Field(table, rr @@ [scope |-> <<e>> \o s.seen \o outer],
                                    budget - s.changes, deep, name \in Wide)} : s \in all}
    IN  Iterate(Step, {Unit @@ [seen |-> <<>>]}, Len(items))

\* Two changes where the fields are few.
Budget(name) ==
    IF name \in {"KeyValPair_PI", "MsParam_PI", "BytesBuf_PI", "InxValPair_PI", "StrArray_PI", "RError_PI",
                 "MsrvcStruct_PI"} THEN 2 ELSE 1
MCValues(table, name) == {f.value : f \in Fields(table, name, <<>>, Budget(name), 1)}
=============================================================================
