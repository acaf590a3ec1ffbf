------------------------------- MODULE Packing -------------------------------
(***************************************************************************)
(* packStruct and unpackStruct: a C structure becomes a sequence of bytes  *)
(* or an XML document by walking a pack instruction, and the other side    *)
(* walks the same instruction to build the structure again.  Nothing on    *)
(* the wire says what comes next: both sides must resolve every type, name *)
(* and dimension to the same, from what was packed or unpacked before.     *)
(*                                                                         *)
(* A structure is the sequence of its fields.  A field is the sequence of  *)
(* its elements; a pointer is NULL or what it points to, and an array of   *)
(* pointers a sequence of those.  The wire is a sequence of symbols: a     *)
(* number, a character or a terminated string of the native protocol; a    *)
(* tag, a number or a character of XML.                                    *)
(***************************************************************************)
EXTENDS ApiPackTables, FiniteSets

CONSTANTS
    Values(_, _),  \* the structures of an instruction that are sent
    Lengths,       \* PackConstantTable, with the lengths of this instance
    NULL

ASSUME LengthsAssumption == DOMAIN Lengths = DOMAIN PackConstantTable

VARIABLES phase, message, wire, received
vars == <<phase, message, wire, received>>

Ok == "0"
FormatError == "SYS_PACK_INSTRUCT_FORMAT_ERR"
InputError == "USER_PACKSTRUCT_INPUT_ERR"
Unmatched == "SYS_UNMATCH_PACK_INSTRUCTI_NAME"
NullInput == "SYS_INTERNAL_NULL_INPUT_ERR"
Crash == "SIGFPE"
Garbled == "bytes read as what they are not"

NullPointer == <<"str", <<"%@#ANULLSTR$%">>>>   \* NULL_PTR_PACK_STR on the wire
-----------------------------------------------------------------------------
(* The instruction *)

PackTypes == {"char", "bin", "str", "piStr", "int", "double", "struct", "?", "%", "int16"}
Numbers == {"int", "int16", "double"}
Texts == {"str", "piStr"}

\* The start of an item; of its key, when it depends on another one.
Unread == [type |-> "", mark |-> "", name |-> Word(""), key |-> ""]

ParseToken(s, t) ==
    LET Reject == [s EXCEPT !.status = FormatError]
        Take(item) == [s EXCEPT !.item = item, !.opened = TRUE]
    IN  CASE s.status # Ok -> s
          [] s.item.type = "?" /\ s.item.key = "" -> Take([s.item EXCEPT !.key = t.text])
          [] t.text = ";" ->
               IF s.item.type = "" THEN Take(Unread)
               ELSE IF s.item.name.text = "" THEN Reject
               ELSE [s EXCEPT !.items = Append(@, s.item), !.item = Unread, !.opened = FALSE]
          [] t.text \in {"*", "#", "$"} ->
               IF s.item.type = "" \/ s.item.name.text # "" THEN Reject
               ELSE Take([s.item EXCEPT !.mark = t.text])
          [] s.item.type = "" ->
               IF t.text \in PackTypes THEN Take([s.item EXCEPT !.type = t.text]) ELSE Reject
          [] s.item.name.text = "" /\ t.text \notin {"?", "%"} -> Take([s.item EXCEPT !.name = t])
          [] OTHER -> Reject

Parsed(s) == [items |-> s.items, status |-> IF s.opened THEN FormatError ELSE s.status]
parsePackInstruct(tokens) ==
    Parsed(Fold(ParseToken, [status |-> Ok, items |-> <<>>, item |-> Unread, opened |-> TRUE], tokens))

Names == DOMAIN RodsPackTable \cup DOMAIN ApiPackTable

matchPackInstruct(name) ==
    IF name \in DOMAIN RodsPackTable THEN RodsPackTable[name] ELSE ApiPackTable[name].instruction

\* Every instruction of the tables, parsed.
Instructions == [name \in Names |-> parsePackInstruct(matchPackInstruct(name))] @@ <<>>

Product(numbers) == Fold(LAMBDA m, n : m * n, 1, numbers)

(* A name in brackets or a key is an earlier item of this instruction, or  *)
(* one of those around it, nearest first: the scope.                       *)
Find(scope, name, type) == SelectInSeq(scope, LAMBDA e : e.name = name /\ e.type = type)

resolveIntInItem(name, scope) ==
    LET i == Find(scope, name, "int")
    IN  IF i > 0 THEN scope[i].int
        ELSE IF name \in DOMAIN Lengths THEN Lengths[name] ELSE -1

resolveStrInItem(item, scope) ==
    LET i == Find(scope, item.key, "piStr")
    IN  IF i = 0 THEN [item EXCEPT !.type = FormatError]
        ELSE [item EXCEPT !.type = "struct", !.name = Word(scope[i].str)]

resolveIntDepItem(item, scope) ==
    LET key == resolveIntInItem(item.name.text, scope)
        i == SelectInSeq(item.name.cases, LAMBDA c : key \in c.of \/ c.of = {})
    IN  IF key < 0 \/ i = 0 THEN [item EXCEPT !.type = FormatError]
        ELSE parsePackInstruct(item.name.cases[i].item).items[1]

Determined(item, scope) ==
    CASE item.type = "?" -> resolveStrInItem(item, scope)
      [] item.type = "%" -> resolveIntDepItem(item, scope)
      [] OTHER -> item

ResolvedItem(item, dims, hints, null) ==
    [status |-> IF \/ item.type = FormatError
                   \/ \E n \in Range(dims) \cup Range(hints) : n < 0
                   \/ item.name.text = "" /\ (item.mark = "" \/ ~null)
                THEN FormatError ELSE Ok,
     type |-> item.type, mark |-> item.mark,
     name |-> IF item.name.text = "" THEN "STR_PTR_PI" ELSE item.name.text,
     dims |-> dims, hints |-> hints]

resolveDepInArray(item, scope, null) ==
    LET Lookup(names) == [i \in DOMAIN names |-> resolveIntInItem(names[i], scope)]
    IN  ResolvedItem(item, Lookup(item.name.dims), Lookup(item.name.hints), null)

resolvePackedItem(item, scope, null) == resolveDepInArray(Determined(item, scope), scope, null)

\* What later items may find of one that is packed or unpacked.
intValue(r, field) ==
    IF r.type = "int" /\ r.mark = "" /\ field # <<>> /\ field[1] > 0 THEN field[1] ELSE 0
strValue(r, field) ==
    IF r.type = "piStr" /\ field # NULL /\ field # <<>> /\ field[1] # <<>> THEN field[1][1] ELSE ""
Entry(r, field) ==
    [name |-> r.name, type |-> r.type, int |-> intValue(r, field), str |-> strValue(r, field)]

\* The items of a structure resolved against its fields.
Resolved(items, fields, outer) ==
    LET Seen(acc, r, e) == [done |-> Append(acc.done, r @@ [scope |-> <<e>> \o acc.seen \o outer]),
                            seen |-> <<e>> \o acc.seen]
        With(acc, r, field) == Seen(acc, r, Entry(r, field))
        Scope(acc) == IF acc.done = <<>> THEN <<>> ELSE acc.seen \o outer
        Step(acc, i) ==
          With(acc, resolvePackedItem(items[i], Scope(acc), fields[i] = NULL), fields[i])
    IN  Iterate(Step, [done |-> <<>>, seen |-> <<>>], Len(items)).done
-----------------------------------------------------------------------------
(* Packing *)

Out(symbols) == [status |-> Ok, symbols |-> symbols]
Fails(status) == [status |-> status, symbols |-> <<>>]
Join(Part(_), n) ==
    LET Joined(all, o) == IF o.status = Ok THEN [all EXCEPT !.symbols = @ \o o.symbols] ELSE o
        Step(all, i) == IF all.status = Ok THEN Joined(all, Part(i)) ELSE all
    IN  Iterate(Step, Out(<<>>), n)

packXmlTag(prot, name, o) ==
    IF prot = "XML_PROT" /\ o.status = Ok
    THEN Out(<<<<"<>", name>>>> \o o.symbols \o <<<<"</>", name>>>>) ELSE o

packChar(prot, r, chars) ==
    IF chars = <<>> THEN Out(<<>>)
    ELSE packXmlTag(prot, r.name,
           Out(IF prot = "XML_PROT" /\ r.type = "bin" THEN <<<<"base64", chars>>>>
               ELSE [i \in DOMAIN chars |-> <<r.type, chars[i]>>]))

packNumbers(prot, r, numbers) ==
    Join(LAMBDA i : packXmlTag(prot, r.name, Out(<<<<r.type, numbers[i]>>>>)), Len(numbers))

Escapes ==
    ("&" :> "&amp;") @@ ("<" :> "&lt;") @@ (">" :> "&gt;") @@ ("quote" :> "&quot;")
      @@ ("backtick" :> "&apos;")
strToXmlStr(s) ==
    [i \in DOMAIN s |-> <<"char", IF s[i] \in DOMAIN Escapes THEN Escapes[s[i]] ELSE s[i]>>]

packStringTight(prot, r, max, s) ==
    IF s = NULL \/ (max >= 0 /\ Len(s) + 1 >= max) THEN Fails(InputError)
    ELSE packXmlTag(prot, r.name, Out(IF prot = "XML_PROT" THEN strToXmlStr(s) ELSE <<<<"str", s>>>>))

\* A maximum of -1 is that of a string that only its end bounds.
packString(prot, r, max, s) ==
    IF s = NULL
    THEN IF prot = "XML_PROT" THEN Fails(NullInput) ELSE Out(<<<<"str", <<>>>>>>)
    ELSE IF max >= 0 /\ Len(s) >= max THEN Fails(InputError)
    ELSE packXmlTag(prot, r.name, Out(IF prot = "XML_PROT" THEN strToXmlStr(s) ELSE <<<<"str", s>>>>))

RECURSIVE packChildStruct(_, _, _, _, _)

packElements(table, prot, r, max, elements) ==
    CASE r.type \in {"char", "bin"} -> packChar(prot, r, elements)
      [] r.type \in Texts -> Join(LAMBDA i : packString(prot, r, max, elements[i]), Len(elements))
      [] r.type \in Numbers -> packNumbers(prot, r, elements)
      [] r.type = "struct" -> packChildStruct(table, prot, r.name, elements, r.scope)

\* The length of a string in a structure, and of one behind a pointer.
Room(r) == IF r.type \in Texts /\ r.dims # <<>> THEN Last(r.dims) ELSE -1
RoomBehind(r) == IF r.hints = <<>> THEN -1 ELSE Last(r.hints)

packNonpointerItem(table, prot, r, field) ==
    IF Room(r) = 0 THEN Fails(Crash) ELSE packElements(table, prot, r, Room(r), field)

packPointerItem(table, prot, r, field) ==
    CASE field = NULL -> Out(IF prot = "NATIVE_PROT" THEN <<NullPointer>> ELSE <<>>)
      [] field # NULL /\ r.type \in Texts /\ Product(r.hints) = 0 -> Out(<<>>)
      [] OTHER ->
           LET Pointer(i) ==
                 packElements(table, prot, r, RoomBehind(r), IF r.dims = <<>> THEN field ELSE field[i])
           IN  Join(Pointer, IF r.dims = <<>> THEN 1 ELSE Len(field))

packItem(table, prot, r, field) ==
    IF r.status # Ok THEN Fails(r.status)
    ELSE IF r.mark = "" THEN packNonpointerItem(table, prot, r, field)
    ELSE packPointerItem(table, prot, r, field)

packItems(table, prot, rs, fields) == Join(LAMBDA i : packItem(table, prot, rs[i], fields[i]), Len(rs))

packChildStruct(table, prot, name, structs, scope) ==
    IF structs = <<>> THEN Out(<<>>)
    ELSE IF name \notin DOMAIN table THEN Fails(Unmatched)
    ELSE IF table[name].status # Ok THEN Fails(table[name].status)
    ELSE LET Part(i) ==
               LET rs == Resolved(table[name].items, structs[i], scope)
               IN  packXmlTag(prot, name, packItems(table, prot, rs, structs[i]))
         IN  Join(Part, Len(structs))

packStruct(table, prot, name, struct) == packChildStruct(table, prot, name, <<struct>>, <<>>)
-----------------------------------------------------------------------------
(* Unpacking *)

Got(at, value) == [status |-> Ok, at |-> at, value |-> value]
Not(status, at) == [status |-> status, at |-> at, value |-> <<>>]

\* n values one after the other.
Repeat(Read(_), n, at) ==
    LET Appended(acc, x) == [x EXCEPT !.value = Append(acc.value, x.value)]
        Step(acc, i) == IF acc.status = Ok THEN Appended(acc, Read(acc.at)) ELSE acc
    IN  Iterate(Step, Got(at, <<>>), n)

\* The next symbol, when it is of the kind that is read.
NextSymbol(w, kind, at) ==
    IF at <= Len(w) /\ w[at][1] = kind THEN Got(at + 1, w[at][2]) ELSE Not(Garbled, at)

(* parseXmlTag: a start tag is the next "<" of the text, an end tag the     *)
(* next one of its name; the text ends at a zero character.                *)
Zero == <<"char", "NUL">>
First(w, at, Test(_)) ==
    IF \E i \in at .. Len(w) : Test(w[i])
    THEN CHOOSE i \in at .. Len(w) : Test(w[i]) /\ \A j \in at .. i - 1 : ~Test(w[j])
    ELSE 0
Tag(w, i, tag) == IF i > 0 /\ w[i] = tag THEN i ELSE 0
startTag(w, name, at) ==
    Tag(w, First(w, at, LAMBDA x : x[1] \in {"<>", "</>"} \/ x \in {Zero, <<"char", "<">>}),
        <<"<>", name>>)
endTag(w, name, at) ==
    Tag(w, First(w, at, LAMBDA x : x \in {Zero, <<"</>", name>>}), <<"</>", name>>)

Between(w, at, start, end) ==
    IF start = 0 \/ end = 0 THEN Not(FormatError, at) ELSE Got(end + 1, SubSeq(w, start + 1, end - 1))
After(w, name, at, start) == Between(w, at, start, endTag(w, name, start + 1))
parseXmlValue(w, name, at) == After(w, name, at, startTag(w, name, at))

OneNumber(x, at) ==
    IF x.status = Ok /\ Len(x.value) = 1 THEN Got(x.at, x.value[1][2]) ELSE Not(Garbled, at)
unpackNumber(prot, r, w, at) ==
    IF prot = "NATIVE_PROT" THEN NextSymbol(w, r.type, at)
    ELSE OneNumber(parseXmlValue(w, r.name, at), at)

CharsOf(r, text) ==
    IF r.type = "bin" /\ text # <<>> THEN text[1][2] ELSE [i \in DOMAIN text |-> text[i][2]]
XmlChars(r, n, x, at) ==
    IF x.status # Ok THEN Not(IF r.mark = "" THEN Garbled ELSE x.status, at)
    ELSE IF Len(CharsOf(r, x.value)) = n THEN Got(x.at, CharsOf(r, x.value)) ELSE Not(Garbled, at)
unpackChar(prot, r, n, w, at) ==
    IF n = 0 THEN Got(at, <<>>)
    ELSE IF prot = "NATIVE_PROT" THEN Repeat(LAMBDA i : NextSymbol(w, r.type, i), n, at)
    ELSE XmlChars(r, n, parseXmlValue(w, r.name, at), at)

xmlStrToStrOnce(text) == [i \in DOMAIN text |-> text[i][2]]
xmlStrToStr(text) ==
    [i \in DOMAIN text |->
       IF \E c \in DOMAIN Escapes : Escapes[c] = text[i][2]
       THEN CHOOSE c \in DOMAIN Escapes : Escapes[c] = text[i][2] ELSE text[i][2]]

\* unpackNatString, for a string in a structure, wants room that
\* unpackNatStringToOutPtr and the XML forms do not.
Fits(prot, r, max, s) ==
    max < 0 \/ Len(s) + (IF prot = "NATIVE_PROT" /\ r.mark = "" THEN 1 ELSE 0) < max

Text(prot, r, max, x, s, at) ==
    IF x.status # Ok THEN Not(x.status, at)
    ELSE IF Fits(prot, r, max, s) THEN Got(x.at, s) ELSE Not(InputError, at)
unpackNatString(r, max, x, at) == Text("NATIVE_PROT", r, max, x, x.value, at)
unpackXmlString(r, max, x, at) == Text("XML_PROT", r, max, x, xmlStrToStr(x.value), at)
unpackString(prot, r, max, w, at) ==
    IF prot = "NATIVE_PROT" THEN unpackNatString(r, max, NextSymbol(w, "str", at), at)
    ELSE unpackXmlString(r, max, parseXmlValue(w, r.name, at), at)

RECURSIVE unpackChildStruct(_, _, _, _, _)

unpackElements(table, prot, r, n, max, w, at) ==
    LET Numeric(i) == unpackNumber(prot, r, w, i)
        String(i) == unpackString(prot, r, max, w, i)
        Child(i) == unpackChildStruct(table, prot, r, w, i)
    IN  CASE r.type \in {"char", "bin"} -> unpackChar(prot, r, n, w, at)
          [] r.type \in Texts -> Repeat(String, n, at)
          [] r.type \in Numbers -> Repeat(Numeric, n, at)
          [] r.type = "struct" -> Repeat(Child, n, at)

\* How many strings fill the bytes of the dimensions.
Strings(dims) == IF dims = <<>> THEN 1 ELSE Product(dims) \div Last(dims)

unpackNonpointerItem(table, prot, r, w, at) ==
    IF Room(r) = 0 THEN Not(Crash, at)
    ELSE unpackElements(table, prot, r,
           IF Room(r) > 0 THEN Strings(r.dims) ELSE Product(r.dims), Room(r), w, at)

\* A pointer is NULL when the wire says so, then when it has no elements.
NullAt(prot, r, w, at, i) ==
    CASE prot = "XML_PROT" /\ i = 0 -> Got(at, NULL)
      [] prot = "NATIVE_PROT" /\ at <= Len(w) /\ w[at] = NullPointer -> Got(at + 1, NULL)
      [] Product(r.hints) = 0 \/ Product(r.dims) = 0 ->
           Got(IF prot = "XML_PROT" /\ i < Len(w) /\ w[i + 1] = <<"</>", r.name>> THEN i + 2 ELSE at,
               NULL)
      [] OTHER -> Got(at, "not null")
unpackNullString(prot, r, w, at) ==
    NullAt(prot, r, w, at, IF prot = "XML_PROT" THEN startTag(w, r.name, at) ELSE at)

unpackPointerItem(table, prot, r, w, at) ==
    LET Pointer(i) ==
          unpackElements(table, prot, r, IF r.type \in Texts THEN Strings(r.hints) ELSE Product(r.hints),
                         RoomBehind(r), w, i)
        Single(x) == IF r.dims = <<>> THEN [x EXCEPT !.value = x.value[1]] ELSE x
        Unless(null) == IF null.value = NULL THEN null ELSE Single(Repeat(Pointer, Product(r.dims), at))
    IN  Unless(unpackNullString(prot, r, w, at))

unpackItem(table, prot, r, w, at) ==
    IF r.status # Ok THEN Not(r.status, at)
    ELSE IF r.mark = "" THEN unpackNonpointerItem(table, prot, r, w, at)
    ELSE unpackPointerItem(table, prot, r, w, at)

unpackItems(table, prot, items, outer, w, at) ==
    LET Taken(acc, r, x) ==
          [status |-> x.status, at |-> x.at, value |-> Append(acc.value, x.value),
           seen |-> IF x.status = Ok THEN <<Entry(r, x.value)>> \o acc.seen ELSE <<>>]
        Take(acc, r) ==
          Taken(acc, r, unpackItem(table, prot, r @@ [scope |-> <<Entry(r, <<>>)>> \o acc.seen \o outer],
                                   w, acc.at))
        Scope(acc, i) == IF i = 1 THEN <<>> ELSE acc.seen \o outer
        Step(acc, i) == IF acc.status = Ok THEN Take(acc, resolvePackedItem(items[i], Scope(acc, i), TRUE))
                        ELSE acc
    IN  Iterate(Step, Got(at, <<>>) @@ [seen |-> <<>>], Len(items))

\* Behind a pointer a start tag that is missing is a NULL pointer.
unpackChildStruct(table, prot, r, w, at) ==
    LET name == r.name
        xml == prot = "XML_PROT"
        Ended(x, end) == CASE x.status # Ok -> Not(x.status, at)
                           [] xml /\ x.status = Ok /\ end = 0 -> Not(FormatError, at)
                           [] OTHER -> Got(end + 1, x.value)
        Inside(x) == Ended(x, IF xml THEN endTag(w, name, x.at) ELSE x.at - 1)
        Started(start) ==
          IF xml /\ start = 0 THEN IF r.mark = "" THEN Not(FormatError, at) ELSE Got(at, NULL)
          ELSE Inside(unpackItems(table, prot, table[name].items, r.scope, w, start + 1))
    IN  IF name \notin DOMAIN table THEN Not(Unmatched, at)
        ELSE IF table[name].status # Ok THEN Not(table[name].status, at)
        ELSE Started(IF xml THEN startTag(w, name, at) ELSE at - 1)

unpackStruct(table, prot, name, w) ==
    unpackChildStruct(table, prot, [name |-> name, scope |-> <<>>, mark |-> ""], w, 1)
-----------------------------------------------------------------------------
(* Where packing looks, and where the members of the structure are *)

Align(at, boundary) == boundary * ((at + boundary - 1) \div boundary)

\* A dimension that is itself packed is taken as one element.
Extent(dims) ==
    Product([i \in DOMAIN dims |->
               IF dims[i] \in DOMAIN PackConstantTable THEN PackConstantTable[dims[i]] ELSE 1])
Cell(at, size) == [cells |-> <<<<at, size>>>>, at |-> at + size]
Beside(acc, p) == [cells |-> acc.cells \o p.cells, at |-> p.at]
Chain(Place(_), n, at) ==
    Iterate(LAMBDA acc, i : Beside(acc, Place(acc.at)), [cells |-> <<>>, at |-> at], n)

PackedNumberSize == [int |-> 4, int16 |-> 2, double |-> 4]
NumberSize == [int |-> 4, int16 |-> 2, double |-> 8]

RECURSIVE WalkStruct(_, _, _)

alignedRead(table, item, at) ==
    LET n == Extent(item.name.dims)
        Number(i) == Cell(Align(i, NumberSize[item.type]), NumberSize[item.type])
        Child(i) == WalkStruct(table, item.name.text, i)
    IN  CASE item.mark # "" -> Cell(Align(at, 8), 8)
          [] item.type \in Texts \cup {"char", "bin"} -> Cell(at, n)
          [] item.type \in Numbers -> Chain(Number, n, at)
          [] item.type = "struct" -> Chain(Child, n, at)

WalkStruct(table, name, at) ==
    Fold(LAMBDA acc, item : Beside(acc, alignedRead(table, item, acc.at)), [cells |-> <<>>, at |-> at],
         table[name].items)

RECURSIVE Alignment(_)
Alignment(members) ==
    LET Larger(a, b) == IF b > a THEN b ELSE a
    IN  Fold(LAMBDA a, m : Larger(a, IF m.of = <<>> THEN m.size ELSE Alignment(m.of)), 1, members)

RECURSIVE Members(_, _)
Members(members, at) ==
    LET Place(acc, m) ==
          LET Nested(i) == Members(m.of, i)
          IN  Beside(acc, IF m.of = <<>> THEN Cell(Align(acc.at, m.size), m.size * m.count)
                          ELSE Chain(Nested, m.count, acc.at))
        Padded(all, boundary) == [all EXCEPT !.at = Align(all.at, boundary)]
        From(boundary) == Padded(Fold(Place, [cells |-> <<>>, at |-> Align(at, boundary)], members), boundary)
    IN  From(Alignment(members))

Structures == [name \in DOMAIN RodsStructures \cup DOMAIN ApiPackTable |->
                 IF name \in DOMAIN RodsStructures THEN RodsStructures[name]
                 ELSE ApiPackTable[name].members]

\* The members of a structure that packing reads are the first ones it has.
ReadsWhereStored(table, name) ==
    name \in DOMAIN Structures =>
      IsPrefix(WalkStruct(table, name, 0).cells, Members(Structures[name], 0).cells)
-----------------------------------------------------------------------------
(* What the wire can carry.  The protocol marks neither the end of an item *)
(* nor its type, and a NULL pointer only by a string or by its absence.    *)

RECURSIVE Carried(_, _, _, _, _)

CarriedElements(table, prot, r, max, elements) ==
    /\ r.type \in Texts =>
         \A i \in DOMAIN elements : elements[i] # NULL /\ Fits(prot, r, max, elements[i])
    /\ r.type = "char" /\ prot = "XML_PROT" => \A i \in DOMAIN elements : elements[i] # "NUL"
    /\ r.type = "struct" => \A i \in DOMAIN elements : Carried(table, prot, r.name, elements[i], r.scope)

\* A NULL pointer is not taken for a later item of the same name, nor one
\* with elements for a NULL pointer: symbols are those of each item.
CarriedPointer(table, prot, rs, symbols, field, k) ==
    IF field = NULL
    THEN prot = "XML_PROT" =>
           \A i \in k + 1 .. Len(rs) :
             symbols[i] # <<>> /\ (\A j \in k + 1 .. i - 1 : symbols[j] = <<>>) => rs[i].name # rs[k].name
    ELSE /\ symbols[k] # <<>> /\ Head(symbols[k]) # NullPointer
         /\ \A i \in 1 .. IF rs[k].dims = <<>> THEN 1 ELSE Len(field) :
              CarriedElements(table, prot, rs[k], RoomBehind(rs[k]),
                              IF rs[k].dims = <<>> THEN field ELSE field[i])

CarriedItems(table, prot, rs, symbols, struct) ==
    \A k \in DOMAIN rs :
      /\ rs[k].status = Ok
      /\ IF rs[k].mark # "" THEN CarriedPointer(table, prot, rs, symbols, struct[k], k)
         ELSE Room(rs[k]) # 0 /\ CarriedElements(table, prot, rs[k], Room(rs[k]), struct[k])

CarriedResolved(table, prot, rs, struct) ==
    CarriedItems(table, prot, rs,
      [i \in DOMAIN rs |-> IF rs[i].mark = "" /\ prot = "NATIVE_PROT" THEN <<>>
                           ELSE packItem(table, prot, rs[i], struct[i]).symbols], struct)
Carried(table, prot, name, struct, scope) ==
    CarriedResolved(table, prot, Resolved(table[name].items, struct, scope), struct)
-----------------------------------------------------------------------------
(* One message, from the structure of a call to the one at the other side. *)

Protocols == {"NATIVE_PROT", "XML_PROT"}

Messages ==
    UNION {UNION {[prot : Protocols, name : {name}, struct : Values(table, name)] : name \in Names} :
             table \in {Instructions}}

Init ==
    /\ phase = "idle"
    /\ message = <<>>
    /\ wire = Out(<<>>)
    /\ received = Got(1, <<>>)

Call ==
    /\ phase = "idle"
    /\ message' \in Messages
    /\ phase' = "called"
    /\ UNCHANGED <<wire, received>>

\* sendApiRequest packs a structure; of one that is not where the
\* instruction looks (not readable), packing sends what it finds there.
\* Whether the wire can carry it is noted for the properties.
Send ==
    /\ phase = "called"
    /\ \E table \in {Instructions}, m \in {message} :
         LET readable == ReadsWhereStored(table, m.name)
         IN  /\ message' = m @@ [readable |-> readable,
                                 carried |-> Carried(table, m.prot, m.name, m.struct, <<>>)]
             /\ wire' = IF readable THEN packStruct(table, m.prot, m.name, m.struct) ELSE Fails(Garbled)
    /\ phase' = "sent"
    /\ UNCHANGED received

Receive ==
    /\ phase = "sent"
    /\ wire.status = Ok
    /\ received' = unpackStruct(Instructions, message.prot, message.name, wire.symbols)
    /\ phase' = "received"
    /\ UNCHANGED <<message, wire>>

\* Nothing is sent, and the call returns the status.
Refuse ==
    /\ phase = "sent"
    /\ wire.status # Ok
    /\ phase' = "idle"
    /\ message' = <<>>
    /\ wire' = Out(<<>>)
    /\ UNCHANGED received

Next == Call \/ Send \/ Receive \/ Refuse

Spec == Init /\ [][Next]_vars
-----------------------------------------------------------------------------
\* Packing and unpacking stay within the wire, and one that fails leaves
\* nothing behind.
TypeOK ==
    /\ phase \in {"idle", "called", "sent", "received"}
    /\ phase = "idle" <=> message = <<>>
    /\ wire.status # Ok => wire.symbols = <<>>
    /\ phase = "received" => received.at \in 1 .. Len(wire.symbols) + 1

\* unpackStruct builds the structure that packStruct was given, and reads
\* the wire to its end, exactly when the wire can carry it: two walks of
\* one instruction resolve every dimension, type and pointer alike.
ReceivedAsSent ==
    phase = "received" =>
      (received = Got(Len(wire.symbols) + 1, message.struct) <=> message.carried)

\* packStruct refuses nothing that the wire can carry.
CarriedIsSent ==
    phase = "sent" /\ message.readable /\ wire.status # Ok =>
      ~message.carried

\* A call of packStruct succeeds with the wire or fails without one, and
\* fails only of what no wire carries.
SendInv == TypeOK /\ CarriedIsSent

\* packItem finds every member where the compiler has put it.  It does not
\* align an inner structure ("no need to align boundary for struct", says
\* packNonpointerItem): wrong of the one whose members before it end off
\* its boundary.
LayoutAgrees ==
    phase \in {"sent", "received"} => (message.readable <=> message.name # "fileMkdirInp_PI")
=============================================================================
