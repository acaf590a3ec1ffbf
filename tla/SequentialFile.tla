---- MODULE SequentialFile ----
(***************************************************************************)
(* What the standard file streams promise a program about one file: the    *)
(* file is a sequence of characters with one position, which every call    *)
(* reads, writes or moves; the characters written reach the medium at the  *)
(* latest when sync or close reports success.                              *)
(***************************************************************************)
EXTENDS Integers, Sequences

CONSTANTS Chars,        \* what a program writes
          Nul,          \* what fills a hole
          Modes,        \* openmodes, subsets of {in, out, app, trunc, ate}
          MaxLen        \* bound: positions a program seeks to

VARIABLES content,      \* the file as its program sees it
          pos,          \* the position
          stored,       \* the file on its medium
          mode,         \* the openmode, {} if closed
          call,         \* the last call, its arguments and its result
          faulty        \* whether the medium may fail

fileVars == <<content, pos, stored, mode, call, faulty>>

(* s with the characters of w from position p on. *)
Overwrite(s, p, w) ==
    IF w = <<>> THEN s
    ELSE LET length == IF p + Len(w) > Len(s) THEN p + Len(w) ELSE Len(s)
         IN [i \in 1 .. length |->
                IF i \in p + 1 .. p + Len(w) THEN w[i - p]
                ELSE IF i <= Len(s) THEN s[i] ELSE Nul]

(* Where characters are written: at the position, or in append mode at the *)
(* end.                                                                    *)
WriteAt(s, p, m) == IF "app" \in m THEN Len(s) ELSE p

(* The modes a file can be opened with, and those that empty it. *)
Openable(m) ==
    /\ m \cap {"in", "out", "app"} # {}
    /\ "trunc" \in m => "out" \in m /\ "app" \notin m
Empties(m) == "trunc" \in m \/ m \ {"ate"} = {"out"}

(* Characters may reach the medium whenever the stream likes. *)
Lag == stored' \in {stored, content, content'}
Kept == UNCHANGED <<content, pos, mode>> /\ Lag

FileInit ==
    /\ pos = 0
    /\ stored = content
    /\ mode = {}
    /\ call = <<"init">>

Open(m) ==
    /\ mode = {}
    /\ Openable(m)
    /\ call' = <<"open", m, TRUE>>
    /\ content' = IF Empties(m) THEN <<>> ELSE content
    /\ stored' = content'
    /\ pos' = IF "ate" \in m THEN Len(content') ELSE 0
    /\ mode' = m

OpenFails(m) ==
    /\ call' = <<"open", m, FALSE>>
    /\ mode # {} \/ ~Openable(m) \/ faulty
    /\ \/ Kept
       \/ Empties(m) /\ content' = <<>> /\ stored' = <<>> /\ UNCHANGED <<pos, mode>>

Get ==
    \/ /\ pos < Len(content)
       /\ call' = <<"get", content[pos + 1]>>
       /\ pos' = pos + 1
       /\ UNCHANGED <<content, mode>>
       /\ Lag
    \/ /\ pos >= Len(content) \/ faulty
       /\ call' = <<"get", "eof">>
       /\ Kept

GetN(n) ==
    \/ \E k \in 0 .. n :
         /\ pos + k <= Len(content) \/ k = 0
         /\ faulty \/ k = n \/ pos + k >= Len(content)
         /\ call' = <<"getn", n, SubSeq(content, pos + 1, pos + k)>>
         /\ pos' = pos + k
         /\ UNCHANGED <<content, mode>>
         /\ Lag
    \/ faulty /\ call' = <<"getn", n, <<"error">>>> /\ Kept

(* A character is put back, if the stream still has it. *)
Unget(c) ==
    \/ /\ pos \in DOMAIN content
       /\ c = "eof" \/ c = content[pos]
       /\ call' = <<"unget", c, TRUE>>
       /\ pos' = pos - 1
       /\ UNCHANGED <<content, mode>>
       /\ Lag
    \/ call' = <<"unget", c, FALSE>> /\ Kept

Written(w) ==
    LET p == WriteAt(content, pos, mode)
    IN /\ content' = Overwrite(content, p, w)
       /\ pos' = IF w = <<>> THEN pos ELSE p + Len(w)
       /\ UNCHANGED mode
       /\ Lag

Put(c) ==
    \/ call' = <<"put", c, TRUE>> /\ Written(<<c>>)
    \/ faulty /\ call' = <<"put", c, FALSE>> /\ Kept

PutN(w) ==
    \/ \E k \in 0 .. Len(w) :
         /\ faulty \/ k = Len(w)
         /\ call' = <<"putn", w, k>>
         /\ Written(SubSeq(w, 1, k))
    \/ faulty /\ call' = <<"putn", w, -1>> /\ Kept

Base(dir) == CASE dir = "beg" -> 0
               [] dir = "cur" -> pos
               [] dir = "end" -> Len(content)

Seek(dir, d) ==
    \/ /\ Base(dir) + d >= 0
       /\ call' = <<dir, d, Base(dir) + d>>
       /\ pos' = Base(dir) + d
       /\ UNCHANGED <<content, mode>>
       /\ Lag
    \/ /\ Base(dir) + d < 0 \/ faulty
       /\ call' = <<dir, d, -1>>
       /\ Kept

Sync ==
    \/ call' = <<"sync", TRUE>> /\ Kept /\ stored' = content
    \/ faulty /\ call' = <<"sync", FALSE>> /\ Kept

Close ==
    \/ /\ mode # {}
       /\ call' = <<"close", TRUE>>
       /\ mode' = {} /\ pos' = 0
       /\ UNCHANGED content
       /\ stored' = content
    \/ /\ mode = {} \/ faulty
       /\ call' = <<"close", FALSE>>
       /\ \/ Kept
          \/ mode' = {} /\ pos' = 0 /\ content' = stored' /\ stored' = stored

(* The stream is moved to another object. *)
Move == call' = <<"move">> /\ UNCHANGED <<content, pos, stored, mode>>

FileNext ==
    /\ UNCHANGED faulty
    /\ \/ \E m \in Modes : Open(m) \/ OpenFails(m)
       \/ Get
       \/ \E n \in 1 .. MaxLen : GetN(n)
       \/ \E c \in Chars \cup {"eof"} : Unget(c)
       \/ \E c \in Chars : Put(c)
       \/ \E k \in 1 .. MaxLen : \E w \in [1 .. k -> Chars] : PutN(w)
       \/ \E dir \in {"beg", "cur", "end"}, d \in -MaxLen .. MaxLen : Seek(dir, d)
       \/ Sync
       \/ Close
       \/ Move

FileSpec == FileInit /\ [][FileNext]_fileVars
====
