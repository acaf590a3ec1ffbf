------------------------------- MODULE MCQuery -------------------------------
(* Query strings with one to three columns and up to two conditions, and   *)
(* others that name every column there is.                                 *)
EXTENDS Query

Item(fn, name) == [fn |-> fn, name |-> name]
Cond(name, expr) == [name |-> name, expr |-> expr]
Items == {Item(fn, "DATA_NAME") : fn \in {"", "sum", "COUNT", "order_desc", "foo"}}
         \cup {Item("", "COLL_NAME"), Item("", "NO_SUCH_NAME"), Item("max", "DATA_SIZE")}
Exprs == {<<"=", "'", "a", "'">>, <<"like", "'", "a", "and", "b", "'">>, <<>>,
          <<"=", "'", "a", "'", "||", "=", "'", "where", "'">>,
          <<"in", "(", "'", "a", "'", ",", "'", "and", "(", "'", ")">>,
          <<"between", "'", "1", "'", "and", "'", "2", "'">>,
          <<"=", "\"", "it", "'", "s", "\"">>, <<"=", "'", "a">>}
Conds == {Cond(name, e) : name \in {"DATA_NAME", "DATA_ID"}, e \in Exprs} \cup {Cond("NO_SUCH_NAME", <<"=", "1">>)}
Q(select, where, upper) == [select |-> select, where |-> where, upper |-> upper]

UsualQuery == Q(<<Item("", "DATA_NAME")>>, <<Cond("COLL_NAME", <<"=", "'", "a", "'">>)>>, TRUE)
\* The names one after another, twelve at a time.
Some(k) == [i \in 1..(IF 12 * (k + 1) <= Len(columnNames) THEN 12 ELSE Len(columnNames) % 12)
              |-> columnNames[12 * k + i][2]]
MCTexts ==
    {UsualQuery}
    \cup {Q(<<i, j>>, <<>>, up) : i, j \in Items, up \in BOOLEAN}
    \cup {Q(<<Item("", "DATA_NAME")>>, <<c>>, up) : c \in Conds, up \in BOOLEAN}
    \cup {Q(<<Item("", "COLL_NAME"), Item("", "DATA_NAME"), Item("avg", "DATA_SIZE")>>, <<c, d>>, up) :
            c, d \in Conds, up \in BOOLEAN}
    \cup UNION {
        {Q([i \in DOMAIN Some(k) |-> Item("", Some(k)[i])], <<>>, FALSE),
         Q(<<Item("", "DATA_NAME")>>, [i \in DOMAIN Some(k) |-> Cond(Some(k)[i], <<"=", "1">>)], TRUE)}
        : k \in 0..(Len(columnNames) \div 12)}
=============================================================================
