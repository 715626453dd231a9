---------------------------- MODULE TomlDocument ----------------------------
(***************************************************************************)
(* What a configuration document means, said of the sequence of its items  *)
(* and not of a parser's stack: where a prefix of it leads in the grammar, *)
(* whether its tables and literals make sense, and what is at each path of *)
(* keys.  The parser of Toml is held to it.                                *)
(***************************************************************************)
EXTENDS Integers, Sequences, FiniteSets

Digit == {"0", "1", "9"}
Sign == {"+", "-"}

Has(text, s) == \E i \in DOMAIN text : text[i] = s

\* strconv.ParseInt: digits after an optional sign.
ParsesInt(text) ==
    /\ \E i \in DOMAIN text : text[i] \in Digit
    /\ \A i \in DOMAIN text : text[i] \in Digit \/ (i = 1 /\ text[i] \in Sign)

\* strconv.ParseFloat: a digit before the exponent and one at its end.
ParsesFloat(text) ==
    /\ \E i \in DOMAIN text : text[i] \in Digit /\ (\A j \in 1 .. i : text[j] # "e")
    /\ Has(text, "e") => text[Len(text)] \in Digit

ParsesNumber(text) == IF Has(text, ".") THEN ParsesFloat(text) ELSE ParsesInt(text)

\* strconv.Unquote.  The escapes that the symbols can spell are \a, \b, the \t of "true",
\* the \f of "false", \\, \" and three octal digits.
Unquotes(text) ==
    LET escaped[i \in DOMAIN text] == i > 2 /\ text[i - 1] = "\\" /\ ~escaped[i - 1]
        octal(i) == i + 2 < Len(text) /\ (\A j \in i .. i + 2 : text[j] \in {"0", "1"})
    IN \A i \in DOMAIN text : escaped[i] =>
         text[i] \in {"a", "b", "true", "false", "\\", "\""} \/ octal(i)
-----------------------------------------------------------------------------
\* The grammar outside values: at a place, an item of a type leads to a place.
Ways ==
    {<<"body", "Key", "equal">>, <<"equal", "Equal", "value">>, <<"body", "EOF", "end">>,
     <<"body", "LeftBracket", "name">>, <<"body", "LeftDoubleBracket", "name2">>,
     <<"name", "Key", "names">>, <<"names", "Key", "names">>,
     <<"name2", "Key", "names2">>, <<"names2", "Key", "names2">>,
     <<"names", "RightBracket", "body">>, <<"names2", "RightDoubleBracket", "body">>}

\* Where the first i items lead, and how many arrays are open there.
Places(items) ==
    LET go(to, depth) == [at |-> to, depth |-> depth]
        out(depth) == go(IF depth = 0 THEN "body" ELSE "after", depth)
        from(p, typ) == {w \in Ways : w[1] = p.at /\ w[2] = typ}
        step(p, typ) ==
            CASE from(p, typ) # {} -> go((CHOOSE w \in from(p, typ) : TRUE)[3], 0)
              [] p.at = "value" /\ typ \in {"Bool", "Number", "String"} -> out(p.depth)
              [] p.at = "value" /\ typ = "LeftBracket" -> go("value", p.depth + 1)
              [] p.at = "after" /\ typ = "Comma" -> go("value", p.depth)
              [] p.at = "after" /\ typ = "RightBracket" -> out(p.depth - 1)
              [] OTHER -> go("nowhere", 0)
        place[i \in 0 .. Len(items)] ==
            IF i = 0 THEN go("body", 0) ELSE step(place[i - 1], items[i].typ)
    IN place

Last(s) == s[Len(s)]

\* The items as tables and entries.  heads are the tables' headers in their order, with
\* the keys of the name; an entry has the number of the header above it, or 0, and the
\* moment it takes effect: the entries above all tables do so last.
Sections(items, place) ==
    LET \* The last item of the header or the entry that begins with item i, or 0.
        end(i) == LET ends == {j \in i .. Len(items) : place[j].at = "body"}
                  IN IF ends = {} THEN 0 ELSE CHOOSE j \in ends : \A k \in ends : j <= k
        begins(at) == {i \in DOMAIN items : place[i].at = at /\ end(i) # 0}
        headers == begins("name") \cup begins("name2")
        number(i) == Cardinality({h \in headers : h <= i})
        vals(from, to) == [i \in 1 .. to - from + 1 |-> items[from + i - 1].val]
    IN [heads |-> [n \in 1 .. Cardinality(headers) |->
            LET h == CHOOSE h \in headers : number(h) = n
            IN [name |-> vals(h + 1, end(h) - 1), isArray |-> place[h].at = "name2"]],
        entries |-> {[above |-> number(e), key |-> items[e].val, value |-> vals(e + 2, end(e)),
                      at |-> IF number(e) = 0 THEN Len(items) + e ELSE e] : e \in begins("equal")}]

MaxKeys(heads) ==
    LET sizes == {Len(heads[h].name) : h \in DOMAIN heads} \cup {0}
    IN CHOOSE n \in sizes : \A k \in sizes : k <= n

\* The path of the first m keys of each header: the keys, each with the number of the
\* element if it names an array of tables and else with 0.  It is the last element yet.
Paths(heads) ==
    LET size(h) == Len(heads[h].name)
        path[h \in DOMAIN heads, m \in 0 .. MaxKeys(heads)] ==
            LET key == heads[h].name[m]
                elements == {g \in 1 .. h :
                    /\ heads[g].isArray
                    /\ g < h \/ m = size(h)
                    /\ Last(heads[g].name) = key
                    /\ path[g, size(g) - 1] = path[h, m - 1]}
            IN IF m = 0 THEN << >> ELSE Append(path[h, m - 1], <<key, Cardinality(elements)>>)
    IN path

\* Where an entry goes.
PathOf(e, doc, path) ==
    Append(IF e.above = 0 THEN << >> ELSE path[e.above, Len(doc.heads[e.above].name)],
           <<e.key, 0>>)

\* A header does not say that an array is a table, or the other way round, or that the
\* value of an entry is one; and the literals are literals.  The entries above all tables
\* do not count: they are added last.
Sound(items, doc, path) ==
    LET heads == doc.heads
        before(h) == {<<g, l>> \in (1 .. h - 1) \X (1 .. MaxKeys(heads)) : l <= Len(heads[g].name)}
    IN /\ \A h \in DOMAIN heads : \A m \in 1 .. Len(heads[h].name) :
            LET slot(n) == Append(path[h, m - 1], <<heads[h].name[m], n>>)
                isLast == m = Len(heads[h].name)
            IN /\ ~\E e \in doc.entries :
                    e.above \in 1 .. h - 1 /\ PathOf(e, doc, path) = slot(0)
               /\ isLast => ~\E b \in before(h) :
                    IF heads[h].isArray THEN path[b] = slot(0)
                    ELSE \E n \in 1 .. h : path[b] = slot(n)
       /\ \A i \in DOMAIN items :
            /\ items[i].typ = "Number" => ParsesNumber(items[i].val)
            /\ items[i].typ = "String" => Unquotes(items[i].val)

\* What is at each path: the text of a value, or nothing for a table.  A later entry
\* replaces what was at its path and below.
Meaning(doc, path) ==
    LET \* Whether an entry that takes effect after a moment replaces what is at path p.
        replaced(p, moment) == \E e \in doc.entries :
            LET q == PathOf(e, doc, path)
                n == Len(q)
            IN /\ e.at > moment /\ n <= Len(p)
               /\ p[n][1] = q[n][1] /\ SubSeq(p, 1, n - 1) = SubSeq(q, 1, n - 1)
        tables == {path[b] : b \in {b \in DOMAIN path : b[2] \in 1 .. Len(doc.heads[b[1]].name)}}
        values == {<<PathOf(e, doc, path), e.value>> :
                     e \in {d \in doc.entries : ~replaced(PathOf(d, doc, path), d.at)}}
    IN values \cup {<<p, << >>>> : p \in {t \in tables : ~replaced(t, 0)}}
=============================================================================
