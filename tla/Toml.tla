-------------------------------- MODULE Toml --------------------------------
(***************************************************************************)
(* The reader of the servers' configuration files (encoding/toml): a lexer *)
(* and a parser, two goroutines that meet at an unbuffered channel.        *)
(*                                                                         *)
(* The document is chosen while it is read: Reveal adds a symbol when the  *)
(* lexer has read all that is known.  A symbol is a character, or one of   *)
(* the words "true" and "false", which are four and five letters.          *)
(*                                                                         *)
(* Each loop iteration of a state function is a step.  arrayDepth is       *)
(* written and never read, and is left out.  Errors have a kind and no     *)
(* wording.                                                                *)
(***************************************************************************)
EXTENDS TomlDocument, TLC

CONSTANTS
    Symbols,     \* the symbols that documents are made of
    Beginnings,  \* what a document begins with
    MaxSymbols   \* bound: symbols after the beginning

eof == "NUL"     \* eof is rune 0: the end of the input, and a NUL in it

Blank == {" ", "\t"}
Alphanumeric == Digit \cup {"a", "b", "e", "-", "_", "true", "false"}

ASSUME TomlAssumption ==
    /\ Beginnings \subseteq Seq(STRING)
    /\ Symbols \subseteq Alphanumeric \cup Blank \cup Sign \cup
         {"\n", "#", "[", "]", "=", ",", ".", "\"", "\\", "@", eof}
    /\ MaxSymbols \in Nat

VARIABLES
    input,     \* the document, as far as it is known
    revealed,  \* symbols that were added to its beginning
    ended,     \* whether that is all of it
    state,     \* lexer.state, or where in it
    pos,       \* lexer.pos: symbols read
    start,     \* lexer.start: symbols before the pending item
    expectDoubleBracket,
    offer,     \* what the lexer is sending on items: at most one item
    yyS,       \* the parser's stack: states and values
    char,      \* the token it looks at: at most one
    err,       \* lexer.err: the kind of error, or ""
    result,    \* lexer.result
    returned,  \* what yyParse has returned: at most one number
    read       \* history: the items that the parser has received

lexerVars == <<state, pos, start, expectDoubleBracket>>
parserVars == <<yyS, char, err, result, returned>>
documentVars == <<input, revealed, ended>>
vars == <<documentVars, lexerVars, offer, parserVars, read>>

Init ==
    /\ input \in Beginnings
    /\ revealed = 0
    /\ ended = FALSE
    /\ state = "lexTableBody"
    /\ pos = 0
    /\ start = 0
    /\ expectDoubleBracket = FALSE
    /\ offer = << >>
    /\ yyS = <<[yys |-> 0, val |-> << >>]>>
    /\ char = << >>
    /\ err = ""
    /\ result = << >>
    /\ returned = << >>
    /\ read = << >>
-----------------------------------------------------------------------------
(***************************************************************************)
(* The lexer.                                                              *)
(***************************************************************************)

\* The document goes on, or ends.
Reveal ==
    /\ pos = Len(input) /\ ~ended /\ offer = << >> /\ state # "nil"
    /\ \/ /\ revealed < MaxSymbols
          /\ \E s \in Symbols : input' = Append(input, s)
          /\ revealed' = revealed + 1
          /\ UNCHANGED ended
       \/ ended' = TRUE /\ UNCHANGED <<input, revealed>>
    /\ UNCHANGED <<lexerVars, offer, parserVars, read>>

AtEnd == pos = Len(input)

\* What next returns.
Peek == IF AtEnd THEN eof ELSE input[pos + 1]

\* pos after next: it does not move at the end.
Past == IF AtEnd THEN pos ELSE pos + 1

\* The lexer is in a state, the item it has sent is taken, and it can read on.
At(s) == state = s /\ offer = << >> /\ (AtEnd => ended)

\* Ways to go on: the rune is backed up, becomes part of the item, or is ignored.
Backup(then) ==
    /\ state' = then
    /\ UNCHANGED <<documentVars, pos, start, expectDoubleBracket, offer, parserVars, read>>

Take(then) ==
    /\ pos' = Past
    /\ state' = then
    /\ UNCHANGED <<documentVars, start, expectDoubleBracket, offer, parserVars, read>>

Ignore(then) ==
    /\ pos' = Past /\ start' = Past
    /\ state' = then
    /\ UNCHANGED <<documentVars, expectDoubleBracket, offer, parserVars, read>>

\* emit, of the runes before the one at position end.
EmitTo(end, typ, then) ==
    /\ offer' = <<[typ |-> typ, pos |-> start, val |-> SubSeq(input, start + 1, end)]>>
    /\ pos' = end /\ start' = end
    /\ state' = then
    /\ UNCHANGED <<documentVars, parserVars, read>>

Emit(typ, then) == EmitTo(pos, typ, then) /\ UNCHANGED expectDoubleBracket
TakeAndEmit(typ, then) == EmitTo(Past, typ, then) /\ UNCHANGED expectDoubleBracket

\* Mutant of Errorf: the lexer stops and says nothing.
ErrorfSaysNothing ==
    /\ state' = "nil"
    /\ UNCHANGED <<documentVars, pos, start, expectDoubleBracket, offer, parserVars, read>>

Errorf ==
    /\ offer' = <<[typ |-> "Error", pos |-> start, val |-> << >>]>>
    /\ state' = "nil"
    /\ UNCHANGED <<documentVars, pos, start, expectDoubleBracket, parserVars, read>>
-----------------------------------------------------------------------------
\* Between entries and tables.  A NUL is not the end of the document.
lexTableBody ==
    /\ At("lexTableBody")
    /\ \/ Peek \in Blank \cup {"\n"} /\ Ignore("lexTableBody")
       \/ Peek = "#" /\ Take("lexComment")
       \/ Peek = "[" /\ Take("lexTableBracket")
       \/ Peek = eof /\ AtEnd /\ Emit("EOF", "nil")
       \/ Peek = eof /\ ~AtEnd /\ Errorf
       \/ Peek \notin Blank \cup {"\n", "#", "[", eof} /\ Backup("lexKeyStart")

\* One bracket or two.
lexTableBracket ==
    /\ At("lexTableBracket")
    /\ expectDoubleBracket' = (Peek = "[")
    /\ IF Peek = "["
       THEN EmitTo(Past, "LeftDoubleBracket", "lexTableNameStart")
       ELSE EmitTo(pos, "LeftBracket", "lexTableNameStart")

lexComment ==
    /\ At("lexComment")
    /\ Ignore(IF Peek \in {"\n", eof} THEN "lexTableBody" ELSE "lexComment")

lexTableNameStart ==
    /\ At("lexTableNameStart")
    /\ \/ Peek \in Blank /\ Ignore("lexTableNameStart")
       \/ Peek \in Alphanumeric /\ Backup("lexTableName")
       \/ Peek \notin Blank \cup Alphanumeric /\ Errorf

\* lexBareKey, of a table's name or of an entry.
lexBareKey(here, then) ==
    /\ At(here)
    /\ IF Peek \in Alphanumeric THEN Take(here) ELSE Emit("Key", then)

lexTableNameEnd ==
    /\ At("lexTableNameEnd")
    /\ \/ Peek \in Blank /\ Ignore("lexTableNameEnd")
       \/ Peek = "." /\ Ignore("lexTableNameStart")
       \/ Peek = "]" /\ expectDoubleBracket /\ Take("lexSecondBracket")
       \/ Peek = "]" /\ ~expectDoubleBracket /\ TakeAndEmit("RightBracket", "lexTableBody")
       \/ Peek \notin Blank \cup {".", "]"} /\ Errorf

lexSecondBracket ==
    /\ At("lexSecondBracket")
    /\ IF Peek = "]" THEN TakeAndEmit("RightDoubleBracket", "lexTableBody") ELSE Errorf

lexKeyStart ==
    /\ At("lexKeyStart")
    /\ IF Peek \in Alphanumeric THEN Backup("lexKey") ELSE Errorf

lexKeyEnd ==
    /\ At("lexKeyEnd")
    /\ \/ Peek \in Blank /\ Ignore("lexKeyEnd")
       \/ Peek = "=" /\ TakeAndEmit("Equal", "lexValue")
       \/ Peek \notin Blank \cup {"="} /\ Errorf

\* The tokens of a value that are one character.
Punctuation == [s \in {"[", "]", ",", "="} |->
    CASE s = "[" -> "LeftBracket" [] s = "]" -> "RightBracket" [] s = "," -> "Comma"
      [] s = "=" -> "Equal"]

\* The rest of a line after "=".  Here a NUL is the end of the document.
lexValue ==
    /\ At("lexValue")
    /\ \/ Peek \in Blank /\ Ignore("lexValue")
       \/ Peek \in DOMAIN Punctuation /\ TakeAndEmit(Punctuation[Peek], "lexValue")
       \/ Peek = "\"" /\ Take("lexQuote")
       \/ Peek = "#" /\ Take("lexComment")
       \/ Peek = "\n" /\ Ignore("lexTableBody")
       \/ Peek = eof /\ TakeAndEmit("EOF", "nil")
       \/ Peek \in Sign \cup Digit /\ Backup("lexNumber")
       \/ Peek \in {"true", "false"} /\ TakeAndEmit("Bool", "lexValue")
       \/ Peek \in Alphanumeric \ (Sign \cup Digit \cup {"true", "false"}) /\ Backup("lexKeyStart")
       \/ Peek \in {".", "\\", "@"} /\ Errorf

lexQuote ==
    /\ At("lexQuote")
    /\ \/ Peek = "\\" /\ Take("lexEscape")
       \/ Peek \in {eof, "\n"} /\ Errorf
       \/ Peek = "\"" /\ TakeAndEmit("String", "lexValue")
       \/ Peek \notin {"\\", eof, "\n", "\""} /\ Take("lexQuote")

lexEscape ==
    /\ At("lexEscape")
    /\ IF Peek \in {eof, "\n"} THEN Errorf ELSE Take("lexQuote")

\* scanNumber: sign, digits, fraction, exponent, and nothing alphanumeric after it.
lexNumber ==
    \/ At("lexNumber") /\ IF Peek \in Sign THEN Take("digits") ELSE Backup("digits")
    \/ /\ At("digits")
       /\ \/ Peek \in Digit /\ Take("digits")
          \/ Peek = "." /\ Take("fraction")
          \/ Peek = "e" /\ Take("exponentSign")
          \/ Peek \notin Digit \cup {".", "e"} /\ Backup("numberEnd")
    \/ /\ At("fraction")
       /\ \/ Peek \in Digit /\ Take("fraction")
          \/ Peek = "e" /\ Take("exponentSign")
          \/ Peek \notin Digit \cup {"e"} /\ Backup("numberEnd")
    \/ At("exponentSign") /\ IF Peek \in Sign THEN Take("exponent") ELSE Backup("exponent")
    \/ At("exponent") /\ IF Peek \in Digit THEN Take("exponent") ELSE Backup("numberEnd")
    \/ At("numberEnd") /\ IF Peek \in Alphanumeric THEN Errorf ELSE Emit("Number", "lexValue")

Lexer ==
    \/ lexTableBody \/ lexTableBracket \/ lexComment
    \/ lexTableNameStart \/ lexBareKey("lexTableName", "lexTableNameEnd")
    \/ lexTableNameEnd \/ lexSecondBracket
    \/ lexKeyStart \/ lexBareKey("lexKey", "lexKeyEnd") \/ lexKeyEnd
    \/ lexValue \/ lexQuote \/ lexEscape \/ lexNumber
-----------------------------------------------------------------------------
(***************************************************************************)
(* The documents' values.  A number and a string are named by their text,  *)
(* a key by its symbols.                                                   *)
(***************************************************************************)

Map(m) == [kind |-> "map", val |-> m]            \* map[string]interface{}
Tables(s) == [kind |-> "tables", val |-> s]      \* []map[string]interface{}
Array(s) == [kind |-> "array", val |-> s]        \* []interface{}

Failure == [kind |-> "failure", val |-> << >>]

\* Action of a number: with a point it is a float.
NumberValue(text) ==
    IF ParsesNumber(text)
    THEN [kind |-> IF Has(text, ".") THEN "float" ELSE "int", val |-> text]
    ELSE Failure

StringValue(text) ==
    IF Unquotes(text) THEN [kind |-> "string", val |-> text] ELSE Failure

\* Mutant of Latest: the first element.
First(tables) == 1

\* The element of an array of tables that a name goes through.
Latest(tables) == Len(tables)

\* A table joins the map m under its keys: the failures are a key that is an array
\* and was a table, the other way round, and a key that is neither.
RECURSIVE AddTable(_, _, _, _)
AddTable(m, keys, isArray, entries) ==
    LET key == keys[1]
        last == Len(keys) = 1
        put(v) == IF v.kind = "failure" THEN v ELSE Map((key :> v) @@ m)
        below(v) == AddTable(v, Tail(keys), isArray, entries)
        old == m[key]
        n == Latest(old.val)
    IN IF keys = << >> THEN Map(entries @@ m)
       ELSE IF key \notin DOMAIN m
       THEN put(IF isArray /\ last THEN Tables(<<entries>>) ELSE below(<< >>))
       ELSE IF old.kind = "map"
       THEN IF isArray /\ last THEN Failure ELSE put(below(old.val))
       ELSE IF old.kind = "tables"
       THEN IF last
            THEN IF isArray THEN put(Tables(Append(old.val, entries))) ELSE Failure
            ELSE LET v == below(old.val[n])
                 IN put(IF v.kind = "failure" THEN v
                        ELSE Tables([old.val EXCEPT ![n] = v.val]))
       ELSE Failure
-----------------------------------------------------------------------------
(***************************************************************************)
(* The parser: goyacc's tables for parser.y, its driver and the actions.   *)
(***************************************************************************)

yyFlag == -1000
yyLast == 28
yyAct == <<13, 2, 14, 25, 17, 26, 19, 9, 19, 18, 15, 16, 20, 7, 8, 10, 5, 11, 22, 1,
           23, 6, 24, 3, 12, 21, 4, 27>>
yyPact == <<-1000, -1000, 10, 6, -1000, -5, -1000, 11, 11, -3, 0, -1000, 2, -1000,
            -1000, -1000, -1000, -3, -1000, -1000, -1000, -6, -1000, 10, 10, -1000, -3, -1000>>
yyPgo == <<0, 26, 1, 0, 25, 23, 21, 15, 19>>
yyR1 == <<0, 8, 5, 5, 6, 6, 7, 7, 2, 2, 1, 3, 3, 3, 3, 4, 4>>
yyR2 == <<0, 2, 0, 2, 4, 4, 1, 2, 0, 2, 3, 1, 1, 1, 3, 1, 3>>
yyChk == <<-1000, -8, -2, -5, -1, 6, -6, 7, 8, 12, -7, 6, -7, -3, 5, 13, 14, 7, 9, 6,
           10, -4, -3, -2, -2, 9, 11, -3>>
yyDef == <<8, -2, 2, 1, 9, 0, 3, 0, 0, 0, 0, 6, 0, 10, 11, 12, 13, 0, 8, 7, 8, 0, 15,
           4, 5, 14, 0, 16>>

\* The tables are numbered from 0.
Of(table, i) == table[i + 1]

\* yylex1: the parser's number of a token.  Lex makes an error the end.
Token(typ) ==
    CASE typ \in {"EOF", "Error"} -> 1 [] typ = "Bool" -> 5 [] typ = "Key" -> 6
      [] typ = "LeftBracket" -> 7 [] typ = "LeftDoubleBracket" -> 8
      [] typ = "RightBracket" -> 9 [] typ = "RightDoubleBracket" -> 10
      [] typ = "Comma" -> 11 [] typ = "Equal" -> 12 [] typ = "Number" -> 13
      [] typ = "String" -> 14

Top == yyS[Len(yyS)].yys

\* Whether the token can be shifted in state s: yyAct has the next state there.
Shifts(s, token) ==
    LET n == Of(yyPact, s) + token
    IN Of(yyPact, s) > yyFlag /\ n \in 0 .. yyLast - 1 /\ Of(yyChk, Of(yyAct, n)) = token

\* The default action of state s: a production, 0 for an error, or -1 to accept,
\* which only state 1 does (yyExca).
Default(s, token) ==
    IF Of(yyDef, s) = -2 THEN IF token = 1 THEN -1 ELSE 0 ELSE Of(yyDef, s)

\* The state after the production of a nonterminal, on top of state s.
Goto(s, nonterminal) ==
    LET g == Of(yyPgo, nonterminal)
        j == g + s + 1
    IN IF j < yyLast /\ Of(yyChk, Of(yyAct, j)) = -nonterminal THEN Of(yyAct, j) ELSE Of(yyAct, g)

\* Whether the parser looks at the next token in state s.
Looks(s) == Of(yyPact, s) > yyFlag \/ Of(yyDef, s) = -2

\* Lex: the parser takes the lexer's item.
Lex ==
    /\ returned = << >> /\ Looks(Top) /\ char = << >>
    /\ offer # << >>
    /\ char' = <<[token |-> Token(offer[1].typ), str |-> offer[1].val]>>
    /\ err' = IF offer[1].typ = "Error" THEN "lexical" ELSE err
    /\ offer' = << >>
    /\ read' = Append(read, offer[1])
    /\ UNCHANGED <<documentVars, lexerVars, yyS, result, returned>>

Shift ==
    /\ returned = << >> /\ char # << >>
    /\ Shifts(Top, char[1].token)
    /\ yyS' = Append(yyS, [yys |-> Of(yyAct, Of(yyPact, Top) + char[1].token),
                           val |-> char[1].str])
    /\ char' = << >>
    /\ UNCHANGED <<documentVars, lexerVars, offer, err, result, returned, read>>

\* The parser takes the default action of its state.
Acts(action) ==
    /\ returned = << >>
    /\ Looks(Top) => (char # << >> /\ ~Shifts(Top, char[1].token))
    /\ action = Default(Top, IF char = << >> THEN 0 ELSE char[1].token)

\* What the action of production n makes of the values of its right side.
Produce(n, v) ==
    CASE n = 1 -> v[1] @@ v[2].val                                     \* top
      [] n = 2 -> Map(<< >>)                                            \* tables
      [] n = 3 -> AddTable(v[1].val, v[2].keys, v[2].isArray, v[2].entries)
      [] n \in {4, 5} -> [isArray |-> n = 5, keys |-> v[2], entries |-> v[4]]
      [] n = 6 -> <<v[1]>>                                              \* keys
      [] n = 7 -> Append(v[1], v[2])
      [] n = 8 -> << >>                                                 \* entries
      [] n = 9 -> (v[2].key :> v[2].val) @@ v[1]
      [] n = 10 -> [key |-> v[1], val |-> v[3]]
      [] n = 11 -> [kind |-> "bool", val |-> v[1]]
      [] n = 12 -> NumberValue(v[1])
      [] n = 13 -> StringValue(v[1])
      [] n = 14 -> Array(v[2])
      [] n = 15 -> <<v[1]>>                                             \* values
      [] n = 16 -> Append(v[1], v[3])

\* A production is reduced; if its action fails, so does the parser.
Reduce(n) ==
    LET p == Len(yyS) - Of(yyR2, n)
        v == Produce(n, [i \in 1 .. Of(yyR2, n) |-> yyS[p + i].val])
        failed == n \in {3, 12, 13} /\ v.kind = "failure"
    IN /\ Acts(n)
       /\ IF failed
          THEN err' = "semantic" /\ returned' = <<1>> /\ UNCHANGED <<yyS, result>>
          ELSE /\ yyS' = Append(SubSeq(yyS, 1, p),
                                [yys |-> Goto(yyS[p].yys, Of(yyR1, n)), val |-> v])
               /\ result' = IF n = 1 THEN v ELSE result
               /\ UNCHANGED <<err, returned>>
       /\ UNCHANGED <<documentVars, lexerVars, offer, char, read>>

Accept ==
    /\ Acts(-1)
    /\ returned' = <<0>>
    /\ UNCHANGED <<documentVars, lexerVars, offer, yyS, char, err, result, read>>

\* Error.  No state of the grammar shifts an error, so the parser gives up.
SyntaxError ==
    /\ Acts(0)
    /\ err' = "syntax"
    /\ returned' = <<1>>
    /\ UNCHANGED <<documentVars, lexerVars, offer, yyS, char, result, read>>

Parser == Lex \/ Shift \/ (\E n \in 1 .. 16 : Reduce(n)) \/ Accept \/ SyntaxError

Next == Reveal \/ Lexer \/ Parser

Spec == Init /\ [][Next]_vars

\* Two goroutines, and a document that ends.
FairSpec == Spec /\ WF_vars(Reveal) /\ WF_vars(Lexer) /\ WF_vars(Parser)
-----------------------------------------------------------------------------
\* The symbols of a value, as its document spells it.
RECURSIVE Spelling(_)
Spelling(v) ==
    IF v.kind # "array" THEN <<v.val>>
    ELSE LET after[i \in 1 .. Len(v.val)] ==
                 Spelling(v.val[i]) \o
                 IF i = Len(v.val) THEN <<<<"]">>>> ELSE <<<<",">>>> \o after[i + 1]
         IN <<<<"[">>>> \o after[1]

\* What a map holds below a path.
RECURSIVE Contents(_, _)
Contents(m, path) ==
    LET at(key, n) == Append(path, <<key, n>>)
        held(key, v) ==
            IF v.kind = "map" THEN {<<at(key, 0), << >>>>} \cup Contents(v.val, at(key, 0))
            ELSE IF v.kind = "tables"
            THEN UNION {{<<at(key, n), << >>>>} \cup Contents(v.val[n], at(key, n)) :
                         n \in DOMAIN v.val}
            ELSE {<<at(key, 0), Spelling(v)>>}
    IN UNION {held(key, m[key]) : key \in DOMAIN m}

\* The parser's verdict and its tables are what the items mean: without an error they
\* are a sound document and the result holds what it says, no more and no less; a syntax
\* error is at the first item that no document goes on with; any other error is of an
\* item that is not one, or of a document that is not sound.  goyacc's tables decide
\* this, with default reductions and one token of lookahead (parser.go, yyParse).
ReadsTheDocument ==
    returned # << >> =>
      \E place \in {Places(read)} :
      \E doc \in {Sections(read, place)} :
      \E path \in {Paths(doc.heads)} :
        LET n == Len(read)
            sound == Sound(read, doc, path)
        IN CASE err = "" -> /\ place[n].at = "end" /\ sound
                            /\ Contents(result, << >>) = Meaning(doc, path)
             [] err = "syntax" -> place[n - 1].at # "nowhere" /\ place[n].at = "nowhere"
             [] err = "lexical" -> read[n].typ = "Error"
             [] err = "semantic" -> ~sound

\* Nothing of a document that is read without an error is skipped: between the items
\* there are blanks, line breaks and comments, and a table's name has dots, and the items
\* go on to its end - or to a NUL in the place of a value, where lexValue ends it
\* (lexer.go, eof is rune 0).
NothingIsSkipped ==
    returned = <<0>> /\ err = "" =>
      LET end(i) == IF i = 0 THEN 0 ELSE read[i].pos + Len(read[i].val)
          gap(i) == end(i - 1) + 1 .. read[i].pos
          comment(i, p) == \E q \in gap(i) : /\ q <= p /\ input[q] = "#"
                                             /\ \A r \in q .. p - 1 : input[r] # "\n"
          named(i) == i > 1 /\ read[i - 1].typ = "Key"
      IN /\ \A i \in DOMAIN read : \A p \in gap(i) :
              input[p] \in Blank \cup {"\n"} \/ comment(i, p) \/ (named(i) /\ input[p] = ".")
         /\ \/ ended /\ end(Len(read)) = Len(input)
            \/ Last(read).val = <<eof>>

\* What Parse returns is the document, all of it.
ParseIsExact == ReadsTheDocument /\ NothingIsSkipped

\* The parser returns, whatever the document: it never waits for an item that the lexer
\* does not send (they meet at an unbuffered channel: lexer.go, emit, errorf and Lex).
ParseReturns == <>(returned # << >>)
=============================================================================
