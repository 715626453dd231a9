---------------------------- MODULE MCDocuments -----------------------------
(***************************************************************************)
(* What configurations are written as, for TLC: the TOML files of the      *)
(* servers, with what they are made of and begin with, and the JSON of     *)
(* signed configurations.                                                  *)
(***************************************************************************)
EXTENDS Toml, ConfigFile

Letters == {"a", "1", "e", "-", "=", "[", "]", ",", ".", "#", "\"", "\\", " ", "\n", "true", eof}

\* Nothing, or all but the end of a document in which a name returns, a table is below
\* another, an array is open, or a string or a number is not finished.
Openings ==
    {<< >>,
     <<"[", "a", "]", "\n", "a", "=">>,
     <<"[", "a", ".", "a", "]", "\n", "[", "a", "]", "\n">>,
     <<"[", "a", "]", "\n", "a", "=", "1", "\n", "[", "a", ".">>,
     <<"[", "a", "]", "\n", "[", "[", "a">>,
     <<"[", "[", "a", "]", "]", "\n", "[", "[", "a">>,
     <<"[", "[", "a", "]", "]", "\n", "[", "a">>,
     <<"[", "[", "a", "]", "]", "[", "[", "a", ".", "a", "]", "]",
       "[", "[", "a", "]", "]", "[", "[", "a", ".">>,
     <<"a", "=", "1", "#", "a", "\n", "[", "a", "]", "\n">>,
     <<"a", "=", "[", "1">>,
     <<"a", "=", "-", "1">>,
     <<"a", "=", "\"", "\\">>}

\* The two share no state: a behaviour is one of them, while the other stays as it
\* is at first.
DocumentsInit == Init /\ ConfigFileInit /\ (input = << >> \/ accepted[1].Service = "Dialing")

TomlNext == document = Unset /\ accepted[1].Service = "Dialing" /\ Next /\ UNCHANGED fileVars

FileNext == Init /\ input = << >> /\ ConfigFileNext /\ UNCHANGED vars

DocumentsSpec ==
    /\ DocumentsInit /\ [][TomlNext \/ FileNext]_<<vars, fileVars>>
    /\ WF_vars(Reveal) /\ WF_vars(Lexer) /\ WF_vars(Parser)
=============================================================================
