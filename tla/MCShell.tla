------------------------------- MODULE MCShell -------------------------------
(***************************************************************************)
(* Instance of Shell for TLC; the other values are in the .cfg file.       *)
(***************************************************************************)
EXTENDS Shell, TLC

\* x and y are programs in the root, and y one in its directory d.
Files == {<<"/", <<"x">>>>, <<"/", <<"y">>>>, <<"d", <<"y">>>>}
Directories == <<"/", <<"d">>>> :> "d" @@ <<"d", <<"u">>>> :> "/"

\* Lines at any time ...
Typed == {
  <<"x",">","f",";","y","\n">>,
  <<"x","<","f","\n">>,
  <<"(","x",";","y",")","&","\n">>,
  <<"x","&",";","z","\n">>,
  <<"c","d"," ","d","\n">>,
  <<"c","d"," ","u","\n">>}

\* ... and on a machine where nothing has happened yet: every line of up to N
\* characters of the alphabet, and some longer ones, the last of which does not
\* fit in the buffer.
CONSTANTS N, Alphabet
Short == UNION {[1 .. n -> Alphabet] : n \in 0 .. N}
Long == {
  <<"x"," ","y",">",">","f">>,
  <<"(","x","<","f",";","y",")",">","g">>,
  <<"x",">","g","<","f">>,
  <<"x","<","x",">","g",">",">","f">>,
  <<"(","x","&",";","y",")","<","y">>,
  <<"x","|","y","&">>,
  <<"x"," ","y"," ","y">>,
  <<"x",";","x",">","g",";","y",";","x"," ","x">>}
TypedFirst == {Append(l, "\n") : l \in Short \cup Long}
=============================================================================
