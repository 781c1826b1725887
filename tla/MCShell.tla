------------------------------- MODULE MCShell -------------------------------
(* Model values for Shell.                                                  *)
EXTENDS Shell

(* Lines of one, two and three commands: redirections well and badly        *)
(* formed, a missing file, a missing program, a missing command, spaces     *)
(* left out, a blank line.                                                  *)
MCLines ==
  {<<"a", " ", "|", " ", "c">>,
   <<"a", " ", "|", " ", "c", " ", "|", " ", "c", " ">>,
   <<"a", " ", "|", " ", "b", " ", "|", " ", "c">>,
   <<"<", " ", "f", " ", "c", " ", ">", " ", "g">>,
   <<"<", " ", "m", " ", "a", " ", "|", " ", "c">>,
   <<"a", " ", "<", " ", "f", " ", "|", " ", "c", " ", "<", " ", "f">>,
   <<"a", " ", ">", " ", "h">>,
   <<"a", "|">>, <<"|", " ", "c">>, <<" ">>, <<"e">>}
MCExit == <<"e">>
MCExecutable == {<<"a">>, <<"c">>}
MCFilters == {<<"c">>}
MCOpenable == {<<"f">>}
MCCreatable == {<<"g">>}
=============================================================================
