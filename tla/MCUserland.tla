----------------------------- MODULE MCUserland -----------------------------
(* Model values for the shell and the grep of xv6 and for the tutorial's   *)
(* list, beside those of ProcTable. They share no state: a behaviour is    *)
(* one of one of them.                                                     *)
EXTENDS MCProcTable, UserShell, Grep, LinkedList

VARIABLE part

(* Lines with lists, pipelines, background commands, blocks of each and      *)
(* redirections of commands and blocks; two redirections of one output; a    *)
(* word too many; words behind "&" and "&" in a pipeline; each error of the  *)
(* parser; a missing program or file; cd and a blank line.                   *)
MCTyped ==
  {<<"a", " ", "|", "r", ">", "g", ";", "b">>,
   <<"(", "a", ";", "b", ")", "|", "r">>,
   <<"a", "&", ";", "b">>,
   <<"(", "a", " ", "&", ")", " ", "|", " ", "r">>,
   <<"a", ">", "g", ">", ">", "h", "<", "f">>,
   <<"(", "a", ">", "g", ";", "b", ")", ">", ">", "h">>,
   <<"a", " ", "x", " ", "y">>,
   <<"a", "&", " ", "b">>, <<"a", ";", "b", ">">>, <<"(", "a">>, <<";", "a">>,
   <<"a", "&", "|", "r">>, <<"a", "(", "b", ")">>, <<"a", ";", "b", ")">>,
   <<"x", "|", "r">>, <<"a", "<", "m", ";", "b">>,
   <<"(", "a", ";", "b", ")", ">", "n", ";", "c">>,
   <<"c", "d", " ", "d">>, <<" ">>,
   <<"(", "a", "|", "r", ")", "&", ";", "b">>}
\* What is typed behind a line with "&".
MCSecond == {<<"a", "|", "r">>}
MCPrograms == {<<"a">>, <<"b">>, <<"c">>, <<"r">>}
MCReaders == {<<"r">>}
MCReadable == {<<"f">>}
MCWritable == {<<"g">>, <<"h">>}

\* Every operator alone and beside the others, and where it is a plain letter.
MCPatterns ==
  {<<>>, <<"^", "a">>, <<"b", "$">>, <<"a", "*", "b">>, <<"^", "a", "*", "$">>,
   <<"*">>, <<"^", "*", "a">>, <<"a", ".", "*", "a", "$">>, <<"$", "*", "b">>,
   <<"a", "*", "*">>, <<"$", "b">>}
MCInputs ==
  {<<"a", "b", "n", "a", "n", "b", "a">>, <<"n", "a", "b", "a", "n", "*", "n">>,
   <<"a", "a", "a", "a", "a", "n">>, <<"b", "n", "a", "*", "b", "n">>, <<"$", "b", "n">>}

procVars == vars
others == <<userVars, grepVars, listVars>>
allVars == <<procVars, others, part>>

\* One initial state of the parts a behaviour is not about.
UserlandInit ==
  /\ part \in {"proc", "sh", "grep", "list"}
  /\ Init /\ UserInit /\ GrepInit /\ ListInit
  /\ part # "grep" => re = <<>> /\ coming = <<"$", "b", "n">>
  /\ part # "list" => ends = [head |-> 1, tail |-> 2]

ProcPart == part = "proc" /\ UNCHANGED <<others, part>>
ShPart == part = "sh" /\ UNCHANGED <<procVars, grepVars, listVars, part>>
GrepPart == part = "grep" /\ UNCHANGED <<procVars, userVars, listVars, part>>
ListPart == part = "list" /\ UNCHANGED <<procVars, userVars, grepVars, part>>

UserlandNext ==
  \/ Next /\ ProcPart
  \/ \E line \in TypedLines :
       /\ typed # <<>> => AmpT \in Range(typed[1]) /\ line \in MCSecond
       /\ GetCmd(line) /\ ShPart
  \/ EndOfInput /\ ShPart
  \/ \E p \in Pids : ProcessStep(p) /\ ShPart
  \/ GrepNext /\ GrepPart
  \/ ListNext /\ ListPart

\* The fairness of ProcTable and of UserShell.
UserlandSpec ==
  /\ UserlandInit /\ [][UserlandNext]_allVars
  /\ WF_allVars(~panicked /\ TickEnd /\ ProcPart)
  /\ \A p \in Slots : /\ SF_allVars(~panicked /\ Wins(p) /\ ProcPart)
                      /\ SF_allVars(~panicked /\ Yield(p) /\ ProcPart)
                      /\ SF_allVars(~panicked /\ KernelStep(p) /\ ProcPart)
  /\ \A p \in Pids : WF_allVars(ProcessStep(p) /\ ShPart)
=============================================================================
