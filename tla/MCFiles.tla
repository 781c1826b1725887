------------------------------- MODULE MCFiles -------------------------------
(* Model values for FileContent and ImagePacker beside those of Shell,     *)
(* which share no state: a behaviour is one of the shell, of the files of  *)
(* a disk mkfs made or of the image packer.                                *)
EXTENDS MCShell, FileContent, ImagePacker

VARIABLE part

MCPacked == <<<<4, 4, 5, 5>>, <<6>>>>
MCSources == {<<7>>, <<8, 9, 8, 9>>}

\* Files of no block, of direct blocks, of one indirect and of all levels.
Made(chunks, tail) == [chunks |-> chunks, tail |-> tail]
MCPackFiles ==
  {Made(<<>>, FALSE), Made(<<"s">>, TRUE),
   Made(<<"d", "e", "f", "g", "h", "i">>, TRUE),
   Made(<<"1", "2", "3", "4", "5", "6", "7", "8", "9", "10", "11">>, FALSE)}
MCOwners == {<<21, 31>>, <<22, 31>>}

fileVars == <<shellVars, contentVars, packVars, part>>

FileInit ==
  /\ part \in {"shell", "content", "packer"}
  /\ ShellInit /\ ContentInit /\ PackInit

ShellStep(p) == part = "shell" /\ Turn(p) /\ UNCHANGED <<contentVars, packVars, part>>

FileNext ==
  \/ \E p \in Procs : ShellStep(p)
  \/ part = "content" /\ ContentNext /\ UNCHANGED <<shellVars, packVars, part>>
  \/ part = "packer" /\ PackNext /\ UNCHANGED <<shellVars, contentVars, part>>

FileSpec ==
  FileInit /\ [][FileNext]_fileVars /\ \A p \in Procs : WF_fileVars(ShellStep(p))
=============================================================================
