------------------------------- MODULE Shell -------------------------------
(***************************************************************************)
(* The shell of shell/main.cc: one line read, cut into words, parsed into  *)
(* the commands of a pipeline, its pipes made, a child forked for each     *)
(* command, the children's descriptors set up, their programs started, and *)
(* the children waited for.  A child whose program cannot be started does  *)
(* not exit: it goes on as a second shell (a stray) in the middle of the   *)
(* same loop.  Characters are model strings of length one and a word is a  *)
(* sequence of them.  The terminal hands each line to whoever asks first.  *)
(* What programs write is left out: a stray that reads commands from a     *)
(* file or a pipe finds it empty.                                          *)
(***************************************************************************)
EXTENDS Integers, Sequences, FiniteSets

CONSTANTS Procs,       \* 1 is the shell itself; the other slots bound fork
          OpenMax,     \* descriptors of a process
          Lines, MaxLines,
          ExitLine,    \* the line the code compares with "exit"
          Executable,  \* words execv can start
          Filters,     \* the programs among them that read to the end of input
          Openable,    \* files that exist and open for reading and writing
          Creatable,   \* files that can be made or emptied
          Codes,       \* how a program may end: exit statuses and Signalled
          Signalled,
          Unset        \* a status variable nothing was stored in

ASSUME ShellAssumption ==
  /\ IsFiniteSet(Procs) /\ 1 \in Procs /\ Procs \subseteq Nat \ {0}
  /\ OpenMax \in Nat /\ OpenMax > 2
  /\ Lines \subseteq Seq(STRING) /\ MaxLines \in Nat
  /\ Signalled \in Codes /\ Unset \notin Codes \cup {0}
  /\ Filters \subseteq Executable

VARIABLES at,      \* where each process is
          parent,  \* 0 for init
          fd,      \* its descriptors: what each is and whether exec closes it
          job,     \* locals of parse_and_run_command, copied by fork
          code,    \* how a process ended
          left,    \* lines not read yet
          outcome, \* how the shell's own children of this line ended
          printed  \* the statuses it printed for this line

shellVars == <<at, parent, fd, job, code, left, outcome, printed>>

----------------------------------------------------------------------------
\* A line becomes words and words become commands.
Bar == <<"|">>
In == <<"<">>
Out == <<">">>
NoFile == <<>>
Blanks == {" "}

Taken(s, c) ==
  CASE c \notin Blanks -> [s EXCEPT !.word = Append(@, c)]
    [] c \in Blanks /\ s.word # <<>> -> [words |-> Append(s.words, s.word), word |-> <<>>]
    [] OTHER -> s

Words(line) ==
  LET cut[i \in 0 .. Len(line)] ==
        IF i = 0 THEN [words |-> <<>>, word |-> <<>>] ELSE Taken(cut[i - 1], line[i])
      end == cut[Len(line)]
  IN IF end.word = <<>> THEN end.words ELSE Append(end.words, end.word)

Redirects(words, i) ==
  /\ words[i] \in {In, Out}
  /\ i < Len(words) /\ words[i + 1] \notin {In, Out}

Fresh == [argv |-> <<>>, in |-> NoFile, out |-> NoFile]

\* What the loop over the words does with word i. A second "<" is only
\* complained of, its file stays as an argument; "|" is taken for a file name.
Parsed(words, s, i) ==
  LET w == words[i]
      side == IF w = In THEN "in" ELSE "out"
  IN CASE s.skip -> [s EXCEPT !.skip = FALSE]
       [] ~s.skip /\ w = Bar ->
            [done |-> Append(s.done, s.cmd), cmd |-> Fresh, skip |-> FALSE]
       [] ~s.skip /\ Redirects(words, i) /\ s.cmd[side] = NoFile ->
            [s EXCEPT !.cmd[side] = words[i + 1], !.skip = TRUE]
       [] ~s.skip /\ w \notin {Bar, In, Out} ->
            [s EXCEPT !.cmd.argv = Append(@, w)]
       [] OTHER -> s

Commands(words) ==
  LET parsed[i \in 0 .. Len(words)] ==
        IF i = 0 THEN [done |-> <<>>, cmd |-> Fresh, skip |-> FALSE]
        ELSE Parsed(words, parsed[i - 1], i)
      end == parsed[Len(words)]
  IN IF words = <<>> THEN <<>> ELSE Append(end.done, end.cmd)

\* Of a line's pipes none fails: a process may have that many descriptors.
ASSUME RoomAssumption == \A line \in Lines : 2 * Len(Commands(Words(line))) + 1 <= OpenMax

----------------------------------------------------------------------------
\* Descriptor tables (the kernel's part).
Tty == <<"tty", 0>>
Closed(t, f) == [g \in DOMAIN t \ {f} |-> t[g]]
FreeFds(t) == (0 .. OpenMax - 1) \ DOMAIN t
Lowest(set) == CHOOSE f \in set : \A g \in set : f <= g
Put(t, f, x) == [g \in DOMAIN t \cup {f} |-> IF g = f THEN x ELSE t[g]]
Opened(t, file) == Put(t, Lowest(FreeFds(t)), [file |-> file, cloexec |-> FALSE])
Dup2(t, old, new) ==
  IF old \in DOMAIN t /\ old # new
  THEN Put(t, new, [file |-> t[old].file, cloexec |-> FALSE])
  ELSE t

Holds(p, file) == \E f \in DOMAIN fd[p] : fd[p][f].file = file
LivePipes ==
  UNION {{fd[p][f].file[2] : f \in {g \in DOMAIN fd[p] : fd[p][g].file[1] \in {"read", "write"}}}
         : p \in Procs}

\* pipe() for each pair of neighbours; one that fails leaves 0 in its fields.
Piped(s, id) ==
  IF Cardinality(FreeFds(s.fds)) < 2
  THEN [s EXCEPT !.ends = @ \o <<0, 0>>]
  ELSE LET r == Lowest(FreeFds(s.fds))
           one == Opened(s.fds, <<"read", id>>)
           w == Lowest(FreeFds(one))
       IN [fds |-> Opened(one, <<"write", id>>), ends |-> s.ends \o <<r, w>>]

MakePipes(t, n) ==
  LET ids == (1 .. Cardinality(LivePipes) + n) \ LivePipes
      sorted == [i \in 1 .. n |-> CHOOSE d \in ids :
                                   Cardinality({e \in ids : e < d}) = i - 1]
      made[i \in 0 .. n] ==
        IF i = 0 THEN [fds |-> t, ends |-> <<>>] ELSE Piped(made[i - 1], sorted[i])
  IN made[n]

----------------------------------------------------------------------------
Pipes(j) == Len(j.cmds) - 1
Cmd(j) == j.cmds[j.k + 1]
End(j, i) == j.ends[i + 1]

\* A child of a pipeline puts its pipes in the place of stdin and stdout.
Wired(t, j) ==
  LET k == j.k
  IN CASE Pipes(j) = 0 -> t
       [] Pipes(j) > 0 /\ k = 0 ->
            Closed(Closed(Dup2(t, End(j, 1), 1), End(j, 1)), End(j, 0))
       [] k > 0 /\ k = Pipes(j) ->
            Closed(Dup2(Closed(t, End(j, 2*k - 1)), End(j, 2*k - 2), 0), End(j, 2*k - 2))
       [] OTHER -> Dup2(Dup2(t, End(j, 2*k - 2), 0), End(j, 2*k + 1), 1)

\* Mutant: without FD_CLOEXEC.
KeepOnExec(t, j) == t

CloseOnExec(t, j) ==
  [f \in DOMAIN t |->
     IF \E i \in 1 .. Len(j.ends) : j.ends[i] = f
     THEN [t[f] EXCEPT !.cloexec = TRUE] ELSE t[f]]

Setup(t, j) == CloseOnExec(Wired(t, j), j)

AfterExec(t) == [f \in {g \in DOMAIN t : ~t[g].cloexec} |-> t[f]]

----------------------------------------------------------------------------
\* Processes. A dead child waits as a zombie for its parent; init collects
\* its own at once.
NoJob == [words |-> <<>>, cmds |-> <<>>, k |-> 0, ends |-> <<>>,
          status |-> Unset, mute |-> FALSE]
Children(p) == {q \in Procs : parent[q] = p}
Spare == {q \in Procs : at[q] = "unused"}
Orphaned(p) == [q \in Procs |-> IF q = p \/ parent[q] # p THEN parent[q] ELSE 0]

Dies(p, how) ==
  LET kept(q) == ~(parent[q] = p /\ at[q] = "zombie")
      end == IF p # 1 /\ parent[p] = 0 THEN "unused" ELSE "zombie"
  IN /\ at' = [q \in Procs |-> CASE q = p -> end
                                 [] q # p /\ kept(q) -> at[q]
                                 [] OTHER -> "unused"]
     /\ parent' = Orphaned(p)
     /\ fd' = [fd EXCEPT ![p] = <<>>]
     /\ job' = [job EXCEPT ![p] = NoJob]
     /\ code' = [code EXCEPT ![p] = IF end = "unused" THEN 0 ELSE how]
     /\ outcome' = IF parent[p] = 1 THEN Put(outcome, p, how) ELSE outcome
     /\ UNCHANGED <<left, printed>>

ShellInit ==
  /\ at = [p \in Procs |-> IF p = 1 THEN "prompt" ELSE "unused"]
  /\ parent = [p \in Procs |-> 0]
  /\ fd = [p \in Procs |-> IF p = 1 THEN [f \in 0 .. 2 |-> [file |-> Tty, cloexec |-> FALSE]]
                                    ELSE <<>>]
  /\ job = [p \in Procs |-> NoJob]
  /\ code = [p \in Procs |-> 0]
  /\ left = MaxLines
  /\ outcome = <<>> /\ printed = <<>>

\* No input any more: closed, an empty file, a pipe nobody can write, or the
\* terminal's end.
AtEof(p) ==
  0 \in DOMAIN fd[p] =>
    LET file == fd[p][0].file
    IN CASE file[1] = "read" -> \A q \in Procs : ~Holds(q, <<"write", file[2]>>)
         [] file = Tty -> left = 0
         [] OTHER -> TRUE

FromTty(p) == 0 \in DOMAIN fd[p] /\ fd[p][0].file = Tty

\* getline, the parsing and the pipes. With no word at all there are -1
\* pipes: the vector of -2 descriptors throws and the process aborts.
ReadLine(p) ==
  /\ at[p] = "prompt" /\ left > 0 /\ FromTty(p)
  /\ \E line \in Lines :
       LET words == Words(line)
           cmds == Commands(words)
           pipes == MakePipes(fd[p], Len(cmds) - 1)
       IN /\ cmds # <<>>
          /\ at' = [at EXCEPT ![p] = IF line = ExitLine THEN "exit" ELSE "loop"]
          /\ fd' = [fd EXCEPT ![p] = pipes.fds]
          /\ job' = [job EXCEPT ![p] =
                       [NoJob EXCEPT !.words = words, !.cmds = cmds,
                                     !.ends = pipes.ends, !.mute = job[p].mute]]
  /\ left' = left - 1
  /\ IF p = 1 THEN outcome' = <<>> /\ printed' = <<>> ELSE UNCHANGED <<outcome, printed>>
  /\ UNCHANGED <<parent, code>>

BlankLine(p) ==
  /\ at[p] = "prompt" /\ left > 0 /\ FromTty(p)
  /\ \E line \in Lines : Words(line) = <<>>
  /\ Dies(p, Signalled)

\* The end of the input, or the line "exit".
Leaves(p) ==
  /\ (at[p] = "prompt" /\ AtEof(p)) \/ at[p] = "exit"
  /\ Dies(p, 0)

InLoop(p) == at[p] = "loop" /\ job[p].k < Len(job[p].cmds)
NextCmd(p) == job' = [job EXCEPT ![p].k = @ + 1]

\* Of the loop over the commands: one without words, one that fork fails for.
SkipCommand(p) ==
  /\ InLoop(p)
  /\ Cmd(job[p]).argv = <<>> \/ Spare = {}
  /\ NextCmd(p)
  /\ UNCHANGED <<at, parent, fd, code, left, outcome, printed>>

Fork(p) ==
  /\ InLoop(p) /\ Cmd(job[p]).argv # <<>> /\ Spare # {}
  /\ LET c == Lowest(Spare)
     IN /\ at' = [at EXCEPT ![c] = "child"]
        /\ parent' = [parent EXCEPT ![c] = p]
        /\ fd' = [fd EXCEPT ![c] = fd[p]]
        /\ job' = [job EXCEPT ![c] = job[p], ![p].k = @ + 1]
  /\ UNCHANGED <<code, left, outcome, printed>>

\* A child: pipes, redirections, exec. What fails leaves it in the loop, at
\* the next command.
Start(p) ==
  /\ at[p] = "child"
  /\ LET cmd == Cmd(job[p])
         wired == Setup(fd[p], job[p])
         noIn == cmd.in # NoFile /\ cmd.in \notin Openable
         in == CASE cmd.in = NoFile -> wired
                 [] noIn -> Closed(wired, 0)
                 [] OTHER -> Opened(Closed(wired, 0), <<"file", cmd.in>>)
         noOut == cmd.out # NoFile /\ cmd.out \notin Creatable
         out == CASE noIn \/ cmd.out = NoFile -> in
                  [] ~noIn /\ noOut -> Closed(in, 1)
                  [] OTHER -> Opened(Closed(in, 1), <<"file", cmd.out>>)
     IN IF noIn \/ noOut \/ cmd.argv[1] \notin Executable
        THEN /\ at' = [at EXCEPT ![p] = "loop"]
             /\ fd' = [fd EXCEPT ![p] = out]
             /\ NextCmd(p)
        ELSE /\ at' = [at EXCEPT ![p] = "program"]
             /\ fd' = [fd EXCEPT ![p] = AfterExec(out)]
             /\ UNCHANGED job
  /\ UNCHANGED <<parent, code, left, outcome, printed>>

\* The loop is over: the pipes are closed, then one wait per command.
KeepPipes(t, j) == t   \* mutant

ClosePipes(t, j) ==
  [f \in DOMAIN t \ {j.ends[i] : i \in DOMAIN j.ends} |-> t[f]]

CloseAll(p) ==
  /\ at[p] = "loop" /\ job[p].k = Len(job[p].cmds)
  /\ at' = [at EXCEPT ![p] = "wait"]
  /\ fd' = [fd EXCEPT ![p] = ClosePipes(@, job[p])]
  /\ job' = [job EXCEPT ![p].k = 0]
  /\ UNCHANGED <<parent, code, left, outcome, printed>>

\* After wait: the status it left is printed with command k's name. Without
\* a name the null pointer spoils cout and nothing is printed ever after.
OneWaitLess(p) == job[p].k + 2 >= Len(job[p].cmds)   \* mutant

LastWait(p) == job[p].k + 1 = Len(job[p].cmds)

PrintsLast(p, status) == status # Signalled /\ LastWait(p)   \* mutant

Exited(p, status) == status # Signalled

Reports(p, status) ==
  LET j == job[p]
      prints == Exited(p, status)
      mute == j.mute \/ (prints /\ Cmd(j).argv = <<>>)
  IN /\ job' = [job EXCEPT ![p] =
                  IF LastWait(p) THEN [NoJob EXCEPT !.mute = mute]
                  ELSE [j EXCEPT !.k = @ + 1, !.mute = mute, !.status = status]]
     /\ printed' = IF p = 1 /\ prints /\ ~mute
                   THEN Append(printed, <<j.k, status>>) ELSE printed

Waited(p) == IF LastWait(p) THEN "prompt" ELSE "wait"

Wait(p) ==
  /\ at[p] = "wait"
  /\ \E c \in Children(p) :
       /\ at[c] = "zombie"
       /\ Reports(p, code[c])
       /\ at' = [at EXCEPT ![c] = "unused", ![p] = Waited(p)]
       /\ parent' = [parent EXCEPT ![c] = 0]
       /\ code' = [code EXCEPT ![c] = 0]
  /\ UNCHANGED <<fd, left, outcome>>

\* Without children wait fails and status is what it was, or, if no wait of
\* this line has set it, anything.
WaitFails(p) ==
  /\ at[p] = "wait" /\ Children(p) = {}
  /\ \E s \in IF job[p].status = Unset THEN Codes ELSE {job[p].status} : Reports(p, s)
  /\ at' = [at EXCEPT ![p] = Waited(p)]
  /\ UNCHANGED <<parent, fd, code, left, outcome>>

\* A program ends when it likes, one that reads its input after its end.
Ends(p) ==
  /\ at[p] = "program"
  /\ Cmd(job[p]).argv[1] \notin Filters \/ AtEof(p) \/ FromTty(p)
  /\ \E how \in Codes : Dies(p, how)

----------------------------------------------------------------------------
Turn(p) ==
  \/ ReadLine(p) \/ BlankLine(p) \/ Leaves(p)
  \/ SkipCommand(p) \/ Fork(p) \/ CloseAll(p)
  \/ Start(p)
  \/ Wait(p) \/ WaitFails(p)
  \/ Ends(p)

ShellNext == \E p \in Procs : Turn(p)

\* Every process runs, and a program that has all its input ends.
ShellFairness == \A p \in Procs : WF_shellVars(Turn(p))

ShellSpec == ShellInit /\ [][ShellNext]_shellVars /\ ShellFairness

----------------------------------------------------------------------------
\* The grammar of the instructions, stated over the positions of the words.
Bars(words) == {i \in DOMAIN words : words[i] = Bar}
Segment(words, k) ==
  {i \in DOMAIN words \ Bars(words) : Cardinality({b \in Bars(words) : b < i}) = k}
Files(words, k, op) ==
  {words[i + 1] : i \in {j \in Segment(words, k) : words[j] = op /\ j + 1 \in DOMAIN words}}
Plain(words, k) ==
  {i \in Segment(words, k) : words[i] \notin {In, Out} /\
                             (i = 1 \/ words[i - 1] \notin {In, Out})}
WellFormed(words) ==
  \A k \in 0 .. Cardinality(Bars(words)) :
    /\ Plain(words, k) # {}
    /\ \A op \in {In, Out} :
         /\ Cardinality({i \in Segment(words, k) : words[i] = op}) <= 1
         /\ Files(words, k, op) \cap {Bar, In, Out} = {}
    /\ \A i \in Segment(words, k) : words[i] \in {In, Out} => i + 1 \in Segment(words, k)

Runs(p) == at[p] = "program" /\ parent[p] = 1
Stray == {p \in Procs \ {1} : at[p] \in {"loop", "wait", "prompt", "exit"}}

(* Of a well-formed line, the program the shell has started for command k   *)
(* is the command's first word and has three descriptors and no end of any  *)
(* other pipe: standard input is the file after "<", or the pipe that       *)
(* command k-1 writes, or the terminal, and standard output the like. The   *)
(* code closes by hand at both ends of the pipeline and by FD_CLOEXEC in    *)
(* the middle (shell/main.cc:184-237).                                      *)
ShellWiring ==
  \A p \in {q \in Procs : Runs(q)} :
    LET words == job[p].words
        k == job[p].k
        in == Files(words, k, In)
        out == Files(words, k, Out)
        file(f) == fd[p][f].file
    IN WellFormed(words) =>
         /\ Cmd(job[p]).argv[1] = words[Lowest(Plain(words, k))]
         /\ DOMAIN fd[p] = 0 .. 2
         /\ CASE in # {} -> {file(0)} = {<<"file", w>> : w \in in}
              [] in = {} /\ k = 0 -> file(0) = Tty
              [] OTHER -> file(0)[1] = "read"
         /\ CASE out # {} -> {file(1)} = {<<"file", w>> : w \in out}
              [] out = {} /\ k = Cardinality(Bars(words)) -> file(1) = Tty
              [] OTHER -> file(1)[1] = "write"
         /\ \A q \in Procs : Runs(q) /\ job[q].k = k + 1 =>
              (file(1)[1] = "write" /\ fd[q][0].file[1] = "read"
                 => file(1)[2] = fd[q][0].file[2])

(* When the shell prompts it has the three descriptors it started with and  *)
(* no child, running or dead, whatever failed on the line before: "must     *)
(* close file descriptors used between commands" (shell/main.cc:252-265).   *)
ShellPromptsClean ==
  at[1] = "prompt" => Children(1) = {} /\ DOMAIN fd[1] = 0 .. 2

(* Unless cout is spoiled, every exit status of a child of the line is      *)
(* printed as often as it occurred, though not beside the right name, and   *)
(* if any child ran nothing else is: waits for commands that were never     *)
(* forked repeat a status, they invent none (shell/main.cc:259-265).        *)
ShellStatusesKept ==
  at[1] = "prompt" /\ ~job[1].mute =>
    /\ \A c \in Codes \ {Signalled} :
         Cardinality({i \in DOMAIN printed : printed[i][2] = c})
           >= Cardinality({p \in DOMAIN outcome : outcome[p] = c})
    /\ outcome # <<>> =>
         \A i \in DOMAIN printed : \E p \in DOMAIN outcome : outcome[p] = printed[i][2]

(* A line is answered by another prompt, or the shell is gone, unless a     *)
(* command that could not be started has left a stray (main.cc:252-265).    *)
ShellReturns ==
  at[1] \in {"loop", "wait"} ~> at[1] \in {"prompt", "zombie"} \/ Stray # {}

(* The same with strays: "make sure the code does not hang" and "exit with  *)
(* exit status 255" (shell/instructions_summary.txt:51,22). The code does   *)
(* neither: a | bad | c hangs.                                              *)
ShellNeverHangs ==
  at[1] \in {"loop", "wait"} ~> at[1] \in {"prompt", "zombie"}

(* The prompt leaves nothing behind and nothing unsaid (main.cc:252-265).   *)
ShellPrompts == ShellPromptsClean /\ ShellStatusesKept

(* The programs run as they were typed, and the prompt comes back with      *)
(* nothing left over (main.cc:184-265).                                     *)
ShellSound == ShellWiring /\ ShellPrompts
=============================================================================
