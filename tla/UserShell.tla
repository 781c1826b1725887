----------------------------- MODULE UserShell -----------------------------
(***************************************************************************)
(* The shell of xv6 (sh.c): a line is cut into tokens and parsed into a    *)
(* tree of commands by a child of the shell, and the tree is run by        *)
(* processes that fork for the parts of lists, pipelines and background    *)
(* commands and wait for some of them. A step of a process ends where it   *)
(* forks, waits, starts a program or exits. Characters are strings of      *)
(* length one, a token is a sequence of them.                              *)
(***************************************************************************)
EXTENDS Integers, Sequences, FiniteSets, SequencesExt, FiniteSetsExt, TLC

CONSTANTS Pids,        \* 1 is the shell; the other slots bound fork
          TypedLines, MaxTyped,   \* bound on the lines typed
          MaxArgs,     \* MAXARGS
          Programs,    \* words that exec can start
          Readers,     \* the programs among them that read to the end of input
          Readable, Writable   \* files that open

ASSUME UserShellAssumption ==
  /\ 1 \in Pids /\ Pids \subseteq Nat
  /\ {MaxTyped, MaxArgs} \subseteq Nat
  /\ Readers \subseteq Programs

VARIABLES task,    \* what each process does, of which line
          boss,    \* its parent, 0 for init
          seat,    \* its descriptors
          typed,   \* the lines read so far
          began,   \* history: first words of the programs started for the last line
          short    \* history: fork or pipe failed for the last line

userVars == <<task, boss, seat, typed, began, short>>

----------------------------------------------------------------------------
\* gettoken.
Symbols == {"<", "|", ">", "&", ";", "(", ")"}
LessT == <<"<">>
MoreT == <<">">>
AppendT == <<">", ">">>
BarT == <<"|">>
AmpT == <<"&">>
SemiT == <<";">>
OpenT == <<"(">>
CloseT == <<")">>
Writes == {MoreT, AppendT}
Redirs == {LessT} \cup Writes

IsWord(t) == t[1] \notin Symbols

Token(s, c) ==
  LET toks == IF s.word = <<>> THEN s.toks ELSE Append(s.toks, s.word)
  IN CASE c = " " -> [toks |-> toks, word |-> <<>>, more |-> FALSE]
       [] c = ">" /\ s.more ->
            [toks |-> Append(Front(toks), AppendT), word |-> <<>>, more |-> FALSE]
       [] c \in Symbols /\ ~(c = ">" /\ s.more) ->
            [toks |-> Append(toks, <<c>>), word |-> <<>>, more |-> c = ">"]
       [] OTHER -> [s EXCEPT !.word = Append(@, c), !.more = FALSE]

Tokens(line) ==
  FoldLeft(Token, [toks |-> <<>>, word |-> <<>>, more |-> FALSE], Append(line, " ")).toks

\* The parser: what is left of the tokens, the command, and whether a panic
\* has ended the process.
NoCmd == [type |-> "none"]
Exec(argv) == [type |-> "exec", argv |-> argv]
Peek(s, set) == s.ok /\ s.toks # <<>> /\ Head(s.toks) \in set
Skip(s) == [s EXCEPT !.toks = Tail(@)]
Panics(s) == [s EXCEPT !.ok = FALSE]

RECURSIVE ParseRedirs(_), ParseWords(_), ParsePipe(_), ParseBacks(_), ParseLine(_)

\* The command of s is inside the redirections that follow.
ParseRedirs(s) ==
  CASE ~Peek(s, Redirs) -> s
    [] Peek(s, Redirs) /\ (Len(s.toks) < 2 \/ ~IsWord(s.toks[2])) -> Panics(s)
    [] OTHER ->
         ParseRedirs([s EXCEPT !.toks = Tail(Tail(@)), !.files = Append(@,
           [fd |-> IF Head(s.toks) = LessT THEN 0 ELSE 1, file |-> s.toks[2]])])

InFiles(s) ==
  [s EXCEPT !.cmd = FoldLeft(LAMBDA c, r : [type |-> "redir", cmd |-> c, fd |-> r.fd, file |-> r.file],
                             @, s.files),
            !.files = <<>>]

ParseWords(s) ==
  CASE ~s.ok \/ s.toks = <<>> \/ Peek(s, {BarT, CloseT, AmpT, SemiT}) -> s
    [] Peek(s, {OpenT}) \/ (s.toks # <<>> /\ Len(s.cmd.argv) + 1 >= MaxArgs) -> Panics(s)
    [] OTHER ->
         ParseWords(ParseRedirs([Skip(s) EXCEPT !.cmd.argv = Append(@, Head(s.toks))]))

ParseBlock(s) ==
  LET in == ParseLine(Skip(s))
  IN IF Peek(in, {CloseT}) THEN InFiles(ParseRedirs(Skip(in))) ELSE Panics(in)

ParseExec(s) ==
  IF Peek(s, {OpenT}) THEN ParseBlock(s)
  ELSE InFiles(ParseWords(ParseRedirs([s EXCEPT !.cmd = Exec(<<>>)])))

ParsePipe(s) ==
  LET left == ParseExec(s)
      right == ParsePipe(Skip(left))
  IN IF ~Peek(left, {BarT}) THEN left
     ELSE [right EXCEPT !.cmd = [type |-> "pipe", left |-> left.cmd, right |-> @]]

ParseBacks(s) ==
  IF ~Peek(s, {AmpT}) THEN s
  ELSE ParseBacks([Skip(s) EXCEPT !.cmd = [type |-> "back", cmd |-> @]])

ParseLine(s) ==
  LET left == ParseBacks(ParsePipe(s))
      right == ParseLine(Skip(left))
  IN IF ~Peek(left, {SemiT}) THEN left
     ELSE [right EXCEPT !.cmd = [type |-> "list", left |-> left.cmd, right |-> @]]

\* Mutant: what is left over is ignored.
LeavesOver(toks) ==
  LET all == ParseLine([toks |-> toks, cmd |-> NoCmd, files |-> <<>>, ok |-> TRUE])
  IN IF all.ok THEN all.cmd ELSE NoCmd

\* What is left over is an error, too, and an error leaves nothing to run.
ParseCmd(toks) ==
  LET all == ParseLine([toks |-> toks, cmd |-> NoCmd, files |-> <<>>, ok |-> TRUE])
  IN IF all.ok /\ all.toks = <<>> THEN all.cmd ELSE NoCmd

----------------------------------------------------------------------------
\* Descriptors (the kernel's part).
ConsoleDev == <<"console", 0>>
Without(t, set) == [f \in DOMAIN t \ set |-> t[f]]
Added(t, file) == (Min((0 .. Cardinality(DOMAIN t)) \ DOMAIN t) :> file) @@ t
PipesInUse ==
  UNION {{seat[p][f][2] : f \in {g \in DOMAIN seat[p] : seat[p][g][1] \in {"read", "write"}}}
         : p \in Pids}
AnyHolds(file) == \E p \in Pids : \E f \in DOMAIN seat[p] : seat[p][f] = file

\* Processes. A dead child waits for its parent; init collects its own.
Gone == [do |-> "none", cmd |-> NoCmd, waits |-> 0, ends |-> <<0, 0>>, of |-> 0]
Unused == {p \in Pids : task[p] = Gone}
Kids(p) == {q \in Pids : boss[q] = p}

UserInit ==
  /\ task = [p \in Pids |-> IF p = 1 THEN [Gone EXCEPT !.do = "prompt"] ELSE Gone]
  /\ boss = [p \in Pids |-> 0]
  /\ seat = [p \in Pids |-> IF p = 1 THEN [f \in 0 .. 2 |-> ConsoleDev] ELSE <<>>]
  /\ typed = <<>> /\ began = {} /\ short = FALSE

\* exit(). The shell itself stays a zombie.
Quit(p) ==
  /\ task' = [q \in Pids |->
       CASE q = p -> IF p # 1 /\ boss[p] = 0 THEN Gone ELSE [Gone EXCEPT !.do = "zombie"]
         [] q # p /\ boss[q] = p /\ task[q].do = "zombie" -> Gone
         [] OTHER -> task[q]]
  /\ boss' = [q \in Pids |-> IF boss[q] = p THEN 0 ELSE boss[q]]
  /\ seat' = [seat EXCEPT ![p] = <<>>]

Executes(p, type) == task[p].do = "run" /\ task[p].cmd.type = type
Going(p, cmd) == [task[p] EXCEPT !.do = "run", !.cmd = cmd, !.ends = <<0, 0>>]
Waits(p, n, cmd) == [task[p] EXCEPT !.do = "wait", !.waits = n, !.cmd = cmd,
                             !.ends = <<0, 0>>]

\* fork1: a child with this task and these descriptors beside what the parent
\* goes on with, or the end of the process.
Fork1(p, child, fds, own, kept) ==
  IF Unused = {} THEN Quit(p) /\ short' = TRUE
  ELSE LET c == Min(Unused)
       IN /\ task' = [task EXCEPT ![c] = child, ![p] = own]
          /\ boss' = [boss EXCEPT ![c] = p]
          /\ seat' = [seat EXCEPT ![c] = fds, ![p] = kept]
          /\ UNCHANGED short

----------------------------------------------------------------------------
\* main: read a line, change the directory or have a child run it.
IsCd(line) == Len(line) > 2 /\ SubSeq(line, 1, 3) = <<"c", "d", " ">>

GetCmd(line) ==
  /\ task[1].do = "prompt" /\ Len(typed) < MaxTyped
  /\ typed' = Append(typed, Tokens(line)) /\ began' = {}
  /\ IF IsCd(line) THEN short' = FALSE /\ UNCHANGED <<task, boss, seat>>
     ELSE LET child == [Gone EXCEPT !.do = "run", !.cmd = ParseCmd(Tokens(line)),
                                    !.of = Len(typed) + 1]
          IN IF Unused = {} THEN Quit(1) /\ short' = TRUE
             ELSE /\ task' = [task EXCEPT ![Min(Unused)] = child, ![1] = Waits(1, 1, NoCmd)]
                  /\ boss' = [boss EXCEPT ![Min(Unused)] = 1]
                  /\ seat' = [seat EXCEPT ![Min(Unused)] = seat[1]]
                  /\ short' = FALSE

EndOfInput == task[1].do = "prompt" /\ Quit(1) /\ UNCHANGED <<typed, began, short>>

\* runcmd.
RunNothing(p) == Executes(p, "none") /\ Quit(p) /\ UNCHANGED <<typed, began, short>>

RunExec(p) ==
  /\ Executes(p, "exec")
  /\ LET argv == task[p].cmd.argv
     IN IF argv # <<>> /\ argv[1] \in Programs
        THEN /\ task' = [task EXCEPT ![p].do = "program"]
             /\ began' = IF task[p].of = Len(typed) THEN began \cup {argv[1]} ELSE began
             /\ UNCHANGED <<boss, seat>>
        ELSE Quit(p) /\ UNCHANGED began
  /\ UNCHANGED <<typed, short>>

RunRedir(p) ==
  /\ Executes(p, "redir")
  /\ LET r == task[p].cmd
     IN IF r.file \in (IF r.fd = 0 THEN Readable ELSE Writable)
        THEN /\ seat' = [seat EXCEPT ![p] = Added(Without(@, {r.fd}), <<"file", r.file>>)]
             /\ task' = [task EXCEPT ![p] = Going(p, r.cmd)]
             /\ UNCHANGED boss
        ELSE Quit(p)
  /\ UNCHANGED <<typed, began, short>>

RunList(p) ==
  /\ Executes(p, "list")
  /\ Fork1(p, Going(p, task[p].cmd.left), seat[p], Waits(p, 1, task[p].cmd.right), seat[p])
  /\ UNCHANGED <<typed, began>>

RunBack(p) ==
  /\ Executes(p, "back")
  /\ Fork1(p, Going(p, task[p].cmd.cmd), seat[p], Going(p, NoCmd), seat[p])
  /\ UNCHANGED <<typed, began>>

\* A pipeline's two children and what all three close.
Dup(t, f, g) == Added(Without(t, {g}), t[f])
LeftSeat(t, ends) == Without(Dup(t, ends[2], 1), {ends[1], ends[2]})
\* Mutants: the right command, or the shell, keeps an end.
RightKeeps(t, ends) == Without(Dup(t, ends[1], 0), {ends[1]})
ParentKeeps(t, ends) == Without(t, {ends[1]})

RightSeat(t, ends) == Without(Dup(t, ends[1], 0), {ends[1], ends[2]})
ParentSeat(t, ends) == Without(t, {ends[1], ends[2]})

RunPipe(p) ==
  /\ Executes(p, "pipe")
  /\ LET id == Min((1 .. Cardinality(Pids)) \ PipesInUse)
         one == Added(seat[p], <<"read", id>>)
         both == Added(one, <<"write", id>>)
         ends == <<Min(DOMAIN one \ DOMAIN seat[p]), Min(DOMAIN both \ DOMAIN one)>>
     IN Fork1(p, Going(p, task[p].cmd.left), LeftSeat(both, ends),
              [task[p] EXCEPT !.do = "right", !.ends = ends], both)
  /\ UNCHANGED <<typed, began>>

PipeFails(p) ==
  /\ Executes(p, "pipe")
  /\ Quit(p) /\ short' = TRUE /\ UNCHANGED <<typed, began>>

RunRight(p) ==
  /\ task[p].do = "right"
  /\ Fork1(p, Going(p, task[p].cmd.right), RightSeat(seat[p], task[p].ends),
           Waits(p, 2, NoCmd), ParentSeat(seat[p], task[p].ends))
  /\ UNCHANGED <<typed, began>>

\* wait() collects a child or fails for want of one.
WaitReturns(p) ==
  /\ task[p].do = "wait"
  /\ LET dead == {q \in Kids(p) : task[q].do = "zombie"}
         next == IF p = 1 THEN "prompt" ELSE "run"
         left == [task[p] EXCEPT !.waits = @ - 1, !.do = IF task[p].waits = 1 THEN next ELSE @]
     IN \/ /\ Kids(p) = {}
           /\ task' = [task EXCEPT ![p] = left] /\ UNCHANGED boss
        \/ \E q \in dead :
             /\ task' = [task EXCEPT ![q] = Gone, ![p] = left]
             /\ boss' = [boss EXCEPT ![q] = 0]
  /\ UNCHANGED <<seat, typed, began, short>>

\* A program ends when it likes, one that reads a pipe after the pipe's end.
ProgramEnds(p) ==
  /\ task[p].do = "program"
  /\ task[p].cmd.argv[1] \in Readers /\ seat[p][0][1] = "read"
       => ~AnyHolds(<<"write", seat[p][0][2]>>)
  /\ Quit(p) /\ UNCHANGED <<typed, began, short>>

ProcessStep(p) ==
  \/ RunNothing(p) \/ RunExec(p) \/ RunRedir(p) \/ RunList(p) \/ RunBack(p)
  \/ RunPipe(p) \/ PipeFails(p) \/ RunRight(p)
  \/ WaitReturns(p) \/ ProgramEnds(p)

UserNext ==
  \/ \E line \in TypedLines : GetCmd(line)
  \/ EndOfInput
  \/ \E p \in Pids : ProcessStep(p)

\* Every process runs, and a program that has all its input ends.
UserSpec ==
  UserInit /\ [][UserNext]_userVars /\ \A p \in Pids : WF_userVars(ProcessStep(p))

----------------------------------------------------------------------------
\* The meaning of a line t, stated over the positions of its tokens and how
\* deep in blocks they are, without a tree.
Level(t, i) ==
  Cardinality({j \in 1 .. i - 1 : t[j] = OpenT}) - Cardinality({j \in 1 .. i : t[j] = CloseT})

Span(t, i, d, seps) ==
  {j \in DOMAIN t : \A k \in Min({i, j}) .. Max({i, j}) :
     Level(t, k) > d \/ (Level(t, k) = d /\ t[k] \notin seps)}
Element(t, i, d) == Span(t, i, d, {BarT, SemiT, AmpT})
Behind(t, span) == IF Max(span) = Len(t) THEN {} ELSE {t[Max(span) + 1]}

Plain0(t, i) == IsWord(t[i]) /\ (i = 1 \/ t[i - 1] \notin Redirs)
FirstWords(t) ==
  {i \in DOMAIN t : Plain0(t, i) /\ \A j \in Element(t, i, Level(t, i)) : j < i => ~Plain0(t, j)}

Grammatical(t) ==
  /\ \A i \in DOMAIN t : Level(t, i) >= 0
  /\ Cardinality({i \in DOMAIN t : t[i] = OpenT}) = Cardinality({i \in DOMAIN t : t[i] = CloseT})
  /\ \A i \in DOMAIN t :
       LET element == Element(t, i, Level(t, i))
       IN /\ t[i] \in Redirs => i < Len(t) /\ IsWord(t[i + 1])
          /\ t[i] = OpenT => i = Min(element)
          /\ t[i] = AmpT => i = Len(t) \/ t[i + 1] \in {AmpT, SemiT, CloseT}
          /\ Plain0(t, i) =>
               /\ \A j \in element : j < i => t[j] # CloseT
               /\ Cardinality({j \in element : Plain0(t, j)}) < MaxArgs

\* The redirections of the command at i or, at lower levels, of a block it is in.
RedirsAt(t, i, d, ops) == {k \in Element(t, i, d) : Level(t, k) = d /\ t[k] \in ops}

Starts(t, i) ==
  /\ t[i] \in Programs
  /\ \A d \in 0 .. Level(t, i) :
       /\ \A k \in RedirsAt(t, i, d, {LessT}) : t[k + 1] \in Readable
       /\ \A k \in RedirsAt(t, i, d, Writes) : t[k + 1] \in Writable

\* The pipe before or behind, at each level, by the position of its bar.
BarBefore(t, i, d) == {k \in {Min(Element(t, i, d)) - 1} \cap DOMAIN t : t[k] = BarT}
BarBehind(t, i, d) == {k \in {Max(Element(t, i, d)) + 1} \cap DOMAIN t : t[k] = BarT}

\* The innermost of what sets standard input or output; of two redirections
\* at one level the first.
Place(t, i, ops, bars(_)) ==
  LET set == {d \in 0 .. Level(t, i) : RedirsAt(t, i, d, ops) # {} \/ bars(d) # {}}
  IN IF set = {} THEN ConsoleDev
     ELSE LET d == Max(set) IN
          IF RedirsAt(t, i, d, ops) # {}
          THEN <<"file", t[Min(RedirsAt(t, i, d, ops)) + 1]>>
          ELSE <<"pipe", Min(bars(d))>>
Input(t, i) == Place(t, i, {LessT}, LAMBDA d : BarBefore(t, i, d))
Output(t, i) == Place(t, i, Writes, LAMBDA d : BarBehind(t, i, d))

\* Whether a pipeline at level m or deeper that i is in has "&" behind it.
Detached(t, i, m) ==
  \E d \in m .. Level(t, i) : AmpT \in Behind(t, Span(t, i, d, {SemiT, AmpT}))

Follows(t, i, j) ==
  /\ i < j
  /\ LET low == Min({Level(t, k) : k \in i .. j})
     IN /\ \E k \in i .. j : Level(t, k) = low /\ t[k] = SemiT
        /\ ~Detached(t, i, low)

----------------------------------------------------------------------------
\* The command a running program is, in its line.
Text(p) == typed[task[p].of]
Where(p) == CHOOSE i \in FirstWords(Text(p)) : Text(p)[i] = task[p].cmd.argv[1]
InPlace(file, place) ==
  IF place[1] = "pipe" THEN file[1] \in {"read", "write"} ELSE file = place

(* Every program the shell has started reads and writes where its place in  *)
(* the line says, blocks and redirections of blocks included, shares a pipe *)
(* with its neighbours only, and has no other descriptor (sh.c:81-117).     *)
UserShellWires ==
  LET running == {p \in Pids : task[p].do = "program"}
  IN /\ \A p \in running :
          /\ DOMAIN seat[p] = 0 .. 2
          /\ InPlace(seat[p][0], Input(Text(p), Where(p)))
          /\ InPlace(seat[p][1], Output(Text(p), Where(p)))
     /\ \A p, q \in running :
          LET out == Output(Text(p), Where(p))
              in == Input(Text(q), Where(q))
          IN out[1] = "pipe" /\ in[1] = "pipe" =>
               (seat[p][1][2] = seat[q][0][2] <=> out = in /\ task[p].of = task[q].of)

(* Of the last line exactly those commands are started whose program and    *)
(* files are there, none if the line has an error anywhere; a command after *)
(* ";" not before the one in front of it has ended; and at the prompt only  *)
(* background commands are left over, unless fork or pipe failed (sh.c:     *)
(* 59-131, 329-449).                                                        *)
UserShellRuns ==
  typed # <<>> =>
    LET t == Last(typed)
        due == {i \in FirstWords(t) : t[1] # <<"c", "d">> /\ Grammatical(t) /\ Starts(t, i)}
        runs(i) == \E p \in Pids : task[p].do = "program" /\ task[p].of = Len(typed) /\ Where(p) = i
        ended(i) == t[i] \in began /\ ~runs(i)
    IN /\ began \subseteq {t[i] : i \in due}
       /\ ~short =>
            /\ \A i, j \in due : Follows(t, i, j) /\ t[j] \in began => ended(i)
            /\ task[1].do = "prompt" => \A i \in due : ended(i) \/ Detached(t, i, 0)

(* What runs is what was typed, and it is connected as it was typed (sh.c:  *)
(* 59-131, 329-449).                                                        *)
UserShellSound == UserShellWires /\ UserShellRuns

(* The shell comes back to its prompt, or is gone: every pipe ends, and     *)
(* every wait has a child to end or none (sh.c:93-131, 167-169).            *)
UserShellReturns == task[1].do = "wait" ~> task[1].do \in {"prompt", "zombie"}
=============================================================================
