------------------------------- MODULE Shell -------------------------------
(***************************************************************************)
(* The mini-shell: parse_command, parse_simple, run_in_parallel,           *)
(* run_on_pipe (cmd.c) and the loop of start_shell (main.c), with the      *)
(* processes that they fork, the pipes between them and waitpid.  A step   *)
(* is one system call of one process, or the code up to the next one.      *)
(*                                                                         *)
(* The parse trees are given: a command is the number of a node, larger    *)
(* than the numbers of the commands below it.                              *)
(***************************************************************************)
EXTENDS Integers, Sequences

CONSTANTS Command,       \* the nodes of the parse trees
          Scripts,       \* what is typed: sequences of commands, one per line
          Dirs,          \* the directories that chdir accepts
          PipeCapacity,  \* bound: items that a pipe holds
          MaxProcs,      \* bound: processes, pids are 1 .. MaxProcs
          MaxForkFailures   \* bound: how often fork fails

Commands == 1 .. Len(Command)

ASSUME ShellAssumption ==
  /\ Len(Command) \in Nat
  /\ \A c \in Commands :
       LET n == Command[c] IN
       \/ n.op = "NONE" /\ n.verb \in {"=", "cd", "exit"}
       \/ /\ n.op = "NONE" /\ n.verb = "run"
          /\ n.arg \in 0 .. 255 /\ n.writes \in Nat
       \/ /\ n.op \in {"SEQUENTIAL", "CONDITIONAL_ZERO", "CONDITIONAL_NZERO",
                       "PIPE", "PARALLEL"}
          /\ n.cmd1 \in 1 .. (c - 1) /\ n.cmd2 \in 1 .. (c - 1)
  /\ Scripts \subseteq Seq(Commands) /\ Dirs # {}
  /\ PipeCapacity \in Nat \ {0} /\ MaxProcs \in Nat \ {0}
  /\ MaxForkFailures \in Nat

VARIABLES
  script,     \* lines not yet read
  procs,      \* [1 .. MaxProcs -> process]
  pipes,      \* the pipes: how many items are in each
  failures,   \* how often fork may still fail
  line,       \* the line being executed, and
  start,      \* the directory and the variable when it was read, and
  failed      \* did a fork fail since.  History variables.

vars == <<script, procs, pipes, failures, line, start, failed>>
history == <<line, start, failed>>

Pids  == 1 .. MaxProcs
SHELL == 1
NoPid  == 0
NoPipe == 0      \* a terminal or a file
NoProgram == 0   \* a process that executes the shell's own code

SHELL_EXIT == -100
Killed == 256    \* the status of a process that a signal ended

\* In place of the value that a word with a "=" assigns:
NoName  == -1    \* there is nothing before the "=", as in ==1
NoValue == -2    \* there is nothing after it, as in a=

(***************************************************************************)
(* A process has a state (unused, running, zombie), a parent, a stack of   *)
(* calls of parse_command (cmd, pc, pid1, pid2, pipefd), innermost first,  *)
(* what the last call returned (ret), the program it executes (prog) and   *)
(* what that has left to write (items), the pipes that are its standard    *)
(* input and output (in, out) or in other descriptors (held), a working    *)
(* directory, an environment variable, and in the end its exit code.       *)
(***************************************************************************)

-----------------------------------------------------------------------------
(* Processes and pipes (external: the kernel, as the shell uses it).       *)

Running(p) == procs[p].state = "running"

Readers(i) == {p \in Pids : Running(p) /\ (procs[p].in = i \/ <<i, "r">> \in procs[p].held)}
Writers(i) == {p \in Pids : Running(p) /\ (procs[p].out = i \/ <<i, "w">> \in procs[p].held)}

\* A pid of the process table that is not in use.
NewPid == CHOOSE q \in Pids : /\ procs[q].state = "unused"
                              /\ \A r \in 1 .. (q - 1) : procs[r].state # "unused"

Unused ==
  [state |-> "unused", parent |-> NoPid, stack |-> <<>>, ret |-> 0,
   prog |-> NoProgram, items |-> 0, in |-> NoPipe, out |-> NoPipe, held |-> {},
   cwd |-> CHOOSE d \in Dirs : TRUE, env |-> 0, code |-> 0]

\* The end of process p: its descriptors are closed, its dead children are
\* forgotten, and so is p if its parent is.
Exit(p, code) ==
  procs' = [q \in Pids |->
    CASE q = p /\ (p = SHELL \/ procs[p].parent # NoPid) ->
           [Unused EXCEPT !.state = "zombie", !.parent = procs[p].parent,
                          !.code = code]
      [] q = p /\ p # SHELL /\ procs[p].parent = NoPid -> Unused
      [] q # p /\ procs[q].parent = p ->
           IF procs[q].state = "zombie" THEN Unused
           ELSE [procs[q] EXCEPT !.parent = NoPid]
      [] OTHER -> procs[q]]

\* fork in process p, which goes on with frame f; the child goes on with the
\* call g alone, and exits when that returns.
Fork(p, f, g) ==
  /\ \E q \in Pids : procs[q].state = "unused"
  /\ procs' = [procs EXCEPT ![p].stack = <<f>> \o Tail(@),
                            ![NewPid] = [procs[p] EXCEPT !.parent = p,
                                                          !.stack = <<g>>]]
  /\ UNCHANGED <<failures, failed>>

\* parse_command, or the function it called, returns.
Return(p, status) == [procs[p] EXCEPT !.ret = status, !.stack = Tail(@)]

ForkFails(p, status) ==
  /\ failures > 0
  /\ failures' = failures - 1
  /\ failed' = TRUE
  /\ procs' = [procs EXCEPT ![p] = Return(p, status)]

\* exit keeps 8 bits.
ExitCode(status) == status % 256

WIFEXITED(code) == code # Killed

\* waitpid for q, after which p is as given.
Wait(p, q, after) ==
  /\ procs[q].state = "zombie"
  /\ procs' = [procs EXCEPT ![p] = after, ![q] = Unused]

-----------------------------------------------------------------------------
Call(c, pc) ==
  [cmd |-> c, pc |-> pc, pid1 |-> NoPid, pid2 |-> NoPid, pipefd |-> NoPipe]

Top(p) == Head(procs[p].stack)
Node(p) == Command[Top(p).cmd]

At(p, pc) == Running(p) /\ procs[p].stack # <<>> /\ Top(p).pc = pc

\* The current call goes on at pc.
Goto(p, pc) == [procs[p] EXCEPT !.stack = <<[Top(p) EXCEPT !.pc = pc]>> \o Tail(@)]

\* The current call goes on at pc after a call of parse_command for c.
Push(p, pc, c) ==
  [procs[p] EXCEPT !.stack = <<Call(c, "start"), [Top(p) EXCEPT !.pc = pc]>> \o Tail(@)]

Init ==
  /\ script \in Scripts
  /\ procs = [p \in Pids |-> IF p = SHELL THEN [Unused EXCEPT !.state = "running"]
                             ELSE Unused]
  /\ start = [cwd |-> procs[SHELL].cwd, env |-> procs[SHELL].env]
  /\ pipes = <<>>
  /\ failures = MaxForkFailures
  /\ line = 0 /\ failed = FALSE

\* The test for SHELL_EXIT never ends the loop, because shell_exit does not
\* return.
MoreLines == script # <<>> /\ (line # 0 => procs[SHELL].ret # SHELL_EXIT)

\* start_shell: the next line, ...
ReadLine ==
  /\ Running(SHELL) /\ procs[SHELL].stack = <<>>
  /\ MoreLines
  /\ script' = Tail(script)
  /\ procs' = [procs EXCEPT ![SHELL].stack = <<Call(Head(script), "start")>>]
  /\ line' = Head(script)
  /\ start' = [cwd |-> procs[SHELL].cwd, env |-> procs[SHELL].env]
  /\ failed' = FALSE
  /\ UNCHANGED <<pipes, failures>>

\* ... or no more lines: main returns.
EndOfInput ==
  /\ Running(SHELL) /\ procs[SHELL].stack = <<>>
  /\ ~ MoreLines
  /\ Exit(SHELL, 0)
  /\ UNCHANGED <<script, pipes, failures, history>>

-----------------------------------------------------------------------------
(* parse_command, OP_NONE.                                                 *)

Simple(p, verb) == At(p, "start") /\ Node(p).op = "NONE" /\ Node(p).verb = verb

\* name=value.  setenv refuses a word without a name; one without a value ends
\* the process, because setenv reads the value through NULL.
Assign(p) ==
  /\ Simple(p, "=")
  /\ \/ /\ Node(p).arg \notin {NoName, NoValue}
        /\ procs' = [procs EXCEPT ![p] = [Return(p, 0) EXCEPT !.env = Node(p).arg]]
     \/ /\ Node(p).arg = NoName
        /\ procs' = [procs EXCEPT ![p] = Return(p, -1)]
     \/ /\ Node(p).arg = NoValue
        /\ Exit(p, Killed)
  /\ UNCHANGED <<script, pipes, failures, history>>

\* exit and quit
shell_exit(p) ==
  /\ Simple(p, "exit")
  /\ Exit(p, ExitCode(SHELL_EXIT))
  /\ UNCHANGED <<script, pipes, failures, history>>

\* cd: a child opens the redirections, changes its own directory and exits.
CdFork(p) ==
  /\ Simple(p, "cd")
  /\ \/ Fork(p, [Top(p) EXCEPT !.pc = "cd", !.pid1 = NewPid],
             Call(Top(p).cmd, "cd child"))
     \/ ForkFails(p, -1)
  /\ UNCHANGED <<script, pipes, line, start>>

CdChild(p) ==
  /\ At(p, "cd child")
  /\ Exit(p, 0)
  /\ UNCHANGED <<script, pipes, failures, history>>

\* The shell itself: the argument is the first parameter, the only one that
\* the code looks at, and not in Dirs if there is none.
shell_cd(p) ==
  /\ At(p, "cd")
  /\ Wait(p, Top(p).pid1,
          IF Node(p).arg \in Dirs
          THEN [Return(p, 0) EXCEPT !.cwd = Node(p).arg]
          ELSE Return(p, -1))
  /\ UNCHANGED <<script, pipes, failures, history>>

\* parse_simple: an external command.
parse_simple(p) ==
  /\ Simple(p, "run")
  /\ \/ Fork(p, [Top(p) EXCEPT !.pc = "wait", !.pid1 = NewPid],
             Call(Top(p).cmd, "exec"))
     \/ ForkFails(p, -1)
  /\ UNCHANGED <<script, pipes, line, start>>

\* The child: a redirection replaces standard input or output, unless the file
\* cannot be opened, and exec the program.
Redirected(fd, file) == IF file = "file" THEN NoPipe ELSE fd

Exec(p) ==
  /\ At(p, "exec")
  /\ procs' = [procs EXCEPT
       ![p] = [procs[p] EXCEPT !.stack = <<>>, !.prog = Top(p).cmd,
                               !.items = Node(p).writes,
                               !.in = Redirected(@, Node(p).in),
                               !.out = Redirected(@, Node(p).out)]]
  /\ UNCHANGED <<script, pipes, failures, history>>

WaitSimple(p) ==
  /\ At(p, "wait")
  /\ LET code == procs[Top(p).pid1].code
     IN  Wait(p, Top(p).pid1, Return(p, IF WIFEXITED(code) THEN code ELSE -1))
  /\ UNCHANGED <<script, pipes, failures, history>>

-----------------------------------------------------------------------------
(* parse_command, the operators.                                           *)

\* ";", "&&" and "||" begin with the first command ...
First(p) ==
  /\ At(p, "start")
  /\ Node(p).op \in {"SEQUENTIAL", "CONDITIONAL_ZERO", "CONDITIONAL_NZERO"}
  /\ procs' = [procs EXCEPT ![p] = Push(p, "second", Node(p).cmd1)]
  /\ UNCHANGED <<script, pipes, failures, history>>

\* Mutant: "||" goes on after a command that succeeded.
GoesOnAlways(op, status) == op # "CONDITIONAL_ZERO" \/ status = 0

GoesOn(op, status) ==
  CASE op = "SEQUENTIAL"        -> TRUE
    [] op = "CONDITIONAL_ZERO"  -> status = 0
    [] op = "CONDITIONAL_NZERO" -> status # 0

\* ... and go on with the second if the operator says so.
Second(p) ==
  /\ At(p, "second")
  /\ procs' = [procs EXCEPT
       ![p] = IF GoesOn(Node(p).op, procs[p].ret)
              THEN Push(p, "last", Node(p).cmd2) ELSE Return(p, @.ret)]
  /\ UNCHANGED <<script, pipes, failures, history>>

Last(p) ==
  /\ At(p, "last")
  /\ procs' = [procs EXCEPT ![p] = Return(p, @.ret)]
  /\ UNCHANGED <<script, pipes, failures, history>>

\* The ends of the pipe that the current call has made.
Ends(p) == {<<Top(p).pipefd, "r">>, <<Top(p).pipefd, "w">>}

\* run_on_pipe: pipe
Pipe(p) ==
  LET i == Len(pipes) + 1
  IN  /\ At(p, "start") /\ Node(p).op = "PIPE"
      /\ pipes' = Append(pipes, 0)
      /\ procs' = [procs EXCEPT
           ![p].stack = <<[Top(p) EXCEPT !.pc = "fork1", !.pipefd = i]>> \o Tail(@),
           ![p].held = @ \cup {<<i, "r">>, <<i, "w">>}]
      /\ UNCHANGED <<script, failures, history>>

\* run_on_pipe and run_in_parallel: the first child ...
Fork1(p) ==
  /\ \/ At(p, "fork1")
     \/ At(p, "start") /\ Node(p).op = "PARALLEL"
  /\ \/ Fork(p, [Top(p) EXCEPT !.pc = "fork2", !.pid1 = NewPid],
             [Call(Node(p).cmd1, IF Node(p).op = "PIPE" THEN "write end" ELSE "start")
                EXCEPT !.pipefd = Top(p).pipefd])
     \/ ForkFails(p, 0)
  /\ UNCHANGED <<script, pipes, line, start>>

\* ... and the second.  If this fork fails nobody waits for the first child,
\* and the ends of the pipe stay open.
Fork2(p) ==
  /\ At(p, "fork2")
  /\ \/ Fork(p, [Top(p) EXCEPT !.pc = IF Node(p).op = "PIPE" THEN "close" ELSE "wait1",
                               !.pid2 = NewPid],
             [Call(Node(p).cmd2, IF Node(p).op = "PIPE" THEN "read end" ELSE "start")
                EXCEPT !.pipefd = Top(p).pipefd])
     \/ ForkFails(p, 0)
  /\ UNCHANGED <<script, pipes, line, start>>

\* The children put their end of the pipe in place and close the others.
Connect(p) ==
  /\ \/ /\ At(p, "write end")
        /\ procs' = [procs EXCEPT ![p] = [Goto(p, "start") EXCEPT
                       !.held = @ \ Ends(p), !.out = Top(p).pipefd]]
     \/ /\ At(p, "read end")
        /\ procs' = [procs EXCEPT ![p] = [Goto(p, "start") EXCEPT
                       !.held = @ \ Ends(p), !.in = Top(p).pipefd]]
  /\ UNCHANGED <<script, pipes, failures, history>>

\* Mutant: the parent keeps the end for writing.
CloseRead(p) ==
  /\ At(p, "close")
  /\ procs' = [procs EXCEPT ![p] = [Goto(p, "wait1") EXCEPT
                 !.held = @ \ {<<Top(p).pipefd, "r">>}]]
  /\ UNCHANGED <<script, pipes, failures, history>>

ClosePipe(p) ==
  /\ At(p, "close")
  /\ procs' = [procs EXCEPT ![p] = [Goto(p, "wait1") EXCEPT !.held = @ \ Ends(p)]]
  /\ UNCHANGED <<script, pipes, failures, history>>

\* Mutant: the parent does not wait for the first child.
WaitNot(p) ==
  /\ At(p, "wait1")
  /\ procs' = [procs EXCEPT ![p] = Goto(p, "wait2")]
  /\ UNCHANGED <<script, pipes, failures, history>>

Wait1(p) ==
  /\ At(p, "wait1")
  /\ Wait(p, Top(p).pid1, Goto(p, "wait2"))
  /\ UNCHANGED <<script, pipes, failures, history>>

Wait2(p) ==
  /\ At(p, "wait2")
  /\ LET code == procs[Top(p).pid2].code
     IN  Wait(p, Top(p).pid2, Return(p, IF WIFEXITED(code) THEN code ELSE 0))
  /\ UNCHANGED <<script, pipes, failures, history>>

\* exit(parse_command(...)) in a child
ExitChild(p) ==
  /\ p # SHELL /\ Running(p) /\ procs[p].stack = <<>> /\ procs[p].prog = NoProgram
  /\ Exit(p, ExitCode(procs[p].ret))
  /\ UNCHANGED <<script, pipes, failures, history>>

-----------------------------------------------------------------------------
(* Programs (external).  A program writes some items, reads its input to   *)
(* the end if it is one that reads, writes again what it reads if it is a  *)
(* filter, and exits.                                                      *)

Executing(p) == Running(p) /\ procs[p].prog # NoProgram

Program(p) == Command[procs[p].prog]

Write(p) ==
  /\ Executing(p) /\ procs[p].items > 0
  /\ LET i == procs[p].out
     IN  \/ /\ i = NoPipe
            /\ procs' = [procs EXCEPT ![p].items = @ - 1]
            /\ UNCHANGED pipes
         \/ /\ i # NoPipe /\ Readers(i) # {} /\ pipes[i] < PipeCapacity
            /\ pipes' = [pipes EXCEPT ![i] = @ + 1]
            /\ procs' = [procs EXCEPT ![p].items = @ - 1]
         \/ /\ i # NoPipe /\ Readers(i) = {}      \* SIGPIPE
            /\ Exit(p, Killed)
            /\ UNCHANGED pipes
  /\ UNCHANGED <<script, failures, history>>

Read(p) ==
  /\ Executing(p) /\ procs[p].items = 0 /\ Program(p).reads # "nothing"
  /\ LET i == procs[p].in
     IN  /\ i # NoPipe /\ pipes[i] > 0
         /\ pipes' = [pipes EXCEPT ![i] = @ - 1]
         /\ procs' = [procs EXCEPT ![p].items = IF Program(p).reads = "filter" THEN 1 ELSE 0]
  /\ UNCHANGED <<script, failures, history>>

Finish(p) ==
  /\ Executing(p) /\ procs[p].items = 0
  /\ LET i == procs[p].in
     IN  Program(p).reads # "nothing" /\ i # NoPipe => pipes[i] = 0 /\ Writers(i) = {}
  /\ Exit(p, Program(p).arg)
  /\ UNCHANGED <<script, pipes, failures, history>>

-----------------------------------------------------------------------------
parse_command(p) ==
  \/ Assign(p) \/ shell_exit(p) \/ CdFork(p) \/ CdChild(p) \/ shell_cd(p)
  \/ parse_simple(p) \/ Exec(p) \/ WaitSimple(p)
  \/ First(p) \/ Second(p) \/ Last(p)
  \/ Pipe(p) \/ Fork1(p) \/ Fork2(p) \/ Connect(p) \/ ClosePipe(p)
  \/ Wait1(p) \/ Wait2(p) \/ ExitChild(p)

Step(p) == parse_command(p) \/ Write(p) \/ Read(p) \/ Finish(p)

Next == ReadLine \/ EndOfInput \/ \E p \in Pids : Step(p)

Spec == Init /\ [][Next]_vars

\* The kernel runs every process that can run.
FairSpec == Spec /\ \A p \in Pids : WF_vars(Step(p))

-----------------------------------------------------------------------------
(* Correctness.                                                            *)

\* What a command amounts to, if the process that executes it does not return:
Exits == 1000    \* it exits, or
Dies  == 1001    \* a signal ends it.
Final == {Exits, Dies}

\* How a process ends whose command has this outcome.
StatusOf(outcome) ==
  CASE outcome = Exits -> ExitCode(SHELL_EXIT)
    [] outcome = Dies  -> Killed
    [] OTHER           -> ExitCode(outcome)

\* The status of a command by the meaning of the operators.
Outcome ==
  LET o[c \in Commands] ==
        LET n == Command[c] IN
        CASE n.op = "NONE" /\ n.verb = "="    -> CASE n.arg = NoName  -> -1
                                                   [] n.arg = NoValue -> Dies
                                                   [] OTHER           -> 0
          [] n.op = "NONE" /\ n.verb = "cd"   -> IF n.arg \in Dirs THEN 0 ELSE -1
          [] n.op = "NONE" /\ n.verb = "exit" -> Exits
          [] n.op = "NONE" /\ n.verb = "run"  -> n.arg
          [] n.op = "SEQUENTIAL" ->
               IF o[n.cmd1] \in Final THEN o[n.cmd1] ELSE o[n.cmd2]
          [] n.op = "CONDITIONAL_ZERO" ->
               IF o[n.cmd1] = 0 THEN o[n.cmd2] ELSE o[n.cmd1]
          [] n.op = "CONDITIONAL_NZERO" ->
               IF o[n.cmd1] \in {0} \cup Final THEN o[n.cmd1] ELSE o[n.cmd2]
          [] OTHER ->    \* in a process of its own
               IF WIFEXITED(StatusOf(o[n.cmd2])) THEN StatusOf(o[n.cmd2]) ELSE 0
  IN  o

\* The simple commands that the shell itself executes, in order.
Executed ==
  LET x[c \in Commands] ==
        LET n == Command[c] IN
        CASE n.op = "NONE" -> <<c>>
          [] n.op \in {"PIPE", "PARALLEL"} -> <<>>
          [] OTHER -> IF Outcome[n.cmd1] \notin Final /\
                         (n.op = "SEQUENTIAL" \/
                          (n.op = "CONDITIONAL_ZERO") = (Outcome[n.cmd1] = 0))
                      THEN x[n.cmd1] \o x[n.cmd2] ELSE x[n.cmd1]
  IN  x

\* The argument of the last command in s that is one of C, or else d.
LastOf(s, C, d) ==
  LET I == {i \in DOMAIN s : s[i] \in C}
  IN  IF I = {} THEN d ELSE Command[s[CHOOSE i \in I : \A j \in I : j <= i]].arg

Changes(verb) == {c \in Commands : /\ Command[c].op = "NONE" /\ Command[c].verb = verb
                                   /\ Outcome[c] = 0}

AtPrompt == Running(SHELL) /\ procs[SHELL].stack = <<>> /\ line # 0

\* However the processes of a line are scheduled, the line has the status that
\* the operators give it, and exactly the changes of directory and variable
\* that it makes outside of pipes and parallel commands; the shell ends only with
\* the input, or in a line that exits or that a signal ends.
ResultRight ==
  /\ AtPrompt /\ ~ failed =>
       /\ procs[SHELL].ret = Outcome[line]
       /\ procs[SHELL].cwd = LastOf(Executed[line], Changes("cd"), start.cwd)
       /\ procs[SHELL].env = LastOf(Executed[line], Changes("="), start.env)
  /\ ~ Running(SHELL) /\ ~ failed =>
       procs[SHELL].code = IF line # 0 /\ Outcome[line] \in Final
                           THEN StatusOf(Outcome[line]) ELSE 0

\* Unless a fork failed, every process that a line started has ended and been
\* waited for when the prompt is back, and the shell holds no pipe.
AllReaped ==
  AtPrompt /\ failures = MaxForkFailures =>
    /\ \A p \in Pids \ {SHELL} : procs[p].state = "unused"
    /\ procs[SHELL].held = {}

\* Every line comes to an end, also if a fork fails: the parent closes its ends
\* of a pipe, so a reader sees the end of its input and a writer is killed when
\* nobody reads, and no two processes wait for each other.
PromptReturns == (procs[SHELL].stack # <<>>) ~> (procs[SHELL].stack = <<>>)
=============================================================================
