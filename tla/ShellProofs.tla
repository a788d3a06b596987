---------------------------- MODULE ShellProofs ----------------------------
(***************************************************************************)
(* The mini-shell, for all parse trees and scripts, however the kernel     *)
(* schedules the processes: when no fork fails every process of a line has *)
(* been waited for and every pipe closed when the prompt is back, and a    *)
(* line has the status and the effects that its operators give it.         *)
(***************************************************************************)
EXTENDS Shell, TLAPS, NaturalsInduction, WellFoundedInduction

-----------------------------------------------------------------------------
(* Types.                                                                  *)

\* Where only a child can be, where a call below the innermost one is, and
\* all the places in the code.
ChildPC == {"cd child", "exec", "write end", "read end"}
BelowPC == {"second", "last"}
PC == {"start", "cd", "wait", "fork1", "fork2", "close", "wait1", "wait2"}
        \cup ChildPC \cup BelowPC

MaybePid == Pids \cup {NoPid}

Frame == [cmd : Commands, pc : PC, pid1 : MaybePid, pid2 : MaybePid, pipefd : Nat]

Env == {0} \cup {Command[c].arg : c \in {d \in Commands : Command[d].op = "NONE"
                                                         /\ Command[d].verb = "="}}

End == Nat \X {"r", "w"}

State  == {"unused", "running", "zombie"}
Stack  == Seq(Frame)
Status == (-1) .. 255
Held   == SUBSET End
Code   == 0 .. Killed
MaybeProgram == Commands \cup {NoProgram}

Proc == [state : State, parent : MaybePid, stack : Stack, ret : Status,
         prog : MaybeProgram, items : Nat, in : Nat, out : Nat, held : Held,
         cwd : Dirs, env : Env, code : Code]

-----------------------------------------------------------------------------
(* The stacks.  Only the innermost call can be in the middle of starting   *)
(* and awaiting processes; the calls below it are in parse_command for     *)
(* ";", "&&" or "||".                                                      *)

\* What the place of a call says about its command.
FrameOK(f) ==
  LET n == Command[f.cmd] IN
  /\ f.pc \in {"cd", "cd child"} => n.op = "NONE" /\ n.verb = "cd"
  /\ f.pc \in {"exec", "wait"} => n.op = "NONE" /\ n.verb = "run"
  /\ f.pc \in BelowPC => n.op \in {"SEQUENTIAL", "CONDITIONAL_ZERO", "CONDITIONAL_NZERO"}
  /\ f.pc \in {"fork1", "close"} => n.op = "PIPE"
  /\ f.pc \in {"fork2", "wait1", "wait2"} => n.op \in {"PIPE", "PARALLEL"}
  /\ f.pc \in {"close", "wait1"} => f.pid1 # f.pid2

StackOK(s) ==
  /\ s \in Seq(Frame)
  /\ \A i \in 1 .. Len(s) : FrameOK(s[i]) /\ (i > 1 => s[i].pc \in BelowPC)
  /\ s # <<>> /\ s[1].pc = "exec" => Len(s) = 1

ProcOK(x) ==
  /\ x \in Proc
  /\ StackOK(x.stack)
  /\ x.state # "running" => x.stack = <<>>
  /\ x.prog # NoProgram =>
       /\ x.stack = <<>>
       /\ Command[x.prog].op = "NONE" /\ Command[x.prog].verb = "run"

\* The children that a process will wait for.
Reg(x) ==
  IF x.state # "running" \/ x.stack = <<>> THEN {}
  ELSE LET f == x.stack[1] IN
       CASE f.pc \in {"cd", "wait", "fork2"} -> {f.pid1}
         [] f.pc \in {"close", "wait1"}      -> {f.pid1, f.pid2}
         [] f.pc = "wait2"                   -> {f.pid2}
         [] OTHER                            -> {}

\* Nobody else has them as children, and they are there until they are waited for.
Tree(t) ==
  \A p \in Pids : \A q \in Reg(t[p]) :
    q \in Pids \ {SHELL} /\ t[q].state # "unused" /\ t[q].parent = p

\* The shell itself does none of a child's work.
ShellOK(x) ==
  /\ x.state # "unused" /\ x.parent = NoPid /\ x.prog = NoProgram
  /\ x.state = "running" => x.out = NoPipe
  /\ \A i \in 1 .. Len(x.stack) : x.stack[i].pc \notin ChildPC

Table == [Pids -> Proc]

Struct(t) ==
  /\ t \in Table
  /\ \A p \in Pids : ProcOK(t[p])
  /\ Tree(t)
  /\ ShellOK(t[SHELL])

\* The stack with another innermost call, with one more call, and with one less.
LEMMA StackNext ==
  ASSUME NEW s, StackOK(s), s # <<>>, NEW f \in Frame, FrameOK(f), f.pc # "exec"
  PROVE  LET u == <<f>> \o Tail(s) IN
         /\ StackOK(u) /\ u # <<>> /\ Len(u) = Len(s) /\ u[1] = f
         /\ \A i \in 2 .. Len(s) : u[i] = s[i]
<1> DEFINE u == <<f>> \o Tail(s)
<1>1. s \in Seq(Frame) /\ Len(s) \in Nat \ {0}
  BY DEF StackOK
<1>2. Tail(s) \in Seq(Frame) /\ Len(Tail(s)) = Len(s) - 1
      /\ \A i \in 1 .. (Len(s) - 1) : Tail(s)[i] = s[i + 1]
  BY <1>1
<1>3. <<f>> \in Seq(Frame) /\ Len(<<f>>) = 1 /\ <<f>>[1] = f
  OBVIOUS
<1>4. u \in Seq(Frame) /\ Len(u) = Len(s) /\ u[1] = f
  BY <1>1, <1>2, <1>3
<1>5. \A i \in 2 .. Len(s) : u[i] = s[i]
  <2> TAKE i \in 2 .. Len(s)
  <2>1. u[i] = Tail(s)[i - 1]
    BY <1>1, <1>2, <1>3
  <2> QED BY <1>1, <1>2, <2>1
<1>6. StackOK(u)
  <2>1. \A i \in 1 .. Len(u) : i = 1 \/ i \in 2 .. Len(s)
    BY <1>1, <1>4
  <2> HIDE DEF u
  <2> QED BY <1>1, <1>4, <1>5, <2>1 DEF StackOK
<1> QED BY <1>1, <1>4, <1>5, <1>6

LEMMA StackPush ==
  ASSUME NEW s, StackOK(s), s # <<>>, NEW f \in Frame, FrameOK(f), f.pc # "exec",
         NEW g \in Frame, FrameOK(g), g.pc \in BelowPC
  PROVE  LET u == <<f, g>> \o Tail(s) IN
         /\ StackOK(u) /\ u # <<>> /\ Len(u) = Len(s) + 1 /\ u[1] = f /\ u[2] = g
         /\ \A i \in 2 .. Len(s) : u[i + 1] = s[i]
<1> DEFINE u == <<f, g>> \o Tail(s)
<1>1. s \in Seq(Frame) /\ Len(s) \in Nat \ {0}
  BY DEF StackOK
<1>2. Tail(s) \in Seq(Frame) /\ Len(Tail(s)) = Len(s) - 1
      /\ \A i \in 1 .. (Len(s) - 1) : Tail(s)[i] = s[i + 1]
  BY <1>1
<1>3. <<f, g>> \in Seq(Frame) /\ Len(<<f, g>>) = 2 /\ <<f, g>>[1] = f /\ <<f, g>>[2] = g
  OBVIOUS
<1>4. u \in Seq(Frame) /\ Len(u) = Len(s) + 1 /\ u[1] = f /\ u[2] = g
  BY <1>1, <1>2, <1>3
<1>5. \A i \in 2 .. Len(s) : u[i + 1] = s[i]
  <2> TAKE i \in 2 .. Len(s)
  <2>1. u[i + 1] = Tail(s)[i - 1]
    BY <1>1, <1>2, <1>3
  <2> QED BY <1>1, <1>2, <2>1
<1>6. StackOK(u)
  <2>1. \A i \in 1 .. Len(u) : i = 1 \/ i = 2 \/ i - 1 \in 2 .. Len(s)
    BY <1>1, <1>4
  <2>2. \A i \in 1 .. Len(u) : i - 1 \in 2 .. Len(s) => u[i] = s[i - 1]
    BY <1>1, <1>4, <1>5
  <2> HIDE DEF u
  <2>3. \A i \in 1 .. Len(u) : i - 1 \in 2 .. Len(s) => i - 1 \in 1 .. Len(s) /\ i - 1 > 1
    BY <1>1, <1>4
  <2> QED BY <1>1, <1>4, <2>1, <2>2, <2>3 DEF StackOK
<1> QED BY <1>1, <1>4, <1>5, <1>6

LEMMA StackPop ==
  ASSUME NEW s, StackOK(s), s # <<>>
  PROVE  /\ StackOK(Tail(s)) /\ Len(Tail(s)) = Len(s) - 1
         /\ \A i \in 1 .. (Len(s) - 1) : Tail(s)[i] = s[i + 1]
         /\ Tail(s) # <<>> => Len(s) > 1 /\ Tail(s)[1] = s[2] /\ s[2].pc \in BelowPC
         /\ Tail(s) = <<>> => Len(s) = 1
<1>1. s \in Seq(Frame) /\ Len(s) \in Nat \ {0}
  BY DEF StackOK
<1>2. Tail(s) \in Seq(Frame) /\ Len(Tail(s)) = Len(s) - 1
      /\ \A i \in 1 .. (Len(s) - 1) : Tail(s)[i] = s[i + 1]
  BY <1>1
<1>3. \A i \in 1 .. (Len(s) - 1) : i + 1 \in 1 .. Len(s) /\ i + 1 > 1
  BY <1>1
<1>5. ASSUME Tail(s) # <<>> PROVE Len(s) > 1 /\ Tail(s)[1] = s[2] /\ s[2].pc \in BelowPC
  <2>1. Len(s) > 1
    BY <1>1, <1>2, <1>5
  <2>2. 2 \in 1 .. Len(s) /\ 1 \in 1 .. (Len(s) - 1)
    BY <1>1, <2>1
  <2> QED BY <1>2, <2>1, <2>2 DEF StackOK
<1>4. StackOK(Tail(s))
  <2>1. \A i \in 1 .. (Len(s) - 1) : FrameOK(Tail(s)[i]) /\ Tail(s)[i].pc \in BelowPC
    BY <1>2, <1>3 DEF StackOK
  <2>2. "exec" \notin BelowPC
    BY DEF BelowPC
  <2>3. Tail(s) # <<>> => 1 \in 1 .. (Len(s) - 1)
    BY <1>1, <1>5
  <2> QED BY <1>2, <2>1, <2>2, <2>3 DEF StackOK
<1>6. Tail(s) = <<>> => Len(s) = 1
  <2>1. Len(<<>>) = 0
    OBVIOUS
  <2> QED BY <1>1, <1>2, <2>1
<1> QED BY <1>2, <1>4, <1>5, <1>6

\* A new process has one call.
LEMMA StackOne ==
  ASSUME NEW g \in Frame, FrameOK(g)
  PROVE  StackOK(<<g>>) /\ <<g>> # <<>> /\ <<g>>[1] = g /\ Len(<<g>>) = 1
BY DEF StackOK

-----------------------------------------------------------------------------
(* The four ways in which a step changes the table of processes.           *)

\* A process whose innermost call goes on as f, and a child that begins with g.
Going(x, f) == [x EXCEPT !.stack = <<f>> \o Tail(@)]
Child(x, p, g) == [x EXCEPT !.parent = p, !.stack = <<g>>]

ForkTable(t, p, n, f, g) ==
  [t EXCEPT ![p].stack = <<f>> \o Tail(@),
            ![n] = [t[p] EXCEPT !.parent = p, !.stack = <<g>>]]

WaitTable(t, p, q, x) == [t EXCEPT ![p] = x, ![q] = Unused]

ExitTable(t, p, code) ==
  [q \in Pids |->
    CASE q = p /\ (p = SHELL \/ t[p].parent # NoPid) ->
           [Unused EXCEPT !.state = "zombie", !.parent = t[p].parent,
                          !.code = code]
      [] q = p /\ p # SHELL /\ t[p].parent = NoPid -> Unused
      [] q # p /\ t[q].parent = p ->
           IF t[q].state = "zombie" THEN Unused
           ELSE [t[q] EXCEPT !.parent = NoPid]
      [] OTHER -> t[q]]

LEMMA PidFacts ==
  /\ SHELL \in Pids /\ NoPid \notin Pids /\ NoProgram \notin Commands
  /\ Pids \subseteq Nat /\ Commands \subseteq Nat
BY ShellAssumption DEF Pids, SHELL, NoPid, NoProgram, Commands

LEMMA UnusedOK ==
  /\ Unused \in Proc /\ ProcOK(Unused) /\ Reg(Unused) = {}
  /\ Unused.state = "unused" /\ Unused.held = {}
<1>1. (CHOOSE d \in Dirs : TRUE) \in Dirs
  BY ShellAssumption
<1>2. <<>> \in Seq(Frame) /\ Len(<<>>) = 0
  OBVIOUS
<1>3. Unused \in Proc
  BY <1>1, <1>2 DEF Unused, Proc, Env, NoPipe, Killed, State, Stack, Status, Held, Code,
                       MaybeProgram, MaybePid
<1>4. Unused.stack = <<>> /\ Unused.prog = NoProgram /\ Unused.state = "unused"
      /\ Unused.held = {}
  BY DEF Unused
<1>5. StackOK(<<>>)
  BY <1>2 DEF StackOK
<1> QED BY <1>3, <1>4, <1>5 DEF ProcOK, Reg

\* The process x with one field changed.
LEMMA SetParent ==
  ASSUME NEW x \in Proc, NEW v \in MaybePid
  PROVE  LET y == [x EXCEPT !.parent = v] IN
         /\ y \in Proc /\ y.parent = v
         /\ y.state = x.state /\ y.stack = x.stack /\ y.ret = x.ret
         /\ y.prog = x.prog /\ y.items = x.items /\ y.in = x.in
         /\ y.out = x.out /\ y.held = x.held /\ y.cwd = x.cwd /\ y.env = x.env
         /\ y.code = x.code
BY DEF Proc

LEMMA SetStack ==
  ASSUME NEW x \in Proc, NEW v \in Stack
  PROVE  LET y == [x EXCEPT !.stack = v] IN
         /\ y \in Proc /\ y.stack = v
         /\ y.state = x.state /\ y.parent = x.parent /\ y.ret = x.ret
         /\ y.prog = x.prog /\ y.items = x.items /\ y.in = x.in
         /\ y.out = x.out /\ y.held = x.held /\ y.cwd = x.cwd /\ y.env = x.env
         /\ y.code = x.code
BY DEF Proc

LEMMA SetRet ==
  ASSUME NEW x \in Proc, NEW v \in Status
  PROVE  LET y == [x EXCEPT !.ret = v] IN
         /\ y \in Proc /\ y.ret = v
         /\ y.state = x.state /\ y.parent = x.parent /\ y.stack = x.stack
         /\ y.prog = x.prog /\ y.items = x.items /\ y.in = x.in
         /\ y.out = x.out /\ y.held = x.held /\ y.cwd = x.cwd /\ y.env = x.env
         /\ y.code = x.code
BY DEF Proc

LEMMA SetProg ==
  ASSUME NEW x \in Proc, NEW v \in MaybeProgram
  PROVE  LET y == [x EXCEPT !.prog = v] IN
         /\ y \in Proc /\ y.prog = v
         /\ y.state = x.state /\ y.parent = x.parent /\ y.stack = x.stack
         /\ y.ret = x.ret /\ y.items = x.items /\ y.in = x.in /\ y.out = x.out
         /\ y.held = x.held /\ y.cwd = x.cwd /\ y.env = x.env
         /\ y.code = x.code
BY DEF Proc

LEMMA SetItems ==
  ASSUME NEW x \in Proc, NEW v \in Nat
  PROVE  LET y == [x EXCEPT !.items = v] IN
         /\ y \in Proc /\ y.items = v
         /\ y.state = x.state /\ y.parent = x.parent /\ y.stack = x.stack
         /\ y.ret = x.ret /\ y.prog = x.prog /\ y.in = x.in /\ y.out = x.out
         /\ y.held = x.held /\ y.cwd = x.cwd /\ y.env = x.env
         /\ y.code = x.code
BY DEF Proc

LEMMA SetIn ==
  ASSUME NEW x \in Proc, NEW v \in Nat
  PROVE  LET y == [x EXCEPT !.in = v] IN
         /\ y \in Proc /\ y.in = v
         /\ y.state = x.state /\ y.parent = x.parent /\ y.stack = x.stack
         /\ y.ret = x.ret /\ y.prog = x.prog /\ y.items = x.items
         /\ y.out = x.out /\ y.held = x.held /\ y.cwd = x.cwd /\ y.env = x.env
         /\ y.code = x.code
BY DEF Proc

LEMMA SetOut ==
  ASSUME NEW x \in Proc, NEW v \in Nat
  PROVE  LET y == [x EXCEPT !.out = v] IN
         /\ y \in Proc /\ y.out = v
         /\ y.state = x.state /\ y.parent = x.parent /\ y.stack = x.stack
         /\ y.ret = x.ret /\ y.prog = x.prog /\ y.items = x.items
         /\ y.in = x.in /\ y.held = x.held /\ y.cwd = x.cwd /\ y.env = x.env
         /\ y.code = x.code
BY DEF Proc

LEMMA SetHeld ==
  ASSUME NEW x \in Proc, NEW v \in Held
  PROVE  LET y == [x EXCEPT !.held = v] IN
         /\ y \in Proc /\ y.held = v
         /\ y.state = x.state /\ y.parent = x.parent /\ y.stack = x.stack
         /\ y.ret = x.ret /\ y.prog = x.prog /\ y.items = x.items
         /\ y.in = x.in /\ y.out = x.out /\ y.cwd = x.cwd /\ y.env = x.env
         /\ y.code = x.code
BY DEF Proc

LEMMA SetCwd ==
  ASSUME NEW x \in Proc, NEW v \in Dirs
  PROVE  LET y == [x EXCEPT !.cwd = v] IN
         /\ y \in Proc /\ y.cwd = v
         /\ y.state = x.state /\ y.parent = x.parent /\ y.stack = x.stack
         /\ y.ret = x.ret /\ y.prog = x.prog /\ y.items = x.items
         /\ y.in = x.in /\ y.out = x.out /\ y.held = x.held /\ y.env = x.env
         /\ y.code = x.code
BY DEF Proc

LEMMA SetEnv ==
  ASSUME NEW x \in Proc, NEW v \in Env
  PROVE  LET y == [x EXCEPT !.env = v] IN
         /\ y \in Proc /\ y.env = v
         /\ y.state = x.state /\ y.parent = x.parent /\ y.stack = x.stack
         /\ y.ret = x.ret /\ y.prog = x.prog /\ y.items = x.items
         /\ y.in = x.in /\ y.out = x.out /\ y.held = x.held /\ y.cwd = x.cwd
         /\ y.code = x.code
BY DEF Proc

\* One process goes on.
LEMMA LocalStep ==
  ASSUME NEW t, Struct(t), NEW p \in Pids, NEW x, ProcOK(x),
         t[p].state = "running", x.state = "running", x.parent = t[p].parent,
         Reg(x) \subseteq Reg(t[p]), p = SHELL => ShellOK(x)
  PROVE  Struct([t EXCEPT ![p] = x])
<1> DEFINE u == [t EXCEPT ![p] = x]
<1>1. t \in Table /\ x \in Proc
  BY DEF Struct, ProcOK
<1>2. u \in Table
  BY <1>1 DEF Table
<1>3. u[p] = x /\ \A q \in Pids \ {p} : u[q] = t[q]
  BY <1>1 DEF Table
<1>4. \A q \in Pids : ProcOK(u[q])
  BY <1>3 DEF Struct
<1>5. \A q \in Pids : u[q].state = t[q].state /\ u[q].parent = t[q].parent
                      /\ Reg(u[q]) \subseteq Reg(t[q])
  BY <1>3
<1>6. Tree(u)
  <2> HIDE DEF u
  <2> QED BY <1>5 DEF Tree, Struct
<1>7. ShellOK(u[SHELL])
  BY <1>3, PidFacts DEF Struct
<1> QED BY <1>2, <1>4, <1>6, <1>7 DEF Struct

\* What the table of a fork is.
LEMMA ForkRows ==
  ASSUME NEW t \in Table, NEW p \in Pids, NEW n \in Pids, n # p, NEW f, NEW g
  PROVE  LET u == ForkTable(t, p, n, f, g) IN
         /\ u[p] = Going(t[p], f)
         /\ u[n] = Child(t[p], p, g)
         /\ \A q \in Pids \ {p, n} : u[q] = t[q]
         /\ DOMAIN u = Pids
BY DEF Table, ForkTable, Going, Child

LEMMA GoingIs ==
  ASSUME NEW x, ProcOK(x), x.state = "running", x.stack # <<>>,
         NEW f \in Frame, FrameOK(f), f.pc # "exec"
  PROVE  LET y == Going(x, f)
         IN  /\ ProcOK(y) /\ y.state = "running" /\ y.parent = x.parent
             /\ y.stack = <<f>> \o Tail(x.stack) /\ y.stack # <<>> /\ y.stack[1] = f
             /\ y.prog = NoProgram /\ y.ret = x.ret /\ y.out = x.out /\ y.held = x.held
             /\ y.cwd = x.cwd /\ y.env = x.env
<1>1. PICK s : s = <<f>> \o Tail(x.stack)
  OBVIOUS
<1>2. StackOK(s) /\ s # <<>> /\ s[1] = f /\ s \in Stack
  BY <1>1, StackNext DEF ProcOK, StackOK, Stack
<1>3. x.prog = NoProgram /\ x \in Proc
  BY DEF ProcOK
<1>4. PICK y : y = [x EXCEPT !.stack = s]
  OBVIOUS
<1>5. /\ y \in Proc /\ y.stack = s /\ y.state = "running" /\ y.prog = NoProgram
      /\ y.parent = x.parent /\ y.ret = x.ret /\ y.out = x.out /\ y.held = x.held
      /\ y.cwd = x.cwd /\ y.env = x.env
  BY <1>2, <1>3, <1>4, SetStack
<1>6. y = Going(x, f)
  BY <1>1, <1>4 DEF Going
<1> QED BY <1>1, <1>2, <1>5, <1>6 DEF ProcOK

LEMMA ChildIs ==
  ASSUME NEW x, ProcOK(x), x.state = "running", x.stack # <<>>, NEW p \in Pids,
         NEW g \in Frame, FrameOK(g)
  PROVE  LET z == Child(x, p, g)
         IN  /\ ProcOK(z) /\ z.state = "running" /\ z.parent = p
             /\ z.stack = <<g>> /\ z.stack # <<>> /\ z.stack[1] = g /\ Len(z.stack) = 1
             /\ z.prog = NoProgram /\ z.ret = x.ret /\ z.out = x.out /\ z.held = x.held
             /\ z.cwd = x.cwd /\ z.env = x.env
<1>1. PICK s : s = <<g>>
  OBVIOUS
<1>2. StackOK(s) /\ s # <<>> /\ s[1] = g /\ s \in Stack /\ Len(s) = 1
  BY <1>1, StackOne DEF StackOK, Stack
<1>3. x.prog = NoProgram /\ x \in Proc /\ p \in MaybePid
  BY DEF ProcOK, MaybePid
<1>4. PICK w : w = [x EXCEPT !.parent = p]
  OBVIOUS
<1>5. /\ w \in Proc /\ w.state = "running" /\ w.prog = NoProgram
      /\ w.parent = p /\ w.ret = x.ret /\ w.out = x.out /\ w.held = x.held
      /\ w.cwd = x.cwd /\ w.env = x.env
  BY <1>3, <1>4, SetParent
<1>6. PICK z : z = [w EXCEPT !.stack = s]
  OBVIOUS
<1>7. /\ z \in Proc /\ z.stack = s /\ z.state = "running" /\ z.prog = NoProgram
      /\ z.parent = p /\ z.ret = x.ret /\ z.out = x.out /\ z.held = x.held
      /\ z.cwd = x.cwd /\ z.env = x.env
  BY <1>2, <1>5, <1>6, SetStack
<1>8. z = Child(x, p, g)
  BY <1>1, <1>4, <1>6 DEF Child
<1> QED BY <1>1, <1>2, <1>7, <1>8 DEF ProcOK

\* A process forks, and enters the child as one that it will wait for.
LEMMA ForkStep ==
  ASSUME NEW t, Struct(t), NEW p \in Pids, NEW n \in Pids,
         t[p].state = "running", t[p].stack # <<>>, t[n].state = "unused",
         NEW f \in Frame, FrameOK(f), NEW g \in Frame, FrameOK(g),
         \A y : y.state = "running" /\ y.stack # <<>> /\ y.stack[1] = f
                  => Reg(y) \subseteq Reg(t[p]) \cup {n},
         f.pc \notin ChildPC,
         g.pc \in ChildPC \cup {"start"}
  PROVE  Struct(ForkTable(t, p, n, f, g))
<1> DEFINE u == ForkTable(t, p, n, f, g)
<1>1. t \in Table /\ n # p /\ n # SHELL
  BY DEF Struct, ShellOK
<1>2. /\ u[p] = Going(t[p], f)
      /\ u[n] = Child(t[p], p, g)
      /\ \A q \in Pids \ {p, n} : u[q] = t[q]
      /\ DOMAIN u = Pids
  BY <1>1, ForkRows
<1> HIDE DEF u
<1>3. ProcOK(t[p])
  BY DEF Struct
<1>4. /\ ProcOK(u[p]) /\ u[p].state = "running" /\ u[p].parent = t[p].parent
      /\ u[p].stack = <<f>> \o Tail(t[p].stack) /\ u[p].stack # <<>> /\ u[p].stack[1] = f
      /\ u[p].prog = NoProgram /\ u[p].out = t[p].out
      /\ ProcOK(u[n]) /\ u[n].state = "running" /\ u[n].parent = p
      /\ u[n].stack = <<g>> /\ u[n].stack # <<>> /\ u[n].stack[1] = g
  <2>1. f.pc # "exec"
    BY DEF ChildPC
  <2>2. PICK x : x = t[p]
    OBVIOUS
  <2>3. ProcOK(x) /\ x.state = "running" /\ x.stack # <<>>
    BY <1>3, <2>2
  <2>4. PICK y : y = Going(x, f)
    OBVIOUS
  <2>5. /\ ProcOK(y) /\ y.state = "running" /\ y.parent = x.parent
        /\ y.stack = <<f>> \o Tail(x.stack) /\ y.stack # <<>> /\ y.stack[1] = f
        /\ y.prog = NoProgram /\ y.out = x.out
    BY <2>1, <2>3, <2>4, GoingIs
  <2>6. PICK z : z = Child(x, p, g)
    OBVIOUS
  <2>7. /\ ProcOK(z) /\ z.state = "running" /\ z.parent = p
        /\ z.stack = <<g>> /\ z.stack # <<>> /\ z.stack[1] = g
    BY <2>3, <2>6, ChildIs
  <2>8. u[p] = y /\ u[n] = z
    BY <1>2, <2>2, <2>4, <2>6
  <2> QED BY <2>2, <2>5, <2>7, <2>8
<1>5. \A q \in Pids : ProcOK(u[q])
  BY <1>2, <1>4 DEF Struct
<1>6. u \in Table
  <2>1. \A q \in Pids : u[q] \in Proc
    BY <1>5 DEF ProcOK
  <2>2. u = [q \in Pids |-> u[q]]
    BY <1>1, <1>2 DEF u, ForkTable, Table
  <2> QED BY <2>1, <2>2 DEF Table
<1>7. Reg(u[n]) = {} /\ Reg(u[p]) \subseteq Reg(t[p]) \cup {n}
  BY <1>4 DEF Reg, ChildPC
<1>8. Tree(u)
  <2> SUFFICES ASSUME NEW q \in Pids, NEW r \in Reg(u[q])
               PROVE  r \in Pids \ {SHELL} /\ u[r].state # "unused" /\ u[r].parent = q
    BY DEF Tree
  <2>1. CASE r = n
    <3>1. q = p
      BY <1>1, <1>2, <1>7, <2>1 DEF Struct, Tree
    <3> QED BY <1>1, <1>4, <2>1, <3>1
  <2>2. CASE r # n
    <3>1. r \in Reg(t[q])
      BY <1>2, <1>7, <2>2
    <3>2. r \in Pids \ {SHELL} /\ t[r].state # "unused" /\ t[r].parent = q
      BY <3>1 DEF Struct, Tree
    <3> QED BY <1>2, <1>4, <2>2, <3>2
  <2> QED BY <2>1, <2>2
<1>9. ShellOK(u[SHELL])
  <2>1. CASE SHELL # p
    BY <1>1, <1>2, <2>1, PidFacts DEF Struct
  <2>2. CASE SHELL = p
    <3>1. PICK v, w : v = t[p].stack /\ w = <<f>> \o Tail(v)
      OBVIOUS
    <3>2. Len(w) = Len(v) /\ \A i \in 2 .. Len(v) : w[i] = v[i]
      <4>1. StackOK(v) /\ v # <<>> /\ f.pc # "exec"
        BY <1>3, <3>1 DEF ProcOK, ChildPC
      <4> QED BY <3>1, <4>1, StackNext
    <3>5. u[p].stack = w /\ t[p].stack = v
      BY <1>4, <3>1
    <3>3. Len(t[p].stack) \in Nat
      BY <1>3 DEF ProcOK, StackOK
    <3>4. \A i \in 1 .. Len(t[p].stack) : i = 1 \/ i \in 2 .. Len(t[p].stack)
      BY <3>3
    <3> QED BY <1>4, <2>2, <3>2, <3>4, <3>5 DEF Struct, ShellOK
  <2> QED BY <2>1, <2>2
<1> QED BY <1>5, <1>6, <1>8, <1>9 DEF Struct, u

\* A process has waited for one of its children.
LEMMA WaitStep ==
  ASSUME NEW t, Struct(t), NEW p \in Pids, NEW q \in Reg(t[p]), NEW x, ProcOK(x),
         t[p].state = "running", t[q].state = "zombie",
         x.state = "running", x.parent = t[p].parent,
         Reg(x) \subseteq Reg(t[p]) \ {q}, p = SHELL => ShellOK(x)
  PROVE  /\ Struct(WaitTable(t, p, q, x)) /\ q \in Pids \ {p, SHELL}
         /\ WaitTable(t, p, q, x)[p] = x /\ WaitTable(t, p, q, x)[q] = Unused
         /\ \A r \in Pids \ {p, q} : WaitTable(t, p, q, x)[r] = t[r]
<1> DEFINE u == WaitTable(t, p, q, x)
<1>1. t \in Table /\ x \in Proc /\ q \in Pids \ {p, SHELL} /\ t[q].parent = p
  BY DEF Struct, ProcOK, Tree
<1>2. u[p] = x /\ u[q] = Unused /\ \A r \in Pids \ {p, q} : u[r] = t[r]
  BY <1>1 DEF Table, WaitTable
<1>3. u \in Table
  BY <1>1, UnusedOK DEF Table, WaitTable
<1> HIDE DEF u
<1>4. \A r \in Pids : ProcOK(u[r])
  BY <1>2, UnusedOK DEF Struct
<1>5. Tree(u)
  <2> SUFFICES ASSUME NEW r \in Pids, NEW c \in Reg(u[r])
               PROVE  c \in Pids \ {SHELL} /\ u[c].state # "unused" /\ u[c].parent = r
    BY DEF Tree
  <2>1. c \in Reg(t[r]) /\ r # q /\ (r = p => c # q)
    BY <1>2, UnusedOK
  <2>2. c \in Pids \ {SHELL} /\ t[c].state # "unused" /\ t[c].parent = r
    BY <2>1 DEF Struct, Tree
  <2>3. c # q
    BY <1>1, <2>1, <2>2
  <2> QED BY <1>2, <2>2, <2>3
<1>6. ShellOK(u[SHELL])
  BY <1>1, <1>2, PidFacts DEF Struct
<1> QED BY <1>1, <1>2, <1>3, <1>4, <1>5, <1>6 DEF Struct, u

\* The end of a process, for itself and for its children.
Dead(x, code) == [Unused EXCEPT !.state = "zombie", !.parent = x.parent, !.code = code]
Orphan(x) == [x EXCEPT !.parent = NoPid]

LEMMA DeadOK ==
  ASSUME NEW x, ProcOK(x), NEW code \in Code
  PROVE  LET y == Dead(x, code) IN
         /\ ProcOK(y) /\ y.state = "zombie" /\ y.parent = x.parent /\ y.code = code
         /\ y.stack = <<>> /\ y.held = {} /\ y.prog = NoProgram /\ Reg(y) = {}
<1>1. x.parent \in MaybePid
  BY DEF ProcOK, Proc
<1>2. Unused.stack = <<>> /\ Unused.prog = NoProgram /\ StackOK(Unused.stack)
  BY UnusedOK DEF Unused, ProcOK
<1>3. PICK v : v = [Unused EXCEPT !.state = "zombie"]
  OBVIOUS
<1>4. v \in Proc /\ v.state = "zombie" /\ v.stack = <<>> /\ v.prog = NoProgram /\ v.held = {}
  <2>1. "zombie" \in State
    BY DEF State
  <2> QED BY <1>2, <1>3, <2>1, UnusedOK DEF Proc
<1>5. PICK w : w = [v EXCEPT !.parent = x.parent]
  OBVIOUS
<1>6. w \in Proc /\ w.state = "zombie" /\ w.stack = <<>> /\ w.prog = NoProgram
      /\ w.parent = x.parent /\ w.held = {}
  BY <1>1, <1>4, <1>5 DEF Proc
<1>7. PICK y : y = [w EXCEPT !.code = code]
  OBVIOUS
<1>8. y \in Proc /\ y.state = "zombie" /\ y.stack = <<>> /\ y.prog = NoProgram
      /\ y.parent = x.parent /\ y.code = code /\ y.held = {}
  BY <1>6, <1>7 DEF Proc
<1>9. y = Dead(x, code)
  BY <1>3, <1>5, <1>7 DEF Dead
<1> QED BY <1>2, <1>8, <1>9 DEF ProcOK, Reg

LEMMA OrphanOK ==
  ASSUME NEW x, ProcOK(x)
  PROVE  LET y == Orphan(x) IN
         /\ ProcOK(y) /\ y.state = x.state /\ y.stack = x.stack /\ y.prog = x.prog
         /\ y.ret = x.ret /\ y.code = x.code /\ y.out = x.out /\ Reg(y) = Reg(x)
<1> DEFINE y == Orphan(x)
<1>1. NoPid \in MaybePid /\ x \in Proc
  BY DEF MaybePid, ProcOK
<1>2. y \in Proc /\ y.state = x.state /\ y.stack = x.stack /\ y.prog = x.prog
      /\ y.ret = x.ret /\ y.code = x.code /\ y.out = x.out
  BY <1>1 DEF Proc, Orphan
<1> HIDE DEF y
<1>3. ProcOK(y) /\ Reg(y) = Reg(x)
  BY <1>2 DEF ProcOK, Reg
<1> QED BY <1>2, <1>3 DEF y

LEMMA ExitRows ==
  ASSUME NEW t, NEW p \in Pids, NEW code
  PROVE  LET u == ExitTable(t, p, code) IN
         /\ p = SHELL \/ t[p].parent # NoPid => u[p] = Dead(t[p], code)
         /\ p # SHELL /\ t[p].parent = NoPid => u[p] = Unused
         /\ \A q \in Pids \ {p} :
              /\ t[q].parent # p => u[q] = t[q]
              /\ t[q].parent = p /\ t[q].state = "zombie" => u[q] = Unused
              /\ t[q].parent = p /\ t[q].state # "zombie" => u[q] = Orphan(t[q])
         /\ u = [q \in Pids |-> u[q]]
BY DEF ExitTable, Dead, Orphan

\* A process ends.
LEMMA ExitStep ==
  ASSUME NEW t, Struct(t), NEW p \in Pids, NEW code \in Code,
         t[p].state = "running", Reg(t[p]) = {}
  PROVE  Struct(ExitTable(t, p, code))
<1> DEFINE u == ExitTable(t, p, code)
<1>1. /\ p = SHELL \/ t[p].parent # NoPid => u[p] = Dead(t[p], code)
      /\ p # SHELL /\ t[p].parent = NoPid => u[p] = Unused
      /\ \A q \in Pids \ {p} :
           /\ t[q].parent # p => u[q] = t[q]
           /\ t[q].parent = p /\ t[q].state = "zombie" => u[q] = Unused
           /\ t[q].parent = p /\ t[q].state # "zombie" => u[q] = Orphan(t[q])
      /\ u = [q \in Pids |-> u[q]]
  BY ExitRows
<1> HIDE DEF u
<1>2. \A q \in Pids : ProcOK(t[q])
  BY DEF Struct
<1>3. \A q \in Pids : ProcOK(u[q]) /\ Reg(u[q]) \subseteq Reg(t[q])
  <2> TAKE q \in Pids
  <2>1. u[q] = Dead(t[q], code) \/ u[q] = Unused \/ u[q] = t[q] \/ u[q] = Orphan(t[q])
    BY <1>1
  <2> QED BY <1>2, <2>1, DeadOK, OrphanOK, UnusedOK
<1>4. u \in Table
  <2>1. \A q \in Pids : u[q] \in Proc
    BY <1>3 DEF ProcOK
  <2> QED BY <1>1, <2>1 DEF Table
<1>5. Tree(u)
  <2> SUFFICES ASSUME NEW r \in Pids, NEW c \in Reg(u[r])
               PROVE  c \in Pids \ {SHELL} /\ u[c].state # "unused" /\ u[c].parent = r
    BY DEF Tree
  <2>1. c \in Reg(t[r])
    BY <1>3
  <2>2. c \in Pids \ {SHELL} /\ t[c].state # "unused" /\ t[c].parent = r /\ r # p
    BY <2>1 DEF Struct, Tree
  <2>3. CASE c = p
    <3>1. u[c] = Dead(t[c], code)
      BY <1>1, <2>2, <2>3, PidFacts
    <3> QED BY <1>2, <2>2, <3>1, DeadOK
  <2>4. CASE c # p
    BY <1>1, <2>2, <2>4
  <2> QED BY <2>3, <2>4
<1>6. ShellOK(u[SHELL])
  <2>1. CASE p = SHELL
    <3>1. /\ u[p].state = "zombie" /\ u[p].stack = <<>> /\ u[p].prog = NoProgram
          /\ u[p].parent = t[p].parent
      BY <1>1, <1>2, <2>1, DeadOK
    <3> QED BY <2>1, <3>1 DEF ShellOK, Struct
  <2>2. CASE p # SHELL
    <3>1. SHELL \in Pids \ {p} /\ ShellOK(t[SHELL])
      BY <2>2, PidFacts DEF Struct
    <3>2. t[SHELL].parent # p
      BY <3>1, PidFacts DEF ShellOK
    <3> QED BY <1>1, <3>1, <3>2
  <2> QED BY <2>1, <2>2
<1> QED BY <1>3, <1>4, <1>5, <1>6 DEF Struct, u

-----------------------------------------------------------------------------
(* While no fork has failed the processes are a tree with the shell at its *)
(* root, in which everybody waits for all of its children, and a process   *)
(* holds the ends of a pipe only in run_on_pipe.                           *)

Piping(f) ==
  \/ f.pc \in {"fork1", "close", "write end", "read end"}
  \/ f.pc = "fork2" /\ Command[f.cmd].op = "PIPE"

EndsOf(f) == {<<f.pipefd, "r">>, <<f.pipefd, "w">>}

HeldBy(x) ==
  IF x.state = "running" /\ x.stack # <<>> /\ Piping(x.stack[1])
  THEN EndsOf(x.stack[1]) ELSE {}

Awaited(t) ==
  \A q \in Pids \ {SHELL} :
    t[q].state # "unused" => t[q].parent \in Pids /\ q \in Reg(t[t[q].parent])

\* Whoever follows the parents comes to the shell.
Closed(t, S) ==
  \A q \in S : t[q].state # "unused" /\ (q # SHELL => t[q].parent \in S)

Rooted(t) == \A S \in SUBSET Pids : S # {} /\ Closed(t, S) => SHELL \in S

Clean(t) == Awaited(t) /\ Rooted(t) /\ \A p \in Pids : t[p].held = HeldBy(t[p])

LEMMA CleanLocal ==
  ASSUME NEW t \in Table, Clean(t), NEW p \in Pids, NEW x,
         x.state = t[p].state, x.parent = t[p].parent,
         Reg(x) = Reg(t[p]), x.held = HeldBy(x)
  PROVE  Clean([t EXCEPT ![p] = x])
<1> DEFINE u == [t EXCEPT ![p] = x]
<1>1. u[p] = x /\ \A q \in Pids \ {p} : u[q] = t[q]
  BY DEF Table
<1>2. \A q \in Pids : u[q].state = t[q].state /\ u[q].parent = t[q].parent
                      /\ Reg(u[q]) = Reg(t[q]) /\ u[q].held = HeldBy(u[q])
  BY <1>1 DEF Clean
<1> HIDE DEF u
<1>3. Awaited(u)
  BY <1>2 DEF Awaited, Clean
<1>4. ASSUME NEW S \in SUBSET Pids, Closed(u, S) PROVE Closed(t, S)
  BY <1>2, <1>4 DEF Closed
<1>5. Rooted(u)
  BY <1>4 DEF Rooted, Clean
<1> QED BY <1>2, <1>3, <1>5 DEF Clean, u

LEMMA CleanFork ==
  ASSUME NEW t, Clean(t), Struct(t), NEW p \in Pids, NEW n \in Pids,
         t[p].state = "running", t[n].state = "unused", NEW u,
         \A q \in Pids \ {p, n} : u[q] = t[q],
         u[p].state = "running", u[p].parent = t[p].parent,
         Reg(u[p]) = Reg(t[p]) \cup {n}, u[p].held = HeldBy(u[p]),
         u[n].state = "running", u[n].parent = p,
         u[n].held = HeldBy(u[n])
  PROVE  Clean(u)
<1>1. n # p /\ n # SHELL
  BY DEF Struct, ShellOK
<1>2. \A q \in Pids : t[q].parent = n /\ t[q].state # "unused" => q = SHELL
  <2> SUFFICES ASSUME NEW q \in Pids \ {SHELL}, t[q].parent = n, t[q].state # "unused"
               PROVE  FALSE
    OBVIOUS
  <2>1. q \in Reg(t[n])
    BY DEF Clean, Awaited
  <2> QED BY <2>1 DEF Reg
<1>3. Awaited(u)
  <2> SUFFICES ASSUME NEW q \in Pids \ {SHELL}, u[q].state # "unused"
               PROVE  u[q].parent \in Pids /\ q \in Reg(u[u[q].parent])
    BY DEF Awaited
  <2>1. CASE q = n
    BY <2>1
  <2>2. CASE q # n
    <3>1. t[q].state # "unused" /\ u[q].parent = t[q].parent
      BY <2>2
    <3>2. t[q].parent \in Pids /\ q \in Reg(t[t[q].parent]) /\ t[q].parent # n
      BY <1>2, <3>1 DEF Clean, Awaited
    <3>3. q \in Reg(u[t[q].parent])
      BY <3>2
    <3> QED BY <3>1, <3>2, <3>3
  <2> QED BY <2>1, <2>2
<1>4. Rooted(u)
  <2> SUFFICES ASSUME NEW S \in SUBSET Pids, S # {}, Closed(u, S) PROVE SHELL \in S
    BY DEF Rooted
  <2>1. S \ {n} # {}
    <3>1. n \in S => p \in S
      BY <1>1 DEF Closed
    <3> QED BY <1>1, <3>1
  <2>2. Closed(t, S \ {n})
    <3> SUFFICES ASSUME NEW q \in S \ {n}
                 PROVE  t[q].state # "unused" /\ (q # SHELL => t[q].parent \in S \ {n})
      BY DEF Closed
    <3>1. u[q].state # "unused" /\ (q # SHELL => u[q].parent \in S)
      BY DEF Closed
    <3>2. u[q].parent = t[q].parent /\ (q # p => u[q] = t[q])
      OBVIOUS
    <3>3. t[q].state # "unused"
      BY <3>1, <3>2
    <3> QED BY <1>2, <3>1, <3>2, <3>3
  <2> QED BY <2>1, <2>2 DEF Clean, Rooted
<1>5. \A q \in Pids : u[q].held = HeldBy(u[q])
  BY DEF Clean
<1> QED BY <1>3, <1>4, <1>5 DEF Clean

LEMMA CleanWait ==
  ASSUME NEW t, Clean(t), Struct(t), NEW p \in Pids, NEW q \in Pids \ {p, SHELL}, NEW u,
         t[q].state = "zombie", t[q].parent = p,
         \A r \in Pids \ {p, q} : u[r] = t[r], u[q] = Unused,
         u[p].state = t[p].state, u[p].parent = t[p].parent,
         Reg(u[p]) = Reg(t[p]) \ {q}, u[p].held = HeldBy(u[p])
  PROVE  Clean(u)
<1>0. u[q].state = "unused" /\ u[q].held = {}
  BY UnusedOK
<1>1. Reg(t[q]) = {}
  BY DEF Reg
<1>2. Awaited(u)
  <2> SUFFICES ASSUME NEW r \in Pids \ {SHELL}, u[r].state # "unused"
               PROVE  u[r].parent \in Pids /\ r \in Reg(u[u[r].parent])
    BY DEF Awaited
  <2>1. r # q /\ t[r].state # "unused" /\ u[r].parent = t[r].parent
    BY <1>0
  <2>2. t[r].parent \in Pids /\ r \in Reg(t[t[r].parent])
    BY <2>1 DEF Clean, Awaited
  <2>3. t[r].parent # q
    BY <1>1, <2>2
  <2>4. r \in Reg(u[t[r].parent])
    BY <2>1, <2>2, <2>3
  <2> QED BY <2>1, <2>2, <2>4
<1>3. Rooted(u)
  <2> SUFFICES ASSUME NEW S \in SUBSET Pids, S # {}, Closed(u, S) PROVE SHELL \in S
    BY DEF Rooted
  <2>1. q \notin S
    BY <1>0 DEF Closed
  <2>2. Closed(t, S)
    BY <2>1 DEF Closed
  <2> QED BY <2>2 DEF Clean, Rooted
<1>4. \A r \in Pids : u[r].held = HeldBy(u[r])
  <2>1. HeldBy(u[q]) = {}
    BY <1>0 DEF HeldBy
  <2>2. \A r \in Pids \ {p, q} : t[r].held = HeldBy(t[r])
    BY DEF Clean
  <2> TAKE r \in Pids
  <2>3. CASE r = p
    BY <2>3
  <2>4. CASE r = q
    BY <1>0, <2>1, <2>4
  <2>5. CASE r \in Pids \ {p, q}
    <3>1. u[r] = t[r]
      BY <2>5
    <3> QED BY <2>2, <2>5, <3>1
  <2> QED BY <2>3, <2>4, <2>5
<1> QED BY <1>2, <1>3, <1>4 DEF Clean

LEMMA CleanExit ==
  ASSUME NEW t, Clean(t), Struct(t), NEW p \in Pids, NEW code \in Code,
         t[p].state = "running", Reg(t[p]) = {}
  PROVE  Clean(ExitTable(t, p, code))
<1> DEFINE u == ExitTable(t, p, code)
<1>1. \A q \in Pids \ {p} : t[q].parent = p => q # SHELL /\ t[q].state = "unused"
  <2> SUFFICES ASSUME NEW q \in Pids \ {p}, t[q].parent = p
               PROVE  q # SHELL /\ t[q].state = "unused"
    OBVIOUS
  <2>1. q # SHELL
    BY PidFacts DEF Struct, ShellOK
  <2> QED BY <2>1 DEF Clean, Awaited
<1>2. /\ p = SHELL \/ t[p].parent # NoPid => u[p] = Dead(t[p], code)
      /\ p # SHELL /\ t[p].parent = NoPid => u[p] = Unused
      /\ \A q \in Pids \ {p} :
           /\ t[q].parent # p => u[q] = t[q]
           /\ t[q].parent = p /\ t[q].state = "zombie" => u[q] = Unused
           /\ t[q].parent = p /\ t[q].state # "zombie" => u[q] = Orphan(t[q])
  BY ExitRows
<1> HIDE DEF u
<1>3. \A q \in Pids : ProcOK(t[q])
  BY DEF Struct
<1>4. p # SHELL => t[p].parent # NoPid
  BY PidFacts DEF Clean, Awaited
<1>5. /\ u[p].state = "zombie" /\ u[p].parent = t[p].parent /\ u[p].held = {}
      /\ Reg(u[p]) = {}
  BY <1>2, <1>3, <1>4, DeadOK
<1>6. \A q \in Pids \ {p} : \/ u[q] = t[q]
                            \/ /\ t[q].state = "unused" /\ u[q].state = "unused"
                               /\ q # SHELL /\ Reg(u[q]) = {} /\ Reg(t[q]) = {}
                               /\ u[q].held = {}
  <2> TAKE q \in Pids \ {p}
  <2>1. CASE t[q].parent # p
    BY <1>2, <2>1
  <2>2. CASE t[q].parent = p
    <3>1. q # SHELL /\ t[q].state = "unused" /\ u[q] = Orphan(t[q])
      BY <1>1, <1>2, <2>2
    <3>2. u[q].state = "unused" /\ Reg(u[q]) = Reg(t[q]) /\ Reg(t[q]) = {}
      BY <1>3, <3>1, OrphanOK DEF Reg
    <3>3. t[q].held = {}
      BY <3>1 DEF Clean, HeldBy
    <3>4. u[q].held = t[q].held
      BY <1>3, <3>1 DEF Orphan, ProcOK, Proc
    <3> QED BY <3>1, <3>2, <3>3, <3>4
  <2> QED BY <2>1, <2>2
<1>7. Awaited(u)
  <2> SUFFICES ASSUME NEW r \in Pids \ {SHELL}, u[r].state # "unused"
               PROVE  u[r].parent \in Pids /\ r \in Reg(u[u[r].parent])
    BY DEF Awaited
  <2>1. t[r].state # "unused" /\ u[r].parent = t[r].parent
    BY <1>5, <1>6
  <2>2. t[r].parent \in Pids /\ r \in Reg(t[t[r].parent])
    BY <2>1 DEF Clean, Awaited
  <2>3. t[r].parent # p
    BY <2>2
  <2>4. Reg(u[t[r].parent]) = Reg(t[t[r].parent])
    BY <1>6, <2>2, <2>3
  <2> QED BY <2>1, <2>2, <2>4
<1>8. Rooted(u)
  <2> SUFFICES ASSUME NEW S \in SUBSET Pids, S # {}, Closed(u, S) PROVE SHELL \in S
    BY DEF Rooted
  <2>1. \A r \in Pids : u[r].state # "unused" =>
                          t[r].state # "unused" /\ u[r].parent = t[r].parent
    BY <1>5, <1>6
  <2>2. Closed(t, S)
    BY <2>1 DEF Closed
  <2> QED BY <2>2 DEF Clean, Rooted
<1>9. \A r \in Pids : u[r].held = HeldBy(u[r])
  BY <1>5, <1>6 DEF Clean, HeldBy
<1> QED BY <1>7, <1>8, <1>9 DEF Clean, u

\* When the shell waits for nobody there is nobody.
LEMMA CleanAlone ==
  ASSUME NEW t, Clean(t), Struct(t), Reg(t[SHELL]) = {}
  PROVE  \A p \in Pids \ {SHELL} : t[p].state = "unused"
<1> DEFINE S == {p \in Pids \ {SHELL} : t[p].state # "unused"}
<1>1. Closed(t, S)
  <2> SUFFICES ASSUME NEW q \in S PROVE t[q].parent \in S
    BY DEF Closed
  <2>1. t[q].parent \in Pids /\ q \in Reg(t[t[q].parent])
    BY DEF Clean, Awaited
  <2>2. t[t[q].parent].state = "running"
    BY <2>1 DEF Reg
  <2> QED BY <2>1, <2>2
<1>2. S = {}
  BY <1>1 DEF Clean, Rooted
<1> QED BY <1>2

-----------------------------------------------------------------------------
(* Outcome and Executed are defined by recursion on the numbers of the     *)
(* commands; that there are such functions is shown command by command.    *)

OutcomeBody(o, c) ==
  LET n == Command[c] IN
  CASE n.op = "NONE" /\ n.verb = "="    -> CASE n.arg = NoName  -> -1
                                           [] n.arg = NoValue -> Dies
                                           [] OTHER           -> 0
    [] n.op = "NONE" /\ n.verb = "cd"   -> IF n.arg \in Dirs THEN 0 ELSE -1
    [] n.op = "NONE" /\ n.verb = "exit" -> Exits
    [] n.op = "NONE" /\ n.verb = "run"  -> n.arg
    [] n.op = "SEQUENTIAL" ->
         IF o[n.cmd1] \in Final THEN o[n.cmd1] ELSE o[n.cmd2]
    [] n.op = "CONDITIONAL_ZERO" ->
         IF o[n.cmd1] = 0 THEN o[n.cmd2] ELSE o[n.cmd1]
    [] n.op = "CONDITIONAL_NZERO" ->
         IF o[n.cmd1] \in {0} \cup Final THEN o[n.cmd1] ELSE o[n.cmd2]
    [] OTHER -> IF WIFEXITED(StatusOf(o[n.cmd2])) THEN StatusOf(o[n.cmd2]) ELSE 0

ExecutedBody(x, c) ==
  LET n == Command[c] IN
  CASE n.op = "NONE" -> <<c>>
    [] n.op \in {"PIPE", "PARALLEL"} -> <<>>
    [] OTHER -> IF Outcome[n.cmd1] \notin Final /\
                   (n.op = "SEQUENTIAL" \/
                    (n.op = "CONDITIONAL_ZERO") = (Outcome[n.cmd1] = 0))
                THEN x[n.cmd1] \o x[n.cmd2] ELSE x[n.cmd1]

Simples == {c \in Commands : Command[c].op = "NONE"}
Below(c) == 1 .. (c - 1)

LEMMA NodeKinds ==
  ASSUME NEW c \in Commands
  PROVE  LET n == Command[c] IN
         \/ n.op = "NONE" /\ n.verb \in {"=", "cd", "exit"}
         \/ /\ n.op = "NONE" /\ n.verb = "run"
            /\ n.arg \in 0 .. 255 /\ n.writes \in Nat
         \/ /\ n.op \in {"SEQUENTIAL", "CONDITIONAL_ZERO", "CONDITIONAL_NZERO",
                         "PIPE", "PARALLEL"}
            /\ n.cmd1 \in Below(c) /\ n.cmd2 \in Below(c)
BY ShellAssumption DEF Below

LEMMA BelowCommands ==
  ASSUME NEW c \in Commands, NEW d \in Below(c)
  PROVE  d \in Commands /\ d < c
BY ShellAssumption DEF Below, Commands

\* A command means what the commands below it mean together.
LEMMA BodiesDepend ==
  ASSUME NEW c \in Commands, NEW o, NEW g, \A d \in Below(c) : o[d] = g[d]
  PROVE  OutcomeBody(o, c) = OutcomeBody(g, c) /\ ExecutedBody(o, c) = ExecutedBody(g, c)
<1>1. CASE Command[c].op = "NONE"
  BY <1>1, NodeKinds DEF OutcomeBody, ExecutedBody
<1>2. CASE Command[c].op # "NONE"
  <2>1. o[Command[c].cmd1] = g[Command[c].cmd1] /\ o[Command[c].cmd2] = g[Command[c].cmd2]
    BY <1>2, NodeKinds
  <2>2. OutcomeBody(o, c) = OutcomeBody(g, c)
    BY <1>2, <2>1 DEF OutcomeBody
  <2>3. ExecutedBody(o, c) = ExecutedBody(g, c)
    BY <1>2, <2>1 DEF ExecutedBody
  <2> QED BY <2>2, <2>3
<1> QED BY <1>1, <1>2

\* A set of numbers that is not empty has a least member.
LEMMA NatMin ==
  ASSUME NEW T \in SUBSET Nat, T # {}
  PROVE  \E x \in T : \A y \in T : x <= y
<1>1. IsWellFoundedOn(OpToRel(<, Nat), Nat)
  BY NatLessThanWellFounded
<1>2. PICK x \in T : \A y \in T : ~ (<<y, x>> \in OpToRel(<, Nat))
  BY <1>1, WFMin
<1>3. \A y \in T : ~ (y < x)
  BY <1>2 DEF OpToRel
<1> QED BY <1>3

LEMMA OutcomeIs == \A c \in Commands : Outcome[c] = OutcomeBody(Outcome, c)
<1> DEFINE Solves(o, n) == DOMAIN o = 1 .. n /\ \A c \in 1 .. n : o[c] = OutcomeBody(o, c)
           Bad == {n \in 0 .. Len(Command) : ~ \E o : Solves(o, n)}
           Is(o) == o = [c \in Commands |-> OutcomeBody(o, c)]
<1>0. Len(Command) \in Nat /\ Commands = 1 .. Len(Command)
  BY ShellAssumption DEF Commands
<1>1. Bad = {}
  <2> SUFFICES ASSUME Bad # {} PROVE FALSE
    OBVIOUS
  <2>1. PICK n \in Bad : \A m \in Bad : n <= m
    <3>1. Bad \in SUBSET Nat
      BY <1>0
    <3> HIDE DEF Bad
    <3> QED BY <3>1, NatMin
  <2>2. n # 0
    <3>1. Solves([c \in 1 .. 0 |-> 0], 0)
      OBVIOUS
    <3> QED BY <2>1, <3>1
  <2>3. n - 1 \in 0 .. Len(Command) /\ n \in Commands /\ n - 1 \notin Bad
    BY <1>0, <2>1, <2>2
  <2>4. PICK o : Solves(o, n - 1)
    BY <2>3
  <2> DEFINE g == [c \in 1 .. n |-> IF c < n THEN o[c] ELSE OutcomeBody(o, n)]
  <2>5. ASSUME NEW c \in 1 .. n PROVE g[c] = OutcomeBody(g, c)
    <3>1. c \in Commands /\ \A d \in Below(c) : d \in 1 .. n /\ d < n
      BY <1>0, <2>3, <2>5 DEF Below
    <3>2. \A d \in Below(c) : g[d] = o[d]
      BY <3>1
    <3>3. OutcomeBody(g, c) = OutcomeBody(o, c)
      <4> HIDE DEF g
      <4> QED BY <3>1, <3>2, BodiesDepend
    <3>4. CASE c < n
      <4>1. c \in 1 .. (n - 1)
        BY <1>0, <2>3, <3>4
      <4> QED BY <2>4, <3>3, <3>4, <4>1
    <3>5. CASE c = n
      BY <3>3, <3>5
    <3> QED BY <1>0, <2>3, <3>4, <3>5
  <2>6. Solves(g, n)
    BY <2>5
  <2> QED BY <2>1, <2>6
<1>2. PICK o : Solves(o, Len(Command))
  BY <1>0, <1>1
<1>3. Is([c \in Commands |-> o[c]])
  <2> DEFINE f == [c \in Commands |-> o[c]]
  <2>1. ASSUME NEW c \in Commands PROVE o[c] = OutcomeBody(f, c)
    <3>1. \A d \in Below(c) : f[d] = o[d]
      BY BelowCommands
    <3>2. OutcomeBody(f, c) = OutcomeBody(o, c)
      <4> HIDE DEF f
      <4> QED BY <3>1, BodiesDepend
    <3> QED BY <1>0, <1>2, <3>2
  <2> QED BY <2>1
<1>4. Outcome = CHOOSE x : Is(x)
  BY DEF Outcome, OutcomeBody
<1>5. Is(Outcome)
  <2> HIDE DEF Is
  <2> QED BY <1>3, <1>4
<1> QED BY <1>5

LEMMA ExecutedIs == \A c \in Commands : Executed[c] = ExecutedBody(Executed, c)
<1> DEFINE Solves(o, n) == DOMAIN o = 1 .. n /\ \A c \in 1 .. n : o[c] = ExecutedBody(o, c)
           Bad == {n \in 0 .. Len(Command) : ~ \E o : Solves(o, n)}
           Is(o) == o = [c \in Commands |-> ExecutedBody(o, c)]
<1>0. Len(Command) \in Nat /\ Commands = 1 .. Len(Command)
  BY ShellAssumption DEF Commands
<1>1. Bad = {}
  <2> SUFFICES ASSUME Bad # {} PROVE FALSE
    OBVIOUS
  <2>1. PICK n \in Bad : \A m \in Bad : n <= m
    <3>1. Bad \in SUBSET Nat
      BY <1>0
    <3> HIDE DEF Bad
    <3> QED BY <3>1, NatMin
  <2>2. n # 0
    <3>1. Solves([c \in 1 .. 0 |-> 0], 0)
      OBVIOUS
    <3> QED BY <2>1, <3>1
  <2>3. n - 1 \in 0 .. Len(Command) /\ n \in Commands /\ n - 1 \notin Bad
    BY <1>0, <2>1, <2>2
  <2>4. PICK o : Solves(o, n - 1)
    BY <2>3
  <2> DEFINE g == [c \in 1 .. n |-> IF c < n THEN o[c] ELSE ExecutedBody(o, n)]
  <2>5. ASSUME NEW c \in 1 .. n PROVE g[c] = ExecutedBody(g, c)
    <3>1. c \in Commands /\ \A d \in Below(c) : d \in 1 .. n /\ d < n
      BY <1>0, <2>3, <2>5 DEF Below
    <3>2. \A d \in Below(c) : g[d] = o[d]
      BY <3>1
    <3>3. ExecutedBody(g, c) = ExecutedBody(o, c)
      <4> HIDE DEF g
      <4> QED BY <3>1, <3>2, BodiesDepend
    <3>4. CASE c < n
      <4>1. c \in 1 .. (n - 1)
        BY <1>0, <2>3, <3>4
      <4> QED BY <2>4, <3>3, <3>4, <4>1
    <3>5. CASE c = n
      BY <3>3, <3>5
    <3> QED BY <1>0, <2>3, <3>4, <3>5
  <2>6. Solves(g, n)
    BY <2>5
  <2> QED BY <2>1, <2>6
<1>2. PICK o : Solves(o, Len(Command))
  BY <1>0, <1>1
<1>3. Is([c \in Commands |-> o[c]])
  <2> DEFINE f == [c \in Commands |-> o[c]]
  <2>1. ASSUME NEW c \in Commands PROVE o[c] = ExecutedBody(f, c)
    <3>1. \A d \in Below(c) : f[d] = o[d]
      BY BelowCommands
    <3>2. ExecutedBody(f, c) = ExecutedBody(o, c)
      <4> HIDE DEF f
      <4> QED BY <3>1, BodiesDepend
    <3> QED BY <1>0, <1>2, <3>2
  <2> QED BY <2>1
<1>4. Executed = CHOOSE x : Is(x)
  BY DEF Executed, ExecutedBody
<1>5. Is(Executed)
  <2> HIDE DEF Is
  <2> QED BY <1>3, <1>4
<1> QED BY <1>5


LEMMA ExecutedSeq == \A c \in Commands : Executed[c] \in Seq(Commands)
<1> DEFINE Bad == {c \in Commands : Executed[c] \notin Seq(Commands)}
<1> SUFFICES ASSUME Bad # {} PROVE FALSE
  OBVIOUS
<1>1. PICK c \in Bad : \A d \in Bad : c <= d
  <2>1. Bad \in SUBSET Nat
    BY PidFacts
  <2> HIDE DEF Bad
  <2> QED BY <2>1, NatMin
<1>2. c \in Commands /\ c \in Nat /\ Executed[c] = ExecutedBody(Executed, c)
  BY <1>1, PidFacts, ExecutedIs
<1>3. \A d \in Below(c) : Executed[d] \in Seq(Commands)
  <2> TAKE d \in Below(c)
  <2>1. d \in Commands /\ d < c
    BY <1>2, BelowCommands
  <2>2. d \in Nat /\ ~ (c <= d)
    BY <1>2, <2>1, PidFacts
  <2> QED BY <1>1, <2>1, <2>2
<1>4. CASE Command[c].op = "NONE"
  <2>1. Executed[c] = <<c>>
    BY <1>2, <1>4 DEF ExecutedBody
  <2>2. <<c>> \in Seq(Commands)
    BY <1>2
  <2> QED BY <1>1, <2>1, <2>2
<1>5. CASE Command[c].op # "NONE"
  <2> DEFINE a == Executed[Command[c].cmd1]
             b == Executed[Command[c].cmd2]
  <2>1. a \in Seq(Commands) /\ b \in Seq(Commands)
    BY <1>2, <1>3, <1>5, NodeKinds
  <2>2. Executed[c] = <<>> \/ Executed[c] = a \/ Executed[c] = a \o b
    BY <1>2, <1>5 DEF ExecutedBody
  <2> HIDE DEF a, b
  <2>3. a \o b \in Seq(Commands) /\ <<>> \in Seq(Commands)
    BY <2>1
  <2> QED BY <1>1, <2>1, <2>2, <2>3
<1> QED BY <1>4, <1>5

\* The exit code of a process that executes command c, and of the shell after
\* line c: the shell goes on to the end of its input if it can.
Stat(c) == StatusOf(Outcome[c])
CodeOf(p, c) == IF p = SHELL /\ Outcome[c] \notin Final THEN 0 ELSE Stat(c)

LEMMA SimpleMeans ==
  ASSUME NEW c \in Commands, Command[c].op = "NONE"
  PROVE  /\ Executed[c] = <<c>>
         /\ Command[c].verb = "=" =>
              Outcome[c] = CASE Command[c].arg = NoName  -> -1
                             [] Command[c].arg = NoValue -> Dies
                             [] OTHER                    -> 0
         /\ Command[c].verb = "cd" => Outcome[c] = IF Command[c].arg \in Dirs THEN 0 ELSE -1
         /\ Command[c].verb = "exit" => Outcome[c] = Exits
         /\ Command[c].verb = "run" => Outcome[c] = Command[c].arg
BY OutcomeIs, ExecutedIs DEF OutcomeBody, ExecutedBody

LEMMA ProcessMeans ==
  ASSUME NEW c \in Commands, Command[c].op \in {"PIPE", "PARALLEL"}
  PROVE  /\ Executed[c] = <<>>
         /\ Outcome[c] = IF WIFEXITED(Stat(Command[c].cmd2)) THEN Stat(Command[c].cmd2) ELSE 0
BY OutcomeIs, ExecutedIs DEF OutcomeBody, ExecutedBody, Stat

LEMMA OperatorMeans ==
  ASSUME NEW c \in Commands,
         Command[c].op \in {"SEQUENTIAL", "CONDITIONAL_ZERO", "CONDITIONAL_NZERO"}
  PROVE  LET d == Command[c].cmd1
             e == Command[c].cmd2
             goes == GoesOn(Command[c].op, Outcome[d])
         IN  /\ d \in Commands /\ e \in Commands
             /\ Outcome[d] \in Final => Outcome[c] = Outcome[d]
             /\ Outcome[d] \notin Final /\ goes =>
                  Outcome[c] = Outcome[e] /\ Executed[c] = Executed[d] \o Executed[e]
             /\ Outcome[d] \notin Final /\ ~ goes =>
                  Outcome[c] = Outcome[d] /\ Executed[c] = Executed[d]
<1> DEFINE d == Command[c].cmd1
           e == Command[c].cmd2
<1>1. d \in Commands /\ e \in Commands
  BY NodeKinds, BelowCommands
<1>2. 0 \notin Final
  BY DEF Final, Exits, Dies
<1>3. CASE Command[c].op = "SEQUENTIAL"
  BY <1>1, <1>2, <1>3, OutcomeIs, ExecutedIs DEF OutcomeBody, ExecutedBody, GoesOn
<1>4. CASE Command[c].op = "CONDITIONAL_ZERO"
  BY <1>1, <1>2, <1>4, OutcomeIs, ExecutedIs DEF OutcomeBody, ExecutedBody, GoesOn
<1>5. CASE Command[c].op = "CONDITIONAL_NZERO"
  BY <1>1, <1>2, <1>5, OutcomeIs, ExecutedIs DEF OutcomeBody, ExecutedBody, GoesOn
<1> QED BY <1>3, <1>4, <1>5

-----------------------------------------------------------------------------
(* The last command of a sequence that changes something.                  *)

Hits(s, C) == {i \in 1 .. Len(s) : s[i] \in C}
IsLast(s, C, i) == i \in Hits(s, C) /\ \A j \in Hits(s, C) : j <= i

LEMMA LastExists ==
  ASSUME NEW s \in Seq(Commands), NEW C, Hits(s, C) # {}
  PROVE  \E i : IsLast(s, C, i)
<1> DEFINE I == Hits(s, C)
           T == {Len(s) - i : i \in I}
<1>1. Len(s) \in Nat /\ \A i \in I : i \in Nat /\ i <= Len(s)
  BY DEF Hits
<1>2. T \in SUBSET Nat /\ T # {}
  <2> HIDE DEF I
  <2> QED BY <1>1 DEF I
<1>3. PICK m \in T : \A k \in T : m <= k
  <2> HIDE DEF T
  <2> QED BY <1>2, NatMin
<1>4. PICK i \in I : m = Len(s) - i
  <2> HIDE DEF I
  <2> QED BY <1>3
<1>5. \A j \in I : j <= i
  <2> HIDE DEF I
  <2> TAKE j \in I
  <2>1. m <= Len(s) - j
    BY <1>3
  <2> QED BY <1>1, <1>4, <2>1
<1> QED BY <1>5 DEF IsLast

LEMMA LastIs ==
  ASSUME NEW s \in Seq(Commands), NEW C, NEW d
  PROVE  /\ Hits(s, C) = {} => LastOf(s, C, d) = d
         /\ \A i : IsLast(s, C, i) => LastOf(s, C, d) = Command[s[i]].arg
<1>1. DOMAIN s = 1 .. Len(s)
  OBVIOUS
<1>2. LastOf(s, C, d) = IF Hits(s, C) = {} THEN d
                        ELSE Command[s[CHOOSE i \in Hits(s, C) : \A j \in Hits(s, C) : j <= i]].arg
  BY <1>1 DEF LastOf, Hits
<1>3. ASSUME NEW i, IsLast(s, C, i)
      PROVE  (CHOOSE k \in Hits(s, C) : \A j \in Hits(s, C) : j <= k) = i
  <2>1. i \in Hits(s, C) /\ \A j \in Hits(s, C) : j <= i
    BY <1>3 DEF IsLast
  <2>2. PICK k : k = CHOOSE x \in Hits(s, C) : \A j \in Hits(s, C) : j <= x
    OBVIOUS
  <2>3. k \in Hits(s, C) /\ \A j \in Hits(s, C) : j <= k
    BY <2>1, <2>2
  <2>4. k <= i /\ i <= k /\ i \in Nat /\ k \in Nat
    BY <2>1, <2>3 DEF Hits
  <2>5. k = i
    BY <2>4
  <2> QED BY <2>2, <2>5
<1>4. ASSUME NEW i, IsLast(s, C, i) PROVE Hits(s, C) # {}
  BY <1>4 DEF IsLast
<1> QED BY <1>2, <1>3, <1>4

LEMMA LastOfBoth ==
  ASSUME NEW s \in Seq(Commands), NEW t \in Seq(Commands), NEW C, NEW d
  PROVE  LastOf(s \o t, C, d) = LastOf(t, C, LastOf(s, C, d))
<1> DEFINE r == s \o t
<1>1. /\ r \in Seq(Commands) /\ Len(r) = Len(s) + Len(t) /\ Len(s) \in Nat /\ Len(t) \in Nat
      /\ \A i \in 1 .. Len(s) : r[i] = s[i]
      /\ \A i \in 1 .. Len(t) : r[Len(s) + i] = t[i]
  OBVIOUS
<1> HIDE DEF r
<1>2. \A i \in 1 .. Len(r) : \/ i \in 1 .. Len(s) /\ r[i] = s[i]
                             \/ /\ i - Len(s) \in 1 .. Len(t) /\ r[i] = t[i - Len(s)]
                                /\ i > Len(s)
  <2> TAKE i \in 1 .. Len(r)
  <2>1. CASE i <= Len(s)
    BY <1>1, <2>1
  <2>2. CASE i > Len(s)
    <3>1. i - Len(s) \in 1 .. Len(t) /\ Len(s) + (i - Len(s)) = i
      BY <1>1, <2>2
    <3> QED BY <1>1, <2>2, <3>1
  <2> QED BY <1>1, <2>1, <2>2
<1>3. \A i \in Hits(s, C) : i \in Hits(r, C) /\ i \in Nat /\ i <= Len(s)
  BY <1>1 DEF Hits
<1>4. \A i \in Hits(t, C) : Len(s) + i \in Hits(r, C) /\ i \in Nat /\ i <= Len(t) /\ i > 0
  <2> TAKE i \in Hits(t, C)
  <2>1. i \in 1 .. Len(t) /\ t[i] \in C
    BY DEF Hits
  <2>2. Len(s) + i \in 1 .. Len(r) /\ r[Len(s) + i] = t[i]
    BY <1>1, <2>1
  <2> QED BY <1>1, <2>1, <2>2 DEF Hits
<1>5. \A i \in Hits(r, C) : \/ i \in Hits(s, C)
                            \/ i - Len(s) \in Hits(t, C) /\ i > Len(s)
  BY <1>2 DEF Hits
<1>6. \A i \in Hits(r, C) : i \in Nat
  BY <1>1 DEF Hits
<1>7. CASE Hits(t, C) # {}
  <2>1. PICK i : IsLast(t, C, i)
    BY <1>7, LastExists
  <2>2. i \in Hits(t, C) /\ i \in Nat /\ i > 0 /\ \A j \in Hits(t, C) : j <= i
    BY <1>4, <2>1 DEF IsLast
  <2>3. IsLast(r, C, Len(s) + i)
    <3>1. ASSUME NEW j \in Hits(r, C) PROVE j <= Len(s) + i
      <4>1. CASE j \in Hits(s, C)
        <5>1. j \in Nat /\ j <= Len(s)
          BY <1>3, <4>1
        <5> QED BY <1>1, <2>2, <5>1
      <4>2. CASE j - Len(s) \in Hits(t, C)
        <5>1. j - Len(s) <= i /\ j \in Nat
          BY <1>6, <2>2, <4>2
        <5> QED BY <1>1, <2>2, <5>1
      <4> QED BY <1>5, <4>1, <4>2
    <3> QED BY <1>4, <2>2, <3>1 DEF IsLast
  <2>4. r[Len(s) + i] = t[i]
    BY <1>1, <2>2 DEF Hits
  <2>5. LastOf(r, C, d) = Command[t[i]].arg
    BY <1>1, <2>3, <2>4, LastIs
  <2>6. LastOf(t, C, LastOf(s, C, d)) = Command[t[i]].arg
    BY <2>1, LastIs
  <2> QED BY <2>5, <2>6 DEF r
<1>8. CASE Hits(t, C) = {} /\ Hits(s, C) # {}
  <2>1. PICK i : IsLast(s, C, i)
    BY <1>8, LastExists
  <2>2. IsLast(r, C, i)
    BY <1>3, <1>5, <1>8, <2>1 DEF IsLast
  <2>3. r[i] = s[i]
    BY <1>1, <2>1 DEF IsLast, Hits
  <2>4. LastOf(r, C, d) = Command[s[i]].arg /\ LastOf(s, C, d) = Command[s[i]].arg
    BY <1>1, <2>1, <2>2, <2>3, LastIs
  <2>5. LastOf(t, C, LastOf(s, C, d)) = LastOf(s, C, d)
    BY <1>8, LastIs
  <2> QED BY <2>4, <2>5 DEF r
<1>9. CASE Hits(t, C) = {} /\ Hits(s, C) = {}
  <2>1. Hits(r, C) = {}
    BY <1>5, <1>9
  <2>2. LastOf(r, C, d) = d /\ LastOf(s, C, d) = d
    BY <1>1, <1>9, <2>1, LastIs
  <2>3. LastOf(t, C, LastOf(s, C, d)) = LastOf(s, C, d)
    BY <1>9, LastIs
  <2> QED BY <2>2, <2>3 DEF r
<1> QED BY <1>7, <1>8, <1>9

-----------------------------------------------------------------------------
(* What a command does to the directory and the variable of its process.   *)

Local(x) == [cwd |-> x.cwd, env |-> x.env]

Apply(c, e) == [cwd |-> LastOf(Executed[c], Changes("cd"), e.cwd),
                env |-> LastOf(Executed[c], Changes("="), e.env)]

Pair(e) == e = [cwd |-> e.cwd, env |-> e.env]

\* Command c executes what d and then f execute.
Chain(c, d, f) == Executed[c] = Executed[d] \o Executed[f]

LEMMA ApplyBoth ==
  ASSUME NEW c, NEW d \in Commands, NEW f \in Commands, Chain(c, d, f), NEW e
  PROVE  Apply(c, e) = Apply(f, Apply(d, e))
<1>1. Executed[d] \in Seq(Commands) /\ Executed[f] \in Seq(Commands)
  BY ExecutedSeq
<1> QED BY <1>1, LastOfBoth DEF Apply, Chain

LEMMA ApplyNothing ==
  ASSUME NEW c, Executed[c] = <<>>, NEW e, Pair(e)
  PROVE  Apply(c, e) = e
<1>1. <<>> \in Seq(Commands) /\ \A C : Hits(<<>>, C) = {}
  BY DEF Hits
<1>2. \A C, d : LastOf(<<>>, C, d) = d
  BY <1>1, LastIs
<1> QED BY <1>2 DEF Apply, Pair

LEMMA ApplySimple ==
  ASSUME NEW c \in Commands, Command[c].op = "NONE", NEW e, Pair(e)
  PROVE  /\ Command[c].verb = "run" => Apply(c, e) = e
         /\ Command[c].verb = "=" => Apply(c, e) = [cwd |-> e.cwd,
                                                   env |-> IF Command[c].arg \in {NoName, NoValue}
                                                           THEN e.env ELSE Command[c].arg]
         /\ Command[c].verb = "cd" => Apply(c, e) = [cwd |-> IF Command[c].arg \in Dirs
                                                            THEN Command[c].arg ELSE e.cwd,
                                                    env |-> e.env]
<1>1. Executed[c] = <<c>> /\ <<c>> \in Seq(Commands) /\ Len(<<c>>) = 1 /\ <<c>>[1] = c
  BY SimpleMeans
<1>2. \A C : c \notin C => Hits(<<c>>, C) = {}
  BY <1>1 DEF Hits
<1>3. \A C : c \in C => IsLast(<<c>>, C, 1)
  BY <1>1 DEF IsLast, Hits
<1>4. ASSUME NEW C, NEW d
      PROVE  LastOf(<<c>>, C, d) = IF c \in C THEN Command[c].arg ELSE d
  <2>1. PICK s \in Seq(Commands) : s = <<c>> /\ s[1] = c
    BY <1>1
  <2>2. CASE c \in C
    <3>1. IsLast(s, C, 1)
      BY <1>3, <2>1, <2>2
    <3>2. LastOf(s, C, d) = Command[s[1]].arg
      BY <3>1, LastIs
    <3> QED BY <2>1, <2>2, <3>2
  <2>3. CASE c \notin C
    <3>1. Hits(s, C) = {}
      BY <1>2, <2>1, <2>3
    <3>2. LastOf(s, C, d) = d
      BY <3>1, LastIs
    <3> QED BY <2>1, <2>3, <3>2
  <2> QED BY <2>2, <2>3
<1>5. /\ c \in Changes("cd") <=> Command[c].verb = "cd" /\ Command[c].arg \in Dirs
      /\ c \in Changes("=") <=> Command[c].verb = "=" /\ Command[c].arg \notin {NoName, NoValue}
  BY SimpleMeans DEF Changes, Dies
<1> QED BY <1>1, <1>4, <1>5 DEF Apply, Pair

-----------------------------------------------------------------------------
(* A stack of calls on the way to the outcome of command c, which began    *)
(* with the directory and the variable e.                                  *)

\* The call f waits for its call for command d.
Inside(f, d) ==
  LET n == Command[f.cmd] IN
  /\ f.pc = "second" => n.cmd1 = d
  /\ f.pc = "last" => /\ n.cmd2 = d /\ Outcome[f.cmd] = Outcome[d]
                      /\ Chain(f.cmd, n.cmd1, d)

RightStack(s, ret, c) ==
  /\ s[Len(s)].cmd = c
  /\ \A i \in 1 .. Len(s) : Outcome[s[i].cmd] \in Final => Outcome[c] = Outcome[s[i].cmd]
  /\ \A i \in 2 .. Len(s) : Inside(s[i], s[i - 1].cmd)
  /\ s[1].pc = "second" => ret = Outcome[Command[s[1].cmd].cmd1]
  /\ s[1].pc = "last" => ret = Outcome[s[1].cmd]

\* Call i began with E[i].
Before(f, e) == IF f.pc = "second" THEN e ELSE Apply(Command[f.cmd].cmd1, e)

Now(f, e) ==
  CASE f.pc = "second" -> Apply(Command[f.cmd].cmd1, e)
    [] f.pc = "last"   -> Apply(f.cmd, e)
    [] OTHER           -> e

Began(s, E, e) ==
  E[Len(s)] = e /\ \A i \in 2 .. Len(s) : E[i - 1] = Before(s[i], E[i])

OnWay(s, ret, now, c, e) ==
  /\ RightStack(s, ret, c)
  /\ \E E : Began(s, E, e) /\ now = Now(s[1], E[1])

LEMMA WayNext ==
  ASSUME NEW s, StackOK(s), s # <<>>, NEW ret, NEW ret2, NEW now, NEW c, NEW e,
         OnWay(s, ret, now, c, e), s[1].pc \notin BelowPC,
         NEW f \in Frame, FrameOK(f), f.pc # "exec", f.cmd = s[1].cmd,
         f.pc \notin BelowPC
  PROVE  OnWay(<<f>> \o Tail(s), ret2, now, c, e)
<1> DEFINE u == <<f>> \o Tail(s)
<1>1. /\ Len(u) = Len(s) /\ u[1] = f
      /\ \A i \in 2 .. Len(s) : u[i] = s[i]
  BY StackNext
<1>2. Len(s) \in Nat \ {0}
  BY DEF StackOK
<1> HIDE DEF u
<1>3. \A i \in 1 .. Len(s) : u[i].cmd = s[i].cmd
  <2>1. \A i \in 1 .. Len(s) : i = 1 \/ i \in 2 .. Len(s)
    BY <1>2
  <2> QED BY <1>1, <2>1
<1>4. \A i \in 2 .. Len(s) : i - 1 \in 1 .. Len(s)
  BY <1>2
<1>5. Len(s) \in 1 .. Len(s)
  BY <1>2
<1>6. f.pc # "second" /\ f.pc # "last" /\ s[1].pc # "second" /\ s[1].pc # "last"
  BY DEF BelowPC
<1>7. RightStack(u, ret2, c)
  BY <1>1, <1>3, <1>4, <1>5, <1>6 DEF RightStack, OnWay
<1>8. PICK E : Began(s, E, e) /\ now = Now(s[1], E[1])
  BY DEF OnWay
<1>9. Began(u, E, e)
  BY <1>1, <1>8 DEF Began
<1>10. now = Now(u[1], E[1])
  BY <1>1, <1>6, <1>8 DEF Now
<1> QED BY <1>7, <1>9, <1>10 DEF OnWay, u

LEMMA WayPush ==
  ASSUME NEW s, StackOK(s), s # <<>>, NEW ret, NEW ret2, NEW now, NEW c, NEW e,
         OnWay(s, ret, now, c, e),
         NEW f \in Frame, FrameOK(f), f.pc = "start",
         NEW g \in Frame, FrameOK(g), g.pc \in BelowPC, g.cmd = s[1].cmd,
         Inside(g, f.cmd), Outcome[f.cmd] \in Final => Outcome[g.cmd] = Outcome[f.cmd],
         \/ s[1].pc \notin BelowPC /\ g.pc = "second"
         \/ s[1].pc = "second" /\ g.pc = "last"
  PROVE  OnWay(<<f, g>> \o Tail(s), ret2, now, c, e)
<1> DEFINE u == <<f, g>> \o Tail(s)
<1>1. /\ Len(u) = Len(s) + 1 /\ u[1] = f /\ u[2] = g
      /\ \A i \in 2 .. Len(s) : u[i + 1] = s[i]
  BY StackPush
<1>2. Len(s) \in Nat \ {0}
  BY DEF StackOK
<1> HIDE DEF u
<1>3. \A i \in 1 .. Len(s) : u[i + 1].cmd = s[i].cmd
  <2>1. \A i \in 1 .. Len(s) : (i = 1 /\ i + 1 = 2) \/ i \in 2 .. Len(s)
    BY <1>2
  <2> QED BY <1>1, <2>1
<1>4. \A i \in 2 .. Len(u) : i = 2 \/ (i > 2 /\ i - 1 \in 2 .. Len(s) /\ (i - 1) + 1 = i)
  BY <1>1, <1>2
<1>5. \A i \in 2 .. Len(u) : i > 2 => u[i] = s[i - 1] /\ u[i - 1].cmd = s[i - 2].cmd
  <2> TAKE i \in 2 .. Len(u)
  <2> HAVE i > 2
  <2>1. i - 1 \in 2 .. Len(s) /\ (i - 1) + 1 = i /\ i - 2 \in 1 .. Len(s) /\ (i - 2) + 1 = i - 1
    BY <1>1, <1>2
  <2>2. u[(i - 1) + 1] = s[i - 1] /\ u[(i - 2) + 1].cmd = s[i - 2].cmd
    BY <1>1, <1>3, <2>1
  <2> QED BY <2>1, <2>2
<1>6. RightStack(u, ret2, c)
  <2>1. u[Len(u)].cmd = c
    BY <1>1, <1>2, <1>3 DEF OnWay, RightStack
  <2>2. Outcome[g.cmd] \in Final => Outcome[c] = Outcome[g.cmd]
    BY <1>2 DEF OnWay, RightStack
  <2>3. ASSUME NEW i \in 1 .. Len(u), Outcome[u[i].cmd] \in Final
        PROVE  Outcome[c] = Outcome[u[i].cmd]
    <3>1. CASE i = 1
      BY <1>1, <2>2, <2>3, <3>1
    <3>2. CASE i # 1
      <4>1. i - 1 \in 1 .. Len(s) /\ (i - 1) + 1 = i
        BY <1>1, <1>2, <3>2
      <4>2. u[i].cmd = s[i - 1].cmd
        BY <1>3, <4>1
      <4> QED BY <2>3, <4>1, <4>2 DEF OnWay, RightStack
    <3> QED BY <3>1, <3>2
  <2>4. ASSUME NEW i \in 2 .. Len(u) PROVE Inside(u[i], u[i - 1].cmd)
    <3>1. CASE i = 2
      BY <1>1, <3>1
    <3>2. CASE i > 2
      <4>1. Inside(s[i - 1], s[(i - 1) - 1].cmd)
        BY <1>4, <3>2 DEF OnWay, RightStack
      <4>2. (i - 1) - 1 = i - 2
        BY <1>1, <1>2
      <4> QED BY <1>5, <3>2, <4>1, <4>2
    <3> QED BY <1>1, <1>2, <3>1, <3>2
  <2> QED BY <1>1, <2>1, <2>3, <2>4 DEF RightStack
<1>7. PICK E : Began(s, E, e) /\ now = Now(s[1], E[1])
  BY DEF OnWay
<1> DEFINE F == [i \in 1 .. (Len(s) + 1) |-> IF i = 1 THEN now ELSE E[i - 1]]
<1>8. F[1] = now /\ \A i \in 2 .. Len(u) : F[i] = E[i - 1]
  BY <1>1, <1>2
<1> HIDE DEF F
<1>9. Before(g, E[1]) = now
  BY <1>7 DEF Before, Now, BelowPC
<1>10. Began(u, F, e)
  <2>1. F[Len(u)] = e
    BY <1>1, <1>2, <1>7, <1>8 DEF Began
  <2>2. ASSUME NEW i \in 2 .. Len(u) PROVE F[i - 1] = Before(u[i], F[i])
    <3>1. CASE i = 2
      <4>1. F[2] = E[1] /\ F[i - 1] = now
        BY <1>8, <3>1
      <4> QED BY <1>1, <1>9, <3>1, <4>1
    <3>2. CASE i > 2
      <4>1. i - 1 \in 2 .. Len(u) /\ i - 1 \in 2 .. Len(s)
        BY <1>1, <1>2, <3>2
      <4>2. F[i] = E[i - 1] /\ F[i - 1] = E[(i - 1) - 1]
        BY <1>8, <4>1
      <4>3. E[(i - 1) - 1] = Before(s[i - 1], E[i - 1])
        BY <1>7, <4>1 DEF Began
      <4> QED BY <1>5, <3>2, <4>2, <4>3
    <3> QED BY <1>1, <1>2, <3>1, <3>2
  <2> QED BY <2>1, <2>2 DEF Began
<1>11. now = Now(u[1], F[1])
  BY <1>1, <1>8 DEF Now
<1> QED BY <1>6, <1>10, <1>11 DEF OnWay, u

\* The innermost call has done what its command is to do.
Finished(f, now, now2) ==
  \/ f.pc \notin BelowPC /\ now2 = Apply(f.cmd, now)
  \/ f.pc = "last" /\ now2 = now
  \/ f.pc = "second" /\ now2 = now /\ Executed[f.cmd] = Executed[Command[f.cmd].cmd1]

LEMMA WayPop ==
  ASSUME NEW s, StackOK(s), s # <<>>, NEW ret, NEW now, NEW c, NEW e,
         OnWay(s, ret, now, c, e), NEW now2, Finished(s[1], now, now2)
  PROVE  /\ Tail(s) # <<>> => OnWay(Tail(s), Outcome[s[1].cmd], now2, c, e)
         /\ Tail(s) = <<>> => s[1].cmd = c /\ now2 = Apply(c, e)
<1> DEFINE u == Tail(s)
<1>1. /\ StackOK(u) /\ Len(u) = Len(s) - 1
      /\ \A i \in 1 .. (Len(s) - 1) : u[i] = s[i + 1]
      /\ u # <<>> => Len(s) > 1 /\ u[1] = s[2] /\ s[2].pc \in BelowPC
      /\ u = <<>> => Len(s) = 1
  BY StackPop
<1>2. Len(s) \in Nat \ {0}
  BY DEF StackOK
<1> HIDE DEF u
<1>3. PICK E : Began(s, E, e) /\ now = Now(s[1], E[1])
  BY DEF OnWay
<1>4. now2 = Apply(s[1].cmd, E[1])
  BY <1>3 DEF Finished, Now, Apply, BelowPC
<1>5. CASE u = <<>>
  <2>1. s[1].cmd = c /\ E[1] = e
    BY <1>1, <1>3, <1>5 DEF OnWay, RightStack, Began
  <2> QED BY <1>4, <1>5, <2>1 DEF u
<1>6. CASE u # <<>>
  <2>1. Len(s) > 1 /\ u[1] = s[2] /\ s[2].pc \in BelowPC /\ 2 \in 2 .. Len(s)
    BY <1>1, <1>2, <1>6
  <2>2. Inside(s[2], s[1].cmd) /\ E[1] = Before(s[2], E[2])
    BY <1>3, <2>1 DEF OnWay, RightStack, Began
  <2>3. s[2].cmd \in Commands /\ FrameOK(s[2])
    <3>1. 2 \in 1 .. Len(s) /\ s \in Seq(Frame)
      BY <1>2, <2>1 DEF StackOK
    <3>2. s[2] \in Frame
      BY <3>1
    <3> QED BY <3>1, <3>2 DEF StackOK, Frame
  <2>4. Command[s[2].cmd].cmd1 \in Commands /\ Command[s[2].cmd].cmd2 \in Commands
    BY <2>1, <2>3, OperatorMeans DEF FrameOK
  <2>5. now2 = Now(s[2], E[2])
    <3>1. CASE s[2].pc = "second"
      BY <1>4, <2>2, <3>1 DEF Inside, Before, Now
    <3>2. CASE s[2].pc = "last"
      <4>1. Chain(s[2].cmd, Command[s[2].cmd].cmd1, s[1].cmd) /\ s[1].cmd \in Commands
        BY <2>2, <2>4, <3>2 DEF Inside
      <4>2. Apply(s[2].cmd, E[2]) = Apply(s[1].cmd, Apply(Command[s[2].cmd].cmd1, E[2]))
        BY <2>4, <4>1, ApplyBoth
      <4> QED BY <1>4, <2>2, <3>2, <4>2 DEF Before, Now
    <3> QED BY <2>1, <3>1, <3>2 DEF BelowPC
  <2> DEFINE F == [i \in 1 .. (Len(s) - 1) |-> E[i + 1]]
  <2>6. \A i \in 1 .. (Len(s) - 1) : F[i] = E[i + 1]
    OBVIOUS
  <2> HIDE DEF F
  <2>7. \A i \in 2 .. Len(u) : /\ i \in 1 .. (Len(s) - 1) /\ i - 1 \in 1 .. (Len(s) - 1)
                               /\ i + 1 \in 2 .. Len(s) /\ (i - 1) + 1 = i /\ (i + 1) - 1 = i
    BY <1>1, <1>2
  <2>8. Began(u, F, e)
    <3>1. F[Len(u)] = e
      <4>1. Len(u) \in 1 .. (Len(s) - 1) /\ Len(u) + 1 = Len(s)
        BY <1>1, <1>2, <2>1
      <4> QED BY <1>3, <2>6, <4>1 DEF Began
    <3>2. ASSUME NEW i \in 2 .. Len(u) PROVE F[i - 1] = Before(u[i], F[i])
      <4>1. F[i - 1] = E[i] /\ F[i] = E[i + 1] /\ u[i] = s[i + 1]
        BY <1>1, <2>6, <2>7
      <4>2. E[(i + 1) - 1] = Before(s[i + 1], E[i + 1])
        BY <1>3, <2>7 DEF Began
      <4> QED BY <2>7, <4>1, <4>2
    <3> QED BY <3>1, <3>2 DEF Began
  <2>9. RightStack(u, Outcome[s[1].cmd], c)
    <3>1. u[Len(u)].cmd = c
      <4>1. Len(u) \in 1 .. (Len(s) - 1) /\ Len(u) + 1 = Len(s)
        BY <1>1, <1>2, <2>1
      <4> QED BY <1>1, <4>1 DEF OnWay, RightStack
    <3>2. \A i \in 1 .. Len(u) : Outcome[u[i].cmd] \in Final => Outcome[c] = Outcome[u[i].cmd]
      <4>1. \A i \in 1 .. Len(u) : i + 1 \in 1 .. Len(s) /\ i \in 1 .. (Len(s) - 1)
        BY <1>1, <1>2
      <4> QED BY <1>1, <4>1 DEF OnWay, RightStack
    <3>3. ASSUME NEW i \in 2 .. Len(u) PROVE Inside(u[i], u[i - 1].cmd)
      <4>1. u[i] = s[i + 1] /\ u[i - 1] = s[i]
        BY <1>1, <2>7
      <4>2. Inside(s[i + 1], s[(i + 1) - 1].cmd)
        BY <2>7 DEF OnWay, RightStack
      <4> QED BY <2>7, <4>1, <4>2
    <3> QED BY <2>1, <2>2, <3>1, <3>2, <3>3 DEF RightStack, Inside
  <2>10. now2 = Now(u[1], F[1])
    BY <2>1, <2>5, <2>6
  <2> QED BY <1>6, <2>8, <2>9, <2>10 DEF OnWay, u
<1> QED BY <1>5, <1>6

-----------------------------------------------------------------------------
(* The processes on whose status that of the line depends, G: the shell,   *)
(* its programs, the last one of a pipe and the second of two commands in  *)
(* parallel, and theirs in turn.  Process p executes command R[p] from     *)
(* B[p] on.  None of them writes into a pipe, so only an assignment        *)
(* without a value can kill it.                                            *)

Right(p, x, c, e) ==
  /\ x.state = "running" => x.out = NoPipe
  /\ x.state = "running" /\ x.stack # <<>> =>
       /\ OnWay(x.stack, x.ret, Local(x), c, e)
       /\ x.stack[1].pc \notin {"cd child", "write end"}
  /\ x.state = "running" /\ x.stack = <<>> /\ x.prog = NoProgram =>
       x.ret = Outcome[c] /\ Local(x) = Apply(c, e)
  /\ x.prog # NoProgram => x.prog = c
  /\ x.state = "zombie" => x.code = CodeOf(p, c)

LinkOf(x, G, R) ==
  x.state = "running" /\ x.stack # <<>> =>
    LET f == x.stack[1] IN
    /\ f.pc = "wait" => f.pid1 \in G /\ R[f.pid1] = f.cmd
    /\ f.pc \in {"close", "wait1", "wait2"} =>
         f.pid2 \in G /\ R[f.pid2] = Command[f.cmd].cmd2

Good(t, G, R, B, l, e) ==
  /\ G \in SUBSET Pids /\ SHELL \in G /\ R[SHELL] = l /\ B[SHELL] = e
  /\ \A p \in G : Right(p, t[p], R[p], B[p]) /\ LinkOf(t[p], G, R)

Results(t, l, e) ==
  IF l = 0
  THEN t[SHELL].stack = <<>> /\ (t[SHELL].state = "zombie" => t[SHELL].code = 0)
  ELSE \E G, R, B : Good(t, G, R, B, l, e)

\* Links are to children that will be waited for.
LEMMA LinksAwaited ==
  ASSUME NEW x, NEW G, NEW H, NEW R, NEW S, LinkOf(x, G, R),
         \A q \in Reg(x) \cap G : q \in H /\ S[q] = R[q]
  PROVE  LinkOf(x, H, S)
<1> SUFFICES ASSUME x.state = "running", x.stack # <<>> PROVE LinkOf(x, H, S)
  BY DEF LinkOf
<1> DEFINE f == x.stack[1]
<1>1. /\ f.pc = "wait" => f.pid1 \in Reg(x)
      /\ f.pc \in {"close", "wait1", "wait2"} => f.pid2 \in Reg(x)
  BY DEF Reg
<1> QED BY <1>1 DEF LinkOf

LEMMA GoodLocal ==
  ASSUME NEW t \in Table, NEW G, NEW R, NEW B, NEW l, NEW e, Good(t, G, R, B, l, e),
         NEW p \in Pids, NEW x,
         p \in G => Right(p, x, R[p], B[p]) /\ LinkOf(x, G, R)
  PROVE  Good([t EXCEPT ![p] = x], G, R, B, l, e)
<1> DEFINE u == [t EXCEPT ![p] = x]
<1>1. u[p] = x /\ \A q \in Pids \ {p} : u[q] = t[q]
  BY DEF Table
<1> HIDE DEF u
<1>2. ASSUME NEW q \in G PROVE Right(q, u[q], R[q], B[q]) /\ LinkOf(u[q], G, R)
  <2>1. CASE q = p
    BY <1>1, <2>1
  <2>2. CASE q # p
    <3>1. u[q] = t[q]
      BY <1>1, <2>2 DEF Good
    <3> QED BY <3>1 DEF Good
  <2> QED BY <2>1, <2>2
<1> QED BY <1>2 DEF Good, u

Set(R, n, v) == [q \in Pids |-> IF q = n THEN v ELSE R[q]]

\* A child on which nothing depends, and one on which something does.
LEMMA GoodForkOut ==
  ASSUME NEW t, Struct(t), NEW G, NEW R, NEW B, NEW l, NEW e, Good(t, G, R, B, l, e),
         NEW p \in Pids, NEW n \in Pids, t[n].state = "unused", NEW u,
         \A q \in Pids \ {p, n} : u[q] = t[q],
         p \in G => Right(p, u[p], R[p], B[p]) /\ LinkOf(u[p], G \ {n}, R)
  PROVE  Good(u, G \ {n}, R, B, l, e)
<1>1. n # SHELL
  BY DEF Struct, ShellOK
<1>2. ASSUME NEW q \in G \ {n}
      PROVE  Right(q, u[q], R[q], B[q]) /\ LinkOf(u[q], G \ {n}, R)
  <2>1. CASE q = p
    BY <2>1
  <2>2. CASE q # p
    <3>1. u[q] = t[q] /\ q \in Pids
      BY <2>2 DEF Good
    <3>2. n \notin Reg(t[q])
      BY <3>1 DEF Struct, Tree
    <3>3. LinkOf(t[q], G \ {n}, R)
      <4>1. LinkOf(t[q], G, R)
        BY DEF Good
      <4>2. \A r \in Reg(t[q]) \cap G : r \in G \ {n} /\ R[r] = R[r]
        BY <3>2
      <4> QED BY <4>1, <4>2, LinksAwaited
    <3> QED BY <3>1, <3>3 DEF Good
  <2> QED BY <2>1, <2>2
<1> QED BY <1>1, <1>2 DEF Good

LEMMA GoodForkIn ==
  ASSUME NEW t, Struct(t), NEW G, NEW R, NEW B, NEW l, NEW e, Good(t, G, R, B, l, e),
         NEW p \in G, NEW n \in Pids, n # p, t[n].state = "unused", NEW u, NEW d, NEW b,
         \A q \in Pids \ {p, n} : u[q] = t[q],
         Right(p, u[p], R[p], B[p]), LinkOf(u[p], G \cup {n}, Set(R, n, d)),
         Right(n, u[n], d, b), LinkOf(u[n], G \cup {n}, Set(R, n, d))
  PROVE  Good(u, G \cup {n}, Set(R, n, d), Set(B, n, b), l, e)
<1> DEFINE H == G \cup {n}
           S == Set(R, n, d)
           C == Set(B, n, b)
<1>1. n # SHELL /\ G \in SUBSET Pids
  BY DEF Struct, ShellOK, Good
<1>2. S[n] = d /\ C[n] = b /\ \A q \in Pids \ {n} : S[q] = R[q] /\ C[q] = B[q]
  BY DEF Set
<1> HIDE DEF S, C
<1>3. ASSUME NEW q \in H PROVE Right(q, u[q], S[q], C[q]) /\ LinkOf(u[q], H, S)
  <2>1. CASE q = p
    <3>1. S[p] = R[p] /\ C[p] = B[p]
      BY <1>1, <1>2
    <3> QED BY <2>1, <3>1 DEF S
  <2>2. CASE q = n
    BY <1>2, <2>2 DEF S
  <2>3. CASE q # p /\ q # n
    <3>1. u[q] = t[q] /\ q \in Pids /\ q \in G /\ S[q] = R[q] /\ C[q] = B[q]
      BY <1>1, <1>2, <2>3
    <3>2. n \notin Reg(t[q])
      BY <3>1 DEF Struct, Tree
    <3>3. LinkOf(t[q], H, S)
      <4>1. LinkOf(t[q], G, R)
        BY <3>1 DEF Good
      <4>2. \A r \in Reg(t[q]) \cap G : r \in H /\ S[r] = R[r]
        BY <1>1, <1>2, <3>2
      <4> QED BY <4>1, <4>2, LinksAwaited
    <3> QED BY <3>1, <3>3 DEF Good
  <2> QED BY <2>1, <2>2, <2>3
<1>4. S[SHELL] = l /\ C[SHELL] = e
  BY <1>1, <1>2, PidFacts DEF Good
<1> QED BY <1>1, <1>3, <1>4 DEF Good, S, C

LEMMA GoodWait ==
  ASSUME NEW t, Struct(t), NEW G, NEW R, NEW B, NEW l, NEW e, Good(t, G, R, B, l, e),
         NEW p \in Pids, NEW q \in Reg(t[p]), NEW u,
         \A r \in Pids \ {p, q} : u[r] = t[r],
         p \in G => Right(p, u[p], R[p], B[p]) /\ LinkOf(u[p], G \ {q}, R)
  PROVE  Good(u, G \ {q}, R, B, l, e)
<1>1. q # SHELL /\ t[q].parent = p
  BY DEF Struct, Tree
<1>2. ASSUME NEW r \in G \ {q}
      PROVE  Right(r, u[r], R[r], B[r]) /\ LinkOf(u[r], G \ {q}, R)
  <2>1. CASE r = p
    BY <2>1
  <2>2. CASE r # p
    <3>1. u[r] = t[r] /\ r \in Pids
      BY <2>2 DEF Good
    <3>2. q \notin Reg(t[r])
      BY <1>1, <2>2, <3>1 DEF Struct, Tree
    <3>3. LinkOf(t[r], G \ {q}, R)
      <4>1. LinkOf(t[r], G, R)
        BY DEF Good
      <4>2. \A c \in Reg(t[r]) \cap G : c \in G \ {q} /\ R[c] = R[c]
        BY <3>2
      <4> QED BY <4>1, <4>2, LinksAwaited
    <3> QED BY <3>1, <3>3 DEF Good
  <2> QED BY <2>1, <2>2
<1> QED BY <1>1, <1>2 DEF Good

LEMMA GoodExit ==
  ASSUME NEW t, Struct(t), NEW G, NEW R, NEW B, NEW l, NEW e, Good(t, G, R, B, l, e),
         NEW p \in Pids, NEW code \in Code, t[p].state = "running",
         p \in G => code = CodeOf(p, R[p])
  PROVE  Good(ExitTable(t, p, code), G, R, B, l, e)
<1> DEFINE u == ExitTable(t, p, code)
<1>1. /\ p = SHELL \/ t[p].parent # NoPid => u[p] = Dead(t[p], code)
      /\ p # SHELL /\ t[p].parent = NoPid => u[p] = Unused
      /\ \A q \in Pids \ {p} :
           /\ t[q].parent # p => u[q] = t[q]
           /\ t[q].parent = p /\ t[q].state = "zombie" => u[q] = Unused
           /\ t[q].parent = p /\ t[q].state # "zombie" => u[q] = Orphan(t[q])
  BY ExitRows
<1> HIDE DEF u
<1>2. \A q \in Pids : ProcOK(t[q])
  BY DEF Struct
<1>3. Unused.state = "unused" /\ Unused.prog = NoProgram
  BY DEF Unused
<1>4. \A q, c, b : Right(q, Unused, c, b)
  BY <1>3 DEF Right
<1>5. LinkOf(Unused, G, R)
  BY <1>3 DEF LinkOf
<1>6. ASSUME NEW q \in G PROVE Right(q, u[q], R[q], B[q]) /\ LinkOf(u[q], G, R)
  <2>0. Right(q, t[q], R[q], B[q]) /\ LinkOf(t[q], G, R) /\ q \in Pids
    BY DEF Good
  <2>1. CASE u[q] = Unused
    BY <1>4, <1>5, <2>1
  <2>2. CASE u[q] = t[q]
    BY <2>0, <2>2
  <2>3. CASE q = p /\ u[p] = Dead(t[p], code)
    <3>1. u[p].state = "zombie" /\ u[p].code = code /\ u[p].prog = NoProgram
      BY <1>2, <2>3, DeadOK
    <3> QED BY <2>3, <3>1 DEF Right, LinkOf
  <2>4. CASE u[q] = Orphan(t[q])
    <3>1. PICK x : x = t[q]
      OBVIOUS
    <3>2. PICK y : y = Orphan(x)
      OBVIOUS
    <3>3. /\ y.state = x.state /\ y.stack = x.stack /\ y.prog = x.prog
          /\ y.ret = x.ret /\ y.code = x.code /\ y.out = x.out
      BY <1>2, <2>0, <3>1, <3>2, OrphanOK
    <3>4. Local(y) = Local(x)
      <4>1. x \in Proc
        BY <1>2, <2>0, <3>1 DEF ProcOK
      <4> QED BY <3>2, <4>1 DEF Local, Orphan, Proc
    <3>5. Right(q, y, R[q], B[q]) /\ LinkOf(y, G, R)
      BY <2>0, <3>1, <3>3, <3>4 DEF Right, LinkOf
    <3> QED BY <2>4, <3>1, <3>2, <3>5
  <2> QED BY <1>1, <2>0, <2>1, <2>2, <2>3, <2>4
<1> QED BY <1>6 DEF Good, u
-----------------------------------------------------------------------------
(* What the steps keep: the table of processes is well formed, clean if no *)
(* fork has failed yet (N more may), and on the way to the right result of *)
(* line l, which began with e, if none has failed since (unless F).        *)

Kept(t, N, l, e, F) ==
  Struct(t) /\ (N = MaxForkFailures => Clean(t)) /\ (~ F => Results(t, l, e))

\* The process x may become y.
MayBecome(p, x, y) ==
  /\ \A c, e : Right(p, x, c, e) => Right(p, y, c, e)
  /\ \A G, R : LinkOf(x, G, R) => LinkOf(y, G, R)

HeldStays(x, y) == x.held = HeldBy(x) => y.held = HeldBy(y)

LEMMA KeepLocal ==
  ASSUME NEW t, NEW N, NEW l, NEW e, NEW F, Kept(t, N, l, e, F),
         NEW p \in Pids, NEW y, ProcOK(y),
         t[p].state = "running", y.state = "running", y.parent = t[p].parent,
         Reg(y) = Reg(t[p]), p = SHELL => t[p].stack # <<>> /\ ShellOK(y),
         HeldStays(t[p], y), MayBecome(p, t[p], y)
  PROVE  Kept([t EXCEPT ![p] = y], N, l, e, F)
<1> DEFINE u == [t EXCEPT ![p] = y]
<1>1. t \in Table /\ Struct(t)
  BY DEF Kept, Struct
<1>2. Struct(u)
  BY <1>1, LocalStep
<1>3. ASSUME N = MaxForkFailures PROVE Clean(u)
  <2>1. Clean(t) /\ t[p].held = HeldBy(t[p])
    BY <1>3 DEF Kept, Clean
  <2>2. y.held = HeldBy(y)
    BY <2>1 DEF HeldStays
  <2> QED BY <1>1, <2>1, <2>2, CleanLocal
<1>4. ASSUME ~ F PROVE Results(u, l, e)
  <2>1. Results(t, l, e)
    BY <1>4 DEF Kept
  <2>2. CASE l = 0
    <3>1. p # SHELL
      BY <2>1, <2>2 DEF Results
    <3>2. u[SHELL] = t[SHELL]
      BY <1>1, <3>1, PidFacts DEF Table
    <3> HIDE DEF u
    <3> QED BY <2>1, <2>2, <3>2 DEF Results
  <2>3. CASE l # 0
    <3>1. PICK G, R, B : Good(t, G, R, B, l, e)
      BY <2>1, <2>3 DEF Results
    <3>2. p \in G => Right(p, y, R[p], B[p]) /\ LinkOf(y, G, R)
      BY <3>1 DEF Good, MayBecome
    <3>3. Good(u, G, R, B, l, e)
      BY <1>1, <3>1, <3>2, GoodLocal
    <3> HIDE DEF u
    <3> QED BY <2>3, <3>3 DEF Results
  <2> QED BY <2>2, <2>3
<1> QED BY <1>2, <1>3, <1>4 DEF Kept

\* What the wait of process p for q and the exit of p must not spoil.
WaitMay(t, p, q, y, l, e) ==
  \A G, R, B : Good(t, G, R, B, l, e) /\ p \in G =>
                 Right(p, y, R[p], B[p]) /\ LinkOf(y, G \ {q}, R)

ExitMay(t, p, code, l, e) ==
  /\ \A G, R, B : Good(t, G, R, B, l, e) /\ p \in G =>
                    code = CodeOf(p, R[p])
  /\ p = SHELL /\ l = 0 /\ t[p].stack = <<>> => code = 0

LEMMA KeepWait ==
  ASSUME NEW t, NEW N, NEW l, NEW e, NEW F, Kept(t, N, l, e, F),
         NEW p \in Pids, NEW q \in Reg(t[p]), NEW y, ProcOK(y),
         t[p].state = "running", t[q].state = "zombie",
         y.state = "running", y.parent = t[p].parent,
         Reg(y) = Reg(t[p]) \ {q}, p = SHELL => t[p].stack # <<>> /\ ShellOK(y),
         HeldStays(t[p], y), WaitMay(t, p, q, y, l, e)
  PROVE  Kept(WaitTable(t, p, q, y), N, l, e, F)
<1> DEFINE u == WaitTable(t, p, q, y)
<1>1. t \in Table /\ Struct(t)
  BY DEF Kept, Struct
<1>2. /\ Struct(u) /\ q \in Pids \ {p, SHELL} /\ u[p] = y /\ u[q] = Unused
      /\ \A r \in Pids \ {p, q} : u[r] = t[r]
  BY <1>1, WaitStep
<1> HIDE DEF u
<1>3. ASSUME N = MaxForkFailures PROVE Clean(u)
  <2>1. Clean(t) /\ t[p].held = HeldBy(t[p])
    BY <1>3 DEF Kept, Clean
  <2>2. y.held = HeldBy(y) /\ t[q].parent = p
    BY <1>1, <2>1 DEF HeldStays, Struct, Tree
  <2>3. /\ u[p].state = t[p].state /\ u[p].parent = t[p].parent
        /\ Reg(u[p]) = Reg(t[p]) \ {q} /\ u[p].held = HeldBy(u[p])
    BY <1>2, <2>2
  <2> QED BY <1>1, <1>2, <2>1, <2>2, <2>3, CleanWait
<1>4. ASSUME ~ F PROVE Results(u, l, e)
  <2>1. Results(t, l, e)
    BY <1>4 DEF Kept
  <2>2. CASE l = 0
    <3>1. p # SHELL
      BY <2>1, <2>2 DEF Results
    <3>2. u[SHELL] = t[SHELL]
      BY <1>2, <3>1, PidFacts
    <3> QED BY <2>1, <2>2, <3>2 DEF Results
  <2>3. CASE l # 0
    <3>1. PICK G, R, B : Good(t, G, R, B, l, e)
      BY <2>1, <2>3 DEF Results
    <3>2. p \in G => Right(p, u[p], R[p], B[p]) /\ LinkOf(u[p], G \ {q}, R)
      BY <1>2, <3>1 DEF WaitMay
    <3>3. Good(u, G \ {q}, R, B, l, e)
      BY <1>1, <1>2, <3>1, <3>2, GoodWait
    <3> QED BY <2>3, <3>3 DEF Results
  <2> QED BY <2>2, <2>3
<1> QED BY <1>2, <1>3, <1>4 DEF Kept, u

LEMMA KeepExit ==
  ASSUME NEW t, NEW N, NEW l, NEW e, NEW F, Kept(t, N, l, e, F),
         NEW p \in Pids, NEW code \in Code,
         t[p].state = "running", Reg(t[p]) = {}, ExitMay(t, p, code, l, e)
  PROVE  Kept(ExitTable(t, p, code), N, l, e, F)
<1> DEFINE u == ExitTable(t, p, code)
<1>1. t \in Table /\ Struct(t)
  BY DEF Kept, Struct
<1>2. Struct(u)
  BY <1>1, ExitStep
<1>3. ASSUME N = MaxForkFailures PROVE Clean(u)
  BY <1>1, <1>3, CleanExit DEF Kept
<1>4. ASSUME ~ F PROVE Results(u, l, e)
  <2>1. Results(t, l, e)
    BY <1>4 DEF Kept
  <2>2. CASE l = 0
    <3>1. /\ p = SHELL => u[SHELL] = Dead(t[SHELL], code)
          /\ p # SHELL => u[SHELL] = t[SHELL]
      <4>1. t[SHELL].parent = NoPid
        BY <1>1 DEF Struct, ShellOK
      <4> QED BY <4>1, ExitRows, PidFacts
    <3>2. p = SHELL => u[SHELL].stack = <<>> /\ u[SHELL].code = code
      BY <1>1, <3>1, DeadOK, PidFacts DEF Struct
    <3> HIDE DEF u
    <3> QED BY <2>1, <2>2, <3>1, <3>2 DEF Results, ExitMay
  <2>3. CASE l # 0
    <3>1. PICK G, R, B : Good(t, G, R, B, l, e)
      BY <2>1, <2>3 DEF Results
    <3>2. p \in G => code = CodeOf(p, R[p])
      BY <3>1 DEF ExitMay
    <3>3. Good(u, G, R, B, l, e)
      BY <1>1, <3>1, <3>2, GoodExit
    <3> HIDE DEF u
    <3> QED BY <2>3, <3>3 DEF Results
  <2> QED BY <2>2, <2>3
<1> QED BY <1>2, <1>3, <1>4 DEF Kept

-----------------------------------------------------------------------------
(* What becomes of a process when its innermost call returns, goes on, or  *)
(* calls parse_command.                                                    *)

Alike(x, y) == y.state = x.state /\ y.parent = x.parent /\ y.prog = x.prog

LEMMA Popped ==
  ASSUME NEW x, ProcOK(x), x.state = "running", x.stack # <<>>,
         NEW y \in Proc, Alike(x, y), y.out = x.out, y.stack = Tail(x.stack)
  PROVE  /\ ProcOK(y) /\ Reg(y) = {} /\ HeldBy(y) = {}
         /\ ShellOK(x) => ShellOK(y)
         /\ \A G, R : LinkOf(y, G, R)
         /\ \A p, c, e : Right(p, x, c, e) /\ y.ret = Outcome[x.stack[1].cmd]
                         /\ Finished(x.stack[1], Local(x), Local(y)) => Right(p, y, c, e)
<1>1. PICK s : s = x.stack
  OBVIOUS
<1>2. StackOK(s) /\ s # <<>>
  BY <1>1 DEF ProcOK
<1>3. PICK w : w = Tail(s)
  OBVIOUS
<1>4. /\ StackOK(w) /\ Len(w) = Len(s) - 1
      /\ \A i \in 1 .. (Len(s) - 1) : w[i] = s[i + 1]
      /\ w # <<>> => Len(s) > 1 /\ w[1] = s[2] /\ s[2].pc \in BelowPC
  BY <1>2, <1>3, StackPop
<1>5. y.stack = w /\ y.state = "running" /\ x.prog = NoProgram /\ y.prog = NoProgram
  BY <1>1, <1>3 DEF Alike, ProcOK
<1>6. ProcOK(y)
  BY <1>4, <1>5 DEF ProcOK
<1>7. w # <<>> => w[1].pc \in BelowPC
  BY <1>4
<1>8. Reg(y) = {}
  BY <1>5, <1>7 DEF Reg, BelowPC
<1>9. HeldBy(y) = {}
  BY <1>5, <1>7 DEF HeldBy, Piping, BelowPC
<1>10. ASSUME ShellOK(x) PROVE ShellOK(y)
  <2>1. Len(s) \in Nat \ {0}
    BY <1>2 DEF StackOK
  <2>2. \A i \in 1 .. Len(w) : i \in 1 .. (Len(s) - 1) /\ i + 1 \in 1 .. Len(s)
    BY <1>4, <2>1
  <2> QED BY <1>1, <1>4, <1>5, <1>10, <2>2 DEF ShellOK, Alike
<1>11. \A G, R : LinkOf(y, G, R)
  BY <1>5, <1>7 DEF LinkOf, BelowPC
<1>12. ASSUME NEW p, NEW c, NEW e, Right(p, x, c, e), y.ret = Outcome[x.stack[1].cmd],
              Finished(x.stack[1], Local(x), Local(y))
       PROVE  Right(p, y, c, e)
  <2>1. OnWay(s, x.ret, Local(x), c, e) /\ Finished(s[1], Local(x), Local(y))
        /\ y.ret = Outcome[s[1].cmd]
    BY <1>1, <1>12 DEF Right
  <2>2. /\ w # <<>> => OnWay(w, y.ret, Local(y), c, e)
        /\ w = <<>> => s[1].cmd = c /\ Local(y) = Apply(c, e)
    BY <1>2, <1>3, <2>1, WayPop
  <2>3. y.out = NoPipe
    BY <1>12 DEF Right
  <2>4. w # <<>> => w[1].pc \notin {"cd child", "write end"}
    BY <1>7 DEF BelowPC
  <2> QED BY <1>5, <2>1, <2>2, <2>3, <2>4 DEF Right
<1> QED BY <1>6, <1>8, <1>9, <1>10, <1>11, <1>12

LEMMA Moved ==
  ASSUME NEW x, ProcOK(x), x.state = "running", x.stack # <<>>,
         NEW f \in Frame, FrameOK(f), f.pc \notin ChildPC,
         NEW y \in Proc, Alike(x, y), y.stack = <<f>> \o Tail(x.stack)
  PROVE  /\ ProcOK(y) /\ y.stack # <<>> /\ y.stack[1] = f
         /\ ShellOK(x) /\ y.out = x.out => ShellOK(y)
         /\ \A p, c, e : Right(p, x, c, e) /\ x.stack[1].pc \notin BelowPC /\ f.pc \notin BelowPC
                         /\ f.cmd = x.stack[1].cmd /\ y.out = x.out /\ Local(y) = Local(x)
                           => Right(p, y, c, e)
<1>1. PICK s : s = x.stack
  OBVIOUS
<1>2. StackOK(s) /\ s # <<>> /\ f.pc # "exec"
  BY <1>1 DEF ProcOK, ChildPC
<1>3. PICK w : w = <<f>> \o Tail(s)
  OBVIOUS
<1>4. /\ StackOK(w) /\ w # <<>> /\ Len(w) = Len(s) /\ w[1] = f
      /\ \A i \in 2 .. Len(s) : w[i] = s[i]
  BY <1>2, <1>3, StackNext
<1>5. y.stack = w /\ y.state = "running" /\ x.prog = NoProgram /\ y.prog = NoProgram
  BY <1>1, <1>3 DEF Alike, ProcOK
<1>6. ProcOK(y)
  BY <1>4, <1>5 DEF ProcOK
<1>7. ASSUME ShellOK(x), y.out = x.out PROVE ShellOK(y)
  <2>1. Len(s) \in Nat \ {0}
    BY <1>2 DEF StackOK
  <2>2. \A i \in 1 .. Len(w) : i = 1 \/ i \in 2 .. Len(s)
    BY <1>4, <2>1
  <2> QED BY <1>1, <1>4, <1>5, <1>7, <2>2 DEF ShellOK, Alike
<1>8. ASSUME NEW p, NEW c, NEW e, Right(p, x, c, e), x.stack[1].pc \notin BelowPC,
             f.pc \notin BelowPC, f.cmd = x.stack[1].cmd, y.out = x.out, Local(y) = Local(x)
      PROVE  Right(p, y, c, e)
  <2>1. OnWay(s, x.ret, Local(x), c, e) /\ s[1].pc \notin BelowPC /\ f.cmd = s[1].cmd
    BY <1>1, <1>8 DEF Right
  <2>2. OnWay(w, y.ret, Local(x), c, e)
    BY <1>2, <1>3, <1>8, <2>1, WayNext
  <2>3. y.out = NoPipe /\ f.pc \notin {"cd child", "write end"}
    BY <1>8 DEF Right, ChildPC
  <2> QED BY <1>4, <1>5, <1>8, <2>2, <2>3 DEF Right
<1> QED BY <1>4, <1>5, <1>6, <1>7, <1>8

LEMMA Called ==
  ASSUME NEW x, ProcOK(x), x.state = "running", x.stack # <<>>,
         NEW f \in Frame, FrameOK(f), f.pc = "start",
         NEW g \in Frame, FrameOK(g), g.pc \in BelowPC,
         NEW y \in Proc, Alike(x, y), y.out = x.out, y.stack = <<f, g>> \o Tail(x.stack)
  PROVE  /\ ProcOK(y) /\ Reg(y) = {} /\ HeldBy(y) = {}
         /\ ShellOK(x) => ShellOK(y)
         /\ \A G, R : LinkOf(y, G, R)
         /\ \A p, c, e :
              /\ Right(p, x, c, e) /\ g.cmd = x.stack[1].cmd /\ Local(y) = Local(x)
              /\ Inside(g, f.cmd) /\ (Outcome[f.cmd] \in Final => Outcome[g.cmd] = Outcome[f.cmd])
              /\ \/ x.stack[1].pc \notin BelowPC /\ g.pc = "second"
                 \/ x.stack[1].pc = "second" /\ g.pc = "last"
              => Right(p, y, c, e)
<1>1. PICK s : s = x.stack
  OBVIOUS
<1>2. StackOK(s) /\ s # <<>> /\ f.pc # "exec"
  BY <1>1 DEF ProcOK
<1>3. PICK w : w = <<f, g>> \o Tail(s)
  OBVIOUS
<1>4. /\ StackOK(w) /\ w # <<>> /\ Len(w) = Len(s) + 1 /\ w[1] = f /\ w[2] = g
      /\ \A i \in 2 .. Len(s) : w[i + 1] = s[i]
  BY <1>2, <1>3, StackPush
<1>5. y.stack = w /\ y.state = "running" /\ x.prog = NoProgram /\ y.prog = NoProgram
  BY <1>1, <1>3 DEF Alike, ProcOK
<1>6. ProcOK(y)
  BY <1>4, <1>5 DEF ProcOK
<1>7. Reg(y) = {} /\ HeldBy(y) = {} /\ \A G, R : LinkOf(y, G, R)
  BY <1>4, <1>5 DEF Reg, HeldBy, Piping, LinkOf
<1>8. ASSUME ShellOK(x) PROVE ShellOK(y)
  <2>1. Len(s) \in Nat \ {0}
    BY <1>2 DEF StackOK
  <2>2. ASSUME NEW i \in 1 .. Len(w) PROVE w[i].pc \notin ChildPC
    <3>1. CASE i = 1
      BY <1>4, <3>1 DEF ChildPC
    <3>2. CASE i = 2
      BY <1>4, <3>2 DEF ChildPC, BelowPC
    <3>3. CASE i > 2
      <4>1. i - 1 \in 2 .. Len(s) /\ i - 1 \in 1 .. Len(s) /\ (i - 1) + 1 = i
        BY <1>4, <2>1, <3>3
      <4>2. w[i] = s[i - 1]
        BY <1>4, <4>1
      <4> QED BY <1>1, <1>8, <4>1, <4>2 DEF ShellOK
    <3> QED BY <1>4, <2>1, <3>1, <3>2, <3>3
  <2> QED BY <1>5, <1>8, <2>2 DEF ShellOK, Alike
<1>9. ASSUME NEW p, NEW c, NEW e, Right(p, x, c, e), g.cmd = x.stack[1].cmd,
             Local(y) = Local(x), Inside(g, f.cmd),
             Outcome[f.cmd] \in Final => Outcome[g.cmd] = Outcome[f.cmd],
             \/ x.stack[1].pc \notin BelowPC /\ g.pc = "second"
             \/ x.stack[1].pc = "second" /\ g.pc = "last"
      PROVE  Right(p, y, c, e)
  <2>1. /\ OnWay(s, x.ret, Local(x), c, e) /\ g.cmd = s[1].cmd
        /\ \/ s[1].pc \notin BelowPC /\ g.pc = "second"
           \/ s[1].pc = "second" /\ g.pc = "last"
    BY <1>1, <1>9 DEF Right
  <2>2. OnWay(w, y.ret, Local(x), c, e)
    BY <1>2, <1>3, <1>9, <2>1, WayPush
  <2>3. y.out = NoPipe
    BY <1>9 DEF Right
  <2> QED BY <1>4, <1>5, <1>9, <2>2, <2>3 DEF Right
<1> QED BY <1>6, <1>7, <1>8, <1>9

-----------------------------------------------------------------------------
(* The steps of one process.                                               *)

ReturnOf(x, v) == [x EXCEPT !.ret = v, !.stack = Tail(@)]

LEMMA Returned ==
  ASSUME NEW x, ProcOK(x), x.state = "running", x.stack # <<>>, NEW v \in Status
  PROVE  LET y == ReturnOf(x, v) IN
         /\ y \in Proc /\ Alike(x, y) /\ y.stack = Tail(x.stack) /\ y.ret = v
         /\ y.out = x.out /\ y.held = x.held /\ y.cwd = x.cwd /\ y.env = x.env
         /\ Local(y) = Local(x)
<1>1. x \in Proc /\ StackOK(x.stack)
  BY DEF ProcOK
<1>2. PICK s : s = Tail(x.stack)
  OBVIOUS
<1>3. s \in Stack
  BY <1>1, <1>2, StackPop DEF StackOK, Stack
<1>4. PICK w : w = [x EXCEPT !.ret = v]
  OBVIOUS
<1>5. /\ w \in Proc /\ w.ret = v /\ w.state = x.state /\ w.parent = x.parent
      /\ w.prog = x.prog /\ w.out = x.out /\ w.held = x.held /\ w.cwd = x.cwd /\ w.env = x.env
  BY <1>1, <1>4, SetRet
<1>6. PICK y : y = [w EXCEPT !.stack = s]
  OBVIOUS
<1>7. /\ y \in Proc /\ y.stack = s /\ y.ret = v /\ y.state = x.state /\ y.parent = x.parent
      /\ y.prog = x.prog /\ y.out = x.out /\ y.held = x.held /\ y.cwd = x.cwd /\ y.env = x.env
  BY <1>3, <1>5, <1>6, SetStack
<1>8. y = ReturnOf(x, v)
  BY <1>1, <1>2, <1>4, <1>6 DEF ReturnOf, Proc
<1> QED BY <1>2, <1>7, <1>8 DEF Alike, Local

\* The innermost call of p is at pc, for command c.
Runs(t, p, pc, c) ==
  /\ t[p].state = "running" /\ t[p].stack # <<>>
  /\ t[p].stack[1].pc = pc /\ t[p].stack[1].cmd = c

LEMMA TopFacts ==
  ASSUME NEW x, ProcOK(x), x.state = "running", x.stack # <<>>
  PROVE  /\ x \in Proc /\ x.stack[1] \in Frame /\ FrameOK(x.stack[1])
         /\ x.stack[1].cmd \in Commands /\ x.prog = NoProgram
         /\ Head(x.stack) = x.stack[1] /\ x.ret \in Status
         /\ ShellOK(x) => x.stack[1].pc \notin ChildPC
<1>1. x.stack \in Seq(Frame) /\ Len(x.stack) \in Nat \ {0} /\ x \in Proc /\ x.prog = NoProgram
  BY DEF ProcOK, StackOK
<1>2. 1 \in 1 .. Len(x.stack) /\ x.stack[1] \in Frame /\ Head(x.stack) = x.stack[1]
  BY <1>1
<1>3. FrameOK(x.stack[1])
  BY <1>2 DEF ProcOK, StackOK
<1>4. x.stack[1].cmd \in Commands
  BY <1>2 DEF Frame
<1>5. x.ret \in Status
  BY <1>1 DEF Proc
<1>6. ShellOK(x) => x.stack[1].pc \notin ChildPC
  BY <1>2 DEF ShellOK
<1> QED BY <1>1, <1>2, <1>3, <1>4, <1>5, <1>6

LEMMA KeptFacts ==
  ASSUME NEW t, NEW N, NEW l, NEW e, NEW F, Kept(t, N, l, e, F), NEW p \in Pids
  PROVE  /\ t \in Table /\ ProcOK(t[p]) /\ t[p] \in Proc
         /\ p = SHELL => ShellOK(t[p])
BY DEF Kept, Struct, ProcOK

\* A call that starts or awaits nobody returns.
EndsRight(p, x, y) ==
  \A c, e : Right(p, x, c, e) =>
              /\ y.ret = Outcome[x.stack[1].cmd]
              /\ Finished(x.stack[1], Local(x), Local(y))

LEMMA KeepPop ==
  ASSUME NEW t, NEW N, NEW l, NEW e, NEW F, Kept(t, N, l, e, F), NEW p \in Pids,
         t[p].state = "running", t[p].stack # <<>>,
         t[p].stack[1].pc \in {"start"} \cup BelowPC,
         NEW y \in Proc, Alike(t[p], y), y.out = t[p].out, y.held = t[p].held,
         y.stack = Tail(t[p].stack), EndsRight(p, t[p], y)
  PROVE  Kept([t EXCEPT ![p] = y], N, l, e, F)
<1>1. PICK x : x = t[p]
  OBVIOUS
<1>2. ProcOK(x) /\ (p = SHELL => ShellOK(x))
  BY <1>1, KeptFacts
<1>3. /\ x.state = "running" /\ x.stack # <<>> /\ Alike(x, y) /\ y.out = x.out
      /\ y.held = x.held /\ y.stack = Tail(x.stack) /\ EndsRight(p, x, y)
      /\ x.stack[1].pc \in {"start"} \cup BelowPC
  BY <1>1
<1>4. Reg(x) = {} /\ HeldBy(x) = {}
  BY <1>3 DEF Reg, HeldBy, Piping, BelowPC
<1>5. /\ ProcOK(y) /\ Reg(y) = {} /\ HeldBy(y) = {}
      /\ ShellOK(x) => ShellOK(y)
      /\ \A G, R : LinkOf(y, G, R)
      /\ \A c, b : Right(p, x, c, b) /\ y.ret = Outcome[x.stack[1].cmd]
                      /\ Finished(x.stack[1], Local(x), Local(y)) => Right(p, y, c, b)
  BY <1>2, <1>3, Popped
<1>6. MayBecome(p, x, y)
  BY <1>3, <1>5 DEF MayBecome, EndsRight
<1>7. HeldStays(x, y)
  BY <1>3, <1>4, <1>5 DEF HeldStays
<1>8. y.state = "running" /\ y.parent = x.parent
  BY <1>3 DEF Alike
<1> QED BY <1>1, <1>2, <1>3, <1>4, <1>5, <1>6, <1>7, <1>8, KeepLocal

LEMMA LocalPair == \A x : Pair(Local(x)) /\ Local(x).cwd = x.cwd /\ Local(x).env = x.env
BY DEF Pair, Local

LEMMA AssignKeeps ==
  ASSUME NEW t, NEW N, NEW l, NEW e, NEW F, Kept(t, N, l, e, F), NEW p \in Pids,
         NEW c, Runs(t, p, "start", c), Command[c].op = "NONE", Command[c].verb = "=",
         Command[c].arg \notin {NoName, NoValue}
  PROVE  Kept([t EXCEPT ![p] = [ReturnOf(t[p], 0) EXCEPT !.env = Command[c].arg]], N, l, e, F)
<1>1. PICK x : x = t[p]
  OBVIOUS
<1>2. /\ ProcOK(x) /\ x.state = "running" /\ x.stack # <<>>
      /\ x.stack[1].pc = "start" /\ x.stack[1].cmd = c /\ c \in Commands
  BY <1>1, KeptFacts, TopFacts DEF Runs
<1>3. PICK w : w = ReturnOf(x, 0)
  OBVIOUS
<1>4. /\ w \in Proc /\ Alike(x, w) /\ w.stack = Tail(x.stack) /\ w.ret = 0
      /\ w.out = x.out /\ w.held = x.held /\ w.cwd = x.cwd
  <2>1. 0 \in Status
    BY DEF Status
  <2> QED BY <1>2, <1>3, <2>1, Returned
<1>5. PICK y : y = [w EXCEPT !.env = Command[c].arg]
  OBVIOUS
<1>6. /\ y \in Proc /\ Alike(x, y) /\ y.stack = Tail(x.stack) /\ y.ret = 0
      /\ y.out = x.out /\ y.held = x.held /\ y.cwd = x.cwd /\ y.env = Command[c].arg
  <2>1. Command[c].arg \in Env
    BY <1>2 DEF Env
  <2> QED BY <1>4, <1>5, <2>1, SetEnv DEF Alike
<1>7. Local(y) = Apply(c, Local(x)) /\ Outcome[c] = 0
  BY <1>2, <1>6, ApplySimple, SimpleMeans, LocalPair DEF Local
<1>8. EndsRight(p, x, y)
  BY <1>2, <1>6, <1>7 DEF EndsRight, Finished, BelowPC
<1>9. Kept([t EXCEPT ![p] = y], N, l, e, F)
  BY <1>1, <1>2, <1>6, <1>8, KeepPop
<1> QED BY <1>1, <1>3, <1>5, <1>9

LEMMA AssignFailsKeeps ==
  ASSUME NEW t, NEW N, NEW l, NEW e, NEW F, Kept(t, N, l, e, F), NEW p \in Pids,
         NEW c, Runs(t, p, "start", c), Command[c].op = "NONE", Command[c].verb = "=",
         Command[c].arg = NoName
  PROVE  Kept([t EXCEPT ![p] = ReturnOf(t[p], -1)], N, l, e, F)
<1>1. PICK x, y : x = t[p] /\ y = ReturnOf(x, -1)
  OBVIOUS
<1>2. /\ ProcOK(x) /\ x.state = "running" /\ x.stack # <<>>
      /\ x.stack[1].pc = "start" /\ x.stack[1].cmd = c /\ c \in Commands
  BY <1>1, KeptFacts, TopFacts DEF Runs
<1>3. -1 \in Status
  BY DEF Status
<1>4. /\ y \in Proc /\ Alike(x, y) /\ y.stack = Tail(x.stack) /\ y.ret = -1
      /\ y.out = x.out /\ y.held = x.held /\ Local(y) = Local(x)
  BY <1>1, <1>2, <1>3, Returned
<1>5. Outcome[c] = -1
  BY <1>2, SimpleMeans DEF NoName, NoValue
<1>6. Local(y) = Apply(c, Local(x))
  BY <1>2, <1>4, ApplySimple, LocalPair DEF Local
<1>7. EndsRight(p, x, y)
  BY <1>2, <1>4, <1>5, <1>6 DEF EndsRight, Finished, BelowPC
<1>8. Kept([t EXCEPT ![p] = y], N, l, e, F)
  BY <1>1, <1>2, <1>4, <1>7, KeepPop
<1> QED BY <1>1, <1>8

\* fork fails: what follows is promised no more.
LEMMA FailKeeps ==
  ASSUME NEW t, NEW N, NEW l, NEW e, NEW F, Kept(t, N, l, e, F), NEW p \in Pids,
         t[p].state = "running", t[p].stack # <<>>, NEW v \in Status,
         NEW M, M # MaxForkFailures
  PROVE  Kept([t EXCEPT ![p] = ReturnOf(t[p], v)], M, l, e, TRUE)
<1>1. PICK x, y : x = t[p] /\ y = ReturnOf(x, v)
  OBVIOUS
<1>2. ProcOK(x) /\ (p = SHELL => ShellOK(x)) /\ x.state = "running" /\ x.stack # <<>>
  BY <1>1, KeptFacts
<1>3. /\ y \in Proc /\ Alike(x, y) /\ y.stack = Tail(x.stack) /\ y.out = x.out
  BY <1>1, <1>2, Returned
<1>4. ProcOK(y) /\ Reg(y) = {} /\ (ShellOK(x) => ShellOK(y))
  BY <1>2, <1>3, Popped
<1>5. y.state = "running" /\ y.parent = x.parent
  BY <1>2, <1>3 DEF Alike
<1>6. Struct(t)
  BY DEF Kept
<1>7. Struct([t EXCEPT ![p] = y])
  BY <1>1, <1>2, <1>4, <1>5, <1>6, LocalStep
<1> QED BY <1>1, <1>7 DEF Kept

\* A call goes on with a call of parse_command.
CallOf(x, f, g) == [x EXCEPT !.stack = <<f, g>> \o Tail(@)]

LEMMA CallKeeps ==
  ASSUME NEW t, NEW N, NEW l, NEW e, NEW F, Kept(t, N, l, e, F), NEW p \in Pids,
         t[p].state = "running", t[p].stack # <<>>,
         NEW f \in Frame, FrameOK(f), f.pc = "start",
         NEW g \in Frame, FrameOK(g), g.cmd = t[p].stack[1].cmd,
         \/ t[p].stack[1].pc = "start" /\ g.pc = "second"
         \/ t[p].stack[1].pc = "second" /\ g.pc = "last",
         \A c, b : Right(p, t[p], c, b) =>
           Inside(g, f.cmd) /\ (Outcome[f.cmd] \in Final => Outcome[g.cmd] = Outcome[f.cmd])
  PROVE  Kept([t EXCEPT ![p] = CallOf(t[p], f, g)], N, l, e, F)
<1>1. PICK x, y : x = t[p] /\ y = CallOf(x, f, g)
  OBVIOUS
<1>2. ProcOK(x) /\ (p = SHELL => ShellOK(x)) /\ x.state = "running" /\ x.stack # <<>>
  BY <1>1, KeptFacts
<1>3. PICK s : s = <<f, g>> \o Tail(x.stack)
  OBVIOUS
<1>4. g.pc \in BelowPC
  BY DEF BelowPC
<1>5. s \in Stack
  <2>1. StackOK(x.stack) /\ f.pc # "exec"
    BY <1>2 DEF ProcOK
  <2>2. StackOK(s)
    BY <1>2, <1>3, <1>4, <2>1, StackPush
  <2> QED BY <2>2 DEF StackOK, Stack
<1>6. /\ y \in Proc /\ y.stack = s /\ Alike(x, y) /\ y.out = x.out /\ y.held = x.held
      /\ y.cwd = x.cwd /\ y.env = x.env
  <2>1. y = [x EXCEPT !.stack = s] /\ x \in Proc
    BY <1>1, <1>2, <1>3 DEF CallOf, ProcOK
  <2> QED BY <1>5, <2>1, SetStack DEF Alike
<1>7. Local(y) = Local(x)
  BY <1>6 DEF Local
<1>8. /\ ProcOK(y) /\ Reg(y) = {} /\ HeldBy(y) = {}
      /\ ShellOK(x) => ShellOK(y)
      /\ \A G, R : LinkOf(y, G, R)
      /\ \A c, b :
           /\ Right(p, x, c, b) /\ g.cmd = x.stack[1].cmd /\ Local(y) = Local(x)
           /\ Inside(g, f.cmd) /\ (Outcome[f.cmd] \in Final => Outcome[g.cmd] = Outcome[f.cmd])
           /\ \/ x.stack[1].pc \notin BelowPC /\ g.pc = "second"
              \/ x.stack[1].pc = "second" /\ g.pc = "last"
           => Right(p, y, c, b)
  BY <1>2, <1>3, <1>4, <1>6, Called
<1>9. MayBecome(p, x, y)
  BY <1>1, <1>7, <1>8 DEF MayBecome, BelowPC
<1>10. Reg(x) = {} /\ HeldBy(x) = {}
  BY <1>1, <1>2 DEF Reg, HeldBy, Piping
<1>11. HeldStays(x, y)
  BY <1>6, <1>8, <1>10 DEF HeldStays
<1>12. y.state = "running" /\ y.parent = x.parent
  BY <1>2, <1>6 DEF Alike
<1>13. Kept([t EXCEPT ![p] = y], N, l, e, F)
  BY <1>1, <1>2, <1>8, <1>9, <1>10, <1>11, <1>12, KeepLocal
<1> QED BY <1>1, <1>13

\* A call at another place, and a new one.
LEMMA FrameAt ==
  ASSUME NEW f \in Frame, NEW pc \in PC
  PROVE  LET g == [f EXCEPT !.pc = pc] IN
         /\ g \in Frame /\ g.pc = pc /\ g.cmd = f.cmd
         /\ g.pid1 = f.pid1 /\ g.pid2 = f.pid2 /\ g.pipefd = f.pipefd
BY DEF Frame

LEMMA CallIs ==
  ASSUME NEW c \in Commands, NEW pc \in PC
  PROVE  LET g == Call(c, pc) IN
         /\ g \in Frame /\ g.pc = pc /\ g.cmd = c
         /\ g.pid1 = NoPid /\ g.pid2 = NoPid /\ g.pipefd = NoPipe
BY DEF Call, Frame, MaybePid, NoPipe

LEMMA FirstKeeps ==
  ASSUME NEW t, NEW N, NEW l, NEW e, NEW F, Kept(t, N, l, e, F), NEW p \in Pids,
         NEW c, Runs(t, p, "start", c),
         Command[c].op \in {"SEQUENTIAL", "CONDITIONAL_ZERO", "CONDITIONAL_NZERO"}
  PROVE  Kept([t EXCEPT ![p] = CallOf(t[p], Call(Command[c].cmd1, "start"),
                                      [t[p].stack[1] EXCEPT !.pc = "second"])], N, l, e, F)
<1>1. /\ t[p].state = "running" /\ t[p].stack # <<>> /\ t[p].stack[1] \in Frame
      /\ t[p].stack[1].pc = "start" /\ t[p].stack[1].cmd = c /\ c \in Commands
  BY KeptFacts, TopFacts DEF Runs
<1>2. "start" \in PC /\ "second" \in PC
  BY DEF PC, BelowPC
<1>3. PICK d : d = Command[c].cmd1
  OBVIOUS
<1>4. d \in Commands /\ (Outcome[d] \in Final => Outcome[c] = Outcome[d])
  BY <1>1, <1>3, OperatorMeans
<1>5. PICK f, g : f = Call(d, "start") /\ g = [t[p].stack[1] EXCEPT !.pc = "second"]
  OBVIOUS
<1>6. f \in Frame /\ f.pc = "start" /\ f.cmd = d
  BY <1>2, <1>4, <1>5, CallIs
<1>7. g \in Frame /\ g.pc = "second" /\ g.cmd = c
  BY <1>1, <1>2, <1>5, FrameAt
<1>8. FrameOK(f) /\ FrameOK(g)
  BY <1>6, <1>7 DEF FrameOK, BelowPC
<1>9. Inside(g, f.cmd)
  BY <1>3, <1>6, <1>7 DEF Inside
<1>10. Kept([t EXCEPT ![p] = CallOf(t[p], f, g)], N, l, e, F)
  BY <1>1, <1>4, <1>6, <1>7, <1>8, <1>9, CallKeeps
<1> QED BY <1>3, <1>5, <1>10

LEMMA StatusFacts ==
  \A v \in Status : v \notin Final /\ StatusOf(v) = v % 256 /\ v % 256 \in Code /\ v % 256 # Killed
<1> TAKE v \in Status
<1>1. v \in Int /\ -1 <= v /\ v <= 255
  BY DEF Status
<1>2. v # 1000 /\ v # 1001 /\ v % 256 \in 0 .. 255
  BY <1>1
<1>3. v # Exits /\ v # Dies
  BY <1>2 DEF Exits, Dies
<1> QED BY <1>2, <1>3 DEF Final, StatusOf, ExitCode, Code, Killed

\* What Right says of a process whose first command has returned.
LEMMA SecondIs ==
  ASSUME NEW x, ProcOK(x), x.state = "running", x.stack # <<>>, x.stack[1].pc = "second",
         NEW p, NEW c, NEW e, Right(p, x, c, e)
  PROVE  LET d == x.stack[1].cmd IN
         /\ x.ret = Outcome[Command[d].cmd1] /\ x.ret \notin Final
         /\ GoesOn(Command[d].op, x.ret) =>
              Outcome[d] = Outcome[Command[d].cmd2] /\ Chain(d, Command[d].cmd1, Command[d].cmd2)
         /\ ~ GoesOn(Command[d].op, x.ret) =>
              Outcome[d] = x.ret /\ Executed[d] = Executed[Command[d].cmd1]
<1>1. x.ret \in Status /\ x.stack[1].cmd \in Commands /\ FrameOK(x.stack[1])
  BY TopFacts
<1>2. x.ret \notin Final
  BY <1>1, StatusFacts
<1>3. RightStack(x.stack, x.ret, c)
  BY DEF Right, OnWay
<1>4. x.ret = Outcome[Command[x.stack[1].cmd].cmd1]
  BY <1>3 DEF RightStack
<1>5. Command[x.stack[1].cmd].op \in {"SEQUENTIAL", "CONDITIONAL_ZERO", "CONDITIONAL_NZERO"}
  BY <1>1 DEF FrameOK, BelowPC
<1> QED BY <1>1, <1>2, <1>4, <1>5, OperatorMeans DEF Chain

LEMMA SecondKeeps ==
  ASSUME NEW t, NEW N, NEW l, NEW e, NEW F, Kept(t, N, l, e, F), NEW p \in Pids,
         NEW c, Runs(t, p, "second", c)
  PROVE  Kept([t EXCEPT ![p] = IF GoesOn(Command[c].op, t[p].ret)
                               THEN CallOf(t[p], Call(Command[c].cmd2, "start"),
                                           [t[p].stack[1] EXCEPT !.pc = "last"])
                               ELSE ReturnOf(t[p], t[p].ret)], N, l, e, F)
<1>1. PICK x : x = t[p]
  OBVIOUS
<1>2. /\ ProcOK(x) /\ x.state = "running" /\ x.stack # <<>> /\ x.stack[1] \in Frame
      /\ x.stack[1].pc = "second" /\ x.stack[1].cmd = c /\ c \in Commands
      /\ x.ret \in Status /\ FrameOK(x.stack[1])
  BY <1>1, KeptFacts, TopFacts DEF Runs
<1>3. \A b, i : Right(p, x, b, i) =>
         /\ x.ret = Outcome[Command[c].cmd1] /\ x.ret \notin Final
         /\ GoesOn(Command[c].op, x.ret) =>
              Outcome[c] = Outcome[Command[c].cmd2] /\ Chain(c, Command[c].cmd1, Command[c].cmd2)
         /\ ~ GoesOn(Command[c].op, x.ret) =>
              Outcome[c] = x.ret /\ Executed[c] = Executed[Command[c].cmd1]
  BY <1>2, SecondIs
<1>4. CASE GoesOn(Command[c].op, x.ret)
  <2>1. "start" \in PC /\ "last" \in PC
    BY DEF PC, BelowPC
  <2>2. PICK d : d = Command[c].cmd2
    OBVIOUS
  <2>3. Command[c].op \in {"SEQUENTIAL", "CONDITIONAL_ZERO", "CONDITIONAL_NZERO"}
    BY <1>2 DEF FrameOK, BelowPC
  <2>4. d \in Commands
    BY <1>2, <2>2, <2>3, OperatorMeans
  <2>5. PICK f, g : f = Call(d, "start") /\ g = [x.stack[1] EXCEPT !.pc = "last"]
    OBVIOUS
  <2>6. f \in Frame /\ f.pc = "start" /\ f.cmd = d
    BY <2>1, <2>4, <2>5, CallIs
  <2>7. g \in Frame /\ g.pc = "last" /\ g.cmd = c
    BY <1>2, <2>1, <2>5, FrameAt
  <2>8. FrameOK(f) /\ FrameOK(g)
    BY <2>3, <2>6, <2>7 DEF FrameOK, BelowPC
  <2>9. \A b, i : Right(p, x, b, i) =>
          Inside(g, f.cmd) /\ (Outcome[f.cmd] \in Final => Outcome[g.cmd] = Outcome[f.cmd])
    BY <1>3, <1>4, <2>2, <2>6, <2>7 DEF Inside
  <2>10. Kept([t EXCEPT ![p] = CallOf(t[p], f, g)], N, l, e, F)
    BY <1>1, <1>2, <2>6, <2>7, <2>8, <2>9, CallKeeps
  <2> QED BY <1>1, <1>4, <2>2, <2>5, <2>10
<1>5. CASE ~ GoesOn(Command[c].op, x.ret)
  <2>1. PICK y : y = ReturnOf(x, x.ret)
    OBVIOUS
  <2>2. /\ y \in Proc /\ Alike(x, y) /\ y.stack = Tail(x.stack) /\ y.ret = x.ret
        /\ y.out = x.out /\ y.held = x.held /\ Local(y) = Local(x)
    BY <1>2, <2>1, Returned
  <2>3. EndsRight(p, x, y)
    BY <1>2, <1>3, <1>5, <2>2 DEF EndsRight, Finished
  <2>4. x.stack[1].pc \in {"start"} \cup BelowPC
    BY <1>2 DEF BelowPC
  <2>5. Kept([t EXCEPT ![p] = y], N, l, e, F)
    BY <1>1, <1>2, <2>2, <2>3, <2>4, KeepPop
  <2> QED BY <1>1, <1>5, <2>1, <2>5
<1> QED BY <1>4, <1>5

LEMMA LastKeeps ==
  ASSUME NEW t, NEW N, NEW l, NEW e, NEW F, Kept(t, N, l, e, F), NEW p \in Pids,
         NEW c, Runs(t, p, "last", c)
  PROVE  Kept([t EXCEPT ![p] = ReturnOf(t[p], t[p].ret)], N, l, e, F)
<1>1. PICK x, y : x = t[p] /\ y = ReturnOf(x, x.ret)
  OBVIOUS
<1>2. /\ ProcOK(x) /\ x.state = "running" /\ x.stack # <<>> /\ x.stack[1] \in Frame
      /\ x.stack[1].pc = "last" /\ x.ret \in Status
  BY <1>1, KeptFacts, TopFacts DEF Runs
<1>3. /\ y \in Proc /\ Alike(x, y) /\ y.stack = Tail(x.stack) /\ y.ret = x.ret
      /\ y.out = x.out /\ y.held = x.held /\ Local(y) = Local(x)
  BY <1>1, <1>2, Returned
<1>4. EndsRight(p, x, y)
  BY <1>2, <1>3 DEF EndsRight, Finished, Right, OnWay, RightStack
<1>5. x.stack[1].pc \in {"start"} \cup BelowPC
  BY <1>2 DEF BelowPC
<1>6. Kept([t EXCEPT ![p] = y], N, l, e, F)
  BY <1>1, <1>2, <1>3, <1>4, <1>5, KeepPop
<1> QED BY <1>1, <1>6

\* A program goes on.
LEMMA ProgramKeeps ==
  ASSUME NEW t, NEW N, NEW l, NEW e, NEW F, Kept(t, N, l, e, F), NEW p \in Pids,
         t[p].state = "running", t[p].prog # NoProgram, NEW v \in Nat
  PROVE  Kept([t EXCEPT ![p] = [t[p] EXCEPT !.items = v]], N, l, e, F)
<1>1. PICK x, y : x = t[p] /\ y = [x EXCEPT !.items = v]
  OBVIOUS
<1>2. ProcOK(x) /\ x \in Proc /\ x.state = "running" /\ p # SHELL
  BY <1>1, KeptFacts DEF ShellOK
<1>3. /\ y \in Proc /\ y.state = x.state /\ y.parent = x.parent /\ y.stack = x.stack
      /\ y.ret = x.ret /\ y.prog = x.prog /\ y.in = x.in /\ y.out = x.out
      /\ y.held = x.held /\ y.cwd = x.cwd /\ y.env = x.env /\ y.code = x.code
  BY <1>1, <1>2, SetItems
<1>4. ProcOK(y) /\ Reg(y) = Reg(x) /\ HeldBy(y) = HeldBy(x) /\ Local(y) = Local(x)
  BY <1>2, <1>3 DEF ProcOK, Reg, HeldBy, Local
<1>5. MayBecome(p, x, y)
  BY <1>3, <1>4 DEF MayBecome, Right, LinkOf
<1>6. HeldStays(x, y)
  BY <1>3, <1>4 DEF HeldStays
<1>7. Kept([t EXCEPT ![p] = y], N, l, e, F)
  BY <1>1, <1>2, <1>3, <1>4, <1>5, <1>6, KeepLocal
<1> QED BY <1>1, <1>7

\* A child begins to execute a program.
ExecOf(x, c) ==
  [x EXCEPT !.stack = <<>>, !.prog = c, !.items = Command[c].writes,
            !.in = Redirected(@, Command[c].in), !.out = Redirected(@, Command[c].out)]

LEMMA ExecKeeps ==
  ASSUME NEW t, NEW N, NEW l, NEW e, NEW F, Kept(t, N, l, e, F), NEW p \in Pids,
         NEW c, Runs(t, p, "exec", c)
  PROVE  Kept([t EXCEPT ![p] = ExecOf(t[p], c)], N, l, e, F)
<1>1. PICK x, y : x = t[p] /\ y = ExecOf(x, c)
  OBVIOUS
<1>2. /\ ProcOK(x) /\ x \in Proc /\ x.state = "running" /\ x.stack # <<>>
      /\ x.stack[1].pc = "exec" /\ x.stack[1].cmd = c /\ c \in Commands
      /\ FrameOK(x.stack[1]) /\ p # SHELL
  BY <1>1, KeptFacts, TopFacts DEF Runs, ChildPC
<1>3. Command[c].op = "NONE" /\ Command[c].verb = "run" /\ Command[c].writes \in Nat
  BY <1>2, NodeKinds DEF FrameOK
<1>4. x.in \in Nat /\ x.out \in Nat /\ NoPipe \in Nat
  BY <1>2 DEF Proc, NoPipe
<1>5. PICK i, o : i = Redirected(x.in, Command[c].in) /\ o = Redirected(x.out, Command[c].out)
  OBVIOUS
<1>6. i \in Nat /\ o \in Nat /\ (x.out = NoPipe => o = NoPipe)
  BY <1>4, <1>5 DEF Redirected
<1>7. <<>> \in Stack /\ c \in MaybeProgram
  BY <1>2 DEF Stack, MaybeProgram
<1>8. PICK a1 : a1 = [x EXCEPT !.stack = <<>>]
  OBVIOUS
<1>9. PICK a2 : a2 = [a1 EXCEPT !.prog = c]
  OBVIOUS
<1>10. PICK a3 : a3 = [a2 EXCEPT !.items = Command[c].writes]
  OBVIOUS
<1>11. PICK a4 : a4 = [a3 EXCEPT !.in = i]
  OBVIOUS
<1>12. PICK a5 : a5 = [a4 EXCEPT !.out = o]
  OBVIOUS
<1>13. a1 \in Proc /\ a1.state = x.state /\ a1.parent = x.parent /\ a1.stack = <<>>
       /\ a1.in = x.in /\ a1.out = x.out /\ a1.held = x.held
  BY <1>2, <1>7, <1>8, SetStack
<1>14. a2 \in Proc /\ a2.state = x.state /\ a2.parent = x.parent /\ a2.stack = <<>>
       /\ a2.prog = c /\ a2.in = x.in /\ a2.out = x.out /\ a2.held = x.held
  BY <1>7, <1>9, <1>13, SetProg
<1>15. a3 \in Proc /\ a3.state = x.state /\ a3.parent = x.parent /\ a3.stack = <<>>
       /\ a3.prog = c /\ a3.in = x.in /\ a3.out = x.out /\ a3.held = x.held
  BY <1>3, <1>10, <1>14, SetItems
<1>16. a4 \in Proc /\ a4.state = x.state /\ a4.parent = x.parent /\ a4.stack = <<>>
       /\ a4.prog = c /\ a4.out = x.out /\ a4.held = x.held
  BY <1>6, <1>11, <1>15, SetIn
<1>17. a5 \in Proc /\ a5.state = x.state /\ a5.parent = x.parent /\ a5.stack = <<>>
       /\ a5.prog = c /\ a5.out = o /\ a5.held = x.held
  BY <1>6, <1>12, <1>16, SetOut
<1>18. y = a5
  BY <1>1, <1>2, <1>5, <1>8, <1>9, <1>10, <1>11, <1>12 DEF ExecOf, Proc
<1>19. c # NoProgram
  BY <1>2, PidFacts
<1>20. StackOK(<<>>) /\ Len(<<>>) = 0
  BY UnusedOK DEF ProcOK, Unused
<1>21. ProcOK(y) /\ Reg(y) = {} /\ HeldBy(y) = {}
  BY <1>2, <1>3, <1>17, <1>18, <1>20 DEF ProcOK, Reg, HeldBy
<1>22. Reg(x) = {} /\ HeldBy(x) = {}
  BY <1>2 DEF Reg, HeldBy, Piping
<1>23. ASSUME NEW b, NEW j, Right(p, x, b, j) PROVE Right(p, y, b, j)
  <2>1. x.out = NoPipe /\ RightStack(x.stack, x.ret, b)
    BY <1>2, <1>23 DEF Right, OnWay
  <2>2. Len(x.stack) = 1
    BY <1>2 DEF ProcOK, StackOK
  <2>3. c = b
    BY <1>2, <2>1, <2>2 DEF RightStack
  <2> QED BY <1>2, <1>6, <1>17, <1>18, <1>19, <2>1, <2>3 DEF Right
<1>24. MayBecome(p, x, y)
  BY <1>17, <1>18, <1>23 DEF MayBecome, LinkOf
<1>25. HeldStays(x, y)
  BY <1>17, <1>18, <1>21, <1>22 DEF HeldStays
<1>26. Kept([t EXCEPT ![p] = y], N, l, e, F)
  BY <1>1, <1>2, <1>17, <1>18, <1>21, <1>22, <1>24, <1>25, KeepLocal
<1> QED BY <1>1, <1>26

\* A call of run_on_pipe goes on as f.
MovesOn(g, f) ==
  \/ g.pc = "start" /\ f.pc = "fork1"
  \/ g.pc \in {"write end", "read end"} /\ f.pc = "start"
  \/ g.pc = "close" /\ f.pc = "wait1" /\ f.pid1 = g.pid1 /\ f.pid2 = g.pid2

LEMMA MoveKeeps ==
  ASSUME NEW t, NEW N, NEW l, NEW e, NEW F, Kept(t, N, l, e, F), NEW p \in Pids,
         t[p].state = "running", t[p].stack # <<>>,
         NEW f \in Frame, FrameOK(f), f.cmd = t[p].stack[1].cmd, MovesOn(t[p].stack[1], f),
         NEW y \in Proc, Alike(t[p], y), y.stack = <<f>> \o Tail(t[p].stack),
         Local(y) = Local(t[p]),
         y.out = t[p].out \/ t[p].stack[1].pc = "write end", HeldStays(t[p], y)
  PROVE  Kept([t EXCEPT ![p] = y], N, l, e, F)
<1>1. PICK x : x = t[p]
  OBVIOUS
<1>2. /\ ProcOK(x) /\ (p = SHELL => ShellOK(x)) /\ x.state = "running" /\ x.stack # <<>>
      /\ Alike(x, y) /\ y.stack = <<f>> \o Tail(x.stack) /\ Local(y) = Local(x)
      /\ f.cmd = x.stack[1].cmd /\ MovesOn(x.stack[1], f)
      /\ (y.out = x.out \/ x.stack[1].pc = "write end")
  BY <1>1, KeptFacts
<1>3. f.pc \notin ChildPC /\ f.pc \notin BelowPC /\ x.stack[1].pc \notin BelowPC
  BY <1>2 DEF MovesOn, ChildPC, BelowPC
<1>4. /\ ProcOK(y) /\ y.stack # <<>> /\ y.stack[1] = f
      /\ ShellOK(x) /\ y.out = x.out => ShellOK(y)
      /\ \A c, b : Right(p, x, c, b) /\ x.stack[1].pc \notin BelowPC /\ f.pc \notin BelowPC
                   /\ f.cmd = x.stack[1].cmd /\ y.out = x.out /\ Local(y) = Local(x)
                     => Right(p, y, c, b)
  BY <1>2, <1>3, Moved
<1>5. y.state = "running" /\ y.parent = x.parent
  BY <1>2 DEF Alike
<1>6. Reg(y) = Reg(x)
  BY <1>2, <1>4, <1>5 DEF Reg, MovesOn
<1>7. p = SHELL => ShellOK(y)
  <2>1. p = SHELL => x.stack[1].pc # "write end"
    BY <1>2, TopFacts DEF ChildPC
  <2> QED BY <1>2, <1>4, <2>1
<1>8. \A c, b : Right(p, x, c, b) => x.stack[1].pc # "write end"
  BY <1>2 DEF Right
<1>9. \A c, b : Right(p, x, c, b) => Right(p, y, c, b)
  BY <1>2, <1>3, <1>4, <1>8
<1>10. \A G, R : LinkOf(x, G, R) => LinkOf(y, G, R)
  BY <1>2, <1>4, <1>5 DEF LinkOf, MovesOn
<1>11. MayBecome(p, x, y)
  BY <1>9, <1>10 DEF MayBecome
<1> QED BY <1>1, <1>2, <1>4, <1>5, <1>6, <1>7, <1>11, KeepLocal

LEMMA PipeKeeps ==
  ASSUME NEW t, NEW N, NEW l, NEW e, NEW F, Kept(t, N, l, e, F), NEW p \in Pids,
         NEW c, Runs(t, p, "start", c), Command[c].op = "PIPE", NEW i \in Nat
  PROVE  Kept([t EXCEPT ![p] = [Going(t[p], [t[p].stack[1] EXCEPT !.pc = "fork1", !.pipefd = i])
                                EXCEPT !.held = @ \cup {<<i, "r">>, <<i, "w">>}]], N, l, e, F)
<1>1. PICK x : x = t[p]
  OBVIOUS
<1>2. /\ ProcOK(x) /\ x.state = "running" /\ x.stack # <<>> /\ x.stack[1] \in Frame
      /\ x.stack[1].pc = "start" /\ x.stack[1].cmd = c /\ c \in Commands
  BY <1>1, KeptFacts, TopFacts DEF Runs
<1>3. PICK g : g = [x.stack[1] EXCEPT !.pc = "fork1"]
  OBVIOUS
<1>4. g \in Frame /\ g.pc = "fork1" /\ g.cmd = c
  BY <1>2, <1>3, FrameAt DEF PC
<1>5. PICK f : f = [g EXCEPT !.pipefd = i]
  OBVIOUS
<1>6. f \in Frame /\ f.pc = "fork1" /\ f.cmd = c /\ f.pipefd = i
  BY <1>4, <1>5 DEF Frame
<1>7. FrameOK(f)
  BY <1>6 DEF FrameOK, BelowPC
<1>8. f = [x.stack[1] EXCEPT !.pc = "fork1", !.pipefd = i]
  BY <1>2, <1>3, <1>5 DEF Frame
<1>9. PICK w : w = Going(x, f)
  OBVIOUS
<1>10. /\ ProcOK(w) /\ w.state = "running" /\ w.parent = x.parent
       /\ w.stack = <<f>> \o Tail(x.stack) /\ w.stack # <<>> /\ w.stack[1] = f
       /\ w.prog = NoProgram /\ w.out = x.out /\ w.held = x.held
       /\ w.cwd = x.cwd /\ w.env = x.env
  BY <1>2, <1>6, <1>7, <1>9, GoingIs
<1>11. PICK h : h = w.held \cup {<<i, "r">>, <<i, "w">>}
  OBVIOUS
<1>12. h \in Held
  <2>1. w.held \in Held
    BY <1>10 DEF ProcOK, Proc
  <2> QED BY <1>11, <2>1 DEF Held, End
<1>13. PICK y : y = [w EXCEPT !.held = h]
  OBVIOUS
<1>14. /\ y \in Proc /\ y.held = h /\ y.state = "running" /\ y.parent = x.parent
       /\ y.stack = <<f>> \o Tail(x.stack) /\ y.stack # <<>> /\ y.stack[1] = f
       /\ y.prog = NoProgram /\ y.out = x.out /\ y.cwd = x.cwd /\ y.env = x.env
  <2>1. w \in Proc
    BY <1>10 DEF ProcOK
  <2> QED BY <1>10, <1>12, <1>13, <2>1, SetHeld
<1>15. Alike(x, y) /\ Local(y) = Local(x)
  BY <1>2, <1>14, TopFacts DEF Alike, Local
<1>16. HeldStays(x, y)
  <2>1. HeldBy(x) = {}
    BY <1>2 DEF HeldBy, Piping
  <2>2. HeldBy(y) = {<<i, "r">>, <<i, "w">>}
    BY <1>6, <1>14 DEF HeldBy, Piping, EndsOf
  <2> QED BY <1>10, <1>11, <1>14, <2>1, <2>2 DEF HeldStays
<1>17. MovesOn(x.stack[1], f)
  BY <1>2, <1>6 DEF MovesOn
<1>18. Kept([t EXCEPT ![p] = y], N, l, e, F)
  BY <1>1, <1>2, <1>6, <1>7, <1>14, <1>15, <1>16, <1>17, MoveKeeps
<1> QED BY <1>1, <1>8, <1>9, <1>11, <1>13, <1>18

\* The ends of the pipe are closed, by the parent or by a child.
AfterClosing(a, b) ==
  \/ a = "close" /\ b = "wait1"
  \/ a \in {"write end", "read end"} /\ b = "start"

Closes(x, f) == [Going(x, f) EXCEPT !.held = @ \ EndsOf(x.stack[1])]

LEMMA ClosesIs ==
  ASSUME NEW x, ProcOK(x), x.state = "running", x.stack # <<>>,
         NEW pc, AfterClosing(x.stack[1].pc, pc)
  PROVE  LET f == [x.stack[1] EXCEPT !.pc = pc]
             y == Closes(x, f)
         IN  /\ f \in Frame /\ FrameOK(f) /\ f.cmd = x.stack[1].cmd /\ MovesOn(x.stack[1], f)
             /\ y \in Proc /\ Alike(x, y) /\ y.stack = <<f>> \o Tail(x.stack)
             /\ Local(y) = Local(x) /\ y.out = x.out /\ HeldStays(x, y)
             /\ y.state = "running" /\ y.stack # <<>> /\ y.stack[1] = f
<1>1. x.stack[1] \in Frame /\ FrameOK(x.stack[1]) /\ x.prog = NoProgram
  BY TopFacts
<1>2. PICK g, f : g = x.stack[1] /\ f = [g EXCEPT !.pc = pc]
  OBVIOUS
<1>3. pc \in PC
  BY DEF PC, AfterClosing
<1>4. /\ f \in Frame /\ f.pc = pc /\ f.cmd = g.cmd /\ f.pid1 = g.pid1 /\ f.pid2 = g.pid2
      /\ f.pipefd = g.pipefd
  <2>1. g \in Frame
    BY <1>1, <1>2
  <2> QED BY <1>2, <1>3, <2>1, FrameAt
<1>5. FrameOK(f) /\ f.pc # "exec" /\ MovesOn(g, f)
  <2>1. FrameOK(g)
    BY <1>1, <1>2
  <2>2. CASE g.pc = "close"
    <3>1. f.pc = "wait1"
      BY <1>2, <1>4, <2>2 DEF AfterClosing
    <3> QED BY <1>4, <2>1, <2>2, <3>1 DEF FrameOK, BelowPC, MovesOn
  <2>3. CASE g.pc \in {"write end", "read end"}
    <3>1. f.pc = "start"
      BY <1>2, <1>4, <2>3 DEF AfterClosing
    <3> QED BY <1>4, <2>3, <3>1 DEF FrameOK, BelowPC, MovesOn
  <2> QED BY <1>2, <2>2, <2>3 DEF AfterClosing
<1>6. PICK w : w = Going(x, f)
  OBVIOUS
<1>7. /\ ProcOK(w) /\ w.state = "running" /\ w.parent = x.parent
      /\ w.stack = <<f>> \o Tail(x.stack) /\ w.stack # <<>> /\ w.stack[1] = f
      /\ w.prog = NoProgram /\ w.out = x.out /\ w.held = x.held
      /\ w.cwd = x.cwd /\ w.env = x.env
  BY <1>4, <1>5, <1>6, GoingIs
<1>8. PICK h : h = w.held \ EndsOf(g)
  OBVIOUS
<1>9. h \in Held
  <2>1. w.held \in Held
    BY <1>7 DEF ProcOK, Proc
  <2> QED BY <1>8, <2>1 DEF Held
<1>10. PICK y : y = [w EXCEPT !.held = h]
  OBVIOUS
<1>11. /\ y \in Proc /\ y.held = h /\ y.state = "running" /\ y.parent = x.parent
       /\ y.stack = <<f>> \o Tail(x.stack) /\ y.stack # <<>> /\ y.stack[1] = f
       /\ y.prog = NoProgram /\ y.out = x.out /\ y.cwd = x.cwd /\ y.env = x.env
  <2>1. w \in Proc
    BY <1>7 DEF ProcOK
  <2> QED BY <1>7, <1>9, <1>10, <2>1, SetHeld
<1>12. Alike(x, y) /\ Local(y) = Local(x)
  BY <1>1, <1>11 DEF Alike, Local
<1>13. HeldStays(x, y)
  <2>1. HeldBy(x) = EndsOf(g)
    BY <1>2 DEF HeldBy, Piping, AfterClosing
  <2>2. HeldBy(y) = {}
    BY <1>4, <1>11 DEF HeldBy, Piping, AfterClosing
  <2> QED BY <1>7, <1>8, <1>11, <2>1, <2>2 DEF HeldStays
<1>14. y = Closes(x, f)
  BY <1>2, <1>6, <1>8, <1>10 DEF Closes
<1> QED BY <1>2, <1>4, <1>5, <1>11, <1>12, <1>13, <1>14

LEMMA CloseKeeps ==
  ASSUME NEW t, NEW N, NEW l, NEW e, NEW F, Kept(t, N, l, e, F), NEW p \in Pids,
         NEW c, Runs(t, p, "close", c)
  PROVE  Kept([t EXCEPT ![p] = Closes(t[p], [t[p].stack[1] EXCEPT !.pc = "wait1"])], N, l, e, F)
<1>1. PICK x : x = t[p]
  OBVIOUS
<1>2. /\ ProcOK(x) /\ x.state = "running" /\ x.stack # <<>> /\ x.stack[1].pc = "close"
  BY <1>1, KeptFacts DEF Runs
<1>3. PICK f : f = [x.stack[1] EXCEPT !.pc = "wait1"]
  OBVIOUS
<1>4. PICK y : y = Closes(x, f)
  OBVIOUS
<1>5. /\ f \in Frame /\ FrameOK(f) /\ f.cmd = x.stack[1].cmd /\ MovesOn(x.stack[1], f)
      /\ y \in Proc /\ Alike(x, y) /\ y.stack = <<f>> \o Tail(x.stack)
      /\ Local(y) = Local(x) /\ y.out = x.out /\ HeldStays(x, y)
  <2>1. AfterClosing(x.stack[1].pc, "wait1")
    BY <1>2 DEF AfterClosing
  <2> QED BY <1>2, <1>3, <1>4, <2>1, ClosesIs
<1>6. Kept([t EXCEPT ![p] = y], N, l, e, F)
  BY <1>1, <1>2, <1>5, MoveKeeps
<1> QED BY <1>1, <1>3, <1>4, <1>6

LEMMA ConnectKeeps ==
  ASSUME NEW t, NEW N, NEW l, NEW e, NEW F, Kept(t, N, l, e, F), NEW p \in Pids,
         NEW c, NEW pc, Runs(t, p, pc, c), pc \in {"write end", "read end"}
  PROVE  LET y == Closes(t[p], [t[p].stack[1] EXCEPT !.pc = "start"])
             i == t[p].stack[1].pipefd
         IN  /\ pc = "write end" => Kept([t EXCEPT ![p] = [y EXCEPT !.out = i]], N, l, e, F)
             /\ pc = "read end" => Kept([t EXCEPT ![p] = [y EXCEPT !.in = i]], N, l, e, F)
<1>1. PICK x : x = t[p]
  OBVIOUS
<1>2. /\ ProcOK(x) /\ x.state = "running" /\ x.stack # <<>>
      /\ x.stack[1].pc = pc /\ x.stack[1] \in Frame
  BY <1>1, KeptFacts, TopFacts DEF Runs
<1>3. PICK f : f = [x.stack[1] EXCEPT !.pc = "start"]
  OBVIOUS
<1>4. PICK y : y = Closes(x, f)
  OBVIOUS
<1>5. /\ f \in Frame /\ FrameOK(f) /\ f.cmd = x.stack[1].cmd /\ MovesOn(x.stack[1], f)
      /\ y \in Proc /\ Alike(x, y) /\ y.stack = <<f>> \o Tail(x.stack)
      /\ Local(y) = Local(x) /\ y.out = x.out /\ HeldStays(x, y)
  <2>1. AfterClosing(x.stack[1].pc, "start")
    BY <1>2 DEF AfterClosing
  <2> QED BY <1>2, <1>3, <1>4, <2>1, ClosesIs
<1>6. PICK i : i = x.stack[1].pipefd
  OBVIOUS
<1>7. i \in Nat
  BY <1>2, <1>6 DEF Frame
<1>8. ASSUME pc = "write end" PROVE Kept([t EXCEPT ![p] = [y EXCEPT !.out = i]], N, l, e, F)
  <2>1. PICK z : z = [y EXCEPT !.out = i]
    OBVIOUS
  <2>2. /\ z \in Proc /\ z.state = y.state /\ z.parent = y.parent /\ z.stack = y.stack
        /\ z.prog = y.prog /\ z.held = y.held /\ z.cwd = y.cwd /\ z.env = y.env
    BY <1>5, <1>7, <2>1, SetOut
  <2>3. Alike(x, z) /\ Local(z) = Local(x) /\ z.stack = <<f>> \o Tail(x.stack)
    BY <1>5, <2>2 DEF Alike, Local
  <2>4. HeldStays(x, z)
    BY <1>5, <2>2 DEF HeldStays, HeldBy
  <2>5. x.stack[1].pc = "write end"
    BY <1>2, <1>8
  <2>6. Kept([t EXCEPT ![p] = z], N, l, e, F)
    BY <1>1, <1>2, <1>5, <2>2, <2>3, <2>4, <2>5, MoveKeeps
  <2> QED BY <2>1, <2>6
<1>9. ASSUME pc = "read end" PROVE Kept([t EXCEPT ![p] = [y EXCEPT !.in = i]], N, l, e, F)
  <2>1. PICK z : z = [y EXCEPT !.in = i]
    OBVIOUS
  <2>2. /\ z \in Proc /\ z.state = y.state /\ z.parent = y.parent /\ z.stack = y.stack
        /\ z.prog = y.prog /\ z.held = y.held /\ z.cwd = y.cwd /\ z.env = y.env
        /\ z.out = y.out
    BY <1>5, <1>7, <2>1, SetIn
  <2>3. Alike(x, z) /\ Local(z) = Local(x) /\ z.stack = <<f>> \o Tail(x.stack) /\ z.out = x.out
    BY <1>5, <2>2 DEF Alike, Local
  <2>4. HeldStays(x, z)
    BY <1>5, <2>2 DEF HeldStays, HeldBy
  <2>5. Kept([t EXCEPT ![p] = z], N, l, e, F)
    BY <1>1, <1>2, <1>5, <2>2, <2>3, <2>4, MoveKeeps
  <2> QED BY <2>1, <2>5
<1> QED BY <1>1, <1>3, <1>4, <1>6, <1>8, <1>9

-----------------------------------------------------------------------------
(* fork.                                                                   *)

\* Process x, which goes on as f, adds child n to the ones it waits for; a
\* process that is at f holds the same ends of pipes as x.
Adds(x, f, n) ==
  \A y : y.state = "running" /\ y.stack # <<>> /\ y.stack[1] = f => Reg(y) = Reg(x) \cup {n}

HoldsLike(x, f) ==
  \A y : y.state = "running" /\ y.stack # <<>> /\ y.stack[1] = f => HeldBy(y) = HeldBy(x)

\* The child n, at g, of the process at f: nothing depends on it, or it executes
\* what f waits for.
Begins(f, g, n) ==
  \/ f.pc \in {"cd", "fork2"}
  \/ f.pc = "wait" /\ f.pid1 = n /\ g.cmd = f.cmd /\ g.pc = "exec"
  \/ /\ f.pc \in {"close", "wait1"} /\ f.pid2 = n
     /\ g.cmd = Command[f.cmd].cmd2 /\ g.pc \in {"read end", "start"}

LEMMA FirstCall ==
  ASSUME NEW g \in Frame, g.pc \notin BelowPC, NEW ret, NEW b
  PROVE  OnWay(<<g>>, ret, b, g.cmd, b)
<1>1. PICK s : s = <<g>>
  OBVIOUS
<1>2. Len(s) = 1 /\ s[1] = g
  BY <1>1
<1>3. RightStack(s, ret, g.cmd)
  BY <1>2 DEF RightStack, BelowPC
<1>4. PICK E : E = [i \in {1} |-> b]
  OBVIOUS
<1>5. E[1] = b
  BY <1>4
<1>6. Began(s, E, b)
  BY <1>2, <1>5 DEF Began
<1>7. b = Now(s[1], E[1])
  BY <1>2, <1>5 DEF Now, BelowPC
<1> QED BY <1>1, <1>3, <1>6, <1>7 DEF OnWay

LEMMA ForkKeeps ==
  ASSUME NEW t, NEW N, NEW l, NEW e, NEW F, Kept(t, N, l, e, F), NEW p \in Pids, NEW n \in Pids,
         t[p].state = "running", t[p].stack # <<>>, t[n].state = "unused",
         NEW f \in Frame, FrameOK(f), f.cmd = t[p].stack[1].cmd,
         NEW g \in Frame, FrameOK(g), g.pc \in ChildPC \cup {"start"},
         t[p].stack[1].pc \notin BelowPC,
         Adds(t[p], f, n), HoldsLike(t[p], f), HoldsLike(t[p], g), Begins(f, g, n)
  PROVE  Kept(ForkTable(t, p, n, f, g), N, l, e, F)
<1> DEFINE u == ForkTable(t, p, n, f, g)
<1>1. Struct(t) /\ t \in Table /\ n # p
  BY DEF Kept, Struct
<1>2. f.pc \notin ChildPC /\ f.pc \notin BelowPC /\ g.pc \notin BelowPC
  BY DEF Begins, ChildPC, BelowPC
<1>3. Struct(u)
  <2>1. \A y : y.state = "running" /\ y.stack # <<>> /\ y.stack[1] = f
                 => Reg(y) \subseteq Reg(t[p]) \cup {n}
    BY DEF Adds
  <2> QED BY <1>1, <1>2, <2>1, ForkStep
<1>4. PICK x : x = t[p]
  OBVIOUS
<1>5. ProcOK(x) /\ x.state = "running" /\ x.stack # <<>> /\ x \in Proc
  BY <1>4, KeptFacts
<1>6. PICK y : y = Going(x, f)
  OBVIOUS
<1>7. /\ ProcOK(y) /\ y.state = "running" /\ y.parent = x.parent
      /\ y.stack = <<f>> \o Tail(x.stack) /\ y.stack # <<>> /\ y.stack[1] = f
      /\ y.prog = NoProgram /\ y.out = x.out /\ y.held = x.held
      /\ y.cwd = x.cwd /\ y.env = x.env
  <2>1. f.pc # "exec"
    BY <1>2 DEF ChildPC
  <2> QED BY <1>5, <1>6, <2>1, GoingIs
<1>8. PICK z : z = Child(x, p, g)
  OBVIOUS
<1>9. /\ ProcOK(z) /\ z.state = "running" /\ z.parent = p
      /\ z.stack = <<g>> /\ z.stack # <<>> /\ z.stack[1] = g
      /\ z.prog = NoProgram /\ z.out = x.out /\ z.held = x.held
      /\ z.cwd = x.cwd /\ z.env = x.env
  BY <1>5, <1>8, ChildIs
<1>10. u[p] = y /\ u[n] = z /\ \A q \in Pids \ {p, n} : u[q] = t[q]
  BY <1>1, <1>4, <1>6, <1>8, ForkRows
<1> HIDE DEF u
<1>11. ASSUME N = MaxForkFailures PROVE Clean(u)
  <2>1. Clean(t) /\ x.held = HeldBy(x)
    BY <1>4, <1>11 DEF Kept, Clean
  <2>2. Reg(y) = Reg(x) \cup {n} /\ HeldBy(y) = HeldBy(x) /\ HeldBy(z) = HeldBy(x)
    BY <1>4, <1>7, <1>9 DEF Adds, HoldsLike
  <2>3. /\ u[p].state = "running" /\ u[p].parent = t[p].parent
        /\ Reg(u[p]) = Reg(t[p]) \cup {n} /\ u[p].held = HeldBy(u[p])
        /\ u[n].state = "running" /\ u[n].parent = p /\ u[n].held = HeldBy(u[n])
    BY <1>4, <1>7, <1>9, <1>10, <2>1, <2>2
  <2> QED BY <1>1, <1>10, <2>1, <2>3, CleanFork
<1>12. ASSUME ~ F PROVE Results(u, l, e)
  <2>1. Results(t, l, e)
    BY <1>12 DEF Kept
  <2>2. CASE l = 0
    <3>1. p # SHELL /\ n # SHELL
      BY <1>1, <2>1, <2>2 DEF Results, Struct, ShellOK
    <3>2. u[SHELL] = t[SHELL]
      BY <1>10, <3>1, PidFacts
    <3> QED BY <2>1, <2>2, <3>2 DEF Results
  <2>3. CASE l # 0
    <3>1. PICK G, R, B : Good(t, G, R, B, l, e)
      BY <2>1, <2>3 DEF Results
    <3>2. p \in G => Right(p, x, R[p], B[p])
      BY <1>4, <3>1 DEF Good
    <3>3. Local(y) = Local(x) /\ Local(z) = Local(x)
      BY <1>7, <1>9 DEF Local
    <3>4. p \in G => Right(p, y, R[p], B[p])
      <4>1. Alike(x, y) /\ y \in Proc
        BY <1>5, <1>7, TopFacts DEF Alike, ProcOK
      <4>2. x.stack[1].pc \notin BelowPC /\ f.cmd = x.stack[1].cmd
        BY <1>4
      <4> QED BY <1>2, <1>5, <1>7, <3>2, <3>3, <4>1, <4>2, Moved
    <3>5. CASE p \notin G \/ f.pc \in {"cd", "fork2"}
      <4>1. f.pc \in {"cd", "fork2"} => LinkOf(y, G \ {n}, R)
        BY <1>7 DEF LinkOf
      <4>2. p \in G => Right(p, u[p], R[p], B[p]) /\ LinkOf(u[p], G \ {n}, R)
        BY <1>10, <3>4, <3>5, <4>1
      <4>3. Good(u, G \ {n}, R, B, l, e)
        BY <1>1, <1>10, <3>1, <4>2, GoodForkOut
      <4> QED BY <2>3, <4>3 DEF Results
    <3>6. CASE p \in G /\ f.pc \notin {"cd", "fork2"}
      <4>1. PICK H, S : H = G \cup {n} /\ S = Set(R, n, g.cmd)
        OBVIOUS
      <4>2. n \in H /\ S[n] = g.cmd
        BY <4>1 DEF Set
      <4>3. LinkOf(y, H, S)
        BY <1>7, <3>6, <4>2 DEF LinkOf, Begins
      <4>4. LinkOf(z, H, S)
        BY <1>9, <3>6 DEF LinkOf, Begins
      <4>5. Right(n, z, g.cmd, Local(x))
        <5>1. OnWay(z.stack, z.ret, Local(z), g.cmd, Local(x))
          BY <1>2, <1>9, <3>3, FirstCall
        <5>2. z.out = NoPipe
          BY <1>5, <1>9, <3>2, <3>6 DEF Right
        <5>3. g.pc \notin {"cd child", "write end"}
          BY <3>6 DEF Begins
        <5> QED BY <1>9, <5>1, <5>2, <5>3 DEF Right
      <4>6. Right(p, u[p], R[p], B[p]) /\ Right(n, u[n], g.cmd, Local(x))
            /\ LinkOf(u[p], H, S) /\ LinkOf(u[n], H, S)
        BY <1>10, <3>4, <3>6, <4>3, <4>4, <4>5
      <4>7. Good(u, H, S, Set(B, n, Local(x)), l, e)
        BY <1>1, <1>10, <3>1, <3>6, <4>1, <4>6, GoodForkIn
      <4> QED BY <2>3, <4>7 DEF Results
    <3> QED BY <3>5, <3>6
  <2> QED BY <2>2, <2>3
<1> QED BY <1>3, <1>11, <1>12 DEF Kept, u

\* The pid that fork finds is one that is not in use.
FreePid(t) == CHOOSE q \in Pids : /\ t[q].state = "unused"
                                  /\ \A r \in 1 .. (q - 1) : t[r].state # "unused"

LEMMA FreePidIs ==
  ASSUME NEW t, \E q \in Pids : t[q].state = "unused"
  PROVE  FreePid(t) \in Pids /\ t[FreePid(t)].state = "unused"
<1> DEFINE Q == {q \in Pids : t[q].state = "unused"}
<1>1. Q \in SUBSET Nat /\ Q # {}
  BY PidFacts
<1>2. PICK q \in Q : \A r \in Q : q <= r
  <2> HIDE DEF Q
  <2> QED BY <1>1, NatMin
<1>3. q \in Pids /\ t[q].state = "unused" /\ q \in Nat
  BY <1>2, PidFacts
<1>4. \A r \in 1 .. (q - 1) : t[r].state # "unused"
  <2> TAKE r \in 1 .. (q - 1)
  <2>1. r \in Pids /\ r \in Nat /\ ~ (q <= r)
    BY <1>3, ShellAssumption DEF Pids
  <2> QED BY <1>2, <2>1
<1> QED BY <1>3, <1>4 DEF FreePid

\* The four places where the shell forks.
LEMMA CdForkKeeps ==
  ASSUME NEW t, NEW N, NEW l, NEW e, NEW F, Kept(t, N, l, e, F), NEW p \in Pids, NEW n \in Pids,
         NEW c, Runs(t, p, "start", c), t[n].state = "unused",
         Command[c].op = "NONE", Command[c].verb = "cd"
  PROVE  Kept(ForkTable(t, p, n, [t[p].stack[1] EXCEPT !.pc = "cd", !.pid1 = n],
                        Call(c, "cd child")), N, l, e, F)
<1>1. PICK h : h = t[p].stack[1]
  OBVIOUS
<1>2. /\ t[p].state = "running" /\ t[p].stack # <<>> /\ h \in Frame
      /\ h.pc = "start" /\ h.cmd = c /\ c \in Commands
  BY <1>1, KeptFacts, TopFacts DEF Runs
<1>3. PICK k : k = [h EXCEPT !.pc = "cd"]
  OBVIOUS
<1>4. k \in Frame /\ k.pc = "cd" /\ k.cmd = c
  BY <1>2, <1>3, FrameAt DEF PC
<1>5. PICK f, g : f = [k EXCEPT !.pid1 = n] /\ g = Call(c, "cd child")
  OBVIOUS
<1>6. f \in Frame /\ f.pc = "cd" /\ f.cmd = c /\ f.pid1 = n
  BY <1>4, <1>5 DEF Frame, MaybePid
<1>7. f = [h EXCEPT !.pc = "cd", !.pid1 = n]
  BY <1>2, <1>3, <1>5 DEF Frame
<1>8. g \in Frame /\ g.pc = "cd child" /\ g.cmd = c
  BY <1>2, <1>5, CallIs DEF PC, ChildPC
<1>9. FrameOK(f) /\ FrameOK(g)
  BY <1>6, <1>8 DEF FrameOK, BelowPC
<1>10. Reg(t[p]) = {} /\ HeldBy(t[p]) = {}
  BY <1>1, <1>2 DEF Reg, HeldBy, Piping
<1>11. Adds(t[p], f, n)
  BY <1>6, <1>10 DEF Adds, Reg
<1>12. HoldsLike(t[p], f) /\ HoldsLike(t[p], g)
  BY <1>6, <1>8, <1>10 DEF HoldsLike, HeldBy, Piping
<1>13. Begins(f, g, n) /\ g.pc \in ChildPC /\ t[p].stack[1].pc \notin BelowPC
       /\ f.cmd = t[p].stack[1].cmd
  BY <1>1, <1>2, <1>6, <1>8 DEF Begins, ChildPC, BelowPC
<1>14. Kept(ForkTable(t, p, n, f, g), N, l, e, F)
  BY <1>2, <1>6, <1>8, <1>9, <1>11, <1>12, <1>13, ForkKeeps
<1> QED BY <1>1, <1>5, <1>7, <1>14

LEMMA RunForkKeeps ==
  ASSUME NEW t, NEW N, NEW l, NEW e, NEW F, Kept(t, N, l, e, F), NEW p \in Pids, NEW n \in Pids,
         NEW c, Runs(t, p, "start", c), t[n].state = "unused",
         Command[c].op = "NONE", Command[c].verb = "run"
  PROVE  Kept(ForkTable(t, p, n, [t[p].stack[1] EXCEPT !.pc = "wait", !.pid1 = n],
                        Call(c, "exec")), N, l, e, F)
<1>1. PICK h : h = t[p].stack[1]
  OBVIOUS
<1>2. /\ t[p].state = "running" /\ t[p].stack # <<>> /\ h \in Frame
      /\ h.pc = "start" /\ h.cmd = c /\ c \in Commands
  BY <1>1, KeptFacts, TopFacts DEF Runs
<1>3. PICK k : k = [h EXCEPT !.pc = "wait"]
  OBVIOUS
<1>4. k \in Frame /\ k.pc = "wait" /\ k.cmd = c
  BY <1>2, <1>3, FrameAt DEF PC
<1>5. PICK f, g : f = [k EXCEPT !.pid1 = n] /\ g = Call(c, "exec")
  OBVIOUS
<1>6. f \in Frame /\ f.pc = "wait" /\ f.cmd = c /\ f.pid1 = n
  BY <1>4, <1>5 DEF Frame, MaybePid
<1>7. f = [h EXCEPT !.pc = "wait", !.pid1 = n]
  BY <1>2, <1>3, <1>5 DEF Frame
<1>8. g \in Frame /\ g.pc = "exec" /\ g.cmd = c
  BY <1>2, <1>5, CallIs DEF PC, ChildPC
<1>9. FrameOK(f) /\ FrameOK(g)
  BY <1>6, <1>8 DEF FrameOK, BelowPC
<1>10. Reg(t[p]) = {} /\ HeldBy(t[p]) = {}
  BY <1>1, <1>2 DEF Reg, HeldBy, Piping
<1>11. Adds(t[p], f, n)
  BY <1>6, <1>10 DEF Adds, Reg
<1>12. HoldsLike(t[p], f) /\ HoldsLike(t[p], g)
  BY <1>6, <1>8, <1>10 DEF HoldsLike, HeldBy, Piping
<1>13. Begins(f, g, n) /\ g.pc \in ChildPC /\ t[p].stack[1].pc \notin BelowPC
       /\ f.cmd = t[p].stack[1].cmd
  BY <1>1, <1>2, <1>6, <1>8 DEF Begins, ChildPC, BelowPC
<1>14. Kept(ForkTable(t, p, n, f, g), N, l, e, F)
  BY <1>2, <1>6, <1>8, <1>9, <1>11, <1>12, <1>13, ForkKeeps
<1> QED BY <1>1, <1>5, <1>7, <1>14

LEMMA Fork1Keeps ==
  ASSUME NEW t, NEW N, NEW l, NEW e, NEW F, Kept(t, N, l, e, F), NEW p \in Pids, NEW n \in Pids,
         NEW c, t[n].state = "unused",
         Runs(t, p, "fork1", c) \/ (Runs(t, p, "start", c) /\ Command[c].op = "PARALLEL"),
         NEW pc, pc = IF Command[c].op = "PIPE" THEN "write end" ELSE "start"
  PROVE  Kept(ForkTable(t, p, n, [t[p].stack[1] EXCEPT !.pc = "fork2", !.pid1 = n],
                        [Call(Command[c].cmd1, pc) EXCEPT !.pipefd = t[p].stack[1].pipefd]),
              N, l, e, F)
<1>1. PICK h, d : h = t[p].stack[1] /\ d = Command[c].cmd1
  OBVIOUS
<1>2. /\ t[p].state = "running" /\ t[p].stack # <<>> /\ h \in Frame /\ FrameOK(h)
      /\ h.pc \in {"fork1", "start"} /\ h.cmd = c /\ c \in Commands
  BY <1>1, KeptFacts, TopFacts DEF Runs
<1>3. /\ h.pc = "fork1" => Command[c].op = "PIPE"
      /\ h.pc = "start" => Command[c].op = "PARALLEL"
  BY <1>1, <1>2 DEF FrameOK, Runs
<1>4. d \in Commands
  BY <1>1, <1>2, <1>3, NodeKinds, BelowCommands
<1>5. PICK k : k = [h EXCEPT !.pc = "fork2"]
  OBVIOUS
<1>6. k \in Frame /\ k.pc = "fork2" /\ k.cmd = c /\ k.pipefd = h.pipefd
  BY <1>2, <1>5, FrameAt DEF PC
<1>7. PICK f, g : f = [k EXCEPT !.pid1 = n] /\ g = [Call(d, pc) EXCEPT !.pipefd = h.pipefd]
  OBVIOUS
<1>8. f \in Frame /\ f.pc = "fork2" /\ f.cmd = c /\ f.pid1 = n /\ f.pipefd = h.pipefd
  BY <1>6, <1>7 DEF Frame, MaybePid
<1>9. f = [h EXCEPT !.pc = "fork2", !.pid1 = n]
  BY <1>2, <1>5, <1>7 DEF Frame
<1>10. g \in Frame /\ g.pc = pc /\ g.cmd = d /\ g.pipefd = h.pipefd
  <2>1. pc \in PC /\ h.pipefd \in Nat
    BY <1>2 DEF PC, ChildPC, Frame
  <2>2. PICK i \in Nat : i = h.pipefd
    BY <2>1
  <2>3. PICK j : j = Call(d, pc)
    OBVIOUS
  <2>4. j \in Frame /\ j.pc = pc /\ j.cmd = d
    BY <1>4, <2>1, <2>3, CallIs
  <2>5. g = [j EXCEPT !.pipefd = i]
    BY <1>7, <2>2, <2>3
  <2>6. g \in Frame /\ g.pc = pc /\ g.cmd = d /\ g.pipefd = i
    BY <2>2, <2>4, <2>5 DEF Frame
  <2> QED BY <2>2, <2>6
<1>11. FrameOK(f) /\ FrameOK(g)
  BY <1>2, <1>3, <1>8, <1>10 DEF FrameOK, BelowPC
<1>12. Reg(t[p]) = {}
  BY <1>1, <1>2 DEF Reg
<1>13. Adds(t[p], f, n)
  BY <1>8, <1>12 DEF Adds, Reg
<1>14. HoldsLike(t[p], f) /\ HoldsLike(t[p], g)
  <2>1. CASE h.pc = "fork1"
    <3>1. HeldBy(t[p]) = EndsOf(h) /\ pc = "write end"
      BY <1>1, <1>2, <1>3, <2>1 DEF HeldBy, Piping
    <3>2. EndsOf(f) = EndsOf(h) /\ EndsOf(g) = EndsOf(h)
      BY <1>8, <1>10 DEF EndsOf
    <3>3. Piping(f) /\ Piping(g)
      BY <1>3, <1>8, <1>10, <2>1, <3>1 DEF Piping
    <3> QED BY <3>1, <3>2, <3>3 DEF HoldsLike, HeldBy
  <2>2. CASE h.pc = "start"
    <3>1. HeldBy(t[p]) = {} /\ pc = "start"
      BY <1>1, <1>2, <1>3, <2>2 DEF HeldBy, Piping
    <3>2. ~ Piping(f) /\ ~ Piping(g)
      BY <1>3, <1>8, <1>10, <2>2, <3>1 DEF Piping
    <3> QED BY <3>1, <3>2 DEF HoldsLike, HeldBy
  <2> QED BY <1>2, <2>1, <2>2
<1>15. Begins(f, g, n) /\ g.pc \in ChildPC \cup {"start"} /\ t[p].stack[1].pc \notin BelowPC
       /\ f.cmd = t[p].stack[1].cmd
  BY <1>1, <1>2, <1>8, <1>10 DEF Begins, ChildPC, BelowPC
<1>16. Kept(ForkTable(t, p, n, f, g), N, l, e, F)
  BY <1>2, <1>8, <1>10, <1>11, <1>13, <1>14, <1>15, ForkKeeps
<1> QED BY <1>1, <1>7, <1>9, <1>16

LEMMA Fork2Keeps ==
  ASSUME NEW t, NEW N, NEW l, NEW e, NEW F, Kept(t, N, l, e, F), NEW p \in Pids, NEW n \in Pids,
         NEW c, t[n].state = "unused", Runs(t, p, "fork2", c),
         NEW pc, pc = IF Command[c].op = "PIPE" THEN "read end" ELSE "start",
         NEW to, to = IF Command[c].op = "PIPE" THEN "close" ELSE "wait1"
  PROVE  Kept(ForkTable(t, p, n, [t[p].stack[1] EXCEPT !.pc = to, !.pid2 = n],
                        [Call(Command[c].cmd2, pc) EXCEPT !.pipefd = t[p].stack[1].pipefd]),
              N, l, e, F)
<1>1. PICK h, d : h = t[p].stack[1] /\ d = Command[c].cmd2
  OBVIOUS
<1>2. /\ t[p].state = "running" /\ t[p].stack # <<>> /\ h \in Frame /\ FrameOK(h)
      /\ h.pc = "fork2" /\ h.cmd = c /\ c \in Commands
  BY <1>1, KeptFacts, TopFacts DEF Runs
<1>3. Command[c].op \in {"PIPE", "PARALLEL"}
  BY <1>2 DEF FrameOK
<1>4. d \in Commands
  BY <1>1, <1>2, <1>3, NodeKinds, BelowCommands
<1>5. PICK k : k = [h EXCEPT !.pc = to]
  OBVIOUS
<1>6. k \in Frame /\ k.pc = to /\ k.cmd = c /\ k.pipefd = h.pipefd /\ k.pid1 = h.pid1
  <2>1. to \in PC
    BY DEF PC
  <2> QED BY <1>2, <1>5, <2>1, FrameAt
<1>7. PICK f, g : f = [k EXCEPT !.pid2 = n] /\ g = [Call(d, pc) EXCEPT !.pipefd = h.pipefd]
  OBVIOUS
<1>8. /\ f \in Frame /\ f.pc = to /\ f.cmd = c /\ f.pid1 = h.pid1 /\ f.pid2 = n
      /\ f.pipefd = h.pipefd
  BY <1>6, <1>7 DEF Frame, MaybePid
<1>9. f = [h EXCEPT !.pc = to, !.pid2 = n]
  BY <1>2, <1>5, <1>7 DEF Frame
<1>10. g \in Frame /\ g.pc = pc /\ g.cmd = d /\ g.pipefd = h.pipefd
  <2>1. pc \in PC /\ h.pipefd \in Nat
    BY <1>2 DEF PC, ChildPC, Frame
  <2>2. PICK i \in Nat : i = h.pipefd
    BY <2>1
  <2>3. PICK j : j = Call(d, pc)
    OBVIOUS
  <2>4. j \in Frame /\ j.pc = pc /\ j.cmd = d
    BY <1>4, <2>1, <2>3, CallIs
  <2>5. g = [j EXCEPT !.pipefd = i]
    BY <1>7, <2>2, <2>3
  <2>6. g \in Frame /\ g.pc = pc /\ g.cmd = d /\ g.pipefd = i
    BY <2>2, <2>4, <2>5 DEF Frame
  <2> QED BY <2>2, <2>6
<1>12. Reg(t[p]) = {h.pid1}
  BY <1>1, <1>2 DEF Reg
<1>13. h.pid1 # n
  BY <1>12 DEF Kept, Struct, Tree
<1>11. FrameOK(f) /\ FrameOK(g)
  BY <1>2, <1>3, <1>8, <1>10, <1>13 DEF FrameOK, BelowPC
<1>14. Adds(t[p], f, n)
  BY <1>8, <1>12 DEF Adds, Reg
<1>15. HoldsLike(t[p], f) /\ HoldsLike(t[p], g)
  <2>1. CASE Command[c].op = "PIPE"
    <3>1. HeldBy(t[p]) = EndsOf(h) /\ pc = "read end" /\ to = "close"
      BY <1>1, <1>2, <1>3, <2>1 DEF HeldBy, Piping
    <3>2. EndsOf(f) = EndsOf(h) /\ EndsOf(g) = EndsOf(h)
      BY <1>8, <1>10 DEF EndsOf
    <3>3. Piping(f) /\ Piping(g)
      BY <1>3, <1>8, <1>10, <2>1, <3>1 DEF Piping
    <3> QED BY <3>1, <3>2, <3>3 DEF HoldsLike, HeldBy
  <2>2. CASE Command[c].op # "PIPE"
    <3>1. HeldBy(t[p]) = {} /\ pc = "start" /\ to = "wait1"
      BY <1>1, <1>2, <1>3, <2>2 DEF HeldBy, Piping
    <3>2. ~ Piping(f) /\ ~ Piping(g)
      BY <1>3, <1>8, <1>10, <2>2, <3>1 DEF Piping
    <3> QED BY <3>1, <3>2 DEF HoldsLike, HeldBy
  <2> QED BY <2>1, <2>2
<1>16. Begins(f, g, n) /\ g.pc \in ChildPC \cup {"start"} /\ t[p].stack[1].pc \notin BelowPC
       /\ f.cmd = t[p].stack[1].cmd
  BY <1>1, <1>2, <1>8, <1>10 DEF Begins, ChildPC, BelowPC
<1>17. Kept(ForkTable(t, p, n, f, g), N, l, e, F)
  BY <1>2, <1>8, <1>10, <1>11, <1>14, <1>15, <1>16, ForkKeeps
<1> QED BY <1>1, <1>7, <1>9, <1>17

-----------------------------------------------------------------------------
(* waitpid.                                                                *)

\* A call returns when it has waited for its only child.
WaitEnds(t, p, y, l, e) ==
  \A G, R, B : Good(t, G, R, B, l, e) /\ p \in G =>
                 /\ y.ret = Outcome[t[p].stack[1].cmd]
                 /\ Finished(t[p].stack[1], Local(t[p]), Local(y))

LEMMA WaitPop ==
  ASSUME NEW t, NEW N, NEW l, NEW e, NEW F, Kept(t, N, l, e, F), NEW p \in Pids,
         t[p].state = "running", t[p].stack # <<>>,
         t[p].stack[1].pc \in {"cd", "wait", "wait2"},
         NEW q, Reg(t[p]) = {q}, t[q].state = "zombie",
         NEW y \in Proc, Alike(t[p], y), y.out = t[p].out, y.held = t[p].held,
         y.stack = Tail(t[p].stack), WaitEnds(t, p, y, l, e)
  PROVE  Kept(WaitTable(t, p, q, y), N, l, e, F)
<1>1. PICK x : x = t[p]
  OBVIOUS
<1>2. ProcOK(x) /\ (p = SHELL => ShellOK(x))
  BY <1>1, KeptFacts
<1>3. /\ x.state = "running" /\ x.stack # <<>> /\ Alike(x, y) /\ y.out = x.out
      /\ y.held = x.held /\ y.stack = Tail(x.stack)
      /\ x.stack[1].pc \in {"cd", "wait", "wait2"}
  BY <1>1
<1>4. HeldBy(x) = {}
  BY <1>3 DEF HeldBy, Piping
<1>5. /\ ProcOK(y) /\ Reg(y) = {} /\ HeldBy(y) = {}
      /\ ShellOK(x) => ShellOK(y)
      /\ \A G, R : LinkOf(y, G, R)
      /\ \A c, b : Right(p, x, c, b) /\ y.ret = Outcome[x.stack[1].cmd]
                      /\ Finished(x.stack[1], Local(x), Local(y)) => Right(p, y, c, b)
  BY <1>2, <1>3, Popped
<1>6. WaitMay(t, p, q, y, l, e)
  <2> SUFFICES ASSUME NEW G, NEW R, NEW B, Good(t, G, R, B, l, e), p \in G
               PROVE  Right(p, y, R[p], B[p]) /\ LinkOf(y, G \ {q}, R)
    BY DEF WaitMay
  <2>1. Right(p, x, R[p], B[p])
    BY <1>1 DEF Good
  <2>2. y.ret = Outcome[x.stack[1].cmd] /\ Finished(x.stack[1], Local(x), Local(y))
    BY <1>1 DEF WaitEnds
  <2> QED BY <1>5, <2>1, <2>2
<1>7. HeldStays(x, y)
  BY <1>3, <1>4, <1>5 DEF HeldStays
<1>8. y.state = "running" /\ y.parent = x.parent
  BY <1>3 DEF Alike
<1>9. Reg(y) = Reg(t[p]) \ {q} /\ q \in Reg(t[p])
  BY <1>5
<1>10. HeldStays(t[p], y) /\ y.parent = t[p].parent /\ (p = SHELL => t[p].stack # <<>> /\ ShellOK(y))
  BY <1>1, <1>2, <1>5, <1>7, <1>8
<1> QED BY <1>5, <1>6, <1>8, <1>9, <1>10, KeepWait

LEMMA CdKeeps ==
  ASSUME NEW t, NEW N, NEW l, NEW e, NEW F, Kept(t, N, l, e, F), NEW p \in Pids,
         NEW c, Runs(t, p, "cd", c), NEW q, q = t[p].stack[1].pid1, t[q].state = "zombie"
  PROVE  Kept(WaitTable(t, p, q, IF Command[c].arg \in Dirs
                                 THEN [ReturnOf(t[p], 0) EXCEPT !.cwd = Command[c].arg]
                                 ELSE ReturnOf(t[p], -1)), N, l, e, F)
<1>1. PICK x : x = t[p]
  OBVIOUS
<1>2. /\ ProcOK(x) /\ x.state = "running" /\ x.stack # <<>> /\ FrameOK(x.stack[1])
      /\ x.stack[1].pc = "cd" /\ x.stack[1].cmd = c /\ c \in Commands
  BY <1>1, KeptFacts, TopFacts DEF Runs
<1>3. Command[c].op = "NONE" /\ Command[c].verb = "cd"
  BY <1>2 DEF FrameOK
<1>4. Reg(x) = {q}
  BY <1>1, <1>2 DEF Reg
<1>5. 0 \in Status /\ -1 \in Status
  BY DEF Status
<1>6. PICK y : y = IF Command[c].arg \in Dirs
                   THEN [ReturnOf(x, 0) EXCEPT !.cwd = Command[c].arg]
                   ELSE ReturnOf(x, -1)
  OBVIOUS
<1>7. /\ y \in Proc /\ Alike(x, y) /\ y.stack = Tail(x.stack)
      /\ y.out = x.out /\ y.held = x.held /\ y.env = x.env
      /\ y.ret = (IF Command[c].arg \in Dirs THEN 0 ELSE -1)
      /\ y.cwd = (IF Command[c].arg \in Dirs THEN Command[c].arg ELSE x.cwd)
  <2>1. CASE Command[c].arg \in Dirs
    <3>1. PICK w : w = ReturnOf(x, 0)
      OBVIOUS
    <3>2. /\ w \in Proc /\ Alike(x, w) /\ w.stack = Tail(x.stack) /\ w.ret = 0
          /\ w.out = x.out /\ w.held = x.held /\ w.env = x.env
      BY <1>2, <1>5, <3>1, Returned
    <3>3. PICK d \in Dirs : d = Command[c].arg
      BY <2>1
    <3>4. y = [w EXCEPT !.cwd = d]
      BY <1>6, <2>1, <3>1, <3>3
    <3>5. /\ y \in Proc /\ Alike(x, y) /\ y.stack = Tail(x.stack) /\ y.ret = 0
          /\ y.out = x.out /\ y.held = x.held /\ y.env = x.env /\ y.cwd = d
      BY <3>2, <3>4, SetCwd DEF Alike
    <3> QED BY <2>1, <3>3, <3>5
  <2>2. CASE Command[c].arg \notin Dirs
    <3>1. y = ReturnOf(x, -1)
      BY <1>6, <2>2
    <3>2. /\ y \in Proc /\ Alike(x, y) /\ y.stack = Tail(x.stack) /\ y.ret = -1
          /\ y.out = x.out /\ y.held = x.held /\ y.env = x.env /\ y.cwd = x.cwd
      BY <1>2, <1>5, <3>1, Returned
    <3> QED BY <2>2, <3>2
  <2> QED BY <2>1, <2>2
<1>8. y.ret = Outcome[c]
  BY <1>2, <1>3, <1>7, SimpleMeans
<1>9. Local(y) = Apply(c, Local(x))
  BY <1>2, <1>3, <1>7, ApplySimple, LocalPair DEF Local
<1>10. WaitEnds(t, p, y, l, e)
  BY <1>1, <1>2, <1>8, <1>9 DEF WaitEnds, Finished, BelowPC
<1>11. Kept(WaitTable(t, p, q, y), N, l, e, F)
  BY <1>1, <1>2, <1>4, <1>7, <1>10, WaitPop
<1> QED BY <1>1, <1>6, <1>11

\* What the status of a child on which something depends tells its parent.
LEMMA ChildStatus ==
  ASSUME NEW t, NEW N, NEW l, NEW e, NEW F, Kept(t, N, l, e, F), NEW p \in Pids,
         NEW q \in Reg(t[p]), t[q].state = "zombie",
         NEW G, NEW R, NEW B, Good(t, G, R, B, l, e), q \in G
  PROVE  t[q].code = Stat(R[q])
<1>1. q # SHELL
  BY DEF Kept, Struct, Tree
<1>2. Right(q, t[q], R[q], B[q])
  BY DEF Good
<1> QED BY <1>1, <1>2 DEF Right, CodeOf

LEMMA CodeStatus ==
  ASSUME NEW k \in Code
  PROVE  /\ (IF WIFEXITED(k) THEN k ELSE -1) \in Status
         /\ (IF WIFEXITED(k) THEN k ELSE 0) \in Status
BY DEF Code, Status, WIFEXITED, Killed

LEMMA StatRun ==
  ASSUME NEW c \in Commands, Command[c].op = "NONE", Command[c].verb = "run"
  PROVE  Stat(c) = Command[c].arg /\ Outcome[c] = Command[c].arg /\ Command[c].arg \in 0 .. 255
<1>1. Outcome[c] = Command[c].arg /\ Command[c].arg \in 0 .. 255
  BY NodeKinds, SimpleMeans
<1>2. PICK k : k = Command[c].arg
  OBVIOUS
<1>3. k \in 0 .. 255
  BY <1>1, <1>2
<1>4. k \in Status /\ k % 256 = k
  BY <1>3 DEF Status
<1>5. StatusOf(k) = k
  BY <1>4, StatusFacts
<1> QED BY <1>1, <1>2, <1>5 DEF Stat

LEMMA WaitSimpleKeeps ==
  ASSUME NEW t, NEW N, NEW l, NEW e, NEW F, Kept(t, N, l, e, F), NEW p \in Pids,
         NEW c, Runs(t, p, "wait", c), NEW q, q = t[p].stack[1].pid1, t[q].state = "zombie"
  PROVE  Kept(WaitTable(t, p, q, ReturnOf(t[p], IF WIFEXITED(t[q].code) THEN t[q].code ELSE -1)),
              N, l, e, F)
<1>1. PICK x : x = t[p]
  OBVIOUS
<1>2. /\ ProcOK(x) /\ x.state = "running" /\ x.stack # <<>> /\ FrameOK(x.stack[1])
      /\ x.stack[1].pc = "wait" /\ x.stack[1].cmd = c /\ c \in Commands
  BY <1>1, KeptFacts, TopFacts DEF Runs
<1>3. Command[c].op = "NONE" /\ Command[c].verb = "run"
  BY <1>2 DEF FrameOK
<1>4. Reg(x) = {q}
  BY <1>1, <1>2 DEF Reg
<1>5. q \in Pids
  BY <1>1, <1>4 DEF Kept, Struct, Tree
<1>6. PICK k : k = t[q].code
  OBVIOUS
<1>7. k \in Code
  BY <1>5, <1>6, KeptFacts DEF Proc
<1>8. PICK v : v = IF WIFEXITED(k) THEN k ELSE -1
  OBVIOUS
<1>9. v \in Status
  BY <1>7, <1>8, CodeStatus
<1>10. PICK y : y = ReturnOf(x, v)
  OBVIOUS
<1>11. /\ y \in Proc /\ Alike(x, y) /\ y.stack = Tail(x.stack) /\ y.ret = v
       /\ y.out = x.out /\ y.held = x.held /\ Local(y) = Local(x)
  BY <1>2, <1>9, <1>10, Returned
<1>12. Local(y) = Apply(c, Local(x))
  BY <1>2, <1>3, <1>11, ApplySimple, LocalPair
<1>13. ASSUME NEW G, NEW R, NEW B, Good(t, G, R, B, l, e), p \in G
       PROVE  y.ret = Outcome[c]
  <2>1. q \in G /\ R[q] = c
    <3>1. LinkOf(x, G, R)
      BY <1>1, <1>13 DEF Good
    <3> QED BY <1>1, <1>2, <3>1 DEF LinkOf
  <2>2. k = Stat(c)
    BY <1>1, <1>4, <1>6, <1>13, <2>1, ChildStatus
  <2>3. k = Outcome[c] /\ k \in 0 .. 255
    BY <1>2, <1>3, <2>2, StatRun
  <2>4. k # Killed
    BY <2>3 DEF Killed
  <2> QED BY <1>8, <1>11, <2>3, <2>4 DEF WIFEXITED
<1>14. WaitEnds(t, p, y, l, e)
  BY <1>1, <1>2, <1>12, <1>13 DEF WaitEnds, Finished, BelowPC
<1>15. Kept(WaitTable(t, p, q, y), N, l, e, F)
  BY <1>1, <1>2, <1>4, <1>11, <1>14, WaitPop
<1> QED BY <1>1, <1>6, <1>8, <1>10, <1>15

LEMMA Wait2Keeps ==
  ASSUME NEW t, NEW N, NEW l, NEW e, NEW F, Kept(t, N, l, e, F), NEW p \in Pids,
         NEW c, Runs(t, p, "wait2", c), NEW q, q = t[p].stack[1].pid2, t[q].state = "zombie"
  PROVE  Kept(WaitTable(t, p, q, ReturnOf(t[p], IF WIFEXITED(t[q].code) THEN t[q].code ELSE 0)),
              N, l, e, F)
<1>1. PICK x : x = t[p]
  OBVIOUS
<1>2. /\ ProcOK(x) /\ x.state = "running" /\ x.stack # <<>> /\ FrameOK(x.stack[1])
      /\ x.stack[1].pc = "wait2" /\ x.stack[1].cmd = c /\ c \in Commands
  BY <1>1, KeptFacts, TopFacts DEF Runs
<1>3. Command[c].op \in {"PIPE", "PARALLEL"}
  BY <1>2 DEF FrameOK
<1>4. Reg(x) = {q}
  BY <1>1, <1>2 DEF Reg
<1>5. q \in Pids
  BY <1>1, <1>4 DEF Kept, Struct, Tree
<1>6. PICK k : k = t[q].code
  OBVIOUS
<1>7. k \in Code
  BY <1>5, <1>6, KeptFacts DEF Proc
<1>8. PICK v : v = IF WIFEXITED(k) THEN k ELSE 0
  OBVIOUS
<1>9. v \in Status
  BY <1>7, <1>8, CodeStatus
<1>10. PICK y : y = ReturnOf(x, v)
  OBVIOUS
<1>11. /\ y \in Proc /\ Alike(x, y) /\ y.stack = Tail(x.stack) /\ y.ret = v
       /\ y.out = x.out /\ y.held = x.held /\ Local(y) = Local(x)
  BY <1>2, <1>9, <1>10, Returned
<1>12. Local(y) = Apply(c, Local(x))
  BY <1>2, <1>3, <1>11, ProcessMeans, ApplyNothing, LocalPair
<1>13. ASSUME NEW G, NEW R, NEW B, Good(t, G, R, B, l, e), p \in G
       PROVE  y.ret = Outcome[c]
  <2>1. q \in G /\ R[q] = Command[c].cmd2
    <3>1. LinkOf(x, G, R)
      BY <1>1, <1>13 DEF Good
    <3> QED BY <1>1, <1>2, <3>1 DEF LinkOf
  <2>2. k = Stat(Command[c].cmd2)
    BY <1>1, <1>4, <1>6, <1>13, <2>1, ChildStatus
  <2> QED BY <1>2, <1>3, <1>8, <1>11, <2>2, ProcessMeans
<1>14. WaitEnds(t, p, y, l, e)
  BY <1>1, <1>2, <1>12, <1>13 DEF WaitEnds, Finished, BelowPC
<1>15. Kept(WaitTable(t, p, q, y), N, l, e, F)
  BY <1>1, <1>2, <1>4, <1>11, <1>14, WaitPop
<1> QED BY <1>1, <1>6, <1>8, <1>10, <1>15

LEMMA Wait1Keeps ==
  ASSUME NEW t, NEW N, NEW l, NEW e, NEW F, Kept(t, N, l, e, F), NEW p \in Pids,
         NEW c, Runs(t, p, "wait1", c), NEW q, q = t[p].stack[1].pid1, t[q].state = "zombie"
  PROVE  Kept(WaitTable(t, p, q, Going(t[p], [t[p].stack[1] EXCEPT !.pc = "wait2"])), N, l, e, F)
<1>1. PICK x, g : x = t[p] /\ g = x.stack[1]
  OBVIOUS
<1>2. /\ ProcOK(x) /\ x.state = "running" /\ x.stack # <<>> /\ FrameOK(g) /\ g \in Frame
      /\ g.pc = "wait1" /\ g.cmd = c /\ c \in Commands /\ g.pid1 = q /\ g.pid1 # g.pid2
      /\ (p = SHELL => ShellOK(x))
  <2>1. /\ ProcOK(x) /\ x.state = "running" /\ x.stack # <<>> /\ (p = SHELL => ShellOK(x))
    BY <1>1, KeptFacts DEF Runs
  <2>2. /\ FrameOK(g) /\ g \in Frame /\ g.pc = "wait1" /\ g.cmd = c /\ c \in Commands
        /\ g.pid1 = q
    BY <1>1, <2>1, TopFacts DEF Runs
  <2> QED BY <2>1, <2>2 DEF FrameOK
<1>3. PICK f : f = [g EXCEPT !.pc = "wait2"]
  OBVIOUS
<1>4. f \in Frame /\ f.pc = "wait2" /\ f.cmd = c /\ f.pid1 = g.pid1 /\ f.pid2 = g.pid2
  BY <1>2, <1>3, FrameAt DEF PC
<1>5. FrameOK(f) /\ f.pc \notin ChildPC /\ f.pc # "exec" /\ f.pc \notin BelowPC
      /\ g.pc \notin BelowPC
  BY <1>2, <1>4 DEF FrameOK, BelowPC, ChildPC
<1>6. PICK y : y = Going(x, f)
  OBVIOUS
<1>7. /\ ProcOK(y) /\ y.state = "running" /\ y.parent = x.parent
      /\ y.stack = <<f>> \o Tail(x.stack) /\ y.stack # <<>> /\ y.stack[1] = f
      /\ y.prog = NoProgram /\ y.out = x.out /\ y.held = x.held
      /\ y.cwd = x.cwd /\ y.env = x.env
  BY <1>2, <1>4, <1>5, <1>6, GoingIs
<1>8. Alike(x, y) /\ Local(y) = Local(x) /\ y \in Proc
  BY <1>2, <1>7, TopFacts DEF Alike, Local, ProcOK
<1>9. /\ ShellOK(x) /\ y.out = x.out => ShellOK(y)
      /\ \A b, i : Right(p, x, b, i) /\ x.stack[1].pc \notin BelowPC /\ f.pc \notin BelowPC
                   /\ f.cmd = x.stack[1].cmd /\ y.out = x.out /\ Local(y) = Local(x)
                     => Right(p, y, b, i)
  BY <1>2, <1>4, <1>5, <1>7, <1>8, Moved
<1>10. Reg(x) = {g.pid1, g.pid2} /\ Reg(y) = {g.pid2}
  BY <1>1, <1>2, <1>4, <1>7 DEF Reg
<1>11. HeldBy(x) = {} /\ HeldBy(y) = {}
  BY <1>1, <1>2, <1>4, <1>7 DEF HeldBy, Piping
<1>12. HeldStays(x, y)
  BY <1>7, <1>11 DEF HeldStays
<1>13. WaitMay(t, p, q, y, l, e)
  <2> SUFFICES ASSUME NEW G, NEW R, NEW B, Good(t, G, R, B, l, e), p \in G
               PROVE  Right(p, y, R[p], B[p]) /\ LinkOf(y, G \ {q}, R)
    BY DEF WaitMay
  <2>1. Right(p, x, R[p], B[p]) /\ LinkOf(x, G, R)
    BY <1>1 DEF Good
  <2>2. Right(p, y, R[p], B[p])
    BY <1>1, <1>2, <1>4, <1>5, <1>7, <1>8, <1>9, <2>1
  <2>3. g.pid2 \in G \ {q} /\ R[g.pid2] = Command[c].cmd2
    BY <1>1, <1>2, <2>1 DEF LinkOf
  <2>4. LinkOf(y, G \ {q}, R)
    BY <1>4, <1>7, <2>3 DEF LinkOf
  <2> QED BY <2>2, <2>4
<1>14. /\ q \in Reg(t[p]) /\ Reg(y) = Reg(t[p]) \ {q} /\ t[p].state = "running"
       /\ HeldStays(t[p], y) /\ y.parent = t[p].parent
       /\ (p = SHELL => t[p].stack # <<>> /\ ShellOK(y))
  BY <1>1, <1>2, <1>7, <1>9, <1>10, <1>12
<1>15. Kept(WaitTable(t, p, q, y), N, l, e, F)
  BY <1>7, <1>13, <1>14, KeepWait
<1> QED BY <1>1, <1>3, <1>6, <1>15

-----------------------------------------------------------------------------
(* exit, and the next line.                                                *)

LEMMA CodeFacts == 0 \in Code /\ Killed \in Code
BY DEF Code, Killed

LEMMA ShellExitKeeps ==
  ASSUME NEW t, NEW N, NEW l, NEW e, NEW F, Kept(t, N, l, e, F), NEW p \in Pids,
         NEW c, Runs(t, p, "start", c), Command[c].op = "NONE", Command[c].verb = "exit"
  PROVE  Kept(ExitTable(t, p, ExitCode(SHELL_EXIT)), N, l, e, F)
<1>1. PICK x : x = t[p]
  OBVIOUS
<1>2. /\ ProcOK(x) /\ x.state = "running" /\ x.stack # <<>>
      /\ x.stack[1].pc = "start" /\ x.stack[1].cmd = c /\ c \in Commands
  BY <1>1, KeptFacts, TopFacts DEF Runs
<1>3. Reg(x) = {}
  BY <1>2 DEF Reg
<1>4. ExitCode(SHELL_EXIT) = 156
  <2>1. \A k \in Int : k + 100 = 0 => k % 256 = 156
    OBVIOUS
  <2>2. SHELL_EXIT \in Int /\ SHELL_EXIT + 100 = 0
    BY DEF SHELL_EXIT
  <2> QED BY <2>1, <2>2 DEF ExitCode
<1>5. 156 \in Code
  BY DEF Code, Killed
<1>6. ASSUME NEW G, NEW R, NEW B, Good(t, G, R, B, l, e), p \in G
      PROVE  Outcome[R[p]] = Exits
  <2>1. RightStack(x.stack, x.ret, R[p])
    BY <1>1, <1>2, <1>6 DEF Good, Right, OnWay
  <2>2. 1 \in 1 .. Len(x.stack)
    BY <1>2 DEF ProcOK, StackOK
  <2>3. Outcome[c] = Exits /\ Exits \in Final
    BY <1>2, SimpleMeans DEF Final
  <2> QED BY <1>2, <2>1, <2>2, <2>3 DEF RightStack
<1>7. StatusOf(Exits) = 156 /\ Exits \in Final
  <2>1. StatusOf(Exits) = ExitCode(SHELL_EXIT)
    BY DEF StatusOf, Exits, Dies
  <2> QED BY <1>4, <2>1 DEF Final
<1>8. ExitMay(t, p, 156, l, e)
  BY <1>1, <1>2, <1>6, <1>7 DEF ExitMay, CodeOf, Stat
<1> QED BY <1>1, <1>2, <1>3, <1>4, <1>5, <1>8, KeepExit

\* An assignment without a value: a signal ends the process.
LEMMA AssignDiesKeeps ==
  ASSUME NEW t, NEW N, NEW l, NEW e, NEW F, Kept(t, N, l, e, F), NEW p \in Pids,
         NEW c, Runs(t, p, "start", c), Command[c].op = "NONE", Command[c].verb = "=",
         Command[c].arg = NoValue
  PROVE  Kept(ExitTable(t, p, Killed), N, l, e, F)
<1>1. PICK x : x = t[p]
  OBVIOUS
<1>2. /\ ProcOK(x) /\ x.state = "running" /\ x.stack # <<>>
      /\ x.stack[1].pc = "start" /\ x.stack[1].cmd = c /\ c \in Commands
  BY <1>1, KeptFacts, TopFacts DEF Runs
<1>3. Reg(x) = {}
  BY <1>2 DEF Reg
<1>4. ASSUME NEW G, NEW R, NEW B, Good(t, G, R, B, l, e), p \in G
      PROVE  Outcome[R[p]] = Dies
  <2>1. RightStack(x.stack, x.ret, R[p])
    BY <1>1, <1>2, <1>4 DEF Good, Right, OnWay
  <2>2. 1 \in 1 .. Len(x.stack)
    BY <1>2 DEF ProcOK, StackOK
  <2>3. Outcome[c] = Dies /\ Dies \in Final
    BY <1>2, SimpleMeans DEF Final, NoName, NoValue
  <2> QED BY <1>2, <2>1, <2>2, <2>3 DEF RightStack
<1>5. Dies # Exits /\ Dies \in Final
  BY DEF Dies, Exits, Final
<1>6. ExitMay(t, p, Killed, l, e)
  BY <1>1, <1>2, <1>4, <1>5 DEF ExitMay, CodeOf, Stat, StatusOf
<1> QED BY <1>1, <1>2, <1>3, <1>6, CodeFacts, KeepExit

LEMMA CdChildKeeps ==
  ASSUME NEW t, NEW N, NEW l, NEW e, NEW F, Kept(t, N, l, e, F), NEW p \in Pids,
         NEW c, Runs(t, p, "cd child", c)
  PROVE  Kept(ExitTable(t, p, 0), N, l, e, F)
<1>1. PICK x : x = t[p]
  OBVIOUS
<1>2. /\ ProcOK(x) /\ x.state = "running" /\ x.stack # <<>>
      /\ x.stack[1].pc = "cd child" /\ p # SHELL
  BY <1>1, KeptFacts, TopFacts DEF Runs, ChildPC
<1>3. Reg(x) = {} /\ 0 \in Code
  <2>1. Reg(x) = {}
    BY <1>2 DEF Reg
  <2>2. 0 \in Code
    BY CodeFacts
  <2> QED BY <2>1, <2>2
<1>4. ASSUME NEW G, NEW R, NEW B, Good(t, G, R, B, l, e), p \in G PROVE FALSE
  BY <1>1, <1>2, <1>4 DEF Good, Right
<1>5. ExitMay(t, p, 0, l, e)
  BY <1>2, <1>4 DEF ExitMay
<1> QED BY <1>1, <1>2, <1>3, <1>5, KeepExit

LEMMA ExitChildKeeps ==
  ASSUME NEW t, NEW N, NEW l, NEW e, NEW F, Kept(t, N, l, e, F), NEW p \in Pids,
         p # SHELL, t[p].state = "running", t[p].stack = <<>>, t[p].prog = NoProgram
  PROVE  Kept(ExitTable(t, p, ExitCode(t[p].ret)), N, l, e, F)
<1>1. PICK x, v, k : x = t[p] /\ v = x.ret /\ k = ExitCode(v)
  OBVIOUS
<1>2. ProcOK(x) /\ x.state = "running" /\ x.stack = <<>> /\ x.prog = NoProgram /\ v \in Status
  BY <1>1, KeptFacts DEF Proc
<1>3. Reg(x) = {}
  BY <1>2 DEF Reg
<1>4. k \in Code /\ k = StatusOf(v)
  BY <1>1, <1>2, StatusFacts DEF ExitCode
<1>5. ASSUME NEW G, NEW R, NEW B, Good(t, G, R, B, l, e), p \in G
      PROVE  k = Stat(R[p])
  <2>1. v = Outcome[R[p]]
    BY <1>1, <1>2, <1>5 DEF Good, Right
  <2> QED BY <1>4, <2>1 DEF Stat
<1>6. ExitMay(t, p, k, l, e)
  BY <1>5 DEF ExitMay, CodeOf
<1>7. Kept(ExitTable(t, p, k), N, l, e, F)
  BY <1>1, <1>2, <1>3, <1>4, <1>6, KeepExit
<1> QED BY <1>1, <1>7

LEMMA EndOfInputKeeps ==
  ASSUME NEW t, NEW N, NEW l, NEW e, NEW F, Kept(t, N, l, e, F),
         t[SHELL].state = "running", t[SHELL].stack = <<>>
  PROVE  Kept(ExitTable(t, SHELL, 0), N, l, e, F)
<1>1. PICK x : x = t[SHELL]
  OBVIOUS
<1>2. /\ ProcOK(x) /\ x.state = "running" /\ x.stack = <<>> /\ x.prog = NoProgram
      /\ x.ret \in Status
  BY <1>1, KeptFacts, PidFacts DEF Proc, ShellOK
<1>3. Reg(x) = {} /\ 0 \in Code
  <2>1. Reg(x) = {}
    BY <1>2 DEF Reg
  <2>2. 0 \in Code
    BY CodeFacts
  <2> QED BY <2>1, <2>2
<1>4. ASSUME NEW G, NEW R, NEW B, Good(t, G, R, B, l, e)
      PROVE  Outcome[R[SHELL]] \notin Final
  <2>1. x.ret = Outcome[R[SHELL]]
    BY <1>1, <1>2, <1>4 DEF Good, Right
  <2> QED BY <1>2, <2>1, StatusFacts
<1>5. ExitMay(t, SHELL, 0, l, e)
  BY <1>4 DEF ExitMay, CodeOf
<1> QED BY <1>1, <1>2, <1>3, <1>5, KeepExit, PidFacts

LEMMA FinishKeeps ==
  ASSUME NEW t, NEW N, NEW l, NEW e, NEW F, Kept(t, N, l, e, F), NEW p \in Pids,
         t[p].state = "running", t[p].prog # NoProgram
  PROVE  /\ Kept(ExitTable(t, p, Command[t[p].prog].arg), N, l, e, F)
         /\ t[p].out # NoPipe => Kept(ExitTable(t, p, Killed), N, l, e, F)
<1>1. PICK x, c, k : x = t[p] /\ c = x.prog /\ k = Command[c].arg
  OBVIOUS
<1>2. /\ ProcOK(x) /\ x.state = "running" /\ x.prog # NoProgram /\ p # SHELL
      /\ c \in MaybeProgram
  BY <1>1, KeptFacts DEF Proc, ShellOK
<1>3. x.stack = <<>> /\ Command[c].op = "NONE" /\ Command[c].verb = "run" /\ c \in Commands
  BY <1>1, <1>2 DEF ProcOK, MaybeProgram
<1>4. k = Stat(c) /\ k \in 0 .. 255
  BY <1>1, <1>3, StatRun
<1>5. Reg(x) = {} /\ k \in Code /\ Killed \in Code
  <2>1. Reg(x) = {}
    BY <1>3 DEF Reg
  <2>2. k \in Code /\ Killed \in Code
    BY <1>4 DEF Code, Killed
  <2> QED BY <2>1, <2>2
<1>6. ASSUME NEW G, NEW R, NEW B, Good(t, G, R, B, l, e), p \in G
      PROVE  k = Stat(R[p]) /\ x.out = NoPipe
  <2>1. c = R[p] /\ x.out = NoPipe
    BY <1>1, <1>2, <1>6 DEF Good, Right
  <2> QED BY <1>4, <2>1
<1>7. ExitMay(t, p, k, l, e)
  BY <1>2, <1>6 DEF ExitMay, CodeOf
<1>8. x.out # NoPipe => ExitMay(t, p, Killed, l, e)
  BY <1>2, <1>6 DEF ExitMay
<1>9. Kept(ExitTable(t, p, k), N, l, e, F)
  BY <1>1, <1>2, <1>5, <1>7, KeepExit
<1>10. x.out # NoPipe => Kept(ExitTable(t, p, Killed), N, l, e, F)
  BY <1>1, <1>2, <1>5, <1>8, KeepExit
<1> QED BY <1>1, <1>9, <1>10

LEMMA ReadLineKeeps ==
  ASSUME NEW t, NEW N, NEW l, NEW e, NEW F, Kept(t, N, l, e, F),
         t[SHELL].state = "running", t[SHELL].stack = <<>>, NEW c \in Commands
  PROVE  Kept([t EXCEPT ![SHELL] = [t[SHELL] EXCEPT !.stack = <<Call(c, "start")>>]],
              N, c, Local(t[SHELL]), FALSE)
<1>1. PICK x, g : x = t[SHELL] /\ g = Call(c, "start")
  OBVIOUS
<1>2. /\ ProcOK(x) /\ x \in Proc /\ ShellOK(x) /\ x.state = "running" /\ x.stack = <<>>
      /\ t \in Table /\ Struct(t)
  <2>1. Struct(t) /\ SHELL \in Pids
    BY PidFacts DEF Kept
  <2>2. t \in Table /\ ProcOK(t[SHELL]) /\ ShellOK(t[SHELL])
    BY <2>1 DEF Struct
  <2> QED BY <1>1, <2>1, <2>2 DEF ProcOK
<1>3. g \in Frame /\ g.pc = "start" /\ g.cmd = c
  BY <1>1, CallIs DEF PC
<1>4. PICK s : s = <<g>>
  OBVIOUS
<1>5. StackOK(s) /\ s # <<>> /\ s[1] = g /\ Len(s) = 1 /\ s \in Stack
  <2>1. FrameOK(g)
    BY <1>3 DEF FrameOK, BelowPC
  <2> QED BY <1>3, <1>4, <2>1, StackOne DEF StackOK, Stack
<1>6. PICK y : y = [x EXCEPT !.stack = s]
  OBVIOUS
<1>7. /\ y \in Proc /\ y.stack = s /\ y.state = "running" /\ y.parent = x.parent
      /\ y.prog = x.prog /\ y.out = x.out /\ y.held = x.held /\ y.cwd = x.cwd /\ y.env = x.env
  BY <1>2, <1>5, <1>6, SetStack
<1>8. x.prog = NoProgram /\ x.out = NoPipe
  BY <1>2 DEF ShellOK
<1>9. ProcOK(y) /\ ShellOK(y)
  <2>1. ProcOK(y)
    BY <1>5, <1>7, <1>8 DEF ProcOK
  <2>2. \A i \in 1 .. Len(s) : i = 1
    BY <1>5
  <2>3. \A i \in 1 .. Len(y.stack) : y.stack[i].pc \notin ChildPC
    BY <1>3, <1>5, <1>7, <2>2 DEF ChildPC
  <2>4. y.parent = NoPid /\ y.prog = NoProgram /\ y.out = NoPipe
    BY <1>2, <1>7, <1>8 DEF ShellOK
  <2> QED BY <1>7, <2>1, <2>3, <2>4 DEF ShellOK
<1>10. Reg(x) = {} /\ Reg(y) = {} /\ HeldBy(x) = {} /\ HeldBy(y) = {}
  BY <1>2, <1>3, <1>5, <1>7 DEF Reg, HeldBy, Piping
<1> DEFINE u == [t EXCEPT ![SHELL] = y]
<1>11. Struct(u)
  BY <1>1, <1>2, <1>7, <1>9, <1>10, LocalStep, PidFacts
<1>12. N = MaxForkFailures => Clean(u)
  <2> SUFFICES ASSUME N = MaxForkFailures PROVE Clean(u)
    OBVIOUS
  <2>1. Clean(t) /\ x.held = HeldBy(x)
    BY <1>1, PidFacts DEF Kept, Clean
  <2>2. /\ y.state = t[SHELL].state /\ y.parent = t[SHELL].parent
        /\ Reg(y) = Reg(t[SHELL]) /\ y.held = HeldBy(y)
    BY <1>1, <1>2, <1>7, <1>10, <2>1
  <2> QED BY <1>2, <2>1, <2>2, CleanLocal, PidFacts
<1>13. u[SHELL] = y
  BY <1>2, PidFacts DEF Table
<1> HIDE DEF u
<1>14. Local(y) = Local(x)
  BY <1>7 DEF Local
<1>15. Right(SHELL, y, c, Local(x))
  <2>1. OnWay(s, y.ret, Local(y), c, Local(x))
    BY <1>3, <1>4, <1>14, FirstCall DEF BelowPC
  <2> QED BY <1>3, <1>5, <1>7, <1>8, <2>1 DEF Right
<1>16. PICK R, B : R = [q \in {SHELL} |-> c] /\ B = [q \in {SHELL} |-> Local(x)]
  OBVIOUS
<1>17. R[SHELL] = c /\ B[SHELL] = Local(x)
  BY <1>16
<1>18. LinkOf(y, {SHELL}, R)
  BY <1>3, <1>5, <1>7 DEF LinkOf
<1>19. Good(u, {SHELL}, R, B, c, Local(x))
  BY <1>13, <1>15, <1>17, <1>18, PidFacts DEF Good
<1>20. c # 0
  BY PidFacts DEF NoProgram
<1>21. Results(u, c, Local(x))
  BY <1>19, <1>20 DEF Results
<1>22. Kept(u, N, c, Local(x), FALSE)
  BY <1>11, <1>12, <1>21 DEF Kept
<1> QED BY <1>1, <1>4, <1>6, <1>22 DEF u

-----------------------------------------------------------------------------
(* The actions of Shell, each one of these steps.                          *)

LEMMA AtRuns ==
  ASSUME NEW N, NEW l, NEW e, NEW F, Kept(procs, N, l, e, F), NEW p \in Pids,
         NEW pc, At(p, pc)
  PROVE  Runs(procs, p, pc, Top(p).cmd) /\ Top(p) = procs[p].stack[1]
<1>1. PICK x : x = procs[p]
  OBVIOUS
<1>2. ProcOK(x) /\ x.state = "running" /\ x.stack # <<>>
  BY <1>1, KeptFacts DEF At, Running
<1>3. Head(x.stack) = x.stack[1]
  BY <1>2, TopFacts
<1> QED BY <1>1, <1>3 DEF At, Running, Runs, Top

LEMMA AssignStep ==
  ASSUME NEW N, NEW l, NEW e, NEW F, Kept(procs, N, l, e, F), NEW p \in Pids, Assign(p)
  PROVE  Kept(procs', N, l, e, F)
<1>1. PICK t, h, c : t = procs /\ h = t[p].stack[1] /\ c = h.cmd
  OBVIOUS
<1>2. At(p, "start")
  BY DEF Assign, Simple
<1>3. Runs(t, p, "start", c) /\ Top(p) = h
  BY <1>1, <1>2, AtRuns
<1>4. Kept(t, N, l, e, F)
  BY <1>1
<1>5. Command[c].op = "NONE" /\ Command[c].verb = "="
  BY <1>1, <1>3 DEF Assign, Simple, Node
<1>6. CASE Command[c].arg \notin {NoName, NoValue}
  <2>1. Kept([t EXCEPT ![p] = [ReturnOf(t[p], 0) EXCEPT !.env = Command[c].arg]], N, l, e, F)
    BY <1>3, <1>4, <1>5, <1>6, AssignKeeps
  <2>2. procs' = [t EXCEPT ![p] = [ReturnOf(t[p], 0) EXCEPT !.env = Command[c].arg]]
    BY <1>1, <1>3, <1>6 DEF Assign, Return, ReturnOf, Node
  <2> QED BY <2>1, <2>2
<1>7. NoName # NoValue
  BY DEF NoName, NoValue
<1>8. CASE Command[c].arg = NoName
  <2>1. Kept([t EXCEPT ![p] = ReturnOf(t[p], -1)], N, l, e, F)
    BY <1>3, <1>4, <1>5, <1>8, AssignFailsKeeps
  <2>2. procs' = [t EXCEPT ![p] = ReturnOf(t[p], -1)]
    BY <1>1, <1>3, <1>7, <1>8 DEF Assign, Return, ReturnOf, Node
  <2> QED BY <2>1, <2>2
<1>9. CASE Command[c].arg = NoValue
  <2>1. Kept(ExitTable(t, p, Killed), N, l, e, F)
    BY <1>3, <1>4, <1>5, <1>9, AssignDiesKeeps
  <2>2. procs' = ExitTable(t, p, Killed)
    BY <1>1, <1>3, <1>7, <1>9 DEF Assign, Exit, ExitTable, Node
  <2> QED BY <2>1, <2>2
<1> QED BY <1>6, <1>8, <1>9

LEMMA ExitStepOfShell ==
  ASSUME NEW N, NEW l, NEW e, NEW F, Kept(procs, N, l, e, F), NEW p \in Pids, shell_exit(p)
  PROVE  Kept(procs', N, l, e, F)
<1>1. PICK t, h, c : t = procs /\ h = t[p].stack[1] /\ c = h.cmd
  OBVIOUS
<1>2. At(p, "start")
  BY DEF shell_exit, Simple
<1>3. Runs(t, p, "start", c) /\ Top(p) = h
  BY <1>1, <1>2, AtRuns
<1>4. Kept(t, N, l, e, F)
  BY <1>1
<1>5. Command[c].op = "NONE" /\ Command[c].verb = "exit"
  BY <1>1, <1>3 DEF shell_exit, Simple, Node
<1>6. Kept(ExitTable(t, p, ExitCode(SHELL_EXIT)), N, l, e, F)
  BY <1>3, <1>4, <1>5, ShellExitKeeps
<1>7. procs' = ExitTable(t, p, ExitCode(SHELL_EXIT))
  BY <1>1, <1>3 DEF shell_exit, Exit, ExitTable
<1> QED BY <1>6, <1>7

LEMMA CdChildStep ==
  ASSUME NEW N, NEW l, NEW e, NEW F, Kept(procs, N, l, e, F), NEW p \in Pids, CdChild(p)
  PROVE  Kept(procs', N, l, e, F)
<1>1. PICK t, h, c : t = procs /\ h = t[p].stack[1] /\ c = h.cmd
  OBVIOUS
<1>2. At(p, "cd child")
  BY DEF CdChild
<1>3. Runs(t, p, "cd child", c) /\ Top(p) = h
  BY <1>1, <1>2, AtRuns
<1>4. Kept(t, N, l, e, F)
  BY <1>1
<1>5. Kept(ExitTable(t, p, 0), N, l, e, F)
  BY <1>3, <1>4, CdChildKeeps
<1>6. procs' = ExitTable(t, p, 0)
  BY <1>1, <1>3 DEF CdChild, Exit, ExitTable
<1> QED BY <1>5, <1>6

LEMMA LastStep ==
  ASSUME NEW N, NEW l, NEW e, NEW F, Kept(procs, N, l, e, F), NEW p \in Pids, Last(p)
  PROVE  Kept(procs', N, l, e, F)
<1>1. PICK t, h, c : t = procs /\ h = t[p].stack[1] /\ c = h.cmd
  OBVIOUS
<1>2. At(p, "last")
  BY DEF Last
<1>3. Runs(t, p, "last", c) /\ Top(p) = h
  BY <1>1, <1>2, AtRuns
<1>4. Kept(t, N, l, e, F)
  BY <1>1
<1>5. Kept([t EXCEPT ![p] = ReturnOf(t[p], t[p].ret)], N, l, e, F)
  BY <1>3, <1>4, LastKeeps
<1>6. procs' = [t EXCEPT ![p] = ReturnOf(t[p], t[p].ret)]
  BY <1>1, <1>3 DEF Last, Return, ReturnOf
<1> QED BY <1>5, <1>6

LEMMA ExecStep ==
  ASSUME NEW N, NEW l, NEW e, NEW F, Kept(procs, N, l, e, F), NEW p \in Pids, Exec(p)
  PROVE  Kept(procs', N, l, e, F)
<1>1. PICK t, h, c : t = procs /\ h = t[p].stack[1] /\ c = h.cmd
  OBVIOUS
<1>2. At(p, "exec")
  BY DEF Exec
<1>3. Runs(t, p, "exec", c) /\ Top(p) = h
  BY <1>1, <1>2, AtRuns
<1>4. Kept(t, N, l, e, F)
  BY <1>1
<1>5. Kept([t EXCEPT ![p] = ExecOf(t[p], c)], N, l, e, F)
  BY <1>3, <1>4, ExecKeeps
<1>6. procs' = [t EXCEPT ![p] = ExecOf(t[p], c)]
  <2>1. Top(p).cmd = c /\ Node(p) = Command[c]
    BY <1>1, <1>3 DEF Node
  <2> QED BY <1>1, <2>1 DEF Exec, ExecOf
<1> QED BY <1>5, <1>6

LEMMA FirstStep ==
  ASSUME NEW N, NEW l, NEW e, NEW F, Kept(procs, N, l, e, F), NEW p \in Pids, First(p)
  PROVE  Kept(procs', N, l, e, F)
<1>1. PICK t, h, c : t = procs /\ h = t[p].stack[1] /\ c = h.cmd
  OBVIOUS
<1>2. At(p, "start")
  BY DEF First
<1>3. Runs(t, p, "start", c) /\ Top(p) = h
  BY <1>1, <1>2, AtRuns
<1>4. Kept(t, N, l, e, F)
  BY <1>1
<1>5. Command[c].op \in {"SEQUENTIAL", "CONDITIONAL_ZERO", "CONDITIONAL_NZERO"}
  BY <1>1, <1>3 DEF First, Node
<1>6. Kept([t EXCEPT ![p] = CallOf(t[p], Call(Command[c].cmd1, "start"),
                              [t[p].stack[1] EXCEPT !.pc = "second"])], N, l, e, F)
  BY <1>3, <1>4, <1>5, FirstKeeps
<1>7. procs' = [t EXCEPT ![p] = CallOf(t[p], Call(Command[c].cmd1, "start"),
                              [t[p].stack[1] EXCEPT !.pc = "second"])]
  BY <1>1, <1>3 DEF First, Push, CallOf, Node
<1> QED BY <1>6, <1>7

LEMMA SecondStep ==
  ASSUME NEW N, NEW l, NEW e, NEW F, Kept(procs, N, l, e, F), NEW p \in Pids, Second(p)
  PROVE  Kept(procs', N, l, e, F)
<1>1. PICK t, h, c : t = procs /\ h = t[p].stack[1] /\ c = h.cmd
  OBVIOUS
<1>2. At(p, "second")
  BY DEF Second
<1>3. Runs(t, p, "second", c) /\ Top(p) = h
  BY <1>1, <1>2, AtRuns
<1>4. Kept(t, N, l, e, F)
  BY <1>1
<1>5. Kept([t EXCEPT ![p] = IF GoesOn(Command[c].op, t[p].ret)
                          THEN CallOf(t[p], Call(Command[c].cmd2, "start"),
                                      [t[p].stack[1] EXCEPT !.pc = "last"])
                          ELSE ReturnOf(t[p], t[p].ret)], N, l, e, F)
  BY <1>3, <1>4, SecondKeeps
<1>6. procs' = [t EXCEPT ![p] = IF GoesOn(Command[c].op, t[p].ret)
                          THEN CallOf(t[p], Call(Command[c].cmd2, "start"),
                                      [t[p].stack[1] EXCEPT !.pc = "last"])
                          ELSE ReturnOf(t[p], t[p].ret)]
  BY <1>1, <1>3 DEF Second, Push, CallOf, Node, Return, ReturnOf
<1> QED BY <1>5, <1>6

LEMMA ClosePipeStep ==
  ASSUME NEW N, NEW l, NEW e, NEW F, Kept(procs, N, l, e, F), NEW p \in Pids, ClosePipe(p)
  PROVE  Kept(procs', N, l, e, F)
<1>1. PICK t, h, c : t = procs /\ h = t[p].stack[1] /\ c = h.cmd
  OBVIOUS
<1>2. At(p, "close")
  BY DEF ClosePipe
<1>3. Runs(t, p, "close", c) /\ Top(p) = h
  BY <1>1, <1>2, AtRuns
<1>4. Kept(t, N, l, e, F)
  BY <1>1
<1>5. Kept([t EXCEPT ![p] = Closes(t[p], [t[p].stack[1] EXCEPT !.pc = "wait1"])], N, l, e, F)
  BY <1>3, <1>4, CloseKeeps
<1>6. procs' = [t EXCEPT ![p] = Closes(t[p], [t[p].stack[1] EXCEPT !.pc = "wait1"])]
  BY <1>1, <1>3 DEF ClosePipe, Closes, Going, Goto, Ends, EndsOf
<1> QED BY <1>5, <1>6

LEMMA CdStep ==
  ASSUME NEW N, NEW l, NEW e, NEW F, Kept(procs, N, l, e, F), NEW p \in Pids, shell_cd(p)
  PROVE  Kept(procs', N, l, e, F)
<1>1. PICK t, h, c : t = procs /\ h = t[p].stack[1] /\ c = h.cmd
  OBVIOUS
<1>2. At(p, "cd")
  BY DEF shell_cd
<1>3. Runs(t, p, "cd", c) /\ Top(p) = h
  BY <1>1, <1>2, AtRuns
<1>4. Kept(t, N, l, e, F)
  BY <1>1
<1>5. PICK q : q = h.pid1
  OBVIOUS
<1>6. t[q].state = "zombie"
  BY <1>1, <1>3, <1>5 DEF shell_cd, Wait
<1>7. Kept(WaitTable(t, p, q, IF Command[c].arg \in Dirs
                            THEN [ReturnOf(t[p], 0) EXCEPT !.cwd = Command[c].arg]
                            ELSE ReturnOf(t[p], -1)), N, l, e, F)
  BY <1>1, <1>3, <1>4, <1>5, <1>6, CdKeeps
<1>8. procs' = WaitTable(t, p, q, IF Command[c].arg \in Dirs
                            THEN [ReturnOf(t[p], 0) EXCEPT !.cwd = Command[c].arg]
                            ELSE ReturnOf(t[p], -1))
  BY <1>1, <1>3, <1>5 DEF shell_cd, Wait, WaitTable, Return, ReturnOf, Node
<1> QED BY <1>7, <1>8

LEMMA WaitSimpleStep ==
  ASSUME NEW N, NEW l, NEW e, NEW F, Kept(procs, N, l, e, F), NEW p \in Pids, WaitSimple(p)
  PROVE  Kept(procs', N, l, e, F)
<1>1. PICK t, h, c : t = procs /\ h = t[p].stack[1] /\ c = h.cmd
  OBVIOUS
<1>2. At(p, "wait")
  BY DEF WaitSimple
<1>3. Runs(t, p, "wait", c) /\ Top(p) = h
  BY <1>1, <1>2, AtRuns
<1>4. Kept(t, N, l, e, F)
  BY <1>1
<1>5. PICK q : q = h.pid1
  OBVIOUS
<1>6. t[q].state = "zombie"
  BY <1>1, <1>3, <1>5 DEF WaitSimple, Wait
<1>7. Kept(WaitTable(t, p, q, ReturnOf(t[p], IF WIFEXITED(t[q].code) THEN t[q].code ELSE -1)), N, l, e, F)
  BY <1>1, <1>3, <1>4, <1>5, <1>6, WaitSimpleKeeps
<1>8. procs' = WaitTable(t, p, q, ReturnOf(t[p], IF WIFEXITED(t[q].code) THEN t[q].code ELSE -1))
  BY <1>1, <1>3, <1>5 DEF WaitSimple, Wait, WaitTable, Return, ReturnOf
<1> QED BY <1>7, <1>8

LEMMA Wait1Step ==
  ASSUME NEW N, NEW l, NEW e, NEW F, Kept(procs, N, l, e, F), NEW p \in Pids, Wait1(p)
  PROVE  Kept(procs', N, l, e, F)
<1>1. PICK t, h, c : t = procs /\ h = t[p].stack[1] /\ c = h.cmd
  OBVIOUS
<1>2. At(p, "wait1")
  BY DEF Wait1
<1>3. Runs(t, p, "wait1", c) /\ Top(p) = h
  BY <1>1, <1>2, AtRuns
<1>4. Kept(t, N, l, e, F)
  BY <1>1
<1>5. PICK q : q = h.pid1
  OBVIOUS
<1>6. t[q].state = "zombie"
  BY <1>1, <1>3, <1>5 DEF Wait1, Wait
<1>7. Kept(WaitTable(t, p, q, Going(t[p], [t[p].stack[1] EXCEPT !.pc = "wait2"])), N, l, e, F)
  BY <1>1, <1>3, <1>4, <1>5, <1>6, Wait1Keeps
<1>8. procs' = WaitTable(t, p, q, Going(t[p], [t[p].stack[1] EXCEPT !.pc = "wait2"]))
  BY <1>1, <1>3, <1>5 DEF Wait1, Wait, WaitTable, Goto, Going
<1> QED BY <1>7, <1>8

LEMMA Wait2Step ==
  ASSUME NEW N, NEW l, NEW e, NEW F, Kept(procs, N, l, e, F), NEW p \in Pids, Wait2(p)
  PROVE  Kept(procs', N, l, e, F)
<1>1. PICK t, h, c : t = procs /\ h = t[p].stack[1] /\ c = h.cmd
  OBVIOUS
<1>2. At(p, "wait2")
  BY DEF Wait2
<1>3. Runs(t, p, "wait2", c) /\ Top(p) = h
  BY <1>1, <1>2, AtRuns
<1>4. Kept(t, N, l, e, F)
  BY <1>1
<1>5. PICK q : q = h.pid2
  OBVIOUS
<1>6. t[q].state = "zombie"
  BY <1>1, <1>3, <1>5 DEF Wait2, Wait
<1>7. Kept(WaitTable(t, p, q, ReturnOf(t[p], IF WIFEXITED(t[q].code) THEN t[q].code ELSE 0)), N, l, e, F)
  BY <1>1, <1>3, <1>4, <1>5, <1>6, Wait2Keeps
<1>8. procs' = WaitTable(t, p, q, ReturnOf(t[p], IF WIFEXITED(t[q].code) THEN t[q].code ELSE 0))
  BY <1>1, <1>3, <1>5 DEF Wait2, Wait, WaitTable, Return, ReturnOf
<1> QED BY <1>7, <1>8

LEMMA PipeStep ==
  ASSUME NEW N, NEW l, NEW e, NEW F, Kept(procs, N, l, e, F), NEW p \in Pids, Pipe(p),
         pipes \in Seq(Nat)
  PROVE  Kept(procs', N, l, e, F)
<1>1. PICK t, h, c : t = procs /\ h = t[p].stack[1] /\ c = h.cmd
  OBVIOUS
<1>2. At(p, "start")
  BY DEF Pipe
<1>3. Runs(t, p, "start", c) /\ Top(p) = h
  BY <1>1, <1>2, AtRuns
<1>4. Kept(t, N, l, e, F)
  BY <1>1
<1>5. PICK i : i = Len(pipes) + 1
  OBVIOUS
<1>6. i \in Nat
  BY <1>5
<1>7. Command[c].op = "PIPE"
  BY <1>1, <1>3 DEF Pipe, Node
<1>8. PICK f : f = [h EXCEPT !.pc = "fork1", !.pipefd = i]
  OBVIOUS
<1>9. PICK y : y = [Going(t[p], f) EXCEPT !.held = @ \cup {<<i, "r">>, <<i, "w">>}]
  OBVIOUS
<1>10. Kept([t EXCEPT ![p] = y], N, l, e, F)
  <2>1. Kept([t EXCEPT ![p] = [Going(t[p], [t[p].stack[1] EXCEPT !.pc = "fork1", !.pipefd = i])
                               EXCEPT !.held = @ \cup {<<i, "r">>, <<i, "w">>}]], N, l, e, F)
    BY <1>3, <1>4, <1>6, <1>7, PipeKeeps
  <2> QED BY <1>1, <1>8, <1>9, <2>1
<1>11. procs' = [t EXCEPT ![p].stack = <<f>> \o Tail(@),
                          ![p].held = @ \cup {<<i, "r">>, <<i, "w">>}]
  BY <1>1, <1>3, <1>5, <1>8 DEF Pipe
<1>12. t \in Table /\ t[p] \in Proc
  BY <1>4, KeptFacts
<1>13. [t EXCEPT ![p].stack = <<f>> \o Tail(@), ![p].held = @ \cup {<<i, "r">>, <<i, "w">>}]
         = [t EXCEPT ![p] = y]
  BY <1>9, <1>12 DEF Going, Table, Proc
<1> QED BY <1>10, <1>11, <1>13

LEMMA ConnectStep ==
  ASSUME NEW N, NEW l, NEW e, NEW F, Kept(procs, N, l, e, F), NEW p \in Pids, Connect(p)
  PROVE  Kept(procs', N, l, e, F)
<1>1. PICK t, h, c : t = procs /\ h = t[p].stack[1] /\ c = h.cmd
  OBVIOUS
<1>2. PICK y, i : y = Closes(t[p], [t[p].stack[1] EXCEPT !.pc = "start"]) /\ i = h.pipefd
  OBVIOUS
<1>3. Kept(t, N, l, e, F)
  BY <1>1
<1>4. CASE At(p, "write end") /\
           procs' = [procs EXCEPT ![p] = [Goto(p, "start") EXCEPT
                       !.held = @ \ Ends(p), !.out = Top(p).pipefd]]
  <2>1. Runs(t, p, "write end", c) /\ Top(p) = h
    BY <1>1, <1>4, AtRuns
  <2>2. Kept([t EXCEPT ![p] = [y EXCEPT !.out = i]], N, l, e, F)
    BY <1>1, <1>2, <1>3, <2>1, ConnectKeeps
  <2>3. procs' = [t EXCEPT ![p] = [y EXCEPT !.out = i]]
    BY <1>1, <1>2, <1>4, <2>1 DEF Closes, Going, Goto, Ends, EndsOf
  <2> QED BY <2>2, <2>3
<1>5. CASE At(p, "read end") /\
           procs' = [procs EXCEPT ![p] = [Goto(p, "start") EXCEPT
                       !.held = @ \ Ends(p), !.in = Top(p).pipefd]]
  <2>1. Runs(t, p, "read end", c) /\ Top(p) = h
    BY <1>1, <1>5, AtRuns
  <2>2. Kept([t EXCEPT ![p] = [y EXCEPT !.in = i]], N, l, e, F)
    BY <1>1, <1>2, <1>3, <2>1, ConnectKeeps
  <2>3. procs' = [t EXCEPT ![p] = [y EXCEPT !.in = i]]
    BY <1>1, <1>2, <1>5, <2>1 DEF Closes, Going, Goto, Ends, EndsOf
  <2> QED BY <2>2, <2>3
<1> QED BY <1>4, <1>5 DEF Connect

LEMMA ExitChildStep ==
  ASSUME NEW N, NEW l, NEW e, NEW F, Kept(procs, N, l, e, F), NEW p \in Pids, ExitChild(p)
  PROVE  Kept(procs', N, l, e, F)
<1>1. PICK t : t = procs
  OBVIOUS
<1>2. Kept(ExitTable(t, p, ExitCode(t[p].ret)), N, l, e, F)
  BY <1>1, ExitChildKeeps DEF ExitChild, Running
<1>3. procs' = ExitTable(t, p, ExitCode(t[p].ret))
  BY <1>1 DEF ExitChild, Exit, ExitTable
<1> QED BY <1>2, <1>3

LEMMA WriteStep ==
  ASSUME NEW N, NEW l, NEW e, NEW F, Kept(procs, N, l, e, F), NEW p \in Pids, Write(p)
  PROVE  Kept(procs', N, l, e, F)
<1>1. PICK t : t = procs
  OBVIOUS
<1>2. t[p].state = "running" /\ t[p].prog # NoProgram /\ t[p].items > 0
  BY <1>1 DEF Write, Executing, Running
<1>3. t \in Table /\ t[p].items \in Nat
  BY <1>1, KeptFacts DEF Proc
<1>4. PICK v : v = t[p].items - 1
  OBVIOUS
<1>5. v \in Nat
  BY <1>2, <1>3, <1>4
<1>6. CASE procs' = [procs EXCEPT ![p].items = @ - 1]
  <2>1. Kept([t EXCEPT ![p] = [t[p] EXCEPT !.items = v]], N, l, e, F)
    BY <1>1, <1>2, <1>5, ProgramKeeps
  <2>2. procs' = [t EXCEPT ![p] = [t[p] EXCEPT !.items = v]]
    BY <1>1, <1>3, <1>4, <1>6 DEF Table
  <2> QED BY <2>1, <2>2
<1>7. CASE t[p].out # NoPipe /\ Exit(p, Killed)
  <2>1. Kept(ExitTable(t, p, Killed), N, l, e, F)
    BY <1>1, <1>2, <1>7, FinishKeeps
  <2>2. procs' = ExitTable(t, p, Killed)
    BY <1>1, <1>7 DEF Exit, ExitTable
  <2> QED BY <2>1, <2>2
<1> QED BY <1>1, <1>6, <1>7 DEF Write

LEMMA ReadStep ==
  ASSUME NEW N, NEW l, NEW e, NEW F, Kept(procs, N, l, e, F), NEW p \in Pids, Read(p)
  PROVE  Kept(procs', N, l, e, F)
<1>1. PICK t, v : t = procs /\ v = IF Program(p).reads = "filter" THEN 1 ELSE 0
  OBVIOUS
<1>2. t[p].state = "running" /\ t[p].prog # NoProgram /\ v \in Nat /\ t \in Table
  BY <1>1, KeptFacts DEF Read, Executing, Running
<1>3. Kept([t EXCEPT ![p] = [t[p] EXCEPT !.items = v]], N, l, e, F)
  BY <1>1, <1>2, ProgramKeeps
<1>4. procs' = [t EXCEPT ![p] = [t[p] EXCEPT !.items = v]]
  BY <1>1, <1>2 DEF Read, Table
<1> QED BY <1>3, <1>4

LEMMA FinishStep ==
  ASSUME NEW N, NEW l, NEW e, NEW F, Kept(procs, N, l, e, F), NEW p \in Pids, Finish(p)
  PROVE  Kept(procs', N, l, e, F)
<1>1. PICK t : t = procs
  OBVIOUS
<1>2. t[p].state = "running" /\ t[p].prog # NoProgram
  BY <1>1 DEF Finish, Executing, Running
<1>3. Kept(ExitTable(t, p, Command[t[p].prog].arg), N, l, e, F)
  BY <1>1, <1>2, FinishKeeps
<1>4. procs' = ExitTable(t, p, Command[t[p].prog].arg)
  BY <1>1 DEF Finish, Exit, ExitTable, Program
<1> QED BY <1>3, <1>4

\* The four places where the shell forks: fork works, or it fails.
LEMMA CdForkStep ==
  ASSUME NEW N, NEW l, NEW e, NEW F, Kept(procs, N, l, e, F), N \in Nat, N <= MaxForkFailures,
         N = failures, F = failed, NEW p \in Pids, CdFork(p)
  PROVE  Kept(procs', failures', l, e, failed')
<1>1. PICK t, h, c : t = procs /\ h = t[p].stack[1] /\ c = h.cmd
  OBVIOUS
<1>2. At(p, "start")
  BY DEF CdFork, Simple
<1>3. (Runs(t, p, "start", c)) /\ Top(p) = h
  BY <1>1, <1>2, AtRuns
<1>4. Kept(t, N, l, e, F)
  BY <1>1
<1>5. Command[c].op = "NONE" /\ Command[c].verb = "cd"
  BY <1>1, <1>3 DEF CdFork, Simple, Node
<1>6. PICK n, f, g : /\ n = FreePid(t)
                     /\ f = [h EXCEPT !.pc = "cd", !.pid1 = n]
                     /\ g = Call(c, "cd child")
  OBVIOUS
<1>7. NewPid = n
  BY <1>1, <1>6 DEF NewPid, FreePid
<1>8. ASSUME Fork(p, [Top(p) EXCEPT !.pc = "cd", !.pid1 = NewPid],
                  Call(Top(p).cmd, "cd child"))
      PROVE  Kept(procs', failures', l, e, failed')
  <2>1. \E q \in Pids : t[q].state = "unused"
    BY <1>1, <1>8 DEF Fork
  <2>2. n \in Pids /\ t[n].state = "unused"
    BY <1>6, <2>1, FreePidIs
  <2>3. Kept(ForkTable(t, p, n, f, g), N, l, e, F)
    <3>1. Kept(ForkTable(t, p, n, [t[p].stack[1] EXCEPT !.pc = "cd", !.pid1 = n],
                         Call(c, "cd child")), N, l, e, F)
      BY <1>3, <1>4, <1>5, <2>2, CdForkKeeps
    <3> QED BY <1>1, <1>6, <3>1
  <2>4. procs' = ForkTable(t, p, n, f, g)
    BY <1>1, <1>3, <1>5, <1>6, <1>7, <1>8 DEF Fork, ForkTable, Node
  <2>5. failures' = N /\ failed' = F
    BY <1>8 DEF Fork
  <2> QED BY <2>3, <2>4, <2>5
<1>9. ASSUME ForkFails(p, -1)
      PROVE  Kept(procs', failures', l, e, failed')
  <2>1. PICK M : M = failures'
    OBVIOUS
  <2>2. M # MaxForkFailures
    BY <1>9, <2>1, ShellAssumption DEF ForkFails
  <2>3. -1 \in Status /\ t[p].state = "running" /\ t[p].stack # <<>>
    BY <1>3 DEF Status, Runs
  <2>4. Kept([t EXCEPT ![p] = ReturnOf(t[p], -1)], M, l, e, TRUE)
    BY <1>4, <2>2, <2>3, FailKeeps
  <2>5. procs' = [t EXCEPT ![p] = ReturnOf(t[p], -1)] /\ failed' = TRUE
    BY <1>1, <1>9 DEF ForkFails, Return, ReturnOf
  <2> QED BY <2>1, <2>4, <2>5
<1> QED BY <1>8, <1>9 DEF CdFork

LEMMA RunForkStep ==
  ASSUME NEW N, NEW l, NEW e, NEW F, Kept(procs, N, l, e, F), N \in Nat, N <= MaxForkFailures,
         N = failures, F = failed, NEW p \in Pids, parse_simple(p)
  PROVE  Kept(procs', failures', l, e, failed')
<1>1. PICK t, h, c : t = procs /\ h = t[p].stack[1] /\ c = h.cmd
  OBVIOUS
<1>2. At(p, "start")
  BY DEF parse_simple, Simple
<1>3. (Runs(t, p, "start", c)) /\ Top(p) = h
  BY <1>1, <1>2, AtRuns
<1>4. Kept(t, N, l, e, F)
  BY <1>1
<1>5. Command[c].op = "NONE" /\ Command[c].verb = "run"
  BY <1>1, <1>3 DEF parse_simple, Simple, Node
<1>6. PICK n, f, g : /\ n = FreePid(t)
                     /\ f = [h EXCEPT !.pc = "wait", !.pid1 = n]
                     /\ g = Call(c, "exec")
  OBVIOUS
<1>7. NewPid = n
  BY <1>1, <1>6 DEF NewPid, FreePid
<1>8. ASSUME Fork(p, [Top(p) EXCEPT !.pc = "wait", !.pid1 = NewPid],
                  Call(Top(p).cmd, "exec"))
      PROVE  Kept(procs', failures', l, e, failed')
  <2>1. \E q \in Pids : t[q].state = "unused"
    BY <1>1, <1>8 DEF Fork
  <2>2. n \in Pids /\ t[n].state = "unused"
    BY <1>6, <2>1, FreePidIs
  <2>3. Kept(ForkTable(t, p, n, f, g), N, l, e, F)
    <3>1. Kept(ForkTable(t, p, n, [t[p].stack[1] EXCEPT !.pc = "wait", !.pid1 = n],
                         Call(c, "exec")), N, l, e, F)
      BY <1>3, <1>4, <1>5, <2>2, RunForkKeeps
    <3> QED BY <1>1, <1>6, <3>1
  <2>4. procs' = ForkTable(t, p, n, f, g)
    BY <1>1, <1>3, <1>5, <1>6, <1>7, <1>8 DEF Fork, ForkTable, Node
  <2>5. failures' = N /\ failed' = F
    BY <1>8 DEF Fork
  <2> QED BY <2>3, <2>4, <2>5
<1>9. ASSUME ForkFails(p, -1)
      PROVE  Kept(procs', failures', l, e, failed')
  <2>1. PICK M : M = failures'
    OBVIOUS
  <2>2. M # MaxForkFailures
    BY <1>9, <2>1, ShellAssumption DEF ForkFails
  <2>3. -1 \in Status /\ t[p].state = "running" /\ t[p].stack # <<>>
    BY <1>3 DEF Status, Runs
  <2>4. Kept([t EXCEPT ![p] = ReturnOf(t[p], -1)], M, l, e, TRUE)
    BY <1>4, <2>2, <2>3, FailKeeps
  <2>5. procs' = [t EXCEPT ![p] = ReturnOf(t[p], -1)] /\ failed' = TRUE
    BY <1>1, <1>9 DEF ForkFails, Return, ReturnOf
  <2> QED BY <2>1, <2>4, <2>5
<1> QED BY <1>8, <1>9 DEF parse_simple

LEMMA Fork1Step ==
  ASSUME NEW N, NEW l, NEW e, NEW F, Kept(procs, N, l, e, F), N \in Nat, N <= MaxForkFailures,
         N = failures, F = failed, NEW p \in Pids, Fork1(p)
  PROVE  Kept(procs', failures', l, e, failed')
<1>1. PICK t, h, c : t = procs /\ h = t[p].stack[1] /\ c = h.cmd
  OBVIOUS
<1>2. At(p, "fork1") \/ (At(p, "start") /\ Node(p).op = "PARALLEL")
  BY DEF Fork1, Simple
<1>3. (Runs(t, p, "fork1", c) \/ (Runs(t, p, "start", c) /\ Command[c].op = "PARALLEL")) /\ Top(p) = h
  BY <1>1, <1>2, AtRuns DEF Node
<1>4. Kept(t, N, l, e, F)
  BY <1>1
<1>5. PICK pc, to, d : /\ pc = IF Command[c].op = "PIPE" THEN "write end" ELSE "start"
                       /\ to = "fork2"
                       /\ d = Command[c].cmd1
  OBVIOUS
<1>6. PICK n, f, g : /\ n = FreePid(t)
                     /\ f = [h EXCEPT !.pc = to, !.pid1 = n]
                     /\ g = [Call(d, pc) EXCEPT !.pipefd = h.pipefd]
  OBVIOUS
<1>7. NewPid = n
  BY <1>1, <1>6 DEF NewPid, FreePid
<1>8. ASSUME Fork(p, [Top(p) EXCEPT !.pc = "fork2", !.pid1 = NewPid],
                  [Call(Node(p).cmd1, IF Node(p).op = "PIPE" THEN "write end" ELSE "start")
                     EXCEPT !.pipefd = Top(p).pipefd])
      PROVE  Kept(procs', failures', l, e, failed')
  <2>1. \E q \in Pids : t[q].state = "unused"
    BY <1>1, <1>8 DEF Fork
  <2>2. n \in Pids /\ t[n].state = "unused"
    BY <1>6, <2>1, FreePidIs
  <2>3. Kept(ForkTable(t, p, n, f, g), N, l, e, F)
    <3>1. Kept(ForkTable(t, p, n, [t[p].stack[1] EXCEPT !.pc = to, !.pid1 = n],
                         [Call(Command[c].cmd1, pc) EXCEPT !.pipefd = t[p].stack[1].pipefd]),
               N, l, e, F)
      BY <1>3, <1>4, <1>5, <2>2, Fork1Keeps
    <3> QED BY <1>1, <1>5, <1>6, <3>1
  <2>4. procs' = ForkTable(t, p, n, f, g)
    BY <1>1, <1>3, <1>5, <1>6, <1>7, <1>8 DEF Fork, ForkTable, Node
  <2>5. failures' = N /\ failed' = F
    BY <1>8 DEF Fork
  <2> QED BY <2>3, <2>4, <2>5
<1>9. ASSUME ForkFails(p, 0)
      PROVE  Kept(procs', failures', l, e, failed')
  <2>1. PICK M : M = failures'
    OBVIOUS
  <2>2. M # MaxForkFailures
    BY <1>9, <2>1, ShellAssumption DEF ForkFails
  <2>3. 0 \in Status /\ t[p].state = "running" /\ t[p].stack # <<>>
    BY <1>3 DEF Status, Runs
  <2>4. Kept([t EXCEPT ![p] = ReturnOf(t[p], 0)], M, l, e, TRUE)
    BY <1>4, <2>2, <2>3, FailKeeps
  <2>5. procs' = [t EXCEPT ![p] = ReturnOf(t[p], 0)] /\ failed' = TRUE
    BY <1>1, <1>9 DEF ForkFails, Return, ReturnOf
  <2> QED BY <2>1, <2>4, <2>5
<1> QED BY <1>8, <1>9 DEF Fork1

LEMMA Fork2Step ==
  ASSUME NEW N, NEW l, NEW e, NEW F, Kept(procs, N, l, e, F), N \in Nat, N <= MaxForkFailures,
         N = failures, F = failed, NEW p \in Pids, Fork2(p)
  PROVE  Kept(procs', failures', l, e, failed')
<1>1. PICK t, h, c : t = procs /\ h = t[p].stack[1] /\ c = h.cmd
  OBVIOUS
<1>2. At(p, "fork2")
  BY DEF Fork2, Simple
<1>3. (Runs(t, p, "fork2", c)) /\ Top(p) = h
  BY <1>1, <1>2, AtRuns
<1>4. Kept(t, N, l, e, F)
  BY <1>1
<1>5. PICK pc, to, d : /\ pc = IF Command[c].op = "PIPE" THEN "read end" ELSE "start"
                       /\ to = IF Command[c].op = "PIPE" THEN "close" ELSE "wait1"
                       /\ d = Command[c].cmd2
  OBVIOUS
<1>6. PICK n, f, g : /\ n = FreePid(t)
                     /\ f = [h EXCEPT !.pc = to, !.pid2 = n]
                     /\ g = [Call(d, pc) EXCEPT !.pipefd = h.pipefd]
  OBVIOUS
<1>7. NewPid = n
  BY <1>1, <1>6 DEF NewPid, FreePid
<1>8. ASSUME Fork(p, [Top(p) EXCEPT !.pc = IF Node(p).op = "PIPE" THEN "close" ELSE "wait1", !.pid2 = NewPid],
                  [Call(Node(p).cmd2, IF Node(p).op = "PIPE" THEN "read end" ELSE "start")
                     EXCEPT !.pipefd = Top(p).pipefd])
      PROVE  Kept(procs', failures', l, e, failed')
  <2>1. \E q \in Pids : t[q].state = "unused"
    BY <1>1, <1>8 DEF Fork
  <2>2. n \in Pids /\ t[n].state = "unused"
    BY <1>6, <2>1, FreePidIs
  <2>3. Kept(ForkTable(t, p, n, f, g), N, l, e, F)
    <3>1. Kept(ForkTable(t, p, n, [t[p].stack[1] EXCEPT !.pc = to, !.pid2 = n],
                         [Call(Command[c].cmd2, pc) EXCEPT !.pipefd = t[p].stack[1].pipefd]),
               N, l, e, F)
      BY <1>3, <1>4, <1>5, <2>2, Fork2Keeps
    <3> QED BY <1>1, <1>5, <1>6, <3>1
  <2>4. procs' = ForkTable(t, p, n, f, g)
    BY <1>1, <1>3, <1>5, <1>6, <1>7, <1>8 DEF Fork, ForkTable, Node
  <2>5. failures' = N /\ failed' = F
    BY <1>8 DEF Fork
  <2> QED BY <2>3, <2>4, <2>5
<1>9. ASSUME ForkFails(p, 0)
      PROVE  Kept(procs', failures', l, e, failed')
  <2>1. PICK M : M = failures'
    OBVIOUS
  <2>2. M # MaxForkFailures
    BY <1>9, <2>1, ShellAssumption DEF ForkFails
  <2>3. 0 \in Status /\ t[p].state = "running" /\ t[p].stack # <<>>
    BY <1>3 DEF Status, Runs
  <2>4. Kept([t EXCEPT ![p] = ReturnOf(t[p], 0)], M, l, e, TRUE)
    BY <1>4, <2>2, <2>3, FailKeeps
  <2>5. procs' = [t EXCEPT ![p] = ReturnOf(t[p], 0)] /\ failed' = TRUE
    BY <1>1, <1>9 DEF ForkFails, Return, ReturnOf
  <2> QED BY <2>1, <2>4, <2>5
<1> QED BY <1>8, <1>9 DEF Fork2

-----------------------------------------------------------------------------
(* The invariant of the shell.                                             *)

ShellInv ==
  /\ script \in Seq(Commands)
  /\ pipes \in Seq(Nat)
  /\ failures \in 0 .. MaxForkFailures
  /\ Kept(procs, failures, line, start, failed)

\* The table at the start: the shell alone.
LEMMA FirstTable ==
  ASSUME NEW t, t = [p \in Pids |-> IF p = SHELL THEN [Unused EXCEPT !.state = "running"]
                                    ELSE Unused],
         NEW N, NEW e, NEW F
  PROVE  Kept(t, N, 0, e, F)
<1>1. PICK x : x = [Unused EXCEPT !.state = "running"]
  OBVIOUS
<1>2. /\ x \in Proc /\ x.state = "running" /\ x.parent = NoPid /\ x.stack = <<>>
      /\ x.prog = NoProgram /\ x.out = NoPipe /\ x.held = {}
  <2>1. x.state = "running" /\ x.parent = NoPid /\ x.stack = <<>>
        /\ x.prog = NoProgram /\ x.out = NoPipe /\ x.held = {}
    BY <1>1 DEF Unused
  <2>2. x \in Proc
    BY <1>1, UnusedOK DEF Proc, State
  <2> QED BY <2>1, <2>2
<1>3. t[SHELL] = x /\ (\A p \in Pids \ {SHELL} : t[p] = Unused) /\ t \in Table
  BY <1>1, <1>2, UnusedOK, PidFacts DEF Table
<1>4. ProcOK(x) /\ Reg(x) = {} /\ ShellOK(x) /\ HeldBy(x) = {}
  <2>1. StackOK(<<>>)
    BY UnusedOK DEF ProcOK, Unused
  <2>2. ProcOK(x) /\ Reg(x) = {} /\ HeldBy(x) = {}
    BY <1>2, <2>1 DEF ProcOK, Reg, HeldBy
  <2>3. Len(x.stack) = 0
    BY <1>2
  <2>4. ShellOK(x)
    BY <1>2, <2>3 DEF ShellOK
  <2> QED BY <2>2, <2>4
<1>5. HeldBy(Unused) = {}
  BY UnusedOK DEF HeldBy
<1>6. \A p \in Pids : ProcOK(t[p]) /\ Reg(t[p]) = {} /\ t[p].held = HeldBy(t[p])
  BY <1>2, <1>3, <1>4, <1>5, UnusedOK
<1>7. Struct(t)
  BY <1>3, <1>4, <1>6 DEF Struct, Tree
<1>8. Awaited(t)
  BY <1>3, UnusedOK DEF Awaited
<1>9. Rooted(t)
  BY <1>3, UnusedOK DEF Rooted, Closed
<1>10. Results(t, 0, e)
  BY <1>2, <1>3 DEF Results
<1> QED BY <1>6, <1>7, <1>8, <1>9, <1>10 DEF Kept, Clean

LEMMA ShellInvInit == Init => ShellInv
<1> SUFFICES ASSUME Init PROVE ShellInv
  OBVIOUS
<1>1. PICK t : t = procs
  OBVIOUS
<1>2. t = [p \in Pids |-> IF p = SHELL THEN [Unused EXCEPT !.state = "running"] ELSE Unused]
  BY <1>1 DEF Init
<1>3. Kept(t, failures, 0, start, failed)
  BY <1>2, FirstTable
<1>4. script \in Seq(Commands) /\ pipes \in Seq(Nat) /\ failures \in 0 .. MaxForkFailures
  BY ShellAssumption DEF Init
<1> QED BY <1>1, <1>3, <1>4 DEF ShellInv, Init

LEMMA PipeSet ==
  ASSUME NEW s \in Seq(Nat), NEW i, NEW v, i \in 1 .. Len(s) => v \in Nat
  PROVE  [s EXCEPT ![i] = v] \in Seq(Nat)
<1>1. PICK n \in Nat : n = Len(s)
  OBVIOUS
<1>2. s \in [1 .. n -> Nat]
  BY <1>1
<1>3. [s EXCEPT ![i] = v] \in [1 .. n -> Nat]
  BY <1>1, <1>2
<1> QED BY <1>1, <1>3

\* The contents of the pipes stay counts.
LEMMA PipesKept ==
  ASSUME pipes \in Seq(Nat), NEW p \in Pids, Step(p)
  PROVE  pipes' \in Seq(Nat)
<1>1. CASE Pipe(p)
  BY <1>1 DEF Pipe
<1>2. CASE Write(p)
  <2>1. PICK s, i : s = pipes /\ i = procs[p].out
    OBVIOUS
  <2>2. i \in 1 .. Len(s) => s[i] + 1 \in Nat
    BY <2>1
  <2>3. [s EXCEPT ![i] = s[i] + 1] \in Seq(Nat)
    BY <2>1, <2>2, PipeSet
  <2>4. pipes' = s \/ pipes' = [s EXCEPT ![i] = s[i] + 1]
    BY <1>2, <2>1 DEF Write
  <2> QED BY <2>1, <2>3, <2>4
<1>3. CASE Read(p)
  <2>1. PICK s, i : s = pipes /\ i = procs[p].in
    OBVIOUS
  <2>2. i \in 1 .. Len(s) => s[i] - 1 \in Nat
    BY <1>3, <2>1 DEF Read
  <2>3. [s EXCEPT ![i] = s[i] - 1] \in Seq(Nat)
    BY <2>1, <2>2, PipeSet
  <2>4. pipes' = [s EXCEPT ![i] = s[i] - 1]
    BY <1>3, <2>1 DEF Read
  <2> QED BY <2>3, <2>4
<1>4. CASE UNCHANGED pipes
  BY <1>4
<1> QED BY <1>1, <1>2, <1>3, <1>4
        DEF Step, parse_command, Assign, shell_exit, CdFork, CdChild, shell_cd, parse_simple,
            Exec, WaitSimple, First, Second, Last, Fork1, Fork2, Connect, ClosePipe,
            Wait1, Wait2, ExitChild, Finish

LEMMA EndOfInputStep ==
  ASSUME NEW N, NEW l, NEW e, NEW F, Kept(procs, N, l, e, F), EndOfInput
  PROVE  Kept(procs', N, l, e, F)
<1>1. PICK t : t = procs
  OBVIOUS
<1>2. Kept(ExitTable(t, SHELL, 0), N, l, e, F)
  BY <1>1, EndOfInputKeeps DEF EndOfInput, Running
<1>3. procs' = ExitTable(t, SHELL, 0)
  BY <1>1 DEF EndOfInput, Exit, ExitTable
<1> QED BY <1>2, <1>3

LEMMA ReadLineStep ==
  ASSUME NEW N, NEW l, NEW e, NEW F, Kept(procs, N, l, e, F), ReadLine,
         script \in Seq(Commands)
  PROVE  Kept(procs', N, line', start', failed')
<1>1. PICK t, c, s : t = procs /\ c = Head(script) /\ s = <<Call(c, "start")>>
  OBVIOUS
<1>2. c \in Commands
  BY <1>1 DEF ReadLine, MoreLines
<1>3. t \in Table
  BY <1>1, KeptFacts, PidFacts
<1>4. Kept([t EXCEPT ![SHELL] = [t[SHELL] EXCEPT !.stack = <<Call(c, "start")>>]],
           N, c, Local(t[SHELL]), FALSE)
  BY <1>1, <1>2, ReadLineKeeps DEF ReadLine, Running
<1>5. procs' = [t EXCEPT ![SHELL].stack = s]
  BY <1>1 DEF ReadLine
<1>6. procs' = [t EXCEPT ![SHELL] = [t[SHELL] EXCEPT !.stack = s]]
  BY <1>3, <1>5 DEF Table
<1>7. line' = c /\ start' = Local(t[SHELL]) /\ failed' = FALSE
  BY <1>1 DEF ReadLine, Local
<1> QED BY <1>1, <1>4, <1>6, <1>7

LEMMA StepKept ==
  ASSUME ShellInv, NEW p \in Pids, Step(p)
  PROVE  Kept(procs', failures', line', start', failed') /\ failures' \in 0 .. MaxForkFailures
<1>1. PICK N, l, e, F : N = failures /\ l = line /\ e = start /\ F = failed
  OBVIOUS
<1>2. /\ Kept(procs, N, l, e, F) /\ pipes \in Seq(Nat) /\ N \in Nat /\ N <= MaxForkFailures
      /\ N \in 0 .. MaxForkFailures
  BY <1>1, ShellAssumption DEF ShellInv
<1>3. CASE Kept(procs', N, l, e, F) /\ UNCHANGED <<failures, history>>
  BY <1>1, <1>2, <1>3 DEF history
<1>4. (failures' = failures \/ (failures > 0 /\ failures' = failures - 1))
      => failures' \in 0 .. MaxForkFailures
  BY <1>1, <1>2, ShellAssumption
<1>5. CASE Assign(p)
  BY <1>2, <1>3, <1>5, AssignStep DEF Assign
<1>6. CASE shell_exit(p)
  BY <1>2, <1>3, <1>6, ExitStepOfShell DEF shell_exit
<1>7. CASE CdFork(p)
  <2>1. Kept(procs', failures', l, e, failed')
    BY <1>1, <1>2, <1>7, CdForkStep
  <2>2. line' = l /\ start' = e
    BY <1>1, <1>7 DEF CdFork
  <2>3. failures' = failures \/ (failures > 0 /\ failures' = failures - 1)
    BY <1>7 DEF CdFork, Fork, ForkFails
  <2>4. failures' \in 0 .. MaxForkFailures
    BY <1>4, <2>3
  <2> QED BY <2>1, <2>2, <2>4
<1>8. CASE CdChild(p)
  BY <1>2, <1>3, <1>8, CdChildStep DEF CdChild
<1>9. CASE shell_cd(p)
  BY <1>2, <1>3, <1>9, CdStep DEF shell_cd
<1>10. CASE parse_simple(p)
  <2>1. Kept(procs', failures', l, e, failed')
    BY <1>1, <1>2, <1>10, RunForkStep
  <2>2. line' = l /\ start' = e
    BY <1>1, <1>10 DEF parse_simple
  <2>3. failures' = failures \/ (failures > 0 /\ failures' = failures - 1)
    BY <1>10 DEF parse_simple, Fork, ForkFails
  <2>4. failures' \in 0 .. MaxForkFailures
    BY <1>4, <2>3
  <2> QED BY <2>1, <2>2, <2>4
<1>11. CASE Exec(p)
  BY <1>2, <1>3, <1>11, ExecStep DEF Exec
<1>12. CASE WaitSimple(p)
  BY <1>2, <1>3, <1>12, WaitSimpleStep DEF WaitSimple
<1>13. CASE First(p)
  BY <1>2, <1>3, <1>13, FirstStep DEF First
<1>14. CASE Second(p)
  BY <1>2, <1>3, <1>14, SecondStep DEF Second
<1>15. CASE Last(p)
  BY <1>2, <1>3, <1>15, LastStep DEF Last
<1>16. CASE Pipe(p)
  BY <1>2, <1>3, <1>16, PipeStep DEF Pipe
<1>17. CASE Fork1(p)
  <2>1. Kept(procs', failures', l, e, failed')
    BY <1>1, <1>2, <1>17, Fork1Step
  <2>2. line' = l /\ start' = e
    BY <1>1, <1>17 DEF Fork1
  <2>3. failures' = failures \/ (failures > 0 /\ failures' = failures - 1)
    BY <1>17 DEF Fork1, Fork, ForkFails
  <2>4. failures' \in 0 .. MaxForkFailures
    BY <1>4, <2>3
  <2> QED BY <2>1, <2>2, <2>4
<1>18. CASE Fork2(p)
  <2>1. Kept(procs', failures', l, e, failed')
    BY <1>1, <1>2, <1>18, Fork2Step
  <2>2. line' = l /\ start' = e
    BY <1>1, <1>18 DEF Fork2
  <2>3. failures' = failures \/ (failures > 0 /\ failures' = failures - 1)
    BY <1>18 DEF Fork2, Fork, ForkFails
  <2>4. failures' \in 0 .. MaxForkFailures
    BY <1>4, <2>3
  <2> QED BY <2>1, <2>2, <2>4
<1>19. CASE Connect(p)
  BY <1>2, <1>3, <1>19, ConnectStep DEF Connect
<1>20. CASE ClosePipe(p)
  BY <1>2, <1>3, <1>20, ClosePipeStep DEF ClosePipe
<1>21. CASE Wait1(p)
  BY <1>2, <1>3, <1>21, Wait1Step DEF Wait1
<1>22. CASE Wait2(p)
  BY <1>2, <1>3, <1>22, Wait2Step DEF Wait2
<1>23. CASE ExitChild(p)
  BY <1>2, <1>3, <1>23, ExitChildStep DEF ExitChild
<1>24. CASE Write(p)
  BY <1>2, <1>3, <1>24, WriteStep DEF Write
<1>25. CASE Read(p)
  BY <1>2, <1>3, <1>25, ReadStep DEF Read
<1>26. CASE Finish(p)
  BY <1>2, <1>3, <1>26, FinishStep DEF Finish
<1> QED BY <1>5, <1>6, <1>7, <1>8, <1>9, <1>10, <1>11, <1>12, <1>13, <1>14, <1>15, <1>16,
           <1>17, <1>18, <1>19, <1>20, <1>21, <1>22, <1>23, <1>24, <1>25, <1>26
        DEF Step, parse_command

LEMMA ShellInvStep == ShellInv /\ [Next]_vars => ShellInv'
<1> SUFFICES ASSUME ShellInv, [Next]_vars PROVE ShellInv'
  OBVIOUS
<1>1. PICK N, l, e, F : N = failures /\ l = line /\ e = start /\ F = failed
  OBVIOUS
<1>2. /\ Kept(procs, N, l, e, F) /\ pipes \in Seq(Nat) /\ N \in 0 .. MaxForkFailures
      /\ script \in Seq(Commands)
  BY <1>1 DEF ShellInv
<1>3. CASE ReadLine
  <2>1. Kept(procs', N, line', start', failed')
    BY <1>2, <1>3, ReadLineStep
  <2>2. failures' = N /\ pipes' = pipes
    BY <1>1, <1>3 DEF ReadLine
  <2>3. script' \in Seq(Commands)
    BY <1>2, <1>3 DEF ReadLine, MoreLines
  <2> QED BY <1>2, <2>1, <2>2, <2>3 DEF ShellInv
<1>4. CASE EndOfInput
  <2>1. Kept(procs', N, l, e, F)
    BY <1>2, <1>4, EndOfInputStep
  <2>2. /\ failures' = N /\ pipes' = pipes /\ script' = script
        /\ line' = l /\ start' = e /\ failed' = F
    BY <1>1, <1>4 DEF EndOfInput, history
  <2> QED BY <1>2, <2>1, <2>2 DEF ShellInv
<1>5. CASE \E p \in Pids : Step(p)
  <2>1. PICK p \in Pids : Step(p)
    BY <1>5
  <2>2. Kept(procs', failures', line', start', failed') /\ failures' \in 0 .. MaxForkFailures
    BY <2>1, StepKept
  <2>3. pipes' \in Seq(Nat)
    BY <1>2, <2>1, PipesKept
  <2>4. script' = script
    BY <2>1 DEF Step, parse_command, Assign, shell_exit, CdFork, CdChild, shell_cd,
                parse_simple, Exec, WaitSimple, First, Second, Last, Pipe, Fork1, Fork2,
                Connect, ClosePipe, Wait1, Wait2, ExitChild, Write, Read, Finish
  <2> QED BY <1>2, <2>2, <2>3, <2>4 DEF ShellInv
<1>6. CASE UNCHANGED vars
  <2>1. /\ procs' = procs /\ failures' = N /\ pipes' = pipes /\ script' = script
        /\ line' = l /\ start' = e /\ failed' = F
    BY <1>1, <1>6 DEF vars
  <2>2. Kept(procs', N, l, e, F)
    BY <1>2, <2>1
  <2> QED BY <1>2, <2>1, <2>2 DEF ShellInv
<1> QED BY <1>3, <1>4, <1>5, <1>6 DEF Next

LEMMA ShellInvReaped == ShellInv => AllReaped
<1> SUFFICES ASSUME ShellInv, AtPrompt, failures = MaxForkFailures
             PROVE  /\ \A p \in Pids \ {SHELL} : procs[p].state = "unused"
                    /\ procs[SHELL].held = {}
  BY DEF AllReaped
<1>1. PICK t : t = procs
  OBVIOUS
<1>2. Struct(t) /\ Clean(t)
  BY <1>1 DEF ShellInv, Kept
<1>3. t[SHELL].stack = <<>>
  BY <1>1 DEF AtPrompt
<1>4. Reg(t[SHELL]) = {} /\ HeldBy(t[SHELL]) = {}
  BY <1>3 DEF Reg, HeldBy
<1>5. \A p \in Pids \ {SHELL} : t[p].state = "unused"
  BY <1>2, <1>4, CleanAlone
<1>6. t[SHELL].held = {}
  BY <1>2, <1>4, PidFacts DEF Clean
<1> QED BY <1>1, <1>5, <1>6

LEMMA ShellInvResult == ShellInv => ResultRight
<1> SUFFICES ASSUME ShellInv, ~ failed PROVE ResultRight
  BY DEF ResultRight
<1>1. PICK t, l, e, x : t = procs /\ l = line /\ e = start /\ x = t[SHELL]
  OBVIOUS
<1>2. Struct(t) /\ Results(t, l, e)
  BY <1>1 DEF ShellInv, Kept
<1>3. ShellOK(x) /\ x.state \in State /\ x.prog = NoProgram
  <2>1. x \in Proc /\ ShellOK(x)
    BY <1>1, <1>2, PidFacts DEF Struct, ProcOK
  <2> QED BY <2>1 DEF Proc, ShellOK
<1>4. l # 0 => Right(SHELL, x, l, e)
  <2> SUFFICES ASSUME l # 0 PROVE Right(SHELL, x, l, e)
    OBVIOUS
  <2>1. PICK G, R, B : Good(t, G, R, B, l, e)
    BY <1>2 DEF Results
  <2> QED BY <1>1, <2>1 DEF Good
<1>5. x.state = "running" /\ x.stack = <<>> /\ l # 0 =>
        /\ x.ret = Outcome[l]
        /\ x.cwd = LastOf(Executed[l], Changes("cd"), e.cwd)
        /\ x.env = LastOf(Executed[l], Changes("="), e.env)
  <2> SUFFICES ASSUME x.state = "running", x.stack = <<>>, l # 0
               PROVE  /\ x.ret = Outcome[l]
                      /\ x.cwd = LastOf(Executed[l], Changes("cd"), e.cwd)
                      /\ x.env = LastOf(Executed[l], Changes("="), e.env)
    OBVIOUS
  <2>1. x.ret = Outcome[l] /\ Local(x) = Apply(l, e)
    BY <1>3, <1>4 DEF Right
  <2>2. Local(x).cwd = Apply(l, e).cwd /\ Local(x).env = Apply(l, e).env
    BY <2>1
  <2> QED BY <2>1, <2>2 DEF Local, Apply
<1>6. x.state # "running" =>
        x.code = IF l # 0 /\ Outcome[l] \in Final THEN StatusOf(Outcome[l]) ELSE 0
  <2> SUFFICES ASSUME x.state # "running"
               PROVE  x.code = IF l # 0 /\ Outcome[l] \in Final
                               THEN StatusOf(Outcome[l]) ELSE 0
    OBVIOUS
  <2>1. x.state = "zombie"
    BY <1>3 DEF State, ShellOK
  <2>2. CASE l = 0
    BY <1>1, <1>2, <2>1, <2>2 DEF Results
  <2>3. CASE l # 0
    BY <1>4, <2>1, <2>3 DEF Right, CodeOf, Stat
  <2> QED BY <2>2, <2>3
<1> QED BY <1>1, <1>5, <1>6 DEF ResultRight, AtPrompt, Running

\* However the processes of a line are scheduled, and for every script: when no
\* fork has failed, every process that a line started has ended and has been
\* waited for when start_shell reads the next line, and the shell holds no end
\* of a pipe.
THEOREM ShellAllReaped == Spec => []AllReaped
<1> QED BY ShellInvInit, ShellInvStep, ShellInvReaped, PTL DEF Spec

\* However the processes of a line are scheduled, and for every script: a line
\* in which no fork failed has the status that parse_command should return for
\* its operators, exactly its changes of directory and variable outside of
\* pipes and parallel commands; and the shell ends with the input, or in a line
\* that exits or that a signal ends, with the status that this has.
THEOREM ShellResultRight == Spec => []ResultRight
<1> QED BY ShellInvInit, ShellInvStep, ShellInvResult, PTL DEF Spec
=============================================================================
