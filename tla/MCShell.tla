------------------------------ MODULE MCShell ------------------------------
(***************************************************************************)
(* Command lines for small instances of Shell.                             *)
(***************************************************************************)
EXTENDS Shell

Builtin(verb, arg) ==
  [op |-> "NONE", verb |-> verb, arg |-> arg, in |-> "", out |-> "",
   writes |-> 0, reads |-> "nothing"]

\* A program that writes n items, reads r and exits with code.
Run(n, r, code, in, out) ==
  [op |-> "NONE", verb |-> "run", arg |-> code, in |-> in, out |-> out,
   writes |-> n, reads |-> r]

Op(op, c, d) == [op |-> op, cmd1 |-> c, cmd2 |-> d]

Nodes == <<
  Run(2, "nothing", 0, "", ""),              \*  1  a program that writes
  Run(0, "filter", 0, "", ""),               \*  2  a filter
  Run(0, "all", 3, "missing", ""),           \*  3  a program that reads and fails
  Run(2, "nothing", 0, "", "file"),          \*  4  output to a file
  Run(0, "nothing", 1, "", ""),              \*  5  a program that cannot be executed
  Builtin("cd", "d2"),                       \*  6
  Builtin("cd", "missing"),                  \*  7
  Builtin("=", 1),                           \*  8
  Builtin("exit", 0),                        \*  9
  Op("PIPE", 1, 2),                          \* 10
  Op("PIPE", 10, 3),                         \* 11  three programs on two pipes
  Op("PIPE", 4, 3),                          \* 12
  Op("PIPE", 1, 6),                          \* 13  nobody reads the pipe
  Op("PIPE", 6, 9),                          \* 14  exit in a pipe
  Op("PARALLEL", 8, 7),                      \* 15  builtins in parallel
  Op("CONDITIONAL_NZERO", 7, 8),             \* 16  cd missing || a=1
  Op("CONDITIONAL_ZERO", 16, 13),            \* 17  ... && 1 | cd d2
  Op("CONDITIONAL_ZERO", 5, 6),              \* 18  false && cd d2
  Op("CONDITIONAL_NZERO", 6, 9),             \* 19  cd d2 || exit
  Op("PARALLEL", 12, 7),                     \* 20
  Op("SEQUENTIAL", 18, 15),                  \* 21
  Op("SEQUENTIAL", 19, 9),                   \* 22
  Op("CONDITIONAL_ZERO", 9, 8),              \* 23  exit && a=1
  Builtin("=", NoName),                      \* 24  ==1
  Builtin("=", NoValue),                     \* 25  a=
  Op("CONDITIONAL_NZERO", 24, 8),            \* 26  ==1 || a=1
  Op("PIPE", 1, 25),                         \* 27  1 | a=
  Op("PARALLEL", 25, 24),                    \* 28  in processes of their own
  Op("CONDITIONAL_ZERO", 27, 28),            \* 29
  Op("CONDITIONAL_NZERO", 25, 8)>>           \* 30  a= || a=1

Lines ==
  {<<11>>, <<17, 13>>, <<21, 19>>, <<22, 8>>, <<14, 23>>, <<20>>,
   <<10, 10>>, <<26, 29>>, <<26, 30, 8>>}
=============================================================================
