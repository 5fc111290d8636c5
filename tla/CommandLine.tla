---------------------------- MODULE CommandLine ----------------------------
(***************************************************************************)
(* The replayer takes its one argument out of the command line before      *)
(* Kokkos reads what is left: find_flag_argument and remove_cli_args of    *)
(* replay/kernel_replayer.cpp, one step per turn of their loops.           *)
(*                                                                         *)
(* argv[0] of the code is argv[1] here, so indices are one higher; argc is *)
(* the number of arguments, and what is behind it is ignored.              *)
(*                                                                         *)
(* An operator no action uses (StopOneEarly, ...) is a slip in the         *)
(* definition that follows it, and a property must catch it.               *)
(***************************************************************************)
EXTENDS Integers, Sequences

CONSTANTS
  Text,         \* what arguments say
  CommandLines, \* the command lines a replay program may be started with
  FlagText,     \* the text of an argument that begins with the flag
  Null          \* the argument that was not found

(* "--kernel-replayer-dump", "--kernel-replayer-dump=<text>" or <text>     *)
Argument == [is : {"flag", "flag=", "text"}, text : Text]
Whole(a) == IF a.is = "text" THEN a.text ELSE FlagText

ASSUME CommandLineAssumption ==
  /\ FlagText \in Text
  /\ CommandLines \subseteq Seq(Argument)
  /\ \A line \in CommandLines : Len(line) >= 1

VARIABLES
  argv, argc,
  step,      \* "find", "move" (in the loop of remove_cli_args) or "found"
  i,         \* the loop variable of find_flag_argument
  moved,     \* the loop variable of remove_cli_args
  n,         \* the number of arguments to remove
  argument,  \* what find_flag_argument returns
  given      \* history: the command line as it was

argVars == <<argv, argc, step, i, moved, n, argument, given>>

-----------------------------------------------------------------------------
ArgInit ==
  /\ given \in CommandLines
  /\ argv = given
  /\ argc = Len(given)
  /\ step = "find"
  /\ i = 2
  /\ moved = 0
  /\ n = 0
  /\ argument = Null

(* Arguments i and, when "count" is 2, i + 1 are to be removed.            *)
Take(count, text) ==
  /\ n' = count
  /\ argument' = text
  /\ moved' = i
  /\ step' = "move"
  /\ UNCHANGED <<argv, argc, i, given>>

FlagWithArgument ==
  /\ step = "find" /\ i <= argc
  /\ argv[i].is = "flag="
  /\ Take(1, argv[i].text)

FlagThenArgument ==
  /\ step = "find" /\ i < argc
  /\ argv[i].is = "flag"
  /\ Take(2, Whole(argv[i + 1]))

OtherArgument ==
  /\ step = "find" /\ i <= argc
  /\ argv[i].is = "text"
  /\ i' = i + 1
  /\ UNCHANGED <<argv, argc, step, moved, n, argument, given>>

NoArgument ==
  /\ step = "find"
  /\ i > argc \/ (i = argc /\ argv[i].is = "flag")
  /\ step' = "found"
  /\ UNCHANGED <<argv, argc, i, moved, n, argument, given>>

StopOneEarly == moved < argc - n
MoreToSwap == moved <= argc - n

swap(a, b) == [argv EXCEPT ![a] = argv[b], ![b] = argv[a]]

SwapArguments ==
  /\ step = "move" /\ MoreToSwap
  /\ argv' = swap(moved, moved + n)
  /\ moved' = moved + 1
  /\ UNCHANGED <<argc, step, i, n, argument, given>>

RemoveArguments ==
  /\ step = "move" /\ ~MoreToSwap
  /\ argc' = argc - n
  /\ step' = "found"
  /\ UNCHANGED <<argv, i, moved, n, argument, given>>

find_flag_argument ==
  \/ FlagWithArgument \/ FlagThenArgument \/ OtherArgument \/ NoArgument
  \/ SwapArguments \/ RemoveArguments

-----------------------------------------------------------------------------
ArgTypeOK ==
  /\ argv \in Seq(Argument)
  /\ given \in Seq(Argument)
  /\ Len(argv) = Len(given)
  /\ argc \in 1 .. Len(given)
  /\ step \in {"find", "move", "found"}
  /\ i \in 2 .. Len(given) + 1
  /\ moved \in Nat
  /\ n \in {0, 1, 2}
  /\ argument \in Text \cup {Null}

(* The program and Kokkos get every argument but the replayer's own, in    *)
(* their order, and the replayer the text of the first flag, in either     *)
(* form; a flag that ends the line has none, and stays.                    *)
FirstFlag(at) ==
  /\ at \in 2 .. Len(given)
  /\ given[at].is # "text"
  /\ \A k \in 2 .. at - 1 : given[k].is = "text"

ArgvKept ==
  step = "found" =>
    \/ /\ argument = Null
       /\ argv = given /\ argc = Len(given)
       /\ \A at \in 2 .. Len(given) :
            FirstFlag(at) => at = Len(given) /\ given[at].is = "flag"
    \/ \E at \in 2 .. Len(given) :
         /\ FirstFlag(at)
         /\ argument = IF given[at].is = "flag=" THEN given[at].text
                       ELSE Whole(given[at + 1])
         /\ LET gone == IF given[at].is = "flag=" THEN 1 ELSE 2
            IN  /\ argc = Len(given) - gone
                /\ \A k \in 1 .. argc :
                     argv[k] = given[IF k < at THEN k ELSE k + gone]
=============================================================================
