------------------------- MODULE ReplayLaunchProofs -------------------------
(***************************************************************************)
(* Proofs about ReplayLaunch: the command line, the policy's way through   *)
(* the dump, the handles replay_functor puts aside and Kokkos's tracking,  *)
(* for every command line, dump, policy and width of the index types.      *)
(***************************************************************************)
EXTENDS ReplayLaunch, SequenceTheorems, TLAPS

-----------------------------------------------------------------------------
(* The command line.                                                       *)

(* What remove_cli_args keeps while it moves arguments: those before       *)
(* "moved" are where they belong, those from moved + n on are untouched.   *)
Moving ==
  /\ n \in {1, 2}
  /\ argc = Len(given)
  /\ i + n - 1 <= argc
  /\ i <= moved /\ moved <= argc - n + 1
  /\ FirstFlag(i)
  /\ n = IF given[i].is = "flag=" THEN 1 ELSE 2
  /\ argument = IF given[i].is = "flag=" THEN given[i].text ELSE Whole(given[i + 1])
  /\ \A k \in 1 .. moved - 1 : argv[k] = given[IF k < i THEN k ELSE k + n]
  /\ \A k \in moved + n .. argc : argv[k] = given[k]

ArgInv ==
  /\ ArgTypeOK
  /\ step = "find" =>
       /\ argv = given /\ argc = Len(given) /\ argument = Null
       /\ \A k \in 2 .. i - 1 : given[k].is = "text"
  /\ step = "move" => Moving
  /\ ArgvKept

LEMMA ArgInvInit == ArgInit => ArgInv
<1> SUFFICES ASSUME ArgInit PROVE ArgInv
  OBVIOUS
<1>1. given \in Seq(Argument) /\ Len(given) >= 1 /\ Len(given) \in Nat
  BY CommandLineAssumption DEF ArgInit
<1> QED
  BY <1>1 DEF ArgInit, ArgInv, ArgTypeOK, ArgvKept

(* The text an argument stands for is a text.                              *)
LEMMA Texts ==
  ASSUME NEW a \in Argument
  PROVE  a.is \in {"flag", "flag=", "text"} /\ a.text \in Text /\ Whole(a) \in Text
BY CommandLineAssumption DEF Argument, Whole

(* Each turn of the loops of find_flag_argument and remove_cli_args keeps  *)
(* the invariant.                                                          *)
LEMMA ArgInvNext == ArgInv /\ find_flag_argument => ArgInv'
<1> SUFFICES ASSUME ArgInv, find_flag_argument PROVE ArgInv'
  OBVIOUS
<1>1. /\ argv \in Seq(Argument) /\ given \in Seq(Argument) /\ Len(argv) = Len(given)
      /\ Len(given) \in Nat /\ argc \in 1 .. Len(given) /\ i \in 2 .. Len(given) + 1
      /\ moved \in Nat
  BY DEF ArgInv, ArgTypeOK
<1>2. \A k \in 1 .. Len(given) : argv[k] \in Argument /\ given[k] \in Argument
  BY <1>1, ElementOfSeq
<1>3. CASE FlagWithArgument
  <2>1. argv[i] = given[i] /\ given[i] \in Argument /\ i \in 1 .. Len(given)
    BY <1>1, <1>2, <1>3 DEF FlagWithArgument, ArgInv
  <2>2. given[i].is = "flag=" /\ given[i].text \in Text
    BY <1>3, <2>1, Texts DEF FlagWithArgument
  <2>3. ArgTypeOK'
    BY <1>1, <1>3, <2>1, <2>2 DEF FlagWithArgument, Take, ArgInv, ArgTypeOK
  <2>4. FirstFlag(i)
    BY <1>1, <1>3, <2>1, <2>2 DEF FlagWithArgument, ArgInv, FirstFlag
  <2>5. Moving'
    BY <1>1, <1>3, <2>1, <2>2, <2>4 DEF FlagWithArgument, Take, ArgInv, Moving, FirstFlag
  <2> QED
    BY <1>3, <2>3, <2>5 DEF FlagWithArgument, Take, ArgInv, ArgvKept
<1>4. CASE FlagThenArgument
  <2>1. /\ argv[i] = given[i] /\ given[i] \in Argument /\ i \in 1 .. Len(given)
        /\ argv[i + 1] = given[i + 1] /\ given[i + 1] \in Argument
        /\ i + 1 <= Len(given) /\ argc = Len(given)
    BY <1>1, <1>2, <1>4 DEF FlagThenArgument, ArgInv
  <2>2. given[i].is = "flag" /\ Whole(given[i + 1]) \in Text
    BY <1>4, <2>1, Texts DEF FlagThenArgument
  <2>3. ArgTypeOK'
    BY <1>1, <1>4, <2>1, <2>2 DEF FlagThenArgument, Take, ArgInv, ArgTypeOK
  <2>4. FirstFlag(i)
    BY <1>1, <1>4, <2>1, <2>2 DEF FlagThenArgument, ArgInv, FirstFlag
  <2>5. Moving'
    BY <1>1, <1>4, <2>1, <2>2, <2>4
    DEF FlagThenArgument, Take, ArgInv, Moving, FirstFlag, Whole
  <2> QED
    BY <1>4, <2>3, <2>5 DEF FlagThenArgument, Take, ArgInv, ArgvKept
<1>5. CASE OtherArgument
  <2>1. argv[i] = given[i] /\ given[i].is = "text" /\ i + 1 \in 2 .. Len(given) + 1
    BY <1>1, <1>5 DEF OtherArgument, ArgInv
  <2>2. ArgTypeOK'
    BY <1>5, <2>1 DEF OtherArgument, ArgInv, ArgTypeOK
  <2>3. \A k \in 2 .. i' - 1 : given[k].is = "text"
    BY <1>1, <1>5, <2>1 DEF OtherArgument, ArgInv
  <2> QED
    BY <1>5, <2>2, <2>3 DEF OtherArgument, ArgInv, ArgvKept
<1>6. CASE NoArgument
  <2>1. ArgTypeOK'
    BY <1>6 DEF NoArgument, ArgInv, ArgTypeOK
  <2>2. \A place \in 2 .. Len(given) :
          FirstFlag(place) => place = Len(given) /\ given[place].is = "flag"
    BY <1>1, <1>6 DEF NoArgument, ArgInv, FirstFlag
  <2>3. ArgvKept'
    BY <1>6, <2>2 DEF NoArgument, ArgInv, ArgvKept, FirstFlag
  <2> QED
    BY <1>6, <2>1, <2>3 DEF NoArgument, ArgInv
<1>7. CASE SwapArguments
  <2>1. Moving /\ moved <= argc - n
    BY <1>7 DEF SwapArguments, MoreToSwap, ArgInv
  <2>2. moved \in 1 .. Len(argv) /\ moved + n \in 1 .. Len(argv) /\ n \in {1, 2} /\ i <= moved
    BY <1>1, <2>1 DEF Moving
  <2> DEFINE half == [argv EXCEPT ![moved] = argv[moved + n]]
  <2>3. /\ half \in Seq(Argument) /\ Len(half) = Len(argv)
        /\ \A k \in 1 .. Len(argv) : half[k] = IF k = moved THEN argv[moved + n] ELSE argv[k]
    BY <1>1, <1>2, <2>2, ExceptSeq
  <2>4. argv' = [half EXCEPT ![moved + n] = argv[moved]]
    BY <1>7 DEF SwapArguments, swap
  <2> HIDE DEF half
  <2>5. /\ argv' \in Seq(Argument) /\ Len(argv') = Len(argv)
        /\ \A k \in 1 .. Len(argv) :
             argv'[k] = IF k = moved + n THEN argv[moved] ELSE half[k]
    BY <1>1, <1>2, <2>2, <2>3, <2>4, ExceptSeq
  <2>6. ArgTypeOK'
    BY <1>1, <1>7, <2>5 DEF SwapArguments, ArgInv, ArgTypeOK
  <2>7. Moving'
    <3>1. UNCHANGED <<given, argc, i, n, argument>> /\ moved' = moved + 1
      BY <1>7 DEF SwapArguments
    <3>2. ASSUME NEW k \in 1 .. moved PROVE argv'[k] = given[IF k < i THEN k ELSE k + n]
      <4>1. argv'[k] = half[k] /\ k \in 1 .. Len(argv)
        BY <1>1, <2>2, <2>5
      <4>2. CASE k = moved
        <5>1. half[k] = argv[moved + n]
          BY <2>3, <4>1, <4>2
        <5>2. moved + n \in moved + n .. argc /\ ~(moved < i)
          BY <1>1, <2>1, <2>2
        <5>3. argv[moved + n] = given[moved + n]
          BY <2>1, <5>2 DEF Moving
        <5> QED
          BY <4>1, <4>2, <5>1, <5>2, <5>3
      <4>3. CASE k # moved
        <5>1. half[k] = argv[k] /\ k \in 1 .. moved - 1
          BY <1>1, <2>2, <2>3, <4>1, <4>3
        <5> QED
          BY <2>1, <4>1, <5>1 DEF Moving
      <4> QED
        BY <4>2, <4>3
    <3>3. ASSUME NEW k \in moved + 1 + n .. argc PROVE argv'[k] = given[k]
      <4>1. /\ k \in 1 .. Len(argv) /\ k # moved + n /\ k # moved
            /\ k \in moved + n .. argc
        BY <1>1, <2>1, <2>2 DEF Moving
      <4>2. argv'[k] = argv[k]
        BY <2>3, <2>5, <4>1
      <4> QED
        BY <2>1, <4>1, <4>2 DEF Moving
    <3> QED
      BY <1>1, <2>1, <2>2, <3>1, <3>2, <3>3 DEF Moving, FirstFlag, Whole
  <2> QED
    BY <1>7, <2>6, <2>7 DEF SwapArguments, ArgInv, ArgvKept
<1>8. CASE RemoveArguments
  <2>1. Moving /\ moved = argc - n + 1
    BY <1>1, <1>8 DEF RemoveArguments, MoreToSwap, ArgInv, Moving
  <2>2. ArgTypeOK'
    BY <1>1, <1>8, <2>1 DEF RemoveArguments, ArgInv, ArgTypeOK, Moving
  <2>3. ArgvKept'
    <3>1. /\ argc' = Len(given) - n /\ FirstFlag(i) /\ i \in 2 .. Len(given)
          /\ n = IF given[i].is = "flag=" THEN 1 ELSE 2
          /\ argument = IF given[i].is = "flag=" THEN given[i].text
                        ELSE Whole(given[i + 1])
          /\ \A k \in 1 .. argc' : argv[k] = given[IF k < i THEN k ELSE k + n]
      BY <1>1, <1>8, <2>1 DEF RemoveArguments, Moving, FirstFlag
    <3> QED
      BY <1>8, <3>1 DEF RemoveArguments, ArgvKept, FirstFlag, Whole
  <2> QED
    BY <1>8, <2>2, <2>3 DEF RemoveArguments, ArgInv
<1> QED
  BY <1>3, <1>4, <1>5, <1>6, <1>7, <1>8 DEF find_flag_argument

-----------------------------------------------------------------------------
(* The policy.                                                             *)

(* Taking remainders of numbers that are close to the range.               *)
LEMMA Remainders ==
  ASSUME NEW w \in Nat \ {0}, NEW x \in Int, -w <= x, x < 2 * w
  PROVE  x % w = IF x < 0 THEN x + w ELSE IF x < w THEN x ELSE x - w
<1>1. CASE x < 0
  BY <1>1, SMTT(30)
<1>2. CASE 0 <= x /\ x < w
  BY <1>2, SMTT(30)
<1>3. CASE w <= x
  BY <1>3, SMTT(30)
<1> QED
  BY <1>1, <1>2, <1>3

(* A bound of any width and sign comes back from its 64 unsigned bits.     *)
LEMMA BoundRoundTrip ==
  ASSUME NEW t \in IndexType, NEW x \in IndexValue(t)
  PROVE  ReadBound(index_type_to_u64(x, t), t) = x
<1> DEFINE h == Half[t.size]
<1> DEFINE H == Half[8]
<1> DEFINE w == 2 * h
<1> DEFINE W == 2 * H
<1>1. /\ h \in Nat \ {0} /\ H \in Nat \ {0} /\ h <= H
      /\ w \in Nat \ {0} /\ W \in Nat \ {0} /\ w = 2 * h /\ W = 2 * H
  BY PolicyCodecAssumption DEF IndexType, Size
<1> HIDE DEF h, H, w, W
<1>2. CASE t.is_signed
  <2>1. x \in Int /\ -h <= x /\ x < h
    BY <1>1, <1>2 DEF IndexValue, h
  <2>2. x % W = IF x < 0 THEN x + W ELSE x
    <3>1. -W <= x /\ x < W /\ x < 2 * W
      BY <1>1, <2>1
    <3>2. x % W = IF x < 0 THEN x + W ELSE IF x < W THEN x ELSE x - W
      BY <1>1, <2>1, <3>1, Remainders
    <3> QED
      BY <3>1, <3>2
  <2>3. ((x % W) + H) % W = x + H
    <3> DEFINE y == (x % W) + H
    <3>1. y \in Int /\ y = (IF x < 0 THEN x + W ELSE x) + H
      BY <1>1, <2>1, <2>2
    <3>2. -W <= y /\ y < 2 * W /\ (x < 0 => W <= y) /\ (x >= 0 => 0 <= y /\ y < W)
      BY <1>1, <2>1, <3>1
    <3> HIDE DEF y
    <3>3. y % W = IF y < 0 THEN y + W ELSE IF y < W THEN y ELSE y - W
      BY <1>1, <3>1, <3>2, Remainders
    <3>4. y % W = x + H
      BY <1>1, <2>1, <3>1, <3>2, <3>3
    <3> QED
      BY <3>4 DEF y
  <2>4. (x + h) % w = x + h
    <3>1. x + h \in Int /\ 0 <= x + h /\ x + h < w
      BY <1>1, <2>1
    <3> QED
      BY <1>1, <3>1, Remainders
  <2> QED
    BY <1>1, <1>2, <2>1, <2>3, <2>4
    DEF ReadBound, index_type_to_u64, ToSigned, ToUnsigned, Word, h, H, w, W
<1>3. CASE ~t.is_signed
  <2>1. x \in Int /\ 0 <= x /\ x < w
    BY <1>1, <1>3 DEF IndexValue, Word, h
  <2>2. x % w = x
    BY <1>1, <2>1, Remainders
  <2> QED
    BY <1>3, <2>2 DEF ReadBound, index_type_to_u64, ToUnsigned, Word, h, w
<1> QED
  BY <1>2, <1>3

(* Names of schedules and directions, and numbers that may be automatic.   *)
LEMMA NamesRoundTrip ==
  /\ \A x \in {"Static", "Dynamic"} : ReadSchedule[ScheduleName[x]] = x
  /\ \A x \in {"Left", "Right"} : ReadIteration[IterationName[x]] = x
  /\ \A x \in Optional : OrAuto(OrMinusOne(x)) = x
<1>1. ASSUME NEW x \in Optional PROVE OrAuto(OrMinusOne(x)) = x
  <2>1. CASE x = <<>>
    BY <2>1 DEF OrAuto, OrMinusOne
  <2>2. CASE x # <<>>
    <3>1. x \in Seq(Nat) /\ Len(x) = 1 /\ x[1] \in Nat
      <4>1. /\ x \in Seq(Nat) /\ Len(x) <= 1 /\ Len(x) \in Nat
            /\ x \in [1 .. Len(x) -> Nat]
        BY LenProperties DEF Optional
      <4>2. Len(x) # 0
        BY <2>2, <4>1, EmptySeq
      <4>3. Len(x) = 1 /\ 1 \in 1 .. Len(x)
        BY <4>1, <4>2
      <4> QED
        BY <4>1, <4>3
    <3>2. <<x[1]>> = x
      BY <3>1, SeqEqual
    <3> QED
      BY <2>2, <3>1, <3>2 DEF OrAuto, OrMinusOne
  <2> QED
    BY <2>1, <2>2
<1> QED
  BY <1>1 DEF ReadSchedule, ScheduleName, ReadIteration, IterationName

(* What read_policy_from_hdf5 accepts is what the replay program has.      *)
LEMMA OnlySupported ==
  ASSUME NEW p \in Policy, ReadsPolicy(register_bounds(p))
  PROVE  Supported(p)
<1>1. CASE p \in ScalarPolicies
  BY <1>1 DEF ScalarPolicies, Supported
<1>2. CASE p \in RangePolicies
  BY <1>2 DEF RangePolicies, register_bounds, register_range, ReadsPolicy, Supported
<1>3. CASE p \in MDRangePolicies
  <2> DEFINE d == register_mdrange(p)
  <2>1. p.type = "mdrange" /\ register_bounds(p) = d /\ d.type = "mdrange"
    BY <1>3 DEF MDRangePolicies, register_bounds, register_mdrange
  <2>2. d.rank = p.rank /\ d.space = p.space
    BY <1>3 DEF MDRangePolicies, register_mdrange
  <2> HIDE DEF d
  <2> QED
    BY <2>1, <2>2 DEF ReadsPolicy, Supported
<1>4. CASE p \in TeamPolicies
  BY <1>4 DEF TeamPolicies, register_bounds, register_team, ReadsPolicy, Supported
<1> QED
  BY <1>1, <1>2, <1>3, <1>4 DEF Policy

(* What the replay program builds from a stored policy is the policy that  *)
(* was captured, but for scratch sizes that could not be queried.          *)
LEMMA PolicyRoundTrip ==
  ASSUME NEW p \in Policy
  PROVE  /\ register_bounds(p) # NoPolicyDesc
         /\ Rebuilt(register_bounds(p)) = ReplayedPolicy(p)
         /\ Arity(register_bounds(p)) = Arity(p)
<1>1. CASE p \in ScalarPolicies
  BY <1>1 DEF ScalarPolicies, register_bounds, Rebuilt, Arity, ReplayedPolicy, NoPolicyDesc
<1>2. CASE p \in RangePolicies
  <2> DEFINE d == register_range(p)
  <2>1. p.type = "range" /\ register_bounds(p) = d /\ d.type = "range"
    BY <1>2 DEF RangePolicies, register_bounds, register_range
  <2>2. /\ ReadBound(d.begin, d.index) = p.begin /\ ReadBound(d.end, d.index) = p.end
        /\ ReadSchedule[d.schedule] = p.schedule
    BY <1>2, BoundRoundTrip, NamesRoundTrip DEF RangePolicies, register_range
  <2>3. get_range_policy(d) = p
    <3>1. d \in [type : {"range"}, index : {p.index}, space : {p.space},
                 schedule : {d.schedule}, begin : {d.begin}, end : {d.end},
                 chunk_size : {p.chunk_size}]
      BY DEF register_range
    <3>2. p = [d EXCEPT !.schedule = p.schedule, !.begin = p.begin, !.end = p.end]
      <4> HIDE DEF d
      <4> QED
        BY <1>2, <3>1 DEF RangePolicies
    <3> HIDE DEF d
    <3> QED
      BY <2>2, <3>2 DEF get_range_policy
  <2> QED
    BY <2>1, <2>3 DEF Rebuilt, Arity, ReplayedPolicy, NoPolicyDesc
<1>3. CASE p \in MDRangePolicies
  <2> DEFINE d == register_mdrange(p)
  <2>1. p.type = "mdrange" /\ register_bounds(p) = d /\ d.type = "mdrange" /\ d.rank = p.rank
    BY <1>3 DEF MDRangePolicies, register_bounds, register_mdrange
  <2>2. /\ ReadSchedule[d.schedule] = p.schedule
        /\ ReadIteration[d.outer_dir] = p.outer_dir
        /\ ReadIteration[d.inner_dir] = p.inner_dir
    BY <1>3, NamesRoundTrip DEF MDRangePolicies, register_mdrange
  <2>3. get_mdrange_policy(d) = p
    BY <1>3, <2>2 DEF MDRangePolicies, register_mdrange, get_mdrange_policy
  <2> QED
    BY <2>1, <2>3 DEF Rebuilt, Arity, ReplayedPolicy, NoPolicyDesc
<1>4. CASE p \in TeamPolicies
  <2> DEFINE d == register_team(p)
  <2>1. p.type = "team" /\ register_bounds(p) = d /\ d.type = "team"
    BY <1>4 DEF TeamPolicies, register_bounds, register_team
  <2>2. /\ ReadSchedule[d.schedule] = p.schedule
        /\ OrAuto(d.team_size) = p.team_size
        /\ OrAuto(d.vector_length) = p.vector_length
    BY <1>4, NamesRoundTrip DEF TeamPolicies, register_team
  <2>3. (IF d.scratch[1] # -1 THEN d.scratch ELSE <<0, 0, 0, 0>>)
           = IF p.space \in QueryableSpace THEN p.scratch ELSE <<0, 0, 0, 0>>
    BY <1>4 DEF TeamPolicies, register_team, DescribeScratch
  <2> DEFINE scratch == IF p.space \in QueryableSpace THEN p.scratch ELSE <<0, 0, 0, 0>>
  <2>4. get_team_policy(d) = ReplayedPolicy(p)
    <3>1. d \in [type : {"team"}, index : {p.index}, space : {p.space},
                 schedule : {d.schedule}, league_size : {p.league_size},
                 team_size : {d.team_size}, vector_length : {d.vector_length},
                 scratch : {d.scratch}, chunk_size : {p.chunk_size}]
      BY DEF register_team
    <3>2. ReplayedPolicy(p) = [p EXCEPT !.scratch = scratch]
      BY <1>4, <2>1 DEF TeamPolicies, ReplayedPolicy
    <3>3. [p EXCEPT !.scratch = scratch]
            = [d EXCEPT !.schedule = p.schedule, !.team_size = p.team_size,
                        !.vector_length = p.vector_length, !.scratch = scratch]
      <4> HIDE DEF d, scratch
      <4> QED
        BY <1>4, <3>1 DEF TeamPolicies
    <3> HIDE DEF d
    <3> QED
      BY <2>2, <2>3, <3>2, <3>3 DEF get_team_policy
  <2> QED
    BY <2>1, <2>4 DEF Rebuilt, Arity, NoPolicyDesc
<1> QED
  BY <1>1, <1>2, <1>3, <1>4 DEF Policy

-----------------------------------------------------------------------------
(* The program.                                                            *)

Mine(g) == g.object.from = "user" /\ g.inner.from = "user"

(* It has the bytes of the dump, and its handles are not counted.          *)
Revived(g) ==
  /\ g.object.from = "stored" /\ ~g.object.counted
  /\ hdl => g.inner.from = "stored" /\ ~g.inner.counted

(* Which functor has which bytes, at each step of replay_functor: those of *)
(* the program are saved until the temporary has them again.               *)
Handles ==
  /\ at # "crashed"
  /\ at = "construct" => Mine(dummy_functor)
  /\ at = "init_functor" => Mine(dummy_functor) /\ Mine(saved)
  /\ at \in {"inner", "copy", "restore"} => Mine(saved)
  /\ at \in {"inner", "copy"} => dummy_functor.object.from = "stored"
  /\ at = "inner" => dummy_functor.inner.from = "user"
  /\ at = "copy" /\ hdl => dummy_functor.inner.from = "stored"
  /\ at \in {"inner", "restore_inner"} => hdl
  /\ at \in {"restore_inner", "destroy"} => dummy_functor.object.from = "user"
  /\ at = "restore_inner" => saved.inner.from = "user"
  /\ at = "destroy" /\ hdl => dummy_functor.inner.from = "user"
  /\ at \in {"restore", "restore_inner", "destroy", "enable", "visit", "launched",
             "refused"} => Revived(f)

Loaded ==
  at \notin {"start", "failed"} =>
    /\ dump \in Dump
    /\ replay_policy = Described(dump)

LInv ==
  /\ ArgInv
  /\ LaunchTypeOK
  /\ Loaded
  /\ at \in InCall => ~tracking
  /\ TrackingBack
  /\ Handles
  /\ LaunchedAsCaptured

LEMMA LInvInit == Init => LInv
<1> SUFFICES ASSUME Init PROVE LInv
  OBVIOUS
<1>1. ArgInv
  BY ArgInvInit DEF Init
<1>2. UserFunctor \in Functor
  BY DEF Init, UserFunctor, Users, Functor, Bytes
<1>3. LaunchTypeOK
  <2>1. 0 \in 0 .. MaxCalls
    BY ReplayLaunchAssumption
  <2> QED
    BY <1>1, <1>2, <2>1 DEF Init, ArgInv, LaunchTypeOK
<1> QED
  BY <1>1, <1>3 DEF Init, LInv, Loaded, InCall, TrackingBack, Handles, LaunchedAsCaptured

(* Copies of functors are functors with the same bytes, and not counted    *)
(* while tracking is off or when they are copies of one that is not.       *)
LEMMA Copies ==
  ASSUME NEW g \in Functor, tracking \in BOOLEAN
  PROVE  /\ CopyOf(g) \in Functor
         /\ CopyOf(g).object.from = g.object.from
         /\ CopyOf(g).inner.from = g.inner.from
         /\ ~tracking => ~CopyOf(g).object.counted /\ ~CopyOf(g).inner.counted
         /\ ~g.object.counted => ~CopyOf(g).object.counted
         /\ ~g.inner.counted => ~CopyOf(g).inner.counted
<1>1. ASSUME NEW b \in Bytes
      PROVE  /\ CopiedBytes(b) \in Bytes /\ CopiedBytes(b).from = b.from
             /\ CopiedBytes(b).counted = (b.counted /\ tracking)
  BY DEF CopiedBytes, Bytes
<1>2. g.object \in Bytes /\ g.inner \in Bytes
  BY DEF Functor
<1>3. CopyOf(g).object = CopiedBytes(g.object) /\ CopyOf(g).inner = CopiedBytes(g.inner)
  BY DEF CopyOf
<1> QED
  BY <1>1, <1>2, <1>3 DEF CopyOf, Functor, Bytes

(* The steps of replay_functor keep the invariant.                         *)
LEMMA ReviveNext == LInv /\ replay_functor => LInv'
<1> SUFFICES ASSUME LInv, replay_functor PROVE LInv'
  OBVIOUS
<1>1. /\ dummy_functor \in Functor /\ saved \in Functor /\ f \in Functor
      /\ tracking \in BOOLEAN /\ hdl \in BOOLEAN /\ calls \in Nat
      /\ Stored \in Bytes
  BY ReplayLaunchAssumption DEF LInv, LaunchTypeOK, Stored, Bytes
<1>2. UNCHANGED <<argVars, loadVars>>
  BY DEF replay_functor, tracking_disable, construct_dummy, init_functor_throws,
         init_functor, copy_extended_lambda_inner_lambda, copy_functor, restore_dummy,
         restore_extended_lambda_inner_lambda, destroy_dummy, tracking_enable, unchanged
<1>3. ArgInv' /\ ArgTypeOK'
  BY <1>2 DEF argVars, LInv, ArgInv, ArgTypeOK, Moving, FirstFlag, ArgvKept, Whole
<1> DEFINE Rest == LaunchTypeOK' /\ (at' \in InCall => ~tracking') /\ TrackingBack' /\ Handles'
                   /\ at \notin {"start", "failed"} /\ at' \notin {"launched", "refused"}
<1>4. ASSUME Rest PROVE LInv'
  BY <1>2, <1>3, <1>4
  DEF loadVars, LInv, Loaded, Described, register_bounds, register_range,
      register_mdrange, register_team, DescribeScratch, LaunchedAsCaptured, Supported
<1> USE DEF LInv, LaunchTypeOK, InCall, TrackingBack, Handles, loadVars, unchanged
<1>5. CASE tracking_disable
  <2>1. UserFunctor \in Functor /\ Mine(UserFunctor)
    BY <1>1 DEF UserFunctor, Users, Functor, Bytes, Mine
  <2> QED
    <3>1. calls' \in 0 .. MaxCalls /\ at' = "construct" /\ at = "ready"
      BY <1>1, <1>5, ReplayLaunchAssumption DEF tracking_disable
    <3>2. LaunchTypeOK'
      BY <1>1, <1>2, <1>3, <1>5, <2>1, <3>1 DEF tracking_disable
    <3>3. ~tracking' /\ TrackingBack'
      BY <1>5, <3>1 DEF tracking_disable
    <3>4. Handles'
      BY <1>5, <2>1, <3>1 DEF tracking_disable
    <3> QED
      BY <1>4, <3>1, <3>2, <3>3, <3>4
<1>6. CASE construct_dummy
  <2>1. /\ CopyOf(dummy_functor) \in Functor
        /\ Mine(dummy_functor) => Mine(CopyOf(dummy_functor))
    BY <1>1, Copies DEF Mine
  <2> QED
    BY <1>1, <1>2, <1>3, <1>4, <1>6, <2>1 DEF construct_dummy, Mine, Revived
<1>7. CASE init_functor_throws
  BY <1>1, <1>2, <1>3, <1>4, <1>7 DEF init_functor_throws, Mine, Revived
<1>8. CASE init_functor
  <2>1. [dummy_functor EXCEPT !.object = Stored] \in Functor
    BY <1>1 DEF Functor
  <2> QED
    BY <1>1, <1>2, <1>3, <1>4, <1>8, <2>1 DEF init_functor, Mine, Revived, Stored, Functor
<1>9. CASE copy_extended_lambda_inner_lambda
  <2>1. /\ [dummy_functor EXCEPT !.inner = Stored] \in Functor
        /\ [saved EXCEPT !.inner = dummy_functor.inner] \in Functor
    BY <1>1 DEF Functor
  <2> QED
    BY <1>1, <1>2, <1>3, <1>4, <1>9, <2>1
    DEF copy_extended_lambda_inner_lambda, Mine, Revived, Stored, Functor
<1>10. CASE copy_functor
  <2>1. /\ CopyOf(dummy_functor) \in Functor
        /\ dummy_functor.object.from = "stored" /\ ~tracking
        /\ hdl => dummy_functor.inner.from = "stored"
    BY <1>1, <1>10, Copies DEF copy_functor
  <2>2. Revived(CopyOf(dummy_functor))
    BY <1>1, <2>1, Copies DEF Revived
  <2> QED
    BY <1>1, <1>2, <1>3, <1>4, <1>10, <2>1, <2>2 DEF copy_functor, Mine, Revived
<1>11. CASE restore_dummy
  <2>1. [dummy_functor EXCEPT !.object = saved.object] \in Functor
    BY <1>1 DEF Functor
  <2> QED
    BY <1>1, <1>2, <1>3, <1>4, <1>11, <2>1 DEF restore_dummy, Mine, Revived, Functor
<1>12. CASE restore_extended_lambda_inner_lambda
  <2>1. [dummy_functor EXCEPT !.inner = saved.inner] \in Functor
    BY <1>1 DEF Functor
  <2> QED
    BY <1>1, <1>2, <1>3, <1>4, <1>12, <2>1
    DEF restore_extended_lambda_inner_lambda, Mine, Revived, Functor
<1>13. CASE destroy_dummy
  <2>1. ~Dangerous(dummy_functor)
    BY <1>1, <1>13 DEF destroy_dummy, Dangerous, Releases
  <2> QED
    BY <1>1, <1>2, <1>3, <1>4, <1>13, <2>1 DEF destroy_dummy, Mine, Revived
<1>14. CASE tracking_enable
  <2>1. LaunchTypeOK'
    BY <1>1, <1>2, <1>3, <1>14 DEF tracking_enable
  <2>2. TrackingBack' /\ at' = "visit" /\ at = "enable"
    BY <1>14 DEF tracking_enable
  <2>3. Handles'
    BY <1>1, <1>2, <1>14 DEF tracking_enable, Revived
  <2> QED
    BY <1>4, <2>1, <2>2, <2>3
<1> QED
  BY <1>5, <1>6, <1>7, <1>8, <1>9, <1>10, <1>11, <1>12, <1>13, <1>14 DEF replay_functor

(* So do the ScopeGuard, the visitor and what follows it.                  *)
LEMMA LInvNext == LInv /\ [Next]_vars => LInv'
<1> SUFFICES ASSUME LInv, [Next]_vars PROVE LInv'
  OBVIOUS
<1>1. /\ f \in Functor /\ tracking \in BOOLEAN /\ hdl \in BOOLEAN
      /\ dump \in Dump \cup {Nothing}
  BY DEF LInv, LaunchTypeOK
<1>2. ASSUME UNCHANGED argVars PROVE ArgInv' /\ ArgTypeOK'
  BY <1>2 DEF argVars, LInv, ArgInv, ArgTypeOK, Moving, FirstFlag, ArgvKept, Whole
<1>3. CASE FindFlag
  <2>1. ArgInv' /\ ArgTypeOK'
    BY <1>3, ArgInvNext DEF FindFlag, LInv, ArgInv
  <2>2. UNCHANGED <<loadVars, callVars>> /\ at = "start"
    BY <1>3 DEF FindFlag
  <2> QED
    BY <2>1, <2>2
    DEF loadVars, callVars, LInv, LaunchTypeOK, Loaded, InCall, TrackingBack, Handles, Mine,
        Revived, LaunchedAsCaptured, Supported
<1>4. CASE Load
  <2>1. UNCHANGED argVars /\ at = "start" /\ at' \in {"ready", "failed"}
    BY <1>4 DEF Load
  <2>2. UNCHANGED <<hdl, size, forced, tracking, dummy_functor, saved, f, launched, calls,
                    threw>>
    BY <1>4 DEF Load
  <2>3. /\ dump' \in Dump \cup {Nothing} /\ functor_data' \in Nat
        /\ Loaded'
    <3>1. CASE argument \in DOMAIN Files /\ ReadsPolicy(Described(Files[argument]))
      <4>1. /\ dump' = Files[argument] /\ replay_policy' = Described(Files[argument])
            /\ functor_data' = Files[argument].size
        BY <1>4, <3>1 DEF Load
      <4>2. Files[argument] \in Dump /\ Files[argument].size \in Nat
        BY <3>1, ReplayLaunchAssumption
      <4> QED
        BY <4>1, <4>2
        DEF Loaded, Described, register_bounds, register_range, register_mdrange,
            register_team, DescribeScratch
    <3>2. CASE ~(argument \in DOMAIN Files /\ ReadsPolicy(Described(Files[argument])))
      <4>1. UNCHANGED <<dump, functor_data>> /\ at' = "failed"
        BY <1>4, <3>2 DEF Load
      <4> QED
        BY <1>1, <4>1 DEF LInv, LaunchTypeOK, Loaded
    <3> QED
      BY <3>1, <3>2
  <2>4. at' = "ready" => Supported(dump'.policy)
    <3>1. SUFFICES ASSUME at' = "ready"
                   PROVE  Supported(Files[argument].policy)
      BY <1>4 DEF Load
    <3>2. argument \in DOMAIN Files /\ ReadsPolicy(Described(Files[argument]))
      BY <1>4, <3>1 DEF Load
    <3> DEFINE p == Files[argument].policy
    <3>3. p \in Policy \cup {Nothing}
      BY <3>2, ReplayLaunchAssumption
    <3>4. CASE p = Nothing
      BY <3>4 DEF Supported
    <3>5. CASE p \in Policy
      <4>1. ReadsPolicy(register_bounds(p))
        BY <3>2, <3>5, ReplayLaunchAssumption DEF Described
      <4> HIDE DEF p
      <4>2. Supported(p)
        BY <3>5, <4>1, OnlySupported
      <4> QED
        BY <4>2 DEF p
    <3> QED
      BY <3>3, <3>4, <3>5
  <2>5. LaunchedAsCaptured'
    BY <2>1, <2>4 DEF LaunchedAsCaptured, Supported
  <2> QED
    BY <1>2, <2>1, <2>2, <2>3, <2>5
    DEF LInv, LaunchTypeOK, InCall, TrackingBack, Handles, Mine, Revived
<1>5. CASE ParallelForVisitor
  <2>1. /\ at = "visit" /\ at' \in {"launched", "refused"} /\ UNCHANGED <<argVars, loadVars, calls>>
        /\ UNCHANGED <<size, forced, tracking, dummy_functor, saved, threw>>
        /\ f' = CopyOf(f)
    BY <1>5 DEF ParallelForVisitor, unchanged
  <2>2. f' \in Functor /\ Revived(f')
    BY <1>1, <2>1, Copies DEF LInv, Handles, Revived
  <2>3. LaunchedAsCaptured'
    <3>0. Supported(dump.policy)' /\ at \notin {"start", "failed"}
      BY <2>1 DEF LInv, LaunchedAsCaptured, Supported, loadVars
    <3>1. SUFFICES ASSUME forced = Nothing
                   PROVE  IF dump.policy = Nothing THEN at' = "refused"
                          ELSE /\ at' = "launched"
                               /\ launched' = IF Arity(dump.policy) \in dump.accepts
                                              THEN ReplayedPolicy(dump.policy)
                                              ELSE Nothing
      BY <1>5, <2>1, <3>0
      DEF ParallelForVisitor, LaunchedAsCaptured, loadVars, Arity, ReplayedPolicy
    <3>2. dump \in Dump /\ replay_policy = Described(dump)
      BY <2>1 DEF LInv, Loaded
    <3>3. dump.policy \in Policy \cup {Nothing}
      BY <3>2, ReplayLaunchAssumption
    <3>4. CASE dump.policy = Nothing
      BY <1>5, <3>1, <3>2, <3>4 DEF ParallelForVisitor, Described
    <3>5. CASE dump.policy \in Policy
      <4>1. /\ replay_policy = register_bounds(dump.policy)
            /\ dump.policy # Nothing
        BY <3>2, <3>5, ReplayLaunchAssumption DEF Described
      <4>2. /\ replay_policy # NoPolicyDesc
            /\ Rebuilt(replay_policy) = ReplayedPolicy(dump.policy)
            /\ Arity(replay_policy) = Arity(dump.policy)
        BY <3>5, <4>1, PolicyRoundTrip
      <4> QED
        BY <1>5, <3>1, <4>1, <4>2 DEF ParallelForVisitor
    <3> QED
      BY <3>3, <3>4, <3>5
  <2>4. Loaded'
    BY <2>1 DEF LInv, Loaded, loadVars, Described, register_bounds, register_range,
                register_mdrange, register_team, DescribeScratch
  <2> QED
    BY <1>2, <2>1, <2>2, <2>3, <2>4
    DEF loadVars, LInv, LaunchTypeOK, InCall, TrackingBack, Handles, Mine, Revived
<1>6. CASE parallel_for_returns
  <2>1. /\ at \in {"launched", "refused"} /\ UNCHANGED <<argVars, loadVars, calls>>
        /\ UNCHANGED <<size, forced, tracking, dummy_functor, saved, f, launched, threw>>
    BY <1>6 DEF parallel_for_returns, unchanged
  <2>2. at' = "ready"
    BY <1>6, <2>1 DEF parallel_for_returns, LInv, Handles, Revived, Dangerous, Releases
  <2>3. Loaded'
    BY <2>1 DEF LInv, Loaded, loadVars, Described, register_bounds, register_range,
                register_mdrange, register_team, DescribeScratch
  <2> QED
    BY <1>2, <2>1, <2>2, <2>3
    DEF loadVars, LInv, LaunchTypeOK, InCall, TrackingBack, Handles, Mine, Revived,
        LaunchedAsCaptured, Supported
<1>7. CASE UNCHANGED vars
  <2>1. UNCHANGED <<argVars, loadVars, callVars>>
    BY <1>7 DEF vars
  <2>2. Loaded'
    BY <2>1 DEF LInv, Loaded, loadVars, callVars, Described, register_bounds,
                register_range, register_mdrange, register_team, DescribeScratch
  <2>3. LaunchedAsCaptured'
    BY <2>1 DEF LInv, LaunchedAsCaptured, Supported, loadVars, callVars, Arity,
                ReplayedPolicy
  <2> QED
    BY <1>2, <2>1, <2>2, <2>3
    DEF loadVars, callVars, LInv, LaunchTypeOK, InCall, TrackingBack, Handles, Mine,
        Revived
<1> QED
  BY <1>3, <1>4, <1>5, <1>6, <1>7, ReviveNext DEF Next

LEMMA LInvAlways == Spec => []LInv
BY LInvInit, LInvNext, PTL DEF Spec

(* The states are of their types.                                          *)
THEOREM LaunchTypes == Spec => []LaunchTypeOK
BY LInvAlways, PTL DEF LInv

(* The program and Kokkos get every argument but the replayer's own, for   *)
(* any command line.                                                       *)
THEOREM ArgvKeptAlways == Spec => []ArgvKept
<1>1. LInv => ArgvKept
  BY DEF LInv, ArgInv
<1> QED
  BY <1>1, LInvAlways, PTL

(* A kernel is launched with the policy it was captured with, whatever the *)
(* policy and for index types of any width; without one the call throws.   *)
THEOREM LaunchedAsCapturedAlways == Spec => []LaunchedAsCaptured
<1>1. LInv => LaunchedAsCaptured
  BY DEF LInv
<1> QED
  BY <1>1, LInvAlways, PTL

(* No handle that came with the bytes of a dump is ever given back.        *)
THEOREM StoredNeverReleasedAlways == Spec => []StoredNeverReleased
<1>1. LInv => StoredNeverReleased
  BY DEF LInv, Handles, Revived, StoredNeverReleased
<1> QED
  BY <1>1, LInvAlways, PTL

(* Kokkos counts Views again after every call that does not throw.         *)
THEOREM TrackingBackAlways == Spec => []TrackingBack
<1>1. LInv => TrackingBack
  BY DEF LInv
<1> QED
  BY <1>1, LInvAlways, PTL
=============================================================================
