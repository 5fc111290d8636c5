---------------------------- MODULE PolicyCodec ----------------------------
(***************************************************************************)
(* An execution policy on its way from krepe::parallel_for in the          *)
(* application to Kokkos::parallel_for in the replay program:              *)
(* register_bounds (extract/kernel_extractor.hpp) takes it apart,          *)
(* write_policy (capture/view_dump.cpp) stores the parts,                  *)
(* read_policy_from_hdf5 (replay/kernel_replayer.cpp) reads them and       *)
(* ParallelForVisitor (replay/kernel_replayer.hpp) builds the policy.      *)
(*                                                                         *)
(* A policy is a record of what Kokkos lets the code query.  An optional   *)
(* number is a sequence of at most one: <<>> is Kokkos::AUTO.              *)
(*                                                                         *)
(* An operator nothing uses (OrZero, ...) is a slip in the definition      *)
(* that follows it, and a property must catch it.                          *)
(***************************************************************************)
EXTENDS Integers, Sequences

CONSTANTS
  Half,           \* 2 ^ (8 * size - 1) for the index types of each size,
                  \* scaled down for TLC
  Ranks,          \* of MDRangePolicy: 2 .. 6, and 1 since Kokkos 5.2
  Space,          \* execution spaces of captured kernels
  QueryableSpace, \* execution spaces whose scratch sizes can be queried
  EnabledSpace,   \* execution spaces the replay program is built with
  Nothing         \* no policy

Size == {1, 2, 4, 8}

ASSUME PolicyCodecAssumption ==
  /\ Half \in [Size -> Nat \ {0}]
  /\ \A s \in Size : Half[s] <= Half[8]
  /\ Ranks \subseteq 1 .. 6

-----------------------------------------------------------------------------
(* Index types, and the conversions of C++.                                *)
IndexType == [size : Size, is_signed : BOOLEAN]

Word(s) == 2 * Half[s]
IndexValue(t) == IF t.is_signed THEN -Half[t.size] .. Half[t.size] - 1
                 ELSE 0 .. Word(t.size) - 1

ToUnsigned(x, s) == x % Word(s)
ToSigned(x, s) == ((x + Half[s]) % Word(s)) - Half[s]

index_type_to_u64(x, t) == IF t.is_signed THEN ToUnsigned(x, 8) ELSE x

ReadBound(u, t) ==
  IF t.is_signed THEN ToSigned(ToSigned(u, 8), t.size)
  ELSE ToUnsigned(u, t.size)

-----------------------------------------------------------------------------
(* The policies krepe::parallel_for is overloaded for.                     *)
Optional == {s \in Seq(Nat) : Len(s) <= 1}

ScalarPolicies == [type : {"scalar"}, end : Nat]
RangePolicies ==
  {p \in [type : {"range"}, index : IndexType, space : Space,
          schedule : {"Static", "Dynamic"}, begin : Int, end : Int, chunk_size : Nat] :
     p.begin \in IndexValue(p.index) /\ p.end \in IndexValue(p.index)}
MDRangePolicies ==
  [type : {"mdrange"}, index : IndexType, space : Space,
   schedule : {"Static", "Dynamic"}, rank : 1 .. 6, outer_dir : {"Left", "Right"},
   inner_dir : {"Left", "Right"}, begin : Seq(Int), end : Seq(Int), tile : Seq(Int)]
TeamPolicies ==
  [type : {"team"}, index : IndexType, space : Space,
   schedule : {"Static", "Dynamic"}, league_size : Nat, team_size : Optional,
   vector_length : Optional, scratch : [1 .. 4 -> Nat], chunk_size : Nat]

Policy == ScalarPolicies \cup RangePolicies \cup MDRangePolicies \cup TeamPolicies

-----------------------------------------------------------------------------
(* In the application: the overloads of register_bounds, whose arguments   *)
(* the tool keeps as they are and write_policy stores by name.             *)
OrZero(s) == IF s = <<>> THEN 0 ELSE s[1]
OrMinusOne(s) == IF s = <<>> THEN -1 ELSE s[1]

DescribeScratch(p) ==
  IF p.space \in QueryableSpace THEN p.scratch ELSE <<-1, -1, -1, -1>>

ScheduleName == [Static |-> "static", Dynamic |-> "dynamic"]
IterationName == [Left |-> "left", Right |-> "right"]

register_range(p) ==
  [type |-> "range", index |-> p.index, space |-> p.space,
   schedule |-> ScheduleName[p.schedule],
   begin |-> index_type_to_u64(p.begin, p.index),
   end |-> index_type_to_u64(p.end, p.index), chunk_size |-> p.chunk_size]

register_mdrange(p) ==
  [p EXCEPT !.schedule = ScheduleName[@], !.outer_dir = IterationName[@],
            !.inner_dir = IterationName[@]]

register_team(p) ==
  [type |-> "team", index |-> p.index, space |-> p.space,
   schedule |-> ScheduleName[p.schedule], league_size |-> p.league_size,
   team_size |-> OrMinusOne(p.team_size),
   vector_length |-> OrMinusOne(p.vector_length),
   scratch |-> DescribeScratch(p), chunk_size |-> p.chunk_size]

register_bounds(p) ==
  CASE p.type = "scalar"  -> p
    [] p.type = "range"   -> register_range(p)
    [] p.type = "mdrange" -> register_mdrange(p)
    [] p.type = "team"    -> register_team(p)

NoPolicyDesc == [type |-> "none"]

-----------------------------------------------------------------------------
(* In the replay program: what read_policy_from_hdf5 refuses, and the      *)
(* policies get_range_policy, get_mdrange_policy and get_team_policy make. *)
ReadsPolicy(d) ==
  /\ d.type \notin {"none", "scalar"} => d.space \in EnabledSpace
  /\ d.type = "mdrange" => d.rank \in Ranks

ReadSchedule == [static |-> "Static", dynamic |-> "Dynamic"]
ReadIteration == [left |-> "Left", right |-> "Right"]
OrAuto(x) == IF x < 0 THEN <<>> ELSE <<x>>

get_range_policy(d) ==
  [d EXCEPT !.schedule = ReadSchedule[@],
            !.begin = ReadBound(@, d.index), !.end = ReadBound(@, d.index)]

get_mdrange_policy(d) ==
  [d EXCEPT !.schedule = ReadSchedule[@], !.outer_dir = ReadIteration[@],
            !.inner_dir = ReadIteration[@]]

(* The scratch sizes are set when they could be queried.                   *)
get_team_policy(d) ==
  [d EXCEPT !.schedule = ReadSchedule[@],
            !.team_size = OrAuto(@), !.vector_length = OrAuto(@),
            !.scratch = IF @[1] # -1 THEN @ ELSE <<0, 0, 0, 0>>]

Rebuilt(d) ==
  CASE d.type = "scalar"  -> d
    [] d.type = "range"   -> get_range_policy(d)
    [] d.type = "mdrange" -> get_mdrange_policy(d)
    [] d.type = "team"    -> get_team_policy(d)

(* The functor has to accept what the policy passes: one index, as many as *)
(* the rank, or a team member (0 here).  ParallelForVisitor launches       *)
(* nothing otherwise.                                                      *)
Arity(d) == CASE d.type \in {"scalar", "range"} -> 1
              [] d.type = "mdrange"             -> d.rank
              [] d.type = "team"                -> 0
=============================================================================
