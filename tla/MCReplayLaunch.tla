--------------------------- MODULE MCReplayLaunch ---------------------------
(***************************************************************************)
(* Values for the constants of ReplayLaunch: index types of 2, 3, 4 and 5  *)
(* bits, every type of policy with numbers at their boundaries, dumps that *)
(* are too small, were captured without a policy or with a work tag, or    *)
(* are not for this build, and every command line of up to four arguments. *)
(***************************************************************************)
EXTENDS ReplayLaunch

CONSTANT other  \* a text that names no dump

MCHalf == [s \in Size |-> CASE s = 1 -> 2 [] s = 2 -> 4 [] s = 4 -> 8 [] s = 8 -> 16]

Ends(t) == IndexValue(t) \cap
  ({-Half[t.size], -1, 0, 1, Half[t.size] - 1, Half[t.size], Word(t.size) - 1})

RangePolicy(t, schedule, b, e) ==
  [type |-> "range", index |-> t, space |-> "Serial", schedule |-> schedule,
   begin |-> b, end |-> e, chunk_size |-> 1]

Ranges == UNION {{RangePolicy(t, "Static", b, e) : b \in Ends(t), e \in Ends(t)} :
                   t \in IndexType}

IntIndex == [size |-> 4, is_signed |-> TRUE]

MDRanges ==
  {[type |-> "mdrange", index |-> IntIndex, space |-> "Serial",
    schedule |-> schedule, rank |-> r, outer_dir |-> outer, inner_dir |-> inner,
    begin |-> [k \in 1 .. r |-> -1], end |-> [k \in 1 .. r |-> k],
    tile |-> [k \in 1 .. r |-> 0]] :
     r \in {1, 2, 3}, schedule \in {"Static", "Dynamic"},
     outer \in {"Left", "Right"}, inner \in {"Left", "Right"}}

Teams ==
  {[type |-> "team", index |-> IntIndex, space |-> space, schedule |-> "Static",
    league_size |-> 3, team_size |-> team, vector_length |-> vector,
    scratch |-> scratch, chunk_size |-> 1] :
     space \in {"Serial", "OpenMP", "Cuda"}, team \in {<<>>, <<1>>},
     vector \in {<<>>, <<4>>},
     scratch \in {<<0, 0, 0, 0>>, <<8, 0, 0, 2>>, <<0, 4, 1, 0>>}}

Scalar == [type |-> "scalar", end |-> 7]
Captured == {Scalar} \cup Ranges \cup MDRanges \cup Teams

MCDump ==
  {[policy |-> p, accepts |-> {Arity(p)}, size |-> 2] : p \in Captured}
  \cup {[policy |-> p, accepts |-> {}, size |-> 2] : p \in {Scalar}}
  \cup {[policy |-> Scalar, accepts |-> {1, 2}, size |-> 1],
        [policy |-> Nothing, accepts |-> {1}, size |-> 2]}

(* A file name is represented by the dump in the file.                     *)
MCText == MCDump \cup {other}
MCFiles == [d \in MCDump |-> d]

Say(d) == [is |-> "text", text |-> d]
Set(d) == [is |-> "flag=", text |-> d]
word == Say(other)
Small == CHOOSE d \in MCDump : d.size = 1
Usual == CHOOSE d \in MCDump : d.policy = Scalar /\ d.accepts = {1}
Args == {word, [is |-> "flag", text |-> other], Say(Small), Set(Small), Set(Usual)}

MCCommandLines ==
  {<<word>> \o rest : rest \in UNION {[1 .. k -> Args] : k \in 0 .. 3}}
  \cup {<<word, Set(d)>> : d \in MCDump}

MCPolicies == {[type |-> "scalar", end |-> 3]}
=============================================================================
