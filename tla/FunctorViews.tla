---------------------------- MODULE FunctorViews ----------------------------
(***************************************************************************)
(* What the compiler plugins find in the type of a functor                 *)
(* (compiler_plugins/gcc.cpp and clang.cpp): they walk its members and put *)
(* one register_view call into krepe::replay_functor for each Kokkos::View *)
(* they come to.  A snapshot then has only those allocations.              *)
(*                                                                         *)
(* A functor is a tree of subobjects: each but the functor itself is in    *)
(* another one, as a member, a base class, an array element or what a      *)
(* reference refers to.                                                    *)
(***************************************************************************)
CONSTANTS
  Root,     \* the functor
  Functors  \* the functor types a program may have: for each subobject
            \* what it is in ("of"), in which role ("member", "base",
            \* "element" or "target") and its kind ("record", "view",
            \* "array", "reference" or "other")

VARIABLES
  functor,   \* the type, by subobject
  compiler,  \* which plugin
  pending,   \* subobjects still to visit
  views      \* those a register_view call was built for

vars == <<functor, compiler, pending, views>>

In(n) == {m \in DOMAIN functor : functor[m].of = n}

Init ==
  /\ functor \in Functors
  /\ compiler \in {"gcc", "clang"}
  /\ pending = {Root}
  /\ views = {}

(* TYPE_FIELDS has a field for each base class; CXXRecordDecl::fields has  *)
(* none.                                                                   *)
Fields(n) ==
  {m \in In(n) : functor[m].as = "member" \/ (compiler = "gcc" /\ functor[m].as = "base")}

visit_record(n) ==
  /\ pending' = (pending \ {n}) \cup Fields(n)
  /\ UNCHANGED <<functor, compiler, views>>

visit_view(n) ==
  /\ pending' = pending \ {n}
  /\ views' = views \cup {n}
  /\ UNCHANGED <<functor, compiler>>

(* The Clang plugin looks through a reference, GCC's does not.             *)
visit_reference(n) ==
  /\ pending' = (pending \ {n}) \cup (IF compiler = "clang" THEN In(n) ELSE {})
  /\ UNCHANGED <<functor, compiler, views>>

(* The type of an array is not a record, nor is that of anything else.     *)
visit_other(n) ==
  /\ pending' = pending \ {n}
  /\ UNCHANGED <<functor, compiler, views>>

visit(n) ==
  LET kind == IF n = Root THEN "record" ELSE functor[n].kind
  IN  \/ kind = "record" /\ visit_record(n)
      \/ kind = "view" /\ visit_view(n)
      \/ kind = "reference" /\ visit_reference(n)
      \/ kind \in {"array", "other"} /\ visit_other(n)

Next == \E n \in pending : visit(n)

Spec == Init /\ [][Next]_vars

-----------------------------------------------------------------------------
(* When the walk is over, every View among the subobjects of a functor     *)
(* without references is registered: the kernel may use it, so the dump    *)
(* must have its allocation.                                               *)
ContainedViewsFound ==
  pending = {} =>
    \A v \in DOMAIN functor :
      functor[v].kind = "view" /\ (\A n \in DOMAIN functor : functor[n].kind # "reference")
        => v \in views
=============================================================================
