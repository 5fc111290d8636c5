--------------------------- MODULE MCFunctorViews ---------------------------
(* Values for the constants of FunctorViews: a View in a member, a View in *)
(* a base class, and an array of a View and a View.                        *)
EXTENDS FunctorViews, TLC

CONSTANTS f, a, b, v, w

Sub(of, as, kind) == [of |-> of, as |-> as, kind |-> kind]

MCFunctors ==
  {(a :> Sub(f, "member", "record") @@ v :> Sub(a, "member", "view")),
   (b :> Sub(f, "base", "record") @@ v :> Sub(b, "member", "view")),
   (a :> Sub(f, "member", "array") @@ v :> Sub(a, "element", "view")
      @@ w :> Sub(f, "member", "view"))}
=============================================================================
