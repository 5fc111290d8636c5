------------------------- MODULE RegionMergeProofs -------------------------
(***************************************************************************)
(* The regions the replayer maps, for any granularity, addresses, sizes    *)
(* and number of allocations.                                              *)
(***************************************************************************)
EXTENDS RegionMerge, WellFoundedInduction, TLAPS

-----------------------------------------------------------------------------
(* Rounding.                                                               *)

Aligned(x) == x % Granularity = 0

LEMMA Rounding ==
  ASSUME NEW x \in Nat
  PROVE  /\ RoundDown(x) \in Nat
         /\ RoundDown(x) <= x
         /\ Aligned(RoundDown(x))
<1>1. x = Granularity * (x \div Granularity) + (x % Granularity)
  BY GranularityAssumption
<1> QED  BY <1>1, GranularityAssumption DEF RoundDown, Aligned

LEMMA RoundingUp ==
  ASSUME NEW n \in Nat \ {0}
  PROVE  /\ RoundUp(n) \in Nat \ {0}
         /\ n <= RoundUp(n)
         /\ Aligned(RoundUp(n))
<1> QED  BY GranularityAssumption DEF RoundUp, Aligned

LEMMA AlignedDifference ==
  ASSUME NEW x \in Nat, NEW y \in Nat, Aligned(x), Aligned(y), x <= y
  PROVE  Aligned(y - x) /\ Aligned(x + y)
<1>1. x = Granularity * (x \div Granularity)
  BY GranularityAssumption DEF Aligned
<1>2. y = Granularity * (y \div Granularity)
  BY GranularityAssumption DEF Aligned
<1>3. y - x = Granularity * ((y \div Granularity) - (x \div Granularity))
  BY <1>1, <1>2, GranularityAssumption
<1>4. x + y = Granularity * ((y \div Granularity) + (x \div Granularity))
  BY <1>1, <1>2, GranularityAssumption
<1>5. ASSUME NEW k \in Int PROVE (Granularity * k) % Granularity = 0
  BY GranularityAssumption
<1> QED  BY <1>3, <1>4, <1>5, GranularityAssumption DEF Aligned

LEMMA AlignedSum ==
  ASSUME NEW x \in Nat, NEW y \in Nat, Aligned(x), Aligned(y)
  PROVE  Aligned(x + y)
<1>1. CASE x <= y
  BY <1>1, AlignedDifference
<1>2. CASE y <= x
  <2>1. x + y = y + x
    OBVIOUS
  <2> QED  BY <1>2, <2>1, AlignedDifference
<1> QED  BY <1>1, <1>2

LEMMA RoundUpShift ==
  ASSUME NEW x \in Nat, NEW n \in Nat \ {0}, Aligned(x)
  PROVE  x + RoundUp(n) = RoundUp(x + n)
<1>1. PICK k \in Int : x = Granularity * k
  <2>1. x = Granularity * (x \div Granularity) /\ x \div Granularity \in Int
    BY GranularityAssumption DEF Aligned
  <2> QED  BY <2>1
<1>2. PICK q \in Int : q = (n - 1) \div Granularity
  BY GranularityAssumption
<1>3. ((x + n) - 1) \div Granularity = k + q
  BY <1>1, <1>2, GranularityAssumption
<1>4. RoundUp(n) = (q + 1) * Granularity
  BY <1>2 DEF RoundUp
<1>5. RoundUp(x + n) = ((k + q) + 1) * Granularity
  BY <1>3 DEF RoundUp
<1>6. ((k + q) + 1) * Granularity = Granularity * k + (q + 1) * Granularity
  BY GranularityAssumption
<1> QED  BY <1>1, <1>4, <1>5, <1>6

-----------------------------------------------------------------------------
(* The region of one allocation.                                           *)

LEMMA RegionOf ==
  ASSUME NEW a \in Nat, NEW n \in Nat \ {0}
  PROVE  LET r == get_allocation_address(a, n) IN
         /\ r \in Region
         /\ r.start = RoundDown(a)
         /\ End(r) = RoundUp(a + n)
         /\ r.start <= a /\ a + n <= End(r)
         /\ Aligned(r.start) /\ Aligned(r.size)
<1> DEFINE d == RoundDown(a)
           r == get_allocation_address(a, n)
<1>1. d \in Nat /\ d <= a /\ Aligned(d)
  BY Rounding
<1>2. n + (a - d) \in Nat \ {0}
  BY <1>1
<1>3. r = [start |-> d, size |-> RoundUp(n + (a - d))]
  BY DEF get_allocation_address
<1>4. /\ RoundUp(n + (a - d)) \in Nat \ {0}
      /\ n + (a - d) <= RoundUp(n + (a - d))
      /\ Aligned(RoundUp(n + (a - d)))
  BY <1>2, RoundingUp
<1>5. d + RoundUp(n + (a - d)) = RoundUp(d + (n + (a - d)))
  BY <1>1, <1>2, RoundUpShift
<1>6. d + (n + (a - d)) = a + n
  BY <1>1
<1>7. r \in Region /\ r.start = d /\ r.size = RoundUp(n + (a - d))
  BY <1>1, <1>3, <1>4 DEF Region
<1>8. a + n <= d + RoundUp(n + (a - d))
  BY <1>1, <1>4
<1> HIDE DEF r, d
<1>9. /\ r \in Region /\ r.start = d /\ End(r) = RoundUp(a + n)
      /\ r.start <= a /\ a + n <= End(r)
      /\ Aligned(r.start) /\ Aligned(r.size)
  BY <1>1, <1>4, <1>5, <1>6, <1>7, <1>8 DEF End
<1> QED  BY <1>9 DEF r, d

LEMMA RegionsType ==
  ASSUME wanted \in SUBSET (Address \X Size)
  PROVE  Regions \in SUBSET Region
<1> SUFFICES ASSUME NEW w \in wanted
             PROVE  get_allocation_address(w[1], w[2]) \in Region
  BY DEF Regions
<1>1. w[1] \in Nat /\ w[2] \in Nat \ {0}
  BY RegionAssumption
<1> QED  BY <1>1, RegionOf

(* A set of regions has a least one.                                       *)
LEMMA SmallestNumber ==
  ASSUME NEW T \in SUBSET Nat, T # {}
  PROVE  \E m \in T : \A n \in T : m <= n
<1> DEFINE R == {ss \in Nat \X Nat : ss[1] < ss[2]}
<1>1. IsWellFoundedOn(R, Nat)
  BY NatLessThanWellFounded, Zenon DEF OpToRel
<1>2. \A m, n \in Nat : <<n, m>> \in R <=> n < m
  OBVIOUS
<1> HIDE DEF R
<1>3. \E m \in T : \A n \in T : ~ (<<n, m>> \in R)
  BY <1>1, WFMin, Zenon
<1>4. PICK m \in T : \A n \in T : ~ (<<n, m>> \in R)
  BY <1>3
<1>5. ASSUME NEW n \in T PROVE m <= n
  <2>1. m \in Nat /\ n \in Nat
    OBVIOUS
  <2>2. ~ (n < m)
    BY <1>2, <1>4, <2>1
  <2> QED  BY <2>1, <2>2
<1> QED  BY <1>5

LEMMA LeastRegion ==
  ASSUME NEW S \in SUBSET Region, S # {}
  PROVE  /\ Least(S) \in S
         /\ \A s \in S : Least(S).start <= s.start
<1> DEFINE starts == {s.start : s \in S}
<1>1. PICK a \in starts : \A b \in starts : a <= b
  <2>1. starts \in SUBSET Nat /\ starts # {}
    BY DEF Region
  <2> QED  BY <2>1, SmallestNumber
<1> DEFINE sizes == {s.size : s \in {q \in S : q.start = a}}
<1>2. PICK n \in sizes : \A m \in sizes : n <= m
  <2>1. sizes \in SUBSET Nat /\ sizes # {}
    BY <1>1 DEF Region
  <2> QED  BY <2>1, SmallestNumber
<1>3. PICK r \in S : r.start = a /\ r.size = n
  BY <1>2
<1>4. \A s \in S : s.start \in Nat /\ s.size \in Nat
  BY DEF Region
<1>5. \A s \in S : Precedes(r, s)
  <2> SUFFICES ASSUME NEW s \in S PROVE Precedes(r, s)
    OBVIOUS
  <2>1. a <= s.start /\ (s.start = a => n <= s.size)
    BY <1>1, <1>2
  <2> QED  BY <1>3, <1>4, <2>1 DEF Precedes
<1>6. Least(S) \in S /\ \A s \in S : Precedes(Least(S), s)
  BY <1>5 DEF Least
<1> QED  BY <1>4, <1>6 DEF Precedes

-----------------------------------------------------------------------------
(* The loop invariant.  The finished regions end before the one under      *)
(* construction starts, and no region still to come starts before it: so a *)
(* region to come can only overlap the one under construction.             *)

Built == state.allocs \cup {state.current}

Touched(x) == \E r \in Regions : r.start <= x /\ x < End(r)

Sorted ==
  ~done => /\ \A m \in state.allocs : End(m) <= state.current.start
           /\ \A r \in todo : state.current.start <= r.start

Inside(r) == \E m \in Built : m.start <= r.start /\ End(r) <= End(m)

MergeInv ==
  /\ MergeTypeOK
  /\ todo \subseteq Regions
  /\ Sorted
  /\ RegionsDisjoint
  /\ \A r \in Regions \ todo : Inside(r)
  /\ \A m \in Built : \A x \in m.start .. (End(m) - 1) : Touched(x)
  /\ \A m \in Built : Aligned(m.start) /\ Aligned(m.size)
  /\ done => todo = {} /\ state.current \in state.allocs

LEMMA RegionsAreAligned ==
  ASSUME MergeTypeOK, NEW r \in Regions
  PROVE  r \in Region /\ Aligned(r.start) /\ Aligned(r.size)
<1>1. PICK w \in wanted : r = get_allocation_address(w[1], w[2])
  BY DEF Regions
<1>2. w[1] \in Nat /\ w[2] \in Nat \ {0}
  BY RegionAssumption DEF MergeTypeOK
<1> QED  BY <1>1, <1>2, RegionOf

LEMMA BeginMergeInv == Begin => MergeInv
<1> SUFFICES ASSUME Begin PROVE MergeInv
  OBVIOUS
<1>1. Regions \in SUBSET Region
  BY RegionsType DEF Begin
<1>2. Regions # {}
  BY DEF Begin, Regions
<1>3. /\ Least(Regions) \in Regions
      /\ \A s \in Regions : Least(Regions).start <= s.start
  BY <1>1, <1>2, LeastRegion
<1>4. /\ state.current = Least(Regions) /\ state.allocs = {}
      /\ todo = Regions \ {Least(Regions)} /\ ~done
      /\ Built = {Least(Regions)}
  BY DEF Begin, Built
<1>5. MergeTypeOK
  BY <1>1, <1>3 DEF Begin, MergeTypeOK
<1>6. Sorted
  BY <1>3, <1>4 DEF Sorted
<1>7. RegionsDisjoint
  BY <1>4 DEF RegionsDisjoint, Mapped
<1>8. \A r \in Regions \ todo : Inside(r)
  <2> SUFFICES ASSUME NEW r \in Regions \ todo PROVE Inside(r)
    OBVIOUS
  <2>1. r = Least(Regions) /\ r \in Region
    BY <1>1, <1>4
  <2> QED  BY <1>4, <2>1 DEF Inside, End, Region
<1>9. \A m \in Built : \A x \in m.start .. (End(m) - 1) : Touched(x)
  BY <1>1, <1>3, <1>4 DEF Touched, End, Region
<1>10. \A m \in Built : Aligned(m.start) /\ Aligned(m.size)
  BY <1>3, <1>4, <1>5, RegionsAreAligned
<1> QED
  BY <1>4, <1>5, <1>6, <1>7, <1>8, <1>9, <1>10 DEF MergeInv

(* The region under construction grows over the next one.                  *)
LEMMA GrowMergeInv ==
  ASSUME MergeInv, Iterate, End(state.current) > Least(todo).start
  PROVE  MergeInv'
<1> DEFINE r == Least(todo)
           c == state.current
           d == state'.current
<1>1. /\ todo \in SUBSET Region /\ todo # {} /\ todo \subseteq Regions
      /\ c \in Region /\ state.allocs \in SUBSET Region
  BY DEF MergeInv, MergeTypeOK, Iterate
<1>2. r \in todo /\ \A s \in todo : r.start <= s.start
  BY <1>1, LeastRegion
<1>3. ~done /\ ~done'
  BY <1>1 DEF MergeInv, MergeTypeOK, Iterate
<1>4. r \in Region /\ c.start <= r.start /\ c.start <= End(c)
  BY <1>1, <1>2, <1>3 DEF MergeInv, Sorted, Region, End
<1>5. /\ wanted' = wanted /\ Regions' = Regions
      /\ todo' = todo \ {r}
      /\ state' = [state EXCEPT !.current.size =
                     Longest(End(r) - c.start, c.size)]
  BY DEF Iterate, Visit, Regions
<1>6. /\ d.start = c.start
      /\ d.size = Longest(End(r) - c.start, c.size)
      /\ state'.allocs = state.allocs
      /\ d \in Region
      /\ state' \in [current : Region, allocs : SUBSET Region]
  <2>1. Longest(End(r) - c.start, c.size) \in Nat \ {0}
    BY <1>1, <1>4 DEF Longest, End, Region
  <2>2. state \in [current : Region, allocs : SUBSET Region]
    BY DEF MergeInv, MergeTypeOK
  <2> QED  BY <1>5, <2>1, <2>2 DEF Region
<1>7. /\ End(d) = Longest(End(r), End(c))
      /\ End(r) \in Nat /\ End(c) \in Nat /\ End(d) \in Nat
  BY <1>1, <1>4, <1>6 DEF Longest, End, Region
<1>8. /\ Built = state.allocs \cup {c}
      /\ Built' = state.allocs \cup {d}
  BY <1>6 DEF Built
<1> HIDE DEF r, c, d
<1>9. End(c) <= End(d) /\ End(r) <= End(d) /\ r.start < End(c)
  <2>1. r.start < End(c)
    BY <1>4, <1>7 DEF r, c, Region
  <2> QED  BY <1>7, <2>1 DEF Longest
<1>10. MergeTypeOK'
  BY <1>1, <1>5, <1>6 DEF MergeInv, MergeTypeOK, Iterate
<1>11. Sorted'
  <2>1. \A m \in state.allocs : End(m) <= d.start
    BY <1>3, <1>6 DEF MergeInv, Sorted, c
  <2>2. \A s \in todo' : d.start <= s.start
    BY <1>3, <1>5, <1>6 DEF MergeInv, Sorted, c
  <2> QED  BY <1>6, <2>1, <2>2 DEF Sorted, d
<1>12. RegionsDisjoint'
  BY <1>6 DEF MergeInv, RegionsDisjoint, Mapped
<1>13. (\A s \in Regions \ todo : Inside(s))'
  <2> SUFFICES ASSUME NEW s \in Regions, s = r \/ s \notin todo
               PROVE  \E m \in Built' : m.start <= s.start /\ End(s) <= End(m)
    BY <1>5 DEF Inside
  <2>1. CASE s = r
    BY <1>4, <1>6, <1>8, <1>9, <2>1
  <2>2. CASE s \notin todo
    <3>1. PICK m \in Built : m.start <= s.start /\ End(s) <= End(m)
      BY <2>2 DEF MergeInv, Inside
    <3>2. CASE m = c
      <4>1. s \in Region /\ End(s) \in Nat
        BY RegionsAreAligned DEF MergeInv, Region, End
      <4>2. d.start <= s.start
        BY <1>6, <3>1, <3>2
      <4>3. End(s) <= End(d)
        BY <1>7, <1>9, <3>1, <3>2, <4>1
      <4> QED  BY <1>8, <4>2, <4>3
    <3> QED  BY <1>8, <3>1, <3>2
  <2> QED  BY <2>1, <2>2
<1>14. (\A m \in Built : \A x \in m.start .. (End(m) - 1) : Touched(x))'
  <2> SUFFICES ASSUME NEW m \in Built', NEW x \in m.start .. (End(m) - 1)
               PROVE  Touched(x)
    BY <1>5 DEF Touched, End
  <2>1. CASE m = d
    <3>1. x \in Int /\ d.start <= x /\ x < End(d)
      BY <1>6, <1>7, <2>1 DEF Region
    <3>2. CASE x < End(c)
      <4>1. x \in c.start .. (End(c) - 1)
        BY <1>1, <1>6, <1>7, <3>1, <3>2 DEF Region
      <4> QED  BY <1>8, <4>1 DEF MergeInv
    <3>3. CASE ~ (x < End(c))
      <4>1. End(d) = End(r)
        BY <1>7, <3>1, <3>3 DEF Longest
      <4>2. r.start <= x /\ x < End(r)
        BY <1>4, <1>7, <1>9, <3>1, <3>3, <4>1 DEF Region
      <4> QED  BY <1>1, <1>2, <4>2 DEF Touched
    <3> QED  BY <3>2, <3>3
  <2>2. CASE m \in state.allocs
    BY <1>8, <2>2 DEF MergeInv
  <2> QED  BY <1>8, <2>1, <2>2
<1>15. (\A m \in Built : Aligned(m.start) /\ Aligned(m.size))'
  <2>1. Aligned(c.start) /\ Aligned(c.size)
    BY <1>8 DEF MergeInv
  <2>2. Aligned(r.start) /\ Aligned(r.size)
    BY <1>1, <1>2, RegionsAreAligned DEF MergeInv
  <2>3. Aligned(End(r))
    <3>1. r.start \in Nat /\ r.size \in Nat
      BY <1>4 DEF Region
    <3> QED  BY <2>2, <3>1, AlignedSum DEF End
  <2>4. Aligned(End(r) - c.start)
    <3>1. c.start \in Nat /\ End(r) \in Nat /\ c.start <= End(r)
      BY <1>1, <1>4, <1>7 DEF Region, End
    <3> QED  BY <2>1, <2>3, <3>1, AlignedDifference
  <2>5. Aligned(d.start) /\ Aligned(d.size)
    BY <1>6, <2>1, <2>4 DEF Longest
  <2> QED  BY <1>8, <2>5 DEF MergeInv, Aligned
<1>16. (done => todo = {} /\ state.current \in state.allocs)'
  BY <1>3
<1>17. (todo \subseteq Regions)'
  BY <1>1, <1>5
<1> QED
  BY <1>10, <1>11, <1>12, <1>13, <1>14, <1>15, <1>16, <1>17 DEF MergeInv

(* The region under construction is finished and the next one begun.       *)
LEMMA NextMergeInv ==
  ASSUME MergeInv, Iterate, ~ (End(state.current) > Least(todo).start)
  PROVE  MergeInv'
<1> DEFINE r == Least(todo)
           c == state.current
<1>1. /\ todo \in SUBSET Region /\ todo # {} /\ todo \subseteq Regions
      /\ c \in Region /\ state.allocs \in SUBSET Region
  BY DEF MergeInv, MergeTypeOK, Iterate
<1>2. r \in todo /\ \A s \in todo : r.start <= s.start
  BY <1>1, LeastRegion
<1>3. ~done /\ ~done'
  BY <1>1 DEF MergeInv, MergeTypeOK, Iterate
<1>4. r \in Region /\ c.start \in Nat /\ r.start \in Nat /\ End(c) \in Nat
  BY <1>1, <1>2 DEF Region, End
<1>5. /\ wanted' = wanted /\ Regions' = Regions
      /\ todo' = todo \ {r}
      /\ state'.current = r /\ state'.allocs = state.allocs \cup {c}
      /\ Built' = Built \cup {r}
      /\ End(c) <= r.start /\ c.start <= End(c)
  <2>1. End(c) <= r.start
    BY <1>4
  <2>2. c.start <= End(c)
    BY <1>1 DEF Region, End
  <2> QED  BY <2>1, <2>2 DEF Iterate, Visit, Regions, Built
<1> HIDE DEF r, c
<1>6. MergeTypeOK'
  <2>1. state' = [current |-> r, allocs |-> state.allocs \cup {c}]
    BY <1>4 DEF Iterate, Visit, r, c
  <2> QED  BY <1>1, <1>4, <1>5, <2>1 DEF MergeInv, MergeTypeOK, Iterate
<1>7. \A m \in state.allocs : End(m) <= c.start /\ End(m) \in Nat
  BY <1>1, <1>3 DEF MergeInv, Sorted, c, Region, End
<1>8. Sorted'
  <2>1. \A m \in state.allocs \cup {c} : End(m) <= r.start
    BY <1>4, <1>5, <1>7
  <2> QED  BY <1>2, <1>5, <2>1 DEF Sorted, End
<1>9. RegionsDisjoint'
  <2>1. \A m, n \in state.allocs :
          m # n => End(m) <= n.start \/ End(n) <= m.start
    BY DEF MergeInv, RegionsDisjoint, Mapped
  <2> QED  BY <1>5, <1>7, <2>1 DEF RegionsDisjoint, Mapped, End
<1>10. (\A s \in Regions \ todo : Inside(s))'
  <2> SUFFICES ASSUME NEW s \in Regions, s = r \/ s \notin todo
               PROVE  \E m \in Built' : m.start <= s.start /\ End(s) <= End(m)
    BY <1>5 DEF Inside
  <2>1. s \in Region /\ s.start \in Nat /\ End(s) \in Nat
    BY RegionsAreAligned DEF MergeInv, Region, End
  <2> QED  BY <1>5, <2>1 DEF MergeInv, Inside
<1>11. (\A m \in Built : \A x \in m.start .. (End(m) - 1) : Touched(x))'
  <2> SUFFICES ASSUME NEW m \in Built', NEW x \in m.start .. (End(m) - 1)
               PROVE  Touched(x)
    BY <1>5 DEF Touched, End
  <2>1. CASE m = r
    <3>1. End(r) \in Nat
      BY <1>4 DEF Region, End
    <3> QED  BY <1>1, <1>2, <1>4, <2>1, <3>1 DEF Touched
  <2> QED  BY <1>5, <2>1 DEF MergeInv
<1>12. (\A m \in Built : Aligned(m.start) /\ Aligned(m.size))'
  <2>1. Aligned(r.start) /\ Aligned(r.size)
    BY <1>1, <1>2, RegionsAreAligned DEF MergeInv
  <2> QED  BY <1>5, <2>1 DEF MergeInv, Aligned
<1>13. (done => todo = {} /\ state.current \in state.allocs)'
  BY <1>3
<1>14. (todo \subseteq Regions)'
  BY <1>1, <1>5
<1> QED
  BY <1>6, <1>8, <1>9, <1>10, <1>11, <1>12, <1>13, <1>14 DEF MergeInv

(* The loop ends and its region joins the others.                          *)
LEMMA ReturnMergeInv ==
  ASSUME MergeInv, Return
  PROVE  MergeInv'
<1> DEFINE c == state.current
<1>1. c \in Region /\ state.allocs \in SUBSET Region
  BY DEF MergeInv, MergeTypeOK
<1>2. state \in [current : Region, allocs : SUBSET Region]
  BY DEF MergeInv, MergeTypeOK
<1>3. /\ wanted' = wanted /\ todo' = todo /\ todo = {} /\ ~done /\ done'
      /\ Regions' = Regions /\ Built' = Built
      /\ state'.current = c /\ state'.allocs = state.allocs \cup {c}
      /\ state' = [current |-> c, allocs |-> state.allocs \cup {c}]
  BY <1>2 DEF Return, Regions, Built
<1> HIDE DEF c
<1>4. MergeTypeOK'
  BY <1>1, <1>3 DEF MergeInv, MergeTypeOK
<1>5. RegionsDisjoint'
  <2>1. \A m, n \in state.allocs :
          m # n => End(m) <= n.start \/ End(n) <= m.start
    BY DEF MergeInv, RegionsDisjoint, Mapped
  <2>2. \A m \in state.allocs : End(m) <= c.start
    BY <1>3 DEF MergeInv, Sorted, c
  <2> QED  BY <1>3, <2>1, <2>2 DEF RegionsDisjoint, Mapped, End
<1>6. Sorted'
  BY <1>3 DEF Sorted
<1>7. (\A s \in Regions \ todo : Inside(s))'
  BY <1>3 DEF MergeInv, Inside, End
<1>8. (\A m \in Built : \A x \in m.start .. (End(m) - 1) : Touched(x))'
  BY <1>3 DEF MergeInv, Touched, End
<1>9. (\A m \in Built : Aligned(m.start) /\ Aligned(m.size))'
  BY <1>3 DEF MergeInv, Aligned
<1>10. (done => todo = {} /\ state.current \in state.allocs)'
  BY <1>3
<1> QED
  BY <1>3, <1>4, <1>5, <1>6, <1>7, <1>8, <1>9, <1>10 DEF MergeInv

LEMMA NextPreservesMergeInv ==
  MergeInv /\ [MergeNext]_mergeVars => MergeInv'
<1> SUFFICES ASSUME MergeInv, [MergeNext]_mergeVars PROVE MergeInv'
  OBVIOUS
<1>1. CASE Iterate
  BY <1>1, GrowMergeInv, NextMergeInv
<1>2. CASE Return
  BY <1>2, ReturnMergeInv
<1>3. CASE UNCHANGED mergeVars
  <2>1. Regions' = Regions /\ Built' = Built
    BY <1>3 DEF mergeVars, Regions, Built
  <2> QED
    BY <1>3, <2>1
    DEF mergeVars, MergeInv, MergeTypeOK, Sorted, RegionsDisjoint, Mapped,
        Inside, Touched, Aligned, End
<1> QED  BY <1>1, <1>2, <1>3 DEF MergeNext

THEOREM MergeInvariant == MergeSpec => []MergeInv
<1>1. MergeInit => MergeInv
  BY BeginMergeInv DEF MergeInit
<1> QED
  BY <1>1, NextPreservesMergeInv, PTL DEF MergeSpec

(* The loop builds regions, and reaches none that it was not given.        *)
THEOREM MergeTypes == MergeSpec => []MergeTypeOK
<1>1. MergeInv => MergeTypeOK
  BY DEF MergeInv
<1> QED
  BY <1>1, MergeInvariant, PTL

-----------------------------------------------------------------------------
(* compute_allocations returns regions no two of which share a byte: each  *)
(* of them can be mapped with MAP_FIXED_NOREPLACE.                         *)
THEOREM DisjointRegions == MergeSpec => []RegionsDisjoint
<1>1. MergeInv => RegionsDisjoint
  BY DEF MergeInv
<1> QED  BY <1>1, MergeInvariant, PTL

(* When compute_allocations returns, each captured allocation lies in one  *)
(* of the regions, for any granularity, addresses and sizes.               *)
THEOREM CoveringRegions == MergeSpec => []RegionsCover
<1>1. MergeInv => RegionsCover
  <2> SUFFICES ASSUME MergeInv, done, NEW w \in wanted
               PROVE  \E m \in Mapped : m.start <= w[1] /\ w[1] + w[2] <= End(m)
    BY DEF RegionsCover
  <2> DEFINE r == get_allocation_address(w[1], w[2])
  <2>1. w[1] \in Nat /\ w[2] \in Nat \ {0}
    BY RegionAssumption DEF MergeInv, MergeTypeOK
  <2>2. /\ r \in Region /\ r.start <= w[1] /\ w[1] + w[2] <= End(r)
    BY <2>1, RegionOf
  <2>3. r \in Regions \ todo
    BY DEF MergeInv, Regions
  <2>4. PICK m \in Built : m.start <= r.start /\ End(r) <= End(m)
    BY <2>3 DEF MergeInv, Inside
  <2>5. m \in Mapped /\ m \in Region
    BY <2>4 DEF MergeInv, MergeTypeOK, Built, Mapped
  <2>6. /\ m.start \in Nat /\ End(m) \in Nat
        /\ r.start \in Nat /\ End(r) \in Nat
    BY <2>2, <2>5 DEF Region, End
  <2> HIDE DEF r
  <2>7. m.start <= w[1] /\ w[1] + w[2] <= End(m)
    BY <2>1, <2>2, <2>4, <2>6
  <2> QED  BY <2>5, <2>7
<1> QED  BY <1>1, MergeInvariant, PTL

(* No page is mapped that no captured allocation touches.                  *)
THEOREM TightRegions == MergeSpec => []RegionsTight
<1>1. MergeInv => RegionsTight
  <2> SUFFICES ASSUME MergeInv, NEW m \in Mapped,
                      NEW x \in m.start .. (End(m) - 1)
               PROVE  \E w \in wanted : /\ RoundDown(w[1]) <= x
                                       /\ x < RoundUp(w[1] + w[2])
    BY DEF RegionsTight
  <2>1. Touched(x)
    BY DEF MergeInv, Built, Mapped
  <2>2. PICK r \in Regions : r.start <= x /\ x < End(r)
    BY <2>1 DEF Touched
  <2>3. PICK w \in wanted : r = get_allocation_address(w[1], w[2])
    BY DEF Regions
  <2>4. w[1] \in Nat /\ w[2] \in Nat \ {0}
    BY RegionAssumption DEF MergeInv, MergeTypeOK
  <2>5. r.start = RoundDown(w[1]) /\ End(r) = RoundUp(w[1] + w[2])
    BY <2>3, <2>4, RegionOf
  <2> QED  BY <2>2, <2>5
<1> QED  BY <1>1, MergeInvariant, PTL

(* Every region is made of whole pages, as host_allocate asserts.          *)
THEOREM AlignedRegions == MergeSpec => []RegionsAligned
<1>1. MergeInv => RegionsAligned
  BY DEF MergeInv, RegionsAligned, Mapped, Built, Aligned
<1> QED  BY <1>1, MergeInvariant, PTL
=============================================================================
