---------------------------- MODULE RangesProofs ----------------------------
(* What the run list's operators do, for an image and sectors of any size. *)
EXTENDS Ranges, FiniteSetTheorems, WellFoundedInduction, TLAPS

----------------------------------------------------------------------------
(* Numbers. *)

Lower == {ab \in Nat \X Nat : ab[1] < ab[2]}

LEMMA LeastOf ==
    ASSUME NEW T \in SUBSET Nat, T # {}
    PROVE  \E x \in T : \A y \in T : x <= y
<1>1. IsWellFoundedOn(Lower, Nat)
  <2>1. OpToRel(<, Nat) = Lower
    BY DEF OpToRel, Lower
  <2> QED BY <2>1, NatLessThanWellFounded
<1>2. \E x \in T : \A y \in T : <<y, x>> \notin Lower
  BY <1>1, WFMin
<1>3. \A x, y \in Nat : <<y, x>> \in Lower <=> y < x
  BY DEF Lower
<1>4. \A x, y \in Nat : ~(y < x) <=> x <= y
  OBVIOUS
<1> QED BY <1>2, <1>3, <1>4

LEMMA GreatestOf ==
    ASSUME NEW S \in SUBSET Nat, S # {}, NEW N \in Nat, \A n \in S : n <= N
    PROVE  \E n \in S : \A k \in S : k <= n
<1> DEFINE T == {N - n : n \in S}
<1>1. T \in SUBSET Nat /\ T # {}
  <2>1. \A n \in S : N - n \in Nat
    OBVIOUS
  <2>2. PICK n \in S : TRUE
    OBVIOUS
  <2>3. N - n \in T
    BY <2>2
  <2> QED BY <2>1, <2>3
<1>2. PICK t \in T : \A k \in T : t <= k
  <2> HIDE DEF T
  <2> QED BY <1>1, LeastOf
<1>3. PICK n \in S : t = N - n
  BY <1>2
<1>4. \A k \in S : k <= n
  <2>1. SUFFICES ASSUME NEW k \in S PROVE k <= n
    OBVIOUS
  <2>2. N - n <= N - k
    BY <1>2, <1>3
  <2>3. n \in Nat /\ k \in Nat
    OBVIOUS
  <2> QED BY <2>2, <2>3
<1> QED BY <1>4

\* Sectors of any size: their edges, and the one a unit is in.
LEMMA Times ==
    ASSUME NEW a \in Nat, NEW b \in Nat, a < b
    PROVE  a * Sector \in Nat /\ b * Sector \in Nat /\ a * Sector + Sector <= b * Sector
BY SectorAssumption

LEMMA SectorOf ==
    ASSUME NEW u \in Nat
    PROVE  /\ u \div Sector \in Nat
           /\ (u \div Sector) * Sector <= u
           /\ u < (u \div Sector) * Sector + Sector
BY SectorAssumption

Parts(S, A, B) == S = A \cup B /\ A \cap B = {}

LEMMA Cut ==
    ASSUME NEW S, IsFiniteSet(S), NEW A, NEW B, Parts(S, A, B)
    PROVE  /\ IsFiniteSet(A) /\ IsFiniteSet(B)
           /\ Cardinality(A) \in Nat /\ Cardinality(B) \in Nat
           /\ Cardinality(S) = Cardinality(A) + Cardinality(B)
<1>1. IsFiniteSet(A) /\ IsFiniteSet(B)
  BY FS_Subset DEF Parts
<1>2. Cardinality(A) \in Nat /\ Cardinality(B) \in Nat
  BY <1>1, FS_CardinalityType
<1>3. Cardinality(A \cap B) = 0
  BY FS_EmptySet DEF Parts
<1>4. Cardinality(S) = Cardinality(A) + Cardinality(B) - 0
  BY <1>1, <1>3, FS_Union DEF Parts
<1> QED BY <1>1, <1>2, <1>4

----------------------------------------------------------------------------
(* The longest ranges of a set of units. *)

LEMMA RangeParts ==
    ASSUME NEW r, r.pos \in Nat, r.size \in Nat
    PROVE  /\ End(r) \in Nat /\ End(r) = r.pos + r.size
           /\ \A u : u \in UnitsIn(r) <=> u \in Nat /\ r.pos <= u /\ u < End(r)
           /\ r.size > 0 => r.pos \in UnitsIn(r) /\ End(r) - 1 \in UnitsIn(r)
BY DEF End, UnitsIn

\* A longest range of S, which has no unit of S beside it.
Longest(r, S) ==
    r \in Ranges1 /\ UnitsIn(r) \subseteq S /\ r.pos - 1 \notin S /\ End(r) \notin S

LEMMA RangesOfLongest ==
    ASSUME NEW S \in SUBSET Nat, NEW r
    PROVE  r \in RangesOf(S) <=> Longest(r, S)
<1> DEFINE firsts == {u \in S : u - 1 \notin S}
           lasts == {u \in S : u + 1 \notin S}
           whole == {p \in firsts \X lasts : p[1] <= p[2] /\ p[1]..p[2] \subseteq S}
<1>1. RangesOf(S) = {Range1(p[1], p[2] + 1 - p[1]) : p \in whole}
  BY DEF RangesOf
<1>2. ASSUME r \in RangesOf(S) PROVE Longest(r, S)
  <2>1. PICK p \in whole : r = Range1(p[1], p[2] + 1 - p[1])
    BY <1>1, <1>2
  <2>2. /\ p[1] \in Nat /\ p[2] \in Nat /\ p[1] <= p[2] /\ p[1]..p[2] \subseteq S
        /\ p[1] - 1 \notin S /\ p[2] + 1 \notin S
    BY <2>1
  <2>3. r \in Ranges1 /\ r.pos = p[1] /\ r.size = p[2] + 1 - p[1]
    BY <2>1, <2>2 DEF Range1, Ranges1
  <2>4. End(r) = p[2] + 1 /\ UnitsIn(r) = p[1]..p[2]
    BY <2>2, <2>3 DEF End, UnitsIn
  <2> QED BY <2>2, <2>3, <2>4 DEF Longest
<1>3. ASSUME Longest(r, S) PROVE r \in RangesOf(S)
  <2>1. /\ r.pos \in Nat /\ r.size \in Nat \ {0} /\ r = [pos |-> r.pos, size |-> r.size]
        /\ UnitsIn(r) \subseteq S /\ r.pos - 1 \notin S /\ End(r) \notin S
    BY <1>3 DEF Longest, Ranges1
  <2> DEFINE z == r.pos + r.size - 1
  <2>2. z \in Nat /\ z + 1 = End(r) /\ r.pos <= z /\ UnitsIn(r) = r.pos..z /\ z + 1 - r.pos = r.size
    BY <2>1 DEF End, UnitsIn
  <2> HIDE DEF z
  <2>3. r.pos \in firsts /\ z \in lasts
    BY <2>1, <2>2
  <2>4. <<r.pos, z>> \in whole
    BY <2>1, <2>2, <2>3
  <2>5. r = Range1(<<r.pos, z>>[1], <<r.pos, z>>[2] + 1 - <<r.pos, z>>[1])
    BY <2>1, <2>2 DEF Range1
  <2> QED BY <1>1, <2>4, <2>5
<1> QED BY <1>2, <1>3

LEMMA LongestApart ==
    ASSUME NEW S \in SUBSET Nat, NEW r, NEW q, Longest(r, S), Longest(q, S),
           NEW u, u \in UnitsIn(r), u \in UnitsIn(q)
    PROVE  r = q
<1>1. /\ r.pos \in Nat /\ r.size \in Nat \ {0} /\ r = [pos |-> r.pos, size |-> r.size]
      /\ q.pos \in Nat /\ q.size \in Nat \ {0} /\ q = [pos |-> q.pos, size |-> q.size]
  BY DEF Longest, Ranges1
<1>2. /\ u \in Nat /\ r.pos <= u /\ u < r.pos + r.size /\ q.pos <= u /\ u < q.pos + q.size
      /\ \A v : v \in UnitsIn(r) <=> v \in Nat /\ r.pos <= v /\ v < r.pos + r.size
      /\ \A v : v \in UnitsIn(q) <=> v \in Nat /\ q.pos <= v /\ v < q.pos + q.size
  BY <1>1, RangeParts
<1>3. /\ UnitsIn(r) \subseteq S /\ r.pos - 1 \notin S /\ r.pos + r.size \notin S
      /\ UnitsIn(q) \subseteq S /\ q.pos - 1 \notin S /\ q.pos + q.size \notin S
  BY DEF Longest, End
<1>4. ~(r.pos < q.pos)
  <2>1. SUFFICES ASSUME r.pos < q.pos PROVE FALSE
    OBVIOUS
  <2>2. q.pos - 1 \in Nat /\ r.pos <= q.pos - 1 /\ q.pos - 1 < r.pos + r.size
    BY <1>1, <1>2, <2>1
  <2> QED BY <1>2, <1>3, <2>2
<1>5. ~(q.pos < r.pos)
  <2>1. SUFFICES ASSUME q.pos < r.pos PROVE FALSE
    OBVIOUS
  <2>2. r.pos - 1 \in Nat /\ q.pos <= r.pos - 1 /\ r.pos - 1 < q.pos + q.size
    BY <1>1, <1>2, <2>1
  <2> QED BY <1>2, <1>3, <2>2
<1>6. r.pos = q.pos
  BY <1>1, <1>4, <1>5
<1>7. ~(r.size < q.size)
  <2>1. SUFFICES ASSUME r.size < q.size PROVE FALSE
    OBVIOUS
  <2>2. r.pos + r.size \in Nat /\ q.pos <= r.pos + r.size /\ r.pos + r.size < q.pos + q.size
    BY <1>1, <1>6, <2>1
  <2> QED BY <1>2, <1>3, <2>2
<1>8. ~(q.size < r.size)
  <2>1. SUFFICES ASSUME q.size < r.size PROVE FALSE
    OBVIOUS
  <2>2. q.pos + q.size \in Nat /\ r.pos <= q.pos + q.size /\ q.pos + q.size < r.pos + r.size
    BY <1>1, <1>6, <2>1
  <2> QED BY <1>2, <1>3, <2>2
<1>9. r.size = q.size
  BY <1>1, <1>7, <1>8
<1> QED BY <1>1, <1>6, <1>9

LEMMA LongestHas ==
    ASSUME NEW S \in SUBSET Nat, NEW N \in Nat, \A n \in S : n <= N, NEW u \in S
    PROVE  \E r : Longest(r, S) /\ u \in UnitsIn(r)
<1> DEFINE Starts == {a \in S : a <= u /\ a..u \subseteq S}
           Stops == {z \in S : u <= z /\ u..z \subseteq S}
<1>1. Starts \in SUBSET Nat /\ u \in Starts /\ Stops \in SUBSET Nat /\ u \in Stops
  <2>1. u \in Nat /\ u <= u /\ u..u \subseteq S
    OBVIOUS
  <2> QED BY <2>1
<1>2. PICK a \in Starts : \A x \in Starts : a <= x
  <2> HIDE DEF Starts
  <2> QED BY <1>1, LeastOf
<1>3. PICK z \in Stops : \A x \in Stops : x <= z
  <2>1. \A x \in Stops : x <= N
    OBVIOUS
  <2> HIDE DEF Stops
  <2> QED BY <1>1, <2>1, GreatestOf
<1>4. /\ u \in Nat /\ a \in Nat /\ z \in Nat /\ a <= u /\ u <= z
      /\ a..u \subseteq S /\ u..z \subseteq S
  BY <1>2, <1>3
<1>5. a - 1 \notin S
  <2>1. SUFFICES ASSUME a - 1 \in S PROVE FALSE
    OBVIOUS
  <2>2. a - 1 \in Nat /\ a - 1 <= u /\ (a - 1)..u = {a - 1} \cup (a..u)
    BY <1>4, <2>1
  <2>3. a - 1 \in Starts
    BY <1>4, <2>1, <2>2
  <2> QED BY <1>2, <1>4, <2>3
<1>6. z + 1 \notin S
  <2>1. SUFFICES ASSUME z + 1 \in S PROVE FALSE
    OBVIOUS
  <2>2. u <= z + 1 /\ u..(z + 1) = {z + 1} \cup (u..z)
    BY <1>4
  <2>3. z + 1 \in Stops
    BY <1>4, <2>1, <2>2
  <2> QED BY <1>3, <1>4, <2>3
<1> DEFINE r == Range1(a, z + 1 - a)
<1>7. r \in Ranges1 /\ r.pos = a /\ r.size = z + 1 - a
  BY <1>4 DEF Range1, Ranges1
<1> HIDE DEF r
<1>8. End(r) = z + 1 /\ UnitsIn(r) = a..z
  BY <1>4, <1>7 DEF End, UnitsIn
<1>9. u \in a..z /\ a..z \subseteq S
  BY <1>4
<1> QED BY <1>5, <1>6, <1>7, <1>8, <1>9 DEF Longest

\* The longest ranges of a finite set of units cover it and share no unit.
LEMMA RangesOfFacts ==
    ASSUME NEW S \in SUBSET Nat, NEW N \in Nat, \A n \in S : n <= N
    PROVE  /\ RangesOf(S) \subseteq Ranges1
           /\ Covered(RangesOf(S)) = S
           /\ \A r, q \in RangesOf(S), u \in S : u \in UnitsIn(r) /\ u \in UnitsIn(q) => r = q
           /\ \A r \in RangesOf(S) : r.pos - 1 \notin S /\ End(r) \notin S /\ UnitsIn(r) \subseteq S
<1>1. \A r : r \in RangesOf(S) <=> Longest(r, S)
  BY RangesOfLongest
<1>2. \A r \in RangesOf(S) : /\ r \in Ranges1 /\ UnitsIn(r) \subseteq S
                             /\ r.pos - 1 \notin S /\ End(r) \notin S
  BY <1>1 DEF Longest
<1>3. \A u \in S : \E r \in RangesOf(S) : u \in UnitsIn(r)
  BY <1>1, LongestHas
<1>4. Covered(RangesOf(S)) = S
  BY <1>2, <1>3 DEF Covered
<1>5. \A r, q \in RangesOf(S), u \in S : u \in UnitsIn(r) /\ u \in UnitsIn(q) => r = q
  BY <1>1, LongestApart
<1> QED BY <1>2, <1>4, <1>5

----------------------------------------------------------------------------
(* Run lists. *)

\* The list gives the unit this status.
Says(m, u, s) == \E r \in m : u \in UnitsIn(r) /\ r.status = s

\* Runs that share no unit.
Apart(m) ==
    /\ m \subseteq Runs
    /\ \A r, q \in m, u \in Nat : u \in UnitsIn(r) /\ u \in UnitsIn(q) => r = q
\* No run could be longer.
Grown(m) == \A r, q \in m : End(r) = q.pos => r.status # q.status
\* The run list of an image.
Exact(m) == Apart(m) /\ Grown(m) /\ Covered(m) = Units

LEMMA RunUnits ==
    ASSUME NEW r \in Runs
    PROVE  /\ r.pos \in Nat /\ r.size \in Nat \ {0} /\ r.status \in Statuses
           /\ End(r) \in Nat /\ End(r) = r.pos + r.size /\ r.pos < End(r)
           /\ UnitsIn(r) \subseteq Nat
           /\ \A u : u \in UnitsIn(r) <=> u \in Nat /\ r.pos <= u /\ u < End(r)
           /\ r.pos \in UnitsIn(r) /\ End(r) - 1 \in UnitsIn(r)
BY RangeParts DEF Runs

LEMMA SameRun ==
    ASSUME NEW r \in Runs, NEW q \in Runs, r.status = q.status,
           \A u : u \in UnitsIn(r) <=> u \in UnitsIn(q)
    PROVE  r = q
<1>1. /\ r.pos \in Nat /\ r.size \in Nat \ {0} /\ End(r) = r.pos + r.size
      /\ r.pos \in UnitsIn(r) /\ End(r) - 1 \in UnitsIn(r)
      /\ \A u : u \in UnitsIn(r) <=> u \in Nat /\ r.pos <= u /\ u < End(r)
  BY RunUnits
<1>2. /\ q.pos \in Nat /\ q.size \in Nat \ {0} /\ End(q) = q.pos + q.size
      /\ q.pos \in UnitsIn(q) /\ End(q) - 1 \in UnitsIn(q)
      /\ \A u : u \in UnitsIn(q) <=> u \in Nat /\ q.pos <= u /\ u < End(q)
  BY RunUnits
<1>3. q.pos <= r.pos /\ r.pos <= q.pos /\ End(r) - 1 < End(q) /\ End(q) - 1 < End(r)
  BY <1>1, <1>2
<1>4. r.pos = q.pos /\ r.size = q.size
  BY <1>1, <1>2, <1>3
<1> QED BY <1>4 DEF Runs

LEMMA CoveredSays ==
    ASSUME NEW m, m \subseteq Runs, NEW u
    PROVE  /\ u \in Covered(m) <=> \E r \in m : u \in UnitsIn(r)
           /\ u \in Covered(m) <=> \E s \in Statuses : Says(m, u, s)
           /\ u \in Covered(m) => u \in Nat
           /\ \A S : u \in Held(m, S) <=> \E s \in S : Says(m, u, s)
<1>1. \A r \in m : r.status \in Statuses /\ UnitsIn(r) \subseteq Nat
  BY RunUnits
<1> QED BY <1>1 DEF Covered, Says, Held, With

LEMMA SaysOne ==
    ASSUME NEW m, Apart(m), NEW u \in Nat, NEW s, NEW t, Says(m, u, s), Says(m, u, t)
    PROVE  s = t
BY DEF Says, Apart

LEMMA InCoalesced ==
    ASSUME NEW m, m \subseteq Runs, NEW r \in Coalesced(m)
    PROVE  /\ r.status \in Statuses
           /\ \E x \in RangesOf(Held(m, {r.status})) : r = Run(x.pos, x.size, r.status)
<1>1. PICK s \in Statuses : r \in {Run(x.pos, x.size, s) : x \in RangesOf(Held(m, {s}))}
  BY DEF Coalesced
<1>2. PICK x \in RangesOf(Held(m, {s})) : r = Run(x.pos, x.size, s)
  BY <1>1
<1>3. r.status = s
  BY <1>2 DEF Run
<1> QED BY <1>2, <1>3

LEMMA CoalescedFacts ==
    ASSUME NEW m, Apart(m), NEW N \in Nat, \A u \in Covered(m) : u <= N
    PROVE  /\ Apart(Coalesced(m)) /\ Grown(Coalesced(m))
           /\ Covered(Coalesced(m)) = Covered(m)
           /\ \A u, s : Says(Coalesced(m), u, s) <=> Says(m, u, s)
<1> DEFINE c == Coalesced(m)
           H(s) == Held(m, {s})
<1>1. m \subseteq Runs
  BY DEF Apart
<1>2. \A u, s : u \in H(s) <=> Says(m, u, s)
  <2> SUFFICES ASSUME NEW u, NEW s PROVE u \in H(s) <=> Says(m, u, s)
    OBVIOUS
  <2>1. \A S : u \in Held(m, S) <=> \E t \in S : Says(m, u, t)
    BY <1>1, CoveredSays
  <2>2. u \in Held(m, {s}) <=> \E t \in {s} : Says(m, u, t)
    BY <2>1
  <2> QED BY <2>2
<1>3. \A s \in Statuses : H(s) \in SUBSET Nat /\ \A u \in H(s) : u <= N
  BY <1>1, <1>2, CoveredSays
<1>4. \A s \in Statuses : \A x \in RangesOf(H(s)) :
         /\ x.pos \in Nat /\ x.size \in Nat \ {0}
         /\ x.pos - 1 \notin H(s) /\ End(x) \notin H(s) /\ UnitsIn(x) \subseteq H(s)
  <2> SUFFICES ASSUME NEW s \in Statuses, NEW x \in RangesOf(H(s))
               PROVE  /\ x.pos \in Nat /\ x.size \in Nat \ {0}
                      /\ x.pos - 1 \notin H(s) /\ End(x) \notin H(s) /\ UnitsIn(x) \subseteq H(s)
    OBVIOUS
  <2>1. H(s) \in SUBSET Nat /\ \A u \in H(s) : u <= N
    BY <1>3
  <2> HIDE DEF H
  <2>2. x \in Ranges1 /\ x.pos - 1 \notin H(s) /\ End(x) \notin H(s) /\ UnitsIn(x) \subseteq H(s)
    BY <2>1, RangesOfFacts
  <2> QED BY <2>2 DEF Ranges1
<1>5. \A r \in c : \E x \in RangesOf(H(r.status)) : r = Run(x.pos, x.size, r.status)
  BY <1>1, InCoalesced
<1>6. \A r \in c :
         /\ r \in Runs /\ r.status \in Statuses
         /\ r.pos - 1 \notin H(r.status) /\ End(r) \notin H(r.status)
         /\ UnitsIn(r) \subseteq H(r.status)
         /\ Range1(r.pos, r.size) \in RangesOf(H(r.status))
         /\ UnitsIn(Range1(r.pos, r.size)) = UnitsIn(r)
  <2> SUFFICES ASSUME NEW r \in c
               PROVE  /\ r \in Runs /\ r.status \in Statuses
                      /\ r.pos - 1 \notin H(r.status) /\ End(r) \notin H(r.status)
                      /\ UnitsIn(r) \subseteq H(r.status)
                      /\ Range1(r.pos, r.size) \in RangesOf(H(r.status))
                      /\ UnitsIn(Range1(r.pos, r.size)) = UnitsIn(r)
    OBVIOUS
  <2> HIDE DEF H
  <2>1. r.status \in Statuses
    BY <1>1, InCoalesced
  <2>2. PICK x \in RangesOf(H(r.status)) : r = Run(x.pos, x.size, r.status)
    BY <1>5
  <2>3. /\ x.pos \in Nat /\ x.size \in Nat \ {0}
        /\ x.pos - 1 \notin H(r.status) /\ End(x) \notin H(r.status)
        /\ UnitsIn(x) \subseteq H(r.status)
    BY <1>4, <2>1
  <2>4. r.pos = x.pos /\ r.size = x.size /\ r \in Runs
    BY <2>1, <2>2, <2>3 DEF Run, Runs
  <2>5. H(r.status) \in SUBSET Nat
    BY <1>3, <2>1
  <2>6. x \in Ranges1
    BY <1>3, <2>1, RangesOfFacts
  <2>7. x = Range1(r.pos, r.size)
    BY <2>4, <2>6 DEF Ranges1, Range1
  <2>8. UnitsIn(r) = UnitsIn(x) /\ End(r) = End(x)
    BY <2>4 DEF UnitsIn, End
  <2> QED BY <2>1, <2>2, <2>3, <2>4, <2>7, <2>8
<1>7. \A s \in Statuses : \A u \in H(s) : \E r \in c : u \in UnitsIn(r) /\ r.status = s
  <2> SUFFICES ASSUME NEW s \in Statuses, NEW u \in H(s)
               PROVE  \E r \in c : u \in UnitsIn(r) /\ r.status = s
    OBVIOUS
  <2>1. H(s) \in SUBSET Nat /\ \A v \in H(s) : v <= N
    BY <1>3
  <2>2. PICK x \in RangesOf(H(s)) : u \in UnitsIn(x)
    <3> HIDE DEF H
    <3>1. u \in Covered(RangesOf(H(s)))
      BY <2>1, RangesOfFacts
    <3> QED BY <3>1 DEF Covered
  <2>3. Run(x.pos, x.size, s) \in c
    <3>1. Run(x.pos, x.size, s) \in {Run(y.pos, y.size, s) : y \in RangesOf(Held(m, {s}))}
      BY <2>2
    <3> QED BY <3>1 DEF Coalesced
  <2>4. /\ Run(x.pos, x.size, s).status = s
        /\ UnitsIn(Run(x.pos, x.size, s)) = UnitsIn(x)
    BY DEF Run, UnitsIn, End
  <2> QED BY <2>2, <2>3, <2>4
<1>8. \A u, s : Says(c, u, s) <=> Says(m, u, s)
  <2> SUFFICES ASSUME NEW u, NEW s PROVE Says(c, u, s) <=> Says(m, u, s)
    OBVIOUS
  <2>1. ASSUME Says(c, u, s) PROVE Says(m, u, s)
    <3>1. PICK r \in c : u \in UnitsIn(r) /\ r.status = s
      BY <2>1 DEF Says
    <3>2. u \in H(s)
      <4> HIDE DEF H, c
      <4> QED BY <1>6, <3>1
    <3> QED BY <1>2, <3>2
  <2>2. ASSUME Says(m, u, s) PROVE Says(c, u, s)
    <3>1. s \in Statuses /\ u \in H(s)
      <4>1. s \in Statuses
        BY <1>1, <2>2, RunUnits DEF Says
      <4> QED BY <1>2, <2>2, <4>1
    <3> HIDE DEF H, c
    <3> QED BY <1>7, <3>1 DEF Says
  <2> QED BY <2>1, <2>2
<1>9. \A r, q \in c, u \in Nat : u \in UnitsIn(r) /\ u \in UnitsIn(q) => r = q
  <2> SUFFICES ASSUME NEW r \in c, NEW q \in c, NEW u \in Nat, u \in UnitsIn(r), u \in UnitsIn(q)
               PROVE  r = q
    OBVIOUS
  <2> HIDE DEF H, c
  <2>1. u \in H(r.status) /\ u \in H(q.status)
    BY <1>6
  <2>2. r.status = q.status
    BY <1>2, <2>1, SaysOne
  <2>3. Range1(r.pos, r.size) = Range1(q.pos, q.size)
    <3>1. /\ Range1(r.pos, r.size) \in RangesOf(H(r.status))
          /\ Range1(q.pos, q.size) \in RangesOf(H(r.status))
          /\ u \in UnitsIn(Range1(r.pos, r.size)) /\ u \in UnitsIn(Range1(q.pos, q.size))
      BY <1>6, <2>2
    <3>2. H(r.status) \in SUBSET Nat /\ \A v \in H(r.status) : v <= N
      BY <1>3, <1>6
    <3> DEFINE T == H(r.status)
    <3>3. \A x, y \in RangesOf(T), v \in T : v \in UnitsIn(x) /\ v \in UnitsIn(y) => x = y
      BY <3>2, RangesOfFacts
    <3> QED BY <2>1, <3>1, <3>3
  <2>4. r.pos = q.pos /\ r.size = q.size
    BY <2>3 DEF Range1
  <2>5. r \in Runs /\ q \in Runs
    BY <1>6
  <2> QED BY <2>2, <2>4, <2>5 DEF Runs
<1>10. Grown(c)
  <2> SUFFICES ASSUME NEW r \in c, NEW q \in c, End(r) = q.pos, r.status = q.status PROVE FALSE
    BY DEF Grown
  <2> HIDE DEF H, c
  <2>1. q.pos \in UnitsIn(q)
    BY <1>6, RunUnits
  <2> QED BY <1>6, <2>1
<1>11. c \subseteq Runs
  BY <1>6
<1>12. Covered(c) = Covered(m)
  <2> HIDE DEF H, c
  <2>1. \A u : u \in Covered(c) <=> u \in Covered(m)
    BY <1>1, <1>8, <1>11, CoveredSays
  <2> QED BY <2>1
<1> QED BY <1>8, <1>9, <1>10, <1>11, <1>12 DEF Apart

----------------------------------------------------------------------------
(* Recording a range. *)

LEMMA InBefore ==
    ASSUME NEW w, w \subseteq Runs, NEW a \in Nat
    PROVE  /\ \A x \in Before(w, a) : \E r \in w :
                 /\ x \in Runs /\ x.status = r.status
                 /\ \A u : u \in UnitsIn(x) <=> u \in UnitsIn(r) /\ u < a
           /\ \A r \in w : r.pos < a => \E x \in Before(w, a) :
                 /\ x.status = r.status
                 /\ \A u : u \in UnitsIn(x) <=> u \in UnitsIn(r) /\ u < a
<1> DEFINE f(r) == Run(r.pos, Least(End(r), a) - r.pos, r.status)
<1>1. \A r \in w : r.pos < a =>
         /\ f(r) \in Runs /\ f(r).status = r.status
         /\ \A u : u \in UnitsIn(f(r)) <=> u \in UnitsIn(r) /\ u < a
  <2> SUFFICES ASSUME NEW r \in w, r.pos < a
               PROVE  /\ f(r) \in Runs /\ f(r).status = r.status
                      /\ \A u : u \in UnitsIn(f(r)) <=> u \in UnitsIn(r) /\ u < a
    OBVIOUS
  <2>1. /\ r.pos \in Nat /\ r.size \in Nat \ {0} /\ r.status \in Statuses
        /\ End(r) \in Nat /\ r.pos < End(r)
        /\ \A u : u \in UnitsIn(r) <=> u \in Nat /\ r.pos <= u /\ u < End(r)
    BY RunUnits
  <2>2. /\ Least(End(r), a) \in Nat /\ r.pos < Least(End(r), a)
        /\ \A u \in Nat : u < Least(End(r), a) <=> u < End(r) /\ u < a
    BY <2>1 DEF Least
  <2> DEFINE e == Least(End(r), a)
  <2> HIDE DEF e
  <2>3. e - r.pos \in Nat \ {0} /\ r.pos + (e - r.pos) = e
    BY <2>1, <2>2 DEF e
  <2>4. f(r) = [pos |-> r.pos, size |-> e - r.pos, status |-> r.status]
    BY DEF Run, e
  <2> HIDE DEF f
  <2>5. f(r) \in Runs /\ f(r).status = r.status /\ f(r).pos = r.pos /\ End(f(r)) = e
    BY <2>1, <2>3, <2>4 DEF Runs, End
  <2>6. \A u : u \in UnitsIn(f(r)) <=> u \in Nat /\ r.pos <= u /\ u < e
    BY <2>5, RunUnits
  <2>7. \A u \in Nat : u < e <=> u < End(r) /\ u < a
    BY <2>2 DEF e
  <2> QED BY <2>1, <2>5, <2>6, <2>7
<1>2. Before(w, a) = {f(r) : r \in {q \in w : q.pos < a}}
  BY DEF Before
<1> HIDE DEF f
<1> QED BY <1>1, <1>2

LEMMA InAfter ==
    ASSUME NEW w, w \subseteq Runs, NEW b \in Nat
    PROVE  /\ \A x \in After(w, b) : \E r \in w :
                 /\ x \in Runs /\ x.status = r.status
                 /\ \A u : u \in UnitsIn(x) <=> u \in UnitsIn(r) /\ b <= u
           /\ \A r \in w : b < End(r) => \E x \in After(w, b) :
                 /\ x.status = r.status
                 /\ \A u : u \in UnitsIn(x) <=> u \in UnitsIn(r) /\ b <= u
<1> DEFINE f(r) == Run(Greatest(r.pos, b), End(r) - Greatest(r.pos, b), r.status)
<1>1. \A r \in w : b < End(r) =>
         /\ f(r) \in Runs /\ f(r).status = r.status
         /\ \A u : u \in UnitsIn(f(r)) <=> u \in UnitsIn(r) /\ b <= u
  <2> SUFFICES ASSUME NEW r \in w, b < End(r)
               PROVE  /\ f(r) \in Runs /\ f(r).status = r.status
                      /\ \A u : u \in UnitsIn(f(r)) <=> u \in UnitsIn(r) /\ b <= u
    OBVIOUS
  <2>1. /\ r.pos \in Nat /\ r.size \in Nat \ {0} /\ r.status \in Statuses
        /\ End(r) \in Nat /\ r.pos < End(r)
        /\ \A u : u \in UnitsIn(r) <=> u \in Nat /\ r.pos <= u /\ u < End(r)
    BY RunUnits
  <2>2. /\ Greatest(r.pos, b) \in Nat /\ Greatest(r.pos, b) < End(r)
        /\ \A u \in Nat : Greatest(r.pos, b) <= u <=> r.pos <= u /\ b <= u
    BY <2>1 DEF Greatest
  <2> DEFINE e == Greatest(r.pos, b)
  <2> HIDE DEF e
  <2>3. e \in Nat /\ End(r) - e \in Nat \ {0} /\ e + (End(r) - e) = End(r)
    BY <2>1, <2>2 DEF e
  <2>4. f(r) = [pos |-> e, size |-> End(r) - e, status |-> r.status]
    BY DEF Run, e
  <2> HIDE DEF f
  <2>5. f(r) \in Runs /\ f(r).status = r.status /\ f(r).pos = e /\ End(f(r)) = End(r)
    <3>1. f(r).pos = e /\ f(r).size = End(r) - e /\ f(r).status = r.status
      BY <2>4
    <3>2. End(f(r)) = e + (End(r) - e)
      BY <3>1 DEF End
    <3> QED BY <2>1, <2>3, <2>4, <3>1, <3>2 DEF Runs
  <2>6. \A u : u \in UnitsIn(f(r)) <=> u \in Nat /\ e <= u /\ u < End(r)
    BY <2>5, RunUnits
  <2>7. \A u \in Nat : e <= u <=> r.pos <= u /\ b <= u
    BY <2>2 DEF e
  <2> QED BY <2>1, <2>5, <2>6, <2>7
<1>2. After(w, b) = {f(r) : r \in {q \in w : b < End(q)}}
  BY DEF After
<1> HIDE DEF f
<1> QED BY <1>1, <1>2

\* The pieces are what the runs said, but for the range that is recorded.
LEMMA PiecesFacts ==
    ASSUME NEW w, Apart(w), NEW a \in Nat, NEW b \in Nat, a < b, NEW s \in Statuses
    PROVE  /\ Apart(Pieces(w, a, b, s))
           /\ \A u \in Nat : \A t : Says(Pieces(w, a, b, s), u, t) <=>
                 IF a <= u /\ u < b THEN t = s ELSE Says(w, u, t)
<1> DEFINE p == Pieces(w, a, b, s)
           new == Run(a, b - a, s)
<1>1. w \subseteq Runs
  BY DEF Apart
<1>2. /\ new \in Runs /\ new.status = s /\ \A u : u \in UnitsIn(new) <=> u \in Nat /\ a <= u /\ u < b
  <2>1. new.pos = a /\ new.size = b - a /\ new.status = s /\ b - a \in Nat \ {0} /\ a + (b - a) = b
    BY DEF Run
  <2>2. new \in Runs
    BY <2>1 DEF Run, Runs
  <2>3. End(new) = b
    BY <2>1 DEF End
  <2> HIDE DEF new
  <2> QED BY <2>1, <2>2, <2>3, RunUnits
<1>3. \A x \in p : \/ x = new
                   \/ \E r \in w : /\ x \in Before(w, a) /\ x \in Runs /\ x.status = r.status
                                   /\ \A u : u \in UnitsIn(x) <=> u \in UnitsIn(r) /\ u < a
                   \/ \E r \in w : /\ x \in After(w, b) /\ x \in Runs /\ x.status = r.status
                                   /\ \A u : u \in UnitsIn(x) <=> u \in UnitsIn(r) /\ b <= u
  <2> SUFFICES ASSUME NEW x \in p, x # new
               PROVE  \/ \E r \in w : /\ x \in Before(w, a) /\ x \in Runs /\ x.status = r.status
                                      /\ \A u : u \in UnitsIn(x) <=> u \in UnitsIn(r) /\ u < a
                      \/ \E r \in w : /\ x \in After(w, b) /\ x \in Runs /\ x.status = r.status
                                      /\ \A u : u \in UnitsIn(x) <=> u \in UnitsIn(r) /\ b <= u
    OBVIOUS
  <2>1. x \in Before(w, a) \/ x \in After(w, b)
    BY DEF Pieces
  <2> HIDE DEF p, new
  <2>2. CASE x \in Before(w, a)
    BY <1>1, <2>2, InBefore
  <2>3. CASE x \in After(w, b)
    BY <1>1, <2>3, InAfter
  <2> QED BY <2>1, <2>2, <2>3
<1>4. p \subseteq Runs
  <2> HIDE DEF p, new
  <2> QED BY <1>2, <1>3
<1>5. new \in p /\ Before(w, a) \subseteq p /\ After(w, b) \subseteq p
  BY DEF Pieces
<1>6. \A u \in Nat : \A t : Says(p, u, t) => IF a <= u /\ u < b THEN t = s ELSE Says(w, u, t)
  <2> SUFFICES ASSUME NEW u \in Nat, NEW x \in p, u \in UnitsIn(x)
               PROVE  IF a <= u /\ u < b THEN x.status = s ELSE Says(w, u, x.status)
    BY DEF Says
  <2> HIDE DEF p, new
  <2>1. CASE x = new
    BY <1>2, <2>1
  <2>2. ASSUME NEW r \in w, x.status = r.status,
               \A v : v \in UnitsIn(x) <=> v \in UnitsIn(r) /\ v < a
        PROVE  ~(a <= u) /\ Says(w, u, x.status)
    <3>1. u \in UnitsIn(r) /\ u < a
      BY <2>2
    <3> QED BY <2>2, <3>1 DEF Says
  <2>3. ASSUME NEW r \in w, x.status = r.status,
               \A v : v \in UnitsIn(x) <=> v \in UnitsIn(r) /\ b <= v
        PROVE  ~(u < b) /\ Says(w, u, x.status)
    <3>1. u \in UnitsIn(r) /\ b <= u
      BY <2>3
    <3> QED BY <2>3, <3>1 DEF Says
  <2> QED BY <1>3, <2>1, <2>2, <2>3
<1>7. ASSUME NEW u \in Nat, NEW t, IF a <= u /\ u < b THEN t = s ELSE Says(w, u, t)
      PROVE  Says(p, u, t)
  <2> HIDE DEF p, new
  <2>1. CASE a <= u /\ u < b
    BY <1>2, <1>5, <1>7, <2>1 DEF Says
  <2>2. CASE ~(a <= u /\ u < b)
    <3>1. PICK r \in w : u \in UnitsIn(r) /\ r.status = t
      BY <1>7, <2>2 DEF Says
    <3>2. r.pos <= u /\ u < End(r) /\ r.pos \in Nat /\ End(r) \in Nat
      BY <1>1, <3>1, RunUnits
    <3>3. CASE u < a
      <4>1. r.pos < a
        BY <3>2, <3>3
      <4>2. \E x \in Before(w, a) : x.status = r.status /\ u \in UnitsIn(x)
        BY <1>1, <3>1, <3>3, <4>1, InBefore
      <4> QED BY <1>5, <3>1, <4>2 DEF Says
    <3>4. CASE b <= u
      <4>1. b < End(r)
        BY <3>2, <3>4
      <4>2. \E x \in After(w, b) : x.status = r.status /\ u \in UnitsIn(x)
        BY <1>1, <3>1, <3>4, <4>1, InAfter
      <4> QED BY <1>5, <3>1, <4>2 DEF Says
    <3>5. u < a \/ b <= u
      BY <2>2
    <3> QED BY <3>3, <3>4, <3>5
  <2> QED BY <2>1, <2>2
<1>8. ASSUME NEW x \in p, NEW y \in p, NEW u \in Nat, u \in UnitsIn(x), u \in UnitsIn(y)
      PROVE  x = y
  <2> HIDE DEF p, new
  <2> DEFINE Left(z) == \E r \in w : /\ z \in Runs /\ z.status = r.status
                                     /\ \A v : v \in UnitsIn(z) <=> v \in UnitsIn(r) /\ v < a
             Right(z) == \E r \in w : /\ z \in Runs /\ z.status = r.status
                                      /\ \A v : v \in UnitsIn(z) <=> v \in UnitsIn(r) /\ b <= v
  <2>1. \A z \in p : z = new \/ Left(z) \/ Right(z)
    BY <1>3
  <2>2. /\ a <= u => ~Left(x) /\ ~Left(y)
        /\ u < b => ~Right(x) /\ ~Right(y)
        /\ ~(a <= u /\ u < b) => x # new /\ y # new
    BY <1>2, <1>8
  <2>3. ASSUME Left(x), Left(y) PROVE x = y
    <3>1. PICK r \in w : /\ x \in Runs /\ x.status = r.status
                         /\ \A v : v \in UnitsIn(x) <=> v \in UnitsIn(r) /\ v < a
      BY <2>3
    <3>2. PICK q \in w : /\ y \in Runs /\ y.status = q.status
                         /\ \A v : v \in UnitsIn(y) <=> v \in UnitsIn(q) /\ v < a
      BY <2>3
    <3>3. r = q
      BY <1>8, <3>1, <3>2 DEF Apart
    <3> HIDE DEF Left, Right
    <3> QED BY <3>1, <3>2, <3>3, SameRun
  <2>4. ASSUME Right(x), Right(y) PROVE x = y
    <3>1. PICK r \in w : /\ x \in Runs /\ x.status = r.status
                         /\ \A v : v \in UnitsIn(x) <=> v \in UnitsIn(r) /\ b <= v
      BY <2>4
    <3>2. PICK q \in w : /\ y \in Runs /\ y.status = q.status
                         /\ \A v : v \in UnitsIn(y) <=> v \in UnitsIn(q) /\ b <= v
      BY <2>4
    <3>3. r = q
      BY <1>8, <3>1, <3>2 DEF Apart
    <3> HIDE DEF Left, Right
    <3> QED BY <3>1, <3>2, <3>3, SameRun
  <2> HIDE DEF Left, Right
  <2>5. (a <= u /\ u < b) \/ ~(a <= u) \/ ~(u < b)
    OBVIOUS
  <2>6. ~(a <= u) => u < b
    OBVIOUS
  <2> QED BY <2>1, <2>2, <2>3, <2>4, <2>5, <2>6
<1> QED BY <1>4, <1>6, <1>7, <1>8 DEF Apart

\* The runs w that a record of [a, b) meets, and the runs c it puts in their place.
Replaced(v, m, w, c, a, b, s) ==
    /\ v = (m \ w) \cup c /\ w \subseteq m
    /\ Apart(c) /\ Grown(c) /\ Covered(c) = Covered(w)
    /\ \A u \in Nat : \A t : Says(c, u, t) <=> IF a <= u /\ u < b THEN t = s ELSE Says(w, u, t)
    /\ \A u \in Nat : a <= u /\ u < b => u \in Covered(w)
    /\ \A r \in m \ w : /\ \A u \in UnitsIn(r) : u \notin Covered(w)
                        /\ End(r) < a \/ b < r.pos

LEMMA RecordParts ==
    ASSUME NEW m, Exact(m), NEW a \in Nat, NEW n \in Nat \ {0}, a + n <= Total, NEW s \in Statuses
    PROVE  Replaced(Record(m, a, n, s), m, Window(m, a, a + n), Spliced(m, a, a + n, s), a, a + n, s)
<1> DEFINE b == a + n
           w == Window(m, a, b)
           p == Pieces(w, a, b, s)
           c == Spliced(m, a, b, s)
<1>1. b \in Nat /\ a < b /\ b <= Total /\ Total \in Nat
  BY TotalAssumption
<1>2. Record(m, a, n, s) = (m \ w) \cup c
  BY DEF Record
<1>3. w \subseteq m /\ c = Coalesced(p)
  BY DEF Window, Spliced
<1>4. Apart(m) /\ Apart(w) /\ m \subseteq Runs /\ Covered(m) = Units
  BY <1>3 DEF Exact, Apart
<1>5. \A r \in m : r \in w <=> a <= End(r) /\ r.pos <= b
  BY DEF Window
<1> HIDE DEF b, w, p, c
<1>6. /\ Apart(p)
      /\ \A u \in Nat : \A t : Says(p, u, t) <=> IF a <= u /\ u < b THEN t = s ELSE Says(w, u, t)
  BY <1>1, <1>4, PiecesFacts DEF p
<1>7. \A u \in Nat : a <= u /\ u < b => u \in Covered(w)
  <2> SUFFICES ASSUME NEW u \in Nat, a <= u, u < b PROVE u \in Covered(w)
    OBVIOUS
  <2>1. u \in Units
    BY <1>1 DEF Units
  <2>2. PICK r \in m : u \in UnitsIn(r)
    BY <1>4, <2>1 DEF Covered
  <2>3. r.pos \in Nat /\ End(r) \in Nat /\ r.pos <= u /\ u < End(r)
    BY <1>4, <2>2, RunUnits
  <2>4. r \in w
    BY <1>1, <1>5, <2>3
  <2> QED BY <2>2, <2>4 DEF Covered
<1>8. \A u : u \in Covered(p) <=> u \in Covered(w)
  <2> SUFFICES ASSUME NEW u PROVE u \in Covered(p) <=> u \in Covered(w)
    OBVIOUS
  <2>1. p \subseteq Runs /\ w \subseteq Runs
    BY <1>4, <1>6 DEF Apart
  <2>2. /\ u \in Covered(p) <=> \E t \in Statuses : Says(p, u, t)
        /\ u \in Covered(w) <=> \E t \in Statuses : Says(w, u, t)
        /\ u \in Covered(p) => u \in Nat
        /\ u \in Covered(w) => u \in Nat
    BY <2>1, CoveredSays
  <2>3. CASE u \in Nat /\ a <= u /\ u < b
    BY <1>6, <1>7, <2>2, <2>3
  <2>4. CASE u \in Nat /\ ~(a <= u /\ u < b)
    BY <1>6, <2>2, <2>4
  <2>5. CASE u \notin Nat
    BY <2>2, <2>5
  <2> QED BY <2>3, <2>4, <2>5
<1>9. \A u \in Covered(p) : u <= Total
  <2>1. \A u \in Covered(p) : u \in Units
    BY <1>3, <1>4, <1>8 DEF Covered
  <2> QED BY <1>1, <2>1 DEF Units
<1>10. /\ Apart(c) /\ Grown(c) /\ Covered(c) = Covered(p)
       /\ \A u, t : Says(c, u, t) <=> Says(p, u, t)
  BY <1>1, <1>3, <1>6, <1>9, CoalescedFacts
<1>11. Covered(c) = Covered(w)
  BY <1>8, <1>10
<1>12. ASSUME NEW r \in m \ w
       PROVE  /\ \A u \in UnitsIn(r) : u \notin Covered(w)
              /\ End(r) < a \/ b < r.pos
  <2>1. r.pos \in Nat /\ End(r) \in Nat /\ UnitsIn(r) \subseteq Nat
    BY <1>4, RunUnits
  <2>2. ~(a <= End(r) /\ r.pos <= b)
    BY <1>5
  <2>3. End(r) < a \/ b < r.pos
    BY <1>1, <2>1, <2>2
  <2>4. \A u \in UnitsIn(r) : u \notin Covered(w)
    <3> SUFFICES ASSUME NEW u \in UnitsIn(r), NEW q \in w, u \in UnitsIn(q) PROVE FALSE
      BY DEF Covered
    <3>1. r = q
      BY <1>3, <1>4, <2>1 DEF Apart
    <3> QED BY <3>1
  <2> QED BY <2>3, <2>4
<1>13. \A u \in Nat : \A t : Says(c, u, t) <=> IF a <= u /\ u < b THEN t = s ELSE Says(w, u, t)
  BY <1>6, <1>10
<1>14. Replaced(Record(m, a, n, s), m, w, c, a, b, s)
  BY <1>2, <1>3, <1>7, <1>10, <1>11, <1>12, <1>13 DEF Replaced
<1> QED BY <1>14 DEF b, w, c

\* `splice` on the window alone: whatever is recorded over whatever list, the
\* runs outside the window have nothing to merge with, the list still tiles the
\* image with maximal runs, and only the recorded units change their status.
THEOREM RecordFacts ==
    ASSUME NEW m, Exact(m), NEW a \in Nat, NEW n \in Nat \ {0}, a + n <= Total, NEW s \in Statuses
    PROVE  /\ Exact(Record(m, a, n, s))
           /\ \A u \in Nat : \A t : Says(Record(m, a, n, s), u, t) <=>
                 IF a <= u /\ u < a + n THEN t = s ELSE Says(m, u, t)
<1> DEFINE b == a + n
           w == Window(m, a, b)
           c == Spliced(m, a, b, s)
           v == Record(m, a, n, s)
<1>1. /\ v = (m \ w) \cup c /\ w \subseteq m
      /\ Apart(c) /\ Grown(c) /\ Covered(c) = Covered(w)
      /\ \A u \in Nat : \A t : Says(c, u, t) <=> IF a <= u /\ u < b THEN t = s ELSE Says(w, u, t)
      /\ \A u \in Nat : a <= u /\ u < b => u \in Covered(w)
      /\ \A r \in m \ w : /\ \A u \in UnitsIn(r) : u \notin Covered(w)
                          /\ End(r) < a \/ b < r.pos
  <2>1. Replaced(v, m, w, c, a, b, s)
    BY RecordParts
  <2> HIDE DEF b, w, c, v
  <2> QED BY <2>1 DEF Replaced
<1>2. /\ Apart(m) /\ Grown(m) /\ Covered(m) = Units /\ m \subseteq Runs /\ c \subseteq Runs
      /\ w \subseteq Runs /\ Apart(w)
  BY <1>1 DEF Exact, Apart
<1>3. b \in Nat /\ a < b /\ b = a + n
  OBVIOUS
<1> HIDE DEF b, w, c, v
<1>4. v \subseteq Runs
  BY <1>1, <1>2
<1>5. ASSUME NEW r \in v, NEW q \in v, NEW u \in Nat, u \in UnitsIn(r), u \in UnitsIn(q)
      PROVE  r = q
  <2>1. ASSUME NEW x \in m \ w, NEW y \in c PROVE ~(u \in UnitsIn(x) /\ u \in UnitsIn(y))
    BY <1>1, <2>1 DEF Covered
  <2>2. CASE r \in m \ w /\ q \in m \ w
    BY <1>2, <1>5, <2>2 DEF Apart
  <2>3. CASE r \in c /\ q \in c
    BY <1>1, <1>5, <2>3 DEF Apart
  <2> QED BY <1>1, <1>5, <2>1, <2>2, <2>3
<1>6. Covered(v) = Units
  <2>1. \A u : u \in Covered(v) <=> u \in Covered(m \ w) \/ u \in Covered(c)
    BY <1>1 DEF Covered
  <2>2. \A u : u \in Covered(m) <=> u \in Covered(m \ w) \/ u \in Covered(w)
    BY <1>1 DEF Covered
  <2>3. \A u : u \in Covered(v) <=> u \in Covered(m)
    BY <1>1, <2>1, <2>2
  <2> QED BY <1>2, <2>3
\* Where a new run says what an old one did, it is the old one's neighbour.
<1>7. ASSUME NEW x \in c, NEW u \in UnitsIn(x), ~(a <= u /\ u < b)
      PROVE  \E y \in w : u \in UnitsIn(y) /\ y.status = x.status
  <2>1. u \in Nat
    BY <1>2, RunUnits
  <2>2. Says(c, u, x.status)
    BY DEF Says
  <2>3. Says(w, u, x.status)
    BY <1>1, <1>7, <2>1, <2>2
  <2> QED BY <2>3 DEF Says
<1>8. ASSUME NEW r \in m \ w, NEW q \in c, End(r) = q.pos PROVE r.status # q.status
  <2>1. /\ r.pos \in Nat /\ End(r) \in Nat /\ r.pos < End(r) /\ End(r) - 1 \in UnitsIn(r)
        /\ q.pos \in Nat /\ q.pos \in UnitsIn(q)
    BY <1>2, RunUnits
  <2>2. End(r) < a \/ b < r.pos
    BY <1>1
  <2>3. ~(a <= q.pos /\ q.pos < b)
    BY <1>3, <1>8, <2>1, <2>2
  <2>4. PICK y \in w : q.pos \in UnitsIn(y) /\ y.status = q.status
    BY <1>7, <2>1, <2>3
  <2>5. /\ y.pos \in Nat /\ y.pos <= q.pos
        /\ \A u : u \in UnitsIn(y) <=> u \in Nat /\ y.pos <= u /\ u < End(y)
        /\ End(y) \in Nat /\ q.pos < End(y)
    BY <1>2, <2>1, <2>4, RunUnits
  <2>6. End(r) - 1 \notin UnitsIn(y)
    BY <1>1, <2>1 DEF Covered
  <2>7. End(r) - 1 \in Nat /\ End(r) - 1 < End(y)
    BY <1>8, <2>1, <2>5
  <2>8. y.pos = End(r)
    BY <1>8, <2>1, <2>5, <2>6, <2>7
  <2> QED BY <1>1, <1>2, <2>4, <2>8 DEF Grown
<1>9. ASSUME NEW q \in c, NEW r \in m \ w, End(q) = r.pos PROVE q.status # r.status
  <2>1. /\ r.pos \in Nat /\ End(r) \in Nat /\ r.pos < End(r) /\ r.pos \in UnitsIn(r)
        /\ q.pos \in Nat /\ End(q) \in Nat /\ q.pos < End(q) /\ End(q) - 1 \in UnitsIn(q)
    BY <1>2, RunUnits
  <2>2. End(r) < a \/ b < r.pos
    BY <1>1
  <2> DEFINE u == End(q) - 1
  <2>3. ~(a <= u /\ u < b)
    BY <1>3, <1>9, <2>1, <2>2
  <2>4. u \in UnitsIn(q) /\ u \in Nat /\ u + 1 = r.pos
    BY <1>9, <2>1
  <2> HIDE DEF u
  <2>5. PICK y \in w : u \in UnitsIn(y) /\ y.status = q.status
    BY <1>7, <2>3, <2>4
  <2>6. /\ y.pos \in Nat /\ y.pos <= u /\ End(y) \in Nat /\ u < End(y)
        /\ \A t : t \in UnitsIn(y) <=> t \in Nat /\ y.pos <= t /\ t < End(y)
    BY <1>2, <2>5, RunUnits
  <2>7. r.pos \notin UnitsIn(y)
    BY <1>1, <2>1 DEF Covered
  <2>8. End(y) = r.pos
    BY <2>1, <2>4, <2>6, <2>7
  <2> QED BY <1>1, <1>2, <2>5, <2>8 DEF Grown
<1>10. Grown(v)
  <2> SUFFICES ASSUME NEW r \in v, NEW q \in v, End(r) = q.pos PROVE r.status # q.status
    BY DEF Grown
  <2>1. CASE r \in m \ w /\ q \in m \ w
    BY <1>2, <2>1 DEF Grown
  <2>2. CASE r \in c /\ q \in c
    BY <1>1, <2>2 DEF Grown
  <2> QED BY <1>1, <1>8, <1>9, <2>1, <2>2
<1>11. \A u \in Nat : \A t : Says(v, u, t) <=> IF a <= u /\ u < b THEN t = s ELSE Says(m, u, t)
  <2> SUFFICES ASSUME NEW u \in Nat, NEW t
               PROVE  Says(v, u, t) <=> IF a <= u /\ u < b THEN t = s ELSE Says(m, u, t)
    OBVIOUS
  <2>1. Says(v, u, t) <=> Says(m \ w, u, t) \/ Says(c, u, t)
    BY <1>1 DEF Says
  <2>2. Says(m, u, t) <=> Says(m \ w, u, t) \/ Says(w, u, t)
    BY <1>1 DEF Says
  <2>3. u \in Covered(w) => ~Says(m \ w, u, t)
    BY <1>1 DEF Says
  <2>4. CASE a <= u /\ u < b
    BY <1>1, <2>1, <2>3, <2>4
  <2>5. CASE ~(a <= u /\ u < b)
    BY <1>1, <2>1, <2>2, <2>5
  <2> QED BY <2>4, <2>5
<1> QED BY <1>4, <1>5, <1>6, <1>10, <1>11 DEF Exact, Apart, b, v

----------------------------------------------------------------------------
(* The counters. *)

LEMMA ApartFinite ==
    ASSUME NEW m, Apart(m), NEW N \in Nat, \A u \in Covered(m) : u <= N
    PROVE  IsFiniteSet(m) /\ IsFiniteSet(Covered(m))
<1> DEFINE f == [r \in m |-> r.pos]
<1>1. m \subseteq Runs
  BY DEF Apart
<1>2. \A r \in m : r.pos \in Nat /\ r.pos \in UnitsIn(r)
  BY <1>1, RunUnits
<1>3. \A u \in Covered(m) : u \in Nat
  BY <1>1, CoveredSays
<1>4. IsFiniteSet(Covered(m))
  <2>1. Covered(m) \in SUBSET Nat
    BY <1>3
  <2> QED BY <2>1, FS_BoundedSetOfNaturals
<1>5. f \in Injection(m, Covered(m))
  <2>1. \A r \in m : f[r] \in Covered(m)
    BY <1>2 DEF Covered
  <2>2. \A r, q \in m : f[r] = f[q] => r = q
    BY <1>2 DEF Apart
  <2> QED BY <2>1, <2>2 DEF Injection, IsInjective
<1> HIDE DEF f
<1>6. IsFiniteSet(m)
  BY <1>4, <1>5, FS_Injection
<1> QED BY <1>4, <1>6

LEMMA ExactFinite ==
    ASSUME NEW m, Exact(m)
    PROVE  IsFiniteSet(m) /\ IsFiniteSet(Covered(m)) /\ IsFiniteSet(Units)
<1>1. Total \in Nat /\ \A u \in Covered(m) : u <= Total
  BY TotalAssumption DEF Exact, Units
<1>2. Apart(m) /\ Covered(m) = Units
  BY DEF Exact
<1> QED BY <1>1, <1>2, ApartFinite

LEMMA ShareAdds ==
    ASSUME NEW z, IsFiniteSet(z), IsFiniteSet(Covered(z)), NEW x, NEW y, Parts(z, x, y),
           \A u \in Covered(x) : u \notin Covered(y), NEW f \in Counters
    PROVE  /\ Share(f, x) \in Nat /\ Share(f, y) \in Nat
           /\ Share(f, z) = Share(f, x) + Share(f, y)
<1> DEFINE C == Class(f)
<1> HIDE DEF C
<1>1. CASE f = "badRanges"
  <2>1. Parts(With(z, C), With(x, C), With(y, C))
    BY DEF With, Parts
  <2>2. IsFiniteSet(With(z, C))
    <3>1. With(z, C) \in SUBSET z
      BY DEF With
    <3> QED BY <3>1, FS_Subset
  <2>3. /\ Cardinality(With(x, C)) \in Nat /\ Cardinality(With(y, C)) \in Nat
        /\ Cardinality(With(z, C)) = Cardinality(With(x, C)) + Cardinality(With(y, C))
    BY <2>1, <2>2, Cut
  <2>4. /\ Share(f, x) = Cardinality(With(x, C)) /\ Share(f, y) = Cardinality(With(y, C))
        /\ Share(f, z) = Cardinality(With(z, C))
    BY <1>1 DEF Share, C
  <2> QED BY <2>3, <2>4
<1>2. CASE f # "badRanges"
  <2> DEFINE K(s) == Covered(With(s, C))
  <2>1. K(z) = K(x) \cup K(y)
    BY DEF With, Covered, Parts
  <2>2. K(x) \cap K(y) = {}
    <3>1. \A u \in K(x) : u \in Covered(x)
      BY DEF With, Covered
    <3>2. \A u \in K(y) : u \in Covered(y)
      BY DEF With, Covered
    <3> HIDE DEF K
    <3> QED BY <3>1, <3>2
  <2>3. IsFiniteSet(K(z))
    <3>1. K(z) \in SUBSET Covered(z)
      BY DEF With, Covered
    <3> HIDE DEF K
    <3> QED BY <3>1, FS_Subset
  <2>4. /\ Share(f, x) = Cardinality(K(x)) /\ Share(f, y) = Cardinality(K(y))
        /\ Share(f, z) = Cardinality(K(z))
    BY <1>2 DEF Share, Measure, C
  <2> HIDE DEF K
  <2>5. /\ Cardinality(K(x)) \in Nat /\ Cardinality(K(y)) \in Nat
        /\ Cardinality(K(z)) = Cardinality(K(x)) + Cardinality(K(y))
    <3>1. Parts(K(z), K(x), K(y))
      BY <2>1, <2>2 DEF Parts
    <3> QED BY <2>3, <3>1, Cut
  <2> QED BY <2>4, <2>5
<1> QED BY <1>1, <1>2

\* The counters `splice` moves by its window's delta, the number of unreadable
\* runs among them, are those a full count of the new list gives.
THEOREM RecountFacts ==
    ASSUME NEW m, Exact(m), NEW a \in Nat, NEW n \in Nat \ {0}, a + n <= Total, NEW s \in Statuses
    PROVE  Recount(Tallied(m), m, a, n, s) = Tallied(Record(m, a, n, s))
<1> DEFINE b == a + n
           w == Window(m, a, b)
           c == Spliced(m, a, b, s)
           v == Record(m, a, n, s)
<1>1. /\ v = (m \ w) \cup c /\ w \subseteq m
      /\ Apart(c) /\ Covered(c) = Covered(w)
      /\ \A r \in m \ w : \A u \in UnitsIn(r) : u \notin Covered(w)
  <2>1. Replaced(v, m, w, c, a, b, s)
    BY RecordParts
  <2> HIDE DEF b, w, c, v
  <2> QED BY <2>1 DEF Replaced
<1>2. Exact(v)
  BY RecordFacts
<1>3. \A f \in Counters : Recount(Tallied(m), m, a, n, s)[f] = (Tallied(m)[f] - Share(f, w)) + Share(f, c)
  BY DEF Recount
<1>4. Recount(Tallied(m), m, a, n, s) = [f \in Counters |-> (Tallied(m)[f] - Share(f, w)) + Share(f, c)]
  BY DEF Recount
<1> HIDE DEF b, w, c, v
<1>5. \A u \in Covered(m \ w) : u \notin Covered(w) /\ u \notin Covered(c)
  BY <1>1 DEF Covered
<1>6. (m \ w) \cap c = {}
  <2> SUFFICES ASSUME NEW r \in m \ w, r \in c PROVE FALSE
    OBVIOUS
  <2>1. r.pos \in UnitsIn(r)
    BY <1>1, RunUnits DEF Apart
  <2>2. r.pos \in Covered(c) /\ r.pos \in Covered(m \ w)
    BY <2>1 DEF Covered
  <2> QED BY <1>5, <2>2
<1>7. ASSUME NEW f \in Counters
      PROVE  (Tallied(m)[f] - Share(f, w)) + Share(f, c) = Tallied(v)[f]
  <2>1. /\ Share(f, m \ w) \in Nat /\ Share(f, w) \in Nat
        /\ Share(f, m) = Share(f, m \ w) + Share(f, w)
    <3>1. Parts(m, m \ w, w)
      BY <1>1 DEF Parts
    <3>2. IsFiniteSet(m) /\ IsFiniteSet(Covered(m))
      BY ExactFinite
    <3>3. \A u \in Covered(m \ w) : u \notin Covered(w)
      BY <1>5
    <3> QED BY <3>1, <3>2, <3>3, ShareAdds
  <2>2. /\ Share(f, c) \in Nat
        /\ Share(f, v) = Share(f, m \ w) + Share(f, c)
    <3>1. Parts(v, m \ w, c)
      BY <1>1, <1>6 DEF Parts
    <3>2. IsFiniteSet(v) /\ IsFiniteSet(Covered(v))
      BY <1>2, ExactFinite
    <3>3. \A u \in Covered(m \ w) : u \notin Covered(c)
      BY <1>5
    <3> QED BY <3>1, <3>2, <3>3, ShareAdds
  <2>3. Tallied(m)[f] = Share(f, m) /\ Tallied(v)[f] = Share(f, v)
    BY DEF Tallied
  <2> QED BY <2>1, <2>2, <2>3
<1>8. Tallied(v) = [f \in Counters |-> Tallied(v)[f]]
  BY DEF Tallied
<1>9. Recount(Tallied(m), m, a, n, s) = [f \in Counters |-> Tallied(v)[f]]
  BY <1>4, <1>7
<1> QED BY <1>8, <1>9 DEF v

\* As many bad runs as bad units with no bad unit before them.
LEMMA BadFacts ==
    ASSUME NEW m, Exact(m), NEW s \in Statuses
    PROVE  Cardinality(With(m, {s})) = Cardinality({u \in Units : Says(m, u, s) /\ ~Says(m, u - 1, s)})
<1> DEFINE B == With(m, {s})
           F == {u \in Units : Says(m, u, s) /\ ~Says(m, u - 1, s)}
           f == [r \in B |-> r.pos]
<1>1. m \subseteq Runs /\ Apart(m) /\ Grown(m) /\ Covered(m) = Units
  BY DEF Exact, Apart
<1>2. \A r \in B : /\ r \in m /\ r \in Runs /\ r.status = s /\ r.pos \in Nat /\ r.pos \in UnitsIn(r)
                   /\ \A u : u \in UnitsIn(r) <=> u \in Nat /\ r.pos <= u /\ u < End(r)
                   /\ End(r) \in Nat
  BY <1>1, RunUnits DEF With
<1>3. \A r \in B : f[r] \in F
  <2> SUFFICES ASSUME NEW r \in B PROVE r.pos \in F
    OBVIOUS
  <2>1. r.pos \in Units /\ Says(m, r.pos, s)
    BY <1>1, <1>2 DEF Covered, Says
  <2>2. ~Says(m, r.pos - 1, s)
    <3> SUFFICES ASSUME NEW q \in m, r.pos - 1 \in UnitsIn(q), q.status = s PROVE FALSE
      BY DEF Says
    <3> HIDE DEF B, F, f
    <3>1. /\ q.pos \in Nat /\ End(q) \in Nat
          /\ \A u : u \in UnitsIn(q) <=> u \in Nat /\ q.pos <= u /\ u < End(q)
      BY <1>1, RunUnits
    <3>2. r.pos - 1 \in Nat /\ q.pos <= r.pos - 1 /\ r.pos - 1 < End(q)
      BY <3>1
    <3>3. r.pos \notin UnitsIn(q)
      <4>1. SUFFICES ASSUME r.pos \in UnitsIn(q) PROVE FALSE
        OBVIOUS
      <4>2. q = r
        BY <1>1, <1>2, <4>1 DEF Apart
      <4> QED BY <1>2, <3>2, <4>2
    <3>4. End(q) = r.pos
      BY <1>2, <3>1, <3>2, <3>3
    <3> QED BY <1>1, <1>2, <3>4 DEF Grown
  <2> QED BY <2>1, <2>2
<1>4. \A r, q \in B : f[r] = f[q] => r = q
  <2> SUFFICES ASSUME NEW r \in B, NEW q \in B, r.pos = q.pos PROVE r = q
    OBVIOUS
  <2> HIDE DEF B, F, f
  <2> QED BY <1>1, <1>2 DEF Apart
<1>5. \A u \in F : \E r \in B : f[r] = u
  <2> SUFFICES ASSUME NEW u \in F PROVE \E r \in B : r.pos = u
    OBVIOUS
  <2>1. u \in Nat /\ Says(m, u, s) /\ ~Says(m, u - 1, s)
    BY DEF Units
  <2>2. PICK r \in m : u \in UnitsIn(r) /\ r.status = s
    BY <2>1 DEF Says
  <2>3. r \in B
    BY <2>2 DEF With
  <2> HIDE DEF B, F, f
  <2>4. r.pos <= u /\ u < End(r) /\ r.pos \in Nat /\ End(r) \in Nat
    BY <1>2, <2>2, <2>3
  <2>5. ~(r.pos < u)
    <3>1. SUFFICES ASSUME r.pos < u PROVE FALSE
      OBVIOUS
    <3>2. u - 1 \in UnitsIn(r)
      BY <1>2, <2>1, <2>3, <2>4, <3>1
    <3> QED BY <2>1, <2>2, <3>2 DEF Says
  <2>6. r.pos = u
    BY <2>1, <2>4, <2>5
  <2> QED BY <2>3, <2>6
<1>6. IsFiniteSet(B)
  <2>1. B \in SUBSET m
    BY DEF With
  <2> QED BY <2>1, ExactFinite, FS_Subset
<1>7. f \in Bijection(B, F)
  <2>1. f \in [B -> F]
    BY <1>3
  <2>2. f \in Injection(B, F)
    BY <1>4, <2>1 DEF Injection, IsInjective
  <2>3. f \in Surjection(B, F)
    BY <1>5, <2>1 DEF Surjection
  <2> QED BY <2>2, <2>3 DEF Bijection
<1> HIDE DEF B, F, f
<1>8. ExistsBijection(B, F)
  BY <1>7 DEF ExistsBijection
<1>9. Cardinality(F) = Cardinality(B)
  BY <1>6, <1>8, FS_Bijection
<1> QED BY <1>9 DEF B, F

----------------------------------------------------------------------------
(* New, loaded and promoted lists. *)

LEMMA CreatedFacts ==
    Exact(Created) /\ \A u \in Units : \A t : Says(Created, u, t) <=> t = "NonTried"
<1>1. CASE Total = 0
  <2>1. Created = {} /\ Units = {}
    BY <1>1 DEF Created, Units
  <2> QED BY <2>1 DEF Exact, Apart, Grown, Covered
<1>2. CASE Total # 0
  <2> DEFINE r == Run(0, Total, "NonTried")
  <2>1. Created = {r}
    BY <1>2 DEF Created
  <2>2. r.pos = 0 /\ r.size = Total /\ r.status = "NonTried" /\ r \in Runs
    BY <1>2, TotalAssumption DEF Run, Runs, Statuses
  <2> HIDE DEF r
  <2>3. End(r) = Total /\ UnitsIn(r) = Units
    BY <2>2, TotalAssumption DEF End, UnitsIn, Units
  <2> QED BY <1>2, <2>1, <2>2, <2>3, TotalAssumption DEF Exact, Apart, Grown, Covered, Says
<1> QED BY <1>1, <1>2

\* A mapfile's lines, and what its gaps become.
LEMMA LoadedFacts ==
    ASSUME NEW ls, Apart(ls), Covered(ls) \subseteq Units
    PROVE  /\ Exact(Loaded(ls))
           /\ \A u \in Units : \A t : Says(Loaded(ls), u, t) <=>
                 IF u \in Covered(ls) THEN Says(ls, u, t) ELSE t = "NonTried"
<1> DEFINE G == Units \ Covered(ls)
           gaps == RangesOf(G)
           f(g) == Run(g.pos, g.size, "NonTried")
           p == ls \cup {f(g) : g \in gaps}
<1>1. Loaded(ls) = Coalesced(p)
  BY DEF Loaded
<1>2. ls \subseteq Runs
  BY DEF Apart
<1>3. G \in SUBSET Nat /\ Total \in Nat /\ \A u \in Units : u \in Nat /\ u <= Total
  BY TotalAssumption DEF Units
<1>4. /\ gaps \subseteq Ranges1 /\ Covered(gaps) = G
      /\ \A g, h \in gaps, u \in G : u \in UnitsIn(g) /\ u \in UnitsIn(h) => g = h
      /\ \A g \in gaps : UnitsIn(g) \subseteq G
  <2> HIDE DEF G
  <2>1. \A u \in G : u <= Total
    BY <1>3 DEF G
  <2> QED BY <1>3, <2>1, RangesOfFacts
<1>5. \A g \in gaps : f(g) \in Runs /\ f(g).status = "NonTried" /\ UnitsIn(f(g)) = UnitsIn(g)
  <2> SUFFICES ASSUME NEW g \in gaps
               PROVE  f(g) \in Runs /\ f(g).status = "NonTried" /\ UnitsIn(f(g)) = UnitsIn(g)
    OBVIOUS
  <2>1. g.pos \in Nat /\ g.size \in Nat \ {0}
    BY <1>4 DEF Ranges1
  <2>2. f(g).pos = g.pos /\ f(g).size = g.size /\ f(g).status = "NonTried" /\ f(g) \in Runs
    BY <2>1 DEF Run, Runs, Statuses
  <2> HIDE DEF f
  <2> QED BY <2>2 DEF UnitsIn, End
<1> HIDE DEF gaps, f
<1>6. p \subseteq Runs
  BY <1>2, <1>5
<1>7. \A x \in p : \/ x \in ls /\ \A u \in UnitsIn(x) : u \in Covered(ls)
                   \/ \E g \in gaps : x = f(g) /\ UnitsIn(x) = UnitsIn(g)
  BY <1>5 DEF Covered
<1>8. \A g \in gaps : f(g) \in p /\ \A u \in UnitsIn(f(g)) : u \notin Covered(ls)
  BY <1>4, <1>5
<1>9. ls \subseteq p
  OBVIOUS
<1> HIDE DEF p
<1>10. Apart(p)
  <2> SUFFICES ASSUME NEW x \in p, NEW y \in p, NEW u \in Nat, u \in UnitsIn(x), u \in UnitsIn(y)
               PROVE  x = y
    BY <1>6 DEF Apart
  <2>1. CASE x \in ls /\ y \in ls
    BY <2>1 DEF Apart
  <2>2. ASSUME NEW g \in gaps, x = f(g), NEW h \in gaps, y = f(h) PROVE x = y
    BY <1>4, <1>5, <2>2
  <2> QED BY <1>7, <1>8, <2>1, <2>2
<1>11. Covered(p) = Units
  <2>1. \A u \in Covered(p) : u \in Units
    <3> SUFFICES ASSUME NEW x \in p, NEW u \in UnitsIn(x) PROVE u \in Units
      BY DEF Covered
    <3> QED BY <1>4, <1>7
  <2>2. \A u \in Units : u \in Covered(p)
    <3> SUFFICES ASSUME NEW u \in Units PROVE u \in Covered(p)
      OBVIOUS
    <3>1. CASE u \in Covered(ls)
      BY <1>9, <3>1 DEF Covered
    <3>2. CASE u \notin Covered(ls)
      <4>1. u \in Covered(gaps)
        BY <1>4, <3>2
      <4>2. PICK g \in gaps : u \in UnitsIn(g)
        BY <4>1 DEF Covered
      <4> QED BY <1>5, <1>8, <4>2 DEF Covered
    <3> QED BY <3>1, <3>2
  <2> QED BY <2>1, <2>2
<1>12. /\ Apart(Coalesced(p)) /\ Grown(Coalesced(p)) /\ Covered(Coalesced(p)) = Units
       /\ \A u, s : Says(Coalesced(p), u, s) <=> Says(p, u, s)
  BY <1>3, <1>10, <1>11, CoalescedFacts
<1>13. ASSUME NEW u \in Units, NEW t
       PROVE  Says(p, u, t) <=> IF u \in Covered(ls) THEN Says(ls, u, t) ELSE t = "NonTried"
  <2>1. CASE u \in Covered(ls)
    <3>1. Says(p, u, t) => Says(ls, u, t)
      BY <1>7, <1>8, <2>1 DEF Says
    <3>2. Says(ls, u, t) => Says(p, u, t)
      BY <1>9 DEF Says
    <3> QED BY <2>1, <3>1, <3>2
  <2>2. CASE u \notin Covered(ls)
    <3>1. Says(p, u, t) => t = "NonTried"
      BY <1>5, <1>7, <2>2 DEF Says
    <3>2. Says(p, u, "NonTried")
      <4>1. PICK x \in p : u \in UnitsIn(x)
        BY <1>11 DEF Covered
      <4>2. x.status = "NonTried"
        BY <1>5, <1>7, <2>2, <4>1
      <4> QED BY <4>1, <4>2 DEF Says
    <3> QED BY <2>2, <3>1, <3>2
  <2> QED BY <2>1, <2>2
<1> QED BY <1>1, <1>12, <1>13 DEF Exact

\* The lines of a file that loads are apart.
LEMMA LoadableApart ==
    ASSUME NEW ls, ls \subseteq Runs, Loadable(ls), \A r \in ls : End(r) <= Total
    PROVE  Apart(ls) /\ Covered(ls) \subseteq Units
<1>1. Apart(ls)
  <2> SUFFICES ASSUME NEW r \in ls, NEW q \in ls, NEW u \in Nat, u \in UnitsIn(r), u \in UnitsIn(q), r # q
               PROVE  FALSE
    BY DEF Apart
  <2>1. /\ r.pos \in Nat /\ End(r) \in Nat /\ r.pos <= u /\ u < End(r)
        /\ q.pos \in Nat /\ End(q) \in Nat /\ q.pos <= u /\ u < End(q)
    BY RunUnits
  <2>2. End(r) <= q.pos \/ End(q) <= r.pos
    BY DEF Loadable
  <2> QED BY <2>1, <2>2
<1>2. Covered(ls) \subseteq Units
  <2> SUFFICES ASSUME NEW r \in ls, NEW u \in UnitsIn(r) PROVE u \in Units
    BY DEF Covered
  <2>1. u \in Nat /\ u < End(r) /\ End(r) \in Nat /\ End(r) <= Total
    BY RunUnits
  <2> QED BY <2>1, TotalAssumption DEF Units
<1> QED BY <1>1, <1>2

LEMMA PromotedFacts ==
    ASSUME NEW m, Exact(m), NEW from, NEW to \in Statuses
    PROVE  /\ Exact(Promoted(m, from, to))
           /\ \A u \in Units : \A t : Says(Promoted(m, from, to), u, t) <=>
                 \E s : Says(m, u, s) /\ t = IF s \in from THEN to ELSE s
<1> DEFINE f(r) == IF r.status \in from THEN Run(r.pos, r.size, to) ELSE r
           p == {f(r) : r \in m}
<1>1. Promoted(m, from, to) = Coalesced(p)
  BY DEF Promoted
<1>2. m \subseteq Runs /\ Apart(m) /\ Covered(m) = Units
  BY DEF Exact, Apart
<1>3. \A r \in m : /\ f(r) \in Runs /\ UnitsIn(f(r)) = UnitsIn(r)
                   /\ f(r).status = IF r.status \in from THEN to ELSE r.status
  <2> SUFFICES ASSUME NEW r \in m
               PROVE  /\ f(r) \in Runs /\ UnitsIn(f(r)) = UnitsIn(r)
                      /\ f(r).status = IF r.status \in from THEN to ELSE r.status
    OBVIOUS
  <2>1. r \in Runs /\ r.pos \in Nat /\ r.size \in Nat \ {0}
    BY <1>2, RunUnits
  <2>2. CASE r.status \in from
    <3>1. /\ f(r).pos = r.pos /\ f(r).size = r.size /\ f(r).status = to /\ f(r) \in Runs
      BY <2>1, <2>2 DEF Run, Runs
    <3> HIDE DEF f
    <3> QED BY <2>2, <3>1 DEF UnitsIn, End
  <2>3. CASE r.status \notin from
    BY <2>1, <2>3
  <2> QED BY <2>2, <2>3
<1>4. \A x \in p : \E r \in m : x = f(r)
  OBVIOUS
<1>5. \A r \in m : f(r) \in p
  OBVIOUS
<1> HIDE DEF f, p
<1>6. Apart(p)
  <2>1. p \subseteq Runs
    BY <1>3, <1>4
  <2>2. ASSUME NEW x \in p, NEW y \in p, NEW u \in Nat, u \in UnitsIn(x), u \in UnitsIn(y)
        PROVE  x = y
    <3>1. PICK r \in m : x = f(r)
      BY <1>4
    <3>2. PICK q \in m : y = f(q)
      BY <1>4
    <3>3. u \in UnitsIn(r) /\ u \in UnitsIn(q)
      BY <1>3, <2>2, <3>1, <3>2
    <3>4. r = q
      BY <1>2, <3>3 DEF Apart
    <3> QED BY <3>1, <3>2, <3>4
  <2> QED BY <2>1, <2>2 DEF Apart
<1>7. Covered(p) = Units
  <2>1. \A u : u \in Covered(p) <=> u \in Covered(m)
    <3> TAKE u
    <3>1. ASSUME NEW x \in p, u \in UnitsIn(x) PROVE u \in Covered(m)
      BY <1>3, <1>4, <3>1 DEF Covered
    <3>2. ASSUME NEW r \in m, u \in UnitsIn(r) PROVE u \in Covered(p)
      BY <1>3, <1>5, <3>2 DEF Covered
    <3> QED BY <3>1, <3>2 DEF Covered
  <2> QED BY <1>2, <2>1
<1>8. Total \in Nat /\ \A u \in Units : u <= Total
  BY TotalAssumption DEF Units
<1>9. /\ Apart(Coalesced(p)) /\ Grown(Coalesced(p)) /\ Covered(Coalesced(p)) = Units
      /\ \A u, s : Says(Coalesced(p), u, s) <=> Says(p, u, s)
  BY <1>6, <1>7, <1>8, CoalescedFacts
<1>10. ASSUME NEW u \in Units, NEW t
       PROVE  Says(p, u, t) <=> \E s : Says(m, u, s) /\ t = IF s \in from THEN to ELSE s
  <2>1. ASSUME Says(p, u, t) PROVE \E s : Says(m, u, s) /\ t = IF s \in from THEN to ELSE s
    <3>1. PICK x \in p : u \in UnitsIn(x) /\ x.status = t
      BY <2>1 DEF Says
    <3>2. PICK r \in m : x = f(r)
      BY <1>4
    <3>3. u \in UnitsIn(r) /\ t = IF r.status \in from THEN to ELSE r.status
      BY <1>3, <3>1, <3>2
    <3> QED BY <3>3 DEF Says
  <2>2. ASSUME NEW s, Says(m, u, s), t = IF s \in from THEN to ELSE s PROVE Says(p, u, t)
    <3>1. PICK r \in m : u \in UnitsIn(r) /\ r.status = s
      BY <2>2 DEF Says
    <3>2. f(r) \in p /\ u \in UnitsIn(f(r)) /\ f(r).status = t
      BY <1>3, <1>5, <2>2, <3>1
    <3> QED BY <3>2 DEF Says
  <2> QED BY <2>1, <2>2
<1> QED BY <1>1, <1>9, <1>10 DEF Exact

----------------------------------------------------------------------------
(* Plain ranges. *)

LEMMA RangesWithFacts ==
    ASSUME NEW m, m \subseteq Runs, NEW S
    PROVE  /\ RangesWith(m, S) \subseteq Ranges1
           /\ Covered(RangesWith(m, S)) = Held(m, S)
           /\ \A x \in RangesWith(m, S) : \E r \in m :
                 r.status \in S /\ UnitsIn(x) = UnitsIn(r) /\ End(x) = End(r)
<1> DEFINE f(r) == Range1(r.pos, r.size)
<1>1. \A r \in m : f(r) \in Ranges1 /\ UnitsIn(f(r)) = UnitsIn(r) /\ End(f(r)) = End(r)
  <2> SUFFICES ASSUME NEW r \in m
               PROVE  f(r) \in Ranges1 /\ UnitsIn(f(r)) = UnitsIn(r) /\ End(f(r)) = End(r)
    OBVIOUS
  <2>1. r.pos \in Nat /\ r.size \in Nat \ {0}
    BY RunUnits
  <2> QED BY <2>1 DEF Range1, Ranges1, UnitsIn, End
<1>2. RangesWith(m, S) = {f(r) : r \in With(m, S)}
  BY DEF RangesWith
<1>3. \A r : r \in With(m, S) <=> r \in m /\ r.status \in S
  BY DEF With
<1> HIDE DEF f
<1>4. \A u : u \in Covered(RangesWith(m, S)) <=> u \in Held(m, S)
  BY <1>1, <1>2, <1>3 DEF Covered, Held
<1>5. Covered(RangesWith(m, S)) = Held(m, S)
  BY <1>4
<1> QED BY <1>1, <1>2, <1>3, <1>5

LEMMA RangeUnits ==
    ASSUME NEW r \in Ranges1
    PROVE  /\ r.pos \in Nat /\ r.size \in Nat \ {0}
           /\ End(r) \in Nat /\ End(r) = r.pos + r.size /\ r.pos < End(r)
           /\ UnitsIn(r) \subseteq Nat
           /\ \A u : u \in UnitsIn(r) <=> u \in Nat /\ r.pos <= u /\ u < End(r)
           /\ r.pos \in UnitsIn(r) /\ End(r) - 1 \in UnitsIn(r)
BY RangeParts DEF Ranges1

LEMMA IntersectedFacts ==
    ASSUME NEW rs, rs \subseteq Ranges1, NEW sc, sc \subseteq Ranges1
    PROVE  /\ Intersected(rs, sc) \subseteq Ranges1
           /\ Covered(Intersected(rs, sc)) = Covered(rs) \cap Covered(sc)
<1> DEFINE I == Intersected(rs, sc)
<1>1. ASSUME NEW r \in rs, NEW q \in sc
      PROVE  /\ Shared(r, q).size > 0 => Shared(r, q) \in Ranges1
             /\ \A u : u \in UnitsIn(Shared(r, q)) <=> u \in UnitsIn(r) /\ u \in UnitsIn(q)
             /\ \A u : u \in UnitsIn(Shared(r, q)) => Shared(r, q).size > 0
  <2> DEFINE a == Greatest(r.pos, q.pos)
             z == Least(End(r), End(q))
             x == Shared(r, q)
  <2>1. /\ r.pos \in Nat /\ End(r) \in Nat
        /\ \A u : u \in UnitsIn(r) <=> u \in Nat /\ r.pos <= u /\ u < End(r)
        /\ q.pos \in Nat /\ End(q) \in Nat
        /\ \A u : u \in UnitsIn(q) <=> u \in Nat /\ q.pos <= u /\ u < End(q)
    BY RangeUnits
  <2>2. /\ a \in Nat /\ z \in Nat
        /\ \A u \in Nat : a <= u <=> r.pos <= u /\ q.pos <= u
        /\ \A u \in Nat : u < z <=> u < End(r) /\ u < End(q)
    BY <2>1 DEF Greatest, Least
  <2>3. x = [pos |-> a, size |-> z - a]
    BY DEF Shared, Range1
  <2> HIDE DEF a, z, x
  <2>4. x.pos = a /\ x.size = z - a /\ (x.size > 0 => x \in Ranges1)
    BY <2>2, <2>3 DEF Ranges1
  <2>5. End(x) = z
    <3>1. End(x) = a + (z - a)
      BY <2>4 DEF End
    <3> QED BY <2>2, <3>1
  <2>6. \A u : u \in UnitsIn(x) <=> u \in Nat /\ a <= u /\ u < z
    <3>1. UnitsIn(x) = a..(z - 1)
      BY <2>4, <2>5 DEF UnitsIn
    <3> QED BY <2>2, <3>1
  <2>7. \A u : u \in UnitsIn(x) => x.size > 0
    BY <2>2, <2>4, <2>6
  <2>8. \A u : u \in UnitsIn(x) <=> u \in UnitsIn(r) /\ u \in UnitsIn(q)
    BY <2>1, <2>2, <2>6
  <2> QED BY <2>4, <2>7, <2>8 DEF x
<1>2. \A x \in I : x.size > 0 /\ \E r \in rs, q \in sc : x = Shared(r, q)
  BY DEF Intersected
<1>3. \A r \in rs, q \in sc : Shared(r, q).size > 0 => Shared(r, q) \in I
  <2> SUFFICES ASSUME NEW r \in rs, NEW q \in sc, Shared(r, q).size > 0
               PROVE  Shared(r, q) \in I
    OBVIOUS
  <2>1. <<r, q>> \in rs \X sc /\ <<r, q>>[1] = r /\ <<r, q>>[2] = q
    OBVIOUS
  <2>2. Shared(r, q) \in {Shared(p[1], p[2]) : p \in rs \X sc}
    BY <2>1
  <2> QED BY <2>2 DEF Intersected
<1> HIDE DEF I
<1>4. I \subseteq Ranges1
  BY <1>1, <1>2
<1>5. \A u : u \in Covered(I) <=> u \in Covered(rs) /\ u \in Covered(sc)
  <2> TAKE u
  <2>1. ASSUME NEW x \in I, u \in UnitsIn(x) PROVE u \in Covered(rs) /\ u \in Covered(sc)
    BY <1>1, <1>2, <2>1 DEF Covered
  <2>2. ASSUME NEW r \in rs, NEW q \in sc, u \in UnitsIn(r), u \in UnitsIn(q)
        PROVE  u \in Covered(I)
    BY <1>1, <1>3, <2>2 DEF Covered
  <2> QED BY <2>1, <2>2 DEF Covered
<1> QED BY <1>4, <1>5 DEF I

LEMMA SubtractedFacts ==
    ASSUME NEW rs, rs \subseteq Ranges1, NEW cuts, NEW N \in Nat, \A r \in rs : End(r) <= N
    PROVE  /\ Subtracted(rs, cuts) \subseteq Ranges1
           /\ Covered(Subtracted(rs, cuts)) = Covered(rs) \ Covered(cuts)
           /\ \A x \in Subtracted(rs, cuts) : End(x) <= N
<1> DEFINE S(r) == UnitsIn(r) \ Covered(cuts)
           D == Subtracted(rs, cuts)
<1>1. \A x : x \in D <=> \E r \in rs : x \in RangesOf(S(r))
  BY DEF Subtracted
<1>2. ASSUME NEW r \in rs
      PROVE  /\ RangesOf(S(r)) \subseteq Ranges1
             /\ \A u : u \in S(r) <=> \E x \in RangesOf(S(r)) : u \in UnitsIn(x)
             /\ \A x \in RangesOf(S(r)) : End(x) <= N
  <2> DEFINE T == S(r)
  <2>1. T \in SUBSET Nat /\ \A u \in T : u < End(r)
    BY RangeUnits
  <2>2. End(r) \in Nat /\ End(r) <= N
    BY RangeUnits
  <2> HIDE DEF T, S
  <2>3. \A u \in T : u <= N
    BY <2>1, <2>2
  <2>4. /\ RangesOf(T) \subseteq Ranges1 /\ Covered(RangesOf(T)) = T
        /\ \A x \in RangesOf(T) : UnitsIn(x) \subseteq T
    BY <2>1, <2>3, RangesOfFacts
  <2>5. \A x \in RangesOf(T) : End(x) <= N
    <3> SUFFICES ASSUME NEW x \in RangesOf(T) PROVE End(x) <= N
      OBVIOUS
    <3>1. End(x) - 1 \in UnitsIn(x) /\ End(x) \in Nat
      BY <2>4, RangeUnits
    <3>2. End(x) - 1 < End(r)
      BY <2>1, <2>4, <3>1
    <3> QED BY <2>2, <3>1, <3>2
  <2>6. \A u : u \in T <=> \E x \in RangesOf(T) : u \in UnitsIn(x)
    BY <2>4 DEF Covered
  <2> QED BY <2>4, <2>5, <2>6 DEF T
<1>3. \A r, u : u \in S(r) <=> u \in UnitsIn(r) /\ u \notin Covered(cuts)
  OBVIOUS
<1> HIDE DEF S, D
<1>4. D \subseteq Ranges1 /\ \A x \in D : End(x) <= N
  BY <1>1, <1>2
<1>5. \A u : u \in Covered(D) <=> u \in Covered(rs) /\ u \notin Covered(cuts)
  <2> TAKE u
  <2>1. ASSUME NEW x \in D, u \in UnitsIn(x) PROVE u \in Covered(rs) /\ u \notin Covered(cuts)
    <3>1. PICK r \in rs : x \in RangesOf(S(r))
      BY <1>1
    <3>2. u \in S(r)
      BY <1>2, <2>1, <3>1
    <3> QED BY <1>3, <3>2 DEF Covered
  <2>2. ASSUME NEW r \in rs, u \in UnitsIn(r), u \notin Covered(cuts) PROVE u \in Covered(D)
    <3>1. PICK x \in RangesOf(S(r)) : u \in UnitsIn(x)
      BY <1>2, <1>3, <2>2
    <3>2. x \in D
      BY <1>1, <3>1
    <3> QED BY <3>1, <3>2 DEF Covered
  <2>3. u \in Covered(D) <=> \E x \in D : u \in UnitsIn(x)
    BY DEF Covered
  <2>4. u \in Covered(rs) <=> \E x \in rs : u \in UnitsIn(x)
    BY DEF Covered
  <2> QED BY <2>1, <2>2, <2>3, <2>4
<1> QED BY <1>4, <1>5 DEF D

LEMMA MergedFacts ==
    ASSUME NEW rs, rs \subseteq Ranges1, NEW N \in Nat, \A r \in rs : End(r) <= N
    PROVE  /\ Merged(rs) \subseteq Ranges1
           /\ Covered(Merged(rs)) = Covered(rs)
           /\ \A x \in Merged(rs) : End(x) <= N
<1> DEFINE S == Covered(rs)
<1>1. S \in SUBSET Nat /\ \A u \in S : u < N
  <2> SUFFICES ASSUME NEW r \in rs, NEW u \in UnitsIn(r) PROVE u \in Nat /\ u < N
    BY DEF Covered
  <2>1. u \in Nat /\ u < End(r) /\ End(r) \in Nat /\ End(r) <= N
    BY RangeUnits
  <2> QED BY <2>1
<1>2. Merged(rs) = RangesOf(S)
  BY DEF Merged
<1> HIDE DEF S
<1>3. \A u \in S : u <= N
  BY <1>1
<1>4. /\ RangesOf(S) \subseteq Ranges1 /\ Covered(RangesOf(S)) = S
      /\ \A x \in RangesOf(S) : UnitsIn(x) \subseteq S
  BY <1>1, <1>3, RangesOfFacts
<1>5. \A x \in RangesOf(S) : End(x) <= N
  <2> SUFFICES ASSUME NEW x \in RangesOf(S) PROVE End(x) <= N
    OBVIOUS
  <2>1. End(x) - 1 \in UnitsIn(x) /\ End(x) \in Nat
    BY <1>4, RangeUnits
  <2>2. End(x) - 1 < N
    BY <1>1, <1>4, <2>1
  <2> QED BY <2>1, <2>2
<1> QED BY <1>2, <1>4, <1>5 DEF S

\* Sectors a..z-1, and no more than one of them at either end.
Sectors1(r, a, z) == r.pos = a * Sector /\ End(r) = z * Sector

\* A snapped range is whole sectors, each with a unit of the range, in the image.
LEMMA SnappedFacts ==
    ASSUME NEW r \in Ranges1, End(r) <= Total
    PROVE  /\ UnitsIn(r) \subseteq UnitsIn(Snapped(r))
           /\ Snapped(r).size \in Nat
           /\ \E a, z \in Nat :
                 /\ Sectors1(Snapped(r), a, z) /\ a <= z /\ z * Sector <= Total
                 /\ \A k \in Nat : a <= k /\ k < z =>
                       \E u \in UnitsIn(r) : k * Sector <= u /\ u < k * Sector + Sector
<1> DEFINE a == r.pos \div Sector
           e == End(r) + Sector - 1
           z == e \div Sector
           x == Snapped(r)
<1>1. /\ r.pos \in Nat /\ End(r) \in Nat /\ r.pos < End(r)
      /\ \A u : u \in UnitsIn(r) <=> u \in Nat /\ r.pos <= u /\ u < End(r)
  BY RangeUnits
<1>2. Sector \in Nat \ {0} /\ Total \in Nat
  BY SectorAssumption, TotalAssumption
<1>3. a \in Nat /\ a * Sector \in Nat /\ a * Sector <= r.pos /\ r.pos < a * Sector + Sector
  BY <1>1, <1>2, SectorOf
<1>4. e \in Nat /\ e = End(r) + Sector - 1
  BY <1>1, <1>2
<1>5. z \in Nat /\ z * Sector \in Nat /\ z * Sector <= e /\ e < z * Sector + Sector
  <2> HIDE DEF e
  <2> QED BY <1>2, <1>4, SectorOf
<1>6. x = [pos |-> a * Sector, size |-> z * Sector - a * Sector]
  BY DEF Snapped, Range1
<1> HIDE DEF a, z, e, x
<1>7. End(r) <= z * Sector
  BY <1>1, <1>2, <1>4, <1>5
<1>8. a * Sector < z * Sector
  BY <1>1, <1>3, <1>5, <1>7
<1>9. a < z
  <2>1. SUFFICES ASSUME z <= a PROVE FALSE
    BY <1>3, <1>5
  <2>2. z * Sector <= a * Sector
    BY <1>2, <1>3, <1>5, <2>1, Times
  <2> QED BY <1>3, <1>5, <1>8, <2>2
<1>10. x.pos = a * Sector /\ End(x) = z * Sector /\ x.size \in Nat
  BY <1>3, <1>5, <1>6, <1>8 DEF End
<1>11. \A u : u \in UnitsIn(x) <=> u \in Nat /\ a * Sector <= u /\ u < z * Sector
  <2>1. UnitsIn(x) = a * Sector..(z * Sector - 1)
    BY <1>10 DEF UnitsIn
  <2> QED BY <1>3, <1>5, <2>1
<1>12. UnitsIn(r) \subseteq UnitsIn(x)
  BY <1>1, <1>3, <1>5, <1>7, <1>11
<1>13. z * Sector <= Total
  <2> DEFINE t == Total \div Sector
  <2>1. t \in Nat /\ t * Sector = Total
    BY <1>2, TotalAssumption
  <2> HIDE DEF t
  <2>2. ~(t < z)
    <3>1. SUFFICES ASSUME t < z PROVE FALSE
      OBVIOUS
    <3>2. t * Sector + Sector <= z * Sector
      BY <1>5, <2>1, <3>1, Times
    <3> QED BY <1>1, <1>2, <1>4, <1>5, <2>1, <3>2
  <2>3. z < t \/ z = t
    BY <1>5, <2>1, <2>2
  <2>4. z < t => z * Sector + Sector <= t * Sector
    BY <1>5, <2>1, Times
  <2> QED BY <1>2, <1>5, <2>1, <2>3, <2>4
<1>14. ASSUME NEW k \in Nat, a <= k, k < z
       PROVE  \E u \in UnitsIn(r) : k * Sector <= u /\ u < k * Sector + Sector
  <2>1. k * Sector \in Nat /\ k * Sector + Sector <= z * Sector
    BY <1>5, <1>14, Times
  <2>2. CASE k = a
    <3>1. r.pos \in UnitsIn(r)
      BY <1>1
    <3> QED BY <1>3, <2>2, <3>1
  <2>3. CASE a < k
    <3>1. a * Sector + Sector <= k * Sector
      BY <1>3, <1>14, <2>3, Times
    <3>2. r.pos <= k * Sector /\ k * Sector < End(r)
      BY <1>1, <1>2, <1>3, <1>4, <1>5, <2>1, <3>1
    <3>3. k * Sector \in UnitsIn(r)
      BY <1>1, <2>1, <3>2
    <3> QED BY <1>2, <2>1, <3>3
  <2> QED BY <1>3, <1>14, <2>2, <2>3
<1>15. Sectors1(x, a, z)
  BY <1>10 DEF Sectors1
<1> QED BY <1>3, <1>5, <1>9, <1>10, <1>12, <1>13, <1>14, <1>15 DEF x
=============================================================================
