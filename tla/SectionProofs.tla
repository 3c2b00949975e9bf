--------------------------- MODULE SectionProofs ---------------------------
(* Proofs about Section: for any disc, any disjoint damaged ranges, any tiers
   of handlers and any limits, a patch pass reads only within its sections and
   accounts for every sector it was given.                                 *)
EXTENDS Section, FiniteSetTheorems, SequenceTheorems, TLAPS

Phases == {"over", "walk", "probe", "forward", "backward", "fast", "slow", "tried", "prime",
           "below", "target", "above", "again"}
PhasesOf == [linear     |-> {"walk", "over"},
             jump       |-> {"walk", "over"},
             bisect     |-> {"probe", "forward", "backward", "over"},
             speedsweep |-> {"fast", "slow", "tried", "over"},
             cacheprime |-> {"prime", "walk", "over"},
             oscillate  |-> {"below", "target", "above", "again", "over"}]
Warming == {"prime", "below", "above"}

Walks == [by: Handlers, runs: Seq(Spans), off: Nat, phase: Phases, fails: Nat, back: Nat,
          forth: Nat, step: Nat]

\* Ranges within a section; a cache-prime walk's have no bad sector before them.
RunsOK(by, runs, within, still) ==
    \A i \in DOMAIN runs :
        /\ SectorsOf(runs[i]) \subseteq within
        /\ by.technique = "cacheprime" => runs[i].pos - 1 \notin still

\* What a walk that reads stands on: its place in its first range, and the
\* island a bisection grows there.
StandsOK(w) ==
    LET r == Head(w.runs) IN
    /\ w.off < r.len
    /\ w.by.technique = "bisect" => w.off = 0
    /\ w.phase = "prime" => w.off = 0 /\ r.pos > 0
    /\ w.phase = "below" => r.pos + w.off > 0
    /\ w.phase = "above" => r.pos + w.off + 1 < Capacity
    /\ w.phase \in {"forward", "backward"} =>
          /\ r.pos <= w.back /\ w.back < w.forth /\ w.forth <= Beyond(r)
          /\ w.step \in 1..Batch
    /\ w.phase = "forward" => w.forth < Beyond(r)
    /\ w.phase = "backward" => r.pos < w.back

WalkOK(w, within, still) ==
    /\ w \in Walks
    /\ w.phase \in PhasesOf[w.by.technique]
    /\ w.phase \in {"over", "tried"} <=> w.runs = <<>>
    /\ RunsOK(w.by, w.runs, within, still)
    /\ w.runs # <<>> => StandsOK(w)

TypeInv ==
    /\ mode \in Modes /\ tier \in 1..LastTier /\ sec \in Sections
    /\ bad \in [Sections -> SUBSET (0..Capacity - 1)]
    /\ \A i \in Sections : bad[i] \subseteq SectorsOf(Ordered[i])
    /\ todo \subseteq Handlers /\ dead \in 0..Yield /\ wedge \in Nat
    /\ speed \in {"unset", "min", "max"} /\ stop \in BOOLEAN /\ latch \in BOOLEAN

\* Where the pass is, and what is settled there.
PcInv ==
    /\ pc \in {"enter", "chain", "handler", "leave", "ended"}
    /\ ended \in {"none", "complete", "halted", "wedged", "fatal", "stuck"}
    /\ ended = "none" <=> pc # "ended"
    /\ chain \in {"none", "remaining", "complete", "halted", "transport", "fatal"}
    /\ chain # "none" <=> pc = "leave"
    /\ pc # "handler" => speed \in {"max", "unset"}
    /\ wedge < WedgeAbort \/ chain = "transport" \/ ended \in {"wedged", "halted", "stuck"}
    /\ pc = "handler" => WalkOK(h, SectorsOf(Ordered[sec]), Bad)

\* Residue is of the sections the last tier has left, and all of theirs: a
\* section a pass ends in may have sent some of its own.
SentInv ==
    /\ residue \subseteq StillBad
    /\ tier < LastTier => residue = {}
    /\ \A i \in Sections : residue \cap SectorsOf(Ordered[i]) # {} =>
          i < sec \/ (i = sec /\ ended \notin {"none", "fatal"})
    /\ tier = LastTier => \A i \in Sections : i < sec => bad[i] \subseteq residue
    /\ ended = "complete" => tier = LastTier /\ StillBad \subseteq residue

\* Where the pass reports its progress, a section is left for the next one only
\* if no Stop was pressed in it: nothing was dropped by the sink.
DropInv == mode.reports /\ (pc = "enter" \/ ended = "complete") => All \ StillBad = written

IInv == TypeInv /\ PcInv /\ Claims /\ SentInv /\ DropInv

----------------------------------------------------------------------------
(* Numbers and finite sets. *)

Lower == {ss \in Nat \X Nat : ss[1] < ss[2]}

LEMMA LeastOf ==
    ASSUME NEW T \in SUBSET Nat, T # {}
    PROVE  \E x \in T : \A y \in T : x <= y
<1>1. IsWellFoundedOn(Lower, Nat)
  <2>1. OpToRel(<, Nat) = Lower
    BY DEF OpToRel, Lower
  <2> QED BY <2>1, NatLessThanWellFounded
<1>2. \E x \in T : \A y \in T : <<y, x>> \notin Lower
  BY <1>1, WFMin
<1>3. \A x, y \in Nat : <<y, x>> \in Lower <=> y < x
  BY DEF Lower
<1>4. \A x, y \in Nat : ~(y < x) <=> x <= y
  OBVIOUS
<1> QED BY <1>2, <1>3, <1>4

\* Distinct ranks from 1 to the size of a set are all taken.
LEMMA AllRanksTaken ==
    ASSUME NEW S, IsFiniteSet(S), NEW rank \in [S -> 1..Cardinality(S)],
           \A s, t \in S : rank[s] = rank[t] => s = t
    PROVE  \A k \in 1..Cardinality(S) : \E s \in S : rank[s] = k
<1>1. Cardinality(S) \in Nat
  BY FS_CardinalityType
<1>2. IsFiniteSet(1..Cardinality(S)) /\ Cardinality(1..Cardinality(S)) = Cardinality(S)
  BY <1>1, FS_Interval
<1>3. rank \in Injection(S, 1..Cardinality(S))
  BY DEF Injection, IsInjective
<1>4. rank \in Surjection(S, 1..Cardinality(S))
  BY <1>2, <1>3, FS_Injection
<1> QED BY <1>4 DEF Surjection

\* A rank that counts what is not after: it grows with the order.
LEMMA CountsGrow ==
    ASSUME NEW S, IsFiniteSet(S), NEW A \in SUBSET S, NEW B \in SUBSET S, A \subseteq B, A # B
    PROVE  Cardinality(A) < Cardinality(B) /\ Cardinality(B) <= Cardinality(S)
<1>1. IsFiniteSet(A) /\ IsFiniteSet(B) /\ Cardinality(B) <= Cardinality(S)
  BY FS_Subset
<1>2. Cardinality(A) <= Cardinality(B) /\ Cardinality(A) # Cardinality(B)
  BY <1>1, FS_Subset
<1>3. Cardinality(A) \in Nat /\ Cardinality(B) \in Nat
  BY <1>1, FS_CardinalityType
<1> QED BY <1>1, <1>2, <1>3

LEMMA NthFacts ==
    ASSUME NEW S \in SUBSET Nat, IsFiniteSet(S)
    PROVE  /\ \A k \in 1..Cardinality(S) : Nth(S, k) \in S
           /\ \A s \in S : \E k \in 1..Cardinality(S) : Nth(S, k) = s
<1> DEFINE UpTo(s) == {t \in S : t <= s}
           rank == [s \in S |-> Cardinality(UpTo(s))]
<1>1. \A s, t \in S : s < t => Cardinality(UpTo(s)) < Cardinality(UpTo(t))
  <2> TAKE s, t \in S
  <2> HAVE s < t
  <2>0. s \in Nat /\ t \in Nat /\ \A x \in S : x \in Nat
    OBVIOUS
  <2>1. UpTo(s) \subseteq UpTo(t) /\ t \in UpTo(t) /\ t \notin UpTo(s)
    <3>1. \A x \in Nat : x <= s => x <= t
      BY <2>0
    <3>2. t <= t /\ ~(t <= s)
      BY <2>0
    <3> QED BY <2>0, <3>1, <3>2
  <2>2. UpTo(s) \in SUBSET S /\ UpTo(t) \in SUBSET S /\ UpTo(s) # UpTo(t)
    BY <2>1
  <2> HIDE DEF UpTo
  <2> QED BY <2>1, <2>2, CountsGrow
<1>2. \A s \in S : Cardinality(UpTo(s)) \in 1..Cardinality(S)
  <2> TAKE s \in S
  <2>1. s \in UpTo(s) /\ UpTo(s) \in SUBSET S
    OBVIOUS
  <2> HIDE DEF UpTo
  <2>2. {} \in SUBSET S /\ {} \subseteq UpTo(s) /\ {} # UpTo(s)
    BY <2>1
  <2>3. Cardinality({}) < Cardinality(UpTo(s)) /\ Cardinality(UpTo(s)) <= Cardinality(S)
    BY <2>1, <2>2, CountsGrow
  <2>4. Cardinality(UpTo(s)) \in Nat /\ Cardinality(S) \in Nat
    BY <2>1, FS_Subset, FS_CardinalityType
  <2> QED BY <2>3, <2>4, FS_EmptySet
<1>3. rank \in [S -> 1..Cardinality(S)]
  BY <1>2
<1>4. \A s, t \in S : rank[s] = rank[t] => s = t
  <2> TAKE s, t \in S
  <2> HAVE rank[s] = rank[t]
  <2>1. Cardinality(UpTo(s)) \in Nat /\ Cardinality(UpTo(t)) = Cardinality(UpTo(s))
    BY <1>2
  <2> HIDE DEF UpTo
  <2>2. ~(s < t) /\ ~(t < s)
    BY <1>1, <2>1
  <2>3. s \in Nat /\ t \in Nat
    OBVIOUS
  <2> QED BY <2>2, <2>3
<1>5. \A k \in 1..Cardinality(S) : \E s \in S : rank[s] = k
  <2> HIDE DEF rank
  <2> QED BY <1>3, <1>4, AllRanksTaken
<1>6. \A k : Nth(S, k) = CHOOSE s \in S : Cardinality(UpTo(s)) = k
  BY DEF Nth
<1> HIDE DEF UpTo
<1>7. \A k \in 1..Cardinality(S) : Nth(S, k) \in S /\ rank[Nth(S, k)] = k
  BY <1>5, <1>6
<1>8. \A s \in S : Nth(S, rank[s]) = s
  BY <1>3, <1>4, <1>7
<1> QED BY <1>3, <1>7, <1>8

----------------------------------------------------------------------------
(* The sections, and the runs of a set of sectors. *)

LEMMA Limits ==
    /\ Capacity \in Nat \ {0} /\ Batch \in Nat \ {0} /\ JumpAfter \in Nat \ {0}
    /\ Yield \in Nat \ {0} /\ WedgeAbort \in Nat \ {0}
BY SectionAssumption

LEMMA DisjointRanges ==
    /\ Len(BadRanges) \in Nat \ {0} /\ DOMAIN BadRanges = 1..Len(BadRanges)
    /\ BadRanges \in [1..Len(BadRanges) -> Spans]
    /\ \A i \in DOMAIN BadRanges : SectorsOf(BadRanges[i]) \subseteq 0..Capacity - 1
    /\ \A i, j \in DOMAIN BadRanges :
          i # j => SectorsOf(BadRanges[i]) \cap SectorsOf(BadRanges[j]) = {}
<1>1. BadRanges \in Seq(Spans) /\ BadRanges # <<>>
  BY SectionAssumption
<1>2. /\ Len(BadRanges) \in Nat /\ DOMAIN BadRanges = 1..Len(BadRanges)
      /\ BadRanges \in [1..Len(BadRanges) -> Spans]
  BY <1>1
<1>3. Len(BadRanges) # 0
  BY <1>1
<1>4. ASSUME NEW i \in DOMAIN BadRanges PROVE SectorsOf(BadRanges[i]) \subseteq 0..Capacity - 1
  <2>1. BadRanges[i].pos \in Nat /\ BadRanges[i].len \in Nat
    BY <1>2 DEF Spans
  <2>2. Beyond(BadRanges[i]) <= Capacity
    BY SectionAssumption
  <2> QED BY <2>1, <2>2, Limits DEF SectorsOf, Beyond
<1> QED BY <1>2, <1>3, <1>4, SectionAssumption

\* Of two ranges of the map one is sooner.
LEMMA SoonerTotal ==
    ASSUME NEW i \in DOMAIN BadRanges, NEW j \in DOMAIN BadRanges, i # j
    PROVE  Sooner(BadRanges[i], BadRanges[j]) \/ Sooner(BadRanges[j], BadRanges[i])
<1> DEFINE a == BadRanges[i]
           b == BadRanges[j]
<1>1. a \in Spans /\ b \in Spans /\ SectorsOf(a) \cap SectorsOf(b) = {}
  BY DisjointRanges
<1> HIDE DEF a, b
<1>2. a.pos \in Nat /\ b.pos \in Nat /\ a.len \in Nat \ {0} /\ b.len \in Nat \ {0}
  BY <1>1 DEF Spans
<1>3. a.pos \in SectorsOf(a) /\ b.pos \in SectorsOf(b)
  BY <1>2 DEF SectorsOf, Beyond
<1>4. a.pos # b.pos
  BY <1>1, <1>3
<1>5. Sooner(a, b) \/ Sooner(b, a)
  BY <1>2, <1>4 DEF Sooner
<1> QED BY <1>5 DEF a, b

LEMMA OrderedFacts ==
    /\ Sections = 1..Len(BadRanges) /\ Len(Ordered) = Len(BadRanges) /\ Len(Ordered) \in Nat \ {0}
    /\ \A k \in Sections : Ordered[k] \in Spans /\ SectorsOf(Ordered[k]) \subseteq 0..Capacity - 1
    /\ \A k, l \in Sections : k # l => SectorsOf(Ordered[k]) \cap SectorsOf(Ordered[l]) = {}
<1> DEFINE D == DOMAIN BadRanges
           NotAfter(i) == {j \in D : ~Sooner(BadRanges[i], BadRanges[j])}
           rank == [i \in D |-> Cardinality(NotAfter(i))]
<1>1. /\ Len(BadRanges) \in Nat \ {0} /\ D = 1..Len(BadRanges)
      /\ \A i \in D : BadRanges[i] \in Spans
  BY DisjointRanges
<1>2. IsFiniteSet(D) /\ Cardinality(D) = Len(BadRanges)
  BY <1>1, FS_Interval
<1>3. \A i \in D : NotAfter(i) \in SUBSET D
  OBVIOUS
<1>4. ASSUME NEW i \in D, NEW j \in D, Sooner(BadRanges[i], BadRanges[j])
      PROVE  Cardinality(NotAfter(i)) < Cardinality(NotAfter(j))
  <2>1. j \in NotAfter(j) /\ j \notin NotAfter(i)
    <3>1. ~Sooner(BadRanges[j], BadRanges[j])
      BY <1>1 DEF Sooner, Spans
    <3> QED BY <1>4, <3>1
  <2>2. ASSUME NEW k \in NotAfter(i) PROVE k \in NotAfter(j)
    <3>1. k = i \/ Sooner(BadRanges[k], BadRanges[i])
      BY SoonerTotal
    <3>2. ~Sooner(BadRanges[j], BadRanges[k])
      <4> DEFINE a == BadRanges[i]
                 b == BadRanges[j]
                 c == BadRanges[k]
      <4>1. a \in Spans /\ b \in Spans /\ c \in Spans
        BY <1>1
      <4>2. (c = a \/ Sooner(c, a)) /\ Sooner(a, b)
        BY <1>4, <3>1
      <4> HIDE DEF a, b, c
      <4>3. ~Sooner(b, c)
        BY <4>1, <4>2 DEF Sooner, Spans
      <4> QED BY <4>3 DEF b, c
    <3> QED BY <3>2
  <2>3. NotAfter(i) \subseteq NotAfter(j) /\ NotAfter(i) # NotAfter(j)
    BY <2>1, <2>2
  <2> HIDE DEF NotAfter, D
  <2> QED BY <1>2, <1>3, <2>3, CountsGrow
<1>5. \A i \in D : Cardinality(NotAfter(i)) \in 1..Cardinality(D)
  <2> TAKE i \in D
  <2>1. i \in NotAfter(i)
    BY <1>1 DEF Sooner, Spans
  <2> HIDE DEF NotAfter, D
  <2>2. {} \in SUBSET D /\ {} \subseteq NotAfter(i) /\ {} # NotAfter(i) /\ NotAfter(i) \in SUBSET D
    BY <1>3, <2>1
  <2>3. Cardinality({}) < Cardinality(NotAfter(i)) /\ Cardinality(NotAfter(i)) <= Cardinality(D)
    BY <1>2, <2>2, CountsGrow
  <2>4. Cardinality(NotAfter(i)) \in Nat /\ Cardinality(D) \in Nat
    BY <1>2, <2>2, FS_Subset, FS_CardinalityType
  <2> QED BY <2>3, <2>4, FS_EmptySet
<1>6. rank \in [D -> 1..Cardinality(D)]
  BY <1>5
<1>7. \A i, j \in D : rank[i] = rank[j] => i = j
  <2> TAKE i, j \in D
  <2> HAVE rank[i] = rank[j]
  <2>1. Cardinality(NotAfter(i)) \in Nat /\ Cardinality(NotAfter(j)) = Cardinality(NotAfter(i))
    BY <1>5
  <2> HIDE DEF NotAfter
  <2>2. ~Sooner(BadRanges[i], BadRanges[j]) /\ ~Sooner(BadRanges[j], BadRanges[i])
    BY <1>4, <2>1
  <2> QED BY <2>2, SoonerTotal
<1>8. \A k \in 1..Cardinality(D) : \E i \in D : rank[i] = k
  <2> HIDE DEF rank, D
  <2> QED BY <1>2, <1>6, <1>7, AllRanksTaken
<1>9. \A i \in D : Place(i) = rank[i]
  BY DEF Place
<1> DEFINE from(k) == CHOOSE i \in D : Place(i) = k
<1>10. \A k \in D : from(k) \in D /\ rank[from(k)] = k
  <2> HIDE DEF rank
  <2> QED BY <1>1, <1>2, <1>8, <1>9
<1>11. Ordered = [k \in D |-> BadRanges[from(k)]]
  BY DEF Ordered
<1> HIDE DEF rank, from, NotAfter, D
<1>12. Sections = D /\ \A k \in D : Ordered[k] = BadRanges[from(k)]
  BY <1>11 DEF Sections
<1>13. Len(Ordered) = Len(BadRanges)
  BY <1>1, <1>11
<1>14. \A k, l \in D : k # l => from(k) # from(l)
  BY <1>10
<1> QED BY <1>1, <1>10, <1>12, <1>13, <1>14, DisjointRanges DEF D

\* A sector of a set begins a run that ends before a sector outside.
LEMMA RunAtFacts ==
    ASSUME NEW S \in SUBSET (0..Capacity - 1), NEW s \in S
    PROVE  /\ RunAt(S, s) \in Spans /\ RunAt(S, s).pos = s
           /\ SectorsOf(RunAt(S, s)) \subseteq S /\ Beyond(RunAt(S, s)) \notin S
<1> DEFINE T == {n \in Nat : s + n \notin S}
<1>1. s \in Nat /\ s < Capacity /\ Capacity \in Nat /\ \A t \in S : t \in Nat /\ t < Capacity
  BY Limits
<1>2. Capacity \in T /\ 0 \notin T
  BY <1>1
<1>3. PICK n \in T : \A m \in T : n <= m
  BY <1>2, LeastOf
<1>4. n \in 1..Capacity /\ s + n \notin S
  BY <1>1, <1>2, <1>3
<1>5. s..(s + n - 1) \subseteq S
  <2> SUFFICES ASSUME NEW t \in s..(s + n - 1) PROVE t \in S
    OBVIOUS
  <2>1. t - s \in Nat /\ t - s < n /\ s + (t - s) = t
    BY <1>1, <1>4
  <2>2. t - s \notin T
    BY <1>3, <1>4, <2>1
  <2> QED BY <2>1, <2>2
<1> DEFINE m == CHOOSE n_1 \in 1..Capacity : s + n_1 \notin S /\ s..(s + n_1 - 1) \subseteq S
<1>6. m \in 1..Capacity /\ s + m \notin S /\ s..(s + m - 1) \subseteq S
  BY <1>4, <1>5
<1>7. RunAt(S, s) = Span(s, m)
  BY DEF RunAt
<1> HIDE DEF m
<1> QED BY <1>1, <1>6, <1>7 DEF Span, Spans, SectorsOf, Beyond

\* The runs of a set are its sectors, and nothing of it is before a run.
LEMMA RunsFacts ==
    ASSUME NEW S \in SUBSET (0..Capacity - 1)
    PROVE  /\ Runs(S) \in Seq(Spans)
           /\ \A i \in DOMAIN Runs(S) : /\ SectorsOf(Runs(S)[i]) \subseteq S
                                        /\ Runs(S)[i].pos - 1 \notin S
           /\ \A t \in S : \E i \in DOMAIN Runs(S) : t \in SectorsOf(Runs(S)[i])
           /\ Len(Runs(S)) \in Nat /\ DOMAIN Runs(S) = 1..Len(Runs(S))
<1> DEFINE firsts == {s \in S : s - 1 \notin S}
<1>1. firsts \in SUBSET S /\ firsts \in SUBSET Nat /\ IsFiniteSet(firsts)
  <2>1. IsFiniteSet(0..Capacity - 1)
    BY Limits, FS_Interval
  <2>2. firsts \in SUBSET (0..Capacity - 1)
    OBVIOUS
  <2>3. IsFiniteSet(firsts)
    BY <2>1, <2>2, FS_Subset
  <2> QED BY <2>2, <2>3, Limits
<1>2. Runs(S) = [i \in 1..Cardinality(firsts) |-> RunAt(S, Nth(firsts, i))]
  BY DEF Runs
<1>3. \A s \in firsts : s \in S /\ s - 1 \notin S
  OBVIOUS
<1>4. ASSUME NEW t \in S PROVE \E s \in firsts : s <= t /\ s..t \subseteq S
  <2> DEFINE T == {d \in Nat : t - d - 1 \notin S}
  <2>1. t \in Nat /\ \A u \in S : u \in Nat
    BY Limits
  <2>2. t \in T
    <3>1. t - t - 1 \notin Nat
      BY <2>1
    <3> QED BY <2>1, <3>1
  <2>3. PICK d \in T : \A e \in T : d <= e
    <3>1. T \in SUBSET Nat /\ T # {}
      BY <2>2
    <3> HIDE DEF T
    <3> QED BY <3>1, LeastOf
  <2>4. d \in Nat /\ d <= t /\ t - d - 1 \notin S
    BY <2>2, <2>3
  <2>5. (t - d)..t \subseteq S
    <3> SUFFICES ASSUME NEW u \in (t - d)..t PROVE u \in S
      OBVIOUS
    <3>1. CASE u = t
      BY <3>1
    <3>2. CASE u < t
      <4>1. t - u - 1 \in Nat /\ t - u - 1 < d /\ t - (t - u - 1) - 1 = u
        BY <2>1, <2>4, <3>2
      <4>2. t - u - 1 \notin T
        BY <2>3, <2>4, <4>1
      <4> QED BY <4>1, <4>2
    <3> QED BY <2>1, <2>4, <3>1, <3>2
  <2>6. t - d \in (t - d)..t /\ t - d <= t
    BY <2>1, <2>4
  <2>7. t - d \in firsts
    BY <2>4, <2>5, <2>6
  <2> QED BY <2>5, <2>6, <2>7
<1> HIDE DEF firsts
<1>5. /\ \A k \in 1..Cardinality(firsts) : Nth(firsts, k) \in firsts
      /\ \A s \in firsts : \E k \in 1..Cardinality(firsts) : Nth(firsts, k) = s
  BY <1>1, NthFacts
<1>6. Cardinality(firsts) \in Nat
  BY <1>1, FS_CardinalityType
<1>7. \A s \in S : /\ RunAt(S, s) \in Spans /\ RunAt(S, s).pos = s
                   /\ SectorsOf(RunAt(S, s)) \subseteq S /\ Beyond(RunAt(S, s)) \notin S
  BY RunAtFacts
<1>8. Runs(S) \in Seq(Spans) /\ Len(Runs(S)) = Cardinality(firsts)
  <2>1. \A i \in 1..Cardinality(firsts) : RunAt(S, Nth(firsts, i)) \in Spans
    BY <1>1, <1>5, <1>7
  <2>2. Runs(S) \in [1..Cardinality(firsts) -> Spans]
    BY <1>2, <2>1
  <2> QED BY <1>6, <2>2
<1>9. \A i \in 1..Cardinality(firsts) : /\ SectorsOf(Runs(S)[i]) \subseteq S
                                        /\ Runs(S)[i].pos - 1 \notin S
  BY <1>1, <1>2, <1>3, <1>5, <1>7
<1>10. ASSUME NEW t \in S PROVE \E i \in 1..Cardinality(firsts) : t \in SectorsOf(Runs(S)[i])
  <2>1. PICK s \in firsts : s <= t /\ s..t \subseteq S
    BY <1>4
  <2>2. PICK k \in 1..Cardinality(firsts) : Nth(firsts, k) = s
    BY <1>5
  <2> DEFINE r == RunAt(S, s)
  <2>3. r \in Spans /\ r.pos = s /\ Beyond(r) \notin S /\ Runs(S)[k] = r
    BY <1>1, <1>2, <1>7, <2>2
  <2> HIDE DEF r
  <2>4. r.len \in Nat \ {0} /\ s \in Nat /\ t \in Nat /\ Beyond(r) = s + r.len
    BY <1>1, <2>3, Limits DEF Spans, Beyond
  <2>5. ~(s + r.len <= t)
    BY <2>1, <2>3, <2>4
  <2>6. t \in SectorsOf(r)
    BY <2>1, <2>3, <2>4, <2>5 DEF SectorsOf
  <2> QED BY <2>3, <2>6
<1> QED BY <1>2, <1>6, <1>8, <1>9, <1>10

----------------------------------------------------------------------------
(* A handler's walk stays in its ranges. *)

LEMMA WalkFacts ==
    ASSUME NEW w, NEW within, NEW still, WalkOK(w, within, still), w.runs # <<>>
    PROVE  /\ w \in Walks /\ w.by \in Handlers /\ w.by.technique \in Techniques
           /\ w.runs \in Seq(Spans) /\ Head(w.runs) \in Spans /\ Tail(w.runs) \in Seq(Spans)
           /\ Head(w.runs).pos \in Nat /\ Head(w.runs).len \in Nat \ {0}
           /\ Beyond(Head(w.runs)) = Head(w.runs).pos + Head(w.runs).len
           /\ w.off \in Nat /\ w.off < Head(w.runs).len
           /\ w.back \in Nat /\ w.forth \in Nat /\ w.step \in Nat /\ w.fails \in Nat
           /\ SectorsOf(Head(w.runs)) \subseteq within
           /\ RunsOK(w.by, Tail(w.runs), within, still)
           /\ StandsOK(w) /\ w.phase \in PhasesOf[w.by.technique] \ {"over", "tried"}
<1>1. w \in Walks /\ StandsOK(w) /\ RunsOK(w.by, w.runs, within, still)
      /\ w.phase \in PhasesOf[w.by.technique] \ {"over", "tried"}
  BY DEF WalkOK
<1>2. /\ w.by \in Handlers /\ w.runs \in Seq(Spans) /\ w.off \in Nat
      /\ w.back \in Nat /\ w.forth \in Nat /\ w.step \in Nat /\ w.fails \in Nat
  BY <1>1 DEF Walks
<1>3. /\ Head(w.runs) \in Spans /\ Tail(w.runs) \in Seq(Spans) /\ Head(w.runs) = w.runs[1]
      /\ 1 \in DOMAIN w.runs /\ DOMAIN Tail(w.runs) = 1..(Len(w.runs) - 1)
      /\ \A i \in 1..(Len(w.runs) - 1) : Tail(w.runs)[i] = w.runs[i + 1] /\ i + 1 \in DOMAIN w.runs
  BY <1>2
<1>4. SectorsOf(Head(w.runs)) \subseteq within /\ RunsOK(w.by, Tail(w.runs), within, still)
  BY <1>1, <1>3 DEF RunsOK
<1>5. w.off < Head(w.runs).len
  BY <1>1 DEF StandsOK
<1>6. w.by.technique \in Techniques
  BY <1>2 DEF Handlers
<1> QED BY <1>1, <1>2, <1>3, <1>4, <1>5, <1>6 DEF Spans, Beyond

LEMMA AtOK ==
    ASSUME NEW by \in Handlers, NEW runs \in Seq(Spans), NEW off \in Nat, NEW within, NEW still,
           RunsOK(by, runs, within, still),
           runs # <<>> => off < Head(runs).len,
           by.technique = "bisect" => off = 0
    PROVE  /\ WalkOK(At(by, runs, off), within, still)
           /\ At(by, runs, off).by = by /\ At(by, runs, off).runs = runs
           /\ At(by, runs, off).off = off
<1> DEFINE w == At(by, runs, off)
           first == FirstPhase(by, runs, off)
<1>1. /\ w.by = by /\ w.runs = runs /\ w.off = off /\ w.phase = first
      /\ w.fails = 0 /\ w.back = 0 /\ w.forth = 0 /\ w.step = 0
  BY DEF At
<1>2. by.technique \in Techniques
  BY DEF Handlers
<1>3. CASE runs = <<>>
  <2>1. first = "over"
    BY <1>3 DEF FirstPhase
  <2>2. "over" \in PhasesOf[by.technique]
    BY <1>2 DEF Techniques, PhasesOf
  <2>3. w \in Walks
    BY <2>1 DEF At, Walks, Phases
  <2> HIDE DEF w, first
  <2> QED BY <1>1, <1>3, <2>1, <2>2, <2>3 DEF WalkOK, w
<1>4. CASE runs # <<>>
  <2>1. /\ first \in PhasesOf[by.technique] \ {"over", "tried", "above", "forward", "backward"}
        /\ first = "prime" => off = 0 /\ Head(runs).pos > 0
        /\ first = "below" => Head(runs).pos + off > 0
    BY <1>2, <1>4 DEF FirstPhase, Techniques, PhasesOf
  <2>2. first \in Phases
    BY <1>2, <2>1 DEF Techniques, PhasesOf, Phases
  <2> HIDE DEF first
  <2>3. w \in Walks
    BY <2>2 DEF At, Walks, first
  <2> HIDE DEF w
  <2>4. StandsOK(w)
    BY <1>1, <1>4, <2>1 DEF StandsOK
  <2> QED BY <1>1, <1>4, <2>1, <2>3, <2>4 DEF WalkOK, w
<1> QED BY <1>1, <1>3, <1>4

LEMMA StartedOK ==
    ASSUME NEW within, Bad \in SUBSET (0..Capacity - 1), Bad \subseteq within, NEW by \in Handlers
    PROVE  WalkOK(Started(by), within, Bad)
<1> DEFINE runs == Runs(Bad)
           taken == IF by.reverse \/ by.technique = "bisect" THEN Reverse(runs) ELSE runs
<1>1. /\ runs \in Seq(Spans) /\ DOMAIN runs = 1..Len(runs) /\ Len(runs) \in Nat
      /\ \A i \in DOMAIN runs : SectorsOf(runs[i]) \subseteq Bad /\ runs[i].pos - 1 \notin Bad
  BY RunsFacts
<1> HIDE DEF runs
<1>2. /\ Reverse(runs) \in Seq(Spans) /\ Len(Reverse(runs)) = Len(runs)
      /\ \A i \in 1..Len(runs) : Reverse(runs)[i] = runs[Len(runs) - i + 1]
  <2>1. \A i \in 1..Len(runs) : runs[Len(runs) - i + 1] \in Spans /\ Len(runs) - i + 1 \in DOMAIN runs
    BY <1>1
  <2>2. Reverse(runs) = [i \in 1..Len(runs) |-> runs[Len(runs) - i + 1]]
    BY DEF Reverse
  <2>3. Reverse(runs) \in [1..Len(runs) -> Spans]
    BY <2>1, <2>2
  <2> QED BY <1>1, <2>2, <2>3
<1>3. taken \in Seq(Spans) /\ \A i \in DOMAIN taken : \E j \in DOMAIN runs : taken[i] = runs[j]
  <2>1. \A i \in 1..Len(runs) : Len(runs) - i + 1 \in 1..Len(runs)
    BY <1>1
  <2>2. DOMAIN Reverse(runs) = 1..Len(runs)
    BY <1>2
  <2> QED BY <1>1, <1>2, <2>1, <2>2
<1>4. Started(by) = At(by, taken, 0)
  BY DEF Started, runs
<1> HIDE DEF taken
<1>5. RunsOK(by, taken, within, Bad)
  BY <1>1, <1>3 DEF RunsOK
<1>6. taken # <<>> => Head(taken) \in Spans
  BY <1>3
<1>7. taken # <<>> => 0 < Head(taken).len
  BY <1>6 DEF Spans
<1> QED BY <1>3, <1>4, <1>5, <1>7, AtOK

LEMMA WithinRange ==
    ASSUME NEW r, NEW w, r.pos \in Nat, r.len \in Nat, w.pos \in Nat, w.len \in Nat,
           r.pos <= w.pos, w.pos + w.len <= r.pos + r.len
    PROVE  SectorsOf(w) \subseteq SectorsOf(r)
BY DEF SectorsOf, Beyond

LEMMA OneSector ==
    ASSUME NEW w, w.pos \in Nat, w.len = 1
    PROVE  SectorsOf(w) = {w.pos}
BY DEF SectorsOf, Beyond

\* What a walk reads is within its section; a read that only warms the drive is
\* on the disc.
LEMMA WantedFacts ==
    ASSUME NEW within \in SUBSET (0..Capacity - 1), NEW still, WalkOK(h, within, still),
           h.runs # <<>>
    PROVE  /\ Wanted.pos \in Nat /\ Wanted.len \in 1..Batch
           /\ SectorsOf(Wanted) \subseteq 0..Capacity - 1
           /\ h.phase \notin Warming => SectorsOf(Wanted) \subseteq within
           /\ h.phase \in Warming => SectorsOf(Wanted) = {Wanted.pos}
           /\ h.phase = "prime" => Wanted.pos \notin still
           /\ h.phase \in {"target", "again", "fast", "slow"} => Wanted.len = 1
           /\ h.phase = "walk" => Wanted.len = Least(Batch, Head(h.runs).len - h.off)
           /\ h.phase = "probe" => /\ Wanted.len = 1 /\ Head(h.runs).pos <= Wanted.pos
                                   /\ Wanted.pos < Beyond(Head(h.runs))
           /\ h.phase = "forward" => Wanted.pos = h.forth /\ Beyond(Wanted) <= Beyond(Head(h.runs))
           /\ h.phase = "backward" => Beyond(Wanted) = h.back /\ Head(h.runs).pos <= Wanted.pos
<1> DEFINE r == Head(h.runs)
           n == Least(Batch, r.len - h.off)
<1>1. /\ r.pos \in Nat /\ r.len \in Nat \ {0} /\ Beyond(r) = r.pos + r.len
      /\ h.off \in Nat /\ h.off < r.len /\ h.back \in Nat /\ h.forth \in Nat /\ h.step \in Nat
      /\ SectorsOf(r) \subseteq within /\ StandsOK(h)
      /\ h.by.technique \in Techniques /\ h.phase \in PhasesOf[h.by.technique] \ {"over", "tried"}
  BY WalkFacts
<1>2. h.runs \in Seq(Spans) /\ RunsOK(h.by, h.runs, within, still)
  BY DEF WalkOK, Walks
<1>3. within \subseteq 0..Capacity - 1 /\ 1 \in 1..Batch
  BY Limits
<1> HIDE DEF r
<1>4. r.pos + r.len <= Capacity
  <2>1. r.pos + r.len - 1 \in SectorsOf(r)
    BY <1>1 DEF SectorsOf
  <2>2. r.pos + r.len - 1 \in 0..Capacity - 1
    BY <1>1, <1>3, <2>1
  <2> QED BY <1>1, <2>2, Limits
<1>5. n \in 1..Batch /\ h.off + n <= r.len
  BY <1>1, Limits DEF Least
<1>6. CASE h.phase = "walk"
  <2>1. /\ Wanted.len = n /\ Wanted.pos = IF h.by.reverse THEN Beyond(r) - h.off - n ELSE r.pos + h.off
    BY <1>6 DEF Wanted, r, Span
  <2> HIDE DEF n
  <2>2. /\ Wanted.pos \in Nat /\ r.pos <= Wanted.pos /\ Wanted.pos + Wanted.len <= r.pos + r.len
    BY <1>1, <1>5, <2>1
  <2>3. SectorsOf(Wanted) \subseteq within
    BY <1>1, <1>5, <2>1, <2>2, WithinRange
  <2> QED BY <1>3, <1>5, <1>6, <2>1, <2>2, <2>3 DEF Warming, n, r
<1> HIDE DEF n
<1>7. CASE h.phase \in {"fast", "slow", "target", "again"}
  <2>1. Wanted.len = 1 /\ Wanted.pos = r.pos + h.off
    BY <1>7 DEF Wanted, r, Span
  <2>2. Wanted.pos \in Nat /\ r.pos <= Wanted.pos /\ Wanted.pos + 1 <= r.pos + r.len
    BY <1>1, <2>1
  <2>3. SectorsOf(Wanted) \subseteq within
    BY <1>1, <2>1, <2>2, WithinRange
  <2> QED BY <1>3, <1>7, <2>1, <2>2, <2>3 DEF Warming
<1>8. CASE h.phase \in {"prime", "below"}
  <2>1. Wanted.len = 1 /\ Wanted.pos = r.pos + h.off - 1
    <3>1. Wanted.len = 1 /\ Wanted.pos = (r.pos + h.off) - 1
      BY <1>8 DEF Wanted, r, Span
    <3> QED BY <1>1, <3>1 DEF r
  <2>2. r.pos + h.off > 0
    BY <1>1, <1>8 DEF StandsOK, r
  <2>3. Wanted.pos \in 0..Capacity - 1
    BY <1>1, <1>4, <2>1, <2>2, Limits
  <2>4. SectorsOf(Wanted) = {Wanted.pos}
    BY <2>1, <2>3, Limits DEF SectorsOf, Beyond
  <2>5. h.phase = "prime" => Wanted.pos \notin still
    <3>1. SUFFICES ASSUME h.phase = "prime" PROVE Wanted.pos \notin still
      OBVIOUS
    <3>2. h.by.technique = "cacheprime"
      BY <1>1, <3>1 DEF Techniques, PhasesOf
    <3>3. h.off = 0 /\ Wanted.pos = r.pos - 1
      BY <1>1, <2>1, <3>1 DEF StandsOK
    <3>4. r = h.runs[1] /\ 1 \in DOMAIN h.runs
      BY <1>2 DEF r
    <3> QED BY <1>2, <3>2, <3>3, <3>4 DEF RunsOK
  <2> QED BY <1>8, <2>1, <2>3, <2>4, <2>5, Limits DEF Warming
<1>9. CASE h.phase = "above"
  <2>1. Wanted.len = 1 /\ Wanted.pos = r.pos + h.off + 1
    BY <1>9 DEF Wanted, r, Span
  <2>2. r.pos + h.off + 1 < Capacity
    BY <1>1, <1>9 DEF StandsOK, r
  <2>3. Wanted.pos \in 0..Capacity - 1
    BY <1>1, <2>1, <2>2, Limits
  <2>4. SectorsOf(Wanted) = {Wanted.pos}
    BY <2>1, <2>3, Limits DEF SectorsOf, Beyond
  <2> QED BY <1>9, <2>1, <2>3, <2>4, Limits DEF Warming
<1>10. CASE h.phase = "probe"
  <2>1. Wanted.len = 1 /\ Wanted.pos = r.pos + r.len \div 2
    BY <1>10 DEF Wanted, r, Span
  <2>2. r.len \div 2 \in Nat /\ r.len \div 2 < r.len
    BY <1>1
  <2>3. Wanted.pos \in Nat /\ r.pos <= Wanted.pos /\ Wanted.pos < r.pos + r.len
    BY <1>1, <2>1, <2>2
  <2>4. SectorsOf(Wanted) \subseteq within
    BY <1>1, <2>1, <2>3, WithinRange
  <2> QED BY <1>1, <1>3, <1>10, <2>1, <2>3, <2>4 DEF Warming, r
<1>11. CASE h.phase = "forward"
  <2>1. Wanted.pos = h.forth /\ Wanted.len = Least(h.step, Beyond(r) - h.forth)
    BY <1>11 DEF Wanted, r, Span
  <2>2. r.pos <= h.back /\ h.back < h.forth /\ h.forth < Beyond(r) /\ h.step \in 1..Batch
    BY <1>1, <1>11 DEF StandsOK, r
  <2>3. /\ Wanted.len \in 1..Batch /\ r.pos <= Wanted.pos /\ Wanted.pos \in Nat
        /\ Wanted.pos + Wanted.len <= r.pos + r.len
    BY <1>1, <2>1, <2>2, Limits DEF Least
  <2>4. SectorsOf(Wanted) \subseteq within
    BY <1>1, <2>3, WithinRange
  <2> QED BY <1>1, <1>3, <1>11, <2>1, <2>3, <2>4 DEF Warming, Beyond, r
<1>12. CASE h.phase = "backward"
  <2> DEFINE k == Least(h.step, h.back - r.pos)
  <2>1. Wanted.pos = h.back - k /\ Wanted.len = k
    BY <1>12 DEF Wanted, r, Span
  <2>2. r.pos < h.back /\ h.back < h.forth /\ h.forth <= Beyond(r) /\ h.step \in 1..Batch
    BY <1>1, <1>12 DEF StandsOK, r
  <2>3. k \in 1..Batch /\ k <= h.back - r.pos
    BY <1>1, <2>2, Limits DEF Least
  <2> HIDE DEF k
  <2>4. /\ Wanted.len \in 1..Batch /\ r.pos <= Wanted.pos /\ Wanted.pos \in Nat
        /\ Wanted.pos + Wanted.len = h.back /\ h.back <= r.pos + r.len
    <3>1. Wanted.len \in 1..Batch
      BY <2>1, <2>3
    <3>2. h.back <= r.pos + r.len
      <4>1. h.back < h.forth /\ h.forth <= r.pos + r.len
        BY <1>1, <2>2
      <4> QED BY <1>1, <4>1
    <3>3. k \in Nat /\ r.pos \in Nat /\ h.back \in Nat /\ k <= h.back - r.pos
      BY <1>1, <2>3, Limits
    <3>4. /\ r.pos <= h.back - k /\ h.back - k \in Nat
          /\ (h.back - k) + k = h.back
      BY <3>3
    <3> QED BY <2>1, <3>1, <3>2, <3>4
  <2>5. SectorsOf(Wanted) \subseteq within
    BY <1>1, <2>4, WithinRange
  <2> QED BY <1>1, <1>3, <1>12, <2>1, <2>4, <2>5 DEF Warming, Beyond, r
<1>13. h.phase \in {"walk", "fast", "slow", "target", "again", "prime", "below", "above", "probe",
                    "forward", "backward"}
  BY <1>1 DEF Techniques, PhasesOf
<1> QED BY <1>6, <1>7, <1>8, <1>9, <1>10, <1>11, <1>12, <1>13

LEMMA PhaseOK ==
    ASSUME NEW w, NEW within, NEW still, WalkOK(w, within, still), w.runs # <<>>,
           NEW phase \in {"walk", "slow", "target", "above", "again"},
           phase \in PhasesOf[w.by.technique],
           phase = "above" => Head(w.runs).pos + w.off + 1 < Capacity,
           NEW v, v = [w EXCEPT !.phase = phase]
    PROVE  WalkOK(v, within, still)
<1>1. /\ v \in Walks /\ v.by = w.by /\ v.runs = w.runs /\ v.off = w.off /\ v.phase = phase
  <2>1. w \in Walks
    BY DEF WalkOK
  <2> QED BY <2>1 DEF Walks, Phases
<1>2. RunsOK(w.by, w.runs, within, still) /\ StandsOK(w)
  BY DEF WalkOK
<1>3. StandsOK(v)
  BY <1>1, <1>2 DEF StandsOK
<1> QED BY <1>1, <1>2, <1>3 DEF WalkOK

LEMMA MovedOK ==
    ASSUME NEW within, NEW still, WalkOK(h, within, still), h.runs # <<>>, NEW n \in Nat,
           h.by.technique # "bisect"
    PROVE  WalkOK(Moved(n), within, still) /\ Moved(n).by = h.by
<1>1. /\ h.by \in Handlers /\ h.runs \in Seq(Spans) /\ Tail(h.runs) \in Seq(Spans)
      /\ h.off \in Nat /\ Head(h.runs).len \in Nat
      /\ RunsOK(h.by, Tail(h.runs), within, still)
  BY WalkFacts
<1>2. RunsOK(h.by, h.runs, within, still)
  BY DEF WalkOK
<1>3. CASE h.off + n < Head(h.runs).len
  <2>1. Moved(n) = At(h.by, h.runs, h.off + n) /\ h.off + n \in Nat
    BY <1>1, <1>3 DEF Moved
  <2> QED BY <1>1, <1>2, <1>3, <2>1, AtOK
<1>4. CASE ~(h.off + n < Head(h.runs).len)
  <2>1. Moved(n) = At(h.by, Tail(h.runs), 0)
    BY <1>4 DEF Moved
  <2>2. Tail(h.runs) # <<>> => Head(Tail(h.runs)) \in Spans
    BY <1>1
  <2>3. Tail(h.runs) # <<>> => 0 < Head(Tail(h.runs)).len
    BY <2>2 DEF Spans
  <2> DEFINE rest == Tail(h.runs)
  <2>4. /\ rest \in Seq(Spans) /\ h.by \in Handlers /\ 0 \in Nat
        /\ RunsOK(h.by, rest, within, still) /\ (rest # <<>> => 0 < Head(rest).len)
    BY <1>1, <2>3
  <2> HIDE DEF rest
  <2>5. WalkOK(At(h.by, rest, 0), within, still) /\ At(h.by, rest, 0).by = h.by
    BY <2>4, AtOK
  <2> QED BY <2>1, <2>5 DEF rest
<1> QED BY <1>3, <1>4

LEMMA WalkedOK ==
    ASSUME NEW within \in SUBSET (0..Capacity - 1), NEW still, WalkOK(h, within, still),
           h.runs # <<>>, h.phase = "walk", NEW good \in BOOLEAN
    PROVE  WalkOK(Walked(good), within, still)
<1>1. /\ h.by.technique \in Techniques /\ h.phase \in PhasesOf[h.by.technique]
      /\ h.off \in Nat /\ Head(h.runs).len \in Nat \ {0} /\ h.off < Head(h.runs).len
      /\ h.fails \in Nat
  BY WalkFacts
<1>2. h.by.technique # "bisect"
  BY <1>1 DEF Techniques, PhasesOf
<1>3. Wanted.len \in Nat
  BY WantedFacts, Limits
<1>4. WalkOK(Moved(Wanted.len), within, still)
  BY <1>2, <1>3, MovedOK
<1>5. CASE Walked(good) = Moved(Wanted.len)
  BY <1>4, <1>5
<1> DEFINE half == Most((Head(h.runs).len - h.off) \div 2, 1)
<1>6. CASE Walked(good) = Moved(half)
  <2>1. half \in Nat
    BY <1>1 DEF Most
  <2> HIDE DEF half
  <2> QED BY <1>2, <1>6, <2>1, MovedOK
<1>7. CASE Walked(good) = [Moved(Wanted.len) EXCEPT !.fails = h.fails + 1]
  <2> DEFINE w == Moved(Wanted.len)
             v == [w EXCEPT !.fails = h.fails + 1]
  <2>1. w \in Walks /\ WalkOK(w, within, still)
    BY <1>4 DEF WalkOK
  <2> HIDE DEF w
  <2>2. /\ v \in Walks /\ v.by = w.by /\ v.runs = w.runs /\ v.off = w.off /\ v.phase = w.phase
        /\ v.back = w.back /\ v.forth = w.forth /\ v.step = w.step
    BY <1>1, <2>1 DEF Walks
  <2> HIDE DEF v
  <2>3. StandsOK(w) => StandsOK(v)
    BY <2>2 DEF StandsOK
  <2>4. WalkOK(v, within, still)
    BY <2>1, <2>2, <2>3 DEF WalkOK
  <2> QED BY <1>7, <2>4 DEF v, w
<1>8. \/ Walked(good) = Moved(Wanted.len) \/ Walked(good) = Moved(half)
      \/ Walked(good) = [Moved(Wanted.len) EXCEPT !.fails = h.fails + 1]
  BY DEF Walked
<1> QED BY <1>5, <1>6, <1>7, <1>8

LEMMA TriedOK ==
    ASSUME NEW within, NEW still, WalkOK(h, within, still), h.runs # <<>>,
           h.by.technique = "speedsweep", NEW good \in BOOLEAN
    PROVE  WalkOK(Tried(good), within, still)
<1>1. h.phase \in {"fast", "slow"}
  BY WalkFacts DEF PhasesOf
<1> DEFINE on == Moved(1)
<1>2. WalkOK(on, within, still) /\ on.by = h.by
  BY MovedOK
<1> HIDE DEF on
<1>3. CASE Tried(good) = on
  BY <1>2, <1>3
<1>4. CASE Tried(good) = [h EXCEPT !.phase = "slow"]
  <2>1. "slow" \in PhasesOf[h.by.technique]
    BY DEF PhasesOf
  <2> QED BY <1>4, <2>1, PhaseOK
<1>5. CASE on.runs = <<>> /\ Tried(good) = [on EXCEPT !.phase = "tried"]
  <2> DEFINE v == [on EXCEPT !.phase = "tried"]
  <2>1. on \in Walks /\ RunsOK(on.by, on.runs, within, still)
    BY <1>2 DEF WalkOK
  <2>2. v \in Walks /\ v.by = on.by /\ v.runs = on.runs /\ v.phase = "tried"
    BY <2>1 DEF Walks, Phases
  <2> HIDE DEF v
  <2>3. v.phase \in PhasesOf[v.by.technique]
    BY <1>2, <2>2 DEF PhasesOf
  <2>4. WalkOK(v, within, still)
    BY <1>5, <2>1, <2>2, <2>3 DEF WalkOK
  <2> QED BY <1>5, <2>4 DEF v
<1>6. \/ Tried(good) = on \/ Tried(good) = [h EXCEPT !.phase = "slow"]
      \/ on.runs = <<>> /\ Tried(good) = [on EXCEPT !.phase = "tried"]
  BY DEF Tried, on
<1> QED BY <1>3, <1>4, <1>5, <1>6

LEMMA ApproachedOK ==
    ASSUME NEW within, NEW still, WalkOK(h, within, still), h.runs # <<>>,
           h.by.technique = "oscillate", NEW good \in BOOLEAN
    PROVE  WalkOK(Approached(good), within, still)
<1>1. h.phase \in {"below", "target", "above", "again"}
  BY WalkFacts DEF PhasesOf
<1>2. WalkOK(Moved(1), within, still)
  BY MovedOK
<1>3. /\ "target" \in PhasesOf[h.by.technique] /\ "above" \in PhasesOf[h.by.technique]
      /\ "again" \in PhasesOf[h.by.technique]
  BY DEF PhasesOf
<1>4. \/ Approached(good) = Moved(1)
      \/ Approached(good) = [h EXCEPT !.phase = "target"]
      \/ Approached(good) = [h EXCEPT !.phase = "again"]
      \/ /\ Approached(good) = [h EXCEPT !.phase = "above"]
         /\ Head(h.runs).pos + h.off + 1 < Capacity
  <2>1. CASE h.phase = "target"
    <3>1. (Head(h.runs).pos + h.off) + 1 = Head(h.runs).pos + h.off + 1
      BY WalkFacts
    <3> QED BY <2>1, <3>1 DEF Approached
  <2>2. CASE h.phase # "target"
    BY <1>1, <2>2 DEF Approached
  <2> QED BY <2>1, <2>2
<1>5. CASE Approached(good) = [h EXCEPT !.phase = "target"]
  BY <1>3, <1>5, PhaseOK
<1>6. CASE Approached(good) = [h EXCEPT !.phase = "again"]
  BY <1>3, <1>6, PhaseOK
<1>7. CASE /\ Approached(good) = [h EXCEPT !.phase = "above"]
           /\ Head(h.runs).pos + h.off + 1 < Capacity
  BY <1>3, <1>7, PhaseOK
<1> QED BY <1>2, <1>4, <1>5, <1>6, <1>7

LEMMA SplitOK ==
    ASSUME NEW within, NEW still, WalkOK(h, within, still), h.runs # <<>>,
           h.by.technique = "bisect", NEW back \in Nat, NEW forth \in Nat,
           Head(h.runs).pos <= back, back <= Beyond(Head(h.runs)),
           Head(h.runs).pos <= forth, forth <= Beyond(Head(h.runs))
    PROVE  WalkOK(Split(back, forth), within, still)
<1> DEFINE r == Head(h.runs)
           Good == {x \in Spans : SectorsOf(x) \subseteq within}
           right == Part(forth, Beyond(r) - forth)
           left == Part(r.pos, back - r.pos)
           rest == Tail(h.runs)
           all == right \o left \o rest
<1>1. /\ r.pos \in Nat /\ r.len \in Nat /\ Beyond(r) = r.pos + r.len /\ h.by \in Handlers
      /\ SectorsOf(r) \subseteq within /\ rest \in Seq(Spans)
      /\ RunsOK(h.by, rest, within, still)
  BY WalkFacts
<1>2. rest \in Seq(Good)
  <2> HIDE DEF rest
  <2>1. Len(rest) \in Nat /\ rest \in [1..Len(rest) -> Spans] /\ DOMAIN rest = 1..Len(rest)
    BY <1>1
  <2>2. \A i \in 1..Len(rest) : rest[i] \in Good
    BY <1>1, <2>1 DEF RunsOK
  <2> HIDE DEF Good
  <2>3. rest \in [1..Len(rest) -> Good]
    BY <2>1, <2>2
  <2> QED BY <2>1, <2>3
<1>3. ASSUME NEW pos \in Nat, NEW len \in Int, r.pos <= pos, pos + len <= r.pos + r.len
      PROVE  Part(pos, len) \in Seq(Good)
  <2>1. CASE len > 0
    <3>1. Span(pos, len) \in Spans /\ Span(pos, len).pos = pos /\ Span(pos, len).len = len
      BY <1>3, <2>1 DEF Span, Spans
    <3>2. len \in Nat
      BY <1>3, <2>1
    <3> DEFINE x == Span(pos, len)
    <3>3. x \in Spans /\ x.pos = pos /\ x.len = len
      BY <3>1
    <3> HIDE DEF x, r
    <3>4. SectorsOf(x) \subseteq SectorsOf(r)
      BY <1>1, <1>3, <3>2, <3>3, WithinRange
    <3>5. x \in Good
      BY <1>1, <3>3, <3>4
    <3>6. Part(pos, len) = <<x>>
      BY <2>1 DEF Part, x
    <3> HIDE DEF Good
    <3> QED BY <3>5, <3>6
  <2>2. CASE ~(len > 0)
    BY <2>2 DEF Part
  <2> QED BY <2>1, <2>2
<1> HIDE DEF r
<1>4. right \in Seq(Good) /\ left \in Seq(Good)
  <2>1. /\ Beyond(r) - forth \in Int /\ r.pos <= forth /\ forth + (Beyond(r) - forth) <= r.pos + r.len
        /\ back - r.pos \in Int /\ r.pos + (back - r.pos) <= r.pos + r.len /\ r.pos <= r.pos
    BY <1>1 DEF r
  <2> QED BY <1>1, <1>3, <2>1
<1>5. all \in Seq(Good)
  <2> HIDE DEF right, left, rest, Good
  <2>1. right \o left \in Seq(Good)
    BY <1>4
  <2> QED BY <1>2, <2>1
<1>6. Split(back, forth) = At(h.by, all, 0)
  BY DEF Split, r
<1> HIDE DEF all
<1>7. \A i \in DOMAIN all : all[i] \in Good
  <2>1. all \in [1..Len(all) -> Good] /\ DOMAIN all = 1..Len(all)
    BY <1>5
  <2> QED BY <2>1
<1>8. RunsOK(h.by, all, within, still)
  BY <1>7 DEF RunsOK
<1>9. all \in Seq(Spans)
  <2>1. Good \subseteq Spans
    OBVIOUS
  <2> HIDE DEF Good
  <2> QED BY <1>5, <2>1, SeqMonotonic
<1>10. all # <<>> => 0 < Head(all).len
  <2>1. all # <<>> => Head(all) \in Spans
    BY <1>9
  <2> QED BY <2>1 DEF Spans
<1> QED BY <1>1, <1>6, <1>8, <1>9, <1>10, AtOK

LEMMA GrowingOK ==
    ASSUME NEW within, NEW still, WalkOK(h, within, still), h.runs # <<>>,
           h.by.technique = "bisect", NEW phase \in {"forward", "backward"},
           NEW back \in Nat, NEW forth \in Nat, NEW step \in 1..Batch,
           Head(h.runs).pos <= back, back < forth, forth <= Beyond(Head(h.runs)),
           phase = "forward" => forth < Beyond(Head(h.runs)),
           phase = "backward" => Head(h.runs).pos < back,
           NEW v, v = Growing(phase, back, forth, step)
    PROVE  WalkOK(v, within, still)
<1>1. h \in Walks /\ RunsOK(h.by, h.runs, within, still) /\ StandsOK(h)
  BY DEF WalkOK
<1>2. step \in Nat
  BY Limits
<1>3. /\ v \in Walks /\ v.by = h.by /\ v.runs = h.runs /\ v.off = h.off /\ v.phase = phase
      /\ v.back = back /\ v.forth = forth /\ v.step = step
  BY <1>1, <1>2 DEF Growing, Walks, Phases
<1>4. StandsOK(v)
  BY <1>1, <1>3 DEF StandsOK
<1>5. v.phase \in PhasesOf[v.by.technique]
  BY <1>3 DEF PhasesOf
<1> QED BY <1>1, <1>3, <1>4, <1>5 DEF WalkOK

LEMMA BisectedOK ==
    ASSUME NEW within \in SUBSET (0..Capacity - 1), NEW still, WalkOK(h, within, still),
           h.runs # <<>>, h.by.technique = "bisect", NEW good \in BOOLEAN
    PROVE  WalkOK(Bisected(good), within, still)
<1> DEFINE r == Head(h.runs)
           w == Wanted
<1>1. /\ r.pos \in Nat /\ r.len \in Nat \ {0} /\ Beyond(r) = r.pos + r.len
      /\ h.back \in Nat /\ h.forth \in Nat /\ h.step \in Nat /\ StandsOK(h)
  BY WalkFacts
<1>2. h.phase \in {"probe", "forward", "backward"}
  BY WalkFacts DEF PhasesOf
<1>3. /\ w.pos \in Nat /\ w.len \in 1..Batch /\ w.len \in Nat \ {0}
      /\ h.phase = "probe" => w.len = 1 /\ r.pos <= w.pos /\ w.pos < Beyond(r)
      /\ h.phase = "forward" => w.pos = h.forth /\ Beyond(w) <= Beyond(r)
      /\ h.phase = "backward" => Beyond(w) = h.back /\ r.pos <= w.pos
      /\ Beyond(w) = w.pos + w.len
  <2>1. w.len \in 1..Batch
    BY WantedFacts
  <2>2. w.len \in Nat \ {0}
    BY <2>1, Limits
  <2> QED BY <2>1, <2>2, WantedFacts DEF Beyond
<1>4. h.phase \in {"forward", "backward"} =>
         r.pos <= h.back /\ h.back < h.forth /\ h.forth <= Beyond(r)
  BY <1>1 DEF StandsOK
<1> HIDE DEF r, w
<1>5. ASSUME NEW back \in Nat, NEW forth \in Nat, r.pos <= back, back < forth, forth <= Beyond(r)
      PROVE  WalkOK(Backward(back, forth), within, still)
  <2>1. CASE back > r.pos
    <3>1. Backward(back, forth) = Growing("backward", back, forth, Batch)
      BY <2>1 DEF Backward, r
    <3>2. Batch \in 1..Batch /\ r.pos < back
      BY <1>1, <2>1, Limits
    <3> QED BY <1>5, <3>1, <3>2, GrowingOK DEF r
  <2>2. CASE ~(back > r.pos)
    <3>1. Backward(back, forth) = Split(back, forth)
      BY <2>2 DEF Backward, r
    <3>2. back <= Beyond(r) /\ r.pos <= forth
      BY <1>1, <1>5
    <3> QED BY <1>5, <3>1, <3>2, SplitOK DEF r
  <2> QED BY <2>1, <2>2
<1>6. ASSUME NEW back \in Nat, NEW forth \in Nat, r.pos <= back, back < forth, forth <= Beyond(r)
      PROVE  WalkOK(Forward(back, forth), within, still)
  <2>1. CASE forth < Beyond(r)
    <3>1. Forward(back, forth) = Growing("forward", back, forth, Batch)
      BY <2>1 DEF Forward, r
    <3>2. Batch \in 1..Batch
      BY Limits
    <3> QED BY <1>6, <2>1, <3>1, <3>2, GrowingOK DEF r
  <2>2. CASE ~(forth < Beyond(r))
    <3>1. Forward(back, forth) = Backward(back, forth)
      BY <2>2 DEF Forward, r
    <3> QED BY <1>5, <1>6, <3>1
  <2> QED BY <2>1, <2>2
<1>7. CASE h.phase = "probe" /\ good
  <2>1. Bisected(good) = Forward(w.pos, w.pos + 1)
    BY <1>7 DEF Bisected, w
  <2>2. w.pos + 1 \in Nat /\ w.pos < w.pos + 1 /\ r.pos <= w.pos /\ w.pos + 1 <= Beyond(r)
    BY <1>1, <1>3, <1>7
  <2> QED BY <1>3, <1>6, <2>1, <2>2
<1>8. CASE h.phase = "probe" /\ ~good
  <2>1. Bisected(good) = Split(w.pos, w.pos + 1)
    BY <1>8 DEF Bisected, w
  <2>2. /\ w.pos + 1 \in Nat /\ r.pos <= w.pos /\ w.pos + 1 <= Beyond(r)
        /\ w.pos <= Beyond(r) /\ r.pos <= w.pos + 1
    BY <1>1, <1>3, <1>8
  <2> QED BY <1>3, <2>1, <2>2, SplitOK DEF r
<1>9. CASE h.phase = "forward" /\ good
  <2>1. Bisected(good) = Forward(h.back, Beyond(w))
    BY <1>9 DEF Bisected, w
  <2>2. /\ Beyond(w) \in Nat /\ r.pos <= h.back /\ h.back < Beyond(w) /\ Beyond(w) <= Beyond(r)
    BY <1>1, <1>3, <1>4, <1>9
  <2> QED BY <1>1, <1>6, <2>1, <2>2
<1>10. CASE h.phase = "backward" /\ good
  <2>1. Bisected(good) = Backward(w.pos, h.forth)
    BY <1>10 DEF Bisected, w
  <2>2. r.pos <= w.pos /\ w.pos < h.forth /\ h.forth <= Beyond(r)
    BY <1>1, <1>3, <1>4, <1>10
  <2> QED BY <1>1, <1>3, <1>5, <2>1, <2>2
<1>11. CASE h.phase = "forward" /\ ~good /\ w.len = 1
  <2>1. Bisected(good) = Backward(h.back, h.forth)
    BY <1>11 DEF Bisected, w
  <2> QED BY <1>1, <1>4, <1>5, <1>11, <2>1
<1>12. CASE h.phase = "backward" /\ ~good /\ w.len = 1
  <2>1. Bisected(good) = Split(h.back, h.forth)
    BY <1>12 DEF Bisected, w
  <2>2. /\ r.pos <= h.back /\ h.back <= Beyond(r) /\ r.pos <= h.forth /\ h.forth <= Beyond(r)
    BY <1>1, <1>4, <1>12
  <2> QED BY <1>1, <2>1, <2>2, SplitOK DEF r
<1>13. CASE h.phase \in {"forward", "backward"} /\ ~good /\ w.len # 1
  <2> DEFINE step == Most(w.len \div 2, 1)
  <2>1. Bisected(good) = [h EXCEPT !.step = step]
    BY <1>13 DEF Bisected, w
  <2>2. step \in 1..Batch
    BY <1>3, <1>13, Limits DEF Most
  <2> HIDE DEF step
  <2>3. h \in Walks
    BY DEF WalkOK
  <2>4. [h EXCEPT !.step = step] = Growing(h.phase, h.back, h.forth, step)
    BY <2>3 DEF Growing, Walks
  <2>5. /\ r.pos <= h.back /\ h.back < h.forth /\ h.forth <= Beyond(r)
        /\ h.phase = "forward" => h.forth < Beyond(r)
        /\ h.phase = "backward" => r.pos < h.back
    BY <1>1, <1>4, <1>13 DEF StandsOK, r
  <2> QED BY <1>1, <1>13, <2>1, <2>2, <2>4, <2>5, GrowingOK DEF r
<1> QED BY <1>2, <1>7, <1>8, <1>9, <1>10, <1>11, <1>12, <1>13

\* Whatever a read brings, the walk goes on within its section.
LEMMA AfterOK ==
    ASSUME NEW within \in SUBSET (0..Capacity - 1), NEW still, WalkOK(h, within, still),
           h.runs # <<>>, NEW good \in BOOLEAN
    PROVE  WalkOK(After(good), within, still)
<1>1. h.by.technique \in Techniques /\ h.phase \in PhasesOf[h.by.technique] \ {"over", "tried"}
  BY WalkFacts
<1>2. CASE h.by.technique = "bisect"
  <2>1. After(good) = Bisected(good)
    BY <1>1, <1>2 DEF After, PhasesOf
  <2> QED BY <1>2, <2>1, BisectedOK
<1>3. CASE h.by.technique = "speedsweep"
  <2>1. After(good) = Tried(good)
    BY <1>1, <1>3 DEF After, PhasesOf
  <2> QED BY <1>3, <2>1, TriedOK
<1>4. CASE h.by.technique = "oscillate"
  <2>1. After(good) = Approached(good)
    BY <1>1, <1>4 DEF After, PhasesOf
  <2> QED BY <1>4, <2>1, ApproachedOK
<1>5. CASE h.by.technique \in {"linear", "jump", "cacheprime"} /\ h.phase = "prime"
  <2>1. After(good) = [h EXCEPT !.phase = "walk"]
    BY <1>5 DEF After
  <2>2. "walk" \in PhasesOf[h.by.technique]
    BY <1>1, <1>5 DEF PhasesOf
  <2> QED BY <2>1, <2>2, PhaseOK
<1>6. CASE h.by.technique \in {"linear", "jump", "cacheprime"} /\ h.phase # "prime"
  <2>1. After(good) = Walked(good)
    BY <1>6 DEF After
  <2>2. h.phase = "walk"
    BY <1>1, <1>6 DEF PhasesOf
  <2> QED BY <2>1, <2>2, WalkedOK
<1> QED BY <1>1, <1>2, <1>3, <1>4, <1>5, <1>6 DEF Techniques

----------------------------------------------------------------------------
(* The invariant, part by part. *)

LEMMA InvFacts ==
    ASSUME IInv
    PROVE  TypeInv /\ PcInv /\ Claims /\ SentInv /\ DropInv
BY DEF IInv

LEMMA TypeFacts ==
    ASSUME TypeInv
    PROVE  /\ mode \in Modes /\ mode.flat \in BOOLEAN /\ mode.reports \in BOOLEAN
           /\ tier \in Nat /\ tier >= 1 /\ tier <= LastTier /\ LastTier \in Nat
           /\ sec \in Sections /\ sec \in Nat /\ sec >= 1 /\ sec <= Len(Ordered)
           /\ Sections = 1..Len(Ordered) /\ Len(Ordered) \in Nat
           /\ SectorsOf(Ordered[sec]) \in SUBSET (0..Capacity - 1)
           /\ Bad \in SUBSET (0..Capacity - 1) /\ Bad \subseteq SectorsOf(Ordered[sec])
           /\ stop \in BOOLEAN /\ latch \in BOOLEAN
           /\ dead \in Nat /\ dead <= Yield /\ wedge \in Nat
<1>1. mode \in Modes /\ tier \in 1..LastTier /\ sec \in Sections
  BY DEF TypeInv
<1>2. mode.flat \in BOOLEAN /\ mode.reports \in BOOLEAN
  BY <1>1, SectionAssumption
<1>3. LastTier \in Nat
  <2>1. Len(Tiers) \in Nat
    BY SectionAssumption
  <2> QED BY <2>1 DEF LastTier
<1>4. Sections = 1..Len(Ordered) /\ Len(Ordered) \in Nat
  BY OrderedFacts
<1>5. SectorsOf(Ordered[sec]) \in SUBSET (0..Capacity - 1)
  BY <1>1, OrderedFacts
<1>6. Bad \in SUBSET (0..Capacity - 1) /\ Bad \subseteq SectorsOf(Ordered[sec])
  BY <1>1 DEF TypeInv, Bad
<1>7. stop \in BOOLEAN /\ latch \in BOOLEAN /\ dead \in Nat /\ dead <= Yield /\ wedge \in Nat
  BY Limits DEF TypeInv
<1> QED BY <1>1, <1>2, <1>3, <1>4, <1>5, <1>6, <1>7

LEMMA RosterFacts == ASSUME TypeInv PROVE Roster \subseteq Handlers
<1>1. \A i \in DOMAIN Tiers : Tiers[i] \subseteq Handlers
  BY SectionAssumption
<1>2. tier \in 1..Len(Tiers) \/ mode.flat
  BY DEF TypeInv, LastTier
<1>3. DOMAIN Tiers = 1..Len(Tiers)
  BY SectionAssumption
<1> QED BY <1>1, <1>2, <1>3 DEF Roster

\* What the running handler reads.
LEMMA ReadFacts ==
    ASSUME IInv, Reads
    PROVE  /\ pc = "handler" /\ chain = "none" /\ ended = "none" /\ wedge < WedgeAbort
           /\ h.runs # <<>> /\ WalkOK(h, SectorsOf(Ordered[sec]), Bad)
           /\ h \in Walks /\ h.by \in Handlers
           /\ Wanted.pos \in Nat /\ Wanted.len \in 1..Batch
           /\ SectorsOf(Wanted) \subseteq 0..Capacity - 1
           /\ h.phase \notin Warming => SectorsOf(Wanted) \subseteq SectorsOf(Ordered[sec])
           /\ h.phase \in Warming => SectorsOf(Wanted) = {Wanted.pos}
           /\ h.phase = "prime" => Wanted.pos \notin Bad
<1>1. pc = "handler" /\ h.phase \notin {"over", "tried"}
  BY DEF Reads, Running
<1>2. WalkOK(h, SectorsOf(Ordered[sec]), Bad) /\ chain = "none" /\ ended = "none"
  BY <1>1, InvFacts DEF PcInv
<1>3. h.runs # <<>> /\ h \in Walks /\ h.by \in Handlers
  BY <1>1, <1>2 DEF WalkOK, Walks
<1>4. wedge < WedgeAbort
  BY <1>2, InvFacts DEF PcInv
<1>5. SectorsOf(Ordered[sec]) \in SUBSET (0..Capacity - 1)
  BY InvFacts, TypeFacts
<1> QED BY <1>1, <1>2, <1>3, <1>4, <1>5, WantedFacts

LEMMA ClaimsKept ==
    ASSUME Claims, UNCHANGED <<bad, written>>, stop => stop', stop' \in BOOLEAN
    PROVE  Claims'
BY DEF Claims, StillBad

LEMMA SentKept ==
    ASSUME SentInv, UNCHANGED <<place, residue, bad, ended>>
    PROVE  SentInv'
<1>1. StillBad' = StillBad /\ LastTier' = LastTier
  BY DEF StillBad, place, LastTier
<1> QED BY <1>1 DEF SentInv, place

LEMMA DropKept ==
    ASSUME DropInv, UNCHANGED <<mode, bad, written, ended>>, pc' = "enter" => pc = "enter"
    PROVE  DropInv'
BY DEF DropInv, StillBad

LEMMA InitInv == ASSUME Init PROVE IInv
<1>1. Len(Ordered) \in Nat \ {0} /\ Sections = 1..Len(Ordered)
  BY OrderedFacts
<1>2. TypeInv
  <2>1. 1 \in 1..LastTier
    <3>1. Len(Tiers) \in Nat /\ Len(Tiers) # 0
      BY SectionAssumption
    <3> QED BY <3>1 DEF LastTier
  <2>2. 1 \in Sections
    BY <1>1
  <2>3. \A i \in Sections : bad[i] = SectorsOf(Ordered[i])
    BY DEF Init
  <2>4. bad \in [Sections -> SUBSET (0..Capacity - 1)]
    <3>1. \A i \in Sections : SectorsOf(Ordered[i]) \in SUBSET (0..Capacity - 1)
      BY OrderedFacts
    <3> QED BY <3>1 DEF Init
  <2>5. /\ mode \in Modes /\ tier = 1 /\ sec = 1 /\ todo = {} /\ dead = 0 /\ wedge = 0
        /\ speed = "unset" /\ stop = FALSE /\ latch = FALSE
    BY DEF Init
  <2>6. tier \in 1..LastTier /\ sec \in Sections /\ todo \subseteq Handlers
    BY <2>1, <2>2, <2>5
  <2>7. dead \in 0..Yield /\ wedge \in Nat
    BY <2>5, Limits
  <2>8. stop \in BOOLEAN /\ latch \in BOOLEAN
    BY <2>5
  <2> QED BY <2>3, <2>4, <2>5, <2>6, <2>7, <2>8 DEF TypeInv
<1>3. PcInv
  BY Limits DEF Init, PcInv
<1>4. StillBad = All
  BY DEF Init, StillBad, All
<1>5. Claims
  BY <1>4 DEF Init, Claims
<1>6. SentInv
  BY <1>1 DEF Init, SentInv
<1>7. DropInv
  BY <1>4 DEF Init, DropInv
<1> QED BY <1>2, <1>3, <1>5, <1>6, <1>7 DEF IInv

----------------------------------------------------------------------------
(* One read of the running handler. *)

LEMMA FewerBad ==
    ASSUME NEW w, NEW within, NEW still, WalkOK(w, within, still), NEW left \in SUBSET still
    PROVE  WalkOK(w, within, left)
BY DEF WalkOK, RunsOK

LEMMA WalkGoesOn ==
    ASSUME IInv, Reads, NEW good \in BOOLEAN, GoesOn(good), Answered,
           Bad' \subseteq Bad, wedge' < WedgeAbort
    PROVE  PcInv' /\ speed' \in {"min", "max"}
<1>1. /\ UNCHANGED <<pc, chain, ended, sec>> /\ h' = After(good) /\ speed' = WantedSpeed
  BY DEF GoesOn, Answered, place
<1>2. WalkOK(After(good), SectorsOf(Ordered[sec]), Bad)
  <2>1. SectorsOf(Ordered[sec]) \in SUBSET (0..Capacity - 1)
    BY InvFacts, TypeFacts
  <2> QED BY <2>1, ReadFacts, AfterOK
<1>3. WalkOK(h', SectorsOf(Ordered[sec]), Bad')
  BY <1>1, <1>2, FewerBad
<1>4. WantedSpeed \in {"min", "max"}
  <2>1. h.by.speed \in {"min", "max"}
    BY ReadFacts DEF Handlers
  <2> QED BY <2>1 DEF WantedSpeed
<1>5. /\ pc = "handler" /\ chain = "none" /\ ended = "none"
  BY ReadFacts
<1>6. (SectorsOf(Ordered[sec]))' = SectorsOf(Ordered[sec])
  BY <1>1
<1> QED BY <1>1, <1>3, <1>4, <1>5, <1>6 DEF PcInv

Ends == {"remaining", "complete", "halted", "transport", "fatal"}

LEMMA HandlerIsOver ==
    ASSUME IInv, pc = "handler", NEW how \in Ends, HandlerEnds(how), UNCHANGED ended,
           wedge' < WedgeAbort \/ how = "transport"
    PROVE  PcInv' /\ speed' = "max" /\ pc' \in {"chain", "leave"}
<1>1. chain = "none" /\ ended = "none"
  BY InvFacts DEF PcInv
<1>2. /\ pc' = (IF how = "remaining" THEN "chain" ELSE "leave")
      /\ chain' = (IF how = "remaining" THEN chain ELSE how) /\ speed' = "max"
  BY DEF HandlerEnds
<1> QED BY <1>1, <1>2 DEF PcInv, Ends

LEMMA ReadType ==
    ASSUME IInv, Answered, speed' \in {"min", "max"}, dead' \in 0..Yield, wedge' \in Nat,
           UNCHANGED bad \/ bad' = [bad EXCEPT ![sec] = @ \ Claimed]
    PROVE  TypeInv' /\ Bad' \subseteq Bad
<1>1. UNCHANGED <<mode, tier, sec, todo, stop>> /\ latch' = stop
  BY DEF Answered, place
<1>2. TypeInv /\ sec \in Sections /\ stop \in BOOLEAN
  BY InvFacts, TypeFacts
<1>3. /\ bad' \in [Sections -> SUBSET (0..Capacity - 1)]
      /\ \A i \in Sections : bad'[i] \subseteq bad[i]
  BY <1>2 DEF TypeInv
<1>4. \A i \in Sections : bad'[i] \subseteq SectorsOf(Ordered[i])
  BY <1>2, <1>3 DEF TypeInv
<1>5. LastTier' = LastTier
  BY <1>1 DEF LastTier
<1>6. Bad' \subseteq Bad
  BY <1>1, <1>2, <1>3 DEF Bad
<1>7. latch' \in BOOLEAN /\ stop' \in BOOLEAN
  BY <1>1, <1>2
<1> QED BY <1>1, <1>2, <1>3, <1>4, <1>5, <1>6, <1>7 DEF TypeInv

\* What is claimed was bad in no other section and goes to the sink.
LEMMA Claiming ==
    ASSUME IInv, Reads, UNCHANGED <<stop, sec>>,
           bad' = [bad EXCEPT ![sec] = @ \ Claimed],
           \/ written' = written \cup (IF Commits THEN SectorsOf(Wanted) ELSE {})
           \/ stop /\ written' = written
    PROVE  Claims' /\ StillBad' \subseteq StillBad
<1> DEFINE X == IF Commits THEN SectorsOf(Wanted) ELSE {}
<1>1. /\ sec \in Sections /\ Bad \subseteq SectorsOf(Ordered[sec])
      /\ bad \in [Sections -> SUBSET (0..Capacity - 1)]
      /\ \A i \in Sections : bad[i] \subseteq SectorsOf(Ordered[i])
  BY InvFacts, TypeFacts DEF TypeInv
<1>2. X \subseteq SectorsOf(Ordered[sec]) /\ Bad \ Claimed = Bad \ X
  <2>1. CASE h.phase = "prime"
    <3>1. Claimed = {} /\ ~Commits
      BY <2>1, ReadFacts DEF Claimed, Commits
    <3> QED BY <3>1
  <2>2. CASE h.phase \in {"below", "above"}
    <3>1. Claimed = {Wanted.pos} /\ SectorsOf(Wanted) = {Wanted.pos}
      BY <2>2, ReadFacts DEF Claimed, Warming
    <3>2. Commits <=> Wanted.pos \in Bad
      BY <2>2 DEF Commits
    <3> QED BY <1>1, <3>1, <3>2
  <2>3. CASE h.phase \notin Warming
    <3>1. Claimed = SectorsOf(Wanted) /\ Commits
      BY <2>3 DEF Claimed, Commits, Warming
    <3> QED BY <2>3, <3>1, ReadFacts
  <2> QED BY <2>1, <2>2, <2>3 DEF Warming
<1>3. written' = written \cup X \/ (stop /\ written' = written)
  OBVIOUS
<1> HIDE DEF X
<1>4. /\ bad'[sec] = bad[sec] \ X /\ \A i \in Sections \ {sec} : bad'[i] = bad[i]
  BY <1>1, <1>2 DEF Bad
<1>5. \A i \in Sections \ {sec} : SectorsOf(Ordered[i]) \cap SectorsOf(Ordered[sec]) = {}
  BY <1>1, OrderedFacts
<1>6. \A i \in Sections : bad'[i] = bad[i] \ X
  BY <1>1, <1>2, <1>4, <1>5
<1>7. StillBad' = StillBad \ X
  BY <1>6 DEF StillBad
<1>8. X \subseteq All
  BY <1>1, <1>2 DEF All
<1>9. StillBad \cap written = {} /\ (~stop => All \ StillBad = written)
  BY InvFacts DEF Claims
<1>10. StillBad' \cap written' = {}
  BY <1>3, <1>7, <1>9
<1>11. ASSUME ~stop' PROVE All \ StillBad' = written'
  BY <1>3, <1>7, <1>8, <1>9, <1>11
<1> QED BY <1>7, <1>10, <1>11 DEF Claims

LEMMA ReadGoodInv == ASSUME IInv, ReadGood PROVE IInv'
<1>1. /\ Reads /\ GoesOn(TRUE) /\ Answered /\ wedge' = 0
      /\ bad' = [bad EXCEPT ![sec] = @ \ Claimed]
      /\ \/ written' = written \cup (IF Commits THEN SectorsOf(Wanted) ELSE {})
         \/ stop /\ written' = written
      /\ dead' = (IF Commits \/ IslandDone(TRUE) THEN 0 ELSE dead)
  BY DEF ReadGood
<1>2. UNCHANGED <<mode, tier, sec, residue, todo, stop, ended, pc>>
  BY <1>1 DEF Answered, GoesOn, place
<1>3. dead' \in 0..Yield /\ wedge' \in Nat /\ wedge' < WedgeAbort
  <2>1. dead' = 0 \/ dead' = dead
    BY <1>1
  <2>2. dead \in Nat /\ dead <= Yield
    BY InvFacts, TypeFacts
  <2>3. dead' \in 0..Yield
    BY <2>1, <2>2, Limits
  <2>4. wedge' = 0
    BY <1>1
  <2> QED BY <2>3, <2>4, Limits
<1>4. Bad' \subseteq Bad
  <2>1. sec \in Sections
    BY InvFacts, TypeFacts
  <2> QED BY <1>1, <1>2, <2>1, InvFacts DEF Bad, TypeInv
<1>5. PcInv' /\ speed' \in {"min", "max"}
  BY <1>1, <1>3, <1>4, WalkGoesOn
<1>6. TypeInv'
  BY <1>1, <1>3, <1>5, ReadType
<1>7. Claims' /\ StillBad' \subseteq StillBad
  BY <1>1, <1>2, Claiming
<1>8. SentInv'
  <2>1. sec \in Sections /\ bad \in [Sections -> SUBSET (0..Capacity - 1)]
    BY InvFacts, TypeFacts DEF TypeInv
  <2>2. ended = "none"
    BY <1>1, ReadFacts
  <2>3. residue \cap SectorsOf(Ordered[sec]) = {}
    <3>1. ~(sec < sec)
      BY InvFacts, TypeFacts
    <3> QED BY <2>1, <2>2, <3>1, InvFacts DEF SentInv
  <2>4. \A i \in Sections : i < sec => bad'[i] = bad[i]
    <3>1. ~(sec < sec)
      BY InvFacts, TypeFacts
    <3> QED BY <1>1, <2>1, <3>1
  <2>5. residue' \subseteq StillBad'
    <3>1. \A i \in Sections \ {sec} : bad'[i] = bad[i]
      BY <1>1, <2>1
    <3>2. bad[sec] \subseteq SectorsOf(Ordered[sec])
      BY <2>1, InvFacts DEF TypeInv
    <3> QED BY <1>2, <2>3, <3>1, <3>2, InvFacts DEF SentInv, StillBad
  <2>6. LastTier' = LastTier
    BY <1>2 DEF LastTier
  <2> QED BY <1>2, <2>2, <2>4, <2>5, <2>6, InvFacts DEF SentInv
<1>9. DropInv'
  BY <1>1, <1>2, ReadFacts DEF DropInv
<1> QED BY <1>5, <1>6, <1>7, <1>8, <1>9 DEF IInv

\* What a read changes that takes nothing off the bad set.
LEMMA NothingRead ==
    ASSUME IInv, Reads, Answered, UNCHANGED <<bad, written>>, pc' # "enter"
    PROVE  Claims' /\ SentInv' /\ DropInv'
<1>1. UNCHANGED <<place, residue, ended, stop, mode>>
  BY DEF Answered, place
<1>2. Claims /\ SentInv /\ DropInv /\ stop \in BOOLEAN
  BY InvFacts, TypeFacts
<1>3. Claims'
  BY <1>1, <1>2, ClaimsKept
<1>4. SentInv'
  BY <1>1, <1>2, SentKept
<1>5. DropInv'
  BY <1>1, <1>2, DropKept
<1> QED BY <1>3, <1>4, <1>5

LEMMA DeadGrows ==
    ASSUME IInv, \/ dead' = dead
                 \/ dead' = (IF IslandDone(FALSE) THEN 0 ELSE Least(dead + 1, Yield))
    PROVE  dead' \in 0..Yield
<1>1. dead \in Nat /\ dead <= Yield
  BY InvFacts, TypeFacts
<1>2. dead' = dead \/ dead' = 0 \/ dead' = Least(dead + 1, Yield)
  OBVIOUS
<1> QED BY <1>1, <1>2, Limits DEF Least

LEMMA ReadBadInv == ASSUME IInv, ReadBad PROVE IInv'
<1>1. /\ Reads /\ GoesOn(FALSE) /\ Answered /\ UNCHANGED <<bad, written>>
      /\ dead' = (IF IslandDone(FALSE) THEN 0 ELSE Least(dead + 1, Yield))
  BY DEF ReadBad
<1>2. wedge' = 0
  BY DEF ReadBad
<1>3. dead' \in 0..Yield
  BY <1>1, DeadGrows
<1>4. wedge' \in Nat /\ wedge' < WedgeAbort
  BY <1>2, Limits
<1>5. Bad' \subseteq Bad
  BY <1>1 DEF Bad, Answered, place
<1>6. PcInv' /\ speed' \in {"min", "max"}
  BY <1>1, <1>4, <1>5, WalkGoesOn
<1>7. TypeInv'
  BY <1>1, <1>3, <1>4, <1>6, ReadType
<1>8. pc' # "enter"
  BY <1>1, ReadFacts DEF GoesOn
<1>9. Claims' /\ SentInv' /\ DropInv'
  BY <1>1, <1>8, NothingRead
<1> QED BY <1>6, <1>7, <1>9 DEF IInv

LEMMA ReadWedgeInv == ASSUME IInv, ReadWedge PROVE IInv'
<1>1. /\ Reads /\ Answered /\ UNCHANGED <<bad, written>> /\ wedge' = wedge + 1
      /\ \/ /\ wedge' < WedgeAbort /\ GoesOn(FALSE)
            /\ dead' = (IF IslandDone(FALSE) THEN 0 ELSE Least(dead + 1, Yield))
         \/ dead' = dead /\ HandlerEnds("transport")
  BY DEF ReadWedge
<1>2. dead' \in 0..Yield
  BY <1>1, DeadGrows
<1>3. wedge' \in Nat
  BY <1>1, InvFacts, TypeFacts
<1>4. Bad' \subseteq Bad
  BY <1>1 DEF Bad, Answered, place
<1>5. pc = "handler" /\ UNCHANGED ended
  BY <1>1, ReadFacts DEF Answered
<1>6. PcInv' /\ speed' \in {"min", "max"} /\ pc' # "enter"
  <2>1. CASE wedge' < WedgeAbort /\ GoesOn(FALSE)
    <3>1. pc' = "handler"
      BY <1>5, <2>1 DEF GoesOn
    <3> QED BY <1>1, <1>4, <2>1, <3>1, WalkGoesOn
  <2>2. CASE HandlerEnds("transport")
    <3>1. "transport" \in Ends
      BY DEF Ends
    <3> QED BY <1>5, <2>2, <3>1, HandlerIsOver
  <2> QED BY <1>1, <2>1, <2>2
<1>7. TypeInv'
  BY <1>1, <1>2, <1>3, <1>6, ReadType
<1>8. Claims' /\ SentInv' /\ DropInv'
  BY <1>1, <1>6, NothingRead
<1> QED BY <1>6, <1>7, <1>8 DEF IInv

LEMMA ReadEndsInv ==
    ASSUME IInv, NEW how \in {"transport", "fatal"}, ReadEnds(how)
    PROVE  IInv'
<1>1. /\ Reads /\ Answered /\ UNCHANGED <<bad, written>> /\ UNCHANGED <<dead, wedge>>
      /\ HandlerEnds(how)
  BY DEF ReadEnds, streaks
<1>2. dead' \in 0..Yield
  BY <1>1, DeadGrows
<1>3. /\ pc = "handler" /\ UNCHANGED ended /\ how \in Ends /\ wedge < WedgeAbort
  BY <1>1, ReadFacts DEF Answered, Ends
<1>4. wedge' \in Nat /\ wedge' < WedgeAbort
  BY <1>1, <1>3, InvFacts, TypeFacts
<1>5. PcInv' /\ speed' \in {"min", "max"} /\ pc' # "enter"
  BY <1>1, <1>3, <1>4, HandlerIsOver
<1>6. TypeInv'
  BY <1>1, <1>2, <1>4, <1>5, ReadType
<1>7. Claims' /\ SentInv' /\ DropInv'
  BY <1>1, <1>5, NothingRead
<1> QED BY <1>5, <1>6, <1>7 DEF IInv

----------------------------------------------------------------------------
(* The handler's other ends, and the chain. *)

\* A step that changes neither what is bad nor what was sent.
LEMMA AsideKept ==
    ASSUME IInv, UNCHANGED <<place, sent, bad, stop, ended>>, pc' = "enter" => pc = "enter"
    PROVE  Claims' /\ SentInv' /\ DropInv'
<1>1. UNCHANGED <<mode, written, residue>>
  BY DEF place, sent
<1>2. Claims /\ SentInv /\ DropInv /\ stop \in BOOLEAN
  BY InvFacts, TypeFacts
<1>3. Claims'
  BY <1>1, <1>2, ClaimsKept
<1>4. SentInv'
  BY <1>1, <1>2, SentKept
<1>5. DropInv'
  BY <1>1, <1>2, DropKept
<1> QED BY <1>3, <1>4, <1>5

LEMMA TypeKept ==
    ASSUME TypeInv, UNCHANGED <<place, bad, wedge, stop>>, todo' \subseteq Handlers,
           dead' \in 0..Yield, speed' \in {"unset", "min", "max"}, latch' \in BOOLEAN
    PROVE  TypeInv'
<1>1. LastTier' = LastTier /\ UNCHANGED <<mode, tier, sec>>
  BY DEF LastTier, place
<1> QED BY <1>1 DEF TypeInv

LEMMA UnreadInv ==
    ASSUME IInv, pc = "handler", NEW how \in Ends, HandlerEnds(how), Unread
    PROVE  IInv'
<1>1. /\ UNCHANGED <<place, sent, bad, stop, ended>>
      /\ UNCHANGED <<dead, wedge, todo, latch>>
  BY DEF Unread, streaks
<1>2. wedge < WedgeAbort
  BY InvFacts DEF PcInv
<1>3. PcInv' /\ speed' = "max" /\ pc' \in {"chain", "leave"}
  BY <1>1, <1>2, HandlerIsOver
<1>4. TypeInv /\ todo \subseteq Handlers /\ dead \in 0..Yield /\ latch \in BOOLEAN
  BY InvFacts DEF TypeInv
<1>5. TypeInv'
  BY <1>1, <1>3, <1>4, TypeKept
<1>6. Claims' /\ SentInv' /\ DropInv'
  BY <1>1, <1>3, AsideKept
<1> QED BY <1>3, <1>5, <1>6 DEF IInv

LEMMA HandlerOverInv == ASSUME IInv, HandlerHalts \/ HandlerYields \/ HandlerDone PROVE IInv'
<1>1. "halted" \in Ends /\ "remaining" \in Ends /\ "complete" \in Ends
  BY DEF Ends
<1>2. CASE HandlerHalts
  BY <1>1, <1>2, UnreadInv DEF HandlerHalts, Running
<1>3. CASE HandlerYields
  BY <1>1, <1>3, UnreadInv DEF HandlerYields, Running
<1>4. CASE HandlerDone
  <2>1. /\ pc = "handler" /\ Unread
        /\ HandlerEnds("complete") \/ HandlerEnds("remaining")
    BY <1>4 DEF HandlerDone, Running
  <2> QED BY <1>1, <2>1, UnreadInv
<1> QED BY <1>2, <1>3, <1>4

LEMMA NextHandlerInv == ASSUME IInv, NextHandler PROVE IInv'
<1>1. /\ pc = "chain" /\ pc' = "handler" /\ dead' = 0
      /\ UNCHANGED <<place, sent, bad, stop, ended>> /\ UNCHANGED <<wedge, speed, latch, chain>>
      /\ \E by \in todo : todo' = todo \ {by} /\ h' = Started(by)
  BY DEF NextHandler
<1>2. PICK by \in todo : todo' = todo \ {by} /\ h' = Started(by)
  BY <1>1
<1>3. /\ TypeInv /\ todo \subseteq Handlers /\ speed \in {"unset", "min", "max"}
      /\ latch \in BOOLEAN
  BY InvFacts DEF TypeInv
<1>4. TypeInv'
  <2>1. todo' \subseteq Handlers
    BY <1>2, <1>3
  <2>2. dead' \in 0..Yield
    BY <1>1, Limits
  <2> QED BY <1>1, <1>3, <2>1, <2>2, TypeKept
<1>5. WalkOK(Started(by), SectorsOf(Ordered[sec]), Bad)
  <2>1. Bad \in SUBSET (0..Capacity - 1) /\ Bad \subseteq SectorsOf(Ordered[sec])
    BY <1>3, TypeFacts
  <2> QED BY <1>3, <2>1, StartedOK
<1>6. chain = "none" /\ ended = "none" /\ wedge < WedgeAbort
  BY <1>1, InvFacts DEF PcInv
<1>7. (SectorsOf(Ordered[sec]))' = SectorsOf(Ordered[sec]) /\ Bad' = Bad
  BY <1>1 DEF Bad, place
<1>8. PcInv'
  BY <1>1, <1>2, <1>5, <1>6, <1>7 DEF PcInv
<1>9. Claims' /\ SentInv' /\ DropInv'
  BY <1>1, AsideKept
<1> QED BY <1>4, <1>8, <1>9 DEF IInv

LEMMA ChainOverInv == ASSUME IInv, ChainOver PROVE IInv'
<1>1. /\ pc = "chain" /\ pc' = "leave" /\ chain' \in {"complete", "remaining"}
      /\ UNCHANGED <<place, sent, bad, stop, ended>>
      /\ UNCHANGED <<dead, wedge, todo, speed, latch>>
  BY DEF ChainOver, streaks
<1>2. TypeInv /\ todo \subseteq Handlers /\ dead \in 0..Yield /\ latch \in BOOLEAN
      /\ speed \in {"unset", "min", "max"}
  BY InvFacts DEF TypeInv
<1>3. TypeInv'
  BY <1>1, <1>2, TypeKept
<1>4. PcInv'
  <2>1. ended = "none" /\ speed \in {"max", "unset"} /\ wedge < WedgeAbort
    BY <1>1, InvFacts DEF PcInv
  <2> QED BY <1>1, <2>1 DEF PcInv
<1>5. Claims' /\ SentInv' /\ DropInv'
  BY <1>1, AsideKept
<1> QED BY <1>3, <1>4, <1>5 DEF IInv

LEMMA StopInv == ASSUME IInv, Stop PROVE IInv'
<1>1. /\ stop' = TRUE /\ UNCHANGED <<place, sent, bad, ended, pc>>
      /\ UNCHANGED <<dead, wedge, todo, speed, latch, chain, h>>
  BY DEF Stop, streaks
<1>2. TypeInv /\ PcInv /\ Claims /\ SentInv /\ DropInv
  BY InvFacts
<1>3. UNCHANGED <<mode, tier, sec, written, residue>> /\ LastTier' = LastTier
  BY <1>1 DEF place, sent, LastTier
<1>4. TypeInv'
  BY <1>1, <1>2, <1>3 DEF TypeInv
<1>5. PcInv'
  <2>1. (SectorsOf(Ordered[sec]))' = SectorsOf(Ordered[sec]) /\ Bad' = Bad
    BY <1>1, <1>3 DEF Bad
  <2> QED BY <1>1, <1>2, <2>1 DEF PcInv
<1>6. Claims'
  BY <1>1, <1>2, <1>3, ClaimsKept
<1>7. SentInv'
  BY <1>1, <1>2, <1>3, SentKept
<1>8. DropInv'
  BY <1>1, <1>2, <1>3, DropKept
<1> QED BY <1>4, <1>5, <1>6, <1>7, <1>8 DEF IInv

----------------------------------------------------------------------------
(* From section to section. *)

LEMMA ResidueFacts ==
    ASSUME TypeInv
    PROVE  /\ Ranges \in Nat
           /\ \A k \in 0..Ranges : Residue(k) \subseteq Bad
           /\ Residue(Ranges) = IF tier = LastTier THEN Bad ELSE {}
           /\ tier # LastTier => Ranges = 0
<1> DEFINE n == Len(Runs(Bad))
<1>1. /\ n \in Nat /\ DOMAIN Runs(Bad) = 1..n
      /\ \A i \in 1..n : SectorsOf(Runs(Bad)[i]) \subseteq Bad
      /\ \A t \in Bad : \E i \in 1..n : t \in SectorsOf(Runs(Bad)[i])
  <2>1. Bad \in SUBSET (0..Capacity - 1)
    BY TypeFacts
  <2> QED BY <2>1, RunsFacts
<1> HIDE DEF n
<1>2. Ranges = IF tier = LastTier THEN n ELSE 0
  BY DEF Ranges, n
<1>3. Ranges \in Nat /\ Ranges <= n
  BY <1>1, <1>2
<1>4. ASSUME NEW k \in 0..Ranges PROVE Residue(k) \subseteq Bad
  <2>1. 1..k \subseteq 1..n
    BY <1>1, <1>3
  <2> QED BY <1>1, <2>1 DEF Residue
<1>5. CASE tier = LastTier
  <2>1. Ranges = n
    BY <1>2, <1>5
  <2>2. Bad \subseteq Residue(n)
    BY <1>1 DEF Residue
  <2>3. n \in 0..Ranges
    BY <1>1, <2>1
  <2> QED BY <1>3, <1>4, <1>5, <2>1, <2>2, <2>3
<1>6. CASE tier # LastTier
  <2>1. Ranges = 0 /\ 1..0 = {}
    BY <1>2, <1>6
  <2>2. Residue(0) = {}
    BY <2>1 DEF Residue
  <2> QED BY <1>3, <1>4, <1>6, <2>1, <2>2
<1> QED BY <1>5, <1>6

\* The pass ends in this section, some of its ranges perhaps sent.
LEMMA EndsSent ==
    ASSUME TypeInv, SentInv, ended = "none", UNCHANGED <<place, bad>>,
           ended' \notin {"none", "complete"},
           NEW R \in SUBSET Bad, residue' = residue \cup R,
           R # {} => tier = LastTier /\ ended' # "fatal"
    PROVE  SentInv'
<1>1. sec \in Sections /\ Bad \subseteq SectorsOf(Ordered[sec]) /\ tier <= LastTier
      /\ tier \in Nat /\ LastTier \in Nat
  BY TypeFacts
<1>2. UNCHANGED <<tier, sec>> /\ LastTier' = LastTier /\ StillBad' = StillBad
  BY DEF place, LastTier, StillBad
<1>3. Bad \subseteq StillBad
  BY <1>1 DEF Bad, StillBad
<1>4. residue' \subseteq StillBad'
  BY <1>2, <1>3 DEF SentInv
<1>5. tier' < LastTier' => residue' = {}
  <2>1. tier < LastTier => tier # LastTier
    BY <1>1
  <2> QED BY <1>2, <2>1 DEF SentInv
<1>6. ASSUME NEW i \in Sections, residue' \cap SectorsOf(Ordered[i]) # {}
      PROVE  i < sec' \/ (i = sec' /\ ended' \notin {"none", "fatal"})
  <2>1. CASE residue \cap SectorsOf(Ordered[i]) # {}
    BY <1>2, <2>1 DEF SentInv
  <2>2. CASE residue \cap SectorsOf(Ordered[i]) = {}
    <3>1. R \cap SectorsOf(Ordered[i]) # {}
      BY <1>6, <2>2
    <3>2. i = sec
      BY <1>1, <3>1, OrderedFacts
    <3>3. ended' # "fatal"
      BY <3>1
    <3> QED BY <1>2, <3>2, <3>3
  <2> QED BY <2>1, <2>2
<1>7. tier' = LastTier' => \A i \in Sections : i < sec' => bad'[i] \subseteq residue'
  BY <1>2 DEF SentInv
<1> QED BY <1>4, <1>5, <1>6, <1>7 DEF SentInv

\* On to the next section: what the last tier left bad is all sent.
LEMMA OnwardSent ==
    ASSUME TypeInv, SentInv, ended = "none", Onward, UNCHANGED bad,
           residue' = residue \cup (IF tier = LastTier THEN Bad ELSE {})
    PROVE  /\ SentInv' /\ tier' \in 1..LastTier' /\ sec' \in Sections /\ UNCHANGED mode
           /\ \/ pc' = "enter" /\ ended' = "none"
              \/ pc' = "ended" /\ ended' = "complete"
<1>1. /\ sec \in Sections /\ sec \in Nat /\ sec >= 1 /\ sec <= Len(Ordered)
      /\ tier \in Nat /\ tier >= 1 /\ tier <= LastTier /\ LastTier \in Nat
      /\ Bad \subseteq SectorsOf(Ordered[sec])
      /\ Sections = 1..Len(Ordered) /\ Len(Ordered) \in Nat \ {0}
  BY TypeFacts, OrderedFacts
<1>2. UNCHANGED mode
  BY DEF Onward
<1>3. LastTier' = LastTier /\ StillBad' = StillBad
  BY <1>2 DEF LastTier, StillBad
<1>4. Bad \subseteq StillBad /\ bad[sec] = Bad
  BY <1>1 DEF Bad, StillBad
<1>5. /\ residue \subseteq StillBad
      /\ tier < LastTier => residue = {}
      /\ \A i \in Sections : residue \cap SectorsOf(Ordered[i]) # {} => i < sec
      /\ tier = LastTier => \A i \in Sections : i < sec => bad[i] \subseteq residue
  <2>1. residue \subseteq StillBad /\ (tier < LastTier => residue = {})
    BY DEF SentInv
  <2>2. \A i \in Sections : residue \cap SectorsOf(Ordered[i]) # {} => i < sec
    BY DEF SentInv
  <2>3. tier = LastTier => \A i \in Sections : i < sec => bad[i] \subseteq residue
    BY DEF SentInv
  <2> QED BY <2>1, <2>2, <2>3
<1>6. residue' \subseteq StillBad'
  BY <1>3, <1>4, <1>5
<1>7. tier < LastTier => residue' = {}
  <2>1. tier < LastTier => tier # LastTier
    BY <1>1
  <2> QED BY <1>5, <2>1
<1>8. \A i \in Sections : residue' \cap SectorsOf(Ordered[i]) # {} => i < sec \/ i = sec
  <2> TAKE i \in Sections
  <2> HAVE residue' \cap SectorsOf(Ordered[i]) # {}
  <2>1. CASE residue \cap SectorsOf(Ordered[i]) # {}
    BY <1>5, <2>1
  <2>2. CASE Bad \cap SectorsOf(Ordered[i]) # {}
    BY <1>1, <2>2, OrderedFacts
  <2> QED BY <2>1, <2>2
<1>9. tier = LastTier => \A i \in Sections : i <= sec => bad'[i] \subseteq residue'
  <2> HAVE tier = LastTier
  <2> TAKE i \in Sections
  <2> HAVE i <= sec
  <2>1. i < sec \/ i = sec
    BY <1>1
  <2>2. residue' = residue \cup Bad
    OBVIOUS
  <2> QED BY <1>4, <1>5, <2>1, <2>2
<1>10. CASE sec < Len(Ordered)
  <2>1. sec' = sec + 1 /\ tier' = tier /\ pc' = "enter" /\ ended' = "none"
    BY <1>10 DEF Onward
  <2>2. sec' \in Sections
    BY <1>1, <1>10, <2>1
  <2>3. \A i \in Sections : (i < sec' <=> i <= sec) /\ (i < sec \/ i = sec => i < sec')
    BY <1>1, <2>1
  <2>4. SentInv'
    <3>1. tier' < LastTier' => residue' = {}
      BY <1>3, <1>7, <2>1
    <3>2. \A i \in Sections : residue' \cap SectorsOf(Ordered[i]) # {} => i < sec'
      BY <1>8, <2>3
    <3>3. tier' = LastTier' => \A i \in Sections : i < sec' => bad'[i] \subseteq residue'
      BY <1>3, <1>9, <2>1, <2>3
    <3>4. ended' # "complete"
      BY <2>1
    <3> QED BY <1>6, <3>1, <3>2, <3>3, <3>4 DEF SentInv
  <2> QED BY <1>1, <1>2, <1>3, <2>1, <2>2, <2>4
<1>11. CASE ~(sec < Len(Ordered)) /\ tier < LastTier
  <2>1. sec' = 1 /\ tier' = tier + 1 /\ pc' = "enter" /\ ended' = "none" /\ residue' = {}
    BY <1>7, <1>11 DEF Onward
  <2>2. \A i \in Sections : ~(i < sec')
    BY <1>1, <2>1
  <2>3. SentInv'
    BY <1>6, <2>1, <2>2 DEF SentInv
  <2>4. tier' \in 1..LastTier' /\ sec' \in Sections
    BY <1>1, <1>3, <1>11, <2>1
  <2> QED BY <1>2, <2>1, <2>3, <2>4
<1>12. CASE ~(sec < Len(Ordered)) /\ ~(tier < LastTier)
  <2>1. pc' = "ended" /\ ended' = "complete" /\ UNCHANGED <<tier, sec>>
    BY <1>12 DEF Onward
  <2>2. tier = LastTier /\ \A i \in Sections : i <= sec
    BY <1>1, <1>12
  <2>3. StillBad' \subseteq residue'
    BY <1>9, <2>2 DEF StillBad
  <2>4. \A i \in Sections : i < sec => i <= sec
    BY <2>2
  <2>5. SentInv'
    <3>1. tier' = LastTier' /\ ~(tier' < LastTier')
      BY <1>1, <1>3, <2>1, <2>2
    <3>2. \A i \in Sections : residue' \cap SectorsOf(Ordered[i]) # {} => i < sec' \/ i = sec'
      BY <1>8, <2>1
    <3>3. \A i \in Sections : i < sec' => bad'[i] \subseteq residue'
      BY <1>9, <2>1, <2>2, <2>4
    <3> QED BY <1>6, <2>1, <2>3, <3>1, <3>2, <3>3 DEF SentInv
  <2> QED BY <1>1, <1>2, <1>3, <2>1, <2>5
<1> QED BY <1>10, <1>11, <1>12

\* What a step between handlers leaves as it is.
LEMMA BetweenType ==
    ASSUME TypeInv, UNCHANGED <<mode, bad, wedge, stop, dead>>, tier' \in 1..LastTier',
           sec' \in Sections, todo' \subseteq Handlers, speed' \in {"unset", "min", "max"},
           latch' \in BOOLEAN
    PROVE  TypeInv'
BY DEF TypeInv

LEMMA SkipSectionInv == ASSUME IInv, SkipSection PROVE IInv'
<1>1. /\ pc = "enter" /\ Bad = {} /\ Onward
      /\ UNCHANGED <<written, residue, dead, wedge, bad, todo, h, speed, stop, latch, chain>>
  BY DEF SkipSection, sent, streaks
<1>2. /\ TypeInv /\ PcInv /\ Claims /\ SentInv /\ DropInv
      /\ ended = "none" /\ chain = "none"
  BY <1>1, InvFacts DEF PcInv
<1>3. residue' = residue \cup (IF tier = LastTier THEN Bad ELSE {})
  BY <1>1
<1>4. /\ SentInv' /\ tier' \in 1..LastTier' /\ sec' \in Sections /\ UNCHANGED mode
      /\ \/ pc' = "enter" /\ ended' = "none"
         \/ pc' = "ended" /\ ended' = "complete"
  BY <1>1, <1>2, <1>3, OnwardSent
<1>5. TypeInv'
  <2>1. todo \subseteq Handlers /\ speed \in {"unset", "min", "max"} /\ latch \in BOOLEAN
    BY <1>2 DEF TypeInv
  <2> QED BY <1>1, <1>2, <1>4, <2>1, BetweenType
<1>6. PcInv'
  <2>1. speed \in {"max", "unset"} /\ wedge < WedgeAbort
    BY <1>1, <1>2 DEF PcInv
  <2> QED BY <1>1, <1>2, <1>4, <2>1 DEF PcInv
<1>7. Claims'
  <2>1. stop \in BOOLEAN
    BY <1>2, TypeFacts
  <2> QED BY <1>1, <1>2, <2>1, ClaimsKept
<1>8. DropInv'
  <2>1. mode.reports => All \ StillBad = written
    BY <1>1, <1>2 DEF DropInv
  <2>2. StillBad' = StillBad
    BY <1>1 DEF StillBad
  <2> QED BY <1>1, <1>4, <2>1, <2>2 DEF DropInv
<1> QED BY <1>4, <1>5, <1>6, <1>7, <1>8 DEF IInv

LEMMA EnterSectionInv == ASSUME IInv, EnterSection PROVE IInv'
<1>1. /\ pc = "enter" /\ UNCHANGED place
      /\ UNCHANGED <<written, residue, dead, wedge, bad, h, stop, chain>>
      /\ \/ /\ pc' = "ended" /\ ended' = "halted" /\ UNCHANGED <<todo, speed, latch>>
         \/ /\ pc' = "chain" /\ todo' = Roster /\ speed' = "max" /\ latch' = FALSE
            /\ UNCHANGED ended
  BY DEF EnterSection, PassEnds, sent, streaks
<1>2. /\ TypeInv /\ PcInv /\ Claims /\ SentInv /\ DropInv
      /\ ended = "none" /\ chain = "none" /\ wedge < WedgeAbort
  BY <1>1, InvFacts DEF PcInv
<1>3. todo' \subseteq Handlers /\ speed' \in {"unset", "max"} /\ latch' \in BOOLEAN
  <2>1. todo \subseteq Handlers /\ speed \in {"unset", "max"} /\ latch \in BOOLEAN
    BY <1>1, <1>2 DEF TypeInv, PcInv
  <2> QED BY <1>1, <1>2, <2>1, RosterFacts
<1>4. UNCHANGED <<mode, tier, sec>> /\ LastTier' = LastTier
  BY <1>1 DEF place, LastTier
<1>5. TypeInv'
  <2>1. tier' \in 1..LastTier' /\ sec' \in Sections
    BY <1>2, <1>4 DEF TypeInv
  <2> QED BY <1>1, <1>2, <1>3, <1>4, <2>1, BetweenType
<1>6. PcInv'
  BY <1>1, <1>2, <1>3 DEF PcInv
<1>7. Claims'
  <2>1. stop \in BOOLEAN
    BY <1>2, TypeFacts
  <2> QED BY <1>1, <1>2, <2>1, ClaimsKept
<1>8. SentInv'
  <2>1. CASE UNCHANGED ended
    BY <1>1, <1>2, <2>1, SentKept
  <2>2. CASE ended' = "halted"
    <3>1. {} \in SUBSET Bad /\ residue' = residue \cup {}
      BY <1>1
    <3> QED BY <1>1, <1>2, <2>2, <3>1, EndsSent
  <2> QED BY <1>1, <2>1, <2>2
<1>9. DropInv'
  BY <1>1, <1>2 DEF DropInv
<1> QED BY <1>5, <1>6, <1>7, <1>8, <1>9 DEF IInv

LEMMA LeaveSectionInv == ASSUME IInv, LeaveSection PROVE IInv'
<1>1. /\ pc = "leave" /\ chain' = "none" /\ todo' = {}
      /\ UNCHANGED <<written, dead, wedge, bad, h, speed, stop, latch>>
  BY DEF LeaveSection, streaks
<1>2. /\ TypeInv /\ PcInv /\ Claims /\ SentInv /\ DropInv /\ ended = "none"
      /\ speed \in {"max", "unset"} /\ (wedge < WedgeAbort \/ chain = "transport")
  BY <1>1, InvFacts DEF PcInv
<1>3. /\ Ranges \in Nat /\ \A k \in 0..Ranges : Residue(k) \subseteq Bad
      /\ Residue(Ranges) = (IF tier = LastTier THEN Bad ELSE {})
      /\ tier # LastTier => Ranges = 0
  BY <1>2, ResidueFacts
<1>4. Claims'
  <2>1. stop \in BOOLEAN
    BY <1>2, TypeFacts
  <2> QED BY <1>1, <1>2, <2>1, ClaimsKept
<1>5. todo' \subseteq Handlers /\ speed' \in {"unset", "min", "max"} /\ latch' \in BOOLEAN
  <2>1. latch \in BOOLEAN
    BY <1>2, TypeFacts
  <2> QED BY <1>1, <1>2, <2>1
<1>6. ASSUME NEW how \in {"halted", "wedged", "fatal", "stuck"}, PassEnds(how),
             wedge < WedgeAbort \/ how # "fatal",
             NEW R \in SUBSET Bad, residue' = residue \cup R,
             R # {} => tier = LastTier /\ how # "fatal"
      PROVE  IInv'
  <2>1. pc' = "ended" /\ ended' = how /\ UNCHANGED place
    BY <1>6 DEF PassEnds
  <2>2. UNCHANGED <<mode, tier, sec>> /\ LastTier' = LastTier
    BY <2>1 DEF place, LastTier
  <2>3. TypeInv'
    <3>1. tier' \in 1..LastTier' /\ sec' \in Sections
      BY <1>2, <2>2 DEF TypeInv
    <3> QED BY <1>1, <1>2, <1>5, <2>2, <3>1, BetweenType
  <2>4. PcInv'
    <3>1. ended' \in {"halted", "wedged", "fatal", "stuck"}
      BY <2>1
    <3>2. wedge' < WedgeAbort \/ ended' \in {"wedged", "halted", "stuck"}
      BY <1>1, <1>6, <2>1
    <3> QED BY <1>1, <1>2, <2>1, <3>1, <3>2 DEF PcInv
  <2>5. SentInv'
    <3>1. ended' \notin {"none", "complete"}
      BY <2>1
    <3>2. R # {} => tier = LastTier /\ ended' # "fatal"
      BY <1>6, <2>1
    <3> QED BY <1>1, <1>2, <1>6, <2>1, <3>1, <3>2, EndsSent
  <2>6. DropInv'
    BY <2>1 DEF DropInv
  <2> QED BY <1>4, <2>3, <2>4, <2>5, <2>6 DEF IInv
<1>7. CASE chain = "fatal" /\ PassEnds("fatal") /\ residue' = residue
  <2>1. wedge < WedgeAbort
    BY <1>2, <1>7
  <2>2. {} \in SUBSET Bad /\ residue' = residue \cup {}
    BY <1>7
  <2>3. "fatal" \in {"halted", "wedged", "fatal", "stuck"}
    OBVIOUS
  <2> QED BY <1>6, <1>7, <2>1, <2>2, <2>3
<1>8. CASE Left(Ranges) /\ LeaveAs
  <2>1. residue' = residue \cup Residue(Ranges) /\ Residue(Ranges) \in SUBSET Bad
    BY <1>3, <1>8 DEF Left
  <2>2. CASE PassEnds("halted")
    <3>1. Residue(Ranges) # {} => tier = LastTier
      BY <1>3
    <3> QED BY <1>6, <2>1, <2>2, <3>1
  <2>3. CASE PassEnds("wedged")
    <3>1. Residue(Ranges) # {} => tier = LastTier
      BY <1>3
    <3> QED BY <1>6, <2>1, <2>3, <3>1
  <2>4. CASE ~Stopped /\ chain # "transport" /\ Onward
    <3>1. /\ SentInv' /\ tier' \in 1..LastTier' /\ sec' \in Sections /\ UNCHANGED mode
          /\ \/ pc' = "enter" /\ ended' = "none"
             \/ pc' = "ended" /\ ended' = "complete"
      <4>1. residue' = residue \cup (IF tier = LastTier THEN Bad ELSE {})
        BY <1>3, <2>1
      <4> QED BY <1>1, <1>2, <2>4, <4>1, OnwardSent
    <3>2. TypeInv'
      BY <1>1, <1>2, <1>5, <3>1, BetweenType
    <3>3. PcInv'
      BY <1>1, <1>2, <2>4, <3>1 DEF PcInv
    <3>4. DropInv'
      <4>1. StillBad' = StillBad
        BY <1>1 DEF StillBad
      <4>2. mode.reports => ~stop
        BY <2>4 DEF Stopped
      <4> QED BY <1>1, <1>2, <3>1, <4>1, <4>2 DEF DropInv, Claims
    <3> QED BY <1>4, <3>1, <3>2, <3>3, <3>4 DEF IInv
  <2> QED BY <1>8, <2>2, <2>3, <2>4 DEF LeaveAs
<1>9. CASE /\ \E k \in 0..(Ranges - 1) : Left(k)
           /\ PassEnds("stuck") \/ PassEnds("halted")
  <2>1. PICK k \in 0..(Ranges - 1) : Left(k)
    BY <1>9
  <2>2. k \in 0..Ranges /\ Ranges # 0
    BY <1>3
  <2>3. residue' = residue \cup Residue(k) /\ Residue(k) \in SUBSET Bad /\ tier = LastTier
    BY <1>3, <2>1, <2>2 DEF Left
  <2>4. CASE PassEnds("stuck")
    BY <1>6, <2>3, <2>4
  <2>5. CASE PassEnds("halted")
    BY <1>6, <2>3, <2>5
  <2> QED BY <1>9, <2>4, <2>5
<1>10. \/ chain = "fatal" /\ PassEnds("fatal") /\ residue' = residue
       \/ Left(Ranges) /\ LeaveAs
       \/ /\ \E k \in 0..(Ranges - 1) : Left(k)
          /\ PassEnds("stuck") \/ PassEnds("halted")
  BY DEF LeaveSection
<1> QED BY <1>7, <1>8, <1>9, <1>10

----------------------------------------------------------------------------
(* The theorems. *)

LEMMA StepInv == ASSUME IInv, [Next]_vars PROVE IInv'
<1>1. CASE Next
  <2>1. CASE Stop
    BY <2>1, StopInv
  <2>2. CASE SkipSection \/ EnterSection \/ LeaveSection
    BY <2>2, SkipSectionInv, EnterSectionInv, LeaveSectionInv
  <2>3. CASE NextHandler \/ ChainOver
    BY <2>3, NextHandlerInv, ChainOverInv
  <2>4. CASE HandlerHalts \/ HandlerYields \/ HandlerDone
    BY <2>4, HandlerOverInv
  <2>5. CASE ReadGood \/ ReadBad \/ ReadWedge
    BY <2>5, ReadGoodInv, ReadBadInv, ReadWedgeInv
  <2>6. CASE ReadEnds("transport") \/ ReadEnds("fatal")
    BY <2>6, ReadEndsInv
  <2> QED BY <1>1, <2>1, <2>2, <2>3, <2>4, <2>5, <2>6 DEF Next, Step, Reading
<1>2. CASE UNCHANGED vars
  <2>1. /\ UNCHANGED <<place, sent, bad, stop, ended, pc>>
        /\ UNCHANGED <<dead, wedge, todo, speed, latch, chain, h>>
        /\ UNCHANGED <<mode, tier, sec>>
    BY <1>2 DEF vars, place, streaks
  <2>2. Claims' /\ SentInv' /\ DropInv'
    BY <2>1, AsideKept
  <2>3. TypeInv'
    <3>1. TypeInv /\ LastTier' = LastTier
      BY <2>1, InvFacts DEF LastTier
    <3> QED BY <2>1, <3>1 DEF TypeInv
  <2>4. PcInv'
    <3>1. (SectorsOf(Ordered[sec]))' = SectorsOf(Ordered[sec]) /\ Bad' = Bad
      BY <2>1 DEF Bad
    <3> QED BY <2>1, <3>1, InvFacts DEF PcInv
  <2> QED BY <2>2, <2>3, <2>4 DEF IInv
<1> QED BY <1>1, <1>2

LEMMA InvAlways == Spec => []IInv
<1>1. Init => IInv
  BY InitInv
<1>2. IInv /\ [Next]_vars => IInv'
  BY StepInv
<1> QED BY <1>1, <1>2, PTL DEF Spec

\* Every reachable state of every patch pass is well typed: whatever the drive
\* answers and whenever a deadline or a Stop comes, a handler reads no sector
\* off the disc and no more than a batch at once, the drive is at full speed
\* between handlers, and a wedge streak at its limit ends the pass.
THEOREM TypeCorrect == Spec => []TypeOK
<1>1. IInv => TypeOK
  <2> SUFFICES ASSUME IInv PROVE TypeOK
    OBVIOUS
  <2>1. TypeInv /\ PcInv
    BY InvFacts
  <2>2. Reads => SectorsOf(Wanted) \subseteq 0..(Capacity - 1) /\ Wanted.len \in 1..Batch
    BY ReadFacts
  <2>3. /\ mode \in Modes /\ tier \in 1..LastTier /\ sec \in Sections
        /\ \A i \in Sections : bad[i] \subseteq SectorsOf(Ordered[i])
        /\ dead \in 0..Yield
    BY <2>1 DEF TypeInv
  <2>4. /\ pc \in {"enter", "chain", "handler", "leave", "ended"}
        /\ ended \in {"none", "complete", "halted", "wedged", "fatal", "stuck"}
        /\ ended = "none" <=> pc # "ended"
        /\ pc # "handler" => speed \in {"max", "unset"}
        /\ wedge < WedgeAbort \/ chain = "transport" \/ ended \in {"wedged", "halted", "stuck"}
    BY <2>1 DEF PcInv
  <2> QED BY <2>2, <2>3, <2>4 DEF TypeOK
<1> QED BY <1>1, InvAlways, PTL

\* For any damaged ranges, tiers, handlers and limits, every sector of a pass is
\* accounted for: it leaves the bad set exactly as the sink is given it, whether
\* a walk or a prime read brought it; a pass that completes has sent each one as
\* recovered or as residue, even after a Stop where it reports its progress; and
\* residue is the last tier's alone.
THEOREM AccountedAlways == Spec => []Accounted
<1>1. IInv => Accounted
  <2> SUFFICES ASSUME IInv PROVE Accounted
    OBVIOUS
  <2>1. Claims /\ SentInv /\ DropInv /\ TypeInv
    BY InvFacts
  <2>2. Finishes
    <3> SUFFICES ASSUME ended = "complete", mode.reports \/ ~stop
                 PROVE  written \cup residue = All
      BY DEF Finishes
    <3>1. All \ StillBad = written
      BY <2>1 DEF Claims, DropInv
    <3>2. StillBad \subseteq All
      BY <2>1 DEF StillBad, All, TypeInv
    <3>3. residue = StillBad
      BY <2>1 DEF SentInv
    <3> QED BY <3>1, <3>2, <3>3
  <2>3. Leftovers
    <3>1. residue \subseteq StillBad
      BY <2>1 DEF SentInv
    <3>2. residue # {} => tier = LastTier
      <4>1. tier < LastTier \/ tier = LastTier
        BY <2>1, TypeFacts
      <4> QED BY <2>1, <4>1 DEF SentInv
    <3>3. ended = "fatal" => residue \cap SectorsOf(Ordered[sec]) = {}
      <4>1. sec \in Sections /\ ~(sec < sec)
        BY <2>1, TypeFacts
      <4> QED BY <2>1, <4>1 DEF SentInv
    <3> QED BY <3>1, <3>2, <3>3 DEF Leftovers
  <2> QED BY <2>1, <2>2, <2>3 DEF Accounted
<1> QED BY <1>1, InvAlways, PTL
=============================================================================
