---------------------------- MODULE SweepProofs ----------------------------
(* Proofs about Sweep: for any disc, any mapfile found, any scopes and any
   answers of the drive, the passes keep the map exact, complete only what
   they read, and implement SectorMap.                                     *)
EXTENDS Sweep, RangesProofs

----------------------------------------------------------------------------
(* Sectors and units. *)

LEMMA Dist ==
    ASSUME NEW a \in Nat, NEW b \in Nat
    PROVE  /\ a * Sector \in Nat /\ b * Sector \in Nat
           /\ (a + b) * Sector = a * Sector + b * Sector
BY SectorAssumption

LEMMA Order ==
    ASSUME NEW a \in Nat, NEW b \in Nat
    PROVE  /\ a < b => a * Sector < b * Sector
           /\ a <= b => a * Sector <= b * Sector
           /\ a * Sector < b * Sector => a < b
           /\ a * Sector <= b * Sector => a <= b
<1>1. a * Sector \in Nat /\ b * Sector \in Nat /\ Sector \in Nat \ {0}
  BY Dist, SectorAssumption
<1>2. a < b => a * Sector + Sector <= b * Sector
  BY Times
<1>3. b < a => b * Sector + Sector <= a * Sector
  BY Times
<1>4. a = b => a * Sector = b * Sector
  OBVIOUS
<1> QED BY <1>1, <1>2, <1>3, <1>4

LEMMA DivTimes ==
    ASSUME NEW k \in Nat
    PROVE  (k * Sector) \div Sector = k
<1> DEFINE x == k * Sector
           q == x \div Sector
<1>1. x \in Nat /\ Sector \in Nat \ {0}
  BY Dist, SectorAssumption
<1>2. q \in Nat /\ q * Sector <= x /\ x < q * Sector + Sector
  <2> HIDE DEF x
  <2> QED BY <1>1, SectorOf
<1> HIDE DEF q
<1>3. q * Sector \in Nat
  BY <1>2, Dist
<1>4. q <= k
  BY <1>2, Order DEF x
<1>5. ~(q < k)
  <2>1. SUFFICES ASSUME q < k PROVE FALSE
    OBVIOUS
  <2>2. q * Sector + Sector <= x
    BY <1>2, <2>1, Times DEF x
  <2> QED BY <1>1, <1>2, <1>3, <2>2
<1> QED BY <1>2, <1>4, <1>5 DEF q, x

LEMMA UnitsOfFacts ==
    ASSUME NEW s \in Sectors
    PROVE  /\ s \in Nat /\ UnitsOf[s] \subseteq Units
           /\ \A u : u \in UnitsOf[s] <=> u \in Nat /\ s * Sector <= u /\ u < s * Sector + Sector
           /\ s * Sector + Sector <= Total
<1> DEFINE t == Total \div Sector
<1>1. Sector \in Nat \ {0} /\ Total \in Nat /\ t \in Nat /\ t * Sector = Total
  BY SectorAssumption, TotalAssumption
<1>2. s \in Nat /\ s < t
  BY <1>1 DEF Sectors
<1> HIDE DEF t
<1>3. s * Sector \in Nat /\ s * Sector + Sector <= Total
  BY <1>1, <1>2, Times
<1>4. UnitsOf[s] = (s * Sector)..(s * Sector + Sector - 1)
  BY DEF UnitsOf
<1>5. \A u : u \in UnitsOf[s] <=> u \in Nat /\ s * Sector <= u /\ u < s * Sector + Sector
  BY <1>1, <1>3, <1>4
<1>6. UnitsOf[s] \subseteq Units
  BY <1>1, <1>3, <1>5 DEF Units
<1> QED BY <1>2, <1>3, <1>5, <1>6

LEMMA SectorIn ==
    ASSUME NEW k \in Nat, k * Sector < Total
    PROVE  k \in Sectors
<1> DEFINE t == Total \div Sector
<1>1. Sector \in Nat \ {0} /\ Total \in Nat /\ t \in Nat /\ t * Sector = Total
  BY SectorAssumption, TotalAssumption
<1>2. Sectors = 0..(t - 1)
  BY DEF Sectors
<1> HIDE DEF t
<1>3. k < t
  BY <1>1, Order
<1> QED BY <1>1, <1>2, <1>3

LEMMA UnitSector ==
    ASSUME NEW u \in Units
    PROVE  \E s \in Sectors : u \in UnitsOf[s]
<1> DEFINE k == u \div Sector
<1>1. u \in Nat /\ u < Total /\ Total \in Nat
  BY TotalAssumption DEF Units
<1>2. k \in Nat /\ k * Sector <= u /\ u < k * Sector + Sector
  BY <1>1, SectorOf
<1> HIDE DEF k
<1>3. k * Sector \in Nat
  BY <1>2, Dist
<1>4. k \in Sectors
  BY <1>1, <1>2, <1>3, SectorIn
<1> QED BY <1>1, <1>2, <1>4, UnitsOfFacts

\* A sector is in or out of a range of whole sectors.
LEMMA InSectors ==
    ASSUME NEW s \in Sectors, NEW u \in UnitsOf[s], NEW a \in Nat, NEW z \in Nat
    PROVE  a * Sector <= u /\ u < z * Sector <=> a <= s /\ s < z
<1>1. /\ s \in Nat /\ u \in Nat /\ s * Sector <= u /\ u < s * Sector + Sector
      /\ Sector \in Nat \ {0}
  BY UnitsOfFacts, SectorAssumption
<1>2. a * Sector \in Nat /\ z * Sector \in Nat /\ s * Sector \in Nat
  BY <1>1, Dist
<1>3. a * Sector <= u <=> a <= s
  <2>1. a <= s => a * Sector <= s * Sector
    BY <1>1, Order
  <2>2. s < a => s * Sector + Sector <= a * Sector
    BY <1>1, Times
  <2> QED BY <1>1, <1>2, <2>1, <2>2
<1>4. u < z * Sector <=> s < z
  <2>1. z <= s => z * Sector <= s * Sector
    BY <1>1, Order
  <2>2. s < z => s * Sector + Sector <= z * Sector
    BY <1>1, Times
  <2> QED BY <1>1, <1>2, <2>1, <2>2
<1> QED BY <1>3, <1>4

LEMMA StatusSays ==
    ASSUME NEW m, Exact(m), NEW u \in Units
    PROVE  /\ StatusAt(m, u) \in Statuses
           /\ \A t : Says(m, u, t) <=> t = StatusAt(m, u)
<1>1. m \subseteq Runs /\ Apart(m) /\ u \in Covered(m) /\ u \in Nat
  BY DEF Exact, Apart, Units
<1>2. \E r \in m : u \in UnitsIn(r)
  BY <1>1 DEF Covered
<1> DEFINE r == CHOOSE q \in m : u \in UnitsIn(q)
<1>3. r \in m /\ u \in UnitsIn(r)
  BY <1>2
<1>4. StatusAt(m, u) = r.status
  BY DEF StatusAt
<1> HIDE DEF r
<1>5. r.status \in Statuses
  BY <1>1, <1>3, RunUnits
<1>6. \A t : Says(m, u, t) <=> t = r.status
  BY <1>1, <1>3 DEF Says, Apart
<1> QED BY <1>4, <1>5, <1>6

----------------------------------------------------------------------------
(* Recording whole sectors. *)

\* v is m, with the units from p to e given status s.
Marked(m, v, p, e, s) ==
    /\ Exact(v)
    /\ \A u \in Nat : \A t : Says(v, u, t) <=> IF p <= u /\ u < e THEN t = s ELSE Says(m, u, t)

LEMMA RecordMarks ==
    ASSUME NEW m, Exact(m), NEW p \in Nat, NEW n \in Nat, p + n <= Total, NEW s \in Statuses
    PROVE  /\ Marked(m, Record(m, p, n, s), p, p + n, s)
           /\ Recount(Tallied(m), m, p, n, s) = Tallied(Record(m, p, n, s))
<1>1. CASE n = 0
  <2>1. Record(m, p, n, s) = m /\ Recount(Tallied(m), m, p, n, s) = Tallied(m)
    BY <1>1 DEF Record, Recount
  <2>2. \A u \in Nat : ~(p <= u /\ u < p + n)
    BY <1>1
  <2> QED BY <2>1, <2>2 DEF Marked
<1>2. CASE n # 0
  <2>1. n \in Nat \ {0}
    BY <1>2
  <2> QED BY <2>1, RecordFacts, RecountFacts DEF Marked
<1> QED BY <1>1, <1>2

LEMMA MarksJoin ==
    ASSUME NEW m, NEW v, NEW w, NEW p \in Nat, NEW e \in Nat, NEW f \in Nat, NEW s,
           p <= e, e <= f, Marked(m, v, p, e, s), Marked(v, w, e, f, s)
    PROVE  Marked(m, w, p, f, s)
<1>1. Exact(w)
  BY DEF Marked
<1>2. ASSUME NEW u \in Nat, NEW t
      PROVE  Says(w, u, t) <=> IF p <= u /\ u < f THEN t = s ELSE Says(m, u, t)
  <2>1. Says(w, u, t) <=> IF e <= u /\ u < f THEN t = s ELSE Says(v, u, t)
    BY DEF Marked
  <2>2. Says(v, u, t) <=> IF p <= u /\ u < e THEN t = s ELSE Says(m, u, t)
    BY DEF Marked
  <2>3. CASE e <= u /\ u < f
    BY <2>1, <2>3
  <2>4. CASE p <= u /\ u < e
    BY <2>1, <2>2, <2>4
  <2>5. CASE u < p \/ f <= u
    BY <2>1, <2>2, <2>5
  <2> QED BY <2>3, <2>4, <2>5
<1> QED BY <1>1, <1>2 DEF Marked

\* The sectors of a range, all of them open to the pass.
Spans1(r, a, z, op) ==
    /\ a \in Nat /\ z \in Nat /\ a <= z /\ Sectors1(r, a, z) /\ r.size \in Nat
    /\ z * Sector <= Total
    /\ \A k \in Nat : a <= k /\ k < z => k \in op
RegionOK(r, op) == \E a, z : Spans1(r, a, z, op)

LEMMA SpanFacts ==
    ASSUME NEW r, NEW a, NEW z, NEW op, Spans1(r, a, z, op)
    PROVE  /\ a \in Nat /\ z \in Nat /\ a <= z /\ a * Sector \in Nat /\ z * Sector \in Nat
           /\ r.pos = a * Sector /\ r.size = (z - a) * Sector
           /\ a * Sector + r.size = z * Sector
           /\ r.size \div Sector = z - a
           /\ r.size > 0 <=> a < z
           /\ \A u : u \in UnitsIn(r) <=> u \in Nat /\ a * Sector <= u /\ u < z * Sector
<1>1. /\ a \in Nat /\ z \in Nat /\ a <= z /\ r.pos = a * Sector /\ End(r) = z * Sector
      /\ r.size \in Nat
  BY DEF Spans1, Sectors1
<1> DEFINE k == z - a
<1>2. k \in Nat /\ a + k = z /\ (k > 0 <=> a < z)
  BY <1>1
<1> HIDE DEF k
<1>3. a * Sector \in Nat /\ k * Sector \in Nat /\ z * Sector = a * Sector + k * Sector
  BY <1>1, <1>2, Dist
<1>4. a * Sector + r.size = z * Sector
  BY <1>1 DEF End
<1>5. r.size = k * Sector
  BY <1>1, <1>3, <1>4
<1>6. r.size \div Sector = k
  BY <1>2, <1>5, DivTimes
<1>7. k > 0 <=> k * Sector > 0
  BY <1>2, SectorAssumption
<1>8. UnitsIn(r) = (a * Sector)..(z * Sector - 1)
  BY <1>1 DEF UnitsIn
<1>9. \A u : u \in UnitsIn(r) <=> u \in Nat /\ a * Sector <= u /\ u < z * Sector
  BY <1>3, <1>8
<1>10. r.size > 0 <=> a < z
  BY <1>2, <1>5, <1>7
<1> QED BY <1>1, <1>3, <1>4, <1>5, <1>6, <1>9, <1>10 DEF k

LEMMA BlockFacts ==
    ASSUME NEW a, NEW z, NEW op, Spans1(region, a, z, op), region.size > 0, NEW k \in Blocks
    PROVE  /\ k \in Nat \ {0} /\ a + k <= z
           /\ k * Sector \in Nat /\ region.pos + k * Sector = (a + k) * Sector
           /\ region.size - k * Sector = (z - (a + k)) * Sector
<1>1. /\ a \in Nat /\ z \in Nat /\ a < z /\ region.pos = a * Sector
      /\ region.size = (z - a) * Sector /\ region.size \div Sector = z - a
  BY SpanFacts
<1>2. Batch \in Nat \ {0}
  BY BatchAssumption
<1>3. Blocks = IF z - a <= Batch THEN {z - a} ELSE 1..Batch
  BY <1>1 DEF Blocks
<1>4. k \in Nat \ {0} /\ a + k <= z
  <2>1. CASE z - a <= Batch
    BY <1>1, <1>3, <2>1
  <2>2. CASE ~(z - a <= Batch)
    BY <1>1, <1>2, <1>3, <2>2
  <2> QED BY <2>1, <2>2
<1>5. (a + k) * Sector = a * Sector + k * Sector /\ k * Sector \in Nat
  BY <1>1, <1>4, Dist
<1> DEFINE l == z - (a + k)
<1>6. l \in Nat /\ k + l = z - a
  BY <1>1, <1>4
<1> HIDE DEF l
<1>7. (k + l) * Sector = k * Sector + l * Sector /\ l * Sector \in Nat
  BY <1>4, <1>6, Dist
<1>8. region.size = k * Sector + l * Sector
  BY <1>1, <1>6, <1>7
<1>9. region.size - k * Sector = l * Sector
  BY <1>5, <1>7, <1>8
<1> QED BY <1>1, <1>4, <1>5, <1>9 DEF l

\* A step records sectors a to c, and says so in the counters.
Done(a, c, s) == Marked(map, map', a * Sector, c * Sector, s) /\ counts' = Tallied(map')
Moved(c, z) == Sectors1(region', c, z) /\ region'.size \in Nat /\ todo' = todo
\* The map is exact, and its counters are those of a full count.
MapInv == Exact(map) /\ counts = Tallied(map)

LEMMA SentDone ==
    ASSUME MapInv, NEW a, NEW z, NEW op, Spans1(region, a, z, op), region.size > 0,
           NEW k \in Blocks, NEW s \in Statuses, Sent(k * Sector, s)
    PROVE  Done(a, a + k, s)
<1> DEFINE n == k * Sector
<1>1. /\ k \in Nat \ {0} /\ a + k <= z /\ n \in Nat /\ region.pos + n = (a + k) * Sector
  BY BlockFacts
<1>2. /\ a \in Nat /\ z \in Nat /\ region.pos = a * Sector /\ a * Sector \in Nat
      /\ z * Sector \in Nat /\ z * Sector <= Total
  BY SpanFacts DEF Spans1
<1>3. map' = Record(map, region.pos, n, s) /\ counts' = Recount(counts, map, region.pos, n, s)
  BY DEF Sent
<1> HIDE DEF n
<1>4. (a + k) * Sector <= z * Sector /\ (a + k) * Sector \in Nat
  BY <1>1, <1>2, Order, Dist
<1>5. region.pos \in Nat /\ region.pos + n <= Total
  BY <1>1, <1>2, <1>4, TotalAssumption
<1>6. /\ Marked(map, Record(map, region.pos, n, s), region.pos, region.pos + n, s)
      /\ Recount(Tallied(map), map, region.pos, n, s) = Tallied(Record(map, region.pos, n, s))
  BY <1>1, <1>5, RecordMarks DEF MapInv
<1> QED BY <1>1, <1>2, <1>3, <1>6 DEF Done, MapInv

LEMMA OnwardMoves ==
    ASSUME NEW a, NEW z, NEW op, Spans1(region, a, z, op), NEW c \in Nat, a <= c, c <= z,
           NEW n \in Nat, region.pos + n = c * Sector, Onward(n)
    PROVE  Moved(c, z)
<1>1. /\ a \in Nat /\ z \in Nat /\ region.pos = a * Sector /\ a * Sector \in Nat
      /\ z * Sector \in Nat /\ a * Sector + region.size = z * Sector /\ region.size \in Nat
  BY SpanFacts DEF Spans1
<1>2. region' = [pos |-> region.pos + n, size |-> region.size - n] /\ todo' = todo
  BY DEF Onward, Range1
<1>3. c * Sector \in Nat /\ c * Sector <= z * Sector
  BY <1>1, Order, Dist
<1>4. region.size - n \in Nat /\ (region.pos + n) + (region.size - n) = z * Sector
  BY <1>1, <1>3
<1>5. region'.pos = c * Sector /\ region'.size = region.size - n
  BY <1>2
<1>6. End(region') = z * Sector
  BY <1>2, <1>4 DEF End
<1> QED BY <1>2, <1>4, <1>5, <1>6 DEF Moved, Sectors1

\* A block and the gap jumped after it.
LEMMA GapDone ==
    ASSUME MapInv, NEW a, NEW z, NEW op, Spans1(region, a, z, op), region.size > 0,
           NEW k \in Blocks, NEW g \in Nat,
           SentWithGap(k * Sector, Gap(k * Sector, g)),
           Onward(k * Sector + Gap(k * Sector, g))
    PROVE  \E c \in Nat : a < c /\ c <= z /\ Done(a, c, "NonTrimmed") /\ Moved(c, z)
<1> DEFINE n == k * Sector
           p == region.pos
           l == Least(g, z - (a + k))
           c == a + k + l
<1>1. /\ k \in Nat \ {0} /\ a + k <= z /\ n \in Nat /\ p + n = (a + k) * Sector
      /\ region.size - n = (z - (a + k)) * Sector
  BY BlockFacts
<1>2. /\ a \in Nat /\ z \in Nat /\ p = a * Sector /\ a * Sector \in Nat
      /\ z * Sector \in Nat /\ z * Sector <= Total
  BY SpanFacts DEF Spans1
<1>3. l \in Nat /\ l <= z - (a + k)
  BY <1>1, <1>2 DEF Least
<1>4. Gap(n, g) = l * Sector
  <2> DEFINE y == z - (a + k)
  <2>1. y \in Nat /\ region.size - n = y * Sector
    BY <1>1, <1>2
  <2>2. l = IF g < y THEN g ELSE y
    BY DEF Least
  <2>3. Gap(n, g) = IF g * Sector < region.size - n THEN g * Sector ELSE region.size - n
    BY DEF Gap, Least
  <2> HIDE DEF y, n, l
  <2>4. g < y <=> g * Sector < y * Sector
    BY <2>1, Order
  <2> QED BY <2>1, <2>2, <2>3, <2>4
<1> DEFINE m == Record(map, p, n, "NonTrimmed")
           d == Recount(counts, map, p, n, "NonTrimmed")
           q == l * Sector
<1>5. /\ map' = Record(m, p + n, q, "NonTrimmed")
      /\ counts' = Recount(d, m, p + n, q, "NonTrimmed")
  BY <1>4 DEF SentWithGap
<1>6. c \in Nat /\ a < c /\ c <= z /\ a + k \in Nat /\ c = (a + k) + l /\ a + k <= c /\ a <= a + k
  BY <1>1, <1>2, <1>3
<1>7. q \in Nat /\ (a + k) * Sector + q = c * Sector /\ c * Sector \in Nat /\ (a + k) * Sector \in Nat
  BY <1>3, <1>6, Dist
<1>8. /\ c * Sector <= z * Sector /\ (a + k) * Sector <= c * Sector
      /\ a * Sector <= (a + k) * Sector
  BY <1>2, <1>6, Order
<1> HIDE DEF n, p, l, c, m, d, q
<1>9. p \in Nat /\ p + n <= Total /\ (p + n) + q <= Total /\ p + n \in Nat
  BY <1>1, <1>2, <1>7, <1>8, TotalAssumption
<1>10. "NonTrimmed" \in Statuses
  BY DEF Statuses
<1>11. Marked(map, m, p, p + n, "NonTrimmed") /\ d = Tallied(m)
  BY <1>1, <1>9, <1>10, RecordMarks DEF MapInv, m, d
<1>12. Exact(m)
  BY <1>11 DEF Marked
<1>13. /\ Marked(m, Record(m, p + n, q, "NonTrimmed"), p + n, (p + n) + q, "NonTrimmed")
       /\ Recount(Tallied(m), m, p + n, q, "NonTrimmed") = Tallied(Record(m, p + n, q, "NonTrimmed"))
  BY <1>7, <1>9, <1>10, <1>12, RecordMarks
<1>14. counts' = Tallied(map') /\ Marked(m, map', p + n, (p + n) + q, "NonTrimmed")
  BY <1>5, <1>11, <1>13
<1>15. Marked(map, map', p, (p + n) + q, "NonTrimmed")
  <2>1. p <= p + n /\ p + n <= (p + n) + q /\ (p + n) + q \in Nat
    BY <1>1, <1>7, <1>9
  <2> QED BY <1>9, <1>11, <1>14, <2>1, MarksJoin
<1>16. p = a * Sector /\ (p + n) + q = c * Sector
  BY <1>1, <1>2, <1>7
<1>17. Done(a, c, "NonTrimmed")
  BY <1>14, <1>15, <1>16 DEF Done
<1>18. Moved(c, z)
  <2>1. Onward(n + q)
    BY <1>4 DEF n, q
  <2>2. n + q \in Nat /\ region.pos + (n + q) = c * Sector
    BY <1>1, <1>7, <1>9, <1>16 DEF p
  <2>3. a <= c
    BY <1>2, <1>6
  <2> QED BY <1>6, <2>1, <2>2, <2>3, OnwardMoves
<1> QED BY <1>6, <1>17, <1>18

----------------------------------------------------------------------------
(* The read policy. *)

\* A lengthened jump belongs to a damage zone.
ZoneOK(c) == c \in Contexts /\ (c.multiplier > 1 => c.zone)

\* What a decision does to the counters, by its action.
DecisionOK(c, d) ==
    /\ ZoneOK(d.ctx) /\ d.action.sectors \in Nat
    /\ d.action.do = "retry" => /\ d.ctx.notReady + d.ctx.bridge = c.notReady + c.bridge + 1
                                /\ d.ctx.zone = c.zone /\ d.ctx.wedges = c.wedges
    /\ d.action.do = "skip" => d.ctx.zone = c.zone /\ d.ctx.wedges = c.wedges
    /\ d.action.do = "jump" => d.ctx.zone = TRUE /\ d.ctx.wedges < WedgeAbort

LEMMA ContextParts ==
    ASSUME NEW c
    PROVE  c \in Contexts <=>
              /\ c = [good |-> c.good, notReady |-> c.notReady, bridge |-> c.bridge,
                      wedges |-> c.wedges, zone |-> c.zone, multiplier |-> c.multiplier]
              /\ c.good \in 0..ZoneWindow /\ c.notReady \in 0..NotReadyTries
              /\ c.bridge \in 0..BridgeTries /\ c.wedges \in 0..WedgeAbort
              /\ c.zone \in BOOLEAN /\ c.multiplier \in 1..MaxMultiplier
BY DEF Contexts

LEMMA PolicyFacts ==
    ASSUME NEW c, ZoneOK(c), c.wedges < WedgeAbort, NEW failure \in Failures
    PROVE  DecisionOK(c, HandleReadError(failure, c))
<1> DEFINE b == [c EXCEPT !.good = 0]
           d == HandleReadError(failure, c)
           e == Left(failure, b)
<1>1. /\ c \in Contexts /\ (c.multiplier > 1 => c.zone)
      /\ c.good \in 0..ZoneWindow /\ c.notReady \in 0..NotReadyTries
      /\ c.bridge \in 0..BridgeTries /\ c.wedges \in 0..WedgeAbort
      /\ c.zone \in BOOLEAN /\ c.multiplier \in 1..MaxMultiplier
  BY ContextParts DEF ZoneOK
<1>2. /\ ZoneWindow \in Nat \ {0} /\ WedgeAbort \in Nat \ {0} /\ NotReadyTries \in Nat
      /\ BridgeTries \in Nat /\ WedgeJump \in Nat /\ JumpBase \in Nat
      /\ MaxMultiplier \in Nat \ {0}
  BY PolicyAssumption
<1>3. /\ b \in Contexts /\ b.notReady = c.notReady /\ b.bridge = c.bridge /\ b.wedges = c.wedges
      /\ b.zone = c.zone /\ b.multiplier = c.multiplier
  BY <1>1, <1>2 DEF Contexts
<1> HIDE DEF b
<1>4. ZoneOK(b)
  BY <1>1, <1>3 DEF ZoneOK
<1>5. /\ e \in Contexts /\ e.zone = (c.zone \/ failure # "recovered") /\ e.wedges = c.wedges
      /\ e.multiplier = c.multiplier
  <2> DEFINE y == (c.zone \/ failure # "recovered")
  <2>1. y \in BOOLEAN /\ 0 \in 0..NotReadyTries
    BY <1>2
  <2>2. e = [b EXCEPT !.notReady = 0, !.zone = y]
    BY <1>3 DEF Left
  <2> HIDE DEF y, e
  <2>3. e \in Contexts /\ e.zone = y /\ e.wedges = c.wedges /\ e.multiplier = c.multiplier
    BY <1>3, <2>1, <2>2 DEF Contexts
  <2> QED BY <2>3 DEF y
<1>6. ZoneOK(e)
  BY <1>1, <1>5 DEF ZoneOK
<1> HIDE DEF e
<1>7. CASE failure \in {"transport", "unit attention"}
  <2>1. d = Decided(b, Abort)
    <3>1. /\ ~Transient(failure, c) /\ failure # "wedge" /\ failure # "recovered"
      BY <1>7 DEF Transient
    <3> QED BY <1>7, <3>1 DEF HandleReadError, b
  <2>2. d.ctx = b /\ d.action.do = "abort" /\ d.action.sectors = 0
    BY <2>1 DEF Decided, Abort
  <2> QED BY <1>4, <2>2 DEF DecisionOK
<1>8. CASE failure \notin {"transport", "unit attention"} /\ Transient(failure, c)
  <2>1. d = Decided(Retried(failure, b), Retry)
    BY <1>8 DEF HandleReadError, b, Transient
  <2>2. d.ctx = Retried(failure, b) /\ d.action.do = "retry" /\ d.action.sectors = 0
    BY <2>1 DEF Decided, Retry
  <2> DEFINE r == Retried(failure, b)
  <2>3. CASE failure = "bridge"
    <3>1. r = [b EXCEPT !.bridge = @ + 1] /\ c.bridge < BridgeTries
      BY <1>8, <2>3 DEF Retried, Transient
    <3>2. c.bridge + 1 \in 0..BridgeTries
      BY <1>1, <1>2, <3>1
    <3>3. /\ r \in Contexts /\ r.bridge = c.bridge + 1 /\ r.notReady = c.notReady
          /\ r.wedges = c.wedges /\ r.zone = c.zone /\ r.multiplier = c.multiplier
      BY <1>3, <3>1, <3>2 DEF Contexts
    <3> HIDE DEF r
    <3>4. r.notReady + r.bridge = c.notReady + c.bridge + 1
      BY <1>1, <1>2, <3>3
    <3>5. ZoneOK(r)
      BY <1>1, <3>3 DEF ZoneOK
    <3> QED BY <2>2, <3>3, <3>4, <3>5 DEF DecisionOK, r
  <2>4. CASE failure # "bridge"
    <3>1. r = [b EXCEPT !.notReady = @ + 1] /\ c.notReady < NotReadyTries
      BY <1>8, <2>4 DEF Retried, Transient
    <3>2. c.notReady + 1 \in 0..NotReadyTries
      BY <1>1, <1>2, <3>1
    <3>3. /\ r \in Contexts /\ r.notReady = c.notReady + 1 /\ r.bridge = c.bridge
          /\ r.wedges = c.wedges /\ r.zone = c.zone /\ r.multiplier = c.multiplier
      BY <1>3, <3>1, <3>2 DEF Contexts
    <3> HIDE DEF r
    <3>4. r.notReady + r.bridge = c.notReady + c.bridge + 1
      BY <1>1, <1>2, <3>3
    <3>5. ZoneOK(r)
      BY <1>1, <3>3 DEF ZoneOK
    <3> QED BY <2>2, <3>3, <3>4, <3>5 DEF DecisionOK, r
  <2> QED BY <2>3, <2>4
<1>9. CASE ~Transient(failure, c) /\ failure = "wedge"
  <2>1. d = Wedged(e)
    BY <1>9 DEF HandleReadError, b, e
  <2>2. d = Decided([e EXCEPT !.wedges = @ + 1],
                    IF e.wedges + 1 >= WedgeAbort THEN Abort ELSE Jump(WedgeJump))
    BY <2>1 DEF Wedged
  <2> DEFINE x == [e EXCEPT !.wedges = @ + 1]
  <2>3. c.wedges + 1 \in 0..WedgeAbort
    BY <1>1, <1>2
  <2>4. /\ x \in Contexts /\ x.wedges = c.wedges + 1 /\ x.zone = TRUE
        /\ x.multiplier = c.multiplier
    BY <1>5, <1>9, <2>3 DEF Contexts
  <2> HIDE DEF x
  <2>5. ZoneOK(x)
    BY <2>4 DEF ZoneOK
  <2>6. d.ctx = x /\ d.action = IF c.wedges + 1 >= WedgeAbort THEN Abort ELSE Jump(WedgeJump)
    BY <1>5, <2>2 DEF Decided, x
  <2>7. CASE c.wedges + 1 >= WedgeAbort
    <3>1. d.action.do = "abort" /\ d.action.sectors = 0
      BY <2>6, <2>7 DEF Abort
    <3> QED BY <2>5, <2>6, <3>1 DEF DecisionOK
  <2>8. CASE ~(c.wedges + 1 >= WedgeAbort)
    <3>1. d.action.do = "jump" /\ d.action.sectors = WedgeJump
      BY <2>6, <2>8 DEF Jump
    <3>2. x.wedges < WedgeAbort
      BY <1>1, <1>2, <2>4, <2>8
    <3> QED BY <1>2, <2>4, <2>5, <2>6, <3>1, <3>2 DEF DecisionOK
  <2> QED BY <2>7, <2>8
<1>10. CASE ~Transient(failure, c) /\ failure = "recovered"
  <2>1. d = Decided(e, Skip)
    BY <1>10 DEF HandleReadError, b, e
  <2>2. d.ctx = e /\ d.action.do = "skip" /\ d.action.sectors = 0
    BY <2>1 DEF Decided, Skip
  <2>3. e.zone = c.zone /\ e.wedges = c.wedges
    BY <1>1, <1>5, <1>10
  <2> QED BY <1>6, <2>2, <2>3 DEF DecisionOK
<1>11. CASE /\ failure \notin {"transport", "unit attention", "wedge", "recovered"}
            /\ ~Transient(failure, c)
  <2>1. d = Damage(e)
    BY <1>11 DEF HandleReadError, b, e
  <2> DEFINE x == [e EXCEPT !.multiplier = Smaller(2 * @, MaxMultiplier)]
             n == JumpBase * Smaller(e.multiplier, MaxMultiplier)
  <2>2. d = Decided(x, Jump(n))
    BY <2>1 DEF Damage
  <2>3. d.ctx = x /\ d.action.do = "jump" /\ d.action.sectors = n
    BY <2>2 DEF Decided, Jump
  <2>4. /\ Smaller(2 * c.multiplier, MaxMultiplier) \in 1..MaxMultiplier
        /\ Smaller(c.multiplier, MaxMultiplier) \in Nat
    BY <1>1, <1>2 DEF Smaller
  <2>5. n \in Nat
    <3> DEFINE y == Smaller(e.multiplier, MaxMultiplier)
    <3>1. y \in Nat
      BY <1>5, <2>4
    <3> HIDE DEF y
    <3>2. JumpBase * y \in Nat
      BY <1>2, <3>1
    <3> QED BY <3>2 DEF y
  <2> HIDE DEF n
  <2>6. x \in Contexts /\ x.zone = TRUE /\ x.wedges = c.wedges
    <3> DEFINE y == Smaller(2 * c.multiplier, MaxMultiplier)
    <3>1. y \in 1..MaxMultiplier
      BY <2>4
    <3>2. x = [e EXCEPT !.multiplier = y]
      BY <1>5
    <3> HIDE DEF y, x
    <3> QED BY <1>5, <1>11, <3>1, <3>2 DEF Contexts
  <2> HIDE DEF x
  <2>7. ZoneOK(x)
    BY <2>6 DEF ZoneOK
  <2> QED BY <2>3, <2>5, <2>6, <2>7 DEF DecisionOK
<1>12. /\ failure \in {"transport", "unit attention"} => ~Transient(failure, c)
  BY DEF Transient
<1> QED BY <1>7, <1>8, <1>9, <1>10, <1>11, <1>12

LEMMA SuccessFacts ==
    ASSUME NEW c, ZoneOK(c)
    PROVE  LET d == OnSuccess(c)
           IN  ZoneOK(d) /\ d.wedges = 0 /\ d.notReady = 0 /\ d.bridge = 0 /\ (d.zone => c.zone)
<1> DEFINE n == Smaller(c.good + 1, ZoneWindow)
           over == c.zone /\ n = ZoneWindow
           d == OnSuccess(c)
<1>1. /\ (c.multiplier > 1 => c.zone)
      /\ c.good \in 0..ZoneWindow /\ c.zone \in BOOLEAN /\ c.multiplier \in 1..MaxMultiplier
  BY ContextParts DEF ZoneOK
<1>2. /\ ZoneWindow \in Nat \ {0} /\ WedgeAbort \in Nat \ {0} /\ NotReadyTries \in Nat
      /\ BridgeTries \in Nat /\ MaxMultiplier \in Nat \ {0}
  BY PolicyAssumption
<1>3. n \in 0..ZoneWindow
  BY <1>1, <1>2 DEF Smaller
<1>4. d = [good |-> n, notReady |-> 0, bridge |-> 0, wedges |-> 0, zone |-> c.zone /\ ~over,
           multiplier |-> IF over THEN 1 ELSE c.multiplier]
  BY DEF OnSuccess
<1> HIDE DEF n, d
<1>5. /\ d.good = n /\ d.notReady = 0 /\ d.bridge = 0 /\ d.wedges = 0
      /\ d.zone = (c.zone /\ ~over) /\ d.multiplier = IF over THEN 1 ELSE c.multiplier
  BY <1>4
<1>6. d \in Contexts
  <2>1. (IF over THEN 1 ELSE c.multiplier) \in 1..MaxMultiplier
    BY <1>1, <1>2
  <2>2. (c.zone /\ ~over) \in BOOLEAN
    BY <1>1
  <2> HIDE DEF over
  <2> QED BY <1>2, <1>3, <1>4, <2>1, <2>2 DEF Contexts
<1>7. d.multiplier > 1 => d.zone
  <2>1. CASE over
    BY <1>5, <2>1
  <2>2. CASE ~over
    BY <1>1, <1>5, <2>2
  <2> QED BY <2>1, <2>2
<1>8. d.zone => c.zone
  BY <1>5
<1> QED BY <1>5, <1>6, <1>7, <1>8 DEF ZoneOK, d

----------------------------------------------------------------------------
(* The inductive invariant. *)

Bounded(sc) == sc = Whole \/ (sc \subseteq Ranges1 /\ \A r \in sc : End(r) <= Limit)
Untried(m, u) == Says(m, u, "NonTried")

ControlInv ==
    /\ pc \in {"idle", "reading", "ended"}
    /\ result \in {NoResult, "complete", "halted", "failed"}
    /\ result = "complete" => pc = "ended"

\* While the pass reads, the retries of a block use up the policy's budgets.
PaceInv ==
    /\ ZoneOK(ctx) /\ slow \in BOOLEAN
    /\ tries \in Nat /\ tries <= NotReadyTries + BridgeTries
    /\ pc = "reading" => /\ slow <=> ctx.zone
                         /\ tries <= ctx.notReady + ctx.bridge
                         /\ ctx.wedges < WedgeAbort

ScopeInv == Bounded(scope) /\ Bounded(reading)

\* Every sector that still has an untried unit the pass was asked for is open.
Asked(m, within, skip, op) ==
    \A s \in Sectors : \A u \in UnitsOf[s] :
        Untried(m, u) /\ Within(within, u) /\ u \notin Covered(skip) => s \in op
AskedInv ==
    /\ open \subseteq Sectors
    /\ pc # "idle" => Asked(map, reading, job.skip, open)

\* What is planned lies in open sectors, and every untried unit of those is planned.
TodoOK(td, op) ==
    \A r \in td : /\ r \in Ranges1 /\ End(r) <= Total
                  /\ \A s \in Sectors : \A u \in UnitsOf[s] : u \in UnitsIn(r) => s \in op
Planned(td, rg, u) == u \in UnitsIn(rg) \/ \E r \in td : u \in UnitsIn(Snapped(r))
AllPlanned(m, td, rg, op) ==
    \A s \in op : \A u \in UnitsOf[s] : Untried(m, u) => Planned(td, rg, u)
PlanInv ==
    pc = "reading" => /\ RegionOK(region, open) /\ TodoOK(todo, open)
                      /\ AllPlanned(map, todo, region, open)

AllTried(m, op) == \A s \in op : \A u \in UnitsOf[s] : ~Untried(m, u)
DoneInv == result = "complete" => AllTried(map, open)

IInv == /\ ControlInv /\ PaceInv /\ MapInv /\ ScopeInv /\ AskedInv /\ PlanInv /\ DoneInv

Recorded == {"Finished", "NonTrimmed"}

\* A step that records a first part of the region.
Advance(a, z, c, s) ==
    /\ Spans1(region, a, z, open) /\ c \in Nat /\ a < c /\ c <= z
    /\ s \in Recorded /\ Done(a, c, s)

LEMMA DoneTries ==
    ASSUME MapInv, NEW a \in Nat, NEW c \in Nat, NEW s \in Recorded, Done(a, c, s)
    PROVE  /\ MapInv'
           /\ \A u \in Nat : Untried(map', u) => /\ Untried(map, u)
                                                 /\ ~(a * Sector <= u /\ u < c * Sector)
<1>1. Marked(map, map', a * Sector, c * Sector, s) /\ counts' = Tallied(map')
  BY DEF Done
<1>2. s # "NonTried"
  BY DEF Recorded
<1>3. Exact(map')
  BY <1>1 DEF Marked
<1>4. ASSUME NEW u \in Nat, Untried(map', u)
      PROVE  Untried(map, u) /\ ~(a * Sector <= u /\ u < c * Sector)
  <2>1. Says(map', u, "NonTried") <=>
           IF a * Sector <= u /\ u < c * Sector THEN "NonTried" = s ELSE Says(map, u, "NonTried")
    BY <1>1 DEF Marked
  <2> QED BY <1>2, <1>4, <2>1 DEF Untried
<1> QED BY <1>1, <1>3, <1>4 DEF MapInv

\* A map with fewer untried units than m.
LEMMA AskedKept ==
    ASSUME NEW m, NEW v, NEW within, NEW skip, NEW op, Asked(m, within, skip, op),
           \A u \in Units : Untried(v, u) => Untried(m, u)
    PROVE  Asked(v, within, skip, op)
<1> SUFFICES ASSUME NEW s \in Sectors, NEW u \in UnitsOf[s], Untried(v, u), Within(within, u),
                    u \notin Covered(skip)
             PROVE  s \in op
  BY DEF Asked
<1>1. u \in Units
  BY UnitsOfFacts
<1> QED BY <1>1 DEF Asked

LEMMA TriedKept ==
    ASSUME NEW m, NEW v, NEW op, op \subseteq Sectors, AllTried(m, op),
           \A u \in Units : Untried(v, u) => Untried(m, u)
    PROVE  AllTried(v, op)
<1> SUFFICES ASSUME NEW s \in op, NEW u \in UnitsOf[s], Untried(v, u) PROVE FALSE
  BY DEF AllTried
<1>1. u \in Units
  BY UnitsOfFacts
<1> QED BY <1>1 DEF AllTried

\* The reading step: the rest of the region is still planned.
LEMMA AdvancePlan ==
    ASSUME MapInv, open \subseteq Sectors, TodoOK(todo, open), AllPlanned(map, todo, region, open),
           NEW a, NEW z, NEW c, NEW s, Advance(a, z, c, s), Moved(c, z), open' = open
    PROVE  RegionOK(region', open') /\ TodoOK(todo', open') /\ AllPlanned(map', todo', region', open')
<1>1. /\ Spans1(region, a, z, open) /\ c \in Nat /\ a < c /\ c <= z /\ s \in Recorded
      /\ Done(a, c, s)
  BY DEF Advance
<1>2. /\ a \in Nat /\ z \in Nat /\ z * Sector <= Total
      /\ \A k \in Nat : a <= k /\ k < z => k \in open
  BY <1>1 DEF Spans1
<1>3. Sectors1(region', c, z) /\ region'.size \in Nat /\ todo' = todo
  BY DEF Moved
<1>4. Spans1(region', c, z, open')
  <2>1. \A k \in Nat : c <= k /\ k < z => k \in open
    BY <1>1, <1>2
  <2> QED BY <1>1, <1>2, <1>3, <2>1 DEF Spans1
<1>5. \A u : u \in UnitsIn(region) <=> u \in Nat /\ a * Sector <= u /\ u < z * Sector
  BY <1>1, SpanFacts
<1>6. \A u : u \in UnitsIn(region') <=> u \in Nat /\ c * Sector <= u /\ u < z * Sector
  <2>1. \A r : Spans1(r, c, z, open') =>
           \A u : u \in UnitsIn(r) <=> u \in Nat /\ c * Sector <= u /\ u < z * Sector
    BY SpanFacts
  <2> QED BY <1>4, <2>1
<1>7. \A u \in Nat : Untried(map', u) => Untried(map, u) /\ ~(a * Sector <= u /\ u < c * Sector)
  BY <1>1, <1>2, DoneTries
<1>8. c * Sector \in Nat
  BY <1>1, Dist
<1>9. AllPlanned(map', todo', region', open')
  <2> SUFFICES ASSUME NEW k \in open, NEW u \in UnitsOf[k], Untried(map', u)
               PROVE  Planned(todo, region', u)
    BY <1>3 DEF AllPlanned
  <2>1. u \in Nat
    BY UnitsOfFacts
  <2>2. Untried(map, u) /\ ~(a * Sector <= u /\ u < c * Sector)
    BY <1>7, <2>1
  <2>3. Planned(todo, region, u)
    BY <2>2 DEF AllPlanned
  <2>4. u \in UnitsIn(region) => u \in UnitsIn(region')
    BY <1>5, <1>6, <1>8, <2>1, <2>2
  <2> QED BY <2>3, <2>4 DEF Planned
<1> QED BY <1>3, <1>4, <1>9 DEF RegionOK

----------------------------------------------------------------------------
(* The actions. *)

LEMMA ReadingFacts ==
    ASSUME IInv, Reading
    PROVE  /\ pc = "reading" /\ region.size > 0 /\ MapInv /\ result # "complete"
           /\ RegionOK(region, open) /\ TodoOK(todo, open) /\ AllPlanned(map, todo, region, open)
           /\ open \subseteq Sectors /\ Asked(map, reading, job.skip, open)
           /\ ZoneOK(ctx) /\ slow \in BOOLEAN /\ (slow <=> ctx.zone) /\ tries \in Nat
           /\ tries <= ctx.notReady + ctx.bridge /\ ctx.wedges < WedgeAbort
<1>1. pc = "reading" /\ region.size > 0
  BY DEF Reading
<1>2. ControlInv /\ PaceInv /\ MapInv /\ AskedInv /\ PlanInv
  BY DEF IInv
<1>3. result # "complete"
  BY <1>1, <1>2 DEF ControlInv
<1>4. open \subseteq Sectors /\ Asked(map, reading, job.skip, open)
  BY <1>1, <1>2 DEF AskedInv
<1> QED BY <1>1, <1>2, <1>3, <1>4 DEF PaceInv, PlanInv

\* A block that is read or skipped.
LEMMA SentAdvances ==
    ASSUME IInv, Reading, NEW k \in Blocks, NEW s \in Recorded, Sent(k * Sector, s)
    PROVE  \E a, z, c : /\ Advance(a, z, c, s) /\ k * Sector \in Nat
                        /\ Onward(k * Sector) => Moved(c, z)
<1>1. MapInv /\ region.size > 0 /\ RegionOK(region, open)
  BY ReadingFacts
<1>2. PICK a, z : Spans1(region, a, z, open)
  BY <1>1 DEF RegionOK
<1>3. /\ k \in Nat \ {0} /\ a + k <= z /\ k * Sector \in Nat
      /\ region.pos + k * Sector = (a + k) * Sector
  BY <1>1, <1>2, BlockFacts
<1>4. a \in Nat /\ z \in Nat
  BY <1>2 DEF Spans1
<1>5. s \in Statuses
  BY DEF Recorded, Statuses
<1>6. Done(a, a + k, s)
  BY <1>1, <1>2, <1>5, SentDone
<1>7. a + k \in Nat /\ a < a + k /\ a <= a + k
  BY <1>3, <1>4
<1>8. Onward(k * Sector) => Moved(a + k, z)
  BY <1>2, <1>3, <1>7, OnwardMoves
<1>9. Advance(a, z, a + k, s)
  BY <1>2, <1>3, <1>6, <1>7 DEF Advance
<1> QED BY <1>3, <1>8, <1>9

LEMMA ReadGoodMoves ==
    ASSUME IInv, ReadGood
    PROVE  \E a, z, c, s : Advance(a, z, c, s) /\ Moved(c, z)
<1>1. Reading
  BY DEF ReadGood
<1>2. PICK k \in Blocks : Sent(k * Sector, "Finished") /\ Onward(k * Sector)
  BY DEF ReadGood
<1>3. "Finished" \in Recorded
  BY DEF Recorded
<1> QED BY <1>1, <1>2, <1>3, SentAdvances

LEMMA ReadSkippedMoves ==
    ASSUME IInv, NEW failure \in Failures, ReadSkipped(failure)
    PROVE  \E a, z, c, s : Advance(a, z, c, s) /\ Moved(c, z)
<1>1. Reading
  BY DEF ReadSkipped, Handles
<1>2. PICK k \in Blocks : Sent(k * Sector, "NonTrimmed") /\ Onward(k * Sector)
  BY DEF ReadSkipped
<1>3. "NonTrimmed" \in Recorded
  BY DEF Recorded
<1> QED BY <1>1, <1>2, <1>3, SentAdvances

LEMMA ReadJumpedMoves ==
    ASSUME IInv, NEW failure \in Failures, ReadJumped(failure)
    PROVE  \E a, z, c, s : Advance(a, z, c, s) /\ Moved(c, z)
<1> DEFINE g == HandleReadError(failure, ctx).action.sectors
<1>1. Reading
  BY DEF ReadJumped, Handles
<1>2. MapInv /\ region.size > 0 /\ RegionOK(region, open) /\ ZoneOK(ctx) /\ ctx.wedges < WedgeAbort
  BY <1>1, ReadingFacts
<1>3. g \in Nat
  BY <1>2, PolicyFacts DEF DecisionOK
<1>4. PICK k \in Blocks : /\ SentWithGap(k * Sector, Gap(k * Sector, g))
                          /\ Onward(k * Sector + Gap(k * Sector, g))
  BY DEF ReadJumped
<1> HIDE DEF g
<1>5. PICK a, z : Spans1(region, a, z, open)
  BY <1>2 DEF RegionOK
<1>6. PICK c \in Nat : a < c /\ c <= z /\ Done(a, c, "NonTrimmed") /\ Moved(c, z)
  BY <1>2, <1>3, <1>4, <1>5, GapDone
<1>7. "NonTrimmed" \in Recorded
  BY DEF Recorded
<1>8. Advance(a, z, c, "NonTrimmed")
  BY <1>5, <1>6, <1>7 DEF Advance
<1> QED BY <1>6, <1>8

LEMMA JumpCutAdvances ==
    ASSUME IInv, NEW failure \in Failures, JumpCutShort(failure)
    PROVE  \E a, z, c, s : Advance(a, z, c, s)
<1>1. Reading
  BY DEF JumpCutShort, Handles
<1>2. PICK k \in Blocks : Sent(k * Sector, "NonTrimmed")
  BY DEF JumpCutShort
<1>3. "NonTrimmed" \in Recorded
  BY DEF Recorded
<1> QED BY <1>1, <1>2, <1>3, SentAdvances

\* Sectors that are read leave the pass's plan, scope and map as they should be.
LEMMA AdvanceKeeps ==
    ASSUME IInv, Reading, NEW a, NEW z, NEW c, NEW s, Advance(a, z, c, s),
           UNCHANGED <<scope, planVars>>
    PROVE  /\ MapInv' /\ ScopeInv' /\ AskedInv'
           /\ open' = open
           /\ \A u \in Units : Untried(map', u) => Untried(map, u)
<1>1. MapInv /\ open \subseteq Sectors /\ Asked(map, reading, job.skip, open)
  BY ReadingFacts
<1>2. a \in Nat /\ c \in Nat /\ s \in Recorded /\ Done(a, c, s)
  BY DEF Advance, Spans1
<1>3. MapInv' /\ \A u \in Nat : Untried(map', u) => Untried(map, u)
  BY <1>1, <1>2, DoneTries
<1>4. \A u \in Units : Untried(map', u) => Untried(map, u)
  BY <1>3 DEF Units
<1>5. scope' = scope /\ job' = job /\ reading' = reading /\ open' = open
  BY DEF planVars
<1>6. ScopeInv'
  BY <1>5 DEF IInv, ScopeInv, Bounded
<1>7. Asked(map', reading, job.skip, open)
  BY <1>1, <1>4, AskedKept
<1>8. AskedInv'
  BY <1>1, <1>5, <1>7 DEF AskedInv
<1> QED BY <1>3, <1>4, <1>5, <1>6, <1>8

LEMMA AdvanceMoves ==
    ASSUME IInv, Reading, NEW a, NEW z, NEW c, NEW s, Advance(a, z, c, s), Moved(c, z),
           UNCHANGED <<scope, planVars>>, GoOn
    PROVE  /\ MapInv' /\ ScopeInv' /\ AskedInv' /\ PlanInv' /\ DoneInv' /\ ControlInv'
           /\ pc' = "reading"
<1>1. MapInv' /\ ScopeInv' /\ AskedInv' /\ open' = open
  BY AdvanceKeeps
<1>2. /\ MapInv /\ open \subseteq Sectors /\ TodoOK(todo, open)
      /\ AllPlanned(map, todo, region, open) /\ pc = "reading" /\ result # "complete"
  BY ReadingFacts
<1>3. RegionOK(region', open') /\ TodoOK(todo', open') /\ AllPlanned(map', todo', region', open')
  BY <1>1, <1>2, AdvancePlan
<1>4. pc' = pc /\ result' = result
  BY DEF GoOn
<1>5. PlanInv'
  BY <1>3 DEF PlanInv
<1>6. DoneInv'
  BY <1>2, <1>4 DEF DoneInv
<1>7. ControlInv'
  BY <1>4 DEF IInv, ControlInv
<1> QED BY <1>1, <1>2, <1>4, <1>5, <1>6, <1>7

\* The pace of a block that was left behind.
LEMMA FreshPace ==
    ASSUME ZoneOK(ctx'), ctx'.wedges < WedgeAbort, tries' = 0, slow' \in BOOLEAN, slow' <=> ctx'.zone
    PROVE  PaceInv'
<1>1. NotReadyTries \in Nat /\ BridgeTries \in Nat
  BY PolicyAssumption
<1>2. ctx'.notReady \in Nat /\ ctx'.bridge \in Nat
  BY <1>1, ContextParts DEF ZoneOK
<1> QED BY <1>1, <1>2 DEF PaceInv

LEMMA GoodKeeps ==
    ASSUME IInv, ReadGood
    PROVE  IInv'
<1>1. Reading /\ UNCHANGED <<scope, planVars>> /\ GoOn
  BY DEF ReadGood
<1>2. PICK a, z, c, s : Advance(a, z, c, s) /\ Moved(c, z)
  BY ReadGoodMoves
<1>3. MapInv' /\ ScopeInv' /\ AskedInv' /\ PlanInv' /\ DoneInv' /\ ControlInv'
  BY <1>1, <1>2, AdvanceMoves
<1>4. /\ ctx' = OnSuccess(ctx) /\ tries' = 0
      /\ slow' = (slow /\ ~(ctx.zone /\ ~ctx'.zone))
  BY DEF ReadGood
<1>5. ZoneOK(ctx) /\ slow \in BOOLEAN /\ (slow <=> ctx.zone)
  BY <1>1, ReadingFacts
<1>6. ZoneOK(ctx') /\ ctx'.wedges = 0 /\ (ctx'.zone => ctx.zone)
  BY <1>4, <1>5, SuccessFacts
<1>7. slow' \in BOOLEAN /\ (slow' <=> ctx'.zone)
  <2>1. ctx'.zone \in BOOLEAN /\ ctx.zone \in BOOLEAN
    BY <1>5, <1>6, ContextParts DEF ZoneOK
  <2> QED BY <1>4, <1>5, <1>6, <2>1
<1>8. PaceInv'
  BY <1>4, <1>6, <1>7, FreshPace, PolicyAssumption
<1> QED BY <1>3, <1>8 DEF IInv

LEMMA SkippedKeeps ==
    ASSUME IInv, NEW failure \in Failures, ReadSkipped(failure)
    PROVE  IInv'
<1>1. /\ Reading /\ UNCHANGED <<scope, planVars>> /\ GoOn /\ tries' = 0 /\ slow' = slow
      /\ HandleReadError(failure, ctx).action.do = "skip"
      /\ ctx' = HandleReadError(failure, ctx).ctx
  BY DEF ReadSkipped, Handles
<1>2. PICK a, z, c, s : Advance(a, z, c, s) /\ Moved(c, z)
  BY ReadSkippedMoves
<1>3. MapInv' /\ ScopeInv' /\ AskedInv' /\ PlanInv' /\ DoneInv' /\ ControlInv'
  BY <1>1, <1>2, AdvanceMoves
<1>4. ZoneOK(ctx) /\ slow \in BOOLEAN /\ (slow <=> ctx.zone) /\ ctx.wedges < WedgeAbort
  BY <1>1, ReadingFacts
<1>5. ZoneOK(ctx') /\ ctx'.zone = ctx.zone /\ ctx'.wedges = ctx.wedges
  BY <1>1, <1>4, PolicyFacts DEF DecisionOK
<1>6. PaceInv'
  BY <1>1, <1>4, <1>5, FreshPace
<1> QED BY <1>3, <1>6 DEF IInv

LEMMA JumpedKeeps ==
    ASSUME IInv, NEW failure \in Failures, ReadJumped(failure)
    PROVE  IInv'
<1>1. /\ Reading /\ UNCHANGED <<scope, planVars>> /\ GoOn /\ tries' = 0
      /\ slow' = (slow \/ ~ctx.zone)
      /\ HandleReadError(failure, ctx).action.do = "jump"
      /\ ctx' = HandleReadError(failure, ctx).ctx
  BY DEF ReadJumped, Handles
<1>2. PICK a, z, c, s : Advance(a, z, c, s) /\ Moved(c, z)
  BY ReadJumpedMoves
<1>3. MapInv' /\ ScopeInv' /\ AskedInv' /\ PlanInv' /\ DoneInv' /\ ControlInv'
  BY <1>1, <1>2, AdvanceMoves
<1>4. ZoneOK(ctx) /\ slow \in BOOLEAN /\ (slow <=> ctx.zone) /\ ctx.wedges < WedgeAbort
  BY <1>1, ReadingFacts
<1>5. ZoneOK(ctx') /\ ctx'.zone = TRUE /\ ctx'.wedges < WedgeAbort
  BY <1>1, <1>4, PolicyFacts DEF DecisionOK
<1>6. slow' = TRUE
  BY <1>1, <1>4
<1>7. PaceInv'
  BY <1>1, <1>5, <1>6, FreshPace
<1> QED BY <1>3, <1>7 DEF IInv

\* The plan of a pass does not change with its pace or its end.
LEMMA PlanFrame ==
    ASSUME IInv, UNCHANGED <<mapVars, planVars>>
    PROVE  /\ MapInv' /\ ScopeInv' /\ map' = map /\ open' = open
           /\ pc # "idle" => AskedInv'
           /\ pc' = pc => AskedInv'
           /\ todo' = todo /\ region' = region /\ (pc' = "reading" => pc = "reading") => PlanInv'
           /\ (result' = "complete" => result = "complete") => DoneInv'
<1>1. /\ map' = map /\ counts' = counts /\ scope' = scope /\ job' = job /\ reading' = reading
      /\ open' = open
  BY DEF mapVars, planVars
<1>2. MapInv' /\ ScopeInv'
  BY <1>1 DEF IInv, MapInv, ScopeInv, Bounded
<1>3. pc # "idle" => AskedInv'
  BY <1>1 DEF IInv, AskedInv
<1>4. pc' = pc => AskedInv'
  BY <1>1 DEF IInv, AskedInv
<1>5. todo' = todo /\ region' = region /\ (pc' = "reading" => pc = "reading") => PlanInv'
  BY <1>1 DEF IInv, PlanInv
<1>6. (result' = "complete" => result = "complete") => DoneInv'
  BY <1>1 DEF IInv, DoneInv
<1> QED BY <1>1, <1>2, <1>3, <1>4, <1>5, <1>6

LEMMA RetriedKeeps ==
    ASSUME IInv, NEW failure \in Failures, ReadRetried(failure)
    PROVE  IInv'
<1>1. /\ Reading /\ UNCHANGED <<mapVars, planVars>> /\ GoOn
      /\ tries' = Smaller(tries + 1, NotReadyTries + BridgeTries + 1)
      /\ slow' = slow /\ todo' = todo /\ region' = region
      /\ HandleReadError(failure, ctx).action.do = "retry"
      /\ ctx' = HandleReadError(failure, ctx).ctx
  BY DEF ReadRetried, Handles
<1>2. pc' = pc /\ result' = result
  BY <1>1 DEF GoOn
<1>3. MapInv' /\ ScopeInv' /\ AskedInv' /\ PlanInv' /\ DoneInv'
  BY <1>1, <1>2, PlanFrame
<1>4. ControlInv'
  BY <1>2 DEF IInv, ControlInv
<1>5. /\ ZoneOK(ctx) /\ slow \in BOOLEAN /\ (slow <=> ctx.zone) /\ ctx.wedges < WedgeAbort
      /\ tries \in Nat /\ tries <= ctx.notReady + ctx.bridge
  BY <1>1, ReadingFacts
<1>6. /\ ZoneOK(ctx') /\ ctx'.zone = ctx.zone /\ ctx'.wedges = ctx.wedges
      /\ ctx'.notReady + ctx'.bridge = ctx.notReady + ctx.bridge + 1
  BY <1>1, <1>5, PolicyFacts DEF DecisionOK
<1>7. /\ ctx'.notReady \in 0..NotReadyTries /\ ctx'.bridge \in 0..BridgeTries
      /\ ctx.notReady \in 0..NotReadyTries /\ ctx.bridge \in 0..BridgeTries
      /\ NotReadyTries \in Nat /\ BridgeTries \in Nat
  BY <1>5, <1>6, ContextParts, PolicyAssumption DEF ZoneOK
<1>8. /\ tries' \in Nat /\ tries' <= ctx'.notReady + ctx'.bridge
      /\ tries' <= NotReadyTries + BridgeTries
  <2>1. tries + 1 <= ctx'.notReady + ctx'.bridge
    BY <1>5, <1>6, <1>7
  <2>2. tries' <= tries + 1 /\ tries' \in Nat
    BY <1>1, <1>5, <1>7 DEF Smaller
  <2> QED BY <1>5, <1>7, <2>1, <2>2
<1>9. PaceInv'
  BY <1>1, <1>5, <1>6, <1>8 DEF PaceInv
<1> QED BY <1>3, <1>4, <1>9 DEF IInv

\* A pass that ends keeps what holds of its pace at any time.
LEMMA EndPace ==
    ASSUME IInv, pc' = "ended", ZoneOK(ctx'), slow' = slow, tries' = tries
    PROVE  PaceInv'
BY DEF IInv, PaceInv

LEMMA JumpCutKeeps ==
    ASSUME IInv, NEW failure \in Failures, JumpCutShort(failure)
    PROVE  IInv'
<1>1. /\ Reading /\ UNCHANGED <<scope, planVars>> /\ Ended("failed")
      /\ slow' = slow /\ tries' = tries /\ ctx' = HandleReadError(failure, ctx).ctx
  BY DEF JumpCutShort, Handles
<1>2. PICK a, z, c, s : Advance(a, z, c, s)
  BY JumpCutAdvances
<1>3. MapInv' /\ ScopeInv' /\ AskedInv'
  BY <1>1, <1>2, AdvanceKeeps
<1>4. pc' = "ended" /\ result' = "failed"
  BY <1>1 DEF Ended
<1>5. PlanInv' /\ DoneInv' /\ ControlInv'
  BY <1>4 DEF PlanInv, DoneInv, ControlInv
<1>6. ZoneOK(ctx')
  <2>1. ZoneOK(ctx) /\ ctx.wedges < WedgeAbort
    BY <1>1, ReadingFacts
  <2> QED BY <1>1, <2>1, PolicyFacts DEF DecisionOK
<1>7. PaceInv'
  BY <1>1, <1>4, <1>6, EndPace
<1> QED BY <1>3, <1>5, <1>7 DEF IInv

LEMMA AbortKeeps ==
    ASSUME IInv, NEW failure \in Failures, ReadAborts(failure)
    PROVE  IInv'
<1>1. /\ Reading /\ UNCHANGED <<mapVars, planVars>> /\ Ended("failed")
      /\ slow' = slow /\ tries' = tries /\ ctx' = HandleReadError(failure, ctx).ctx
  BY DEF ReadAborts, Handles
<1>2. pc' = "ended" /\ result' = "failed" /\ pc = "reading"
  BY <1>1 DEF Ended, Reading
<1>3. MapInv' /\ ScopeInv' /\ AskedInv'
  BY <1>1, <1>2, PlanFrame
<1>4. PlanInv' /\ DoneInv' /\ ControlInv'
  BY <1>2 DEF PlanInv, DoneInv, ControlInv
<1>5. ZoneOK(ctx')
  <2>1. ZoneOK(ctx) /\ ctx.wedges < WedgeAbort
    BY <1>1, ReadingFacts
  <2> QED BY <1>1, <2>1, PolicyFacts DEF DecisionOK
<1>6. PaceInv'
  BY <1>1, <1>2, <1>5, EndPace
<1> QED BY <1>3, <1>4, <1>6 DEF IInv

\* A pass that ends between reads, and had nothing left if it is complete.
LEMMA EndKeeps ==
    ASSUME IInv, pc = "reading", NEW how \in {"complete", "halted", "failed"}, Ended(how),
           UNCHANGED <<mapVars, planVars, readVars>>,
           how = "complete" => region.size = 0 /\ todo = {}
    PROVE  IInv'
<1>1. /\ pc' = "ended" /\ result' = how /\ ctx' = ctx /\ slow' = slow /\ tries' = tries
      /\ UNCHANGED <<mapVars, planVars>>
  BY DEF Ended, readVars
<1>2. MapInv' /\ ScopeInv' /\ AskedInv' /\ map' = map /\ open' = open
  BY <1>1, PlanFrame
<1>3. PlanInv' /\ ControlInv'
  BY <1>1 DEF PlanInv, ControlInv
<1>4. PaceInv'
  <2>1. ZoneOK(ctx')
    BY <1>1 DEF IInv, PaceInv
  <2> QED BY <1>1, <2>1, EndPace
<1>5. DoneInv'
  <2> SUFFICES ASSUME how = "complete" PROVE AllTried(map, open)
    BY <1>1, <1>2 DEF DoneInv
  <2>1. /\ RegionOK(region, open) /\ AllPlanned(map, todo, region, open)
        /\ region.size = 0 /\ todo = {}
    BY DEF IInv, PlanInv
  <2>2. PICK a, z : Spans1(region, a, z, open)
    BY <2>1 DEF RegionOK
  <2>3. /\ \A u : u \in UnitsIn(region) <=> u \in Nat /\ a * Sector <= u /\ u < z * Sector
        /\ a * Sector + region.size = z * Sector /\ a * Sector \in Nat
    BY <2>2, SpanFacts
  <2>4. \A u : u \notin UnitsIn(region)
    BY <2>1, <2>3
  <2> QED BY <2>1, <2>4 DEF AllTried, AllPlanned, Planned
<1> QED BY <1>2, <1>3, <1>4, <1>5 DEF IInv

LEMMA HaltsKeeps ==
    ASSUME IInv, ReadFails \/ SendFails \/ Halts \/ Completes
    PROVE  IInv'
<1>1. CASE ReadFails
  <2>1. /\ pc = "reading" /\ Ended("failed") /\ UNCHANGED <<mapVars, planVars, readVars>>
    BY <1>1 DEF ReadFails, Reading
  <2> QED BY <2>1, EndKeeps
<1>2. CASE SendFails
  <2>1. /\ pc = "reading" /\ Ended("failed") /\ UNCHANGED <<mapVars, planVars, readVars>>
    BY <1>2 DEF SendFails
  <2> QED BY <2>1, EndKeeps
<1>3. CASE Halts
  <2>1. /\ pc = "reading" /\ Ended("halted") /\ UNCHANGED <<mapVars, planVars, readVars>>
    BY <1>3 DEF Halts
  <2> QED BY <2>1, EndKeeps
<1>4. CASE Completes
  <2>1. /\ pc = "reading" /\ Ended("complete") /\ UNCHANGED <<mapVars, planVars, readVars>>
        /\ region.size = 0 /\ todo = {}
    BY <1>4 DEF Completes
  <2> QED BY <2>1, EndKeeps
<1> QED BY <1>1, <1>2, <1>3, <1>4

LEMMA StopKeeps ==
    ASSUME IInv, Stop \/ UNCHANGED vars
    PROVE  IInv'
<1>1. /\ UNCHANGED <<mapVars, planVars>> /\ todo' = todo /\ region' = region /\ ctx' = ctx
      /\ slow' = slow /\ tries' = tries /\ pc' = pc /\ result' = result
  BY DEF Stop, vars, readVars
<1>2. MapInv' /\ ScopeInv' /\ AskedInv' /\ PlanInv' /\ DoneInv'
  BY <1>1, PlanFrame
<1>3. ControlInv'
  BY <1>1 DEF IInv, ControlInv
<1>4. PaceInv'
  BY <1>1 DEF IInv, PaceInv
<1> QED BY <1>2, <1>3, <1>4 DEF IInv

\* A region that begins takes its snapped sectors out of the plan.
LEMMA NextRegionKeeps ==
    ASSUME IInv, NextRegion
    PROVE  IInv'
<1>1. /\ pc = "reading" /\ region.size = 0
      /\ UNCHANGED <<mapVars, planVars>> /\ ctx' = ctx /\ slow' = slow /\ tries' = tries
      /\ pc' = pc /\ result' = result
  BY DEF NextRegion
<1>2. PICK r \in todo : region' = Snapped(r) /\ todo' = todo \ {r}
  BY DEF NextRegion
<1>3. MapInv' /\ ScopeInv' /\ AskedInv' /\ DoneInv' /\ map' = map /\ open' = open
  BY <1>1, PlanFrame
<1>4. ControlInv'
  BY <1>1 DEF IInv, ControlInv
<1>5. PaceInv'
  BY <1>1 DEF IInv, PaceInv
<1>6. RegionOK(region, open) /\ TodoOK(todo, open) /\ AllPlanned(map, todo, region, open)
  BY <1>1 DEF IInv, PlanInv
<1>7. /\ r \in Ranges1 /\ End(r) <= Total
      /\ \A s \in Sectors : \A u \in UnitsOf[s] : u \in UnitsIn(r) => s \in open
  BY <1>6 DEF TodoOK
<1>8. PICK a \in Nat, z \in Nat :
         /\ Sectors1(Snapped(r), a, z) /\ a <= z /\ z * Sector <= Total
         /\ \A k \in Nat : a <= k /\ k < z =>
               \E u \in UnitsIn(r) : k * Sector <= u /\ u < k * Sector + Sector
  BY <1>7, SnappedFacts
<1>9. \A k \in Nat : a <= k /\ k < z => k \in open
  <2> SUFFICES ASSUME NEW k \in Nat, a <= k, k < z PROVE k \in open
    OBVIOUS
  <2>1. PICK u \in UnitsIn(r) : k * Sector <= u /\ u < k * Sector + Sector
    BY <1>8
  <2>2. k \in Sectors
    <3>1. k * Sector + Sector <= z * Sector /\ k * Sector \in Nat /\ z * Sector \in Nat
      BY <1>8, Times
    <3>2. k * Sector < Total
      BY <1>8, <3>1, SectorAssumption, TotalAssumption
    <3> QED BY <3>2, SectorIn
  <2>3. u \in UnitsOf[k]
    BY <1>7, <2>1, <2>2, UnitsOfFacts, RangeUnits
  <2> QED BY <1>7, <2>2, <2>3
<1>10. Snapped(r).size \in Nat
  BY <1>7, SnappedFacts
<1>11. Spans1(region', a, z, open')
  BY <1>2, <1>3, <1>8, <1>9, <1>10 DEF Spans1
<1>12. TodoOK(todo', open')
  BY <1>2, <1>3, <1>6 DEF TodoOK
<1>13. AllPlanned(map', todo', region', open')
  <2> SUFFICES ASSUME NEW s \in open, NEW u \in UnitsOf[s], Untried(map, u)
               PROVE  Planned(todo', region', u)
    BY <1>3 DEF AllPlanned
  <2>1. Planned(todo, region, u)
    BY <1>6 DEF AllPlanned
  <2>2. u \notin UnitsIn(region)
    <3>1. PICK b, y : Spans1(region, b, y, open)
      BY <1>6 DEF RegionOK
    <3>2. /\ u \in UnitsIn(region) <=> u \in Nat /\ b * Sector <= u /\ u < y * Sector
          /\ b * Sector + region.size = y * Sector /\ b * Sector \in Nat
      BY <3>1, SpanFacts
    <3> QED BY <1>1, <3>2
  <2>3. PICK q \in todo : u \in UnitsIn(Snapped(q))
    BY <2>1, <2>2 DEF Planned
  <2> QED BY <1>2, <2>3 DEF Planned
<1>14. PlanInv'
  BY <1>11, <1>12, <1>13 DEF PlanInv, RegionOK
<1> QED BY <1>3, <1>4, <1>5, <1>14 DEF IInv

----------------------------------------------------------------------------
(* A pass begins, and the recovery ends. *)

\* The map a pass begins over says what the old one did, or nothing.
NewMap(j) == IF j.fresh THEN Created ELSE Loaded(map)

LEMMA NewMapFacts ==
    ASSUME Exact(map), NEW j \in Jobs
    PROVE  /\ Exact(NewMap(j))
           /\ j.fresh => \A u \in Units : \A t : Says(NewMap(j), u, t) <=> t = "NonTried"
           /\ ~j.fresh => \A u \in Units : \A t : Says(NewMap(j), u, t) <=> Says(map, u, t)
<1>1. CASE j.fresh
  <2>1. NewMap(j) = Created
    BY <1>1 DEF NewMap
  <2> QED BY <1>1, <2>1, CreatedFacts
<1>2. CASE ~j.fresh
  <2>1. NewMap(j) = Loaded(map)
    BY <1>2 DEF NewMap
  <2>2. Apart(map) /\ Covered(map) = Units
    BY DEF Exact
  <2>3. /\ Exact(Loaded(map))
        /\ \A u \in Units : \A t : Says(Loaded(map), u, t) <=>
              IF u \in Covered(map) THEN Says(map, u, t) ELSE t = "NonTried"
    BY <2>2, LoadedFacts
  <2> QED BY <1>2, <2>1, <2>2, <2>3
<1> QED BY <1>1, <1>2

LEMMA PassScopeFacts ==
    ASSUME NEW j \in Jobs, NEW m, NEW sc, Bounded(sc)
    PROVE  Bounded(PassScope(j, m, sc)) /\ Bounded(MapScope(j, m, sc))
<1>1. j.scope \in Scopes
  BY DEF Jobs
<1>2. Limit \in Nat
  BY LimitAssumption
<1>3. Bounded(Whole)
  BY DEF Bounded
<1>4. ASSUME NEW rs, rs \subseteq Ranges1, \A r \in rs : End(r) <= Limit
      PROVE  Bounded(Merged(rs))
  BY <1>2, <1>4, MergedFacts DEF Bounded
<1>5. Bounded(PassScope(j, m, sc))
  <2>1. CASE j.scope = Whole
    BY <1>3, <2>1 DEF PassScope
  <2>2. CASE j.scope # Whole
    <3>1. j.scope \subseteq Ranges1 /\ \A r \in j.scope : End(r) <= Limit
      BY <1>1, <2>2, ScopesAssumption
    <3>2. CASE sc = Whole
      <4>1. PassScope(j, m, sc) = Merged(j.scope)
        BY <2>2, <3>2 DEF PassScope
      <4> QED BY <1>4, <3>1, <4>1
    <3>3. CASE sc # Whole
      <4>1. PassScope(j, m, sc) = Merged(j.scope \cup sc)
        BY <2>2, <3>3 DEF PassScope
      <4>2. sc \subseteq Ranges1 /\ \A r \in sc : End(r) <= Limit
        BY <3>3 DEF Bounded
      <4> DEFINE both == j.scope \cup sc
      <4>3. both \subseteq Ranges1 /\ \A r \in both : End(r) <= Limit
        BY <3>1, <4>2
      <4> HIDE DEF both
      <4>4. Bounded(Merged(both))
        BY <1>4, <4>3
      <4> QED BY <4>1, <4>4 DEF both
    <3> QED BY <3>2, <3>3
  <2> QED BY <2>1, <2>2
<1>6. MapScope(j, m, sc) \in {Whole, PassScope(j, m, sc)}
  BY DEF MapScope
<1> QED BY <1>3, <1>5, <1>6

\* The regions are the untried units the pass is asked for.
LEMMA RegionsFacts ==
    ASSUME NEW m, Exact(m), NEW within, Bounded(within), NEW skip
    PROVE  /\ \A r \in Regions(m, within, skip) : r \in Ranges1 /\ End(r) <= Total
           /\ \A u : u \in Covered(Regions(m, within, skip)) <=>
                 Untried(m, u) /\ Within(within, u) /\ u \notin Covered(skip)
<1> DEFINE T == RangesWith(m, {"NonTried"})
           W == IF within = Whole THEN T ELSE Intersected(T, within)
<1>1. m \subseteq Runs /\ Covered(m) = Units
  BY DEF Exact, Apart
<1>2. T \subseteq Ranges1 /\ Covered(T) = Held(m, {"NonTried"})
  BY <1>1, RangesWithFacts
<1>3. \A u : u \in Held(m, {"NonTried"}) <=> Untried(m, u)
  <2> TAKE u
  <2>1. \A S : u \in Held(m, S) <=> \E t \in S : Says(m, u, t)
    BY <1>1, CoveredSays
  <2>2. u \in Held(m, {"NonTried"}) <=> \E t \in {"NonTried"} : Says(m, u, t)
    BY <2>1
  <2> QED BY <2>2 DEF Untried
<1>4. Regions(m, within, skip) = Subtracted(W, skip)
  BY DEF Regions
<1> HIDE DEF T
<1>5. W \subseteq Ranges1 /\ \A u : u \in Covered(W) <=> Untried(m, u) /\ Within(within, u)
  <2>1. CASE within = Whole
    BY <1>2, <1>3, <2>1 DEF Within
  <2>2. CASE within # Whole
    <3>1. within \subseteq Ranges1
      BY <2>2 DEF Bounded
    <3>2. /\ Intersected(T, within) \subseteq Ranges1
          /\ Covered(Intersected(T, within)) = Covered(T) \cap Covered(within)
      BY <1>2, <3>1, IntersectedFacts
    <3> QED BY <1>2, <1>3, <2>2, <3>2 DEF Within
  <2> QED BY <2>1, <2>2
<1> HIDE DEF W
<1>6. \A r \in W : End(r) <= Total
  <2> SUFFICES ASSUME NEW r \in W PROVE End(r) <= Total
    OBVIOUS
  <2>1. End(r) - 1 \in UnitsIn(r) /\ End(r) \in Nat
    BY <1>5, RangeUnits
  <2>2. End(r) - 1 \in Covered(W)
    BY <2>1 DEF Covered
  <2>3. Untried(m, End(r) - 1)
    BY <1>5, <2>2
  <2>4. End(r) - 1 \in Units
    BY <1>1, <2>3 DEF Untried, Says, Covered
  <2> QED BY <2>1, <2>4, TotalAssumption DEF Units
<1>7. Total \in Nat
  BY TotalAssumption
<1>8. /\ Subtracted(W, skip) \subseteq Ranges1
      /\ Covered(Subtracted(W, skip)) = Covered(W) \ Covered(skip)
      /\ \A r \in Subtracted(W, skip) : End(r) <= Total
  BY <1>5, <1>6, <1>7, SubtractedFacts
<1> QED BY <1>4, <1>5, <1>8

LEMMA WantedFacts ==
    ASSUME NEW m, Exact(m), NEW within, NEW skip
    PROVE  /\ WantedSectors(m, within, skip) \subseteq Sectors
           /\ \A s \in Sectors : s \in WantedSectors(m, within, skip) <=>
                 \E u \in UnitsOf[s] : Untried(m, u) /\ Within(within, u) /\ u \notin Covered(skip)
<1>1. \A s \in Sectors : \A u \in UnitsOf[s] : StatusAt(m, u) = "NonTried" <=> Untried(m, u)
  <2> TAKE s \in Sectors
  <2> TAKE u \in UnitsOf[s]
  <2>1. u \in Units
    BY UnitsOfFacts
  <2> QED BY <2>1, StatusSays DEF Untried
<1> QED BY <1>1 DEF WantedSectors

\* What a pass plans is what it was asked for.
LEMMA PlanFacts ==
    ASSUME NEW m, Exact(m), NEW within, Bounded(within), NEW skip
    PROVE  LET op == WantedSectors(m, within, skip)
               td == Regions(m, within, skip)
           IN  /\ op \subseteq Sectors /\ Asked(m, within, skip, op)
               /\ TodoOK(td, op) /\ AllPlanned(m, td, NoRegion, op)
<1> DEFINE op == WantedSectors(m, within, skip)
           td == Regions(m, within, skip)
<1>1. /\ \A r \in td : r \in Ranges1 /\ End(r) <= Total
      /\ \A u : u \in Covered(td) <=>
            Untried(m, u) /\ Within(within, u) /\ u \notin Covered(skip)
  BY RegionsFacts
<1>2. /\ op \subseteq Sectors
      /\ \A s \in Sectors : s \in op <=>
            \E u \in UnitsOf[s] : Untried(m, u) /\ Within(within, u) /\ u \notin Covered(skip)
  BY WantedFacts
<1> HIDE DEF op, td
<1>3. Asked(m, within, skip, op)
  BY <1>2 DEF Asked
<1>4. TodoOK(td, op)
  <2>1. ASSUME NEW r \in td, NEW s \in Sectors, NEW u \in UnitsOf[s], u \in UnitsIn(r)
        PROVE  s \in op
    <3>1. u \in Covered(td)
      BY <2>1 DEF Covered
    <3> QED BY <1>1, <1>2, <3>1
  <2> QED BY <1>1, <2>1 DEF TodoOK
<1>5. AllPlanned(m, td, NoRegion, op)
  <2> SUFFICES ASSUME NEW s \in op, NEW u \in UnitsOf[s]
               PROVE  \E r \in td : u \in UnitsIn(Snapped(r))
    BY DEF AllPlanned, Planned
  <2>1. s \in Sectors
    BY <1>2
  <2>2. PICK v \in UnitsOf[s] : v \in Covered(td)
    BY <1>1, <1>2, <2>1
  <2>3. PICK r \in td : v \in UnitsIn(r)
    BY <2>2 DEF Covered
  <2>4. r \in Ranges1 /\ End(r) <= Total
    BY <1>1
  <2>5. v \in UnitsIn(Snapped(r))
    BY <2>3, <2>4, SnappedFacts
  <2>6. PICK a \in Nat, z \in Nat : Sectors1(Snapped(r), a, z)
    BY <2>4, SnappedFacts
  <2>7. \A x : x \in UnitsIn(Snapped(r)) <=> x \in Nat /\ a * Sector <= x /\ x < z * Sector
    <3>1. UnitsIn(Snapped(r)) = (a * Sector)..(z * Sector - 1)
      BY <2>6 DEF UnitsIn, Sectors1
    <3>2. a * Sector \in Nat /\ z * Sector \in Nat
      BY Dist
    <3> QED BY <3>1, <3>2
  <2>8. a <= s /\ s < z
    BY <2>1, <2>5, <2>7, InSectors
  <2>9. u \in Nat /\ a * Sector <= u /\ u < z * Sector
    BY <2>1, <2>8, InSectors, UnitsOfFacts
  <2> QED BY <2>7, <2>9
<1> QED BY <1>2, <1>3, <1>4, <1>5 DEF op, td

LEMMA EmptyRegion == ASSUME NEW op PROVE RegionOK(NoRegion, op)
<1>1. NoRegion.pos = 0 /\ NoRegion.size = 0 /\ End(NoRegion) = 0 /\ 0 * Sector = 0
  BY SectorAssumption DEF NoRegion, Range1, End
<1>2. Spans1(NoRegion, 0, 0, op)
  BY <1>1, TotalAssumption DEF Spans1, Sectors1
<1> QED BY <1>2 DEF RegionOK

LEMMA NewContext == ZoneOK(ForSweep) /\ ForSweep.zone = FALSE /\ ForSweep.wedges = 0
BY PolicyAssumption DEF ZoneOK, ForSweep, Contexts

LEMMA BeginKeeps ==
    ASSUME IInv, NEW j \in Jobs, Begin(j)
    PROVE  IInv'
<1> DEFINE m == NewMap(j)
           sc == IF j.fresh THEN Whole ELSE scope
           within == PassScope(j, m, sc)
<1>1. /\ map' = m /\ counts' = Tallied(m) /\ scope' = MapScope(j, m, sc)
      /\ job' = j /\ reading' = within /\ open' = WantedSectors(m, within, j.skip)
      /\ todo' = Regions(m, within, j.skip)
      /\ pc' = "reading" /\ region' = NoRegion /\ ctx' = ForSweep /\ tries' = 0 /\ slow' = FALSE
      /\ result' = NoResult
  BY DEF Begin, NewMap
<1>2. Exact(m)
  BY NewMapFacts DEF IInv, MapInv
<1>3. Bounded(sc)
  BY DEF IInv, ScopeInv, Bounded
<1> HIDE DEF m, sc
<1>4. Bounded(within) /\ Bounded(MapScope(j, m, sc))
  BY <1>3, PassScopeFacts
<1> HIDE DEF within
<1>5. /\ open' \subseteq Sectors /\ Asked(m, within, j.skip, open')
      /\ TodoOK(todo', open') /\ AllPlanned(m, todo', NoRegion, open')
  BY <1>1, <1>2, <1>4, PlanFacts
<1>6. MapInv'
  BY <1>1, <1>2 DEF MapInv
<1>7. ScopeInv'
  BY <1>1, <1>4 DEF ScopeInv, Bounded
<1>8. AskedInv'
  BY <1>1, <1>5 DEF AskedInv
<1>9. PlanInv'
  BY <1>1, <1>5, EmptyRegion DEF PlanInv
<1>10. NoResult # "complete" /\ NoResult = "none"
  BY DEF NoResult
<1>11. DoneInv' /\ ControlInv'
  BY <1>1, <1>10 DEF DoneInv, ControlInv
<1>12. PaceInv'
  <2>1. WedgeAbort > 0
    BY PolicyAssumption
  <2>2. ZoneOK(ctx') /\ ctx'.wedges < WedgeAbort
    BY <1>1, <2>1, NewContext
  <2>3. slow' \in BOOLEAN /\ (slow' <=> ctx'.zone)
    BY <1>1, NewContext
  <2> QED BY <1>1, <2>2, <2>3, FreshPace
<1> QED BY <1>6, <1>7, <1>8, <1>9, <1>11, <1>12 DEF IInv

Given == {"NonTrimmed", "NonScraped"}

LEMMA GiveUpFacts ==
    ASSUME Exact(map)
    PROVE  LET v == Promoted(map, Given, "Unreadable")
           IN  /\ Exact(v)
               /\ \A u \in Units : \A t : Says(v, u, t) <=>
                     t = IF StatusAt(map, u) \in Given THEN "Unreadable" ELSE StatusAt(map, u)
               /\ \A u \in Units : Untried(v, u) => Untried(map, u)
<1> DEFINE v == Promoted(map, Given, "Unreadable")
<1>1. /\ Exact(v)
      /\ \A u \in Units : \A t : Says(v, u, t) <=>
            \E s : Says(map, u, s) /\ t = IF s \in Given THEN "Unreadable" ELSE s
  <2>1. "Unreadable" \in Statuses
    BY DEF Statuses
  <2> HIDE DEF Given
  <2> QED BY <2>1, PromotedFacts
<1> HIDE DEF v
<1>2. \A u \in Units : \A t : Says(v, u, t) <=>
         t = IF StatusAt(map, u) \in Given THEN "Unreadable" ELSE StatusAt(map, u)
  <2> TAKE u \in Units
  <2> TAKE t
  <2>1. \A s : Says(map, u, s) <=> s = StatusAt(map, u)
    BY StatusSays
  <2> HIDE DEF Given
  <2> QED BY <1>1, <2>1
<1>3. ASSUME NEW u \in Units, Untried(v, u) PROVE Untried(map, u)
  <2>1. "NonTried" = IF StatusAt(map, u) \in Given THEN "Unreadable" ELSE StatusAt(map, u)
    BY <1>2, <1>3 DEF Untried
  <2>2. StatusAt(map, u) = "NonTried"
    BY <2>1
  <2> QED BY <2>2, StatusSays DEF Untried
<1> QED BY <1>1, <1>2, <1>3 DEF v

LEMMA GiveUpKeeps ==
    ASSUME IInv, GiveUp
    PROVE  IInv'
<1>1. /\ pc = "ended" /\ map' = Promoted(map, Given, "Unreadable") /\ counts' = Tallied(map')
      /\ scope' = scope /\ job' = job /\ reading' = reading /\ open' = open /\ ctx' = ctx
      /\ slow' = slow /\ tries' = tries /\ pc' = pc /\ result' = result
  BY DEF GiveUp, planVars, readVars, Given
<1>2. Exact(map)
  BY DEF IInv, MapInv
<1>3. Exact(map') /\ \A u \in Units : Untried(map', u) => Untried(map, u)
  BY <1>1, <1>2, GiveUpFacts
<1>4. MapInv'
  BY <1>1, <1>3 DEF MapInv
<1>5. ScopeInv'
  BY <1>1 DEF IInv, ScopeInv, Bounded
<1>6. AskedInv'
  <2>1. open \subseteq Sectors /\ Asked(map, reading, job.skip, open)
    BY <1>1 DEF IInv, AskedInv
  <2>2. Asked(map', reading, job.skip, open)
    BY <1>3, <2>1, AskedKept
  <2> QED BY <1>1, <2>1, <2>2 DEF AskedInv
<1>7. DoneInv'
  <2> SUFFICES ASSUME result = "complete" PROVE AllTried(map', open)
    BY <1>1 DEF DoneInv
  <2>1. open \subseteq Sectors /\ AllTried(map, open)
    BY DEF IInv, AskedInv, DoneInv
  <2> QED BY <1>3, <2>1, TriedKept
<1>8. PlanInv' /\ ControlInv'
  BY <1>1 DEF IInv, PlanInv, ControlInv
<1>9. PaceInv'
  BY <1>1 DEF IInv, PaceInv
<1> QED BY <1>4, <1>5, <1>6, <1>7, <1>8, <1>9 DEF IInv

LEMMA InitInv == Init => IInv
<1> SUFFICES ASSUME Init PROVE IInv
  OBVIOUS
<1>1. PICK ls \in MapFiles : Loadable(ls) /\ map = Loaded(ls)
  BY DEF Init
<1>2. ls \subseteq Runs /\ \A r \in ls : End(r) <= Total
  BY MapFilesAssumption
<1>3. Apart(ls) /\ Covered(ls) \subseteq Units
  BY <1>1, <1>2, LoadableApart
<1>4. Exact(map)
  BY <1>1, <1>3, LoadedFacts
<1>5. MapInv
  BY <1>4 DEF Init, MapInv
<1>6. ScopeInv
  BY DEF Init, ScopeInv, Bounded
<1>7. AskedInv /\ PlanInv /\ DoneInv /\ ControlInv
  BY DEF Init, AskedInv, PlanInv, DoneInv, ControlInv, NoResult
<1>8. PaceInv
  <2>1. ctx = ForSweep /\ tries = 0 /\ slow = FALSE /\ pc = "idle"
    BY DEF Init
  <2>2. ZoneOK(ctx)
    BY <2>1, NewContext
  <2>3. slow \in BOOLEAN /\ pc # "reading"
    BY <2>1
  <2>4. tries \in Nat /\ tries <= NotReadyTries + BridgeTries
    BY <2>1, PolicyAssumption
  <2> QED BY <2>2, <2>3, <2>4 DEF PaceInv
<1> QED BY <1>5, <1>6, <1>7, <1>8 DEF IInv

LEMMA NextInv == IInv /\ [Next]_vars => IInv'
<1> SUFFICES ASSUME IInv, [Next]_vars PROVE IInv'
  OBVIOUS
<1>1. CASE \E j \in Jobs : Begin(j)
  BY <1>1, BeginKeeps
<1>2. CASE Step
  <2>1. CASE NextRegion
    BY <2>1, NextRegionKeeps
  <2>2. CASE ReadFails \/ Halts \/ Completes
    BY <2>2, HaltsKeeps
  <2>3. CASE ReadGood
    BY <2>3, GoodKeeps
  <2>4. ASSUME NEW failure \in Failures,
               \/ ReadRetried(failure) \/ ReadSkipped(failure) \/ ReadJumped(failure)
               \/ JumpCutShort(failure) \/ ReadAborts(failure)
        PROVE  IInv'
    BY <2>4, RetriedKeeps, SkippedKeeps, JumpedKeeps, JumpCutKeeps, AbortKeeps
  <2> QED BY <1>2, <2>1, <2>2, <2>3, <2>4 DEF Step
<1>3. CASE SendFails
  BY <1>3, HaltsKeeps
<1>4. CASE Stop \/ UNCHANGED vars
  BY <1>4, StopKeeps
<1>5. CASE GiveUp
  BY <1>5, GiveUpKeeps
<1> QED BY <1>1, <1>2, <1>3, <1>4, <1>5 DEF Next

LEMMA InvAlways == Spec => []IInv
<1> QED BY InitInv, NextInv, PTL DEF Spec

----------------------------------------------------------------------------
(* The theorems. *)

LEMMA ExactTiles ==
    ASSUME Exact(map)
    PROVE  map \subseteq Runs /\ Covered(map) \subseteq Units /\ Tiled /\ Maximal
<1>1. map \subseteq Runs /\ Apart(map) /\ Covered(map) = Units
  BY DEF Exact, Apart
<1>2. \A u \in Units : \E r \in map : u \in UnitsIn(r)
  BY <1>1 DEF Covered
<1>3. ASSUME NEW r \in map, NEW q \in map, r # q PROVE UnitsIn(r) \cap UnitsIn(q) = {}
  <2> SUFFICES ASSUME NEW u, u \in UnitsIn(r), u \in UnitsIn(q) PROVE FALSE
    OBVIOUS
  <2>1. u \in Nat
    BY <1>1, RunUnits
  <2> QED BY <1>1, <1>3, <2>1 DEF Apart
<1>4. Maximal
  BY DEF Exact, Grown, Maximal
<1> QED BY <1>1, <1>2, <1>3, <1>4 DEF Tiled

\* Whatever a mapfile found on disk says, whatever a pass is asked for and
\* whatever the drive answers: `splice` keeps the runs tiling the image and
\* maximal, and the retries, the jump and the speed keep to the damage zone.
THEOREM TypeCorrect == Spec => []TypeOK
<1>1. IInv => TypeOK
  <2> SUFFICES ASSUME IInv PROVE TypeOK
    OBVIOUS
  <2>1. map \subseteq Runs /\ Covered(map) \subseteq Units /\ Tiled /\ Maximal
    BY ExactTiles DEF IInv, MapInv
  <2>2. ctx \in Contexts /\ Paced
    BY DEF IInv, PaceInv, ZoneOK, Paced
  <2>3. /\ pc \in {"idle", "reading", "ended"}
        /\ result \in {NoResult, "complete", "halted", "failed"} /\ open \subseteq Sectors
    BY DEF IInv, ControlInv, AskedInv
  <2> QED BY <2>1, <2>2, <2>3 DEF TypeOK
<1> QED BY <1>1, InvAlways, PTL

LEMMA MeasureIs ==
    ASSUME NEW m, Exact(m), NEW f \in Counters, f # "badRanges"
    PROVE  Tallied(m)[f] = Cardinality(Held(m, Class(f)))
BY DEF Tallied, Share, Measure, Held

LEMMA HeldIs ==
    ASSUME NEW m, Exact(m), NEW S
    PROVE  /\ Held(m, S) = {u \in Units : StatusAt(m, u) \in S}
           /\ IsFiniteSet(Held(m, S)) /\ Held(m, S) \subseteq Units
<1>1. m \subseteq Runs /\ Covered(m) = Units
  BY DEF Exact, Apart
<1>2. ASSUME NEW u PROVE u \in Held(m, S) <=> u \in Units /\ StatusAt(m, u) \in S
  <2>1. u \in Held(m, S) <=> \E t \in S : Says(m, u, t)
    BY <1>1, CoveredSays
  <2>2. (\E t \in S : Says(m, u, t)) => u \in Units
    BY <1>1 DEF Says, Covered
  <2>3. u \in Units => \A t : Says(m, u, t) <=> t = StatusAt(m, u)
    BY StatusSays
  <2> QED BY <2>1, <2>2, <2>3
<1>3. Held(m, S) = {u \in Units : StatusAt(m, u) \in S}
  BY <1>2
<1>4. IsFiniteSet(Units)
  BY ExactFinite
<1> QED BY <1>3, <1>4, FS_Subset

\* The untried units, in and out of the scope.
LEMMA OutsideIs ==
    ASSUME NEW m, Exact(m), NEW sc, Bounded(sc)
    PROVE  LET T == Held(m, {"NonTried"})
               I == {u \in T : Within(sc, u)}
           IN  /\ IsFiniteSet(T) /\ IsFiniteSet(I)
               /\ Cardinality(T) \in Nat /\ Cardinality(I) \in Nat
               /\ Outside(m, sc) = Cardinality(T) - Cardinality(I)
<1> DEFINE T == Held(m, {"NonTried"})
           I == {u \in T : Within(sc, u)}
           untried == RangesWith(m, {"NonTried"})
<1>1. m \subseteq Runs
  BY DEF Exact, Apart
<1>2. untried \subseteq Ranges1 /\ Covered(untried) = T
  BY <1>1, RangesWithFacts
<1>3. IsFiniteSet(T)
  BY HeldIs
<1>4. IsFiniteSet(I)
  BY <1>3, FS_Subset
<1>5. Cardinality(T) \in Nat /\ Cardinality(I) \in Nat
  BY <1>3, <1>4, FS_CardinalityType
<1>6. Outside(m, sc) = IF sc = Whole THEN 0 ELSE Measure(untried) - Measure(Intersected(untried, sc))
  BY DEF Outside
<1>7. Outside(m, sc) = Cardinality(T) - Cardinality(I)
  <2>1. CASE sc = Whole
    <3>1. I = T
      BY <2>1 DEF Within
    <3> HIDE DEF T, I
    <3> QED BY <1>5, <1>6, <2>1, <3>1
  <2>2. CASE sc # Whole
    <3>1. sc \subseteq Ranges1
      BY <2>2 DEF Bounded
    <3>2. Covered(Intersected(untried, sc)) = T \cap Covered(sc)
      BY <1>2, <3>1, IntersectedFacts
    <3>3. I = T \cap Covered(sc)
      BY <2>2 DEF Within
    <3>4. Measure(untried) = Cardinality(T) /\ Measure(Intersected(untried, sc)) = Cardinality(I)
      BY <1>2, <3>2, <3>3 DEF Measure
    <3> QED BY <1>6, <2>2, <3>4
  <2> QED BY <2>1, <2>2
<1> QED BY <1>3, <1>4, <1>5, <1>7

\* The counters as they are read.
LEMMA StatsAre ==
    ASSUME NEW m, Exact(m), NEW sc, Bounded(sc)
    PROVE  LET c == Tallied(m)
               d == Stats(m, c, sc)
               I == {u \in Held(m, {"NonTried"}) : Within(sc, u)}
           IN  /\ d = [f \in Counters |-> d[f]]
               /\ \A f \in Counters \ {"pending", "nontried"} : d[f] = c[f]
               /\ d.nontried = Cardinality(I)
               /\ d.pending = Cardinality(Held(m, Given)) + Cardinality(I)
<1> DEFINE c == Tallied(m)
           d == Stats(m, c, sc)
           T == Held(m, {"NonTried"})
           G == Held(m, Given)
           P == Held(m, {"NonTried", "NonTrimmed", "NonScraped"})
           I == {u \in T : Within(sc, u)}
           o == Outside(m, sc)
<1>1. c = [f \in Counters |-> c[f]] /\ "pending" \in Counters /\ "nontried" \in Counters
  BY DEF Tallied, Counters
<1>2. d = [c EXCEPT !["pending"] = @ - o, !["nontried"] = @ - o]
  BY DEF Stats
<1>3. /\ d = [f \in Counters |-> d[f]] /\ d["pending"] = c["pending"] - o
      /\ d["nontried"] = c["nontried"] - o
      /\ \A f \in Counters \ {"pending", "nontried"} : d[f] = c[f]
  <2> HIDE DEF c, o, d
  <2> QED BY <1>1, <1>2
<1>4. c["nontried"] = Cardinality(T) /\ c["pending"] = Cardinality(P)
  <2>1. Class("nontried") = {"NonTried"} /\ Class("pending") = {"NonTried", "NonTrimmed", "NonScraped"}
    BY DEF Class
  <2> QED BY <1>1, <2>1, MeasureIs
<1>5. /\ Cardinality(T) \in Nat /\ Cardinality(I) \in Nat
      /\ o = Cardinality(T) - Cardinality(I)
  BY OutsideIs
<1>6. Cardinality(P) = Cardinality(T) + Cardinality(G) /\ Cardinality(G) \in Nat
  <2>1. Parts(P, T, G)
    <3>1. /\ P = {u \in Units : StatusAt(m, u) \in {"NonTried", "NonTrimmed", "NonScraped"}}
          /\ T = {u \in Units : StatusAt(m, u) \in {"NonTried"}}
          /\ G = {u \in Units : StatusAt(m, u) \in Given}
      BY HeldIs
    <3> HIDE DEF P, T, G
    <3> QED BY <3>1 DEF Parts, Given
  <2>2. IsFiniteSet(P)
    BY HeldIs
  <2> QED BY <2>1, <2>2, Cut
<1>7. d["nontried"] = Cardinality(I) /\ d["pending"] = Cardinality(G) + Cardinality(I)
  <2> HIDE DEF T, G, P, I, c, d, o
  <2> QED BY <1>3, <1>4, <1>5, <1>6
<1> QED BY <1>3, <1>7

\* A pass that ends "complete" left no unit it was asked for untried, and when
\* it was asked for the whole scope the counters say so: what `Sweep::run`
\* returns as complete the mapfile's statistics bear out.
THEOREM SweptTrueAlways == Spec => []SweptTrue
<1>1. IInv => SweptTrue
  <2> SUFFICES ASSUME IInv, result = "complete"
               PROVE  /\ \A s \in open : \A u \in UnitsOf[s] : StatusAt(map, u) # "NonTried"
                      /\ job.skip = {} /\ reading = scope =>
                            Stats(map, counts, scope).nontried = 0
    BY DEF SweptTrue
  <2>1. /\ Exact(map) /\ counts = Tallied(map) /\ Bounded(scope)
        /\ open \subseteq Sectors /\ Asked(map, reading, job.skip, open) /\ AllTried(map, open)
    <3>1. result = "complete" => pc = "ended"
      BY DEF IInv, ControlInv
    <3> QED BY <3>1 DEF IInv, MapInv, ScopeInv, AskedInv, DoneInv
  <2>2. \A s \in open : \A u \in UnitsOf[s] : StatusAt(map, u) # "NonTried"
    <3> SUFFICES ASSUME NEW s \in open, NEW u \in UnitsOf[s] PROVE StatusAt(map, u) # "NonTried"
      OBVIOUS
    <3>1. u \in Units /\ ~Untried(map, u)
      BY <2>1, UnitsOfFacts DEF AllTried
    <3> QED BY <2>1, <3>1, StatusSays DEF Untried
  <2>3. ASSUME job.skip = {}, reading = scope PROVE Stats(map, counts, scope).nontried = 0
    <3> DEFINE I == {u \in Held(map, {"NonTried"}) : Within(scope, u)}
    <3>1. Stats(map, counts, scope).nontried = Cardinality(I)
      BY <2>1, StatsAre
    <3>2. ASSUME NEW u \in I PROVE FALSE
      <4>1. u \in Units /\ StatusAt(map, u) = "NonTried" /\ Within(reading, u)
        BY <2>1, <2>3, HeldIs
      <4>2. PICK s \in Sectors : u \in UnitsOf[s]
        BY <4>1, UnitSector
      <4>3. Untried(map, u)
        BY <2>1, <4>1, StatusSays DEF Untried
      <4>4. u \notin Covered(job.skip)
        BY <2>3 DEF Covered
      <4>5. s \in open
        BY <2>1, <4>1, <4>2, <4>3, <4>4 DEF Asked
      <4> QED BY <2>2, <4>1, <4>2, <4>5
    <3>3. I = {}
      BY <3>2
    <3> HIDE DEF I
    <3> QED BY <3>1, <3>3, FS_EmptySet
  <2> QED BY <2>2, <2>3
<1> QED BY <1>1, InvAlways, PTL

\* What is left of a region after a first part of it was recorded.
LEMMA MovedShortens ==
    ASSUME NEW a, NEW z, NEW c, NEW s, Advance(a, z, c, s), Moved(c, z)
    PROVE  todo' = todo /\ region'.size < region.size
<1>1. /\ Spans1(region, a, z, open) /\ c \in Nat /\ a < c /\ c <= z
      /\ Sectors1(region', c, z) /\ region'.size \in Nat /\ todo' = todo
  BY DEF Advance, Moved
<1>2. /\ a \in Nat /\ z \in Nat /\ a * Sector \in Nat /\ z * Sector \in Nat
      /\ a * Sector + region.size = z * Sector /\ region.size \in Nat
  BY <1>1, SpanFacts DEF Spans1
<1>3. region'.pos = c * Sector /\ c * Sector + region'.size = z * Sector
  BY <1>1 DEF Sectors1, End
<1>4. a * Sector < c * Sector /\ c * Sector \in Nat
  BY <1>1, <1>2, Order, Dist
<1> QED BY <1>1, <1>2, <1>3, <1>4

\* Why a pass ends: a step of the reading loop begins a region, or leaves less of
\* the one it reads, or uses up a retry for good. No answer of the drive gives
\* a block its retries back (the counters of `ReadCtx`).
Spends ==
    [][pc = "reading" /\ pc' = "reading" =>
          \/ todo' \subseteq todo /\ todo' # todo
          \/ todo' = todo /\ region'.size < region.size
          \/ /\ todo' = todo /\ region' = region
             /\ ctx'.notReady + ctx'.bridge > ctx.notReady + ctx.bridge]_readVars

\* Whatever the drive answers, the reading loop moves on through its regions or
\* uses up the retries of `ReadCtx`, which its type bounds: with reads that
\* return there is no endless pass, for any disc, thresholds and regions.
THEOREM SpendsAlways == Spec => Spends
<1> DEFINE Less ==
        pc = "reading" /\ pc' = "reading" =>
          \/ todo' \subseteq todo /\ todo' # todo
          \/ todo' = todo /\ region'.size < region.size
          \/ /\ todo' = todo /\ region' = region
             /\ ctx'.notReady + ctx'.bridge > ctx.notReady + ctx.bridge
<1>1. IInv /\ [Next]_vars => [Less]_readVars
  <2> SUFFICES ASSUME IInv, [Next]_vars, pc = "reading", pc' = "reading"
               PROVE  \/ todo' \subseteq todo /\ todo' # todo
                      \/ todo' = todo /\ region'.size < region.size
                      \/ /\ todo' = todo /\ region' = region
                         /\ ctx'.notReady + ctx'.bridge > ctx.notReady + ctx.bridge
                      \/ UNCHANGED readVars
    OBVIOUS
  <2>1. CASE (\E j \in Jobs : Begin(j)) \/ GiveUp
    BY <2>1 DEF Begin, GiveUp
  <2>2. CASE Stop \/ UNCHANGED vars
    BY <2>2 DEF Stop, vars
  <2>3. CASE ReadFails \/ SendFails \/ Halts \/ Completes
    BY <2>3 DEF ReadFails, SendFails, Halts, Completes, Ended
  <2>4. CASE NextRegion
    BY <2>4 DEF NextRegion
  <2>5. CASE ReadGood
    BY <2>5, ReadGoodMoves, MovedShortens
  <2>6. ASSUME NEW failure \in Failures, ReadSkipped(failure) \/ ReadJumped(failure)
        PROVE  todo' = todo /\ region'.size < region.size
    BY <2>6, ReadSkippedMoves, ReadJumpedMoves, MovedShortens
  <2>7. ASSUME NEW failure \in Failures, JumpCutShort(failure) \/ ReadAborts(failure)
        PROVE  FALSE
    BY <2>7 DEF JumpCutShort, ReadAborts, Ended
  <2>8. ASSUME NEW failure \in Failures, ReadRetried(failure)
        PROVE  /\ todo' = todo /\ region' = region
               /\ ctx'.notReady + ctx'.bridge > ctx.notReady + ctx.bridge
    <3>1. /\ Reading /\ todo' = todo /\ region' = region
          /\ HandleReadError(failure, ctx).action.do = "retry"
          /\ ctx' = HandleReadError(failure, ctx).ctx
      BY <2>8 DEF ReadRetried, Handles
    <3>2. ZoneOK(ctx) /\ ctx.wedges < WedgeAbort
      BY <3>1, ReadingFacts
    <3>3. ctx'.notReady + ctx'.bridge = ctx.notReady + ctx.bridge + 1
      BY <3>1, <3>2, PolicyFacts DEF DecisionOK
    <3>4. ctx.notReady \in Nat /\ ctx.bridge \in Nat
      BY <3>2, ContextParts, PolicyAssumption DEF ZoneOK
    <3> QED BY <3>1, <3>3, <3>4
  <2> QED BY <2>1, <2>2, <2>3, <2>4, <2>5, <2>6, <2>7, <2>8 DEF Next, Step
<1> QED BY <1>1, InvAlways, PTL DEF Spec, Spends

----------------------------------------------------------------------------
(* The passes implement SectorMap. *)

St(m) == [u \in Units |-> StatusAt(m, u)]
ScopeUnits(sc) == {u \in Units : Within(sc, u)}

LEMMA SameUnits == Abstract!Units = Units /\ Abstract!Statuses = Statuses
<1>1. ASSUME NEW u PROVE u \in Abstract!Units <=> u \in Units
  <2>1. u \in Abstract!Units <=> \E s \in Sectors : u \in UnitsOf[s]
    BY DEF Abstract!Units
  <2> QED BY <2>1, UnitsOfFacts, UnitSector
<1> QED BY <1>1 DEF Abstract!Statuses, Statuses

LEMMA SameCardinality == ASSUME NEW S PROVE Abstract!Cardinality(S) = Cardinality(S)
BY DEF Abstract!Cardinality, Cardinality

LEMMA AbstractWith ==
    ASSUME NEW m, Exact(m), NEW S
    PROVE  Abstract!With(St(m), S) = Held(m, S)
<1>1. Held(m, S) = {u \in Units : StatusAt(m, u) \in S}
  BY HeldIs
<1>2. Abstract!With(St(m), S) = {u \in Units : St(m)[u] \in S}
  BY SameUnits DEF Abstract!With
<1>3. \A u \in Units : St(m)[u] = StatusAt(m, u)
  BY DEF St
<1> QED BY <1>1, <1>2, <1>3

LEMMA BadRangesAre ==
    ASSUME NEW m, Exact(m)
    PROVE  Tallied(m)["badRanges"] =
              Cardinality({u \in Held(m, {"Unreadable"}) : u - 1 \notin Held(m, {"Unreadable"})})
<1> DEFINE H == Held(m, {"Unreadable"})
           F == {u \in Units : Says(m, u, "Unreadable") /\ ~Says(m, u - 1, "Unreadable")}
<1>1. "badRanges" \in Counters /\ Class("badRanges") = {"Unreadable"} /\ "Unreadable" \in Statuses
  BY DEF Counters, Class, Statuses
<1>2. Tallied(m)["badRanges"] = Cardinality(With(m, {"Unreadable"}))
  BY <1>1 DEF Tallied, Share
<1>3. m \subseteq Runs /\ Covered(m) = Units
  BY DEF Exact, Apart
<1>4. ASSUME NEW u PROVE u \in H <=> Says(m, u, "Unreadable")
  <2>1. u \in H <=> \E t \in {"Unreadable"} : Says(m, u, t)
    BY <1>3, CoveredSays
  <2> QED BY <2>1
<1>5. H \subseteq Units
  BY HeldIs
<1> HIDE DEF H
<1>6. F = {u \in H : u - 1 \notin H}
  BY <1>4, <1>5
<1>7. Cardinality(With(m, {"Unreadable"})) = Cardinality(F)
  BY <1>1, BadFacts
<1> QED BY <1>2, <1>6, <1>7 DEF H

LEMMA CountedAre ==
    ASSUME NEW m, Exact(m), NEW sc, Bounded(sc)
    PROVE  Stats(m, Tallied(m), sc) = Abstract!Counted(St(m), ScopeUnits(sc))
<1> DEFINE c == Tallied(m)
           d == Stats(m, c, sc)
           T == Held(m, {"NonTried"})
           I == {u \in T : Within(sc, u)}
           G == Held(m, Given)
           U == Held(m, {"Unreadable"})
           B == {u \in U : u - 1 \notin U}
<1>1. /\ d = [f \in Counters |-> d[f]]
      /\ \A f \in Counters \ {"pending", "nontried"} : d[f] = c[f]
      /\ d.nontried = Cardinality(I) /\ d.pending = Cardinality(G) + Cardinality(I)
  BY StatsAre
<1>2. /\ c["good"] = Cardinality(Held(m, {"Finished"})) /\ c["unreadable"] = Cardinality(U)
      /\ c["retryable"] = Cardinality(G)
  <2>1. /\ Class("good") = {"Finished"} /\ Class("unreadable") = {"Unreadable"}
        /\ Class("retryable") = Given
        /\ "good" \in Counters /\ "unreadable" \in Counters /\ "retryable" \in Counters
    BY DEF Class, Given, Counters
  <2> QED BY <2>1, MeasureIs
<1>3. c["badRanges"] = Cardinality(B)
  BY BadRangesAre
<1> HIDE DEF c, d
<1>4. Counters \ {"pending", "nontried"} = {"good", "unreadable", "retryable", "badRanges"}
  BY DEF Counters
<1>5. d = [good |-> Cardinality(Held(m, {"Finished"})), unreadable |-> Cardinality(U),
           pending |-> Cardinality(G) + Cardinality(I), nontried |-> Cardinality(I),
           retryable |-> Cardinality(G), badRanges |-> Cardinality(B)]
  <2> HIDE DEF I, G, U, B
  <2>1. /\ d.good = Cardinality(Held(m, {"Finished"})) /\ d.unreadable = Cardinality(U)
        /\ d.retryable = Cardinality(G) /\ d.badRanges = Cardinality(B)
    BY <1>1, <1>2, <1>3, <1>4
  <2> QED BY <1>1, <2>1 DEF Counters
<1>6. Cardinality(G \cup I) = Cardinality(G) + Cardinality(I)
  <2>1. /\ G = {u \in Units : StatusAt(m, u) \in Given} /\ IsFiniteSet(G)
        /\ T = {u \in Units : StatusAt(m, u) \in {"NonTried"}} /\ IsFiniteSet(T)
    BY HeldIs
  <2>2. Parts(G \cup I, G, I)
    <3> HIDE DEF G, T
    <3> QED BY <2>1 DEF Parts, Given
  <2>3. IsFiniteSet(I)
    BY <2>1, FS_Subset
  <2>4. IsFiniteSet(G \cup I)
    BY <2>1, <2>3, FS_Union
  <2> QED BY <2>2, <2>4, Cut
<1>7. /\ Abstract!With(St(m), {"Finished"}) = Held(m, {"Finished"})
      /\ Abstract!With(St(m), {"Unreadable"}) = U /\ Abstract!With(St(m), Abstract!Damaged) = G
      /\ Abstract!With(St(m), {"NonTried"}) = T
  BY AbstractWith DEF Abstract!Damaged, Given
<1>8. ScopeUnits(sc) \cap T = I
  <2>1. T \subseteq Units
    BY HeldIs
  <2> HIDE DEF T
  <2> QED BY <2>1 DEF ScopeUnits
<1> HIDE DEF G, T, U, I
<1>9. Abstract!Counted(St(m), ScopeUnits(sc)) =
         [good |-> Cardinality(Held(m, {"Finished"})), unreadable |-> Cardinality(U),
          pending |-> Cardinality(G \cup I), nontried |-> Cardinality(I),
          retryable |-> Cardinality(G), badRanges |-> Cardinality(B)]
  <2> DEFINE S == St(m)
             C == ScopeUnits(sc)
             V == {u \in Abstract!With(S, {"Unreadable"}) :
                      u - 1 \notin Abstract!With(S, {"Unreadable"})}
  <2>1. Abstract!Counted(S, C) =
           [good |-> Cardinality(Abstract!With(S, {"Finished"})),
            unreadable |-> Cardinality(Abstract!With(S, {"Unreadable"})),
            pending |-> Cardinality(Abstract!With(S, Abstract!Damaged)
                                    \cup (C \cap Abstract!With(S, {"NonTried"}))),
            nontried |-> Cardinality(C \cap Abstract!With(S, {"NonTried"})),
            retryable |-> Cardinality(Abstract!With(S, Abstract!Damaged)),
            badRanges |-> Cardinality(V)]
    BY SameCardinality DEF Abstract!Counted
  <2>2. V = B
    BY <1>7
  <2>3. /\ Abstract!With(S, {"Finished"}) = Held(m, {"Finished"})
        /\ Abstract!With(S, {"Unreadable"}) = U /\ Abstract!With(S, Abstract!Damaged) = G
        /\ Abstract!With(S, {"NonTried"}) = T /\ C \cap T = I
    BY <1>7, <1>8
  <2> HIDE DEF S, C, V, B
  <2>4. Abstract!Counted(S, C) =
           [good |-> Cardinality(Held(m, {"Finished"})), unreadable |-> Cardinality(U),
            pending |-> Cardinality(G \cup I), nontried |-> Cardinality(I),
            retryable |-> Cardinality(G), badRanges |-> Cardinality(B)]
    BY <2>1, <2>2, <2>3
  <2> QED BY <2>4 DEF S, C
<1>10. d = Abstract!Counted(St(m), ScopeUnits(sc))
  <2> HIDE DEF B
  <2> QED BY <1>5, <1>6, <1>9
<1> QED BY <1>10 DEF d, c

LEMMA AbstractCounts ==
    ASSUME IInv
    PROVE  /\ St(map) \in [Units -> Statuses] /\ ScopeUnits(scope) \in SUBSET Units
           /\ Stats(map, counts, scope) = Abstract!Counted(St(map), ScopeUnits(scope))
<1>1. Exact(map) /\ counts = Tallied(map) /\ Bounded(scope)
  BY DEF IInv, MapInv, ScopeInv
<1>2. St(map) \in [Units -> Statuses]
  BY <1>1, StatusSays DEF St
<1>3. Stats(map, counts, scope) = Abstract!Counted(St(map), ScopeUnits(scope))
  BY <1>1, CountedAre
<1> QED BY <1>2, <1>3 DEF ScopeUnits

LEMMA SameStatus ==
    ASSUME NEW m, Exact(m), NEW v, Exact(v), NEW u \in Units,
           \A t : Says(v, u, t) <=> Says(m, u, t)
    PROVE  StatusAt(v, u) = StatusAt(m, u)
BY StatusSays

LEMMA BeginImplements ==
    ASSUME IInv, IInv', NEW j \in Jobs, Begin(j)
    PROVE  Abstract!Begin
<1> DEFINE m == NewMap(j)
           within == PassScope(j, m, IF j.fresh THEN Whole ELSE scope)
<1>1. Exact(map) /\ Exact(map') /\ map' = m
  BY DEF IInv, MapInv, Begin, NewMap
<1>2. St(map') = St(map) \/ St(map') = [u \in Abstract!Units |-> "NonTried"]
  <2>1. CASE j.fresh
    <3>1. \A u \in Units : StatusAt(m, u) = "NonTried"
      BY <1>1, <2>1, NewMapFacts, StatusSays
    <3> HIDE DEF m
    <3> QED BY <1>1, <3>1, SameUnits DEF St
  <2>2. CASE ~j.fresh
    <3>1. \A u \in Units : \A t : Says(m, u, t) <=> Says(map, u, t)
      BY <1>1, <2>2, NewMapFacts
    <3> HIDE DEF m
    <3>2. \A u \in Units : StatusAt(m, u) = StatusAt(map, u)
      BY <1>1, <3>1, SameStatus
    <3> QED BY <1>1, <3>2 DEF St
  <2> QED BY <2>1, <2>2
<1>3. open' = WantedSectors(m, within, j.skip)
  BY DEF Begin, NewMap
<1> HIDE DEF m, within
<1>4. \A s \in open' : s \in Sectors /\ \E u \in UnitsOf[s] : St(map')[u] = "NonTried"
  <2> SUFFICES ASSUME NEW s \in open'
               PROVE  s \in Sectors /\ \E u \in UnitsOf[s] : St(map')[u] = "NonTried"
    OBVIOUS
  <2>1. s \in Sectors /\ \E u \in UnitsOf[s] : StatusAt(m, u) = "NonTried"
    BY <1>3 DEF WantedSectors
  <2> QED BY <1>1, <2>1, UnitsOfFacts DEF St
<1>5. /\ ScopeUnits(scope') \in SUBSET Units
      /\ Stats(map', counts', scope') = Abstract!Counted(St(map'), ScopeUnits(scope'))
  <2>1. Bounded(scope') /\ counts' = Tallied(map')
    BY DEF IInv, MapInv, ScopeInv
  <2> QED BY <1>1, <2>1, CountedAre DEF ScopeUnits
<1> QED BY <1>2, <1>4, <1>5, SameUnits DEF Abstract!Begin, St, ScopeUnits

\* A step that records sectors of the region marks open sectors.
LEMMA AdvanceImplements ==
    ASSUME IInv, IInv', NEW a, NEW z, NEW c, NEW s, Advance(a, z, c, s),
           scope' = scope, open' = open
    PROVE  Abstract!Mark
<1>1. /\ Exact(map) /\ Exact(map') /\ counts' = Tallied(map') /\ Bounded(scope')
      /\ open \subseteq Sectors
  BY DEF IInv, MapInv, ScopeInv, AskedInv
<1>2. /\ a \in Nat /\ z \in Nat /\ c \in Nat /\ a < c /\ c <= z /\ s \in Recorded
      /\ Marked(map, map', a * Sector, c * Sector, s)
      /\ \A k \in Nat : a <= k /\ k < z => k \in open
  BY DEF Advance, Spans1, Done
<1>3. St(map') \in [Abstract!Units -> Abstract!Statuses]
  BY <1>1, SameUnits, StatusSays DEF St
<1>4. ASSUME NEW k \in Sectors
      PROVE  \/ \A u \in UnitsOf[k] : St(map')[u] = St(map)[u]
             \/ k \in open /\ \E r \in Abstract!Results : \A u \in UnitsOf[k] : St(map')[u] = r
  <2>1. /\ \A u \in UnitsOf[k] : u \in Units /\ u \in Nat
        /\ \A u \in UnitsOf[k] : St(map')[u] = StatusAt(map', u) /\ St(map)[u] = StatusAt(map, u)
    BY UnitsOfFacts DEF St, Units
  <2>2. \A u \in UnitsOf[k] : a * Sector <= u /\ u < c * Sector <=> a <= k /\ k < c
    BY <1>2, InSectors
  <2>3. \A u \in UnitsOf[k] : \A t : Says(map', u, t) <=>
           IF a <= k /\ k < c THEN t = s ELSE Says(map, u, t)
    BY <1>2, <2>1, <2>2 DEF Marked
  <2>4. CASE a <= k /\ k < c
    <3>1. \A u \in UnitsOf[k] : StatusAt(map', u) = s
      BY <1>1, <2>1, <2>3, <2>4, StatusSays
    <3>2. k \in open
      BY <1>2, <2>4, UnitsOfFacts
    <3>3. s \in Abstract!Results
      BY <1>2 DEF Recorded, Abstract!Results
    <3> QED BY <2>1, <3>1, <3>2, <3>3
  <2>5. CASE ~(a <= k /\ k < c)
    <3>1. \A u \in UnitsOf[k] : StatusAt(map', u) = StatusAt(map, u)
      BY <1>1, <2>1, <2>3, <2>5, SameStatus
    <3> QED BY <2>1, <3>1
  <2> QED BY <2>4, <2>5
<1>5. Stats(map', counts', scope') = Abstract!Counted(St(map'), ScopeUnits(scope))
  BY <1>1, CountedAre
<1>6. ScopeUnits(scope') = ScopeUnits(scope)
  OBVIOUS
<1> QED BY <1>3, <1>4, <1>5, <1>6 DEF Abstract!Mark, St, ScopeUnits

LEMMA GiveUpImplements ==
    ASSUME IInv, IInv', GiveUp
    PROVE  Abstract!GiveUp
<1>1. /\ Exact(map) /\ Exact(map') /\ counts' = Tallied(map') /\ Bounded(scope')
      /\ map' = Promoted(map, Given, "Unreadable") /\ scope' = scope /\ open' = open
  BY DEF IInv, MapInv, ScopeInv, GiveUp, planVars, Given
<1>2. \A u \in Units : \A t : Says(map', u, t) <=>
         t = IF StatusAt(map, u) \in Given THEN "Unreadable" ELSE StatusAt(map, u)
  BY <1>1, GiveUpFacts
<1>3. \A u \in Units :
         StatusAt(map', u) =
            IF St(map)[u] \in Abstract!Damaged THEN "Unreadable" ELSE St(map)[u]
  <2> TAKE u \in Units
  <2>1. St(map)[u] = StatusAt(map, u)
    BY DEF St
  <2>2. StatusAt(map', u) = IF StatusAt(map, u) \in Given THEN "Unreadable" ELSE StatusAt(map, u)
    BY <1>1, <1>2, StatusSays
  <2> QED BY <2>1, <2>2 DEF Abstract!Damaged, Given
<1>4. St(map') = [u \in Abstract!Units |->
                    IF St(map)[u] \in Abstract!Damaged THEN "Unreadable" ELSE St(map)[u]]
  BY <1>3, SameUnits DEF St
<1>5. Stats(map', counts', scope') = Abstract!Counted(St(map'), ScopeUnits(scope))
  BY <1>1, CountedAre
<1> QED BY <1>1, <1>4, <1>5 DEF Abstract!GiveUp, St, ScopeUnits

LEMMA InitImplements == Init => Abstract!Init
<1> SUFFICES ASSUME Init PROVE Abstract!Init
  OBVIOUS
<1>1. /\ St(map) \in [Units -> Statuses] /\ ScopeUnits(scope) \in SUBSET Units
      /\ Stats(map, counts, scope) = Abstract!Counted(St(map), ScopeUnits(scope))
  BY InitInv, AbstractCounts
<1>2. open = {}
  BY DEF Init
<1> QED BY <1>1, <1>2, SameUnits DEF Abstract!Init, St, ScopeUnits

LEMMA NextImplements ==
    ASSUME IInv, IInv', [Next]_vars
    PROVE  Abstract!Next \/ UNCHANGED Abstract!vars
<1>1. ASSUME map' = map, counts' = counts, scope' = scope, open' = open
      PROVE  UNCHANGED Abstract!vars
  BY <1>1 DEF Abstract!vars, Stats, Outside, Within, StatusAt
<1>2. ASSUME NEW a, NEW z, NEW c, NEW s, Advance(a, z, c, s), UNCHANGED <<scope, planVars>>
      PROVE  Abstract!Next
  <2>1. scope' = scope /\ open' = open
    BY <1>2 DEF planVars
  <2> QED BY <1>2, <2>1, AdvanceImplements DEF Abstract!Next
<1>3. CASE \E j \in Jobs : Begin(j)
  BY <1>3, BeginImplements DEF Abstract!Next
<1>4. CASE GiveUp
  BY <1>4, GiveUpImplements DEF Abstract!Next
<1>5. CASE ReadGood
  <2>1. UNCHANGED <<scope, planVars>>
    BY <1>5 DEF ReadGood
  <2> QED BY <1>2, <1>5, <2>1, ReadGoodMoves
<1>6. ASSUME NEW failure \in Failures,
             ReadSkipped(failure) \/ ReadJumped(failure) \/ JumpCutShort(failure)
      PROVE  Abstract!Next
  <2>1. UNCHANGED <<scope, planVars>>
    BY <1>6 DEF ReadSkipped, ReadJumped, JumpCutShort
  <2>2. \E a, z, c, s : Advance(a, z, c, s)
    BY <1>6, ReadSkippedMoves, ReadJumpedMoves, JumpCutAdvances
  <2> QED BY <1>2, <2>1, <2>2
<1>7. ASSUME NEW failure \in Failures, ReadRetried(failure) \/ ReadAborts(failure)
      PROVE  UNCHANGED Abstract!vars
  <2>1. UNCHANGED <<mapVars, planVars>>
    BY <1>7 DEF ReadRetried, ReadAborts
  <2> QED BY <1>1, <2>1 DEF mapVars, planVars
<1>8. CASE NextRegion \/ Halts \/ Completes \/ ReadFails \/ SendFails \/ Stop \/ UNCHANGED vars
  <2>1. UNCHANGED <<mapVars, planVars>>
    BY <1>8 DEF NextRegion, Halts, Completes, ReadFails, SendFails, Stop, vars
  <2> QED BY <1>1, <2>1 DEF mapVars, planVars
<1> QED BY <1>3, <1>4, <1>5, <1>6, <1>7, <1>8 DEF Next, Step

\* The run list, spliced and coalesced item by item, with counters kept by
\* differences, is a map from units to statuses with counters computed anew;
\* a pass rewrites whole sectors, only ones it was asked for that had an
\* untried unit when it began; and only the end of the recovery gives up.
THEOREM Refines == Spec => Implements
<1>1. IInv /\ IInv' /\ [Next]_vars => [Abstract!Next]_(Abstract!vars)
  BY NextImplements
<1> QED BY <1>1, InitImplements, InvAlways, PTL DEF Spec, Implements, Abstract!Spec
=============================================================================
