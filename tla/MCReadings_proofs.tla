-------------------------- MODULE MCReadings_proofs --------------------------
(***************************************************************************)
(* Proofs about the operators of AgentReadings and PowerReadings: the      *)
(* energy between two samples of a counter, the shares of a container and  *)
(* the breakdown of a reading, for natural numbers of any size; the drives *)
(* of any mount table; the names offered for any accounts.                 *)
(***************************************************************************)
EXTENDS MCReadings, WellFoundedInduction, TLAPS

-----------------------------------------------------------------------------
(* Division with remainder, by a divisor that is not a constant.           *)

LEMMA Times == \A m, x, y \in Nat : x < y => m * x + m <= m * y
<1> SUFFICES ASSUME NEW m \in Nat, NEW x \in Nat, NEW y \in Nat, x < y
             PROVE  m * x + m <= m * y
  OBVIOUS
<1> DEFINE d == y - x - 1
<1>1. d \in Nat /\ y = x + 1 + d OBVIOUS
<1>2. m * d \in Nat BY <1>1
<1>3. m * y = m * x + m + m * d BY <1>1
<1> QED BY <1>2, <1>3

LEMMA Division ==
    \A a \in Nat, m \in Nat \ {0} :
        /\ a \div m \in Nat /\ a % m \in Nat /\ a % m < m
        /\ a = m * (a \div m) + (a % m)
  OBVIOUS

(* A number has one quotient and one remainder.                            *)
LEMMA OneRemainder ==
    ASSUME NEW m \in Nat \ {0}, NEW q \in Nat, NEW r \in Nat, r < m
    PROVE  (m * q + r) % m = r
<1> DEFINE a == m * q + r
           p == a \div m
           s == a % m
<1>1. a \in Nat OBVIOUS
<1>2. p \in Nat /\ s \in Nat /\ s < m /\ a = m * p + s BY <1>1, Division
<1>3. ~(p < q)
  <2>1. p < q => m * p + m <= m * q BY <1>2, Times
  <2>2. m * p \in Nat /\ m * q \in Nat BY <1>2
  <2> QED BY <1>2, <2>1, <2>2
<1>4. ~(q < p)
  <2>1. q < p => m * q + m <= m * p BY <1>2, Times
  <2>2. m * p \in Nat /\ m * q \in Nat BY <1>2
  <2> QED BY <1>2, <2>1, <2>2
<1>5. p = q BY <1>2, <1>3, <1>4
<1>6. s = r
  <2>1. m * q \in Nat OBVIOUS
  <2>2. m * q + r = m * q + s BY <1>2, <1>5
  <2> QED BY <1>2, <2>1, <2>2
<1> QED BY <1>6

(* A part of at most b times the whole is at most b wholes.                *)
LEMMA ShareAtMost ==
    ASSUME NEW a \in Nat, NEW b \in Nat, NEW m \in Nat \ {0}, a <= m * b
    PROVE  a \div m \in 0..b
<1>1. /\ a \div m \in Nat /\ a % m \in Nat
      /\ a = m * (a \div m) + (a % m)
  BY Division
<1>2. b < a \div m => m * b + m <= m * (a \div m) BY <1>1, Times
<1>3. m * b \in Nat /\ m * (a \div m) \in Nat BY <1>1
<1>4. ~(b < a \div m) BY <1>1, <1>2, <1>3
<1> QED BY <1>1, <1>4

-----------------------------------------------------------------------------
(* Energy.                                                                 *)

(* Rapl.sample finds what was used, or one unit less where the counter     *)
(* wrapped in between, from any state of the counter, as long as less than *)
(* its whole range was used (pve_power.py:117-123).                        *)
THEOREM EnergyOfAnyCounter ==
    ASSUME NEW max \in Nat, NEW last \in Nat, NEW used \in 0..max
    PROVE  LET energy == Energy(Counter(last, max), Counter(last + used, max), max)
           IN  energy = used \/ (energy = used - 1 /\ used > 0)
<1> DEFINE m == max + 1
           q == last \div m
           r == last % m
<1>1. /\ m \in Nat \ {0} /\ q \in Nat /\ r \in Nat /\ r < m
      /\ last = m * q + r
  <2> HIDE DEF m
  <2>1. m \in Nat \ {0} BY DEF m
  <2> QED BY <2>1, Division
<1>2. Counter(last, max) = r BY DEF Counter
<1> HIDE DEF q, r
<1>3. m * q \in Nat BY <1>1
<1>4. CASE r + used < m
  <2>1. last + used = m * q + (r + used) BY <1>1, <1>3
  <2>2. (last + used) % m = r + used BY <1>1, <1>4, <2>1, OneRemainder
  <2>3. Counter(last + used, max) = r + used BY <2>2 DEF Counter
  <2> QED BY <1>1, <1>2, <2>3 DEF Energy
<1>5. CASE r + used >= m
  <2> DEFINE s == r + used - m
  <2>1. s \in Nat /\ s < r /\ s < m BY <1>1, <1>5
  <2>2. last + used = m * (q + 1) + s
    <3>1. m * (q + 1) = m * q + m BY <1>1
    <3> QED BY <1>1, <1>3, <3>1
  <2>3. (last + used) % m = s
    <3> HIDE DEF s
    <3>1. q + 1 \in Nat BY <1>1
    <3> QED BY <1>1, <2>1, <2>2, <3>1, OneRemainder
  <2>4. Counter(last + used, max) = s BY <2>3 DEF Counter
  <2> QED BY <1>1, <1>2, <2>1, <2>4 DEF Energy
<1> QED BY <1>1, <1>4, <1>5

-----------------------------------------------------------------------------
(* Shares of a container.                                                  *)

(* Whatever the counters of two samples are, the share of the processors   *)
(* is none or not below 0, and at most all of the processors where the     *)
(* container did not use more than they had to give: 100 % on Windows, and *)
(* 100 % for each of them elsewhere (docker_containers.py:12-52).          *)
THEOREM ShareOfAnyProcessors ==
    ASSUME NEW s \in [windows : BOOLEAN, cpu : Nat, precpu : Nat,
                      system : Nat, presystem : Nat, processors : Nat],
           NEW share \in CpuPercent(s)
    PROVE  LET n == IF s.processors = 0 THEN 1 ELSE s.processors
               passed == s.system - s.presystem
               whole == IF s.windows THEN passed * n ELSE passed
               all == IF s.windows THEN 1000 ELSE 1000 * n
           IN  share \in Nat /\ (s.cpu - s.precpu <= whole => share <= all)
<1> DEFINE n == IF s.processors = 0 THEN 1 ELSE s.processors
           delta == s.cpu - s.precpu
           passed == s.system - s.presystem
           whole == IF s.windows THEN passed * n ELSE passed
           count == IF s.windows THEN 1 ELSE n
<1>1. n \in Nat \ {0} OBVIOUS
<1>2. share \in CpuShare(delta, whole, count) BY Zenon DEF CpuPercent
<1>3. /\ delta \in Int /\ passed \in Int /\ count \in Nat \ {0}
      /\ \/ whole = passed * n /\ count = 1
         \/ whole = passed /\ count = n
  BY <1>1
<1>4. whole \in Int BY <1>1, <1>3
<1> HIDE DEF n, delta, passed, whole, count
<1>5. /\ whole > 0 /\ delta >= 0
      /\ share = (1000 * delta * count) \div whole
  BY <1>2 DEF CpuShare
<1>6. 1000 * delta * count \in Nat BY <1>3, <1>5
<1>7. share \in Nat
  <2> DEFINE a == 1000 * delta * count
  <2>1. a \in Nat BY <1>6
  <2>2. share = a \div whole BY <1>5
  <2>3. whole \in Nat \ {0} BY <1>4, <1>5
  <2> HIDE DEF a
  <2> QED BY <2>1, <2>2, <2>3, Division
<1>8. ASSUME delta <= whole PROVE share <= 1000 * count
  <2> DEFINE a == 1000 * delta * count
             b == 1000 * count
  <2>1. a \in Nat /\ b \in Nat /\ whole \in Nat \ {0}
    BY <1>3, <1>4, <1>5, <1>6
  <2>2. a <= whole * b
    <3>1. delta \in Nat /\ whole - delta \in Nat BY <1>3, <1>4, <1>5, <1>8
    <3>2. (whole - delta) * count \in Nat BY <1>3, <3>1
    <3>3. whole * count = delta * count + (whole - delta) * count
      BY <1>3, <2>1, <3>1
    <3>4. /\ a = 1000 * (delta * count) /\ whole * b = 1000 * (whole * count)
          /\ delta * count \in Nat /\ whole * count \in Nat
      BY <1>3, <2>1, <3>1
    <3> QED BY <3>2, <3>3, <3>4
  <2>3. share = a \div whole BY <1>5
  <2> HIDE DEF a, b
  <2>4. share \in 0..b BY <2>1, <2>2, <2>3, ShareAtMost
  <2> QED BY <2>1, <2>4 DEF b
<1>9. 1000 * count = IF s.windows THEN 1000 ELSE 1000 * n BY DEF count
<1> QED BY <1>7, <1>8, <1>9 DEF n, delta, passed, whole

(* The share of the memory is none or not below 0, also where the cache    *)
(* exceeds the usage, and at most the whole where the usage is within the  *)
(* limit (docker_containers.py:52-60).                                     *)
THEOREM ShareOfAnyMemory ==
    ASSUME NEW usage \in Nat, NEW inactive \in Nat, NEW limit \in Nat,
           NEW share \in MemPercent(usage, inactive, limit)
    PROVE  share \in Nat /\ (usage <= limit => share <= 1000)
<1> DEFINE used == IF usage > inactive THEN usage - inactive ELSE 0
<1>1. used \in Nat /\ used <= usage OBVIOUS
<1>2. limit > 0 /\ share = (1000 * used) \div limit BY DEF MemPercent
<1> HIDE DEF used
<1>3. 1000 * used \in Nat /\ limit \in Nat \ {0} BY <1>1, <1>2
<1>4. share \in Nat BY <1>2, <1>3, Division
<1>5. ASSUME usage <= limit PROVE share <= 1000
  <2>1. 1000 * used <= limit * 1000 BY <1>1, <1>5
  <2> DEFINE a == 1000 * used
  <2>2. a \in Nat /\ a <= limit * 1000 /\ share = a \div limit
    BY <1>2, <1>3, <2>1
  <2> HIDE DEF a
  <2>3. share \in 0..1000 BY <1>3, <2>2, ShareAtMost
  <2> QED BY <2>3
<1> QED BY <1>4, <1>5

-----------------------------------------------------------------------------
(* The power supply.                                                       *)

(* Both columns of the curve rise, and so does their difference.           *)
LEMMA Curve ==
    /\ Len(PsuCurve) = 14
    /\ DC(1) = 2000 /\ DC(14) = 64980 /\ Loss(1) = 805 /\ Loss(14) = 6323
    /\ \A i \in 1..14 : DC(i) \in Nat /\ Loss(i) \in Nat
    /\ \A i, j \in 1..14 : i <= j => DC(i) <= DC(j) /\ Loss(i) <= Loss(j)
    /\ \A i \in 1..13 : DC(i) < DC(i + 1) /\ Loss(i) < Loss(i + 1)
<1>1. Len(PsuCurve) = 14 BY DEF PsuCurve
<1>2. /\ DC(1) = 2000 /\ DC(2) = 4000 /\ DC(3) = 6000 /\ DC(4) = 6500
      /\ DC(5) = 8000 /\ DC(6) = 13000 /\ DC(7) = 19500 /\ DC(8) = 26000
      /\ DC(9) = 32510 /\ DC(10) = 38930 /\ DC(11) = 45480
      /\ DC(12) = 51960 /\ DC(13) = 58500 /\ DC(14) = 64980
  BY DEF PsuCurve, DC
<1>3. /\ Loss(1) = 805 /\ Loss(2) = 857 /\ Loss(3) = 925 /\ Loss(4) = 994
      /\ Loss(5) = 999 /\ Loss(6) = 1276 /\ Loss(7) = 1608
      /\ Loss(8) = 2019 /\ Loss(9) = 2514 /\ Loss(10) = 3093
      /\ Loss(11) = 3751 /\ Loss(12) = 4513 /\ Loss(13) = 5350
      /\ Loss(14) = 6323
  BY DEF PsuCurve, Loss
<1>4. \A i \in 1..14 : i \in {1, 2, 3, 4, 5, 6, 7, 8, 9, 10, 11, 12, 13, 14}
  OBVIOUS
<1>5. \A i \in 1..13 : i \in {1, 2, 3, 4, 5, 6, 7, 8, 9, 10, 11, 12, 13}
  OBVIOUS
<1>6. /\ \A i \in 1..14 : DC(i) \in Nat /\ Loss(i) \in Nat
      /\ \A i, j \in 1..14 : i <= j => DC(i) <= DC(j) /\ Loss(i) <= Loss(j)
  BY <1>2, <1>3, <1>4
<1>7. \A i \in 1..13 : DC(i) < DC(i + 1) /\ Loss(i) < Loss(i + 1)
  BY <1>2, <1>3, <1>5
<1> QED BY <1>1, <1>2, <1>3, <1>6, <1>7

LEMMA Least == \A T \in SUBSET Nat : T # {} => \E x \in T : \A y \in T : x <= y
<1> SUFFICES ASSUME NEW T \in SUBSET Nat, T # {}
             PROVE  \E x \in T : \A y \in T : x <= y
  OBVIOUS
<1>1. \E x \in T : \A y \in T : ~ (<<y, x>> \in OpToRel(<, Nat))
  BY NatLessThanWellFounded, WFMin
<1>2. \A x, y \in Nat : y < x => <<y, x>> \in OpToRel(<, Nat)
  BY DEF OpToRel
<1>3. \E x \in T : \A y \in T : ~(y < x) BY <1>1, <1>2, Zenon
<1>4. \A x, y \in Nat : ~(y < x) => x <= y OBVIOUS
<1> QED BY <1>3, <1>4

(* Every power on the curve lies in its segment.                           *)
LEMMA SegmentFound ==
    ASSUME NEW dc \in Nat, DC(1) < dc, dc <= DC(14)
    PROVE  LET i == Segment(dc) IN i \in 1..13 /\ DC(i) < dc /\ dc <= DC(i + 1)
<1> DEFINE S == {i \in 1..13 : dc <= DC(i + 1)}
<1>1. PICK i \in S : \A j \in S : i <= j
  <2>1. S \in SUBSET Nat OBVIOUS
  <2>2. 13 \in S BY Curve
  <2> QED BY <2>1, <2>2, Least
<1>2. \A j \in 1..(i - 1) : dc > DC(j + 1)
  <2> SUFFICES ASSUME NEW j \in 1..(i - 1) PROVE dc > DC(j + 1) OBVIOUS
  <2>1. j \in 1..13 /\ ~(i <= j) BY <1>1
  <2>2. j \notin S BY <1>1, <2>1
  <2>3. DC(j + 1) \in Nat BY <2>1, Curve
  <2> QED BY <2>1, <2>2, <2>3
<1>3. \E k \in 1..(Len(PsuCurve) - 1) :
          dc <= DC(k + 1) /\ \A j \in 1..(k - 1) : dc > DC(j + 1)
  <2>1. i \in 1..(Len(PsuCurve) - 1) /\ dc <= DC(i + 1) BY <1>1, Curve
  <2> QED BY <1>2, <2>1
<1> DEFINE s == Segment(dc)
<1>4. /\ s \in 1..(Len(PsuCurve) - 1)
      /\ dc <= DC(s + 1) /\ \A j \in 1..(s - 1) : dc > DC(j + 1)
  BY <1>3 DEF Segment
<1> HIDE DEF s
<1>5. s \in 1..13 BY <1>4, Curve
<1>6. DC(s) < dc
  <2>1. CASE s = 1 BY <2>1
  <2>2. CASE s # 1
    <3>1. s - 1 \in 1..(s - 1) /\ (s - 1) + 1 = s BY <1>5, <2>2
    <3>2. dc > DC((s - 1) + 1) BY <1>4, <3>1
    <3>3. DC(s) \in Nat BY <1>5, Curve
    <3> QED BY <3>1, <3>2, <3>3
  <2> QED BY <2>1, <2>2
<1> QED BY <1>4, <1>5, <1>6 DEF s

LEMMA DivisionGrows ==
    \A a, b \in Nat, m \in Nat \ {0} : a <= b => a \div m <= b \div m
<1> SUFFICES ASSUME NEW a \in Nat, NEW b \in Nat, NEW m \in Nat \ {0}, a <= b
             PROVE  a \div m <= b \div m
  OBVIOUS
<1> DEFINE p == a \div m
           q == b \div m
<1>1. /\ p \in Nat /\ a % m \in Nat /\ a = m * p + (a % m)
      /\ q \in Nat /\ b % m \in Nat /\ b % m < m /\ b = m * q + (b % m)
  BY Division
<1> HIDE DEF p, q
<1>2. q < p => m * q + m <= m * p BY <1>1, Times
<1>3. m * p \in Nat /\ m * q \in Nat BY <1>1
<1>4. p <= q BY <1>1, <1>2, <1>3
<1> QED BY <1>4 DEF p, q

\* What is lost in segment i.
Between(i, dc) ==
    Loss(i) + ((Loss(i + 1) - Loss(i)) * (dc - DC(i))) \div (DC(i + 1) - DC(i))

LEMMA LossBetween ==
    ASSUME NEW i \in 1..13, NEW dc \in Nat, DC(i) < dc, dc <= DC(i + 1)
    PROVE  /\ Between(i, dc) \in Loss(i)..Loss(i + 1)
           /\ \A more \in dc..DC(i + 1) : Between(i, dc) <= Between(i, more)
<1> DEFINE m == DC(i + 1) - DC(i)
           rise == Loss(i + 1) - Loss(i)
<1>1. /\ m \in Nat \ {0} /\ rise \in Nat
      /\ {Loss(i), Loss(i + 1), DC(i), DC(i + 1)} \subseteq Nat
  BY Curve
<1>2. \A x \in Nat : Between(i, x) = Loss(i) + (rise * (x - DC(i))) \div m
  BY DEF Between
<1>3. dc - DC(i) \in Nat /\ dc - DC(i) <= m BY <1>1
<1>4. \A x \in dc..DC(i + 1) : x \in Nat /\ x - DC(i) \in Nat BY <1>1
<1> HIDE DEF m, rise
<1>5. (rise * (dc - DC(i))) \div m \in 0..rise
  <2> DEFINE x == dc - DC(i)
             a == rise * x
  <2>1. m - x \in Nat /\ x \in Nat BY <1>1, <1>3
  <2>2. a \in Nat /\ rise * (m - x) \in Nat BY <1>1, <2>1
  <2>3. m * rise = a + rise * (m - x) BY <1>1, <2>1
  <2>4. a <= m * rise BY <2>2, <2>3
  <2> HIDE DEF a
  <2>5. a \div m \in 0..rise BY <1>1, <2>2, <2>4, ShareAtMost
  <2> QED BY <2>5 DEF a
<1>6. Between(i, dc) \in Loss(i)..Loss(i + 1)
  <2>1. PICK r \in 0..rise : Between(i, dc) = Loss(i) + r BY <1>2, <1>5
  <2> QED BY <1>1, <2>1 DEF rise
<1>7. ASSUME NEW more \in dc..DC(i + 1) PROVE Between(i, dc) <= Between(i, more)
  <2> DEFINE a == rise * (dc - DC(i))
             b == rise * (more - DC(i))
  <2>1. more \in Nat /\ more - DC(i) \in Nat /\ more - dc \in Nat
    BY <1>1, <1>4
  <2>2. a \in Nat /\ b \in Nat /\ rise * (more - dc) \in Nat
    BY <1>1, <1>3, <2>1
  <2>3. b = a + rise * (more - dc) BY <1>1, <2>1
  <2>4. a <= b BY <2>2, <2>3
  <2>5. Between(i, dc) = Loss(i) + a \div m /\ Between(i, more) = Loss(i) + b \div m
    BY <1>2, <2>1
  <2> HIDE DEF a, b
  <2>6. a \div m <= b \div m /\ a \div m \in Nat /\ b \div m \in Nat
    BY <1>1, <2>2, <2>4, DivisionGrows, Division
  <2> QED BY <1>1, <2>5, <2>6
<1> QED BY <1>6, <1>7

LEMMA LossIs ==
    ASSUME NEW dc \in Nat
    PROVE  /\ dc <= DC(1) => PsuAC(dc) = dc + Loss(1)
           /\ dc > DC(14) => /\ PsuAC(dc) = dc + (dc * 6323) \div 64980
                             /\ (dc * 6323) \div 64980 >= Loss(14)
           /\ DC(1) < dc /\ dc <= DC(14) =>
                  /\ Segment(dc) \in 1..13
                  /\ DC(Segment(dc)) < dc /\ dc <= DC(Segment(dc) + 1)
                  /\ PsuAC(dc) = dc + Between(Segment(dc), dc)
<1>1. ASSUME dc <= DC(1) PROVE PsuAC(dc) = dc + Loss(1) BY <1>1 DEF PsuAC
<1>2. ASSUME dc > DC(14)
      PROVE  /\ PsuAC(dc) = dc + (dc * 6323) \div 64980
             /\ (dc * 6323) \div 64980 >= Loss(14)
  <2>1. ~(dc <= DC(1)) /\ dc > DC(Len(PsuCurve)) BY <1>2, Curve
  <2>2. PsuAC(dc) = dc + (dc * Loss(Len(PsuCurve))) \div DC(Len(PsuCurve))
    BY <2>1, Zenon DEF PsuAC
  <2>3. Len(PsuCurve) = 14 /\ Loss(14) = 6323 /\ DC(14) = 64980 BY Curve
  <2>4. PsuAC(dc) = dc + (dc * 6323) \div 64980 BY <2>2, <2>3
  <2>5. dc > 64980 BY <1>2, <2>3
  <2> QED BY <2>3, <2>4, <2>5
<1>3. ASSUME DC(1) < dc, dc <= DC(14)
      PROVE  /\ Segment(dc) \in 1..13
             /\ DC(Segment(dc)) < dc /\ dc <= DC(Segment(dc) + 1)
             /\ PsuAC(dc) = dc + Between(Segment(dc), dc)
  <2> DEFINE i == Segment(dc)
  <2>1. i \in 1..13 /\ DC(i) < dc /\ dc <= DC(i + 1) BY <1>3, SegmentFound
  <2>2. ~(dc <= DC(1)) /\ ~(dc > DC(Len(PsuCurve))) BY <1>3, Curve
  <2>3. PsuAC(dc) = dc + Loss(i)
            + ((Loss(i + 1) - Loss(i)) * (dc - DC(i))) \div (DC(i + 1) - DC(i))
    BY <2>2, Zenon DEF PsuAC
  <2> HIDE DEF i
  <2> DEFINE part ==
        ((Loss(i + 1) - Loss(i)) * (dc - DC(i))) \div (DC(i + 1) - DC(i))
  <2>4. Between(i, dc) = Loss(i) + part BY DEF Between
  <2>5. PsuAC(dc) = dc + Loss(i) + part BY <2>3
  <2>6. Between(i, dc) \in Nat /\ Loss(i) \in Nat
    <3>1. Loss(i) \in Nat /\ Loss(i + 1) \in Nat BY <2>1, Curve
    <3>2. Between(i, dc) \in Loss(i)..Loss(i + 1) BY <2>1, LossBetween
    <3> QED BY <3>1, <3>2
  <2>7. part \in Int
    <3>1. /\ Loss(i + 1) - Loss(i) \in Nat /\ dc - DC(i) \in Nat
          /\ DC(i + 1) - DC(i) \in Nat \ {0}
      BY <2>1, Curve
    <3>2. (Loss(i + 1) - Loss(i)) * (dc - DC(i)) \in Nat BY <3>1
    <3> QED BY <3>1, <3>2, Division
  <2> HIDE DEF part
  <2>8. PsuAC(dc) = dc + Between(i, dc) BY <2>4, <2>5, <2>6, <2>7
  <2> QED BY <2>1, <2>8 DEF i
<1> QED BY <1>1, <1>2, <1>3

\* What a power supply loses.
Waste(x) == PsuAC(x) - x

LEMMA WasteIs ==
    ASSUME NEW x \in Nat
    PROVE  /\ PsuAC(x) = x + Waste(x) /\ Waste(x) \in Nat /\ Waste(x) >= 805
           /\ x <= 2000 => Waste(x) = 805
           /\ x > 64980 => Waste(x) = (x * 6323) \div 64980 /\ Waste(x) >= 6323
           /\ 2000 < x /\ x <= 64980 =>
                  LET i == Segment(x)
                  IN  /\ i \in 1..13 /\ DC(i) < x /\ x <= DC(i + 1)
                      /\ Waste(x) = Between(i, x) /\ Waste(x) <= 6323
                      /\ Waste(x) \in Loss(i)..Loss(i + 1)
<1>0. DC(1) = 2000 /\ DC(14) = 64980 /\ Loss(1) = 805 /\ Loss(14) = 6323
  BY Curve
<1>1. CASE x <= 2000
  <2>1. PsuAC(x) = x + 805 BY <1>0, <1>1, LossIs
  <2>2. Waste(x) = 805 BY <2>1 DEF Waste
  <2> QED BY <1>1, <2>1, <2>2
<1>2. CASE x > 64980
  <2> DEFINE w == (x * 6323) \div 64980
  <2>1. PsuAC(x) = x + w /\ w >= 6323
    BY <1>0, <1>2, LossIs
  <2>2. w \in Nat BY Division
  <2> HIDE DEF w
  <2>3. Waste(x) = w BY <2>1, <2>2 DEF Waste
  <2> QED BY <1>2, <2>1, <2>2, <2>3 DEF w
<1>3. CASE 2000 < x /\ x <= 64980
  <2> DEFINE i == Segment(x)
  <2>1. /\ i \in 1..13 /\ DC(i) < x /\ x <= DC(i + 1)
        /\ PsuAC(x) = x + Between(i, x)
    BY <1>0, <1>3, LossIs
  <2> HIDE DEF i
  <2>2. Between(i, x) \in Loss(i)..Loss(i + 1) BY <2>1, LossBetween
  <2>3. /\ Loss(i) \in Nat /\ Loss(i + 1) \in Nat
        /\ Loss(1) <= Loss(i) /\ Loss(i + 1) <= Loss(14)
    <3>1. /\ i \in 1..14 /\ i + 1 \in 1..14 /\ 1 \in 1..14 /\ 14 \in 1..14
          /\ 1 <= i /\ i + 1 <= 14
      BY <2>1
    <3> QED BY <3>1, Curve
  <2> DEFINE b == Between(i, x)
             low == Loss(i)
             high == Loss(i + 1)
  <2>4. b \in low..high /\ low \in Nat /\ high \in Nat BY <2>2, <2>3
  <2>5. 805 <= low /\ high <= 6323 BY <1>0, <2>3
  <2>6. PsuAC(x) = x + b BY <2>1
  <2> HIDE DEF b, low, high
  <2>7. b \in 805..6323 BY <2>4, <2>5
  <2>8. Waste(x) = b BY <2>7, <2>6 DEF Waste
  <2>9. /\ PsuAC(x) = x + Waste(x) /\ Waste(x) \in Nat /\ Waste(x) >= 805
        /\ Waste(x) <= 6323 /\ Waste(x) \in low..high
    BY <2>4, <2>6, <2>7, <2>8
  <2> QED BY <1>3, <2>1, <2>8, <2>9 DEF i, b, low, high
<1> QED BY <1>1, <1>2, <1>3

(* At any load a power supply takes more than it gives, and loses at least *)
(* as much when it gives more: the test curve, the line between two of its *)
(* points and the last ratio beyond it leave no step down                  *)
(* (pve_power.py:241-251).                                                 *)
THEOREM SupplyOfAnyLoad ==
    ASSUME NEW dc \in Nat, NEW more \in Nat, dc <= more
    PROVE  PsuAC(dc) > dc /\ PsuAC(more) - more >= PsuAC(dc) - dc
<1>1. Waste(dc) <= Waste(more)
  <2>1. CASE dc <= 2000
    <3>1. Waste(dc) = 805 BY WasteIs, <2>1
    <3>2. Waste(more) \in Nat /\ Waste(more) >= 805 BY WasteIs
    <3> QED BY <3>1, <3>2
  <2>2. CASE more > 64980 /\ dc > 2000
    <3>1. Waste(more) = (more * 6323) \div 64980 /\ Waste(more) >= 6323
      BY WasteIs, <2>2
    <3>2. CASE dc > 64980
      <4>1. Waste(dc) = (dc * 6323) \div 64980 BY WasteIs, <3>2
      <4> QED BY <3>1, <4>1
    <3>3. CASE dc <= 64980
      <4>1. Waste(dc) \in Nat /\ Waste(dc) <= 6323 BY WasteIs, <2>2, <3>3
      <4>2. Waste(more) \in Nat BY WasteIs
      <4> QED BY <3>1, <4>1, <4>2
    <3> QED BY <3>2, <3>3
  <2>3. CASE 2000 < dc /\ more <= 64980
    <3> DEFINE i == Segment(dc)
               j == Segment(more)
    <3>1. /\ i \in 1..13 /\ DC(i) < dc /\ dc <= DC(i + 1)
          /\ Waste(dc) = Between(i, dc) /\ Waste(dc) \in Loss(i)..Loss(i + 1)
      BY WasteIs, <2>3
    <3>2. /\ j \in 1..13 /\ DC(j) < more /\ more <= DC(j + 1)
          /\ Waste(more) = Between(j, more) /\ Waste(more) \in Loss(j)..Loss(j + 1)
      BY WasteIs, <2>3
    <3> HIDE DEF i, j
    <3>3. /\ i \in 1..14 /\ i + 1 \in 1..14 /\ j \in 1..14 /\ j + 1 \in 1..14
          /\ {DC(i), DC(i + 1), DC(j), DC(j + 1)} \subseteq Nat
          /\ {Loss(i), Loss(i + 1), Loss(j), Loss(j + 1)} \subseteq Nat
      BY <3>1, <3>2, Curve
    <3>4. CASE i = j
      <4>1. more \in dc..DC(i + 1) BY <3>2, <3>3, <3>4
      <4> QED BY <3>1, <3>2, <3>4, <4>1, LossBetween
    <3>5. CASE i < j
      <4>1. Loss(i + 1) <= Loss(j) BY <3>1, <3>2, <3>3, <3>5, Curve
      <4> QED BY <3>1, <3>2, <3>3, <4>1
    <3>6. CASE j < i
      <4>1. DC(j + 1) <= DC(i) BY <3>1, <3>2, <3>3, <3>6, Curve
      <4> QED BY <3>1, <3>2, <3>3, <4>1
    <3> QED BY <3>1, <3>2, <3>4, <3>5, <3>6
  <2> QED BY <2>1, <2>2, <2>3
<1>2. PsuAC(dc) = dc + Waste(dc) /\ Waste(dc) \in Nat /\ Waste(dc) >= 805
  BY WasteIs
<1>3. PsuAC(more) = more + Waste(more) /\ Waste(more) \in Nat /\ Waste(more) >= 805
  BY WasteIs
<1> QED BY <1>1, <1>2, <1>3

-----------------------------------------------------------------------------
(* Apple's sensors.                                                        *)

(* Whatever the sensors of a Mac read, no component is negative; where     *)
(* they agree on who feeds whom, the components add up to the power at the *)
(* wall, but for what the wall feeds beyond the machine, of at most half a *)
(* watt (pve_power.py:392-407).                                            *)
THEOREM BreakdownOfAnySensors ==
    ASSUME NEW ac \in Nat, NEW system \in Nat, NEW soc \in Nat
    PROVE  LET r == SmcReading([ac |-> ac, system |-> system, soc |-> soc])
               sum == r.soc + r.rest + r.battery + r.charger
           IN  /\ \A part \in {r.soc, r.rest, r.battery, r.charger} : part >= 0
               /\ soc <= system /\ system <= ac =>
                      sum \in (r.wall - Skew)..r.wall
<1> DEFINE w == [ac |-> ac, system |-> system, soc |-> soc]
           r == SmcReading(w)
           loss == (3 * ac) \div 17
<1>1. w.ac = ac /\ w.system = system /\ w.soc = soc OBVIOUS
<1>2. loss \in Nat OBVIOUS
<1> HIDE DEF w, loss
<1>3. /\ r.wall = IF ac > 0 THEN ac + loss ELSE 0
      /\ r.soc = soc
      /\ r.rest = IF system > soc THEN system - soc ELSE 0
      /\ r.battery = IF ac - system > 50 THEN ac - system ELSE 0
      /\ r.charger = IF ac > 0 THEN loss ELSE 0
  BY <1>1 DEF SmcReading, Rest, ChargerLoss, Skew, loss
<1> HIDE DEF r
<1>4. /\ r.soc \in Nat /\ r.rest \in Nat /\ r.battery \in Nat /\ r.charger \in Nat
      /\ r.wall \in Nat
  BY <1>2, <1>3
<1>5. ASSUME soc <= system, system <= ac
      PROVE  LET sum == r.soc + r.rest + r.battery + r.charger
             IN  sum \in (r.wall - 50)..r.wall
  <2>1. r.soc + r.rest = system BY <1>3, <1>5
  <2>2. r.charger <= r.wall /\ r.wall - r.charger = ac BY <1>2, <1>3
  <2>3. system + r.battery \in (ac - 50)..ac BY <1>3, <1>5
  <2> QED BY <1>4, <2>1, <2>2, <2>3
<1> QED BY <1>4, <1>5 DEF r, w, Skew

-----------------------------------------------------------------------------
(* A fold over a list, as what it passes through: a value for each prefix. *)
(* The fold of the community modules is a function on sets of indices; that*)
(* there is one is shown here, from the least counterexample.              *)

(* What is so for 0, and for i if for i - 1, is so up to n.                *)
LEMMA StepByStep ==
    ASSUME NEW n \in Nat, NEW X, 0 \in X, \A i \in 1..n : i - 1 \in X => i \in X
    PROVE  \A i \in 0..n : i \in X
<1> DEFINE Not == {i \in 0..n : i \notin X}
<1> SUFFICES ASSUME Not # {} PROVE FALSE OBVIOUS
<1>1. PICK i \in Not : \A j \in Not : i <= j
  <2>1. Not \in SUBSET Nat OBVIOUS
  <2> HIDE DEF Not
  <2> QED BY <2>1, Least
<1>2. i # 0 /\ i \in 0..n OBVIOUS
<1>3. i - 1 \in 0..n /\ i \in 1..n /\ ~(i <= i - 1) BY <1>2
<1>4. i - 1 \in X BY <1>1, <1>3
<1> QED BY <1>3, <1>4

(* The greatest of a set of indices.                                       *)
LEMMA MaxIs ==
    ASSUME NEW n \in Nat, NEW S \in SUBSET (1..n), S # {}
    PROVE  Max(S) \in S /\ \A y \in S : y <= Max(S)
<1> DEFINE Below == {n - y : y \in S}
<1>1. PICK d \in Below : \A e \in Below : d <= e
  <2>1. \A y \in S : n - y \in Nat OBVIOUS
  <2>2. Below \in SUBSET Nat BY <2>1
  <2>3. Below # {} OBVIOUS
  <2> HIDE DEF Below
  <2> QED BY <2>2, <2>3, Least
<1>2. PICK x \in S : d = n - x OBVIOUS
<1>3. \A y \in S : x >= y
  <2> SUFFICES ASSUME NEW y \in S PROVE x >= y OBVIOUS
  <2>1. n - y \in Below OBVIOUS
  <2> HIDE DEF Below
  <2>2. n - x <= n - y BY <1>1, <1>2, <2>1
  <2> QED BY <2>2
<1>4. Max(S) \in S /\ \A y \in S : Max(S) >= y BY <1>3, Zenon DEF Max
<1>5. \A y \in S : y \in Int OBVIOUS
<1> QED BY <1>4, <1>5

LEMMA MaxUpTo ==
    ASSUME NEW k \in Nat \ {0}
    PROVE  Max(1..k) = k /\ (1..k) \ {k} = 1..(k - 1)
<1>1. k \in 1..k OBVIOUS
<1>2. 1..k \in SUBSET (1..k) /\ 1..k # {} BY <1>1
<1> DEFINE m == Max(1..k)
<1>3. m \in 1..k /\ \A y \in 1..k : y <= m
  BY <1>2, MaxIs
<1> HIDE DEF m
<1>4. m = k BY <1>1, <1>3
<1> QED BY <1>4 DEF m

(* The fold of a step g over the indices of a sequence, from the left: it  *)
(* exists, and stays in what g does not leave.                             *)
Folding(g, b, n, F) ==
    F = [s \in SUBSET (1..n) |->
            IF s = {} THEN b ELSE g[<<Max(s), F[s \ {Max(s)}]>>]]

LEMMA WithoutMax ==
    ASSUME NEW k \in Nat \ {0}, NEW s \in SUBSET (1..k), s # {}
    PROVE  s \ {Max(s)} \in SUBSET (1..(k - 1))
<1> DEFINE m == Max(s)
<1>1. m \in s /\ \A y \in s : y <= m BY MaxIs
<1> HIDE DEF m
<1>2. \A y \in s \ {m} : y \in 1..(k - 1)
  <2> SUFFICES ASSUME NEW y \in s, y # m PROVE y \in 1..(k - 1) OBVIOUS
  <2>1. y \in 1..k /\ m \in 1..k /\ y <= m BY <1>1
  <2> QED BY <2>1
<1> QED BY <1>2 DEF m

(* A fold over n - 1 elements is continued by one more.                    *)
LEMMA FoldingOneMore ==
    ASSUME NEW g, NEW b, NEW n \in Nat \ {0}, NEW F, Folding(g, b, n - 1, F)
    PROVE  \E G : Folding(g, b, n, G)
<1> DEFINE G == [s \in SUBSET (1..n) |->
                   IF s = {} THEN b ELSE g[<<Max(s), F[s \ {Max(s)}]>>]]
<1>1. SUBSET (1..(n - 1)) \subseteq SUBSET (1..n) OBVIOUS
<1>2. \A t \in SUBSET (1..(n - 1)) : G[t] = F[t]
  <2> SUFFICES ASSUME NEW t \in SUBSET (1..(n - 1)) PROVE G[t] = F[t] OBVIOUS
  <2>1. F[t] = IF t = {} THEN b ELSE g[<<Max(t), F[t \ {Max(t)}]>>]
    BY Zenon DEF Folding
  <2>2. t \in SUBSET (1..n) BY <1>1
  <2> QED BY <2>1, <2>2, Zenon
<1>3. \A s \in SUBSET (1..n) : s # {} => G[s \ {Max(s)}] = F[s \ {Max(s)}]
  <2> HIDE DEF G
  <2> QED BY <1>2, WithoutMax
<1>4. G = [s \in SUBSET (1..n) |->
             IF s = {} THEN b ELSE g[<<Max(s), G[s \ {Max(s)}]>>]]
  <2> DEFINE H == [s \in SUBSET (1..n) |->
                     IF s = {} THEN b ELSE g[<<Max(s), G[s \ {Max(s)}]>>]]
  <2>1. \A s \in SUBSET (1..n) : G[s] = H[s]
    <3> SUFFICES ASSUME NEW s \in SUBSET (1..n) PROVE G[s] = H[s] OBVIOUS
    <3>1. CASE s = {} BY <3>1
    <3>2. CASE s # {}
      <4>1. G[s] = g[<<Max(s), F[s \ {Max(s)}]>>] BY <3>2
      <4> HIDE DEF G
      <4>2. H[s] = g[<<Max(s), G[s \ {Max(s)}]>>] BY <3>2
      <4>3. G[s \ {Max(s)}] = F[s \ {Max(s)}] BY <1>3, <3>2
      <4> QED BY <4>1, <4>2, <4>3
    <3> QED BY <3>1, <3>2
  <2>2. G = [s \in SUBSET (1..n) |-> G[s]] OBVIOUS
  <2>3. H = [s \in SUBSET (1..n) |-> H[s]] OBVIOUS
  <2> HIDE DEF G, H
  <2>4. G = H BY <2>1, <2>2, <2>3
  <2> QED BY <2>4 DEF H
<1> HIDE DEF G
<1>5. Folding(g, b, n, G) BY <1>4, Zenon DEF Folding
<1> QED BY <1>5

LEMMA FoldingExists ==
    ASSUME NEW g, NEW b, NEW n \in Nat PROVE \E F : Folding(g, b, n, F)
<1> DEFINE X == {k \in Nat : \E F : Folding(g, b, k, F)}
<1>1. 0 \in X
  <2>1. 1..0 = {} OBVIOUS
  <2>2. SUBSET (1..0) = {{}} BY <2>1
  <2> DEFINE F == [s \in {{}} |-> b]
  <2>3. F = [s \in {{}} |-> IF s = {} THEN b ELSE g[<<Max(s), F[s \ {Max(s)}]>>]]
    OBVIOUS
  <2> HIDE DEF F
  <2>4. Folding(g, b, 0, F) BY <2>2, <2>3, Zenon DEF Folding
  <2> QED BY <2>4
<1>2. \A i \in 1..n : i - 1 \in X => i \in X
  <2> SUFFICES ASSUME NEW i \in 1..n, i - 1 \in X PROVE i \in X OBVIOUS
  <2>1. i \in Nat \ {0} OBVIOUS
  <2>2. PICK F : Folding(g, b, i - 1, F) OBVIOUS
  <2>3. \E G : Folding(g, b, i, G) BY <2>1, <2>2, FoldingOneMore
  <2> QED BY <2>1, <2>3
<1> HIDE DEF X
<1>3. n \in X BY <1>1, <1>2, StepByStep
<1> QED BY <1>3 DEF X

LEMMA FoldingStays ==
    ASSUME NEW A, NEW b \in A, NEW n \in Nat, NEW g \in [(1..n) \X A -> A],
           NEW F, Folding(g, b, n, F)
    PROVE  \A s \in SUBSET (1..n) : F[s] \in A
<1>1. \A s \in SUBSET (1..n) :
          F[s] = IF s = {} THEN b ELSE g[<<Max(s), F[s \ {Max(s)}]>>]
  BY Zenon DEF Folding
<1> DEFINE X == {k \in 0..n : \A s \in SUBSET (1..k) : F[s] \in A}
<1>2. 0 \in X
  <2>1. \A s \in SUBSET (1..0) : s = {} OBVIOUS
  <2>2. {} \in SUBSET (1..n) OBVIOUS
  <2>3. F[{}] = b BY <1>1, <2>2, Zenon
  <2>4. \A s \in SUBSET (1..0) : F[s] \in A BY <2>1, <2>3
  <2> QED BY <2>4
<1>3. \A i \in 1..n : i - 1 \in X => i \in X
  <2> SUFFICES ASSUME NEW i \in 1..n, i - 1 \in X, NEW s \in SUBSET (1..i)
               PROVE  F[s] \in A
    OBVIOUS
  <2>1. s \in SUBSET (1..n) /\ i \in Nat \ {0} OBVIOUS
  <2>2. CASE s = {} BY <1>1, <2>2
  <2>3. CASE s # {}
    <3>1. s \ {Max(s)} \in SUBSET (1..(i - 1)) BY <2>1, <2>3, WithoutMax
    <3>2. F[s \ {Max(s)}] \in A BY <3>1
    <3>3. Max(s) \in 1..n BY <2>1, <2>3, MaxIs
    <3>4. F[s] = g[<<Max(s), F[s \ {Max(s)}]>>] BY <1>1, <2>1, <2>3
    <3> QED BY <3>2, <3>3, <3>4
  <2> QED BY <2>2, <2>3
<1> HIDE DEF X
<1>4. n \in X BY <1>2, <1>3, StepByStep
<1> QED BY <1>4 DEF X

Recurs(g, b, n, A, C) ==
    /\ C[{}] = b
    /\ \A s \in SUBSET (1..n) : s # {} /\ C[s \ {Max(s)}] \in A =>
           C[s] = g[<<Max(s), C[s \ {Max(s)}]>>]

Along(g, b, n, A, C, D) ==
    /\ D \in [0..n -> A] /\ D[0] = b /\ D[n] = C[1..n]
    /\ \A i \in 1..n : D[i] = g[<<i, D[i - 1]>>]

(* What any fold passes through on the way: a value for each prefix.       *)
LEMMA FoldingSteps ==
    ASSUME NEW A, NEW b \in A, NEW n \in Nat, NEW g \in [(1..n) \X A -> A],
           NEW C, Recurs(g, b, n, A, C)
    PROVE  \E D : Along(g, b, n, A, C, D)
<1>1. \A i \in 1..n : C[1..(i - 1)] \in A => C[1..i] = g[<<i, C[1..(i - 1)]>>]
  <2> SUFFICES ASSUME NEW i \in 1..n, C[1..(i - 1)] \in A
               PROVE  C[1..i] = g[<<i, C[1..(i - 1)]>>]
    OBVIOUS
  <2>1. i \in Nat \ {0} OBVIOUS
  <2>2. Max(1..i) = i /\ (1..i) \ {i} = 1..(i - 1) BY <2>1, MaxUpTo
  <2>3. 1..i \in SUBSET (1..n) /\ i \in 1..i OBVIOUS
  <2> QED BY <2>2, <2>3 DEF Recurs
<1> DEFINE X == {i \in 0..n : C[1..i] \in A}
<1>2. 0 \in X
  <2>1. 1..0 = {} /\ 0 \in 0..n OBVIOUS
  <2> QED BY <2>1 DEF Recurs
<1>3. \A i \in 1..n : i - 1 \in X => i \in X
  <2> SUFFICES ASSUME NEW i \in 1..n, C[1..(i - 1)] \in A PROVE C[1..i] \in A
    OBVIOUS
  <2>1. C[1..i] = g[<<i, C[1..(i - 1)]>>] BY <1>1
  <2> QED BY <2>1
<1> HIDE DEF X
<1>4. \A i \in 0..n : i \in X BY <1>2, <1>3, StepByStep
<1>5. \A i \in 0..n : C[1..i] \in A BY <1>4 DEF X
<1> DEFINE D == [i \in 0..n |-> C[1..i]]
<1>6. D \in [0..n -> A] BY <1>5
<1>7. D[0] = b /\ D[n] = C[1..n]
  <2>1. 1..0 = {} /\ 0 \in 0..n /\ n \in 0..n OBVIOUS
  <2> QED BY <2>1 DEF Recurs
<1>8. \A i \in 1..n : D[i] = g[<<i, D[i - 1]>>]
  <2> SUFFICES ASSUME NEW i \in 1..n PROVE D[i] = g[<<i, D[i - 1]>>] OBVIOUS
  <2>1. i \in 0..n /\ i - 1 \in 0..n OBVIOUS
  <2> QED BY <1>1, <1>5, <2>1
<1> HIDE DEF D
<1> QED BY <1>6, <1>7, <1>8 DEF Along

Reaches(A, n, F) ==
    \A s \in SUBSET (1..n) : s # {} => Max(s) \in 1..n /\ F[s \ {Max(s)}] \in A

LEMMA FoldingOfTable ==
    ASSUME NEW A, NEW b \in A, NEW n \in Nat, NEW g \in [(1..n) \X A -> A]
    PROVE  \E F : Folding(g, b, n, F) /\ Reaches(A, n, F)
<1>1. PICK F : Folding(g, b, n, F) BY FoldingExists
<1>2. \A s \in SUBSET (1..n) : F[s] \in A BY <1>1, FoldingStays
<1>3. \A s \in SUBSET (1..n) : s # {} => Max(s) \in 1..n /\ F[s \ {Max(s)}] \in A
  <2> SUFFICES ASSUME NEW s \in SUBSET (1..n), s # {}
               PROVE  Max(s) \in 1..n /\ F[s \ {Max(s)}] \in A
    OBVIOUS
  <2>1. Max(s) \in s BY MaxIs
  <2>2. s \ {Max(s)} \in SUBSET (1..n) OBVIOUS
  <2> QED BY <1>2, <2>1, <2>2
<1> QED BY <1>1, <1>3 DEF Reaches

-----------------------------------------------------------------------------
(* SortBy and Where: what they give is picked from the list.               *)

(* The least of a set of numbers.                                          *)
LEMMA MinIs ==
    ASSUME NEW S \in SUBSET Nat, S # {}
    PROVE  Min(S) \in S /\ \A y \in S : Min(S) <= y
<1>1. \E x \in S : \A y \in S : x <= y BY Least
<1> QED BY <1>1, Zenon DEF Min

(* A sequence with x before its k-th element.                              *)
LEMMA InsertAtIs ==
    ASSUME NEW E, NEW t \in Seq(E), NEW x \in E, NEW k \in 1..(Len(t) + 1)
    PROVE  /\ InsertAt(t, k, x) \in Seq(E)
           /\ Len(InsertAt(t, k, x)) = Len(t) + 1
           /\ \A i \in 1..(Len(t) + 1) :
                  /\ i < k => InsertAt(t, k, x)[i] = t[i]
                  /\ i = k => InsertAt(t, k, x)[i] = x
                  /\ i > k => InsertAt(t, k, x)[i] = t[i - 1]
<1> DEFINE n == Len(t)
           a == SubSeq(t, 1, k - 1)
           c == SubSeq(t, k, n)
           d == a \o <<x>>
<1>0. n \in Nat /\ k \in 1..(n + 1) OBVIOUS
<1>1. a \in Seq(E) /\ Len(a) = k - 1 /\ \A i \in 1..(k - 1) : a[i] = t[i] OBVIOUS
<1>2. c \in Seq(E) /\ Len(c) = n + 1 - k /\ \A i \in 1..(n + 1 - k) : c[i] = t[k + i - 1]
  OBVIOUS
<1> HIDE DEF a, c, n
<1>3. /\ d \in Seq(E) /\ Len(d) = k
      /\ \A i \in 1..k : d[i] = IF i < k THEN t[i] ELSE x
  BY <1>0, <1>1
<1> HIDE DEF d
<1>4. /\ d \o c \in Seq(E) /\ Len(d \o c) = n + 1
  <2>0. d \in Seq(E) /\ c \in Seq(E) BY <1>2, <1>3
  <2>1. d \o c \in Seq(E) /\ Len(d \o c) = Len(d) + Len(c) BY <2>0
  <2> QED BY <1>0, <1>2, <1>3, <2>1
<1>5. \A i \in 1..(n + 1) : /\ i < k => (d \o c)[i] = t[i]
                            /\ i = k => (d \o c)[i] = x
                            /\ i > k => (d \o c)[i] = t[i - 1]
  <2> SUFFICES ASSUME NEW i \in 1..(n + 1)
               PROVE  /\ i < k => (d \o c)[i] = t[i]
                      /\ i = k => (d \o c)[i] = x
                      /\ i > k => (d \o c)[i] = t[i - 1]
    OBVIOUS
  <2>1. CASE i <= k
    <3>1. (d \o c)[i] = d[i] BY <1>0, <1>2, <1>3, <2>1
    <3> QED BY <1>0, <1>3, <2>1, <3>1
  <2>2. CASE i > k
    <3>1. i - k \in 1..(n + 1 - k) /\ k + (i - k) - 1 = i - 1 BY <1>0, <2>2
    <3>2. (d \o c)[i] = c[i - k] BY <1>0, <1>2, <1>3, <2>2
    <3>3. c[i - k] = t[i - 1] BY <1>2, <3>1
    <3> QED BY <1>0, <2>2, <3>2, <3>3
  <2>3. i <= k \/ i > k BY <1>0
  <2> QED BY <2>1, <2>2, <2>3
<1>6. InsertAt(t, k, x) = d \o c BY DEF InsertAt, a, c, d, n
<1> QED BY <1>4, <1>5, <1>6 DEF n

Ordered(t, rank) == \A i, j \in 1..Len(t) : i < j => rank[t[i]] <= rank[t[j]]

\* u is t with x at its k-th place, which is where the rank of x puts it.
Inserted(t, x, rank, E, k, u) ==
    /\ k \in 1..(Len(t) + 1) /\ u \in Seq(E) /\ Len(u) = Len(t) + 1
    /\ \A i \in 1..(Len(t) + 1) : /\ i < k => u[i] = t[i]
                                  /\ i = k => u[i] = x
                                  /\ i > k => u[i] = t[i - 1]
    /\ \A i \in 1..(k - 1) : rank[t[i]] <= rank[x]
    /\ \A i \in k..Len(t) : rank[x] < rank[t[i]]

(* Insert puts x between those that do not rank above it and those that do.*)
LEMMA InsertIs ==
    ASSUME NEW E, NEW rank, \A e \in E : rank[e] \in Int,
           NEW t \in Seq(E), NEW x \in E, Ordered(t, rank)
    PROVE  \E k : Inserted(t, x, rank, E, k, Insert(t, x, rank))
<1> DEFINE n == Len(t)
           S == {i \in DOMAIN t : rank[t[i]] > rank[x]} \cup {n + 1}
           k == Min(S)
<1>0. n \in Nat /\ DOMAIN t = 1..n /\ \A i \in 1..n : t[i] \in E OBVIOUS
<1>00. (\A i \in 1..n : rank[t[i]] \in Int) /\ rank[x] \in Int BY <1>0
<1>1. Insert(t, x, rank) = InsertAt(t, k, x) BY DEF Insert
<1> HIDE DEF n
<1>2. S \in SUBSET Nat /\ S # {} BY <1>0
<1>3. k \in S /\ \A y \in S : k <= y BY <1>2, MinIs
<1> HIDE DEF k
<1>4. k \in 1..(n + 1) BY <1>0, <1>3
<1>5. \A i \in 1..(k - 1) : rank[t[i]] <= rank[x]
  <2> SUFFICES ASSUME NEW i \in 1..(k - 1), ~(rank[t[i]] <= rank[x]) PROVE FALSE
    OBVIOUS
  <2>1. i \in 1..n /\ ~(k <= i) BY <1>0, <1>4
  <2>2. rank[t[i]] > rank[x] BY <1>00, <2>1
  <2>3. i \in S BY <1>0, <2>1, <2>2
  <2> HIDE DEF S
  <2> QED BY <1>3, <2>1, <2>3
<1>6. \A i \in k..n : rank[x] < rank[t[i]]
  <2> SUFFICES ASSUME NEW i \in k..n PROVE rank[x] < rank[t[i]] OBVIOUS
  <2>1. k \in 1..n /\ i \in 1..n BY <1>0, <1>4
  <2>2. rank[t[k]] > rank[x] BY <1>0, <1>3, <2>1
  <2>3. rank[t[k]] <= rank[t[i]] BY <1>00, <2>1 DEF Ordered, n
  <2> QED BY <1>00, <2>1, <2>2, <2>3
<1> DEFINE u == InsertAt(t, k, x)
<1>7. /\ u \in Seq(E) /\ Len(u) = n + 1
      /\ \A i \in 1..(n + 1) : /\ i < k => u[i] = t[i]
                               /\ i = k => u[i] = x
                               /\ i > k => u[i] = t[i - 1]
  BY <1>4, InsertAtIs DEF n
<1> HIDE DEF u
<1>8. u = Insert(t, x, rank) BY <1>1 DEF u
<1>9. Inserted(t, x, rank, E, k, u) BY <1>4, <1>5, <1>6, <1>7 DEF Inserted, n
<1> QED BY <1>8, <1>9

(* t has the elements of seq at the indices J, each once; they are n.      *)
Picked(seq, J, t, n, E) ==
    /\ t \in Seq(E) /\ Len(t) = n
    /\ \E o \in [1..n -> J] :
           /\ \A i \in 1..n : t[i] = seq[o[i]]
           /\ \A i, j \in 1..n : o[i] = o[j] => i = j
           /\ \A j \in J : \E i \in 1..n : o[i] = j

(* t is the first m elements of seq in the order of their ranks.           *)
Sorts(seq, m, t, rank, E) ==
    Picked(seq, 1..m, t, m, E) /\ Ordered(t, rank)

(* The sorted elements stay sorted, and are the same and one more.         *)
LEMMA InsertSorts ==
    ASSUME NEW E, NEW rank, \A e \in E : rank[e] \in Int,
           NEW seq, NEW m \in Nat, NEW t, Sorts(seq, m, t, rank, E),
           NEW x \in E, x = seq[m + 1]
    PROVE  Sorts(seq, m + 1, Insert(t, x, rank), rank, E)
<1>0. t \in Seq(E) /\ Len(t) = m /\ Ordered(t, rank) /\ x \in E
  BY DEF Sorts, Picked
<1>00. \A i \in 1..m : rank[t[i]] \in Int
  <2>1. \A i \in 1..m : t[i] \in E BY <1>0
  <2> QED BY <2>1
<1> DEFINE u == Insert(t, x, rank)
<1>1. PICK k : Inserted(t, x, rank, E, k, u) BY <1>0, InsertIs
<1> HIDE DEF u
<1>3. /\ k \in 1..(m + 1) /\ u \in Seq(E) /\ Len(u) = m + 1
      /\ \A i \in 1..(m + 1) : /\ i < k => u[i] = t[i]
                               /\ i = k => u[i] = x
                               /\ i > k => u[i] = t[i - 1]
  BY <1>0, <1>1 DEF Inserted
<1>13. /\ \A i \in 1..(k - 1) : rank[t[i]] <= rank[x]
       /\ \A i \in k..m : rank[x] < rank[t[i]]
  BY <1>0, <1>1 DEF Inserted
<1>15. ASSUME NEW i \in 1..(m + 1)
       PROVE  /\ i < k => u[i] = t[i] /\ i \in 1..m /\ i \in 1..(k - 1)
              /\ i = k => u[i] = x
              /\ i > k => u[i] = t[i - 1] /\ i - 1 \in 1..m /\ i - 1 \in k..m
  <2>0. k \in 1..(m + 1) /\ i \in 1..(m + 1) BY <1>3, <1>15
  <2>1. /\ i < k => i \in 1..m /\ i \in 1..(k - 1)
        /\ i > k => i - 1 \in 1..m /\ i - 1 \in k..m
    BY <2>0
  <2>2. /\ i < k => u[i] = t[i]
        /\ i = k => u[i] = x
        /\ i > k => u[i] = t[i - 1]
    BY <1>3, <1>15
  <2> QED BY <2>1, <2>2
<1>14. k \in 1..(m + 1) BY <1>3
<1> USE <1>14
<1>2. PICK o \in [1..m -> 1..m] :
           /\ \A i \in 1..m : t[i] = seq[o[i]]
           /\ \A i, j \in 1..m : o[i] = o[j] => i = j
           /\ \A j \in 1..m : \E i \in 1..m : o[i] = j
  BY DEF Sorts, Picked
<1> DEFINE p == [i \in 1..(m + 1) |-> IF i < k THEN o[i]
                                      ELSE IF i = k THEN m + 1 ELSE o[i - 1]]
<1>4. \A i \in 1..(m + 1) : /\ i < k => i \in 1..m
                            /\ i > k => i - 1 \in 1..m
  BY <1>3
<1>5. \A i \in 1..m : o[i] \in 1..m OBVIOUS
<1>6. p \in [1..(m + 1) -> 1..(m + 1)]
  <2>1. \A i \in 1..m : o[i] \in 1..(m + 1) BY <1>5
  <2>2. m + 1 \in 1..(m + 1) OBVIOUS
  <2> QED BY <1>4, <2>1, <2>2
<1>7. \A i \in 1..(m + 1) : u[i] = seq[p[i]]
  <2> SUFFICES ASSUME NEW i \in 1..(m + 1) PROVE u[i] = seq[p[i]] OBVIOUS
  <2>1. CASE i < k BY <1>2, <1>15, <2>1
  <2>2. CASE i = k BY <1>15, <2>2
  <2>3. CASE i > k
    <3>1. i - 1 \in 1..m /\ ~(i < k) /\ i # k BY <1>4, <2>3
    <3>2. u[i] = t[i - 1] /\ p[i] = o[i - 1] BY <1>15, <2>3, <3>1
    <3> QED BY <1>2, <3>1, <3>2
  <2> QED BY <2>1, <2>2, <2>3
<1>8. \A i, j \in 1..(m + 1) : p[i] = p[j] => i = j
  <2>1. \A i \in 1..(m + 1) : /\ i < k => p[i] = o[i] /\ i \in 1..m
                              /\ i = k => p[i] = m + 1
                              /\ i > k => p[i] = o[i - 1] /\ i - 1 \in 1..m
    OBVIOUS
  <2>2. \A i \in 1..m : o[i] # m + 1 BY <1>5
  <2> HIDE DEF p
  <2> SUFFICES ASSUME NEW i \in 1..(m + 1), NEW j \in 1..(m + 1), p[i] = p[j]
               PROVE  i = j
    OBVIOUS
  <2>3. CASE i < k /\ j < k BY <1>2, <2>1, <2>3
  <2>4. CASE i < k /\ j > k
    <3>1. o[i] = o[j - 1] /\ i \in 1..m /\ j - 1 \in 1..m BY <2>1, <2>4
    <3>2. i = j - 1 BY <1>2, <3>1
    <3> QED BY <2>4, <3>2
  <2>5. CASE i > k /\ j < k
    <3>1. o[i - 1] = o[j] /\ i - 1 \in 1..m /\ j \in 1..m BY <2>1, <2>5
    <3>2. i - 1 = j BY <1>2, <3>1
    <3> QED BY <2>5, <3>2
  <2>6. CASE i > k /\ j > k
    <3>1. o[i - 1] = o[j - 1] /\ i - 1 \in 1..m /\ j - 1 \in 1..m BY <2>1, <2>6
    <3>2. i - 1 = j - 1 BY <1>2, <3>1
    <3> QED BY <3>2
  <2>7. CASE i = k
    <3>1. p[j] = m + 1 BY <2>1, <2>7
    <3>2. ~(j < k) /\ ~(j > k) BY <2>1, <2>2, <3>1
    <3> QED BY <2>7, <3>2
  <2>8. CASE j = k
    <3>1. p[i] = m + 1 BY <2>1, <2>8
    <3>2. ~(i < k) /\ ~(i > k) BY <2>1, <2>2, <3>1
    <3> QED BY <2>8, <3>2
  <2> QED BY <2>3, <2>4, <2>5, <2>6, <2>7, <2>8
<1>9. \A j \in 1..(m + 1) : \E i \in 1..(m + 1) : p[i] = j
  <2> SUFFICES ASSUME NEW j \in 1..(m + 1) PROVE \E i \in 1..(m + 1) : p[i] = j
    OBVIOUS
  <2>1. CASE j = m + 1
    <3>1. p[k] = j BY <2>1
    <3> QED BY <3>1
  <2>2. CASE j # m + 1
    <3>1. j \in 1..m BY <2>2
    <3>2. PICK i \in 1..m : o[i] = j BY <1>2, <3>1
    <3>3. i < k => i \in 1..(m + 1) /\ p[i] = j BY <3>2
    <3>4. ~(i < k) => i + 1 \in 1..(m + 1) /\ p[i + 1] = j BY <3>2
    <3> QED BY <3>3, <3>4
  <2> QED BY <2>1, <2>2
<1>10. Ordered(u, rank)
  <2> SUFFICES ASSUME NEW i \in 1..(m + 1), NEW j \in 1..(m + 1), i < j
               PROVE  rank[u[i]] <= rank[u[j]]
    BY <1>3 DEF Ordered
  <2>0. rank[x] \in Int BY <1>0
  <2>1. \A a, c \in 1..m : a < c => rank[t[a]] <= rank[t[c]] BY <1>0 DEF Ordered
  <2>2. CASE j < k
    <3>1. u[i] = t[i] /\ u[j] = t[j] /\ i \in 1..m /\ j \in 1..m
      BY <1>15, <2>2
    <3> QED BY <2>1, <3>1
  <2>3. CASE j = k
    <3>1. u[i] = t[i] /\ u[j] = x /\ i \in 1..(k - 1) BY <1>15, <2>3
    <3> QED BY <1>13, <3>1
  <2>4. CASE j > k /\ i < k
    <3>1. u[i] = t[i] /\ u[j] = t[j - 1] /\ i \in 1..m /\ j - 1 \in 1..m
          /\ i \in 1..(k - 1) /\ j - 1 \in k..m
      BY <1>15, <2>4
    <3>2. rank[t[i]] <= rank[x] /\ rank[x] < rank[t[j - 1]] BY <1>13, <3>1
    <3>3. rank[t[i]] \in Int /\ rank[t[j - 1]] \in Int BY <1>00, <3>1
    <3> QED BY <2>0, <3>1, <3>2, <3>3
  <2>5. CASE j > k /\ i = k
    <3>1. u[i] = x /\ u[j] = t[j - 1] /\ j - 1 \in k..m /\ j - 1 \in 1..m
      BY <1>15, <2>5
    <3>2. rank[x] < rank[t[j - 1]] BY <1>13, <3>1
    <3>3. rank[t[j - 1]] \in Int BY <1>00, <3>1
    <3>4. rank[u[i]] = rank[x] /\ rank[u[j]] = rank[t[j - 1]] BY <3>1
    <3>5. \A a, c \in Int : a < c => a <= c OBVIOUS
    <3> QED BY <2>0, <3>2, <3>3, <3>4, <3>5, Zenon
  <2>6. CASE i > k
    <3>1. u[i] = t[i - 1] /\ u[j] = t[j - 1] /\ i - 1 \in 1..m /\ j - 1 \in 1..m
          /\ i - 1 < j - 1
      BY <1>15, <2>6
    <3> QED BY <2>1, <3>1
  <2> QED BY <2>2, <2>3, <2>4, <2>5, <2>6
<1> HIDE DEF p
<1>11. \E q \in [1..(m + 1) -> 1..(m + 1)] :
           /\ \A i \in 1..(m + 1) : u[i] = seq[q[i]]
           /\ \A i, j \in 1..(m + 1) : q[i] = q[j] => i = j
           /\ \A j \in 1..(m + 1) : \E i \in 1..(m + 1) : q[i] = j
  BY <1>6, <1>7, <1>8, <1>9
<1>16. Picked(seq, 1..(m + 1), u, m + 1, E) BY <1>3, <1>11, Zenon DEF Picked
<1>12. Sorts(seq, m + 1, u, rank, E) BY <1>10, <1>16 DEF Sorts
<1> QED BY <1>12 DEF u

LEMMA InsertStays ==
    ASSUME NEW E, NEW rank, NEW t \in Seq(E), NEW x \in E
    PROVE  Insert(t, x, rank) \in Seq(E)
<1> DEFINE S == {i \in DOMAIN t : rank[t[i]] > rank[x]} \cup {Len(t) + 1}
           k == Min(S)
<1>1. S \in SUBSET (1..(Len(t) + 1)) /\ S # {} OBVIOUS
<1>2. Insert(t, x, rank) = InsertAt(t, k, x) BY DEF Insert
<1> HIDE DEF S
<1>3. k \in 1..(Len(t) + 1)
  <2>1. S \in SUBSET Nat BY <1>1
  <2> QED BY <1>1, <2>1, MinIs
<1> HIDE DEF k
<1>4. InsertAt(t, k, x) \in Seq(E) BY <1>3, InsertAtIs
<1> QED BY <1>2, <1>4

InsertFolding(seq, rank, n, F) ==
    F = [s \in SUBSET (1..n) |->
            IF s = {} THEN <<>> ELSE Insert(F[s \ {Max(s)}], seq[Max(s)], rank)]

LEMMA InsertIsFold ==
    ASSUME NEW seq, NEW rank, NEW n, DOMAIN seq = 1..n
    PROVE  SortBy(seq, rank) =
               (CHOOSE F : InsertFolding(seq, rank, n, F))[1..n]
BY Zenon DEF SortBy, FoldLeft, MapThenFoldSet, InsertFolding

InsertRun(E, seq, rank, D) ==
    /\ D \in [0..Len(seq) -> Seq(E)]
    /\ D[0] = <<>> /\ D[Len(seq)] = SortBy(seq, rank)
    /\ \A i \in 1..Len(seq) : D[i] = Insert(D[i - 1], seq[i], rank)

LEMMA InsertSteps ==
    ASSUME NEW E, NEW rank, NEW seq \in Seq(E)
    PROVE  \E D : InsertRun(E, seq, rank, D)
<1> DEFINE n == Len(seq)
           A == Seq(E)
           g == [w \in (1..n) \X A |-> Insert(w[2], seq[w[1]], rank)]
<1>1. n \in Nat /\ DOMAIN seq = 1..n /\ \A i \in 1..n : seq[i] \in E OBVIOUS
<1> HIDE DEF n
<1>2. g \in [(1..n) \X A -> A]
  <2> SUFFICES ASSUME NEW w \in (1..n) \X A PROVE Insert(w[2], seq[w[1]], rank) \in A
    OBVIOUS
  <2> QED BY <1>1, InsertStays
<1>3. <<>> \in A OBVIOUS
<1>4. \A i \in 1..n, a \in A : g[<<i, a>>] = Insert(a, seq[i], rank) OBVIOUS
<1> HIDE DEF g, A
<1>5. \E F : InsertFolding(seq, rank, n, F)
  <2>1. PICK F : Folding(g, <<>>, n, F) /\ Reaches(A, n, F)
    BY <1>1, <1>2, <1>3, FoldingOfTable
  <2> DEFINE H == [s \in SUBSET (1..n) |->
                   IF s = {} THEN <<>> ELSE Insert(F[s \ {Max(s)}], seq[Max(s)], rank)]
  <2>2. F = H BY <1>4, <2>1 DEF Folding, Reaches
  <2> QED BY <2>2, Zenon DEF InsertFolding
<1> DEFINE C == CHOOSE F : InsertFolding(seq, rank, n, F)
<1>6. InsertFolding(seq, rank, n, C) BY <1>5
<1>7. SortBy(seq, rank) = C[1..n] BY <1>1, InsertIsFold
<1> HIDE DEF C
<1>8. /\ C[{}] = <<>>
      /\ \A s \in SUBSET (1..n) : s # {} => C[s] = Insert(C[s \ {Max(s)}], seq[Max(s)], rank)
  BY <1>6 DEF InsertFolding
<1>9. Recurs(g, <<>>, n, A, C)
  <2>1. \A s \in SUBSET (1..n) : s # {} => Max(s) \in 1..n BY <1>1, MaxIs
  <2> QED BY <1>4, <1>8, <2>1 DEF Recurs
<1>10. PICK D : Along(g, <<>>, n, A, C, D)
  BY <1>1, <1>2, <1>3, <1>9, FoldingSteps
<1>11. \A i \in 1..n : D[i] = Insert(D[i - 1], seq[i], rank)
  <2>1. \A i \in 1..n : i - 1 \in 0..n BY <1>1
  <2> QED BY <1>4, <1>10, <2>1 DEF Along
<1>12. InsertRun(E, seq, rank, D) BY <1>7, <1>10, <1>11 DEF Along, n, A, InsertRun
<1> QED BY <1>12

LEMMA AppendIfStays ==
    ASSUME NEW E, NEW S, NEW t \in Seq(E), NEW x \in E
    PROVE  AppendIf(t, x, S) \in Seq(E)
BY DEF AppendIf

AppendIfFolding(seq, S, n, F) ==
    F = [s \in SUBSET (1..n) |->
            IF s = {} THEN <<>> ELSE AppendIf(F[s \ {Max(s)}], seq[Max(s)], S)]

LEMMA AppendIfIsFold ==
    ASSUME NEW seq, NEW S, NEW n, DOMAIN seq = 1..n
    PROVE  Where(seq, S) =
               (CHOOSE F : AppendIfFolding(seq, S, n, F))[1..n]
BY Zenon DEF Where, FoldLeft, MapThenFoldSet, AppendIfFolding

AppendIfRun(E, seq, S, D) ==
    /\ D \in [0..Len(seq) -> Seq(E)]
    /\ D[0] = <<>> /\ D[Len(seq)] = Where(seq, S)
    /\ \A i \in 1..Len(seq) : D[i] = AppendIf(D[i - 1], seq[i], S)

LEMMA AppendIfSteps ==
    ASSUME NEW E, NEW S, NEW seq \in Seq(E)
    PROVE  \E D : AppendIfRun(E, seq, S, D)
<1> DEFINE n == Len(seq)
           A == Seq(E)
           g == [w \in (1..n) \X A |-> AppendIf(w[2], seq[w[1]], S)]
<1>1. n \in Nat /\ DOMAIN seq = 1..n /\ \A i \in 1..n : seq[i] \in E OBVIOUS
<1> HIDE DEF n
<1>2. g \in [(1..n) \X A -> A]
  <2> SUFFICES ASSUME NEW w \in (1..n) \X A PROVE AppendIf(w[2], seq[w[1]], S) \in A
    OBVIOUS
  <2> QED BY <1>1, AppendIfStays
<1>3. <<>> \in A OBVIOUS
<1>4. \A i \in 1..n, a \in A : g[<<i, a>>] = AppendIf(a, seq[i], S) OBVIOUS
<1> HIDE DEF g, A
<1>5. \E F : AppendIfFolding(seq, S, n, F)
  <2>1. PICK F : Folding(g, <<>>, n, F) /\ Reaches(A, n, F)
    BY <1>1, <1>2, <1>3, FoldingOfTable
  <2> DEFINE H == [s \in SUBSET (1..n) |->
                   IF s = {} THEN <<>> ELSE AppendIf(F[s \ {Max(s)}], seq[Max(s)], S)]
  <2>2. F = H BY <1>4, <2>1 DEF Folding, Reaches
  <2> QED BY <2>2, Zenon DEF AppendIfFolding
<1> DEFINE C == CHOOSE F : AppendIfFolding(seq, S, n, F)
<1>6. AppendIfFolding(seq, S, n, C) BY <1>5
<1>7. Where(seq, S) = C[1..n] BY <1>1, AppendIfIsFold
<1> HIDE DEF C
<1>8. /\ C[{}] = <<>>
      /\ \A s \in SUBSET (1..n) : s # {} => C[s] = AppendIf(C[s \ {Max(s)}], seq[Max(s)], S)
  BY <1>6 DEF AppendIfFolding
<1>9. Recurs(g, <<>>, n, A, C)
  <2>1. \A s \in SUBSET (1..n) : s # {} => Max(s) \in 1..n BY <1>1, MaxIs
  <2> QED BY <1>4, <1>8, <2>1 DEF Recurs
<1>10. PICK D : Along(g, <<>>, n, A, C, D)
  BY <1>1, <1>2, <1>3, <1>9, FoldingSteps
<1>11. \A i \in 1..n : D[i] = AppendIf(D[i - 1], seq[i], S)
  <2>1. \A i \in 1..n : i - 1 \in 0..n BY <1>1
  <2> QED BY <1>4, <1>10, <2>1 DEF Along
<1>12. AppendIfRun(E, seq, S, D) BY <1>7, <1>10, <1>11 DEF Along, n, A, AppendIfRun
<1> QED BY <1>12

LEMMA PickedNothing ==
    ASSUME NEW seq, NEW E PROVE Picked(seq, {}, <<>>, 0, E)
<1> DEFINE o == [i \in 1..0 |-> 0]
<1>1. 1..0 = {} OBVIOUS
<1>2. o \in [1..0 -> {}] BY <1>1
<1>3. Len(<<>>) = 0 /\ <<>> \in Seq(E) OBVIOUS
<1> HIDE DEF o
<1> QED BY <1>1, <1>2, <1>3 DEF Picked

(* One element more.                                                       *)
LEMMA PickedOneMore ==
    ASSUME NEW E, NEW seq, NEW J, NEW n \in Nat, NEW t, Picked(seq, J, t, n, E),
           NEW j, j \notin J, seq[j] \in E
    PROVE  Picked(seq, J \cup {j}, Append(t, seq[j]), n + 1, E)
<1>1. t \in Seq(E) /\ Len(t) = n BY DEF Picked
<1>2. PICK o \in [1..n -> J] :
           /\ \A i \in 1..n : t[i] = seq[o[i]]
           /\ \A h, i \in 1..n : o[h] = o[i] => h = i
           /\ \A i \in J : \E h \in 1..n : o[h] = i
  BY DEF Picked
<1> DEFINE u == Append(t, seq[j])
           p == [i \in 1..(n + 1) |-> IF i = n + 1 THEN j ELSE o[i]]
<1>3. /\ u \in Seq(E) /\ Len(u) = n + 1 /\ u[n + 1] = seq[j]
      /\ \A i \in 1..n : u[i] = t[i]
  BY <1>1
<1> HIDE DEF u
<1>4. \A i \in 1..(n + 1) : i # n + 1 => i \in 1..n OBVIOUS
<1>5. n + 1 \in 1..(n + 1) /\ \A i \in 1..n : i \in 1..(n + 1) /\ i # n + 1
  OBVIOUS
<1>6. /\ p[n + 1] = j
      /\ \A i \in 1..n : p[i] = o[i] /\ p[i] \in J
  BY <1>5
<1>7. p \in [1..(n + 1) -> J \cup {j}] BY <1>4
<1> HIDE DEF p
<1>8. \A i \in 1..(n + 1) : u[i] = seq[p[i]] BY <1>2, <1>3, <1>4, <1>6
<1>9. \A h, i \in 1..(n + 1) : p[h] = p[i] => h = i
  <2> SUFFICES ASSUME NEW h \in 1..(n + 1), NEW i \in 1..(n + 1), p[h] = p[i]
               PROVE  h = i
    OBVIOUS
  <2>1. CASE h \in 1..n /\ i \in 1..n BY <1>2, <1>6, <2>1
  <2>2. CASE h \in 1..n /\ i = n + 1 BY <1>6, <2>2
  <2>3. CASE h = n + 1 /\ i \in 1..n BY <1>6, <2>3
  <2> QED BY <1>4, <2>1, <2>2, <2>3
<1>10. \A k \in J \cup {j} : \E i \in 1..(n + 1) : p[i] = k
  BY <1>2, <1>5, <1>6
<1> QED BY <1>3, <1>7, <1>8, <1>9, <1>10 DEF Picked, u

(* What is picked from what was picked is picked from the whole.           *)
LEMMA PickedOfPicked ==
    ASSUME NEW E, NEW seq, NEW J, NEW n \in Nat, NEW t, Picked(seq, J, t, n, E),
           NEW K \in SUBSET (1..n), NEW m \in Nat, NEW u, Picked(t, K, u, m, E)
    PROVE  \E L \in SUBSET J :
               /\ Picked(seq, L, u, m, E)
               /\ K = 1..n => L = J
<1>1. PICK o \in [1..n -> J] :
           /\ \A i \in 1..n : t[i] = seq[o[i]]
           /\ \A h, i \in 1..n : o[h] = o[i] => h = i
           /\ \A i \in J : \E h \in 1..n : o[h] = i
  BY DEF Picked
<1>2. PICK p \in [1..m -> K] :
           /\ \A i \in 1..m : u[i] = t[p[i]]
           /\ \A h, i \in 1..m : p[h] = p[i] => h = i
           /\ \A i \in K : \E h \in 1..m : p[h] = i
  BY DEF Picked
<1> DEFINE L == {o[k] : k \in K}
           q == [i \in 1..m |-> o[p[i]]]
<1>3. L \in SUBSET J OBVIOUS
<1>4. q \in [1..m -> L] OBVIOUS
<1>5. \A i \in 1..m : u[i] = seq[q[i]] BY <1>1, <1>2
<1>6. \A h, i \in 1..m : q[h] = q[i] => h = i BY <1>1, <1>2
<1>7. \A k \in L : \E i \in 1..m : q[i] = k BY <1>2
<1>8. K = 1..n => L = J BY <1>1
<1>9. u \in Seq(E) /\ Len(u) = m BY DEF Picked
<1> HIDE DEF L, q
<1>10. Picked(seq, L, u, m, E) BY <1>4, <1>5, <1>6, <1>7, <1>9 DEF Picked
<1> QED BY <1>3, <1>8, <1>10

(* list.sort and sorted give the same elements in the order of their ranks.*)
LEMMA SortBySorts ==
    ASSUME NEW E, NEW rank, \A e \in E : rank[e] \in Int, NEW seq \in Seq(E)
    PROVE  Sorts(seq, Len(seq), SortBy(seq, rank), rank, E)
<1> DEFINE n == Len(seq)
<1>0. PICK D : InsertRun(E, seq, rank, D) BY InsertSteps
<1>1. /\ D \in [0..n -> Seq(E)]
      /\ D[0] = <<>> /\ D[n] = SortBy(seq, rank)
      /\ \A i \in 1..n : D[i] = Insert(D[i - 1], seq[i], rank)
  BY <1>0 DEF InsertRun
<1>2. n \in Nat /\ \A i \in 1..n : seq[i] \in E OBVIOUS
<1> HIDE DEF n
<1> DEFINE X == {i \in 0..n : Sorts(seq, i, D[i], rank, E)}
<1>3. 0 \in X
  <2>1. Picked(seq, 1..0, <<>>, 0, E)
    <3>1. 1..0 = {} OBVIOUS
    <3> QED BY <3>1, PickedNothing
  <2>2. Ordered(<<>>, rank) BY DEF Ordered
  <2>3. 0 \in 0..n BY <1>2
  <2> QED BY <1>1, <2>1, <2>2, <2>3 DEF Sorts
<1>4. \A i \in 1..n : i - 1 \in X => i \in X
  <2> SUFFICES ASSUME NEW i \in 1..n, i - 1 \in X PROVE i \in X OBVIOUS
  <2>1. i - 1 \in Nat /\ (i - 1) + 1 = i /\ i \in 0..n BY <1>2
  <2>2. Sorts(seq, i - 1, D[i - 1], rank, E) OBVIOUS
  <2>3. seq[i] \in E /\ seq[i] = seq[(i - 1) + 1] BY <1>2, <2>1
  <2>4. Sorts(seq, (i - 1) + 1, Insert(D[i - 1], seq[i], rank), rank, E)
    BY <2>1, <2>2, <2>3, InsertSorts
  <2> QED BY <1>1, <2>1, <2>4
<1> HIDE DEF X
<1>5. \A i \in 0..n : i \in X BY <1>2, <1>3, <1>4, StepByStep
<1>6. n \in X BY <1>2, <1>5
<1> QED BY <1>1, <1>6 DEF X, n

(* A comprehension gives the elements that are in S.                       *)
LEMMA WherePicks ==
    ASSUME NEW E, NEW S, NEW seq \in Seq(E)
    PROVE  \E n \in Nat :
               Picked(seq, {j \in 1..Len(seq) : seq[j] \in S}, Where(seq, S), n, E)
<1> DEFINE n == Len(seq)
           Of(i) == {j \in 1..i : seq[j] \in S}
<1>0. PICK D : AppendIfRun(E, seq, S, D) BY AppendIfSteps
<1>1. /\ D \in [0..n -> Seq(E)]
      /\ D[0] = <<>> /\ D[n] = Where(seq, S)
      /\ \A i \in 1..n : D[i] = AppendIf(D[i - 1], seq[i], S)
  BY <1>0 DEF AppendIfRun
<1>2. n \in Nat /\ \A i \in 1..n : seq[i] \in E OBVIOUS
<1> HIDE DEF n
<1> DEFINE X == {i \in 0..n : \E m \in Nat : Picked(seq, Of(i), D[i], m, E)}
<1>3. 0 \in X
  <2>1. Of(0) = {} OBVIOUS
  <2>2. 0 \in 0..n BY <1>2
  <2> HIDE DEF Of
  <2> QED BY <1>1, <2>1, <2>2, PickedNothing
<1>4. \A i \in 1..n : i - 1 \in X => i \in X
  <2> SUFFICES ASSUME NEW i \in 1..n, i - 1 \in X PROVE i \in X OBVIOUS
  <2>1. i - 1 \in 0..n /\ i \in 0..n BY <1>2
  <2>2. PICK m \in Nat : Picked(seq, Of(i - 1), D[i - 1], m, E) OBVIOUS
  <2>3. CASE seq[i] \in S
    <3>1. Of(i) = Of(i - 1) \cup {i} /\ i \notin Of(i - 1) BY <1>2, <2>3
    <3>2. D[i] = Append(D[i - 1], seq[i]) BY <1>1, <2>3 DEF AppendIf
    <3>3. seq[i] \in E BY <1>2
    <3> HIDE DEF Of
    <3>6. Picked(seq, Of(i - 1) \cup {i}, Append(D[i - 1], seq[i]), m + 1, E)
      BY <2>2, <3>1, <3>3, PickedOneMore
    <3>4. Picked(seq, Of(i), D[i], m + 1, E) BY <3>1, <3>2, <3>6
    <3>5. m + 1 \in Nat OBVIOUS
    <3> QED BY <2>1, <3>4, <3>5
  <2>4. CASE seq[i] \notin S
    <3>1. Of(i) = Of(i - 1)
      <4>1. \A j \in 1..i : j \in 1..(i - 1) \/ j = i BY <1>2
      <4>2. \A j \in 1..(i - 1) : j \in 1..i BY <1>2
      <4> QED BY <2>4, <4>1, <4>2
    <3>2. D[i] = D[i - 1] BY <1>1, <2>4 DEF AppendIf
    <3> HIDE DEF Of
    <3> QED BY <2>1, <2>2, <3>1, <3>2
  <2> QED BY <2>3, <2>4
<1> HIDE DEF X
<1>5. \A i \in 0..n : i \in X BY <1>2, <1>3, <1>4, StepByStep
<1>6. n \in X BY <1>2, <1>5
<1> QED BY <1>1, <1>6 DEF X, n

LEMMA PickedWider ==
    ASSUME NEW E, NEW F, E \subseteq F, NEW seq, NEW J, NEW t, NEW n,
           Picked(seq, J, t, n, E)
    PROVE  Picked(seq, J, t, n, F)
<1>1. t \in Seq(E) /\ Len(t) = n BY DEF Picked
<1>2. t \in Seq(F)
  <2>1. Len(t) \in Nat /\ t \in [1..Len(t) -> E] BY <1>1
  <2>2. t \in [1..Len(t) -> F] BY <2>1
  <2> QED BY <2>1, <2>2
<1> QED BY <1>1, <1>2 DEF Picked

-----------------------------------------------------------------------------
(* system._disks, for any mount table.                                     *)

Nothing == [seen |-> {}, disks |-> <<>>]
Found(P) == [seen : SUBSET {p.device : p \in P}, disks : Seq(P)]

LEMMA VisitStays ==
    ASSUME NEW P, NEW p \in P, NEW out \in Found(P)
    PROVE  Visit(out, p) \in Found(P)
<1>1. out.seen \cup {p.device} \in SUBSET {q.device : q \in P} BY DEF Found
<1>2. Append(out.disks, p) \in Seq(P) BY DEF Found
<1> QED BY <1>1, <1>2 DEF Visit, Seen, Found

VisitFolding(seq, n, F) ==
    F = [s \in SUBSET (1..n) |->
            IF s = {} THEN Nothing ELSE Visit(F[s \ {Max(s)}], seq[Max(s)])]

LEMMA VisitIsFold ==
    ASSUME NEW seq, NEW n, DOMAIN seq = 1..n
    PROVE  FoldLeft(Visit, Nothing, seq) =
               (CHOOSE F : VisitFolding(seq, n, F))[1..n]
BY Zenon DEF FoldLeft, MapThenFoldSet, VisitFolding

VisitRun(P, seq, D) ==
    /\ D \in [0..Len(seq) -> Found(P)]
    /\ D[0] = Nothing /\ D[Len(seq)] = FoldLeft(Visit, Nothing, seq)
    /\ \A i \in 1..Len(seq) : D[i] = Visit(D[i - 1], seq[i])

LEMMA VisitSteps ==
    ASSUME NEW P, NEW seq \in Seq(P)
    PROVE  \E D : VisitRun(P, seq, D)
<1> DEFINE n == Len(seq)
           A == Found(P)
           g == [w \in (1..n) \X A |-> Visit(w[2], seq[w[1]])]
<1>1. n \in Nat /\ DOMAIN seq = 1..n /\ \A i \in 1..n : seq[i] \in P OBVIOUS
<1> HIDE DEF n
<1>2. g \in [(1..n) \X A -> A]
  <2> SUFFICES ASSUME NEW w \in (1..n) \X A PROVE Visit(w[2], seq[w[1]]) \in A
    OBVIOUS
  <2> QED BY <1>1, VisitStays
<1>3. Nothing \in A BY DEF Nothing, Found
<1>4. \A i \in 1..n, a \in A : g[<<i, a>>] = Visit(a, seq[i]) OBVIOUS
<1> HIDE DEF g, A
<1>5. \E F : VisitFolding(seq, n, F)
  <2>1. PICK F : Folding(g, Nothing, n, F) /\ Reaches(A, n, F)
    BY <1>1, <1>2, <1>3, FoldingOfTable
  <2> DEFINE H == [s \in SUBSET (1..n) |->
                   IF s = {} THEN Nothing ELSE Visit(F[s \ {Max(s)}], seq[Max(s)])]
  <2>2. F = H BY <1>4, <2>1 DEF Folding, Reaches
  <2> QED BY <2>2, Zenon DEF VisitFolding
<1> DEFINE C == CHOOSE F : VisitFolding(seq, n, F)
<1>6. VisitFolding(seq, n, C) BY <1>5
<1>7. FoldLeft(Visit, Nothing, seq) = C[1..n] BY <1>1, VisitIsFold
<1> HIDE DEF C
<1>8. /\ C[{}] = Nothing
      /\ \A s \in SUBSET (1..n) : s # {} => C[s] = Visit(C[s \ {Max(s)}], seq[Max(s)])
  BY <1>6 DEF VisitFolding
<1>9. Recurs(g, Nothing, n, A, C)
  <2>1. \A s \in SUBSET (1..n) : s # {} => Max(s) \in 1..n BY <1>1, MaxIs
  <2> QED BY <1>4, <1>8, <2>1 DEF Recurs
<1>10. PICK D : Along(g, Nothing, n, A, C, D)
  BY <1>1, <1>2, <1>3, <1>9, FoldingSteps
<1>11. \A i \in 1..n : D[i] = Visit(D[i - 1], seq[i])
  <2>1. \A i \in 1..n : i - 1 \in 0..n BY <1>1
  <2> QED BY <1>4, <1>10, <2>1 DEF Along
<1>12. VisitRun(P, seq, D) BY <1>7, <1>10, <1>11 DEF Along, n, A, VisitRun
<1> QED BY <1>12

(* The first entry of each device that answers.                            *)
Firsts(parts, i) ==
    {j \in 1..i :
        /\ parts[j].kind = "good"
        /\ \A h \in 1..(j - 1) :
               parts[h].kind = "good" => parts[h].device # parts[j].device}

SeenBy(parts, i) ==
    {parts[j].device : j \in {h \in 1..i : parts[h].kind = "good"}}

(* One turn of the loop over the mount table.                              *)
LEMMA VisitIs ==
    ASSUME NEW out, NEW p
    PROVE  /\ p.kind = "good" /\ p.device \notin out.seen =>
                  Visit(out, p) = [seen |-> out.seen \cup {p.device},
                                   disks |-> Append(out.disks, p)]
           /\ p.kind # "good" \/ p.device \in out.seen => Visit(out, p) = out
BY DEF Visit, Seen

(* What the loop has found when it is through.                             *)
LEMMA LoopFinds ==
    ASSUME NEW P, NEW parts \in Seq(P)
    PROVE  \E m \in Nat :
               Picked(parts, Firsts(parts, Len(parts)),
                      FoldLeft(Visit, Nothing, parts).disks, m, P)
<1> DEFINE n == Len(parts)
<1>0. PICK D : VisitRun(P, parts, D) BY VisitSteps
<1>1. /\ D \in [0..n -> Found(P)]
      /\ D[0] = Nothing /\ D[n] = FoldLeft(Visit, Nothing, parts)
      /\ \A i \in 1..n : D[i] = Visit(D[i - 1], parts[i])
  BY <1>0 DEF VisitRun
<1>2. n \in Nat /\ \A i \in 1..n : parts[i] \in P OBVIOUS
<1> HIDE DEF n
<1> DEFINE X == {i \in 0..n :
                    /\ D[i].seen = SeenBy(parts, i)
                    /\ \E m \in Nat : Picked(parts, Firsts(parts, i), D[i].disks, m, P)}
<1>3. 0 \in X
  <2>1. 1..0 = {} OBVIOUS
  <2>2. Firsts(parts, 0) = {} /\ SeenBy(parts, 0) = {} BY <2>1 DEF Firsts, SeenBy
  <2>3. 0 \in 0..n BY <1>2
  <2>4. D[0].seen = {} /\ D[0].disks = <<>> BY <1>1 DEF Nothing
  <2>5. Picked(parts, Firsts(parts, 0), D[0].disks, 0, P)
    BY <2>2, <2>4, PickedNothing
  <2>6. \E m \in Nat : Picked(parts, Firsts(parts, 0), D[0].disks, m, P)
    BY <2>5
  <2> QED BY <2>2, <2>3, <2>4, <2>6
<1>4. \A i \in 1..n : i - 1 \in X => i \in X
  <2> SUFFICES ASSUME NEW i \in 1..n, i - 1 \in X PROVE i \in X OBVIOUS
  <2>1. i - 1 \in 0..n /\ i \in 0..n BY <1>2
  <2>2. PICK m \in Nat : Picked(parts, Firsts(parts, i - 1), D[i - 1].disks, m, P)
    OBVIOUS
  <2>3. D[i - 1].seen = SeenBy(parts, i - 1) OBVIOUS
  <2>4. D[i] = Visit(D[i - 1], parts[i]) /\ parts[i] \in P BY <1>1, <1>2
  <2>5. /\ \A j \in 1..i : j \in 1..(i - 1) \/ j = i
        /\ \A j \in 1..(i - 1) : j \in 1..i
        /\ i \in 1..i /\ i \notin 1..(i - 1)
    BY <1>2
  <2>7. CASE parts[i].kind = "good" /\ parts[i].device \notin SeenBy(parts, i - 1)
    <3>1. D[i] = [seen |-> D[i - 1].seen \cup {parts[i].device},
                  disks |-> Append(D[i - 1].disks, parts[i])]
      BY <2>3, <2>4, <2>7, VisitIs
    <3>2. SeenBy(parts, i) = SeenBy(parts, i - 1) \cup {parts[i].device}
      BY <2>5, <2>7 DEF SeenBy
    <3>3. \A h \in 1..(i - 1) :
              parts[h].kind = "good" => parts[h].device # parts[i].device
      BY <2>7 DEF SeenBy
    <3>4. Firsts(parts, i) = Firsts(parts, i - 1) \cup {i}
      BY <2>5, <2>7, <3>3 DEF Firsts
    <3>5. i \notin Firsts(parts, i - 1) BY <2>5 DEF Firsts
    <3>6. Picked(parts, Firsts(parts, i - 1) \cup {i},
                 Append(D[i - 1].disks, parts[i]), m + 1, P)
      BY <2>2, <2>4, <3>5, PickedOneMore
    <3>7. /\ D[i].seen = SeenBy(parts, i)
          /\ D[i].disks = Append(D[i - 1].disks, parts[i])
      BY <2>3, <3>1, <3>2
    <3>8. Picked(parts, Firsts(parts, i), D[i].disks, m + 1, P)
      BY <3>4, <3>6, <3>7
    <3>9. m + 1 \in Nat OBVIOUS
    <3> QED BY <2>1, <3>7, <3>8, <3>9
  <2>8. CASE parts[i].kind # "good" \/ parts[i].device \in SeenBy(parts, i - 1)
    <3>1. D[i] = D[i - 1] BY <2>3, <2>4, <2>8, VisitIs
    <3>2. SeenBy(parts, i) = SeenBy(parts, i - 1)
      BY <2>5, <2>8 DEF SeenBy
    <3>3. i \notin Firsts(parts, i)
      <4> SUFFICES ASSUME parts[i].kind = "good"
                   PROVE  \E h \in 1..(i - 1) :
                              parts[h].kind = "good" /\ parts[h].device = parts[i].device
        BY DEF Firsts
      <4> QED BY <2>8 DEF SeenBy
    <3>4. Firsts(parts, i) = Firsts(parts, i - 1) BY <2>5, <3>3 DEF Firsts
    <3> QED BY <2>1, <2>2, <2>3, <3>1, <3>2, <3>4
  <2> QED BY <2>7, <2>8
<1> HIDE DEF X
<1>5. \A i \in 0..n : i \in X BY <1>2, <1>3, <1>4, StepByStep
<1>6. n \in X BY <1>2, <1>5
<1> QED BY <1>1, <1>6 DEF X, n

(* The drives are the first entries of the devices that answer, each once, *)
(* in the order of their mount points.                                     *)
InOrder(parts, disks) ==
    \A i, j \in 1..Len(disks) : i < j => disks[i].mount <= disks[j].mount

LEMMA DisksAre ==
    ASSUME NEW P, \A p \in P : p.mount \in Int, NEW parts \in Seq(P)
    PROVE  /\ \E m \in Nat :
                  Picked(parts, Firsts(parts, Len(parts)), Disks(parts), m, P)
           /\ InOrder(parts, Disks(parts))
<1> DEFINE found == FoldLeft(Visit, Nothing, parts).disks
           E == Range(found)
           rank == [p \in E |-> p.mount]
           J == Firsts(parts, Len(parts))
<1>1. PICK m \in Nat : Picked(parts, J, found, m, P) BY LoopFinds
<1>2. Disks(parts) = SortBy(found, rank) BY DEF Disks, Nothing
<1>3. found \in Seq(P) /\ Len(found) = m BY <1>1 DEF Picked
<1> HIDE DEF found, J
<1>4. E \subseteq P /\ found \in Seq(E)
  <2>1. DOMAIN found = 1..Len(found) /\ Len(found) \in Nat
        /\ found \in [1..Len(found) -> P]
    BY <1>3
  <2>2. found \in [1..Len(found) -> E] BY <2>1 DEF Range
  <2>3. E \subseteq P BY <2>1 DEF Range
  <2> HIDE DEF E
  <2> QED BY <2>1, <2>2, <2>3
<1> HIDE DEF E
<1>5. \A e \in E : rank[e] = e.mount /\ rank[e] \in Int BY <1>4
<1> HIDE DEF rank
<1> DEFINE disks == SortBy(found, rank)
<1>6. Sorts(found, m, disks, rank, E) BY <1>3, <1>4, <1>5, SortBySorts
<1> HIDE DEF disks
<1>7. Picked(found, 1..m, disks, m, P)
  BY <1>4, <1>6, PickedWider DEF Sorts
<1>8. Picked(parts, J, disks, m, P)
  <2> DEFINE K == 1..m
  <2>1. K \in SUBSET (1..m) /\ K = 1..m OBVIOUS
  <2>2. Picked(found, K, disks, m, P) BY <1>7
  <2> HIDE DEF K
  <2>3. \E L \in SUBSET J :
            /\ Picked(parts, L, disks, m, P)
            /\ K = 1..m => L = J
    BY <1>1, <2>1, <2>2, PickedOfPicked
  <2> QED BY <2>1, <2>3
<1>9. InOrder(parts, disks)
  <2>1. Ordered(disks, rank) /\ disks \in Seq(E) BY <1>6 DEF Sorts, Picked
  <2>2. \A i \in 1..Len(disks) : disks[i] \in E BY <2>1
  <2> QED BY <1>5, <2>1, <2>2 DEF Ordered, InOrder
<1> QED BY <1>2, <1>8, <1>9 DEF disks, J

(* DisksOnce, for a mount table.                                           *)
DrivesShown(parts, disks) ==
    LET good(d) == {i \in DOMAIN parts : parts[i].device = d /\ parts[i].kind = "good"}
    IN  /\ \A i, j \in DOMAIN disks : disks[i].device = disks[j].device => i = j
        /\ \A d : good(d) # {} =>
               \E i \in good(d) : /\ Contains(disks, parts[i])
                                  /\ \A j \in good(d) : i <= j
        /\ \A i \in DOMAIN disks : disks[i].mount = 0 =>
               \A j \in 1..i : disks[j].mount = 0

(* Of a mount table of any length, each device that answers is listed once,*)
(* as the first of its entries that answers, and the system drive is first *)
(* (system.py:86-115).                                                     *)
THEOREM DrivesOfAnyTable ==
    ASSUME NEW P, \A p \in P : p.mount \in Nat, NEW parts \in Seq(P)
    PROVE  DrivesShown(parts, Disks(parts))
<1> DEFINE n == Len(parts)
           J == Firsts(parts, n)
           disks == Disks(parts)
<1>1. n \in Nat /\ DOMAIN parts = 1..n /\ \A i \in 1..n : parts[i] \in P OBVIOUS
<1>2. PICK m \in Nat : Picked(parts, J, disks, m, P) BY DisksAre
<1>3. InOrder(parts, disks) BY DisksAre
<1> HIDE DEF n, J, disks
<1>4. disks \in Seq(P) /\ Len(disks) = m BY <1>2 DEF Picked
<1>5. DOMAIN disks = 1..m /\ \A i \in 1..m : disks[i] \in P BY <1>4
<1>6. PICK o \in [1..m -> J] :
           /\ \A i \in 1..m : disks[i] = parts[o[i]]
           /\ \A h, i \in 1..m : o[h] = o[i] => h = i
           /\ \A i \in J : \E h \in 1..m : o[h] = i
  BY <1>2 DEF Picked
<1>7. J \in SUBSET (1..n) BY DEF J, Firsts
<1>8. \A h, j \in J : parts[h].device = parts[j].device => h = j
  <2> SUFFICES ASSUME NEW h \in J, NEW j \in J, parts[h].device = parts[j].device
               PROVE  h = j
    OBVIOUS
  <2>1. h \in 1..n /\ j \in 1..n BY <1>7
  <2>2. ~(h < j) BY <1>1, <2>1 DEF J, Firsts
  <2>3. ~(j < h) BY <1>1, <2>1 DEF J, Firsts
  <2> QED BY <1>1, <2>1, <2>2, <2>3
<1>9. \A i, j \in DOMAIN disks : disks[i].device = disks[j].device => i = j
  <2> SUFFICES ASSUME NEW i \in 1..m, NEW j \in 1..m,
                      disks[i].device = disks[j].device
               PROVE  i = j
    BY <1>5
  <2>1. o[i] \in J /\ o[j] \in J OBVIOUS
  <2>2. o[i] = o[j] BY <1>6, <1>8, <2>1
  <2> QED BY <1>6, <2>2
<1> DEFINE good(d) == {i \in DOMAIN parts : parts[i].device = d /\ parts[i].kind = "good"}
<1>10. \A d, G : G = good(d) /\ G # {} =>
           \E i \in G : Contains(disks, parts[i]) /\ \A j \in G : i <= j
  <2> HIDE DEF good
  <2> SUFFICES ASSUME NEW d, NEW G, G = good(d), G # {}
               PROVE  \E i \in G : /\ Contains(disks, parts[i])
                                   /\ \A j \in G : i <= j
    OBVIOUS
  <2> USE DEF good
  <2>1. G \in SUBSET Nat BY <1>1
  <2>2. PICK i \in G : \A j \in G : i <= j BY <2>1, Least
  <2>3. i \in 1..n /\ parts[i].kind = "good" /\ parts[i].device = d
    BY <1>1
  <2>4. \A h \in 1..(i - 1) :
            parts[h].kind = "good" => parts[h].device # parts[i].device
    <3> SUFFICES ASSUME NEW h \in 1..(i - 1), parts[h].kind = "good",
                        parts[h].device = parts[i].device
                 PROVE  FALSE
      OBVIOUS
    <3>1. h \in 1..n /\ ~(i <= h) BY <1>1, <2>3
    <3>2. h \in G BY <1>1, <2>3, <3>1
    <3> QED BY <2>2, <3>1, <3>2
  <2>5. i \in J BY <2>3, <2>4 DEF J, Firsts
  <2>6. PICK h \in 1..m : o[h] = i BY <1>6, <2>5
  <2>7. disks[h] = parts[i] BY <1>6, <2>6
  <2>8. Contains(disks, parts[i]) BY <1>4, <2>7 DEF Contains
  <2> QED BY <2>2, <2>8
<1>11. \A i \in DOMAIN disks : disks[i].mount = 0 =>
           \A j \in 1..i : disks[j].mount = 0
  <2> SUFFICES ASSUME NEW i \in 1..m, disks[i].mount = 0, NEW j \in 1..i, j # i
               PROVE  disks[j].mount = 0
    BY <1>5
  <2>1. j \in 1..m /\ j < i OBVIOUS
  <2>2. disks[j].mount <= disks[i].mount BY <1>3, <1>4, <2>1 DEF InOrder
  <2>3. disks[j].mount \in Nat BY <1>5, <2>1
  <2> QED BY <2>2, <2>3
<1>12. \A d : good(d) # {} =>
           \E i \in good(d) : Contains(disks, parts[i]) /\ \A j \in good(d) : i <= j
  <2> HIDE DEF good
  <2> QED BY <1>10, Zenon
<1> QED BY <1>9, <1>11, <1>12, Zenon DEF DrivesShown, disks

-----------------------------------------------------------------------------
(* _windows_users, for any accounts.                                       *)

LEMMA OfferStays ==
    ASSUME NEW E, NEW t \in Seq(E), NEW x \in E
    PROVE  Offer(t, x) \in Seq(E)
BY DEF Offer

OfferFolding(seq, base, n, F) ==
    F = [s \in SUBSET (1..n) |->
            IF s = {} THEN base ELSE Offer(F[s \ {Max(s)}], seq[Max(s)])]

LEMMA OfferIsFold ==
    ASSUME NEW seq, NEW base, NEW n, DOMAIN seq = 1..n
    PROVE  FoldLeft(Offer, base, seq) =
               (CHOOSE F : OfferFolding(seq, base, n, F))[1..n]
BY Zenon DEF FoldLeft, MapThenFoldSet, OfferFolding

OfferRun(E, seq, base, D) ==
    /\ D \in [0..Len(seq) -> Seq(E)]
    /\ D[0] = base /\ D[Len(seq)] = FoldLeft(Offer, base, seq)
    /\ \A i \in 1..Len(seq) : D[i] = Offer(D[i - 1], seq[i])

LEMMA OfferSteps ==
    ASSUME NEW E, NEW base \in Seq(E), NEW seq \in Seq(E)
    PROVE  \E D : OfferRun(E, seq, base, D)
<1> DEFINE n == Len(seq)
           A == Seq(E)
           g == [w \in (1..n) \X A |-> Offer(w[2], seq[w[1]])]
<1>1. n \in Nat /\ DOMAIN seq = 1..n /\ \A i \in 1..n : seq[i] \in E OBVIOUS
<1> HIDE DEF n
<1>2. g \in [(1..n) \X A -> A]
  <2> SUFFICES ASSUME NEW w \in (1..n) \X A PROVE Offer(w[2], seq[w[1]]) \in A
    OBVIOUS
  <2> QED BY <1>1, OfferStays
<1>3. base \in A OBVIOUS
<1>4. \A i \in 1..n, a \in A : g[<<i, a>>] = Offer(a, seq[i]) OBVIOUS
<1> HIDE DEF g, A
<1>5. \E F : OfferFolding(seq, base, n, F)
  <2>1. PICK F : Folding(g, base, n, F) /\ Reaches(A, n, F)
    BY <1>1, <1>2, <1>3, FoldingOfTable
  <2> DEFINE H == [s \in SUBSET (1..n) |->
                   IF s = {} THEN base ELSE Offer(F[s \ {Max(s)}], seq[Max(s)])]
  <2>2. F = H BY <1>4, <2>1 DEF Folding, Reaches
  <2> QED BY <2>2, Zenon DEF OfferFolding
<1> DEFINE C == CHOOSE F : OfferFolding(seq, base, n, F)
<1>6. OfferFolding(seq, base, n, C) BY <1>5
<1>7. FoldLeft(Offer, base, seq) = C[1..n] BY <1>1, OfferIsFold
<1> HIDE DEF C
<1>8. /\ C[{}] = base
      /\ \A s \in SUBSET (1..n) : s # {} => C[s] = Offer(C[s \ {Max(s)}], seq[Max(s)])
  BY <1>6 DEF OfferFolding
<1>9. Recurs(g, base, n, A, C)
  <2>1. \A s \in SUBSET (1..n) : s # {} => Max(s) \in 1..n BY <1>1, MaxIs
  <2> QED BY <1>4, <1>8, <2>1 DEF Recurs
<1>10. PICK D : Along(g, base, n, A, C, D)
  BY <1>1, <1>2, <1>3, <1>9, FoldingSteps
<1>11. \A i \in 1..n : D[i] = Offer(D[i - 1], seq[i])
  <2>1. \A i \in 1..n : i - 1 \in 0..n BY <1>1
  <2> QED BY <1>4, <1>10, <2>1 DEF Along
<1>12. OfferRun(E, seq, base, D) BY <1>7, <1>10, <1>11 DEF Along, n, A, OfferRun
<1> QED BY <1>12

(* A name stands once in a list.                                           *)
Distinct(s) == \A i, j \in 1..Len(s) : s[i].id = s[j].id => i = j

(* Of the names with an identity in R, none comes after one without.       *)
Ahead(s, R) ==
    \A i, j \in 1..Len(s) : s[j].id \in R /\ s[i].id \notin R => j < i

LEMMA RangeIs ==
    ASSUME NEW N, NEW s \in Seq(N)
    PROVE  /\ Range(s) = {s[i] : i \in 1..Len(s)} /\ Range(s) \subseteq N
           /\ Lowered(s) = {x.id : x \in Range(s)}
<1>1. DOMAIN s = 1..Len(s) /\ \A i \in 1..Len(s) : s[i] \in N OBVIOUS
<1> QED BY <1>1 DEF Range, Lowered, Lower

(* Names picked from a list are some of its names, as often as before.     *)
LEMMA PickedNames ==
    ASSUME NEW N, NEW seq \in Seq(N), NEW J \in SUBSET (1..Len(seq)),
           NEW n \in Nat, NEW t, Picked(seq, J, t, n, N)
    PROVE  /\ t \in Seq(N) /\ Range(t) = {seq[j] : j \in J}
           /\ Distinct(seq) => Distinct(t)
<1>1. t \in Seq(N) /\ Len(t) = n BY DEF Picked
<1>2. PICK o \in [1..n -> J] :
           /\ \A i \in 1..n : t[i] = seq[o[i]]
           /\ \A i, j \in 1..n : o[i] = o[j] => i = j
           /\ \A j \in J : \E i \in 1..n : o[i] = j
  BY DEF Picked
<1>3. \A i \in 1..n : o[i] \in J /\ o[i] \in 1..Len(seq) OBVIOUS
<1>4. Range(t) = {seq[j] : j \in J}
  <2>1. Range(t) = {t[i] : i \in 1..n} BY <1>1, RangeIs
  <2> QED BY <1>2, <1>3, <2>1
<1>5. Distinct(seq) => Distinct(t)
  <2> SUFFICES ASSUME Distinct(seq), NEW i \in 1..n, NEW j \in 1..n, t[i].id = t[j].id
               PROVE  i = j
    BY <1>1 DEF Distinct
  <2>1. o[i] = o[j] BY <1>2, <1>3 DEF Distinct
  <2> QED BY <1>2, <2>1
<1> QED BY <1>1, <1>4, <1>5

LEMMA WhereNames ==
    ASSUME NEW N, NEW S, NEW seq \in Seq(N)
    PROVE  /\ Where(seq, S) \in Seq(N)
           /\ Range(Where(seq, S)) = Range(seq) \cap S
           /\ Distinct(seq) => Distinct(Where(seq, S))
<1> DEFINE J == {j \in 1..Len(seq) : seq[j] \in S}
           w == Where(seq, S)
<1>1. PICK n \in Nat : Picked(seq, J, w, n, N) BY WherePicks
<1>2. J \in SUBSET (1..Len(seq)) OBVIOUS
<1>3. {seq[j] : j \in J} = Range(seq) \cap S
  <2>1. Range(seq) = {seq[i] : i \in 1..Len(seq)} BY RangeIs
  <2> QED BY <2>1
<1> HIDE DEF J, w
<1>4. /\ w \in Seq(N) /\ Range(w) = {seq[j] : j \in J}
      /\ Distinct(seq) => Distinct(w)
  BY <1>1, <1>2, PickedNames
<1> QED BY <1>3, <1>4 DEF w

(* Sorting changes neither the names nor how often each of them stands.    *)
LEMMA SortedNamesAre ==
    ASSUME NEW N, \A x \in N : x.id \in Int, NEW seq \in Seq(N)
    PROVE  /\ SortedNames(seq) \in Seq(N)
           /\ Range(SortedNames(seq)) = Range(seq)
           /\ Distinct(seq) => Distinct(SortedNames(seq))
<1> DEFINE E == Range(seq)
           rank == [name \in E |-> Lower(name)]
           n == Len(seq)
           t == SortBy(seq, rank)
<1>1. E \subseteq N /\ E = {seq[i] : i \in 1..n} /\ n \in Nat BY RangeIs
<1>2. seq \in Seq(E)
  <2>1. seq \in [1..n -> E] BY <1>1
  <2> HIDE DEF E
  <2> QED BY <1>1, <2>1
<1>3. SortedNames(seq) = t BY DEF SortedNames
<1> HIDE DEF E, n
<1>4. \A e \in E : rank[e] \in Int BY <1>1 DEF Lower
<1> HIDE DEF rank
<1>5. Sorts(seq, n, t, rank, E) BY <1>2, <1>4, SortBySorts DEF n
<1> HIDE DEF t
<1>6. Picked(seq, 1..n, t, n, N) BY <1>1, <1>5, PickedWider DEF Sorts
<1>7. 1..n \in SUBSET (1..Len(seq)) BY DEF n
<1>8. /\ t \in Seq(N) /\ Range(t) = {seq[j] : j \in 1..n}
      /\ Distinct(seq) => Distinct(t)
  BY <1>1, <1>6, <1>7, PickedNames
<1> QED BY <1>1, <1>3, <1>8 DEF E

(* Two lists without a name in common, one behind the other.               *)
LEMMA JoinedNames ==
    ASSUME NEW N, NEW a \in Seq(N), NEW c \in Seq(N), Distinct(a), Distinct(c),
           \A x \in Range(a), y \in Range(c) : x.id # y.id
    PROVE  /\ a \o c \in Seq(N) /\ Distinct(a \o c)
           /\ Range(a \o c) = Range(a) \cup Range(c)
<1> DEFINE m == Len(a)
           n == Len(c)
           s == a \o c
<1>1. /\ m \in Nat /\ n \in Nat /\ s \in Seq(N) /\ Len(s) = m + n
      /\ \A i \in 1..m : s[i] = a[i]
      /\ \A i \in 1..n : s[m + i] = c[i]
  OBVIOUS
<1>2. /\ Range(a) = {a[i] : i \in 1..m} /\ Range(c) = {c[i] : i \in 1..n}
      /\ Range(s) = {s[i] : i \in 1..Len(s)}
  BY <1>1, RangeIs
<1> HIDE DEF m, n, s
<1>3. \A i \in 1..(m + n) : i \in 1..m \/ \E k \in 1..n : i = m + k
  <2> SUFFICES ASSUME NEW i \in 1..(m + n), i \notin 1..m
               PROVE  \E k \in 1..n : i = m + k
    OBVIOUS
  <2>1. i - m \in 1..n /\ i = m + (i - m) BY <1>1
  <2> QED BY <2>1
<1>4. \A i \in 1..m : i \in 1..(m + n) BY <1>1
<1>5. \A k \in 1..n : m + k \in 1..(m + n) BY <1>1
<1>6. Range(s) = Range(a) \cup Range(c)
  <2>1. \A x \in Range(s) : x \in Range(a) \/ x \in Range(c)
    <3>1. \A i \in 1..(m + n) : s[i] \in Range(a) \/ s[i] \in Range(c)
      <4> SUFFICES ASSUME NEW i \in 1..(m + n)
                   PROVE  s[i] \in Range(a) \/ s[i] \in Range(c)
        OBVIOUS
      <4>1. CASE i \in 1..m BY <1>1, <1>2, <4>1
      <4>2. CASE \E k \in 1..n : i = m + k BY <1>1, <1>2, <4>2
      <4> QED BY <1>3, <4>1, <4>2
    <3> QED BY <1>1, <1>2, <3>1
  <2>2. \A x \in Range(a) : x \in Range(s) BY <1>1, <1>2, <1>4
  <2>3. \A x \in Range(c) : x \in Range(s) BY <1>1, <1>2, <1>5
  <2> QED BY <2>1, <2>2, <2>3
<1>7. ASSUME NEW i \in 1..(m + n), NEW j \in 1..(m + n), s[i].id = s[j].id
      PROVE  i = j
  <2>1. CASE i \in 1..m /\ j \in 1..m BY <1>1, <1>7, <2>1 DEF Distinct, m
  <2>2. CASE i \in 1..m /\ j \notin 1..m
    <3>1. PICK k \in 1..n : j = m + k BY <1>3, <2>2
    <3>2. s[i] \in Range(a) /\ s[j] \in Range(c) BY <1>1, <1>2, <2>2, <3>1
    <3> QED BY <1>7, <3>2
  <2>3. CASE i \notin 1..m /\ j \in 1..m
    <3>1. PICK k \in 1..n : i = m + k BY <1>3, <2>3
    <3>2. s[j] \in Range(a) /\ s[i] \in Range(c) BY <1>1, <1>2, <2>3, <3>1
    <3> QED BY <1>7, <3>2
  <2>4. CASE i \notin 1..m /\ j \notin 1..m
    <3>1. PICK k \in 1..n : i = m + k BY <1>3, <2>4
    <3>2. PICK l \in 1..n : j = m + l BY <1>3, <2>4
    <3>3. c[k].id = c[l].id BY <1>1, <1>7, <3>1, <3>2
    <3>4. k = l BY <3>3 DEF Distinct, n
    <3> QED BY <3>1, <3>2, <3>4
  <2> QED BY <2>1, <2>2, <2>3, <2>4
<1>8. Distinct(s) BY <1>1, <1>7 DEF Distinct
<1> QED BY <1>1, <1>6, <1>8 DEF s

(* A list of names with an identity in R, then one of names without.       *)
LEMMA JoinedAhead ==
    ASSUME NEW N, NEW a \in Seq(N), NEW c \in Seq(N), NEW R,
           \A x \in Range(a) : x.id \in R, \A y \in Range(c) : y.id \notin R
    PROVE  Ahead(a \o c, R)
<1> DEFINE m == Len(a)
           n == Len(c)
           s == a \o c
<1>1. /\ m \in Nat /\ n \in Nat /\ s \in Seq(N) /\ Len(s) = m + n
      /\ \A i \in 1..m : s[i] = a[i]
      /\ \A i \in 1..n : s[m + i] = c[i]
  OBVIOUS
<1>2. Range(a) = {a[i] : i \in 1..m} /\ Range(c) = {c[i] : i \in 1..n}
  BY <1>1, RangeIs
<1> HIDE DEF m, n, s
<1>3. \A i \in 1..(m + n) : i \in 1..m => s[i].id \in R BY <1>1, <1>2
<1>4. \A i \in 1..(m + n) : i \notin 1..m => s[i].id \notin R
  <2> SUFFICES ASSUME NEW i \in 1..(m + n), i \notin 1..m PROVE s[i].id \notin R
    OBVIOUS
  <2>1. i - m \in 1..n /\ i = m + (i - m) BY <1>1
  <2> QED BY <1>1, <1>2, <2>1
<1>5. Ahead(s, R)
  <2> SUFFICES ASSUME NEW i \in 1..(m + n), NEW j \in 1..(m + n),
                      s[j].id \in R, s[i].id \notin R
               PROVE  j < i
    BY <1>1 DEF Ahead
  <2>1. j \in 1..m /\ i \notin 1..m BY <1>3, <1>4
  <2> QED BY <1>1, <2>1
<1> QED BY <1>5 DEF s

\* The names of t are among the first i of seq, those in R ahead.
Filters(seq, i, t, R) ==
    Ahead(t, R) /\ \A h \in 1..Len(t) : \E k \in 1..i : t[h] = seq[k]

(* A comprehension keeps the order.                                        *)
LEMMA WhereAhead ==
    ASSUME NEW N, NEW S, NEW R, NEW seq \in Seq(N)
    PROVE  Ahead(seq, R) => Ahead(Where(seq, S), R)
<1> DEFINE n == Len(seq)
<1>0. PICK D : AppendIfRun(N, seq, S, D) BY AppendIfSteps
<1>1. /\ D \in [0..n -> Seq(N)]
      /\ D[0] = <<>> /\ D[n] = Where(seq, S)
      /\ \A i \in 1..n : D[i] = AppendIf(D[i - 1], seq[i], S)
  BY <1>0 DEF AppendIfRun
<1>2. n \in Nat /\ \A i \in 1..n : seq[i] \in N OBVIOUS
<1> SUFFICES ASSUME Ahead(seq, R) PROVE Ahead(Where(seq, S), R) OBVIOUS
<1>3. \A i, j \in 1..n : seq[j].id \in R /\ seq[i].id \notin R => j < i
  BY DEF Ahead
<1> HIDE DEF n
<1> DEFINE X == {i \in 0..n : Filters(seq, i, D[i], R)}
<1>4. 0 \in X
  <2>1. 0 \in 0..n /\ Len(<<>>) = 0 BY <1>2
  <2>2. Filters(seq, 0, <<>>, R) BY <2>1 DEF Filters, Ahead
  <2> QED BY <1>1, <2>1, <2>2
<1>5. \A i \in 1..n : i - 1 \in X => i \in X
  <2> SUFFICES ASSUME NEW i \in 1..n, i - 1 \in X PROVE i \in X OBVIOUS
  <2> DEFINE t == D[i - 1]
             x == seq[i]
             m == Len(t)
  <2>1. i - 1 \in 0..n /\ i \in 0..n /\ i \in 1..i
        /\ (\A k \in 1..(i - 1) : k \in 1..i /\ k \in 1..n /\ ~(i < k))
    BY <1>2
  <2>2. Filters(seq, i - 1, t, R) OBVIOUS
  <2>3. D[i] = AppendIf(t, x, S) /\ t \in Seq(N) /\ x \in N BY <1>1, <1>2, <2>1
  <2>4. m \in Nat BY <2>3
  <2> HIDE DEF t
  <2>5. \A h \in 1..m : \E k \in 1..(i - 1) : t[h] = seq[k] BY <2>2 DEF Filters
  <2>6. CASE x \notin S
    <3>1. D[i] = t BY <2>3, <2>6 DEF AppendIf
    <3>2. Filters(seq, i, t, R) BY <2>1, <2>2, <2>5 DEF Filters
    <3> QED BY <2>1, <3>1, <3>2
  <2>7. CASE x \in S
    <3> DEFINE u == Append(t, x)
    <3>1. D[i] = u BY <2>3, <2>7 DEF AppendIf
    <3>2. /\ Len(u) = m + 1 /\ u[m + 1] = x
          /\ \A h \in 1..m : u[h] = t[h]
      BY <2>3
    <3> HIDE DEF u, m
    <3>3. \A h \in 1..(m + 1) : h \in 1..m \/ h = m + 1 BY <2>4
    <3>4. \A h \in 1..(m + 1) : \E k \in 1..i : u[h] = seq[k]
      BY <2>1, <2>5, <3>2, <3>3
    <3>5. ASSUME NEW h \in 1..(m + 1), NEW j \in 1..(m + 1),
                 u[j].id \in R, u[h].id \notin R
          PROVE  j < h
      <4>1. CASE h \in 1..m /\ j \in 1..m
        BY <2>2, <3>2, <3>5, <4>1 DEF Filters, Ahead, m
      <4>2. CASE h \in 1..m /\ j = m + 1
        <5>1. PICK k \in 1..(i - 1) : t[h] = seq[k] BY <2>5, <4>2
        <5>2. seq[k].id \notin R /\ x.id \in R BY <3>2, <3>5, <4>2, <5>1
        <5>3. i < k BY <1>3, <2>1, <5>2
        <5> QED BY <2>1, <5>3
      <4>3. CASE h = m + 1 /\ j \in 1..m BY <2>4, <4>3
      <4>4. CASE h = m + 1 /\ j = m + 1 BY <3>5, <4>4
      <4> QED BY <3>3, <4>1, <4>2, <4>3, <4>4
    <3>6. Ahead(u, R) BY <3>2, <3>5 DEF Ahead
    <3>7. Filters(seq, i, u, R) BY <3>2, <3>4, <3>6 DEF Filters
    <3> QED BY <2>1, <3>1, <3>7
  <2> QED BY <2>6, <2>7
<1> HIDE DEF X
<1>6. \A i \in 0..n : i \in X BY <1>2, <1>4, <1>5, StepByStep
<1>7. n \in X BY <1>2, <1>6
<1> QED BY <1>1, <1>7 DEF X, Filters

LEMMA LoweredAppend ==
    ASSUME NEW N, NEW t \in Seq(N), NEW x \in N
    PROVE  Lowered(Append(t, x)) = Lowered(t) \cup {x.id}
<1> DEFINE m == Len(t)
           u == Append(t, x)
<1>1. /\ m \in Nat /\ DOMAIN t = 1..m /\ DOMAIN u = 1..(m + 1)
      /\ u[m + 1] = x /\ \A i \in 1..m : u[i] = t[i]
  OBVIOUS
<1>2. /\ \A i \in 1..m : i \in 1..(m + 1)
      /\ \A i \in 1..(m + 1) : i \in 1..m \/ i = m + 1
      /\ m + 1 \in 1..(m + 1)
  BY <1>1
<1> HIDE DEF m, u
<1>3. Lowered(t) = {t[i].id : i \in 1..m} /\ Lowered(u) = {u[i].id : i \in 1..(m + 1)}
  BY <1>1 DEF Lowered, Lower
<1>4. \A y \in Lowered(u) : y \in Lowered(t) \/ y = x.id BY <1>1, <1>2, <1>3
<1>5. \A y \in Lowered(t) : y \in Lowered(u) BY <1>1, <1>2, <1>3
<1>6. x.id \in Lowered(u) BY <1>1, <1>2, <1>3
<1>7. Lowered(u) = Lowered(t) \cup {x.id} BY <1>4, <1>5, <1>6
<1> QED BY <1>7 DEF u

\* t is first with names that it lacks after it: their identities are ids.
Extended(first, ids, t) ==
    /\ Distinct(t) /\ Lowered(t) = Lowered(first) \cup ids
    /\ Len(first) <= Len(t)
    /\ \A k \in 1..Len(first) : t[k] = first[k]
    /\ \A k \in 1..Len(t) : k > Len(first) => t[k].id \notin Lowered(first)

(* One turn of the loop over SSH_EXTRA_USERS.                              *)
LEMMA OfferExtends ==
    ASSUME NEW N, NEW first \in Seq(N), NEW ids, NEW t \in Seq(N),
           Extended(first, ids, t), NEW x \in N
    PROVE  Extended(first, ids \cup {x.id}, Offer(t, x))
<1>1. CASE x.id \in Lowered(t)
  <2>1. Offer(t, x) = t BY <1>1 DEF Offer, Lower
  <2>2. Lowered(t) = Lowered(first) \cup (ids \cup {x.id}) BY <1>1 DEF Extended
  <2> QED BY <2>1, <2>2 DEF Extended
<1>2. CASE x.id \notin Lowered(t)
  <2> DEFINE u == Append(t, x)
             m == Len(t)
             f == Len(first)
  <2>1. Offer(t, x) = u BY <1>2 DEF Offer, Lower
  <2>2. /\ m \in Nat /\ f \in Nat /\ Len(u) = m + 1 /\ u[m + 1] = x
        /\ DOMAIN t = 1..m /\ \A i \in 1..m : u[i] = t[i]
    OBVIOUS
  <2>3. Lowered(u) = Lowered(t) \cup {x.id} BY LoweredAppend
  <2>4. f <= m /\ \A i \in 1..m : t[i].id \in Lowered(t)
    BY <2>2 DEF Extended, Lowered, Lower
  <2> HIDE DEF u, m
  <2>5. \A i \in 1..(m + 1) : i \in 1..m \/ i = m + 1 BY <2>2
  <2>6. ASSUME NEW i \in 1..(m + 1), NEW j \in 1..(m + 1), u[i].id = u[j].id
        PROVE  i = j
    <3>1. CASE i \in 1..m /\ j \in 1..m
      BY <2>2, <2>6, <3>1 DEF Extended, Distinct, m
    <3>2. CASE i \in 1..m /\ j = m + 1 BY <1>2, <2>2, <2>4, <2>6, <3>2
    <3>3. CASE i = m + 1 /\ j \in 1..m BY <1>2, <2>2, <2>4, <2>6, <3>3
    <3> QED BY <2>5, <3>1, <3>2, <3>3
  <2>7. Distinct(u) BY <2>2, <2>6 DEF Distinct
  <2>8. Lowered(u) = Lowered(first) \cup (ids \cup {x.id})
    BY <2>3 DEF Extended
  <2>9. \A k \in 1..f : u[k] = first[k]
    <3>1. \A k \in 1..f : k \in 1..m BY <2>2, <2>4
    <3> QED BY <2>2, <3>1 DEF Extended
  <2>10. \A k \in 1..(m + 1) : k > f => u[k].id \notin Lowered(first)
    <3>1. x.id \notin Lowered(first) BY <1>2 DEF Extended
    <3>2. \A k \in 1..m : k > f => t[k].id \notin Lowered(first)
      BY DEF Extended, m
    <3> QED BY <2>2, <2>5, <3>1, <3>2
  <2>11. f <= m + 1 BY <2>2, <2>4
  <2>12. Extended(first, ids \cup {x.id}, u)
    BY <2>2, <2>7, <2>8, <2>9, <2>10, <2>11 DEF Extended
  <2> QED BY <2>1, <2>12
<1> QED BY <1>1, <1>2

(* The loop over SSH_EXTRA_USERS adds what is missing, at the end.         *)
LEMMA OffersExtend ==
    ASSUME NEW N, NEW first \in Seq(N), Distinct(first), NEW extra \in Seq(N)
    PROVE  /\ FoldLeft(Offer, first, extra) \in Seq(N)
           /\ Extended(first, Lowered(extra), FoldLeft(Offer, first, extra))
<1> DEFINE n == Len(extra)
           Of(i) == {extra[h].id : h \in 1..i}
<1>0. PICK D : OfferRun(N, extra, first, D) BY OfferSteps
<1>1. /\ D \in [0..n -> Seq(N)]
      /\ D[0] = first /\ D[n] = FoldLeft(Offer, first, extra)
      /\ \A i \in 1..n : D[i] = Offer(D[i - 1], extra[i])
  BY <1>0 DEF OfferRun
<1>2. n \in Nat /\ DOMAIN extra = 1..n /\ \A i \in 1..n : extra[i] \in N OBVIOUS
<1> HIDE DEF n
<1> DEFINE X == {i \in 0..n : Extended(first, Of(i), D[i])}
<1>3. 0 \in X
  <2>1. Of(0) = {} /\ 0 \in 0..n
    <3>1. 1..0 = {} OBVIOUS
    <3> QED BY <1>2, <3>1
  <2>2. Len(first) \in Nat OBVIOUS
  <2>3. Extended(first, {}, first) BY <2>2 DEF Extended
  <2> QED BY <1>1, <2>1, <2>3
<1>4. \A i \in 1..n : i - 1 \in X => i \in X
  <2> SUFFICES ASSUME NEW i \in 1..n, i - 1 \in X PROVE i \in X OBVIOUS
  <2>1. /\ i - 1 \in 0..n /\ i \in 0..n /\ i \in 1..i
        /\ (\A h \in 1..i : h \in 1..(i - 1) \/ h = i)
        /\ (\A h \in 1..(i - 1) : h \in 1..i)
    BY <1>2
  <2>2. Of(i) = Of(i - 1) \cup {extra[i].id} BY <2>1
  <2>3. Extended(first, Of(i - 1), D[i - 1]) OBVIOUS
  <2> HIDE DEF Of, X
  <2>4. D[i - 1] \in Seq(N) /\ extra[i] \in N BY <1>1, <1>2, <2>1
  <2>5. Extended(first, Of(i - 1) \cup {extra[i].id}, Offer(D[i - 1], extra[i]))
    BY <2>3, <2>4, OfferExtends
  <2>6. Extended(first, Of(i), D[i]) BY <1>1, <2>2, <2>5
  <2> QED BY <2>1, <2>6 DEF X
<1> HIDE DEF X
<1>5. \A i \in 0..n : i \in X BY <1>2, <1>3, <1>4, StepByStep
<1>6. n \in X BY <1>2, <1>5
<1>7. Of(n) = Lowered(extra) BY <1>2 DEF Lowered, Lower
<1> HIDE DEF Of
<1>8. Extended(first, Lowered(extra), D[n]) BY <1>6, <1>7 DEF X
<1>9. D[n] \in Seq(N) BY <1>1, <1>2
<1> QED BY <1>1, <1>8, <1>9

LEMMA JoinedIs ==
    ASSUME NEW N, NEW a \in Seq(N), NEW c \in Seq(N)
    PROVE  /\ a \o c \in Seq(N) /\ Len(a \o c) = Len(a) + Len(c)
           /\ \A i \in 1..Len(a) : (a \o c)[i] = a[i]
           /\ \A i \in 1..Len(c) : (a \o c)[Len(a) + i] = c[i]
OBVIOUS

(* The administrators are among the accounts; each account stands once.    *)
AccountsOf(N, a) ==
    /\ a.users \in Seq(N) /\ Distinct(a.users)
    /\ a.admins \in Seq(N) /\ Distinct(a.admins)
    /\ Range(a.admins) \subseteq Range(a.users)

LEMMA WindowsAccountsAre ==
    ASSUME NEW N, NEW users \in Seq(N), Distinct(users), NEW admins, NEW skip
    PROVE  AccountsOf(N, WindowsAccounts([users |-> users, admins |-> admins], skip))
<1> DEFINE S == {u \in Range(users) : Lower(u) \notin skip}
           w == Where(users, S)
           A == {u \in Range(w) : Lower(u) \in Lowered(admins)}
           v == Where(w, A)
<1>1. WindowsAccounts([users |-> users, admins |-> admins], skip)
          = [users |-> w, admins |-> v]
  BY DEF WindowsAccounts
<1> HIDE DEF S
<1>2. w \in Seq(N) /\ Distinct(w) BY WhereNames
<1> HIDE DEF w, A
<1>3. v \in Seq(N) /\ Distinct(v) /\ Range(v) = Range(w) \cap A BY <1>2, WhereNames
<1> HIDE DEF v
<1> QED BY <1>1, <1>2, <1>3 DEF AccountsOf

\* The administrators in the order of their names, then everyone else.
OrderOf(N, a, t) ==
    /\ t \in Seq(N) /\ Distinct(t) /\ Range(t) = Range(a.users)
    /\ Ahead(t, Lowered(a.admins))

LEMMA AdministratorsAhead ==
    ASSUME NEW N, \A x \in N : x.id \in Int, NEW a, AccountsOf(N, a)
    PROVE  OrderOf(N, a, SortedNames(a.admins) \o
               SortedNames(Where(a.users, Range(a.users) \ Range(a.admins))))
<1> DEFINE U == Range(a.users)
           A == Range(a.admins)
           others == Where(a.users, U \ A)
           s == SortedNames(a.admins)
           t == SortedNames(others)
           R == Lowered(a.admins)
<1>1. /\ a.users \in Seq(N) /\ Distinct(a.users)
      /\ a.admins \in Seq(N) /\ Distinct(a.admins) /\ A \subseteq U
  BY DEF AccountsOf
<1>2. U = {a.users[i] : i \in 1..Len(a.users)} /\ U \subseteq N
  BY <1>1, RangeIs
<1>3. R = {x.id : x \in A} BY <1>1, RangeIs
<1>4. \A x, y \in U : x.id = y.id => x = y
  <2> SUFFICES ASSUME NEW i \in 1..Len(a.users), NEW j \in 1..Len(a.users),
                      a.users[i].id = a.users[j].id
               PROVE  a.users[i] = a.users[j]
    BY <1>2
  <2> QED BY <1>1 DEF Distinct
<1> HIDE DEF U, A, R
<1>5. others \in Seq(N) /\ Distinct(others) /\ Range(others) = U \ A
  <2>1. /\ others \in Seq(N) /\ Range(others) = Range(a.users) \cap (U \ A)
        /\ Distinct(others)
    BY <1>1, WhereNames
  <2> QED BY <2>1 DEF U
<1> HIDE DEF others
<1>6. s \in Seq(N) /\ Distinct(s) /\ Range(s) = A
  BY <1>1, SortedNamesAre DEF A
<1>7. t \in Seq(N) /\ Distinct(t) /\ Range(t) = U \ A
  BY <1>5, SortedNamesAre
<1> HIDE DEF s, t
<1>8. \A x \in Range(s), y \in Range(t) : x.id # y.id BY <1>1, <1>4, <1>6, <1>7
<1>9. /\ s \o t \in Seq(N) /\ Distinct(s \o t)
      /\ Range(s \o t) = Range(s) \cup Range(t)
  BY <1>6, <1>7, <1>8, JoinedNames
<1>10. Range(s) \cup Range(t) = U BY <1>1, <1>6, <1>7
<1>11. /\ \A x \in Range(s) : x.id \in R
       /\ \A y \in Range(t) : y.id \notin R
  BY <1>1, <1>3, <1>4, <1>6, <1>7
<1>12. Ahead(s \o t, R) BY <1>6, <1>7, <1>11, JoinedAhead
<1>13. OrderOf(N, a, s \o t) BY <1>9, <1>10, <1>12 DEF OrderOf, U, R
<1> QED BY <1>13 DEF s, t, others, U, A

\* SSH_USER, if there is one, and then the others in their order.
FirstOf(N, a, configured, first) ==
    /\ first \in Seq(N) /\ Distinct(first)
    /\ Lowered(first) = Lowered(a.users) \cup Lowered(configured)
    /\ Len(configured) <= Len(first)
    /\ configured # <<>> => first[1] = configured[1]
    /\ \A i, j \in 1..Len(first) :
           /\ i > Len(configured) /\ j > Len(configured)
           /\ first[j].id \in Lowered(a.admins) /\ first[i].id \notin Lowered(a.admins)
           => j < i

LEMMA ConfiguredFirst ==
    ASSUME NEW N, NEW a, AccountsOf(N, a), NEW t, OrderOf(N, a, t),
           NEW configured \in Seq(N), Len(configured) <= 1
    PROVE  FirstOf(N, a, configured,
               IF configured = <<>> THEN t
               ELSE configured \o WithoutConfigured(t, Head(configured)))
<1> DEFINE R == Lowered(a.admins)
           U == Range(a.users)
<1>1. t \in Seq(N) /\ Distinct(t) /\ Range(t) = U /\ Ahead(t, R) BY DEF OrderOf
<1>2. a.users \in Seq(N) BY DEF AccountsOf
<1>3. Lowered(a.users) = {x.id : x \in U} /\ U \subseteq N BY <1>2, RangeIs
<1>4. Lowered(t) = {x.id : x \in U} BY <1>1, RangeIs
<1> HIDE DEF R, U
<1>5. CASE configured = <<>>
  <2>1. Lowered(configured) = {} BY <1>5 DEF Lowered
  <2>2. Len(configured) = 0 /\ Len(t) \in Nat BY <1>1, <1>5
  <2>3. FirstOf(N, a, configured, t)
    BY <1>1, <1>3, <1>4, <1>5, <2>1, <2>2 DEF FirstOf, Ahead, R
  <2> QED BY <1>5, <2>3
<1>6. CASE configured # <<>>
  <2> DEFINE c == configured[1]
             S == {u \in Range(t) : Lower(u) # Lower(c)}
             w == Where(t, S)
             first == configured \o w
             n == Len(w)
  <2>15. Len(configured) = 1
    <3>1. Len(configured) \in Nat OBVIOUS
    <3>2. Len(configured) = 0 => configured = <<>> OBVIOUS
    <3> QED BY <1>6, <3>1, <3>2
  <2>1. Len(configured) = 1 /\ c \in N /\ Head(configured) = c
        /\ DOMAIN configured = 1..1
    BY <1>6, <2>15
  <2>2. WithoutConfigured(t, Head(configured)) = w
    BY <2>1 DEF WithoutConfigured
  <2>3. w \in Seq(N) /\ Distinct(w) /\ Range(w) = Range(t) \cap S
    BY <1>1, WhereNames
  <2>4. Ahead(w, R) BY <1>1, WhereAhead
  <2>5. \A x : x \in Range(w) <=> x \in U /\ x.id # c.id
    <3>1. S = {x \in U : x.id # c.id} BY <1>1 DEF Lower
    <3> HIDE DEF S, c
    <3>2. Range(w) = U \cap S BY <1>1, <2>3
    <3> HIDE DEF w
    <3>3. \A x : x \in S <=> x \in U /\ x.id # c.id BY <3>1
    <3> QED BY <3>2, <3>3
  <2> HIDE DEF w
  <2>6. Range(w) = {w[i] : i \in 1..n} /\ n \in Nat BY <2>3, RangeIs
  <2> HIDE DEF n
  <2>7. Range(configured) = {c} BY <2>1 DEF Range
  <2>8. Distinct(configured) BY <2>1 DEF Distinct
  <2>9. \A x \in Range(configured), y \in Range(w) : x.id # y.id BY <2>5, <2>7
  <2>10. /\ first \in Seq(N) /\ Distinct(first)
         /\ Range(first) = Range(configured) \cup Range(w)
    BY <2>3, <2>8, <2>9, JoinedNames
  <2>11. /\ Len(first) = 1 + n /\ first[1] = c
         /\ \A i \in 1..(1 + n) : i > 1 => i - 1 \in 1..n /\ first[i] = w[i - 1]
    <3> DEFINE m == Len(configured)
    <3>1. /\ Len(first) = m + n
          /\ \A i \in 1..m : first[i] = configured[i]
          /\ \A i \in 1..n : first[m + i] = w[i]
      BY <2>3, JoinedIs DEF n
    <3>2. m = 1 BY <2>1
    <3> HIDE DEF first, m
    <3>3. Len(first) = 1 + n /\ first[1] = c BY <3>1, <3>2
    <3>4. ASSUME NEW i \in 1..(1 + n), i > 1
          PROVE  i - 1 \in 1..n /\ first[i] = w[i - 1]
      <4>1. i - 1 \in 1..n /\ 1 + (i - 1) = i BY <2>6, <3>4
      <4>2. first[1 + (i - 1)] = w[i - 1] BY <3>1, <3>2, <4>1
      <4> QED BY <4>1, <4>2
    <3> QED BY <3>3, <3>4
  <2> HIDE DEF first
  <2>12. Lowered(first) = Lowered(a.users) \cup Lowered(configured)
    <3>1. Lowered(first) = {x.id : x \in Range(first)} BY <2>10, RangeIs
    <3>2. Lowered(configured) = {x.id : x \in Range(configured)} BY RangeIs
    <3> QED BY <1>3, <2>5, <2>7, <2>10, <3>1, <3>2
  <2>13. \A i, j \in 1..(1 + n) :
             i > 1 /\ j > 1 /\ first[j].id \in R /\ first[i].id \notin R => j < i
    <3> SUFFICES ASSUME NEW i \in 1..(1 + n), NEW j \in 1..(1 + n), i > 1, j > 1,
                        first[j].id \in R, first[i].id \notin R
                 PROVE  j < i
      OBVIOUS
    <3>1. /\ i - 1 \in 1..n /\ j - 1 \in 1..n
          /\ first[i] = w[i - 1] /\ first[j] = w[j - 1]
      BY <2>11
    <3>2. j - 1 < i - 1 BY <2>4, <3>1 DEF Ahead, n
    <3> QED BY <2>6, <3>2
  <2>14. FirstOf(N, a, configured, first)
    BY <2>1, <2>6, <2>10, <2>11, <2>12, <2>13 DEF FirstOf, R
  <2> QED BY <1>6, <2>2, <2>14 DEF first
<1> QED BY <1>5, <1>6

\* NamesOnce, for the accounts of a machine.
NamesShown(accounts, configured, extra, offered) ==
    LET Admin(n) == Lower(n) \in Lowered(accounts.admins)
    IN  /\ \A i, j \in DOMAIN offered : offered[i].id = offered[j].id => i = j
        /\ Lowered(offered) =
               Lowered(accounts.users) \cup Lowered(configured) \cup Lowered(extra)
        /\ configured # <<>> => Head(offered) = Head(configured)
        /\ \A i, j \in (1 + Len(configured))..Len(offered) :
               Admin(offered[j]) /\ ~Admin(offered[i]) => j < i

LEMMA AccountsShown ==
    ASSUME NEW N, \A x \in N : x.id \in Int, NEW a, AccountsOf(N, a),
           NEW configured \in Seq(N), Len(configured) <= 1, NEW extra \in Seq(N)
    PROVE  NamesShown(a, configured, extra, WindowsUsers(a, configured, extra))
<1> DEFINE others == Where(a.users, Range(a.users) \ Range(a.admins))
           t == SortedNames(a.admins) \o SortedNames(others)
           first == IF configured = <<>> THEN t
                    ELSE configured \o WithoutConfigured(t, Head(configured))
           offered == FoldLeft(Offer, first, extra)
           R == Lowered(a.admins)
           m == Len(configured)
           f == Len(first)
           n == Len(offered)
<1>1. WindowsUsers(a, configured, extra) = offered BY DEF WindowsUsers
<1>2. OrderOf(N, a, t) BY AdministratorsAhead
<1> HIDE DEF t
<1>3. FirstOf(N, a, configured, first) BY <1>2, ConfiguredFirst
<1> HIDE DEF first
<1>4. first \in Seq(N) /\ Distinct(first) BY <1>3 DEF FirstOf
<1>5. offered \in Seq(N) /\ Extended(first, Lowered(extra), offered)
  BY <1>4, OffersExtend
<1> HIDE DEF offered
<1>6. /\ m \in Nat /\ f \in Nat /\ n \in Nat
      /\ DOMAIN offered = 1..n /\ DOMAIN first = 1..f
  BY <1>4, <1>5
<1>7. \A i, j \in DOMAIN offered : offered[i].id = offered[j].id => i = j
  BY <1>5, <1>6 DEF Extended, Distinct
<1>8. Lowered(offered) =
          Lowered(a.users) \cup Lowered(configured) \cup Lowered(extra)
  BY <1>3, <1>5 DEF Extended, FirstOf
<1>9. /\ m <= f /\ f <= n
      /\ configured # <<>> => first[1] = configured[1]
      /\ \A k \in 1..f : offered[k] = first[k]
      /\ \A k \in 1..n : k > f => offered[k].id \notin Lowered(first)
  BY <1>3, <1>5 DEF Extended, FirstOf
<1>10. \A i, j \in 1..f : i > m /\ j > m /\ first[j].id \in R /\ first[i].id \notin R
           => j < i
  BY <1>3 DEF FirstOf
<1>11. R \subseteq Lowered(first)
  <2>1. /\ a.admins \in Seq(N) /\ a.users \in Seq(N)
        /\ Range(a.admins) \subseteq Range(a.users)
    BY DEF AccountsOf
  <2>2. /\ R = {x.id : x \in Range(a.admins)}
        /\ Lowered(a.users) = {x.id : x \in Range(a.users)}
    BY <2>1, RangeIs
  <2>3. R \subseteq Lowered(a.users) BY <2>1, <2>2
  <2>4. Lowered(a.users) \subseteq Lowered(first) BY <1>3 DEF FirstOf
  <2> QED BY <2>3, <2>4
<1>12. configured # <<>> => Head(offered) = Head(configured)
  <2> SUFFICES ASSUME configured # <<>> PROVE Head(offered) = Head(configured)
    OBVIOUS
  <2>1. Len(configured) # 0
    <3>1. Len(configured) = 0 => configured = <<>> OBVIOUS
    <3> QED BY <3>1
  <2>2. 1 \in 1..f BY <1>6, <1>9, <2>1
  <2>3. offered[1] = configured[1] BY <1>9, <2>2
  <2>4. Head(offered) = offered[1] /\ Head(configured) = configured[1]
    OBVIOUS
  <2> QED BY <2>3, <2>4
<1> HIDE DEF R, m, f, n
<1>13. ASSUME NEW i \in (1 + m)..n, NEW j \in (1 + m)..n,
              offered[j].id \in R, offered[i].id \notin R
       PROVE  j < i
  <2>1. /\ i \in 1..n /\ j \in 1..n /\ i > m /\ j > m
        /\ j <= f => j \in 1..f
        /\ i <= f => i \in 1..f
    BY <1>6, <1>13
  <2>2. j \in 1..f
    <3>1. ~(j > f) BY <1>9, <1>11, <1>13, <2>1
    <3> QED BY <1>6, <2>1, <3>1
  <2>3. CASE i \in 1..f
    <3>1. offered[i] = first[i] /\ offered[j] = first[j] BY <1>9, <2>2, <2>3
    <3> QED BY <1>10, <1>13, <2>1, <2>2, <2>3, <3>1
  <2>4. CASE i \notin 1..f BY <1>6, <2>1, <2>2, <2>4
  <2> QED BY <2>3, <2>4
<1>14. NamesShown(a, configured, extra, offered)
  BY <1>7, <1>8, <1>12, <1>13 DEF NamesShown, Lower, R, m, n
<1> QED BY <1>1, <1>14

(* For accounts of any number, each of which the system has once, each     *)
(* name is offered once and none is left out; SSH_USER is first, and       *)
(* administrators are before others (users.py:28-67).                      *)
THEOREM NamesOfAnyAccounts ==
    ASSUME NEW N, \A x \in N : x.id \in Int, NEW users \in Seq(N),
           \A i, j \in 1..Len(users) : users[i].id = users[j].id => i = j,
           NEW admins, NEW skip, NEW configured \in Seq(N), Len(configured) <= 1,
           NEW extra \in Seq(N)
    PROVE  LET a == WindowsAccounts([users |-> users, admins |-> admins], skip)
           IN  NamesShown(a, configured, extra, WindowsUsers(a, configured, extra))
<1> DEFINE a == WindowsAccounts([users |-> users, admins |-> admins], skip)
<1>1. Distinct(users) BY DEF Distinct
<1>2. AccountsOf(N, a) BY <1>1, WindowsAccountsAre
<1> HIDE DEF a
<1>3. NamesShown(a, configured, extra, WindowsUsers(a, configured, extra))
  BY <1>2, AccountsShown
<1> QED BY <1>3 DEF a

-----------------------------------------------------------------------------
(* The runs' inputs are of these kinds.                                    *)

\* What an input of each kind is made of.
OfKind(i) ==
    /\ i[1] = "disks" => i[2] \in Seq(Partition)
    /\ i[1] = "names" =>
           /\ i[2] \in Seq(Name) /\ i[4] \in Seq(Name) /\ i[5] \in Seq(Name)
           /\ Len(i[4]) <= 1
           /\ \A j, k \in 1..Len(i[2]) : i[2][j].id = i[2][k].id => j = k
    /\ i[1] = "cpu" =>
           i[2] \in [windows : BOOLEAN, cpu : Nat, precpu : Nat,
                     system : Nat, presystem : Nat, processors : Nat]
    /\ i[1] \in {"memory", "rapl"} => i[2] \in Nat /\ i[3] \in Nat /\ i[4] \in Nat
    /\ i[1] = "psu" => i[2] \in Nat
    /\ i[1] = "smc" =>
           /\ i[3] \in SUBSET {"ac", "system", "soc"}
           /\ \E a, s, c \in Nat : i[2] = [ac |-> a, system |-> s, soc |-> c]

LEMMA UptoIs ==
    ASSUME NEW n \in Nat, NEW S, NEW s \in Upto(n, S)
    PROVE  s \in Seq(S) /\ Len(s) <= n /\ DOMAIN s = 1..Len(s)
<1>1. PICK k \in 0..n : s \in [1..k -> S] BY DEF Upto
<1>2. k \in Nat /\ k <= n BY <1>1
<1>3. s \in Seq(S) /\ Len(s) = k BY <1>1, <1>2
<1> QED BY <1>2, <1>3

LEMMA InputsAreOfKind == ASSUME NEW i \in Inputs PROVE OfKind(i)
<1>1. MaxCount \in Nat /\ MaxRange \in Nat
  BY ReadingsAssumption DEF ReadingsAssumption
<1>2. CASE i \in Tables
  <2>1. PICK t \in MountTables : i = <<"disks", t>> BY <1>2 DEF Tables
  <2>2. t \in Upto(MaxParts, Partition) /\ MaxParts \in Nat
    BY ReadingsAssumption DEF ReadingsAssumption, MountTables
  <2>3. t \in Seq(Partition) BY <2>2, UptoIs
  <2>4. i[1] = "disks" /\ i[2] = t BY <2>1
  <2> QED BY <2>3, <2>4 DEF OfKind
<1>3. CASE i \in Logs
  <2>1. PICK j \in BOOLEAN, l \in Upto(MaxLines + 1, LogLine) : i = <<"log", j, l>>
    BY <1>3 DEF Logs
  <2> QED BY <2>1 DEF OfKind
<1>4. CASE i \in Names
  <2>1. PICK u \in AccountLists, a \in Upto(1, Name), c \in Upto(1, Name),
             e \in Upto(1, Name) : i = <<"names", u, a, c, e>>
    BY <1>4 DEF Names
  <2>2. u \in Upto(2, Name) /\ \A j, k \in DOMAIN u : u[j].id = u[k].id => j = k
    BY DEF AccountLists
  <2>3. u \in Seq(Name) /\ DOMAIN u = 1..Len(u) BY <2>2, UptoIs
  <2>4. c \in Seq(Name) /\ Len(c) <= 1 /\ e \in Seq(Name) BY UptoIs
  <2>5. i[1] = "names" /\ i[2] = u /\ i[4] = c /\ i[5] = e BY <2>1
  <2> QED BY <2>2, <2>3, <2>4, <2>5 DEF OfKind
<1>5. CASE i \in Samples
  <2>1. PICK s \in [windows : BOOLEAN, cpu : 0..MaxCount, precpu : 0..MaxCount,
                    system : 0..MaxCount, presystem : 0..MaxCount,
                    processors : 0..2] : i = <<"cpu", s>>
    BY <1>5 DEF Samples
  <2> QED BY <1>1, <2>1 DEF OfKind
<1>6. CASE i \in Usages
  <2>1. PICK u \in 0..MaxCount, c \in 0..MaxCount, m \in 0..MaxCount :
            i = <<"memory", u, c, m>>
    BY <1>6 DEF Usages
  <2> QED BY <1>1, <2>1 DEF OfKind
<1>7. CASE i \in Counters
  <2>1. PICK m \in 1..MaxRange, l \in 0..MaxRange, e \in 0..MaxRange :
            i = <<"rapl", m, l, e>>
    BY <1>7 DEF Counters
  <2> QED BY <1>1, <2>1 DEF OfKind
<1>8. CASE i \in Loads
  <2>1. PICK d \in 0..140 : i = <<"psu", 500 * d>> BY <1>8 DEF Loads
  <2> QED BY <2>1 DEF OfKind
<1>9. CASE i \in Feeds
  <2>1. PICK p \in Powers, ls \in SUBSET {"ac", "system", "soc"} :
            i = <<"smc", p, ls>>
    BY <1>9 DEF Feeds
  <2>2. p = [ac |-> p.ac, system |-> p.system, soc |-> p.soc] BY DEF Powers
  <2>3. p.ac \in Nat /\ p.system \in Nat /\ p.soc \in Nat BY DEF Powers
  <2>4. i[1] = "smc" /\ i[2] = p /\ i[3] = ls BY <2>1
  <2> QED BY <2>2, <2>3, <2>4 DEF OfKind
<1> QED
  BY <1>2, <1>3, <1>4, <1>5, <1>6, <1>7, <1>8, <1>9 DEF Inputs

LEMMA Given == Spec => []OfKind(input)
<1>1. Spec => [](input \in Inputs)
  <2>1. Init => input \in Inputs BY DEF Init
  <2>2. input \in Inputs /\ [Next]_input => (input \in Inputs)' BY DEF Next
  <2> QED BY <2>1, <2>2, PTL DEF Spec
<1>2. input \in Inputs => OfKind(input) BY InputsAreOfKind
<1> QED BY <1>1, <1>2, PTL

(* The energy between two samples is what was used, or one unit less when  *)
(* the counter wrapped in between (pve_power.py:121-122), whatever the     *)
(* counter's range.                                                        *)
THEOREM UsedIsCounted == Spec => []EnergyIsUsed
<1>1. OfKind(input) => EnergyIsUsed
  <2> SUFFICES ASSUME OfKind(input), input[1] = "rapl", input[4] <= input[2]
               PROVE  LET max == input[2]
                          used == input[4]
                          energy == Energy(Counter(input[3], max),
                                           Counter(input[3] + used, max), max)
                      IN  energy = used \/ (energy = used - 1 /\ used > 0)
    BY DEF EnergyIsUsed
  <2>1. input[2] \in Nat /\ input[3] \in Nat /\ input[4] \in 0..input[2]
    BY DEF OfKind
  <2> QED BY <2>1, EnergyOfAnyCounter
<1> QED BY <1>1, Given, PTL

(* A share of the processors or of the memory is none, or lies between 0   *)
(* and the whole, whatever the counters are                                *)
(* (docker_containers.py:23-60).                                           *)
THEOREM SharesAreWithin == Spec => []SharesAreShares
<1>1. OfKind(input) => SharesAreShares
  <2> SUFFICES ASSUME OfKind(input) PROVE SharesAreShares OBVIOUS
  <2>1. ASSUME input[1] = "cpu"
        PROVE  LET s == input[2]
                   n == IF s.processors = 0 THEN 1 ELSE s.processors
                   passed == s.system - s.presystem
                   whole == IF s.windows THEN passed * n ELSE passed
                   all == IF s.windows THEN 1000 ELSE 1000 * n
               IN  \A share \in CpuPercent(s) :
                       share >= 0 /\ (s.cpu - s.precpu <= whole => share <= all)
    <3>1. input[2] \in [windows : BOOLEAN, cpu : Nat, precpu : Nat,
                        system : Nat, presystem : Nat, processors : Nat]
      BY <2>1 DEF OfKind
    <3> DEFINE s == input[2]
               n == IF s.processors = 0 THEN 1 ELSE s.processors
               passed == s.system - s.presystem
               whole == IF s.windows THEN passed * n ELSE passed
               all == IF s.windows THEN 1000 ELSE 1000 * n
    <3> SUFFICES ASSUME NEW share \in CpuPercent(s)
                 PROVE  share >= 0 /\ (s.cpu - s.precpu <= whole => share <= all)
      OBVIOUS
    <3>2. share \in Nat /\ (s.cpu - s.precpu <= whole => share <= all)
      BY <3>1, ShareOfAnyProcessors
    <3> HIDE DEF s, n, passed, whole, all
    <3> QED BY <3>2
  <2>2. ASSUME input[1] = "memory"
        PROVE  \A share \in MemPercent(input[2], input[3], input[4]) :
                   share >= 0 /\ (input[2] <= input[4] => share <= 1000)
    <3>1. input[2] \in Nat /\ input[3] \in Nat /\ input[4] \in Nat
      BY <2>2 DEF OfKind
    <3> SUFFICES ASSUME NEW share \in MemPercent(input[2], input[3], input[4])
                 PROVE  share >= 0 /\ (input[2] <= input[4] => share <= 1000)
      OBVIOUS
    <3>2. share \in Nat /\ (input[2] <= input[4] => share <= 1000)
      BY <3>1, ShareOfAnyMemory
    <3> QED BY <3>2
  <2> QED BY <2>1, <2>2 DEF SharesAreShares
<1> QED BY <1>1, Given, PTL

(* A power supply takes more than it gives, and more for more; on a Mac    *)
(* the components add up to the power at the wall, and none is negative,   *)
(* whatever the sensors read (pve_power.py:241-251, 392-407).              *)
THEOREM BreakdownsAddUp == Spec => []BreakdownAddsUp
<1>1. OfKind(input) => BreakdownAddsUp
  <2> SUFFICES ASSUME OfKind(input) PROVE BreakdownAddsUp OBVIOUS
  <2>1. ASSUME input[1] = "psu"
        PROVE  /\ PsuAC(input[2]) > input[2]
               /\ PsuAC(input[2] + 500) - 500 >= PsuAC(input[2])
    <3> DEFINE dc == input[2]
    <3>1. dc \in Nat BY <2>1 DEF OfKind
    <3> HIDE DEF dc
    <3>2. dc + 500 \in Nat /\ dc <= dc + 500 BY <3>1
    <3>3. PsuAC(dc) > dc /\ PsuAC(dc + 500) - (dc + 500) >= PsuAC(dc) - dc
      BY <3>1, <3>2, SupplyOfAnyLoad
    <3>4. PsuAC(dc) \in Nat /\ PsuAC(dc + 500) \in Nat BY <3>1, <3>2, WasteIs
    <3>5. PsuAC(dc + 500) - 500 >= PsuAC(dc) BY <3>1, <3>3, <3>4
    <3> QED BY <3>3, <3>5 DEF dc
  <2>2. ASSUME input[1] = "smc"
        PROVE  LET w == Sensors(input[2], input[3])
                   r == SmcReading(w)
                   sum == r.soc + r.rest + r.battery + r.charger
               IN  /\ \A part \in {r.soc, r.rest, r.battery, r.charger} : part >= 0
                   /\ w.soc <= w.system /\ w.system <= w.ac =>
                          sum \in (r.wall - Skew)..r.wall
    <3> DEFINE w == Sensors(input[2], input[3])
    <3>0. PICK a0 \in Nat, s0 \in Nat, c0 \in Nat :
              input[2] = [ac |-> a0, system |-> s0, soc |-> c0]
      BY <2>2 DEF OfKind
    <3>1. PICK a \in {a0, 0}, s \in {s0, 0}, c \in {c0, 0} :
              w = [ac |-> a, system |-> s, soc |-> c]
      BY <3>0 DEF Sensors
    <3> HIDE DEF w
    <3>2. w.ac = a /\ w.system = s /\ w.soc = c BY <3>1
    <3>3. LET r == SmcReading(w)
              sum == r.soc + r.rest + r.battery + r.charger
          IN  /\ \A part \in {r.soc, r.rest, r.battery, r.charger} : part >= 0
              /\ c <= s /\ s <= a => sum \in (r.wall - Skew)..r.wall
      BY <3>1, BreakdownOfAnySensors
    <3> QED BY <3>2, <3>3 DEF w
  <2> QED BY <2>1, <2>2 DEF BreakdownAddsUp
<1> QED BY <1>1, Given, PTL

(* Each device with a drive that answers is shown, once, under the first   *)
(* of its mount points that answers, and the system drive is first         *)
(* (system.py:83-115), however long the mount table is.                    *)
THEOREM DrivesAreShown == Spec => []DisksOnce
<1>1. OfKind(input) => DisksOnce
  <2> SUFFICES ASSUME OfKind(input), input[1] = "disks" PROVE DisksOnce
    BY DEF DisksOnce
  <2>1. input[2] \in Seq(Partition) BY DEF OfKind
  <2>2. \A p \in Partition : p.mount \in Nat BY DEF Partition
  <2>3. DrivesShown(input[2], Disks(input[2])) BY <2>1, <2>2, DrivesOfAnyTable
  <2> QED BY <2>3, Zenon DEF DrivesShown, DisksOnce
<1> QED BY <1>1, Given, PTL

(* Nobody is offered twice and nobody is left out; SSH_USER is first, and  *)
(* administrators come before others (users.py:16-67), however many        *)
(* accounts there are.                                                     *)
THEOREM NamesAreShown == Spec => []NamesOnce
<1>1. OfKind(input) => NamesOnce
  <2> SUFFICES ASSUME OfKind(input), input[1] = "names" PROVE NamesOnce
    BY DEF NamesOnce
  <2> DEFINE a == WindowsAccounts([users |-> input[2], admins |-> input[3]], {3})
  <2>1. /\ input[2] \in Seq(Name) /\ input[4] \in Seq(Name) /\ input[5] \in Seq(Name)
        /\ Len(input[4]) <= 1
        /\ \A j, k \in 1..Len(input[2]) :
               input[2][j].id = input[2][k].id => j = k
    BY DEF OfKind
  <2>2. \A x \in Name : x.id \in Int BY DEF Name
  <2>3. NamesShown(a, input[4], input[5], WindowsUsers(a, input[4], input[5]))
    BY <2>1, <2>2, NamesOfAnyAccounts
  <2> QED BY <2>3, Zenon DEF NamesShown, NamesOnce
<1> QED BY <1>1, Given, PTL
=============================================================================
