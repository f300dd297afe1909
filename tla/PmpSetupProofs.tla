--------------------------- MODULE PmpSetupProofs ---------------------------
(***************************************************************************)
(* What the PMP denies once pmp_isolate_secret() has run, proved for every *)
(* width of an address, every granule of the PMP, every size of g_prot and *)
(* every place of it.                                                      *)
(***************************************************************************)
EXTENDS PmpSetup, TLAPS, WellFoundedInduction

On == [i \in 0..1 |-> [napot |-> TRUE, rwx |-> i = 1]]

SetupInv ==
    /\ pc \in {"ADDR0", "ADDR1", "CFG0", "CFGM0", "DONE", "RESTRICTED", "LIFTED"}
    /\ size \in Sizes /\ G_PROT \in Address /\ G_PROT % size = 0
    /\ pmpaddr \in [0..1 -> Int]
    /\ pc # "ADDR0" => pmpaddr[0] = pmp_napot(G_PROT, size)
    /\ pc \notin {"ADDR0", "ADDR1"} => pmpaddr[1] = Ones
    /\ pmpcfg0 = (IF pc \in {"ADDR0", "ADDR1", "CFG0"} THEN [i \in 0..1 |-> Off] ELSE On)
    /\ PMPCFGM0 = (IF pc = "RESTRICTED" THEN {0} ELSE {})

-----------------------------------------------------------------------------
(* The encoding *)

LEMMA PowerFacts ==
    /\ SPACE \in Nat \ {0} /\ SPACE \in Powers
    /\ \A p \in Powers : p \in Nat \ {0} /\ p <= SPACE
  BY SetupAssumption

LEMMA Divides ==
    ASSUME NEW a \in Nat, NEW d \in Nat \ {0}, a % d = 0
    PROVE  \E j \in Nat : a = d * j
  BY a \div d \in Nat, a = d * (a \div d)

LEMMA HalfOff ==
    ASSUME NEW m \in Nat \ {0}, NEW a \in Int, NEW b \in Int
    PROVE  2 * m * a # 2 * m * b + m
  <1> SUFFICES ASSUME 2 * m * a = 2 * m * b + m PROVE FALSE
    OBVIOUS
  <1> DEFINE d == a - b
  <1>1. m * (2 * d) = m /\ d \in Int
    OBVIOUS
  <1>2. CASE d <= 0
    <2>1. m * (2 * d) <= 0
      BY <1>1, <1>2
    <2> QED
      BY <1>1, <2>1
  <1>3. CASE d >= 1
    <2>1. m * (2 * d) >= 2 * m
      BY <1>1, <1>3
    <2> QED
      BY <1>1, <2>1
  <1> QED
    BY <1>1, <1>2, <1>3

(* The row of ones below an even place is as long as it was made.           *)
LEMMA RowOfOnes ==
    ASSUME NEW m \in Powers, NEW q \in Nat
    PROVE  OnesOf(2 * m * q + (m - 1)) = m
  <1> DEFINE y == 2 * m * q + (m - 1)
             S == {p \in Powers : y % p = p - 1}
  <1>1. m \in Nat \ {0} /\ y \in Nat
    BY PowerFacts
  <1>2. m \in S
    BY <1>1
  <1>3. ASSUME NEW p \in S PROVE p <= m
    <2>1. p \in Powers /\ p \in Nat \ {0} /\ y % p = p - 1
      BY PowerFacts
    <2> SUFFICES ASSUME m < p PROVE FALSE
      BY <1>1, <2>1
    <2>2. p % (2 * m) = 0
      BY <2>1, SetupAssumption
    <2>3. PICK j \in Nat : p = (2 * m) * j
      <3>1. 2 * m \in Nat \ {0}
        BY <1>1
      <3> QED
        BY <2>1, <2>2, <3>1, Divides
    <2>4. PICK k \in Int : y = p * k + (p - 1)
      BY <1>1, <2>1
    <2>5. y + 1 = p * (k + 1) /\ y + 1 = 2 * m * q + m
      BY <1>1, <2>1, <2>4
    <2>6. p * (k + 1) = 2 * m * (j * (k + 1))
      BY <1>1, <2>3
    <2>7. 2 * m * (j * (k + 1)) = 2 * m * q + m /\ j * (k + 1) \in Int
      BY <2>5, <2>6
    <2> QED
      BY <1>1, <2>7, HalfOff
  <1> HIDE DEF S
  <1>4. \A x \in S : x \in Int
    BY PowerFacts DEF S
  <1>5. \A x \in S : (\A z \in S : x >= z) => x = m
    BY <1>1, <1>2, <1>3, <1>4
  <1>6. \A z \in S : m >= z
    BY <1>1, <1>3, <1>4
  <1>7. Max(S) = m
    BY <1>2, <1>5, <1>6 DEF Max
  <1> QED
    BY <1>7 DEF OnesOf, S

(* Of two powers the lesser divides the greater, in words as well.          *)
LEMMA Multiple ==
    ASSUME NEW p \in Powers, NEW q \in Powers, p <= q
    PROVE  \E j \in Nat \ {0} : q = p * j
  <1>1. p \in Nat \ {0} /\ q \in Nat \ {0}
    BY PowerFacts
  <1>2. CASE p = q
    <2>1. q = p * 1
      BY <1>1, <1>2
    <2> QED
      BY <2>1
  <1>3. CASE p < q
    <2>1. q % (2 * p) = 0 /\ 2 * p \in Nat \ {0}
      BY <1>1, <1>3, SetupAssumption
    <2>2. PICK k \in Nat : q = (2 * p) * k
      BY <1>1, <2>1, Divides
    <2>3. q = p * (2 * k) /\ 2 * k \in Nat
      BY <1>1, <2>2
    <2>4. 2 * k # 0
      BY <1>1, <2>3
    <2> QED
      BY <2>3, <2>4
  <1> QED
    BY <1>1, <1>2, <1>3

(* A block, its words, and the words of the whole map.                      *)
LEMMA BlockFacts ==
    ASSUME NEW b \in Blocks
    PROVE  \E m \in Powers : /\ b = 8 * m /\ b \div 8 = m
                             /\ \E j \in Nat \ {0} : SPACE \div 4 = 4 * m * j /\ SPACE = 16 * m * j
  <1>1. PICK m \in Powers : b = 8 * m
    BY DEF Blocks
  <1>2. m \in Nat \ {0} /\ b \in Powers /\ b < SPACE /\ SPACE \in Nat \ {0}
    BY PowerFacts DEF Blocks, Address
  <1>3. SPACE % (2 * b) = 0 /\ 2 * b \in Nat \ {0}
    BY <1>1, <1>2, PowerFacts, SetupAssumption
  <1>4. PICK j \in Nat : SPACE = (2 * b) * j
    BY <1>2, <1>3, Divides
  <1>5. j # 0 /\ SPACE = 16 * m * j
    BY <1>1, <1>2, <1>4
  <1>6. SPACE \div 4 = 4 * m * j
    <2> DEFINE x == 4 * m * j
    <2>1. x \in Nat /\ SPACE = 4 * x
      BY <1>2, <1>5
    <2> HIDE DEF x
    <2>2. SPACE \div 4 = x
      BY <2>1
    <2> QED
      BY <2>2 DEF x
  <1>7. b \div 8 = m
    BY <1>1, <1>2
  <1> QED
    BY <1>1, <1>5, <1>6, <1>7

LEMMA GrainFacts ==
    /\ Grain \in Powers /\ Grain \in Nat \ {0} /\ GRANULE = 8 * Grain
    /\ \E j \in Nat \ {0} : SPACE \div 4 = 4 * Grain * j
  <1>1. PICK m \in Powers : /\ GRANULE = 8 * m /\ GRANULE \div 8 = m
                            /\ \E j \in Nat \ {0} : SPACE \div 4 = 4 * m * j /\ SPACE = 16 * m * j
    BY BlockFacts, SetupAssumption
  <1>2. Grain = m /\ m \in Nat \ {0}
    BY <1>1, PowerFacts DEF Grain
  <1> QED
    BY <1>1, <1>2

(* What the PMP holds of a word: in the word's grain, and no more than the  *)
(* word where it ends in enough ones.                                       *)
LEMMA HeldInGrain ==
    ASSUME NEW y \in Nat, y < SPACE \div 4
    PROVE  \E k \in Nat : /\ Held(y) = Grain * k + (Grain - 1)
                          /\ Grain * k <= y /\ y <= Grain * k + (Grain - 1)
  <1>1. Grain \in Nat \ {0} /\ SPACE \div 4 \in Nat
    BY GrainFacts, PowerFacts
  <1>2. y % (SPACE \div 4) = y
    <2> DEFINE w == SPACE \div 4
    <2>1. w \in Nat /\ y < w
      BY <1>1
    <2> HIDE DEF w
    <2>2. y % w = y
      BY <2>1
    <2> QED
      BY <2>2 DEF w
  <1>3. y = (Grain * (y \div Grain)) + (y % Grain) /\ y \div Grain \in Nat /\ y % Grain \in 0..(Grain - 1)
    BY <1>1
  <1>4. Held(y) = y - (y % Grain) + (Grain - 1)
    BY <1>2 DEF Held
  <1> DEFINE k == y \div Grain
  <1>5. k \in Nat /\ Held(y) = Grain * k + (Grain - 1) /\ Grain * k <= y /\ y <= Grain * k + (Grain - 1)
    <2> DEFINE r == y % Grain
               n == Grain * k
    <2>1. n \in Nat /\ r \in 0..(Grain - 1) /\ y = n + r /\ k \in Nat
      BY <1>1, <1>3
    <2>2. Held(y) = y - r + (Grain - 1)
      BY <1>4
    <2> HIDE DEF r, n, k
    <2> QED
      BY <1>1, <2>1, <2>2 DEF n
  <1> QED
    BY <1>5

(* The region of a row of ones.                                             *)
LEMMA RegionOfRow ==
    ASSUME NEW m \in Powers, NEW q \in Nat
    PROVE  Region(2 * m * q + (m - 1)) = (8 * m * q)..(8 * m * q + 8 * m - 1)
  <1>1. m \in Nat \ {0} /\ OnesOf(2 * m * q + (m - 1)) = m
    BY PowerFacts, RowOfOnes
  <1>2. 4 * (2 * m * q + (m - 1) - (m - 1)) = 8 * m * q
    BY <1>1
  <1> QED
    BY <1>1, <1>2 DEF Region

(* A set of naturals with a bound has a greatest element.                   *)
LEMMA Greatest ==
    ASSUME NEW S, NEW n \in Nat, S # {}, \A p \in S : p \in Nat /\ p <= n
    PROVE  Max(S) \in S /\ \A x \in S : Max(S) >= x
  <1> DEFINE T == {n - p : p \in S}
             R == OpToRel(<, Nat)
  <1>1. T \subseteq Nat /\ T # {}
    OBVIOUS
  <1>2. IsWellFoundedOn(R, Nat)
    BY NatLessThanWellFounded
  <1>3. PICK t \in T : \A u \in T : ~(<<u, t>> \in R)
    <2> HIDE DEF R, T
    <2> QED
      BY <1>1, <1>2, WFMin
  <1>4. \A u \in T : t <= u
    <2> SUFFICES ASSUME NEW u \in T PROVE t <= u
      OBVIOUS
    <2>1. ~(<<u, t>> \in R) /\ u \in Nat /\ t \in Nat
      BY <1>1, <1>3
    <2>2. ~(u < t)
      BY <2>1 DEF OpToRel
    <2> HIDE DEF T, R
    <2> QED
      BY <2>1, <2>2
  <1>5. PICK p \in S : t = n - p
    OBVIOUS
  <1>6. \A x \in S : p >= x
    <2> SUFFICES ASSUME NEW x \in S PROVE p >= x
      OBVIOUS
    <2>1. n - x \in T
      OBVIOUS
    <2>2. t <= n - x
      BY <1>4, <2>1
    <2> QED
      BY <1>5, <2>2
  <1> HIDE DEF T, R
  <1> QED
    BY <1>5, <1>6 DEF Max

(* The region of any word that ends in a grain of ones has that grain.      *)
LEMMA RegionHasGrain ==
    ASSUME NEW k \in Nat
    PROVE  (4 * (Grain * k))..(4 * (Grain * k) + 4 * Grain - 1) \subseteq Region(Grain * k + (Grain - 1))
  <1> DEFINE z == Grain * k + (Grain - 1)
             S == {p \in Powers : z % p = p - 1}
  <1>1. Grain \in Powers /\ Grain \in Nat \ {0} /\ z \in Nat
    BY GrainFacts
  <1>2. Grain \in S
    <2>1. z % Grain = Grain - 1
      BY <1>1
    <2> QED
      BY <1>1, <2>1
  <1>3. \A p \in S : p \in Nat \ {0} /\ p <= SPACE /\ p <= z + 1
    <2> SUFFICES ASSUME NEW p \in S PROVE p \in Nat \ {0} /\ p <= SPACE /\ p <= z + 1
      OBVIOUS
    <2>1. p \in Nat \ {0} /\ p <= SPACE /\ z % p = p - 1
      BY PowerFacts
    <2>2. z % p <= z
      BY <1>1, <2>1
    <2> QED
      BY <1>1, <2>1, <2>2
  <1> HIDE DEF S
  <1>4. Max(S) \in S /\ Max(S) >= Grain
    <2>1. \A p \in S : p \in Nat /\ p <= SPACE
      BY <1>3
    <2>2. SPACE \in Nat /\ S # {}
      BY <1>2, PowerFacts
    <2> QED
      BY <1>2, <2>1, <2>2, Greatest
  <1> DEFINE p == Max(S)
             n == Grain * k
  <1>5. p = OnesOf(z)
    BY DEF OnesOf, S
  <1>6. p \in Nat /\ p >= Grain /\ p <= z + 1 /\ n \in Nat /\ z = n + (Grain - 1)
    BY <1>1, <1>3, <1>4
  <1>7. Region(z) = (4 * (z - (p - 1)))..(4 * (z - (p - 1)) + 8 * p - 1)
    BY <1>5 DEF Region
  <1> HIDE DEF p, z, n
  <1>8. (4 * n)..(4 * n + 4 * Grain - 1) \subseteq Region(z)
    BY <1>1, <1>6, <1>7
  <1> QED
    BY <1>8 DEF z, n

(* An aligned block: the word of pmp_napot, in the width the PMP holds.     *)
LEMMA NapotWord ==
    ASSUME NEW sz \in Sizes, NEW base \in Address, base % sz = 0
    PROVE  \E m \in Powers, q \in Nat :
             /\ sz = 8 * m /\ base = 8 * m * q
             /\ pmp_napot(base, sz) = 2 * m * q + (m - 1)
             /\ 2 * m * q + 2 * m <= SPACE \div 4
  <1>1. sz \in Blocks
    BY SetupAssumption
  <1>2. PICK m \in Powers : /\ sz = 8 * m /\ sz \div 8 = m
                            /\ \E j \in Nat \ {0} : SPACE \div 4 = 4 * m * j /\ SPACE = 16 * m * j
    BY <1>1, BlockFacts
  <1>3. PICK j \in Nat \ {0} : SPACE \div 4 = 4 * m * j /\ SPACE = 16 * m * j
    BY <1>2
  <1>4. m \in Nat \ {0} /\ base \in Nat /\ SPACE \in Nat /\ base < SPACE
    BY PowerFacts DEF Address
  <1>5. PICK q \in Nat : base = (8 * m) * q
    <2>1. 8 * m \in Nat \ {0} /\ base % (8 * m) = 0
      BY <1>2, <1>4
    <2> QED
      BY <1>4, <2>1, Divides
  <1>6. base \div 4 = 2 * m * q
    <2> DEFINE x == 2 * m * q
    <2>1. x \in Nat /\ base = 4 * x
      BY <1>4, <1>5
    <2> HIDE DEF x
    <2>2. base \div 4 = x
      BY <2>1
    <2> QED
      BY <2>2 DEF x
  <1>7. (2 * m * q) % m = 0 /\ 2 * m * q \in Address /\ m - 1 \in 0..(m - 1)
    BY <1>4, <1>5 DEF Address
  <1>8. pmp_napot(base, sz) = 2 * m * q + (m - 1)
    <2>1. \A x \in Address, y \in 0..(m - 1) : x % m = 0 => BitOr(x, y) = x + y
      BY SetupAssumption
    <2>2. BitOr(2 * m * q, m - 1) = 2 * m * q + (m - 1)
      BY <1>7, <2>1
    <2> QED
      BY <1>2, <1>6, <2>2 DEF pmp_napot
  <1>9. 2 * m * q + 2 * m <= SPACE \div 4
    <2>1. (8 * m) * q < (8 * m) * (2 * j)
      BY <1>3, <1>4, <1>5
    <2>2. q < 2 * j
      BY <1>4, <2>1
    <2>3. q + 1 <= 2 * j
      BY <2>2
    <2>4. (2 * m) * (q + 1) <= (2 * m) * (2 * j)
      BY <1>4, <2>3
    <2> QED
      BY <1>3, <1>4, <2>4
  <1> QED
    BY <1>2, <1>5, <1>8, <1>9

(* The region of entry 0 has all of g_prot, whatever the granule, and is    *)
(* g_prot if that is a granule or more.                                     *)
LEMMA NapotProt ==
    ASSUME NEW sz \in Sizes, NEW base \in Address, base % sz = 0
    PROVE  /\ pmp_napot(base, sz) \in Int
           /\ base..(base + sz - 1) \subseteq Napot(pmp_napot(base, sz))
           /\ sz >= GRANULE => Napot(pmp_napot(base, sz)) = base..(base + sz - 1)
  <1>1. PICK m \in Powers, q \in Nat :
             /\ sz = 8 * m /\ base = 8 * m * q
             /\ pmp_napot(base, sz) = 2 * m * q + (m - 1)
             /\ 2 * m * q + 2 * m <= SPACE \div 4
    BY NapotWord
  <1> DEFINE y == 2 * m * q + (m - 1)
  <1>2. m \in Nat \ {0} /\ Grain \in Powers /\ Grain \in Nat \ {0} /\ GRANULE = 8 * Grain
    BY PowerFacts, GrainFacts
  <1>3. y \in Nat /\ y < SPACE \div 4
    <2> DEFINE x == 2 * m * q
               w == SPACE \div 4
    <2>1. x \in Nat /\ w \in Int /\ x + 2 * m <= w
      BY <1>1, <1>2, PowerFacts
    <2> HIDE DEF x, w
    <2>2. x + (m - 1) \in Nat /\ x + (m - 1) < w
      BY <1>2, <2>1
    <2> QED
      BY <2>2 DEF x, w
  <1>4. PICK k \in Nat : /\ Held(y) = Grain * k + (Grain - 1)
                         /\ Grain * k <= y /\ y <= Grain * k + (Grain - 1)
    BY <1>3, HeldInGrain
  <1>5. CASE Grain <= m
    <2>1. PICK j \in Nat \ {0} : m = Grain * j
      BY <1>2, <1>5, Multiple
    <2>2. y = Grain * (2 * j * q + j - 1) + (Grain - 1)
      BY <1>2, <2>1
    <2>3. Held(y) = y
      <3> DEFINE h == 2 * j * q + j - 1
      <3>1. h \in Int /\ y = Grain * h + (Grain - 1)
        BY <2>2
      <3> HIDE DEF h, y
      <3>2. Grain * h <= Grain * k + (Grain - 1) - (Grain - 1) /\ Grain * k < Grain * h + Grain
        BY <1>2, <1>4, <3>1
      <3>3. h <= k
        BY <1>2, <1>4, <3>1, <3>2
      <3>4. k < h + 1
        <4>1. Grain * k < Grain * (h + 1)
          BY <1>2, <3>1, <3>2
        <4> QED
          BY <1>2, <3>1, <4>1
      <3>5. k = h
        BY <3>1, <3>3, <3>4
      <3> QED
        BY <1>4, <3>1, <3>5
    <2>4. Napot(y) = (8 * m * q)..(8 * m * q + 8 * m - 1)
      BY <2>3, RegionOfRow DEF Napot
    <2> QED
      BY <1>1, <1>2, <1>3, <2>4
  <1>6. CASE m < Grain
    <2>1. (4 * (Grain * k))..(4 * (Grain * k) + 4 * Grain - 1) \subseteq Napot(y)
      BY <1>4, RegionHasGrain DEF Napot
    <2>2. PICK j \in Nat \ {0} : Grain = 2 * m * j
      <3>1. Grain % (2 * m) = 0 /\ 2 * m \in Nat \ {0}
        BY <1>2, <1>6, SetupAssumption
      <3>2. PICK j \in Nat : Grain = (2 * m) * j
        BY <1>2, <3>1, Divides
      <3> QED
        BY <1>2, <3>2
    <2>3. Grain * k <= 2 * m * q /\ 2 * m * q + 2 * m <= Grain * k + Grain
      <3> DEFINE jk == j * k
      <3>1. Grain * k = (2 * m) * jk /\ jk \in Nat
        BY <1>2, <2>2
      <3>2. (2 * m) * jk < (2 * m) * (q + 1) /\ (2 * m) * q < (2 * m) * (jk + j)
        BY <1>2, <1>4, <2>2, <3>1
      <3> HIDE DEF jk
      <3>3. jk < q + 1 /\ q < jk + j
        BY <1>2, <2>2, <3>1, <3>2
      <3>4. jk <= q /\ q + 1 <= jk + j
        BY <3>1, <3>3
      <3>5. (2 * m) * jk <= (2 * m) * q /\ (2 * m) * (q + 1) <= (2 * m) * (jk + j)
        BY <1>2, <3>1, <3>4
      <3> QED
        BY <1>2, <2>2, <3>1, <3>5
    <2>4. base..(base + sz - 1) \subseteq (4 * (Grain * k))..(4 * (Grain * k) + 4 * Grain - 1)
      <3> DEFINE n == Grain * k
                 x == 2 * m * q
      <3>1. n \in Nat /\ x \in Nat /\ base = 4 * x /\ sz = 8 * m /\ n <= x /\ x + 2 * m <= n + Grain
        BY <1>1, <1>2, <2>3
      <3> HIDE DEF n, x
      <3>2. base..(base + sz - 1) \subseteq (4 * n)..(4 * n + 4 * Grain - 1)
        BY <1>2, <3>1
      <3> QED
        BY <3>2 DEF n
    <2> HIDE DEF y
    <2>5. base..(base + sz - 1) \subseteq Napot(y)
      BY <2>1, <2>4
    <2>6. ~(sz >= GRANULE) /\ y \in Int /\ pmp_napot(base, sz) = y
      BY <1>1, <1>2, <1>3, <1>6 DEF y
    <2> QED
      BY <2>5, <2>6
  <1> QED
    BY <1>2, <1>5, <1>6

(* That of entry 1 is all there is.                                         *)
LEMMA NapotAll == Ones \in Int /\ Address \subseteq Napot(Ones)
  <1> DEFINE w == SPACE \div 4
  <1>1. w \in Powers /\ w \in Nat \ {0} /\ SPACE = 4 * w
    <2>1. PICK p \in Powers : SPACE = 4 * p
      BY SetupAssumption
    <2>2. p \in Nat \ {0}
      BY PowerFacts
    <2> QED
      BY <2>1, <2>2
  <1>2. Ones = w * 3 + (w - 1)
    BY <1>1 DEF Ones
  <1>3. Ones % w = w - 1
    <2> HIDE DEF w
    <2> QED
      BY <1>1, <1>2
  <1>4. PICK j \in Nat \ {0} : w = 4 * Grain * j
    BY GrainFacts
  <1>5. Grain \in Nat \ {0} /\ w - 1 = Grain * (4 * j - 1) + (Grain - 1)
    BY <1>1, <1>4, GrainFacts
  <1>6. (w - 1) % Grain = Grain - 1
    <2> DEFINE h == 4 * j - 1
    <2>1. h \in Int /\ w - 1 = Grain * h + (Grain - 1)
      BY <1>5
    <2> HIDE DEF h, w
    <2> QED
      BY <1>1, <1>5, <2>1
  <1>7. Held(Ones) = w - 1
    BY <1>1, <1>3, <1>5, <1>6 DEF Held
  <1>8. Region(2 * w * 0 + (w - 1)) = (8 * w * 0)..(8 * w * 0 + 8 * w - 1)
    BY <1>1, RegionOfRow
  <1>9. Napot(Ones) = 0..(8 * w - 1)
    <2>1. 2 * w * 0 + (w - 1) = w - 1 /\ 8 * w * 0 = 0
      BY <1>1
    <2> QED
      BY <1>1, <1>7, <1>8, <2>1 DEF Napot
  <1> QED
    BY <1>1, <1>2, <1>9 DEF Address

-----------------------------------------------------------------------------
(* The invariant holds *)

LEMMA InitSetup == SetupInit => SetupInv
  <1> SUFFICES ASSUME SetupInit PROVE SetupInv
    OBVIOUS
  <1>1. pmpaddr \in [0..1 -> Int]
    <2>1. \A j \in Junk : j \in Int
      BY SetupAssumption DEF Address
    <2> QED
      BY <2>1 DEF SetupInit
  <1> QED
    BY <1>1 DEF SetupInit, SetupInv

LEMMA StepSetup == SetupInv /\ [SetupNext]_setupVars => SetupInv'
  <1> SUFFICES ASSUME SetupInv, [SetupNext]_setupVars PROVE SetupInv'
    OBVIOUS
  <1> USE DEF SetupInv
  <1>1. CASE WriteAddr0
    BY <1>1, NapotProt DEF WriteAddr0
  <1>2. CASE WriteAddr1
    BY <1>2, NapotAll DEF WriteAddr1
  <1>3. CASE WriteCfg0
    BY <1>3 DEF WriteCfg0, On
  <1>4. CASE WriteCfgM0
    BY <1>4 DEF WriteCfgM0
  <1>5. CASE RestrictM
    BY <1>5 DEF RestrictM
  <1>6. CASE Lift
    BY <1>6 DEF Lift
  <1>7. CASE UNCHANGED setupVars
    BY <1>7 DEF setupVars
  <1> QED
    BY <1>1, <1>2, <1>3, <1>4, <1>5, <1>6, <1>7 DEF SetupNext

THEOREM SetupInvariant == SetupSpec => []SetupInv
  BY InitSetup, StepSetup, PTL DEF SetupSpec

-----------------------------------------------------------------------------
LEMMA MinOf == Min({1}) = 1 /\ Min({0, 1}) = 0
  BY DEF Min

LEMMA DeniesFollows == SetupInv => DeniesExactly
  <1> SUFFICES ASSUME SetupInv PROVE DeniesExactly
    OBVIOUS
  <1> DEFINE up == pc \in {"CFGM0", "DONE", "RESTRICTED", "LIFTED"}
  <1>1. CASE ~up
    <2>1. pmpcfg0 = [i \in 0..1 |-> Off] /\ PMPCFGM0 = {}
      BY <1>1 DEF SetupInv
    <2>2. \A a \in Address : Hits(a) = {}
      BY <2>1 DEF Hits, Off
    <2> QED
      BY <1>1, <2>2 DEF MMay, DeniesExactly
  <1>2. CASE up
    <2>1. /\ pmpcfg0 = On /\ PMPCFGM0 = (IF pc = "RESTRICTED" THEN {0} ELSE {})
          /\ pmpaddr[0] = pmp_napot(G_PROT, size) /\ pmpaddr[1] = Ones
      BY <1>2 DEF SetupInv
    <2>2. ~pmpcfg0[0].rwx /\ pmpcfg0[1].rwx
      <3>1. pmpcfg0[0].rwx = (0 = 1) /\ pmpcfg0[1].rwx = (1 = 1)
        <4>1. 0 \in 0..1 /\ 1 \in 0..1
          OBVIOUS
        <4> QED
          BY <2>1, <4>1, Zenon DEF On
      <3>2. (0 = 1) = FALSE /\ (1 = 1) = TRUE
        OBVIOUS
      <3> QED
        BY <3>1, <3>2, Zenon
    <2> DEFINE In(a) == a \in Napot(pmpaddr[0])
    <2>3. \A a \in Address : /\ InProt(a) => In(a)
                             /\ ~InProt(a) /\ size >= GRANULE => ~In(a)
      <3>1. size \in Sizes /\ G_PROT \in Address /\ G_PROT % size = 0
        BY DEF SetupInv
      <3>2. /\ G_PROT..(G_PROT + size - 1) \subseteq Napot(pmpaddr[0])
            /\ size >= GRANULE => Napot(pmpaddr[0]) = G_PROT..(G_PROT + size - 1)
        BY <2>1, <3>1, NapotProt
      <3> QED
        BY <3>2, Zenon DEF InProt
    <2>4. \A a \in Address : /\ UMay(a) <=> ~In(a)
                             /\ MMay(a) <=> ~(pc = "RESTRICTED" /\ In(a))
      <3> SUFFICES ASSUME NEW a \in Address
                   PROVE  (UMay(a) <=> ~In(a)) /\ (MMay(a) <=> ~(pc = "RESTRICTED" /\ In(a)))
        OBVIOUS
      <3>1. a \in Napot(pmpaddr[1])
        BY <2>1, NapotAll
      <3>2. Hits(a) = IF In(a) THEN {0, 1} ELSE {1}
        BY <2>1, <3>1 DEF Hits, On
      <3>3. CASE In(a)
        <4>1. Hits(a) # {} /\ Min(Hits(a)) = 0
          BY <3>2, <3>3, MinOf
        <4> QED
          BY <2>1, <2>2, <3>3, <4>1 DEF UMay, MMay
      <3>4. CASE ~In(a)
        <4>1. Hits(a) # {} /\ Min(Hits(a)) = 1
          BY <3>2, <3>4, MinOf
        <4> QED
          BY <2>1, <2>2, <3>4, <4>1 DEF UMay, MMay
      <3> QED
        BY <3>3, <3>4
    <2> HIDE DEF In
    <2>5. Denied(UMay)
      BY <2>3, <2>4 DEF Denied
    <2>6. IF pc = "RESTRICTED" THEN Denied(MMay) ELSE \A a \in Address : MMay(a)
      BY <2>3, <2>4 DEF Denied
    <2> QED
      BY <2>5, <2>6 DEF DeniesExactly
  <1> QED
    BY <1>1, <1>2

(* From the write of pmpcfg0 on, U-mode has no byte of g_prot and, if that  *)
(* is a granule or more, every other byte; M-mode has them all but during   *)
(* the self-test.                                                           *)
THEOREM AlwaysDeniesExactly == SetupSpec => []DeniesExactly
  BY SetupInvariant, DeniesFollows, PTL
=============================================================================
