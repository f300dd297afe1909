-------------------------- MODULE SwdVerdictProofs --------------------------
(***************************************************************************)
(* What the verdict of read_tfm_results.sh is worth, proved for every      *)
(* window, any firmware in flash, any number of resets, and whenever the   *)
(* chip is stopped.                                                        *)
(***************************************************************************)
EXTENDS SwdVerdict, FiniteSetTheorems, TLAPS

Fate == {"none", "running", "passed", "failed"}
Run  == [boot : Nat, suites : 0..Longest, fate : [1..Longest -> Fate]]

(* What the words of a table tell of the run that set it up: of each suite, *)
(* and that none follows the last.                                          *)
SuiteOK(words, r, k) ==
    /\ words[Field(k, FREG)] = "flash"
    /\ r.fate[k] = "none" => words[Field(k, LIST_SIZE)] = "zero"
    /\ r.fate[k] # "none" => words[Field(k, LIST_SIZE)] = "other"
    /\ r.fate[k] = "passed" => words[Field(k, VAL)] = "zero"
    /\ r.fate[k] = "failed" => words[Field(k, VAL)] = "other"
InOrder(r) ==
    \A k \in 1..r.suites : r.fate[k] # "none" =>
      \A j \in 1..(k - 1) : r.fate[j] \in {"passed", "failed"}
TableOK(words, r) ==
    /\ \A k \in 1..r.suites : SuiteOK(words, r, k)
    /\ words[Field(r.suites + 1, FREG)] # "flash"
    /\ InOrder(r)

(* Tests run only when both tables are of this boot, so the two differ only *)
(* as long as the Secure world has started none.                            *)
OneBoot ==
    /\ phase \in {"s_up", "tests"} => run["S"].boot = boots
    /\ phase = "tests" => run["NS"].boot = boots
    /\ run["NS"].boot = run["S"].boot \/ \A k \in 1..Longest : run["S"].fate[k] = "none"

SwdTypeOK ==
    /\ sram \in [World -> [TableWords -> Word]] /\ run \in [World -> Run]
    /\ firmware \in Firmwares /\ phase \in {"reset", "s_up", "tests"} /\ boots \in Nat

SwdInv == SwdTypeOK /\ (\A w \in World : TableOK(sram[w], run[w])) /\ OneBoot

-----------------------------------------------------------------------------
LEMMA FieldFacts ==
  ASSUME NEW k \in 1..(Longest + 1)
  PROVE  /\ k \in Nat /\ Field(k, FREG) = 5 * k - 5
         /\ Field(k, FREG) \in TableWords
         /\ k <= Longest => /\ Field(k, LIST_SIZE) = 5 * k - 3 /\ Field(k, VAL) = 5 * k - 1
                            /\ Field(k, LIST_SIZE) \in TableWords /\ Field(k, VAL) \in TableWords
BY SwdAssumption DEF Field, FREG, LIST_SIZE, VAL, STRUCT_WORDS, TableWords

(* A table as initialised data leaves it, and as a suite leaves it.         *)
FreshWords(words, n) ==
    [i \in TableWords |-> IF i \in DOMAIN Table(n) THEN Table(n)[i] ELSE words[i]]
FreshRun(n, b) == [NoRun EXCEPT !.boot = b, !.suites = n]
SuiteDone(words, k, v) ==
    [words EXCEPT ![Field(k, LIST_SIZE)] = "other", ![Field(k, VAL)] = v]
FateOf(r, k, fate) == [r EXCEPT !.fate[k] = fate]

LEMMA FreshTable ==
  ASSUME NEW words \in [TableWords -> Word], NEW n \in 0..Longest, NEW b \in Nat,
         NEW new, new = FreshWords(words, n), NEW r, r = FreshRun(n, b)
  PROVE  /\ new \in [TableWords -> Word] /\ r \in Run /\ TableOK(new, r)
         /\ r.boot = b /\ r.suites = n /\ \A k \in 1..Longest : r.fate[k] = "none"
<1>1. /\ r \in Run /\ r.boot = b /\ r.suites = n /\ \A k \in 1..Longest : r.fate[k] = "none"
  BY DEF NoRun, Run, Fate, FreshRun
<1>2. n \in Nat /\ Longest \in Nat /\ n <= Longest
  BY SwdAssumption
<1>3. ASSUME NEW i \in 0..(5 * n + 4)
      PROVE  /\ i \in TableWords
             /\ new[i] = IF i % 5 = 0 /\ i < 5 * n THEN "flash" ELSE "zero"
  <2>1. i \in TableWords
    BY <1>2, SwdAssumption DEF TableWords, STRUCT_WORDS
  <2>2. 5 * (n + 1) - 1 = 5 * n + 4
    BY <1>2
  <2> QED
    BY <2>1, <2>2 DEF FreshWords, Table, STRUCT_WORDS, FREG
<1>4. new \in [TableWords -> Word]
  <2>1. \A i \in DOMAIN Table(n) : Table(n)[i] \in Word
    BY DEF Table, Word
  <2> QED
    BY <2>1 DEF FreshWords
<1>5. ASSUME NEW k \in 1..n PROVE SuiteOK(new, r, k)
  <2>1. /\ Field(k, FREG) = 5 * k - 5 /\ Field(k, LIST_SIZE) = 5 * k - 3
    <3>1. k \in 1..(Longest + 1) /\ k <= Longest
      BY <1>2
    <3> QED
      BY <3>1, FieldFacts
  <2>2. /\ 5 * k - 5 \in 0..(5 * n + 4) /\ (5 * k - 5) % 5 = 0 /\ 5 * k - 5 < 5 * n
        /\ 5 * k - 3 \in 0..(5 * n + 4) /\ (5 * k - 3) % 5 # 0
    BY <1>2
  <2>3. new[5 * k - 5] = "flash"
    BY <1>3, <2>2
  <2>4. new[5 * k - 3] = "zero"
    BY <1>3, <2>2
  <2>5. r.fate[k] = "none"
    <3>1. k \in 1..Longest
      BY <1>2
    <3> QED
      BY <1>1, <3>1
  <2> QED
    BY <2>1, <2>3, <2>4, <2>5 DEF SuiteOK
<1>6. new[Field(n + 1, FREG)] # "flash"
  <2>1. Field(n + 1, FREG) = 5 * n /\ 5 * n \in 0..(5 * n + 4) /\ ~(5 * n < 5 * n)
    <3>1. n + 1 \in 1..(Longest + 1)
      BY <1>2
    <3> QED
      BY <1>2, <3>1, FieldFacts
  <2>2. new[5 * n] = "zero"
    BY <1>3, <2>1
  <2> QED
    BY <2>1, <2>2
<1>7. InOrder(r)
  BY <1>1, <1>2 DEF InOrder
<1> QED
  BY <1>1, <1>4, <1>5, <1>6, <1>7 DEF TableOK

(* One suite's words and fate change, and the fate keeps the order.         *)
LEMMA OneSuite ==
  ASSUME NEW words \in [TableWords -> Word], NEW r \in Run, TableOK(words, r),
         NEW k \in 1..r.suites, NEW v \in Word, NEW fate \in Fate, fate # "none",
         NEW new, new = SuiteDone(words, k, v), NEW s, s = FateOf(r, k, fate),
         fate = "passed" => v = "zero", fate = "failed" => v = "other",
         \A j \in 1..(k - 1) : r.fate[j] \in {"passed", "failed"},
         r.fate[k] \in {"none", "running"}
  PROVE  new \in [TableWords -> Word] /\ s \in Run /\ TableOK(new, s) /\ s.boot = r.boot
<1>1. /\ r.suites \in Nat /\ r.suites <= Longest /\ Longest \in Nat /\ k \in Nat /\ k \in 1..Longest
      /\ r.fate \in [1..Longest -> Fate]
  BY SwdAssumption DEF Run
<1>2. /\ s.suites = r.suites /\ s.boot = r.boot /\ s.fate = [r.fate EXCEPT ![k] = fate] /\ s \in Run
  BY <1>1 DEF Run, FateOf
<1>3. /\ s.fate[k] = fate /\ \A j \in 1..Longest : j # k => s.fate[j] = r.fate[j]
  BY <1>1, <1>2
<1>4. /\ Field(k, LIST_SIZE) \in TableWords /\ Field(k, VAL) \in TableWords
      /\ Field(k, LIST_SIZE) = 5 * k - 3 /\ Field(k, VAL) = 5 * k - 1
  <2>1. k \in 1..(Longest + 1) /\ k <= Longest
    BY <1>1
  <2> QED
    BY <2>1, FieldFacts
<1>5. /\ new \in [TableWords -> Word]
      /\ new[5 * k - 3] = "other" /\ new[5 * k - 1] = v
      /\ \A i \in TableWords : i \notin {5 * k - 3, 5 * k - 1} => new[i] = words[i]
  BY <1>1, <1>4 DEF SuiteDone, Word
<1>6. ASSUME NEW j \in 1..r.suites PROVE SuiteOK(new, s, j)
  <2>1. j \in Nat /\ j \in 1..Longest
    BY <1>1
  <2>2. /\ Field(j, FREG) = 5 * j - 5 /\ Field(j, LIST_SIZE) = 5 * j - 3 /\ Field(j, VAL) = 5 * j - 1
        /\ Field(j, FREG) \in TableWords /\ Field(j, LIST_SIZE) \in TableWords
        /\ Field(j, VAL) \in TableWords
    <3>1. j \in 1..(Longest + 1) /\ j <= Longest
      BY <1>1, <2>1
    <3> QED
      BY <3>1, FieldFacts
  <2>3. SuiteOK(words, r, j)
    BY DEF TableOK
  <2>4. new[Field(j, FREG)] = "flash"
    <3>1. 5 * j - 5 \notin {5 * k - 3, 5 * k - 1}
      BY <1>1, <2>1
    <3> QED
      BY <1>5, <2>2, <2>3, <3>1 DEF SuiteOK
  <2>5. CASE j = k
    BY <1>3, <1>5, <2>2, <2>4, <2>5 DEF SuiteOK
  <2>6. CASE j # k
    <3>1. /\ 5 * j - 3 \notin {5 * k - 3, 5 * k - 1} /\ 5 * j - 1 \notin {5 * k - 3, 5 * k - 1}
      BY <1>1, <2>1, <2>6
    <3>2. /\ new[Field(j, LIST_SIZE)] = words[Field(j, LIST_SIZE)]
          /\ new[Field(j, VAL)] = words[Field(j, VAL)] /\ s.fate[j] = r.fate[j]
      BY <1>3, <1>5, <2>1, <2>2, <2>6, <3>1
    <3> QED
      BY <2>3, <2>4, <3>2 DEF SuiteOK
  <2> QED
    BY <2>5, <2>6
<1>7. new[Field(r.suites + 1, FREG)] # "flash"
  <2>1. /\ Field(r.suites + 1, FREG) = 5 * (r.suites + 1) - 5
        /\ Field(r.suites + 1, FREG) \in TableWords
    <3>1. r.suites + 1 \in 1..(Longest + 1)
      BY <1>1
    <3> QED
      BY <3>1, FieldFacts
  <2>2. 5 * (r.suites + 1) - 5 \notin {5 * k - 3, 5 * k - 1}
    BY <1>1
  <2> QED
    BY <1>5, <2>1, <2>2 DEF TableOK
<1>8. InOrder(s)
  <2> SUFFICES ASSUME NEW i \in 1..r.suites, s.fate[i] # "none", NEW j \in 1..(i - 1)
               PROVE  s.fate[j] \in {"passed", "failed"}
    BY <1>2 DEF InOrder
  <2>1. i \in Nat /\ j \in Nat /\ j < i /\ i \in 1..Longest /\ j \in 1..Longest
    BY <1>1
  <2>2. CASE i = k
    BY <1>3, <2>1, <2>2
  <2>3. CASE i # k
    <3>1. r.fate[i] # "none"
      BY <1>3, <2>1, <2>3
    <3>2. r.fate[j] \in {"passed", "failed"}
      BY <3>1 DEF TableOK, InOrder
    <3>3. j # k
      BY <3>2
    <3> QED
      BY <1>3, <2>1, <3>2, <3>3
  <2> QED
    BY <2>2, <2>3
<1> QED
  BY <1>2, <1>5, <1>6, <1>7, <1>8 DEF TableOK

-----------------------------------------------------------------------------
(* The invariant holds *)

LEMMA InitSwdInv == Init => SwdInv
<1> SUFFICES ASSUME Init PROVE SwdInv
  OBVIOUS
<1>1. PICK junk \in {"zero", "other"} : sram = [w \in World |-> [i \in TableWords |-> junk]]
  BY DEF Init
<1>2. run = [w \in World |-> NoRun] /\ firmware \in Firmwares /\ phase = "reset" /\ boots = 0
  BY DEF Init
<1>3. /\ NoRun \in Run /\ NoRun.suites = 0 /\ NoRun.boot = 0
      /\ \A k \in 1..Longest : NoRun.fate[k] = "none"
  BY SwdAssumption DEF NoRun, Run, Fate
<1>4. SwdTypeOK
  BY <1>1, <1>2, <1>3 DEF SwdTypeOK, Word
<1>5. ASSUME NEW w \in World PROVE TableOK(sram[w], run[w])
  <2>1. Field(1, FREG) \in TableWords
    BY FieldFacts, SwdAssumption
  <2>2. run[w] = NoRun /\ sram[w][Field(0 + 1, FREG)] # "flash"
    BY <1>1, <1>2, <2>1
  <2> QED
    BY <1>3, <2>2 DEF TableOK, InOrder
<1>6. OneBoot
  BY <1>2 DEF OneBoot, World
<1> QED
  BY <1>4, <1>5, <1>6 DEF SwdInv

LEMMA StepSetUp ==
  ASSUME SwdInv, NEW w \in World, SetUpTable(w)
  PROVE  /\ sram' \in [World -> [TableWords -> Word]] /\ run' \in [World -> Run]
         /\ \A u \in World : TableOK(sram'[u], run'[u])
         /\ \A u \in World : u # w => run'[u] = run[u]
         /\ run'[w].boot = boots /\ \A k \in 1..Longest : run'[w].fate[k] = "none"
<1>1. /\ sram \in [World -> [TableWords -> Word]] /\ run \in [World -> Run] /\ boots \in Nat
      /\ firmware[w] \in 0..Longest /\ sram[w] \in [TableWords -> Word]
      /\ \A u \in World : TableOK(sram[u], run[u])
  BY SwdAssumption DEF SwdInv, SwdTypeOK
<1> DEFINE new == FreshWords(sram[w], firmware[w])
           r   == FreshRun(firmware[w], boots)
<1>2. sram' = [sram EXCEPT ![w] = new] /\ run' = [run EXCEPT ![w] = r]
  BY DEF SetUpTable, FreshWords, FreshRun
<1>3. /\ new \in [TableWords -> Word] /\ r \in Run /\ TableOK(new, r)
      /\ r.boot = boots /\ \A k \in 1..Longest : r.fate[k] = "none"
  BY <1>1, FreshTable
<1> HIDE DEF new, r
<1>4. /\ sram'[w] = new /\ run'[w] = r
      /\ \A u \in World : u # w => sram'[u] = sram[u] /\ run'[u] = run[u]
  BY <1>1, <1>2
<1>5. \A u \in World : TableOK(sram'[u], run'[u])
  BY <1>1, <1>3, <1>4
<1> QED
  BY <1>1, <1>2, <1>3, <1>4, <1>5

(* Both ends of a suite: the words and the fate that it leaves.             *)
LEMMA SuiteWords ==
  ASSUME SwdInv, NEW w \in World, StartSuite(w) \/ FinishSuite(w)
  PROVE  /\ phase = "tests" /\ UNCHANGED <<firmware, phase, boots>>
         /\ \E k \in 1..run[w].suites, v \in {"zero", "other"}, fate \in {"running", "passed", "failed"} :
              /\ sram' = [sram EXCEPT ![w] = SuiteDone(sram[w], k, v)]
              /\ run' = [run EXCEPT ![w] = FateOf(run[w], k, fate)]
              /\ (fate = "passed" => v = "zero") /\ (fate = "failed" => v = "other")
              /\ run[w].fate[k] \in {"none", "running"}
              /\ \A j \in 1..(k - 1) : run[w].fate[j] \in {"passed", "failed"}
<1>1. /\ sram \in [World -> [TableWords -> Word]] /\ run \in [World -> Run]
      /\ sram[w] \in [TableWords -> Word] /\ run[w] \in Run /\ TableOK(sram[w], run[w])
  BY DEF SwdInv, SwdTypeOK
<1>2. CASE StartSuite(w)
  <2>1. PICK k \in 1..run[w].suites, v \in {"zero", "other"} :
          /\ run[w].fate[k] = "none" /\ \A j \in 1..(k - 1) : run[w].fate[j] \in {"passed", "failed"}
          /\ run' = [run EXCEPT ![w].fate[k] = "running"]
          /\ sram' = [sram EXCEPT ![w][Field(k, LIST_SIZE)] = "other", ![w][Field(k, VAL)] = v]
    BY <1>2 DEF StartSuite
  <2>2. sram' = [sram EXCEPT ![w] = SuiteDone(sram[w], k, v)]
    BY <1>1, <2>1 DEF SuiteDone
  <2>3. run' = [run EXCEPT ![w] = FateOf(run[w], k, "running")]
    BY <2>1 DEF FateOf
  <2>4. phase = "tests" /\ UNCHANGED <<firmware, phase, boots>>
    BY <1>2 DEF StartSuite
  <2> QED
    BY <2>1, <2>2, <2>3, <2>4
<1>3. CASE FinishSuite(w)
  <2>1. PICK k \in 1..run[w].suites, fate \in {"passed", "failed"} :
          /\ run[w].fate[k] = "running"
          /\ run' = [run EXCEPT ![w].fate[k] = fate]
          /\ sram' = [sram EXCEPT ![w][Field(k, VAL)] = IF fate = "passed" THEN "zero" ELSE "other"]
    BY <1>3 DEF FinishSuite
  <2>2. phase = "tests" /\ UNCHANGED <<firmware, phase, boots>>
    BY <1>3 DEF FinishSuite
  <2> DEFINE v == IF fate = "passed" THEN "zero" ELSE "other"
  <2>3. /\ v \in {"zero", "other"} /\ (fate = "passed" => v = "zero") /\ (fate = "failed" => v = "other")
    OBVIOUS
  <2>4. sram' = [sram EXCEPT ![w] = [sram[w] EXCEPT ![Field(k, VAL)] = v]]
    BY <2>1
  <2> HIDE DEF v
  <2>5. sram[w][Field(k, LIST_SIZE)] = "other" /\ \A j \in 1..(k - 1) : run[w].fate[j] \in {"passed", "failed"}
    BY <1>1, <2>1 DEF TableOK, SuiteOK, InOrder
  <2>6. sram' = [sram EXCEPT ![w] = SuiteDone(sram[w], k, v)]
    <3>1. sram[w] = [sram[w] EXCEPT ![Field(k, LIST_SIZE)] = "other"]
      BY <1>1, <2>5
    <3> QED
      BY <2>4, <3>1 DEF SuiteDone
  <2>7. run' = [run EXCEPT ![w] = FateOf(run[w], k, fate)]
    BY <2>1 DEF FateOf
  <2> QED
    BY <2>1, <2>2, <2>3, <2>5, <2>6, <2>7
<1> QED
  BY <1>2, <1>3

LEMMA StepSuite ==
  ASSUME SwdInv, NEW w \in World, StartSuite(w) \/ FinishSuite(w)
  PROVE  SwdInv'
<1>1. /\ sram \in [World -> [TableWords -> Word]] /\ run \in [World -> Run]
      /\ sram[w] \in [TableWords -> Word] /\ run[w] \in Run
      /\ \A u \in World : TableOK(sram[u], run[u])
      /\ firmware \in Firmwares /\ phase \in {"reset", "s_up", "tests"} /\ boots \in Nat
  BY DEF SwdInv, SwdTypeOK
<1>2. phase = "tests" /\ UNCHANGED <<firmware, phase, boots>>
  BY SuiteWords
<1>3. PICK k \in 1..run[w].suites, v \in {"zero", "other"}, fate \in {"running", "passed", "failed"} :
        /\ sram' = [sram EXCEPT ![w] = SuiteDone(sram[w], k, v)]
        /\ run' = [run EXCEPT ![w] = FateOf(run[w], k, fate)]
        /\ (fate = "passed" => v = "zero") /\ (fate = "failed" => v = "other")
        /\ run[w].fate[k] \in {"none", "running"}
        /\ \A j \in 1..(k - 1) : run[w].fate[j] \in {"passed", "failed"}
  BY SuiteWords
<1> DEFINE new == SuiteDone(sram[w], k, v)
           s   == FateOf(run[w], k, fate)
<1>4. new \in [TableWords -> Word] /\ s \in Run /\ TableOK(new, s) /\ s.boot = run[w].boot
  <2>1. "other" \in Word /\ v \in Word /\ fate \in Fate /\ fate # "none"
    BY DEF Word, Fate
  <2> QED
    BY <1>1, <1>3, <2>1, OneSuite
<1>5. /\ sram' = [sram EXCEPT ![w] = new] /\ run' = [run EXCEPT ![w] = s]
  BY <1>3
<1> HIDE DEF new, s
<1>6. /\ sram' \in [World -> [TableWords -> Word]] /\ run' \in [World -> Run]
  BY <1>1, <1>4, <1>5
<1>7. \A u \in World : TableOK(sram'[u], run'[u]) /\ run'[u].boot = run[u].boot
  BY <1>1, <1>4, <1>5
<1>8. run["NS"].boot = run["S"].boot /\ run["S"].boot = boots
  BY <1>2 DEF SwdInv, OneBoot
<1>9. SwdTypeOK'
  BY <1>1, <1>2, <1>6 DEF SwdTypeOK
<1>10. OneBoot'
  BY <1>2, <1>7, <1>8 DEF OneBoot, World
<1> QED
  BY <1>7, <1>9, <1>10 DEF SwdInv

LEMMA StepSwdInv == SwdInv /\ [Next]_vars => SwdInv'
<1> SUFFICES ASSUME SwdInv, [Next]_vars PROVE SwdInv'
  OBVIOUS
<1>1. /\ firmware \in Firmwares /\ boots \in Nat /\ phase \in {"reset", "s_up", "tests"}
  BY DEF SwdInv, SwdTypeOK
<1>2. CASE SecureUp
  <2>1. phase' = "s_up" /\ SetUpTable("S") /\ UNCHANGED <<firmware, boots>> /\ "S" \in World
    BY <1>2 DEF SecureUp, SetUpTable, World
  <2>2. /\ sram' \in [World -> [TableWords -> Word]] /\ run' \in [World -> Run]
        /\ \A u \in World : TableOK(sram'[u], run'[u])
        /\ run'["S"].boot = boots /\ \A k \in 1..Longest : run'["S"].fate[k] = "none"
    BY <2>1, StepSetUp
  <2>3. SwdTypeOK' /\ OneBoot'
    BY <1>1, <2>1, <2>2 DEF SwdTypeOK, OneBoot
  <2> QED
    BY <2>2, <2>3 DEF SwdInv
<1>3. CASE NonSecureUp
  <2>1. /\ phase = "s_up" /\ phase' = "tests" /\ SetUpTable("NS") /\ UNCHANGED <<firmware, boots>>
        /\ "S" \in World /\ "NS" \in World
    BY <1>3 DEF NonSecureUp, SetUpTable, World
  <2>2. /\ sram' \in [World -> [TableWords -> Word]] /\ run' \in [World -> Run]
        /\ \A u \in World : TableOK(sram'[u], run'[u])
        /\ run'["NS"].boot = boots /\ run'["S"] = run["S"]
    BY <2>1, StepSetUp
  <2>3. run["S"].boot = boots
    BY <2>1 DEF SwdInv, OneBoot
  <2>4. SwdTypeOK' /\ OneBoot'
    BY <1>1, <2>1, <2>2, <2>3 DEF SwdTypeOK, OneBoot
  <2> QED
    BY <2>2, <2>4 DEF SwdInv
<1>4. CASE Reset
  BY <1>4 DEF Reset, SwdInv, SwdTypeOK, OneBoot
<1>5. CASE \E w \in World : StartSuite(w) \/ FinishSuite(w)
  BY <1>5, StepSuite
<1>6. CASE UNCHANGED vars
  BY <1>6 DEF vars, SwdInv, SwdTypeOK, OneBoot
<1> QED
  BY <1>2, <1>3, <1>4, <1>5, <1>6 DEF Next

(* At every instant the tables tell of the runs what the invariant says.    *)
THEOREM SwdInvariant == Spec => []SwdInv
  BY InitSwdInv, StepSwdInv, PTL DEF Spec

-----------------------------------------------------------------------------
(* What the script counts *)

Showing(w) == {k \in Judged(sram[w]) : Passes(sram[w], Field(k, FREG))}

LEMMA SeenIsJudged ==
  ASSUME SwdInv, NEW w \in World
  PROVE  Judged(sram[w]) = Seen(w) /\ IsFiniteSet(Seen(w))
<1>1. /\ run[w] \in Run /\ run[w].suites \in Nat /\ run[w].suites <= Longest /\ READ_WORDS \in Nat
      /\ TableOK(sram[w], run[w])
  BY SwdAssumption DEF SwdInv, SwdTypeOK, Run
<1> DEFINE words == sram[w]
           n     == run[w].suites
<1>2. \A j \in Nat \ {0} : Field(j, FREG) = 5 * j - 5
  BY DEF Field, FREG, STRUCT_WORDS
<1>3. ASSUME NEW k \in Judged(words) PROVE k \in Seen(w)
  <2>1. k \in 1..READ_WORDS /\ k \in Nat \ {0} /\ \A j \in 1..k : More(words, Field(j, FREG))
    BY <1>1 DEF Judged
  <2>2. More(words, 5 * k - 5)
    BY <1>2, <2>1
  <2>3. 5 * k <= READ_WORDS
    BY <1>1, <2>1, <2>2 DEF More, VAL
  <2>4. k <= n
    <3>1. SUFFICES ASSUME ~(k <= n) PROVE FALSE
      OBVIOUS
    <3>2. n + 1 \in 1..k
      BY <1>1, <2>1, <3>1
    <3> QED
      BY <1>1, <2>1, <3>2 DEF More, TableOK
  <2> QED
    BY <2>1, <2>3, <2>4 DEF Seen, STRUCT_WORDS
<1>4. ASSUME NEW k \in Seen(w) PROVE k \in Judged(words)
  <2>1. k \in 1..n /\ k \in Nat \ {0} /\ 5 * k <= READ_WORDS /\ k \in 1..READ_WORDS
    BY <1>1 DEF Seen, STRUCT_WORDS
  <2>2. ASSUME NEW j \in 1..k PROVE More(words, Field(j, FREG))
    <3>1. j \in 1..n /\ j \in Nat \ {0} /\ 5 * j - 5 + 4 < READ_WORDS
      BY <1>1, <2>1
    <3>2. words[Field(j, FREG)] = "flash"
      BY <1>1, <3>1 DEF TableOK, SuiteOK
    <3> QED
      BY <1>2, <3>1, <3>2 DEF More, VAL
  <2> QED
    BY <2>1, <2>2 DEF Judged
<1>5. IsFiniteSet(1..n)
  BY <1>1, FS_Interval
<1>6. Seen(w) \subseteq 1..n
  BY DEF Seen
<1> QED
  BY <1>3, <1>4, <1>5, <1>6, FS_Subset

(* What shows as passed has passed or is still running.                     *)
LEMMA ShowingFacts ==
  ASSUME SwdInv, NEW w \in World
  PROVE  /\ Of(w, {"passed"}) \subseteq Showing(w)
         /\ Showing(w) \subseteq Of(w, {"passed", "running"})
<1>1. /\ run[w] \in Run /\ TableOK(sram[w], run[w]) /\ Judged(sram[w]) = Seen(w)
      /\ run[w].suites \in Nat /\ run[w].suites <= Longest /\ Longest \in Nat
  BY SeenIsJudged, SwdAssumption DEF SwdInv, SwdTypeOK, Run
<1>2. ASSUME NEW k \in Seen(w)
      PROVE  /\ SuiteOK(sram[w], run[w], k) /\ run[w].fate[k] \in Fate
             /\ Field(k, FREG) + VAL = Field(k, VAL)
             /\ Field(k, FREG) + LIST_SIZE = Field(k, LIST_SIZE)
  <2>1. k \in 1..run[w].suites
    BY DEF Seen
  <2>2. k \in Nat /\ k \in 1..Longest
    BY <1>1, <2>1
  <2>3. /\ Field(k, FREG) + VAL = Field(k, VAL) /\ Field(k, FREG) + LIST_SIZE = Field(k, LIST_SIZE)
    BY <2>2 DEF Field, FREG, VAL, LIST_SIZE, STRUCT_WORDS
  <2> QED
    BY <1>1, <2>1, <2>2, <2>3 DEF TableOK, Run
<1>3. \A k \in Seen(w) : run[w].fate[k] = "passed" => Passes(sram[w], Field(k, FREG))
  BY <1>2 DEF SuiteOK, Passes
<1>4. \A k \in Seen(w) : Passes(sram[w], Field(k, FREG)) => run[w].fate[k] \in {"passed", "running"}
  BY <1>2 DEF SuiteOK, Passes, Fate
<1> QED
  BY <1>1, <1>3, <1>4 DEF Showing, Of

LEMMA Counts ==
  ASSUME SwdInv, NEW w \in World
  PROVE  /\ judge(sram[w]).total = Cardinality(Seen(w))
         /\ judge(sram[w]).passed = Cardinality(Showing(w))
         /\ IsFiniteSet(Seen(w)) /\ Showing(w) \subseteq Seen(w)
         /\ Cardinality(Seen(w)) \in Nat /\ Cardinality(Showing(w)) \in Nat
         /\ Cardinality(Showing(w)) <= Cardinality(Seen(w))
         /\ Cardinality(Showing(w)) = Cardinality(Seen(w)) => Showing(w) = Seen(w)
<1>1. Judged(sram[w]) = Seen(w) /\ IsFiniteSet(Seen(w))
  BY SeenIsJudged
<1>2. Showing(w) \subseteq Seen(w)
  BY <1>1 DEF Showing
<1>3. judge(sram[w]).total = Cardinality(Seen(w)) /\ judge(sram[w]).passed = Cardinality(Showing(w))
  BY <1>1 DEF judge, Showing
<1> QED
  BY <1>1, <1>2, <1>3, FS_Subset, FS_CardinalityType

LEMMA CountsRight == SwdInv => CountsWhatRan
<1> SUFFICES ASSUME SwdInv, NEW w \in World
             PROVE  /\ judge(sram[w]).total = Cardinality(Seen(w))
                    /\ judge(sram[w]).passed >= Cardinality(Of(w, {"passed"}))
                    /\ judge(sram[w]).passed <= Cardinality(Of(w, {"passed", "running"}))
  BY DEF CountsWhatRan
<1>1. /\ judge(sram[w]).total = Cardinality(Seen(w)) /\ judge(sram[w]).passed = Cardinality(Showing(w))
      /\ IsFiniteSet(Seen(w)) /\ Showing(w) \subseteq Seen(w)
  BY Counts
<1>2. Of(w, {"passed", "running"}) \subseteq Seen(w)
  BY DEF Of
<1>3. IsFiniteSet(Showing(w)) /\ IsFiniteSet(Of(w, {"passed", "running"}))
  BY <1>1, <1>2, FS_Subset
<1>4. /\ Of(w, {"passed"}) \subseteq Showing(w) /\ Showing(w) \subseteq Of(w, {"passed", "running"})
  BY ShowingFacts
<1>5. /\ Cardinality(Of(w, {"passed"})) <= Cardinality(Showing(w))
      /\ Cardinality(Showing(w)) <= Cardinality(Of(w, {"passed", "running"}))
      /\ Cardinality(Of(w, {"passed"})) \in Nat /\ Cardinality(Showing(w)) \in Nat
  BY <1>3, <1>4, FS_Subset, FS_CardinalityType
<1> QED
  BY <1>1, <1>5

LEMMA SumsOf ==
  ASSUME NEW a \in Nat, NEW b \in Nat, NEW c \in Nat, NEW d \in Nat, a <= c, b <= d
  PROVE  (a + b = c + d <=> a = c /\ b = d) /\ (c + d > 0 <=> c > 0 \/ d > 0)
  OBVIOUS

(* The verdict says that each window shows as passed all that it shows.     *)
LEMMA VerdictIs ==
  ASSUME SwdInv
  PROVE  AllPassed <=> /\ \A w \in World : Showing(w) = Seen(w)
                       /\ \E w \in World : Seen(w) # {}
<1> DEFINE t == [w \in World |-> Cardinality(Seen(w))]
           p == [w \in World |-> Cardinality(Showing(w))]
<1>1. "NS" \in World /\ "S" \in World /\ \A w \in World : w = "NS" \/ w = "S"
  BY DEF World
<1>2. total = t["NS"] + t["S"] /\ passed = p["NS"] + p["S"]
  BY <1>1, Counts DEF total, passed
<1>3. \A w \in World : /\ t[w] \in Nat /\ p[w] \in Nat /\ p[w] <= t[w]
                       /\ p[w] = t[w] <=> Showing(w) = Seen(w)
  BY Counts
<1>4. \A w \in World : t[w] > 0 <=> Seen(w) # {}
  <2> SUFFICES ASSUME NEW w \in World PROVE t[w] > 0 <=> Seen(w) # {}
    OBVIOUS
  <2>1. IsFiniteSet(Seen(w)) /\ t[w] \in Nat
    BY Counts
  <2>2. t[w] = 0 <=> Seen(w) = {}
    BY <2>1, FS_EmptySet
  <2> HIDE DEF t
  <2> QED
    BY <2>1, <2>2
<1> HIDE DEF t, p
<1>5. AllPassed <=> t["NS"] + t["S"] > 0 /\ p["NS"] + p["S"] = t["NS"] + t["S"]
  BY <1>2 DEF AllPassed
<1>6. /\ t["NS"] \in Nat /\ p["NS"] \in Nat /\ p["NS"] <= t["NS"]
      /\ p["NS"] = t["NS"] <=> Showing("NS") = Seen("NS")
      /\ t["S"] \in Nat /\ p["S"] \in Nat /\ p["S"] <= t["S"]
      /\ p["S"] = t["S"] <=> Showing("S") = Seen("S")
  BY <1>1, <1>3
<1>7. /\ p["NS"] + p["S"] = t["NS"] + t["S"] <=> p["NS"] = t["NS"] /\ p["S"] = t["S"]
      /\ t["NS"] + t["S"] > 0 <=> t["NS"] > 0 \/ t["S"] > 0
  BY <1>6, SumsOf
<1>8. t["NS"] + t["S"] > 0 <=> \E w \in World : Seen(w) # {}
  BY <1>1, <1>4, <1>7
<1>9. p["NS"] + p["S"] = t["NS"] + t["S"] <=> \A w \in World : Showing(w) = Seen(w)
  BY <1>1, <1>6, <1>7
<1> QED
  BY <1>5, <1>8, <1>9

LEMMA VerdictMeans == SwdInv => AllPassedMeans
<1> SUFFICES ASSUME SwdInv, AllPassed
             PROVE  /\ \A w \in World :
                         /\ Of(w, {"none", "failed"}) = {}
                         /\ \A k \in Of(w, {"running"}) : \A j \in Seen(w) : j <= k
                    /\ (\A w \in World : Seen(w) # {}) => run["NS"].boot = run["S"].boot
  BY DEF AllPassedMeans
<1>1. \A w \in World : Seen(w) \subseteq Of(w, {"passed", "running"})
  <2> SUFFICES ASSUME NEW w \in World PROVE Seen(w) \subseteq Of(w, {"passed", "running"})
    OBVIOUS
  <2>1. Showing(w) = Seen(w)
    BY VerdictIs
  <2> QED
    BY <2>1, ShowingFacts
<1>2. \A w \in World : \A k \in Seen(w) : run[w].fate[k] \in {"passed", "running"}
  BY <1>1 DEF Of
<1>3. ASSUME NEW w \in World, NEW k \in Of(w, {"running"}), NEW j \in Seen(w) PROVE j <= k
  <2>1. /\ run[w].suites \in Nat /\ InOrder(run[w])
    BY SwdAssumption DEF SwdInv, SwdTypeOK, TableOK, Run
  <2>2. /\ k \in 1..run[w].suites /\ j \in 1..run[w].suites
        /\ run[w].fate[k] = "running" /\ run[w].fate[j] # "none"
    BY <1>2 DEF Of, Seen
  <2>3. k \notin 1..(j - 1)
    BY <2>1, <2>2 DEF InOrder
  <2> QED
    BY <2>1, <2>2, <2>3
<1>4. ASSUME \A w \in World : Seen(w) # {} PROVE run["NS"].boot = run["S"].boot
  <2>1. PICK k \in Seen("S") : TRUE
    BY <1>4 DEF World
  <2>2. run["S"].fate[k] # "none"
    BY <1>2 DEF World
  <2>3. k \in 1..Longest
    <3>1. run["S"].suites \in 0..Longest /\ Longest \in Nat
      BY SwdAssumption DEF SwdInv, SwdTypeOK, Run, World
    <3>2. k \in 1..run["S"].suites
      BY DEF Seen
    <3> QED
      BY <3>1, <3>2
  <2> QED
    BY <2>2, <2>3 DEF SwdInv, OneBoot
<1>5. \A w \in World : Of(w, {"none", "failed"}) = {}
  BY <1>2 DEF Of
<1> QED
  BY <1>3, <1>4, <1>5

LEMMA VerdictReports == SwdInv => PassIsReported
<1> SUFFICES ASSUME SwdInv, \A w \in World : Of(w, {"none", "running", "failed"}) = {},
                    \E w \in World : Seen(w) # {}
             PROVE  AllPassed
  BY DEF PassIsReported
<1>1. ASSUME NEW w \in World PROVE Showing(w) = Seen(w)
  <2>1. ASSUME NEW k \in Seen(w) PROVE run[w].fate[k] = "passed"
    <3>1. k \in 1..Longest /\ run[w].fate \in [1..Longest -> Fate]
      <4>1. run[w].suites \in 0..Longest /\ Longest \in Nat /\ run[w].fate \in [1..Longest -> Fate]
        BY SwdAssumption DEF SwdInv, SwdTypeOK, Run
      <4>2. k \in 1..run[w].suites
        BY DEF Seen
      <4> QED
        BY <4>1, <4>2
    <3>2. run[w].fate[k] \notin {"none", "running", "failed"}
      BY DEF Of
    <3> QED
      BY <3>1, <3>2 DEF Fate
  <2>2. Seen(w) \subseteq Of(w, {"passed"})
    BY <2>1 DEF Of
  <2> QED
    BY <2>2, ShowingFacts, Counts
<1> QED
  BY <1>1, VerdictIs

-----------------------------------------------------------------------------
(* Whenever the chip is stopped, the two counts are of the suites that the  *)
(* windows show, each once.                                                 *)
THEOREM CountsAlwaysRight == Spec => []CountsWhatRan
  BY SwdInvariant, CountsRight, PTL

(* "ALL PASSED" is printed of no run but one, in which no suite failed or   *)
(* was left out.                                                            *)
THEOREM AllPassedAlwaysMeans == Spec => []AllPassedMeans
  BY SwdInvariant, VerdictMeans, PTL

(* A run that has passed is not reported otherwise.                         *)
THEOREM PassAlwaysReported == Spec => []PassIsReported
  BY SwdInvariant, VerdictReports, PTL
=============================================================================
