----------------------------- MODULE SwdVerdict -----------------------------
(***************************************************************************)
(* scripts/read_tfm_results.sh: the verdict on a regression run, made from *)
(* two tables that the TF-M test framework keeps in SRAM.                  *)
(*                                                                         *)
(* The framework is not in the repository; it does here what the head of   *)
(* the script and step 8 of docs/tf-m-bringup.md rely on.  SRAM outlives a *)
(* reset, and the script stops the chip and reads at an instant of its     *)
(* choice: the properties say what it prints if it did so now.             *)
(***************************************************************************)
EXTENDS Naturals, FiniteSets

CONSTANTS
    READ_WORDS,     \* words read of each table (60)
    Firmwares,      \* bound: images put in flash, as the suites of each world
    Longest,        \* bound: the suites of the longest table
    MaxBoots        \* bound: resets in a behaviour

World == {"NS", "S"}

ASSUME SwdAssumption ==
    /\ READ_WORDS \in Nat /\ MaxBoots \in Nat /\ Longest \in Nat
    /\ Firmwares # {} /\ Firmwares \subseteq [World -> 0..Longest]

(* A word, as far as the script looks: a pointer to flash (0x10......),     *)
(* zero, or anything else.  test_suite_t has five.                          *)
Word == {"flash", "zero", "other"}
FREG == 0
LIST_SIZE == 2
VAL  == 4
STRUCT_WORDS == 5

TableWords == 0..(STRUCT_WORDS * (Longest + 1) + READ_WORDS)

VARIABLES
    sram,           \* the words from each table's address on
    firmware,       \* what is in flash
    phase,          \* "reset", "s_up" (Secure data initialised), "tests"
    boots,
    run             \* history: of each table, the boot that set it up, how
                    \* many suites, and what became of each
vars == <<sram, firmware, phase, boots, run>>

NoRun == [boot |-> 0, suites |-> 0, fate |-> [k \in 1..Longest |-> "none"]]

Init ==
    /\ \E junk \in {"zero", "other"} : sram = [w \in World |-> [i \in TableWords |-> junk]]
    /\ firmware \in Firmwares /\ phase = "reset" /\ boots = 0
    /\ run = [w \in World |-> NoRun]

-----------------------------------------------------------------------------
(* The chip. *)

(* Initialised data: for each suite the function that registers it and no   *)
(* tests yet, then a suite of zeros.                                        *)
Table(n) == [i \in 0..(STRUCT_WORDS * (n + 1) - 1) |->
               IF i % STRUCT_WORDS = FREG /\ i < STRUCT_WORDS * n THEN "flash" ELSE "zero"]

SetUpTable(w) ==
    /\ sram' = [sram EXCEPT ![w] = [i \in TableWords |->
                   IF i \in DOMAIN Table(firmware[w]) THEN Table(firmware[w])[i] ELSE sram[w][i]]]
    /\ run' = [run EXCEPT ![w] = [NoRun EXCEPT !.boot = boots, !.suites = firmware[w]]]
    /\ UNCHANGED <<firmware, boots>>

SecureUp    == phase = "reset" /\ phase' = "s_up" /\ SetUpTable("S")
NonSecureUp == phase = "s_up" /\ phase' = "tests" /\ SetUpTable("NS")

Field(k, f) == STRUCT_WORDS * (k - 1) + f

(* The next suite of a world registers its tests; while they run, nobody    *)
(* promises anything of its result.                                         *)
StartSuite(w) ==
    /\ phase = "tests"
    /\ \E k \in 1..run[w].suites, v \in {"zero", "other"} :
         /\ run[w].fate[k] = "none" /\ \A j \in 1..(k - 1) : run[w].fate[j] \in {"passed", "failed"}
         /\ run' = [run EXCEPT ![w].fate[k] = "running"]
         /\ sram' = [sram EXCEPT ![w][Field(k, LIST_SIZE)] = "other", ![w][Field(k, VAL)] = v]
    /\ UNCHANGED <<firmware, phase, boots>>

FinishSuite(w) ==
    /\ phase = "tests"
    /\ \E k \in 1..run[w].suites, fate \in {"passed", "failed"} :
         /\ run[w].fate[k] = "running"
         /\ run' = [run EXCEPT ![w].fate[k] = fate]
         /\ sram' = [sram EXCEPT ![w][Field(k, VAL)] = IF fate = "passed" THEN "zero" ELSE "other"]
    /\ UNCHANGED <<firmware, phase, boots>>

(* A reset, the script's own "reset init" included; SRAM is kept, and other *)
(* firmware may be in flash by then.                                        *)
Reset ==
    /\ boots < MaxBoots /\ boots' = boots + 1
    /\ phase' = "reset" /\ firmware' \in Firmwares
    /\ UNCHANGED <<sram, run>>

Next == SecureUp \/ NonSecureUp \/ Reset \/ \E w \in World : StartSuite(w) \/ FinishSuite(w)

Spec == Init /\ [][Next]_vars

-----------------------------------------------------------------------------
(* The script. *)

Passes(words, i) == words[i + VAL] = "zero" /\ words[i + LIST_SIZE] # "zero"

(* Variant: the last struct that just fits is left out. *)
MoreShort(words, i) == i + STRUCT_WORDS < READ_WORDS /\ words[i] = "flash"

More(words, i) == i + VAL < READ_WORDS /\ words[i] = "flash"

(* judge(): struct by struct, to the end of the window or to a first word   *)
(* that is no pointer to flash.                                             *)
Judged(words) ==
    {k \in 1..READ_WORDS : \A j \in 1..k : More(words, Field(j, FREG))}
judge(words) ==
    [total  |-> Cardinality(Judged(words)),
     passed |-> Cardinality({k \in Judged(words) : Passes(words, Field(k, FREG))})]

total  == judge(sram["NS"]).total + judge(sram["S"]).total
passed == judge(sram["NS"]).passed + judge(sram["S"]).passed

(* Variants: the two sums are not compared; a fixed number of suites is     *)
(* expected.                                                                *)
AllPassedUncounted == total > 0
AllPassedFixed     == passed = 2 * (READ_WORDS \div STRUCT_WORDS)

(* "RESULT: ALL PASSED", and exit status 0. *)
AllPassed == total > 0 /\ passed = total

-----------------------------------------------------------------------------
(* Properties *)

(* The suites of a table that the window shows, and those of a given fate.  *)
Seen(w) == {k \in 1..run[w].suites : STRUCT_WORDS * k <= READ_WORDS}
Of(w, fates) == {k \in Seen(w) : run[w].fate[k] \in fates}

(* "ALL PASSED", whenever it is printed: every suite in the two windows has *)
(* been started, none has failed, and of either world at most one, the last *)
(* one, was still running.  Nor does it mix two runs: what a reset cut off  *)
(* does not add up with results of an earlier run, as long as both worlds   *)
(* have suites.                                                             *)
AllPassedMeans ==
    AllPassed =>
      /\ \A w \in World :
           /\ Of(w, {"none", "failed"}) = {}
           /\ \A k \in Of(w, {"running"}) : \A j \in Seen(w) : j <= k
      /\ (\A w \in World : Seen(w) # {}) => run["NS"].boot = run["S"].boot

(* Each suite in the window is counted once, also when the table just fills *)
(* the window and when a shorter table has overwritten a longer one; what   *)
(* passed is counted as passed, what failed or was not started is not.      *)
CountsWhatRan ==
    \A w \in World :
        /\ judge(sram[w]).total = Cardinality(Seen(w))
        /\ judge(sram[w]).passed >= Cardinality(Of(w, {"passed"}))
        /\ judge(sram[w]).passed <= Cardinality(Of(w, {"passed", "running"}))

(* A run that has passed is reported as such, until the next run sets up a  *)
(* table, resets or not.                                                    *)
PassIsReported ==
    (/\ \A w \in World : Of(w, {"none", "running", "failed"}) = {}
     /\ \E w \in World : Seen(w) # {})
    => AllPassed
=============================================================================
