--------------------------- MODULE IsolationDemo ---------------------------
(***************************************************************************)
(* What both examples of the repository promise (README.md of minimal-tz   *)
(* and of minimal-pmp, "What it demonstrates"): a boundary is raised; then *)
(* an untrusted client obtains the counter twice and one signature through *)
(* the gate; then it reaches across the boundary, is stopped, and what is  *)
(* left for the debugger to read is the full record of the run, with       *)
(* nothing leaked.  A reset may start it all over; left alone, the demo    *)
(* gets to its end.                                                        *)
(***************************************************************************)
EXTENDS Integers

VARIABLES
    boundary,   \* the isolation is in place
    counter,    \* the guarded counter
    signed,     \* the client has its signature
    outcome,    \* "none", or "blocked" once the client has reached across
    report      \* the record a debugger reads

demoVars == <<boundary, counter, signed, outcome, report>>

NoReport == [cnt1 |-> 0, cnt2 |-> 0, keyed |-> FALSE, leaked |-> FALSE]
FullReport == [cnt1 |-> 1, cnt2 |-> 2, keyed |-> TRUE, leaked |-> FALSE]

DemoInit ==
    boundary = FALSE /\ counter = 0 /\ signed = FALSE /\ outcome = "none"
    /\ report = NoReport

RaiseBoundary ==
    ~boundary /\ boundary' = TRUE /\ UNCHANGED <<counter, signed, outcome, report>>

GiveCounter ==
    /\ boundary /\ outcome = "none" /\ counter < 2
    /\ counter' = counter + 1
    /\ UNCHANGED <<boundary, signed, outcome, report>>

GiveSignature ==
    /\ boundary /\ outcome = "none" /\ counter = 2 /\ ~signed
    /\ signed' = TRUE
    /\ UNCHANGED <<boundary, counter, outcome, report>>

BlockTrespass ==
    /\ signed /\ outcome = "none" /\ outcome' = "blocked"
    /\ UNCHANGED <<boundary, counter, signed, report>>

Publish ==
    /\ outcome = "blocked" /\ report = NoReport /\ report' = FullReport
    /\ UNCHANGED <<boundary, counter, signed, outcome>>

Restart == demoVars' = <<FALSE, 0, FALSE, "none", NoReport>>

DemoStep == RaiseBoundary \/ GiveCounter \/ GiveSignature \/ BlockTrespass \/ Publish

DemoSpec == DemoInit /\ [][DemoStep \/ Restart]_demoVars /\ WF_demoVars(DemoStep)
=============================================================================
