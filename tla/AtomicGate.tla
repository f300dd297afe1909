----------------------------- MODULE AtomicGate -----------------------------
(***************************************************************************)
(* What the gate of examples/minimal-tz is to a client that has no         *)
(* interrupt handlers, as the one the example ships: a call is served at   *)
(* one instant, whole or not at all.  It is secret.h's "challenge in,      *)
(* challenge XOR key out", with the refusals of secure_service.c.          *)
(***************************************************************************)
EXTENDS Integers

CONSTANTS AddrMax, NsRegions, SECURE_SIGN_MAX, SECRET_KEY_LEN, Byte, Xor, s_key,
          CounterRange, Request, Memory0        \* as in SecureService

VARIABLES mem, counter, call
gateVars == <<mem, counter, call>>

Address == 0..AddrMax
None    == <<0, 0, 0>>

NoCall == [at |-> "none", service |-> "none", request |-> None, rc |-> 0]
Issued(service, q) == [at |-> "issued", service |-> service, request |-> q, rc |-> 0]
Done(rc) == [at |-> "done", service |-> "none", request |-> None, rc |-> rc]

(* All len bytes from p on lie in one Non-Secure region, and do not reach   *)
(* the last byte there is.                                                  *)
NonSecure(p, len) ==
    /\ p + len <= AddrMax
    /\ \E r \in NsRegions : \A j \in 0..(len - 1) : r[1] <= p + j /\ p + j <= r[2]

Verdict(q) ==
    IF q[3] \notin 1..SECURE_SIGN_MAX THEN -1
    ELSE IF ~NonSecure(q[1], q[3]) THEN -2
    ELSE IF ~NonSecure(q[2], q[3]) THEN -3 ELSE 0

(* The transform of q's challenge as it stands in m, in place of q's out.   *)
Signed(m, q) ==
    [a \in Address |->
       IF a \in q[2]..(q[2] + q[3] - 1)
       THEN Xor[<<m[q[1] + (a - q[2])], s_key[(a - q[2]) % SECRET_KEY_LEN]>>] ELSE m[a]]

AtomicInit == mem \in Memory0 /\ counter = 0 /\ call = NoCall

Issue ==
    /\ call.at = "none"
    /\ \/ call' = Issued("counter", None)
       \/ \E q \in Request : call' = Issued("sign", q)
    /\ UNCHANGED <<mem, counter>>

Store ==
    /\ call.at = "none"
    /\ \E a \in Address, b \in Byte :
         /\ \E r \in NsRegions : r[1] <= a /\ a <= r[2]
         /\ mem' = [mem EXCEPT ![a] = b]
    /\ UNCHANGED <<counter, call>>

ServeCounter ==
    /\ call.at = "issued" /\ call.service = "counter"
    /\ counter' = (counter + 1) % CounterRange
    /\ call' = Done(counter')
    /\ UNCHANGED mem

ServeSign ==
    /\ call.at = "issued" /\ call.service = "sign"
    /\ call' = Done(Verdict(call.request))
    /\ mem' = IF Verdict(call.request) = 0 THEN Signed(mem, call.request) ELSE mem
    /\ UNCHANGED counter

Collect == call.at = "done" /\ call' = NoCall /\ UNCHANGED <<mem, counter>>

AtomicNext == Issue \/ Store \/ ServeCounter \/ ServeSign \/ Collect

(* Every call is served, and returns. *)
AtomicSpec ==
    /\ AtomicInit /\ [][AtomicNext]_gateVars
    /\ WF_gateVars(ServeCounter \/ ServeSign) /\ WF_gateVars(Collect)
=============================================================================
