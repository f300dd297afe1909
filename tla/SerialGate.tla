----------------------------- MODULE SerialGate -----------------------------
(***************************************************************************)
(* The gate under a client without interrupt handlers, as                  *)
(* nonsecure/main_ns.c is one: while a call is in progress nobody else     *)
(* calls or stores.  The steps of such a call, checks, copies and all,     *)
(* amount to one step of AtomicGate, the one that ends it.                 *)
(***************************************************************************)
EXTENDS SecureService

SerialNext == GateStep \/ (depth = 0 /\ ClientStep)

SerialSpec == Init /\ [][SerialNext]_vars /\ WF_vars(GateStep)

(* The call as its client sees it. *)
CallSeen ==
    IF depth = 0
    THEN [at |-> "none", service |-> "none", request |-> <<0, 0, 0>>, rc |-> 0]
    ELSE IF frame[1].pc = "return"
    THEN [at |-> "done", service |-> "none", request |-> <<0, 0, 0>>, rc |-> frame[1].rc]
    ELSE [at |-> "issued",
          service |-> IF frame[1].pc \in {"load", "store"} THEN "counter" ELSE "sign",
          request |-> <<frame[1].challenge, frame[1].out, frame[1].len>>, rc |-> 0]

(* Memory as the client finds it when the call is over. *)
MemSeen == IF depth > 0 /\ frame[1].pc = "copy_out" THEN frame[1].orig ELSE mem

Gate == INSTANCE AtomicGate WITH mem <- MemSeen, counter <- s_counter, call <- CallSeen

-----------------------------------------------------------------------------
(* Properties *)

(* Whatever its buffers overlap with, a call without preemption is served   *)
(* at one instant or refused at one, with the first reason that applies;    *)
(* and every call is served (both functions of secure_service.c).           *)
IsAtomic == Gate!AtomicSpec
=============================================================================
