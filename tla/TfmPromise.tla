----------------------------- MODULE TfmPromise -----------------------------
(***************************************************************************)
(* What the isolation HAL of the TF-M port is to the secure partition      *)
(* manager: set-up takes everything or stops, a partition is bound whole   *)
(* or refused, with the number of free regions as the only memory between  *)
(* the two, and whoever runs does so at its own privilege.                 *)
(***************************************************************************)
EXTENDS Integers, FiniteSetsExt, Sequences

CONSTANT Builds     \* as in TfmIsolation

VARIABLES
    build, refusing,        \* as in TfmIsolation
    phase,                  \* down, binding, up or stopped
    part, bound,            \* the next partition to be bound, those bound so far
    free,                   \* the regions the MPU has left
    running, unpriv
promiseVars == <<build, refusing, phase, part, bound, free, running, unpriv>>

StaticRegions   == IF build.meta THEN 5 ELSE 4
Unprivileged(p) == build.level # 1 /\ ~build.load[p].rot
Assets(p)       == build.load[p].assets

(* The regions p has been given when its k-th asset is looked at. *)
Regions(p, k) ==
    IF Unprivileged(p) THEN Cardinality({j \in 1..(k - 1) : Assets(p)[j].named}) ELSE 0

(* The assets that cannot be p's: not of this platform, or without a region *)
(* that p, being unprivileged, would need.                                  *)
Obstacles(p) ==
    {k \in DOMAIN Assets(p) :
       /\ Assets(p)[k].named
       /\ \/ ~Assets(p)[k].listed
          \/ Unprivileged(p) /\ (~Assets(p)[k].aligned \/ Regions(p, k) >= free)}

Down == phase = "down" /\ part = 1 /\ bound = {} /\ free = 0 /\ running = 0 /\ unpriv = FALSE
PromiseInit == build \in Builds /\ Down

(* A register that refuses writes may hold its setting from an earlier boot.*)
SetUp ==
    /\ phase = "down"
    /\ \/ /\ build.slots >= StaticRegions
          /\ phase' = "binding" /\ free' = build.slots - StaticRegions
       \/ /\ refusing # {} \/ build.slots < StaticRegions
          /\ phase' = "stopped" /\ UNCHANGED free
    /\ UNCHANGED <<build, refusing, part, bound, running, unpriv>>

Bind ==
    /\ phase = "binding" /\ part <= Len(build.load) /\ Obstacles(part) = {}
    /\ bound' = bound \cup {part} /\ part' = part + 1
    /\ free' = free - Regions(part, Len(Assets(part)) + 1)
    /\ UNCHANGED <<build, refusing, phase, running, unpriv>>

(* The regions given before the first obstacle stay given. *)
Refuse ==
    /\ phase = "binding" /\ part <= Len(build.load) /\ Obstacles(part) # {}
    /\ \/ phase' = "stopped" /\ free' = 0 /\ UNCHANGED part
       \/ part' = part + 1 /\ free' = free - Regions(part, Min(Obstacles(part)))
          /\ UNCHANGED phase
    /\ UNCHANGED <<build, refusing, bound, running, unpriv>>

Start ==
    /\ phase = "binding" /\ part = Len(build.load) + 1 /\ phase' = "up"
    /\ UNCHANGED <<build, refusing, part, bound, free, running, unpriv>>

Schedule ==
    /\ phase = "up"
    /\ \E q \in bound : running' = q /\ unpriv' = Unprivileged(q)
    /\ UNCHANGED <<build, refusing, phase, part, bound, free>>

Restart == Down' /\ UNCHANGED <<build, refusing>>

PromiseNext == SetUp \/ Bind \/ Refuse \/ Start \/ Schedule \/ Restart

(* Set-up and binding come to an end. *)
PromiseSpec ==
    /\ PromiseInit /\ [][PromiseNext]_promiseVars
    /\ WF_promiseVars(SetUp \/ Bind \/ Refuse \/ Start)
=============================================================================
