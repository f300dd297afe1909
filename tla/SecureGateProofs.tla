-------------------------- MODULE SecureGateProofs --------------------------
(***************************************************************************)
(* Proofs about the Secure gate, for every memory size, region map, key,   *)
(* client program and depth of nesting: what SecureService lets a client   *)
(* have, what a call leaves in memory, and that calls which nobody         *)
(* preempts are steps of AtomicGate (SerialGate).                          *)
(***************************************************************************)
EXTENDS SerialGate, TLAPS

(* What the checks have established so far in each call in progress.        *)
Checking == {"check_len", "check_in", "check_out"}

LenChecked(f)  == f.pc \in {"check_in", "check_out"} \cup Busy => f.len \in 1..SECURE_SIGN_MAX
FromChecked(f) == f.pc \in {"check_out"} \cup Busy => CmseCheck(f.challenge, f.len)
OutChecked(f)  == f.pc \in Busy => CmseCheck(f.out, f.len)
IndexInside(f) == /\ f.pc \in Checking => f.i = 0
                  /\ f.pc \in Busy => f.i <= f.len

StoreReady(f)  == f.pc = "store" => f.rc \in 0..(CounterRange - 1)

Checked(f) ==
    LenChecked(f) /\ FromChecked(f) /\ OutChecked(f) /\ IndexInside(f) /\ StoreReady(f)

GateInv == TypeOK /\ \A d \in 1..MaxDepth : Checked(frame[d])

-----------------------------------------------------------------------------
LEMMA SomeByte == (CHOOSE b \in Byte : TRUE) \in Byte
  BY GateAssumption

LEMMA StaleTyped == Stale \in [BufIndex -> Byte]
  BY SomeByte DEF Stale

LEMMA IdleTyped == Idle \in Frame /\ Idle.pc = "idle" /\ Checked(Idle)
  <1>1. Idle \in Frame /\ Idle.pc = "idle"
    BY SomeByte, StaleTyped, GateAssumption DEF Idle, Frame, FramePc, Address
  <1> QED
    BY <1>1 DEF Checked, LenChecked, FromChecked, OutChecked, IndexInside, StoreReady,
        Busy, Checking

LEMMA ModInRange ==
    ASSUME NEW i \in Nat, NEW n \in Nat \ {0}
    PROVE  i % n \in 0..(n - 1)
  OBVIOUS

LEMMA KeyedTyped ==
    ASSUME NEW b \in Byte, NEW i \in Nat
    PROVE  Keyed(b, i) \in Byte
  <1>1. i % SECRET_KEY_LEN \in 0..(SECRET_KEY_LEN - 1)
    BY ModInRange, GateAssumption
  <1>2. s_key[i % SECRET_KEY_LEN] \in Byte
    BY <1>1, GateAssumption
  <1> QED
    BY <1>2, GateAssumption DEF Keyed

(* What cmse_check_address_range() promises of every byte of a range it     *)
(* accepts, although it looks at the two ends only.                         *)
LEMMA CmseCoversRange ==
    ASSUME NEW p \in Address, NEW len \in Nat \ {0}, CmseCheck(p, len), NEW j \in 0..(len - 1)
    PROVE  p + j \in Address /\ NsByte(p + j)
  <1>1. p + j \in Address
    BY GateAssumption DEF CmseCheck, Address
  <1>2. PICK r \in NsRegions : Within(p, r) /\ Within(p + len - 1, r)
    BY DEF CmseCheck
  <1>3. r[1] \in Int /\ r[2] \in Int
    BY GateAssumption DEF Address
  <1>4. Within(p + j, r)
    BY <1>2, <1>3 DEF Within, Address
  <1> QED
    BY <1>1, <1>4 DEF NsByte

LEMMA TopTyped ==
    ASSUME TypeOK, NEW p, At(p)
    PROVE  depth \in 1..MaxDepth /\ Top \in Frame /\ Top.pc = p
  BY GateAssumption DEF TypeOK, At, Top

LEMMA MinusInt == -1 \in Int /\ -2 \in Int /\ -3 \in Int
  OBVIOUS

LEMMA ReturnChecked ==
    ASSUME NEW f, f.pc = "return"
    PROVE  Checked(f)
  BY DEF Checked, LenChecked, FromChecked, OutChecked, IndexInside, StoreReady, Busy, Checking

(* Replacing the innermost call by one in a sound state keeps the frames    *)
(* sound, if it stays in progress.                                          *)
LEMMA SetTopSound ==
    ASSUME GateInv, depth \in 1..MaxDepth, NEW f \in Frame, f.pc # "idle", Checked(f),
           SetTop(f), depth' = depth
    PROVE  /\ frame' \in [1..MaxDepth -> Frame]
           /\ \A d \in 1..MaxDepth : Checked(frame'[d])
           /\ \A d \in 1..MaxDepth : d > depth' <=> frame'[d].pc = "idle"
  BY DEF GateInv, TypeOK, SetTop

THEOREM InitGateInv == Init => GateInv
  <1> SUFFICES ASSUME Init PROVE GateInv
    OBVIOUS
  <1>1. \A d \in 1..MaxDepth : frame[d] = Idle
    BY DEF Init
  <1>2. TypeOK
    <2>1. frame \in [1..MaxDepth -> Frame]
      BY IdleTyped DEF Init
    <2>2. \A d \in 1..MaxDepth : d > depth <=> frame[d].pc = "idle"
      BY <1>1, IdleTyped DEF Init
    <2> QED
      BY <2>1, <2>2, GateAssumption DEF Init, TypeOK
  <1> QED
    BY <1>1, <1>2, IdleTyped DEF GateInv

-----------------------------------------------------------------------------
(* The three checks: the index is 0, a failed check ends the call, and a    *)
(* passed one adds its fact.                                                *)
LEMMA CheckSteps ==
    ASSUME GateInv, CheckLen \/ CheckChallenge \/ CheckOut
    PROVE  GateInv'
  <1> USE DEF GateInv
  <1>1. /\ depth \in 1..MaxDepth /\ Top \in Frame /\ Checked(Top)
        /\ Top.pc \in Checking
    BY TopTyped DEF CheckLen, CheckChallenge, CheckOut, Checking, Top
  <1>2. UNCHANGED <<mem, s_counter, depth, calls, writes>>
    BY DEF CheckLen, CheckChallenge, CheckOut
  <1>3. PICK f \in Frame : SetTop(f) /\ f.pc # "idle" /\ Checked(f)
    <2>1. CASE CheckLen
      <3>1. CASE Top.len = 0 \/ Top.len > SECURE_SIGN_MAX
        <4> DEFINE f == [Top EXCEPT !.pc = "return", !.rc = -1]
        <4>1. f \in Frame /\ f.pc = "return"
          BY <1>1, MinusInt DEF Frame, FramePc
        <4>2. Checked(f)
          BY <4>1, ReturnChecked
        <4>3. SetTop(f)
          BY <2>1, <3>1 DEF CheckLen
        <4> QED
          BY <4>1, <4>2, <4>3
      <3>2. CASE ~(Top.len = 0 \/ Top.len > SECURE_SIGN_MAX)
        <4> DEFINE f == [Top EXCEPT !.pc = "check_in"]
        <4>1. /\ f \in Frame /\ f.pc = "check_in" /\ f.len = Top.len /\ f.i = Top.i
              /\ Top.len \in Nat
          BY <1>1 DEF Frame, FramePc
        <4>2. f.len \in 1..SECURE_SIGN_MAX
          BY <3>2, <4>1, GateAssumption
        <4>3. Top.i = 0
          BY <1>1 DEF Checked, IndexInside
        <4> QED
          BY <2>1, <3>2, <4>1, <4>2, <4>3 DEF CheckLen, Checked, LenChecked, FromChecked,
              OutChecked, IndexInside, StoreReady, Busy, Checking
      <3> QED
        BY <3>1, <3>2
    <2>2. CASE CheckChallenge
      <3>1. Top.pc = "check_in"
        BY <2>2 DEF CheckChallenge, At
      <3>2. CASE CmseCheck(Top.challenge, Top.len)
        <4> DEFINE f == [Top EXCEPT !.pc = "check_out"]
        <4>1. /\ f \in Frame /\ f.pc = "check_out" /\ f.len = Top.len /\ f.i = Top.i
              /\ f.challenge = Top.challenge
          BY <1>1 DEF Frame, FramePc
        <4> QED
          BY <1>1, <2>2, <3>1, <3>2, <4>1 DEF CheckChallenge, Checked, LenChecked,
              FromChecked, OutChecked, IndexInside, StoreReady, Busy, Checking
      <3>3. CASE ~CmseCheck(Top.challenge, Top.len)
        <4> DEFINE f == [Top EXCEPT !.pc = "return", !.rc = -2]
        <4>1. f \in Frame /\ f.pc = "return"
          BY <1>1, MinusInt DEF Frame, FramePc
        <4>2. Checked(f)
          BY <4>1, ReturnChecked
        <4>3. SetTop(f)
          BY <2>2, <3>3 DEF CheckChallenge
        <4> QED
          BY <4>1, <4>2, <4>3
      <3> QED
        BY <3>2, <3>3
    <2>3. CASE CheckOut
      <3>1. Top.pc = "check_out"
        BY <2>3 DEF CheckOut, At
      <3>2. CASE CmseCheck(Top.out, Top.len)
        <4> DEFINE f == [Top EXCEPT !.pc = "copy_in"]
        <4>1. /\ f \in Frame /\ f.pc = "copy_in" /\ f.len = Top.len /\ f.i = Top.i
              /\ f.challenge = Top.challenge /\ f.out = Top.out
          BY <1>1 DEF Frame, FramePc
        <4>2. f.i <= f.len
          BY <1>1, <3>1, <4>1 DEF Checked, IndexInside, Checking, Frame
        <4> QED
          BY <1>1, <2>3, <3>1, <3>2, <4>1, <4>2 DEF CheckOut, Checked, LenChecked,
              FromChecked, OutChecked, IndexInside, StoreReady, Busy, Checking
      <3>3. CASE ~CmseCheck(Top.out, Top.len)
        <4> DEFINE f == [Top EXCEPT !.pc = "return", !.rc = -3]
        <4>1. f \in Frame /\ f.pc = "return"
          BY <1>1, MinusInt DEF Frame, FramePc
        <4>2. Checked(f)
          BY <4>1, ReturnChecked
        <4>3. SetTop(f)
          BY <2>3, <3>3 DEF CheckOut
        <4> QED
          BY <4>1, <4>2, <4>3
      <3> QED
        BY <3>2, <3>3
    <2> QED
      BY <2>1, <2>2, <2>3
  <1> QED
    BY <1>1, <1>2, <1>3, SetTopSound DEF TypeOK

(* The counter, and the end of a call's loops. *)
LEMMA CounterSteps ==
    ASSUME GateInv, LoadCounter \/ StoreCounter
    PROVE  GateInv'
  <1> USE DEF GateInv
  <1>1. /\ depth \in 1..MaxDepth /\ Top \in Frame
        /\ UNCHANGED <<mem, depth, calls, writes>>
    BY TopTyped DEF LoadCounter, StoreCounter
  <1>2. CASE LoadCounter
    <2> DEFINE next == (s_counter + 1) % CounterRange
               f == [Top EXCEPT !.pc = "store", !.rc = next]
    <2>1. next \in 0..(CounterRange - 1) /\ next \in Int
      <3>1. s_counter + 1 \in Nat
        BY GateAssumption DEF TypeOK
      <3>2. CounterRange \in Nat \ {0}
        BY GateAssumption
      <3>3. (s_counter + 1) % CounterRange \in 0..(CounterRange - 1)
        BY <3>1, <3>2, ModInRange
      <3> QED
        BY <3>2, <3>3
    <2> HIDE DEF next
    <2>2. f \in Frame /\ f.pc = "store" /\ f.rc = next
      BY <1>1, <2>1 DEF Frame, FramePc
    <2>3. Checked(f)
      BY <1>1, <2>1, <2>2 DEF Frame, Checked, LenChecked, FromChecked, OutChecked,
          IndexInside, StoreReady, Busy, Checking
    <2>4. SetTop(f) /\ s_counter' = s_counter
      BY <1>2 DEF LoadCounter, next
    <2> QED
      BY <1>1, <2>2, <2>3, <2>4, SetTopSound DEF TypeOK
  <1>3. CASE StoreCounter
    <2> DEFINE f == [Top EXCEPT !.pc = "return"]
    <2>1. f \in Frame /\ f.pc = "return"
      BY <1>1 DEF Frame, FramePc
    <2>2. SetTop(f) /\ s_counter' = Top.rc
      BY <1>3 DEF StoreCounter
    <2>3. Top.rc \in 0..(CounterRange - 1)
      BY <1>1, <1>3 DEF StoreCounter, At, Top, Checked, StoreReady
    <2> QED
      BY <1>1, <2>1, <2>2, <2>3, ReturnChecked, SetTopSound DEF TypeOK
  <1> QED
    BY <1>2, <1>3

(* The index of a busy call that has bytes left, and the two bytes it names. *)
LEMMA BusyByte ==
    ASSUME GateInv, depth \in 1..MaxDepth, Top.pc \in Busy, Top.i < Top.len
    PROVE  /\ Top.i \in BufIndex /\ Top.i + 1 <= Top.len
           /\ Top.challenge + Top.i \in Address /\ NsByte(Top.challenge + Top.i)
           /\ Top.out + Top.i \in Address /\ NsByte(Top.out + Top.i)
  <1>1. Top \in Frame /\ Checked(Top)
    BY DEF GateInv, TypeOK, Top
  <1>2. /\ Top.challenge \in Address /\ Top.out \in Address /\ Top.i \in Nat
        /\ Top.len \in 1..SECURE_SIGN_MAX
        /\ CmseCheck(Top.challenge, Top.len) /\ CmseCheck(Top.out, Top.len)
    BY <1>1 DEF Frame, Checked, LenChecked, FromChecked, OutChecked
  <1>3. Top.i \in 0..(Top.len - 1) /\ Top.i \in BufIndex /\ Top.i + 1 <= Top.len
    BY <1>2, GateAssumption DEF BufIndex
  <1>4. Top.len \in Nat \ {0}
    BY <1>2, GateAssumption
  <1> QED
    BY <1>2, <1>3, <1>4, CmseCoversRange

(* Advancing a busy call keeps what its checks established. *)
LEMMA BusyChecked ==
    ASSUME NEW g, Checked(g), g.pc \in Busy,
           NEW f, f.pc \in Busy, f.len = g.len, f.challenge = g.challenge, f.out = g.out,
           f.i <= g.len
    PROVE  Checked(f)
  BY DEF Checked, LenChecked, FromChecked, OutChecked, IndexInside, StoreReady, Busy, Checking

LEMMA CopyInStep ==
    ASSUME GateInv, CopyIn
    PROVE  GateInv'
  <1>1. depth \in 1..MaxDepth /\ Top \in Frame /\ Top.pc = "copy_in" /\ Checked(Top)
    BY TopTyped DEF CopyIn, GateInv, Top
  <1>2. UNCHANGED <<mem, s_counter, depth, calls, writes>>
    BY DEF CopyIn
  <1>3. PICK f \in Frame : SetTop(f) /\ f.pc # "idle" /\ Checked(f)
    <2>1. CASE Top.i < Top.len
      <3> DEFINE v == mem[Top.challenge + Top.i]
                 f == [Top EXCEPT !.tmp_in = [Top.tmp_in EXCEPT ![Top.i] = v],
                                  !.i = Top.i + 1]
      <3>1. /\ Top.i \in BufIndex /\ Top.i + 1 <= Top.len
            /\ Top.challenge + Top.i \in Address
        BY <1>1, <2>1, BusyByte DEF Busy
      <3>2. v \in Byte
        BY <3>1 DEF GateInv, TypeOK
      <3> HIDE DEF v
      <3>3. Top.i + 1 \in Nat /\ [Top.tmp_in EXCEPT ![Top.i] = v] \in [BufIndex -> Byte]
        BY <1>1, <3>1, <3>2 DEF Frame
      <3>4. /\ f \in Frame /\ f.pc = "copy_in" /\ f.len = Top.len /\ f.i <= Top.len
            /\ f.challenge = Top.challenge /\ f.out = Top.out
        BY <1>1, <3>1, <3>3 DEF Frame
      <3> HIDE DEF f
      <3>5. Checked(f)
        BY <1>1, <3>4, BusyChecked DEF Busy
      <3>6. SetTop(f)
        <4>1. f = [Top EXCEPT !.tmp_in[Top.i] = mem[Top.challenge + Top.i], !.i = Top.i + 1]
          BY <1>1 DEF f, v, Frame
        <4>2. SetTop([Top EXCEPT !.tmp_in[Top.i] = mem[Top.challenge + Top.i],
                                 !.i = Top.i + 1])
          BY <2>1 DEF CopyIn
        <4> QED
          BY <4>1, <4>2
      <3> QED
        BY <3>4, <3>5, <3>6
    <2>2. CASE ~(Top.i < Top.len)
      <3> DEFINE f == [Top EXCEPT !.pc = "transform"]
      <3>1. /\ f \in Frame /\ f.pc = "transform" /\ f.len = Top.len /\ f.i = Top.i
            /\ f.challenge = Top.challenge /\ f.out = Top.out
        BY <1>1 DEF Frame, FramePc
      <3>2. Checked(f)
        BY <1>1, <3>1 DEF Checked, LenChecked, FromChecked, OutChecked, IndexInside, StoreReady,
            Busy, Checking
      <3>3. SetTop(f)
        BY <2>2 DEF CopyIn
      <3> QED
        BY <3>1, <3>2, <3>3
    <2> QED
      BY <2>1, <2>2
  <1> QED
    BY <1>1, <1>2, <1>3, SetTopSound DEF GateInv, TypeOK

LEMMA TransformStep ==
    ASSUME GateInv, Transform
    PROVE  GateInv'
  <1>1. depth \in 1..MaxDepth /\ Top \in Frame /\ Top.pc = "transform" /\ Checked(Top)
    BY TopTyped DEF Transform, GateInv, Top
  <1>2. UNCHANGED <<mem, s_counter, depth, calls, writes>>
    BY DEF Transform
  <1> DEFINE buf == [j \in BufIndex |-> IF j < Top.len THEN Keyed(Top.tmp_in[j], j)
                                                       ELSE Top.tmp_out[j]]
             f   == [Top EXCEPT !.pc = "copy_out", !.i = 0, !.tmp_out = buf]
  <1>3. buf \in [BufIndex -> Byte]
    <2>1. ASSUME NEW j \in BufIndex
          PROVE  Keyed(Top.tmp_in[j], j) \in Byte /\ Top.tmp_out[j] \in Byte
      <3>1. Top.tmp_in[j] \in Byte /\ Top.tmp_out[j] \in Byte /\ j \in Nat
        BY <1>1, GateAssumption DEF Frame, BufIndex
      <3> QED
        BY <3>1, KeyedTyped
    <2> QED
      BY <2>1
  <1>4. SetTop(f)
    BY DEF Transform
  <1> HIDE DEF buf
  <1>5. /\ f \in Frame /\ f.pc = "copy_out" /\ f.len = Top.len /\ f.i <= Top.len
        /\ f.challenge = Top.challenge /\ f.out = Top.out /\ Top.len \in Nat
    <2>1. Top.len \in Nat
      BY <1>1 DEF Frame
    <2>2. 0 <= Top.len
      BY <2>1
    <2>3. "copy_out" \in FramePc /\ 0 \in Nat
      BY DEF FramePc
    <2> QED
      BY <1>1, <1>3, <2>1, <2>2, <2>3 DEF Frame
  <1> HIDE DEF f
  <1>6. Checked(f)
    BY <1>1, <1>5, BusyChecked DEF Busy
  <1> QED
    BY <1>1, <1>2, <1>4, <1>5, <1>6, SetTopSound DEF GateInv, TypeOK

-----------------------------------------------------------------------------
(* Noting a foreign store changes no more than the history of a frame. *)
LEMMA HistoryOnly ==
    ASSUME NEW f \in Frame, Checked(f)
    PROVE  LET g == [f EXCEPT !.alone = FALSE]
           IN  /\ g \in Frame /\ g.pc = f.pc /\ g.len = f.len /\ g.i = f.i
               /\ g.challenge = f.challenge /\ g.out = f.out /\ Checked(g)
  <1> DEFINE g == [f EXCEPT !.alone = FALSE]
  <1>1. g \in Frame
    BY DEF Frame
  <1>2. /\ g.pc = f.pc /\ g.len = f.len /\ g.i = f.i
        /\ g.challenge = f.challenge /\ g.out = f.out /\ g.rc = f.rc
    BY DEF Frame
  <1> HIDE DEF g
  <1>3. Checked(g)
    BY <1>2 DEF Checked, LenChecked, FromChecked, OutChecked, IndexInside, StoreReady
  <1> QED
    BY <1>1, <1>2, <1>3 DEF g

LEMMA DisturbedSound ==
    ASSUME GateInv, NEW n \in Int
    PROVE  /\ Disturbed(n) \in [1..MaxDepth -> Frame]
           /\ \A d \in 1..MaxDepth :
                /\ Disturbed(n)[d].pc = frame[d].pc
                /\ Checked(Disturbed(n)[d])
                /\ d > n => Disturbed(n)[d] = frame[d]
  <1>1. ASSUME NEW d \in 1..MaxDepth
        PROVE  LET g == IF d <= n THEN [frame[d] EXCEPT !.alone = FALSE] ELSE frame[d]
               IN  /\ g \in Frame /\ g.pc = frame[d].pc /\ Checked(g)
                   /\ d > n => g = frame[d]
    <2>1. frame[d] \in Frame /\ Checked(frame[d])
      BY DEF GateInv, TypeOK
    <2>2. CASE d <= n
      <3>1. ~(d > n)
        BY <2>2, GateAssumption
      <3> QED
        BY <2>1, <2>2, <3>1, HistoryOnly
    <2>3. CASE ~(d <= n)
      BY <2>1, <2>3
    <2> QED
      BY <2>2, <2>3
  <1> QED
    BY <1>1 DEF Disturbed

(* A store to a byte the checks have covered. *)
LEMMA CopyOutStep ==
    ASSUME GateInv, CopyOut
    PROVE  GateInv'
  <1>1. depth \in 1..MaxDepth /\ Top \in Frame /\ Top.pc = "copy_out" /\ Checked(Top)
    BY TopTyped DEF CopyOut, GateInv, Top
  <1>2. UNCHANGED <<s_counter, depth, calls, writes>>
    BY DEF CopyOut
  <1>3. CASE Top.i < Top.len
    <2> DEFINE f == [Top EXCEPT !.i = Top.i + 1]
               g == Disturbed(depth - 1)
    <2>1. /\ Top.i \in BufIndex /\ Top.i + 1 <= Top.len /\ Top.i + 1 \in Nat
          /\ Top.out + Top.i \in Address
      BY <1>1, <1>3, BusyByte, GateAssumption DEF Busy, BufIndex
    <2>2. /\ f \in Frame /\ f.pc = "copy_out" /\ f.len = Top.len /\ f.i <= Top.len
          /\ f.challenge = Top.challenge /\ f.out = Top.out
      BY <1>1, <2>1 DEF Frame
    <2>3. mem' \in [Address -> Byte]
      <3>1. Top.tmp_out[Top.i] \in Byte
        BY <1>1, <2>1 DEF Frame
      <3>2. mem' = [mem EXCEPT ![Top.out + Top.i] = Top.tmp_out[Top.i]]
        BY <1>3 DEF CopyOut
      <3> QED
        BY <2>1, <3>1, <3>2 DEF GateInv, TypeOK
    <2>4. /\ g \in [1..MaxDepth -> Frame]
          /\ \A d \in 1..MaxDepth : g[d].pc = frame[d].pc /\ Checked(g[d])
          /\ g[depth] = Top
      BY <1>1, DisturbedSound, GateAssumption DEF Top
    <2>5. frame' = [g EXCEPT ![depth].i = Top.i + 1]
      BY <1>3 DEF CopyOut
    <2> HIDE DEF g
    <2>6. frame' = [g EXCEPT ![depth] = f]
      BY <1>1, <2>4, <2>5
    <2> HIDE DEF f
    <2>7. Checked(f)
      BY <1>1, <2>2, BusyChecked DEF Busy
    <2>8. /\ frame' \in [1..MaxDepth -> Frame]
          /\ \A d \in 1..MaxDepth : frame'[d].pc = frame[d].pc /\ Checked(frame'[d])
      BY <1>1, <2>2, <2>4, <2>6, <2>7 DEF Top
    <2> QED
      BY <1>2, <2>3, <2>8 DEF GateInv, TypeOK
  <1>4. CASE ~(Top.i < Top.len)
    <2> DEFINE f == [Top EXCEPT !.pc = "return"]
    <2>1. f \in Frame /\ f.pc = "return"
      BY <1>1 DEF Frame, FramePc
    <2>2. SetTop(f) /\ mem' = mem
      BY <1>4 DEF CopyOut
    <2> HIDE DEF f
    <2>3. Checked(f)
      BY <2>1, ReturnChecked
    <2> QED
      BY <1>1, <1>2, <2>1, <2>2, <2>3, SetTopSound DEF GateInv, TypeOK
  <1> QED
    BY <1>3, <1>4

LEMMA ReturnStep ==
    ASSUME GateInv, Return
    PROVE  GateInv'
  <1>1. depth \in 1..MaxDepth
    BY TopTyped DEF Return, GateInv
  <1>2. /\ frame' = [frame EXCEPT ![depth] = Idle] /\ depth' = depth - 1
        /\ UNCHANGED <<mem, s_counter, calls, writes>>
    BY DEF Return, SetTop
  <1>3. /\ frame' \in [1..MaxDepth -> Frame]
        /\ \A d \in 1..MaxDepth : Checked(frame'[d])
        /\ \A d \in 1..MaxDepth : d > depth' <=> frame'[d].pc = "idle"
        /\ depth' \in 0..MaxDepth
    BY <1>1, <1>2, IdleTyped, GateAssumption DEF GateInv, TypeOK
  <1> QED
    BY <1>2, <1>3 DEF GateInv, TypeOK

(* A new call is the innermost one, and nothing is checked yet. *)
LEMMA EnterStep ==
    ASSUME GateInv, CallGetCounter \/ CallSign
    PROVE  GateInv'
  <1>1. PICK start \in {"load", "check_len"}, q \in Address \X Address \X Nat : Enter(start, q)
    <2>1. CASE CallGetCounter
      <3>1. <<0, 0, 0>> \in Address \X Address \X Nat
        BY GateAssumption DEF Address
      <3> QED
        BY <2>1, <3>1 DEF CallGetCounter
    <2>2. CASE CallSign
      BY <2>2, GateAssumption DEF CallSign
    <2> QED
      BY <2>1, <2>2
  <1> DEFINE f == NewFrame(start, q)
  <1>2. /\ depth + 1 \in 1..MaxDepth /\ depth' = depth + 1
        /\ frame' = [frame EXCEPT ![depth + 1] = f]
        /\ calls' \in 0..MaxCalls /\ UNCHANGED <<mem, s_counter, writes>>
    BY <1>1, GateAssumption DEF Enter, GateInv, TypeOK
  <1>3. f \in Frame /\ f.pc = start /\ f.i = 0
    <2>1. q[1] \in Address /\ q[2] \in Address /\ q[3] \in Nat
      OBVIOUS
    <2>2. mem \in [Address -> Byte]
      BY DEF GateInv, TypeOK
    <2> QED
      BY <2>1, <2>2, StaleTyped DEF NewFrame, Frame, FramePc
  <1> HIDE DEF f
  <1>4. Checked(f) /\ f.pc # "idle"
    BY <1>3 DEF Checked, LenChecked, FromChecked, OutChecked, IndexInside, StoreReady,
        Busy, Checking
  <1>5. /\ frame' \in [1..MaxDepth -> Frame]
        /\ \A d \in 1..MaxDepth : Checked(frame'[d])
    BY <1>2, <1>3, <1>4 DEF GateInv, TypeOK
  <1>6. \A d \in 1..MaxDepth : d > depth' <=> frame'[d].pc = "idle"
    BY <1>2, <1>3, <1>4 DEF GateInv, TypeOK
  <1>7. depth' \in 0..MaxDepth
    BY <1>2, GateAssumption
  <1> QED
    BY <1>2, <1>5, <1>6, <1>7 DEF GateInv, TypeOK

LEMMA ClientStoreStep ==
    ASSUME GateInv, ClientStore
    PROVE  GateInv'
  <1>1. PICK a \in Address, b \in Byte : NsByte(a) /\ mem' = [mem EXCEPT ![a] = b]
    BY DEF ClientStore
  <1>2. /\ frame' = Disturbed(depth) /\ writes' \in 0..MaxWrites
        /\ UNCHANGED <<s_counter, depth, calls>>
    BY GateAssumption DEF ClientStore, GateInv, TypeOK
  <1>3. mem' \in [Address -> Byte]
    BY <1>1 DEF GateInv, TypeOK
  <1>4. depth \in Int
    BY GateAssumption DEF GateInv, TypeOK
  <1>5. /\ frame' \in [1..MaxDepth -> Frame]
        /\ \A d \in 1..MaxDepth : frame'[d].pc = frame[d].pc /\ Checked(frame'[d])
    BY <1>2, <1>4, DisturbedSound
  <1> QED
    BY <1>2, <1>3, <1>5 DEF GateInv, TypeOK

THEOREM NextGateInv == GateInv /\ [Next]_vars => GateInv'
  <1> SUFFICES ASSUME GateInv, [Next]_vars PROVE GateInv'
    OBVIOUS
  <1>1. CASE GateStep
    BY <1>1, CounterSteps, CheckSteps, CopyInStep, TransformStep, CopyOutStep, ReturnStep
       DEF GateStep
  <1>2. CASE ClientStep
    BY <1>2, EnterStep, ClientStoreStep DEF ClientStep
  <1>3. CASE UNCHANGED vars
    BY <1>3 DEF vars, GateInv, TypeOK
  <1> QED
    BY <1>1, <1>2, <1>3 DEF Next

THEOREM GateInvariant == Spec => []GateInv
  BY InitGateInv, NextGateInv, PTL DEF Spec

(* Type correctness of the gate, counter width included. *)
THEOREM GateTypeCorrect == Spec => []TypeOK
  <1>1. GateInv => TypeOK
    BY DEF GateInv
  <1> QED
    BY <1>1, GateInvariant, PTL

(* Past the checks, the whole of both ranges is Non-Secure. *)
THEOREM RangesAlwaysNonSecure == Spec => []RangesNonSecure
  <1>1. GateInv => RangesNonSecure
    <2> SUFFICES ASSUME GateInv, NEW d \in 1..MaxDepth, frame[d].pc \in Busy
                 PROVE  /\ frame[d].len \in 1..SECURE_SIGN_MAX /\ frame[d].i <= frame[d].len
                        /\ \A j \in 0..(frame[d].len - 1) :
                             /\ frame[d].challenge + j <= AddrMax
                             /\ NsByte(frame[d].challenge + j)
                             /\ frame[d].out + j <= AddrMax /\ NsByte(frame[d].out + j)
      BY DEF RangesNonSecure
    <2>1. frame[d] \in Frame /\ Checked(frame[d])
      BY DEF GateInv, TypeOK
    <2>2. /\ frame[d].challenge \in Address /\ frame[d].out \in Address
          /\ frame[d].len \in 1..SECURE_SIGN_MAX /\ frame[d].i <= frame[d].len
          /\ CmseCheck(frame[d].challenge, frame[d].len)
          /\ CmseCheck(frame[d].out, frame[d].len)
      BY <2>1 DEF Frame, Checked, LenChecked, FromChecked, OutChecked, IndexInside
    <2>3. frame[d].len \in Nat \ {0}
      BY <2>2, GateAssumption
    <2>4. \A j \in 0..(frame[d].len - 1) :
             /\ frame[d].challenge + j \in Address /\ NsByte(frame[d].challenge + j)
             /\ frame[d].out + j \in Address /\ NsByte(frame[d].out + j)
      BY <2>2, <2>3, CmseCoversRange
    <2> QED
      BY <2>2, <2>4 DEF Address
  <1> QED
    BY <1>1, GateInvariant, PTL

(* No call, whatever its arguments and whoever preempts it, changes a byte   *)
(* outside Non-Secure memory.                                                *)
THEOREM SecureBytesAlwaysKept == Spec => SecureBytesKept
  <1>1. GateInv /\ [Next]_vars => [\A a \in Address : ~NsByte(a) => mem'[a] = mem[a]]_vars
    <2> SUFFICES ASSUME GateInv, Next, NEW a \in Address, ~NsByte(a)
                 PROVE  mem'[a] = mem[a]
      OBVIOUS
    <2>1. CASE CopyOut
      <3>1. depth \in 1..MaxDepth /\ Top.pc = "copy_out"
        BY <2>1, TopTyped DEF CopyOut, GateInv
      <3>2. CASE Top.i < Top.len
        <4>1. NsByte(Top.out + Top.i)
          BY <3>1, <3>2, BusyByte DEF Busy
        <4>2. mem' = [mem EXCEPT ![Top.out + Top.i] = Top.tmp_out[Top.i]]
          BY <2>1, <3>2 DEF CopyOut
        <4>3. a # Top.out + Top.i
          BY <4>1
        <4> QED
          BY <4>2, <4>3 DEF GateInv, TypeOK
      <3>3. CASE ~(Top.i < Top.len)
        BY <2>1, <3>3 DEF CopyOut
      <3> QED
        BY <3>2, <3>3
    <2>2. CASE ClientStore
      <3>1. PICK s \in Address, b \in Byte : NsByte(s) /\ mem' = [mem EXCEPT ![s] = b]
        BY <2>2 DEF ClientStore
      <3>2. a # s
        BY <3>1
      <3> QED
        BY <3>1, <3>2 DEF GateInv, TypeOK
    <2>3. CASE ~CopyOut /\ ~ClientStore
      BY <2>3 DEF Next, GateStep, ClientStep, LoadCounter, StoreCounter, CheckLen, CheckChallenge,
          CheckOut, CopyIn, Transform, Return, CallGetCounter, CallSign, Enter
    <2> QED
      BY <2>1, <2>2, <2>3
  <1> QED
    BY <1>1, GateInvariant, PTL DEF Spec, SecureBytesKept

-----------------------------------------------------------------------------
(* What a call leaves in memory *)

(* The transform of a frame's challenge as it was at the call, in out. *)
InOut(f, a) == a \in f.out..(f.out + f.len - 1)
Result(f) ==
    [a \in Address |-> IF InOut(f, a) THEN Keyed(f.orig[f.challenge + (a - f.out)], a - f.out)
                                      ELSE f.orig[a]]

(* What a call that nobody has disturbed has done, with m the memory: read  *)
(* the first i bytes; transformed all; stored the first i; or ended, with   *)
(* the whole result or with nothing stored.                                 *)
Before == {"load", "store", "check_len", "check_in", "check_out", "copy_in", "transform"}
Read(f, n) == \A j \in 0..(n - 1) : f.tmp_in[j] = f.orig[f.challenge + j]
Keys(f)    == \A j \in 0..(f.len - 1) : f.tmp_out[j] = Keyed(f.orig[f.challenge + j], j)
Stored(f, m) ==
    \A a \in Address : m[a] = IF a \in f.out..(f.out + f.i - 1) THEN f.tmp_out[a - f.out]
                                                                ELSE f.orig[a]

Sound(f, m) ==
    f.alone =>
      /\ f.pc \in Before => m = f.orig
      /\ f.pc = "copy_in" => Read(f, f.i)
      /\ f.pc = "transform" => Read(f, f.len)
      /\ f.pc = "copy_out" => Keys(f) /\ Stored(f, m)
      /\ f.pc = "return" => m = IF f.rc = 0 THEN Result(f) ELSE f.orig

(* A call of the counter has no buffers, one that goes on has no error, and *)
(* one that ends without has had its out checked.                           *)
Shape(f) ==
    /\ f.pc = "return" /\ f.rc = 0 /\ f.len # 0 => CmseCheck(f.out, f.len)
    /\ f.pc \in {"load", "store"} => f.len = 0
    /\ f.pc \in Checking \cup Busy => f.rc = 0

ResultInv == \A d \in 1..MaxDepth : Shape(frame[d]) /\ Sound(frame[d], mem)

-----------------------------------------------------------------------------
LEMMA EmptyResult ==
    ASSUME NEW f \in Frame, f.len = 0
    PROVE  Result(f) = f.orig
  <1>1. \A a \in Address : ~InOut(f, a)
    BY GateAssumption DEF InOut, Frame, Address
  <1>2. f.orig \in [Address -> Byte]
    BY DEF Frame
  <1> QED
    BY <1>1, <1>2 DEF Result

(* Replacing the innermost call, memory untouched. *)
LEMMA TopSound ==
    ASSUME GateInv, ResultInv, depth \in 1..MaxDepth, mem' = mem,
           NEW f, SetTop(f), Shape(f), Sound(f, mem)
    PROVE  ResultInv'
  <1>1. frame' = [frame EXCEPT ![depth] = f] /\ frame \in [1..MaxDepth -> Frame]
    BY DEF SetTop, GateInv, TypeOK
  <1>2. \A d \in 1..MaxDepth : Shape(frame'[d]) /\ Sound(frame'[d], mem)
    BY <1>1 DEF ResultInv
  <1>3. \A d \in 1..MaxDepth : Sound(frame'[d], mem')
    BY <1>2
  <1> QED
    BY <1>2, <1>3 DEF ResultInv

LEMMA IdleSound == Shape(Idle) /\ \A m : Sound(Idle, m)
  BY DEF Shape, Sound, Idle, Before, Checking, Busy

LEMMA CounterSound ==
    ASSUME GateInv, ResultInv, LoadCounter \/ StoreCounter
    PROVE  ResultInv'
  <1>1. /\ depth \in 1..MaxDepth /\ Top \in Frame /\ mem' = mem
        /\ Shape(Top) /\ Sound(Top, mem) /\ Top.pc \in {"load", "store"}
    BY TopTyped DEF LoadCounter, StoreCounter, GateInv, ResultInv, Top
  <1>2. CASE LoadCounter
    <2> DEFINE f == [Top EXCEPT !.pc = "store", !.rc = (s_counter + 1) % CounterRange]
    <2>1. SetTop(f)
      BY <1>2 DEF LoadCounter
    <2>2. f.pc = "store" /\ f.len = Top.len /\ f.orig = Top.orig /\ f.alone = Top.alone
      BY <1>1 DEF Frame
    <2> HIDE DEF f
    <2>3. Shape(f) /\ Sound(f, mem)
      BY <1>1, <2>2 DEF Shape, Sound, Before, Checking, Busy
    <2> QED
      BY <1>1, <2>1, <2>3, TopSound
  <1>3. CASE StoreCounter
    <2> DEFINE f == [Top EXCEPT !.pc = "return"]
    <2>1. SetTop(f)
      BY <1>3 DEF StoreCounter
    <2>2. /\ f \in Frame /\ f.pc = "return" /\ f.len = Top.len /\ f.orig = Top.orig
          /\ f.alone = Top.alone
      BY <1>1 DEF Frame, FramePc
    <2> HIDE DEF f
    <2>3. f.len = 0 /\ Result(f) = f.orig
      BY <1>1, <2>2, EmptyResult DEF Shape
    <2>4. Shape(f) /\ Sound(f, mem)
      BY <1>1, <2>2, <2>3 DEF Shape, Sound, Before, Checking, Busy
    <2> QED
      BY <1>1, <2>1, <2>4, TopSound
  <1> QED
    BY <1>2, <1>3

(* A passed check changes nothing but the program counter, a failed one     *)
(* ends the call with an error.                                             *)
LEMMA RefusedSound ==
    ASSUME NEW g \in Frame, Sound(g, mem), g.pc \in Checking,
           NEW f \in Frame, f.pc = "return", f.rc \in {-1, -2, -3},
           f.orig = g.orig, f.alone = g.alone
    PROVE  Shape(f) /\ Sound(f, mem)
  <1>1. f.rc # 0
    OBVIOUS
  <1> QED
    BY <1>1 DEF Shape, Sound, Before, Checking, Busy

LEMMA PassedSound ==
    ASSUME NEW g \in Frame, Sound(g, mem), Shape(g), g.pc \in Checking, g.i = 0,
           NEW f \in Frame, f.pc \in {"check_in", "check_out", "copy_in"}, f.i = g.i,
           f.rc = g.rc, f.orig = g.orig, f.alone = g.alone
    PROVE  Shape(f) /\ Sound(f, mem)
  <1>1. Read(f, f.i)
    BY DEF Read
  <1> QED
    BY <1>1 DEF Shape, Sound, Before, Checking, Busy

LEMMA CheckSound ==
    ASSUME GateInv, ResultInv, CheckLen \/ CheckChallenge \/ CheckOut
    PROVE  ResultInv'
  <1>1. /\ depth \in 1..MaxDepth /\ Top \in Frame /\ mem' = mem /\ Top.i = 0
        /\ Shape(Top) /\ Sound(Top, mem) /\ Top.pc \in Checking
    BY TopTyped DEF CheckLen, CheckChallenge, CheckOut, GateInv, ResultInv, Top, Checking,
       Checked, IndexInside
  <1>2. PICK p \in {"check_in", "check_out", "copy_in"}, e \in {-1, -2, -3} :
          SetTop([Top EXCEPT !.pc = p]) \/ SetTop([Top EXCEPT !.pc = "return", !.rc = e])
    BY DEF CheckLen, CheckChallenge, CheckOut
  <1>3. CASE SetTop([Top EXCEPT !.pc = p])
    <2> DEFINE f == [Top EXCEPT !.pc = p]
    <2>1. /\ f \in Frame /\ f.pc = p /\ f.i = Top.i /\ f.rc = Top.rc /\ f.orig = Top.orig
          /\ f.alone = Top.alone
      BY <1>1 DEF Frame, FramePc
    <2> HIDE DEF f
    <2>2. Shape(f) /\ Sound(f, mem)
      BY <1>1, <2>1, PassedSound
    <2> QED
      BY <1>1, <1>3, <2>2, TopSound DEF f
  <1>4. CASE SetTop([Top EXCEPT !.pc = "return", !.rc = e])
    <2> DEFINE f == [Top EXCEPT !.pc = "return", !.rc = e]
    <2>1. /\ f \in Frame /\ f.pc = "return" /\ f.rc = e /\ f.orig = Top.orig
          /\ f.alone = Top.alone
      BY <1>1, MinusInt DEF Frame, FramePc
    <2> HIDE DEF f
    <2>2. Shape(f) /\ Sound(f, mem)
      BY <1>1, <2>1, RefusedSound
    <2> QED
      BY <1>1, <1>4, <2>2, TopSound DEF f
  <1> QED
    BY <1>2, <1>3, <1>4

-----------------------------------------------------------------------------
LEMMA CopyInSound ==
    ASSUME GateInv, ResultInv, CopyIn
    PROVE  ResultInv'
  <1>1. /\ depth \in 1..MaxDepth /\ Top \in Frame /\ mem' = mem /\ Top.pc = "copy_in"
        /\ Shape(Top) /\ Sound(Top, mem) /\ Checked(Top)
    BY TopTyped DEF CopyIn, GateInv, ResultInv, Top
  <1>2. CASE Top.i < Top.len
    <2> DEFINE v == mem[Top.challenge + Top.i]
               f == [Top EXCEPT !.tmp_in[Top.i] = v, !.i = Top.i + 1]
    <2>1. SetTop(f)
      BY <1>2 DEF CopyIn
    <2>2. Top.i \in BufIndex /\ Top.i \in Nat
      BY <1>1, <1>2, BusyByte DEF Busy, BufIndex, Frame
    <2> HIDE DEF v
    <2>3. /\ f.pc = "copy_in" /\ f.i = Top.i + 1 /\ f.rc = Top.rc /\ f.orig = Top.orig
          /\ f.alone = Top.alone /\ f.challenge = Top.challenge
          /\ f.tmp_in = [Top.tmp_in EXCEPT ![Top.i] = v]
      BY <1>1 DEF Frame
    <2> HIDE DEF f
    <2>4. Top.tmp_in \in [BufIndex -> Byte]
      BY <1>1 DEF Frame
    <2>5. ASSUME f.alone PROVE mem = f.orig /\ Read(f, f.i)
      <3>1. mem = Top.orig /\ Read(Top, Top.i)
        BY <1>1, <2>3, <2>5 DEF Sound, Before
      <3>2. ASSUME NEW j \in 0..(f.i - 1) PROVE f.tmp_in[j] = f.orig[f.challenge + j]
        <4>1. j \in 0..Top.i /\ j \in BufIndex
          BY <2>2, <2>3, GateAssumption DEF BufIndex
        <4>2. CASE j = Top.i
          BY <2>2, <2>3, <2>4, <3>1, <4>2 DEF v
        <4>3. CASE j # Top.i
          BY <2>2, <2>3, <2>4, <3>1, <4>1, <4>3 DEF Read
        <4> QED
          BY <4>2, <4>3
      <3> QED
        BY <2>3, <3>1, <3>2 DEF Read
    <2>6. Shape(f) /\ Sound(f, mem)
      BY <1>1, <2>3, <2>5 DEF Shape, Sound, Before, Checking, Busy
    <2> QED
      BY <1>1, <2>1, <2>6, TopSound
  <1>3. CASE ~(Top.i < Top.len)
    <2> DEFINE f == [Top EXCEPT !.pc = "transform"]
    <2>1. SetTop(f)
      BY <1>3 DEF CopyIn
    <2>2. Top.i = Top.len
      BY <1>1, <1>3 DEF Checked, IndexInside, Busy, Frame
    <2>3. /\ f.pc = "transform" /\ f.len = Top.len /\ f.rc = Top.rc /\ f.orig = Top.orig
          /\ f.alone = Top.alone /\ f.challenge = Top.challenge /\ f.tmp_in = Top.tmp_in
      BY <1>1 DEF Frame
    <2> HIDE DEF f
    <2>4. Shape(f) /\ Sound(f, mem)
      BY <1>1, <2>2, <2>3 DEF Shape, Sound, Before, Checking, Busy, Read
    <2> QED
      BY <1>1, <2>1, <2>4, TopSound
  <1> QED
    BY <1>2, <1>3

LEMMA TransformSound ==
    ASSUME GateInv, ResultInv, Transform
    PROVE  ResultInv'
  <1>1. /\ depth \in 1..MaxDepth /\ Top \in Frame /\ mem' = mem /\ Top.pc = "transform"
        /\ Shape(Top) /\ Sound(Top, mem) /\ Checked(Top)
    BY TopTyped DEF Transform, GateInv, ResultInv, Top
  <1> DEFINE buf == [j \in BufIndex |-> IF j < Top.len THEN Keyed(Top.tmp_in[j], j)
                                                       ELSE Top.tmp_out[j]]
             f   == [Top EXCEPT !.pc = "copy_out", !.i = 0, !.tmp_out = buf]
  <1>2. SetTop(f)
    BY DEF Transform
  <1>3. Top.len \in 1..SECURE_SIGN_MAX
    BY <1>1 DEF Checked, LenChecked, Busy
  <1>4. \A j \in 0..(Top.len - 1) : buf[j] = Keyed(Top.tmp_in[j], j)
    <2> SUFFICES ASSUME NEW j \in 0..(Top.len - 1) PROVE buf[j] = Keyed(Top.tmp_in[j], j)
      OBVIOUS
    <2>1. j \in BufIndex /\ j < Top.len
      BY <1>3, GateAssumption DEF BufIndex
    <2> QED
      BY <2>1
  <1> HIDE DEF buf
  <1>5. /\ f.pc = "copy_out" /\ f.i = 0 /\ f.len = Top.len /\ f.rc = Top.rc /\ f.orig = Top.orig
        /\ f.alone = Top.alone /\ f.challenge = Top.challenge /\ f.out = Top.out
        /\ f.tmp_out = buf
    BY <1>1 DEF Frame
  <1> HIDE DEF f
  <1>6. ASSUME f.alone PROVE Keys(f) /\ Stored(f, mem)
    <2>1. mem = f.orig /\ Read(Top, Top.len)
      BY <1>1, <1>5, <1>6 DEF Sound, Before
    <2>2. Keys(f)
      BY <1>4, <1>5, <2>1 DEF Keys, Read
    <2>3. \A a \in Address : a \notin f.out..(f.out + f.i - 1)
      <3>1. f.out \in Nat
        BY <1>1, <1>5, GateAssumption DEF Frame, Address
      <3> QED
        BY <1>5, <3>1 DEF Address
    <2> QED
      BY <2>1, <2>2, <2>3 DEF Stored
  <1>7. Shape(f) /\ Sound(f, mem)
    BY <1>1, <1>5, <1>6 DEF Shape, Sound, Before, Checking, Busy
  <1> QED
    BY <1>1, <1>2, <1>7, TopSound

(* A store into memory leaves alone only those calls that it is not foreign  *)
(* to: the innermost one, if the store is its own.                           *)
LEMMA ForeignSound ==
    ASSUME NEW f \in Frame, NEW m, Shape(f)
    PROVE  LET g == [f EXCEPT !.alone = FALSE] IN Shape(g) /\ Sound(g, m)
  <1> DEFINE g == [f EXCEPT !.alone = FALSE]
  <1>1. g.pc = f.pc /\ g.len = f.len /\ g.rc = f.rc /\ g.out = f.out /\ ~g.alone
    BY DEF Frame
  <1> HIDE DEF g
  <1>2. Shape(g) /\ Sound(g, m)
    BY <1>1 DEF Shape, Sound
  <1> QED
    BY <1>2 DEF g

LEMMA DisturbedFrames ==
    ASSUME GateInv, ResultInv, NEW n \in Int, n <= depth, NEW m, NEW d \in 1..MaxDepth,
           d <= n \/ d > depth
    PROVE  Shape(Disturbed(n)[d]) /\ Sound(Disturbed(n)[d], m)
  <1>1. frame[d] \in Frame /\ Shape(frame[d]) /\ depth \in Int
    BY GateAssumption DEF GateInv, TypeOK, ResultInv
  <1>2. CASE d <= n
    <2>1. Disturbed(n)[d] = [frame[d] EXCEPT !.alone = FALSE]
      BY <1>2 DEF Disturbed
    <2> QED
      BY <1>1, <2>1, ForeignSound
  <1>3. CASE ~(d <= n)
    <2>1. Disturbed(n)[d] = frame[d] /\ frame[d].pc = "idle"
      BY <1>3 DEF Disturbed, GateInv, TypeOK
    <2> QED
      BY <2>1 DEF Shape, Sound, Before, Checking, Busy
  <1> QED
    BY <1>2, <1>3

(* The next byte of the result: all that are stored so far, and no other,   *)
(* differ from memory at the call.                                          *)
LEMMA StoredByte ==
    ASSUME NEW f \in Frame, f.i < f.len, f.i \in BufIndex, f.out + f.i \in Address,
           NEW m \in [Address -> Byte], Stored(f, m),
           NEW g, g.i = f.i + 1, g.out = f.out, g.tmp_out = f.tmp_out, g.orig = f.orig
    PROVE  Stored(g, [m EXCEPT ![f.out + f.i] = f.tmp_out[f.i]])
  <1> DEFINE n == [m EXCEPT ![f.out + f.i] = f.tmp_out[f.i]]
  <1>1. f.out \in Nat /\ f.i \in Nat
    BY GateAssumption DEF Frame, Address
  <1>2. ASSUME NEW a \in Address
        PROVE  n[a] = IF a \in g.out..(g.out + g.i - 1) THEN g.tmp_out[a - g.out] ELSE g.orig[a]
    <2>1. a \in Nat
      BY GateAssumption DEF Address
    <2>2. CASE a = f.out + f.i
      <3>1. a - f.out = f.i /\ a \in f.out..(f.out + (f.i + 1) - 1)
        BY <1>1, <2>1, <2>2
      <3>2. n[a] = f.tmp_out[f.i]
        BY <2>2
      <3> HIDE DEF n
      <3> QED
        BY <3>1, <3>2
    <2>3. CASE a # f.out + f.i
      <3>1. n[a] = m[a]
        BY <2>3
      <3>2. a \in f.out..(f.out + f.i - 1) <=> a \in f.out..(f.out + (f.i + 1) - 1)
        BY <1>1, <2>1, <2>3
      <3> HIDE DEF n
      <3> QED
        BY <3>1, <3>2 DEF Stored
    <2> QED
      BY <2>2, <2>3
  <1> QED
    BY <1>2 DEF Stored

LEMMA CopyOutSound ==
    ASSUME GateInv, ResultInv, CopyOut
    PROVE  ResultInv'
  <1>1. /\ depth \in 1..MaxDepth /\ Top \in Frame /\ Top.pc = "copy_out" /\ depth' = depth
        /\ Shape(Top) /\ Sound(Top, mem) /\ Checked(Top) /\ mem \in [Address -> Byte]
    BY TopTyped DEF CopyOut, GateInv, TypeOK, ResultInv, Top
  <1>2. CASE Top.i < Top.len
    <2> DEFINE f == [Top EXCEPT !.i = Top.i + 1]
               g == Disturbed(depth - 1)
    <2>1. Top.i \in BufIndex /\ Top.out + Top.i \in Address
      BY <1>1, <1>2, BusyByte DEF Busy
    <2>2. /\ g \in [1..MaxDepth -> Frame] /\ g[depth] = Top
          /\ \A d \in 1..MaxDepth : d # depth => Shape(g[d]) /\ Sound(g[d], mem')
      <3>1. depth - 1 \in Int /\ depth - 1 <= depth /\ depth > depth - 1
        BY <1>1, GateAssumption
      <3>2. ASSUME NEW d \in 1..MaxDepth, d # depth PROVE d <= depth - 1 \/ d > depth
        BY <1>1, <3>2, GateAssumption
      <3>3. \A d \in 1..MaxDepth : d # depth => Shape(g[d]) /\ Sound(g[d], mem')
        BY <3>1, <3>2, DisturbedFrames
      <3> QED
        BY <1>1, <3>1, <3>3, DisturbedSound DEF Top
    <2>3. frame' = [g EXCEPT ![depth].i = Top.i + 1]
      BY <1>2 DEF CopyOut
    <2> HIDE DEF g
    <2>4. frame' = [g EXCEPT ![depth] = f]
      BY <1>1, <2>2, <2>3
    <2>5. /\ f.pc = "copy_out" /\ f.i = Top.i + 1 /\ f.len = Top.len /\ f.rc = Top.rc
          /\ f.orig = Top.orig /\ f.alone = Top.alone /\ f.challenge = Top.challenge
          /\ f.out = Top.out /\ f.tmp_out = Top.tmp_out
      BY <1>1 DEF Frame
    <2> HIDE DEF f
    <2>6. ASSUME f.alone PROVE Keys(f) /\ Stored(f, mem')
      <3>1. Keys(Top) /\ Stored(Top, mem)
        BY <1>1, <2>5, <2>6 DEF Sound
      <3>2. mem' = [mem EXCEPT ![Top.out + Top.i] = Top.tmp_out[Top.i]]
        BY <1>2 DEF CopyOut
      <3>3. Stored(f, mem')
        BY <1>1, <1>2, <2>1, <2>5, <3>1, <3>2, StoredByte
      <3> QED
        BY <2>5, <3>1, <3>3 DEF Keys
    <2>7. Shape(f) /\ Sound(f, mem')
      BY <1>1, <2>5, <2>6 DEF Shape, Sound, Before, Checking, Busy
    <2>8. \A d \in 1..MaxDepth : Shape(frame'[d]) /\ Sound(frame'[d], mem')
      BY <1>1, <2>2, <2>4, <2>7
    <2> QED
      BY <2>8 DEF ResultInv
  <1>3. CASE ~(Top.i < Top.len)
    <2> DEFINE f == [Top EXCEPT !.pc = "return"]
    <2>1. SetTop(f) /\ mem' = mem
      BY <1>3 DEF CopyOut
    <2>2. Top.i = Top.len
      BY <1>1, <1>3 DEF Checked, IndexInside, Busy, Frame
    <2>3. /\ f.pc = "return" /\ f.len = Top.len /\ f.rc = Top.rc
          /\ f.orig = Top.orig /\ f.alone = Top.alone /\ f.challenge = Top.challenge
          /\ f.out = Top.out
      BY <1>1 DEF Frame
    <2> HIDE DEF f
    <2>4. ASSUME f.alone PROVE mem = Result(f)
      <3>1. Keys(Top) /\ Stored(Top, mem)
        BY <1>1, <2>3, <2>4 DEF Sound
      <3>2. ASSUME NEW a \in Address
            PROVE  mem[a] = IF InOut(f, a) THEN Keyed(f.orig[f.challenge + (a - f.out)], a - f.out)
                                           ELSE f.orig[a]
        <4>1. a \in Nat /\ f.out \in Nat /\ f.len \in Nat
          BY <1>1, <2>3, GateAssumption DEF Address, Frame
        <4>2. CASE InOut(f, a)
          <5>1. a - f.out \in 0..(f.len - 1)
            BY <4>1, <4>2 DEF InOut
          <5> QED
            BY <2>2, <2>3, <3>1, <4>2, <5>1 DEF InOut, Keys, Stored
        <4>3. CASE ~InOut(f, a)
          BY <2>2, <2>3, <3>1, <4>3 DEF InOut, Stored
        <4> QED
          BY <4>2, <4>3
      <3> QED
        BY <1>1, <3>2 DEF Result
    <2>5. Shape(f) /\ Sound(f, mem)
      <3>1. f.rc = 0 /\ CmseCheck(f.out, f.len)
        BY <1>1, <2>3 DEF Shape, Busy, Checked, OutChecked
      <3> QED
        BY <2>3, <2>4, <3>1 DEF Shape, Sound, Before, Checking, Busy
    <2> QED
      BY <1>1, <2>1, <2>5, TopSound
  <1> QED
    BY <1>2, <1>3

LEMMA ReturnSound ==
    ASSUME GateInv, ResultInv, Return
    PROVE  ResultInv'
  <1>1. depth \in 1..MaxDepth /\ SetTop(Idle) /\ mem' = mem
    BY TopTyped DEF Return, GateInv
  <1> QED
    BY <1>1, IdleSound, TopSound

LEMMA EnterSound ==
    ASSUME GateInv, ResultInv, CallGetCounter \/ CallSign
    PROVE  ResultInv'
  <1>1. PICK start \in {"load", "check_len"}, q \in Request \cup {<<0, 0, 0>>} :
          Enter(start, q) /\ (start = "load" => q = <<0, 0, 0>>)
    BY DEF CallGetCounter, CallSign
  <1> DEFINE f == NewFrame(start, q)
  <1>2. /\ frame' = [frame EXCEPT ![depth + 1] = f] /\ mem' = mem
        /\ frame \in [1..MaxDepth -> Frame]
    BY <1>1 DEF Enter, GateInv, TypeOK
  <1>3. f.pc = start /\ f.rc = 0 /\ f.orig = mem /\ (start = "load" => f.len = 0)
    BY <1>1 DEF NewFrame
  <1> HIDE DEF f
  <1>4. Shape(f) /\ Sound(f, mem)
    BY <1>3 DEF Shape, Sound, Before, Checking, Busy
  <1>5. \A d \in 1..MaxDepth : Shape(frame'[d]) /\ Sound(frame'[d], mem)
    BY <1>2, <1>4 DEF ResultInv
  <1>6. \A d \in 1..MaxDepth : Sound(frame'[d], mem')
    BY <1>2, <1>5
  <1> QED
    BY <1>5, <1>6 DEF ResultInv

LEMMA ClientStoreSound ==
    ASSUME GateInv, ResultInv, ClientStore
    PROVE  ResultInv'
  <1>1. frame' = Disturbed(depth) /\ depth \in Int
    BY GateAssumption DEF ClientStore, GateInv, TypeOK
  <1>2. \A d \in 1..MaxDepth : d <= depth \/ d > depth
    BY <1>1
  <1>3. \A d \in 1..MaxDepth : Shape(Disturbed(depth)[d]) /\ Sound(Disturbed(depth)[d], mem')
    BY <1>1, <1>2, DisturbedFrames
  <1>4. \A d \in 1..MaxDepth : Shape(frame'[d]) /\ Sound(frame'[d], mem')
    BY <1>1, <1>3
  <1> QED
    BY <1>4 DEF ResultInv

LEMMA InitResult == Init => ResultInv
  <1> SUFFICES ASSUME Init PROVE ResultInv
    OBVIOUS
  <1>1. \A d \in 1..MaxDepth : frame[d] = Idle
    BY DEF Init
  <1> QED
    BY <1>1, IdleSound DEF ResultInv

LEMMA NextResult == GateInv /\ ResultInv /\ [Next]_vars => ResultInv'
  <1> SUFFICES ASSUME GateInv, ResultInv, [Next]_vars PROVE ResultInv'
    OBVIOUS
  <1>1. CASE GateStep
    BY <1>1, CounterSound, CheckSound, CopyInSound, TransformSound, CopyOutSound, ReturnSound
       DEF GateStep
  <1>2. CASE ClientStep
    BY <1>2, EnterSound, ClientStoreSound DEF ClientStep
  <1>3. CASE UNCHANGED vars
    BY <1>3 DEF vars, ResultInv
  <1> QED
    BY <1>1, <1>2, <1>3 DEF Next

THEOREM ResultInvariant == Spec => []ResultInv
  BY GateInvariant, InitResult, NextResult, PTL DEF Spec

(* A call that returns 0 and met no foreign store has put the transform of  *)
(* the challenge as it was at the call into out, however the two overlap.   *)
THEOREM SignsAlwaysTheOriginal == Spec => []SignsTheOriginal
  <1>1. GateInv /\ ResultInv => SignsTheOriginal
    <2> SUFFICES ASSUME GateInv, ResultInv,
                        NEW d \in 1..MaxDepth, frame[d].pc = "return", frame[d].rc = 0, frame[d].alone,
                        NEW j \in 0..(frame[d].len - 1)
                 PROVE  mem[frame[d].out + j] = Keyed(frame[d].orig[frame[d].challenge + j], j)
      BY DEF SignsTheOriginal
    <2> DEFINE f == frame[d]
               a == f.out + j
    <2>1. f \in Frame /\ Shape(f) /\ Sound(f, mem)
      BY DEF GateInv, TypeOK, ResultInv
    <2> HIDE DEF f
    <2>2. f.pc = "return" /\ f.rc = 0 /\ f.alone /\ j \in 0..(f.len - 1)
      BY DEF f
    <2>3. f.len \in Nat \ {0} /\ f.out \in Address /\ f.out \in Nat /\ j \in Nat
      BY <2>1, <2>2, GateAssumption DEF Frame, Address
    <2>4. mem = Result(f) /\ CmseCheck(f.out, f.len)
      BY <2>1, <2>2, <2>3 DEF Sound, Shape
    <2>5. a \in Address
      BY <2>2, <2>3, <2>4, CmseCoversRange
    <2>6. a - f.out = j /\ InOut(f, a)
      BY <2>2, <2>3 DEF InOut
    <2> HIDE DEF a
    <2>7. mem[a] = Keyed(f.orig[f.challenge + j], j)
      BY <2>4, <2>5, <2>6 DEF Result
    <2> QED
      BY <2>7 DEF a, f
  <1> QED
    BY <1>1, GateInvariant, ResultInvariant, PTL

(* A refused call that met no foreign store has left memory as it was. *)
THEOREM RefusalsAlwaysInert == Spec => []RefusalsAreInert
  <1>1. GateInv /\ ResultInv => RefusalsAreInert
    <2> SUFFICES ASSUME GateInv, ResultInv,
                        NEW d \in 1..MaxDepth, frame[d].pc = "return", frame[d].rc < 0, frame[d].alone
                 PROVE  mem = frame[d].orig
      BY DEF RefusalsAreInert
    <2>1. frame[d].rc # 0
      OBVIOUS
    <2> QED
      BY <2>1 DEF ResultInv, Sound
  <1> QED
    BY <1>1, GateInvariant, ResultInvariant, PTL

-----------------------------------------------------------------------------
(* One call at a time, and nobody else stores. *)
SerialInv ==
    /\ GateInv /\ ResultInv
    /\ depth \in {0, 1}
    /\ depth = 1 =>
         /\ frame[1].alone
         /\ frame[1].pc = "store" => frame[1].rc = (s_counter + 1) % CounterRange
         /\ frame[1].pc \notin {"load", "store", "return"} =>
              <<frame[1].challenge, frame[1].out, frame[1].len>> \in Request
         /\ frame[1].pc \in {"load", "store"} =>
              <<frame[1].challenge, frame[1].out, frame[1].len>> = <<0, 0, 0>>

(* The check of the ends of a range is a check of the range. *)
LEMMA CmseIsNonSecure ==
    ASSUME NEW p \in Address, NEW len \in Nat \ {0}
    PROVE  CmseCheck(p, len) <=> Gate!NonSecure(p, len)
  <1>1. p \in Nat /\ AddrMax \in Nat
    BY GateAssumption DEF Address
  <1>2. AddrMax - p >= len <=> p + len <= AddrMax
    BY <1>1
  <1>3. ASSUME NEW r \in NsRegions
        PROVE  Within(p, r) /\ Within(p + len - 1, r)
                 <=> \A j \in 0..(len - 1) : r[1] <= p + j /\ p + j <= r[2]
    <2>1. r[1] \in Int /\ r[2] \in Int
      BY GateAssumption DEF Address
    <2>2. ASSUME \A j \in 0..(len - 1) : r[1] <= p + j /\ p + j <= r[2]
          PROVE  Within(p, r) /\ Within(p + len - 1, r)
      <3>1. 0 \in 0..(len - 1) /\ len - 1 \in 0..(len - 1)
        OBVIOUS
      <3>2. p + 0 = p /\ p + (len - 1) = p + len - 1
        BY <1>1
      <3> QED
        BY <2>2, <3>1, <3>2 DEF Within
    <2>3. ASSUME Within(p, r), Within(p + len - 1, r), NEW j \in 0..(len - 1)
          PROVE  r[1] <= p + j /\ p + j <= r[2]
      BY <1>1, <2>1, <2>3 DEF Within
    <2> QED
      BY <2>2, <2>3
  <1> QED
    BY <1>2, <1>3 DEF CmseCheck, Gate!NonSecure

(* A step of the call in progress, as AtomicGate sees it. *)
LEMMA InCall ==
    ASSUME SerialInv, depth = 1, depth' = 1, NEW f, SetTop(f)
    PROVE  frame'[1] = f /\ Top = frame[1] /\ Top \in Frame /\ 1 \in 1..MaxDepth
  BY GateAssumption DEF SerialInv, GateInv, TypeOK, SetTop, Top

LEMMA InitAtomic == Init => SerialInv /\ Gate!AtomicInit
  <1> SUFFICES ASSUME Init PROVE SerialInv /\ Gate!AtomicInit
    OBVIOUS
  <1>1. SerialInv
    BY InitGateInv, InitResult DEF Init, SerialInv
  <1>2. CallSeen = Gate!NoCall /\ MemSeen = mem
    BY DEF Init, CallSeen, MemSeen, Gate!NoCall, Gate!None
  <1> QED
    BY <1>1, <1>2 DEF Init, Gate!AtomicInit

(* Steps that the client does not see. *)
LEMMA Hidden ==
    ASSUME depth = 1, depth' = 1, mem' = mem, s_counter' = s_counter,
           NEW f, NEW g, frame[1] = f, frame'[1] = g,
           f.pc \notin {"return", "copy_out"}, g.pc \notin {"return", "copy_out"},
           f.pc \in {"load", "store"} <=> g.pc \in {"load", "store"},
           g.challenge = f.challenge, g.out = f.out, g.len = f.len
    PROVE  UNCHANGED Gate!gateVars
  BY DEF Gate!gateVars, CallSeen, MemSeen

LEMMA IssueAtomic ==
    ASSUME SerialInv, depth = 0, CallGetCounter \/ CallSign
    PROVE  SerialInv' /\ Gate!AtomicNext
  <1>1. PICK start \in {"load", "check_len"}, q \in Request \cup {<<0, 0, 0>>} :
          /\ Enter(start, q)
          /\ start = "load" => q = <<0, 0, 0>>
          /\ start = "check_len" => q \in Request /\ CallSign
    BY DEF CallGetCounter, CallSign
  <1> DEFINE f == NewFrame(start, q)
  <1>2. depth' = 1 /\ frame'[1] = f /\ mem' = mem /\ s_counter' = s_counter
    BY <1>1, GateAssumption DEF Enter, SerialInv, GateInv, TypeOK
  <1>3. /\ f.pc = start /\ f.alone /\ f.challenge = q[1] /\ f.out = q[2] /\ f.len = q[3]
    BY DEF NewFrame
  <1>4. q = <<q[1], q[2], q[3]>>
    <2>1. CASE start = "load"
      BY <1>1, <2>1
    <2>2. CASE start = "check_len"
      BY <1>1, <2>2, GateAssumption
    <2> QED
      BY <2>1, <2>2
  <1> HIDE DEF f
  <1>5. GateInv' /\ ResultInv'
    BY EnterStep, EnterSound DEF SerialInv
  <1>6. SerialInv'
    BY <1>1, <1>2, <1>3, <1>4, <1>5 DEF SerialInv
  <1>7. /\ CallSeen.at = "none" /\ MemSeen' = MemSeen
        /\ CallSeen' = Gate!Issued(IF start = "load" THEN "counter" ELSE "sign", q)
    BY <1>2, <1>3, <1>4 DEF CallSeen, MemSeen, Gate!Issued
  <1>8. Gate!Issue
    BY <1>1, <1>2, <1>7 DEF Gate!Issue, Gate!None
  <1> QED
    BY <1>6, <1>8 DEF Gate!AtomicNext

LEMMA StoreAtomic ==
    ASSUME SerialInv, depth = 0, ClientStore
    PROVE  SerialInv' /\ Gate!AtomicNext
  <1>1. depth' = 0 /\ s_counter' = s_counter
    BY DEF ClientStore
  <1>2. CallSeen.at = "none" /\ CallSeen' = CallSeen /\ MemSeen = mem /\ MemSeen' = mem'
    BY <1>1 DEF CallSeen, MemSeen
  <1>3. Gate!Store
    BY <1>1, <1>2 DEF ClientStore, Gate!Store, NsByte, Within, Address, Gate!Address
  <1>4. SerialInv'
    BY <1>1, ClientStoreStep, ClientStoreSound DEF SerialInv
  <1> QED
    BY <1>3, <1>4 DEF Gate!AtomicNext

LEMMA InStep ==
    ASSUME SerialInv, NEW p, At(p)
    PROVE  /\ depth = 1 /\ Top = frame[1] /\ Top \in Frame /\ Top.pc = p /\ Top.alone
           /\ Checked(Top) /\ Shape(Top) /\ Sound(Top, mem) /\ 1 \in 1..MaxDepth
           /\ p = "store" => Top.rc = (s_counter + 1) % CounterRange
           /\ p \notin {"load", "store", "return"} => <<Top.challenge, Top.out, Top.len>> \in Request
           /\ p \in {"load", "store"} => <<Top.challenge, Top.out, Top.len>> = <<0, 0, 0>>
  <1>1. depth = 1 /\ Top = frame[1] /\ Top.pc = p /\ 1 \in 1..MaxDepth
    BY GateAssumption DEF SerialInv, At, Top
  <1>2. Top \in Frame /\ Checked(Top) /\ Shape(Top) /\ Sound(Top, mem)
    BY <1>1 DEF SerialInv, GateInv, TypeOK, ResultInv
  <1> QED
    BY <1>1, <1>2 DEF SerialInv

(* A hidden step keeps the call's arguments and leaves it alone. *)
LEMMA HiddenStep ==
    ASSUME SerialInv, NEW p, At(p), depth' = depth, mem' = mem, s_counter' = s_counter,
           GateInv', ResultInv', NEW g, SetTop(g), g.alone,
           p \notin {"return", "copy_out", "load", "store"},
           g.pc \notin {"return", "copy_out", "load", "store"},
           g.challenge = Top.challenge, g.out = Top.out, g.len = Top.len
    PROVE  SerialInv' /\ UNCHANGED Gate!gateVars
  <1>1. depth = 1 /\ depth' = 1 /\ frame[1] = Top /\ Top.pc = p
        /\ <<Top.challenge, Top.out, Top.len>> \in Request
    BY InStep
  <1>2. frame'[1] = g
    BY <1>1, InCall
  <1>3. UNCHANGED Gate!gateVars
    BY <1>1, <1>2, Hidden
  <1>4. SerialInv'
    BY <1>1, <1>2 DEF SerialInv
  <1> QED
    BY <1>3, <1>4

(* The step that ends a signature is the one that serves it. *)
LEMMA ServedStep ==
    ASSUME SerialInv, NEW p, At(p), p \in Checking \cup Busy, depth' = depth,
           s_counter' = s_counter, GateInv', ResultInv',
           NEW g, SetTop(g), g.alone, g.pc = "return",
           g.rc = Gate!Verdict(<<Top.challenge, Top.out, Top.len>>),
           MemSeen' = IF g.rc = 0 THEN Gate!Signed(MemSeen, <<Top.challenge, Top.out, Top.len>>)
                                  ELSE MemSeen
    PROVE  SerialInv' /\ Gate!AtomicNext
  <1> DEFINE q == <<Top.challenge, Top.out, Top.len>>
  <1>1. depth = 1 /\ depth' = 1 /\ frame[1] = Top /\ Top.pc = p
    BY InStep
  <1>2. frame'[1] = g
    BY <1>1, InCall
  <1>3. CallSeen = Gate!Issued("sign", q)
    BY <1>1 DEF CallSeen, Gate!Issued, Checking, Busy
  <1>4. CallSeen' = Gate!Done(g.rc)
    BY <1>1, <1>2 DEF CallSeen, Gate!Done, Gate!None
  <1>5. Gate!ServeSign
    <2> HIDE DEF q
    <2>1. CallSeen.at = "issued" /\ CallSeen.service = "sign" /\ CallSeen.request = q
      BY <1>3 DEF Gate!Issued
    <2> QED
      BY <1>4, <2>1 DEF Gate!ServeSign, q
  <1>6. SerialInv'
    BY <1>1, <1>2 DEF SerialInv
  <1> QED
    BY <1>5, <1>6 DEF Gate!AtomicNext

LEMMA CounterAtomic ==
    ASSUME SerialInv, LoadCounter \/ StoreCounter
    PROVE  SerialInv' /\ (Gate!AtomicNext \/ UNCHANGED Gate!gateVars)
  <1>0. GateInv' /\ ResultInv'
    BY CounterSteps, CounterSound DEF SerialInv
  <1>1. CASE LoadCounter
    <2> DEFINE next == (s_counter + 1) % CounterRange
               g == [Top EXCEPT !.pc = "store", !.rc = next]
    <2>1. /\ depth = 1 /\ depth' = 1 /\ frame[1] = Top /\ Top \in Frame /\ Top.pc = "load"
          /\ Top.alone /\ <<Top.challenge, Top.out, Top.len>> = <<0, 0, 0>>
          /\ mem' = mem /\ s_counter' = s_counter
      BY <1>1, InStep DEF LoadCounter
    <2>2. SetTop(g)
      BY <1>1 DEF LoadCounter
    <2> HIDE DEF next
    <2>3. /\ g.pc = "store" /\ g.rc = next /\ g.alone /\ g.challenge = Top.challenge
          /\ g.out = Top.out /\ g.len = Top.len
      BY <2>1 DEF Frame
    <2> HIDE DEF g
    <2>4. frame'[1] = g
      BY <2>1, <2>2, InCall
    <2>5. UNCHANGED Gate!gateVars
      BY <2>1, <2>3, <2>4, Hidden
    <2>6. SerialInv'
      BY <1>0, <2>1, <2>3, <2>4 DEF SerialInv, next
    <2> QED
      BY <2>5, <2>6
  <1>2. CASE StoreCounter
    <2> DEFINE g == [Top EXCEPT !.pc = "return"]
    <2>1. /\ depth = 1 /\ depth' = 1 /\ frame[1] = Top /\ Top \in Frame /\ Top.pc = "store"
          /\ Top.alone /\ <<Top.challenge, Top.out, Top.len>> = <<0, 0, 0>>
          /\ mem' = mem /\ s_counter' = Top.rc /\ Top.rc = (s_counter + 1) % CounterRange
      BY <1>2, InStep DEF StoreCounter
    <2>2. SetTop(g)
      BY <1>2 DEF StoreCounter
    <2>3. g.pc = "return" /\ g.rc = Top.rc /\ g.alone
      BY <2>1 DEF Frame
    <2> HIDE DEF g
    <2>4. frame'[1] = g
      BY <2>1, <2>2, InCall
    <2>5. /\ CallSeen.at = "issued" /\ CallSeen.service = "counter"
          /\ CallSeen' = Gate!Done(s_counter') /\ MemSeen' = MemSeen
      BY <2>1, <2>3, <2>4 DEF CallSeen, MemSeen, Gate!Done, Gate!None
    <2>6. Gate!ServeCounter
      BY <2>1, <2>5 DEF Gate!ServeCounter
    <2>7. SerialInv'
      BY <1>0, <2>1, <2>3, <2>4 DEF SerialInv
    <2> QED
      BY <2>6, <2>7 DEF Gate!AtomicNext
  <1> QED
    BY <1>1, <1>2

LEMMA ReturnAtomic ==
    ASSUME SerialInv, Return
    PROVE  SerialInv' /\ Gate!AtomicNext
  <1>1. depth = 1 /\ depth' = 0 /\ frame[1].pc = "return" /\ mem' = mem /\ s_counter' = s_counter
    BY InStep DEF Return
  <1>2. CallSeen.at = "done" /\ CallSeen' = Gate!NoCall /\ MemSeen' = MemSeen
    BY <1>1 DEF CallSeen, MemSeen, Gate!NoCall, Gate!None
  <1>3. Gate!Collect
    BY <1>1, <1>2 DEF Gate!Collect
  <1>4. SerialInv'
    BY <1>1, ReturnStep, ReturnSound DEF SerialInv
  <1> QED
    BY <1>3, <1>4 DEF Gate!AtomicNext

LEMMA VerdictIs ==
    ASSUME NEW f \in Frame
    PROVE  Gate!Verdict(<<f.challenge, f.out, f.len>>) =
             IF f.len \notin 1..SECURE_SIGN_MAX THEN -1
             ELSE IF ~CmseCheck(f.challenge, f.len) THEN -2
             ELSE IF ~CmseCheck(f.out, f.len) THEN -3 ELSE 0
  <1>1. f.challenge \in Address /\ f.out \in Address /\ f.len \in Nat
    BY DEF Frame
  <1> QED
    BY <1>1, CmseIsNonSecure, GateAssumption DEF Gate!Verdict

(* A check that fails serves the call with its refusal, one that passes is  *)
(* not seen.                                                                *)
LEMMA RefusedStep ==
    ASSUME SerialInv, NEW p \in Checking, At(p), UNCHANGED <<mem, s_counter, depth>>,
           GateInv', ResultInv', NEW e \in {-1, -2, -3},
           SetTop([Top EXCEPT !.pc = "return", !.rc = e]),
           e = Gate!Verdict(<<Top.challenge, Top.out, Top.len>>)
    PROVE  SerialInv' /\ Gate!AtomicNext
  <1> DEFINE g == [Top EXCEPT !.pc = "return", !.rc = e]
  <1>1. depth = 1 /\ frame[1] = Top /\ Top \in Frame /\ Top.pc = p /\ Top.alone
    BY InStep
  <1>2. g.pc = "return" /\ g.rc = e /\ g.alone /\ e # 0
    BY <1>1 DEF Frame
  <1>3. SetTop(g)
    OBVIOUS
  <1> HIDE DEF g
  <1>4. frame'[1] = g
    BY <1>1, <1>3, InCall
  <1>5. MemSeen = mem /\ MemSeen' = mem'
    BY <1>1, <1>2, <1>4 DEF MemSeen, Checking
  <1> QED
    BY <1>1, <1>2, <1>3, <1>5, ServedStep

LEMMA PassedStep ==
    ASSUME SerialInv, NEW p \in Checking, At(p), UNCHANGED <<mem, s_counter, depth>>,
           GateInv', ResultInv', NEW n \in {"check_in", "check_out", "copy_in"},
           SetTop([Top EXCEPT !.pc = n])
    PROVE  SerialInv' /\ UNCHANGED Gate!gateVars
  <1> DEFINE g == [Top EXCEPT !.pc = n]
  <1>1. Top \in Frame /\ Top.alone
    BY InStep
  <1>2. /\ g.pc = n /\ g.alone /\ g.challenge = Top.challenge /\ g.out = Top.out
        /\ g.len = Top.len
    BY <1>1 DEF Frame
  <1>3. SetTop(g)
    OBVIOUS
  <1> HIDE DEF g
  <1> QED
    BY <1>2, <1>3, HiddenStep DEF Checking

LEMMA CheckAtomic ==
    ASSUME SerialInv, CheckLen \/ CheckChallenge \/ CheckOut
    PROVE  SerialInv' /\ (Gate!AtomicNext \/ UNCHANGED Gate!gateVars)
  <1>0. GateInv' /\ ResultInv' /\ UNCHANGED <<mem, s_counter, depth>>
    BY CheckSteps, CheckSound DEF SerialInv, CheckLen, CheckChallenge, CheckOut
  <1>1. CASE CheckLen
    <2>1. At("check_len") /\ Top \in Frame
      BY <1>1, InStep DEF CheckLen
    <2>2. CASE Top.len = 0 \/ Top.len > SECURE_SIGN_MAX
      <3>1. -1 = Gate!Verdict(<<Top.challenge, Top.out, Top.len>>)
        <4>1. Top.len \in Nat /\ SECURE_SIGN_MAX \in Nat
          BY <2>1, GateAssumption DEF Frame
        <4>2. Top.len \notin 1..SECURE_SIGN_MAX
          BY <2>2, <4>1
        <4> QED
          BY <2>1, <4>2, VerdictIs
      <3>2. SetTop([Top EXCEPT !.pc = "return", !.rc = -1])
        BY <1>1, <2>2 DEF CheckLen
      <3> QED
        BY <1>0, <2>1, <3>1, <3>2, RefusedStep DEF Checking
    <2>3. CASE ~(Top.len = 0 \/ Top.len > SECURE_SIGN_MAX)
      <3>1. SetTop([Top EXCEPT !.pc = "check_in"])
        BY <1>1, <2>3 DEF CheckLen
      <3> QED
        BY <1>0, <2>1, <3>1, PassedStep DEF Checking
    <2> QED
      BY <2>2, <2>3
  <1>2. CASE CheckChallenge
    <2>1. At("check_in") /\ Top \in Frame /\ Top.len \in 1..SECURE_SIGN_MAX
      BY <1>2, InStep DEF CheckChallenge, Checked, LenChecked
    <2>2. CASE ~CmseCheck(Top.challenge, Top.len)
      <3>1. -2 = Gate!Verdict(<<Top.challenge, Top.out, Top.len>>)
        BY <2>1, <2>2, VerdictIs
      <3>2. SetTop([Top EXCEPT !.pc = "return", !.rc = -2])
        BY <1>2, <2>2 DEF CheckChallenge
      <3> QED
        BY <1>0, <2>1, <3>1, <3>2, RefusedStep DEF Checking
    <2>3. CASE CmseCheck(Top.challenge, Top.len)
      <3>1. SetTop([Top EXCEPT !.pc = "check_out"])
        BY <1>2, <2>3 DEF CheckChallenge
      <3> QED
        BY <1>0, <2>1, <3>1, PassedStep DEF Checking
    <2> QED
      BY <2>2, <2>3
  <1>3. CASE CheckOut
    <2>1. /\ At("check_out") /\ Top \in Frame /\ Top.len \in 1..SECURE_SIGN_MAX
          /\ CmseCheck(Top.challenge, Top.len)
      BY <1>3, InStep DEF CheckOut, Checked, LenChecked, FromChecked
    <2>2. CASE ~CmseCheck(Top.out, Top.len)
      <3>1. -3 = Gate!Verdict(<<Top.challenge, Top.out, Top.len>>)
        BY <2>1, <2>2, VerdictIs
      <3>2. SetTop([Top EXCEPT !.pc = "return", !.rc = -3])
        BY <1>3, <2>2 DEF CheckOut
      <3> QED
        BY <1>0, <2>1, <3>1, <3>2, RefusedStep DEF Checking
    <2>3. CASE CmseCheck(Top.out, Top.len)
      <3>1. SetTop([Top EXCEPT !.pc = "copy_in"])
        BY <1>3, <2>3 DEF CheckOut
      <3> QED
        BY <1>0, <2>1, <3>1, PassedStep DEF Checking
    <2> QED
      BY <2>2, <2>3
  <1> QED
    BY <1>1, <1>2, <1>3

LEMMA CopyInAtomic ==
    ASSUME SerialInv, CopyIn
    PROVE  SerialInv' /\ UNCHANGED Gate!gateVars
  <1>0. GateInv' /\ ResultInv' /\ UNCHANGED <<mem, s_counter, depth>>
    BY CopyInStep, CopyInSound DEF SerialInv, CopyIn
  <1>1. At("copy_in") /\ Top \in Frame /\ Top.alone
    BY InStep DEF CopyIn
  <1>2. PICK g : /\ SetTop(g) /\ g.pc \in {"copy_in", "transform"} /\ g.alone
                 /\ g.challenge = Top.challenge /\ g.out = Top.out /\ g.len = Top.len
    <2>1. CASE Top.i < Top.len
      <3> DEFINE v == mem[Top.challenge + Top.i]
                 f == [Top EXCEPT !.tmp_in[Top.i] = v, !.i = Top.i + 1]
      <3>1. SetTop(f)
        BY <2>1 DEF CopyIn
      <3>2. /\ f.pc = "copy_in" /\ f.alone /\ f.challenge = Top.challenge
            /\ f.out = Top.out /\ f.len = Top.len
        BY <1>1 DEF Frame, At
      <3> QED
        BY <3>1, <3>2
    <2>2. CASE ~(Top.i < Top.len)
      <3> DEFINE f == [Top EXCEPT !.pc = "transform"]
      <3>1. SetTop(f)
        BY <2>2 DEF CopyIn
      <3>2. /\ f.pc = "transform" /\ f.alone /\ f.challenge = Top.challenge
            /\ f.out = Top.out /\ f.len = Top.len
        BY <1>1 DEF Frame
      <3> QED
        BY <3>1, <3>2
    <2> QED
      BY <2>1, <2>2
  <1> QED
    BY <1>0, <1>1, <1>2, HiddenStep

(* From here on the client sees memory as it was at the call, which it      *)
(* still is.                                                                *)
LEMMA TransformAtomic ==
    ASSUME SerialInv, Transform
    PROVE  SerialInv' /\ UNCHANGED Gate!gateVars
  <1>0. GateInv' /\ ResultInv' /\ UNCHANGED <<mem, s_counter, depth>>
    BY TransformStep, TransformSound DEF SerialInv, Transform
  <1>1. /\ At("transform") /\ depth = 1 /\ frame[1] = Top /\ Top \in Frame /\ Top.alone
        /\ Top.pc = "transform" /\ mem = Top.orig
        /\ <<Top.challenge, Top.out, Top.len>> \in Request
    BY InStep DEF Transform, Sound, Before
  <1>2. PICK g : /\ SetTop(g) /\ g.pc = "copy_out" /\ g.alone /\ g.orig = Top.orig
                 /\ g.challenge = Top.challenge /\ g.out = Top.out /\ g.len = Top.len
    <2> DEFINE b == [j \in BufIndex |-> IF j < Top.len THEN Keyed(Top.tmp_in[j], j)
                                                       ELSE Top.tmp_out[j]]
               f == [Top EXCEPT !.pc = "copy_out", !.i = 0, !.tmp_out = b]
    <2>1. SetTop(f)
      BY DEF Transform
    <2> HIDE DEF b
    <2>2. /\ f.pc = "copy_out" /\ f.alone /\ f.orig = Top.orig /\ f.challenge = Top.challenge
          /\ f.out = Top.out /\ f.len = Top.len
      BY <1>1 DEF Frame
    <2> QED
      BY <2>1, <2>2
  <1>3. frame'[1] = g
    BY <1>0, <1>1, <1>2, InCall
  <1>4. MemSeen = mem /\ MemSeen' = mem
    BY <1>0, <1>1, <1>2, <1>3 DEF MemSeen
  <1>5. CallSeen' = CallSeen
    BY <1>0, <1>1, <1>2, <1>3 DEF CallSeen
  <1>6. SerialInv'
    BY <1>0, <1>1, <1>2, <1>3 DEF SerialInv
  <1> QED
    BY <1>0, <1>4, <1>5, <1>6 DEF Gate!gateVars

(* The last step of the loop is the one that shows the whole result.        *)
LEMMA CopyOutAtomic ==
    ASSUME SerialInv, CopyOut
    PROVE  SerialInv' /\ (Gate!AtomicNext \/ UNCHANGED Gate!gateVars)
  <1>0. GateInv' /\ ResultInv' /\ UNCHANGED <<s_counter, depth>>
    BY CopyOutStep, CopyOutSound DEF SerialInv, CopyOut
  <1>1. /\ At("copy_out") /\ depth = 1 /\ frame[1] = Top /\ Top \in Frame /\ Top.alone
        /\ Top.pc = "copy_out" /\ Checked(Top) /\ 1 \in 1..MaxDepth
        /\ <<Top.challenge, Top.out, Top.len>> \in Request
    BY InStep DEF CopyOut
  <1>2. CASE Top.i < Top.len
    <2> DEFINE g == [Top EXCEPT !.i = Top.i + 1]
               b == Disturbed(0)
    <2>1. b \in [1..MaxDepth -> Frame] /\ b[1] = Top
      BY <1>1, DisturbedSound DEF SerialInv
    <2>2. frame' = [b EXCEPT ![1].i = Top.i + 1]
      BY <1>1, <1>2 DEF CopyOut
    <2> HIDE DEF b
    <2>3. frame'[1] = g
      BY <1>1, <2>1, <2>2
    <2>4. /\ g.pc = "copy_out" /\ g.alone /\ g.orig = Top.orig /\ g.challenge = Top.challenge
          /\ g.out = Top.out /\ g.len = Top.len
      BY <1>1 DEF Frame
    <2> HIDE DEF g
    <2>5. MemSeen' = MemSeen /\ CallSeen' = CallSeen
      BY <1>0, <1>1, <2>3, <2>4 DEF MemSeen, CallSeen
    <2>6. SerialInv'
      BY <1>0, <1>1, <2>3, <2>4 DEF SerialInv
    <2> QED
      BY <1>0, <2>5, <2>6 DEF Gate!gateVars
  <1>3. CASE ~(Top.i < Top.len)
    <2> DEFINE g == [Top EXCEPT !.pc = "return"]
               q == <<Top.challenge, Top.out, Top.len>>
    <2>1. SetTop(g) /\ mem' = mem
      BY <1>3 DEF CopyOut
    <2>2. /\ g.pc = "return" /\ g.alone /\ g.orig = Top.orig /\ g.rc = Top.rc
          /\ g.challenge = Top.challenge /\ g.out = Top.out /\ g.len = Top.len
      BY <1>1 DEF Frame
    <2> HIDE DEF g
    <2>3. Gate!Verdict(q) = 0
      BY <1>1, VerdictIs DEF Checked, LenChecked, FromChecked, OutChecked, Busy
    <2>4. Top.rc = 0
      BY <1>1, InStep DEF Shape, Busy
    <2>5. frame'[1] = g
      BY <1>0, <1>1, <2>1, InCall
    <2>6. mem = Result(g)
      BY <1>1, <2>1, <2>2, <2>4, <2>5, <1>0 DEF ResultInv, Sound
    <2>7. Result(g) = Gate!Signed(Top.orig, q)
      BY <2>2 DEF Result, InOut, Gate!Signed, Keyed, Address, Gate!Address
    <2>8. MemSeen = Top.orig /\ MemSeen' = mem
      BY <1>0, <1>1, <2>1, <2>2, <2>5 DEF MemSeen
    <2> QED
      BY <1>0, <1>1, <2>1, <2>2, <2>3, <2>4, <2>6, <2>7, <2>8, ServedStep DEF Busy
  <1> QED
    BY <1>2, <1>3

LEMMA NextAtomic ==
    SerialInv /\ [SerialNext]_vars => SerialInv' /\ [Gate!AtomicNext]_(Gate!gateVars)
  <1> SUFFICES ASSUME SerialInv, [SerialNext]_vars
               PROVE  SerialInv' /\ (Gate!AtomicNext \/ UNCHANGED Gate!gateVars)
    OBVIOUS
  <1>1. CASE GateStep
    BY <1>1, CounterAtomic, CheckAtomic, CopyInAtomic, TransformAtomic, CopyOutAtomic,
       ReturnAtomic DEF GateStep
  <1>2. CASE depth = 0 /\ ClientStep
    BY <1>2, IssueAtomic, StoreAtomic DEF ClientStep
  <1>3. CASE UNCHANGED vars
    <2>1. UNCHANGED Gate!gateVars
      BY <1>3 DEF vars, Gate!gateVars, CallSeen, MemSeen
    <2> QED
      BY <1>3, <2>1 DEF vars, SerialInv, GateInv, ResultInv, TypeOK
  <1> QED
    BY <1>1, <1>2, <1>3 DEF SerialNext

(* Every step of a call that nobody preempts is a step of AtomicGate, or    *)
(* hidden from it: checks, copies and transform amount to the last of them. *)
THEOREM SerialIsAtomic == SerialSpec => Gate!AtomicInit /\ [][Gate!AtomicNext]_(Gate!gateVars)
  BY InitAtomic, NextAtomic, PTL DEF SerialSpec

LEMMA StoreBumps ==
    SerialInv /\ [SerialNext]_vars =>
      \A d \in 1..MaxDepth :
        frame[d].pc = "store" /\ frame'[d].pc = "return" =>
          /\ s_counter' = (s_counter + 1) % CounterRange
          /\ frame'[d].rc = s_counter'
  <1> SUFFICES ASSUME SerialInv, [SerialNext]_vars, NEW d \in 1..MaxDepth,
                      frame[d].pc = "store", frame'[d].pc = "return"
               PROVE  /\ s_counter' = (s_counter + 1) % CounterRange
                      /\ frame'[d].rc = s_counter'
    OBVIOUS
  <1>1. d = 1 /\ depth = 1
    <2>1. frame[d].pc # "idle"
      OBVIOUS
    <2>2. d <= depth
      BY <2>1 DEF SerialInv, GateInv, TypeOK
    <2> QED
      BY <2>2 DEF SerialInv
  <1>2. At("store") /\ Top = frame[1]
    BY <1>1 DEF At, Top
  <1>3. StoreCounter
    <2>1. ~(UNCHANGED vars)
      BY DEF vars
    <2>2. GateStep
      BY <1>1, <2>1 DEF SerialNext
    <2> QED
      BY <1>2, <2>2 DEF GateStep, At, LoadCounter, CheckLen, CheckChallenge, CheckOut, CopyIn,
                        Transform, CopyOut, Return
  <1>4. s_counter' = Top.rc /\ SetTop([Top EXCEPT !.pc = "return"]) /\ depth' = 1
    BY <1>1, <1>3 DEF StoreCounter
  <1>5. Top.rc = (s_counter + 1) % CounterRange /\ Top \in Frame
    BY <1>2, InStep
  <1>6. frame'[1] = [Top EXCEPT !.pc = "return"]
    BY <1>1, <1>4, InCall
  <1> QED
    BY <1>1, <1>4, <1>5, <1>6 DEF Frame

(* secret.h: "Each call bumps it by one".  A client whose handlers call the *)
(* gate can break it, as counter_preempted shows; one without handlers      *)
(* cannot.                                                                  *)
THEOREM SerialCallsBump == SerialSpec => EachCallBumps
  BY InitAtomic, NextAtomic, StoreBumps, PTL DEF SerialSpec, EachCallBumps
=============================================================================
