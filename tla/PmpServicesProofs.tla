------------------------- MODULE PmpServicesProofs -------------------------
(***************************************************************************)
(* Proofs about PmpServices, for every width of the machine, place of      *)
(* g_prot, key and U-mode program.                                         *)
(***************************************************************************)
EXTENDS PmpServices, TLAPS

(* Inside the loop the request has passed the guard. *)
LoopGuarded == pc = "loop" => ~Refused(buf, len)

ServiceInv == TypeOK /\ LoopGuarded

-----------------------------------------------------------------------------
LEMMA GuardFacts ==
    /\ SPACE \in Nat \ {0} /\ G_PROT \in Nat /\ PROT_SIZE \in Nat \ {0}
    /\ SIGN_MAX \in Nat \ {0}
    /\ SIGN_MAX <= G_PROT /\ G_PROT + PROT_SIZE + SIGN_MAX <= SPACE
    /\ 0 \in Address
  BY GuardAssumption DEF Address

(* A sum of addresses wraps at most once. *)
LEMMA Wraps ==
    ASSUME NEW n \in Nat \ {0}, NEW x \in Nat, x < 2 * n
    PROVE  (x < n => x % n = x) /\ (x >= n => x % n = x - n)
  <1>1. CASE x < n
    BY <1>1
  <1>2. CASE ~(x < n)
    <2>1. x - n \in 0..(n - 1) /\ x = n * 1 + (x - n)
      BY <1>2
    <2> QED
      BY <1>2, <2>1
  <1> QED
    BY <1>1, <1>2

LEMMA NthInAddress ==
    ASSUME NEW b \in Address, NEW j \in Nat
    PROVE  Nth(b, j) \in Address
  BY GuardFacts DEF Nth, Address

(* The guard is sound: a request it lets through, of whatever pointer and   *)
(* length, touches no byte of g_prot, also where buf + len wraps.           *)
THEOREM GuardSound ==
    ASSUME NEW b \in Address, NEW n \in Nat, ~Refused(b, n), NEW j \in 0..(n - 1)
    PROVE  Nth(b, j) \notin Prot
  <1>1. n <= SIGN_MAX /\ b \in Nat /\ b < SPACE /\ j \in Nat /\ j < n
    BY GuardFacts DEF Refused, Address
  <1>2. b + n \in Nat /\ b + n < 2 * SPACE /\ b + j \in Nat /\ b + j < 2 * SPACE
    BY <1>1, GuardFacts
  <1>w. SPACE \in Nat \ {0}
    BY GuardFacts
  <1>3. \A x \in Nat : x < 2 * SPACE =>
          (x < SPACE => x % SPACE = x) /\ (x >= SPACE => x % SPACE = x - SPACE)
    BY ONLY <1>w, Wraps
  <1>4. /\ b + n < SPACE => (b + n) % SPACE = b + n
        /\ b + n >= SPACE => (b + n) % SPACE = b + n - SPACE
        /\ b + j < SPACE => Nth(b, j) = b + j
        /\ b + j >= SPACE => Nth(b, j) = b + j - SPACE
    <2> DEFINE x == b + n
               y == b + j
    <2>1. x \in Nat /\ x < 2 * SPACE /\ y \in Nat /\ y < 2 * SPACE
      BY <1>2
    <2> HIDE DEF x, y
    <2>2. /\ x < SPACE => x % SPACE = x
          /\ x >= SPACE => x % SPACE = x - SPACE
          /\ y < SPACE => y % SPACE = y
          /\ y >= SPACE => y % SPACE = y - SPACE
      BY <1>3, <2>1
    <2> QED
      BY <1>1, <1>w, <2>2 DEF x, y, Nth
  <1>5. (G_PROT + PROT_SIZE) % SPACE = G_PROT + PROT_SIZE
    <2>1. /\ G_PROT + PROT_SIZE \in Nat /\ G_PROT + PROT_SIZE < SPACE
          /\ G_PROT + PROT_SIZE < 2 * SPACE
      BY GuardFacts
    <2> QED
      BY ONLY <2>1, <1>w, Wraps
  <1>6. (b + n) % SPACE <= G_PROT \/ b >= G_PROT + PROT_SIZE
    BY <1>1, <1>4, <1>5, GuardFacts DEF Refused
  <1> QED
    BY <1>1, <1>4, <1>6, GuardFacts DEF Prot

-----------------------------------------------------------------------------
LEMMA XorTyped ==
    ASSUME NEW x \in Byte, NEW y \in Byte
    PROVE  Xor[<<x, y>>] \in Byte
  BY ServiceAssumption

LEMMA KeyByteTyped ==
    ASSUME TypeOK, NEW n \in Nat
    PROVE  KeyByte(n) \in Byte
  <1>1. n % KEY_LEN \in 0..(KEY_LEN - 1)
    BY ServiceAssumption
  <1>2. KEY + (n % KEY_LEN) \in Address
    BY <1>1, GuardFacts, ServiceAssumption DEF Address, Prot
  <1> QED
    BY <1>2 DEF KeyByte, TypeOK

LEMMA CounterAddress == COUNTER \in Address
  BY GuardFacts, ServiceAssumption DEF Address, Prot

THEOREM InitServiceInv == Init => ServiceInv
  BY GuardFacts, ServiceAssumption DEF Init, ServiceInv, TypeOK, LoopGuarded

THEOREM NextServiceInv == ServiceInv /\ [Next]_vars => ServiceInv'
  <1> SUFFICES ASSUME ServiceInv, [Next]_vars PROVE ServiceInv'
    OBVIOUS
  <1>1. TypeOK
    BY DEF ServiceInv
  <1>2. CASE UserStore
    <2>1. PICK a \in Address, b \in Byte : mem' = [mem EXCEPT ![a] = b]
      BY <1>2 DEF UserStore
    <2>2. mem' \in [Address -> Byte]
      BY <1>1, <2>1 DEF TypeOK
    <2> QED
      BY <1>2, <2>2, ServiceAssumption DEF UserStore, ServiceInv, TypeOK, LoopGuarded
  <1>3. CASE EcallGetCounter
    <2>1. Counted[mem[COUNTER]] \in Byte
      BY <1>1, CounterAddress, ServiceAssumption DEF TypeOK
    <2>2. mem' \in [Address -> Byte] /\ a0' \in Byte
      BY <1>1, <1>3, <2>1, CounterAddress DEF EcallGetCounter, TypeOK
    <2> QED
      BY <1>3, <2>2, ServiceAssumption DEF EcallGetCounter, ServiceInv, TypeOK, LoopGuarded
  <1>4. CASE EcallUnknown
    BY <1>4, ServiceAssumption DEF EcallUnknown, ServiceInv, TypeOK, LoopGuarded
  <1>5. CASE EcallSign
    <2>1. PICK q \in Request : /\ buf' = q[1] /\ len' = q[2]
                               /\ pc' = IF Refused(q[1], q[2]) THEN "refused" ELSE "loop"
      BY <1>5 DEF EcallSign
    <2>2. q[1] \in Address /\ q[2] \in 0..(SPACE - 1) /\ 0 \in 0..q[2]
      BY GuardFacts, ServiceAssumption
    <2>3. i' = 0 /\ a0' = 0 /\ orig' = mem /\ mem' = mem /\ calls' \in 0..MaxCalls
      BY <1>1, <1>5, ServiceAssumption DEF EcallSign, TypeOK
    <2>4. LoopGuarded'
      BY <2>1 DEF LoopGuarded
    <2> QED
      BY <1>1, <2>1, <2>2, <2>3, <2>4 DEF ServiceInv, TypeOK
  <1>6. CASE SignByte
    <2>1. i \in Nat /\ buf \in Address /\ i + 1 \in 0..len
      BY <1>1, <1>6, GuardFacts DEF SignByte, TypeOK
    <2>2. Nth(buf, i) \in Address
      BY <2>1, NthInAddress
    <2>3. Xor[<<mem[Nth(buf, i)], KeyByte(i)>>] \in Byte
      BY <1>1, <2>1, <2>2, KeyByteTyped, XorTyped DEF TypeOK
    <2>4. mem' \in [Address -> Byte]
      BY <1>1, <1>6, <2>2, <2>3 DEF SignByte, TypeOK
    <2> QED
      BY <1>1, <1>6, <2>1, <2>4 DEF SignByte, ServiceInv, TypeOK, LoopGuarded
  <1>7. CASE SignReturn
    BY <1>7 DEF SignReturn, ServiceInv, TypeOK, LoopGuarded
  <1>8. CASE UNCHANGED vars
    BY <1>8 DEF vars, ServiceInv, TypeOK, LoopGuarded
  <1> QED
    BY <1>2, <1>3, <1>4, <1>5, <1>6, <1>7, <1>8 DEF Next

THEOREM ServiceInvariant == Spec => []ServiceInv
  BY InitServiceInv, NextServiceInv, PTL DEF Spec

(* Type correctness, the bound of the loop included. *)
THEOREM ServiceTypeCorrect == Spec => []TypeOK
  <1>1. ServiceInv => TypeOK
    BY DEF ServiceInv
  <1> QED
    BY <1>1, ServiceInvariant, PTL

(* U-mode can neither overwrite the key nor turn the counter back. *)
THEOREM ProtectedAlwaysKept == Spec => ProtectedKept
  <1>1. ServiceInv /\ [Next]_vars =>
          [\A a \in Prot : mem'[a] = mem[a] \/ (a = COUNTER /\ mem'[a] = Counted[mem[a]])]_vars
    <2> SUFFICES ASSUME ServiceInv, Next, NEW a \in Prot
                 PROVE  mem'[a] = mem[a] \/ (a = COUNTER /\ mem'[a] = Counted[mem[a]])
      OBVIOUS
    <2>1. a \in Address /\ mem \in [Address -> Byte]
      BY GuardFacts DEF Prot, Address, ServiceInv, TypeOK
    <2>2. CASE UserStore
      BY <2>1, <2>2 DEF UserStore
    <2>3. CASE EcallGetCounter
      BY <2>1, <2>3 DEF EcallGetCounter
    <2>4. CASE SignByte
      <3>1. /\ buf \in Address /\ len \in Nat /\ i \in 0..(len - 1) /\ ~Refused(buf, len)
        BY <2>4, GuardFacts DEF SignByte, ServiceInv, TypeOK, LoopGuarded
      <3>2. Nth(buf, i) # a
        BY <3>1, GuardSound
      <3> QED
        BY <2>1, <2>4, <3>2 DEF SignByte
    <2>5. CASE EcallUnknown \/ EcallSign \/ SignReturn
      BY <2>5 DEF EcallUnknown, EcallSign, SignReturn
    <2> QED
      BY <2>2, <2>3, <2>4, <2>5 DEF Next
  <1> QED
    BY <1>1, ServiceInvariant, PTL DEF Spec, ProtectedKept

-----------------------------------------------------------------------------
(* The guard is also no stronger than it must be: a request of a length it  *)
(* allows, of at least one byte, that it turns away has a byte in g_prot.   *)
THEOREM GuardComplete ==
    ASSUME NEW b \in Address, NEW n \in Nat, 0 < n, n <= SIGN_MAX, Refused(b, n)
    PROVE  \E j \in 0..(n - 1) : Nth(b, j) \in Prot
  <1>1. SPACE \in Nat \ {0} /\ b \in Nat /\ b < SPACE /\ b + n \in Nat /\ b + n < 2 * SPACE
    BY GuardFacts DEF Address
  <1>2. \A x \in Nat : x < 2 * SPACE =>
          (x < SPACE => x % SPACE = x) /\ (x >= SPACE => x % SPACE = x - SPACE)
    BY ONLY <1>1, Wraps
  <1>3. (G_PROT + PROT_SIZE) % SPACE = G_PROT + PROT_SIZE
    <2> DEFINE x == G_PROT + PROT_SIZE
    <2>1. x \in Nat /\ x < SPACE /\ x < 2 * SPACE
      BY GuardFacts
    <2> HIDE DEF x
    <2>2. x % SPACE = x
      BY <2>1, <1>2
    <2> QED
      BY <2>2 DEF x
  <1>4. (b + n < SPACE => (b + n) % SPACE = b + n) /\ (b + n >= SPACE => (b + n) % SPACE = b + n - SPACE)
    <2> DEFINE x == b + n
    <2>1. x \in Nat /\ x < 2 * SPACE
      BY <1>1
    <2> HIDE DEF x
    <2>2. (x < SPACE => x % SPACE = x) /\ (x >= SPACE => x % SPACE = x - SPACE)
      BY <2>1, <1>2
    <2> QED
      BY <1>1, <2>2 DEF x
  <1>5. (b + n) % SPACE > G_PROT /\ b < G_PROT + PROT_SIZE
    BY <1>3, GuardFacts DEF Refused
  <1>6. b + n < SPACE /\ b + n > G_PROT
    BY <1>1, <1>4, <1>5, GuardFacts
  <1>7. CASE b >= G_PROT
    <2>1. Nth(b, 0) = b
      BY <1>1, <1>2 DEF Nth
    <2> QED
      BY <1>5, <1>7, <1>1, <2>1, GuardFacts DEF Prot
  <1>8. CASE ~(b >= G_PROT)
    <2>1. G_PROT - b \in 0..(n - 1)
      BY <1>1, <1>6, <1>8, GuardFacts
    <2>2. b + (G_PROT - b) = G_PROT /\ G_PROT < SPACE /\ G_PROT < 2 * SPACE
      BY <1>1, GuardFacts
    <2>3. Nth(b, G_PROT - b) = G_PROT
      BY <1>2, <2>2, GuardFacts DEF Nth
    <2> QED
      BY <2>1, <2>3, GuardFacts DEF Prot
  <1> QED
    BY <1>7, <1>8

(* A difference of addresses wraps at most once. *)
LEMMA WrapsBelow ==
    ASSUME NEW n \in Nat \ {0}, NEW r \in 0..(n - 1)
    PROVE  (r - n) % n = r
  OBVIOUS

(* Back from an address to the place in the buffer. *)
LEMMA NthInverse ==
    ASSUME NEW b \in Address, NEW j \in Nat, j < SPACE
    PROVE  (Nth(b, j) - b) % SPACE = j
  <1>1. SPACE \in Nat \ {0} /\ b \in Nat /\ b < SPACE /\ b + j \in Nat /\ b + j < 2 * SPACE
    BY GuardFacts DEF Address
  <1>2. \A x \in Nat : x < 2 * SPACE =>
          (x < SPACE => x % SPACE = x) /\ (x >= SPACE => x % SPACE = x - SPACE)
    BY ONLY <1>1, Wraps
  <1>3. CASE b + j < SPACE
    <2> DEFINE x == b + j
    <2>1. x \in Nat /\ x < SPACE /\ x < 2 * SPACE /\ x - b = j
      BY <1>1, <1>3
    <2> HIDE DEF x
    <2>2. x % SPACE = x
      BY <1>2, <2>1
    <2>3. Nth(b, j) - b = j
      BY <2>1, <2>2 DEF x, Nth
    <2>4. j % SPACE = j
      BY <1>1, <1>2
    <2> QED
      BY <2>3, <2>4
  <1>4. CASE ~(b + j < SPACE)
    <2> DEFINE x == b + j
    <2>1. x \in Nat /\ x >= SPACE /\ x < 2 * SPACE /\ x - SPACE - b = j - SPACE
      BY <1>1, <1>4
    <2> HIDE DEF x
    <2>2. x % SPACE = x - SPACE
      BY <1>2, <2>1
    <2>3. Nth(b, j) - b = j - SPACE
      BY <2>1, <2>2 DEF x, Nth
    <2>4. (j - SPACE) % SPACE = j
      BY <1>1, WrapsBelow
    <2> QED
      BY <2>3, <2>4
  <1> QED
    BY <1>3, <1>4

-----------------------------------------------------------------------------
(* Between two bytes of a signature: the first i bytes of the buffer are    *)
(* transformed, with a key nothing has touched, and the rest of memory is   *)
(* as it was at the call.                                                   *)
PartSigned ==
    pc = "loop" =>
      \A a \in Address :
        mem[a] = IF \E j \in 0..(i - 1) : a = Nth(buf, j)
                 THEN Xor[<<orig[a], KeyByte((a - buf) % SPACE)>>] ELSE orig[a]

RefusedJustly == pc = "refused" => Refused(buf, len)

SignInv == ServiceInv /\ RefusedJustly /\ PartSigned

(* Two bytes of a buffer no longer than the address space do not coincide. *)
LEMMA NthDistinct ==
    ASSUME NEW b \in Address, NEW j \in Nat, NEW k \in Nat, j < SPACE, k < SPACE, j # k
    PROVE  Nth(b, j) # Nth(b, k)
  <1>1. (Nth(b, j) - b) % SPACE = j /\ (Nth(b, k) - b) % SPACE = k
    BY NthInverse
  <1> QED
    BY <1>1

LEMMA KeyInProt ==
    ASSUME NEW n \in Nat
    PROVE  KEY + (n % KEY_LEN) \in Prot
  <1>1. n % KEY_LEN \in 0..(KEY_LEN - 1)
    BY ServiceAssumption
  <1> QED
    BY <1>1, GuardFacts, ServiceAssumption DEF Prot

LEMMA OffsetInNat ==
    ASSUME NEW a \in Address, NEW b \in Address
    PROVE  (a - b) % SPACE \in Nat
  <1>1. SPACE \in Nat \ {0} /\ a - b \in Int
    BY GuardFacts DEF Address
  <1> QED
    BY <1>1

(* One turn of the loop. *)
LEMMA SignByteProgress ==
    ASSUME SignInv, SignByte PROVE PartSigned'
  <1> DEFINE c == Nth(buf, i)
  <1>1. /\ buf \in Address /\ len \in Nat /\ len < SPACE /\ i \in 0..(len - 1)
        /\ i \in Nat /\ i < SPACE /\ ~Refused(buf, len) /\ mem \in [Address -> Byte]
    BY GuardFacts DEF SignByte, SignInv, ServiceInv, TypeOK, LoopGuarded
  <1>2. c \in Address /\ c \notin Prot
    BY <1>1, NthInAddress, GuardSound
  <1>3. /\ mem' = [mem EXCEPT ![c] = Xor[<<mem[c], KeyByte(i)>>]]
        /\ i' = i + 1 /\ UNCHANGED <<buf, orig>>
    BY DEF SignByte
  <1>4. \A j \in 0..(i - 1) : Nth(buf, j) # c
    <2> TAKE j \in 0..(i - 1)
    <2>1. j \in Nat /\ j < SPACE /\ j # i
      BY <1>1, GuardFacts
    <2> QED
      BY <1>1, <2>1, NthDistinct
  <1>5. (c - buf) % SPACE = i
    BY <1>1, NthInverse
  <1> HIDE DEF c
  <1>6. \A n \in Nat : KeyByte(n)' = KeyByte(n)
    <2> TAKE n \in Nat
    <2> DEFINE k == KEY + (n % KEY_LEN)
    <2>1. k \in Address /\ k # c
      BY <1>2, KeyInProt, GuardFacts DEF Prot, Address
    <2> HIDE DEF k
    <2>2. mem'[k] = mem[k]
      BY <1>1, <1>2, <1>3, <2>1
    <2> QED
      BY <2>2 DEF KeyByte, k
  <1>7. \A a \in Address :
          mem[a] = IF \E j \in 0..(i - 1) : a = Nth(buf, j)
                   THEN Xor[<<orig[a], KeyByte((a - buf) % SPACE)>>] ELSE orig[a]
    BY DEF SignInv, PartSigned, SignByte
  <1>8. SUFFICES ASSUME NEW a \in Address
                 PROVE  mem'[a] = IF \E j \in 0..i : a = Nth(buf, j)
                                  THEN Xor[<<orig[a], KeyByte((a - buf) % SPACE)'>>]
                                  ELSE orig[a]
    <2>1. i' - 1 = i
      BY <1>1, <1>3
    <2>2. \A x : KeyByte((x - buf) % SPACE)' = mem'[KEY + (((x - buf) % SPACE) % KEY_LEN)]
      BY <1>3 DEF KeyByte
    <2> QED
      BY <1>3, <2>1, <2>2 DEF PartSigned, KeyByte, Nth
  <1>9. CASE a = c
    <2>1. \E j \in 0..i : a = Nth(buf, j)
      BY <1>1, <1>9 DEF c
    <2>2. mem[a] = orig[a]
      BY <1>4, <1>7, <1>9
    <2>3. mem'[a] = Xor[<<mem[a], KeyByte(i)>>]
      BY <1>1, <1>2, <1>3, <1>9
    <2>4. KeyByte((a - buf) % SPACE)' = KeyByte(i)
      BY <1>1, <1>3, <1>5, <1>6, <1>9
    <2> QED
      BY <2>1, <2>2, <2>3, <2>4
  <1>10. CASE a # c
    <2>1. mem'[a] = mem[a]
      BY <1>1, <1>2, <1>3, <1>10
    <2>2. (\E j \in 0..i : a = Nth(buf, j)) <=> (\E j \in 0..(i - 1) : a = Nth(buf, j))
      BY <1>1, <1>10 DEF c
    <2>3. KeyByte((a - buf) % SPACE)' = KeyByte((a - buf) % SPACE)
      BY <1>1, <1>3, <1>6, OffsetInNat
    <2> QED
      BY <1>7, <2>1, <2>2, <2>3
  <1> QED
    BY <1>9, <1>10

THEOREM InitSignInv == Init => SignInv
  BY InitServiceInv DEF Init, SignInv, RefusedJustly, PartSigned

THEOREM NextSignInv == SignInv /\ [Next]_vars => SignInv'
  <1> SUFFICES ASSUME SignInv, [Next]_vars PROVE SignInv'
    OBVIOUS
  <1>1. ServiceInv'
    BY NextServiceInv DEF SignInv
  <1>2. CASE UserStore \/ EcallGetCounter \/ EcallUnknown
    BY <1>1, <1>2 DEF UserStore, EcallGetCounter, EcallUnknown, SignInv, RefusedJustly, PartSigned
  <1>3. CASE EcallSign
    <2>1. PICK q \in Request : /\ buf' = q[1] /\ len' = q[2]
                               /\ pc' = IF Refused(q[1], q[2]) THEN "refused" ELSE "loop"
      BY <1>3 DEF EcallSign
    <2>2. RefusedJustly'
      BY <2>1 DEF RefusedJustly
    <2>3. i' = 0 /\ orig' = mem' /\ 0..(i' - 1) = {}
      BY <1>3 DEF EcallSign
    <2>4. PartSigned'
      BY <2>3 DEF PartSigned
    <2> QED
      BY <1>1, <2>2, <2>4 DEF SignInv
  <1>4. CASE SignByte
    <2>1. RefusedJustly'
      BY <1>4 DEF SignByte, RefusedJustly
    <2> QED
      BY <1>1, <1>4, <2>1, SignByteProgress DEF SignInv
  <1>5. CASE SignReturn
    BY <1>1, <1>5 DEF SignReturn, SignInv, RefusedJustly, PartSigned
  <1>6. CASE UNCHANGED vars
    BY <1>1, <1>6 DEF vars, SignInv, RefusedJustly, PartSigned, KeyByte
  <1> QED
    BY <1>2, <1>3, <1>4, <1>5, <1>6 DEF Next

THEOREM SignInvariant == Spec => []SignInv
  BY InitSignInv, NextSignInv, PTL DEF Spec

(* In every state reached, a request that runs is short enough and misses   *)
(* g_prot, and one that is turned away is too long or hits it.              *)
THEOREM GuardAlwaysExact == Spec => []GuardExact
  <1>1. SignInv => GuardExact
    <2> SUFFICES ASSUME SignInv PROVE GuardExact
      OBVIOUS
    <2>1. buf \in Address /\ len \in Nat
      BY GuardFacts DEF SignInv, ServiceInv, TypeOK
    <2>2. ASSUME pc = "loop" PROVE len <= SIGN_MAX /\ Touched(buf, len) \cap Prot = {}
      <3>1. ~Refused(buf, len)
        BY <2>2 DEF SignInv, ServiceInv, LoopGuarded
      <3>2. len <= SIGN_MAX
        BY <2>1, <3>1, GuardFacts DEF Refused
      <3>3. \A j \in 0..(len - 1) : Nth(buf, j) \notin Prot
        BY <2>1, <3>1, GuardSound
      <3> QED
        BY <3>2, <3>3 DEF Touched
    <2>3. ASSUME pc = "refused", len > 0, ~(len > SIGN_MAX)
          PROVE  Touched(buf, len) \cap Prot # {}
      <3>1. Refused(buf, len) /\ len <= SIGN_MAX /\ 0 < len
        BY <2>1, <2>3, GuardFacts DEF SignInv, RefusedJustly
      <3>2. PICK j \in 0..(len - 1) : Nth(buf, j) \in Prot
        BY <2>1, <3>1, GuardComplete
      <3> QED
        BY <3>2 DEF Touched
    <2> QED
      BY <2>2, <2>3 DEF GuardExact
  <1> QED
    BY <1>1, SignInvariant, PTL

(* A finished signature is the keyed transform of the whole buffer and of   *)
(* nothing else, also where the buffer wraps round the end of memory.       *)
THEOREM AlwaysSignsInPlace == Spec => []SignsInPlace
  <1>1. SignInv => SignsInPlace
    BY DEF SignInv, PartSigned, SignsInPlace
  <1> QED
    BY <1>1, SignInvariant, PTL
=============================================================================
