-------------------------- MODULE ProductionProofs --------------------------
(***************************************************************************)
(* The safety properties of Production, for every number of validators and *)
(* every suspension window.                                                *)
(***************************************************************************)
EXTENDS Production, FiniteSetTheorems, TLAPS

USE PoAAssumption, ProductionAssumption

-----------------------------------------------------------------------------
(* The rules of PoA.                                                       *)

\* The positions of the validators in the sorted set (sortValidators) are
\* distinct and below its size.
LEMMA RankBounds ==
  ASSUME NEW vs, vs \subseteq Nat, IsFiniteSet(vs), NEW v \in vs
  PROVE  Rank(vs, v) \in 0 .. Cardinality(vs) - 1
<1> DEFINE below == {u \in vs : u < v}
<1>1. IsFiniteSet(below) /\ Cardinality(below) <= Cardinality(vs)
      /\ (Cardinality(vs) = Cardinality(below) => vs = below)
  BY FS_Subset, below \subseteq vs
<1>2. Cardinality(below) \in Nat /\ Cardinality(vs) \in Nat
  BY <1>1, FS_CardinalityType
<1>3. vs # below
  BY v \notin below
<1> QED
  BY <1>1, <1>2, <1>3 DEF Rank

LEMMA RankInjective ==
  ASSUME NEW vs, vs \subseteq Nat, IsFiniteSet(vs),
         NEW u \in vs, NEW v \in vs, u < v
  PROVE  Rank(vs, u) < Rank(vs, v)
<1> DEFINE bu == {w \in vs : w < u}
           bv == {w \in vs : w < v}
<1>1. IsFiniteSet(bv)
  BY FS_Subset, bv \subseteq vs
<1>2. bu \subseteq bv
  <2>1. u \in Int /\ v \in Int /\ \A w \in vs : w \in Int
    OBVIOUS
  <2>2. \A w \in vs : w < u => w < v
    BY <2>1
  <2> QED
    BY <2>2
<1>3. Cardinality(bu) <= Cardinality(bv)
      /\ (Cardinality(bv) = Cardinality(bu) => bv = bu) /\ IsFiniteSet(bu)
  BY <1>1, <1>2, FS_Subset
<1>4. u \in bv /\ u \notin bu
  BY SMT
<1>5. Cardinality(bu) \in Nat /\ Cardinality(bv) \in Nat
  BY <1>1, <1>3, FS_CardinalityType
<1> QED
  BY <1>3, <1>4, <1>5 DEF Rank

\* SlotValidator (slotValidatorFromSet, poa.go:302): every slot has a validator
\* of the set, so the CHOOSE that names it is never arbitrary.
THEOREM SlotValidatorExists ==
  ASSUME NEW vs, vs \subseteq Nat, IsFiniteSet(vs), vs # {}, NEW slot \in Nat
  PROVE  /\ SlotValidator(vs, slot) \in vs
         /\ Rank(vs, SlotValidator(vs, slot)) = slot % Cardinality(vs)
<1> DEFINE n == Cardinality(vs)
           f == [v \in vs |-> Rank(vs, v)]
           T == 0 .. n - 1
<1>1. n \in Nat /\ n # 0
  BY FS_CardinalityType, FS_EmptySet
<1>2. f \in [vs -> T]
  BY RankBounds
<1>3. \A u, v \in vs : f[u] = f[v] => u = v
  <2> SUFFICES ASSUME NEW u \in vs, NEW v \in vs, f[u] = f[v], u # v
               PROVE  FALSE
    OBVIOUS
  <2>1. u < v \/ v < u
    BY SMT
  <2>2. f[u] \in Int /\ f[v] \in Int
    BY <1>2
  <2>3. CASE u < v
    <3>1. Rank(vs, u) < Rank(vs, v)
      BY <2>3, RankInjective
    <3> QED
      BY <2>2, <3>1
  <2>4. CASE v < u
    <3>1. Rank(vs, v) < Rank(vs, u)
      BY <2>4, RankInjective
    <3> QED
      BY <2>2, <3>1
  <2> QED
    BY <2>1, <2>3, <2>4
<1>4. f \in Injection(vs, T)
  BY <1>2, <1>3 DEF Injection, IsInjective
<1>5. IsFiniteSet(T) /\ Cardinality(T) = n
  <2>1. n - 1 \in Int /\ 0 \in Int
    BY <1>1
  <2> QED
    BY <1>1, <2>1, FS_Interval
<1>6. f \in Surjection(vs, T)
  BY <1>4, <1>5, FS_Injection
<1>7. slot % n \in T
  BY <1>1
<1>8. \E v \in vs : Rank(vs, v) = slot % Cardinality(vs)
  BY <1>6, <1>7 DEF Surjection
<1> QED
  BY <1>8 DEF SlotValidator

\* EffectiveSet (effectiveSetLocked, poa.go:536) is never empty.
THEOREM EffectiveSetNonEmpty ==
  ASSUME NEW vs, vs # {}, IsFiniteSet(vs), NEW last, NEW cur \in Nat
  PROVE  /\ EffectiveSet(vs, last, cur) \subseteq vs
         /\ EffectiveSet(vs, last, cur) # {}
<1>1. ActiveSet(vs, last, cur) \subseteq vs
  BY DEF ActiveSet
<1>2. Cardinality(ActiveSet(vs, last, cur)) >= MinActiveValidators
        => ActiveSet(vs, last, cur) # {}
  BY FS_EmptySet
<1>3. IsFiniteSet(ActiveSet(vs, last, cur))
  BY <1>1, FS_Subset
<1>4. Cardinality(ActiveSet(vs, last, cur)) \in Nat
  BY <1>3, FS_CardinalityType
<1> QED
  BY <1>1, <1>2, <1>4 DEF EffectiveSet

\* BackupDelayEffective (poa.go:560): at most one block time per validator.
LEMMA DelayBounds ==
  ASSUME NEW vs, vs \subseteq Nat, vs # {}, IsFiniteSet(vs),
         NEW last, NEW cur \in Nat, NEW v, NEW slot \in Nat
  PROVE  BackupDelayEffective(vs, last, cur, v, slot)
           \in 0 .. Cardinality(vs) + 1
<1> DEFINE eff == EffectiveSet(vs, last, cur)
           n   == Cardinality(eff)
<1>1. eff \subseteq vs /\ IsFiniteSet(eff) /\ n <= Cardinality(vs)
  BY EffectiveSetNonEmpty, FS_Subset
<1>2. n \in Nat /\ Cardinality(vs) \in Nat /\ Cardinality(vs) # 0
  BY <1>1, FS_CardinalityType, FS_EmptySet
<1>3. ASSUME n > 1, v \in eff
      PROVE  (Rank(eff, v) - slot) % n \in 0 .. n - 1
  <2>1. Rank(eff, v) \in Int
    <3>1. eff \subseteq Nat
      BY <1>1
    <3>2. Rank(eff, v) \in 0 .. Cardinality(eff) - 1
      BY <1>1, <1>3, <3>1, RankBounds
    <3> QED
      BY <3>2
  <2> QED
    BY <1>2, <1>3, <2>1
<1> QED
  BY <1>1, <1>2, <1>3 DEF BackupDelayEffective

-----------------------------------------------------------------------------
(* The inductive invariant.                                                *)

\* Only a running process waits (runMiner's delay ends with its process).
Waiting == \A v \in Validators : left[v] > 0 => v \in up

IInv == TypeOK /\ Waiting /\ SignersRotate

LEMMA Sizes ==
  /\ N \in Nat /\ N > 0
  /\ Gone \in Nat /\ Gone > N
  /\ SigningLimit(Validators) \in 0 .. N
  /\ 2 * (SigningLimit(Validators) - 1) <= N
<1>1. N \in Nat /\ N # 0
  BY FS_CardinalityType, FS_EmptySet DEF N
<1> QED
  BY <1>1 DEF N, Gone, SigningLimit

\* The instants are in range and SlotValidator is a validator.
LEMMA SlotOfInstant ==
  ASSUME t \in 0 .. 2 * Cycle - 1
  PROVE  LET now == (t + 1) % (2 * Cycle)
         IN  /\ now \in 0 .. 2 * Cycle - 1
             /\ now \div 2 \in Nat
             /\ SlotValidator(Validators, now \div 2) \in Validators
<1> DEFINE now == (t + 1) % (2 * Cycle)
<1>1. 2 * Cycle \in Nat /\ 2 * Cycle > 0
  OBVIOUS
<1>2. now \in 0 .. 2 * Cycle - 1
  BY <1>1
<1>3. now \div 2 \in Nat
  BY <1>1, <1>2
<1> QED
  BY <1>2, <1>3, SlotValidatorExists

LEMMA InitIInv == Init => IInv
<1> SUFFICES ASSUME Init PROVE IInv
  OBVIOUS
<1>1. PICK A \in SUBSET Validators :
        Cardinality(A) >= SigningLimit(Validators) /\ age \in Rotated(A)
  BY DEF Init
<1>2. Cardinality(A) \in Nat /\ Cardinality(A) <= N
  BY FS_Subset, FS_CardinalityType DEF N
<1>3. TypeOK
  <2>1. age \in [Validators -> 0 .. Gone]
    BY <1>1 DEF Rotated
  <2>2. 2 * Cycle - 1 \in Nat
    OBVIOUS
  <2> QED
    BY <2>1, <2>2, Sizes DEF Init, TypeOK
<1>4. Waiting
  BY DEF Init, Waiting
<1>5. ASSUME NEW u \in Validators, NEW v \in Validators, u # v, age[u] = age[v]
      PROVE  age[u] = Gone
  BY <1>1, <1>2, <1>5, Sizes DEF Rotated
<1>6. 0 .. SigningLimit(Validators) - 1 \subseteq {age[v] : v \in Validators}
  <2> SUFFICES ASSUME NEW k \in 0 .. SigningLimit(Validators) - 1
               PROVE  k \in {age[v] : v \in Validators}
    OBVIOUS
  <2>1. k \in 0 .. Cardinality(A) - 1
    BY <1>1, <1>2, Sizes
  <2>2. k \in {age[v] : v \in A}
    BY <1>1, <2>1 DEF Rotated
  <2> QED
    BY <2>2
<1> QED
  BY <1>3, <1>4, <1>5, <1>6 DEF IInv, SignersRotate

\* A block of a validator the signing limit admits keeps the rotation.
LEMMA SignedKeepsRotation ==
  ASSUME IInv, NEW w \in Validators, ~LimitReached(w), age' = Signed(w)
  PROVE  age' \in [Validators -> 0 .. Gone] /\ SignersRotate'
<1>1. age \in [Validators -> 0 .. Gone]
  BY DEF IInv, TypeOK
<1>2. age' \in [Validators -> 0 .. Gone]
  BY <1>1, Sizes DEF Signed
<1>3. age'[w] = 0 /\ age[w] >= SigningLimit(Validators) - 1
  BY <1>1, Sizes DEF Signed, LimitReached
<1>4. \A v \in Validators \ {w} :
        age'[v] = IF age[v] < Gone THEN age[v] + 1 ELSE Gone
  BY DEF Signed
<1>5. ASSUME NEW u \in Validators, NEW v \in Validators, u # v, age'[u] = age'[v]
      PROVE  age'[u] = Gone
  <2>1. age[u] \in 0 .. Gone /\ age[v] \in 0 .. Gone
    BY <1>1
  <2>2. age[u] = age[v] => age[u] = Gone
    BY <1>5 DEF IInv, SignersRotate
  <2> QED
    BY <1>3, <1>4, <1>5, <2>1, <2>2, Sizes
<1>6. ASSUME NEW k \in 0 .. SigningLimit(Validators) - 1
      PROVE  \E v \in Validators : age'[v] = k
  <2>1. CASE k = 0
    BY <1>3, <2>1
  <2>2. CASE k # 0
    <3>1. k - 1 \in 0 .. SigningLimit(Validators) - 1 /\ k - 1 < Gone
          /\ k - 1 # age[w]
      BY <1>1, <1>3, <2>2, Sizes
    <3>2. PICK v \in Validators : age[v] = k - 1
      BY <3>1 DEF IInv, SignersRotate
    <3> QED
      BY <1>4, <3>1, <3>2
  <2> QED
    BY <2>1, <2>2
<1> QED
  BY <1>2, <1>5, <1>6 DEF SignersRotate

LEMMA InstantIInv == IInv /\ Instant => IInv'
<1> SUFFICES ASSUME IInv, Instant PROVE IInv'
  OBVIOUS
<1> DEFINE now   == (t + 1) % (2 * Cycle)
           slot  == now \div 2
           p     == SlotValidator(Validators, slot)
           woken == Woken(now)
<1>0. TypeOK
  BY DEF IInv
<1>1. now \in 0 .. 2 * Cycle - 1 /\ slot \in Nat /\ p \in Validators
  BY <1>0, SlotOfInstant DEF TypeOK
<1>2. t' = now /\ up' = up /\ known' = known
  BY DEF Instant, Tick
<1> HIDE DEF now, slot, p
<1>3. PICK hears \in Hears(woken, p) :
        LET delay == [v \in Backups(woken, p, hears) |-> Delay(v, slot)]
            best  == Heaviest(Tries(woken, p, delay), slot)
        IN  /\ left' = Remaining(delay)
            /\ \/ /\ best = {}
                  /\ outcome' = "none"
                  /\ stale' = {v \in stale : left'[v] > 0}
                  /\ UNCHANGED age
               \/ \E v \in best :
                    /\ age' = Signed(v)
                    /\ outcome' = IF v = p THEN "inturn" ELSE "backup"
                    /\ stale' = {u \in Validators : left'[u] > 0}
  BY DEF Instant, now, slot, p
<1> DEFINE delay == [v \in Backups(woken, p, hears) |-> Delay(v, slot)]
           best  == Heaviest(Tries(woken, p, delay), slot)
<1>4. woken \subseteq up /\ up \subseteq Validators
  BY <1>0 DEF Woken, TypeOK
<1>5. Backups(woken, p, hears) \subseteq woken
  BY DEF Backups
<1>6. \A v : Delay(v, slot) \in 0 .. N + 1
  <2>1. Height \in Nat
    BY Sizes DEF Height
  <2> QED
    BY <1>1, <2>1, DelayBounds DEF Delay, N
<1>7. /\ left' \in [Validators -> 0 .. N + 1]
      /\ \A v \in Validators : left'[v] > 0 => left[v] > 0 \/ v \in woken
  <2>1. left' = [v \in Validators |->
                   IF v \in DOMAIN delay THEN delay[v]
                   ELSE IF left[v] > 0 THEN left[v] - 1 ELSE 0]
    BY <1>3 DEF Remaining
  <2>2. \A v \in DOMAIN delay : delay[v] \in 0 .. N + 1 /\ v \in woken
    BY <1>5, <1>6
  <2>3. left \in [Validators -> 0 .. N + 1]
    BY <1>0 DEF TypeOK
  <2> HIDE DEF delay
  <2> QED
    BY <2>1, <2>2, <2>3, Sizes
<1>8. Waiting'
  BY <1>2, <1>4, <1>7 DEF IInv, Waiting
<1>9. best \subseteq Validators /\ \A v \in best : ~LimitReached(v)
  <2>1. Tries(woken, p, delay) \subseteq Validators
    BY <1>0, <1>4, <1>5 DEF Tries, TypeOK
  <2> QED
    BY <2>1 DEF Heaviest
<1>10. CASE /\ outcome' = "none"
            /\ stale' = {v \in stale : left'[v] > 0}
            /\ UNCHANGED age
  <2>1. TypeOK'
    BY <1>0, <1>1, <1>2, <1>7, <1>10 DEF TypeOK
  <2>2. SignersRotate'
    BY <1>10 DEF IInv, SignersRotate
  <2> QED
    BY <1>8, <2>1, <2>2 DEF IInv
<1>11. ASSUME NEW v \in best,
              /\ age' = Signed(v)
              /\ outcome' = IF v = p THEN "inturn" ELSE "backup"
              /\ stale' = {u \in Validators : left'[u] > 0}
       PROVE  IInv'
  <2>1. age' \in [Validators -> 0 .. Gone] /\ SignersRotate'
    BY <1>9, <1>11, SignedKeepsRotation
  <2>2. stale' \subseteq {u \in up' : left'[u] > 0}
    BY <1>8, <1>11 DEF Waiting
  <2>3. TypeOK'
    BY <1>0, <1>1, <1>2, <1>7, <1>11, <2>1, <2>2 DEF TypeOK
  <2> QED
    BY <1>8, <2>1, <2>3 DEF IInv
<1> QED
  BY <1>3, <1>10, <1>11

LEMMA NextIInv == IInv /\ [Next]_vars => IInv'
<1> SUFFICES ASSUME IInv, [Next]_vars PROVE IInv'
  OBVIOUS
<1> USE DEF IInv
<1>1. CASE Instant
  BY <1>1, InstantIInv
<1>2. ASSUME NEW v \in Validators, Stop(v) PROVE IInv'
  <2>1. TypeOK'
    BY <1>2, Sizes DEF Stop, TypeOK
  <2>2. Waiting'
    BY <1>2 DEF Stop, Waiting, TypeOK
  <2> QED
    BY <1>2, <2>1, <2>2 DEF Stop, SignersRotate
<1>3. ASSUME NEW v \in Validators, Start(v) PROVE IInv'
  BY <1>3 DEF Start, TypeOK, Waiting, SignersRotate
<1>4. ASSUME NEW v \in Validators, Settle(v) PROVE IInv'
  BY <1>4 DEF Settle, TypeOK, Waiting, SignersRotate
<1>5. CASE UNCHANGED vars
  BY <1>5 DEF vars, TypeOK, Waiting, SignersRotate
<1> QED
  BY <1>1, <1>2, <1>3, <1>4, <1>5 DEF Next

\* The variables of the network of miners keep their types.
THEOREM TypeCorrect == Spec => []TypeOK
<1>1. IInv => TypeOK
  BY DEF IInv
<1> QED
  BY <1>1, InitIInv, NextIInv, PTL DEF Spec

\* Successive blocks have different signers as far as the signing limit
\* (checkSigningLimit, processor.go:602) reaches.
THEOREM SignersRotateAlways == Spec => []SignersRotate
<1>1. IInv => SignersRotate
  BY DEF IInv
<1> QED
  BY <1>1, InitIInv, NextIInv, PTL DEF Spec

-----------------------------------------------------------------------------
(* A majority can go on.                                                   *)

LEMMA MajorityEligible == IInv => SomeoneMaySign
<1> SUFFICES ASSUME IInv, NEW Q \in SUBSET Validators, 2 * Cardinality(Q) > N,
                    \A v \in Q : LimitReached(v)
             PROVE  FALSE
  BY DEF SomeoneMaySign
<1> DEFINE L == SigningLimit(Validators)
           T == 0 .. L - 2
           f == [v \in Q |-> age[v]]
<1>1. IsFiniteSet(Q) /\ Cardinality(Q) \in Nat
  BY FS_Subset, FS_CardinalityType
<1>2. L \in Int /\ 2 * (L - 1) <= N
  BY Sizes
<1>3. IsFiniteSet(T) /\ Cardinality(T) = IF 0 > L - 2 THEN 0 ELSE L - 1
  <2>1. L - 2 \in Int /\ 0 \in Int
    BY <1>2
  <2>2. IsFiniteSet(T) /\ Cardinality(T) = IF 0 > L - 2 THEN 0 ELSE (L - 2) - 0 + 1
    BY <2>1, FS_Interval
  <2> HIDE DEF L
  <2> QED
    BY <2>2, <1>2
<1>4. f \in [Q -> T]
  <2>1. \A v \in Q : age[v] \in Nat /\ age[v] < L - 1
    BY DEF LimitReached, IInv, TypeOK
  <2> QED
    BY <2>1, <1>2
<1>5. Cardinality(T) < Cardinality(Q)
  BY <1>1, <1>2, <1>3, Sizes
<1>6. \A u, v \in Q : f[u] = f[v] => u = v
  <2> SUFFICES ASSUME NEW u \in Q, NEW v \in Q, f[u] = f[v], u # v
               PROVE  FALSE
    OBVIOUS
  <2>1. age[u] = Gone
    BY DEF IInv, SignersRotate
  <2>2. age[u] < L - 1
    BY DEF LimitReached
  <2> QED
    BY <1>2, <2>1, <2>2, Sizes
<1>7. f \in Injection(Q, T)
  BY <1>4, <1>6 DEF Injection, IsInjective
<1>8. Cardinality(Q) <= Cardinality(T)
  BY <1>3, <1>7, FS_Injection
<1> QED
  BY <1>1, <1>3, <1>5, <1>8, FS_CardinalityType

\* SomeoneMaySign, for every number of validators: the signing limit
\* (SigningLimit, poa.go:336) never bars a whole majority.
THEOREM SomeoneMayAlwaysSign == Spec => []SomeoneMaySign
<1> QED
  BY MajorityEligible, InitIInv, NextIInv, PTL DEF Spec

-----------------------------------------------------------------------------
(* Suspension.                                                             *)

\* What the engine computes from heights is what the ages say.
LEMMA WindowIsAge ==
  ASSUME IInv, NEW v \in Validators
  PROVE  InWindow(Last, Height, v) <=> age[v] < Gone
<1>1. age[v] \in 0 .. Gone
  BY DEF IInv, TypeOK
<1>2. CASE age[v] < Gone
  <2>1. v \in DOMAIN Last /\ Last[v] = Height - age[v]
    BY <1>2 DEF Last
  <2>2. Height - Last[v] = age[v]
    BY <1>1, <2>1, Sizes DEF Height
  <2>3. age[v] \in 0 .. Word - 1
    BY <1>1, <1>2 DEF Gone
  <2>4. age[v] % Word = age[v]
    BY <2>3
  <2>5. age[v] <= SuspensionWindow
    BY <1>1, <1>2 DEF Gone
  <2> QED
    <3>1. Elapsed(Last, Height, v) = age[v]
      BY <2>2, <2>4 DEF Elapsed
    <3> QED
      BY <1>2, <2>1, <2>5, <3>1 DEF InWindow
<1>3. CASE ~(age[v] < Gone)
  <2>1. v \notin DOMAIN Last
    BY <1>3 DEF Last
  <2>2. ~(Height <= SuspensionWindow)
    BY DEF Height, Gone
  <2> QED
    BY <1>3, <2>1, <2>2 DEF InWindow
<1> QED
  BY <1>2, <1>3

LEMMA SuspensionsAgree == IInv => ActiveRemain
<1> SUFFICES ASSUME IInv PROVE ActiveRemain
  OBVIOUS
<1> DEFINE act == {v \in Validators : age[v] < Gone}
           eff == EffectiveSet(Validators, Last, Height)
<1>1. ActiveSet(Validators, Last, Height) = act
  BY WindowIsAge DEF ActiveSet
<1>2. IsFiniteSet(act) /\ Cardinality(act) \in Nat
      /\ (Cardinality(act) = 0 <=> act = {})
  BY FS_Subset, FS_CardinalityType, FS_EmptySet
<1>3. Height \in Nat /\ Height >= SuspensionWindow
  BY DEF Height, Gone
<1>4. eff = IF act = {} THEN Validators ELSE act
  <2>1. ~(Height < SuspensionWindow)
    BY <1>3
  <2>2. Cardinality(act) < MinActiveValidators <=> act = {}
    BY <1>2
  <2> HIDE DEF act
  <2> QED
    BY <1>1, <2>1, <2>2 DEF EffectiveSet
<1>5. \A v \in Validators : Suspended(v) <=>
        v \notin act /\ ~(v \in eff /\ Cardinality(eff) - 1 < MinActiveValidators)
  BY <1>3, WindowIsAge DEF Suspended, IsSuspended, WouldViolateMinActive
<1>6. CASE act # {}
  <2>1. eff = act
    BY <1>4, <1>6
  <2>2. \A v \in Validators : Suspended(v) <=> v \notin act
    BY <1>5, <2>1
  <2>3. \A v \in Validators : age[v] = 0 => v \in act
    BY Sizes
  <2> QED
    BY <2>1, <2>2, <2>3 DEF ActiveRemain
<1>7. CASE act = {}
  <2>1. SigningLimit(Validators) = 0
    <3> SUFFICES ASSUME SigningLimit(Validators) # 0 PROVE FALSE
      OBVIOUS
    <3>1. 0 \in 0 .. SigningLimit(Validators) - 1
      BY Sizes
    <3>2. \E v \in Validators : age[v] = 0
      BY <3>1 DEF IInv, SignersRotate
    <3> QED
      BY <1>7, <3>2, Sizes
  <2>2. Cardinality(Validators) = 1
    <3>1. N <= 1
      BY <2>1, Sizes DEF SigningLimit, N
    <3> QED
      BY <3>1, Sizes DEF N
  <2>3. \A v \in Validators : ~Suspended(v)
    BY <1>4, <1>5, <1>7, <2>2
  <2> QED
    BY <1>4, <1>7, <2>3 DEF ActiveRemain
<1> QED
  BY <1>6, <1>7

\* ActiveRemain, for every number of validators and every window: the
\* effective set (effectiveSetLocked, poa.go:536) is the set of validators that
\* isSuspendedLocked does not suspend, and the last signer is one of them.
THEOREM ActiveAlwaysRemain == Spec => []ActiveRemain
<1> QED
  BY SuspensionsAgree, InitIInv, NextIInv, PTL DEF Spec

=============================================================================
