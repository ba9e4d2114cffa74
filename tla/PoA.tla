-------------------------------- MODULE PoA ---------------------------------
(***************************************************************************)
(* The rules of the proof-of-authority engine, internal/consensus/poa.go,  *)
(* as operators over its state: the validator set vs, the last heights at  *)
(* which validators signed (last, a function on the validators that have   *)
(* an entry) and the height cur the engine believes the chain has.         *)
(*                                                                         *)
(* A validator is the number its public key is: the code keeps the keys    *)
(* sorted, so the position of a validator in the set is the number of      *)
(* smaller ones.  A slot is timestamp / blockTime.                         *)
(***************************************************************************)
EXTENDS Integers, FiniteSets

CONSTANTS
  SuspensionWindow,      \* blocks without a signature until suspension (200)
  MinActiveValidators,   \* 1 in the code
  Word                   \* 2^64: heights are unsigned machine words

ASSUME PoAAssumption ==
  /\ SuspensionWindow \in Nat
  /\ MinActiveValidators \in Nat \ {0}
  /\ Word \in Nat /\ Word > SuspensionWindow

DiffInTurn == 2
DiffNoTurn == 1

-----------------------------------------------------------------------------
\* Position of v among the sorted keys of vs.
Rank(vs, v) == Cardinality({u \in vs : u < v})

SlotValidator(vs, slot) ==
  CHOOSE v \in vs : Rank(vs, v) = slot % Cardinality(vs)

\* The difficulty VerifyHeader requires and Prepare sets.
DifficultyOf(vs, v, slot) ==
  IF v = SlotValidator(vs, slot) THEN DiffInTurn ELSE DiffNoTurn

\* A validator signs at most once in SigningLimit consecutive blocks.
SigningLimit_Whole(vs) ==
  IF Cardinality(vs) <= 1 THEN 0 ELSE Cardinality(vs)

SigningLimit(vs) ==
  IF Cardinality(vs) <= 1 THEN 0 ELSE Cardinality(vs) \div 2 + 1

-----------------------------------------------------------------------------
\* Blocks since v signed; a word subtraction, so it wraps when last[v] > cur.
Elapsed(last, cur, v) == (cur - last[v]) % Word

InWindow(last, cur, v) ==
  IF v \in DOMAIN last THEN Elapsed(last, cur, v) <= SuspensionWindow
                       ELSE cur <= SuspensionWindow

ActiveSet(vs, last, cur) == {v \in vs : InWindow(last, cur, v)}

EffectiveSet(vs, last, cur) ==
  IF cur < SuspensionWindow
     \/ Cardinality(ActiveSet(vs, last, cur)) < MinActiveValidators
  THEN vs ELSE ActiveSet(vs, last, cur)

WouldViolateMinActive(vs, last, cur, v) ==
  /\ v \in EffectiveSet(vs, last, cur)
  /\ Cardinality(EffectiveSet(vs, last, cur)) - 1 < MinActiveValidators

IsSuspended_OnlyRecorded(vs, last, cur, v) ==
  /\ cur >= SuspensionWindow
  /\ v \in DOMAIN last /\ ~InWindow(last, cur, v)
  /\ ~WouldViolateMinActive(vs, last, cur, v)

IsSuspended(vs, last, cur, v) ==
  /\ cur >= SuspensionWindow
  /\ ~InWindow(last, cur, v)
  /\ ~WouldViolateMinActive(vs, last, cur, v)

\* Wait of an out-of-turn miner, in half block times.

BackupDelayEffective(vs, last, cur, v, slot) ==
  LET eff == EffectiveSet(vs, last, cur)
      n   == Cardinality(eff)
  IN  IF IsSuspended(vs, last, cur, v) THEN 2
      ELSE IF n <= 1 \/ v \notin eff THEN 0
      ELSE (Rank(eff, v) - slot) % n

=============================================================================
