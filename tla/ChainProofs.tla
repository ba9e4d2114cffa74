----------------------------- MODULE ChainProofs -----------------------------
(***************************************************************************)
(* The theorems about Chain, for every block tree and through every        *)
(* interleaving of blocks, reorgs, rebuilds, crashes and recoveries.       *)
(*                                                                         *)
(* First the ledger: as long as none of the named accidents has happened,  *)
(* the UTXO set, the supply, the cumulative difficulty, the height index,  *)
(* the undo records and the persisted tip are those of the active chain.   *)
(* These properties are about the moments when no call is in progress.     *)
(* Their inductive invariant, LedgerInv, has to say what holds at every    *)
(* point in between: which block's ledger the UTXO set is while a reorg    *)
(* reverts, replays or rebuilds, which branch the height index shows, and  *)
(* what a crash at that point leaves for the recovery.                     *)
(*                                                                         *)
(* Then what the node keeps beside the ledger, and what its chain promises *)
(* its callers: the registry and the registration count, the validator set *)
(* and the transaction index follow the active chain; recovery restores    *)
(* the ledger; fork choice only ever gains work; every step of Chain is a  *)
(* step of Ledger.  Each of these sections has its own inductive           *)
(* invariant, with one equation per phase of ProcessBlock, beside          *)
(* LedgerInv.  The last section bounds what one retarget does to the       *)
(* difficulty.                                                             *)
(***************************************************************************)
EXTENDS ChainProperties, FiniteSetTheorems, WellFoundedInduction, TLAPS

-----------------------------------------------------------------------------
(* Maxima.  The greatest element of a finite set of numbers comes from the *)
(* well-foundedness of strict inclusion: the fewer numbers lie above x,    *)
(* the greater x is.                                                       *)

\* Every finite non-empty set of numbers has a greatest element.
LEMMA MaxExists ==
  ASSUME NEW S \in SUBSET Nat, IsFiniteSet(S), S # {}
  PROVE  \E x \in S : \A y \in S : x >= y
<1> DEFINE above(x) == {y \in S : y > x}
           T == {above(x) : x \in S}
           R == StrictSubsetOrdering(S)
<1>1. T # {} /\ T \subseteq FiniteSubsetsOf(S)
  <2>1. ASSUME NEW x \in S PROVE above(x) \in SUBSET S /\ IsFiniteSet(above(x))
    <3>1. above(x) \in SUBSET S
      OBVIOUS
    <3> HIDE DEF above
    <3> QED BY <3>1, FS_Subset
  <2> HIDE DEF above
  <2> QED BY <2>1 DEF FiniteSubsetsOf
<1>2. IsWellFoundedOn(R, FiniteSubsetsOf(S))
  BY FS_StrictSubsetOrderingWellFounded
<1>3. PICK t \in T : \A u \in T : ~ (<<u, t>> \in R)
  <2> HIDE DEF T, R
  <2> QED BY <1>1, <1>2, WFMin
<1>4. PICK x \in S : t = above(x)
  OBVIOUS
<1>5. ASSUME NEW y \in S, y > x PROVE FALSE
  <2>1. above(y) \subseteq above(x) /\ above(y) # above(x)
    <3>1. \A z \in S : z > y => z > x
      BY <1>5
    <3>2. y \in above(x) /\ y \notin above(y)
      BY <1>5
    <3> QED BY <3>1, <3>2
  <2>2. <<above(y), above(x)>> \in R
    BY <2>1 DEF StrictSubsetOrdering
  <2> QED BY <2>2, <1>3, <1>4
<1> QED BY <1>5

\* The operator Max picks it.
LEMMA MaxIsGreatest ==
  ASSUME NEW S \in SUBSET Nat, IsFiniteSet(S), S # {}
  PROVE  Max(S) \in S /\ \A y \in S : Max(S) >= y
BY MaxExists DEF Max

-----------------------------------------------------------------------------
(* Heights, and the effect of a block. *)

\* Heights are the heights of blocks, with every smaller number.
LEMMA HeightsClosed ==
  /\ Heights \subseteq Nat
  /\ \A b \in Block : 0 .. Height[b] \subseteq Heights /\ Height[b] \in Heights
  /\ \A h \in Heights : 0 .. h \subseteq Heights
  /\ Path[StartTip] \in [0 .. Height[StartTip] -> Block]
<1>1. \A b \in Block : Height[b] \in Nat
  BY TreeAssumption
<1>2. Heights \subseteq Nat
  BY <1>1 DEF Heights
<1>3. \A b \in Block : 0 .. Height[b] \subseteq Heights /\ Height[b] \in Heights
  BY <1>1 DEF Heights
<1>4. ASSUME NEW h \in Heights PROVE 0 .. h \subseteq Heights
  <2>1. PICK b \in Block : h \in 0 .. Height[b]
    BY DEF Heights
  <2>2. 0 .. h \subseteq 0 .. Height[b]
    BY <2>1, <1>1
  <2> QED BY <2>1, <2>2 DEF Heights
<1>5. Path[StartTip] \in [0 .. Height[StartTip] -> Block]
  BY PathAssumption, DataAssumption
<1> QED BY <1>2, <1>3, <1>4, <1>5

\* Every transaction of a block creates and spends outpoints.
LEMMA TxsTyped ==
  ASSUME NEW b \in Block, NEW i \in 1 .. Size(b)
  PROVE  /\ TxsOf[b][i] \in Tx
         /\ TxIn[TxsOf[b][i]] \subseteq Outpoint
         /\ TxOut[TxsOf[b][i]] \subseteq Outpoint
<1>1. TxsOf[b] \in Seq(Tx)
  BY DataAssumption
<1>2. TxsOf[b][i] \in Tx
  BY <1>1 DEF Size
<1> QED BY <1>2, DataAssumption

LEMMA SizeNat == \A b \in Block : Size(b) \in Nat
BY DataAssumption DEF Size

\* Applying a block, or part of it, gives a UTXO set.
LEMMA AppliedTyped ==
  ASSUME NEW b \in Block, NEW k \in 0 .. Size(b), NEW U \in SUBSET Entry
  PROVE  Applied(U, b, k) \subseteq Entry
<1>1. k \in Nat /\ Size(b) \in Nat
  BY SizeNat
<1>2. ASSUME NEW i \in 1 .. k, NEW o \in TxOut[TxsOf[b][i]]
      PROVE  NewEntry(b, i, o) \in Entry
  <2>1. i \in 1 .. Size(b)
    BY <1>1
  <2>2. o \in Outpoint
    BY <2>1, TxsTyped
  <2>3. Height[b] \in Nat /\ UnstakeCooldown \in Nat
    BY TreeAssumption, DataAssumption
  <2> QED BY <2>2, <2>3 DEF NewEntry, Entry
<1>3. NewEntries(b, k) \subseteq Entry
  BY <1>2 DEF NewEntries
<1> QED BY <1>3 DEF Applied

\* What a block spends and creates.
LEMMA EffectsTyped ==
  ASSUME NEW b \in Block
  PROVE  /\ Creates(b) \subseteq Outpoint
         /\ Registers(b) \subseteq Outpoint
         /\ Cardinality(Registers(b)) \in Nat
         /\ StakedBy(Creates(b)) \subseteq Validator
<1>1. Creates(b) \subseteq Outpoint
  BY TxsTyped DEF Creates, Outs
<1>2. Registers(b) \subseteq Outpoint
  BY <1>1 DEF Registers
<1>3. Cardinality(Registers(b)) \in Nat
  BY <1>2, DataAssumption, FS_Subset, FS_CardinalityType
<1>4. StakedBy(Creates(b)) \subseteq Validator
  BY <1>1, DataAssumption DEF StakedBy
<1> QED BY <1>1, <1>2, <1>3, <1>4

\* What is read off a UTXO set.
LEMMA SetTyped ==
  ASSUME NEW U \in SUBSET Entry
  PROVE  /\ RegisteredIn(U) \subseteq Outpoint
         /\ Cardinality(RegisteredIn(U)) \in Nat
         /\ StakedBy(OpsOf(U)) \subseteq Validator
<1>1. OpsOf(U) \subseteq Outpoint
  BY DEF OpsOf, Entry
<1>2. RegisteredIn(U) \subseteq Outpoint
  BY <1>1 DEF RegisteredIn
<1>3. Cardinality(RegisteredIn(U)) \in Nat
  BY <1>2, DataAssumption, FS_Subset, FS_CardinalityType
<1>4. StakedBy(OpsOf(U)) \subseteq Validator
  BY <1>1, DataAssumption DEF StakedBy
<1> QED BY <1>2, <1>3, <1>4

\* The supply never grows by less than nothing.
LEMMA CapRewardNat ==
  ASSUME NEW r \in Nat, NEW s \in Nat
  PROVE  CapReward(r, s) \in Nat
BY DataAssumption DEF CapReward

-----------------------------------------------------------------------------
(* The handlers. *)

LEMMA JoinTyped ==
  ASSUME registry \subseteq Outpoint, validators \subseteq Validator,
         NEW b \in Block, NEW U, NEW S \in SUBSET Entry, JoinHandlers(b, U, S)
  PROVE  registry' \subseteq Outpoint /\ validators' \subseteq Validator
BY EffectsTyped DEF JoinHandlers, HandleRegistration, Restake, Unstake

LEMMA LeaveTyped ==
  ASSUME registry \subseteq Outpoint, validators \subseteq Validator,
         NEW b \in Block, NEW U, NEW S \in SUBSET Entry, LeaveHandlers(b, U, S)
  PROVE  registry' \subseteq Outpoint /\ validators' \subseteq Validator
BY SetTyped DEF LeaveHandlers, Restake, Unstake

-----------------------------------------------------------------------------
(* The strengthening. *)

\* Genesis stays stored and indexed, a block in progress is not genesis, and
\* the blocks that Reorg still has to revert are indexed.
PhaseOK ==
  /\ Genesis \in blocks /\ heightIdx[0] = Genesis
  /\ pc \in {"apply", "commit", "notify", "decide", "revert", "replay",
             "rebuild"} => Height[target] > 0
  /\ pc = "revert" => /\ fork < pos /\ pos <= height
                      /\ \A h \in fork + 1 .. height : heightIdx[h] # None

TypeInv == TypeOK /\ PhaseOK

LEMMA InitTyped == Init => TypeInv
<1> SUFFICES ASSUME Init PROVE TypeInv
  OBVIOUS
<1>1. StartTip \in Block /\ Genesis \in Block /\ Height[Genesis] = 0
  BY DataAssumption, TreeAssumption
<1>2. 0 \in Heights /\ Height[StartTip] \in Heights
  BY <1>1, HeightsClosed
<1>3. UtxoAt[StartTip] \subseteq Entry /\ SupplyAt[StartTip] \in Nat
      /\ WorkAt[StartTip] \in Nat
  BY <1>1, LedgerAssumption
<1>4. heightIdx \in [Heights -> Block \cup {None}]
  <2>1. ASSUME NEW h \in Heights, h <= Height[StartTip]
        PROVE  Path[StartTip][h] \in Block
    <3>1. h \in 0 .. Height[StartTip]
      BY <2>1, <1>2, HeightsClosed
    <3> QED BY <3>1, HeightsClosed
  <2> QED BY <2>1 DEF Init
<1>5. txIdx \in [Tx -> Block \cup {None}]
  <2>1. \A t \in Tx : OnPath(t) \subseteq Block
    BY HeightsClosed DEF OnPath
  <2> QED BY <2>1 DEF Init
<1>6. undo \in [Block -> [spent : SUBSET Entry, reward : Nat] \cup {NoUndo}]
  BY DEF Init
<1>7. /\ registry \subseteq Outpoint /\ regs \in Nat
      /\ validators \subseteq Validator
  BY <1>3, SetTyped, DataAssumption DEF Init
<1>8. blocks \subseteq Block
  BY HeightsClosed DEF Init
<1>9. Genesis \in blocks /\ heightIdx[0] = Genesis
  BY <1>1, <1>2, PathAssumption, HeightsClosed, TreeAssumption DEF Init
<1> QED
  BY <1>1, <1>2, <1>3, <1>4, <1>5, <1>6, <1>7, <1>8, <1>9
     DEF Init, TypeInv, TypeOK, PhaseOK

-----------------------------------------------------------------------------
(* One lemma per action. *)

LEMMA AcceptTyped ==
  ASSUME TypeInv, NEW b \in Block, Accept(b)
  PROVE  TypeInv'
BY TreeAssumption, HeightsClosed
   DEF Accept, TypeInv, TypeOK, PhaseOK, store, db, mem, acc, call

LEMMA ApplyTyped ==
  ASSUME TypeInv, Apply
  PROVE  TypeInv'
BY AppliedTyped, SizeNat
   DEF Apply, TypeInv, TypeOK, PhaseOK, store, db, mem, acc, call, Spent

LEMMA NotifyTyped ==
  ASSUME TypeInv, Notify
  PROVE  TypeInv'
BY JoinTyped
   DEF Notify, TypeInv, TypeOK, PhaseOK, store, db, mem, acc, call

LEMMA StoreForkTyped ==
  ASSUME TypeInv, NEW b \in Block, StoreFork(b)
  PROVE  TypeInv'
BY TreeAssumption
   DEF StoreFork, TypeInv, TypeOK, PhaseOK, store, db, mem, acc, call

LEMMA KeepCurrentTyped ==
  ASSUME TypeInv, KeepCurrent
  PROVE  TypeInv'
BY DEF KeepCurrent, TypeInv, TypeOK, PhaseOK, store, db, mem, acc, call

LEMMA ReplayFailsTyped ==
  ASSUME TypeInv, ReplayFails
  PROVE  TypeInv'
BY DEF ReplayFails, TypeInv, TypeOK, PhaseOK, store, db, mem, acc, call, BrokenKinds

LEMMA FinishReorgTyped ==
  ASSUME TypeInv, FinishReorg
  PROVE  TypeInv'
BY HeightsClosed
   DEF FinishReorg, TypeInv, TypeOK, PhaseOK, store, db, mem, acc, call

LEMMA RebuildFailsTyped ==
  ASSUME TypeInv, RebuildFails
  PROVE  TypeInv'
BY DEF RebuildFails, TypeInv, TypeOK, PhaseOK, store, db, mem, acc, call, BrokenKinds

LEMMA FinishRebuildTyped ==
  ASSUME TypeInv, FinishRebuild
  PROVE  TypeInv'
BY HeightsClosed
   DEF FinishRebuild, Rebuilt, PersistTip, TypeInv, TypeOK, PhaseOK, store, db, mem, acc,
       call

LEMMA FinishRecoveryTyped ==
  ASSUME TypeInv, FinishRecovery
  PROVE  TypeInv'
BY DEF FinishRecovery, TypeInv, TypeOK, PhaseOK, store, db, mem, acc, call

\* Commit.
LEMMA CommitTyped ==
  ASSUME TypeInv, Commit
  PROVE  TypeInv'
<1> DEFINE r == CapReward(Minted[target], supply)
<1>1. r \in Nat /\ Difficulty[target] \in Nat
  BY CapRewardNat, DataAssumption DEF TypeInv, TypeOK
<1>2. Cardinality(Registers(target)) \in Nat
  BY EffectsTyped DEF TypeInv, TypeOK
<1>3. Height[target] \in Heights /\ Height[target] > 0
  BY HeightsClosed DEF TypeInv, TypeOK, PhaseOK, Commit
<1> HIDE DEF r
<1> QED
  BY <1>1, <1>2, <1>3
     DEF Commit, CommitBatch, IndexHeight, IndexTxs, WithUndo, r,
         TypeInv, TypeOK, PhaseOK, store, db, mem, acc, call

\* The fork point is a height, below the block that forks.
LEMMA ForkHeightTyped ==
  ASSUME TypeInv, NEW b \in Block, Height[b] > 0
  PROVE  /\ ForkHeight(b) \in 0 .. Height[b] - 1
         /\ heightIdx[ForkHeight(b)] = Path[b][ForkHeight(b)]
<1> DEFINE S == {h \in 0 .. Height[b] - 1 : heightIdx[h] = Path[b][h]}
<1>1. Height[b] \in Nat
  BY TreeAssumption
<1>2. S \subseteq 0 .. Height[b] - 1 /\ S \in SUBSET Nat
  BY <1>1
<1>3. 0 \in S
  BY <1>1, PathAssumption DEF TypeInv, PhaseOK
<1>4. IsFiniteSet(S)
  <2>1. IsFiniteSet(0 .. Height[b] - 1)
    BY <1>1, FS_Interval
  <2> HIDE DEF S
  <2> QED BY <1>2, <2>1, FS_Subset
<1>5. Max(S) \in S
  <2> HIDE DEF S
  <2> QED BY <1>2, <1>3, <1>4, MaxIsGreatest
<1> QED BY <1>5, <1>2 DEF ForkHeight

LEMMA StartReorgTyped ==
  ASSUME TypeInv, StartReorg
  PROVE  TypeInv'
<1>1. target \in Block /\ Height[target] > 0 /\ Height[target] \in Nat
  BY TreeAssumption DEF StartReorg, TypeInv, TypeOK, PhaseOK
<1>2. fork' \in 0 .. Height[target] - 1
  BY <1>1, ForkHeightTyped DEF StartReorg
<1>3. fork' \in Heights /\ fork' \in Nat /\ height \in Nat
  BY <1>1, <1>2, HeightsClosed DEF TypeInv, TypeOK
<1>4. \A h \in fork' + 1 .. height : heightIdx[h] # None
  BY DEF StartReorg, Outweighs
<1> QED
  BY <1>1, <1>2, <1>3, <1>4
     DEF StartReorg, TypeInv, TypeOK, PhaseOK, BrokenKinds,
         store, db, mem, acc, call

\* One turn of the revert loop: the block and its undo record exist.
LEMMA RevertBlockTyped ==
  ASSUME TypeInv, RevertBlock
  PROVE  TypeInv'
<1> DEFINE b == heightIdx[pos]
<1>1. /\ pos \in fork + 1 .. height /\ pos \in Heights /\ fork \in Nat
      /\ height \in Nat /\ pos \in Nat
  BY HeightsClosed DEF RevertBlock, TypeInv, TypeOK, PhaseOK
<1>2. b \in Block
  BY <1>1 DEF RevertBlock, TypeInv, TypeOK, PhaseOK
<1>3. undo[b] \in [spent : SUBSET Entry, reward : Nat]
  BY <1>2 DEF RevertBlock, OldBlock, TypeInv, TypeOK
<1>4. undo[b].spent \subseteq Entry /\ undo[b].reward \in Nat
  BY <1>3
<1>5. Cardinality(Registers(b)) \in Nat /\ Difficulty[b] \in Nat
  BY <1>2, EffectsTyped, DataAssumption
<1>6. utxo' \subseteq Entry
  BY <1>4 DEF RevertBlock, OldBlock, Reverted, TypeInv, TypeOK
<1>7. registry' \subseteq Outpoint /\ validators' \subseteq Validator
  BY <1>2, <1>4, LeaveTyped DEF RevertBlock, OldBlock, TypeInv, TypeOK
<1>8. supply' \in Nat /\ regs' \in Nat /\ cumDiff' \in Nat
  BY <1>4, <1>5 DEF RevertBlock, OldBlock, TypeInv, TypeOK
<1>9. txIdx' \in [Tx -> Block \cup {None}]
      /\ undo' \in [Block -> [spent : SUBSET Entry, reward : Nat] \cup {NoUndo}]
  BY DEF RevertBlock, OldBlock, UnindexTxs, TypeInv, TypeOK
<1>10. /\ pos' \in Nat
       /\ pc' \in {"idle", "replay", "revert"}
       /\ pc' = "revert" => fork < pos' /\ pos' <= height
       /\ broken' \subseteq BrokenKinds
  BY <1>1 DEF RevertBlock, TypeInv, TypeOK, PhaseOK, BrokenKinds
<1> HIDE DEF b
<1>11. TypeOK'
  BY <1>6, <1>7, <1>8, <1>9, <1>10
     DEF RevertBlock, TypeInv, TypeOK, db, mem, acc, call
<1>12. PhaseOK'
  BY <1>10 DEF RevertBlock, TypeInv, PhaseOK, db
<1> QED BY <1>11, <1>12 DEF TypeInv

LEMMA ReplayBlockTyped ==
  ASSUME TypeInv, ReplayBlock
  PROVE  TypeInv'
<1> DEFINE b == NewBlock
           r == CapReward(Minted[b], supply)
           h == Height[b]
<1>1. pos + 1 \in 0 .. Height[target] /\ target \in Block
  BY TreeAssumption DEF ReplayBlock, TypeInv, TypeOK
<1>2. b \in Block /\ h = pos + 1
  <2>1. /\ Path[target] \in [0 .. Height[target] -> Block]
        /\ \A g \in 0 .. Height[target] : Height[Path[target][g]] = g
    BY <1>1, PathAssumption
  <2> QED BY <1>1, <2>1 DEF NewBlock
<1>3. h \in Heights /\ h > 0 /\ pos + 1 \in Nat
  BY <1>2, HeightsClosed DEF TypeInv, TypeOK
<1>4. r \in Nat /\ Difficulty[b] \in Nat /\ Cardinality(Registers(b)) \in Nat
  BY <1>2, CapRewardNat, DataAssumption, EffectsTyped DEF TypeInv, TypeOK
<1>5. Spent(utxo, b) \subseteq Entry /\ utxo' \subseteq Entry
  BY <1>2, AppliedTyped, SizeNat DEF Spent, ReplayBlock, TypeInv, TypeOK
<1>6. registry' \subseteq Outpoint /\ validators' \subseteq Validator
  BY <1>2, <1>5, JoinTyped DEF ReplayBlock, TypeInv, TypeOK
<1>7. /\ blocks' = blocks \cup {b}
      /\ heightIdx' = [heightIdx EXCEPT ![h] = b]
      /\ txIdx' = IndexTxs(txIdx, b)
      /\ undo' = [undo EXCEPT ![b] = [spent |-> Spent(utxo, b), reward |-> r]]
      /\ dbTip' = b /\ dbHeight' = h
      /\ dbSupply' = supply + r /\ dbCumDiff' = cumDiff + Difficulty[b]
      /\ supply' = supply + r /\ cumDiff' = cumDiff + Difficulty[b]
      /\ regs' = regs + Cardinality(Registers(b))
      /\ pos' = pos + 1
  BY DEF ReplayBlock, CommitBatch, IndexHeight, WithUndo
<1>8. UNCHANGED <<checkpoint, tip, height, pc, target, fork, spent, acc, broken>>
  BY DEF ReplayBlock
<1>9. pc = "replay"
  BY DEF ReplayBlock
<1> HIDE DEF b, r, h
<1>10. TypeOK'
  BY <1>2, <1>3, <1>4, <1>5, <1>6, <1>7, <1>8
     DEF IndexTxs, acc, TypeInv, TypeOK
<1>11. PhaseOK'
  BY <1>2, <1>3, <1>7, <1>8, <1>9 DEF acc, TypeInv, TypeOK, PhaseOK
<1> QED BY <1>10, <1>11 DEF TypeInv

\* The block of a path that is indexed last is a block.
LEMMA PathIndexTyped ==
  ASSUME NEW t \in Block, NEW at \in SUBSET (0 .. Height[t]),
         NEW old \in Block \cup {None}
  PROVE  (IF at = {} THEN old ELSE Path[t][Max(at)]) \in Block \cup {None}
<1>1. Height[t] \in Nat
  BY TreeAssumption
<1>2. IsFiniteSet(0 .. Height[t]) /\ at \in SUBSET Nat
  BY <1>1, FS_Interval
<1>3. ASSUME at # {} PROVE Path[t][Max(at)] \in Block
  <2>1. Max(at) \in at
    BY <1>2, <1>3, FS_Subset, MaxIsGreatest
  <2> QED BY <2>1, PathAssumption
<1> QED BY <1>3

LEMMA IndexBranchTyped ==
  ASSUME TypeInv, NEW n \in 0 .. Height[target], IndexBranch(n)
  PROVE  /\ heightIdx' \in [Heights -> Block \cup {None}]
         /\ heightIdx'[0] = Genesis
         /\ txIdx' \in [Tx -> Block \cup {None}]
<1> DEFINE new == fork + 1 .. n
<1>1. target \in Block /\ Height[target] \in Nat /\ fork \in Nat
  BY TreeAssumption, HeightsClosed DEF TypeInv, TypeOK
<1>2. new \subseteq 0 .. Height[target] /\ ~ (0 \in new)
  BY <1>1
<1>3. \A h \in new : Path[target][h] \in Block
  BY <1>1, <1>2, PathAssumption
<1>4. heightIdx' = [h \in Heights |-> IF h \in new THEN Path[target][h] ELSE heightIdx[h]]
  BY DEF IndexBranch
<1>5. heightIdx' \in [Heights -> Block \cup {None}] /\ heightIdx'[0] = Genesis
  <2>1. 0 \in Heights
    BY <1>1, HeightsClosed
  <2> QED BY <1>2, <1>3, <1>4, <2>1 DEF TypeInv, TypeOK, PhaseOK
<1>6. txIdx' \in [Tx -> Block \cup {None}]
  <2> DEFINE at(x) == {h \in new : x \in TxSet(Path[target][h])}
             entry(x) == IF at(x) = {} THEN txIdx[x] ELSE Path[target][Max(at(x))]
  <2>1. ASSUME NEW x \in Tx PROVE entry(x) \in Block \cup {None}
    <3>1. at(x) \in SUBSET (0 .. Height[target]) /\ txIdx[x] \in Block \cup {None}
      BY <1>2 DEF TypeInv, TypeOK
    <3> HIDE DEF at
    <3> QED BY <1>1, <3>1, PathIndexTyped
  <2>2. txIdx' = [x \in Tx |-> entry(x)]
    BY DEF IndexBranch
  <2> HIDE DEF entry
  <2> QED BY <2>1, <2>2
<1> QED BY <1>5, <1>6

LEMMA StartRebuildTyped ==
  ASSUME TypeInv, StartRebuild
  PROVE  TypeInv'
<1>1. Height[target] \in 0 .. Height[target] /\ IndexBranch(Height[target])
  BY TreeAssumption DEF StartRebuild, TypeInv, TypeOK
<1>2. /\ heightIdx' \in [Heights -> Block \cup {None}] /\ heightIdx'[0] = Genesis
      /\ txIdx' \in [Tx -> Block \cup {None}]
  BY <1>1, IndexBranchTyped
<1>3. registry' \subseteq Outpoint /\ validators' \subseteq Validator
      /\ utxo' \subseteq Entry /\ broken' \subseteq BrokenKinds
  BY DEF StartRebuild, DeregisterOldBlocks, Unstake, ClearAll, BrokenKinds, TypeInv, TypeOK
<1> QED
  BY <1>2, <1>3 DEF StartRebuild, MissingUndo, TypeInv, TypeOK, PhaseOK, db, mem, acc,
                    call

\* What rebuildReorg and RebuildUTXOs do with a block.
LEMMA ReapplyTyped ==
  ASSUME TypeInv, NEW b \in Block, ReapplyBlock(b)
  PROVE  /\ utxo' \subseteq Entry
         /\ undo' \in [Block -> [spent : SUBSET Entry, reward : Nat] \cup {NoUndo}]
         /\ accCumDiff' \in Nat /\ regs' \in Nat /\ pos' \in Nat
<1>1. Spent(utxo, b) \subseteq Entry /\ utxo' \subseteq Entry
  BY AppliedTyped, SizeNat DEF Spent, ReapplyBlock, TypeInv, TypeOK
<1>2. Minted[b] \in Nat /\ Difficulty[b] \in Nat
      /\ Cardinality(Registers(b)) \in Nat
  BY DataAssumption, EffectsTyped
<1> QED BY <1>1, <1>2 DEF ReapplyBlock, WithUndo, TypeInv, TypeOK

LEMMA RebuildBlockTyped ==
  ASSUME TypeInv, RebuildBlock
  PROVE  TypeInv'
<1> DEFINE b == heightIdx[pos]
           r == CapReward(Minted[b], accSupply)
<1>1. pos \in Heights
  <2>1. target \in Block /\ pos \in 0 .. Height[target]
    BY TreeAssumption DEF RebuildBlock, TypeInv, TypeOK
  <2> QED BY <2>1, HeightsClosed
<1>2. b \in Block
  BY <1>1 DEF RebuildBlock, RebuildOK, Applicable, TypeInv, TypeOK
<1>3. r \in Nat
  BY <1>2, CapRewardNat, DataAssumption DEF TypeInv, TypeOK
<1>4. Spent(utxo, b) \subseteq Entry
  BY DEF Spent, TypeInv, TypeOK
<1>5. registry' \subseteq Outpoint /\ validators' \subseteq Validator
  BY <1>2, <1>4, JoinTyped DEF RebuildBlock, TypeInv, TypeOK
<1>6. ReapplyBlock(b) /\ accSupply' = accSupply + r
      /\ broken' \subseteq BrokenKinds
  BY DEF RebuildBlock, BrokenKinds, TypeInv, TypeOK
<1>7. UNCHANGED <<blocks, heightIdx, txIdx, db, checkpoint, tip, height, supply,
                  cumDiff, pc, target, fork, spent>>
  BY DEF RebuildBlock
<1>8. pc = "rebuild"
  BY DEF RebuildBlock
<1> HIDE DEF b, r
<1>9. /\ utxo' \subseteq Entry
      /\ undo' \in [Block -> [spent : SUBSET Entry, reward : Nat] \cup {NoUndo}]
      /\ accCumDiff' \in Nat /\ regs' \in Nat /\ pos' \in Nat
  BY <1>2, <1>6, ReapplyTyped
<1>10. TypeOK'
  BY <1>3, <1>5, <1>6, <1>7, <1>9 DEF TypeInv, TypeOK, db
<1>11. PhaseOK'
  BY <1>7, <1>8 DEF TypeInv, PhaseOK
<1> QED BY <1>10, <1>11 DEF TypeInv

LEMMA CrashTyped ==
  ASSUME TypeInv, Crash
  PROVE  TypeInv'
<1>1. utxo' \subseteq Entry
  BY AppliedTyped DEF Crash, TypeInv, TypeOK
<1>2. broken' \subseteq BrokenKinds
  BY DEF Crash, BrokenKinds, TypeInv, TypeOK
<1> QED
  BY <1>1, <1>2 DEF Crash, TypeInv, TypeOK, PhaseOK, store, db, mem, acc, call

LEMMA CrashInRebuildTyped ==
  ASSUME TypeInv, CrashInRebuild
  PROVE  TypeInv'
<1>1. broken' \subseteq BrokenKinds
  BY DEF CrashInRebuild, CrashWhileIndexing, CrashWhileFinishing, BrokenKinds, TypeInv,
         TypeOK
<1>2. CASE CrashWhileIndexing
  <2>1. PICK n \in fork .. Height[target] : IndexBranch(n)
    BY <1>2 DEF CrashWhileIndexing
  <2>2. n \in 0 .. Height[target]
    BY TreeAssumption, HeightsClosed DEF TypeInv, TypeOK
  <2>3. /\ heightIdx' \in [Heights -> Block \cup {None}] /\ heightIdx'[0] = Genesis
        /\ txIdx' \in [Tx -> Block \cup {None}]
    BY <2>1, <2>2, IndexBranchTyped
  <2>4. registry' \subseteq Outpoint
    BY <1>2 DEF CrashWhileIndexing, DeregisterOldBlocks, TypeInv, TypeOK
  <2> QED
    BY <1>1, <1>2, <2>3, <2>4
       DEF CrashWhileIndexing, TypeInv, TypeOK, PhaseOK, db, mem, acc, call
<1>3. CASE CrashWhileFinishing
  <2>1. PICK n \in 1 .. 4 : PersistTip(n)
    BY <1>3 DEF CrashWhileFinishing
  <2>2. dbTip' \in Block /\ dbHeight' \in Heights /\ dbSupply' \in Nat /\ dbCumDiff' \in Nat
    BY <2>1, HeightsClosed DEF PersistTip, TypeInv, TypeOK
  <2> QED
    BY <1>1, <1>3, <2>2
       DEF CrashWhileFinishing, TypeInv, TypeOK, PhaseOK, store, mem, acc, call
<1> QED BY <1>2, <1>3 DEF CrashInRebuild

LEMMA RestartTyped ==
  ASSUME TypeInv, Restart
  PROVE  TypeInv'
<1>1. utxo' \subseteq Entry /\ regs' \in Nat /\ pos' \in Nat
      /\ pc' \in {"recover", "boot"}
  BY SetTyped DEF Restart, ClearAll, CountRegistered, TypeInv, TypeOK
<1>2. validators' \subseteq Validator /\ Genesis \in Block /\ 0 \in Heights
  BY DataAssumption, TreeAssumption, HeightsClosed DEF Restart
<1> QED
  BY <1>1, <1>2 DEF Restart, TypeInv, TypeOK, PhaseOK, store, db, acc

LEMMA RecoverBlockTyped ==
  ASSUME TypeInv, RecoverBlock
  PROVE  TypeInv'
<1> DEFINE b == heightIdx[pos]
<1>1. pos \in Heights
  <2>1. pos \in 0 .. height
    BY HeightsClosed DEF RecoverBlock, TypeInv, TypeOK
  <2> QED BY <2>1, HeightsClosed DEF TypeInv, TypeOK
<1>2. b \in Block \cup {None}
  BY <1>1 DEF TypeInv, TypeOK
<1>3. UNCHANGED <<blocks, heightIdx, txIdx, db, checkpoint, registry, tip, height,
                  supply, cumDiff, validators, target, fork, spent, broken>>
      /\ pc = "recover"
  BY DEF RecoverBlock
<1>4. CASE Applicable(b)
  <2>1. ReapplyBlock(b) /\ accSupply' = accSupply + Minted[b] /\ pc' = pc
    BY <1>4 DEF RecoverBlock
  <2>2. b \in Block
    BY <1>2, <1>4 DEF Applicable
  <2> HIDE DEF b
  <2>3. accSupply' \in Nat
    <3>1. Minted[b] \in Nat
      BY <2>2, DataAssumption
    <3> QED BY <2>1, <3>1 DEF TypeInv, TypeOK
  <2>4. /\ utxo' \subseteq Entry
        /\ undo' \in [Block -> [spent : SUBSET Entry, reward : Nat] \cup {NoUndo}]
        /\ accCumDiff' \in Nat /\ regs' \in Nat /\ pos' \in Nat
    BY <2>1, <2>2, ReapplyTyped
  <2> QED BY <1>3, <2>1, <2>3, <2>4 DEF TypeInv, TypeOK, PhaseOK, db
<1>5. CASE ~ Applicable(b)
  BY <1>3, <1>5 DEF RecoverBlock, TypeInv, TypeOK, PhaseOK, db, acc
<1> QED BY <1>4, <1>5

LEMMA BootTyped ==
  ASSUME TypeInv, NEW r \in BOOLEAN, Boot(r)
  PROVE  TypeInv'
<1>1. /\ UNCHANGED <<blocks, undo, db, checkpoint, utxo, registry, mem, call, acc,
                     broken>>
      /\ pc' \in {"idle", "down"}
  BY DEF Boot
<1>2. validators' \subseteq Validator
  BY SetTyped DEF Boot, RecoveredStakes, TypeInv, TypeOK
<1>3. /\ heightIdx' \in [Heights -> Block \cup {None}] /\ heightIdx'[0] = Genesis
      /\ txIdx' \in [Tx -> Block \cup {None}]
  <2>1. CASE UNCHANGED <<heightIdx, txIdx>>
    BY <2>1 DEF TypeInv, TypeOK, PhaseOK
  <2>2. CASE ~ UNCHANGED <<heightIdx, txIdx>>
    <3> DEFINE new(h) == IF h <= dbHeight THEN Path[dbTip][h] ELSE heightIdx[h]
               at(x) == {h \in 0 .. dbHeight : x \in TxSet(Path[dbTip][h])}
               tx(x) == IF at(x) = {} THEN txIdx[x] ELSE Path[dbTip][Max(at(x))]
    <3>1. /\ Height[dbTip] = dbHeight
          /\ heightIdx' = [h \in Heights |-> new(h)]
          /\ txIdx' = [x \in Tx |-> tx(x)]
      BY <2>2 DEF Boot
    <3>2. dbTip \in Block /\ dbHeight \in Nat
      BY HeightsClosed DEF TypeInv, TypeOK
    <3>3. ASSUME NEW h \in Heights
          PROVE  new(h) \in Block \cup {None} /\ (h = 0 => new(h) = Genesis)
      <4>1. h \in Nat /\ heightIdx[h] \in Block \cup {None}
        BY HeightsClosed DEF TypeInv, TypeOK
      <4>2. ASSUME h <= dbHeight PROVE Path[dbTip][h] \in Block
        <5>1. h \in 0 .. Height[dbTip]
          BY <3>1, <3>2, <4>1, <4>2
        <5>2. Path[dbTip] \in [0 .. Height[dbTip] -> Block]
          BY <3>2, PathAssumption
        <5> QED BY <5>1, <5>2
      <4>3. Path[dbTip][0] = Genesis /\ 0 <= dbHeight
        BY <3>2, PathAssumption
      <4> QED BY <4>1, <4>2, <4>3
    <3>4. ASSUME NEW x \in Tx PROVE tx(x) \in Block \cup {None}
      <4>1. at(x) \in SUBSET (0 .. Height[dbTip]) /\ txIdx[x] \in Block \cup {None}
        BY <3>1 DEF TypeInv, TypeOK
      <4> HIDE DEF at
      <4> QED BY <3>2, <4>1, PathIndexTyped
    <3>5. 0 \in Heights
      BY <3>2, HeightsClosed DEF TypeInv, TypeOK
    <3> HIDE DEF new, tx
    <3> QED BY <3>1, <3>3, <3>4, <3>5
  <2> QED BY <2>1, <2>2
<1> QED
  BY <1>1, <1>2, <1>3 DEF TypeInv, TypeOK, PhaseOK, db, mem, acc, call

-----------------------------------------------------------------------------
(* The theorem. *)

LEMMA NextTyped == TypeInv /\ [Next]_vars => TypeInv'
<1> SUFFICES ASSUME TypeInv, [Next]_vars PROVE TypeInv'
  OBVIOUS
<1>1. CASE \E b \in Block : Process(b)
  BY <1>1, AcceptTyped, StoreForkTyped DEF Process
<1>2. CASE Running
  BY <1>2, ApplyTyped, CommitTyped, NotifyTyped, KeepCurrentTyped,
     StartReorgTyped, RevertBlockTyped, ReplayBlockTyped, ReplayFailsTyped,
     FinishReorgTyped, StartRebuildTyped, RebuildBlockTyped, RebuildFailsTyped,
     FinishRebuildTyped DEF Running
<1>3. CASE StartUp
  BY <1>3, RestartTyped, RecoverBlockTyped, FinishRecoveryTyped, BootTyped
     DEF StartUp
<1>4. CASE Crash
  BY <1>4, CrashTyped
<1>5. CASE CrashInRebuild
  BY <1>5, CrashInRebuildTyped
<1>6. CASE UNCHANGED vars
  BY <1>6 DEF vars, store, db, mem, acc, call, TypeInv, TypeOK, PhaseOK
<1> QED BY <1>1, <1>2, <1>3, <1>4, <1>5, <1>6 DEF Next

\* The type invariant and what strengthens it hold of every run of the node,
\* crashes and restarts included.
THEOREM TypeInvariant == Spec => []TypeInv
BY InitTyped, NextTyped, PTL DEF Spec

\* chain.go, store.go: every record read back from the database or carried by a
\* reorg is one the code can use; in particular Reorg never meets a height
\* without a block, and collectBranch always ends at an indexed ancestor.
THEOREM TypeCorrect == Spec => []TypeOK
<1>1. TypeInv => TypeOK
  BY DEF TypeInv
<1> QED BY <1>1, TypeInvariant, PTL

-----------------------------------------------------------------------------
(* The ledger. *)


\* The height index leads to t.
IdxOn(t) == \A h \in 0 .. Height[t] : heightIdx[h] = Path[t][h]

\* U, s and w are the ledger of b.
LedgerOf(b, U, s, w) == U = UtxoAt[b] /\ s = SupplyAt[b] /\ w = WorkAt[b]

\* The ledger of the first n blocks of the path to t.
Prefix(t, n, U, s, w) ==
  IF n = 0 THEN U = {} /\ s = 0 /\ w = 0 ELSE LedgerOf(Path[t][n - 1], U, s, w)

\* The database's view of the tip.
DbOf(b) == dbTip = b /\ dbSupply = SupplyAt[b] /\ dbCumDiff = WorkAt[b]

\* The first n blocks above genesis on the path to t have an undo record.
Undoable(t, n) ==
  \A h \in 1 .. n : undo[Path[t][h]] # NoUndo \/ h <= Height[StartTip]

UndoOf(b) == [spent |-> Spent(UtxoAt[Parent[b]], b), reward |-> Minted[b]]

\* Every undo record undoes its block.
UndoExact == \A b \in Block \ {Genesis} : undo[b] # NoUndo => undo[b] = UndoOf(b)

\* Nothing in progress.
AtRest ==
  /\ LedgerOf(tip, utxo, supply, cumDiff)
  /\ DbOf(tip) /\ IdxOn(tip) /\ Undoable(tip, height) /\ ~ checkpoint

\* The fast path holds a block on the tip that mints what it may.
Extending ==
  /\ Parent[target] = tip /\ Height[target] > 0
  /\ CapReward(Minted[target], supply) = Minted[target]

\* The block a reorg started from: both branches have it.
Shared ==
  /\ fork \in 0 .. height /\ fork < Height[target]
  /\ Path[target][fork] = Path[tip][fork]

RestOK == pc \in {"idle", "notify", "decide", "boot"} => AtRest

ApplyOK == pc = "apply" => AtRest /\ Extending

CommitOK ==
  pc = "commit" =>
    /\ Extending
    /\ LedgerOf(tip, UtxoAt[tip], supply, cumDiff)
    /\ utxo = UtxoAt[target] /\ spent = Spent(UtxoAt[tip], target)
    /\ DbOf(tip) /\ IdxOn(tip) /\ Undoable(tip, height) /\ ~ checkpoint

RevertOK ==
  pc = "revert" =>
    /\ Shared /\ checkpoint
    /\ LedgerOf(Path[tip][pos], utxo, supply, cumDiff)
    /\ DbOf(tip) /\ IdxOn(tip) /\ Undoable(tip, pos)

ReplayOK ==
  pc = "replay" =>
    /\ Shared /\ checkpoint
    /\ pos \in fork .. Height[target]
    /\ LedgerOf(Path[target][pos], utxo, supply, cumDiff)
    /\ \A h \in 0 .. pos : heightIdx[h] = Path[target][h]
    /\ Undoable(target, pos)
    /\ IF pos = fork THEN DbOf(tip) /\ IdxOn(tip) ELSE DbOf(Path[target][pos])

RebuildPhaseOK ==
  pc = "rebuild" =>
    /\ IdxOn(target)
    /\ pos \in 0 .. Height[target] + 1
    /\ Prefix(target, pos, utxo, accSupply, accCumDiff)
    /\ Undoable(target, pos - 1)

DownOK ==
  pc = "down" =>
    /\ IdxOn(dbTip)
    /\ checkpoint \/ ( /\ utxo = UtxoAt[dbTip] /\ DbOf(dbTip)
                       /\ Undoable(dbTip, dbHeight) )

RecoverOK ==
  pc = "recover" =>
    /\ dbTip = tip /\ checkpoint
    /\ IdxOn(tip)
    /\ pos \in 0 .. height + 1
    /\ Prefix(tip, pos, utxo, accSupply, accCumDiff)
    /\ Undoable(tip, pos - 1)

HeightsAgree == height = Height[tip] /\ dbHeight = Height[dbTip]

PhasesOK == /\ UndoExact
            /\ RestOK /\ ApplyOK /\ CommitOK
            /\ RevertOK /\ ReplayOK /\ RebuildPhaseOK
            /\ DownOK /\ RecoverOK

\* The first n blocks above genesis on the path to t have been checked.
SoundTo(t, n) == \A h \in 1 .. n : Checked(Path[t][h])

\* Whatever the node's tip is or becomes, every block below it was checked.
SoundOK ==
  /\ Sound(tip) /\ Sound(dbTip)
  /\ pc \in {"apply", "commit"} => Checked(target)
  /\ pc \in {"revert", "rebuild"} => SoundTo(target, fork)
  /\ pc = "replay" => SoundTo(target, pos)
  /\ pc = "rebuild" => SoundTo(target, pos - 1)

LedgerInv == TypeInv /\ (LedgerUnbroken => HeightsAgree /\ PhasesOK /\ SoundOK)

-----------------------------------------------------------------------------
(* The tree and the reference ledger. *)

LEMMA PathFacts ==
  ASSUME NEW t \in Block, NEW h \in 0 .. Height[t]
  PROVE  /\ Height[t] \in Nat /\ Path[t][Height[t]] = t /\ Path[t][0] = Genesis
         /\ Path[t][h] \in Block /\ Height[Path[t][h]] = h
         /\ h > 0 => Parent[Path[t][h]] = Path[t][h - 1] /\ Path[t][h] # Genesis
         /\ \A g \in 0 .. h : Path[Path[t][h]][g] = Path[t][g]
<1>1. Height[t] \in Nat
  BY TreeAssumption
<1>2. Path[t] \in [0 .. Height[t] -> Block]
  BY PathAssumption
<1>3. Path[t][h] \in Block
  BY <1>2
<1>4. /\ Height[Path[t][h]] = h
      /\ h > 0 => Parent[Path[t][h]] = Path[t][h - 1]
      /\ \A g \in 0 .. h : Path[Path[t][h]][g] = Path[t][g]
  BY PathAssumption
<1>5. Path[t][Height[t]] = t /\ Path[t][0] = Genesis
  BY PathAssumption
<1> QED BY <1>1, <1>3, <1>4, <1>5, TreeAssumption

\* A block extends its parent's path by itself.
LEMMA ParentPath ==
  ASSUME NEW b \in Block, Height[b] > 0
  PROVE  /\ b # Genesis /\ Parent[b] \in Block
         /\ Height[Parent[b]] \in Nat /\ Height[b] = Height[Parent[b]] + 1
         /\ \A g \in 0 .. Height[Parent[b]] : Path[b][g] = Path[Parent[b]][g]
<1>1. /\ b # Genesis /\ Parent[b] \in Block /\ Height[Parent[b]] \in Nat
      /\ Height[b] = Height[Parent[b]] + 1
  BY TreeAssumption
<1>2. Height[b] \in 0 .. Height[b] /\ Height[b] - 1 \in 0 .. Height[b]
      /\ Height[b] - 1 = Height[Parent[b]]
  BY <1>1
<1>3. Path[b][Height[b]] = b
  BY PathAssumption
<1>4. Path[b][Height[b] - 1] = Parent[b]
  BY <1>2, <1>3, PathFacts
<1>5. \A g \in 0 .. Height[b] - 1 : Path[Path[b][Height[b] - 1]][g] = Path[b][g]
  BY <1>2, PathFacts
<1> QED BY <1>1, <1>2, <1>4, <1>5

\* The ledger of a block, from its parent's.
LEMMA LedgerStep ==
  ASSUME NEW b \in Block, Height[b] > 0
  PROVE  /\ UtxoAt[b] = Applied(UtxoAt[Parent[b]], b, Size(b))
         /\ SupplyAt[b] = SupplyAt[Parent[b]] + Minted[b]
         /\ WorkAt[b] = WorkAt[Parent[b]] + Difficulty[b]
         /\ {SupplyAt[b], SupplyAt[Parent[b]], Minted[b]} \subseteq Nat
         /\ {WorkAt[b], WorkAt[Parent[b]], Difficulty[b]} \subseteq Nat
<1>1. b \in Block \ {Genesis} /\ Parent[b] \in Block
  BY ParentPath
<1>2. /\ UtxoAt[b] = Applied(UtxoAt[Parent[b]], b, Size(b))
      /\ SupplyAt[b] = SupplyAt[Parent[b]] + Minted[b]
      /\ WorkAt[b] = WorkAt[Parent[b]] + Difficulty[b]
  BY <1>1, LedgerAssumption
<1>3. SupplyAt \in [Block -> Nat] /\ WorkAt \in [Block -> Nat]
  BY LedgerAssumption
<1>4. Minted[b] \in Nat /\ Difficulty[b] \in Nat
  BY DataAssumption
<1> QED BY <1>1, <1>2, <1>3, <1>4

-----------------------------------------------------------------------------
(* Induction along a path, and what it says of the outputs on it. *)

\* A set of numbers up to N that has 0 and every successor has them all.
LEMMA BoundedInduction ==
  ASSUME NEW N \in Nat, NEW S \in SUBSET (0 .. N), 0 \in S,
         \A n \in S : n < N => n + 1 \in S
  PROVE  S = 0 .. N
<1> DEFINE T == {k \in 0 .. N : N - k \notin S}
<1> SUFFICES ASSUME T # {} PROVE FALSE
  <2>1. ASSUME NEW n \in 0 .. N, n \notin S PROVE T # {}
    <3>1. N - n \in 0 .. N /\ N - (N - n) = n
      OBVIOUS
    <3> QED BY <2>1, <3>1
  <2> QED BY <2>1
<1>1. IsFiniteSet(T) /\ T \in SUBSET Nat
  <2>1. IsFiniteSet(0 .. N) /\ T \in SUBSET (0 .. N) /\ 0 .. N \subseteq Nat
    BY FS_Interval
  <2> HIDE DEF T
  <2> QED BY <2>1, FS_Subset
<1>2. PICK k \in T : \A j \in T : k >= j
  <2> HIDE DEF T
  <2> QED BY <1>1, MaxExists
<1>3. k \in 0 .. N /\ N - k \notin S
  OBVIOUS
<1>4. N - k # 0
  BY <1>3
<1>5. k + 1 \in 0 .. N /\ N - (k + 1) \in 0 .. N /\ ~ (k >= k + 1)
  BY <1>3, <1>4
<1>6. N - (k + 1) \in S
  BY <1>2, <1>5
<1>7. (N - (k + 1)) + 1 = N - k /\ N - (k + 1) < N
  BY <1>3
<1> QED BY <1>3, <1>6, <1>7

\* The outpoints of a block's ledger, from its parent's.
LEMMA OpsStep ==
  /\ OpsOf(UtxoAt[Genesis]) = Creates(Genesis)
  /\ \A b \in Block : Height[b] > 0 =>
       OpsOf(UtxoAt[b]) = (OpsOf(UtxoAt[Parent[b]]) \ Spends(b)) \cup Creates(b)
<1>1. ASSUME NEW b, NEW U
      PROVE  OpsOf(Applied(U, b, Size(b))) = (OpsOf(U) \ Spends(b)) \cup Creates(b)
  <2> DEFINE N == NewEntries(b, Size(b))
  <2>1. OpsOf(N) = Creates(b)
    <3>1. \A i \in 1 .. Size(b) : \A o : NewEntry(b, i, o).op = o
      BY DEF NewEntry
    <3>2. ASSUME NEW o \in OpsOf(N) PROVE o \in Creates(b)
      BY <3>1, <3>2 DEF OpsOf, NewEntries, Creates, Outs
    <3>3. ASSUME NEW o \in Creates(b) PROVE o \in OpsOf(N)
      <4>1. PICK i \in 1 .. Size(b) : o \in TxOut[TxsOf[b][i]]
        BY DEF Creates, Outs
      <4>2. NewEntry(b, i, o) \in N
        BY <4>1 DEF NewEntries
      <4> QED BY <3>1, <4>1, <4>2 DEF OpsOf
    <3> QED BY <3>2, <3>3
  <2>2. Applied(U, b, Size(b)) = {u \in U : u.op \notin Spends(b) \cup Creates(b)} \cup N
    BY DEF Applied, Spends, Creates
  <2> HIDE DEF N
  <2>3. OpsOf({u \in U : u.op \notin Spends(b) \cup Creates(b)})
          = OpsOf(U) \ (Spends(b) \cup Creates(b))
    BY DEF OpsOf
  <2>4. \A A, B : OpsOf(A \cup B) = OpsOf(A) \cup OpsOf(B)
    BY DEF OpsOf
  <2>5. OpsOf(Applied(U, b, Size(b)))
          = (OpsOf(U) \ (Spends(b) \cup Creates(b))) \cup Creates(b)
    <3> DEFINE K == {u \in U : u.op \notin Spends(b) \cup Creates(b)}
    <3>1. OpsOf(K \cup N) = OpsOf(K) \cup OpsOf(N)
      BY <2>4
    <3> HIDE DEF K
    <3>2. Applied(U, b, Size(b)) = K \cup N
            /\ OpsOf(K) = OpsOf(U) \ (Spends(b) \cup Creates(b))
      BY <2>2, <2>3 DEF K
    <3> QED BY <2>1, <3>1, <3>2
  <2> QED BY <2>5
<1>2. OpsOf({}) = {}
  BY DEF OpsOf
<1>3. UtxoAt[Genesis] = Applied({}, Genesis, Size(Genesis))
  BY LedgerAssumption
<1>4. ASSUME NEW b \in Block, Height[b] > 0
      PROVE  OpsOf(UtxoAt[b]) = (OpsOf(UtxoAt[Parent[b]]) \ Spends(b)) \cup Creates(b)
  BY <1>1, <1>4, LedgerStep
<1>5. OpsOf(UtxoAt[Genesis]) = Creates(Genesis)
  <2>1. OpsOf(Applied({}, Genesis, Size(Genesis)))
          = (OpsOf({}) \ Spends(Genesis)) \cup Creates(Genesis)
    BY <1>1
  <2> QED BY <2>1, <1>2, <1>3
<1> QED BY <1>4, <1>5

\* An output that is unspent at height n and was not at height g, or was never
\* before, was created in between.
LEMMA CreatedSince ==
  ASSUME NEW t \in Block, NEW n \in 0 .. Height[t], NEW o \in OpsOf(UtxoAt[Path[t][n]])
  PROVE  /\ \E j \in 0 .. n : o \in Creates(Path[t][j])
         /\ \A g \in 0 .. n : o \notin OpsOf(UtxoAt[Path[t][g]]) =>
              \E j \in g + 1 .. n : o \in Creates(Path[t][j])
<1> DEFINE has(k) == o \in OpsOf(UtxoAt[Path[t][k]])
           made(g, k) == \E j \in g + 1 .. k : o \in Creates(Path[t][j])
           any(k) == \E j \in 0 .. k : o \in Creates(Path[t][j])
           S == {k \in 0 .. Height[t] : has(k) =>
                   any(k) /\ \A g \in 0 .. k : ~ has(g) => made(g, k)}
<1>1. Height[t] \in Nat /\ Path[t][0] = Genesis
  BY PathFacts
<1>2. 0 \in S
  <2>1. has(0) => any(0)
    BY <1>1, OpsStep
  <2> QED BY <1>1, <2>1
<1>3. ASSUME NEW k \in S, k < Height[t] PROVE k + 1 \in S
  <2> DEFINE b == Path[t][k + 1]
  <2>1. k \in 0 .. Height[t] /\ k + 1 \in 0 .. Height[t] /\ k + 1 > 0
        /\ (k + 1) - 1 = k
    BY <1>1, <1>3
  <2>2. b \in Block /\ Height[b] > 0 /\ Parent[b] = Path[t][k]
    BY <2>1, PathFacts
  <2>3. has(k + 1) => has(k) \/ o \in Creates(b)
    BY <2>2, OpsStep
  <2>4. has(k) => any(k) /\ \A g \in 0 .. k : ~ has(g) => made(g, k)
    OBVIOUS
  <2> HIDE DEF has
  <2>5. has(k + 1) => any(k + 1)
    BY <2>1, <2>3, <2>4
  <2>6. ASSUME has(k + 1), NEW g \in 0 .. k + 1, ~ has(g) PROVE made(g, k + 1)
    <3>1. g \in 0 .. k
      BY <2>1, <2>6
    <3>2. k + 1 \in g + 1 .. k + 1 /\ g + 1 .. k \subseteq g + 1 .. k + 1
      BY <2>1, <3>1
    <3> QED BY <2>3, <2>4, <2>6, <3>1, <3>2
  <2> QED BY <2>1, <2>5, <2>6
<1>4. S = 0 .. Height[t]
  <2> HIDE DEF S
  <2>1. S \in SUBSET (0 .. Height[t])
    BY DEF S
  <2> QED BY <1>1, <1>2, <1>3, <2>1, BoundedInduction
<1> QED BY <1>4

\* The blocks of a checked path carry every transaction once: one that spends
\* something can do so once, as what it spent could only come back through the
\* transaction that created it.
LEMMA OncePerPath ==
  ASSUME NEW t \in Block, Sound(t), NEW g \in 0 .. Height[t], NEW h \in 0 .. Height[t],
         g < h
  PROVE  TxSet(Path[t][g]) \cap TxSet(Path[t][h]) = {}
<1> DEFINE B(k) == Path[t][k]
           P(n) == \A i \in 0 .. n, j \in 0 .. n : i < j => TxSet(B(i)) \cap TxSet(B(j)) = {}
           S == {n \in 0 .. Height[t] : P(n)}
<1>1. Height[t] \in Nat /\ B(0) = Genesis
  BY PathFacts
<1>2. \A k \in 0 .. Height[t] : /\ B(k) \in Block /\ Height[B(k)] = k
                               /\ B(k) \in RuleOK \cup {Genesis}
                               /\ TxSet(B(k)) \subseteq Tx
  <2>1. ASSUME NEW k \in 0 .. Height[t]
        PROVE  B(k) \in Block /\ Height[B(k)] = k /\ B(k) \in RuleOK \cup {Genesis}
    <3>1. k # 0 => B(k) \in RuleOK
      BY <1>1 DEF Sound, Checked
    <3> QED BY <1>1, <3>1, PathFacts
  <2>2. \A b \in Block : TxSet(b) \subseteq Tx
    BY TxsTyped DEF TxSet
  <2> QED BY <2>1, <2>2
<1>3. 0 \in S
  BY <1>1
<1>4. ASSUME NEW n \in S, n < Height[t] PROVE n + 1 \in S
  <2>1. n \in 0 .. Height[t] /\ n + 1 \in 0 .. Height[t] /\ P(n)
    BY <1>1, <1>4
  <2>2. ASSUME NEW i \in 0 .. n, NEW j \in 0 .. n, i # j,
               NEW o, o \in Creates(B(i)), o \in Creates(B(j))
        PROVE  FALSE
    <3>1. i \in 0 .. Height[t] /\ j \in 0 .. Height[t] /\ (i < j \/ j < i)
      BY <1>1, <2>1, <2>2
    <3>2. PICK x \in TxSet(B(i)) : o \in TxOut[x]
      BY <2>2 DEF Creates, Outs, TxSet
    <3>3. PICK y \in TxSet(B(j)) : o \in TxOut[y]
      BY <2>2 DEF Creates, Outs, TxSet
    <3>4. x \in Tx /\ y \in Tx
      BY <1>2, <3>1
    <3>5. x = y
      BY <3>2, <3>3, <3>4, IdAssumption
    <3> HIDE DEF B
    <3> QED BY <2>1, <3>1, <3>2, <3>3, <3>5
  <2>3. ASSUME NEW i \in 0 .. n, NEW x \in TxSet(B(i)) \cap TxSet(B(n + 1))
        PROVE  FALSE
    <3>1. i \in 0 .. Height[t] /\ i # n + 1
      BY <1>1, <2>1
    <3>2. TxIn[x] # {}
      BY <1>2, <2>1, <3>1, IdAssumption
    <3>3. PICK o : o \in TxIn[x]
      BY <3>2
    <3>4. o \in Spends(B(i)) /\ o \in Spends(B(n + 1))
      BY <3>3 DEF TxSet, Spends, Ins
    <3>5. i > 0
      BY <1>1, <3>4, RuleAssumption
    <3>6. /\ i - 1 \in 0 .. n /\ i - 1 \in 0 .. Height[t] /\ i \in 1 .. Height[t]
          /\ n + 1 \in 1 .. Height[t] /\ (n + 1) - 1 = n
      BY <1>1, <2>1, <3>1, <3>5
    <3>7. Parent[B(i)] = B(i - 1) /\ Parent[B(n + 1)] = B(n) /\ Height[B(i)] > 0
      BY <1>2, <2>1, <3>1, <3>5, <3>6, PathFacts
    <3>8. o \in OpsOf(UtxoAt[B(i - 1)]) /\ o \in OpsOf(UtxoAt[B(n)])
      BY <3>4, <3>6, <3>7 DEF Sound, Checked
    <3>9. PICK k \in 0 .. i - 1 : o \in Creates(B(k))
      BY <3>6, <3>8, CreatedSince
    <3>10. k \in 0 .. n /\ k < i
      BY <3>6
    <3> HIDE DEF B
    <3>11. o \notin Creates(B(i))
      BY <2>2, <3>9, <3>10
    <3>12. o \notin OpsOf(UtxoAt[B(i)])
      BY <1>2, <3>1, <3>4, <3>7, <3>11, OpsStep
    <3>13. PICK j \in i + 1 .. n : o \in Creates(B(j))
      BY <2>1, <3>8, <3>12, CreatedSince DEF B
    <3> QED BY <2>2, <3>9, <3>10, <3>13
  <2> HIDE DEF B
  <2>4. P(n + 1)
    <3> SUFFICES ASSUME NEW i \in 0 .. n + 1, NEW j \in 0 .. n + 1, i < j
        PROVE  TxSet(B(i)) \cap TxSet(B(j)) = {}
      OBVIOUS
    <3>1. i \in 0 .. n /\ (j \in 0 .. n \/ j = n + 1)
      BY <2>1
    <3> QED BY <2>1, <2>3, <3>1
  <2> QED BY <2>1, <2>4
<1>5. S = 0 .. Height[t]
  <2> HIDE DEF S
  <2>1. S \in SUBSET (0 .. Height[t])
    BY DEF S
  <2> QED BY <1>1, <1>3, <1>4, <2>1, BoundedInduction
<1>6. Height[t] \in 0 .. Height[t]
  BY <1>1
<1>7. P(Height[t])
  <2> HIDE DEF P
  <2> QED BY <1>5, <1>6
<1> QED BY <1>7

\* Two blocks of a checked path never create the same output.
LEMMA CreatedOnce ==
  ASSUME NEW t \in Block, Sound(t), NEW g \in 0 .. Height[t], NEW h \in 0 .. Height[t],
         g # h
  PROVE  Creates(Path[t][g]) \cap Creates(Path[t][h]) = {}
<1> SUFFICES ASSUME NEW o, o \in Creates(Path[t][g]), o \in Creates(Path[t][h])
    PROVE  FALSE
  OBVIOUS
<1>1. Path[t][g] \in Block /\ Path[t][h] \in Block /\ Height[t] \in Nat
  BY PathFacts
<1>2. PICK x \in TxSet(Path[t][g]) : o \in TxOut[x]
  BY DEF Creates, Outs, TxSet
<1>3. PICK y \in TxSet(Path[t][h]) : o \in TxOut[y]
  BY DEF Creates, Outs, TxSet
<1>4. x \in Tx /\ y \in Tx
  BY <1>1, TxsTyped DEF TxSet
<1>5. x = y
  BY <1>2, <1>3, <1>4, IdAssumption
<1>6. g < h \/ h < g
  BY <1>1
<1> QED BY <1>2, <1>3, <1>5, <1>6, OncePerPath

\* The first blocks of a checked path are one; a checked block extends one.
LEMMA SoundPaths ==
  /\ \A t \in Block : Sound(t) => \A h \in 0 .. Height[t] : Sound(Path[t][h])
  /\ \A b \in Block : Height[b] > 0 =>
       (Sound(b) <=> Sound(Parent[b]) /\ Checked(b))
<1>1. ASSUME NEW t \in Block, Sound(t), NEW h \in 0 .. Height[t]
      PROVE  Sound(Path[t][h])
  <2>1. Height[t] \in Nat /\ Height[Path[t][h]] = h
        /\ \A g \in 0 .. h : Path[Path[t][h]][g] = Path[t][g]
    BY PathFacts
  <2> QED BY <1>1, <2>1 DEF Sound
<1>2. ASSUME NEW b \in Block, Height[b] > 0
      PROVE  Sound(b) <=> Sound(Parent[b]) /\ Checked(b)
  <2>1. /\ Height[Parent[b]] \in Nat /\ Height[b] = Height[Parent[b]] + 1
        /\ \A g \in 0 .. Height[Parent[b]] : Path[b][g] = Path[Parent[b]][g]
    BY <1>2, ParentPath
  <2>2. Path[b][Height[b]] = b
    BY PathAssumption
  <2>3. 1 .. Height[b] = (1 .. Height[Parent[b]]) \cup {Height[b]}
    BY <2>1
  <2> QED BY <2>1, <2>2, <2>3 DEF Sound
<1> QED BY <1>1, <1>2

\* What a block of a checked path creates was not there before it.
LEMMA OneLife ==
  ASSUME NEW b \in Block, Height[b] > 0, Sound(b)
  PROVE  Creates(b) \cap OpsOf(UtxoAt[Parent[b]]) = {}
<1> SUFFICES ASSUME NEW o, o \in Creates(b), o \in OpsOf(UtxoAt[Parent[b]])
    PROVE  FALSE
  OBVIOUS
<1>1. /\ Height[b] \in Nat /\ Height[b] \in 0 .. Height[b] /\ Path[b][Height[b]] = b
      /\ Height[b] - 1 \in 0 .. Height[b]
  BY TreeAssumption, PathAssumption
<1>2. Parent[b] = Path[b][Height[b] - 1]
  BY <1>1, PathFacts
<1>3. PICK j \in 0 .. Height[b] - 1 : o \in Creates(Path[b][j])
  BY <1>1, <1>2, CreatedSince
<1>4. j \in 0 .. Height[b] /\ j # Height[b]
  BY <1>1
<1> QED BY <1>1, <1>3, <1>4, CreatedOnce

-----------------------------------------------------------------------------
(* Single blocks. *)

\* revertBlock undoes applyBlockWithUndo: what the block created disappears,
\* what it spent comes back, and nothing else changes.
LEMMA RevertUndoes ==
  ASSUME NEW b \in Block, Height[b] > 0, Sound(b)
  PROVE  Reverted(UtxoAt[b], b, Spent(UtxoAt[Parent[b]], b)) = UtxoAt[Parent[b]]
<1> DEFINE P == UtxoAt[Parent[b]]
           N == NewEntries(b, Size(b))
           S == Spent(P, b)
<1>1. UtxoAt[b] = {u \in P : u.op \notin Spends(b) \cup Creates(b)} \cup N
  BY LedgerStep DEF Applied, Spends, Creates
<1>2. \A u \in N : u.op \in Creates(b)
  BY DEF NewEntries, NewEntry, Creates, Outs
<1>3. \A u \in P : u.op \notin Creates(b)
  BY OneLife DEF OpsOf
<1>4. S = {u \in P : u.op \in Spends(b)}
  BY DEF Spent
<1>5. \A o \in OpsOf(S) : o \in Spends(b)
  BY <1>4 DEF OpsOf
<1>6. \A u \in S : u.op \in OpsOf(S)
  BY DEF OpsOf
<1> HIDE DEF P, N, S
<1>7. {u \in UtxoAt[b] : u.op \notin Creates(b) \cup OpsOf(S)}
        = {u \in P : u.op \notin Spends(b)}
  BY <1>1, <1>2, <1>3, <1>4, <1>5, <1>6
<1>8. {u \in P : u.op \notin Spends(b)} \cup S = P
  BY <1>4
<1> QED BY <1>7, <1>8 DEF Reverted, P, S

\* validateBlockState refuses what CapReward would cut.
LEMMA MintNotCapped ==
  ASSUME NEW b \in Block, supply \in Nat, Minted[b] <= AllowedMint(b)
  PROVE  CapReward(Minted[b], supply) = Minted[b]
<1>1. Minted[b] \in Nat /\ MaxSupply \in Nat /\ BlockSubsidy[b] \in Nat
  BY DataAssumption
<1> QED BY <1>1 DEF AllowedMint, CapReward

\* None of a block applied is nothing applied.
LEMMA NothingApplied ==
  ASSUME NEW U, NEW b PROVE Applied(U, b, 0) = U
<1>1. Ins(b, 0) = {} /\ Outs(b, 0) = {} /\ NewEntries(b, 0) = {}
  BY DEF Ins, Outs, NewEntries
<1> QED BY <1>1 DEF Applied

-----------------------------------------------------------------------------
(* The fast path. *)

\* broken only grows.
LEMMA BrokenGrows == [Next]_vars => broken \subseteq broken'
BY DEF Next, Process, Running, StartUp, Accept, StoreFork, Apply, Commit, Notify,
       KeepCurrent, StartReorg, RevertBlock, ReplayBlock, ReplayFails, FinishReorg,
       StartRebuild, RebuildBlock, RebuildFails, FinishRebuild, Restart,
       RecoverBlock, FinishRecovery, Boot, Crash, CrashInRebuild,
       CrashWhileIndexing, CrashWhileFinishing, vars

LEMMA UnbrokenBefore ==
  ASSUME [Next]_vars, LedgerUnbroken'
  PROVE  LedgerUnbroken
BY BrokenGrows DEF LedgerUnbroken

\* A crash inside rebuildReorg is one of the accidents.
LEMMA NotInRebuild ==
  ASSUME LedgerUnbroken'
  PROVE  ~ CrashInRebuild
BY DEF CrashInRebuild, CrashWhileIndexing, CrashWhileFinishing, LedgerUnbroken

LEMMA AcceptLedger ==
  ASSUME LedgerInv, NEW b \in Block, Accept(b), HeightsAgree, PhasesOK
  PROVE  PhasesOK'
<1>1. Minted[b] <= AllowedMint(b) /\ supply \in Nat
  BY DEF Accept, ValidateBlockState, LedgerInv, TypeInv, TypeOK
<1>2. CapReward(Minted[b], supply) = Minted[b]
  BY <1>1, MintNotCapped
<1>3. Height[b] > 0
  BY HeightsClosed DEF Accept, LedgerInv, TypeInv, TypeOK
<1> QED
  BY <1>2, <1>3
     DEF Accept, PhasesOK, RestOK, ApplyOK, CommitOK, RevertOK, ReplayOK,
       RebuildPhaseOK, DownOK, RecoverOK,
         UndoExact, AtRest, Extending, IdxOn, DbOf, Undoable, LedgerOf, CapReward,
         store, db, mem, acc

LEMMA ApplyLedger ==
  ASSUME LedgerInv, Apply, HeightsAgree, PhasesOK
  PROVE  PhasesOK'
<1>1. target \in Block /\ Height[target] > 0 /\ AtRest /\ Extending
  BY DEF Apply, PhasesOK, ApplyOK, Extending, LedgerInv, TypeInv, TypeOK
<1>2. utxo' = UtxoAt[target] /\ spent' = Spent(UtxoAt[tip], target)
  BY <1>1, LedgerStep DEF Apply, AtRest, LedgerOf, Extending
<1> QED
  BY <1>1, <1>2
     DEF Apply, PhasesOK, RestOK, ApplyOK, CommitOK, RevertOK, ReplayOK,
       RebuildPhaseOK, DownOK, RecoverOK,
         UndoExact, AtRest, Extending, IdxOn, DbOf, Undoable, LedgerOf, CapReward,
         store, db, mem, acc

LEMMA CommitLedger ==
  ASSUME LedgerInv, Commit, HeightsAgree, PhasesOK
  PROVE  PhasesOK'
<1> DEFINE P == Parent[target]
<1>1. /\ target \in Block /\ Height[target] > 0 /\ tip \in Block
      /\ CommitOK /\ UndoExact /\ height = Height[tip] /\ pc = "commit"
      /\ heightIdx \in [Heights -> Block \cup {None}]
      /\ undo \in [Block -> [spent : SUBSET Entry, reward : Nat] \cup {NoUndo}]
  BY DEF Commit, PhasesOK, CommitOK, Extending, LedgerInv, TypeInv, TypeOK,
         HeightsAgree
<1>2. /\ P = tip /\ CapReward(Minted[target], supply) = Minted[target]
      /\ supply = SupplyAt[tip] /\ cumDiff = WorkAt[tip]
      /\ utxo = UtxoAt[target] /\ spent = Spent(UtxoAt[tip], target)
      /\ IdxOn(tip) /\ Undoable(tip, height) /\ ~ checkpoint
  BY <1>1 DEF CommitOK, Extending, LedgerOf
<1>3. /\ heightIdx' = [heightIdx EXCEPT ![Height[target]] = target]
      /\ undo' = [undo EXCEPT ![target] = UndoOf(target)]
      /\ dbTip' = target /\ dbSupply' = supply + Minted[target]
      /\ dbCumDiff' = cumDiff + Difficulty[target]
      /\ supply' = dbSupply' /\ cumDiff' = dbCumDiff'
      /\ tip' = target /\ height' = Height[target] /\ pc' = "notify"
      /\ UNCHANGED <<utxo, checkpoint, target>>
  BY <1>2 DEF Commit, CommitBatch, IndexHeight, WithUndo, UndoOf, call
<1>4. LedgerOf(tip, utxo, supply, cumDiff)' /\ DbOf(tip)'
  BY <1>1, <1>2, <1>3, LedgerStep DEF LedgerOf, DbOf
<1>5. Height[target] = height + 1 /\ height \in Nat /\ Height[target] \in Heights
      /\ \A g \in 0 .. height : Path[target][g] = Path[tip][g]
  BY <1>1, <1>2, ParentPath, HeightsClosed
<1>6. IdxOn(tip)'
  <2>1. ASSUME NEW h \in 0 .. Height[target] PROVE heightIdx'[h] = Path[target][h]
    <3>1. CASE h = Height[target]
      BY <3>1, <1>1, <1>3, <1>5, PathAssumption
    <3>2. CASE h \in 0 .. height
      BY <3>2, <1>1, <1>2, <1>3, <1>5 DEF IdxOn
    <3> QED BY <3>1, <3>2, <1>5
  <2> QED BY <2>1, <1>3 DEF IdxOn
<1>7. Undoable(tip, height)'
  <2>1. ASSUME NEW h \in 1 .. Height[target]
        PROVE  undo'[Path[target][h]] # NoUndo \/ h <= Height[StartTip]
    <3>1. CASE h = Height[target]
      <4>1. UndoOf(target) # NoUndo
        BY <1>1, LedgerStep DEF UndoOf, NoUndo
      <4>2. Path[target][h] = target
        BY <3>1, <1>1, PathAssumption
      <4> QED BY <4>1, <4>2, <1>1, <1>3
    <3>2. CASE h \in 1 .. height
      <4>1. Path[target][h] = Path[tip][h] /\ Path[tip][h] # target
            /\ Path[tip][h] \in Block
        BY <3>2, <1>1, <1>5, PathFacts
      <4> QED BY <4>1, <3>2, <1>1, <1>2, <1>3 DEF Undoable
    <3> QED BY <3>1, <3>2, <1>5
  <2> QED BY <2>1, <1>3 DEF Undoable
<1>8. UndoExact'
  BY <1>1, <1>3 DEF UndoExact, UndoOf
<1>9. AtRest'
  BY <1>2, <1>3, <1>4, <1>6, <1>7 DEF AtRest
<1> QED
  BY <1>3, <1>8, <1>9
     DEF PhasesOK, RestOK, ApplyOK, CommitOK, RevertOK, ReplayOK,
       RebuildPhaseOK, DownOK, RecoverOK

\* Notify, KeepCurrent and StoreFork change nothing the ledger is about.
LEMMA RestLedger ==
  ASSUME LedgerInv, HeightsAgree, PhasesOK,
         Notify \/ KeepCurrent \/ \E b \in Block : StoreFork(b)
  PROVE  PhasesOK'
<1>1. /\ pc \in {"idle", "notify", "decide"} /\ pc' \in {"idle", "decide"}
      /\ UNCHANGED <<heightIdx, undo, db, checkpoint, utxo, mem>>
  BY DEF Notify, KeepCurrent, StoreFork, store
<1>2. AtRest /\ UndoExact
  BY <1>1 DEF PhasesOK, RestOK
<1>3. AtRest' /\ UndoExact'
  BY <1>1, <1>2
     DEF AtRest, UndoExact, UndoOf, IdxOn, DbOf, Undoable, LedgerOf, db, mem
<1> QED
  BY <1>1, <1>3
     DEF PhasesOK, RestOK, ApplyOK, CommitOK, RevertOK, ReplayOK,
       RebuildPhaseOK, DownOK, RecoverOK

-----------------------------------------------------------------------------
(* Reorg. *)

LEMMA StartReorgLedger ==
  ASSUME LedgerInv, StartReorg, HeightsAgree, PhasesOK, LedgerUnbroken'
  PROVE  PhasesOK'
<1>1. /\ target \in Block /\ Height[target] > 0 /\ tip \in Block
      /\ height = Height[tip] /\ height \in Nat /\ AtRest /\ UndoExact
  BY TreeAssumption
     DEF StartReorg, PhasesOK, RestOK, LedgerInv, TypeInv, TypeOK, PhaseOK,
         HeightsAgree
<1>2. /\ fork' \in 0 .. Height[target] - 1
      /\ heightIdx[fork'] = Path[target][fork']
  BY <1>1, ForkHeightTyped DEF StartReorg, LedgerInv
<1>3. fork' <= height
  <2>1. ~ ("stale" \in broken')
    BY DEF LedgerUnbroken
  <2> QED BY <2>1, <1>1, <1>2 DEF StartReorg
<1>4. /\ UNCHANGED <<heightIdx, undo, dbTip, dbHeight, dbSupply, dbCumDiff, utxo,
                     tip, height, supply, cumDiff, target>>
      /\ checkpoint'
      /\ \/ pc' = "revert" /\ pos' = height
         \/ pc' = "replay" /\ pos' = fork' /\ ~ (fork' < height)
  BY DEF StartReorg, store, db, mem
<1>5. Shared'
  BY <1>1, <1>2, <1>3, <1>4, TreeAssumption DEF Shared, AtRest, IdxOn
<1>6. Path[tip][height] = tip
  BY <1>1, PathAssumption
<1>7. UndoExact' /\ (LedgerOf(tip, utxo, supply, cumDiff))' /\ DbOf(tip)'
      /\ IdxOn(tip)' /\ Undoable(tip, height)'
  BY <1>1, <1>4 DEF UndoExact, AtRest, LedgerOf, DbOf, IdxOn, Undoable
<1>8. CASE pc' = "revert" /\ pos' = height
  <2>1. LedgerOf(Path[tip][pos], utxo, supply, cumDiff)'
    BY <1>4, <1>6, <1>7, <1>8 DEF LedgerOf
  <2>2. Undoable(tip, pos)'
    BY <1>4, <1>7, <1>8 DEF Undoable
  <2> QED
    BY <1>4, <1>5, <1>7, <1>8, <2>1, <2>2
       DEF PhasesOK, RestOK, ApplyOK, CommitOK, RevertOK, ReplayOK,
         RebuildPhaseOK, DownOK, RecoverOK
<1>9. CASE pc' = "replay" /\ pos' = fork' /\ ~ (fork' < height)
  <2>1. fork' = height /\ Path[target][height] = tip
    BY <1>1, <1>2, <1>3, <1>4, <1>5, <1>6, <1>9 DEF Shared
  <2>2. \A h \in 0 .. height : Path[target][h] = Path[tip][h]
    <3>1. height \in 0 .. Height[target]
      BY <1>1, <1>2, <2>1, TreeAssumption
    <3>2. \A h \in 0 .. height : Path[Path[target][height]][h] = Path[target][h]
      BY <1>1, <3>1, PathFacts
    <3> QED BY <2>1, <3>2
  <2>3. LedgerOf(Path[target][pos], utxo, supply, cumDiff)'
    BY <1>4, <1>7, <1>9, <2>1 DEF LedgerOf
  <2>4. (\A h \in 0 .. pos : heightIdx[h] = Path[target][h])'
    BY <1>1, <1>4, <1>7, <1>9, <2>1, <2>2 DEF IdxOn
  <2>5. Undoable(target, pos)'
    BY <1>1, <1>4, <1>7, <1>9, <2>1, <2>2 DEF Undoable
  <2>6. (pos \in fork .. Height[target])'
    BY <1>1, <1>2, <1>4, <1>9, TreeAssumption
  <2> QED
    BY <1>4, <1>5, <1>7, <1>9, <2>3, <2>4, <2>5, <2>6
       DEF PhasesOK, RestOK, ApplyOK, CommitOK, RevertOK, ReplayOK,
         RebuildPhaseOK, DownOK, RecoverOK
<1> QED BY <1>4, <1>8, <1>9

LEMMA RevertBlockLedger ==
  ASSUME LedgerInv, RevertBlock, HeightsAgree, PhasesOK, SoundOK, LedgerUnbroken'
  PROVE  PhasesOK'
<1> DEFINE b == heightIdx[pos]
           P == Parent[b]
<1>1. /\ target \in Block /\ tip \in Block /\ height = Height[tip]
      /\ Height[target] \in Nat
      /\ RevertOK /\ UndoExact /\ pc = "revert"
      /\ fork \in Nat /\ height \in Nat /\ fork < pos /\ pos <= height
      /\ pos \in Nat
      /\ undo \in [Block -> [spent : SUBSET Entry, reward : Nat] \cup {NoUndo}]
  BY TreeAssumption, HeightsClosed
     DEF RevertBlock, PhasesOK, LedgerInv, TypeInv, TypeOK, PhaseOK, HeightsAgree
<1>2. /\ Shared /\ checkpoint
      /\ LedgerOf(Path[tip][pos], utxo, supply, cumDiff)
      /\ DbOf(tip) /\ IdxOn(tip) /\ Undoable(tip, pos)
  BY <1>1 DEF RevertOK
<1>3. /\ pos \in 0 .. Height[tip] /\ pos > 0 /\ b = Path[tip][pos]
  BY <1>1, <1>2 DEF IdxOn
<1>4. /\ b \in Block /\ Height[b] = pos /\ b # Genesis
      /\ P = Path[tip][pos - 1]
  BY <1>1, <1>3, PathFacts
<1>5. undo[b] = UndoOf(b)
  BY <1>1, <1>4 DEF RevertBlock, OldBlock, UndoExact
<1>6. ~ ("replay" \in broken')
  BY DEF LedgerUnbroken
<1>7. /\ undo[b].spent = Spent(UtxoAt[P], b) /\ undo[b].reward = Minted[b]
  BY <1>5 DEF UndoOf
<1>8. /\ utxo' = Reverted(utxo, b, undo[b].spent)
      /\ supply' = supply - undo[b].reward
      /\ cumDiff' = cumDiff - Difficulty[b]
      /\ undo' = [undo EXCEPT ![b] = NoUndo]
      /\ pos' = pos - 1
      /\ pc' = IF pos' = fork THEN "replay" ELSE "revert"
  BY <1>6 DEF RevertBlock, OldBlock
<1>9. UNCHANGED <<heightIdx, dbTip, dbHeight, dbSupply, dbCumDiff, checkpoint,
                  tip, height, target, fork>>
  BY DEF RevertBlock, db
<1>10. /\ utxo' = UtxoAt[P] /\ supply' = SupplyAt[P] /\ cumDiff' = WorkAt[P]
  <2> HIDE DEF b, P
  <2>1. utxo = UtxoAt[b] /\ supply = SupplyAt[b] /\ cumDiff = WorkAt[b]
    BY <1>2, <1>3 DEF LedgerOf
  <2>2. Height[b] > 0 /\ Sound(b)
    BY <1>1, <1>3, <1>4, SoundPaths DEF SoundOK
  <2>3. utxo' = UtxoAt[P]
    BY <1>4, <1>7, <1>8, <2>1, <2>2, RevertUndoes DEF P
  <2>4. supply' = SupplyAt[P] /\ cumDiff' = WorkAt[P]
    BY <1>4, <1>7, <1>8, <2>1, <2>2, LedgerStep DEF P
  <2> QED BY <2>3, <2>4
<1> HIDE DEF b, P
<1>11. UndoExact'
  BY <1>1, <1>4, <1>8 DEF UndoExact, UndoOf
<1>12. Undoable(tip, pos)'
  <2>1. ASSUME NEW h \in 1 .. pos - 1
        PROVE  undo'[Path[tip][h]] # NoUndo \/ h <= Height[StartTip]
    <3>1. Path[tip][h] \in Block /\ Path[tip][h] # b
      BY <1>1, <1>4, PathFacts
    <3>2. undo[Path[tip][h]] # NoUndo \/ h <= Height[StartTip]
      BY <1>1, <1>2 DEF Undoable
    <3> QED BY <3>1, <3>2, <1>1, <1>8
  <2> QED BY <2>1, <1>8, <1>9 DEF Undoable
<1>13. LedgerOf(Path[tip][pos], utxo, supply, cumDiff)'
  BY <1>4, <1>8, <1>9, <1>10 DEF LedgerOf
<1>14. Shared' /\ DbOf(tip)' /\ IdxOn(tip)'
  BY <1>2, <1>9 DEF Shared, DbOf, IdxOn
<1>15. CASE pos' # fork
  BY <1>2, <1>8, <1>9, <1>11, <1>12, <1>13, <1>14, <1>15
     DEF PhasesOK, RestOK, ApplyOK, CommitOK, RevertOK, ReplayOK,
         RebuildPhaseOK, DownOK, RecoverOK
<1>16. CASE pos' = fork
  <2>1. Path[target][fork] = Path[tip][fork] /\ fork < Height[target]
        /\ fork \in 0 .. Height[tip] /\ fork \in 0 .. Height[target]
    BY <1>1, <1>2 DEF Shared
  <2>2. \A h \in 0 .. fork : Path[target][h] = Path[tip][h]
    <3>1. \A h \in 0 .. fork : Path[Path[target][fork]][h] = Path[target][h]
      BY <1>1, <2>1, PathFacts
    <3>2. \A h \in 0 .. fork : Path[Path[tip][fork]][h] = Path[tip][h]
      BY <1>1, <2>1, PathFacts
    <3> QED BY <2>1, <3>1, <3>2
  <2>3. LedgerOf(Path[target][pos], utxo, supply, cumDiff)'
    BY <1>9, <1>13, <1>16, <2>1 DEF LedgerOf
  <2>4. (\A h \in 0 .. pos : heightIdx[h] = Path[target][h])'
    BY <1>1, <1>2, <1>9, <1>16, <2>1, <2>2 DEF IdxOn
  <2>5. Undoable(target, pos)'
    BY <1>1, <1>9, <1>12, <1>16, <2>1, <2>2 DEF Undoable
  <2>6. (pos \in fork .. Height[target])'
    BY <1>1, <1>9, <1>16, <2>1
  <2> QED
    BY <1>2, <1>8, <1>9, <1>11, <1>14, <1>16, <2>3, <2>4, <2>5, <2>6
       DEF PhasesOK, RestOK, ApplyOK, CommitOK, RevertOK, ReplayOK,
         RebuildPhaseOK, DownOK, RecoverOK
<1> QED BY <1>15, <1>16

LEMMA ReplayBlockLedger ==
  ASSUME LedgerInv, ReplayBlock, HeightsAgree, PhasesOK
  PROVE  PhasesOK'
<1> DEFINE b == NewBlock
           P == Parent[b]
<1>1. /\ target \in Block /\ tip \in Block /\ height = Height[tip]
      /\ Height[target] \in Nat /\ fork \in Nat /\ pos \in Nat
      /\ ReplayOK /\ UndoExact /\ pc = "replay"
      /\ pos < Height[target] /\ ReplayValid(b) /\ supply \in Nat
      /\ heightIdx \in [Heights -> Block \cup {None}]
      /\ undo \in [Block -> [spent : SUBSET Entry, reward : Nat] \cup {NoUndo}]
  BY TreeAssumption, HeightsClosed
     DEF ReplayBlock, PhasesOK, LedgerInv, TypeInv, TypeOK, PhaseOK, HeightsAgree
<1>2. /\ Shared /\ checkpoint
      /\ pos \in fork .. Height[target]
      /\ LedgerOf(Path[target][pos], utxo, supply, cumDiff)
      /\ \A h \in 0 .. pos : heightIdx[h] = Path[target][h]
      /\ Undoable(target, pos)
  BY <1>1 DEF ReplayOK
<1>3. pos + 1 \in 0 .. Height[target] /\ pos + 1 > 0
  BY <1>1
<1>4. /\ b \in Block /\ Height[b] = pos + 1 /\ b # Genesis /\ Height[b] > 0
      /\ b = Path[target][pos + 1]
      /\ P = Path[target][pos] /\ pos + 1 \in Heights
  BY <1>1, <1>3, PathFacts, HeightsClosed DEF NewBlock
<1> HIDE DEF b, P
<1>5. CapReward(Minted[b], supply) = Minted[b]
  BY <1>1, <1>4, MintNotCapped DEF ReplayValid, ValidateBlockState
<1>6. /\ utxo = UtxoAt[P] /\ supply = SupplyAt[P] /\ cumDiff = WorkAt[P]
  BY <1>2, <1>4 DEF LedgerOf
<1>7. /\ utxo' = Applied(utxo, b, Size(b))
      /\ heightIdx' = [heightIdx EXCEPT ![Height[b]] = b]
      /\ undo' = [undo EXCEPT ![b] = [spent |-> Spent(utxo, b), reward |-> Minted[b]]]
      /\ dbTip' = b /\ dbSupply' = supply + Minted[b]
      /\ dbCumDiff' = cumDiff + Difficulty[b]
      /\ supply' = dbSupply' /\ cumDiff' = dbCumDiff' /\ pos' = pos + 1
  BY <1>5 DEF ReplayBlock, CommitBatch, IndexHeight, WithUndo, b
<1>8. UNCHANGED <<checkpoint, tip, height, pc, target, fork>>
  BY DEF ReplayBlock
<1>9. utxo' = UtxoAt[b] /\ supply' = SupplyAt[b] /\ cumDiff' = WorkAt[b]
  BY <1>4, <1>6, <1>7, LedgerStep DEF P
<1>10. undo' = [undo EXCEPT ![b] = UndoOf(b)] /\ UndoOf(b) # NoUndo
  BY <1>4, <1>6, <1>7, DataAssumption DEF UndoOf, NoUndo, P
<1>11. UndoExact'
  BY <1>1, <1>4, <1>10 DEF UndoExact, UndoOf
<1>12. (\A h \in 0 .. pos : heightIdx[h] = Path[target][h])'
  <2>1. ASSUME NEW h \in 0 .. pos + 1 PROVE heightIdx'[h] = Path[target][h]
    BY <1>1, <1>2, <1>4, <1>7
  <2> QED BY <2>1, <1>7, <1>8
<1>13. Undoable(target, pos)'
  <2>1. ASSUME NEW h \in 1 .. pos + 1
        PROVE  undo'[Path[target][h]] # NoUndo \/ h <= Height[StartTip]
    <3>1. CASE h = pos + 1
      BY <3>1, <1>1, <1>4, <1>10
    <3>2. CASE h \in 1 .. pos
      <4>1. h \in 0 .. Height[target] /\ h # pos + 1
        BY <3>2, <1>1
      <4>2. Path[target][h] \in Block /\ Height[Path[target][h]] = h
        BY <1>1, <4>1, PathFacts
      <4>3. Path[target][h] # b
        BY <1>4, <4>1, <4>2
      <4> QED BY <4>2, <4>3, <3>2, <1>1, <1>2, <1>10 DEF Undoable
    <3> QED BY <3>1, <3>2, <1>1
  <2> QED BY <2>1, <1>7, <1>8 DEF Undoable
<1>14. /\ LedgerOf(Path[target][pos], utxo, supply, cumDiff)'
       /\ DbOf(Path[target][pos])'
  BY <1>4, <1>7, <1>8, <1>9 DEF LedgerOf, DbOf
<1>15. Shared' /\ checkpoint' /\ (pos \in fork .. Height[target])' /\ pos' # fork'
  BY <1>1, <1>2, <1>7, <1>8 DEF Shared
<1> QED
  BY <1>1, <1>8, <1>11, <1>12, <1>13, <1>14, <1>15
     DEF PhasesOK, RestOK, ApplyOK, CommitOK, RevertOK, ReplayOK,
         RebuildPhaseOK, DownOK, RecoverOK

LEMMA FinishReorgLedger ==
  ASSUME LedgerInv, FinishReorg, HeightsAgree, PhasesOK
  PROVE  PhasesOK'
<1>1. /\ target \in Block /\ Height[target] \in Nat /\ Path[target][Height[target]] = target
      /\ ReplayOK /\ UndoExact /\ pc = "replay" /\ pos = Height[target]
  BY TreeAssumption, PathAssumption
     DEF FinishReorg, ReplayDone, PhasesOK, LedgerInv, TypeInv, TypeOK
<1>2. /\ pos # fork
      /\ LedgerOf(target, utxo, supply, cumDiff)
      /\ IdxOn(target) /\ Undoable(target, Height[target]) /\ DbOf(target)
  BY <1>1 DEF ReplayOK, Shared, IdxOn
<1>3. /\ UNCHANGED <<heightIdx, undo, dbTip, dbHeight, dbSupply, dbCumDiff, utxo,
                     supply, cumDiff, target>>
      /\ tip' = target /\ height' = Height[target] /\ ~ checkpoint'
      /\ pc' = "idle"
  BY DEF FinishReorg, store, db, call
<1>4. AtRest' /\ UndoExact'
  BY <1>1, <1>2, <1>3 DEF AtRest, UndoExact, LedgerOf, IdxOn, Undoable, DbOf
<1> QED
  BY <1>3, <1>4
     DEF PhasesOK, RestOK, ApplyOK, CommitOK, RevertOK, ReplayOK,
         RebuildPhaseOK, DownOK, RecoverOK

-----------------------------------------------------------------------------
(* rebuildReorg. *)

LEMMA StartRebuildLedger ==
  ASSUME LedgerInv, StartRebuild, HeightsAgree, PhasesOK
  PROVE  PhasesOK'
<1>1. /\ target \in Block /\ tip \in Block /\ height = Height[tip]
      /\ Height[target] \in Nat /\ height \in Nat
      /\ RevertOK /\ UndoExact /\ pc = "revert"
  BY TreeAssumption, HeightsClosed
     DEF StartRebuild, MissingUndo, PhasesOK, LedgerInv, TypeInv, TypeOK, HeightsAgree
<1>2. /\ fork \in 0 .. height /\ fork < Height[target]
      /\ Path[target][fork] = Path[tip][fork] /\ IdxOn(tip)
  BY <1>1 DEF RevertOK, Shared
<1>3. \A h \in 0 .. fork : Path[target][h] = Path[tip][h]
  <2>1. fork \in 0 .. Height[target] /\ fork \in 0 .. Height[tip]
    BY <1>1, <1>2
  <2>2. /\ \A h \in 0 .. fork : Path[Path[target][fork]][h] = Path[target][h]
        /\ \A h \in 0 .. fork : Path[Path[tip][fork]][h] = Path[tip][h]
    BY <1>1, <2>1, PathFacts
  <2> QED BY <1>2, <2>2
<1>4. /\ heightIdx' = [h \in Heights |-> IF h \in fork + 1 .. Height[target]
                                          THEN Path[target][h] ELSE heightIdx[h]]
      /\ utxo' = {} /\ accSupply' = 0 /\ accCumDiff' = 0 /\ pos' = 0
      /\ pc' = "rebuild" /\ UNCHANGED <<undo, target>>
  BY DEF StartRebuild, IndexBranch, ClearAll
<1>5. IdxOn(target)'
  <2>1. ASSUME NEW h \in 0 .. Height[target] PROVE heightIdx'[h] = Path[target][h]
    <3>1. h \in Heights
      BY <1>1, HeightsClosed
    <3>2. CASE h \in 0 .. fork
      <4>1. ~ (h \in fork + 1 .. Height[target]) /\ h \in 0 .. Height[tip]
        BY <1>1, <1>2, <3>2
      <4> QED BY <1>2, <1>3, <1>4, <3>1, <3>2, <4>1 DEF IdxOn
    <3>3. CASE ~ (h \in 0 .. fork)
      <4>1. h \in fork + 1 .. Height[target]
        BY <1>1, <1>2, <3>3
      <4> QED BY <1>4, <3>1, <4>1
    <3> QED BY <3>2, <3>3
  <2> QED BY <1>4, <2>1 DEF IdxOn
<1>6. Prefix(target, pos, utxo, accSupply, accCumDiff)' /\ Undoable(target, pos - 1)'
      /\ (pos \in 0 .. Height[target] + 1)' /\ UndoExact'
  BY <1>1, <1>4 DEF Prefix, Undoable, UndoExact
<1> QED
  BY <1>4, <1>5, <1>6
     DEF PhasesOK, RestOK, ApplyOK, CommitOK, RevertOK, ReplayOK,
         RebuildPhaseOK, DownOK, RecoverOK

\* One block of a rebuild or of a recovery, on the way to t.
LEMMA ReapplyLedger ==
  ASSUME LedgerInv, NEW t \in Block, IdxOn(t), pos \in 0 .. Height[t],
         Prefix(t, pos, utxo, accSupply, accCumDiff), Undoable(t, pos - 1), UndoExact,
         NEW b, b = heightIdx[pos], ReapplyBlock(b),
         accSupply' = accSupply + Minted[b]
  PROVE  /\ pos' = pos + 1
         /\ utxo' = UtxoAt[b] /\ accSupply' = SupplyAt[b] /\ accCumDiff' = WorkAt[b]
         /\ b = Path[t][pos] /\ UndoExact'
         /\ \A h \in 1 .. pos : undo'[Path[t][h]] # NoUndo \/ h <= Height[StartTip]
<1>1. /\ b = Path[t][pos] /\ b \in Block /\ Height[b] = pos /\ pos \in Nat
      /\ Height[t] \in Nat
      /\ pos > 0 => b # Genesis /\ Parent[b] = Path[t][pos - 1]
      /\ undo \in [Block -> [spent : SUBSET Entry, reward : Nat] \cup {NoUndo}]
  BY PathFacts DEF IdxOn, LedgerInv, TypeInv, TypeOK
<1>2. /\ utxo' = Applied(utxo, b, Size(b))
      /\ undo' = [undo EXCEPT ![b] = [spent |-> Spent(utxo, b), reward |-> Minted[b]]]
      /\ accCumDiff' = accCumDiff + Difficulty[b]
      /\ pos' = pos + 1
  BY DEF ReapplyBlock, WithUndo
<1>3. Minted[b] \in Nat /\ Difficulty[b] \in Nat
  BY <1>1, DataAssumption
<1>4. CASE pos = 0
  <2>1. b = Genesis
    BY <1>1, <1>4, PathFacts
  <2>2. utxo' = UtxoAt[b] /\ accSupply' = SupplyAt[b] /\ accCumDiff' = WorkAt[b]
    <3>1. utxo = {} /\ accSupply = 0 /\ accCumDiff = 0
      BY <1>4 DEF Prefix
    <3>2. /\ UtxoAt[b] = Applied({}, b, Size(b))
          /\ SupplyAt[b] = Minted[b] /\ WorkAt[b] = Difficulty[b]
      BY <2>1, LedgerAssumption
    <3> QED BY <1>2, <1>3, <3>1, <3>2
  <2>3. UndoExact'
    BY <1>2, <2>1 DEF UndoExact, UndoOf
  <2> QED BY <1>1, <1>2, <1>4, <2>2, <2>3
<1>5. CASE pos > 0
  <2>1. /\ Parent[b] = Path[t][pos - 1] /\ utxo = UtxoAt[Parent[b]]
        /\ accSupply = SupplyAt[Parent[b]] /\ accCumDiff = WorkAt[Parent[b]]
    BY <1>1, <1>5 DEF Prefix, LedgerOf
  <2>2. utxo' = UtxoAt[b] /\ accSupply' = SupplyAt[b] /\ accCumDiff' = WorkAt[b]
    BY <1>1, <1>2, <1>5, <2>1, LedgerStep
  <2>3. undo' = [undo EXCEPT ![b] = UndoOf(b)] /\ UndoOf(b) # NoUndo
    BY <1>2, <1>3, <2>1 DEF UndoOf, NoUndo
  <2>4. UndoExact'
    BY <1>1, <2>3 DEF UndoExact, UndoOf
  <2>5. ASSUME NEW h \in 1 .. pos
        PROVE  undo'[Path[t][h]] # NoUndo \/ h <= Height[StartTip]
    <3>1. CASE h = pos
      BY <3>1, <1>1, <2>3
    <3>2. CASE h \in 1 .. pos - 1
      <4>1. Path[t][h] \in Block /\ Path[t][h] # b
        BY <3>2, <1>1, PathFacts
      <4> QED BY <4>1, <3>2, <2>3 DEF Undoable
    <3> QED BY <3>1, <3>2, <1>1
  <2> QED BY <1>1, <1>2, <2>2, <2>4, <2>5
<1> QED BY <1>1, <1>4, <1>5

LEMMA RebuildBlockLedger ==
  ASSUME LedgerInv, RebuildBlock, HeightsAgree, PhasesOK, LedgerUnbroken'
  PROVE  PhasesOK'
<1> DEFINE b == heightIdx[pos]
<1>1. /\ target \in Block /\ Height[target] \in Nat /\ pos \in Nat
      /\ RebuildPhaseOK /\ UndoExact /\ pc = "rebuild" /\ pos <= Height[target]
  BY TreeAssumption DEF RebuildBlock, PhasesOK, LedgerInv, TypeInv, TypeOK
<1>2. /\ IdxOn(target) /\ pos \in 0 .. Height[target]
      /\ Prefix(target, pos, utxo, accSupply, accCumDiff)
      /\ Undoable(target, pos - 1)
  BY <1>1 DEF RebuildPhaseOK
<1>3. accSupply' = accSupply + Minted[b]
  <2>1. ~ ("capped" \in broken')
    BY DEF LedgerUnbroken
  <2> QED BY <2>1 DEF RebuildBlock
<1>4. ReapplyBlock(b) /\ UNCHANGED <<heightIdx, target, pc>>
  BY DEF RebuildBlock
<1> HIDE DEF b
<1>5. /\ pos' = pos + 1
      /\ utxo' = UtxoAt[b] /\ accSupply' = SupplyAt[b] /\ accCumDiff' = WorkAt[b]
      /\ b = Path[target][pos] /\ UndoExact'
      /\ \A h \in 1 .. pos : undo'[Path[target][h]] # NoUndo \/ h <= Height[StartTip]
  BY <1>1, <1>2, <1>3, <1>4, ReapplyLedger DEF b
<1>6. Prefix(target, pos, utxo, accSupply, accCumDiff)' /\ Undoable(target, pos - 1)'
      /\ (pos \in 0 .. Height[target] + 1)' /\ IdxOn(target)'
  BY <1>1, <1>2, <1>4, <1>5 DEF Prefix, LedgerOf, Undoable, IdxOn
<1> QED
  BY <1>1, <1>4, <1>5, <1>6
     DEF PhasesOK, RestOK, ApplyOK, CommitOK, RevertOK, ReplayOK,
         RebuildPhaseOK, DownOK, RecoverOK

LEMMA FinishRebuildLedger ==
  ASSUME LedgerInv, FinishRebuild, HeightsAgree, PhasesOK
  PROVE  PhasesOK'
<1>1. /\ target \in Block /\ Height[target] \in Nat /\ pos \in Nat
      /\ Path[target][Height[target]] = target
      /\ RebuildPhaseOK /\ UndoExact /\ pc = "rebuild" /\ pos > Height[target]
  BY TreeAssumption, PathAssumption
     DEF FinishRebuild, Rebuilt, PhasesOK, LedgerInv, TypeInv, TypeOK
<1>2. /\ pos = Height[target] + 1 /\ IdxOn(target)
      /\ LedgerOf(target, utxo, accSupply, accCumDiff)
      /\ Undoable(target, Height[target])
  BY <1>1 DEF RebuildPhaseOK, Prefix
<1>3. /\ UNCHANGED <<heightIdx, undo, utxo, target>>
      /\ tip' = target /\ height' = Height[target] /\ dbTip' = target
      /\ supply' = accSupply /\ cumDiff' = accCumDiff
      /\ dbSupply' = accSupply /\ dbCumDiff' = accCumDiff
      /\ ~ checkpoint' /\ pc' = "idle"
  BY DEF FinishRebuild, PersistTip, store, call
<1>4. AtRest' /\ UndoExact'
  BY <1>1, <1>2, <1>3 DEF AtRest, UndoExact, LedgerOf, IdxOn, Undoable, DbOf
<1> QED
  BY <1>3, <1>4
     DEF PhasesOK, RestOK, ApplyOK, CommitOK, RevertOK, ReplayOK,
         RebuildPhaseOK, DownOK, RecoverOK

-----------------------------------------------------------------------------
(* Crash and recovery. *)

\* Whatever the phase, what is on disk leads a restart back to the ledger.
LEMMA CrashLedger ==
  ASSUME LedgerInv, Crash, HeightsAgree, PhasesOK, LedgerUnbroken'
  PROVE  PhasesOK'
<1>1. /\ dbTip \in Block /\ tip \in Block /\ target \in Block /\ pos \in Nat
      /\ height = Height[tip] /\ dbHeight = Height[dbTip]
      /\ Height[target] \in Nat
      /\ pc \in {"idle", "apply", "commit", "notify", "decide", "revert", "replay",
                 "rebuild", "recover", "boot"}
      /\ UndoExact
  BY TreeAssumption
     DEF Crash, PhasesOK, LedgerInv, TypeInv, TypeOK, HeightsAgree
<1>2. pc' = "down" /\ UNCHANGED <<heightIdx, undo, dbTip, dbHeight, dbSupply,
                                  dbCumDiff, checkpoint>>
  BY DEF Crash, store, db
<1>3. pc # "commit" /\ pc # "rebuild" /\ utxo' = utxo
  <2>1. broken' \cap {"torn", "rebuild"} = {}
    BY DEF LedgerUnbroken
  <2>2. ASSUME pc = "apply" PROVE utxo' = utxo
    <3>1. PICK k \in 0 .. Size(target) :
            /\ utxo' = Applied(utxo, target, k)
            /\ broken' = IF k = 0 THEN broken ELSE broken \cup {"torn"}
      BY <2>2 DEF Crash
    <3> QED BY <2>1, <3>1, NothingApplied
  <2> QED BY <2>1, <2>2 DEF Crash
<1>4. CASE pc \in {"idle", "apply", "notify", "decide", "boot"}
  <2>1. AtRest
    BY <1>4 DEF PhasesOK, RestOK, ApplyOK
  <2>2. DownOK'
    BY <1>1, <1>2, <1>3, <2>1
       DEF AtRest, DownOK, IdxOn, DbOf, LedgerOf, Undoable
  <2> QED
    BY <1>1, <1>2, <2>2
       DEF UndoExact, UndoOf,
           PhasesOK, RestOK, ApplyOK, CommitOK, RevertOK, ReplayOK,
         RebuildPhaseOK, DownOK, RecoverOK
<1>5. CASE pc = "revert"
  <2>1. checkpoint /\ DbOf(tip) /\ IdxOn(tip)
    BY <1>5 DEF PhasesOK, RevertOK
  <2>2. DownOK'
    BY <1>1, <1>2, <2>1 DEF DownOK, IdxOn, DbOf
  <2> QED
    BY <1>1, <1>2, <2>2
       DEF UndoExact, UndoOf,
           PhasesOK, RestOK, ApplyOK, CommitOK, RevertOK, ReplayOK,
         RebuildPhaseOK, DownOK, RecoverOK
<1>6. CASE pc = "replay"
  <2>1. ReplayOK
    BY DEF PhasesOK
  <2>2. checkpoint /\ IdxOn(dbTip)
    <3>1. CASE pos = fork
      BY <1>6, <2>1, <3>1 DEF ReplayOK, DbOf, IdxOn
    <3>2. CASE pos # fork
      <4>1. /\ checkpoint /\ dbTip = Path[target][pos]
            /\ \A h \in 0 .. pos : heightIdx[h] = Path[target][h]
            /\ pos \in 0 .. Height[target]
        BY <1>1, <1>6, <2>1, <3>2 DEF ReplayOK, DbOf
      <4>2. Height[dbTip] = pos /\ \A h \in 0 .. pos : Path[dbTip][h] = Path[target][h]
        BY <1>1, <4>1, PathFacts
      <4> QED BY <4>1, <4>2 DEF IdxOn
    <3> QED BY <3>1, <3>2
  <2>3. DownOK'
    BY <1>1, <1>2, <2>2 DEF DownOK, IdxOn
  <2> QED
    BY <1>1, <1>2, <2>3
       DEF UndoExact, UndoOf,
           PhasesOK, RestOK, ApplyOK, CommitOK, RevertOK, ReplayOK,
         RebuildPhaseOK, DownOK, RecoverOK
<1>7. CASE pc = "recover"
  <2>1. checkpoint /\ dbTip = tip /\ IdxOn(tip)
    BY <1>7 DEF PhasesOK, RecoverOK
  <2>2. DownOK'
    BY <1>1, <1>2, <2>1 DEF DownOK, IdxOn
  <2> QED
    BY <1>1, <1>2, <2>2
       DEF UndoExact, UndoOf,
           PhasesOK, RestOK, ApplyOK, CommitOK, RevertOK, ReplayOK,
         RebuildPhaseOK, DownOK, RecoverOK
<1> QED BY <1>1, <1>3, <1>4, <1>5, <1>6, <1>7

LEMMA RestartLedger ==
  ASSUME LedgerInv, Restart, HeightsAgree, PhasesOK
  PROVE  PhasesOK'
<1>1. /\ dbTip \in Block /\ dbHeight = Height[dbTip] /\ dbHeight \in Nat
      /\ DownOK /\ UndoExact /\ pc = "down" /\ checkpoint \in BOOLEAN
  BY HeightsClosed DEF Restart, PhasesOK, LedgerInv, TypeInv, TypeOK, HeightsAgree
<1>2. /\ tip' = dbTip /\ height' = dbHeight /\ supply' = dbSupply
      /\ cumDiff' = dbCumDiff /\ accSupply' = 0 /\ accCumDiff' = 0
      /\ UNCHANGED <<heightIdx, undo, dbTip, dbHeight, dbSupply, dbCumDiff,
                     checkpoint>>
  BY DEF Restart, store, db
<1>3. UndoExact'
  BY <1>1, <1>2 DEF UndoExact, UndoOf
<1>4. CASE checkpoint
  <2>1. pc' = "recover" /\ utxo' = {} /\ pos' = 0
    BY <1>4 DEF Restart, MustRebuild, ClearAll
  <2>2. RecoverOK'
    BY <1>1, <1>2, <1>4, <2>1 DEF DownOK, RecoverOK, IdxOn, Prefix, Undoable
  <2> QED
    BY <1>3, <2>1, <2>2
       DEF PhasesOK, RestOK, ApplyOK, CommitOK, RevertOK, ReplayOK,
         RebuildPhaseOK, DownOK, RecoverOK
<1>5. CASE ~ checkpoint
  <2>1. pc' = "boot" /\ utxo' = utxo
    BY <1>5 DEF Restart, MustRebuild
  <2>2. AtRest'
    BY <1>1, <1>2, <1>5, <2>1 DEF DownOK, AtRest, LedgerOf, DbOf, IdxOn, Undoable
  <2> QED
    BY <1>3, <2>1, <2>2
       DEF PhasesOK, RestOK, ApplyOK, CommitOK, RevertOK, ReplayOK,
         RebuildPhaseOK, DownOK, RecoverOK
<1> QED BY <1>1, <1>4, <1>5

LEMMA RecoverBlockLedger ==
  ASSUME LedgerInv, RecoverBlock, HeightsAgree, PhasesOK
  PROVE  PhasesOK'
<1> DEFINE b == heightIdx[pos]
<1>1. /\ tip \in Block /\ height = Height[tip] /\ height \in Nat /\ pos \in Nat
      /\ dbTip = tip /\ checkpoint /\ IdxOn(tip) /\ pos \in 0 .. Height[tip]
      /\ Prefix(tip, pos, utxo, accSupply, accCumDiff) /\ Undoable(tip, pos - 1)
      /\ UndoExact /\ pc = "recover"
  BY HeightsClosed
     DEF RecoverBlock, PhasesOK, RecoverOK, LedgerInv, TypeInv, TypeOK, HeightsAgree
<1>2. UNCHANGED <<heightIdx, dbTip, dbHeight, dbSupply, dbCumDiff, checkpoint, tip,
                  height>>
  BY DEF RecoverBlock, db
<1>3. CASE Applicable(b)
  <2>1. ReapplyBlock(b) /\ accSupply' = accSupply + Minted[b] /\ pc' = pc
    BY <1>3 DEF RecoverBlock
  <2> HIDE DEF b
  <2>2. /\ pos' = pos + 1
        /\ utxo' = UtxoAt[b] /\ accSupply' = SupplyAt[b] /\ accCumDiff' = WorkAt[b]
        /\ b = Path[tip][pos] /\ UndoExact'
        /\ \A h \in 1 .. pos : undo'[Path[tip][h]] # NoUndo \/ h <= Height[StartTip]
    BY <1>1, <2>1, ReapplyLedger DEF b
  <2>3. RecoverOK'
    BY <1>1, <1>2, <2>2 DEF RecoverOK, IdxOn, Prefix, LedgerOf, Undoable
  <2> QED
    BY <1>1, <2>1, <2>2, <2>3
       DEF PhasesOK, RestOK, ApplyOK, CommitOK, RevertOK, ReplayOK,
         RebuildPhaseOK, DownOK, RecoverOK
<1>4. CASE ~ Applicable(b)
  <2>1. pc' = "down" /\ UNCHANGED undo
    BY <1>4 DEF RecoverBlock
  <2>2. DownOK' /\ UndoExact'
    BY <1>1, <1>2, <2>1 DEF DownOK, IdxOn, UndoExact, UndoOf
  <2> QED
    BY <2>1, <2>2
       DEF PhasesOK, RestOK, ApplyOK, CommitOK, RevertOK, ReplayOK,
         RebuildPhaseOK, DownOK, RecoverOK
<1> QED BY <1>3, <1>4

LEMMA FinishRecoveryLedger ==
  ASSUME LedgerInv, FinishRecovery, HeightsAgree, PhasesOK
  PROVE  PhasesOK'
<1>1. /\ tip \in Block /\ height = Height[tip] /\ height \in Nat /\ pos \in Nat
      /\ dbTip = tip /\ IdxOn(tip) /\ pos = height + 1
      /\ Prefix(tip, pos, utxo, accSupply, accCumDiff) /\ Undoable(tip, pos - 1)
      /\ UndoExact
  <2>1. /\ tip \in Block /\ height = Height[tip] /\ height \in Nat /\ pos \in Nat
        /\ pos > height /\ RecoverOK /\ UndoExact /\ pc = "recover"
    BY HeightsClosed
       DEF FinishRecovery, PhasesOK, LedgerInv, TypeInv, TypeOK, HeightsAgree
  <2> QED BY <2>1 DEF RecoverOK
<1>2. LedgerOf(tip, utxo, accSupply, accCumDiff) /\ Undoable(tip, height)
  BY <1>1, PathAssumption DEF Prefix
<1>3. /\ supply' = accSupply /\ cumDiff' = accCumDiff
      /\ dbSupply' = accSupply /\ dbCumDiff' = accCumDiff
      /\ ~ checkpoint' /\ pc' = "boot"
      /\ UNCHANGED <<heightIdx, undo, dbTip, dbHeight, utxo, tip, height>>
  BY DEF FinishRecovery, store
<1>4. AtRest' /\ UndoExact'
  BY <1>1, <1>2, <1>3 DEF AtRest, LedgerOf, DbOf, IdxOn, Undoable, UndoExact, UndoOf
<1> QED
  BY <1>3, <1>4
     DEF PhasesOK, RestOK, ApplyOK, CommitOK, RevertOK, ReplayOK,
         RebuildPhaseOK, DownOK, RecoverOK

LEMMA BootLedger ==
  ASSUME LedgerInv, NEW r \in BOOLEAN, Boot(r), HeightsAgree, PhasesOK
  PROVE  PhasesOK'
<1>1. /\ tip \in Block /\ height = Height[tip] /\ height \in Nat
      /\ dbTip \in Block /\ dbHeight = Height[dbTip]
      /\ AtRest /\ UndoExact /\ pc = "boot" /\ pc' = "idle"
      /\ heightIdx \in [Heights -> Block \cup {None}]
  BY HeightsClosed
     DEF Boot, PhasesOK, RestOK, LedgerInv, TypeInv, TypeOK, HeightsAgree
<1>2. UNCHANGED <<undo, dbTip, dbHeight, dbSupply, dbCumDiff, checkpoint, utxo, tip,
                  height, supply, cumDiff>>
  BY DEF Boot, db, mem
<1>3. dbTip = tip /\ IdxOn(tip)
  BY <1>1 DEF AtRest, DbOf
<1>4. IdxOn(tip)'
  <2>1. ASSUME NEW h \in 0 .. Height[tip] PROVE heightIdx'[h] = Path[tip][h]
    <3>1. CASE UNCHANGED heightIdx
      BY <1>3, <3>1 DEF IdxOn
    <3>2. CASE heightIdx' = [g \in Heights |->
                 IF g <= dbHeight THEN Path[dbTip][g] ELSE heightIdx[g]]
      BY <1>1, <1>3, <3>2, HeightsClosed
    <3> QED BY <3>1, <3>2 DEF Boot
  <2> QED BY <1>2, <2>1 DEF IdxOn
<1>5. AtRest' /\ UndoExact'
  BY <1>1, <1>2, <1>4 DEF AtRest, LedgerOf, DbOf, Undoable, UndoExact, UndoOf
<1> QED
  BY <1>1, <1>5
     DEF PhasesOK, RestOK, ApplyOK, CommitOK, RevertOK, ReplayOK,
         RebuildPhaseOK, DownOK, RecoverOK

-----------------------------------------------------------------------------
(* Every active block was checked. *)

\* What validateBlockState passes on the parent's ledger.
LEMMA PassedIsChecked ==
  ASSUME NEW b, ValidateBlockState(b), utxo = UtxoAt[Parent[b]]
  PROVE  Checked(b)
BY DEF ValidateBlockState, SpendOK, OpsOf, Checked

LEMMA SoundFull == \A t : Sound(t) <=> SoundTo(t, Height[t])
BY DEF Sound, SoundTo

\* One step, the ledger being right before and after it.
LEMMA SoundStep ==
  ASSUME LedgerInv, HeightsAgree, PhasesOK, SoundOK, PhasesOK', Next,
         LedgerUnbroken'
  PROVE  SoundOK'
<1>1. /\ TypeInv /\ tip \in Block /\ dbTip \in Block /\ target \in Block
      /\ height = Height[tip] /\ pos \in Nat /\ fork \in Nat
      /\ Height[target] \in Nat /\ Height[tip] \in Nat
  BY TreeAssumption, HeightsClosed DEF LedgerInv, TypeInv, TypeOK, HeightsAgree
<1> USE DEF SoundOK
<1>2. CASE \E b \in Block : Accept(b)
  <2>1. PICK b \in Block : Accept(b)
    BY <1>2
  <2>2. utxo = UtxoAt[Parent[b]] /\ Height[b] > 0
    BY <1>1, <2>1 DEF Accept, PhasesOK, RestOK, AtRest, LedgerOf
  <2>3. Checked(b)
    BY <2>1, <2>2, PassedIsChecked DEF Accept
  <2> QED BY <2>1, <2>3 DEF Accept, db, mem
<1>3. CASE \E b \in Block : StoreFork(b)
  BY <1>3 DEF StoreFork, db, mem
<1>4. CASE Apply \/ Notify \/ KeepCurrent \/ FinishRecovery
           \/ Restart \/ RecoverBlock \/ Crash \/ \E r \in BOOLEAN : Boot(r)
  <2>1. /\ tip' \in {tip, dbTip} /\ dbTip' = dbTip
        /\ pc' \in {"idle", "commit", "boot", "recover", "down"}
        /\ pc' = "commit" => pc = "apply" /\ target' = target
    BY <1>4 DEF Apply, Notify, KeepCurrent, FinishRecovery, Restart, RecoverBlock,
                Crash, Boot, db, mem, call
  <2> QED BY <2>1
<1>5. CASE Commit
  <2>1. Parent[target] = tip /\ Height[target] > 0 /\ Checked(target)
    BY <1>5 DEF Commit, PhasesOK, CommitOK, Extending
  <2>2. Sound(target)
    BY <1>1, <2>1, SoundPaths
  <2> QED BY <1>5, <2>2 DEF Commit, CommitBatch
<1>6. CASE StartReorg
  <2>1. /\ tip' = tip /\ dbTip' = dbTip /\ target' = target /\ height' = height
        /\ \/ pc' = "revert"
           \/ pc' = "replay" /\ pos' = fork'
    BY <1>6 DEF StartReorg, db, mem
  <2>2. Shared'
    BY <2>1 DEF PhasesOK, RevertOK, ReplayOK
  <2>3. /\ fork' \in 0 .. Height[tip] /\ fork' \in 0 .. Height[target]
        /\ Path[target][fork'] = Path[tip][fork']
    BY <1>1, <2>1, <2>2 DEF Shared
  <2>4. SoundTo(target, fork')
    <3>1. Sound(Path[target][fork']) /\ Height[Path[target][fork']] = fork'
          /\ \A g \in 0 .. fork' : Path[Path[target][fork']][g] = Path[target][g]
      BY <1>1, <2>3, SoundPaths, PathFacts
    <3> QED BY <2>3, <3>1 DEF Sound, SoundTo
  <2> QED BY <2>1, <2>4
<1>7. CASE RevertBlock
  <2>1. /\ tip' = tip /\ dbTip' = dbTip /\ target' = target /\ fork' = fork
        /\ \/ pc' \in {"idle", "revert"}
           \/ pc' = "replay" /\ pos' = fork'
        /\ pc = "revert"
    BY <1>7 DEF RevertBlock, db
  <2> QED BY <2>1
<1>8. CASE ReplayBlock
  <2> DEFINE b == NewBlock
  <2>1. /\ pc = "replay" /\ pc' = "replay" /\ tip' = tip /\ target' = target
        /\ dbTip' = b /\ pos' = pos + 1 /\ ReplayValid(b) /\ pos < Height[target]
    BY <1>8 DEF ReplayBlock, CommitBatch
  <2>2. /\ pos + 1 \in 0 .. Height[target] /\ (pos + 1) - 1 = pos
        /\ b = Path[target][pos + 1]
    BY <1>1, <2>1 DEF NewBlock
  <2>3. b \in Block /\ Height[b] = pos + 1 /\ Parent[b] = Path[target][pos]
        /\ Height[b] > 0
    BY <1>1, <2>2, PathFacts
  <2>4. utxo = UtxoAt[Parent[b]]
    BY <2>1, <2>3 DEF PhasesOK, ReplayOK, LedgerOf
  <2> HIDE DEF b
  <2>5. Checked(b)
    BY <2>1, <2>4, PassedIsChecked DEF ReplayValid
  <2>6. SoundTo(target, pos + 1)
    BY <1>1, <2>1, <2>2, <2>5 DEF SoundTo
  <2>7. Sound(b)
    <3>1. \A g \in 0 .. pos + 1 : Path[b][g] = Path[target][g]
      BY <1>1, <2>2, PathFacts
    <3> QED BY <2>3, <2>6, <3>1 DEF Sound, SoundTo
  <2> QED BY <2>1, <2>6, <2>7
<1>9. CASE FinishReorg
  <2>1. pc = "replay" /\ pos = Height[target] /\ tip' = target /\ dbTip' = dbTip
        /\ pc' = "idle"
    BY <1>9 DEF FinishReorg, ReplayDone, db
  <2> QED BY <2>1, SoundFull
<1>10. CASE StartRebuild
  <2>1. /\ tip' = tip /\ dbTip' = dbTip /\ target' = target /\ fork' = fork
        /\ pc = "revert" /\ pc' = "rebuild" /\ pos' = 0
    BY <1>10 DEF StartRebuild, MissingUndo, db
  <2>2. SoundTo(target, 0 - 1)
    BY DEF SoundTo
  <2> QED BY <2>1, <2>2
<1>11. CASE RebuildBlock
  <2> DEFINE b == heightIdx[pos]
  <2>1. /\ pc = "rebuild" /\ pc' = "rebuild" /\ tip' = tip /\ target' = target
        /\ dbTip' = dbTip /\ fork' = fork /\ pos' = pos + 1
        /\ pos <= Height[target] /\ (pos > fork => ReplayValid(b))
    BY <1>11 DEF RebuildBlock, ReapplyBlock, RebuildOK, db
  <2>2. pos \in 0 .. Height[target] /\ (pos + 1) - 1 = pos
    BY <1>1, <2>1
  <2>3. b = Path[target][pos] /\ Prefix(target, pos, utxo, accSupply, accCumDiff)
    BY <2>1, <2>2 DEF PhasesOK, RebuildPhaseOK, IdxOn
  <2> HIDE DEF b
  <2>4. SoundTo(target, pos)
    <3>1. CASE pos <= fork
      BY <1>1, <2>1, <3>1 DEF SoundTo
    <3>2. CASE pos > fork
      <4>1. /\ b \in Block /\ Height[b] = pos /\ pos > 0
            /\ Parent[b] = Path[target][pos - 1]
        BY <1>1, <2>2, <2>3, <3>2, PathFacts
      <4>2. utxo = UtxoAt[Parent[b]]
        BY <2>3, <4>1 DEF Prefix, LedgerOf
      <4>3. Checked(b)
        BY <2>1, <3>2, <4>2, PassedIsChecked DEF ReplayValid
      <4> QED BY <1>1, <2>1, <2>3, <4>1, <4>3 DEF SoundTo
    <3> QED BY <1>1, <3>1, <3>2
  <2> QED BY <1>1, <2>1, <2>2, <2>4
<1>12. CASE FinishRebuild
  <2>1. /\ pc = "rebuild" /\ pos > Height[target] /\ tip' = target /\ dbTip' = target
        /\ pc' = "idle"
    BY <1>12 DEF FinishRebuild, Rebuilt, PersistTip
  <2>2. pos - 1 = Height[target]
    BY <1>1, <2>1 DEF PhasesOK, RebuildPhaseOK
  <2> QED BY <2>1, <2>2, SoundFull
<1>13. CASE ReplayFails \/ RebuildFails
  BY <1>13 DEF ReplayFails, RebuildFails, LedgerUnbroken
<1> QED
  BY <1>2, <1>3, <1>4, <1>5, <1>6, <1>7, <1>8, <1>9, <1>10, <1>11, <1>12, <1>13,
     NotInRebuild DEF Next, Process, Running, StartUp

-----------------------------------------------------------------------------
(* The theorems. *)

\* The heights kept beside the tips are theirs.
LEMMA HeightsStep ==
  ASSUME HeightsAgree, [Next]_vars, ~ CrashInRebuild
  PROVE  HeightsAgree'
<1> USE DEF HeightsAgree, CommitBatch, store, db, mem, acc, call
<1>1. CASE Commit
  BY <1>1 DEF Commit
<1>2. CASE ReplayBlock
  BY <1>2 DEF ReplayBlock
<1>3. CASE FinishReorg \/ FinishRebuild \/ Restart \/ FinishRecovery
  BY <1>3 DEF FinishReorg, FinishRebuild, PersistTip, Restart, FinishRecovery
<1>4. CASE \/ \E b \in Block : Process(b)
           \/ Apply \/ Notify \/ KeepCurrent \/ StartReorg \/ RevertBlock
           \/ ReplayFails \/ StartRebuild \/ RebuildBlock \/ RebuildFails
           \/ RecoverBlock \/ (\E r \in BOOLEAN : Boot(r)) \/ Crash
           \/ UNCHANGED vars
  <2>1. UNCHANGED <<tip, height, dbTip, dbHeight>>
    BY <1>4
       DEF Process, Accept, StoreFork, Apply, Notify, KeepCurrent, StartReorg,
           RevertBlock, ReplayFails, StartRebuild, RebuildBlock, RebuildFails,
           RecoverBlock, Boot, Crash, vars
  <2> QED BY <2>1
<1> QED BY <1>1, <1>2, <1>3, <1>4 DEF Next, Running, StartUp

LEMMA InitLedger == Init => LedgerInv
<1> SUFFICES ASSUME Init PROVE LedgerInv
  OBVIOUS
<1>1. StartTip \in Block /\ Height[StartTip] \in Nat
  BY DataAssumption, TreeAssumption
<1>2. AtRest /\ UndoExact /\ HeightsAgree
  <2>1. IdxOn(StartTip)
    BY <1>1, HeightsClosed DEF Init, IdxOn
  <2>2. Undoable(StartTip, Height[StartTip])
    BY <1>1 DEF Undoable
  <2> QED
    BY <2>1, <2>2, PathFacts
       DEF Init, AtRest, UndoExact, LedgerOf, DbOf, HeightsAgree, Undoable
<1>3. PhasesOK
  BY <1>2
     DEF Init,
         PhasesOK, RestOK, ApplyOK, CommitOK, RevertOK, ReplayOK,
         RebuildPhaseOK, DownOK, RecoverOK
<1>4. SoundOK
  BY RuleAssumption DEF Init, SoundOK
<1> QED BY <1>2, <1>3, <1>4, InitTyped DEF LedgerInv

LEMMA NextLedger == LedgerInv /\ [Next]_vars => LedgerInv'
<1> SUFFICES ASSUME LedgerInv, [Next]_vars PROVE LedgerInv'
  OBVIOUS
<1>1. TypeInv'
  BY NextTyped DEF LedgerInv
<1>2. ASSUME LedgerUnbroken' PROVE HeightsAgree'
  BY <1>2, UnbrokenBefore, NotInRebuild, HeightsStep DEF LedgerInv
<1>3. ASSUME LedgerUnbroken' PROVE PhasesOK'
  <2>1. HeightsAgree /\ PhasesOK /\ SoundOK
    BY <1>3, UnbrokenBefore DEF LedgerInv
  <2>2. CASE \E b \in Block : Process(b)
    BY <2>1, <2>2, AcceptLedger, RestLedger DEF Process
  <2>3. CASE Running
    <3>1. ~ ReplayFails /\ ~ RebuildFails
      BY <1>3 DEF ReplayFails, RebuildFails, LedgerUnbroken
    <3> QED
      BY <1>3, <2>1, <2>3, <3>1, ApplyLedger, CommitLedger, RestLedger,
         StartReorgLedger, RevertBlockLedger, ReplayBlockLedger,
         FinishReorgLedger, StartRebuildLedger, RebuildBlockLedger,
         FinishRebuildLedger DEF Running
  <2>4. CASE StartUp
    BY <2>1, <2>4, RestartLedger, RecoverBlockLedger, FinishRecoveryLedger,
       BootLedger DEF StartUp
  <2>5. CASE Crash
    BY <1>3, <2>1, <2>5, CrashLedger
  <2>6. CASE UNCHANGED vars
    BY <2>1, <2>6
       DEF vars, store, db, mem, acc, call, UndoExact, AtRest, Extending, Shared,
           IdxOn, DbOf, LedgerOf, Undoable, Prefix, CapReward, UndoOf,
           PhasesOK, RestOK, ApplyOK, CommitOK, RevertOK, ReplayOK,
         RebuildPhaseOK, DownOK, RecoverOK
  <2> QED BY <1>3, <2>2, <2>3, <2>4, <2>5, <2>6, NotInRebuild DEF Next
<1>4. ASSUME LedgerUnbroken' PROVE SoundOK'
  <2>1. HeightsAgree /\ PhasesOK /\ SoundOK /\ PhasesOK'
    BY <1>3, <1>4, UnbrokenBefore DEF LedgerInv
  <2>2. CASE Next
    BY <1>4, <2>1, <2>2, SoundStep
  <2>3. CASE UNCHANGED vars
    BY <2>1, <2>3 DEF SoundOK, SoundTo, Sound, Checked, vars, db, mem, call
  <2> QED BY <2>2, <2>3
<1> QED BY <1>1, <1>2, <1>3, <1>4 DEF LedgerInv

\* What holds at every step of every run, in every phase of every call.
THEOREM LedgerInvariant == Spec => []LedgerInv
BY InitLedger, NextLedger, PTL DEF Spec

\* processor.go, reorg.go, chain.go: when ProcessBlock, a reorg, a rebuild or a
\* restart has returned, the UTXO set, supply, work and height are the tip's.
THEOREM LedgerCorrect == Spec => []LedgerMatchesTip
<1>1. LedgerInv => LedgerMatchesTip
  BY DEF LedgerInv, LedgerMatchesTip, Idle, PhasesOK, RestOK, AtRest, LedgerOf,
         HeightsAgree
<1> QED BY <1>1, LedgerInvariant, PTL

\* store.go: the persisted tip, supply and work are those in memory, and the
\* height index leads to the tip.
THEOREM DatabaseCorrect == Spec => []DatabaseMatchesMemory
<1>1. LedgerInv => DatabaseMatchesMemory
  BY DEF LedgerInv, DatabaseMatchesMemory, Idle, PhasesOK, RestOK, AtRest, LedgerOf,
         DbOf, IdxOn, HeightsAgree
<1> QED BY <1>1, LedgerInvariant, PTL

\* reorg.go: every active block written since the start can be reverted, and its
\* record restores exactly what the block spent.
THEOREM UndoCorrect == Spec => []ActiveBlocksCanBeUndone
<1>1. LedgerInv => ActiveBlocksCanBeUndone
  <2> SUFFICES ASSUME LedgerInv, Idle, LedgerUnbroken, NEW h \in 1 .. height
      PROVE  LET b == Path[tip][h] IN
             \/ undo[b] = UndoOf(b)
             \/ undo[b] = NoUndo /\ h <= Height[StartTip]
    BY DEF ActiveBlocksCanBeUndone, UndoOf
  <2>1. /\ tip \in Block /\ height = Height[tip] /\ UndoExact
        /\ Undoable(tip, height)
    BY DEF LedgerInv, Idle, PhasesOK, RestOK, AtRest, HeightsAgree, TypeInv, TypeOK
  <2>2. Path[tip][h] \in Block /\ Path[tip][h] # Genesis
    BY <2>1, PathFacts
  <2> QED BY <2>1, <2>2 DEF UndoExact, Undoable
<1> QED BY <1>1, LedgerInvariant, PTL

-----------------------------------------------------------------------------
(* The phases, as the sections below need them. *)

\* A crash that leaves the checkpoint behind has cut off handlers.
CutOff ==
  /\ pc = "down" /\ checkpoint => "handlers" \in broken
  /\ pc = "recover" => "handlers" \in broken

\* What notify is about to tell the handlers.
Told ==
  pc = "notify" =>
    /\ target = tip /\ Height[tip] > 0
    /\ spent = Spent(UtxoAt[Parent[tip]], tip)

\* A rebuild adds to what both branches have.
Forked == pc = "rebuild" => fork < Height[target]

SideInv == LedgerInv /\ (LedgerUnbroken => CutOff /\ Told /\ Forked)

\* The phases in which the ledger is the tip's or the block's to be committed.
Steady == pc \in {"idle", "apply", "commit", "decide"}

\* The types and the phases' blocks.
LEMMA Facts ==
  ASSUME LedgerInv
  PROVE  /\ {tip, dbTip, target} \subseteq Block
         /\ LedgerUnbroken => height = Height[tip] /\ dbHeight = Height[dbTip]
         /\ {Height[tip], Height[target], Height[dbTip], pos, fork} \subseteq Nat
         /\ heightIdx \in [Heights -> Block \cup {None}]
         /\ txIdx \in [Tx -> Block \cup {None}]
         /\ utxo \subseteq Entry /\ registry \subseteq Outpoint
         /\ supply \in Nat /\ cumDiff \in Nat /\ regs \in Nat
         /\ Path[tip][Height[tip]] = tip /\ Path[target][Height[target]] = target
         /\ pc = "revert" => fork < pos /\ pos <= height
<1>1. /\ {tip, dbTip, target} \subseteq Block
      /\ LedgerUnbroken => height = Height[tip] /\ dbHeight = Height[dbTip]
      /\ {pos, fork} \subseteq Nat
      /\ heightIdx \in [Heights -> Block \cup {None}]
      /\ txIdx \in [Tx -> Block \cup {None}]
      /\ utxo \subseteq Entry /\ registry \subseteq Outpoint
      /\ supply \in Nat /\ cumDiff \in Nat /\ regs \in Nat
      /\ pc = "revert" => fork < pos /\ pos <= height
  BY HeightsClosed DEF LedgerInv, TypeInv, TypeOK, PhaseOK, HeightsAgree
<1>2. \A b \in Block : Height[b] \in Nat /\ Path[b][Height[b]] = b
  BY TreeAssumption, PathAssumption
<1> QED BY <1>1, <1>2

\* A reorg starts where the chain is: at the tip, or at the target's ancestor
\* when that is the tip.
LEMMA ReorgStarts ==
  ASSUME LedgerInv, LedgerUnbroken, LedgerInv', LedgerUnbroken', StartReorg
  PROVE  /\ pc = "decide" /\ pc' \in {"revert", "replay"}
         /\ UNCHANGED <<tip, height, target>>
         /\ pc' = "revert" => Path[tip][pos'] = tip
         /\ pc' = "replay" => Path[target][pos'] = tip
<1>1. /\ tip \in Block /\ height = Height[tip] /\ height \in Nat
      /\ Path[tip][height] = tip
  BY Facts
<1>2. /\ pc = "decide" /\ UNCHANGED <<tip, height, target>>
      /\ \/ pc' = "revert" /\ pos' = height
         \/ pc' = "replay" /\ pos' = fork' /\ ~ (fork' < height)
  BY DEF StartReorg, mem
<1>3. Shared'
  BY <1>2 DEF LedgerInv, PhasesOK, RevertOK, ReplayOK
<1>4. fork' \in 0 .. height /\ Path[target][fork'] = Path[tip][fork']
  BY <1>2, <1>3 DEF Shared
<1>5. ~ (fork' < height) => fork' = height
  BY <1>1, <1>4
<1> QED BY <1>1, <1>2, <1>4, <1>5

\* The block being reverted is the one at pos on the path to the tip.
LEMMA Reverting ==
  ASSUME LedgerInv, LedgerUnbroken, pc = "revert"
  PROVE  /\ OldBlock = Path[tip][pos] /\ OldBlock \in Block
         /\ Height[OldBlock] = pos /\ pos > 0 /\ pos \in 0 .. Height[tip]
         /\ Parent[OldBlock] = Path[tip][pos - 1]
         /\ Sound(OldBlock) /\ Sound(tip)
<1>1. pos \in 0 .. Height[tip] /\ pos > 0 /\ tip \in Block
  BY Facts
<1>2. IdxOn(tip) /\ Sound(tip)
  BY DEF LedgerInv, PhasesOK, RevertOK, SoundOK
<1>3. OldBlock = Path[tip][pos]
  BY <1>1, <1>2 DEF OldBlock, IdxOn
<1> QED BY <1>1, <1>2, <1>3, PathFacts, SoundPaths

\* The block to replay extends the one replayed last, whose ledger is the UTXO
\* set; one that passes validation extends a checked path.
LEMMA Replaying ==
  ASSUME LedgerInv, LedgerUnbroken, pc = "replay", pos < Height[target],
         ReplayValid(NewBlock)
  PROVE  /\ NewBlock = Path[target][pos + 1] /\ NewBlock \in Block
         /\ Height[NewBlock] = pos + 1 /\ pos + 1 > 0
         /\ pos + 1 \in 0 .. Height[target]
         /\ Parent[NewBlock] = Path[target][pos]
         /\ Sound(NewBlock)
<1>1. /\ pos \in Nat /\ target \in Block /\ Height[target] \in Nat
  BY Facts
<1>2. pos + 1 \in 0 .. Height[target] /\ pos + 1 > 0 /\ (pos + 1) - 1 = pos
      /\ pos \in 0 .. Height[target]
  BY <1>1
<1>3. /\ NewBlock = Path[target][pos + 1] /\ NewBlock \in Block
      /\ Height[NewBlock] = pos + 1 /\ Parent[NewBlock] = Path[target][pos]
      /\ Path[target][pos] \in Block /\ Height[Path[target][pos]] = pos
  BY <1>1, <1>2, PathFacts DEF NewBlock
<1>4. utxo = UtxoAt[Path[target][pos]] /\ SoundTo(target, pos)
  BY DEF LedgerInv, PhasesOK, ReplayOK, LedgerOf, SoundOK
<1>5. Sound(Path[target][pos])
  <2>1. \A g \in 0 .. pos : Path[Path[target][pos]][g] = Path[target][g]
    BY <1>1, <1>2, PathFacts
  <2> QED BY <1>3, <1>4, <2>1 DEF Sound, SoundTo
<1>6. Checked(NewBlock)
  BY <1>3, <1>4, PassedIsChecked DEF ReplayValid
<1> QED BY <1>2, <1>3, <1>5, <1>6, SoundPaths

LEMMA SideStep ==
  ASSUME SideInv, LedgerInv', Next, LedgerUnbroken'
  PROVE  CutOff' /\ Told' /\ Forked'
<1>1. LedgerUnbroken /\ PhasesOK /\ CutOff /\ Told /\ Forked
      /\ broken \subseteq broken'
  BY UnbrokenBefore, BrokenGrows DEF SideInv, LedgerInv
<1>2. CASE pc' = "down"
  <2>1. CASE Crash
    <3>1. pc \in {"idle", "apply", "commit", "decide", "boot"} => ~ checkpoint
      BY <1>1
         DEF PhasesOK, RestOK, ApplyOK, CommitOK, AtRest
    <3>2. pc \in {"notify", "revert", "replay"} => "handlers" \in broken'
      BY <2>1 DEF Crash
    <3>3. pc # "rebuild"
      BY <2>1 DEF Crash, LedgerUnbroken
    <3>4. pc # "down" /\ checkpoint' = checkpoint
      BY <2>1 DEF Crash
    <3>5. pc \in {"idle", "apply", "commit", "notify", "decide", "revert", "replay",
                  "rebuild", "down", "recover", "boot"}
      BY DEF SideInv, LedgerInv, TypeInv, TypeOK
    <3> QED BY <1>1, <1>2, <3>1, <3>2, <3>3, <3>4, <3>5 DEF CutOff, Told, Forked
  <2>2. CASE RecoverBlock
    BY <1>1, <1>2, <2>2 DEF RecoverBlock, CutOff, Told, Forked
  <2>3. CASE \E r \in BOOLEAN : Boot(r)
    BY <1>1, <1>2, <2>3 DEF Boot, CutOff, Told, Forked, PhasesOK, RestOK, AtRest, db
  <2> QED
    BY <1>2, <2>1, <2>2, <2>3, NotInRebuild
       DEF Next, Process, Accept, StoreFork, Running, StartUp, Apply, Commit, Notify,
           KeepCurrent, StartReorg, RevertBlock, ReplayBlock, ReplayFails,
           FinishReorg, StartRebuild, RebuildBlock, RebuildFails, FinishRebuild,
           Restart, FinishRecovery
<1>3. CASE pc' = "recover"
  <2>1. \/ Restart /\ checkpoint
        \/ RecoverBlock /\ pc = "recover"
    BY <1>3
       DEF Next, Process, Accept, StoreFork, Running, StartUp, Apply, Commit, Notify,
           KeepCurrent, StartReorg, RevertBlock, ReplayBlock, ReplayFails,
           FinishReorg, StartRebuild, RebuildBlock, RebuildFails, FinishRebuild,
           Restart, RecoverBlock, FinishRecovery, Boot, Crash, CrashInRebuild,
           CrashWhileIndexing, CrashWhileFinishing, MustRebuild
  <2>2. "handlers" \in broken
    BY <1>1, <2>1 DEF CutOff, Restart
  <2> QED BY <1>1, <1>3, <2>2 DEF CutOff, Told, Forked
<1>4. CASE pc' = "notify"
  <2>1. Commit
    BY <1>4
       DEF Next, Process, Accept, StoreFork, Running, StartUp, Apply, Commit, Notify,
           KeepCurrent, StartReorg, RevertBlock, ReplayBlock, ReplayFails,
           FinishReorg, StartRebuild, RebuildBlock, RebuildFails, FinishRebuild,
           Restart, RecoverBlock, FinishRecovery, Boot, Crash, CrashInRebuild,
           CrashWhileIndexing, CrashWhileFinishing
  <2>2. /\ Parent[target] = tip /\ Height[target] > 0
        /\ spent = Spent(UtxoAt[tip], target)
        /\ tip' = target /\ target' = target /\ spent' = spent
    BY <1>1, <2>1 DEF Commit, PhasesOK, CommitOK, Extending, call
  <2> QED BY <1>4, <2>2 DEF CutOff, Told, Forked, Spent
<1>5. CASE pc' = "rebuild"
  <2>1. \/ StartRebuild
        \/ RebuildBlock /\ pc = "rebuild"
    BY <1>5
       DEF Next, Process, Accept, StoreFork, Running, StartUp, Apply, Commit, Notify,
           KeepCurrent, StartReorg, RevertBlock, ReplayBlock, ReplayFails,
           FinishReorg, StartRebuild, RebuildBlock, RebuildFails, FinishRebuild,
           Restart, RecoverBlock, FinishRecovery, Boot, Crash, CrashInRebuild,
           CrashWhileIndexing, CrashWhileFinishing
  <2>2. /\ target' = target /\ fork' = fork
        /\ pc = "revert" \/ pc = "rebuild"
    BY <2>1 DEF StartRebuild, MissingUndo, RebuildBlock
  <2>3. fork < Height[target]
    BY <1>1, <2>2 DEF PhasesOK, RevertOK, Shared, Forked
  <2> QED BY <1>5, <2>2, <2>3 DEF CutOff, Told, Forked
<1>6. CASE pc' \notin {"down", "recover", "notify", "rebuild"}
  BY <1>6 DEF CutOff, Told, Forked
<1> QED BY <1>2, <1>3, <1>4, <1>5, <1>6

LEMMA SideInvariant == Spec => []SideInv
<1>1. Init => SideInv
  BY InitLedger DEF Init, SideInv, CutOff, Told, Forked
<1>2. SideInv /\ [Next]_vars => SideInv'
  <2> SUFFICES ASSUME SideInv, [Next]_vars PROVE SideInv'
    OBVIOUS
  <2>1. LedgerInv'
    BY NextLedger DEF SideInv
  <2>2. CASE Next
    BY <2>1, <2>2, SideStep DEF SideInv
  <2>3. CASE UNCHANGED vars
    <3>1. UNCHANGED <<pc, checkpoint, broken, target, fork, tip, spent>>
      BY <2>3 DEF vars, mem, call
    <3> QED BY <2>1, <3>1 DEF SideInv, CutOff, Told, Forked, LedgerUnbroken
  <2> QED BY <2>2, <2>3
<1> QED BY <1>1, <1>2, PTL DEF Spec

-----------------------------------------------------------------------------
(* The sub-chain registry. *)

RegisteredAt(b) == RegisteredIn(UtxoAt[b])
CountAt(b) == Cardinality(RegisteredAt(b))

\* Registrations stay: a checked block adds its own to its parent's, each new.
LEMMA RegisteredStep ==
  ASSUME NEW b \in Block, Height[b] > 0, Sound(b)
  PROVE  /\ RegisteredAt(b) = RegisteredAt(Parent[b]) \cup Registers(b)
         /\ RegisteredAt(Parent[b]) = RegisteredAt(b) \ Registers(b)
         /\ CountAt(b) = CountAt(Parent[b]) + Cardinality(Registers(b))
         /\ {CountAt(b), CountAt(Parent[b]), Cardinality(Registers(b))} \subseteq Nat
<1> DEFINE P == Parent[b]
<1>1. Checked(b) /\ P \in Block
  BY ParentPath, SoundPaths
<1>2. \A o \in Spends(b) : Kind[o] # "register"
  BY <1>1, RuleAssumption DEF Checked
<1>3. RegisteredAt(b) = RegisteredAt(P) \cup Registers(b)
  BY <1>2, OpsStep DEF RegisteredAt, RegisteredIn, Registers
<1>4. RegisteredAt(P) \cap Registers(b) = {}
  BY OneLife DEF RegisteredAt, RegisteredIn, Registers
<1>5. /\ IsFiniteSet(RegisteredAt(P)) /\ IsFiniteSet(Registers(b))
      /\ CountAt(P) \in Nat /\ Cardinality(Registers(b)) \in Nat
  <2>1. UtxoAt[P] \subseteq Entry
    BY <1>1, LedgerAssumption
  <2>2. RegisteredAt(P) \subseteq Outpoint /\ Registers(b) \subseteq Outpoint
    BY <2>1, SetTyped, EffectsTyped DEF RegisteredAt
  <2> QED BY <2>2, DataAssumption, FS_Subset, FS_CardinalityType DEF CountAt
<1>6. CountAt(b) = CountAt(P) + Cardinality(Registers(b))
  <2> HIDE DEF P
  <2>1. Cardinality(RegisteredAt(P) \cup Registers(b))
          = Cardinality(RegisteredAt(P)) + Cardinality(Registers(b))
              - Cardinality(RegisteredAt(P) \cap Registers(b))
    BY <1>5, FS_Union
  <2>2. Cardinality(RegisteredAt(P) \cap Registers(b)) = 0
    BY <1>4, FS_EmptySet
  <2> QED BY <1>3, <1>5, <2>1, <2>2 DEF CountAt
<1> QED BY <1>3, <1>4, <1>5, <1>6

\* Genesis registers nothing.
LEMMA RegisteredAtGenesis == RegisteredAt(Genesis) = {} /\ Registers(Genesis) = {}
BY OpsStep, RuleAssumption DEF RegisteredAt, RegisteredIn, Registers

\* Registrations only accumulate along a checked path.
LEMMA RegisteredGrows ==
  ASSUME NEW t \in Block, Sound(t), NEW g \in 0 .. Height[t], NEW h \in g .. Height[t]
  PROVE  RegisteredAt(Path[t][g]) \subseteq RegisteredAt(Path[t][h])
<1> DEFINE S == {k \in 0 .. Height[t] :
                   k >= g => RegisteredAt(Path[t][g]) \subseteq RegisteredAt(Path[t][k])}
<1>1. Height[t] \in Nat
  BY PathFacts
<1>2. 0 \in S
  BY <1>1
<1>3. ASSUME NEW k \in S, k < Height[t] PROVE k + 1 \in S
  <2>1. k + 1 \in 0 .. Height[t] /\ k + 1 > 0 /\ (k + 1) - 1 = k
    BY <1>1, <1>3
  <2>2. /\ Path[t][k + 1] \in Block /\ Height[Path[t][k + 1]] > 0
        /\ Parent[Path[t][k + 1]] = Path[t][k] /\ Sound(Path[t][k + 1])
    BY <2>1, PathFacts, SoundPaths
  <2>3. RegisteredAt(Path[t][k]) \subseteq RegisteredAt(Path[t][k + 1])
    BY <2>2, RegisteredStep
  <2>4. k + 1 >= g => k + 1 = g \/ k >= g
    BY <2>1
  <2> QED BY <2>1, <2>3, <2>4
<1>4. S = 0 .. Height[t]
  <2> HIDE DEF S
  <2>1. S \in SUBSET (0 .. Height[t])
    BY DEF S
  <2> QED BY <1>1, <1>2, <1>3, <2>1, BoundedInduction
<1>5. h \in 0 .. Height[t] /\ h >= g
  BY <1>1
<1> QED BY <1>4, <1>5

\* rebuildReorg deregisters the old branch in one go: what is left is what the
\* fork point had.
LEMMA DeregisterBranch ==
  ASSUME NEW t \in Block, Sound(t), NEW f \in 0 .. Height[t], NEW n \in f .. Height[t]
  PROVE  RegisteredAt(Path[t][n])
           \ UNION {Registers(Path[t][h]) : h \in f + 1 .. Height[t]}
         = RegisteredAt(Path[t][f])
<1> DEFINE gone == UNION {Registers(Path[t][h]) : h \in f + 1 .. Height[t]}
<1>1. Height[t] \in Nat /\ n \in 0 .. Height[t] /\ f \in 0 .. n
  BY PathFacts
<1>2. ASSUME NEW o \in RegisteredAt(Path[t][n]), o \notin gone
      PROVE  o \in RegisteredAt(Path[t][f])
  <2>1. o \in OpsOf(UtxoAt[Path[t][n]]) /\ Kind[o] = "register"
    BY DEF RegisteredAt, RegisteredIn
  <2>2. ~ \E j \in f + 1 .. n : o \in Creates(Path[t][j])
    BY <1>1, <1>2, <2>1 DEF Registers
  <2>3. o \in OpsOf(UtxoAt[Path[t][f]])
    BY <1>1, <2>1, <2>2, CreatedSince
  <2> QED BY <2>1, <2>3 DEF RegisteredAt, RegisteredIn
<1>3. ASSUME NEW o \in RegisteredAt(Path[t][f])
      PROVE  o \in RegisteredAt(Path[t][n]) /\ o \notin gone
  <2>1. o \in RegisteredAt(Path[t][n])
    BY RegisteredGrows
  <2>2. o \in OpsOf(UtxoAt[Path[t][f]])
    BY DEF RegisteredAt, RegisteredIn
  <2>3. PICK j \in 0 .. f : o \in Creates(Path[t][j])
    BY <2>2, CreatedSince
  <2>4. ASSUME NEW h \in f + 1 .. Height[t] PROVE o \notin Registers(Path[t][h])
    <3>1. j \in 0 .. Height[t] /\ h \in 0 .. Height[t] /\ j # h
      BY <1>1
    <3> QED BY <2>3, <3>1, CreatedOnce DEF Registers
  <2> QED BY <2>1, <2>4
<1> HIDE DEF gone
<1>4. RegisteredAt(Path[t][n]) \ gone = RegisteredAt(Path[t][f])
  BY <1>2, <1>3
<1> QED BY <1>4 DEF gone

\* The count of registrations and, until a crash cuts handlers off, the registry
\* are those of the block each phase has reached; a block about to join has room.
CountOK ==
  /\ Steady \/ pc \in {"notify", "boot"} => regs = CountAt(tip)
  /\ pc = "revert"  => regs = CountAt(Path[tip][pos])
  /\ pc = "replay"  => regs = CountAt(Path[target][pos])
  /\ pc = "rebuild" => regs = IF pos = 0 THEN 0 ELSE CountAt(Path[target][pos - 1])
  /\ pc = "recover" => regs = IF pos = 0 THEN 0 ELSE CountAt(Path[tip][pos - 1])

RegistryOK ==
  "handlers" \notin broken =>
    /\ Steady         => registry = RegisteredAt(tip)
    /\ pc = "notify"  => registry = RegisteredAt(Parent[tip])
    /\ pc = "revert"  => registry = RegisteredAt(Path[tip][pos])
    /\ pc = "replay"  => registry = RegisteredAt(Path[target][pos])
    /\ pc = "rebuild" => registry = RegisteredAt(Path[target][IF pos <= fork THEN fork
                                                              ELSE pos - 1])
    /\ pc \in {"down", "boot"} => registry = RegisteredAt(dbTip)

RoomOK ==
  pc \in {"apply", "commit", "notify"} /\ Registers(target) # {} =>
    CountAt(target) <= MaxSubChains

RegistryInv == SideInv /\ (LedgerUnbroken => CountOK /\ RegistryOK /\ RoomOK)

\* A block that validateBlockState passes finds room, and the handler adds it.
LEMMA RegistrationJoins ==
  ASSUME NEW b \in Block, Height[b] > 0, Sound(b)
  PROVE  /\ regs = CountAt(Parent[b]) /\ RegistrationsOK(b) /\ Registers(b) # {} =>
              CountAt(b) <= MaxSubChains
         /\ regs = CountAt(Parent[b]) => regs + Cardinality(Registers(b)) = CountAt(b)
         /\ (Registers(b) # {} => CountAt(b) <= MaxSubChains) =>
              HandleRegistration(RegisteredAt(Parent[b]), Registers(b)) = RegisteredAt(b)
<1>1. /\ RegisteredAt(b) = RegisteredAt(Parent[b]) \cup Registers(b)
      /\ CountAt(b) = CountAt(Parent[b]) + Cardinality(Registers(b))
  BY RegisteredStep
<1> QED BY <1>1 DEF RegistrationsOK, HandleRegistration, CountAt

LEMMA RegistryStep ==
  ASSUME RegistryInv, SideInv', Next, LedgerUnbroken'
  PROVE  CountOK' /\ RegistryOK' /\ RoomOK'
<1>1. /\ LedgerUnbroken /\ CountOK /\ RegistryOK /\ RoomOK /\ PhasesOK /\ SoundOK
      /\ CutOff /\ Told /\ Forked /\ LedgerInv /\ broken \subseteq broken'
  BY UnbrokenBefore, BrokenGrows DEF RegistryInv, SideInv, LedgerInv
<1>2. /\ LedgerInv' /\ PhasesOK' /\ SoundOK' /\ CutOff' /\ Told'
  BY DEF SideInv, LedgerInv
<1>3. /\ tip \in Block /\ dbTip \in Block /\ target \in Block
      /\ pos \in Nat /\ fork \in Nat /\ height = Height[tip]
      /\ Height[tip] \in Nat /\ Height[target] \in Nat
  BY <1>1, Facts
<1> DEFINE Goal == CountOK' /\ RegistryOK' /\ RoomOK'
<1>4. ASSUME NEW b \in Block, Accept(b) PROVE Goal
  <2>1. /\ pc = "idle" /\ pc' = "apply" /\ target' = b /\ RegistrationsOK(b)
        /\ Parent[b] = tip /\ Height[b] = height + 1 /\ ValidateBlockState(b)
        /\ UNCHANGED <<tip, regs, registry, broken>>
    BY <1>4 DEF Accept, ValidateBlockState, mem
  <2>2. Height[b] > 0 /\ utxo = UtxoAt[Parent[b]] /\ Sound(tip)
    BY <1>1, <1>3, <2>1 DEF PhasesOK, RestOK, AtRest, LedgerOf, SoundOK
  <2>3. Sound(b)
    BY <2>1, <2>2, PassedIsChecked, SoundPaths
  <2> QED
    BY <1>1, <2>1, <2>2, <2>3, RegistrationJoins
       DEF CountOK, RegistryOK, RoomOK, Steady
<1>5. CASE Apply
  BY <1>1, <1>5 DEF Apply, CountOK, RegistryOK, RoomOK, Steady, mem
<1>6. CASE Commit
  <2>1. /\ pc = "commit" /\ pc' = "notify" /\ tip' = target /\ target' = target
        /\ Parent[target] = tip /\ Height[target] > 0 /\ Checked(target)
        /\ regs' = regs + Cardinality(Registers(target))
        /\ UNCHANGED <<registry, broken>>
    BY <1>1, <1>6 DEF Commit, PhasesOK, CommitOK, Extending, SoundOK, call
  <2>2. Sound(target)
    BY <1>1, <1>3, <2>1, SoundPaths DEF SoundOK
  <2> QED
    BY <1>1, <1>3, <2>1, <2>2, RegistrationJoins
       DEF CountOK, RegistryOK, RoomOK, Steady, CountAt, RegisteredAt
<1>7. CASE Notify
  <2>1. /\ pc = "notify" /\ pc' = "idle" /\ target = tip /\ Height[tip] > 0
        /\ registry' = HandleRegistration(registry, Registers(tip))
        /\ UNCHANGED <<tip, regs, broken>>
    BY <1>1, <1>7 DEF Notify, JoinHandlers, Told, mem
  <2> QED
    BY <1>1, <1>3, <2>1, RegistrationJoins
       DEF CountOK, RegistryOK, RoomOK, Steady, SoundOK, CountAt, RegisteredAt
<1>8. CASE KeepCurrent \/ \E b \in Block : StoreFork(b)
  <2>1. /\ pc \in {"idle", "decide"} /\ pc' \in {"idle", "decide"}
        /\ UNCHANGED <<tip, regs, registry, broken>>
    BY <1>8 DEF KeepCurrent, StoreFork, mem
  <2> QED
    BY <1>1, <2>1 DEF CountOK, RegistryOK, RoomOK, Steady, CountAt, RegisteredAt
<1>9. CASE StartReorg
  <2>1. UNCHANGED <<regs, registry>> /\ ("handlers" \in broken => "handlers" \in broken')
    BY <1>9 DEF StartReorg, mem
  <2> QED
    BY <1>1, <1>2, <1>9, <2>1, ReorgStarts
       DEF CountOK, RegistryOK, RoomOK, Steady, CountAt, RegisteredAt
<1>10. CASE RevertBlock
  <2>1. /\ pc = "revert" /\ OldBlock = Path[tip][pos] /\ OldBlock \in Block
        /\ Height[OldBlock] > 0 /\ Parent[OldBlock] = Path[tip][pos - 1]
        /\ Sound(OldBlock)
    BY <1>1, <1>10, Reverting DEF RevertBlock
  <2>2. /\ registry' = registry \ Registers(OldBlock)
        /\ regs' = regs - Cardinality(Registers(OldBlock)) /\ pos' = pos - 1
        /\ pc' \in {"revert", "replay"}
        /\ pc' = "replay" => pos' = fork
        /\ UNCHANGED <<tip, target, fork, broken>>
    BY <1>10 DEF RevertBlock, LeaveHandlers, LedgerUnbroken
  <2>3. /\ CountAt(Path[tip][pos - 1]) = regs'
        /\ "handlers" \notin broken => registry' = RegisteredAt(Path[tip][pos - 1])
    BY <1>1, <2>1, <2>2, RegisteredStep DEF CountOK, RegistryOK
  <2>4. pc' = "replay" => Path[target][fork] = Path[tip][fork]
    BY <1>1, <2>1 DEF PhasesOK, RevertOK, Shared
  <2> QED
    BY <2>2, <2>3, <2>4 DEF CountOK, RegistryOK, RoomOK, Steady, CountAt, RegisteredAt
<1>11. CASE ReplayBlock
  <2>1. /\ pc = "replay" /\ pos < Height[target] /\ ReplayValid(NewBlock)
    BY <1>11 DEF ReplayBlock
  <2>2. /\ NewBlock = Path[target][pos + 1] /\ NewBlock \in Block
        /\ Height[NewBlock] > 0 /\ Parent[NewBlock] = Path[target][pos]
        /\ Sound(NewBlock)
    BY <1>1, <2>1, Replaying
  <2>3. /\ registry' = HandleRegistration(registry, Registers(NewBlock))
        /\ regs' = regs + Cardinality(Registers(NewBlock)) /\ pos' = pos + 1
        /\ UNCHANGED <<tip, pc, target, fork, broken>>
    BY <1>11 DEF ReplayBlock, JoinHandlers
  <2>4. RegistrationsOK(NewBlock) /\ regs = CountAt(Parent[NewBlock])
    BY <1>1, <2>1, <2>2 DEF ReplayValid, ValidateBlockState, CountOK
  <2> QED
    BY <1>1, <2>1, <2>2, <2>3, <2>4, RegistrationJoins
       DEF CountOK, RegistryOK, RoomOK, Steady, CountAt, RegisteredAt
<1>12. CASE FinishReorg
  <2>1. /\ pc = "replay" /\ pos = Height[target] /\ pc' = "idle" /\ tip' = target
        /\ UNCHANGED <<regs, registry, broken>>
    BY <1>12 DEF FinishReorg, ReplayDone
  <2>2. Path[target][pos] = target
    BY <1>3, <2>1, PathFacts
  <2> QED
    BY <1>1, <2>1, <2>2 DEF CountOK, RegistryOK, RoomOK, Steady, CountAt, RegisteredAt
<1>13. CASE StartRebuild
  <2>1. /\ pc = "revert" /\ pc' = "rebuild" /\ pos' = 0 /\ regs' = 0
        /\ registry' = registry \ UNION {Registers(b) : b \in OldBlocks}
        /\ broken' = broken \cup {"rebuilt"}
        /\ UNCHANGED <<tip, target, fork>>
    BY <1>13 DEF StartRebuild, MissingUndo, DeregisterOldBlocks
  <2>2. /\ IdxOn(tip) /\ Sound(tip) /\ fork \in 0 .. Height[tip]
        /\ Path[target][fork] = Path[tip][fork] /\ pos \in fork .. Height[tip]
    BY <1>1, <1>3, <2>1, Facts DEF PhasesOK, RevertOK, Shared, SoundOK
  <2>3. OldBlocks = {Path[tip][h] : h \in fork + 1 .. Height[tip]}
    <3>1. \A h \in fork + 1 .. Height[tip] :
            heightIdx[h] = Path[tip][h] /\ Path[tip][h] # None
      <4>1. \A h \in 0 .. Height[tip] : Path[tip][h] \in Block
        BY <1>3, PathFacts
      <4> QED BY <1>3, <2>2, <4>1, TreeAssumption DEF IdxOn
    <3> QED BY <1>3, <3>1 DEF OldBlocks
  <2>4. "handlers" \notin broken => registry' = RegisteredAt(Path[tip][fork])
    <3> DEFINE gone == UNION {Registers(Path[tip][h]) : h \in fork + 1 .. Height[tip]}
    <3>1. UNION {Registers(b) : b \in OldBlocks} = gone
      BY <2>3
    <3>2. RegisteredAt(Path[tip][pos]) \ gone = RegisteredAt(Path[tip][fork])
      BY <1>3, <2>2, DeregisterBranch
    <3> HIDE DEF gone
    <3> QED BY <1>1, <2>1, <3>1, <3>2 DEF RegistryOK
  <2> QED
    BY <1>3, <2>1, <2>2, <2>4 DEF CountOK, RegistryOK, RoomOK, Steady, RegisteredAt
<1>14. CASE RebuildBlock
  <2> DEFINE b == heightIdx[pos]
  <2>1. /\ pc = "rebuild" /\ pc' = "rebuild" /\ pos' = pos + 1 /\ RebuildOK(b)
        /\ pos <= Height[target] /\ regs' = regs + Cardinality(Registers(b))
        /\ "handlers" \in broken' => "handlers" \in broken
        /\ IF pos > fork THEN registry' = HandleRegistration(registry, Registers(b))
           ELSE registry' = registry
        /\ UNCHANGED <<tip, target, fork>>
    BY <1>14 DEF RebuildBlock, ReapplyBlock, JoinHandlers
  <2>2. pos \in 0 .. Height[target] /\ (pos + 1) - 1 = pos
    BY <1>3, <2>1
  <2>3. /\ b = Path[target][pos] /\ b \in Block /\ Height[b] = pos
        /\ pos > 0 => Parent[b] = Path[target][pos - 1]
    BY <1>1, <1>3, <2>1, <2>2, PathFacts DEF PhasesOK, RebuildPhaseOK, IdxOn
  <2>4. Sound(b)
    <3>1. SoundTo(target, pos)
      BY <1>2, <2>1, <2>2 DEF SoundOK, SoundTo
    <3>2. \A g \in 0 .. pos : Path[b][g] = Path[target][g]
      BY <1>3, <2>2, <2>3, PathFacts
    <3> QED BY <2>3, <3>1, <3>2 DEF Sound, SoundTo
  <2> HIDE DEF b
  <2>5. CASE pos = 0
    <3>1. b = Genesis /\ regs = 0
      BY <1>1, <1>3, <2>1, <2>3, <2>5, PathFacts DEF CountOK
    <3>2. Registers(b) = {} /\ CountAt(b) = 0 /\ Cardinality({}) = 0
      BY <3>1, RegisteredAtGenesis, FS_EmptySet DEF CountAt
    <3>3. regs' = CountAt(b) /\ registry' = registry
      BY <1>3, <2>1, <2>5, <3>1, <3>2
    <3> QED
      BY <1>1, <1>3, <2>1, <2>2, <2>3, <2>5, <3>3
         DEF CountOK, RegistryOK, RoomOK, Steady, RegisteredAt, CountAt
  <2>6. CASE pos > 0
    <3>1. regs = CountAt(Parent[b])
      BY <1>1, <2>1, <2>3, <2>6 DEF CountOK
    <3>2. regs' = CountAt(b)
      BY <2>1, <2>3, <2>4, <2>6, <3>1, RegistrationJoins
    <3>3. pos > fork => /\ RegistrationsOK(b)
                        /\ "handlers" \notin broken => registry = RegisteredAt(Parent[b])
      <4>1. pos > fork => (IF pos <= fork THEN fork ELSE pos - 1) = pos - 1
        BY <1>3
      <4> QED
        BY <1>1, <2>1, <2>3, <2>6, <4>1
           DEF RebuildOK, ReplayValid, ValidateBlockState, RegistryOK
    <3>4. pos > fork /\ "handlers" \notin broken => registry' = RegisteredAt(b)
      BY <2>1, <2>3, <2>4, <2>6, <3>1, <3>3, RegistrationJoins
    <3>5. /\ pos > fork => (IF pos' <= fork' THEN fork' ELSE pos' - 1) = pos
          /\ ~ (pos > fork) => /\ (IF pos <= fork THEN fork ELSE pos - 1) = fork
                               /\ (IF pos' <= fork' THEN fork' ELSE pos' - 1) = fork
      BY <1>3, <2>1
    <3>6. "handlers" \notin broken' =>
            registry' = RegisteredAt(Path[target][IF pos' <= fork' THEN fork'
                                                 ELSE pos' - 1])
      BY <1>1, <2>1, <2>3, <3>4, <3>5 DEF RegistryOK
    <3> QED
      BY <1>3, <2>1, <2>2, <2>3, <3>2, <3>6
         DEF CountOK, RegistryOK, RoomOK, Steady, RegisteredAt, CountAt
  <2> QED BY <1>3, <2>5, <2>6
<1>15. CASE FinishRebuild
  <2>1. /\ pc = "rebuild" /\ pos > Height[target] /\ pc' = "idle" /\ tip' = target
        /\ UNCHANGED <<regs, registry, broken>>
    BY <1>15 DEF FinishRebuild, Rebuilt
  <2>2. pos = Height[target] + 1 /\ pos # 0 /\ Path[target][pos - 1] = target
    <3>1. pos = Height[target] + 1
      BY <1>1, <1>3, <2>1 DEF PhasesOK, RebuildPhaseOK
    <3>2. Path[target][Height[target]] = target
      BY <1>1, Facts
    <3> QED BY <1>3, <3>1, <3>2
  <2>3. "handlers" \notin broken => registry = RegisteredAt(target)
    <3>1. (IF pos <= fork THEN fork ELSE pos - 1) = pos - 1
      BY <1>1, <1>3, <2>1, <2>2 DEF Forked
    <3> QED BY <1>1, <2>1, <2>2, <3>1 DEF RegistryOK
  <2> QED
    BY <1>1, <2>1, <2>2, <2>3
       DEF CountOK, RegistryOK, RoomOK, Steady, RegisteredAt, CountAt
<1>16. CASE Crash
  <2>1. pc' = "down" /\ UNCHANGED <<registry, dbTip>> /\ pc # "down"
    BY <1>16 DEF Crash, db
  <2>2. pc \in {"notify", "revert", "replay"} => "handlers" \in broken'
    BY <1>16 DEF Crash
  <2>3. pc # "rebuild" /\ pc # "commit"
    BY <1>16 DEF Crash, LedgerUnbroken
  <2>4. pc \in {"idle", "apply", "decide", "boot"} => dbTip = tip
    BY <1>1 DEF PhasesOK, RestOK, ApplyOK, AtRest, DbOf
  <2>5. pc \in {"idle", "apply", "commit", "notify", "decide", "revert", "replay",
                "rebuild", "down", "recover", "boot"}
    BY <1>1 DEF LedgerInv, TypeInv, TypeOK
  <2>6. "handlers" \notin broken' => registry' = RegisteredAt(dbTip)
    BY <1>1, <2>1, <2>2, <2>3, <2>4, <2>5 DEF RegistryOK, Steady, CutOff
  <2> QED
    BY <2>1, <2>6 DEF CountOK, RegistryOK, RoomOK, Steady, RegisteredAt
<1>17. CASE Restart
  <2>1. pc = "down" /\ UNCHANGED <<registry, broken, dbTip>> /\ tip' = dbTip
        /\ \/ checkpoint /\ regs' = 0 /\ pos' = 0 /\ pc' = "recover"
           \/ ~ checkpoint /\ regs' = CountRegistered /\ pc' = "boot"
    BY <1>17 DEF Restart, MustRebuild, db
  <2>2. ~ checkpoint => utxo = UtxoAt[dbTip]
    BY <1>1, <2>1 DEF PhasesOK, DownOK
  <2> QED
    BY <1>1, <2>1, <2>2
       DEF CountOK, RegistryOK, RoomOK, Steady, RegisteredAt, CountAt, CountRegistered
<1>18. CASE RecoverBlock
  <2> DEFINE b == heightIdx[pos]
  <2>1. /\ pc = "recover" /\ pos <= height /\ "handlers" \in broken'
        /\ UNCHANGED <<tip>>
        /\ \/ pc' = "recover" /\ ReapplyBlock(b)
           \/ pc' = "down"
    BY <1>1, <1>18 DEF RecoverBlock, CutOff
  <2>2. /\ b = Path[tip][pos] /\ b \in Block /\ Height[b] = pos /\ Sound(b)
        /\ pos > 0 => Parent[b] = Path[tip][pos - 1]
        /\ (pos + 1) - 1 = pos
    BY <1>1, <1>3, <2>1, PathFacts, SoundPaths
       DEF PhasesOK, RecoverOK, IdxOn, SoundOK
  <2> HIDE DEF b
  <2>3. CASE pc' = "recover" /\ ReapplyBlock(b)
    <3>1. regs' = regs + Cardinality(Registers(b)) /\ pos' = pos + 1
      BY <2>3 DEF ReapplyBlock
    <3>2. regs' = CountAt(b)
      <4>1. CASE pos = 0
        <5>1. b = Genesis /\ regs = 0
          BY <1>1, <1>3, <2>1, <2>2, <4>1, PathFacts DEF CountOK
        <5> QED BY <3>1, <5>1, RegisteredAtGenesis, FS_EmptySet DEF CountAt
      <4>2. CASE pos > 0
        BY <1>1, <1>3, <2>1, <2>2, <3>1, <4>2, RegistrationJoins DEF CountOK
      <4> QED BY <1>3, <4>1, <4>2
    <3> QED
      BY <1>3, <2>1, <2>2, <2>3, <3>1, <3>2
         DEF CountOK, RegistryOK, RoomOK, Steady, CountAt, RegisteredAt
  <2> QED BY <2>1, <2>3 DEF CountOK, RegistryOK, RoomOK, Steady
<1>19. CASE FinishRecovery
  <2>1. /\ pc = "recover" /\ pos > height /\ pc' = "boot" /\ "handlers" \in broken'
        /\ UNCHANGED <<tip, regs>>
    BY <1>1, <1>19 DEF FinishRecovery, CutOff
  <2>2. pos = Height[tip] + 1 /\ pos # 0 /\ Path[tip][pos - 1] = tip
    <3>1. pos = Height[tip] + 1
      BY <1>1, <1>3, <2>1 DEF PhasesOK, RecoverOK
    <3>2. Path[tip][Height[tip]] = tip
      BY <1>1, Facts
    <3> QED BY <1>3, <3>1, <3>2
  <2> QED
    BY <1>1, <2>1, <2>2 DEF CountOK, RegistryOK, RoomOK, Steady, CountAt, RegisteredAt
<1>20. CASE \E r \in BOOLEAN : Boot(r)
  <2>1. /\ pc = "boot" /\ pc' \in {"idle", "down"} /\ dbTip = tip
        /\ UNCHANGED <<tip, dbTip, regs, registry, broken>>
    BY <1>1, <1>20 DEF Boot, PhasesOK, RestOK, AtRest, DbOf, db, mem
  <2> QED
    BY <1>1, <2>1 DEF CountOK, RegistryOK, RoomOK, Steady, CountAt, RegisteredAt
<1>21. CASE ReplayFails \/ RebuildFails
  BY <1>21 DEF ReplayFails, RebuildFails, LedgerUnbroken
<1> QED
  BY <1>4, <1>5, <1>6, <1>7, <1>8, <1>9, <1>10, <1>11, <1>12, <1>13, <1>14, <1>15,
     <1>16, <1>17, <1>18, <1>19, <1>20, <1>21, NotInRebuild
     DEF Next, Process, Running, StartUp

LEMMA RegistryInvariant == Spec => []RegistryInv
<1>1. Init => RegistryInv
  <2> SUFFICES ASSUME Init PROVE RegistryInv
    OBVIOUS
  <2>1. SideInv
    BY InitLedger DEF Init, SideInv, CutOff, Told, Forked
  <2> QED
    BY <2>1
       DEF Init, RegistryInv, CountOK, RegistryOK, RoomOK, Steady, CountAt, RegisteredAt
<1>2. RegistryInv /\ SideInv' /\ [Next]_vars => RegistryInv'
  <2> SUFFICES ASSUME RegistryInv, SideInv', [Next]_vars PROVE RegistryInv'
    OBVIOUS
  <2>1. CASE Next
    BY <2>1, RegistryStep DEF RegistryInv
  <2>2. CASE UNCHANGED vars
    <3>1. UNCHANGED <<pc, broken, target, tip, dbTip, pos, fork, regs, registry>>
      BY <2>2 DEF vars, mem, call, db
    <3> QED
      BY <3>1
         DEF RegistryInv, CountOK, RegistryOK, RoomOK, Steady, LedgerUnbroken, CountAt,
             RegisteredAt
  <2> QED BY <2>1, <2>2
<1> QED BY <1>1, <1>2, SideInvariant, PTL DEF Spec

\* manager.go, registry.go, processor.go: whatever reorgs, rebuilds and restarts
\* went before, the count that bounds registrations is that of the active chain,
\* and so is the registry until a crash cuts the handlers off.
THEOREM RegistryCorrect == Spec => []RegistryMatchesChain
<1>1. RegistryInv => RegistryMatchesChain
  BY DEF RegistryInv, SideInv, LedgerInv, PhasesOK, RestOK, AtRest, LedgerOf, CountOK,
         RegistryOK, Steady, RegistryMatchesChain, Idle, CountAt, RegisteredAt
<1> QED BY <1>1, RegistryInvariant, PTL

-----------------------------------------------------------------------------
(* The validator set. *)

ValidatorsAt(b) == GenesisValidators \cup StakedBy(OpsOf(UtxoAt[b]))

\* hasStake asks the UTXO set what stakedBy reads off its outpoints.
LEMMA HasStakeIsStakedBy ==
  ASSUME NEW U, NEW v
  PROVE  HasStake(U, v) <=> v \in StakedBy(OpsOf(U))
BY DEF HasStake, StakedBy, OpsOf

\* Genesis stakes nothing.
LEMMA NoGenesisStakes == StakedBy(OpsOf(UtxoAt[Genesis])) = {}
BY OpsStep, RuleAssumption DEF StakedBy

\* The handlers of a block that joins make its stakes the validators', and those
\* of a block that leaves its parent's: a key that still has another stake stays
\* when one is withdrawn, and comes back with the revert when none was left.
LEMMA StakesFollow ==
  ASSUME NEW b \in Block, Height[b] > 0
  PROVE  LET P == Parent[b]
             S == Spent(UtxoAt[P], b)
         IN /\ Unstake(Restake(ValidatorsAt(P), StakedBy(Creates(b))),
                       StakedBy(OpsOf(S)), UtxoAt[b]) = ValidatorsAt(b)
            /\ Restake(Unstake(ValidatorsAt(b), StakedBy(Creates(b)), UtxoAt[P]),
                       StakedBy(OpsOf(S))) = ValidatorsAt(P)
<1> DEFINE P == Parent[b]
           S == Spent(UtxoAt[P], b)
           old == StakedBy(OpsOf(UtxoAt[P]))
           now == StakedBy(OpsOf(UtxoAt[b]))
           made == StakedBy(Creates(b))
           gone == StakedBy(OpsOf(S))
<1>1. OpsOf(UtxoAt[b]) = (OpsOf(UtxoAt[P]) \ Spends(b)) \cup Creates(b)
  BY OpsStep
<1>2. OpsOf(S) = OpsOf(UtxoAt[P]) \cap Spends(b)
  BY DEF Spent, OpsOf
<1>3. /\ gone \subseteq old /\ made \subseteq now
      /\ old \subseteq now \cup gone /\ now \subseteq old \cup made
  BY <1>1, <1>2 DEF StakedBy
<1>4. /\ \A v : HasStake(UtxoAt[b], v) <=> v \in now
      /\ \A v : HasStake(UtxoAt[P], v) <=> v \in old
  BY HasStakeIsStakedBy
<1>5. Unstake(Restake(ValidatorsAt(P), made), gone, UtxoAt[b]) = ValidatorsAt(b)
  <2> HIDE DEF old, now, made, gone, S
  <2>1. ValidatorsAt(P) = GenesisValidators \cup old
        /\ ValidatorsAt(b) = GenesisValidators \cup now
    BY DEF ValidatorsAt, old, now
  <2> QED BY <1>3, <1>4, <2>1 DEF Unstake, Restake
<1>6. Restake(Unstake(ValidatorsAt(b), made, UtxoAt[P]), gone) = ValidatorsAt(P)
  <2> HIDE DEF old, now, made, gone, S
  <2>1. ValidatorsAt(P) = GenesisValidators \cup old
        /\ ValidatorsAt(b) = GenesisValidators \cup now
    BY DEF ValidatorsAt, old, now
  <2> QED BY <1>3, <1>4, <2>1 DEF Unstake, Restake
<1> QED BY <1>5, <1>6

\* The validators are the stakes of the block each phase has reached.
StakesOK ==
  /\ Steady         => validators = ValidatorsAt(tip)
  /\ pc = "notify"  => validators = ValidatorsAt(Parent[tip])
  /\ pc = "revert"  => validators = ValidatorsAt(Path[tip][pos])
  /\ pc = "replay"  => validators = ValidatorsAt(Path[target][pos])
  /\ pc \in {"recover", "boot"} => validators = GenesisValidators
  /\ pc # "rebuild"

StakesInv == SideInv /\ (LedgerUnbroken /\ "rebuilt" \notin broken => StakesOK)

LEMMA StakesStep ==
  ASSUME StakesInv, SideInv', Next, LedgerUnbroken', "rebuilt" \notin broken'
  PROVE  StakesOK'
<1>1. /\ LedgerUnbroken /\ StakesOK /\ PhasesOK /\ SoundOK
      /\ Told /\ LedgerInv
  BY UnbrokenBefore, BrokenGrows DEF StakesInv, SideInv, LedgerInv
<1>2. LedgerInv' /\ PhasesOK' /\ Told'
  BY DEF SideInv, LedgerInv
<1>3. /\ tip \in Block /\ target \in Block
      /\ pos \in Nat /\ fork \in Nat /\ height = Height[tip]
      /\ Height[tip] \in Nat /\ Height[target] \in Nat
  BY <1>1, Facts
<1> USE DEF StakesOK, Steady, ValidatorsAt
<1>4. CASE \E b \in Block : Process(b)
  <2>1. /\ pc = "idle" /\ pc' \in {"idle", "apply", "decide"}
        /\ UNCHANGED <<tip, validators>>
    BY <1>4 DEF Process, Accept, StoreFork, mem
  <2> QED BY <1>1, <2>1
<1>5. CASE Apply \/ KeepCurrent
  <2>1. Steady /\ pc' \in {"idle", "commit"} /\ UNCHANGED <<tip, validators>>
    BY <1>5 DEF Apply, KeepCurrent, mem
  <2> QED BY <1>1, <2>1
<1>6. CASE Commit
  <2>1. /\ pc = "commit" /\ pc' = "notify" /\ tip' = target /\ Parent[target] = tip
        /\ UNCHANGED validators
    BY <1>1, <1>6 DEF Commit, PhasesOK, CommitOK, Extending
  <2> QED BY <1>1, <2>1
<1>7. CASE Notify
  <2>1. /\ pc = "notify" /\ pc' = "idle" /\ target = tip /\ Height[tip] > 0
        /\ spent = Spent(UtxoAt[Parent[tip]], tip) /\ utxo = UtxoAt[tip]
        /\ validators' = Unstake(Restake(validators, StakedBy(Creates(tip))),
                                 StakedBy(OpsOf(spent)), utxo)
        /\ UNCHANGED tip
    BY <1>1, <1>7
       DEF Notify, JoinHandlers, Told, PhasesOK, RestOK, AtRest, LedgerOf, mem
  <2>2. validators = ValidatorsAt(Parent[tip])
    BY <1>1, <2>1
  <2> HIDE DEF ValidatorsAt
  <2>3. validators' = ValidatorsAt(tip)
    BY <1>3, <2>1, <2>2, StakesFollow
  <2> QED BY <2>1, <2>3 DEF ValidatorsAt
<1>8. CASE StartReorg
  <2>1. UNCHANGED validators
    BY <1>8 DEF StartReorg
  <2> QED BY <1>1, <1>2, <1>8, <2>1, ReorgStarts
<1>9. CASE RevertBlock
  <2> DEFINE b == OldBlock
  <2>1. /\ pc = "revert" /\ b = Path[tip][pos] /\ b \in Block
        /\ Height[b] > 0 /\ Parent[b] = Path[tip][pos - 1] /\ Sound(b)
    BY <1>1, <1>9, Reverting DEF RevertBlock
  <2>2. undo[b] = UndoOf(b) /\ utxo = UtxoAt[b]
    <3>1. undo[b] # NoUndo /\ b # Genesis
      BY <1>9, <2>1, ParentPath DEF RevertBlock
    <3> QED BY <1>1, <2>1, <3>1 DEF PhasesOK, RevertOK, LedgerOf, UndoExact
  <2> HIDE DEF b
  <2>3. /\ utxo' = UtxoAt[Parent[b]]
        /\ undo[b].spent = Spent(UtxoAt[Parent[b]], b)
    BY <1>9, <2>1, <2>2, RevertUndoes DEF RevertBlock, UndoOf, b
  <2>4. /\ validators' = Restake(Unstake(validators, StakedBy(Creates(b)), utxo'),
                                 StakedBy(OpsOf(undo[b].spent)))
        /\ pos' = pos - 1
        /\ pc' \in {"revert", "replay"}
        /\ pc' = "replay" => pos' = fork
        /\ UNCHANGED <<tip, target>>
    BY <1>9 DEF RevertBlock, LeaveHandlers, LedgerUnbroken, b
  <2>5. validators' = ValidatorsAt(Path[tip][pos - 1])
    <3>1. validators = ValidatorsAt(b)
      BY <1>1, <2>1
    <3> HIDE DEF ValidatorsAt
    <3> QED BY <2>1, <2>3, <2>4, <3>1, StakesFollow
  <2>6. pc' = "replay" => Path[target][fork] = Path[tip][fork]
    BY <1>1, <2>1 DEF PhasesOK, RevertOK, Shared
  <2> QED BY <2>4, <2>5, <2>6
<1>10. CASE ReplayBlock
  <2> DEFINE b == NewBlock
  <2>1. /\ pc = "replay" /\ pos < Height[target] /\ ReplayValid(b)
    BY <1>10 DEF ReplayBlock
  <2>2. /\ b = Path[target][pos + 1] /\ b \in Block /\ Height[b] > 0
        /\ Parent[b] = Path[target][pos]
    BY <1>1, <2>1, Replaying
  <2> HIDE DEF b
  <2>3. utxo = UtxoAt[Parent[b]]
    BY <1>1, <2>1, <2>2 DEF PhasesOK, ReplayOK, LedgerOf
  <2>4. utxo' = UtxoAt[b]
    BY <1>10, <2>2, <2>3, LedgerStep DEF ReplayBlock, b
  <2>5. /\ validators' = Unstake(Restake(validators, StakedBy(Creates(b))),
                                 StakedBy(OpsOf(Spent(utxo, b))), utxo')
        /\ pos' = pos + 1 /\ UNCHANGED <<pc, tip, target>>
    BY <1>10 DEF ReplayBlock, JoinHandlers, b
  <2>6. validators' = ValidatorsAt(b)
    <3>1. validators = ValidatorsAt(Parent[b])
      BY <1>1, <2>1, <2>2
    <3> HIDE DEF ValidatorsAt
    <3> QED BY <2>2, <2>3, <2>4, <2>5, <3>1, StakesFollow
  <2> QED BY <2>1, <2>2, <2>5, <2>6
<1>11. CASE FinishReorg
  <2>1. /\ pc = "replay" /\ pos = Height[target] /\ pc' = "idle" /\ tip' = target
        /\ UNCHANGED validators
    BY <1>11 DEF FinishReorg, ReplayDone
  <2>2. Path[target][pos] = target
    BY <1>3, <2>1, PathFacts
  <2> QED BY <1>1, <2>1, <2>2
<1>12. CASE Crash \/ RecoverBlock \/ FinishRecovery
  <2>1. \/ pc' = "down"
        \/ pc = "recover" /\ pc' \in {"recover", "boot"} /\ UNCHANGED validators
    BY <1>12 DEF Crash, RecoverBlock, FinishRecovery
  <2> QED BY <1>1, <2>1
<1>13. CASE Restart
  <2>1. validators' = GenesisValidators /\ pc' \in {"recover", "boot"}
    BY <1>13 DEF Restart
  <2> QED BY <2>1
<1>14. CASE \E r \in BOOLEAN : Boot(r)
  <2>1. /\ pc = "boot" /\ pc' \in {"idle", "down"} /\ UNCHANGED tip
        /\ validators' = validators \cup RecoveredStakes
    BY <1>14 DEF Boot, mem
  <2>2. utxo = UtxoAt[tip] /\ validators = GenesisValidators
    BY <1>1, <2>1 DEF PhasesOK, RestOK, AtRest, LedgerOf
  <2>3. RecoveredStakes = StakedBy(OpsOf(UtxoAt[tip]))
    <3>1. height > 0 \/ tip = Genesis
      BY <1>3, TreeAssumption
    <3> QED BY <2>2, <3>1, NoGenesisStakes DEF RecoveredStakes
  <2> QED BY <2>1, <2>2, <2>3
<1>15. CASE StartRebuild \/ RebuildBlock \/ FinishRebuild
  <2>1. "rebuilt" \in broken' \/ pc = "rebuild"
    BY <1>15 DEF StartRebuild, RebuildBlock, FinishRebuild, Rebuilt
  <2> QED BY <1>1, <2>1
<1>16. CASE ReplayFails \/ RebuildFails
  BY <1>16 DEF ReplayFails, RebuildFails, LedgerUnbroken
<1> QED
  BY <1>4, <1>5, <1>6, <1>7, <1>8, <1>9, <1>10, <1>11, <1>12, <1>13, <1>14, <1>15,
     <1>16, NotInRebuild DEF Next, Running, StartUp

LEMMA StakesInvariant == Spec => []StakesInv
<1>1. Init => StakesInv
  <2> SUFFICES ASSUME Init PROVE StakesInv
    OBVIOUS
  <2>1. SideInv
    BY InitLedger DEF Init, SideInv, CutOff, Told, Forked
  <2> QED
    BY <2>1 DEF Init, StakesInv, StakesOK, Steady, ValidatorsAt
<1>2. StakesInv /\ SideInv' /\ [Next]_vars => StakesInv'
  <2> SUFFICES ASSUME StakesInv, SideInv', [Next]_vars PROVE StakesInv'
    OBVIOUS
  <2>1. CASE Next
    BY <2>1, StakesStep DEF StakesInv
  <2>2. CASE UNCHANGED vars
    <3>1. UNCHANGED <<pc, broken, target, tip, pos, validators>>
      BY <2>2 DEF vars, mem, call
    <3> QED
      BY <3>1 DEF StakesInv, StakesOK, Steady, LedgerUnbroken, ValidatorsAt
  <2> QED BY <2>1, <2>2
<1> QED BY <1>1, <1>2, SideInvariant, PTL DEF Spec

\* poa.go, node.go: the set that elects slots and bounds signing is the genesis
\* validators and those with a stake on the active chain, through reverts, replays
\* and restarts, as long as no rebuild ran.
THEOREM ValidatorsCorrect == Spec => []ValidatorsMatchStakes
<1>1. StakesInv => ValidatorsMatchStakes
  BY DEF StakesInv, SideInv, LedgerInv, PhasesOK, RestOK, AtRest, LedgerOf, StakesOK,
         Steady, ValidatorsMatchStakes, Idle, ValidatorsAt
<1> QED BY <1>1, StakesInvariant, PTL

-----------------------------------------------------------------------------
(* The transaction index. *)

\* idx finds the transactions of the first n blocks above genesis on the path to
\* t, and no others.
Finds(idx, t, n) ==
  \A x \in Tx :
    /\ \A h \in 0 .. n : x \in TxSet(Path[t][h]) => idx[x] = Path[t][h]
    /\ (\A h \in 0 .. n : x \notin TxSet(Path[t][h])) => idx[x] = None

\* The index of a path is that of any other that shares its first n blocks.
LEMMA FindsShared ==
  ASSUME NEW t, NEW u, NEW n, \A h \in 0 .. n : Path[t][h] = Path[u][h]
  PROVE  \A idx : Finds(idx, t, n) <=> Finds(idx, u, n)
BY DEF Finds

\* Indexing one more block of a checked path, and unindexing the last one: no
\* transaction of it is on the path below.
LEMMA IndexFollows ==
  ASSUME NEW t \in Block, NEW n \in 0 .. Height[t], n > 0, Sound(Path[t][n]), NEW idx
  PROVE  /\ Finds(idx, t, n - 1) => Finds(IndexTxs(idx, Path[t][n]), t, n)
         /\ Finds(idx, t, n) => Finds(UnindexTxs(idx, Path[t][n]), t, n - 1)
<1> DEFINE b == Path[t][n]
<1>1. /\ Height[t] \in Nat /\ b \in Block /\ Height[b] = n
      /\ \A g \in 0 .. n : Path[b][g] = Path[t][g]
  BY PathFacts
<1>2. \A h \in 0 .. n - 1 : TxSet(Path[t][h]) \cap TxSet(b) = {}
  <2>1. ASSUME NEW h \in 0 .. n - 1 PROVE TxSet(Path[t][h]) \cap TxSet(b) = {}
    <3>1. h \in 0 .. n /\ n \in 0 .. n /\ h < n
      BY <1>1
    <3>2. TxSet(Path[b][h]) \cap TxSet(Path[b][n]) = {}
      BY <1>1, <3>1, OncePerPath
    <3> QED BY <1>1, <3>1, <3>2
  <2> QED BY <2>1
<1>3. 0 .. n = (0 .. n - 1) \cup {n} /\ n \notin 0 .. n - 1
  BY <1>1
<1>4. ASSUME Finds(idx, t, n - 1) PROVE Finds(IndexTxs(idx, b), t, n)
  <2> SUFFICES ASSUME NEW x \in Tx
      PROVE  /\ \A h \in 0 .. n : x \in TxSet(Path[t][h]) => IndexTxs(idx, b)[x] = Path[t][h]
             /\ (\A h \in 0 .. n : x \notin TxSet(Path[t][h])) => IndexTxs(idx, b)[x] = None
    BY DEF Finds
  <2>1. IndexTxs(idx, b)[x] = IF x \in TxSet(b) THEN b ELSE idx[x]
    BY DEF IndexTxs
  <2>2. /\ \A h \in 0 .. n - 1 : x \in TxSet(Path[t][h]) => idx[x] = Path[t][h]
        /\ (\A h \in 0 .. n - 1 : x \notin TxSet(Path[t][h])) => idx[x] = None
    BY <1>4 DEF Finds
  <2> QED BY <1>2, <1>3, <2>1, <2>2
<1>5. ASSUME Finds(idx, t, n) PROVE Finds(UnindexTxs(idx, b), t, n - 1)
  <2> SUFFICES ASSUME NEW x \in Tx
      PROVE  /\ \A h \in 0 .. n - 1 : x \in TxSet(Path[t][h]) =>
                  UnindexTxs(idx, b)[x] = Path[t][h]
             /\ (\A h \in 0 .. n - 1 : x \notin TxSet(Path[t][h])) =>
                  UnindexTxs(idx, b)[x] = None
    BY DEF Finds
  <2>1. UnindexTxs(idx, b)[x] = IF x \in TxSet(b) THEN None ELSE idx[x]
    BY DEF UnindexTxs
  <2>2. /\ \A h \in 0 .. n : x \in TxSet(Path[t][h]) => idx[x] = Path[t][h]
        /\ (\A h \in 0 .. n : x \notin TxSet(Path[t][h])) => idx[x] = None
    BY <1>5 DEF Finds
  <2> QED BY <1>2, <1>3, <2>1, <2>2
<1> QED BY <1>4, <1>5

\* On a checked path the blocks of a transaction are at most one.
LEMMA OneBlock ==
  ASSUME NEW t \in Block, Sound(t), NEW x, NEW h \in 0 .. Height[t],
         x \in TxSet(Path[t][h])
  PROVE  {g \in 0 .. Height[t] : x \in TxSet(Path[t][g])} = {h}
<1>1. ASSUME NEW g \in 0 .. Height[t], x \in TxSet(Path[t][g]) PROVE g = h
  <2>1. g < h \/ h < g \/ g = h
    BY PathFacts
  <2> QED BY <1>1, <2>1, OncePerPath
<1> QED BY <1>1

LEMMA MaxSingle == \A n \in Nat : Max({n}) = n
<1> SUFFICES ASSUME NEW n \in Nat PROVE Max({n}) = n
  OBVIOUS
<1>1. IsFiniteSet({n}) /\ {n} \in SUBSET Nat /\ {n} # {}
  BY FS_Singleton
<1> QED BY <1>1, MaxIsGreatest

\* As long as nothing went wrong, the index is that of the block each phase has
\* reached.
TxIndexOK ==
  /\ Steady \/ pc \in {"notify", "boot"} => Finds(txIdx, tip, Height[tip])
  /\ pc = "revert"  => Finds(txIdx, tip, pos)
  /\ pc = "replay"  => Finds(txIdx, target, pos)
  /\ pc = "down"    => Finds(txIdx, dbTip, Height[dbTip])
  /\ pc \notin {"rebuild", "recover"}

TxIndexInv == SideInv /\ (broken = {} => TxIndexOK)

LEMMA TxIndexStep ==
  ASSUME TxIndexInv, SideInv', Next, broken' = {}
  PROVE  TxIndexOK'
<1>1. /\ broken = {} /\ TxIndexOK /\ LedgerUnbroken /\ LedgerUnbroken' /\ LedgerInv
      /\ PhasesOK /\ SoundOK /\ CutOff
  <2>1. broken = {} /\ LedgerUnbroken /\ LedgerUnbroken'
    BY BrokenGrows DEF LedgerUnbroken
  <2> QED BY <2>1 DEF TxIndexInv, SideInv, LedgerInv
<1>2. LedgerInv' /\ PhasesOK'
  BY <1>1 DEF SideInv, LedgerInv
<1>3. /\ tip \in Block /\ target \in Block /\ dbTip \in Block
      /\ pos \in Nat /\ fork \in Nat /\ height = Height[tip]
      /\ Height[tip] \in Nat /\ Height[target] \in Nat
  BY <1>1, Facts
<1> USE DEF TxIndexOK, Steady
<1>4. CASE \E b \in Block : Process(b)
  <2>1. /\ pc = "idle" /\ pc' \in {"idle", "apply", "decide"}
        /\ UNCHANGED <<tip, txIdx>>
    BY <1>4 DEF Process, Accept, StoreFork, mem, store
  <2> QED BY <1>1, <2>1
<1>5. CASE Apply \/ KeepCurrent \/ Notify
  <2>1. /\ Steady \/ pc = "notify"
        /\ pc' \in {"idle", "commit"} /\ UNCHANGED <<tip, txIdx>>
    BY <1>5 DEF Apply, KeepCurrent, Notify, mem, store
  <2> QED BY <1>1, <2>1
<1>6. CASE Commit
  <2>1. /\ pc = "commit" /\ pc' = "notify" /\ tip' = target
        /\ txIdx' = IndexTxs(txIdx, target)
        /\ Parent[target] = tip /\ Height[target] > 0 /\ Checked(target)
    BY <1>1, <1>6 DEF Commit, CommitBatch, PhasesOK, CommitOK, Extending, SoundOK
  <2>2. /\ Height[target] = Height[tip] + 1 /\ Path[target][Height[target]] = target
        /\ \A g \in 0 .. Height[tip] : Path[target][g] = Path[tip][g]
    BY <1>3, <2>1, ParentPath, PathFacts
  <2>3. Sound(target)
    BY <1>1, <1>3, <2>1, SoundPaths DEF SoundOK
  <2>4. Finds(txIdx, target, Height[target] - 1)
    <3>1. Height[target] - 1 = Height[tip]
      BY <1>3, <2>2
    <3> QED BY <1>1, <2>1, <2>2, <3>1, FindsShared
  <2>5. Finds(IndexTxs(txIdx, target), target, Height[target])
    <3>1. /\ Height[target] \in 0 .. Height[target]
          /\ Sound(Path[target][Height[target]])
      BY <1>3, <2>2, <2>3
    <3>2. Finds(IndexTxs(txIdx, Path[target][Height[target]]), target, Height[target])
      BY <1>3, <2>1, <2>4, <3>1, IndexFollows
    <3> QED BY <2>2, <3>2
  <2> QED BY <2>1, <2>5
<1>7. CASE StartReorg
  <2>1. UNCHANGED txIdx
    BY <1>7 DEF StartReorg, store
  <2>2. /\ pc = "decide" /\ pc' \in {"revert", "replay"} /\ UNCHANGED <<tip, target>>
        /\ pc' = "revert" => Path[tip][pos'] = tip
        /\ pc' = "replay" => Path[target][pos'] = tip
    BY <1>1, <1>2, <1>7, ReorgStarts
  <2>3. pc' = "revert" => pos' = Height[tip]
    BY <1>3, <1>7, <2>2 DEF StartReorg
  <2>4. ASSUME pc' = "replay" PROVE Finds(txIdx, target, pos')
    <3>1. pos' \in 0 .. Height[target]
      <4>1. ReplayOK' /\ Shared'
        BY <1>2, <2>4 DEF PhasesOK, ReplayOK
      <4> QED BY <1>3, <2>2, <2>4, <4>1 DEF ReplayOK, Shared
    <3>2. Height[tip] = pos' /\ \A h \in 0 .. pos' : Path[tip][h] = Path[target][h]
      BY <1>3, <2>2, <2>4, <3>1, PathFacts
    <3> QED BY <1>1, <2>2, <3>2, FindsShared
  <2> QED BY <1>1, <2>1, <2>2, <2>3, <2>4
<1>8. CASE RevertBlock
  <2>1. /\ pc = "revert" /\ OldBlock = Path[tip][pos] /\ pos > 0
        /\ Sound(OldBlock) /\ pos \in 0 .. Height[tip]
    BY <1>1, <1>8, Reverting DEF RevertBlock
  <2>2. /\ txIdx' = UnindexTxs(txIdx, OldBlock) /\ pos' = pos - 1
        /\ pc' \in {"revert", "replay"}
        /\ pc' = "replay" => pos' = fork
        /\ UNCHANGED <<tip, target>>
    BY <1>1, <1>8 DEF RevertBlock, LedgerUnbroken
  <2>3. Finds(txIdx', tip, pos - 1)
    BY <1>1, <1>3, <2>1, <2>2, IndexFollows
  <2>4. ASSUME pc' = "replay" PROVE Finds(txIdx', target, fork)
    <3>1. /\ Path[target][fork] = Path[tip][fork]
          /\ fork \in 0 .. Height[target] /\ fork \in 0 .. Height[tip]
      BY <1>1, <1>3, <2>1 DEF PhasesOK, RevertOK, Shared
    <3>2. \A h \in 0 .. fork : Path[Path[tip][fork]][h] = Path[tip][h]
      BY <1>3, <3>1, PathFacts
    <3>3. \A h \in 0 .. fork : Path[Path[target][fork]][h] = Path[target][h]
      BY <1>3, <3>1, PathFacts
    <3>4. \A h \in 0 .. fork : Path[tip][h] = Path[target][h]
      BY <3>1, <3>2, <3>3
    <3> QED BY <2>2, <2>3, <2>4, <3>4, FindsShared
  <2> QED BY <2>2, <2>3, <2>4
<1>9. CASE ReplayBlock
  <2>1. /\ pc = "replay" /\ pos < Height[target] /\ ReplayValid(NewBlock)
    BY <1>9 DEF ReplayBlock
  <2>2. /\ NewBlock = Path[target][pos + 1] /\ pos + 1 > 0 /\ Sound(NewBlock)
        /\ pos + 1 \in 0 .. Height[target]
    BY <1>1, <2>1, Replaying
  <2>3. /\ txIdx' = IndexTxs(txIdx, NewBlock) /\ pos' = pos + 1
        /\ UNCHANGED <<pc, target>>
    BY <1>9 DEF ReplayBlock, CommitBatch
  <2>4. (pos + 1) - 1 = pos /\ Finds(txIdx, target, pos)
    BY <1>1, <1>3, <2>1
  <2>5. Finds(IndexTxs(txIdx, NewBlock), target, pos + 1)
    BY <1>3, <2>2, <2>4, IndexFollows
  <2> QED BY <2>1, <2>3, <2>5
<1>10. CASE FinishReorg
  <2>1. /\ pc = "replay" /\ pos = Height[target] /\ pc' = "idle" /\ tip' = target
        /\ UNCHANGED txIdx
    BY <1>10 DEF FinishReorg, ReplayDone, store
  <2> QED BY <1>1, <2>1
<1>11. CASE Crash
  <2>1. pc' = "down" /\ UNCHANGED <<txIdx, dbTip>> /\ pc # "down"
    BY <1>11 DEF Crash, db, store
  <2>2. pc \notin {"commit", "notify", "revert", "replay", "rebuild"}
    BY <1>1, <1>11 DEF Crash
  <2>3. pc \in {"idle", "apply", "decide", "boot"} => dbTip = tip
    BY <1>1 DEF PhasesOK, RestOK, ApplyOK, AtRest, DbOf
  <2>4. pc \in {"idle", "apply", "commit", "notify", "decide", "revert", "replay",
                "rebuild", "down", "recover", "boot"}
    BY <1>1 DEF LedgerInv, TypeInv, TypeOK
  <2> QED BY <1>1, <2>1, <2>2, <2>3, <2>4
<1>12. CASE Restart
  <2>1. pc = "down" /\ UNCHANGED txIdx /\ tip' = dbTip
        /\ (checkpoint \/ pc' = "boot")
    BY <1>12 DEF Restart, MustRebuild, store
  <2> QED BY <1>1, <2>1 DEF CutOff
<1>13. CASE \E r \in BOOLEAN : Boot(r)
  <2>1. PICK r \in BOOLEAN : Boot(r)
    BY <1>13
  <2>2. /\ pc = "boot" /\ pc' \in {"idle", "down"} /\ UNCHANGED <<tip, dbTip>>
        /\ dbTip = tip /\ dbHeight = Height[tip] /\ Sound(tip)
        /\ Finds(txIdx, tip, Height[tip])
    BY <1>1, <2>1
       DEF Boot, PhasesOK, RestOK, AtRest, DbOf, SoundOK, LedgerInv, HeightsAgree,
           db, mem
  <2>3. Finds(txIdx', tip, Height[tip])
    <3>1. CASE UNCHANGED txIdx
      BY <2>2, <3>1
    <3> DEFINE at(x) == {h \in 0 .. Height[tip] : x \in TxSet(Path[tip][h])}
    <3>2. CASE txIdx' = [x \in Tx |-> IF at(x) = {} THEN txIdx[x]
                                      ELSE Path[tip][Max(at(x))]]
      <4> SUFFICES ASSUME NEW x \in Tx
          PROVE  /\ \A h \in 0 .. Height[tip] :
                      x \in TxSet(Path[tip][h]) => txIdx'[x] = Path[tip][h]
                 /\ (\A h \in 0 .. Height[tip] : x \notin TxSet(Path[tip][h])) =>
                      txIdx'[x] = None
        BY DEF Finds
      <4>1. txIdx'[x] = IF at(x) = {} THEN txIdx[x] ELSE Path[tip][Max(at(x))]
        BY <3>2
      <4>2. ASSUME NEW h \in 0 .. Height[tip], x \in TxSet(Path[tip][h])
            PROVE  at(x) = {h} /\ Max(at(x)) = h
        <5>1. at(x) = {h}
          BY <1>3, <2>2, <4>2, OneBlock
        <5> HIDE DEF at
        <5> QED BY <5>1, MaxSingle
      <4>3. (\A h \in 0 .. Height[tip] : x \notin TxSet(Path[tip][h])) => txIdx[x] = None
        BY <2>2 DEF Finds
      <4> QED BY <4>1, <4>2, <4>3
    <3>3. \/ UNCHANGED txIdx
          \/ txIdx' = [x \in Tx |-> IF at(x) = {} THEN txIdx[x]
                                    ELSE Path[tip][Max(at(x))]]
      BY <2>1, <2>2 DEF Boot
    <3> HIDE DEF at
    <3> QED BY <3>1, <3>2, <3>3
  <2> QED BY <2>2, <2>3
<1>14. CASE StartRebuild \/ RebuildBlock \/ FinishRebuild \/ RecoverBlock
            \/ FinishRecovery \/ ReplayFails \/ RebuildFails
  BY <1>1, <1>14
     DEF StartRebuild, RebuildBlock, FinishRebuild, Rebuilt, RecoverBlock,
         FinishRecovery, ReplayFails, RebuildFails
<1> QED
  BY <1>1, <1>4, <1>5, <1>6, <1>7, <1>8, <1>9, <1>10, <1>11, <1>12, <1>13, <1>14,
     NotInRebuild DEF Next, Running, StartUp

LEMMA TxIndexInvariant == Spec => []TxIndexInv
<1>1. Init => TxIndexInv
  <2> SUFFICES ASSUME Init PROVE TxIndexInv
    OBVIOUS
  <2>1. SideInv
    BY InitLedger DEF Init, SideInv, CutOff, Told, Forked
  <2>2. StartTip \in Block /\ Sound(StartTip)
    BY DataAssumption, RuleAssumption
  <2>3. Finds(txIdx, StartTip, Height[StartTip])
    <3> SUFFICES ASSUME NEW x \in Tx
        PROVE  /\ \A h \in 0 .. Height[StartTip] :
                    x \in TxSet(Path[StartTip][h]) => txIdx[x] = Path[StartTip][h]
               /\ (\A h \in 0 .. Height[StartTip] : x \notin TxSet(Path[StartTip][h])) =>
                    txIdx[x] = None
      BY DEF Finds
    <3>1. txIdx[x] = IF OnPath(x) = {} THEN None ELSE CHOOSE b \in OnPath(x) : TRUE
      BY DEF Init
    <3>2. ASSUME NEW h \in 0 .. Height[StartTip], x \in TxSet(Path[StartTip][h])
          PROVE  OnPath(x) = {Path[StartTip][h]}
      BY <2>2, <3>2, OneBlock DEF OnPath
    <3>3. (\A h \in 0 .. Height[StartTip] : x \notin TxSet(Path[StartTip][h])) =>
            OnPath(x) = {}
      BY DEF OnPath
    <3> QED BY <3>1, <3>2, <3>3
  <2> QED BY <2>1, <2>3 DEF Init, TxIndexInv, TxIndexOK, Steady
<1>2. TxIndexInv /\ SideInv' /\ [Next]_vars => TxIndexInv'
  <2> SUFFICES ASSUME TxIndexInv, SideInv', [Next]_vars PROVE TxIndexInv'
    OBVIOUS
  <2>1. CASE Next
    BY <2>1, TxIndexStep DEF TxIndexInv
  <2>2. CASE UNCHANGED vars
    <3>1. UNCHANGED <<pc, broken, target, tip, dbTip, pos, txIdx>>
      BY <2>2 DEF vars, mem, call, db, store
    <3> QED BY <3>1 DEF TxIndexInv, TxIndexOK, Steady, Finds
  <2> QED BY <2>1, <2>2
<1> QED BY <1>1, <1>2, SideInvariant, PTL DEF Spec

\* store.go, reorg.go: a lookup by transaction hash answers with the one block of
\* the active chain that holds it, and with nothing for one that was reverted.
THEOREM TxIndexCorrect == Spec => []TxIndexMatchesChain
<1>1. TxIndexInv => TxIndexMatchesChain
  <2> SUFFICES ASSUME TxIndexInv, Idle, broken = {}, NEW x \in Tx
      PROVE  LET at == {h \in 0 .. height : x \in TxSet(Path[tip][h])}
             IN txIdx[x] = IF at = {} THEN None ELSE Path[tip][Max(at)]
    BY DEF TxIndexMatchesChain
  <2> DEFINE at == {h \in 0 .. height : x \in TxSet(Path[tip][h])}
  <2>1. /\ tip \in Block /\ height = Height[tip] /\ Sound(tip)
        /\ Finds(txIdx, tip, height)
    <3>1. LedgerUnbroken
      BY DEF LedgerUnbroken
    <3> QED
      BY <3>1, Facts DEF TxIndexInv, SideInv, TxIndexOK, Steady, Idle, LedgerInv, SoundOK
  <2>2. CASE at = {}
    BY <2>1, <2>2 DEF Finds
  <2>3. CASE at # {}
    <3>1. PICK h \in 0 .. height : x \in TxSet(Path[tip][h])
      BY <2>3
    <3>2. at = {h} /\ txIdx[x] = Path[tip][h]
      BY <2>1, <3>1, OneBlock DEF Finds
    <3>3. Max(at) = h
      <4>1. h \in Nat
        BY <2>1, TreeAssumption
      <4> HIDE DEF at
      <4> QED BY <3>2, <4>1, MaxSingle
    <3> QED BY <2>3, <3>2, <3>3
  <2> QED BY <2>2, <2>3
<1> QED BY <1>1, TxIndexInvariant, PTL

-----------------------------------------------------------------------------
(* Recovery, after no accident or one that left tip, height and index together. *)

KeepsRules(t) == \A h \in 1 .. Height[t] : Path[t][h] \in RuleOK

\* What RebuildUTXOs has done so far, if the index leads to the tip.
Recovering ==
  pc = "recover" =>
    /\ dbTip = tip /\ pos \in 0 .. height + 1
    /\ Recoverable =>
         /\ Prefix(tip, pos, utxo, accSupply, accCumDiff)
         /\ \A h \in 1 .. pos - 1 : undo[Path[tip][h]] # NoUndo
         /\ KeepsRules(tip) =>
              /\ SoundTo(tip, pos - 1)
              /\ regs = IF pos = 0 THEN 0 ELSE CountAt(Path[tip][pos - 1])

RecoverInv == LedgerInv /\ Recovering

LEMMA RecoverStep ==
  ASSUME RecoverInv, LedgerInv', Next
  PROVE  Recovering'
<1>1. /\ Recovering /\ tip \in Block /\ pos \in Nat
      /\ height \in Nat /\ Height[tip] \in Nat
      /\ undo \in [Block -> [spent : SUBSET Entry, reward : Nat] \cup {NoUndo}]
  BY Facts, HeightsClosed DEF RecoverInv, LedgerInv, TypeInv, TypeOK
<1>2. CASE Restart
  <2>1. /\ tip' = dbTip /\ dbTip' = dbTip
        /\ pc' = "recover" => /\ pos' = 0 /\ utxo' = {} /\ accSupply' = 0
                              /\ accCumDiff' = 0 /\ regs' = 0
    BY <1>2 DEF Restart, ClearAll, db
  <2>2. height' \in Nat
    BY HeightsClosed DEF LedgerInv, TypeInv, TypeOK
  <2> QED BY <2>1, <2>2 DEF Recovering, Prefix, SoundTo
<1>3. CASE RecoverBlock
  <2> DEFINE b == heightIdx[pos]
  <2> SUFFICES ASSUME pc' = "recover" PROVE Recovering'
    BY DEF Recovering
  <2>1. /\ pc = "recover" /\ pos <= height /\ Applicable(b) /\ ReapplyBlock(b)
        /\ accSupply' = accSupply + Minted[b]
        /\ UNCHANGED <<heightIdx, dbTip, tip, height>>
    BY <1>3 DEF RecoverBlock, db
  <2>2. /\ utxo' = Applied(utxo, b, Size(b))
        /\ undo' = [undo EXCEPT ![b] = [spent |-> Spent(utxo, b), reward |-> Minted[b]]]
        /\ accCumDiff' = accCumDiff + Difficulty[b]
        /\ regs' = regs + Cardinality(Registers(b))
        /\ pos' = pos + 1
    BY <2>1 DEF ReapplyBlock, WithUndo
  <2>3. dbTip' = tip' /\ pos' \in 0 .. height' + 1
    BY <1>1, <2>1, <2>2 DEF Recovering
  <2>4. ASSUME Recoverable
        PROVE  /\ Prefix(tip, pos, utxo, accSupply, accCumDiff)'
               /\ \A h \in 1 .. pos : undo'[Path[tip][h]] # NoUndo
               /\ KeepsRules(tip) =>
                    SoundTo(tip, pos) /\ regs' = CountAt(Path[tip][pos])
    <3>1. /\ b = Path[tip][pos] /\ b \in Block /\ Height[b] = pos
          /\ pos = 0 => b = Genesis
          /\ pos > 0 => Parent[b] = Path[tip][pos - 1]
          /\ pos \in 0 .. Height[tip] /\ (pos + 1) - 1 = pos
          /\ \A g \in 0 .. pos : Path[b][g] = Path[tip][g]
      BY <1>1, <2>1, <2>4, PathFacts DEF Recoverable
    <3>2. /\ Prefix(tip, pos, utxo, accSupply, accCumDiff)
          /\ \A h \in 1 .. pos - 1 : undo[Path[tip][h]] # NoUndo
          /\ KeepsRules(tip) =>
               /\ SoundTo(tip, pos - 1)
               /\ regs = IF pos = 0 THEN 0 ELSE CountAt(Path[tip][pos - 1])
      BY <1>1, <2>1, <2>4 DEF Recovering
    <3>3. Spends(b) \subseteq OpsOf(utxo)
      BY <2>1 DEF Applicable
    <3>4. Minted[b] \in Nat /\ Difficulty[b] \in Nat
      BY <3>1, DataAssumption
    <3> HIDE DEF b
    <3>5. CASE pos = 0
      <4>1. /\ b = Genesis /\ utxo = {} /\ accSupply = 0 /\ accCumDiff = 0
            /\ pos + 1 # 0
        BY <3>1, <3>2, <3>5 DEF Prefix
      <4>2. utxo' = UtxoAt[b] /\ accSupply' = SupplyAt[b] /\ accCumDiff' = WorkAt[b]
        BY <2>1, <2>2, <3>4, <4>1, LedgerAssumption DEF b
      <4>3. Prefix(tip, pos, utxo, accSupply, accCumDiff)'
        BY <2>1, <2>2, <3>1, <3>5, <4>1, <4>2 DEF Prefix, LedgerOf
      <4>4. KeepsRules(tip) => regs' = CountAt(Path[tip][pos])
        <5>1. regs' = regs + Cardinality(Registers(b))
          BY <2>2 DEF b
        <5>2. Cardinality(Registers(b)) = 0 /\ CountAt(b) = 0
          BY <4>1, RegisteredAtGenesis, FS_EmptySet DEF CountAt
        <5> QED BY <3>1, <3>2, <3>5, <5>1, <5>2
      <4>5. SoundTo(tip, pos)
        BY <3>5 DEF SoundTo
      <4> QED BY <3>5, <4>3, <4>4, <4>5
    <3>6. CASE pos > 0
      <4>1. /\ utxo = UtxoAt[Parent[b]] /\ accSupply = SupplyAt[Parent[b]]
            /\ accCumDiff = WorkAt[Parent[b]] /\ Height[b] > 0 /\ pos + 1 # 0
        BY <1>1, <3>1, <3>2, <3>6 DEF Prefix, LedgerOf
      <4>2. utxo' = UtxoAt[b] /\ accSupply' = SupplyAt[b] /\ accCumDiff' = WorkAt[b]
        BY <2>1, <2>2, <3>1, <4>1, LedgerStep DEF b
      <4>3. Prefix(tip, pos, utxo, accSupply, accCumDiff)'
        BY <2>1, <2>2, <3>1, <4>1, <4>2 DEF Prefix, LedgerOf
      <4>4. \A h \in 1 .. pos : undo'[Path[tip][h]] # NoUndo
        <5>1. ASSUME NEW h \in 1 .. pos PROVE undo'[Path[tip][h]] # NoUndo
          <6>1. Path[tip][h] \in Block /\ (h = pos \/ h \in 1 .. pos - 1)
                /\ (Path[tip][h] = b <=> h = pos)
            BY <1>1, <3>1, PathFacts
          <6>2. [spent |-> Spent(utxo, b), reward |-> Minted[b]] # NoUndo
            BY <3>4 DEF NoUndo
          <6> QED BY <1>1, <2>2, <3>1, <3>2, <6>1, <6>2 DEF b
        <5> QED BY <5>1
      <4>5. ASSUME KeepsRules(tip)
            PROVE  SoundTo(tip, pos) /\ regs' = CountAt(Path[tip][pos])
        <5>1. Checked(b)
          BY <1>1, <3>1, <3>3, <3>6, <4>1, <4>5 DEF Checked, KeepsRules
        <5>2. SoundTo(tip, pos)
          BY <1>1, <3>1, <3>2, <4>5, <5>1 DEF SoundTo
        <5>3. Sound(b)
          BY <3>1, <5>2 DEF Sound, SoundTo
        <5>4. regs' = CountAt(b)
          BY <2>2, <3>1, <3>2, <3>6, <4>1, <4>5, <5>3, RegistrationJoins DEF b
        <5> QED BY <3>1, <5>2, <5>4
      <4> QED BY <4>3, <4>4, <4>5
    <3> QED BY <1>1, <3>5, <3>6
  <2>5. /\ Recoverable' <=> Recoverable
        /\ pos' - 1 = pos /\ pos' # 0
    BY <1>1, <2>1, <2>2 DEF Recoverable
  <2>6. tip' = tip
    BY <2>1
  <2> QED BY <2>3, <2>4, <2>5, <2>6 DEF Recovering, SoundTo, CountAt, RegisteredAt
<1>4. pc' = "recover" => Restart \/ RecoverBlock
  BY DEF Next, Process, Accept, StoreFork, Running, StartUp, Apply, Commit, Notify,
         KeepCurrent, StartReorg, RevertBlock, ReplayBlock, ReplayFails,
         FinishReorg, StartRebuild, RebuildBlock, RebuildFails, FinishRebuild,
         FinishRecovery, Boot, Crash, CrashInRebuild,
         CrashWhileIndexing, CrashWhileFinishing
<1> QED BY <1>2, <1>3, <1>4 DEF Recovering

LEMMA RecoverInvariant == Spec => []RecoverInv
<1>1. Init => RecoverInv
  BY InitLedger DEF Init, RecoverInv, Recovering
<1>2. RecoverInv /\ [Next]_vars => RecoverInv'
  <2> SUFFICES ASSUME RecoverInv, [Next]_vars PROVE RecoverInv'
    OBVIOUS
  <2>1. LedgerInv'
    BY NextLedger DEF RecoverInv
  <2>2. CASE Next
    BY <2>1, <2>2, RecoverStep DEF RecoverInv
  <2>3. CASE UNCHANGED vars
    <3>1. UNCHANGED <<pc, tip, dbTip, pos, height, heightIdx, utxo, accSupply,
                      accCumDiff, undo, regs>>
      BY <2>3 DEF vars, mem, call, db, store, acc
    <3> QED
      BY <2>1, <3>1
         DEF RecoverInv, Recovering, Recoverable, Prefix, LedgerOf, SoundTo, CountAt,
             RegisteredAt
  <2> QED BY <2>2, <2>3
<1> QED BY <1>1, <1>2, PTL DEF Spec

\* chain.go, reorg.go: RebuildUTXOs ends with the ledger of the tip and an undo
\* record for every block above genesis: always when no accident happened, and after
\* any accident that left the persisted tip, its height and the height index together.
THEOREM RecoveryCorrect == Spec => RecoveryRestoresLedger
<1> DEFINE A == /\ pc = "recover" /\ pc' = "boot"
                /\ LedgerUnbroken \/ Recoverable
                => /\ utxo' = UtxoAt[tip'] /\ dbTip' = tip'
                   /\ supply' = SupplyAt[tip'] /\ dbSupply' = supply'
                   /\ cumDiff' = WorkAt[tip'] /\ dbCumDiff' = cumDiff'
                   /\ (\A h \in 1 .. height : Path[tip][h] \in RuleOK) =>
                        regs' = Cardinality(RegisteredIn(utxo'))
                   /\ \A h \in 1 .. height : undo'[Path[tip][h]] # NoUndo
<1>1. ASSUME RecoverInv, Next PROVE A
  <2> SUFFICES ASSUME pc = "recover", pc' = "boot", LedgerUnbroken \/ Recoverable
      PROVE  /\ utxo' = UtxoAt[tip'] /\ dbTip' = tip'
             /\ supply' = SupplyAt[tip'] /\ dbSupply' = supply'
             /\ cumDiff' = WorkAt[tip'] /\ dbCumDiff' = cumDiff'
             /\ (\A h \in 1 .. height : Path[tip][h] \in RuleOK) =>
                  regs' = Cardinality(RegisteredIn(utxo'))
             /\ \A h \in 1 .. height : undo'[Path[tip][h]] # NoUndo
    OBVIOUS
  <2>1. FinishRecovery
    BY <1>1
       DEF Next, Process, Accept, StoreFork, Running, StartUp, Apply, Commit, Notify,
           KeepCurrent, StartReorg, RevertBlock, ReplayBlock, ReplayFails,
           FinishReorg, StartRebuild, RebuildBlock, RebuildFails, FinishRebuild,
           Restart, RecoverBlock, Boot, Crash, CrashInRebuild,
           CrashWhileIndexing, CrashWhileFinishing
  <2>2. /\ pos > height /\ supply' = accSupply /\ cumDiff' = accCumDiff
        /\ dbSupply' = accSupply /\ dbCumDiff' = accCumDiff
        /\ UNCHANGED <<undo, dbTip, utxo, tip, regs>>
    BY <2>1 DEF FinishRecovery, store
  <2>3. Recoverable
    <3>1. LedgerUnbroken => HeightsAgree /\ IdxOn(tip)
      BY <1>1 DEF RecoverInv, LedgerInv, PhasesOK, RecoverOK
    <3> QED BY <3>1 DEF HeightsAgree, IdxOn, Recoverable
  <2>4. /\ tip \in Block /\ height = Height[tip] /\ height \in Nat /\ pos \in Nat
        /\ Path[tip][height] = tip
    BY <1>1, <2>3, Facts DEF RecoverInv, Recoverable
  <2>5. /\ dbTip = tip /\ pos \in 0 .. height + 1
        /\ Prefix(tip, pos, utxo, accSupply, accCumDiff)
        /\ \A h \in 1 .. pos - 1 : undo[Path[tip][h]] # NoUndo
        /\ KeepsRules(tip) => regs = IF pos = 0 THEN 0 ELSE CountAt(Path[tip][pos - 1])
    BY <1>1, <2>3 DEF RecoverInv, Recovering
  <2>6. pos - 1 = height /\ pos # 0
    BY <2>2, <2>4, <2>5
  <2>7. LedgerOf(tip, utxo, accSupply, accCumDiff)
    BY <2>4, <2>5, <2>6 DEF Prefix
  <2>8. KeepsRules(tip) => regs = Cardinality(RegisteredIn(utxo))
    BY <2>4, <2>5, <2>6, <2>7 DEF LedgerOf, CountAt, RegisteredAt
  <2> QED BY <2>2, <2>4, <2>5, <2>6, <2>7, <2>8 DEF LedgerOf, KeepsRules
<1>2. RecoverInv /\ [Next]_vars => [A]_vars
  <2> HIDE DEF A
  <2> QED BY <1>1
<1>3. RecoveryRestoresLedger <=> [][A]_vars
  BY DEF RecoveryRestoresLedger
<1> HIDE DEF A
<1> QED BY <1>2, <1>3, RecoverInvariant, PTL DEF Spec


-----------------------------------------------------------------------------
(* Work, fork choice and the promise to the callers. *)

\* Work never falls along a path.
LEMMA WorkGrows ==
  ASSUME NEW t \in Block, NEW f \in 0 .. Height[t], NEW n \in f .. Height[t]
  PROVE  WorkAt[Path[t][f]] <= WorkAt[Path[t][n]]
<1> DEFINE S == {h \in 0 .. Height[t] : h >= f => WorkAt[Path[t][f]] <= WorkAt[Path[t][h]]}
<1>1. Height[t] \in Nat /\ f \in Nat /\ n \in 0 .. Height[t] /\ n >= f
  BY TreeAssumption
<1>2. \A h \in 0 .. Height[t] : WorkAt[Path[t][h]] \in Nat
  BY PathFacts, LedgerAssumption
<1>3. 0 \in S
  BY <1>1, <1>2
<1>4. ASSUME NEW h \in S, h < Height[t] PROVE h + 1 \in S
  <2>1. h + 1 \in 0 .. Height[t] /\ h + 1 > 0 /\ (h + 1) - 1 = h
    BY <1>1, <1>4
  <2>2. /\ Path[t][h + 1] \in Block /\ Height[Path[t][h + 1]] > 0
        /\ Parent[Path[t][h + 1]] = Path[t][h]
    BY <2>1, PathFacts
  <2>3. /\ WorkAt[Path[t][h + 1]] = WorkAt[Path[t][h]] + Difficulty[Path[t][h + 1]]
        /\ Difficulty[Path[t][h + 1]] \in Nat
    BY <2>2, LedgerStep
  <2>4. h + 1 >= f => h + 1 = f \/ h >= f
    BY <1>1, <2>1
  <2>5. h >= f => WorkAt[Path[t][f]] <= WorkAt[Path[t][h]]
    OBVIOUS
  <2>6. h + 1 >= f => WorkAt[Path[t][f]] <= WorkAt[Path[t][h + 1]]
    BY <1>1, <1>2, <2>1, <2>3, <2>4, <2>5
  <2> QED BY <2>1, <2>6
<1>5. S = 0 .. Height[t]
  <2> HIDE DEF S
  <2>1. S \in SUBSET (0 .. Height[t])
    BY DEF S
  <2> QED BY <1>1, <1>3, <1>4, <2>1, BoundedInduction
<1> QED BY <1>1, <1>5

\* The sum of a branch's difficulties is the work it adds.
LEMMA WorkTelescopes ==
  ASSUME NEW t \in Block, NEW n \in 0 .. Height[t], NEW f \in Nat, NEW at,
         \A h \in f + 1 .. n : at[h] = Path[t][h]
  PROVE  WorkAbove(at, f, n) =
           IF n <= f THEN 0 ELSE WorkAt[Path[t][n]] - WorkAt[Path[t][f]]
<1> DEFINE W == [h \in 0 .. n |->
                   IF h <= f THEN 0 ELSE WorkAt[Path[t][h]] - WorkAt[Path[t][f]]]
           Sums(g) == g = [h \in 0 .. n |-> IF h <= f THEN 0
                                            ELSE g[h - 1] + Difficulty[at[h]]]
           sum == CHOOSE g : Sums(g)
<1>1. Height[t] \in Nat /\ n \in Nat
  BY TreeAssumption
<1>2. ASSUME NEW h \in 0 .. n, ~ (h <= f)
      PROVE  /\ h - 1 \in 0 .. n
             /\ W[h] = W[h - 1] + Difficulty[at[h]]
  <2>1. /\ h \in 0 .. Height[t] /\ h - 1 \in 0 .. Height[t] /\ h > 0
        /\ h \in f + 1 .. n /\ f \in 0 .. Height[t] /\ h - 1 \in 0 .. n
    BY <1>1, <1>2
  <2>2. /\ Path[t][h] \in Block /\ Height[Path[t][h]] > 0
        /\ Parent[Path[t][h]] = Path[t][h - 1] /\ Path[t][f] \in Block
    BY <2>1, PathFacts
  <2>3. /\ WorkAt[Path[t][h]] = WorkAt[Path[t][h - 1]] + Difficulty[Path[t][h]]
        /\ {WorkAt[Path[t][h - 1]], Difficulty[Path[t][h]]} \subseteq Nat
    BY <2>2, LedgerStep
  <2>4. WorkAt[Path[t][f]] \in Nat
    BY <2>2, LedgerAssumption
  <2>5. h - 1 <= f => h - 1 = f
    BY <1>2, <2>1
  <2>6. W[h - 1] = WorkAt[Path[t][h - 1]] - WorkAt[Path[t][f]]
    BY <2>1, <2>3, <2>4, <2>5
  <2>7. W[h] = WorkAt[Path[t][h]] - WorkAt[Path[t][f]]
    BY <1>2
  <2>8. at[h] = Path[t][h]
    BY <2>1
  <2> HIDE DEF W
  <2> QED BY <2>1, <2>3, <2>4, <2>6, <2>7, <2>8
<1>3. Sums(W)
  <2> DEFINE V == [h \in 0 .. n |-> IF h <= f THEN 0 ELSE W[h - 1] + Difficulty[at[h]]]
  <2>1. ASSUME NEW h \in 0 .. n PROVE W[h] = V[h]
    <3>1. CASE h <= f
      BY <3>1
    <3>2. CASE ~ (h <= f)
      <4>1. W[h] = W[h - 1] + Difficulty[at[h]]
        BY <1>2, <3>2
      <4> HIDE DEF W
      <4> QED BY <3>2, <4>1
    <3> QED BY <3>1, <3>2
  <2>2. W = [h \in 0 .. n |-> W[h]] /\ V = [h \in 0 .. n |-> V[h]]
    OBVIOUS
  <2>3. W = V
    <3> HIDE DEF W, V
    <3> QED BY <2>1, <2>2
  <2> HIDE DEF W
  <2> QED BY <2>3
<1>4. Sums(sum)
  <2> HIDE DEF W, Sums
  <2> QED BY <1>3
<1>5. /\ \A h \in 0 .. n : h <= f => sum[h] = 0
      /\ \A h \in 0 .. n : ~ (h <= f) => sum[h] = sum[h - 1] + Difficulty[at[h]]
  <2> HIDE DEF sum
  <2> QED BY <1>4
<1> HIDE DEF sum, Sums
<1> DEFINE S == {h \in 0 .. n : sum[h] = W[h]}
<1>6. 0 \in S
  BY <1>1, <1>5
<1>7. ASSUME NEW h \in S, h < n PROVE h + 1 \in S
  <2>1. h + 1 \in 0 .. n /\ (h + 1) - 1 = h /\ sum[h] = W[h]
    BY <1>1, <1>7
  <2>2. CASE h + 1 <= f
    <3>1. W[h + 1] = 0
      BY <2>1, <2>2
    <3> QED BY <1>5, <2>1, <2>2, <3>1
  <2>3. CASE ~ (h + 1 <= f)
    <3>1. W[h + 1] = W[h] + Difficulty[at[h + 1]]
      BY <1>2, <2>1, <2>3
    <3>2. sum[h + 1] = sum[h] + Difficulty[at[h + 1]]
      BY <1>5, <2>1, <2>3
    <3> HIDE DEF W
    <3> QED BY <2>1, <3>1, <3>2
  <2> QED BY <2>2, <2>3
<1>8. S = 0 .. n
  <2> HIDE DEF S
  <2>1. S \in SUBSET (0 .. n)
    BY DEF S
  <2> QED BY <1>1, <1>6, <1>7, <2>1, BoundedInduction
<1>9. n \in 0 .. n
  BY <1>1
<1>10. sum[n] = W[n]
  <2> HIDE DEF W
  <2> QED BY <1>8, <1>9
<1>11. WorkAbove(at, f, n) = sum[n]
  BY DEF WorkAbove, sum, Sums
<1> HIDE DEF S
<1> QED BY <1>9, <1>10, <1>11


\* Reorg compares the branch sums, and that compares the total work: at a fork
\* below the tip because the common part cancels, above it because nothing is
\* subtracted and the branch ends in a block that has some.
LEMMA ForkChoice ==
  ASSUME LedgerInv, LedgerUnbroken, pc = "decide", Difficulty[target] > 0,
         Height[target] - ForkHeight(target) <= MaxReorgDepth
  PROVE  /\ ForkHeight(target) <= height =>
              (Outweighs(target, ForkHeight(target)) <=> WorkAt[target] > WorkAt[tip])
         /\ ForkHeight(target) > height => Outweighs(target, ForkHeight(target))
<1> DEFINE f == ForkHeight(target)
<1>1. /\ target \in Block /\ tip \in Block /\ height = Height[tip]
      /\ Height[target] \in Nat /\ height \in Nat
      /\ Path[tip][height] = tip /\ Path[target][Height[target]] = target
  BY Facts
<1>2. Height[target] > 0 /\ IdxOn(tip)
  BY DEF LedgerInv, TypeInv, PhaseOK, PhasesOK, RestOK, AtRest
<1>3. f \in 0 .. Height[target] - 1 /\ heightIdx[f] = Path[target][f]
  BY <1>1, <1>2, ForkHeightTyped DEF LedgerInv
<1> HIDE DEF f
<1>4. f \in Nat /\ f \in 0 .. Height[target] /\ ~ (Height[target] <= f)
  BY <1>1, <1>3
<1>5. BranchWork(target, f) = WorkAt[target] - WorkAt[Path[target][f]]
  <2>1. Height[target] \in 0 .. Height[target]
    BY <1>1
  <2> QED BY <1>1, <1>4, <2>1, WorkTelescopes DEF BranchWork
<1>6. \A h \in f + 1 .. height : heightIdx[h] = Path[tip][h]
  BY <1>1, <1>2, <1>4 DEF IdxOn
<1>7. OldWork(f) = IF height <= f THEN 0 ELSE WorkAt[tip] - WorkAt[Path[tip][f]]
  <2>1. height \in 0 .. Height[tip]
    BY <1>1
  <2> QED BY <1>1, <1>4, <1>6, <2>1, WorkTelescopes DEF OldWork
<1>8. \A h \in f + 1 .. height : heightIdx[h] # None
  <2>1. ASSUME NEW h \in f + 1 .. height PROVE heightIdx[h] \in Block
    <3>1. h \in 0 .. Height[tip]
      BY <1>1, <1>4
    <3> QED BY <1>1, <1>6, <3>1, PathFacts
  <2> QED BY <2>1, TreeAssumption
<1>9. Outweighs(target, f) <=> BranchWork(target, f) > OldWork(f)
  BY <1>8 DEF Outweighs, MoreWork, f
<1>10. {WorkAt[target], WorkAt[tip], WorkAt[Path[target][f]]} \subseteq Nat
  BY <1>1, <1>4, PathFacts, LedgerAssumption
<1>11. ASSUME f <= height
       PROVE  Outweighs(target, f) <=> WorkAt[target] > WorkAt[tip]
  <2>1. f \in 0 .. Height[tip]
    BY <1>1, <1>4, <1>11
  <2>2. Path[tip][f] = Path[target][f]
    BY <1>2, <1>3, <2>1 DEF IdxOn
  <2>3. OldWork(f) = WorkAt[tip] - WorkAt[Path[target][f]]
    <3>1. CASE height <= f
      <4>1. f = height
        BY <1>1, <1>4, <1>11, <3>1
      <4> QED BY <1>1, <1>7, <1>10, <2>2, <3>1, <4>1
    <3>2. CASE ~ (height <= f)
      BY <1>7, <2>2, <3>2
    <3> QED BY <3>1, <3>2
  <2> QED BY <1>5, <1>9, <1>10, <2>3
<1>12. ASSUME f > height PROVE Outweighs(target, f)
  <2>1. OldWork(f) = 0
    BY <1>1, <1>4, <1>7, <1>12
  <2>2. /\ Parent[target] = Path[target][Height[target] - 1]
        /\ WorkAt[target] = WorkAt[Parent[target]] + Difficulty[target]
        /\ {WorkAt[Parent[target]], Difficulty[target]} \subseteq Nat
    <3>1. Height[target] \in 0 .. Height[target]
      BY <1>1
    <3> QED BY <1>1, <1>2, <3>1, PathFacts, LedgerStep
  <2>3. WorkAt[Path[target][f]] <= WorkAt[Path[target][Height[target] - 1]]
    <3>1. Height[target] - 1 \in f .. Height[target]
      BY <1>1, <1>3
    <3> QED BY <1>1, <1>4, <3>1, WorkGrows
  <2> QED BY <1>5, <1>9, <1>10, <2>1, <2>2, <2>3
<1> QED BY <1>11, <1>12 DEF f

\* A verified header claims work.
LEMMA HeaderWork ==
  ASSUME NEW b \in Block, VerifyHeader(b)
  PROVE  Difficulty[b] > 0
BY DataAssumption DEF VerifyHeader

\* A call in progress has something to gain.
WorkOK ==
  /\ pc \in {"apply", "commit", "decide"} => Difficulty[target] > 0
  /\ pc \in {"revert", "replay", "rebuild"} => WorkAt[target] > WorkAt[tip]

WorkInv == SideInv /\ (LedgerUnbroken => WorkOK)

LEMMA WorkStep ==
  ASSUME WorkInv, LedgerInv', Next, LedgerUnbroken'
  PROVE  WorkOK'
<1>1. LedgerInv /\ LedgerUnbroken /\ WorkOK
  BY UnbrokenBefore DEF WorkInv, SideInv
<1>2. ASSUME NEW b \in Block, Process(b) PROVE WorkOK'
  BY <1>1, <1>2, HeaderWork DEF Process, Accept, StoreFork, WorkOK
<1>3. CASE StartReorg
  <2>1. /\ pc = "decide" /\ Outweighs(target, ForkHeight(target))
        /\ pc' \in {"revert", "replay"} /\ UNCHANGED <<tip, height, target>>
        /\ fork' = ForkHeight(target)
    BY <1>1, <1>3, ReorgStarts DEF StartReorg
  <2>2. ForkHeight(target) <= height
    <3>1. fork' \in 0 .. height' /\ height \in Nat
      BY <1>1, <2>1, Facts DEF LedgerInv, PhasesOK, RevertOK, ReplayOK, Shared
    <3> QED BY <2>1, <3>1
  <2>3. Height[target] - ForkHeight(target) <= MaxReorgDepth
    BY <2>1 DEF Outweighs
  <2>4. WorkAt[target] > WorkAt[tip]
    BY <1>1, <2>1, <2>2, <2>3, ForkChoice DEF WorkOK
  <2> QED BY <2>1, <2>4 DEF WorkOK
<1>4. CASE Apply \/ RevertBlock \/ ReplayBlock \/ StartRebuild \/ RebuildBlock
  BY <1>1, <1>4
     DEF Apply, RevertBlock, ReplayBlock, StartRebuild, MissingUndo, RebuildBlock,
         WorkOK, mem, LedgerUnbroken
<1>5. CASE Commit \/ Notify \/ KeepCurrent \/ ReplayFails \/ FinishReorg
           \/ RebuildFails \/ FinishRebuild \/ Restart \/ RecoverBlock
           \/ FinishRecovery \/ Crash \/ \E r \in BOOLEAN : Boot(r)
  BY <1>5
     DEF Commit, Notify, KeepCurrent, ReplayFails, FinishReorg, RebuildFails,
         FinishRebuild, Restart, RecoverBlock, FinishRecovery, Crash, Boot, WorkOK
<1> QED BY <1>2, <1>3, <1>4, <1>5, NotInRebuild DEF Next, Running, StartUp

LEMMA WorkInvariant == Spec => []WorkInv
<1>1. Init => WorkInv
  BY InitLedger DEF Init, WorkInv, WorkOK, SideInv, CutOff, Told, Forked
<1>2. WorkInv /\ SideInv' /\ [Next]_vars => WorkInv'
  <2> SUFFICES ASSUME WorkInv, SideInv', [Next]_vars PROVE WorkInv'
    OBVIOUS
  <2>1. CASE Next
    BY <2>1, WorkStep DEF WorkInv, SideInv
  <2>2. CASE UNCHANGED vars
    <3>1. UNCHANGED <<pc, broken, target, tip>>
      BY <2>2 DEF vars, mem, call
    <3> QED BY <3>1 DEF WorkInv, WorkOK, LedgerUnbroken
  <2> QED BY <2>1, <2>2
<1> QED BY <1>1, <1>2, SideInvariant, PTL DEF Spec


\* The steps that move the tip, and where they move it.
LEMMA TipMoves ==
  ASSUME LedgerInv, LedgerUnbroken, WorkOK, Next, Up, Up', tip' # tip
  PROVE  /\ Commit \/ FinishReorg \/ FinishRebuild
         /\ target \in Block /\ tip' = target /\ WorkAt[target] > WorkAt[tip]
<1>1. target \in Block /\ tip \in Block
  BY Facts
<1>2. Commit \/ FinishReorg \/ FinishRebuild
  BY DEF Next, Process, Accept, StoreFork, Running, StartUp, Apply, Notify,
         KeepCurrent, StartReorg, RevertBlock, ReplayBlock, ReplayFails,
         StartRebuild, RebuildBlock, RebuildFails, Restart, RecoverBlock,
         FinishRecovery, Boot, Crash, CrashInRebuild,
         CrashWhileIndexing, CrashWhileFinishing, Up, mem
<1>3. CASE Commit
  <2>1. /\ Parent[target] = tip /\ Height[target] > 0 /\ Difficulty[target] > 0
        /\ tip' = target
    BY <1>3 DEF Commit, LedgerInv, PhasesOK, CommitOK, Extending, WorkOK
  <2>2. /\ WorkAt[target] = WorkAt[Parent[target]] + Difficulty[target]
        /\ {WorkAt[Parent[target]], Difficulty[target]} \subseteq Nat
    BY <1>1, <2>1, LedgerStep
  <2>3. WorkAt[target] > WorkAt[tip]
    BY <2>1, <2>2
  <2> QED BY <1>1, <1>2, <2>1, <2>3
<1>4. CASE FinishReorg \/ FinishRebuild
  BY <1>1, <1>4 DEF FinishReorg, FinishRebuild, Rebuilt, WorkOK
<1> QED BY <1>2, <1>3, <1>4

\* reorg.go: the chain only ever switches to more total work, whether a block
\* extends it, a branch replaces its end, or the UTXO set has to be rebuilt.
THEOREM WorkGained == Spec => TipGainsWork
<1> DEFINE A == LedgerUnbroken' /\ pc # "down" => WorkAt[tip'] > WorkAt[tip]
<1>1. WorkInv /\ [Next]_vars => [A]_tip
  <2> SUFFICES ASSUME WorkInv, [Next]_vars, tip' # tip, LedgerUnbroken', pc # "down"
      PROVE  WorkAt[tip'] > WorkAt[tip]
    OBVIOUS
  <2>1. Next /\ LedgerInv /\ LedgerUnbroken /\ WorkOK
    BY UnbrokenBefore DEF WorkInv, SideInv, vars, mem
  <2>2. Up /\ Up'
    BY <2>1
       DEF Next, Process, Accept, StoreFork, Running, StartUp, Apply, Commit, Notify,
           KeepCurrent, StartReorg, RevertBlock, ReplayBlock, ReplayFails,
           FinishReorg, StartRebuild, MissingUndo, RebuildBlock, RebuildFails,
           FinishRebuild, Rebuilt, Restart, RecoverBlock, FinishRecovery, Boot, Crash,
           CrashInRebuild, CrashWhileIndexing, CrashWhileFinishing, Up, mem
  <2> QED BY <2>1, <2>2, TipMoves
<1>2. TipGainsWork <=> [][A]_tip
  BY DEF TipGainsWork
<1> HIDE DEF A
<1> QED BY <1>1, <1>2, WorkInvariant, PTL DEF Spec

\* processor.go, reorg.go: a call that returns leaves a tip at least as heavy as
\* the block it was given, if the engine was to consider it and the fork is not
\* too deep: by extending the chain, by switching to it, or because it is lighter.
THEOREM ForkChoiceCorrect == Spec => HeaviestConsidered
<1> DEFINE A == pc \notin {"down", "recover", "boot"} /\ pc' = "idle" /\ LedgerUnbroken' =>
                  \A b \in (blocks' \ blocks) \cup (IF pc = "idle" THEN {} ELSE {target}) :
                    /\ Engine = "PoW" \/ Height[b] >= height
                    /\ Height[b] - ForkHeight(b) <= MaxReorgDepth
                    => WorkAt[b] <= WorkAt[tip']
<1>1. ASSUME WorkInv, Next PROVE A
  <2> SUFFICES ASSUME pc \notin {"down", "recover", "boot"}, pc' = "idle",
                      LedgerUnbroken',
                      NEW b \in (blocks' \ blocks)
                                  \cup (IF pc = "idle" THEN {} ELSE {target}),
                      Engine = "PoW" \/ Height[b] >= height,
                      Height[b] - ForkHeight(b) <= MaxReorgDepth
      PROVE  WorkAt[b] <= WorkAt[tip']
    OBVIOUS
  <2>1. LedgerInv /\ LedgerUnbroken /\ WorkOK /\ Told
    BY <1>1, UnbrokenBefore DEF WorkInv, SideInv
  <2>2. \A t \in Block : WorkAt[t] \in Nat
    BY LedgerAssumption
  <2>3. target \in Block /\ tip \in Block
    BY <2>1, Facts
  <2>4. \/ \E c \in Block : StoreFork(c)
        \/ Notify \/ KeepCurrent \/ RevertBlock \/ ReplayFails \/ FinishReorg
        \/ RebuildFails \/ FinishRebuild
    BY <1>1
       DEF Next, Process, Accept, Running, StartUp, Apply, Commit, StartReorg,
           ReplayBlock, StartRebuild, RebuildBlock, Restart, RecoverBlock,
           FinishRecovery, Boot, Crash, CrashInRebuild,
           CrashWhileIndexing, CrashWhileFinishing
  <2>5. CASE \E c \in Block : StoreFork(c)
    <3>1. PICK c \in Block : StoreFork(c)
      BY <2>5
    <3>2. b = c /\ ~ ShouldAttempt(c)
      BY <3>1 DEF StoreFork
    <3> QED BY <3>2 DEF ShouldAttempt
  <2>6. CASE Notify
    BY <2>1, <2>2, <2>3, <2>6 DEF Notify, Told, mem, store
  <2>7. CASE FinishReorg \/ FinishRebuild
    BY <2>2, <2>3, <2>7 DEF FinishReorg, FinishRebuild, Rebuilt, store
  <2>8. CASE RevertBlock \/ ReplayFails \/ RebuildFails
    BY <2>8 DEF RevertBlock, ReplayFails, RebuildFails, LedgerUnbroken
  <2>9. CASE KeepCurrent
    <3>1. /\ pc = "decide" /\ ~ Outweighs(target, ForkHeight(target))
          /\ b = target /\ tip' = tip
      BY <2>9 DEF KeepCurrent, store, mem
    <3>2. ~ (ForkHeight(target) > height) /\ ForkHeight(target) \in Nat /\ height \in Nat
      <4>1. Height[target] > 0 /\ Height[target] \in Nat /\ height \in Nat
        BY <2>1, <3>1, Facts DEF LedgerInv, TypeInv, PhaseOK
      <4> QED
        BY <2>1, <2>3, <3>1, <4>1, ForkHeightTyped, ForkChoice DEF WorkOK, LedgerInv
    <3>3. ~ (WorkAt[target] > WorkAt[tip])
      BY <2>1, <3>1, <3>2, ForkChoice DEF WorkOK
    <3> QED BY <2>2, <2>3, <3>1, <3>3
  <2> QED BY <2>4, <2>5, <2>6, <2>7, <2>8, <2>9
<1>2. WorkInv /\ [Next]_vars => [A]_vars
  <2> HIDE DEF A
  <2> QED BY <1>1
<1>3. HeaviestConsidered <=> [][A]_vars
  BY DEF HeaviestConsidered
<1> HIDE DEF A
<1> QED BY <1>2, <1>3, WorkInvariant, PTL DEF Spec


\* What the callers see of the ledger is the ledger of the tip they see.
Shown == IF Idle THEN utxo ELSE UtxoAt[ShownTip]

ShownOK == LedgerUnbroken => Shown = UtxoAt[ShownTip] /\ ShownTip \in Block

LEMMA ShownInvariant == Spec => []ShownOK
<1>1. LedgerInv => ShownOK
  <2> SUFFICES ASSUME LedgerInv, LedgerUnbroken
      PROVE  Shown = UtxoAt[ShownTip] /\ ShownTip \in Block
    BY DEF ShownOK
  <2>1. tip \in Block /\ dbTip \in Block
    BY Facts
  <2>2. Idle => Up /\ utxo = UtxoAt[tip]
    BY DEF Idle, Up, LedgerInv, PhasesOK, RestOK, AtRest, LedgerOf
  <2> QED BY <2>1, <2>2 DEF Shown, ShownTip
<1> QED BY <1>1, LedgerInvariant, PTL

\* Each step shows the callers nothing new, or a heavier tip; a crash shows the
\* tip they saw or a block of the branch the node was switching to.
LEMMA ShownStep ==
  ASSUME LedgerInv, LedgerInv', WorkOK, Next, LedgerUnbroken, LedgerUnbroken'
  PROVE  \/ Up' = Up /\ ShownTip' = ShownTip
         \/ Up /\ Up' /\ WorkAt[ShownTip'] > WorkAt[ShownTip]
         \/ Up /\ ~ Up' /\ ShownTip' = ShownTip
         \/ /\ Up /\ ~ Up'
            /\ \E c \in Block : /\ WorkAt[c] > WorkAt[ShownTip]
                                /\ \E h \in 0 .. Height[c] : ShownTip' = Path[c][h]
         \/ ~ Up /\ Up' /\ ShownTip' = ShownTip
<1>1. /\ target \in Block /\ tip \in Block
      /\ Up \in BOOLEAN /\ Up' \in BOOLEAN
  BY Facts DEF Up
<1>2. CASE Up /\ Up'
  <2>1. CASE tip' = tip
    BY <1>2, <2>1 DEF ShownTip
  <2>2. CASE tip' # tip
    BY <1>2, <2>2, TipMoves DEF ShownTip
  <2> QED BY <2>1, <2>2
<1>3. CASE Up /\ ~ Up'
  <2>1. Crash /\ dbTip' = dbTip /\ pc # "rebuild" /\ pc # "commit"
    <3>1. Crash
      BY <1>3, NotInRebuild
         DEF Next, Process, Accept, StoreFork, Running, StartUp, Apply, Commit,
             Notify, KeepCurrent, StartReorg, RevertBlock, ReplayBlock, ReplayFails,
             FinishReorg, StartRebuild, MissingUndo, RebuildBlock, RebuildFails,
             FinishRebuild, Rebuilt, Restart, RecoverBlock, FinishRecovery, Boot, Up
    <3> QED BY <3>1 DEF Crash, db, LedgerUnbroken
  <2>2. ShownTip = tip /\ ShownTip' = dbTip
    BY <1>3, <2>1 DEF ShownTip
  <2>3. CASE pc # "replay"
    <3>1. pc \in {"idle", "apply", "notify", "decide", "revert"}
      BY <1>3, <2>1, <2>3 DEF Up, LedgerInv, TypeInv, TypeOK
    <3>2. dbTip = tip
      BY <3>1 DEF LedgerInv, PhasesOK, RestOK, ApplyOK, RevertOK, AtRest, DbOf
    <3> QED BY <1>3, <2>2, <3>2
  <2>4. CASE pc = "replay"
    <3>1. /\ WorkAt[target] > WorkAt[tip]
          /\ pos \in fork .. Height[target] /\ fork \in Nat
          /\ dbTip = tip \/ dbTip = Path[target][pos]
      BY <2>4, Facts DEF WorkOK, LedgerInv, PhasesOK, ReplayOK, DbOf
    <3>2. pos \in 0 .. Height[target]
      BY <3>1
    <3> QED BY <1>1, <1>3, <2>2, <3>1, <3>2
  <2> QED BY <2>3, <2>4
<1>4. CASE ~ Up /\ Up'
  <2>1. pc = "boot" /\ dbTip' = dbTip /\ tip' = tip
    BY <1>4
       DEF Next, Process, Accept, StoreFork, Running, StartUp, Apply, Commit,
           Notify, KeepCurrent, StartReorg, RevertBlock, ReplayBlock, ReplayFails,
           FinishReorg, StartRebuild, MissingUndo, RebuildBlock, RebuildFails,
           FinishRebuild, Rebuilt, Restart, RecoverBlock, FinishRecovery, Boot, Crash,
           CrashInRebuild, CrashWhileIndexing, CrashWhileFinishing, Up, db, mem
  <2>2. dbTip = tip
    BY <2>1 DEF LedgerInv, PhasesOK, RestOK, AtRest, DbOf
  <2> QED BY <1>4, <2>1, <2>2 DEF ShownTip
<1>5. CASE ~ Up /\ ~ Up'
  <2>1. dbTip' = dbTip
    BY <1>5
       DEF Next, Process, Accept, StoreFork, Running, StartUp, Apply, Commit,
           Notify, KeepCurrent, StartReorg, RevertBlock, ReplayBlock, ReplayFails,
           FinishReorg, StartRebuild, MissingUndo, RebuildBlock, RebuildFails,
           FinishRebuild, Rebuilt, Restart, RecoverBlock, FinishRecovery, Boot, Crash,
           CrashInRebuild, CrashWhileIndexing, CrashWhileFinishing, Up, db
  <2>2. ShownTip = dbTip /\ ShownTip' = dbTip'
    BY <1>5 DEF ShownTip
  <2>3. Up' = Up
    BY <1>5 DEF Up
  <2> QED BY <2>1, <2>2, <2>3
<1> QED BY <1>1, <1>2, <1>3, <1>4, <1>5

\* So it is a step of Ledger.
LEMMA LedgerStepShown ==
  ASSUME WorkInv, WorkInv', ShownOK, ShownOK', [Next]_vars, LedgerUnbroken'
  PROVE  [Promise!LNext]_(Promise!lvars)
<1>1. CASE UNCHANGED vars
  <2>1. UNCHANGED <<pc, tip, dbTip, utxo>>
    BY <1>1 DEF vars, db, mem
  <2> QED BY <2>1 DEF Promise!lvars, Up, ShownTip, Idle
<1>2. CASE Next
  <2>1. LedgerInv /\ LedgerInv' /\ WorkOK /\ LedgerUnbroken
    BY UnbrokenBefore DEF WorkInv, SideInv
  <2>2. Shown = UtxoAt[ShownTip] /\ ShownTip \in Block
    BY <2>1 DEF ShownOK
  <2>3. Shown' = UtxoAt[ShownTip'] /\ ShownTip' \in Block
    BY DEF ShownOK
  <2>4. CASE Up' = Up /\ ShownTip' = ShownTip
    BY <2>2, <2>3, <2>4 DEF Promise!lvars, Shown
  <2>5. CASE Up /\ Up' /\ WorkAt[ShownTip'] > WorkAt[ShownTip]
    <3>1. Promise!Advance(ShownTip')
      BY <2>3, <2>5 DEF Promise!Advance, Shown
    <3> QED BY <2>3, <3>1 DEF Promise!LNext
  <2>6. CASE Up /\ ~ Up' /\ ShownTip' = ShownTip
    <3>1. Promise!Die(ShownTip')
      BY <2>3, <2>6 DEF Promise!Die, Shown
    <3> QED BY <2>3, <3>1 DEF Promise!LNext
  <2>7. CASE /\ Up /\ ~ Up'
             /\ \E c \in Block : /\ WorkAt[c] > WorkAt[ShownTip]
                                 /\ \E h \in 0 .. Height[c] : ShownTip' = Path[c][h]
    <3>1. Promise!Die(ShownTip')
      BY <2>3, <2>7 DEF Promise!Die, Shown
    <3> QED BY <2>3, <3>1 DEF Promise!LNext
  <2>8. CASE ~ Up /\ Up' /\ ShownTip' = ShownTip
    <3>1. Promise!Resume
      BY <2>2, <2>3, <2>8 DEF Promise!Resume, Shown
    <3> QED BY <3>1 DEF Promise!LNext
  <2> QED BY <1>2, <2>1, <2>4, <2>5, <2>6, <2>7, <2>8, ShownStep
<1> QED BY <1>1, <1>2

\* The mempool, the miner and RPC: through every crash, up to the first accident, the node shows its
\* callers a tip and that tip's UTXO set, changing together and gaining work.
THEOREM EveryStepShown == Spec => StepsOfLedger
<1> DEFINE A == LedgerUnbroken' => [Promise!LNext]_(Promise!lvars)
<1>1. WorkInv /\ WorkInv' /\ ShownOK /\ ShownOK' /\ [Next]_vars => A
  BY LedgerStepShown
<1>2. StepsOfLedger <=> [][A]_vars
  BY DEF StepsOfLedger
<1> HIDE DEF A
<1> QED BY <1>1, <1>2, WorkInvariant, ShownInvariant, PTL DEF Spec

\* Without an accident the node implements Ledger.
THEOREM RefinesLedger == Spec /\ []LedgerUnbroken => ImplementsLedger
<1>1. Init => Promise!LInit
  <2> SUFFICES ASSUME Init PROVE Promise!LInit
    OBVIOUS
  <2>1. pc = "idle" /\ tip = StartTip /\ utxo = UtxoAt[StartTip]
    BY DEF Init
  <2> QED BY <2>1 DEF Promise!LInit, Up, ShownTip, Idle
<1>2. WorkInv /\ WorkInv' /\ ShownOK /\ ShownOK' /\ [Next]_vars /\ LedgerUnbroken' =>
        [Promise!LNext]_(Promise!lvars)
  BY LedgerStepShown
<1> QED
  BY <1>1, <1>2, WorkInvariant, ShownInvariant, PTL
     DEF Spec, ImplementsLedger, Promise!LSpec

-----------------------------------------------------------------------------
(* Reorgs that complete. *)

\* What validation reads is what it reads when b extends its parent.
OnParent(b) ==
  /\ utxo = UtxoAt[Parent[b]] /\ supply = SupplyAt[Parent[b]]
  /\ regs = CountAt(Parent[b]) /\ validators = ValidatorsAt(Parent[b])
  /\ \A h \in 0 .. Height[b] - 1 : heightIdx[h] = Path[b][h]

\* The blocks are valid, each on its own branch.
ValidOnBranch == \A b \in Block \ {Genesis} : OnParent(b) => ReplayValid(b)

\* PoA only considers branches as high as the chain, so the height index ends
\* with the chain, or with the replay that makes it higher.
EndsWithChain ==
  /\ pc \notin {"rebuild", "down", "recover", "boot"}
  /\ pc \in {"decide", "revert", "replay"} => Height[target] >= height
  /\ \A h \in Heights : h > height /\ (pc = "replay" => h > pos) => heightIdx[h] = None

Whole == RegistryInv /\ StakesInv /\ broken = {} /\ EndsWithChain

LEMMA WholeFacts ==
  ASSUME Whole
  PROVE  /\ LedgerInv /\ LedgerUnbroken /\ PhasesOK /\ SoundOK /\ CountOK /\ StakesOK
         /\ broken = {} /\ EndsWithChain
BY DEF Whole, RegistryInv, StakesInv, SideInv, LedgerInv, LedgerUnbroken

\* What a block is subtracted from contains it.
LEMMA RevertsWhole ==
  ASSUME Whole, RevertBlock
  PROVE  broken' = {} /\ EndsWithChain'
<1> DEFINE b == OldBlock
           n == Cardinality(Registers(b))
<1>1. pc = "revert" /\ undo[b] # NoUndo /\ UNCHANGED <<heightIdx, height, target>>
  BY DEF RevertBlock
<1>2. /\ b = Path[tip][pos] /\ b \in Block /\ Height[b] > 0 /\ Sound(b)
  BY <1>1, Reverting, WholeFacts
<1>3. /\ utxo = UtxoAt[b] /\ supply = SupplyAt[b] /\ cumDiff = WorkAt[b] /\ regs = CountAt(b)
      /\ undo[b].reward = Minted[b]
  <2>1. b # Genesis
    BY <1>2, TreeAssumption
  <2>2. undo[b] = UndoOf(b)
    BY <1>1, <1>2, <2>1, WholeFacts DEF PhasesOK, UndoExact
  <2> QED BY <1>1, <1>2, <2>2, WholeFacts DEF PhasesOK, RevertOK, LedgerOf, CountOK, UndoOf
<1>4. Minted[b] <= supply /\ n <= regs /\ Difficulty[b] <= cumDiff
  <2>1. /\ SupplyAt[b] = SupplyAt[Parent[b]] + Minted[b]
        /\ WorkAt[b] = WorkAt[Parent[b]] + Difficulty[b]
        /\ {SupplyAt[Parent[b]], Minted[b], WorkAt[Parent[b]], Difficulty[b]} \subseteq Nat
    <3> HIDE DEF b
    <3> QED BY <1>2, LedgerStep
  <2>2. CountAt(b) = CountAt(Parent[b]) + n /\ {CountAt(Parent[b]), n} \subseteq Nat
    BY <1>2, RegisteredStep
  <2> HIDE DEF b, n
  <2> QED BY <1>3, <2>1, <2>2
<1>5. broken' = broken /\ pc' \in {"revert", "replay"}
  BY <1>3, <1>4 DEF RevertBlock
<1> QED BY <1>1, <1>5, WholeFacts DEF EndsWithChain

\* The replay validates a block on its parent's state.
LEMMA ReplaysWhole ==
  ASSUME Whole, ValidOnBranch, pc = "replay", pos < Height[target]
  PROVE  ReplayValid(NewBlock)
<1>1. pos \in Nat /\ target \in Block /\ Height[target] \in Nat
  BY Facts, WholeFacts
<1>2. pos + 1 \in 0 .. Height[target] /\ pos + 1 > 0 /\ (pos + 1) - 1 = pos
      /\ pos \in 0 .. Height[target]
  BY <1>1
<1>3. /\ NewBlock = Path[target][pos + 1] /\ NewBlock \in Block
      /\ Height[NewBlock] = pos + 1 /\ Parent[NewBlock] = Path[target][pos]
      /\ \A h \in 0 .. pos + 1 : Path[NewBlock][h] = Path[target][h]
  BY <1>1, <1>2, PathFacts DEF NewBlock
<1>4. /\ utxo = UtxoAt[Path[target][pos]] /\ supply = SupplyAt[Path[target][pos]]
      /\ regs = CountAt(Path[target][pos]) /\ validators = ValidatorsAt(Path[target][pos])
      /\ \A h \in 0 .. pos : heightIdx[h] = Path[target][h]
  BY WholeFacts DEF PhasesOK, ReplayOK, LedgerOf, CountOK, StakesOK
<1>5. \A h \in 0 .. Height[NewBlock] - 1 : heightIdx[h] = Path[NewBlock][h]
  <2>1. ASSUME NEW h \in 0 .. Height[NewBlock] - 1 PROVE h \in 0 .. pos /\ h \in 0 .. pos + 1
    BY <1>1, <1>3
  <2> QED BY <1>3, <1>4, <2>1
<1>6. OnParent(NewBlock)
  BY <1>3, <1>4, <1>5 DEF OnParent
<1>7. NewBlock # Genesis
  BY <1>1, <1>3, TreeAssumption
<1> QED BY <1>3, <1>6, <1>7 DEF ValidOnBranch

LEMMA WholeStep ==
  ASSUME Engine = "PoA", StartTip = Genesis, Whole, ValidOnBranch, NextAlive
  PROVE  broken' = {} /\ EndsWithChain'
<1>1. /\ height = Height[tip] /\ height \in Nat /\ pos \in Nat /\ target \in Block
      /\ Height[target] \in Nat /\ heightIdx \in [Heights -> Block \cup {None}]
      /\ Heights \subseteq Nat
  BY Facts, WholeFacts, HeightsClosed
<1>2. ASSUME NEW b \in Block, Process(b) PROVE broken' = {} /\ EndsWithChain'
  <2>1. /\ pc = "idle" /\ broken' = broken
        /\ UNCHANGED <<heightIdx, height>>
    BY <1>2 DEF Process, Accept, StoreFork, store, mem
  <2>2. \/ pc' = "apply" \/ pc' = "idle"
        \/ pc' = "decide" /\ target' = b /\ Height[b] >= height
    <3>1. CASE Accept(b)
      BY <3>1 DEF Accept
    <3>2. CASE StoreFork(b)
      BY <2>1, <3>2 DEF StoreFork, ShouldAttempt
    <3> QED BY <1>2, <3>1, <3>2 DEF Process
  <2>3. \A h \in Heights : h > height => heightIdx[h] = None
    BY <2>1, WholeFacts DEF EndsWithChain
  <2>4. broken' = {}
    BY <2>1, WholeFacts
  <2> QED BY <2>1, <2>2, <2>3, <2>4 DEF EndsWithChain
<1>3. CASE Apply \/ Notify \/ KeepCurrent
  BY <1>3, WholeFacts DEF Apply, Notify, KeepCurrent, EndsWithChain, mem, store
<1>4. CASE Commit
  <2>1. /\ pc = "commit" /\ pc' = "notify" /\ height' = Height[target] /\ broken' = broken
        /\ heightIdx' = [heightIdx EXCEPT ![Height[target]] = target]
    BY <1>4 DEF Commit, CommitBatch, IndexHeight
  <2>2. Height[target] = height + 1
    BY <1>1, <2>1, WholeFacts, ParentPath DEF PhasesOK, CommitOK, Extending
  <2> QED BY <1>1, <2>1, <2>2, WholeFacts DEF EndsWithChain
<1>5. CASE StartReorg
  <2>1. /\ pc = "decide" /\ pc' \in {"revert", "replay"} /\ fork' = ForkHeight(target)
        /\ UNCHANGED <<heightIdx, height, target>>
    BY <1>5 DEF StartReorg, store, mem
  <2>2. Height[target] > 0
    BY <2>1, WholeFacts DEF LedgerInv, TypeInv, PhaseOK
  <2>3. /\ fork' \in 0 .. Height[target] - 1 /\ heightIdx[fork'] = Path[target][fork']
    BY <1>1, <2>1, <2>2, ForkHeightTyped, WholeFacts DEF LedgerInv
  <2>4. fork' \in 0 .. Height[target] /\ fork' \in Heights
    BY <1>1, <2>3, HeightsClosed
  <2>5. heightIdx[fork'] # None
    BY <1>1, <2>3, <2>4, PathFacts, TreeAssumption
  <2>6. ~ (fork' > height)
    BY <2>1, <2>4, <2>5, WholeFacts DEF EndsWithChain
  <2>7. broken' = {}
    BY <1>5, <2>6, WholeFacts DEF StartReorg
  <2> QED BY <2>1, <2>7, WholeFacts DEF EndsWithChain
<1>6. CASE RevertBlock
  BY <1>6, RevertsWhole
<1>7. CASE ReplayBlock
  <2>1. pc = "replay" /\ pos < Height[target] /\ ReplayValid(NewBlock)
    BY <1>7 DEF ReplayBlock
  <2>2. Height[NewBlock] = pos + 1
    BY <2>1, Replaying, WholeFacts
  <2>3. /\ heightIdx' = [heightIdx EXCEPT ![pos + 1] = NewBlock] /\ pos' = pos + 1
        /\ UNCHANGED <<height, pc, target, broken>>
    BY <1>7, <2>2 DEF ReplayBlock, CommitBatch, IndexHeight
  <2> QED BY <1>1, <2>1, <2>3, WholeFacts DEF EndsWithChain
<1>8. CASE ReplayFails
  BY <1>8, ReplaysWhole DEF ReplayFails
<1>9. CASE FinishReorg
  <2>1. /\ pc = "replay" /\ pos = Height[target] /\ pc' = "idle" /\ height' = Height[target]
        /\ UNCHANGED <<heightIdx, broken>>
    BY <1>9 DEF FinishReorg, ReplayDone, store
  <2> QED BY <1>1, <2>1, WholeFacts DEF EndsWithChain
<1>10. CASE StartRebuild
  <2>1. pc = "revert" /\ undo[OldBlock] = NoUndo
    BY <1>10 DEF StartRebuild, MissingUndo
  <2>2. OldBlock = Path[tip][pos] /\ pos > 0
    BY <2>1, Reverting, WholeFacts
  <2>3. Undoable(tip, pos) /\ Height[StartTip] = 0
    BY <2>1, WholeFacts, TreeAssumption DEF PhasesOK, RevertOK
  <2>4. pos \in 1 .. pos /\ ~ (pos <= 0)
    BY <1>1, <2>2
  <2> QED BY <2>1, <2>2, <2>3, <2>4 DEF Undoable
<1>11. CASE RebuildBlock \/ RebuildFails \/ FinishRebuild
  BY <1>11, WholeFacts DEF RebuildBlock, RebuildFails, FinishRebuild, Rebuilt,
                           EndsWithChain
<1> QED
  BY <1>2, <1>3, <1>4, <1>5, <1>6, <1>7, <1>8, <1>9, <1>10, <1>11 DEF NextAlive, Running

\* reorg.go: from genesis, with PoA and without a crash, every reorg completes
\* if the blocks are valid on their own branches: the state a replay validates a
\* block on is the parent's, no counter underflows on the way down, no block is
\* without its undo record, and no reorg forks off an index entry left above the
\* tip.
THEOREM ReorgsComplete ==
  ASSUME Engine = "PoA", StartTip = Genesis
  PROVE  SpecAlive /\ []ValidOnBranch => []NothingBreaks
<1>1. SpecAlive => Spec
  <2>1. [NextAlive]_vars => [Next]_vars
    BY DEF NextAlive, Next
  <2> QED BY <2>1, PTL DEF SpecAlive, Spec
<1>2. Init => broken = {} /\ EndsWithChain
  <2> SUFFICES ASSUME Init PROVE broken = {} /\ EndsWithChain
    OBVIOUS
  <2>1. \A h \in Heights : h > height => heightIdx[h] = None
    BY HeightsClosed, TreeAssumption DEF Init
  <2> QED BY <2>1 DEF Init, EndsWithChain
<1>3. RegistryInv /\ StakesInv /\ (broken = {} /\ EndsWithChain) /\ ValidOnBranch
        /\ [NextAlive]_vars => (broken = {} /\ EndsWithChain)'
  <2> SUFFICES ASSUME Whole, ValidOnBranch, [NextAlive]_vars
      PROVE  broken' = {} /\ EndsWithChain'
    BY DEF Whole
  <2>1. CASE NextAlive
    BY <2>1, WholeStep
  <2>2. CASE UNCHANGED vars
    BY <2>2, WholeFacts DEF vars, store, mem, call, EndsWithChain
  <2> QED BY <2>1, <2>2
<1>4. broken = {} /\ EndsWithChain => NothingBreaks
  BY DEF NothingBreaks
<1> QED BY <1>1, <1>2, <1>3, <1>4, RegistryInvariant, StakesInvariant, PTL DEF SpecAlive

-----------------------------------------------------------------------------
(* The difficulty a retarget sets, for every difficulty, time measured and *)
(* time expected: how far one adjustment can move it.                      *)


\* The quotient is the largest number whose product does not exceed the dividend.
LEMMA Quotient ==
  ASSUME NEW n \in Nat, NEW a \in Nat \ {0}
  PROVE  /\ n \div a \in Nat
         /\ a * (n \div a) <= n
         /\ n < a * ((n \div a) + 1)
  OBVIOUS

LEMMA Cancel ==
  ASSUME NEW k \in Nat \ {0}, NEW x \in Nat, NEW y \in Nat
  PROVE  /\ k * x <= k * y => x <= y
         /\ k * x <  k * y => x <  y
<1>1. ASSUME x > y PROVE k * x > k * y
  <2>1. PICK d \in Nat \ {0} : x = y + d
    BY <1>1
  <2>2. k * x = k * y + k * d
    BY <2>1
  <2>3. k * d > 0 /\ k * d \in Nat /\ k * y \in Nat
    BY <2>1
  <2> QED BY <2>2, <2>3
<1>2. k * x \in Nat /\ k * y \in Nat
  OBVIOUS
<1>3. x = y => k * x = k * y
  OBVIOUS
<1> QED BY <1>1, <1>2, <1>3

LEMMA Widen ==
  ASSUME NEW a \in Nat, NEW b \in Nat, a <= b, NEW x \in Nat
  PROVE  a * x <= b * x
<1>1. PICK d \in Nat : b = a + d
  OBVIOUS
<1>2. b * x = a * x + d * x /\ d * x \in Nat /\ a * x \in Nat
  BY <1>1
<1> QED BY <1>2

\* The clamped span is positive, at most four times the time expected, and the
\* time expected is at most seven times it, four times if it divides by four.
LEMMA Clamped ==
  ASSUME NEW actual \in Int, NEW span \in Nat \ {0}
  PROVE  LET a == ClampedSpan(AtLeastOne(actual), span)
         IN /\ a \in Nat \ {0} /\ a <= 4 * span /\ span <= 7 * a
            /\ span % 4 = 0 => span <= 4 * a
<1> DEFINE least == AtLeastOne(span \div 4)
           a == ClampedSpan(AtLeastOne(actual), span)
<1>1. least \in Nat \ {0} /\ least <= span /\ span <= 7 * least
      /\ (span % 4 = 0 => span <= 4 * least)
  BY DEF AtLeastOne
<1>2. AtLeastOne(actual) \in Nat \ {0}
  BY DEF AtLeastOne
<1>3. a \in Nat \ {0} /\ least <= a /\ a <= 4 * span
  <2> HIDE DEF least
  <2>1. a = IF AtLeastOne(actual) < least THEN least
            ELSE IF AtLeastOne(actual) > 4 * span THEN 4 * span ELSE AtLeastOne(actual)
    BY DEF ClampedSpan, least
  <2> HIDE DEF a
  <2> QED BY <1>1, <1>2, <2>1
<1> HIDE DEF least, a
<1>4. span <= 7 * a /\ (span % 4 = 0 => span <= 4 * a)
  BY <1>1, <1>3
<1> QED BY <1>3, <1>4 DEF a

\* A quotient of c * s by a is between c / m and n * c when s is between
\* a / m and n * a.
LEMMA Scaled ==
  ASSUME NEW c \in Nat \ {0}, NEW s \in Nat \ {0}, NEW a \in Nat \ {0}
  PROVE  /\ \A n \in Nat : s <= n * a => (c * s) \div a <= n * c
         /\ a <= 4 * s => c \div 4 <= (c * s) \div a
<1> DEFINE q == (c * s) \div a
<1>1. c * s \in Nat
  OBVIOUS
<1>2. q \in Nat /\ a * q <= c * s /\ c * s < a * (q + 1)
  BY <1>1, Quotient
<1> HIDE DEF q
<1>3. ASSUME NEW n \in Nat, s <= n * a PROVE q <= n * c
  <2>1. n * a \in Nat /\ n * c \in Nat
    OBVIOUS
  <2>2. s * c <= (n * a) * c
    BY <1>3, <2>1, Widen
  <2>3. (n * a) * c = a * (n * c) /\ s * c = c * s
    OBVIOUS
  <2>4. a * q <= a * (n * c)
    <3>1. a * q \in Nat /\ a * (n * c) \in Nat
      BY <1>2
    <3> QED BY <1>1, <1>2, <2>2, <2>3, <3>1
  <2> QED BY <1>2, <2>1, <2>4, Cancel
<1>4. ASSUME a <= 4 * s PROVE c \div 4 <= q
  <2>1. a * (q + 1) <= (4 * s) * (q + 1)
    BY <1>2, <1>4, Widen
  <2>2. (4 * s) * (q + 1) = s * (4 * (q + 1)) /\ c * s = s * c
    BY <1>2
  <2>3. s * c < s * (4 * (q + 1))
    <3>1. s * c \in Nat /\ s * (4 * (q + 1)) \in Nat /\ a * (q + 1) \in Nat
      BY <1>2
    <3> QED BY <1>2, <2>1, <2>2, <3>1
  <2>4. c < 4 * (q + 1)
    BY <1>2, <2>3, Cancel
  <2> QED BY <1>2, <2>4
<1> QED BY <1>3, <1>4 DEF q

\* CalcNextDifficulty says that its result is "clamped to [oldDiff/4, oldDiff*4]
\* and never below 1".  The upper bound holds where the time expected divides by
\* four and is 7 * oldDiff in general, as the least span is rounded down; the
\* lower one holds as long as the upper one fits a word, beyond which the result
\* is replaced by 1.
THEOREM RetargetBounded ==
  ASSUME NEW current \in 1 .. Word - 1, NEW actual \in Int, NEW expected \in Nat \ {0}
  PROVE  LET next == CalcNextDifficulty(current, actual, expected)
         IN /\ next \in 1 .. Word - 1
            /\ next <= 7 * current
            /\ expected % 4 = 0 => next <= 4 * current
            /\ 7 * current < Word => current \div 4 <= next
<1> DEFINE a == ClampedSpan(AtLeastOne(actual), expected)
           result == (current * expected) \div a
           next == CalcNextDifficulty(current, actual, expected)
<1>1. AtLeastOne(expected) = expected
  BY DEF AtLeastOne
<1>2. a \in Nat \ {0} /\ a <= 4 * expected /\ expected <= 7 * a
      /\ (expected % 4 = 0 => expected <= 4 * a)
  BY Clamped
<1>3. current \in Nat \ {0} /\ Word \in Nat
  BY PoWAssumption
<1>4. next = IF result \in 1 .. Word - 1 THEN result ELSE 1
  BY <1>1 DEF CalcNextDifficulty
<1> HIDE DEF a
<1>5. /\ result <= 7 * current
      /\ expected % 4 = 0 => result <= 4 * current
      /\ current \div 4 <= result
  BY <1>2, <1>3, Scaled
<1>6. result \in Nat
  <2>1. current * expected \in Nat
    BY <1>3
  <2> QED BY <1>2, <2>1, Quotient
<1> HIDE DEF result, next
<1>7. /\ next \in 1 .. Word - 1
      /\ next <= 7 * current
      /\ expected % 4 = 0 => next <= 4 * current
      /\ 7 * current < Word => current \div 4 <= next
  BY <1>3, <1>4, <1>5, <1>6
<1> QED BY <1>7 DEF next
=============================================================================
