------------------------------- MODULE Chain --------------------------------
(***************************************************************************)
(* The chain of one node: internal/chain's ProcessBlock, Reorg,            *)
(* rebuildReorg and RebuildUTXOs over the block store and the UTXO store,  *)
(* with the validator set and the sub-chain registry the node's handlers   *)
(* keep from the same events.                                              *)
(*                                                                         *)
(* ProcessBlock holds the chain's mutex, so the phases of one block never  *)
(* interleave with those of another.  They are separate steps because the  *)
(* process may die between two writes: pc names the point reached.  A step *)
(* that makes several writes has an action for a death among them (below), *)
(* unless what they leave half-done is never read (README, section 2).     *)
(*                                                                         *)
(*   idle    the mutex is free                                             *)
(*   apply   fast path: validated, UTXO writes pending                     *)
(*   commit  fast path: UTXO set written, CommitBlock pending              *)
(*   notify  fast path: committed, handlers pending                        *)
(*   decide  fork block stored, Reorg called                               *)
(*   revert, replay   the two loops of Reorg                               *)
(*   rebuild the replay loop of rebuildReorg                               *)
(*   down    no process;  recover: New runs RebuildUTXOs;  boot: New done  *)
(***************************************************************************)
EXTENDS BlockTree, PoW, FiniteSetsExt

VARIABLES
  \* BadgerDB: survives a crash
  blocks,      \* blocks stored by hash
  heightIdx,   \* height -> block, None when absent
  txIdx,       \* transaction -> block it was indexed in, None when absent
  undo,        \* block -> undo record, NoUndo when absent
  dbTip, dbHeight, dbSupply, dbCumDiff,
  checkpoint,  \* the reorg checkpoint is present (its height is never read)
  utxo,
  registry,    \* sub-chain registry: registration outpoints
  \* process memory
  tip, height, supply, cumDiff,   \* Chain.state
  regs,        \* registeredSubChains
  validators,  \* PoA.Validators
  \* the ProcessBlock call or the recovery in progress
  pc, target, fork, pos, spent, accSupply, accCumDiff,
  \* history: the ways consistency was lost so far (see Broken below)
  broken

store  == <<blocks, heightIdx, txIdx, undo>>
db     == <<dbTip, dbHeight, dbSupply, dbCumDiff>>
mem    == <<tip, height, supply, cumDiff, regs>>
acc    == <<accSupply, accCumDiff>>
call   == <<target, fork, pos, spent>>
vars   == <<store, db, checkpoint, utxo, registry, mem, validators,
            pc, call, acc, broken>>

Heights == UNION {0 .. Height[b] : b \in Block}
NoUndo  == [spent |-> {}, reward |-> -1]

(***************************************************************************)
(* A definition named Op_Something directly above Op is Op with a          *)
(* programming error in it: the error that the property it is paired with  *)
(* (README, "Mutants") is there to catch.  No action uses it.              *)
(*                                                                         *)
(* broken records what happened, never how the model should behave: no     *)
(* guard reads it.                                                         *)
(*   "torn"     the process died between UTXO writes and CommitBlock       *)
(*   "handlers" ... between a commit or a revert and the end of the call   *)
(*   "replay"   a block of the new branch failed its replay in Reorg       *)
(*   "stale"    a reorg forked off a height index entry above the tip      *)
(*   "rebuilt"  rebuildReorg ran: it fires only half of the old branch's   *)
(*              handlers, against a UTXO set that still holds the branch   *)
(*   "rebuild"  the process died inside rebuildReorg, from its first       *)
(*              handler to the deletion of the checkpoint                  *)
(*   "capped"   rebuildReorg accepted a block that mints past MaxSupply    *)
(***************************************************************************)
BrokenKinds ==
  {"torn", "handlers", "replay", "stale", "rebuilt", "rebuild", "capped"}

-----------------------------------------------------------------------------
(* Consensus rules, as the engine and the chain evaluate them now. *)

\* validators[timestamp / blockTime % N] over the sorted current set, with
\* Timestamp counted in block times.
SlotValidator(ts) ==
  CHOOSE v \in validators :
    Cardinality({w \in validators : w < v}) = ts % Cardinality(validators)

VerifyHeader(b) ==
  /\ Engine = "PoA" =>
       /\ Signer[b] \in validators
       /\ Signer[b] \in GenesisValidators \/ HasStake(utxo, Signer[b])
       /\ Difficulty[b] = IF Signer[b] = SlotValidator(Timestamp[b]) THEN 2 ELSE 1
  /\ Engine = "PoW" => Difficulty[b] > 0

\* Retargeting reads the ancestors through the height index.
Timestamps == [h \in {h \in Heights : heightIdx[h] # None} |-> Timestamp[heightIdx[h]]]
VerifyDifficulty(b) ==
  LET before == heightIdx[Height[b] - 1] IN
  Engine = "PoW" =>
    /\ Height[b] > 1 => before # None
    /\ Difficulty[b] = ExpectedDifficulty(
         Height[b], IF Height[b] > 1 THEN Difficulty[before] ELSE 0, Timestamps)

SigningLimit == IF Cardinality(validators) <= 1 THEN 0
                ELSE Cardinality(validators) \div 2 + 1

\* IdentifySigner knows only the keys of the current set.
SignedBy(b, v) == b # None /\ v \in validators /\ Signer[b] = v

CheckSigningLimit_OwnHeight(b) ==
  Engine = "PoA" =>
    \A i \in 0 .. SigningLimit - 1 :
      i <= Height[b] => ~ SignedBy(heightIdx[Height[b] - i], Signer[b])

CheckSigningLimit(b) ==
  Engine = "PoA" =>
    \A i \in 1 .. SigningLimit - 1 :
      i <= Height[b] => ~ SignedBy(heightIdx[Height[b] - i], Signer[b])

CheckTimestamp(b) == ~ (Timestamp[b] < Timestamp[Parent[b]])

SpendOK(b, o) ==
  \E u \in utxo :
    /\ u.op = o
    /\ ~ (u.coinbase /\ Height[b] - u.height < CoinbaseMaturity)
    /\ ~ (u.lock > 0 /\ Height[b] < u.lock)

AllowedMint(b) ==
  IF MaxSupply = 0 THEN BlockSubsidy[b]
  ELSE IF supply >= MaxSupply THEN 0
  ELSE IF BlockSubsidy[b] > MaxSupply - supply THEN MaxSupply - supply
  ELSE BlockSubsidy[b]

\* validateRegistrations: every output is checked against the count so far.
RegistrationsOK(b) ==
  Registers(b) # {} => regs + Cardinality(Registers(b)) <= MaxSubChains

ValidateBlockState(b) ==
  /\ b \in RuleOK
  /\ \A o \in Spends(b) : SpendOK(b, o)
  /\ Minted[b] <= AllowedMint(b)
  /\ RegistrationsOK(b)

CapReward(reward, soFar) ==
  IF MaxSupply = 0 THEN reward
  ELSE IF soFar >= MaxSupply THEN 0
  ELSE IF reward > MaxSupply - soFar THEN MaxSupply - soFar
  ELSE reward

-----------------------------------------------------------------------------
(* Writes and handlers. *)

IndexHeight_Forgotten(idx, b) == idx
IndexHeight(idx, b) == [idx EXCEPT ![Height[b]] = b]

IndexTxs(idx, b) == [t \in Tx |-> IF t \in TxSet(b) THEN b ELSE idx[t]]
UnindexTxs_Forgotten(idx, b) == idx
UnindexTxs(idx, b) == [t \in Tx |-> IF t \in TxSet(b) THEN None ELSE idx[t]]

WithUndo_Forgotten(b, rec) == undo
WithUndo(b, rec) == [undo EXCEPT ![b] = rec]

ClearAll_Kept(U) == U
ClearAll(U) == {}

\* CommitBlock's batch.
CommitBatch(b, undoRec, newSupply, newCumDiff) ==
  /\ blocks' = blocks \cup {b}
  /\ heightIdx' = IndexHeight(heightIdx, b)
  /\ txIdx' = IndexTxs(txIdx, b)
  /\ undo' = WithUndo(b, undoRec)
  /\ dbTip' = b
  /\ dbHeight' = Height[b]
  /\ dbSupply' = newSupply
  /\ dbCumDiff' = newCumDiff

\* The stake handler adds, the unstake handler removes a validator that has
\* no stake left in U; genesis validators are never removed.
Restake(vs, owners) == vs \cup owners
Unstake(vs, owners, U) ==
  {v \in vs : ~ (v \in owners \ GenesisValidators /\ ~ HasStake(U, v))}

HandleRegistration(reg, ops) ==
  IF Cardinality(reg \cup ops) <= MaxSubChains THEN reg \cup ops ELSE reg

\* Handlers of a block that joins the active chain, U being the set after it.
JoinHandlers(b, U, spentByB) ==
  /\ registry' = HandleRegistration(registry, Registers(b))
  /\ validators' = Unstake(Restake(validators, StakedBy(Creates(b))),
                           StakedBy(OpsOf(spentByB)), U)

\* Handlers of a block that is reverted, U being the set after the revert.
LeaveHandlers_NotRestaked(b, U, spentByB) ==
  /\ registry' = registry \ Registers(b)
  /\ validators' = Unstake(validators, StakedBy(Creates(b)), U)

LeaveHandlers_NotDeregistered(b, U, spentByB) ==
  /\ registry' = registry
  /\ validators' = Restake(Unstake(validators, StakedBy(Creates(b)), U),
                           StakedBy(OpsOf(spentByB)))

LeaveHandlers(b, U, spentByB) ==
  /\ registry' = registry \ Registers(b)
  /\ validators' = Restake(Unstake(validators, StakedBy(Creates(b)), U),
                           StakedBy(OpsOf(spentByB)))

-----------------------------------------------------------------------------
OnPath(t) == {Path[StartTip][h] : h \in {g \in 0 .. Height[StartTip] :
                                           t \in TxSet(Path[StartTip][g])}}

\* A consistent database at StartTip, written when blocks had no undo record
\* yet.  With StartTip = Genesis: what InitFromGenesis leaves.
Init ==
  /\ blocks = {Path[StartTip][h] : h \in 0 .. Height[StartTip]}
  /\ heightIdx = [h \in Heights |-> IF h <= Height[StartTip]
                                    THEN Path[StartTip][h] ELSE None]
  /\ txIdx = [t \in Tx |-> IF OnPath(t) = {} THEN None
                            ELSE CHOOSE b \in OnPath(t) : TRUE]
  /\ undo = [b \in Block |-> NoUndo]
  /\ dbTip = StartTip /\ dbHeight = Height[StartTip]
  /\ dbSupply = SupplyAt[StartTip] /\ dbCumDiff = WorkAt[StartTip]
  /\ checkpoint = FALSE
  /\ utxo = UtxoAt[StartTip]
  /\ registry = RegisteredIn(utxo)
  /\ tip = StartTip /\ height = Height[StartTip]
  /\ supply = SupplyAt[StartTip] /\ cumDiff = WorkAt[StartTip]
  /\ regs = Cardinality(RegisteredIn(utxo))
  /\ validators = GenesisValidators \cup StakedBy(OpsOf(utxo))
  /\ pc = "idle"
  /\ target = Genesis /\ fork = 0 /\ pos = 0 /\ spent = {}
  /\ accSupply = 0 /\ accCumDiff = 0
  /\ broken = {}

-----------------------------------------------------------------------------
(* ProcessBlock, fast path. *)

\* ProcessBlock up to the first write, for a block that extends the tip.
Accept(b) ==
  /\ pc = "idle"
  /\ b \notin blocks
  /\ Parent[b] = tip /\ Height[b] = height + 1
  /\ VerifyDifficulty(b)
  /\ VerifyHeader(b)
  /\ CheckTimestamp(b)
  /\ CheckSigningLimit(b)
  /\ ValidateBlockState(b)
  /\ pc' = "apply" /\ target' = b
  /\ UNCHANGED <<store, db, checkpoint, utxo, registry, mem, validators,
                 fork, pos, spent, acc, broken>>

\* applyBlockWithUndo.
Apply ==
  /\ pc = "apply"
  /\ spent' = Spent(utxo, target)
  /\ utxo' = Applied(utxo, target, Size(target))
  /\ pc' = "commit"
  /\ UNCHANGED <<store, db, checkpoint, registry, mem, validators,
                 target, fork, pos, acc, broken>>

\* CommitBlock, then the in-memory state.
Commit ==
  LET reward == CapReward(Minted[target], supply)
  IN
  /\ pc = "commit"
  /\ CommitBatch(target, [spent |-> spent, reward |-> reward],
                 supply + reward, cumDiff + Difficulty[target])
  /\ supply' = supply + reward
  /\ cumDiff' = cumDiff + Difficulty[target]
  /\ tip' = target /\ height' = Height[target]
  /\ regs' = regs + Cardinality(Registers(target))
  /\ pc' = "notify"
  /\ UNCHANGED <<checkpoint, utxo, registry, validators, call, acc, broken>>

Notify ==
  /\ pc = "notify"
  /\ JoinHandlers(target, utxo, spent)
  /\ pc' = "idle" /\ spent' = {}
  /\ UNCHANGED <<store, db, checkpoint, utxo, mem, target, fork, pos, acc,
                 broken>>

-----------------------------------------------------------------------------
(* ProcessBlock, fork path, and Reorg. *)

\* PoW attempts every fork, PoA only one at least as high as the tip.
ShouldAttempt_HigherOnly(b) == Height[b] > height \/ Engine = "PoW"
ShouldAttempt_AsPoA(b) == Height[b] >= height
ShouldAttempt(b) == Height[b] >= height \/ Engine = "PoW"

\* A fork block's difficulty, signing limit and UTXO rules wait for the replay.
StoreFork(b) ==
  /\ pc = "idle"
  /\ b \notin blocks
  /\ Parent[b] # tip /\ Parent[b] \in blocks
  /\ VerifyHeader(b)
  /\ CheckTimestamp(b)
  /\ blocks' = blocks \cup {b}
  /\ IF ShouldAttempt(b) THEN pc' = "decide" /\ target' = b
                         ELSE UNCHANGED <<pc, target>>
  /\ UNCHANGED <<heightIdx, txIdx, undo, db, checkpoint, utxo, registry, mem,
                 validators, fork, pos, spent, acc, broken>>

\* Where collectBranch, walking down from b, first meets the height index.
ForkHeight(b) == Max({h \in 0 .. Height[b] - 1 : heightIdx[h] = Path[b][h]})

\* The difficulties above f, up to n, of the blocks the function at gives.
WorkAbove(at, f, n) ==
  LET sum[h \in 0 .. n] == IF h <= f THEN 0 ELSE sum[h - 1] + Difficulty[at[h]]
  IN sum[n]

BranchWork_WithForkBlock(b, f) ==
  WorkAbove(Path[b], f, Height[b]) + Difficulty[Path[b][f]]
BranchWork(b, f) == WorkAbove(Path[b], f, Height[b])
OldWork(f) == WorkAbove(heightIdx, f, height)

\* Equal work keeps the current chain.
MoreWork_OrEqual(new, old) == new >= old
MoreWork(new, old) == new > old

Outweighs(b, f) ==
  /\ Height[b] - f <= MaxReorgDepth
  /\ \A h \in f + 1 .. height : heightIdx[h] # None
  /\ MoreWork(BranchWork(b, f), OldWork(f))

KeepCurrent ==
  /\ pc = "decide"
  /\ ~ Outweighs(target, ForkHeight(target))
  /\ pc' = "idle"
  /\ UNCHANGED <<store, db, checkpoint, utxo, registry, mem, validators, call,
                 acc, broken>>

StartReorg ==
  /\ pc = "decide"
  /\ Outweighs(target, ForkHeight(target))
  /\ fork' = ForkHeight(target)
  /\ checkpoint' = TRUE
  /\ IF fork' < height THEN pc' = "revert" /\ pos' = height
                       ELSE pc' = "replay" /\ pos' = fork'
  /\ broken' = IF fork' > height THEN broken \cup {"stale"} ELSE broken
  /\ UNCHANGED <<store, db, utxo, registry, mem, validators, target, spent, acc>>

OldBlock == heightIdx[pos]

\* One turn of the revert loop; the underflow checks end the call half-way.
RevertBlock ==
  LET b   == OldBlock
      rec == undo[b]
      n   == Cardinality(Registers(b))
      okSupply == rec.reward <= supply
      okRegs   == okSupply /\ n <= regs
      okWork   == okRegs /\ Difficulty[b] <= cumDiff
  IN
  /\ pc = "revert"
  /\ rec # NoUndo
  /\ utxo' = Reverted(utxo, b, rec.spent)
  /\ txIdx' = UnindexTxs(txIdx, b)
  /\ LeaveHandlers(b, utxo', rec.spent)
  /\ supply' = IF okSupply THEN supply - rec.reward ELSE supply
  /\ regs' = IF okRegs THEN regs - n ELSE regs
  /\ cumDiff' = IF okWork THEN cumDiff - Difficulty[b] ELSE cumDiff
  /\ undo' = IF okWork THEN [undo EXCEPT ![b] = NoUndo] ELSE undo
  /\ pos' = IF okWork THEN pos - 1 ELSE pos
  /\ pc' = IF ~ okWork THEN "idle" ELSE IF pos' = fork THEN "replay" ELSE "revert"
  /\ broken' = IF okWork THEN broken ELSE broken \cup {"replay"}
  /\ UNCHANGED <<blocks, heightIdx, db, checkpoint, tip, height, target, fork,
                 spent, acc>>

NewBlock == Path[target][pos + 1]

ReplayValid(b) ==
  /\ VerifyHeader(b)
  /\ VerifyDifficulty(b)
  /\ CheckSigningLimit(b)
  /\ ValidateBlockState(b)

\* One turn of the replay loop.  It commits the tip of the database block by
\* block; Chain.state keeps the old tip until the loop is over.
ReplayBlock ==
  LET b == NewBlock
      reward == CapReward(Minted[b], supply)
  IN
  /\ pc = "replay"
  /\ pos < Height[target]
  /\ ReplayValid(b)
  /\ utxo' = Applied(utxo, b, Size(b))
  /\ CommitBatch(b, [spent |-> Spent(utxo, b), reward |-> reward],
                 supply + reward, cumDiff + Difficulty[b])
  /\ supply' = supply + reward
  /\ cumDiff' = cumDiff + Difficulty[b]
  /\ regs' = regs + Cardinality(Registers(b))
  /\ JoinHandlers(b, utxo', Spent(utxo, b))
  /\ pos' = pos + 1
  /\ UNCHANGED <<checkpoint, tip, height, pc, target, fork, spent, acc, broken>>

\* Reorg returns the error and leaves everything where the loops got to.
ReplayFails ==
  /\ pc = "replay"
  /\ pos < Height[target]
  /\ ~ ReplayValid(NewBlock)
  /\ pc' = "idle"
  /\ broken' = broken \cup {"replay"}
  /\ UNCHANGED <<store, db, checkpoint, utxo, registry, mem, validators, call, acc>>

ReplayDone == pos = Height[target]

FinishReorg ==
  /\ pc = "replay"
  /\ ReplayDone
  /\ tip' = target /\ height' = Height[target]
  /\ checkpoint' = FALSE
  /\ pc' = "idle"
  /\ UNCHANGED <<store, db, utxo, registry, supply, cumDiff, regs, validators,
                 call, acc, broken>>

-----------------------------------------------------------------------------
(* rebuildReorg: a block to revert has no undo record. *)

OldBlocks == {heightIdx[h] : h \in fork + 1 .. height} \ {None}

MissingUndo == pc = "revert" /\ undo[OldBlock] = NoUndo

DeregisterOldBlocks ==
  registry' = registry \ UNION {Registers(b) : b \in OldBlocks}

\* PutBlock of the new branch's blocks, up to height n.
IndexBranch(n) ==
  /\ heightIdx' = [h \in Heights |-> IF h \in fork + 1 .. n THEN Path[target][h]
                                     ELSE heightIdx[h]]
  /\ txIdx' = [t \in Tx |->
                 LET at == {h \in fork + 1 .. n : t \in TxSet(Path[target][h])}
                 IN IF at = {} THEN txIdx[t] ELSE Path[target][Max(at)]]

\* The handlers of the old branch, the new branch's indexes, ClearAll.  The
\* unstake handler still sees the old branch's stakes in the UTXO set.
StartRebuild ==
  /\ MissingUndo
  /\ DeregisterOldBlocks
  /\ validators' = Unstake(validators,
                           UNION {StakedBy(Creates(b)) : b \in OldBlocks}, utxo)
  /\ IndexBranch(Height[target])
  /\ utxo' = ClearAll(utxo)
  /\ regs' = 0
  /\ accSupply' = 0 /\ accCumDiff' = 0
  /\ pos' = 0
  /\ pc' = "rebuild"
  /\ broken' = broken \cup {"rebuilt"}
  /\ UNCHANGED <<blocks, undo, db, checkpoint, tip, height, supply, cumDiff,
                 target, fork, spent>>

Applicable(b) == b # None /\ Spends(b) \subseteq OpsOf(utxo)

\* PutUndo stores the uncapped reward.
ReapplyBlock(b) ==
  /\ utxo' = Applied(utxo, b, Size(b))
  /\ undo' = WithUndo(b, [spent |-> Spent(utxo, b), reward |-> Minted[b]])
  /\ accCumDiff' = accCumDiff + Difficulty[b]
  /\ regs' = regs + Cardinality(Registers(b))
  /\ pos' = pos + 1

RebuildOK(b) == Applicable(b) /\ (pos > fork => ReplayValid(b))

\* validateBlockState still bounds the mint by the supply in Chain.state.
RebuildBlock ==
  LET b == heightIdx[pos]
      reward == CapReward(Minted[b], accSupply)
  IN
  /\ pc = "rebuild"
  /\ pos <= Height[target]
  /\ RebuildOK(b)
  /\ ReapplyBlock(b)
  /\ accSupply' = accSupply + reward
  /\ broken' = IF reward = Minted[b] THEN broken ELSE broken \cup {"capped"}
  /\ IF pos > fork THEN JoinHandlers(b, utxo', Spent(utxo, b))
                   ELSE UNCHANGED <<registry, validators>>
  /\ UNCHANGED <<blocks, heightIdx, txIdx, db, checkpoint, tip, height, supply,
                 cumDiff, pc, target, fork, spent>>

RebuildFails ==
  /\ pc = "rebuild"
  /\ pos <= Height[target]
  /\ ~ RebuildOK(heightIdx[pos])
  /\ pc' = "idle"
  /\ broken' = broken \cup {"replay"}
  /\ UNCHANGED <<store, db, checkpoint, utxo, registry, mem, validators, call, acc>>

Rebuilt == pc = "rebuild" /\ pos > Height[target]

\* The first n writes of SetTip (tip, height, supply) and, after it,
\* SetCumulativeDifficulty: a key each.
PersistTip(n) ==
  /\ dbTip'     = IF n > 0 THEN target ELSE dbTip
  /\ dbHeight'  = IF n > 1 THEN Height[target] ELSE dbHeight
  /\ dbSupply'  = IF n > 2 THEN accSupply ELSE dbSupply
  /\ dbCumDiff' = IF n > 3 THEN accCumDiff ELSE dbCumDiff

FinishRebuild ==
  /\ Rebuilt
  /\ tip' = target /\ height' = Height[target]
  /\ supply' = accSupply /\ cumDiff' = accCumDiff
  /\ PersistTip(4)
  /\ checkpoint' = FALSE
  /\ pc' = "idle"
  /\ UNCHANGED <<store, utxo, registry, regs, validators, call, acc, broken>>

-----------------------------------------------------------------------------
(* Death of the process, and chain.New with the node's start-up after it. *)

\* The process dies between two transactions of applyBlockWithUndo, or at any
\* other point; memory is lost, the database keeps what was written.
Crash ==
  /\ pc # "down"
  /\ IF pc = "apply"
       THEN \E k \in 0 .. Size(target) :
              /\ utxo' = Applied(utxo, target, k)
              /\ broken' = IF k = 0 THEN broken ELSE broken \cup {"torn"}
       ELSE /\ UNCHANGED utxo
            /\ broken' = broken \cup
                 CASE pc = "commit" -> {"torn"}
                   [] pc \in {"notify", "revert", "replay"} -> {"handlers"}
                   [] pc = "rebuild" -> {"rebuild"}
                   [] OTHER -> {}
  /\ pc' = "down"
  /\ UNCHANGED <<store, db, checkpoint, registry, mem, validators, call, acc>>

\* ... or among the writes of rebuildReorg: after its handlers, with a part of the
\* new branch indexed ...
CrashWhileIndexing ==
  /\ MissingUndo
  /\ DeregisterOldBlocks
  /\ \E n \in fork .. Height[target] : IndexBranch(n)
  /\ pc' = "down"
  /\ broken' = broken \cup {"rebuilt", "rebuild"}
  /\ UNCHANGED <<blocks, undo, db, checkpoint, utxo, mem, validators, call, acc>>

\* ... or at its end, with a part of the new tip written and the checkpoint there.
CrashWhileFinishing ==
  /\ Rebuilt
  /\ \E n \in 1 .. 4 : PersistTip(n)
  /\ pc' = "down"
  /\ broken' = broken \cup {"rebuild"}
  /\ UNCHANGED <<store, checkpoint, utxo, registry, mem, validators, call, acc>>

CrashInRebuild == CrashWhileIndexing \/ CrashWhileFinishing

MustRebuild_Never == FALSE
MustRebuild == checkpoint

CountRegistered == Cardinality(RegisteredIn(utxo))

\* New: GetTip, the registration count and, with a checkpoint, RebuildUTXOs.
\* SetConsensusRules runs later, so the supply is rebuilt without a cap.
Restart ==
  /\ pc = "down"
  /\ tip' = dbTip /\ height' = dbHeight
  /\ supply' = dbSupply /\ cumDiff' = dbCumDiff
  /\ validators' = GenesisValidators
  /\ IF MustRebuild
       THEN /\ utxo' = ClearAll(utxo) /\ regs' = 0 /\ pos' = 0
            /\ pc' = "recover"
       ELSE /\ regs' = CountRegistered
            /\ pc' = "boot"
            /\ UNCHANGED <<utxo, pos>>
  /\ accSupply' = 0 /\ accCumDiff' = 0
  /\ target' = Genesis /\ fork' = 0 /\ spent' = {}
  /\ UNCHANGED <<store, db, checkpoint, registry, broken>>

\* One turn of the RebuildUTXOs loop; an error stops the node.
RecoverBlock ==
  LET b == heightIdx[pos] IN
  /\ pc = "recover"
  /\ pos <= height
  /\ IF Applicable(b)
       THEN /\ ReapplyBlock(b)
            /\ accSupply' = accSupply + Minted[b]
            /\ UNCHANGED pc
       ELSE /\ pc' = "down"
            /\ UNCHANGED <<utxo, undo, acc, regs, pos>>
  /\ UNCHANGED <<blocks, heightIdx, txIdx, db, checkpoint, registry, tip, height,
                 supply, cumDiff, validators, target, fork, spent, broken>>

FinishRecovery ==
  /\ pc = "recover"
  /\ pos > height
  /\ supply' = accSupply /\ cumDiff' = accCumDiff
  /\ dbSupply' = accSupply /\ dbCumDiff' = accCumDiff
  /\ checkpoint' = FALSE
  /\ pc' = "boot"
  /\ UNCHANGED <<store, dbTip, dbHeight, utxo, registry, tip, height, regs,
                 validators, call, acc, broken>>

RecoveredStakes_None == {}
RecoveredStakes == IF height > 0 THEN StakedBy(OpsOf(utxo)) ELSE {}

\* The rest of node start-up: the staked validators come back from the UTXO
\* set; --rebuild-indexes rewrites the indexes from the tip down.
Boot(rebuildIndexes) ==
  /\ pc = "boot"
  /\ validators' = validators \cup RecoveredStakes
  /\ IF ~ rebuildIndexes
       THEN UNCHANGED <<heightIdx, txIdx>> /\ pc' = "idle"
       ELSE IF Height[dbTip] # dbHeight
       THEN UNCHANGED <<heightIdx, txIdx>> /\ pc' = "down"
       ELSE /\ heightIdx' = [h \in Heights |->
                               IF h <= dbHeight THEN Path[dbTip][h] ELSE heightIdx[h]]
            /\ txIdx' = [t \in Tx |->
                 LET at == {h \in 0 .. dbHeight : t \in TxSet(Path[dbTip][h])}
                 IN IF at = {} THEN txIdx[t] ELSE Path[dbTip][Max(at)]]
            /\ pc' = "idle"
  /\ UNCHANGED <<blocks, undo, db, checkpoint, utxo, registry, mem, call, acc,
                 broken>>

-----------------------------------------------------------------------------
Process(b) == Accept(b) \/ StoreFork(b)

Running == \/ Apply \/ Commit \/ Notify
           \/ KeepCurrent \/ StartReorg \/ RevertBlock
           \/ ReplayBlock \/ ReplayFails \/ FinishReorg
           \/ StartRebuild \/ RebuildBlock \/ RebuildFails \/ FinishRebuild

StartUp == Restart \/ RecoverBlock \/ FinishRecovery \/ \E r \in BOOLEAN : Boot(r)

Next == \/ \E b \in Block : Process(b)
        \/ Running
        \/ StartUp
        \/ Crash
        \/ CrashInRebuild

Spec == Init /\ [][Next]_vars

\* The same node when the process never dies.
NextAlive == (\E b \in Block : Process(b)) \/ Running

SpecAlive == Init /\ [][NextAlive]_vars
=============================================================================
