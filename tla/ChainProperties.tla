-------------------------- MODULE ChainProperties ---------------------------
(***************************************************************************)
(* What Chain promises, and what the repository says of it that the code   *)
(* does not do.  The promises are made under the history variable broken:  *)
(* each says which of the named accidents it does not survive.             *)
(***************************************************************************)
EXTENDS Chain

\* TypeOK: the stores, the fields of Chain.state and the call in progress keep
\* their types in every phase of ProcessBlock, Reorg and recovery; in particular
\* fork and pos stay in the range the height index is read with.
TypeOK ==
  /\ blocks \subseteq Block
  /\ heightIdx \in [Heights -> Block \cup {None}]
  /\ txIdx \in [Tx -> Block \cup {None}]
  /\ undo \in [Block -> [spent : SUBSET Entry, reward : Nat] \cup {NoUndo}]
  /\ dbTip \in Block /\ dbHeight \in Heights
  /\ dbSupply \in Nat /\ dbCumDiff \in Nat
  /\ checkpoint \in BOOLEAN
  /\ utxo \subseteq Entry
  /\ registry \subseteq Outpoint
  /\ tip \in Block /\ height \in Heights
  /\ supply \in Nat /\ cumDiff \in Nat
  /\ regs \in Nat
  /\ validators \subseteq Validator
  /\ pc \in {"idle", "apply", "commit", "notify", "decide", "revert", "replay",
             "rebuild", "down", "recover", "boot"}
  /\ target \in Block
  /\ fork \in Heights
  /\ pos \in Nat
  /\ spent \subseteq Entry
  /\ accSupply \in Nat /\ accCumDiff \in Nat
  /\ broken \subseteq BrokenKinds

-----------------------------------------------------------------------------
(* Safety. *)

Idle == pc = "idle"

\* No accident that separates the UTXO set from the tip has happened.
LedgerUnbroken ==
  broken \cap {"torn", "replay", "stale", "rebuild", "capped"} = {}

\* Whenever ProcessBlock, a reorg or a restart has returned, the UTXO set, the
\* supply and the cumulative difficulty are those of the active chain: the
\* incremental updates of apply, revert and replay lose and invent nothing.
LedgerMatchesTip ==
  Idle /\ LedgerUnbroken =>
    /\ utxo = UtxoAt[tip]
    /\ supply = SupplyAt[tip]
    /\ cumDiff = WorkAt[tip]
    /\ height = Height[tip]

\* The persisted tip and the height index describe the chain in memory, so a
\* restart at any moment resumes the same chain, and sync serves it.
DatabaseMatchesMemory ==
  Idle /\ LedgerUnbroken =>
    /\ dbTip = tip /\ dbHeight = height
    /\ dbSupply = supply /\ dbCumDiff = cumDiff
    /\ ~ checkpoint
    /\ \A h \in 0 .. height : heightIdx[h] = Path[tip][h]

\* Every active block above StartTip can be undone: its record holds exactly
\* what the block spent and minted, also when RebuildUTXOs wrote the record.
ActiveBlocksCanBeUndone ==
  Idle /\ LedgerUnbroken =>
    \A h \in 1 .. height :
      LET b == Path[tip][h] IN
      \/ undo[b] = [spent |-> Spent(UtxoAt[Parent[b]], b), reward |-> Minted[b]]
      \/ undo[b] = NoUndo /\ h <= Height[StartTip]

\* A transaction is found by hash exactly when it is on the active chain, in
\* the block that holds it there, although branches share transactions.
TxIndexMatchesChain ==
  Idle /\ broken = {} =>
    \A t \in Tx :
      LET at == {h \in 0 .. height : t \in TxSet(Path[tip][h])}
      IN txIdx[t] = IF at = {} THEN None ELSE Path[tip][Max(at)]

\* The validator set that elects slots and bounds signing is the one the
\* stakes of the active chain define, through every order of staking,
\* unstaking, revert, replay and restart.
ValidatorsMatchStakes ==
  Idle /\ LedgerUnbroken /\ "rebuilt" \notin broken =>
    validators = GenesisValidators \cup StakedBy(OpsOf(utxo))

\* The sub-chain registry and the registration count that bounds it follow the
\* registrations of the active chain.
RegistryMatchesChain ==
  Idle /\ LedgerUnbroken =>
    /\ regs = Cardinality(RegisteredIn(utxo))
    /\ "handlers" \notin broken => registry = RegisteredIn(utxo)

\* Without a crash and with blocks that are valid on their own branch, no
\* accident happens at all: every replay that Reorg starts it completes.
NothingBreaks == broken = {}

\* Fork choice: a ProcessBlock call that returns leaves no tip lighter than the
\* block it was given, if the node was willing to consider it: PoA does not
\* consider a fork lower than the tip, and none forks too deep.
HeaviestConsidered ==
  [][ pc \notin {"down", "recover", "boot"} /\ pc' = "idle" /\ LedgerUnbroken' =>
        \A b \in (blocks' \ blocks) \cup (IF pc = "idle" THEN {} ELSE {target}) :
          /\ Engine = "PoW" \/ Height[b] >= height
          /\ Height[b] - ForkHeight(b) <= MaxReorgDepth
          => WorkAt[b] <= WorkAt[tip'] ]_vars

\* The active tip only ever moves to more total work: equal work never flips
\* the chain, and the branch sums compare the right blocks.
TipGainsWork ==
  [][LedgerUnbroken' /\ pc # "down" => WorkAt[tip'] > WorkAt[tip]]_tip

\* The persisted tip, height and index belong together.  Of the crashes inside
\* rebuildReorg, those among its index writes and those between the tip and the
\* height may leave them apart (README, section 6).
Recoverable ==
  /\ height = Height[tip]
  /\ \A h \in 0 .. height : heightIdx[h] = Path[tip][h]

\* Recovery is complete: RebuildUTXOs ends with the ledger of the tip and usable
\* undo data if no accident happened, and after any accident that left tip, height
\* and index together, whatever the UTXO set and the totals were.  It only checks
\* that inputs exist, so the count needs blocks that keep the rules.
RecoveryRestoresLedger ==
  [][ /\ pc = "recover" /\ pc' = "boot"
      /\ LedgerUnbroken \/ Recoverable
      => /\ utxo' = UtxoAt[tip'] /\ dbTip' = tip'
         /\ supply' = SupplyAt[tip'] /\ dbSupply' = supply'
         /\ cumDiff' = WorkAt[tip'] /\ dbCumDiff' = cumDiff'
         /\ (\A h \in 1 .. height : Path[tip][h] \in RuleOK) =>
              regs' = Cardinality(RegisteredIn(utxo'))
         /\ \A h \in 1 .. height : undo'[Path[tip][h]] # NoUndo ]_vars

-----------------------------------------------------------------------------
(* Refinement: Chain implements Ledger. *)

Up == pc \notin {"down", "recover", "boot"}
ShownTip == IF Up THEN tip ELSE dbTip

\* Callers see the UTXO set between two calls, and a tip only when up.
Promise == INSTANCE Ledger WITH
  up <- Up, chainTip <- ShownTip,
  ledger <- IF Idle THEN utxo ELSE UtxoAt[ShownTip]

\* Chain without crashes implements Ledger.
ImplementsLedger == Promise!LSpec

\* With crashes: every step up to the first accident is a step of Ledger.
StepsOfLedger == [][LedgerUnbroken' => [Promise!LNext]_(Promise!lvars)]_vars

-----------------------------------------------------------------------------
(* Liveness. *)

\* ProcessBlock runs to its end once called, and the peers' blocks keep being
\* offered (gossip, and the sync loop every ten seconds).
Fairness == /\ WF_vars(Running)
            /\ \A b \in Block : WF_vars(Process(b))

FairSpecAlive == SpecAlive /\ Fairness

Best == {b \in Block : \A c \in Block : WorkAt[b] >= WorkAt[c]}

\* Once every block has been offered, the node settles on a heaviest chain.
SettlesOnHeaviest == <>[](tip \in Best /\ Idle)

-----------------------------------------------------------------------------
(* What the repository says and the code does not do. *)

\* store.go: the single batch "prevents index corruption on crashes"; README:
\* a restart "resumes from the last tip".  Without a reorg in sight, the UTXO
\* set after a restart is that of the tip.
RestartResumesTip == Idle => utxo = UtxoAt[tip]

=============================================================================
