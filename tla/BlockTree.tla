----------------------------- MODULE BlockTree ------------------------------
(***************************************************************************)
(* The data the chain of internal/chain works on: blocks that know their   *)
(* parent, transactions that spend and create outputs, and the fixed       *)
(* consensus parameters.  A block is a value of the set Block; everything  *)
(* its bytes say is a function of it, because a block is addressed by the  *)
(* hash of those bytes.                                                    *)
(*                                                                         *)
(* UtxoAt, SupplyAt and WorkAt are the reference ledger: what the UTXO     *)
(* set, the coin supply and the cumulative difficulty have to be when a    *)
(* block is the tip, whatever the node went through to get there.          *)
(***************************************************************************)
EXTENDS Integers, Sequences, FiniteSets

CONSTANTS
  Block, Genesis, None,
  Parent, Height, Difficulty, Timestamp, Signer,  \* the header of each block
  TxsOf,               \* the transactions of each block, coinbase first
  Minted,              \* coinbase outputs minus the fees of the block
  RuleOK,              \* the blocks that break no rule left out of this model
  Tx, TxIn, TxOut,     \* outpoints a transaction spends and creates
  Outpoint, Kind, Owner,  \* script type, and the staked public key
  Validator, GenesisValidators,   \* numbered in the order of their keys
  Engine,              \* "PoA" or "PoW"
  CoinbaseMaturity, UnstakeCooldown, MaxSupply, BlockSubsidy, MaxSubChains,
  MaxReorgDepth,
  StartTip,            \* tip of the database the node is started on
  Path,                \* Path[b][h]: the ancestor of b at height h
  UtxoAt, SupplyAt, WorkAt

(***************************************************************************)
(* What pkg/block and the hash links guarantee of every block: a height    *)
(* one above its parent's, and one ancestor per height down to genesis.    *)
(***************************************************************************)
ASSUME TreeAssumption ==
  /\ Genesis \in Block /\ None \notin Block
  /\ IsFiniteSet(Block)
  /\ Height \in [Block -> Nat]
  /\ Parent \in [Block -> Block \cup {None}]
  /\ \A b \in Block : (Height[b] = 0) <=> (b = Genesis)
  /\ Parent[Genesis] = None
  /\ \A b \in Block \ {Genesis} :
        Parent[b] \in Block /\ Height[b] = Height[Parent[b]] + 1

ASSUME PathAssumption ==
  \A b \in Block :
    /\ Path[b] \in [0 .. Height[b] -> Block]
    /\ Path[b][Height[b]] = b
    /\ Path[b][0] = Genesis
    /\ \A h \in 0 .. Height[b] :
         /\ Height[Path[b][h]] = h
         /\ h > 0 => Parent[Path[b][h]] = Path[b][h - 1]
         /\ \A g \in 0 .. h : Path[Path[b][h]][g] = Path[b][g]

ASSUME DataAssumption ==
  /\ Difficulty \in [Block -> Nat]
  /\ Timestamp \in [Block -> Nat]
  /\ Signer \in [Block -> Validator \cup {None}]
  /\ Minted \in [Block -> Nat]
  /\ RuleOK \subseteq Block
  /\ TxsOf \in [Block -> Seq(Tx)]
  /\ TxIn \in [Tx -> SUBSET Outpoint]
  /\ TxOut \in [Tx -> SUBSET Outpoint]
  /\ IsFiniteSet(Outpoint)
  /\ Kind \in [Outpoint -> {"pay", "stake", "register"}]
  /\ Owner \in [Outpoint -> Validator \cup {None}]
  /\ \A o \in Outpoint : Kind[o] = "stake" => Owner[o] \in Validator
  /\ None \notin Validator /\ Validator \subseteq Nat
  /\ GenesisValidators \subseteq Validator
  /\ Engine \in {"PoA", "PoW"}
  /\ {CoinbaseMaturity, UnstakeCooldown, MaxSupply, MaxSubChains,
      MaxReorgDepth} \subseteq Nat
  /\ BlockSubsidy \in [Block -> Nat]
  /\ StartTip \in Block

(***************************************************************************)
(* The effect of a block's transactions on a UTXO set.                     *)
(***************************************************************************)

\* What the store keeps of an output (Value and Token play no part here: the
\* outpoint determines them).
Entry == [op : Outpoint, height : Nat, coinbase : BOOLEAN, lock : Nat]

OpsOf(U) == {u.op : u \in U}

\* Outpoints spent, and created, by the first k transactions of b.
Ins(b, k)  == UNION {TxIn[TxsOf[b][i]] : i \in 1 .. k}
Outs(b, k) == UNION {TxOut[TxsOf[b][i]] : i \in 1 .. k}

Size(b) == Len(TxsOf[b])
Spends(b) == Ins(b, Size(b))
Creates(b) == Outs(b, Size(b))
TxSet(b) == {TxsOf[b][i] : i \in 1 .. Size(b)}

\* The entry written for output o of the i-th transaction of b.  A transaction
\* that spends a stake locks its outputs for the unstake cooldown.
NewEntry(b, i, o) ==
  [op       |-> o,
   height   |-> Height[b],
   coinbase |-> i = 1 /\ Height[b] > 0,
   lock     |-> IF \E x \in TxIn[TxsOf[b][i]] : Kind[x] = "stake"
                THEN Height[b] + UnstakeCooldown ELSE 0]

NewEntries(b, k) ==
  UNION {{NewEntry(b, i, o) : o \in TxOut[TxsOf[b][i]]} : i \in 1 .. k}

\* The UTXO set after the first k transactions of b.
Applied(U, b, k) ==
  {u \in U : u.op \notin Ins(b, k) \cup Outs(b, k)} \cup NewEntries(b, k)

Spent(U, b) == {u \in U : u.op \in Spends(b)}

\* Deletes what the block created, puts back what it spent.
Reverted_NotRestored(U, b, spent) == {u \in U : u.op \notin Creates(b)}
Reverted(U, b, spent) ==
  {u \in U : u.op \notin Creates(b) \cup OpsOf(spent)} \cup spent

Registers(b) == {o \in Creates(b) : Kind[o] = "register"}
RegisteredIn(U) == {o \in OpsOf(U) : Kind[o] = "register"}
StakedBy_AnyScript(ops) == {Owner[o] : o \in ops}
StakedBy(ops) == {Owner[o] : o \in {x \in ops : Kind[x] = "stake"}}
HasStake(U, v) == \E u \in U : Kind[u.op] = "stake" /\ Owner[u.op] = v

(***************************************************************************)
(* The reference ledger.                                                   *)
(***************************************************************************)
ASSUME LedgerAssumption ==
  /\ UtxoAt \in [Block -> SUBSET Entry]
  /\ SupplyAt \in [Block -> Nat]
  /\ WorkAt \in [Block -> Nat]
  /\ WorkAt[Genesis] = Difficulty[Genesis]
  /\ UtxoAt[Genesis] = Applied({}, Genesis, Size(Genesis))
  /\ SupplyAt[Genesis] = Minted[Genesis]
  /\ \A b \in Block \ {Genesis} :
       /\ UtxoAt[b] = Applied(UtxoAt[Parent[b]], b, Size(b))
       /\ SupplyAt[b] = SupplyAt[Parent[b]] + Minted[b]
       /\ WorkAt[b] = WorkAt[Parent[b]] + Difficulty[b]

(***************************************************************************)
(* What hashes buy: two transactions never create the same output, and one *)
(* that spends nothing, the coinbase, sits at one height only, which       *)
(* BuildCoinbase puts into its hash.                                       *)
(***************************************************************************)
ASSUME IdAssumption ==
  /\ \A t, u \in Tx : t # u => TxOut[t] \cap TxOut[u] = {}
  /\ \A b, c \in RuleOK \cup {Genesis} : \A t \in TxSet(b) \cap TxSet(c) :
        TxIn[t] = {} => Height[b] = Height[c]

\* What validateBlockState has seen of a block it lets pass.
Checked(b) == b \in RuleOK /\ Spends(b) \subseteq OpsOf(UtxoAt[Parent[b]])

Sound(t) == \A h \in 1 .. Height[t] : Checked(Path[t][h])

\* Registrations are unspendable, genesis spends nothing and makes plain
\* payments, and the database the node starts on was written by such a node.
ASSUME RuleAssumption ==
  /\ \A b \in RuleOK : \A o \in Spends(b) : Kind[o] # "register"
  /\ Spends(Genesis) = {} /\ \A o \in Creates(Genesis) : Kind[o] = "pay"
  /\ Sound(StartTip)
=============================================================================
