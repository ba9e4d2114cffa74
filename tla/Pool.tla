------------------------------- MODULE Pool -------------------------------
(***************************************************************************)
(* The mempool of one node beside the goroutines that use it: gossip and   *)
(* RPC submissions, the block handlers that call ProcessBlock and then     *)
(* RemoveConfirmed, the reorganisation that returns reverted transactions, *)
(* and the block producer, which reads pool, supply, height and tip hash   *)
(* one after the other without the chain's lock.                           *)
(*                                                                         *)
(* A block hash is the path it commits to: the sequence of blocks from the *)
(* start of the model to the block. `view` is the path whose outputs are   *)
(* in the UTXO database; it runs ahead of `tipHash` and `tipHeight`, the   *)
(* fields that ProcessBlock and Reorg assign last and one by one.          *)
(***************************************************************************)
EXTENDS Integers, Sequences, FiniteSets

CONSTANTS
  Tx,         \* transactions that may be submitted
  None,       \* no transaction
  Outpoint,
  Ins, Outs,  \* the outpoints a transaction spends and creates
  Rate,       \* its fee per byte
  Start,      \* outpoints unspent at the start of the model
  Coin,       \* the coinbase outpoint of a foreign block, by height
  Allowed,    \* transactions that pass the checks that read no chain state
  MaxSize,    \* pool capacity
  BlockLimit, \* transactions selected for a block
  CoinbaseMaturity,
  Word,       \* 2^64: heights are subtracted modulo Word
  MaxSupply,
  Engine,     \* "PoA", or "PoW" as in some sub-chains
  MaxHeight,  \* bound on the height
  MaxForeign  \* bound on the blocks other nodes produce

ASSUME TxAssumption ==
  /\ None \notin Tx
  /\ Ins \in [Tx -> SUBSET Outpoint]
  /\ Outs \in [Tx -> SUBSET Outpoint]
  /\ Rate \in [Tx -> Nat]
ASSUME BoundAssumption ==
  /\ MaxSize \in Nat \ {0} /\ BlockLimit \in Nat
  /\ CoinbaseMaturity \in Nat /\ Word \in Nat \ {0}
  /\ MaxSupply \in Nat /\ MaxHeight \in Nat /\ MaxForeign \in Nat
ASSUME StartAssumption ==
  /\ Start \subseteq Outpoint
  /\ Coin \in [1..MaxHeight -> Outpoint]
  /\ Allowed \subseteq {t \in Tx : Ins[t] # {}}

VARIABLES
  pool,       \* Pool.txs
  spends,     \* Pool.spends: outpoint -> transaction
  adding,     \* the Add that holds the pool's lock between its two readings
  known,      \* the block store: every path stored
  view,       \* the path the UTXO database reflects
  tipHash, tipHeight,  \* Chain.state
  job,        \* the ProcessBlock that holds the chain's lock
  toRemove,   \* per goroutine: what it is about to remove from the pool
  miner       \* the block being assembled

poolVars  == <<pool, spends, adding>>
chainVars == <<known, view, tipHash, tipHeight, job>>
vars      == <<poolVars, chainVars, toRemove, miner>>

Caller == {"net", "me"}
Free == [tx |-> None, by |-> "user"]
Idle == [pc |-> "idle", by |-> "net", target |-> <<>>, back |-> {}]
Off  == [pc |-> "off", txs |-> {}, mint |-> 0, coinbase |-> 0, prev |-> <<>>, height |-> 0]

-----------------------------------------------------------------------------
(* Paths: a block is [txs, weight, mint, coinbase]; coinbase is the height   *)
(* an own block writes into its coinbase input, 0 in a foreign block.        *)

Last(p)   == p[Len(p)]
Parent(p) == SubSeq(p, 1, Len(p) - 1)
Under(p, q) == Len(p) <= Len(q) /\ p = SubSeq(q, 1, Len(p))
TxsOf(p)  == UNION {p[i].txs : i \in DOMAIN p}
Work(p)   == Len(p) + Cardinality({i \in DOMAIN p : p[i].weight = 2})
Supply(p) == Cardinality({i \in DOMAIN p : p[i].mint = 1})
Utxo(p) ==
  (Start \cup UNION {Outs[t] : t \in TxsOf(p)}
     \cup {Coin[i] : i \in {j \in DOMAIN p : p[j].coinbase = 0}})
  \ UNION {Ins[t] : t \in TxsOf(p)}
Mature(o, h) == \A i \in DOMAIN Coin : Coin[i] = o => (h - i) % Word >= CoinbaseMaturity

\* What validateBlockState asks of a block whose parent's outputs are in p.
SpendsValid(b, p) ==
  /\ \A t \in b.txs : Ins[t] \subseteq Utxo(p)
  /\ \A t, u \in b.txs : t # u => Ins[t] \cap Ins[u] = {}
Reward(p)       == IF Supply(p) < MaxSupply THEN 1 ELSE 0
MintValid(b, p) == b.mint <= Reward(p)
MatureIn(b, p)  == \A t \in b.txs : \A o \in Ins[t] : Mature(o, Len(p) + 1)
Valid(b, p)     == SpendsValid(b, p) /\ MintValid(b, p) /\ MatureIn(b, p)

Init ==
  /\ pool = {} /\ spends = [o \in Outpoint |-> None] /\ adding = Free
  /\ known = {<<>>} /\ view = <<>> /\ tipHash = <<>> /\ tipHeight = 0
  /\ job = Idle
  /\ toRemove = [c \in Caller |-> {}]
  /\ miner = Off

-----------------------------------------------------------------------------
(* The pool.                                                                 *)

\* Add up to its reading of the height: duplicate, conflict, maturity. An
\* output the database does not hold yet passes.
Screened(t) ==
  /\ t \notin pool
  /\ \A o \in Ins[t] : spends[o] = None
  /\ \A o \in Ins[t] \cap Utxo(view) : Mature(o, tipHeight)

Unlink_Kept(ts) == spends
\* removeLocked clears the entries of all inputs of what it removes.
Unlink(ts) == [o \in Outpoint |-> IF \E t \in ts : o \in Ins[t] THEN None ELSE spends[o]]

Lowest(t) == t \in pool /\ \A u \in pool : Rate[t] <= Rate[u]

\* The rest of Add: validation against the outputs, the checks that read no
\* chain state, eviction of one lowest-paying transaction when full.
Insert(t) ==
  /\ Ins[t] \subseteq Utxo(view)
  /\ t \in Allowed
  /\ \E out \in IF Cardinality(pool) < MaxSize THEN {{}}
                ELSE {{u} : u \in {v \in pool : Lowest(v) /\ Rate[t] > Rate[v]}} :
       /\ pool' = (pool \ out) \cup {t}
       /\ spends' = [o \in Outpoint |-> IF o \in Ins[t] THEN t ELSE Unlink(out)[o]]

Refused(t) ==
  \/ ~ (Ins[t] \subseteq Utxo(view))
  \/ t \notin Allowed
  \/ Cardinality(pool) >= MaxSize /\ \A u \in pool : Rate[t] <= Rate[u]

\* pool.Add begins, for a transaction of a peer or of an RPC client.
Submit(t) ==
  /\ adding = Free /\ Screened(t)
  /\ adding' = [tx |-> t, by |-> "user"]
  /\ UNCHANGED <<pool, spends, chainVars, toRemove, miner>>

\* pool.Add ends.
FinishAdd ==
  /\ adding # Free
  /\ \/ Insert(adding.tx)
     \/ Refused(adding.tx) /\ UNCHANGED <<pool, spends>>
  /\ adding' = Free
  /\ UNCHANGED <<chainVars, toRemove, miner>>

\* RemoveConfirmed, or the producer's eviction after ErrCoinbaseNotMature.
Remove(c) ==
  /\ toRemove[c] # {} /\ adding = Free
  /\ pool' = pool \ toRemove[c]
  /\ spends' = Unlink(pool \cap toRemove[c])
  /\ toRemove' = [toRemove EXCEPT ![c] = {}]
  /\ UNCHANGED <<adding, chainVars, miner>>

-----------------------------------------------------------------------------
(* ProcessBlock and Reorg, as far as the pool can see them.                  *)

\* What the caller takes out of the pool: the transactions of a block that
\* ProcessBlock did not refuse, and, in a PoA miner, those of an own block
\* that it refused for an immature coinbase.
Confirmed_Kept(e) == {}
Confirmed(e) == e.txs
Evicted_Never(e)  == {}
Evicted_Always(e) == e.txs
Evicted(e) == IF Engine = "PoA" /\ SpendsValid(e, view) /\ MintValid(e, view) THEN e.txs ELSE {}

\* b is the path of the block, c the goroutine.
Process(c, b) ==
  LET e == Last(b) IN
  /\ job = Idle /\ b \notin known
  /\ \/ /\ Parent(b) = tipHash /\ Valid(e, view)
        /\ view' = Append(view, e)
        /\ known' = known \cup {b}
        /\ job' = [pc |-> "hash", by |-> c, target |-> b, back |-> {}]
        /\ UNCHANGED toRemove
     \/ /\ Parent(b) = tipHash /\ ~ Valid(e, view)
        /\ toRemove' = [toRemove EXCEPT ![c] = IF c = "me" THEN Evicted(e) ELSE @]
        /\ UNCHANGED <<view, known, job>>
     \/ /\ Parent(b) # tipHash
        /\ known' = known \cup {b}
        /\ IF (Len(b) >= tipHeight \/ Engine = "PoW") /\ Work(b) > Work(tipHash)
           THEN /\ job' = [pc |-> "revert", by |-> c, target |-> b, back |-> {}]
                /\ UNCHANGED toRemove
           ELSE /\ toRemove' = [toRemove EXCEPT ![c] = Confirmed(e)]
                /\ UNCHANGED job
        /\ UNCHANGED view
  /\ UNCHANGED <<tipHash, tipHeight>>

\* One block of the old branch is undone.
Revert ==
  /\ job.pc = "revert" /\ ~ Under(view, job.target)
  /\ view' = Parent(view)
  /\ job' = [job EXCEPT !.back = @ \cup Last(view).txs]
  /\ UNCHANGED <<poolVars, known, tipHash, tipHeight, toRemove, miner>>

\* One block of the new branch is validated and applied. At an invalid one
\* Reorg gives up and leaves the database where it is; what follows is in
\* Chain, here the chain takes no more blocks.
Replay ==
  /\ job.pc = "revert" /\ Under(view, job.target) /\ view # job.target
  /\ LET e == job.target[Len(view) + 1] IN
     IF Valid(e, view) THEN view' = Append(view, e) /\ UNCHANGED job
                       ELSE job' = [job EXCEPT !.pc = "broken"] /\ UNCHANGED view
  /\ UNCHANGED <<poolVars, known, tipHash, tipHeight, toRemove, miner>>

\* The tip's fields are assigned one after the other.
SetHash ==
  /\ job.pc = "hash" \/ (job.pc = "revert" /\ view = job.target)
  /\ tipHash' = job.target
  /\ job' = [job EXCEPT !.pc = "height", !.back = @ \ TxsOf(job.target)]
  /\ UNCHANGED <<poolVars, known, view, tipHeight, toRemove, miner>>
SetHeight ==
  /\ job.pc = "height"
  /\ tipHeight' = Len(job.target)
  /\ job' = [job EXCEPT !.pc = "return"]
  /\ UNCHANGED <<poolVars, known, view, tipHash, toRemove, miner>>

\* The reverted-transaction handler adds them back, one Add after another.
GiveBack(t) ==
  /\ job.pc = "return" /\ t \in job.back /\ adding = Free
  /\ job' = [job EXCEPT !.back = @ \ {t}]
  /\ IF Screened(t) THEN adding' = [tx |-> t, by |-> "reorg"] ELSE UNCHANGED adding
  /\ UNCHANGED <<pool, spends, known, view, tipHash, tipHeight, toRemove, miner>>

\* ProcessBlock returns; its caller goes on to RemoveConfirmed.
Return ==
  /\ job.pc = "return" /\ job.back = {} /\ adding.by # "reorg"
  /\ toRemove' = [toRemove EXCEPT ![job.by] = Confirmed(Last(job.target))]
  /\ job' = Idle
  /\ UNCHANGED <<poolVars, known, view, tipHash, tipHeight, miner>>

-----------------------------------------------------------------------------
(* Blocks of other nodes, each valid on its parent, and blocks of this one.  *)

Foreign == {p \in known : p # <<>> /\ Last(p).coinbase = 0}

Receive ==
  /\ job = Idle /\ toRemove["net"] = {} /\ Cardinality(Foreign) < MaxForeign
  /\ \E p \in known, ts \in SUBSET Tx, w \in {1, 2} :
       LET e == [txs |-> ts, weight |-> w, coinbase |-> 0,
                 mint |-> Reward(p)] IN
       /\ Len(p) < MaxHeight /\ Valid(e, p)
       /\ Process("net", Append(p, e))
  /\ UNCHANGED <<poolVars, miner>>

\* The producer's readings, in the order of produceBlock.
Select ==
  /\ miner.pc = "off" /\ toRemove["me"] = {} /\ adding = Free /\ tipHeight < MaxHeight
  /\ ~ (job.pc # "idle" /\ job.by = "me")
  /\ \E ts \in SUBSET pool :
       /\ Cardinality(ts) = IF Cardinality(pool) < BlockLimit THEN Cardinality(pool) ELSE BlockLimit
       /\ \A t \in ts, u \in pool \ ts : Rate[t] >= Rate[u]
       /\ miner' = [Off EXCEPT !.pc = "reward", !.txs = ts]
  /\ UNCHANGED <<poolVars, chainVars, toRemove>>
ReadSupply ==
  /\ miner.pc = "reward"
  /\ miner' = [miner EXCEPT !.pc = "coinbase", !.mint = Reward(view)]
  /\ UNCHANGED <<poolVars, chainVars, toRemove>>
BuildCoinbase ==
  /\ miner.pc = "coinbase"
  /\ miner' = [miner EXCEPT !.pc = "prev", !.coinbase = tipHeight + 1]
  /\ UNCHANGED <<poolVars, chainVars, toRemove>>
ReadTipHash ==
  /\ miner.pc = "prev"
  /\ miner' = [miner EXCEPT !.pc = "header", !.prev = tipHash]
  /\ UNCHANGED <<poolVars, chainVars, toRemove>>
ReadHeight ==
  /\ miner.pc = "header"
  /\ miner' = [miner EXCEPT !.pc = "seal", !.height = tipHeight + 1]
  /\ UNCHANGED <<poolVars, chainVars, toRemove>>

OwnBlock(w) == Append(miner.prev,
  [txs |-> miner.txs, weight |-> w, coinbase |-> miner.coinbase, mint |-> miner.mint])

\* The producer hands its block to ProcessBlock; a height that does not
\* follow the parent's, and a known block, are refused.
Produce ==
  /\ miner.pc = "seal" /\ job = Idle
  /\ \E w \in {1, 2} :
       IF miner.height = Len(miner.prev) + 1 /\ OwnBlock(w) \notin known
       THEN Process("me", OwnBlock(w))
       ELSE UNCHANGED <<chainVars, toRemove>>
  /\ miner' = Off
  /\ UNCHANGED poolVars

Next ==
  \/ \E t \in Tx : Submit(t) \/ GiveBack(t)
  \/ FinishAdd
  \/ \E c \in Caller : Remove(c)
  \/ Receive \/ Revert \/ Replay \/ SetHash \/ SetHeight \/ Return
  \/ Select \/ ReadSupply \/ BuildCoinbase \/ ReadTipHash \/ ReadHeight \/ Produce

Spec == Init /\ [][Next]_vars

\* A goroutine that has work goes on, and slots come round; nothing arrives
\* from outside by itself. Waiting for a lock is strongly fair: Go's mutexes
\* hand over to a goroutine that has waited for a millisecond.
Fairness ==
  /\ WF_vars(FinishAdd) /\ \A c \in Caller : SF_vars(Remove(c))
  /\ WF_vars(Revert \/ Replay \/ SetHash \/ SetHeight \/ Return) /\ SF_vars(\E t \in Tx : GiveBack(t))
  /\ SF_vars(Select) /\ WF_vars(ReadSupply \/ BuildCoinbase \/ ReadTipHash \/ ReadHeight) /\ SF_vars(Produce)
FairSpec == Spec /\ Fairness

-----------------------------------------------------------------------------

Block == [txs : SUBSET Tx, weight : {1, 2}, coinbase : Nat, mint : {0, 1}]
Path  == Seq(Block)
TypeOK ==
  /\ pool \subseteq Tx
  /\ spends \in [Outpoint -> Tx \cup {None}]
  /\ adding \in [tx : Tx \cup {None}, by : {"user", "reorg"}]
  /\ known \subseteq Path /\ {view, tipHash} \subseteq known
  /\ tipHeight \in Nat
  /\ job \in [pc : {"idle", "hash", "revert", "height", "return", "broken"}, by : Caller,
              target : Path, back : SUBSET Tx]
  /\ toRemove \in [Caller -> SUBSET Tx]
  /\ miner \in [pc : {"off", "reward", "coinbase", "prev", "header", "seal"}, txs : SUBSET Tx,
                mint : {0, 1}, coinbase : Nat, prev : Path, height : Nat]

\* The conflict index and the pool name the same transactions, so no two
\* transactions of the pool spend one output: over Add with eviction, Remove
\* and RemoveConfirmed (pool.go).
SpendsAgree ==
  \A o \in Outpoint : \A t \in Tx : spends[o] = t <=> (t \in pool /\ o \in Ins[t])

Linear  == \A p, q \in known : Under(p, q) \/ Under(q, p)
Settled == job = Idle /\ \A c \in Caller : toRemove[c] = {}

\* Without forks, nothing that a block of the chain confirmed stays in the
\* pool once the handlers of ProcessBlock's callers are done.
ConfirmedLeaves == Linear /\ Settled => pool \cap TxsOf(tipHash) = {}

\* Some output that ts spends is too young for a block up to height n.
Immature(ts, n) == \E t \in ts : \E o \in Ins[t] : \E h \in 1..n : ~ Mature(o, h)

Accounted(t) ==
  \/ t \in TxsOf(view)
  \/ Cardinality(pool') = MaxSize
  \/ t \in toRemove["me"] /\ Immature(toRemove["me"], tipHeight + 1)

\* As long as the node has stored no fork, a transaction leaves the pool
\* because the chain confirmed it, a better paying one needed its place, or the
\* chain refused an own block with an immature spend, with which all of that
\* block's go, even when blocks arrive in between (RemoveConfirmed, Add, the
\* evictions of runMiner).
UnforkedSurvive == [][Linear => \A t \in pool \ pool' : Accounted(t)]_vars

\* A pool that holds a transaction the next block cannot confirm.
HasStale == \E t \in pool : ~ Ins[t] \subseteq Utxo(view)

\* The producer extends the chain for ever, unless its pool holds a
\* transaction whose inputs are gone: nothing it reads while a block is being
\* applied stops it for good, and an immature spend admitted in the middle of
\* a reorg is evicted.
GrowsUnlessStale ==
  \A h \in 0..MaxHeight - 1 : []<>(tipHeight # h \/ HasStale \/ job.pc = "broken")
=============================================================================
