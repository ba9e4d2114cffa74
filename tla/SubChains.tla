----------------------------- MODULE SubChains ------------------------------
(***************************************************************************)
(* The life of sub-chains on one node: the manager of                      *)
(* internal/subchain/manager.go, called by the root chain under its lock,  *)
(* and the goroutines that internal/node/node.go starts for each instance: *)
(* the starter that waits for the initial sync, syncs the sub-chain and    *)
(* starts its miner, the miner, and the handlers of gossip and RPC.        *)
(*                                                                         *)
(* An instance (SpawnResult) keeps its own copy of the tip in memory and   *)
(* writes to the prefix "sc/<id>/" of the node's database, which every     *)
(* instance of the same chain shares.  Of a block only its height matters  *)
(* here, and a block is applied in one step; what a block does to the      *)
(* database is the subject of Chain.                                       *)
(***************************************************************************)
EXTENDS Integers, FiniteSets, Functions

CONSTANTS
  Chains,        \* sub-chains the root chain may register: their IDs
  MaxPerParent,  \* limit of the rules on registered sub-chains
  Mined,         \* sub-chains this node mines or signs for
  Modes,         \* with P2P (TRUE), without (FALSE), or either
  Filters,       \* bound: the sets of sub-chains the sync filter may admit
  MaxInstances,  \* bound: instances alive at one time
  MaxHeight,     \* bound: height of a sub-chain
  Growing        \* bound: sub-chains of which there are blocks

ASSUME SubChainsAssumption ==
  /\ IsFiniteSet(Chains) /\ Chains # {}
  /\ MaxPerParent \in Nat \ {0}
  /\ Mined \subseteq Chains
  /\ Modes \subseteq BOOLEAN /\ Modes # {}
  /\ Filters \subseteq SUBSET Chains /\ Filters # {}
  /\ MaxInstances \in Nat /\ MaxInstances >= Cardinality(Chains)
  /\ MaxHeight \in Nat /\ Growing \subseteq Chains

VARIABLES
  up, p2p, wanted,  \* the process runs; its configuration (SyncFilter)
  synced,    \* initialSyncDone is closed
  registry,  \* Registry.chains
  stored,    \* the keys under "r/"
  chains,    \* Manager.chains: the instance of each sub-chain, or None
  scMiners,  \* Node.scMiners: the instance whose miner was entered, or None
  inst,      \* the instances that something still refers to
  disk,      \* contents of each sub-chain's prefix
  task,      \* what the root chain's handler is doing
  spoiled    \* history: sub-chains whose end was not clean, see Spoils

vars == <<up, p2p, wanted, synced, registry, stored, chains, scMiners, inst,
          disk, task, spoiled>>

Ids     == 1 .. MaxInstances
None    == 0
Heights == 0 .. MaxHeight
NoTip   == -1

\* A prefix: the heights of the blocks in it, and the height under "s/".
Empty == [blocks |-> {}, tip |-> NoTip]

Idle == [step |-> "idle"]

\* The goroutines of an instance, apart from the one of the root chain.
Busy(r) == r.starter # "none" \/ r.miner # "none" \/ r.serving

Of(c) == {i \in DOMAIN inst : inst[i].chain = c}

\* What remains when nothing refers to an instance any more is garbage.
Kept(f, cs) ==
  Restrict(f, {i \in DOMAIN f : Busy(f[i]) \/ cs[f[i].chain] = i})

-----------------------------------------------------------------------------
\* Spawn: chain.New reads the tip; without one InitFromGenesis writes it.

Opened_Always(d) == [blocks |-> d.blocks \union {0}, tip |-> 0]

Opened(d) ==
  IF d.tip = NoTip THEN [blocks |-> d.blocks \union {0}, tip |-> 0] ELSE d

\* startSubChainMiner returns when the map already has a miner.
Taken_Never(m, c) == FALSE

Taken(m, c) == m[c] # None

\* The new instance, after the spawn handler: with P2P its starter waits,
\* without it its miner is started at once.
Spawned(c, net) ==
  [chain |-> c, height |-> Opened(disk[c]).tip,
   starter |-> IF net THEN "waiting" ELSE "none",
   miner |-> IF ~net /\ c \in Mined /\ ~Taken(scMiners, c) THEN "idle"
                                                         ELSE "none",
   cancelled |-> FALSE, serving |-> FALSE]

\* startSubChainMiners, for the instance i of c.
Entered(m, c, i) ==
  IF c \in Mined /\ ~Taken(m, c) THEN [m EXCEPT ![c] = i] ELSE m

-----------------------------------------------------------------------------
\* The root chain has a registration: HandleRegistration up to SaveTo, which
\* writes the whole registry.
Saved(s, r) == s \union r

HandleRegistration(c) ==
  /\ up /\ task = Idle
  /\ c \notin registry /\ Cardinality(registry) < MaxPerParent
  /\ DOMAIN inst # Ids
  /\ registry' = registry \union {c}
  /\ stored' = Saved(stored, registry')
  /\ task' = IF c \in wanted THEN [step |-> "spawn", c |-> c] ELSE Idle
  /\ UNCHANGED <<up, p2p, wanted, synced, chains, scMiners, inst, disk, spoiled>>

\* ... and the rest of it.
SpawnChain(c) ==
  /\ task = [step |-> "spawn", c |-> c]
  /\ \E i \in Ids \ DOMAIN inst :
       /\ \A j \in Ids \ DOMAIN inst : i <= j
       /\ chains' = [chains EXCEPT ![c] = i]
       /\ inst' = [j \in DOMAIN inst \union {i} |->
                     IF j = i THEN Spawned(c, p2p) ELSE inst[j]]
       /\ scMiners' = IF p2p THEN scMiners ELSE Entered(scMiners, c, i)
  /\ disk' = [disk EXCEPT ![c] = Opened(disk[c])]
  /\ task' = Idle
  /\ UNCHANGED <<up, p2p, wanted, synced, registry, stored, spoiled>>

\* chain.New may fail on a prefix that lacks blocks, when it has to rebuild the
\* ledger from them; the registration stays without an instance.
Torn(c) == disk[c].blocks # 0 .. disk[c].tip

SpawnFails(c) ==
  /\ task = [step |-> "spawn", c |-> c] /\ Torn(c)
  /\ task' = Idle
  /\ UNCHANGED <<up, p2p, wanted, synced, registry, stored, chains, scMiners,
                 inst, disk, spoiled>>

\* stopSubChainMiner: the miner is told to stop and leaves the map.
Released_Kept(m, c) == m

Released(m, c) == [m EXCEPT ![c] = None]

\* A reorg of the root chain takes a registration back: HandleDeregistration
\* calls the stop handler.  It waits for no goroutine.
HandleDeregistration(c) ==
  /\ up /\ task = Idle
  /\ task' = [step |-> "stop", c |-> c]
  /\ inst' = [i \in DOMAIN inst |->
                IF i = scMiners[c] THEN [inst[i] EXCEPT !.cancelled = TRUE]
                                   ELSE inst[i]]
  /\ scMiners' = Released(scMiners, c)
  /\ UNCHANGED <<up, p2p, wanted, synced, registry, stored, chains, disk, spoiled>>

\* The sub-chain's end is not clean: goroutines of it are alive when its keys
\* are collected, or it has data and no instance that would delete them.
Spoils(c) ==
  \/ \E i \in Of(c) : Busy(inst[i])
  \/ chains[c] = None /\ disk[c] # Empty

\* Under the manager's lock DeleteAll collects the keys of the prefix ...
CollectKeys(c) ==
  /\ task = [step |-> "stop", c |-> c]
  /\ task' = IF chains[c] = None
             THEN [step |-> "forget", c |-> c]
             ELSE [step |-> "wipe", c |-> c, keys |-> disk[c].blocks]
  /\ spoiled' = IF Spoils(c) THEN spoiled \union {c} ELSE spoiled
  /\ UNCHANGED <<up, p2p, wanted, synced, registry, stored, chains, scMiners,
                 inst, disk>>

\* ... deletes them in the order of the keys, the blocks first ...
DeleteBlocks(c) ==
  /\ task.step = "wipe" /\ task.c = c
  /\ disk' = [disk EXCEPT ![c].blocks = @ \ task.keys]
  /\ task' = [step |-> "tip", c |-> c]
  /\ UNCHANGED <<up, p2p, wanted, synced, registry, stored, chains, scMiners,
                 inst, spoiled>>

\* ... then the tip, and the manager drops the instance.
TipAfter_Kept(d) == d

TipAfter(d) == [d EXCEPT !.tip = NoTip]

DeleteTip(c) ==
  /\ task = [step |-> "tip", c |-> c]
  /\ disk' = [disk EXCEPT ![c] = TipAfter(@)]
  /\ chains' = [chains EXCEPT ![c] = None]
  /\ inst' = Kept(inst, chains')
  /\ task' = [step |-> "forget", c |-> c]
  /\ UNCHANGED <<up, p2p, wanted, synced, registry, stored, scMiners, spoiled>>

\* Unregister and DeleteFrom.
Deleted_MemoryOnly(s, c) == s

Deleted(s, c) == s \ {c}

ForgetChain(c) ==
  /\ task = [step |-> "forget", c |-> c]
  /\ registry' = registry \ {c}
  /\ stored' = Deleted(stored, c)
  /\ task' = Idle
  /\ UNCHANGED <<up, p2p, wanted, synced, chains, scMiners, inst, disk, spoiled>>

-----------------------------------------------------------------------------
\* The bounds leave a block for instance i.
Grows(i) == inst[i].chain \in Growing /\ inst[i].height < MaxHeight

\* ProcessBlock of instance i with a block on its tip: the block and the tip
\* go to the prefix, whoever else writes there.
Extend(i) ==
  LET c == inst[i].chain
      h == inst[i].height + 1
  IN  /\ Grows(i)
      /\ disk' = [disk EXCEPT ![c] = [blocks |-> @.blocks \union {h}, tip |-> h]]

\* The first sync of the root chain ends.
RootSynced ==
  /\ up /\ ~synced
  /\ synced' = TRUE
  /\ UNCHANGED <<up, p2p, wanted, registry, stored, chains, scMiners, inst,
                 disk, task, spoiled>>

Changed(r, i) == inst' = Kept([inst EXCEPT ![i] = r], chains)

\* The starter of instance i: wait, sync block by block, start the miner.
StarterSyncs(i) ==
  /\ inst[i].starter = "waiting" /\ synced
  /\ Changed([inst[i] EXCEPT !.starter = "syncing"], i)
  /\ UNCHANGED <<up, p2p, wanted, synced, registry, stored, chains, scMiners,
                 disk, task, spoiled>>

StarterApplies(i) ==
  /\ inst[i].starter = "syncing"
  /\ Extend(i)
  /\ Changed([inst[i] EXCEPT !.height = @ + 1], i)
  /\ UNCHANGED <<up, p2p, wanted, synced, registry, stored, chains, scMiners,
                 task, spoiled>>

StarterEnds(i) ==
  LET c      == inst[i].chain
      starts == c \in Mined /\ ~Taken(scMiners, c)
  IN  /\ inst[i].starter = "syncing"
      /\ scMiners' = Entered(scMiners, c, i)
      /\ Changed([inst[i] EXCEPT !.starter = "none",
                                 !.miner = IF starts THEN "idle" ELSE @], i)
      /\ UNCHANGED <<up, p2p, wanted, synced, registry, stored, chains, disk,
                     task, spoiled>>

\* resolveSubChainFork counts below genesis when a peer fails it there and
\* another is left to ask: no request at such a height succeeds or ends it.
StarterStrays(i) ==
  /\ inst[i].starter = "syncing"
  /\ Changed([inst[i] EXCEPT !.starter = "astray"], i)
  /\ UNCHANGED <<up, p2p, wanted, synced, registry, stored, chains, scMiners,
                 disk, task, spoiled>>

\* The miner of instance i goes round: it takes up a block (a timer that ends
\* together with the cancellation may win the select) ...
MinerWorks(i) ==
  /\ inst[i].miner = "idle" /\ Grows(i)
  /\ Changed([inst[i] EXCEPT !.miner = "working"], i)
  /\ UNCHANGED <<up, p2p, wanted, synced, registry, stored, chains, scMiners,
                 disk, task, spoiled>>

\* ... and applies it without another look at its context, or fails.
MinerApplies(i) ==
  /\ inst[i].miner = "working"
  /\ Extend(i)
  /\ Changed([inst[i] EXCEPT !.miner = "idle", !.height = @ + 1], i)
  /\ UNCHANGED <<up, p2p, wanted, synced, registry, stored, chains, scMiners,
                 task, spoiled>>

MinerFails(i) ==
  /\ inst[i].miner = "working"
  /\ Changed([inst[i] EXCEPT !.miner = "idle"], i)
  /\ UNCHANGED <<up, p2p, wanted, synced, registry, stored, chains, scMiners,
                 disk, task, spoiled>>

MinerExits(i) ==
  /\ inst[i].miner = "idle" /\ inst[i].cancelled
  /\ Changed([inst[i] EXCEPT !.miner = "none"], i)
  /\ UNCHANGED <<up, p2p, wanted, synced, registry, stored, chains, scMiners,
                 disk, task, spoiled>>

\* A gossiped block, the sync it leads to, or an RPC that has the instance
\* from GetChain; GetChain waits while the manager deletes.
Serve(i) ==
  /\ chains[inst[i].chain] = i /\ ~inst[i].serving /\ Grows(i)
  /\ task.step \notin {"wipe", "tip"}
  /\ Changed([inst[i] EXCEPT !.serving = TRUE], i)
  /\ UNCHANGED <<up, p2p, wanted, synced, registry, stored, chains, scMiners,
                 disk, task, spoiled>>

ServeApplies(i) ==
  /\ inst[i].serving
  /\ Extend(i)
  /\ \E more \in BOOLEAN :
       Changed([inst[i] EXCEPT !.height = @ + 1, !.serving = more], i)
  /\ UNCHANGED <<up, p2p, wanted, synced, registry, stored, chains, scMiners,
                 task, spoiled>>

ServeEnds(i) ==
  /\ inst[i].serving
  /\ Changed([inst[i] EXCEPT !.serving = FALSE], i)
  /\ UNCHANGED <<up, p2p, wanted, synced, registry, stored, chains, scMiners,
                 disk, task, spoiled>>

-----------------------------------------------------------------------------
\* The process ends, by a crash or by Stop, which does not wait for the
\* goroutines of sub-chains.  Between two deletions it leaves a tip without
\* blocks.
Crash ==
  /\ up
  /\ up' = FALSE /\ synced' = FALSE
  /\ registry' = {}
  /\ chains' = [c \in Chains |-> None] /\ scMiners' = chains'
  /\ inst' = [i \in {} |-> None]
  /\ task' = Idle
  /\ spoiled' = IF task.step = "tip" THEN spoiled \union {task.c} ELSE spoiled
  /\ UNCHANGED <<p2p, wanted, stored, disk>>

\* RestoreChains: loads what is stored in some order and gives up at the first
\* spawn that fails; the node goes on with the rest missing.
Restore(load, spawns) ==
  \E new \in Injection(spawns, Ids) :
    /\ new = CHOOSE f \in Injection(spawns, Ids) : TRUE   \* names do not matter
    /\ registry' = load
    /\ chains' = [c \in Chains |-> IF c \in spawns THEN new[c] ELSE None]
    /\ inst' = [i \in {new[c] : c \in spawns} |->
                  Spawned(CHOOSE c \in spawns : new[c] = i, p2p')]
    /\ scMiners' = [c \in Chains |-> IF ~p2p' /\ c \in spawns \intersect Mined
                                     THEN new[c] ELSE None]
    /\ disk' = [c \in Chains |-> IF c \in spawns THEN Opened(disk[c]) ELSE disk[c]]
    /\ spoiled' = spoiled \union (stored \ load)

Start ==
  /\ ~up
  /\ up' = TRUE
  /\ p2p' \in Modes /\ wanted' \in Filters
  /\ \/ Restore(stored, stored \intersect wanted')
     \/ \E load \in SUBSET stored : \E f \in load \intersect wanted' :
          Torn(f) /\ Restore(load, (load \ {f}) \intersect wanted')
  /\ UNCHANGED <<synced, stored, task>>

Init ==
  /\ up = FALSE /\ synced = FALSE
  /\ p2p \in Modes /\ wanted \in Filters
  /\ registry = {} /\ stored = {} /\ spoiled = {}
  /\ chains = [c \in Chains |-> None] /\ scMiners = chains
  /\ inst = [i \in {} |-> None]
  /\ disk = [c \in Chains |-> Empty]
  /\ task = Idle

\* The root chain's handler goes on with what it has begun.
Continue(c) ==
  SpawnChain(c) \/ SpawnFails(c) \/ CollectKeys(c) \/ DeleteBlocks(c)
    \/ DeleteTip(c) \/ ForgetChain(c)

Manager ==
  \E c \in Chains : HandleRegistration(c) \/ HandleDeregistration(c) \/ Continue(c)

Goroutines ==
  \E i \in DOMAIN inst :
    \/ StarterSyncs(i) \/ StarterApplies(i) \/ StarterEnds(i) \/ StarterStrays(i)
    \/ MinerWorks(i) \/ MinerApplies(i) \/ MinerFails(i) \/ MinerExits(i)
    \/ Serve(i) \/ ServeApplies(i) \/ ServeEnds(i)

Next == Manager \/ Goroutines \/ RootSynced \/ Crash \/ Start

Spec == Init /\ [][Next]_vars

\* The sync of a sub-chain ends or strays, for every request has a timeout and
\* the peers' heights are asked for once.
StarterMoves(i) ==
  i \in DOMAIN inst /\ (StarterSyncs(i) \/ StarterEnds(i) \/ StarterStrays(i))

FairSpec == Spec /\ \A i \in Ids : WF_vars(StarterMoves(i))

-----------------------------------------------------------------------------
\* TypeOK: the variables of the manager, of the node's maps and of the prefixes
\* (manager.go, node.go, spawn.go) keep their types.
Instance ==
  [chain : Chains, height : Heights,
   starter : {"none", "waiting", "syncing", "astray"},
   miner : {"none", "idle", "working"}, cancelled : BOOLEAN, serving : BOOLEAN]

Task ==
  {Idle} \union [step : {"spawn", "stop", "tip", "forget"}, c : Chains]
         \union [step : {"wipe"}, c : Chains, keys : SUBSET Heights]

TypeOK ==
  /\ up \in BOOLEAN /\ p2p \in BOOLEAN /\ synced \in BOOLEAN
  /\ wanted \subseteq Chains /\ registry \subseteq Chains
  /\ stored \subseteq Chains /\ spoiled \subseteq Chains
  /\ chains \in [Chains -> Ids \union {None}]
  /\ scMiners \in [Chains -> Ids \union {None}]
  /\ DOMAIN inst \subseteq Ids /\ \A i \in DOMAIN inst : inst[i] \in Instance
  /\ disk \in [Chains -> [blocks : SUBSET Heights, tip : Heights \union {NoTip}]]
  /\ task \in Task

\* OneMiner: whatever starters come late, two miners that were not told to stop
\* never work for one sub-chain (startSubChainMiner and startSubChainPoAMiner
\* check the map and enter it under one lock, stopSubChainMiner leaves it).
Mining(i) == inst[i].miner # "none" /\ ~inst[i].cancelled

OneMiner ==
  \A i, j \in DOMAIN inst :
    Mining(i) /\ Mining(j) /\ inst[i].chain = inst[j].chain => i = j

\* TipsAgree: the instance of a sub-chain is the only one that writes to its
\* prefix, and what it believes of its tip is what the prefix holds, from its
\* blocks without a gap (Spawn's "fresh chain" test, DeleteAll), unless an
\* earlier end of the sub-chain was not clean.
TipsAgree ==
  \A c \in Chains \ spoiled :
    LET i == chains[c] IN
    i # None /\ task.step \notin {"wipe", "tip"} =>
      /\ Of(c) = {i}
      /\ disk[c] = [blocks |-> 0 .. inst[i].height, tip |-> inst[i].height]

\* NothingLeft: a sub-chain that is not registered leaves neither data nor a
\* goroutine nor an entry in the map of miners (HandleDeregistration), unless
\* its end was not clean.
NothingLeft ==
  \A c \in Chains \ (spoiled \union registry \union stored) :
    up /\ task = Idle =>
      disk[c] = Empty /\ Of(c) = {} /\ scMiners[c] = None

\* RegistryAgrees: between two calls of the manager, over crashes in each of
\* their steps and failed restores, memory and database register the same
\* sub-chains and those the filter admits have an instance, apart from the ones
\* a failed RestoreChains left out.
RegistryAgrees ==
  up /\ task = Idle =>
    \A c \in Chains \ spoiled :
      /\ c \in registry <=> c \in stored
      /\ chains[c] # None <=> c \in registry \intersect wanted

\* MinerComesUp: once the root chain's first sync has ended, an instance of a
\* mined sub-chain gets its miner, unless the sub-chain or the process ends
\* first, its own sync strays or an earlier end was not clean
\* (the starter of handleSubChainSpawn, startSubChainMiners).
Ending(c) == task # Idle /\ task.c = c

MinerComesUp ==
  \A c \in Mined, i \in Ids :
    chains[c] = i /\ (synced \/ ~p2p) ~>
      \/ c \in spoiled \/ chains[c] # i \/ Ending(c)
      \/ inst[i].starter = "astray"
      \/ scMiners[c] = i /\ inst[i].miner # "none"

=============================================================================
