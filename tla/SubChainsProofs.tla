-------------------------- MODULE SubChainsProofs ---------------------------
(***************************************************************************)
(* Theorems about SubChains, for every set of sub-chains, limit and        *)
(* configuration and without the bounds of its run.                        *)
(***************************************************************************)
EXTENDS SubChains, TLAPS

\* The map of miners has exactly the instances whose miner goes on; a starter
\* has not started its miner yet.
MapHasMiners ==
  /\ \A i \in DOMAIN inst : Mining(i) => scMiners[inst[i].chain] = i
  /\ \A c \in Chains : scMiners[c] # None =>
       scMiners[c] \in DOMAIN inst /\ inst[scMiners[c]].chain = c
         /\ Mining(scMiners[c])
  /\ \A i \in DOMAIN inst :
       inst[i].starter # "none" => inst[i].miner = "none" /\ ~inst[i].cancelled

\* The prefix of a sub-chain without a gap, with the tip h.
Filled(h) == [blocks |-> 0 .. h, tip |-> h]

At(c, steps) == task.step \in steps /\ task.c = c

\* The manager's instance is the only one.
OneInstance(c) == Of(c) = IF chains[c] = None THEN {} ELSE {chains[c]}

\* The prefix is empty or filled, up to what the instance believes its tip is.
PrefixFilled(c) ==
  ~At(c, {"tip"}) =>
    /\ chains[c] # None => disk[c] = Filled(inst[chains[c]].height)
    /\ chains[c] = None => disk[c] = Empty \/ \E h \in Heights : disk[c] = Filled(h)

\* Nothing runs while the data are deleted, and all of them are.
CleanEnd(c) ==
  /\ At(c, {"wipe", "tip"}) => chains[c] # None /\ ~Busy(inst[chains[c]])
  /\ At(c, {"wipe"}) => task.keys = disk[c].blocks
  /\ At(c, {"tip"}) => disk[c].blocks = {}
  /\ At(c, {"forget"}) => chains[c] = None /\ disk[c] = Empty

\* What has data or an instance is registered, and what is registered and
\* wanted has an instance but while the manager is about to make or forget it.
Registered(c) ==
  /\ disk[c] # Empty => c \in stored
  /\ up => (c \in registry <=> c \in stored)
  /\ At(c, {"spawn"}) => c \in registry /\ c \in wanted /\ chains[c] = None
  /\ chains[c] # None => c \in registry /\ c \in wanted
  /\ up /\ c \in registry /\ c \in wanted /\ chains[c] = None =>
       At(c, {"spawn", "forget"})

\* What holds of a sub-chain whose end, if it had one, was clean.
Sound(c) == OneInstance(c) /\ PrefixFilled(c) /\ CleanEnd(c) /\ Registered(c)

\* A process that does not run has no memory.
DownIsEmpty ==
  ~up => registry = {} /\ chains = [c \in Chains |-> None]
         /\ DOMAIN inst = {} /\ task = Idle

CleanOnesSound == \A c \in Chains \ spoiled : Sound(c)

-----------------------------------------------------------------------------
\* What a step of an instance's goroutines leaves of the instances: the one
\* that moved may have become garbage, of the others none that is in use.
LEMMA ChangedInstance ==
  ASSUME NEW i \in DOMAIN inst, NEW r, r.chain = inst[i].chain, Changed(r, i)
  PROVE  /\ DOMAIN inst' \subseteq DOMAIN inst
         /\ \A j \in DOMAIN inst' : inst'[j] = IF j = i THEN r ELSE inst[j]
         /\ \A j \in DOMAIN inst : chains[inst[j].chain] = j => j \in DOMAIN inst'
         /\ \A j \in DOMAIN inst \ {i} : Busy(inst[j]) => j \in DOMAIN inst'
         /\ Busy(r) => i \in DOMAIN inst'
<1>1. inst' = [j \in {k \in DOMAIN inst :
                        \/ Busy(IF k = i THEN r ELSE inst[k])
                        \/ chains[(IF k = i THEN r ELSE inst[k]).chain] = k}
               |-> IF j = i THEN r ELSE inst[j]]
  BY DEF Changed, Kept, Restrict
<1> QED  BY <1>1

LEMMA OpenedType ==
  ASSUME NEW d \in [blocks : SUBSET Heights, tip : Heights \union {NoTip}]
  PROVE  /\ Opened(d) \in [blocks : SUBSET Heights, tip : Heights]
         /\ d = Empty => Opened(d) = Filled(0)
         /\ \A h \in Heights : d = Filled(h) => Opened(d) = d
<1>1. MaxHeight \in Nat /\ 0 \in Heights
  BY SubChainsAssumption DEF Heights
<1>2. \A h \in Heights : h # NoTip
  BY <1>1 DEF Heights, NoTip
<1>3. Opened(d) \in [blocks : SUBSET Heights, tip : Heights]
  BY <1>1 DEF Opened
<1>4. ASSUME d = Empty  PROVE Opened(d) = Filled(0)
  <2>1. {} \union {0} = 0 .. 0
    OBVIOUS
  <2> QED  BY <1>4, <2>1 DEF Opened, Empty, Filled
<1>5. \A h \in Heights : d = Filled(h) => Opened(d) = d
  BY <1>2 DEF Opened, Filled
<1> QED  BY <1>3, <1>4, <1>5

\* What it does to its miner: leave it, or end it after a cancellation ...
MinerStays(i, r) ==
  /\ scMiners' = scMiners /\ r.cancelled = inst[i].cancelled
  /\ inst[i].cancelled \/ (r.miner = "none" <=> inst[i].miner = "none")
  /\ r.starter # "none" => inst[i].starter # "none"

\* ... or start it, as the last thing its starter does.
MinerStarts(i, r) ==
  /\ inst[i].starter # "none" /\ scMiners[inst[i].chain] = None
  /\ r.starter = "none" /\ r.miner = "idle" /\ r.cancelled = inst[i].cancelled
  /\ scMiners' = [scMiners EXCEPT ![inst[i].chain] = i]

\* A step of one instance: how it changes the prefix and its own tip.
InstanceStep(i, r) ==
  /\ i \in DOMAIN inst /\ r \in Instance /\ r.chain = inst[i].chain
  /\ Changed(r, i)
  /\ Busy(inst[i]) \/ task.step \notin {"wipe", "tip"}
  /\ \/ disk' = disk /\ r.height = inst[i].height
     \/ Extend(i) /\ r.height = inst[i].height + 1
  /\ MinerStays(i, r) \/ MinerStarts(i, r)
  /\ UNCHANGED <<up, p2p, wanted, registry, stored, chains, task, spoiled>>

LEMMA GoroutineSteps ==
  ASSUME TypeOK, Goroutines
  PROVE  /\ \E i, r : InstanceStep(i, r)
         /\ UNCHANGED synced
<1> PICK i \in DOMAIN inst :
        \/ StarterSyncs(i) \/ StarterApplies(i) \/ StarterEnds(i) \/ StarterStrays(i)
        \/ MinerWorks(i) \/ MinerApplies(i) \/ MinerFails(i) \/ MinerExits(i)
        \/ Serve(i) \/ ServeApplies(i) \/ ServeEnds(i)
  BY DEF Goroutines
<1>0. inst[i] \in Instance
  BY DEF TypeOK
<1>1. Extend(i) => inst[i].height + 1 \in Heights
  BY <1>0, SubChainsAssumption DEF Extend, Grows, Heights, Instance
<1>2. CASE StarterSyncs(i)
  <2> DEFINE r == [inst[i] EXCEPT !.starter = "syncing"]
  <2>1. InstanceStep(i, r)
    BY <1>0, <1>2 DEF StarterSyncs, InstanceStep, Instance, Busy, MinerStays
  <2> QED  BY <2>1, <1>2 DEF StarterSyncs
<1>3. CASE StarterApplies(i)
  <2> DEFINE r == [inst[i] EXCEPT !.height = @ + 1]
  <2>1. InstanceStep(i, r)
    BY <1>0, <1>1, <1>3 DEF StarterApplies, InstanceStep, Instance, Busy, MinerStays
  <2> QED  BY <2>1, <1>3 DEF StarterApplies
<1>4. CASE StarterEnds(i)
  <2> DEFINE starts == inst[i].chain \in Mined /\ ~Taken(scMiners, inst[i].chain)
             r == [inst[i] EXCEPT !.starter = "none",
                                  !.miner = IF starts THEN "idle" ELSE @]
  <2>1. InstanceStep(i, r)
    <3>1. CASE starts
      <4>1. MinerStarts(i, r)
        BY <1>0, <1>4, <3>1 DEF StarterEnds, MinerStarts, Instance, Entered, Taken
      <4> QED  BY <1>0, <1>4, <3>1, <4>1
               DEF StarterEnds, InstanceStep, Instance, Busy
    <3>2. CASE ~starts
      <4>1. MinerStays(i, r)
        BY <1>0, <1>4, <3>2 DEF StarterEnds, MinerStays, Instance, Entered
      <4> QED  BY <1>0, <1>4, <3>2, <4>1
               DEF StarterEnds, InstanceStep, Instance, Busy
    <3> QED  BY <3>1, <3>2
  <2> QED  BY <2>1, <1>4 DEF StarterEnds
<1>5. CASE MinerWorks(i)
  <2> DEFINE r == [inst[i] EXCEPT !.miner = "working"]
  <2>1. InstanceStep(i, r)
    BY <1>0, <1>5 DEF MinerWorks, InstanceStep, Instance, Busy, MinerStays
  <2> QED  BY <2>1, <1>5 DEF MinerWorks
<1>6. CASE MinerApplies(i)
  <2> DEFINE r == [inst[i] EXCEPT !.miner = "idle", !.height = @ + 1]
  <2>1. InstanceStep(i, r)
    BY <1>0, <1>1, <1>6 DEF MinerApplies, InstanceStep, Instance, Busy, MinerStays
  <2> QED  BY <2>1, <1>6 DEF MinerApplies
<1>7. CASE MinerFails(i)
  <2> DEFINE r == [inst[i] EXCEPT !.miner = "idle"]
  <2>1. InstanceStep(i, r)
    BY <1>0, <1>7 DEF MinerFails, InstanceStep, Instance, Busy, MinerStays
  <2> QED  BY <2>1, <1>7 DEF MinerFails
<1>8. CASE MinerExits(i)
  <2> DEFINE r == [inst[i] EXCEPT !.miner = "none"]
  <2>1. InstanceStep(i, r)
    BY <1>0, <1>8 DEF MinerExits, InstanceStep, Instance, Busy, MinerStays
  <2> QED  BY <2>1, <1>8 DEF MinerExits
<1>9. CASE Serve(i)
  <2> DEFINE r == [inst[i] EXCEPT !.serving = TRUE]
  <2>1. InstanceStep(i, r)
    BY <1>0, <1>9 DEF Serve, InstanceStep, Instance, Busy, MinerStays
  <2> QED  BY <2>1, <1>9 DEF Serve
<1>10. CASE ServeApplies(i)
  <2> PICK more \in BOOLEAN :
        Changed([inst[i] EXCEPT !.height = @ + 1, !.serving = more], i)
    BY <1>10 DEF ServeApplies
  <2> DEFINE r == [inst[i] EXCEPT !.height = @ + 1, !.serving = more]
  <2>1. InstanceStep(i, r)
    BY <1>0, <1>1, <1>10 DEF ServeApplies, InstanceStep, Instance, Busy, MinerStays
  <2> QED  BY <2>1, <1>10 DEF ServeApplies
<1>11. CASE ServeEnds(i)
  <2> DEFINE r == [inst[i] EXCEPT !.serving = FALSE]
  <2>1. InstanceStep(i, r)
    BY <1>0, <1>11 DEF ServeEnds, InstanceStep, Instance, Busy, MinerStays
  <2> QED  BY <2>1, <1>11 DEF ServeEnds
<1>12. CASE StarterStrays(i)
  <2> DEFINE r == [inst[i] EXCEPT !.starter = "astray"]
  <2>1. InstanceStep(i, r)
    BY <1>0, <1>12 DEF StarterStrays, InstanceStep, Instance, Busy, MinerStays
  <2> QED  BY <2>1, <1>12 DEF StarterStrays
<1> QED  BY <1>2, <1>3, <1>4, <1>5, <1>6, <1>7, <1>8, <1>9, <1>10, <1>11, <1>12

-----------------------------------------------------------------------------
\* A start keeps the types of what it restores.
LEMMA RestoreType ==
  ASSUME NEW load \in SUBSET stored, NEW spawns \in SUBSET load, TypeOK,
         p2p' \in BOOLEAN, Restore(load, spawns)
  PROVE  /\ registry' \subseteq Chains /\ spoiled' \subseteq Chains
         /\ chains' \in [Chains -> Ids \union {None}]
         /\ scMiners' \in [Chains -> Ids \union {None}]
         /\ DOMAIN inst' \subseteq Ids
         /\ \A i \in DOMAIN inst' : inst'[i] \in Instance
         /\ disk' \in [Chains -> [blocks : SUBSET Heights,
                                  tip : Heights \union {NoTip}]]
<1> PICK new \in Injection(spawns, Ids) :
       /\ registry' = load
       /\ chains' = [c \in Chains |-> IF c \in spawns THEN new[c] ELSE None]
       /\ inst' = [i \in {new[c] : c \in spawns} |->
                     Spawned(CHOOSE c \in spawns : new[c] = i, p2p')]
       /\ scMiners' = [c \in Chains |->
                         IF ~p2p' /\ c \in spawns \intersect Mined
                         THEN new[c] ELSE None]
       /\ disk' = [c \in Chains |->
                     IF c \in spawns THEN Opened(disk[c]) ELSE disk[c]]
       /\ spoiled' = spoiled \union (stored \ load)
  BY DEF Restore
<1>1. new \in [spawns -> Ids] /\ spawns \subseteq Chains
  BY DEF Injection, TypeOK
<1>2. \A c \in Chains : Opened(disk[c]) \in [blocks : SUBSET Heights, tip : Heights]
  BY OpenedType DEF TypeOK
<1>3. \A c \in Chains : Spawned(c, p2p') \in Instance
  BY <1>2 DEF Spawned, Instance
<1>4. \A i \in DOMAIN inst' : inst'[i] \in Instance
  <2> TAKE i \in DOMAIN inst'
  <2>1. (CHOOSE c \in spawns : new[c] = i) \in Chains
    BY <1>1
  <2> QED  BY <2>1, <1>3
<1>5. disk' \in [Chains -> [blocks : SUBSET Heights, tip : Heights \union {NoTip}]]
  BY <1>2 DEF TypeOK
<1>6. chains' \in [Chains -> Ids \union {None}]
  BY <1>1
<1>7. scMiners' \in [Chains -> Ids \union {None}]
  BY <1>1
<1>8. DOMAIN inst' \subseteq Ids
  BY <1>1
<1>9. registry' \subseteq Chains /\ spoiled' \subseteq Chains
  BY DEF TypeOK
<1> QED  BY <1>4, <1>5, <1>6, <1>7, <1>8, <1>9

LEMMA TypeStep == TypeOK /\ [Next]_vars => TypeOK'
<1> SUFFICES ASSUME TypeOK, [Next]_vars  PROVE TypeOK'
  OBVIOUS
<1> USE DEF TypeOK
<1>0. MaxHeight \in Nat /\ Ids \subseteq Nat
  BY SubChainsAssumption DEF Ids
<1>1. ASSUME NEW c \in Chains, HandleRegistration(c)  PROVE TypeOK'
  BY <1>1 DEF HandleRegistration, Saved, Task
<1>2. ASSUME NEW c \in Chains, SpawnChain(c)  PROVE TypeOK'
  <2>1. Opened(disk[c]) \in [blocks : SUBSET Heights, tip : Heights]
    BY OpenedType
  <2>2. Spawned(c, p2p) \in Instance
    BY <2>1 DEF Spawned, Instance
  <2> PICK i \in Ids \ DOMAIN inst :
         /\ chains' = [chains EXCEPT ![c] = i]
         /\ inst' = [j \in DOMAIN inst \union {i} |->
                       IF j = i THEN Spawned(c, p2p) ELSE inst[j]]
         /\ scMiners' = IF p2p THEN scMiners ELSE Entered(scMiners, c, i)
    BY <1>2 DEF SpawnChain
  <2>3. scMiners' \in [Chains -> Ids \union {None}]
    BY DEF Entered
  <2>4. disk' \in [Chains -> [blocks : SUBSET Heights, tip : Heights \union {NoTip}]]
    BY <1>2, <2>1 DEF SpawnChain
  <2> QED  BY <1>2, <2>2, <2>3, <2>4 DEF SpawnChain, Task
<1>3. ASSUME NEW c \in Chains, HandleDeregistration(c)  PROVE TypeOK'
  <2>1. \A i \in DOMAIN inst : [inst[i] EXCEPT !.cancelled = TRUE] \in Instance
    BY DEF Instance
  <2> QED  BY <1>3, <2>1 DEF HandleDeregistration, Released, Task
<1>4. ASSUME NEW c \in Chains, CollectKeys(c)  PROVE TypeOK'
  <2>1. disk[c].blocks \in SUBSET Heights
    OBVIOUS
  <2>2. task' \in Task
    BY <1>4, <2>1 DEF CollectKeys, Task
  <2> QED  BY <1>4, <2>2 DEF CollectKeys
<1>5. ASSUME NEW c \in Chains, DeleteBlocks(c)  PROVE TypeOK'
  BY <1>5 DEF DeleteBlocks, Task
<1>6. ASSUME NEW c \in Chains, DeleteTip(c)  PROVE TypeOK'
  <2>1. DOMAIN inst' \subseteq DOMAIN inst /\ \A i \in DOMAIN inst' : inst'[i] = inst[i]
    BY <1>6 DEF DeleteTip, Kept, Restrict
  <2> QED  BY <1>6, <2>1 DEF DeleteTip, TipAfter, Task
<1>7. ASSUME NEW c \in Chains, ForgetChain(c)  PROVE TypeOK'
  BY <1>7 DEF ForgetChain, Deleted, Task
<1>8. CASE Goroutines
  <2> PICK i, r : InstanceStep(i, r)
    BY <1>8, GoroutineSteps
  <2>1. DOMAIN inst' \subseteq Ids /\ \A j \in DOMAIN inst' : inst'[j] \in Instance
    BY ChangedInstance DEF InstanceStep
  <2>2. disk' \in [Chains -> [blocks : SUBSET Heights, tip : Heights \union {NoTip}]]
    BY <1>0 DEF InstanceStep, Extend, Instance
  <2>3. scMiners' \in [Chains -> Ids \union {None}]
    BY DEF InstanceStep, MinerStays, MinerStarts, Instance
  <2>4. synced' = synced
    BY <1>8, GoroutineSteps
  <2> QED  BY <2>1, <2>2, <2>3, <2>4 DEF InstanceStep
<1>9. CASE RootSynced
  BY <1>9 DEF RootSynced
<1>10. CASE Crash
  <2>1. /\ up' = FALSE /\ synced' = FALSE /\ registry' = {} /\ task' = Idle
        /\ chains' = [c \in Chains |-> None] /\ scMiners' = [c \in Chains |-> None]
        /\ UNCHANGED <<p2p, wanted, stored, disk>>
    BY <1>10 DEF Crash
  <2>2. DOMAIN inst' = {}
    BY <1>10 DEF Crash
  <2>3. spoiled' \subseteq Chains
    BY <1>10 DEF Crash, Task, Idle
  <2> QED  BY <2>1, <2>2, <2>3 DEF Task
<1>11. CASE Start
  <2>1. PICK load \in SUBSET stored :
          \E spawns \in SUBSET load : Restore(load, spawns)
    BY <1>11 DEF Start
  <2>2. p2p' \in BOOLEAN /\ wanted' \subseteq Chains
    BY <1>11, SubChainsAssumption DEF Start
  <2> QED  BY <1>11, <2>1, <2>2, RestoreType DEF Start
<1>12. ASSUME NEW c \in Chains, SpawnFails(c)  PROVE TypeOK'
  BY <1>12 DEF SpawnFails, Task
<1>13. CASE UNCHANGED vars
  BY <1>13 DEF vars
<1> QED
  BY <1>1, <1>2, <1>3, <1>4, <1>5, <1>6, <1>7, <1>8, <1>9, <1>10, <1>11, <1>12,
     <1>13 DEF Next, Manager, Continue

LEMMA InitType == Init => TypeOK
<1> SUFFICES ASSUME Init  PROVE TypeOK
  OBVIOUS
<1>1. DOMAIN inst = {}
  BY DEF Init
<1>2. Empty \in [blocks : SUBSET Heights, tip : Heights \union {NoTip}]
  BY DEF Empty
<1>3. /\ chains \in [Chains -> Ids \union {None}]
      /\ scMiners \in [Chains -> Ids \union {None}]
  BY DEF Init
<1>4. p2p \in BOOLEAN /\ wanted \subseteq Chains
  BY SubChainsAssumption DEF Init
<1> QED  BY <1>1, <1>2, <1>3, <1>4 DEF Init, TypeOK, Task

\* TypeCorrect: the manager, the node's maps, the instances and the prefixes
\* keep their types in every behaviour (manager.go, spawn.go, node.go).
THEOREM TypeCorrect == Spec => []TypeOK
BY InitType, TypeStep, PTL DEF Spec

-----------------------------------------------------------------------------
\* A step of an instance that neither starts nor stops its miner.
LEMMA MapKept ==
  ASSUME TypeOK, MapHasMiners,
         NEW i \in DOMAIN inst, NEW r, r.chain = inst[i].chain, Changed(r, i),
         r.miner # "none" /\ ~r.cancelled <=> Mining(i),
         r.starter # "none" => r.miner = "none" /\ ~r.cancelled,
         scMiners' = scMiners
  PROVE  MapHasMiners'
<1>1. /\ DOMAIN inst' \subseteq DOMAIN inst
      /\ \A j \in DOMAIN inst' : inst'[j] = IF j = i THEN r ELSE inst[j]
      /\ \A j \in DOMAIN inst \ {i} : Busy(inst[j]) => j \in DOMAIN inst'
      /\ Busy(r) => i \in DOMAIN inst'
  BY ChangedInstance
<1>2. \A j \in DOMAIN inst : Mining(j) => j \in DOMAIN inst'
  BY <1>1 DEF Mining, Busy
<1>3. \A j \in DOMAIN inst' : /\ Mining(j)' <=> Mining(j)
                              /\ inst'[j].chain = inst[j].chain
  BY <1>1 DEF Mining
<1> QED  BY <1>1, <1>2, <1>3 DEF MapHasMiners

LEMMA DownStep == TypeOK /\ DownIsEmpty /\ [Next]_vars => DownIsEmpty'
<1> SUFFICES ASSUME TypeOK, DownIsEmpty, [Next]_vars  PROVE DownIsEmpty'
  OBVIOUS
<1>1. ASSUME NEW c \in Chains, HandleRegistration(c) \/ HandleDeregistration(c)
      PROVE  DownIsEmpty'
  BY <1>1 DEF HandleRegistration, HandleDeregistration, DownIsEmpty
<1>2. ASSUME NEW c \in Chains, Continue(c)  PROVE DownIsEmpty'
  <2>1. task # Idle
    BY <1>2 DEF Continue, SpawnChain, SpawnFails, CollectKeys, DeleteBlocks,
       DeleteTip, ForgetChain, Idle
  <2>2. up' = up
    BY <1>2 DEF Continue, SpawnChain, SpawnFails, CollectKeys, DeleteBlocks,
       DeleteTip, ForgetChain
  <2> QED  BY <2>1, <2>2 DEF DownIsEmpty
<1>3. CASE Goroutines
  <2>1. PICK i, r : InstanceStep(i, r)
    BY <1>3, GoroutineSteps
  <2> QED  BY <2>1 DEF InstanceStep, DownIsEmpty
<1>4. CASE RootSynced
  BY <1>4 DEF RootSynced, DownIsEmpty
<1>5. CASE Crash
  BY <1>5 DEF Crash, DownIsEmpty
<1>6. CASE Start
  BY <1>6 DEF Start, DownIsEmpty
<1>7. CASE UNCHANGED vars
  BY <1>7 DEF vars, DownIsEmpty
<1> QED  BY <1>1, <1>2, <1>3, <1>4, <1>5, <1>6, <1>7 DEF Next, Manager

LEMMA MapStep ==
  TypeOK /\ DownIsEmpty /\ MapHasMiners /\ [Next]_vars => MapHasMiners'
<1> SUFFICES ASSUME TypeOK, DownIsEmpty, MapHasMiners, [Next]_vars
             PROVE  MapHasMiners'
  OBVIOUS
<1>0. None \notin Ids /\ DOMAIN inst \subseteq Ids
  BY SubChainsAssumption DEF Ids, None, TypeOK
<1>1. ASSUME NEW c \in Chains, SpawnChain(c)  PROVE MapHasMiners'
  <2> PICK i \in Ids \ DOMAIN inst :
         /\ inst' = [j \in DOMAIN inst \union {i} |->
                       IF j = i THEN Spawned(c, p2p) ELSE inst[j]]
         /\ scMiners' = IF p2p THEN scMiners ELSE Entered(scMiners, c, i)
    BY <1>1 DEF SpawnChain
  <2>1. /\ Spawned(c, p2p).chain = c /\ ~Spawned(c, p2p).cancelled
        /\ Spawned(c, p2p).miner # "none" <=>
              ~p2p /\ c \in Mined /\ ~Taken(scMiners, c)
        /\ Spawned(c, p2p).starter # "none" => Spawned(c, p2p).miner = "none"
    BY DEF Spawned
  <2>2. scMiners' = IF ~p2p /\ c \in Mined /\ scMiners[c] = None
                    THEN [scMiners EXCEPT ![c] = i] ELSE scMiners
    BY DEF Entered, Taken
  <2>3. /\ inst'[i] = Spawned(c, p2p) /\ DOMAIN inst' = DOMAIN inst \union {i}
        /\ \A j \in DOMAIN inst : inst'[j] = inst[j]
    OBVIOUS
  <2>4. Mining(i)' <=> ~p2p /\ c \in Mined /\ scMiners[c] = None
    BY <2>1, <2>3 DEF Mining, Taken
  <2>5. \A j \in DOMAIN inst : (Mining(j)' <=> Mining(j))
    BY <2>3 DEF Mining
  <2>6. \A d \in Chains : scMiners'[d] =
           IF Mining(i)' /\ d = c THEN i ELSE scMiners[d]
    BY <2>2, <2>4 DEF TypeOK
  <2>7. \A j \in DOMAIN inst : inst[j].chain \in Chains
    BY DEF TypeOK, Instance
  <2>8. \A j \in DOMAIN inst' : Mining(j)' => scMiners'[inst'[j].chain] = j
    <3> SUFFICES ASSUME NEW j \in DOMAIN inst', Mining(j)'
                 PROVE  scMiners'[inst'[j].chain] = j
      OBVIOUS
    <3>1. CASE j = i
      BY <3>1, <2>1, <2>3, <2>6
    <3>2. CASE j # i
      BY <3>2, <1>0, <2>3, <2>4, <2>5, <2>6, <2>7 DEF MapHasMiners
    <3> QED  BY <3>1, <3>2
  <2>9. \A d \in Chains : scMiners'[d] # None =>
          scMiners'[d] \in DOMAIN inst' /\ inst'[scMiners'[d]].chain = d
            /\ Mining(scMiners[d])'
    BY <2>1, <2>3, <2>5, <2>6 DEF MapHasMiners, Mining
  <2> QED  BY <2>1, <2>3, <2>8, <2>9 DEF MapHasMiners
<1>2. ASSUME NEW c \in Chains, HandleDeregistration(c)  PROVE MapHasMiners'
  <2>1. /\ scMiners' = [scMiners EXCEPT ![c] = None]
        /\ inst' = [i \in DOMAIN inst |->
                      IF i = scMiners[c] THEN [inst[i] EXCEPT !.cancelled = TRUE]
                                         ELSE inst[i]]
    BY <1>2 DEF HandleDeregistration, Released
  <2>2. \A i \in DOMAIN inst : /\ inst'[i].chain = inst[i].chain
                               /\ inst'[i].miner = inst[i].miner
                               /\ inst'[i].starter = inst[i].starter
                               /\ inst'[i].cancelled <=>
                                     inst[i].cancelled \/ i = scMiners[c]
    BY <2>1 DEF TypeOK, Instance
  <2>3. \A i \in DOMAIN inst : Mining(i)' <=> Mining(i) /\ i # scMiners[c]
    BY <2>2 DEF Mining
  <2>4. DOMAIN inst' = DOMAIN inst
    BY <2>1
  <2>5. \A d \in Chains : scMiners'[d] = IF d = c THEN None ELSE scMiners[d]
    BY <2>1 DEF TypeOK
  <2>6. \A i \in DOMAIN inst : inst[i].chain \in Chains
    BY DEF TypeOK, Instance
  <2>7. \A i \in DOMAIN inst' : Mining(i)' => scMiners'[inst'[i].chain] = i
    BY <2>2, <2>3, <2>4, <2>5, <2>6 DEF MapHasMiners
  <2>8. \A d \in Chains : scMiners'[d] # None =>
          scMiners'[d] \in DOMAIN inst' /\ inst'[scMiners'[d]].chain = d
            /\ Mining(scMiners[d])'
    BY <2>2, <2>3, <2>4, <2>5 DEF MapHasMiners
  <2>9. \A i \in DOMAIN inst' :
          inst'[i].starter # "none" => inst'[i].miner = "none" /\ ~inst'[i].cancelled
    BY <1>0, <2>2, <2>4 DEF MapHasMiners, Mining
  <2> QED  BY <2>7, <2>8, <2>9 DEF MapHasMiners
<1>3. ASSUME NEW c \in Chains, DeleteTip(c)  PROVE MapHasMiners'
  <2>1. /\ DOMAIN inst' \subseteq DOMAIN inst
        /\ \A i \in DOMAIN inst' : inst'[i] = inst[i]
        /\ \A i \in DOMAIN inst : Busy(inst[i]) => i \in DOMAIN inst'
        /\ scMiners' = scMiners
    BY <1>3 DEF DeleteTip, Kept, Restrict
  <2> QED  BY <2>1 DEF MapHasMiners, Mining, Busy
<1>4. ASSUME NEW i, NEW r, InstanceStep(i, r)  PROVE MapHasMiners'
  <2>0. /\ i \in DOMAIN inst /\ inst[i].chain \in Chains
        /\ r.chain = inst[i].chain /\ Changed(r, i)
        /\ inst[i].starter # "none" => inst[i].miner = "none" /\ ~inst[i].cancelled
    BY <1>4 DEF InstanceStep, TypeOK, Instance, MapHasMiners
  <2>1. CASE MinerStays(i, r)
    <3>1. /\ scMiners' = scMiners
          /\ r.miner # "none" /\ ~r.cancelled <=> Mining(i)
          /\ r.starter # "none" => r.miner = "none" /\ ~r.cancelled
      BY <2>0, <2>1 DEF MinerStays, Mining
    <3> QED  BY <2>0, <3>1, MapKept
  <2>2. CASE MinerStarts(i, r)
    <3> DEFINE c == inst[i].chain
    <3>0. /\ r.starter = "none" /\ r.miner = "idle" /\ ~r.cancelled
          /\ scMiners[c] = None /\ inst[i].miner = "none"
      BY <2>0, <2>2 DEF MinerStarts
    <3>1. /\ DOMAIN inst' \subseteq DOMAIN inst
          /\ \A j \in DOMAIN inst' : inst'[j] = IF j = i THEN r ELSE inst[j]
          /\ \A j \in DOMAIN inst \ {i} : Busy(inst[j]) => j \in DOMAIN inst'
          /\ i \in DOMAIN inst'
      BY <2>0, <3>0, ChangedInstance DEF Busy
    <3>2. Mining(i)' /\ ~Mining(i)
      BY <3>0, <3>1 DEF Mining
    <3>3. \A j \in DOMAIN inst' \ {i} : Mining(j)' <=> Mining(j)
      BY <3>1 DEF Mining
    <3>4. \A d \in Chains : scMiners'[d] = IF d = c THEN i ELSE scMiners[d]
      BY <2>2 DEF TypeOK, MinerStarts
    <3>5. \A j \in DOMAIN inst : inst[j].chain \in Chains
      BY DEF TypeOK, Instance
    <3>6. \A j \in DOMAIN inst' : Mining(j)' => scMiners'[inst'[j].chain] = j
      BY <1>0, <2>0, <3>0, <3>1, <3>3, <3>4, <3>5 DEF MapHasMiners
    <3>7. \A d \in Chains : scMiners'[d] # None =>
            scMiners'[d] \in DOMAIN inst' /\ inst'[scMiners'[d]].chain = d
              /\ Mining(scMiners[d])'
      <4> SUFFICES ASSUME NEW d \in Chains, scMiners'[d] # None
                   PROVE  /\ scMiners'[d] \in DOMAIN inst'
                          /\ inst'[scMiners'[d]].chain = d
                          /\ Mining(scMiners[d])'
        OBVIOUS
      <4>1. CASE d = c
        BY <4>1, <2>0, <3>1, <3>2, <3>4 DEF Mining
      <4>2. CASE d # c
        <5>1. /\ scMiners[d] \in DOMAIN inst /\ inst[scMiners[d]].chain = d
              /\ Mining(scMiners[d]) /\ scMiners'[d] = scMiners[d]
          BY <4>2, <3>4 DEF MapHasMiners
        <5>2. scMiners[d] \in DOMAIN inst'
          BY <4>2, <5>1, <3>1 DEF Mining, Busy
        <5> QED  BY <4>2, <5>1, <5>2, <3>1 DEF Mining
      <4> QED  BY <4>1, <4>2
    <3> QED  BY <3>0, <3>1, <3>6, <3>7 DEF MapHasMiners
  <2> QED  BY <1>4, <2>1, <2>2 DEF InstanceStep
<1>6. CASE Crash
  <2>1. DOMAIN inst' = {} /\ scMiners' = [c \in Chains |-> None]
    BY <1>6 DEF Crash
  <2> QED  BY <2>1 DEF MapHasMiners
<1>7. ASSUME ~up, NEW load, NEW spawns \in SUBSET Chains, Restore(load, spawns)
      PROVE MapHasMiners'
  <2>0. \A c \in Chains : scMiners[c] = None
    BY <1>7 DEF DownIsEmpty, MapHasMiners
  <2>12. PICK new \in Injection(spawns, Ids) :
         /\ inst' = [i \in {new[c] : c \in spawns} |->
                       Spawned(CHOOSE c \in spawns : new[c] = i, p2p')]
         /\ scMiners' = [c \in Chains |->
                           IF ~p2p' /\ c \in spawns \intersect Mined
                           THEN new[c] ELSE None]
    BY <1>7 DEF Restore
  <2>1. /\ new \in [spawns -> Ids]
        /\ \A c, d \in spawns : new[c] = new[d] => c = d
    BY <2>12 DEF Injection, IsInjective
  <2>2. \A c \in spawns :
          /\ new[c] \in DOMAIN inst'
          /\ inst'[new[c]].chain = c /\ ~inst'[new[c]].cancelled
          /\ inst'[new[c]].miner # "none" <=> ~p2p' /\ c \in Mined
          /\ inst'[new[c]].starter # "none" => inst'[new[c]].miner = "none"
    <3> TAKE c \in spawns
    <3>1. (CHOOSE d \in spawns : new[d] = new[c]) = c
      BY <2>1
    <3>2. new[c] \in DOMAIN inst' /\ inst'[new[c]] = Spawned(c, p2p')
      BY <2>12, <3>1
    <3>3. scMiners[c] = None
      BY <2>0
    <3>4. inst'[new[c]].chain = c /\ ~inst'[new[c]].cancelled
      BY <3>2 DEF Spawned
    <3>5. inst'[new[c]].miner # "none" <=> ~p2p' /\ c \in Mined
      BY <3>2, <3>3 DEF Spawned, Taken
    <3>6. inst'[new[c]].starter # "none" => p2p'
      BY <3>2 DEF Spawned
    <3> QED  BY <3>2, <3>4, <3>5, <3>6
  <2>3. \A i \in DOMAIN inst' : \E c \in spawns : i = new[c]
    BY <2>12
  <2>5. \A c \in spawns :
          scMiners'[c] = IF ~p2p' /\ c \in Mined THEN new[c] ELSE None
    BY <2>12
  <2>6. \A c \in Chains \ spawns : scMiners'[c] = None
    BY <2>12
  <2>8. \A c \in spawns :
          /\ Mining(new[c])' <=> ~p2p' /\ c \in Mined
          /\ inst'[new[c]].chain = c
    BY <2>2 DEF Mining
  <2>9. \A i \in DOMAIN inst' : Mining(i)' => scMiners'[inst'[i].chain] = i
    <3> TAKE i \in DOMAIN inst'
    <3>1. PICK c \in spawns : i = new[c]
      BY <2>3
    <3>2. Mining(i)' => ~p2p' /\ c \in Mined
      BY <2>8, <3>1 DEF Mining
    <3>3. scMiners'[c] = IF ~p2p' /\ c \in Mined THEN new[c] ELSE None
      BY <2>5
    <3> QED  BY <2>2, <3>1, <3>2, <3>3
  <2>10. \A c \in Chains : scMiners'[c] # None =>
           scMiners'[c] \in DOMAIN inst' /\ inst'[scMiners'[c]].chain = c
             /\ Mining(scMiners[c])'
    <3> SUFFICES ASSUME NEW c \in Chains, scMiners'[c] # None
                 PROVE  /\ scMiners'[c] \in DOMAIN inst'
                        /\ inst'[scMiners'[c]].chain = c
                        /\ Mining(scMiners[c])'
      OBVIOUS
    <3>1. c \in spawns /\ scMiners'[c] = new[c] /\ Mining(new[c])'
      BY <2>5, <2>6, <2>8
    <3> QED  BY <2>2, <2>8, <3>1 DEF Mining
  <2>11. \A i \in DOMAIN inst' : inst'[i].starter # "none" =>
           inst'[i].miner = "none" /\ ~inst'[i].cancelled
    <3> TAKE i \in DOMAIN inst'
    <3>1. PICK c \in spawns : i = new[c]
      BY <2>3
    <3> QED  BY <2>2, <3>1
  <2> QED  BY <2>9, <2>10, <2>11 DEF MapHasMiners
<1>8. CASE Goroutines
  BY <1>4, <1>8, GoroutineSteps
<1>9. CASE Start
  <2>1. PICK load \in SUBSET stored : \E spawns \in SUBSET Chains : Restore(load, spawns)
    BY <1>9 DEF Start, TypeOK
  <2> QED  BY <1>7, <1>9, <2>1 DEF Start
<1>10. ASSUME inst' = inst, scMiners' = scMiners  PROVE MapHasMiners'
  BY <1>10 DEF MapHasMiners, Mining
<1>11. ASSUME NEW c \in Chains,
              \/ HandleRegistration(c) \/ CollectKeys(c) \/ DeleteBlocks(c)
              \/ ForgetChain(c) \/ SpawnFails(c)
       PROVE  MapHasMiners'
  BY <1>10, <1>11 DEF HandleRegistration, CollectKeys, DeleteBlocks, ForgetChain,
     SpawnFails
<1>12. CASE RootSynced \/ UNCHANGED vars
  BY <1>10, <1>12 DEF RootSynced, vars
<1> QED
  BY <1>1, <1>2, <1>3, <1>6, <1>8, <1>9, <1>11, <1>12 DEF Next, Manager, Continue

\* OneMinerAlways: two miners of one sub-chain that were not told to stop never
\* run, for the map has the instance of each (startSubChainMiner,
\* stopSubChainMiner).
THEOREM OneMinerAlways == Spec => []OneMiner
<1>1. Init => TypeOK /\ DownIsEmpty /\ MapHasMiners
  <2>1. Init => DownIsEmpty /\ MapHasMiners
    BY DEF Init, DownIsEmpty, MapHasMiners
  <2> QED  BY <2>1, InitType
<1>2. MapHasMiners => OneMiner
  BY DEF MapHasMiners, OneMiner
<1> QED  BY <1>1, <1>2, TypeStep, DownStep, MapStep, PTL DEF Spec

-----------------------------------------------------------------------------
\* A step that leaves sub-chain d alone keeps it sound.
On(d) == At(d, {"spawn", "stop", "wipe", "tip", "forget"})

Untouched(d) ==
  /\ chains'[d] = chains[d] /\ disk'[d] = disk[d] /\ Of(d)' = Of(d)
  /\ \A i \in Of(d) : /\ inst'[i].height = inst[i].height
                      /\ Busy(inst[i])' <=> Busy(inst[i])
  /\ d \in stored' <=> d \in stored
  /\ d \in registry' <=> d \in registry
  /\ d \in wanted' <=> d \in wanted
  /\ up' = up
  /\ task' = task \/ (~On(d) /\ ~On(d)')

LEMMA UntouchedSound ==
  ASSUME NEW d \in Chains, TypeOK, Sound(d), Untouched(d)
  PROVE  Sound(d)'
<1>1. /\ At(d, {"spawn"})' <=> At(d, {"spawn"})
      /\ At(d, {"wipe"})' <=> At(d, {"wipe"})
      /\ At(d, {"tip"})' <=> At(d, {"tip"})
      /\ At(d, {"forget"})' <=> At(d, {"forget"})
      /\ At(d, {"wipe", "tip"})' <=> At(d, {"wipe", "tip"})
      /\ At(d, {"spawn", "forget"})' <=> At(d, {"spawn", "forget"})
  BY DEF Untouched, On, At
<1>2. At(d, {"wipe"})' => task' = task
  BY DEF Untouched, On, At
<1>3. chains[d] # None => chains[d] \in Of(d)
  BY DEF Sound, OneInstance
<1>4. OneInstance(d)'
  BY DEF Untouched, Sound, OneInstance
<1>5. PrefixFilled(d)'
  BY <1>1, <1>3 DEF Untouched, Sound, PrefixFilled
<1>6. CleanEnd(d)'
  <2>1. /\ chains'[d] = chains[d] /\ disk'[d] = disk[d]
        /\ chains[d] # None => (Busy(inst[chains[d]])' <=> Busy(inst[chains[d]]))
    BY <1>3 DEF Untouched
  <2>2. (At(d, {"wipe", "tip"}) => chains[d] # None /\ ~Busy(inst[chains[d]]))'
    BY <1>1, <2>1 DEF Sound, CleanEnd
  <2>3. (At(d, {"wipe"}) => task.keys = disk[d].blocks)'
    BY <1>1, <1>2, <2>1 DEF Sound, CleanEnd
  <2>4. (At(d, {"tip"}) => disk[d].blocks = {})'
    BY <1>1, <2>1 DEF Sound, CleanEnd
  <2>5. (At(d, {"forget"}) => chains[d] = None /\ disk[d] = Empty)'
    BY <1>1, <2>1 DEF Sound, CleanEnd, Empty
  <2> QED  BY <2>2, <2>3, <2>4, <2>5 DEF CleanEnd
<1>7. Registered(d)'
  BY <1>1 DEF Untouched, Sound, Registered, Empty
<1> QED  BY <1>4, <1>5, <1>6, <1>7 DEF Sound

\* One lemma per kind of step.  Each takes a sub-chain d of which nothing is
\* spoiled after the step.
LEMMA RegistrationSound ==
  ASSUME NEW d \in Chains, TypeOK, Sound(d), NEW c \in Chains, HandleRegistration(c)
  PROVE  Sound(d)'
<1> USE DEF HandleRegistration
<1>0. Of(d)' = Of(d) /\ (\A i \in Of(d) : Busy(inst[i])' <=> Busy(inst[i]))
  BY DEF Of
<1>1. CASE d # c
  <2>1. d \in stored' <=> d \in stored
    BY <1>1 DEF Saved, Sound, Registered
  <2>2. ~On(d) /\ ~On(d)'
    BY <1>1 DEF On, At, Idle
  <2> QED  BY <1>0, <1>1, <2>1, <2>2, UntouchedSound DEF Untouched
<1>2. CASE d = c
  <2>1. /\ chains[c] = None /\ disk[c] = Empty /\ Of(c) = {}
        /\ chains' = chains /\ disk' = disk
    BY <1>2 DEF Sound, Registered, OneInstance
  <2>2. c \in registry' /\ c \in stored' /\ wanted' = wanted
    BY DEF Saved
  <2>3. /\ ~At(c, {"wipe", "tip"})' /\ ~At(c, {"wipe"})' /\ ~At(c, {"tip"})'
        /\ ~At(c, {"forget"})'
        /\ At(c, {"spawn"})' <=> c \in wanted
        /\ At(c, {"spawn", "forget"})' <=> c \in wanted
    BY DEF At, Idle
  <2>4. OneInstance(c)' /\ PrefixFilled(c)'
    BY <1>0, <1>2, <2>1 DEF OneInstance, PrefixFilled, Empty
  <2>5. CleanEnd(c)' /\ Registered(c)'
    BY <2>1, <2>2, <2>3 DEF CleanEnd, Registered
  <2> QED  BY <1>2, <2>4, <2>5 DEF Sound
<1> QED  BY <1>1, <1>2

LEMMA SpawnSound ==
  ASSUME NEW d \in Chains, TypeOK, DownIsEmpty, Sound(d),
         NEW c \in Chains, SpawnChain(c)
  PROVE  Sound(d)'
<1>1. PICK i \in Ids \ DOMAIN inst :
         /\ chains' = [chains EXCEPT ![c] = i]
         /\ inst' = [j \in DOMAIN inst \union {i} |->
                       IF j = i THEN Spawned(c, p2p) ELSE inst[j]]
  BY DEF SpawnChain
<1>2. /\ disk' = [disk EXCEPT ![c] = Opened(disk[c])]
      /\ task = [step |-> "spawn", c |-> c] /\ task' = Idle
      /\ UNCHANGED <<up, wanted, registry, stored>>
  BY DEF SpawnChain
<1>3. /\ inst'[i].chain = c /\ inst'[i].height = Opened(disk[c]).tip
      /\ DOMAIN inst' = DOMAIN inst \union {i}
      /\ \A j \in DOMAIN inst : inst'[j] = inst[j]
  BY <1>1 DEF Spawned
<1>4. CASE d # c
  <2>1. /\ Of(d)' = Of(d)
        /\ \A j \in Of(d) : inst'[j] = inst[j]
    BY <1>3, <1>4 DEF Of
  <2>2. chains'[d] = chains[d] /\ disk'[d] = disk[d]
    BY <1>1, <1>2, <1>4 DEF TypeOK
  <2>3. ~On(d) /\ ~On(d)'
    BY <1>2, <1>4 DEF On, At, Idle
  <2>4. \A j \in Of(d) : Busy(inst[j])' <=> Busy(inst[j])
    BY <2>1
  <2> QED  BY <1>2, <2>1, <2>2, <2>3, <2>4, UntouchedSound DEF Untouched
<1>5. CASE d = c
  <2>1. /\ chains[c] = None /\ c \in registry /\ c \in wanted /\ Of(c) = {}
        /\ disk[c] = Empty \/ \E h \in Heights : disk[c] = Filled(h)
    BY <1>2, <1>5 DEF Sound, Registered, OneInstance, PrefixFilled, At
  <2>2. Opened(disk[c]) = Filled(Opened(disk[c]).tip)
    <3>1. disk[c] \in [blocks : SUBSET Heights, tip : Heights \union {NoTip}]
      BY DEF TypeOK
    <3>2. CASE disk[c] = Empty
      <4>1. Opened(disk[c]) = Filled(0)
        BY <3>1, <3>2, OpenedType
      <4> QED  BY <4>1 DEF Filled
    <3>3. ASSUME NEW h \in Heights, disk[c] = Filled(h)
          PROVE  Opened(disk[c]) = Filled(Opened(disk[c]).tip)
      <4>1. Opened(disk[c]) = Filled(h)
        BY <3>1, <3>3, OpenedType
      <4> QED  BY <4>1 DEF Filled
    <3> QED  BY <2>1, <3>2, <3>3
  <2>3. /\ chains'[c] = i /\ i # None /\ disk'[c] = Opened(disk[c])
    BY <1>1, <1>2 DEF TypeOK, Ids, None
  <2>4. Of(c)' = {i}
    BY <1>3, <2>1 DEF Of
  <2>5. ~At(c, {"wipe", "tip"})' /\ ~At(c, {"wipe"})' /\ ~At(c, {"tip"})'
        /\ ~At(c, {"forget"})' /\ ~At(c, {"spawn"})'
    BY <1>2 DEF At, Idle
  <2>6. OneInstance(c)' /\ PrefixFilled(c)' /\ CleanEnd(c)'
    BY <1>3, <2>2, <2>3, <2>4, <2>5 DEF OneInstance, PrefixFilled, CleanEnd
  <2>7. Registered(c)'
    <3>1. c \in stored /\ up
      BY <1>2, <1>5, <2>1 DEF Sound, Registered, DownIsEmpty, Idle
    <3> QED  BY <1>2, <2>1, <2>3, <2>5, <3>1 DEF Registered
  <2> QED  BY <1>5, <2>6, <2>7 DEF Sound
<1> QED  BY <1>4, <1>5

\* A spawn fails for a sub-chain only whose end was not clean.
LEMMA SpawnFailsSound ==
  ASSUME NEW d \in Chains, TypeOK, Sound(d), NEW c \in Chains, SpawnFails(c)
  PROVE  Sound(d)'
<1>1. c # d
  <2> SUFFICES ASSUME c = d  PROVE FALSE
    OBVIOUS
  <2>1. disk[d] = Empty \/ \E h \in Heights : disk[d] = Filled(h)
    BY DEF SpawnFails, Sound, Registered, PrefixFilled, At
  <2>2. Empty.blocks = 0 .. Empty.tip
    BY DEF Empty, NoTip
  <2>3. \A h \in Heights : Filled(h).blocks = 0 .. Filled(h).tip
    BY DEF Filled
  <2> QED  BY <2>1, <2>2, <2>3 DEF SpawnFails, Torn
<1>2. ~On(d) /\ ~On(d)'
  BY <1>1 DEF SpawnFails, On, At, Idle
<1>3. Of(d)' = Of(d) /\ \A i \in Of(d) : Busy(inst[i])' <=> Busy(inst[i])
  BY DEF SpawnFails, Of
<1> QED  BY <1>2, <1>3, UntouchedSound DEF SpawnFails, Untouched

LEMMA StopSound ==
  ASSUME NEW d \in Chains, TypeOK, Sound(d), NEW c \in Chains, HandleDeregistration(c)
  PROVE  Sound(d)'
<1>1. /\ up /\ task = Idle /\ task' = [step |-> "stop", c |-> c]
      /\ UNCHANGED <<up, wanted, registry, stored, chains, disk>>
      /\ inst' = [i \in DOMAIN inst |->
                    IF i = scMiners[c] THEN [inst[i] EXCEPT !.cancelled = TRUE]
                                       ELSE inst[i]]
  BY DEF HandleDeregistration
<1>2. \A i \in DOMAIN inst :
         /\ inst'[i].chain = inst[i].chain /\ inst'[i].height = inst[i].height
         /\ inst'[i].starter = inst[i].starter /\ inst'[i].miner = inst[i].miner
         /\ inst'[i].serving = inst[i].serving
  BY <1>1 DEF TypeOK, Instance
<1>3. DOMAIN inst' = DOMAIN inst
  BY <1>1
<1>4. Of(d)' = Of(d)
  BY <1>2, <1>3 DEF Of
<1>5. \A i \in Of(d) : /\ inst'[i].height = inst[i].height
                       /\ Busy(inst[i])' <=> Busy(inst[i])
  BY <1>2 DEF Of, Busy
<1>6. CASE d # c
  <2>1. ~On(d) /\ ~On(d)'
    BY <1>1, <1>6 DEF On, At, Idle
  <2> QED  BY <1>1, <1>4, <1>5, <2>1, UntouchedSound DEF Untouched
<1>7. CASE d = c
  <2>1. /\ ~At(c, {"wipe", "tip"})' /\ ~At(c, {"wipe"})' /\ ~At(c, {"tip"})'
        /\ ~At(c, {"forget"})' /\ ~At(c, {"spawn"})'
        /\ ~At(c, {"tip"}) /\ ~At(c, {"spawn", "forget"})
    BY <1>1 DEF At, Idle
  <2>2. chains[c] # None => chains[c] \in Of(c)
    BY <1>7 DEF Sound, OneInstance
  <2>3. OneInstance(c)' /\ PrefixFilled(c)'
    BY <1>1, <1>4, <1>5, <1>7, <2>1, <2>2 DEF Sound, OneInstance, PrefixFilled
  <2>4. CleanEnd(c)'
    BY <2>1 DEF CleanEnd
  <2>5. Registered(c)'
    BY <1>1, <1>7, <2>1 DEF Sound, Registered, Empty
  <2> QED  BY <1>7, <2>3, <2>4, <2>5 DEF Sound
<1> QED  BY <1>6, <1>7

LEMMA DeletionSound ==
  ASSUME NEW d \in Chains \ spoiled', TypeOK, Sound(d), NEW c \in Chains,
         CollectKeys(c) \/ DeleteBlocks(c) \/ DeleteTip(c) \/ ForgetChain(c)
  PROVE  Sound(d)'
<1>1. UNCHANGED <<up, wanted>> /\ At(c, {"stop", "wipe", "tip", "forget"})
  BY DEF CollectKeys, DeleteBlocks, DeleteTip, ForgetChain, At
<1>2. CASE d # c
  <2>1. ~On(d) /\ ~On(d)'
    BY <1>2 DEF CollectKeys, DeleteBlocks, DeleteTip, ForgetChain, On, At, Idle
  <2>2. chains'[d] = chains[d] /\ disk'[d] = disk[d]
    BY <1>2 DEF CollectKeys, DeleteBlocks, DeleteTip, ForgetChain, TypeOK
  <2>3. /\ d \in stored' <=> d \in stored
        /\ d \in registry' <=> d \in registry
    BY <1>2 DEF CollectKeys, DeleteBlocks, DeleteTip, ForgetChain, Deleted
  <2>4. Of(d)' = Of(d) /\ \A i \in Of(d) : inst'[i] = inst[i]
    <3>1. CASE inst' = inst
      BY <3>1 DEF Of
    <3>2. CASE DeleteTip(c)
      <4>1. /\ DOMAIN inst' \subseteq DOMAIN inst
            /\ \A i \in DOMAIN inst' : inst'[i] = inst[i]
            /\ \A i \in DOMAIN inst :
                 chains'[inst[i].chain] = i => i \in DOMAIN inst'
        BY <3>2 DEF DeleteTip, Kept, Restrict
      <4>2. \A i \in Of(d) : chains'[inst[i].chain] = i
        BY <2>2 DEF Sound, OneInstance, Of
      <4> QED  BY <4>1, <4>2 DEF Of
    <3> QED  BY <3>1, <3>2 DEF CollectKeys, DeleteBlocks, ForgetChain
  <2>5. \A i \in Of(d) : Busy(inst[i])' <=> Busy(inst[i])
    BY <2>4
  <2> QED  BY <1>1, <2>1, <2>2, <2>3, <2>4, <2>5, UntouchedSound DEF Untouched
<1>3. CASE d = c /\ CollectKeys(c)
  <2>1. /\ task = [step |-> "stop", c |-> c]
        /\ task' = IF chains[c] = None THEN [step |-> "forget", c |-> c]
                   ELSE [step |-> "wipe", c |-> c, keys |-> disk[c].blocks]
        /\ UNCHANGED <<registry, stored, chains, inst, disk>>
    BY <1>3 DEF CollectKeys
  <2>2. ~Spoils(c)
    BY <1>3 DEF CollectKeys
  <2>3. /\ chains[c] = None => disk[c] = Empty
        /\ chains[c] # None => ~Busy(inst[chains[c]])
    BY <1>3, <2>2 DEF Spoils, Sound, OneInstance
  <2>4. Of(c)' = Of(c) /\ (Busy(inst[chains[c]])' <=> Busy(inst[chains[c]]))
    BY <2>1 DEF Of
  <2>5. OneInstance(c)' /\ PrefixFilled(c)'
    BY <1>3, <2>1, <2>4 DEF Sound, OneInstance, PrefixFilled, At
  <2>6. CleanEnd(c)'
    BY <2>1, <2>3, <2>4 DEF CleanEnd, At
  <2>7. Registered(c)'
    BY <1>1, <1>3, <2>1 DEF Sound, Registered, At, Empty
  <2> QED  BY <1>3, <2>5, <2>6, <2>7 DEF Sound
<1>4. CASE d = c /\ DeleteBlocks(c)
  <2>1. /\ At(c, {"wipe"}) /\ At(c, {"wipe", "tip"})
        /\ task' = [step |-> "tip", c |-> c]
        /\ disk' = [disk EXCEPT ![c].blocks = @ \ task.keys]
        /\ UNCHANGED <<registry, stored, chains, inst>>
    BY <1>4 DEF DeleteBlocks, At
  <2>2. /\ chains[c] # None /\ ~Busy(inst[chains[c]])
        /\ task.keys = disk[c].blocks
    BY <1>4, <2>1 DEF Sound, CleanEnd
  <2>3. disk'[c].blocks = {}
    BY <2>1, <2>2 DEF TypeOK
  <2>4. c \in stored
    <3>1. disk[c] = Filled(inst[chains[c]].height)
      BY <1>4, <2>1, <2>2 DEF Sound, PrefixFilled, At
    <3>2. inst[chains[c]].height \in Heights
      BY <1>4, <2>2 DEF Sound, OneInstance, Of, TypeOK, Instance
    <3>3. disk[c] # Empty
      BY <3>1, <3>2 DEF Filled, Empty, Heights, NoTip
    <3> QED  BY <1>4, <3>3 DEF Sound, Registered
  <2>5. /\ At(c, {"tip"})' /\ ~At(c, {"wipe"})' /\ ~At(c, {"forget"})'
        /\ ~At(c, {"spawn"})' /\ Of(c)' = Of(c)
    BY <2>1 DEF At, Of
  <2>6. OneInstance(c)' /\ PrefixFilled(c)' /\ CleanEnd(c)'
    BY <1>4, <2>1, <2>2, <2>3, <2>5 DEF Sound, OneInstance, PrefixFilled, CleanEnd
  <2>7. Registered(c)'
    BY <1>1, <1>4, <2>1, <2>2, <2>4, <2>5 DEF Sound, Registered
  <2> QED  BY <1>4, <2>6, <2>7 DEF Sound
<1>5. CASE d = c /\ DeleteTip(c)
  <2>1. /\ At(c, {"tip"}) /\ At(c, {"wipe", "tip"})
        /\ task' = [step |-> "forget", c |-> c]
        /\ disk' = [disk EXCEPT ![c] = [@ EXCEPT !.tip = NoTip]]
        /\ chains' = [chains EXCEPT ![c] = None]
        /\ inst' = Kept(inst, chains')
        /\ UNCHANGED <<registry, stored>>
    BY <1>5 DEF DeleteTip, TipAfter, At
  <2>2. /\ chains[c] # None /\ ~Busy(inst[chains[c]]) /\ disk[c].blocks = {}
        /\ Of(c) = {chains[c]} /\ c \in registry
    BY <1>5, <2>1 DEF Sound, CleanEnd, OneInstance, Registered
  <2>3. disk'[c] = Empty /\ chains'[c] = None
    BY <2>1, <2>2 DEF TypeOK, Empty
  <2>4. Of(c)' = {}
    <3>1. /\ DOMAIN inst' \subseteq DOMAIN inst
          /\ \A i \in DOMAIN inst' : inst'[i] = inst[i]
          /\ \A i \in DOMAIN inst' :
               Busy(inst[i]) \/ chains'[inst[i].chain] = i
      BY <2>1 DEF Kept, Restrict
    <3>2. \A i \in Of(c) : ~Busy(inst[i]) /\ chains'[inst[i].chain] # i
      BY <2>2, <2>3 DEF Of, TypeOK, Ids, None
    <3> QED  BY <3>1, <3>2 DEF Of
  <2>5. /\ At(c, {"forget"})' /\ At(c, {"spawn", "forget"})'
        /\ ~At(c, {"wipe"})' /\ ~At(c, {"tip"})' /\ ~At(c, {"wipe", "tip"})'
        /\ ~At(c, {"spawn"})'
    BY <2>1 DEF At
  <2>6. OneInstance(c)' /\ PrefixFilled(c)' /\ CleanEnd(c)'
    BY <2>3, <2>4, <2>5 DEF OneInstance, PrefixFilled, CleanEnd
  <2>7. Registered(c)'
    BY <1>1, <1>5, <2>1, <2>3, <2>5 DEF Sound, Registered
  <2> QED  BY <1>5, <2>6, <2>7 DEF Sound
<1>6. CASE d = c /\ ForgetChain(c)
  <2>1. /\ At(c, {"forget"}) /\ task' = Idle
        /\ registry' = registry \ {c} /\ stored' = stored \ {c}
        /\ UNCHANGED <<chains, disk, inst>>
    BY <1>6 DEF ForgetChain, Deleted, At
  <2>2. chains[c] = None /\ disk[c] = Empty
    BY <1>6, <2>1 DEF Sound, CleanEnd
  <2>3. /\ ~At(c, {"wipe"})' /\ ~At(c, {"tip"})' /\ ~At(c, {"wipe", "tip"})'
        /\ ~At(c, {"forget"})' /\ ~At(c, {"spawn"})' /\ Of(c)' = Of(c)
    BY <2>1 DEF At, Idle, Of
  <2>4. OneInstance(c)' /\ PrefixFilled(c)' /\ CleanEnd(c)' /\ Registered(c)'
    BY <1>6, <2>1, <2>2, <2>3
       DEF Sound, OneInstance, PrefixFilled, CleanEnd, Registered, Empty
  <2> QED  BY <1>6, <2>4 DEF Sound
<1> QED  BY <1>2, <1>3, <1>4, <1>5, <1>6

LEMMA GoroutineSound ==
  ASSUME NEW d \in Chains, TypeOK, Sound(d), NEW i, NEW r, InstanceStep(i, r)
  PROVE  Sound(d)'
<1>1. /\ i \in DOMAIN inst /\ r \in Instance /\ r.chain = inst[i].chain
      /\ Changed(r, i) /\ inst[i] \in Instance
      /\ UNCHANGED <<up, wanted, registry, stored, chains, task>>
  BY DEF InstanceStep, TypeOK
<1>2. /\ DOMAIN inst' \subseteq DOMAIN inst
      /\ \A j \in DOMAIN inst' : inst'[j] = IF j = i THEN r ELSE inst[j]
      /\ \A j \in DOMAIN inst : chains[inst[j].chain] = j => j \in DOMAIN inst'
  BY <1>1, ChangedInstance
<1>3. Of(d)' = Of(d)
  <2>1. \A j \in Of(d) : chains[inst[j].chain] = j
    BY DEF Sound, OneInstance, Of
  <2> QED  BY <1>1, <1>2, <2>1 DEF Of
<1>4. CASE inst[i].chain # d
  <2>1. disk'[d] = disk[d]
    BY <1>4 DEF InstanceStep, Extend, TypeOK
  <2>2. \A j \in Of(d) : inst'[j] = inst[j]
    BY <1>2, <1>3, <1>4 DEF Of
  <2>3. \A j \in Of(d) : Busy(inst[j])' <=> Busy(inst[j])
    BY <2>2
  <2> QED  BY <1>1, <1>3, <2>1, <2>2, <2>3, UntouchedSound DEF Untouched
<1>5. CASE inst[i].chain = d
  <2>1. i \in Of(d) /\ Of(d) = {i} /\ chains[d] = i /\ chains[d] # None
    BY <1>1, <1>5 DEF Of, Sound, OneInstance
  <2>2. inst'[i] = r
    BY <1>2, <1>3, <2>1 DEF Of
  <2>3. ~At(d, {"wipe", "tip"}) /\ ~At(d, {"wipe"}) /\ ~At(d, {"tip"})
    BY <2>1 DEF InstanceStep, Sound, CleanEnd, At
  <2>4. ~At(d, {"forget"}) /\ ~At(d, {"spawn"})
    BY <2>1 DEF Sound, CleanEnd, Registered
  <2>5. disk[d] = Filled(inst[i].height) /\ inst[i].height \in Nat
    BY <1>1, <2>1, <2>3 DEF Sound, PrefixFilled, Instance, Heights
  <2>6. disk'[d] = Filled(r.height)
    <3>1. CASE disk' = disk /\ r.height = inst[i].height
      BY <2>5, <3>1
    <3>2. CASE Extend(i) /\ r.height = inst[i].height + 1
      <4> DEFINE h == inst[i].height
      <4>1. disk'[d] = [blocks |-> (0 .. h) \union {h + 1}, tip |-> h + 1]
        <5>1. disk' = [disk EXCEPT ![d] = [blocks |-> disk[d].blocks \union {h + 1},
                                           tip |-> h + 1]]
          BY <1>5, <3>2 DEF Extend
        <5>2. disk[d].blocks = 0 .. h
          BY <2>5 DEF Filled
        <5> QED  BY <5>1, <5>2 DEF TypeOK
      <4>2. (0 .. h) \union {h + 1} = 0 .. (h + 1)
        BY <2>5
      <4> QED  BY <3>2, <4>1, <4>2 DEF Filled
    <3> QED  BY <3>1, <3>2 DEF InstanceStep
  <2>7. OneInstance(d)' /\ PrefixFilled(d)'
    BY <1>1, <1>3, <2>1, <2>2, <2>6 DEF Sound, OneInstance, PrefixFilled
  <2>8. CleanEnd(d)'
    BY <1>1, <2>3, <2>4 DEF CleanEnd, At
  <2>9. Registered(d)'
    <3>1. d \in registry /\ d \in wanted /\ d \in stored
      <4>1. disk[d] # Empty
        BY <2>5 DEF Filled, Empty, NoTip
      <4> QED  BY <2>1, <4>1 DEF Sound, Registered
    <3> QED  BY <1>1, <2>1, <2>4, <3>1 DEF Registered, At
  <2> QED  BY <2>7, <2>8, <2>9 DEF Sound
<1> QED  BY <1>4, <1>5

LEMMA StartSound ==
  ASSUME NEW d \in Chains \ spoiled', TypeOK, DownIsEmpty, Sound(d), Start
  PROVE  Sound(d)'
<1>1. /\ ~up /\ up' /\ p2p' \in BOOLEAN
      /\ task = Idle /\ task' = Idle /\ UNCHANGED stored
      /\ DOMAIN inst = {}
  BY SubChainsAssumption DEF Start, DownIsEmpty
<1>2. PICK load \in SUBSET stored : \E spawns \in SUBSET load :
         /\ Restore(load, spawns)
         /\ d \in load => (d \in spawns <=> d \in wanted')
  <2>1. CASE Restore(stored, stored \intersect wanted')
    BY <2>1
  <2>2. ASSUME NEW load \in SUBSET stored, NEW f \in load \intersect wanted',
               Torn(f), Restore(load, (load \ {f}) \intersect wanted')
        PROVE  \E spawns \in SUBSET load :
                 /\ Restore(load, spawns)
                 /\ d \in load => (d \in spawns <=> d \in wanted')
    <3>1. f # d
      <4>1. ~At(d, {"tip"}) /\ chains[d] = None
        BY <1>1 DEF At, Idle, DownIsEmpty
      <4>2. disk[d] = Empty \/ \E h \in Heights : disk[d] = Filled(h)
        BY <4>1 DEF Sound, PrefixFilled
      <4>3. disk[d].blocks = 0 .. disk[d].tip
        <5>1. Empty.blocks = 0 .. Empty.tip
          BY DEF Empty, NoTip
        <5>2. \A h : Filled(h).blocks = 0 .. Filled(h).tip
          BY DEF Filled
        <5> QED  BY <4>2, <5>1, <5>2
      <4> QED  BY <2>2, <4>3 DEF Torn
    <3> QED  BY <2>2, <3>1
  <2> QED  BY <2>1, <2>2 DEF Start
<1>3. PICK spawns \in SUBSET load :
         /\ Restore(load, spawns)
         /\ d \in load => (d \in spawns <=> d \in wanted')
  BY <1>2
<1>4. PICK new \in Injection(spawns, Ids) :
         /\ registry' = load
         /\ chains' = [c \in Chains |-> IF c \in spawns THEN new[c] ELSE None]
         /\ inst' = [i \in {new[c] : c \in spawns} |->
                       Spawned(CHOOSE c \in spawns : new[c] = i, p2p')]
         /\ disk' = [c \in Chains |->
                       IF c \in spawns THEN Opened(disk[c]) ELSE disk[c]]
         /\ spoiled' = spoiled \union (stored \ load)
  BY <1>3 DEF Restore
<1>5. /\ new \in [spawns -> Ids] /\ spawns \subseteq Chains
      /\ \A b, c \in spawns : new[b] = new[c] => b = c
  BY DEF Injection, IsInjective, TypeOK
<1>6. \A c \in spawns : /\ new[c] \in DOMAIN inst' /\ inst'[new[c]].chain = c
                        /\ inst'[new[c]].height = Opened(disk[c]).tip
  <2> TAKE c \in spawns
  <2>1. (CHOOSE b \in spawns : new[b] = new[c]) = c
    BY <1>5
  <2>2. new[c] \in DOMAIN inst' /\ inst'[new[c]] = Spawned(c, p2p')
    BY <1>4, <2>1
  <2> QED  BY <2>2 DEF Spawned
<1>7. \A i \in DOMAIN inst' : \E c \in spawns : i = new[c]
  BY <1>4
<1>8. /\ d \in stored <=> d \in load
      /\ chains'[d] = IF d \in spawns THEN new[d] ELSE None
      /\ disk'[d] = IF d \in spawns THEN Opened(disk[d]) ELSE disk[d]
  BY <1>4
<1>9. None \notin Ids
  BY DEF Ids, None
<1>10. /\ ~At(d, {"wipe", "tip"})' /\ ~At(d, {"wipe"})' /\ ~At(d, {"tip"})'
       /\ ~At(d, {"forget"})' /\ ~At(d, {"spawn"})' /\ ~At(d, {"tip"})
  BY <1>1 DEF At, Idle
<1>11. disk[d] = Empty \/ \E h \in Heights : disk[d] = Filled(h)
  BY <1>1, <1>10 DEF Sound, PrefixFilled, DownIsEmpty
<1>12. Opened(disk[d]) = Filled(Opened(disk[d]).tip)
  <2>1. disk[d] \in [blocks : SUBSET Heights, tip : Heights \union {NoTip}]
    BY DEF TypeOK
  <2>2. CASE disk[d] = Empty
    <3>1. Opened(disk[d]) = Filled(0)
      BY <2>1, <2>2, OpenedType
    <3> QED  BY <3>1 DEF Filled
  <2>3. ASSUME NEW h \in Heights, disk[d] = Filled(h)
        PROVE  Opened(disk[d]) = Filled(Opened(disk[d]).tip)
    <3>1. Opened(disk[d]) = Filled(h)
      BY <2>1, <2>3, OpenedType
    <3> QED  BY <3>1 DEF Filled
  <2> QED  BY <1>11, <2>2, <2>3
<1>13. OneInstance(d)'
  <2>1. CASE d \in spawns
    <3>1. chains'[d] = new[d] /\ new[d] # None
      BY <1>5, <1>8, <1>9, <2>1
    <3>2. Of(d)' = {new[d]}
      BY <1>6, <1>7, <2>1 DEF Of
    <3> QED  BY <3>1, <3>2 DEF OneInstance
  <2>2. CASE d \notin spawns
    <3>1. Of(d)' = {}
      BY <1>6, <1>7, <2>2 DEF Of
    <3> QED  BY <1>8, <2>2, <3>1 DEF OneInstance
  <2> QED  BY <2>1, <2>2
<1>14. PrefixFilled(d)'
  <2>1. CASE d \in spawns
    BY <1>5, <1>6, <1>8, <1>9, <1>12, <2>1 DEF PrefixFilled
  <2>2. CASE d \notin spawns
    BY <1>8, <1>11, <2>2 DEF PrefixFilled, Empty
  <2> QED  BY <2>1, <2>2
<1>15. CleanEnd(d)'
  BY <1>10 DEF CleanEnd
<1>16. Registered(d)'
  <2>1. disk'[d] # Empty => d \in stored
    <3>1. CASE d \in spawns
      BY <1>8, <3>1
    <3>2. CASE d \notin spawns
      BY <1>8, <3>2 DEF Sound, Registered
    <3> QED  BY <3>1, <3>2
  <2>2. chains'[d] # None <=> d \in spawns
    BY <1>5, <1>8, <1>9
  <2> QED  BY <1>1, <1>3, <1>4, <1>8, <1>10, <2>1, <2>2 DEF Registered, Empty
<1> QED  BY <1>13, <1>14, <1>15, <1>16 DEF Sound

LEMMA SoundStep ==
  TypeOK /\ DownIsEmpty /\ CleanOnesSound /\ [Next]_vars => CleanOnesSound'
<1> SUFFICES ASSUME TypeOK, DownIsEmpty, CleanOnesSound, [Next]_vars,
                    NEW d \in Chains \ spoiled'
             PROVE  Sound(d)'
  BY DEF CleanOnesSound
<1>1. ASSUME NEW c \in Chains, HandleRegistration(c) \/ SpawnChain(c)
                                \/ SpawnFails(c) \/ HandleDeregistration(c)
      PROVE  Sound(d)'
  <2>1. spoiled' = spoiled
    BY <1>1 DEF HandleRegistration, SpawnChain, SpawnFails, HandleDeregistration
  <2> QED
    BY <1>1, <2>1, RegistrationSound, SpawnSound, SpawnFailsSound, StopSound
       DEF CleanOnesSound
<1>2. ASSUME NEW c \in Chains, CollectKeys(c) \/ DeleteBlocks(c) \/ DeleteTip(c)
                                \/ ForgetChain(c)
      PROVE  Sound(d)'
  <2>1. d \notin spoiled
    BY <1>2 DEF CollectKeys, DeleteBlocks, DeleteTip, ForgetChain
  <2> QED  BY <1>2, <2>1, DeletionSound DEF CleanOnesSound
<1>3. CASE Goroutines
  <2>1. PICK i, r : InstanceStep(i, r)
    BY <1>3, GoroutineSteps
  <2>2. d \notin spoiled
    BY <2>1 DEF InstanceStep
  <2> QED  BY <2>1, <2>2, GoroutineSound DEF CleanOnesSound
<1>4. CASE RootSynced \/ UNCHANGED vars
  <2>1. /\ UNCHANGED <<up, wanted, registry, stored, chains, inst, disk, task,
                        spoiled>>
    BY <1>4 DEF RootSynced, vars
  <2>2. Of(d)' = Of(d) /\ \A i \in Of(d) : Busy(inst[i])' <=> Busy(inst[i])
    BY <2>1 DEF Of
  <2> QED  BY <2>1, <2>2, UntouchedSound DEF Untouched, CleanOnesSound
<1>5. CASE Crash
  <2>1. /\ ~up' /\ registry' = {} /\ task' = Idle /\ UNCHANGED <<stored, disk>>
        /\ chains'[d] = None /\ DOMAIN inst' = {} /\ d \notin spoiled
    BY <1>5 DEF Crash
  <2>2. Sound(d) /\ ~At(d, {"tip"})
    BY <1>5, <2>1 DEF Crash, CleanOnesSound, At
  <2>3. disk[d] = Empty \/ \E h \in Heights : disk[d] = Filled(h)
    <3>1. chains[d] # None => inst[chains[d]].height \in Heights
      BY <2>2 DEF Sound, OneInstance, Of, TypeOK, Instance
    <3> QED  BY <2>2, <3>1 DEF Sound, PrefixFilled
  <2>4. /\ ~At(d, {"wipe", "tip"})' /\ ~At(d, {"wipe"})' /\ ~At(d, {"tip"})'
        /\ ~At(d, {"forget"})' /\ ~At(d, {"spawn"})' /\ Of(d)' = {}
    BY <2>1 DEF At, Idle, Of
  <2> QED
    BY <2>1, <2>2, <2>3, <2>4
       DEF Sound, OneInstance, PrefixFilled, CleanEnd, Registered, Empty
<1>6. CASE Start
  <2>1. spoiled \subseteq spoiled'
    BY <1>6 DEF Start, Restore
  <2> QED  BY <1>6, <2>1, StartSound DEF CleanOnesSound
<1> QED
  BY <1>1, <1>2, <1>3, <1>4, <1>5, <1>6 DEF Next, Manager, Continue

-----------------------------------------------------------------------------
LEMMA SoundAlways ==
  Spec => [](TypeOK /\ DownIsEmpty /\ MapHasMiners /\ CleanOnesSound)
<1>1. Init => TypeOK /\ DownIsEmpty /\ MapHasMiners /\ CleanOnesSound
  <2> SUFFICES ASSUME Init
               PROVE  DownIsEmpty /\ MapHasMiners /\ CleanOnesSound
    BY InitType
  <2>1. DOMAIN inst = {} /\ ~up /\ registry = {} /\ task = Idle
    BY DEF Init
  <2>2. \A c \in Chains : chains[c] = None /\ scMiners[c] = None /\ disk[c] = Empty
    BY DEF Init
  <2>3. \A c \in Chains : \A steps :
          steps \subseteq {"spawn", "stop", "wipe", "tip", "forget"} => ~At(c, steps)
    BY <2>1 DEF At, Idle
  <2>4. \A c \in Chains : Of(c) = {}
    BY <2>1 DEF Of
  <2>5. DownIsEmpty /\ MapHasMiners
    BY <2>1, <2>2 DEF Init, DownIsEmpty, MapHasMiners
  <2>6. ASSUME NEW c \in Chains  PROVE Sound(c)
    <3>1. /\ ~At(c, {"wipe", "tip"}) /\ ~At(c, {"wipe"}) /\ ~At(c, {"tip"})
          /\ ~At(c, {"forget"}) /\ ~At(c, {"spawn"})
      BY <2>3
    <3> QED
      BY <2>1, <2>2, <2>4, <3>1
         DEF Sound, OneInstance, PrefixFilled, CleanEnd, Registered, Empty
  <2> QED  BY <2>5, <2>6 DEF CleanOnesSound
<1> QED  BY <1>1, TypeStep, DownStep, MapStep, SoundStep, PTL DEF Spec

\* TipsAgreeAlways: unless an earlier end was not clean, the manager's instance
\* alone writes to the prefix of its sub-chain, and the two agree on the tip
\* (Spawn, ProcessBlock of the instance, DeleteAll).
THEOREM TipsAgreeAlways == Spec => []TipsAgree
<1>1. TypeOK /\ CleanOnesSound => TipsAgree
  <2> SUFFICES ASSUME CleanOnesSound, NEW c \in Chains \ spoiled,
                      chains[c] # None, task.step \notin {"wipe", "tip"}
               PROVE  Of(c) = {chains[c]} /\ disk[c] = Filled(inst[chains[c]].height)
    BY DEF TipsAgree, Filled
  <2> QED  BY DEF CleanOnesSound, Sound, OneInstance, PrefixFilled, At
<1> QED  BY <1>1, SoundAlways, PTL

\* NothingLeftAlways: what a clean HandleDeregistration took back leaves no data,
\* no goroutine and no entry in the map of miners.
THEOREM NothingLeftAlways == Spec => []NothingLeft
<1>1. TypeOK /\ MapHasMiners /\ CleanOnesSound => NothingLeft
  <2> SUFFICES ASSUME TypeOK, MapHasMiners, CleanOnesSound,
                      NEW c \in Chains \ (spoiled \union registry \union stored),
                      up, task = Idle
               PROVE  disk[c] = Empty /\ Of(c) = {} /\ scMiners[c] = None
    BY DEF NothingLeft
  <2>1. disk[c] = Empty /\ Of(c) = {}
    BY DEF CleanOnesSound, Sound, OneInstance, Registered
  <2>2. scMiners[c] # None => scMiners[c] \in Of(c)
    BY DEF MapHasMiners, Of
  <2> QED  BY <2>1, <2>2
<1> QED  BY <1>1, SoundAlways, PTL

\* RegistryAgreesAlways: over crashes in every step of the manager and failed
\* restores, memory, database and instances tell the same sub-chains
\* (HandleRegistration, HandleDeregistration, RestoreChains).
THEOREM RegistryAgreesAlways == Spec => []RegistryAgrees
<1>1. CleanOnesSound => RegistryAgrees
  <2> SUFFICES ASSUME CleanOnesSound, up, task = Idle, NEW c \in Chains \ spoiled
               PROVE  /\ c \in registry <=> c \in stored
                      /\ chains[c] # None <=> c \in registry \intersect wanted
    BY DEF RegistryAgrees
  <2>1. ~At(c, {"spawn", "forget"})
    BY DEF At, Idle
  <2> QED  BY <2>1 DEF CleanOnesSound, Sound, Registered
<1> QED  BY <1>1, SoundAlways, PTL

=============================================================================
