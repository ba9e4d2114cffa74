----------------------------- MODULE Production -----------------------------
(***************************************************************************)
(* Block production by a network of validators: the loop runMiner of       *)
(* internal/node/node.go on every validator, over the rules of PoA and the *)
(* signing limit of the chain.                                             *)
(*                                                                         *)
(* Time runs in half block times, the unit of BackupDelayEffective, modulo *)
(* 2 * Cycle.  Cycle is a multiple of the size of every set a slot is      *)
(* reduced by, so nothing distinguishes two times equal modulo 2 * Cycle.  *)
(* The network is synchronous: a block made at one instant is known to all *)
(* before the next, and of the blocks made at one instant all keep a       *)
(* heaviest one.  The chain is older than the suspension window.  All      *)
(* nodes have the same chain, so the suspension state is shared; what      *)
(* happens when a node's own copy drifts is the subject of Suspensions.    *)
(***************************************************************************)
EXTENDS PoA

CONSTANTS
  Validators,
  Cycle,
  MayFail,       \* bound: the validators whose process may end and start
  Observers      \* BOOLEAN: nodes that do not mine are connected as well

ASSUME ProductionAssumption ==
  /\ Validators \subseteq Nat /\ IsFiniteSet(Validators) /\ Validators # {}
  /\ Cycle \in Nat \ {0}
  /\ \A n \in 1 .. Cardinality(Validators) : Cycle % n = 0
  /\ SuspensionWindow >= Cardinality(Validators)
  /\ MinActiveValidators = 1
  /\ MayFail \subseteq Validators
  /\ Observers \in BOOLEAN

VARIABLES
  t,        \* half block times, modulo 2 * Cycle
  up,       \* validators whose process runs
  known,    \* validators whose heartbeats every tracker agrees about
  age,      \* blocks on top of the last one v signed; capped
  left,     \* half block times left of v's backup delay, 0 when none runs
  stale,    \* waiting validators for which the height has moved on
  outcome   \* what the last instant brought: "none", "inturn", "backup"

vars == <<t, up, known, age, left, stale, outcome>>

N == Cardinality(Validators)

Gone == SuspensionWindow + 1     \* the age at and above which v is suspended

\* The engine's state, from the ages: any height above the window will do.
Height == 2 * Gone
Last   == [v \in {u \in Validators : age[u] < Gone} |-> Height - age[v]]

Suspended(v) == IsSuspended(Validators, Last, Height, v)
Delay(v, slot) == BackupDelayEffective(Validators, Last, Height, v, slot)

\* checkSigningLimit: v signed one of the last SigningLimit - 1 blocks.

LimitReached_Longer(v) == age[v] < SigningLimit(Validators)

LimitReached(v) == age[v] < SigningLimit(Validators) - 1

\* No peers, no production.
Isolated == ~Observers /\ Cardinality(up) <= 1

-----------------------------------------------------------------------------
\* Those in A have signed most recently, in some order; the others not within
\* the window.
Rotated(A) ==
  {a \in [Validators -> 0 .. Gone] :
     /\ \A v \in Validators \ A : a[v] = Gone
     /\ {a[v] : v \in A} = 0 .. Cardinality(A) - 1
     /\ \A u, v \in A : u # v => a[u] # a[v]}

Init ==
  /\ t = 0
  /\ up \in {S \in SUBSET Validators : Validators \ MayFail \subseteq S}
  /\ known \in {{}, Validators}
  /\ \E A \in SUBSET Validators :
       Cardinality(A) >= SigningLimit(Validators) /\ age \in Rotated(A)
  /\ left = [v \in Validators |-> 0]
  /\ stale = {}
  /\ outcome = "none"

\* The chain gets a block of v.
Signed(v) ==
  [u \in Validators |-> IF u = v THEN 0
                        ELSE IF age[u] < Gone THEN age[u] + 1 ELSE Gone]

\* At a slot boundary the idle miners wake.
Woken(now) ==
  IF now % 2 = 0 /\ ~Isolated THEN {v \in up : left[v] = 0} ELSE {}

\* Those that are not in turn (p is) defer to p when they take it to be online
\* and it is not suspended; the others will wait for their backup delay.
Backups(woken, p, hears) ==
  IF Suspended(p) THEN woken \ {p} ELSE woken \ (hears \union {p})

\* The miners that build a block now: in turn, without delay, or after it.
Tries_NotSuspended(woken, p, delay) ==
  {v \in woken \intersect {p} : ~Suspended(v)}
    \union {v \in DOMAIN delay : delay[v] = 0}
    \union {v \in up : left[v] = 1 /\ v \notin stale}

Tries(woken, p, delay) ==
  (woken \intersect {p})
    \union {v \in DOMAIN delay : delay[v] = 0}
    \union {v \in up : left[v] = 1 /\ v \notin stale}

\* The heaviest of the blocks that the signing limit admits, by signer.
Heaviest(tries, slot) ==
  LET admitted  == {v \in tries : ~LimitReached(v)}
      weight(v) == DifficultyOf(Validators, v, slot)
  IN  {v \in admitted : \A u \in admitted : weight(u) <= weight(v)}

\* Wait of each miner after this instant.
Remaining(delay) ==
  [v \in Validators |-> IF v \in DOMAIN delay THEN delay[v]
                        ELSE IF left[v] > 0 THEN left[v] - 1 ELSE 0]

\* The sets of miners that may take p to be online: all or none of them once
\* its heartbeats have come, or failed to come, for long enough.
Hears(woken, p) ==
  IF p \in known THEN {IF p \in up THEN woken ELSE {}} ELSE SUBSET woken

\* Half a block time passes, and the loops that it wakes go round.
Tick == t' = (t + 1) % (2 * Cycle)

Instant ==
  LET now   == (t + 1) % (2 * Cycle)
      slot  == now \div 2
      p     == SlotValidator(Validators, slot)
      woken == Woken(now)
  IN  /\ Tick
      /\ \E hears \in Hears(woken, p) :
           LET delay == [v \in Backups(woken, p, hears) |-> Delay(v, slot)]
               best  == Heaviest(Tries(woken, p, delay), slot)
           IN  /\ left' = Remaining(delay)
               /\ \/ /\ best = {}
                     /\ outcome' = "none"
                     /\ stale' = {v \in stale : left'[v] > 0}
                     /\ UNCHANGED age
                  \/ \E v \in best :
                       /\ age' = Signed(v)
                       /\ outcome' = IF v = p THEN "inturn" ELSE "backup"
                       /\ stale' = {u \in Validators : left'[u] > 0}
      /\ UNCHANGED <<up, known>>

\* A validator's process ends or starts.  Its tracker starts empty, and the
\* others learn of the change with the next heartbeats or their absence.
Stop(v) ==
  /\ v \in up \intersect MayFail
  /\ up' = up \ {v}
  /\ known' = known \ {v}
  /\ left' = [left EXCEPT ![v] = 0]
  /\ stale' = stale \ {v}
  /\ UNCHANGED <<t, age, outcome>>

Start(v) ==
  /\ v \in MayFail \ up
  /\ up' = up \union {v}
  /\ known' = {}
  /\ UNCHANGED <<t, age, left, stale, outcome>>

\* The heartbeats of v have reached all, or have failed to for twice the
\* interval.
Settle(v) ==
  /\ v \notin known
  /\ known' = known \union {v}
  /\ UNCHANGED <<t, up, age, left, stale, outcome>>

Next ==
  \/ Instant
  \/ \E v \in Validators : Stop(v) \/ Start(v) \/ Settle(v)

\* The clock runs (the steps that change t are those of Instant, which is
\* always enabled).  Of heartbeats nothing is assumed: a property that needs
\* them says so.
Spec     == Init /\ [][Next]_vars
FairSpec == Spec /\ WF_t(Tick)

-----------------------------------------------------------------------------
\* TypeOK: the variables of the network of miners (runMiner, PoA, the
\* validator tracker) keep their types.
TypeOK ==
  /\ t \in 0 .. 2 * Cycle - 1
  /\ up \subseteq Validators /\ known \subseteq Validators
  /\ stale \subseteq {v \in up : left[v] > 0}
  /\ age \in [Validators -> 0 .. Gone]
  /\ left \in [Validators -> 0 .. N + 1]
  /\ outcome \in {"none", "inturn", "backup"}

\* SignersRotate: of the validators on record no two signed the same block,
\* the newest block has a signer, and the last SigningLimit blocks have
\* different signers (checkSigningLimit, processor.go, and
\* RecordBlockProduction, poa.go): the ages 0 .. SigningLimit - 1 are all taken.
SignersRotate ==
  /\ \A u, v \in Validators : u # v /\ age[u] = age[v] => age[u] = Gone
  /\ 0 .. SigningLimit(Validators) - 1 \subseteq {age[v] : v \in Validators}

\* SomeoneMaySign: in every majority of the validators one is not barred by
\* the signing limit (SigningLimit, poa.go): a majority can go on.
SomeoneMaySign ==
  \A Q \in SUBSET Validators :
     2 * Cardinality(Q) > N => \E v \in Q : ~LimitReached(v)

\* ActiveRemain: suspensions never cover everyone who signed recently: the
\* effective set holds the signer of the last block and only unsuspended
\* validators (effectiveSetLocked and wouldViolateMinActive, poa.go).
ActiveRemain ==
  /\ \A v \in Validators : age[v] = 0 => ~Suspended(v)
  /\ EffectiveSet(Validators, Last, Height)
       = {v \in Validators : ~Suspended(v)}

\* ChainGrows: while a majority of the validators stays up, whatever the
\* others do and whoever is taken to be online, blocks keep coming (runMiner,
\* BackupDelayEffective, checkSigningLimit).
ChainGrows ==
  \A Q \in SUBSET Validators :
     2 * Cardinality(Q) > N =>
        (<>[](Q \subseteq up) => []<>(outcome # "none"))

\* RotationResumes: once all validators are up and heard of, from then on every
\* slot is filled by its own validator (the reactivation described at
\* node.go:1136, SlotValidator, the deferral to online validators).
RotationResumes ==
  <>[](up = Validators /\ known = Validators)
     => <>[](t % 2 = 0 => outcome = "inturn")

\* NeverStalls (README.md:428: "if the in-turn validator is offline, backups
\* produce after a staggered delay ... Chain never stalls"): one validator that
\* stays up keeps the chain growing.
NeverStalls ==
  \A v \in Validators : <>[](v \in up) => []<>(outcome # "none")
=============================================================================
