-------------------------------- MODULE Sync --------------------------------
(***************************************************************************)
(* The nodes of the root chain and how blocks travel between them:         *)
(* production and gossip, the block handler, Start, the sync loop,         *)
(* runStartupSync and resolveFork.                                         *)
(*                                                                         *)
(* A node's chain is what Chain shows it to be: the set of stored blocks   *)
(* and the tip, changed by ProcessBlock in one step (Chain!ImplementsLedger*)
(* and TipGainsWork).  Every request to a peer is a step of its own; a     *)
(* batch of blocks is requested block by block, so that every interleaving *)
(* of a batch with the peer's and the node's own progress is there.        *)
(*                                                                         *)
(* Gossip may be lost, late and repeated: a node can be handed any block   *)
(* another node has, at any time, or never.                                *)
(***************************************************************************)
EXTENDS Integers, Sequences, FiniteSets

CONSTANTS
  Node,
  Block, Genesis, None,
  Parent,       \* Parent[b], None for Genesis
  Height,       \* Height[b]
  Work,         \* Work[b]: cumulative difficulty of the chain that ends in b
  Path,         \* Path[b][h]: the ancestor of b at height h
  Producer,     \* Producer[b]: the node that makes b
  Restarting    \* bound: the nodes whose process may end

ASSUME SyncAssumption ==
  /\ IsFiniteSet(Node)
  /\ Genesis \in Block /\ None \notin Block
  /\ Parent \in [Block -> Block \cup {None}]
  /\ Parent[Genesis] = None
  /\ Height \in [Block -> Nat] /\ Height[Genesis] = 0
  /\ Work \in [Block -> Nat]
  /\ \A b \in Block \ {Genesis} :
       /\ Parent[b] \in Block
       /\ Height[b] = Height[Parent[b]] + 1
       /\ Work[b] > Work[Parent[b]]
  /\ \A b \in Block : \A h \in 0 .. Height[b] :
       /\ Path[b][h] \in Block
       /\ Height[Path[b][h]] = h
       /\ Path[b][h] = IF h = Height[b] THEN b ELSE Path[Parent[b]][h]
  /\ Producer \in [Block -> Node]
  /\ Restarting \subseteq Node

VARIABLES
  have,   \* have[n]: the blocks n has stored
  tip,    \* tip[n]
  mode,   \* "off", "starting" (Start waits for its sync), "running"
  sync    \* sync[n]: the run of runStartupSync, see NoSync

vars == <<have, tip, mode, sync>>

Phase == {"none", "query", "compare", "fetch", "search", "download"}

\* pc: where runStartupSync is; peers: the candidates, the highest first, with
\* the tips they named; idx: the candidate asked next; at: the height asked
\* next; goal: the height of the best candidate.
NoSync == [pc |-> "none", peers |-> <<>>, named |-> <<>>, idx |-> 1, at |-> 0,
           goal |-> 0]

\* Asking the peers for the block at height at, in one of the phases after
\* "compare".
Asking(pc, peers, idx, at, goal) ==
  [pc |-> pc, peers |-> peers, named |-> <<>>, idx |-> idx, at |-> at,
   goal |-> goal]

\* TypeOK: the chains of the nodes and the locals of runStartupSync and
\* resolveFork keep their types; the height a search asks for is never below
\* genesis, where the code's unsigned counter would wrap.
TypeOK ==
  /\ have \in [Node -> SUBSET Block]
  /\ tip \in [Node -> Block]
  /\ mode \in [Node -> {"off", "starting", "running"}]
  /\ sync \in [Node -> [pc : Phase, peers : Seq(Node), named : Seq(Block),
                        idx : Nat \ {0}, at : Nat, goal : Nat]]

-----------------------------------------------------------------------------
(* ProcessBlock. *)

Known(n, b) == b \in have[n]
Orphan_ByHeight(n, b) == Height[b] > Height[tip[n]] + 1
Orphan(n, b) == Parent[b] \notin have[n]

\* A block on the tip is applied; a fork that is not lower is adopted if it has
\* more work.
Adopts(n, b) ==
  \/ Parent[b] = tip[n]
  \/ Height[b] >= Height[tip[n]] /\ Work[b] > Work[tip[n]]
ProcessBlock(n, b) ==
  /\ ~ Known(n, b) /\ ~ Orphan(n, b)
  /\ have' = [have EXCEPT ![n] = @ \cup {b}]
  /\ tip' = [tip EXCEPT ![n] = IF Adopts(n, b) THEN b ELSE @]

-----------------------------------------------------------------------------
(* Production and gossip. *)

Others(n) == {m \in Node \ {n} : mode[m] # "off"}

\* runMiner: nodes mine once Start has come past its sync, also while the sync
\* loop runs, and not when isolated.
Produce(n, b) ==
  /\ mode[n] = "running" /\ Others(n) # {}
  /\ Producer[b] = n /\ Parent[b] = tip[n]
  /\ ProcessBlock(n, b)
  /\ UNCHANGED <<mode, sync>>

Syncing(n) == sync[n].pc # "none"
Asked == [NoSync EXCEPT !.pc = "query"]
Begin(n) == sync' = [sync EXCEPT ![n] = Asked]

\* The block handler drops what arrives during a sync, and starts a sync for a
\* block whose parent is missing.
Receive(n, b) ==
  /\ mode[n] = "running" /\ ~ Syncing(n)
  /\ \E m \in Node \ {n} : b \in have[m]
  /\ ~ Known(n, b)
  /\ \/ /\ Orphan(n, b)
        /\ Begin(n)
        /\ UNCHANGED <<have, tip>>
     \/ /\ ProcessBlock(n, b)
        /\ UNCHANGED sync
  /\ UNCHANGED mode

-----------------------------------------------------------------------------
(* Start, Stop and the sync loop. *)

\* Start runs the first sync itself, before mining begins.
Start(n) ==
  /\ mode[n] = "off"
  /\ mode' = [mode EXCEPT ![n] = "starting"]
  /\ Begin(n)
  /\ UNCHANGED <<have, tip>>

Stop(n) ==
  /\ n \in Restarting /\ mode[n] # "off"
  /\ mode' = [mode EXCEPT ![n] = "off"]
  /\ sync' = [sync EXCEPT ![n] = NoSync]
  /\ UNCHANGED <<have, tip>>

\* Every ten seconds, if there are peers and no sync is running.
SyncTick(n) ==
  /\ mode[n] = "running" /\ ~ Syncing(n) /\ Others(n) # {}
  /\ Begin(n)
  /\ UNCHANGED <<have, tip, mode>>

\* runStartupSync returns; in Start, everything else follows.
Return(n) ==
  /\ sync' = [sync EXCEPT ![n] = NoSync]
  /\ mode' = [mode EXCEPT ![n] = "running"]

\* resolveFork returns: the peers are asked again.
Again(n) == Begin(n)

-----------------------------------------------------------------------------
(* runStartupSync. *)

\* The peers that answer and are above genesis, highest first; equal heights
\* come in any order.
Sorted(P) ==
  {s \in [1 .. Cardinality(P) -> P] :
     /\ \A m \in P : \E i \in DOMAIN s : s[i] = m
     /\ \A i, j \in DOMAIN s : i < j => Height[tip[s[i]]] >= Height[tip[s[j]]]}

Query(n) ==
  /\ sync[n].pc = "query"
  /\ LET P == {m \in Others(n) : Height[tip[m]] > 0} IN
     \/ P = {} /\ Return(n)
     \/ /\ P # {}
        /\ \E s \in Sorted(P) :
             sync' = [sync EXCEPT ![n] =
               [pc |-> "compare", peers |-> s,
                named |-> [i \in DOMAIN s |-> tip[s[i]]],
                idx |-> 1, at |-> 0, goal |-> 0]]
        /\ UNCHANGED mode
  /\ UNCHANGED <<have, tip>>

SetFetch(n, at, goal) ==
  sync' = [sync EXCEPT ![n] = Asking("fetch", @.peers, 1, at, goal)]

\* resolveFork begins, with the candidates from the current one on.
SetSearch(n, failed, goal) ==
  LET at == IF failed - 1 > Height[tip[n]] THEN Height[tip[n]] ELSE failed - 1 IN
  sync' = [sync EXCEPT ![n] =
    Asking("search", SubSeq(@.peers, @.idx, Len(@.peers)), 1, at, goal)]

\* The heights match and the tips do not.
SameHeightFork_AnyTip(n, best) == Height[best] = Height[tip[n]]
SameHeightFork(n, best) == Height[best] = Height[tip[n]] /\ best # tip[n]

\* The local chain is read after the peers were asked.
Compare(n) ==
  LET best == sync[n].named[1]
      mine == Height[tip[n]] IN
  /\ sync[n].pc = "compare"
  /\ \/ /\ SameHeightFork(n, best)
        /\ SetSearch(n, mine, mine)
        /\ UNCHANGED mode
     \/ /\ Height[best] <= mine /\ ~ SameHeightFork(n, best)
        /\ Return(n)
     \/ /\ Height[best] > mine
        /\ SetFetch(n, mine + 1, Height[best])
        /\ UNCHANGED mode
  /\ UNCHANGED <<have, tip>>

-----------------------------------------------------------------------------
(* Requests for blocks. *)

Peer(n) == sync[n].peers[sync[n].idx]

\* The peer serves its height index as it is now.
Serves(m, h) == mode[m] # "off" /\ h <= Height[tip[m]]
Served(n) == Path[tip[Peer(n)]][sync[n].at]

\* A request that times out is one to a peer that stops and starts again.
Answered(n) == Serves(Peer(n), sync[n].at)
Failed(n) == ~ Answered(n)

NextPeer(n) == sync' = [sync EXCEPT ![n].idx = @ + 1]
HasNextPeer(n) == sync[n].idx < Len(sync[n].peers)
AtGoal(n) == sync[n].at = sync[n].goal
NextHeight(n) == sync' = [sync EXCEPT ![n].at = @ + 1]

\* A block of the answer is stored, or known already.
Stores(n, b) ==
  \/ Known(n, b) /\ UNCHANGED <<have, tip>>
  \/ ProcessBlock(n, b)

FetchBlock(n) ==
  /\ sync[n].pc = "fetch"
  /\ Answered(n)
  /\ \/ /\ Stores(n, Served(n))
        /\ \/ ~ AtGoal(n) /\ NextHeight(n) /\ UNCHANGED mode
           \/ AtGoal(n) /\ Return(n)
     \/ /\ ~ Known(n, Served(n)) /\ Orphan(n, Served(n))
        /\ SetSearch(n, sync[n].at, sync[n].goal)
        /\ UNCHANGED <<have, tip, mode>>

FetchFails(n) ==
  /\ sync[n].pc = "fetch"
  /\ Failed(n)
  /\ \/ HasNextPeer(n) /\ NextPeer(n) /\ UNCHANGED mode
     \/ ~ HasNextPeer(n) /\ Return(n)
  /\ UNCHANGED <<have, tip>>

-----------------------------------------------------------------------------
(* resolveFork. *)

\* The search goes on one height lower with the first candidate; below genesis
\* it ends.
SearchBelow(n) ==
  sync' = [sync EXCEPT ![n] = Asking("search", @.peers, 1, @.at - 1, @.goal)]
SearchLower(n) ==
  \/ sync[n].at = 0 /\ Again(n)
  \/ sync[n].at > 0 /\ SearchBelow(n)

Agrees(n) ==
  sync[n].at <= Height[tip[n]] /\ Path[tip[n]][sync[n].at] = Served(n)

\* Phase 2 begins above the common block, with the first candidate.
SetDownload_AboveOwnTip(n) ==
  sync' = [sync EXCEPT ![n] =
             Asking("download", @.peers, 1, Height[tip[n]] + 1, @.goal)]
SetDownload(n) ==
  sync' = [sync EXCEPT ![n] =
             Asking("download", @.peers, 1, @.at + 1, @.goal)]

SearchBlock(n) ==
  /\ sync[n].pc = "search"
  /\ Answered(n)
  /\ \/ Agrees(n) /\ SetDownload(n)
     \/ ~ Agrees(n) /\ SearchLower(n)
  /\ UNCHANGED <<have, tip, mode>>

SearchFails(n) ==
  /\ sync[n].pc = "search"
  /\ Failed(n)
  /\ \/ HasNextPeer(n) /\ NextPeer(n)
     \/ ~ HasNextPeer(n) /\ SearchLower(n)
  /\ UNCHANGED <<have, tip, mode>>

DownloadBlock(n) ==
  /\ sync[n].pc = "download"
  /\ Answered(n)
  /\ \/ /\ Stores(n, Served(n))
        /\ \/ ~ AtGoal(n) /\ NextHeight(n)
           \/ AtGoal(n) /\ Again(n)
     \/ /\ ~ Known(n, Served(n)) /\ Orphan(n, Served(n))
        /\ Again(n)
        /\ UNCHANGED <<have, tip>>
  /\ UNCHANGED mode

DownloadFails(n) ==
  /\ sync[n].pc = "download"
  /\ Failed(n)
  /\ \/ HasNextPeer(n) /\ NextPeer(n)
     \/ ~ HasNextPeer(n) /\ Again(n)
  /\ UNCHANGED <<have, tip, mode>>

-----------------------------------------------------------------------------

\* Start has returned on every node of a new network: nobody is above genesis.
Init ==
  /\ have = [n \in Node |-> {Genesis}]
  /\ tip = [n \in Node |-> Genesis]
  /\ mode = [n \in Node |-> "running"]
  /\ sync = [n \in Node |-> NoSync]

\* The next step of a sync that is running.
SyncStep(n) ==
  \/ Query(n) \/ Compare(n)
  \/ FetchBlock(n) \/ FetchFails(n)
  \/ SearchBlock(n) \/ SearchFails(n)
  \/ DownloadBlock(n) \/ DownloadFails(n)

Next == \E n \in Node :
  \/ Start(n) \/ Stop(n) \/ SyncTick(n) \/ SyncStep(n)
  \/ \E b \in Block : Produce(n, b) \/ Receive(n, b)

Spec == Init /\ [][Next]_vars

\* A process that ended is started again, timers fire, and a sync is a thread
\* that runs.  Nothing is asked of gossip.
FairSpec ==
  /\ Spec
  /\ \A n \in Node :
       WF_vars(Start(n)) /\ WF_vars(SyncTick(n)) /\ WF_vars(SyncStep(n))

-----------------------------------------------------------------------------
(* Properties. *)

\* A node can serve every height it names to its peers, although blocks reach it
\* in any order, from several peers whose chains change between two requests.
ServesItsChain ==
  \A n \in Node : \A h \in 0 .. Height[tip[n]] : Path[tip[n]][h] \in have[n]

AllStay == <>[](\A n \in Node : mode[n] # "off")

\* Two nodes on different chains of one height and one work, which the fork
\* choice leaves alone.
Tied(m, n) ==
  /\ tip[m] # tip[n]
  /\ Height[tip[m]] = Height[tip[n]] /\ Work[tip[m]] = Work[tip[n]]

\* Sync alone, without any gossip and past unanswered requests, restarts, forks
\* and reorgs on either side, brings every node to as much work as any node has
\* that is not lower.
Converges ==
  AllStay =>
    <>[](\A m, n \in Node :
           Height[tip[m]] >= Height[tip[n]] => Work[tip[m]] <= Work[tip[n]])

\* Nothing but a lasting tie keeps a node in its sync, which drops gossip and,
\* in Start, keeps it from mining: no round repeats for another reason.
OnlyTiesHoldSync ==
  AllStay =>
    \A n \in Node :
      []<>(~ Syncing(n)) \/ <>[](\E m \in Node : Tied(m, n))

=============================================================================
