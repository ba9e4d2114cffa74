----------------------------- MODULE SyncProofs -----------------------------
(***************************************************************************)
(* Type correctness and the main safety property of Sync, for every set of *)
(* nodes and every block tree.                                             *)
(***************************************************************************)
EXTENDS Sync, FiniteSetTheorems, SequenceTheorems, TLAPS

USE SyncAssumption

\* What a phase of runStartupSync may count on: there is a candidate to ask, and
\* a height below which a search can begin.
PhaseOK(s) ==
  /\ s.pc = "compare" =>
       /\ s.peers # <<>> /\ s.named # <<>> /\ s.idx = 1
       /\ Height[s.named[1]] > 0
  /\ s.pc \in {"fetch", "search", "download"} => s.idx \in 1 .. Len(s.peers)
  /\ s.pc \in {"fetch", "download"} => s.at > 0

\* What a node has stored is closed under ancestors.
Closed(n) ==
  /\ Genesis \in have[n] /\ tip[n] \in have[n]
  /\ \A b \in have[n] : \A h \in 0 .. Height[b] : Path[b][h] \in have[n]

Inv == TypeOK /\ (\A n \in Node : PhaseOK(sync[n]) /\ Closed(n))

SyncState == [pc : Phase, peers : Seq(Node), named : Seq(Block),
              idx : Nat \ {0}, at : Nat, goal : Nat]

\* NoSync, the state outside runStartupSync, is a state of the locals in which
\* nothing is counted on.
LEMMA NoSyncOK == /\ NoSync \in SyncState /\ PhaseOK(NoSync)
                  /\ Asked \in SyncState /\ PhaseOK(Asked)
  <1>1. <<>> \in Seq(Node) /\ <<>> \in Seq(Block)
    BY EmptySeq
  <1>2. NoSync.pc = "none" /\ Asked.pc = "query"
    BY DEF NoSync, Asked
  <1>3. NoSync \in SyncState
    BY <1>1 DEF NoSync, SyncState, Phase
  <1>4. Asked \in SyncState
    BY <1>3 DEF Asked, SyncState, Phase
  <1> QED BY <1>2, <1>3, <1>4 DEF PhaseOK

\* Storing a block whose parent is stored keeps the store closed: what the
\* chain of a node stands on.
LEMMA ProcessKeepsClosed ==
  ASSUME Inv, NEW n \in Node, NEW b \in Block, ProcessBlock(n, b)
  PROVE  /\ have' \in [Node -> SUBSET Block] /\ tip' \in [Node -> Block]
         /\ \A m \in Node : Closed(m)'
  <1>1. have' \in [Node -> SUBSET Block] /\ tip' \in [Node -> Block]
    <2> DEFINE t == IF Adopts(n, b) THEN b ELSE tip[n]
    <2>1. t \in Block /\ have[n] \cup {b} \in SUBSET Block
      BY DEF Inv, TypeOK
    <2>2. have' = [have EXCEPT ![n] = have[n] \cup {b}]
          /\ tip' = [tip EXCEPT ![n] = t]
      BY DEF ProcessBlock
    <2> HIDE DEF t
    <2> QED BY <2>1, <2>2 DEF Inv, TypeOK
  <1>2. ASSUME NEW m \in Node PROVE Closed(m)'
    <2>1. CASE m # n
      <3>1. have'[m] = have[m] /\ tip'[m] = tip[m]
        BY <2>1 DEF Inv, TypeOK, ProcessBlock
      <3> QED BY <3>1 DEF Inv, Closed
    <2>2. CASE m = n
      <3>1. have'[n] = have[n] \cup {b} /\ tip'[n] \in {b, tip[n]}
        BY DEF Inv, TypeOK, ProcessBlock
      <3>2. Genesis \in have[n] /\ b # Genesis
        BY DEF Inv, Closed, ProcessBlock, Known
      <3>3. Parent[b] \in have[n] /\ Height[b] = Height[Parent[b]] + 1
            /\ Parent[b] \in Block
        BY <3>2 DEF ProcessBlock, Orphan
      <3>4. ASSUME NEW h \in 0 .. Height[b] PROVE Path[b][h] \in have'[n]
        <4>1. CASE h = Height[b]
          BY <4>1, <3>1
        <4>2. CASE h # Height[b]
          <5>1. Path[b][h] = Path[Parent[b]][h]
            BY <4>2
          <5>2. Height[b] \in Nat /\ Height[Parent[b]] \in Nat
            BY <3>3
          <5>3. h \in 0 .. Height[Parent[b]]
            BY <4>2, <3>3, <5>2
          <5> QED BY <5>1, <5>3, <3>1, <3>3 DEF Inv, Closed
        <4> QED BY <4>1, <4>2
      <3> QED BY <3>1, <3>2, <3>4, <2>2 DEF Inv, Closed
    <2> QED BY <2>1, <2>2
  <1> QED BY <1>1, <1>2

\* What a step of n does to the chains.
ChainStep(n) ==
  UNCHANGED <<have, tip>> \/ \E b \in Block : ProcessBlock(n, b)

\* A step of n's chain that gives n's sync a good state keeps the invariant.
LEMMA SyncChange ==
  ASSUME Inv, NEW n \in Node, NEW s \in SyncState, PhaseOK(s),
         sync' = [sync EXCEPT ![n] = s],
         mode' \in [Node -> {"off", "starting", "running"}],
         ChainStep(n)
  PROVE  Inv'
  <1>1. /\ have' \in [Node -> SUBSET Block] /\ tip' \in [Node -> Block]
        /\ \A m \in Node : Closed(m)'
    <2>1. CASE UNCHANGED <<have, tip>>
      BY <2>1 DEF Inv, TypeOK, Closed
    <2>2. CASE \E b \in Block : ProcessBlock(n, b)
      BY <2>2, ProcessKeepsClosed
    <2> QED BY <2>1, <2>2 DEF ChainStep
  <1>2. sync' \in [Node -> SyncState]
    BY DEF Inv, TypeOK, SyncState
  <1>3. ASSUME NEW m \in Node PROVE PhaseOK(sync'[m])
    <2>1. sync'[m] = IF m = n THEN s ELSE sync[m]
      BY DEF Inv, TypeOK
    <2> QED BY <2>1 DEF Inv
  <1> QED BY <1>1, <1>2, <1>3 DEF Inv, TypeOK, SyncState

\* A function on 1 .. k is a sequence.
LEMMA FunctionIsSeq ==
  ASSUME NEW S, NEW k \in Nat, NEW f \in [1 .. k -> S]
  PROVE  f \in Seq(S)
  <1>1. Seq(S) = UNION {[1 .. j -> S] : j \in Nat}
    BY ONLY SeqDef, Zenon
  <1>2. [1 .. k -> S] \in {[1 .. j -> S] : j \in Nat}
    OBVIOUS
  <1> HIDE SyncAssumption
  <1> QED BY <1>1, <1>2, Zenon

\* The candidates of Query are a sequence of nodes, with a tip above genesis
\* named for each.
LEMMA SortedSeq ==
  ASSUME Inv, NEW P \in SUBSET Node, P # {}, NEW s \in Sorted(P),
         \A m \in P : Height[tip[m]] > 0
  PROVE  LET named == [i \in DOMAIN s |-> tip[s[i]]] IN
         /\ s \in Seq(Node) /\ s # <<>>
         /\ named \in Seq(Block) /\ named # <<>>
         /\ Height[named[1]] > 0
  <1> DEFINE named == [i \in DOMAIN s |-> tip[s[i]]]
  <1>1. IsFiniteSet(P) /\ Cardinality(P) \in Nat /\ Cardinality(P) # 0
    BY FS_Subset, FS_CardinalityType, FS_EmptySet
  <1>2. s \in [1 .. Cardinality(P) -> P]
    BY DEF Sorted
  <1>3. s \in Seq(Node) /\ DOMAIN s = 1 .. Cardinality(P)
    <2>1. s \in [1 .. Cardinality(P) -> Node]
      BY <1>2
    <2> QED BY <1>1, <2>1, FunctionIsSeq
  <1>4. named \in [1 .. Cardinality(P) -> Block]
    BY <1>2, <1>3 DEF Inv, TypeOK
  <1>5. named \in Seq(Block)
    BY <1>1, <1>4, FunctionIsSeq
  <1>6. 1 \in DOMAIN s /\ 1 \in DOMAIN named
    BY <1>1, <1>3
  <1>7. Height[named[1]] > 0
    BY <1>2, <1>3, <1>6
  <1>8. s # <<>> /\ named # <<>>
    BY <1>6
  <1> QED BY <1>3, <1>5, <1>7, <1>8

-----------------------------------------------------------------------------

LEMMA InitInv == Init => Inv
  <1> SUFFICES ASSUME Init PROVE Inv
    OBVIOUS
  <1>1. TypeOK
    BY NoSyncOK DEF Init, TypeOK, SyncState
  <1>2. ASSUME NEW n \in Node PROVE PhaseOK(sync[n]) /\ Closed(n)
    <2>1. \A h \in 0 .. Height[Genesis] : Path[Genesis][h] = Genesis
      OBVIOUS
    <2> QED BY <2>1, NoSyncOK DEF Init, Closed
  <1> QED BY <1>1, <1>2 DEF Inv

\* The facts about n's own sync every step starts from.
LEMMA OwnSync ==
  ASSUME Inv, NEW n \in Node
  PROVE  /\ sync[n] \in SyncState /\ PhaseOK(sync[n])
         /\ tip[n] \in Block /\ Height[tip[n]] \in Nat
  BY DEF Inv, TypeOK, SyncState

\* What a candidate serves is a block.
LEMMA ServedBlock ==
  ASSUME Inv, NEW n \in Node, sync[n].pc \in {"fetch", "search", "download"},
         Answered(n)
  PROVE  Served(n) \in Block
  <1>1. Peer(n) \in Node
    BY OwnSync DEF PhaseOK, SyncState, Peer
  <1>2. tip[Peer(n)] \in Block /\ sync[n].at \in 0 .. Height[tip[Peer(n)]]
    BY <1>1, OwnSync DEF Inv, TypeOK, SyncState, Answered, Serves
  <1> QED BY <1>2 DEF Served

\* Storing what a candidate serves is a step of the chain.
LEMMA StoresServed ==
  ASSUME Inv, NEW n \in Node, sync[n].pc \in {"fetch", "search", "download"},
         Answered(n), Stores(n, Served(n))
  PROVE  ChainStep(n)
  BY ServedBlock DEF Stores, ChainStep

-----------------------------------------------------------------------------
(* The assignments to sync, whatever the step does to the chain.           *)

LEMMA ReturnInv ==
  ASSUME Inv, NEW n \in Node, Return(n), ChainStep(n)
  PROVE  Inv'
  <1>1. mode' \in [Node -> {"off", "starting", "running"}]
    BY DEF Return, Inv, TypeOK
  <1> QED BY <1>1, NoSyncOK, SyncChange DEF Return

LEMMA BeginInv ==
  ASSUME Inv, NEW n \in Node, Begin(n), ChainStep(n),
         mode' \in [Node -> {"off", "starting", "running"}]
  PROVE  Inv'
  BY NoSyncOK, SyncChange DEF Begin

LEMMA AgainInv ==
  ASSUME Inv, NEW n \in Node, Again(n), ChainStep(n), UNCHANGED mode
  PROVE  Inv'
  BY BeginInv DEF Again, Inv, TypeOK

\* The phases that ask for blocks.
LEMMA AskingInv ==
  ASSUME Inv, NEW n \in Node,
         NEW pc \in {"fetch", "search", "download"}, NEW peers \in Seq(Node),
         NEW idx \in 1 .. Len(peers), NEW at \in Nat, NEW goal \in Nat,
         pc # "search" => at > 0,
         sync' = [sync EXCEPT ![n] = Asking(pc, peers, idx, at, goal)],
         ChainStep(n), UNCHANGED mode
  PROVE  Inv'
  <1> DEFINE s == Asking(pc, peers, idx, at, goal)
  <1>1. idx \in Nat \ {0} /\ <<>> \in Seq(Block)
    BY LenProperties, EmptySeq
  <1>2. s \in SyncState
    BY <1>1 DEF Asking, SyncState, Phase
  <1>3. PhaseOK(s)
    BY DEF Asking, PhaseOK
  <1>4. mode' \in [Node -> {"off", "starting", "running"}]
    BY DEF Inv, TypeOK
  <1>5. sync' = [sync EXCEPT ![n] = s]
    OBVIOUS
  <1> HIDE DEF s
  <1> QED BY <1>2, <1>3, <1>4, <1>5, SyncChange

\* The peers of a sync that asks for blocks, and the one it asks.
LEMMA OwnPeers ==
  ASSUME Inv, NEW n \in Node, sync[n].pc \notin {"none", "query"}
  PROVE  /\ sync[n].peers \in Seq(Node) /\ Len(sync[n].peers) \in Nat
         /\ sync[n].idx \in 1 .. Len(sync[n].peers)
         /\ 1 \in 1 .. Len(sync[n].peers)
  <1>1. sync[n] \in SyncState /\ PhaseOK(sync[n])
    BY OwnSync
  <1>2. sync[n].peers \in Seq(Node) /\ sync[n].pc \in Phase
    BY <1>1 DEF SyncState
  <1>3. Len(sync[n].peers) \in Nat
    BY <1>2, LenProperties
  <1>4. sync[n].peers # <<>> => Len(sync[n].peers) \in Nat \ {0}
    BY <1>2, EmptySeq
  <1> QED BY <1>1, <1>2, <1>3, <1>4 DEF PhaseOK, Phase

\* Changing one of the locals.
LEMMA OneLocal ==
  ASSUME NEW s \in SyncState, NEW k
  PROVE  /\ k \in Nat \ {0} => [s EXCEPT !.idx = k] \in SyncState
         /\ k \in Nat => [s EXCEPT !.at = k] \in SyncState
  BY DEF SyncState

LEMMA NextPeerInv ==
  ASSUME Inv, NEW n \in Node, sync[n].pc \in {"fetch", "search", "download"},
         HasNextPeer(n), NextPeer(n), ChainStep(n), UNCHANGED mode
  PROVE  Inv'
  <1> DEFINE i == sync[n].idx + 1
             s == [sync[n] EXCEPT !.idx = i]
  <1>1. i \in 1 .. Len(sync[n].peers) /\ i \in Nat \ {0}
    <2>1. Len(sync[n].peers) \in Nat /\ sync[n].idx \in 1 .. Len(sync[n].peers)
      BY OwnPeers
    <2> QED BY <2>1 DEF HasNextPeer
  <1>2. sync' = [sync EXCEPT ![n] = s]
    BY DEF Inv, TypeOK, NextPeer
  <1> HIDE DEF i
  <1>3. s \in SyncState
    BY <1>1, OwnSync, OneLocal
  <1>4. PhaseOK(s)
    BY <1>1, OwnSync DEF SyncState, PhaseOK
  <1> HIDE DEF s
  <1> QED BY <1>2, <1>3, <1>4, SyncChange DEF Inv, TypeOK

LEMMA NextHeightInv ==
  ASSUME Inv, NEW n \in Node, sync[n].pc \in {"fetch", "download"},
         NextHeight(n), ChainStep(n), UNCHANGED mode
  PROVE  Inv'
  <1> DEFINE h == sync[n].at + 1
             s == [sync[n] EXCEPT !.at = h]
  <1>1. h \in Nat /\ h > 0
    BY OwnSync DEF SyncState
  <1>2. sync' = [sync EXCEPT ![n] = s]
    BY DEF Inv, TypeOK, NextHeight
  <1> HIDE DEF h
  <1>3. s \in SyncState
    BY <1>1, OwnSync, OneLocal
  <1>4. PhaseOK(s)
    BY <1>1, OwnSync DEF SyncState, PhaseOK
  <1> HIDE DEF s
  <1> QED BY <1>2, <1>3, <1>4, SyncChange DEF Inv, TypeOK

LEMMA SetSearchInv ==
  ASSUME Inv, NEW n \in Node, sync[n].pc \in {"compare", "fetch"},
         NEW failed \in Nat \ {0}, NEW goal \in Nat,
         SetSearch(n, failed, goal), ChainStep(n), UNCHANGED mode
  PROVE  Inv'
  <1> DEFINE below == IF failed - 1 > Height[tip[n]] THEN Height[tip[n]]
                                                     ELSE failed - 1
             rest == SubSeq(sync[n].peers, sync[n].idx, Len(sync[n].peers))
  <1>1. below \in Nat
    BY OwnSync
  <1>2. rest \in Seq(Node) /\ 1 \in 1 .. Len(rest)
    <2> DEFINE p == sync[n].peers
               i == sync[n].idx
    <2>1. p \in Seq(Node) /\ Len(p) \in Nat /\ i \in 1 .. Len(p)
      BY OwnPeers
    <2>2. \A j \in i .. Len(p) : p[j] \in Node
      BY <2>1, ElementOfSeq
    <2> HIDE DEF p, i
    <2>3. /\ SubSeq(p, i, Len(p)) \in Seq(Node)
          /\ Len(SubSeq(p, i, Len(p))) = Len(p) - i + 1
      BY <2>1, <2>2, SubSeqProperties
    <2>4. Len(p) - i + 1 \in Nat \ {0}
      BY <2>1
    <2> QED BY <2>3, <2>4 DEF p, i
  <1>3. sync' = [sync EXCEPT ![n] = Asking("search", rest, 1, below, goal)]
    BY DEF Inv, TypeOK, SetSearch
  <1> HIDE DEF below, rest
  <1> QED BY <1>1, <1>2, <1>3, AskingInv

LEMMA SearchLowerInv ==
  ASSUME Inv, NEW n \in Node, sync[n].pc = "search",
         SearchLower(n), ChainStep(n), UNCHANGED mode
  PROVE  Inv'
  <1>1. CASE Again(n)
    BY <1>1, AgainInv
  <1>2. CASE sync[n].at > 0 /\ SearchBelow(n)
    <2> DEFINE h == sync[n].at - 1
    <2>1. h \in Nat /\ sync[n].goal \in Nat
      BY <1>2, OwnSync DEF SyncState
    <2>2. sync' = [sync EXCEPT ![n] =
                     Asking("search", sync[n].peers, 1, h, sync[n].goal)]
      BY <1>2 DEF Inv, TypeOK, SearchBelow
    <2> HIDE DEF h
    <2> QED BY <2>1, <2>2, OwnPeers, AskingInv
  <1> QED BY <1>1, <1>2 DEF SearchLower

-----------------------------------------------------------------------------
(* The actions.                                                            *)

LEMMA QueryInv ==
  ASSUME Inv, NEW n \in Node, Query(n)
  PROVE  Inv'
  <1> DEFINE P == {m \in Others(n) : Height[tip[m]] > 0}
  <1>1. ChainStep(n)
    BY DEF Query, ChainStep
  <1>2. CASE Return(n)
    BY <1>1, <1>2, ReturnInv
  <1>3. CASE P # {} /\ ~ Return(n)
    <2> DEFINE Compared(s) ==
          [pc |-> "compare", peers |-> s,
           named |-> [i \in DOMAIN s |-> tip[s[i]]], idx |-> 1, at |-> 0,
           goal |-> 0]
    <2>1. PICK s \in Sorted(P) : sync' = [sync EXCEPT ![n] = Compared(s)]
      BY <1>3 DEF Query
    <2>2. UNCHANGED mode
      BY <1>3 DEF Query
    <2>3. P \in SUBSET Node /\ \A m \in P : Height[tip[m]] > 0
      BY DEF Others
    <2> DEFINE named == [i \in DOMAIN s |-> tip[s[i]]]
    <2>4. /\ s \in Seq(Node) /\ s # <<>>
          /\ named \in Seq(Block) /\ named # <<>> /\ Height[named[1]] > 0
      BY <1>3, <2>3, SortedSeq
    <2> HIDE DEF named
    <2>5. /\ Compared(s) \in SyncState
          /\ PhaseOK(Compared(s))
      BY <2>4 DEF SyncState, Phase, PhaseOK, named
    <2> HIDE DEF Compared
    <2>6. mode' \in [Node -> {"off", "starting", "running"}]
      BY <2>2 DEF Inv, TypeOK
    <2> QED BY <1>1, <2>1, <2>5, <2>6, SyncChange
  <1> QED BY <1>2, <1>3 DEF Query

LEMMA CompareInv ==
  ASSUME Inv, NEW n \in Node, Compare(n)
  PROVE  Inv'
  <1> DEFINE best == sync[n].named[1]
             mine == Height[tip[n]]
  <1>1. ChainStep(n) /\ sync[n].pc = "compare"
    BY DEF Compare, ChainStep
  <1>2. best \in Block /\ Height[best] \in Nat \ {0} /\ mine \in Nat
    <2>1. sync[n].named \in Seq(Block) /\ sync[n].named # <<>>
          /\ Height[sync[n].named[1]] > 0
      BY <1>1, OwnSync DEF SyncState, PhaseOK
    <2>2. Len(sync[n].named) \in Nat \ {0}
      BY <2>1, EmptySeq
    <2>3. best \in Block
      BY <2>1, <2>2, ElementOfSeq
    <2> QED BY <2>1, <2>3, OwnSync
  <1>3. CASE SameHeightFork(n, best) /\ SetSearch(n, mine, mine) /\ UNCHANGED mode
    BY <1>1, <1>2, <1>3, SetSearchInv DEF SameHeightFork
  <1>4. CASE Return(n)
    BY <1>1, <1>4, ReturnInv
  <1>5. CASE Height[best] > mine /\ SetFetch(n, mine + 1, Height[best])
             /\ UNCHANGED mode
    <2>1. mine + 1 \in Nat /\ mine + 1 > 0
      BY <1>2
    <2>2. sync' = [sync EXCEPT ![n] =
                     Asking("fetch", sync[n].peers, 1, mine + 1, Height[best])]
      BY <1>5 DEF Inv, TypeOK, SetFetch
    <2>3. sync[n].peers \in Seq(Node) /\ 1 \in 1 .. Len(sync[n].peers)
      BY <1>1, OwnPeers
    <2> HIDE DEF best, mine
    <2> QED BY <1>1, <1>2, <1>5, <2>1, <2>2, <2>3, AskingInv
  <1> QED BY <1>3, <1>4, <1>5 DEF Compare

LEMMA FetchBlockInv ==
  ASSUME Inv, NEW n \in Node, FetchBlock(n)
  PROVE  Inv'
  <1>1. sync[n].pc = "fetch" /\ Answered(n)
    BY DEF FetchBlock
  <1>2. CASE Stores(n, Served(n)) /\ NextHeight(n) /\ UNCHANGED mode
    BY <1>1, <1>2, StoresServed, NextHeightInv
  <1>3. CASE Stores(n, Served(n)) /\ Return(n)
    BY <1>1, <1>3, StoresServed, ReturnInv
  <1>4. CASE SetSearch(n, sync[n].at, sync[n].goal) /\ UNCHANGED <<have, tip, mode>>
    <2>1. sync[n].at \in Nat \ {0} /\ sync[n].goal \in Nat
      BY <1>1, OwnSync DEF SyncState, PhaseOK
    <2> QED BY <1>1, <1>4, <2>1, SetSearchInv DEF ChainStep
  <1> QED BY <1>2, <1>3, <1>4 DEF FetchBlock

LEMMA FetchFailsInv ==
  ASSUME Inv, NEW n \in Node, FetchFails(n)
  PROVE  Inv'
  BY NextPeerInv, ReturnInv DEF FetchFails, ChainStep

LEMMA SearchBlockInv ==
  ASSUME Inv, NEW n \in Node, SearchBlock(n)
  PROVE  Inv'
  <1>1. sync[n].pc = "search" /\ ChainStep(n) /\ UNCHANGED mode
    BY DEF SearchBlock, ChainStep
  <1>2. CASE SetDownload(n)
    <2> DEFINE h == sync[n].at + 1
    <2>1. h \in Nat /\ h > 0 /\ sync[n].goal \in Nat
      BY OwnSync DEF SyncState
    <2>2. sync' = [sync EXCEPT ![n] =
                     Asking("download", sync[n].peers, 1, h, sync[n].goal)]
      BY <1>2 DEF Inv, TypeOK, SetDownload
    <2>3. sync[n].peers \in Seq(Node) /\ 1 \in 1 .. Len(sync[n].peers)
      BY <1>1, OwnPeers
    <2> HIDE DEF h
    <2> QED BY <1>1, <2>1, <2>2, <2>3, AskingInv
  <1>3. CASE SearchLower(n)
    BY <1>1, <1>3, SearchLowerInv
  <1> QED BY <1>2, <1>3 DEF SearchBlock

LEMMA SearchFailsInv ==
  ASSUME Inv, NEW n \in Node, SearchFails(n)
  PROVE  Inv'
  BY NextPeerInv, SearchLowerInv DEF SearchFails, ChainStep

LEMMA DownloadBlockInv ==
  ASSUME Inv, NEW n \in Node, DownloadBlock(n)
  PROVE  Inv'
  <1>1. sync[n].pc = "download" /\ Answered(n) /\ UNCHANGED mode
    BY DEF DownloadBlock
  <1>2. CASE Stores(n, Served(n)) /\ NextHeight(n)
    BY <1>1, <1>2, StoresServed, NextHeightInv
  <1>3. CASE Stores(n, Served(n)) /\ Again(n)
    BY <1>1, <1>3, StoresServed, AgainInv
  <1>4. CASE Again(n) /\ UNCHANGED <<have, tip>>
    BY <1>1, <1>4, AgainInv DEF ChainStep
  <1> QED BY <1>2, <1>3, <1>4 DEF DownloadBlock

LEMMA DownloadFailsInv ==
  ASSUME Inv, NEW n \in Node, DownloadFails(n)
  PROVE  Inv'
  BY NextPeerInv, AgainInv DEF DownloadFails, ChainStep

\* Producing and receiving a block.
LEMMA BlockInv ==
  ASSUME Inv, NEW n \in Node, NEW b \in Block, Produce(n, b) \/ Receive(n, b)
  PROVE  Inv'
  <1>1. UNCHANGED mode /\ mode' \in [Node -> {"off", "starting", "running"}]
    BY DEF Inv, TypeOK, Produce, Receive
  <1>2. CASE ProcessBlock(n, b) /\ UNCHANGED sync
    <2>1. sync[n] \in SyncState /\ PhaseOK(sync[n])
      BY OwnSync
    <2>2. sync' = [sync EXCEPT ![n] = sync[n]]
      BY <1>2 DEF Inv, TypeOK
    <2> QED BY <1>1, <1>2, <2>1, <2>2, SyncChange DEF ChainStep
  <1>3. CASE Begin(n) /\ UNCHANGED <<have, tip>>
    BY <1>1, <1>3, BeginInv DEF ChainStep
  <1> QED BY <1>2, <1>3 DEF Produce, Receive

\* Start, Stop and the ticks of the sync loop.
LEMMA ProcessInv ==
  ASSUME Inv, NEW n \in Node, Start(n) \/ Stop(n) \/ SyncTick(n)
  PROVE  Inv'
  <1>1. ChainStep(n)
    BY DEF Start, Stop, SyncTick, ChainStep
  <1>2. mode' \in [Node -> {"off", "starting", "running"}]
    <2>1. mode \in [Node -> {"off", "starting", "running"}]
      BY DEF Inv, TypeOK
    <2>2. PICK k \in {"off", "starting", "running"} :
            mode' = [mode EXCEPT ![n] = k] \/ mode' = mode
      BY DEF Start, Stop, SyncTick
    <2> QED BY <2>1, <2>2
  <1>3. CASE Begin(n)
    BY <1>1, <1>2, <1>3, BeginInv
  <1>4. CASE sync' = [sync EXCEPT ![n] = NoSync]
    BY <1>1, <1>2, <1>4, NoSyncOK, SyncChange
  <1> QED BY <1>3, <1>4 DEF Start, Stop, SyncTick

LEMMA NextInv == Inv /\ [Next]_vars => Inv'
  <1> SUFFICES ASSUME Inv, [Next]_vars PROVE Inv'
    OBVIOUS
  <1>1. CASE UNCHANGED vars
    BY <1>1 DEF Inv, TypeOK, PhaseOK, Closed, vars
  <1>2. ASSUME NEW n \in Node, SyncStep(n) PROVE Inv'
    BY <1>2, QueryInv, CompareInv, FetchBlockInv, FetchFailsInv, SearchBlockInv,
       SearchFailsInv, DownloadBlockInv, DownloadFailsInv DEF SyncStep
  <1>3. ASSUME NEW n \in Node, Start(n) \/ Stop(n) \/ SyncTick(n) PROVE Inv'
    BY <1>3, ProcessInv
  <1>4. ASSUME NEW n \in Node, NEW b \in Block, Produce(n, b) \/ Receive(n, b)
        PROVE Inv'
    BY <1>4, BlockInv
  <1> QED BY <1>1, <1>2, <1>3, <1>4 DEF Next

-----------------------------------------------------------------------------
(* The theorems.                                                           *)

\* The chains and the locals of every run of runStartupSync keep their types:
\* no search goes below genesis, whatever the peers answer and however their
\* chains change meanwhile.
THEOREM TypeCorrect == Spec => []TypeOK
  <1>1. Inv => TypeOK
    BY DEF Inv
  <1> QED BY <1>1, InitInv, NextInv, PTL DEF Spec

\* A node has every block of the chain it names to its peers.
THEOREM ServesItsChainAlways == Spec => []ServesItsChain
  <1>1. Inv => ServesItsChain
    BY DEF Inv, Closed, ServesItsChain
  <1> QED BY <1>1, InitInv, NextInv, PTL DEF Spec
=============================================================================
