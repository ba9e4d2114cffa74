---------------------------- MODULE PoolProofs ----------------------------
(***************************************************************************)
(* The pool's conflict index, and what may leave the pool, for every set   *)
(* of transactions and every history of blocks.                            *)
(*                                                                         *)
(* The agreement of pool and index is not inductive by itself: between the *)
(* two halves of Add the transaction that was screened is in neither, and  *)
(* must still fit when it is inserted.  What the chain confirmed leaves    *)
(* the pool, and nothing else does: for that the second half follows the   *)
(* blocks, as paths, through ProcessBlock and its callers' handlers.       *)
(***************************************************************************)
EXTENDS Pool, SequenceTheorems, FiniteSetTheorems, TLAPS

\* What Add screened is free of conflicts until it is inserted: the pool's
\* lock is held.
AddHolds ==
  adding # Free => /\ adding.tx \in Tx \ pool
                   /\ \A o \in Ins[adding.tx] : spends[o] = None

Shape ==
  /\ pool \subseteq Tx
  /\ spends \in [Outpoint -> Tx \cup {None}]

IndexInv == Shape /\ AddHolds /\ SpendsAgree

\* Removing transactions, as removeLocked does for each of them, keeps the
\* index in agreement.
LEMMA UnlinkAgrees ==
  ASSUME Shape, SpendsAgree, NEW ts, ts \subseteq pool
  PROVE  /\ Unlink(ts) \in [Outpoint -> Tx \cup {None}]
         /\ \A o \in Outpoint, t \in Tx :
              Unlink(ts)[o] = t <=> (t \in pool \ ts /\ o \in Ins[t])
<1>1. Unlink(ts) \in [Outpoint -> Tx \cup {None}]
  BY DEF Unlink, Shape
<1>2. ASSUME NEW o \in Outpoint, NEW t \in Tx
      PROVE  Unlink(ts)[o] = t <=> (t \in pool \ ts /\ o \in Ins[t])
  <2>1. CASE \E u \in ts : o \in Ins[u]
    <3>1. PICK u \in ts : o \in Ins[u]
      BY <2>1
    <3>2. spends[o] = u
      BY <3>1 DEF Shape, SpendsAgree
    <3>3. Unlink(ts)[o] = None
      BY <2>1 DEF Unlink
    <3>4. t \in pool /\ o \in Ins[t] => t = u
      BY <3>2 DEF SpendsAgree
    <3> QED BY <3>1, <3>3, <3>4, TxAssumption
  <2>2. CASE ~ \E u \in ts : o \in Ins[u]
    <3>1. Unlink(ts)[o] = spends[o]
      BY <2>2 DEF Unlink
    <3> QED BY <3>1, <2>2 DEF SpendsAgree
  <2> QED BY <2>1, <2>2
<1> QED BY <1>1, <1>2

LEMMA InsertKeeps ==
  ASSUME IndexInv, adding # Free, Insert(adding.tx), adding' = Free
  PROVE  IndexInv'
<1> DEFINE t == adding.tx
<1>1. t \in Tx /\ t \notin pool /\ \A o \in Ins[t] : spends[o] = None
  BY DEF IndexInv, AddHolds
<1>2. PICK out : /\ out \subseteq pool
                 /\ pool' = (pool \ out) \cup {t}
                 /\ spends' = [o \in Outpoint |-> IF o \in Ins[t] THEN t ELSE Unlink(out)[o]]
  BY DEF Insert, Lowest
<1>3. /\ Unlink(out) \in [Outpoint -> Tx \cup {None}]
      /\ \A o \in Outpoint, u \in Tx : Unlink(out)[o] = u <=> (u \in pool \ out /\ o \in Ins[u])
  BY <1>2, UnlinkAgrees DEF IndexInv
<1>4. Shape'
  BY <1>1, <1>2, <1>3 DEF IndexInv, Shape
<1>5. \A o \in Ins[t], u \in Tx : u \in pool => o \notin Ins[u]
  <2> SUFFICES ASSUME NEW o \in Ins[t], NEW u \in Tx, u \in pool, o \in Ins[u]
               PROVE  FALSE
    OBVIOUS
  <2>1. o \in Outpoint
    BY <1>1, TxAssumption
  <2>2. spends[o] = u
    BY <2>1 DEF IndexInv, SpendsAgree
  <2> QED BY <1>1, <2>2, TxAssumption
<1>6. SpendsAgree'
  <2> SUFFICES ASSUME NEW o \in Outpoint, NEW u \in Tx
               PROVE  spends'[o] = u <=> (u \in pool' /\ o \in Ins[u])
    BY DEF SpendsAgree
  <2>1. CASE o \in Ins[t]
    <3>1. spends'[o] = t
      BY <1>2, <2>1
    <3> QED BY <1>2, <1>5, <2>1, <3>1
  <2>2. CASE o \notin Ins[t]
    <3>1. spends'[o] = Unlink(out)[o]
      BY <1>2, <2>2
    <3> QED BY <1>2, <1>3, <2>2, <3>1
  <2> QED BY <2>1, <2>2
<1> QED BY <1>4, <1>6 DEF IndexInv, AddHolds

\* Every action of the node keeps the index; most do not touch it.
LEMMA NextKeepsIndex == IndexInv /\ [Next]_vars => IndexInv'
<1> SUFFICES ASSUME IndexInv, [Next]_vars PROVE IndexInv'
  OBVIOUS
<1>1. ASSUME UNCHANGED poolVars PROVE IndexInv'
  BY <1>1 DEF IndexInv, Shape, AddHolds, SpendsAgree, poolVars
<1>2. ASSUME NEW t \in Tx, Screened(t), adding'.tx = t, UNCHANGED <<pool, spends>>
      PROVE  IndexInv'
  BY <1>2 DEF IndexInv, Shape, AddHolds, SpendsAgree, Screened
<1>3. ASSUME NEW t \in Tx, Submit(t) PROVE IndexInv'
  <2>1. adding'.tx = t
    BY <1>3 DEF Submit
  <2> QED BY <1>2, <1>3, <2>1 DEF Submit
<1>4. ASSUME NEW t \in Tx, GiveBack(t) PROVE IndexInv'
  <2>1. CASE Screened(t)
    <3>1. adding'.tx = t
      BY <1>4, <2>1 DEF GiveBack
    <3> QED BY <1>2, <1>4, <2>1, <3>1 DEF GiveBack
  <2>2. CASE ~ Screened(t)
    BY <1>1, <1>4, <2>2 DEF GiveBack, poolVars
  <2> QED BY <2>1, <2>2
<1>5. ASSUME FinishAdd PROVE IndexInv'
  <2>1. CASE Insert(adding.tx)
    BY <1>5, <2>1, InsertKeeps DEF FinishAdd
  <2>2. CASE UNCHANGED <<pool, spends>>
    BY <1>5, <2>2 DEF FinishAdd, IndexInv, Shape, AddHolds, SpendsAgree
  <2> QED BY <1>5, <2>1, <2>2 DEF FinishAdd
<1>6. ASSUME NEW c \in Caller, Remove(c) PROVE IndexInv'
  <2>1. /\ adding = Free /\ UNCHANGED adding
        /\ pool' = pool \ (pool \cap toRemove[c])
        /\ spends' = Unlink(pool \cap toRemove[c])
    BY <1>6 DEF Remove
  <2>2. Shape' /\ SpendsAgree'
    BY <2>1, UnlinkAgrees DEF IndexInv, Shape, SpendsAgree
  <2> QED BY <2>1, <2>2 DEF IndexInv, AddHolds
<1>7. ASSUME Receive \/ Revert \/ Replay \/ SetHash \/ SetHeight \/ Return \/ Select
             \/ ReadSupply \/ BuildCoinbase \/ ReadTipHash \/ ReadHeight \/ Produce
      PROVE  UNCHANGED poolVars
  BY <1>7 DEF Receive, Revert, Replay, SetHash, SetHeight, Return, Select, ReadSupply,
              BuildCoinbase, ReadTipHash, ReadHeight, Produce
<1>8. ASSUME UNCHANGED vars PROVE UNCHANGED poolVars
  BY <1>8 DEF vars
<1> QED BY <1>1, <1>3, <1>4, <1>5, <1>6, <1>7, <1>8 DEF Next

\* For every set of transactions, capacity and history: the conflict index
\* lists exactly the inputs of the pool's transactions (pool.go, Add and
\* removeLocked).
THEOREM IndexCorrect == Spec => []SpendsAgree
<1>1. Init => IndexInv
  BY TxAssumption DEF Init, IndexInv, Shape, AddHolds, SpendsAgree
<1>2. IndexInv => SpendsAgree
  BY DEF IndexInv
<1> QED BY <1>1, <1>2, NextKeepsIndex, PTL DEF Spec

\* So no two transactions of the pool ever spend one output, and a selection
\* for a block never holds a double spend (SelectForBlock).
NoConflict == \A t, u \in pool : t # u => Ins[t] \cap Ins[u] = {}

THEOREM PoolHasNoConflict == Spec => []NoConflict
<1>1. IndexInv => NoConflict
  <2> SUFFICES ASSUME IndexInv, NEW t \in pool, NEW u \in pool, NEW o \in Ins[t] \cap Ins[u]
               PROVE  t = u
    BY DEF NoConflict
  <2>1. t \in Tx /\ u \in Tx
    BY DEF IndexInv, Shape
  <2>2. o \in Outpoint
    BY <2>1, TxAssumption
  <2> QED BY <2>1, <2>2 DEF IndexInv, SpendsAgree
<1>2. Init => IndexInv
  BY TxAssumption DEF Init, IndexInv, Shape, AddHolds, SpendsAgree
<1> QED BY <1>1, <1>2, NextKeepsIndex, PTL DEF Spec

-----------------------------------------------------------------------------
(* Paths and their beginnings. *)

\* Two paths of the same blocks are one.
LEMMA SamePath ==
  ASSUME NEW p \in Path, NEW q \in Path, Len(p) = Len(q), \A i \in 1..Len(p) : p[i] = q[i]
  PROVE  p = q
BY SeqEqual DEF Path

\* The beginning of a path, of n blocks.
LEMMA BeginningIs ==
  ASSUME NEW p \in Path, NEW n \in 0..Len(p)
  PROVE  /\ SubSeq(p, 1, n) \in Path
         /\ Len(SubSeq(p, 1, n)) = n
         /\ \A i \in 1..n : SubSeq(p, 1, n)[i] = p[i]
<1>1. p \in Seq(Block) /\ Len(p) \in Nat
  BY LenProperties DEF Path
<1>2. \A i \in 1..n : p[i] \in Block
  BY <1>1, ElementOfSeq
<1>3. SubSeq(p, 1, n) \in Seq(Block) /\ Len(SubSeq(p, 1, n)) = n
  BY <1>1, <1>2, SubSeqProperties
<1>4. \A i \in 1..n : SubSeq(p, 1, n)[i] = p[i]
  BY <1>1, <1>2, SubSeqProperties
<1> QED BY <1>3, <1>4 DEF Path

LEMMA BeginningOf ==
  ASSUME NEW p \in Path, NEW n \in 0..Len(p), NEW m \in 0..n
  PROVE  SubSeq(SubSeq(p, 1, n), 1, m) = SubSeq(p, 1, m)
<1>1. n \in Nat /\ m \in 0..Len(p) /\ m \in 0..Len(SubSeq(p, 1, n))
  BY BeginningIs, LenProperties DEF Path
<1>2. SubSeq(p, 1, n) \in Path
  BY BeginningIs
<1>3. /\ SubSeq(SubSeq(p, 1, n), 1, m) \in Path /\ SubSeq(p, 1, m) \in Path
      /\ Len(SubSeq(SubSeq(p, 1, n), 1, m)) = m /\ Len(SubSeq(p, 1, m)) = m
  BY <1>1, <1>2, BeginningIs
<1>4. \A i \in 1..m : SubSeq(SubSeq(p, 1, n), 1, m)[i] = SubSeq(p, 1, m)[i]
  BY <1>1, <1>2, BeginningIs
<1> QED BY <1>3, <1>4, SamePath

LEMMA Whole ==
  ASSUME NEW p \in Path
  PROVE  SubSeq(p, 1, Len(p)) = p
BY SubSeqFull DEF Path

\* A path and one more block.
LEMMA Extended ==
  ASSUME NEW p \in Path, NEW e \in Block
  PROVE  /\ Append(p, e) \in Path /\ Append(p, e) # <<>>
         /\ Len(Append(p, e)) = Len(p) + 1
         /\ Last(Append(p, e)) = e /\ Parent(Append(p, e)) = p
         /\ \A n \in 0..Len(p) : SubSeq(Append(p, e), 1, n) = SubSeq(p, 1, n)
         /\ TxsOf(Append(p, e)) = TxsOf(p) \cup e.txs
<1> DEFINE q == Append(p, e)
<1>1. Len(p) \in Nat /\ p \in Seq(Block)
  BY LenProperties DEF Path
<1>2. /\ q \in Path /\ Len(q) = Len(p) + 1
      /\ \A i \in 1..Len(p) : q[i] = p[i]
      /\ q[Len(p) + 1] = e
  BY <1>1, AppendProperties DEF Path
<1> HIDE DEF q
<1>3. ASSUME NEW n \in 0..Len(p) PROVE SubSeq(q, 1, n) = SubSeq(p, 1, n)
  <2>1. n \in 0..Len(q) /\ n \in 0..Len(p) /\ 1..n \subseteq 1..Len(p)
    BY <1>1, <1>2
  <2>2. /\ SubSeq(q, 1, n) \in Path /\ SubSeq(p, 1, n) \in Path
        /\ Len(SubSeq(q, 1, n)) = n /\ Len(SubSeq(p, 1, n)) = n
        /\ \A i \in 1..n : SubSeq(q, 1, n)[i] = q[i] /\ SubSeq(p, 1, n)[i] = p[i]
    BY <1>2, <2>1, BeginningIs
  <2> QED BY <1>2, <2>1, <2>2, SamePath
<1>4. Parent(q) = p
  <2>1. Len(q) - 1 = Len(p)
    BY <1>1, <1>2
  <2>2. SubSeq(q, 1, Len(p)) = SubSeq(p, 1, Len(p))
    BY <1>1, <1>3
  <2> QED BY <2>1, <2>2, Whole DEF Parent
<1>5. DOMAIN q = DOMAIN p \cup {Len(p) + 1} /\ DOMAIN p = 1..Len(p)
  <2>1. DOMAIN q = 1..Len(p) + 1 /\ DOMAIN p = 1..Len(p)
    BY <1>1, <1>2, LenProperties DEF Path
  <2> QED BY <1>1, <2>1
<1>6. TxsOf(q) = TxsOf(p) \cup e.txs
  BY <1>2, <1>5 DEF TxsOf
<1>7. q # <<>>
  BY <1>1, <1>2, EmptySeq
<1> QED BY <1>2, <1>3, <1>4, <1>6, <1>7 DEF q, Last

\* A path without its last block.
LEMMA Shortened ==
  ASSUME NEW p \in Path, p # <<>>
  PROVE  /\ Len(p) \in Nat \ {0} /\ Last(p) \in Block
         /\ Parent(p) = SubSeq(p, 1, Len(p) - 1)
         /\ p = Append(Parent(p), Last(p))
<1>1. Len(p) \in Nat \ {0}
  BY EmptySeq, LenProperties DEF Path
<1>2. Last(p) \in Block
  BY <1>1, ElementOfSeq DEF Path, Last
<1>3. Parent(p) \in Path /\ Len(Parent(p)) = Len(p) - 1 /\ \A i \in 1..Len(p) - 1 : Parent(p)[i] = p[i]
  <2>1. Len(p) - 1 \in 0..Len(p)
    BY <1>1
  <2> QED BY <2>1, BeginningIs DEF Parent
<1>4. p = Append(Parent(p), Last(p))
  <2> DEFINE q == Append(Parent(p), Last(p))
  <2>1. /\ q \in Path /\ Len(q) = Len(p)
        /\ \A i \in 1..Len(p) - 1 : q[i] = p[i]
        /\ q[Len(p)] = p[Len(p)]
    BY <1>1, <1>2, <1>3, AppendProperties DEF Path, Last
  <2> HIDE DEF q
  <2>2. \A i \in 1..Len(p) : q[i] = p[i]
    BY <1>1, <2>1
  <2>3. p = q
    BY <2>1, <2>2, SamePath
  <2> QED BY <2>3 DEF q
<1> QED BY <1>1, <1>2, <1>4 DEF Parent

\* One block of the way from p to q.
LEMMA Regrown ==
  ASSUME NEW p \in Path, NEW q \in Path, Under(p, q), p # q
  PROVE  /\ Len(p) + 1 \in 1..Len(q) /\ q[Len(p) + 1] \in Block
         /\ Append(p, q[Len(p) + 1]) = SubSeq(q, 1, Len(p) + 1)
         /\ Under(Append(p, q[Len(p) + 1]), q)
<1> DEFINE n == Len(p) + 1
           b == SubSeq(q, 1, n)
<1>1. Len(p) \in Nat /\ Len(q) \in Nat /\ Len(p) <= Len(q) /\ p = SubSeq(q, 1, Len(p))
  BY LenProperties DEF Under, Path
<1>2. Len(p) # Len(q)
  BY <1>1, Whole
<1>3. n \in 1..Len(q) /\ n \in 0..Len(q)
  BY <1>1, <1>2
<1>4. b \in Path /\ Len(b) = n /\ \A i \in 1..n : b[i] = q[i]
  BY <1>3, BeginningIs
<1>5. b # <<>>
  BY <1>1, <1>4, EmptySeq
<1>6. b = Append(Parent(b), Last(b)) /\ Parent(b) = SubSeq(b, 1, n - 1)
  BY <1>4, <1>5, Shortened
<1>7. Parent(b) = p
  <2>1. SubSeq(b, 1, Len(p)) = SubSeq(q, 1, Len(p))
    BY <1>1, <1>3, BeginningOf
  <2>2. n - 1 = Len(p)
    BY <1>1
  <2> QED BY <1>1, <1>6, <2>1, <2>2
<1>8. Last(b) = q[n] /\ q[n] \in Block
  BY <1>3, <1>4, ElementOfSeq DEF Last, Path
<1>9. Under(b, q)
  BY <1>1, <1>3, <1>4 DEF Under
<1> QED BY <1>3, <1>6, <1>7, <1>8, <1>9

\* Every path goes on from the start.
LEMMA StartUnder ==
  ASSUME NEW q \in Path
  PROVE  Under(<<>>, q) /\ <<>> = SubSeq(q, 1, 0)
<1>1. Len(q) \in Nat /\ Len(<<>>) = 0
  BY LenProperties, EmptySeq DEF Path
<1>2. SubSeq(q, 1, 0) = <<>>
  BY SubSeqEmpty
<1>3. Len(<<>>) <= Len(q) /\ <<>> = SubSeq(q, 1, Len(<<>>))
  BY <1>1, <1>2
<1> QED BY <1>2, <1>3 DEF Under

-----------------------------------------------------------------------------
(* Every variable keeps its type.  That a path under way is known needs    *)
(* that every beginning of a known path is: a reorg applies its blocks one *)
(* by one, and what it has applied so far is in the tree, too.             *)

Jobs == [pc : {"idle", "hash", "revert", "height", "return", "broken"}, by : Caller,
         target : Path, back : SUBSET Tx]
Templates == [pc : {"off", "reward", "coinbase", "prev", "header", "seal"}, txs : SUBSET Tx,
              mint : {0, 1}, coinbase : Nat, prev : Path, height : Nat]

Closed == \A p \in known : \A n \in 0..Len(p) : SubSeq(p, 1, n) \in known

Trees ==
  /\ known \subseteq Path /\ Closed
  /\ {view, tipHash, job.target, miner.prev} \subseteq known

\* How far the call that is under way has come with the tip.
Applied ==
  /\ job.pc = "idle" => job = Idle /\ view = tipHash /\ tipHeight = Len(view)
  /\ job.pc # "idle" => job.target # <<>>
  /\ job.pc \in {"hash", "height", "return"} => view = job.target
  /\ job.pc \in {"height", "return"} => view = tipHash
  /\ job.pc = "return" => tipHeight = Len(view)

Records ==
  /\ tipHeight \in Nat
  /\ job \in Jobs
  /\ toRemove \in [Caller -> SUBSET Tx]
  /\ miner \in Templates

ChainInv == Trees /\ Applied /\ Records

\* A block on a known path leaves the tree closed.
LEMMA ClosedGrows ==
  ASSUME known \subseteq Path, Closed, NEW p \in known, NEW e \in Block,
         known' = known \cup {Append(p, e)}
  PROVE  known' \subseteq Path /\ Closed'
<1> DEFINE b == Append(p, e)
<1>1. /\ b \in Path /\ Len(b) = Len(p) + 1 /\ Len(p) \in Nat
      /\ \A n \in 0..Len(p) : SubSeq(b, 1, n) = SubSeq(p, 1, n)
  BY Extended, LenProperties DEF Path
<1>2. SubSeq(b, 1, Len(b)) = b
  BY <1>1, Whole
<1> HIDE DEF b
<1>3. ASSUME NEW n \in 0..Len(b) PROVE SubSeq(b, 1, n) \in known \cup {b}
  <2>1. n \in 0..Len(p) \/ n = Len(b)
    BY <1>1
  <2> QED BY <1>1, <1>2, <2>1 DEF Closed
<1>4. known' = known \cup {b}
  BY DEF b
<1> QED BY <1>1, <1>3, <1>4 DEF Closed

\* What ProcessBlock does with a block on a known path: it applies it to the
\* tip, refuses it, or stores it and reorganises or not.
LEMMA ProcessCases ==
  ASSUME ChainInv, NEW c \in Caller, NEW p \in known, NEW e \in Block,
         Process(c, Append(p, e))
  PROVE  /\ job = Idle /\ UNCHANGED <<tipHash, tipHeight>>
         /\ Append(p, e) \notin known
         /\ \/ /\ p = view /\ Valid(e, view)
               /\ view' = Append(p, e) /\ known' = known \cup {Append(p, e)}
               /\ job' = [pc |-> "hash", by |-> c, target |-> Append(p, e), back |-> {}]
               /\ UNCHANGED toRemove
            \/ /\ p = view /\ ~ Valid(e, view)
               /\ toRemove' = [toRemove EXCEPT ![c] = IF c = "me" THEN Evicted(e) ELSE @]
               /\ UNCHANGED <<view, known, job>>
            \/ /\ p # view /\ known' = known \cup {Append(p, e)} /\ UNCHANGED view
               /\ \/ /\ job' = [pc |-> "revert", by |-> c, target |-> Append(p, e), back |-> {}]
                     /\ UNCHANGED toRemove
                  \/ toRemove' = [toRemove EXCEPT ![c] = e.txs] /\ UNCHANGED job
<1> DEFINE b == Append(p, e)
<1>1. Last(b) = e /\ Parent(b) = p
  BY Extended DEF ChainInv, Trees
<1> HIDE DEF b
<1>2. job = Idle /\ b \notin known /\ UNCHANGED <<tipHash, tipHeight>>
  BY DEF Process, b
<1>3. view = tipHash
  BY <1>2 DEF ChainInv, Applied, Idle
<1>4. \/ /\ p = tipHash /\ Valid(e, view)
         /\ view' = Append(view, e) /\ known' = known \cup {b}
         /\ job' = [pc |-> "hash", by |-> c, target |-> b, back |-> {}]
         /\ UNCHANGED toRemove
      \/ /\ p = tipHash /\ ~ Valid(e, view)
         /\ toRemove' = [toRemove EXCEPT ![c] = IF c = "me" THEN Evicted(e) ELSE @]
         /\ UNCHANGED <<view, known, job>>
      \/ /\ p # tipHash /\ known' = known \cup {b} /\ UNCHANGED view
         /\ \/ /\ job' = [pc |-> "revert", by |-> c, target |-> b, back |-> {}]
               /\ UNCHANGED toRemove
            \/ toRemove' = [toRemove EXCEPT ![c] = e.txs] /\ UNCHANGED job
  BY <1>1 DEF Process, Confirmed, b
<1> QED BY <1>2, <1>3, <1>4 DEF b

LEMMA ProcessKeeps ==
  ASSUME ChainInv, NEW c \in Caller, NEW p \in known, NEW e \in Block,
         Process(c, Append(p, e)), miner' = miner \/ miner' = Off
  PROVE  ChainInv'
<1> DEFINE b == Append(p, e)
<1>1. b \in Path /\ p \in Path /\ Len(b) = Len(p) + 1 /\ e.txs \subseteq Tx
  BY Extended DEF ChainInv, Trees, Block
<1>2. /\ job = Idle /\ UNCHANGED <<tipHash, tipHeight>>
      /\ known' \in {known, known \cup {b}}
      /\ view' = view \/ (view' = b /\ b \in known')
      /\ job' = job \/ (b \in known' /\ job'.target = b)
  <2> HIDE DEF b
  <2>1. \/ /\ view' = b /\ known' = known \cup {b}
           /\ job' = [pc |-> "hash", by |-> c, target |-> b, back |-> {}]
        \/ UNCHANGED <<view, known, job>>
        \/ /\ known' = known \cup {b} /\ UNCHANGED view
           /\ job' \in {job, [pc |-> "revert", by |-> c, target |-> b, back |-> {}]}
    BY ProcessCases DEF b
  <2> QED BY <2>1, ProcessCases
<1>3. known \subseteq known' /\ known' \subseteq Path /\ Closed'
  <2>1. CASE known' = known
    BY <2>1 DEF ChainInv, Trees, Closed
  <2>2. CASE known' = known \cup {b}
    BY <2>2, ClosedGrows DEF ChainInv, Trees
  <2> QED BY <1>2, <2>1, <2>2
<1>4. <<>> \in known
  BY <1>2 DEF ChainInv, Trees, Idle
<1>5. b # <<>>
  BY Extended DEF ChainInv, Trees
<1>6. Trees'
  <2>1. miner'.prev \in known'
    BY <1>3, <1>4 DEF ChainInv, Trees, Off
  <2> QED BY <1>2, <1>3, <2>1 DEF ChainInv, Trees
<1>7. Applied'
  <2>1. \/ view' = view /\ job' = job
        \/ job'.pc = "hash" /\ view' = b /\ job'.target = b
        \/ job'.pc = "revert" /\ job'.target = b
    <3> HIDE DEF b
    <3>1. \/ view' = view /\ job' = job
          \/ view' = b /\ job' = [pc |-> "hash", by |-> c, target |-> b, back |-> {}]
          \/ job' = [pc |-> "revert", by |-> c, target |-> b, back |-> {}]
      BY ProcessCases DEF b
    <3> QED BY <3>1
  <2>2. CASE view' = view /\ job' = job
    BY <1>2, <2>2 DEF ChainInv, Applied
  <2>3. CASE job'.pc = "hash" /\ view' = b /\ job'.target = b
    BY <1>5, <2>3 DEF Applied
  <2>4. CASE job'.pc = "revert" /\ job'.target = b
    BY <1>5, <2>4 DEF Applied
  <2> QED BY <2>1, <2>2, <2>3, <2>4
<1>8. Records'
  <2>1. job' \in Jobs
    <3>1. \/ job' = job
          \/ job' = [pc |-> "hash", by |-> c, target |-> b, back |-> {}]
          \/ job' = [pc |-> "revert", by |-> c, target |-> b, back |-> {}]
      BY ProcessCases
    <3> HIDE DEF b
    <3> QED BY <1>1, <3>1 DEF Jobs, ChainInv, Records
  <2>2. toRemove' \in [Caller -> SUBSET Tx]
    <3>1. \/ toRemove' = toRemove
          \/ toRemove' = [toRemove EXCEPT ![c] = IF c = "me" THEN Evicted(e) ELSE @]
          \/ toRemove' = [toRemove EXCEPT ![c] = e.txs]
      BY ProcessCases
    <3>2. Evicted(e) \subseteq Tx
      BY <1>1 DEF Evicted
    <3> QED BY <1>1, <3>1, <3>2 DEF ChainInv, Records
  <2>3. miner' \in Templates
    <3>1. <<>> \in Path
      BY <1>4 DEF ChainInv, Trees
    <3>2. Off \in Templates
      BY <3>1 DEF Templates, Off
    <3> QED BY <3>2 DEF ChainInv, Records
  <2> QED BY <1>2, <2>1, <2>2, <2>3 DEF ChainInv, Records
<1> QED BY <1>6, <1>7, <1>8 DEF ChainInv

\* The start is known.
LEMMA StartKnown ==
  ASSUME ChainInv
  PROVE  <<>> \in known /\ <<>> \in Path
<1>1. Len(view) \in Nat /\ view \in known /\ view \in Path
  BY LenProperties DEF ChainInv, Trees, Path
<1>2. SubSeq(view, 1, 0) = <<>> /\ 0 \in 0..Len(view)
  BY <1>1, StartUnder
<1> QED BY <1>1, <1>2 DEF ChainInv, Trees, Closed

\* One block back, or one block further on the way to the target.
LEMMA ReorgKeeps ==
  ASSUME ChainInv, Revert \/ Replay \/ SetHash \/ SetHeight
  PROVE  ChainInv'
<1>1. /\ known \subseteq Path /\ view \in Path /\ view \in known /\ tipHash \in known
      /\ job.target \in known /\ job.target \in Path
      /\ job \in Jobs
      /\ \A p \in known : \A n \in 0..Len(p) : SubSeq(p, 1, n) \in known
  BY DEF ChainInv, Trees, Closed, Records
<1>2. /\ UNCHANGED <<known, toRemove, miner>>
      /\ job'.target = job.target
      /\ job' \in Jobs
  <2>1. ASSUME NEW x \in SUBSET Tx PROVE [job EXCEPT !.back = x] \in Jobs
    BY <1>1, <2>1 DEF Jobs
  <2>2. ASSUME Revert
        PROVE  /\ UNCHANGED <<known, toRemove, miner>>
               /\ job'.target = job.target /\ job' \in Jobs
    <3>1. view # <<>>
      BY <1>1, <2>2, StartUnder DEF Revert
    <3>2. Last(view).txs \subseteq Tx
      BY <1>1, <3>1, Shortened DEF Block
    <3> QED BY <1>1, <2>2, <3>2 DEF Revert, Jobs
  <2>3. ASSUME Replay \/ SetHash \/ SetHeight
        PROVE  /\ UNCHANGED <<known, toRemove, miner>>
               /\ job'.target = job.target /\ job' \in Jobs
    BY <1>1, <2>3 DEF Replay, SetHash, SetHeight, Jobs
  <2> QED BY <2>2, <2>3
<1>3. view' \in known /\ tipHash' \in known
  <2>1. CASE Revert
    <3>1. view # <<>>
      BY <1>1, <2>1, StartUnder DEF Revert
    <3>2. Len(view) - 1 \in 0..Len(view) /\ Parent(view) = SubSeq(view, 1, Len(view) - 1)
      BY <1>1, <3>1, Shortened
    <3> QED BY <1>1, <2>1, <3>2 DEF Revert
  <2>2. CASE Replay
    <3>1. Len(view) + 1 \in 1..Len(job.target)
          /\ Append(view, job.target[Len(view) + 1]) = SubSeq(job.target, 1, Len(view) + 1)
      BY <1>1, <2>2, Regrown DEF Replay
    <3>2. Len(view) + 1 \in 0..Len(job.target)
      BY <3>1
    <3> QED BY <1>1, <2>2, <3>1, <3>2 DEF Replay
  <2>3. CASE SetHash \/ SetHeight
    BY <1>1, <2>3 DEF SetHash, SetHeight
  <2> QED BY <2>1, <2>2, <2>3
<1>4. Trees'
  BY <1>2, <1>3 DEF ChainInv, Trees, Closed
<1>5. Len(job.target) \in Nat
  BY <1>1, LenProperties DEF Path
<1>6. Applied'
  <2>1. CASE Revert
    BY <1>1, <2>1 DEF Revert, ChainInv, Applied, Jobs
  <2>2. CASE Replay
    BY <1>1, <2>2 DEF Replay, ChainInv, Applied, Jobs
  <2>3. CASE SetHash
    BY <1>1, <2>3 DEF SetHash, ChainInv, Applied, Jobs
  <2>4. CASE SetHeight
    BY <1>1, <2>4 DEF SetHeight, ChainInv, Applied, Jobs
  <2> QED BY <2>1, <2>2, <2>3, <2>4
<1>7. Records'
  BY <1>2, <1>5 DEF ChainInv, Records, Revert, Replay, SetHash, SetHeight
<1> QED BY <1>4, <1>6, <1>7 DEF ChainInv

LEMMA CallsKeep ==
  ASSUME ChainInv, pool \subseteq Tx,
         Return \/ (\E t \in Tx : GiveBack(t)) \/ (\E c \in Caller : Remove(c))
  PROVE  ChainInv'
<1>1. job \in Jobs /\ toRemove \in [Caller -> SUBSET Tx] /\ job.target \in Path
  BY DEF ChainInv, Records, Trees
<1>2. CASE \E t \in Tx : GiveBack(t)
  <2>1. PICK t \in Tx : GiveBack(t)
    BY <1>2
  <2>2. job' = [job EXCEPT !.back = job.back \ {t}] /\ job' \in Jobs
    BY <1>1, <2>1 DEF GiveBack, Jobs
  <2>3. job'.pc = "return" /\ job.pc = "return" /\ job'.target = job.target
    BY <1>1, <2>1 DEF GiveBack, Jobs
  <2> QED BY <1>1, <2>1, <2>2, <2>3 DEF GiveBack, ChainInv, Trees, Closed, Applied, Records
<1>3. CASE \E c \in Caller : Remove(c)
  BY <1>1, <1>3 DEF Remove, chainVars, ChainInv, Trees, Closed, Applied, Records
<1>4. CASE Return
  <2>1. <<>> \in known
    BY StartKnown
  <2>2. Last(job.target).txs \subseteq Tx
    <3>1. Last(job.target) \in Block
      BY <1>1, <1>4, Shortened DEF Return, ChainInv, Applied
    <3> QED BY <3>1 DEF Block
  <2>3. /\ job.pc = "return" /\ job' = Idle
        /\ toRemove' = [toRemove EXCEPT ![job.by] = Last(job.target).txs]
        /\ UNCHANGED <<known, view, tipHash, tipHeight, miner>>
    BY <1>4 DEF Return, Confirmed
  <2>4. toRemove' \in [Caller -> SUBSET Tx]
    BY <1>1, <2>2, <2>3
  <2>5. Idle \in Jobs /\ Idle.pc = "idle" /\ Idle.target = <<>>
    BY <2>1 DEF Idle, Jobs, Caller, ChainInv, Trees
  <2>6. Trees'
    BY <2>1, <2>3, <2>5 DEF ChainInv, Trees, Closed
  <2>7. Applied'
    BY <2>3, <2>5 DEF ChainInv, Applied
  <2> QED BY <2>3, <2>4, <2>5, <2>6, <2>7 DEF ChainInv, Records
<1> QED BY <1>2, <1>3, <1>4

\* The producer's readings.
LEMMA MinerKeeps ==
  ASSUME ChainInv, pool \subseteq Tx,
         Select \/ ReadSupply \/ BuildCoinbase \/ ReadTipHash \/ ReadHeight
  PROVE  ChainInv'
<1>1. /\ miner \in Templates /\ tipHeight \in Nat /\ UNCHANGED <<chainVars, toRemove>>
      /\ tipHash \in Path /\ <<>> \in known /\ known \subseteq Path
  <2>1. UNCHANGED <<chainVars, toRemove>>
    BY Zenon DEF Select, ReadSupply, BuildCoinbase, ReadTipHash, ReadHeight
  <2> QED BY <2>1, StartKnown DEF ChainInv, Trees, Records
<1>2. miner' \in Templates /\ miner'.prev \in known
  <2>1. CASE Select
    <3>1. PICK ts \in SUBSET pool : miner' = [Off EXCEPT !.pc = "reward", !.txs = ts]
      BY <2>1, Zenon DEF Select
    <3>2. miner' = [pc |-> "reward", txs |-> ts, mint |-> 0, coinbase |-> 0, prev |-> <<>>,
                    height |-> 0]
      BY <3>1 DEF Off
    <3> QED BY <1>1, <3>2 DEF Templates
  <2>2. CASE ReadSupply
    <3>1. Reward(view) \in {0, 1}
      BY DEF Reward
    <3> HIDE DEF Reward
    <3> QED BY <1>1, <2>2, <3>1 DEF ReadSupply, Templates, ChainInv, Trees
  <2>3. CASE BuildCoinbase
    <3> DEFINE h == tipHeight + 1
    <3>1. h \in Nat /\ miner' = [miner EXCEPT !.pc = "prev", !.coinbase = h]
      BY <1>1, <2>3 DEF BuildCoinbase
    <3> HIDE DEF h
    <3> QED BY <1>1, <3>1 DEF Templates, ChainInv, Trees
  <2>4. CASE ReadTipHash
    BY <1>1, <2>4 DEF ReadTipHash, Templates, ChainInv, Trees
  <2>5. CASE ReadHeight
    <3> DEFINE h == tipHeight + 1
    <3>1. h \in Nat /\ miner' = [miner EXCEPT !.pc = "seal", !.height = h]
      BY <1>1, <2>5 DEF ReadHeight
    <3> HIDE DEF h
    <3> QED BY <1>1, <3>1 DEF Templates, ChainInv, Trees
  <2> QED BY <2>1, <2>2, <2>3, <2>4, <2>5
<1> QED BY <1>1, <1>2 DEF ChainInv, Trees, Closed, Applied, Records, chainVars

\* A block of another node, or an own one, and its parent.
LEMMA Blocks ==
  ASSUME ChainInv
  PROVE  /\ Receive => \E p \in known, e \in Block :
              /\ Process("net", Append(p, e)) /\ toRemove["net"] = {}
              /\ UNCHANGED <<poolVars, miner>>
         /\ Produce => \/ UNCHANGED <<chainVars, toRemove>>
                       \/ \E e \in Block : Process("me", Append(miner.prev, e))
<1>1. ASSUME Receive
      PROVE  \E p \in known, e \in Block :
               /\ Process("net", Append(p, e)) /\ toRemove["net"] = {}
               /\ UNCHANGED <<poolVars, miner>>
  <2>1. PICK p \in known, ts \in SUBSET Tx, w \in {1, 2} :
          Process("net", Append(p, [txs |-> ts, weight |-> w, coinbase |-> 0, mint |-> Reward(p)]))
    BY <1>1 DEF Receive
  <2>2. Reward(p) \in {0, 1}
    BY DEF Reward
  <2>3. [txs |-> ts, weight |-> w, coinbase |-> 0, mint |-> Reward(p)] \in Block
    BY <2>2 DEF Block
  <2> QED BY <1>1, <2>1, <2>3 DEF Receive
<1>2. ASSUME Produce, ~ UNCHANGED <<chainVars, toRemove>>
      PROVE  \E e \in Block : Process("me", Append(miner.prev, e))
  <2>1. PICK w \in {1, 2} : Process("me", OwnBlock(w))
    BY <1>2 DEF Produce
  <2> DEFINE e == [txs |-> miner.txs, weight |-> w, coinbase |-> miner.coinbase,
                   mint |-> miner.mint]
  <2>2. e \in Block
    BY DEF Block, ChainInv, Records, Templates
  <2>3. OwnBlock(w) = Append(miner.prev, e)
    BY DEF OwnBlock
  <2> HIDE DEF e
  <2> QED BY <2>1, <2>2, <2>3
<1> QED BY <1>1, <1>2

LEMMA BlocksKeep ==
  ASSUME ChainInv, Receive \/ Produce
  PROVE  ChainInv'
<1>1. CASE Receive
  BY <1>1, Blocks, ProcessKeeps DEF Caller
<1>2. CASE Produce
  <2>1. miner' = Off /\ miner.prev \in known
    BY <1>2 DEF Produce, ChainInv, Trees
  <2>2. CASE UNCHANGED <<chainVars, toRemove>>
    <3>3. Off \in Templates /\ Off.prev = <<>>
      BY StartKnown DEF Off, Templates
    <3> QED BY <2>1, <2>2, <3>3, StartKnown DEF ChainInv, Trees, Closed, Applied, Records, chainVars
  <2>3. CASE \E e \in Block : Process("me", Append(miner.prev, e))
    BY <2>1, <2>3, ProcessKeeps DEF Caller
  <2> QED BY <1>2, <2>2, <2>3, Blocks
<1> QED BY <1>1, <1>2

\* What Add has screened is typed.
AddTyped == adding \in [tx : Tx \cup {None}, by : {"user", "reorg"}]

TypeInv == IndexInv /\ AddTyped /\ ChainInv

LEMMA TypeStep ==
  ASSUME TypeInv, [Next]_vars
  PROVE  TypeInv'
<1>1. IndexInv'
  BY NextKeepsIndex DEF TypeInv
<1>2. pool \subseteq Tx
  BY DEF TypeInv, IndexInv, Shape
<1>3. AddTyped'
  <2>1. ASSUME UNCHANGED adding PROVE AddTyped'
    BY <2>1 DEF TypeInv, AddTyped
  <2>2. Free \in [tx : Tx \cup {None}, by : {"user", "reorg"}]
    BY DEF Free
  <2>3. CASE \E t \in Tx : Submit(t) \/ GiveBack(t)
    BY <2>1, <2>3 DEF Submit, GiveBack, AddTyped
  <2>4. CASE FinishAdd
    BY <2>2, <2>4 DEF FinishAdd, AddTyped
  <2>5. CASE \E c \in Caller : Remove(c)
    BY <2>1, <2>5 DEF Remove
  <2>6. ASSUME \/ Receive \/ Revert \/ Replay \/ SetHash \/ SetHeight \/ Return \/ Select
               \/ ReadSupply \/ BuildCoinbase \/ ReadTipHash \/ ReadHeight \/ Produce
        PROVE  UNCHANGED poolVars
    BY <2>6, Zenon DEF Receive, Revert, Replay, SetHash, SetHeight, Return, Select,
                ReadSupply, BuildCoinbase, ReadTipHash, ReadHeight, Produce
  <2>7. CASE UNCHANGED vars
    BY <2>1, <2>7 DEF vars, poolVars
  <2> QED BY <2>1, <2>3, <2>4, <2>5, <2>6, <2>7 DEF Next, poolVars
<1>4. ChainInv'
  <2>1. ASSUME UNCHANGED <<chainVars, toRemove, miner>> PROVE ChainInv'
    BY <2>1 DEF TypeInv, ChainInv, Trees, Closed, Applied, Records, chainVars
  <2>2. CASE (\E t \in Tx : Submit(t)) \/ FinishAdd \/ UNCHANGED vars
    BY <2>1, <2>2 DEF Submit, FinishAdd, vars
  <2> QED
    BY <1>2, <2>2, ReorgKeeps, CallsKeep, MinerKeeps, BlocksKeep DEF Next, TypeInv
<1> QED BY <1>1, <1>3, <1>4 DEF TypeInv

LEMMA TypeStart ==
  ASSUME Init
  PROVE  TypeInv
<1>1. IndexInv /\ AddTyped
  BY TxAssumption DEF Init, IndexInv, Shape, AddHolds, SpendsAgree, AddTyped, Free
<1>2. <<>> \in Path /\ Len(<<>>) = 0
  BY EmptySeq DEF Path
<1>3. Trees
  <2>1. Closed
    <3>1. SubSeq(<<>>, 1, 0) = <<>>
      BY <1>2, StartUnder
    <3>2. \A n \in 0..Len(<<>>) : n = 0
      BY <1>2
    <3> QED BY <3>1, <3>2 DEF Init, Closed
  <2> QED BY <1>2, <2>1 DEF Init, Trees, Idle, Off
<1>4. Applied
  BY <1>2 DEF Init, Applied, Idle
<1>5. Records
  <2>1. Idle \in Jobs /\ Off \in Templates
    BY <1>2 DEF Idle, Off, Jobs, Templates, Caller
  <2> QED BY <2>1 DEF Init, Records
<1> QED BY <1>1, <1>3, <1>4, <1>5 DEF TypeInv, ChainInv

\* Every variable keeps its type, and what the tip, a block template and a
\* call under way name is in the block store.
THEOREM TypeCorrect == Spec => []TypeOK
<1>1. TypeInv => TypeOK
  BY DEF TypeInv, IndexInv, Shape, AddTyped, ChainInv, Trees, Records, Jobs, Templates, TypeOK
<1> QED BY <1>1, TypeStart, TypeStep, PTL DEF Spec

-----------------------------------------------------------------------------
(* The pool of a node that has stored no fork. *)

\* Whose turn it is: the goroutine that has a block under way, or prepares
\* one, has removed what its last one confirmed.
Turns ==
  /\ job.pc # "idle" => toRemove[job.by] = {}
  /\ miner.pc # "off" => toRemove["me"] = {} /\ (job.pc # "idle" => job.by # "me")

\* A transaction of the chain that is still in the pool will be removed.
Leaving(t) ==
  \/ \E c \in Caller : t \in toRemove[c]
  \/ job.pc # "idle" /\ t \in Last(view).txs

Unforked ==
  Linear =>
    /\ \A p \in known : Under(p, view)
    /\ job.pc \notin {"revert", "broken"} /\ job.back = {}
    /\ tipHeight <= Len(view)
    /\ \A t \in pool \cap TxsOf(view) : Leaving(t)
    /\ toRemove["net"] \subseteq TxsOf(view)
    /\ toRemove["me"] \subseteq TxsOf(view) \/ Immature(toRemove["me"], tipHeight + 1)

Capacity == IsFiniteSet(pool) /\ Cardinality(pool) <= MaxSize

LeavingInv == TypeInv /\ Turns /\ Unforked /\ Capacity

\* A block that is not on the tip makes a fork.
LEMMA OffTipForks ==
  ASSUME ChainInv, \A q \in known : Under(q, view), NEW p \in known, NEW e \in Block,
         Append(p, e) \notin known, known' = known \cup {Append(p, e)}, Linear'
  PROVE  /\ p = view
         /\ \A q \in known' : Under(q, Append(p, e))
<1> DEFINE b == Append(p, e)
<1>1. /\ known \subseteq Path /\ view \in known /\ Closed
      /\ \A q \in known : Len(q) \in Nat
  BY LenProperties DEF ChainInv, Trees, Path
<1>2. /\ b \in Path /\ Len(b) = Len(p) + 1 /\ SubSeq(b, 1, Len(b)) = b
      /\ \A n \in 0..Len(p) : SubSeq(b, 1, n) = SubSeq(p, 1, n)
  BY <1>1, Extended, Whole
<1> HIDE DEF b
<1>3. ~ Under(b, view)
  <2> SUFFICES ASSUME Under(b, view) PROVE FALSE
    OBVIOUS
  <2>1. Len(b) \in 0..Len(view) /\ b = SubSeq(view, 1, Len(b))
    BY <1>1, <1>2 DEF Under
  <2>2. b \in known
    BY <1>1, <2>1 DEF Closed
  <2> QED BY <2>2 DEF b
<1>4. Under(view, b)
  BY <1>1, <1>3 DEF Linear, b
<1>5. Len(p) <= Len(view) /\ p = SubSeq(view, 1, Len(p))
  BY DEF Under
<1>6. Len(view) <= Len(p) + 1 /\ view = SubSeq(b, 1, Len(view))
  BY <1>2, <1>4 DEF Under
<1>7. Len(view) # Len(p) + 1
  <2> SUFFICES ASSUME Len(view) = Len(p) + 1 PROVE FALSE
    OBVIOUS
  <2>1. view = b
    BY <1>2, <1>6
  <2> QED BY <1>1, <2>1 DEF b
<1>8. Len(view) = Len(p)
  <2> DEFINE m == Len(p)
             n == Len(view)
  <2>1. m \in Nat /\ n \in Nat
    BY <1>1
  <2>2. m <= n /\ n <= m + 1 /\ n # m + 1
    BY <1>5, <1>6, <1>7, Zenon
  <2> HIDE DEF m, n
  <2>3. n = m
    BY <2>1, <2>2
  <2> QED BY <2>3 DEF m, n
<1>9. p = view
  <2>1. Len(p) \in 0..Len(p)
    BY <1>1
  <2>2. SubSeq(view, 1, Len(view)) = view
    BY <1>1, Whole
  <2> QED BY <1>5, <1>8, <2>2
<1>10. ASSUME NEW q \in known PROVE Under(q, b)
  <2>1. Len(q) \in 0..Len(p) /\ q = SubSeq(p, 1, Len(q))
    BY <1>1, <1>9 DEF Under
  <2> QED BY <1>1, <1>2, <2>1 DEF Under
<1>11. Under(b, b)
  BY <1>1, <1>2 DEF Under
<1>12. known' = known \cup {b}
  BY DEF b
<1> QED BY <1>9, <1>10, <1>11, <1>12 DEF b

\* What was too young still was, once the tip is higher.
LEMMA ImmatureStays ==
  ASSUME NEW m \in Nat, NEW n \in Nat, m <= n, NEW ts, Immature(ts, m)
  PROVE  Immature(ts, n)
<1>1. PICK t \in ts : \E o \in Ins[t] : \E h \in 1..m : ~ Mature(o, h)
  BY DEF Immature
<1>2. PICK o \in Ins[t] : \E h \in 1..m : ~ Mature(o, h)
  BY <1>1
<1>3. PICK h \in 1..m : ~ Mature(o, h)
  BY <1>2
<1>4. h \in 1..n
  OBVIOUS
<1> QED BY <1>3, <1>4 DEF Immature

\* A block applied to the tip, or refused for a spend that is too young.
LEMMA ProcessLeaves ==
  ASSUME LeavingInv, NEW c \in Caller, NEW p \in known, NEW e \in Block,
         Process(c, Append(p, e)), c = "me" => toRemove["me"] = {},
         UNCHANGED pool, Linear'
  PROVE  Unforked'
<1> DEFINE b == Append(p, e)
<1>1. /\ ChainInv /\ known \subseteq Path /\ known \subseteq known' /\ view \in Path
      /\ toRemove \in [Caller -> SUBSET Tx]
  BY DEF LeavingInv, TypeInv, ChainInv, Trees, Records, Process
<1>2. Linear
  BY <1>1 DEF Linear
<1>3. /\ \A q \in known : Under(q, view)
      /\ \A t \in pool \cap TxsOf(view) : \E d \in Caller : t \in toRemove[d]
      /\ toRemove["net"] \subseteq TxsOf(view)
      /\ toRemove["me"] \subseteq TxsOf(view) \/ Immature(toRemove["me"], tipHeight + 1)
      /\ job = Idle /\ job.pc = "idle" /\ job.back = {}
      /\ tipHeight = Len(view) /\ Len(view) \in Nat
  <2>1. job = Idle
    BY <1>1, ProcessCases
  <2>2. tipHeight = Len(view) /\ tipHeight \in Nat
    BY <1>1, <2>1 DEF ChainInv, Applied, Records, Idle
  <2> QED BY <1>2, <2>1, <2>2 DEF LeavingInv, Unforked, Leaving, Idle
<1>4. UNCHANGED tipHeight /\ b \notin known
  BY <1>1, ProcessCases
<1>5. \/ /\ view' = b /\ known' = known \cup {b} /\ p = view
         /\ job' = [pc |-> "hash", by |-> c, target |-> b, back |-> {}]
         /\ UNCHANGED toRemove
      \/ /\ ~ Valid(e, view)
         /\ toRemove' = [toRemove EXCEPT ![c] = IF c = "me" THEN Evicted(e) ELSE @]
         /\ UNCHANGED <<view, known, job>>
  <2>1. known' = known \cup {b} => p = view
    BY <1>1, <1>3, <1>4, OffTipForks
  <2> HIDE DEF b
  <2> QED BY <1>1, <2>1, ProcessCases DEF b
<1>6. CASE /\ view' = b /\ known' = known \cup {b} /\ p = view
           /\ job' = [pc |-> "hash", by |-> c, target |-> b, back |-> {}]
           /\ UNCHANGED toRemove
  <2>1. \A q \in known' : Under(q, view')
    BY <1>1, <1>3, <1>4, <1>6, OffTipForks
  <2>2. /\ Len(b) = Len(view) + 1 /\ TxsOf(b) = TxsOf(view) \cup e.txs
        /\ Last(b) = e
    BY <1>1, <1>6, Extended
  <2> HIDE DEF b
  <2>3. job'.pc = "hash" /\ job'.back = {}
    BY <1>6
  <2>4. tipHeight' <= Len(view')
    BY <1>3, <1>4, <1>6, <2>2
  <2>5. \A t \in pool' \cap TxsOf(view') : Leaving(t)'
    BY <1>3, <1>6, <2>2, <2>3 DEF Leaving
  <2>6. toRemove'["me"] \subseteq TxsOf(view') \/ Immature(toRemove'["me"], tipHeight' + 1)
    BY <1>3, <1>4, <1>6, <2>2
  <2> QED BY <1>3, <1>6, <2>1, <2>2, <2>3, <2>4, <2>5, <2>6 DEF Unforked
<1>7. CASE /\ ~ Valid(e, view)
           /\ toRemove' = [toRemove EXCEPT ![c] = IF c = "me" THEN Evicted(e) ELSE @]
           /\ UNCHANGED <<view, known, job>>
  <2>1. toRemove'["net"] = toRemove["net"]
    BY <1>1, <1>7
  <2>2. toRemove'["me"] = IF c = "me" THEN Evicted(e) ELSE toRemove["me"]
    BY <1>1, <1>7 DEF Caller
  <2>3. Evicted(e) = {} \/ Immature(Evicted(e), tipHeight + 1)
    <3>1. SUFFICES ASSUME Evicted(e) # {} PROVE Immature(Evicted(e), tipHeight + 1)
      OBVIOUS
    <3>2. Evicted(e) = e.txs /\ SpendsValid(e, view) /\ MintValid(e, view)
      BY <3>1 DEF Evicted
    <3>3. ~ MatureIn(e, view)
      BY <1>7, <3>2 DEF Valid
    <3>4. PICK t \in e.txs : \E o \in Ins[t] : ~ Mature(o, Len(view) + 1)
      BY <3>3 DEF MatureIn
    <3>5. Len(view) + 1 \in 1..tipHeight + 1
      BY <1>3
    <3> QED BY <3>2, <3>4, <3>5 DEF Immature
  <2>4. toRemove'["me"] \subseteq TxsOf(view) \/ Immature(toRemove'["me"], tipHeight + 1)
    BY <1>3, <2>2, <2>3
  <2>5. \A t \in pool' \cap TxsOf(view') : Leaving(t)'
    <3>1. \A d \in Caller : toRemove[d] \subseteq toRemove'[d]
      BY <1>1, <2>1, <2>2 DEF Caller
    <3> QED BY <1>3, <1>7, <3>1 DEF Leaving
  <2> QED BY <1>3, <1>4, <1>7, <2>1, <2>4, <2>5 DEF Unforked
<1> QED BY <1>5, <1>6, <1>7

\* A transaction the chain has confirmed cannot be added again.
LEMMA InsertIsNew ==
  ASSUME NEW t, Insert(t)
  PROVE  t \notin TxsOf(view)
<1>1. Ins[t] \subseteq Utxo(view) /\ Ins[t] # {}
  BY StartAssumption DEF Insert
<1> QED BY <1>1 DEF Utxo

\* Steps of the pool, of the calls and of the reorganisation.
LEMMA OthersLeave ==
  ASSUME LeavingInv, Next, ~ Receive, ~ Produce, Linear'
  PROVE  Unforked'
<1>1. /\ ChainInv /\ view \in Path /\ Len(view) \in Nat /\ tipHeight \in Nat
      /\ toRemove \in [Caller -> SUBSET Tx] /\ job \in Jobs
  BY LenProperties DEF LeavingInv, TypeInv, ChainInv, Trees, Records, Path
<1>2. UNCHANGED known
  BY Zenon DEF Next, Submit, GiveBack, FinishAdd, Remove, Revert, Replay, SetHash, SetHeight,
               Return, Select, ReadSupply, BuildCoinbase, ReadTipHash, ReadHeight, chainVars
<1>3. Linear
  BY <1>2 DEF Linear
<1>4. /\ \A p \in known : Under(p, view)
      /\ job.pc \notin {"revert", "broken"} /\ job.back = {}
      /\ tipHeight <= Len(view)
      /\ \A t \in pool \cap TxsOf(view) : Leaving(t)
      /\ toRemove["net"] \subseteq TxsOf(view)
      /\ toRemove["me"] \subseteq TxsOf(view) \/ Immature(toRemove["me"], tipHeight + 1)
  BY <1>3 DEF LeavingInv, Unforked
<1>5. CASE UNCHANGED <<chainVars, toRemove>> /\ \A t \in pool' \cap TxsOf(view) : t \in pool
  <2>1. \A t \in pool' \cap TxsOf(view') : Leaving(t)'
    BY <1>4, <1>5 DEF Leaving, chainVars
  <2> QED BY <1>4, <1>5, <2>1 DEF Unforked, chainVars
<1>6. CASE FinishAdd
  BY <1>5, <1>6, InsertIsNew DEF FinishAdd, Insert
<1>7. CASE \E t \in Tx : Submit(t) \/ GiveBack(t)
  BY <1>4, <1>5, <1>7 DEF Submit, GiveBack
<1>8. CASE Select \/ ReadSupply \/ BuildCoinbase \/ ReadTipHash \/ ReadHeight
  <2>1. UNCHANGED <<chainVars, toRemove, pool>>
    BY <1>8, Zenon DEF Select, ReadSupply, BuildCoinbase, ReadTipHash, ReadHeight, poolVars
  <2> QED BY <1>5, <2>1
<1>9. ASSUME NEW c \in Caller, Remove(c) PROVE Unforked'
  <2>1. /\ pool' = pool \ toRemove[c] /\ UNCHANGED chainVars
        /\ toRemove' = [toRemove EXCEPT ![c] = {}]
    BY <1>9 DEF Remove
  <2>2. \A d \in Caller : toRemove'[d] = IF d = c THEN {} ELSE toRemove[d]
    BY <1>1, <2>1
  <2>3. \A t \in pool' \cap TxsOf(view') : Leaving(t)'
    BY <1>4, <2>1, <2>2 DEF Leaving, chainVars
  <2>4. toRemove'["net"] \subseteq TxsOf(view)
        /\ (toRemove'["me"] \subseteq TxsOf(view) \/ Immature(toRemove'["me"], tipHeight + 1))
    BY <1>4, <2>2 DEF Caller
  <2> QED BY <1>4, <2>1, <2>3, <2>4 DEF Unforked, chainVars
<1>10. CASE Revert \/ Replay
  BY <1>4, <1>10 DEF Revert, Replay
<1>11. CASE SetHash
  <2>1. /\ job' = [job EXCEPT !.pc = "height", !.back = job.back \ TxsOf(job.target)]
        /\ UNCHANGED <<pool, view, tipHeight, toRemove>> /\ job.pc = "hash"
    BY <1>4, <1>11 DEF SetHash, poolVars
  <2>2. job'.pc = "height" /\ job'.back = {}
    BY <1>1, <1>4, <2>1 DEF Jobs
  <2>3. \A t \in pool' \cap TxsOf(view') : Leaving(t)'
    BY <1>4, <2>1, <2>2 DEF Leaving
  <2> QED BY <1>2, <1>4, <2>1, <2>2, <2>3 DEF Unforked
<1>12. CASE SetHeight
  <2>1. /\ job' = [job EXCEPT !.pc = "return"] /\ job.pc = "height"
        /\ UNCHANGED <<pool, view, toRemove>> /\ tipHeight' = Len(view)
    BY <1>1, <1>12 DEF SetHeight, poolVars, ChainInv, Applied
  <2>2. job'.pc = "return" /\ job'.back = {}
    BY <1>1, <1>4, <2>1 DEF Jobs
  <2>3. \A t \in pool' \cap TxsOf(view') : Leaving(t)'
    BY <1>4, <2>1, <2>2 DEF Leaving
  <2>4. Immature(toRemove["me"], tipHeight + 1) => Immature(toRemove["me"], tipHeight' + 1)
    <3>1. /\ tipHeight + 1 \in Nat /\ tipHeight' + 1 \in Nat
          /\ tipHeight + 1 <= tipHeight' + 1
      BY <1>1, <1>4, <2>1
    <3> QED BY <3>1, ImmatureStays
  <2>5. tipHeight' <= Len(view')
    BY <1>1, <2>1
  <2>6. toRemove'["me"] \subseteq TxsOf(view') \/ Immature(toRemove'["me"], tipHeight' + 1)
    BY <1>4, <2>1, <2>4
  <2> QED BY <1>2, <1>4, <2>1, <2>2, <2>3, <2>5, <2>6 DEF Unforked
<1>13. CASE Return
  <2> DEFINE e == Last(job.target)
  <2>1. /\ job.pc = "return" /\ job' = Idle /\ view = job.target /\ view # <<>>
        /\ toRemove' = [toRemove EXCEPT ![job.by] = e.txs]
        /\ toRemove[job.by] = {} /\ job.by \in Caller
        /\ UNCHANGED <<pool, view, tipHeight>>
    BY <1>1, <1>13
       DEF Return, Confirmed, poolVars, ChainInv, Applied, LeavingInv, Turns, Jobs
  <2>2. e.txs \subseteq TxsOf(view) /\ e = Last(view)
    <3>1. view = Append(Parent(view), e) /\ Parent(view) \in Path /\ e \in Block
      <4>1. Len(view) - 1 \in 0..Len(view)
        BY <1>1, <2>1, Shortened
      <4> QED BY <1>1, <2>1, <4>1, Shortened, BeginningIs
    <3>2. TxsOf(view) = TxsOf(Parent(view)) \cup e.txs
      BY <3>1, Extended
    <3> QED BY <2>1, <3>2
  <2> HIDE DEF e
  <2>3. \A d \in Caller : toRemove'[d] = IF d = job.by THEN e.txs ELSE toRemove[d]
    BY <1>1, <2>1
  <2>4. job'.pc = "idle" /\ job'.back = {}
    BY <2>1 DEF Idle
  <2>5. \A t \in pool' \cap TxsOf(view') : Leaving(t)'
    <3> SUFFICES ASSUME NEW t \in pool \cap TxsOf(view) PROVE \E d \in Caller : t \in toRemove'[d]
      BY <2>1 DEF Leaving
    <3>1. CASE t \in e.txs
      BY <2>1, <2>3, <3>1
    <3>2. CASE \E d \in Caller : t \in toRemove[d]
      BY <2>1, <2>3, <3>2
    <3> QED BY <1>4, <2>2, <3>1, <3>2 DEF Leaving
  <2>6. toRemove'["net"] \subseteq TxsOf(view)
        /\ (toRemove'["me"] \subseteq TxsOf(view) \/ Immature(toRemove'["me"], tipHeight + 1))
    BY <1>4, <2>2, <2>3 DEF Caller
  <2> QED BY <1>2, <1>4, <2>1, <2>4, <2>5, <2>6 DEF Unforked
<1> QED
  BY <1>6, <1>7, <1>8, <1>9, <1>10, <1>11, <1>12, <1>13 DEF Next

LEMMA UnforkedStep ==
  ASSUME LeavingInv, Next
  PROVE  Unforked'
<1> SUFFICES ASSUME Linear' PROVE Unforked'
  BY DEF Unforked
<1>1. CASE ~ Receive /\ ~ Produce
  BY <1>1, OthersLeave
<1>2. CASE Receive
  BY <1>2, Blocks, ProcessLeaves DEF LeavingInv, TypeInv, Caller, poolVars
<1>3. CASE Produce
  <2>1. /\ toRemove["me"] = {} /\ miner.prev \in known /\ UNCHANGED pool
    BY <1>3 DEF Produce, LeavingInv, Turns, TypeInv, ChainInv, Trees, poolVars
  <2>2. CASE UNCHANGED <<chainVars, toRemove>>
    <3>1. Linear
      BY <2>2 DEF Linear, chainVars
    <3>2. \A t \in pool' \cap TxsOf(view') : Leaving(t)'
      BY <2>1, <2>2, <3>1 DEF LeavingInv, Unforked, Leaving, chainVars
    <3> QED BY <2>1, <2>2, <3>1, <3>2 DEF LeavingInv, Unforked, chainVars
  <2>3. ASSUME NEW e \in Block, Process("me", Append(miner.prev, e)) PROVE Unforked'
    BY <2>1, <2>3, ProcessLeaves DEF Caller
  <2> QED BY <1>3, <2>2, <2>3, Blocks DEF LeavingInv, TypeInv
<1> QED BY <1>1, <1>2, <1>3

\* What a goroutine is about to remove is gone before it prepares or hands in
\* its next block.
LEMMA TurnsStep ==
  ASSUME ChainInv, Turns, Next
  PROVE  Turns'
<1>1. job \in Jobs /\ toRemove \in [Caller -> SUBSET Tx] /\ miner \in Templates
  BY DEF ChainInv, Records
<1>2. ASSUME UNCHANGED <<job, toRemove>>, miner'.pc # "off" => miner.pc # "off" PROVE Turns'
  BY <1>2 DEF Turns
<1>3. CASE FinishAdd \/ (\E t \in Tx : Submit(t))
  BY <1>2, <1>3 DEF FinishAdd, Submit, chainVars
<1>4. CASE ReadSupply \/ BuildCoinbase \/ ReadTipHash \/ ReadHeight
  <2>1. UNCHANGED <<chainVars, toRemove>> /\ miner.pc # "off"
    BY <1>4 DEF ReadSupply, BuildCoinbase, ReadTipHash, ReadHeight
  <2> QED BY <1>2, <2>1 DEF chainVars
<1>5. CASE Select
  <2>1. /\ UNCHANGED <<chainVars, toRemove>> /\ toRemove["me"] = {}
        /\ ~ (job.pc # "idle" /\ job.by = "me")
    BY <1>5, Zenon DEF Select
  <2> QED BY <2>1 DEF Turns, chainVars
<1>6. ASSUME NEW t \in Tx, GiveBack(t) PROVE Turns'
  <2>1. job' = [job EXCEPT !.back = job.back \ {t}] /\ UNCHANGED <<toRemove, miner>>
    BY <1>6 DEF GiveBack
  <2> QED BY <1>1, <2>1 DEF Turns, Jobs
<1>7. CASE Revert \/ Replay \/ SetHash \/ SetHeight
  <2>1. /\ job'.by = job.by /\ UNCHANGED <<toRemove, miner>> /\ job.pc # "idle"
    BY <1>1, <1>7 DEF Revert, Replay, SetHash, SetHeight, Jobs
  <2> QED BY <2>1 DEF Turns
<1>8. ASSUME NEW c \in Caller, Remove(c) PROVE Turns'
  <2>1. UNCHANGED <<job, miner>> /\ toRemove' = [toRemove EXCEPT ![c] = {}]
    BY <1>8 DEF Remove, chainVars
  <2>2. \A d \in Caller : toRemove'[d] = IF d = c THEN {} ELSE toRemove[d]
    BY <1>1, <2>1
  <2> QED BY <1>1, <2>1, <2>2 DEF Turns, Jobs, Caller
<1>9. CASE Return
  <2>1. /\ job' = Idle /\ UNCHANGED miner /\ job.pc = "return" /\ job.by \in Caller
        /\ \E x : toRemove' = [toRemove EXCEPT ![job.by] = x]
    BY <1>1, <1>9 DEF Return, Jobs
  <2>2. \A d \in Caller : d # job.by => toRemove'[d] = toRemove[d]
    BY <1>1, <2>1
  <2>3. job'.pc = "idle"
    BY <2>1 DEF Idle
  <2> QED BY <2>1, <2>2, <2>3 DEF Turns, Caller
<1>10. ASSUME NEW c \in Caller, NEW p \in known, NEW e \in Block,
              Process(c, Append(p, e)), toRemove[c] = {},
              IF c = "me" THEN miner'.pc = "off" ELSE UNCHANGED miner
       PROVE  Turns'
  <2>1. \/ /\ job' = [pc |-> "hash", by |-> c, target |-> Append(p, e), back |-> {}]
           /\ UNCHANGED toRemove
        \/ /\ job' = [pc |-> "revert", by |-> c, target |-> Append(p, e), back |-> {}]
           /\ UNCHANGED toRemove
        \/ /\ UNCHANGED job /\ \E x : toRemove' = [toRemove EXCEPT ![c] = x]
    BY <1>10, ProcessCases
  <2>2. job.pc = "idle"
    BY <1>10, ProcessCases DEF Idle
  <2>3. CASE job'.by = c /\ UNCHANGED toRemove
    BY <1>10, <2>3 DEF Turns, Caller
  <2>4. CASE UNCHANGED job /\ \E x : toRemove' = [toRemove EXCEPT ![c] = x]
    <3>1. \A d \in Caller : d # c => toRemove'[d] = toRemove[d]
      BY <1>1, <2>4
    <3> QED BY <1>10, <2>2, <2>4, <3>1 DEF Turns, Caller
  <2> QED BY <2>1, <2>3, <2>4
<1>11. CASE Receive
  BY <1>10, <1>11, Blocks DEF Caller
<1>12. CASE Produce
  <2>1. toRemove["me"] = {} /\ miner' = Off /\ miner'.pc = "off" /\ miner.prev \in known
    BY <1>12 DEF Produce, Turns, Off, ChainInv, Trees
  <2>2. CASE UNCHANGED <<chainVars, toRemove>>
    BY <1>2, <2>1, <2>2 DEF chainVars
  <2>3. CASE \E e \in Block : Process("me", Append(miner.prev, e))
    BY <1>10, <2>1, <2>3 DEF Caller
  <2> QED BY <1>12, <2>2, <2>3, Blocks
<1> QED
  BY <1>3, <1>4, <1>5, <1>6, <1>7, <1>8, <1>9, <1>11, <1>12 DEF Next

\* The pool never exceeds its capacity: one goes for one that comes.
LEMMA CapacityStep ==
  ASSUME TypeInv, Capacity, Next
  PROVE  /\ Capacity'
         /\ \A t \in pool \ pool' : FinishAdd => Cardinality(pool') = MaxSize
<1>1. ASSUME FinishAdd, Insert(adding.tx)
      PROVE  Capacity' /\ \A t \in pool \ pool' : Cardinality(pool') = MaxSize
  <2> DEFINE t == adding.tx
  <2>1. t \notin pool
    BY <1>1 DEF FinishAdd, TypeInv, IndexInv, AddHolds
  <2>2. PICK out \in IF Cardinality(pool) < MaxSize THEN {{}}
                     ELSE {{u} : u \in {v \in pool : Lowest(v) /\ Rate[t] > Rate[v]}} :
          pool' = (pool \ out) \cup {t}
    BY <1>1 DEF Insert
  <2>3. IsFiniteSet(pool) /\ Cardinality(pool) \in Nat /\ Cardinality(pool) <= MaxSize
        /\ MaxSize \in Nat
    BY BoundAssumption, FS_CardinalityType DEF Capacity
  <2>4. CASE out = {} /\ Cardinality(pool) < MaxSize
    <3>1. pool' = pool \cup {t}
      BY <2>2, <2>4
    <3>2. IsFiniteSet(pool') /\ Cardinality(pool') = Cardinality(pool) + 1
      BY <2>1, <2>3, <3>1, FS_AddElement
    <3> QED BY <2>3, <2>4, <3>1, <3>2 DEF Capacity
  <2>5. ASSUME NEW u \in pool, out = {u}, Cardinality(pool) >= MaxSize
        PROVE  Capacity' /\ Cardinality(pool') = MaxSize
    <3>1. IsFiniteSet(pool \ {u}) /\ Cardinality(pool \ {u}) = Cardinality(pool) - 1
      BY <2>3, FS_RemoveElement
    <3>2. pool' = (pool \ {u}) \cup {t} /\ t \notin pool \ {u}
      BY <2>1, <2>2, <2>5
    <3>3. IsFiniteSet(pool') /\ Cardinality(pool') = Cardinality(pool \ {u}) + 1
      BY <3>1, <3>2, FS_AddElement
    <3> QED BY <2>3, <2>5, <3>1, <3>3 DEF Capacity
  <2> QED BY <2>2, <2>3, <2>4, <2>5
<1>2. ASSUME NEW c \in Caller, Remove(c) PROVE Capacity' /\ ~ FinishAdd
  <2>1. pool' \subseteq pool /\ adding = Free
    BY <1>2 DEF Remove
  <2>2. IsFiniteSet(pool') /\ Cardinality(pool') <= Cardinality(pool)
    BY <2>1, FS_Subset DEF Capacity
  <2>3. Cardinality(pool) \in Nat /\ Cardinality(pool') \in Nat /\ MaxSize \in Nat
    BY <2>2, BoundAssumption, FS_CardinalityType DEF Capacity
  <2> QED BY <2>1, <2>2, <2>3 DEF Capacity, FinishAdd
<1>3. CASE UNCHANGED pool
  BY <1>3 DEF Capacity
<1>4. ASSUME Receive \/ Revert \/ Replay \/ SetHash \/ SetHeight \/ Return \/ Select
             \/ ReadSupply \/ BuildCoinbase \/ ReadTipHash \/ ReadHeight \/ Produce
      PROVE  UNCHANGED poolVars
  BY <1>4, Zenon DEF Receive, Revert, Replay, SetHash, SetHeight, Return, Select, ReadSupply,
              BuildCoinbase, ReadTipHash, ReadHeight, Produce
<1>5. CASE \E t \in Tx : Submit(t) \/ GiveBack(t)
  BY <1>3, <1>5 DEF Submit, GiveBack
<1> QED BY <1>1, <1>2, <1>3, <1>4, <1>5 DEF Next, FinishAdd, poolVars

LEMMA LeavingStep ==
  ASSUME LeavingInv, [Next]_vars
  PROVE  LeavingInv'
<1>1. CASE Next
  <2>1. TypeInv'
    BY <1>1, TypeStep DEF LeavingInv
  <2>2. Turns' /\ Unforked' /\ Capacity'
    BY <1>1, TurnsStep, UnforkedStep, CapacityStep DEF LeavingInv, TypeInv
  <2> QED BY <2>1, <2>2 DEF LeavingInv
<1>2. CASE UNCHANGED vars
  <2>1. TypeInv'
    BY <1>2, TypeStep DEF LeavingInv
  <2>2. UNCHANGED <<pool, known, view, tipHeight, job, toRemove, miner>>
    BY <1>2 DEF vars, poolVars, chainVars
  <2>3. Linear' => Linear
    BY <2>2 DEF Linear
  <2>4. \A t : Leaving(t) => Leaving(t)'
    BY <2>2 DEF Leaving
  <2>5. Unforked'
    BY <2>2, <2>3, <2>4 DEF LeavingInv, Unforked
  <2>6. Turns' /\ Capacity'
    BY <2>2 DEF LeavingInv, Turns, Capacity
  <2> QED BY <2>1, <2>5, <2>6 DEF LeavingInv
<1> QED BY <1>1, <1>2

LEMMA LeavingStart ==
  ASSUME Init
  PROVE  LeavingInv
<1>1. TypeInv
  BY TypeStart
<1>2. <<>> \in Path /\ Len(<<>>) = 0
  BY EmptySeq DEF Path
<1>3. Under(<<>>, <<>>)
  BY <1>2, StartUnder
<1>4. Unforked
  BY <1>2, <1>3 DEF Init, Unforked, Idle, Caller
<1>5. Turns
  BY DEF Init, Turns, Idle, Off
<1>6. Capacity
  BY BoundAssumption, FS_EmptySet DEF Init, Capacity
<1> QED BY <1>1, <1>4, <1>5, <1>6 DEF LeavingInv

\* Without forks, no confirmed transaction stays in the pool once the callers
\* of ProcessBlock are done with it.
THEOREM ConfirmedLeavesAlways == Spec => []ConfirmedLeaves
<1>1. LeavingInv => ConfirmedLeaves
  <2> SUFFICES ASSUME LeavingInv, Linear, Settled PROVE pool \cap TxsOf(tipHash) = {}
    BY DEF ConfirmedLeaves
  <2>1. job.pc = "idle" /\ \A c \in Caller : toRemove[c] = {}
    BY DEF Settled, Idle
  <2>2. view = tipHash
    BY <2>1 DEF LeavingInv, TypeInv, ChainInv, Applied
  <2> QED BY <2>1, <2>2 DEF LeavingInv, Unforked, Leaving
<1> QED BY <1>1, LeavingStart, LeavingStep, PTL DEF Spec

\* As long as the node has stored no fork, a transaction leaves the pool only
\* for one of three reasons: it was confirmed, a better paying one needed its
\* place, or an own block with an immature spend was refused.
THEOREM UnforkedSurviveAlways == Spec => UnforkedSurvive
<1>1. ASSUME LeavingInv, Next, Linear, NEW t \in pool \ pool' PROVE Accounted(t)
  <2>1. CASE FinishAdd
    BY <1>1, <2>1, CapacityStep DEF LeavingInv, Accounted
  <2>2. ASSUME NEW c \in Caller, Remove(c) PROVE Accounted(t)
    <3>1. t \in toRemove[c]
      BY <1>1, <2>2 DEF Remove
    <3>2. /\ toRemove["net"] \subseteq TxsOf(view)
          /\ toRemove["me"] \subseteq TxsOf(view) \/ Immature(toRemove["me"], tipHeight + 1)
      BY <1>1 DEF LeavingInv, Unforked
    <3> QED BY <3>1, <3>2 DEF Caller, Accounted
  <2>3. ASSUME Receive \/ Revert \/ Replay \/ SetHash \/ SetHeight \/ Return \/ Select
               \/ ReadSupply \/ BuildCoinbase \/ ReadTipHash \/ ReadHeight \/ Produce
        PROVE  UNCHANGED poolVars
    BY <2>3, Zenon DEF Receive, Revert, Replay, SetHash, SetHeight, Return, Select, ReadSupply,
                BuildCoinbase, ReadTipHash, ReadHeight, Produce
  <2>4. CASE \E u \in Tx : Submit(u) \/ GiveBack(u)
    BY <1>1, <2>4 DEF Submit, GiveBack
  <2> QED BY <1>1, <2>1, <2>2, <2>3, <2>4 DEF Next, poolVars
<1>2. LeavingInv /\ [Next]_vars => [Linear => \A t \in pool \ pool' : Accounted(t)]_vars
  BY <1>1
<1> QED BY <1>2, LeavingStart, LeavingStep, PTL DEF Spec, UnforkedSurvive
=============================================================================
