------------------------------ MODULE History ------------------------------
(***************************************************************************)
(* The persistent index behind wallet_getHistory: entries of the wallet's  *)
(* transactions by height and position, and a meta record with the last    *)
(* indexed height and a count. A query reads the chain's height, rolls the *)
(* index back when it is above, indexes the blocks that are new and then   *)
(* lists every entry. The chain grows and reorganises meanwhile: a reorg   *)
(* rewrites the height index block by block and its height last, and       *)
(* leaves old blocks above a lower tip. A crash ends a query between any   *)
(* two writes. One that interrupts a reorg leaves the chain of a reorg to  *)
(* a shorter branch, which Reorg covers.                                   *)
(***************************************************************************)
EXTENDS Integers, Sequences, FiniteSets, FiniteSetsExt

CONSTANTS
  Client,     \* clients that ask for the history of the one wallet
  Mine,       \* the wallet's addresses
  Tx,         \* by name: [coinbase, ins: set of [from, addr], outs: sequence of
              \*           [script, addr, value, token]]
  Block,      \* sequences of names: what blocks contain
  MaxHeight, MaxReorgs, MaxCrashes   \* bounds

ASSUME BoundAssumption == {MaxHeight, MaxReorgs, MaxCrashes} \subseteq Nat

\* The name for no address.
ASSUME AddressAssumption == "none" \notin Mine

\* What a transaction and a block that were accepted look like: an output has
\* a value or a token, and a block has a transaction once.
ASSUME TxAssumption ==
  \A x \in DOMAIN Tx :
    /\ Tx[x].coinbase => Tx[x].ins = {}
    /\ IsFiniteSet(Tx[x].ins)
    /\ Len(Tx[x].outs) \in Nat /\ DOMAIN Tx[x].outs = 1..Len(Tx[x].outs)
    /\ \A i \in DOMAIN Tx[x].outs :
         LET o == Tx[x].outs[i]
         IN {o.value, o.token} \subseteq Nat /\ (o.value = 0 => o.token > 0)
ASSUME BlockAssumption ==
  \A b \in Block :
    /\ Len(b) \in Nat /\ DOMAIN b = 1..Len(b)
    /\ \A i \in DOMAIN b : b[i] \in DOMAIN Tx
    /\ \A i, j \in DOMAIN b : b[i] = b[j] => i = j

VARIABLES
  byHeight,   \* the height index of the block store
  height,     \* the height of the chain's state, read without a lock
  pending,    \* rest of the branch a reorg replays
  located,    \* transactions the transaction index finds
  stable,     \* lowest height a reorg has forked from: blocks up to it never changed
  index,      \* entries: [h, i, tx, type, amount, fee, to]
  meta,       \* [last, count]
  q,          \* per client: its query
  reorgs, crashes

chainVars == <<byHeight, height, pending, located, stable, reorgs>>
vars == <<chainVars, index, meta, q, crashes>>

-----------------------------------------------------------------------------
(* classifyTx: what an entry says of a transaction.                         *)

Ours(t)   == IF t.coinbase THEN {} ELSE {n \in t.ins : n.addr \in Mine}
Has(t, s) == \E i \in DOMAIN t.outs : t.outs[i].script = s
Outs(t)   == {t.outs[i] : i \in DOMAIN t.outs}
Total(t, outs) ==
  LET of == [i \in 1..Len(t.outs) |-> IF t.outs[i] \in outs THEN t.outs[i].value ELSE 0]
      sum[i \in 0..Len(t.outs)] == IF i = 0 THEN 0 ELSE sum[i - 1] + of[i]
  IN sum[Len(t.outs)]
IsOurs(o)   == o.script = "p2pkh" /\ o.addr \in Mine
OurPlain(o) == o.token = 0 /\ IsOurs(o)
Plain(o)    == o.token = 0 /\ ~IsOurs(o)
Spent(n)    == Tx[n.from[1]].outs[n.from[2]]
InputSum(ins) == MapThenSumSet(LAMBDA n : Spent(n).value, ins)
Fee(t, found) ==
  LET in  == InputSum({n \in Ours(t) : n.from[1] \in found})
      out == Total(t, Outs(t))
  IN IF in > out THEN in - out ELSE 0

\* All outputs ours: the first one to an address that is not an input's.
SelfSend(t) ==
  LET new == {i \in DOMAIN t.outs : t.outs[i].script = "p2pkh"
                                    /\ \A n \in t.ins : n.addr # t.outs[i].addr}
  IN IF new = {} THEN [amount |-> 0, to |-> "none"]
     ELSE LET o == t.outs[Min(new)] IN [amount |-> o.value, to |-> o.addr]
FirstOther(t) ==
  LET pay == {i \in DOMAIN t.outs : Plain(t.outs[i]) /\ t.outs[i].script = "p2pkh"}
  IN IF pay = {} THEN "none" ELSE t.outs[Min(pay)].addr

Says(type, amount, fee, to) == [type |-> type, amount |-> amount, fee |-> fee, to |-> to]
NotOurs == Says("none", 0, 0, "none")

\* The cases of the switch in their order; the first that holds decides.
Cases(t, found) ==
  LET ours    == Ours(t) # {}
      fee     == Fee(t, found)
      kept    == Total(t, {o \in Outs(t) : OurPlain(o)})
      sent    == Total(t, {o \in Outs(t) : Plain(o)})
      Sum(s)  == Total(t, {o \in Outs(t) : o.script = s})
      token   == {i \in DOMAIN t.outs : t.outs[i].token > 0}
      unstake == \E n \in t.ins : n.from[1] \in found /\ Spent(n).script = "stake"
  IN << [on |-> t.coinbase /\ kept > 0,      says |-> Says("mined", kept, 0, "none")],
        [on |-> Has(t, "stake") /\ ours,     says |-> Says("staked", Sum("stake"), fee, "none")],
        [on |-> unstake /\ ours,             says |-> Says("unstaked", kept, fee, "none")],
        [on |-> Has(t, "register") /\ ours,  says |-> Says("register", Sum("register"), fee, "none")],
        [on |-> Has(t, "mint") /\ ours,      says |-> Says("mint", fee, fee, "none")],
        [on |-> ours /\ token # {},          says |-> Says("token_sent", fee, fee, "none")],
        [on |-> ours /\ sent > 0,            says |-> Says("sent", sent, fee, FirstOther(t))],
        [on |-> ours,                        says |-> Says("sent", SelfSend(t).amount, fee, SelfSend(t).to)],
        [on |-> \E i \in token : IsOurs(t.outs[i]), says |-> Says("token_received", kept, 0, "none")],
        [on |-> kept > 0,                    says |-> Says("received", kept, 0, "none")],
        [on |-> TRUE,                        says |-> NotOurs] >>
Classify_StakeLast(t, found) ==
  LET c == [Cases(t, found) EXCEPT ![3].on = FALSE]
  IN c[Min({i \in DOMAIN c : c[i].on})].says
Classify(t, found) ==
  LET c == Cases(t, found) IN c[Min({i \in DOMAIN c : c[i].on})].says

-----------------------------------------------------------------------------
(* The chain, as the queries see it. A block spends what blocks below it    *)
(* created and nothing spent, once.                                         *)

TxsOf(b)      == {b[i] : i \in DOMAIN b}
Confirmed(n)  == UNION {TxsOf(byHeight[h]) : h \in 0..n}
SpentBy(names) == {n.from : n \in UNION {Tx[x].ins : x \in names}}
Fits(b, done) ==
  /\ TxsOf(b) \cap done = {}
  /\ \A m \in UNION {Tx[x].ins : x \in TxsOf(b)} :
       m.from[1] \in DOMAIN Tx => m.from[1] \in done \cup TxsOf(b) /\ m.from \notin SpentBy(done)
  /\ \A x, y \in TxsOf(b) : x # y => SpentBy({x}) \cap SpentBy({y}) = {}

Fresh == [last |-> 0, count |-> 0]
Idle  == [pc |-> "idle"]
Init ==
  /\ byHeight = [h \in {0} |-> <<>>] /\ height = 0
  /\ pending = <<>> /\ located = {} /\ stable = MaxHeight
  /\ index = {} /\ meta = Fresh
  /\ q = [c \in Client |-> Idle]
  /\ reorgs = 0 /\ crashes = 0

SetBlock(n, b) == byHeight' = [h \in DOMAIN byHeight \cup {n} |-> IF h = n THEN b ELSE byHeight[h]]

\* CommitBlock, then the height in memory.
Extend ==
  /\ pending = <<>> /\ height < MaxHeight
  /\ \E b \in Block :
       /\ Fits(b, located)
       /\ SetBlock(height + 1, b) /\ height' = height + 1 /\ located' = located \cup TxsOf(b)
  /\ UNCHANGED <<pending, stable, reorgs, index, meta, q, crashes>>

\* A reorg first removes the undone transactions from the index, then
\* commits the branch, then sets the height.
Reorg ==
  /\ pending = <<>> /\ reorgs < MaxReorgs
  /\ \E f \in 0..height - 1, b \in Block :
       /\ b # byHeight[f + 1] /\ Fits(b, Confirmed(f))
       /\ pending' = <<f + 1, b>>
       /\ located' = Confirmed(f)
       /\ stable' = Min({stable, f})
  /\ reorgs' = reorgs + 1
  /\ UNCHANGED <<byHeight, height, index, meta, q, crashes>>
Replay ==
  /\ pending # <<>>
  /\ SetBlock(pending[1], pending[2])
  /\ located' = located \cup TxsOf(pending[2])
  /\ \/ /\ pending' = <<>> /\ height' = pending[1]
     \/ /\ pending[1] < MaxHeight
        /\ \E b \in Block :
             /\ Fits(b, located \cup TxsOf(pending[2]))
             /\ pending' = <<pending[1] + 1, b>>
        /\ UNCHANGED height
  /\ UNCHANGED <<stable, reorgs, index, meta, q, crashes>>

-----------------------------------------------------------------------------
(* A query. set replaces its local state; the puts and deletes are single.  *)

Step(c, pc, loc) == /\ q[c].pc = pc /\ q' = [q EXCEPT ![c] = loc]
After(s, last)   == IF s.count = 0 THEN 0 ELSE last + 1
ToIndex(s, last) == IF After(s, last) <= s.tip
                    THEN [pc |-> "open", tip |-> s.tip, next |-> After(s, last)]
                    ELSE [pc |-> "list", tip |-> s.tip]

ReadTip(c) ==
  /\ Step(c, "idle", [pc |-> "meta", tip |-> height])
  /\ UNCHANGED <<chainVars, index, meta, crashes>>
ReadMeta(c) ==
  LET s == [tip |-> q[c].tip, count |-> meta.count]
  IN /\ Step(c, "meta",
          IF meta.count > 0 /\ s.tip < meta.last
          THEN [pc |-> "collect", tip |-> s.tip, count |-> meta.count]
          ELSE ToIndex(s, meta.last))
     /\ UNCHANGED <<chainVars, index, meta, crashes>>

\* DeleteAbove: the keys, their deletion one by one, then the meta record,
\* which stays when there was nothing to delete.
Above(tip) == {e \in index : e.h > tip}
Collect(c) ==
  LET s == q[c]
  IN /\ Step(c, "collect",
          IF Above(s.tip) = {} THEN ToIndex(s, s.tip)
          ELSE [pc |-> "delete", tip |-> s.tip, count |-> s.count,
                del |-> Above(s.tip), n |-> Cardinality(Above(s.tip))])
     /\ UNCHANGED <<chainVars, index, meta, crashes>>
DeleteEntry(c) ==
  /\ q[c].pc = "delete"
  /\ \E e \in q[c].del :
       /\ \A d \in q[c].del : d.h < e.h \/ (d.h = e.h /\ d.i >= e.i)
       /\ index' = {d \in index : <<d.h, d.i>> # <<e.h, e.i>>}
       /\ Step(c, "delete", [q[c] EXCEPT !.del = @ \ {e}])
  /\ UNCHANGED <<chainVars, meta, crashes>>
RolledBack(c) ==
  /\ q[c].pc = "delete" /\ q[c].del = {}
  /\ meta' = [last |-> q[c].tip, count |-> Max({0, meta.count - q[c].n})]
  /\ Step(c, "delete", ToIndex(q[c], q[c].tip))
  /\ UNCHANGED <<chainVars, index, crashes>>

\* IndexBlocks: meta once more, then block by block; a height without a
\* block is skipped, and an entry replaces the one with its key.
Open_MetaFirst(c) ==
  /\ Step(c, "open", [pc |-> "block", tip |-> q[c].tip, next |-> q[c].next, got |-> meta, n |-> 0,
                      puts |-> {}])
  /\ meta' = [meta EXCEPT !.last = q[c].tip, !.count = @ + 1]
  /\ UNCHANGED <<chainVars, index, crashes>>
Open(c) ==
  /\ Step(c, "open", [pc |-> "block", tip |-> q[c].tip, next |-> q[c].next, got |-> meta, n |-> 0,
                      puts |-> {}])
  /\ UNCHANGED <<chainVars, index, meta, crashes>>
EntriesOf(h) ==
  LET b   == byHeight[h]
      say == [k \in DOMAIN b |-> Classify(Tx[b[k]], located)]
      own == {k \in DOMAIN b : say[k] # NotOurs}
  IN {[h |-> h, i |-> Cardinality({j \in own : j < k}), tx |-> b[k], type |-> say[k].type,
       amount |-> say[k].amount, fee |-> say[k].fee, to |-> say[k].to] : k \in own}
ReadBlock(c) ==
  LET s == q[c]
      new == IF s.next \in DOMAIN byHeight THEN EntriesOf(s.next) ELSE {}
  IN /\ s.pc = "block" /\ s.next <= s.tip /\ s.puts = {}
     /\ Step(c, "block", [s EXCEPT !.next = @ + 1, !.n = @ + Cardinality(new),
                                   !.puts = new])
     /\ UNCHANGED <<chainVars, index, meta, crashes>>
PutEntry(c) ==
  /\ q[c].pc = "block"
  /\ \E e \in q[c].puts :
       /\ \A d \in q[c].puts : e.i <= d.i
       /\ index' = {d \in index : <<d.h, d.i>> # <<e.h, e.i>>} \cup {e}
       /\ Step(c, "block", [q[c] EXCEPT !.puts = @ \ {e}])
  /\ UNCHANGED <<chainVars, meta, crashes>>
Indexed(c) ==
  LET s == q[c]
  IN /\ s.pc = "block" /\ s.next > s.tip /\ s.puts = {}
     /\ meta' = [last |-> s.tip, count |-> s.got.count + s.n]
     /\ Step(c, "block", [pc |-> "list", tip |-> s.tip])
     /\ UNCHANGED <<chainVars, index, crashes>>

\* Query, and the answer.
List(c) ==
  /\ Step(c, "list", Idle)
  /\ UNCHANGED <<chainVars, index, meta, crashes>>

Crash ==
  /\ pending = <<>> /\ crashes < MaxCrashes
  /\ q' = [c \in Client |-> Idle] /\ crashes' = crashes + 1
  /\ UNCHANGED <<chainVars, index, meta>>

Query(c) ==
  \/ ReadTip(c) \/ ReadMeta(c)
  \/ Collect(c) \/ DeleteEntry(c) \/ RolledBack(c)
  \/ Open(c) \/ ReadBlock(c) \/ PutEntry(c) \/ Indexed(c)
  \/ List(c)
Next == Extend \/ Reorg \/ Replay \/ Crash \/ \E c \in Client : Query(c)
Spec == Init /\ [][Next]_vars

-----------------------------------------------------------------------------
(* Properties.                                                              *)

\* What the ledger says, without classifyTx: the transactions that spend or
\* pay the wallet, and what it can spend, at a height.
Touches(x) ==
  \/ \E n \in Tx[x].ins : n.addr \in Mine
  \/ \E i \in DOMAIN Tx[x].outs : IsOurs(Tx[x].outs[i])
Due(n) == {d \in (0..n) \X DOMAIN Tx : d[2] \in TxsOf(byHeight[d[1]]) /\ Touches(d[2])}
OurCoins(names) ==
  UNION {{<<x, i>> : i \in {i \in DOMAIN Tx[x].outs : IsOurs(Tx[x].outs[i])}} : x \in names}
CoinSum(us) == MapThenSumSet(LAMBDA u : Tx[u[1]].outs[u[2]].value, us)
Balance(n)  == CoinSum(OurCoins(Confirmed(n)) \ SpentBy(Confirmed(n)))
Effect(e) ==
  CASE e.type \in {"mined", "received", "token_received", "unstaked"} -> e.amount
    [] e.type \in {"mint", "token_sent"} -> -e.fee
    [] e.type = "sent" /\ (e.to \in Mine \/ e.amount = 0) -> -e.fee
    [] OTHER -> -(e.amount + e.fee)
Answers(c) == q[c].pc = "list"
Listed(n) == {e \in index : e.h <= n}
Reported(es) == {<<e.h, e.tx>> : e \in es}

\* An answer has each of the wallet's transactions in the blocks that no
\* reorg replaced, up to the height the query read, once and at its height:
\* whatever was interrupted, rolled back or mined meanwhile
\* (getHistoryIndexed, IndexBlocks, DeleteAbove).
StableHistory ==
  \A c \in Client : Answers(c) =>
    /\ Reported(Listed(stable)) = Due(Min({q[c].tip, stable}))
    /\ Cardinality(Listed(stable)) = Cardinality(Due(Min({q[c].tip, stable})))

\* What the ledger accepts, and what the wallet's handlers make: inputs that
\* name the coins they spend, tokens without a value, and if the wallet spends,
\* nobody else does, and it takes back stakes or pays from its plain coins: with
\* no more than it spends, and to others or for a stake or for a registration
\* or for a token, but not for two of these.
Ordinary(x) ==
  LET t == Tx[x]
  IN /\ \A n \in t.ins :
          IF n.from[1] \in DOMAIN Tx
          THEN /\ n.from = <<n.from[1], n.from[2]>> /\ n.from[2] \in DOMAIN Tx[n.from[1]].outs
               /\ n.addr = Spent(n).addr
          ELSE n.addr \notin Mine
     /\ \A m, n \in t.ins : m.from = n.from => m = n
     /\ \A o \in Outs(t) : o.token > 0 => o.value = 0
     /\ Ours(t) # {} =>
          /\ Ours(t) = t.ins
          /\ \/ ~ Has(t, "stake") /\ \A n \in t.ins : Spent(n).script = "stake"
             \/ /\ \A n \in t.ins : IsOurs(Spent(n)) \/ (Spent(n).value = 0 /\ Spent(n).script # "stake")
                /\ InputSum(t.ins) >= Total(t, Outs(t))
                /\ \A o \in Outs(t) :
                     \/ o.value = 0 \/ IsOurs(o)
                     \/ o.script = "stake"
                     \/ o.script = "register" /\ ~ Has(t, "stake")
                     \/ /\ \A s \in {"stake", "register", "mint"} : ~ Has(t, s)
                        /\ \A p \in Outs(t) : p.token = 0

\* The amounts and fees of those entries add up to what the wallet can spend
\* (classifyTx: change, self-sends, stakes and their return, tokens).
HistoryExplainsBalance ==
  \A c \in Client : Answers(c) =>
    LET n == Min({q[c].tip, stable})
    IN MapThenSumSet(Effect, Listed(n)) = Balance(n)

=============================================================================
