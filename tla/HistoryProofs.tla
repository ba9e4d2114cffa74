---------------------------- MODULE HistoryProofs ----------------------------
(***************************************************************************)
(* What an answer of wallet_getHistory has of the blocks that stay, and    *)
(* what its amounts and fees add up to: for every wallet, every set of     *)
(* transactions and blocks, any number of reorgs and of crashes between    *)
(* any two writes, and one query at a time.                                *)
(*                                                                         *)
(* The index is rolled back only when a query reads a lower height than    *)
(* the record holds.  The argument is that then a reorg has forked off     *)
(* below that height, so nothing is deleted of the blocks that stay, and   *)
(* that all else, an interrupted query included, only adds to them.        *)
(*                                                                         *)
(* The sum: an entry says what its transaction gives to the wallet less    *)
(* what it takes, case by case of classifyTx; a transaction is in one      *)
(* block and a coin is spent once; so over the entries of an answer only   *)
(* the coins that are left remain.                                         *)
(***************************************************************************)
EXTENDS History, FiniteSetTheorems, WellFoundedInduction, TLAPS

\* The positions of the wallet's transactions in a block, and their order.
Own(b)     == {k \in DOMAIN b : Touches(b[k])}
Rank(b, k) == Cardinality({j \in Own(b) : j < k})

\* An entry that says what the chain has at its height.
Placed(e) ==
  \E k \in Own(byHeight[e.h]) :
    e.tx = byHeight[e.h][k] /\ e.i = Rank(byHeight[e.h], k)

\* Blocks up to stable stay.
Chains ==
  /\ height \in 0..MaxHeight /\ stable \in 0..MaxHeight
  /\ stable < height \/ stable = MaxHeight
  /\ 0..height \subseteq DOMAIN byHeight
  /\ \A h \in DOMAIN byHeight : byHeight[h] \in Block \cup {<<>>}
  /\ pending # <<>> =>
       /\ pending[1] \in stable + 1..MaxHeight /\ pending[2] \in Block
       /\ 0..pending[1] - 1 \subseteq DOMAIN byHeight

Entries ==
  /\ IsFiniteSet(index)
  /\ \A e \in index : e.h \in 0..MaxHeight /\ (e.h <= stable => e.h <= height /\ Placed(e))
  /\ \A d, e \in index : d.h = e.h /\ d.i = e.i => d = e

\* The entries es have all of height h; the index has all up to n that stays.
Have(es, h) ==
  \A k \in Own(byHeight[h]) : \E e \in es : e.h = h /\ e.tx = byHeight[h][k]
Full(es, n) == \A h \in 0..n : h <= stable => Have(es, h)

Recorded ==
  /\ meta.last \in 0..MaxHeight /\ meta.count \in Nat
  /\ stable = MaxHeight => meta.last <= height
  /\ meta.count > 0 => Full(index, meta.last)

\* A height that was read: what is above it will not stay.
Current(n) ==
  /\ n \in 0..MaxHeight
  /\ stable = MaxHeight => n <= height
  /\ n < meta.last => stable < n
  /\ \A e \in index : n < e.h => stable < n

IsDeleting(s) ==
  /\ s = [pc |-> s.pc, tip |-> s.tip, count |-> s.count, del |-> s.del, n |-> s.n]
  /\ s.n \in Nat /\ \A e \in s.del : e.h \in Nat /\ s.tip < e.h

IsIndexing(s) ==
  /\ s = [pc |-> s.pc, tip |-> s.tip, next |-> s.next, got |-> s.got, n |-> s.n, puts |-> s.puts]
  /\ s.next \in 0..s.tip + 1 /\ s.n \in Nat /\ s.got.count \in Nat
  /\ \A e \in s.puts : e.h = s.next - 1 /\ e.h \in Nat /\ (e.h <= stable => Placed(e))
  /\ Full(index \cup s.puts, s.next - 1)

Asks(s) ==
  /\ s.pc \in {"idle", "meta", "collect", "delete", "open", "block", "list"}
  /\ s.pc # "idle" => Current(s.tip)
  /\ s.pc \in {"collect", "delete"} =>
       s.count \in Nat /\ s.count > 0 /\ meta.count > 0 /\ s.tip < meta.last
  /\ s.pc = "delete" => IsDeleting(s)
  /\ s.pc = "open"   => s.next \in 0..s.tip /\ Full(index, s.next - 1)
  /\ s.pc = "block"  => IsIndexing(s)
  /\ s.pc = "list"   => Full(index, s.tip)

HistoryInv ==
  /\ Chains /\ Entries /\ Recorded
  /\ q = [c \in Client |-> q[c]]
  /\ \A c \in Client : Asks(q[c])

-----------------------------------------------------------------------------
(* Numbers: the least of a set, and sums over positions.                    *)

LEMMA LeastExists ==
  ASSUME NEW S \in SUBSET Nat, IsFiniteSet(S), S # {}
  PROVE  \E x \in S : \A y \in S : x <= y
<1> DEFINE below(x) == {y \in S : y < x}
           T == {below(x) : x \in S}
           R == StrictSubsetOrdering(S)
<1>1. T # {} /\ T \subseteq FiniteSubsetsOf(S)
  <2>1. ASSUME NEW x \in S PROVE below(x) \in SUBSET S /\ IsFiniteSet(below(x))
    <3>1. below(x) \in SUBSET S
      OBVIOUS
    <3> HIDE DEF below
    <3> QED BY <3>1, FS_Subset
  <2> HIDE DEF below
  <2> QED BY <2>1 DEF FiniteSubsetsOf
<1>2. IsWellFoundedOn(R, FiniteSubsetsOf(S))
  BY FS_StrictSubsetOrderingWellFounded
<1>3. PICK t \in T : \A u \in T : ~ (<<u, t>> \in R)
  <2> HIDE DEF T, R
  <2> QED BY <1>1, <1>2, WFMin
<1>4. PICK x \in S : t = below(x)
  OBVIOUS
<1>5. ASSUME NEW y \in S, y < x PROVE FALSE
  <2>1. below(y) \subseteq below(x) /\ below(y) # below(x)
    <3>1. \A z \in S : z < y => z < x
      BY <1>5
    <3>2. y \in below(x) /\ y \notin below(y)
      BY <1>5
    <3> QED BY <3>1, <3>2
  <2>2. below(y) \in T
    OBVIOUS
  <2>3. <<below(y), below(x)>> \in R
    <3>1. below(y) \in SUBSET S /\ below(x) \in SUBSET S
      OBVIOUS
    <3> HIDE DEF below
    <3> QED BY <2>1, <3>1 DEF StrictSubsetOrdering
  <2> HIDE DEF below, T, R
  <2> QED BY <1>3, <1>4, <2>2, <2>3
<1> QED BY <1>5

LEMMA MinIsLeast ==
  ASSUME NEW S \in SUBSET Nat, IsFiniteSet(S), S # {}
  PROVE  Min(S) \in S /\ \A y \in S : Min(S) <= y
BY LeastExists DEF Min

LEMMA MinOfTwo ==
  ASSUME NEW a \in Int, NEW b \in Int
  PROVE  Min({a, b}) = IF a <= b THEN a ELSE b
<1> DEFINE m == IF a <= b THEN a ELSE b
<1>1. m \in {a, b} /\ \A y \in {a, b} : m <= y
  OBVIOUS
<1>2. \A x \in {a, b} : (\A y \in {a, b} : x <= y) => x = m
  OBVIOUS
<1> HIDE DEF m
<1> QED BY <1>1, <1>2 DEF Min, m

LEMMA MaxOfTwo ==
  ASSUME NEW a \in Int, NEW b \in Int
  PROVE  Max({a, b}) = IF a >= b THEN a ELSE b
<1> DEFINE m == IF a >= b THEN a ELSE b
<1>1. m \in {a, b} /\ \A y \in {a, b} : m >= y
  OBVIOUS
<1>2. \A x \in {a, b} : (\A y \in {a, b} : x >= y) => x = m
  OBVIOUS
<1> HIDE DEF m
<1> QED BY <1>1, <1>2 DEF Max, m

LEMMA BoundedInduction ==
  ASSUME NEW N \in Nat, NEW S, 0 \in S,
         \A n \in 0..N - 1 : n \in S => n + 1 \in S
  PROVE  \A n \in 0..N : n \in S
<1> DEFINE T == {k \in 0..N : k \notin S}
<1> SUFFICES ASSUME T # {} PROVE FALSE
  OBVIOUS
<1>1. IsFiniteSet(T) /\ T \in SUBSET Nat
  <2>1. IsFiniteSet(0..N) /\ T \in SUBSET (0..N) /\ 0..N \subseteq Nat
    BY FS_Interval
  <2> HIDE DEF T
  <2> QED BY <2>1, FS_Subset
<1>2. PICK k \in T : \A j \in T : k <= j
  <2> HIDE DEF T
  <2> QED BY <1>1, LeastExists
<1>3. k - 1 \in 0..N - 1 /\ (k - 1) + 1 = k
  BY <1>2
<1> QED BY <1>2, <1>3

\* A recursive sum over positions is positive when one of its terms is.
LEMMA SumFacts ==
  ASSUME NEW N \in Nat, NEW v, \A i \in 1..N : v[i] \in Nat, NEW sum,
         sum[0] = 0, \A i \in 1..N : sum[i] = sum[i - 1] + v[i]
  PROVE  sum[N] \in Nat /\ (sum[N] > 0 <=> \E i \in 1..N : v[i] > 0)
<1>1. sum[0] = 0 /\ \A i \in 1..N : sum[i] = sum[i - 1] + v[i]
  OBVIOUS
<1> DEFINE K == {n \in 0..N : sum[n] \in Nat /\ (sum[n] > 0 <=> \E i \in 1..n : v[i] > 0)}
<1>2. 0 \in K
  BY <1>1
<1>3. ASSUME NEW n \in 0..N - 1, n \in K PROVE n + 1 \in K
  <2>1. n + 1 \in 1..N /\ sum[n + 1] = sum[n] + v[n + 1] /\ v[n + 1] \in Nat /\ sum[n] \in Nat
    <3>1. n + 1 \in 1..N /\ (n + 1) - 1 = n
      OBVIOUS
    <3>2. sum[n + 1] = sum[(n + 1) - 1] + v[n + 1]
      BY <1>1, <3>1
    <3> QED BY <1>3, <3>1, <3>2
  <2>2. (\E i \in 1..n + 1 : v[i] > 0) <=> (\E i \in 1..n : v[i] > 0) \/ v[n + 1] > 0
    OBVIOUS
  <2> QED BY <1>3, <2>1, <2>2
<1>4. \A n \in 0..N : n \in K
  <2> HIDE DEF K
  <2> QED BY <1>2, <1>3, BoundedInduction
<1> QED BY <1>4

\* And there is a function with its equations.
RunsUp(N, v, sum) ==
  /\ sum[N] \in Nat /\ (sum[N] > 0 <=> \E i \in 1..N : v[i] > 0)
  /\ sum[0] = 0 /\ \A i \in 1..N : sum[i] = sum[i - 1] + v[i]

LEMMA SumOf ==
  ASSUME NEW N \in Nat, NEW v, \A i \in 1..N : v[i] \in Nat,
         NEW sum, sum = CHOOSE g : g = [i \in 0..N |-> IF i = 0 THEN 0 ELSE g[i - 1] + v[i]]
  PROVE  RunsUp(N, v, sum)
<1> DEFINE Part(g, n) == /\ g \in [0..n -> Nat] /\ g[0] = 0
                         /\ \A i \in 1..n : g[i] = g[i - 1] + v[i]
           S == {n \in 0..N : \E g : Part(g, n)}
<1>1. 0 \in S
  <2>1. Part([i \in 0..0 |-> 0], 0)
    OBVIOUS
  <2>2. 0 \in 0..N
    OBVIOUS
  <2> HIDE DEF Part
  <2> QED BY <2>1, <2>2
<1>2. ASSUME NEW n \in 0..N - 1, n \in S PROVE n + 1 \in S
  <2>1. PICK g : Part(g, n)
    BY <1>2
  <2> DEFINE e == [i \in 0..n + 1 |-> IF i <= n THEN g[i] ELSE g[n] + v[n + 1]]
  <2>2. e \in [0..n + 1 -> Nat] /\ e[0] = 0
    <3>1. \A i \in 0..n : g[i] \in Nat
      BY <2>1
    <3>2. g[n] + v[n + 1] \in Nat
      BY <3>1
    <3> QED BY <2>1, <3>1, <3>2
  <2>3. ASSUME NEW i \in 1..n + 1 PROVE e[i] = e[i - 1] + v[i]
    <3>1. CASE i <= n
      <4>1. i \in 1..n /\ i \in 0..n /\ i - 1 \in 0..n /\ i - 1 <= n
        BY <3>1
      <4>2. e[i] = g[i] /\ e[i - 1] = g[i - 1]
        BY <3>1, <4>1
      <4> HIDE DEF e
      <4> QED BY <2>1, <4>1, <4>2
    <3>2. CASE i = n + 1
      <4>1. e[i] = g[n] + v[n + 1] /\ e[n] = g[n] /\ i - 1 = n
        BY <3>2
      <4> HIDE DEF e
      <4> QED BY <3>2, <4>1
    <3> QED BY <3>1, <3>2
  <2>4. Part(e, n + 1)
    <3> HIDE DEF e
    <3> QED BY <2>2, <2>3
  <2>5. n + 1 \in 0..N
    OBVIOUS
  <2> HIDE DEF Part
  <2> QED BY <2>4, <2>5
<1>3. PICK g : Part(g, N)
  <2> HIDE DEF Part
  <2>1. \A n \in 0..N : n \in S
    <3> HIDE DEF S
    <3> QED BY <1>1, <1>2, BoundedInduction
  <2> QED BY <2>1
<1> DEFINE Sums(f) == f = [i \in 0..N |-> IF i = 0 THEN 0 ELSE f[i - 1] + v[i]]
<1>4. Sums(g)
  <2> DEFINE f == [i \in 0..N |-> IF i = 0 THEN 0 ELSE g[i - 1] + v[i]]
  <2>1. g = [i \in 0..N |-> g[i]]
    BY <1>3
  <2>2. \A i \in 0..N : g[i] = IF i = 0 THEN 0 ELSE g[i - 1] + v[i]
    BY <1>3
  <2> QED BY <2>1, <2>2
<1>5. Sums(sum)
  <2> HIDE DEF Part
  <2>1. sum = CHOOSE f : Sums(f)
    OBVIOUS
  <2> HIDE DEF Sums
  <2> QED BY <1>4, <2>1
<1>6. ASSUME NEW f, Sums(f)
      PROVE  f[0] = 0 /\ \A i \in 1..N : f[i] = f[i - 1] + v[i]
  BY <1>6
<1> HIDE DEF Sums
<1>7. sum[0] = 0 /\ \A i \in 1..N : sum[i] = sum[i - 1] + v[i]
  BY <1>5, <1>6
<1> QED BY <1>7, SumFacts DEF RunsUp

-----------------------------------------------------------------------------
(* What classifyTx leaves out is what does not touch the wallet.            *)

LEMMA TotalPositive ==
  ASSUME NEW x \in DOMAIN Tx, NEW outs
  PROVE  Total(Tx[x], outs) > 0 <=>
           \E i \in DOMAIN Tx[x].outs : Tx[x].outs[i] \in outs /\ Tx[x].outs[i].value > 0
<1> DEFINE o == Tx[x].outs
           N == Len(o)
           v == [i \in 1..N |-> IF o[i] \in outs THEN o[i].value ELSE 0]
           sum == CHOOSE g : g = [i \in 0..N |-> IF i = 0 THEN 0 ELSE g[i - 1] + v[i]]
<1>1. N \in Nat /\ DOMAIN o = 1..N /\ \A i \in 1..N : o[i].value \in Nat
  BY TxAssumption
<1>2. Total(Tx[x], outs) = sum[N]
  BY DEF Total
<1> HIDE DEF o
<1>3. \A i \in 1..N : v[i] = (IF o[i] \in outs THEN o[i].value ELSE 0)
  OBVIOUS
<1>4. \A i \in 1..N : v[i] \in Nat
  BY <1>1, <1>3
<1>5. sum[N] > 0 <=> \E i \in 1..N : v[i] > 0
  <2> HIDE DEF v, N
  <2>1. sum = CHOOSE g : g = [i \in 0..N |-> IF i = 0 THEN 0 ELSE g[i - 1] + v[i]]
    OBVIOUS
  <2> HIDE DEF sum
  <2>2. RunsUp(N, v, sum)
    BY <1>1, <1>4, <2>1, SumOf
  <2> QED BY <2>2 DEF RunsUp
<1>6. (\E i \in 1..N : v[i] > 0) <=> (\E i \in DOMAIN o : o[i] \in outs /\ o[i].value > 0)
  <2> HIDE DEF v, N
  <2> QED BY <1>1, <1>3
<1> HIDE DEF v, sum, N
<1> QED BY <1>2, <1>5, <1>6 DEF o

LEMMA ClassifyOurs ==
  ASSUME NEW x \in DOMAIN Tx, NEW found
  PROVE  Classify(Tx[x], found) # NotOurs <=> Touches(x)
<1> DEFINE t == Tx[x]
           c == Cases(t, found)
           S == {i \in DOMAIN c : c[i].on}
           kept == Total(t, {o \in Outs(t) : OurPlain(o)})
           ours == Ours(t) # {}
           gets == \E i \in {i \in DOMAIN t.outs : t.outs[i].token > 0} : IsOurs(t.outs[i])
<1>1. /\ DOMAIN c = 1..11
      /\ c[1].on => kept > 0
      /\ \A i \in 2..8 : c[i].on => ours
      /\ c[8].on <=> ours
      /\ c[9].on <=> gets
      /\ c[10].on <=> kept > 0
      /\ c[11].on
  <2>1. DOMAIN c = 1..11
    BY DEF Cases
  <2>2. c[1].on => kept > 0
    BY DEF Cases
  <2>3. \A i \in 2..8 : i \in {2, 3, 4, 5, 6, 7, 8}
    OBVIOUS
  <2>4. /\ c[2].on => ours
        /\ c[3].on => ours
        /\ c[4].on => ours
        /\ c[5].on => ours
        /\ c[6].on => ours
        /\ c[7].on => ours
    BY DEF Cases
  <2>5. c[8].on <=> ours
    BY DEF Cases
  <2>6. c[9].on <=> gets
    BY DEF Cases
  <2>7. c[10].on <=> kept > 0
    BY DEF Cases
  <2>8. c[11].on
    BY DEF Cases
  <2> HIDE DEF c, kept, ours, gets
  <2> QED BY <2>1, <2>2, <2>3, <2>4, <2>5, <2>6, <2>7, <2>8
<1>2. c[11].says = NotOurs /\ \A i \in 1..10 : c[i].says # NotOurs
  BY DEF Cases, Says, NotOurs
<1>3. Classify(t, found) = c[Min(S)].says
  BY DEF Classify
<1>4. ours <=> \E n \in t.ins : n.addr \in Mine
  BY TxAssumption DEF Ours
<1>5. kept > 0 <=> \E i \in DOMAIN t.outs : OurPlain(t.outs[i]) /\ t.outs[i].value > 0
  <2>1. kept > 0 <=> \E i \in DOMAIN t.outs : /\ t.outs[i] \in {o \in Outs(t) : OurPlain(o)}
                                             /\ t.outs[i].value > 0
    BY TotalPositive
  <2> QED BY <2>1 DEF Outs
<1>6. kept > 0 \/ gets <=> \E i \in DOMAIN t.outs : IsOurs(t.outs[i])
  <2>1. \A i \in DOMAIN t.outs : /\ t.outs[i].value \in Nat /\ t.outs[i].token \in Nat
                                 /\ t.outs[i].value = 0 => t.outs[i].token > 0
    BY TxAssumption
  <2> HIDE DEF kept
  <2> QED BY <1>5, <2>1 DEF OurPlain
<1>7. Touches(x) <=> ours \/ kept > 0 \/ gets
  <2> HIDE DEF ours, kept, gets
  <2> QED BY <1>4, <1>6 DEF Touches
<1> HIDE DEF c, kept, ours, gets
<1>8. IsFiniteSet(S) /\ S \in SUBSET (1..11) /\ S # {}
  <2>1. IsFiniteSet(1..11)
    <3>1. \A n \in Int : IsFiniteSet(1..n)
      BY FS_Interval
    <3>2. 11 \in Int
      OBVIOUS
    <3> QED BY <3>1, <3>2, Zenon
  <2>2. S \in SUBSET (1..11) /\ 11 \in S
    BY <1>1
  <2> HIDE DEF S
  <2> QED BY <2>1, <2>2, FS_Subset
<1>9. Min(S) \in S /\ \A i \in S : Min(S) <= i
  <2> HIDE DEF S
  <2>1. S \in SUBSET Nat
    BY <1>8
  <2> QED BY <1>8, <2>1, MinIsLeast
<1> DEFINE m == Min(S)
<1>10. m \in 1..11 /\ c[m].on /\ \A i \in 1..11 : c[i].on => m <= i
  BY <1>1, <1>9
<1> HIDE DEF S, m
<1>11. CASE ours \/ kept > 0 \/ gets
  <2>1. m <= 10
    BY <1>1, <1>10, <1>11
  <2>2. m \in 1..10
    BY <1>10, <2>1
  <2> QED BY <1>2, <1>3, <1>7, <1>11, <2>2 DEF m
<1>12. CASE ~ (ours \/ kept > 0 \/ gets)
  <2>1. \A i \in 1..10 : ~ c[i].on
    <3>1. \A i \in 1..10 : i = 1 \/ i \in 2..8 \/ i = 9 \/ i = 10
      OBVIOUS
    <3> QED BY <1>1, <1>12, <3>1
  <2>2. m = 11
    BY <1>10, <2>1
  <2> QED BY <1>2, <1>3, <1>7, <1>12, <2>2 DEF m
<1> QED BY <1>11, <1>12

-----------------------------------------------------------------------------
(* The entries of a block.                                                  *)

LEMMA BlockFacts ==
  ASSUME NEW b \in Block \cup {<<>>}
  PROVE  /\ \A k \in DOMAIN b : k \in Nat /\ b[k] \in DOMAIN Tx
         /\ \A j, k \in DOMAIN b : b[j] = b[k] => j = k
         /\ IsFiniteSet(DOMAIN b) /\ IsFiniteSet(Own(b)) /\ Own(b) \subseteq DOMAIN b
<1>1. PICK n \in Nat : DOMAIN b = 1..n
  <2>1. CASE b = <<>>
    <3>1. DOMAIN b = 1..0
      BY <2>1
    <3> QED BY <3>1
  <2>2. CASE b \in Block
    BY <2>2, BlockAssumption
  <2> QED BY <2>1, <2>2
<1>2. IsFiniteSet(DOMAIN b)
  BY <1>1, FS_Interval
<1>3. Own(b) \subseteq DOMAIN b
  BY DEF Own
<1>4. \A j, k \in DOMAIN b : b[j] \in DOMAIN Tx /\ (b[j] = b[k] => j = k)
  <2>1. CASE b = <<>>
    BY <2>1
  <2>2. CASE b \in Block
    BY <2>2, BlockAssumption
  <2> QED BY <2>1, <2>2
<1>5. IsFiniteSet(Own(b))
  BY <1>2, <1>3, FS_Subset
<1> QED BY <1>1, <1>2, <1>3, <1>4, <1>5

\* The order of a transaction tells which of the block's it is.
LEMMA RankDistinct ==
  ASSUME NEW b \in Block \cup {<<>>}, NEW j \in Own(b), NEW k \in Own(b),
         Rank(b, j) = Rank(b, k)
  PROVE  j = k
<1>1. ASSUME NEW m \in Own(b), NEW n \in Own(b), m < n PROVE Rank(b, m) # Rank(b, n)
  <2> DEFINE A == {i \in Own(b) : i < m}
             B == {i \in Own(b) : i < n}
  <2>1. \A i \in Own(b) : i \in Nat
    BY BlockFacts
  <2>2. A \in SUBSET B /\ B \in SUBSET Own(b) /\ m \in B /\ m \notin A
    BY <1>1, <2>1
  <2>3. Rank(b, m) = Cardinality(A) /\ Rank(b, n) = Cardinality(B)
    BY DEF Rank
  <2> HIDE DEF A, B
  <2>4. IsFiniteSet(B)
    BY <2>2, BlockFacts, FS_Subset
  <2>5. Cardinality(A) = Cardinality(B) => A = B
    BY <2>2, <2>4, FS_Subset
  <2> QED BY <2>2, <2>3, <2>5
<1>2. j \in Nat /\ k \in Nat
  BY BlockFacts
<1>3. j < k \/ j = k \/ k < j
  BY <1>2
<1> QED BY <1>1, <1>3

LEMMA EntriesOfFacts ==
  ASSUME Chains, NEW h \in DOMAIN byHeight
  PROVE  /\ IsFiniteSet(EntriesOf(h))
         /\ \A e \in EntriesOf(h) : e.h = h /\ Placed(e)
         /\ Have(EntriesOf(h), h)
<1> DEFINE b == byHeight[h]
           say == [k \in DOMAIN b |-> Classify(Tx[b[k]], located)]
           own == {k \in DOMAIN b : say[k] # NotOurs}
           Of(k) == [h |-> h, i |-> Cardinality({j \in own : j < k}), tx |-> b[k],
                     type |-> say[k].type, amount |-> say[k].amount, fee |-> say[k].fee,
                     to |-> say[k].to]
<1>1. b \in Block \cup {<<>>}
  BY DEF Chains
<1>2. EntriesOf(h) = {Of(k) : k \in own}
  BY DEF EntriesOf
<1>3. own = Own(b)
  <2>1. \A k \in DOMAIN b : say[k] = Classify(Tx[b[k]], located)
    OBVIOUS
  <2>2. \A k \in DOMAIN b : b[k] \in DOMAIN Tx
    BY <1>1, BlockFacts
  <2> HIDE DEF b, say
  <2>3. \A k \in DOMAIN b : say[k] # NotOurs <=> Touches(b[k])
    BY <2>1, <2>2, ClassifyOurs
  <2> QED BY <2>3 DEF Own
<1> HIDE DEF say
<1>4. \A k : /\ Of(k).h = h /\ Of(k).tx = b[k]
             /\ Of(k).i = Cardinality({j \in own : j < k})
  OBVIOUS
<1> HIDE DEF Of, own
<1>5. \A k : Of(k).i = Rank(b, k)
  BY <1>3, <1>4 DEF Rank
<1>6. IsFiniteSet(EntriesOf(h))
  <2>1. IsFiniteSet(own)
    BY <1>1, <1>3, BlockFacts
  <2> DEFINE f == [k \in own |-> Of(k)]
  <2>2. f \in Surjection(own, EntriesOf(h))
    BY <1>2 DEF Surjection
  <2> QED BY <2>1, <2>2, FS_Surjection
<1>7. ASSUME NEW e \in EntriesOf(h) PROVE e.h = h /\ Placed(e)
  <2>1. PICK k \in own : e = Of(k)
    BY <1>2
  <2>2. e.h = h /\ e.tx = b[k] /\ e.i = Rank(b, k)
    BY <1>4, <1>5, <2>1
  <2> QED BY <1>3, <2>2 DEF Placed
<1>8. Have(EntriesOf(h), h)
  <2>1. ASSUME NEW k \in Own(b)
        PROVE  Of(k) \in EntriesOf(h) /\ Of(k).h = h /\ Of(k).tx = b[k]
    BY <1>2, <1>3, <1>4
  <2> QED BY <2>1 DEF Have
<1> QED BY <1>6, <1>7, <1>8

-----------------------------------------------------------------------------
(* Steps of the chain: what stays, stays.                                   *)

Stays ==
  /\ stable' <= stable
  /\ stable' = MaxHeight => height <= height'
  /\ \A h \in 0..height : h <= stable' => byHeight'[h] = byHeight[h]

LEMMA ExtendStays == Chains /\ Extend => Chains' /\ Stays
<1> SUFFICES ASSUME Chains, Extend PROVE Chains' /\ Stays
  OBVIOUS
<1>1. PICK b \in Block : SetBlock(height + 1, b)
  BY DEF Extend
<1>2. /\ height' = height + 1 /\ height < MaxHeight /\ stable' = stable
      /\ pending = <<>> /\ pending' = <<>> /\ height \in 0..MaxHeight
  BY DEF Extend, Chains
<1>3. /\ DOMAIN byHeight' = DOMAIN byHeight \cup {height + 1}
      /\ \A h \in DOMAIN byHeight' :
           byHeight'[h] = IF h = height + 1 THEN b ELSE byHeight[h]
  BY <1>1 DEF SetBlock
<1>4. \A h \in 0..height : h \in DOMAIN byHeight /\ h # height + 1
  BY <1>2 DEF Chains
<1>5. 0..height' \subseteq DOMAIN byHeight'
  <2>1. \A h \in 0..height' : h \in 0..height \/ h = height + 1
    BY <1>2
  <2> QED BY <1>3, <1>4, <2>1
<1>6. \A h \in DOMAIN byHeight' : byHeight'[h] \in Block \cup {<<>>}
  BY <1>3 DEF Chains
<1>7. height' \in 0..MaxHeight /\ (stable' < height' \/ stable' = MaxHeight)
  <2>1. stable \in 0..MaxHeight /\ (stable < height \/ stable = MaxHeight) /\ MaxHeight \in Nat
    BY BoundAssumption DEF Chains
  <2> QED BY <1>2, <2>1
<1>8. Chains'
  BY <1>2, <1>5, <1>6, <1>7 DEF Chains
<1>9. Stays
  BY <1>2, <1>3, <1>4 DEF Stays, Chains
<1> QED BY <1>8, <1>9

LEMMA ReorgStays == Chains /\ Reorg => Chains' /\ Stays
<1> SUFFICES ASSUME Chains, Reorg PROVE Chains' /\ Stays
  OBVIOUS
<1>1. PICK f \in 0..height - 1, b \in Block :
        pending' = <<f + 1, b>> /\ stable' = Min({stable, f})
  BY DEF Reorg
<1>2. /\ height \in 0..MaxHeight /\ stable \in 0..MaxHeight /\ f \in 0..MaxHeight
      /\ f < height /\ MaxHeight \in Nat /\ byHeight' = byHeight /\ height' = height
  BY BoundAssumption DEF Chains, Reorg
<1>3. stable' \in 0..MaxHeight /\ stable' <= stable /\ stable' <= f
  BY <1>1, <1>2, MinOfTwo
<1>4. f + 1 \in stable' + 1..MaxHeight
  <2>1. \A s \in Int : s <= f => f + 1 \in s + 1..MaxHeight
    BY <1>2
  <2>2. stable' <= f /\ stable' \in Int
    BY <1>2, <1>3
  <2> HIDE <1>3
  <2>3. PICK s \in Int : s = stable'
    BY <2>2
  <2>4. s <= f
    BY <2>2, <2>3
  <2>5. f + 1 \in s + 1..MaxHeight
    BY <2>1, <2>4
  <2> QED BY <2>3, <2>5
<1>5. pending'[1] = f + 1 /\ pending'[2] = b
  BY <1>1
<1>6. Chains'
  <2>1. \A h \in 0..(f + 1) - 1 : h \in 0..height
    BY <1>2
  <2>2. 0..height \subseteq DOMAIN byHeight
    BY DEF Chains
  <2>3. 0..pending'[1] - 1 \subseteq DOMAIN byHeight'
    BY <1>2, <1>5, <2>1, <2>2
  <2>4. stable' < height'
    BY <1>2, <1>3
  <2> QED BY <1>2, <1>3, <1>4, <1>5, <2>3, <2>4 DEF Chains
<1>7. Stays
  BY <1>2, <1>3 DEF Stays
<1> QED BY <1>6, <1>7

LEMMA ReplayStays == Chains /\ Replay => Chains' /\ Stays
<1> SUFFICES ASSUME Chains, Replay PROVE Chains' /\ Stays
  OBVIOUS
<1> DEFINE n == pending[1]
           b == pending[2]
<1>1. /\ n \in stable + 1..MaxHeight /\ b \in Block /\ 0..n - 1 \subseteq DOMAIN byHeight
      /\ height \in 0..MaxHeight /\ stable \in 0..MaxHeight /\ MaxHeight \in Nat
      /\ stable' = stable /\ stable < MaxHeight /\ n \in Nat
  BY BoundAssumption DEF Chains, Replay
<1>2. SetBlock(n, b)
  BY DEF Replay
<1>3. \/ pending' = <<>> /\ height' = n
      \/ /\ height' = height /\ n < MaxHeight
         /\ \E d \in Block : pending' = <<n + 1, d>>
  BY DEF Replay
<1> HIDE DEF n, b
<1>4. /\ DOMAIN byHeight' = DOMAIN byHeight \cup {n}
      /\ \A h \in DOMAIN byHeight' : byHeight'[h] = IF h = n THEN b ELSE byHeight[h]
  BY <1>2 DEF SetBlock
<1>5. 0..n \subseteq DOMAIN byHeight' /\ 0..height \subseteq DOMAIN byHeight'
  <2>1. \A h \in 0..n : h \in 0..n - 1 \/ h = n
    BY <1>1
  <2>2. 0..height \subseteq DOMAIN byHeight
    BY DEF Chains
  <2> QED BY <1>1, <1>4, <2>1, <2>2
<1>6. Stays
  BY <1>1, <1>3, <1>4, <1>5 DEF Stays, Chains
<1>7. /\ height' \in 0..MaxHeight /\ stable' < height'
      /\ 0..height' \subseteq DOMAIN byHeight'
  BY <1>1, <1>3, <1>5 DEF Chains
<1>8. pending' # <<>> => /\ pending'[1] \in stable' + 1..MaxHeight /\ pending'[2] \in Block
                         /\ 0..pending'[1] - 1 \subseteq DOMAIN byHeight'
  <2>1. ASSUME NEW d \in Block, pending' = <<n + 1, d>>, n < MaxHeight
        PROVE  /\ pending'[1] \in stable' + 1..MaxHeight /\ pending'[2] \in Block
               /\ 0..pending'[1] - 1 \subseteq DOMAIN byHeight'
    <3>1. pending'[1] = n + 1 /\ pending'[2] = d /\ (n + 1) - 1 = n
          /\ n + 1 \in stable + 1..MaxHeight
      BY <1>1, <2>1
    <3> QED BY <1>1, <1>5, <3>1
  <2> QED BY <1>3, <2>1
<1>9. \A h \in DOMAIN byHeight' : byHeight'[h] \in Block \cup {<<>>}
  BY <1>1, <1>4 DEF Chains
<1> QED BY <1>1, <1>6, <1>7, <1>8, <1>9 DEF Chains

\* What stays is what the index and the queries rely on.
LEMMA StaysFull ==
  ASSUME Chains, Chains', Stays, NEW es, NEW n \in Int, stable = MaxHeight => n <= height,
         Full(es, n)
  PROVE  Full(es, n)'
<1> SUFFICES ASSUME NEW h \in 0..n, h <= stable' PROVE Have(es, h)'
  BY DEF Full
<1>1. h <= stable /\ h \in 0..height
  BY DEF Chains, Stays
<1>2. byHeight'[h] = byHeight[h]
  BY <1>1 DEF Stays
<1>3. Have(es, h)
  BY <1>1 DEF Full
<1> QED BY <1>2, <1>3 DEF Have

LEMMA ChainStep ==
  ASSUME HistoryInv, Chains', Stays, UNCHANGED <<index, meta, q>>
  PROVE  HistoryInv'
<1>1. /\ stable' <= stable /\ stable \in 0..MaxHeight /\ stable' \in 0..MaxHeight
      /\ height \in 0..MaxHeight /\ height' \in 0..MaxHeight /\ MaxHeight \in Nat
      /\ stable' = MaxHeight => stable = MaxHeight /\ height <= height'
      /\ stable < height \/ stable = MaxHeight
      /\ stable' < height' \/ stable' = MaxHeight
  BY BoundAssumption DEF HistoryInv, Chains, Stays
<1>2. ASSUME NEW e, e.h \in Nat, e.h <= stable', e.h <= stable => Placed(e),
             e.h <= height
      PROVE  Placed(e)'
  <2>1. byHeight'[e.h] = byHeight[e.h]
    BY <1>1, <1>2 DEF Stays
  <2> QED BY <1>1, <1>2, <2>1 DEF Placed
<1>3. Entries'
  <2>1. ASSUME NEW e \in index, e.h <= stable' PROVE e.h <= height' /\ Placed(e)'
    <3>1. e.h \in 0..MaxHeight /\ (e.h <= stable => e.h <= height /\ Placed(e))
      BY DEF HistoryInv, Entries
    <3>2. e.h <= height /\ e.h <= height'
      BY <1>1, <2>1, <3>1
    <3> QED BY <1>2, <2>1, <3>1, <3>2
  <2> QED BY <2>1 DEF HistoryInv, Entries
<1>4. Recorded'
  <2>1. meta.count > 0 => Full(index, meta.last)'
    BY StaysFull DEF HistoryInv, Recorded
  <2> QED BY <1>1, <2>1 DEF HistoryInv, Recorded, Full, Have
<1>5. ASSUME NEW n, Current(n)
      PROVE  Current(n)' /\ n \in Nat /\ (stable = MaxHeight => n <= height)
  <2>1. \A e \in index : e.h \in Nat
    BY DEF HistoryInv, Entries
  <2>2. meta.last \in Nat /\ n \in 0..MaxHeight
    BY <1>5 DEF HistoryInv, Recorded, Current
  <2>3. \A e \in index : n < e.h => stable' < n
    BY <1>1, <1>5, <2>1, <2>2 DEF Current
  <2>4. stable' = MaxHeight => n <= height'
    BY <1>1, <1>5, <2>2 DEF Current
  <2>5. n < meta.last => stable' < n
    BY <1>1, <1>5, <2>2 DEF Current
  <2> QED BY <1>5, <2>2, <2>3, <2>4, <2>5 DEF Current
<1>6. ASSUME NEW s, Asks(s) PROVE Asks(s)'
  <2>1. s.pc # "idle" => /\ Current(s.tip) /\ Current(s.tip)' /\ s.tip \in Nat
                         /\ stable = MaxHeight => s.tip <= height
    BY <1>5, <1>6 DEF Asks
  <2>2. ASSUME NEW es, NEW n \in Int, s.pc # "idle", n <= s.tip, Full(es, n)
        PROVE  Full(es, n)'
    <3>1. stable = MaxHeight => n <= height
      BY <1>1, <2>1, <2>2
    <3> QED BY <2>2, <3>1, StaysFull DEF HistoryInv
  <2>3. s.pc = "open" => Full(index, s.next - 1)'
    <3>1. ASSUME s.pc = "open" PROVE /\ s.next - 1 \in Int /\ s.next - 1 <= s.tip
                                     /\ Full(index, s.next - 1)
      BY <1>6, <2>1, <3>1 DEF Asks
    <3> QED BY <2>2, <3>1
  <2>4. s.pc = "list" => Full(index, s.tip)'
    BY <1>6, <2>1, <2>2 DEF Asks
  <2>5. s.pc = "block" => IsIndexing(s)'
    <3> SUFFICES ASSUME s.pc = "block" PROVE IsIndexing(s)'
      OBVIOUS
    <3>1. IsIndexing(s)
      BY <1>6 DEF Asks
    <3>2. Full(index \cup s.puts, s.next - 1)'
      <4>1. /\ s.next - 1 \in Int /\ s.next - 1 <= s.tip
            /\ Full(index \cup s.puts, s.next - 1)
        BY <2>1, <3>1 DEF IsIndexing
      <4> QED BY <2>2, <4>1
    <3>3. ASSUME NEW e \in s.puts, e.h <= stable' PROVE Placed(e)'
      <4>1. e.h = s.next - 1 /\ e.h \in Nat /\ (e.h <= stable => Placed(e))
        BY <3>1, <3>3 DEF IsIndexing
      <4>2. e.h <= stable /\ e.h <= height
        BY <1>1, <2>1, <3>1, <3>3, <4>1 DEF IsIndexing
      <4> QED BY <1>2, <3>3, <4>1, <4>2
    <3> QED BY <3>1, <3>2, <3>3 DEF IsIndexing
  <2> QED BY <1>6, <2>1, <2>3, <2>4, <2>5 DEF Asks, IsDeleting
<1>7. ASSUME NEW c \in Client PROVE Asks(q[c])'
  BY <1>6 DEF HistoryInv
<1>8. q' = [c \in Client |-> q'[c]]
  BY DEF HistoryInv
<1> QED BY <1>3, <1>4, <1>7, <1>8 DEF HistoryInv

-----------------------------------------------------------------------------
(* Steps of the query. The chain waits.                                     *)

LEMMA SameChain ==
  ASSUME UNCHANGED chainVars
  PROVE  /\ \A n : Full(index, n)' <=> Full(index', n)
         /\ \A es, n : Full(es, n)' <=> Full(es, n)
         /\ \A e : Placed(e)' <=> Placed(e)
         /\ Chains' <=> Chains
BY DEF chainVars, Full, Have, Placed, Chains

\* Entries may be added, replaced by one for the same transaction, and
\* removed above what stays.
LEMMA FullKeeps ==
  ASSUME NEW es, NEW fs, NEW n, Full(es, n),
         \A e \in es : e.h <= stable => \E f \in fs : f.h = e.h /\ f.tx = e.tx
  PROVE  Full(fs, n)
BY DEF Full, Have

LEMMA FullLess ==
  ASSUME NEW es, NEW n \in Int, NEW m \in Int, m <= n, Full(es, n)
  PROVE  Full(es, m)
BY DEF Full

LEMMA ToIndexAsks ==
  ASSUME NEW r, NEW last \in Nat, r.count \in Nat, last <= r.tip, Current(r.tip)',
         r.count > 0 => Full(index, last)'
  PROVE  Asks(ToIndex(r, last))'
<1> DEFINE n == After(r, last)
           s == ToIndex(r, last)
<1>1. r.tip \in Nat
  BY BoundAssumption DEF Current
<1>2. n = IF r.count = 0 THEN 0 ELSE last + 1
  BY DEF After
<1>3. CASE n <= r.tip
  <2>1. s = [pc |-> "open", tip |-> r.tip, next |-> n]
    BY <1>3 DEF ToIndex
  <2>2. n \in 0..r.tip
    BY <1>1, <1>2, <1>3
  <2>3. Full(index, n - 1)'
    <3>1. CASE r.count = 0
      BY <1>2, <3>1 DEF Full
    <3>2. CASE r.count > 0
      <4>1. n - 1 = last
        BY <1>2, <3>2
      <4> QED BY <3>2, <4>1
    <3> QED BY <3>1, <3>2
  <2> HIDE DEF n, s
  <2> QED BY <2>1, <2>2, <2>3 DEF Asks, s
<1>4. CASE ~ (n <= r.tip)
  <2>1. s = [pc |-> "list", tip |-> r.tip]
    BY <1>4 DEF ToIndex
  <2>2. r.count > 0 /\ last = r.tip
    BY <1>1, <1>2, <1>4
  <2> HIDE DEF n, s
  <2> QED BY <2>1, <2>2 DEF Asks, s
<1> QED BY <1>3, <1>4

LEMMA QueryStep ==
  ASSUME HistoryInv, NEW c, Client = {c}, UNCHANGED chainVars,
         NEW s, q' = [q EXCEPT ![c] = s], Entries', Recorded', Asks(s)'
  PROVE  HistoryInv'
<1>1. q' = [d \in Client |-> q'[d]] /\ q'[c] = s
  BY DEF HistoryInv
<1>2. Chains'
  BY SameChain DEF HistoryInv
<1>3. Asks(q[c])'
  BY <1>1
<1> QED BY <1>1, <1>2, <1>3 DEF HistoryInv

\* A step that writes nothing.
LEMMA ReadStep ==
  ASSUME HistoryInv, UNCHANGED <<chainVars, index, meta>>
  PROVE  /\ Entries' /\ Recorded'
         /\ \A n : Current(n)' <=> Current(n)
         /\ \A n : Full(index, n)' <=> Full(index, n)
<1>1. \A e : Placed(e)' <=> Placed(e)
  BY SameChain
<1>2. \A n : Full(index, n)' <=> Full(index, n)
  BY SameChain
<1>3. UNCHANGED <<height, stable, index, meta>>
  BY DEF chainVars
<1> QED BY <1>1, <1>2, <1>3 DEF HistoryInv, Entries, Recorded, Current

LEMMA ReadTipStep ==
  ASSUME HistoryInv, NEW c, Client = {c}, ReadTip(c)
  PROVE  HistoryInv'
<1>1. PICK s : s = [pc |-> "meta", tip |-> height]
  OBVIOUS
<1>2. q' = [q EXCEPT ![c] = s] /\ UNCHANGED <<chainVars, index, meta>>
  BY <1>1 DEF ReadTip, Step
<1>3. Current(height)
  <2>1. /\ height \in 0..MaxHeight /\ stable \in 0..MaxHeight /\ MaxHeight \in Nat
        /\ stable < height \/ stable = MaxHeight
    BY BoundAssumption DEF HistoryInv, Chains
  <2>2. meta.last \in 0..MaxHeight /\ (stable = MaxHeight => meta.last <= height)
    BY DEF HistoryInv, Recorded
  <2>3. \A e \in index : e.h \in 0..MaxHeight /\ (e.h <= stable => e.h <= height)
    BY DEF HistoryInv, Entries
  <2> QED BY <2>1, <2>2, <2>3 DEF Current
<1>4. Asks(s)'
  <2>1. PICK n : n = height
    OBVIOUS
  <2>2. Current(n)'
    BY <1>2, <1>3, <2>1, ReadStep
  <2>3. s.pc = "meta" /\ s.tip = n
    BY <1>1, <2>1
  <2> QED BY <2>2, <2>3 DEF Asks
<1> QED BY <1>2, <1>4, QueryStep, ReadStep

LEMMA ReadMetaStep ==
  ASSUME HistoryInv, NEW c, Client = {c}, ReadMeta(c)
  PROVE  HistoryInv'
<1>1. PICK r : r = [tip |-> q[c].tip, count |-> meta.count]
  OBVIOUS
<1>2. PICK last : last = meta.last
  OBVIOUS
<1>3. PICK s : s = IF meta.count > 0 /\ r.tip < last
                   THEN [pc |-> "collect", tip |-> r.tip, count |-> meta.count]
                   ELSE ToIndex(r, last)
  OBVIOUS
<1>4. q[c].pc = "meta" /\ q' = [q EXCEPT ![c] = s] /\ UNCHANGED <<chainVars, index, meta>>
  BY <1>1, <1>2, <1>3 DEF ReadMeta, Step
<1>5. r.tip = q[c].tip /\ r.count = meta.count
  BY <1>1
<1>6. Current(r.tip) /\ r.tip \in Nat
  BY <1>4, <1>5, BoundAssumption DEF HistoryInv, Asks, Current
<1>7. Current(r.tip)'
  BY <1>4, <1>6, ReadStep
<1>8. last \in Nat /\ r.count \in Nat /\ (r.count > 0 => Full(index, last)')
  BY <1>2, <1>4, <1>5, ReadStep, BoundAssumption DEF HistoryInv, Recorded
<1>9. CASE meta.count > 0 /\ r.tip < last
  <2>1. s.pc = "collect" /\ s.tip = r.tip /\ s.count = meta.count
    BY <1>3, <1>9
  <2>2. meta'.count > 0 /\ r.tip < meta'.last
    BY <1>2, <1>4, <1>9
  <2>3. Asks(s)'
    BY <1>5, <1>7, <1>8, <1>9, <2>1, <2>2 DEF Asks
  <2> QED BY <1>4, <2>3, QueryStep, ReadStep
<1>10. CASE ~ (meta.count > 0 /\ r.tip < last)
  <2>1. Asks(ToIndex(r, last))'
    <3>1. CASE last <= r.tip
      BY <1>7, <1>8, <3>1, ToIndexAsks
    <3>2. CASE r.count = 0
      <4>1. ToIndex(r, last) = ToIndex(r, 0)
        BY <3>2 DEF ToIndex, After
      <4>2. Asks(ToIndex(r, 0))'
        BY <1>6, <1>7, <1>8, <3>2, ToIndexAsks
      <4> QED BY <4>1, <4>2
    <3> QED BY <1>5, <1>6, <1>8, <1>10, <3>1, <3>2
  <2>2. s = ToIndex(r, last)
    BY <1>3, <1>10
  <2> QED BY <1>4, <2>1, <2>2, QueryStep, ReadStep
<1> QED BY <1>9, <1>10

LEMMA CollectStep ==
  ASSUME HistoryInv, NEW c, Client = {c}, Collect(c)
  PROVE  HistoryInv'
<1>1. PICK r : r = q[c]
  OBVIOUS
<1>2. PICK del : del = Above(r.tip)
  OBVIOUS
<1>3. PICK s : s = IF del = {} THEN ToIndex(r, r.tip)
                   ELSE [pc |-> "delete", tip |-> r.tip, count |-> r.count,
                         del |-> del, n |-> Cardinality(del)]
  OBVIOUS
<1>4. r.pc = "collect" /\ q' = [q EXCEPT ![c] = s] /\ UNCHANGED <<chainVars, index, meta>>
  BY <1>1, <1>2, <1>3 DEF Collect, Step
<1>5. /\ Current(r.tip) /\ r.tip \in Nat /\ r.count \in Nat /\ r.count > 0
      /\ meta.count > 0 /\ r.tip < meta.last
  BY <1>1, <1>4, BoundAssumption DEF HistoryInv, Asks, Current
<1>6. Current(r.tip)'
  BY <1>4, <1>5, ReadStep
<1>7. CASE del = {}
  <2>1. Full(index, r.tip)'
    <3>1. Full(index, meta.last) /\ meta.last \in Int
      BY <1>5 DEF HistoryInv, Recorded
    <3>2. Full(index, r.tip)
      BY <1>5, <3>1, FullLess
    <3> QED BY <1>4, <3>2, ReadStep
  <2>2. Asks(ToIndex(r, r.tip))'
    BY <1>5, <1>6, <2>1, ToIndexAsks
  <2>3. s = ToIndex(r, r.tip)
    BY <1>3, <1>7
  <2> QED BY <1>4, <2>2, <2>3, QueryStep, ReadStep
<1>8. CASE del # {}
  <2>1. s = [pc |-> "delete", tip |-> r.tip, count |-> r.count,
             del |-> del, n |-> Cardinality(del)]
    BY <1>3, <1>8
  <2>2. Cardinality(del) \in Nat /\ \A e \in del : e.h \in Nat /\ r.tip < e.h
    <3>1. del \in SUBSET index /\ \A e \in del : e.h \in Nat /\ r.tip < e.h
      BY <1>2, <1>5 DEF Above, HistoryInv, Entries
    <3>2. IsFiniteSet(del)
      BY <3>1, FS_Subset DEF HistoryInv, Entries
    <3> QED BY <3>1, <3>2, FS_CardinalityType
  <2>3. IsDeleting(s)
    BY <2>1, <2>2 DEF IsDeleting
  <2>4. Asks(s)'
    <3>1. s.pc = "delete" /\ s.tip = r.tip /\ s.count = r.count
      BY <2>1
    <3>2. meta'.count > 0 /\ r.tip < meta'.last
      BY <1>4, <1>5
    <3> QED BY <1>5, <1>6, <2>3, <3>1, <3>2 DEF Asks, IsDeleting
  <2> QED BY <1>4, <2>4, QueryStep, ReadStep
<1> QED BY <1>7, <1>8

\* A deletion is above what stays.
LEMMA DeleteEntryStep ==
  ASSUME HistoryInv, NEW c, Client = {c}, DeleteEntry(c)
  PROVE  HistoryInv'
<1>1. PICK r : r = q[c]
  OBVIOUS
<1>2. PICK e \in r.del : /\ index' = {d \in index : <<d.h, d.i>> # <<e.h, e.i>>}
                         /\ q' = [q EXCEPT ![c] = [r EXCEPT !.del = @ \ {e}]]
  BY <1>1 DEF DeleteEntry, Step
<1>3. PICK s : s = [r EXCEPT !.del = @ \ {e}]
  OBVIOUS
<1>4. r.pc = "delete" /\ UNCHANGED <<chainVars, meta>> /\ UNCHANGED <<height, stable>>
  BY <1>1 DEF DeleteEntry, chainVars
<1>5. Asks(r)
  BY <1>1 DEF HistoryInv
<1>6. /\ Current(r.tip) /\ r.tip \in Nat /\ r.count \in Nat /\ r.count > 0
      /\ meta.count > 0 /\ r.tip < meta.last /\ IsDeleting(r)
      /\ stable \in Nat /\ meta.last \in Nat
  BY <1>4, <1>5, BoundAssumption DEF HistoryInv, Asks, Current, Recorded, Chains
<1>7. e.h \in Nat /\ stable < e.h
  BY <1>6 DEF IsDeleting, Current
<1>8. index' \subseteq index /\ \A d \in index : d.h <= stable => d \in index'
  BY <1>2, <1>6, <1>7
<1>9. Entries'
  <2>1. \A d : Placed(d)' <=> Placed(d)
    BY <1>4, SameChain
  <2>2. IsFiniteSet(index')
    BY <1>8, FS_Subset DEF HistoryInv, Entries
  <2> QED BY <1>4, <1>8, <2>1, <2>2 DEF HistoryInv, Entries
<1>10. Recorded'
  <2>1. Full(index', meta.last)
    BY <1>6, <1>8, FullKeeps DEF HistoryInv, Recorded
  <2>2. PICK n : n = meta.last
    OBVIOUS
  <2>3. Full(index, n)'
    BY <1>4, <2>1, <2>2, SameChain
  <2> QED BY <1>4, <2>2, <2>3 DEF HistoryInv, Recorded
<1>11. Asks(s)'
  <2>1. /\ s.pc = "delete" /\ s.tip = r.tip /\ s.count = r.count /\ s.n = r.n
        /\ s.del = r.del \ {e}
    BY <1>3, <1>4, <1>6 DEF IsDeleting
  <2>2. IsDeleting(s)
    BY <1>3, <1>6, <2>1 DEF IsDeleting
  <2>3. Current(r.tip)'
    BY <1>4, <1>6, <1>8 DEF Current
  <2> QED BY <1>4, <1>6, <2>1, <2>2, <2>3 DEF Asks, IsDeleting
<1> QED BY <1>2, <1>3, <1>4, <1>9, <1>10, <1>11, QueryStep

LEMMA RolledBackStep ==
  ASSUME HistoryInv, NEW c, Client = {c}, RolledBack(c)
  PROVE  HistoryInv'
<1>1. PICK r : r = q[c]
  OBVIOUS
<1>2. PICK s : s = ToIndex(r, r.tip)
  OBVIOUS
<1>3. /\ r.pc = "delete" /\ q' = [q EXCEPT ![c] = s] /\ UNCHANGED <<chainVars, index>>
      /\ meta' = [last |-> r.tip, count |-> Max({0, meta.count - r.n})]
      /\ UNCHANGED <<height, stable>>
  BY <1>1, <1>2 DEF RolledBack, Step, chainVars
<1>4. Asks(r)
  BY <1>1 DEF HistoryInv
<1>5. /\ Current(r.tip) /\ r.tip \in 0..MaxHeight /\ r.tip \in Nat
      /\ r.count \in Nat /\ r.count > 0 /\ r.n \in Nat
      /\ meta.count > 0 /\ meta.count \in Nat /\ meta.last \in Nat /\ r.tip < meta.last
      /\ stable = MaxHeight => r.tip <= height
  BY <1>3, <1>4, BoundAssumption DEF HistoryInv, Asks, Current, Recorded, IsDeleting
<1>6. Full(index, r.tip)'
  <2>1. Full(index, meta.last)
    BY <1>5 DEF HistoryInv, Recorded
  <2>2. Full(index, r.tip)
    BY <1>5, <2>1, FullLess
  <2> QED BY <1>3, <2>2, SameChain
<1>7. meta'.last = r.tip /\ meta'.count \in Nat
  BY <1>3, <1>5, MaxOfTwo
<1>8. Entries'
  <2>1. \A d : Placed(d)' <=> Placed(d)
    BY <1>3, SameChain
  <2> QED BY <1>3, <2>1 DEF HistoryInv, Entries
<1>9. Recorded'
  BY <1>3, <1>5, <1>6, <1>7 DEF Recorded
<1>10. Current(r.tip)'
  BY <1>3, <1>5, <1>7 DEF Current
<1>11. Asks(s)'
  BY <1>2, <1>5, <1>6, <1>10, ToIndexAsks
<1> QED BY <1>3, <1>8, <1>9, <1>11, QueryStep

LEMMA OpenStep ==
  ASSUME HistoryInv, NEW c, Client = {c}, Open(c)
  PROVE  HistoryInv'
<1>1. PICK r : r = q[c]
  OBVIOUS
<1>2. PICK s : s = [pc |-> "block", tip |-> r.tip, next |-> r.next, got |-> meta, n |-> 0,
                    puts |-> {}]
  OBVIOUS
<1>3. r.pc = "open" /\ q' = [q EXCEPT ![c] = s] /\ UNCHANGED <<chainVars, index, meta>>
  BY <1>1, <1>2 DEF Open, Step
<1>4. /\ Current(r.tip) /\ r.tip \in Nat /\ r.next \in 0..r.tip /\ Full(index, r.next - 1)
      /\ meta.count \in Nat
  BY <1>1, <1>3, BoundAssumption DEF HistoryInv, Asks, Current, Recorded
<1>5. IsIndexing(s)'
  <2>1. Full(index, r.next - 1)'
    BY <1>3, <1>4, ReadStep
  <2>2. index' \cup {} = index'
    OBVIOUS
  <2>3. s.puts = {} /\ s.next = r.next /\ s.tip = r.tip /\ s.got.count = meta.count /\ s.n = 0
    BY <1>2
  <2>4. Full(index \cup s.puts, s.next - 1)'
    BY <2>1, <2>2, <2>3
  <2> QED BY <1>2, <1>4, <2>3, <2>4 DEF IsIndexing
<1>6. Current(r.tip)'
  BY <1>3, <1>4, ReadStep
<1>7. Asks(s)'
  <2>1. s.pc = "block" /\ s.tip = r.tip
    BY <1>2
  <2> QED BY <1>5, <1>6, <2>1 DEF Asks
<1> QED BY <1>3, <1>7, QueryStep, ReadStep

\* A height up to the one a query read has a block, unless it does not stay.
LEMMA StaysHasBlock ==
  ASSUME HistoryInv, NEW n, Current(n), NEW h \in 0..n, h <= stable
  PROVE  h \in DOMAIN byHeight /\ h <= height
<1>1. /\ height \in 0..MaxHeight /\ stable \in 0..MaxHeight /\ MaxHeight \in Nat
      /\ stable < height \/ stable = MaxHeight
      /\ 0..height \subseteq DOMAIN byHeight
  BY BoundAssumption DEF HistoryInv, Chains
<1>2. h \in 0..height
  BY <1>1 DEF Current
<1> QED BY <1>1, <1>2

LEMMA ReadBlockStep ==
  ASSUME HistoryInv, NEW c, Client = {c}, ReadBlock(c)
  PROVE  HistoryInv'
<1>1. PICK r : r = q[c]
  OBVIOUS
<1>2. PICK new : new = IF r.next \in DOMAIN byHeight THEN EntriesOf(r.next) ELSE {}
  OBVIOUS
<1>3. PICK s : s = [r EXCEPT !.next = @ + 1, !.n = @ + Cardinality(new), !.puts = new]
  OBVIOUS
<1>4. /\ r.pc = "block" /\ r.next <= r.tip /\ r.puts = {}
      /\ q' = [q EXCEPT ![c] = s] /\ UNCHANGED <<chainVars, index, meta>>
  BY <1>1, <1>2, <1>3 DEF ReadBlock, Step
<1>5. Current(r.tip) /\ r.tip \in Nat /\ IsIndexing(r)
  BY <1>1, <1>4, BoundAssumption DEF HistoryInv, Asks, Current
<1>6. /\ s = [pc |-> "block", tip |-> r.tip, next |-> r.next + 1, got |-> r.got,
              n |-> r.n + Cardinality(new), puts |-> new]
      /\ r.next \in 0..r.tip /\ r.n \in Nat /\ r.got.count \in Nat
      /\ Full(index, r.next - 1)
  <2>1. r = [pc |-> "block", tip |-> r.tip, next |-> r.next, got |-> r.got, n |-> r.n,
             puts |-> {}]
    BY <1>4, <1>5 DEF IsIndexing
  <2>2. index \cup r.puts = index
    BY <1>4
  <2>3. r.next \in 0..r.tip + 1 /\ r.n \in Nat /\ r.got.count \in Nat
        /\ Full(index, r.next - 1)
    BY <1>5, <2>2 DEF IsIndexing
  <2>4. r.next \in 0..r.tip
    BY <1>4, <1>5, <2>3
  <2>5. PICK t, x, g, m : r = [pc |-> "block", tip |-> t, next |-> x, got |-> g, n |-> m,
                               puts |-> {}]
    BY <2>1
  <2>6. r.tip = t /\ r.next = x /\ r.got = g /\ r.n = m
    BY <2>5
  <2>7. s = [pc |-> "block", tip |-> t, next |-> x + 1, got |-> g, n |-> m + Cardinality(new),
             puts |-> new]
    BY <1>3, <2>5
  <2> QED BY <2>3, <2>4, <2>6, <2>7
<1>7. /\ Cardinality(new) \in Nat
      /\ \A e \in new : e.h = r.next /\ Placed(e)
      /\ r.next \in DOMAIN byHeight => Have(new, r.next)
  <2>1. CASE r.next \in DOMAIN byHeight
    <3>1. new = EntriesOf(r.next)
      BY <1>2, <2>1
    <3> QED BY <2>1, <3>1, EntriesOfFacts, FS_CardinalityType DEF HistoryInv
  <2>2. CASE r.next \notin DOMAIN byHeight
    <3>1. new = {}
      BY <1>2, <2>2
    <3> QED BY <2>2, <3>1, FS_EmptySet
  <2> QED BY <2>1, <2>2
<1>8. Full(index \cup new, r.next)
  <2> SUFFICES ASSUME NEW h \in 0..r.next, h <= stable PROVE Have(index \cup new, h)
    BY DEF Full
  <2>1. CASE h = r.next
    <3>1. h \in DOMAIN byHeight
      BY <1>5, <1>6, <2>1, StaysHasBlock
    <3> QED BY <1>7, <2>1, <3>1 DEF Have
  <2>2. CASE h # r.next
    <3>1. h \in 0..r.next - 1
      BY <1>6, <2>2
    <3> QED BY <1>6, <3>1 DEF Full, Have
  <2> QED BY <2>1, <2>2
<1>9. IsIndexing(s)'
  <2>1. /\ s.pc = "block" /\ s.tip = r.tip /\ s.next = r.next + 1 /\ s.got = r.got
        /\ s.n = r.n + Cardinality(new) /\ s.puts = new
    BY <1>6
  <2>2. s.next \in 0..s.tip + 1 /\ s.n \in Nat /\ s.next - 1 = r.next
    BY <1>5, <1>6, <1>7, <2>1
  <2>3. Full(index \cup new, r.next)'
    <3>1. UNCHANGED <<byHeight, stable, index>>
      BY <1>4 DEF chainVars
    <3> QED BY <1>8, <3>1 DEF Full, Have
  <2>4. \A e : Placed(e)' <=> Placed(e)
    BY <1>4, SameChain
  <2>5. \A e \in new : e.h = s.next - 1 /\ e.h \in Nat /\ Placed(e)'
    BY <1>6, <1>7, <2>2, <2>4
  <2> QED BY <1>6, <2>1, <2>2, <2>3, <2>5 DEF IsIndexing
<1>10. Asks(s)'
  <2>1. Current(r.tip)' /\ s.pc = "block" /\ s.tip = r.tip
    BY <1>4, <1>5, <1>6, ReadStep
  <2> QED BY <1>9, <2>1 DEF Asks
<1> QED BY <1>4, <1>10, QueryStep, ReadStep

\* An entry with the same key is of the same transaction.
LEMMA SameKey ==
  ASSUME HistoryInv, NEW d, NEW e, e.h \in DOMAIN byHeight, Placed(d), Placed(e),
         d.h = e.h, d.i = e.i
  PROVE  d.tx = e.tx
<1>1. PICK j \in Own(byHeight[e.h]) : d.tx = byHeight[e.h][j] /\ d.i = Rank(byHeight[e.h], j)
  BY DEF Placed
<1>2. PICK k \in Own(byHeight[e.h]) : e.tx = byHeight[e.h][k] /\ e.i = Rank(byHeight[e.h], k)
  BY DEF Placed
<1>3. byHeight[e.h] \in Block \cup {<<>>}
  BY DEF HistoryInv, Chains
<1>4. j = k
  <2>1. PICK b \in Block \cup {<<>>} : b = byHeight[e.h]
    BY <1>3
  <2>2. j \in Own(b) /\ k \in Own(b) /\ Rank(b, j) = Rank(b, k)
    BY <1>1, <1>2, <2>1
  <2> QED BY <2>2, RankDistinct
<1> QED BY <1>1, <1>2, <1>4

LEMMA PutEntryStep ==
  ASSUME HistoryInv, NEW c, Client = {c}, PutEntry(c)
  PROVE  HistoryInv'
<1>1. PICK r : r = q[c]
  OBVIOUS
<1>2. PICK e \in r.puts : /\ index' = {d \in index : <<d.h, d.i>> # <<e.h, e.i>>} \cup {e}
                          /\ q' = [q EXCEPT ![c] = [r EXCEPT !.puts = @ \ {e}]]
  BY <1>1 DEF PutEntry, Step
<1>3. PICK s : s = [r EXCEPT !.puts = @ \ {e}]
  OBVIOUS
<1>4. r.pc = "block" /\ UNCHANGED <<chainVars, meta>> /\ UNCHANGED <<height, stable>>
  BY <1>1 DEF PutEntry, chainVars
<1>5. /\ Current(r.tip) /\ r.tip \in 0..MaxHeight /\ r.tip \in Nat /\ IsIndexing(r)
      /\ stable \in Nat /\ MaxHeight \in Nat
  BY <1>1, <1>4, BoundAssumption DEF HistoryInv, Asks, Current, Chains
<1>6. /\ e.h = r.next - 1 /\ e.h \in 0..r.tip /\ (e.h <= stable => Placed(e))
      /\ r.next \in 0..r.tip + 1 /\ Full(index \cup r.puts, r.next - 1)
  <2>1. e.h = r.next - 1 /\ e.h \in Nat /\ r.next \in 0..r.tip + 1
    BY <1>5 DEF IsIndexing
  <2>2. e.h \in 0..r.tip
    BY <1>5, <2>1
  <2> QED BY <1>5, <2>1, <2>2 DEF IsIndexing
<1>7. e.h <= stable => e.h \in DOMAIN byHeight /\ e.h <= height
  BY <1>5, <1>6, StaysHasBlock
<1>8. \A d \in index : d.h <= stable =>
        d.h \in Nat /\ \E f \in index' : f.h = d.h /\ f.tx = d.tx
  <2> SUFFICES ASSUME NEW d \in index, d.h <= stable
               PROVE  d.h \in Nat /\ \E f \in index' : f.h = d.h /\ f.tx = d.tx
    OBVIOUS
  <2>1. d.h \in Nat /\ Placed(d)
    BY DEF HistoryInv, Entries
  <2>2. CASE <<d.h, d.i>> # <<e.h, e.i>>
    BY <1>2, <2>1, <2>2
  <2>3. CASE d.h = e.h /\ d.i = e.i
    <3>1. d.tx = e.tx
      BY <1>6, <1>7, <2>1, <2>3, SameKey
    <3> QED BY <1>2, <2>1, <2>3, <3>1
  <2> QED BY <2>2, <2>3
<1>9. Entries'
  <2>1. \A d : Placed(d)' <=> Placed(d)
    BY <1>4, SameChain
  <2>2. IsFiniteSet(index')
    <3>1. {d \in index : <<d.h, d.i>> # <<e.h, e.i>>} \in SUBSET index
      OBVIOUS
    <3>2. IsFiniteSet({d \in index : <<d.h, d.i>> # <<e.h, e.i>>})
      BY <3>1, FS_Subset DEF HistoryInv, Entries
    <3> QED BY <1>2, <3>2, FS_AddElement
  <2>3. \A d \in index' : d = e \/ d \in index
    BY <1>2
  <2>4. e.h \in 0..MaxHeight /\ (e.h <= stable => e.h <= height /\ Placed(e))
    BY <1>5, <1>6, <1>7
  <2>5. \A d \in index' : d.h \in 0..MaxHeight /\ (d.h <= stable => d.h <= height /\ Placed(d))
    BY <2>3, <2>4 DEF HistoryInv, Entries
  <2>6. \A d, f \in index' : d.h = f.h /\ d.i = f.i => d = f
    BY <1>2 DEF HistoryInv, Entries
  <2> QED BY <1>4, <2>1, <2>2, <2>5, <2>6 DEF Entries
<1>10. Recorded'
  <2>1. meta.count > 0 => Full(index', meta.last)
    BY <1>8, FullKeeps DEF HistoryInv, Recorded
  <2>2. PICK n : n = meta.last
    OBVIOUS
  <2>3. meta.count > 0 => Full(index, n)'
    BY <1>4, <2>1, <2>2, SameChain
  <2> QED BY <1>4, <2>2, <2>3 DEF HistoryInv, Recorded
<1>11. /\ s.pc = "block" /\ s.tip = r.tip /\ s.next = r.next /\ s.got = r.got /\ s.n = r.n
       /\ s.puts = r.puts \ {e}
       /\ s = [pc |-> s.pc, tip |-> s.tip, next |-> s.next, got |-> s.got, n |-> s.n,
               puts |-> s.puts]
  <2>1. PICK t, x, g, m, p : r = [pc |-> "block", tip |-> t, next |-> x, got |-> g, n |-> m,
                                  puts |-> p]
    BY <1>4, <1>5 DEF IsIndexing
  <2>2. s = [pc |-> "block", tip |-> t, next |-> x, got |-> g, n |-> m, puts |-> p \ {e}]
    BY <1>3, <2>1
  <2> QED BY <2>1, <2>2
<1>12. IsIndexing(s)'
  <2>1. Full(index' \cup s.puts, r.next - 1)
    <3>1. ASSUME NEW d \in index \cup r.puts, d.h <= stable
          PROVE  \E f \in index' \cup s.puts : f.h = d.h /\ f.tx = d.tx
      BY <1>2, <1>8, <1>11, <3>1
    <3> QED BY <1>6, <3>1, FullKeeps
  <2>2. UNCHANGED <<byHeight, stable>>
    BY <1>4 DEF chainVars
  <2>3. Full(index \cup s.puts, s.next - 1)'
    BY <1>11, <2>1, <2>2 DEF Full, Have
  <2>4. \A d \in s.puts : d.h = s.next - 1 /\ d.h \in Nat /\ (d.h <= stable => Placed(d))
    BY <1>5, <1>11 DEF IsIndexing
  <2>5. \A d : Placed(d)' <=> Placed(d)
    BY <1>4, SameChain
  <2>6. s.next \in 0..s.tip + 1 /\ s.n \in Nat /\ s.got.count \in Nat
    BY <1>5, <1>11 DEF IsIndexing
  <2> QED BY <1>4, <1>11, <2>3, <2>4, <2>5, <2>6 DEF IsIndexing
<1>13. Current(r.tip)'
  <2>1. \A d \in index' : d = e \/ d \in index
    BY <1>2
  <2>2. ~ (r.tip < e.h)
    BY <1>5, <1>6
  <2> QED BY <1>4, <1>5, <2>1, <2>2 DEF Current
<1>14. Asks(s)'
  BY <1>11, <1>12, <1>13 DEF Asks
<1> QED BY <1>2, <1>3, <1>4, <1>9, <1>10, <1>14, QueryStep

LEMMA IndexedStep ==
  ASSUME HistoryInv, NEW c, Client = {c}, Indexed(c)
  PROVE  HistoryInv'
<1>1. PICK r : r = q[c]
  OBVIOUS
<1>2. PICK s : s = [pc |-> "list", tip |-> r.tip]
  OBVIOUS
<1>3. /\ r.pc = "block" /\ r.next > r.tip /\ r.puts = {}
      /\ q' = [q EXCEPT ![c] = s] /\ UNCHANGED <<chainVars, index>>
      /\ meta' = [last |-> r.tip, count |-> r.got.count + r.n]
      /\ UNCHANGED <<height, stable>>
  BY <1>1, <1>2 DEF Indexed, Step, chainVars
<1>4. Current(r.tip) /\ r.tip \in 0..MaxHeight /\ r.tip \in Nat /\ IsIndexing(r)
  BY <1>1, <1>3, BoundAssumption DEF HistoryInv, Asks, Current
<1>5. /\ r.n \in Nat /\ r.got.count \in Nat /\ r.next - 1 = r.tip
      /\ Full(index, r.tip)
  <2>1. r.next \in 0..r.tip + 1 /\ r.n \in Nat /\ r.got.count \in Nat
    BY <1>4 DEF IsIndexing
  <2>2. r.next - 1 = r.tip
    BY <1>3, <1>4, <2>1
  <2>3. index \cup r.puts = index
    BY <1>3
  <2> QED BY <1>4, <2>1, <2>2, <2>3 DEF IsIndexing
<1>6. Full(index, r.tip)'
  BY <1>3, <1>5, SameChain
<1>7. meta'.last = r.tip /\ meta'.count \in Nat
  BY <1>3, <1>5
<1>8. Entries'
  <2>1. \A d : Placed(d)' <=> Placed(d)
    BY <1>3, SameChain
  <2> QED BY <1>3, <2>1 DEF HistoryInv, Entries
<1>9. Recorded'
  BY <1>3, <1>4, <1>6, <1>7 DEF Recorded, Current
<1>10. Current(r.tip)'
  BY <1>3, <1>4, <1>7 DEF Current
<1>11. Asks(s)'
  <2>1. s.pc = "list" /\ s.tip = r.tip
    BY <1>2
  <2> QED BY <1>6, <1>10, <2>1 DEF Asks
<1> QED BY <1>3, <1>8, <1>9, <1>11, QueryStep

LEMMA EndStep ==
  ASSUME HistoryInv, NEW c, Client = {c}, List(c) \/ Crash
  PROVE  HistoryInv'
<1>1. q' = [q EXCEPT ![c] = Idle] /\ UNCHANGED <<chainVars, index, meta>>
  <2>1. CASE List(c)
    BY <2>1 DEF List, Step
  <2>2. CASE Crash
    <3>1. q = [d \in {c} |-> q[d]]
      BY DEF HistoryInv
    <3>2. q' = [d \in {c} |-> Idle] /\ UNCHANGED <<chainVars, index, meta>>
      BY <2>2 DEF Crash
    <3>3. [q EXCEPT ![c] = Idle] = [d \in {c} |-> Idle]
      BY <3>1
    <3> QED BY <3>2, <3>3
  <2> QED BY <2>1, <2>2
<1>2. Idle.pc = "idle"
  BY DEF Idle
<1>3. Asks(Idle)'
  BY <1>2 DEF Asks
<1> QED BY <1>1, <1>3, QueryStep, ReadStep

-----------------------------------------------------------------------------
(* The invariant, and the answers.                                          *)

LEMMA InitHistory == Init => HistoryInv
<1> SUFFICES ASSUME Init PROVE HistoryInv
  OBVIOUS
<1>1. MaxHeight \in Nat
  BY BoundAssumption
<1>2. Chains
  BY <1>1 DEF Init, Chains
<1>3. Entries
  BY FS_EmptySet DEF Init, Entries
<1>4. Recorded
  BY <1>1 DEF Init, Recorded, Fresh
<1>5. \A c \in Client : Asks(q[c])
  BY DEF Init, Asks, Idle
<1>6. q = [c \in Client |-> q[c]]
  BY DEF Init
<1> QED BY <1>2, <1>3, <1>4, <1>5, <1>6 DEF HistoryInv

LEMMA NextHistory ==
  ASSUME \E c : Client = {c}, HistoryInv, [Next]_vars
  PROVE  HistoryInv'
<1>1. PICK c : Client = {c}
  OBVIOUS
<1>2. CASE Extend
  BY <1>2, ExtendStays, ChainStep DEF HistoryInv, Extend
<1>3. CASE Reorg
  BY <1>3, ReorgStays, ChainStep DEF HistoryInv, Reorg
<1>4. CASE Replay
  BY <1>4, ReplayStays, ChainStep DEF HistoryInv, Replay
<1>5. CASE Crash
  BY <1>1, <1>5, EndStep
<1>6. CASE Query(c)
  BY <1>1, <1>6, ReadTipStep, ReadMetaStep, CollectStep, DeleteEntryStep, RolledBackStep,
     OpenStep, ReadBlockStep, PutEntryStep, IndexedStep, EndStep DEF Query
<1>7. CASE UNCHANGED vars
  <2>1. UNCHANGED <<chainVars, index, meta, q>>
    BY <1>7 DEF vars
  <2>2. PICK s : s = q[c]
    OBVIOUS
  <2>3. q' = [q EXCEPT ![c] = s]
    BY <1>1, <2>1, <2>2 DEF HistoryInv
  <2>4. Chains' /\ Stays
    <3>1. Chains'
      BY <2>1, SameChain DEF HistoryInv
    <3>2. stable \in Int /\ height \in Int
      BY <1>1, BoundAssumption DEF HistoryInv, Chains
    <3> QED BY <2>1, <3>1, <3>2 DEF Stays, chainVars
  <2> QED BY <2>1, <2>4, ChainStep
<1> QED BY <1>1, <1>2, <1>3, <1>4, <1>5, <1>6, <1>7 DEF Next

\* With one query at a time the index keeps what stays of the chain: the
\* strengthening behind StableHistoryAlways (getHistoryIndexed, IndexBlocks,
\* DeleteAbove).
THEOREM HistoryInvariant ==
  ASSUME \E c : Client = {c}
  PROVE  Spec => []HistoryInv
<1>1. Init => HistoryInv
  BY InitHistory
<1>2. HistoryInv /\ [Next]_vars => HistoryInv'
  BY NextHistory
<1> QED BY <1>1, <1>2, PTL DEF Spec

LEMMA HistoryGivesStable ==
  ASSUME HistoryInv, NEW c \in Client, Answers(c)
  PROVE  /\ Reported(Listed(stable)) = Due(Min({q[c].tip, stable}))
         /\ Cardinality(Listed(stable)) = Cardinality(Due(Min({q[c].tip, stable})))
<1> DEFINE n == Min({q[c].tip, stable})
           L == Listed(stable)
           D == Due(n)
<1>1. PICK tip : tip = q[c].tip
  OBVIOUS
<1>2. /\ Current(tip) /\ tip \in Nat /\ Full(index, tip)
      /\ stable \in Nat /\ height \in Nat /\ (stable < height \/ stable = MaxHeight)
  BY <1>1, BoundAssumption DEF HistoryInv, Asks, Answers, Current, Chains
<1>3. n \in Nat /\ n <= tip /\ n <= stable /\ (n = tip \/ n = stable)
  BY <1>1, <1>2, MinOfTwo
<1> HIDE DEF n
<1>4. \A h \in 0..n : h \in 0..tip /\ h <= stable
  BY <1>2, <1>3
<1>5. \A h \in 0..n : /\ h \in DOMAIN byHeight /\ Have(index, h)
                      /\ byHeight[h] \in Block \cup {<<>>}
  <2>1. ASSUME NEW h \in 0..n PROVE h \in DOMAIN byHeight /\ Have(index, h)
    <3>1. h \in 0..tip /\ h <= stable
      BY <1>4
    <3> QED BY <1>2, <3>1, StaysHasBlock DEF Full
  <2> QED BY <2>1 DEF HistoryInv, Chains
<1>6. \A e \in L : e \in index /\ e.h \in 0..n /\ Placed(e)
  <2> SUFFICES ASSUME NEW e \in L PROVE e \in index /\ e.h \in 0..n /\ Placed(e)
    OBVIOUS
  <2>1. e \in index /\ e.h \in Nat /\ e.h <= stable /\ Placed(e)
    BY DEF Listed, HistoryInv, Entries
  <2>2. ~ (tip < e.h)
    BY <1>2, <2>1 DEF Current
  <2> QED BY <1>2, <1>3, <2>1, <2>2
<1> DEFINE f == [e \in L |-> <<e.h, e.tx>>]
<1>7. ASSUME NEW e \in L PROVE <<e.h, e.tx>> \in D
  <2>1. e.h \in 0..n /\ Placed(e) /\ byHeight[e.h] \in Block \cup {<<>>}
    BY <1>5, <1>6
  <2>2. PICK k \in Own(byHeight[e.h]) : e.tx = byHeight[e.h][k]
    BY <2>1 DEF Placed
  <2>3. e.tx \in DOMAIN Tx /\ k \in DOMAIN byHeight[e.h] /\ Touches(e.tx)
    BY <2>1, <2>2, BlockFacts DEF Own
  <2>4. e.tx \in TxsOf(byHeight[e.h])
    BY <2>2, <2>3 DEF TxsOf
  <2> QED BY <2>1, <2>3, <2>4 DEF Due
<1>8. ASSUME NEW d \in D PROVE \E e \in L : d = <<e.h, e.tx>>
  <2>1. d \in (0..n) \X DOMAIN Tx /\ d[2] \in TxsOf(byHeight[d[1]]) /\ Touches(d[2])
    BY DEF Due
  <2>2. PICK h \in 0..n, x \in DOMAIN Tx : d = <<h, x>>
    BY <2>1
  <2>3. x \in TxsOf(byHeight[h]) /\ Touches(x)
    BY <2>1, <2>2
  <2>4. PICK k \in Own(byHeight[h]) : byHeight[h][k] = x
    BY <2>3 DEF TxsOf, Own
  <2>5. PICK e \in index : e.h = h /\ e.tx = x
    BY <1>5, <2>4 DEF Have
  <2>6. e \in L
    BY <1>4, <2>5 DEF Listed
  <2> QED BY <2>2, <2>5, <2>6
<1>9. ASSUME NEW d \in L, NEW e \in L, <<d.h, d.tx>> = <<e.h, e.tx>> PROVE d = e
  <2>1. d.h = e.h /\ d.tx = e.tx
    BY <1>9
  <2>2. PICK b \in Block \cup {<<>>} : b = byHeight[e.h]
    BY <1>5, <1>6
  <2>3. PICK j \in Own(b) : d.tx = b[j] /\ d.i = Rank(b, j)
    BY <1>6, <2>1, <2>2 DEF Placed
  <2>4. PICK k \in Own(b) : e.tx = b[k] /\ e.i = Rank(b, k)
    BY <1>6, <2>2 DEF Placed
  <2>5. j = k
    <3>1. j \in DOMAIN b /\ k \in DOMAIN b /\ b[j] = b[k]
      BY <2>1, <2>3, <2>4 DEF Own
    <3> QED BY <3>1, BlockFacts
  <2> QED BY <1>6, <2>1, <2>3, <2>4, <2>5 DEF HistoryInv, Entries
<1>10. Reported(L) = D
  <2> HIDE DEF L, D
  <2> QED BY <1>7, <1>8 DEF Reported
<1>11. Cardinality(L) = Cardinality(D)
  <2>1. L \in SUBSET index
    BY DEF Listed
  <2> HIDE DEF L, D
  <2>2. IsFiniteSet(L)
    BY <2>1, FS_Subset DEF HistoryInv, Entries
  <2>3. f \in [L -> D]
    BY <1>7
  <2>4. \A e \in L : f[e] = <<e.h, e.tx>>
    OBVIOUS
  <2> HIDE DEF f
  <2>5. \A d, e \in L : f[d] = f[e] => d = e
    BY <1>9, <2>4
  <2>6. \A d \in D : \E e \in L : f[e] = d
    BY <1>8, <2>4
  <2>7. f \in Bijection(L, D)
    BY <2>3, <2>5, <2>6 DEF Bijection, Injection, Surjection, IsInjective
  <2>8. ExistsBijection(L, D)
    BY <2>7 DEF ExistsBijection
  <2> QED BY <2>2, <2>8, FS_Bijection
<1> QED BY <1>10, <1>11 DEF n

\* For every wallet, every transactions and blocks, any number of reorgs and
\* crashes: an answer has each of the wallet's transactions of the blocks that
\* no reorg replaced once and at its height. One query at a time, as two lose
\* entries to each other (getHistoryIndexed holds no lock).
THEOREM StableHistoryAlways ==
  ASSUME \E c : Client = {c}
  PROVE  Spec => []StableHistory
<1>1. HistoryInv => StableHistory
  BY HistoryGivesStable DEF StableHistory
<1> QED BY <1>1, HistoryInvariant, PTL

-----------------------------------------------------------------------------
(* Sums over finite sets.                                                    *)

\* A family of subsets that has {} and all that adds an element has the set.
LEMMA SubsetInduction ==
  ASSUME NEW S, IsFiniteSet(S), NEW P, {} \in P,
         \A T \in SUBSET S : \A x \in S \ T : T \in P => T \cup {x} \in P
  PROVE  S \in P
<1> DEFINE Bad == {T \in SUBSET S : T \notin P}
           R == StrictSubsetOrdering(S)
<1> SUFFICES ASSUME Bad # {} PROVE FALSE
  OBVIOUS
<1>1. Bad \subseteq FiniteSubsetsOf(S)
  BY FS_Subset DEF FiniteSubsetsOf
<1>2. PICK T \in Bad : \A U \in Bad : ~ (<<U, T>> \in R)
  <2>1. IsWellFoundedOn(R, FiniteSubsetsOf(S))
    BY FS_StrictSubsetOrderingWellFounded
  <2> HIDE DEF Bad, R
  <2> QED BY <1>1, <2>1, WFMin
<1>3. T \in SUBSET S /\ T \notin P /\ T # {}
  OBVIOUS
<1>4. PICK x \in T : TRUE
  BY <1>3
<1>5. T \ {x} \in SUBSET S /\ x \in S \ (T \ {x}) /\ (T \ {x}) \cup {x} = T
  BY <1>3, <1>4
<1>6. T \ {x} \notin P
  BY <1>3, <1>5
<1>7. T \ {x} \in Bad
  BY <1>5, <1>6
<1>8. <<T \ {x}, T>> \in R
  BY <1>3, <1>4, <1>5 DEF StrictSubsetOrdering
<1> HIDE DEF Bad, R
<1> QED BY <1>2, <1>7, <1>8

\* The function the folds of the community modules define, for a sum of f.
Picked(s) == CHOOSE x \in s : TRUE
SumAt(f, g, s) == IF s = {} THEN 0 ELSE f[Picked(s)] + g[s \ {Picked(s)}]
Sums(f, S, g) == g = [s \in SUBSET S |-> SumAt(f, g, s)]
AddsUp(f, S, g) ==
  /\ g[{}] = 0
  /\ \A T \in SUBSET S : g[T] \in Int /\ \A x \in T : g[T] = f[x] + g[T \ {x}]

LEMMA PickedIn ==
  ASSUME NEW S, IsFiniteSet(S), S # {}
  PROVE  /\ Picked(S) \in S /\ IsFiniteSet(S \ {Picked(S)})
         /\ Cardinality(S \ {Picked(S)}) = Cardinality(S) - 1
         /\ Cardinality(S) \in Nat /\ Cardinality(S) > 0
<1>1. Picked(S) \in S
  BY DEF Picked
<1>2. Cardinality(S) \in Nat /\ Cardinality(S) # 0
  BY FS_CardinalityType, FS_EmptySet
<1> QED BY <1>1, <1>2, FS_RemoveElement

\* There is such a function.
LEMMA SumsExist ==
  ASSUME NEW S, IsFiniteSet(S), NEW f
  PROVE  \E g : Sums(f, S, g)
<1> DEFINE Upto(g, n) == \A s \in SUBSET S : Cardinality(s) <= n => g[s] = SumAt(f, g, s)
           P == {T \in SUBSET S : \E g : Upto(g, Cardinality(T))}
<1>1. {} \in P
  <2> DEFINE g == [s \in SUBSET S |-> 0]
  <2>1. Upto(g, Cardinality({}))
    <3> SUFFICES ASSUME NEW s \in SUBSET S, Cardinality(s) <= Cardinality({})
        PROVE  g[s] = SumAt(f, g, s)
      OBVIOUS
    <3>1. s = {}
      <4>1. IsFiniteSet(s) /\ Cardinality(s) \in Nat
        BY FS_Subset, FS_CardinalityType
      <4>2. Cardinality(s) = 0
        BY <4>1, FS_EmptySet
      <4> QED BY <4>1, <4>2, FS_EmptySet
    <3> QED BY <3>1 DEF SumAt
  <2> HIDE DEF Upto, g
  <2> QED BY <2>1
<1>2. ASSUME NEW T \in SUBSET S, NEW x \in S \ T, T \in P PROVE T \cup {x} \in P
  <2> DEFINE n == Cardinality(T)
  <2>1. n \in Nat /\ Cardinality(T \cup {x}) = n + 1
    <3>1. IsFiniteSet(T)
      BY FS_Subset
    <3> QED BY <3>1, FS_CardinalityType, FS_AddElement
  <2>2. PICK g : Upto(g, n)
    BY <1>2
  <2> HIDE DEF n
  <2> DEFINE h == [s \in SUBSET S |-> IF Cardinality(s) <= n THEN g[s] ELSE SumAt(f, g, s)]
  <2>3. ASSUME NEW s \in SUBSET S, Cardinality(s) <= n + 1 PROVE h[s] = SumAt(f, h, s)
    <3>1. IsFiniteSet(s)
      BY FS_Subset
    <3>2. h[s] = SumAt(f, g, s)
      BY <2>2
    <3>3. CASE s = {}
      BY <3>2, <3>3 DEF SumAt
    <3>4. CASE s # {}
      <4> DEFINE r == s \ {Picked(s)}
      <4>1. r \in SUBSET S /\ Cardinality(r) <= n
        <5>1. Cardinality(r) = Cardinality(s) - 1 /\ Cardinality(s) \in Nat
          BY <3>1, <3>4, PickedIn
        <5>2. r \in SUBSET S
          OBVIOUS
        <5> HIDE DEF r
        <5> QED BY <2>1, <2>3, <5>1, <5>2
      <4>2. h[r] = g[r]
        BY <4>1
      <4> HIDE DEF h
      <4> QED BY <3>2, <3>4, <4>2 DEF SumAt
    <3> QED BY <3>3, <3>4
  <2>4. Upto(h, Cardinality(T \cup {x}))
    <3> HIDE DEF h
    <3> QED BY <2>1, <2>3
  <2>5. T \cup {x} \in SUBSET S
    OBVIOUS
  <2> HIDE DEF Upto, h
  <2> QED BY <2>4, <2>5
<1>3. S \in P
  <2> HIDE DEF P
  <2> QED BY <1>1, <1>2, SubsetInduction
<1>4. PICK g : Upto(g, Cardinality(S))
  BY <1>3
<1> DEFINE h == [s \in SUBSET S |-> g[s]]
<1>5. ASSUME NEW s \in SUBSET S PROVE h[s] = SumAt(f, h, s)
  <2>1. IsFiniteSet(s) /\ Cardinality(s) <= Cardinality(S)
    BY FS_Subset
  <2>2. h[s] = SumAt(f, g, s)
    BY <1>4, <2>1
  <2>3. s \ {Picked(s)} \in SUBSET S
    OBVIOUS
  <2>4. h[s \ {Picked(s)}] = g[s \ {Picked(s)}]
    BY <2>3
  <2> HIDE DEF h
  <2> QED BY <2>2, <2>4 DEF SumAt
<1>6. Sums(f, S, h)
  <2>1. h = [s \in SUBSET S |-> h[s]]
    OBVIOUS
  <2>2. [s \in SUBSET S |-> h[s]] = [s \in SUBSET S |-> SumAt(f, h, s)]
    <3> HIDE DEF h
    <3> QED BY <1>5
  <2> HIDE DEF h
  <2> QED BY <2>1, <2>2 DEF Sums
<1> QED BY <1>6

\* Which element is taken first makes no difference.
LEMMA SumsAdd ==
  ASSUME NEW S, IsFiniteSet(S), NEW f, \A x \in S : f[x] \in Int, NEW g, Sums(f, S, g)
  PROVE  AddsUp(f, S, g)
<1>1. \A s \in SUBSET S : g[s] = SumAt(f, g, s)
  BY DEF Sums
<1>2. g[{}] = 0
  BY <1>1 DEF SumAt
<1> DEFINE Adds(T) == g[T] \in Int /\ \A x \in T : g[T] = f[x] + g[T \ {x}]
           Upto(n) == \A T \in SUBSET S : Cardinality(T) <= n => Adds(T)
           P == {T \in SUBSET S : Upto(Cardinality(T))}
<1>3. {} \in P
  <2>1. ASSUME NEW T \in SUBSET S, Cardinality(T) <= Cardinality({}) PROVE Adds(T)
    <3>1. IsFiniteSet(T) /\ Cardinality(T) \in Nat
      BY FS_Subset, FS_CardinalityType
    <3>2. T = {}
      BY <2>1, <3>1, FS_EmptySet
    <3> QED BY <1>2, <3>2
  <2> HIDE DEF Adds
  <2> QED BY <2>1
<1>4. ASSUME NEW U \in SUBSET S, NEW y \in S \ U, U \in P PROVE U \cup {y} \in P
  <2> DEFINE n == Cardinality(U)
  <2>1. n \in Nat /\ Cardinality(U \cup {y}) = n + 1
    <3>1. IsFiniteSet(U)
      BY FS_Subset
    <3> QED BY <3>1, FS_CardinalityType, FS_AddElement
  <2>2. Upto(n)
    BY <1>4
  <2> HIDE DEF n
  <2>3. ASSUME NEW T \in SUBSET S, Cardinality(T) <= n + 1 PROVE Adds(T)
    <3>1. IsFiniteSet(T)
      BY FS_Subset
    <3>2. CASE T = {}
      BY <1>2, <3>2
    <3>3. CASE T # {}
      <4> DEFINE p == Picked(T)
      <4>1. p \in T /\ f[p] \in Int /\ Cardinality(T) \in Nat
        BY <3>1, <3>3, PickedIn
      <4>2. ASSUME NEW x \in T
            PROVE  T \ {x} \in SUBSET S /\ Cardinality(T \ {x}) <= n
        <5>1. Cardinality(T \ {x}) = Cardinality(T) - 1
          BY <3>1, FS_RemoveElement
        <5> QED BY <2>1, <2>3, <4>1, <5>1
      <4>3. \A x \in T : Adds(T \ {x})
        <5> HIDE DEF Adds
        <5> QED BY <2>2, <4>2
      <4>4. g[T] = f[p] + g[T \ {p}]
        BY <1>1, <3>3 DEF SumAt
      <4> HIDE DEF p
      <4>5. g[T] \in Int
        <5>1. g[T \ {p}] \in Int
          BY <4>1, <4>3
        <5> QED BY <4>1, <4>4, <5>1
      <4>6. ASSUME NEW x \in T, x # p PROVE g[T] = f[x] + g[T \ {x}]
        <5>1. x \in T \ {p} /\ p \in T \ {x} /\ (T \ {p}) \ {x} = (T \ {x}) \ {p}
          BY <4>1, <4>6
        <5>2. /\ g[T \ {p}] = f[x] + g[(T \ {p}) \ {x}]
              /\ g[T \ {x}] = f[p] + g[(T \ {x}) \ {p}]
          BY <4>1, <4>3, <5>1
        <5>3. g[(T \ {p}) \ {x}] \in Int /\ f[x] \in Int
          <6>1. (T \ {p}) \ {x} \in SUBSET S /\ Cardinality((T \ {p}) \ {x}) <= n
            <7>1. IsFiniteSet(T \ {p}) /\ Cardinality(T \ {p}) <= n
                  /\ Cardinality(T \ {p}) \in Nat
              BY <3>1, <4>1, <4>2, FS_Subset, FS_CardinalityType
            <7>2. /\ IsFiniteSet((T \ {p}) \ {x})
                  /\ Cardinality((T \ {p}) \ {x}) <= Cardinality(T \ {p})
                  /\ Cardinality((T \ {p}) \ {x}) \in Nat
              BY <7>1, FS_Subset, FS_CardinalityType
            <7> QED BY <2>1, <7>1, <7>2
          <6> QED BY <2>2, <6>1
        <5> DEFINE a == f[p]
                   b == f[x]
                   c == g[(T \ {p}) \ {x}]
        <5>4. g[T] = a + (b + c) /\ g[T \ {x}] = a + c /\ {a, b, c} \subseteq Int
          BY <4>1, <4>4, <5>1, <5>2, <5>3
        <5> HIDE DEF a, c
        <5>5. g[T] = b + (a + c)
          BY <5>4
        <5> QED BY <5>4, <5>5
      <4> QED BY <4>4, <4>5, <4>6
    <3> QED BY <3>2, <3>3
  <2>4. Upto(Cardinality(U \cup {y}))
    <3> HIDE DEF Adds
    <3> QED BY <2>1, <2>3
  <2>5. U \cup {y} \in SUBSET S
    OBVIOUS
  <2> HIDE DEF Upto
  <2> QED BY <2>4, <2>5
<1>5. S \in P
  <2> HIDE DEF P
  <2> QED BY <1>3, <1>4, SubsetInduction
<1>6. \A T \in SUBSET S : Cardinality(T) <= Cardinality(S)
  BY FS_Subset
<1> QED BY <1>2, <1>5, <1>6 DEF AddsUp

\* Two such functions agree where what they add up does.
LEMMA SumsAgree ==
  ASSUME NEW S, IsFiniteSet(S), NEW f, \A x \in S : f[x] \in Int, NEW g, Sums(f, S, g),
         NEW T, IsFiniteSet(T), NEW e, \A x \in T : e[x] \in Int, NEW h, Sums(e, T, h),
         NEW U, U \subseteq S, U \subseteq T, \A x \in U : f[x] = e[x]
  PROVE  g[U] = h[U]
<1> DEFINE P == {V \in SUBSET U : g[V] = h[V]}
<1>1. AddsUp(f, S, g) /\ AddsUp(e, T, h)
  BY SumsAdd
<1>2. /\ g[{}] = 0 /\ \A V \in SUBSET S : \A x \in V : g[V] = f[x] + g[V \ {x}]
      /\ h[{}] = 0 /\ \A V \in SUBSET T : \A x \in V : h[V] = e[x] + h[V \ {x}]
  BY <1>1 DEF AddsUp
<1>3. {} \in P
  BY <1>2
<1>4. ASSUME NEW V \in SUBSET U, NEW x \in U \ V, V \in P PROVE V \cup {x} \in P
  <2> DEFINE W == V \cup {x}
  <2>1. W \in SUBSET S /\ W \in SUBSET T /\ W \in SUBSET U /\ x \in W /\ W \ {x} = V
    OBVIOUS
  <2> HIDE DEF W
  <2>2. g[W] = f[x] + g[V]
    BY <1>2, <2>1
  <2>3. h[W] = e[x] + h[V]
    BY <1>2, <2>1
  <2>4. g[W] = h[W]
    BY <1>4, <2>2, <2>3
  <2> QED BY <2>1, <2>4 DEF W
<1>5. IsFiniteSet(U)
  BY FS_Subset
<1>6. U \in P
  <2> HIDE DEF P
  <2> QED BY <1>3, <1>4, <1>5, SubsetInduction
<1> QED BY <1>6

\* The sum of f over S.
AddUp(f, S) == (CHOOSE g : Sums(f, S, g))[S]

LEMMA AddUpOf ==
  ASSUME NEW S, IsFiniteSet(S), NEW f, \A x \in S : f[x] \in Int, NEW g, Sums(f, S, g),
         NEW U, U \subseteq S
  PROVE  g[U] = AddUp(f, U)
<1> DEFINE h == CHOOSE h : Sums(f, U, h)
<1>1. IsFiniteSet(U)
  BY FS_Subset
<1>2. Sums(f, U, h)
  BY <1>1, SumsExist
<1> HIDE DEF h
<1>3. g[U] = h[U]
  BY <1>1, <1>2, SumsAgree
<1> QED BY <1>3 DEF AddUp, h

LEMMA AddUpAdd ==
  ASSUME NEW S, IsFiniteSet(S), NEW f, \A x \in S : f[x] \in Int
  PROVE  /\ AddUp(f, {}) = 0 /\ AddUp(f, S) \in Int
         /\ \A x \in S : AddUp(f, S) = f[x] + AddUp(f, S \ {x})
<1>1. PICK g : Sums(f, S, g)
  BY SumsExist
<1>2. \A U \in SUBSET S : g[U] = AddUp(f, U)
  BY <1>1, AddUpOf
<1>3. /\ g[{}] = 0 /\ g[S] \in Int
      /\ \A x \in S : g[S] = f[x] + g[S \ {x}]
  <2>1. /\ g[{}] = 0
        /\ \A T \in SUBSET S : g[T] \in Int /\ \A x \in T : g[T] = f[x] + g[T \ {x}]
    BY <1>1, SumsAdd DEF AddsUp
  <2> QED BY <2>1
<1> QED BY <1>2, <1>3

LEMMA AddUpSame ==
  ASSUME NEW S, IsFiniteSet(S), NEW f, NEW e, \A x \in S : f[x] \in Int /\ e[x] = f[x]
  PROVE  AddUp(e, S) = AddUp(f, S)
<1>1. PICK g : Sums(f, S, g)
  BY SumsExist
<1>2. PICK h : Sums(e, S, h)
  BY SumsExist
<1>3. h[S] = g[S]
  BY <1>1, <1>2, SumsAgree
<1>4. g[S] = AddUp(f, S)
  BY <1>1, AddUpOf
<1>5. h[S] = AddUp(e, S)
  BY <1>2, AddUpOf
<1> QED BY <1>3, <1>4, <1>5

LEMMA AddUpUnion ==
  ASSUME NEW S, IsFiniteSet(S), NEW T, IsFiniteSet(T), S \cap T = {},
         NEW f, \A x \in S \cup T : f[x] \in Int
  PROVE  AddUp(f, S \cup T) = AddUp(f, S) + AddUp(f, T)
<1> DEFINE P == {U \in SUBSET T : AddUp(f, S \cup U) = AddUp(f, S) + AddUp(f, U)}
<1>1. {} \in P
  <2>1. AddUp(f, S) \in Int /\ AddUp(f, {}) = 0 /\ S \cup {} = S
    BY AddUpAdd
  <2> QED BY <2>1
<1>2. ASSUME NEW U \in SUBSET T, NEW x \in T \ U, U \in P PROVE U \cup {x} \in P
  <2> DEFINE V == U \cup {x}
  <2>1. V \in SUBSET T /\ x \in V /\ V \ {x} = U /\ (S \cup V) \ {x} = S \cup U
    OBVIOUS
  <2>2. IsFiniteSet(V) /\ IsFiniteSet(S \cup V) /\ IsFiniteSet(U)
    BY FS_Subset, FS_Union
  <2> HIDE DEF V
  <2>3. \A y \in S \cup V : f[y] \in Int
    BY <2>1
  <2>4. AddUp(f, S \cup V) = f[x] + AddUp(f, S \cup U)
    BY <2>1, <2>2, <2>3, AddUpAdd
  <2>5. AddUp(f, V) = f[x] + AddUp(f, U)
    BY <2>1, <2>2, <2>3, AddUpAdd
  <2>6. AddUp(f, S) \in Int /\ AddUp(f, U) \in Int /\ f[x] \in Int
    BY <2>2, AddUpAdd
  <2>7. AddUp(f, S \cup U) = AddUp(f, S) + AddUp(f, U)
    BY <1>2
  <2> QED BY <2>1, <2>4, <2>5, <2>6, <2>7 DEF V
<1>3. T \in P
  <2> HIDE DEF P
  <2> QED BY <1>1, <1>2, SubsetInduction
<1> QED BY <1>3

\* Counting with other names.
Renames(S, m, T) ==
  /\ IsFiniteSet(S) /\ m \in [S -> T]
  /\ \A x, y \in S : m[x] = m[y] => x = y
  /\ \A z \in T : \E x \in S : z = m[x]

LEMMA AddUpImage ==
  ASSUME NEW S, NEW T, NEW m, Renames(S, m, T),
         NEW f, \A x \in S : f[x] \in Int,
         NEW e, \A x \in S : e[m[x]] = f[x]
  PROVE  IsFiniteSet(T) /\ AddUp(e, T) = AddUp(f, S)
<1> USE DEF Renames
<1>1. IsFiniteSet(T)
  <2>1. m \in Surjection(S, T)
    BY DEF Surjection
  <2> QED BY <2>1, FS_Surjection
<1> DEFINE Img(U) == {m[x] : x \in U}
           P == {U \in SUBSET S : AddUp(e, Img(U)) = AddUp(f, U)}
<1>2. {} \in P
  <2>1. Img({}) = {}
    OBVIOUS
  <2>2. AddUp(e, {}) = 0 /\ AddUp(f, {}) = 0
    BY FS_EmptySet, AddUpAdd
  <2> QED BY <2>1, <2>2
<1>3. ASSUME NEW U \in SUBSET S, NEW x \in S \ U, U \in P PROVE U \cup {x} \in P
  <2> DEFINE V == U \cup {x}
  <2>1. V \in SUBSET S /\ x \in V /\ V \ {x} = U
    OBVIOUS
  <2> HIDE DEF V
  <2>2. Img(V) \in SUBSET T /\ m[x] \in Img(V) /\ Img(V) \ {m[x]} = Img(U)
    BY <2>1
  <2>3. IsFiniteSet(V) /\ IsFiniteSet(Img(V))
    <3> HIDE DEF Img
    <3> QED BY <1>1, <2>1, <2>2, FS_Subset
  <2>4. \A z \in Img(V) : e[z] \in Int
    BY <2>1
  <2> HIDE DEF Img
  <2>5. AddUp(f, V) = f[x] + AddUp(f, U)
    BY <2>1, <2>3, AddUpAdd
  <2>6. AddUp(e, Img(V)) = e[m[x]] + AddUp(e, Img(U))
    <3> DEFINE I == Img(V)
    <3>1. IsFiniteSet(I) /\ \A z \in I : e[z] \in Int
      BY <2>3, <2>4
    <3> HIDE DEF I
    <3>2. \A z \in I : AddUp(e, I) = e[z] + AddUp(e, I \ {z})
      BY <3>1, AddUpAdd
    <3> QED BY <2>2, <3>2 DEF I
  <2> QED BY <1>3, <2>1, <2>5, <2>6 DEF V
<1>4. S \in P
  <2> HIDE DEF P
  <2> QED BY <1>2, <1>3, SubsetInduction
<1>5. Img(S) = T
  OBVIOUS
<1> QED BY <1>1, <1>4, <1>5


LEMMA AddUpZero ==
  ASSUME NEW S, IsFiniteSet(S), NEW f, \A x \in S : f[x] = 0
  PROVE  AddUp(f, S) = 0
<1> DEFINE P == {U \in SUBSET S : AddUp(f, U) = 0}
<1>1. {} \in P
  BY FS_EmptySet, AddUpAdd
<1>2. ASSUME NEW U \in SUBSET S, NEW x \in S \ U, U \in P PROVE U \cup {x} \in P
  <2> DEFINE V == U \cup {x}
  <2>1. V \in SUBSET S /\ x \in V /\ V \ {x} = U
    OBVIOUS
  <2> HIDE DEF V
  <2>2. IsFiniteSet(V) /\ \A y \in V : f[y] \in Int
    BY <2>1, FS_Subset
  <2>3. AddUp(f, V) = f[x] + AddUp(f, U)
    BY <2>1, <2>2, AddUpAdd
  <2> QED BY <1>2, <2>1, <2>3 DEF V
<1>3. S \in P
  <2> HIDE DEF P
  <2> QED BY <1>1, <1>2, SubsetInduction
<1> QED BY <1>3

\* The sums of the model are such sums.
LEMMA EffectSum ==
  ASSUME NEW S, IsFiniteSet(S), \A e \in S : Effect(e) \in Int
  PROVE  MapThenSumSet(Effect, S) = AddUp([e \in S |-> Effect(e)], S)
<1> DEFINE f == [e \in S |-> Effect(e)]
           ch(s) == CHOOSE x \in s : TRUE
           A(g) == g = [s \in SUBSET S |-> IF s = {} THEN 0 ELSE Effect(ch(s)) + g[s \ {ch(s)}]]
           G == CHOOSE g : A(g)
<1>1. MapThenSumSet(Effect, S) = G[S]
  BY DEF MapThenSumSet, MapThenFoldSet
<1>2. ASSUME NEW s \in SUBSET S, s # {} PROVE Effect(ch(s)) = f[ch(s)]
  <2>1. ch(s) \in S
    BY <1>2
  <2> HIDE DEF ch
  <2> QED BY <2>1
<1>3. ASSUME NEW g PROVE A(g) <=> Sums(f, S, g)
  <2> HIDE DEF ch, f
  <2>1. [s \in SUBSET S |-> IF s = {} THEN 0 ELSE Effect(ch(s)) + g[s \ {ch(s)}]]
      = [s \in SUBSET S |-> IF s = {} THEN 0 ELSE f[ch(s)] + g[s \ {ch(s)}]]
    BY <1>2
  <2>2. \A s : ch(s) = Picked(s)
    BY DEF ch, Picked
  <2> QED BY <2>1, <2>2 DEF Sums, SumAt
<1>4. Sums(f, S, G)
  <2> HIDE DEF A, f
  <2>1. \E g : A(g)
    BY <1>3, SumsExist
  <2> QED BY <1>3, <2>1
<1>5. \A e \in S : f[e] \in Int
  OBVIOUS
<1> HIDE DEF G, f
<1>6. G[S] = AddUp(f, S)
  BY <1>4, <1>5, AddUpOf
<1> QED BY <1>1, <1>6 DEF f

LEMMA InputSumIs ==
  ASSUME NEW S, IsFiniteSet(S), \A n \in S : Spent(n).value \in Int
  PROVE  InputSum(S) = AddUp([n \in S |-> Spent(n).value], S)
<1> DEFINE f == [n \in S |-> Spent(n).value]
           ch(s) == CHOOSE x \in s : TRUE
           A(g) == g = [s \in SUBSET S |-> IF s = {} THEN 0 ELSE Spent(ch(s)).value + g[s \ {ch(s)}]]
           G == CHOOSE g : A(g)
<1>1. InputSum(S) = G[S]
  BY DEF InputSum, MapThenSumSet, MapThenFoldSet
<1>2. ASSUME NEW s \in SUBSET S, s # {} PROVE Spent(ch(s)).value = f[ch(s)]
  <2>1. ch(s) \in S
    BY <1>2
  <2> HIDE DEF ch
  <2> QED BY <2>1
<1>3. ASSUME NEW g PROVE A(g) <=> Sums(f, S, g)
  <2> HIDE DEF ch, f
  <2>1. [s \in SUBSET S |-> IF s = {} THEN 0 ELSE Spent(ch(s)).value + g[s \ {ch(s)}]]
      = [s \in SUBSET S |-> IF s = {} THEN 0 ELSE f[ch(s)] + g[s \ {ch(s)}]]
    BY <1>2
  <2>2. \A s : ch(s) = Picked(s)
    BY DEF ch, Picked
  <2> QED BY <2>1, <2>2 DEF Sums, SumAt
<1>4. Sums(f, S, G)
  <2> HIDE DEF A, f
  <2>1. \E g : A(g)
    BY <1>3, SumsExist
  <2> QED BY <1>3, <2>1
<1>5. \A n \in S : f[n] \in Int
  OBVIOUS
<1> HIDE DEF G, f
<1>6. G[S] = AddUp(f, S)
  BY <1>4, <1>5, AddUpOf
<1> QED BY <1>1, <1>6 DEF f

\* What an output is worth to its owner.
Worth(u) == Tx[u[1]].outs[u[2]].value

LEMMA CoinSumIs ==
  ASSUME NEW S, IsFiniteSet(S), \A u \in S : Worth(u) \in Int
  PROVE  CoinSum(S) = AddUp([u \in S |-> Worth(u)], S)
<1> DEFINE f == [u \in S |-> Worth(u)]
           ch(s) == CHOOSE x \in s : TRUE
           A(g) == g = [s \in SUBSET S |-> IF s = {} THEN 0 ELSE Worth(ch(s)) + g[s \ {ch(s)}]]
           G == CHOOSE g : A(g)
<1>1. CoinSum(S) = G[S]
  BY DEF CoinSum, MapThenSumSet, MapThenFoldSet, Worth
<1>2. ASSUME NEW s \in SUBSET S, s # {} PROVE Worth(ch(s)) = f[ch(s)]
  <2>1. ch(s) \in S
    BY <1>2
  <2> HIDE DEF ch
  <2> QED BY <2>1
<1>3. ASSUME NEW g PROVE A(g) <=> Sums(f, S, g)
  <2> HIDE DEF ch, f
  <2>1. [s \in SUBSET S |-> IF s = {} THEN 0 ELSE Worth(ch(s)) + g[s \ {ch(s)}]]
      = [s \in SUBSET S |-> IF s = {} THEN 0 ELSE f[ch(s)] + g[s \ {ch(s)}]]
    BY <1>2
  <2>2. \A s : ch(s) = Picked(s)
    BY DEF ch, Picked
  <2> QED BY <2>1, <2>2 DEF Sums, SumAt
<1>4. Sums(f, S, G)
  <2> HIDE DEF A, f
  <2>1. \E g : A(g)
    BY <1>3, SumsExist
  <2> QED BY <1>3, <2>1
<1>5. \A u \in S : f[u] \in Int
  OBVIOUS
<1> HIDE DEF G, f
<1>6. G[S] = AddUp(f, S)
  BY <1>4, <1>5, AddUpOf
<1> QED BY <1>1, <1>6 DEF f

-----------------------------------------------------------------------------
(* What a transaction takes from the wallet and gives to it.                *)

AllCoins == UNION {{<<x, i>> : i \in DOMAIN Tx[x].outs} : x \in DOMAIN Tx}
worth    == [u \in AllCoins |-> Worth(u)]
CoinsIn(x, outs) == {<<x, i>> : i \in {i \in DOMAIN Tx[x].outs : Tx[x].outs[i] \in outs}}
Gain(x) == AddUp(worth, OurCoins({x}))
Loss(x) == AddUp(worth, SpentBy({x}) \cap OurCoins(DOMAIN Tx))

LEMMA CoinFacts ==
  ASSUME NEW x \in DOMAIN Tx, NEW outs
  PROVE  /\ IsFiniteSet(CoinsIn(x, outs)) /\ CoinsIn(x, outs) \subseteq AllCoins
         /\ \A u \in AllCoins : worth[u] = Worth(u) /\ worth[u] \in Nat
<1> DEFINE D == {i \in DOMAIN Tx[x].outs : Tx[x].outs[i] \in outs}
           m == [i \in D |-> <<x, i>>]
<1>1. IsFiniteSet(D)
  <2>1. PICK N \in Nat : DOMAIN Tx[x].outs = 1..N
    BY TxAssumption
  <2>2. IsFiniteSet(1..N) /\ D \subseteq 1..N
    BY <2>1, FS_Interval
  <2> HIDE DEF D
  <2> QED BY <2>2, FS_Subset
<1>2. IsFiniteSet(CoinsIn(x, outs))
  <2>1. m \in Surjection(D, CoinsIn(x, outs))
    BY DEF CoinsIn, Surjection
  <2> HIDE DEF m, D
  <2> QED BY <1>1, <2>1, FS_Surjection
<1>3. CoinsIn(x, outs) \subseteq AllCoins
  BY DEF CoinsIn, AllCoins
<1>4. ASSUME NEW u \in AllCoins PROVE worth[u] = Worth(u) /\ worth[u] \in Nat
  <2>1. PICK y \in DOMAIN Tx : \E i \in DOMAIN Tx[y].outs : u = <<y, i>>
    BY DEF AllCoins
  <2> PICK i \in DOMAIN Tx[y].outs : u = <<y, i>>
    BY <2>1
  <2>2. Tx[y].outs[i].value \in Nat
    BY TxAssumption
  <2>3. Worth(u) \in Nat
    BY <2>1, <2>2 DEF Worth
  <2>4. worth[u] = Worth(u)
    BY DEF worth
  <2> QED BY <2>3, <2>4
<1> QED BY <1>2, <1>3, <1>4

LEMMA TotalIs ==
  ASSUME NEW x \in DOMAIN Tx, NEW outs
  PROVE  Total(Tx[x], outs) \in Nat /\ Total(Tx[x], outs) = AddUp(worth, CoinsIn(x, outs))
<1> DEFINE o == Tx[x].outs
           N == Len(o)
           v == [i \in 1..N |-> IF o[i] \in outs THEN o[i].value ELSE 0]
           sum == CHOOSE g : g = [i \in 0..N |-> IF i = 0 THEN 0 ELSE g[i - 1] + v[i]]
           C(n) == {<<x, i>> : i \in {i \in 1..n : o[i] \in outs}}
           S == {n \in 0..N : sum[n] = AddUp(worth, C(n))}
<1>1. N \in Nat /\ DOMAIN o = 1..N /\ \A i \in 1..N : o[i].value \in Nat
  BY TxAssumption
<1>2. Total(Tx[x], outs) = sum[N]
  BY DEF Total
<1> HIDE DEF o
<1>3. \A i \in 1..N : v[i] = (IF o[i] \in outs THEN o[i].value ELSE 0)
  OBVIOUS
<1>4. /\ sum[N] \in Nat /\ sum[0] = 0
      /\ \A i \in 1..N : sum[i] = sum[i - 1] + v[i]
  <2>1. \A i \in 1..N : v[i] \in Nat
    BY <1>1, <1>3
  <2> HIDE DEF v, N
  <2>2. sum = CHOOSE g : g = [i \in 0..N |-> IF i = 0 THEN 0 ELSE g[i - 1] + v[i]]
    OBVIOUS
  <2> HIDE DEF sum
  <2>3. RunsUp(N, v, sum)
    BY <1>1, <2>1, <2>2, SumOf
  <2> QED BY <2>3 DEF RunsUp
<1> HIDE DEF v, sum, N
<1>5. C(N) = CoinsIn(x, outs)
  BY <1>1 DEF CoinsIn, o
<1>6. \A n \in 0..N : C(n) \subseteq C(N)
  BY <1>1
<1>7. \A n \in 0..N : IsFiniteSet(C(n)) /\ \A u \in C(n) : worth[u] \in Int
  <2> HIDE DEF C
  <2>1. IsFiniteSet(C(N)) /\ \A u \in C(N) : worth[u] \in Int
    <3>1. /\ IsFiniteSet(CoinsIn(x, outs)) /\ CoinsIn(x, outs) \subseteq AllCoins
          /\ \A u \in AllCoins : worth[u] \in Nat
      BY CoinFacts
    <3> QED BY <1>5, <3>1
  <2> QED BY <1>6, <2>1, FS_Subset
<1>8. 0 \in S
  <2>1. C(0) = {}
    OBVIOUS
  <2> HIDE DEF C
  <2>2. AddUp(worth, C(0)) = 0
    BY <2>1, FS_EmptySet, AddUpAdd
  <2> QED BY <1>1, <1>4, <2>2
<1>9. ASSUME NEW n \in 0..N - 1, n \in S PROVE n + 1 \in S
  <2>1. n + 1 \in 0..N /\ n + 1 \in 1..N /\ (n + 1) - 1 = n /\ n \in 0..N
    BY <1>1
  <2>2. sum[n + 1] = sum[n] + v[n + 1] /\ sum[n] = AddUp(worth, C(n))
    BY <1>4, <1>9, <2>1
  <2>3. \A i \in 1..n + 1 : i \in 1..n \/ i = n + 1
    BY <1>1
  <2>4. CASE o[n + 1] \in outs
    <3> DEFINE u == <<x, n + 1>>
    <3>1. u \in C(n + 1) /\ C(n + 1) \ {u} = C(n)
      BY <2>1, <2>3, <2>4
    <3>2. worth[u] = v[n + 1]
      <4>1. u \in AllCoins
        BY <1>1, <2>1 DEF AllCoins, o
      <4>2. worth[u] = o[n + 1].value
        BY <4>1 DEF worth, Worth, o
      <4> QED BY <1>3, <2>1, <2>4, <4>2
    <3> HIDE DEF u
    <3>3. IsFiniteSet(C(n + 1)) /\ \A w \in C(n + 1) : worth[w] \in Int
      BY <1>7, <2>1
    <3>4. IsFiniteSet(C(n)) /\ \A w \in C(n) : worth[w] \in Int
      BY <1>7, <2>1
    <3> HIDE DEF C
    <3>5. AddUp(worth, C(n + 1)) = worth[u] + AddUp(worth, C(n))
      BY <3>1, <3>3, AddUpAdd
    <3>6. AddUp(worth, C(n)) \in Int /\ worth[u] \in Int
      BY <3>1, <3>3, <3>4, AddUpAdd
    <3> QED BY <2>1, <2>2, <3>2, <3>5, <3>6
  <2>5. CASE o[n + 1] \notin outs
    <3>1. C(n + 1) = C(n)
      BY <2>1, <2>3, <2>5
    <3>2. v[n + 1] = 0
      BY <1>3, <2>1, <2>5
    <3>3. AddUp(worth, C(n)) \in Int
      <4>1. IsFiniteSet(C(n)) /\ \A w \in C(n) : worth[w] \in Int
        BY <1>7, <2>1
      <4> HIDE DEF C
      <4> QED BY <4>1, AddUpAdd
    <3> HIDE DEF C
    <3> QED BY <2>1, <2>2, <3>1, <3>2, <3>3
  <2> QED BY <2>4, <2>5
<1>10. N \in S
  <2> HIDE DEF S
  <2>1. \A n \in 0..N : n \in S
    BY <1>1, <1>8, <1>9, BoundedInduction
  <2> QED BY <1>1, <2>1
<1>11. sum[N] = AddUp(worth, C(N))
  <2> HIDE DEF C
  <2> QED BY <1>10
<1> HIDE DEF C
<1> QED BY <1>2, <1>4, <1>5, <1>11

LEMMA TotalSplit ==
  ASSUME NEW x \in DOMAIN Tx, NEW A, NEW B, A \cap B = {}
  PROVE  Total(Tx[x], A \cup B) = Total(Tx[x], A) + Total(Tx[x], B)
<1>1. /\ CoinsIn(x, A \cup B) = CoinsIn(x, A) \cup CoinsIn(x, B)
      /\ CoinsIn(x, A) \cap CoinsIn(x, B) = {}
  BY DEF CoinsIn
<1>2. /\ IsFiniteSet(CoinsIn(x, A)) /\ IsFiniteSet(CoinsIn(x, B))
      /\ \A u \in CoinsIn(x, A) \cup CoinsIn(x, B) : worth[u] \in Int
  <2>1. CoinsIn(x, A) \subseteq AllCoins /\ CoinsIn(x, B) \subseteq AllCoins
    BY CoinFacts
  <2> QED BY <2>1, CoinFacts
<1>3. AddUp(worth, CoinsIn(x, A) \cup CoinsIn(x, B))
        = AddUp(worth, CoinsIn(x, A)) + AddUp(worth, CoinsIn(x, B))
  BY <1>1, <1>2, AddUpUnion
<1> QED BY <1>1, <1>3, TotalIs

\* Outputs without a value add nothing.
LEMMA TotalSame ==
  ASSUME NEW x \in DOMAIN Tx, NEW A, NEW B,
         \A o \in Outs(Tx[x]) : o.value > 0 => (o \in A <=> o \in B)
  PROVE  Total(Tx[x], A) = Total(Tx[x], B)
<1>1. ASSUME NEW C, \A o \in Outs(Tx[x]) : o \in C => ~ (o.value > 0)
      PROVE  Total(Tx[x], C) = 0
  <2>1. ~ (Total(Tx[x], C) > 0)
    <3>1. \A i \in DOMAIN Tx[x].outs : Tx[x].outs[i] \in Outs(Tx[x])
      BY DEF Outs
    <3> QED BY <1>1, <3>1, TotalPositive
  <2>2. Total(Tx[x], C) \in Nat
    BY TotalIs
  <2> QED BY <2>1, <2>2
<1>2. Total(Tx[x], A \ B) = 0 /\ Total(Tx[x], B \ A) = 0
  BY <1>1
<1>3. /\ (A \cap B) \cup (A \ B) = A /\ (A \cap B) \cap (A \ B) = {}
      /\ (A \cap B) \cup (B \ A) = B /\ (A \cap B) \cap (B \ A) = {}
  OBVIOUS
<1>4. Total(Tx[x], A) = Total(Tx[x], A \cap B) + Total(Tx[x], A \ B)
  BY <1>3, TotalSplit
<1>5. Total(Tx[x], B) = Total(Tx[x], A \cap B) + Total(Tx[x], B \ A)
  BY <1>3, TotalSplit
<1> QED BY <1>2, <1>4, <1>5

LEMMA FirstCase ==
  ASSUME NEW x \in DOMAIN Tx, NEW found
  PROVE  \E m \in 1..11 : /\ Cases(Tx[x], found)[m].on
                          /\ \A i \in 1..11 : i < m => ~ Cases(Tx[x], found)[i].on
                          /\ Classify(Tx[x], found) = Cases(Tx[x], found)[m].says
<1> DEFINE c == Cases(Tx[x], found)
           S == {i \in DOMAIN c : c[i].on}
<1>1. DOMAIN c = 1..11 /\ c[11].on
  BY DEF Cases
<1>2. Classify(Tx[x], found) = c[Min(S)].says
  BY DEF Classify
<1> HIDE DEF c
<1>3. IsFiniteSet(S) /\ S \in SUBSET (1..11) /\ S # {}
  <2>1. IsFiniteSet(1..11)
    <3>1. \A n \in Int : IsFiniteSet(1..n)
      BY FS_Interval
    <3>2. 11 \in Int
      OBVIOUS
    <3> QED BY <3>1, <3>2, Zenon
  <2>2. S \in SUBSET (1..11) /\ 11 \in S
    BY <1>1
  <2> HIDE DEF S
  <2> QED BY <2>1, <2>2, FS_Subset
<1>4. Min(S) \in S /\ \A i \in S : Min(S) <= i
  <2> HIDE DEF S
  <2>1. S \in SUBSET Nat
    BY <1>3
  <2> QED BY <1>3, <2>1, MinIsLeast
<1> DEFINE m == Min(S)
<1>5. m \in 1..11 /\ c[m].on /\ \A i \in 1..11 : c[i].on => m <= i
  BY <1>1, <1>4
<1> HIDE DEF S, m
<1>6. \A i \in 1..11 : i < m => ~ c[i].on
  BY <1>5
<1> QED BY <1>2, <1>5, <1>6 DEF c, m

\* The inputs of an ordinary transaction, as coins.
LEMMA InputFacts ==
  ASSUME NEW x \in DOMAIN Tx, Ordinary(x)
  PROVE  /\ \A n \in Tx[x].ins : n.from[1] \in DOMAIN Tx =>
              /\ n.from \in AllCoins /\ Spent(n).value = worth[n.from]
              /\ n.from \in OurCoins(DOMAIN Tx) <=> IsOurs(Spent(n))
              /\ n.addr = Spent(n).addr
         /\ \A n \in Tx[x].ins : n.addr \in Mine => n.from[1] \in DOMAIN Tx
         /\ \A m, n \in Tx[x].ins : m.from = n.from => m = n
         /\ SpentBy({x}) = {n.from : n \in Tx[x].ins}
         /\ OurCoins(DOMAIN Tx) \subseteq AllCoins
         /\ \A u \in OurCoins(DOMAIN Tx) : u[1] \in DOMAIN Tx
<1>1. ASSUME NEW n \in Tx[x].ins, n.from[1] \in DOMAIN Tx
      PROVE  /\ n.from \in AllCoins /\ Spent(n).value = worth[n.from]
             /\ n.from \in OurCoins(DOMAIN Tx) <=> IsOurs(Spent(n))
             /\ n.addr = Spent(n).addr
  <2> DEFINE y == n.from[1]
             j == n.from[2]
  <2>1. n.from = <<y, j>> /\ j \in DOMAIN Tx[y].outs /\ n.addr = Spent(n).addr
    BY <1>1 DEF Ordinary
  <2>2. n.from \in AllCoins
    BY <1>1, <2>1 DEF AllCoins
  <2>3. Spent(n).value = worth[n.from]
    BY <2>2 DEF worth, Worth, Spent
  <2>4. n.from \in OurCoins(DOMAIN Tx) <=> IsOurs(Tx[y].outs[j])
    <3> HIDE DEF y, j
    <3>1. <<y, j>> \in OurCoins(DOMAIN Tx) => IsOurs(Tx[y].outs[j])
      BY DEF OurCoins
    <3>2. IsOurs(Tx[y].outs[j]) => <<y, j>> \in OurCoins(DOMAIN Tx)
      BY <1>1, <2>1 DEF OurCoins, y
    <3> QED BY <2>1, <3>1, <3>2
  <2> QED BY <2>1, <2>2, <2>3, <2>4 DEF Spent
<1>2. \A n \in Tx[x].ins : n.addr \in Mine => n.from[1] \in DOMAIN Tx
  BY DEF Ordinary
<1>3. \A m, n \in Tx[x].ins : m.from = n.from => m = n
  BY DEF Ordinary
<1>4. SpentBy({x}) = {n.from : n \in Tx[x].ins}
  <2>1. UNION {Tx[y].ins : y \in {x}} = Tx[x].ins
    OBVIOUS
  <2> QED BY <2>1 DEF SpentBy
<1>5. OurCoins(DOMAIN Tx) \subseteq AllCoins /\ \A u \in OurCoins(DOMAIN Tx) : u[1] \in DOMAIN Tx
  BY DEF OurCoins, AllCoins
<1> QED BY <1>1, <1>2, <1>3, <1>4, <1>5

\* A transaction that spends none of the wallet's plain coins takes nothing.
LEMMA NoLoss ==
  ASSUME NEW x \in DOMAIN Tx, Ordinary(x),
         \A n \in Tx[x].ins : n.from[1] \in DOMAIN Tx => ~ IsOurs(Spent(n))
  PROVE  Loss(x) = 0
<1>1. SpentBy({x}) \cap OurCoins(DOMAIN Tx) = {}
  BY InputFacts
<1>2. AddUp(worth, {}) = 0
  BY FS_EmptySet, AddUpAdd
<1> QED BY <1>1, <1>2 DEF Loss

\* One that spends plain coins only takes what its inputs add up to.
LEMMA LossIs ==
  ASSUME NEW x \in DOMAIN Tx, Ordinary(x),
         \A n \in Tx[x].ins : /\ n.from[1] \in DOMAIN Tx
                              /\ IsOurs(Spent(n)) \/ Spent(n).value = 0
  PROVE  Loss(x) = InputSum(Tx[x].ins) /\ Loss(x) \in Int
<1> DEFINE I == Tx[x].ins
           V == {n \in I : IsOurs(Spent(n))}
           T == SpentBy({x}) \cap OurCoins(DOMAIN Tx)
           f == [n \in I |-> Spent(n).value]
           m == [n \in V |-> n.from]
<1>1. IsFiniteSet(I)
  BY TxAssumption
<1>2. \A n \in I : /\ n.from \in AllCoins /\ Spent(n).value = worth[n.from] /\ worth[n.from] \in Nat
                   /\ n.from \in OurCoins(DOMAIN Tx) <=> IsOurs(Spent(n))
  <2>1. \A u \in AllCoins : worth[u] \in Nat
    BY CoinFacts
  <2> QED BY <2>1, InputFacts
<1>3. \A n \in I : f[n] = Spent(n).value /\ f[n] = worth[n.from] /\ f[n] \in Int
  BY <1>2
<1>4. T = {n.from : n \in V}
  BY <1>2, InputFacts
<1>5. /\ m \in [V -> T] /\ \A n \in V : m[n] = n.from
      /\ \A z \in T : \E n \in V : z = m[n]
      /\ \A k, n \in V : m[k] = m[n] => k = n
  <2> HIDE DEF T
  <2>1. m \in [V -> T] /\ \A n \in V : m[n] = n.from
    BY <1>4
  <2>2. \A z \in T : \E n \in V : z = n.from
    BY <1>4
  <2>3. \A k, n \in V : k.from = n.from => k = n
    BY InputFacts
  <2> HIDE DEF m, V
  <2> QED BY <2>1, <2>2, <2>3
<1>6. V \subseteq I /\ I = V \cup (I \ V) /\ V \cap (I \ V) = {} /\ \A n \in I \ V : f[n] = 0
  BY <1>3
<1> HIDE DEF I, T, f, m, V
<1>7. IsFiniteSet(V) /\ IsFiniteSet(I \ V)
  BY <1>1, <1>6, FS_Subset
<1>8. AddUp(worth, T) = AddUp(f, V)
  <2>1. Renames(V, m, T)
    BY <1>5, <1>7 DEF Renames
  <2>2. \A n \in V : f[n] \in Int
    BY <1>3, <1>6
  <2>3. \A n \in V : worth[m[n]] = f[n]
    BY <1>3, <1>5, <1>6
  <2> QED BY <2>1, <2>2, <2>3, AddUpImage
<1>9. AddUp(f, I) = AddUp(f, V) + AddUp(f, I \ V)
  <2>1. \A n \in V \cup (I \ V) : f[n] \in Int
    BY <1>3, <1>6
  <2> QED BY <1>6, <1>7, <2>1, AddUpUnion
<1>10. AddUp(f, I \ V) = 0 /\ AddUp(f, V) \in Int
  <2>1. \A n \in V : f[n] \in Int
    BY <1>3, <1>6
  <2>2. AddUp(f, I \ V) = 0
    BY <1>6, <1>7, AddUpZero
  <2>3. AddUp(f, V) \in Int
    BY <1>7, <2>1, AddUpAdd
  <2> QED BY <2>2, <2>3
<1>11. InputSum(I) = AddUp(f, I)
  <2>1. \A n \in I : Spent(n).value \in Int
    BY <1>3
  <2> QED BY <1>1, <2>1, InputSumIs DEF f
<1> QED BY <1>8, <1>9, <1>10, <1>11 DEF Loss, T, I

\* What it gives is what classifyTx counts as kept.
LEMMA GainIs ==
  ASSUME NEW x \in DOMAIN Tx, Ordinary(x)
  PROVE  LET t == Tx[x] IN
         /\ Gain(x) = Total(t, {o \in Outs(t) : OurPlain(o)})
         /\ Gain(x) \in Nat
<1> DEFINE t == Tx[x]
           A == {o \in Outs(t) : IsOurs(o)}
<1>1. OurCoins({x}) = CoinsIn(x, A)
  <2>1. OurCoins({x}) = {<<x, i>> : i \in {i \in DOMAIN t.outs : IsOurs(t.outs[i])}}
    BY DEF OurCoins
  <2>2. \A i \in DOMAIN t.outs : IsOurs(t.outs[i]) <=> t.outs[i] \in A
    BY DEF Outs
  <2> HIDE DEF A
  <2> QED BY <2>1, <2>2 DEF CoinsIn
<1>2. \A o \in Outs(t) : o.value > 0 => (o \in A <=> o \in {p \in Outs(t) : OurPlain(p)})
  <2> SUFFICES ASSUME NEW o \in Outs(t), o.value > 0 PROVE IsOurs(o) => OurPlain(o)
    BY DEF OurPlain
  <2>1. o.token \in Nat /\ (o.token > 0 => o.value = 0)
    BY TxAssumption DEF Ordinary, Outs
  <2> QED BY <2>1 DEF OurPlain
<1> HIDE DEF A
<1>3. Total(t, A) = Total(t, {p \in Outs(t) : OurPlain(p)})
  BY <1>2, TotalSame
<1>4. Total(t, A) = Gain(x) /\ Total(t, A) \in Nat
  BY <1>1, TotalIs DEF Gain
<1> QED BY <1>3, <1>4

-----------------------------------------------------------------------------
(* An entry says what the transaction gives to the wallet less what it      *)
(* takes, case by case.                                                     *)

Kept(t)    == Total(t, {o \in Outs(t) : OurPlain(o)})
Sent(t)    == Total(t, {o \in Outs(t) : Plain(o)})
With(t, s) == Total(t, {o \in Outs(t) : o.script = s})
Tokens(t)  == {i \in DOMAIN t.outs : t.outs[i].token > 0}
Unstakes(t, found) == \E n \in t.ins : n.from[1] \in found /\ Spent(n).script = "stake"
Tells(e, c) == e.type = c.type /\ e.amount = c.amount /\ e.fee = c.fee /\ e.to = c.to

LEMMA CasesAre ==
  ASSUME NEW t, NEW found, NEW c, c = Cases(t, found)
  PROVE  /\ c[1].on => t.coinbase
         /\ c[2].on <=> Has(t, "stake") /\ Ours(t) # {}
         /\ c[3].on <=> Unstakes(t, found) /\ Ours(t) # {}
         /\ c[4].on <=> Has(t, "register") /\ Ours(t) # {}
         /\ c[5].on <=> Has(t, "mint") /\ Ours(t) # {}
         /\ c[6].on <=> Ours(t) # {} /\ Tokens(t) # {}
         /\ c[7].on <=> Ours(t) # {} /\ Sent(t) > 0
         /\ c[8].on <=> Ours(t) # {}
         /\ c[1].says = Says("mined", Kept(t), 0, "none")
         /\ c[2].says = Says("staked", With(t, "stake"), Fee(t, found), "none")
         /\ c[3].says = Says("unstaked", Kept(t), Fee(t, found), "none")
         /\ c[4].says = Says("register", With(t, "register"), Fee(t, found), "none")
         /\ c[5].says = Says("mint", Fee(t, found), Fee(t, found), "none")
         /\ c[6].says = Says("token_sent", Fee(t, found), Fee(t, found), "none")
         /\ c[7].says = Says("sent", Sent(t), Fee(t, found), FirstOther(t))
         /\ c[8].says = Says("sent", SelfSend(t).amount, Fee(t, found), SelfSend(t).to)
         /\ c[9].says = Says("token_received", Kept(t), 0, "none")
         /\ c[10].says = Says("received", Kept(t), 0, "none")
         /\ c[11].says = NotOurs
<1>1. /\ c[1].on => t.coinbase
      /\ c[1].says = Says("mined", Kept(t), 0, "none")
  BY DEF Cases, Kept
<1>2. /\ c[2].on <=> Has(t, "stake") /\ Ours(t) # {}
      /\ c[2].says = Says("staked", With(t, "stake"), Fee(t, found), "none")
  BY DEF Cases, With
<1>3. /\ c[3].on <=> Unstakes(t, found) /\ Ours(t) # {}
      /\ c[3].says = Says("unstaked", Kept(t), Fee(t, found), "none")
  BY DEF Cases, Kept, Unstakes
<1>4. /\ c[4].on <=> Has(t, "register") /\ Ours(t) # {}
      /\ c[4].says = Says("register", With(t, "register"), Fee(t, found), "none")
  BY DEF Cases, With
<1>5. /\ c[5].on <=> Has(t, "mint") /\ Ours(t) # {}
      /\ c[5].says = Says("mint", Fee(t, found), Fee(t, found), "none")
  BY DEF Cases
<1>6. /\ c[6].on <=> Ours(t) # {} /\ Tokens(t) # {}
      /\ c[6].says = Says("token_sent", Fee(t, found), Fee(t, found), "none")
  BY DEF Cases, Tokens
<1>7. /\ c[7].on <=> Ours(t) # {} /\ Sent(t) > 0
      /\ c[7].says = Says("sent", Sent(t), Fee(t, found), FirstOther(t))
  BY DEF Cases, Sent
<1>8. /\ c[8].on <=> Ours(t) # {}
      /\ c[8].says = Says("sent", SelfSend(t).amount, Fee(t, found), SelfSend(t).to)
  BY DEF Cases
<1>9. /\ c[9].says = Says("token_received", Kept(t), 0, "none")
      /\ c[10].says = Says("received", Kept(t), 0, "none")
      /\ c[11].says = NotOurs
  BY DEF Cases, Kept
<1> QED BY <1>1, <1>2, <1>3, <1>4, <1>5, <1>6, <1>7, <1>8, <1>9

\* What leaves the wallet in outputs is sent, staked or paid for a
\* registration: the rest is kept.
LEMMA OutputsOf ==
  ASSUME NEW x \in DOMAIN Tx, Ordinary(x)
  PROVE  LET t == Tx[x] IN
         /\ Kept(t) = Gain(x) /\ Kept(t) \in Nat /\ Sent(t) \in Nat
         /\ Total(t, Outs(t)) = Kept(t) + Sent(t)
         /\ \A s : s # "p2pkh" => With(t, s) \in Nat
         /\ \A s : s # "p2pkh" /\ (\A o \in Outs(t) : o.value = 0 \/ IsOurs(o) \/ o.script = s)
                     => Total(t, Outs(t)) = Kept(t) + With(t, s)
         /\ (\A o \in Outs(t) : o.value = 0 \/ IsOurs(o)) => Total(t, Outs(t)) = Kept(t)
<1> DEFINE t == Tx[x]
           K == {o \in Outs(t) : OurPlain(o)}
           P == {o \in Outs(t) : Plain(o)}
           W(s) == {o \in Outs(t) : o.script = s}
<1>1. \A o \in Outs(t) : /\ o.value \in Nat /\ o.token \in Nat
                         /\ o.value > 0 => o.token = 0
  <2> SUFFICES ASSUME NEW o \in Outs(t)
               PROVE  /\ o.value \in Nat /\ o.token \in Nat
                      /\ o.value > 0 => o.token = 0
    OBVIOUS
  <2>1. o.value \in Nat /\ o.token \in Nat
    BY TxAssumption DEF Outs
  <2>2. o.token > 0 => o.value = 0
    BY DEF Ordinary
  <2> QED BY <2>1, <2>2
<1>2. Kept(t) = Gain(x) /\ Kept(t) \in Nat /\ Sent(t) \in Nat
  BY GainIs, TotalIs DEF Kept, Sent
<1>3. K \cap P = {} /\ \A s : s # "p2pkh" => K \cap W(s) = {}
  BY DEF OurPlain, Plain, IsOurs
<1>4. Total(t, K \cup P) = Total(t, K) + Total(t, P)
  <2> HIDE DEF t, K, P
  <2> QED BY <1>3, TotalSplit DEF t
<1>5. \A o \in Outs(t) : o.value > 0 => (o \in Outs(t) <=> o \in K \cup P)
  BY <1>1 DEF OurPlain, Plain
<1>6. Total(t, Outs(t)) = Total(t, K \cup P)
  <2> HIDE DEF K, P
  <2> QED BY <1>5, TotalSame
<1>7. ASSUME NEW s, s # "p2pkh" PROVE With(t, s) \in Nat
  BY TotalIs DEF With
<1>8. ASSUME NEW s, s # "p2pkh", \A o \in Outs(t) : o.value = 0 \/ IsOurs(o) \/ o.script = s
      PROVE  Total(t, Outs(t)) = Kept(t) + With(t, s)
  <2>1. K \cap W(s) = {}
    BY <1>3, <1>8
  <2>2. \A o \in Outs(t) : o.value > 0 => (o \in Outs(t) <=> o \in K \cup W(s))
    BY <1>1, <1>8 DEF OurPlain
  <2>3. With(t, s) = Total(t, W(s)) /\ Kept(t) = Total(t, K)
    BY DEF With, Kept
  <2> HIDE DEF K, W
  <2>4. Total(t, Outs(t)) = Total(t, K \cup W(s))
    BY <2>2, TotalSame
  <2>5. Total(t, K \cup W(s)) = Total(t, K) + Total(t, W(s))
    <3>1. PICK w : w = W(s)
      OBVIOUS
    <3>2. K \cap w = {}
      BY <2>1, <3>1
    <3> QED BY <3>1, <3>2, TotalSplit
  <2> QED BY <2>3, <2>4, <2>5
<1>9. (\A o \in Outs(t) : o.value = 0 \/ IsOurs(o)) => Total(t, Outs(t)) = Kept(t)
  <2> SUFFICES ASSUME \A o \in Outs(t) : o.value = 0 \/ IsOurs(o)
               PROVE  Total(t, Outs(t)) = Kept(t)
    OBVIOUS
  <2>1. \A o \in Outs(t) : o.value > 0 => (o \in Outs(t) <=> o \in K)
    BY <1>1 DEF OurPlain
  <2> HIDE DEF K
  <2>2. Total(t, Outs(t)) = Total(t, K)
    BY <2>1, TotalSame
  <2> QED BY <2>2 DEF Kept, K
<1>10. Total(t, Outs(t)) = Kept(t) + Sent(t)
  BY <1>4, <1>6 DEF Kept, Sent
<1> QED BY <1>2, <1>7, <1>8, <1>9, <1>10

\* A payment from plain coins: the fee is what they are worth less the outputs.
Pays(x) ==
  /\ Ours(Tx[x]) # {} /\ Ours(Tx[x]) = Tx[x].ins
  /\ \A n \in Tx[x].ins : IsOurs(Spent(n)) \/ (Spent(n).value = 0 /\ Spent(n).script # "stake")
  /\ InputSum(Tx[x].ins) >= Total(Tx[x], Outs(Tx[x]))

LEMMA FeeIs ==
  ASSUME NEW x \in DOMAIN Tx, Ordinary(x), Pays(x)
  PROVE  /\ Loss(x) \in Int /\ Fee(Tx[x], DOMAIN Tx) = Loss(x) - Total(Tx[x], Outs(Tx[x]))
         /\ ~ Unstakes(Tx[x], DOMAIN Tx)
<1> DEFINE t == Tx[x]
           I == {n \in Ours(t) : n.from[1] \in DOMAIN Tx}
<1>1. \A n \in t.ins : n.addr \in Mine
  BY DEF Pays, Ours
<1>2. \A n \in t.ins : n.from[1] \in DOMAIN Tx
  BY <1>1, InputFacts
<1>3. I = t.ins
  BY <1>2 DEF Pays
<1>4. Loss(x) = InputSum(t.ins) /\ Loss(x) \in Int
  BY <1>2, LossIs DEF Pays
<1>5. Total(t, Outs(t)) \in Nat
  BY TotalIs
<1> HIDE DEF I
<1>6. Fee(t, DOMAIN Tx) = IF InputSum(I) > Total(t, Outs(t))
                          THEN InputSum(I) - Total(t, Outs(t)) ELSE 0
  BY DEF Fee, I
<1>7. Fee(t, DOMAIN Tx) = Loss(x) - Total(t, Outs(t))
  <2>1. InputSum(t.ins) >= Total(t, Outs(t))
    BY DEF Pays
  <2> HIDE DEF t
  <2> QED BY <1>3, <1>4, <1>5, <1>6, <2>1
<1>8. ~ Unstakes(t, DOMAIN Tx)
  BY DEF Unstakes, Pays, IsOurs
<1> QED BY <1>4, <1>7, <1>8

\* The first recipient a payment names is not the wallet.
LEMMA OtherIs ==
  ASSUME NEW x \in DOMAIN Tx
  PROVE  FirstOther(Tx[x]) \notin Mine
<1> DEFINE o == Tx[x].outs
           S == {i \in DOMAIN o : Plain(o[i]) /\ o[i].script = "p2pkh"}
<1>1. FirstOther(Tx[x]) = IF S = {} THEN "none" ELSE o[Min(S)].addr
  BY DEF FirstOther
<1>2. CASE S = {}
  BY <1>1, <1>2, AddressAssumption
<1>3. CASE S # {}
  <2>1. S \in SUBSET Nat /\ IsFiniteSet(S)
    <3>1. PICK N \in Nat : DOMAIN o = 1..N
      BY TxAssumption
    <3>2. S \in SUBSET (1..N) /\ 1..N \subseteq Nat
      BY <3>1
    <3>3. IsFiniteSet(1..N)
      BY FS_Interval
    <3> HIDE DEF S
    <3> QED BY <3>2, <3>3, FS_Subset
  <2>2. Min(S) \in S
    <3> HIDE DEF S
    <3> QED BY <1>3, <2>1, MinIsLeast
  <2>3. PICK k : k = Min(S)
    OBVIOUS
  <2>4. Plain(o[k]) /\ o[k].script = "p2pkh"
    BY <2>2, <2>3
  <2>5. o[k].addr \notin Mine
    BY <2>4 DEF Plain, IsOurs
  <2> HIDE DEF S, o
  <2> QED BY <1>1, <1>3, <2>3, <2>5
<1> QED BY <1>2, <1>3

\* Nothing sent: a self-send names an address of the wallet, or nothing.
LEMMA SelfIs ==
  ASSUME NEW x \in DOMAIN Tx, Ordinary(x), ~ (Sent(Tx[x]) > 0)
  PROVE  SelfSend(Tx[x]).to \in Mine \/ SelfSend(Tx[x]).amount = 0
<1> DEFINE t == Tx[x]
           o == t.outs
           S == {i \in DOMAIN o : o[i].script = "p2pkh" /\ \A n \in t.ins : n.addr # o[i].addr}
<1>1. SelfSend(t) = IF S = {} THEN [amount |-> 0, to |-> "none"]
                    ELSE [amount |-> o[Min(S)].value, to |-> o[Min(S)].addr]
  BY DEF SelfSend
<1>2. CASE S = {}
  BY <1>1, <1>2
<1>3. CASE S # {}
  <2>1. S \in SUBSET Nat /\ IsFiniteSet(S)
    <3>1. PICK N \in Nat : DOMAIN o = 1..N
      BY TxAssumption
    <3>2. S \in SUBSET (1..N) /\ 1..N \subseteq Nat
      BY <3>1
    <3>3. IsFiniteSet(1..N)
      BY FS_Interval
    <3> HIDE DEF S
    <3> QED BY <3>2, <3>3, FS_Subset
  <2>2. Min(S) \in S
    <3> HIDE DEF S
    <3> QED BY <1>3, <2>1, MinIsLeast
  <2>3. PICK k : k = Min(S)
    OBVIOUS
  <2>4. k \in DOMAIN o /\ o[k].script = "p2pkh"
    BY <2>2, <2>3
  <2>5. o[k].value \in Nat /\ o[k].token \in Nat /\ (o[k].token > 0 => o[k].value = 0)
    <3>1. o[k].value \in Nat /\ o[k].token \in Nat
      BY <2>4, TxAssumption
    <3>2. o[k].token > 0 => o[k].value = 0
      BY <2>4 DEF Ordinary, Outs
    <3> QED BY <3>1, <3>2
  <2>6. ASSUME o[k].value > 0, o[k].addr \notin Mine PROVE FALSE
    <3>1. Plain(o[k]) /\ o[k] \in Outs(t)
      BY <2>4, <2>5, <2>6 DEF Plain, IsOurs, Outs
    <3>2. \E i \in DOMAIN t.outs : t.outs[i] \in {p \in Outs(t) : Plain(p)} /\ t.outs[i].value > 0
      BY <2>4, <2>6, <3>1
    <3>3. Sent(t) > 0
      BY <3>2, TotalPositive DEF Sent
    <3> QED BY <3>3
  <2>7. o[k].addr \in Mine \/ o[k].value = 0
    BY <2>5, <2>6
  <2> HIDE DEF S, o
  <2>8. SelfSend(t) = [amount |-> o[k].value, to |-> o[k].addr]
    BY <1>1, <1>3, <2>3
  <2> QED BY <2>7, <2>8
<1> QED BY <1>2, <1>3

\* The wallet takes part but pays nothing.
LEMMA EffectOfReceipt ==
  ASSUME NEW x \in DOMAIN Tx, Ordinary(x), Touches(x), Ours(Tx[x]) = {},
         NEW e, Tells(e, Classify(Tx[x], DOMAIN Tx))
  PROVE  Effect(e) = Gain(x) - Loss(x) /\ Loss(x) \in Int
<1> DEFINE t == Tx[x]
           found == DOMAIN Tx
<1>1. PICK c : c = Cases(t, found)
  OBVIOUS
<1>2. PICK m \in 1..11 : /\ c[m].on /\ Classify(t, found) = c[m].says
  BY <1>1, FirstCase
<1>3. m \in {1, 9, 10, 11}
  <2>1. m \in {1, 2, 3, 4, 5, 6, 7, 8, 9, 10, 11}
    BY <1>2
  <2> QED BY <1>1, <1>2, <2>1, CasesAre
<1>4. m # 11
  BY <1>1, <1>2, CasesAre, ClassifyOurs
<1>5. \E s \in {"mined", "token_received", "received"} : c[m].says = Says(s, Kept(t), 0, "none")
  BY <1>1, <1>3, <1>4, CasesAre
<1>6. e.type \in {"mined", "token_received", "received"} /\ e.amount = Kept(t)
  BY <1>2, <1>5 DEF Tells, Says
<1>7. Loss(x) = 0
  <2>1. \A n \in t.ins : n.addr \notin Mine
    BY TxAssumption DEF Ours
  <2>2. \A n \in t.ins : n.from[1] \in DOMAIN Tx => ~ IsOurs(Spent(n))
    BY <2>1, InputFacts DEF IsOurs
  <2> QED BY <2>2, NoLoss
<1>8. Kept(t) = Gain(x) /\ Gain(x) \in Nat
  BY OutputsOf
<1> QED BY <1>6, <1>7, <1>8 DEF Effect

\* The wallet takes back a stake.
LEMMA EffectOfReturn ==
  ASSUME NEW x \in DOMAIN Tx, Ordinary(x), Ours(Tx[x]) # {}, Ours(Tx[x]) = Tx[x].ins,
         ~ Has(Tx[x], "stake"), \A n \in Tx[x].ins : Spent(n).script = "stake",
         NEW e, Tells(e, Classify(Tx[x], DOMAIN Tx))
  PROVE  Effect(e) = Gain(x) - Loss(x) /\ Loss(x) \in Int
<1> DEFINE t == Tx[x]
           found == DOMAIN Tx
<1>1. PICK c : c = Cases(t, found)
  OBVIOUS
<1>2. PICK m \in 1..11 : /\ c[m].on /\ \A i \in 1..11 : i < m => ~ c[i].on
                         /\ Classify(t, found) = c[m].says
  BY <1>1, FirstCase
<1>3. ~ c[1].on /\ ~ c[2].on
  BY <1>1, CasesAre DEF Ours
<1>4. c[3].on
  <2>1. PICK n \in t.ins : n.addr \in Mine
    BY DEF Ours
  <2>2. n.from[1] \in DOMAIN Tx
    BY <2>1, InputFacts
  <2>3. Unstakes(t, found)
    BY <2>2 DEF Unstakes
  <2> QED BY <1>1, <2>3, CasesAre
<1>5. m = 3
  BY <1>2, <1>3, <1>4
<1>6. Classify(t, found) = Says("unstaked", Kept(t), Fee(t, found), "none")
  BY <1>1, <1>2, <1>5, CasesAre
<1>7. e.type = "unstaked" /\ e.amount = Kept(t)
  BY <1>6 DEF Tells, Says
<1>8. Loss(x) = 0
  BY NoLoss DEF IsOurs
<1>9. Kept(t) = Gain(x) /\ Gain(x) \in Nat
  BY OutputsOf
<1> QED BY <1>7, <1>8, <1>9 DEF Effect

\* The wallet pays, to others or for a stake, a registration or a token.
LEMMA EffectOfPayment ==
  ASSUME NEW x \in DOMAIN Tx, Ordinary(x), Pays(x),
         \A o \in Outs(Tx[x]) :
           \/ o.value = 0 \/ IsOurs(o)
           \/ o.script = "stake"
           \/ o.script = "register" /\ ~ Has(Tx[x], "stake")
           \/ /\ \A s \in {"stake", "register", "mint"} : ~ Has(Tx[x], s)
              /\ \A p \in Outs(Tx[x]) : p.token = 0,
         NEW e, Tells(e, Classify(Tx[x], DOMAIN Tx))
  PROVE  Effect(e) = Gain(x) - Loss(x) /\ Loss(x) \in Int
<1> DEFINE t == Tx[x]
           found == DOMAIN Tx
           out == Total(t, Outs(t))
<1>1. PICK c : c = Cases(t, found)
  OBVIOUS
<1>2. PICK m \in 1..11 : /\ c[m].on /\ \A i \in 1..11 : i < m => ~ c[i].on
                         /\ Classify(t, found) = c[m].says
  BY <1>1, FirstCase
<1>3. Ours(t) # {} /\ ~ t.coinbase
  BY DEF Pays, Ours
<1>4. c[8].on /\ ~ c[1].on /\ ~ c[3].on
  BY <1>1, <1>3, CasesAre, FeeIs
<1>5. m \in {2, 4, 5, 6, 7, 8}
  <2>1. m <= 8
    BY <1>2, <1>4
  <2>2. m \in {1, 2, 3, 4, 5, 6, 7, 8}
    BY <1>2, <2>1
  <2> QED BY <1>2, <1>4, <2>2
<1>6. PICK fee : fee = Fee(t, found)
  OBVIOUS
<1>7. /\ Loss(x) \in Int /\ fee = Loss(x) - out
      /\ Kept(t) = Gain(x) /\ Kept(t) \in Nat /\ Sent(t) \in Nat
      /\ out = Kept(t) + Sent(t)
  BY <1>6, FeeIs, OutputsOf
<1> HIDE DEF out
<1>8. \A o \in Outs(t) : Has(t, o.script)
  BY DEF Has, Outs
<1>9. CASE m = 2
  <2>1. \A o \in Outs(t) : o.value = 0 \/ IsOurs(o) \/ o.script = "stake"
    <3>1. Has(t, "stake")
      BY <1>1, <1>2, <1>9, CasesAre
    <3>2. \A o \in Outs(t) : \/ o.value = 0 \/ IsOurs(o) \/ o.script = "stake"
                             \/ ~ Has(t, "stake")
      OBVIOUS
    <3> QED BY <3>1, <3>2
  <2>2. out = Kept(t) + With(t, "stake") /\ With(t, "stake") \in Nat
    BY <2>1, OutputsOf DEF out
  <2>3. Classify(t, found) = Says("staked", With(t, "stake"), fee, "none")
    BY <1>1, <1>2, <1>6, <1>9, CasesAre
  <2>4. e.type = "staked" /\ e.amount = With(t, "stake") /\ e.fee = fee
    BY <2>3 DEF Tells, Says
  <2>5. Effect(e) = -(e.amount + e.fee)
    BY <2>4 DEF Effect
  <2> QED BY <1>7, <2>2, <2>4, <2>5
<1>10. CASE m # 2
  <2>1. ~ Has(t, "stake")
    BY <1>1, <1>2, <1>3, <1>5, <1>10, CasesAre
  <2>2. CASE m = 4
    <3>1. \A o \in Outs(t) : o.value = 0 \/ IsOurs(o) \/ o.script = "register"
      <4>1. Has(t, "register")
        BY <1>1, <1>2, <2>2, CasesAre
      <4> QED BY <1>8, <2>1, <4>1
    <3>2. out = Kept(t) + With(t, "register") /\ With(t, "register") \in Nat
      BY <3>1, OutputsOf DEF out
    <3>3. Classify(t, found) = Says("register", With(t, "register"), fee, "none")
      BY <1>1, <1>2, <1>6, <2>2, CasesAre
    <3>4. e.type = "register" /\ e.amount = With(t, "register") /\ e.fee = fee
      BY <3>3 DEF Tells, Says
    <3>5. Effect(e) = -(e.amount + e.fee)
      BY <3>4 DEF Effect
    <3> QED BY <1>7, <3>2, <3>4, <3>5
  <2>3. CASE m # 4
    <3>1. ~ Has(t, "register")
      BY <1>1, <1>2, <1>3, <1>5, <1>10, <2>3, CasesAre
    <3>2. \A o \in Outs(t) : \/ o.value = 0 \/ IsOurs(o)
                             \/ ~ Has(t, "mint") /\ \A p \in Outs(t) : p.token = 0
      BY <1>8, <2>1, <3>1
    <3>3. CASE m \in {5, 6}
      <4>1. Has(t, "mint") \/ Tokens(t) # {}
        BY <1>1, <1>2, <3>3, CasesAre
      <4>2. \A o \in Outs(t) : o.value = 0 \/ IsOurs(o)
        BY <3>2, <4>1 DEF Tokens, Outs
      <4>3. out = Kept(t)
        BY <4>2, OutputsOf DEF out
      <4>4. e.type \in {"mint", "token_sent"} /\ e.fee = fee
        <5>1. \E s \in {"mint", "token_sent"} : Classify(t, found) = Says(s, fee, fee, "none")
          BY <1>1, <1>2, <1>6, <3>3, CasesAre
        <5> QED BY <5>1 DEF Tells, Says
      <4>5. Effect(e) = -e.fee
        BY <4>4 DEF Effect
      <4> QED BY <1>7, <4>3, <4>4, <4>5
    <3>4. CASE m = 7
      <4>1. Classify(t, found) = Says("sent", Sent(t), fee, FirstOther(t)) /\ Sent(t) > 0
        BY <1>1, <1>2, <1>6, <3>4, CasesAre
      <4>2. e.type = "sent" /\ e.amount = Sent(t) /\ e.fee = fee /\ e.to = FirstOther(t)
        BY <4>1 DEF Tells, Says
      <4>3. e.to \notin Mine /\ e.amount # 0
        BY <1>7, <4>1, <4>2, OtherIs
      <4>4. Effect(e) = -(e.amount + e.fee)
        BY <4>2, <4>3 DEF Effect
      <4> QED BY <1>7, <4>2, <4>4
    <3>5. CASE m = 8
      <4>1. ~ (Sent(t) > 0)
        BY <1>1, <1>2, <1>3, <3>5, CasesAre
      <4>2. Classify(t, found) = Says("sent", SelfSend(t).amount, fee, SelfSend(t).to)
        BY <1>1, <1>2, <1>6, <3>5, CasesAre
      <4>3. e.type = "sent" /\ e.amount = SelfSend(t).amount /\ e.fee = fee /\ e.to = SelfSend(t).to
        BY <4>2 DEF Tells, Says
      <4>4. e.to \in Mine \/ e.amount = 0
        BY <4>1, <4>3, SelfIs
      <4>5. Effect(e) = -e.fee
        BY <4>3, <4>4 DEF Effect
      <4> QED BY <1>7, <4>1, <4>3, <4>5
    <3> QED BY <1>5, <1>10, <2>3, <3>3, <3>4, <3>5
  <2> QED BY <2>2, <2>3
<1> QED BY <1>9, <1>10

LEMMA EffectOf ==
  ASSUME NEW x \in DOMAIN Tx, Ordinary(x), Touches(x),
         NEW e, Tells(e, Classify(Tx[x], DOMAIN Tx))
  PROVE  Effect(e) = Gain(x) - Loss(x) /\ Loss(x) \in Int
<1>1. CASE Ours(Tx[x]) = {}
  BY <1>1, EffectOfReceipt
<1>2. CASE Ours(Tx[x]) # {}
  <2> DEFINE t == Tx[x]
  <2>1. /\ Ours(t) = t.ins
        /\ \/ ~ Has(t, "stake") /\ \A n \in t.ins : Spent(n).script = "stake"
           \/ /\ \A n \in t.ins : IsOurs(Spent(n)) \/ (Spent(n).value = 0 /\ Spent(n).script # "stake")
              /\ InputSum(t.ins) >= Total(t, Outs(t))
              /\ \A o \in Outs(t) :
                   \/ o.value = 0 \/ IsOurs(o)
                   \/ o.script = "stake"
                   \/ o.script = "register" /\ ~ Has(t, "stake")
                   \/ /\ \A s \in {"stake", "register", "mint"} : ~ Has(t, s)
                      /\ \A p \in Outs(t) : p.token = 0
    BY <1>2 DEF Ordinary
  <2>2. CASE ~ Has(t, "stake") /\ \A n \in t.ins : Spent(n).script = "stake"
    BY <1>2, <2>1, <2>2, EffectOfReturn
  <2>3. CASE ~ (~ Has(t, "stake") /\ \A n \in t.ins : Spent(n).script = "stake")
    <3>1. Pays(x)
      BY <1>2, <2>1, <2>3 DEF Pays
    <3> QED BY <2>1, <2>3, <3>1, EffectOfPayment
  <2> QED BY <2>2, <2>3
<1> QED BY <1>1, <1>2

\* What does not touch the wallet leaves it alone.
LEMMA NoEffect ==
  ASSUME NEW x \in DOMAIN Tx, Ordinary(x), ~ Touches(x)
  PROVE  Gain(x) = 0 /\ Loss(x) = 0
<1>1. OurCoins({x}) = {}
  BY DEF OurCoins, Touches
<1>2. Gain(x) = 0
  BY <1>1, FS_EmptySet, AddUpAdd DEF Gain
<1>3. \A n \in Tx[x].ins : n.from[1] \in DOMAIN Tx => ~ IsOurs(Spent(n))
  BY InputFacts DEF Touches, IsOurs
<1> QED BY <1>2, <1>3, NoLoss

-----------------------------------------------------------------------------
(* The chain is a ledger, and the entries say what happened in it.          *)

\* The blocks that a read below the tip can meet, and what they fit on.
Top == IF pending = <<>> THEN height ELSE pending[1] - 1
Ledger ==
  /\ located = Confirmed(Top)
  /\ \A h \in 0..Top : Fits(byHeight[h], Confirmed(h - 1))
  /\ pending # <<>> => Fits(pending[2], located)

Told(e) == e.tx \in DOMAIN Tx /\ Tells(e, Classify(Tx[e.tx], DOMAIN Tx))
AllTold ==
  /\ \A e \in index : e.h <= stable => Told(e)
  /\ \A c \in Client : q[c].pc = "block" => \A e \in q[c].puts : e.h <= stable => Told(e)

LEMMA TopFacts ==
  ASSUME Chains
  PROVE  /\ Top \in Nat /\ (\A h \in 0..Top : h \in DOMAIN byHeight)
         /\ \A h \in 0..height : h <= stable => h \in 0..Top
<1>1. /\ height \in Nat /\ stable \in Nat /\ MaxHeight \in Nat
      /\ 0..height \subseteq DOMAIN byHeight
  BY BoundAssumption DEF Chains
<1>2. CASE pending = <<>>
  BY <1>1, <1>2 DEF Top
<1>3. CASE pending # <<>>
  <2>1. /\ pending[1] \in stable + 1..MaxHeight /\ 0..pending[1] - 1 \subseteq DOMAIN byHeight
    BY <1>3 DEF Chains
  <2>2. PICK n \in Nat : n = pending[1] /\ n \in stable + 1..MaxHeight
    BY <1>1, <2>1
  <2>3. Top = n - 1
    BY <1>3, <2>2 DEF Top
  <2> QED BY <1>1, <2>1, <2>2, <2>3
<1> QED BY <1>2, <1>3

LEMMA ConfirmedSame ==
  ASSUME NEW n, \A h \in 0..n : byHeight'[h] = byHeight[h]
  PROVE  Confirmed(n)' = Confirmed(n)
<1>1. {TxsOf(byHeight'[h]) : h \in 0..n} = {TxsOf(byHeight[h]) : h \in 0..n}
  OBVIOUS
<1> QED BY <1>1 DEF Confirmed

LEMMA ConfirmedIn ==
  ASSUME Chains, NEW n \in Int, n <= Top
  PROVE  Confirmed(n) \subseteq DOMAIN Tx
<1> SUFFICES ASSUME NEW h \in 0..n, NEW x \in TxsOf(byHeight[h]) PROVE x \in DOMAIN Tx
  BY DEF Confirmed
<1>1. h \in 0..Top
  BY TopFacts
<1>2. byHeight[h] \in Block \cup {<<>>}
  BY <1>1, TopFacts DEF Chains
<1> QED BY <1>2, BlockFacts DEF TxsOf

\* A block is added at the top.
LEMMA LedgerGrows ==
  ASSUME Chains, Ledger, NEW n, n = Top + 1, NEW b, SetBlock(n, b), Fits(b, located),
         located' = located \cup TxsOf(b), Top' = n
  PROVE  /\ located' = Confirmed(Top)'
         /\ \A h \in 0..n : Fits(byHeight'[h], Confirmed(h - 1)')
<1>1. Top \in Nat /\ n \in Nat /\ \A h \in 0..Top : h \in DOMAIN byHeight /\ h # n
  BY TopFacts
<1>2. byHeight'[n] = b /\ \A h \in 0..Top : byHeight'[h] = byHeight[h]
  BY <1>1 DEF SetBlock
<1> HIDE DEF Top
<1>3. ASSUME NEW k \in Int, k <= Top PROVE Confirmed(k)' = Confirmed(k)
  <2>1. \A h \in 0..k : h \in 0..Top
    BY <1>1, <1>3
  <2> QED BY <1>2, <2>1, ConfirmedSame
<1>4. Confirmed(n)' = Confirmed(n - 1)' \cup TxsOf(b)
  <2>1. 0..n = (0..n - 1) \cup {n}
    BY <1>1
  <2> QED BY <1>2, <2>1 DEF Confirmed
<1>5. n - 1 = Top /\ Confirmed(n - 1)' = located
  <2>1. n - 1 = Top /\ Top \in Int /\ Top <= Top
    BY <1>1
  <2>2. Confirmed(Top)' = Confirmed(Top) \/ TRUE
    OBVIOUS
  <2>3. \A h \in 0..n - 1 : byHeight'[h] = byHeight[h]
    BY <1>2, <2>1
  <2>4. Confirmed(n - 1)' = Confirmed(n - 1)
    BY <2>3, ConfirmedSame
  <2> QED BY <2>1, <2>4 DEF Ledger
<1>6. located' = Confirmed(Top)'
  <2>1. located' = Confirmed(n)'
    BY <1>4, <1>5
  <2> QED BY <2>1 DEF Confirmed
<1>7. ASSUME NEW h \in 0..n PROVE Fits(byHeight'[h], Confirmed(h - 1)')
  <2>1. CASE h = n
    BY <1>2, <1>5, <2>1
  <2>2. CASE h # n
    <3>1. h \in 0..Top /\ h - 1 \in Int /\ h - 1 <= Top
      BY <1>1, <2>2
    <3>2. Confirmed(h - 1)' = Confirmed(h - 1)
      BY <1>3, <3>1
    <3>3. Fits(byHeight[h], Confirmed(h - 1))
      BY <3>1 DEF Ledger
    <3> QED BY <1>2, <3>1, <3>2, <3>3
  <2> QED BY <2>1, <2>2
<1> QED BY <1>6, <1>7

LEMMA NextLedger ==
  ASSUME HistoryInv, Ledger, [Next]_vars
  PROVE  Ledger'
<1>0. Chains
  BY DEF HistoryInv
<1>1. CASE Extend
  <2>1. pending = <<>> /\ pending' = <<>> /\ height' = height + 1
    BY <1>1 DEF Extend
  <2>2. PICK b \in Block : /\ Fits(b, located) /\ SetBlock(height + 1, b)
                           /\ located' = located \cup TxsOf(b)
    BY <1>1 DEF Extend
  <2>3. Top = height /\ Top' = height + 1
    BY <2>1 DEF Top
  <2>4. PICK n : n = height + 1
    OBVIOUS
  <2>5. /\ located' = Confirmed(Top)'
        /\ \A h \in 0..n : Fits(byHeight'[h], Confirmed(h - 1)')
    BY <1>0, <2>2, <2>3, <2>4, LedgerGrows
  <2> QED BY <2>1, <2>3, <2>4, <2>5 DEF Ledger
<1>2. CASE Reorg
  <2>1. pending = <<>> /\ byHeight' = byHeight /\ height \in Nat
    BY <1>0, <1>2, BoundAssumption DEF Reorg, Chains
  <2>2. PICK f \in 0..height - 1, b \in Block :
          Fits(b, Confirmed(f)) /\ pending' = <<f + 1, b>> /\ located' = Confirmed(f)
    BY <1>2 DEF Reorg
  <2>3. pending' # <<>> /\ pending'[1] = f + 1 /\ pending'[2] = b
    BY <2>2
  <2>4. Top = height /\ Top' = f
    BY <2>1, <2>3 DEF Top
  <2>5. \A h \in 0..f : h \in 0..Top
    BY <2>1, <2>4
  <2>6. \A n : Confirmed(n)' = Confirmed(n)
    BY <2>1 DEF Confirmed
  <2>7. \A h \in 0..f : Fits(byHeight'[h], Confirmed(h - 1)')
    BY <2>1, <2>5, <2>6 DEF Ledger
  <2>8. located' = Confirmed(Top)'
    BY <2>1, <2>2, <2>4 DEF Confirmed
  <2> QED BY <2>2, <2>3, <2>4, <2>7, <2>8 DEF Ledger
<1>3. CASE Replay
  <2>1. PICK n, b : n = pending[1] /\ b = pending[2]
    OBVIOUS
  <2>2. /\ pending # <<>> /\ SetBlock(n, b) /\ located' = located \cup TxsOf(b)
    BY <1>3, <2>1 DEF Replay
  <2>3. n \in Nat /\ Top = n - 1 /\ n = Top + 1
    <3>1. n \in stable + 1..MaxHeight /\ stable \in Nat /\ MaxHeight \in Nat
      BY <1>0, <2>1, <2>2, BoundAssumption DEF Chains
    <3> QED BY <2>1, <2>2, <3>1 DEF Top
  <2>4. \/ pending' = <<>> /\ height' = n
        \/ \E d \in Block : pending' = <<n + 1, d>> /\ Fits(d, located \cup TxsOf(b))
    BY <1>3, <2>1 DEF Replay
  <2>5. Top' = n
    <3>1. CASE pending' = <<>> /\ height' = n
      BY <3>1 DEF Top
    <3>2. CASE \E d \in Block : pending' = <<n + 1, d>>
      <4>1. pending' # <<>> /\ pending'[1] = n + 1
        BY <3>2
      <4> QED BY <2>3, <4>1 DEF Top
    <3> QED BY <2>4, <3>1, <3>2
  <2>6. Fits(b, located)
    BY <2>1, <2>2 DEF Ledger
  <2>7. /\ located' = Confirmed(Top)'
        /\ \A h \in 0..n : Fits(byHeight'[h], Confirmed(h - 1)')
    BY <1>0, <2>2, <2>3, <2>5, <2>6, LedgerGrows
  <2>8. ASSUME pending' # <<>> PROVE Fits(pending'[2], located')
    <3>1. PICK d \in Block : pending' = <<n + 1, d>> /\ Fits(d, located \cup TxsOf(b))
      BY <2>4, <2>8
    <3>2. pending'[2] = d
      BY <3>1
    <3> QED BY <2>2, <3>1, <3>2
  <2> QED BY <2>5, <2>7, <2>8 DEF Ledger
<1>4. CASE UNCHANGED chainVars
  <2>1. UNCHANGED <<byHeight, height, pending, located>>
    BY <1>4 DEF chainVars
  <2>2. Top' = Top /\ \A n : Confirmed(n)' = Confirmed(n)
    BY <2>1 DEF Top, Confirmed
  <2>3. Confirmed(Top)' = Confirmed(Top)
    BY <2>1, <2>2 DEF Confirmed
  <2> HIDE DEF Top
  <2>4. \A h \in 0..Top : Fits(byHeight'[h], Confirmed(h - 1)')
    BY <2>1, <2>2 DEF Ledger
  <2> QED BY <2>1, <2>2, <2>3, <2>4 DEF Ledger
<1>5. (Crash \/ (\E c \in Client : Query(c)) \/ UNCHANGED vars) => UNCHANGED chainVars
  <2>1. \A c \in Client : Query(c) => UNCHANGED chainVars
    <3> SUFFICES ASSUME NEW c \in Client, Query(c) PROVE UNCHANGED chainVars
      OBVIOUS
    <3>1. CASE ReadTip(c)
      BY <3>1 DEF ReadTip
    <3>2. CASE ReadMeta(c)
      BY <3>2 DEF ReadMeta
    <3>3. CASE Collect(c)
      BY <3>3 DEF Collect
    <3>4. CASE DeleteEntry(c)
      BY <3>4 DEF DeleteEntry
    <3>5. CASE RolledBack(c)
      BY <3>5 DEF RolledBack
    <3>6. CASE Open(c)
      BY <3>6 DEF Open
    <3>7. CASE ReadBlock(c)
      BY <3>7 DEF ReadBlock
    <3>8. CASE PutEntry(c)
      BY <3>8 DEF PutEntry
    <3>9. CASE Indexed(c)
      BY <3>9 DEF Indexed
    <3>10. CASE List(c)
      BY <3>10 DEF List
    <3> QED BY <3>1, <3>2, <3>3, <3>4, <3>5, <3>6, <3>7, <3>8, <3>9, <3>10 DEF Query
  <2>2. Crash => UNCHANGED chainVars
    BY DEF Crash
  <2>3. UNCHANGED vars => UNCHANGED chainVars
    BY DEF vars
  <2> QED BY <2>1, <2>2, <2>3
<1> QED BY <1>1, <1>2, <1>3, <1>4, <1>5 DEF Next

\* Where a transaction's inputs come from is found, so its entry says the same
\* as if all transactions were.
LEMMA SameFound ==
  ASSUME NEW x, NEW found, \A n \in Tx[x].ins : n.from[1] \in found <=> n.from[1] \in DOMAIN Tx
  PROVE  Classify(Tx[x], found) = Classify(Tx[x], DOMAIN Tx)
<1> DEFINE t == Tx[x]
<1>1. {n \in Ours(t) : n.from[1] \in found} = {n \in Ours(t) : n.from[1] \in DOMAIN Tx}
  BY DEF Ours
<1>2. Fee(t, found) = Fee(t, DOMAIN Tx)
  BY <1>1 DEF Fee
<1>3. (\E n \in t.ins : n.from[1] \in found /\ Spent(n).script = "stake")
      <=> (\E n \in t.ins : n.from[1] \in DOMAIN Tx /\ Spent(n).script = "stake")
  OBVIOUS
<1>4. Cases(t, found) = Cases(t, DOMAIN Tx)
  BY <1>2, <1>3 DEF Cases
<1> QED BY <1>4 DEF Classify

LEMMA ReadTold ==
  ASSUME HistoryInv, Ledger, NEW h \in 0..Top, NEW e \in EntriesOf(h)
  PROVE  Told(e)
<1> DEFINE b == byHeight[h]
           say == [k \in DOMAIN b |-> Classify(Tx[b[k]], located)]
<1>1. b \in Block \cup {<<>>} /\ Top \in Nat
  BY TopFacts DEF HistoryInv, Chains
<1>2. PICK k \in DOMAIN b : /\ e.tx = b[k] /\ e.type = say[k].type /\ e.amount = say[k].amount
                            /\ e.fee = say[k].fee /\ e.to = say[k].to
  <2> DEFINE own == {k \in DOMAIN b : say[k] # NotOurs}
             Of(k) == [h |-> h, i |-> Cardinality({j \in own : j < k}), tx |-> b[k],
                       type |-> say[k].type, amount |-> say[k].amount, fee |-> say[k].fee,
                       to |-> say[k].to]
  <2>1. EntriesOf(h) = {Of(k) : k \in own}
    BY DEF EntriesOf
  <2>2. PICK k \in DOMAIN b : e = Of(k)
    BY <2>1
  <2> HIDE DEF say, own, b
  <2> QED BY <2>2
<1>3. e.tx \in DOMAIN Tx /\ e.tx \in TxsOf(b)
  BY <1>1, <1>2, BlockFacts DEF TxsOf
<1>4. Tells(e, Classify(Tx[e.tx], located))
  BY <1>2 DEF Tells
<1>5. located \subseteq DOMAIN Tx
  BY <1>1, ConfirmedIn DEF Ledger, HistoryInv
<1>6. Confirmed(h - 1) \cup TxsOf(b) \subseteq located
  <2>1. \A l \in 0..h - 1 : l \in 0..Top
    BY <1>1
  <2> QED BY <2>1 DEF Ledger, Confirmed
<1>7. \A n \in Tx[e.tx].ins : n.from[1] \in located <=> n.from[1] \in DOMAIN Tx
  <2>1. Fits(b, Confirmed(h - 1))
    BY DEF Ledger
  <2>2. \A n \in Tx[e.tx].ins : n.from[1] \in DOMAIN Tx => n.from[1] \in Confirmed(h - 1) \cup TxsOf(b)
    BY <1>3, <2>1 DEF Fits
  <2> QED BY <1>5, <1>6, <2>2
<1>8. Classify(Tx[e.tx], located) = Classify(Tx[e.tx], DOMAIN Tx)
  BY <1>7, SameFound
<1> QED BY <1>3, <1>4, <1>8 DEF Told

\* What a query puts is what it read.
LEMMA TellStep ==
  ASSUME HistoryInv, AllTold, NEW c, Client = {c}, UNCHANGED chainVars,
         NEW s, q' = [q EXCEPT ![c] = s],
         \A e \in index' : e \in index \/ (e.h <= stable => Told(e)),
         s.pc = "block" => \A e \in s.puts : e.h <= stable => Told(e)
  PROVE  AllTold'
<1>1. q'[c] = s /\ stable' = stable
  BY DEF HistoryInv, chainVars
<1>2. \A e : Told(e)' <=> Told(e)
  BY DEF Told
<1>3. \A e \in index' : e.h <= stable' => Told(e)'
  BY <1>1, <1>2 DEF AllTold
<1>4. \A d \in Client : q'[d].pc = "block" => \A e \in q'[d].puts : e.h <= stable' => Told(e)'
  BY <1>1, <1>2
<1> QED BY <1>3, <1>4 DEF AllTold

LEMMA ToIndexPc ==
  ASSUME NEW s, NEW last
  PROVE  ToIndex(s, last).pc # "block"
BY DEF ToIndex

LEMMA NextTold ==
  ASSUME \E c : Client = {c}, HistoryInv, HistoryInv', Ledger, AllTold, [Next]_vars
  PROVE  AllTold'
<1>0. PICK c : Client = {c}
  OBVIOUS
<1>1. PICK r : r = q[c]
  OBVIOUS
<1>2. Asks(r) /\ stable \in Nat
  <2>1. Asks(r)
    BY <1>0, <1>1 DEF HistoryInv
  <2>2. stable \in Nat
    BY BoundAssumption DEF HistoryInv, Chains
  <2> QED BY <2>1, <2>2
<1>3. r.pc = "block" => \A e \in r.puts : e.h <= stable => Told(e)
  BY <1>0, <1>1 DEF AllTold
<1>4. CASE Extend \/ Reorg \/ Replay
  <2>1. UNCHANGED <<index, q>>
    BY <1>4 DEF Extend, Reorg, Replay
  <2>2. Stays
    BY <1>4, ExtendStays, ReorgStays, ReplayStays DEF HistoryInv
  <2>3. stable' \in Nat /\ stable' <= stable
    BY <2>2, BoundAssumption DEF HistoryInv, Chains, Stays
  <2>4. \A e : Told(e)' <=> Told(e)
    BY DEF Told
  <2>5. \A e \in index : e.h <= stable' => Told(e)'
    <3>1. \A e \in index : e.h \in Nat
      BY DEF HistoryInv, Entries
    <3> QED BY <1>2, <2>3, <2>4, <3>1 DEF AllTold
  <2>6. r.pc = "block" => \A e \in r.puts : e.h <= stable' => Told(e)'
    <3>1. r.pc = "block" => \A e \in r.puts : e.h \in Nat
      BY <1>2 DEF Asks, IsIndexing
    <3> QED BY <1>2, <1>3, <2>3, <2>4, <3>1
  <2> QED BY <1>0, <1>1, <2>1, <2>5, <2>6 DEF AllTold
<1>5. ASSUME UNCHANGED <<chainVars, index>>, NEW s, q' = [q EXCEPT ![c] = s], s.pc # "block"
      PROVE  AllTold'
  BY <1>0, <1>5, TellStep
<1>6. CASE Crash
  <2>1. UNCHANGED <<index, stable>> /\ q' = [d \in Client |-> Idle]
    BY <1>6 DEF Crash, chainVars
  <2>2. \A d \in Client : q'[d].pc # "block"
    BY <2>1 DEF Idle
  <2>3. \A e : Told(e)' <=> Told(e)
    BY DEF Told
  <2> QED BY <2>1, <2>2, <2>3 DEF AllTold
<1>7. CASE ReadTip(c)
  <2>1. PICK s : UNCHANGED <<chainVars, index>> /\ q' = [q EXCEPT ![c] = s] /\ s = [pc |-> "meta", tip |-> height]
    BY <1>7 DEF ReadTip, Step
  <2>2. s.pc # "block"
    BY <2>1, ToIndexPc
  <2> QED BY <1>5, <2>1, <2>2
<1>8. CASE ReadMeta(c)
  <2>1. PICK s : /\ UNCHANGED <<chainVars, index>> /\ q' = [q EXCEPT ![c] = s]
                 /\ s = IF meta.count > 0 /\ q[c].tip < meta.last
                        THEN [pc |-> "collect", tip |-> q[c].tip, count |-> meta.count]
                        ELSE ToIndex([tip |-> q[c].tip, count |-> meta.count], meta.last)
    BY <1>8 DEF ReadMeta, Step
  <2>2. s.pc # "block"
    BY <2>1, ToIndexPc
  <2> QED BY <1>5, <2>1, <2>2
<1>9. CASE Collect(c)
  <2>1. PICK s : /\ UNCHANGED <<chainVars, index>> /\ q' = [q EXCEPT ![c] = s]
                 /\ s = IF Above(r.tip) = {} THEN ToIndex(r, r.tip)
                        ELSE [pc |-> "delete", tip |-> r.tip, count |-> r.count,
                              del |-> Above(r.tip), n |-> Cardinality(Above(r.tip))]
    BY <1>1, <1>9 DEF Collect, Step
  <2>2. s.pc # "block"
    BY <2>1, ToIndexPc
  <2> QED BY <1>5, <2>1, <2>2
<1>10. CASE DeleteEntry(c)
  <2>1. PICK e \in r.del : /\ index' = {d \in index : <<d.h, d.i>> # <<e.h, e.i>>}
                           /\ q' = [q EXCEPT ![c] = [r EXCEPT !.del = @ \ {e}]]
    BY <1>1, <1>10 DEF DeleteEntry, Step
  <2>2. UNCHANGED chainVars /\ r.pc = "delete"
    BY <1>1, <1>10 DEF DeleteEntry
  <2>3. [r EXCEPT !.del = @ \ {e}].pc = "delete"
    BY <1>2, <2>2 DEF Asks, IsDeleting
  <2>4. \A d \in index' : d \in index
    BY <2>1
  <2> QED BY <1>0, <2>1, <2>2, <2>3, <2>4, TellStep
<1>11. CASE RolledBack(c)
  <2>1. PICK s : UNCHANGED <<chainVars, index>> /\ q' = [q EXCEPT ![c] = s] /\ s = ToIndex(q[c], q[c].tip)
    BY <1>11 DEF RolledBack, Step
  <2>2. s.pc # "block"
    BY <2>1, ToIndexPc
  <2> QED BY <1>5, <2>1, <2>2
<1>12. CASE Open(c)
  <2>1. PICK s : /\ UNCHANGED <<chainVars, index>> /\ q' = [q EXCEPT ![c] = s]
                 /\ s = [pc |-> "block", tip |-> q[c].tip, next |-> q[c].next, got |-> meta,
                         n |-> 0, puts |-> {}]
    BY <1>12 DEF Open, Step
  <2>2. s.puts = {}
    BY <2>1
  <2> QED BY <1>0, <2>1, <2>2, TellStep
<1>13. CASE ReadBlock(c)
  <2>1. PICK new : new = IF r.next \in DOMAIN byHeight THEN EntriesOf(r.next) ELSE {}
    OBVIOUS
  <2>2. PICK s : s = [r EXCEPT !.next = @ + 1, !.n = @ + Cardinality(new), !.puts = new]
    OBVIOUS
  <2>3. /\ r.pc = "block" /\ r.next <= r.tip /\ UNCHANGED <<chainVars, index>>
        /\ q' = [q EXCEPT ![c] = s]
    BY <1>1, <1>13, <2>1, <2>2 DEF ReadBlock, Step
  <2>4. IsIndexing(r) /\ Current(r.tip) /\ r.tip \in Nat /\ r.next \in 0..r.tip
    <3>1. IsIndexing(r) /\ Current(r.tip) /\ r.tip \in Nat
      BY <1>2, <2>3, BoundAssumption DEF Asks, Current
    <3> QED BY <2>3, <3>1 DEF IsIndexing
  <2>5. s.puts = new
    <3>1. r = [pc |-> r.pc, tip |-> r.tip, next |-> r.next, got |-> r.got, n |-> r.n,
               puts |-> r.puts]
      BY <2>4 DEF IsIndexing
    <3> QED BY <2>2, <3>1
  <2>6. ASSUME NEW e \in new, e.h <= stable PROVE Told(e)
    <3>1. r.next \in DOMAIN byHeight /\ e \in EntriesOf(r.next)
      BY <2>1, <2>6
    <3>2. e.h = r.next
      BY <3>1, EntriesOfFacts DEF HistoryInv
    <3>3. r.next <= height
      BY <2>4, <2>6, <3>2, StaysHasBlock
    <3>4. r.next \in 0..height
      BY <2>4, <3>3, BoundAssumption DEF HistoryInv, Chains
    <3>5. r.next \in 0..Top
      BY <2>6, <3>2, <3>4, TopFacts DEF HistoryInv
    <3> QED BY <3>1, <3>5, ReadTold
  <2> QED BY <1>0, <2>3, <2>5, <2>6, TellStep
<1>14. CASE PutEntry(c)
  <2>1. PICK e \in r.puts : /\ index' = {d \in index : <<d.h, d.i>> # <<e.h, e.i>>} \cup {e}
                            /\ q' = [q EXCEPT ![c] = [r EXCEPT !.puts = @ \ {e}]]
    BY <1>1, <1>14 DEF PutEntry, Step
  <2>2. UNCHANGED chainVars /\ r.pc = "block"
    BY <1>1, <1>14 DEF PutEntry
  <2>3. [r EXCEPT !.puts = @ \ {e}].puts = r.puts \ {e}
    <3>1. r = [pc |-> r.pc, tip |-> r.tip, next |-> r.next, got |-> r.got, n |-> r.n,
               puts |-> r.puts]
      BY <1>2, <2>2 DEF Asks, IsIndexing
    <3> QED BY <3>1
  <2>4. e.h <= stable => Told(e)
    BY <1>3, <2>1, <2>2
  <2>5. \A d \in index' : d \in index \/ (d.h <= stable => Told(d))
    BY <2>1, <2>4
  <2>6. \A d \in [r EXCEPT !.puts = @ \ {e}].puts : d.h <= stable => Told(d)
    BY <1>3, <2>2, <2>3
  <2> QED BY <1>0, <2>1, <2>2, <2>5, <2>6, TellStep
<1>15. CASE Indexed(c)
  <2>1. PICK s : UNCHANGED <<chainVars, index>> /\ q' = [q EXCEPT ![c] = s] /\ s = [pc |-> "list", tip |-> q[c].tip]
    BY <1>15 DEF Indexed, Step
  <2>2. s.pc # "block"
    BY <2>1, ToIndexPc
  <2> QED BY <1>5, <2>1, <2>2
<1>16. CASE List(c)
  <2>1. UNCHANGED <<chainVars, index>> /\ q' = [q EXCEPT ![c] = Idle]
    BY <1>16 DEF List, Step
  <2>2. Idle.pc # "block"
    BY DEF Idle
  <2> QED BY <1>5, <2>1, <2>2
<1>17. CASE UNCHANGED vars
  <2>1. UNCHANGED <<index, q, stable>>
    BY <1>17 DEF vars, chainVars
  <2>2. \A e : Told(e)' <=> Told(e)
    BY DEF Told
  <2> QED BY <2>1, <2>2 DEF AllTold
<1>18. Query(c) => AllTold'
  BY <1>7, <1>8, <1>9, <1>10, <1>11, <1>12, <1>13, <1>14, <1>15, <1>16 DEF Query
<1> QED BY <1>0, <1>4, <1>6, <1>17, <1>18 DEF Next

-----------------------------------------------------------------------------
(* Up to a height that stays, the ledger adds up.                           *)

\* A transaction is in one block, and what the wallet owns is spent once, by a
\* block above the one that created it or in it.
LEMMA InOneBlock ==
  ASSUME Chains, Ledger, NEW h \in 0..Top, NEW k \in 0..Top,
         NEW x \in TxsOf(byHeight[h]), x \in TxsOf(byHeight[k])
  PROVE  h = k
<1>1. \A i, j \in 0..Top : i < j => TxsOf(byHeight[i]) \cap TxsOf(byHeight[j]) = {}
  <2> SUFFICES ASSUME NEW i \in 0..Top, NEW j \in 0..Top, i < j
               PROVE  TxsOf(byHeight[i]) \cap TxsOf(byHeight[j]) = {}
    OBVIOUS
  <2>1. TxsOf(byHeight[j]) \cap Confirmed(j - 1) = {}
    BY DEF Ledger, Fits
  <2>2. i \in 0..j - 1
    BY TopFacts
  <2>3. TxsOf(byHeight[i]) \subseteq Confirmed(j - 1)
    BY <2>2 DEF Confirmed
  <2> QED BY <2>1, <2>3
<1>2. h < k \/ h = k \/ k < h
  BY TopFacts
<1> QED BY <1>1, <1>2

LEMMA SpentOnce ==
  ASSUME Chains, Ledger, NEW n \in 0..Top, NEW x \in Confirmed(n), NEW y \in Confirmed(n), x # y
  PROVE  SpentBy({x}) \cap SpentBy({y}) \cap OurCoins(DOMAIN Tx) = {}
<1>1. \A h \in 0..n : h \in 0..Top
  BY TopFacts
<1>2. ASSUME NEW h \in 0..n, NEW k \in 0..n, h < k, NEW v \in TxsOf(byHeight[h]),
             NEW w \in TxsOf(byHeight[k]), NEW u \in SpentBy({v}), u \in SpentBy({w}),
             u \in OurCoins(DOMAIN Tx)
      PROVE  FALSE
  <2>1. h \in 0..k - 1 /\ Fits(byHeight[k], Confirmed(k - 1))
    BY <1>1, <1>2 DEF Ledger
  <2>2. u \in SpentBy(Confirmed(k - 1))
    <3>1. v \in Confirmed(k - 1)
      BY <2>1 DEF Confirmed
    <3> QED BY <3>1 DEF SpentBy
  <2>3. PICK m \in Tx[w].ins : m.from = u
    BY <1>2 DEF SpentBy
  <2>4. m.from[1] \in DOMAIN Tx
    BY <1>2, <2>3 DEF OurCoins
  <2>5. m.from \notin SpentBy(Confirmed(k - 1))
    BY <2>1, <2>4 DEF Fits
  <2> QED BY <2>2, <2>3, <2>5
<1>3. PICK h \in 0..n : x \in TxsOf(byHeight[h])
  BY DEF Confirmed
<1>4. PICK k \in 0..n : y \in TxsOf(byHeight[k])
  BY DEF Confirmed
<1>5. CASE h = k
  <2>1. Fits(byHeight[h], Confirmed(h - 1))
    BY <1>1 DEF Ledger
  <2> QED BY <1>3, <1>4, <1>5, <2>1 DEF Fits
<1>6. CASE h # k
  <2>1. h < k \/ k < h
    BY <1>1, <1>6
  <2> QED BY <1>2, <1>3, <1>4, <2>1
<1> QED BY <1>5, <1>6

LEMMA SpentIsOurs ==
  ASSUME Chains, Ledger, NEW n \in 0..Top
  PROVE  SpentBy(Confirmed(n)) \cap OurCoins(DOMAIN Tx) \subseteq OurCoins(Confirmed(n))
<1> SUFFICES ASSUME NEW u \in SpentBy(Confirmed(n)), u \in OurCoins(DOMAIN Tx)
             PROVE  u \in OurCoins(Confirmed(n))
  OBVIOUS
<1>1. PICK x \in Confirmed(n) : \E m \in Tx[x].ins : u = m.from
  BY DEF SpentBy
<1>2. PICK h \in 0..n : x \in TxsOf(byHeight[h])
  BY DEF Confirmed
<1>3. h \in 0..Top /\ \A k \in 0..h - 1 : k \in 0..n
  BY TopFacts
<1>4. u[1] \in DOMAIN Tx
  BY DEF OurCoins
<1>5. u[1] \in Confirmed(h - 1) \cup TxsOf(byHeight[h])
  <2>1. Fits(byHeight[h], Confirmed(h - 1))
    BY <1>3 DEF Ledger
  <2> QED BY <1>1, <1>2, <1>4, <2>1 DEF Fits
<1>6. u[1] \in Confirmed(n)
  BY <1>3, <1>5 DEF Confirmed
<1> QED BY <1>6 DEF OurCoins

LEMMA ConfirmedFinite ==
  ASSUME Chains, NEW n \in 0..Top
  PROVE  IsFiniteSet(Confirmed(n))
<1>1. Top \in Nat /\ \A h \in 0..Top : byHeight[h] \in Block \cup {<<>>}
  BY TopFacts DEF Chains
<1>2. ASSUME NEW h \in 0..Top PROVE IsFiniteSet(TxsOf(byHeight[h]))
  <2>1. PICK b \in Block \cup {<<>>} : b = byHeight[h]
    BY <1>1
  <2> DEFINE f == [i \in DOMAIN b |-> b[i]]
  <2>2. f \in Surjection(DOMAIN b, TxsOf(b))
    BY DEF TxsOf, Surjection
  <2> HIDE DEF f
  <2>3. IsFiniteSet(DOMAIN b)
    BY BlockFacts
  <2> QED BY <2>1, <2>2, <2>3, FS_Surjection
<1> DEFINE S == {k \in 0..Top : IsFiniteSet(Confirmed(k))}
<1>3. 0 \in S
  <2>1. Confirmed(0) = TxsOf(byHeight[0])
    <3>1. 0..0 = {0}
      OBVIOUS
    <3> QED BY <3>1 DEF Confirmed
  <2> QED BY <1>1, <1>2, <2>1
<1>4. ASSUME NEW k \in 0..Top - 1, k \in S PROVE k + 1 \in S
  <2>1. k + 1 \in 0..Top /\ 0..k + 1 = (0..k) \cup {k + 1}
    BY <1>1
  <2>2. Confirmed(k + 1) = Confirmed(k) \cup TxsOf(byHeight[k + 1])
    BY <2>1 DEF Confirmed
  <2>3. IsFiniteSet(Confirmed(k)) /\ IsFiniteSet(TxsOf(byHeight[k + 1]))
    BY <1>2, <1>4, <2>1
  <2>4. IsFiniteSet(Confirmed(k) \cup TxsOf(byHeight[k + 1]))
    <3>1. PICK A, B : A = Confirmed(k) /\ B = TxsOf(byHeight[k + 1])
      OBVIOUS
    <3> QED BY <2>3, <3>1, FS_Union
  <2> QED BY <2>1, <2>2, <2>4
<1>5. n \in S
  <2> HIDE DEF S
  <2> QED BY <1>1, <1>3, <1>4, BoundedInduction
<1> QED BY <1>5

\* A transaction's coins, and what it spends of the wallet's.
Spends(names) == SpentBy(names) \cap OurCoins(DOMAIN Tx)
Change == [x \in DOMAIN Tx |-> Gain(x) - Loss(x)]

LEMMA CoinsOfOne ==
  ASSUME NEW x \in DOMAIN Tx
  PROVE  /\ IsFiniteSet(OurCoins({x})) /\ OurCoins({x}) \subseteq AllCoins
         /\ \A u \in OurCoins({x}) : u[1] = x
         /\ IsFiniteSet(Spends({x})) /\ Spends({x}) \subseteq AllCoins
<1>1. OurCoins({x}) \subseteq CoinsIn(x, Outs(Tx[x])) /\ \A u \in OurCoins({x}) : u[1] = x
  BY DEF OurCoins, CoinsIn, Outs
<1>2. /\ IsFiniteSet(CoinsIn(x, Outs(Tx[x])))
      /\ CoinsIn(x, Outs(Tx[x])) \subseteq AllCoins
  BY CoinFacts
<1>3. IsFiniteSet(OurCoins({x})) /\ OurCoins({x}) \subseteq AllCoins
  BY <1>1, <1>2, FS_Subset
<1>4. IsFiniteSet(SpentBy({x}))
  <2> DEFINE f == [n \in Tx[x].ins |-> n.from]
  <2>1. SpentBy({x}) = {n.from : n \in Tx[x].ins}
    <3>1. UNION {Tx[y].ins : y \in {x}} = Tx[x].ins
      OBVIOUS
    <3> QED BY <3>1 DEF SpentBy
  <2>2. f \in Surjection(Tx[x].ins, SpentBy({x}))
    BY <2>1 DEF Surjection
  <2> HIDE DEF f
  <2> QED BY <2>2, TxAssumption, FS_Surjection
<1>5. IsFiniteSet(Spends({x}))
  BY <1>4, FS_Subset DEF Spends
<1>6. Spends({x}) \subseteq AllCoins
  BY DEF Spends, OurCoins, AllCoins
<1> QED BY <1>1, <1>3, <1>5, <1>6

LEMMA LedgerSum ==
  ASSUME Chains, Ledger, NEW n \in 0..Top, \A x \in DOMAIN Tx : Loss(x) \in Int /\ Gain(x) \in Int
  PROVE  LET C == Confirmed(n) IN
         /\ IsFiniteSet(OurCoins(C)) /\ IsFiniteSet(Spends(C))
         /\ AddUp(Change, C) = AddUp(worth, OurCoins(C)) - AddUp(worth, Spends(C))
<1> DEFINE C == Confirmed(n)
           Good(X) == /\ IsFiniteSet(OurCoins(X)) /\ IsFiniteSet(Spends(X))
                      /\ AddUp(Change, X) = AddUp(worth, OurCoins(X)) - AddUp(worth, Spends(X))
           P == {X \in SUBSET C : Good(X)}
<1>1. IsFiniteSet(C) /\ C \subseteq DOMAIN Tx /\ \A x \in C : Change[x] \in Int
  <2>1. n \in Int /\ n <= Top
    BY TopFacts
  <2>2. C \subseteq DOMAIN Tx
    BY <2>1, ConfirmedIn
  <2> QED BY <2>2, ConfirmedFinite DEF Change
<1>2. \A X \in SUBSET C : OurCoins(X) \subseteq AllCoins /\ Spends(X) \subseteq AllCoins
  BY <1>1 DEF OurCoins, Spends, AllCoins
<1>3. \A u \in AllCoins : worth[u] \in Int
  <2> SUFFICES ASSUME NEW u \in AllCoins PROVE worth[u] \in Int
    OBVIOUS
  <2>1. PICK x \in DOMAIN Tx : TRUE
    BY DEF AllCoins
  <2> QED BY <2>1, CoinFacts
<1>4. {} \in P
  <2>1. OurCoins({}) = {} /\ Spends({}) = {}
    BY DEF OurCoins, Spends, SpentBy
  <2>2. IsFiniteSet({}) /\ AddUp(worth, {}) = 0 /\ AddUp(Change, {}) = 0
    BY FS_EmptySet, AddUpAdd
  <2> QED BY <2>1, <2>2
<1>5. ASSUME NEW X \in SUBSET C, NEW x \in C \ X, X \in P PROVE X \cup {x} \in P
  <2> DEFINE Y == X \cup {x}
  <2>1. x \in DOMAIN Tx /\ Y \in SUBSET C /\ x \in Y /\ Y \ {x} = X
    BY <1>1
  <2>2. /\ OurCoins(Y) = OurCoins(X) \cup OurCoins({x}) /\ Spends(Y) = Spends(X) \cup Spends({x})
    BY DEF OurCoins, Spends, SpentBy
  <2>3. OurCoins(X) \cap OurCoins({x}) = {}
    <3>1. \A u \in OurCoins(X) : u[1] \in X
      BY DEF OurCoins
    <3> QED BY <2>1, <3>1, CoinsOfOne
  <2>4. Spends(X) \cap Spends({x}) = {}
    <3> SUFFICES ASSUME NEW u \in Spends(X), u \in Spends({x}) PROVE FALSE
      OBVIOUS
    <3>1. PICK y \in X : u \in SpentBy({y})
      BY DEF Spends, SpentBy
    <3>2. SpentBy({x}) \cap SpentBy({y}) \cap OurCoins(DOMAIN Tx) = {}
      BY SpentOnce
    <3> QED BY <3>1, <3>2 DEF Spends
  <2> HIDE DEF Y
  <2>5. Good(X)
    BY <1>5
  <2>6. /\ IsFiniteSet(OurCoins({x})) /\ IsFiniteSet(Spends({x}))
        /\ OurCoins({x}) \subseteq AllCoins /\ Spends({x}) \subseteq AllCoins
    BY <2>1, CoinsOfOne
  <2>7. IsFiniteSet(OurCoins(Y)) /\ IsFiniteSet(Spends(Y))
    <3>1. \A A, B : IsFiniteSet(A) /\ IsFiniteSet(B) => IsFiniteSet(A \cup B)
      BY FS_Union
    <3>2. IsFiniteSet(OurCoins(X) \cup OurCoins({x})) /\ IsFiniteSet(Spends(X) \cup Spends({x}))
      <4>1. IsFiniteSet(OurCoins(X)) /\ IsFiniteSet(Spends(X))
        BY <2>5
      <4> QED BY <2>6, <3>1, <4>1, Zenon
    <3> QED BY <2>2, <3>2, Zenon
  <2>8. AddUp(worth, OurCoins(Y)) = AddUp(worth, OurCoins(X)) + Gain(x)
    <3>1. PICK A, B : A = OurCoins(X) /\ B = OurCoins({x})
      OBVIOUS
    <3>2. \A u \in A \cup B : worth[u] \in Int
      BY <1>2, <1>3, <2>6, <3>1
    <3>3. AddUp(worth, A \cup B) = AddUp(worth, A) + AddUp(worth, B)
      BY <2>3, <2>5, <2>6, <3>1, <3>2, AddUpUnion
    <3> QED BY <2>2, <3>1, <3>3 DEF Gain
  <2>9. AddUp(worth, Spends(Y)) = AddUp(worth, Spends(X)) + Loss(x)
    <3>1. PICK A, B : A = Spends(X) /\ B = Spends({x})
      OBVIOUS
    <3>2. \A u \in A \cup B : worth[u] \in Int
      BY <1>2, <1>3, <2>6, <3>1
    <3>3. AddUp(worth, A \cup B) = AddUp(worth, A) + AddUp(worth, B)
      BY <2>4, <2>5, <2>6, <3>1, <3>2, AddUpUnion
    <3> QED BY <2>2, <3>1, <3>3 DEF Loss, Spends
  <2>10. AddUp(Change, Y) = (Gain(x) - Loss(x)) + AddUp(Change, X)
    <3>1. IsFiniteSet(Y) /\ \A y \in Y : Change[y] \in Int
      BY <1>1, <2>1, FS_Subset
    <3>2. AddUp(Change, Y) = Change[x] + AddUp(Change, Y \ {x})
      BY <2>1, <3>1, AddUpAdd
    <3> QED BY <2>1, <3>2 DEF Change
  <2>11. AddUp(worth, OurCoins(X)) \in Int /\ AddUp(worth, Spends(X)) \in Int
    <3>1. \A u \in OurCoins(X) : worth[u] \in Int
      BY <1>2, <1>3
    <3>2. \A u \in Spends(X) : worth[u] \in Int
      BY <1>2, <1>3
    <3>3. AddUp(worth, OurCoins(X)) \in Int
      BY <2>5, <3>1, AddUpAdd
    <3>4. AddUp(worth, Spends(X)) \in Int
      BY <2>5, <3>2, AddUpAdd
    <3> QED BY <3>3, <3>4
  <2>12. Gain(x) \in Int /\ Loss(x) \in Int
    BY <2>1
  <2>13. AddUp(Change, Y) = AddUp(worth, OurCoins(Y)) - AddUp(worth, Spends(Y))
    <3>1. AddUp(Change, X) = AddUp(worth, OurCoins(X)) - AddUp(worth, Spends(X))
      BY <2>5
    <3> QED BY <2>8, <2>9, <2>10, <2>11, <2>12, <3>1
  <2> HIDE DEF C
  <2> QED BY <2>1, <2>7, <2>13 DEF Y
<1>6. C \in P
  <2> HIDE DEF P, C
  <2> QED BY <1>1, <1>4, <1>5, SubsetInduction
<1> QED BY <1>6

LEMMA BalanceIs ==
  ASSUME Chains, Ledger, NEW n \in 0..Top, \A x \in DOMAIN Tx : Loss(x) \in Int /\ Gain(x) \in Int
  PROVE  Balance(n) = AddUp(Change, Confirmed(n))
<1> DEFINE A == OurCoins(Confirmed(n))
           B == Spends(Confirmed(n))
           D == A \ B
<1>1. /\ IsFiniteSet(A) /\ IsFiniteSet(B)
      /\ AddUp(Change, Confirmed(n)) = AddUp(worth, A) - AddUp(worth, B)
  BY LedgerSum
<1>2. Confirmed(n) \subseteq DOMAIN Tx
  BY TopFacts, ConfirmedIn
<1>3. A \subseteq OurCoins(DOMAIN Tx) /\ A \subseteq AllCoins
  BY <1>2 DEF OurCoins, AllCoins
<1>4. B \subseteq A
  BY SpentIsOurs DEF Spends
<1>5. A \ SpentBy(Confirmed(n)) = D
  BY <1>3 DEF Spends
<1>6. \A u \in A : worth[u] = Worth(u) /\ worth[u] \in Int
  <2> SUFFICES ASSUME NEW u \in AllCoins PROVE worth[u] = Worth(u) /\ worth[u] \in Int
    BY <1>3
  <2>1. PICK x \in DOMAIN Tx : TRUE
    BY DEF AllCoins
  <2> QED BY <2>1, CoinFacts
<1>7. D \subseteq A /\ D \cap B = {} /\ D \cup B = A
  BY <1>4
<1>8. Balance(n) = CoinSum(D)
  BY <1>5 DEF Balance
<1> HIDE DEF A, B, D
<1>9. IsFiniteSet(D)
  BY <1>1, <1>7, FS_Subset
<1>10. CoinSum(D) = AddUp(worth, D)
  <2> DEFINE f == [u \in D |-> Worth(u)]
  <2>1. \A u \in D : Worth(u) \in Int
    BY <1>6, <1>7
  <2>2. CoinSum(D) = AddUp(f, D)
    BY <1>9, <2>1, CoinSumIs
  <2>3. \A u \in D : worth[u] \in Int /\ f[u] = worth[u]
    BY <1>6, <1>7
  <2> HIDE DEF f
  <2>4. AddUp(f, D) = AddUp(worth, D)
    BY <1>9, <2>3, AddUpSame
  <2> QED BY <2>2, <2>4
<1>11. AddUp(worth, A) = AddUp(worth, D) + AddUp(worth, B)
  <2>1. \A u \in D \cup B : worth[u] \in Int
    BY <1>6, <1>7
  <2>2. AddUp(worth, D \cup B) = AddUp(worth, D) + AddUp(worth, B)
    BY <1>1, <1>7, <1>9, <2>1, AddUpUnion
  <2> QED BY <1>7, <2>2
<1>12. AddUp(worth, D) \in Int /\ AddUp(worth, B) \in Int
  <2>1. \A u \in D : worth[u] \in Int
    BY <1>6, <1>7
  <2>2. \A u \in B : worth[u] \in Int
    BY <1>4, <1>6
  <2>3. AddUp(worth, D) \in Int
    BY <1>9, <2>1, AddUpAdd
  <2>4. AddUp(worth, B) \in Int
    BY <1>1, <2>2, AddUpAdd
  <2> QED BY <2>3, <2>4
<1> QED BY <1>1, <1>8, <1>10, <1>11, <1>12

\* An answer's entries are the wallet's transactions up to n, once.
Lists(n) ==
  /\ n \in 0..Top /\ IsFiniteSet(Listed(n))
  /\ \A e \in Listed(n) : /\ e \in index /\ e.h <= stable /\ e.tx \in DOMAIN Tx
                          /\ e.tx \in Confirmed(n) /\ Touches(e.tx)
  /\ \A d, e \in Listed(n) : d.tx = e.tx => d = e
  /\ \A x \in Confirmed(n) : Touches(x) => \E e \in Listed(n) : e.tx = x

LEMMA ListedIs ==
  ASSUME HistoryInv, Ledger, NEW c \in Client, Answers(c), NEW n, n = Min({q[c].tip, stable})
  PROVE  Lists(n)
<1>1. PICK tip : tip = q[c].tip
  OBVIOUS
<1>2. Current(tip) /\ tip \in Nat /\ stable \in Nat
  BY <1>1, BoundAssumption DEF HistoryInv, Asks, Answers, Current, Chains
<1>3. n \in Nat /\ n <= tip /\ n <= stable
  BY <1>1, <1>2, MinOfTwo
<1>4. n \in 0..Top
  <2>1. n \in 0..tip
    BY <1>2, <1>3
  <2>2. n <= height
    BY <1>2, <1>3, <2>1, StaysHasBlock
  <2>3. n \in 0..height
    BY <1>3, <2>2, BoundAssumption DEF HistoryInv, Chains
  <2> QED BY <1>3, <2>3, TopFacts DEF HistoryInv
<1>5. \A h \in 0..n : /\ h \in 0..Top /\ byHeight[h] \in Block \cup {<<>>}
  BY <1>4, TopFacts DEF HistoryInv, Chains
<1>6. Listed(n) \subseteq index /\ IsFiniteSet(Listed(n))
  BY FS_Subset DEF Listed, HistoryInv, Entries
<1>7. Reported(Listed(stable)) = Due(n)
  BY HistoryGivesStable
<1>8. ASSUME NEW e \in Listed(n)
      PROVE  /\ e \in index /\ e.h \in 0..n /\ e.h <= stable /\ Placed(e)
             /\ e.tx \in TxsOf(byHeight[e.h]) /\ Touches(e.tx) /\ e.tx \in DOMAIN Tx
  <2>1. e \in index /\ e.h \in Nat /\ e.h <= n
    BY <1>6 DEF Listed, HistoryInv, Entries
  <2>2. e.h \in 0..n /\ e.h <= stable
    BY <1>2, <1>3, <2>1
  <2>3. Placed(e)
    BY <2>1, <2>2 DEF HistoryInv, Entries
  <2>4. PICK k \in Own(byHeight[e.h]) : e.tx = byHeight[e.h][k]
    BY <2>3 DEF Placed
  <2>5. k \in DOMAIN byHeight[e.h] /\ Touches(e.tx)
    BY <2>4 DEF Own
  <2>6. e.tx \in DOMAIN Tx
    <3>1. PICK b \in Block \cup {<<>>} : b = byHeight[e.h]
      BY <1>5, <2>2
    <3>2. k \in DOMAIN b /\ e.tx = b[k]
      BY <2>4, <2>5, <3>1
    <3> QED BY <3>2, BlockFacts
  <2> QED BY <2>1, <2>2, <2>3, <2>4, <2>5, <2>6 DEF TxsOf
<1>9. ASSUME NEW d \in Listed(n), NEW e \in Listed(n), d.tx = e.tx PROVE d = e
  <2>1. d.h = e.h
    <3>1. d.h \in 0..Top /\ e.h \in 0..Top
      BY <1>5, <1>8
    <3>2. d.tx \in TxsOf(byHeight[d.h]) /\ d.tx \in TxsOf(byHeight[e.h])
      BY <1>8, <1>9
    <3> QED BY <3>1, <3>2, InOneBlock DEF HistoryInv
  <2>2. PICK b \in Block \cup {<<>>} : b = byHeight[e.h]
    BY <1>5, <1>8
  <2>3. PICK j \in Own(b) : d.tx = b[j] /\ d.i = Rank(b, j)
    BY <1>8, <2>1, <2>2 DEF Placed
  <2>4. PICK k \in Own(b) : e.tx = b[k] /\ e.i = Rank(b, k)
    BY <1>8, <2>2 DEF Placed
  <2>5. j = k
    <3>1. j \in DOMAIN b /\ k \in DOMAIN b /\ b[j] = b[k]
      BY <1>9, <2>3, <2>4 DEF Own
    <3> QED BY <3>1, BlockFacts
  <2> QED BY <1>8, <2>1, <2>3, <2>4, <2>5 DEF HistoryInv, Entries
<1>10. ASSUME NEW x \in Confirmed(n), Touches(x) PROVE \E e \in Listed(n) : e.tx = x
  <2>1. PICK h \in 0..n : x \in TxsOf(byHeight[h])
    BY DEF Confirmed
  <2>2. x \in DOMAIN Tx
    <3>1. PICK b \in Block \cup {<<>>} : b = byHeight[h]
      BY <1>5, <2>1
    <3>2. PICK k \in DOMAIN b : x = b[k]
      BY <2>1, <3>1 DEF TxsOf
    <3> QED BY <3>2, BlockFacts
  <2>3. <<h, x>> \in Due(n)
    BY <1>10, <2>1, <2>2 DEF Due
  <2>4. PICK e \in Listed(stable) : <<h, x>> = <<e.h, e.tx>>
    BY <1>7, <2>3 DEF Reported
  <2>5. e \in index /\ e.h = h /\ e.tx = x /\ h <= n
    BY <1>3, <2>4 DEF Listed
  <2> QED BY <2>5 DEF Listed
<1>11. \A e \in Listed(n) : e.tx \in Confirmed(n)
  BY <1>8 DEF Confirmed
<1> QED BY <1>4, <1>6, <1>8, <1>9, <1>10, <1>11 DEF Lists

LEMMA AnswerAddsUp ==
  ASSUME HistoryInv, Ledger, AllTold, \A x \in DOMAIN Tx : Ordinary(x),
         NEW c \in Client, Answers(c), NEW n, n = Min({q[c].tip, stable})
  PROVE  MapThenSumSet(Effect, Listed(n)) = Balance(n)
<1> DEFINE L == Listed(n)
           C == Confirmed(n)
           D == {x \in C : Touches(x)}
           f == [e \in L |-> Effect(e)]
           m == [e \in L |-> e.tx]
<1>1. /\ n \in 0..Top /\ IsFiniteSet(L)
      /\ \A e \in L : /\ e \in index /\ e.h <= stable /\ e.tx \in DOMAIN Tx
                      /\ e.tx \in C /\ Touches(e.tx)
      /\ \A d, e \in L : d.tx = e.tx => d = e
      /\ \A x \in C : Touches(x) => \E e \in L : e.tx = x
  <2>1. Lists(n)
    BY ListedIs
  <2> QED BY <2>1 DEF Lists
<1>2. \A x \in DOMAIN Tx : Gain(x) \in Int
  <2> SUFFICES ASSUME NEW x \in DOMAIN Tx PROVE Gain(x) \in Int
    OBVIOUS
  <2>1. Ordinary(x)
    OBVIOUS
  <2>2. Gain(x) \in Nat
    BY <2>1, GainIs
  <2> QED BY <2>2
<1>3. ASSUME NEW e \in L
      PROVE  Effect(e) = Change[e.tx] /\ Change[e.tx] \in Int
  <2>1. e.tx \in DOMAIN Tx /\ Touches(e.tx) /\ Ordinary(e.tx)
    BY <1>1
  <2>2. Tells(e, Classify(Tx[e.tx], DOMAIN Tx))
    BY <1>1 DEF AllTold, Told
  <2>3. PICK x \in DOMAIN Tx : x = e.tx
    BY <2>1
  <2>4. Effect(e) = Gain(x) - Loss(x) /\ Loss(x) \in Int
    BY <2>1, <2>2, <2>3, EffectOf
  <2> QED BY <1>2, <2>3, <2>4 DEF Change
<1>4. \A x \in DOMAIN Tx : Loss(x) \in Int /\ Gain(x) \in Int
  <2> SUFFICES ASSUME NEW x \in DOMAIN Tx PROVE Loss(x) \in Int
    BY <1>2
  <2>1. CASE Touches(x)
    <3>1. \E e : Tells(e, Classify(Tx[x], DOMAIN Tx))
      BY DEF Tells
    <3> QED BY <2>1, <3>1, EffectOf
  <2>2. CASE ~ Touches(x)
    BY <2>2, NoEffect
  <2> QED BY <2>1, <2>2
<1>5. IsFiniteSet(C) /\ C \subseteq DOMAIN Tx
  <2>1. n \in Int /\ n <= Top /\ Chains
    BY <1>1, TopFacts DEF HistoryInv
  <2> QED BY <1>1, <2>1, ConfirmedFinite, ConfirmedIn
<1>6. \A x \in C : Change[x] \in Int /\ (~ Touches(x) => Change[x] = 0)
  <2> SUFFICES ASSUME NEW x \in DOMAIN Tx
               PROVE  Change[x] \in Int /\ (~ Touches(x) => Change[x] = 0)
    BY <1>5
  <2>1. Change[x] = Gain(x) - Loss(x) /\ Gain(x) \in Int /\ Loss(x) \in Int
    BY <1>4 DEF Change
  <2>2. ~ Touches(x) => Gain(x) = 0 /\ Loss(x) = 0
    BY NoEffect
  <2> QED BY <2>1, <2>2
<1>7. Renames(L, m, D)
  <2>1. m \in [L -> D] /\ \A e \in L : m[e] = e.tx
    BY <1>1
  <2> HIDE DEF m, L, C
  <2> QED BY <1>1, <2>1 DEF Renames
<1>8. MapThenSumSet(Effect, L) = AddUp(f, L)
  <2>1. \A e \in L : Effect(e) \in Int
    BY <1>3
  <2> QED BY <1>1, <2>1, EffectSum
<1>9. AddUp(Change, D) = AddUp(f, L)
  <2>1. \A e \in L : f[e] \in Int
    BY <1>3
  <2>2. \A e \in L : Change[m[e]] = f[e]
    BY <1>3
  <2> HIDE DEF f, m, L, D
  <2> QED BY <1>7, <2>1, <2>2, AddUpImage
<1>10. AddUp(Change, C) = AddUp(Change, D)
  <2>1. \A x \in C \ D : Change[x] = 0
    BY <1>6
  <2> HIDE DEF C
  <2>2. PICK R : /\ R = C \ D /\ D \subseteq C /\ D \cap R = {} /\ D \cup R = C
                 /\ \A x \in R : Change[x] = 0
    BY <2>1
  <2> HIDE DEF D
  <2>3. IsFiniteSet(D) /\ IsFiniteSet(R)
    BY <1>5, <2>2, FS_Subset
  <2>4. \A x \in D \cup R : Change[x] \in Int
    BY <1>6, <2>2
  <2>5. AddUp(Change, D \cup R) = AddUp(Change, D) + AddUp(Change, R)
    BY <2>2, <2>3, <2>4, AddUpUnion
  <2>6. AddUp(Change, R) = 0
    BY <2>2, <2>3, AddUpZero
  <2>7. AddUp(Change, D) \in Int
    BY <2>3, <2>4, AddUpAdd
  <2>8. AddUp(Change, C) = AddUp(Change, D) + 0
    <3>1. D \cup R = C
      BY <2>2
    <3> QED BY <2>5, <2>6, <3>1
  <2> QED BY <2>7, <2>8
<1>11. Balance(n) = AddUp(Change, C)
  BY <1>1, <1>4, BalanceIs DEF HistoryInv
<1> QED BY <1>8, <1>9, <1>10, <1>11

-----------------------------------------------------------------------------

LEMMA InitLedger == Init => Ledger /\ AllTold
<1> SUFFICES ASSUME Init PROVE Ledger /\ AllTold
  OBVIOUS
<1>1. Top = 0 /\ 0..0 = {0} /\ byHeight[0] = <<>>
  BY DEF Init, Top
<1>2. TxsOf(byHeight[0]) = {}
  BY <1>1 DEF TxsOf
<1>3. Confirmed(0) = {} /\ located = {} /\ pending = <<>>
  BY <1>1, <1>2 DEF Init, Confirmed
<1>4. Fits(byHeight[0], Confirmed(0 - 1))
  BY <1>2 DEF Fits
<1>5. Ledger
  BY <1>1, <1>3, <1>4 DEF Ledger
<1>6. AllTold
  BY DEF Init, AllTold, Idle
<1> QED BY <1>5, <1>6

\* For every wallet and all transactions that the ledger accepts and that the
\* wallet's handlers make, any number of reorgs and crashes, one query at a
\* time: the amounts and fees of an answer's entries, up to a height that no
\* reorg replaced, add up to what the wallet can spend there (classifyTx).
THEOREM ExplainsBalanceAlways ==
  ASSUME \E c : Client = {c}, \A x \in DOMAIN Tx : Ordinary(x)
  PROVE  Spec => []HistoryExplainsBalance
<1> DEFINE Inv == HistoryInv /\ Ledger /\ AllTold
<1>1. Init => Inv
  BY InitHistory, InitLedger
<1>2. Inv /\ [Next]_vars => Inv'
  BY NextHistory, NextLedger, NextTold
<1>3. Inv => HistoryExplainsBalance
  BY AnswerAddsUp DEF HistoryExplainsBalance
<1> HIDE DEF Inv
<1> QED BY <1>1, <1>2, <1>3, PTL DEF Spec

=============================================================================
