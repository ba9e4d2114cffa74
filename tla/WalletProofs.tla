---------------------------- MODULE WalletProofs ----------------------------
(***************************************************************************)
(* What the keystore lists: without a mishap every address the wallet was  *)
(* ever paid on, and after a rescan every address that held money, however *)
(* many requests run at a time and whatever they ask for.                  *)
(*                                                                         *)
(* ChangeTracked is about what was broadcast.  Its invariant also says what *)
(* a handler that has built its transaction is about to broadcast: outputs *)
(* to others, to account 0, or to the change address it will list.         *)
(*                                                                         *)
(* PaysExactly follows every builder from the coins it selected to the     *)
(* outputs it signs: what it spends is what it pays and the fee.           *)
(* GapsBounded counts: the unlisted indexes of a stretch below the counter *)
(* and the requests that may still raise the counter without listing one   *)
(* of them are together fewer than the slots.                              *)
(***************************************************************************)
EXTENDS Wallet, FiniteSetTheorems, WellFoundedInduction, TLAPS

IsCoin(o) ==
  o = [n |-> o.n, pos |-> o.pos, chain |-> o.chain, addr |-> o.addr, kind |-> o.kind,
       value |-> o.value, token |-> o.token, id |-> o.id]

IsTx(t) ==
  t = [n |-> t.n, kind |-> t.kind, chain |-> t.chain, ins |-> t.ins, outs |-> t.outs]

IsFile(f) ==
  f = [state |-> f.state, accounts |-> f.accounts, ext |-> f.ext, chg |-> f.chg]

IsScan(x) ==
  x = [pc |-> x.pc, kind |-> x.kind, used |-> x.used, todo |-> x.todo, own |-> x.own,
       at |-> x.at]

Shape ==
  /\ IsFile(file)
  /\ req = [r \in Slot |-> req[r]]
  /\ mishaps \in Nat
  /\ \A r \in Slot : req[r].pc \in {"register", "setExt", "setChg"} => IsScan(req[r])

\* An output that may be broadcast by a handler that lists change index idx.
MayPay(o, change, idx) ==
  /\ IsCoin(o)
  /\ \/ o.addr \in {Other, Account0}
     \/ change /\ o.addr = <<1, idx>>

\* A handler never broadcasts an output it will not list.
Prepared ==
  \A r \in Slot : req[r].pc = "add" =>
    /\ IsTx(req[r].t)
    /\ \A o \in req[r].t.outs : MayPay(o, req[r].change, req[r].idx)

Kept ==
  mishaps = 0 => file.state = "good" /\ Account0 \in file.accounts

\* An address the keystore lists, or that a handler is about to list.
Listed(a) ==
  \/ a \in file.accounts
  \/ \E r \in Slot : req[r].pc = "track" /\ a = <<1, req[r].idx>>

AllListed ==
  mishaps = 0 =>
    /\ \A c \in coins : Listed(c.addr)
    /\ \A t \in txs : \A o \in t.outs : o.addr # Other => Listed(o.addr)

TrackInv == Shape /\ Prepared /\ Kept /\ AllListed

-----------------------------------------------------------------------------
(* What the handlers build. *)

\* Every output of a request goes to others or to account 0.
LEMMA OutputsTo ==
  ASSUME NEW q, NEW in, NEW o \in Outputs(q, in)
  PROVE  IsCoin(o) /\ o.addr \in {Other, Account0}
BY DEF Outputs, Coin, IsCoin

LEMMA TransactionTo ==
  ASSUME NEW q, NEW p, NEW i, NEW o \in Transaction(q, p, i).outs
  PROVE  MayPay(o, p.change > 0, i)
<1>1. \/ o \in Outputs(q, Tokens(p.ins))
      \/ p.change > 0 /\ o = Coin(q.chain, 0, <<1, i>>, "native", p.change, 0, 0)
  BY DEF Transaction
<1>2. CASE o \in Outputs(q, Tokens(p.ins))
  BY <1>2, OutputsTo DEF MayPay
<1>3. CASE p.change > 0 /\ o = Coin(q.chain, 0, <<1, i>>, "native", p.change, 0, 0)
  <2>1. IsCoin(o) /\ o.addr = <<1, i>>
    BY <1>3 DEF Coin, IsCoin
  <2> QED BY <1>3, <2>1 DEF MayPay
<1> QED BY <1>1, <1>2, <1>3

\* Numbering changes no address.
LEMMA NumberedTo ==
  ASSUME NEW t, \A o \in t.outs : IsCoin(o),
         IsTx(t),
         NEW o \in Numbered(t).outs
  PROVE  \E p \in t.outs : o.addr = p.addr
<1> DEFINE n == Cardinality(txs) + 1
           new(p) == [p EXCEPT !.n = n, !.id = IF p.kind = "mint" THEN n ELSE @]
<1>1. Numbered(t).outs = {new(p) : p \in t.outs}
  BY DEF Numbered, IsTx
<1>2. PICK p \in t.outs : o = new(p)
  BY <1>1
<1>3. IsCoin(p)
  OBVIOUS
<1>4. new(p).addr = p.addr
  BY <1>3 DEF IsCoin
<1> QED BY <1>2, <1>4
-----------------------------------------------------------------------------
(* The keystore only ever lists more, until something goes wrong. *)

\* What a step may do to the file while nothing goes wrong.
Grows ==
  file.state = "good" => /\ IsFile(file') /\ file'.state = "good"
                         /\ file.accounts \subseteq file'.accounts

\* A rewrite that drops no account.
LEMMA RewriteGrows ==
  ASSUME IsFile(file), NEW f, IsFile(f), f.state = file.state,
         file.accounts \subseteq f.accounts, Rewrite(f)
  PROVE  Grows /\ IsFile(file') /\ (file.state = "good" => file' = f)
BY DEF Rewrite, Grows

LEMMA AddAccountGrows ==
  ASSUME IsFile(file), NEW a, AddAccount(a)
  PROVE  /\ Grows /\ IsFile(file')
         /\ file.state = "good" => file'.accounts = file.accounts \cup {a}
<1> DEFINE f == [file EXCEPT !.accounts = @ \cup {a}]
<1>1. /\ f = [state |-> file.state, accounts |-> file.accounts \cup {a},
              ext |-> file.ext, chg |-> file.chg]
  BY DEF IsFile
<1>2. Rewrite(f)
  BY DEF AddAccount
<1> HIDE DEF f
<1>3. IsFile(f) /\ f.state = file.state /\ f.accounts = file.accounts \cup {a}
  BY <1>1 DEF IsFile
<1> QED BY <1>2, <1>3, RewriteGrows

\* The keystore of a wallet nobody deletes and no crash tears.
LEMMA FileStep ==
  ASSUME Shape, Next
  PROVE  IsFile(file') /\ (mishaps' = mishaps => Grows)
<1>1. mishaps \in Nat /\ IsFile(file)
  BY DEF Shape
<1>2. ASSUME UNCHANGED file PROVE IsFile(file') /\ Grows
  BY <1>1, <1>2 DEF Grows
<1>3. ASSUME NEW r \in Slot, Track(r) \/ RegisterNew(r) \/ FirstAccount(r) \/ Register(r)
      PROVE  IsFile(file') /\ Grows
  <2>1. UNCHANGED file \/ \E a : AddAccount(a)
    BY <1>3 DEF Track, RegisterNew, FirstAccount, Register
  <2>2. CASE UNCHANGED file
    BY <1>2, <2>2
  <2>3. CASE \E a : AddAccount(a)
    BY <1>1, <2>3, AddAccountGrows
  <2> QED BY <2>1, <2>2, <2>3
<1>4. ASSUME NEW f, Rewrite(f), f.accounts = file.accounts, f.state = file.state, IsFile(f)
      PROVE  IsFile(file') /\ Grows
  BY <1>1, <1>4, RewriteGrows
<1>5. ASSUME NEW r \in Slot, IncrementIndex(r) \/ SetIndex(r)
      PROVE  IsFile(file') /\ Grows
  <2>1. ASSUME NEW x PROVE /\ IsFile([file EXCEPT !.chg = x])
                           /\ [file EXCEPT !.chg = x].accounts = file.accounts
                           /\ [file EXCEPT !.chg = x].state = file.state
                           /\ IsFile([file EXCEPT !.ext = x])
                           /\ [file EXCEPT !.ext = x].accounts = file.accounts
                           /\ [file EXCEPT !.ext = x].state = file.state
    BY <1>1 DEF IsFile
  <2>2. \E x : Rewrite([file EXCEPT !.chg = x]) \/ Rewrite([file EXCEPT !.ext = x])
    <3>1. CASE IncrementIndex(r)
      <4>1. Rewrite([file EXCEPT !.chg = file.chg + 1])
            \/ Rewrite([file EXCEPT !.ext = file.ext + 1])
        BY <3>1 DEF IncrementIndex
      <4> QED BY <4>1
    <3>2. CASE SetIndex(r)
      BY <3>2 DEF SetIndex
    <3> QED BY <1>5, <3>1, <3>2
  <2> QED BY <1>4, <2>1, <2>2
<1>6. ASSUME NEW r \in Slot, Import(r) PROVE IsFile(file') /\ Grows
  BY <1>6 DEF Import, Absent, Fresh, IsFile, Grows
<1>7. CASE Crash \/ Delete
  BY <1>1, <1>7 DEF Crash, Delete, Torn, Absent, IsFile
<1> QED
  BY <1>2, <1>3, <1>5, <1>6, <1>7
     DEF Next, WalletSend, WalletSendMany, WalletConsolidate, WalletStake,
         WalletUnstake, WalletMintToken, WalletSendToken, WalletCreateSubChain,
         SubChainSend, SubChainStake, SubChainUnstake, Open, Unstake, Build, Add,
         NewAddress, Rescan, Scan, Confirm, Deposit

-----------------------------------------------------------------------------
(* A step of one request leaves the others alone. *)

\* What request r may do next, whoever it is from.
Does(r) ==
  \/ \E q \in Request : Open(r, q) \/ Unstake(r, q)
  \/ Build(r) \/ Add(r) \/ Track(r) \/ IncrementIndex(r)
  \/ NewAddress(r) \/ RegisterNew(r) \/ Import(r) \/ FirstAccount(r)
  \/ \E chain \in Chain : Rescan(r, chain)
  \/ Scan(r) \/ Register(r) \/ SetIndex(r)

Outside == (\E t \in txs : Confirm(t)) \/ (\E a \in Address : Deposit(a)) \/ Crash \/ Delete

LEMMA NextIs ==
  ASSUME Next
  PROVE  (\E r \in Slot : Does(r)) \/ Outside
BY DEF Next, Does, Outside, WalletSend, WalletSendMany, WalletConsolidate, WalletStake,
       WalletUnstake, WalletMintToken, WalletSendToken, WalletCreateSubChain,
       SubChainSend, SubChainStake, SubChainUnstake

LEMMA OneSlot ==
  ASSUME Shape, NEW r \in Slot, Does(r)
  PROVE  /\ req' = [s \in Slot |-> req'[s]]
         /\ \A s \in Slot : s # r => req'[s] = req[s]
         /\ mishaps' = mishaps
<1> DEFINE A == /\ req' = [s \in Slot |-> req'[s]]
                /\ \A s \in Slot : s # r => req'[s] = req[s]
                /\ mishaps' = mishaps
<1>1. ASSUME NEW x, req' = [req EXCEPT ![r] = x], mishaps' = mishaps PROVE A
  BY <1>1 DEF Shape
<1> SUFFICES A
  OBVIOUS
<1> HIDE DEF A
<1>2. CASE \E q \in Request : Open(r, q) \/ Unstake(r, q)
  BY <1>1, <1>2 DEF Open, Unstake
<1>3. CASE Build(r) \/ Add(r) \/ Track(r) \/ IncrementIndex(r)
  BY <1>1, <1>3 DEF Build, Add, Track, IncrementIndex
<1>4. CASE NewAddress(r) \/ RegisterNew(r) \/ Import(r) \/ FirstAccount(r)
  BY <1>1, <1>4 DEF NewAddress, RegisterNew, Import, FirstAccount
<1>5. CASE \E chain \in Chain : Rescan(r, chain)
  BY <1>1, <1>5 DEF Rescan
<1>6. CASE Scan(r)
  BY <1>1, <1>6 DEF Scan
<1>7. CASE Register(r)
  BY <1>1, <1>7 DEF Register
<1>8. CASE SetIndex(r)
  BY <1>1, <1>8 DEF SetIndex
<1> QED BY <1>2, <1>3, <1>4, <1>5, <1>6, <1>7, <1>8 DEF Does

\* The registration of a scan's result, address by address, and the indexes.
LEMMA Registering ==
  ASSUME Shape, NEW r \in Slot, Register(r) \/ SetIndex(r)
  PROVE  /\ req[r].pc \in {"register", "setExt", "setChg"}
         /\ \/ req'[r] = Idle /\ req[r].pc = "setChg"
            \/ /\ req'[r].pc \in {"register", "setExt", "setChg"}
               /\ IsScan(req'[r]) /\ req'[r].kind = req[r].kind
               /\ req'[r].used = req[r].used /\ req'[r].own = req[r].own /\ req'[r].at = req[r].at
               /\ req'[r].pc = "register" =>
                    \E a \in req[r].todo : /\ AddAccount(a)
                                          /\ req'[r].todo = req[r].todo \ {a}
               /\ req'[r].pc # "register" => req'[r].todo = req[r].todo
               /\ req[r].pc = "register" /\ req'[r].pc # "register" => req[r].todo = {}
<1> DEFINE x == req[r]
           y == req'[r]
<1>1. x.pc \in {"register", "setExt", "setChg"}
  BY DEF Register, SetIndex
<1>2. /\ x = [pc |-> x.pc, kind |-> x.kind, used |-> x.used, todo |-> x.todo,
              own |-> x.own, at |-> x.at]
      /\ req = [s \in Slot |-> req[s]]
  BY <1>1 DEF Shape, IsScan
<1>3. \/ y = Idle /\ x.pc = "setChg"
      \/ y = [x EXCEPT !.pc = "setExt"] /\ x.pc = "register" /\ x.todo = {}
      \/ y = [x EXCEPT !.pc = "setChg"] /\ x.pc = "setExt"
      \/ /\ x.pc = "register"
         /\ \E a \in x.todo : AddAccount(a) /\ y = [x EXCEPT !.todo = @ \ {a}]
  BY <1>2 DEF Register, SetIndex
<1> HIDE DEF x, y
<1>4. CASE y = [x EXCEPT !.pc = "setExt"] /\ x.pc = "register" /\ x.todo = {}
  <2>1. y = [pc |-> "setExt", kind |-> x.kind, used |-> x.used, todo |-> x.todo,
             own |-> x.own, at |-> x.at]
    BY <1>2, <1>4
  <2> QED BY <1>1, <1>4, <2>1 DEF IsScan, x, y
<1>5. CASE y = [x EXCEPT !.pc = "setChg"] /\ x.pc = "setExt"
  <2>1. y = [pc |-> "setChg", kind |-> x.kind, used |-> x.used, todo |-> x.todo,
             own |-> x.own, at |-> x.at]
    BY <1>2, <1>5
  <2> QED BY <1>1, <1>5, <2>1 DEF IsScan, x, y
<1>6. ASSUME x.pc = "register", NEW a \in x.todo, AddAccount(a),
             y = [x EXCEPT !.todo = @ \ {a}]
      PROVE  /\ y.pc = "register" /\ IsScan(y) /\ y.kind = x.kind
             /\ y.used = x.used /\ y.own = x.own /\ y.at = x.at /\ y.todo = x.todo \ {a}
  <2>1. y = [pc |-> "register", kind |-> x.kind, used |-> x.used, todo |-> x.todo \ {a},
             own |-> x.own, at |-> x.at]
    BY <1>2, <1>6
  <2> QED BY <2>1 DEF IsScan
<1>7. CASE y = Idle /\ x.pc = "setChg"
  BY <1>1, <1>7 DEF x, y
<1>8. CASE /\ x.pc = "register"
           /\ \E a \in x.todo : AddAccount(a) /\ y = [x EXCEPT !.todo = @ \ {a}]
  BY <1>1, <1>6, <1>8 DEF x, y
<1> QED BY <1>3, <1>4, <1>5, <1>7, <1>8

\* What a scan hands on to its registration.
LEMMA Scanned ==
  ASSUME Shape, NEW r \in Slot, Scan(r)
  PROVE  /\ req[r].pc \in {"scan", "rescan"} /\ UNCHANGED file
         /\ req'[r].pc = "register" /\ IsScan(req'[r])
         /\ req'[r].kind = req[r].pc /\ req'[r].at = req[r].at
         /\ req'[r].own = Own(req[r].chain)
         /\ req[r].pc = "rescan" => req'[r].todo = Seen(req[r].chain) \ req[r].listed
         /\ req'[r].used \in {Within(req[r].chain), Seen(req[r].chain)}
         /\ req'[r].todo \subseteq req'[r].used
<1> DEFINE chain == req[r].chain
           used == IF req[r].pc = "scan" THEN Within(chain) ELSE Seen(chain)
           listed == IF req[r].pc = "scan" THEN {} ELSE req[r].listed
           own == Own(chain)
           x == [pc |-> "register", kind |-> req[r].pc, used |-> used,
                 todo |-> used \ listed, own |-> own, at |-> req[r].at]
<1>1. /\ req[r].pc \in {"scan", "rescan"} /\ UNCHANGED file
      /\ req' = [req EXCEPT ![r] = x]
  BY DEF Scan
<1>2. /\ req[r].pc = "rescan" => used = Seen(chain) /\ listed = req[r].listed
      /\ used \in {Within(chain), Seen(chain)}
  OBVIOUS
<1> HIDE DEF used, listed, own
<1>3. req'[r] = x
  BY <1>1 DEF Shape
<1> HIDE DEF chain
<1>4. IsScan(x)
  BY DEF IsScan
<1> QED BY <1>1, <1>2, <1>3, <1>4 DEF own, chain

\* Where each of the other steps leaves its request.
LEMMA Moves ==
  ASSUME Shape, NEW r \in Slot
  PROVE  /\ \A q : Open(r, q) => req'[r].pc = "build"
         /\ \A q : Unstake(r, q) => req'[r].pc = "add"
         /\ Build(r) => req'[r].pc \in {"add", "idle"}
         /\ Add(r) => req'[r].pc \in {"track", "idle"}
         /\ Track(r) => req'[r].pc = "advance"
         /\ IncrementIndex(r) => req'[r].pc = "idle"
         /\ NewAddress(r) => req'[r].pc = "new"
         /\ RegisterNew(r) => req'[r].pc \in {"advance", "idle"}
         /\ Import(r) => req'[r].pc = "account0"
         /\ FirstAccount(r) => req'[r].pc \in {"scan", "idle"}
         /\ \A chain : Rescan(r, chain) => req'[r].pc = "rescan"
         /\ Scan(r) => req'[r].pc = "register"
<1>1. req = [s \in Slot |-> req[s]]
  BY DEF Shape
<1>2. ASSUME NEW x, req' = [req EXCEPT ![r] = x] PROVE req'[r] = x
  BY <1>1, <1>2
<1>3. \A q : Open(r, q) => req'[r].pc = "build"
  BY <1>2 DEF Open
<1>4. ASSUME NEW q, Unstake(r, q) PROVE req'[r].pc = "add"
  <2> DEFINE in == Stakes(q.chain, coins)
             x == [pc |-> "add", change |-> FALSE, idx |-> 0,
                   t |-> [n |-> 0, kind |-> q.kind, chain |-> q.chain, ins |-> in,
                          outs |-> {Coin(q.chain, 1, Account0, "native",
                                         Value(in) - EstimateTxFee(Cardinality(in), 1), 0, 0)}]]
  <2>1. req' = [req EXCEPT ![r] = x]
    BY <1>4 DEF Unstake
  <2>2. x.pc = "add"
    OBVIOUS
  <2> QED BY <1>2, <2>1, <2>2
<1>5. Build(r) => req'[r].pc \in {"add", "idle"}
  BY <1>2 DEF Build, Idle
<1>6. Add(r) => req'[r].pc \in {"track", "idle"}
  <2>1. Add(r) => req'[r] \in {[pc |-> "track", idx |-> req[r].idx], Idle}
    BY <1>2 DEF Add, Refusal
  <2> QED BY <2>1 DEF Idle
<1>7. /\ Track(r) => req'[r].pc = "advance"
      /\ IncrementIndex(r) => req'[r].pc = "idle"
      /\ NewAddress(r) => req'[r].pc = "new"
  BY <1>2 DEF Track, IncrementIndex, NewAddress, Idle
<1>8. /\ RegisterNew(r) => req'[r].pc \in {"advance", "idle"}
      /\ Import(r) => req'[r].pc = "account0"
  BY <1>2 DEF RegisterNew, Import, Idle
<1>9. FirstAccount(r) => req'[r].pc \in {"scan", "idle"}
  <2>1. FirstAccount(r) =>
          req'[r] \in {[pc |-> "scan", chain |-> "root", at |-> mishaps], Idle}
    BY <1>2 DEF FirstAccount
  <2> QED BY <2>1 DEF Idle
<1>10. ASSUME NEW chain, Rescan(r, chain) PROVE req'[r].pc = "rescan"
  <2>1. req'[r] = [pc |-> "rescan", chain |-> chain, listed |-> file.accounts, at |-> mishaps]
    BY <1>2, <1>10 DEF Rescan
  <2> QED BY <2>1
<1>11. Scan(r) => req'[r].pc = "register"
  BY Scanned
<1> QED BY <1>3, <1>4, <1>5, <1>6, <1>7, <1>8, <1>9, <1>10, <1>11

\* The shapes of the file and of the requests are kept.
LEMMA ShapeStep ==
  ASSUME Shape, Next
  PROVE  Shape'
<1>1. IsFile(file')
  BY FileStep
<1>2. CASE Outside
  <2>1. CASE Crash
    BY <1>1, <2>1 DEF Crash, Shape, Idle
  <2>2. CASE ~ Crash
    BY <1>1, <1>2, <2>2 DEF Outside, Confirm, Deposit, Delete, Shape
  <2> QED BY <2>1, <2>2
<1>3. ASSUME NEW r \in Slot, Does(r) PROVE Shape'
  <2>1. /\ req' = [s \in Slot |-> req'[s]] /\ mishaps' \in Nat
        /\ \A s \in Slot : s # r => req'[s] = req[s]
    BY <1>3, OneSlot DEF Shape
  <2>2. req'[r].pc \in {"register", "setExt", "setChg"} => IsScan(req'[r])
    <3>1. CASE Register(r) \/ SetIndex(r)
      <4>1. req'[r] = Idle \/ IsScan(req'[r])
        BY <3>1, Registering
      <4> QED BY <4>1 DEF Idle
    <3>2. CASE Scan(r)
      BY <3>2, Scanned
    <3>3. CASE ~ (Register(r) \/ SetIndex(r) \/ Scan(r))
      BY <1>3, <3>3, Moves DEF Does
    <3> QED BY <3>1, <3>2, <3>3
  <2> QED BY <1>1, <2>1, <2>2 DEF Shape
<1> QED BY <1>2, <1>3, NextIs

-----------------------------------------------------------------------------
(* Every address that is paid is listed. *)

\* While nothing goes wrong, a request that is about to list an address lists
\* it, and no address is dropped.
LEMMA ListedStays ==
  ASSUME Shape, Next, mishaps' = mishaps, file.state = "good", NEW a, Listed(a)
  PROVE  Listed(a)'
<1>1. file.accounts \subseteq file'.accounts
  BY FileStep DEF Grows
<1>2. CASE a \in file.accounts
  BY <1>1, <1>2 DEF Listed
<1>3. ASSUME NEW s \in Slot, req[s].pc = "track", a = <<1, req[s].idx>> PROVE Listed(a)'
  <2>1. CASE UNCHANGED req[s]
    BY <1>3, <2>1 DEF Listed
  <2>2. CASE Track(s)
    <3>1. file'.accounts = file.accounts \cup {a}
      BY <1>3, <2>2, AddAccountGrows DEF Track, Shape
    <3> QED BY <3>1 DEF Listed
  <2>3. ASSUME NEW r \in Slot, Does(r) PROVE UNCHANGED req[s] \/ Track(s)
    <3>1. CASE r # s
      BY <2>3, <3>1, OneSlot
    <3>2. CASE r = s
      BY <1>3, <2>3, <3>2
         DEF Does, Open, Unstake, Build, Add, IncrementIndex, NewAddress, RegisterNew,
             Import, FirstAccount, Rescan, Scan, Register, SetIndex, Idle
    <3> QED BY <3>1, <3>2
  <2>4. CASE Outside
    <3>1. ~ Crash /\ ~ Delete
      BY DEF Crash, Delete, Shape
    <3>2. UNCHANGED req
      BY <2>4, <3>1 DEF Outside, Confirm, Deposit
    <3> QED BY <2>1, <3>2
  <2> QED BY <2>1, <2>2, <2>3, <2>4, NextIs
<1> QED BY <1>2, <1>3 DEF Listed

\* What is prepared is to others, to account 0 or to the change address.
LEMMA PreparedStep ==
  ASSUME Shape, Prepared, Next
  PROVE  Prepared'
<1>1. CASE Outside
  BY <1>1 DEF Outside, Confirm, Deposit, Crash, Delete, Prepared, Idle, MayPay
<1>2. ASSUME NEW r \in Slot, Does(r), NEW s \in Slot, req'[s].pc = "add"
      PROVE  /\ IsTx(req'[s].t)
             /\ \A o \in req'[s].t.outs : MayPay(o, req'[s].change, req'[s].idx)
  <2>1. CASE s # r
    <3>1. req'[s] = req[s]
      BY <1>2, <2>1, OneSlot
    <3> QED BY <1>2, <3>1 DEF Prepared
  <2>2. ASSUME Build(r), s = r
        PROVE  /\ IsTx(req'[s].t)
               /\ \A o \in req'[s].t.outs : MayPay(o, req'[s].change, req'[s].idx)
    <3>1. \/ \E p, i : req'[r] = [pc |-> "add", t |-> Transaction(req[r].q, p, i),
                                  change |-> p.change > 0, idx |-> i]
          \/ req'[r] = Idle
      BY <2>2 DEF Build, Shape
    <3>2. req'[r] # Idle
      BY <1>2, <2>2 DEF Idle
    <3>3. PICK p, i : req'[r] = [pc |-> "add", t |-> Transaction(req[r].q, p, i),
                                 change |-> p.change > 0, idx |-> i]
      BY <3>1, <3>2
    <3>4. IsTx(Transaction(req[r].q, p, i))
      BY DEF Transaction, IsTx
    <3> QED BY <2>2, <3>3, <3>4, TransactionTo
  <2>3. ASSUME NEW q, Unstake(r, q), s = r
        PROVE  /\ IsTx(req'[s].t)
               /\ \A o \in req'[s].t.outs : MayPay(o, req'[s].change, req'[s].idx)
    <3> DEFINE in == Stakes(q.chain, coins)
               o == Coin(q.chain, 1, Account0, "native",
                         Value(in) - EstimateTxFee(Cardinality(in), 1), 0, 0)
               t == [n |-> 0, kind |-> q.kind, chain |-> q.chain, ins |-> in, outs |-> {o}]
    <3>1. req' = [req EXCEPT ![r] = [pc |-> "add", change |-> FALSE, idx |-> 0, t |-> t]]
      BY <2>3 DEF Unstake
    <3>2. IsCoin(o) /\ o.addr = Account0
      BY DEF Coin, IsCoin
    <3> HIDE DEF o, in
    <3>3. IsTx(t) /\ t.outs = {o}
      BY DEF IsTx
    <3> HIDE DEF t
    <3>4. req'[r].t = t
      BY <3>1 DEF Shape
    <3> QED BY <2>3, <3>2, <3>3, <3>4 DEF MayPay
  <2>4. s = r => Build(r) \/ \E q : Unstake(r, q)
    <3>1. CASE Register(r) \/ SetIndex(r)
      <4>1. req'[r] = Idle \/ req'[r].pc \in {"register", "setExt", "setChg"}
        BY <3>1, Registering
      <4> QED BY <1>2, <4>1 DEF Idle
    <3>2. CASE ~ (Register(r) \/ SetIndex(r))
      BY <1>2, <3>2, Moves DEF Does
    <3> QED BY <3>1, <3>2
  <2> QED BY <2>1, <2>2, <2>3, <2>4
<1>3. ASSUME NEW r \in Slot, Does(r) PROVE Prepared'
  BY <1>2, <1>3 DEF Prepared, MayPay
<1> QED BY <1>1, <1>3, NextIs

\* Nothing has gone wrong before if nothing has gone wrong now.
LEMMA NoMishap ==
  ASSUME Shape, Next, mishaps' = 0
  PROVE  mishaps = 0 /\ ~ Crash /\ ~ Delete
<1>1. ~ Crash /\ ~ Delete
  BY DEF Crash, Delete, Shape
<1>2. \A r \in Slot : Does(r) => mishaps' = mishaps
  BY OneSlot
<1> QED BY <1>1, <1>2, NextIs DEF Outside, Confirm, Deposit

\* Whatever is paid while nothing goes wrong is listed, or about to be.
LEMMA AllListedStep ==
  ASSUME TrackInv, Next
  PROVE  Kept' /\ AllListed'
<1> SUFFICES ASSUME mishaps' = 0 PROVE Kept' /\ AllListed'
  BY DEF Kept, AllListed
<1>1. /\ mishaps = 0 /\ ~ Crash /\ ~ Delete
      /\ file.state = "good" /\ Account0 \in file.accounts
  BY NoMishap DEF TrackInv, Kept
<1>2. file'.state = "good" /\ file.accounts \subseteq file'.accounts
  BY <1>1, FileStep DEF TrackInv, Grows
<1>3. Kept'
  BY <1>1, <1>2 DEF Kept
<1>4. ASSUME NEW a, Listed(a) PROVE Listed(a)'
  BY <1>1, <1>4, ListedStays DEF TrackInv
<1>5. /\ \A c \in coins : Listed(c.addr)
      /\ \A t \in txs : \A o \in t.outs : o.addr # Other => Listed(o.addr)
  BY <1>1 DEF TrackInv, AllListed
<1>6. SUFFICES /\ \A c \in coins' \ coins : Listed(c.addr)'
               /\ \A t \in txs' \ txs : \A o \in t.outs : o.addr # Other => Listed(o.addr)'
  BY <1>3, <1>4, <1>5 DEF AllListed, Listed
<1>7. ASSUME NEW t \in txs, Confirm(t)
      PROVE  /\ \A c \in coins' \ coins : Listed(c.addr)'
             /\ \A u \in txs' \ txs : \A o \in u.outs : o.addr # Other => Listed(o.addr)'
  BY <1>4, <1>5, <1>7 DEF Confirm
<1>8. ASSUME NEW a, Deposit(a)
      PROVE  /\ \A c \in coins' \ coins : Listed(c.addr)'
             /\ \A u \in txs' \ txs : \A o \in u.outs : o.addr # Other => Listed(o.addr)'
  <2> DEFINE n == Cardinality(txs) + 1
             c == [Coin("root", 1, a, "native", 20, 0, 0) EXCEPT !.n = n]
             t == [n |-> c.n, kind |-> "deposit", chain |-> "root", ins |-> {}, outs |-> {c}]
  <2>1. coins' = coins \cup {c} /\ txs' = txs \cup {t} /\ a \in file.accounts
    BY <1>8 DEF Deposit
  <2>2. c.addr = a
    BY DEF Coin
  <2> HIDE DEF c
  <2>3. t.outs = {c}
    OBVIOUS
  <2> HIDE DEF t
  <2> QED BY <1>2, <2>1, <2>2, <2>3 DEF Listed
<1>9. ASSUME NEW r \in Slot, Add(r)
      PROVE  /\ \A c \in coins' \ coins : Listed(c.addr)'
             /\ \A u \in txs' \ txs : \A o \in u.outs : o.addr # Other => Listed(o.addr)'
  <2> DEFINE t == req[r].t
  <2>1. UNCHANGED coins /\ req[r].pc = "add"
    BY <1>9 DEF Add
  <2>2. CASE UNCHANGED txs
    BY <2>1, <2>2
  <2>3. CASE ~ UNCHANGED txs
    <3>1. /\ txs' = txs \cup {Numbered(t)}
          /\ req' = [req EXCEPT ![r] = IF req[r].change THEN [pc |-> "track", idx |-> req[r].idx]
                                       ELSE Idle]
      BY <1>9, <2>3 DEF Add
    <3>2. IsTx(t) /\ \A o \in t.outs : MayPay(o, req[r].change, req[r].idx)
      BY <2>1 DEF TrackInv, Prepared
    <3>3. ASSUME NEW o \in Numbered(t).outs, o.addr # Other PROVE Listed(o.addr)'
      <4>1. PICK p \in t.outs : o.addr = p.addr
        BY <3>2, NumberedTo DEF MayPay
      <4>2. CASE o.addr = Account0
        BY <1>1, <1>2, <4>2 DEF Listed
      <4>3. CASE req[r].change /\ o.addr = <<1, req[r].idx>>
        <5>1. req'[r] = [pc |-> "track", idx |-> req[r].idx]
          BY <3>1, <4>3 DEF TrackInv, Shape
        <5> QED BY <4>3, <5>1 DEF Listed
      <4> QED BY <3>2, <3>3, <4>1, <4>2, <4>3 DEF MayPay
    <3> QED BY <2>1, <3>1, <3>3
  <2> QED BY <2>2, <2>3
<1>10. ASSUME NEW r \in Slot, Does(r), ~ Add(r) PROVE UNCHANGED <<coins, txs>>
  BY <1>10 DEF Does, Open, Unstake, Build, Track, IncrementIndex, NewAddress, RegisterNew,
               Import, FirstAccount, Rescan, Scan, Register, SetIndex
<1> QED BY <1>1, <1>7, <1>8, <1>9, <1>10, NextIs DEF Outside

LEMMA TrackStep ==
  ASSUME TrackInv, [Next]_vars
  PROVE  TrackInv'
<1>1. CASE Next
  BY <1>1, ShapeStep, PreparedStep, AllListedStep DEF TrackInv
<1>2. CASE UNCHANGED vars
  BY <1>2 DEF vars, TrackInv, Shape, Prepared, MayPay, Kept, AllListed, Listed
<1> QED BY <1>1, <1>2

\* The wallet starts with account 0, which holds all it has.
LEMMA TrackStart ==
  ASSUME Init
  PROVE  TrackInv
<1>1. Shape
  BY DEF Init, Shape, Fresh, Idle, IsFile
<1>2. Prepared
  BY DEF Init, Prepared, Idle
<1>3. Kept
  BY DEF Init, Kept, Fresh
<1>4. AllListed
  BY GenesisAssumption DEF Init, AllListed, Listed, Fresh, Account0
<1> QED BY <1>1, <1>2, <1>3, <1>4 DEF TrackInv

\* As long as nothing was interrupted, every address the wallet is paid on is
\* in the keystore or about to be listed by the handler that paid it.
THEOREM ChangeTrackedAlways == Spec => []ChangeTracked
<1>1. ASSUME NEW a, Listed(a) PROVE Tracked(a)
  BY <1>1 DEF Listed, Tracked
<1>2. TrackInv => ChangeTracked
  BY <1>1 DEF TrackInv, AllListed, ChangeTracked
<1> QED BY <1>2, TrackStart, TrackStep, PTL DEF Spec

-----------------------------------------------------------------------------
(* A rescan, from its listing of the accounts to the last one it registers. *)

\* No mishap since a time means a file that can still be read.
Unbroken(at, A) ==
  at \in Nat /\ at <= mishaps /\ (at = mishaps => file.state = "good" /\ A)

Scans(r) ==
  /\ req[r].pc = "rescan" =>
       Unbroken(req[r].at, req[r].listed \subseteq file.accounts)
  /\ req[r].pc \in {"register", "setExt", "setChg"} /\ req[r].kind = "rescan" =>
       /\ Unbroken(req[r].at,
                   \A c \in req[r].own : c.addr \in file.accounts \cup req[r].todo)
       /\ req[r].pc # "register" => req[r].todo = {}

\* Every address a rescan has seen money on is listed, or yet to be registered.
RescanInv == Shape /\ \A r \in Slot : Scans(r)

\* A scan of another request, or one that has only waited.
LEMMA ScanWaits ==
  ASSUME Shape, Next, NEW r \in Slot, Scans(r), UNCHANGED req[r]
  PROVE  Scans(r)'
<1>1. mishaps' \in Nat /\ mishaps \in Nat /\ mishaps' >= mishaps
  <2>1. \A s \in Slot : Does(s) => mishaps' = mishaps
    BY OneSlot
  <2> QED BY <2>1, NextIs DEF Outside, Confirm, Deposit, Crash, Delete, Shape
<1>2. mishaps' = mishaps /\ file.state = "good" =>
        file'.state = "good" /\ file.accounts \subseteq file'.accounts
  BY FileStep DEF Grows
<1> DEFINE x == req[r]
<1>3. CASE x.pc = "rescan"
  <2>1. Unbroken(x.at, x.listed \subseteq file.accounts)
    BY <1>3 DEF Scans
  <2>2. /\ x.at \in Nat /\ x.at <= mishaps'
        /\ x.at = mishaps' => file'.state = "good" /\ x.listed \subseteq file'.accounts
    BY <1>1, <1>2, <2>1 DEF Unbroken
  <2> QED BY <1>3, <2>2 DEF Scans, Unbroken
<1>4. CASE x.pc \in {"register", "setExt", "setChg"} /\ x.kind = "rescan"
  <2>1. /\ Unbroken(x.at, \A c \in x.own : c.addr \in file.accounts \cup x.todo)
        /\ x.pc # "register" => x.todo = {}
    BY <1>4 DEF Scans
  <2>2. /\ x.at \in Nat /\ x.at <= mishaps'
        /\ x.at = mishaps' =>
             file'.state = "good" /\ \A c \in x.own : c.addr \in file'.accounts \cup x.todo
    BY <1>1, <1>2, <2>1 DEF Unbroken
  <2> QED BY <1>4, <2>1, <2>2 DEF Scans, Unbroken
<1>5. CASE ~ (x.pc = "rescan" \/ (x.pc \in {"register", "setExt", "setChg"} /\ x.kind = "rescan"))
  BY <1>5 DEF Scans
<1> QED BY <1>3, <1>4, <1>5

\* A rescan lists the accounts of the file it reads.
LEMMA RescanStarts ==
  ASSUME Shape, NEW r \in Slot, NEW chain, Rescan(r, chain)
  PROVE  Scans(r)'
<1>1. /\ req'[r] = [pc |-> "rescan", chain |-> chain, listed |-> file.accounts, at |-> mishaps]
      /\ UNCHANGED <<file, mishaps>> /\ file.state = "good"
  BY DEF Rescan, Shape
<1>2. /\ req'[r].pc = "rescan" /\ req'[r].listed = file.accounts /\ req'[r].at = mishaps
  BY <1>1
<1> QED BY <1>1, <1>2 DEF Scans, Unbroken, Shape

\* What it has not listed of what holds money, it will register.
LEMMA RescanSees ==
  ASSUME Shape, NEW r \in Slot, Scans(r), Scan(r)
  PROVE  Scans(r)'
<1>1. /\ UNCHANGED <<file, mishaps>> /\ req'[r].pc = "register"
      /\ req'[r].kind = req[r].pc /\ req'[r].at = req[r].at
      /\ req'[r].own = Own(req[r].chain)
      /\ req[r].pc = "rescan" => req'[r].todo = Seen(req[r].chain) \ req[r].listed
  BY Scanned DEF Scan
<1>2. \A c \in Own(req[r].chain) : c.addr \in Seen(req[r].chain)
  BY DEF Seen, Holding
<1>3. CASE req[r].pc = "rescan"
  <2>1. Unbroken(req[r].at, req[r].listed \subseteq file.accounts)
    BY <1>3 DEF Scans
  <2>2. /\ req'[r].at \in Nat /\ req'[r].at <= mishaps
        /\ req'[r].at = mishaps =>
             /\ file.state = "good"
             /\ \A c \in req'[r].own : c.addr \in file.accounts \cup req'[r].todo
    BY <1>1, <1>2, <1>3, <2>1 DEF Unbroken
  <2> QED BY <1>1, <2>2 DEF Scans, Unbroken
<1>4. CASE req[r].pc # "rescan"
  BY <1>1, <1>4 DEF Scans
<1> QED BY <1>3, <1>4

\* Registering an address moves it into the file.
LEMMA RescanRegisters ==
  ASSUME Shape, Next, NEW r \in Slot, Scans(r), Register(r) \/ SetIndex(r)
  PROVE  Scans(r)'
<1> DEFINE x == req[r]
           y == req'[r]
<1>1. UNCHANGED mishaps /\ mishaps \in Nat
  BY DEF Register, SetIndex, Shape
<1>2. file.state = "good" => file'.state = "good" /\ file.accounts \subseteq file'.accounts
  BY <1>1, FileStep DEF Grows
<1>3. CASE y = Idle
  BY <1>3 DEF Scans, Idle
<1>4. CASE y # Idle
  <2>1. /\ x.pc \in {"register", "setExt", "setChg"}
        /\ y.pc \in {"register", "setExt", "setChg"}
        /\ y.kind = x.kind /\ y.own = x.own /\ y.at = x.at
        /\ y.pc = "register" =>
             \E a \in x.todo : AddAccount(a) /\ y.todo = x.todo \ {a}
        /\ y.pc # "register" => y.todo = x.todo
        /\ x.pc = "register" /\ y.pc # "register" => x.todo = {}
    BY <1>4, Registering
  <2>2. CASE x.kind = "rescan"
    <3>1. /\ Unbroken(x.at, \A c \in x.own : c.addr \in file.accounts \cup x.todo)
          /\ x.pc # "register" => x.todo = {}
      BY <2>1, <2>2 DEF Scans
    <3>2. y.pc # "register" => y.todo = {}
      BY <2>1, <3>1
    <3>3. ASSUME file.state = "good" PROVE x.todo \subseteq file'.accounts \cup y.todo
      <4>1. CASE y.pc = "register"
        <5>1. PICK a \in x.todo : AddAccount(a) /\ y.todo = x.todo \ {a}
          BY <2>1, <4>1
        <5>2. file'.accounts = file.accounts \cup {a}
          BY <3>3, <5>1, AddAccountGrows DEF Shape
        <5> QED BY <5>1, <5>2
      <4>2. CASE y.pc # "register"
        BY <2>1, <4>2
      <4> QED BY <4>1, <4>2
    <3>4. /\ y.at \in Nat /\ y.at <= mishaps
          /\ y.at = mishaps =>
               file'.state = "good" /\ \A c \in y.own : c.addr \in file'.accounts \cup y.todo
      BY <1>2, <2>1, <3>1, <3>3 DEF Unbroken
    <3> QED BY <1>1, <2>1, <3>2, <3>4 DEF Scans, Unbroken
  <2>3. CASE x.kind # "rescan"
    BY <2>1, <2>3 DEF Scans
  <2> QED BY <2>2, <2>3
<1> QED BY <1>3, <1>4

LEMMA RescanStep ==
  ASSUME RescanInv, [Next]_vars
  PROVE  RescanInv'
<1>1. CASE UNCHANGED vars
  BY <1>1 DEF vars, RescanInv, Shape, Scans, Unbroken
<1>2. ASSUME Next PROVE RescanInv'
  <2>1. Shape /\ Shape'
    BY <1>2, ShapeStep DEF RescanInv
  <2>2. ASSUME NEW r \in Slot, UNCHANGED req[r] PROVE Scans(r)'
    BY <1>2, <2>1, <2>2, ScanWaits DEF RescanInv
  <2>3. ASSUME NEW r \in Slot, Does(r) PROVE Scans(r)'
    <3>1. CASE Scan(r)
      BY <2>1, <3>1, RescanSees DEF RescanInv
    <3>2. CASE Register(r) \/ SetIndex(r)
      BY <1>2, <2>1, <3>2, RescanRegisters DEF RescanInv
    <3>3. ASSUME NEW chain, Rescan(r, chain) PROVE Scans(r)'
      BY <2>1, <3>3, RescanStarts
    <3>4. CASE ~ (Scan(r) \/ Register(r) \/ SetIndex(r) \/ \E chain : Rescan(r, chain))
      <4>1. req'[r].pc \notin {"rescan", "register", "setExt", "setChg"}
        BY <2>1, <2>3, <3>4, Moves DEF Does
      <4> QED BY <4>1 DEF Scans
    <3> QED BY <3>1, <3>2, <3>3, <3>4
  <2>4. CASE Outside
    <3>1. CASE Crash
      BY <2>1, <3>1 DEF Crash, RescanInv, Scans, Idle
    <3>2. CASE ~ Crash
      <4>1. UNCHANGED req
        BY <2>4, <3>2 DEF Outside, Confirm, Deposit, Delete
      <4> QED BY <2>1, <2>2, <4>1 DEF RescanInv
    <3> QED BY <3>1, <3>2
  <2>5. ASSUME NEW s \in Slot, Does(s) PROVE RescanInv'
    <3>1. \A r \in Slot : r # s => UNCHANGED req[r]
      BY <2>1, <2>5, OneSlot
    <3> QED BY <2>1, <2>2, <2>3, <2>5, <3>1 DEF RescanInv
  <2> QED BY <1>2, <2>4, <2>5, NextIs
<1> QED BY <1>1, <1>2

\* The step that ends a rescan.
LEMMA RescanEnds ==
  ASSUME RescanInv, Next, NEW r \in Slot,
         req[r].pc = "setChg", req[r].kind = "rescan",
         mishaps' = req[r].at, file.state = "good", NEW c \in req[r].own
  PROVE  c.addr \in file'.accounts
<1>1. Unbroken(req[r].at, \A d \in req[r].own : d.addr \in file.accounts \cup req[r].todo)
      /\ req[r].todo = {}
  BY DEF RescanInv, Scans
<1>2. mishaps' >= mishaps
  <2>1. \A s \in Slot : Does(s) => mishaps' = mishaps
    BY OneSlot DEF RescanInv
  <2> QED BY <2>1, NextIs DEF Outside, Confirm, Deposit, Crash, Delete, RescanInv, Shape
<1>3. mishaps' = mishaps /\ c.addr \in file.accounts
  BY <1>1, <1>2 DEF Unbroken, RescanInv, Shape
<1> QED BY <1>3, FileStep DEF RescanInv, Grows

\* A rescan that ends has every address listed that held money when it
\* looked, whatever was interrupted before and whatever ran beside it.
THEOREM RescanComplete == Spec => RescanRecovers
<1>1. Init => RescanInv
  <2> SUFFICES ASSUME Init PROVE RescanInv
    OBVIOUS
  <2>1. Shape
    BY TrackStart DEF TrackInv
  <2>2. \A r \in Slot : req[r].pc = "idle"
    BY DEF Init, Idle
  <2> QED BY <2>1, <2>2 DEF RescanInv, Scans
<1>2. RescanInv /\ [Next]_vars => RescanInv'
  BY RescanStep
<1>3. RescanInv /\ [Next]_vars =>
        [\A r \in Slot :
          /\ req[r].pc = "setChg" /\ req[r].kind = "rescan" /\ req'[r] = Idle
          /\ mishaps' = req[r].at /\ file.state = "good"
          => \A c \in req[r].own : c.addr \in file'.accounts]_vars
  BY RescanEnds
<1> QED BY <1>1, <1>2, <1>3, PTL DEF Spec, RescanRecovers
-----------------------------------------------------------------------------
(* Sums over finite sets.                                                    *)

\* A family of subsets that has {} and all that adds an element has the set.
LEMMA SubsetInduction ==
  ASSUME NEW S, IsFiniteSet(S), NEW P, {} \in P,
         \A T \in SUBSET S : \A x \in S \ T : T \in P => T \cup {x} \in P
  PROVE  S \in P
<1> DEFINE Bad == {T \in SUBSET S : T \notin P}
           R == StrictSubsetOrdering(S)
<1> SUFFICES ASSUME Bad # {} PROVE FALSE
  OBVIOUS
<1>1. Bad \subseteq FiniteSubsetsOf(S)
  BY FS_Subset DEF FiniteSubsetsOf
<1>2. PICK T \in Bad : \A U \in Bad : ~ (<<U, T>> \in R)
  <2>1. IsWellFoundedOn(R, FiniteSubsetsOf(S))
    BY FS_StrictSubsetOrderingWellFounded
  <2> HIDE DEF Bad, R
  <2> QED BY <1>1, <2>1, WFMin
<1>3. T \in SUBSET S /\ T \notin P /\ T # {}
  OBVIOUS
<1>4. PICK x \in T : TRUE
  BY <1>3
<1>5. T \ {x} \in SUBSET S /\ x \in S \ (T \ {x}) /\ (T \ {x}) \cup {x} = T
  BY <1>3, <1>4
<1>6. T \ {x} \notin P
  BY <1>3, <1>5
<1>7. T \ {x} \in Bad
  BY <1>5, <1>6
<1>8. <<T \ {x}, T>> \in R
  BY <1>3, <1>4, <1>5 DEF StrictSubsetOrdering
<1> HIDE DEF Bad, R
<1> QED BY <1>2, <1>7, <1>8

\* The function the folds of the community modules define, for a sum of f.
Picked(s) == CHOOSE x \in s : TRUE
SumAt(f, g, s) == IF s = {} THEN 0 ELSE f[Picked(s)] + g[s \ {Picked(s)}]
Sums(f, S, g) == g = [s \in SUBSET S |-> SumAt(f, g, s)]

LEMMA PickedIn ==
  ASSUME NEW S, IsFiniteSet(S), S # {}
  PROVE  /\ Picked(S) \in S /\ IsFiniteSet(S \ {Picked(S)})
         /\ Cardinality(S \ {Picked(S)}) = Cardinality(S) - 1
         /\ Cardinality(S) \in Nat /\ Cardinality(S) > 0
<1>1. Picked(S) \in S
  BY DEF Picked
<1>2. Cardinality(S) \in Nat /\ Cardinality(S) # 0
  BY FS_CardinalityType, FS_EmptySet
<1> QED BY <1>1, <1>2, FS_RemoveElement

\* There is such a function.
LEMMA SumsExist ==
  ASSUME NEW S, IsFiniteSet(S), NEW f
  PROVE  \E g : Sums(f, S, g)
<1> DEFINE Upto(g, n) == \A s \in SUBSET S : Cardinality(s) <= n => g[s] = SumAt(f, g, s)
           P == {T \in SUBSET S : \E g : Upto(g, Cardinality(T))}
<1>1. {} \in P
  <2> DEFINE g == [s \in SUBSET S |-> 0]
  <2>1. Upto(g, Cardinality({}))
    <3> SUFFICES ASSUME NEW s \in SUBSET S, Cardinality(s) <= Cardinality({})
        PROVE  g[s] = SumAt(f, g, s)
      OBVIOUS
    <3>1. s = {}
      <4>1. IsFiniteSet(s) /\ Cardinality(s) \in Nat
        BY FS_Subset, FS_CardinalityType
      <4>2. Cardinality(s) = 0
        BY <4>1, FS_EmptySet
      <4> QED BY <4>1, <4>2, FS_EmptySet
    <3> QED BY <3>1 DEF SumAt
  <2> HIDE DEF Upto, g
  <2> QED BY <2>1
<1>2. ASSUME NEW T \in SUBSET S, NEW x \in S \ T, T \in P PROVE T \cup {x} \in P
  <2> DEFINE n == Cardinality(T)
  <2>1. n \in Nat /\ Cardinality(T \cup {x}) = n + 1
    <3>1. IsFiniteSet(T)
      BY FS_Subset
    <3> QED BY <3>1, FS_CardinalityType, FS_AddElement
  <2>2. PICK g : Upto(g, n)
    BY <1>2
  <2> HIDE DEF n
  <2> DEFINE h == [s \in SUBSET S |-> IF Cardinality(s) <= n THEN g[s] ELSE SumAt(f, g, s)]
  <2>3. ASSUME NEW s \in SUBSET S, Cardinality(s) <= n + 1 PROVE h[s] = SumAt(f, h, s)
    <3>1. IsFiniteSet(s)
      BY FS_Subset
    <3>2. h[s] = SumAt(f, g, s)
      BY <2>2
    <3>3. CASE s = {}
      BY <3>2, <3>3 DEF SumAt
    <3>4. CASE s # {}
      <4> DEFINE r == s \ {Picked(s)}
      <4>1. r \in SUBSET S /\ Cardinality(r) <= n
        <5>1. Cardinality(r) = Cardinality(s) - 1 /\ Cardinality(s) \in Nat
          BY <3>1, <3>4, PickedIn
        <5>2. r \in SUBSET S
          OBVIOUS
        <5> HIDE DEF r
        <5> QED BY <2>1, <2>3, <5>1, <5>2
      <4>2. h[r] = g[r]
        BY <4>1
      <4> HIDE DEF h
      <4> QED BY <3>2, <3>4, <4>2 DEF SumAt
    <3> QED BY <3>3, <3>4
  <2>4. Upto(h, Cardinality(T \cup {x}))
    <3> HIDE DEF h
    <3> QED BY <2>1, <2>3
  <2>5. T \cup {x} \in SUBSET S
    OBVIOUS
  <2> HIDE DEF Upto, h
  <2> QED BY <2>4, <2>5
<1>3. S \in P
  <2> HIDE DEF P
  <2> QED BY <1>1, <1>2, SubsetInduction
<1>4. PICK g : Upto(g, Cardinality(S))
  BY <1>3
<1> DEFINE h == [s \in SUBSET S |-> g[s]]
<1>5. ASSUME NEW s \in SUBSET S PROVE h[s] = SumAt(f, h, s)
  <2>1. IsFiniteSet(s) /\ Cardinality(s) <= Cardinality(S)
    BY FS_Subset
  <2>2. h[s] = SumAt(f, g, s)
    BY <1>4, <2>1
  <2>3. s \ {Picked(s)} \in SUBSET S
    OBVIOUS
  <2>4. h[s \ {Picked(s)}] = g[s \ {Picked(s)}]
    BY <2>3
  <2> HIDE DEF h
  <2> QED BY <2>2, <2>4 DEF SumAt
<1>6. Sums(f, S, h)
  <2>1. h = [s \in SUBSET S |-> h[s]]
    OBVIOUS
  <2>2. [s \in SUBSET S |-> h[s]] = [s \in SUBSET S |-> SumAt(f, h, s)]
    <3> HIDE DEF h
    <3> QED BY <1>5
  <2> HIDE DEF h
  <2> QED BY <2>1, <2>2 DEF Sums
<1> QED BY <1>6

\* Which element is taken first makes no difference.
LEMMA SumsAdd ==
  ASSUME NEW S, IsFiniteSet(S), NEW f, \A x \in S : f[x] \in Nat, NEW g, Sums(f, S, g)
  PROVE  /\ g[{}] = 0
         /\ \A T \in SUBSET S : g[T] \in Nat /\ \A x \in T : g[T] = f[x] + g[T \ {x}]
<1>1. \A s \in SUBSET S : g[s] = SumAt(f, g, s)
  BY DEF Sums
<1>2. g[{}] = 0
  BY <1>1 DEF SumAt
<1> DEFINE Adds(T) == g[T] \in Nat /\ \A x \in T : g[T] = f[x] + g[T \ {x}]
           Upto(n) == \A T \in SUBSET S : Cardinality(T) <= n => Adds(T)
           P == {T \in SUBSET S : Upto(Cardinality(T))}
<1>3. {} \in P
  <2>1. ASSUME NEW T \in SUBSET S, Cardinality(T) <= Cardinality({}) PROVE Adds(T)
    <3>1. IsFiniteSet(T) /\ Cardinality(T) \in Nat
      BY FS_Subset, FS_CardinalityType
    <3>2. T = {}
      BY <2>1, <3>1, FS_EmptySet
    <3> QED BY <1>2, <3>2
  <2> HIDE DEF Adds
  <2> QED BY <2>1
<1>4. ASSUME NEW U \in SUBSET S, NEW y \in S \ U, U \in P PROVE U \cup {y} \in P
  <2> DEFINE n == Cardinality(U)
  <2>1. n \in Nat /\ Cardinality(U \cup {y}) = n + 1
    <3>1. IsFiniteSet(U)
      BY FS_Subset
    <3> QED BY <3>1, FS_CardinalityType, FS_AddElement
  <2>2. Upto(n)
    BY <1>4
  <2> HIDE DEF n
  <2>3. ASSUME NEW T \in SUBSET S, Cardinality(T) <= n + 1 PROVE Adds(T)
    <3>1. IsFiniteSet(T)
      BY FS_Subset
    <3>2. CASE T = {}
      BY <1>2, <3>2
    <3>3. CASE T # {}
      <4> DEFINE p == Picked(T)
      <4>1. p \in T /\ f[p] \in Nat /\ Cardinality(T) \in Nat
        BY <3>1, <3>3, PickedIn
      <4>2. ASSUME NEW x \in T
            PROVE  T \ {x} \in SUBSET S /\ Cardinality(T \ {x}) <= n
        <5>1. Cardinality(T \ {x}) = Cardinality(T) - 1
          BY <3>1, FS_RemoveElement
        <5> QED BY <2>1, <2>3, <4>1, <5>1
      <4>3. \A x \in T : Adds(T \ {x})
        <5> HIDE DEF Adds
        <5> QED BY <2>2, <4>2
      <4>4. g[T] = f[p] + g[T \ {p}]
        BY <1>1, <3>3 DEF SumAt
      <4> HIDE DEF p
      <4>5. g[T] \in Nat
        <5>1. g[T \ {p}] \in Nat
          BY <4>1, <4>3
        <5> QED BY <4>1, <4>4, <5>1
      <4>6. ASSUME NEW x \in T, x # p PROVE g[T] = f[x] + g[T \ {x}]
        <5>1. x \in T \ {p} /\ p \in T \ {x} /\ (T \ {p}) \ {x} = (T \ {x}) \ {p}
          BY <4>1, <4>6
        <5>2. /\ g[T \ {p}] = f[x] + g[(T \ {p}) \ {x}]
              /\ g[T \ {x}] = f[p] + g[(T \ {x}) \ {p}]
          BY <4>1, <4>3, <5>1
        <5>3. g[(T \ {p}) \ {x}] \in Nat /\ f[x] \in Nat
          <6>1. (T \ {p}) \ {x} \in SUBSET S /\ Cardinality((T \ {p}) \ {x}) <= n
            <7>1. IsFiniteSet(T \ {p}) /\ Cardinality(T \ {p}) <= n
                  /\ Cardinality(T \ {p}) \in Nat
              BY <3>1, <4>1, <4>2, FS_Subset, FS_CardinalityType
            <7>2. /\ IsFiniteSet((T \ {p}) \ {x})
                  /\ Cardinality((T \ {p}) \ {x}) <= Cardinality(T \ {p})
                  /\ Cardinality((T \ {p}) \ {x}) \in Nat
              BY <7>1, FS_Subset, FS_CardinalityType
            <7> QED BY <2>1, <7>1, <7>2
          <6> QED BY <2>2, <6>1
        <5> DEFINE a == f[p]
                   b == f[x]
                   c == g[(T \ {p}) \ {x}]
        <5>4. g[T] = a + (b + c) /\ g[T \ {x}] = a + c /\ {a, b, c} \subseteq Nat
          BY <4>1, <4>4, <5>1, <5>2, <5>3
        <5> HIDE DEF a, c
        <5>5. g[T] = b + (a + c)
          BY <5>4
        <5> QED BY <5>4, <5>5
      <4> QED BY <4>4, <4>5, <4>6
    <3> QED BY <3>2, <3>3
  <2>4. Upto(Cardinality(U \cup {y}))
    <3> HIDE DEF Adds
    <3> QED BY <2>1, <2>3
  <2>5. U \cup {y} \in SUBSET S
    OBVIOUS
  <2> HIDE DEF Upto
  <2> QED BY <2>4, <2>5
<1>5. S \in P
  <2> HIDE DEF P
  <2> QED BY <1>3, <1>4, SubsetInduction
<1>6. \A T \in SUBSET S : Cardinality(T) <= Cardinality(S)
  BY FS_Subset
<1> QED BY <1>2, <1>5, <1>6

\* Two such functions agree where what they add up does.
LEMMA SumsAgree ==
  ASSUME NEW S, IsFiniteSet(S), NEW f, \A x \in S : f[x] \in Nat, NEW g, Sums(f, S, g),
         NEW T, IsFiniteSet(T), NEW e, \A x \in T : e[x] \in Nat, NEW h, Sums(e, T, h),
         NEW U, U \subseteq S, U \subseteq T, \A x \in U : f[x] = e[x]
  PROVE  g[U] = h[U]
<1> DEFINE P == {V \in SUBSET U : g[V] = h[V]}
<1>1. /\ g[{}] = 0
      /\ \A V \in SUBSET S : g[V] \in Nat /\ \A x \in V : g[V] = f[x] + g[V \ {x}]
  BY SumsAdd
<1>2. /\ h[{}] = 0
      /\ \A V \in SUBSET T : h[V] \in Nat /\ \A x \in V : h[V] = e[x] + h[V \ {x}]
  BY SumsAdd
<1>3. {} \in P
  BY <1>1, <1>2
<1>4. ASSUME NEW V \in SUBSET U, NEW x \in U \ V, V \in P PROVE V \cup {x} \in P
  <2> DEFINE W == V \cup {x}
  <2>1. W \in SUBSET S /\ W \in SUBSET T /\ W \in SUBSET U /\ x \in W /\ W \ {x} = V
    OBVIOUS
  <2> HIDE DEF W
  <2>2. g[W] = f[x] + g[V]
    BY <1>1, <2>1
  <2>3. h[W] = e[x] + h[V]
    BY <1>2, <2>1
  <2>4. g[W] = h[W]
    BY <1>4, <2>2, <2>3
  <2> QED BY <2>1, <2>4 DEF W
<1>5. IsFiniteSet(U)
  BY FS_Subset
<1>6. U \in P
  <2> HIDE DEF P
  <2> QED BY <1>3, <1>4, <1>5, SubsetInduction
<1> QED BY <1>6

\* The sum of f over S.
Total(f, S) == (CHOOSE g : Sums(f, S, g))[S]

LEMMA TotalOf ==
  ASSUME NEW S, IsFiniteSet(S), NEW f, \A x \in S : f[x] \in Nat, NEW g, Sums(f, S, g),
         NEW U, U \subseteq S
  PROVE  g[U] = Total(f, U)
<1> DEFINE h == CHOOSE h : Sums(f, U, h)
<1>1. IsFiniteSet(U)
  BY FS_Subset
<1>2. Sums(f, U, h)
  BY <1>1, SumsExist
<1> HIDE DEF h
<1>3. g[U] = h[U]
  BY <1>1, <1>2, SumsAgree
<1> QED BY <1>3 DEF Total, h

LEMMA TotalAdd ==
  ASSUME NEW S, IsFiniteSet(S), NEW f, \A x \in S : f[x] \in Nat
  PROVE  /\ Total(f, {}) = 0 /\ Total(f, S) \in Nat
         /\ \A x \in S : Total(f, S) = f[x] + Total(f, S \ {x})
<1>1. PICK g : Sums(f, S, g)
  BY SumsExist
<1>2. \A U \in SUBSET S : g[U] = Total(f, U)
  BY <1>1, TotalOf
<1>3. /\ g[{}] = 0 /\ g[S] \in Nat
      /\ \A x \in S : g[S] = f[x] + g[S \ {x}]
  <2>1. /\ g[{}] = 0
        /\ \A T \in SUBSET S : g[T] \in Nat /\ \A x \in T : g[T] = f[x] + g[T \ {x}]
    BY <1>1, SumsAdd
  <2> QED BY <2>1
<1> QED BY <1>2, <1>3

LEMMA TotalSame ==
  ASSUME NEW S, IsFiniteSet(S), NEW f, NEW e, \A x \in S : f[x] \in Nat /\ e[x] = f[x]
  PROVE  Total(e, S) = Total(f, S)
<1>1. PICK g : Sums(f, S, g)
  BY SumsExist
<1>2. PICK h : Sums(e, S, h)
  BY SumsExist
<1>3. h[S] = g[S]
  BY <1>1, <1>2, SumsAgree
<1>4. g[S] = Total(f, S)
  BY <1>1, TotalOf
<1>5. h[S] = Total(e, S)
  BY <1>2, TotalOf
<1> QED BY <1>3, <1>4, <1>5

LEMMA TotalUnion ==
  ASSUME NEW S, IsFiniteSet(S), NEW T, IsFiniteSet(T), S \cap T = {},
         NEW f, \A x \in S \cup T : f[x] \in Nat
  PROVE  Total(f, S \cup T) = Total(f, S) + Total(f, T)
<1> DEFINE P == {U \in SUBSET T : Total(f, S \cup U) = Total(f, S) + Total(f, U)}
<1>1. {} \in P
  <2>1. Total(f, S) \in Nat /\ Total(f, {}) = 0 /\ S \cup {} = S
    BY TotalAdd
  <2> QED BY <2>1
<1>2. ASSUME NEW U \in SUBSET T, NEW x \in T \ U, U \in P PROVE U \cup {x} \in P
  <2> DEFINE V == U \cup {x}
  <2>1. V \in SUBSET T /\ x \in V /\ V \ {x} = U /\ (S \cup V) \ {x} = S \cup U
    OBVIOUS
  <2>2. IsFiniteSet(V) /\ IsFiniteSet(S \cup V) /\ IsFiniteSet(U)
    BY FS_Subset, FS_Union
  <2> HIDE DEF V
  <2>3. \A y \in S \cup V : f[y] \in Nat
    BY <2>1
  <2>4. Total(f, S \cup V) = f[x] + Total(f, S \cup U)
    BY <2>1, <2>2, <2>3, TotalAdd
  <2>5. Total(f, V) = f[x] + Total(f, U)
    BY <2>1, <2>2, <2>3, TotalAdd
  <2>6. Total(f, S) \in Nat /\ Total(f, U) \in Nat /\ f[x] \in Nat
    BY <2>2, TotalAdd
  <2>7. Total(f, S \cup U) = Total(f, S) + Total(f, U)
    BY <1>2
  <2> QED BY <2>1, <2>4, <2>5, <2>6, <2>7 DEF V
<1>3. T \in P
  <2> HIDE DEF P
  <2> QED BY <1>1, <1>2, SubsetInduction
<1> QED BY <1>3

\* Counting with other names.
LEMMA TotalImage ==
  ASSUME NEW S, IsFiniteSet(S), NEW T, NEW m \in [S -> T],
         \A x, y \in S : m[x] = m[y] => x = y,
         \A z \in T : \E x \in S : z = m[x],
         NEW f, \A x \in S : f[x] \in Nat,
         NEW e, \A x \in S : e[m[x]] = f[x]
  PROVE  IsFiniteSet(T) /\ Cardinality(T) = Cardinality(S) /\ Total(e, T) = Total(f, S)
<1>1. IsFiniteSet(T) /\ Cardinality(T) = Cardinality(S)
  <2>1. m \in Surjection(S, T) /\ m \in Injection(S, T)
    BY DEF Surjection, Injection, IsInjective
  <2> QED BY <2>1, FS_Surjection
<1> DEFINE Img(U) == {m[x] : x \in U}
           P == {U \in SUBSET S : Total(e, Img(U)) = Total(f, U)}
<1>2. {} \in P
  <2>1. Img({}) = {}
    OBVIOUS
  <2>2. Total(e, {}) = 0 /\ Total(f, {}) = 0
    BY FS_EmptySet, TotalAdd
  <2> QED BY <2>1, <2>2
<1>3. ASSUME NEW U \in SUBSET S, NEW x \in S \ U, U \in P PROVE U \cup {x} \in P
  <2> DEFINE V == U \cup {x}
  <2>1. V \in SUBSET S /\ x \in V /\ V \ {x} = U
    OBVIOUS
  <2> HIDE DEF V
  <2>2. Img(V) \in SUBSET T /\ m[x] \in Img(V) /\ Img(V) \ {m[x]} = Img(U)
    BY <2>1
  <2>3. IsFiniteSet(V) /\ IsFiniteSet(Img(V))
    <3> HIDE DEF Img
    <3> QED BY <1>1, <2>1, <2>2, FS_Subset
  <2>4. \A z \in Img(V) : e[z] \in Nat
    BY <2>1
  <2> HIDE DEF Img
  <2>5. Total(f, V) = f[x] + Total(f, U)
    BY <2>1, <2>3, TotalAdd
  <2>6. Total(e, Img(V)) = e[m[x]] + Total(e, Img(U))
    <3> DEFINE I == Img(V)
    <3>1. IsFiniteSet(I) /\ \A z \in I : e[z] \in Nat
      BY <2>3, <2>4
    <3> HIDE DEF I
    <3>2. \A z \in I : Total(e, I) = e[z] + Total(e, I \ {z})
      BY <3>1, TotalAdd
    <3> QED BY <2>2, <3>2 DEF I
  <2> QED BY <1>3, <2>1, <2>5, <2>6 DEF V
<1>4. S \in P
  <2> HIDE DEF P
  <2> QED BY <1>2, <1>3, SubsetInduction
<1>5. Img(S) = T
  OBVIOUS
<1> QED BY <1>1, <1>4, <1>5

\* n elements of at most, or of at least, v.
LEMMA TotalBounds ==
  ASSUME NEW S, IsFiniteSet(S), NEW f, \A x \in S : f[x] \in Nat, NEW v \in Nat
  PROVE  /\ (\A x \in S : f[x] <= v) => Total(f, S) <= Cardinality(S) * v
         /\ (\A x \in S : f[x] >= v) => Total(f, S) >= Cardinality(S) * v
<1> DEFINE P == {U \in SUBSET S :
        /\ (\A x \in U : f[x] <= v) => Total(f, U) <= Cardinality(U) * v
        /\ (\A x \in U : f[x] >= v) => Total(f, U) >= Cardinality(U) * v}
<1>1. {} \in P
  BY FS_EmptySet, TotalAdd
<1>2. ASSUME NEW U \in SUBSET S, NEW x \in S \ U, U \in P PROVE U \cup {x} \in P
  <2> DEFINE V == U \cup {x}
             n == Cardinality(U)
  <2>1. V \in SUBSET S /\ x \in V /\ V \ {x} = U
    OBVIOUS
  <2>2. IsFiniteSet(U) /\ IsFiniteSet(V) /\ n \in Nat /\ Cardinality(V) = n + 1
    <3>1. IsFiniteSet(U)
      BY FS_Subset
    <3> QED BY <3>1, FS_CardinalityType, FS_AddElement
  <2>3. Total(f, V) = f[x] + Total(f, U) /\ Total(f, U) \in Nat /\ f[x] \in Nat
    <3> HIDE DEF V
    <3> QED BY <2>1, <2>2, TotalAdd
  <2>4. (n + 1) * v = n * v + v /\ n * v \in Nat
    BY <2>2
  <2>5. /\ (\A y \in U : f[y] <= v) => Total(f, U) <= n * v
        /\ (\A y \in U : f[y] >= v) => Total(f, U) >= n * v
    BY <1>2
  <2> HIDE DEF n
  <2>6. ASSUME \A y \in V : f[y] <= v PROVE Total(f, V) <= Cardinality(V) * v
    <3>1. f[x] <= v /\ Total(f, U) <= n * v
      BY <2>5, <2>6
    <3> HIDE DEF V
    <3> QED BY <2>2, <2>3, <2>4, <3>1
  <2>7. ASSUME \A y \in V : f[y] >= v PROVE Total(f, V) >= Cardinality(V) * v
    <3>1. f[x] >= v /\ Total(f, U) >= n * v
      BY <2>5, <2>7
    <3> HIDE DEF V
    <3> QED BY <2>2, <2>3, <2>4, <3>1
  <2> HIDE DEF V
  <2> QED BY <2>1, <2>6, <2>7 DEF V
<1>3. S \in P
  <2> HIDE DEF P
  <2> QED BY <1>1, <1>2, SubsetInduction
<1> QED BY <1>3

\* The sums of the model are such sums.
LEMMA ValueIsTotal ==
  ASSUME NEW S, IsFiniteSet(S), \A c \in S : c.value \in Nat
  PROVE  Value(S) = Total([c \in S |-> c.value], S)
<1> DEFINE f == [c \in S |-> c.value]
           ch(s) == CHOOSE x \in s : TRUE
           A(g) == g = [s \in SUBSET S |-> IF s = {} THEN 0 ELSE ch(s).value + g[s \ {ch(s)}]]
           G == CHOOSE g : A(g)
<1>1. Value(S) = G[S]
  BY DEF Value, MapThenSumSet, MapThenFoldSet
<1>2. ASSUME NEW s \in SUBSET S, s # {} PROVE ch(s).value = f[ch(s)]
  <2>1. ch(s) \in S
    BY <1>2
  <2> HIDE DEF ch
  <2> QED BY <2>1
<1>3. ASSUME NEW g PROVE A(g) <=> Sums(f, S, g)
  <2> HIDE DEF ch, f
  <2>1. [s \in SUBSET S |-> IF s = {} THEN 0 ELSE ch(s).value + g[s \ {ch(s)}]]
      = [s \in SUBSET S |-> IF s = {} THEN 0 ELSE f[ch(s)] + g[s \ {ch(s)}]]
    BY <1>2
  <2>2. \A s : ch(s) = Picked(s)
    BY DEF ch, Picked
  <2> QED BY <2>1, <2>2 DEF Sums, SumAt
<1>4. Sums(f, S, G)
  <2> HIDE DEF A, f
  <2>1. \E g : A(g)
    BY <1>3, SumsExist
  <2> QED BY <1>3, <2>1
<1>5. \A c \in S : f[c] \in Nat
  OBVIOUS
<1> HIDE DEF G, f
<1>6. G[S] = Total(f, S)
  BY <1>4, <1>5, TotalOf
<1> QED BY <1>1, <1>6 DEF f

\* How much longer the outputs make a transaction.
OutSize(outs) == Total([o \in outs |-> 2 + Extra[o.kind]], outs)

LEMMA RequiredFeeIs ==
  ASSUME NEW t, IsFiniteSet(t.outs), \A o \in t.outs : o.kind \in DOMAIN Extra
  PROVE  /\ RequiredFee(t) = 2 * Cardinality(t.ins) + OutSize(t.outs)
         /\ \A o \in t.outs : 2 + Extra[o.kind] \in 2 .. 5
<1> DEFINE S == t.outs
           f == [o \in S |-> 2 + Extra[o.kind]]
           ch(s) == CHOOSE x \in s : TRUE
           A(g) == g = [s \in SUBSET S |->
                          IF s = {} THEN 0 ELSE (2 + Extra[ch(s).kind]) + g[s \ {ch(s)}]]
           G == CHOOSE g : A(g)
<1>1. RequiredFee(t) = 2 * Cardinality(t.ins) + G[S]
  BY DEF RequiredFee, MapThenSumSet, MapThenFoldSet
<1>2. ASSUME NEW s \in SUBSET S, s # {} PROVE 2 + Extra[ch(s).kind] = f[ch(s)]
  <2>1. ch(s) \in S
    BY <1>2
  <2> HIDE DEF ch
  <2> QED BY <2>1
<1>3. ASSUME NEW g PROVE A(g) <=> Sums(f, S, g)
  <2> HIDE DEF ch, f
  <2>1. [s \in SUBSET S |-> IF s = {} THEN 0 ELSE (2 + Extra[ch(s).kind]) + g[s \ {ch(s)}]]
      = [s \in SUBSET S |-> IF s = {} THEN 0 ELSE f[ch(s)] + g[s \ {ch(s)}]]
    BY <1>2
  <2>2. \A s : ch(s) = Picked(s)
    BY DEF ch, Picked
  <2> QED BY <2>1, <2>2 DEF Sums, SumAt
<1>4. Sums(f, S, G)
  <2> HIDE DEF A, f
  <2>1. \E g : A(g)
    BY <1>3, SumsExist
  <2> QED BY <1>3, <2>1
<1>5. \A o \in S : 2 + Extra[o.kind] \in 2 .. 5
  BY DEF Extra
<1>6. \A o \in S : f[o] \in Nat
  BY <1>5
<1> HIDE DEF G
<1>7. G[S] = Total(f, S)
  <2> HIDE DEF f
  <2> QED BY <1>4, <1>6, TotalOf
<1> QED BY <1>1, <1>5, <1>7 DEF OutSize

\* What the recipients of a request get.
Paid(q) ==
  IF q.kind \in {"mint", "token", "consolidate", "unstake"} THEN 0
  ELSE Total([i \in DOMAIN q.pay |-> q.pay[i]], DOMAIN q.pay)

LEMMA DueIs ==
  ASSUME NEW q, IsFiniteSet(DOMAIN q.pay), \A i \in DOMAIN q.pay : q.pay[i] \in Nat
  PROVE  Due(q) = IF q.kind \in {"mint", "token", "consolidate", "unstake"} THEN 0
                  ELSE Wrap(Paid(q))
<1> DEFINE S == DOMAIN q.pay
           f == [i \in S |-> q.pay[i]]
           ch(s) == CHOOSE x \in s : TRUE
           A(g) == g = [s \in SUBSET S |->
                          IF s = {} THEN 0 ELSE q.pay[ch(s)] + g[s \ {ch(s)}]]
           G == CHOOSE g : A(g)
<1>1. q.kind \notin {"mint", "token", "consolidate", "unstake"} => Due(q) = Wrap(G[S])
  BY DEF Due, MapThenSumSet, MapThenFoldSet
<1>2. ASSUME NEW s \in SUBSET S, s # {} PROVE q.pay[ch(s)] = f[ch(s)]
  <2>1. ch(s) \in S
    BY <1>2
  <2> HIDE DEF ch
  <2> QED BY <2>1
<1>3. ASSUME NEW g PROVE A(g) <=> Sums(f, S, g)
  <2> HIDE DEF ch, f
  <2>1. [s \in SUBSET S |-> IF s = {} THEN 0 ELSE q.pay[ch(s)] + g[s \ {ch(s)}]]
      = [s \in SUBSET S |-> IF s = {} THEN 0 ELSE f[ch(s)] + g[s \ {ch(s)}]]
    BY <1>2
  <2>2. \A s : ch(s) = Picked(s)
    BY DEF ch, Picked
  <2> QED BY <2>1, <2>2 DEF Sums, SumAt
<1>4. Sums(f, S, G)
  <2> HIDE DEF A, f
  <2>1. \E g : A(g)
    BY <1>3, SumsExist
  <2> QED BY <1>3, <2>1
<1>5. \A i \in S : f[i] \in Nat
  OBVIOUS
<1> HIDE DEF G
<1>6. G[S] = Total(f, S)
  <2> HIDE DEF f
  <2> QED BY <1>4, <1>5, TotalOf
<1> QED BY <1>1, <1>6 DEF Due, Paid

LEMMA ValueFacts ==
  ASSUME NEW S, IsFiniteSet(S), \A c \in S : c.value \in Nat
  PROVE  /\ Value({}) = 0 /\ Value(S) \in Nat
         /\ \A x \in S : Value(S) = x.value + Value(S \ {x})
<1> DEFINE f(T) == [c \in T |-> c.value]
<1>1. \A T \in SUBSET S : Value(T) = Total(f(S), T)
  <2> SUFFICES ASSUME NEW T \in SUBSET S PROVE Value(T) = Total(f(S), T)
    OBVIOUS
  <2>1. IsFiniteSet(T) /\ \A c \in T : c.value \in Nat
    BY FS_Subset
  <2>2. Value(T) = Total(f(T), T)
    BY <2>1, ValueIsTotal
  <2>3. \A c \in T : f(T)[c] \in Nat /\ f(S)[c] = f(T)[c]
    OBVIOUS
  <2> HIDE DEF f
  <2>4. Total(f(S), T) = Total(f(T), T)
    BY <2>1, <2>3, TotalSame
  <2> QED BY <2>2, <2>4
<1>2. \A c \in S : f(S)[c] = c.value /\ f(S)[c] \in Nat
  OBVIOUS
<1> HIDE DEF f
<1>3. /\ Total(f(S), {}) = 0 /\ Total(f(S), S) \in Nat
      /\ \A x \in S : Total(f(S), S) = f(S)[x] + Total(f(S), S \ {x})
  BY <1>2, TotalAdd
<1> QED BY <1>1, <1>2, <1>3

LEMMA ValueUnion ==
  ASSUME NEW S, IsFiniteSet(S), NEW T, IsFiniteSet(T), S \cap T = {},
         \A c \in S \cup T : c.value \in Nat
  PROVE  Value(S \cup T) = Value(S) + Value(T)
<1> DEFINE f(U) == [c \in U |-> c.value]
<1>1. IsFiniteSet(S \cup T)
  BY FS_Union
<1>2. /\ \A c \in S \cup T : f(S \cup T)[c] \in Nat
      /\ \A c \in S : f(S \cup T)[c] \in Nat /\ f(S)[c] = f(S \cup T)[c]
      /\ \A c \in T : f(S \cup T)[c] \in Nat /\ f(T)[c] = f(S \cup T)[c]
  OBVIOUS
<1>3. /\ Value(S \cup T) = Total(f(S \cup T), S \cup T)
      /\ Value(S) = Total(f(S), S) /\ Value(T) = Total(f(T), T)
  BY <1>1, ValueIsTotal
<1> HIDE DEF f
<1>4. Total(f(S), S) = Total(f(S \cup T), S) /\ Total(f(T), T) = Total(f(S \cup T), T)
  BY <1>2, TotalSame
<1>5. Total(f(S \cup T), S \cup T) = Total(f(S \cup T), S) + Total(f(S \cup T), T)
  BY <1>2, TotalUnion
<1> QED BY <1>3, <1>4, <1>5

LEMMA ValueBounds ==
  ASSUME NEW S, IsFiniteSet(S), \A c \in S : c.value \in Nat, NEW v \in Nat
  PROVE  /\ (\A c \in S : c.value <= v) => Value(S) <= Cardinality(S) * v
         /\ (\A c \in S : c.value >= v) => Value(S) >= Cardinality(S) * v
<1> DEFINE f == [c \in S |-> c.value]
<1>1. Value(S) = Total(f, S)
  BY ValueIsTotal
<1>2. \A c \in S : f[c] = c.value /\ f[c] \in Nat
  OBVIOUS
<1> HIDE DEF f
<1> QED BY <1>1, <1>2, TotalBounds

-----------------------------------------------------------------------------
(* Which coins are chosen.                                                   *)

\* Coins with the values and kinds the wallet's outputs have.
Money(cs) ==
  /\ IsFiniteSet(cs)
  /\ \A c \in cs : /\ IsCoin(c) /\ c.value \in Nat /\ c.kind \in DOMAIN Extra
                   /\ c.kind \in {"token", "mint"} => c.value = 0

LEMMA Least ==
  ASSUME NEW S, IsFiniteSet(S), S # {}, \A c \in S : c.value \in Nat
  PROVE  \E c \in S : \A d \in S : c.value <= d.value
<1> DEFINE Has(U) == U = {} \/ \E c \in U : \A d \in U : c.value <= d.value
           P == {U \in SUBSET S : Has(U)}
<1>1. {} \in P
  OBVIOUS
<1>2. ASSUME NEW U \in SUBSET S, NEW x \in S \ U, U \in P PROVE U \cup {x} \in P
  <2>1. CASE U = {}
    BY <2>1
  <2>2. CASE U # {}
    <3>1. PICK c \in U : \A d \in U : c.value <= d.value
      BY <1>2, <2>2
    <3>2. CASE c.value <= x.value
      <4>1. \A d \in U \cup {x} : c.value <= d.value
        BY <3>1, <3>2
      <4> QED BY <4>1
    <3>3. CASE ~ (c.value <= x.value)
      <4>1. \A d \in U \cup {x} : x.value <= d.value
        <5>1. c.value \in Nat /\ x.value \in Nat /\ \A d \in U : d.value \in Nat
          OBVIOUS
        <5>2. \A d \in U : x.value <= d.value
          BY <3>1, <3>3, <5>1
        <5> QED BY <5>1, <5>2
      <4> QED BY <4>1
    <3> QED BY <3>2, <3>3
  <2> QED BY <2>1, <2>2
<1>3. S \in P
  <2> HIDE DEF P
  <2> QED BY <1>1, <1>2, SubsetInduction
<1> QED BY <1>3

\* As many of the largest coins are worth no less than any others.
LEMMA LargestWorthMore ==
  ASSUME NEW N, IsFiniteSet(N), \A c \in N : c.value \in Nat,
         NEW A \in SUBSET N, NEW B \in SUBSET N,
         \A b \in B, d \in N \ B : b.value >= d.value,
         Cardinality(A) <= Cardinality(B)
  PROVE  Value(A) <= Value(B)
<1> DEFINE C == A \cap B
           X == A \ C
           Y == B \ C
<1>1. /\ IsFiniteSet(A) /\ IsFiniteSet(B) /\ IsFiniteSet(C) /\ IsFiniteSet(X) /\ IsFiniteSet(Y)
      /\ Cardinality(X) = Cardinality(A) - Cardinality(C)
      /\ Cardinality(Y) = Cardinality(B) - Cardinality(C)
  <2>1. IsFiniteSet(A) /\ IsFiniteSet(B)
    BY FS_Subset
  <2>2. IsFiniteSet(C)
    BY <2>1, FS_Subset
  <2>3. A \cap C = C /\ B \cap C = C
    OBVIOUS
  <2> HIDE DEF C
  <2>4. IsFiniteSet(X) /\ Cardinality(X) = Cardinality(A) - Cardinality(A \cap C)
    BY <2>1, FS_Difference
  <2>5. IsFiniteSet(Y) /\ Cardinality(Y) = Cardinality(B) - Cardinality(B \cap C)
    BY <2>1, FS_Difference
  <2> QED BY <2>1, <2>2, <2>3, <2>4, <2>5
<1>2. /\ {Cardinality(A), Cardinality(B), Cardinality(C), Cardinality(X), Cardinality(Y)} \subseteq Nat
      /\ Cardinality(X) <= Cardinality(Y)
  <2>1. {Cardinality(A), Cardinality(B), Cardinality(C), Cardinality(X), Cardinality(Y)} \subseteq Nat
    <3> HIDE DEF C, X, Y
    <3> QED BY <1>1, FS_CardinalityType
  <2> HIDE DEF C, X, Y
  <2> QED BY <1>1, <2>1
<1>3. /\ X \subseteq N /\ Y \subseteq N /\ C \subseteq N
      /\ A = C \cup X /\ C \cap X = {} /\ B = C \cup Y /\ C \cap Y = {}
      /\ \A x \in X, y \in Y : y.value >= x.value
  OBVIOUS
<1> HIDE DEF C, X, Y
<1>4. Value(A) = Value(C) + Value(X) /\ Value(B) = Value(C) + Value(Y)
  <2>1. /\ \A c \in C \cup X : c.value \in Nat
        /\ \A c \in C \cup Y : c.value \in Nat
    BY <1>3
  <2>2. Value(C \cup X) = Value(C) + Value(X)
    BY <1>1, <1>3, <2>1, ValueUnion
  <2>3. Value(C \cup Y) = Value(C) + Value(Y)
    BY <1>1, <1>3, <2>1, ValueUnion
  <2> QED BY <1>3, <2>2, <2>3
<1>5. {Value(C), Value(X), Value(Y)} \subseteq Nat /\ Value({}) = 0
  <2>1. \A c \in C : c.value \in Nat
    BY <1>3
  <2>2. \A c \in X : c.value \in Nat
    BY <1>3
  <2>3. \A c \in Y : c.value \in Nat
    BY <1>3
  <2> QED BY <1>1, <2>1, <2>2, <2>3, ValueFacts
<1>6. Value(X) <= Value(Y)
  <2>1. CASE Y = {}
    <3>1. X = {}
      BY <1>1, <1>2, <2>1, FS_EmptySet
    <3> QED BY <1>5, <2>1, <3>1
  <2>2. CASE Y # {}
    <3>1. \A y \in Y : y.value \in Nat
      BY <1>3
    <3>2. PICK c \in Y : \A d \in Y : c.value <= d.value
      BY <1>1, <2>2, <3>1, Least
    <3> DEFINE v == c.value
    <3>3. v \in Nat /\ (\A y \in Y : y.value >= v) /\ (\A x \in X : x.value <= v /\ x.value \in Nat)
      <4>1. \A y \in Y : y.value >= v
        BY <3>1, <3>2
      <4>2. \A x \in X : x.value \in Nat /\ x.value <= v
        BY <1>3, <3>1
      <4> QED BY <3>1, <4>1, <4>2
    <3> HIDE DEF v
    <3>4. Value(Y) >= Cardinality(Y) * v
      BY <1>1, <3>1, <3>3, ValueBounds
    <3>5. Value(X) <= Cardinality(X) * v
      BY <1>1, <3>3, ValueBounds
    <3>6. Cardinality(X) * v <= Cardinality(Y) * v
      <4>1. PICK k \in Nat : Cardinality(Y) = Cardinality(X) + k
        <5>1. Cardinality(Y) - Cardinality(X) \in Nat
          BY <1>2
        <5> QED BY <1>2, <5>1
      <4>2. (Cardinality(X) + k) * v = Cardinality(X) * v + k * v /\ k * v \in Nat
            /\ Cardinality(X) * v \in Nat
        BY <1>2, <3>3
      <4> QED BY <4>1, <4>2
    <3>7. Cardinality(X) * v \in Int /\ Cardinality(Y) * v \in Int
      BY <1>2, <3>3
    <3> QED BY <1>5, <3>4, <3>5, <3>6, <3>7
  <2> QED BY <2>1, <2>2
<1> QED BY <1>4, <1>5, <1>6

LEMMA Selected ==
  ASSUME NEW cs, IsFiniteSet(cs), \A c \in cs : c.value \in Nat,
         NEW t \in Nat, NEW s \in SelectCoins(cs, t)
  PROVE  /\ t > 0 /\ s \subseteq cs /\ IsFiniteSet(s) /\ s # {} /\ Value(s) >= t
         /\ \/ Cardinality(s) = 1
            \/ \E c \in s : /\ Value(s \ {c}) < t
                            /\ \A b \in s \ {c}, d \in cs \ (s \ {c}) : b.value >= d.value
<1> DEFINE usable == {c \in cs : c.value > 0}
           enough == {c \in usable : c.value >= t}
           single == {{c} : c \in {d \in enough : \A e \in enough : d.value <= e.value}}
           largest == {u \in SUBSET usable :
             /\ Value(u) >= t
             /\ \A c \in u, d \in usable \ u : c.value >= d.value
             /\ \E c \in u : Value(u \ {c}) < t /\ \A d \in u : c.value <= d.value}
           least  == {u \in single \cup largest : \A v \in single \cup largest : Value(u) <= Value(v)}
<1>1. t > 0 /\ s \in single \cup largest
  <2>1. s \in IF t = 0 THEN {} ELSE IF single \cap least # {} THEN single ELSE least
    BY DEF SelectCoins
  <2>2. least \subseteq single \cup largest
    OBVIOUS
  <2> HIDE DEF single, largest, least
  <2> QED BY <2>1, <2>2
<1>2. CASE s \in single
  <2>1. PICK c \in cs : s = {c} /\ c.value >= t
    BY <1>2
  <2>2. IsFiniteSet(s) /\ Cardinality(s) = 1
    BY <2>1, FS_Singleton
  <2>3. Value(s) = c.value + Value({}) /\ Value({}) = 0
    <3>1. s \ {c} = {} /\ c \in s /\ \A d \in s : d.value \in Nat
      BY <2>1
    <3> QED BY <2>2, <3>1, ValueFacts
  <2> QED BY <1>1, <2>1, <2>2, <2>3
<1>3. CASE s \in largest
  <2>1. /\ s \subseteq usable /\ Value(s) >= t
        /\ \A c \in s, d \in usable \ s : c.value >= d.value
    BY <1>3
  <2>2. PICK c \in s : Value(s \ {c}) < t /\ \A d \in s : c.value <= d.value
    BY <1>3
  <2>3. s \subseteq cs
    BY <2>1
  <2>4. ASSUME NEW b \in s \ {c}, NEW d \in cs \ (s \ {c}) PROVE b.value >= d.value
    <3>1. b.value \in Nat /\ d.value \in Nat /\ c.value \in Nat /\ c.value <= b.value
      BY <2>2, <2>3
    <3>2. CASE d = c
      BY <3>1, <3>2
    <3>3. CASE d # c /\ d.value > 0
      <4>1. d \in usable \ s /\ b \in s
        BY <2>4, <3>3
      <4> QED BY <2>1, <4>1
    <3>4. CASE ~ (d.value > 0)
      BY <3>1, <3>4
    <3> QED BY <3>2, <3>3, <3>4
  <2>5. IsFiniteSet(s)
    BY <2>3, FS_Subset
  <2> QED BY <1>1, <2>1, <2>2, <2>3, <2>4, <2>5
<1> HIDE DEF single, largest
<1> QED BY <1>1, <1>2, <1>3

\* A higher target takes no fewer coins.
LEMMA SelectsMore ==
  ASSUME NEW cs, IsFiniteSet(cs), \A c \in cs : c.value \in Nat,
         NEW t \in Nat, NEW s \in SelectCoins(cs, t),
         NEW u \in SUBSET cs, Value(u) >= t
  PROVE  Cardinality(s) <= Cardinality(u)
<1>1. /\ t > 0 /\ s \subseteq cs /\ IsFiniteSet(s) /\ s # {} /\ Value(s) >= t
      /\ \/ Cardinality(s) = 1
         \/ \E c \in s : /\ Value(s \ {c}) < t
                         /\ \A b \in s \ {c}, d \in cs \ (s \ {c}) : b.value >= d.value
  BY Selected
<1>2. /\ IsFiniteSet(u) /\ Cardinality(u) \in Nat /\ Cardinality(s) \in Nat
      /\ Value(u) \in Nat /\ Value({}) = 0
  <2>1. IsFiniteSet(u) /\ \A c \in u : c.value \in Nat
    BY FS_Subset
  <2> QED BY <1>1, <2>1, FS_CardinalityType, ValueFacts
<1>3. CASE Cardinality(s) = 1
  <2>1. u # {}
    BY <1>1, <1>2
  <2>2. Cardinality(u) # 0
    BY <1>2, <2>1, FS_EmptySet
  <2> QED BY <1>2, <1>3, <2>2
<1>4. ASSUME NEW c \in s, Value(s \ {c}) < t,
             \A b \in s \ {c}, d \in cs \ (s \ {c}) : b.value >= d.value
      PROVE  Cardinality(s) <= Cardinality(u)
  <2> SUFFICES ASSUME ~ (Cardinality(s) <= Cardinality(u)) PROVE FALSE
    OBVIOUS
  <2>1. /\ s \ {c} \in SUBSET cs /\ IsFiniteSet(s \ {c})
        /\ Cardinality(s \ {c}) = Cardinality(s) - 1
    BY <1>1, FS_RemoveElement
  <2>2. Cardinality(u) <= Cardinality(s \ {c})
    BY <1>2, <2>1
  <2>3. Value(u) <= Value(s \ {c})
    BY <1>4, <2>1, <2>2, LargestWorthMore
  <2>4. Value(s \ {c}) \in Nat
    <3>1. \A d \in s \ {c} : d.value \in Nat
      BY <2>1
    <3> QED BY <2>1, <3>1, ValueFacts
  <2> QED BY <1>2, <1>4, <2>3, <2>4
<1> QED BY <1>1, <1>3, <1>4

-----------------------------------------------------------------------------
(* What a request makes of the coins it chose.                               *)

Payments == {"send", "consolidate", "stake", "mint", "token", "register"}

\* A request for a payment, and the token inputs that are for it.
Asks(q) ==
  /\ q.kind \in Payments /\ q.pay \in Seq(1..Word - 1)
  /\ (q.kind = "send" /\ Len(q.pay) > 0) \/ Len(q.pay) = 1

ForToken(q, in) == q.kind = "token" => \E id : TokenIDs(in) = {id}

\* Outputs that their positions tell apart.
Placed(outs) == \A o, p \in outs : o.pos = p.pos => o = p

LEMMA Modulo ==
  ASSUME NEW n \in Int
  PROVE  Wrap(n) \in 0..Word - 1 /\ \E k \in Int : Wrap(n) = n + Word * k
<1>1. Word \in Nat /\ Word > 0
  BY BoundAssumption
<1>2. n \div Word \in Int /\ n = Word * (n \div Word) + (n % Word) /\ n % Word \in 0..Word - 1
  BY <1>1
<1> DEFINE d == n \div Word
           m == n % Word
<1>3. d \in Int /\ m \in 0..Word - 1 /\ n = Word * d + m
  BY <1>2
<1> HIDE DEF d, m
<1>4. -d \in Int /\ Word * (-d) = -(Word * d) /\ Word * d \in Int
  BY <1>1, <1>3
<1>5. m = n + Word * (-d)
  BY <1>3, <1>4
<1> QED BY <1>3, <1>4, <1>5 DEF Wrap, m

LEMMA SameWord ==
  ASSUME NEW a \in 0..Word - 1, NEW b \in 0..Word - 1, NEW k \in Int, a = b + Word * k
  PROVE  a = b
<1>1. Word \in Nat
  BY BoundAssumption
<1>2. CASE k = 0
  BY <1>1, <1>2
<1>3. CASE k >= 1
  <2>1. Word * k >= Word
    BY <1>1, <1>3
  <2> QED BY <1>1, <2>1
<1>4. CASE k <= -1
  <2>1. Word * k <= -Word
    BY <1>1, <1>4
  <2> QED BY <1>1, <2>1
<1> QED BY <1>2, <1>3, <1>4

LEMMA OneValue ==
  ASSUME NEW c, c.value \in Nat
  PROVE  IsFiniteSet({c}) /\ Cardinality({c}) = 1 /\ Value({c}) = c.value
<1>1. IsFiniteSet({c}) /\ Cardinality({c}) = 1 /\ {c} \ {c} = {}
  BY FS_Singleton
<1> DEFINE S == {c}
<1>2. \A d \in S : d.value \in Nat
  OBVIOUS
<1>3. c \in S /\ IsFiniteSet(S) /\ S \ {c} = {}
  BY <1>1
<1> HIDE DEF S
<1>4. Value({}) = 0 /\ Value(S) = c.value + Value(S \ {c})
  BY <1>2, <1>3, ValueFacts
<1> QED BY <1>1, <1>3, <1>4 DEF S

\* The size of outputs: 2 for a plain one, at most 5 for another.
LEMMA OutSizeFacts ==
  ASSUME NEW S, Money(S)
  PROVE  /\ OutSize(S) \in Nat /\ OutSize(S) >= 2 * Cardinality(S)
         /\ OutSize(S) <= 5 * Cardinality(S)
         /\ (\A o \in S : o.kind = "native") => OutSize(S) = 2 * Cardinality(S)
<1> DEFINE f == [o \in S |-> 2 + Extra[o.kind]]
<1>1. /\ IsFiniteSet(S)
      /\ \A o \in S : f[o] \in Nat /\ f[o] >= 2 /\ f[o] <= 5 /\ (o.kind = "native" => f[o] <= 2)
  BY DEF Money, Extra
<1>2. Cardinality(S) \in Nat
  BY <1>1, FS_CardinalityType
<1> HIDE DEF f
<1>3. Total(f, S) \in Nat
  BY <1>1, TotalAdd
<1>4. Total(f, S) >= Cardinality(S) * 2
  BY <1>1, TotalBounds
<1>5. Total(f, S) <= Cardinality(S) * 5
  BY <1>1, TotalBounds
<1>6. (\A o \in S : o.kind = "native") => Total(f, S) <= Cardinality(S) * 2
  BY <1>1, TotalBounds
<1>7. OutSize(S) = Total(f, S)
  BY DEF OutSize, f
<1> QED BY <1>2, <1>3, <1>4, <1>5, <1>6, <1>7

LEMMA OutSizeUnion ==
  ASSUME NEW S, Money(S), NEW T, Money(T), S \cap T = {}
  PROVE  Money(S \cup T) /\ OutSize(S \cup T) = OutSize(S) + OutSize(T)
<1> DEFINE f(U) == [o \in U |-> 2 + Extra[o.kind]]
<1>1. IsFiniteSet(S) /\ IsFiniteSet(T) /\ IsFiniteSet(S \cup T)
  BY FS_Union DEF Money
<1>2. /\ \A c \in S \cup T : f(S \cup T)[c] \in Nat
      /\ \A c \in S : f(S \cup T)[c] \in Nat /\ f(S)[c] = f(S \cup T)[c]
      /\ \A c \in T : f(S \cup T)[c] \in Nat /\ f(T)[c] = f(S \cup T)[c]
  <2>1. \A c \in S \cup T : 2 + Extra[c.kind] \in Nat
    BY DEF Money, Extra
  <2> QED BY <2>1
<1>3. /\ OutSize(S \cup T) = Total(f(S \cup T), S \cup T)
      /\ OutSize(S) = Total(f(S), S) /\ OutSize(T) = Total(f(T), T)
  BY DEF OutSize
<1> HIDE DEF f
<1>4. Total(f(S), S) = Total(f(S \cup T), S) /\ Total(f(T), T) = Total(f(S \cup T), T)
  BY <1>1, <1>2, TotalSame
<1>5. Total(f(S \cup T), S \cup T) = Total(f(S \cup T), S) + Total(f(S \cup T), T)
  BY <1>1, <1>2, TotalUnion
<1>6. Money(S \cup T)
  BY <1>1 DEF Money
<1> QED BY <1>3, <1>4, <1>5, <1>6

\* One output that is not change.
LEMMA OneOutput ==
  ASSUME NEW o, IsCoin(o), o.value \in Nat, o.kind \in DOMAIN Extra,
         o.kind \in {"token", "mint"} => o.value = 0
  PROVE  /\ Money({o}) /\ Placed({o}) /\ Value({o}) = o.value /\ Cardinality({o}) = 1
BY OneValue DEF Money, Placed

LEMMA SendOutputs ==
  ASSUME NEW q, NEW in, Asks(q), q.kind = "send"
  PROVE  /\ Money(Outputs(q, in)) /\ Placed(Outputs(q, in))
         /\ \A o \in Outputs(q, in) : o.pos \in Nat \ {0} /\ o.kind = "native"
         /\ Value(Outputs(q, in)) = Paid(q)
         /\ Cardinality(Outputs(q, in)) = Len(q.pay)
<1> DEFINE S == DOMAIN q.pay
           co(i) == Coin(q.chain, i, Other, "native", q.pay[i], 0, 0)
           T == {co(i) : i \in S}
           m == [i \in S |-> co(i)]
           f == [i \in S |-> q.pay[i]]
           e == [o \in T |-> o.value]
<1>1. Outputs(q, in) = T
  BY DEF Outputs
<1>2. /\ S = 1..Len(q.pay) /\ Len(q.pay) \in Nat /\ IsFiniteSet(S) /\ Cardinality(S) = Len(q.pay)
      /\ \A i \in S : q.pay[i] \in Nat
  <2>1. q.pay \in Seq(1..Word - 1) /\ Word \in Nat
    BY BoundAssumption DEF Asks
  <2>2. S = 1..Len(q.pay) /\ Len(q.pay) \in Nat /\ \A i \in S : q.pay[i] \in Nat
    BY <2>1
  <2> QED BY <2>2, FS_Interval
<1>3. \A i \in S : /\ co(i).pos = i /\ co(i).value = q.pay[i] /\ co(i).kind = "native"
                   /\ IsCoin(co(i))
  BY DEF Coin, IsCoin
<1> HIDE DEF co
<1>4. /\ m \in [S -> T]
      /\ \A i, j \in S : m[i] = m[j] => i = j
      /\ \A z \in T : \E i \in S : z = m[i]
      /\ \A i \in S : f[i] \in Nat /\ e[m[i]] = f[i]
  BY <1>2, <1>3
<1>5. /\ \A o \in T : /\ IsCoin(o) /\ o.value \in Nat /\ o.kind = "native" /\ o.pos \in Nat \ {0}
      /\ Placed(T)
  BY <1>2, <1>3 DEF Placed
<1>6. Paid(q) = Total(f, S)
  BY DEF Paid
<1> HIDE DEF S, T, m, f
<1>7. IsFiniteSet(T) /\ Cardinality(T) = Cardinality(S) /\ Total(e, T) = Total(f, S)
  <2> HIDE DEF e
  <2>1. m \in [S -> T]
    BY <1>4
  <2>2. \A i, j \in S : m[i] = m[j] => i = j
    BY <1>4
  <2>3. \A z \in T : \E i \in S : z = m[i]
    BY <1>4
  <2>4. \A i \in S : f[i] \in Nat
    BY <1>4
  <2>5. \A i \in S : e[m[i]] = f[i]
    BY <1>4
  <2>6. IsFiniteSet(S)
    BY <1>2
  <2> QED BY <2>1, <2>2, <2>3, <2>4, <2>5, <2>6, TotalImage
<1>8. Value(T) = Total(e, T)
  BY <1>5, <1>7, ValueIsTotal
<1> QED BY <1>1, <1>2, <1>5, <1>6, <1>7, <1>8 DEF Money, Extra

LEMMA PaidOne ==
  ASSUME NEW q, Asks(q), Len(q.pay) = 1, q.kind \in {"stake", "register"}
  PROVE  Paid(q) = q.pay[1] /\ q.pay[1] \in Nat
<1> DEFINE S == DOMAIN q.pay
           f == [i \in S |-> q.pay[i]]
<1>1. q.pay \in Seq(1..Word - 1) /\ Word \in Nat
  BY BoundAssumption DEF Asks
<1>2. S = {1} /\ f[1] = q.pay[1] /\ q.pay[1] \in Nat
  BY <1>1
<1>3. Paid(q) = Total(f, S)
  BY DEF Paid
<1> HIDE DEF f, S
<1>4. IsFiniteSet(S) /\ IsFiniteSet({}) /\ S \ {1} = {} /\ \A i \in S : f[i] \in Nat
  BY <1>2, FS_Singleton, FS_EmptySet
<1>5. Total(f, {}) = 0
  BY <1>4, TotalAdd
<1>6. Total(f, S) = f[1] + Total(f, S \ {1})
  BY <1>2, <1>4, TotalAdd
<1> QED BY <1>2, <1>3, <1>4, <1>5, <1>6
\* What the outputs of a request are worth, and how many and how long they are.
OutputsOf(q, outs) ==
  /\ Money(outs) /\ Placed(outs)
  /\ \A o \in outs : o.pos \in Nat \ {0}
  /\ Value(outs) = Paid(q) /\ Paid(q) \in Nat
  /\ Cardinality(outs) \in Nat /\ Cardinality(outs) <= Len(q.pay) + 1
  /\ OutSize(outs) \in Nat /\ OutSize(outs) >= 2 * Cardinality(outs)
  /\ OutSize(outs) <= 2 * Len(q.pay) + 8 /\ Len(q.pay) \in Nat
  /\ q.kind = "send" => OutSize(outs) = 2 * Cardinality(outs)
  /\ q.kind = "consolidate" => outs = {}
  /\ q.kind = "mint" => Cardinality(outs) = 1 /\ OutSize(outs) = 5

LEMMA NoOutput ==
  Money({}) /\ Placed({}) /\ Value({}) = 0 /\ Cardinality({}) = 0 /\ OutSize({}) = 0
<1>1. IsFiniteSet({}) /\ Cardinality({}) = 0
  BY FS_EmptySet
<1>2. Money({}) /\ Placed({})
  BY <1>1 DEF Money, Placed
<1>3. Value({}) = 0
  <2> DEFINE S == {}
  <2>1. IsFiniteSet(S) /\ \A c \in S : c.value \in Nat
    BY <1>1
  <2> HIDE DEF S
  <2> QED BY <2>1, ValueFacts
<1>4. OutSize({}) = 0
  <2>1. OutSize({}) \in Nat /\ OutSize({}) <= 5 * Cardinality({})
    BY <1>2, OutSizeFacts
  <2> QED BY <1>1, <2>1
<1> QED BY <1>1, <1>2, <1>3, <1>4

LEMMA OutputsAre ==
  ASSUME NEW q, Asks(q), NEW in, ForToken(q, in)
  PROVE  OutputsOf(q, Outputs(q, in))
<1> DEFINE outs == Outputs(q, in)
<1>1. /\ Len(q.pay) \in Nat /\ Len(q.pay) > 0
      /\ q.kind # "send" => Len(q.pay) = 1
      /\ q.kind \in Payments
  <2>1. q.pay \in Seq(1..Word - 1)
    BY DEF Asks
  <2>2. Len(q.pay) \in Nat
    BY <2>1
  <2>3. (q.kind = "send" /\ Len(q.pay) > 0) \/ Len(q.pay) = 1
    BY DEF Asks
  <2>4. q.kind \in Payments
    BY DEF Asks
  <2> DEFINE n == Len(q.pay)
  <2> HIDE DEF n
  <2>5. n > 0
    BY <2>2, <2>3 DEF n
  <2>6. q.kind # "send" => n = 1
    BY <2>3 DEF n
  <2> QED BY <2>2, <2>4, <2>5, <2>6 DEF n
<1>2. CASE q.kind = "send"
  <2>1. /\ Money(outs) /\ Placed(outs)
        /\ \A o \in outs : o.pos \in Nat \ {0} /\ o.kind = "native"
        /\ Value(outs) = Paid(q) /\ Cardinality(outs) = Len(q.pay)
    BY <1>2, SendOutputs
  <2> HIDE DEF outs
  <2>2. OutSize(outs) \in Nat /\ OutSize(outs) = 2 * Cardinality(outs)
    BY <2>1, OutSizeFacts
  <2>3. Value(outs) \in Nat
    BY <2>1, ValueFacts DEF Money
  <2>4. \A o \in outs : o.pos \in Nat \ {0}
    BY <2>1
  <2>5. OutSize(outs) <= 2 * Len(q.pay) + 8 /\ Cardinality(outs) <= Len(q.pay) + 1
        /\ Cardinality(outs) \in Nat /\ OutSize(outs) >= 2 * Cardinality(outs)
    BY <1>1, <2>1, <2>2
  <2>6. OutputsOf(q, outs)
    BY <1>1, <1>2, <2>1, <2>2, <2>3, <2>4, <2>5 DEF OutputsOf
  <2> QED BY <2>6 DEF outs
<1>3. ASSUME NEW o, outs = {o}, IsCoin(o), o.pos = 1, o.kind \in DOMAIN Extra, o.value = Paid(q),
             o.value \in Nat, o.kind \in {"token", "mint"} => o.value = 0,
             q.kind \notin {"send", "consolidate"}, q.kind = "mint" => o.kind = "mint"
      PROVE  OutputsOf(q, outs)
  <2>1. Money(outs) /\ Placed(outs) /\ Value(outs) = o.value /\ Cardinality(outs) = 1
    BY <1>3, OneOutput
  <2>2. OutSize(outs) \in Nat /\ OutSize(outs) >= 2 * Cardinality(outs)
        /\ OutSize(outs) <= 5 * Cardinality(outs)
    BY <2>1, OutSizeFacts
  <2>3. q.kind = "mint" => OutSize(outs) = 5
    <3> SUFFICES ASSUME q.kind = "mint" PROVE OutSize(outs) = 5
      OBVIOUS
    <3> DEFINE f == [x \in outs |-> 2 + Extra[x.kind]]
    <3>1. \A x \in outs : f[x] \in Nat /\ f[x] = 5
      BY <1>3 DEF Extra
    <3>2. o \in outs /\ IsFiniteSet(outs) /\ Cardinality(outs) = 1
      BY <1>3, <2>1 DEF Money
    <3>3. OutSize(outs) = Total(f, outs)
      BY DEF OutSize
    <3> HIDE DEF f, outs
    <3>4. Total(f, outs) <= 1 * 5 /\ Total(f, outs) >= 1 * 5 /\ Total(f, outs) \in Nat
      <4>1. /\ \A x \in outs : f[x] \in Nat
            /\ \A x \in outs : f[x] <= 5
            /\ \A x \in outs : f[x] >= 5
        BY <3>1
      <4>2. Total(f, outs) <= Cardinality(outs) * 5 /\ Total(f, outs) >= Cardinality(outs) * 5
        BY <3>2, <4>1, TotalBounds
      <4>3. Total(f, outs) \in Nat
        BY <3>2, <4>1, TotalAdd
      <4> QED BY <3>2, <4>2, <4>3
    <3> QED BY <3>3, <3>4
  <2> HIDE DEF outs
  <2> QED BY <1>1, <1>3, <2>1, <2>2, <2>3 DEF OutputsOf
<1>4. CASE q.kind \in {"stake", "register"}
  <2> DEFINE o == Coin(q.chain, 1, IF q.kind = "stake" THEN Account0 ELSE Other, q.kind, q.pay[1], 0, 0)
  <2>1. Paid(q) = q.pay[1] /\ q.pay[1] \in Nat
    BY <1>1, <1>4, PaidOne
  <2>2. outs = {o}
    BY <1>4 DEF Outputs
  <2>3. /\ IsCoin(o) /\ o.pos = 1 /\ o.kind = q.kind /\ o.value = q.pay[1]
    BY DEF Coin, IsCoin
  <2> HIDE DEF o, outs
  <2> QED BY <1>3, <1>4, <2>1, <2>2, <2>3 DEF Extra, outs
<1>5. CASE q.kind = "mint"
  <2> DEFINE o == Coin(q.chain, 1, Account0, "mint", 0, q.pay[1], 0)
  <2>1. Paid(q) = 0
    BY <1>5 DEF Paid
  <2>2. outs = {o}
    BY <1>5 DEF Outputs
  <2>3. /\ IsCoin(o) /\ o.pos = 1 /\ o.kind = "mint" /\ o.value = 0
    BY DEF Coin, IsCoin
  <2> HIDE DEF o, outs
  <2> QED BY <1>3, <1>5, <2>1, <2>2, <2>3 DEF Extra, outs
<1>6. CASE q.kind = "consolidate"
  <2>1. outs = {} /\ Paid(q) = 0
    BY <1>6 DEF Outputs, Paid
  <2> HIDE DEF outs
  <2>2. OutputsOf(q, outs)
    BY <1>1, <1>6, <2>1, NoOutput DEF OutputsOf
  <2> QED BY <2>2 DEF outs
<1>7. CASE q.kind = "token"
  <2>1. PICK id : TokenIDs(in) = {id}
    BY <1>7 DEF ForToken
  <2> DEFINE v == Amount(in) - q.pay[1]
             o == Coin(q.chain, 1, Other, "token", 0, q.pay[1], id)
             p == Coin(q.chain, 2, Account0, "token", 0, v, id)
  <2>2. outs = {o} \/ outs = {o, p}
    BY <1>7, <2>1 DEF Outputs
  <2>3. Paid(q) = 0
    BY <1>7 DEF Paid
  <2>4. /\ IsCoin(o) /\ o.pos = 1 /\ o.kind = "token" /\ o.value = 0
        /\ IsCoin(p) /\ p.pos = 2 /\ p.kind = "token" /\ p.value = 0
    BY DEF Coin, IsCoin
  <2> HIDE DEF o, p
  <2>5. CASE outs = {o}
    <3> HIDE DEF outs
    <3> QED BY <1>3, <1>7, <2>3, <2>4, <2>5 DEF Extra, outs
  <2>6. CASE outs = {o, p}
    <3> HIDE DEF outs
    <3>1. Money({o}) /\ Value({o}) = 0 /\ Cardinality({o}) = 1
      BY <2>4, OneOutput DEF Extra
    <3>2. Money({p}) /\ Value({p}) = 0 /\ Cardinality({p}) = 1
      BY <2>4, OneOutput DEF Extra
    <3>3. outs = {o} \cup {p} /\ {o} \cap {p} = {} /\ Placed(outs)
          /\ \A x \in outs : x.pos \in Nat \ {0}
      BY <2>4, <2>6 DEF Placed
    <3>4. Money(outs)
      BY <3>1, <3>2, <3>3, OutSizeUnion
    <3>5. Value(outs) = 0
      <4>1. IsFiniteSet({o}) /\ IsFiniteSet({p}) /\ \A c \in {o} \cup {p} : c.value \in Nat
        BY <2>4, <3>1, <3>2 DEF Money
      <4>2. Value({o} \cup {p}) = Value({o}) + Value({p})
        BY <3>3, <4>1, ValueUnion
      <4> QED BY <3>1, <3>2, <3>3, <4>2
    <3>6. Cardinality(outs) = 2
      <4>1. IsFiniteSet({o}) /\ p \notin {o}
        BY <3>1, <3>3 DEF Money
      <4>2. Cardinality({o} \cup {p}) = Cardinality({o}) + 1
        BY <4>1, FS_AddElement
      <4> QED BY <3>1, <3>3, <4>2
    <3>7. OutSize(outs) \in Nat /\ OutSize(outs) >= 2 * Cardinality(outs)
          /\ OutSize(outs) <= 5 * Cardinality(outs)
      BY <3>4, OutSizeFacts
    <3>8. OutputsOf(q, outs)
      BY <1>1, <1>7, <2>3, <3>3, <3>4, <3>5, <3>6, <3>7 DEF OutputsOf
    <3> QED BY <3>8 DEF outs
  <2> QED BY <2>2, <2>5, <2>6
<1> QED BY <1>1, <1>2, <1>4, <1>5, <1>6, <1>7 DEF Payments
-----------------------------------------------------------------------------
(* What a plan spends, and what the transaction made of it costs.            *)

\* Tokens in for the request and native coins s: what is neither paid nor fee
\* is change, in the arithmetic of a word.
Choice(q, cs, p, in, s) ==
  /\ p = [ins |-> p.ins, fee |-> p.fee, change |-> p.change]
  /\ p.ins = in \cup s /\ in \subseteq Tokens(cs) /\ s \subseteq Native(cs)
  /\ ForToken(q, in) /\ (q.kind # "token" => in = {})
  /\ p.change \in Nat /\ p.fee \in 0..Word - 1
  /\ \E k \in Int : p.change = ((Value(s) - Paid(q)) - p.fee) + Word * k

\* What a transaction costs: the coins it spends, the outputs of the request,
\* and its change.
Size(n, q, in, change) == 2 * n + OutSize(Outputs(q, in)) + (IF change > 0 THEN 2 ELSE 0)

LEMMA CoinsOf ==
  ASSUME NEW cs, Money(cs), NEW in, in \subseteq Tokens(cs), NEW s, s \subseteq Native(cs)
  PROVE  /\ IsFiniteSet(in) /\ IsFiniteSet(s) /\ IsFiniteSet(in \cup s)
         /\ Cardinality(in) \in Nat /\ Cardinality(s) \in Nat /\ Cardinality(cs) \in Nat
         /\ Cardinality(in \cup s) = Cardinality(in) + Cardinality(s)
         /\ Cardinality(in) + Cardinality(s) <= Cardinality(cs)
         /\ Value(in \cup s) = Value(s) /\ Value(s) \in Nat
         /\ Tokens(in \cup s) = in
         /\ \A c \in cs : c.value \in Nat
<1>1. /\ IsFiniteSet(cs) /\ in \subseteq cs /\ s \subseteq cs
      /\ \A c \in cs : c.value \in Nat
      /\ \A c \in in : c.value = 0 /\ c.kind \in {"token", "mint"}
      /\ \A c \in s : c.kind = "native"
  BY DEF Money, Tokens, Native
<1>2. in \cap s = {} /\ Tokens(in \cup s) = in /\ in \cup s \subseteq cs
  BY <1>1 DEF Tokens
<1>3. IsFiniteSet(in) /\ IsFiniteSet(s) /\ IsFiniteSet(in \cup s)
      /\ Cardinality(in \cup s) <= Cardinality(cs)
  BY <1>1, <1>2, FS_Subset
<1>4. /\ Cardinality(in) \in Nat /\ Cardinality(s) \in Nat /\ Cardinality(cs) \in Nat
      /\ Cardinality({}) = 0
  BY <1>1, <1>3, FS_CardinalityType, FS_EmptySet
<1>5. Cardinality(in \cup s) = Cardinality(in) + Cardinality(s)
  <2>1. Cardinality(in \cup s) = Cardinality(in) + Cardinality(s) - Cardinality(in \cap s)
    BY <1>3, FS_Union
  <2>2. Cardinality(in \cap s) = 0
    BY <1>2, <1>4
  <2> QED BY <1>4, <2>1, <2>2
<1>6. Value(in) = 0
  <2>1. \A c \in in : c.value \in Nat /\ c.value <= 0
    BY <1>1
  <2>2. Value(in) <= Cardinality(in) * 0 /\ Value(in) \in Nat
    BY <1>3, <2>1, ValueBounds, ValueFacts
  <2> QED BY <1>4, <2>2
<1>7. Value(in \cup s) = Value(in) + Value(s) /\ Value(s) \in Nat
  <2>1. /\ \A c \in in \cup s : c.value \in Nat
        /\ \A c \in s : c.value \in Nat
    BY <1>1
  <2>2. Value(in \cup s) = Value(in) + Value(s)
    BY <1>2, <1>3, <2>1, ValueUnion
  <2>3. Value(s) \in Nat
    BY <1>3, <2>1, ValueFacts
  <2> QED BY <2>2, <2>3
<1> QED BY <1>1, <1>2, <1>3, <1>4, <1>5, <1>6, <1>7

LEMMA TransactionIs ==
  ASSUME NEW q, Asks(q), NEW cs, Money(cs), NEW p, NEW in, NEW s, Choice(q, cs, p, in, s),
         NEW idx
  PROVE  LET t == Transaction(q, p, idx) IN
         /\ IsTx(t) /\ t.ins = in \cup s /\ t.kind = q.kind
         /\ Money(t.outs) /\ Placed(t.outs)
         /\ Value(t.outs) = Paid(q) + p.change
         /\ RequiredFee(t) = Size(Cardinality(in) + Cardinality(s), q, in, p.change)
<1> DEFINE t == Transaction(q, p, idx)
           outs == Outputs(q, in)
           extra == {Coin(q.chain, 0, <<1, idx>>, "native", v, 0, 0) : v \in {c \in {p.change} : c > 0}}
<1>1. /\ p.ins = in \cup s /\ in \subseteq Tokens(cs) /\ s \subseteq Native(cs)
      /\ ForToken(q, in) /\ p.change \in Nat
  BY DEF Choice
<1>2. /\ Cardinality(in) \in Nat /\ Cardinality(s) \in Nat /\ Tokens(in \cup s) = in
      /\ Cardinality(in \cup s) = Cardinality(in) + Cardinality(s)
  <2>1. in \subseteq Tokens(cs) /\ s \subseteq Native(cs)
    BY <1>1
  <2>2. Cardinality(in) \in Nat /\ Cardinality(s) \in Nat
    BY <2>1, CoinsOf
  <2>3. Tokens(in \cup s) = in
    BY <2>1, CoinsOf
  <2>4. Cardinality(in \cup s) = Cardinality(in) + Cardinality(s)
    BY <2>1, CoinsOf
  <2> QED BY <2>2, <2>3, <2>4
<1>3. /\ t.n = 0 /\ t.kind = q.kind /\ t.chain = q.chain /\ t.ins = in \cup s
      /\ t.outs = outs \cup extra /\ IsTx(t)
  BY <1>1, <1>2 DEF Transaction, IsTx
<1>4. OutputsOf(q, outs)
  BY <1>1, OutputsAre
<1> HIDE DEF outs, t
<1>5. /\ Money(extra) /\ Placed(extra) /\ Value(extra) = p.change
      /\ OutSize(extra) = IF p.change > 0 THEN 2 ELSE 0
      /\ \A o \in extra : o.pos = 0
  <2>1. CASE p.change > 0
    <3> DEFINE o == Coin(q.chain, 0, <<1, idx>>, "native", p.change, 0, 0)
    <3>1. extra = {o}
      BY <2>1
    <3>2. IsCoin(o) /\ o.pos = 0 /\ o.kind = "native" /\ o.value = p.change
      BY DEF Coin, IsCoin
    <3> HIDE DEF o, extra
    <3>3. Money({o}) /\ Placed({o}) /\ Value({o}) = o.value /\ Cardinality({o}) = 1
      BY <1>1, <3>2, OneOutput DEF Extra
    <3>4. OutSize({o}) = 2 * Cardinality({o})
      BY <3>2, <3>3, OutSizeFacts
    <3> QED BY <2>1, <3>1, <3>2, <3>3, <3>4
  <2>2. CASE ~ (p.change > 0)
    <3>1. extra = {} /\ p.change = 0
      BY <1>1, <2>2
    <3> HIDE DEF extra
    <3> QED BY <2>2, <3>1, NoOutput
  <2> QED BY <2>1, <2>2
<1> HIDE DEF extra
<1>6. outs \cap extra = {} /\ Money(outs) /\ Placed(outs) /\ \A o \in outs : o.pos \in Nat \ {0}
  BY <1>4, <1>5 DEF OutputsOf
<1>7. Money(t.outs) /\ OutSize(t.outs) = OutSize(outs) + OutSize(extra)
  <2>1. Money(outs \cup extra) /\ OutSize(outs \cup extra) = OutSize(outs) + OutSize(extra)
    BY <1>5, <1>6, OutSizeUnion
  <2> QED BY <1>3, <2>1
<1>8. Placed(t.outs)
  BY <1>3, <1>5, <1>6 DEF Placed
<1>9. Value(t.outs) = Value(outs) + Value(extra)
  <2>1. IsFiniteSet(outs) /\ IsFiniteSet(extra) /\ \A c \in outs \cup extra : c.value \in Nat
    BY <1>5, <1>6 DEF Money
  <2> QED BY <1>3, <1>6, <2>1, ValueUnion
<1>10. RequiredFee(t) = 2 * Cardinality(t.ins) + OutSize(t.outs)
  BY <1>7, RequiredFeeIs DEF Money
<1>11. RequiredFee(t) = Size(Cardinality(in) + Cardinality(s), q, in, p.change)
  <2>1. OutSize(outs) \in Nat
    BY <1>4 DEF OutputsOf
  <2> QED BY <1>2, <1>3, <1>5, <1>7, <1>10, <2>1 DEF Size, outs
<1>12. Value(t.outs) = Paid(q) + p.change
  BY <1>4, <1>5, <1>9 DEF OutputsOf
<1> QED BY <1>3, <1>7, <1>8, <1>11, <1>12 DEF t
\* The fees of what can be made of so many coins fit a word.
Fits(q, cs) == EstimateTxFee(Cardinality(cs), Len(q.pay) + 6) < Word

LEMMA WrapLess ==
  ASSUME NEW n \in Nat
  PROVE  Wrap(n) \in Nat /\ Wrap(n) <= n
<1>1. Word \in Nat /\ Word > 0
  BY BoundAssumption
<1>2. n \div Word \in Nat /\ n = Word * (n \div Word) + (n % Word) /\ n % Word \in 0..Word - 1
  BY <1>1
<1> DEFINE d == n \div Word
           m == n % Word
<1>3. d \in Nat /\ m \in 0..Word - 1 /\ n = Word * d + m
  BY <1>2
<1> HIDE DEF d, m
<1>4. Word * d \in Nat
  BY <1>1, <1>3
<1> QED BY <1>1, <1>3, <1>4 DEF Wrap, m

LEMMA PaysAre ==
  ASSUME NEW q, Asks(q)
  PROVE  /\ IsFiniteSet(DOMAIN q.pay)
         /\ \A i \in DOMAIN q.pay : q.pay[i] \in Nat
         /\ Paid(q) \in Nat /\ Len(q.pay) \in Nat
<1>1. q.pay \in Seq(1..Word - 1) /\ Word \in Nat
  BY BoundAssumption DEF Asks
<1> DEFINE S == DOMAIN q.pay
           f == [i \in S |-> q.pay[i]]
<1>2. S = 1..Len(q.pay) /\ Len(q.pay) \in Nat /\ \A i \in S : q.pay[i] \in Nat
  BY <1>1
<1>3. IsFiniteSet(S) /\ \A i \in S : f[i] \in Nat
  BY <1>2, FS_Interval
<1>4. Paid(q) = 0 \/ Paid(q) = Total(f, S)
  BY DEF Paid
<1> HIDE DEF f
<1>5. Total(f, S) \in Nat
  <2> HIDE DEF S
  <2> QED BY <1>3, TotalAdd
<1> QED BY <1>2, <1>3, <1>4, <1>5

\* The change of a selection, whichever sums wrapped round.
LEMMA ChangeOwed ==
  ASSUME NEW q, Asks(q), NEW v \in Nat, NEW fee \in Nat
  PROVE  /\ Due(q) \in Nat /\ Due(q) <= Paid(q)
         /\ Wrap(v - Due(q) - fee) \in Nat
         /\ \E k \in Int : Wrap(v - Due(q) - fee) = ((v - Paid(q)) - fee) + Word * k
<1>1. Word \in Nat /\ Word > 0
  BY BoundAssumption
<1>2. Paid(q) \in Nat
  BY PaysAre
<1>3. Due(q) = IF q.kind \in {"mint", "token", "consolidate", "unstake"} THEN 0
               ELSE Wrap(Paid(q))
  BY PaysAre, DueIs
<1>4. Due(q) \in Nat /\ Due(q) <= Paid(q) /\ \E k \in Int : Due(q) = Paid(q) + Word * k
  <2>1. CASE q.kind \in {"mint", "token", "consolidate", "unstake"}
    <3>1. Paid(q) = 0 /\ Due(q) = 0
      BY <1>3, <2>1 DEF Paid
    <3>2. 0 = 0 + Word * 0 /\ 0 \in Int
      BY <1>1
    <3> QED BY <3>1, <3>2
  <2>2. CASE q.kind \notin {"mint", "token", "consolidate", "unstake"}
    <3>1. Due(q) = Wrap(Paid(q))
      BY <1>3, <2>2
    <3>2. \E k \in Int : Wrap(Paid(q)) = Paid(q) + Word * k
      BY <1>2, Modulo
    <3>3. Wrap(Paid(q)) \in Nat /\ Wrap(Paid(q)) <= Paid(q)
      BY <1>2, WrapLess
    <3> QED BY <3>1, <3>2, <3>3
  <2> QED BY <2>1, <2>2
<1>5. PICK k \in Int : Due(q) = Paid(q) + Word * k
  BY <1>4
<1> DEFINE n == v - Due(q) - fee
<1>6. n \in Int /\ n = v - Due(q) - fee
  BY <1>4
<1> HIDE DEF n
<1>7. PICK l \in Int : Wrap(n) \in 0..Word - 1 /\ Wrap(n) = n + Word * l
  BY <1>6, Modulo
<1>8. Wrap(n) = ((v - Paid(q)) - fee) + Word * (l - k)
  <2> DEFINE a == Word * k
             b == Word * l
  <2>1. Word * (l - k) = b - a /\ a \in Int /\ b \in Int
    BY <1>1, <1>5, <1>7
  <2>2. Due(q) = Paid(q) + a /\ Wrap(n) = n + b
    BY <1>5, <1>7
  <2> HIDE DEF a, b
  <2> QED BY <1>2, <1>4, <1>6, <2>1, <2>2
<1>9. l - k \in Int /\ Wrap(n) \in Nat
  BY <1>1, <1>5, <1>7
<1> QED BY <1>4, <1>8, <1>9 DEF n

\* The first estimate of a fee.
LEMMA BaseIs ==
  ASSUME NEW q, Asks(q), NEW cs, Fits(q, cs), Cardinality(cs) \in Nat,
         NEW in, ForToken(q, in), Cardinality(in) \in Nat,
         NEW n \in Nat, Cardinality(in) + n <= Cardinality(cs)
  PROVE  /\ Base(q, in, n) \in 0..Word - 1
         /\ q.kind # "mint" =>
              Base(q, in, n) = 2 * (Cardinality(in) + n) + 2 * Cardinality(Outputs(q, in)) + 2
         /\ q.kind = "mint" =>
              \/ Base(q, in, n) = Burn
              \/ Base(q, in, n) = 2 * (Cardinality(in) + n) + 4
<1>1. Word \in Nat /\ Burn \in Nat /\ Burn < Word
  BY BoundAssumption DEF Fits
<1>2. /\ Cardinality(Outputs(q, in)) \in Nat /\ Len(q.pay) \in Nat
      /\ Cardinality(Outputs(q, in)) <= Len(q.pay) + 1
      /\ q.kind = "mint" => Cardinality(Outputs(q, in)) = 1
  <2>1. OutputsOf(q, Outputs(q, in))
    BY OutputsAre
  <2> QED BY <2>1 DEF OutputsOf
<1>3. 2 * Cardinality(cs) + 2 * (Len(q.pay) + 6) < Word
  BY DEF Fits, EstimateTxFee
<1> DEFINE a == Cardinality(in)
           o == Cardinality(Outputs(q, in))
           m == Cardinality(cs)
           l == Len(q.pay)
           rate == 2 * (n + a) + 2 * (o + 1)
<1>4. Base(q, in, n) = IF q.kind = "mint" THEN MaxOf(Burn, rate) ELSE rate
  BY DEF Base, EstimateTxFee
<1>5. rate \in Nat /\ rate < Word /\ rate = 2 * (a + n) + 2 * o + 2
  <2> HIDE DEF a, o, m, l
  <2>1. {a, o, m, l} \subseteq Nat /\ o <= l + 1 /\ a + n <= m /\ 2 * m + 2 * (l + 6) < Word
    BY <1>2, <1>3 DEF a, o, m, l
  <2> QED BY <1>1, <2>1
<1>6. q.kind = "mint" => rate = 2 * (a + n) + 4
  BY <1>2, <1>5
<1> HIDE DEF rate
<1>7. MaxOf(Burn, rate) \in {Burn, rate}
  BY DEF MaxOf
<1> QED BY <1>1, <1>4, <1>5, <1>6, <1>7
\* More coins do not make an estimate lower.
LEMMA BaseGrows ==
  ASSUME NEW q, q.kind # "mint", NEW in, Cardinality(in) \in Nat,
         Cardinality(Outputs(q, in)) \in Nat, NEW n \in Nat, NEW m \in Nat, n <= m
  PROVE  Base(q, in, n) <= Base(q, in, m)
BY DEF Base, EstimateTxFee

\* The native coins of a plan, and the target they were chosen for.
Targeted(q, cs, p, in, s, t) ==
  /\ p.fee = Base(q, in, Cardinality(s))
  /\ t \in Nat /\ s \in SelectCoins(Native(cs), t)
  /\ q.kind # "mint" => t <= Due(q) + p.fee

LEMMA FundedIs ==
  ASSUME NEW q, Asks(q), NEW cs, Money(cs), Fits(q, cs),
         NEW in, in \subseteq Tokens(cs), ForToken(q, in), q.kind # "token" => in = {},
         NEW p \in Funded(q, cs, in)
  PROVE  \E s, t : Choice(q, cs, p, in, s) /\ Targeted(q, cs, p, in, s, t)
<1> DEFINE N == Native(cs)
           B(s) == Base(q, in, Cardinality(s))
           t1 == Wrap(Due(q) + Base(q, in, 1))
           t2(f) == Wrap(Due(q) + B(f))
           plan(s) == [ins |-> in \cup s, fee |-> B(s), change |-> Wrap(Value(s) - Due(q) - B(s))]
<1>1. PICK f \in SelectCoins(N, t1) :
        \E s \in IF Value(f) < t2(f) THEN SelectCoins(N, t2(f)) ELSE {f} : p = plan(s)
  BY DEF Funded
<1>2. PICK s \in IF Value(f) < t2(f) THEN SelectCoins(N, t2(f)) ELSE {f} : p = plan(s)
  BY <1>1
<1>3. Due(q) \in Nat
  BY ChangeOwed
<1>4. IsFiniteSet(N) /\ \A c \in N : c.value \in Nat
  <2>1. IsFiniteSet(cs) /\ N \subseteq cs /\ \A c \in cs : c.value \in Nat
    BY DEF Money, Native
  <2> QED BY <2>1, FS_Subset
<1>5. Cardinality(in) \in Nat /\ Cardinality(cs) \in Nat
  <2>1. {} \subseteq Native(cs)
    OBVIOUS
  <2>2. Cardinality(in) \in Nat
    BY <2>1, CoinsOf
  <2>3. Cardinality(cs) \in Nat
    BY <2>1, CoinsOf
  <2> QED BY <2>2, <2>3
<1>6. ASSUME NEW u, u \subseteq N
      PROVE  /\ IsFiniteSet(u) /\ Cardinality(u) \in Nat /\ Value(u) \in Nat
             /\ B(u) \in 0..Word - 1
  <2> HIDE DEF B
  <2>1. u \subseteq Native(cs)
    BY <1>6
  <2>2. IsFiniteSet(u) /\ Cardinality(u) \in Nat
    BY <2>1, CoinsOf
  <2>3. Value(u) \in Nat
    BY <2>1, CoinsOf
  <2>4. Cardinality(in) + Cardinality(u) <= Cardinality(cs)
    BY <2>1, CoinsOf
  <2>5. B(u) \in 0..Word - 1
    BY <1>5, <2>2, <2>4, BaseIs DEF B
  <2> QED BY <2>2, <2>3, <2>5
<1>7. Word \in Nat /\ Word > 0
  BY BoundAssumption
<1>8. Cardinality(Outputs(q, in)) \in Nat
  <2>1. OutputsOf(q, Outputs(q, in))
    BY OutputsAre
  <2> QED BY <2>1 DEF OutputsOf
<1> HIDE DEF N
<1>9. Base(q, in, 1) \in Nat
  <2> DEFINE a == Cardinality(in)
             o == Cardinality(Outputs(q, in))
             rate == 2 * (1 + a) + 2 * (o + 1)
  <2>1. a \in Nat /\ o \in Nat /\ Burn \in Nat
    BY <1>5, <1>8, BoundAssumption
  <2>2. Base(q, in, 1) = IF q.kind = "mint" THEN MaxOf(Burn, rate) ELSE rate
    BY DEF Base, EstimateTxFee
  <2> HIDE DEF a, o
  <2>3. rate \in Nat
    BY <2>1
  <2> HIDE DEF rate
  <2> QED BY <2>1, <2>2, <2>3 DEF MaxOf
<1>10. t1 \in Nat /\ t1 <= Due(q) + Base(q, in, 1)
  BY <1>3, <1>9, WrapLess
<1>11. /\ f \subseteq N /\ IsFiniteSet(f) /\ f # {} /\ Value(f) >= t1
       /\ Cardinality(f) \in Nat /\ Value(f) \in Nat /\ B(f) \in Nat
  <2> HIDE DEF t1, B
  <2>1. f \subseteq N /\ IsFiniteSet(f) /\ f # {} /\ Value(f) >= t1
    BY <1>1, <1>4, <1>10, Selected
  <2> QED BY <1>6, <1>7, <2>1
<1>12. t2(f) \in Nat /\ t2(f) <= Due(q) + B(f)
  BY <1>3, <1>11, WrapLess
<1>13. Cardinality(f) >= 1
  BY <1>11, FS_EmptySet
<1>14. \E t : /\ t \in Nat /\ s \in SelectCoins(N, t)
              /\ q.kind # "mint" => t <= Due(q) + B(s)
  <2>1. CASE ~ (Value(f) < t2(f))
    <3>1. s = f
      BY <1>2, <2>1
    <3>2. q.kind # "mint" => Base(q, in, 1) <= B(f)
      BY <1>5, <1>8, <1>11, <1>13, BaseGrows
    <3>3. q.kind # "mint" => t1 <= Due(q) + B(s)
      <4> HIDE DEF B, t1
      <4> QED BY <1>3, <1>9, <1>10, <1>11, <3>1, <3>2
    <3> QED BY <1>1, <1>10, <3>1, <3>3
  <2>2. CASE Value(f) < t2(f)
    <3> HIDE DEF t1, t2, B
    <3>1. s \in SelectCoins(N, t2(f))
      BY <1>2, <2>2
    <3>2. s \subseteq N /\ Value(s) >= t2(f)
      BY <1>4, <1>12, <3>1, Selected
    <3>3. Value(s) \in Nat /\ Cardinality(s) \in Nat /\ B(s) \in Nat
      BY <1>6, <1>7, <3>2
    <3>4. s \in SUBSET N /\ Value(s) >= t1
      BY <1>10, <1>11, <1>12, <2>2, <3>2, <3>3
    <3>5. Cardinality(f) <= Cardinality(s)
      BY <1>1, <1>4, <1>10, <3>4, SelectsMore
    <3>6. q.kind # "mint" => B(f) <= B(s)
      BY <1>5, <1>8, <1>11, <3>3, <3>5, BaseGrows DEF B
    <3>7. q.kind # "mint" => t2(f) <= Due(q) + B(s)
      BY <1>3, <1>11, <1>12, <3>3, <3>6
    <3> QED BY <1>12, <3>1, <3>7
  <2> QED BY <2>1, <2>2
<1>15. PICK t : /\ t \in Nat /\ s \in SelectCoins(N, t)
                /\ q.kind # "mint" => t <= Due(q) + B(s)
  BY <1>14
<1>16. s \subseteq N /\ Value(s) \in Nat /\ B(s) \in 0..Word - 1
  <2> HIDE DEF B
  <2>1. s \subseteq N
    BY <1>4, <1>15, Selected
  <2> QED BY <1>6, <2>1
<1>17. /\ p = [ins |-> p.ins, fee |-> p.fee, change |-> p.change]
       /\ p.ins = in \cup s /\ p.fee = B(s) /\ p.change = Wrap(Value(s) - Due(q) - B(s))
  <2> HIDE DEF B
  <2> QED BY <1>2
<1>18. /\ p.change \in Nat
       /\ \E k \in Int : p.change = ((Value(s) - Paid(q)) - p.fee) + Word * k
  <2> HIDE DEF B
  <2>1. Value(s) \in Nat /\ B(s) \in Nat
    BY <1>7, <1>16
  <2>2. /\ Wrap(Value(s) - Due(q) - B(s)) \in Nat
        /\ \E k \in Int : Wrap(Value(s) - Due(q) - B(s)) = ((Value(s) - Paid(q)) - B(s)) + Word * k
    BY <2>1, ChangeOwed
  <2> QED BY <1>17, <2>2
<1>19. Choice(q, cs, p, in, s)
  <2> HIDE DEF B
  <2> QED BY <1>16, <1>17, <1>18 DEF Choice, N
<1>20. Targeted(q, cs, p, in, s, t)
  BY <1>15, <1>17 DEF Targeted, N
<1> QED BY <1>19, <1>20
LEMMA MergedIs ==
  ASSUME NEW q, Asks(q), q.kind = "consolidate", NEW cs, Money(cs), Fits(q, cs),
         NEW p \in Merged(q, cs)
  PROVE  /\ Choice(q, cs, p, {}, p.ins)
         /\ p.fee = 2 * Cardinality(p.ins) + 2
<1>1. PICK s \in SUBSET Native(cs) :
        /\ p = [ins |-> s, fee |-> EstimateTxFee(Cardinality(s), 1),
                change |-> Value(s) - EstimateTxFee(Cardinality(s), 1)]
        /\ Value(s) > EstimateTxFee(Cardinality(s), 1)
  BY DEF Merged
<1>2. {} \subseteq Tokens(cs) /\ s \subseteq Native(cs) /\ {} \cup s = s
  OBVIOUS
<1>3. Cardinality(s) \in Nat /\ Cardinality(cs) \in Nat /\ Value(s) \in Nat
  <2>1. Cardinality(s) \in Nat /\ Cardinality(cs) \in Nat
    BY <1>2, CoinsOf
  <2>2. Value(s) \in Nat
    BY <1>2, CoinsOf
  <2> QED BY <2>1, <2>2
<1>4. Cardinality(s) <= Cardinality(cs)
  <2>1. IsFiniteSet(cs) /\ s \subseteq cs
    BY DEF Money, Native
  <2> QED BY <2>1, FS_Subset
<1> DEFINE n == Cardinality(s)
           v == Value(s)
<1>5. EstimateTxFee(n, 1) = 2 * n + 2
  BY <1>3 DEF EstimateTxFee
<1>6. 2 * n + 2 \in 0..Word - 1
  <2> DEFINE m == Cardinality(cs)
             l == Len(q.pay)
  <2>1. m \in Nat /\ l \in Nat /\ n \in Nat /\ n <= m /\ 2 * m + 2 * (l + 6) < Word /\ Word \in Nat
    BY <1>3, <1>4, PaysAre, BoundAssumption DEF Fits, EstimateTxFee
  <2> HIDE DEF n, m, l
  <2> QED BY <2>1
<1>7. p.ins = s /\ p.fee = 2 * n + 2 /\ p.change = v - (2 * n + 2) /\ v > 2 * n + 2
      /\ p = [ins |-> p.ins, fee |-> p.fee, change |-> p.change]
  BY <1>1, <1>5
<1> HIDE DEF n, v
<1>8. n \in Nat /\ v \in Nat
  BY <1>3 DEF n, v
<1>9. Paid(q) = 0 /\ Word \in Nat
  BY BoundAssumption DEF Paid
<1>10. p.change = ((v - Paid(q)) - p.fee) + Word * 0 /\ 0 \in Int /\ p.change \in Nat
  BY <1>7, <1>8, <1>9
<1> QED BY <1>2, <1>6, <1>7, <1>10 DEF Choice, ForToken, v, n

\* Every plan is a choice of coins, and its fee the estimate for it.
LEMMA PlanIs ==
  ASSUME NEW q, Asks(q), NEW cs, Money(cs), Fits(q, cs), NEW p \in Plans(q, cs)
  PROVE  \E in, s : /\ Choice(q, cs, p, in, s)
                    /\ q.kind = "consolidate" => in = {} /\ p.fee = 2 * Cardinality(s) + 2
                    /\ q.kind # "consolidate" => \E t : Targeted(q, cs, p, in, s, t)
<1>1. CASE q.kind = "consolidate"
  <2>1. p \in Merged(q, cs)
    BY <1>1 DEF Plans
  <2> QED BY <1>1, <2>1, MergedIs
<1>2. CASE q.kind # "consolidate"
  <2>1. PICK in \in TokenInputs(q, cs) : p \in Funded(q, cs, in)
    BY <1>2 DEF Plans
  <2>2. in \subseteq Tokens(cs) /\ ForToken(q, in) /\ (q.kind # "token" => in = {})
    <3>1. CASE q.kind # "token"
      BY <3>1 DEF TokenInputs, ForToken
    <3>2. CASE q.kind = "token"
      <4>1. PICK id \in TokenIDs(cs) :
              in \subseteq OfToken(cs, id) /\ \E c \in in : Amount(in \ {c}) < q.pay[1]
        BY <3>2 DEF TokenInputs
      <4>2. in \subseteq Tokens(cs) /\ (\A c \in in : c.id = id /\ c.kind \in {"token", "mint"})
            /\ \E c \in in : TRUE
        BY <4>1 DEF OfToken, Tokens
      <4>3. TokenIDs(in) = {id}
        BY <4>2 DEF TokenIDs, Tokens
      <4> QED BY <3>2, <4>2, <4>3 DEF ForToken
    <3> QED BY <3>1, <3>2
  <2>3. \E s, t : Choice(q, cs, p, in, s) /\ Targeted(q, cs, p, in, s, t)
    BY <2>1, <2>2, FundedIs
  <2> QED BY <1>2, <2>3
<1> QED BY <1>1, <1>2

-----------------------------------------------------------------------------
(* What a transaction burns when the pool takes it.                          *)

\* What the pool asks of a transaction of the wallet, and what it burns then.
Taken(t) == Value(t.ins) < Word /\ Value(t.ins) - Value(t.outs) >= RequiredFee(t)
PaysFee(t) ==
  LET fee == Value(t.ins) - Value(t.outs) IN
  \/ fee \in RequiredFee(t)..RequiredFee(t) + 2
  \/ t.kind = "mint" /\ fee = Burn

\* However the sums wrapped round: it burns the fee of the plan.
LEMMA Burns ==
  ASSUME NEW q, Asks(q), NEW cs, Money(cs), NEW p, NEW in, NEW s, Choice(q, cs, p, in, s),
         NEW idx, Taken(Transaction(q, p, idx))
  PROVE  LET t == Transaction(q, p, idx) IN
         /\ Value(t.ins) - Value(t.outs) = p.fee
         /\ p.fee >= Size(Cardinality(in) + Cardinality(s), q, in, p.change)
         /\ Value(s) >= Paid(q) + p.fee
<1> DEFINE t == Transaction(q, p, idx)
           size == Size(Cardinality(in) + Cardinality(s), q, in, p.change)
<1>1. /\ t.ins = in \cup s
      /\ Value(t.outs) = Paid(q) + p.change
      /\ RequiredFee(t) = size
  BY TransactionIs
<1>2. /\ in \subseteq Tokens(cs) /\ s \subseteq Native(cs) /\ ForToken(q, in)
      /\ p.change \in Nat /\ p.fee \in 0..Word - 1
      /\ \E k \in Int : p.change = ((Value(s) - Paid(q)) - p.fee) + Word * k
  BY DEF Choice
<1>3. Value(in \cup s) = Value(s) /\ Value(s) \in Nat
  <2>1. in \subseteq Tokens(cs) /\ s \subseteq Native(cs)
    BY <1>2
  <2>2. Value(in \cup s) = Value(s)
    BY <2>1, CoinsOf
  <2>3. Value(s) \in Nat
    BY <2>1, CoinsOf
  <2> QED BY <2>2, <2>3
<1>4. size \in Nat
  <2>1. OutputsOf(q, Outputs(q, in))
    BY <1>2, OutputsAre
  <2>2. OutSize(Outputs(q, in)) \in Nat
    BY <2>1 DEF OutputsOf
  <2>3. Cardinality(in) \in Nat /\ Cardinality(s) \in Nat
    BY <1>2, CoinsOf
  <2> QED BY <2>2, <2>3 DEF Size
<1>5. Paid(q) \in Nat /\ Word \in Nat /\ Word > 0
  BY PaysAre, BoundAssumption
<1> DEFINE burn == Value(t.ins) - Value(t.outs)
<1>6. Value(t.ins) < Word /\ burn >= RequiredFee(t)
  BY DEF Taken
<1> HIDE DEF t, size
<1> DEFINE v == Value(s)
           d == Paid(q)
<1>7. /\ v \in Nat /\ v < Word /\ d \in Nat /\ p.change \in Nat
      /\ burn = v - (d + p.change) /\ burn >= size
  BY <1>1, <1>2, <1>3, <1>5, <1>6
<1>8. PICK k \in Int : p.change = ((v - d) - p.fee) + Word * k
  BY <1>2
<1> HIDE DEF v, d, burn
<1>9. burn \in 0..Word - 1
  BY <1>4, <1>5, <1>7
<1>10. p.fee = burn + Word * k
  <2>1. Word * k \in Int /\ p.fee \in Int
    BY <1>2, <1>5, <1>8
  <2> QED BY <1>7, <1>8, <2>1
<1>11. p.fee = burn
  BY <1>2, <1>9, <1>10, SameWord
<1>12. v >= d + p.fee
  BY <1>2, <1>5, <1>7, <1>11
<1> QED BY <1>7, <1>11, <1>12 DEF burn, t, size, v, d
LEMMA SizeFits ==
  ASSUME NEW q, Asks(q), NEW cs, Money(cs), Fits(q, cs),
         NEW in, in \subseteq Tokens(cs), ForToken(q, in), NEW s, s \subseteq Native(cs),
         NEW change
  PROVE  /\ Size(Cardinality(in) + Cardinality(s), q, in, change) \in 0..Word - 1
         /\ Cardinality(in) \in Nat /\ Cardinality(s) \in Nat
         /\ OutSize(Outputs(q, in)) \in Nat
<1> DEFINE a == Cardinality(in)
           b == Cardinality(s)
           m == Cardinality(cs)
           l == Len(q.pay)
           z == OutSize(Outputs(q, in))
<1>1. a \in Nat /\ b \in Nat /\ m \in Nat /\ a + b <= m
  BY CoinsOf
<1>2. z \in Nat /\ z <= 2 * l + 8 /\ l \in Nat
  <2>1. OutputsOf(q, Outputs(q, in))
    BY OutputsAre
  <2> QED BY <2>1 DEF OutputsOf
<1>3. 2 * m + 2 * (l + 6) < Word /\ Word \in Nat
  BY BoundAssumption DEF Fits, EstimateTxFee
<1>4. Size(a + b, q, in, change) = 2 * (a + b) + z + (IF change > 0 THEN 2 ELSE 0)
  BY DEF Size
<1> HIDE DEF a, b, m, l, z
<1>5. Size(a + b, q, in, change) \in 0..Word - 1
  <2>1. CASE change > 0
    BY <1>1, <1>2, <1>3, <1>4, <2>1
  <2>2. CASE ~ (change > 0)
    BY <1>1, <1>2, <1>3, <1>4, <2>2
  <2> QED BY <2>1, <2>2
<1> QED BY <1>1, <1>2, <1>5 DEF a, b, z

\* A fee of at most one change output more than what the transaction costs.
LEMMA PaysWhat ==
  ASSUME NEW q, Asks(q), NEW cs, Money(cs), Fits(q, cs),
         NEW p, NEW in, NEW s, Choice(q, cs, p, in, s), NEW idx,
         Taken(Transaction(q, p, idx)),
         \/ p.fee <= Size(Cardinality(in) + Cardinality(s), q, in, p.change) + 2
         \/ q.kind = "mint" /\ p.fee = Burn
  PROVE  PaysFee(Transaction(q, p, idx))
<1> DEFINE t == Transaction(q, p, idx)
           size == Size(Cardinality(in) + Cardinality(s), q, in, p.change)
<1>1. t.kind = q.kind /\ RequiredFee(t) = size
  BY TransactionIs
<1>2. Value(t.ins) - Value(t.outs) = p.fee /\ p.fee >= size
  BY Burns
<1>3. size \in Nat /\ p.fee \in Nat
  <2>1. /\ in \subseteq Tokens(cs) /\ s \subseteq Native(cs) /\ ForToken(q, in)
        /\ p.fee \in 0..Word - 1 /\ Word \in Nat
    BY BoundAssumption DEF Choice
  <2>2. size \in 0..Word - 1
    BY <2>1, SizeFits
  <2> QED BY <2>1, <2>2
<1> HIDE DEF t, size
<1>4. PaysFee(t)
  <2>1. CASE p.fee <= size + 2
    <3>1. p.fee \in size..size + 2
      BY <1>2, <1>3, <2>1
    <3> QED BY <1>1, <1>2, <3>1 DEF PaysFee
  <2>2. CASE q.kind = "mint" /\ p.fee = Burn
    BY <1>1, <1>2, <2>2 DEF PaysFee
  <2> QED BY <2>1, <2>2 DEF size
<1> QED BY <1>4 DEF t

\* The plan as it was.
LEMMA AsPlanned ==
  ASSUME NEW q, Asks(q), NEW cs, Money(cs), Fits(q, cs),
         NEW p, NEW in, NEW s, Choice(q, cs, p, in, s), NEW idx,
         q.kind = "consolidate" => in = {} /\ p.fee = 2 * Cardinality(s) + 2,
         q.kind # "consolidate" => \E t : Targeted(q, cs, p, in, s, t),
         Taken(Transaction(q, p, idx))
  PROVE  PaysFee(Transaction(q, p, idx))
<1>1. /\ in \subseteq Tokens(cs) /\ s \subseteq Native(cs) /\ ForToken(q, in)
      /\ p.fee \in 0..Word - 1 /\ Word \in Nat
  BY BoundAssumption DEF Choice
<1> DEFINE a == Cardinality(in)
           b == Cardinality(s)
           outs == Outputs(q, in)
           z == OutSize(outs)
           n == Cardinality(outs)
           size == Size(a + b, q, in, p.change)
<1>2. a \in Nat /\ b \in Nat /\ z \in Nat /\ size \in 0..Word - 1
  BY <1>1, SizeFits
<1>3. OutputsOf(q, outs)
  BY <1>1, OutputsAre
<1>4. n \in Nat /\ z >= 2 * n /\ (q.kind = "mint" => z = 5)
  BY <1>3 DEF OutputsOf
<1>5. size = 2 * (a + b) + z + (IF p.change > 0 THEN 2 ELSE 0)
  BY DEF Size
<1>6. p.fee >= size
  BY Burns
<1>7. \/ p.fee <= size + 2
      \/ q.kind = "mint" /\ p.fee = Burn
  <2>1. CASE q.kind = "consolidate"
    <3>1. a = 0 /\ p.fee = 2 * b + 2
      BY <2>1, FS_EmptySet
    <3> HIDE DEF a, b, z, size
    <3>2. size >= 2 * b
      BY <1>2, <1>5, <3>1
    <3> QED BY <1>2, <3>1, <3>2
  <2>2. CASE q.kind # "consolidate"
    <3>1. p.fee = Base(q, in, b)
      BY <2>2 DEF Targeted
    <3>2. /\ q.kind # "mint" => p.fee = 2 * (a + b) + 2 * n + 2
          /\ q.kind = "mint" => p.fee = Burn \/ p.fee = 2 * (a + b) + 4
      <4>1. Cardinality(cs) \in Nat /\ a + b <= Cardinality(cs)
        <5>1. in \subseteq Tokens(cs) /\ s \subseteq Native(cs)
          BY <1>1
        <5> QED BY <5>1, CoinsOf
      <4> QED BY <1>1, <1>2, <3>1, <4>1, BaseIs
    <3> HIDE DEF a, b, z, n, size
    <3>3. size >= 2 * (a + b) + z
      <4>1. CASE p.change > 0
        BY <1>2, <1>5, <4>1
      <4>2. CASE ~ (p.change > 0)
        BY <1>2, <1>5, <4>2
      <4> QED BY <4>1, <4>2
    <3>4. CASE q.kind # "mint"
      BY <1>2, <1>4, <3>2, <3>3, <3>4
    <3>5. CASE q.kind = "mint"
      BY <1>2, <1>4, <1>6, <3>2, <3>3, <3>5
    <3> QED BY <3>4, <3>5
  <2> QED BY <2>1, <2>2
<1> HIDE DEF size
<1> QED BY <1>7, PaysWhat DEF size
\* The change lowered by what the estimate was short of.
LEMMA Lowered ==
  ASSUME NEW q, Asks(q), NEW cs, Money(cs), Fits(q, cs),
         NEW plan, NEW in, NEW s, Choice(q, cs, plan, in, s),
         NEW idx, NEW fee, fee = RequiredFee(Transaction(q, plan, idx)),
         ~ (plan.fee >= fee), plan.change >= fee - plan.fee,
         NEW p, p = [ins |-> plan.ins, fee |-> fee, change |-> plan.change - (fee - plan.fee)]
  PROVE  /\ Choice(q, cs, p, in, s) /\ plan.change > 0
         /\ Taken(Transaction(q, p, idx)) => PaysFee(Transaction(q, p, idx))
<1>1. /\ plan = [ins |-> plan.ins, fee |-> plan.fee, change |-> plan.change]
      /\ plan.ins = in \cup s /\ in \subseteq Tokens(cs) /\ s \subseteq Native(cs)
      /\ ForToken(q, in) /\ (q.kind # "token" => in = {})
      /\ plan.change \in Nat /\ plan.fee \in 0..Word - 1 /\ Word \in Nat
  BY BoundAssumption DEF Choice
<1>2. PICK k \in Int : plan.change = ((Value(s) - Paid(q)) - plan.fee) + Word * k
  BY DEF Choice
<1> DEFINE a == Cardinality(in)
           b == Cardinality(s)
           z == OutSize(Outputs(q, in))
<1>3. a \in Nat /\ b \in Nat /\ z \in Nat /\ Size(a + b, q, in, plan.change) \in 0..Word - 1
      /\ Size(a + b, q, in, p.change) \in 0..Word - 1
  BY <1>1, SizeFits
<1>4. fee = Size(a + b, q, in, plan.change)
  BY TransactionIs
<1>5. plan.change > 0 /\ fee \in 0..Word - 1
  BY <1>1, <1>3, <1>4
<1>6. p = [ins |-> plan.ins, fee |-> fee, change |-> plan.change - (fee - plan.fee)]
  OBVIOUS
<1>7. Choice(q, cs, p, in, s)
  <2>1. /\ p = [ins |-> p.ins, fee |-> p.fee, change |-> p.change]
        /\ p.ins = plan.ins /\ p.fee = fee /\ p.change = plan.change - (fee - plan.fee)
    BY <1>6
  <2>2. p.change \in Nat
    BY <1>1, <1>5, <2>1
  <2>3. p.change = ((Value(s) - Paid(q)) - p.fee) + Word * k
    <3>1. Value(s) \in Nat
      <4>1. in \subseteq Tokens(cs) /\ s \subseteq Native(cs)
        BY <1>1
      <4> QED BY <4>1, CoinsOf
    <3>2. Paid(q) \in Nat /\ Word * k \in Int
      BY <1>1, <1>2, PaysAre
    <3> QED BY <1>1, <1>2, <1>5, <2>1, <3>1, <3>2
  <2> QED BY <1>1, <1>2, <1>5, <2>1, <2>2, <2>3 DEF Choice
<1>8. p.fee = fee
  BY <1>6
<1>9. fee <= Size(a + b, q, in, p.change) + 2
  <2> DEFINE c == p.change
             d == plan.change
  <2>1. Size(a + b, q, in, c) = 2 * (a + b) + z + (IF c > 0 THEN 2 ELSE 0)
    BY DEF Size
  <2>2. Size(a + b, q, in, d) = 2 * (a + b) + z + (IF d > 0 THEN 2 ELSE 0)
    BY DEF Size
  <2> HIDE DEF a, b, z, c, d
  <2>3. Size(a + b, q, in, c) >= 2 * (a + b) + z
    BY <1>3, <2>1
  <2>4. Size(a + b, q, in, d) <= 2 * (a + b) + z + 2
    BY <1>3, <2>2
  <2>5. Size(a + b, q, in, d) <= Size(a + b, q, in, c) + 2
    BY <1>3, <2>1, <2>2, <2>3, <2>4
  <2> QED BY <1>4, <2>5 DEF c, d
<1>10. Taken(Transaction(q, p, idx)) => PaysFee(Transaction(q, p, idx))
  BY <1>7, <1>8, <1>9, PaysWhat
<1> QED BY <1>5, <1>7, <1>10

\* The coins chosen again: no fewer than before, or the pool refuses.
LEMMA Reselected ==
  ASSUME NEW q, Asks(q), q.kind # "mint", NEW cs, Money(cs), Fits(q, cs),
         NEW plan, NEW in, NEW s, Choice(q, cs, plan, in, s),
         NEW t, Targeted(q, cs, plan, in, s, t),
         NEW idx, NEW fee, fee = RequiredFee(Transaction(q, plan, idx)),
         ~ (plan.fee >= fee),
         NEW u \in SelectCoins(Native(cs), Wrap(Due(q) + fee)),
         NEW p, p = [ins |-> in \cup u, fee |-> fee, change |-> Wrap(Value(u) - Due(q) - fee)]
  PROVE  /\ Choice(q, cs, p, in, u)
         /\ Taken(Transaction(q, p, idx)) =>
              PaysFee(Transaction(q, p, idx)) /\ (p.change > 0 => plan.change > 0)
<1>1. /\ plan.ins = in \cup s /\ in \subseteq Tokens(cs) /\ s \subseteq Native(cs)
      /\ ForToken(q, in) /\ (q.kind # "token" => in = {})
      /\ plan.change \in Nat /\ plan.fee \in 0..Word - 1 /\ Word \in Nat
  BY BoundAssumption DEF Choice
<1> DEFINE N == Native(cs)
<1>2. IsFiniteSet(N) /\ \A c \in N : c.value \in Nat
  <2>1. IsFiniteSet(cs) /\ N \subseteq cs /\ \A c \in cs : c.value \in Nat
    BY DEF Money, Native
  <2> QED BY <2>1, FS_Subset
<1> DEFINE a == Cardinality(in)
           b == Cardinality(s)
           e == Cardinality(u)
           z == OutSize(Outputs(q, in))
<1>3. a \in Nat /\ b \in Nat /\ z \in Nat /\ Size(a + b, q, in, plan.change) \in 0..Word - 1
  BY <1>1, SizeFits
<1>4. fee = Size(a + b, q, in, plan.change) /\ fee \in 0..Word - 1 /\ fee \in Nat
  <2>1. fee = Size(a + b, q, in, plan.change)
    BY TransactionIs
  <2> QED BY <1>1, <1>3, <2>1
<1>5. Due(q) \in Nat /\ Due(q) <= Paid(q) /\ Paid(q) \in Nat
  BY ChangeOwed, PaysAre
<1>6. u \subseteq N
  <2>1. Wrap(Due(q) + fee) \in Nat
    BY <1>4, <1>5, WrapLess
  <2> QED BY <1>2, <2>1, Selected
<1>7. Value(u) \in Nat /\ e \in Nat
  <2>1. in \subseteq Tokens(cs) /\ u \subseteq Native(cs)
    BY <1>1, <1>6
  <2>2. Value(u) \in Nat
    BY <2>1, CoinsOf
  <2>3. e \in Nat
    BY <2>1, CoinsOf
  <2> QED BY <2>2, <2>3
<1>8. Choice(q, cs, p, in, u)
  <2>1. /\ Wrap(Value(u) - Due(q) - fee) \in Nat
        /\ \E k \in Int : Wrap(Value(u) - Due(q) - fee) = ((Value(u) - Paid(q)) - fee) + Word * k
    BY <1>4, <1>7, ChangeOwed
  <2>2. /\ p = [ins |-> p.ins, fee |-> p.fee, change |-> p.change]
        /\ p.ins = in \cup u /\ p.fee = fee /\ p.change = Wrap(Value(u) - Due(q) - fee)
    OBVIOUS
  <2> QED BY <1>1, <1>4, <1>6, <2>1, <2>2 DEF Choice
<1> SUFFICES ASSUME Taken(Transaction(q, p, idx))
             PROVE  PaysFee(Transaction(q, p, idx)) /\ (p.change > 0 => plan.change > 0)
  BY <1>8
<1>9. p.fee = fee
  OBVIOUS
<1>10. fee >= Size(a + e, q, in, p.change) /\ Value(u) >= Paid(q) + fee
  BY <1>8, <1>9, Burns
<1>11. b <= e
  <2>1. t \in Nat /\ s \in SelectCoins(N, t) /\ t <= Due(q) + plan.fee
    BY DEF Targeted
  <2>2. Value(u) >= t
    BY <1>1, <1>4, <1>5, <1>7, <1>10, <2>1
  <2> QED BY <1>2, <1>6, <2>1, <2>2, SelectsMore
<1> DEFINE c == p.change
           d == plan.change
<1>12. /\ Size(a + b, q, in, d) = 2 * (a + b) + z + (IF d > 0 THEN 2 ELSE 0)
       /\ Size(a + e, q, in, c) = 2 * (a + e) + z + (IF c > 0 THEN 2 ELSE 0)
  BY DEF Size
<1>13. fee <= Size(a + e, q, in, c) + 2 /\ (c > 0 => d > 0)
  <2>1. /\ {a, b, e, z} \subseteq Nat /\ b <= e
        /\ fee = Size(a + b, q, in, d) /\ fee >= Size(a + e, q, in, c)
    BY <1>3, <1>4, <1>7, <1>10, <1>11
  <2> DEFINE x == IF d > 0 THEN 2 ELSE 0
             y == IF c > 0 THEN 2 ELSE 0
  <2>2. x \in {0, 2} /\ y \in {0, 2} /\ (x = 2 => d > 0) /\ (c > 0 => y = 2)
    OBVIOUS
  <2>3. fee = 2 * (a + b) + z + x /\ Size(a + e, q, in, c) = 2 * (a + e) + z + y
    BY <1>12, <2>1
  <2> HIDE DEF a, b, e, z, c, d, x, y
  <2> QED BY <2>1, <2>2, <2>3
<1>14. PaysFee(Transaction(q, p, idx))
  <2>1. p.fee <= Size(a + e, q, in, p.change) + 2
    BY <1>9, <1>13
  <2> QED BY <1>8, <2>1, PaysWhat
<1> QED BY <1>13, <1>14

\* Every transaction a handler builds, if the pool takes it, pays its fee; and
\* its change index is one that was read for it.
LEMMA BuildPays ==
  ASSUME NEW q, Asks(q), NEW cs, Money(cs), Fits(q, cs), NEW plan \in Plans(q, cs),
         NEW idx, NEW p \in Exact(q, cs, plan, idx)
  PROVE  LET t == Transaction(q, p, idx) IN
         /\ IsTx(t) /\ Money(t.outs) /\ Placed(t.outs)
         /\ Taken(t) => PaysFee(t) /\ (p.change > 0 => plan.change > 0)
<1>1. PICK in, s : /\ Choice(q, cs, plan, in, s)
                   /\ q.kind = "consolidate" => in = {} /\ plan.fee = 2 * Cardinality(s) + 2
                   /\ q.kind # "consolidate" => \E t : Targeted(q, cs, plan, in, s, t)
  BY PlanIs
<1> DEFINE fee == RequiredFee(Transaction(q, plan, idx))
           lower == [plan EXCEPT !.fee = fee, !.change = @ - (fee - plan.fee)]
           other(u) == [ins |-> Tokens(plan.ins) \cup u, fee |-> fee,
                        change |-> Wrap(Value(u) - Due(q) - fee)]
<1>2. \/ p = plan
      \/ /\ q.kind \in {"stake", "token", "register"} /\ ~ (plan.fee >= fee)
         /\ plan.change >= fee - plan.fee /\ p = lower
      \/ /\ q.kind \in {"stake", "token", "register"} /\ ~ (plan.fee >= fee)
         /\ \E u \in SelectCoins(Native(cs), Wrap(Due(q) + fee)) : p = other(u)
  <2> HIDE DEF fee
  <2>1. p \in IF q.kind \notin {"stake", "token", "register"} \/ plan.fee >= fee THEN {plan}
              ELSE IF plan.change >= fee - plan.fee THEN {lower}
              ELSE {other(u) : u \in SelectCoins(Native(cs), Wrap(Due(q) + fee))}
    BY DEF Exact, fee
  <2> HIDE DEF lower, other
  <2> QED BY <2>1
<1> HIDE DEF fee
<1>3. ASSUME NEW c, Choice(q, cs, p, in, c)
      PROVE  LET t == Transaction(q, p, idx) IN IsTx(t) /\ Money(t.outs) /\ Placed(t.outs)
  BY <1>3, TransactionIs
<1> DEFINE Pays == Taken(Transaction(q, p, idx)) =>
                     PaysFee(Transaction(q, p, idx)) /\ (p.change > 0 => plan.change > 0)
<1>4. CASE p = plan
  <2>1. Choice(q, cs, p, in, s)
    BY <1>1, <1>4
  <2>2. Pays
    BY <1>1, <1>4, AsPlanned
  <2> QED BY <1>3, <2>1, <2>2
<1>5. CASE /\ q.kind \in {"stake", "token", "register"} /\ ~ (plan.fee >= fee)
           /\ plan.change >= fee - plan.fee /\ p = lower
  <2>1. fee = RequiredFee(Transaction(q, plan, idx))
    BY DEF fee
  <2>2. p = [ins |-> plan.ins, fee |-> fee, change |-> plan.change - (fee - plan.fee)]
    <3>1. plan = [ins |-> plan.ins, fee |-> plan.fee, change |-> plan.change]
      BY <1>1 DEF Choice
    <3> QED BY <1>5, <3>1
  <2>3. ~ (plan.fee >= fee) /\ plan.change >= fee - plan.fee
    BY <1>5
  <2>4. Choice(q, cs, plan, in, s)
    BY <1>1
  <2> HIDE DEF lower, other
  <2>5. /\ Choice(q, cs, p, in, s) /\ plan.change > 0
        /\ Taken(Transaction(q, p, idx)) => PaysFee(Transaction(q, p, idx))
    BY <2>1, <2>2, <2>3, <2>4, Lowered
  <2> QED BY <1>3, <2>5
<1>6. CASE /\ q.kind \in {"stake", "token", "register"} /\ ~ (plan.fee >= fee)
           /\ \E u \in SelectCoins(Native(cs), Wrap(Due(q) + fee)) : p = other(u)
  <2>1. PICK u \in SelectCoins(Native(cs), Wrap(Due(q) + fee)) : p = other(u)
    BY <1>6
  <2>2. Tokens(plan.ins) = in
    <3>1. plan.ins = in \cup s /\ in \subseteq Tokens(cs) /\ s \subseteq Native(cs)
      BY <1>1 DEF Choice
    <3>2. Tokens(in \cup s) = in
      <4>1. in \subseteq Tokens(cs) /\ s \subseteq Native(cs)
        BY <3>1
      <4> QED BY <4>1, CoinsOf
    <3> QED BY <3>1, <3>2
  <2>3. PICK t : Targeted(q, cs, plan, in, s, t)
    BY <1>1, <1>6
  <2>4. p = [ins |-> in \cup u, fee |-> fee, change |-> Wrap(Value(u) - Due(q) - fee)]
    BY <2>1, <2>2
  <2>5. q.kind # "mint"
    BY <1>6
  <2>6. Choice(q, cs, p, in, u) /\ Pays
    BY <1>1, <1>6, <2>3, <2>4, <2>5, Reselected DEF fee
  <2> QED BY <1>3, <2>6
<1> HIDE DEF lower, other
<1> QED BY <1>2, <1>4, <1>5, <1>6
-----------------------------------------------------------------------------
(* What every request broadcasts.                                            *)

\* Numbering changes no value and no size.
LEMMA NumberedSame ==
  ASSUME NEW t, IsTx(t), Money(t.outs), Placed(t.outs)
  PROVE  LET u == Numbered(t) IN
         /\ IsTx(u) /\ u.kind = t.kind /\ u.ins = t.ins
         /\ Money(u.outs) /\ Value(u.outs) = Value(t.outs)
         /\ RequiredFee(u) = RequiredFee(t)
<1> DEFINE n == Cardinality(txs) + 1
           new(o) == [o EXCEPT !.n = n, !.id = IF o.kind = "mint" THEN n ELSE @]
           u == Numbered(t)
           S == t.outs
           T == {new(o) : o \in S}
           m == [o \in S |-> new(o)]
           val(R) == [o \in R |-> o.value]
           siz(R) == [o \in R |-> 2 + Extra[o.kind]]
<1>1. /\ u = [n |-> n, kind |-> t.kind, chain |-> t.chain, ins |-> t.ins, outs |-> T]
  <2>1. u = [t EXCEPT !.n = n, !.outs = T]
    BY DEF Numbered
  <2> HIDE DEF n, T, u
  <2> QED BY <2>1 DEF IsTx
<1>2. u.outs = T /\ u.kind = t.kind /\ u.ins = t.ins /\ IsTx(u)
  <2> HIDE DEF T, u, n
  <2> QED BY <1>1 DEF IsTx
<1>3. \A o \in S : /\ IsCoin(new(o)) /\ new(o).kind = o.kind /\ new(o).value = o.value
                   /\ new(o).pos = o.pos
  <2>1. ASSUME NEW o \in S
        PROVE  /\ IsCoin(new(o)) /\ new(o).kind = o.kind /\ new(o).value = o.value
               /\ new(o).pos = o.pos
    <3> DEFINE id == IF o.kind = "mint" THEN n ELSE o.id
    <3>1. o = [n |-> o.n, pos |-> o.pos, chain |-> o.chain, addr |-> o.addr, kind |-> o.kind,
               value |-> o.value, token |-> o.token, id |-> o.id]
      BY DEF Money, IsCoin
    <3>2. new(o) = [o EXCEPT !.n = n, !.id = id]
      OBVIOUS
    <3> HIDE DEF new, n, id
    <3>3. new(o) = [n |-> n, pos |-> o.pos, chain |-> o.chain, addr |-> o.addr, kind |-> o.kind,
                    value |-> o.value, token |-> o.token, id |-> id]
      BY <3>1, <3>2
    <3> QED BY <3>3 DEF IsCoin
  <2> HIDE DEF new
  <2> QED BY <2>1
<1> HIDE DEF new, n, u
<1>4. /\ m \in [S -> T]
      /\ \A z \in T : \E o \in S : z = m[o]
      /\ IsFiniteSet(S)
  BY DEF Money
<1>5. \A o, p \in S : m[o] = m[p] => o = p
  <2>1. ASSUME NEW o \in S, NEW p \in S, m[o] = m[p] PROVE o = p
    <3>1. new(o) = new(p)
      BY <2>1
    <3>2. o.pos = p.pos
      BY <1>3, <3>1
    <3> QED BY <3>2 DEF Placed
  <2> QED BY <2>1
<1>6. /\ \A o \in S : o.value \in Nat /\ o.kind \in DOMAIN Extra
                      /\ (o.kind \in {"token", "mint"} => o.value = 0)
      /\ \A o \in S : m[o] = new(o)
  BY DEF Money
<1>7. /\ \A o \in S : val(S)[o] \in Nat /\ siz(S)[o] \in Nat
      /\ \A o \in S : val(T)[m[o]] = val(S)[o] /\ siz(T)[m[o]] = siz(S)[o]
  BY <1>3, <1>6 DEF Extra
<1>8. /\ Value(S) = Total(val(S), S)
      /\ OutSize(S) = Total(siz(S), S) /\ OutSize(T) = Total(siz(T), T)
  BY <1>4, <1>6, ValueIsTotal DEF OutSize
<1>9. \A o \in T : /\ IsCoin(o) /\ o.value \in Nat /\ o.kind \in DOMAIN Extra
                   /\ (o.kind \in {"token", "mint"} => o.value = 0)
  BY <1>3, <1>6
<1> DEFINE vs == val(S)
           vt == val(T)
           zs == siz(S)
           zt == siz(T)
<1>10. /\ \A o \in S : vs[o] \in Nat
       /\ \A o \in S : zs[o] \in Nat
       /\ \A o \in S : vt[m[o]] = vs[o]
       /\ \A o \in S : zt[m[o]] = zs[o]
  BY <1>7
<1>11. m \in [S -> T] /\ IsFiniteSet(S) /\ (\A z \in T : \E o \in S : z = m[o])
       /\ (\A o, p \in S : m[o] = m[p] => o = p)
  BY <1>4, <1>5
<1>12. Value(S) = Total(vs, S) /\ OutSize(S) = Total(zs, S) /\ OutSize(T) = Total(zt, T)
  BY <1>8
<1> HIDE DEF vs, zs, zt, m
<1>13. IsFiniteSet(T) /\ Total(vt, T) = Total(vs, S)
  <2> HIDE DEF T, S, vt
  <2> QED BY <1>10, <1>11, TotalImage
<1>14. Total(zt, T) = Total(zs, S)
  <2> HIDE DEF T, S
  <2> QED BY <1>10, <1>11, TotalImage
<1>15. Value(T) = Total(vt, T)
  <2>1. \A c \in T : c.value \in Nat
    BY <1>9
  <2> HIDE DEF T
  <2> QED BY <1>13, <2>1, ValueIsTotal
<1>16. Money(T)
  <2> HIDE DEF T
  <2> QED BY <1>9, <1>13 DEF Money
<1>17. RequiredFee(u) = RequiredFee(t)
  <2>1. RequiredFee(u) = 2 * Cardinality(u.ins) + OutSize(u.outs)
    <3>1. Money(u.outs)
      BY <1>2, <1>16
    <3> QED BY <3>1, RequiredFeeIs DEF Money
  <2>2. RequiredFee(t) = 2 * Cardinality(t.ins) + OutSize(t.outs)
    BY RequiredFeeIs DEF Money
  <2>3. OutSize(u.outs) = OutSize(t.outs)
    BY <1>2, <1>12, <1>14
  <2> QED BY <1>2, <2>1, <2>2, <2>3
<1>18. Value(u.outs) = Value(t.outs) /\ Money(u.outs)
  BY <1>2, <1>12, <1>13, <1>15, <1>16
<1> QED BY <1>2, <1>17, <1>18 DEF u
\* The plan of a request that is under way, and the transaction it has built.
Asked(x) == Asks(x.q) /\ Money(x.cs) /\ Fits(x.q, x.cs) /\ x.plan \in Plans(x.q, x.cs)
Built(x) ==
  IsTx(x.t) /\ Money(x.t.outs) /\ Placed(x.t.outs) /\ (Taken(x.t) => PaysFee(x.t))
Sound(x) == (x.pc = "build" => Asked(x)) /\ (x.pc = "add" => Built(x))

\* What was broadcast has paid its fee, what is about to be will.
PayInv ==
  /\ Money(coins)
  /\ \A t \in txs : Money(t.outs) /\ (t.kind # "deposit" => PaysFee(t))
  /\ \A r \in Slot : Sound(req[r])

\* The wallet's coins are few enough for the fee of all of them to fit a word.
FeesFit == \A q \in Request : EstimateTxFee(Cardinality(coins), Len(q.pay) + 6) < Word

\* What a handler that opens the wallet has been asked for.
Acts(r) ==
  \/ \E q \in Request : Asks(q) /\ Open(r, q)
  \/ \E q \in Request : Unstake(r, q)
  \/ Build(r) \/ Add(r) \/ Track(r) \/ IncrementIndex(r)
  \/ NewAddress(r) \/ RegisterNew(r) \/ Import(r) \/ FirstAccount(r)
  \/ \E chain \in Chain : Rescan(r, chain)
  \/ Scan(r) \/ Register(r) \/ SetIndex(r)

LEMMA NextActs ==
  ASSUME Next
  PROVE  (\E r \in Slot : Acts(r) /\ Does(r)) \/ Outside
<1>1. ASSUME NEW q \in Request, q.kind \in Payments PROVE Asks(q)
  BY <1>1, BoundAssumption DEF Asks, Payments
<1>2. ASSUME NEW r \in Slot, NEW q \in Request,
             \/ WalletSend(r, q) \/ WalletSendMany(r, q) \/ WalletConsolidate(r, q)
             \/ WalletStake(r, q) \/ WalletMintToken(r, q)
             \/ WalletSendToken(r, q) \/ WalletCreateSubChain(r, q)
             \/ SubChainSend(r, q) \/ SubChainStake(r, q)
      PROVE  Asks(q) /\ Open(r, q)
  BY <1>1, <1>2 DEF WalletSend, WalletSendMany, WalletConsolidate, WalletStake, WalletMintToken,
                    WalletSendToken, WalletCreateSubChain, SubChainSend, SubChainStake,
                    Root, Sub, Payments
<1>3. ASSUME NEW r \in Slot, NEW q \in Request, WalletUnstake(r, q) \/ SubChainUnstake(r, q)
      PROVE  Unstake(r, q)
  BY <1>3 DEF WalletUnstake, SubChainUnstake
<1>4. (\E r \in Slot : Acts(r)) \/ Outside
  BY <1>2, <1>3 DEF Next, Acts, Outside
<1>5. ASSUME NEW r \in Slot, Acts(r) PROVE Does(r)
  BY <1>5 DEF Acts, Does
<1> QED BY <1>4, <1>5

\* What a handler goes on with when it has opened the wallet.
LEMMA Opened ==
  ASSUME Shape, Money(coins), FeesFit, NEW r \in Slot, NEW q \in Request, Asks(q), Open(r, q)
  PROVE  Sound(req'[r])
<1> DEFINE cs == {c \in coins : c.chain = q.chain /\ c.addr \in file.accounts /\ c.kind # "stake"}
<1>1. PICK plan \in Plans(q, cs) :
        req' = [req EXCEPT ![r] = [pc |-> "build", q |-> q, cs |-> cs, plan |-> plan]]
  BY DEF Open
<1>2. cs \subseteq coins
  OBVIOUS
<1> HIDE DEF cs
<1>3. req'[r] = [pc |-> "build", q |-> q, cs |-> cs, plan |-> plan]
  BY <1>1 DEF Shape
<1>4. Money(cs) /\ IsFiniteSet(cs) /\ Cardinality(cs) <= Cardinality(coins)
  <2>1. IsFiniteSet(cs) /\ Cardinality(cs) <= Cardinality(coins)
    BY <1>2, FS_Subset DEF Money
  <2> QED BY <1>2, <2>1 DEF Money
<1>5. Fits(q, cs)
  <2> DEFINE m == Cardinality(cs)
             n == Cardinality(coins)
             l == Len(q.pay)
  <2>1. m \in Nat /\ n \in Nat /\ l \in Nat /\ m <= n /\ Word \in Nat
    <3>1. m \in Nat /\ n \in Nat
      BY <1>4, FS_CardinalityType DEF Money
    <3> QED BY <1>4, <3>1, PaysAre, BoundAssumption
  <2>2. 2 * n + 2 * (l + 6) < Word
    BY DEF FeesFit, EstimateTxFee
  <2> HIDE DEF m, n, l
  <2>3. 2 * m + 2 * (l + 6) < Word
    BY <2>1, <2>2
  <2> QED BY <2>3 DEF Fits, EstimateTxFee, m, l
<1>6. Asked(req'[r])
  BY <1>1, <1>3, <1>4, <1>5 DEF Asked
<1> QED BY <1>3, <1>6 DEF Sound

\* What a handler builds.
LEMMA BuildIs ==
  ASSUME Shape, NEW r \in Slot, Build(r)
  PROVE  \/ req'[r] = Idle
         \/ LET x == req[r]
                idx == IF x.plan.change > 0 THEN file.chg ELSE 0
            IN \E p \in Exact(x.q, x.cs, x.plan, idx) :
                 req'[r] = [pc |-> "add", t |-> Transaction(x.q, p, idx),
                            change |-> p.change > 0, idx |-> idx]
<1> DEFINE x == req[r]
           idx == IF x.plan.change > 0 THEN file.chg ELSE 0
           new(p) == [pc |-> "add", t |-> Transaction(x.q, p, idx),
                      change |-> p.change > 0, idx |-> idx]
<1>1. \/ \E p \in Exact(x.q, x.cs, x.plan, idx) : req' = [req EXCEPT ![r] = new(p)]
      \/ req' = [req EXCEPT ![r] = Idle]
  BY DEF Build
<1> HIDE DEF new, idx
<1>2. \/ \E p \in Exact(x.q, x.cs, x.plan, idx) : req'[r] = new(p)
      \/ req'[r] = Idle
  BY <1>1 DEF Shape
<1> QED BY <1>2 DEF new, idx

LEMMA BuildSound ==
  ASSUME Shape, NEW r \in Slot, Sound(req[r]), Build(r)
  PROVE  Sound(req'[r])
<1> DEFINE x == req[r]
           idx == IF x.plan.change > 0 THEN file.chg ELSE 0
<1>1. Asks(x.q) /\ Money(x.cs) /\ Fits(x.q, x.cs) /\ x.plan \in Plans(x.q, x.cs)
  BY DEF Build, Sound, Asked
<1>2. CASE req'[r] = Idle
  BY <1>2 DEF Sound, Idle
<1>3. ASSUME NEW p \in Exact(x.q, x.cs, x.plan, idx),
             req'[r] = [pc |-> "add", t |-> Transaction(x.q, p, idx),
                        change |-> p.change > 0, idx |-> idx]
      PROVE  Sound(req'[r])
  <2> DEFINE t == Transaction(x.q, p, idx)
  <2>1. /\ IsTx(t) /\ Money(t.outs) /\ Placed(t.outs)
        /\ Taken(t) => PaysFee(t) /\ (p.change > 0 => x.plan.change > 0)
    BY <1>1, BuildPays
  <2>2. req'[r].pc = "add" /\ req'[r].t = t
    BY <1>3
  <2> HIDE DEF t
  <2> QED BY <2>1, <2>2 DEF Sound, Built
<1> HIDE DEF idx
<1> QED BY <1>2, <1>3, BuildIs DEF idx

\* All stakes of an account, less the fee.
LEMMA UnstakeSound ==
  ASSUME Shape, Money(coins), NEW r \in Slot, NEW q, Unstake(r, q)
  PROVE  Sound(req'[r]) /\ req'[r].pc = "add" /\ req'[r].change = FALSE
<1> DEFINE in == Stakes(q.chain, coins)
           fee == EstimateTxFee(Cardinality(in), 1)
           o == Coin(q.chain, 1, Account0, "native", Value(in) - fee, 0, 0)
           t == [n |-> 0, kind |-> q.kind, chain |-> q.chain, ins |-> in, outs |-> {o}]
           x == [pc |-> "add", change |-> FALSE, idx |-> 0, t |-> t]
<1>1. Value(in) > fee /\ req' = [req EXCEPT ![r] = x]
  BY DEF Unstake
<1>2. IsFiniteSet(in) /\ Cardinality(in) \in Nat /\ Value(in) \in Nat
  <2>1. in \subseteq coins /\ IsFiniteSet(coins) /\ \A c \in coins : c.value \in Nat
    BY DEF Stakes, Money
  <2> HIDE DEF in
  <2>2. IsFiniteSet(in) /\ \A c \in in : c.value \in Nat
    BY <2>1, FS_Subset
  <2> QED BY <2>2, FS_CardinalityType, ValueFacts
<1> HIDE DEF in
<1>3. fee = 2 * Cardinality(in) + 2 /\ fee \in Nat
  BY <1>2 DEF EstimateTxFee
<1> HIDE DEF fee
<1>4. IsCoin(o) /\ o.pos = 1 /\ o.kind = "native" /\ o.value = Value(in) - fee
  BY DEF Coin, IsCoin
<1> HIDE DEF o
<1>5. o.value \in Nat
  BY <1>1, <1>2, <1>3, <1>4
<1>6. Money({o}) /\ Placed({o}) /\ Value({o}) = o.value /\ Cardinality({o}) = 1
  BY <1>4, <1>5, OneOutput DEF Extra
<1>7. OutSize({o}) = 2 * Cardinality({o})
  BY <1>4, <1>6, OutSizeFacts
<1>8. IsTx(t) /\ t.outs = {o} /\ t.ins = in
  BY DEF IsTx
<1> HIDE DEF t
<1>9. RequiredFee(t) = 2 * Cardinality(t.ins) + OutSize(t.outs)
  <2>1. Money(t.outs)
    BY <1>6, <1>8
  <2> QED BY <2>1, RequiredFeeIs DEF Money
<1>10. RequiredFee(t) = fee
  BY <1>3, <1>6, <1>7, <1>8, <1>9
<1>11. Value(t.ins) - Value(t.outs) = fee
  BY <1>2, <1>3, <1>4, <1>6, <1>8
<1>12. PaysFee(t)
  <2>1. fee \in fee..fee + 2
    BY <1>3
  <2> QED BY <1>10, <1>11, <2>1 DEF PaysFee
<1>13. req'[r] = x
  BY <1>1 DEF Shape
<1>14. x.pc = "add" /\ x.change = FALSE /\ x.t = t
  OBVIOUS
<1> HIDE DEF x
<1> QED BY <1>6, <1>8, <1>12, <1>13, <1>14 DEF Sound, Built
LEMMA MoneyUnion ==
  ASSUME NEW S, Money(S), NEW T, Money(T), NEW U, U \subseteq S \cup T
  PROVE  Money(U)
<1>1. IsFiniteSet(U)
  <2>1. IsFiniteSet(S \cup T)
    BY FS_Union DEF Money
  <2> QED BY <2>1, FS_Subset
<1> QED BY <1>1 DEF Money

\* The broadcast of one transaction.
LEMMA AddPays ==
  ASSUME Shape, PayInv, NEW r \in Slot, Add(r)
  PROVE  /\ \A t \in txs' : Money(t.outs) /\ (t.kind # "deposit" => PaysFee(t))
         /\ Sound(req'[r]) /\ UNCHANGED coins
<1> DEFINE t == req[r].t
           u == Numbered(t)
<1>1. /\ req[r].pc = "add" /\ UNCHANGED coins
      /\ \/ UNCHANGED txs
         \/ Accepts(t) /\ txs' = txs \cup {u}
      /\ req'[r] \in {[pc |-> "track", idx |-> req[r].idx], Idle}
  <2>1. /\ req[r].pc = "add" /\ UNCHANGED coins
        /\ \/ UNCHANGED txs
           \/ Accepts(t) /\ txs' = txs \cup {u}
    BY DEF Add
  <2>2. req'[r] \in {[pc |-> "track", idx |-> req[r].idx], Idle}
    BY DEF Add, Refusal, Shape
  <2> QED BY <2>1, <2>2
<1>2. Sound(req'[r])
  BY <1>1 DEF Sound, Idle
<1>3. CASE UNCHANGED txs
  BY <1>1, <1>2, <1>3 DEF PayInv
<1>4. CASE Accepts(t) /\ txs' = txs \cup {u}
  <2>1. IsTx(t) /\ Money(t.outs) /\ Placed(t.outs) /\ (Taken(t) => PaysFee(t))
    BY <1>1 DEF PayInv, Sound, Built
  <2>2. PaysFee(t)
    BY <1>4, <2>1 DEF Accepts, ValidateWithUTXOs, Taken
  <2>3. /\ u.kind = t.kind /\ u.ins = t.ins /\ Money(u.outs)
        /\ Value(u.outs) = Value(t.outs) /\ RequiredFee(u) = RequiredFee(t)
    BY <2>1, NumberedSame
  <2> HIDE DEF t, u
  <2>4. PaysFee(u)
    BY <2>2, <2>3 DEF PaysFee
  <2> QED BY <1>1, <1>2, <1>4, <2>3, <2>4 DEF PayInv
<1> QED BY <1>1, <1>3, <1>4

LEMMA PayStep ==
  ASSUME Shape, FeesFit, PayInv, [Next]_vars
  PROVE  PayInv'
<1>1. CASE UNCHANGED vars
  BY <1>1 DEF vars, PayInv
<1>2. ASSUME NEW t \in txs, Confirm(t) PROVE PayInv'
  <2>1. /\ coins' = (coins \ t.ins) \cup {o \in t.outs : o.addr # Other}
        /\ UNCHANGED <<txs, req>>
    BY <1>2 DEF Confirm
  <2>2. Money(coins) /\ Money(t.outs) /\ coins' \subseteq coins \cup t.outs
    BY <2>1 DEF PayInv
  <2>3. Money(coins')
    BY <2>2, MoneyUnion
  <2> QED BY <2>1, <2>3 DEF PayInv
<1>3. ASSUME NEW a, Deposit(a) PROVE PayInv'
  <2> DEFINE n == Cardinality(txs) + 1
             c == [Coin("root", 1, a, "native", 20, 0, 0) EXCEPT !.n = n]
             t == [n |-> c.n, kind |-> "deposit", chain |-> "root", ins |-> {}, outs |-> {c}]
  <2>1. coins' = coins \cup {c} /\ txs' = txs \cup {t} /\ UNCHANGED req
    BY <1>3 DEF Deposit
  <2>2. IsCoin(c) /\ c.kind = "native" /\ c.value = 20
    BY DEF Coin, IsCoin
  <2> HIDE DEF c
  <2>3. t.kind = "deposit" /\ t.outs = {c}
    OBVIOUS
  <2> HIDE DEF t
  <2>4. Money({c})
    BY <2>2, OneOutput DEF Extra
  <2>5. Money(coins')
    BY <2>1, <2>4, MoneyUnion DEF PayInv
  <2> QED BY <2>1, <2>3, <2>4, <2>5 DEF PayInv
<1>4. CASE Crash \/ Delete
  <2>1. UNCHANGED <<coins, txs>> /\ (UNCHANGED req \/ req' = [r \in Slot |-> Idle])
    BY <1>4 DEF Crash, Delete
  <2>2. CASE UNCHANGED req
    BY <2>1, <2>2 DEF PayInv
  <2>3. CASE req' = [r \in Slot |-> Idle]
    BY <2>1, <2>3 DEF PayInv, Sound, Idle
  <2> QED BY <2>1, <2>2, <2>3
<1>5. ASSUME NEW r \in Slot, Acts(r), Does(r) PROVE PayInv'
  <2>1. \A s \in Slot : s # r => req'[s] = req[s]
    BY <1>5, OneSlot
  <2>2. CASE Add(r)
    BY <2>1, <2>2, AddPays DEF PayInv
  <2>3. CASE ~ Add(r)
    <3>1. UNCHANGED <<coins, txs>>
      BY <1>5, <2>3 DEF Acts, Open, Unstake, Build, Track, IncrementIndex, NewAddress,
                        RegisterNew, Import, FirstAccount, Rescan, Scan, Register, SetIndex
    <3>2. Sound(req'[r])
      <4>1. CASE \E q \in Request : Asks(q) /\ Open(r, q)
        BY <4>1, Opened DEF PayInv
      <4>2. CASE \E q \in Request : Unstake(r, q)
        BY <4>2, UnstakeSound DEF PayInv
      <4>3. CASE Build(r)
        BY <4>3, BuildSound DEF PayInv
      <4>4. CASE Register(r) \/ SetIndex(r)
        <5>1. req'[r] = Idle \/ req'[r].pc \in {"register", "setExt", "setChg"}
          BY <4>4, Registering
        <5> QED BY <5>1 DEF Sound, Idle
      <4>5. CASE \/ Track(r) \/ IncrementIndex(r) \/ NewAddress(r) \/ RegisterNew(r)
                 \/ Import(r) \/ FirstAccount(r) \/ Scan(r)
                 \/ \E chain \in Chain : Rescan(r, chain)
        <5>1. req'[r].pc \notin {"build", "add"}
          BY <4>5, Moves
        <5> QED BY <5>1 DEF Sound
      <4> QED BY <1>5, <2>3, <4>1, <4>2, <4>3, <4>4, <4>5 DEF Acts
    <3> QED BY <2>1, <3>1, <3>2 DEF PayInv
  <2> QED BY <2>2, <2>3
<1> QED BY <1>1, <1>2, <1>3, <1>4, <1>5, NextActs DEF Outside

\* Tokens the wallet starts with carry no native value besides.
PlainTokens == \A c \in Genesis : c.kind \in {"token", "mint"} => c.value = 0

LEMMA PayStart ==
  ASSUME PlainTokens, Init
  PROVE  PayInv
<1>1. Money(Genesis)
  BY GenesisAssumption DEF PlainTokens, Money, IsCoin
<1> QED BY <1>1 DEF Init, PayInv, Sound, Idle

\* Whatever is asked and however its sums wrap round: while the fee of all the
\* wallet's coins fits a word, a payment that was accepted has burned its fee,
\* that of one change output it does not have at most, or the fee of a mint.
THEOREM PaysExactlyAlways ==
  ASSUME PlainTokens PROVE Spec /\ []FeesFit => []PaysExactly
<1>1. PayInv => PaysExactly
  BY DEF PayInv, PaysExactly, PaysFee
<1>2. Init => Shape /\ PayInv
  BY TrackStart, PayStart DEF TrackInv
<1>3. Shape /\ PayInv /\ FeesFit /\ [Next]_vars => (Shape /\ PayInv)'
  <2>1. Shape /\ [Next]_vars => Shape'
    <3>1. Shape /\ UNCHANGED vars => Shape'
      BY DEF Shape, vars
    <3> QED BY <3>1, ShapeStep
  <2> QED BY <2>1, PayStep
<1> QED BY <1>1, <1>2, <1>3, PTL DEF Spec

-----------------------------------------------------------------------------
(* The change indexes that payments skip.                                    *)

\* A request that will list its change index and then raise the counter: its
\* transaction is in the pool, or the pool will take it.
Holds(s) ==
  \/ req[s].pc = "add" /\ req[s].change /\ Taken(req[s].t)
  \/ req[s].pc = "track"
Advances(s) == req[s].pc = "advance" /\ req[s].branch = 1

\* Those that will raise it without listing an index from i on.
Raisers(i) ==
  {s \in Slot : Advances(s) \/ (Holds(s) /\ req[s].idx \notin i..file.chg)}
Filled == {j \in Int : Listed(<<1, j>>)}
Bare(i, n) == (i..n) \cap Filled = {}
Reached(n) ==
  \/ n = file.chg \/ n \in Filled
  \/ \E s \in Slot : Holds(s) /\ n = req[s].idx

\* A gap below the counter, and all that would make it longer, are fewer than
\* there are requests.
Short ==
  \A i \in 0..file.chg :
    Bare(i, file.chg) => (file.chg - i) + Cardinality(Raisers(i)) < Cardinality(Slot)
\* No such gap below any index in use.
Bridged ==
  \A n \in Nat : Reached(n) =>
    \A i \in Nat : i + Cardinality(Slot) <= n => ~ Bare(i, (i + Cardinality(Slot)) - 1)

\* An address on the change branch has an index.
IsAddress(a) == a = <<a[1], a[2]>> /\ (a[1] = 1 => a[2] \in Nat)
Indexed ==
  /\ file.chg \in Nat
  /\ \A a \in file.accounts : IsAddress(a)
  /\ \A s \in Slot : Holds(s) => req[s].idx \in Nat
\* What the blocks show of the wallet is listed, and so is what a scan has found.
Sights ==
  /\ \A h \in history : Listed(h[2])
  /\ \A s \in Slot : req[s].pc \in {"register", "setExt", "setChg"} =>
       \A a \in req[s].used \cup req[s].todo : Listed(a)

GapInv == mishaps = 0 => Indexed /\ Sights /\ Short /\ Bridged

\* What each step does to the accounts.
LEMMA AccountsStep ==
  ASSUME TrackInv, file.state = "good", NEW r \in Slot, Does(r),
         NEW a \in file'.accounts \ file.accounts
  PROVE  \/ Track(r) /\ a = <<1, req[r].idx>>
         \/ RegisterNew(r) /\ a = <<0, req[r].idx>>
         \/ FirstAccount(r) /\ a = Account0
         \/ Register(r) /\ req[r].pc = "register" /\ a \in req[r].todo
<1>1. IsFile(file)
  BY DEF TrackInv, Shape
<1>2. \A b : AddAccount(b) => file'.accounts = file.accounts \cup {b}
  BY <1>1, AddAccountGrows
<1>3. CASE Track(r)
  BY <1>2, <1>3 DEF Track
<1>4. CASE RegisterNew(r)
  BY <1>2, <1>4 DEF RegisterNew
<1>5. CASE FirstAccount(r)
  BY <1>2, <1>5 DEF FirstAccount
<1>6. CASE Register(r)
  <2>1. UNCHANGED file \/ \E b \in req[r].todo : AddAccount(b)
    BY <1>6 DEF Register
  <2>2. PICK b \in req[r].todo : AddAccount(b)
    BY <2>1
  <2>3. a = b /\ req[r].pc = "register"
    BY <1>2, <1>6, <2>2 DEF Register
  <2> QED BY <1>6, <2>2, <2>3
<1>7. CASE IncrementIndex(r) \/ SetIndex(r)
  <2>1. \E x : Rewrite([file EXCEPT !.chg = x]) \/ Rewrite([file EXCEPT !.ext = x])
    <3>1. CASE IncrementIndex(r)
      <4>1. Rewrite([file EXCEPT !.chg = file.chg + 1])
            \/ Rewrite([file EXCEPT !.ext = file.ext + 1])
        BY <3>1 DEF IncrementIndex
      <4> QED BY <4>1
    <3>2. CASE SetIndex(r)
      BY <3>2 DEF SetIndex
    <3> QED BY <1>7, <3>1, <3>2
  <2>2. file'.accounts = file.accounts
    BY <1>1, <2>1 DEF Rewrite, IsFile
  <2> QED BY <2>2
<1>8. CASE Import(r)
  BY <1>8 DEF Import, Absent
<1>9. CASE \/ \E q \in Request : Open(r, q) \/ Unstake(r, q)
           \/ Build(r) \/ Add(r) \/ NewAddress(r) \/ Scan(r)
           \/ \E chain \in Chain : Rescan(r, chain)
  BY <1>9 DEF Open, Unstake, Build, Add, NewAddress, Scan, Rescan
<1> QED BY <1>3, <1>4, <1>5, <1>6, <1>7, <1>8, <1>9 DEF Does

\* And to the counter of change indexes.
LEMMA CounterStep ==
  ASSUME TrackInv, file.state = "good", NEW r \in Slot, Does(r)
  PROVE  \/ file'.chg = file.chg /\ ~ (IncrementIndex(r) /\ Advances(r))
         \/ IncrementIndex(r) /\ Advances(r) /\ file'.chg = file.chg + 1
         \/ /\ SetIndex(r) /\ req[r].pc = "setChg"
            /\ \E a \in req[r].used : a[1] = 1 /\ file'.chg = a[2] + 1
<1>1. IsFile(file)
  BY DEF TrackInv, Shape
<1>2. CASE UNCHANGED file /\ ~ IncrementIndex(r)
  BY <1>2
<1>3. ASSUME NEW a, AddAccount(a) PROVE file'.chg = file.chg
  BY <1>1, <1>3 DEF AddAccount, Rewrite, IsFile
<1>4. CASE Track(r) \/ RegisterNew(r) \/ FirstAccount(r) \/ Register(r)
  <2>1. UNCHANGED file \/ \E a : AddAccount(a)
    BY <1>4 DEF Track, RegisterNew, FirstAccount, Register
  <2>2. ~ Advances(r)
    BY <1>4 DEF Track, RegisterNew, FirstAccount, Register, Advances
  <2> QED BY <1>3, <2>1, <2>2
<1>5. CASE IncrementIndex(r)
  <2>1. CASE req[r].branch = 1
    <3>1. file' = [file EXCEPT !.chg = @ + 1] /\ Advances(r)
      BY <1>5, <2>1 DEF IncrementIndex, Rewrite, Advances
    <3>2. file'.chg = file.chg + 1
      BY <1>1, <3>1 DEF IsFile
    <3> QED BY <1>5, <3>1, <3>2
  <2>2. CASE req[r].branch # 1
    <3>1. file' = [file EXCEPT !.ext = @ + 1] /\ ~ Advances(r)
      BY <1>5, <2>2 DEF IncrementIndex, Rewrite, Advances
    <3>2. file'.chg = file.chg
      BY <1>1, <3>1 DEF IsFile
    <3> QED BY <3>1, <3>2
  <2> QED BY <2>1, <2>2
<1>6. CASE SetIndex(r)
  <2>1. ~ Advances(r)
    BY <1>6 DEF SetIndex, Advances
  <2>2. CASE req[r].pc = "setExt"
    <3>1. \E x : file' = [file EXCEPT !.ext = x]
      BY <1>6, <2>2 DEF SetIndex, Rewrite
    <3>2. file'.chg = file.chg
      BY <1>1, <3>1 DEF IsFile
    <3> QED BY <2>1, <3>2
  <2>3. CASE req[r].pc = "setChg"
    <3> DEFINE top == Highest(1, req[r].used)
               i == CHOOSE i \in top : TRUE
    <3>1. file' = [file EXCEPT !.chg = IF top = {} THEN @ ELSE i + 1]
      BY <1>6, <2>3 DEF SetIndex, Rewrite
    <3>2. file'.chg = IF top = {} THEN file.chg ELSE i + 1
      BY <1>1, <3>1 DEF IsFile
    <3>3. CASE top = {}
      BY <2>1, <3>2, <3>3
    <3>4. CASE top # {}
      <4>1. i \in top
        BY <3>4
      <4>2. \E a \in req[r].used : a[1] = 1 /\ i = a[2]
        BY <4>1 DEF Highest
      <4> HIDE DEF top, i
      <4> QED BY <1>6, <2>3, <3>2, <3>4, <4>2
    <3> QED BY <3>3, <3>4
  <2> QED BY <1>6, <2>2, <2>3 DEF SetIndex
<1>7. CASE Import(r)
  BY <1>7 DEF Import, Absent
<1>8. CASE \/ \E q \in Request : Open(r, q) \/ Unstake(r, q)
           \/ Build(r) \/ Add(r) \/ NewAddress(r) \/ Scan(r)
           \/ \E chain \in Chain : Rescan(r, chain)
  <2>1. UNCHANGED file /\ ~ Advances(r)
    BY <1>8 DEF Open, Unstake, Build, Add, NewAddress, Scan, Rescan, Advances, Idle
  <2> QED BY <2>1
<1> QED BY <1>4, <1>5, <1>6, <1>7, <1>8 DEF Does

\* A request takes its index from the counter, and keeps it until it is listed.
LEMMA HolderStep ==
  ASSUME Shape, PayInv, NEW r \in Slot, Acts(r), Does(r)
  PROVE  /\ Holds(r)' => \/ Holds(r) /\ req'[r].idx = req[r].idx
                         \/ Build(r) /\ req'[r].idx = file.chg
         /\ Advances(r)' => Track(r)
         /\ req'[r].pc = "track" => Add(r) /\ Holds(r) /\ req'[r].idx = req[r].idx
<1>1. CASE Build(r)
  <2> DEFINE x == req[r]
             idx == IF x.plan.change > 0 THEN file.chg ELSE 0
  <2>1. Asks(x.q) /\ Money(x.cs) /\ Fits(x.q, x.cs) /\ x.plan \in Plans(x.q, x.cs)
    BY <1>1 DEF Build, PayInv, Sound, Asked
  <2>2. CASE req'[r] = Idle
    BY <2>2 DEF Holds, Advances, Idle
  <2>3. ASSUME NEW p \in Exact(x.q, x.cs, x.plan, idx),
               req'[r] = [pc |-> "add", t |-> Transaction(x.q, p, idx),
                          change |-> p.change > 0, idx |-> idx]
        PROVE  /\ Holds(r)' => req'[r].idx = file.chg
               /\ ~ Advances(r)' /\ req'[r].pc # "track"
    <3> DEFINE t == Transaction(x.q, p, idx)
    <3>1. Taken(t) => (p.change > 0 => x.plan.change > 0)
      BY <2>1, BuildPays
    <3>2. /\ req'[r].pc = "add" /\ req'[r].t = t /\ req'[r].change = (p.change > 0)
          /\ req'[r].idx = idx
      <4> HIDE DEF t, idx
      <4> QED BY <2>3 DEF t
    <3> HIDE DEF t
    <3>3. Holds(r)' => Taken(t) /\ p.change > 0
      BY <3>2 DEF Holds, Taken
    <3>4. ~ Advances(r)'
      BY <3>2 DEF Advances
    <3> QED BY <3>1, <3>2, <3>3, <3>4
  <2> HIDE DEF idx
  <2> QED BY <1>1, <2>2, <2>3, BuildIs DEF idx
<1>2. CASE Add(r)
  <2> DEFINE t == req[r].t
  <2>1. CASE Accepts(t)
    <3>1. Taken(t)
      BY <2>1 DEF Accepts, ValidateWithUTXOs, Taken
    <3>2. req' = [req EXCEPT ![r] = IF req[r].change THEN [pc |-> "track", idx |-> req[r].idx]
                                    ELSE Idle]
      BY <1>2, <2>1 DEF Add
    <3>3. CASE req[r].change
      <4>1. req'[r] = [pc |-> "track", idx |-> req[r].idx]
        BY <3>2, <3>3 DEF Shape
      <4>2. Holds(r)
        BY <1>2, <3>1, <3>3 DEF Add, Holds
      <4> QED BY <1>2, <4>1, <4>2 DEF Advances
    <3>4. CASE ~ req[r].change
      <4>1. req'[r] = Idle
        BY <3>2, <3>4 DEF Shape
      <4> QED BY <4>1 DEF Idle, Holds, Advances
    <3> QED BY <3>3, <3>4
  <2>2. CASE ~ Accepts(t)
    <3>1. req'[r] = Idle
      BY <1>2, <2>2 DEF Add, Shape, Refusal
    <3> QED BY <3>1 DEF Idle, Holds, Advances
  <2> QED BY <2>1, <2>2
<1>3. CASE \E q \in Request : Unstake(r, q)
  <2>1. req'[r].pc = "add" /\ req'[r].change = FALSE
    BY <1>3, UnstakeSound DEF PayInv
  <2> QED BY <2>1 DEF Holds, Advances
<1>4. CASE RegisterNew(r)
  <2>1. req'[r] \in {[pc |-> "advance", branch |-> 0], Idle}
    BY <1>4 DEF RegisterNew, Shape
  <2> QED BY <2>1 DEF Holds, Advances, Idle
<1>5. CASE Register(r) \/ SetIndex(r)
  <2>1. req'[r] = Idle \/ req'[r].pc \in {"register", "setExt", "setChg"}
    BY <1>5, Registering
  <2> QED BY <2>1 DEF Holds, Advances, Idle
<1>6. CASE Track(r)
  <2>1. req'[r].pc = "advance"
    BY <1>6, Moves
  <2> QED BY <1>6, <2>1 DEF Holds
<1>7. CASE \/ \E q \in Request : Asks(q) /\ Open(r, q)
           \/ IncrementIndex(r) \/ NewAddress(r) \/ Import(r) \/ FirstAccount(r)
           \/ Scan(r) \/ \E chain \in Chain : Rescan(r, chain)
  <2>1. req'[r].pc \in {"build", "idle", "new", "account0", "scan", "register", "rescan"}
    BY <1>7, Moves
  <2> QED BY <2>1 DEF Holds, Advances
<1> QED BY <1>1, <1>2, <1>3, <1>4, <1>5, <1>6, <1>7 DEF Acts

\* Only a broadcast lists a change address that was not listed.
LEMMA NewlyListed ==
  ASSUME TrackInv, PayInv, GapInv, mishaps = 0, Next, mishaps' = 0, NEW j, Listed(<<1, j>>)'
  PROVE  Listed(<<1, j>>) \/ \E s \in Slot : Holds(s) /\ j = req[s].idx
<1>1. file.state = "good" /\ Shape /\ Sights
  BY DEF TrackInv, Kept, GapInv
<1>2. ~ Crash /\ ~ Delete
  BY NoMishap DEF TrackInv
<1> DEFINE a == <<1, j>>
<1>3. CASE Outside
  <2>1. UNCHANGED <<file, req>>
    BY <1>2, <1>3 DEF Outside, Confirm, Deposit
  <2> QED BY <2>1 DEF Listed
<1>4. ASSUME NEW r \in Slot, Acts(r), Does(r)
      PROVE  Listed(a) \/ \E s \in Slot : Holds(s) /\ j = req[s].idx
  <2>1. CASE a \in file.accounts
    BY <2>1 DEF Listed
  <2>2. CASE a \in file'.accounts \ file.accounts
    <3>1. \/ Track(r) /\ a = <<1, req[r].idx>>
          \/ Register(r) /\ req[r].pc = "register" /\ a \in req[r].todo
      BY <1>1, <1>4, <2>2, AccountsStep DEF Account0
    <3>2. CASE Track(r) /\ a = <<1, req[r].idx>>
      BY <3>2 DEF Track, Listed
    <3>3. CASE Register(r) /\ req[r].pc = "register" /\ a \in req[r].todo
      BY <1>1, <3>3 DEF Sights
    <3> QED BY <3>1, <3>2, <3>3
  <2>3. ASSUME NEW s \in Slot, req'[s].pc = "track", a = <<1, req'[s].idx>>
        PROVE  Listed(a) \/ \E u \in Slot : Holds(u) /\ j = req[u].idx
    <3>1. CASE s = r
      <4>1. Holds(r) /\ req'[r].idx = req[r].idx
        BY <1>1, <1>4, <2>3, <3>1, HolderStep
      <4> QED BY <2>3, <3>1, <4>1
    <3>2. CASE s # r
      <4>1. req'[s] = req[s]
        BY <1>1, <1>4, <3>2, OneSlot
      <4> QED BY <2>3, <4>1 DEF Listed
    <3> QED BY <3>1, <3>2
  <2> QED BY <2>1, <2>2, <2>3 DEF Listed
<1> QED BY <1>3, <1>4, NextActs

LEMMA SlotsCount ==
  /\ Cardinality(Slot) \in Nat /\ Cardinality(Slot) >= 1
  /\ \A R \in SUBSET Slot : IsFiniteSet(R) /\ Cardinality(R) \in Nat
  /\ \A R, Q \in SUBSET Slot : R \subseteq Q => Cardinality(R) <= Cardinality(Q)
<1>1. IsFiniteSet(Slot) /\ Slot # {}
  BY BoundAssumption
<1>2. \A R \in SUBSET Slot : IsFiniteSet(R) /\ Cardinality(R) \in Nat
  BY <1>1, FS_Subset, FS_CardinalityType
<1>3. Cardinality(Slot) # 0
  BY <1>1, FS_EmptySet
<1>4. \A R, Q \in SUBSET Slot : R \subseteq Q => Cardinality(R) <= Cardinality(Q)
  BY <1>2, FS_Subset
<1> QED BY <1>1, <1>2, <1>3, <1>4

LEMMA OneLess ==
  ASSUME NEW Q \in SUBSET Slot, NEW r \in Q
  PROVE  Cardinality(Q \ {r}) = Cardinality(Q) - 1
<1>1. IsFiniteSet(Slot)
  BY BoundAssumption
<1>2. IsFiniteSet(Q)
  BY <1>1, FS_Subset
<1> QED BY <1>2, FS_RemoveElement

\* Listing only ever closes gaps.
LEMMA FewerBare ==
  ASSUME Filled \subseteq Filled', NEW i, NEW n, Bare(i, n)'
  PROVE  Bare(i, n)
BY DEF Bare

\* A step that leaves the counter alone.
LEMMA Quiet ==
  ASSUME NEW n \in Nat, file.chg = n, file'.chg = n, Short, Bridged,
         Filled \subseteq Filled',
         \A m : Reached(m)' => Reached(m),
         \A i \in 0..n : Bare(i, n)' => Raisers(i)' \subseteq Raisers(i)
  PROVE  Short' /\ Bridged'
<1> DEFINE S == Cardinality(Slot)
<1>1. n \in Nat /\ file'.chg = n
  OBVIOUS
<1>2. ASSUME NEW i \in 0..n, Bare(i, n)'
      PROVE  (n - i) + Cardinality(Raisers(i)') < S
  <2>1. Bare(i, n)
    BY <1>2, FewerBare
  <2>2. (n - i) + Cardinality(Raisers(i)) < S
    BY <2>1 DEF Short
  <2>3. Raisers(i)' \in SUBSET Slot /\ Raisers(i) \in SUBSET Slot
    BY DEF Raisers
  <2>4. /\ Cardinality(Raisers(i)') \in Nat /\ Cardinality(Raisers(i)) \in Nat /\ S \in Nat
        /\ Cardinality(Raisers(i)') <= Cardinality(Raisers(i))
    BY <1>2, <2>3, SlotsCount
  <2> QED BY <1>1, <2>2, <2>4
<1>3. Short'
  BY <1>1, <1>2 DEF Short
<1>4. ASSUME NEW m \in Nat, Reached(m)', NEW i \in Nat, i + S <= m
      PROVE  ~ Bare(i, (i + S) - 1)'
  <2>1. ~ Bare(i, (i + S) - 1)
    BY <1>4 DEF Bridged
  <2> QED BY <2>1, FewerBare
<1>5. Bridged'
  BY <1>4 DEF Bridged
<1> QED BY <1>3, <1>5

\* The counter goes up by one: the slot that did it made the gap no longer.
LEMMA Raised ==
  ASSUME NEW n \in Nat, file.chg = n, file'.chg = n + 1, Short, Bridged,
         NEW r \in Slot, Advances(r),
         Filled \subseteq Filled',
         \A m : Reached(m)' => Reached(m) \/ m = n + 1,
         \A i \in 0..n : Raisers(i)' \subseteq Raisers(i) \ {r},
         \A i : r \notin Raisers(i)'
  PROVE  Short' /\ Bridged'
<1> DEFINE S == Cardinality(Slot)
<1>1. n \in Nat /\ file'.chg = n + 1 /\ S \in Nat /\ S >= 1
  BY SlotsCount
<1>2. ASSUME NEW i \in 0..n, Bare(i, n)
      PROVE  /\ Cardinality(Raisers(i)) \in Nat /\ Cardinality(Raisers(i)) >= 1
             /\ (n - i) + Cardinality(Raisers(i)) < S
  <2>1. r \in Raisers(i) /\ Raisers(i) \in SUBSET Slot
    BY DEF Raisers
  <2>2. Cardinality(Raisers(i)) \in Nat /\ Cardinality(Raisers(i) \ {r}) = Cardinality(Raisers(i)) - 1
        /\ Cardinality(Raisers(i) \ {r}) \in Nat
    BY <2>1, SlotsCount, OneLess
  <2>3. (n - i) + Cardinality(Raisers(i)) < S
    BY <1>2 DEF Short
  <2> QED BY <2>2, <2>3
<1>3. ASSUME NEW i \in 0..n + 1, Bare(i, n + 1)'
      PROVE  ((n + 1) - i) + Cardinality(Raisers(i)') < S
  <2>1. Raisers(i)' \in SUBSET Slot /\ Raisers(i) \in SUBSET Slot
    BY DEF Raisers
  <2>2. CASE i = n + 1
    <3>1. Raisers(i)' \subseteq Slot \ {r}
      BY <2>1
    <3>2. Cardinality(Slot \ {r}) = S - 1 /\ Cardinality(Raisers(i)') <= Cardinality(Slot \ {r})
          /\ Cardinality(Raisers(i)') \in Nat
      BY <2>1, <3>1, SlotsCount, OneLess
    <3> QED BY <1>1, <2>2, <3>2
  <2>3. CASE i # n + 1
    <3>1. i \in 0..n
      BY <1>1, <2>3
    <3>2. Bare(i, n)
      <4>1. Bare(i, n + 1)
        BY <1>3, FewerBare
      <4>2. i..n \subseteq i..n + 1
        BY <1>1, <3>1
      <4> QED BY <4>1, <4>2 DEF Bare
    <3>3. /\ Cardinality(Raisers(i)) \in Nat
          /\ (n - i) + Cardinality(Raisers(i)) < S
      BY <1>2, <3>1, <3>2
    <3>4. Raisers(i)' \subseteq Raisers(i) \ {r} /\ r \in Raisers(i)
      BY <3>1 DEF Raisers
    <3>5. /\ Cardinality(Raisers(i)') \in Nat
          /\ Cardinality(Raisers(i)') <= Cardinality(Raisers(i) \ {r})
          /\ Cardinality(Raisers(i) \ {r}) = Cardinality(Raisers(i)) - 1
      BY <2>1, <3>4, SlotsCount, OneLess
    <3> QED BY <1>1, <3>1, <3>3, <3>5
  <2> QED BY <2>2, <2>3
<1>4. Short'
  BY <1>1, <1>3 DEF Short
<1>5. ASSUME NEW m \in Nat, Reached(m)', NEW i \in Nat, i + S <= m
      PROVE  ~ Bare(i, (i + S) - 1)'
  <2>1. CASE Reached(m)
    <3>1. ~ Bare(i, (i + S) - 1)
      BY <1>5, <2>1 DEF Bridged
    <3> QED BY <3>1, FewerBare
  <2>2. CASE ~ Reached(m)
    <3>1. m = n + 1
      BY <1>5, <2>2
    <3>2. CASE i + S <= n
      <4>1. ~ Bare(i, (i + S) - 1)
        BY <1>1, <3>2 DEF Bridged, Reached
      <4> QED BY <4>1, FewerBare
    <3>3. CASE ~ (i + S <= n)
      <4>1. i + S = n + 1 /\ (i + S) - 1 = n /\ i \in 0..n
        BY <1>1, <1>5, <3>1, <3>3
      <4> SUFFICES ASSUME Bare(i, n)' PROVE FALSE
        BY <4>1
      <4>2. Bare(i, n)
        BY FewerBare
      <4>3. /\ Cardinality(Raisers(i)) \in Nat /\ Cardinality(Raisers(i)) >= 1
            /\ (n - i) + Cardinality(Raisers(i)) < S
        BY <1>2, <4>1, <4>2
      <4> QED BY <1>1, <4>1, <4>3
    <3> QED BY <3>2, <3>3
  <2> QED BY <2>1, <2>2
<1>6. Bridged'
  BY <1>5 DEF Bridged
<1> QED BY <1>4, <1>6

\* The counter is set behind a listed index, by a slot that is done.
LEMMA SetBehind ==
  ASSUME Bridged, NEW r \in Slot, NEW m \in Nat, m \in Filled, file'.chg = m + 1,
         Filled \subseteq Filled',
         \A n : Reached(n)' => Reached(n) \/ n = m + 1,
         \A i : r \notin Raisers(i)'
  PROVE  Short' /\ Bridged'
<1> DEFINE S == Cardinality(Slot)
<1>1. S \in Nat /\ S >= 1
  BY SlotsCount
<1>2. ASSUME NEW i \in 0..m + 1, Bare(i, m + 1)'
      PROVE  ((m + 1) - i) + Cardinality(Raisers(i)') < S
  <2>1. i = m + 1
    <3>1. ~ (m \in i..m + 1)
      BY <1>2 DEF Bare
    <3> QED BY <3>1
  <2>2. Raisers(i)' \in SUBSET Slot /\ Raisers(i)' \subseteq Slot \ {r}
    BY DEF Raisers
  <2>3. Cardinality(Slot \ {r}) = S - 1 /\ Cardinality(Raisers(i)') <= Cardinality(Slot \ {r})
        /\ Cardinality(Raisers(i)') \in Nat
    BY <2>2, SlotsCount, OneLess
  <2> QED BY <1>1, <2>1, <2>3
<1>3. Short'
  BY <1>2 DEF Short
<1>4. ASSUME NEW n \in Nat, Reached(n)', NEW i \in Nat, i + S <= n
      PROVE  ~ Bare(i, (i + S) - 1)'
  <2>1. CASE Reached(n)
    <3>1. ~ Bare(i, (i + S) - 1)
      BY <1>4, <2>1 DEF Bridged
    <3> QED BY <3>1, FewerBare
  <2>2. CASE ~ Reached(n)
    <3>1. n = m + 1
      BY <1>4, <2>2
    <3>2. CASE i + S <= m
      <4>1. ~ Bare(i, (i + S) - 1)
        BY <3>2 DEF Bridged, Reached
      <4> QED BY <4>1, FewerBare
    <3>3. CASE ~ (i + S <= m)
      <4>1. m \in i..(i + S) - 1
        BY <1>1, <1>4, <3>1, <3>3
      <4> QED BY <4>1 DEF Bare
    <3> QED BY <3>2, <3>3
  <2> QED BY <2>1, <2>2
<1>5. Bridged'
  BY <1>4 DEF Bridged
<1> QED BY <1>3, <1>5

LEMMA ListedAddress ==
  ASSUME Indexed, NEW a, Listed(a)
  PROVE  IsAddress(a)
BY DEF Indexed, Listed, IsAddress, Holds

LEMMA FilledGrows ==
  ASSUME TrackInv, Next, mishaps' = 0, mishaps = 0
  PROVE  Filled \subseteq Filled'
<1>1. Shape /\ file.state = "good"
  BY DEF TrackInv, Kept
<1> SUFFICES ASSUME NEW j \in Int, Listed(<<1, j>>) PROVE Listed(<<1, j>>)'
  BY DEF Filled
<1> DEFINE a == <<1, j>>
<1>2. Listed(a)
  OBVIOUS
<1> HIDE DEF a
<1>3. Listed(a)'
  BY <1>1, <1>2, ListedStays
<1> QED BY <1>3 DEF a

\* An index in use was in use before, or the counter has come to it.
LEMMA ReachedStep ==
  ASSUME TrackInv, PayInv, GapInv, mishaps = 0, NEW r \in Slot, Acts(r), Does(r), Next,
         mishaps' = 0, NEW m, Reached(m)'
  PROVE  Reached(m) \/ m = file'.chg
<1>1. Shape
  BY DEF TrackInv
<1>2. CASE m \in Filled'
  <2>1. m \in Int /\ Listed(<<1, m>>)'
    BY <1>2 DEF Filled
  <2>2. Listed(<<1, m>>) \/ \E s \in Slot : Holds(s) /\ m = req[s].idx
    BY <2>1, NewlyListed
  <2> QED BY <2>1, <2>2 DEF Reached, Filled
<1>3. ASSUME NEW s \in Slot, Holds(s)', m = req'[s].idx
      PROVE  Reached(m)
  <2>1. CASE s = r
    <3>1. \/ Holds(r) /\ req'[r].idx = req[r].idx
          \/ Build(r) /\ req'[r].idx = file.chg
      BY <1>1, <1>3, <2>1, HolderStep
    <3> QED BY <1>3, <2>1, <3>1 DEF Reached
  <2>2. CASE s # r
    <3>1. req'[s] = req[s]
      BY <1>1, <2>2, OneSlot
    <3>2. Holds(s) /\ m = req[s].idx
      BY <1>3, <3>1 DEF Holds
    <3> QED BY <3>2 DEF Reached
  <2> QED BY <2>1, <2>2
<1> QED BY <1>2, <1>3 DEF Reached

LEMMA IndexedStep ==
  ASSUME TrackInv, PayInv, GapInv, mishaps = 0, NEW r \in Slot, Acts(r), Does(r)
  PROVE  Indexed'
<1>1. Shape /\ file.state = "good" /\ Indexed /\ Sights
  BY DEF TrackInv, Kept, GapInv
<1>2. file'.chg \in Nat
  <2>1. file.chg \in Nat
    BY <1>1 DEF Indexed
  <2>2. ASSUME NEW a \in req[r].used, SetIndex(r), req[r].pc = "setChg", a[1] = 1
        PROVE  a[2] + 1 \in Nat
    <3>1. Listed(a)
      BY <1>1, <2>2 DEF Sights
    <3> QED BY <1>1, <2>2, <3>1, ListedAddress DEF IsAddress
  <2> QED BY <1>1, <2>1, <2>2, CounterStep
<1>3. ASSUME NEW a \in file'.accounts PROVE IsAddress(a)
  <2>1. CASE a \in file.accounts
    BY <1>1, <2>1 DEF Indexed
  <2>2. CASE a \in file'.accounts \ file.accounts
    <3>1. \/ Track(r) /\ a = <<1, req[r].idx>>
          \/ a = <<0, req[r].idx>> \/ a = Account0
          \/ Register(r) /\ req[r].pc = "register" /\ a \in req[r].todo
      BY <1>1, <2>2, AccountsStep
    <3>2. CASE Track(r) /\ a = <<1, req[r].idx>>
      BY <1>1, <3>2 DEF Track, Indexed, Holds, IsAddress
    <3>3. CASE a = <<0, req[r].idx>> \/ a = Account0
      BY <3>3 DEF IsAddress, Account0
    <3>4. CASE Register(r) /\ req[r].pc = "register" /\ a \in req[r].todo
      <4>1. Listed(a)
        BY <1>1, <3>4 DEF Sights
      <4> QED BY <1>1, <4>1, ListedAddress
    <3> QED BY <3>1, <3>2, <3>3, <3>4
  <2> QED BY <2>1, <2>2
<1>4. ASSUME NEW s \in Slot, Holds(s)' PROVE req'[s].idx \in Nat
  <2>1. CASE s = r
    <3>1. \/ Holds(r) /\ req'[r].idx = req[r].idx
          \/ Build(r) /\ req'[r].idx = file.chg
      BY <1>1, <1>4, <2>1, HolderStep
    <3> QED BY <1>1, <2>1, <3>1 DEF Indexed
  <2>2. CASE s # r
    <3>1. req'[s] = req[s]
      BY <1>1, <2>2, OneSlot
    <3>2. Holds(s)
      BY <1>4, <3>1 DEF Holds
    <3> QED BY <1>1, <3>1, <3>2 DEF Indexed
  <2> QED BY <2>1, <2>2
<1> QED BY <1>2, <1>3, <1>4 DEF Indexed

\* A scan finds nothing that is not listed.
LEMMA ScanFinds ==
  ASSUME TrackInv, Sights, mishaps = 0, NEW chain, NEW a \in Within(chain) \cup Seen(chain)
  PROVE  Listed(a)
<1>1. CASE \E h \in history : a = h[2]
  BY <1>1 DEF Sights
<1>2. CASE a \in Holding(chain)
  <2>1. PICK c \in coins : a = c.addr
    BY <1>2 DEF Holding, Own
  <2> QED BY <2>1 DEF TrackInv, AllListed
<1> QED BY <1>1, <1>2 DEF Within, Seen

LEMMA SightsStep ==
  ASSUME TrackInv, PayInv, Sights, mishaps = 0, Next, mishaps' = 0
  PROVE  Sights'
<1>1. Shape /\ file.state = "good" /\ AllListed /\ ~ Crash /\ ~ Delete
  BY NoMishap DEF TrackInv, Kept
<1>2. ASSUME NEW a, Listed(a) PROVE Listed(a)'
  BY <1>1, <1>2, ListedStays
<1>3. ASSUME NEW h \in history' PROVE Listed(h[2])
  <2>1. CASE h \in history
    BY <2>1 DEF Sights
  <2>2. ASSUME NEW t \in txs, Confirm(t) PROVE Listed(h[2])
    <3>1. h \in history \/ \E o \in t.outs : o.addr # Other /\ h = <<t.chain, o.addr>>
      BY <2>2 DEF Confirm, Used
    <3> QED BY <1>1, <2>1, <3>1 DEF AllListed
  <2>3. ASSUME NEW a, Deposit(a) PROVE Listed(h[2])
    <3>1. h \in history \/ h = <<"root", a>>
      BY <2>3 DEF Deposit
    <3>2. Listed(a)
      BY <2>3 DEF Deposit, Listed
    <3> QED BY <2>1, <3>1, <3>2
  <2>4. ASSUME NEW r \in Slot, Does(r) PROVE history' = history
    BY <2>4 DEF Does, Open, Unstake, Build, Add, Track, IncrementIndex, NewAddress, RegisterNew,
                Import, FirstAccount, Rescan, Scan, Register, SetIndex
  <2> QED BY <1>1, <2>1, <2>2, <2>3, <2>4, NextIs DEF Outside
<1>4. ASSUME NEW s \in Slot, req'[s].pc \in {"register", "setExt", "setChg"},
             NEW a \in req'[s].used \cup req'[s].todo
      PROVE  Listed(a)
  <2>1. CASE req'[s] = req[s]
    BY <1>4, <2>1 DEF Sights
  <2>2. CASE Scan(s)
    <3>1. a \in Within(req[s].chain) \cup Seen(req[s].chain)
      BY <1>1, <1>4, <2>2, Scanned
    <3> QED BY <3>1, ScanFinds
  <2>3. CASE Register(s) \/ SetIndex(s)
    <3>1. req[s].pc \in {"register", "setExt", "setChg"}
      BY <1>1, <2>3, Registering
    <3>2. req'[s] # Idle
      BY <1>4 DEF Idle
    <3>3. req'[s].used = req[s].used /\ req'[s].todo \subseteq req[s].todo
      BY <1>1, <2>3, <3>2, Registering
    <3> QED BY <1>4, <3>1, <3>3 DEF Sights
  <2>4. ASSUME NEW r \in Slot, Does(r), req'[s] # req[s]
        PROVE  Scan(s) \/ Register(s) \/ SetIndex(s)
    <3>1. s = r
      BY <1>1, <2>4, OneSlot
    <3> QED BY <1>1, <1>4, <2>4, <3>1, Moves DEF Does
  <2>5. CASE Outside
    <3>1. req' = req
      BY <1>1, <2>5 DEF Outside, Confirm, Deposit
    <3> QED BY <2>1, <3>1
  <2> QED BY <2>1, <2>2, <2>3, <2>4, <2>5, NextIs
<1> QED BY <1>2, <1>3, <1>4 DEF Sights

\* Who raises the counter now was about to before, unless what it lists ends the gap.
LEMMA RaisersStep ==
  ASSUME TrackInv, PayInv, GapInv, mishaps = 0, NEW r \in Slot, Acts(r), Does(r),
         NEW n \in Nat, file.chg = n, file'.chg \in {n, n + 1}, NEW i \in 0..n,
         file'.chg = n => Bare(i, n)' \/ ~ Track(r)
  PROVE  Raisers(i)' \subseteq Raisers(i)
<1>1. Shape /\ file.state = "good" /\ Indexed
  BY DEF TrackInv, Kept, GapInv
<1>2. i..n \subseteq i..n + 1 /\ n \in i..n
  OBVIOUS
<1> SUFFICES ASSUME NEW s \in Slot, s \in Raisers(i)' PROVE s \in Raisers(i)
  BY DEF Raisers
<1>3. CASE s # r
  <2>1. req'[s] = req[s]
    BY <1>1, <1>3, OneSlot
  <2> QED BY <1>2, <2>1 DEF Raisers, Advances, Holds
<1>4. CASE s = r
  <2>1. CASE Advances(r)'
    <3>1. Track(r)
      BY <1>1, <2>1, HolderStep
    <3>2. Holds(r) /\ req[r].idx \in Nat
      BY <1>1, <3>1 DEF Track, Holds, Indexed
    <3>3. file'.chg = n
      <4>1. ~ IncrementIndex(r) /\ ~ SetIndex(r)
        BY <3>1 DEF Track, IncrementIndex, SetIndex
      <4> QED BY <1>1, <4>1, CounterStep
    <3>4. <<1, req[r].idx>> \in file'.accounts
      BY <1>1, <3>1, AddAccountGrows DEF Track, Shape
    <3>5. req[r].idx \in Filled'
      BY <3>2, <3>4 DEF Filled, Listed
    <3>6. Bare(i, n)'
      BY <3>1, <3>3
    <3>7. req[r].idx \notin i..n
      BY <3>5, <3>6 DEF Bare
    <3> QED BY <1>4, <3>2, <3>7 DEF Raisers
  <2>2. CASE Holds(r)' /\ req'[r].idx \notin i..file'.chg
    <3>1. \/ Holds(r) /\ req'[r].idx = req[r].idx
          \/ Build(r) /\ req'[r].idx = file.chg
      BY <1>1, <2>2, HolderStep
    <3> QED BY <1>2, <1>4, <2>2, <3>1 DEF Raisers
  <2> QED BY <1>4, <2>1, <2>2 DEF Raisers
<1> QED BY <1>3, <1>4

\* A step that raises the counter is done with it.
LEMMA NoRaiser ==
  ASSUME TrackInv, PayInv, NEW r \in Slot, Acts(r), Does(r), IncrementIndex(r) \/ SetIndex(r), NEW i
  PROVE  r \notin Raisers(i)'
<1>1. Shape
  BY DEF TrackInv
<1>2. ~ Track(r) /\ ~ Build(r) /\ ~ Holds(r)
  BY DEF Track, Build, Holds, IncrementIndex, SetIndex
<1>3. ~ Holds(r)' /\ ~ Advances(r)'
  BY <1>1, <1>2, HolderStep
<1> QED BY <1>3 DEF Raisers

LEMMA GapMoves ==
  ASSUME TrackInv, PayInv, GapInv, mishaps = 0, NEW r \in Slot, Acts(r), Does(r), Next,
         mishaps' = 0
  PROVE  Short' /\ Bridged'
<1> DEFINE n == file.chg
<1>1. /\ file.state = "good" /\ Indexed /\ Sights /\ Short /\ Bridged /\ n \in Nat
      /\ Filled \subseteq Filled'
  BY FilledGrows DEF TrackInv, Kept, GapInv, Indexed
<1>2. \A m : Reached(m)' => Reached(m) \/ m = file'.chg
  BY ReachedStep
<1>3. CASE file'.chg = n /\ ~ (IncrementIndex(r) /\ Advances(r))
  <2>1. \A m : Reached(m)' => Reached(m)
    BY <1>2, <1>3 DEF Reached
  <2>2. ASSUME NEW i \in 0..n, Bare(i, n)' PROVE Raisers(i)' \subseteq Raisers(i)
    BY <1>1, <1>3, <2>2, RaisersStep
  <2> HIDE DEF n
  <2> QED BY <1>1, <1>3, <2>1, <2>2, Quiet DEF n
<1>4. CASE IncrementIndex(r) /\ Advances(r) /\ file'.chg = n + 1
  <2>1. \A m : Reached(m)' => Reached(m) \/ m = n + 1
    BY <1>2, <1>4
  <2>2. \A i : r \notin Raisers(i)'
    BY <1>4, NoRaiser
  <2>3. ~ Track(r)
    BY <1>4 DEF Track, IncrementIndex
  <2>4. ASSUME NEW i \in 0..n PROVE Raisers(i)' \subseteq Raisers(i) \ {r}
    <3>1. Raisers(i)' \subseteq Raisers(i)
      BY <1>1, <1>4, <2>3, RaisersStep
    <3> QED BY <2>2, <3>1
  <2> QED BY <1>1, <1>4, <2>1, <2>2, <2>4, Raised
<1>5. ASSUME NEW a \in req[r].used, SetIndex(r), req[r].pc = "setChg", a[1] = 1,
             file'.chg = a[2] + 1
      PROVE  Short' /\ Bridged'
  <2> DEFINE m == a[2]
  <2>1. Listed(a) /\ IsAddress(a)
    BY <1>1, <1>5, ListedAddress DEF Sights
  <2>2. m \in Nat /\ a = <<1, m>>
    BY <1>5, <2>1 DEF IsAddress
  <2>3. m \in Filled
    BY <2>1, <2>2 DEF Filled
  <2>4. \A k : Reached(k)' => Reached(k) \/ k = m + 1
    BY <1>2, <1>5
  <2>5. \A i : r \notin Raisers(i)'
    BY <1>5, NoRaiser
  <2> QED BY <1>1, <1>5, <2>2, <2>3, <2>4, <2>5, SetBehind
<1> QED BY <1>1, <1>3, <1>4, <1>5, CounterStep

LEMMA GapStep ==
  ASSUME TrackInv, PayInv, GapInv, [Next]_vars
  PROVE  GapInv'
<1> SUFFICES ASSUME mishaps' = 0 PROVE (Indexed /\ Sights /\ Short /\ Bridged)'
  BY DEF GapInv
<1>1. CASE UNCHANGED vars
  <2>1. UNCHANGED <<file, coins, history, txs, pool, req>> /\ mishaps = 0
    BY <1>1 DEF vars
  <2>2. Filled' = Filled
    BY <2>1 DEF Filled, Listed
  <2>3. UNCHANGED <<Short, Bridged>>
    BY <2>1, <2>2 DEF Short, Bridged, Bare, Raisers, Reached, Advances, Holds
  <2>4. UNCHANGED <<Indexed, Sights>>
    BY <2>1 DEF Indexed, Sights, Listed, Holds
  <2> QED BY <2>1, <2>3, <2>4 DEF GapInv
<1>2. CASE Next
  <2>1. mishaps = 0 /\ ~ Crash /\ ~ Delete /\ Indexed /\ Sights /\ Short /\ Bridged
    BY <1>2, NoMishap DEF TrackInv, GapInv
  <2>2. Sights'
    BY <1>2, <2>1, SightsStep
  <2>3. CASE Outside
    <3>1. UNCHANGED <<file, req>>
      BY <2>1, <2>3 DEF Outside, Confirm, Deposit
    <3>2. Filled' = Filled
      BY <3>1 DEF Filled, Listed
    <3>3. UNCHANGED <<Short, Bridged, Indexed>>
      BY <3>1, <3>2 DEF Short, Bridged, Bare, Raisers, Reached, Advances, Holds, Indexed
    <3> QED BY <2>1, <2>2, <3>3
  <2>4. ASSUME NEW r \in Slot, Acts(r), Does(r) PROVE (Indexed /\ Short /\ Bridged)'
    BY <1>2, <2>1, <2>4, IndexedStep, GapMoves
  <2> QED BY <1>2, <2>2, <2>3, <2>4, NextActs
<1> QED BY <1>1, <1>2

LEMMA GapStart ==
  ASSUME Init
  PROVE  GapInv
<1> DEFINE S == Cardinality(Slot)
<1>1. /\ file.chg = 0 /\ file.accounts = {Account0} /\ mishaps = 0
      /\ \A s \in Slot : req[s].pc = "idle"
  BY DEF Init, Fresh, Idle
<1>2. \A s \in Slot : ~ Holds(s) /\ ~ Advances(s)
  BY <1>1 DEF Holds, Advances
<1>3. Indexed
  BY <1>1, <1>2 DEF Indexed, IsAddress, Account0
<1>4. Sights
  <2>1. ASSUME NEW h \in history PROVE Listed(h[2])
    <3>1. PICK c \in Genesis : h = <<c.chain, c.addr>>
      BY DEF Init
    <3>2. c.addr = Account0
      BY GenesisAssumption DEF Account0
    <3> QED BY <1>1, <3>1, <3>2 DEF Listed
  <2> QED BY <1>1, <2>1 DEF Sights
<1>5. S \in Nat /\ S >= 1
  BY SlotsCount
<1>6. \A i : Raisers(i) = {}
  BY <1>2 DEF Raisers
<1>7. Short
  <2>1. ASSUME NEW i \in 0..0 PROVE (0 - i) + Cardinality(Raisers(i)) < S
    <3>1. Cardinality(Raisers(i)) = 0 /\ i = 0
      BY <1>6, FS_EmptySet
    <3> QED BY <1>5, <3>1
  <2> QED BY <1>1, <2>1 DEF Short
<1>8. Bridged
  <2>1. Filled = {}
    BY <1>1 DEF Filled, Listed, Account0
  <2>2. ASSUME NEW n, Reached(n) PROVE n = 0
    BY <1>1, <1>2, <2>1, <2>2 DEF Reached
  <2> QED BY <1>5, <2>2 DEF Bridged
<1> QED BY <1>3, <1>4, <1>7, <1>8 DEF GapInv

\* Concurrent payments skip change indexes, but of those below the counter
\* fewer in a row than requests can be in flight, however their steps and a
\* rescan's interleave.
THEOREM GapsBoundedAlways ==
  ASSUME PlainTokens PROVE Spec /\ []FeesFit => []GapsBounded
<1>1. TrackInv /\ GapInv => GapsBounded
  <2> SUFFICES ASSUME TrackInv, GapInv, mishaps = 0,
                      NEW i \in 0..file.chg - Cardinality(Slot)
               PROVE  \E j \in i..i + Cardinality(Slot) - 1 : Tracked(<<1, j>>)
    BY DEF GapsBounded
  <2> DEFINE S == Cardinality(Slot)
  <2>1. /\ S \in Nat /\ file.chg \in Nat /\ i \in Nat /\ i + S <= file.chg
        /\ Reached(file.chg) /\ Bridged
    BY SlotsCount DEF GapInv, Indexed, Reached
  <2>2. ~ Bare(i, (i + S) - 1)
    BY <2>1 DEF Bridged
  <2>3. PICK j \in i..(i + S) - 1 : Listed(<<1, j>>)
    BY <2>2 DEF Bare, Filled
  <2>4. j \in i..i + Cardinality(Slot) - 1 /\ Tracked(<<1, j>>)
    BY <2>1, <2>3 DEF Listed, Tracked
  <2> HIDE DEF S
  <2> QED BY <2>4 DEF Tracked
<1>2. Init => TrackInv /\ PayInv /\ GapInv
  BY TrackStart, PayStart, GapStart
<1>3. TrackInv /\ PayInv /\ GapInv /\ FeesFit /\ [Next]_vars => (TrackInv /\ PayInv /\ GapInv)'
  <2>1. TrackInv /\ [Next]_vars => TrackInv'
    BY TrackStep
  <2>2. TrackInv /\ PayInv /\ FeesFit /\ [Next]_vars => PayInv'
    BY PayStep DEF TrackInv
  <2> QED BY <2>1, <2>2, GapStep
<1> QED BY <1>1, <1>2, <1>3, PTL DEF Spec

=============================================================================
