------------------------------ MODULE Wallet ------------------------------
(***************************************************************************)
(* The wallet of a node: the keystore file of one wallet, and the RPC      *)
(* handlers that read it, choose coins, build a transaction, add it to the *)
(* pool and write back the change address. Requests run concurrently; the  *)
(* keystore's mutex covers one read or one rewrite of the file at a time.  *)
(* A crash can come between any two steps and in the middle of a rewrite.  *)
(*                                                                         *)
(* An address is <<branch, index>>: branch 0 external, branch 1 change.    *)
(***************************************************************************)
EXTENDS TxRules, Sequences

CONSTANTS
  Slot,          \* requests that can be in flight at a time
  Request,       \* the requests clients make: [kind, chain, pay]
  Chain,         \* the root chain and the sub-chains the node follows
  Genesis,       \* the coins of the wallet at the start
  Stake, Burn,   \* the validator stake, the fee of a mint
  GapLimit,      \* empty addresses in a row at which an import stops looking
  MaxIndex, MaxTx, MaxMishap   \* bounds on indexes, payments with mishaps, crashes and deletions

\* A wallet starts with one account.
ASSUME GenesisAssumption ==
  /\ IsFiniteSet(Genesis)
  /\ Genesis \subseteq [n : Nat, pos : Nat, chain : Chain, addr : {<<0, 0>>},
                        kind : DOMAIN Extra, value : Nat, token : Nat, id : Int]

\* Amounts fit a word, and only wallet_sendMany takes more than one.
ASSUME BoundAssumption ==
  /\ {Stake, Burn, GapLimit, Word, MaxTokenAmount, MaxIndex, MaxTx, MaxMishap} \subseteq Nat
  /\ Word > 0 /\ Burn < Word /\ IsFiniteSet(Slot) /\ Slot # {}
  /\ \A q \in Request : /\ q.pay \in Seq(1..Word - 1)
                        /\ \/ q.kind = "send" /\ Len(q.pay) > 0
                           \/ q.kind = "unstake" \/ Len(q.pay) = 1

Address == {0, 1} \X (0..MaxIndex)
Account0 == <<0, 0>>
Torn   == [state |-> "torn",   accounts |-> {}, ext |-> 0, chg |-> 0]
Absent == [state |-> "absent", accounts |-> {}, ext |-> 0, chg |-> 0]
Fresh  == [state |-> "good",   accounts |-> {}, ext |-> 0, chg |-> 0]

VARIABLES
  file,      \* the keystore file
  coins,     \* unspent outputs of the wallet and of those it pays
  history,   \* <<chain, address>>: own addresses that occur in outputs of blocks
  txs,       \* transactions that were broadcast
  pool,      \* those in this node's pool
  req,       \* per slot: the local state of the handler
  mishaps    \* crashes and deletions so far

vars == <<file, coins, history, txs, pool, req, mishaps>>

Idle == [pc |-> "idle"]
Init ==
  /\ file = [Fresh EXCEPT !.accounts = {Account0}]
  /\ coins = Genesis
  /\ history = {<<c.chain, c.addr>> : c \in Genesis}
  /\ txs = {} /\ pool = {}
  /\ req = [r \in Slot |-> Idle]
  /\ mishaps = 0

-----------------------------------------------------------------------------
(* The choice of coins, and what the pool accepts.                          *)

MaxOf(a, b) == IF a >= b THEN a ELSE b

\* The single smallest coin that covers the target, or the largest coins
\* until they do; the set holds both answers where values are equal.
SelectCoins(cs, target) ==
  LET usable == {c \in cs : c.value > 0}
      enough == {c \in usable : c.value >= target}
      single == {{c} : c \in {d \in enough : \A e \in enough : d.value <= e.value}}
      largest == {s \in SUBSET usable :
        /\ Value(s) >= target
        /\ \A c \in s, d \in usable \ s : c.value >= d.value
        /\ \E c \in s : Value(s \ {c}) < target /\ \A d \in s : c.value <= d.value}
      least  == {s \in single \cup largest : \A u \in single \cup largest : Value(s) <= Value(u)}
  IN IF target = 0 THEN {} ELSE IF single \cap least # {} THEN single ELSE least

\* pool.Add, as far as it concerns the wallet's transactions.
Accepts_Wrapped(t) ==
  /\ t.ins \subseteq coins /\ \A u \in pool : u.ins \cap t.ins = {}
  /\ Value(t.ins) >= Wrap(Value(t.outs))
  /\ Value(t.ins) - Wrap(Value(t.outs)) >= RequiredFee(t)
Accepts(t) ==
  /\ \A u \in pool : u.ins \cap t.ins = {}
  /\ ValidateWithUTXOs(t, coins) /\ ValidateTokens(t)
  /\ LET fee == Value(t.ins) - Value(t.outs)
     IN fee >= RequiredFee(t) /\ (HasMintOutput(t) => fee >= Burn)
  /\ \A o \in t.outs : o.kind = "stake" => o.value = Stake

-----------------------------------------------------------------------------
(* What a handler makes of the coins it has collected.                      *)

Coin(chain, pos, addr, kind, value, token, id) ==
  [n |-> 0, pos |-> pos, chain |-> chain, addr |-> addr, kind |-> kind,
   value |-> value, token |-> token, id |-> id]
Native(cs) == {c \in cs : c.kind = "native"}
Stakes(chain, cs) == {c \in cs : c.kind = "stake" /\ c.chain = chain}

\* The outputs of a request but for the change; in are the tokens it spends.
Outputs(q, in) ==
  CASE q.kind = "send"     -> {Coin(q.chain, i, Other, "native", q.pay[i], 0, 0) : i \in DOMAIN q.pay}
    [] q.kind = "stake"    -> {Coin(q.chain, 1, Account0, "stake", q.pay[1], 0, 0)}
    [] q.kind = "register" -> {Coin(q.chain, 1, Other, "register", q.pay[1], 0, 0)}
    [] q.kind = "mint"     -> {Coin(q.chain, 1, Account0, "mint", 0, q.pay[1], 0)}
    [] q.kind = "token"    -> UNION {
         {Coin(q.chain, 1, Other, "token", 0, q.pay[1], id)} \cup
         {Coin(q.chain, 2, Account0, "token", 0, v, id) : v \in {Amount(in) - q.pay[1]} \ {0}}
           : id \in TokenIDs(in)}
    [] OTHER -> {}
\* uint64 sums are not checked for overflow.
Due(q) == IF q.kind \in {"mint", "token", "consolidate", "unstake"} THEN 0
          ELSE Wrap(MapThenSumSet(LAMBDA i : q.pay[i], DOMAIN q.pay))
Base(q, in, n) ==
  LET rate == EstimateTxFee(n + Cardinality(in), Cardinality(Outputs(q, in)) + 1)
  IN IF q.kind = "mint" THEN MaxOf(Burn, rate) ELSE rate

\* Selection with the fee for one input, and once more when the fee for the
\* inputs it chose is not covered.
Funded(q, cs, in) ==
  UNION {LET fee == Base(q, in, Cardinality(first)) IN
    {[ins |-> in \cup s, fee |-> Base(q, in, Cardinality(s)),
      change |-> Wrap(Value(s) - Due(q) - Base(q, in, Cardinality(s)))] :
      s \in IF Value(first) < Wrap(Due(q) + fee) THEN SelectCoins(Native(cs), Wrap(Due(q) + fee)) ELSE {first}}
    : first \in SelectCoins(Native(cs), Wrap(Due(q) + Base(q, in, 1)))}

\* What a transfer spends of the token it is about: as much as it takes, in
\* the order found.
TokenInputs(q, cs) ==
  IF q.kind # "token" THEN {{}}
  ELSE UNION {{in \in SUBSET OfToken(cs, id) : /\ Amount(in) >= q.pay[1]
                                               /\ \E c \in in : Amount(in \ {c}) < q.pay[1]}
              : id \in TokenIDs(cs)}

Merged(q, cs) ==
  LET fee(s) == EstimateTxFee(Cardinality(s), 1) IN
  {[ins |-> s, fee |-> fee(s), change |-> Value(s) - fee(s)] :
    s \in {s \in SUBSET Native(cs) :
      /\ Cardinality(s) >= 2 /\ Value(s) > fee(s)
      /\ s = Native(cs) \/ Cardinality(s) = q.pay[1]
      /\ Cardinality(s) <= q.pay[1]
      /\ \A c \in s, d \in Native(cs) \ s : c.value <= d.value}}

Plans(q, cs) ==
  IF q.kind = "consolidate" THEN Merged(q, cs)
  ELSE UNION {Funded(q, cs, in) : in \in TokenInputs(q, cs)}

Transaction(q, plan, idx) ==
  [n |-> 0, kind |-> q.kind, chain |-> q.chain, ins |-> plan.ins,
   outs |-> Outputs(q, Tokens(plan.ins)) \cup
     {Coin(q.chain, 0, <<1, idx>>, "native", v, 0, 0) : v \in {c \in {plan.change} : c > 0}}]

\* Stake, token and registration handlers compare the fee with that of the
\* transaction they built and lower the change, or select once more.
Exact(q, cs, plan, idx) ==
  LET fee == RequiredFee(Transaction(q, plan, idx)) IN
  IF q.kind \notin {"stake", "token", "register"} \/ plan.fee >= fee THEN {plan}
  ELSE IF plan.change >= fee - plan.fee
  THEN {[plan EXCEPT !.fee = fee, !.change = @ - (fee - plan.fee)]}
  ELSE {[ins |-> Tokens(plan.ins) \cup s, fee |-> fee, change |-> Wrap(Value(s) - Due(q) - fee)] :
          s \in SelectCoins(Native(cs), Wrap(Due(q) + fee))}

-----------------------------------------------------------------------------
(* The payment handlers: send, sendMany, consolidate, stake, unstake, mint,  *)
(* sendToken, createSubChain, and the same on a sub-chain.                   *)

Staked(chain) ==
  Stakes(chain, coins) # {} \/ \E t \in pool : Stakes(chain, t.outs) # {}
Used(t) == {<<t.chain, o.addr>> : o \in {o \in t.outs : o.addr # Other}}

Spent == Cardinality(txs) + Cardinality({s \in Slot : req[s] # Idle}) + mishaps

\* The wallet is opened, its accounts are listed and their coins collected.
\* One step: accounts listed a little earlier only make for fewer coins.
Open(r, q) ==
  /\ req[r] = Idle /\ file.state = "good" /\ Spent < MaxTx
  /\ LET cs == {c \in coins : c.chain = q.chain /\ c.addr \in file.accounts /\ c.kind # "stake"}
     IN \E plan \in Plans(q, cs) :
          req' = [req EXCEPT ![r] = [pc |-> "build", q |-> q, cs |-> cs, plan |-> plan]]
  /\ UNCHANGED <<file, coins, history, txs, pool, mishaps>>

\* The handlers, which all go on with Build, Add, Track and IncrementIndex.
Root(q, kind) == q.chain = "root" /\ q.kind = kind
Sub(q, kind)  == q.chain # "root" /\ q.kind = kind
WalletSend(r, q)        == Root(q, "send") /\ Len(q.pay) = 1 /\ Open(r, q)
WalletSendMany(r, q)    == Root(q, "send") /\ Len(q.pay) > 1 /\ Open(r, q)
WalletConsolidate(r, q) == q.kind = "consolidate" /\ q.pay[1] >= 2 /\ Open(r, q)
WalletStake(r, q)       == Root(q, "stake") /\ q.pay[1] = Stake /\ ~ Staked(q.chain) /\ Open(r, q)
WalletMintToken(r, q)   == Root(q, "mint") /\ Open(r, q)
WalletSendToken(r, q)   == Root(q, "token") /\ Open(r, q)
WalletCreateSubChain(r, q) == Root(q, "register") /\ Open(r, q)
SubChainSend(r, q)      == Sub(q, "send") /\ Len(q.pay) = 1 /\ Open(r, q)
SubChainStake(r, q)     == Sub(q, "stake") /\ q.pay[1] = Stake /\ ~ Staked(q.chain) /\ Open(r, q)

\* GetChangeIndex if there is change, and the transaction is built.
Build(r) ==
  /\ req[r].pc = "build"
  /\ LET q == req[r].q
         plan == req[r].plan
         idx == IF plan.change > 0 THEN file.chg ELSE 0
         plans == Exact(q, req[r].cs, plan, idx)
     IN \/ /\ plan.change > 0 => file.state = "good"
           /\ \E p \in plans : req' = [req EXCEPT ![r] =
                [pc |-> "add", t |-> Transaction(q, p, idx), change |-> p.change > 0, idx |-> idx]]
        \/ /\ plans = {} \/ (plan.change > 0 /\ file.state # "good")
           /\ req' = [req EXCEPT ![r] = Idle]
  /\ UNCHANGED <<file, coins, history, txs, pool, mishaps>>

\* Unstaking spends all stakes of account 0, back to account 0.
Unstake(r, q) ==
  /\ req[r] = Idle /\ file.state = "good"
  /\ Spent < MaxTx
  /\ LET in == Stakes(q.chain, coins)
         fee == EstimateTxFee(Cardinality(in), 1)
     IN /\ in # {} /\ Value(in) > fee
        /\ req' = [req EXCEPT ![r] = [pc |-> "add", change |-> FALSE, idx |-> 0,
             t |-> [n |-> 0, kind |-> q.kind, chain |-> q.chain, ins |-> in,
                    outs |-> {Coin(q.chain, 1, Account0, "native", Value(in) - fee, 0, 0)}]]]
  /\ UNCHANGED <<file, coins, history, txs, pool, mishaps>>

Numbered(t) ==
  LET n == Cardinality(txs) + 1
  IN [t EXCEPT !.n = n,
        !.outs = {[o EXCEPT !.n = n, !.id = IF o.kind = "mint" THEN n ELSE @] : o \in t.outs}]

WalletUnstake(r, q)   == Root(q, "unstake") /\ Unstake(r, q)
SubChainUnstake(r, q) == Sub(q, "unstake") /\ Unstake(r, q)

\* A refusal ends the request.
Refusal_Advance(r) == [pc |-> "advance", branch |-> 1]
Refusal(r) == Idle

\* pool.Add and the broadcast.
Add(r) ==
  /\ req[r].pc = "add"
  /\ IF Accepts(req[r].t)
     THEN /\ txs' = txs \cup {Numbered(req[r].t)}
          /\ pool' = pool \cup {Numbered(req[r].t)}
          /\ req' = [req EXCEPT ![r] = IF req[r].change THEN [pc |-> "track", idx |-> req[r].idx] ELSE Idle]
     ELSE req' = [req EXCEPT ![r] = Refusal(r)] /\ UNCHANGED <<txs, pool>>
  /\ UNCHANGED <<file, coins, history, mishaps>>

\* A rewrite of a file that cannot be read is an error, which is ignored.
Rewrite(f) == file' = IF file.state = "good" THEN f ELSE file
AddAccount(a) == Rewrite([file EXCEPT !.accounts = @ \cup {a}])

Track_Advanced(r) ==
  /\ req[r].pc = "track"
  /\ AddAccount(<<1, req[r].idx + 1>>)
  /\ req' = [req EXCEPT ![r] = [pc |-> "advance", branch |-> 1]]
  /\ UNCHANGED <<coins, history, txs, pool, mishaps>>
Track(r) ==
  /\ req[r].pc = "track"
  /\ AddAccount(<<1, req[r].idx>>)
  /\ req' = [req EXCEPT ![r] = [pc |-> "advance", branch |-> 1]]
  /\ UNCHANGED <<coins, history, txs, pool, mishaps>>
IncrementIndex(r) ==
  /\ req[r].pc = "advance"
  /\ Rewrite(IF req[r].branch = 1 THEN [file EXCEPT !.chg = @ + 1] ELSE [file EXCEPT !.ext = @ + 1])
  /\ req' = [req EXCEPT ![r] = Idle]
  /\ UNCHANGED <<coins, history, txs, pool, mishaps>>

-----------------------------------------------------------------------------
(* New addresses, import and rescan.                                         *)

NewAddress(r) ==
  /\ req[r] = Idle /\ file.state = "good" /\ file.ext < MaxIndex
  /\ req' = [req EXCEPT ![r] = [pc |-> "new", idx |-> MaxOf(file.ext, 1)]]
  /\ UNCHANGED <<file, coins, history, txs, pool, mishaps>>
RegisterNew(r) ==
  /\ req[r].pc = "new"
  /\ AddAccount(<<0, req[r].idx>>)
  /\ req' = [req EXCEPT ![r] = IF file.state = "good" THEN [pc |-> "advance", branch |-> 0] ELSE Idle]
  /\ UNCHANGED <<coins, history, txs, pool, mishaps>>

\* Bound: one scan at a time.
Scanning == \E r \in Slot : req[r].pc \in {"account0", "rescan", "scan", "register", "setExt", "setChg"}

\* An import creates the file, with account 0 in a second rewrite.
Import(r) ==
  /\ req[r] = Idle /\ file = Absent /\ ~ Scanning
  /\ file' = Fresh
  /\ req' = [req EXCEPT ![r] = [pc |-> "account0"]]
  /\ UNCHANGED <<coins, history, txs, pool, mishaps>>
FirstAccount(r) ==
  /\ req[r].pc = "account0"
  /\ AddAccount(Account0)
  /\ req' = [req EXCEPT ![r] = IF file.state = "good" THEN [pc |-> "scan", chain |-> "root", at |-> mishaps] ELSE Idle]
  /\ UNCHANGED <<coins, history, txs, pool, mishaps>>

Rescan(r, chain) ==
  /\ req[r] = Idle /\ file.state = "good"
  /\ ~ Scanning
  /\ req' = [req EXCEPT ![r] = [pc |-> "rescan", chain |-> chain, listed |-> file.accounts, at |-> mishaps]]
  /\ UNCHANGED <<file, coins, history, txs, pool, mishaps>>

Own(chain) == {c \in coins : c.chain = chain /\ c.addr # Other}
Holding(chain) == {c.addr : c \in Own(chain)}

\* Gap limit: an index is looked at while fewer than GapLimit before it hold nothing.
Within(chain) == {a \in Holding(chain) :
  \A i \in 0..a[2] - GapLimit : \E j \in i..i + GapLimit - 1 : <<a[1], j>> \in Holding(chain)}
\* The blocks, and the UTXO set for what they do not show.
Seen_Blocks(chain) == {h[2] : h \in {h \in history : h[1] = chain /\ h[2][1] = 0}}
Seen(chain) == {h[2] : h \in {h \in history : h[1] = chain}} \cup Holding(chain)

Scan(r) ==
  /\ req[r].pc \in {"scan", "rescan"}
  /\ LET chain == req[r].chain
         used == IF req[r].pc = "scan" THEN Within(chain) ELSE Seen(chain)
         listed == IF req[r].pc = "scan" THEN {} ELSE req[r].listed
     IN req' = [req EXCEPT ![r] = [pc |-> "register", kind |-> req[r].pc, used |-> used,
                                   todo |-> used \ listed, own |-> Own(chain), at |-> req[r].at]]
  /\ UNCHANGED <<file, coins, history, txs, pool, mishaps>>

Register(r) ==
  /\ req[r].pc = "register"
  /\ IF req[r].todo = {} THEN req' = [req EXCEPT ![r].pc = "setExt"] /\ UNCHANGED file
     ELSE \E a \in req[r].todo : AddAccount(a) /\ req' = [req EXCEPT ![r].todo = @ \ {a}]
  /\ UNCHANGED <<coins, history, txs, pool, mishaps>>

Highest(branch, used) == {a[2] : a \in {a \in used : a[1] = branch /\ \A b \in used : b[1] = branch => b[2] <= a[2]}}
SetIndex(r) ==
  /\ req[r].pc \in {"setExt", "setChg"}
  /\ LET ext == Highest(0, req[r].used)
         chg == Highest(1, req[r].used)
     IN IF req[r].pc = "setExt"
        THEN /\ Rewrite([file EXCEPT !.ext = IF ext = {} THEN @ ELSE (CHOOSE i \in ext : TRUE) + 1])
             /\ req' = [req EXCEPT ![r].pc = "setChg"]
        ELSE /\ Rewrite([file EXCEPT !.chg = IF chg = {} THEN @ ELSE (CHOOSE i \in chg : TRUE) + 1])
             /\ req' = [req EXCEPT ![r] = Idle]
  /\ UNCHANGED <<coins, history, txs, pool, mishaps>>

-----------------------------------------------------------------------------
(* Blocks, deposits, crashes, and the user who deletes the wallet.           *)

\* A block confirms a transaction that was broadcast, here or elsewhere.
Confirm(t) ==
  /\ t.kind # "deposit" /\ t.ins \subseteq coins
  /\ coins' = (coins \ t.ins) \cup {o \in t.outs : o.addr # Other}
  /\ history' = history \cup Used(t)
  /\ pool' = pool \ {t}
  /\ UNCHANGED <<file, txs, req, mishaps>>

Deposit(a) ==
  /\ a \in file.accounts /\ a[1] = 0 /\ a # Account0 /\ Spent < MaxTx
  /\ LET c == [Coin("root", 1, a, "native", 20, 0, 0) EXCEPT !.n = Cardinality(txs) + 1] IN
     /\ txs' = txs \cup {[n |-> c.n, kind |-> "deposit", chain |-> "root", ins |-> {}, outs |-> {c}]}
     /\ coins' = coins \cup {c}
     /\ history' = history \cup {<<"root", a>>}
  /\ UNCHANGED <<file, pool, req, mishaps>>

Writing(r) ==
  \/ req[r].pc \in {"track", "advance", "new", "account0", "setExt", "setChg"}
  \/ req[r].pc = "register" /\ req[r].todo # {}

\* The pool and the requests are gone; a rewrite that was under way leaves a
\* file that cannot be read.
Crash ==
  /\ mishaps < MaxMishap
  /\ \/ UNCHANGED file
     \/ file.state = "good" /\ (\E r \in Slot : Writing(r)) /\ file' = Torn
  /\ pool' = {} /\ req' = [r \in Slot |-> Idle] /\ mishaps' = mishaps + 1
  /\ UNCHANGED <<coins, history, txs>>

Delete ==
  /\ mishaps < MaxMishap /\ file # Absent
  /\ file' = Absent /\ mishaps' = mishaps + 1
  /\ UNCHANGED <<coins, history, txs, pool, req>>

Next ==
  \/ \E r \in Slot :
       \/ \E q \in Request :
            \/ WalletSend(r, q) \/ WalletSendMany(r, q) \/ WalletConsolidate(r, q)
            \/ WalletStake(r, q) \/ WalletUnstake(r, q) \/ WalletMintToken(r, q)
            \/ WalletSendToken(r, q) \/ WalletCreateSubChain(r, q)
            \/ SubChainSend(r, q) \/ SubChainStake(r, q) \/ SubChainUnstake(r, q)
       \/ Build(r) \/ Add(r) \/ Track(r) \/ IncrementIndex(r)
       \/ NewAddress(r) \/ RegisterNew(r)
       \/ Import(r) \/ FirstAccount(r) \/ \E chain \in Chain : Rescan(r, chain)
       \/ Scan(r) \/ Register(r) \/ SetIndex(r)
  \/ \E t \in txs : Confirm(t)
  \/ \E a \in Address : Deposit(a)
  \/ Crash \/ Delete

Spec == Init /\ [][Next]_vars

-----------------------------------------------------------------------------

\* Whatever is asked, sums that exceed 64 bits included, and whichever way
\* the fee was estimated: a payment that was accepted burns no less than its
\* fee and no more than the fee of one change output it does not have, or the
\* fee of a mint (handleWalletSend and its variants, wallet_handlers.go).
PaysExactly ==
  \A t \in {t \in txs : t.kind # "deposit"} :
    LET fee == Value(t.ins) - Value(t.outs) IN
    \/ fee \in RequiredFee(t)..RequiredFee(t) + 2
    \/ t.kind = "mint" /\ fee = Burn

Tracked(a) ==
  \/ a \in file.accounts
  \/ a[1] = 1 /\ \E r \in Slot : req[r].pc = "track" /\ req[r].idx = a[2]

\* As long as nothing was interrupted, the keystore lists every address that
\* holds or will hold the wallet's money, or a handler is about to list it:
\* two payments that take the same change index, a rescan that sets it back
\* and a stake that selects twice included (Track, AddAccount).
ChangeTracked ==
  mishaps = 0 =>
    /\ \A c \in coins : Tracked(c.addr)
    /\ \A t \in txs : \A o \in t.outs : o.addr # Other => Tracked(o.addr)

\* Concurrent payments skip change indexes, but fewer in a row than there are
\* requests in flight: what an import's gap limit has to bridge
\* (GetChangeIndex before pool.Add, IncrementChangeIndex after it).
GapsBounded ==
  mishaps = 0 =>
    \A i \in 0..file.chg - Cardinality(Slot) :
      \E j \in i..i + Cardinality(Slot) - 1 : Tracked(<<1, j>>)

\* When a rescan ends, the keystore lists every address that held the
\* wallet's money when it looked, whatever was interrupted before and
\* whatever ran beside it; unless the file went away meanwhile.
RescanRecovers ==
  [][\A r \in Slot :
      /\ req[r].pc = "setChg" /\ req[r].kind = "rescan" /\ req'[r] = Idle
      /\ mishaps' = req[r].at /\ file.state = "good"
      => \A c \in req[r].own : c.addr \in file'.accounts]_vars

=============================================================================
