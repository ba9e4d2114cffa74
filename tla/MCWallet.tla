----------------------------- MODULE MCWallet -----------------------------
(* Three coins on the root chain, one of them a token, and one on a sub-chain; *)
(* amounts that need one coin, both, or wrap round.                          *)
EXTENDS Wallet, TLC
CONSTANTS r1, r2
Symm == Permutations(Slot)
C(n, chain, kind, value, token, id) ==
  [n |-> 0, pos |-> n, chain |-> chain, addr |-> <<0, 0>>, kind |-> kind,
   value |-> value, token |-> token, id |-> id]
MCGenesis == {C(1, "root", "native", 40, 0, 0), C(2, "root", "native", 17, 0, 0),
              C(3, "root", "token", 0, 5, -1), C(4, "sub", "native", 30, 0, 0)}
Q(kind, chain, pay) == [kind |-> kind, chain |-> chain, pay |-> pay]
MCRequest == {
  Q("send", "root", <<10>>), Q("send", "root", <<250, 12>>), Q("send", "sub", <<8>>), Q("stake", "sub", <<Stake>>), Q("unstake", "sub", <<>>),
  Q("consolidate", "root", <<2>>), Q("stake", "root", <<Stake>>), Q("unstake", "root", <<>>),
  Q("mint", "root", <<3>>), Q("token", "root", <<2>>), Q("register", "root", <<31>>), Q("register", "root", <<33>>)}
=============================================================================
