----------------------------- MODULE MCHistory -----------------------------
(* A wallet with two addresses: it mines, is paid, pays with change, stakes *)
(* and unstakes, consolidates, mints and sends a token.                     *)
EXTENDS History

In(x, i, a) == [from |-> <<x, i>>, addr |-> a]
Out(s, a, v, t) == [script |-> s, addr |-> a, value |-> v, token |-> t]
T(in, outs) == [coinbase |-> FALSE, ins |-> in, outs |-> outs]
Txs == [
  mined   |-> [coinbase |-> TRUE, ins |-> {}, outs |-> <<Out("p2pkh", "a", 9, 0)>>],
  paid    |-> T({In("ext", 1, "o")}, <<Out("p2pkh", "a", 4, 0), Out("p2pkh", "o", 1, 0)>>),
  others  |-> T({In("ext", 2, "o")}, <<Out("p2pkh", "o", 2, 0)>>),
  pays    |-> T({In("mined", 1, "a")}, <<Out("p2pkh", "o", 3, 0), Out("p2pkh", "b", 5, 0)>>),
  stakes  |-> T({In("pays", 2, "b")}, <<Out("stake", "a", 2, 0), Out("p2pkh", "b", 2, 0)>>),
  returns |-> T({In("stakes", 1, "a")}, <<Out("p2pkh", "a", 1, 0)>>),
  merges  |-> T({In("pays", 2, "b"), In("paid", 1, "a")}, <<Out("p2pkh", "b", 8, 0)>>),
  mints   |-> T({In("paid", 1, "a")}, <<Out("mint", "a", 0, 7), Out("p2pkh", "b", 1, 0)>>),
  gives   |-> T({In("mints", 1, "a"), In("mints", 2, "b")},
                <<Out("p2pkh", "o", 0, 4), Out("p2pkh", "a", 0, 3)>>),
  opens   |-> T({In("mined", 1, "a")}, <<Out("register", "none", 6, 0), Out("p2pkh", "b", 2, 0)>>),
  gets    |-> T({In("ext", 3, "o")}, <<Out("p2pkh", "b", 0, 6)>>)]

MCBlocks == {<<>>, <<"mined", "paid">>, <<"pays", "stakes">>, <<"others", "mints", "gets">>,
             <<"returns">>, <<"opens">>, <<"gives">>, <<"pays", "merges">>}

\* What the wallet makes is what the proof about the balance asks for.
ASSUME MCOrdinary == \A x \in DOMAIN Tx : Ordinary(x)
=============================================================================
