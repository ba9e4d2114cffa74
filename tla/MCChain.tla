------------------------------ MODULE MCChain -------------------------------
(***************************************************************************)
(* Instances of Chain.  The PoA tree:                                      *)
(*                                                                         *)
(*        G --- M1 --- O2 --- O3         M1 stakes for validator 3         *)
(*         \      \                      O2 withdraws that stake           *)
(*          \      N2 --- N3             N2, P3 register a sub-chain       *)
(*           P1 --- P2 --- P3                                              *)
(*                                                                         *)
(* Work: M1 2, O2 3, O3 5, N2 4, N3 6, P1 2, P2 4, P3 6.                   *)
(***************************************************************************)
EXTENDS ChainProperties, TLC

Row(p, d, ts, v, txs, m) ==
  [parent |-> p, diff |-> d, ts |-> ts, signer |-> v, txs |-> txs, minted |-> m]

\* Slots are equal modulo 6, so that they elect the same validator in a set of
\* two and in a set of three.
PoARows ==
  [G  |-> Row(None, 0, 0, None, <<"g">>, 3),
   M1 |-> Row("G",  2, 1,  2, <<"cM1", "stake">>, 1),
   O2 |-> Row("M1", 1, 7,  1, <<"cO2", "unstake">>, 1),
   O3 |-> Row("O2", 2, 13, 2, <<"cO3", "pay", "spendM1">>, 0),
   N2 |-> Row("M1", 2, 6,  1, <<"cN2", "reg">>, 1),
   N3 |-> Row("N2", 2, 13, 2, <<"cN3", "pay">>, 1),
   P1 |-> Row("G",  2, 0,  1, <<"cP1">>, 1),
   P2 |-> Row("P1", 2, 7,  2, <<"cP2", "pay">>, 1),
   P3 |-> Row("P2", 2, 12, 1, <<"cP3", "reg">>, 1)]

\* The left part of the tree, for the runs in which the process dies anywhere.
CrashRows == [b \in {"G", "M1", "O2", "O3", "N2", "N3"} |-> PoARows[b]]

\* Proof of work that retargets at heights 2 and 4, on a database whose block
\* O1 was written without an undo record: a switch between O and R is undone, one
\* to N, which is lower and heavier since N1 came fast, has to rebuild.  R4 claims
\* twice the difficulty due at its height, N3 breaks a rule: their replays fail.
\*   G --- O1 --- O2 --- O3         O 1, 1, 1   R 1, 1, 8   N 1, 4, 4
\*    \      \---- R2 --- R3 --- R4
\*     \---- N1 --- N2 --- N3
WorkRows ==
  [G  |-> Row(None, 0, 0, None, <<"g">>, 3),
   O1 |-> Row("G",  1, 4, None, <<"cO1", "pay">>, 1),
   O2 |-> Row("O1", 1, 5, None, <<"cO2", "reg">>, 1),
   O3 |-> Row("O2", 1, 6, None, <<"cO3">>, 1),
   R2 |-> Row("O1", 1, 5, None, <<"cR2">>, 1),
   R3 |-> Row("R2", 1, 6, None, <<"cR3">>, 1),
   R4 |-> Row("R3", 8, 7, None, <<"cR4">>, 0),
   N1 |-> Row("G",  1, 1, None, <<"cN1", "reg">>, 1),
   N2 |-> Row("N1", 4, 1, None, <<"cN2", "pay">>, 1),
   N3 |-> Row("N2", 4, 2, None, <<"cN3">>, 0)]

\* No forks at all.
LinearRows == [b \in {"G", "M1", "O2", "O3"} |-> PoARows[b]]

CONSTANT Rows      \* the table of the instance

MCBlock  == DOMAIN Rows
MCParent == [b \in MCBlock |-> Rows[b].parent]
MCDifficulty == [b \in MCBlock |-> Rows[b].diff]
MCTimestamp == [b \in MCBlock |-> Rows[b].ts]
MCSigner == [b \in MCBlock |-> Rows[b].signer]
MCTxsOf  == [b \in MCBlock |-> Rows[b].txs]
MCMinted == [b \in MCBlock |-> Rows[b].minted]

MCHeight ==
  LET f[b \in MCBlock] == IF b = "G" THEN 0 ELSE f[Rows[b].parent] + 1 IN f

MCPath ==
  LET f[b \in MCBlock] ==
        [h \in 0 .. MCHeight[b] |->
           IF h = MCHeight[b] THEN b ELSE f[Rows[b].parent][h]]
  IN f

\* Transactions with an output of their own name; the others are coinbases.
Spending == [stake   |-> {"g3"},
             unstake |-> {"stake"},
             pay     |-> {"g1"},
             spendM1 |-> {"cM1"},
             reg     |-> {"g2"}]

MCTx == UNION {{Rows[b].txs[i] : i \in 1 .. Len(Rows[b].txs)} : b \in MCBlock}
MCTxIn == [t \in MCTx |-> IF t \in DOMAIN Spending THEN Spending[t] ELSE {}]
MCTxOut == [t \in MCTx |-> IF t = "g" THEN {"g1", "g2", "g3"} ELSE {t}]
MCOutpoint == UNION {MCTxOut[t] : t \in MCTx}
MCKind == [o \in MCOutpoint |-> CASE o = "stake" -> "stake"
                                  [] o = "reg" -> "register"
                                  [] OTHER -> "pay"]
MCOwner == [o \in MCOutpoint |-> IF o = "stake" THEN 3 ELSE None]

MCRuleOK == MCBlock \ {"N3"}

MCSubsidy == [b \in MCBlock |-> 1]

MCUtxoAt ==
  LET f[b \in MCBlock] ==
        IF b = "G" THEN Applied({}, b, Size(b))
                   ELSE Applied(f[Rows[b].parent], b, Size(b))
  IN f
MCSupplyAt ==
  LET f[b \in MCBlock] ==
        Rows[b].minted + IF b = "G" THEN 0 ELSE f[Rows[b].parent]
  IN f
MCWorkAt ==
  LET f[b \in MCBlock] ==
        Rows[b].diff + IF b = "G" THEN 0 ELSE f[Rows[b].parent]
  IN f
=============================================================================
