------------------------------- MODULE Ledger -------------------------------
(***************************************************************************)
(* What the chain promises to the rest of the node (mempool, miner, RPC):  *)
(* a tip and the UTXO set of that tip, changing together, the tip always   *)
(* moving to more work.  How the UTXO set is updated, what is indexed and  *)
(* in which order things are written is none of the caller's business.     *)
(* A crash may cost a reorg in progress, and then the node resumes on a    *)
(* prefix of the branch it was switching to; it costs nothing else.        *)
(***************************************************************************)
EXTENDS BlockTree

VARIABLES up, chainTip, ledger

lvars == <<up, chainTip, ledger>>

LInit == up = TRUE /\ chainTip = StartTip /\ ledger = UtxoAt[StartTip]

\* The chain grows by a block, or a reorg replaces its end.
Advance(b) ==
  /\ up
  /\ WorkAt[b] > WorkAt[chainTip]
  /\ chainTip' = b /\ ledger' = UtxoAt[b]
  /\ UNCHANGED up

\* The tip a crash leaves: the same one, or a block of a heavier branch.
Die(b) ==
  /\ up
  /\ \/ b = chainTip
     \/ \E c \in Block : /\ WorkAt[c] > WorkAt[chainTip]
                         /\ \E h \in 0 .. Height[c] : b = Path[c][h]
  /\ up' = FALSE
  /\ chainTip' = b /\ ledger' = UtxoAt[b]

Resume == ~ up /\ up' = TRUE /\ UNCHANGED <<chainTip, ledger>>

LNext == Resume \/ \E b \in Block : Advance(b) \/ Die(b)

LSpec == LInit /\ [][LNext]_lvars
=============================================================================
