------------------------------- MODULE MCSync -------------------------------
(***************************************************************************)
(* Block trees for Sync.                                                   *)
(*   G --- a1 --- a2       a1 and b1 are tied, a2 outweighs b2.            *)
(*    \--- b1 --- b2                                                       *)
(***************************************************************************)
EXTENDS Sync

Row(p, d, m) == [parent |-> p, diff |-> d, by |-> m]

\* A tie and a reorg.
MidRows ==
  [G  |-> Row(None, 0, 1),
   a1 |-> Row("G", 2, 1), a2 |-> Row("a1", 2, 2),
   b1 |-> Row("G", 2, 2), b2 |-> Row("b1", 1, 2)]

\* The tie alone.

CONSTANT Rows

MCBlock == DOMAIN Rows
MCParent == [b \in MCBlock |-> Rows[b].parent]
MCProducer == [b \in MCBlock |-> Rows[b].by]
MCHeight ==
  LET f[b \in MCBlock] == IF b = "G" THEN 0 ELSE f[Rows[b].parent] + 1 IN f
MCWork ==
  LET f[b \in MCBlock] ==
        Rows[b].diff + IF b = "G" THEN 0 ELSE f[Rows[b].parent] IN f
MCPath ==
  LET f[b \in MCBlock] ==
        [h \in 0 .. MCHeight[b] |->
           IF h = MCHeight[b] THEN b ELSE f[Rows[b].parent][h]] IN f
=============================================================================
