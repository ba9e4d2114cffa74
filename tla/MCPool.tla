------------------------------ MODULE MCPool ------------------------------
(* A small pool: b conflicts with a and pays more, c spends a's output, d     *)
(* spends the coinbase of another node's first block.                        *)
EXTENDS Pool, TLC
CONSTANTS a, b, c, d
MCIns  == [t \in Tx |-> ((a :> {"x"}) @@ (b :> {"x", "y"}) @@ (c :> {"fromA"}) @@ (d :> {"coin1"}))[t]]
MCOuts == [t \in Tx |-> ((a :> {"fromA"}) @@ (b :> {}) @@ (c :> {}) @@ (d :> {}))[t]]
MCRate == [t \in Tx |-> ((a :> 2) @@ (b :> 3) @@ (c :> 1) @@ (d :> 3))[t]]
MCOutpoint == {"x", "y", "fromA", "coin1", "coin2", "coin3"}
MCStart == {"x", "y"}
MCCoin  == [i \in 1..MaxHeight |-> <<"coin1", "coin2", "coin3">>[i]]
=============================================================================
