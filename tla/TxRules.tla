------------------------------ MODULE TxRules ------------------------------
(***************************************************************************)
(* What makes a transaction valid against a set of unspent outputs, when   *)
(* it is signed with the keys of one wallet: pkg/tx and internal/token.    *)
(*                                                                         *)
(* An output is [n, pos, chain, addr, kind, value, token, id]: where it    *)
(* was made, whom it pays, its kind of script, its value and, for kinds    *)
(* token and mint, an amount of a token.  Token 0 is the one a transaction *)
(* under construction mints, as its identity comes from its first input.   *)
(***************************************************************************)
EXTENDS Integers, FiniteSets, FiniteSetsExt

CONSTANTS
  Other,            \* an address that is not the wallet's
  MaxTokenAmount,
  Word              \* 2^64

Value(cs)  == MapThenSumSet(LAMBDA c : c.value, cs)
Amount(cs) == MapThenSumSet(LAMBDA c : c.token, cs)
Wrap(n)    == n % Word

Tokens(cs) == {c \in cs : c.kind \in {"token", "mint"}}
TokenIDs(cs) == {c.id : c \in Tokens(cs)}
OfToken(cs, id) == {c \in Tokens(cs) : c.id = id}
HasMintOutput(t) == \E o \in t.outs : o.kind = "mint"

\* A size counts 2 for an input and 2 for a plain output; the data of other
\* outputs make them longer.
Extra == [native |-> 0, stake |-> 1, token |-> 3, mint |-> 3, register |-> 3]
EstimateTxFee(in, out) == 2 * in + 2 * out
RequiredFee(t) == 2 * Cardinality(t.ins) + MapThenSumSet(LAMBDA o : 2 + Extra[o.kind], t.outs)

\* An output has a value or a token, a mint a token only, and the sum of the
\* values fits a word.
ValidateStructure(t) ==
  /\ t.ins # {} /\ t.outs # {}
  /\ \A o \in t.outs : /\ o.value = 0 => o.kind \in {"token", "mint"}
                       /\ o.kind = "mint" => o.value = 0
  /\ Value(t.outs) < Word

\* A registration cannot be spent, anything else by the key it names.
Spendable(c) == c.kind # "register" /\ c.addr # Other

ValidateWithUTXOs(t, utxos) ==
  /\ ValidateStructure(t)
  /\ t.ins \subseteq utxos /\ \A c \in t.ins : Spendable(c)
  /\ Value(t.ins) < Word /\ Value(t.ins) >= Value(t.outs)

\* A mint makes its own token and spends none of it; of every other token as
\* much goes out as comes in.
ValidateTokens(t) ==
  LET minted == {o.id : o \in {o \in t.outs : o.kind = "mint"}} IN
  /\ minted \subseteq {0} /\ minted \cap TokenIDs(t.ins) = {}
  /\ \A o \in Tokens(t.outs) : o.token \in (IF o.kind = "mint" THEN 1 ELSE 0) .. MaxTokenAmount
  /\ \A id \in (TokenIDs(t.ins) \cup TokenIDs(t.outs)) \ minted :
       Amount(OfToken(t.ins, id)) = Amount(OfToken(t.outs, id))
=============================================================================
