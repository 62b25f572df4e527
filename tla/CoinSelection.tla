--------------------------- MODULE CoinSelection ---------------------------
(***************************************************************************)
(* Coin selection, fee and change, as the three builders of transactions   *)
(* with coins do it: Builder::build_transfer of chain/ecash/tx.rs,         *)
(* TxBuilder::build_transfer of chain/cardano/tx.rs, and the selection of  *)
(* chain/midnight/client.rs.                                               *)
(*                                                                         *)
(* A rule says what differs between the first two: the least a payment may *)
(* be, the least change the network carries, the fee of k inputs and o     *)
(* outputs, and whether the remainder a sweep adds to the fee is held to   *)
(* the ceiling too.  Coins come as the running totals of their values, in  *)
(* the order they are taken: total[k] is what the first k are worth.       *)
(***************************************************************************)
EXTENDS Integers, Sequences

Rules == [least : Nat, dust : Nat, fee : [{1, 2} -> [Nat -> Nat]],
          sweepHeld : BOOLEAN]

(* Running totals of a sequence of values.                                 *)
Totals(values) ==
  LET total[k \in 0 .. Len(values)] ==
        IF k = 0 THEN 0 ELSE total[k - 1] + values[k]
  IN  total

----------------------------------------------------------------------------
(* eCash: the size of a signed transaction, signatures at their longest,   *)
(* at a satoshi a byte; every output goes to a public key hash.            *)

Varint(n) == IF n < 253 THEN 1 ELSE 3
SignedSize(k, o) == 8 + Varint(k) + Varint(o) + 148 * k + 34 * o

EcashRule ==
  [least |-> 546, dust |-> 546, sweepHeld |-> TRUE,
   fee |-> [o \in {1, 2} |-> [k \in Nat |-> SignedSize(k, o)]]]

----------------------------------------------------------------------------
(* Cardano: the CBOR of a transaction whose numbers are at their widest    *)
(* (inputs at indexes below 24, a ttl of four bytes, base addresses), at   *)
(* the protocol's linear fee.                                              *)

HeadSize(n) == CASE n < 24 -> 1 [] 24 <= n /\ n < 256 -> 2
             [] 256 <= n /\ n < 65536 -> 3 [] OTHER -> 5
BodySize(k, o) ==
  (1 + 1 + HeadSize(258) + HeadSize(k)) + k * (1 + HeadSize(32) + 32 + HeadSize(0))
  + (1 + HeadSize(o)) + o * (1 + HeadSize(57) + 57 + 9) + (1 + 9) + (1 + 5)
WitnessSize == (1 + 1 + HeadSize(258) + HeadSize(1)) + 1 + HeadSize(32) + 32 + HeadSize(64) + 64
TxSize(k, o) == 1 + BodySize(k, o) + WitnessSize + 2

(* The protocol parameters are the endpoint's.                             *)
MinAda(params, lovelace) ==
  params.perByte * (1 + HeadSize(57) + 57
    + HeadSize(IF lovelace > 1000000 THEN lovelace ELSE 1000000) + 160)

CardanoRule(params, amount) ==
  [least |-> MinAda(params, amount), dust |-> MinAda(params, 0),
   sweepHeld |-> FALSE,
   fee |-> [o \in {1, 2} |->
              [k \in Nat |-> params.a * TxSize(k, o) + params.b]]]

----------------------------------------------------------------------------
(* One call of build_transfer: n coins, their running totals, the amount   *)
(* and the ceiling.                                                        *)

Refused(why) == [result |-> why, inputs |-> 0, change |-> 0, fee |-> 0]
Built(k, change, fee) ==
  [result |-> "built", inputs |-> k, change |-> change, fee |-> fee]

(* check_fee: a fee above the ceiling is never signed for.                 *)
CheckFee(ceiling, fee, next) == IF fee > ceiling THEN Refused("ceiling") ELSE next

(* A pass over the coins, with o outputs: it ends at the first count of    *)
(* inputs whose fee is past the ceiling, or that pays for everything and   *)
(* leaves change the network carries, or none to be returned.              *)
Remainder(rule, total, amount, k, o) == total[k] - amount - rule.fee[o][k]
Ends(rule, total, amount, ceiling, k, o) ==
  \/ rule.fee[o][k] > ceiling
  \/ Remainder(rule, total, amount, k, o) >= IF o = 2 THEN rule.dust ELSE 0
Stops(rule, n, total, amount, ceiling, o) ==
  {k \in 1 .. n : Ends(rule, total, amount, ceiling, k, o)}
First(S) == CHOOSE k \in S : \A j \in S : k <= j

(***************************************************************************)
(* Slips: mistakes a change to the builders could make, for the mutants.   *)
(***************************************************************************)

(* The leftover of a sweep is dropped from the fee that is reported.       *)
PassEndLosing(rule, total, amount, ceiling, k, o) ==
  LET fee == rule.fee[o][k] IN
  CheckFee(ceiling, fee,
    Built(k, IF o = 2 THEN Remainder(rule, total, amount, k, o) ELSE 0, fee))

(* There is no second pass.                                                *)
SelectKeeping(rule, n, total, amount, ceiling) ==
  LET keeping == Stops(rule, n, total, amount, ceiling, 2)
  IN  CASE keeping = {} -> Refused("insufficient")
        [] amount < rule.least -> Refused("amount")
        [] OTHER -> Built(First(keeping),
             Remainder(rule, total, amount, First(keeping), 2),
             rule.fee[2][First(keeping)])

(* What the coins have accrued is not compared with the fee.               *)
MidnightFeeUnpaid(result, estimate, allowance, ceiling) ==
  IF estimate > ceiling THEN "ceiling" ELSE "built"

----------------------------------------------------------------------------
(* What a pass that ends at k returns: with two outputs the change, with   *)
(* one the remainder as an extra fee.                                      *)
PassEnd(rule, total, amount, ceiling, k, o) ==
  LET fee == rule.fee[o][k]
      rest == Remainder(rule, total, amount, k, o)
  IN  CheckFee(ceiling, fee,
        IF o = 2 THEN Built(k, rest, fee)
        ELSE IF rule.sweepHeld THEN CheckFee(ceiling, fee + rest,
                                             Built(k, 0, fee + rest))
        ELSE Built(k, 0, fee + rest))

Select(rule, n, total, amount, ceiling) ==
  LET keeping == Stops(rule, n, total, amount, ceiling, 2)
      sweeping == Stops(rule, n, total, amount, ceiling, 1)
  IN  CASE n = 0 -> Refused("insufficient")
        [] n > 0 /\ amount < rule.least -> Refused("amount")
        [] n > 0 /\ amount >= rule.least /\ keeping # {} ->
             PassEnd(rule, total, amount, ceiling, First(keeping), 2)
        [] n > 0 /\ amount >= rule.least /\ keeping = {} /\ sweeping # {} ->
             PassEnd(rule, total, amount, ceiling, First(sweeping), 1)
        [] OTHER -> Refused("insufficient")

----------------------------------------------------------------------------
(* Midnight: outputs never registered for DUST pay their own fee, so they  *)
(* alone are taken when they cover the amount; otherwise any, and the fee  *)
(* needs a proved DUST spend.  Coins are taken oldest first until they     *)
(* cover the amount.  What they have accrued since must cover one and a    *)
(* half times the estimated fee; a proved spend pays just that.            *)

TakenFor(n, total, amount) == First({k \in 1 .. n : total[k] >= amount})
WithMargin(fee) == fee + fee \div 2
MidnightSelect(proofless, n, total, amount) ==
  IF n = 0 \/ total[n] < amount THEN Refused("insufficient")
  ELSE LET k == TakenFor(n, total, amount)
       IN  [result |-> IF proofless THEN "proofless" ELSE "proved",
            inputs |-> k, change |-> total[k] - amount, fee |-> 0]
MidnightFee(result, estimate, allowance, ceiling) ==
  CASE result = "proofless" /\ allowance < WithMargin(estimate) -> "insufficient"
    [] result = "proved" \/ allowance >= WithMargin(estimate) ->
         IF estimate > ceiling THEN "ceiling" ELSE "built"

----------------------------------------------------------------------------
(* Properties of a selection, of the values the builders are given.        *)

(* No satoshi or lovelace is lost: inputs pay for the amount, the change   *)
(* and the fee, exactly.  (TxBody::imbalance, Transaction::fee.)           *)
Balanced(n, total, amount, out) ==
  out.result = "built" =>
    out.inputs \in 1 .. n /\ total[out.inputs] = amount + out.change + out.fee

(* What was built will be carried: the fee covers the size it was measured *)
(* for, and neither the payment nor the change is dust.                    *)
Relayed(rule, amount, out) ==
  out.result = "built" =>
    /\ amount >= rule.least
    /\ \/ out.change = 0 /\ out.fee >= rule.fee[1][out.inputs]
       \/ out.change >= rule.dust /\ out.fee >= rule.fee[2][out.inputs]

(* The ceiling bounds what is signed for; where the sweep is not held to   *)
(* it (Cardano), it is passed by less than the least change.               *)
Bounded(rule, ceiling, out) ==
  out.result = "built" =>
    out.fee <= ceiling \/ (~rule.sweepHeld /\ out.fee < ceiling + rule.dust)

(* A refusal for want of funds is the truth: no count of inputs covers the *)
(* amount and the fee of a transaction without change.                     *)
TrulyShort(rule, n, total, amount, out) ==
  out.result = "insufficient" =>
    \A k \in 1 .. n : total[k] < amount + rule.fee[1][k]
============================================================================
