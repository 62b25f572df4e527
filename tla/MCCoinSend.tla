---------------------------- MODULE MCCoinSend -----------------------------
(***************************************************************************)
(* Small instances of CoinSend.  On each chain one payment fits in one     *)
(* coin, one needs several or sweeps the address, and one coin may not be  *)
(* spent.  Amounts are in satoshis, lovelace and stars.                    *)
(***************************************************************************)
EXTENDS CoinSend, TLC

Initially(name, value, registered, since) ==
  [name |-> name, from |-> {}, value |-> value, plain |-> name # "token",
   registered |-> registered, since |-> since]

(* Two equal coins on eCash, whose order is by outpoint.                   *)
MCCoins ==
  [ecash |-> {Initially("token", 9000, FALSE, 0), Initially("a", 2000, FALSE, 0),
              Initially("b", 2000, FALSE, 0), Initially("c", 900, FALSE, 0)},
   cardano |-> {Initially("token", 9000000, FALSE, 0),
                Initially("a", 3000000, FALSE, 0), Initially("b", 2000000, FALSE, 0)},
   midnight |-> {Initially("token", 90, FALSE, 0), Initially("a", 5, FALSE, -2),
                 Initially("b", 4, TRUE, -4), Initially("c", 3, FALSE, -1)}]
(* What may arrive comes after what is there in the order of selection...  *)
LaterDeposits ==
  [ecash |-> {Initially("d", 700, FALSE, 0)},
   cardano |-> {Initially("d", 1500000, FALSE, 0)},
   midnight |-> {Initially("d", 2, FALSE, 1)}]
(* ... or before it.                                                       *)
EarlierDeposits ==
  [LaterDeposits EXCEPT !.ecash = {Initially("d", 5000, FALSE, 0)}]

(* Two equal coins on Cardano, listed in either order.                     *)
EqualCoins ==
  [MCCoins EXCEPT !.cardano = {Initially("a", 3000000, FALSE, 0),
                               Initially("b", 3000000, FALSE, 0)}]
MCAmountOf ==
  [ecash |-> [p |-> 600, q |-> 3500],
   cardano |-> [p |-> 1000000, q |-> 4600000],
   midnight |-> [p |-> 6, q |-> 9]]
MCCeilingOn == [ecash |-> 550, cardano |-> 200000, midnight |-> 9]
MCParams == [a |-> 44, b |-> 155381, perByte |-> 4310]
============================================================================
