----------------------------- MODULE AccountTx -----------------------------
(***************************************************************************)
(* Transfers on the chains that keep one balance per account: what the EVM *)
(* and Solana clients make of a node's answers (chain/evm/client.rs,       *)
(* chain/solana/client.rs, spl.rs, tx.rs), and what those chains make of   *)
(* the transaction when it lands (external).                               *)
(*                                                                         *)
(* `see` is what the node answered; the chain may have moved by the time   *)
(* the transaction lands, so the same record describes it then as `now`.   *)
(***************************************************************************)
EXTENDS Naturals, Sequences, FiniteSets

CONSTANTS PlainGas,    \* what a transfer without call data costs
          FallbackGas, \* what `erc20 send` takes when no estimate is given
          Rent,        \* the least an account on Solana may hold
          TokenRent    \* the least an account with room for a token's state may

Refuse == [ok |-> FALSE]

(* ------------------------------- EVM ------------------------------------ *)
WithHeadroom(gas) == (gas * 125) \div 100

(* prepare_transfer: the ceiling is asked before the balance, and the      *)
(* balance must cover the value and the gas.  A node may not estimate a    *)
(* call, which ends the transfer.                                          *)
EvmPrepare(value, call, limit, see) ==
  LET gas == IF call THEN WithHeadroom(see.gas) ELSE PlainGas
      fee == see.price * gas
  IN  IF (call /\ ~see.estimates) \/ fee > limit \/ see.coin < value + fee THEN Refuse
      ELSE [ok |-> TRUE, value |-> value, token |-> 0, fee |-> fee, gas |-> gas,
            price |-> see.price, nonce |-> see.nonce, call |-> call]

(* prepare_token_transfer: a call that carries no value, after the         *)
(* contract's decimals and the token balance have been asked.              *)
EvmToken(raw, scale, limit, see) ==
  LET call == EvmPrepare(0, TRUE, limit, see)
  IN  IF see.scale # scale \/ see.held < raw \/ ~call.ok THEN Refuse
      ELSE [call EXCEPT !.token = raw]

(* `erc20 send`: without an estimate it goes on with gas of its own; the   *)
(* fee is held to the network's own ceiling, and nothing asks whether the  *)
(* account can pay it.                                                     *)
ErcPrepare(raw, limit, see) ==
  LET gas == IF see.estimates THEN WithHeadroom(see.gas) ELSE FallbackGas
  IN  IF see.held < raw \/ see.price * gas > limit THEN Refuse
      ELSE [ok |-> TRUE, value |-> 0, token |-> raw, fee |-> see.price * gas, gas |-> gas,
            price |-> see.price, nonce |-> see.nonce, call |-> TRUE]

(* The chain: replay, funds and gas.  A call that runs out of gas or       *)
(* tokens pays and moves nothing.                                          *)
EvmLand(tx, now) ==
  LET need == IF tx.call THEN now.gas ELSE PlainGas
      runs == need <= tx.gas /\ now.held >= tx.token
  IN  IF now.nonce # tx.nonce \/ now.coin < tx.value + tx.fee
      THEN [taken |-> FALSE, paid |-> 0, coin |-> 0, token |-> 0]
      ELSE [taken |-> TRUE, paid |-> tx.price * (IF need <= tx.gas THEN need ELSE tx.gas),
            coin |-> IF runs THEN tx.value ELSE 0, token |-> IF runs THEN tx.token ELSE 0]

(* ------------------------------ Solana ---------------------------------- *)
(* Message::compile: every account once, with the OR of what its mentions  *)
(* ask, in four buckets; the header is three counts.                       *)
Meta(key, signs, writes) == [key |-> key, signs |-> signs, writes |-> writes]
Asked(metas, key) == LET of == {i \in DOMAIN metas : metas[i].key = key}
                     IN  Meta(key, \E i \in of : metas[i].signs, \E i \in of : metas[i].writes)
Merged(metas) ==
  LET new == SelectSeq([i \in DOMAIN metas |-> i],
                       LAMBDA i : \A j \in 1..(i-1) : metas[j].key # metas[i].key)
  IN  [k \in DOMAIN new |-> Asked(metas, metas[new[k]].key)]
Bucket(metas, signs, writes) ==
  SelectSeq(metas, LAMBDA m : m.signs = signs /\ m.writes = writes)
CompileInOrder(metas) ==
  LET all == Merged(metas)
  IN  [keys |-> [i \in DOMAIN all |-> all[i].key],
       signing |-> Len(SelectSeq(all, LAMBDA m : m.signs)),
       signOnly |-> Len(SelectSeq(all, LAMBDA m : m.signs /\ ~m.writes)),
       readOnly |-> Len(SelectSeq(all, LAMBDA m : ~m.signs /\ ~m.writes))]
Compile(metas) ==
  LET all == Merged(metas)
      seq == Bucket(all, TRUE, TRUE) \o Bucket(all, TRUE, FALSE)
             \o Bucket(all, FALSE, TRUE) \o Bucket(all, FALSE, FALSE)
  IN  [keys |-> [i \in DOMAIN seq |-> seq[i].key],
       signing |-> Len(SelectSeq(seq, LAMBDA m : m.signs)),
       signOnly |-> Len(SelectSeq(seq, LAMBDA m : m.signs /\ ~m.writes)),
       readOnly |-> Len(SelectSeq(seq, LAMBDA m : ~m.signs /\ ~m.writes))]

(* The two instructions and the accounts they mention; the payer is first. *)
Payer == Meta("sender", TRUE, TRUE)
CreateAccount == <<Payer, Meta("theirs", FALSE, TRUE), Meta("recipient", FALSE, FALSE),
                   Meta("mint", FALSE, FALSE), Meta("system", FALSE, FALSE),
                   Meta("tokens", FALSE, FALSE)>>
TransferChecked == <<Meta("ours", FALSE, TRUE), Meta("mint", FALSE, FALSE),
                     Meta("theirs", FALSE, TRUE), Meta("sender", TRUE, FALSE)>>
SystemTransfer == <<Payer, Meta("recipient", FALSE, TRUE)>>
Programs(create) == IF create THEN <<Meta("associated", FALSE, FALSE), Meta("tokens", FALSE, FALSE)>>
                    ELSE <<Meta("tokens", FALSE, FALSE)>>

(* prepare_transfer: ceiling, balance, then neither side left with less    *)
(* than the rent-exempt minimum and more than nothing.                     *)
SolPrepareRest(value, limit, see) ==
  LET needed == value + see.fee
  IN  IF see.fee > limit \/ see.coin < needed \/ see.dest + value < Rent THEN Refuse
      ELSE [ok |-> TRUE, value |-> value, token |-> 0, fee |-> see.fee, quote |-> see.fee, create |-> FALSE,
            hash |-> see.hash, metas |-> <<Payer>> \o SystemTransfer \o <<Meta("system", FALSE, FALSE)>>]
SolPrepare(value, limit, see) ==
  LET needed == value + see.fee
      rest   == see.coin - needed
  IN  IF \/ see.fee > limit
         \/ see.coin < needed
         \/ see.dest + value < Rent
         \/ rest \in 1..(Rent - 1)
      THEN Refuse
      ELSE [ok |-> TRUE, value |-> value, token |-> 0, fee |-> see.fee, quote |-> see.fee, create |-> FALSE,
            hash |-> see.hash, metas |-> <<Payer>> \o SystemTransfer \o <<Meta("system", FALSE, FALSE)>>]

(* prepare_token_transfer: the recipient's token account is made when the  *)
(* node knows none, and its rent is part of what the transfer costs.       *)
SolToken(raw, scale, limit, see) ==
  LET create == ~see.exists
      cost   == see.fee + (IF create THEN TokenRent ELSE 0)
  IN  IF see.scale # scale \/ see.held < raw \/ cost > limit \/ see.coin < cost THEN Refuse
      ELSE [ok |-> TRUE, value |-> 0, token |-> raw, fee |-> cost, quote |-> see.fee, create |-> create,
            hash |-> see.hash,
            metas |-> <<Payer>> \o (IF create THEN CreateAccount ELSE <<>>)
                      \o TransferChecked \o Programs(create)]

(* The chain: a recent blockhash, funds, and no account left below the     *)
(* minimum.  A token transfer that fails pays the fee and moves nothing.   *)
SolLand(tx, now) ==
  LET rent == IF tx.create /\ ~now.exists THEN TokenRent ELSE 0
      rest == now.coin - (tx.value + tx.quote + rent)
      runs == (tx.token > 0) => (now.held >= tx.token /\ (tx.create \/ now.exists))
  IN  IF \/ now.hash # tx.hash
         \/ rest < 0 \/ rest \in 1..(Rent - 1)
         \/ tx.value > 0 /\ now.dest + tx.value < Rent
      THEN [taken |-> FALSE, paid |-> 0, coin |-> 0, token |-> 0]
      ELSE [taken |-> TRUE, paid |-> tx.quote + (IF runs THEN rent ELSE 0),
            coin |-> tx.value, token |-> IF runs THEN tx.token ELSE 0]

(* What the cluster lets an account do, read from its place in the table.  *)
Signs(msg, i) == i <= msg.signing
Writes(msg, i) == \/ i <= msg.signing - msg.signOnly
                  \/ i > msg.signing /\ i <= Len(msg.keys) - msg.readOnly
=============================================================================
