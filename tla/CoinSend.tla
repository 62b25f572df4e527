----------------------------- MODULE CoinSend ------------------------------
(***************************************************************************)
(* Payments on the chains whose wallet spends coins: the EcashClient,      *)
(* CardanoClient and MidnightClient of rustcli/core/src/chain, driven by   *)
(* plan_send and execute_send of app.rs, over the replayed history and one *)
(* chain.  Several processes pay from one address; requests are delayed or *)
(* lost and processes may die at any point.                                *)
(*                                                                         *)
(* The three chains differ in what a wallet sees: Chronik shows what its   *)
(* mempool did to an address, Koios and the Midnight indexer only what is  *)
(* in blocks.  They differ in how coins are ordered and picked, and in     *)
(* whether a transaction expires.                                          *)
(***************************************************************************)
EXTENDS CoinSelection, DustSync, FiniteSets, SequencesExt

CONSTANTS
  Payment,    \* payments the user wants made, each at most once
  AmountOf,   \* [chain -> [Payment -> amount]]
  Coins,      \* [chain -> what the address holds at first]
  Deposits,   \* [chain -> coins others may send it]
  CeilingOn,  \* [chain -> the most fees may come to]
  Params,     \* Cardano's protocol parameters
  Estimate,   \* the ledger's fee estimate of a Midnight transaction
  Rate, Cap,  \* DUST a unit of NIGHT accrues per slot, and at most
  Backdate,   \* slots before its making that a Midnight transfer declares
  MaxSends,   \* bound: sends started
  MaxSlot,    \* bound: the clock
  Slack       \* slots until a Cardano or Midnight transaction expires

Chain == {"ecash", "cardano", "midnight"}

(* Amounts, values and fees are unsigned; a wallet lists finitely many     *)
(* coins; one made before the first slot has a negative `since`, one of    *)
(* unknown age one after every slot: it comes last and accrues nothing.    *)
ASSUME CoinConstants ==
  /\ \A on \in Chain :
       /\ IsFiniteSet(Coins[on])
       /\ \A c \in Coins[on] \cup Deposits[on] : c.value \in Nat /\ c.since \in Int
       /\ \A p \in Payment : AmountOf[on][p] \in Nat
       /\ CeilingOn[on] \in Nat
  /\ Params.a \in Nat /\ Params.b \in Nat /\ Params.perByte \in Nat
  /\ Estimate \in Nat /\ Rate \in Nat /\ Cap \in Nat /\ Backdate \in Nat

(* A coin: the transaction it is the change of, if any; its value; whether *)
(* it is plain (no token, asset, datum or young coinbase rides on it); on  *)
(* Midnight, whether it was registered for DUST, and its age.              *)
Coin(name, from, value, registered, since) ==
  [name |-> name, from |-> from, value |-> value, plain |-> name # "token",
   registered |-> registered, since |-> since]

VARIABLES
  chain,   \* the chain this behaviour is about
  held,    \* the coins others sent the address
  history, \* the transactions history.jsonl has a record of
  pc,      \* [Handle -> where its command is]
  work,    \* [Handle -> what it is about]
  wire,    \* transactions on their way to the node
  pool,    \* the node's mempool
  mined,   \* transactions in blocks, as [tx, change since]
  slot,    \* the clock
  sends    \* sends started

vars == <<chain, held, history, pc, work, wire, pool, mined, slot, sends, dustVars>>
net == <<held, wire, pool, mined, slot>>

NoWork == [pay |-> "none", asked |-> "none", coins |-> <<>>,
           out |-> Refused("none"), txs |-> {}, now |-> 0]

Init ==
  /\ chain \in Chain
  /\ held = Coins[chain]
  /\ history = {} /\ wire = {} /\ pool = {} /\ mined = {}
  /\ pc = [h \in Handle |-> "idle"]
  /\ work = [h \in Handle |-> NoWork]
  /\ slot = 0 /\ sends = 0
  /\ DustInit /\ (chain = "midnight" \/ log = MaxEvents)

----------------------------------------------------------------------------
(* The chain (external).                                                   *)

Value(S) == SumFunction([c \in S |-> c.value])
SpentBy(S) == UNION {t.ins : t \in S}
ChangeOf(t) == IF t.change = 0 THEN {}
               ELSE {Coin("change", {t}, t.change, chain = "midnight", t.made)}
ChangesOf(S) == UNION {ChangeOf(t) : t \in S}
Unspent(S) == (held \cup ChangesOf(S)) \ SpentBy(S)

(* Whether the node takes a transaction: its coins are there, whether in a *)
(* block or in the pool, and it has not expired.                           *)
Lives(t) == chain = "ecash" \/ slot <= t.made + Slack
Deliver(t) ==
  /\ t \in wire
  /\ wire' = wire \ {t}
  /\ pool' = IF t.ins \subseteq Unspent(pool \cup mined) /\ Lives(t)
               THEN pool \cup {t} ELSE pool
  /\ UNCHANGED <<chain, held, history, pc, work, mined, slot, sends, dustVars>>

LoseRequest(t) ==
  /\ t \in wire
  /\ wire' = wire \ {t}
  /\ UNCHANGED <<chain, held, history, pc, work, pool, mined, slot, sends, dustVars>>

Mine(t) ==
  /\ t \in pool /\ Lives(t)
  /\ t.ins \subseteq Unspent(mined)
  /\ pool' = pool \ {t}
  /\ mined' = mined \cup {t}
  /\ UNCHANGED <<chain, held, history, pc, work, wire, slot, sends, dustVars>>

(* A pool forgets a transaction, and what builds on it.                    *)
Evict(t) ==
  /\ t \in pool
  /\ pool' = {u \in pool \ {t} : u.ins \cap ChangeOf(t) = {}}
  /\ UNCHANGED <<chain, held, history, pc, work, wire, mined, slot, sends, dustVars>>

Tick ==
  /\ chain # "ecash" /\ slot < MaxSlot
  /\ slot' = slot + 1
  /\ pool' = {t \in pool : slot' <= t.made + Slack}
  /\ UNCHANGED <<chain, held, history, pc, work, wire, mined, sends, dustVars>>

(* Somebody pays the address.                                              *)
Deposit(c) ==
  /\ c.since <= slot
  /\ held' = held \cup {c}
  /\ UNCHANGED <<chain, history, pc, work, wire, pool, mined, slot, sends, dustVars>>

----------------------------------------------------------------------------
(* What the wallet reads.                                                  *)

(* The coins listed: Chronik's mempool counts, Koios's does not.  The      *)
(* Midnight indexer replays what was ever created for the address, each    *)
(* with the transaction that spent it, if one did.                         *)
EcashListed == Unspent(pool \cup mined)
CardanoListed == Unspent(mined)
SpentAt(c) == {t \in mined : c \in t.ins}
NightListed == {c \in held \cup ChangesOf(mined) : SpentAt(c) = {}}
Listed == CASE chain = "ecash" -> EcashListed
            [] chain = "cardano" -> CardanoListed
            [] chain = "midnight" -> NightListed

(***************************************************************************)
(* Slips: mistakes a change to the clients could make, for the mutants.    *)
(***************************************************************************)

(* The coins are tried in the order Chronik lists them.                    *)
PrecedesByValue(a, b) ==
  IF chain = "midnight" THEN a.since < b.since ELSE a.value > b.value

(* The broadcast does not wait for the record.                             *)
SubmitUnrecorded(h) ==
  /\ pc[h] \in {"planned", "recorded"}
  /\ wire' = wire \cup work[h].txs
  /\ pc' = [pc EXCEPT ![h] = "asked"]
  /\ UNCHANGED <<chain, held, history, work, pool, mined, slot, sends, dustVars>>

----------------------------------------------------------------------------
(* The order they are tried in: the largest first; among equals eCash has  *)
(* an order of its own, Cardano takes the one they were listed in.  On     *)
(* Midnight the oldest first, and those of unknown age last.               *)
Outpoint(c) == CHOOSE n \in 1 .. 6 :
                 c.name = <<"token", "a", "b", "c", "d", "change">>[n]
Precedes(a, b) ==
  CASE chain = "ecash" -> \/ a.value > b.value
                          \/ a.value = b.value /\ Outpoint(a) < Outpoint(b)
    [] chain = "cardano" -> a.value > b.value
    [] chain = "midnight" -> a.since < b.since
Orders(S) ==
  {s \in [1 .. Cardinality(S) -> S] :
     \A i, j \in DOMAIN s : i < j => s[i] # s[j] /\ ~ Precedes(s[j], s[i])}

Values(s) == [i \in DOMAIN s |-> s[i].value]
Rule(p) == IF chain = "ecash" THEN EcashRule
           ELSE CardanoRule(Params, AmountOf[chain][p])

Taken(s, k) == {s[i] : i \in 1 .. k}

(* build_proofless, and the node after it: what coins have accrued by the  *)
(* time a transfer made `now` declares.                                    *)
Accrued(c, now) == LET age == now - Backdate - c.since
                   IN  IF age <= 0 THEN 0 ELSE IF age * Rate > Cap THEN Cap ELSE age * Rate
Allowance(S, now) == SumFunction([c \in S |-> c.value * Accrued(c, now)])

(* transaction, which `tx` asks: Chronik knows of what is in the mempool    *)
(* too, Koios and the Midnight indexer of what is in a block.              *)
KnownOnEcash(t) == t \in mined \cup pool
KnownOnCardano(t) == t \in mined
KnownOnMidnight(t) == t \in mined
Known(t) == CASE chain = "ecash" -> KnownOnEcash(t)
              [] chain = "cardano" -> KnownOnCardano(t)
              [] chain = "midnight" -> KnownOnMidnight(t)

(* The user pays again when no process is paying, and `tx` finds nothing   *)
(* of what the history names for the payment.                              *)
Careful(p) ==
  /\ \A h \in Handle : work[h].pay # p
  /\ \A t \in history : t.pay = p => ~Known(t)

(* The transaction a selection comes to.  Its id is a hash of all of this; *)
(* a Midnight transaction holds random numbers too.                        *)
TxOf(p, coins, out, now) ==
  [pay |-> p, ins |-> Taken(coins, out.inputs), change |-> out.change,
   fee |-> out.fee, made |-> now, nonce |-> IF chain = "midnight" THEN sends ELSE 0]

----------------------------------------------------------------------------
(* The command.                                                            *)

Spendable(S) == {c \in S : c.plain}

(* Signed, or refused and done.                                            *)
Planned(h, p, coins, out, now) ==
  LET good == out.result \in {"built", "proofless", "proved"}
  IN  /\ pc' = [pc EXCEPT ![h] = IF good THEN "planned" ELSE "idle"]
      /\ work' = [work EXCEPT ![h] =
           [pay |-> IF good THEN p ELSE "none", asked |-> p, coins |-> coins,
            out |-> out, txs |-> IF good THEN {TxOf(p, coins, out, now)} ELSE {},
            now |-> now]]

(* prepare_transfer: eCash and Cardano list, select and sign.              *)
Prepare(h, p) ==
  /\ chain # "midnight"
  /\ pc[h] = "idle" /\ sends < MaxSends /\ Careful(p)
  /\ sends' = sends + 1
  /\ \E coins \in Orders(Spendable(Listed)) :
       Planned(h, p, coins, Select(Rule(p), Len(coins), Totals(Values(coins)),
                                   AmountOf[chain][p], CeilingOn[chain]), slot)
  /\ UNCHANGED <<chain, history, net, dustVars>>

(* The coins that pay their own fee, and whether they cover the amount.    *)
Own(S) == {c \in Spendable(S) : ~ c.registered}
Unregistered(p) == Value(Own(Listed)) >= AmountOf[chain][p]

(* prepare_transfer on Midnight: the coins are picked and the clock read;  *)
(* unless those that pay their own fee cover the amount, the dust state is *)
(* synced next, and what is built then is dated from before.               *)
PrepareNight(h, p) ==
  /\ chain = "midnight"
  /\ pc[h] = "idle" /\ sends < MaxSends /\ Careful(p)
  /\ sends' = sends + 1
  /\ \E coins \in Orders(IF Unregistered(p) THEN Own(Listed) ELSE Spendable(Listed)) :
       LET pick == MidnightSelect(Unregistered(p), Len(coins), Totals(Values(coins)),
                                  AmountOf[chain][p])
           fee == MidnightFee("proofless", Estimate,
                    Allowance(Taken(coins, pick.inputs), slot), CeilingOn[chain])
       IN  IF pick.result = "proved"
             THEN /\ pc' = [pc EXCEPT ![h] = "syncing"]
                  /\ work' = [work EXCEPT ![h] =
                       [pay |-> p, asked |-> p, coins |-> coins, out |-> pick,
                        txs |-> {}, now |-> slot]]
             ELSE Planned(h, p, coins,
                    IF pick.result = "proofless" /\ fee # "built"
                      THEN Refused(fee) ELSE pick, slot)
  /\ UNCHANGED <<chain, history, net, dustVars>>

(* build_via_dust, from the synced state, and the ceiling.                 *)
Prove(h) ==
  /\ pc[h] = "syncing" /\ Synced(h)
  /\ LET w == work[h]
         fee == MidnightFee("proved", Estimate, 0, CeilingOn[chain])
     IN  Planned(h, w.pay, w.coins,
                 IF fee = "built" THEN w.out ELSE Refused(fee), w.now)
  /\ UNCHANGED <<chain, history, net, sends, dustVars>>

Sync(h) == pc[h] = "syncing" /\ DustStep(h)
           /\ UNCHANGED <<chain, history, pc, work, net, sends>>

(* execute_send: the record, then the broadcast.                           *)
Record(h) ==
  /\ pc[h] = "planned"
  /\ history' = history \cup work[h].txs
  /\ pc' = [pc EXCEPT ![h] = "recorded"]
  /\ UNCHANGED <<chain, work, net, sends, dustVars>>

Submit(h) ==
  /\ pc[h] = "recorded"
  /\ wire' = wire \cup work[h].txs
  /\ pc' = [pc EXCEPT ![h] = "asked"]
  /\ UNCHANGED <<chain, held, history, work, pool, mined, slot, sends, dustVars>>

(* The command ends: answered, timed out, declined, failed or dead.        *)
Quit(h) ==
  /\ pc[h] # "idle"
  /\ pc' = [pc EXCEPT ![h] = "idle"]
  /\ work' = [work EXCEPT ![h] = NoWork]
  /\ IF dust[h].stage = "none" THEN UNCHANGED dustVars ELSE StreamEnds(h)
  /\ UNCHANGED <<chain, history, net, sends>>

Next ==
  \/ \E h \in Handle :
       \/ \E p \in Payment : Prepare(h, p) \/ PrepareNight(h, p)
       \/ Prove(h) \/ Sync(h) \/ Record(h) \/ Submit(h) \/ Quit(h)
  \/ \E t \in wire : Deliver(t) \/ LoseRequest(t)
  \/ \E t \in pool : Mine(t) \/ Evict(t)
  \/ Tick
  \/ \E c \in Deposits[chain] \ held : Deposit(c)
  \/ chain = "midnight" /\ NewEvent
     /\ UNCHANGED <<chain, history, pc, work, net, sends>>

Spec == Init /\ [][Next]_vars

----------------------------------------------------------------------------
(* Properties.                                                             *)

(* No payment is in two blocks: a payment made again after an answer that  *)
(* was lost or late is the same transaction, or one that spends a coin of  *)
(* the earlier one, or is made when the earlier one has expired.           *)
PaidOnce ==
  \A t, u \in mined : t.pay = u.pay => t = u

(* Whatever left the machine is in the history, so that `tx` can be asked  *)
(* about it before paying again.                                           *)
RecordedBeforeBroadcast == wire \cup pool \cup mined \subseteq history

(* The chain is asked for nothing impossible: every transaction in a block *)
(* or the pool spends what its address held, in full.  (The builders'      *)
(* arithmetic, end to end: no coin is created or lost, and none that       *)
(* carries a token, an asset or a datum goes as plain money.)              *)
NothingLost ==
  \A t \in pool \cup mined :
    /\ Value(t.ins) = AmountOf[chain][t.pay] + t.change + t.fee
    /\ \A c \in t.ins : c.plain

(* "Insufficient funds" is the truth about the coins listed: no set of     *)
(* them, in any order, pays for the amount and its fee.                    *)
ShortIsShort ==
  \A h \in Handle :
    LET w == work[h] IN
    w.out.result = "insufficient" /\ chain # "midnight" =>
      \A S \in SUBSET Taken(w.coins, Len(w.coins)) : S # {} =>
        Value(S) < AmountOf[chain][w.asked]
                     + Rule(w.asked).fee[1][Cardinality(S)]

(* A Midnight transfer without a proof pays its fee from coins that were   *)
(* never registered and have accrued enough by the time it declares, which *)
(* is when the node counts: it takes nothing else.                         *)
PaysItsOwnFee ==
  \A h \in Handle :
    pc[h] = "planned" /\ work[h].out.result = "proofless" =>
      \A t \in work[h].txs :
        /\ \A c \in t.ins : ~ c.registered
        /\ Allowance(t.ins, t.made) >= WithMargin(Estimate)
============================================================================
