----------------------------- MODULE Transfer ------------------------------
(***************************************************************************)
(* A payment on a chain with account nonces (EVM), from the prompt to the  *)
(* history: execute_send, erc20 send, --wait and `tx` of                   *)
(* rustcli/core/src/app.rs, over the replay of history.jsonl and one node. *)
(* Several processes run commands of one account at once; requests and     *)
(* replies are delayed and lost; a process may die, or fail to write the   *)
(* history, between any two steps.                                         *)
(*                                                                         *)
(* A transaction is the payment it makes and its nonce: the signature is   *)
(* deterministic, so signing the same payment at the same nonce again      *)
(* gives the same transaction and the same id.                             *)
(***************************************************************************)
EXTENDS Integers, FiniteSets

CONSTANTS
  Handle,    \* processes running commands
  Payment,   \* payments the user wants made, each at most once
  Token,     \* those made with `erc20 send`; the others go through execute_send
  MaxNonce,  \* bound: the highest nonce
  MaxSends,  \* bound: sends started
  MaxPolls,  \* the polls that fit in RECEIPT_TIMEOUT
  MayCrash,  \* whether a process may die in the middle of a command
  None       \* not in the history

ASSUME TransferConstants ==
  /\ Token \subseteq Payment
  /\ MaxNonce \in Nat /\ MaxSends \in Nat /\ MaxPolls \in Nat
  /\ MayCrash \in BOOLEAN
ASSUME NoneIsNoStatus ==
  None \notin {"submitting", "submitted", "unconfirmed", "pending",
               "confirmed", "failed"}

Tx == [pay : Payment, nonce : 0 .. MaxNonce]
Statuses == {"submitting", "submitted", "unconfirmed", "pending",
             "confirmed", "failed"}
Final == {"confirmed", "failed"}

VARIABLES
  history,  \* the replay of history.jsonl: [Tx -> status, or None]
  pc,       \* [Handle -> where its command is]
  plan,     \* [Handle -> {the transaction it is about}]
  seen,     \* [Handle -> the last status the node gave it]
  polls,    \* [Handle -> polls left before the deadline]
  wire,     \* requests on their way to the node: <<handle, transaction>>
  node,     \* [Tx -> what the node knows of it]
  sends     \* the number of sends started

vars == <<history, pc, plan, seen, polls, wire, node, sends>>
client == <<history, pc, plan, seen, polls, sends>>

TypeOK ==
  /\ history \in [Tx -> Statuses \cup {None}]
  /\ pc \in [Handle -> {"idle", "planned", "recorded", "asked", "accepted",
                        "refused", "waiting", "told"}]
  /\ plan \in [Handle -> SUBSET Tx]
  /\ \A h \in Handle : pc[h] # "idle" => \E t \in Tx : plan[h] = {t}
  /\ seen \in [Handle -> {"unknown", "pending"} \cup Final]
  /\ \A h \in Handle : pc[h] = "told" => seen[h] # "unknown"
  /\ polls \in [Handle -> 0 .. MaxPolls]
  /\ wire \subseteq Handle \X Tx
  /\ node \in [Tx -> {"unknown", "pending"} \cup Final]
  /\ sends \in Nat

Init ==
  /\ history = [t \in Tx |-> None]
  /\ pc = [h \in Handle |-> "idle"]
  /\ plan = [h \in Handle |-> {}]
  /\ seen = [h \in Handle |-> "unknown"]
  /\ polls = [h \in Handle |-> 0]
  /\ wire = {}
  /\ node = [t \in Tx |-> "unknown"]
  /\ sends = 0

----------------------------------------------------------------------------
(* The node (external).                                                    *)

NonceTaken(n) == \E t \in Tx : t.nonce = n /\ node[t] # "unknown"
Mined == {t \in Tx : node[t] \in Final}

(* eth_getTransactionCount at "pending": the first nonce not taken.        *)
PendingCount(n) == ~NonceTaken(n) /\ \A m \in 0 .. n - 1 : NonceTaken(m)

(* A request arrives.  A transaction the node has not got, at a nonce that *)
(* is free, goes to its pool.  The reply may say otherwise, or never come; *)
(* the sender may have stopped waiting for it.                             *)
Deliver(h, t) ==
  /\ <<h, t>> \in wire
  /\ wire' = wire \ {<<h, t>>}
  /\ node' = IF NonceTaken(t.nonce) THEN node
                                    ELSE [node EXCEPT ![t] = "pending"]
  /\ \E reply \in IF node'[t] = "pending" THEN {"accepted", "refused"}
                                          ELSE {"refused"} :
       pc' = IF pc[h] = "asked" /\ plan[h] = {t}
               THEN [pc EXCEPT ![h] = reply] ELSE pc
  /\ UNCHANGED <<history, plan, seen, polls, sends>>

LoseRequest(h, t) ==
  /\ <<h, t>> \in wire
  /\ wire' = wire \ {<<h, t>>}
  /\ UNCHANGED <<client, node>>

(* Transactions are mined in the order of their nonces, and may revert.    *)
Mine(t) ==
  /\ node[t] = "pending"
  /\ \A m \in 0 .. t.nonce - 1 : \E u \in Mined : u.nonce = m
  /\ \E outcome \in Final : node' = [node EXCEPT ![t] = outcome]
  /\ UNCHANGED <<client, wire>>

(* The pool forgets one.                                                   *)
Evict(t) ==
  /\ node[t] = "pending"
  /\ node' = [node EXCEPT ![t] = "unknown"]
  /\ UNCHANGED <<client, wire>>

(* transaction: a transaction without a receipt is pending, one with a     *)
(* receipt as the receipt says; None if the node has neither.              *)
Transaction(t) == IF node[t] = "unknown" THEN None ELSE node[t]

----------------------------------------------------------------------------
(* record_tx and update_tx, as the replay takes them: an update of a       *)
(* transaction there is no record of is ignored.                           *)
RecordTx(t, status) == [history EXCEPT ![t] = status]
UpdateTx(t, status) == IF history[t] = None THEN history ELSE RecordTx(t, status)

(* The user pays at most once to his knowledge: he starts a payment when   *)
(* no process is making it, and when every transaction the history names   *)
(* for it failed or is nowhere, as `tx` and enough patience told him.      *)
Careful(p) ==
  /\ \A h \in Handle, t \in Tx : t \in plan[h] => t.pay # p
  /\ \A t \in Tx : t.pay = p /\ history[t] # None =>
       /\ node[t] \in {"unknown", "failed"}
       /\ \A h \in Handle : <<h, t>> \notin wire

(* The command returns, with a result or an error.                         *)
Return(h) ==
  /\ pc' = [pc EXCEPT ![h] = "idle"]
  /\ plan' = [plan EXCEPT ![h] = {}]
  /\ seen' = [seen EXCEPT ![h] = "unknown"]
  /\ polls' = [polls EXCEPT ![h] = 0]

(***************************************************************************)
(* Slips: mistakes a change to app.rs could make, for the mutants only.    *)
(***************************************************************************)

(* The broadcast does not wait for the record.                             *)
SubmitUnrecorded(h, t) ==
  /\ plan[h] = {t}
  /\ pc[h] \in {"planned", "recorded"}
  /\ wire' = wire \cup {<<h, t>>}
  /\ pc' = [pc EXCEPT ![h] = "asked"]
  /\ UNCHANGED <<history, plan, seen, polls, node, sends>>

(* The record of a send that failed is taken back.                         *)
RefusedForgetting(h, t) ==
  /\ pc[h] = "refused" /\ plan[h] = {t}
  /\ history' = [history EXCEPT ![t] = None]
  /\ Return(h)
  /\ UNCHANGED <<wire, node, sends>>

(* An accepted transaction is taken for a mined one.                       *)
AcceptedAsConfirmed(h, t) ==
  /\ pc[h] = "accepted" /\ plan[h] = {t}
  /\ history' = [history EXCEPT ![t] = "confirmed"]
  /\ Return(h)
  /\ UNCHANGED <<wire, node, sends>>

(* The deadline moves with every poll.                                     *)
PollForever(h, t) ==
  /\ pc[h] = "waiting" /\ plan[h] = {t} /\ polls[h] > 0
  /\ UNCHANGED polls
  /\ \/ /\ node[t] \in Final
        /\ seen' = [seen EXCEPT ![h] = node[t]]
        /\ pc' = [pc EXCEPT ![h] = "told"]
     \/ UNCHANGED <<pc, seen>>
  /\ UNCHANGED <<history, plan, wire, node, sends>>

----------------------------------------------------------------------------
(* plan_send, and the first half of erc20 send: ask for the nonce, and     *)
(* sign.  Nothing has left the machine.                                    *)
Plan(h, t) ==
  /\ pc[h] = "idle"
  /\ sends < MaxSends
  /\ Careful(t.pay)
  /\ PendingCount(t.nonce)
  /\ pc' = [pc EXCEPT ![h] = "planned"]
  /\ plan' = [plan EXCEPT ![h] = {t}]
  /\ sends' = sends + 1
  /\ UNCHANGED <<history, seen, polls, wire, node>>

(* The prompt is declined, or the run was a dry one.                       *)
Decline(h) ==
  /\ pc[h] = "planned"
  /\ Return(h)
  /\ UNCHANGED <<history, wire, node, sends>>

(* execute_send: the record goes to the history before the broadcast.      *)
Record(h, t) ==
  /\ pc[h] = "planned" /\ plan[h] = {t}
  /\ t.pay \notin Token
  /\ history' = RecordTx(t, "submitting")
  /\ pc' = [pc EXCEPT ![h] = "recorded"]
  /\ UNCHANGED <<plan, seen, polls, wire, node, sends>>

(* submit: the request is sent; erc20 send does so from the prompt.        *)
Submit(h, t) ==
  /\ plan[h] = {t}
  /\ pc[h] = IF t.pay \in Token THEN "planned" ELSE "recorded"
  /\ wire' = wire \cup {<<h, t>>}
  /\ pc' = [pc EXCEPT ![h] = "asked"]
  /\ UNCHANGED <<history, plan, seen, polls, node, sends>>

(* No reply within the HTTP timeout.                                       *)
Timeout(h) ==
  /\ pc[h] = "asked"
  /\ pc' = [pc EXCEPT ![h] = "refused"]
  /\ UNCHANGED <<history, plan, seen, polls, wire, node, sends>>

(* execute_send after an error: the record is marked, and kept.  erc20     *)
(* send has no record.                                                     *)
Refused(h, t) ==
  /\ pc[h] = "refused" /\ plan[h] = {t}
  /\ history' = IF t.pay \in Token THEN history ELSE UpdateTx(t, "unconfirmed")
  /\ Return(h)
  /\ UNCHANGED <<wire, node, sends>>

(* After an acceptance the record is updated; erc20 send writes it here.   *)
(* With --wait the command goes on to poll.                                *)
Accepted(h, t) ==
  /\ pc[h] = "accepted" /\ plan[h] = {t}
  /\ history' = IF t.pay \in Token THEN RecordTx(t, "submitted")
                                   ELSE UpdateTx(t, "submitted")
  /\ \/ Return(h)
     \/ /\ pc' = [pc EXCEPT ![h] = "waiting"]
        /\ polls' = [polls EXCEPT ![h] = MaxPolls]
        /\ UNCHANGED <<plan, seen>>
  /\ UNCHANGED <<wire, node, sends>>

(* await_confirmation: one poll.  Any answer but a final status, an error  *)
(* included, is waited out.                                                *)
Poll(h, t) ==
  /\ pc[h] = "waiting" /\ plan[h] = {t} /\ polls[h] > 0
  /\ \/ /\ Transaction(t) \in Final
        /\ seen' = [seen EXCEPT ![h] = Transaction(t)]
        /\ pc' = [pc EXCEPT ![h] = "told"]
        /\ UNCHANGED polls
     \/ /\ polls' = [polls EXCEPT ![h] = polls[h] - 1]
        /\ UNCHANGED <<pc, seen>>
  /\ UNCHANGED <<history, plan, wire, node, sends>>

(* await_confirmation: the deadline.                                       *)
GiveUp(h) ==
  /\ pc[h] = "waiting" /\ polls[h] = 0
  /\ Return(h)
  /\ UNCHANGED <<history, wire, node, sends>>

(* tx: the node is asked about any transaction it knows; about any other,  *)
(* the command fails.                                                      *)
AskTx(h, t) ==
  /\ pc[h] = "idle"
  /\ Transaction(t) # None
  /\ pc' = [pc EXCEPT ![h] = "told"]
  /\ plan' = [plan EXCEPT ![h] = {t}]
  /\ seen' = [seen EXCEPT ![h] = Transaction(t)]
  /\ UNCHANGED <<history, polls, wire, node, sends>>

(* finish_send and tx: the answer is written down.                         *)
Tell(h, t) ==
  /\ pc[h] = "told" /\ plan[h] = {t}
  /\ history' = UpdateTx(t, seen[h])
  /\ Return(h)
  /\ UNCHANGED <<wire, node, sends>>

(* The process dies, or cannot write the history and returns its error.    *)
Crash(h) ==
  /\ MayCrash
  /\ pc[h] # "idle"
  /\ Return(h)
  /\ UNCHANGED <<history, wire, node, sends>>

Command(h, t) ==
  \/ Submit(h, t) \/ Refused(h, t) \/ Accepted(h, t)
  \/ Poll(h, t) \/ Tell(h, t)

Next ==
  \/ \E h \in Handle, t \in Tx :
       \/ Plan(h, t) \/ Record(h, t) \/ AskTx(h, t) \/ Command(h, t)
       \/ Deliver(h, t) \/ LoseRequest(h, t)
  \/ \E h \in Handle : Decline(h) \/ Timeout(h) \/ GiveUp(h) \/ Crash(h)
  \/ \E t \in Tx : Mine(t) \/ Evict(t)

Spec == Init /\ [][Next]_vars

(* A command that has been confirmed runs on: its next step is local, or a *)
(* request with a timeout.  The node owes nothing.                         *)
Fairness ==
  \A h \in Handle :
    WF_vars(Timeout(h) \/ GiveUp(h) \/ \E t \in Tx : Command(h, t))
FairSpec == Spec /\ Fairness

----------------------------------------------------------------------------
(* Properties.                                                             *)

(* What left the machine is in the history, whatever died or was lost      *)
(* since: of every transaction on its way to the node, in its pool or in a *)
(* block, execute_send had written the record.                             *)
Out(t) == node[t] # "unknown" \/ \E h \in Handle : <<h, t>> \in wire
RecordedBeforeBroadcast ==
  \A t \in Tx : Out(t) /\ t.pay \notin Token => history[t] # None

(* The record stops the same payment from going out twice: a user who      *)
(* looks up what the history names before paying again pays once.          *)
(* (execute_send and `tx`, across crashes, lost replies and late requests.)*)
PaidOnce ==
  \A t, u \in Tx :
    t.pay = u.pay /\ node[t] = "confirmed" /\ node[u] = "confirmed" => t = u

(* Why: of the transactions of one payment at most one can be confirmed    *)
(* now or later.                                                           *)
Paying(h) == pc[h] \in {"planned", "recorded", "asked", "accepted",
                        "refused", "waiting"}
MayConfirm(t) ==
  \/ node[t] \in {"pending", "confirmed"}
  \/ \E h \in Handle : <<h, t>> \in wire
  \/ \E h \in Handle : Paying(h) /\ plan[h] = {t}
OneMayConfirm ==
  \A t, u \in Tx :
    t.pay = u.pay /\ MayConfirm(t) /\ MayConfirm(u) => t = u

(* The history is never ahead of the chain: what it calls confirmed or     *)
(* failed is so.  (await_confirmation and tx write only what the node      *)
(* said of that transaction.)                                              *)
NeverAhead == \A t \in Tx : history[t] \in Final => node[t] = history[t]

(* The statuses the history may hold, per SPEC.md 1.5.                     *)
ListedStatuses ==
  \A t \in Tx : history[t] \in {None, "submitting", "submitted",
                                "unconfirmed", "confirmed", "failed"}

(* The history stays in step with the chain: a status the chain settled is *)
(* not replaced.  (What `tx` says it keeps.)                               *)
StaysInStep ==
  [][\A t \in Tx : history[t] \in Final => history'[t] = history[t]]_vars

(* A confirmed send, a wait and a look-up all come to an end, whether the  *)
(* node ever answers or not.                                               *)
Returns ==
  \A h \in Handle : pc[h] \notin {"idle", "planned"} ~> pc[h] = "idle"
============================================================================
