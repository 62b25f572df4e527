-------------------------- MODULE TransferProofs ---------------------------
(***************************************************************************)
(* What Transfer guarantees for any number of processes, payments, nonces  *)
(* and crashes.                                                            *)
(***************************************************************************)
EXTENDS Transfer, TLAPS

----------------------------------------------------------------------------
(* Type correctness of every action of execute_send, erc20 send, --wait    *)
(* and tx.                                                                 *)
THEOREM TypeCorrect == Spec => []TypeOK
<1>1. Init => TypeOK
  BY TransferConstants DEF Init, TypeOK
<1>2. TypeOK /\ [Next]_vars => TypeOK'
  <2> SUFFICES ASSUME TypeOK, [Next]_vars PROVE TypeOK'
    OBVIOUS
  <2> USE TransferConstants DEF TypeOK, Statuses, Final
  <2>1. ASSUME NEW h \in Handle, NEW t \in Tx, Plan(h, t) PROVE TypeOK'
    BY <2>1 DEF Plan
  <2>2. ASSUME NEW h \in Handle, NEW t \in Tx, Record(h, t) PROVE TypeOK'
    BY <2>2 DEF Record, RecordTx
  <2>3. ASSUME NEW h \in Handle, NEW t \in Tx, AskTx(h, t) PROVE TypeOK'
    BY <2>3, NoneIsNoStatus DEF AskTx, Transaction, Final
  <2>4. ASSUME NEW h \in Handle, NEW t \in Tx, Submit(h, t) PROVE TypeOK'
    BY <2>4 DEF Submit
  <2>5. ASSUME NEW h \in Handle, NEW t \in Tx, Refused(h, t) PROVE TypeOK'
    BY <2>5 DEF Refused, Return, RecordTx, UpdateTx
  <2>6. ASSUME NEW h \in Handle, NEW t \in Tx, Accepted(h, t) PROVE TypeOK'
    BY <2>6 DEF Accepted, Return, RecordTx, UpdateTx
  <2>7. ASSUME NEW h \in Handle, NEW t \in Tx, Poll(h, t) PROVE TypeOK'
    BY <2>7, NoneIsNoStatus DEF Poll, Transaction, Final
  <2>8. ASSUME NEW h \in Handle, NEW t \in Tx, Tell(h, t) PROVE TypeOK'
    BY <2>8 DEF Tell, Return, RecordTx, UpdateTx
  <2>9. ASSUME NEW h \in Handle, NEW t \in Tx, Deliver(h, t) PROVE TypeOK'
    BY <2>9 DEF Deliver
  <2>10. ASSUME NEW h \in Handle, NEW t \in Tx, LoseRequest(h, t) PROVE TypeOK'
    BY <2>10 DEF LoseRequest, client
  <2>11. ASSUME NEW h \in Handle, Decline(h) PROVE TypeOK'
    BY <2>11 DEF Decline, Return
  <2>12. ASSUME NEW h \in Handle, Timeout(h) PROVE TypeOK'
    BY <2>12 DEF Timeout
  <2>13. ASSUME NEW h \in Handle, GiveUp(h) PROVE TypeOK'
    BY <2>13 DEF GiveUp, Return
  <2>14. ASSUME NEW h \in Handle, Crash(h) PROVE TypeOK'
    BY <2>14 DEF Crash, Return
  <2>15. ASSUME NEW t \in Tx, Mine(t) PROVE TypeOK'
    BY <2>15 DEF Mine, client
  <2>16. ASSUME NEW t \in Tx, Evict(t) PROVE TypeOK'
    BY <2>16 DEF Evict, client
  <2>17. CASE UNCHANGED vars
    BY <2>17 DEF vars
  <2> QED
    BY <2>1, <2>2, <2>3, <2>4, <2>5, <2>6, <2>7, <2>8, <2>9, <2>10, <2>11,
       <2>12, <2>13, <2>14, <2>15, <2>16, <2>17 DEF Next, Command
<1> QED
  BY <1>1, <1>2, PTL DEF Spec
----------------------------------------------------------------------------
(* NeverAhead is not inductive: a final status travels from the node to    *)
(* the history in seen.  What travels is still true when it arrives, since *)
(* the node never changes a final status.                                  *)
AnswersAreFinal ==
  /\ NeverAhead
  /\ \A h \in Handle, t \in Tx :
       pc[h] = "told" /\ plan[h] = {t} /\ seen[h] \in Final
         => node[t] = seen[h]

(* Every step of every command and of the node keeps it.                   *)
LEMMA AnswersStep == TypeOK /\ AnswersAreFinal /\ [Next]_vars => AnswersAreFinal'
<1> SUFFICES ASSUME TypeOK, AnswersAreFinal, [Next]_vars
             PROVE  AnswersAreFinal'
  OBVIOUS
<1> USE DEF TypeOK, AnswersAreFinal, NeverAhead, Final, Statuses
<1>1. ASSUME NEW h \in Handle, NEW t \in Tx, Plan(h, t) PROVE AnswersAreFinal'
  BY <1>1 DEF Plan
<1>2. ASSUME NEW h \in Handle, NEW t \in Tx, Record(h, t) PROVE AnswersAreFinal'
  BY <1>2 DEF Record, RecordTx
<1>3. ASSUME NEW h \in Handle, NEW t \in Tx, AskTx(h, t) PROVE AnswersAreFinal'
  BY <1>3, NoneIsNoStatus DEF AskTx, Transaction, Final
<1>4. ASSUME NEW h \in Handle, NEW t \in Tx, Submit(h, t) PROVE AnswersAreFinal'
  BY <1>4 DEF Submit
<1>5. ASSUME NEW h \in Handle, NEW t \in Tx, Refused(h, t) PROVE AnswersAreFinal'
  BY <1>5 DEF Refused, Return, RecordTx, UpdateTx
<1>6. ASSUME NEW h \in Handle, NEW t \in Tx, Accepted(h, t) PROVE AnswersAreFinal'
  BY <1>6 DEF Accepted, Return, RecordTx, UpdateTx
<1>7. ASSUME NEW h \in Handle, NEW t \in Tx, Poll(h, t) PROVE AnswersAreFinal'
  BY <1>7, NoneIsNoStatus DEF Poll, Transaction, Final
<1>8. ASSUME NEW h \in Handle, NEW t \in Tx, Tell(h, t) PROVE AnswersAreFinal'
  BY <1>8 DEF Tell, Return, RecordTx, UpdateTx
<1>9. ASSUME NEW h \in Handle, NEW t \in Tx, Deliver(h, t) PROVE AnswersAreFinal'
  BY <1>9 DEF Deliver, NonceTaken
<1>10. ASSUME NEW h \in Handle, NEW t \in Tx, LoseRequest(h, t) PROVE AnswersAreFinal'
  BY <1>10 DEF LoseRequest, client
<1>11. ASSUME NEW h \in Handle, Decline(h) PROVE AnswersAreFinal'
  BY <1>11 DEF Decline, Return
<1>12. ASSUME NEW h \in Handle, Timeout(h) PROVE AnswersAreFinal'
  BY <1>12 DEF Timeout
<1>13. ASSUME NEW h \in Handle, GiveUp(h) PROVE AnswersAreFinal'
  BY <1>13 DEF GiveUp, Return
<1>14. ASSUME NEW h \in Handle, Crash(h) PROVE AnswersAreFinal'
  BY <1>14 DEF Crash, Return
<1>15. ASSUME NEW t \in Tx, Mine(t) PROVE AnswersAreFinal'
  BY <1>15 DEF Mine, client
<1>16. ASSUME NEW t \in Tx, Evict(t) PROVE AnswersAreFinal'
  BY <1>16 DEF Evict, client
<1>17. CASE UNCHANGED vars
  BY <1>17 DEF vars
<1> QED
  BY <1>1, <1>2, <1>3, <1>4, <1>5, <1>6, <1>7, <1>8, <1>9, <1>10, <1>11,
     <1>12, <1>13, <1>14, <1>15, <1>16, <1>17 DEF Next, Command

(* The history is never ahead of the chain, whatever was lost, raced or    *)
(* died.                                                                   *)
THEOREM HistoryIsNeverAhead == Spec => []NeverAhead
<1>1. Init => AnswersAreFinal
  BY NoneIsNoStatus DEF Init, AnswersAreFinal, NeverAhead, Final
<1>2. AnswersAreFinal => NeverAhead
  BY DEF AnswersAreFinal
<1> QED
  BY <1>1, <1>2, AnswersStep, TypeCorrect, PTL DEF Spec
----------------------------------------------------------------------------
(* What is out was recorded: the record precedes the broadcast on every    *)
(* path of execute_send, and nothing takes it back.                        *)
Recorded ==
  /\ RecordedBeforeBroadcast
  /\ \A h \in Handle, t \in Tx :
       Paying(h) /\ pc[h] # "planned" /\ plan[h] = {t} /\ t.pay \notin Token
         => history[t] # None

(* Every step keeps it: the history only ever gains transactions.          *)
LEMMA RecordedStep == TypeOK /\ Recorded /\ [Next]_vars => Recorded'
<1> SUFFICES ASSUME TypeOK, Recorded, [Next]_vars
             PROVE  Recorded'
  OBVIOUS
<1> USE NoneIsNoStatus DEF TypeOK, Recorded, RecordedBeforeBroadcast, Out,
        Paying, Statuses, Final
<1>1. ASSUME NEW h \in Handle, NEW t \in Tx, Plan(h, t) PROVE Recorded'
  BY <1>1 DEF Plan
<1>2. ASSUME NEW h \in Handle, NEW t \in Tx, Record(h, t) PROVE Recorded'
  BY <1>2 DEF Record, RecordTx
<1>3. ASSUME NEW h \in Handle, NEW t \in Tx, AskTx(h, t) PROVE Recorded'
  BY <1>3, NoneIsNoStatus DEF AskTx, Transaction, Final
<1>4. ASSUME NEW h \in Handle, NEW t \in Tx, Submit(h, t) PROVE Recorded'
  <2>1. \A g \in Handle, u \in Tx :
          Paying(g)' /\ pc'[g] # "planned" /\ plan'[g] = {u} /\ u.pay \notin Token
            => history'[u] # None
    BY <1>4 DEF Submit
  <2>2. \A u \in Tx : history[u] # None => history'[u] # None
    BY <1>4 DEF Submit
  <2>3. \A u \in Tx : Out(u)' /\ u.pay \notin Token => history[u] # None
    BY <1>4 DEF Submit
  <2> QED
    BY <2>1, <2>2, <2>3
<1>5. ASSUME NEW h \in Handle, NEW t \in Tx, Refused(h, t) PROVE Recorded'
  BY <1>5 DEF Refused, Return, RecordTx, UpdateTx
<1>6. ASSUME NEW h \in Handle, NEW t \in Tx, Accepted(h, t) PROVE Recorded'
  <2>1. \A g \in Handle, u \in Tx :
          Paying(g)' /\ pc'[g] # "planned" /\ plan'[g] = {u} /\ u.pay \notin Token
            => history'[u] # None
    <3>1. history'[t] # None
      BY <1>6 DEF Accepted, RecordTx, UpdateTx
    <3>2. \A u \in Tx : u # t => history'[u] = history[u]
      BY <1>6 DEF Accepted, RecordTx, UpdateTx
    <3>3. \A g \in Handle : g # h => pc'[g] = pc[g] /\ plan'[g] = plan[g]
      BY <1>6 DEF Accepted, Return, RecordTx, UpdateTx
    <3>4. Paying(h)' => plan'[h] = {t}
      BY <1>6 DEF Accepted, Return, RecordTx, UpdateTx
    <3> SUFFICES ASSUME NEW g \in Handle, NEW u \in Tx, Paying(g)',
                        pc'[g] # "planned", plan'[g] = {u}, u.pay \notin Token
                 PROVE  history'[u] # None
      OBVIOUS
    <3>5. CASE g = h
      <4>1. u = t
        BY <3>4, <3>5
      <4> QED
        BY <3>1, <4>1
    <3>6. CASE g # h
      BY <3>1, <3>2, <3>3, <3>6
    <3> QED
      BY <3>5, <3>6
  <2>2. \A u \in Tx : history[u] # None => history'[u] # None
    BY <1>6 DEF Accepted, Return, RecordTx, UpdateTx
  <2>3. \A u \in Tx : Out(u)' /\ u.pay \notin Token => history[u] # None
    BY <1>6 DEF Accepted, Return, RecordTx, UpdateTx
  <2> QED
    BY <2>1, <2>2, <2>3
<1>7. ASSUME NEW h \in Handle, NEW t \in Tx, Poll(h, t) PROVE Recorded'
  <2>1. \A g \in Handle, u \in Tx :
          Paying(g)' /\ pc'[g] # "planned" /\ plan'[g] = {u} /\ u.pay \notin Token
            => history'[u] # None
    BY <1>7, NoneIsNoStatus DEF Poll, Transaction, Final
  <2>2. \A u \in Tx : history[u] # None => history'[u] # None
    BY <1>7, NoneIsNoStatus DEF Poll, Transaction, Final
  <2>3. \A u \in Tx : Out(u)' /\ u.pay \notin Token => history[u] # None
    BY <1>7, NoneIsNoStatus DEF Poll, Transaction, Final
  <2> QED
    BY <2>1, <2>2, <2>3
<1>8. ASSUME NEW h \in Handle, NEW t \in Tx, Tell(h, t) PROVE Recorded'
  BY <1>8 DEF Tell, Return, RecordTx, UpdateTx
<1>9. ASSUME NEW h \in Handle, NEW t \in Tx, Deliver(h, t) PROVE Recorded'
  <2>1. \A g \in Handle, u \in Tx :
          Paying(g)' /\ pc'[g] # "planned" /\ plan'[g] = {u} /\ u.pay \notin Token
            => history'[u] # None
    BY <1>9 DEF Deliver, NonceTaken
  <2>2. \A u \in Tx : history[u] # None => history'[u] # None
    BY <1>9 DEF Deliver, NonceTaken
  <2>3. \A u \in Tx : Out(u)' /\ u.pay \notin Token => history[u] # None
    BY <1>9 DEF Deliver, NonceTaken
  <2> QED
    BY <2>1, <2>2, <2>3
<1>10. ASSUME NEW h \in Handle, NEW t \in Tx, LoseRequest(h, t) PROVE Recorded'
  BY <1>10 DEF LoseRequest, client
<1>11. ASSUME NEW h \in Handle, Decline(h) PROVE Recorded'
  BY <1>11 DEF Decline, Return
<1>12. ASSUME NEW h \in Handle, Timeout(h) PROVE Recorded'
  BY <1>12 DEF Timeout
<1>13. ASSUME NEW h \in Handle, GiveUp(h) PROVE Recorded'
  BY <1>13 DEF GiveUp, Return
<1>14. ASSUME NEW h \in Handle, Crash(h) PROVE Recorded'
  BY <1>14 DEF Crash, Return
<1>15. ASSUME NEW t \in Tx, Mine(t) PROVE Recorded'
  BY <1>15 DEF Mine, client
<1>16. ASSUME NEW t \in Tx, Evict(t) PROVE Recorded'
  BY <1>16 DEF Evict, client
<1>17. CASE UNCHANGED vars
  BY <1>17 DEF vars
<1> QED
  BY <1>1, <1>2, <1>3, <1>4, <1>5, <1>6, <1>7, <1>8, <1>9, <1>10, <1>11,
     <1>12, <1>13, <1>14, <1>15, <1>16, <1>17 DEF Next, Command

(* What left the machine is in the history, in every state.                *)
THEOREM NothingOutUnrecorded == Spec => []RecordedBeforeBroadcast
<1>1. Init => Recorded
  BY DEF Init, Recorded, RecordedBeforeBroadcast, Out, Paying
<1>2. Recorded => RecordedBeforeBroadcast
  BY DEF Recorded
<1> QED
  BY <1>1, <1>2, RecordedStep, TypeCorrect, PTL DEF Spec
----------------------------------------------------------------------------
(* At most one transaction of a payment can still be confirmed.  Planning  *)
(* is the only step that adds one, and it finds none: a careful user looks *)
(* up what the history names, and the history names all there is.          *)
(* When a careful user starts a payment, none of its transactions is left. *)
LEMMA PlanningFindsNone ==
  ASSUME TypeOK, Recorded, Token = {}, NEW t \in Tx, Careful(t.pay)
  PROVE  \A u \in Tx : u.pay = t.pay => ~MayConfirm(u)
<1> SUFFICES ASSUME NEW u \in Tx, u.pay = t.pay, MayConfirm(u)
             PROVE  FALSE
  OBVIOUS
<1>1. ~ \E h \in Handle : Paying(h) /\ plan[h] = {u}
  BY DEF Careful
<1>2. Out(u)
  BY <1>1 DEF MayConfirm, Out
<1>3. history[u] # None
  BY <1>2 DEF Recorded, RecordedBeforeBroadcast
<1>4. node[u] \in {"unknown", "failed"} /\ \A h \in Handle : <<h, u>> \notin wire
  BY <1>3 DEF Careful
<1> QED
  BY <1>1, <1>4 DEF MayConfirm

(* Every step but Plan leaves them as they are or makes them fewer.        *)
LEMMA OthersAddNone ==
  ASSUME TypeOK, [Next]_vars, ~ \E h \in Handle, t \in Tx : Plan(h, t)
  PROVE  \A u \in Tx : MayConfirm(u)' => MayConfirm(u)
<1> DEFINE NoneMore == \A u \in Tx : MayConfirm(u)' => MayConfirm(u)
<1> USE DEF TypeOK, MayConfirm, Paying, Final
<1>1. ASSUME NEW h \in Handle, NEW t \in Tx, Record(h, t) PROVE NoneMore
  BY <1>1 DEF Record, RecordTx
<1>2. ASSUME NEW h \in Handle, NEW t \in Tx, AskTx(h, t) PROVE NoneMore
  BY <1>2, NoneIsNoStatus DEF AskTx, Transaction, Final
<1>3. ASSUME NEW h \in Handle, NEW t \in Tx, Submit(h, t) PROVE NoneMore
  BY <1>3 DEF Submit
<1>4. ASSUME NEW h \in Handle, NEW t \in Tx, Refused(h, t) PROVE NoneMore
  BY <1>4 DEF Refused, Return, RecordTx, UpdateTx
<1>5. ASSUME NEW h \in Handle, NEW t \in Tx, Accepted(h, t) PROVE NoneMore
  BY <1>5 DEF Accepted, Return, RecordTx, UpdateTx
<1>6. ASSUME NEW h \in Handle, NEW t \in Tx, Poll(h, t) PROVE NoneMore
  BY <1>6, NoneIsNoStatus DEF Poll, Transaction, Final
<1>7. ASSUME NEW h \in Handle, NEW t \in Tx, Tell(h, t) PROVE NoneMore
  BY <1>7 DEF Tell, Return, RecordTx, UpdateTx
<1>8. ASSUME NEW h \in Handle, NEW t \in Tx, Deliver(h, t) PROVE NoneMore
  BY <1>8 DEF Deliver, NonceTaken
<1>9. ASSUME NEW h \in Handle, NEW t \in Tx, LoseRequest(h, t) PROVE NoneMore
  BY <1>9 DEF LoseRequest, client
<1>10. ASSUME NEW h \in Handle, Decline(h) PROVE NoneMore
  BY <1>10 DEF Decline, Return
<1>11. ASSUME NEW h \in Handle, Timeout(h) PROVE NoneMore
  BY <1>11 DEF Timeout
<1>12. ASSUME NEW h \in Handle, GiveUp(h) PROVE NoneMore
  BY <1>12 DEF GiveUp, Return
<1>13. ASSUME NEW h \in Handle, Crash(h) PROVE NoneMore
  BY <1>13 DEF Crash, Return
<1>14. ASSUME NEW t \in Tx, Mine(t) PROVE NoneMore
  BY <1>14 DEF Mine, client
<1>15. ASSUME NEW t \in Tx, Evict(t) PROVE NoneMore
  BY <1>15 DEF Evict, client
<1>16. CASE UNCHANGED vars
  BY <1>16 DEF vars
<1> QED
  BY <1>1, <1>2, <1>3, <1>4, <1>5, <1>6, <1>7, <1>8, <1>9, <1>10, <1>11,
     <1>12, <1>13, <1>14, <1>15, <1>16 DEF Next, Command

(* So no step makes a second one.                                          *)
LEMMA OneStep ==
  ASSUME TypeOK, Recorded, Token = {}, OneMayConfirm, [Next]_vars
  PROVE  OneMayConfirm'
<1>1. CASE \E h \in Handle, t \in Tx : Plan(h, t)
  <2> PICK h \in Handle, t \in Tx : Plan(h, t)
    BY <1>1
  <2>1. \A u \in Tx : u.pay = t.pay => ~MayConfirm(u)
    BY PlanningFindsNone DEF Plan
  <2>2. \A u \in Tx : MayConfirm(u)' => MayConfirm(u) \/ u = t
    BY DEF Plan, MayConfirm, Paying, TypeOK
  <2> QED
    BY <2>1, <2>2 DEF OneMayConfirm
<1>2. CASE ~ \E h \in Handle, t \in Tx : Plan(h, t)
  BY <1>2, OthersAddNone DEF OneMayConfirm
<1> QED
  BY <1>1, <1>2

(* A careful user pays once, when all payments go through execute_send:    *)
(* across any number of processes, crashes, lost replies and late          *)
(* requests.                                                               *)
THEOREM ThePaymentGoesOutOnce == Token = {} => (Spec => []PaidOnce)
<1> SUFFICES ASSUME Token = {} PROVE Spec => []PaidOnce
  OBVIOUS
<1>1. Init => OneMayConfirm /\ Recorded
  BY DEF Init, OneMayConfirm, MayConfirm, Paying, Recorded, RecordedBeforeBroadcast, Out
<1>2. OneMayConfirm => PaidOnce
  BY DEF OneMayConfirm, PaidOnce, MayConfirm
<1>3. TypeOK /\ Recorded /\ OneMayConfirm /\ [Next]_vars => OneMayConfirm'
  BY OneStep
<1> QED
  BY <1>1, <1>2, <1>3, RecordedStep, TypeCorrect, PTL DEF Spec
============================================================================
