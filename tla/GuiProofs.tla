----------------------------- MODULE GuiProofs -----------------------------
(***************************************************************************)
(* Gui's promises about money: what the window broadcasts goes to the      *)
(* address of a dialog the user said yes in, and once for every yes, for   *)
(* any accounts, networks and tokens, however much is typed, moved and     *)
(* priced meanwhile and wherever a command fails or panics; and where the  *)
(* window stays, it is the dialog's account and asset that are spent.      *)
(*                                                                         *)
(* Why: a request is numbered as it is put in the queue, so no two of      *)
(* those in the queue, with the worker or done bear one number; the number *)
(* of a confirmed request is that of its dialog from then on, and only the *)
(* command the worker runs may broadcast, and it does so once.             *)
(* The second promise adds to this what a callback, a dialog, a request    *)
(* and the command say of the window, each under the count of moves it was *)
(* noted at, and that no answer comes without its callback.                *)
(***************************************************************************)
EXTENDS Gui, TLAPS, SequenceTheorems

(* A request with a yes goes where the dialog of that yes said. *)
Ready(r) == r.yes => r.id \in DOMAIN agreed /\ r.argv.to = agreed[r.id].to

Numbered == asked \in Nat /\ DOMAIN agreed \subseteq 1 .. asked
QueueOK ==
  /\ \E S : queue \in Seq(S)
  /\ \A i \in 1 .. Len(queue) : queue[i].id \in 1 .. asked /\ Ready(queue[i])
  /\ \A i, j \in 1 .. Len(queue) : queue[i].id = queue[j].id => i = j
JobOK ==
  job # Nothing =>
    /\ {"id", "argv", "yes", "step"} \subseteq DOMAIN job
    /\ job.id \in 1 .. asked /\ Ready(job)
    /\ \A i \in 1 .. Len(queue) : queue[i].id # job.id
    /\ job.step = "recorded" => job.yes
WindowOK ==
  /\ "confirm" \in DOMAIN win
  /\ win.confirm # Nothing => win.confirm.argv.to = win.confirm.to
LedgerOK ==
  /\ \E S : ledger \in Seq(S)
  /\ \A k \in 1 .. Len(ledger) :
       /\ \A i \in 1 .. Len(queue) : queue[i].id # ledger[k].id
       /\ job # Nothing /\ job.id = ledger[k].id => job.step = "sent"
Inv == Numbered /\ QueueOK /\ JobOK /\ WindowOK /\ LedgerOK /\ PaysWhoWasAgreed

-----------------------------------------------------------------------------
(* A request put at the end of the queue, and one taken from its head. *)
LEMMA Appended ==
  ASSUME NEW S, NEW q \in Seq(S), NEW x
  PROVE  /\ Append(q, x) \in Seq(S \cup {x})
         /\ Len(Append(q, x)) = Len(q) + 1
         /\ \A i \in 1 .. Len(q) : Append(q, x)[i] = q[i]
         /\ Append(q, x)[Len(q) + 1] = x
<1>1. q \in Seq(S \cup {x})
  OBVIOUS
<1>. QED BY <1>1, AppendProperties

LEMMA Taken ==
  ASSUME NEW S, NEW q \in Seq(S), q # <<>>
  PROVE  /\ Head(q) = q[1] /\ Len(q) \in Nat \ {0}
         /\ Tail(q) \in Seq(S) /\ Len(Tail(q)) = Len(q) - 1
         /\ \A i \in 1 .. Len(q) - 1 : Tail(q)[i] = q[i + 1]
  BY HeadTailProperties, EmptySeq

LEMMA InitInv == Init => Inv
<1>. SUFFICES ASSUME Init PROVE Inv
  OBVIOUS
<1>1. queue = <<>> /\ Len(queue) = 0 /\ queue \in Seq({})
  BY DEF Init
<1>2. /\ asked = 0 /\ agreed = <<>> /\ ledger = <<>> /\ job = Nothing
      /\ Len(ledger) = 0 /\ ledger \in Seq({})
  BY DEF Init
<1>3. "confirm" \in DOMAIN win /\ win.confirm = Nothing
  BY DEF Init
<1>. QED BY <1>1, <1>2, <1>3
       DEF Inv, Numbered, QueueOK, JobOK, WindowOK, LedgerOK, PaysWhoWasAgreed

(* A request is submitted: without a yes, or with that of the dialog.      *)
LEMMA Submits ==
  ASSUME Inv, WindowOK', NEW waiting, NEW argv, NEW yes, NEW callback,
         Submit(waiting, argv, yes, callback), UNCHANGED <<job, ledger>>,
         \/ ~yes /\ UNCHANGED agreed
         \/ agreed' = With(agreed, asked + 1, win.confirm) /\ argv.to = win.confirm.to
  PROVE  Inv'
<1>. DEFINE r == [id |-> asked + 1, argv |-> argv, yes |-> yes]
<1>1. asked' = asked + 1 /\ queue' = Append(queue, r) /\ asked \in Nat
  BY DEF Submit, Inv, Numbered
<1>2. PICK S : queue \in Seq(S)
  BY DEF Inv, QueueOK
<1>3. /\ queue' \in Seq(S \cup {r}) /\ Len(queue') = Len(queue) + 1
      /\ \A i \in 1 .. Len(queue) : queue'[i] = queue[i]
      /\ queue'[Len(queue) + 1] = r
  BY <1>1, <1>2, Appended
<1>4. Len(queue) \in Nat
  BY <1>2, LenProperties
<1>5. /\ DOMAIN agreed' \subseteq 1 .. asked'
      /\ \A k \in DOMAIN agreed : k \in DOMAIN agreed' /\ agreed'[k] = agreed[k]
      /\ yes => asked + 1 \in DOMAIN agreed' /\ agreed'[asked + 1].to = argv.to
  <2>1. CASE ~yes /\ UNCHANGED agreed
    BY <2>1, <1>1 DEF Inv, Numbered
  <2>2. CASE agreed' = With(agreed, asked + 1, win.confirm) /\ argv.to = win.confirm.to
    <3>1. DOMAIN agreed' = DOMAIN agreed \cup {asked + 1}
      BY <2>2 DEF With
    <3>2. asked + 1 \notin DOMAIN agreed
      BY <1>1 DEF Inv, Numbered
    <3>3. \A k \in DOMAIN agreed : agreed'[k] = agreed[k]
      BY <2>2, <3>2 DEF With
    <3>4. agreed'[asked + 1] = win.confirm
      BY <2>2, <3>2 DEF With
    <3>. QED BY <1>1, <2>2, <3>1, <3>3, <3>4 DEF Inv, Numbered
  <2>. QED BY <2>1, <2>2
<1>. HIDE DEF r
<1>6. r.id = asked + 1 /\ r.yes = yes /\ r.argv = argv
  BY DEF r
<1>7. Numbered'
  BY <1>1, <1>5 DEF Numbered
<1>8. QueueOK'
  <2>1. \A i \in 1 .. Len(queue') : i \in 1 .. Len(queue) \/ i = Len(queue) + 1
    BY <1>3, <1>4
  <2>2. (\A i \in 1 .. Len(queue) : queue[i].id \in 1 .. asked /\ Ready(queue[i]))'
    <3>. SUFFICES ASSUME NEW i \in 1 .. Len(queue')
                  PROVE  queue'[i].id \in 1 .. asked' /\ Ready(queue[i])'
      OBVIOUS
    <3>1. CASE i \in 1 .. Len(queue)
      <4>1. queue'[i] = queue[i] /\ queue[i].id \in 1 .. asked /\ Ready(queue[i])
        BY <3>1, <1>3 DEF Inv, QueueOK
      <4>. QED BY <4>1, <1>1, <1>5 DEF Ready
    <3>2. CASE i = Len(queue) + 1
      BY <3>2, <1>1, <1>3, <1>5, <1>6 DEF Ready
    <3>. QED BY <2>1, <3>1, <3>2
  <2>3. \A i, j \in 1 .. Len(queue') : queue'[i].id = queue'[j].id => i = j
    BY <1>1, <1>3, <1>4, <1>6, <2>1 DEF Inv, QueueOK
  <2>4. \E T : queue' \in Seq(T)
    BY <1>3
  <2>. QED BY <2>2, <2>3, <2>4 DEF QueueOK
<1>9. JobOK'
  BY <1>1, <1>3, <1>4, <1>5, <1>6 DEF Inv, JobOK, Ready
<1>10. LedgerOK'
  BY <1>1, <1>3, <1>4, <1>6 DEF Inv, LedgerOK, PaysWhoWasAgreed, Numbered
<1>11. PaysWhoWasAgreed'
  BY <1>5 DEF Inv, PaysWhoWasAgreed
<1>. QED BY <1>7, <1>8, <1>9, <1>10, <1>11 DEF Inv

(* Nothing changes but what the window shows. *)
LEMMA Shows ==
  ASSUME Inv, WindowOK', UNCHANGED <<queue, job, asked, agreed, ledger>>
  PROVE  Inv'
  BY DEF Inv, Numbered, QueueOK, JobOK, LedgerOK, PaysWhoWasAgreed, Ready

(* The window stays a window with the dialog it had, or with none. *)
LEMMA KeepsDialog ==
  ASSUME Inv, DOMAIN win' = DOMAIN win, win'.confirm \in {win.confirm, Nothing}
  PROVE  WindowOK'
  BY DEF Inv, WindowOK

(* The worker answers its command. *)
LEMMA Ends ==
  ASSUME Inv, job' = Nothing, UNCHANGED <<queue, win, asked, agreed, ledger>>
  PROVE  Inv'
  BY DEF Inv, Numbered, QueueOK, JobOK, WindowOK, LedgerOK, PaysWhoWasAgreed, Ready

-----------------------------------------------------------------------------
(* The window's steps. *)

LEMMA WindowInv ==
  ASSUME Inv,
         \/ \E a \in Account : Select(a)
         \/ \E n \in Network : SwitchNetwork(n)
         \/ \E t \in Token \cup {Coin} : PickToken(t)
         \/ \E to \in Payee : TypeTo(to)
         \/ \E to \in Account \cup {win.form} : BeginSend(to)
         \/ FetchBalance \/ ConfirmSend \/ CancelSend
         \/ RequestFaucet \/ DemoFaucet \/ DismissFaucet \/ Tick
  PROVE  Inv'
<1>1. ASSUME NEW a \in Account, Select(a) PROVE Inv'
  BY <1>1, Shows, KeepsDialog DEF Select, history, Inv, WindowOK
<1>2. ASSUME NEW n \in Network, SwitchNetwork(n) PROVE Inv'
  BY <1>2, Shows, KeepsDialog DEF SwitchNetwork, history, Inv, WindowOK
<1>3. ASSUME NEW t \in Token \cup {Coin}, PickToken(t) PROVE Inv'
  <2>1. WindowOK'
    BY <1>3, KeepsDialog DEF PickToken, Inv, WindowOK
  <2>. QED BY <1>3, <2>1, Submits DEF PickToken, Ask, history
<1>4. ASSUME NEW to \in Payee, TypeTo(to) PROVE Inv'
  BY <1>4, Shows, KeepsDialog DEF TypeTo, history, Inv, WindowOK
<1>5. ASSUME NEW to \in Account \cup {win.form}, BeginSend(to) PROVE Inv'
  <2>1. WindowOK'
    BY <1>5 DEF BeginSend, view, Inv, WindowOK
  <2>. QED BY <1>5, <2>1, Submits DEF BeginSend, Ask, history
<1>6. CASE FetchBalance
  <2>1. WindowOK'
    BY <1>6 DEF FetchBalance, view, Inv, WindowOK
  <2>. QED BY <1>6, <2>1, Submits DEF FetchBalance, Ask, history
<1>7. CASE ConfirmSend
  <2>1. WindowOK'
    BY <1>7, KeepsDialog DEF ConfirmSend, Inv, WindowOK
  <2>2. win.confirm.argv.to = win.confirm.to
    BY <1>7 DEF ConfirmSend, Inv, WindowOK
  <2>. QED BY <1>7, <2>1, <2>2, Submits DEF ConfirmSend, Ask
<1>8. CASE CancelSend
  BY <1>8, Shows, KeepsDialog DEF CancelSend, history, Inv, WindowOK
<1>9. CASE RequestFaucet
  <2>1. WindowOK'
    BY <1>9, KeepsDialog DEF RequestFaucet, Inv, WindowOK
  <2>2. CASE win.network \in Automatic
    BY <1>9, <2>1, <2>2, Submits DEF RequestFaucet, Ask, history
  <2>3. CASE win.network \notin Automatic
    BY <1>9, <2>1, <2>3, Shows DEF RequestFaucet, history
  <2>. QED BY <2>2, <2>3
<1>10. CASE DemoFaucet
  BY <1>10, Shows, KeepsDialog DEF DemoFaucet, history, Inv, WindowOK
<1>11. CASE DismissFaucet
  BY <1>11, Shows, KeepsDialog DEF DismissFaucet, history, Inv, WindowOK
<1>12. CASE Tick
  <2>1. WindowOK'
    BY <1>12, KeepsDialog DEF Tick, Inv, WindowOK
  <2>. QED BY <1>12, <2>1, Submits DEF Tick, Ask, history
<1>. QED BY <1>1, <1>2, <1>3, <1>4, <1>5, <1>6, <1>7, <1>8, <1>9, <1>10, <1>11, <1>12

(* An answer is taken: of a price, it opens the dialog of the address it   *)
(* was asked about.                                                        *)
LEMMA PumpInv == ASSUME Inv, Pump PROVE Inv'
<1>1. CASE TakeBalance
  BY <1>1, Shows, KeepsDialog DEF TakeBalance, history, Inv, WindowOK
<1>2. CASE TakePlan
  <2>1. WindowOK'
    BY <1>2 DEF TakePlan, SendArgv, Inv, WindowOK
  <2>. QED BY <1>2, <2>1, Shows DEF TakePlan, history
<1>3. CASE TakeSent
  BY <1>3, Shows, KeepsDialog DEF TakeSent, history, Inv, WindowOK
<1>4. CASE TakeBefore
  <2>1. WindowOK'
    BY <1>4, KeepsDialog DEF TakeBefore, Inv, WindowOK
  <2>2. CASE SamePanel
    BY <1>4, <2>1, <2>2, Submits DEF TakeBefore, history
  <2>3. CASE ~SamePanel
    BY <1>4, <2>1, <2>3, Shows DEF TakeBefore, history
  <2>. QED BY <2>2, <2>3
<1>5. CASE TakeGrant
  BY <1>5, Shows, KeepsDialog DEF TakeGrant, history, Inv, WindowOK
<1>6. CASE TakeAfter
  BY <1>6, Shows, KeepsDialog DEF TakeAfter, history, Inv, WindowOK
<1>. QED BY <1>1, <1>2, <1>3, <1>4, <1>5, <1>6 DEF Pump

-----------------------------------------------------------------------------
(* The worker's steps. *)

LEMMA StartInv == ASSUME Inv, Start PROVE Inv'
<1>1. queue' = Tail(queue) /\ queue # <<>> /\ job = Nothing
      /\ UNCHANGED <<win, asked, agreed, ledger>>
  BY DEF Start, history
<1>2. /\ {"id", "argv", "yes", "step"} \subseteq DOMAIN job'
      /\ job'.id = Head(queue).id /\ job'.argv = Head(queue).argv
      /\ job'.yes = Head(queue).yes /\ job'.step = "new"
  BY DEF Start
<1>3. PICK S : queue \in Seq(S)
  BY DEF Inv, QueueOK
<1>4. /\ Head(queue) = queue[1] /\ Len(queue) \in Nat \ {0}
      /\ queue' \in Seq(S) /\ Len(queue') = Len(queue) - 1
      /\ \A i \in 1 .. Len(queue) - 1 : queue'[i] = queue[i + 1]
  BY <1>1, <1>3, Taken
<1>5. \A i \in 1 .. Len(queue') : i + 1 \in 1 .. Len(queue) /\ queue'[i] = queue[i + 1]
  BY <1>4
<1>6. 1 \in 1 .. Len(queue)
  BY <1>4
<1>7. Numbered'
  BY <1>1 DEF Inv, Numbered
<1>8. QueueOK'
  <2>1. (\A i \in 1 .. Len(queue) : queue[i].id \in 1 .. asked /\ Ready(queue[i]))'
    BY <1>1, <1>5 DEF Inv, QueueOK, Ready
  <2>2. \A i, j \in 1 .. Len(queue') : queue'[i].id = queue'[j].id => i = j
    <3>. SUFFICES ASSUME NEW i \in 1 .. Len(queue'), NEW j \in 1 .. Len(queue'),
                         queue'[i].id = queue'[j].id
                  PROVE  i = j
      OBVIOUS
    <3>1. i + 1 = j + 1
      BY <1>5 DEF Inv, QueueOK
    <3>. QED BY <3>1, <1>4
  <2>3. \E T : queue' \in Seq(T)
    BY <1>4
  <2>. QED BY <2>1, <2>2, <2>3 DEF QueueOK
<1>9. JobOK'
  <2>1. queue[1].id \in 1 .. asked /\ Ready(queue[1])
    BY <1>6 DEF Inv, QueueOK
  <2>2. \A i \in 1 .. Len(queue') : queue'[i].id # queue[1].id
    <3>. SUFFICES ASSUME NEW i \in 1 .. Len(queue'), queue'[i].id = queue[1].id
                  PROVE  FALSE
      OBVIOUS
    <3>1. i + 1 = 1
      BY <1>5, <1>6 DEF Inv, QueueOK
    <3>. QED BY <3>1, <1>4
  <2>. QED BY <2>1, <2>2, <1>1, <1>2, <1>4 DEF JobOK, Ready
<1>10. WindowOK'
  BY <1>1 DEF Inv, WindowOK
<1>11. LedgerOK'
  BY <1>1, <1>2, <1>4, <1>5, <1>6 DEF Inv, LedgerOK
<1>12. PaysWhoWasAgreed'
  BY <1>1 DEF Inv, PaysWhoWasAgreed
<1>. QED BY <1>7, <1>8, <1>9, <1>10, <1>11, <1>12 DEF Inv

LEMMA PickInv == ASSUME Inv, PickAccount PROVE Inv'
<1>1. /\ job # Nothing /\ job.step = "new" /\ DOMAIN job' = DOMAIN job /\ job'.id = job.id
      /\ job'.argv = job.argv /\ job'.yes = job.yes /\ job'.step \in {"new", "open"}
      /\ UNCHANGED <<queue, win, asked, agreed, ledger>>
  BY DEF PickAccount, At, view, history, Inv, JobOK
<1>2. JobOK'
  BY <1>1 DEF Inv, JobOK, Ready
<1>3. LedgerOK'
  BY <1>1 DEF Inv, LedgerOK
<1>. QED BY <1>1, <1>2, <1>3
         DEF Inv, Numbered, QueueOK, WindowOK, PaysWhoWasAgreed, Ready

(* A transfer is recorded before it goes out, and only with a yes. *)
LEMMA RecordInv == ASSUME Inv, Record PROVE Inv'
<1>1. job # Nothing /\ job' = [job EXCEPT !.step = "recorded"] /\ job.yes /\ job.step = "open"
      /\ UNCHANGED <<queue, win, asked, agreed, ledger>>
  BY DEF Record, Prepared, At, view, history
<1>2. JobOK'
  BY <1>1 DEF Inv, JobOK, Ready
<1>3. LedgerOK'
  BY <1>1 DEF Inv, LedgerOK, JobOK
<1>. QED BY <1>1, <1>2, <1>3
         DEF Inv, Numbered, QueueOK, WindowOK, PaysWhoWasAgreed, Ready

(* The broadcast is the last of the ledger, and the others stay.           *)
LEMMA Broadcasts ==
  ASSUME Inv, Broadcast
  PROVE  \E b : /\ b.id = job.id /\ b.to = job.argv.to /\ b.from = job.account
                /\ b.asset = JobAsset /\ b.read = job.read
                /\ Len(ledger) \in Nat /\ Len(ledger') = Len(ledger) + 1
                /\ \E T : ledger' \in Seq(T)
                /\ \A k \in 1 .. Len(ledger) : ledger'[k] = ledger[k]
                /\ ledger'[Len(ledger) + 1] = b
                /\ \A k \in 1 .. Len(ledger') : k \in 1 .. Len(ledger) \/ k = Len(ledger) + 1
<1>. DEFINE b == [id |-> job.id, from |-> job.account, to |-> job.argv.to,
                  asset |-> JobAsset, read |-> job.read]
<1>1. /\ b.id = job.id /\ b.to = job.argv.to /\ b.from = job.account
      /\ b.asset = JobAsset /\ b.read = job.read
  OBVIOUS
<1>2. ledger' = Append(ledger, b)
  BY DEF Broadcast
<1>3. PICK S : ledger \in Seq(S)
  BY DEF Inv, LedgerOK
<1>. HIDE DEF b
<1>4. /\ Len(ledger) \in Nat /\ Len(ledger') = Len(ledger) + 1 /\ ledger' \in Seq(S \cup {b})
      /\ \A k \in 1 .. Len(ledger) : ledger'[k] = ledger[k]
      /\ ledger'[Len(ledger) + 1] = b
  BY <1>2, <1>3, Appended, LenProperties
<1>. QED BY <1>1, <1>4

LEMMA BroadcastInv == ASSUME Inv, Broadcast PROVE Inv'
<1>1. /\ job # Nothing /\ job.step = "recorded" /\ job' = [job EXCEPT !.step = "sent"]
      /\ UNCHANGED <<queue, win, asked, agreed>>
  BY DEF Broadcast, At, view
<1>2. PICK b : /\ b.id = job.id /\ b.to = job.argv.to
               /\ Len(ledger) \in Nat /\ Len(ledger') = Len(ledger) + 1
               /\ \E T : ledger' \in Seq(T)
               /\ \A k \in 1 .. Len(ledger) : ledger'[k] = ledger[k]
               /\ ledger'[Len(ledger) + 1] = b
               /\ \A k \in 1 .. Len(ledger') : k \in 1 .. Len(ledger) \/ k = Len(ledger) + 1
  BY Broadcasts
<1>3. job.id \in DOMAIN agreed /\ job.argv.to = agreed[job.id].to
  BY <1>1 DEF Inv, JobOK, Ready
<1>4. \A k \in 1 .. Len(ledger) : ledger[k].id # job.id
  BY <1>1 DEF Inv, LedgerOK
<1>5. \A i \in 1 .. Len(queue) : queue[i].id # job.id
  BY <1>1 DEF Inv, JobOK
<1>6. JobOK'
  BY <1>1 DEF Inv, JobOK, Ready
<1>7. LedgerOK'
  <2>1. job'.step = "sent"
    BY <1>1 DEF Inv, JobOK
  <2>2. \A k \in 1 .. Len(ledger') : \A i \in 1 .. Len(queue) : queue[i].id # ledger'[k].id
    BY <1>2, <1>5 DEF Inv, LedgerOK
  <2>. QED BY <1>1, <1>2, <2>1, <2>2 DEF LedgerOK
<1>8. PaysWhoWasAgreed'
  <2>. SUFFICES ASSUME NEW k \in 1 .. Len(ledger')
                PROVE  /\ ledger'[k].id \in DOMAIN agreed
                       /\ ledger'[k].to = agreed[ledger'[k].id].to
                       /\ \A j \in 1 .. Len(ledger') : ledger'[j].id = ledger'[k].id => j = k
    BY <1>1 DEF PaysWhoWasAgreed
  <2>1. CASE k \in 1 .. Len(ledger)
    BY <1>2, <1>4, <2>1 DEF Inv, PaysWhoWasAgreed
  <2>2. CASE k = Len(ledger) + 1
    BY <1>2, <1>3, <1>4, <2>2
  <2>. QED BY <1>2, <2>1, <2>2
<1>. QED BY <1>1, <1>6, <1>7, <1>8 DEF Inv, Numbered, QueueOK, WindowOK, Ready

LEMMA WorkerInv == ASSUME Inv, Worker PROVE Inv'
<1>1. CASE Read
  BY <1>1, Ends DEF Read, Answer, view, history
<1>2. CASE Grant
  BY <1>2, Ends DEF Grant, Answer, view, history
<1>3. CASE Confirm
  BY <1>3, Ends DEF Confirm, Answer, view, history
<1>4. CASE Finish
  BY <1>4, Ends DEF Finish, Answer, view, history
<1>5. CASE Fail
  BY <1>5, Ends DEF Fail, Answer, view, history
<1>6. CASE Panic
  BY <1>6, Ends DEF Panic, Answer, view
<1>. QED BY <1>1, <1>2, <1>3, <1>4, <1>5, <1>6, StartInv, PickInv, RecordInv, BroadcastInv
         DEF Worker

LEMMA StepInv == ASSUME Inv, [Next]_vars PROVE Inv'
<1>1. CASE UNCHANGED vars
  BY <1>1, Shows DEF vars, Inv, WindowOK
<1>2. ASSUME NEW g \in given, Arrive(g) PROVE Inv'
  BY <1>2, Shows DEF Arrive, view, history, Inv, WindowOK
<1>. QED BY <1>1, <1>2, WindowInv, WorkerInv, PumpInv DEF Next

(* Every broadcast goes to the address of a dialog the user agreed to, and *)
(* every yes is broadcast once at most.  (begin_send, confirm_send.)       *)
THEOREM PaysOnlyWhoWasAgreed == Spec => []PaysWhoWasAgreed
<1>1. Inv => PaysWhoWasAgreed
  BY DEF Inv
<1>. QED BY InitInv, StepInv, <1>1, PTL DEF Spec

-----------------------------------------------------------------------------
(* What a price, a dialog and a running command say of the window.  Every  *)
(* change of wallet, network or token is counted, so what was noted under  *)
(* the present count m describes the window w as it is; of what was noted  *)
(* under an earlier count nothing is said.                                 *)

Fresh(c, w, m) ==
  c.kind = "price" => /\ c.moves \in Nat /\ c.moves <= m
                      /\ c.moves = m => c.symbol = Asset(w)
Faithful(d, w, m) ==
  /\ d.moves \in Nat /\ d.moves <= m
  /\ d.moves = m =>
       d.from = w.active /\ d.symbol = Asset(w) /\ d.argv.asset = w.token
Signed(r, yeses) == r.yes => r.id \in DOMAIN yeses /\ r.argv = yeses[r.id].argv

(* The answers `left` and what is waited for in `waiting`: every request   *)
(* not yet answered has its callback, and no two bear one number.          *)
Waiting(left, waiting) ==
  /\ \E S : left \in Seq(S)
  /\ \A i \in 1 .. Len(left) : left[i].id \in 1 .. asked /\ left[i].id \in DOMAIN waiting
  /\ \A i, j \in 1 .. Len(left) : left[i].id = left[j].id => i = j
  /\ \A i \in 1 .. Len(left), j \in 1 .. Len(queue) : left[i].id # queue[j].id
  /\ job # Nothing => /\ job.id \in DOMAIN waiting
                      /\ \A i \in 1 .. Len(left) : left[i].id # job.id
  /\ \A i \in 1 .. Len(queue) : queue[i].id \in DOMAIN waiting
Prices(waiting, w, m) == \A k \in DOMAIN waiting : Fresh(waiting[k], w, m)

ViewOK ==
  /\ {"active", "network", "token", "confirm"} \subseteq DOMAIN win
  /\ store = [active |-> win.active, network |-> win.network]
  /\ moves \in Nat
DialogsOK ==
  /\ win.confirm # Nothing => Faithful(win.confirm, win, moves)
  /\ \A k \in DOMAIN agreed : Faithful(agreed[k], win, moves)
CommandOK ==
  job # Nothing =>
    /\ {"id", "argv", "yes", "step", "account", "network", "read"} \subseteq DOMAIN job
    /\ Signed(job, agreed) /\ job.read # {}
    /\ job.yes /\ job.read = {agreed[job.id].moves} =>
         /\ JobAsset = agreed[job.id].symbol
         /\ job.step # "new" => job.account = agreed[job.id].from
QueueSigned == \A i \in 1 .. Len(queue) : Signed(queue[i], agreed)
ShownInv ==
  /\ Waiting(answers, pending) /\ Prices(pending, win, moves)
  /\ ViewOK /\ DialogsOK /\ CommandOK /\ QueueSigned /\ SpendsWhatWasShown

(* The window moves on, or what it works in stays.                         *)
Moving ==
  \/ moves' = moves + 1
  \/ /\ moves' = moves /\ win'.active = win.active
     /\ win'.network = win.network /\ win'.token = win.token

LEMMA InitShown == Init => ShownInv
<1>. SUFFICES ASSUME Init PROVE ShownInv
  OBVIOUS
<1>1. /\ queue = <<>> /\ Len(queue) = 0 /\ answers = <<>> /\ Len(answers) = 0
      /\ answers \in Seq({}) /\ pending = <<>> /\ DOMAIN pending = {}
      /\ job = Nothing /\ agreed = <<>> /\ DOMAIN agreed = {} /\ moves = 0
      /\ ledger = <<>> /\ Len(ledger) = 0
  BY DEF Init
<1>2. ViewOK /\ win.confirm = Nothing
  <2>1. store \in [active : Account, network : Network]
    BY DEF Init
  <2>2. win = [active |-> store.active, network |-> store.network, token |-> Coin,
               balance |-> Nothing, confirm |-> Nothing, faucet |-> Nothing,
               form |-> Shop]
    BY DEF Init
  <2>. QED BY <2>1, <2>2, <1>1 DEF ViewOK
<1>3. Waiting(answers, pending) /\ Prices(pending, win, moves)
  BY <1>1 DEF Waiting, Prices
<1>. QED BY <1>1, <1>2, <1>3
       DEF ShownInv, DialogsOK, CommandOK, QueueSigned, SpendsWhatWasShown

(* What was noted of the window stays true of it, or is of an earlier      *)
(* count.                                                                  *)
LEMMA NotesAge ==
  ASSUME ViewOK, Moving
  PROVE  /\ \A c : Fresh(c, win, moves) => Fresh(c, win', moves')
         /\ \A d : Faithful(d, win, moves) => Faithful(d, win', moves')
<1>1. moves \in Nat
  BY DEF ViewOK
<1>2. CASE moves' = moves + 1
  BY <1>1, <1>2 DEF Fresh, Faithful
<1>3. CASE /\ moves' = moves /\ win'.active = win.active
           /\ win'.network = win.network /\ win'.token = win.token
  BY <1>3 DEF Fresh, Faithful, Asset
<1>. QED BY <1>2, <1>3 DEF Moving

(* The window's side of a step, whatever it did to the queue.              *)
LEMMA WindowSide ==
  ASSUME Inv, ShownInv, Moving, ViewOK', UNCHANGED <<job, ledger>>,
         Waiting(answers, pending)', Prices(pending, win, moves)', QueueSigned',
         win'.confirm # Nothing =>
           win'.confirm = win.confirm \/ Faithful(win'.confirm, win', moves'),
         \/ UNCHANGED agreed
         \/ win.confirm # Nothing /\ agreed' = With(agreed, asked + 1, win.confirm)
  PROVE  ShownInv'
<1>1. /\ \A k \in DOMAIN agreed : k \in DOMAIN agreed' /\ agreed'[k] = agreed[k]
      /\ \A k \in DOMAIN agreed' :
           k \in DOMAIN agreed \/ (win.confirm # Nothing /\ agreed'[k] = win.confirm)
  <2>1. asked + 1 \notin DOMAIN agreed
    BY DEF Inv, Numbered
  <2>2. CASE UNCHANGED agreed
    BY <2>2
  <2>3. CASE win.confirm # Nothing /\ agreed' = With(agreed, asked + 1, win.confirm)
    <3>1. DOMAIN agreed' = DOMAIN agreed \cup {asked + 1}
      BY <2>3 DEF With
    <3>2. \A k \in DOMAIN agreed : agreed'[k] = agreed[k]
      BY <2>1, <2>3 DEF With
    <3>3. agreed'[asked + 1] = win.confirm
      BY <2>3 DEF With
    <3>. QED BY <2>3, <3>1, <3>2, <3>3
  <2>. QED BY <2>2, <2>3
<1>2. /\ \A d : Faithful(d, win, moves) => Faithful(d, win', moves')
  BY NotesAge DEF ShownInv
<1>3. DialogsOK'
  BY <1>1, <1>2 DEF ShownInv, DialogsOK
<1>4. CommandOK'
  <2>. SUFFICES ASSUME job # Nothing PROVE CommandOK'
    BY DEF CommandOK
  <2>1. Signed(job, agreed') /\ (job.yes => agreed'[job.id] = agreed[job.id])
    BY <1>1 DEF ShownInv, CommandOK, Signed
  <2>2. JobAsset' = JobAsset
    BY DEF JobAsset
  <2>. QED BY <2>1, <2>2 DEF ShownInv, CommandOK
<1>5. SpendsWhatWasShown'
  BY <1>1 DEF Inv, PaysWhoWasAgreed, ShownInv, SpendsWhatWasShown
<1>. QED BY <1>3, <1>4, <1>5 DEF ShownInv

(* Nothing is submitted; `left` and `waiting` are what remains.            *)
LEMMA StaysShown ==
  ASSUME Inv, ShownInv, Moving, ViewOK',
         UNCHANGED <<queue, job, asked, agreed, ledger>>,
         NEW left, NEW waiting, Waiting(left, waiting), Prices(waiting, win, moves),
         answers' = left, pending' = waiting,
         win'.confirm # Nothing =>
           win'.confirm = win.confirm \/ Faithful(win'.confirm, win', moves')
  PROVE  ShownInv'
<1>1. Waiting(answers, pending)'
  BY DEF Waiting
<1>2. \A c : Fresh(c, win, moves) => Fresh(c, win', moves')
  BY NotesAge DEF ShownInv
<1>3. Prices(pending, win, moves)'
  BY <1>2 DEF Prices
<1>4. QueueSigned'
  BY DEF ShownInv, QueueSigned
<1>. QED BY <1>1, <1>3, <1>4, WindowSide

(* A request is submitted with its callback, after an answer was taken or  *)
(* without one; a price notes what the window is left in.                  *)
LEMMA SubmitsShown ==
  ASSUME Inv, ShownInv, Moving, ViewOK', UNCHANGED <<job, ledger>>,
         NEW left, NEW waiting, Waiting(left, waiting), Prices(waiting, win, moves),
         NEW argv, NEW yes, NEW callback, Submit(waiting, argv, yes, callback),
         answers' = left, Fresh(callback, win', moves'),
         win'.confirm # Nothing => win'.confirm = win.confirm,
         \/ ~yes /\ UNCHANGED agreed
         \/ /\ win.confirm # Nothing /\ argv = win.confirm.argv
            /\ agreed' = With(agreed, asked + 1, win.confirm)
  PROVE  ShownInv'
<1>. DEFINE r == [id |-> asked + 1, argv |-> argv, yes |-> yes]
<1>1. asked' = asked + 1 /\ queue' = Append(queue, r) /\ asked \in Nat
      /\ pending' = With(waiting, asked + 1, callback)
  BY DEF Submit, Inv, Numbered
<1>2. PICK S : queue \in Seq(S)
  BY DEF Inv, QueueOK
<1>3. /\ Len(queue) \in Nat /\ Len(queue') = Len(queue) + 1
      /\ \A i \in 1 .. Len(queue) : queue'[i] = queue[i]
      /\ queue'[Len(queue) + 1] = r
      /\ \A i \in 1 .. Len(queue') : i \in 1 .. Len(queue) \/ i = Len(queue) + 1
  BY <1>1, <1>2, Appended, LenProperties
<1>4. r.id = asked + 1 /\ r.yes = yes /\ r.argv = argv
  OBVIOUS
<1>. HIDE DEF r
<1>5. /\ DOMAIN pending' = DOMAIN waiting \cup {asked + 1}
      /\ pending'[asked + 1] = callback
      /\ \A k \in DOMAIN waiting : k # asked + 1 => pending'[k] = waiting[k]
  BY <1>1 DEF With
<1>6. Waiting(answers, pending)'
  <2>1. \A i \in 1 .. Len(queue') : queue'[i].id \in DOMAIN pending'
    BY <1>3, <1>4, <1>5 DEF Waiting
  <2>2. \A i \in 1 .. Len(left), j \in 1 .. Len(queue') : left[i].id # queue'[j].id
    BY <1>1, <1>3, <1>4 DEF Waiting
  <2>3. \A i \in 1 .. Len(left) : left[i].id \in 1 .. asked' /\ left[i].id \in DOMAIN pending'
    BY <1>1, <1>5 DEF Waiting
  <2>. QED BY <2>1, <2>2, <2>3, <1>5 DEF Waiting
<1>7. Prices(pending, win, moves)'
  <2>1. \A c : Fresh(c, win, moves) => Fresh(c, win', moves')
    BY NotesAge DEF ShownInv
  <2>. QED BY <2>1, <1>5 DEF Prices
<1>8. QueueSigned'
  <2>1. /\ \A k \in DOMAIN agreed : k \in DOMAIN agreed' /\ agreed'[k] = agreed[k]
        /\ yes => asked + 1 \in DOMAIN agreed' /\ agreed'[asked + 1].argv = argv
    <3>1. CASE ~yes /\ UNCHANGED agreed
      BY <3>1
    <3>2. CASE /\ win.confirm # Nothing /\ argv = win.confirm.argv
               /\ agreed' = With(agreed, asked + 1, win.confirm)
      <4>1. DOMAIN agreed' = DOMAIN agreed \cup {asked + 1} /\ asked + 1 \notin DOMAIN agreed
        BY <3>2, <1>1 DEF With, Inv, Numbered
      <4>2. \A k \in DOMAIN agreed : agreed'[k] = agreed[k]
        BY <3>2, <4>1 DEF With
      <4>3. agreed'[asked + 1] = win.confirm
        BY <3>2 DEF With
      <4>. QED BY <3>2, <4>1, <4>2, <4>3
    <3>. QED BY <3>1, <3>2
  <2>. SUFFICES ASSUME NEW i \in 1 .. Len(queue') PROVE Signed(queue'[i], agreed')
    BY DEF QueueSigned
  <2>2. CASE i \in 1 .. Len(queue)
    BY <2>1, <2>2, <1>3 DEF Signed, ShownInv, QueueSigned
  <2>3. CASE i = Len(queue) + 1
    BY <2>1, <2>3, <1>3, <1>4 DEF Signed
  <2>. QED BY <2>2, <2>3, <1>3
<1>. QED BY <1>6, <1>7, <1>8, WindowSide

(* The answer at the head is awaited, and the others still are without it. *)
LEMMA TakenWaits ==
  ASSUME ShownInv, answers # <<>>
  PROVE  /\ Reply.id \in DOMAIN pending
         /\ Waiting(Tail(answers), Rest) /\ Prices(Rest, win, moves)
<1>1. PICK S : answers \in Seq(S)
  BY DEF ShownInv, Waiting
<1>2. /\ Reply = answers[1] /\ Len(answers) \in Nat \ {0}
      /\ Tail(answers) \in Seq(S) /\ Len(Tail(answers)) = Len(answers) - 1
      /\ \A i \in 1 .. Len(answers) - 1 : Tail(answers)[i] = answers[i + 1]
  BY <1>1, Taken DEF Reply
<1>. DEFINE rest == Tail(answers)
<1>3. /\ 1 \in 1 .. Len(answers)
      /\ \A i \in 1 .. Len(rest) : i + 1 \in 1 .. Len(answers) /\ rest[i] = answers[i + 1]
  BY <1>2
<1>4. DOMAIN Rest = DOMAIN pending \ {Reply.id} /\ \A k \in DOMAIN Rest : Rest[k] = pending[k]
  BY DEF Rest
<1>5. Reply.id \in DOMAIN pending
  BY <1>2, <1>3 DEF ShownInv, Waiting
<1>6. \A i \in 1 .. Len(rest) : rest[i].id # Reply.id
  <2>. SUFFICES ASSUME NEW i \in 1 .. Len(rest), rest[i].id = Reply.id PROVE FALSE
    OBVIOUS
  <2>1. i + 1 = 1
    BY <1>2, <1>3 DEF ShownInv, Waiting
  <2>. QED BY <2>1, <1>2
<1>7. \A i, j \in 1 .. Len(rest) : rest[i].id = rest[j].id => i = j
  <2>. SUFFICES ASSUME NEW i \in 1 .. Len(rest), NEW j \in 1 .. Len(rest),
                       rest[i].id = rest[j].id
                PROVE  i = j
    OBVIOUS
  <2>1. answers[i + 1].id = answers[j + 1].id
        /\ i + 1 \in 1 .. Len(answers) /\ j + 1 \in 1 .. Len(answers)
    BY <1>3
  <2>2. i + 1 = j + 1
    BY <2>1 DEF ShownInv, Waiting
  <2>. QED BY <2>2, <1>2
<1>8. \A i \in 1 .. Len(rest) : rest[i].id \in 1 .. asked /\ rest[i].id \in DOMAIN Rest
  BY <1>3, <1>4, <1>6 DEF ShownInv, Waiting
<1>9. \A i \in 1 .. Len(rest), j \in 1 .. Len(queue) : rest[i].id # queue[j].id
  BY <1>3 DEF ShownInv, Waiting
<1>10. job # Nothing => job.id \in DOMAIN Rest /\ \A i \in 1 .. Len(rest) : rest[i].id # job.id
  BY <1>2, <1>3, <1>4 DEF ShownInv, Waiting
<1>11. \A i \in 1 .. Len(queue) : queue[i].id \in DOMAIN Rest
  BY <1>2, <1>3, <1>4 DEF ShownInv, Waiting
<1>12. \E T : rest \in Seq(T)
  BY <1>2
<1>13. Waiting(rest, Rest)
  <2>. HIDE DEF rest
  <2>. QED BY <1>7, <1>8, <1>9, <1>10, <1>11, <1>12 DEF Waiting
<1>14. Prices(Rest, win, moves)
  BY <1>4 DEF ShownInv, Prices
<1>. QED BY <1>5, <1>13, <1>14

-----------------------------------------------------------------------------
(* The window's steps once more: which of them count as a move, and what   *)
(* they submit.                                                            *)

LEMMA WindowShown ==
  ASSUME Inv, ShownInv,
         \/ \E a \in Account : Select(a)
         \/ \E n \in Network : SwitchNetwork(n)
         \/ \E t \in Token \cup {Coin} : PickToken(t)
         \/ \E to \in Payee : TypeTo(to)
         \/ \E to \in Account \cup {win.form} : BeginSend(to)
         \/ FetchBalance \/ ConfirmSend \/ CancelSend
         \/ RequestFaucet \/ DemoFaucet \/ DismissFaucet \/ Tick
  PROVE  ShownInv'
<1>. USE DEF ShownInv
<1>1. ASSUME NEW a \in Account, Select(a) PROVE ShownInv'
  <2>1. /\ {"active", "network", "token", "confirm"} \subseteq DOMAIN win
        /\ store = [active |-> win.active, network |-> win.network] /\ moves \in Nat
    BY DEF ViewOK
  <2>2. /\ {"active", "network", "token", "confirm"} \subseteq DOMAIN win'
        /\ win'.confirm = win.confirm
    BY <1>1, <2>1 DEF Select
  <2>3. store' = [active |-> win'.active, network |-> win'.network]
    BY <1>1, <2>1 DEF Select
  <2>4. moves' = moves + 1
    BY <1>1 DEF Select, Moves
  <2>5. ViewOK' /\ Moving /\ win'.confirm = win.confirm
    BY <2>1, <2>2, <2>3, <2>4 DEF Moving, ViewOK
  <2>. QED BY <1>1, <2>5, StaysShown DEF Select, history
<1>2. ASSUME NEW n \in Network, SwitchNetwork(n) PROVE ShownInv'
  <2>1. /\ {"active", "network", "token", "confirm"} \subseteq DOMAIN win
        /\ store = [active |-> win.active, network |-> win.network] /\ moves \in Nat
    BY DEF ViewOK
  <2>2. /\ {"active", "network", "token", "confirm"} \subseteq DOMAIN win'
        /\ win'.confirm = win.confirm
    BY <1>2, <2>1 DEF SwitchNetwork
  <2>3. store' = [active |-> win'.active, network |-> win'.network]
    BY <1>2, <2>1 DEF SwitchNetwork
  <2>4. moves' = moves + 1
    BY <1>2 DEF SwitchNetwork, Moves
  <2>5. ViewOK' /\ Moving /\ win'.confirm = win.confirm
    BY <2>1, <2>2, <2>3, <2>4 DEF Moving, ViewOK
  <2>. QED BY <1>2, <2>5, StaysShown DEF SwitchNetwork, history
<1>3. ASSUME NEW t \in Token \cup {Coin}, PickToken(t) PROVE ShownInv'
  <2>1. /\ {"active", "network", "token", "confirm"} \subseteq DOMAIN win
        /\ store = [active |-> win.active, network |-> win.network] /\ moves \in Nat
    BY DEF ViewOK
  <2>2. /\ {"active", "network", "token", "confirm"} \subseteq DOMAIN win'
        /\ win'.confirm = win.confirm
    BY <1>3, <2>1 DEF PickToken
  <2>3. store' = [active |-> win'.active, network |-> win'.network]
    BY <1>3, <2>1 DEF PickToken
  <2>4. moves' = moves + 1
    BY <1>3 DEF PickToken, Moves
  <2>5. ViewOK' /\ Moving /\ win'.confirm = win.confirm
    BY <2>1, <2>2, <2>3, <2>4 DEF Moving, ViewOK
  <2>6. Fresh(FetchCallback, win', moves')
    BY DEF Fresh, FetchCallback
  <2>. QED BY <1>3, <2>5, <2>6, SubmitsShown DEF PickToken, Ask, history
<1>4. ASSUME NEW to \in Payee, TypeTo(to) PROVE ShownInv'
  <2>1. ViewOK' /\ Moving /\ win'.confirm = win.confirm
    BY <1>4 DEF TypeTo, Moving, ViewOK
  <2>. QED BY <1>4, <2>1, StaysShown DEF TypeTo, history
<1>5. ASSUME NEW to \in Account \cup {win.form}, BeginSend(to) PROVE ShownInv'
  <2>1. ViewOK' /\ Moving /\ win' = win /\ moves' = moves
    BY <1>5 DEF BeginSend, view, Moving, ViewOK
  <2>2. Fresh([kind |-> "price", to |-> to, symbol |-> Asset(win), moves |-> moves],
              win', moves')
    BY <2>1 DEF Fresh, ViewOK
  <2>. QED BY <1>5, <2>1, <2>2, SubmitsShown DEF BeginSend, Ask, history
<1>6. CASE FetchBalance
  <2>1. ViewOK' /\ Moving /\ win' = win
    BY <1>6 DEF FetchBalance, view, Moving, ViewOK
  <2>2. Fresh(FetchCallback, win', moves')
    BY DEF Fresh, FetchCallback
  <2>. QED BY <1>6, <2>1, <2>2, SubmitsShown DEF FetchBalance, Ask, history
<1>7. CASE ConfirmSend
  <2>1. ViewOK' /\ Moving /\ win'.confirm = Nothing
    BY <1>7 DEF ConfirmSend, Moving, ViewOK
  <2>2. Fresh([kind |-> "sent"], win', moves')
    BY DEF Fresh
  <2>. QED BY <1>7, <2>1, <2>2, SubmitsShown DEF ConfirmSend, Ask
<1>8. CASE CancelSend
  <2>1. ViewOK' /\ Moving /\ win'.confirm = Nothing
    BY <1>8 DEF CancelSend, Moving, ViewOK
  <2>. QED BY <1>8, <2>1, StaysShown DEF CancelSend, history
<1>9. CASE RequestFaucet
  <2>1. ViewOK' /\ Moving /\ win'.confirm = win.confirm
    BY <1>9 DEF RequestFaucet, Moving, ViewOK
  <2>2. CASE win.network \in Automatic
    <3>1. Fresh([kind |-> "before", panel |-> asked], win', moves')
      BY DEF Fresh
    <3>. QED BY <1>9, <2>1, <2>2, <3>1, SubmitsShown DEF RequestFaucet, Ask, history
  <2>3. CASE win.network \notin Automatic
    BY <1>9, <2>1, <2>3, StaysShown DEF RequestFaucet, history
  <2>. QED BY <2>2, <2>3
<1>10. CASE DemoFaucet
  <2>1. ViewOK' /\ Moving /\ win'.confirm = win.confirm
    BY <1>10 DEF DemoFaucet, Moving, ViewOK
  <2>. QED BY <1>10, <2>1, StaysShown DEF DemoFaucet, history
<1>11. CASE DismissFaucet
  <2>1. ViewOK' /\ Moving /\ win'.confirm = win.confirm
    BY <1>11 DEF DismissFaucet, Moving, ViewOK
  <2>. QED BY <1>11, <2>1, StaysShown DEF DismissFaucet, history
<1>12. CASE Tick
  <2>1. ViewOK' /\ Moving /\ win'.confirm = win.confirm
    BY <1>12 DEF Tick, Moving, ViewOK
  <2>2. Fresh([kind |-> "after", panel |-> win.faucet.id, last |-> win.faucet.tries <= 1],
              win', moves')
    BY DEF Fresh
  <2>. QED BY <1>12, <2>1, <2>2, SubmitsShown DEF Tick, Ask, history
<1>. QED BY <1>1, <1>2, <1>3, <1>4, <1>5, <1>6, <1>7, <1>8, <1>9, <1>10, <1>11, <1>12

(* An answer is taken: of a price, it opens the dialog with what the       *)
(* window is in by then, under the count the price was asked at.           *)
LEMMA PumpShown == ASSUME Inv, ShownInv, Pump PROVE ShownInv'
<1>. USE DEF ShownInv
<1>1. CASE TakeBalance
  <2>1. ViewOK' /\ Moving /\ win'.confirm = win.confirm
    BY <1>1 DEF TakeBalance, Moving, ViewOK
  <2>. QED BY <1>1, <2>1, TakenWaits, StaysShown
           DEF TakeBalance, Answered, TakeReply, history
<1>2. CASE TakePlan
  <2>1. ViewOK' /\ Moving /\ moves' = moves
        /\ win'.active = win.active /\ win'.token = win.token /\ win'.network = win.network
    BY <1>2 DEF TakePlan, Moving, ViewOK
  <2>2. Reply.id \in DOMAIN pending /\ Callback.kind = "price"
    BY <1>2, TakenWaits DEF TakePlan, Answered
  <2>3. Fresh(Callback, win, moves)
    BY <2>2 DEF Prices, Callback
  <2>4. win'.confirm = win.confirm \/ Faithful(win'.confirm, win', moves')
    <3>1. CASE Reply.code = "confirmation_required"
      BY <1>2, <2>1, <2>2, <2>3, <3>1
         DEF TakePlan, SendArgv, Fresh, Faithful, Asset, ViewOK
    <3>2. CASE Reply.code # "confirmation_required"
      BY <1>2, <3>2 DEF TakePlan
    <3>. QED BY <3>1, <3>2
  <2>. QED BY <1>2, <2>1, <2>4, TakenWaits, StaysShown
           DEF TakePlan, Answered, TakeReply, history
<1>3. CASE TakeSent
  <2>1. ViewOK' /\ Moving /\ win'.confirm = win.confirm
    BY <1>3 DEF TakeSent, Moving, ViewOK
  <2>. QED BY <1>3, <2>1, TakenWaits, StaysShown
           DEF TakeSent, Answered, TakeReply, history
<1>4. CASE TakeBefore
  <2>1. ViewOK' /\ Moving /\ win'.confirm = win.confirm
    BY <1>4 DEF TakeBefore, Moving, ViewOK
  <2>2. CASE SamePanel
    <3>1. Fresh([kind |-> "grant", panel |-> win.faucet.id], win', moves')
      BY DEF Fresh
    <3>. QED BY <1>4, <2>1, <2>2, <3>1, TakenWaits, SubmitsShown
             DEF TakeBefore, Answered, history
  <2>3. CASE ~SamePanel
    BY <1>4, <2>1, <2>3, TakenWaits, StaysShown DEF TakeBefore, Answered, history
  <2>. QED BY <2>2, <2>3
<1>5. CASE TakeGrant
  <2>1. ViewOK' /\ Moving /\ win'.confirm = win.confirm
    BY <1>5 DEF TakeGrant, Moving, ViewOK
  <2>. QED BY <1>5, <2>1, TakenWaits, StaysShown
           DEF TakeGrant, Answered, TakeReply, history
<1>6. CASE TakeAfter
  <2>1. ViewOK' /\ Moving /\ win'.confirm = win.confirm
    BY <1>6 DEF TakeAfter, Moving, ViewOK
  <2>. QED BY <1>6, <2>1, TakenWaits, StaysShown
           DEF TakeAfter, Answered, TakeReply, history
<1>. QED BY <1>1, <1>2, <1>3, <1>4, <1>5, <1>6 DEF Pump

-----------------------------------------------------------------------------
(* The worker's steps once more. *)

(* The command opens the store the window has written, and notes the count *)
(* it did so at; so it does when it reads the account.                     *)
LEMMA StartShown == ASSUME Inv, ShownInv, Start PROVE ShownInv'
<1>. DEFINE r == Head(queue)
<1>1. queue' = Tail(queue) /\ queue # <<>> /\ job = Nothing
      /\ UNCHANGED <<store, win, pending, answers, asked, moves, agreed, ledger>>
  BY DEF Start, history
<1>2. job' = [id |-> r.id, argv |-> r.argv, yes |-> r.yes, step |-> "new",
              account |-> Nothing, read |-> {moves},
              network |-> IF r.argv.asset = Coin THEN store.network
                          ELSE Home[r.argv.asset]]
  BY DEF Start
<1>3. PICK S : queue \in Seq(S)
  BY DEF Inv, QueueOK
<1>4. /\ r = queue[1] /\ Len(queue) \in Nat \ {0} /\ Len(queue') = Len(queue) - 1
      /\ \A i \in 1 .. Len(queue) - 1 : queue'[i] = queue[i + 1]
  BY <1>1, <1>3, Taken
<1>5. /\ 1 \in 1 .. Len(queue)
      /\ \A i \in 1 .. Len(queue') : i + 1 \in 1 .. Len(queue) /\ queue'[i] = queue[i + 1]
  BY <1>4
<1>6. Waiting(answers, pending)'
  <2>1. job'.id = r.id
    BY <1>2
  <2>2. \A i \in 1 .. Len(queue') : queue'[i].id \in DOMAIN pending
    BY <1>5 DEF ShownInv, Waiting
  <2>3. \A i \in 1 .. Len(answers), j \in 1 .. Len(queue') : answers[i].id # queue'[j].id
    BY <1>5 DEF ShownInv, Waiting
  <2>4. r.id \in DOMAIN pending /\ \A i \in 1 .. Len(answers) : answers[i].id # r.id
    BY <1>4, <1>5 DEF ShownInv, Waiting
  <2>. HIDE DEF r
  <2>. QED BY <1>1, <2>1, <2>2, <2>3, <2>4 DEF ShownInv, Waiting
<1>7. QueueSigned'
  BY <1>1, <1>5 DEF ShownInv, QueueSigned
<1>8. CommandOK'
  <2>1. Signed(r, agreed)
    BY <1>4, <1>5 DEF ShownInv, QueueSigned
  <2>2. /\ job'.id = r.id /\ job'.argv = r.argv /\ job'.yes = r.yes
        /\ job'.step = "new" /\ job'.read = {moves}
        /\ {"id", "argv", "yes", "step", "account", "network", "read"} \subseteq DOMAIN job'
        /\ (r.argv.asset = Coin => job'.network = store.network)
    BY <1>2
  <2>. HIDE DEF r
  <2>3. ASSUME r.yes, {moves} = {agreed[r.id].moves}
        PROVE  JobAsset' = agreed[r.id].symbol
    <3>1. r.id \in DOMAIN agreed /\ r.argv = agreed[r.id].argv /\ agreed[r.id].moves = moves
      BY <2>1, <2>3 DEF Signed
    <3>2. agreed[r.id].symbol = Asset(win) /\ r.argv.asset = win.token
      BY <3>1 DEF ShownInv, DialogsOK, Faithful
    <3>3. store.network = win.network
      BY DEF ShownInv, ViewOK
    <3>. QED BY <2>2, <3>2, <3>3 DEF JobAsset, Asset
  <2>. QED BY <1>1, <2>1, <2>2, <2>3 DEF CommandOK, Signed
<1>. HIDE DEF r
<1>9. Prices(pending, win, moves)' /\ ViewOK' /\ DialogsOK' /\ SpendsWhatWasShown'
  BY <1>1 DEF ShownInv, ViewOK, DialogsOK, SpendsWhatWasShown
<1>. QED BY <1>6, <1>7, <1>8, <1>9 DEF ShownInv

LEMMA PickShown == ASSUME Inv, ShownInv, PickAccount PROVE ShownInv'
<1>1. /\ job # Nothing /\ job.step = "new"
      /\ job' = [job EXCEPT !.step = "open", !.account = store.active, !.read = @ \cup {moves}]
      /\ UNCHANGED <<store, win, pending, queue, answers, asked, moves, agreed, ledger>>
  BY DEF PickAccount, At, view, history
<1>2. /\ job'.id = job.id /\ job'.argv = job.argv /\ job'.yes = job.yes
      /\ job'.network = job.network /\ DOMAIN job' = DOMAIN job
      /\ job'.account = store.active /\ job'.read = job.read \cup {moves}
  BY <1>1 DEF ShownInv, CommandOK
<1>3. CommandOK'
  <2>1. ASSUME job.yes, job'.read = {agreed[job.id].moves}
        PROVE  JobAsset' = agreed[job.id].symbol /\ job'.account = agreed[job.id].from
    <3>1. job.read = {agreed[job.id].moves} /\ moves = agreed[job.id].moves
      BY <1>1, <1>2, <2>1 DEF ShownInv, CommandOK
    <3>2. JobAsset = agreed[job.id].symbol /\ JobAsset' = JobAsset
      BY <1>1, <1>2, <2>1, <3>1 DEF ShownInv, CommandOK, JobAsset
    <3>3. job.id \in DOMAIN agreed
      BY <1>1, <2>1 DEF ShownInv, CommandOK, Signed
    <3>4. agreed[job.id].from = win.active /\ store.active = win.active
      BY <3>1, <3>3 DEF ShownInv, DialogsOK, Faithful, ViewOK
    <3>. QED BY <1>2, <3>2, <3>4
  <2>. QED BY <1>1, <1>2, <2>1 DEF ShownInv, CommandOK, Signed
<1>4. Waiting(answers, pending)'
  BY <1>1, <1>2 DEF ShownInv, Waiting
<1>. QED BY <1>1, <1>3, <1>4
         DEF ShownInv, ViewOK, DialogsOK, QueueSigned, SpendsWhatWasShown

(* The worker answers its command. *)
LEMMA EndsShown ==
  ASSUME Inv, ShownInv, job # Nothing, NEW ok, NEW code, NEW data, Answer(ok, code, data),
         UNCHANGED <<store, win, pending, queue, asked, moves, agreed, ledger>>
  PROVE  ShownInv'
<1>. DEFINE x == [id |-> job.id, ok |-> ok, code |-> code, data |-> data]
<1>1. answers' = Append(answers, x) /\ job' = Nothing
  BY DEF Answer
<1>2. PICK S : answers \in Seq(S)
  BY DEF ShownInv, Waiting
<1>3. /\ answers' \in Seq(S \cup {x}) /\ Len(answers) \in Nat
      /\ Len(answers') = Len(answers) + 1
      /\ \A i \in 1 .. Len(answers) : answers'[i] = answers[i]
      /\ answers'[Len(answers) + 1] = x
      /\ \A i \in 1 .. Len(answers') : i \in 1 .. Len(answers) \/ i = Len(answers) + 1
  BY <1>1, <1>2, Appended, LenProperties
<1>4. x.id = job.id
  OBVIOUS
<1>. HIDE DEF x
<1>5. /\ job.id \in 1 .. asked /\ job.id \in DOMAIN pending
      /\ \A i \in 1 .. Len(queue) : queue[i].id # job.id
      /\ \A i \in 1 .. Len(answers) : answers[i].id # job.id
  BY DEF Inv, JobOK, ShownInv, Waiting
<1>6. Waiting(answers, pending)'
  <2>1. \A i \in 1 .. Len(answers') :
          answers'[i].id \in 1 .. asked /\ answers'[i].id \in DOMAIN pending
    BY <1>3, <1>4, <1>5 DEF ShownInv, Waiting
  <2>2. \A i, j \in 1 .. Len(answers') : answers'[i].id = answers'[j].id => i = j
    BY <1>3, <1>4, <1>5 DEF ShownInv, Waiting
  <2>3. \A i \in 1 .. Len(answers'), j \in 1 .. Len(queue) : answers'[i].id # queue[j].id
    BY <1>3, <1>4, <1>5 DEF ShownInv, Waiting
  <2>4. \E T : answers' \in Seq(T)
    BY <1>3
  <2>. QED BY <1>1, <2>1, <2>2, <2>3, <2>4 DEF ShownInv, Waiting
<1>7. /\ Prices(pending, win, moves)' /\ ViewOK' /\ DialogsOK' /\ QueueSigned'
      /\ SpendsWhatWasShown'
  BY DEF ShownInv, ViewOK, DialogsOK, QueueSigned, SpendsWhatWasShown
<1>8. CommandOK'
  BY <1>1 DEF CommandOK
<1>. QED BY <1>6, <1>7, <1>8 DEF ShownInv

LEMMA RecordShown == ASSUME Inv, ShownInv, Record PROVE ShownInv'
<1>1. job # Nothing /\ job' = [job EXCEPT !.step = "recorded"] /\ job.step = "open"
      /\ UNCHANGED <<store, win, pending, queue, answers, asked, moves, agreed, ledger>>
  BY DEF Record, Prepared, At, view, history
<1>2. job'.id = job.id /\ job'.argv = job.argv /\ job'.yes = job.yes
      /\ job'.account = job.account /\ job'.network = job.network
      /\ job'.read = job.read /\ DOMAIN job' = DOMAIN job
  BY <1>1 DEF ShownInv, CommandOK
<1>3. CommandOK'
  BY <1>1, <1>2 DEF ShownInv, CommandOK, Signed, JobAsset
<1>4. Waiting(answers, pending)'
  BY <1>1, <1>2 DEF ShownInv, Waiting
<1>. QED BY <1>1, <1>3, <1>4
         DEF ShownInv, ViewOK, DialogsOK, QueueSigned, SpendsWhatWasShown

LEMMA BroadcastShown == ASSUME Inv, ShownInv, Broadcast PROVE ShownInv'
<1>1. job # Nothing /\ job.step = "recorded" /\ job' = [job EXCEPT !.step = "sent"]
      /\ UNCHANGED <<store, win, pending, queue, answers, asked, moves, agreed>>
  BY DEF Broadcast, At, view
<1>2. PICK b : /\ b.id = job.id /\ b.from = job.account
               /\ b.asset = JobAsset /\ b.read = job.read
               /\ \A k \in 1 .. Len(ledger) : ledger'[k] = ledger[k]
               /\ ledger'[Len(ledger) + 1] = b
               /\ \A k \in 1 .. Len(ledger') : k \in 1 .. Len(ledger) \/ k = Len(ledger) + 1
  BY Broadcasts
<1>3. job'.id = job.id /\ job'.argv = job.argv /\ job'.yes = job.yes
      /\ job'.account = job.account /\ job'.network = job.network
      /\ job'.read = job.read /\ DOMAIN job' = DOMAIN job
  BY <1>1 DEF ShownInv, CommandOK
<1>4. CommandOK'
  BY <1>1, <1>3 DEF ShownInv, CommandOK, Signed, JobAsset
<1>5. Waiting(answers, pending)'
  BY <1>1, <1>3 DEF ShownInv, Waiting
<1>6. job.yes
  BY <1>1 DEF Inv, JobOK
<1>7. SpendsWhatWasShown'
  BY <1>1, <1>2, <1>6 DEF ShownInv, CommandOK, SpendsWhatWasShown
<1>. QED BY <1>1, <1>4, <1>5, <1>7 DEF ShownInv, ViewOK, DialogsOK, QueueSigned

LEMMA WorkerShown == ASSUME Inv, ShownInv, Worker PROVE ShownInv'
<1>1. CASE Read
  BY <1>1, EndsShown DEF Read, At, view, history
<1>2. CASE Grant
  BY <1>2, EndsShown DEF Grant, At, view, history
<1>3. CASE Confirm
  BY <1>3, EndsShown DEF Confirm, Prepared, At, view, history
<1>4. CASE Finish
  BY <1>4, EndsShown DEF Finish, At, view, history
<1>5. CASE Fail
  BY <1>5, EndsShown DEF Fail, Running, At, view, history
<1>6. CASE Panic
  BY <1>6, EndsShown DEF Panic, Running, At, view
<1>. QED BY <1>1, <1>2, <1>3, <1>4, <1>5, <1>6, StartShown, PickShown, RecordShown, BroadcastShown
         DEF Worker

LEMMA UnseenShown ==
  ASSUME ShownInv,
         UNCHANGED <<store, win, pending, queue, job, answers, asked, moves, agreed, ledger>>
  PROVE  ShownInv'
<1>1. JobAsset' = JobAsset
  BY DEF JobAsset
<1>. QED BY <1>1 DEF ShownInv, Waiting, Prices, ViewOK, DialogsOK, CommandOK, QueueSigned,
                     SpendsWhatWasShown

LEMMA StepShown == ASSUME Inv, ShownInv, [Next]_vars PROVE ShownInv'
<1>1. CASE UNCHANGED vars
  BY <1>1, UnseenShown DEF vars
<1>2. ASSUME NEW g \in given, Arrive(g) PROVE ShownInv'
  BY <1>2, UnseenShown DEF Arrive, view, history
<1>. QED BY <1>1, <1>2, WindowShown, WorkerShown, PumpShown DEF Next

(* Where the window has not moved between the pricing of a transfer and    *)
(* the command that signs it, the account and the asset spent are those    *)
(* the dialog named.  (begin_send, send_argv, confirm.from.)               *)
THEOREM SpendsOnlyWhatWasShown == Spec => []SpendsWhatWasShown
<1>1. ShownInv => SpendsWhatWasShown
  BY DEF ShownInv
<1>2. Inv /\ ShownInv /\ [Next]_vars => Inv' /\ ShownInv'
  BY StepInv, StepShown
<1>. QED BY InitInv, InitShown, <1>1, <1>2, PTL DEF Spec
=============================================================================
