-------------------------------- MODULE Gui --------------------------------
(***************************************************************************)
(* The LÖVE window (src/lovegui/model.lua), its worker thread (worker.lua) *)
(* and the wallet library both call through the C ABI                      *)
(* (src/rustcli/ffi/src/lib.rs).  The window changes wallet, network and   *)
(* token by itself and at once; what reaches a node is put in a queue the  *)
(* worker empties one request at a time, and the answer is taken by the    *)
(* next frame.  A request names neither the account nor the network: the   *)
(* command reads both from the store when the worker runs it, and the      *)
(* window may have moved by then.                                          *)
(*                                                                         *)
(* The networks are those of one chain, so that every account has a face   *)
(* on each; amounts are one unit; the search box, the session list and the *)
(* dialog that writes files are left out.                                  *)
(***************************************************************************)
EXTENDS Integers, Sequences, FiniteSets

CONSTANTS Account, Network, Token,
          Shop,          \* an address no account of the wallet holds
          Home,          \* the network of each token
          Movable,       \* the tokens the wallet moves
          Automatic,     \* the networks whose faucet the wallet asks itself
          Coin,          \* in place of a token: the network's own coin
          Nothing,
          FaucetTries,   \* FAUCET_TRIES
          MaxAsks,       \* bound on the requests submitted
          MaxMoves       \* bound on the changes of wallet, network or token

ASSUME GuiConstants ==
  /\ Home \in [Token -> Network]
  /\ Movable \subseteq Token /\ Automatic \subseteq Network
  /\ Shop \notin Account /\ Coin \notin Token /\ Nothing \notin Account
  /\ FaucetTries \in Nat /\ MaxAsks \in Nat /\ MaxMoves \in Nat

VARIABLES store,    \* the active account and the current network on disk
          funds,    \* the coins of each account on each network, at the node
          win,      \* what the window holds and shows
          pending,  \* the callback of each request not yet answered
          queue, job, answers,   \* the channels and the worker between them
          asked,    \* next_id
          given,    \* what a faucet has granted and not yet paid
          moves,    \* how often the window has moved (history)
          agreed,   \* the dialog each `yes` was pressed in (history)
          ledger,   \* what was broadcast, in order (history)
          misled    \* answers saying nothing was written when it was (history)

view == <<store, win>>
history == <<agreed, ledger, misled>>
vars == <<store, funds, win, pending, queue, job, answers, asked, given, moves,
          agreed, ledger, misled>>

Payee == Account \cup {Shop}
Busy == DOMAIN pending # {}
Asking == win.confirm # Nothing \/ win.faucet # Nothing

(* What the window is working in.                                          *)
Asset(w) == IF w.token = Coin THEN w.network ELSE w.token
(* The asset part of a command's arguments.                                *)
FormArgv(w, to) == [verb |-> "send", asset |-> w.token, to |-> w.form]
CoinArgv(w, to) == [verb |-> "send", asset |-> Coin, to |-> to]
SendArgv(w, to) == [verb |-> "send", asset |-> w.token, to |-> to]

(* The callback is kept under the request's number until it is answered.   *)
With(f, k, v) == [x \in DOMAIN f \cup {k} |-> IF x = k THEN v ELSE f[x]]
Submit(waiting, argv, yes, callback) ==
  /\ asked' = asked + 1
  /\ queue' = Append(queue, [id |-> asked + 1, argv |-> argv, yes |-> yes])
  /\ pending' = With(waiting, asked + 1, callback)
Ask(argv, yes, callback) ==
  asked < MaxAsks /\ Submit(pending, argv, yes, callback)

Balance(asset) == [verb |-> "balance", asset |-> asset, to |-> Nothing]
Airdrop == [verb |-> "airdrop", asset |-> Coin, to |-> Nothing]
FetchCallback == [kind |-> "balance"]

Init ==
  /\ store \in [active : Account, network : Network]
  /\ funds = [p \in Account \X Network |-> 1]
  /\ win = [active |-> store.active, network |-> store.network, token |-> Coin,
            balance |-> Nothing, confirm |-> Nothing, faucet |-> Nothing,
            form |-> Shop]
  /\ pending = <<>> /\ queue = <<>> /\ job = Nothing /\ answers = <<>>
  /\ asked = 0 /\ given = {} /\ moves = 0
  /\ agreed = <<>> /\ ledger = <<>> /\ misled = {}

----------------------------------------------------------------------------
(* The window.                                                             *)

Moves == /\ moves < MaxMoves /\ moves' = moves + 1

Select(a) ==
  /\ ~Asking /\ Moves
  /\ store' = [store EXCEPT !.active = a]
  /\ win' = [win EXCEPT !.active = a, !.balance = Nothing]
  /\ UNCHANGED <<funds, pending, queue, job, answers, asked, given, history>>

SwitchNetwork(n) ==
  /\ ~Asking /\ Moves
  /\ store' = [store EXCEPT !.network = n]
  /\ win' = [win EXCEPT !.network = n, !.token = Coin, !.balance = Nothing]
  /\ UNCHANGED <<funds, pending, queue, job, answers, asked, given, history>>

(* A token row moves to the token's network first; either row of the       *)
(* network in view only changes the token.  Both ask for the balance.      *)
PickToken(t) ==
  LET n == IF t = Coin THEN win.network ELSE Home[t] IN
  /\ ~Asking /\ Moves
  /\ t = Coin => win.token # Coin
  /\ store' = [store EXCEPT !.network = n]
  /\ win' = [win EXCEPT !.network = n, !.token = t, !.balance = Nothing]
  /\ Ask(Balance(t), FALSE, FetchCallback)
  /\ UNCHANGED <<funds, job, answers, given, history>>

FetchBalance ==
  /\ ~Asking
  /\ Ask(Balance(win.token), FALSE, FetchCallback)
  /\ UNCHANGED <<view, funds, job, answers, given, moves, history>>

TypeTo(to) ==
  /\ ~Asking /\ to # win.form
  /\ win' = [win EXCEPT !.form = to]
  /\ UNCHANGED <<store, funds, pending, queue, job, answers, asked, given,
                 moves, history>>

(* Only the dialog stands in the way: a second transfer may be priced      *)
(* before the first one's answer is in.                                    *)
BeginSend(to) ==
  /\ ~Asking
  /\ to \notin {Nothing, win.active}
  /\ win.token \in Movable \cup {Coin}
  /\ Ask(SendArgv(win, to), FALSE,
         [kind |-> "price", to |-> to, symbol |-> Asset(win), moves |-> moves])
  /\ UNCHANGED <<view, funds, job, answers, given, moves, history>>

ConfirmSend ==
  /\ win.confirm # Nothing
  /\ win' = [win EXCEPT !.confirm = Nothing]
  /\ Ask(win.confirm.argv, TRUE, [kind |-> "sent"])
  /\ agreed' = With(agreed, asked + 1, win.confirm)
  /\ UNCHANGED <<store, funds, job, answers, given, moves, ledger, misled>>

CancelSend ==
  /\ win.confirm # Nothing
  /\ win' = [win EXCEPT !.confirm = Nothing]
  /\ UNCHANGED <<store, funds, pending, queue, job, answers, asked, given,
                 moves, history>>

(* A panel is known by the number of the request that opened it.           *)
Panel(phase) ==
  [id |-> asked, phase |-> phase, address |-> win.active,
   network |-> win.network, before |-> Nothing, after |-> Nothing,
   tries |-> FaucetTries]

RequestFaucet ==
  /\ ~Asking /\ ~Busy
  /\ IF win.network \in Automatic
     THEN /\ win' = [win EXCEPT !.faucet = Panel("reading")]
          /\ Ask(Balance(Coin), FALSE, [kind |-> "before", panel |-> asked])
     ELSE /\ win' = [win EXCEPT !.faucet = Panel("manual")]
          /\ UNCHANGED <<pending, queue, asked>>
  /\ UNCHANGED <<store, funds, job, answers, given, moves, history>>

(* A demonstration takes the place of the panel it is started from.        *)
DemoFaucet ==
  /\ win.faucet # Nothing
  /\ win.faucet.phase \notin {"landed", "demo"}
  /\ win' = [win EXCEPT !.faucet = [Panel("demo") EXCEPT !.id = -1]]
  /\ UNCHANGED <<store, funds, pending, queue, job, answers, asked, given,
                 moves, history>>

DismissFaucet ==
  /\ win.faucet # Nothing
  /\ win' = [win EXCEPT !.faucet = Nothing]
  /\ UNCHANGED <<store, funds, pending, queue, job, answers, asked, given,
                 moves, history>>

Tick ==
  /\ win.faucet # Nothing
  /\ win.faucet.phase = "waiting"
  /\ ~Busy
  /\ win' = [win EXCEPT !.faucet.tries = @ - 1]
  /\ Ask(Balance(Coin), FALSE,
         [kind |-> "after", panel |-> win.faucet.id,
          last |-> win.faucet.tries <= 1])
  /\ UNCHANGED <<store, funds, job, answers, given, moves, history>>

----------------------------------------------------------------------------
(* A frame takes the answers there are, each to the callback that asked.   *)

Reply == Head(answers)
Callback == pending[Reply.id]
Answered(kind) == answers # <<>> /\ Callback.kind = kind
Rest == [i \in DOMAIN pending \ {Reply.id} |-> pending[i]]
TakeReply == answers' = Tail(answers) /\ pending' = Rest
SamePanel == win.faucet # Nothing /\ win.faucet.id = Callback.panel

TakeBalance ==
  /\ Answered("balance") /\ TakeReply
  /\ win' = IF Reply.ok THEN [win EXCEPT !.balance = Reply.data] ELSE win
  /\ UNCHANGED <<store, funds, queue, job, asked, given, moves, history>>

TakePlan ==
  /\ Answered("price") /\ TakeReply
  /\ win' = IF Reply.code = "confirmation_required"
            THEN [win EXCEPT !.confirm =
                    [from |-> win.active, to |-> Callback.to,
                     symbol |-> Callback.symbol, moves |-> Callback.moves,
                     argv |-> SendArgv(win, Callback.to)]]
            ELSE win
  /\ UNCHANGED <<store, funds, queue, job, asked, given, moves, history>>

TakeSent ==
  /\ Answered("sent") /\ TakeReply
  /\ win' = IF Reply.ok THEN [win EXCEPT !.form = Nothing, !.balance = Nothing]
                        ELSE win
  /\ UNCHANGED <<store, funds, queue, job, asked, given, moves, history>>

(* The balance before is in, or could not be read: ask for the money.      *)
TakeBefore ==
  /\ Answered("before")
  /\ answers' = Tail(answers)
  /\ IF SamePanel
     THEN /\ win' = [win EXCEPT !.faucet.phase = "asking",
                                !.faucet.before = Reply.data]
          /\ Submit(Rest, Airdrop, FALSE,
                    [kind |-> "grant", panel |-> win.faucet.id])
     ELSE pending' = Rest /\ UNCHANGED <<win, queue, asked>>
  /\ UNCHANGED <<store, funds, job, given, moves, history>>

TakeGrant ==
  /\ Answered("grant") /\ TakeReply
  /\ win' = IF ~SamePanel THEN win
            ELSE [win EXCEPT !.faucet.phase =
                               IF Reply.ok THEN "waiting" ELSE "failed"]
  /\ UNCHANGED <<store, funds, queue, job, asked, given, moves, history>>

TakeAfter ==
  LET after == Reply.data
      before == win.faucet.before
      phase == IF after # Nothing /\ before # Nothing /\ after.amount > before.amount
               THEN "landed"
               ELSE IF Callback.last THEN "slow" ELSE "waiting" IN
  /\ Answered("after") /\ TakeReply
  /\ win' = IF ~SamePanel THEN win
            ELSE [win EXCEPT
                    !.balance = IF Reply.ok THEN after ELSE @,
                    !.faucet.phase = phase,
                    !.faucet.after = IF phase = "waiting" THEN @ ELSE after]
  /\ UNCHANGED <<store, funds, queue, job, asked, given, moves, history>>

Pump == TakeBalance \/ TakePlan \/ TakeSent \/ TakeBefore \/ TakeGrant \/ TakeAfter

----------------------------------------------------------------------------
(* The worker, and the command it runs.                                    *)

(* The command opens the store anew: the network is today's (App::new),    *)
(* and the account is that of a later moment (pick_account).               *)
Start ==
  /\ job = Nothing /\ queue # <<>>
  /\ queue' = Tail(queue)
  /\ LET r == Head(queue) IN
     job' = [id |-> r.id, argv |-> r.argv, yes |-> r.yes, step |-> "new",
             account |-> Nothing, read |-> {moves},
             network |-> IF r.argv.asset = Coin THEN store.network
                         ELSE Home[r.argv.asset]]
  /\ UNCHANGED <<store, funds, win, pending, answers, asked, given, moves, history>>

At(step) == job # Nothing /\ job.step = step
PickAccount ==
  /\ At("new")
  /\ job' = [job EXCEPT !.step = "open", !.account = store.active,
                        !.read = @ \cup {moves}]
  /\ UNCHANGED <<view, funds, pending, queue, answers, asked, given, moves, history>>

JobAsset == IF job.argv.asset = Coin THEN job.network ELSE job.argv.asset
Running == At("new") \/ At("open") \/ At("recorded") \/ At("sent")
Answer(ok, code, data) ==
  /\ answers' = Append(answers, [id |-> job.id, ok |-> ok, code |-> code,
                                 data |-> data])
  /\ job' = Nothing

Read ==
  /\ At("open") /\ job.argv.verb = "balance"
  /\ Answer(TRUE, "none",
            [account |-> job.account, asset |-> JobAsset,
             amount |-> IF job.argv.asset = Coin
                        THEN funds[job.account, job.network] ELSE 0])
  /\ UNCHANGED <<view, funds, pending, queue, asked, given, moves, history>>

Grant ==
  /\ At("open") /\ job.argv.verb = "airdrop" /\ job.network \in Automatic
  /\ given' = given \cup {<<job.id, job.account, job.network>>}
  /\ Answer(TRUE, "none", Nothing)
  /\ UNCHANGED <<view, funds, pending, queue, asked, moves, history>>

(* What prepare refuses: the sender's own address, and a balance too small.*)
Prepared == /\ At("open") /\ job.argv.verb = "send"
            /\ job.argv.to # job.account
            /\ job.argv.asset = Coin => funds[job.account, job.network] > 0

(* Headless::confirm.                                                      *)
Confirm ==
  /\ Prepared /\ ~job.yes
  /\ Answer(FALSE, "confirmation_required", Nothing)
  /\ UNCHANGED <<view, funds, pending, queue, asked, given, moves, history>>

Record ==
  /\ Prepared /\ job.yes
  /\ job' = [job EXCEPT !.step = "recorded"]
  /\ UNCHANGED <<view, funds, pending, queue, answers, asked, given, moves, history>>

Broadcast ==
  /\ At("recorded")
  /\ job' = [job EXCEPT !.step = "sent"]
  /\ ledger' = Append(ledger, [id |-> job.id, from |-> job.account, to |-> job.argv.to,
                               asset |-> JobAsset, read |-> job.read])
  /\ funds' = IF job.argv.asset # Coin THEN funds
              ELSE [p \in DOMAIN funds |->
                      IF p = <<job.account, job.network>> /\ funds[p] > 0
                      THEN funds[p] - 1
                      ELSE IF p = <<job.argv.to, job.network>>
                           THEN funds[p] + 1 ELSE funds[p]]
  /\ UNCHANGED <<view, pending, queue, answers, asked, given, moves, agreed, misled>>

Finish ==
  /\ At("sent")
  /\ Answer(TRUE, "none", Nothing)
  /\ UNCHANGED <<view, funds, pending, queue, asked, given, moves, history>>

(* Any error of the command, at any of its steps.                          *)
Fail ==
  /\ Running
  /\ Answer(FALSE, "failed", Nothing)
  /\ UNCHANGED <<view, funds, pending, queue, asked, given, moves, history>>

(* A panic is caught, and its envelope says that no state was written.     *)
PanicUncaught ==
  /\ Running
  /\ job' = [job EXCEPT !.step = "dead"]
  /\ UNCHANGED <<view, funds, pending, queue, answers, asked, given, moves, history>>
Panic ==
  /\ Running
  /\ Answer(FALSE, "internal", Nothing)
  /\ misled' = IF job.step \in {"new", "open"} THEN misled ELSE misled \cup {job.id}
  /\ UNCHANGED <<view, funds, pending, queue, asked, given, moves, agreed, ledger>>

Worker == \/ Start \/ PickAccount \/ Read \/ Grant \/ Confirm \/ Record \/ Broadcast \/ Finish
          \/ Fail \/ Panic

(* The faucet's transaction lands.                                         *)
Arrive(g) ==
  /\ given' = given \ {g}
  /\ funds' = [funds EXCEPT ![<<g[2], g[3]>>] = @ + 1]
  /\ UNCHANGED <<view, pending, queue, job, answers, asked, moves, history>>

Next ==
  \/ \E a \in Account : Select(a)
  \/ \E n \in Network : SwitchNetwork(n)
  \/ \E t \in Token \cup {Coin} : PickToken(t)
  \/ \E to \in Payee : TypeTo(to)
  \/ \E to \in Account \cup {win.form} : BeginSend(to)
  \/ FetchBalance \/ ConfirmSend \/ CancelSend
  \/ RequestFaucet \/ DemoFaucet \/ DismissFaucet \/ Tick
  \/ \E g \in given : Arrive(g)
  \/ Worker \/ Pump

Spec == Init /\ [][Next]_vars
(* The worker's loop and the window's frames go on.                        *)
FairSpec == Spec /\ WF_vars(Worker) /\ WF_vars(Pump)

----------------------------------------------------------------------------
(* Properties.                                                             *)

(* Every request the window waits for is in the queue, with the worker or  *)
(* among the answers, exactly once; there is never a dialog and a panel.   *)
(* (Model:submit, pump and worker.lua.)                                    *)
TypeOK ==
  LET queued == [i \in DOMAIN queue |-> queue[i].id]
      answered == [i \in DOMAIN answers |-> answers[i].id]
      running == IF job = Nothing THEN <<>> ELSE <<job.id>>
      all == answered \o running \o queued IN
  /\ store = [active |-> win.active, network |-> win.network]
  /\ win.token \in Token \cup {Coin}
  /\ DOMAIN pending = {all[i] : i \in DOMAIN all}
  /\ \A i, j \in DOMAIN all : i < j => all[i] < all[j]
  /\ win.confirm = Nothing \/ win.faucet = Nothing
  /\ \A p \in DOMAIN funds : funds[p] \in Nat

(* What is broadcast goes to the address of a dialog the user agreed to,   *)
(* and once for every yes: retyping the form while the answer is awaited   *)
(* redirects nothing.  (begin_send, confirm_send.)                         *)
PaysWhoWasAgreed ==
  \A i \in 1 .. Len(ledger) :
    /\ ledger[i].id \in DOMAIN agreed
    /\ ledger[i].to = agreed[ledger[i].id].to
    /\ \A j \in 1 .. Len(ledger) : ledger[j].id = ledger[i].id => j = i

(* As long as the window does not move between pricing and the command's   *)
(* reading of network and account, the account and the asset the dialog    *)
(* shows are those that are spent.                                         *)
(* (The comments on send_argv and confirm.from.)                           *)
SpendsWhatWasShown ==
  \A i \in 1 .. Len(ledger) :
    LET paid == ledger[i]
        dialog == agreed[paid.id]
    IN  paid.read = {dialog.moves} => paid.from = dialog.from /\ paid.asset = dialog.symbol

(* What the faucet panel calls an arrival is two readings of the account   *)
(* and network it names, and the faucet paid that account.  (asking, tick, *)
(* request_faucet.)                                                        *)
FaucetCountsItsOwn ==
  win.faucet # Nothing /\ win.faucet.phase = "landed" =>
    \A reading \in {win.faucet.before, win.faucet.after} :
      /\ reading.account = win.faucet.address
      /\ reading.asset = win.faucet.network

(* The window does not stay busy: a command that fails or panics answers   *)
(* all the same and does not take the worker with it.  MaxAsks bounds the  *)
(* requests, so that all of them are answered.  (pump, worker.lua.)        *)
EveryRequestAnswered == Busy ~> ~Busy

(* What does not hold.  The confirmed command spends from the account the  *)
(* dialog names, in the asset it names, wherever the window has been.      *)
SpendsFromWhoItNames ==
  \A i \in 1 .. Len(ledger) : ledger[i].from = agreed[ledger[i].id].from
SpendsTheAssetShown ==
  \A i \in 1 .. Len(ledger) : ledger[i].asset = agreed[ledger[i].id].symbol
(* The balance shown is of the account and the asset in view.              *)
BalanceIsOfTheView ==
  win.balance # Nothing => /\ win.balance.account = win.active
                           /\ win.balance.asset = Asset(win)
(* A dialog changes only by the user's answer to it.                       *)
DialogStays ==
  [][win.confirm # Nothing => win'.confirm \in {win.confirm, Nothing}]_vars
(* No envelope says that nothing was written when something was.           *)
PanicWroteNothing == misled = {}
============================================================================
