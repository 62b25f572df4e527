-------------------------------- MODULE Tui --------------------------------
(***************************************************************************)
(* The terminal UI, rustcli/cli/src/tui.rs: one thread that draws and reads*)
(* keys, the threads it starts for what waits on a node, and a store that  *)
(* other processes change behind its back.                                 *)
(*                                                                         *)
(* ui is the program's State struct, with what the user was last asked:    *)
(* asked, the transfer typed, and counted, the accounts a removal named.   *)
(* A handler that only touches it is an operator from one State to the     *)
(* next; one that runs a wallet command is an action.  The commands are    *)
(* those of Wallet, each in one step: how they interleave with other       *)
(* processes is Wallet's subject, what the screen makes of the result is   *)
(* this module's.  Text is abstracted: what a prompt collects is chosen    *)
(* when Enter answers it.                                                  *)
(***************************************************************************)
EXTENDS Integers, Sequences, FiniteSets, SequencesExt, Lists, Modes

CONSTANTS
  ChainList, Network, ChainOfNetwork, DefaultOn, DefaultNetwork,
  Phrase, Key, Index,  \* as in Wallet
  Recipient,     \* addresses a user may send to
  Keys,          \* the commands a user may give
  Others,        \* the commands other processes may run
  Overrides,     \* the networks the program may be started on by an option
  MaxAccounts,   \* bound: accounts ever created
  MaxJobs        \* bound: threads ever started in one session

Chain == Range(ChainList)

ASSUME TuiConstants ==
  /\ ChainList \in Seq(Chain)
  /\ Index \subseteq Nat
  /\ None \notin Nat \cup [account : Nat, to : Recipient]

VARIABLES
  accounts, config, made,  \* the store, as in Wallet
  recent,    \* the recall list in the store, most recent first
  jobs,      \* the threads of this session, in starting order
  ui         \* State

vars == <<accounts, config, made, recent, jobs, ui>>

(* Wallet's reading of the store, with no command in progress.             *)
Store == INSTANCE Wallet WITH
  Handle <- {}, Lower <- <<>>, Settings <- {}, setting <- <<>>,
  MaxCommands <- 0, Unset <- None, todo <- <<>>, recall <- Range(recent),
  started <- 0, alone <- <<>>, settled <- FALSE

----------------------------------------------------------------------------
(* State and what is read off it.                                          *)

(* The detail pane: a wallet's facts with a balance among them, a recall   *)
(* entry, a plan, or what some other command said.                         *)
Detail(shows, of) == [shows |-> shows, of |-> of, balance |-> None]

(* A key imported bare has no index; the panes put it with index 0.        *)
IndexOf(a) == IF a.index = None THEN 0 ELSE a.index

(* The wallets of the pane: the indexes of the listed accounts, in order.  *)
Indices(s) == {IndexOf(s.list[n]) : n \in DOMAIN s.list}
RowOf(s, i) == Rank(Indices(s), i)

AccountsAt(s, i) == {a \in Range(s.list) : IndexOf(a) = i}

SelectedIndex(s) ==
  IF \E i \in Indices(s) : RowOf(s, i) = s.row
    THEN CHOOSE i \in Indices(s) : RowOf(s, i) = s.row ELSE None

(* The account every command acts on: the highlighted wallet's on the      *)
(* chain in view.                                                          *)
Current(s) ==
  LET i == SelectedIndex(s)
      held == {n \in DOMAIN s.list :
                 /\ IndexOf(s.list[n]) = i
                 /\ s.list[n].chain = ChainOfNetwork[s.network]}
  IN  IF i = None \/ held = {} THEN None ELSE s.list[Min(held)]

(* Slip: free on the chain in view.                                        *)
NextIndexOnChain(s) ==
  LET held == {IndexOf(a) : a \in {b \in Range(s.list) :
                                     b.chain = ChainOfNetwork[s.network]}} IN
  CHOOSE i \in 0 .. Len(s.list) : i \notin held /\ 0 .. i - 1 \subseteq held

NextFreeIndex(s) ==
  CHOOSE i \in 0 .. Len(s.list) :
    i \notin Indices(s) /\ 0 .. i - 1 \subseteq Indices(s)

(* The cursor goes to the wallet, if the pane lists it.                    *)
SelectIndex(s, i) ==
  IF i \notin Indices(s) THEN s
  ELSE [s EXCEPT !.row = RowOf(s, i), !.index = i]

(* The highlight stays inside the pane.                                    *)
ClampRow(s) ==
  LET rows == Cardinality(Indices(s)) IN
  [s EXCEPT !.row = IF rows = 0 THEN 0
                    ELSE IF @ > rows THEN rows ELSE IF @ = 0 THEN 1 ELSE @]

(* The cursor is the highlight.                                            *)
Follow(s) ==
  IF SelectedIndex(s) = None THEN s ELSE [s EXCEPT !.index = SelectedIndex(s)]

ClampSelection(s) == Follow(ClampRow(s))

RefreshDetail(s) ==
  [s EXCEPT !.detail = IF SelectedIndex(s) = None THEN Detail("nothing", None)
                       ELSE Detail("wallet", SelectedIndex(s))]

RefreshRecallDetail(s) ==
  [s EXCEPT !.detail = IF s.entry = 0 THEN Detail("recall", None)
                       ELSE Detail("recall", s.recall[s.entry])]

(* The list is read again and the highlight kept on its wallet.            *)
Reload(s, listed) ==
  LET keep == IF SelectedIndex(s) = None THEN s.index ELSE SelectedIndex(s)
      t == [s EXCEPT !.list = listed, !.row = IF listed = <<>> THEN 0 ELSE 1]
  IN  RefreshDetail(ClampSelection(SelectIndex(t, keep)))

(* Up and down, in the pane that has the focus.                            *)
Move(s, step(_, _)) ==
  CASE s.focus = "Accounts" ->
         [s EXCEPT !.row = step(@, Cardinality(Indices(s)))]
    [] s.focus = "Recall" -> [s EXCEPT !.entry = step(@, Len(s.recall))]
    [] s.focus = "Commands" -> s

MoveSelection(s, by) ==
  Move(s, LAMBDA at, len :
         IF len = 0 THEN at
         ELSE 1 + (((IF at = 0 THEN 0 ELSE at - 1) + by) % len))

AfterMove(s) == RefreshDetail(Follow(s))

OpenRecall(s, entries) ==
  RefreshRecallDetail([s EXCEPT !.recall = entries, !.focus = "Recall",
                                !.entry = IF entries = <<>> THEN 0 ELSE 1])

(* A started program: the cursor on the active account's wallet, if the    *)
(* store still has it; the network from the store, even when an option put *)
(* the wallet underneath on another.                                       *)
Started(override) ==
  LET a == Store!ActiveAccount
      s == [list |-> accounts, row |-> IF accounts = <<>> THEN 0 ELSE 1,
            index |-> 0, network |-> Store!SelectedNetwork, changed |-> FALSE,
            bound |-> IF override = None THEN Store!SelectedNetwork
                      ELSE override,
            focus |-> "Commands", mode |-> Browse, recall |-> <<>>,
            entry |-> 0, to |-> None, job |-> 0, staged |-> 0,
            detail |-> Detail("nothing", None), asked |-> None, counted |-> {}]
  IN  RefreshDetail(ClampSelection(SelectIndex(s,
        IF a = None \/ a \notin Store!Ids THEN 0
        ELSE IndexOf(Store!AccountOf(a)))))

Init ==
  /\ accounts = <<>>
  /\ config = [k \in Store!ConfigKey |-> None]
  /\ made = 0
  /\ recent = <<>>
  /\ jobs = <<>>
  /\ \E o \in Overrides \cup {None} : ui = Started(o)

----------------------------------------------------------------------------
(* The commands of Wallet the screen runs, and those of other processes.   *)

StoreSame == UNCHANGED <<accounts, config, made, recent>>

(* The chain's network becomes the wallet's.                               *)
Position(c, s) ==
  [s EXCEPT ![Store!Selected] = Store!NetworkOn(c),
            ![Store!SelectedOnKey(c)] = Store!NetworkOn(c)]

(* activate.                                                               *)
Activated(a) ==
  Position(a.chain, [config EXCEPT ![Store!Active] = a.id,
                                   ![Store!ActiveOnKey(a.chain)] = a.id])

NewAccounts(source, index, chains) ==
  [n \in DOMAIN chains |->
     [id |-> made + n, chain |-> chains[n], source |-> source,
      index |-> index, plain |-> TRUE]]

(* The accounts are appended; the first the wallet ever holds is activated.*)
Add(new) ==
  /\ made + Len(new) <= MaxAccounts
  /\ made' = made + Len(new)
  /\ accounts' = accounts \o new
  /\ config' = IF accounts = <<>> /\ new # <<>> THEN Activated(new[1])
               ELSE config

(* create_wallet.                                                          *)
Create(source, index, chains) ==
  /\ Add(NewAccounts(source, index, chains))
  /\ recent' = <<source>> \o SelectSeq(recent, LAMBDA e : e # source)

(* delete_account, one account after the other; the active account follows *)
(* those noted.                                                            *)
Left(ids) == Sifted(accounts, {n \in DOMAIN accounts : accounts[n].id \notin ids})
DeleteNoting(ids, noted) ==
  /\ accounts' = Left(ids)
  /\ config' = IF config[Store!Active] \notin noted THEN config
               ELSE [config EXCEPT ![Store!Active] =
                       IF Left(noted) = <<>> THEN None ELSE Left(noted)[1].id]
  /\ UNCHANGED <<made, recent>>
Delete(ids) == DeleteNoting(ids, ids)

Fresh(p) == p \notin Range(recent) /\ \A a \in Range(accounts) : a.source # p
SeedChoice ==
  IF Store!CurrentSeed # None THEN {Store!CurrentSeed}
  ELSE {p \in Phrase : Fresh(p)}

(* account new and account import-mnemonic in another process.             *)
OtherNew ==
  /\ "new" \in Others
  /\ \E p \in SeedChoice \cup {q \in Phrase : Fresh(q)}, i \in Index :
       \E chains \in {<<c>> : c \in Chain} \cup {ChainList} :
         Create(p, i, chains)

OtherRemove ==
  /\ "remove" \in Others
  /\ \E a \in Range(accounts) : Delete({a.id})

(* network use in another process.                                         *)
OtherNetwork ==
  /\ "network" \in Others
  /\ \E n \in Network :
     \E owed \in Store!Missing(ChainOfNetwork[n]) :
       LET c    == ChainOfNetwork[n]
           new  == [i \in DOMAIN owed |->
                      [id |-> made + i, chain |-> c, source |-> owed[i].source,
                       index |-> owed[i].index, plain |-> TRUE]]
           held == Store!ActiveAccountOn(c)
           next == IF held # None THEN held
                   ELSE IF new # <<>> THEN made + 1 ELSE config[Store!Active]
       IN  /\ made + Len(new) <= MaxAccounts
           /\ made' = made + Len(new)
           /\ accounts' = accounts \o new
           /\ config' = [config EXCEPT ![Store!Selected] = n,
                                       ![Store!SelectedOnKey(c)] = n,
                                       ![Store!Active] = next]
           /\ UNCHANGED recent

OtherProcess ==
  /\ OtherNew \/ OtherRemove \/ OtherNetwork
  /\ UNCHANGED <<jobs, ui>>

----------------------------------------------------------------------------
(* Threads, and the loop that polls them.                                  *)

(* A thread is started over the wallet reopened on a chain, with the       *)
(* network the store has for it, and the screen waits on its channel.      *)
Spawn(s, kind, account, chain, to) ==
  /\ Len(jobs) < MaxJobs
  /\ jobs' = Append(jobs, [kind |-> kind, account |-> account, to |-> to,
                           network |-> Store!NetworkOn(chain),
                           event |-> "running"])
  /\ ui' = [s EXCEPT !.mode = Busy, !.job = Len(jobs')]

(* The thread's answer is in its channel: a plan or a balance if the       *)
(* account is in the store now, a failure whatever the reason, nothing at  *)
(* all when it panicked.  Whose token balance it is, the store says now.   *)
ThreadEnds ==
  \E n \in DOMAIN jobs :
    LET of == IF jobs[n].kind # "token" THEN jobs[n].account
              ELSE Store!ActiveAccountOn(ChainOfNetwork[jobs[n].network])
        found == of \in Store!Ids \/ jobs[n].kind = "address"
        done == IF jobs[n].kind = "send" THEN "plan" ELSE "balance"
    IN  /\ jobs[n].event = "running"
        /\ \/ \E e \in {"failed", "panicked"} :
                jobs' = [jobs EXCEPT ![n].event = e]
           \/ /\ found
              /\ jobs' = [jobs EXCEPT ![n].event = done, ![n].account = of]
        /\ StoreSame
        /\ UNCHANGED ui

PresentPlan(s, n) ==
  [s EXCEPT !.job = 0, !.staged = n, !.mode = Confirm("send"),
            !.detail = Detail("plan", n)]

(* What the screen makes of a thread's answer.                             *)
Answered(s, n) ==
  LET t == [s EXCEPT !.job = 0, !.mode = Browse, !.asked = None] IN
  CASE jobs[n].event = "plan" -> PresentPlan(s, n)
    [] jobs[n].event = "balance" -> [t EXCEPT !.detail.balance = n]
    [] jobs[n].event \in {"failed", "panicked"} -> t

Waiting(s) == s.job # 0
Event(s) == jobs[s.job].event

(* Slips: a dead channel is taken for an empty one; the answer of any      *)
(* thread is taken, as when they share one channel.                        *)
PollJobNoPanics(s) ==
  IF Waiting(s) /\ Event(s) \notin {"running", "panicked"}
    THEN Answered(s, s.job) ELSE s
PollJobOneChannel(s) ==
  LET sent == {n \in DOMAIN jobs : jobs[n].event \notin {"running", "taken"}} IN
  IF Waiting(s) /\ sent # {}
    THEN Answered(s, CHOOSE n \in sent : \A m \in sent : n <= m) ELSE s

(* poll_job.                                                               *)
PollJob(s) ==
  IF Waiting(s) /\ Event(s) # "running" THEN Answered(s, s.job) ELSE s

(* The wallet is opened again on the network the screen moved to.          *)
Rebuild(s) ==
  IF ~s.changed THEN s
  ELSE RefreshDetail([s EXCEPT !.changed = FALSE, !.bound = s.network])

(* event_loop, between two keys.                                           *)
Turn ==
  /\ ui.mode # Closed
  /\ ui' = PollJob(Rebuild(ui))
  /\ jobs' = IF ~Waiting(ui) \/ Waiting(ui') THEN jobs
             ELSE [jobs EXCEPT ![ui.job].event = "taken"]
  /\ StoreSame

----------------------------------------------------------------------------
(* Keys.                                                                   *)

(* The loop reads a key only with the wallet rebuilt.                      *)
In(mode) == ui.mode = mode /\ ~ui.changed

(* run_action: a command's own key, or Enter on its row.  Networks and     *)
(* tokens have rows only.  The search box moves no more than Tab does, and *)
(* like the reference it is left out.                                      *)
Chosen(key) == key \in Keys /\ In(Browse)
ChosenRow(key) == Chosen(key) /\ ui.focus = "Commands"
Shown ==
  [ui EXCEPT !.mode = Browse, !.asked = None, !.counted = {}, !.to = None]

(* What the recall pane listed is dropped with it: it is read again when   *)
(* the pane opens.                                                         *)
Leave(focus) == [ui EXCEPT !.focus = focus, !.recall = <<>>, !.entry = 0]

(* A handler that touches nothing but State.                               *)
Show(s) ==
  /\ ui' = s
  /\ StoreSame
  /\ UNCHANGED jobs

KeyMove ==
  /\ In(Browse)
  /\ \E by \in {1, -1} : Show(AfterMove(MoveSelection(ui, by)))

KeyTab ==
  /\ In(Browse)
  /\ Show(IF ui.focus = "Commands"
            THEN RefreshDetail(Leave("Accounts"))
            ELSE Leave("Commands"))

(* Esc closes the recall pane, or leaves a prompt.                         *)
KeyEscape ==
  \/ In(Browse) /\ ui.focus = "Recall"
       /\ Show(RefreshDetail(Leave("Accounts")))
  \/ (\E k \in Keys \cup {"amount"} : In(Input(k))) /\ Show(Shown)

ChooseReload == Chosen("reload") /\ Show(Reload(Shown, accounts))

(* Showing or hiding the secrets lays the detail pane out again.           *)
ToggleSecrets ==
  /\ Chosen("secrets")
  /\ Show(IF ui.focus = "Recall" THEN RefreshRecallDetail(ui)
           ELSE RefreshDetail(ui))

(* Commands that start by asking for text.  Derive and send want an        *)
(* account on the chain in view.  (Signing and exports read only.)         *)
ChoosePrompt ==
  \E k \in {"new seed", "import", "import key", "derive", "balance", "send"} :
    /\ Chosen(k)
    /\ k \in {"derive", "send"} => Current(ui) # None
    /\ Show([Shown EXCEPT !.mode = Input(k),
                            !.to = IF k = "send" THEN None ELSE @])

(* new_wallet: the next index this screen knows to be free, on every chain.*)
ChooseNewWallet ==
  /\ Chosen("new wallet")
  /\ LET i == NextFreeIndex(ui) IN
       /\ \E p \in SeedChoice : Create(p, i, ChainList)
       /\ ui' = SelectIndex(Reload(Shown, accounts'), i)
  /\ UNCHANGED jobs

(* create_account: index 0 of a new phrase, on the wallet's own chain.     *)
SubmitLabel ==
  /\ In(Input("new seed"))
  /\ \E p \in Phrase : Fresh(p) /\ Create(p, 0, <<ChainOfNetwork[ui.bound]>>)
  /\ ui' = Reload(Shown, accounts')
  /\ UNCHANGED jobs

(* import_mnemonic, import_private_key, also from the recall pane.         *)
Import(secret) ==
  IF secret \in Phrase THEN Create(secret, 0, ChainList)
  ELSE Create(secret, None, <<ChainOfNetwork[ui.bound]>>)

SubmitSecret ==
  /\ \/ In(Input("import")) /\ \E p \in Phrase : Import(p)
     \/ In(Input("import key")) /\ \E k \in Key : Import(k)
  /\ ui' = Reload(Shown, accounts')
  /\ UNCHANGED jobs

ImportSelectedRecall ==
  /\ In(Browse) /\ ui.focus = "Recall" /\ ui.entry # 0
  /\ Import(ui.recall[ui.entry])
  /\ ui' = Reload(Leave("Accounts"), accounts')
  /\ UNCHANGED jobs

(* derive: every chain's account at the index, from the selected account's *)
(* phrase; refused for an account that is gone, or not on the chain the    *)
(* wallet is open on.                                                      *)
SubmitIndex ==
  /\ In(Input("derive"))
  /\ LET a == Current(ui) IN
       /\ a.id \in Store!Ids
       /\ a.source \in Phrase
       /\ a.chain = ChainOfNetwork[ui.bound]
       /\ \E i \in Index : Create(a.source, i, ChainList)
  /\ ui' = Reload(Shown, accounts')
  /\ UNCHANGED jobs

(* start_balance of the selected account, or of an address typed; a token  *)
(* balance is that of the store's account on the token's chain.            *)
StartBalance ==
  /\ \/ In(Browse) /\ ui.focus = "Accounts"
     \/ In(Input("balance"))
  /\ "balance" \in Keys
  /\ LET a == Current(ui) IN
       /\ a # None
       /\ Spawn(Shown, "balance", a.id, a.chain, None)
  /\ StoreSame

StartAddressBalance ==
  /\ In(Input("balance"))
  /\ LET a == Current(ui) IN
       /\ a # None
       /\ Spawn(Shown, "address", None, a.chain, None)
  /\ StoreSame

StartTokenBalance ==
  /\ ChosenRow("token balance")
  /\ \E c \in Chain :
       Spawn(Shown, "token", None, c, None)
  /\ StoreSame

(* The recipient, then the amount; the plan is worked out on a thread.     *)
SubmitRecipient ==
  /\ In(Input("send"))
  /\ Current(ui) # None
  /\ \E to \in Recipient :
       ui' = [ui EXCEPT !.to = to, !.mode = Input("amount"),
                        !.asked = [account |-> Current(ui).id, to |-> to]]
  /\ StoreSame
  /\ UNCHANGED jobs

StageSend ==
  /\ In(Input("amount"))
  /\ LET a == Current(ui) IN
       /\ a # None
       /\ Spawn([ui EXCEPT !.to = None], "send", a.id, a.chain, ui.to)
  /\ StoreSame

(* Slip: the arrows still change chain.                                    *)
AbandonOrStep ==
  /\ In(Busy)
  /\ \/ Show([Shown EXCEPT !.job = 0])
     \/ \E n \in Network \ {ui.network} :
          Show([ui EXCEPT !.network = n, !.changed = TRUE])

(* Esc while a thread works: the screen no longer listens to it.           *)
Abandon ==
  /\ In(Busy)
  /\ Show([Shown EXCEPT !.job = 0])

ChooseActivate ==
  /\ Chosen("activate")
  /\ Current(ui) # None
  /\ config' = [config EXCEPT ![Store!Active] = Current(ui).id]
  /\ ui' = Shown
  /\ UNCHANGED <<accounts, made, recent, jobs>>

(* select_network, from its row or by stepping across the chains.          *)
SelectNetwork ==
  /\ \E n \in Network :
       /\ \/ ChosenRow("network")
          \/ /\ In(Browse)
             /\ ChainOfNetwork[n] # ChainOfNetwork[ui.network]
             /\ n = Store!NetworkOn(ChainOfNetwork[n])
       /\ n # ui.network
       /\ config' = [config EXCEPT ![Store!Selected] = n,
                                   ![Store!SelectedOnKey(ChainOfNetwork[n])] = n]
       /\ ui' = ClampSelection([Shown EXCEPT !.network = n, !.changed = TRUE])
  /\ UNCHANGED <<accounts, made, recent, jobs>>

ChooseRecall == Chosen("recall") /\ Show(OpenRecall(Shown, recent))

(* The question counts the accounts it is about to remove.                 *)
ChooseRemove ==
  /\ Chosen("remove")
  /\ ui.focus # "Recall"
  /\ SelectedIndex(ui) # None
  /\ Show([ui EXCEPT !.mode = Confirm("remove"), !.focus = "Accounts",
             !.counted = {a.id : a \in AccountsAt(ui, SelectedIndex(ui))}])

ForgetSelectedRecall ==
  /\ Chosen("remove")
  /\ ui.focus = "Recall" /\ ui.entry # 0
  /\ recent' = SelectSeq(recent, LAMBDA e : e # ui.recall[ui.entry])
  /\ ui' = OpenRecall(Shown, recent')
  /\ UNCHANGED <<accounts, config, made, jobs>>

Decline ==
  /\ In(Confirm("remove")) \/ In(Confirm("send"))
  /\ Show([Shown EXCEPT !.staged = 0])

(* Slip: the list is read again before the accounts are collected.         *)
RemoveWalletReread ==
  /\ In(Confirm("remove"))
  /\ LET now == Reload(Shown, accounts)
         ids == {a.id : a \in AccountsAt(now, SelectedIndex(now))} IN
       /\ Delete(ids)
       /\ ui' = Reload(now, accounts')
  /\ UNCHANGED jobs

(* remove_wallet: every listed account at the index, in the list's order,  *)
(* up to the first that is refused, which may be gone and still named.     *)
RemoveWallet ==
  /\ In(Confirm("remove"))
  /\ \E last \in 0 .. Len(ui.list) :
       LET upTo(n) == {a.id : a \in AccountsAt([ui EXCEPT !.list = SubSeq(@, 1, n)],
                                               SelectedIndex(ui))}
       IN  Delete(upTo(last)) \/ DeleteNoting(upTo(last), upTo(last - 1))
  /\ ui' = Reload(Shown, accounts')
  /\ UNCHANGED jobs

(* broadcast: the staged plan goes out, or is refused.                     *)
Broadcast ==
  /\ In(Confirm("send"))
  /\ \E d \in {Detail("text", None), ui.detail} :
       Show([Shown EXCEPT !.staged = 0, !.detail = d])

(* Ctrl-C, or q, or Esc: the threads end with the process.                 *)
Quit ==
  /\ ui.mode # Closed /\ ~ui.changed
  /\ "quit" \in Keys
  /\ jobs' = <<>>
  /\ ui' = [Started(None) EXCEPT !.mode = Closed]
  /\ StoreSame

Launch ==
  /\ ui.mode = Closed
  /\ \E o \in Overrides \cup {None} : ui' = Started(o)
  /\ StoreSame
  /\ UNCHANGED jobs

KeyPress ==
  \/ KeyMove \/ KeyTab \/ KeyEscape \/ Abandon \/ Decline \/ ChooseReload
  \/ ToggleSecrets \/ ChoosePrompt \/ ChooseNewWallet
  \/ SubmitLabel \/ SubmitSecret \/ SubmitIndex
  \/ ImportSelectedRecall \/ ForgetSelectedRecall \/ ChooseRecall
  \/ StartBalance \/ StartAddressBalance \/ StartTokenBalance
  \/ SubmitRecipient \/ StageSend \/ Broadcast
  \/ ChooseActivate \/ SelectNetwork \/ ChooseRemove \/ RemoveWallet
  \/ Quit \/ Launch

Next == KeyPress \/ Turn \/ ThreadEnds \/ OtherProcess

(* The loop turns at least every 200 ms.  No thread is assumed to answer.  *)
Spec == Init /\ [][Next]_vars /\ WF_vars(Turn)

----------------------------------------------------------------------------
(* Properties.                                                             *)

TypeOK ==
  /\ Range(recent) \subseteq Phrase \cup Key
  /\ ui.row \in 0 .. Cardinality(Indices(ui)) /\ (ui.row = 0 <=> ui.list = <<>>)
  /\ ui.entry \in 0 .. Len(ui.recall)
  /\ ui.focus \in {"Commands", "Accounts", "Recall"}
  /\ ui.job \in 0 .. Len(jobs) /\ ui.staged \in 0 .. Len(jobs)
  /\ ui.detail.shows \in {"nothing", "wallet", "recall", "plan", "text"}
  /\ ui.network \in Network /\ ui.bound \in Network

(* The cursor new wallets and commands go by is the highlighted row, after *)
(* any reload, removal, move or start.                                     *)
CursorIsTheRow == ui.list # <<>> => ui.index = SelectedIndex(ui)

(* The transfer on the confirm screen is the one typed last, from the      *)
(* account that is highlighted.                                            *)
ConfirmsWhatWasTyped ==
  ui.mode = Confirm("send") =>
    /\ ui.asked # None
    /\ jobs[ui.staged].account = ui.asked.account
    /\ jobs[ui.staged].to = ui.asked.to
    /\ Current(ui).id = ui.asked.account
    /\ ui.detail = Detail("plan", ui.staged)

(* While a transfer is prepared, the screen goes on showing the account it *)
(* is from.                                                                *)
WaitsForTheHighlighted ==
  ui.mode = Busy /\ jobs[ui.job].kind = "send" =>
    Current(ui) # None /\ Current(ui).id = jobs[ui.job].account

(* A removal takes no account its question did not count, whatever others  *)
(* have put at that index since the list was read.                         *)
RemovesWhatItAsked ==
  [][ui.mode = Confirm("remove") /\ ui'.mode = Browse =>
       {a.id : a \in Range(accounts) \ Range(accounts')} \subseteq ui.counted]_vars

(* A thread's answer, be it a panic, ends the wait.                        *)
WaitEnds ==
  (Waiting(ui) /\ Event(ui) # "running") ~> ui.mode # Busy

(* The detail pane lays out the highlighted wallet.  (README.md:309.)      *)
DetailIsTheRow ==
  ui.detail.shows = "wallet" => ui.detail.of = SelectedIndex(ui)

(* The network the header names, read from the store, and the chain the    *)
(* keys act on agree.  (What select_network and event_loop say.)           *)
HeaderIsWhereKeysAct ==
  ui.mode = Browse => ChainOfNetwork[Store!SelectedNetwork]
                        = ChainOfNetwork[ui.network]

(* A removal takes one wallet: the accounts of one mnemonic at one index.  *)
(* (What State says a wallet is.)                                          *)
RemovesOneWallet ==
  [][RemoveWallet => \A a, b \in Range(accounts) \ Range(accounts') :
                       a.source = b.source]_vars

(* The balance in the detail pane is one of the wallet it lays out.        *)
BalanceIsTheWallets ==
  ui.detail.shows = "wallet" /\ ui.detail.balance # None =>
    \E a \in AccountsAt(ui, ui.detail.of) :
      a.id = jobs[ui.detail.balance].account

(* A transfer is prepared on the network the command pane marks.           *)
PlansOnTheNetworkInView ==
  ui.mode = Confirm("send") => jobs[ui.staged].network = ui.network

(* New seed makes its account on the chain in view.  (create_account.)     *)
BoundIsInView == ~ui.changed => ui.bound = ui.network

(* With the recall pane focused, the detail pane describes the entry the   *)
(* arrows are on.  (What after_move says.)                                 *)
DetailIsTheEntry ==
  ui.mode = Browse /\ ui.focus = "Recall" /\ ui.entry # 0
    => ui.detail = Detail("recall", ui.recall[ui.entry])

(* With the list on screen still the store's, whichever command or process *)
(* it is from, New wallet never makes an account that exists.              *)
NewWalletIsNew ==
  [][ChooseNewWallet /\ ui.list = accounts =>
       \A a \in Range(accounts') \ Range(accounts), b \in Range(accounts) :
         ~(a.source = b.source /\ a.index = b.index /\ a.chain = b.chain)]_vars

(* New wallet makes a wallet nobody else has made.  (A fresh index.)       *)
NewWalletIsFresh ==
  [][ChooseNewWallet =>
       \A a \in Range(accounts') \ Range(accounts), b \in Range(accounts) :
         ~(a.source = b.source /\ a.index = b.index /\ a.chain = b.chain)]_vars
============================================================================
