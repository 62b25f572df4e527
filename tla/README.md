# A TLA+ model of CausewaybayWallet

CausewaybayWallet is a wallet for five kinds of chain (EVM, Solana, Cardano,
Midnight, eCash). One Rust core, `rustcli/core`, holds every decision; a command
line and a terminal UI (`rustcli/cli`), a C ABI (`rustcli/ffi`), and Lua, Python, C
and LÖVE front ends run the core's commands. Everything the wallet knows is four
append-only JSONL logs in one home directory, and any number of processes, and of
handles in one process, use that home at once. Nothing locks.

This directory models that core: the logs and what file operations do to them, the
commands that keep accounts, keys and the wallet's position, the recall list, the
configuration and the catalogue a command reads, the life of a payment on each kind of
chain, the files accounts are exported to, and the terminal UI and the window over
them. TLC checks the models on small instances; TLAPS proves the main theorems for
every instance. `PROJECT.json` lists the runs, the mutants, the lines of code behind
each definition and the hazards.

## 1. The system and its parts

| Part | Code | State it keeps | Operations | Modelled in |
| --- | --- | --- | --- | --- |
| JSONL store, file level | `store.rs` append, compact, read_lines; `paths.rs` | one log, a temp file per process | open and append a line; read, filter, rewrite, rename | `StoreLog`, `RecordSet` |
| Account and position commands | `store.rs`, `app.rs` account, network | replays of `accounts.jsonl`, `config.jsonl` | account new, import-mnemonic, import-key, derive, use, rename, remove; network use | `Wallet` |
| Recall list | `store.rs` recent…, `app.rs` recent, import-recent | replay of `recent.jsonl` | remember, list, forget, clear, restore | `Recall` |
| One command, from words to report | `app.rs` resolve, fee ceiling, plan, execute, report; `chain/mod.rs` | the configuration; what a command has read so far | network use, set-rpc, set-max-fee, balance, balances, token balance, send, token send, erc20 send | `SendPlan` |
| Amounts, networks, tokens | `chain/amount.rs`, `units.rs`, `network.rs`, `token.rs` | none | parse, format, resolve a name | `Catalogue` |
| Sending and history, EVM | `app.rs` send, execute_send, tx, erc20; `chain/evm/client.rs`; `rpc.rs`, `chain/http.rs` | replay of `history.jsonl`; the node's pool and blocks | plan, confirm, record, submit, wait, look up | `Transfer` |
| Account chains' transactions | `chain/evm`, `chain/solana` | none | gas, fee, rent, balances, account table, what the chain does with it | `AccountTx` |
| Coin chains' transactions | `chain/ecash`, `chain/cardano`, `chain/midnight` | none | order coins, choose them, fee, change, ceiling | `CoinSelection` |
| Sending on coin chains | the three `client.rs`, `app.rs` plan_send, execute_send | history; coins, mempool and blocks | prepare, prove, record, submit | `CoinSend` |
| Midnight dust | `chain/midnight/dust.rs`, `indexer.rs` | cache file, event position | resume, replay, save | `DustSync` |
| Keys, texts, addresses | `bip32.rs`, `wallet.rs`, `chain/*/keys.rs`, `address.rs`, `mod.rs` | none | derive, read and write a secret, name an address, sign, verify | `Keys`, `Identity` |
| Export | `export.rs`, `paths.rs` write_private, `app.rs` account list | the files written | list, render, open, tighten, fill | `Export` |
| Terminal UI | `cli/src/tui.rs` | `State`: the wallets as last read, the cursor, the network in view, mode, one background job, a staged plan | a handler per key and mode, poll_job, commands on the store | `Tui` |
| Its command pane and input line | `cli/src/tui.rs`, `clipboard.rs`, `search.rs` | filter, cursor, input line, note about the clipboard | search, run a row, prompt, type, paste, submit | `Pane` |
| LÖVE GUI | `lovegui/model.lua`, `worker.lua` | account, network and token in view, pending requests, the dialog, a faucet run | submit, pump, confirm, cancel, tick | `Gui` |
| Call boundary | `ffi/src/lib.rs`, `request.rs`, `api.rs`, `command.rs` | none | one command per call, on a thread of its own; panics caught | `Gui` (the call), `SendPlan` (the command) |
| Bindings | `luacli`, `pythoncli`, `ccli` | none of their own | pass a command through the C ABI | no |
| Drawing, assets | `lovegui/main.lua`, `lovegui/ui` | none | pure output | no |

How they interact. A front end opens the home and hands a command to the core. The
core reads a log from end to end and folds it into a value, decides, and appends one
line, several times per command. Removal of key material is the exception: it reads a
log, drops lines, writes a temp file and renames it over the log. The GUI keeps two
handles over one home, one in the window and one in a worker thread that answers over
a channel. A payment asks a node for a nonce, signs, asks the user, records, submits,
and may wait; a look-up asks the node again later. Requests have a 30 s time-out.

What is hard in it: every command is a sequence of reads and appends that other
processes interleave with; a process may die between any two; a compaction undoes what
happened during it; a broadcast's reply may be lost or late. What makes each part
correct, and where it would break, is the `hazards` list of `PROJECT.json`.

## 2. Modules

```
RecordSet <---- implemented by ---- StoreLog <---- MCStoreLog (values for TLC)
(the contract)                         ^
                                 StoreLogProofs (theorems)
Wallet <---- MCWallet          Wallet <---- WalletProofs
Lists <---- Recall <---- MCRecall
Transfer <---- MCTransfer      Transfer <---- TransferProofs
Wallet <---- its reading of the store ---- Tui <---- MCTui
Lists, Modes <---- Tui
Lists, Modes <---- Pane <---- MCPane
Tui, Pane, Recall <---- TuiProofs

Catalogue, AccountTx <---- SendPlan <---- MCSendPlan
                           SendPlan <---- SendPlanProofs
CoinSelection, DustSync <---- CoinSend <---- MCCoinSend
CoinSelection, CoinSend <---- CoinSendProofs
Keys <---- Export <---- Identity <---- MCIdentity
                        Identity <---- IdentityProofs
Gui <---- MCGui                Gui <---- GuiProofs
```

`Wallet`, `Recall`, `Transfer`, `CoinSend` and `SendPlan` take one append, and one
compaction, as one step: `StoreLog` is what justifies that (a handle alone implements
the atomic set of records, see `log_serial` and the theorem `SerialImplementsPromise`)
and says where it is not justified (`log_lost_append` and `RemovedStaysOut` in section
3, which hold for every log).

### StoreLog: the log, file operation by file operation

| Model | Code |
| --- | --- |
| `recs`, `tail` | the terminated lines of the file; what follows the last newline |
| `temp[p]` | `.<log>.<pid>.compact` |
| `pc`, `fd`, `line`, `kept`, `dropped` | where a handle is inside `append` or `compact`, the file its descriptor names, its local strings |
| `begun`, `added`, `removed`, `tears` | history: what was called, what returned Ok, writes cut short |
| `OpenLog`, `Write`, `TornWrite` | `append`: open, `write_all`, or only part of it |
| `ReadForCompact`, `OpenTemp`, `WriteTemp`, `Rename`, `RenameFails` | `compact` and `write_private` |
| `Fail`, `Crash` | any other `?`; the process dies |

A file descriptor keeps naming the same file through a rename: an append that opened
the log before a rename writes into the unlinked file (`fd = "gone"`), and in a process
with two handles a descriptor on the temp file may come to name the log. The order of
lines is left out: no property of this module depends on it.

`RecordSet` is what the callers of the store assume: a set that changes by whole
additions and whole removals, in which what was acknowledged is so.

### Wallet: accounts and position

A command is the list of store operations it has left (`todo`); a step does the first.
The list is written in the order of the code, so every early return, partial failure
and crash point of `create_wallet`, `activate`, `delete_account`, `derive_missing_on`
and `network use` is a state of the model. `accounts` and `config` are the replays.
Labels are tuples, so that `account1` and `Account1`, a base label and the same label
with a chain's name, and the wallet's own names are told apart as the code does. An
address is a phrase, an index, a chain and whether a passphrase was used (`plain`).

### Recall: the list of remembered secrets

`log` is the file line by line, with the tombstones of older binaries; `Recent` is the
replay and its order. A restore, a forget and a clear hold across a prompt what they
read before it. `used` and `wallets` are history: uses since a secret was last
forgotten, and the wallets (phrase and passphrase) the user has had.

### Transfer: a payment

A transaction is a payment and a nonce, since signing is deterministic. `pc` follows a
command through `plan_send`, the prompt, `execute_send` (or `erc20 send`),
`await_confirmation` and `tx`. The node is external: a pool and blocks in order of
nonces, a pending count, requests that are lost, late or answered with an error though
they were accepted, evictions and reverts. `Careful` is the user: he pays again only
when every transaction the history names for the payment failed or is nowhere.

### Tui: the terminal UI

One thread draws and reads keys; balances and plans are worked out on threads that send
one answer over a channel of their own; other processes change the store meanwhile.
`ui` is the program's `State`; a handler that only touches it is an operator on such
records (`SelectIndex`, `Reload`, `MoveSelection`, `PollJob`), as in the code, and one
that runs a wallet command is an action. How much is in the store comes from `Wallet`
through `INSTANCE` (`Store!NetworkOn`, `Store!Missing`, ...). A command is one step
here; its steps are `Wallet`'s subject. A removal stops at the first account that is
refused, with those before it gone, and maybe that one too, still named active
(`DeleteNoting`).

| Model | Code |
| --- | --- |
| `ui.list`, `row`, `index` | the accounts as last read, the highlighted row, `current_index` |
| `ui.network`, `changed`, `bound` | `current_network`, `network_changed`, the network the `App` underneath is open on |
| `ui.mode`, `focus`, `recall`, `entry` | mode, focus, the recall pane and its row |
| `ui.to`, `job`, `staged`, `detail` | the recipient typed, the job listened to, the plan to confirm, what the detail pane is about |
| `ui.asked`, `counted` | history: the transfer typed last, the accounts a removal's question counted |
| `jobs` | every thread of the session and the answer in its channel |
| `Turn` | `event_loop` between two keys: the wallet reopened after a network switch, `poll_job` |
| `ThreadEnds` | a thread answers, fails, or panics |
| `KeyMove` ... `Broadcast` | the key handlers |

Text is abstracted: what a prompt collects is chosen when Enter answers it, and an
answer the code refuses has the effect of Esc. The search box moves the focus no
further than Tab does. Both are `Pane`'s subject.

### Pane: the command pane and the input line

`pane` is the part of `State` this module is about: mode, focus, filter, cursor, line and
the note about the clipboard. The table of commands is `CommandList`, with a row for
each network and token; a term of a search finds the rows that `Words` says it does, and
`Drawn` are the rows that are left. The
line holds texts, each with the number of the prompt it was put in at (`opened`), so
that a text found at another prompt is seen. `clip` is the system's clipboard, which
other programs write to. A bracketed paste and Ctrl-V come in by two handlers, and only
one of them updates the note.

### Catalogue, AccountTx, SendPlan: one command from its words to its report

`Catalogue` holds the look-ups of `network.rs` and `token.rs` (`Find`, `FindFor`,
`FindHere`, `FindToken`), amounts as decimal text (`Bad` when a unit is too coarse for
one), ceilings as text, and addresses with the network they name. `AccountTx` is what
the EVM and Solana clients make of a node's answers, and what those chains make of the
transaction when it lands, in a state that may have moved on; an estimate that fails, the
gas `erc20` then falls back to, and the two rents of Solana (a plain account's and a token
account's) are among what it knows. `SendPlan` runs a command one read at a time:

| Model | Code |
| --- | --- |
| `conf` | the replay of `config.jsonl`: current network, network per chain, ceilings, endpoints |
| `run[p]` | what a command has worked out so far: network, account, ceiling, endpoint, plan |
| `Open`, `Target`, `Connect`, `Decimals`, `Prepare`, `Agree`, `Record`, `Submit`, `Report`, ... | the steps of `app.rs` in their order, one read or one write each; `Decimals` is what `erc20 send` asks the contract before it reads the amount |
| `ClientConfig`, `SubmitsTo` | the endpoint read from and the one submitted to (Midnight has two) |
| `GivesAddress`, `Given`, `Own` | a balance of an address on the command line, or of the wallet's own account |
| `Use`, `UseOnChain` | the two appends of `set_network` |
| `sent`, `Land` | what left for a node, and the chain (external) |
| `most`, `set` | history: the highest ceiling a command could have read; what the user last set |

### CoinSelection, DustSync, CoinSend: chains that spend coins

`CoinSelection` is the arithmetic of the three builders: a *rule* says what differs (the
least payment and change, the fee of k inputs and o outputs, whether the sweep's
remainder is held to the ceiling), and `Select` is the pass that keeps change followed
by the pass that sweeps. The sizes of eCash and Cardano transactions are computed from
their encodings. `DustSync` is the replay of Midnight's dust events from the cache file:
a state is the sequence of events folded into it, so that a lost, repeated or swapped
event is seen. `MaxIdGiven` says whether the indexer sends the highest id with every event,
as its schema has it; the code takes a missing one for 0, which is caught up at once.
`CoinSend` puts both under `plan_send` and `execute_send`:

| Model | Code |
| --- | --- |
| `Listed`, `Spendable`, `Orders` | what the endpoint lists, what a wallet may spend, and the orders a sort by value leaves open |
| `pc`, `work` | where a command is, and what it is about |
| `Prepare`, `PrepareNight`, `Prove` | `plan_send` and, for a proved spend, the sync and the second estimate; the clock is read once, before the sync, and the transaction is dated by it (`now`, `made`), less `Backdate` for what coins have accrued |
| `Record`, `Submit` | `execute_send` after the prompt |
| `wire`, `pool`, `mined`, `Deliver`, `LoseRequest`, `Evict`, `Mine` | network and chain (external) |
| `Tick`, `Deposit` | time, which expires a Cardano or Midnight transaction; coins from others |

### Keys, Export, Identity: accounts as keys

Cryptography is free: a key is a symbol with its seed and path, two terms are equal only
if made the same way of the same things. A text is the form it is written in and what it
stands for, so that what a parser takes it for can differ from what it was written as.
`Keys` is derivation, secrets, addresses, signatures and verification of each chain;
`Export` is the rows and columns of a list (a row is found by its account and the place
of its network in the table), and the system calls a list is written with (`Open`,
`Tighten`, `Fill`) by several writers that may fail or die between two;
`Identity` is the commands over both, in two homes: derive, import a key, sign, verify,
list, and import from a list what another home wrote.

### Gui: window, worker, library

The window changes account, network and token by itself and at once, in the same store;
what may block goes as a request through a channel to a worker thread, which runs it
through the library, and its answer is taken by a later frame. The library opens the store
(`Start`, which reads the network) and picks the account later (`PickAccount`); the window
may move in between. `win` is `model.lua`'s
state, `pending` its callbacks by request number, `queue`, `job` and `answers` the
channels and the worker between them. A panic in the library is an answer that nothing
was written. `moves`, `agreed`, `ledger` and `misled` are history: how often the window
moved, the dialog each `yes` was pressed in, the sequence of what was broadcast (two of
one kind are two), and answers that denied a write. The networks are those
of one chain, an amount is one unit, and the list of wallets, its search and the dialogs
that write files are left out.

## 3. Runs

"Passes" means TLC visited every state of the instance. Every property of a passing run
has a mutant: a slip in one definition, written beside it under that name, with which
TLC finds the property violated.

| Run | Question | Bounds |
| --- | --- | --- |
| `log_one_remover` | Is what nobody removes ever lost, even for a moment? Does a removed secret come back when others only append? No. | 3 processes, 4 appends, 2 removals, 1 torn write, crashes, I/O errors |
| `log_serial` | Does a process alone implement `RecordSet`, and keep what it acknowledged? Yes. | 1 process, 2 appends, 2 removals, crashes, I/O errors |
| `wallet` | Do account and network agree, is no address given twice, and has every wallet its account after a move? Yes, one command at a time, without removals and passphrases (and, for the position, imported keys). Does one undisturbed move repair the position, whatever happened before? Yes, also with two processes, removals and crashes. | 3 commands, 4 accounts (2 when two processes run), 2 chains, 3 networks |
| `send` | Does a native payment go out once, and never unrecorded? Does the history claim no more than the chain has settled? Does every send, wait and look-up end? Yes. | 2 processes, 2 payments, 3 sends, 2 nonces, crashes |
| `recall_race` | Is only what was shown forgotten, and only what existed restored? Yes. | 2 processes, older log, 2 lines |
| `tui_wallets` | With another process creating and removing accounts, over several sessions: do cursor and highlight stay on one wallet, is a new wallet one the screen does not list, does a removal, be it cut short, take only what its question counted? Yes. | 2 chains, 3 accounts, a phrase and a key; the reload key is in `tui_jobs` (a new wallet, an import, a removal and a start read the list too) |
| `tui_jobs` | Is the transfer asked about the one typed, from the account highlighted, when waits are abandoned and others begun? Does every answer, a panic included, end the wait? Yes. | 2 threads, 2 accounts, another process that switches networks, several sessions |
| `utxo_chains` | Does a payment go out once, is it recorded first, do inputs balance with amount, change and fee, is a refusal for want of funds the truth, does a Midnight transaction pay its own fee, does the dust cache read back? Yes, for deposits smaller than the coins held. | 2 processes, 2 payments, 3 sends, 3 clock values, 2 dust events in batches of 2 |
| `plans` | Does a transfer stay on one network from its words to its record, within its ceiling, in the units of what it moves, to an address of that network, and cost no more than was said? Yes; `erc20 send` is held to its own ceiling (see `ErcWithinTheCeiling` below). | 2 processes, 2 commands of 43, 8 networks of 5 chains, 3 tokens, 8 answers of an EVM node (decimals unlike the catalogue's and a failed estimate among them), 13 of a Solana node (balances about both rents) |
| `gui_window` | Does every broadcast pay the recipient of a dialog that was agreed to, in the asset shown if the window did not move meanwhile? Is every request answered, panics included? Yes. | 2 accounts, 2 networks, a token, 3 requests, 1 move, 1 faucet try |
| `pane` | Does Enter run the row aimed at, whatever the search hides? Is anything typed or pasted at one prompt found at another? Yes, no. | 2 search terms, 2 texts in the line, 3 prompts |
| `identity` | Does an account keep keys and addresses through a store, a list and another home? Is a verdict true? Is a file with keys its owner's alone? Does a list leave out an address? Yes, yes, yes, no. | 2 homes, 8 networks, 5 forms of a key, indexes 0 and the first hardened one, 2 accounts a home, a message and an altered one |

The bounds are named constants of the modules. They are chosen so that each race has
room: two processes are enough for every check-then-act of this code, since each such
pair reads and writes one log; the third handle of the log runs lets an append land in
another's compaction while a third is under way; two payments and two nonces let a
payment find its nonce taken by the other one and be signed again, which takes the third
send; two threads let one that was abandoned answer while the user waits for the other;
two commands a behaviour let one change each of the two things a transfer reads, between
any two of its reads; three requests are a price, the transfer agreed to, and one more
that overtakes or follows; one batch of dust events that fills and one that does not
need two events; a clock of three values lets a transaction be made, expire (`Slack` is
1), and be made again. Symmetry is used where the properties are safety only: over the
processes of `plans` and over the homes of `identity`. Deadlock is not checked
where every bound, and every command of a real wallet, runs out: the log, the commands,
the sends, the window and `identity`.

Some comparisons the runs rest on are worth saying. A coin chain's retry cannot pay
twice because coins are taken largest first (eCash, Cardano) or oldest first
(Midnight): as long as nothing larger arrives, a second transaction for a payment
spends a coin of the first. The change coin of a Midnight spend is as old as the time
it was built, not the time it was mined. On eCash the pass that keeps change stops at
the first count whose fee is past the ceiling, so it may refuse a transfer the sweep
could have made within it.

### Violations: where the code and what it says of itself differ

Each was met while modelling. The configurations named in the first table are in this
directory and are not among the runs of `PROJECT.json`; `tlc -config <name>.cfg
MC<module>` stops at a violation of the property. Paths are under `src/rustcli/core/src`
unless they start with `src/`.

| Configuration | Property | The repository says | The code does |
| --- | --- | --- | --- |
| `log_lost_append` | `AddedStaysIn` | `src/lovegui/worker.lua:14`: "Two handles over one home is the supported case." | an append acknowledged during another handle's compaction is lost; every other part inherits this |
| `log_torn` | `AddedStaysIn` | `src/SPEC.md:43-44`: a crash "can at worst lose the last (partial) line" | the next append, acknowledged, continues the torn line, and both are skipped |
| `tx_overtaken` | `StaysInStep` | `app.rs:2066`: "Keep the local log in step with what the chain says." | a late `submitted` is written over `confirmed` (`app.rs:1896-1906`) |
| `tui_two_seeds` | `RemovesOneWallet` | `src/rustcli/cli/src/tui.rs:2193`: "A wallet is one mnemonic and one index" | rows are indexes: one removal takes the accounts of every seed at it |
| `plans_split` | `PlacesAgree` | the network in use is one (`src/README.md:306-307`) | `set_network` appends two keys; between the two, and after a crash there, they name different networks |
| `plans_report` | `ReportReadsBack` | a report tells what was sent | `finish_send` renders a token's amount with the coin's units and symbol (`app.rs:1943-1977`) |
| `gui_debit` | `SpendsFromWhoItNames` | `src/lovegui/model.lua:1286-1287`: the wallet active at the answer "is the one that will be debited" | the command reads the store when the worker runs it: another process may have moved the account |
| `gui_asset` | `SpendsTheAssetShown` | `src/lovegui/model.lua:1224-1226`: the two halves of a send "must not be able to differ" | likewise for the network, which `send_argv` does not pass |
| `gui_panic` | `PanicWroteNothing` | `api.rs:57`: "no state was written" | a panic after the record, or after the broadcast, is reported so |

The others need no file of their own: change the entries named in the configuration of
a run, and name the property instead of the run's.

| Configuration | Changes | Property | The repository says | The code does |
| --- | --- | --- | --- | --- |
| `log_one_remover` | `Handle = {h1, h2}`, `Pid = {h1, h2}`, `Appends <- Nothing`, `Removals <- EachRemoves`, `MaxTears = 0` | `RemovedStaysOut` | `store.rs:368-370`: "the secret is either wholly in the old file or wholly absent from the new one" | two processes read before either renames (`store.rs:371`): the second rename brings back what the first removed |
| `log_one_remover` | `Handle = {h1, h2}`, `Pid = {h1}`, `PidOf <- OneProcess`, `Removals <- TwoEach`, `MayFail = FALSE`, `MaxTears = 0` | `WholeAtRest` | `store.rs:323-325`: "a reader sees either the old log or the new one and never a half-written file" | two handles of one process share the temp file: a rename installs it just truncated, and an append in the gap makes that permanent. With `Removals <- TwoEachOld` and `Appends <- Nothing` it holds |
| `log_serial` | `Newer = {old2}` | `NewerUntouched` | `store.rs:325-328`, `src/SPEC.md:50-51`: lines of a newer schema are kept | `compact` never looks at the schema of a line it parsed |
| `send` | `Token = {p}` | `PaidOnce` | `src/SPEC.md:161-163`: a record before the broadcast "stops the same transfer going out twice" | `erc20 send` records after the broadcast (`app.rs:2684-2704`): with the reply lost, nothing names the transfer, and it is paid again |
| `send` | none | `ListedStatuses` | `src/SPEC.md:160-161` lists five statuses | `tx` writes `pending` too (`app.rs:2067-2069`) |
| `wallet` | `Settings <- IndexFreed` | `OnePosition` | `app.rs:1147-1151`: account and network move together | `delete_account` moves the active account, maybe to another chain, and not the network (`store.rs:680-689`) |
| `wallet` | `Settings <- NetworkLeaves` | `OnePosition` | `app.rs:1147-1151`: as above | `network use` moves to a chain an imported key has no account on, and an account made there later is not moved to: only the first of a wallet is (`app.rs:1138-1143`) |
| `wallet` | `Settings <- TwoNameOne` | `UniqueLabels` | `src/SPEC.md:72`: `label` is unique | check and append are two steps: two processes both find the label free. With `OrderlyOnly` it holds |
| `wallet` | `Settings <- WithPassphrases` | `FacesOfAll` | `app.rs:863`: "Give every wallet its account on `chain`, where one is missing." | it compares phrase and index (`app.rs:897-901`): an account made with a passphrase counts as the one without |
| `wallet` | `Settings <- IndexFreed`, `MaxCommands = 4` | `IndexIsLowestFree` | `store.rs:487`: "The lowest address index not yet taken" | one past the highest |
| `wallet` | `Settings <- NameTaken` | `EverySecretRemembered` | `src/SPEC.md:132-133`: every create records its key material | `create_wallet` remembers at its end (`app.rs:859`): a label refused on a later chain leaves accounts whose phrase is nowhere |
| `wallet` | `Settings <- WithPassphrases` | `NewContinuesTheWallet` | `app.rs:406-408`: "a new one continues that sequence" | the account of a passphrase wallet is continued at addresses of the bare phrase |
| `wallet` | `Settings <- NetworkLeaves` | `FollowsTheAccount` | `app.rs:3008`: "the wallet follows its active account's chain" | it follows the stored network (`app.rs:3034-3042`) |
| `recall_race` | `Handle = {"h1"}`, `Initial <- NewLog`, `MaxTime = 0` | `PositionsMatchTheList` | `src/rustcli/cli/tests/cli_offline.rs:892`: "Positions are 1-based and match the display order." | `recent list --kind` numbers what is left after filtering (`app.rs:1023-1033`), the selector counts every kind (`store.rs:884-893`) |
| `recall_race` | `Initial <- NewLog` | `UsesAreCounted` | `src/SPEC.md:147`: "how many times this material has been used" | read, then append: two uses at once count as one |
| `recall_race` | `Initial <- NewLog` | `PassphraseStaysKnown` (PROPERTY) | `store.rs:194-197`: what is stored is the fact that a passphrase exists, "so a restore can demand it back" | the next use without one replaces the fact |
| `tui_wallets` | `Keys = {"new wallet", "network"}`, `Others = {}` | `HeaderIsWhereKeysAct` | `src/rustcli/cli/src/tui.rs:2274-2276`: network and chain "can never disagree about which chain the rest of the screen is describing" | the header reads the store (`2477`): on an empty wallet with Solana in view, New wallet activates its first account, on EVM, and the header says EVM while the keys act on Solana |
| `tui_wallets` | none | `NewWalletIsFresh` | `src/rustcli/cli/src/tui.rs:2191`: "a fresh index" | fresh in the list last read: another process may have made that wallet, and it is made twice |
| `tui_wallets` | `Others = {}`, `MaxAccounts = 4` | `DetailIsTheRow` | `src/README.md:309-310`: "the accounts of the highlighted one are laid out in the detail pane" | `new_wallet` lays it out before it moves the highlight (`2208-2209`) |
| `tui_wallets` | `Keys = {"new wallet", "recall"}`, `Others = {}`, `MaxAccounts = 4` | `DetailIsTheEntry` | `src/rustcli/cli/src/tui.rs:1122`: "Keep the detail pane in step with whatever the arrow keys just moved." | in the recall pane the arrows lay out the highlighted wallet (`1130`) |
| `tui_jobs` | `Keys = {"new wallet", "token balance"}`, `Others = {}`, `MaxAccounts = 4` | `BalanceIsTheWallets` | `src/rustcli/cli/src/tui.rs:2066`: the balance sits "with the rest of the wallet's facts" | a token's balance is of the store's account on that chain, whichever wallet is laid out; so is one of an address typed |
| `tui_jobs` | `Network <- MCNetwork`, `ChainOfNetwork <- MCChainOfNetwork` | `PlansOnTheNetworkInView` | the ● marks the network in use (`src/README.md:306-307`) | `reopen_on` asks the store, which another process may have moved to another network of that chain |
| `tui_wallets` | `Overrides = {"solana-devnet"}` | `BoundIsInView` | `src/rustcli/cli/src/tui.rs:1662`: New seed is "on the chain in view" | started with a network as an option, the `App` is on it and the view is on the store's |
| `utxo_chains` | `Coins <- EqualCoins` | `PaidOnce` | `src/SPEC.md:161-163`, as above | Cardano sorts by value alone, which leaves coins of one value in the order the endpoint lists them: listed otherwise, a retry spends others and pays again |
| `utxo_chains` | `Deposits <- EarlierDeposits` | `PaidOnce` | `src/SPEC.md:161-163`, as above | a coin larger than those held, or older ones, arriving before the retry are spent in place of the first transaction's |
| `utxo_chains` | `MaxIdGiven = FALSE` | `CacheReadsBack` | `chain/midnight/dust.rs:142-145`: "a transaction built on a partial dust state would be rejected", so none is | an event without `maxId` counts as the tip (`dust.rs:107-110`): the sync ends there, and is saved and used |
| `plans` | none | `SubmitsWhereItReads` | `network.rs:495-496`: "A chain that reads and writes in one place follows the read endpoint, override and all." | it is resolved from the `submit.` key, which no command writes, and not from the endpoint `network set-rpc` stored; `network current` then shows the built-in one under "Submit to" (`app.rs:1265-1270`), while transfers go where reads do |
| `plans` | `Typed = {"oncardano"}` | `OneNetwork` | a balance is of the address on the token's network | a token's balance without an address asks for the stored address (`app.rs:2412`), which on Cardano names another network |
| `plans` | none | `ErcWithinTheCeiling` | the stored ceiling holds for its network | `erc20 send` compares the fee with the catalogue's (`app.rs:2659`) |
| `plans` | none | `TokensTakenAsChecked` | what the checks let through, the chain takes | a Solana token transfer does not compare what is left with the rent |
| `gui_window` | none | `BalanceIsOfTheView` | the balance shown is of the wallet in view | it is of the one in view when it was asked for (`src/lovegui/model.lua:1203`) |
| `gui_window` | none | `DialogStays` (PROPERTY) | `src/lovegui/model.lua:1236-1243`: a second transfer never starts "from underneath an open confirmation" | the guard is the dialog, which is up only after the answer: the second answer replaces the dialog of the first |
| `pane` | none | `NoteGoesWithAnyEdit` (PROPERTY) | `src/rustcli/cli/src/tui.rs:548`: "Any edit or answer clears the flag" | a bracketed paste does not |
| `identity` | none | `PathReadsBack` | a path that is recorded can be derived again | Cardano derives an index of 2^31 or more as a hardened child and records it unmarked, which `parse_path` refuses |
| `identity` | none | `ValidNamesSomebody` | `app.rs:2204-2205`: "Nothing to compare against would make `valid` mean only 'this parsed'" | on EVM and eCash, a wallet with no account there is told that any signature is valid |
| `identity` | `Zeroless(<<Pasted("two")>>)` among `MCTexts` | `ReadsBareHex` | `chain/solana/keys.rs:124-127`: "`0x`-prefixed or bare hex" is accepted | base58 is tried first, and hex without a zero is base58 |

Beyond what the models tell apart: a proved Midnight spend pays one and a half times the
fee the ceiling was asked about; a Cardano sweep adds its remainder to the fee without
asking again (`SelectionIsBounded` proves by how little it can pass the ceiling); the
replay of Midnight's outputs ignores the list of those spent; a dust sync that times out
keeps nothing of what it replayed. A comment at `app.rs:2207` says that eCash would refuse
in `verify` an address written for its other network: `recover_message` compares the hash
only (`chain/ecash/mod.rs:122-133`) and accepts it, and `Identity` follows the code.

### Fairness

Three properties need it. For `Returns`, `FairSpec` of `Transfer` is weak fairness, per
process, of the steps a command takes by itself once confirmed: local steps, and
requests that the HTTP client ends after 30 s (`chain/http.rs`) whether the node answers
or not. Nothing is assumed of the node or of the user: it may never answer, mine or
deliver, and a prompt may stay open for ever. For `WaitEnds` the terminal's loop turns
(`WF_vars(Turn)`): it polls the keyboard with a time-out of 200 ms. No thread is assumed
to answer, and no key to be pressed. For `EveryRequestAnswered` the worker's loop goes on
and the window draws frames, each of which takes the answers there are (`WF_vars(Worker)`
and `WF_vars(Pump)` of `Gui`); a command ends because its requests time out and its
panics are caught. The claim is that the window, once busy, is idle again; it is made for
`MaxAsks` requests, since a user, or the faucet, could go on asking.

## 4. Proofs

Proved by TLAPS for every value of the constants that satisfies the named assumptions
(`LogConstants`, `WalletConstants`, `TransferConstants`, `NoneIsNoStatus`, `DustConstants`,
`KeyConstants`, `OneProcessEach`, `NoneIsNothing`, `CoinConstants`, `GuiConstants`,
`CatalogueAssumption`, `PlanAssumption`, `TuiConstants`: types, tables whose keys are keys, values that must be told apart; TLC
evaluates each in the runs). In each proof the invariant proved is stronger than the
property: what it adds, and why, is said here.

`StoreLogProofs`
- `TypeCorrect`.
- `BystandersAreSafe`: `OwnTemp` (no two handles in one process) implies
  `BystandersSurvive`. Not inductive: a rename installs whatever the temp file holds.
  `CopiesHoldBystanders` follows the bystanders through `kept` and `temp` up to the
  rename, and says that only the handle itself writes its temp file.
- `RemovedIsGone`: `SoleRemover` implies `RemovedStaysOut`. `NoWayBack` says why: no
  copy about to be installed, and no line about to be written, carries what was
  removed; every line is written once (`begun`).
- `SerialImplementsPromise`: for one handle and no torn write, `StoreLog` implements
  `RecordSet`. `CopyIsCurrent` says the copy about to be installed is the log as it
  stands; `StepIsContractStep` maps `Write` to `Add`, `Rename` to `Remove`, and every
  other step, crashes included, to a stutter.
- `AddedIsReadBack`: without torn writes, `AddedStaysIn`, if one handle does everything
  (by `CopyIsCurrent` again: what a rename drops is what its caller asked to drop) or if
  no handle removes (`OnlyAppends`: no descriptor ever names anything but the log).
  Both hypotheses are needed: `log_lost_append` and `log_torn` violate it without them.

`WalletProofs`
- `MovesRepair`: `MoveRepairs`. `Undisturbed` says of a command that has run alone so far
  what it has done, by what it has left: an `account use` past its first operation has
  set the active account, a `network use` with accounts to make still has the network it
  selected, and at its end a move to an account of that chain. `StoreOK` and `ListsOK`
  are what other commands and crashes leave true of the store and of every list: ids
  tell accounts apart, what is read as a network is one. `AloneOK` makes "alone" mean
  that every other list is empty. The proof has one lemma for what each operation puts in
  its place (`SetStep`, `FollowStep`, ...), and one for what that does to a move
  (`SetMoves`, `FollowMoves`, ...).
- `NoAddressTwice`, `FacesAreMade`, `PositionsAgree`: `NoTwins`, `EveryWalletHasItsFace`
  and `PositionAgrees`. They speak of finished work, and a step sees work in progress, so
  the invariant (`OrderOK`) is about the accounts together with the list the one command
  has left (`Parts`). `TwinsOK`: an account the user did not number, made or still on the
  list, has a phrase, index and chain that no account before it has. Operations about to
  work out an index count for nothing there: they look at the store when their turn
  comes. `FacesOK`: while a move to a chain has accounts to make, every wallet either has
  one there or finds its own further down the list; the move's own last operation is
  reached when the list holds no other. `PlaceOK`, of a home of phrases: either the
  position is settled, or there is one account and the list still opens it (`Opening`),
  or the list has one harmless operation to go (`Closing`); a move is what
  `Undisturbed` says it is. `PlainOK` says what such a home never does: no list holds a
  removal and no account has a passphrase. `FollowParts`, `MissingParts`, ... say per
  operation that `Parts` survives it, `StartsSteadily`, `StartsMidway` and
  `StartsCreating` that every command starts with it. That there is one command takes
  a finite `Handle`, which `WalletConstants` says.

`TransferProofs`
- `TypeCorrect`.
- `HistoryIsNeverAhead`: the answer on its way from node to history is still true when
  it is written (`AnswersAreFinal`).
- `NothingOutUnrecorded`: what a command has asked the node to do, or is about to ask,
  it has recorded (`Recorded`).
- `ThePaymentGoesOutOnce`: without token sends, `PaidOnce`. The invariant is
  `OneMayConfirm` with the two facts above: of one payment at most one transaction is
  planned, under way, in the pool or confirmed. `PlanningFindsNone` shows that a careful
  user never starts while one is, and `OthersAddNone` that no other step makes one.

`CoinSendProofs`, its first part: about the operator `Select` of `CoinSelection`, for any
rule of `Rules` and any coins. `FirstIsLeast` says that the least member of a set of counts exists;
`PassReturns` what one pass comes to: a refusal, or a result for a number of coins at
which it ends; `SelectionIsAPass` that `Select` is the pass with change, or the sweep
where that one is short; `WhatIsBuilt` collects what a success means. From these:
- `SelectionBalances`: inputs are amount, change and fee, to the unit.
- `SelectionIsRelayed`: the fee covers the size of what is built, and neither payment
  nor change is dust.
- `SelectionIsBounded`: the fee is within the ceiling; where the sweep is not held to it
  (Cardano) it passes it by less than the least change.
- `ShortMeansShort`: after a refusal for want of funds, no number of the coins pays.

Sums are the library's folds, which take the elements in an order nobody chose:
`SumApart` says that any element may be taken first, `TotalsAre` what running totals are. Induction is over the numbers of a set
(`CountsUp`), since the provers cannot instantiate the library's induction theorems.

`CoinSendProofs`, its second part: about `CoinSend`
- `RecordedFirst`: `RecordedBeforeBroadcast`, from `RecordFirst`: who is about to submit
  a transaction has recorded it.
- `DustReadsBack`: `CacheReadsBack`, where the indexer says with every event how far the
  log goes (`MaxIdGiven`; without it the property is false). `DustInv` follows the events through a sync:
  what is folded in, with the batch behind it, is the events up to the last one seen,
  the next one received is the one after, and a file cut short holds nothing
  (`Progress`). Any number of processes write over each other's file; each writes a
  whole state.
- `NoCoinIsLost`: `NothingLost`; `ShortOfEveryChoice`: `ShortIsShort`; `FeesArePaid`:
  `PaysItsOwnFee`. One invariant, `CoinInv`, which follows a transaction from the coins
  listed (`ListedAre`: finitely many, with values; the change of a transaction that
  balances is one) through selection to the wire (`TxOK`), and a Midnight one through the
  wait for its proof (`WorkOK`). `TakenIsWorth` says that the first k coins are worth the
  running total at k, `LargestFirst` that no other k of them are worth more, which is
  what makes a refusal after trying the largest first the truth about every choice. What
  coins have accrued is counted for the time the transaction declares, by the wallet and
  the node alike, so a wait changes nothing about it (`OwnFee`).

`SendPlanProofs`: one invariant, `Inv`, for the four theorems. `Chosen` says what is
known of a command once its asset is picked (network, token, account and amount belong
together, the recipient was made for that network), `Moving` what its plan adds (fee,
nodes, a fee no greater than the least of the flag and the ceilings it could have read),
`SentOK` and `HistoryOK` that what left and what was recorded carry this on, `ConfOK`
that a stored ceiling is the one last set. The other processes change `conf` between any
two reads; the proof is that nothing chosen is read again. It rests on lemmas about
`Catalogue`: `ReadsBack` (parsing an amount's text gives it back), and what each look-up
can name (`FindNames`, `FindForNames`, `FindHereNames`, `FindTokenNames`).
- `FeesStayWithinTheCeiling`: `WithinTheCeiling`.
- `AmountsAreAsTyped`: `MovesWhatWasTyped`.
- `AddressesAreOfTheNetwork`: `NeverAcrossNetworks`.
- `OneNetworkThroughout`: `OneNetwork`, for commands that ask `token balance` without an
  address only of tokens whose network writes addresses as its chain's default one does
  (`AsksOfLikeTokens`). The proof needs this and the code has no such care
  (`app.rs:2412`): the built-in tokens are on EVM and Solana, which write no network
  into an address, and a token on Cardano would break it (the second table of section
  3, `Typed = {"oncardano"}`).

`IdentityProofs`
- `KeysAreTheOwners`: `KeysStayPrivate`. `JobOK`: a writer about to fill a file with
  keys has created or made it private; `FileOK`: a file that tells a key is there, and
  private. Nobody makes a file public that is there, so other writers change nothing.
- `AccountsStayTheSame`: `StaysTheSameAccount`. In `AccountInv`, `HomesOK` says that every
  record kept, and `ListsOK` that every row on file or about to be written, holds a
  secret, path and address that were made from one account. `ReadsBack` says that every
  form a home or a list writes a secret in parses to that secret again, and `RecordReads`
  and `RecordAddress` that a record gives the account back, with its addresses.
- `ListsAreComplete`: `EveryAddressIsWritten`. `WrittenFor` and `ListIsComplete`: for each
  account and network of its chain there is a row with the address that network writes,
  and off EVM, where rows are one to an address, just one.
- `VerdictsAreTrue`: `VerdictIsTrue`. `LetterOK`: the letter under way was signed by an
  account some home made. Then, chain by chain (`EvmTells`, `EcashTells`, `SolanaTells`,
  `HeldTells`): what a verdict says of a signature, recovered or compared, is what the
  signer's key says. `AddressShape` and `OneAddressOneKey`: an address tells its key;
  `FoundIs`: an address given finds an account only if it is one of that account's.

  Two things the proofs needed are in the definitions since: the length `from_wif` checks
  before it takes a text for a key (`FromWif`), and that two Cardano accounts may share a
  payment key and differ in the stake key, so that a verdict is about the key and the
  address it tells may be that of the other account (`Says`).

`GuiProofs`
- `PaysOnlyWhoWasAgreed`: `PaysWhoWasAgreed`. `Numbered`: request numbers are given out
  once; `QueueOK` and `JobOK`: a request with `yes` is of a dialog agreed to, under the
  same number, with the same recipient; `WindowOK`: a dialog's command pays whom it
  shows; `LedgerOK`: what was broadcast was such a request, is not in the queue, and is
  the one at work only when its broadcast is behind it, so that no yes is used twice.
- `SpendsOnlyWhatWasShown`: `SpendsWhatWasShown`. What the window holds of a transfer is a
  note with the count of moves it was made at: a pending price (`Fresh`), a dialog, open
  or agreed to (`Faithful`). A note is true as long as the count is the same; a move
  raises the count and makes every note old (`NotesAge`). `Waiting` keeps answers and
  callbacks in step, without which an answer could be taken by another's callback;
  `CommandOK`: the command at work has read the store as the window had left it at the
  moves it notes, network and account each, and is the one that was signed for.

`TuiProofs`: `Tui`, `Pane` and `Recall` together, each with a specification of its own,
since they rest on the same lemmas about rows of a list (`Lists`). About `Tui`, any number of sessions of it with any other processes at work.
One invariant, `Inv`. `Placed`: the highlight is on a row of the list, or there is none.
`Cursor`: `current_index` is that row's index. `JobsOK`: what threads there are, and that
only one working on a transfer answers with a plan. `Screen` says what each mode holds to
while it lasts: what a thread waited for works out is the transfer typed last, from the
account highlighted (`Prepares`); so is the plan on the confirmation screen; a removal's
question has counted the accounts of the highlighted row. None of these is inductive by
itself: `Cursor` needs that reloading and clamping land on a row, and that rows are
numbered by their indexes (`SelectedIs`, from what `RankHits` says of `Rank`); `Screen`
needs that nothing but browsing moves the highlight.
- `TheCursorIsTheRow`, `TheTypedIsConfirmed`, `TheHighlightedWaits`: `CursorIsTheRow`,
  `ConfirmsWhatWasTyped`, `WaitsForTheHighlighted`.
- `TheCountedAreRemoved`: `RemovesWhatItAsked`, of every step. What is taken is what the
  list on screen has at the index, or the first few of it where one is refused, and that
  is what was counted.
- `NewWalletsAreNew`: `NewWalletIsNew`. The search for a free index ends
  (`FreeIndexIs`), and no account that is listed has the index it finds.

  About `Pane`:
- `NothingEverLingers`: `NothingLingers`, from `Clean`: outside a prompt the line is empty
  and there is no note, and each text in it is of the prompt that is open. `Bare` is the
  former alone, which is what a command starts from.
- `TheAimedAtIsRun`: `RunsWhatIsAimedAt`, from `OnRow`: the cursor is nowhere only if no
  row is drawn, and else the row under it, among those drawn, is the one aimed at. It
  supposes that the networks and the tokens are lists.

  About `Recall`:
- `TheRestoredWasUsed`: `RestoredWasUsed`, from `Kept`: every entry of the replay, and
  every line of a restoration not yet written, is of a wallet used before. `AddedIs`
  and `WithoutIs` say what an appended line and a compaction do to the replay,
  `RecentIs` that each position of the list has one entry and each entry a position,
  for which an order must be total on the entries (`OrderHits`).
- `TheShownIsForgotten`: `ForgetsTheOneShown`, of every step.

  The log at the start may hold what it likes, tombstones included, as long as it is a log
  (`IsLog`: lines of the two types, uses with a time).

`CopiesHoldBystanders`, `NoWayBack`, `CopyIsCurrent` and `OneMayConfirm` can be checked
by TLC in the log runs and in `send`.

Only model-checked:

- `Returns`, `WaitEnds` and `EveryRequestAnswered`: liveness under fairness is beyond the
  prover.
- `TakenAsChecked` of `SendPlan`, which is about what five chains make of a transaction
  when it lands, accounts of a message merged and sorted first.
- `PaidOnce` of `CoinSend`, which holds because of the order coins are tried in and only
  while what arrives stands behind what is there; with coins of one value it is false
  (second table of section 3). A proof would have to take that order as a hypothesis
  about every listing.
- `WholeAtRest` of `StoreLog`, and every other property of the tables of section 3 outside
  the cases in which it is violated.

## 5. Not modelled, and why

- Curves, hashes, checksums, word lists, RLP, CBOR, SCALE and the other wire encodings,
  and the zero-knowledge proof of a Midnight spend: functions without state, covered by
  the test vectors of the repository. What depends on their *lengths* (fees) is in
  `CoinSelection`; what depends on what they tell apart (networks, keys) is in
  `Catalogue` and `Keys`.
- Fixed widths: amounts are unbounded integers. The 256-bit arithmetic of EVM and the
  overflow checks of the other chains are refusals that no property here is about.
- `--nonce`, `--data` and gas-price overrides of the EVM commands, which let a user
  replace a transaction; the nonce is always the node's. `erc20` approve and allowance.
- Reorganisations, and evicted transactions that other nodes bring back. Solana's
  blockhash expiry is in `AccountTx` and `SendPlan`, not under the retries of `Transfer`.
- The replays of `accounts.jsonl`, `config.jsonl` and `history.jsonl` are maps from key
  to the last line of it; only that of `recent.jsonl` is modelled line by line. The
  replay of Midnight's unshielded outputs is the set of coins it comes to.
- `account import-file`, `airdrop` and `config set` of keys other than those named;
  `airdrop` is in `Gui` by what the window sees of it.
- Of the window: the list of wallets and its search, creating and importing wallets, the
  dialogs that write files, login, chains other than the one in view. Of the terminal
  UI: drawing, and the text of the panes.
- Argument parsing, which is declarative, and the Lua, Python and C bindings, which pass
  a command on and keep nothing.
- Directory creation and the modes of the logs. A failure of `set_private` after the
  rename of a compaction reports an error for a removal that was done.

## 6. Plan

Done, in this order: the log and its contract (`StoreLog`, `RecordSet`), accounts and
position (`Wallet`), a payment (`Transfer`), recall (`Recall`), the terminal UI (`Tui`,
`Pane`), coin selection and dust (`CoinSelection`, `DustSync`, `CoinSend`), a command
from words to report (`Catalogue`, `AccountTx`, `SendPlan`), the window (`Gui`), keys and
files (`Keys`, `Export`, `Identity`); proofs about all that
have a run of their own.

What would add most next:

1. The replays as functions on sequences of lines: that a removal by rewriting equals
   one by tombstone; lines that are malformed, of another schema, or repeated.
2. An abstract specification that `Tui` and `Gui` both implement: nothing is sent that
   was not shown and confirmed; `PaysWhoWasAgreed` and `ConfirmsWhatWasTyped` are its
   two halves.
3. The window's list of wallets and its dialogs.
4. Proofs of `TakenAsChecked` of `SendPlan`, and of `PaidOnce` of `CoinSend`, which needs
   the order coins are taken in as its invariant.
