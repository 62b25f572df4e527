------------------------------ MODULE Wallet -------------------------------
(***************************************************************************)
(* The accounts a wallet home holds and the position the wallet is at: the *)
(* active account, the selected network, and what each chain remembers of  *)
(* both.  Commands of rustcli/core/src/app.rs run over them, in several    *)
(* processes at once; a process may die between any two store operations.  *)
(*                                                                         *)
(* A command is the list of store operations it still has to do, in the    *)
(* order the code does them (todo).  One step does the first one: it reads *)
(* the folded logs, or appends one line, and may put further operations    *)
(* in its place.  StoreLog says what an append and a compaction are made   *)
(* of; here each is one step.                                              *)
(***************************************************************************)
EXTENDS Naturals, Sequences, FiniteSets, SequencesExt

CONSTANTS
  Handle,          \* processes running commands
  ChainList,       \* the chains, in the order --all-chains visits them
  Network,         \* the networks
  ChainOfNetwork,  \* [Network -> its chain]
  DefaultOn,       \* [chain -> its default network]
  DefaultNetwork,  \* the network of a wallet that never chose one
  Phrase,          \* mnemonics
  Key,             \* private keys a user may import
  Lower,           \* [what a label starts with -> the same in lower case]
  Settings,        \* the ways a home is used, see Setting
  MaxCommands,     \* bound: commands ever started
  Unset            \* no value

Chain == Range(ChainList)

ASSUME WalletConstants ==
  /\ IsFiniteSet(Handle)
  /\ ChainList \in Seq(Chain)
  /\ ChainOfNetwork \in [Network -> Chain]
  /\ DefaultOn \in [Chain -> Network]
  /\ \A c \in Chain : ChainOfNetwork[DefaultOn[c]] = c
  /\ DefaultNetwork \in Network
  /\ MaxCommands \in Nat
  /\ Unset \notin Network \cup Nat
  /\ Phrase \cap Key = {}
  /\ \A s \in Settings : s.handles \subseteq Handle /\ s.index \subseteq Nat

VARIABLES
  setting,   \* how this home is used; it never changes
  accounts,  \* the replay of accounts.jsonl: accounts in creation order
  config,    \* the replay of config.jsonl: [ConfigKey -> value or Unset]
  todo,      \* [Handle -> the store operations its command has left]
  recall,    \* the secrets recent.jsonl remembers
  made,      \* the number of accounts ever created; numbers the ids
  started,   \* the number of commands started so far
  alone,     \* [Handle -> no other command has run beside its command]
  settled    \* the last thing that happened is a move that ran alone

vars == <<setting, accounts, config, todo, recall, made, started, alone, settled>>

(* A setting: the processes that run commands (handles), the kinds of      *)
(* command and option they use (commands), the indexes and labels users    *)
(* name, whether a process may die in the middle of a command (crash), and *)
(* a bound on the accounts ever created (accounts).  In an orderly one     *)
(* commands run one at a time to their end, nothing is removed, and no     *)
(* phrase has a passphrase.                                                *)
Orderly ==
  /\ Cardinality(setting.handles) = 1
  /\ ~setting.crash
  /\ setting.commands \cap {"remove", "--passphrase"} = {}

(* The keys of config.jsonl this module knows.  The unqualified ones hold  *)
(* the position, the qualified ones what each chain falls back to.         *)
Active == <<"active_account">>
ActiveOnKey(c) == <<"active_account", c>>
Selected == <<"network">>
SelectedOnKey(c) == <<"network", c>>
ConfigKey == {Active, Selected} \cup {ActiveOnKey(c) : c \in Chain}
                                \cup {SelectedOnKey(c) : c \in Chain}

Ids == {accounts[i].id : i \in DOMAIN accounts}
AccountOf(id) == CHOOSE a \in Range(accounts) : a.id = id
Idle(h) == todo[h] = <<>>

Init ==
  /\ setting \in Settings
  /\ accounts = <<>>
  /\ config = [k \in ConfigKey |-> Unset]
  /\ todo = [h \in Handle |-> <<>>]
  /\ recall = {}
  /\ made = 0
  /\ started = 0
  /\ alone = [h \in Handle |-> FALSE]
  /\ settled = FALSE

----------------------------------------------------------------------------
(* What the store answers.                                                 *)

(* Where in creation order the accounts on chain c are.                    *)
AccountsOn(c) == {i \in DOMAIN accounts : accounts[i].chain = c}

(* The active account: a pointer to a removed account falls back to the    *)
(* first one.                                                              *)
ActiveAccount ==
  IF accounts = <<>> THEN Unset
  ELSE IF config[Active] \in Ids THEN config[Active]
  ELSE accounts[1].id

(* The account a command on chain c acts on when none is named.            *)
ActiveAccountOn(c) ==
  LET ids == {accounts[i].id : i \in AccountsOn(c)} IN
  IF ActiveAccount \in ids THEN ActiveAccount
  ELSE IF ids = {} THEN Unset
  ELSE IF config[ActiveOnKey(c)] \in ids THEN config[ActiveOnKey(c)]
  ELSE accounts[Min(AccountsOn(c))].id

SelectedNetwork ==
  IF config[Selected] = Unset THEN DefaultNetwork ELSE config[Selected]

NetworkOn(c) ==
  LET names(k) == config[k] # Unset /\ ChainOfNetwork[config[k]] = c IN
  IF names(SelectedOnKey(c)) THEN config[SelectedOnKey(c)]
  ELSE IF names(Selected) THEN config[Selected]
  ELSE DefaultOn[c]

(* The indexes the phrase has on the chain.                                *)
IndexesOf(p, c) ==
  {a.index : a \in {b \in Range(accounts) : b.source = p /\ b.chain = c}}

(* Slip: the last index taken instead of the one after it.                 *)
LastAddressIndex(p, c) ==
  IF IndexesOf(p, c) = {} THEN 0
  ELSE Max(IndexesOf(p, c))

(* One past the highest index the phrase has on the chain.                 *)
NextAddressIndex(p, c) ==
  IF IndexesOf(p, c) = {} THEN 0
  ELSE Max(IndexesOf(p, c)) + 1

(* The phrase new addresses come from: the active account's, else the      *)
(* first one in the wallet.                                                *)
CurrentSeed ==
  LET withPhrase == {i \in DOMAIN accounts : accounts[i].source \in Phrase} IN
  IF ActiveAccount # Unset /\ AccountOf(ActiveAccount).source \in Phrase
    THEN AccountOf(ActiveAccount).source
  ELSE IF withPhrase # {} THEN accounts[Min(withPhrase)].source
  ELSE Unset

(* Labels are compared without regard to case.                             *)
SameLabel(l, m) == [l EXCEPT ![1] = Lower[@]] = [m EXCEPT ![1] = Lower[@]]
Taken(l) == \E a \in Range(accounts) : SameLabel(a.label, l)

(* The name of an account nobody named: after its index and chain, else    *)
(* the first free number.                                                  *)
NextFreeLabel(i, c) ==
  LET preferred == <<"account", i, c>>
      numbered(n) == <<"account", n>>
  IN  IF i # Unset /\ ~Taken(preferred) THEN preferred
      ELSE numbered(CHOOSE n \in 1 .. setting.accounts + 1 :
             /\ ~Taken(numbered(n))
             /\ \A m \in 1 .. n - 1 : Taken(numbered(m)))

(* The accounts a move to chain c owes the wallets that have none there: a *)
(* phrase and index no account on c has, from an account the phrase alone  *)
(* derives (not one made with a passphrase), once each, in order: a set    *)
(* that holds just the one sequence of them.                               *)
SameWallet(a, b) == a.source = b.source /\ a.index = b.index
InTurn(S) ==
  {f \in [1 .. Cardinality(S) -> S] :
     Range(f) = S /\ \A m, n \in DOMAIN f : m < n => f[m] < f[n]}
Derivable(c, i) ==
  /\ accounts[i].source \in Phrase /\ accounts[i].plain
  /\ ~\E b \in Range(accounts) : b.chain = c /\ SameWallet(b, accounts[i])
Owed(c) ==
  {i \in DOMAIN accounts :
     /\ Derivable(c, i)
     /\ ~\E j \in 1 .. i - 1 :
          Derivable(c, j) /\ SameWallet(accounts[i], accounts[j])}
Missing(c) ==
  {[n \in DOMAIN f |-> accounts[f[n]]] : f \in InTurn(Owed(c))}

----------------------------------------------------------------------------
(* Store operations, and the lists of them commands are made of.           *)

Set(k, v) == [op |-> "set", key |-> k, value |-> v, settles |-> FALSE]

(* activate: the account becomes the active one, overall and on its chain, *)
(* and the chain's network the selected one.                               *)
Activate(id, c, settles) ==
  <<Set(Active, id), Set(ActiveOnKey(c), id),
    [op |-> "follow", chain |-> c, settles |-> settles]>>

(* create_wallet, for one chain: an index if the caller named none, a      *)
(* label, the record, and the first account's activation.                  *)
Create(c, source, plain, index, next, label) ==
  [op |-> IF next THEN "index" ELSE "create", chain |-> c, source |-> source,
   plain |-> plain, index |-> index, next |-> next, named |-> ~next,
   label |-> label, first |-> TRUE]

(* derive_missing_on: the account on chain c of a's wallet.                *)
Face(c, a) ==
  [op |-> "create", chain |-> c, source |-> a.source, plain |-> TRUE,
   index |-> a.index, next |-> FALSE, named |-> FALSE, label |-> Unset,
   first |-> FALSE]

(* create_wallet: one account per chain, then the recall entry.  A label   *)
(* for several chains gets each chain's name.                              *)
CreateWallet(chains, source, plain, index, next, label) ==
  Append([i \in DOMAIN chains |->
            Create(chains[i], source, plain, index, next,
                   IF label = Unset \/ Len(chains) = 1 THEN label
                   ELSE Append(label, chains[i]))],
         [op |-> "remember", source |-> source])

(* A command starts with its operations to do.                             *)
Start(h, kind, ops) ==
  /\ Idle(h)
  /\ kind \in setting.commands
  /\ started < MaxCommands
  /\ started' = started + 1
  /\ todo' = [todo EXCEPT ![h] = ops]
  /\ alone' = [g \in Handle |-> g = h /\ \A f \in Handle \ {h} : Idle(f)]
  /\ settled' = FALSE
  /\ UNCHANGED <<accounts, config, recall, made>>

ChainChoice == {<<c>> : c \in Chain} \cup {ChainList}
LabelChoice == setting.label \cup {Unset}

(* A phrase nobody has seen yet.                                           *)
Fresh(p) ==
  /\ p \notin recall
  /\ \A a \in Range(accounts) : a.source # p
  /\ \A h \in Handle : [op |-> "remember", source |-> p] \notin Range(todo[h])

(* account new: the wallet's phrase continues, at the next index unless    *)
(* the user names one.  An empty wallet mints a phrase, and so does        *)
(* --new-seed.                                                             *)
AccountNew(h) ==
  \E p \in {q \in Phrase : Fresh(q)} \cup ({CurrentSeed} \ {Unset}),
     chains \in ChainChoice, l \in LabelChoice,
     i \in setting.index \cup {Unset} :
    /\ i = Unset \/ "--index" \in setting.commands
    /\ Start(h, "new", CreateWallet(chains, p, TRUE, i, i = Unset, l))

(* account import-mnemonic: at an index, with a passphrase or without.     *)
AccountImportMnemonic(h) ==
  \E p \in Phrase, i \in setting.index, l \in LabelChoice, plain \in BOOLEAN :
    \E chains \in ChainChoice :
      /\ plain \/ "--passphrase" \in setting.commands
      /\ Start(h, "import", CreateWallet(chains, p, plain, i, FALSE, l))

(* account import-key: no index, and a label by number.                    *)
AccountImportKey(h) ==
  \E k \in Key, c \in Chain, l \in LabelChoice :
    Start(h, "import_key", CreateWallet(<<c>>, k, TRUE, Unset, FALSE, l))

(* account derive: another index of an account's phrase, refused when the  *)
(* phrase alone does not give that account.                                *)
AccountDerive(h) ==
  \E a \in Range(accounts), i \in setting.index, l \in LabelChoice :
    \E chains \in {<<a.chain>>, ChainList} :
      /\ a.source \in Phrase /\ a.plain
      /\ Start(h, "derive", CreateWallet(chains, a.source, TRUE, i, FALSE, l))

AccountUse(h) ==
  \E a \in Range(accounts) : Start(h, "use", Activate(a.id, a.chain, TRUE))

AccountRename(h) ==
  \E a \in Range(accounts), l \in setting.label :
    Start(h, "rename", <<[op |-> "rename", id |-> a.id, label |-> l]>>)

AccountRemove(h) ==
  \E a \in Range(accounts) :
    Start(h, "remove", <<[op |-> "remove", id |-> a.id]>>)

(* network use: the network is selected, every wallet gets an account on   *)
(* its chain, and the chain's account becomes the active one.              *)
NetworkUse(h) ==
  \E n \in Network :
    LET c == ChainOfNetwork[n] IN
    Start(h, "network", <<Set(Selected, n), Set(SelectedOnKey(c), n),
                          [op |-> "missing", chain |-> c],
                          [op |-> "adopt", chain |-> c]>>)

----------------------------------------------------------------------------
(* One store operation of a command.                                       *)

Doing(h, op) == ~Idle(h) /\ Head(todo[h]).op = op
Continue(h, ops) == todo' = [todo EXCEPT ![h] = ops \o Tail(@)]

(* config_set.                                                             *)
DoSet(h) ==
  /\ Doing(h, "set")
  /\ config' = [config EXCEPT ![Head(todo[h]).key] = Head(todo[h]).value]
  /\ settled' = (Head(todo[h]).settles /\ alone[h])
  /\ Continue(h, <<>>)
  /\ UNCHANGED <<accounts, recall, made, started, alone>>

(* Slip: the overall selection is left as it was.                          *)
DoFollowOnChainOnly(h) ==
  /\ Doing(h, "follow")
  /\ LET n == NetworkOn(Head(todo[h]).chain) IN
       Continue(h, <<[Set(SelectedOnKey(ChainOfNetwork[n]), n)
                        EXCEPT !.settles = Head(todo[h]).settles]>>)
  /\ UNCHANGED <<accounts, config, recall, made, started, alone, settled>>

(* activate, second half: the chain's network is read, then selected.      *)
DoFollow(h) ==
  /\ Doing(h, "follow")
  /\ LET n == NetworkOn(Head(todo[h]).chain) IN
       Continue(h, <<Set(Selected, n),
                     [Set(SelectedOnKey(ChainOfNetwork[n]), n)
                        EXCEPT !.settles = Head(todo[h]).settles]>>)
  /\ UNCHANGED <<accounts, config, recall, made, started, alone, settled>>

(* next_address_index.                                                     *)
DoIndex(h) ==
  /\ Doing(h, "index")
  /\ LET o == Head(todo[h]) IN
       Continue(h, <<[o EXCEPT !.op = "create",
                               !.index = NextAddressIndex(o.source, o.chain)]>>)
  /\ UNCHANGED <<accounts, config, recall, made, started, alone, settled>>

(* create_account: the label is checked, or chosen; one that is taken      *)
(* fails the command, with the accounts made before it in place.           *)
DoCreate(h) ==
  /\ Doing(h, "create")
  /\ LET o == Head(todo[h]) IN
       IF o.label # Unset /\ Taken(o.label)
         THEN todo' = [todo EXCEPT ![h] = <<>>]
         ELSE Continue(h, <<[o EXCEPT !.op = "append", !.label =
                               IF @ # Unset THEN @
                               ELSE NextFreeLabel(o.index, o.chain)]>>)
  /\ UNCHANGED <<accounts, config, recall, made, started, alone, settled>>

(* create_account: the record is appended.                                 *)
DoAppend(h) ==
  /\ Doing(h, "append")
  /\ made < setting.accounts
  /\ made' = made + 1
  /\ LET o == Head(todo[h]) IN
       /\ accounts' = Append(accounts,
            [id |-> made', label |-> o.label, chain |-> o.chain,
             source |-> o.source, plain |-> o.plain, index |-> o.index,
             named |-> o.named])
       /\ Continue(h, IF ~o.first THEN <<>>
                      ELSE <<[op |-> "first", id |-> made', chain |-> o.chain]>>)
  /\ UNCHANGED <<config, recall, started, alone, settled>>

(* activate_if_first.                                                      *)
DoActivateIfFirst(h) ==
  /\ Doing(h, "first")
  /\ LET o == Head(todo[h]) IN
       Continue(h, IF Len(accounts) = 1 THEN Activate(o.id, o.chain, FALSE)
                   ELSE <<>>)
  /\ UNCHANGED <<accounts, config, recall, made, started, alone, settled>>

(* remember_secret, remember_mnemonic.                                     *)
DoRemember(h) ==
  /\ Doing(h, "remember")
  /\ recall' = recall \cup {Head(todo[h]).source}
  /\ Continue(h, <<>>)
  /\ UNCHANGED <<accounts, config, made, started, alone, settled>>

(* rename_account: the label is checked against every other account.       *)
DoRename(h) ==
  /\ Doing(h, "rename")
  /\ LET o == Head(todo[h]) IN
       IF \E a \in Range(accounts) : a.id # o.id /\ SameLabel(a.label, o.label)
         THEN todo' = [todo EXCEPT ![h] = <<>>]
         ELSE Continue(h, <<[o EXCEPT !.op = "relabel"]>>)
  /\ UNCHANGED <<accounts, config, recall, made, started, alone, settled>>

(* rename_account: the record is appended.  The replay ignores it when the *)
(* account is gone.                                                        *)
DoRelabel(h) ==
  /\ Doing(h, "relabel")
  /\ LET o == Head(todo[h]) IN
       accounts' = [i \in DOMAIN accounts |->
                      IF accounts[i].id = o.id
                        THEN [accounts[i] EXCEPT !.label = o.label]
                        ELSE accounts[i]]
  /\ Continue(h, <<>>)
  /\ UNCHANGED <<config, recall, made, started, alone, settled>>

(* delete_account: the records go, then a pointer to them is looked for    *)
(* and moved to the first account left.                                    *)
DoRemove(h) ==
  /\ Doing(h, "remove")
  /\ LET o == Head(todo[h]) IN
       /\ accounts' =
            IF o.id \notin Ids THEN accounts
            ELSE RemoveAt(accounts,
                          CHOOSE i \in DOMAIN accounts : accounts[i].id = o.id)
       /\ Continue(h, <<[o EXCEPT !.op = "repoint"]>>)
  /\ UNCHANGED <<config, recall, made, started, alone, settled>>

DoRepoint(h) ==
  /\ Doing(h, "repoint")
  /\ Continue(h, IF config[Active] = Head(todo[h]).id
                   THEN <<[op |-> "fallback"]>> ELSE <<>>)
  /\ UNCHANGED <<accounts, config, recall, made, started, alone, settled>>

DoFallback(h) ==
  /\ Doing(h, "fallback")
  /\ Continue(h, <<Set(Active, IF accounts = <<>> THEN Unset
                               ELSE accounts[1].id)>>)
  /\ UNCHANGED <<accounts, config, recall, made, started, alone, settled>>

(* Slip: a chain with any account at all is taken to miss none.            *)
DoMissingIfNone(h) ==
  /\ Doing(h, "missing")
  /\ LET c == Head(todo[h]).chain IN
       \E owed \in IF AccountsOn(c) = {} THEN Missing(c) ELSE {<<>>} :
         Continue(h, [i \in DOMAIN owed |-> Face(c, owed[i])])
  /\ UNCHANGED <<accounts, config, recall, made, started, alone, settled>>

(* derive_missing_on: what is missing is worked out once, then created.    *)
DoMissing(h) ==
  /\ Doing(h, "missing")
  /\ LET c == Head(todo[h]).chain IN
       \E owed \in Missing(c) :
         Continue(h, [i \in DOMAIN owed |-> Face(c, owed[i])])
  /\ UNCHANGED <<accounts, config, recall, made, started, alone, settled>>

(* Slip: the network moves and the account stays.                          *)
DoAdoptNothing(h) ==
  /\ Doing(h, "adopt")
  /\ Continue(h, <<>>)
  /\ UNCHANGED <<accounts, config, recall, made, started, alone, settled>>

(* network use: the chain's account, if it has one, becomes the active one.*)
DoAdopt(h) ==
  /\ Doing(h, "adopt")
  /\ LET id == ActiveAccountOn(Head(todo[h]).chain) IN
       Continue(h, IF id = Unset THEN <<>>
                   ELSE <<[Set(Active, id) EXCEPT !.settles = TRUE]>>)
  /\ UNCHANGED <<accounts, config, recall, made, started, alone, settled>>

(* The process dies between two store operations.                          *)
Crash(h) ==
  /\ setting.crash
  /\ ~Idle(h)
  /\ todo' = [todo EXCEPT ![h] = <<>>]
  /\ UNCHANGED <<accounts, config, recall, made, started, alone, settled>>

Next ==
  /\ UNCHANGED setting
  /\ \E h \in setting.handles :
       \/ AccountNew(h) \/ AccountImportMnemonic(h) \/ AccountImportKey(h)
       \/ AccountDerive(h) \/ AccountUse(h) \/ AccountRename(h)
       \/ AccountRemove(h) \/ NetworkUse(h)
       \/ DoSet(h) \/ DoFollow(h) \/ DoIndex(h) \/ DoCreate(h) \/ DoAppend(h)
       \/ DoActivateIfFirst(h) \/ DoRemember(h) \/ DoRename(h) \/ DoRelabel(h)
       \/ DoRemove(h) \/ DoRepoint(h) \/ DoFallback(h) \/ DoMissing(h)
       \/ DoAdopt(h) \/ Crash(h)

Spec == Init /\ [][Next]_vars

----------------------------------------------------------------------------
(* Properties.                                                             *)

Quiet == \A h \in Handle : Idle(h)

TypeOK ==
  /\ \A a \in Range(accounts) : /\ a.id \in 1 .. made
                                /\ a.chain \in Chain
                                /\ a.source \in Phrase \cup Key
                                /\ a.source \in Key => a.index = Unset
  /\ DOMAIN config = ConfigKey
  /\ \A c \in Chain : config[SelectedOnKey(c)] \in Network \cup {Unset}
  /\ config[Selected] \in Network \cup {Unset}
  /\ recall \subseteq Phrase \cup Key
  /\ made \in 0 .. setting.accounts
  /\ started \in 0 .. MaxCommands

(* The two halves of the position agree: in an orderly wallet of phrases   *)
(* with no command in progress, the active account is on the chain of the  *)
(* selected network, if the wallet has an account there.  (activate,       *)
(* network use.)  A key imported on one chain has no account to give the   *)
(* chain the network moves to: an account made there later is not moved to.*)
OnePosition ==
  LET c == ChainOfNetwork[SelectedNetwork] IN
  Quiet /\ AccountsOn(c) # {} => AccountOf(ActiveAccount).chain = c
PositionAgrees ==
  Orderly /\ "import_key" \notin setting.commands => OnePosition

(* Whatever crashes, races and removals did to the position, one account   *)
(* use, or one network use that found an account, that runs undisturbed    *)
(* puts it right.                                                          *)
MoveRepairs ==
  settled => AccountOf(ActiveAccount).chain = ChainOfNetwork[SelectedNetwork]

(* No two accounts have labels that differ at most in case, if one command *)
(* runs at a time.                                                         *)
UniqueLabels ==
  \A i, j \in DOMAIN accounts :
    SameLabel(accounts[i].label, accounts[j].label) => i = j

(* An orderly wallet never gives an address twice: an account whose index  *)
(* the user did not name has a phrase, index and chain no earlier one has. *)
(* (next_address_index, derive_missing_on.)                                *)
NoTwins ==
  Orderly => \A j \in DOMAIN accounts :
    accounts[j].source \in Phrase /\ ~accounts[j].named =>
      \A i \in 1 .. j - 1 : ~ /\ accounts[i].chain = accounts[j].chain
                              /\ SameWallet(accounts[i], accounts[j])

(* When network use asks for the account of the chain it moved to, every   *)
(* wallet the phrase alone derives has its account there, if the wallet is *)
(* orderly.  (derive_missing_on.)                                          *)
FacesOfAll ==
  \A h \in Handle : Doing(h, "adopt") =>
    \A a \in Range(accounts) : a.source \in Phrase /\ a.plain =>
      \E b \in Range(accounts) : /\ b.chain = Head(todo[h]).chain
                                 /\ SameWallet(a, b) /\ b.plain
EveryWalletHasItsFace == Orderly => FacesOfAll

(* An index nobody named is the lowest the phrase has not taken there.     *)
IndexIsLowestFree ==
  \A h \in Handle : Doing(h, "create") /\ Head(todo[h]).next =>
    LET o == Head(todo[h]) IN
    0 .. o.index - 1 \subseteq IndexesOf(o.source, o.chain)

(* A new account continues the wallet its phrase comes from: the phrase of *)
(* a passphrase wallet is not used without the passphrase.  (account new,  *)
(* after current_seed.)                                                    *)
NewContinuesTheWallet ==
  \A h \in Handle : Doing(h, "create") /\ Head(todo[h]).next =>
    \A a \in Range(accounts) :
      a.id = ActiveAccount /\ a.source = Head(todo[h]).source => a.plain

(* A command that names neither a network nor a chain runs on the active   *)
(* account's chain.  (What resolve_chain_and_network says of itself.)      *)
FollowsTheAccount ==
  Quiet /\ accounts # <<>> =>
    ChainOfNetwork[SelectedNetwork] = AccountOf(ActiveAccount).chain

(* The key material of every account was remembered.                       *)
EverySecretRemembered ==
  Quiet => \A a \in Range(accounts) : a.source \in recall
============================================================================
