------------------------------ MODULE SendPlan ------------------------------
(***************************************************************************)
(* One command from its words to its report (app.rs): which network and    *)
(* account it means, which ceiling and endpoint hold, what the node        *)
(* answers, what the user is asked, what is recorded, sent and reported;   *)
(* while other processes change the configuration it reads on the way.     *)
(*                                                                         *)
(* Which transaction a retry makes is CoinSend's and Transfer's; here a    *)
(* transfer is submitted once.                                             *)
(***************************************************************************)
EXTENDS Catalogue, AccountTx

CONSTANTS Procs, Commands,
          MaxCommands,  \* commands run in a behaviour
          AccountOn,    \* chain -> the account active there
          Env,          \* network key -> endpoint the environment names, or None
          SubmitEnv,    \* the same of the endpoint to submit to
          Answers,      \* chain -> what a node of it may answer
          CoinFees      \* what a transfer may cost on a chain that spends coins

VARIABLES conf,     \* config.jsonl: [current, on, ceiling, endpoint]
          run,      \* process -> the command it runs and what it holds so far
          history,  \* transactions.jsonl
          sent,     \* what left for a node, and what became of it
          asked,    \* balances asked of a node: [net, of, own]
          left,     \* commands left
          most,     \* process -> network -> highest ceiling while it ran
          set       \* network -> the ceiling the user last asked for
vars == <<conf, run, history, sent, asked, left, most, set>>

NoFlag == -1
NoText == [n |-> 0, unit |-> None]
Nowhere == [read |-> <<None, None>>, submit |-> <<None, None>>]
Idle == [at |-> "idle"]

(* What is typed and what a node answers; `erc20` is modelled for the       *)
(* contracts the catalogue lists.                                           *)
Words == [do : STRING, net : STRING, chain : STRING, what : STRING, n : Nat, flag : Nat \cup {NoFlag},
          to : [shown : STRING, made : STRING, of : STRING], unit : STRING, url : STRING]
EvmSees == [nonce : Nat, price : Nat, gas : Nat, coin : Nat, held : Nat, scale : Nat \ {0},
            estimates : BOOLEAN]
SolSees == [hash : Nat, fee : Nat, coin : Nat, dest : Nat, held : Nat, exists : BOOLEAN, scale : Nat]
ASSUME PlanAssumption ==
  /\ Commands \subseteq Words
  /\ \A cmd \in Commands :
       /\ cmd.chain \in DOMAIN ChainWord \cup {None}
       /\ cmd.do = "erc20" => \E i \in DOMAIN Tokens : Tokens[i].id = cmd.what
  /\ "evm" \in Chains => Answers["evm"] \subseteq EvmSees
  /\ "solana" \in Chains => Answers["solana"] \subseteq SolSees
  /\ CoinFees \subseteq Nat /\ {PlainGas, FallbackGas, Rent, TokenRent} \subseteq Nat

(* --------------------------- reading config ----------------------------- *)
(* store.network, network_on: a chain's own key, then the wallet's if it   *)
(* names that chain, then the chain's default.                             *)
StoredNetwork == IF conf.current = None THEN Networks[1].key ELSE conf.current
NetworkOn(chain) ==
  IF conf.on[chain] # None /\ Net(conf.on[chain]).chain = chain THEN conf.on[chain]
  ELSE IF conf.current # None /\ Net(conf.current).chain = chain THEN conf.current
  ELSE DefaultFor(chain)

(* resolve_chain_and_network: what --network and --chain name, else what   *)
(* is stored.                                                              *)
Named(cmd) == IF cmd.chain # None THEN FindFor(ChainWord[cmd.chain], cmd.net) ELSE Find(cmd.net)
Resolve(cmd) == IF cmd.net # None THEN Named(cmd)
                ELSE IF cmd.chain # None THEN NetworkOn(ChainWord[cmd.chain])
                ELSE StoredNetwork

(* fee_ceiling_on: the flag; what is stored, if it reads as a fee of that  *)
(* network and is not 0; the built-in one.                                 *)
StoredCeiling(key) == LET fee == ParseFee(conf.ceiling[key], Net(key).feeUnit)
                      IN  IF fee > 0 THEN fee ELSE Net(key).maxFee
CeilingHere(key, flag) == IF flag = NoFlag THEN StoredCeiling(StoredNetwork)
                          ELSE Parse(flag, Net(key).feeUnit)
CeilingOn(key, flag) == IF flag = NoFlag THEN StoredCeiling(key)
                        ELSE Parse(flag, Net(key).feeUnit)

(* The store keeps an address as the chain's default network writes it;    *)
(* address_for writes it as another network does.                          *)
StoredAddress(key, account) == Written(Net(DefaultFor(Net(key).chain)), account)
AddressFor(key, account) == Written(Net(key), account)

Goto(p, r) == run' = [run EXCEPT ![p] = r]
End(p) == Goto(p, Idle)
At(p, at) == run[p].at = at
Does(p, does) == run[p].at = "open" /\ run[p].cmd.do \in does

(* ------------------------------ commands -------------------------------- *)
(* App::new: the network is settled once, for the whole command.           *)
Open(p) ==
  /\ At(p, "idle") /\ left > 0 /\ left' = left - 1
  /\ \E cmd \in Commands :
       Goto(p, IF Resolve(cmd) = None THEN Idle
               ELSE [at |-> "open", cmd |-> cmd, net |-> Resolve(cmd)])
  /\ most' = [most EXCEPT ![p] = [k \in NetKeys |-> StoredCeiling(k)]]
  /\ UNCHANGED <<conf, history, sent, asked, set>>

Target(p) == FindHere(Net(run[p].net).chain, run[p].cmd.what)

(* `network use`: the wallet's network, then that chain's own.             *)
Use(p) ==
  /\ Does(p, {"use"})
  /\ IF Target(p) = None THEN End(p) /\ UNCHANGED conf
     ELSE /\ conf' = [conf EXCEPT !.current = Target(p)]
          /\ Goto(p, [run[p] EXCEPT !.at = "using"])
  /\ UNCHANGED <<history, sent, asked, left, most, set>>
UseOnChain(p) ==
  /\ At(p, "using") /\ End(p)
  /\ conf' = [conf EXCEPT !.on[Net(Target(p)).chain] = Target(p)]
  /\ UNCHANGED <<history, sent, asked, left, most, set>>

(* `network set-max-fee`: stored with its denomination, whatever was typed. *)
CeilingText(key, fee) == FormatFee(fee, Net(key).feeUnit)
SetCeiling(p) ==
  /\ Does(p, {"ceiling"}) /\ End(p)
  /\ LET key == Target(p)
         fee == ParseFee([n |-> run[p].cmd.n, unit |-> run[p].cmd.unit], Net(key).feeUnit)
     IN  IF key = None \/ fee = Bad THEN UNCHANGED <<conf, most, set>>
         ELSE /\ conf' = [conf EXCEPT !.ceiling[key] = CeilingText(key, fee)]
              /\ set' = [set EXCEPT ![key] = IF fee = 0 THEN Net(key).maxFee ELSE fee]
              /\ most' = [q \in Procs |-> [most[q] EXCEPT ![key] =
                            IF set'[key] > @ THEN set'[key] ELSE @]]
  /\ UNCHANGED <<history, sent, asked, left>>

(* `network set-rpc`.                                                      *)
SetRpc(p) ==
  /\ Does(p, {"rpc"}) /\ End(p)
  /\ IF Target(p) = None THEN UNCHANGED conf
     ELSE conf' = [conf EXCEPT !.endpoint[Target(p)] = run[p].cmd.url]
  /\ UNCHANGED <<history, sent, asked, left, most, set>>

(* pick_address: an address on the command line is the one asked about, if *)
(* it is one of the network asked; else an account of the wallet's own.    *)
GivesAddress(cmd) == cmd.to.of # None
Given(key, cmd) == IF CheckAddress(Net(key), cmd.to)
                   THEN {[net |-> key, of |-> cmd.to, own |-> FALSE]} ELSE {}
Own(key, address) == {[net |-> key, of |-> address, own |-> TRUE]}

(* `balance`: the account's address on this network, or the one given.     *)
Balance(p) ==
  /\ Does(p, {"balance"}) /\ End(p)
  /\ LET key == run[p].net
     IN  asked' = asked \cup
           IF GivesAddress(run[p].cmd) THEN Given(key, run[p].cmd)
           ELSE Own(key, AddressFor(key, AccountOn[Net(key).chain]))
  /\ UNCHANGED <<conf, history, sent, left, most, set>>
(* `balance --all`: each chain's account on its own network.               *)
Balances(p) ==
  /\ Does(p, {"balances"}) /\ End(p)
  /\ asked' = asked \cup UNION {Own(NetworkOn(c), AddressFor(NetworkOn(c), AccountOn[c])) : c \in Chains}
  /\ UNCHANGED <<conf, history, sent, left, most, set>>
(* `token balance`: the address on record, or the one given, on the        *)
(* token's network.                                                        *)
TokenBalance(p) ==
  /\ Does(p, {"tokenBalance"}) /\ End(p)
  /\ LET t   == FindToken(run[p].net, run[p].cmd.what)
         key == Token(t).net
     IN  asked' = asked \cup
           IF t = None THEN {}
           ELSE IF GivesAddress(run[p].cmd) THEN Given(key, run[p].cmd)
           ELSE Own(key, StoredAddress(key, AccountOn[Net(key).chain]))
  /\ UNCHANGED <<conf, history, sent, left, most, set>>

(* ------------------------------- sends ---------------------------------- *)
AmountInCoin(r) == Net(r.net).unit
AmountUnits(r) == IF r.token = None THEN Net(r.net).unit ELSE Token(r.token).unit

(* plan_send, plan_token_send, erc20 send: account, address and amount.    *)
(* A token settles the network; `erc20` runs where the wallet is, by       *)
(* contract, and cannot read its amount before it has asked the contract.  *)
Pick(p) ==
  /\ Does(p, {"send", "token", "erc20"})
  /\ LET cmd  == run[p].cmd
         word == CASE cmd.do = "send" -> None
                   [] cmd.do = "token" -> FindToken(run[p].net, cmd.what)
                   [] OTHER -> TokenById(cmd.what).key
         net  == IF cmd.do = "token" /\ word # None THEN Token(word).net ELSE run[p].net
         r    == [at |-> "picked", cmd |-> cmd, net |-> net, token |-> word,
                  acct |-> AccountOn[Net(net).chain], raw |-> 0, unit |-> NoText, limit |-> NoFlag,
                  node |-> Nowhere, tx |-> Refuse, see |-> Refuse]
         unit == AmountUnits(r)
     IN  IF \/ cmd.do = "token" /\ (word = None \/ ~Token(word).movable)
            \/ cmd.do = "erc20" /\ (Net(net).chain # "evm" \/ Token(word).net # net)
            \/ ~CheckAddress(Net(net), cmd.to)
            \/ cmd.to.of = r.acct
            \/ cmd.do # "erc20" /\ Parse(cmd.n, unit) = Bad
         THEN End(p)
         ELSE Goto(p, IF cmd.do = "erc20" THEN r
                      ELSE [r EXCEPT !.raw = Parse(cmd.n, unit), !.unit = unit])
  /\ UNCHANGED <<conf, history, sent, asked, left, most, set>>

Cap(p) ==
  /\ At(p, "picked")
  /\ LET r == run[p]
         limit == IF r.cmd.do = "erc20" THEN Net(r.net).maxFee ELSE CeilingOn(r.net, r.cmd.flag)
     IN  IF limit = Bad THEN End(p)
         ELSE Goto(p, [r EXCEPT !.at = "capped", !.limit = limit])
  /\ UNCHANGED <<conf, history, sent, asked, left, most, set>>

(* client_config: where a chain is read and where its transfers go.  No    *)
(* command stores a `submit.` endpoint, so the environment and the default *)
(* settle that one; only a network with a default of its own uses it.      *)
NodeFor(key) == Endpoint(key, Env[key], conf.endpoint[key])
SubmitFor(key) == Endpoint(key, IF Net(key).submits THEN SubmitEnv[key] ELSE Env[key], None)
ClientConfig(key) == [read |-> NodeFor(key), submit |-> SubmitFor(key)]
SubmitsTo(r) == IF Net(r.net).submits THEN r.node.submit ELSE r.node.read
ConnectHere(p) ==
  /\ At(p, "capped")
  /\ Goto(p, [run[p] EXCEPT !.at = "connected", !.node = ClientConfig(StoredNetwork)])
  /\ UNCHANGED <<conf, history, sent, asked, left, most, set>>
Connect(p) ==
  /\ At(p, "capped")
  /\ Goto(p, [run[p] EXCEPT !.at = "connected", !.node = ClientConfig(run[p].net)])
  /\ UNCHANGED <<conf, history, sent, asked, left, most, set>>

(* `erc20 send` counts in the decimals the contract gives, whatever the    *)
(* catalogue says of it.                                                   *)
Decimals(p) ==
  /\ At(p, "connected") /\ run[p].cmd.do = "erc20"
  /\ \E see \in Answers[Net(run[p].net).chain] :
       LET unit == Unit(see.scale, Token(run[p].token).unit.symbol)
           raw  == Parse(run[p].cmd.n, unit)
       IN  IF raw = Bad THEN End(p)
           ELSE Goto(p, [run[p] EXCEPT !.at = "counted", !.raw = raw, !.unit = unit])
  /\ UNCHANGED <<conf, history, sent, asked, left, most, set>>

CoinPlan(value, limit) == [ok : {TRUE}, value : {value}, token : {0},
                           fee : {f \in CoinFees : f <= limit}]
Plans(r, see) ==
  LET chain == Net(r.net).chain
  IN  CASE chain = "evm" /\ r.cmd.do = "erc20" -> {ErcPrepare(r.raw, r.limit, see)}
        [] chain = "evm" /\ r.cmd.do = "token" ->
             {EvmToken(r.raw, Token(r.token).unit.scale, r.limit, see)}
        [] chain = "evm" /\ r.cmd.do = "send" -> {EvmPrepare(r.raw, FALSE, r.limit, see)}
        [] chain = "solana" /\ r.cmd.do = "token" ->
             {SolToken(r.raw, Token(r.token).unit.scale, r.limit, see)}
        [] chain = "solana" /\ r.cmd.do = "send" -> {SolPrepare(r.raw, r.limit, see)}
        [] OTHER -> CoinPlan(r.raw, r.limit) \cup {Refuse}

(* prepare_transfer: everything is checked and signed; nothing has left.   *)
Prepare(p) ==
  /\ At(p, IF run[p].at # "idle" /\ run[p].cmd.do = "erc20" THEN "counted" ELSE "connected")
  /\ \E see \in Answers[Net(run[p].net).chain] : \E tx \in Plans(run[p], see) :
       IF tx.ok THEN Goto(p, [run[p] EXCEPT !.at = "planned", !.tx = tx, !.see = see])
       ELSE End(p)
  /\ UNCHANGED <<conf, history, sent, asked, left, most, set>>

(* A dry run and a no end it; a yes is to the sentence, which is the plan. *)
Drop(p) == /\ At(p, "planned") /\ End(p)
           /\ UNCHANGED <<conf, history, sent, asked, left, most, set>>
Agree(p) ==
  /\ At(p, "planned")
  /\ Goto(p, [run[p] EXCEPT !.at = IF run[p].cmd.do = "erc20" THEN "recorded" ELSE "agreed"])
  /\ UNCHANGED <<conf, history, sent, asked, left, most, set>>

RecordOf(r, status) ==
  [net |-> r.net, from |-> r.acct, to |-> r.cmd.to, raw |-> r.raw, status |-> status,
   value |-> Format(r.raw, r.unit),
   token |-> IF r.token = None THEN None ELSE Token(r.token).id]

(* execute_send: recorded under the plan's network, in the amount's units. *)
RecordInCoin(p) ==
  /\ At(p, "agreed")
  /\ history' = history \cup {[RecordOf(run[p], "submitting") EXCEPT
                                 !.value = Format(run[p].raw, AmountInCoin(run[p]))]}
  /\ Goto(p, [run[p] EXCEPT !.at = "recorded"])
  /\ UNCHANGED <<conf, sent, asked, left, most, set>>
Record(p) ==
  /\ At(p, "agreed")
  /\ history' = history \cup {RecordOf(run[p], "submitting")}
  /\ Goto(p, [run[p] EXCEPT !.at = "recorded"])
  /\ UNCHANGED <<conf, sent, asked, left, most, set>>

(* Submitted to SubmitsTo; `erc20` records only now.                       *)
Pending == [taken |-> FALSE, landed |-> FALSE]
Submit(p) ==
  /\ At(p, "recorded")
  /\ \E accepted \in BOOLEAN :
       LET r == run[p]
           was == RecordOf(r, "submitting")
           status == IF accepted THEN "submitted" ELSE "unconfirmed"
       IN  /\ sent' = IF ~accepted THEN sent ELSE sent \cup
                 {[r |-> r, within |-> most[p][r.net], end |-> Pending]}
           /\ history' = IF r.cmd.do # "erc20" THEN (history \ {was}) \cup {RecordOf(r, status)}
                         ELSE IF accepted THEN history \cup {RecordOf(r, status)} ELSE history
           /\ IF accepted THEN Goto(p, [run[p] EXCEPT !.at = "submitted"]) ELSE End(p)
  /\ UNCHANGED <<conf, asked, left, most, set>>

(* finish_send: the report is in the units of the network on record.       *)
Report(p) == [n |-> Format(run[p].raw, Net(run[p].net).unit), symbol |-> Net(run[p].net).unit.symbol]
Finish(p) == /\ At(p, "submitted") /\ End(p)
             /\ UNCHANGED <<conf, history, sent, asked, left, most, set>>

(* External: the chain takes it or not, as it finds the account by then.   *)
Land(s) ==
  /\ s \in sent /\ s.end = Pending /\ Net(s.r.net).chain \in {"evm", "solana"}
  /\ \E now \in Answers[Net(s.r.net).chain] :
       LET end == IF Net(s.r.net).chain = "evm" THEN EvmLand(s.r.tx, now) ELSE SolLand(s.r.tx, now)
       IN  sent' = (sent \ {s}) \cup
             {[s EXCEPT !.end = [landed |-> TRUE, calm |-> now = s.r.see, taken |-> end.taken,
                                 paid |-> end.paid, coin |-> end.coin, token |-> end.token]]}
  /\ UNCHANGED <<conf, run, history, asked, left, most, set>>

Init ==
  /\ conf = [current |-> None, on |-> [c \in Chains |-> None],
             ceiling |-> [k \in NetKeys |-> NoText], endpoint |-> [k \in NetKeys |-> None]]
  /\ run = [p \in Procs |-> Idle]
  /\ history = {} /\ sent = {} /\ asked = {} /\ left = MaxCommands
  /\ most = [p \in Procs |-> [k \in NetKeys |-> 0]]
  /\ set = [k \in NetKeys |-> 0]

Step(p) == \/ Open(p) \/ Use(p) \/ UseOnChain(p) \/ SetCeiling(p) \/ SetRpc(p)
           \/ Balance(p) \/ Balances(p) \/ TokenBalance(p)
           \/ Pick(p) \/ Cap(p) \/ Connect(p) \/ Decimals(p) \/ Prepare(p) \/ Drop(p) \/ Agree(p)
           \/ Record(p) \/ Submit(p) \/ Finish(p)
Next == (\E p \in Procs : Step(p)) \/ (\E s \in sent : Land(s))
Spec == Init /\ [][Next]_vars

(* ------------------------------ properties ------------------------------ *)
(* What the configuration and a running command may hold: a chain's own    *)
(* network key names a network of that chain, and a command that has       *)
(* settled its network never leaves that chain's account.                  *)
TypeOK ==
  /\ conf.current \in NetKeys \cup {None}
  /\ \A c \in Chains : conf.on[c] = None \/ Net(conf.on[c]).chain = c
  /\ \A p \in Procs : At(p, "idle") \/
       /\ run[p].net \in NetKeys
       /\ "acct" \in DOMAIN run[p] => run[p].acct = AccountOn[Net(run[p].net).chain]
  /\ left \in 0..MaxCommands

(* No transfer leaves that costs more than every ceiling its own network   *)
(* had while the command ran, or more than the flag on it (fee_ceiling_on, *)
(* TransferRequest::fee_ceiling, check_fee).  And a ceiling once set is    *)
(* the one every later reading comes to, whatever the fee is counted in.   *)
WithinTheCeiling ==
  /\ \A k \in NetKeys : set[k] # 0 => StoredCeiling(k) = set[k]
  /\ \A s \in sent : s.r.cmd.do # "erc20" =>
       s.r.tx.fee <= IF s.r.cmd.flag = NoFlag THEN s.within
                     ELSE Parse(s.r.cmd.flag, Net(s.r.net).feeUnit)
ErcWithinTheCeiling == \A s \in sent : s.r.tx.fee <= s.within \/ s.r.cmd.flag # NoFlag

(* What moves, spelled in the units of the thing that moves, is the text   *)
(* that was typed (plan_send, plan_token_send), `erc20` going by what the  *)
(* contract said its units were; and a line of history gives it back: the  *)
(* text it keeps, read in the units of the token it names, is the raw      *)
(* number beside it (TxRecord), unless `erc20` sent just that.             *)
AssetUnit(net, id) == IF id = None THEN Net(net).unit ELSE TokenById(id).unit
ByContract(h) == \E s \in sent : s.r.cmd.do = "erc20" /\ h = RecordOf(s.r, "submitted")
MovesWhatWasTyped ==
  /\ \A s \in sent :
       LET id == IF s.r.token = None THEN None ELSE Token(s.r.token).id
       IN  Format(s.r.raw, IF s.r.cmd.do = "erc20" THEN s.r.unit ELSE AssetUnit(s.r.net, id)) = s.r.cmd.n
  /\ \A h \in history : Parse(h.value, AssetUnit(h.net, h.token)) = h.raw \/ ByContract(h)

(* Account, token, node and history of a transfer belong to one network,   *)
(* whatever the configuration came to say while it was planned and asked   *)
(* about (SendPlan, client_config, execute_send).  So do the node and the  *)
(* address of a balance (address_for, balance_everywhere, pick_address).   *)
OneNetwork ==
  /\ \A q \in asked : IF q.own THEN q.of = Written(Net(q.net), AccountOn[Net(q.net).chain])
                      ELSE Net(q.net).marked => q.of.made = Net(q.net).mark
  /\ \A s \in sent :
       /\ s.r.node.read[1] = s.r.net /\ SubmitsTo(s.r)[1] = s.r.net
       /\ s.r.acct = AccountOn[Net(s.r.net).chain]
       /\ s.r.token # None => Token(s.r.token).net = s.r.net
       /\ \E h \in history : h.net = s.r.net /\ h.raw = s.r.raw /\ h.to = s.r.cmd.to

(* So does the report a send ends with: false of tokens.                   *)
ReportReadsBack ==
  \A p \in Procs : At(p, "submitted") => Report(p) = [n |-> run[p].cmd.n, symbol |-> AmountUnits(run[p]).symbol]

(* Nothing is sent to an address made for another network, whichever       *)
(* prefix it is shown with (check_address, Address::parse).                *)
NeverAcrossNetworks ==
  \A s \in sent : Net(s.r.net).marked => s.r.cmd.to.made = Net(s.r.net).mark

(* Read from its place in the compiled table, every account of a Solana    *)
(* message has just the rights its instructions asked for, and the sender  *)
(* pays (Message::compile).                                                *)
RightsAsAsked ==
  \A p \in Procs : At(p, "planned") /\ "metas" \in DOMAIN run[p].tx =>
    LET metas == run[p].tx.metas
        msg   == Compile(metas)
    IN  /\ msg.keys[1] = "sender"
        /\ ToSet(msg.keys) = {metas[i].key : i \in DOMAIN metas}
        /\ \A i \in DOMAIN msg.keys :
             Asked(metas, msg.keys[i]) = Meta(msg.keys[i], Signs(msg, i), Writes(msg, i))

(* A transfer signed against what the chain said is one that chain takes,  *)
(* if it has not moved: what it would refuse is refused before signing.    *)
(* Wherever the chain has moved, it takes no more from the account than    *)
(* the question named: fee, rent, amount (prompt).  And the message gives  *)
(* no account a right its instructions did not ask for.                    *)
TakenAsChecked ==
  /\ RightsAsAsked
  /\ \A s \in sent : s.end.landed =>
       /\ s.r.cmd.do = "send" /\ s.end.calm => s.end.taken
       /\ s.end.paid <= s.r.tx.fee
       /\ s.end.coin <= s.r.tx.value /\ s.end.token <= s.r.tx.token
TokensTakenAsChecked ==
  \A s \in sent : s.end.landed /\ s.r.cmd.do = "token" => (s.end.calm => s.end.taken)

(* A chain that reads and writes in one place has one endpoint: false of   *)
(* one given by `network set-rpc`, which `network current` then shows      *)
(* beside the built-in one as where transfers go (resolve_submit_endpoint). *)
SubmitsWhereItReads == \A k \in NetKeys : ~Net(k).submits => SubmitFor(k) = NodeFor(k)

(* The two places that say where a chain is agree when no command is       *)
(* moving: false of two that move at once.                                 *)
PlacesAgree ==
  (\A p \in Procs : ~At(p, "using")) /\ conf.current # None
    => NetworkOn(Net(conf.current).chain) = conf.current
=============================================================================
