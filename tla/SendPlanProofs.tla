--------------------------- MODULE SendPlanProofs ---------------------------
(***************************************************************************)
(* What one command promises, of every catalogue, every list of commands   *)
(* and any number of processes.                                            *)
(***************************************************************************)
EXTENDS SendPlan, WellFoundedInduction, FiniteSetTheorems, TLAPS

(* ---------------------------- the tables -------------------------------- *)
(* The first row that fits is one that fits.                               *)
LEMMA LeastFits ==
  ASSUME NEW n \in Nat, NEW I \in SUBSET (1 .. n), I # {}
  PROVE  Min(I) \in I
<1>. DEFINE Less == {ss \in Nat \X Nat : ss[1] < ss[2]}
<1>1. IsWellFoundedOn(Less, Nat)
  BY NatLessThanWellFounded DEF OpToRel
<1>2. I \subseteq Nat
  OBVIOUS
<1>3. \E k \in I : \A j \in I : ~ (<<j, k>> \in Less)
  <2>. HIDE DEF Less
  <2>. QED BY <1>1, <1>2, WFMin
<1>4. ASSUME NEW j \in Nat, NEW k \in Nat, ~ (<<j, k>> \in Less)
      PROVE  k <= j
  BY <1>4
<1>5. \E k \in I : \A j \in I : k <= j
  <2>. HIDE DEF Less
  <2>. QED BY <1>2, <1>3, <1>4
<1>. QED BY <1>5 DEF Min

(* A key of the table is that of one row, which is what looking it up      *)
(* comes to.                                                               *)
LEMMA NetOf ==
  ASSUME NEW i \in DOMAIN Networks
  PROVE  Net(Networks[i].key) = Networks[i]
<1>. DEFINE key == Networks[i].key
            at == CHOOSE j \in DOMAIN Networks : Networks[j].key = key
<1>1. at \in DOMAIN Networks /\ Networks[at].key = key
  OBVIOUS
<1>2. at = i
  BY <1>1, CatalogueAssumption
<1>3. Net(key) = Networks[at]
  BY DEF Net, NetTable, NetKeys
<1>. QED BY <1>2, <1>3

LEMMA NetIsRow ==
  ASSUME NEW key \in NetKeys
  PROVE  /\ Net(key) \in NetRows /\ Net(key).key = key
         /\ Net(key).chain \in Chains
         /\ Net(key).marked => Net(key).mark # None /\ Net(key).chain \in {"ecash", "cardano", "midnight"}
<1>1. PICK i \in DOMAIN Networks : Networks[i].key = key
  BY DEF NetKeys
<1>2. Net(key) = Networks[i]
  BY <1>1, NetOf
<1>. QED BY <1>1, <1>2, CatalogueAssumption DEF Chains

LEMMA KeysAreNamed == None \notin NetKeys /\ None \notin TokenKeys
<1>1. ASSUME NEW i \in DOMAIN Networks PROVE Networks[i].key # None
  <2>1. Networks[i] \in NetRows
    BY CatalogueAssumption
  <2>. QED BY <2>1 DEF NetRows
<1>2. ASSUME NEW i \in DOMAIN Tokens PROVE Tokens[i].key # None
  <2>1. Tokens[i] \in TokenRows
    BY CatalogueAssumption
  <2>. QED BY <2>1 DEF TokenRows
<1>. QED BY <1>1, <1>2 DEF NetKeys, TokenKeys

LEMMA DefaultOnChain ==
  ASSUME NEW chain \in Chains
  PROVE  DefaultFor(chain) \in NetKeys /\ Net(DefaultFor(chain)).chain = chain
<1>. DEFINE I == {j \in 1 .. Len(Networks) : Networks[j].chain = chain}
<1>1. I # {} /\ I \in SUBSET (1 .. Len(Networks)) /\ Len(Networks) \in Nat
  BY CatalogueAssumption DEF Chains
<1>2. Min(I) \in I
  BY <1>1, LeastFits
<1>. HIDE DEF I
<1>3. Min(I) # 0
  BY <1>1, <1>2
<1>4. DefaultFor(chain) = Networks[Min(I)].key
  BY <1>1, <1>3 DEF DefaultFor, SelectInSeq, KeyAt, I
<1>5. Min(I) \in DOMAIN Networks /\ Networks[Min(I)].chain = chain
  BY <1>2, CatalogueAssumption DEF I
<1>. QED BY <1>4, <1>5, NetOf DEF NetKeys

LEMMA FindForNames ==
  ASSUME NEW chain, NEW word
  PROVE  FindFor(chain, word) \in NetKeys \cup {None}
<1>. DEFINE I == {j \in 1 .. Len(Networks) :
                    Networks[j].chain = chain /\ word \in {Networks[j].key, Networks[j].short}}
<1>1. FindFor(chain, word) = KeyAt(Networks, IF I # {} THEN Min(I) ELSE 0)
  BY DEF FindFor, SelectInSeq
<1>2. CASE I = {}
  BY <1>1, <1>2 DEF KeyAt
<1>3. CASE I # {}
  <2>1. Len(Networks) \in Nat /\ DOMAIN Networks = 1 .. Len(Networks)
    BY CatalogueAssumption
  <2>2. Min(I) \in I
    BY <1>3, <2>1, LeastFits
  <2>3. Min(I) # 0 /\ Min(I) \in DOMAIN Networks
    BY <2>1, <2>2
  <2>. QED BY <1>1, <1>3, <2>3 DEF KeyAt, NetKeys
<1>. QED BY <1>2, <1>3

LEMMA FindNames ==
  ASSUME NEW word
  PROVE  Find(word) \in NetKeys \cup {None}
<1>. DEFINE key == Canonical(word)
            same == Shorts(key)
<1>1. CASE key \in NetKeys
  BY <1>1 DEF Find
<1>2. CASE key \notin NetKeys /\ Cardinality(same) = 1
  <2>1. same # {}
    BY <1>2, FS_EmptySet
  <2>2. (CHOOSE i \in same : TRUE) \in DOMAIN Networks
    BY <2>1 DEF Shorts
  <2>. QED BY <1>2, <2>2 DEF Find, NetKeys
<1>3. CASE key \notin NetKeys /\ Cardinality(same) # 1
  BY <1>3 DEF Find
<1>. QED BY <1>1, <1>2, <1>3

LEMMA FindHereNames ==
  ASSUME NEW chain, NEW word
  PROVE  FindHere(chain, word) \in NetKeys \cup {None}
BY FindForNames, FindNames DEF FindHere

LEMMA TokenOf ==
  ASSUME NEW i \in DOMAIN Tokens
  PROVE  Token(Tokens[i].key) = Tokens[i] /\ TokenById(Tokens[i].id) = Tokens[i]
<1>. DEFINE at == CHOOSE j \in DOMAIN Tokens : Tokens[j].key = Tokens[i].key
            by == CHOOSE j \in DOMAIN Tokens : Tokens[j].id = Tokens[i].id
<1>1. /\ at \in DOMAIN Tokens /\ Tokens[at].key = Tokens[i].key
      /\ by \in DOMAIN Tokens /\ Tokens[by].id = Tokens[i].id
  OBVIOUS
<1>2. at = i /\ by = i
  BY <1>1, CatalogueAssumption
<1>3. Token(Tokens[i].key) = Tokens[at] /\ TokenById(Tokens[i].id) = Tokens[by]
  BY DEF Token, TokenTable, TokenKeys, TokenById
<1>. QED BY <1>2, <1>3

(* A token has a row, its network is in the catalogue, and the id that a   *)
(* line of history keeps names it again.                                   *)
LEMMA TokenIsRow ==
  ASSUME NEW key \in TokenKeys
  PROVE  /\ Token(key) \in TokenRows /\ Token(key).key = key
         /\ Token(key).id # None /\ TokenById(Token(key).id) = Token(key)
<1>1. PICK i \in DOMAIN Tokens : Tokens[i].key = key
  BY DEF TokenKeys
<1>2. Token(key) = Tokens[i] /\ TokenById(Tokens[i].id) = Tokens[i]
  BY <1>1, TokenOf
<1>3. Tokens[i] \in TokenRows
  BY CatalogueAssumption
<1>4. Tokens[i].id # None
  BY <1>3 DEF TokenRows
<1>. QED BY <1>1, <1>2, <1>3, <1>4

LEMMA TokenInNames ==
  ASSUME NEW net, NEW word
  PROVE  TokenIn(net, word) \in TokenKeys \cup {None}
<1>. DEFINE I == {j \in 1 .. Len(Tokens) :
              Tokens[j].net = net /\ word \in {Tokens[j].key, Tokens[j].symbol, Tokens[j].id}}
<1>1. TokenIn(net, word) = KeyAt(Tokens, IF I # {} THEN Min(I) ELSE 0)
  BY DEF TokenIn, SelectInSeq
<1>2. CASE I = {}
  BY <1>1, <1>2 DEF KeyAt
<1>3. CASE I # {}
  <2>1. Len(Tokens) \in Nat /\ DOMAIN Tokens = 1 .. Len(Tokens)
    BY CatalogueAssumption
  <2>2. Min(I) \in I
    BY <1>3, <2>1, LeastFits
  <2>3. Min(I) # 0 /\ Min(I) \in DOMAIN Tokens
    BY <2>1, <2>2
  <2>. QED BY <1>1, <1>3, <2>3 DEF KeyAt, TokenKeys
<1>. QED BY <1>2, <1>3

LEMMA TokenFindNames ==
  ASSUME NEW word
  PROVE  TokenFind(word) \in TokenKeys \cup {None}
<1>. DEFINE I == {j \in 1 .. Len(Tokens) : word \in {Tokens[j].key, Tokens[j].id}}
            named == IF I # {} THEN Min(I) ELSE 0
            same == {i \in DOMAIN Tokens : Tokens[i].symbol = word}
<1>1. TokenFind(word) = IF named # 0 THEN Tokens[named].key
                        ELSE IF Cardinality(same) = 1 THEN Tokens[CHOOSE i \in same : TRUE].key
                        ELSE None
  BY DEF TokenFind, SelectInSeq
<1>2. CASE named # 0
  <2>1. Len(Tokens) \in Nat /\ DOMAIN Tokens = 1 .. Len(Tokens) /\ I # {}
    BY <1>2, CatalogueAssumption
  <2>2. named \in I
    BY <2>1, LeastFits
  <2>3. named \in DOMAIN Tokens
    BY <2>1, <2>2
  <2>. QED BY <1>1, <1>2, <2>3 DEF TokenKeys
<1>3. CASE Cardinality(same) = 1
  <2>1. same # {}
    BY <1>3, FS_EmptySet
  <2>2. (CHOOSE i \in same : TRUE) \in DOMAIN Tokens
    BY <2>1
  <2>. HIDE DEF named
  <2>. QED BY <1>1, <1>2, <1>3, <2>2 DEF TokenKeys
<1>. QED BY <1>1, <1>2, <1>3

LEMMA FindTokenNames ==
  ASSUME NEW net, NEW word
  PROVE  FindToken(net, word) \in TokenKeys \cup {None}
BY TokenInNames, TokenFindNames DEF FindToken

(* ----------------------------- amounts ---------------------------------- *)
(* A text that a unit can hold is spelled back as it was typed.            *)
LEMMA ReadsBack ==
  ASSUME NEW n \in Nat, NEW unit \in Units, Parse(n, unit) # Bad
  PROVE  Parse(n, unit) \in Nat /\ Format(Parse(n, unit), unit) = n
<1>. DEFINE s == unit.scale
            m == n * s
            raw == m \div Grid
<1>1. s \in Nat /\ s > 0 /\ Grid \in Nat /\ Grid > 0 /\ m \in Nat
  BY CatalogueAssumption DEF Units
<1>2. m % Grid = 0 /\ Parse(n, unit) = raw
  BY DEF Parse
<1>3. raw \in Nat /\ m = raw * Grid
  <2>. HIDE DEF m
  <2>. QED BY <1>1, <1>2
<1>4. (n * s) \div s = n
  BY <1>1
<1>5. (raw * Grid) \div s = n
  <2>. HIDE DEF raw
  <2>. QED BY <1>3, <1>4
<1>. QED BY <1>2, <1>3, <1>5 DEF Format

LEMMA ParseIs ==
  ASSUME NEW n \in Nat, NEW unit \in Units
  PROVE  Parse(n, unit) \in Nat \cup {Bad}
BY ReadsBack

(* A number is never the mark of a refusal.                                *)
LEMMA BadIsNoNumber == Bad \notin Nat /\ NoFlag \notin Nat
  BY DEF Bad, NoFlag

(* ------------------------------ a plan ---------------------------------- *)
(* No client signs for a fee over the limit it was given.                  *)
LEMMA PlansKeepTheLimit ==
  ASSUME NEW r, r.net \in NetKeys, r.limit \in Nat,
         NEW see \in Answers[Net(r.net).chain], NEW tx \in Plans(r, see), tx.ok
  PROVE  tx.fee \in Nat /\ tx.fee <= r.limit
<1>. DEFINE chain == Net(r.net).chain
            limit == r.limit
<1>1. chain \in Chains
  BY NetIsRow
<1>2. \/ chain = "evm" /\ tx = ErcPrepare(r.raw, limit, see)
      \/ chain = "evm" /\ tx = EvmToken(r.raw, Token(r.token).unit.scale, limit, see)
      \/ chain = "evm" /\ tx = EvmPrepare(r.raw, FALSE, limit, see)
      \/ chain = "solana" /\ tx = SolToken(r.raw, Token(r.token).unit.scale, limit, see)
      \/ chain = "solana" /\ tx = SolPrepare(r.raw, limit, see)
      \/ tx \in CoinPlan(r.raw, limit) \cup {Refuse}
  BY Zenon DEF Plans
<1>3. ASSUME chain = "evm"
      PROVE  /\ see.price * PlainGas \in Nat /\ see.price * WithHeadroom(see.gas) \in Nat
             /\ see.price * FallbackGas \in Nat
  <2>1. see \in EvmSees
    BY <1>1, <1>3, PlanAssumption
  <2>2. see.price \in Nat /\ see.gas \in Nat /\ PlainGas \in Nat /\ FallbackGas \in Nat
    BY <2>1, PlanAssumption DEF EvmSees
  <2>3. (see.gas * 125) \div 100 \in Nat
    BY <2>2
  <2>. QED BY <2>2, <2>3 DEF WithHeadroom
<1>4. ASSUME chain = "evm", NEW value, NEW call \in BOOLEAN, NEW p, p = EvmPrepare(value, call, limit, see),
             p.ok
      PROVE  /\ p.fee \in Nat /\ p.fee <= limit
             /\ \A raw : [p EXCEPT !.token = raw].fee = p.fee
  <2>. DEFINE gas == IF call THEN WithHeadroom(see.gas) ELSE PlainGas
  <2>1. ~ (see.price * gas > limit)
    BY <1>4 DEF EvmPrepare, Refuse
  <2>2. p = [ok |-> TRUE, value |-> value, token |-> 0, fee |-> see.price * gas, gas |-> gas,
             price |-> see.price, nonce |-> see.nonce, call |-> call]
    BY <1>4 DEF EvmPrepare, Refuse
  <2>3. see.price * gas \in Nat
    BY <1>3, <1>4
  <2>. HIDE DEF gas
  <2>. QED BY <2>1, <2>2, <2>3
<1>5. CASE chain = "evm" /\ tx = ErcPrepare(r.raw, limit, see)
  <2>. DEFINE gas == IF see.estimates THEN WithHeadroom(see.gas) ELSE FallbackGas
  <2>1. ~ (see.price * gas > limit) /\ tx.fee = see.price * gas
    BY <1>5 DEF ErcPrepare, Refuse
  <2>2. see.price * gas \in Nat
    BY <1>3, <1>5
  <2>. HIDE DEF gas
  <2>. QED BY <2>1, <2>2
<1>6. CASE chain = "evm" /\ tx = EvmToken(r.raw, Token(r.token).unit.scale, limit, see)
  <2>. DEFINE call == EvmPrepare(0, TRUE, limit, see)
  <2>1. call.ok /\ tx = [call EXCEPT !.token = r.raw]
    BY <1>6 DEF EvmToken, Refuse
  <2>2. call.fee \in Nat /\ call.fee <= limit /\ \A raw : [call EXCEPT !.token = raw].fee = call.fee
    <3>. HIDE DEF call
    <3>1. call = EvmPrepare(0, TRUE, limit, see)
      BY DEF call
    <3>. QED BY <1>6, <2>1, <3>1, <1>4
  <2>3. tx.fee = call.fee
    <3>. HIDE DEF call
    <3>. QED BY <2>1, <2>2
  <2>. QED BY <2>2, <2>3
<1>7. CASE chain = "evm" /\ tx = EvmPrepare(r.raw, FALSE, limit, see)
  BY <1>4, <1>7
<1>8. ASSUME chain = "solana"
      PROVE  see.fee \in Nat /\ TokenRent \in Nat
  <2>1. see \in SolSees
    BY <1>1, <1>8, PlanAssumption
  <2>. QED BY <2>1, PlanAssumption DEF SolSees
<1>9. CASE chain = "solana" /\ tx = SolToken(r.raw, Token(r.token).unit.scale, limit, see)
  <2>. DEFINE cost == see.fee + (IF ~see.exists THEN TokenRent ELSE 0)
  <2>1. ~ (cost > limit) /\ tx.fee = cost
    BY <1>9 DEF SolToken, Refuse
  <2>2. cost \in Nat
    BY <1>8, <1>9
  <2>. HIDE DEF cost
  <2>. QED BY <2>1, <2>2
<1>10. CASE chain = "solana" /\ tx = SolPrepare(r.raw, limit, see)
  <2>1. ~ (see.fee > limit) /\ tx.fee = see.fee
    BY <1>10 DEF SolPrepare, Refuse
  <2>. QED BY <1>8, <1>10, <2>1
<1>11. CASE tx \in CoinPlan(r.raw, limit) \cup {Refuse}
  <2>1. tx # Refuse
    BY DEF Refuse
  <2>2. tx \in CoinPlan(r.raw, limit)
    BY <1>11, <2>1
  <2>3. tx.fee \in {f \in CoinFees : f <= limit}
    BY <2>2 DEF CoinPlan
  <2>. QED BY <2>3, PlanAssumption
<1>. QED BY <1>2, <1>5, <1>6, <1>7, <1>9, <1>10, <1>11

(* --------------------------- the invariant ------------------------------ *)
(* What the configuration holds: a ceiling is 0 and unnamed, or the text   *)
(* of what was last set, which reads back as it was set.                   *)
FeeTexts == [n : Nat, unit : {Net(k).feeUnit.symbol : k \in NetKeys} \cup {None}]
Urls == {cmd.url : cmd \in Commands} \cup {None}
Configs == [current : NetKeys \cup {None}, on : [Chains -> NetKeys \cup {None}],
            ceiling : [NetKeys -> FeeTexts], endpoint : [NetKeys -> Urls]]
ConfOK ==
  /\ conf \in Configs
  /\ \A c \in Chains : conf.on[c] # None => Net(conf.on[c]).chain = c
  /\ set \in [NetKeys -> Nat]
  /\ \A k \in NetKeys : StoredCeiling(k) = IF set[k] = 0 THEN Net(k).maxFee ELSE set[k]

(* A command that has named its network, and one that moves something: its *)
(* account, its token and its address are that network's, its amount, once *)
(* it has been read, is the text that was typed.                           *)
Openings == [at : {"open", "using"}, cmd : Commands, net : NetKeys]
Fields == {"at", "cmd", "net", "token", "acct", "raw", "unit", "limit", "node", "tx", "see"}
Counts(r) == r.unit \in Units /\ r.raw = Parse(r.cmd.n, r.unit) /\ r.raw # Bad
Chosen(r) ==
  /\ DOMAIN r = Fields
  /\ r.cmd \in Commands /\ r.net \in NetKeys
  /\ r.token # None => r.token \in TokenKeys /\ Token(r.token).net = r.net
  /\ r.acct = AccountOn[Net(r.net).chain]
  /\ IF r.cmd.do = "erc20" THEN r.token \in TokenKeys /\ Net(r.net).chain = "evm"
     ELSE r.unit = AmountUnits(r) /\ Counts(r)
  /\ CheckAddress(Net(r.net), r.cmd.to)

Capped  == {"capped", "connected", "counted", "planned", "agreed", "recorded", "submitted"}
Reached == Capped \ {"capped"}
Counted == Reached \ {"connected"}
Planned == Counted \ {"counted"}
Nearby(r) == r.node.read[1] = r.net /\ r.node.submit[1] = r.net
Least(r, ceiling) == IF r.cmd.flag = NoFlag THEN ceiling ELSE Parse(r.cmd.flag, Net(r.net).feeUnit)
Moving(r, ceiling) ==
  /\ Chosen(r) /\ r.at \in Capped \cup {"picked"}
  /\ r.at \in Capped => r.limit \in Nat /\ (r.cmd.do = "erc20" \/ r.limit <= Least(r, ceiling))
  /\ r.at \in Reached => Nearby(r)
  /\ r.at \in Counted => Counts(r)
  /\ r.at = "agreed" => r.cmd.do # "erc20"
  /\ r.at \in Planned => r.tx.fee \in Int /\ r.tx.fee <= r.limit /\ (r.cmd.do = "erc20" \/ r.tx.fee <= Least(r, ceiling))

(* What a running command is held to is no less than what is stored now.   *)
RunOK(r, ceilings) ==
  \/ r = Idle
  \/ /\ \A k \in NetKeys : StoredCeiling(k) <= ceilings[k]
     /\ \/ /\ r \in Openings
           /\ r.cmd.net # None => r.net = Named(r.cmd)
           /\ r.at = "using" => FindHere(Net(r.net).chain, r.cmd.what) \in NetKeys
        \/ Moving(r, ceilings[r.net])

(* What was sent, and what the history says of it.                         *)
SentOK ==
  \A s \in sent :
    /\ DOMAIN s = {"r", "within", "end"} /\ Chosen(s.r) /\ Counts(s.r) /\ Nearby(s.r)
    /\ s.r.cmd.do = "erc20" \/ s.r.tx.fee <= Least(s.r, s.within)
    /\ \E h \in history : h.net = s.r.net /\ h.raw = s.r.raw /\ h.to = s.r.cmd.to
HistoryOK == \A h \in history : Parse(h.value, AssetUnit(h.net, h.token)) = h.raw \/ ByContract(h)

Inv == /\ ConfOK
       /\ most \in [Procs -> [NetKeys -> Nat]] /\ DOMAIN run = Procs
       /\ \A p \in Procs : RunOK(run[p], most[p])
       /\ SentOK /\ HistoryOK

(* ------------------------------ its steps ------------------------------- *)
LEMMA CeilingIs ==
  ASSUME NEW k \in NetKeys, conf'.ceiling[k] = conf.ceiling[k]
  PROVE  StoredCeiling(k)' = StoredCeiling(k)
BY DEF StoredCeiling

(* A step that takes one command further and leaves the rest alone.        *)
LEMMA Goes ==
  ASSUME Inv, NEW p \in Procs, NEW r, Goto(p, r), RunOK(r, most[p]),
         UNCHANGED <<conf, history, sent, most, set>>
  PROVE  Inv'
<1>1. \A k \in NetKeys : StoredCeiling(k)' = StoredCeiling(k)
  BY CeilingIs
<1>2. ConfOK'
  BY <1>1 DEF Inv, ConfOK
<1>3. DOMAIN run' = Procs /\ \A q \in Procs : run'[q] = IF q = p THEN r ELSE run[q]
  BY DEF Goto, Inv
<1>4. ASSUME NEW q \in Procs PROVE RunOK(run[q], most[q])'
  <2>1. RunOK(run'[q], most[q])
    BY <1>3 DEF Inv
  <2>. QED BY <1>1, <2>1 DEF RunOK
<1>5. SentOK' /\ HistoryOK'
  BY DEF Inv, SentOK, HistoryOK, ByContract
<1>. QED BY <1>2, <1>3, <1>4, <1>5 DEF Inv

LEMMA Ends ==
  ASSUME Inv, NEW p \in Procs, End(p), UNCHANGED <<conf, history, sent, most, set>>
  PROVE  Inv'
BY Goes DEF End, RunOK

(* Where a command is says what is known of it.                            *)
LEMMA WhoIsHere ==
  ASSUME Inv, NEW p \in Procs, run[p].at # "idle"
  PROVE  /\ \A k \in NetKeys : StoredCeiling(k) <= most[p][k]
         /\ run[p].at \in {"open", "using"} =>
              /\ run[p] \in Openings /\ (run[p].at = "using" => Target(p) \in NetKeys)
              /\ run[p].cmd.net # None => run[p].net = Named(run[p].cmd)
         /\ run[p].at \in Capped \cup {"picked"} => Moving(run[p], most[p][run[p].net])
<1>1. run[p] # Idle /\ RunOK(run[p], most[p])
  BY DEF Idle, Inv
<1>2. ASSUME run[p] \in Openings PROVE run[p].at \notin Capped \cup {"picked"}
  BY <1>2 DEF Openings, Capped
<1>3. ASSUME NEW c, Moving(run[p], c) PROVE run[p].at \notin {"open", "using"}
  BY <1>3 DEF Moving, Capped
<1>. QED BY <1>1, <1>2, <1>3 DEF RunOK, Target

LEMMA StoredIs == ASSUME Inv PROVE StoredNetwork \in NetKeys
<1>1. 1 \in DOMAIN Networks
  BY CatalogueAssumption
<1>. QED BY <1>1 DEF Inv, ConfOK, Configs, StoredNetwork, NetKeys

LEMMA NetworkOnIs ==
  ASSUME Inv, NEW c \in Chains
  PROVE  NetworkOn(c) \in NetKeys /\ Net(NetworkOn(c)).chain = c
BY DefaultOnChain DEF Inv, ConfOK, Configs, NetworkOn

LEMMA ResolveNames ==
  ASSUME Inv, NEW cmd \in Commands
  PROVE  Resolve(cmd) \in NetKeys \cup {None}
<1>1. cmd.net # None => Resolve(cmd) \in NetKeys \cup {None}
  BY FindForNames, FindNames DEF Resolve, Named
<1>2. cmd.chain # None => ChainWord[cmd.chain] \in Chains
  BY CatalogueAssumption, PlanAssumption
<1>. QED BY <1>1, <1>2, StoredIs, NetworkOnIs DEF Resolve

LEMMA Opens == ASSUME Inv, NEW p \in Procs, Open(p) PROVE Inv'
<1>. DEFINE fresh == [k \in NetKeys |-> StoredCeiling(k)]
<1>1. PICK cmd \in Commands :
        Goto(p, IF Resolve(cmd) = None THEN Idle
                ELSE [at |-> "open", cmd |-> cmd, net |-> Resolve(cmd)])
  BY DEF Open
<1>2. most' = [most EXCEPT ![p] = fresh] /\ UNCHANGED <<conf, history, sent, set>>
  BY DEF Open
<1>3. \A k \in NetKeys : StoredCeiling(k)' = StoredCeiling(k) /\ StoredCeiling(k) \in Nat
  <2>. SUFFICES ASSUME NEW k \in NetKeys
                PROVE  StoredCeiling(k)' = StoredCeiling(k) /\ StoredCeiling(k) \in Nat
    OBVIOUS
  <2>1. Net(k).maxFee \in Nat
    BY NetIsRow DEF NetRows
  <2>. QED BY <1>2, <2>1, CeilingIs DEF Inv, ConfOK
<1>4. ConfOK'
  BY <1>2, <1>3 DEF Inv, ConfOK
<1>5. most' \in [Procs -> [NetKeys -> Nat]]
  BY <1>2, <1>3 DEF Inv
<1>6. DOMAIN run' = Procs /\ \A q \in Procs : q # p => run'[q] = run[q]
  BY <1>1 DEF Goto, Inv
<1>7. ASSUME NEW q \in Procs PROVE RunOK(run[q], most[q])'
  <2>1. CASE q # p
    <3>1. RunOK(run[q], most[q]) /\ run'[q] = run[q] /\ most'[q] = most[q]
      BY <1>2, <1>6, <2>1 DEF Inv
    <3>. QED BY <1>3, <3>1 DEF RunOK
  <2>2. CASE q = p
    <3>1. /\ most'[p] = fresh /\ run'[p] \in Openings \cup {Idle} /\ run'[p].at # "using"
          /\ run'[p] # Idle => (run'[p].cmd.net # None => run'[p].net = Named(run'[p].cmd))
      BY <1>1, <1>2, ResolveNames DEF Inv, Goto, Openings, Idle, Resolve
    <3>. HIDE DEF fresh
    <3>2. \A k \in NetKeys : fresh[k] = StoredCeiling(k)
      BY DEF fresh
    <3>. QED BY <1>3, <2>2, <3>1, <3>2 DEF RunOK
  <2>. QED BY <2>1, <2>2
<1>8. SentOK' /\ HistoryOK'
  BY <1>2 DEF Inv, SentOK, HistoryOK, ByContract
<1>. QED BY <1>4, <1>5, <1>6, <1>7, <1>8 DEF Inv

(* A change of the configuration that leaves its ceilings alone, by a      *)
(* command that comes to r.                                                *)
LEMMA Configures ==
  ASSUME Inv, NEW p \in Procs, NEW r, Goto(p, r), RunOK(r, most[p]),
         UNCHANGED <<history, sent, most, set>>,
         conf' \in Configs, conf'.ceiling = conf.ceiling,
         \A c \in Chains : conf'.on[c] # None => Net(conf'.on[c]).chain = c
  PROVE  Inv'
<1>1. \A k \in NetKeys : StoredCeiling(k)' = StoredCeiling(k)
  BY CeilingIs
<1>2. ConfOK'
  BY <1>1 DEF Inv, ConfOK
<1>3. DOMAIN run' = Procs /\ \A q \in Procs : run'[q] = IF q = p THEN r ELSE run[q]
  BY DEF Goto, Inv
<1>4. ASSUME NEW q \in Procs PROVE RunOK(run[q], most[q])'
  <2>1. RunOK(run'[q], most[q])
    BY <1>3 DEF Inv
  <2>. QED BY <1>1, <2>1 DEF RunOK
<1>5. SentOK' /\ HistoryOK'
  BY DEF Inv, SentOK, HistoryOK, ByContract
<1>. QED BY <1>2, <1>3, <1>4, <1>5 DEF Inv

LEMMA Uses == ASSUME Inv, NEW p \in Procs, Use(p) PROVE Inv'
<1>1. run[p].at = "open"
  BY DEF Use, Does
<1>2. /\ run[p] \in Openings /\ \A k \in NetKeys : StoredCeiling(k) <= most[p][k]
      /\ run[p].cmd.net # None => run[p].net = Named(run[p].cmd)
  BY <1>1, WhoIsHere
<1>3. CASE Target(p) = None
  BY <1>3, Ends DEF Use
<1>4. CASE Target(p) # None
  <2>. DEFINE r == [run[p] EXCEPT !.at = "using"]
  <2>1. Goto(p, r) /\ conf' = [conf EXCEPT !.current = Target(p)]
        /\ UNCHANGED <<history, sent, most, set>>
    BY <1>4 DEF Use
  <2>2. Target(p) \in NetKeys
    BY <1>4, FindHereNames DEF Target
  <2>3. /\ r \in Openings /\ FindHere(Net(r.net).chain, r.cmd.what) \in NetKeys
        /\ r.cmd.net # None => r.net = Named(r.cmd)
    BY <1>2, <2>2 DEF Openings, Target
  <2>4. RunOK(r, most[p])
    BY <1>2, <2>3 DEF RunOK
  <2>5. conf' \in Configs /\ conf'.ceiling = conf.ceiling /\ conf'.on = conf.on
    BY <2>1, <2>2 DEF Inv, ConfOK, Configs
  <2>6. \A c \in Chains : conf'.on[c] # None => Net(conf'.on[c]).chain = c
    BY <2>5 DEF Inv, ConfOK
  <2>. HIDE DEF r
  <2>. QED BY <2>1, <2>4, <2>5, <2>6, Configures
<1>. QED BY <1>3, <1>4

LEMMA UsesOnChain == ASSUME Inv, NEW p \in Procs, UseOnChain(p) PROVE Inv'
<1>. DEFINE key == Target(p)
<1>1. run[p].at = "using"
  BY DEF UseOnChain, At
<1>2. key \in NetKeys
  BY <1>1, WhoIsHere
<1>3. Goto(p, Idle) /\ conf' = [conf EXCEPT !.on[Net(key).chain] = key]
      /\ UNCHANGED <<history, sent, most, set>>
  BY DEF UseOnChain, End
<1>. HIDE DEF key
<1>4. Net(key).chain \in Chains
  BY <1>2, NetIsRow
<1>5. conf' \in Configs /\ conf'.ceiling = conf.ceiling
      /\ conf'.on = [conf.on EXCEPT ![Net(key).chain] = key]
  BY <1>2, <1>3, <1>4 DEF Inv, ConfOK, Configs
<1>6. \A c \in Chains : conf'.on[c] # None => Net(conf'.on[c]).chain = c
  <2>1. conf.on \in [Chains -> NetKeys \cup {None}]
    BY DEF Inv, ConfOK, Configs
  <2>2. \A c \in Chains : conf'.on[c] = IF c = Net(key).chain THEN key ELSE conf.on[c]
    BY <1>5, <2>1
  <2>. QED BY <2>2 DEF Inv, ConfOK
<1>7. RunOK(Idle, most[p])
  BY DEF RunOK
<1>. QED BY <1>3, <1>5, <1>6, <1>7, Configures

LEMMA SetsRpc == ASSUME Inv, NEW p \in Procs, SetRpc(p) PROVE Inv'
<1>1. run[p].at = "open"
  BY DEF SetRpc, Does
<1>2. run[p] \in Openings
  BY <1>1, WhoIsHere
<1>3. CASE Target(p) = None
  BY <1>3, Ends DEF SetRpc
<1>4. CASE Target(p) # None
  <2>1. Goto(p, Idle) /\ conf' = [conf EXCEPT !.endpoint[Target(p)] = run[p].cmd.url]
        /\ UNCHANGED <<history, sent, most, set>>
    BY <1>4 DEF SetRpc, End
  <2>2. Target(p) \in NetKeys
    BY <1>4, FindHereNames DEF Target
  <2>3. run[p].cmd.url \in Urls
    BY <1>2 DEF Openings, Urls
  <2>4. conf' \in Configs /\ conf'.ceiling = conf.ceiling /\ conf'.on = conf.on
    BY <2>1, <2>2, <2>3 DEF Inv, ConfOK, Configs
  <2>5. \A c \in Chains : conf'.on[c] # None => Net(conf'.on[c]).chain = c
    BY <2>4 DEF Inv, ConfOK
  <2>6. RunOK(Idle, most[p])
    BY DEF RunOK
  <2>. QED BY <2>1, <2>4, <2>5, <2>6, Configures
<1>. QED BY <1>3, <1>4

(* What a ceiling is raised over stays under it.                           *)
LEMMA MovesOn ==
  ASSUME NEW r, NEW a \in Nat, NEW b \in Nat, a <= b, Moving(r, a)
  PROVE  Moving(r, b)
<1>1. r.cmd.flag # NoFlag => Least(r, a) = Least(r, b)
  BY DEF Least
<1>2. r.cmd.flag = NoFlag => Least(r, a) = a /\ Least(r, b) = b
  BY DEF Least
<1>. QED BY <1>1, <1>2 DEF Moving, Capped, Reached, Counted, Planned

(* A ceiling is read back as it was set, and whoever runs by then is held  *)
(* to no less.                                                             *)
LEMMA SetsCeiling == ASSUME Inv, NEW p \in Procs, SetCeiling(p) PROVE Inv'
<1>. SUFFICES ASSUME NEW key, key = Target(p) PROVE Inv'
  OBVIOUS
<1>. DEFINE unit == Net(key).feeUnit
            n == run[p].cmd.n
            fee == ParseFee([n |-> n, unit |-> run[p].cmd.unit], unit)
            ceiling == IF fee = 0 THEN Net(key).maxFee ELSE fee
<1>1. run[p].at = "open" /\ End(p) /\ UNCHANGED <<history, sent>>
  BY DEF SetCeiling, Does
<1>2. run[p] \in Openings
  BY <1>1, WhoIsHere
<1>3. CASE key = None \/ fee = Bad
  <2>1. UNCHANGED <<conf, most, set>>
    BY <1>3 DEF SetCeiling
  <2>. QED BY <1>1, <2>1, Ends
<1>4. CASE key # None /\ fee # Bad
  <2>1. key \in NetKeys
    BY <1>4, FindHereNames DEF Target
  <2>2. unit \in Units /\ Net(key).maxFee \in Nat \ {0} /\ n \in Nat
    <3>1. Net(key) \in NetRows
      BY <2>1, NetIsRow
    <3>2. run[p].cmd \in Words
      BY <1>2, PlanAssumption DEF Openings
    <3>. QED BY <3>1, <3>2 DEF NetRows, Words
  <2>3. fee = Parse(n, unit) /\ fee \in Nat /\ Format(fee, unit) = n
    <3>. HIDE DEF n, unit
    <3>1. fee = Parse(n, unit)
      BY <1>4 DEF ParseFee
    <3>. QED BY <1>4, <2>2, <3>1, ReadsBack
  <2>4. /\ conf' = [conf EXCEPT !.ceiling[key] = CeilingText(key, fee)]
        /\ set' = [set EXCEPT ![key] = ceiling]
        /\ most' = [q \in Procs |-> [most[q] EXCEPT ![key] = IF set'[key] > @ THEN set'[key] ELSE @]]
    BY <1>4 DEF SetCeiling
  <2>5. CeilingText(key, fee) = [n |-> n, unit |-> unit.symbol]
    BY <2>3 DEF CeilingText, FormatFee
  <2>6. CeilingText(key, fee) \in FeeTexts
    BY <2>1, <2>2, <2>5 DEF FeeTexts
  <2>7. ceiling \in Nat \ {0}
    <3>. HIDE DEF fee
    <3>. QED BY <2>2, <2>3
  <2>. HIDE DEF ceiling
  <2>8. conf' \in Configs /\ conf'.on = conf.on
        /\ \A k \in NetKeys : conf'.ceiling[k] = IF k = key THEN CeilingText(key, fee) ELSE conf.ceiling[k]
    <3>. HIDE DEF fee
    <3>. QED BY <2>1, <2>4, <2>6 DEF Inv, ConfOK, Configs
  <2>9. StoredCeiling(key)' = ceiling
    <3>1. conf'.ceiling[key] = [n |-> n, unit |-> unit.symbol]
      BY <2>1, <2>5, <2>8
    <3>2. ParseFee(conf'.ceiling[key], unit) = Parse(n, unit)
      <4>. HIDE DEF n, unit
      <4>. QED BY <3>1 DEF ParseFee
    <3>3. StoredCeiling(key)' = IF fee > 0 THEN fee ELSE Net(key).maxFee
      <4>. HIDE DEF fee
      <4>. QED BY <2>3, <3>2 DEF StoredCeiling
    <3>. HIDE DEF fee
    <3>. QED BY <2>3, <3>3 DEF ceiling
  <2>10. ASSUME NEW k \in NetKeys, k # key PROVE StoredCeiling(k)' = StoredCeiling(k)
    BY <2>8, <2>10, CeilingIs
  <2>. HIDE DEF fee, unit, n
  <2>11. set' \in [NetKeys -> Nat] /\ \A k \in NetKeys : set'[k] = IF k = key THEN ceiling ELSE set[k]
    BY <2>1, <2>4, <2>7 DEF Inv, ConfOK
  <2>12. ConfOK'
    <3>1. \A k \in NetKeys : StoredCeiling(k)' = IF set'[k] = 0 THEN Net(k).maxFee ELSE set'[k]
      BY <2>7, <2>9, <2>10, <2>11 DEF Inv, ConfOK
    <3>. QED BY <2>8, <2>11, <3>1 DEF Inv, ConfOK
  <2>13. /\ most' \in [Procs -> [NetKeys -> Nat]]
         /\ \A q \in Procs : most'[q][key] >= ceiling
         /\ \A q \in Procs, k \in NetKeys : most'[q][k] >= most[q][k] /\ (k # key => most'[q][k] = most[q][k])
    <3>1. most \in [Procs -> [NetKeys -> Nat]] /\ set'[key] = ceiling
      BY <2>1, <2>11 DEF Inv
    <3>. QED BY <2>1, <2>4, <2>7, <3>1
  <2>14. DOMAIN run' = Procs /\ \A q \in Procs : run'[q] = IF q = p THEN Idle ELSE run[q]
    BY <1>1 DEF End, Goto, Inv
  <2>15. ASSUME NEW q \in Procs PROVE RunOK(run[q], most[q])'
    <3>1. CASE run'[q] = Idle
      BY <3>1 DEF RunOK
    <3>2. CASE run'[q] # Idle
      <4>1. run'[q] = run[q] /\ RunOK(run[q], most[q]) /\ run[q] # Idle
        BY <2>14, <3>2 DEF Inv
      <4>2. \A k \in NetKeys : StoredCeiling(k)' <= most'[q][k]
        <5>. SUFFICES ASSUME NEW k \in NetKeys PROVE StoredCeiling(k)' <= most'[q][k]
          OBVIOUS
        <5>1. CASE k = key
          BY <2>7, <2>9, <2>13, <5>1
        <5>2. CASE k # key
          BY <2>10, <2>13, <4>1, <5>2 DEF RunOK
        <5>. QED BY <5>1, <5>2
      <4>3. ASSUME Moving(run[q], most[q][run[q].net])
            PROVE  Moving(run[q], most'[q][run[q].net])
        <5>1. run[q].net \in NetKeys /\ most[q][run[q].net] \in Nat /\ most'[q][run[q].net] \in Nat
          BY <2>13, <4>3 DEF Inv, Moving, Chosen
        <5>. QED BY <2>13, <4>3, <5>1, MovesOn
      <4>. QED BY <4>1, <4>2, <4>3 DEF RunOK
    <3>. QED BY <3>1, <3>2
  <2>16. SentOK' /\ HistoryOK'
    BY <1>1 DEF Inv, SentOK, HistoryOK, ByContract
  <2>. QED BY <2>12, <2>13, <2>14, <2>15, <2>16 DEF Inv
<1>. QED BY <1>3, <1>4

(* -------------------------------- sends --------------------------------- *)
LEMMA UnitsAre ==
  ASSUME NEW r, r.net \in NetKeys, r.token \in TokenKeys \cup {None}
  PROVE  AmountUnits(r) \in Units
<1>1. Net(r.net).unit \in Units
  BY NetIsRow DEF NetRows
<1>2. r.token # None => Token(r.token).unit \in Units
  BY TokenIsRow DEF TokenRows
<1>. QED BY <1>1, <1>2 DEF AmountUnits

LEMMA Picks == ASSUME Inv, NEW p \in Procs, Pick(p) PROVE Inv'
<1>. DEFINE cmd == run[p].cmd
            word == CASE cmd.do = "send" -> None
                      [] cmd.do = "token" -> FindToken(run[p].net, cmd.what)
                      [] OTHER -> TokenById(cmd.what).key
            net == IF cmd.do = "token" /\ word # None THEN Token(word).net ELSE run[p].net
            r == [at |-> "picked", cmd |-> cmd, net |-> net, token |-> word,
                  acct |-> AccountOn[Net(net).chain], raw |-> 0, unit |-> NoText, limit |-> NoFlag,
                  node |-> Nowhere, tx |-> Refuse, see |-> Refuse]
            unit == AmountUnits(r)
            raw == Parse(cmd.n, unit)
            picked == IF cmd.do = "erc20" THEN r ELSE [r EXCEPT !.raw = raw, !.unit = unit]
<1>1. /\ run[p].at = "open" /\ cmd.do \in {"send", "token", "erc20"}
      /\ UNCHANGED <<conf, history, sent, most, set>>
      /\ \/ End(p)
         \/ /\ Goto(p, picked)
            /\ ~ (cmd.do = "token" /\ word = None)
            /\ cmd.do = "erc20" => Token(word).net = net /\ Net(net).chain = "evm"
            /\ CheckAddress(Net(net), cmd.to) /\ (cmd.do = "erc20" \/ raw # Bad)
  BY Zenon DEF Pick, Does
<1>2. CASE End(p)
  BY <1>1, <1>2, Ends
<1>3. CASE ~ End(p)
  <2>1. /\ run[p] \in Openings /\ \A k \in NetKeys : StoredCeiling(k) <= most[p][k]
    BY <1>1, WhoIsHere
  <2>2. cmd \in Commands /\ run[p].net \in NetKeys
    BY <2>1 DEF Openings
  <2>3. word \in TokenKeys \cup {None} /\ (cmd.do = "erc20" => word \in TokenKeys)
    <3>. HIDE DEF cmd
    <3>1. CASE cmd.do = "send"
      BY <3>1
    <3>2. CASE cmd.do = "token"
      BY <3>2, FindTokenNames
    <3>3. CASE cmd.do = "erc20"
      <4>1. PICK i \in DOMAIN Tokens : Tokens[i].id = cmd.what
        BY <2>2, <3>3, PlanAssumption
      <4>2. TokenById(cmd.what) = Tokens[i]
        BY <4>1, TokenOf
      <4>. QED BY <3>3, <4>2 DEF TokenKeys
    <3>. QED BY <1>1, <3>1, <3>2, <3>3
  <2>4. net \in NetKeys /\ (word # None => Token(word).net = net)
    <3>1. word # None => Token(word).net \in NetKeys
      BY <2>3, TokenIsRow DEF TokenRows
    <3>2. cmd.do = "send" => word = None
      OBVIOUS
    <3>. HIDE DEF cmd, word
    <3>. QED BY <1>1, <1>3, <2>2, <3>1, <3>2
  <2>. HIDE DEF word, net
  <2>5. /\ DOMAIN picked = Fields
        /\ picked.at = "picked" /\ picked.cmd = cmd /\ picked.net = net /\ picked.token = word
        /\ picked.acct = AccountOn[Net(net).chain]
        /\ cmd.do # "erc20" => picked.raw = raw /\ picked.unit = unit
    <3>. HIDE DEF raw, unit
    <3>. QED BY DEF Fields
  <2>6. AmountUnits(picked) = unit /\ unit \in Units
    <3>1. r.net = net /\ r.token = word
      OBVIOUS
    <3>. HIDE DEF picked, r
    <3>. QED BY <2>3, <2>4, <2>5, <3>1, UnitsAre DEF AmountUnits
  <2>7. Moving(picked, most[p][picked.net])
    <3>1. cmd.do # "erc20" => Counts(picked)
      <4>. HIDE DEF picked, unit
      <4>. QED BY <1>1, <1>3, <2>5, <2>6 DEF Counts
    <3>. HIDE DEF picked, raw, unit
    <3>2. Chosen(picked)
      BY <1>1, <1>3, <2>2, <2>3, <2>4, <2>5, <2>6, <3>1 DEF Chosen
    <3>. QED BY <2>5, <3>2 DEF Moving, Capped, Reached, Counted, Planned
  <2>8. RunOK(picked, most[p])
    <3>. HIDE DEF picked
    <3>. QED BY <2>1, <2>7 DEF RunOK
  <2>. HIDE DEF picked
  <2>. QED BY <1>1, <1>3, <2>8, Goes
<1>. QED BY <1>2, <1>3

(* A send that goes on keeps what it was chosen to be.                     *)
LEMMA StaysChosen ==
  ASSUME NEW r, Chosen(r), NEW s, DOMAIN s = Fields,
         s.cmd = r.cmd, s.net = r.net, s.token = r.token, s.acct = r.acct, s.raw = r.raw, s.unit = r.unit
  PROVE  Chosen(s) /\ (Counts(r) => Counts(s))
<1>1. AmountUnits(s) = AmountUnits(r)
  BY DEF AmountUnits
<1>. QED BY <1>1 DEF Chosen, Counts

LEMMA GoesOn ==
  ASSUME Inv, NEW p \in Procs, run[p].at \in Capped \cup {"picked"}, NEW r, Goto(p, r),
         Moving(r, most[p][run[p].net]), r.net = run[p].net,
         UNCHANGED <<conf, history, sent, most, set>>
  PROVE  Inv'
<1>1. \A k \in NetKeys : StoredCeiling(k) <= most[p][k]
  BY WhoIsHere DEF Capped
<1>2. RunOK(r, most[p])
  BY <1>1 DEF RunOK
<1>. QED BY <1>2, Goes

LEMMA Caps == ASSUME Inv, NEW p \in Procs, Cap(p) PROVE Inv'
<1>. DEFINE r == run[p]
            limit == IF r.cmd.do = "erc20" THEN Net(r.net).maxFee ELSE CeilingOn(r.net, r.cmd.flag)
            s == [r EXCEPT !.at = "capped", !.limit = limit]
            c == most[p][r.net]
<1>1. r.at = "picked" /\ UNCHANGED <<conf, history, sent, most, set>>
      /\ IF limit = Bad THEN End(p) ELSE Goto(p, s)
  BY DEF Cap, At
<1>2. Moving(r, c) /\ \A k \in NetKeys : StoredCeiling(k) <= most[p][k]
  BY <1>1, WhoIsHere
<1>3. Chosen(r) /\ r.net \in NetKeys /\ r.cmd \in Commands
  BY <1>2 DEF Moving, Chosen
<1>4. Net(r.net).maxFee \in Nat /\ Net(r.net).feeUnit \in Units
  <2>1. Net(r.net) \in NetRows
    BY <1>3, NetIsRow
  <2>. QED BY <2>1 DEF NetRows
<1>5. StoredCeiling(r.net) \in Nat
  BY <1>3, <1>4 DEF Inv, ConfOK
<1>6. r.cmd.flag \in Nat \cup {NoFlag}
  BY <1>3, PlanAssumption DEF Words
<1>7. limit \in Nat \cup {Bad} /\ (r.cmd.do = "erc20" \/ limit = Least(r, StoredCeiling(r.net)))
  <2>1. r.cmd.flag # NoFlag => Parse(r.cmd.flag, Net(r.net).feeUnit) \in Nat \cup {Bad}
    BY <1>4, <1>6, ParseIs
  <2>. QED BY <1>4, <1>5, <2>1 DEF CeilingOn, Least
<1>8. limit # Bad => r.cmd.do = "erc20" \/ limit <= Least(r, c)
  <2>1. StoredCeiling(r.net) <= c
    BY <1>2, <1>3
  <2>. HIDE DEF limit
  <2>. QED BY <1>5, <1>7, <2>1 DEF Least
<1>9. DOMAIN s = Fields /\ s.at = "capped" /\ s.limit = limit /\ s.cmd = r.cmd /\ s.net = r.net
      /\ s.token = r.token /\ s.acct = r.acct /\ s.raw = r.raw /\ s.unit = r.unit
  <2>. HIDE DEF limit, r
  <2>. QED BY <1>3 DEF Chosen, Fields
<1>10. CASE limit = Bad
  BY <1>1, <1>10, Ends
<1>11. CASE limit # Bad
  <2>. HIDE DEF limit, s
  <2>1. Chosen(s) /\ Least(s, c) = Least(r, c)
    BY <1>3, <1>9, StaysChosen DEF Least
  <2>2. Moving(s, c)
    BY <1>7, <1>8, <1>9, <1>11, <2>1 DEF Moving, Capped, Reached, Counted, Planned
  <2>. QED BY <1>1, <1>9, <1>11, <2>2, GoesOn
<1>. QED BY <1>10, <1>11

LEMMA Connects == ASSUME Inv, NEW p \in Procs, Connect(p) PROVE Inv'
<1>. DEFINE r == run[p]
            node == ClientConfig(r.net)
            s == [r EXCEPT !.at = "connected", !.node = node]
            c == most[p][r.net]
<1>1. r.at = "capped" /\ Goto(p, s) /\ UNCHANGED <<conf, history, sent, most, set>>
  BY DEF Connect, At
<1>2. Moving(r, c) /\ Chosen(r)
  BY <1>1, WhoIsHere DEF Moving, Capped
<1>3. node.read[1] = r.net /\ node.submit[1] = r.net
  BY DEF ClientConfig, NodeFor, SubmitFor, Endpoint
<1>4. DOMAIN s = Fields /\ s.at = "connected" /\ s.limit = r.limit /\ s.node = node /\ s.cmd = r.cmd
      /\ s.net = r.net /\ s.token = r.token /\ s.acct = r.acct /\ s.raw = r.raw /\ s.unit = r.unit
  <2>. HIDE DEF node, r
  <2>. QED BY <1>2 DEF Chosen, Fields
<1>. HIDE DEF s, node
<1>5. Chosen(s) /\ Least(s, c) = Least(r, c)
  BY <1>2, <1>4, StaysChosen DEF Least
<1>6. Moving(s, c)
  BY <1>1, <1>2, <1>3, <1>4, <1>5 DEF Moving, Nearby, Capped, Reached, Counted, Planned
<1>. QED BY <1>1, <1>4, <1>6, GoesOn DEF Capped

LEMMA Prepares == ASSUME Inv, NEW p \in Procs, Prepare(p) PROVE Inv'
<1>. DEFINE r == run[p]
            c == most[p][r.net]
<1>1. /\ r.at = "counted" \/ (r.at = "connected" /\ r.cmd.do # "erc20")
      /\ UNCHANGED <<conf, history, sent, most, set>>
  BY DEF Prepare, At
<1>2. Moving(r, c) /\ Chosen(r) /\ r.net \in NetKeys /\ r.limit \in Nat /\ Nearby(r) /\ Counts(r)
      /\ (r.cmd.do = "erc20" \/ r.limit <= Least(r, c))
  BY <1>1, WhoIsHere DEF Moving, Chosen, Capped, Reached, Counted
<1>3. PICK see \in Answers[Net(r.net).chain] : \E tx \in Plans(r, see) :
        IF tx.ok THEN Goto(p, [r EXCEPT !.at = "planned", !.tx = tx, !.see = see]) ELSE End(p)
  BY DEF Prepare
<1>. SUFFICES ASSUME NEW tx \in Plans(r, see),
                     IF tx.ok THEN Goto(p, [r EXCEPT !.at = "planned", !.tx = tx, !.see = see])
                     ELSE End(p)
              PROVE  Inv'
  BY <1>3
<1>4. CASE ~ tx.ok
  BY <1>1, <1>4, Ends
<1>5. CASE tx.ok
  <2>. DEFINE s == [r EXCEPT !.at = "planned", !.tx = tx, !.see = see]
  <2>1. tx.fee \in Nat /\ tx.fee <= r.limit
    BY <1>2, <1>5, PlansKeepTheLimit
  <2>2. DOMAIN s = Fields /\ s.at = "planned" /\ s.limit = r.limit /\ s.node = r.node /\ s.cmd = r.cmd
        /\ s.net = r.net /\ s.token = r.token /\ s.acct = r.acct /\ s.raw = r.raw /\ s.unit = r.unit /\ s.tx = tx
    <3>. HIDE DEF r
    <3>. QED BY <1>2 DEF Chosen, Fields
  <2>3. Goto(p, s)
    BY <1>5
  <2>. HIDE DEF s
  <2>4. Chosen(s) /\ Counts(s) /\ Nearby(s) /\ Least(s, c) = Least(r, c)
    BY <1>2, <2>2, StaysChosen DEF Least, Nearby
  <2>5. r.cmd.do = "erc20" \/ tx.fee <= Least(r, c)
    <3>1. c \in Nat
      BY <1>2 DEF Inv
    <3>2. Least(r, c) \in Int
      <4>1. r.cmd.flag \in Nat \cup {NoFlag} /\ Net(r.net).feeUnit \in Units
        BY <1>2, NetIsRow, PlanAssumption DEF Words, Chosen, NetRows
      <4>2. r.cmd.flag # NoFlag => Parse(r.cmd.flag, Net(r.net).feeUnit) \in Int
        BY <4>1, ParseIs DEF Bad
      <4>. QED BY <3>1, <4>2 DEF Least
    <3>. QED BY <1>2, <2>1, <3>2
  <2>6. Moving(s, c)
    BY <1>2, <2>1, <2>2, <2>4, <2>5 DEF Moving, Capped, Reached, Counted, Planned
  <2>. QED BY <1>1, <2>2, <2>3, <2>6, GoesOn DEF Capped
<1>. QED BY <1>4, <1>5

(* The contract's decimals are a unit, and the amount is read in it.       *)
LEMMA Counting == ASSUME Inv, NEW p \in Procs, Decimals(p) PROVE Inv'
<1>. DEFINE r == run[p]
            c == most[p][r.net]
<1>1. r.at = "connected" /\ r.cmd.do = "erc20" /\ UNCHANGED <<conf, history, sent, most, set>>
  BY DEF Decimals, At
<1>2. Moving(r, c) /\ Chosen(r) /\ r.net \in NetKeys /\ Nearby(r)
      /\ r.token \in TokenKeys /\ Net(r.net).chain = "evm"
  BY <1>1, WhoIsHere DEF Moving, Chosen, Capped, Reached
<1>3. PICK see \in Answers["evm"] :
        LET unit == Unit(see.scale, Token(r.token).unit.symbol)
            raw  == Parse(r.cmd.n, unit)
        IN  IF raw = Bad THEN End(p)
            ELSE Goto(p, [r EXCEPT !.at = "counted", !.raw = raw, !.unit = unit])
  BY <1>2 DEF Decimals
<1>. DEFINE unit == Unit(see.scale, Token(r.token).unit.symbol)
            raw  == Parse(r.cmd.n, unit)
            s    == [r EXCEPT !.at = "counted", !.raw = raw, !.unit = unit]
<1>4. CASE raw = Bad
  BY <1>1, <1>3, <1>4, Ends
<1>5. CASE raw # Bad
  <2>1. unit \in Units
    <3>1. see.scale \in Nat \ {0}
      BY <1>2, NetIsRow, PlanAssumption DEF EvmSees
    <3>2. Token(r.token).unit \in Units
      BY <1>2, TokenIsRow DEF TokenRows
    <3>. QED BY <3>1, <3>2 DEF Unit, Units
  <2>2. Goto(p, s)
    BY <1>3, <1>5
  <2>3. DOMAIN s = Fields /\ s.at = "counted" /\ s.limit = r.limit /\ s.node = r.node /\ s.cmd = r.cmd
        /\ s.net = r.net /\ s.token = r.token /\ s.acct = r.acct /\ s.raw = raw /\ s.unit = unit
    <3>. HIDE DEF r, unit, raw
    <3>. QED BY <1>2 DEF Chosen, Fields
  <2>4. s.raw = Parse(s.cmd.n, s.unit)
    <3>. HIDE DEF s, unit
    <3>. QED BY <2>3
  <2>. HIDE DEF s, unit, raw
  <2>5. Chosen(s) /\ Counts(s) /\ Nearby(s) /\ Least(s, c) = Least(r, c)
    BY <1>1, <1>2, <1>5, <2>1, <2>3, <2>4 DEF Chosen, Counts, Nearby, Least
  <2>6. Moving(s, c)
    BY <1>1, <1>2, <2>3, <2>5 DEF Moving, Capped, Reached, Counted, Planned
  <2>. QED BY <1>1, <2>2, <2>3, <2>6, GoesOn DEF Capped
<1>. QED BY <1>4, <1>5

(* A send that only moves to a later place.                                *)
LEMMA Advances ==
  ASSUME NEW r, NEW c, Moving(r, c), NEW at \in Planned, r.at \in Planned,
         at = "agreed" => r.cmd.do # "erc20"
  PROVE  LET s == [r EXCEPT !.at = at]
         IN  Moving(s, c) /\ s.net = r.net
<1>. DEFINE s == [r EXCEPT !.at = at]
<1>1. DOMAIN s = Fields /\ s.at = at /\ s.limit = r.limit /\ s.node = r.node /\ s.cmd = r.cmd
      /\ s.net = r.net /\ s.token = r.token /\ s.acct = r.acct /\ s.raw = r.raw /\ s.unit = r.unit /\ s.tx = r.tx
  BY DEF Moving, Chosen, Fields
<1>. HIDE DEF s
<1>2. Chosen(s) /\ (Counts(r) => Counts(s)) /\ (Nearby(r) => Nearby(s)) /\ Least(s, c) = Least(r, c)
  BY <1>1, StaysChosen DEF Least, Moving, Nearby
<1>3. Moving(s, c)
  BY <1>1, <1>2 DEF Moving, Capped, Reached, Counted, Planned
<1>. QED BY <1>1, <1>3 DEF s

LEMMA Agrees == ASSUME Inv, NEW p \in Procs, Agree(p) PROVE Inv'
<1>. DEFINE at == IF run[p].cmd.do = "erc20" THEN "recorded" ELSE "agreed"
            s == [run[p] EXCEPT !.at = at]
<1>1. run[p].at = "planned" /\ Goto(p, s) /\ UNCHANGED <<conf, history, sent, most, set>>
  BY DEF Agree, At
<1>2. /\ run[p].at \in Planned /\ run[p].at \in Capped \cup {"picked"} /\ at \in Planned
      /\ at = "agreed" => run[p].cmd.do # "erc20"
  BY <1>1 DEF Planned, Counted, Reached, Capped
<1>3. Moving(run[p], most[p][run[p].net])
  BY <1>1, <1>2, WhoIsHere
<1>. HIDE DEF at
<1>4. Moving(s, most[p][run[p].net]) /\ s.net = run[p].net
  BY <1>2, <1>3, Advances
<1>. HIDE DEF s
<1>. QED BY <1>1, <1>2, <1>4, GoesOn

(* What is written down of a send reads back as what it moves, in the      *)
(* catalogue's units unless it went by the contract's.                     *)
LEMMA RecordReadsBack ==
  ASSUME NEW r, Chosen(r), Counts(r), NEW status
  PROVE  LET h == RecordOf(r, status)
         IN  /\ r.cmd.do # "erc20" => Parse(h.value, AssetUnit(h.net, h.token)) = h.raw
             /\ h.net = r.net /\ h.raw = r.raw /\ h.to = r.cmd.to
<1>. DEFINE h == RecordOf(r, status)
            unit == r.unit
<1>1. h.net = r.net /\ h.raw = r.raw /\ h.to = r.cmd.to /\ h.value = Format(r.raw, unit)
      /\ h.token = IF r.token = None THEN None ELSE Token(r.token).id
  BY DEF RecordOf
<1>2. r.cmd.do # "erc20" => AssetUnit(r.net, h.token) = unit
  BY <1>1, TokenIsRow DEF AssetUnit, AmountUnits, Chosen
<1>3. unit \in Units /\ r.cmd.n \in Nat
  <2>1. r.cmd \in Words
    BY PlanAssumption DEF Chosen
  <2>. QED BY <2>1 DEF Counts, Words
<1>4. r.raw = Parse(r.cmd.n, unit) /\ r.raw # Bad
  BY DEF Counts
<1>. HIDE DEF h, unit
<1>5. Format(r.raw, unit) = r.cmd.n
  BY <1>3, <1>4, ReadsBack
<1>. QED BY <1>1, <1>2, <1>4, <1>5 DEF h

LEMMA Records == ASSUME Inv, NEW p \in Procs, Record(p) PROVE Inv'
<1>. DEFINE r == run[p]
            s == [r EXCEPT !.at = "recorded"]
            h == RecordOf(r, "submitting")
<1>1. r.at = "agreed" /\ Goto(p, s) /\ UNCHANGED <<conf, sent, most, set>>
      /\ history' = history \cup {h}
  BY DEF Record, At
<1>2. r.at \in Planned /\ r.at \in Capped /\ r.at \in Counted /\ "recorded" \in Planned
  BY <1>1 DEF Planned, Counted, Reached, Capped
<1>3. /\ Moving(r, most[p][r.net]) /\ Chosen(r) /\ Counts(r) /\ r.cmd.do # "erc20"
      /\ \A k \in NetKeys : StoredCeiling(k) <= most[p][k]
  BY <1>1, <1>2, WhoIsHere DEF Moving
<1>4. Moving(s, most[p][s.net])
  BY <1>2, <1>3, Advances
<1>5. RunOK(s, most[p])
  BY <1>3, <1>4 DEF RunOK
<1>6. HistoryOK'
  <2>1. Parse(h.value, AssetUnit(h.net, h.token)) = h.raw
    BY <1>3, RecordReadsBack
  <2>. HIDE DEF h
  <2>. QED BY <1>1, <2>1 DEF Inv, HistoryOK, ByContract
<1>7. SentOK'
  <2>. HIDE DEF h
  <2>. QED BY <1>1 DEF Inv, SentOK
<1>. HIDE DEF s
<1>8. \A k \in NetKeys : StoredCeiling(k)' = StoredCeiling(k)
  BY <1>1, CeilingIs
<1>9. ConfOK'
  BY <1>1, <1>8 DEF Inv, ConfOK
<1>10. DOMAIN run' = Procs /\ \A q \in Procs : run'[q] = IF q = p THEN s ELSE run[q]
  BY <1>1 DEF Goto, Inv
<1>11. ASSUME NEW q \in Procs PROVE RunOK(run[q], most[q])'
  <2>1. RunOK(run'[q], most[q])
    BY <1>5, <1>10 DEF Inv
  <2>. QED BY <1>1, <1>8, <2>1 DEF RunOK
<1>. QED BY <1>1, <1>6, <1>7, <1>9, <1>10, <1>11 DEF Inv

LEMMA Submits == ASSUME Inv, NEW p \in Procs, Submit(p) PROVE Inv'
<1>. DEFINE r == run[p]
            was == RecordOf(r, "submitting")
            next == [r EXCEPT !.at = "submitted"]
            gone == [r |-> r, within |-> most[p][r.net], end |-> Pending]
<1>1. r.at = "recorded" /\ UNCHANGED <<conf, most, set>>
  BY DEF Submit, At
<1>2. PICK accepted \in BOOLEAN :
        /\ sent' = IF ~accepted THEN sent ELSE sent \cup {gone}
        /\ history' = IF r.cmd.do # "erc20"
                      THEN (history \ {was}) \cup {RecordOf(r, IF accepted THEN "submitted" ELSE "unconfirmed")}
                      ELSE IF accepted
                      THEN history \cup {RecordOf(r, IF accepted THEN "submitted" ELSE "unconfirmed")} ELSE history
        /\ Goto(p, IF accepted THEN next ELSE Idle)
  BY DEF Submit, End
<1>. DEFINE now == RecordOf(r, IF accepted THEN "submitted" ELSE "unconfirmed")
            s == IF accepted THEN next ELSE Idle
<1>3. /\ r.at \in Planned /\ r.at \in Capped /\ r.at \in Reached /\ r.at \in Counted
      /\ "submitted" \in Planned
  BY <1>1 DEF Planned, Counted, Reached, Capped
<1>4. /\ Moving(r, most[p][r.net]) /\ Chosen(r) /\ Counts(r) /\ Nearby(r)
      /\ \A k \in NetKeys : StoredCeiling(k) <= most[p][k]
  BY <1>1, <1>3, WhoIsHere DEF Moving
<1>5. Moving(next, most[p][next.net])
  BY <1>3, <1>4, Advances
<1>6. RunOK(s, most[p])
  <2>. HIDE DEF next
  <2>. QED BY <1>4, <1>5 DEF RunOK
<1>7. /\ r.cmd.do # "erc20" => Parse(now.value, AssetUnit(now.net, now.token)) = now.raw
      /\ now.net = r.net /\ now.raw = r.raw /\ now.to = r.cmd.to
      /\ was.net = r.net /\ was.raw = r.raw /\ was.to = r.cmd.to
  <2>1. \A status : RecordOf(r, status).net = r.net /\ RecordOf(r, status).raw = r.raw
                    /\ RecordOf(r, status).to = r.cmd.to
    BY <1>4, RecordReadsBack
  <2>. QED BY <1>4, <2>1, RecordReadsBack
<1>8. gone = [r |-> r, within |-> most[p][r.net], end |-> Pending]
  OBVIOUS
<1>. HIDE DEF now, was, gone, next
<1>9. HistoryOK'
  <2>1. ASSUME NEW h \in history, ByContract(h) PROVE ByContract(h)'
    BY <1>2, <2>1 DEF ByContract
  <2>2. ASSUME r.cmd.do = "erc20", accepted, NEW h, h = now PROVE ByContract(h)'
    <3>1. gone \in sent' /\ gone.r = r /\ now = RecordOf(r, "submitted")
      BY <1>2, <1>8, <2>2 DEF now
    <3>. QED BY <2>2, <3>1 DEF ByContract
  <2>3. ASSUME NEW h \in history' PROVE h \in history \/ (h = now /\ (r.cmd.do # "erc20" \/ accepted))
    BY <1>2, <2>3 DEF now
  <2>. QED BY <1>7, <2>1, <2>2, <2>3 DEF Inv, HistoryOK
<1>10. ASSUME NEW h \in history
       PROVE  \E k \in history' : k.net = h.net /\ k.raw = h.raw /\ k.to = h.to
  BY <1>2, <1>7 DEF now
<1>11. SentOK'
  <2>1. ASSUME NEW t \in sent' PROVE t \in sent \/ (accepted /\ t = gone)
    BY <1>2, <2>1
  <2>2. ASSUME NEW t \in sent
        PROVE  /\ DOMAIN t = {"r", "within", "end"} /\ Chosen(t.r) /\ Counts(t.r) /\ Nearby(t.r)
               /\ t.r.cmd.do = "erc20" \/ t.r.tx.fee <= Least(t.r, t.within)
               /\ \E h \in history' : h.net = t.r.net /\ h.raw = t.r.raw /\ h.to = t.r.cmd.to
    BY <1>10 DEF Inv, SentOK
  <2>3. ASSUME accepted
        PROVE  /\ DOMAIN gone = {"r", "within", "end"} /\ Chosen(gone.r) /\ Counts(gone.r) /\ Nearby(gone.r)
               /\ gone.r.cmd.do = "erc20" \/ gone.r.tx.fee <= Least(gone.r, gone.within)
               /\ \E h \in history' : h.net = gone.r.net /\ h.raw = gone.r.raw /\ h.to = gone.r.cmd.to
    <3>1. DOMAIN gone = {"r", "within", "end"} /\ gone.r = r /\ gone.within = most[p][r.net]
      BY <1>8
    <3>2. now \in history'
      BY <1>2, <2>3 DEF now
    <3>. QED BY <1>3, <1>4, <1>7, <3>1, <3>2 DEF Moving
  <2>. QED BY <2>1, <2>2, <2>3 DEF SentOK
<1>12. \A k \in NetKeys : StoredCeiling(k)' = StoredCeiling(k)
  BY <1>1, CeilingIs
<1>13. ConfOK'
  BY <1>1, <1>12 DEF Inv, ConfOK
<1>14. DOMAIN run' = Procs /\ \A q \in Procs : run'[q] = IF q = p THEN s ELSE run[q]
  BY <1>2 DEF Goto, Inv
<1>. HIDE DEF s
<1>15. ASSUME NEW q \in Procs PROVE RunOK(run[q], most[q])'
  <2>1. RunOK(run'[q], most[q])
    BY <1>6, <1>14 DEF Inv
  <2>. QED BY <1>1, <1>12, <2>1 DEF RunOK
<1>. QED BY <1>1, <1>9, <1>11, <1>13, <1>14, <1>15 DEF Inv

(* What becomes of a transaction changes nothing of what was sent.         *)
LEMMA Lands == ASSUME Inv, NEW t \in sent, Land(t) PROVE Inv'
<1>1. PICK end : sent' = (sent \ {t}) \cup {[t EXCEPT !.end = end]}
  BY Zenon DEF Land
<1>2. UNCHANGED <<conf, run, history, most, set>>
  BY DEF Land
<1>. DEFINE u == [t EXCEPT !.end = end]
<1>3. DOMAIN u = {"r", "within", "end"} /\ u.r = t.r /\ u.within = t.within
  BY DEF Inv, SentOK
<1>. HIDE DEF u
<1>4. SentOK'
  <2>1. sent' = (sent \ {t}) \cup {u} /\ history' = history
    BY <1>1, <1>2 DEF u
  <2>. QED BY <1>3, <2>1 DEF Inv, SentOK
<1>5. \A k \in NetKeys : StoredCeiling(k)' = StoredCeiling(k)
  BY <1>2, CeilingIs
<1>6. ConfOK' /\ HistoryOK'
  <2>1. sent' = (sent \ {t}) \cup {u}
    BY <1>1 DEF u
  <2>2. ASSUME NEW h, ByContract(h) PROVE ByContract(h)'
    BY <1>3, <2>1, <2>2 DEF ByContract
  <2>. QED BY <1>2, <1>5, <2>2 DEF Inv, ConfOK, HistoryOK
<1>7. ASSUME NEW q \in Procs PROVE RunOK(run[q], most[q])'
  <2>1. RunOK(run[q], most[q])
    BY DEF Inv
  <2>. QED BY <1>2, <1>5, <2>1 DEF RunOK
<1>. QED BY <1>2, <1>4, <1>6, <1>7 DEF Inv

LEMMA Rests == ASSUME Inv, UNCHANGED <<conf, run, history, sent, most, set>> PROVE Inv'
<1>1. \A k \in NetKeys : StoredCeiling(k)' = StoredCeiling(k)
  BY CeilingIs
<1>2. ASSUME NEW q \in Procs PROVE RunOK(run[q], most[q])'
  <2>1. RunOK(run[q], most[q])
    BY DEF Inv
  <2>. QED BY <1>1, <2>1 DEF RunOK
<1>. QED BY <1>1, <1>2 DEF Inv, ConfOK, HistoryOK, SentOK, ByContract

LEMMA InitInv == Init => Inv
<1>. SUFFICES ASSUME Init PROVE Inv
  OBVIOUS
<1>1. conf \in Configs /\ \A c \in Chains : conf.on[c] = None
  BY DEF Init, Configs, NoText, FeeTexts, Urls
<1>2. set \in [NetKeys -> Nat] /\ \A k \in NetKeys : set[k] = 0
  BY DEF Init
<1>3. ASSUME NEW k \in NetKeys PROVE StoredCeiling(k) = Net(k).maxFee
  <2>1. conf.ceiling[k] = NoText /\ Net(k).feeUnit \in Units
    BY <1>3, NetIsRow DEF Init, NetRows
  <2>2. ParseFee(NoText, Net(k).feeUnit) = 0
    <3>1. (0 * Net(k).feeUnit.scale) % Grid = 0 /\ (0 * Net(k).feeUnit.scale) \div Grid = 0
      BY <2>1, CatalogueAssumption DEF Units
    <3>. QED BY <3>1 DEF ParseFee, NoText, Parse
  <2>. QED BY <2>1, <2>2 DEF StoredCeiling
<1>4. ConfOK
  BY <1>1, <1>2, <1>3 DEF ConfOK
<1>5. most \in [Procs -> [NetKeys -> Nat]] /\ DOMAIN run = Procs
      /\ \A p \in Procs : RunOK(run[p], most[p])
  BY DEF Init, RunOK
<1>. QED BY <1>4, <1>5 DEF Init, Inv, SentOK, HistoryOK

LEMMA StepInv == Inv /\ [Next]_vars => Inv'
<1>. SUFFICES ASSUME Inv, [Next]_vars PROVE Inv'
  OBVIOUS
<1>1. CASE UNCHANGED vars
  BY <1>1, Rests DEF vars
<1>2. ASSUME NEW s \in sent, Land(s) PROVE Inv'
  BY <1>2, Lands
<1>3. ASSUME NEW p \in Procs, Step(p) PROVE Inv'
  <2>1. CASE Open(p) \/ Use(p) \/ UseOnChain(p) \/ SetCeiling(p) \/ SetRpc(p)
    BY <2>1, Opens, Uses, UsesOnChain, SetsCeiling, SetsRpc
  <2>2. CASE Balance(p) \/ Balances(p) \/ TokenBalance(p) \/ Drop(p) \/ Finish(p)
    BY <2>2, Ends DEF Balance, Balances, TokenBalance, Drop, Finish
  <2>3. CASE Pick(p) \/ Cap(p) \/ Connect(p) \/ Decimals(p) \/ Prepare(p) \/ Agree(p) \/ Record(p) \/ Submit(p)
    BY <2>3, Picks, Caps, Connects, Counting, Prepares, Agrees, Records, Submits
  <2>. QED BY <1>3, <2>1, <2>2, <2>3 DEF Step
<1>. QED BY <1>1, <1>2, <1>3 DEF Next

LEMMA Invariant == Spec => []Inv
BY InitInv, StepInv, PTL DEF Spec

(* ------------------------------ theorems -------------------------------- *)
(* No transfer leaves at a fee over its flag, or over every ceiling its    *)
(* network had while the command ran; and a ceiling once set is the one    *)
(* read from then on (App::fee_ceiling_on, check_fee, SetMaxFee).          *)
THEOREM FeesStayWithinTheCeiling == Spec => []WithinTheCeiling
<1>1. Inv => WithinTheCeiling
  BY DEF Inv, ConfOK, SentOK, Least, WithinTheCeiling
<1>. QED BY <1>1, Invariant, PTL

(* What leaves, spelled in the units of the thing that moves, is the text  *)
(* that was typed, and every line of history gives its amount back         *)
(* (App::plan_send, plan_token_send, execute_send).                        *)
THEOREM AmountsAreAsTyped == Spec => []MovesWhatWasTyped
<1>1. ASSUME NEW r, Chosen(r), Counts(r)
      PROVE  LET id == IF r.token = None THEN None ELSE Token(r.token).id
             IN  Format(r.raw, IF r.cmd.do = "erc20" THEN r.unit ELSE AssetUnit(r.net, id)) = r.cmd.n
  <2>. DEFINE unit == r.unit
  <2>1. r.cmd.do # "erc20" => AssetUnit(r.net, IF r.token = None THEN None ELSE Token(r.token).id) = unit
    BY <1>1, TokenIsRow DEF AssetUnit, AmountUnits, Chosen
  <2>2. unit \in Units /\ r.cmd.n \in Nat
    <3>1. r.cmd \in Words
      BY <1>1, PlanAssumption DEF Chosen
    <3>. QED BY <1>1, <3>1 DEF Counts, Words
  <2>3. r.raw = Parse(r.cmd.n, unit) /\ r.raw # Bad
    BY <1>1 DEF Counts
  <2>4. Format(r.raw, unit) = r.cmd.n
    <3>. HIDE DEF unit
    <3>. QED BY <2>2, <2>3, ReadsBack
  <2>. QED BY <2>1, <2>4
<1>2. Inv => MovesWhatWasTyped
  BY <1>1 DEF Inv, SentOK, HistoryOK, MovesWhatWasTyped
<1>. QED BY <1>2, Invariant, PTL

(* A text that check_address takes was made for the network it is for.     *)
LEMMA AddressIsOf ==
  ASSUME NEW key \in NetKeys, NEW text, CheckAddress(Net(key), text), Net(key).marked
  PROVE  text.made = Net(key).mark
<1>. DEFINE net == Net(key)
<1>1. net.mark # None /\ net.chain \in {"ecash", "cardano", "midnight"}
  BY NetIsRow
<1>2. MarkOf(net, text) = net.mark
  BY DEF CheckAddress
<1>. HIDE DEF net
<1>3. ASSUME net.chain = "ecash" PROVE text.made = net.mark
  BY <1>1, <1>2, <1>3 DEF MarkOf, CashAddrMark
<1>4. ASSUME net.chain = "cardano" PROVE text.made = net.mark
  BY <1>1, <1>2, <1>4 DEF MarkOf, CardanoMark
<1>5. ASSUME net.chain = "midnight" PROVE text.made = net.mark
  BY <1>1, <1>2, <1>5 DEF MarkOf, MidnightMark
<1>. QED BY <1>1, <1>3, <1>4, <1>5 DEF net

(* Whatever it is shown with, an address that was taken was made for the   *)
(* network the transfer leaves for (check_address, Address::parse).        *)
THEOREM AddressesAreOfTheNetwork == Spec => []NeverAcrossNetworks
<1>1. ASSUME NEW r, Chosen(r), Net(r.net).marked
      PROVE  r.cmd.to.made = Net(r.net).mark
  BY <1>1, AddressIsOf DEF Chosen
<1>2. Inv => NeverAcrossNetworks
  BY <1>1 DEF Inv, SentOK, NeverAcrossNetworks
<1>. QED BY <1>2, Invariant, PTL

(* A balance is asked of a network with the address that network writes.   *)
(* `token balance` asks with the address its chain's default network       *)
(* writes, so this is of commands that give an address or name tokens      *)
(* whose network writes addresses the same way: the code has no such care. *)
WritesAlike(key) ==
  LET net  == Net(key)
      home == Net(DefaultFor(net.chain))
  IN  home.marked = net.marked /\ (net.marked => home.mark = net.mark)
AsksOfLikeTokens ==
  \A cmd \in Commands, key \in NetKeys :
    cmd.do = "tokenBalance" /\ ~GivesAddress(cmd) /\ (cmd.net # None => key = Named(cmd)) =>
      LET t == FindToken(key, cmd.what) IN t # None => WritesAlike(Token(t).net)

AskedRight(q) == /\ q.net \in NetKeys
                 /\ IF q.own THEN q.of = Written(Net(q.net), AccountOn[Net(q.net).chain])
                    ELSE Net(q.net).marked => q.of.made = Net(q.net).mark
AskedOK == \A q \in asked : AskedRight(q)

LEMMA GivenIsRight ==
  ASSUME NEW key \in NetKeys, NEW cmd
  PROVE  \A q \in Given(key, cmd) : AskedRight(q)
BY AddressIsOf DEF Given, AskedRight

LEMMA OwnIsRight ==
  ASSUME NEW key \in NetKeys
  PROVE  \A q \in Own(key, Written(Net(key), AccountOn[Net(key).chain])) : AskedRight(q)
BY DEF Own, AskedRight

LEMMA Asks ==
  ASSUME AsksOfLikeTokens, Inv, AskedOK, [Next]_vars
  PROVE  AskedOK'
<1>1. CASE asked' = asked
  BY <1>1 DEF AskedOK
<1>2. ASSUME NEW p \in Procs, Balance(p) PROVE AskedOK'
  <2>. DEFINE key == run[p].net
  <2>1. run[p].at = "open"
    BY <1>2 DEF Balance, Does
  <2>2. key \in NetKeys
    BY <2>1, WhoIsHere DEF Openings
  <2>3. asked' = asked \cup IF GivesAddress(run[p].cmd) THEN Given(key, run[p].cmd)
                            ELSE Own(key, Written(Net(key), AccountOn[Net(key).chain]))
    BY <1>2 DEF Balance, AddressFor
  <2>. HIDE DEF key
  <2>. QED BY <2>2, <2>3, GivenIsRight, OwnIsRight DEF AskedOK
<1>3. ASSUME NEW p \in Procs, Balances(p) PROVE AskedOK'
  <2>1. asked' = asked \cup UNION {Own(NetworkOn(c), Written(Net(NetworkOn(c)), AccountOn[c])) : c \in Chains}
    BY <1>3 DEF Balances, AddressFor
  <2>2. ASSUME NEW c \in Chains
        PROVE  \A q \in Own(NetworkOn(c), Written(Net(NetworkOn(c)), AccountOn[c])) : AskedRight(q)
    <3>1. NetworkOn(c) \in NetKeys /\ Net(NetworkOn(c)).chain = c
      BY NetworkOnIs
    <3>. QED BY <3>1, OwnIsRight
  <2>. QED BY <2>1, <2>2 DEF AskedOK
<1>4. ASSUME NEW p \in Procs, TokenBalance(p) PROVE AskedOK'
  <2>. DEFINE cmd == run[p].cmd
              t == FindToken(run[p].net, cmd.what)
              key == Token(t).net
              account == AccountOn[Net(key).chain]
  <2>1. run[p].at = "open" /\ cmd.do = "tokenBalance"
    BY <1>4 DEF TokenBalance, Does
  <2>2. /\ run[p].net \in NetKeys /\ cmd \in Commands
        /\ cmd.net # None => run[p].net = Named(cmd)
    BY <2>1, WhoIsHere DEF Openings
  <2>3. asked' = asked \cup IF t = None THEN {}
                            ELSE IF GivesAddress(cmd) THEN Given(key, cmd)
                            ELSE Own(key, StoredAddress(key, account))
    BY <1>4 DEF TokenBalance
  <2>4. CASE t = None
    BY <2>3, <2>4 DEF AskedOK
  <2>5. CASE t # None
    <3>1. t \in TokenKeys
      BY <2>5, FindTokenNames
    <3>2. key \in NetKeys
      BY <3>1, TokenIsRow DEF TokenRows
    <3>3. CASE GivesAddress(cmd)
      <4>1. asked' = asked \cup Given(key, cmd)
        BY <2>3, <2>5, <3>3
      <4>. HIDE DEF key, cmd
      <4>. QED BY <3>2, <4>1, GivenIsRight DEF AskedOK
    <3>4. CASE ~ GivesAddress(cmd)
      <4>1. WritesAlike(key)
        BY <2>1, <2>2, <2>5, <3>4 DEF AsksOfLikeTokens
      <4>2. asked' = asked \cup Own(key, StoredAddress(key, account))
        BY <2>3, <2>5, <3>4
      <4>. HIDE DEF key
      <4>3. StoredAddress(key, account) = Written(Net(key), account)
        BY <4>1 DEF WritesAlike, StoredAddress, Written
      <4>. QED BY <3>2, <4>2, <4>3, OwnIsRight DEF AskedOK
    <3>. QED BY <3>3, <3>4
  <2>. QED BY <2>4, <2>5
<1>5. ASSUME NEW p \in Procs, Step(p) PROVE AskedOK' \/ asked' = asked
  BY <1>2, <1>3, <1>4, <1>5
     DEF Step, Open, Use, UseOnChain, SetCeiling, SetRpc, Pick, Cap, Connect, Decimals, Prepare, Drop, Agree,
         Record, Submit, Finish
<1>6. ASSUME NEW s \in sent, Land(s) PROVE asked' = asked
  BY <1>6 DEF Land
<1>. QED BY <1>1, <1>5, <1>6 DEF Next, vars

(* Whatever the configuration came to say while a command ran: account,    *)
(* token, node, address and line of history are of one network (SendPlan,  *)
(* client_config, execute_send, address_for, balance_everywhere).          *)
THEOREM OneNetworkThroughout == AsksOfLikeTokens => (Spec => []OneNetwork)
<1>. SUFFICES ASSUME AsksOfLikeTokens PROVE Spec => []OneNetwork
  OBVIOUS
<1>1. Init => AskedOK
  BY DEF Init, AskedOK
<1>2. Inv /\ AskedOK /\ [Next]_vars => AskedOK'
  BY Asks
<1>3. Inv /\ AskedOK => OneNetwork
  <2>1. ASSUME NEW r, Nearby(r) PROVE r.node.read[1] = r.net /\ SubmitsTo(r)[1] = r.net
    BY <2>1 DEF Nearby, SubmitsTo
  <2>. QED BY <2>1 DEF Inv, SentOK, Chosen, AskedOK, AskedRight, OneNetwork
<1>. QED BY <1>1, <1>2, <1>3, Invariant, PTL DEF Spec
=============================================================================
