----------------------------- MODULE Catalogue -----------------------------
(***************************************************************************)
(* The tables a command looks names up in, and the conversions a command   *)
(* makes with what it finds: networks and tokens (network.rs, token.rs),   *)
(* decimal amounts (chain/amount.rs), fee ceilings as text (app.rs) and    *)
(* addresses (chain/*/address.rs, chain/*/mod.rs).                         *)
(*                                                                         *)
(* A decimal string is the number it spells counted in 1/Grid of a whole   *)
(* token.  A unit counts a token in 1/scale, scale <= Grid, so a text can  *)
(* be too fine for a unit, which is what a parser refuses.                 *)
(***************************************************************************)
EXTENDS Naturals, Integers, Sequences, FiniteSets, SequencesExt

CONSTANTS Networks,  \* sequence of rows, each chain's default first: [key,
                     \* short, chain, unit, feeUnit, maxFee, marked, mark, submits]
          Tokens,    \* sequence of rows: [key, id, symbol, net, unit, movable]
          Alias,     \* the spellings kept for one network: text -> key
          ChainWord, \* what --chain takes: word -> chain
          Grid       \* how finely a decimal string can be written

Bad == -1                          \* what a refused conversion comes to
None == ""                         \* an absent flag, key or text
Unit(scale, symbol) == [scale |-> scale, symbol |-> symbol]

(* Tables are read from the top: the first row that fits is the one meant. *)
KeyAt(rows, i) == IF i = 0 THEN None ELSE rows[i].key
NetKeys == {Networks[i].key : i \in DOMAIN Networks}
Chains == {Networks[i].chain : i \in DOMAIN Networks}
NetTable == [key \in NetKeys |-> Networks[CHOOSE i \in DOMAIN Networks : Networks[i].key = key]]
Net(key) == NetTable[key]
DefaultFor(chain) == KeyAt(Networks, SelectInSeq(Networks, LAMBDA n : n.chain = chain))
Shorts(word) == {i \in DOMAIN Networks : Networks[i].short = word}

(* network::find: a key, then a short name only one chain uses.            *)
Canonical(word) == IF word \in DOMAIN Alias THEN Alias[word] ELSE word
Find(word) == LET key == Canonical(word)
                  same == Shorts(key)
              IN  IF key \in NetKeys THEN key
                  ELSE IF Cardinality(same) = 1 THEN Networks[CHOOSE i \in same : TRUE].key
                  ELSE None

(* network::find_for: within a chain a short name means one thing, and the *)
(* aliases that keep bare names meaning Cronos do not apply.               *)
FindFor(chain, word) ==
  KeyAt(Networks, SelectInSeq(Networks, LAMBDA n : n.chain = chain /\ word \in {n.key, n.short}))

(* What the two tables hold (network.rs and token.rs ALL, and their tests): *)
(* keys and on-chain ids name one row, a token sits on a network there is, *)
(* and only three chains write the network into an address.                *)
Units == [scale : Nat \ {0}, symbol : STRING]
NetRows == [key : STRING \ {None}, short : STRING, chain : STRING, unit : Units, feeUnit : Units,
            maxFee : Nat \ {0}, marked : BOOLEAN, mark : STRING, submits : BOOLEAN]
TokenRows == [key : STRING \ {None}, id : STRING \ {None}, symbol : STRING, net : NetKeys,
              unit : Units, movable : BOOLEAN]
ASSUME CatalogueAssumption ==
  /\ Grid \in Nat \ {0}
  /\ Networks \in Seq(NetRows) /\ Networks # <<>>
  /\ Tokens \in Seq(TokenRows)
  /\ \A i, j \in DOMAIN Networks : Networks[i].key = Networks[j].key => i = j
  /\ \A i, j \in DOMAIN Tokens :
       Tokens[i].key = Tokens[j].key \/ Tokens[i].id = Tokens[j].id => i = j
  /\ \A i \in DOMAIN Networks : Networks[i].marked =>
       Networks[i].mark # None /\ Networks[i].chain \in {"ecash", "cardano", "midnight"}
  /\ \A w \in DOMAIN ChainWord : ChainWord[w] \in Chains

(* `network use`, `set-rpc` and `set-max-fee` try the chain in play first. *)
FindHere(chain, word) == IF FindFor(chain, word) # None
                         THEN FindFor(chain, word) ELSE Find(word)

(* token::find and find_on: a key, an id, or a symbol only one row has.    *)
TokenKeys == {Tokens[i].key : i \in DOMAIN Tokens}
TokenTable == [key \in TokenKeys |-> Tokens[CHOOSE i \in DOMAIN Tokens : Tokens[i].key = key]]
Token(key) == TokenTable[key]
TokenById(id) == Tokens[CHOOSE i \in DOMAIN Tokens : Tokens[i].id = id]
TokenIn(net, word) ==
  KeyAt(Tokens, SelectInSeq(Tokens, LAMBDA t : t.net = net /\ word \in {t.key, t.symbol, t.id}))
TokenFind(word) ==
  LET named == SelectInSeq(Tokens, LAMBDA t : word \in {t.key, t.id})
      same  == {i \in DOMAIN Tokens : Tokens[i].symbol = word}
  IN  IF named # 0 THEN Tokens[named].key
      ELSE IF Cardinality(same) = 1 THEN Tokens[CHOOSE i \in same : TRUE].key ELSE None
FindToken(net, word) == IF TokenIn(net, word) # None
                        THEN TokenIn(net, word) ELSE TokenFind(word)

(* Environment beats config, which beats the built-in default; an endpoint *)
(* is the pair of the network it serves and who named it.                  *)
Endpoint(key, env, configured) ==
  <<key, IF env # None THEN env ELSE IF configured # None THEN configured ELSE "built-in">>

(* parse_units and format_units.                                           *)
Parse(text, unit) == IF (text * unit.scale) % Grid = 0
                     THEN (text * unit.scale) \div Grid ELSE Bad
Format(raw, unit) == (raw * Grid) \div unit.scale

(* A fee ceiling as text: a number and, maybe, the token it is counted in. *)
(* A unit that is not the fee's is refused, never taken as the fee's.      *)
ParseFee(text, unit) == IF text.unit \notin {None, unit.symbol}
                        THEN Bad ELSE Parse(text.n, unit)
FormatFee(raw, unit) == [n |-> Format(raw, unit), unit |-> unit.symbol]

(* An address as it is written: the marker its text carries (none on a     *)
(* chain whose addresses have none), the marker its checksum or header     *)
(* was made with, and the key or script behind it.                         *)
Address(shown, made, of) == [shown |-> shown, made |-> made, of |-> of]
Written(net, account) == IF net.marked THEN Address(net.mark, net.mark, account)
                         ELSE Address(None, None, account)

(* CashAddr: with a prefix, that prefix must make the checksum come out;   *)
(* without one, the checksum alone picks the network.                      *)
CashAddrMark(text) == IF text.shown \in {None, text.made} THEN text.made ELSE None
(* Cardano always shows a prefix, which bech32 folds in and the header's   *)
(* network bit must agree with.                                            *)
CardanoMark(text) == IF text.shown = text.made THEN text.made ELSE None
(* Midnight's prefix is all there is, and bech32m folds it in.             *)
MidnightMark(text) == IF text.shown # None /\ text.shown = text.made
                      THEN text.shown ELSE None
MarkOf(net, text) == CASE net.chain = "ecash"    -> CashAddrMark(text)
                       [] net.chain = "cardano"  -> CardanoMark(text)
                       [] net.chain = "midnight" -> MidnightMark(text)

(* check_address: an address for this network, where addresses can tell.   *)
CheckAddressShown(net, text) == IF net.marked THEN text.shown \in {None, net.mark}
                                ELSE text.made = None
CheckAddress(net, text) == IF net.marked THEN MarkOf(net, text) = net.mark
                           ELSE text.made = None
=============================================================================
