------------------------------ MODULE Identity ------------------------------
(***************************************************************************)
(* Accounts as keys, in several homes: derived from phrases, imported from *)
(* texts, listed into files and brought into another home from there;      *)
(* messages signed in one home and verified in another, on any chain and   *)
(* network (core/src/app.rs: account, sign, verify, utils sign).           *)
(***************************************************************************)
EXTENDS Export

CONSTANTS
  Home,         \* data directories; in each, one process writes lists
  Seeds,        \* phrases with their passphrases
  Indexes,      \* the indexes accounts are derived at
  Texts,        \* what is pasted as a private key
  Message,      \* texts that are signed
  Altered,      \* other texts a signature may be shown with
  MaxAccounts,  \* bound: accounts in a home
  MaxCreated    \* bound: accounts made from phrases and texts

VARIABLES
  homes,    \* [Home -> sequence of records]
  letter,   \* None, or a signed message under way
  created   \* accounts made from phrases and texts so far

vars == <<exporting, homes, letter, created>>

ASSUME OneProcessEach == Writer = Home

(* Nothing that is ever made is None, and no key is the one a signature    *)
(* over another message tells.                                             *)
AccountsMade ==
  UNION {{Derived(c, seed, i) : seed \in Seeds, i \in Indexes} \cup
         ({FromSecret(c, t) : t \in Texts} \ {None}) : c \in Chain}
ASSUME NoneIsNothing ==
  \A a \in AccountsMade :
    /\ a # None /\ a.key \notin {None, Stranger} /\ SecretOf(a) # None
    /\ \A n \in Registry :
         LET text == AddressText(a.chain, n.mark, a)
         IN  text # None /\ Verdict(TRUE, text) # None

Init ==
  /\ ExportInit
  /\ homes = [h \in Home |-> <<>>]
  /\ letter = None /\ created = 0

(* What is kept of an account; and, for the properties, what it was made   *)
(* as, in this home or in the one it was taken from.                       *)
Record(c, index, a, made) ==
  [chain |-> c, index |-> index, label |-> <<"account", c>>, secret |-> SecretOf(a),
   address |-> StoredAddress(a), made |-> made]

Kept(h) == Range(homes[h])
Add(h, record) ==
  /\ Len(homes[h]) < MaxAccounts
  /\ \A r \in Kept(h) : r.address # record.address
  /\ homes' = [homes EXCEPT ![h] = Append(@, record)]
  /\ UNCHANGED <<exporting, letter>>

(* account new, import-mnemonic, derive.                                   *)
Derive(h) ==
  \E c \in Chain, seed \in Seeds, i \in Indexes :
    /\ created < MaxCreated /\ created' = created + 1
    /\ Derives(c, i)
    /\ Add(h, Record(c, i, Derived(c, seed, i), Derived(c, seed, i)))

(* account import-key.                                                     *)
ImportKey(h) ==
  \E c \in Chain, t \in Texts :
    LET a == FromSecret(c, t) IN
    /\ created < MaxCreated /\ created' = created + 1
    /\ a # None
    /\ Add(h, Record(c, None, a, a))

(* A private key is taken out of a list written elsewhere.                 *)
ImportExported(h) ==
  \E p \in Path :
    /\ files[p].what.secrets
    /\ \E i \in DOMAIN files[p].what.rows :
         LET from == files[p].what.rows[i].account
             a == FromSecret(from.chain, from.secret)
         IN  /\ a # None
             /\ Add(h, Record(from.chain, None, a, from.made))
  /\ UNCHANGED created

(* `account list --format --output`; "Save list" and "Export wallets", of  *)
(* the accounts the screen shows.  A process works in one home.  (Bound:   *)
(* lists are written before messages are signed: they share nothing.)      *)
ListAccounts(h) ==
  \E path \in Path, secrets \in BOOLEAN :
    /\ homes[h] # <<>> /\ letter = None
    /\ StartWriting(h, path, homes[h], homes[h][1].address, secrets)
    /\ UNCHANGED <<homes, letter, created>>

WriteLists(w) ==
  Writing(w) /\ UNCHANGED <<homes, letter, created>>

-----------------------------------------------------------------------------
(* Messages.                                                               *)

Accounts(h, c) == {r \in Kept(h) : r.chain = c}
Aside == (\A w \in Writer : At(w, "none")) /\ UNCHANGED <<exporting, homes, created>>

(* sign: with the account named, or the active one, of the chain.          *)
Sign(h) ==
  /\ \E r \in Kept(h), m \in Message :
       LET a == FromSecret(r.chain, r.secret)
       IN  a # None /\ letter' = [by |-> r, text |-> m, signature |-> Signature(a, m)]
  /\ Aside

(* utils sign: with a key not held, as EVM whatever the chain.             *)
SignPasted ==
  /\ \E t \in Texts, m \in Message :
       LET a == FromSecret("evm", t)
       IN  /\ a # None
           /\ letter' = [by |-> Record("evm", None, a, a), text |-> m,
                         signature |-> Signature(a, m)]
  /\ Aside

(* find_account: the first by an address on any network of its chain.      *)
AddressesOf(r) == {AddressFor(NetworkList[k], r) : k \in NetworksOf(r.chain)}
FindAccount(h, text) ==
  LET hits == {k \in DOMAIN homes[h] :
                 text \in AddressesOf(homes[h][k]) \cup {homes[h][k].address}}
  IN  IF hits = {} THEN {} ELSE {homes[h][First(hits)]}

(* What a signature is checked against where it does not tell its signer:  *)
(* the secret of the account given, of whatever chain it is, or of the     *)
(* active one.                                                             *)
AgainstSecret(h, c, given) ==
  LET found == FindAccount(h, given) IN
  IF given # None THEN IF found = {} THEN {given} ELSE {r.secret : r \in found}
  ELSE IF Accounts(h, c) = {} THEN {None}
  ELSE {r.secret : r \in Accounts(h, c)}

(* Slip: the stored address, of the default network.                       *)
AgainstStored(h, c, network, given) ==
  IF ~Recoverable(c) THEN AgainstSecret(h, c, given)
  ELSE IF given # None THEN {given}
  ELSE IF Accounts(h, c) = {} THEN {None}
  ELSE {r.address : r \in Accounts(h, c)}

(* What it is checked against: the address given; without one, the active  *)
(* account's on the network asked about.                                   *)
Against(h, c, network, given) ==
  IF ~Recoverable(c) THEN AgainstSecret(h, c, given)
  ELSE IF given # None THEN {given}
  ELSE IF Accounts(h, c) = {} THEN {None}
  ELSE {AddressFor(network, r) : r \in Accounts(h, c)}

Givens(h) ==
  {None} \cup UNION {AddressesOf(r) : r \in Kept(h) \cup {letter.by}}

(* verify: every answer it may give in a home, on a network, of the text   *)
(* as it was signed or another; it changes nothing.                        *)
Verify(h, network, given) ==
  UNION {{[text |-> m, against |-> against, verdict |-> v] :
            v \in Recovered(network.chain, network, m, letter.signature, against)} :
           against \in Against(h, network.chain, network, given),
           m \in Message \cup Altered}

Next ==
  \/ \E h \in Home : Derive(h) \/ ImportKey(h) \/ ImportExported(h) \/ Sign(h)
                     \/ ListAccounts(h) \/ WriteLists(h)
  \/ SignPasted

Spec == Init /\ [][Next]_vars

-----------------------------------------------------------------------------
(* Properties.                                                             *)

(* An account stays the same account from its phrase, or from whatever     *)
(* form its key was pasted in, through the store, a list and another home: *)
(* the text its key is written in gives the same keys back, the second one *)
(* included, and with them the same address on every network of its chain. *)
(* (describe and from_secret of every chain, account import-key, export.)  *)
StaysTheSameAccount ==
  \A h \in Home : \A r \in Kept(h) :
    /\ FromSecret(r.chain, r.secret) = r.made
    /\ \A n \in Registry : n.chain = r.chain =>
         AddressFor(n, r) = AddressText(r.chain, n.mark, r.made)

Valid(a) == a.verdict # None /\ a.verdict.valid

(* The account asked about is the signer's.                                *)
Asked(h, c, given) ==
  IF given # None THEN given \in AddressesOf(letter.by)
  ELSE {r.made.key : r \in Accounts(h, c)} = {letter.by.made.key}

(* What may be said of a letter in a home, where an answer is valid: the   *)
(* text is the one signed, by the account asked about.  A signature of     *)
(* that account is called valid, though on Cardano and Midnight in a home  *)
(* that holds it only.  And the address told is one of the signer's key    *)
(* (on Cardano, of an account here with another stake key, perhaps).       *)
Says(h, n, given, a) ==
  LET key    == letter.signature.key
      signed == letter.signature.scheme = n.chain /\ letter.text = a.text
      held   == \E r \in Accounts(h, n.chain) : given \in AddressesOf(r)
  IN  /\ Valid(a) /\ a.against # None =>
           signed /\ a.against.items[1] \in {key, Public(key)}
      /\ signed /\ Asked(h, n.chain, given) =>
           Valid(a) \/ (n.chain \in {"cardano", "midnight"} /\ given # None /\ ~held)
      /\ Valid(a) /\ signed /\ given = None =>
           \E r \in Accounts(h, n.chain) \cup {letter.by} :
             r.made.key = key /\ a.verdict.address = AddressFor(n, r)

VerdictIsTrue ==
  letter # None =>
    \A h \in Home : \A given \in Givens(h) : \A n \in Registry :
      \A a \in Verify(h, n, given) : Says(h, n, given, a)

(* A path is recorded as it was derived, and can be read: false on Cardano *)
(* of the indexes that are hardened ones.                                  *)
PathReadsBack ==
  \A h \in Home : \A r \in Kept(h) :
    r.index # None => Readable(PathOf(r.chain, r.index))

(* Solana reads a key in every form it says it does, bare hex included:    *)
(* false of hex that has no zero digit.                                    *)
ReadsBareHex ==
  \A t \in Texts : t.form = "zeroless" /\ Sizes(t) = <<32>> => FromSecret("solana", t) # None

(* A signature is valid only against somebody: false, on the chains whose  *)
(* signatures tell their signer, in a home without an account there.       *)
ValidNamesSomebody ==
  letter # None =>
    \A h \in Home, n \in Registry :
      \A a \in Verify(h, n, None) : Valid(a) => a.against # None
=============================================================================
