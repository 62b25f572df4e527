-------------------------------- MODULE Keys --------------------------------
(***************************************************************************)
(* Keys, the texts they are written in, and the addresses and signatures   *)
(* they make, on each of the five chains: core/src/wallet.rs, bip32.rs,    *)
(* chain/seed.rs, chain/mod.rs and the mod.rs and keys.rs of every chain.  *)
(*                                                                         *)
(* Hashes, curves and derivations are free: two terms are equal only if    *)
(* they are made the same way of the same things.  A text is the form it   *)
(* is written in and what it stands for.  Keys are 32 bytes, the extended  *)
(* ones of Cardano 96.                                                     *)
(***************************************************************************)
EXTENDS Naturals, Sequences, FiniteSets, SequencesExt

CONSTANTS
  Hardened,     \* indexes from here on are hardened ones
  NetworkList,  \* the registry: networks as [key, chain, mark], in order
  Plain,        \* the mark of a network that addresses do not name
  None

ChainList == <<"evm", "solana", "cardano", "midnight", "ecash">>
Chain == Range(ChainList)
Registry == Range(NetworkList)

ASSUME KeyConstants ==
  /\ DOMAIN NetworkList \subseteq Nat
  /\ Hardened \in Nat /\ \A c \in Chain : \E n \in Registry : n.chain = c
  /\ \A n \in Registry :
       n.chain \in Chain /\ (n.mark = Plain <=> n.chain \in {"evm", "solana"})

(* The networks of a chain, by their places in the registry; the first one *)
(* is its default.                                                         *)
Places == [c \in Chain |-> {k \in DOMAIN NetworkList : NetworkList[k].chain = c}]
NetworksOf(c) == Places[c]
First(places) == CHOOSE k \in places : \A l \in places : k <= l
DefaultNetwork(c) == NetworkList[First(NetworksOf(c))]

-----------------------------------------------------------------------------
(* Derivation.                                                             *)

(* The path of an index below a phrase: hardened levels are written with a *)
(* mark.                                                                   *)
Level(n) == [n |-> n, marked |-> FALSE]
Marked(n) == [n |-> n, marked |-> TRUE]
Path44(coin, role, i) == <<Marked(44), Marked(coin), Marked(0), Level(role), Level(i)>>
EvmPath(i) == Path44(60, 0, i)
SolanaPath(i) == <<Marked(44), Marked(501), Marked(i), Marked(0)>>
CardanoPath(role, i) == <<Marked(1852), Marked(1815), Marked(0), Level(role), Level(i)>>
MidnightPath(role, i) == Path44(2400, role, i)
EcashPath(i) == Path44(1899, 0, i)
PathOf(c, i) ==
  CASE c = "evm" -> EvmPath(i)
    [] c = "solana" -> SolanaPath(i)
    [] c = "cardano" -> CardanoPath(0, i)
    [] c = "midnight" -> MidnightPath(0, i)
    [] c = "ecash" -> EcashPath(i)

(* parse_path: levels as numbers; none may be written hardened unmarked.   *)
Readable(path) == \A k \in DOMAIN path : path[k].n < Hardened
Numbers(path) ==
  [k \in DOMAIN path |-> path[k].n + (IF path[k].marked THEN Hardened ELSE 0)]

(* What a seed comes to below a path; Cardano starts from the phrase       *)
(* itself, and takes levels as they are, readable or not.                  *)
Key(seed, path) == [is |-> "key", seed |-> seed, path |-> Numbers(path)]
ExtendedKey(seed, path) == [is |-> "xprv", seed |-> seed, path |-> Numbers(path)]
Public(key) == [is |-> "public", key |-> key]
Bytes(item) == IF item.is = "xprv" THEN 96 ELSE 32

(* An account is its key, and the second one that some chains have: what   *)
(* stakes on Cardano, what pays fees on Midnight.                          *)
Account(c, key, second) == [chain |-> c, key |-> key, second |-> second]
CardanoDerived(seed, i) ==
  Account("cardano", ExtendedKey(seed, CardanoPath(0, i)),
          ExtendedKey(seed, CardanoPath(2, 0)))
MidnightDerived(seed, i) ==
  Account("midnight", Key(seed, MidnightPath(0, i)), Key(seed, MidnightPath(2, i)))

Derives(c, i) == c = "cardano" \/ Readable(PathOf(c, i))
Derived(c, seed, i) ==
  CASE c = "cardano" -> CardanoDerived(seed, i)
    [] c = "midnight" -> MidnightDerived(seed, i)
    [] OTHER -> Account(c, Key(seed, PathOf(c, i)), None)

-----------------------------------------------------------------------------
(* Texts.                                                                  *)

Hex(prefix, items) == [form |-> "hex", prefix |-> prefix, items |-> items]
(* A base58 text of hex digits: hex without a zero in it is one.           *)
Zeroless(items) == [form |-> "zeroless", prefix |-> "", items |-> items]
Base58(items) == [form |-> "base58", items |-> items]
Wif(version, key, compressed) ==
  [form |-> "wif", version |-> version, items |-> <<key>>, compressed |-> compressed]

(* Slip: the night key alone is kept.                                      *)
WithoutDust(a) ==
  CASE a.chain = "evm" -> Hex("0x", <<a.key>>)
    [] a.chain = "solana" -> Base58(<<a.key, Public(a.key)>>)
    [] a.chain = "cardano" -> Hex("", <<a.key, a.second>>)
    [] a.chain = "midnight" -> Hex("", <<a.key>>)
    [] a.chain = "ecash" -> Hex("0x", <<a.key>>)

(* The one form a chain writes a secret in, whatever it was read from.     *)
SecretOf(a) ==
  CASE a.chain \in {"evm", "ecash"} -> Hex("0x", <<a.key>>)
    [] a.chain = "solana" -> Base58(<<a.key, Public(a.key)>>)
    [] a.chain = "cardano" -> Hex("", <<a.key, a.second>>)
    [] a.chain = "midnight" ->
         Hex("", IF a.second = None THEN <<a.key>> ELSE <<a.key, a.second>>)

IsHex(t, prefixes) == t.form \in {"hex", "zeroless"} /\ t.prefix \in prefixes
Sizes(t) == [k \in DOMAIN t.items |-> Bytes(t.items[k])]
AnyPrefix == {"", "0x", "0X"}

(* The account a text is the secret of on each chain, or None.             *)
One(t) == Sizes(t) = <<32>>
Two(t) == Sizes(t) = <<32, 32>>
EvmFromSecret(t) ==
  IF IsHex(t, AnyPrefix) /\ One(t) THEN Account("evm", t.items[1], None) ELSE None

(* base58 is read before hex; the public half of a pair is checked.        *)
DecodeSecret(t) == t.form \in {"base58", "hex"}
SolanaFromSecret(t) ==
  IF DecodeSecret(t) /\ (One(t) \/ (Two(t) /\ t.items[2] = Public(t.items[1])))
    THEN Account("solana", t.items[1], None) ELSE None

CardanoFromSecret(t) ==
  IF IsHex(t, {"", "0x"}) /\ Sizes(t) = <<96, 96>>
    THEN Account("cardano", t.items[1], t.items[2]) ELSE None

(* A night key alone is an account too.                                    *)
MidnightFromSecret(t) ==
  IF IsHex(t, {"", "0x"}) /\ (One(t) \/ Two(t))
    THEN Account("midnight", t.items[1], IF One(t) THEN None ELSE t.items[2]) ELSE None

(* The version byte is the one of either network; only keys of compressed  *)
(* addresses are taken, and of their length.                               *)
FromWif(t) ==
  t.form = "wif" /\ t.version \in {"main", "test"} /\ t.compressed /\ One(t)
EcashFromSecret(t) ==
  IF (IsHex(t, AnyPrefix) /\ One(t)) \/ FromWif(t)
    THEN Account("ecash", t.items[1], None) ELSE None

FromSecret(c, t) ==
  CASE c = "evm" -> EvmFromSecret(t)
    [] c = "solana" -> SolanaFromSecret(t)
    [] c = "cardano" -> CardanoFromSecret(t)
    [] c = "midnight" -> MidnightFromSecret(t)
    [] c = "ecash" -> EcashFromSecret(t)

-----------------------------------------------------------------------------
(* Addresses.                                                              *)

(* EVM and eCash name a hash of the public key, Solana the key itself,     *)
(* Cardano hashes of both keys, Midnight a hash; three with the network.   *)
Written(c, mark, key, stake) ==
  [form |-> "address", chain |-> c, mark |-> mark, items |-> <<Public(key)>>,
   stake |-> stake]
EvmAddress(a) == Written("evm", Plain, a.key, None)
SolanaAddress(a) == Base58(<<Public(a.key)>>)
BaseAddress(mark, payment, stake) == Written("cardano", mark, payment, Public(stake))
CardanoAddress(mark, a) == BaseAddress(mark, a.key, a.second)
MidnightAddress(mark, a) == Written("midnight", mark, a.key, None)
EcashAddress(mark, a) == Written("ecash", mark, a.key, None)
AddressText(c, mark, a) ==
  CASE c = "evm" -> EvmAddress(a)
    [] c = "solana" -> SolanaAddress(a)
    [] c = "cardano" -> CardanoAddress(mark, a)
    [] c = "midnight" -> MidnightAddress(mark, a)
    [] c = "ecash" -> EcashAddress(mark, a)

(* What the record keeps: the address on the default network.              *)
StoredAddress(a) == AddressText(a.chain, DefaultNetwork(a.chain).mark, a)

(* address_on, with the fallbacks of those who ask: what is on record where *)
(* addresses do not name a network, and where the secret cannot be read.   *)
AddressFor(network, record) ==
  LET a == FromSecret(record.chain, record.secret)
  IN  IF network.mark = Plain \/ a = None THEN record.address
      ELSE AddressText(record.chain, network.mark, a)

-----------------------------------------------------------------------------
(* Signatures.                                                             *)

Signature(a, message) == [scheme |-> a.chain, key |-> a.key, message |-> message]
Recoverable(c) == c \in {"evm", "ecash"}
Stranger == [is |-> "key", seed |-> None, path |-> <<>>]

Made(c, key, message, s) == s = [scheme |-> c, key |-> key, message |-> message]

(* Whose signature it is, as far as it tells.  Over another message it is  *)
(* a stranger's; what eCash signs is headed in a way EVM does not read,    *)
(* and the other way round it is a stranger's, or nobody's.                *)
EvmSigner(message, s) ==
  IF s.scheme # "evm" THEN None ELSE IF s.message = message THEN s.key ELSE Stranger
EcashSigners(message, s) ==
  CASE s.scheme = "ecash" -> {IF s.message = message THEN s.key ELSE Stranger}
    [] s.scheme = "evm" -> {Stranger, None}
    [] OTHER -> {None}

(* recover_message of each chain: what it may answer of a signature and    *)
(* what it is checked against, an address, a secret, or nothing; None if   *)
(* it refuses.                                                             *)
Verdict(valid, address) == [valid |-> valid, address |-> address]
Named(c, t) == t.form = "address" /\ t.chain = c

EvmRecovered(message, s, identity) ==
  LET k == EvmSigner(message, s) IN
  IF k = None \/ (identity # None /\ ~Named("evm", identity)) THEN None
  ELSE Verdict(identity = None \/ identity.items[1] = Public(k),
               AddressText("evm", Plain, Account("evm", k, None)))

EcashRecovered(network, message, s, identity) ==
  LET given == EcashFromSecret(identity)
      tell(k, mark) == AddressText("ecash", mark, Account("ecash", k, None))
  IN {CASE k = None -> None
        [] k # None /\ identity = None -> Verdict(TRUE, tell(k, network.mark))
        [] k # None /\ identity # None /\ Named("ecash", identity) ->
             Verdict(identity.items[1] = Public(k), tell(k, identity.mark))
        [] OTHER -> IF given = None THEN None
                    ELSE Verdict(given.key = k, tell(k, network.mark)) :
      k \in EcashSigners(message, s)}

(* What cannot be a signature of theirs, for its length, these refuse.     *)
IsSolanaAddress(t) == t.form = "base58" /\ One(t)
SolanaRecovered(message, s, identity) ==
  LET address == IsSolanaAddress(identity)
      given   == SolanaFromSecret(identity)
      public  == IF address THEN identity.items[1] ELSE Public(given.key)
  IN  IF identity = None \/ Recoverable(s.scheme) THEN None
      ELSE IF ~address /\ given = None THEN None
      ELSE IF public.is = "public" /\ Made("solana", public.key, message, s)
        THEN Verdict(TRUE, Base58(<<public>>))
      ELSE Verdict(FALSE, None)

(* Cardano and Midnight are told by a secret only.                         *)
HeldRecovered(c, network, message, s, given) ==
  IF given = None \/ Recoverable(s.scheme) THEN None
  ELSE IF Made(c, given.key, message, s) THEN Verdict(TRUE, AddressText(c, network.mark, given))
  ELSE Verdict(FALSE, None)
CardanoRecovered(network, message, s, identity) ==
  HeldRecovered("cardano", network, message, s,
                IF identity = None THEN None ELSE CardanoFromSecret(identity))
MidnightRecovered(network, message, s, identity) ==
  HeldRecovered("midnight", network, message, s,
                IF identity = None THEN None ELSE MidnightFromSecret(identity))

Recovered(c, network, message, s, identity) ==
  CASE c = "evm" -> {EvmRecovered(message, s, identity)}
    [] c = "ecash" -> EcashRecovered(network, message, s, identity)
    [] c = "solana" -> {SolanaRecovered(message, s, identity)}
    [] c = "cardano" -> {CardanoRecovered(network, message, s, identity)}
    [] c = "midnight" -> {MidnightRecovered(network, message, s, identity)}
=============================================================================
