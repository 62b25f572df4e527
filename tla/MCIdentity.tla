----------------------------- MODULE MCIdentity -----------------------------
(***************************************************************************)
(* A small instance of Identity: two homes, two writers of one file, and   *)
(* the registry's networks but a few that add nothing.                     *)
(***************************************************************************)
EXTENDS Identity, TLC

Symmetry == Permutations(Home)

MCNetworkList ==
  <<[key |-> "cronos-testnet", chain |-> "evm", mark |-> Plain],
    [key |-> "cronos-mainnet", chain |-> "evm", mark |-> Plain],
    [key |-> "solana-devnet", chain |-> "solana", mark |-> Plain],
    [key |-> "cardano-preprod", chain |-> "cardano", mark |-> "test"],
    [key |-> "midnight-preview", chain |-> "midnight", mark |-> "preview"],
    [key |-> "midnight-mainnet", chain |-> "midnight", mark |-> "main"],
    [key |-> "ecash-testnet", chain |-> "ecash", mark |-> "test"],
    [key |-> "ecash-mainnet", chain |-> "ecash", mark |-> "main"]>>

(* Keys made elsewhere, in the forms they are handed out in.               *)
Pasted(name) == [is |-> "key", seed |-> name, path |-> <<0>>]
MCTexts ==
  {Hex("0x", <<Pasted("one")>>), Base58(<<Pasted("one"), Public(Pasted("two"))>>),
   Wif("main", Pasted("one"), TRUE),
   Wif("other", Pasted("two"), TRUE), Wif("test", Pasted("two"), FALSE),
   Hex("", <<ExtendedKey("phrase", CardanoPath(0, 0)), ExtendedKey("phrase", CardanoPath(2, 1))>>)}
=============================================================================
