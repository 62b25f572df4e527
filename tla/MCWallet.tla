----------------------------- MODULE MCWallet ------------------------------
(***************************************************************************)
(* Small instances of Wallet: two chains, three networks, two phrases.     *)
(***************************************************************************)
EXTENDS Wallet

CONSTANTS h1, h2

MCChainList == <<"evm", "solana">>
MCNetwork == {"cronos-testnet", "cronos-mainnet", "solana-devnet"}
MCChainOfNetwork ==
  [n \in MCNetwork |-> IF n = "solana-devnet" THEN "solana" ELSE "evm"]
MCDefaultOn == [c \in {"evm", "solana"} |->
                  IF c = "evm" THEN "cronos-testnet" ELSE "solana-devnet"]
MCDefaultNetwork == "cronos-testnet"

(* A name in two cases, and the name the wallet itself would give.         *)
NamesInTwoCases == {<<"a">>, <<"A">>}
NamesLikeItsOwn == {<<"a">>, <<"account", 0, "solana">>}
NameAndItsChain == {<<"a">>, <<"a", "solana">>}
NoNames == {}
MCLower == [s \in {"a", "A", "account"} |-> IF s = "A" THEN "a" ELSE s]

(* One process, names and indexes of its own, nothing removed; and two     *)
(* processes that race, remove and crash.                                  *)
InOrder ==
  [handles |-> {h1}, crash |-> FALSE, accounts |-> 4,
   commands |-> {"new", "import", "derive", "use", "rename", "network"},
   index |-> {0, 1}, label |-> NamesLikeItsOwn]
AtOnce ==
  [handles |-> {h1, h2}, crash |-> TRUE, accounts |-> 2,
   commands |-> {"new", "import_key", "use", "remove", "network"},
   index |-> {0}, label |-> NoNames]
BothWays == {InOrder, AtOnce}
OrderlyOnly == {InOrder}

(* What README.md, section 3, names: a home where two processes name an    *)
(* account, where a name is taken on one chain, where passphrases are used,*)
(* where an index is freed, and where the network leaves the accounts.     *)
TwoNameOne ==
  {[InOrder EXCEPT !.handles = {h1, h2}, !.accounts = 2, !.commands = {"new"},
                   !.index = {0}, !.label = NamesInTwoCases]}
NameTaken ==
  {[InOrder EXCEPT !.accounts = 3, !.commands = {"new", "import"},
                   !.index = {0}, !.label = NameAndItsChain]}
WithPassphrases ==
  {[InOrder EXCEPT !.accounts = 3, !.index = {0}, !.label = NoNames,
                   !.commands = {"import", "--passphrase", "new", "network"}]}
IndexFreed ==
  {[InOrder EXCEPT !.accounts = 3, !.index = {0}, !.label = NoNames,
                   !.commands = {"new", "remove"}]}
NetworkLeaves ==
  {[InOrder EXCEPT !.accounts = 3, !.index = {0}, !.label = NoNames,
                   !.commands = {"import_key", "network"}]}
============================================================================
