------------------------------- MODULE MCTui -------------------------------
(***************************************************************************)
(* Small instances of Tui: two chains, one of them with two networks.      *)
(***************************************************************************)
EXTENDS Tui

MCChainList == <<"evm", "solana">>
MCNetwork == {"cronos-testnet", "cronos-mainnet", "solana-devnet"}
OneEach == {"cronos-testnet", "solana-devnet"}
MCChainOfNetwork ==
  [n \in MCNetwork |-> IF n = "solana-devnet" THEN "solana" ELSE "evm"]
OneEachChain ==
  [n \in OneEach |-> MCChainOfNetwork[n]]
MCDefaultOn == [c \in {"evm", "solana"} |->
                  IF c = "evm" THEN "cronos-testnet" ELSE "solana-devnet"]
MCDefaultNetwork == "cronos-testnet"

ZeroOnly == {0}
ZeroAndOne == {0, 1}
============================================================================
