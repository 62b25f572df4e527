------------------------------- MODULE MCPane -------------------------------
(***************************************************************************)
(* A small instance of Pane: the whole table of commands, with three       *)
(* networks and a token.                                                   *)
(***************************************************************************)
EXTENDS Pane

MCNetworks == <<"cronos-testnet", "cronos-mainnet", "solana-devnet">>
MCTokens == <<"usdc">>
MCActions == {CommandList[i].action : i \in DOMAIN CommandList}
(* What rows are found by: networks and tokens by their tags, those that   *)
(* write a list by their label, hidden ones included.                      *)
MCWords ==
  [a \in MCActions |->
     CASE a[1] = "token" -> {"main", "evm"}
       [] a = <<"network", "cronos-mainnet">> -> {"main", "evm"}
       [] a = <<"network", "cronos-testnet">> -> {"evm"}
       [] a[1] = "save" -> {"list"}
       [] OTHER -> {}]
MCSuggested ==
  [f \in {"keys", "jsonl", "csv", "txt", "md"} |-> "wallets.csv"]
=============================================================================
