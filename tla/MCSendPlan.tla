----------------------------- MODULE MCSendPlan -----------------------------
(* A catalogue cut down to the rows that differ, and the commands typed.   *)
EXTENDS SendPlan

CONSTANTS Typed   \* which of the commands below a run types

Row(key, short, chain, unit, feeUnit, maxFee, mark) ==
  [key |-> key, short |-> short, chain |-> chain, unit |-> unit, feeUnit |-> feeUnit,
   maxFee |-> maxFee, marked |-> mark # None, mark |-> mark, submits |-> chain = "midnight"]
Cro == Unit(4, "CRO")
Sol == Unit(4, "SOL")
Xec == Unit(2, "XEC")
MCNetworks == <<
  Row("cronos-testnet", "testnet", "evm", Unit(4, "TCRO"), Unit(4, "TCRO"), 8, None),
  Row("cronos-mainnet", "mainnet", "evm", Cro, Cro, 8, None),
  Row("solana-devnet", "devnet", "solana", Sol, Sol, 6, None),
  Row("cardano-preprod", "preprod", "cardano", Unit(4, "tADA"), Unit(4, "tADA"), 2, "addr_test"),
  Row("cardano-mainnet", "mainnet", "cardano", Unit(4, "ADA"), Unit(4, "ADA"), 2, "addr"),
  Row("midnight-devnet", "devnet", "midnight", Unit(2, "NIGHT"), Unit(4, "DUST"), 3, "mn_devnet"),
  Row("ecash-testnet", "testnet", "ecash", Xec, Xec, 2, "ectest"),
  Row("ecash-mainnet", "mainnet", "ecash", Xec, Xec, 2, "ecash") >>
TokenRow(key, id, net, movable) == [key |-> key, id |-> id, symbol |-> "usdc", net |-> net,
                                    unit |-> Unit(2, "USDC"), movable |-> movable]
MCTokens == << TokenRow("usdc-cronos-mainnet", "0xc2", "cronos-mainnet", TRUE),
               TokenRow("usdc-solana-devnet", "4zMM", "solana-devnet", TRUE),
               TokenRow("usdc-cardano-mainnet", "25c5", "cardano-mainnet", FALSE) >>
MCAlias == [w \in {"mainnet", "testnet"} |->
              IF w = "mainnet" THEN "cronos-mainnet" ELSE "cronos-testnet"]
MCChainWord == [w \in {"evm", "sol", "xec"} |->
                  CASE w = "evm" -> "evm" [] w = "sol" -> "solana" [] OTHER -> "ecash"]
MCAccountOn == [c \in Chains |-> c]
MCSubmitEnv == [k \in NetKeys |-> None]
MCEnv == [k \in NetKeys |-> IF k = "solana-devnet" THEN "env" ELSE None]

Friend == Address(None, None, "friend")
Self == Address(None, None, "evm")
Nobody == Address(None, None, None)
Cmd(do, net, chain, what, n, flag, to, unit) ==
  [do |-> do, net |-> net, chain |-> chain, what |-> what, n |-> n, flag |-> flag,
   to |-> to, unit |-> unit, url |-> "mine"]
Set(do, what, n, unit) == Cmd(do, None, None, what, n, NoFlag, Friend, unit)
Read(do, net, what, to) == Cmd(do, net, None, what, 0, NoFlag, to, None)
Send(do, net, chain, what, n, flag, to) == Cmd(do, net, chain, what, n, flag, to, None)
Moves == {Set("use", w, 0, None) : w \in {"devnet", "mainnet", "testnet"}}
Ceilings == { Set("ceiling", "cronos-mainnet", 4, None), Set("ceiling", "mainnet", 12, "CRO"),
              Set("ceiling", "midnight-devnet", 1, "DUST"), Set("ceiling", "midnight-devnet", 1, "NIGHT"),
              Set("ceiling", "solana-devnet", 3, None), Set("ceiling", "solana-devnet", 0, None) }
Reads == { Read("balance", None, None, Nobody), Read("balance", "ecash-mainnet", None, Nobody),
           Read("balance", "ecash-mainnet", None, Address(None, "ecash", "friend")),
           Read("balance", "ecash-mainnet", None, Address("ecash", "ectest", "friend")),
           Read("balances", None, None, Nobody), Read("tokenBalance", None, "usdc-cronos-mainnet", Nobody),
           Read("tokenBalance", "solana-devnet", "usdc", Nobody),
           Read("tokenBalance", None, "usdc-cardano-mainnet", Address("addr", "addr", "friend")),
           Read("tokenBalance", None, "usdc-cardano-mainnet", Address("addr_test", "addr_test", "friend")) }
Sends == { Send("send", None, None, None, 2, NoFlag, Friend), Send("send", None, None, None, 2, NoFlag, Self),
           Send("send", "mainnet", None, None, 2, 4, Friend), Send("send", None, "sol", None, 2, NoFlag, Friend),
           Send("send", "devnet", None, None, 2, NoFlag, Friend),
           Send("send", "devnet", "sol", None, 4, NoFlag, Friend) }
CoinSends == {Send("send", "mainnet", "xec", None, n, NoFlag, to) :
               n \in {1, 2}, to \in {Address(s, m, "friend") : s \in {None, "ecash", "ectest"},
                                                              m \in {"ecash", "ectest"}}}
TokenSends == { Send("token", None, None, "usdc-cronos-mainnet", 2, NoFlag, Friend),
                Send("token", "cronos-mainnet", None, "usdc", 4, 12, Friend),
                Send("token", None, None, "usdc", 2, NoFlag, Friend),
                Send("token", None, "evm", "usdc-solana-devnet", 2, NoFlag, Friend),
                Send("token", None, None, "usdc-cardano-mainnet", 2, NoFlag, Friend),
                Send("erc20", "cronos-mainnet", None, "0xc2", 2, NoFlag, Friend) }
OnCardano == Read("tokenBalance", None, "usdc-cardano-mainnet", Nobody)
MCCommands ==
  UNION {CASE t = "moves" -> Moves \cup {Set("rpc", "cronos-mainnet", 0, None)}
           [] t = "ceilings" -> Ceilings [] t = "reads" -> Reads
           [] t = "sends" -> Sends [] t = "coins" -> CoinSends [] t = "tokens" -> TokenSends
           [] t = "oncardano" -> {OnCardano} [] t = "uses" -> Moves : t \in Typed}

EvmSays(nonce, price, gas, coin, held, scale, estimates) ==
  [nonce |-> nonce, price |-> price, gas |-> gas, coin |-> coin, held |-> held, scale |-> scale,
   estimates |-> estimates]
EvmAnswers == {EvmSays(0, price, 4, coin, 1, 2, TRUE) : price \in {1, 2}, coin \in {6, 12}}
              \cup {EvmSays(1, 1, 4, 12, 2, 2, TRUE), EvmSays(0, 1, 8, 12, 0, 2, TRUE),
                    EvmSays(0, 1, 4, 12, 2, 4, TRUE), EvmSays(0, 1, 4, 12, 2, 2, FALSE)}
SolAnswers == [hash : {0}, fee : {1}, coin : {4, 5, 6}, dest : {0, 3}, held : {1},
               exists : BOOLEAN, scale : {2}]
              \cup [hash : {1}, fee : {1}, coin : {8}, dest : {3}, held : {2}, exists : {TRUE}, scale : {4}]
MCAnswers == [c \in Chains |-> CASE c = "evm" -> EvmAnswers [] c = "solana" -> SolAnswers
                                 [] OTHER -> {[tip |-> 0]}]
Either == Permutations(Procs)
=============================================================================
