------------------------------- MODULE MCGui -------------------------------
(***************************************************************************)
(* Small instances of Gui: two accounts, two networks of one chain, one of *)
(* them with a faucet the wallet asks itself, and a token on the other.    *)
(***************************************************************************)
EXTENDS Gui, TLC

CONSTANTS a, b, dev, test, usdc

MCHome == (usdc :> test)
============================================================================
