----------------------------- MODULE MCRecall ------------------------------
(***************************************************************************)
(* Small instances of Recall: a mnemonic used with and without a           *)
(* passphrase, a second one, and a private key.                            *)
(***************************************************************************)
EXTENDS Recall

MCSecret == {"phrase", "other", "key"}
MCPassOf == [s \in MCSecret |-> IF s = "phrase" THEN {"", "pw"} ELSE {""}]
MCKindOf ==
  [s \in MCSecret |-> IF s = "key" THEN "private_key" ELSE "mnemonic"]

(* A log an older binary left: a secret remembered twice and forgotten     *)
(* once, and one that was forgotten for good.                              *)
OlderLog == <<Remember("other", "", 1, 0), Remember("key", "", 1, 0),
              Forget("other"), Forget("key"), Remember("other", "", 1, 0)>>
NewLog == <<>>
============================================================================
