---------------------------- MODULE MCTransfer -----------------------------
(***************************************************************************)
(* Small instances of Transfer: two processes, two payments, so that one   *)
(* may take the nonce the other was signed with.                           *)
(***************************************************************************)
EXTENDS Transfer

CONSTANTS h1, h2, p, q
============================================================================
