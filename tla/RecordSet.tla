----------------------------- MODULE RecordSet -----------------------------
(***************************************************************************)
(* What one log of the store promises to the commands above it: a set of   *)
(* records, to which a command adds one record or from which it removes    *)
(* the records a predicate selects, each in one indivisible step.          *)
(*                                                                         *)
(* StoreLog is the detailed specification: open, write, read, temp file,   *)
(* rename, crash.  It implements this one for a single handle, and for any *)
(* number of handles that only append (StoreLog!Promise).                  *)
(***************************************************************************)

CONSTANTS
  Record,     \* the lines commands may ever write
  Selection   \* the sets of records a removal may select

VARIABLES
  contents,   \* the records a reader finds
  added,      \* the records whose addition was acknowledged
  removed     \* the records whose removal was acknowledged

vars == <<contents, added, removed>>

TypeOK ==
  /\ contents \subseteq Record
  /\ added \subseteq Record
  /\ removed \subseteq Record

Init ==
  /\ contents \subseteq Record
  /\ added = {}
  /\ removed = {}

(* A record is in the set as soon as its addition is acknowledged.         *)
Add(r) ==
  /\ r \notin contents
  /\ contents' = contents \cup {r}
  /\ added' = added \cup {r}
  /\ UNCHANGED removed

(* A removal takes out what its selection finds, and nothing else.         *)
Remove(S) ==
  /\ contents \cap S # {}
  /\ contents' = contents \ S
  /\ removed' = removed \cup (contents \cap S)
  /\ UNCHANGED added

Next ==
  \/ \E r \in Record : Add(r)
  \/ \E S \in Selection : Remove(S)

Spec == Init /\ [][Next]_vars
============================================================================
