----------------------------- MODULE StoreLog ------------------------------
(***************************************************************************)
(* One JSONL log of the wallet home, at the level of the file operations   *)
(* rustcli/core/src/store.rs performs on it, shared by several wallet      *)
(* handles: other processes over the same home, or other handles of the    *)
(* same process (the window and its worker thread).  Nothing locks.        *)
(*                                                                         *)
(* The order of the lines does not matter to any property here, so a file  *)
(* is the set of its terminated records and what follows the last newline. *)
(* The modules above this one take an append as one step and fold lines in *)
(* order.                                                                  *)
(***************************************************************************)
EXTENDS Naturals

CONSTANTS
  Handle,     \* wallet handles open on the home
  Pid,        \* processes
  PidOf,      \* the process of each handle
  Record,     \* the lines a run may write; every append writes a new line
  Initial,    \* the records in the log at the start
  Appends,    \* [Handle -> the records the handle may append]
  Removals,   \* [Handle -> the selections of records it may remove]
  Newer,      \* the records written by a binary with a newer schema
  Clean,      \* the log ends with a newline
  Partial,    \* the log ends with an unreadable, unterminated line
  NoFile,     \* the temp file does not exist
  MayFail,    \* whether I/O errors and process deaths happen
  MaxTears    \* bound: writes cut short in a behaviour

ASSUME LogConstants ==
  /\ PidOf \in [Handle -> Pid]
  /\ Initial \subseteq Record
  /\ Appends \in [Handle -> SUBSET (Record \ Initial)]
  /\ Removals \in [Handle -> SUBSET SUBSET Record]
  /\ Newer \subseteq Record
  /\ {Clean, Partial} \cap Record = {} /\ Clean # Partial
  /\ \A S \in SUBSET Record : NoFile # S
  /\ MayFail \in BOOLEAN
  /\ MaxTears \in Nat

VARIABLES
  recs,       \* the terminated records of the log
  tail,       \* what follows its last newline: Clean, Partial, or a whole
              \* record of which only the newline is missing
  temp,       \* [Pid -> the temp file of that process]
  pc,         \* [Handle -> what the handle is in the middle of]
  fd,         \* [Handle -> the file its open descriptor names]
  line,       \* [Handle -> the record being appended]
  kept,       \* [Handle -> the records the compaction copies]
  dropped,    \* [Handle -> the records the compaction leaves out]
  begun,      \* the records some append has been called with
  added,      \* the records whose append returned Ok
  removed,    \* the records whose removal returned Ok
  tears       \* the number of writes cut short so far

vars == <<recs, tail, temp, pc, fd, line, kept, dropped, begun, added,
          removed, tears>>
file == <<recs, tail>>
history == <<begun, added, removed, tears>>

Steps == {"idle", "append", "read", "opened", "written"}

(* The descriptor of an append names the log until a rename replaces the   *)
(* log ("gone" then: the unlinked file).  That of a compaction names the   *)
(* temp file, which another handle of the same process may rename.         *)
Descriptor == {"none", "log", "temp", "gone"}

TypeOK ==
  /\ recs \subseteq Record
  /\ tail \in Record \cup {Clean, Partial}
  /\ temp \in [Pid -> {NoFile} \cup SUBSET Record]
  /\ pc \in [Handle -> Steps]
  /\ fd \in [Handle -> Descriptor]
  /\ \A h \in Handle : fd[h] = "temp" => temp[PidOf[h]] # NoFile
  /\ line \in [Handle -> SUBSET Record]
  /\ kept \in [Handle -> SUBSET Record]
  /\ dropped \in [Handle -> SUBSET Record]
  /\ begun \subseteq Record
  /\ added \subseteq Record
  /\ removed \subseteq Record
  /\ tears \in Nat

(* What a reader of the whole file parses: an unterminated last line is    *)
(* read like any other when it is a whole JSON object.                     *)
Parsed == recs \cup ({tail} \cap Record)

Init ==
  /\ recs = Initial
  /\ tail = Clean
  /\ temp = [p \in Pid |-> NoFile]
  /\ pc = [h \in Handle |-> "idle"]
  /\ fd = [h \in Handle |-> "none"]
  /\ line = [h \in Handle |-> {}]
  /\ kept = [h \in Handle |-> {}]
  /\ dropped = [h \in Handle |-> {}]
  /\ begun = Initial
  /\ added = {}
  /\ removed = {}
  /\ tears = 0

----------------------------------------------------------------------------
(* A handle returns from the store, with a result or an error.             *)
Return(h) ==
  /\ pc' = [pc EXCEPT ![h] = "idle"]
  /\ line' = [line EXCEPT ![h] = {}]
  /\ kept' = [kept EXCEPT ![h] = {}]
  /\ dropped' = [dropped EXCEPT ![h] = {}]

Close(h) == fd' = [fd EXCEPT ![h] = "none"]

(***************************************************************************)
(* Slips: mistakes a change to store.rs could make.  No specification here *)
(* uses them; each is put in place of one action to see a property fail.   *)
(***************************************************************************)

(* The line goes out without its newline.                                  *)
WriteUnterminated(h) ==
  /\ pc[h] = "append"
  /\ tail' \in IF tail = Clean THEN line[h] ELSE {Partial}
  /\ added' = added \cup line[h]
  /\ Return(h) /\ Close(h)
  /\ UNCHANGED <<recs, temp, begun, removed, tears>>

(* The log itself is truncated and rewritten.                              *)
OpenTempInPlace(h) ==
  /\ pc[h] = "read"
  /\ pc' = [pc EXCEPT ![h] = "opened"]
  /\ fd' = [fd EXCEPT ![h] = "log"]
  /\ recs' = {} /\ tail' = Clean
  /\ UNCHANGED <<temp, line, kept, dropped, history>>

(* The kept lines are appended to the log instead of replacing it.         *)
RenameAppending(h) ==
  /\ pc[h] = "written"
  /\ temp[PidOf[h]] # NoFile
  /\ recs' = recs \cup temp[PidOf[h]]
  /\ temp' = [temp EXCEPT ![PidOf[h]] = NoFile]
  /\ removed' = removed \cup dropped[h]
  /\ Return(h)
  /\ UNCHANGED <<tail, fd, begun, added, tears>>

(* A failed rename is reported as done.                                    *)
RenameFailsSilently(h) ==
  /\ pc[h] = "written"
  /\ temp' = [temp EXCEPT ![PidOf[h]] = NoFile]
  /\ removed' = removed \cup dropped[h]
  /\ Return(h)
  /\ UNCHANGED <<file, fd, begun, added, tears>>

----------------------------------------------------------------------------
(* append: the log is opened, or created, for appending.                   *)
OpenLog(h, r) ==
  /\ pc[h] = "idle"
  /\ r \in Appends[h] \ begun
  /\ pc' = [pc EXCEPT ![h] = "append"]
  /\ fd' = [fd EXCEPT ![h] = "log"]
  /\ line' = [line EXCEPT ![h] = {r}]
  /\ begun' = begun \cup {r}
  /\ UNCHANGED <<file, temp, kept, dropped, added, removed, tears>>

(* append: the line and its newline go out in one write_all at the end of  *)
(* the file, whatever the file ends with.  An unterminated tail becomes    *)
(* the beginning of the same line, and neither can be parsed any more.     *)
Write(h) ==
  /\ pc[h] = "append"
  /\ IF fd[h] = "log"
       THEN /\ recs' = IF tail = Clean THEN recs \cup line[h] ELSE recs
            /\ tail' = Clean
       ELSE UNCHANGED file
  /\ added' = added \cup line[h]
  /\ Return(h) /\ Close(h)
  /\ UNCHANGED <<temp, begun, removed, tears>>

(* append: only part of the line reaches the disk, because the machine     *)
(* goes down or the disk is full.  The part may be all but the newline.    *)
TornWrite(h) ==
  /\ pc[h] = "append"
  /\ fd[h] = "log"
  /\ tears < MaxTears
  /\ tears' = tears + 1
  /\ tail' \in IF tail = Clean THEN {Partial} \cup line[h] ELSE {Partial}
  /\ Return(h) /\ Close(h)
  /\ UNCHANGED <<recs, temp, begun, added, removed>>

(* compact: read the log and decide line by line.  A line that cannot be   *)
(* parsed is kept, and says nothing; every other is dropped when the       *)
(* command's predicate selects it.  Nothing dropped, nothing written.      *)
ReadForCompact(h, S) ==
  /\ pc[h] = "idle"
  /\ S \in Removals[h]
  /\ Parsed \cap S # {}
  /\ pc' = [pc EXCEPT ![h] = "read"]
  /\ kept' = [kept EXCEPT ![h] = Parsed \ S]
  /\ dropped' = [dropped EXCEPT ![h] = Parsed \cap S]
  /\ UNCHANGED <<file, temp, fd, line, history>>

(* compact, write_private: the temp file, named after the process, is      *)
(* created or truncated.                                                   *)
OpenTemp(h) ==
  /\ pc[h] = "read"
  /\ pc' = [pc EXCEPT ![h] = "opened"]
  /\ fd' = [fd EXCEPT ![h] = "temp"]
  /\ temp' = [temp EXCEPT ![PidOf[h]] = {}]
  /\ UNCHANGED <<file, line, kept, dropped, history>>

(* compact, write_private: the kept lines are written from the start of    *)
(* whatever file the descriptor names now.  Lines another handle of the    *)
(* process left there may stick out behind them.                           *)
WriteTemp(h) ==
  /\ pc[h] = "opened"
  /\ pc' = [pc EXCEPT ![h] = "written"]
  /\ \/ /\ fd[h] = "temp"
        /\ \E extra \in SUBSET temp[PidOf[h]] :
             temp' = [temp EXCEPT ![PidOf[h]] = kept[h] \cup extra]
        /\ UNCHANGED file
     \/ /\ fd[h] = "log"
        /\ \E extra \in SUBSET recs : recs' = kept[h] \cup extra
        /\ tail' = Clean
        /\ UNCHANGED temp
     \/ /\ fd[h] = "gone"
        /\ UNCHANGED <<file, temp>>
  /\ Close(h)
  /\ UNCHANGED <<line, kept, dropped, history>>

(* compact: the temp file replaces the log.  A descriptor open on the old  *)
(* log keeps the unlinked file; one open on the temp file now names the    *)
(* log.                                                                    *)
Rename(h) ==
  /\ pc[h] = "written"
  /\ temp[PidOf[h]] # NoFile
  /\ recs' = temp[PidOf[h]]
  /\ tail' = Clean
  /\ temp' = [temp EXCEPT ![PidOf[h]] = NoFile]
  /\ fd' = [g \in Handle |->
              CASE fd[g] = "log"                          -> "gone"
                [] fd[g] = "temp" /\ PidOf[g] = PidOf[h]  -> "log"
                [] OTHER                                  -> fd[g]]
  /\ removed' = removed \cup dropped[h]
  /\ Return(h)
  /\ UNCHANGED <<begun, added, tears>>

(* compact: the rename fails, always so when the temp file is gone.  The   *)
(* temp file is deleted and the error returned.                            *)
RenameFails(h) ==
  /\ pc[h] = "written"
  /\ MayFail \/ temp[PidOf[h]] = NoFile
  /\ temp' = [temp EXCEPT ![PidOf[h]] = NoFile]
  /\ fd' = [g \in Handle |->
              IF fd[g] = "temp" /\ PidOf[g] = PidOf[h] THEN "gone" ELSE fd[g]]
  /\ Return(h)
  /\ UNCHANGED <<file, history>>

(* Any other I/O error: the call returns where it stands.  A temp file     *)
(* that was begun is left behind.                                          *)
Fail(h) ==
  /\ MayFail
  /\ pc[h] \in {"append", "read", "opened"}
  /\ Return(h) /\ Close(h)
  /\ UNCHANGED <<file, temp, history>>

(* A process dies: every handle it had open is gone, its files stay.       *)
Crash(p) ==
  LET died == {h \in Handle : PidOf[h] = p} IN
  /\ MayFail
  /\ \E h \in died : pc[h] # "idle"
  /\ pc' = [h \in Handle |-> IF h \in died THEN "idle" ELSE pc[h]]
  /\ fd' = [h \in Handle |-> IF h \in died THEN "none" ELSE fd[h]]
  /\ line' = [h \in Handle |-> IF h \in died THEN {} ELSE line[h]]
  /\ kept' = [h \in Handle |-> IF h \in died THEN {} ELSE kept[h]]
  /\ dropped' = [h \in Handle |-> IF h \in died THEN {} ELSE dropped[h]]
  /\ UNCHANGED <<file, temp, history>>

Next ==
  \/ \E h \in Handle, r \in Record : OpenLog(h, r)
  \/ \E h \in Handle : Write(h)
  \/ \E h \in Handle : TornWrite(h)
  \/ \E h \in Handle : \E S \in Removals[h] : ReadForCompact(h, S)
  \/ \E h \in Handle : OpenTemp(h)
  \/ \E h \in Handle : WriteTemp(h)
  \/ \E h \in Handle : Rename(h)
  \/ \E h \in Handle : RenameFails(h)
  \/ \E h \in Handle : Fail(h)
  \/ \E p \in Pid : Crash(p)

Spec == Init /\ [][Next]_vars

----------------------------------------------------------------------------
(* Properties.                                                             *)

(* What some command may remove, and what nobody ever does.                *)
Removable == UNION (UNION {Removals[h] : h \in Handle})
Bystanders == Initial \ Removable

(* Each handle writes a temp file of its own: no two share a process.      *)
OwnTemp == \A g, h \in Handle : PidOf[g] = PidOf[h] => g = h

(* A record that was in the log before and that no command removes is in   *)
(* the log in every state: appends, compactions, torn writes and crashes   *)
(* of other handles, in any order, never lose it, and no reader ever finds *)
(* a half-written log.  (compact: temp file and rename.)                   *)
BystandersSurvive == Bystanders \subseteq recs

(* Two handles of one process share a temp file, and a reader may find the *)
(* log cut short while one of them writes.  When no I/O error happens, the *)
(* log holds the bystanders again once both are done.  (compact, with the  *)
(* temp file named after the process only.  It takes handles that never    *)
(* append: a line that lands in the gap makes the cut permanent.)          *)
WholeAtRest ==
  (\A h \in Handle : pc[h] = "idle") => BystandersSurvive

(* Why: every copy of the log that a rename may still install holds the    *)
(* bystanders too, and only the handle itself writes its temp file.        *)
Compacting(h) == pc[h] \in {"read", "opened", "written"}
CopiesHoldBystanders ==
  /\ BystandersSurvive
  /\ \A h \in Handle :
       /\ Compacting(h) => Bystanders \subseteq kept[h]
       /\ pc[h] = "opened" <=> fd[h] = "temp"
       /\ pc[h] = "written" => /\ temp[PidOf[h]] # NoFile
                               /\ Bystanders \subseteq temp[PidOf[h]]
       /\ fd[h] = "log" => pc[h] = "append"

(* A removed secret does not come back: once a removal has returned Ok, no *)
(* line of the log carries what it removed.  (compact, as called by        *)
(* delete_account, forget_secret and clear_recent.)                        *)
RemovedStaysOut == removed \cap Parsed = {}

(* Only one handle removes.                                                *)
SoleRemover ==
  \A g, h \in Handle : Removals[g] # {} /\ Removals[h] # {} => g = h

(* Why: with one remover, neither the copy it is about to install nor a    *)
(* line on its way to the log carries what was removed or is about to be.  *)
NoWayBack ==
  /\ RemovedStaysOut
  /\ Parsed \cup removed \subseteq begun
  /\ \A h \in Handle :
       /\ Compacting(h) => Removals[h] # {}
       /\ ~Compacting(h) => kept[h] = {}
       /\ kept[h] \cap (removed \cup dropped[h]) = {}
       /\ kept[h] \cup dropped[h] \cup line[h] \subseteq begun
       /\ line[h] \cap (Parsed \cup removed) = {}
       /\ \A g \in Handle : line[h] \cap (kept[g] \cup dropped[g]) = {}
       /\ \A g \in Handle : g # h => line[h] \cap line[g] = {}
       /\ fd[h] = "temp" => pc[h] = "opened"
       /\ fd[h] = "log" => pc[h] = "append"
       /\ pc[h] = "append" => fd[h] \in {"log", "gone"}
       /\ pc[h] = "opened" => /\ fd[h] = "temp"
                              /\ temp[PidOf[h]] = {}
       /\ pc[h] = "written" => temp[PidOf[h]] = kept[h]

(* An append that returned Ok is read back until a command removes it.     *)
AddedStaysIn == added \ Removable \subseteq Parsed

(* A record of a newer schema is never taken out by this binary.  (What    *)
(* compact says of itself, and SPEC.md 1.1.)                               *)
NewerUntouched == Newer \cap Initial \subseteq recs

(* One handle at a time: the log is a set of records that changes by whole *)
(* additions and whole removals, through crashes and failed calls.         *)
(* (append and compact, against the contract in RecordSet.)                *)
Contract == INSTANCE RecordSet WITH
  contents <- Parsed, Selection <- UNION {Removals[h] : h \in Handle}
Promise == Contract!Spec

(* Why, for one handle and no torn write: what it is about to install is   *)
(* the log as it stands without the selection.                             *)
SoleHandle == \A g, h \in Handle : g = h
CopyIsCurrent ==
  /\ tail = Clean
  /\ recs \subseteq begun
  /\ \A h \in Handle :
       /\ pc[h] = "append" =>
            /\ fd[h] = "log"
            /\ \E r \in Record : line[h] = {r}
            /\ line[h] \subseteq begun \ recs
       /\ Compacting(h) =>
            \E S \in Removals[h] : /\ recs \cap S # {}
                                   /\ kept[h] = recs \ S
                                   /\ dropped[h] = recs \cap S
       /\ fd[h] = "log" => pc[h] = "append"
       /\ fd[h] = "temp" => pc[h] = "opened"
       /\ pc[h] = "opened" => fd[h] = "temp" /\ temp[PidOf[h]] = {}
       /\ pc[h] = "written" => temp[PidOf[h]] = kept[h]
============================================================================
