-------------------------- MODULE StoreLogProofs ---------------------------
(***************************************************************************)
(* What StoreLog guarantees for any number of handles, records and torn    *)
(* writes, and from which assumption about who does what.                  *)
(***************************************************************************)
EXTENDS StoreLog, TLAPS

(* Every variable keeps its type through every file operation and crash.   *)
THEOREM TypeCorrect == Spec => []TypeOK
<1>1. Init => TypeOK
  BY LogConstants DEF Init, TypeOK, Steps, Descriptor
<1>2. TypeOK /\ [Next]_vars => TypeOK'
  <2> SUFFICES ASSUME TypeOK, [Next]_vars
               PROVE  TypeOK'
    OBVIOUS
  <2> USE LogConstants DEF TypeOK, Steps, Descriptor, Return, Close, file,
                           history
  <2>1. ASSUME NEW h \in Handle, NEW r \in Record, OpenLog(h, r)
        PROVE  TypeOK'
    BY <2>1 DEF OpenLog
  <2>2. ASSUME NEW h \in Handle, Write(h)
        PROVE  TypeOK'
    BY <2>2 DEF Write
  <2>3. ASSUME NEW h \in Handle, TornWrite(h)
        PROVE  TypeOK'
    <3>1. tail' \in Record \cup {Clean, Partial}
      BY <2>3 DEF TornWrite
    <3> QED BY <2>3, <3>1 DEF TornWrite
  <2>4. ASSUME NEW h \in Handle, NEW S \in Removals[h], ReadForCompact(h, S)
        PROVE  TypeOK'
    BY <2>4 DEF ReadForCompact, Parsed
  <2>5. ASSUME NEW h \in Handle, OpenTemp(h)
        PROVE  TypeOK'
    BY <2>5 DEF OpenTemp
  <2>6. ASSUME NEW h \in Handle, WriteTemp(h)
        PROVE  TypeOK'
    <3>1. CASE fd[h] = "temp"
      <4>1. temp[PidOf[h]] \subseteq Record
        BY <3>1
      <4>2. PICK extra \in SUBSET temp[PidOf[h]] :
              temp' = [temp EXCEPT ![PidOf[h]] = kept[h] \cup extra]
        BY <2>6, <3>1 DEF WriteTemp
      <4>3. kept[h] \cup extra \in SUBSET Record
        BY <4>1, <4>2
      <4>4. temp' \in [Pid -> {NoFile} \cup SUBSET Record]
        BY <4>2, <4>3
      <4>5. \A g \in Handle : fd'[g] = "temp" => temp'[PidOf[g]] # NoFile
        BY <2>6, <4>2, <4>3 DEF WriteTemp
      <4> QED BY <2>6, <3>1, <4>4, <4>5 DEF WriteTemp
    <3>2. CASE fd[h] # "temp"
      BY <2>6, <3>2 DEF WriteTemp
    <3> QED BY <3>1, <3>2
  <2>7. ASSUME NEW h \in Handle, Rename(h)
        PROVE  TypeOK'
    <3>1. temp[PidOf[h]] \subseteq Record
      BY <2>7 DEF Rename
    <3> QED BY <2>7, <3>1 DEF Rename
  <2>8. ASSUME NEW h \in Handle, RenameFails(h)
        PROVE  TypeOK'
    BY <2>8 DEF RenameFails
  <2>9. ASSUME NEW h \in Handle, Fail(h)
        PROVE  TypeOK'
    BY <2>9 DEF Fail
  <2>10. ASSUME NEW p \in Pid, Crash(p)
         PROVE  TypeOK'
    BY <2>10 DEF Crash
  <2>11. CASE UNCHANGED vars
    BY <2>11 DEF vars
  <2> QED
    BY <2>1, <2>2, <2>3, <2>4, <2>5, <2>6, <2>7, <2>8, <2>9, <2>10, <2>11
    DEF Next
<1> QED BY <1>1, <1>2, PTL DEF Spec

----------------------------------------------------------------------------
(* What nobody removes is never selected by a removal.                     *)
LEMMA BystandersNotSelected ==
  ASSUME NEW h \in Handle, NEW S \in Removals[h]
  PROVE  Bystanders \cap S = {}
BY DEF Bystanders, Removable

(* Handles with temp files of their own keep the bystanders in the log and *)
(* in every copy a rename may install.                                     *)
LEMMA CopiesStep ==
  ASSUME OwnTemp, TypeOK, CopiesHoldBystanders, [Next]_vars
  PROVE  CopiesHoldBystanders'
<1> USE LogConstants DEF TypeOK, CopiesHoldBystanders, BystandersSurvive,
                         Compacting, Return, Close, file, history
<1>0. Bystanders \subseteq Record /\ Bystanders' = Bystanders
  BY DEF Bystanders, Removable
<1>1. ASSUME NEW h \in Handle, NEW r \in Record, OpenLog(h, r)
      PROVE  CopiesHoldBystanders'
  BY <1>0, <1>1 DEF OpenLog
<1>2. ASSUME NEW h \in Handle, Write(h)
      PROVE  CopiesHoldBystanders'
  BY <1>0, <1>2 DEF Write
<1>3. ASSUME NEW h \in Handle, TornWrite(h)
      PROVE  CopiesHoldBystanders'
  BY <1>0, <1>3 DEF TornWrite
<1>4. ASSUME NEW h \in Handle, NEW S \in Removals[h], ReadForCompact(h, S)
      PROVE  CopiesHoldBystanders'
  <2>1. Bystanders \subseteq kept'[h]
    BY <1>0, <1>4, BystandersNotSelected DEF ReadForCompact, Parsed
  <2> QED BY <1>0, <1>4, <2>1 DEF ReadForCompact
<1>5. ASSUME NEW h \in Handle, OpenTemp(h)
      PROVE  CopiesHoldBystanders'
  BY <1>0, <1>5 DEF OpenTemp, OwnTemp
<1>6. ASSUME NEW h \in Handle, WriteTemp(h)
      PROVE  CopiesHoldBystanders'
  <2>1. fd[h] = "temp" /\ temp[PidOf[h]] \subseteq Record
    BY <1>6 DEF WriteTemp
  <2>2. PICK extra \in SUBSET temp[PidOf[h]] :
          temp' = [temp EXCEPT ![PidOf[h]] = kept[h] \cup extra]
    BY <1>6, <2>1 DEF WriteTemp
  <2>3. temp'[PidOf[h]] \in SUBSET Record
    BY <2>1, <2>2
  <2> QED BY <1>0, <1>6, <2>1, <2>2, <2>3 DEF WriteTemp, OwnTemp
<1>7. ASSUME NEW h \in Handle, Rename(h)
      PROVE  CopiesHoldBystanders'
  BY <1>0, <1>7 DEF Rename, OwnTemp
<1>8. ASSUME NEW h \in Handle, RenameFails(h)
      PROVE  CopiesHoldBystanders'
  BY <1>0, <1>8 DEF RenameFails, OwnTemp
<1>9. ASSUME NEW h \in Handle, Fail(h)
      PROVE  CopiesHoldBystanders'
  BY <1>0, <1>9 DEF Fail
<1>10. ASSUME NEW p \in Pid, Crash(p)
       PROVE  CopiesHoldBystanders'
  BY <1>0, <1>10 DEF Crash
<1>11. CASE UNCHANGED vars
  BY <1>0, <1>11 DEF vars
<1> QED
  BY <1>1, <1>2, <1>3, <1>4, <1>5, <1>6, <1>7, <1>8, <1>9, <1>10, <1>11
  DEF Next

(* Whatever any number of processes append, compact, tear or leave undone, *)
(* a record that was in the log and that no command removes stays in it,   *)
(* provided each compacting handle is in a process of its own.             *)
THEOREM BystandersAreSafe == OwnTemp => (Spec => []BystandersSurvive)
<1> SUFFICES ASSUME OwnTemp PROVE Spec => []BystandersSurvive
  OBVIOUS
<1>1. Init => CopiesHoldBystanders
  BY LogConstants DEF Init, CopiesHoldBystanders, BystandersSurvive,
                      Bystanders, Compacting
<1>2. TypeOK /\ CopiesHoldBystanders /\ [Next]_vars => CopiesHoldBystanders'
  BY CopiesStep
<1>3. CopiesHoldBystanders => BystandersSurvive
  BY DEF CopiesHoldBystanders
<1> QED BY <1>1, <1>2, <1>3, TypeCorrect, PTL DEF Spec

----------------------------------------------------------------------------
(* With a single remover, neither its copy of the log nor a pending append *)
(* carries what has been removed.                                          *)
LEMMA NoWayBackStep ==
  ASSUME SoleRemover, TypeOK, NoWayBack, [Next]_vars
  PROVE  NoWayBack'
<1> USE LogConstants DEF TypeOK, NoWayBack, RemovedStaysOut, Compacting,
                         Parsed, Return, Close, file, history
<1>1. ASSUME NEW h \in Handle, NEW r \in Record, OpenLog(h, r)
      PROVE  NoWayBack'
  BY <1>1 DEF OpenLog
<1>2. ASSUME NEW h \in Handle, Write(h)
      PROVE  NoWayBack'
  BY <1>2 DEF Write
<1>3. ASSUME NEW h \in Handle, TornWrite(h)
      PROVE  NoWayBack'
  BY <1>3 DEF TornWrite
<1>4. ASSUME NEW h \in Handle, NEW S \in Removals[h], ReadForCompact(h, S)
      PROVE  NoWayBack'
  BY <1>4 DEF ReadForCompact, SoleRemover
<1>5. ASSUME NEW h \in Handle, OpenTemp(h)
      PROVE  NoWayBack'
  BY <1>5 DEF OpenTemp, SoleRemover
<1>6. ASSUME NEW h \in Handle, WriteTemp(h)
      PROVE  NoWayBack'
  <2>1. fd[h] = "temp" /\ temp[PidOf[h]] = {}
    BY <1>6 DEF WriteTemp
  <2>2. PICK extra \in SUBSET temp[PidOf[h]] :
          temp' = [temp EXCEPT ![PidOf[h]] = kept[h] \cup extra]
    BY <1>6, <2>1 DEF WriteTemp
  <2>3. kept[h] \cup extra = kept[h]
    BY <2>1, <2>2
  <2>4. temp' = [temp EXCEPT ![PidOf[h]] = kept[h]]
    BY <2>2, <2>3
  <2>5. UNCHANGED <<recs, tail, line, kept, dropped, history>>
    BY <1>6, <2>1 DEF WriteTemp
  <2>6. pc' = [pc EXCEPT ![h] = "written"] /\ fd' = [fd EXCEPT ![h] = "none"]
    BY <1>6 DEF WriteTemp
  <2>7. \A g \in Handle : pc[g] \in {"opened", "written"} => g = h
    BY <1>6 DEF WriteTemp, SoleRemover
  <2> QED BY <2>1, <2>4, <2>5, <2>6, <2>7, <1>6 DEF WriteTemp, SoleRemover
<1>7. ASSUME NEW h \in Handle, Rename(h)
      PROVE  NoWayBack'
  <2>1. recs' = kept[h] /\ Parsed' = kept[h]
    BY <1>7 DEF Rename
  <2>2. removed' = removed \cup dropped[h]
    BY <1>7 DEF Rename
  <2>3. Parsed' \cup removed' \subseteq begun'
    BY <1>7, <2>1, <2>2 DEF Rename
  <2>4. \A g \in Handle : g # h => ~Compacting(g)
    BY <1>7 DEF Rename, SoleRemover
  <2>5. \A g \in Handle : fd[g] # "temp"
    BY <1>7, <2>4 DEF Rename
  <2>6. /\ pc' = [pc EXCEPT ![h] = "idle"]
        /\ line' = [line EXCEPT ![h] = {}]
        /\ kept' = [kept EXCEPT ![h] = {}]
        /\ dropped' = [dropped EXCEPT ![h] = {}]
        /\ begun' = begun
    BY <1>7 DEF Rename
  <2>7. \A g \in Handle : fd'[g] = IF fd[g] = "log" THEN "gone" ELSE fd[g]
    BY <1>7, <2>5 DEF Rename
  <2>8. RemovedStaysOut'
    BY <2>1, <2>2, <1>7 DEF Rename
  <2>9. \A g \in Handle : line'[g] \cap (Parsed' \cup removed') = {}
    BY <2>1, <2>2, <2>6
  <2>10. \A g \in Handle : kept'[g] \cap (removed' \cup dropped'[g]) = {}
    <3>1. \A g \in Handle : g # h => kept[g] = {}
      BY <2>4
    <3> QED BY <2>2, <2>6, <3>1
  <2> QED BY <2>2, <2>3, <2>4, <2>5, <2>6, <2>7, <2>8, <2>9, <2>10
<1>8. ASSUME NEW h \in Handle, RenameFails(h)
      PROVE  NoWayBack'
  BY <1>8 DEF RenameFails, SoleRemover
<1>9. ASSUME NEW h \in Handle, Fail(h)
      PROVE  NoWayBack'
  BY <1>9 DEF Fail
<1>10. ASSUME NEW p \in Pid, Crash(p)
       PROVE  NoWayBack'
  BY <1>10 DEF Crash
<1>11. CASE UNCHANGED vars
  BY <1>11 DEF vars
<1> QED
  BY <1>1, <1>2, <1>3, <1>4, <1>5, <1>6, <1>7, <1>8, <1>9, <1>10, <1>11
  DEF Next

(* As long as one handle does all the removing, a removed record never     *)
(* comes back, whatever other handles append, tear or crash meanwhile.     *)
THEOREM RemovedIsGone == SoleRemover => (Spec => []RemovedStaysOut)
<1> SUFFICES ASSUME SoleRemover PROVE Spec => []RemovedStaysOut
  OBVIOUS
<1>1. Init => NoWayBack
  BY LogConstants DEF Init, NoWayBack, RemovedStaysOut, Compacting, Parsed
<1>2. TypeOK /\ NoWayBack /\ [Next]_vars => NoWayBack'
  BY NoWayBackStep
<1>3. NoWayBack => RemovedStaysOut
  BY DEF NoWayBack
<1> QED BY <1>1, <1>2, <1>3, TypeCorrect, PTL DEF Spec

----------------------------------------------------------------------------
(* One handle at a time and no torn write: the copy is never out of date.  *)
LEMMA CopyStep ==
  ASSUME SoleHandle, MaxTears = 0, TypeOK, CopyIsCurrent, [Next]_vars
  PROVE  CopyIsCurrent'
<1> USE LogConstants DEF TypeOK, CopyIsCurrent, Compacting, Parsed, Return,
                         Close, file, history
<1>1. ASSUME NEW h \in Handle, NEW r \in Record, OpenLog(h, r)
      PROVE  CopyIsCurrent'
  BY <1>1 DEF OpenLog, SoleHandle
<1>2. ASSUME NEW h \in Handle, Write(h)
      PROVE  CopyIsCurrent'
  <2>1. pc' = [pc EXCEPT ![h] = "idle"] /\ fd' = [fd EXCEPT ![h] = "none"]
    BY <1>2 DEF Write
  <2>2. tail' = Clean /\ recs' = recs \cup line[h] /\ begun' = begun
    BY <1>2 DEF Write
  <2>3. line[h] \subseteq begun
    BY <1>2 DEF Write
  <2>4. \A g \in Handle : g = h
    BY DEF SoleHandle
  <2> QED BY <2>1, <2>2, <2>3, <2>4
<1>3. ASSUME NEW h \in Handle, TornWrite(h)
      PROVE  CopyIsCurrent'
  BY <1>3 DEF TornWrite
<1>4. ASSUME NEW h \in Handle, NEW S \in Removals[h], ReadForCompact(h, S)
      PROVE  CopyIsCurrent'
  BY <1>4 DEF ReadForCompact, SoleHandle
<1>5. ASSUME NEW h \in Handle, OpenTemp(h)
      PROVE  CopyIsCurrent'
  BY <1>5 DEF OpenTemp, SoleHandle
<1>6. ASSUME NEW h \in Handle, WriteTemp(h)
      PROVE  CopyIsCurrent'
  <2>1. fd[h] = "temp" /\ temp[PidOf[h]] = {}
    BY <1>6 DEF WriteTemp
  <2>2. PICK extra \in SUBSET temp[PidOf[h]] :
          temp' = [temp EXCEPT ![PidOf[h]] = kept[h] \cup extra]
    BY <1>6, <2>1 DEF WriteTemp
  <2>3. kept[h] \cup extra = kept[h]
    BY <2>1, <2>2
  <2>4. temp' = [temp EXCEPT ![PidOf[h]] = kept[h]]
    BY <2>2, <2>3
  <2>5. UNCHANGED <<recs, tail, kept, dropped, begun>>
    BY <1>6, <2>1 DEF WriteTemp
  <2>6. pc' = [pc EXCEPT ![h] = "written"] /\ fd' = [fd EXCEPT ![h] = "none"]
    BY <1>6 DEF WriteTemp
  <2>7. \A g \in Handle : g = h
    BY DEF SoleHandle
  <2>8. Compacting(h)
    BY <1>6 DEF WriteTemp
  <2> QED BY <2>4, <2>5, <2>6, <2>7, <2>8
<1>7. ASSUME NEW h \in Handle, Rename(h)
      PROVE  CopyIsCurrent'
  <2>1. Compacting(h) /\ temp[PidOf[h]] = kept[h]
    BY <1>7 DEF Rename
  <2>2. kept[h] \subseteq recs
    BY <2>1
  <2>3. recs' = kept[h] /\ tail' = Clean /\ begun' = begun
    BY <1>7, <2>1 DEF Rename
  <2>4. pc' = [pc EXCEPT ![h] = "idle"]
    BY <1>7 DEF Rename
  <2>5. fd'[h] \notin {"log", "temp"}
    BY <1>7 DEF Rename
  <2>6. \A g \in Handle : g = h
    BY DEF SoleHandle
  <2>7. pc'[h] = "idle"
    BY <2>4
  <2>8. recs' \subseteq begun'
    BY <2>2, <2>3
  <2> QED BY <2>3, <2>5, <2>6, <2>7, <2>8
<1>8. ASSUME NEW h \in Handle, RenameFails(h)
      PROVE  CopyIsCurrent'
  BY <1>8 DEF RenameFails, SoleHandle
<1>9. ASSUME NEW h \in Handle, Fail(h)
      PROVE  CopyIsCurrent'
  BY <1>9 DEF Fail, SoleHandle
<1>10. ASSUME NEW p \in Pid, Crash(p)
       PROVE  CopyIsCurrent'
  BY <1>10 DEF Crash, SoleHandle
<1>11. CASE UNCHANGED vars
  BY <1>11 DEF vars
<1> QED
  BY <1>1, <1>2, <1>3, <1>4, <1>5, <1>6, <1>7, <1>8, <1>9, <1>10, <1>11
  DEF Next

(* Only the write that completes an append and the rename that completes a *)
(* compaction change what a reader finds: every other step is a stutter.   *)
LEMMA StepIsContractStep ==
  ASSUME SoleHandle, MaxTears = 0, TypeOK, CopyIsCurrent, [Next]_vars
  PROVE  [Contract!Next]_(Contract!vars)
<1> USE LogConstants DEF TypeOK, CopyIsCurrent, Compacting, Parsed, Return,
                         Close, file, history, Contract!vars
<1>1. ASSUME NEW h \in Handle, NEW r \in Record, OpenLog(h, r)
      PROVE  UNCHANGED Contract!vars
  BY <1>1 DEF OpenLog
<1>2. ASSUME NEW h \in Handle, Write(h)
      PROVE  Contract!Next
  <2>1. PICK r \in Record : line[h] = {r}
    BY <1>2 DEF Write
  <2>2. Contract!Add(r)
    BY <1>2, <2>1 DEF Write, Contract!Add
  <2> QED BY <2>2 DEF Contract!Next
<1>3. ASSUME NEW h \in Handle, TornWrite(h)
      PROVE  UNCHANGED Contract!vars
  BY <1>3 DEF TornWrite
<1>4. ASSUME NEW h \in Handle, NEW S \in Removals[h], ReadForCompact(h, S)
      PROVE  UNCHANGED Contract!vars
  BY <1>4 DEF ReadForCompact
<1>5. ASSUME NEW h \in Handle, OpenTemp(h)
      PROVE  UNCHANGED Contract!vars
  BY <1>5 DEF OpenTemp
<1>6. ASSUME NEW h \in Handle, WriteTemp(h)
      PROVE  UNCHANGED Contract!vars
  BY <1>6 DEF WriteTemp
<1>7. ASSUME NEW h \in Handle, Rename(h)
      PROVE  Contract!Next
  <2>1. PICK S \in Removals[h] : /\ recs \cap S # {}
                                 /\ kept[h] = recs \ S
                                 /\ dropped[h] = recs \cap S
    BY <1>7 DEF Rename
  <2>2. recs' = recs \ S
    BY <1>7, <2>1 DEF Rename
  <2>3. Contract!Remove(S)
    BY <1>7, <2>1, <2>2 DEF Rename, Contract!Remove
  <2>4. S \in UNION {Removals[g] : g \in Handle}
    OBVIOUS
  <2> QED BY <2>3, <2>4 DEF Contract!Next
<1>8. ASSUME NEW h \in Handle, RenameFails(h)
      PROVE  UNCHANGED Contract!vars
  BY <1>8 DEF RenameFails
<1>9. ASSUME NEW h \in Handle, Fail(h)
      PROVE  UNCHANGED Contract!vars
  BY <1>9 DEF Fail
<1>10. ASSUME NEW p \in Pid, Crash(p)
       PROVE  UNCHANGED Contract!vars
  BY <1>10 DEF Crash
<1>11. CASE UNCHANGED vars
  BY <1>11 DEF vars
<1> QED
  BY <1>1, <1>2, <1>3, <1>4, <1>5, <1>6, <1>7, <1>8, <1>9, <1>10, <1>11
  DEF Next

(* For a single handle, whose calls may fail or whose process may die at   *)
(* any step, the log is the atomic set of records RecordSet specifies.     *)
THEOREM SerialImplementsPromise ==
  SoleHandle /\ MaxTears = 0 => (Spec => Promise)
<1> SUFFICES ASSUME SoleHandle, MaxTears = 0 PROVE Spec => Promise
  OBVIOUS
<1>1. Init => CopyIsCurrent
  BY LogConstants DEF Init, CopyIsCurrent, Compacting
<1>2. TypeOK /\ CopyIsCurrent /\ [Next]_vars => CopyIsCurrent'
  BY CopyStep
<1>3. Init => Contract!Init
  BY LogConstants DEF Init, Contract!Init, Parsed
<1>4. TypeOK /\ CopyIsCurrent /\ [Next]_vars
        => [Contract!Next]_(Contract!vars)
  BY StepIsContractStep
<1> QED
  BY <1>1, <1>2, <1>3, <1>4, TypeCorrect, PTL
  DEF Spec, Promise, Contract!Spec

----------------------------------------------------------------------------
(* Appends are lost to a compaction that read the log before them, and to  *)
(* a line cut short just ahead of them.  Without either, none is.          *)
NobodyRemoves == \A h \in Handle : Removals[h] = {}
OnlyAppends ==
  /\ tail = Clean
  /\ \A h \in Handle : ~Compacting(h) /\ (pc[h] = "append" => fd[h] = "log")
  /\ AddedStaysIn

(* Where nobody removes, the log only grows, by any number of appenders.   *)
LEMMA AppendsStep ==
  ASSUME NobodyRemoves, MaxTears = 0, TypeOK, OnlyAppends, [Next]_vars
  PROVE  OnlyAppends'
<1> USE LogConstants DEF TypeOK, OnlyAppends, AddedStaysIn, Removable, Compacting,
                         Parsed, Return, Close, file, history
<1>1. ASSUME NEW h \in Handle, NEW r \in Record, OpenLog(h, r)
      PROVE  OnlyAppends'
  BY <1>1 DEF OpenLog
<1>2. ASSUME NEW h \in Handle, Write(h)
      PROVE  OnlyAppends'
  BY <1>2 DEF Write
<1>3. ASSUME NEW h \in Handle, TornWrite(h)
      PROVE  OnlyAppends'
  BY <1>3 DEF TornWrite
<1>4. ASSUME NEW h \in Handle, NEW S \in Removals[h], ReadForCompact(h, S)
      PROVE  OnlyAppends'
  BY DEF NobodyRemoves
<1>5. ASSUME NEW h \in Handle, OpenTemp(h) \/ WriteTemp(h) \/ Rename(h) \/ RenameFails(h)
      PROVE  FALSE
  BY <1>5 DEF OpenTemp, WriteTemp, Rename, RenameFails
<1>6. ASSUME NEW h \in Handle, Fail(h)
      PROVE  OnlyAppends'
  BY <1>6 DEF Fail
<1>7. ASSUME NEW p \in Pid, Crash(p)
      PROVE  OnlyAppends'
  BY <1>7 DEF Crash
<1>8. CASE UNCHANGED vars
  BY <1>8 DEF vars
<1> QED
  BY <1>1, <1>2, <1>3, <1>4, <1>5, <1>6, <1>7, <1>8 DEF Next

(* Where one handle does everything, only its own removals take out what   *)
(* it added: the copy it installs is the log as it stands otherwise.       *)
LEMMA AddedStep ==
  ASSUME SoleHandle, MaxTears = 0, TypeOK, CopyIsCurrent, AddedStaysIn, [Next]_vars
  PROVE  AddedStaysIn'
<1> USE LogConstants DEF TypeOK, CopyIsCurrent, AddedStaysIn, Compacting, Parsed,
                         Return, Close, file, history
<1>0. Removable' = Removable
  BY DEF Removable
<1>1. ASSUME NEW h \in Handle, Write(h)
      PROVE  AddedStaysIn'
  BY <1>0, <1>1 DEF Write
<1>2. ASSUME NEW h \in Handle, Rename(h)
      PROVE  AddedStaysIn'
  <2>1. PICK S \in Removals[h] : kept[h] = recs \ S
    BY <1>2 DEF Rename
  <2>2. S \subseteq Removable
    BY DEF Removable
  <2>3. recs' = recs \ S /\ added' = added
    BY <1>2, <2>1 DEF Rename
  <2> QED BY <1>0, <2>2, <2>3
<1>3. ASSUME NEW h \in Handle, WriteTemp(h)
      PROVE  UNCHANGED <<recs, tail, added>>
  BY <1>3 DEF WriteTemp
<1>4. ASSUME NEW h \in Handle, TornWrite(h)
      PROVE  FALSE
  BY <1>4 DEF TornWrite
<1>5. ASSUME NEW h \in Handle,
             \/ \E r \in Record : OpenLog(h, r)
             \/ \E S \in Removals[h] : ReadForCompact(h, S)
             \/ OpenTemp(h) \/ RenameFails(h) \/ Fail(h)
      PROVE  UNCHANGED <<recs, tail, added>>
  BY <1>5 DEF OpenLog, ReadForCompact, OpenTemp, RenameFails, Fail
<1>6. ASSUME NEW p \in Pid, Crash(p)
      PROVE  UNCHANGED <<recs, tail, added>>
  BY <1>6 DEF Crash
<1>7. CASE UNCHANGED vars
  BY <1>0, <1>7 DEF vars
<1> QED
  BY <1>0, <1>1, <1>2, <1>3, <1>4, <1>5, <1>6, <1>7 DEF Next

(* An append that returned Ok is read back until a command removes it, as  *)
(* long as no write is cut short and the handles either only append, any   *)
(* number of them, or are one: through failed calls, crashes and           *)
(* interrupted compactions.  (append.)                                     *)
THEOREM AddedIsReadBack ==
  MaxTears = 0 /\ (SoleHandle \/ NobodyRemoves) => (Spec => []AddedStaysIn)
<1>1. ASSUME MaxTears = 0, SoleHandle PROVE Spec => []AddedStaysIn
  <2>1. Init => CopyIsCurrent /\ AddedStaysIn
    BY LogConstants DEF Init, CopyIsCurrent, Compacting, AddedStaysIn
  <2>2. TypeOK /\ CopyIsCurrent /\ AddedStaysIn /\ [Next]_vars
          => CopyIsCurrent' /\ AddedStaysIn'
    BY <1>1, CopyStep, AddedStep
  <2> QED BY <2>1, <2>2, TypeCorrect, PTL DEF Spec
<1>2. ASSUME MaxTears = 0, NobodyRemoves PROVE Spec => []AddedStaysIn
  <2>1. Init => OnlyAppends
    BY LogConstants DEF Init, OnlyAppends, Compacting, AddedStaysIn
  <2>2. TypeOK /\ OnlyAppends /\ [Next]_vars => OnlyAppends'
    BY <1>2, AppendsStep
  <2>3. OnlyAppends => AddedStaysIn
    BY DEF OnlyAppends
  <2> QED BY <2>1, <2>2, <2>3, TypeCorrect, PTL DEF Spec
<1> QED BY <1>1, <1>2
============================================================================
