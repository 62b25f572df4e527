---------------------------- MODULE MCStoreLog -----------------------------
(***************************************************************************)
(* Small instances of StoreLog.  Three handles at most; one record nobody  *)
(* removes, two that commands remove, and lines to append.                 *)
(***************************************************************************)
EXTENDS StoreLog

CONSTANTS h1, h2, h3,             \* handles
          stays, old1, old2, old3,      \* records in the log at the start
          new1, new2, new3, new4  \* records to append

MCRecord == {stays, old1, old2, old3, new1, new2, new3, new4}
MCInitial == {stays, old1, old2, old3}

(* Handles in processes of their own, or all in one.                       *)
OwnProcess == [h \in Handle |-> h]
OneProcess == [h \in Handle |-> h1]

Nothing == [h \in Handle |-> {}]

(* What each handle appends.                                               *)
EachAppends == [h \in Handle |-> CASE h = h1 -> {new1, new2}
                                   [] h = h2 -> {new3}
                                   [] OTHER  -> {new4}]
(* What each handle removes: every one something, or only the first.       *)
EachRemoves == [h \in Handle |-> CASE h = h1 -> {{old1, new1}}
                                   [] h = h2 -> {{old2}}
                                   [] OTHER  -> {{new1}}]
FirstRemoves == [h \in Handle |-> IF h = h1 THEN {{old1, new1}, {old2, new4}}
                                            ELSE {}]
(* Two removals each, one of them in common.                               *)
TwoEach == [h \in Handle |-> IF h = h1 THEN {{old1}, {old2}}
                                       ELSE {{old2}, {new3}}]
TwoEachOld == [h \in Handle |-> IF h = h1 THEN {{old1}, {old2}}
                                          ELSE {{old2}, {old3}}]
============================================================================
