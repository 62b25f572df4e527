----------------------------- MODULE DustSync ------------------------------
(***************************************************************************)
(* The dust state of one Midnight wallet: `sync`, `load_cache` and         *)
(* `save_cache` of chain/midnight/dust.rs over `Indexer::subscribe` and    *)
(* `write_private`.  Several processes sync from one growing log of events *)
(* and share one cache file, which is truncated and then written; the      *)
(* stream may end at any point, and a process may die at any point.        *)
(*                                                                         *)
(* A state is the sequence of the events folded into it.                   *)
(***************************************************************************)
EXTENDS Integers, Sequences

CONSTANTS
  Handle,    \* processes
  MaxEvents,  \* bound: events of the log
  Batch,      \* events folded into the state at a time
  MaxIdGiven  \* whether every event comes with the highest id there is

ASSUME DustConstants ==
  MaxEvents \in Nat /\ Batch \in Nat \ {0} /\ MaxIdGiven \in BOOLEAN

VARIABLES
  log,    \* the number of events the indexer has
  cache,  \* the cache file: {} (absent, cut or not decodable) or {what it holds}
  dust    \* [Handle -> its sync]

dustVars == <<log, cache, dust>>

Idle == [stage |-> "none", state |-> <<>>, batch |-> <<>>, start |-> 0,
         last |-> 0, next |-> 1, since |-> 0]

DustInit ==
  /\ log \in 0 .. MaxEvents
  /\ cache = {}
  /\ dust = [h \in Handle |-> Idle]

Synced(h) == dust[h].stage = "synced"

(***************************************************************************)
(* Slips: mistakes a change to dust.rs could make, for the mutants only.   *)
(***************************************************************************)

(* What was replayed before the stream ended is kept for the next time,    *)
(* with the id of the last event heard of.                                 *)
StreamEndsSaving(h) ==
  /\ dust[h].stage = "reading"
  /\ cache' = {[id |-> dust[h].last, state |-> dust[h].state]}
  /\ dust' = [dust EXCEPT ![h] = Idle]
  /\ UNCHANGED log

----------------------------------------------------------------------------
(* The chain goes on.                                                      *)
NewEvent ==
  /\ log < MaxEvents
  /\ log' = log + 1
  /\ UNCHANGED <<cache, dust>>

(* load_cache, and the subscription at the last known id; a file that      *)
(* cannot be decoded is an empty wallet.                                   *)
StartSync(h) ==
  /\ dust[h].stage = "none"
  /\ LET from == IF cache = {} THEN [id |-> 0, state |-> <<>>]
                 ELSE CHOOSE c \in cache : TRUE
     IN  dust' = [dust EXCEPT ![h] =
           [Idle EXCEPT !.stage = "reading", !.state = from.state,
                        !.start = from.id, !.last = from.id, !.since = log,
                        !.next = IF from.id > 0 THEN from.id ELSE 1]]
  /\ UNCHANGED <<log, cache>>

(* An event and the highest id the indexer has, 0 where it does not say:   *)
(* the sync is at the tip.  Events already in the state are skipped; full  *)
(* batches are folded in.                                                  *)
ReceiveOf(h, maxId) ==
  LET d == dust[h]
      batch == Append(d.batch, d.next)
      stage == IF d.next >= maxId THEN "caught" ELSE "reading"
  IN  /\ d.stage = "reading" /\ d.next <= log
      /\ dust' = [dust EXCEPT ![h] =
           IF d.next <= d.start
             THEN [d EXCEPT !.next = @ + 1, !.stage = stage]
           ELSE IF Len(batch) >= Batch
             THEN [d EXCEPT !.next = @ + 1, !.stage = stage, !.last = d.next,
                            !.state = @ \o batch, !.batch = <<>>]
           ELSE [d EXCEPT !.next = @ + 1, !.stage = stage, !.last = d.next,
                          !.batch = batch]]
      /\ UNCHANGED <<log, cache>>

Receive(h) ==
  \E maxId \in {log} \cup (IF MaxIdGiven THEN {} ELSE {0}) : ReceiveOf(h, maxId)

(* The stream ended, failed or ran out of time before the tip: an error,   *)
(* and nothing is kept.  A process may also die here or below.             *)
StreamEnds(h) ==
  /\ dust[h].stage # "none"
  /\ dust' = [dust EXCEPT ![h] = Idle]
  /\ UNCHANGED <<log, cache>>

(* Caught up: what is left of the batch is folded in, and save_cache opens *)
(* the file, which empties it; the open may fail.                          *)
FoldAndCut(h) ==
  LET folded == [dust[h] EXCEPT !.state = @ \o dust[h].batch, !.batch = <<>>]
  IN  /\ dust[h].stage = "caught"
      /\ \/ /\ dust' = [dust EXCEPT ![h] = [folded EXCEPT !.stage = "saving"]]
            /\ cache' = {}
         \/ /\ dust' = [dust EXCEPT ![h] = [folded EXCEPT !.stage = "synced"]]
            /\ UNCHANGED cache
      /\ UNCHANGED log

(* The bytes are written.  Over those of another process that wrote since, *)
(* which may reach further, the file may or may not decode; a write that   *)
(* fails leaves one that does not.  Nothing of this is an error.           *)
Write(h) ==
  /\ dust[h].stage = "saving"
  /\ \/ cache' = {[id |-> dust[h].last, state |-> dust[h].state]}
     \/ cache' = {}
  /\ dust' = [dust EXCEPT ![h].stage = "synced"]
  /\ UNCHANGED log

DustStep(h) ==
  \/ StartSync(h) \/ Receive(h) \/ FoldAndCut(h) \/ Write(h)

----------------------------------------------------------------------------
(* Properties.                                                             *)

Events(n) == [i \in 1 .. n |-> i]

(* The cache file names its own state, however many processes write it:    *)
(* every event up to the id it resumes from is in the state beside it, once*)
(* and in order, so that skipping what is at or below the id loses none.   *)
(* So is the state of a sync that succeeds, and it holds every event there *)
(* was when it began: no transaction is built on part of the log.          *)
CacheReadsBack ==
  /\ \A c \in cache : c.state = Events(c.id)
  /\ \A h \in Handle : Synced(h) =>
       /\ dust[h].state = Events(dust[h].last)
       /\ dust[h].last >= dust[h].since

============================================================================
