------------------------------ MODULE Recall -------------------------------
(***************************************************************************)
(* The recall list: recent.jsonl with its replay, and the commands of      *)
(* rustcli/core/src/app.rs that use a secret, list, forget and clear what  *)
(* is remembered, or restore from it.  Several processes share the log;    *)
(* between a prompt and its answer another may change what was shown.      *)
(*                                                                         *)
(* A mnemonic derives one address per passphrase, so an entry's address is *)
(* the passphrase it was derived with; NoPass is the empty one.            *)
(***************************************************************************)
EXTENDS Naturals, Sequences, FiniteSets, Lists

CONSTANTS
  Handle,    \* processes running commands
  Secret,    \* mnemonics and private keys
  PassOf,    \* [Secret -> the passphrases a user may give with it]
  KindOf,    \* [Secret -> "mnemonic" or "private_key"]
  NoPass,    \* no passphrase; the only one of a private key
  Initial,   \* the log at the start, perhaps of an older binary
  MaxTime,   \* bound: the clock
  MaxLines   \* bound: lines appended in a behaviour

ASSUME RecallConstants ==
  /\ \A s \in Secret : NoPass \in PassOf[s]
  /\ MaxTime \in Nat /\ MaxLines \in Nat

VARIABLES
  log,       \* the lines of recent.jsonl
  clock,     \* now, in the resolution of last_used_at
  doing,     \* [Handle -> what its command has left to do]
  appended,  \* the number of lines appended so far
  used,      \* [Secret -> how often it was used since it was last forgotten]
  wallets    \* <<secret, passphrase>> ever used

recallVars == <<log, clock, doing, appended, used, wallets>>

Remember(s, p, n, t) ==
  [type |-> "secret.remember", id |-> s, pass |-> p, uses |-> n, at |-> t]
Forget(s) == [type |-> "secret.forget", id |-> s]
Nothing == [op |-> "idle"]
Idle(h) == doing[h] = Nothing

----------------------------------------------------------------------------
(* recent: the replay.  The last line of a secret speaks for it; its place *)
(* is where it was first remembered since it was last forgotten.           *)

LinesOf(l, s) == {i \in DOMAIN l : l[i].id = s}
LastLine(l, s) == CHOOSE i \in LinesOf(l, s) : \A j \in LinesOf(l, s) : j <= i
Remembered(l) ==
  {s \in Secret : /\ LinesOf(l, s) # {}
                  /\ l[LastLine(l, s)].type = "secret.remember"}
Entry(l, s) == l[LastLine(l, s)]
Place(l, s) ==
  CHOOSE i \in LinesOf(l, s) :
    /\ \A j \in LinesOf(l, s) : j >= i => l[j].type = "secret.remember"
    /\ \A j \in LinesOf(l, s) : j < i =>
         \E k \in LinesOf(l, s) : k >= j /\ k < i /\ l[k].type = "secret.forget"

(* Newest use first; of two at the same time the later one to come in.     *)
Newer(l, r, s) ==
  \/ Entry(l, r).at > Entry(l, s).at
  \/ Entry(l, r).at = Entry(l, s).at /\ Place(l, r) > Place(l, s)
Standing(l, s) == Cardinality({r \in Remembered(l) : r = s \/ Newer(l, r, s)})
Recent(l) ==
  [n \in 1 .. Cardinality(Remembered(l)) |->
     CHOOSE s \in Remembered(l) : Standing(l, s) = n]

(* recent list: the rows it numbers from 1, of one kind where one is asked *)
(* for.  (A limit takes a prefix, which moves no row.)                     *)
Listed(l, kinds) == SelectSeq(Recent(l), LAMBDA s : KindOf[s] \in kinds)

(* find_recent: the entry at a position of the whole list.  (An id or an   *)
(* address finds the same one wherever it stands.)                         *)
FindRecent(l, n) == Recent(l)[n]

----------------------------------------------------------------------------
RecallInit ==
  /\ log = Initial
  /\ clock = 0
  /\ doing = [h \in Handle |-> Nothing]
  /\ appended = 0
  /\ used = [s \in Secret |->
               IF s \in Remembered(Initial) THEN Entry(Initial, s).uses ELSE 0]
  /\ wallets = {<<s, Entry(Initial, s).pass>> : s \in Remembered(Initial)}

Tick ==
  /\ clock < MaxTime
  /\ clock' = clock + 1
  /\ UNCHANGED <<log, doing, appended, used, wallets>>

Uses(l, s) == IF s \in Remembered(l) THEN Entry(l, s).uses ELSE 0

(* remember_secret: the entry is read, and its line made out.              *)
Take(h, s, p, restores) ==
  /\ Idle(h)
  /\ appended < MaxLines
  /\ appended' = appended + 1
  /\ doing' = [doing EXCEPT ![h] =
       [op |-> "append", restores |-> restores,
        line |-> Remember(s, p, Uses(log, s) + 1, clock)]]
  /\ UNCHANGED <<log, clock, used, wallets>>

(* account new, import-*, derive: the secret the user names.               *)
Use(h, s, p) == Take(h, s, p, FALSE)

(* Slip, for the mutants only: restored under any passphrase.              *)
RestoreUnchecked(h, n, p) == Take(h, Recent(log)[n], p, TRUE)

(* account import-recent: the entry at a position of the list, and only    *)
(* with the passphrase that gives its address.                             *)
Restore(h, n, p) ==
  /\ p = Entry(log, FindRecent(log, n)).pass
  /\ Take(h, FindRecent(log, n), p, TRUE)

(* remember_secret: the line is appended.                                  *)
AppendLine(h) ==
  /\ doing[h].op = "append"
  /\ LET line == doing[h].line IN
       /\ log' = Append(log, line)
       /\ used' = [used EXCEPT ![line.id] = @ + 1]
       /\ wallets' = wallets \cup {<<line.id, line.pass>>}
  /\ doing' = [doing EXCEPT ![h] = Nothing]
  /\ UNCHANGED <<clock, appended>>

(* recent forget: the entry at a position is shown, for confirmation.      *)
AskForget(h, n) ==
  /\ Idle(h)
  /\ doing' = [doing EXCEPT ![h] =
                 [op |-> "forget", id |-> FindRecent(log, n), position |-> n]]
  /\ UNCHANGED <<log, clock, appended, used, wallets>>

(* The log with every line of a secret taken out.                          *)
Without(l, s) == Sifted(l, {i \in DOMAIN l : l[i].id # s})

(* Slip, for the mutants only: the position is looked up again after the   *)
(* prompt.                                                                 *)
DoForgetByPosition(h) ==
  /\ doing[h].op = "forget"
  /\ doing[h].position \in DOMAIN Recent(log)
  /\ LET s == Recent(log)[doing[h].position] IN
       /\ log' = Without(log, s)
       /\ used' = [used EXCEPT ![s] = 0]
  /\ doing' = [doing EXCEPT ![h] = Nothing]
  /\ UNCHANGED <<clock, appended, wallets>>

(* forget_secret: the lines of the entry that was shown are taken out.     *)
DoForget(h) ==
  /\ doing[h].op = "forget"
  /\ log' = Without(log, doing[h].id)
  /\ used' = [used EXCEPT ![doing[h].id] = 0]
  /\ doing' = [doing EXCEPT ![h] = Nothing]
  /\ UNCHANGED <<clock, appended, wallets>>

(* recent clear: asks, unless there is nothing to forget.                  *)
AskClear(h) ==
  /\ Idle(h)
  /\ Remembered(log) # {}
  /\ doing' = [doing EXCEPT ![h] = [op |-> "clear"]]
  /\ UNCHANGED <<log, clock, appended, used, wallets>>

(* clear_recent: every line this binary knows goes, tombstones too.        *)
DoClear(h) ==
  /\ doing[h].op = "clear"
  /\ log' = <<>>
  /\ used' = [s \in Secret |-> 0]
  /\ doing' = [doing EXCEPT ![h] = Nothing]
  /\ UNCHANGED <<clock, appended, wallets>>

(* The prompt is declined, or the process dies.                            *)
GiveUp(h) ==
  /\ ~Idle(h)
  /\ doing' = [doing EXCEPT ![h] = Nothing]
  /\ UNCHANGED <<log, clock, appended, used, wallets>>

RecallNext ==
  \/ Tick
  \/ \E h \in Handle :
       \/ \E s \in Secret : \E p \in PassOf[s] : Use(h, s, p)
       \/ \E n \in DOMAIN Recent(log) :
            \/ \E p \in PassOf[Recent(log)[n]] : Restore(h, n, p)
            \/ AskForget(h, n)
       \/ AppendLine(h) \/ DoForget(h) \/ AskClear(h) \/ DoClear(h)
       \/ GiveUp(h)

RecallSpec == RecallInit /\ [][RecallNext]_recallVars
----------------------------------------------------------------------------
(* Properties.                                                             *)

RecallTypeOK ==
  /\ \A i \in DOMAIN log :
       /\ log[i].id \in Secret
       /\ log[i].type = "secret.remember" =>
            /\ log[i].pass \in PassOf[log[i].id]
            /\ log[i].uses \in Nat \ {0} /\ log[i].at \in 0 .. MaxTime
  /\ clock \in 0 .. MaxTime
  /\ \A h \in Handle : doing[h].op \in {"idle", "append", "forget", "clear"}
  /\ appended \in 0 .. MaxLines
  /\ used \in [Secret -> Nat]
  /\ \A w \in wallets : w[1] \in Secret /\ w[2] \in PassOf[w[1]]

(* Restoring never makes a wallet the user has not had before, whatever    *)
(* passphrase is typed and whatever became of the list since it was shown. *)
(* (account import-recent.)                                                *)
RestoredWasUsed ==
  \A h \in Handle : doing[h].op = "append" /\ doing[h].restores =>
    <<doing[h].line.id, doing[h].line.pass>> \in wallets

(* Forgetting an entry takes out the one that was shown, and no other,     *)
(* though the positions may have moved during the prompt.                  *)
ForgetsTheOneShown ==
  [][\A h \in Handle :
       doing[h].op = "forget" /\ Nothing = doing'[h] /\ log' # log =>
         Remembered(log') = Remembered(log) \ {doing[h].id}]_recallVars

(* The number of uses shown is the number of uses since it was forgotten.  *)
UsesAreCounted ==
  \A s \in Remembered(log) : Entry(log, s).uses = used[s]

(* The number a listing prints beside an entry is the one that selects it. *)
(* (recent list, with and without a kind; find_recent.)                    *)
PositionsMatchTheList ==
  \A k \in {KindOf[s] : s \in Secret} :
    \A n \in DOMAIN Listed(log, {k}) : Listed(log, {k})[n] = Recent(log)[n]

(* A phrase that was used with a passphrase is known to have one until it  *)
(* is forgotten.  (What RecentSecret.has_passphrase is for.)               *)
PassphraseStaysKnown ==
  [][\A s \in Remembered(log) \cap Remembered(log') :
       Entry(log, s).pass # NoPass => Entry(log', s).pass # NoPass]_recallVars
============================================================================
