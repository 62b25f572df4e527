--------------------------- MODULE IdentityProofs ---------------------------
(***************************************************************************)
(* What Identity's homes, lists and letters promise, for any homes,        *)
(* writers, paths, networks, keys and messages.                            *)
(*                                                                         *)
(* Files of keys are their owner's alone: a file that is there stays there *)
(* and, once private, private; a writer with secrets gets as far as        *)
(* filling only by way of creating the file private or tightening it.      *)
(*                                                                         *)
(* Accounts stay the same: whatever a home keeps, a list writes and        *)
(* another home reads is the secret, the path and the address of one       *)
(* account, since every form a secret is written in reads back as it.      *)
(*                                                                         *)
(* Lists are complete: of an account's addresses, one a network's mark,    *)
(* none is without its row.  Verdicts are true: an address tells its key.  *)
(***************************************************************************)
EXTENDS Identity, WellFoundedInduction, FiniteSetTheorems, TLAPS

(* Whether a list tells a key. *)
Tells(what) == what.tells \cap SecretColumns # {}

(* The strengthening: of every writer the path is one, and the file is     *)
(* there once it is opened, private once it may be filled with keys.       *)
JobOK(w) ==
  /\ jobs[w].at \in {"none", "open", "tighten", "fill"}
  /\ jobs[w].at # "none" =>
       jobs[w].path \in Path /\ (Tells(jobs[w].what) => jobs[w].what.secrets)
  /\ jobs[w].at \in {"tighten", "fill"} => files[jobs[w].path].there
  /\ jobs[w].at = "fill" /\ jobs[w].what.secrets => files[jobs[w].path].private
FileOK(p) == Tells(files[p].what) => files[p].there /\ files[p].private
Inv ==
  /\ files = [p \in Path |-> files[p]]
  /\ jobs = [w \in Writer |-> jobs[w]]
  /\ \A p \in Path : FileOK(p)
  /\ \A w \in Writer : JobOK(w)

(* A list without secrets has no column of keys. *)
LEMMA OnlySecretsTell ==
  ASSUME NEW list, NEW active, NEW secrets \in BOOLEAN, Tells(Render(list, active, secrets))
  PROVE  Render(list, active, secrets).secrets
<1>. DEFINE what == Render(list, active, secrets)
<1>1. what.secrets = secrets
  BY DEF Render, List
<1>2. ASSUME ~secrets PROVE what.tells \subseteq Columns
  BY <1>2 DEF Render, List, Headers
<1>3. Columns \cap SecretColumns = {}
  BY DEF Columns, SecretColumns
<1>. QED BY <1>1, <1>2, <1>3 DEF Tells

LEMMA InitInv == Init => Inv
<1>. SUFFICES ASSUME Init PROVE Inv
  OBVIOUS
<1>1. \A p \in Path : files[p] \in {NoFile, File(FALSE, Nothing)}
  BY DEF Init, ExportInit
<1>2. \A p \in Path : FileOK(p)
  BY <1>1 DEF NoFile, File, FileOK, Tells, Nothing, List
<1>3. \A w \in Writer : JobOK(w)
  BY DEF Init, ExportInit, NoJob, Job, JobOK
<1>4. files = [p \in Path |-> files[p]] /\ jobs = [w \in Writer |-> jobs[w]]
  BY DEF Init, ExportInit
<1>. QED BY <1>2, <1>3, <1>4 DEF Inv

LEMMA Starts ==
  ASSUME Inv, NEW w \in Writer, NEW path \in Path, NEW list, NEW active,
         NEW secrets \in BOOLEAN, StartWriting(w, path, list, active, secrets)
  PROVE  Inv'
<1>. DEFINE what == Render(list, active, secrets)
<1>1. files' = files /\ jobs' = [jobs EXCEPT ![w] = Job("open", path, what)]
  BY DEF StartWriting
<1>2. Tells(what) => what.secrets
  BY OnlySecretsTell
<1>3. jobs'[w] = Job("open", path, what) /\ \A v \in Writer \ {w} : jobs'[v] = jobs[v]
  BY <1>1 DEF Inv
<1>. HIDE DEF what
<1>4. JobOK(w)'
  BY <1>2, <1>3 DEF JobOK, Job
<1>5. ASSUME NEW v \in Writer \ {w} PROVE JobOK(v)'
  BY <1>1, <1>3 DEF Inv, JobOK
<1>6. \A p \in Path : FileOK(p)'
  BY <1>1 DEF Inv, FileOK
<1>. QED BY <1>1, <1>4, <1>5, <1>6 DEF Inv

(* What the steps on an open file have in common: the file at the path     *)
(* becomes there, and private if it was; the other writers see no less.    *)
LEMMA Keeps ==
  ASSUME Inv, NEW w \in Writer, jobs[w].path \in Path, NEW private, NEW what, NEW job,
         files' = [files EXCEPT ![jobs[w].path] = File(private, what)],
         jobs' = [jobs EXCEPT ![w] = job],
         files[jobs[w].path].there /\ files[jobs[w].path].private => private,
         Tells(what) => private,
         JobOK(w)'
  PROVE  Inv'
<1>. DEFINE path == jobs[w].path
<1>1. files'[path] = File(private, what) /\ \A p \in Path \ {path} : files'[p] = files[p]
  BY DEF Inv
<1>2. \A v \in Writer \ {w} : jobs'[v] = jobs[v]
  BY DEF Inv
<1>3. \A p \in Path : /\ files[p].there => files'[p].there
                      /\ files[p].there /\ files[p].private => files'[p].private
  BY <1>1 DEF File
<1>4. ASSUME NEW v \in Writer \ {w} PROVE JobOK(v)'
  BY <1>2, <1>3 DEF Inv, JobOK
<1>5. \A p \in Path : FileOK(p)'
  BY <1>1 DEF Inv, FileOK, File
<1>6. files' = [p \in Path |-> files'[p]] /\ jobs' = [v \in Writer |-> jobs'[v]]
  BY DEF Inv
<1>. QED BY <1>4, <1>5, <1>6 DEF Inv

LEMMA Opens == ASSUME Inv, NEW w \in Writer, OpenFile(w) PROVE Inv'
<1>. DEFINE j == jobs[w]
            at == IF j.what.secrets THEN "tighten" ELSE "fill"
<1>1. j.at = "open" /\ j.path \in Path /\ (Tells(j.what) => j.what.secrets)
  BY DEF OpenFile, At, Inv, JobOK
<1>2. /\ files' = [files EXCEPT ![j.path] = File(Opened(w), Nothing)]
      /\ jobs' = [jobs EXCEPT ![w] = Job(at, j.path, j.what)]
  BY DEF OpenFile, Onwards
<1>3. files[j.path].there /\ files[j.path].private => Opened(w)
  BY DEF Opened
<1>4. ~Tells(Nothing)
  BY DEF Tells, Nothing, List
<1>5. files'[j.path].there /\ jobs'[w] = Job(at, j.path, j.what)
  BY <1>1, <1>2 DEF Inv, File
<1>6. JobOK(w)'
  BY <1>1, <1>5 DEF JobOK, Job
<1>. QED BY <1>1, <1>2, <1>3, <1>4, <1>6, Keeps

LEMMA Tightens == ASSUME Inv, NEW w \in Writer, Tighten(w) PROVE Inv'
<1>. DEFINE j == jobs[w]
<1>1. j.at = "tighten" /\ j.path \in Path /\ (Tells(j.what) => j.what.secrets)
  BY DEF Tighten, At, Inv, JobOK
<1>2. /\ files' = [files EXCEPT ![j.path] = File(TRUE, files[j.path].what)]
      /\ jobs' = [jobs EXCEPT ![w] = Job("fill", j.path, j.what)]
  BY DEF Tighten
<1>3. /\ files'[j.path].there /\ files'[j.path].private
      /\ jobs'[w] = Job("fill", j.path, j.what)
  BY <1>1, <1>2 DEF Inv, File
<1>4. JobOK(w)'
  BY <1>1, <1>3 DEF JobOK, Job
<1>. QED BY <1>1, <1>2, <1>4, Keeps

LEMMA Fills == ASSUME Inv, NEW w \in Writer, Fill(w) PROVE Inv'
<1>. DEFINE j == jobs[w]
            old == files[j.path]
<1>1. j.at = "fill" /\ j.path \in Path /\ (Tells(j.what) => old.private)
  BY DEF Fill, At, Inv, JobOK
<1>2. Tells(old.what) => old.private
  BY <1>1 DEF Inv, FileOK
<1>3. PICK what \in {j.what, Over(j.what, old.what)} :
        files' = [files EXCEPT ![j.path] = File(old.private, what)]
  BY DEF Fill
<1>4. Tells(what) => old.private
  <2>1. CASE what = j.what
    BY <2>1, <1>1
  <2>2. CASE what = Over(j.what, old.what)
    <3>1. Tells(what) => Tells(j.what) \/ Tells(old.what)
      BY <2>2 DEF Tells, Over, List
    <3>. QED BY <3>1, <1>1, <1>2
  <2>. QED BY <2>1, <2>2
<1>5. jobs' = [jobs EXCEPT ![w] = NoJob]
  BY DEF Fill
<1>6. JobOK(w)'
  BY <1>5 DEF Inv, JobOK, NoJob, Job
<1>. QED BY <1>1, <1>3, <1>4, <1>5, <1>6, Keeps

LEMMA Stops == ASSUME Inv, NEW w \in Writer, StopWriting(w) PROVE Inv'
<1>1. files' = files /\ jobs' = [jobs EXCEPT ![w] = NoJob]
  BY DEF StopWriting
<1>2. JobOK(w)'
  BY <1>1 DEF Inv, JobOK, NoJob, Job
<1>3. ASSUME NEW v \in Writer \ {w} PROVE JobOK(v)'
  BY <1>1 DEF Inv, JobOK
<1>4. \A p \in Path : FileOK(p)'
  BY <1>1 DEF Inv, FileOK
<1>. QED BY <1>1, <1>2, <1>3, <1>4 DEF Inv

LEMMA StepInv == Inv /\ [Next]_vars => Inv'
<1>. SUFFICES ASSUME Inv, [Next]_vars PROVE Inv'
  OBVIOUS
<1>1. CASE UNCHANGED exporting
  BY <1>1 DEF exporting, Inv, JobOK, FileOK
<1>2. ASSUME NEW h \in Home, Derive(h) PROVE Inv'
  BY <1>1, <1>2 DEF Derive, Add
<1>3. ASSUME NEW h \in Home, ImportKey(h) PROVE Inv'
  BY <1>1, <1>3 DEF ImportKey, Add
<1>4. ASSUME NEW h \in Home, ImportExported(h) PROVE Inv'
  BY <1>1, <1>4 DEF ImportExported, Add
<1>5. ASSUME NEW h \in Home, Sign(h) PROVE Inv'
  BY <1>1, <1>5 DEF Sign, Aside
<1>6. ASSUME SignPasted PROVE Inv'
  BY <1>1, <1>6 DEF SignPasted, Aside
<1>7. ASSUME NEW h \in Home, ListAccounts(h) PROVE Inv'
  BY <1>7, Starts, OneProcessEach DEF ListAccounts
<1>8. ASSUME NEW h \in Home, WriteLists(h) PROVE Inv'
  BY <1>8, Opens, Tightens, Fills, Stops, OneProcessEach DEF WriteLists, Writing
<1>9. CASE UNCHANGED vars
  BY <1>1, <1>9 DEF vars
<1>. QED BY <1>2, <1>3, <1>4, <1>5, <1>6, <1>7, <1>8, <1>9 DEF Next

(* A file with a private key or a mnemonic in it is its owner's alone, in  *)
(* every state, whatever was there before, whoever else writes it, and     *)
(* whichever call fails.  (paths.rs write_private, export_accounts.)       *)
THEOREM KeysAreTheOwners == Spec => []KeysStayPrivate
<1>1. Inv => KeysStayPrivate
  BY DEF Inv, FileOK, Tells, KeysStayPrivate
<1>. QED BY <1>1, InitInv, StepInv, PTL DEF Spec

-----------------------------------------------------------------------------
(* Accounts and the texts of their keys, on every chain.                   *)

(* An account as it is derived or read. *)
Proper(a) ==
  /\ a.chain \in Chain /\ a = Account(a.chain, a.key, a.second)
  /\ a.chain \in {"evm", "solana", "ecash"} => a.second = None /\ Bytes(a.key) = 32
  /\ a.chain = "cardano" => Bytes(a.key) = 96 /\ Bytes(a.second) = 96
  /\ a.chain = "midnight" => Bytes(a.key) = 32 /\ (a.second = None \/ Bytes(a.second) = 32)

LEMMA FiveChains == Chain = {"evm", "solana", "cardano", "midnight", "ecash"}
  BY DEF Chain, ChainList, Range

LEMMA SizesOf ==
  ASSUME NEW t
  PROVE  /\ \A x : t.items = <<x>> => Sizes(t) = <<Bytes(x)>>
         /\ \A x, y : t.items = <<x, y>> => Sizes(t) = <<Bytes(x), Bytes(y)>>
         /\ \A n : Sizes(t) = <<n>> => Bytes(t.items[1]) = n
         /\ \A n, m : Sizes(t) = <<n, m>> => Bytes(t.items[1]) = n /\ Bytes(t.items[2]) = m
<1>1. ASSUME NEW x, t.items = <<x>> PROVE Sizes(t) = <<Bytes(x)>>
  BY <1>1 DEF Sizes
<1>2. ASSUME NEW x, NEW y, t.items = <<x, y>> PROVE Sizes(t) = <<Bytes(x), Bytes(y)>>
  BY <1>2 DEF Sizes
<1>3. ASSUME NEW n, Sizes(t) = <<n>> PROVE Bytes(t.items[1]) = n
  <2>1. DOMAIN Sizes(t) = 1 .. 1 /\ Sizes(t)[1] = n
    BY <1>3
  <2>. QED BY <2>1 DEF Sizes
<1>4. ASSUME NEW n, NEW m, Sizes(t) = <<n, m>>
      PROVE  Bytes(t.items[1]) = n /\ Bytes(t.items[2]) = m
  <2>1. DOMAIN Sizes(t) = 1 .. 2 /\ Sizes(t)[1] = n /\ Sizes(t)[2] = m
    BY <1>4
  <2>. QED BY <2>1 DEF Sizes
<1>. QED BY <1>1, <1>2, <1>3, <1>4

(* What is read of a text is an account of the chain it is read for. *)
LEMMA ReadIsProper ==
  ASSUME NEW c \in Chain, NEW t, FromSecret(c, t) # None
  PROVE  Proper(FromSecret(c, t)) /\ FromSecret(c, t).chain = c
<1>1. /\ One(t) => Bytes(t.items[1]) = 32
      /\ Two(t) => Bytes(t.items[1]) = 32 /\ Bytes(t.items[2]) = 32
      /\ Sizes(t) = <<96, 96>> => Bytes(t.items[1]) = 96 /\ Bytes(t.items[2]) = 96
  BY SizesOf DEF One, Two
<1>2. CASE c = "evm"
  BY <1>1, <1>2, FiveChains DEF FromSecret, EvmFromSecret, Account, Proper
<1>3. CASE c = "solana"
  BY <1>1, <1>3, FiveChains DEF FromSecret, SolanaFromSecret, Account, Proper
<1>4. CASE c = "cardano"
  BY <1>1, <1>4, FiveChains DEF FromSecret, CardanoFromSecret, Account, Proper
<1>5. CASE c = "midnight"
  BY <1>1, <1>5, FiveChains DEF FromSecret, MidnightFromSecret, Account, Proper
<1>6. CASE c = "ecash"
  BY <1>1, <1>6, FiveChains DEF FromSecret, EcashFromSecret, FromWif, Account, Proper
<1>. QED BY <1>2, <1>3, <1>4, <1>5, <1>6, FiveChains

LEMMA DerivedIsProper ==
  ASSUME NEW c \in Chain, NEW seed, NEW i
  PROVE  Proper(Derived(c, seed, i)) /\ Derived(c, seed, i).chain = c
<1>1. \A path : Bytes(Key(seed, path)) = 32 /\ Bytes(ExtendedKey(seed, path)) = 96
  BY DEF Bytes, Key, ExtendedKey
<1>2. CASE c = "cardano"
  BY <1>1, <1>2, FiveChains DEF Derived, CardanoDerived, Account, Proper
<1>3. CASE c = "midnight"
  BY <1>1, <1>3, FiveChains DEF Derived, MidnightDerived, Account, Proper
<1>4. CASE c \notin {"cardano", "midnight"}
  BY <1>1, <1>4, FiveChains DEF Derived, Account, Proper
<1>. QED BY <1>2, <1>3, <1>4

LEMMA MadeIsProper == ASSUME NEW a \in AccountsMade PROVE Proper(a)
<1>1. PICK c \in Chain : a \in {Derived(c, seed, i) : seed \in Seeds, i \in Indexes}
                               \cup ({FromSecret(c, t) : t \in Texts} \ {None})
  BY DEF AccountsMade
<1>2. CASE \E seed \in Seeds, i \in Indexes : a = Derived(c, seed, i)
  BY <1>2, DerivedIsProper
<1>3. CASE \E t \in Texts : a = FromSecret(c, t) /\ a # None
  BY <1>3, ReadIsProper
<1>. QED BY <1>1, <1>2, <1>3

(* The form a secret is written in. *)
LEMMA SecretShape ==
  ASSUME NEW a, Proper(a)
  PROVE  /\ SecretOf(a).items[1] = a.key
         /\ a.chain = "solana" => /\ SecretOf(a).form = "base58"
                                  /\ SecretOf(a).items = <<a.key, Public(a.key)>>
         /\ a.chain # "solana" => SecretOf(a).form = "hex" /\ SecretOf(a).prefix \in {"", "0x"}
         /\ a.chain \in {"evm", "ecash"} => SecretOf(a).items = <<a.key>>
         /\ a.chain = "cardano" => SecretOf(a).items = <<a.key, a.second>>
                                   /\ SecretOf(a).prefix = ""
         /\ a.chain = "midnight" =>
              /\ SecretOf(a).items = IF a.second = None THEN <<a.key>> ELSE <<a.key, a.second>>
              /\ SecretOf(a).prefix = ""
<1>1. a.chain \in {"evm", "solana", "cardano", "midnight", "ecash"}
  BY FiveChains DEF Proper
<1>2. CASE a.chain \in {"evm", "ecash"}
  BY <1>2 DEF SecretOf, Hex
<1>3. CASE a.chain = "solana"
  BY <1>3 DEF SecretOf, Base58
<1>4. CASE a.chain = "cardano"
  BY <1>4 DEF SecretOf, Hex
<1>5. CASE a.chain = "midnight"
  BY <1>5 DEF SecretOf, Hex
<1>. QED BY <1>1, <1>2, <1>3, <1>4, <1>5

(* What one item, or a pair of them, is read as. *)
LEMMA OneItem ==
  ASSUME NEW t, NEW x, t.items = <<x>>
  PROVE  t.items[1] = x /\ Sizes(t) = <<Bytes(x)>> /\ (One(t) <=> Bytes(x) = 32) /\ ~Two(t)
<1>1. Sizes(t) = <<Bytes(x)>>
  BY SizesOf
<1>2. <<Bytes(x)>> = <<32>> <=> Bytes(x) = 32
  OBVIOUS
<1>3. <<Bytes(x)>> # <<32, 32>>
  OBVIOUS
<1>4. t.items[1] = x
  OBVIOUS
<1>. QED BY <1>1, <1>2, <1>3, <1>4 DEF One, Two

LEMMA TwoItems ==
  ASSUME NEW t, NEW x, NEW y, t.items = <<x, y>>
  PROVE  /\ t.items[1] = x /\ t.items[2] = y /\ Sizes(t) = <<Bytes(x), Bytes(y)>>
         /\ ~One(t) /\ (Two(t) <=> Bytes(x) = 32 /\ Bytes(y) = 32)
<1>1. Sizes(t) = <<Bytes(x), Bytes(y)>>
  BY SizesOf
<1>2. <<Bytes(x), Bytes(y)>> = <<32, 32>> <=> Bytes(x) = 32 /\ Bytes(y) = 32
  OBVIOUS
<1>3. <<Bytes(x), Bytes(y)>> # <<32>>
  OBVIOUS
<1>4. t.items[1] = x /\ t.items[2] = y
  OBVIOUS
<1>. QED BY <1>1, <1>2, <1>3, <1>4 DEF One, Two

LEMMA KeyLengths ==
  ASSUME NEW a, Proper(a)
  PROVE  /\ a.chain \in {"evm", "solana", "ecash"} => a.second = None /\ Bytes(a.key) = 32
         /\ a.chain = "cardano" => Bytes(a.key) = 96 /\ Bytes(a.second) = 96
         /\ a.chain = "midnight" =>
              Bytes(a.key) = 32 /\ (a.second = None \/ Bytes(a.second) = 32)
         /\ a.chain \in {"evm", "solana", "cardano", "midnight", "ecash"}
         /\ a = Account(a.chain, a.key, a.second)
<1>1. a.chain \in {"evm", "solana", "cardano", "midnight", "ecash"}
  BY FiveChains DEF Proper
<1>. QED BY <1>1 DEF Proper

(* The text an account's key is written in gives the account back. *)
LEMMA ReadsBack ==
  ASSUME NEW a, Proper(a)
  PROVE  FromSecret(a.chain, SecretOf(a)) = a
<1>. SUFFICES ASSUME NEW t, t = SecretOf(a) PROVE FromSecret(a.chain, t) = a
  OBVIOUS
<1>1. a.chain \in {"evm", "solana", "cardano", "midnight", "ecash"}
      /\ a = Account(a.chain, a.key, a.second)
  BY KeyLengths
<1>2. Bytes(Public(a.key)) = 32
  BY DEF Bytes, Public
<1>3. CASE a.chain \in {"evm", "ecash"}
  <2>1. t.items = <<a.key>> /\ t.form = "hex" /\ t.prefix \in {"", "0x"}
    BY <1>3, SecretShape
  <2>2. Bytes(a.key) = 32 /\ a.second = None
    BY <1>3, KeyLengths
  <2>0. t.items = <<a.key>>
    BY <2>1
  <2>3. t.items[1] = a.key /\ (One(t) <=> Bytes(a.key) = 32)
    BY <2>0, OneItem
  <2>4. t.form = "hex" /\ t.prefix \in {"", "0x"}
    BY <2>1
  <2>. QED BY <1>1, <1>3, <2>4, <2>2, <2>3
           DEF FromSecret, EvmFromSecret, EcashFromSecret, IsHex, AnyPrefix
<1>4. CASE a.chain = "solana"
  <2>1. t.items = <<a.key, Public(a.key)>> /\ t.form = "base58"
    BY <1>4, SecretShape
  <2>2. Bytes(a.key) = 32 /\ a.second = None
    BY <1>4, KeyLengths
  <2>3. t.items[1] = a.key /\ t.items[2] = Public(a.key) /\ Two(t)
    BY <1>2, <2>1, <2>2, TwoItems
  <2>4. t.form = "base58"
    BY <2>1
  <2>. QED BY <1>1, <1>4, <2>4, <2>2, <2>3 DEF FromSecret, SolanaFromSecret, DecodeSecret
<1>5. CASE a.chain = "cardano"
  <2>1. t.items = <<a.key, a.second>> /\ t.form = "hex" /\ t.prefix = ""
    BY <1>5, SecretShape
  <2>2. Bytes(a.key) = 96 /\ Bytes(a.second) = 96
    BY <1>5, KeyLengths
  <2>0. t.items = <<a.key, a.second>>
    BY <2>1
  <2>3. /\ t.items[1] = a.key /\ t.items[2] = a.second
        /\ Sizes(t) = <<Bytes(a.key), Bytes(a.second)>>
    BY <2>0, TwoItems
  <2>4. t.form = "hex" /\ t.prefix = ""
    BY <2>1
  <2>. QED BY <1>1, <1>5, <2>4, <2>2, <2>3 DEF FromSecret, CardanoFromSecret, IsHex
<1>6. CASE a.chain = "midnight"
  <2>1. t.form = "hex" /\ t.prefix = ""
    BY <1>6, SecretShape
  <2>2. Bytes(a.key) = 32 /\ (a.second = None \/ Bytes(a.second) = 32)
    BY <1>6, KeyLengths
  <2>3. CASE a.second = None
    <3>1. t.items = <<a.key>>
      BY <1>6, <2>3, SecretShape
    <3>2. One(t) /\ t.items[1] = a.key
      BY <2>2, <3>1, OneItem
    <3>. QED BY <1>1, <1>6, <2>1, <2>3, <3>2 DEF FromSecret, MidnightFromSecret, IsHex
  <2>4. CASE a.second # None
    <3>1. t.items = <<a.key, a.second>>
      BY <1>6, <2>4, SecretShape
    <3>2. /\ t.items[1] = a.key /\ t.items[2] = a.second
          /\ Two(t) /\ ~One(t)
      BY <2>2, <2>4, <3>1, TwoItems
    <3>. QED BY <1>1, <1>6, <2>1, <2>4, <3>2 DEF FromSecret, MidnightFromSecret, IsHex
  <2>. QED BY <2>3, <2>4
<1>. QED BY <1>1, <1>3, <1>4, <1>5, <1>6

(* The places of a chain's networks, and what is found there. *)
LEMMA NetworksAre ==
  ASSUME NEW c \in Chain
  PROVE  /\ NetworksOf(c) = {k \in DOMAIN NetworkList : NetworkList[k].chain = c}
         /\ NetworksOf(c) \subseteq Nat
         /\ \A k \in NetworksOf(c) : NetworkList[k] \in Registry /\ NetworkList[k].chain = c
BY KeyConstants DEF NetworksOf, Places, Registry, Range

(* The least of numbers is one of them. *)
LEMMA FirstIs ==
  ASSUME NEW places, places \subseteq Nat, places # {}
  PROVE  First(places) \in places /\ \A l \in places : First(places) <= l
<1>. DEFINE Less == {ss \in Nat \X Nat : ss[1] < ss[2]}
<1>1. IsWellFoundedOn(Less, Nat)
  BY NatLessThanWellFounded DEF OpToRel
<1>2. \E k \in places : \A l \in places : ~ (<<l, k>> \in Less)
  <2>. HIDE DEF Less
  <2>. QED BY <1>1, WFMin
<1>3. ASSUME NEW l \in Nat, NEW k \in Nat, ~ (<<l, k>> \in Less)
      PROVE  k <= l
  BY <1>3
<1>4. \E k \in places : \A l \in places : k <= l
  <2>. HIDE DEF Less
  <2>. QED BY <1>2, <1>3
<1>. QED BY <1>4 DEF First

-----------------------------------------------------------------------------
(* What is kept of an account, whichever way it came: its own secret, and  *)
(* its address on its chain's default network.                             *)
RecordOK(r) ==
  /\ r.made \in AccountsMade /\ r.chain = r.made.chain
  /\ r.secret = SecretOf(r.made) /\ r.address = StoredAddress(r.made)

LEMMA RecordReads ==
  ASSUME NEW r, RecordOK(r)
  PROVE  /\ Proper(r.made) /\ r.made # None /\ r.chain \in Chain
         /\ FromSecret(r.chain, r.secret) = r.made
<1>1. Proper(r.made)
  BY MadeIsProper DEF RecordOK
<1>2. r.made # None
  BY NoneIsNothing DEF RecordOK
<1>3. r.chain \in Chain
  BY <1>1 DEF RecordOK, Proper
<1>4. FromSecret(r.made.chain, SecretOf(r.made)) = r.made
  BY <1>1, ReadsBack
<1>. QED BY <1>1, <1>2, <1>3, <1>4 DEF RecordOK

LEMMA RecordAddress ==
  ASSUME NEW r, RecordOK(r), NEW n \in Registry, n.chain = r.chain
  PROVE  AddressFor(n, r) = AddressText(r.chain, n.mark, r.made)
<1>1. FromSecret(r.chain, r.secret) = r.made /\ r.made # None
  BY RecordReads
<1>2. CASE n.mark = Plain
  <2>1. r.chain \in {"evm", "solana"}
    BY <1>2, KeyConstants
  <2>2. AddressFor(n, r) = AddressText(r.chain, DefaultNetwork(r.chain).mark, r.made)
    BY <1>2 DEF AddressFor, RecordOK, StoredAddress
  <2>. QED BY <2>1, <2>2 DEF AddressText
<1>3. CASE n.mark # Plain
  BY <1>1, <1>3 DEF AddressFor
<1>. QED BY <1>2, <1>3

(* Records, one address each. *)
ListOK(list) ==
  /\ list \in Seq(Range(list))
  /\ \A i \in DOMAIN list : RecordOK(list[i])
  /\ \A i, j \in DOMAIN list : list[i].address = list[j].address => i = j
RowsOK(rows) == \A i \in DOMAIN rows : RecordOK(rows[i].account)

LEMMA AddKeeps ==
  ASSUME NEW list, ListOK(list), NEW r, RecordOK(r),
         \A q \in Range(list) : q.address # r.address
  PROVE  ListOK(Append(list, r))
<1>. DEFINE new == Append(list, r)
            S == Range(list) \cup {r}
<1>1. list \in Seq(S)
  <2>1. list \in Seq(Range(list)) /\ Range(list) \subseteq S
    BY DEF ListOK
  <2>. HIDE DEF S
  <2>. QED BY <2>1
<1>2. /\ new \in Seq(S) /\ Len(list) \in Nat /\ DOMAIN list = 1 .. Len(list)
      /\ DOMAIN new = 1 .. Len(list) + 1
      /\ \A i \in 1 .. Len(list) : new[i] = list[i]
      /\ new[Len(list) + 1] = r
  <2>. HIDE DEF S
  <2>1. r \in S
    BY DEF S
  <2>. QED BY <1>1, <2>1
<1>. HIDE DEF new, S
<1>3. \A i \in DOMAIN new : new[i] \in Range(new)
  BY DEF Range
<1>4. new \in Seq(Range(new))
  <2>1. DOMAIN new = 1 .. Len(new) /\ Len(new) \in Nat /\ new = [i \in 1 .. Len(new) |-> new[i]]
    BY <1>2
  <2>. QED BY <1>3, <2>1
<1>5. \A i \in DOMAIN new : RecordOK(new[i])
  BY <1>2 DEF ListOK
<1>6. \A i \in DOMAIN list : list[i].address # r.address
  BY DEF Range
<1>7. \A i, j \in DOMAIN new : new[i].address = new[j].address => i = j
  BY <1>2, <1>6 DEF ListOK
<1>. QED BY <1>4, <1>5, <1>7 DEF ListOK, new

-----------------------------------------------------------------------------
(* The rows of a list. *)

(* What EveryAddressIsWritten asks of one list's rows. *)
RowsOf(rows, a, n) ==
  {i \in DOMAIN rows : rows[i].account = a /\ rows[i].address = AddressFor(n, a)}
Complete(rows) ==
  \A a \in {rows[i].account : i \in DOMAIN rows}, n \in Registry :
    n.chain = a.chain =>
      /\ RowsOf(rows, a, n) # {}
      /\ a.chain # "evm" => Cardinality(RowsOf(rows, a, n)) = 1

(* A network stands among those its chain is exported for, as itself or as *)
(* one with the same address; and where rows are one to an address, the    *)
(* network that has the row is the only one.                               *)
LEMMA WrittenFor ==
  ASSUME NEW a, NEW n \in Registry, n.chain = a.chain
  PROVE  /\ \E k \in RowNetworks(a) : AddressFor(NetworkList[k], a) = AddressFor(n, a)
         /\ a.chain # "evm" => \A j, k \in RowNetworks(a) :
              AddressFor(NetworkList[j], a) = AddressFor(NetworkList[k], a) => j = k
<1>. DEFINE all == ExportedNetworks(a.chain)
            text(k) == AddressFor(NetworkList[k], a)
            same == {k \in all : text(k) = AddressFor(n, a)}
<1>1. PICK at \in DOMAIN NetworkList : NetworkList[at] = n
  BY DEF Registry, Range
<1>2. at \in NetworksOf(a.chain) /\ NetworksOf(a.chain) \subseteq Nat
  BY <1>1, KeyConstants, NetworksAre
<1>3. all \subseteq Nat /\ same # {}
  <2>1. CASE a.chain = "solana"
    <3>1. First(NetworksOf(a.chain)) \in NetworksOf(a.chain)
      BY <1>2, FirstIs
    <3>2. NetworkList[First(NetworksOf(a.chain))] \in Registry
          /\ NetworkList[First(NetworksOf(a.chain))].chain = "solana"
      BY <3>1, <2>1, KeyConstants, NetworksAre
    <3>3. n.mark = Plain /\ NetworkList[First(NetworksOf(a.chain))].mark = Plain
      BY <3>2, <2>1, KeyConstants
    <3>4. text(First(NetworksOf(a.chain))) = AddressFor(n, a)
      BY <3>3 DEF AddressFor
    <3>. QED BY <2>1, <1>2, <3>1, <3>4 DEF ExportedNetworks
  <2>2. CASE a.chain # "solana"
    BY <2>2, <1>1, <1>2 DEF ExportedNetworks
  <2>. QED BY <2>1, <2>2
<1>4. First(same) \in same /\ \A l \in same : First(same) <= l
  <2>1. same \subseteq Nat
    BY <1>3
  <2>. HIDE DEF same
  <2>. QED BY <2>1, <1>3, FirstIs
<1>5. First(same) \in RowNetworks(a)
  <2>1. ASSUME NEW j \in all, j < First(same) PROVE text(j) # text(First(same))
    <3>1. First(same) \in Nat /\ j \in Nat
      BY <1>3, <1>4
    <3>2. j \notin same
      BY <1>4, <2>1, <3>1
    <3>. QED BY <1>4, <3>2
  <2>. QED BY <1>4, <2>1 DEF RowNetworks
<1>6. ASSUME a.chain # "evm", NEW j \in RowNetworks(a), NEW k \in RowNetworks(a), text(j) = text(k)
      PROVE  j = k
  <2>1. j \in all /\ k \in all /\ ~(j < k) /\ ~(k < j)
    BY <1>6 DEF RowNetworks
  <2>2. j \in Nat /\ k \in Nat
    BY <2>1, <1>3
  <2>. QED BY <2>1, <2>2
<1>. QED BY <1>4, <1>5, <1>6

LEMMA RowAt ==
  ASSUME NEW list, NEW active, NEW i \in DOMAIN list, NEW k \in RowNetworks(list[i])
  PROVE  /\ Ordered(list, i, k) \in DOMAIN Rows(list, active)
         /\ Rows(list, active)[Ordered(list, i, k)].account = list[i]
         /\ Rows(list, active)[Ordered(list, i, k)].address
              = AddressFor(NetworkList[k], list[i])
<1>1. Ordered(list, i, k)[3] = i /\ Ordered(list, i, k)[4] = k
  BY DEF Ordered
<1>2. Ordered(list, i, k) \in UNION {{Ordered(list, l, m) : m \in RowNetworks(list[l])} : l \in DOMAIN list}
  OBVIOUS
<1>3. Ordered(list, i, k) \in DOMAIN Rows(list, active)
      /\ Rows(list, active)[Ordered(list, i, k)] = Row(list[i], NetworkList[k], active)
  BY <1>1, <1>2 DEF Rows
<1>. QED BY <1>3 DEF Row

LEMMA RowIs ==
  ASSUME NEW list, NEW active, NEW place \in DOMAIN Rows(list, active)
  PROVE  \E i \in DOMAIN list : \E k \in RowNetworks(list[i]) : place = Ordered(list, i, k)
BY DEF Rows

LEMMA ListIsComplete ==
  ASSUME NEW list, ListOK(list), NEW active
  PROVE  Complete(Rows(list, active)) /\ RowsOK(Rows(list, active))
<1>. DEFINE rows == Rows(list, active)
<1>. HIDE DEF rows
<1>1. ASSUME NEW place \in DOMAIN rows
      PROVE  \E i \in DOMAIN list : \E k \in RowNetworks(list[i]) :
               /\ place = Ordered(list, i, k) /\ rows[place].account = list[i]
               /\ rows[place].address = AddressFor(NetworkList[k], list[i])
  BY RowIs, RowAt DEF rows
<1>2. RowsOK(rows)
  BY <1>1 DEF RowsOK, ListOK
<1>3. ASSUME NEW p \in DOMAIN rows, NEW n \in Registry, n.chain = rows[p].account.chain
      PROVE  /\ RowsOf(rows, rows[p].account, n) # {}
             /\ rows[p].account.chain # "evm" =>
                  Cardinality(RowsOf(rows, rows[p].account, n)) = 1
  <2>1. PICK i \in DOMAIN list : rows[p].account = list[i]
    BY <1>1
  <2>2. PICK k \in RowNetworks(list[i]) :
          AddressFor(NetworkList[k], list[i]) = AddressFor(n, list[i])
    BY <1>3, <2>1, WrittenFor
  <2>3. Ordered(list, i, k) \in RowsOf(rows, list[i], n)
    BY <2>2, RowAt DEF RowsOf, rows
  <2>4. ASSUME list[i].chain # "evm", NEW q \in RowsOf(rows, list[i], n)
        PROVE  q = Ordered(list, i, k)
    <3>1. q \in DOMAIN rows /\ rows[q].account = list[i]
          /\ rows[q].address = AddressFor(n, list[i])
      BY <2>4 DEF RowsOf
    <3>2. PICK j \in DOMAIN list : \E m \in RowNetworks(list[j]) :
            /\ q = Ordered(list, j, m) /\ rows[q].account = list[j]
            /\ rows[q].address = AddressFor(NetworkList[m], list[j])
      BY <1>1, <3>1
    <3>3. j = i
      BY <3>1, <3>2 DEF ListOK
    <3>4. PICK m \in RowNetworks(list[i]) :
            q = Ordered(list, i, m) /\ AddressFor(NetworkList[m], list[i]) = AddressFor(n, list[i])
      BY <3>1, <3>2, <3>3
    <3>5. m = k
      BY <1>3, <2>1, <2>2, <2>4, <3>4, WrittenFor
    <3>. QED BY <3>4, <3>5
  <2>5. ASSUME list[i].chain # "evm" PROVE Cardinality(RowsOf(rows, list[i], n)) = 1
    <3>1. RowsOf(rows, list[i], n) = {Ordered(list, i, k)}
      BY <2>3, <2>4, <2>5
    <3>. QED BY <3>1, FS_Singleton
  <2>. QED BY <2>1, <2>3, <2>5
<1>. QED BY <1>2, <1>3 DEF Complete, rows

-----------------------------------------------------------------------------
(* Every account kept, listed, on file or writing to somebody is what it   *)
(* was made as; the lists under way are complete.                          *)
LetterOK(l) ==
  RecordOK(l.by) /\ l.signature = Signature(l.by.made, l.text)
HomesOK == homes = [h \in Home |-> homes[h]] /\ \A h \in Home : ListOK(homes[h])
ListsOK ==
  /\ \A p \in Path : RowsOK(files[p].what.rows)
  /\ \A w \in Writer :
       /\ RowsOK(jobs[w].what.rows)
       /\ jobs[w].at # "none" => Complete(jobs[w].what.rows)
AccountInv ==
  /\ Inv
  /\ HomesOK /\ ListsOK
  /\ letter # None => LetterOK(letter)

LEMMA NothingListed == RowsOK(Nothing.rows)
<1>1. Nothing.rows = <<>> /\ DOMAIN <<>> = {}
  BY DEF Nothing, List
<1>. QED BY <1>1 DEF RowsOK

LEMMA InitAccounts == Init => AccountInv
<1>. SUFFICES ASSUME Init PROVE AccountInv
  OBVIOUS
<1>1. ListOK(<<>>)
  <2>1. DOMAIN <<>> = {} /\ <<>> \in Seq(Range(<<>>))
    OBVIOUS
  <2>. QED BY <2>1 DEF ListOK
<1>2. HomesOK
  BY <1>1 DEF Init, HomesOK
<1>3. /\ \A p \in Path : files[p].what = Nothing
      /\ \A w \in Writer : jobs[w].what = Nothing /\ jobs[w].at = "none"
  <2>1. \A p \in Path : files[p] \in {NoFile, File(FALSE, Nothing)}
    BY DEF Init, ExportInit
  <2>2. \A w \in Writer : jobs[w] = NoJob
    BY DEF Init, ExportInit
  <2>. QED BY <2>1, <2>2 DEF NoFile, File, NoJob, Job
<1>4. ListsOK
  BY <1>3, NothingListed DEF ListsOK
<1>. QED BY <1>2, <1>4, InitInv DEF Init, AccountInv

(* An account is added as it was made. *)
LEMMA RecordIs ==
  ASSUME NEW a \in AccountsMade, NEW index
  PROVE  RecordOK(Record(a.chain, index, a, a))
BY DEF RecordOK, Record

LEMMA Adds ==
  ASSUME HomesOK, NEW h \in Home, NEW r, RecordOK(r), Add(h, r)
  PROVE  HomesOK'
<1>1. \A q \in Range(homes[h]) : q.address # r.address
  BY DEF Add, Kept
<1>2. ListOK(Append(homes[h], r))
  BY <1>1, AddKeeps DEF HomesOK
<1>3. homes' = [homes EXCEPT ![h] = Append(homes[h], r)]
  BY DEF Add
<1>4. homes'[h] = Append(homes[h], r) /\ \A g \in Home \ {h} : homes'[g] = homes[g]
  BY <1>3 DEF HomesOK
<1>. QED BY <1>2, <1>3, <1>4 DEF HomesOK

LEMMA DerivesOne == ASSUME HomesOK, NEW h \in Home, Derive(h) PROVE HomesOK'
<1>1. PICK c \in Chain, seed \in Seeds, i \in Indexes :
        Add(h, Record(c, i, Derived(c, seed, i), Derived(c, seed, i)))
  BY DEF Derive
<1>2. Derived(c, seed, i) \in AccountsMade /\ Derived(c, seed, i).chain = c
  BY DerivedIsProper DEF AccountsMade
<1>3. RecordOK(Record(c, i, Derived(c, seed, i), Derived(c, seed, i)))
  BY <1>2, RecordIs
<1>. QED BY <1>1, <1>3, Adds

LEMMA Imports == ASSUME HomesOK, NEW h \in Home, ImportKey(h) PROVE HomesOK'
<1>1. PICK c \in Chain, t \in Texts :
        FromSecret(c, t) # None /\ Add(h, Record(c, None, FromSecret(c, t), FromSecret(c, t)))
  BY DEF ImportKey
<1>2. FromSecret(c, t) \in AccountsMade /\ FromSecret(c, t).chain = c
  BY <1>1, ReadIsProper DEF AccountsMade
<1>3. RecordOK(Record(c, None, FromSecret(c, t), FromSecret(c, t)))
  BY <1>2, RecordIs
<1>. QED BY <1>1, <1>3, Adds

(* What is taken out of a list is what was put in. *)
LEMMA Brings == ASSUME HomesOK, ListsOK, NEW h \in Home, ImportExported(h) PROVE HomesOK'
<1>1. PICK p \in Path : \E i \in DOMAIN files[p].what.rows :
        LET from == files[p].what.rows[i].account
            a == FromSecret(from.chain, from.secret)
        IN  Add(h, Record(from.chain, None, a, from.made))
  BY DEF ImportExported
<1>2. PICK i \in DOMAIN files[p].what.rows :
        LET from == files[p].what.rows[i].account
            a == FromSecret(from.chain, from.secret)
        IN  Add(h, Record(from.chain, None, a, from.made))
  BY <1>1
<1>. DEFINE from == files[p].what.rows[i].account
<1>3. RecordOK(from)
  BY DEF ListsOK, RowsOK
<1>. HIDE DEF from
<1>4. FromSecret(from.chain, from.secret) = from.made /\ from.chain = from.made.chain
      /\ from.made \in AccountsMade
  BY <1>3, RecordReads DEF RecordOK
<1>5. Add(h, Record(from.chain, None, from.made, from.made))
  BY <1>2, <1>4 DEF from
<1>6. RecordOK(Record(from.chain, None, from.made, from.made))
  BY <1>4, RecordIs
<1>. QED BY <1>5, <1>6, Adds

LEMMA Signs == ASSUME HomesOK, NEW h \in Home, Sign(h) PROVE LetterOK(letter')
<1>1. PICK r \in Kept(h), m \in Message :
        LET a == FromSecret(r.chain, r.secret)
        IN  letter' = [by |-> r, text |-> m, signature |-> Signature(a, m)]
  BY DEF Sign
<1>2. RecordOK(r)
  BY DEF Kept, Range, HomesOK, ListOK
<1>3. FromSecret(r.chain, r.secret) = r.made
  BY <1>2, RecordReads
<1>. QED BY <1>1, <1>2, <1>3 DEF LetterOK

LEMMA SignsPasted == ASSUME SignPasted PROVE LetterOK(letter')
<1>1. PICK t \in Texts, m \in Message :
        LET a == FromSecret("evm", t)
        IN  a # None /\ letter' = [by |-> Record("evm", None, a, a), text |-> m,
                                   signature |-> Signature(a, m)]
  BY DEF SignPasted
<1>. DEFINE a == FromSecret("evm", t)
<1>2. "evm" \in Chain
  BY FiveChains
<1>3. a \in AccountsMade /\ a.chain = "evm"
  BY <1>1, <1>2, ReadIsProper DEF AccountsMade
<1>4. RecordOK(Record("evm", None, a, a))
  BY <1>3, RecordIs
<1>5. Record("evm", None, a, a).made = a
  BY DEF Record
<1>. QED BY <1>1, <1>4, <1>5 DEF LetterOK

LEMMA Lists ==
  ASSUME AccountInv, NEW h \in Home, ListAccounts(h) PROVE ListsOK'
<1>1. PICK path \in Path, secrets \in BOOLEAN :
        StartWriting(h, path, homes[h], homes[h][1].address, secrets)
  BY DEF ListAccounts
<1>. DEFINE active == homes[h][1].address
            what == Render(homes[h], active, secrets)
<1>2. files' = files /\ jobs' = [jobs EXCEPT ![h] = Job("open", path, what)]
  BY <1>1 DEF StartWriting
<1>3. what.rows = Rows(homes[h], active)
  BY DEF Render, List
<1>4. Complete(what.rows) /\ RowsOK(what.rows)
  BY <1>3, ListIsComplete DEF AccountInv, HomesOK
<1>. HIDE DEF what
<1>5. jobs'[h] = Job("open", path, what) /\ \A v \in Writer \ {h} : jobs'[v] = jobs[v]
  BY <1>2, OneProcessEach DEF AccountInv, Inv
<1>6. jobs'[h].what = what
  BY <1>5 DEF Job
<1>. QED BY <1>2, <1>4, <1>5, <1>6 DEF AccountInv, ListsOK

(* Writing spreads the rows a writer has, whole. *)
LEMMA Writes ==
  ASSUME AccountInv, NEW w \in Writer, Writing(w) PROVE ListsOK'
<1>. DEFINE j == jobs[w]
<1>0. RowsOK(j.what.rows) /\ (j.at # "none" => Complete(j.what.rows))
  BY DEF AccountInv, ListsOK
<1>1. PICK path, what, new :
        /\ files' = files \/ files' = [files EXCEPT ![path] = File(new, what)]
        /\ RowsOK(what.rows)
  <2>1. CASE OpenFile(w)
    BY <2>1, NothingListed DEF OpenFile
  <2>2. CASE Tighten(w)
    <3>1. j.path \in Path
      BY <2>2 DEF Tighten, At, AccountInv, Inv, JobOK
    <3>2. RowsOK(files[j.path].what.rows)
      BY <3>1 DEF AccountInv, ListsOK
    <3>. QED BY <2>2, <3>2 DEF Tighten
  <2>3. CASE Fill(w)
    <3>1. PICK what \in {j.what, Over(j.what, files[j.path].what)} :
            files' = [files EXCEPT ![j.path] = File(files[j.path].private, what)]
      BY <2>3 DEF Fill
    <3>2. what.rows = j.what.rows
      BY <3>1 DEF Over, List
    <3>3. RowsOK(what.rows)
      BY <1>0, <3>2
    <3>. QED BY <3>1, <3>3
  <2>4. CASE StopWriting(w)
    BY <2>4, NothingListed DEF StopWriting
  <2>. QED BY <2>1, <2>2, <2>3, <2>4 DEF Writing
<1>2. PICK job : /\ jobs' = [jobs EXCEPT ![w] = job]
                 /\ \/ job.what = Nothing /\ job.at = "none"
                    \/ job.what = j.what /\ j.at # "none"
  <2>0. \A at, path2 : Job(at, path2, j.what).what = j.what
    BY DEF Job
  <2>1. CASE OpenFile(w)
    <3>1. PICK at, path2 : jobs' = [jobs EXCEPT ![w] = Job(at, path2, j.what)]
      BY <2>1 DEF OpenFile, Onwards
    <3>2. j.at # "none"
      BY <2>1 DEF OpenFile, At
    <3>. QED BY <2>0, <3>1, <3>2
  <2>2. CASE Tighten(w)
    <3>1. jobs' = [jobs EXCEPT ![w] = Job("fill", j.path, j.what)]
      BY <2>2 DEF Tighten
    <3>2. j.at # "none"
      BY <2>2 DEF Tighten, At
    <3>. QED BY <2>0, <3>1, <3>2
  <2>3. CASE Fill(w) \/ StopWriting(w)
    <3>1. jobs' = [jobs EXCEPT ![w] = NoJob]
      BY <2>3 DEF Fill, StopWriting
    <3>2. NoJob.what = Nothing /\ NoJob.at = "none"
      BY DEF NoJob, Job
    <3>. QED BY <3>1, <3>2
  <2>. QED BY <2>1, <2>2, <2>3 DEF Writing
<1>3. ASSUME NEW p \in Path PROVE RowsOK(files'[p].what.rows)
  <2>1. files'[p] = files[p] \/ files'[p] = File(new, what)
    BY <1>1 DEF AccountInv, Inv
  <2>. QED BY <1>1, <2>1 DEF File, AccountInv, ListsOK
<1>4. jobs'[w] = job /\ \A v \in Writer \ {w} : jobs'[v] = jobs[v]
  BY <1>2 DEF AccountInv, Inv
<1>5. RowsOK(job.what.rows) /\ (job.at # "none" => Complete(job.what.rows))
  BY <1>0, <1>2, NothingListed
<1>6. ASSUME NEW v \in Writer
      PROVE  RowsOK(jobs'[v].what.rows) /\ (jobs'[v].at # "none" => Complete(jobs'[v].what.rows))
  <2>1. CASE v = w
    BY <1>4, <1>5, <2>1
  <2>2. CASE v # w
    <3>1. RowsOK(jobs[v].what.rows) /\ (jobs[v].at # "none" => Complete(jobs[v].what.rows))
      BY DEF AccountInv, ListsOK
    <3>. QED BY <1>4, <2>2, <3>1
  <2>. QED BY <2>1, <2>2
<1>. QED BY <1>3, <1>6 DEF ListsOK

LEMMA StepAccounts == AccountInv /\ [Next]_vars => AccountInv'
<1>. SUFFICES ASSUME AccountInv, [Next]_vars PROVE AccountInv'
  OBVIOUS
<1>1. Inv'
  BY StepInv DEF AccountInv
<1>2. HomesOK /\ ListsOK /\ (letter # None => LetterOK(letter))
  BY DEF AccountInv
<1>3. ASSUME UNCHANGED homes PROVE HomesOK'
  BY <1>2, <1>3 DEF HomesOK
<1>4. ASSUME UNCHANGED exporting PROVE ListsOK'
  BY <1>2, <1>4 DEF ListsOK, exporting
<1>5. ASSUME NEW h \in Home, NEW r, Add(h, r), HomesOK' PROVE AccountInv'
  BY <1>1, <1>2, <1>4, <1>5 DEF Add, AccountInv
<1>6. ASSUME NEW h \in Home, Derive(h) PROVE AccountInv'
  BY <1>2, <1>5, <1>6, DerivesOne DEF Derive
<1>7. ASSUME NEW h \in Home, ImportKey(h) PROVE AccountInv'
  BY <1>2, <1>5, <1>7, Imports DEF ImportKey
<1>8. ASSUME NEW h \in Home, ImportExported(h) PROVE AccountInv'
  <2>1. \E r : Add(h, r)
    BY <1>8 DEF ImportExported
  <2>. QED BY <1>2, <1>5, <1>8, <2>1, Brings
<1>9. ASSUME NEW h \in Home, Sign(h) PROVE AccountInv'
  BY <1>1, <1>2, <1>3, <1>4, <1>9, Signs DEF Sign, Aside, AccountInv
<1>10. ASSUME SignPasted PROVE AccountInv'
  BY <1>1, <1>2, <1>3, <1>4, <1>10, SignsPasted DEF SignPasted, Aside, AccountInv
<1>11. ASSUME NEW h \in Home, ListAccounts(h) PROVE AccountInv'
  BY <1>1, <1>2, <1>3, <1>11, Lists DEF ListAccounts, AccountInv
<1>12. ASSUME NEW h \in Home, WriteLists(h) PROVE AccountInv'
  BY <1>1, <1>2, <1>3, <1>12, Writes, OneProcessEach DEF WriteLists, AccountInv
<1>13. CASE UNCHANGED vars
  BY <1>1, <1>2, <1>3, <1>4, <1>13 DEF vars, AccountInv
<1>. QED BY <1>6, <1>7, <1>8, <1>9, <1>10, <1>11, <1>12, <1>13 DEF Next

LEMMA KeptIsOK == ASSUME HomesOK, NEW h \in Home, NEW r \in Kept(h) PROVE RecordOK(r)
BY DEF Kept, Range, HomesOK, ListOK

(* An account stays the same account from its phrase, or from whatever     *)
(* form its key was pasted in, through the store, a list and another home, *)
(* with the same address on every network of its chain.  (describe and     *)
(* from_secret of every chain, account import-key, export.)                *)
THEOREM AccountsStayTheSame == Spec => []StaysTheSameAccount
<1>1. ASSUME AccountInv PROVE StaysTheSameAccount
  <2>1. ASSUME NEW h \in Home, NEW r \in Kept(h) PROVE RecordOK(r)
    BY <1>1, KeptIsOK DEF AccountInv
  <2>. QED BY <2>1, RecordReads, RecordAddress DEF StaysTheSameAccount
<1>. QED BY <1>1, InitAccounts, StepAccounts, PTL DEF Spec

(* A list under way has a row for every address its accounts have on the   *)
(* networks of their chain, and one row only but on EVM.  (export.rs rows, *)
(* exported_networks.)                                                     *)
THEOREM ListsAreComplete == Spec => []EveryAddressIsWritten
<1>1. ASSUME AccountInv PROVE EveryAddressIsWritten
  <2>1. ASSUME NEW w \in Writer, jobs[w].at # "none" PROVE Complete(jobs[w].what.rows)
    BY <1>1, <2>1 DEF AccountInv, ListsOK
  <2>. QED BY <2>1 DEF EveryAddressIsWritten, Complete, RowsOf, At
<1>. QED BY <1>1, InitAccounts, StepAccounts, PTL DEF Spec

-----------------------------------------------------------------------------
(* Verdicts: what a signature is checked against, and what it says then.   *)

(* An address by what it is made of. *)
LEMMA AddressShape ==
  ASSUME NEW a, Proper(a), NEW mark
  PROVE  /\ AddressText(a.chain, mark, a).items = <<Public(a.key)>>
         /\ AddressText(a.chain, mark, a).items[1] = Public(a.key)
         /\ a.chain = "solana" =>
              /\ AddressText(a.chain, mark, a).form = "base58"
              /\ AddressText(a.chain, mark, a) = Base58(<<Public(a.key)>>)
         /\ a.chain # "solana" => /\ AddressText(a.chain, mark, a).form = "address"
                                  /\ AddressText(a.chain, mark, a).chain = a.chain
         /\ a.chain = "evm" =>
              AddressText(a.chain, mark, a) = AddressText("evm", Plain, a)
         /\ a.chain = "ecash" => AddressText(a.chain, mark, a).mark = mark
<1>1. a.chain \in {"evm", "solana", "cardano", "midnight", "ecash"}
  BY KeyLengths
<1>2. CASE a.chain = "evm"
  BY <1>2 DEF AddressText, EvmAddress, Written
<1>3. CASE a.chain = "solana"
  BY <1>3 DEF AddressText, SolanaAddress, Base58
<1>4. CASE a.chain = "cardano"
  BY <1>4 DEF AddressText, CardanoAddress, BaseAddress, Written
<1>5. CASE a.chain = "midnight"
  BY <1>5 DEF AddressText, MidnightAddress, Written
<1>6. CASE a.chain = "ecash"
  BY <1>6 DEF AddressText, EcashAddress, Written
<1>. QED BY <1>1, <1>2, <1>3, <1>4, <1>5, <1>6

LEMMA OnePublic == ASSUME NEW x, NEW y, Public(x) = Public(y) PROVE x = y
BY DEF Public

(* An address of a record is that of its account on some network. *)
LEMMA AddressOfRecord ==
  ASSUME NEW r, RecordOK(r), NEW t \in AddressesOf(r)
  PROVE  \E n \in Registry : n.chain = r.chain /\ t = AddressText(r.chain, n.mark, r.made)
<1>1. PICK k \in NetworksOf(r.chain) : t = AddressFor(NetworkList[k], r)
  BY DEF AddressesOf
<1>2. NetworkList[k] \in Registry /\ NetworkList[k].chain = r.chain
  BY RecordReads, NetworksAre
<1>. QED BY <1>1, <1>2, RecordAddress

LEMMA StoredIsOne ==
  ASSUME NEW r, RecordOK(r)
  PROVE  r.address \in AddressesOf(r)
<1>1. PICK n \in Registry : n.chain = r.chain
  BY RecordReads, KeyConstants
<1>2. NetworksOf(r.chain) # {} /\ NetworksOf(r.chain) \subseteq Nat
  BY <1>1, RecordReads, NetworksAre DEF Registry, Range
<1>3. First(NetworksOf(r.chain)) \in NetworksOf(r.chain)
  BY <1>2, FirstIs
<1>4. DefaultNetwork(r.chain) \in Registry /\ DefaultNetwork(r.chain).chain = r.chain
  BY <1>3, RecordReads, NetworksAre DEF DefaultNetwork
<1>5. r.address = AddressText(r.chain, DefaultNetwork(r.chain).mark, r.made)
  BY DEF RecordOK, StoredAddress
<1>6. r.address = AddressFor(DefaultNetwork(r.chain), r)
  BY <1>4, <1>5, RecordAddress
<1>. QED BY <1>3, <1>6 DEF AddressesOf, DefaultNetwork

(* Two records with an address in common are of one key. *)
LEMMA OneAddressOneKey ==
  ASSUME NEW r, RecordOK(r), NEW q, RecordOK(q), NEW t \in AddressesOf(r), t \in AddressesOf(q)
  PROVE  r.chain = q.chain /\ r.made.key = q.made.key
<1>1. /\ Proper(r.made) /\ r.chain = r.made.chain
      /\ Proper(q.made) /\ q.chain = q.made.chain
  BY RecordReads DEF RecordOK
<1>2. PICK m : t = AddressText(r.made.chain, m, r.made)
  BY <1>1, AddressOfRecord
<1>3. PICK n : t = AddressText(q.made.chain, n, q.made)
  BY <1>1, AddressOfRecord
<1>4. /\ t.items[1] = Public(r.made.key)
      /\ r.made.chain = "solana" => t.form = "base58"
      /\ r.made.chain # "solana" => t.form = "address" /\ t.chain = r.made.chain
  BY <1>1, <1>2, AddressShape
<1>5. /\ t.items[1] = Public(q.made.key)
      /\ q.made.chain = "solana" => t.form = "base58"
      /\ q.made.chain # "solana" => t.form = "address" /\ t.chain = q.made.chain
  BY <1>1, <1>3, AddressShape
<1>6. r.made.key = q.made.key
  BY <1>4, <1>5, OnePublic
<1>. QED BY <1>1, <1>4, <1>5, <1>6

LEMMA FoundIs ==
  ASSUME HomesOK, NEW h \in Home, NEW t
  PROVE  /\ \A r \in FindAccount(h, t) : r \in Kept(h) /\ t \in AddressesOf(r)
         /\ \A r \in Kept(h) : t \in AddressesOf(r) => FindAccount(h, t) # {}
<1>. DEFINE hits == {k \in DOMAIN homes[h] :
                       t \in AddressesOf(homes[h][k]) \cup {homes[h][k].address}}
<1>1. DOMAIN homes[h] \subseteq Nat
  BY DEF HomesOK, ListOK
<1>2. hits # {} => First(hits) \in hits
  <2>1. hits \subseteq Nat
    BY <1>1
  <2>. HIDE DEF hits
  <2>. QED BY <2>1, FirstIs
<1>3. FindAccount(h, t) = IF hits = {} THEN {} ELSE {homes[h][First(hits)]}
  BY DEF FindAccount
<1>4. ASSUME NEW k \in DOMAIN homes[h]
      PROVE  homes[h][k] \in Kept(h) /\ homes[h][k].address \in AddressesOf(homes[h][k])
  BY StoredIsOne DEF Kept, Range, HomesOK, ListOK
<1>5. ASSUME NEW r \in FindAccount(h, t) PROVE r \in Kept(h) /\ t \in AddressesOf(r)
  BY <1>2, <1>3, <1>4
<1>6. ASSUME NEW r \in Kept(h), t \in AddressesOf(r) PROVE FindAccount(h, t) # {}
  BY <1>3, <1>6 DEF Kept, Range
<1>. QED BY <1>5, <1>6

(* What a signature may be checked against: nothing, or the address or the *)
(* secret of some account.                                                 *)
IsAddressOf(t, a) == \E n \in Registry : t = AddressText(a.chain, n.mark, a)
Valued(v) == v # None /\ v.valid

LEMMA MadeIs ==
  ASSUME NEW a \in AccountsMade
  PROVE  /\ Proper(a) /\ a # None /\ a.key # None /\ a.key # Stranger /\ SecretOf(a) # None
         /\ \A n \in Registry : /\ AddressText(a.chain, n.mark, a) # None
                                /\ Verdict(TRUE, AddressText(a.chain, n.mark, a)) # None
BY MadeIsProper, NoneIsNothing

LEMMA VerdictIs ==
  ASSUME NEW valid, NEW address
  PROVE  Verdict(valid, address).valid = valid /\ Verdict(valid, address).address = address
BY DEF Verdict

IsNoneOrAddress(t) == t # None => \E a \in AccountsMade : IsAddressOf(t, a)
IsNoneOrText(t) ==
  t # None => \E a \in AccountsMade : IsAddressOf(t, a) \/ t = SecretOf(a)

(* A signature of EVM, of b on a text, tells its signer. *)
EvmTold(b, text, m, identity, v) ==
  /\ Valued(v) /\ identity # None =>
       b.chain = "evm" /\ text = m /\ identity.items[1] = Public(b.key)
  /\ b.chain = "evm" /\ text = m /\ identity = None =>
       v = Verdict(TRUE, AddressText("evm", Plain, b))
  /\ b.chain = "evm" /\ text = m /\ identity # None /\ Named("evm", identity) =>
       v = Verdict(identity.items[1] = Public(b.key), AddressText("evm", Plain, b))
LEMMA EvmTells ==
  ASSUME NEW b \in AccountsMade, NEW text, NEW m, NEW identity, IsNoneOrAddress(identity),
         NEW v, v = EvmRecovered(m, Signature(b, text), identity)
  PROVE  EvmTold(b, text, m, identity, v)
<1>. DEFINE s == Signature(b, text)
<1>. DEFINE k == EvmSigner(m, s)
<1>1. s.scheme = b.chain /\ s.key = b.key /\ s.message = text
  BY DEF Signature
<1>2. k = IF b.chain # "evm" THEN None ELSE IF text = m THEN b.key ELSE Stranger
  BY <1>1 DEF EvmSigner
<1>3. identity # None => identity.items[1] # Public(Stranger)
  <2>1. ASSUME NEW a \in AccountsMade, IsAddressOf(identity, a)
        PROVE  identity.items[1] # Public(Stranger)
    <3>1. identity.items[1] = Public(a.key)
      BY <2>1, MadeIs, AddressShape DEF IsAddressOf
    <3>. QED BY <3>1, MadeIs, OnePublic
  <2>. QED BY <2>1 DEF IsNoneOrAddress
<1>4. b.chain = "evm" => b = Account("evm", b.key, None)
  BY MadeIs, KeyLengths
<1>5. b.key # None
  BY MadeIs
<1>. HIDE DEF k
<1>6. v = IF k = None \/ (identity # None /\ ~Named("evm", identity)) THEN None
          ELSE Verdict(identity = None \/ identity.items[1] = Public(k),
                       AddressText("evm", Plain, Account("evm", k, None)))
  BY DEF EvmRecovered, k
<1>7. ASSUME Valued(v), identity # None
      PROVE  b.chain = "evm" /\ text = m /\ identity.items[1] = Public(b.key)
  <2>1. k # None /\ identity.items[1] = Public(k)
    BY <1>6, <1>7, VerdictIs DEF Valued
  <2>. QED BY <1>2, <1>3, <1>7, <2>1
<1>8. ASSUME b.chain = "evm", text = m PROVE k = b.key /\ Account("evm", k, None) = b
  BY <1>2, <1>4, <1>8
<1>. QED BY <1>5, <1>6, <1>7, <1>8 DEF EvmTold

(* So does one of eCash; what it is checked against, if it is an address,  *)
(* is no secret.                                                           *)
EcashTold(b, text, m, n, identity, v) ==
  /\ Valued(v) /\ identity # None =>
       b.chain = "ecash" /\ text = m /\ identity.items[1] = Public(b.key)
  /\ b.chain = "ecash" /\ text = m /\ identity = None =>
       v = Verdict(TRUE, AddressText("ecash", n.mark, b))
  /\ b.chain = "ecash" /\ text = m /\ identity # None /\ Named("ecash", identity) =>
       v = Verdict(identity.items[1] = Public(b.key), AddressText("ecash", identity.mark, b))
LEMMA EcashTells ==
  ASSUME NEW b \in AccountsMade, NEW text, NEW m, NEW identity, IsNoneOrAddress(identity),
         NEW n, NEW v \in EcashRecovered(n, m, Signature(b, text), identity)
  PROVE  EcashTold(b, text, m, n, identity, v)
<1>. DEFINE s == Signature(b, text)
<1>1. s.scheme = b.chain /\ s.key = b.key /\ s.message = text
  BY DEF Signature
<1>. DEFINE tell(k, mark) == AddressText("ecash", mark, Account("ecash", k, None))
            given == EcashFromSecret(identity)
            told(k) == CASE k = None -> None
                         [] k # None /\ identity = None -> Verdict(TRUE, tell(k, n.mark))
                         [] k # None /\ identity # None /\ Named("ecash", identity) ->
                              Verdict(identity.items[1] = Public(k), tell(k, identity.mark))
                         [] OTHER -> IF given = None THEN None
                                     ELSE Verdict(given.key = k, tell(k, n.mark))
<1>2. PICK k \in EcashSigners(m, s) : v = told(k)
  BY DEF EcashRecovered
<1>3. /\ k \in {b.key, Stranger, None}
      /\ k = b.key /\ b.key \notin {None, Stranger} => b.chain = "ecash" /\ text = m
      /\ b.chain = "ecash" /\ text = m => k = b.key
  BY <1>1 DEF EcashSigners
<1>4. identity # None => identity.items[1] # Public(Stranger) /\ given = None
  <2>1. ASSUME NEW a \in AccountsMade, IsAddressOf(identity, a)
        PROVE  identity.items[1] # Public(Stranger) /\ given = None
    <3>1. PICK mark : identity = AddressText(a.chain, mark, a)
      BY <2>1 DEF IsAddressOf
    <3>2. identity.items[1] = Public(a.key) /\ identity.form \in {"base58", "address"}
      BY <3>1, MadeIs, AddressShape
    <3>3. identity.items[1] # Public(Stranger)
      BY <3>2, MadeIs, OnePublic
    <3>. QED BY <3>2, <3>3 DEF EcashFromSecret, IsHex, FromWif
  <2>. QED BY <2>1 DEF IsNoneOrAddress
<1>5. b.chain = "ecash" => b = Account("ecash", b.key, None)
  BY MadeIs, KeyLengths
<1>6. b.key # None /\ b.key # Stranger
  BY MadeIs
<1>. HIDE DEF given
<1>7. ASSUME Valued(v), identity # None
      PROVE  b.chain = "ecash" /\ text = m /\ identity.items[1] = Public(b.key)
  <2>1. k # None
    BY <1>2, <1>7 DEF Valued
  <2>2. Named("ecash", identity)
    BY <1>2, <1>4, <1>7 DEF Valued
  <2>3. v = Verdict(identity.items[1] = Public(k), tell(k, identity.mark))
    BY <1>2, <1>7, <2>1, <2>2
  <2>4. identity.items[1] = Public(k)
    BY <1>7, <2>3, VerdictIs DEF Valued
  <2>. QED BY <1>3, <1>4, <1>6, <1>7, <2>1, <2>4
<1>8. ASSUME b.chain = "ecash", text = m PROVE k = b.key /\ Account("ecash", k, None) = b
  BY <1>3, <1>5, <1>8
<1>9. ASSUME b.chain = "ecash", text = m, identity = None
      PROVE  v = Verdict(TRUE, AddressText("ecash", n.mark, b))
  BY <1>2, <1>6, <1>8, <1>9
<1>10. ASSUME b.chain = "ecash", text = m, identity # None, Named("ecash", identity)
       PROVE  v = Verdict(identity.items[1] = Public(b.key), AddressText("ecash", identity.mark, b))
  BY <1>2, <1>6, <1>8, <1>10
<1>. QED BY <1>7, <1>9, <1>10 DEF EcashTold

(* A signature of Solana is told by the key it is checked against, in an   *)
(* address or a secret. *)
SolanaTold(b, text, m, identity, v) ==
  /\ Valued(v) =>
       /\ b.chain = "solana" /\ text = m /\ identity.items[1] \in {b.key, Public(b.key)}
       /\ v = Verdict(TRUE, Base58(<<Public(b.key)>>))
  /\ b.chain = "solana" /\ text = m /\ identity # None
       /\ identity \in {Base58(<<Public(b.key)>>), SecretOf(b)} =>
       v = Verdict(TRUE, Base58(<<Public(b.key)>>))
LEMMA SolanaTells ==
  ASSUME NEW b \in AccountsMade, NEW text, NEW m, NEW identity, IsNoneOrText(identity),
         NEW v, v = SolanaRecovered(m, Signature(b, text), identity)
  PROVE  SolanaTold(b, text, m, identity, v)
<1>. DEFINE s == Signature(b, text)
<1>. DEFINE address == IsSolanaAddress(identity)
            given == SolanaFromSecret(identity)
            public == IF address THEN identity.items[1] ELSE Public(given.key)
<1>1. Made("solana", b.key, m, s) <=> b.chain = "solana" /\ text = m
  BY DEF Signature, Made
<1>2. \A key : Made("solana", key, m, s) => key = b.key
  BY DEF Signature, Made
<1>3. Recoverable(s.scheme) <=> b.chain \in {"evm", "ecash"}
  BY DEF Signature, Recoverable
<1>4. Public(b.key).is = "public" /\ Public(b.key).key = b.key
  BY DEF Public
<1>5. ASSUME identity # None, address PROVE \E key : identity.items[1] = Public(key)
  <2>1. identity.form = "base58" /\ One(identity)
    BY <1>5 DEF IsSolanaAddress
  <2>2. PICK a \in AccountsMade : IsAddressOf(identity, a) \/ identity = SecretOf(a)
    BY <1>5 DEF IsNoneOrText
  <2>3. Proper(a)
    BY MadeIs
  <2>4. CASE IsAddressOf(identity, a)
    BY <2>3, <2>4, AddressShape DEF IsAddressOf
  <2>5. CASE identity = SecretOf(a)
    <3>1. a.chain = "solana"
      BY <2>1, <2>3, <2>5, SecretShape
    <3>2. identity.items = <<a.key, Public(a.key)>>
      BY <2>3, <2>5, <3>1, SecretShape
    <3>3. ~One(identity)
      BY <3>2, TwoItems
    <3>. QED BY <2>1, <3>3
  <2>. QED BY <2>2, <2>4, <2>5
<1>6. given # None => given.key = identity.items[1]
  BY DEF SolanaFromSecret, Account
<1>7. v = IF identity = None \/ Recoverable(s.scheme) THEN None
          ELSE IF ~address /\ given = None THEN None
          ELSE IF public.is = "public" /\ Made("solana", public.key, m, s)
            THEN Verdict(TRUE, Base58(<<public>>))
          ELSE Verdict(FALSE, None)
  BY DEF SolanaRecovered
<1>8. ASSUME identity # None, address \/ given # None PROVE \E key : public = Public(key)
  BY <1>5, <1>8
<1>9. \A key : Public(key).is = "public" /\ Public(key).key = key
  BY DEF Public
<1>10. ASSUME Valued(v)
       PROVE  /\ b.chain = "solana" /\ text = m /\ identity.items[1] \in {b.key, Public(b.key)}
              /\ v = Verdict(TRUE, Base58(<<Public(b.key)>>))
  <2>. HIDE DEF address, given
  <2>1. identity # None /\ (address \/ given # None)
    BY <1>7, <1>10 DEF Valued
  <2>2. public.is = "public" /\ Made("solana", public.key, m, s) /\ v = Verdict(TRUE, Base58(<<public>>))
    <3>. HIDE DEF public
    <3>. QED BY <1>7, <1>10, <2>1, VerdictIs DEF Valued
  <2>3. PICK key : public = Public(key)
    BY <1>8, <2>1
  <2>4. key = b.key
    <3>. HIDE DEF public
    <3>. QED BY <1>2, <1>9, <2>2, <2>3
  <2>5. public = Public(b.key) /\ b.chain = "solana" /\ text = m
    <3>. HIDE DEF public
    <3>. QED BY <1>1, <1>9, <2>2, <2>3, <2>4
  <2>6. identity.items[1] \in {b.key, Public(b.key)}
    <3>1. CASE address
      BY <2>5, <3>1
    <3>2. CASE ~address
      <4>1. Public(given.key) = Public(b.key) /\ given # None
        BY <2>1, <2>5, <3>2
      <4>2. given.key = b.key
        BY <4>1, OnePublic
      <4>. QED BY <1>6, <4>1, <4>2
    <3>. QED BY <3>1, <3>2
  <2>7. v = Verdict(TRUE, Base58(<<Public(b.key)>>))
    <3>. HIDE DEF public
    <3>. QED BY <2>2, <2>5
  <2>. QED BY <2>5, <2>6, <2>7
<1>11. ASSUME b.chain = "solana", text = m, identity # None,
              identity \in {Base58(<<Public(b.key)>>), SecretOf(b)}
       PROVE  v = Verdict(TRUE, Base58(<<Public(b.key)>>))
  <2>1. public = Public(b.key) /\ (address \/ given # None)
    <3>1. CASE identity = Base58(<<Public(b.key)>>)
      <4>1. identity.items = <<Public(b.key)>> /\ identity.form = "base58"
        BY <3>1 DEF Base58
      <4>2. Bytes(Public(b.key)) = 32
        BY DEF Bytes, Public
      <4>3. identity.items = <<Public(b.key)>>
        BY <4>1
      <4>4. identity.items[1] = Public(b.key) /\ (One(identity) <=> Bytes(Public(b.key)) = 32)
        BY <4>3, OneItem
      <4>. QED BY <4>1, <4>2, <4>4 DEF IsSolanaAddress
    <3>2. CASE identity = SecretOf(b)
      <4>1. FromSecret("solana", identity) = b /\ b # None /\ Proper(b)
        BY <1>11, <3>2, MadeIs, ReadsBack
      <4>2. given = b
        BY <4>1 DEF FromSecret
      <4>3. identity.items = <<b.key, Public(b.key)>>
        BY <1>11, <3>2, <4>1, SecretShape
      <4>4. ~address
        BY <4>3, TwoItems DEF IsSolanaAddress
      <4>. QED BY <4>1, <4>2, <4>4
    <3>. QED BY <1>11, <3>1, <3>2
  <2>2. ~Recoverable(s.scheme)
    BY <1>3, <1>11
  <2>. HIDE DEF address, given, public
  <2>. QED BY <1>1, <1>4, <1>7, <1>11, <2>1, <2>2
<1>. QED BY <1>10, <1>11 DEF SolanaTold

(* One of Cardano or Midnight is told by a secret of its signer. *)
HeldTold(c, b, text, m, n, given, v) ==
  /\ Valued(v) =>
       /\ b.chain = c /\ text = m /\ given # None /\ given.key = b.key
       /\ v = Verdict(TRUE, AddressText(c, n.mark, given))
  /\ b.chain = c /\ text = m /\ given # None /\ given.key = b.key =>
       v = Verdict(TRUE, AddressText(c, n.mark, given))
LEMMA HeldTells ==
  ASSUME NEW b \in AccountsMade, NEW text, NEW m, NEW c, c \notin {"evm", "ecash"}, NEW n,
         NEW given, NEW v, v = HeldRecovered(c, n, m, Signature(b, text), given)
  PROVE  HeldTold(c, b, text, m, n, given, v)
<1>. DEFINE s == Signature(b, text)
<1>1. \A key : Made(c, key, m, s) <=> b.chain = c /\ text = m /\ key = b.key
  BY DEF Signature, Made
<1>2. Recoverable(s.scheme) <=> b.chain \in {"evm", "ecash"}
  BY DEF Signature, Recoverable
<1>3. v = IF given = None \/ Recoverable(s.scheme) THEN None
          ELSE IF Made(c, given.key, m, s) THEN Verdict(TRUE, AddressText(c, n.mark, given))
          ELSE Verdict(FALSE, None)
  BY DEF HeldRecovered
<1>4. ASSUME Valued(v)
      PROVE  given # None /\ Made(c, given.key, m, s) /\ v = Verdict(TRUE, AddressText(c, n.mark, given))
  BY <1>3, <1>4, VerdictIs DEF Valued
<1>. QED BY <1>1, <1>2, <1>3, <1>4 DEF HeldTold

(* What both chains whose signatures tell their signer have in common. *)
Told(c, b, text, m, n, against, v) ==
  /\ Valued(v) /\ against # None =>
       b.chain = c /\ text = m /\ against.items[1] = Public(b.key)
  /\ b.chain = c /\ text = m /\ against = None =>
       v = Verdict(TRUE, AddressText(c, n.mark, b))
  /\ b.chain = c /\ text = m =>
       \A a \in AccountsMade, k \in Registry :
         a.chain = c /\ against = AddressText(c, k.mark, a) =>
           v = Verdict(a.key = b.key, AddressText(c, k.mark, b))
LEMMA RecoveredTells ==
  ASSUME NEW b \in AccountsMade, NEW text, NEW m, NEW n \in Registry, NEW c \in {"evm", "ecash"},
         NEW against, IsNoneOrAddress(against),
         NEW v \in Recovered(c, n, m, Signature(b, text), against)
  PROVE  Told(c, b, text, m, n, against, v)
<1>. DEFINE s == Signature(b, text)
<1>1. Proper(b)
  BY MadeIs
<1>2. ASSUME NEW a \in AccountsMade, NEW k \in Registry,
             a.chain = c, against = AddressText(c, k.mark, a)
      PROVE  /\ against # None /\ Named(c, against)
             /\ against.items[1] = Public(b.key) <=> a.key = b.key
             /\ c = "ecash" => against.mark = k.mark
  <2>1. Proper(a) /\ against # None /\ against = AddressText(a.chain, k.mark, a)
    BY <1>2, MadeIs
  <2>0. a.chain # "solana"
    BY <1>2
  <2>2. against.items[1] = Public(a.key) /\ against.form = "address" /\ against.chain = a.chain
        /\ (a.chain = "ecash" => against.mark = k.mark)
    BY <2>0, <2>1, AddressShape
  <2>. QED BY <1>2, <2>1, <2>2, OnePublic DEF Named
<1>3. CASE c = "evm"
  <2>1. v = EvmRecovered(m, s, against)
    BY <1>3 DEF Recovered
  <2>2. b.chain = "evm" => \A mark : AddressText("evm", mark, b) = AddressText("evm", Plain, b)
    BY <1>1, AddressShape
  <2>3. EvmTold(b, text, m, against, v)
    BY <2>1, EvmTells
  <2>4. ASSUME b.chain = c, text = m, NEW a \in AccountsMade, NEW k \in Registry,
               a.chain = c, against = AddressText(c, k.mark, a)
        PROVE  v = Verdict(a.key = b.key, AddressText(c, k.mark, b))
    <3>1. v = Verdict(against.items[1] = Public(b.key), AddressText("evm", k.mark, b))
      BY <1>2, <1>3, <2>2, <2>3, <2>4 DEF EvmTold
    <3>2. (against.items[1] = Public(b.key)) = (a.key = b.key)
      BY <1>2, <2>4
    <3>. QED BY <1>3, <3>1, <3>2
  <2>. QED BY <1>3, <2>2, <2>3, <2>4 DEF EvmTold, Told
<1>4. CASE c = "ecash"
  <2>1. v \in EcashRecovered(n, m, s, against)
    BY <1>4 DEF Recovered
  <2>3. EcashTold(b, text, m, n, against, v)
    BY <2>1, EcashTells
  <2>4. ASSUME b.chain = c, text = m, NEW a \in AccountsMade, NEW k \in Registry,
               a.chain = c, against = AddressText(c, k.mark, a)
        PROVE  v = Verdict(a.key = b.key, AddressText(c, k.mark, b))
    <3>1. v = Verdict(against.items[1] = Public(b.key), AddressText("ecash", k.mark, b))
      BY <1>2, <1>4, <2>3, <2>4 DEF EcashTold
    <3>2. (against.items[1] = Public(b.key)) = (a.key = b.key)
      BY <1>2, <2>4
    <3>. QED BY <1>4, <3>1, <3>2
  <2>. QED BY <1>4, <2>3, <2>4 DEF EcashTold, Told
<1>. QED BY <1>3, <1>4

-----------------------------------------------------------------------------
(* The verdicts of a home on the letter under way. *)

LEMMA LetterIs ==
  ASSUME AccountInv, letter # None
  PROVE  /\ RecordOK(letter.by) /\ letter.by.made \in AccountsMade
         /\ letter.by.chain = letter.by.made.chain
         /\ letter.signature = Signature(letter.by.made, letter.text)
         /\ letter.signature.key = letter.by.made.key
         /\ letter.signature.scheme = letter.by.chain
<1>1. LetterOK(letter)
  BY DEF AccountInv
<1>. QED BY <1>1 DEF LetterOK, RecordOK, Signature

LEMMA GivenIs ==
  ASSUME AccountInv, letter # None, NEW h \in Home, NEW given \in Givens(h), given # None
  PROVE  \E r : RecordOK(r) /\ given \in AddressesOf(r)
                /\ r.made \in AccountsMade /\ IsAddressOf(given, r.made)
<1>1. PICK r \in Kept(h) \cup {letter.by} : given \in AddressesOf(r)
  BY DEF Givens
<1>2. RecordOK(r)
  BY LetterIs, KeptIsOK DEF AccountInv
<1>3. \E n \in Registry : given = AddressText(r.made.chain, n.mark, r.made)
  BY <1>1, <1>2, AddressOfRecord DEF RecordOK
<1>. QED BY <1>1, <1>2, <1>3 DEF RecordOK, IsAddressOf

LEMMA AccountIs ==
  ASSUME AccountInv, NEW h \in Home, NEW n \in Registry, NEW r \in Accounts(h, n.chain)
  PROVE  /\ RecordOK(r) /\ r \in Kept(h) /\ r.chain = n.chain
         /\ r.made \in AccountsMade /\ r.made.chain = n.chain
         /\ r.secret = SecretOf(r.made)
         /\ AddressFor(n, r) = AddressText(n.chain, n.mark, r.made)
<1>1. r \in Kept(h) /\ r.chain = n.chain
  BY DEF Accounts
<1>2. RecordOK(r)
  BY <1>1, KeptIsOK DEF AccountInv
<1>. QED BY <1>1, <1>2, RecordAddress DEF RecordOK

(* On EVM and eCash. *)
LEMMA SaysRecovered ==
  ASSUME AccountInv, letter # None, NEW h \in Home, NEW n \in Registry, NEW given \in Givens(h),
         n.chain \in {"evm", "ecash"},
         NEW against \in Against(h, n.chain, n, given), NEW m \in Message \cup Altered,
         NEW v \in Recovered(n.chain, n, m, letter.signature, against)
  PROVE  Says(h, n, given, [text |-> m, against |-> against, verdict |-> v])
<1>. DEFINE a == [text |-> m, against |-> against, verdict |-> v]
            by == letter.by
            b == by.made
            c == n.chain
<1>1. RecordOK(by) /\ b \in AccountsMade /\ by.chain = b.chain
      /\ letter.signature = Signature(b, letter.text)
      /\ letter.signature.key = b.key /\ letter.signature.scheme = b.chain
  BY LetterIs
<1>2. /\ given # None => against = given
      /\ given = None => \/ Accounts(h, c) = {} /\ against = None
                         \/ \E r \in Accounts(h, c) : against = AddressText(c, n.mark, r.made)
  BY AccountIs DEF Against, Recoverable
<1>3. IsNoneOrAddress(against)
  <2>1. CASE given # None
    BY <1>2, <2>1, GivenIs DEF IsNoneOrAddress
  <2>2. CASE given = None
    BY <1>2, <2>2, AccountIs DEF IsAddressOf, IsNoneOrAddress
  <2>. QED BY <2>1, <2>2
<1>4. Told(c, b, letter.text, m, n, against, v)
  BY <1>1, <1>3, RecoveredTells
<1>5. ASSUME b.chain = c, letter.text = m, Asked(h, c, given) PROVE Valued(v)
  <2>1. PICK x \in AccountsMade, k \in Registry :
          x.chain = c /\ against = AddressText(c, k.mark, x) /\ x.key = b.key
    <3>1. CASE given # None
      <4>1. given \in AddressesOf(by)
        BY <1>5, <3>1 DEF Asked
      <4>2. \E k \in Registry : given = AddressText(c, k.mark, b)
        BY <1>1, <1>5, <4>1, AddressOfRecord
      <4>. QED BY <1>1, <1>2, <1>5, <3>1, <4>2
    <3>2. CASE given = None
      <4>1. {r.made.key : r \in Accounts(h, c)} = {b.key}
        BY <1>5, <3>2 DEF Asked
      <4>2. PICK r \in Accounts(h, c) : against = AddressText(c, n.mark, r.made)
        BY <1>2, <3>2, <4>1
      <4>3. r.made.key = b.key
        BY <4>1
      <4>. QED BY <4>2, <4>3, AccountIs
    <3>. QED BY <3>1, <3>2
  <2>2. v = Verdict(TRUE, AddressText(c, k.mark, b))
    BY <1>4, <1>5, <2>1 DEF Told
  <2>3. v # None
    BY <1>1, <1>5, <2>2, MadeIs
  <2>. QED BY <2>2, <2>3, VerdictIs DEF Valued
<1>6. ASSUME Valued(v), b.chain = c, letter.text = m, given = None
      PROVE  v.address = AddressFor(n, by)
  <2>1. AddressFor(n, by) = AddressText(c, n.mark, b)
    BY <1>1, <1>6, RecordAddress
  <2>2. \E valid : v = Verdict(valid, AddressText(c, n.mark, b))
    BY <1>2, <1>4, <1>6, AccountIs DEF Told
  <2>. QED BY <2>1, <2>2, VerdictIs
<1>. HIDE DEF b, c
<1>7. Valid(a) <=> Valued(v)
  BY DEF Valid, Valued
<1>8. Valid(a) /\ a.against # None =>
        /\ letter.signature.scheme = n.chain /\ letter.text = a.text
        /\ a.against.items[1] \in {letter.signature.key, Public(letter.signature.key)}
  BY <1>1, <1>4, <1>7 DEF c, Told
<1>9. letter.signature.scheme = n.chain /\ letter.text = a.text /\ Asked(h, n.chain, given) =>
        Valid(a)
  BY <1>1, <1>5, <1>7 DEF c
<1>10. Valid(a) /\ letter.signature.scheme = n.chain /\ letter.text = a.text /\ given = None =>
         by.made.key = letter.signature.key /\ a.verdict.address = AddressFor(n, by)
  BY <1>1, <1>6, <1>7 DEF c, b
<1>. QED BY <1>8, <1>9, <1>10 DEF Says

(* Elsewhere it is checked against the account found by the address given, *)
(* or against the address, or the active account. *)
LEMMA HeldAgainst ==
  ASSUME AccountInv, letter # None, NEW h \in Home, NEW n \in Registry, NEW given \in Givens(h),
         n.chain \notin {"evm", "ecash"}, NEW against \in Against(h, n.chain, n, given)
  PROVE  /\ IsNoneOrText(against)
         /\ given # None =>
              \/ \E r \in Kept(h) : given \in AddressesOf(r) /\ RecordOK(r) /\ against = SecretOf(r.made)
              \/ against = given /\ \A r \in Kept(h) : given \notin AddressesOf(r)
         /\ given = None =>
              \/ \E r \in Accounts(h, n.chain) : against = SecretOf(r.made)
              \/ against = None /\ Accounts(h, n.chain) = {}
<1>1. against \in AgainstSecret(h, n.chain, given)
  BY DEF Against, Recoverable
<1>2. HomesOK
  BY DEF AccountInv
<1>3. CASE given # None
  <2>1. CASE FindAccount(h, given) = {}
    <3>1. against = given /\ \A r \in Kept(h) : given \notin AddressesOf(r)
      BY <1>1, <1>2, <1>3, <2>1, FoundIs DEF AgainstSecret
    <3>2. IsNoneOrText(against)
      BY <1>3, <3>1, GivenIs DEF IsNoneOrText
    <3>. QED BY <1>3, <3>1, <3>2
  <2>2. CASE FindAccount(h, given) # {}
    <3>1. PICK r \in FindAccount(h, given) : against = r.secret
      BY <1>1, <1>3, <2>2 DEF AgainstSecret
    <3>2. r \in Kept(h) /\ given \in AddressesOf(r) /\ RecordOK(r)
      BY <1>2, <3>1, FoundIs, KeptIsOK
    <3>3. against = SecretOf(r.made) /\ r.made \in AccountsMade
      BY <3>1, <3>2 DEF RecordOK
    <3>. QED BY <1>3, <3>2, <3>3 DEF IsNoneOrText
  <2>. QED BY <2>1, <2>2
<1>4. CASE given = None
  <2>1. CASE Accounts(h, n.chain) = {}
    BY <1>1, <1>4, <2>1 DEF AgainstSecret, IsNoneOrText
  <2>2. CASE Accounts(h, n.chain) # {}
    <3>1. PICK r \in Accounts(h, n.chain) : against = r.secret
      BY <1>1, <1>4, <2>2 DEF AgainstSecret
    <3>2. against = SecretOf(r.made) /\ r.made \in AccountsMade
      BY <3>1, AccountIs
    <3>. QED BY <1>4, <3>1, <3>2 DEF IsNoneOrText
  <2>. QED BY <2>1, <2>2
<1>. QED BY <1>3, <1>4

LEMMA OneSolana ==
  ASSUME NEW a \in AccountsMade, NEW b \in AccountsMade,
         a.chain = "solana", b.chain = "solana", a.key = b.key
  PROVE  a = b
<1>1. a = Account(a.chain, a.key, a.second) /\ a.second = None
      /\ b = Account(b.chain, b.key, b.second) /\ b.second = None
  BY MadeIs, KeyLengths
<1>. QED BY <1>1

(* What Says comes to, of one answer. *)
LEMMA SaysIs ==
  ASSUME AccountInv, letter # None, NEW h, NEW n, NEW given, NEW m, NEW against, NEW v,
         LET key == letter.by.made.key
             signed == letter.by.chain = n.chain /\ letter.text = m
             held == \E r \in Accounts(h, n.chain) : given \in AddressesOf(r)
         IN  /\ Valued(v) /\ against # None =>
                  signed /\ against.items[1] \in {key, Public(key)}
             /\ signed /\ Asked(h, n.chain, given) =>
                  Valued(v) \/ (n.chain \in {"cardano", "midnight"} /\ given # None /\ ~held)
             /\ Valued(v) /\ signed /\ given = None =>
                  \E r \in Accounts(h, n.chain) \cup {letter.by} :
                    r.made.key = key /\ v.address = AddressFor(n, r)
  PROVE  Says(h, n, given, [text |-> m, against |-> against, verdict |-> v])
<1>1. letter.signature.key = letter.by.made.key /\ letter.signature.scheme = letter.by.chain
  BY LetterIs
<1>. QED BY <1>1 DEF Says, Valid, Valued

LEMMA SaysSolana ==
  ASSUME AccountInv, letter # None, NEW h \in Home, NEW n \in Registry, NEW given \in Givens(h),
         n.chain = "solana",
         NEW against \in Against(h, n.chain, n, given), NEW m \in Message \cup Altered,
         NEW v \in Recovered(n.chain, n, m, letter.signature, against)
  PROVE  Says(h, n, given, [text |-> m, against |-> against, verdict |-> v])
<1>. DEFINE by == letter.by
            b == by.made
            text == letter.text
            word == Verdict(TRUE, Base58(<<Public(b.key)>>))
<1>1. RecordOK(by) /\ b \in AccountsMade /\ by.chain = b.chain
      /\ letter.signature = Signature(b, text)
  BY LetterIs
<1>2. /\ IsNoneOrText(against)
      /\ given # None =>
           \/ \E r \in Kept(h) : given \in AddressesOf(r) /\ RecordOK(r) /\ against = SecretOf(r.made)
           \/ against = given
      /\ given = None =>
           \/ \E r \in Accounts(h, n.chain) : against = SecretOf(r.made)
           \/ against = None /\ Accounts(h, n.chain) = {}
  BY HeldAgainst
<1>3. v = SolanaRecovered(m, Signature(b, text), against)
  BY <1>1 DEF Recovered
<1>4. SolanaTold(b, text, m, against, v)
  BY <1>1, <1>2, <1>3, SolanaTells
<1>5. by.chain = "solana" =>
        /\ \A k \in Registry : AddressText(by.chain, k.mark, b) = Base58(<<Public(b.key)>>)
        /\ AddressFor(n, by) = Base58(<<Public(b.key)>>) /\ word # None
  <2>0. b.chain = "solana" =>
          \A k \in Registry : AddressText(b.chain, k.mark, b) = Base58(<<Public(b.key)>>)
    BY <1>1, MadeIs, AddressShape
  <2>1. by.chain = "solana" =>
          \A k \in Registry : AddressText(by.chain, k.mark, b) = Base58(<<Public(b.key)>>)
    BY <1>1, <2>0
  <2>2. by.chain = "solana" => AddressFor(n, by) = AddressText(by.chain, n.mark, b)
    BY <1>1, RecordAddress
  <2>3. Verdict(TRUE, AddressText(b.chain, n.mark, b)) # None
    BY <1>1, MadeIs
  <2>. QED BY <1>1, <2>1, <2>2, <2>3
<1>6. ASSUME by.chain = "solana", text = m, Asked(h, n.chain, given) PROVE Valued(v)
  <2>1. against # None /\ against \in {Base58(<<Public(b.key)>>), SecretOf(b)}
    <3>1. CASE given # None
      <4>1. given \in AddressesOf(by)
        BY <1>6, <3>1 DEF Asked
      <4>2. given = Base58(<<Public(b.key)>>)
        BY <1>1, <1>5, <1>6, <4>1, AddressOfRecord
      <4>3. ASSUME NEW r \in Kept(h), given \in AddressesOf(r), RecordOK(r), against = SecretOf(r.made)
            PROVE  against = SecretOf(b) /\ against # None
        <5>1. r.chain = by.chain /\ r.made.key = b.key
          BY <1>1, <4>1, <4>3, OneAddressOneKey
        <5>2. r.made \in AccountsMade /\ r.made.chain = r.chain
          BY <4>3 DEF RecordOK
        <5>3. r.made = b
          BY <1>1, <1>6, <5>1, <5>2, OneSolana
        <5>. QED BY <1>1, <4>3, <5>3, MadeIs
      <4>. QED BY <1>2, <3>1, <4>2, <4>3
    <3>2. CASE given = None
      <4>1. {r.made.key : r \in Accounts(h, n.chain)} = {b.key}
        BY <1>6, <3>2 DEF Asked
      <4>2. PICK r \in Accounts(h, n.chain) : against = SecretOf(r.made)
        BY <1>2, <3>2, <4>1
      <4>3. r.made.key = b.key
        BY <4>1
      <4>4. r.made \in AccountsMade /\ r.made.chain = "solana"
        BY AccountIs
      <4>5. r.made = b
        BY <1>1, <1>6, <4>3, <4>4, OneSolana
      <4>. QED BY <1>1, <4>2, <4>5, MadeIs
    <3>. QED BY <3>1, <3>2
  <2>2. v = word
    BY <1>1, <1>4, <1>6, <2>1 DEF SolanaTold
  <2>. QED BY <1>5, <1>6, <2>2, VerdictIs DEF Valued
<1>7. ASSUME Valued(v) PROVE /\ by.chain = "solana" /\ text = m
                             /\ against.items[1] \in {b.key, Public(b.key)}
                             /\ v.address = AddressFor(n, by)
  <2>1. /\ b.chain = "solana" /\ text = m /\ v = word
        /\ against.items[1] \in {b.key, Public(b.key)}
    BY <1>4, <1>7 DEF SolanaTold
  <2>. QED BY <1>1, <1>5, <2>1, VerdictIs
<1>. QED BY <1>6, <1>7, SaysIs

(* On Cardano and Midnight. *)
LEMMA SaysHeld ==
  ASSUME AccountInv, letter # None, NEW h \in Home, NEW n \in Registry, NEW given \in Givens(h),
         n.chain \in {"cardano", "midnight"},
         NEW against \in Against(h, n.chain, n, given), NEW m \in Message \cup Altered,
         NEW v \in Recovered(n.chain, n, m, letter.signature, against)
  PROVE  Says(h, n, given, [text |-> m, against |-> against, verdict |-> v])
<1>. DEFINE by == letter.by
            b == by.made
            c == n.chain
            text == letter.text
            a == IF against = None THEN None ELSE FromSecret(c, against)
<1>1. RecordOK(by) /\ b \in AccountsMade /\ by.chain = b.chain
      /\ letter.signature = Signature(b, text)
  BY LetterIs
<1>2. /\ given # None =>
           \/ \E r \in Kept(h) : given \in AddressesOf(r) /\ RecordOK(r) /\ against = SecretOf(r.made)
           \/ against = given /\ \A r \in Kept(h) : given \notin AddressesOf(r)
      /\ given = None =>
           \/ \E r \in Accounts(h, c) : against = SecretOf(r.made)
           \/ against = None /\ Accounts(h, c) = {}
  BY HeldAgainst
<1>3. v = HeldRecovered(c, n, m, Signature(b, text), a)
  BY <1>1 DEF Recovered, CardanoRecovered, MidnightRecovered, FromSecret
<1>4. a # None => a.key = against.items[1]
  BY DEF FromSecret, CardanoFromSecret, MidnightFromSecret, Account
<1>5. ASSUME NEW r, RecordOK(r), r.chain = c, against = SecretOf(r.made)
      PROVE  a = r.made /\ a # None /\ a \in AccountsMade /\ a.chain = c
  <2>1. r.made \in AccountsMade /\ r.made.chain = c
    BY <1>5 DEF RecordOK
  <2>2. r.made # None /\ against # None /\ FromSecret(c, against) = r.made
    BY <1>5, <2>1, MadeIs, ReadsBack
  <2>. QED BY <2>1, <2>2
<1>. HIDE DEF a
<1>6. HeldTold(c, b, text, m, n, a, v)
  BY <1>1, <1>3, HeldTells
<1>7. ASSUME by.chain = c, text = m, Asked(h, c, given),
             given # None => \E r \in Accounts(h, c) : given \in AddressesOf(r)
      PROVE  Valued(v)
  <2>1. \E r : RecordOK(r) /\ r.chain = c /\ against = SecretOf(r.made) /\ r.made.key = b.key
    <3>1. CASE given # None
      <4>1. given \in AddressesOf(by)
        BY <1>7, <3>1 DEF Asked
      <4>2. PICK q \in Kept(h) : given \in AddressesOf(q)
        BY <1>7, <3>1 DEF Accounts
      <4>3. PICK r \in Kept(h) : given \in AddressesOf(r) /\ RecordOK(r) /\ against = SecretOf(r.made)
        BY <1>2, <3>1, <4>2
      <4>4. r.chain = by.chain /\ r.made.key = b.key
        BY <1>1, <4>1, <4>3, OneAddressOneKey
      <4>. QED BY <1>7, <4>3, <4>4
    <3>2. CASE given = None
      <4>1. {r.made.key : r \in Accounts(h, c)} = {b.key}
        BY <1>7, <3>2 DEF Asked
      <4>2. PICK r \in Accounts(h, c) : against = SecretOf(r.made)
        BY <1>2, <3>2, <4>1
      <4>3. r.made.key = b.key
        BY <4>1
      <4>4. RecordOK(r) /\ r.chain = c
        BY AccountIs
      <4>. QED BY <4>2, <4>3, <4>4
    <3>. QED BY <3>1, <3>2
  <2>2. a # None /\ a.key = b.key /\ a \in AccountsMade /\ a.chain = c
    BY <1>5, <2>1
  <2>3. v = Verdict(TRUE, AddressText(c, n.mark, a))
    BY <1>1, <1>6, <1>7, <2>2 DEF HeldTold
  <2>4. v # None
    BY <2>2, <2>3, MadeIs
  <2>. QED BY <2>3, <2>4, VerdictIs DEF Valued
<1>8. ASSUME Valued(v) PROVE /\ by.chain = c /\ text = m /\ against.items[1] = b.key
                             /\ a # None /\ a.key = b.key
                             /\ v.address = AddressText(c, n.mark, a)
  <2>1. /\ b.chain = c /\ text = m /\ a # None /\ a.key = b.key
        /\ v = Verdict(TRUE, AddressText(c, n.mark, a))
    BY <1>6, <1>8 DEF HeldTold
  <2>2. against.items[1] = b.key
    BY <1>4, <2>1
  <2>3. v.address = AddressText(c, n.mark, a)
    BY <2>1, VerdictIs
  <2>. QED BY <1>1, <2>1, <2>2, <2>3
<1>9. ASSUME Valued(v), given = None
      PROVE  \E r \in Accounts(h, c) : r.made.key = b.key /\ v.address = AddressFor(n, r)
  <2>1. against # None
    BY <1>8, <1>9 DEF a
  <2>2. PICK r \in Accounts(h, c) : against = SecretOf(r.made)
    BY <1>2, <1>9, <2>1
  <2>3. RecordOK(r) /\ r.chain = c /\ AddressFor(n, r) = AddressText(c, n.mark, r.made)
    BY AccountIs
  <2>4. a = r.made
    BY <1>5, <2>2, <2>3
  <2>. QED BY <1>8, <1>9, <2>3, <2>4
<1>. QED BY <1>7, <1>8, <1>9, SaysIs

(* A valid signature, in any home, on any chain and network, against any   *)
(* address asked about, is of the text signed, by the account asked about; *)
(* that account's signature is called valid where it can be told; and the  *)
(* address told is one of the signer's key.  (recover_message of every     *)
(* chain; app.rs verify, find_account.)                                    *)
THEOREM VerdictsAreTrue == Spec => []VerdictIsTrue
<1>1. ASSUME AccountInv PROVE VerdictIsTrue
  <2>1. ASSUME letter # None, NEW h \in Home, NEW given \in Givens(h), NEW n \in Registry,
               NEW a \in Verify(h, n, given)
        PROVE  Says(h, n, given, a)
    <3>1. PICK against \in Against(h, n.chain, n, given), m \in Message \cup Altered :
            \E v \in Recovered(n.chain, n, m, letter.signature, against) :
              a = [text |-> m, against |-> against, verdict |-> v]
      BY DEF Verify
    <3>2. PICK v \in Recovered(n.chain, n, m, letter.signature, against) :
            a = [text |-> m, against |-> against, verdict |-> v]
      BY <3>1
    <3>3. n.chain \in {"evm", "solana", "cardano", "midnight", "ecash"}
      BY FiveChains, KeyConstants
    <3>. QED BY <1>1, <2>1, <3>2, <3>3, SaysRecovered, SaysSolana, SaysHeld
  <2>. QED BY <2>1 DEF VerdictIsTrue
<1>. QED BY <1>1, InitAccounts, StepAccounts, PTL DEF Spec
=============================================================================
