------------------------------- MODULE Export -------------------------------
(***************************************************************************)
(* The account list as a file: the rows and columns of                     *)
(* rustcli/core/src/export.rs, and the ways a file gets them, `account     *)
(* list --format --output`, "Save list" and "Export wallets" of the        *)
(* terminal UI, as the system calls of paths.rs.  Several writers may      *)
(* write one file; a writer may die or fail between two calls.             *)
(*                                                                         *)
(* A cell is what it tells, not how it is quoted.                          *)
(***************************************************************************)
EXTENDS Keys

CONSTANTS
  Writer,    \* processes that write lists
  Path,      \* the files they write
  MaxIndex   \* the largest index there is

VARIABLES
  files,  \* [Path -> whether it is there, whether private, and what is in it]
  jobs    \* [Writer -> what it is writing, where, and how far it is]

exporting == <<files, jobs>>

-----------------------------------------------------------------------------
(* Rows.  An account is its record: [chain, index, label, secret, address]. *)

(* Slip: the default network's address only, which is the first.           *)
DefaultOnly(c) == {First(NetworksOf(c))}

(* Every network whose address differs; Solana writes one everywhere.      *)
ExportedNetworks(c) ==
  IF c = "solana" THEN {First(NetworksOf(c))} ELSE NetworksOf(c)

(* The networks an account is written for: where two write one address,    *)
(* the first, but on EVM, where both are in use.                           *)
RowNetworks(a) ==
  LET all == ExportedNetworks(a.chain) IN
  {k \in all : a.chain = "evm" \/
     \A j \in all : j < k => AddressFor(NetworkList[j], a) # AddressFor(NetworkList[k], a)}

(* A row is called after its account, the chain in the name replaced by    *)
(* the network where there are several.                                    *)
RowName(a, n, several) ==
  IF ~several THEN a.label
  ELSE Append(IF Last(a.label) = a.chain THEN Front(a.label) ELSE a.label, n.key)
Row(a, n, active) ==
  [name |-> RowName(a, n, Cardinality(RowNetworks(a)) > 1), address |-> AddressFor(n, a),
   network |-> n.key, account |-> a, active |-> a.address = active]

(* Where the row of the i-th account on the k-th network stands: wallet by *)
(* wallet, chain by chain; bare keys, which have no index, last; otherwise *)
(* as listed, which is as created.  The file has the rows in the order of  *)
(* their places, number by number.                                         *)
Ordered(list, i, k) ==
  <<IF list[i].index = None THEN MaxIndex ELSE list[i].index,
    CHOOSE c \in DOMAIN ChainList : ChainList[c] = list[i].chain, i, k>>
Rows(list, active) ==
  [place \in UNION {{Ordered(list, i, k) : k \in RowNetworks(list[i])} : i \in DOMAIN list} |->
     Row(list[place[3]], NetworkList[place[4]], active)]

(* The columns, alike in every format, and which of them an account fills: *)
(* a bare key has no place in a wallet, and the public keys are those of   *)
(* the EVM key the secret would be, if it reads as one.                    *)
Columns == {"position", "name", "address", "network", "chain", "label", "source",
            "address_index", "seed", "derivation_path", "created_at", "active",
            "public_key_compressed", "public_key"}
SecretColumns == {"private_key", "mnemonic"}
Headers(secrets) == IF secrets THEN Columns \cup SecretColumns ELSE Columns
Blank(a) ==
  UNION {IF a.index = None
           THEN {"address_index", "derivation_path", "mnemonic", "seed"} ELSE {},
         IF FromSecret("evm", a.secret) # None THEN {} ELSE {"public_key_compressed", "public_key"}}

(* Every format tells the same.                                            *)
List(rows, secrets, tells) == [rows |-> rows, secrets |-> secrets, tells |-> tells]
Render(list, active, secrets) ==
  LET rows == Rows(list, active) IN
  List(rows, secrets,
       UNION {Headers(secrets) \ Blank(rows[i].account) : i \in DOMAIN rows})
Nothing == List(<<>>, FALSE, {})

-----------------------------------------------------------------------------
(* Files.                                                                  *)

NoFile == [there |-> FALSE, private |-> FALSE, what |-> Nothing]
File(private, what) == [there |-> TRUE, private |-> private, what |-> what]
Job(at, path, what) == [at |-> at, path |-> path, what |-> what]
NoJob == Job("none", None, Nothing)

ExportInit ==
  /\ files \in [Path -> {NoFile, File(FALSE, Nothing)}]
  /\ jobs = [w \in Writer |-> NoJob]

At(w, stage) == jobs[w].at = stage

(* A list is rendered, then written, privately if it tells secrets.        *)
StartWriting(w, path, list, active, secrets) ==
  /\ At(w, "none") /\ list # <<>>
  /\ jobs' = [jobs EXCEPT ![w] = Job("open", path, Render(list, active, secrets))]
  /\ UNCHANGED files

(* The file is created, as private as it is asked to be, or emptied as it  *)
(* is; the umask lets others read what is not asked to be private.         *)
Opened(w) ==
  LET old == files[jobs[w].path]
  IN  IF old.there THEN old.private ELSE jobs[w].what.secrets
Onwards(w) ==
  jobs' = [jobs EXCEPT ![w] =
    Job(IF jobs[w].what.secrets THEN "tighten" ELSE "fill", jobs[w].path, jobs[w].what)]

(* Slip: filled before it is tightened.                                    *)
OpenToFill(w) ==
  /\ At(w, "open")
  /\ files' = [files EXCEPT ![jobs[w].path] = File(Opened(w), jobs[w].what)]
  /\ Onwards(w)

OpenFile(w) ==
  /\ At(w, "open")
  /\ files' = [files EXCEPT ![jobs[w].path] = File(Opened(w), Nothing)]
  /\ Onwards(w)

(* write_private: a file that was there is tightened before it is filled.  *)
Tighten(w) ==
  /\ At(w, "tighten")
  /\ files' = [files EXCEPT ![jobs[w].path] = File(TRUE, files[jobs[w].path].what)]
  /\ jobs' = [jobs EXCEPT ![w] = Job("fill", jobs[w].path, jobs[w].what)]

(* What is written covers what another writer put there, or the start of   *)
(* it.                                                                     *)
Over(new, old) == List(new.rows, new.secrets, new.tells \cup old.tells)
Fill(w) ==
  /\ At(w, "fill")
  /\ LET j   == jobs[w]
         old == files[j.path]
     IN  \E what \in {j.what, Over(j.what, old.what)} :
           files' = [files EXCEPT ![j.path] = File(old.private, what)]
  /\ jobs' = [jobs EXCEPT ![w] = NoJob]

(* A call fails, or the process dies.                                      *)
StopWriting(w) ==
  /\ ~At(w, "none")
  /\ jobs' = [jobs EXCEPT ![w] = NoJob]
  /\ UNCHANGED files

Writing(w) == OpenFile(w) \/ Tighten(w) \/ Fill(w) \/ StopWriting(w)

-----------------------------------------------------------------------------
(* Properties.                                                             *)

(* A file with a private key or a mnemonic in it is its owner's alone, in  *)
(* every state, whatever was there before and whoever else writes it.      *)
(* (write_private, export_accounts, `account list --output`.)              *)
KeysStayPrivate ==
  \A p \in Path :
    files[p].what.tells \cap SecretColumns # {} => files[p].there /\ files[p].private

(* A list names every address its accounts can be paid at: there is a row  *)
(* for each address an account has on the networks of its chain, and one   *)
(* row only, but on EVM.  (export.rs rows, exported_networks.)     *)
EveryAddressIsWritten ==
  \A w \in Writer : ~At(w, "none") =>
    LET rows == jobs[w].what.rows
        of(a, n) == {i \in DOMAIN rows : rows[i].account = a
                                         /\ rows[i].address = AddressFor(n, a)}
    IN  \A a \in {rows[i].account : i \in DOMAIN rows}, n \in Registry :
          n.chain = a.chain =>
            /\ of(a, n) # {}
            /\ a.chain # "evm" => Cardinality(of(a, n)) = 1
=============================================================================
