----------------------------- MODULE TuiProofs ------------------------------
(***************************************************************************)
(* Proofs about the terminal UI, for any wallets, secrets, networks and    *)
(* bounds: where the cursor is, what a transfer and a removal act on, and  *)
(* where a new wallet goes; about its command pane and input line (Pane);  *)
(* and about the list of remembered secrets it shows (Recall).             *)
(***************************************************************************)
EXTENDS Tui, Pane, Recall, FiniteSetTheorems, WellFoundedInduction, SequenceTheorems, TLAPS

----------------------------------------------------------------------------
(* Places in an order, and what is sifted out of a list.                   *)

IsList(t) == t \in Seq(Range(t))

LEMMA ListIs ==
  ASSUME NEW t, IsList(t)
  PROVE  /\ Len(t) \in Nat /\ DOMAIN t = 1 .. Len(t)
         /\ t = <<>> <=> Len(t) = 0
BY DEF IsList

LEMMA ListsOf ==
  ASSUME NEW S, NEW t \in Seq(S)
  PROVE  IsList(t)
<1>1. t \in [1 .. Len(t) -> Range(t)] /\ Len(t) \in Nat
  BY DEF Range
<1>. QED BY <1>1, SeqDef DEF IsList

LEMMA RankIn ==
  ASSUME NEW K \in SUBSET Nat, IsFiniteSet(K), NEW k \in K
  PROVE  Rank(K, k) \in 1 .. Cardinality(K)
<1>. DEFINE upTo == {j \in K : j <= k}
<1>1. upTo \in SUBSET K /\ k \in upTo
  OBVIOUS
<1>2. IsFiniteSet(upTo) /\ Cardinality(upTo) <= Cardinality(K)
  <2>. HIDE DEF upTo
  <2>. QED BY <1>1, FS_Subset
<1>3. Cardinality(upTo) # 0 /\ Cardinality(upTo) \in Nat
  <2>. HIDE DEF upTo
  <2>. QED BY <1>1, <1>2, FS_EmptySet, FS_CardinalityType
<1>4. Cardinality(K) \in Nat
  BY FS_CardinalityType
<1>. QED BY <1>2, <1>3, <1>4 DEF Rank

LEMMA RankGrows ==
  ASSUME NEW K \in SUBSET Nat, IsFiniteSet(K), NEW j \in K, NEW k \in K, j < k
  PROVE  Rank(K, j) < Rank(K, k)
<1>. DEFINE upTo(n) == {i \in K : i <= n}
<1>0. j \in Nat /\ k \in Nat
  OBVIOUS
<1>1. upTo(j) \in SUBSET upTo(k) /\ k \in upTo(k) /\ k \notin upTo(j)
      /\ upTo(k) \in SUBSET K
  <2>1. ASSUME NEW i \in upTo(j) PROVE i \in upTo(k)
    <3>1. i \in Nat /\ i <= j
      OBVIOUS
    <3>. QED BY <1>0, <3>1
  <2>2. k \in upTo(k) /\ k \notin upTo(j)
    BY <1>0
  <2>. QED BY <2>1, <2>2
<1>2. /\ IsFiniteSet(upTo(k)) /\ IsFiniteSet(upTo(j))
      /\ Cardinality(upTo(j)) <= Cardinality(upTo(k))
      /\ Cardinality(upTo(j)) # Cardinality(upTo(k))
  <2>. HIDE DEF upTo
  <2>1. IsFiniteSet(upTo(k))
    BY <1>1, FS_Subset
  <2>. QED BY <1>1, <2>1, FS_Subset
<1>3. Cardinality(upTo(j)) \in Nat /\ Cardinality(upTo(k)) \in Nat
  <2>. HIDE DEF upTo
  <2>. QED BY <1>2, FS_CardinalityType
<1>4. Rank(K, j) = Cardinality(upTo(j)) /\ Rank(K, k) = Cardinality(upTo(k))
  BY DEF Rank
<1>. HIDE DEF upTo
<1>. QED BY <1>2, <1>3, <1>4

LEMMA RankIsOnes ==
  ASSUME NEW K \in SUBSET Nat, IsFiniteSet(K), NEW j \in K, NEW k \in K,
         Rank(K, j) = Rank(K, k)
  PROVE  j = k
<1>1. Rank(K, j) \in Nat /\ Rank(K, k) \in Nat
  BY RankIn, FS_CardinalityType
<1>2. ~(j < k) /\ ~(k < j)
  BY <1>1, RankGrows
<1>. QED BY <1>2

(* Every place of a finite set of numbers is taken.                        *)
LEMMA RankHits ==
  ASSUME NEW K \in SUBSET Nat, IsFiniteSet(K), NEW n \in 1 .. Cardinality(K)
  PROVE  \E k \in K : Rank(K, k) = n
<1>. DEFINE T == 1 .. Cardinality(K)
            f == [k \in K |-> Rank(K, k)]
<1>1. f \in Injection(K, T)
  BY RankIn, RankIsOnes DEF Injection, IsInjective
<1>2. Cardinality(K) \in Nat
  BY FS_CardinalityType
<1>3. IsFiniteSet(T) /\ Cardinality(T) = Cardinality(K)
  BY <1>2, FS_Interval
<1>4. f \in Surjection(K, T)
  <2>. HIDE DEF f, T
  <2>. QED BY <1>1, <1>3, FS_Injection
<1>. QED BY <1>4 DEF Surjection

(* What is sifted out of a list: the members at those places, in order.    *)
LEMMA SiftedIs ==
  ASSUME NEW l, IsList(l), NEW K \in SUBSET DOMAIN l
  PROVE  /\ IsFiniteSet(K) /\ K \subseteq Nat
         /\ IsList(Sifted(l, K)) /\ Len(Sifted(l, K)) = Cardinality(K)
         /\ \A k \in K : /\ Rank(K, k) \in DOMAIN Sifted(l, K)
                         /\ Sifted(l, K)[Rank(K, k)] = l[k]
         /\ \A n \in DOMAIN Sifted(l, K) :
              \E k \in K : Rank(K, k) = n /\ Sifted(l, K)[n] = l[k]
<1>1. DOMAIN l = 1 .. Len(l) /\ Len(l) \in Nat
  BY ListIs
<1>2. IsFiniteSet(K) /\ K \in SUBSET Nat
  <2>1. IsFiniteSet(1 .. Len(l))
    BY <1>1, FS_Interval
  <2>. QED BY <1>1, <2>1, FS_Subset
<1>3. Cardinality(K) \in Nat
  BY <1>2, FS_CardinalityType
<1>. PICK u : u = Sifted(l, K)
  OBVIOUS
<1>4. DOMAIN u = 1 .. Cardinality(K)
  BY DEF Sifted
<1>5. ASSUME NEW n \in 1 .. Cardinality(K)
      PROVE  \E k \in K : Rank(K, k) = n /\ u[n] = l[k]
  <2>1. \E k \in K : Rank(K, k) = n
    BY <1>2, RankHits
  <2>. QED BY <2>1 DEF Sifted
<1>6. ASSUME NEW k \in K
      PROVE  Rank(K, k) \in DOMAIN u /\ u[Rank(K, k)] = l[k]
  <2>1. Rank(K, k) \in 1 .. Cardinality(K)
    BY <1>2, RankIn
  <2>2. PICK j \in K : Rank(K, j) = Rank(K, k) /\ u[Rank(K, k)] = l[j]
    BY <1>5, <2>1
  <2>3. j = k
    BY <1>2, <2>2, RankIsOnes
  <2>. QED BY <1>4, <2>1, <2>2, <2>3
<1>7. u = [n \in 1 .. Cardinality(K) |-> u[n]]
  BY DEF Sifted
<1>8. u \in Seq({l[k] : k \in K}) /\ Len(u) = Cardinality(K)
  <2>1. u \in [1 .. Cardinality(K) -> {l[k] : k \in K}]
    BY <1>5, <1>7
  <2>. QED BY <1>3, <2>1, SeqDef
<1>. QED BY <1>2, <1>4, <1>5, <1>6, <1>8, ListsOf

(* The first of a nonempty set of numbers.                                 *)
LEMMA LeastIs ==
  ASSUME NEW S \in SUBSET Nat, S # {}
  PROVE  \E m \in S : \A i \in S : m <= i
<1>. DEFINE Less == {ss \in Nat \X Nat : ss[1] < ss[2]}
<1>1. IsWellFoundedOn(Less, Nat)
  BY NatLessThanWellFounded DEF OpToRel
<1>2. PICK m \in S : \A j \in S : ~ (<<j, m>> \in Less)
  <2>. HIDE DEF Less
  <2>. QED BY <1>1, WFMin
<1>3. ASSUME NEW j \in S PROVE m <= j
  <2>1. j < m => <<j, m>> \in Less
    OBVIOUS
  <2>. QED BY <1>2, <2>1
<1>. QED BY <1>3

----------------------------------------------------------------------------
(* The wallets of a list of accounts.                                      *)

(* Accounts with an index, or none for a bare key.                         *)
Listing(l) ==
  /\ IsList(l)
  /\ \A n \in DOMAIN l : l[n].id \in Nat /\ l[n].index \in Nat \cup {None}

LEMMA IndicesAre ==
  ASSUME NEW s, Listing(s.list)
  PROVE  /\ Indices(s) \in SUBSET Nat /\ IsFiniteSet(Indices(s))
         /\ Cardinality(Indices(s)) \in 0 .. Len(s.list) /\ Len(s.list) \in Nat
         /\ Cardinality(Indices(s)) = 0 <=> s.list = <<>>
<1>1. DOMAIN s.list = 1 .. Len(s.list) /\ Len(s.list) \in Nat
      /\ (s.list = <<>> <=> Len(s.list) = 0)
  BY ListIs DEF Listing
<1>2. Indices(s) \in SUBSET Nat
  BY DEF Indices, IndexOf, Listing
<1>. DEFINE D == 1 .. Len(s.list)
            f == [n \in D |-> IndexOf(s.list[n])]
<1>3. f \in Surjection(D, Indices(s))
  BY <1>1 DEF Surjection, Indices
<1>4. IsFiniteSet(D) /\ Cardinality(D) = Len(s.list)
  BY <1>1, FS_Interval
<1>5. IsFiniteSet(Indices(s)) /\ Cardinality(Indices(s)) <= Len(s.list)
  <2>. HIDE DEF f, D
  <2>. QED BY <1>3, <1>4, FS_Surjection
<1>6. Cardinality(Indices(s)) \in Nat /\ (Cardinality(Indices(s)) = 0 <=> Indices(s) = {})
  BY <1>5, FS_CardinalityType, FS_EmptySet
<1>7. Indices(s) = {} <=> s.list = <<>>
  BY <1>1 DEF Indices
<1>. QED BY <1>1, <1>2, <1>5, <1>6, <1>7

(* Some index is free: there are more numbers than accounts.               *)
LEMMA FreeIndexIs ==
  ASSUME NEW s, Listing(s.list)
  PROVE  NextFreeIndex(s) \in Nat \ Indices(s)
<1>. DEFINE len == Len(s.list)
            free == (0 .. len) \ Indices(s)
<1>1. len \in Nat /\ IsFiniteSet(Indices(s)) /\ Cardinality(Indices(s)) <= len
      /\ Cardinality(Indices(s)) \in Nat
  BY IndicesAre
<1>2. free # {}
  <2>1. IsFiniteSet(0 .. len) /\ Cardinality(0 .. len) = len + 1
    <3>. HIDE DEF len
    <3>1. 0 \in Int /\ len \in Int /\ ~(0 > len) /\ len - 0 + 1 = len + 1
      BY <1>1
    <3>. QED BY <3>1, FS_Interval
  <2>2. SUFFICES ASSUME 0 .. len \subseteq Indices(s) PROVE FALSE
    OBVIOUS
  <2>3. len + 1 <= Cardinality(Indices(s))
    <3>. HIDE DEF len
    <3>. QED BY <1>1, <2>1, <2>2, FS_Subset
  <2>. HIDE DEF len
  <2>. QED BY <1>1, <2>3
<1>3. PICK m \in free : \A i \in free : m <= i
  <2>1. free \in SUBSET Nat
    BY <1>1
  <2>. HIDE DEF free
  <2>. QED BY <1>2, <2>1, LeastIs
<1>4. m \in 0 .. len /\ m \notin Indices(s)
  OBVIOUS
<1>5. 0 .. m - 1 \subseteq Indices(s)
  <2>1. ASSUME NEW i \in 0 .. m - 1, i \notin Indices(s) PROVE FALSE
    <3>1. i \in free /\ i < m
      BY <1>1, <1>4, <2>1
    <3>. HIDE DEF free, len
    <3>. QED BY <1>1, <1>3, <1>4, <3>1
  <2>. QED BY <2>1
<1>. QED BY <1>1, <1>4, <1>5 DEF NextFreeIndex

----------------------------------------------------------------------------
(* The cursor.                                                             *)

Shape ==
  {"list", "row", "index", "network", "changed", "bound", "focus", "mode",
   "recall", "entry", "to", "job", "staged", "detail", "asked", "counted"}

(* The highlight is on a row of the list, if it has any.                   *)
Placed(s) ==
  /\ DOMAIN s = Shape /\ Listing(s.list)
  /\ s.row \in 0 .. Cardinality(Indices(s))
  /\ s.row = 0 <=> s.list = <<>>

Cursor(s) == s.list # <<>> => s.index = SelectedIndex(s)

(* What a handler that only moves in the list leaves alone.                *)
SameElse(t, s) ==
  /\ t.network = s.network /\ t.changed = s.changed /\ t.bound = s.bound
  /\ t.focus = s.focus /\ t.mode = s.mode /\ t.recall = s.recall
  /\ t.entry = s.entry /\ t.to = s.to /\ t.job = s.job /\ t.staged = s.staged
  /\ t.asked = s.asked /\ t.counted = s.counted

LEMMA SelectedIs ==
  ASSUME NEW s, Listing(s.list)
  PROVE  /\ s.row \in 1 .. Cardinality(Indices(s)) =>
              /\ SelectedIndex(s) \in Indices(s) /\ SelectedIndex(s) # None
              /\ RowOf(s, SelectedIndex(s)) = s.row
         /\ s.row = 0 => SelectedIndex(s) = None
         /\ \A i \in Indices(s) : s.row = RowOf(s, i) => SelectedIndex(s) = i
<1>1. Indices(s) \in SUBSET Nat /\ IsFiniteSet(Indices(s))
  BY IndicesAre
<1>2. ASSUME s.row \in 1 .. Cardinality(Indices(s))
      PROVE  \E i \in Indices(s) : RowOf(s, i) = s.row
  BY <1>1, <1>2, RankHits DEF RowOf
<1>3. ASSUME s.row = 0, NEW i \in Indices(s) PROVE RowOf(s, i) # s.row
  <2>1. Rank(Indices(s), i) \in 1 .. Cardinality(Indices(s))
    BY <1>1, RankIn
  <2>. QED BY <1>3, <2>1 DEF RowOf
<1>4. ASSUME NEW i \in Indices(s), s.row = RowOf(s, i)
      PROVE  SelectedIndex(s) = i
  <2>1. SelectedIndex(s) \in Indices(s) /\ RowOf(s, SelectedIndex(s)) = s.row
    BY <1>4 DEF SelectedIndex
  <2>. QED BY <1>1, <1>4, <2>1, RankIsOnes DEF RowOf
<1>. QED BY <1>1, <1>2, <1>3, <1>4, TuiConstants DEF SelectedIndex

LEMMA ReadsTheList ==
  ASSUME NEW s, NEW t, t.list = s.list
  PROVE  /\ Indices(t) = Indices(s) /\ \A i : RowOf(t, i) = RowOf(s, i)
         /\ t.row = s.row => SelectedIndex(t) = SelectedIndex(s)
         /\ t.row = s.row => AccountsAt(t, SelectedIndex(t)) = AccountsAt(s, SelectedIndex(s))
         /\ t.row = s.row /\ t.network = s.network => Current(t) = Current(s)
<1>1. Indices(t) = Indices(s) /\ \A i : RowOf(t, i) = RowOf(s, i)
  BY DEF Indices, RowOf
<1>2. t.row = s.row => SelectedIndex(t) = SelectedIndex(s)
  BY <1>1 DEF SelectedIndex
<1>. QED BY <1>1, <1>2 DEF AccountsAt, Current

LEMMA SelectIndexIs ==
  ASSUME NEW s, DOMAIN s = Shape, Listing(s.list), NEW i
  PROVE  /\ DOMAIN SelectIndex(s, i) = Shape /\ SelectIndex(s, i).list = s.list
         /\ SameElse(SelectIndex(s, i), s)
         /\ i \notin Indices(s) => SelectIndex(s, i) = s
         /\ i \in Indices(s) => /\ SelectIndex(s, i).row \in 1 .. Cardinality(Indices(s))
                               /\ SelectIndex(s, i).index = i
                               /\ SelectedIndex(SelectIndex(s, i)) = i
<1>. PICK t : t = SelectIndex(s, i)
  OBVIOUS
<1>1. DOMAIN t = Shape /\ t.list = s.list /\ SameElse(t, s)
  BY DEF SelectIndex, SameElse, Shape
<1>2. ASSUME i \in Indices(s)
      PROVE  t.row \in 1 .. Cardinality(Indices(s)) /\ t.index = i /\ SelectedIndex(t) = i
  <2>1. t.row = RowOf(s, i) /\ t.index = i
    BY <1>2 DEF SelectIndex, Shape
  <2>2. RowOf(s, i) \in 1 .. Cardinality(Indices(s))
    BY <1>2, IndicesAre, RankIn DEF RowOf
  <2>3. SelectedIndex(t) = i
    BY <1>1, <1>2, <2>1, SelectedIs, ReadsTheList
  <2>. QED BY <2>1, <2>2, <2>3
<1>. QED BY <1>1, <1>2 DEF SelectIndex

LEMMA ClampIs ==
  ASSUME NEW s, DOMAIN s = Shape, Listing(s.list), s.row \in Nat
  PROVE  /\ Placed(ClampSelection(s)) /\ Cursor(ClampSelection(s))
         /\ ClampSelection(s).list = s.list /\ SameElse(ClampSelection(s), s)
         /\ ClampSelection(s).detail = s.detail
<1>. PICK r : r = ClampRow(s)
  OBVIOUS
<1>. PICK t : t = Follow(r)
  OBVIOUS
<1>. PICK rows : rows = Cardinality(Indices(s))
  OBVIOUS
<1>1. rows \in Nat /\ (rows = 0 <=> s.list = <<>>)
  BY IndicesAre
<1>2. DOMAIN r = Shape /\ r.list = s.list /\ SameElse(r, s) /\ r.detail = s.detail
      /\ r.index = s.index
  BY DEF ClampRow, SameElse, Shape
<1>3. r.row = (IF rows = 0 THEN 0
               ELSE IF s.row > rows THEN rows ELSE IF s.row = 0 THEN 1 ELSE s.row)
  BY DEF ClampRow, Shape
<1>4. r.row \in 0 .. rows /\ (r.row = 0 <=> rows = 0)
  BY <1>1, <1>3
<1>5. DOMAIN t = Shape /\ t.list = s.list /\ t.row = r.row /\ SameElse(t, s)
      /\ t.detail = s.detail
      /\ t.index = IF SelectedIndex(r) = None THEN r.index ELSE SelectedIndex(r)
  BY <1>2 DEF Follow, SameElse, Shape
<1>6. Indices(t) = Indices(s) /\ Indices(r) = Indices(s) /\ SelectedIndex(t) = SelectedIndex(r)
  BY <1>2, <1>5, ReadsTheList
<1>7. Placed(t)
  BY <1>1, <1>4, <1>5, <1>6 DEF Placed
<1>8. Cursor(t)
  <2>1. s.list # <<>> => r.row \in 1 .. Cardinality(Indices(r))
    BY <1>1, <1>4, <1>6
  <2>2. s.list # <<>> => SelectedIndex(r) # None
    BY <1>2, <2>1, SelectedIs
  <2>. QED BY <1>5, <1>6, <2>2 DEF Cursor
<1>. QED BY <1>5, <1>7, <1>8 DEF ClampSelection

LEMMA RefreshIs ==
  ASSUME NEW s, Placed(s)
  PROVE  /\ Placed(RefreshDetail(s)) /\ (Cursor(s) => Cursor(RefreshDetail(s)))
         /\ SameElse(RefreshDetail(s), s) /\ RefreshDetail(s).list = s.list
         /\ RefreshDetail(s).row = s.row /\ RefreshDetail(s).index = s.index
<1>. PICK t : t = RefreshDetail(s)
  OBVIOUS
<1>1. DOMAIN t = Shape /\ SameElse(t, s) /\ t.list = s.list /\ t.row = s.row /\ t.index = s.index
  BY DEF RefreshDetail, SameElse, Shape, Placed
<1>2. Indices(t) = Indices(s) /\ SelectedIndex(t) = SelectedIndex(s)
  BY <1>1, ReadsTheList
<1>. QED BY <1>1, <1>2 DEF Placed, Cursor

(* The list read again: the highlight is on a row of it, and the cursor    *)
(* with it.                                                                *)
LEMMA ReloadIs ==
  ASSUME NEW s, DOMAIN s = Shape, NEW l, Listing(l)
  PROVE  /\ Placed(Reload(s, l)) /\ Cursor(Reload(s, l))
         /\ SameElse(Reload(s, l), s) /\ Reload(s, l).list = l
<1>a. PICK keep : keep = IF SelectedIndex(s) = None THEN s.index ELSE SelectedIndex(s)
  OBVIOUS
<1>b. PICK t : t = [s EXCEPT !.list = l, !.row = IF l = <<>> THEN 0 ELSE 1]
  OBVIOUS
<1>c. PICK u : u = SelectIndex(t, keep)
  OBVIOUS
<1>d. PICK v : v = ClampSelection(u)
  OBVIOUS
<1>1. DOMAIN t = Shape /\ t.list = l /\ t.row \in {0, 1} /\ SameElse(t, s)
  BY <1>b DEF SameElse, Shape
<1>2. DOMAIN u = Shape /\ u.list = l /\ SameElse(u, t)
      /\ (u = t \/ u.row \in 1 .. Cardinality(Indices(t)))
  <2>1. DOMAIN t = Shape /\ Listing(t.list)
    BY <1>1
  <2>. QED BY <1>1, <1>c, <2>1, SelectIndexIs
<1>3. u.row \in Nat
  <2>1. Cardinality(Indices(t)) \in Nat
    <3>1. Listing(t.list)
      BY <1>1
    <3>. QED BY <3>1, IndicesAre
  <2>. QED BY <1>1, <1>2, <2>1
<1>4. Placed(v) /\ Cursor(v) /\ v.list = l /\ SameElse(v, u)
  BY <1>2, <1>3, <1>d, ClampIs
<1>5. Reload(s, l) = RefreshDetail(v)
  BY <1>a, <1>b, <1>c, <1>d DEF Reload
<1>6. Placed(RefreshDetail(v)) /\ Cursor(RefreshDetail(v)) /\ SameElse(RefreshDetail(v), v)
      /\ RefreshDetail(v).list = v.list
  BY <1>4, RefreshIs
<1>. QED BY <1>1, <1>2, <1>4, <1>5, <1>6 DEF SameElse

----------------------------------------------------------------------------
(* The inductive invariant.                                                *)

JobShape == {"kind", "account", "to", "network", "event"}
JobsOK(js) ==
  /\ IsList(js)
  /\ \A n \in DOMAIN js :
       /\ DOMAIN js[n] = JobShape
       /\ js[n].event \in {"running", "plan", "balance", "failed", "panicked", "taken"}
       /\ js[n].event = "plan" => js[n].kind = "send"

(* The thread works out the transfer typed last, from the account the      *)
(* screen shows.                                                           *)
FromTheHighlighted(s) ==
  s.asked # None /\ Current(s) # None /\ Current(s).id = s.asked.account
Prepares(j, s) ==
  j.account = s.asked.account /\ j.to = s.asked.to /\ FromTheHighlighted(s)

(* What each mode holds to while it lasts: it takes a key of its own, or   *)
(* the thread's answer, to leave one, and only browsing changes the list,  *)
(* the row or the network.                                                 *)
Screen(s, js) ==
  /\ s.focus \in {"Commands", "Accounts", "Recall"}
  /\ s.changed => s.mode = Browse
  /\ s.job \in Nat /\ (s.job # 0 => s.mode = Busy)
  /\ s.mode = Busy =>
       /\ s.job \in DOMAIN js /\ js[s.job].event # "taken"
       /\ js[s.job].kind = "send" => Prepares(js[s.job], s)
  /\ s.mode = Input("amount") => s.to = s.asked.to /\ FromTheHighlighted(s)
  /\ s.mode = Confirm("send") =>
       /\ s.staged \in DOMAIN js /\ js[s.staged].kind = "send"
       /\ Prepares(js[s.staged], s) /\ s.detail = Detail("plan", s.staged)
  /\ s.mode = Confirm("remove") =>
       s.counted = {a.id : a \in AccountsAt(s, SelectedIndex(s))}

Inv ==
  /\ made \in Nat /\ Listing(accounts)
  /\ JobsOK(jobs)
  /\ Placed(ui) /\ Cursor(ui)
  /\ Screen(ui, jobs)

LEMMA ModesDiffer ==
  /\ Browse # Busy /\ Browse # Closed /\ Busy # Closed
  /\ \A k : /\ Browse # Input(k) /\ Browse # Confirm(k) /\ Busy # Input(k)
            /\ Busy # Confirm(k) /\ Closed # Input(k) /\ Closed # Confirm(k)
  /\ \A j, k : Input(j) # Confirm(k) /\ (Input(j) = Input(k) => j = k)
              /\ (Confirm(j) = Confirm(k) => j = k)
BY DEF Browse, Busy, Closed, Input, Confirm

(* Browsing, nothing is under way.                                         *)
LEMMA BrowsingIs ==
  ASSUME NEW s, s.mode \in {Browse, Closed}, s.job = 0, s.changed => s.mode = Browse,
         s.focus \in {"Commands", "Accounts", "Recall"}
  PROVE  \A js : Screen(s, js)
<1>1. s.mode # Busy /\ \A k : s.mode # Input(k) /\ s.mode # Confirm(k)
  BY ModesDiffer
<1>. QED BY <1>1 DEF Screen

LEMMA ShownIs ==
  ASSUME Placed(ui)
  PROVE  /\ Placed(Shown) /\ (Cursor(ui) => Cursor(Shown))
         /\ Shown.mode = Browse /\ Shown.job = ui.job /\ Shown.changed = ui.changed
         /\ Shown.focus = ui.focus /\ Shown.list = ui.list /\ Shown.row = ui.row
         /\ Shown.network = ui.network
<1>. PICK t : t = Shown
  OBVIOUS
<1>1. /\ DOMAIN t = Shape /\ t.mode = Browse /\ t.job = ui.job /\ t.changed = ui.changed
      /\ t.focus = ui.focus /\ t.list = ui.list /\ t.row = ui.row /\ t.index = ui.index
      /\ t.network = ui.network
  BY DEF Shown, Shape, Placed
<1>2. Indices(t) = Indices(ui) /\ SelectedIndex(t) = SelectedIndex(ui)
  BY <1>1, ReadsTheList
<1>. QED BY <1>1, <1>2 DEF Placed, Cursor

LEMMA LeaveIs ==
  ASSUME Placed(ui), NEW focus
  PROVE  /\ Placed(Leave(focus)) /\ (Cursor(ui) => Cursor(Leave(focus)))
         /\ Leave(focus).mode = ui.mode /\ Leave(focus).job = ui.job
         /\ Leave(focus).changed = ui.changed /\ Leave(focus).focus = focus
<1>. PICK t : t = Leave(focus)
  OBVIOUS
<1>1. /\ DOMAIN t = Shape /\ t.mode = ui.mode /\ t.job = ui.job /\ t.changed = ui.changed
      /\ t.focus = focus /\ t.list = ui.list /\ t.row = ui.row /\ t.index = ui.index
  BY DEF Leave, Shape, Placed
<1>2. Indices(t) = Indices(ui) /\ SelectedIndex(t) = SelectedIndex(ui)
  BY <1>1, ReadsTheList
<1>. QED BY <1>1, <1>2 DEF Placed, Cursor

(* Fields that place nothing.                                              *)
LEMMA KeepsThePlace ==
  ASSUME NEW s, NEW t, Placed(s), DOMAIN t = Shape,
         t.list = s.list, t.row = s.row, t.index = s.index
  PROVE  Placed(t) /\ (Cursor(s) => Cursor(t))
<1>1. Indices(t) = Indices(s) /\ SelectedIndex(t) = SelectedIndex(s)
  BY ReadsTheList
<1>. QED BY <1>1 DEF Placed, Cursor

LEMMA KeepsTheHighlighted ==
  ASSUME NEW s, NEW t, t.list = s.list, t.row = s.row, t.network = s.network,
         t.asked = s.asked
  PROVE  /\ FromTheHighlighted(s) => FromTheHighlighted(t)
         /\ \A j : Prepares(j, s) => Prepares(j, t)
<1>1. Current(t) = Current(s)
  BY ReadsTheList
<1>. QED BY <1>1 DEF FromTheHighlighted, Prepares

LEMMA OpenRecallIs ==
  ASSUME NEW s, Placed(s), NEW l
  PROVE  /\ Placed(OpenRecall(s, l)) /\ (Cursor(s) => Cursor(OpenRecall(s, l)))
         /\ OpenRecall(s, l).mode = s.mode /\ OpenRecall(s, l).job = s.job
         /\ OpenRecall(s, l).changed = s.changed /\ OpenRecall(s, l).focus = "Recall"
<1>. PICK t : t = OpenRecall(s, l)
  OBVIOUS
<1>1. /\ DOMAIN t = Shape /\ t.mode = s.mode /\ t.job = s.job /\ t.changed = s.changed
      /\ t.focus = "Recall" /\ t.list = s.list /\ t.row = s.row /\ t.index = s.index
  BY DEF OpenRecall, RefreshRecallDetail, Shape, Placed
<1>2. Placed(t) /\ (Cursor(s) => Cursor(t))
  BY <1>1, KeepsThePlace
<1>. QED BY <1>1, <1>2

(* The arrows.                                                             *)
LEMMA AfterMoveIs ==
  ASSUME NEW s, Placed(s), Cursor(s), NEW by \in {1, -1},
         s.focus \in {"Commands", "Accounts", "Recall"}
  PROVE  LET t == AfterMove(MoveSelection(s, by)) IN
         /\ Placed(t) /\ Cursor(t)
         /\ t.mode = s.mode /\ t.job = s.job /\ t.changed = s.changed /\ t.focus = s.focus
<1>a. PICK m : m = MoveSelection(s, by)
  OBVIOUS
<1>b. PICK t : t = Follow(m)
  OBVIOUS
<1>c. PICK len : len = Cardinality(Indices(s))
  OBVIOUS
<1>1. len \in Nat /\ (len = 0 <=> s.list = <<>>) /\ s.row \in 0 .. len
  BY <1>c, IndicesAre DEF Placed
<1>2. /\ DOMAIN m = Shape /\ m.list = s.list /\ m.index = s.index /\ m.mode = s.mode
      /\ m.job = s.job /\ m.changed = s.changed /\ m.focus = s.focus
      /\ \/ m.row = s.row
         \/ m.row = IF len = 0 THEN s.row
                    ELSE 1 + (((IF s.row = 0 THEN 0 ELSE s.row - 1) + by) % len)
  <2>1. CASE s.focus = "Accounts"
    BY <1>a, <1>c, <2>1 DEF MoveSelection, Move, Shape, Placed
  <2>2. CASE s.focus = "Recall"
    BY <1>a, <2>2 DEF MoveSelection, Move, Shape, Placed
  <2>3. CASE s.focus = "Commands"
    BY <1>a, <2>3 DEF MoveSelection, Move, Shape, Placed
  <2>. QED BY <2>1, <2>2, <2>3
<1>3. m.row \in 0 .. len /\ (m.row = 0 <=> len = 0)
  <2>1. s.row = 0 <=> len = 0
    BY <1>1 DEF Placed
  <2>2. \A n \in Nat : n # 0 => (\A i \in Int : i % n \in 0 .. n - 1)
    OBVIOUS
  <2>a. PICK at : at = (IF s.row = 0 THEN 0 ELSE s.row - 1) + by
    OBVIOUS
  <2>3. at \in Int
    BY <1>1, <2>a
  <2>4. CASE len = 0
    BY <1>1, <1>2, <2>1, <2>4
  <2>5. CASE len # 0
    <3>1. at % len \in 0 .. len - 1
      BY <1>1, <2>2, <2>3, <2>5
    <3>2. m.row = s.row \/ m.row = 1 + (at % len)
      BY <1>2, <2>5, <2>a
    <3>3. \A k \in 0 .. len - 1 : 1 + k \in 0 .. len /\ 1 + k # 0
      BY <1>1
    <3>. QED BY <1>1, <2>1, <2>5, <3>1, <3>2, <3>3
  <2>. QED BY <2>4, <2>5
<1>4. Listing(m.list) /\ Indices(m) = Indices(s)
  BY <1>2, ReadsTheList DEF Placed
<1>5. Placed(m)
  BY <1>1, <1>2, <1>3, <1>4, <1>c DEF Placed
<1>6. /\ DOMAIN t = Shape /\ t.list = m.list /\ t.row = m.row /\ t.mode = s.mode
      /\ t.job = s.job /\ t.changed = s.changed /\ t.focus = s.focus
      /\ t.index = IF SelectedIndex(m) = None THEN m.index ELSE SelectedIndex(m)
  BY <1>b, <1>2 DEF Follow, Shape
<1>7. Indices(t) = Indices(m) /\ SelectedIndex(t) = SelectedIndex(m)
  BY <1>6, ReadsTheList
<1>8. Placed(t)
  BY <1>5, <1>6, <1>7 DEF Placed
<1>9. Cursor(t)
  <2>1. m.list # <<>> => m.row \in 1 .. Cardinality(Indices(m))
    BY <1>1, <1>2, <1>3, <1>4, <1>c
  <2>2. m.list # <<>> => SelectedIndex(m) # None
    BY <1>4, <2>1, SelectedIs
  <2>. QED BY <1>6, <1>7, <2>2 DEF Cursor
<1>10. AfterMove(m) = RefreshDetail(t)
  BY <1>b DEF AfterMove
<1>11. Placed(RefreshDetail(t)) /\ Cursor(RefreshDetail(t)) /\ SameElse(RefreshDetail(t), t)
  BY <1>8, <1>9, RefreshIs
<1>. QED BY <1>6, <1>10, <1>11, <1>a DEF SameElse

----------------------------------------------------------------------------
(* The store.                                                              *)

LEMMA JoinedIs ==
  ASSUME NEW l, Listing(l), NEW m, Listing(m)
  PROVE  /\ Listing(l \o m)
         /\ \A a \in Range(l \o m) : a \in Range(l) \/ a \in Range(m)
         /\ Range(l) \subseteq Range(l \o m)
<1>a. PICK u : u = l \o m
  OBVIOUS
<1>. DEFINE S == Range(l) \cup Range(m)
<1>1. l \in Seq(S) /\ m \in Seq(S) /\ Len(l) \in Nat /\ Len(m) \in Nat
      /\ DOMAIN l = 1 .. Len(l) /\ DOMAIN m = 1 .. Len(m)
  BY ListIs, SeqDef DEF Listing, IsList
<1>2. u \in Seq(S) /\ Len(u) = Len(l) + Len(m)
  BY <1>1, <1>a
<1>3. \A k \in 1 .. Len(l) : k \in DOMAIN u /\ u[k] = l[k]
  BY <1>1, <1>2, <1>a
<1>4. ASSUME NEW k \in DOMAIN u
      PROVE  (k \in DOMAIN l /\ u[k] = l[k]) \/ (k - Len(l) \in DOMAIN m /\ u[k] = m[k - Len(l)])
  <2>. HIDE DEF S
  <2>1. k \in 1 .. Len(l) + Len(m)
    BY <1>1, <1>2
  <2>. QED BY <1>1, <1>3, <1>a, <2>1
<1>5. IsList(u)
  BY <1>2, ListsOf
<1>6. Listing(u)
  BY <1>4, <1>5 DEF Listing
<1>7. \A a \in Range(u) : a \in Range(l) \/ a \in Range(m)
  BY <1>4 DEF Range
<1>8. Range(l) \subseteq Range(u)
  BY <1>1, <1>3 DEF Range
<1>. QED BY <1>6, <1>7, <1>8, <1>a

(* Accounts put at the end have the index asked for.                       *)
LEMMA CreateIs ==
  ASSUME made \in Nat, Listing(accounts), NEW source, NEW index \in Nat \cup {None},
         NEW chains, IsList(chains), Create(source, index, chains)
  PROVE  /\ made' \in Nat /\ Listing(accounts')
         /\ \A a \in Range(accounts') \ Range(accounts) : a.index = index
<1>a. PICK new : new = NewAccounts(source, index, chains)
  OBVIOUS
<1>1. Len(chains) \in Nat /\ DOMAIN chains = 1 .. Len(chains)
  BY ListIs
<1>2. /\ new = [n \in 1 .. Len(chains) |-> new[n]]
      /\ \A n \in 1 .. Len(chains) : new[n].id = made + n /\ new[n].index = index
  BY <1>a, <1>1 DEF NewAccounts
<1>3. new \in Seq({new[n] : n \in 1 .. Len(chains)}) /\ Len(new) = Len(chains)
  BY <1>1, <1>2, SeqDef
<1>4. Listing(new) /\ \A a \in Range(new) : a.index = index
  <2>1. IsList(new) /\ DOMAIN new = 1 .. Len(chains)
    BY <1>2, <1>3, ListsOf
  <2>2. \A n \in 1 .. Len(chains) : made + n \in Nat
    BY <1>1
  <2>. QED BY <1>2, <2>1, <2>2 DEF Listing, Range
<1>5. made' = made + Len(new) /\ accounts' = accounts \o new
  BY <1>a DEF Create, Add
<1>6. made' \in Nat
  BY <1>1, <1>3, <1>5
<1>. QED BY <1>4, <1>5, <1>6, JoinedIs

LEMMA DeleteIs ==
  ASSUME Listing(accounts), NEW ids, NEW noted, DeleteNoting(ids, noted)
  PROVE  /\ Listing(accounts') /\ made' = made
         /\ \A a \in Range(accounts) \ Range(accounts') : a.id \in ids
<1>a. PICK K : K = {n \in DOMAIN accounts : accounts[n].id \notin ids}
  OBVIOUS
<1>b. PICK u : u = Sifted(accounts, K)
  OBVIOUS
<1>1. accounts' = u /\ made' = made
  BY <1>a, <1>b DEF DeleteNoting, Left
<1>2. K \in SUBSET DOMAIN accounts
  BY <1>a
<1>3. /\ IsList(u) /\ \A k \in K : Rank(K, k) \in DOMAIN u /\ u[Rank(K, k)] = accounts[k]
      /\ \A n \in DOMAIN u : \E k \in K : u[n] = accounts[k]
  BY <1>b, <1>2, SiftedIs DEF Listing
<1>4. Listing(u)
  BY <1>2, <1>3 DEF Listing
<1>5. ASSUME NEW a \in Range(accounts), a.id \notin ids PROVE a \in Range(u)
  <2>1. PICK k \in DOMAIN accounts : accounts[k] = a
    BY DEF Range
  <2>2. k \in K
    BY <1>5, <1>a, <2>1
  <2>. QED BY <1>3, <2>1, <2>2 DEF Range
<1>. QED BY <1>1, <1>4, <1>5

LEMMA StoreCounts == \A S : Store!Cardinality(S) = Cardinality(S)
BY DEF Store!Cardinality, Cardinality

(* The accounts a move to another chain brings.                            *)
LEMMA OtherNetworkIs ==
  ASSUME made \in Nat, Listing(accounts), OtherNetwork
  PROVE  made' \in Nat /\ Listing(accounts')
<1>0. PICK n \in Network : \E owed \in Store!Missing(ChainOfNetwork[n]) :
        LET new == [i \in DOMAIN owed |->
                      [id |-> made + i, chain |-> ChainOfNetwork[n], source |-> owed[i].source,
                       index |-> owed[i].index, plain |-> TRUE]]
        IN  made' = made + Len(new) /\ accounts' = accounts \o new
  BY DEF OtherNetwork
<1>1. PICK owed \in Store!Missing(ChainOfNetwork[n]) :
        LET new == [i \in DOMAIN owed |->
                      [id |-> made + i, chain |-> ChainOfNetwork[n], source |-> owed[i].source,
                       index |-> owed[i].index, plain |-> TRUE]]
        IN  made' = made + Len(new) /\ accounts' = accounts \o new
  BY <1>0
<1>a. PICK new : new = [i \in DOMAIN owed |->
                      [id |-> made + i, chain |-> ChainOfNetwork[n], source |-> owed[i].source,
                       index |-> owed[i].index, plain |-> TRUE]]
  OBVIOUS
<1>b. PICK S : S = Store!Owed(ChainOfNetwork[n])
  OBVIOUS
<1>2. PICK f \in [1 .. Cardinality(S) -> S] :
        owed = [m \in DOMAIN f |-> accounts[f[m]]]
  <2>1. PICK f \in Store!InTurn(S) : owed = [m \in DOMAIN f |-> accounts[f[m]]]
    BY <1>b DEF Store!Missing
  <2>2. f \in [1 .. Cardinality(S) -> S]
    BY <2>1, StoreCounts DEF Store!InTurn
  <2>. QED BY <2>1, <2>2
<1>3. S \subseteq DOMAIN accounts /\ Cardinality(S) \in Nat
  <2>1. S \subseteq DOMAIN accounts
    BY <1>b DEF Store!Owed
  <2>2. DOMAIN accounts = 1 .. Len(accounts) /\ Len(accounts) \in Nat
    BY ListIs DEF Listing
  <2>3. IsFiniteSet(1 .. Len(accounts))
    BY <2>2, FS_Interval
  <2>. QED BY <2>1, <2>2, <2>3, FS_Subset, FS_CardinalityType
<1>4. /\ new = [m \in 1 .. Cardinality(S) |-> new[m]]
      /\ \A m \in 1 .. Cardinality(S) :
           new[m].id = made + m /\ new[m].index = accounts[f[m]].index /\ f[m] \in DOMAIN accounts
  BY <1>2, <1>3, <1>a
<1>5. new \in Seq({new[m] : m \in 1 .. Cardinality(S)}) /\ Len(new) = Cardinality(S)
  BY <1>3, <1>4, SeqDef
<1>6. Listing(new)
  <2>1. IsList(new) /\ DOMAIN new = 1 .. Cardinality(S)
    BY <1>4, <1>5, ListsOf
  <2>2. \A m \in 1 .. Cardinality(S) : made + m \in Nat
    BY <1>3
  <2>. QED BY <1>4, <2>1, <2>2 DEF Listing
<1>7. made' = made + Len(new) /\ accounts' = accounts \o new
  BY <1>1, <1>a
<1>. QED BY <1>3, <1>5, <1>6, <1>7, JoinedIs

LEMMA StartedIs ==
  ASSUME Listing(accounts), NEW o
  PROVE  /\ Placed(Started(o)) /\ Cursor(Started(o))
         /\ Started(o).mode = Browse /\ Started(o).job = 0 /\ ~Started(o).changed
         /\ Started(o).focus = "Commands"
<1>a. PICK i : i = IF Store!ActiveAccount = None \/ Store!ActiveAccount \notin Store!Ids THEN 0
                  ELSE IndexOf(Store!AccountOf(Store!ActiveAccount))
  OBVIOUS
<1>b. PICK s : s = [list |-> accounts, row |-> IF accounts = <<>> THEN 0 ELSE 1,
            index |-> 0, network |-> Store!SelectedNetwork, changed |-> FALSE,
            bound |-> IF o = None THEN Store!SelectedNetwork
                      ELSE o,
            focus |-> "Commands", mode |-> Browse, recall |-> <<>>,
            entry |-> 0, to |-> None, job |-> 0, staged |-> 0,
            detail |-> Detail("nothing", None), asked |-> None, counted |-> {}]
  OBVIOUS
<1>c. PICK u : u = SelectIndex(s, i)
  OBVIOUS
<1>d. PICK v : v = ClampSelection(u)
  OBVIOUS
<1>1. DOMAIN s = Shape /\ Listing(s.list) /\ s.row \in {0, 1} /\ s.mode = Browse
      /\ s.job = 0 /\ ~s.changed /\ s.focus = "Commands"
  BY <1>b DEF Shape
<1>2. DOMAIN u = Shape /\ u.list = s.list /\ SameElse(u, s)
      /\ (u = s \/ u.row \in 1 .. Cardinality(Indices(s)))
  BY <1>1, <1>c, SelectIndexIs
<1>3. u.row \in Nat
  <2>1. Cardinality(Indices(s)) \in Nat
    BY <1>1, IndicesAre
  <2>. QED BY <1>1, <1>2, <2>1
<1>4. Placed(v) /\ Cursor(v) /\ SameElse(v, u)
  BY <1>1, <1>2, <1>3, <1>d, ClampIs
<1>5. Started(o) = RefreshDetail(v)
  BY <1>a, <1>b, <1>c, <1>d DEF Started
<1>6. Placed(RefreshDetail(v)) /\ Cursor(RefreshDetail(v)) /\ SameElse(RefreshDetail(v), v)
  BY <1>4, RefreshIs
<1>. QED BY <1>1, <1>2, <1>4, <1>5, <1>6 DEF SameElse

----------------------------------------------------------------------------
(* Steps that end in browsing.                                             *)

LEMMA BrowseStep ==
  ASSUME made' \in Nat, Listing(accounts'), JobsOK(jobs'), Placed(ui'), Cursor(ui'),
         ui'.mode \in {Browse, Closed}, ui'.job = 0, ui'.changed => ui'.mode = Browse,
         ui'.focus \in {"Commands", "Accounts", "Recall"}
  PROVE  Inv'
<1>1. Screen(ui', jobs')
  BY BrowsingIs
<1>. QED BY <1>1 DEF Inv

LEMMA InIs ==
  ASSUME Inv, NEW m, In(m)
  PROVE  /\ ui.mode = m /\ ~ui.changed /\ (m # Busy => ui.job = 0)
         /\ Placed(ui) /\ Cursor(ui) /\ JobsOK(jobs) /\ Listing(accounts)
         /\ made \in Nat /\ ui.focus \in {"Commands", "Accounts", "Recall"}
BY DEF Inv, In, Screen

(* A handler that touches the screen only, and ends in browsing.           *)
LEMMA ShowStep ==
  ASSUME Inv, NEW s, Show(s), Placed(s), Cursor(s), s.mode = Browse, s.job = 0,
         s.focus \in {"Commands", "Accounts", "Recall"}
  PROVE  Inv'
<1>1. made' \in Nat /\ Listing(accounts') /\ JobsOK(jobs') /\ ui' = s
  BY DEF Show, StoreSame, Inv
<1>. QED BY <1>1, BrowseStep

LEMMA KeyMoveStep == Inv /\ KeyMove => Inv'
<1>. SUFFICES ASSUME Inv, KeyMove PROVE Inv'
  OBVIOUS
<1>1. In(Browse)
  BY DEF KeyMove
<1>2. PICK by \in {1, -1} : Show(AfterMove(MoveSelection(ui, by)))
  BY DEF KeyMove
<1>a. PICK t : t = AfterMove(MoveSelection(ui, by))
  OBVIOUS
<1>3. ui.mode = Browse /\ ui.job = 0 /\ Placed(ui) /\ Cursor(ui)
      /\ ui.focus \in {"Commands", "Accounts", "Recall"}
  BY <1>1, InIs, ModesDiffer
<1>4. Placed(t) /\ Cursor(t) /\ t.mode = ui.mode /\ t.job = ui.job /\ t.focus = ui.focus
  BY <1>3, <1>a, AfterMoveIs
<1>. QED BY <1>2, <1>3, <1>4, <1>a, ShowStep

LEMMA KeyTabStep == Inv /\ KeyTab => Inv'
<1>. SUFFICES ASSUME Inv, KeyTab PROVE Inv'
  OBVIOUS
<1>1. ui.mode = Browse /\ ui.job = 0 /\ Placed(ui) /\ Cursor(ui)
  BY InIs, ModesDiffer DEF KeyTab
<1>2. \/ Show(RefreshDetail(Leave("Accounts")))
      \/ Show(Leave("Commands"))
  BY DEF KeyTab
<1>3. \A f : Placed(Leave(f)) /\ Cursor(Leave(f)) /\ Leave(f).mode = Browse
             /\ Leave(f).job = 0 /\ Leave(f).focus = f
  BY <1>1, LeaveIs
<1>a. PICK t : t = RefreshDetail(Leave("Accounts"))
  OBVIOUS
<1>4. Placed(t) /\ Cursor(t) /\ t.mode = Browse /\ t.job = 0 /\ t.focus = "Accounts"
  BY <1>3, <1>a, RefreshIs DEF SameElse
<1>. QED BY <1>2, <1>3, <1>4, <1>a, ShowStep

LEMMA ShownStep ==
  ASSUME Inv, ui.job = 0, Show(Shown)
  PROVE  Inv'
<1>1. Placed(ui) /\ Cursor(ui) /\ ui.focus \in {"Commands", "Accounts", "Recall"}
  BY DEF Inv, Screen
<1>2. Placed(Shown) /\ Cursor(Shown) /\ Shown.mode = Browse /\ Shown.job = 0
      /\ Shown.focus \in {"Commands", "Accounts", "Recall"}
  BY <1>1, ShownIs
<1>. QED BY <1>2, ShowStep

LEMMA KeyEscapeStep == Inv /\ KeyEscape => Inv'
<1>. SUFFICES ASSUME Inv, KeyEscape PROVE Inv'
  OBVIOUS
<1>1. CASE In(Browse) /\ Show(RefreshDetail(Leave("Accounts")))
  <2>1. ui.mode = Browse /\ ui.job = 0 /\ Placed(ui) /\ Cursor(ui)
    BY <1>1, InIs, ModesDiffer
  <2>2. Placed(Leave("Accounts")) /\ Cursor(Leave("Accounts")) /\ Leave("Accounts").mode = Browse
        /\ Leave("Accounts").job = 0 /\ Leave("Accounts").focus = "Accounts"
    BY <2>1, LeaveIs
  <2>a. PICK t : t = RefreshDetail(Leave("Accounts"))
    OBVIOUS
  <2>3. Placed(t) /\ Cursor(t) /\ t.mode = Browse /\ t.job = 0 /\ t.focus = "Accounts"
    BY <2>2, <2>a, RefreshIs DEF SameElse
  <2>. QED BY <1>1, <2>3, <2>a, ShowStep
<1>2. CASE (\E k \in Keys \cup {"amount"} : In(Input(k))) /\ Show(Shown)
  <2>1. ui.job = 0
    BY <1>2, InIs, ModesDiffer
  <2>. QED BY <1>2, <2>1, ShownStep
<1>. QED BY <1>1, <1>2 DEF KeyEscape

LEMMA AbandonStep == Inv /\ Abandon => Inv'
<1>. SUFFICES ASSUME Inv, Abandon PROVE Inv'
  OBVIOUS
<1>a. PICK t : t = [Shown EXCEPT !.job = 0]
  OBVIOUS
<1>1. Show(t) /\ Placed(ui) /\ Cursor(ui) /\ ui.focus \in {"Commands", "Accounts", "Recall"}
  BY <1>a, InIs DEF Abandon
<1>b. PICK s : s = Shown
  OBVIOUS
<1>2. Placed(s) /\ Cursor(s) /\ s.mode = Browse /\ s.focus = ui.focus
  BY <1>1, <1>b, ShownIs
<1>3. DOMAIN t = Shape /\ t.list = s.list /\ t.row = s.row /\ t.index = s.index
      /\ t.mode = Browse /\ t.job = 0 /\ t.focus = ui.focus
  BY <1>a, <1>b, <1>2 DEF Placed, Shape
<1>4. Placed(t) /\ Cursor(t)
  BY <1>2, <1>3, KeepsThePlace
<1>. QED BY <1>1, <1>3, <1>4, ShowStep

(* Shown again, with fields that place nothing changed.                    *)
LEMMA ShownWith ==
  ASSUME Inv, ui.job = 0, NEW t, DOMAIN t = Shape, t.list = Shown.list, t.row = Shown.row,
         t.index = Shown.index, t.mode = Browse, t.job = Shown.job, t.focus = Shown.focus
  PROVE  /\ Placed(t) /\ Cursor(t) /\ t.job = 0
         /\ t.focus \in {"Commands", "Accounts", "Recall"}
<1>1. Placed(ui) /\ Cursor(ui) /\ ui.focus \in {"Commands", "Accounts", "Recall"}
  BY DEF Inv, Screen
<1>b. PICK s : s = Shown
  OBVIOUS
<1>2. Placed(s) /\ Cursor(s) /\ s.focus = ui.focus /\ s.job = 0
  BY <1>1, <1>b, ShownIs
<1>3. Placed(t) /\ Cursor(t)
  BY <1>2, <1>b, KeepsThePlace
<1>. QED BY <1>1, <1>2, <1>3, <1>b

LEMMA DeclineStep == Inv /\ Decline => Inv'
<1>. SUFFICES ASSUME Inv, Decline PROVE Inv'
  OBVIOUS
<1>a. PICK t : t = [Shown EXCEPT !.staged = 0]
  OBVIOUS
<1>1. Show(t) /\ ui.job = 0 /\ Placed(ui)
  BY <1>a, InIs, ModesDiffer DEF Decline
<1>2. Placed(Shown) /\ Shown.mode = Browse
  BY <1>1, ShownIs
<1>3. DOMAIN t = Shape /\ t.list = Shown.list /\ t.row = Shown.row /\ t.index = Shown.index
      /\ t.mode = Browse /\ t.job = Shown.job /\ t.focus = Shown.focus
  BY <1>a, <1>2 DEF Placed, Shape
<1>. QED BY <1>1, <1>3, ShownWith, ShowStep

LEMMA BroadcastStep == Inv /\ Broadcast => Inv'
<1>. SUFFICES ASSUME Inv, Broadcast PROVE Inv'
  OBVIOUS
<1>1. PICK d : Show([Shown EXCEPT !.staged = 0, !.detail = d])
  BY DEF Broadcast
<1>a. PICK t : t = [Shown EXCEPT !.staged = 0, !.detail = d]
  OBVIOUS
<1>2. Show(t) /\ ui.job = 0 /\ Placed(ui)
  BY <1>1, <1>a, InIs, ModesDiffer DEF Broadcast
<1>3. Placed(Shown) /\ Shown.mode = Browse
  BY <1>2, ShownIs
<1>4. DOMAIN t = Shape /\ t.list = Shown.list /\ t.row = Shown.row /\ t.index = Shown.index
      /\ t.mode = Browse /\ t.job = Shown.job /\ t.focus = Shown.focus
  BY <1>a, <1>3 DEF Placed, Shape
<1>. QED BY <1>2, <1>4, ShownWith, ShowStep

LEMMA ChooseReloadStep == Inv /\ ChooseReload => Inv'
<1>. SUFFICES ASSUME Inv, ChooseReload PROVE Inv'
  OBVIOUS
<1>1. ui.job = 0 /\ Placed(ui) /\ Listing(accounts) /\ ui.focus \in {"Commands", "Accounts", "Recall"}
  BY InIs, ModesDiffer DEF ChooseReload, Chosen
<1>b. PICK s : s = Shown
  OBVIOUS
<1>2. DOMAIN s = Shape /\ s.mode = Browse /\ s.job = 0 /\ s.focus = ui.focus
  BY <1>1, <1>b, ShownIs DEF Placed
<1>a. PICK t : t = Reload(s, accounts)
  OBVIOUS
<1>3. Placed(t) /\ Cursor(t) /\ SameElse(t, s)
  BY <1>1, <1>2, <1>a, ReloadIs
<1>4. t.mode = Browse /\ t.job = 0 /\ t.focus \in {"Commands", "Accounts", "Recall"}
  BY <1>1, <1>2, <1>3 DEF SameElse
<1>5. Show(t)
  BY <1>a, <1>b DEF ChooseReload
<1>. QED BY <1>3, <1>4, <1>5, ShowStep

LEMMA ToggleSecretsStep == Inv /\ ToggleSecrets => Inv'
<1>. SUFFICES ASSUME Inv, ToggleSecrets PROVE Inv'
  OBVIOUS
<1>1. ui.job = 0 /\ ui.mode = Browse /\ Placed(ui) /\ Cursor(ui)
      /\ ui.focus \in {"Commands", "Accounts", "Recall"}
  BY InIs, ModesDiffer DEF ToggleSecrets, Chosen
<1>2. PICK t : t \in {RefreshRecallDetail(ui), RefreshDetail(ui)} /\ Show(t)
  BY DEF ToggleSecrets
<1>3. DOMAIN t = Shape /\ t.list = ui.list /\ t.row = ui.row /\ t.index = ui.index
      /\ t.mode = ui.mode /\ t.job = ui.job /\ t.focus = ui.focus
  BY <1>1, <1>2 DEF RefreshRecallDetail, RefreshDetail, Placed, Shape
<1>4. Placed(t) /\ Cursor(t)
  BY <1>1, <1>3, KeepsThePlace
<1>. QED BY <1>1, <1>2, <1>3, <1>4, ShowStep

LEMMA ChooseRecallStep == Inv /\ ChooseRecall => Inv'
<1>. SUFFICES ASSUME Inv, ChooseRecall PROVE Inv'
  OBVIOUS
<1>1. ui.job = 0 /\ Placed(ui) /\ Cursor(ui)
  BY InIs, ModesDiffer DEF ChooseRecall, Chosen
<1>b. PICK s : s = Shown
  OBVIOUS
<1>2. Placed(s) /\ Cursor(s) /\ s.mode = Browse /\ s.job = 0
  BY <1>1, <1>b, ShownIs
<1>a. PICK t : t = OpenRecall(s, recent)
  OBVIOUS
<1>3. Placed(t) /\ Cursor(t) /\ t.mode = Browse /\ t.job = 0 /\ t.focus = "Recall"
  BY <1>2, <1>a, OpenRecallIs
<1>4. Show(t)
  BY <1>a, <1>b DEF ChooseRecall
<1>. QED BY <1>3, <1>4, ShowStep

LEMMA ForgetSelectedRecallStep == Inv /\ ForgetSelectedRecall => Inv'
<1>. SUFFICES ASSUME Inv, ForgetSelectedRecall PROVE Inv'
  OBVIOUS
<1>1. ui.job = 0 /\ ~ui.changed /\ Placed(ui) /\ Cursor(ui)
  BY InIs, ModesDiffer DEF ForgetSelectedRecall, Chosen
<1>b. PICK s : s = Shown
  OBVIOUS
<1>2. Placed(s) /\ Cursor(s) /\ s.mode = Browse /\ s.job = 0
  BY <1>1, <1>b, ShownIs
<1>c. PICK l : l = recent'
  OBVIOUS
<1>a. PICK t : t = OpenRecall(s, l)
  OBVIOUS
<1>3. Placed(t) /\ Cursor(t) /\ t.mode = Browse /\ t.job = 0 /\ t.focus = "Recall"
  BY <1>2, <1>a, OpenRecallIs
<1>4. ui' = t /\ made' \in Nat /\ Listing(accounts') /\ JobsOK(jobs')
  BY <1>a, <1>b, <1>c DEF ForgetSelectedRecall, Inv
<1>. QED BY <1>3, <1>4, BrowseStep

(* Accounts are added or taken, and the list read again.                   *)
LEMMA ReloadStep ==
  ASSUME Inv, ui.job = 0, made' \in Nat, Listing(accounts'), UNCHANGED jobs,
         ui' = Reload(Shown, accounts')
  PROVE  Inv'
<1>1. Placed(ui) /\ JobsOK(jobs') /\ ui.focus \in {"Commands", "Accounts", "Recall"}
  BY DEF Inv, Screen
<1>b. PICK s : s = Shown
  OBVIOUS
<1>2. DOMAIN s = Shape /\ s.mode = Browse /\ s.job = 0 /\ s.focus = ui.focus
  BY <1>1, <1>b, ShownIs DEF Placed
<1>c. PICK l : l = accounts'
  OBVIOUS
<1>a. PICK t : t = Reload(s, l)
  OBVIOUS
<1>3. Placed(t) /\ Cursor(t) /\ SameElse(t, s)
  BY <1>1, <1>2, <1>a, <1>c, ReloadIs
<1>4. t.mode = Browse /\ t.job = 0 /\ t.focus \in {"Commands", "Accounts", "Recall"}
  BY <1>1, <1>2, <1>3 DEF SameElse
<1>5. ui' = t
  BY <1>a, <1>b, <1>c
<1>. QED BY <1>1, <1>3, <1>4, <1>5, BrowseStep

LEMMA ChainsAre ==
  IsList(ChainList) /\ \A c : IsList(<<c>>)
<1>1. IsList(ChainList)
  BY TuiConstants, ListsOf
<1>2. ASSUME NEW c PROVE IsList(<<c>>)
  <2>1. <<c>> \in Seq({c})
    OBVIOUS
  <2>. QED BY <2>1, ListsOf
<1>. QED BY <1>1, <1>2

LEMMA SubmitLabelStep == Inv /\ SubmitLabel => Inv'
<1>. SUFFICES ASSUME Inv, SubmitLabel PROVE Inv'
  OBVIOUS
<1>1. ui.job = 0 /\ made \in Nat /\ Listing(accounts)
  BY InIs, ModesDiffer DEF SubmitLabel
<1>2. PICK p : Create(p, 0, <<ChainOfNetwork[ui.bound]>>)
  BY DEF SubmitLabel
<1>3. made' \in Nat /\ Listing(accounts')
  BY <1>1, <1>2, ChainsAre, CreateIs
<1>. QED BY <1>1, <1>3, ReloadStep DEF SubmitLabel

LEMMA ImportIs ==
  ASSUME made \in Nat, Listing(accounts), NEW secret, Import(secret)
  PROVE  made' \in Nat /\ Listing(accounts')
<1>1. CASE secret \in Phrase
  <2>1. Create(secret, 0, ChainList)
    BY <1>1 DEF Import
  <2>. QED BY <2>1, ChainsAre, CreateIs
<1>2. CASE secret \notin Phrase
  <2>1. Create(secret, None, <<ChainOfNetwork[ui.bound]>>)
    BY <1>2 DEF Import
  <2>. QED BY <2>1, ChainsAre, CreateIs
<1>. QED BY <1>1, <1>2

LEMMA SubmitSecretStep == Inv /\ SubmitSecret => Inv'
<1>. SUFFICES ASSUME Inv, SubmitSecret PROVE Inv'
  OBVIOUS
<1>1. ui.job = 0 /\ made \in Nat /\ Listing(accounts)
  BY InIs, ModesDiffer DEF SubmitSecret
<1>2. PICK p : Import(p)
  BY DEF SubmitSecret
<1>3. made' \in Nat /\ Listing(accounts')
  BY <1>1, <1>2, ImportIs
<1>. QED BY <1>1, <1>3, ReloadStep DEF SubmitSecret

LEMMA ImportSelectedRecallStep == Inv /\ ImportSelectedRecall => Inv'
<1>. SUFFICES ASSUME Inv, ImportSelectedRecall PROVE Inv'
  OBVIOUS
<1>1. ui.job = 0 /\ ui.mode = Browse /\ made \in Nat /\ Listing(accounts) /\ Placed(ui)
      /\ JobsOK(jobs)
  BY InIs, ModesDiffer DEF ImportSelectedRecall
<1>2. made' \in Nat /\ Listing(accounts')
  BY <1>1, ImportIs DEF ImportSelectedRecall
<1>b. PICK s : s = Leave("Accounts")
  OBVIOUS
<1>3. DOMAIN s = Shape /\ s.mode = Browse /\ s.job = 0 /\ s.focus = "Accounts"
  BY <1>1, <1>b, LeaveIs DEF Placed
<1>c. PICK l : l = accounts'
  OBVIOUS
<1>a. PICK t : t = Reload(s, l)
  OBVIOUS
<1>4. Placed(t) /\ Cursor(t) /\ SameElse(t, s)
  BY <1>2, <1>3, <1>a, <1>c, ReloadIs
<1>5. t.mode = Browse /\ t.job = 0 /\ t.focus = "Accounts"
  BY <1>3, <1>4 DEF SameElse
<1>6. ui' = t /\ JobsOK(jobs')
  BY <1>1, <1>a, <1>b, <1>c DEF ImportSelectedRecall
<1>. QED BY <1>2, <1>4, <1>5, <1>6, BrowseStep

LEMMA SubmitIndexStep == Inv /\ SubmitIndex => Inv'
<1>. SUFFICES ASSUME Inv, SubmitIndex PROVE Inv'
  OBVIOUS
<1>1. ui.job = 0 /\ made \in Nat /\ Listing(accounts)
  BY InIs, ModesDiffer DEF SubmitIndex
<1>2. PICK i \in Index : Create(Current(ui).source, i, ChainList)
  BY DEF SubmitIndex
<1>3. made' \in Nat /\ Listing(accounts')
  BY <1>1, <1>2, TuiConstants, ChainsAre, CreateIs
<1>. QED BY <1>1, <1>3, ReloadStep DEF SubmitIndex

LEMMA RemoveWalletStep == Inv /\ RemoveWallet => Inv'
<1>. SUFFICES ASSUME Inv, RemoveWallet PROVE Inv'
  OBVIOUS
<1>1. ui.job = 0 /\ made \in Nat /\ Listing(accounts)
  BY InIs, ModesDiffer DEF RemoveWallet
<1>2. PICK ids, noted : DeleteNoting(ids, noted)
  BY DEF RemoveWallet, Delete
<1>3. made' \in Nat /\ Listing(accounts')
  BY <1>1, <1>2, DeleteIs
<1>. QED BY <1>1, <1>3, ReloadStep DEF RemoveWallet

LEMMA ChooseNewWalletStep == Inv /\ ChooseNewWallet => Inv'
<1>. SUFFICES ASSUME Inv, ChooseNewWallet PROVE Inv'
  OBVIOUS
<1>1. ui.job = 0 /\ made \in Nat /\ Listing(accounts) /\ Placed(ui) /\ JobsOK(jobs)
      /\ ui.focus \in {"Commands", "Accounts", "Recall"}
  BY InIs, ModesDiffer DEF ChooseNewWallet, Chosen
<1>a. PICK i : i = NextFreeIndex(ui)
  OBVIOUS
<1>2. i \in Nat
  BY <1>1, <1>a, FreeIndexIs DEF Placed
<1>3. PICK p : Create(p, i, ChainList)
  BY <1>a DEF ChooseNewWallet
<1>4. made' \in Nat /\ Listing(accounts')
  BY <1>1, <1>2, <1>3, ChainsAre, CreateIs
<1>b. PICK s : s = Shown
  OBVIOUS
<1>5. DOMAIN s = Shape /\ s.mode = Browse /\ s.job = 0 /\ s.focus = ui.focus
  BY <1>1, <1>b, ShownIs DEF Placed
<1>c. PICK l : l = accounts'
  OBVIOUS
<1>d. PICK t : t = Reload(s, l)
  OBVIOUS
<1>e. PICK u : u = SelectIndex(t, i)
  OBVIOUS
<1>6. Placed(t) /\ Cursor(t) /\ SameElse(t, s)
  BY <1>4, <1>5, <1>c, <1>d, ReloadIs
<1>7. /\ DOMAIN u = Shape /\ u.list = t.list /\ SameElse(u, t)
      /\ u = t \/ (u.row \in 1 .. Cardinality(Indices(t)) /\ u.index = i /\ SelectedIndex(u) = i)
  BY <1>6, <1>e, SelectIndexIs DEF Placed
<1>8. Placed(u) /\ Cursor(u)
  <2>1. Indices(u) = Indices(t)
    BY <1>7, ReadsTheList
  <2>2. Cardinality(Indices(t)) \in Nat /\ (Cardinality(Indices(t)) = 0 <=> t.list = <<>>)
    BY <1>6, IndicesAre DEF Placed
  <2>3. CASE u = t
    BY <1>6, <2>3
  <2>4. CASE u.row \in 1 .. Cardinality(Indices(t)) /\ u.index = i /\ SelectedIndex(u) = i
    <3>1. u.row \in 0 .. Cardinality(Indices(t)) /\ u.row # 0 /\ Cardinality(Indices(t)) # 0
      BY <2>2, <2>4
    <3>. QED BY <1>6, <1>7, <2>1, <2>2, <2>4, <3>1 DEF Placed, Cursor
  <2>. QED BY <1>7, <2>3, <2>4
<1>9. u.mode = Browse /\ u.job = 0 /\ u.focus \in {"Commands", "Accounts", "Recall"}
  BY <1>1, <1>5, <1>6, <1>7 DEF SameElse
<1>10. ui' = u /\ JobsOK(jobs')
  BY <1>1, <1>a, <1>b, <1>c, <1>d, <1>e DEF ChooseNewWallet
<1>. QED BY <1>4, <1>8, <1>9, <1>10, BrowseStep

LEMMA ChooseActivateStep == Inv /\ ChooseActivate => Inv'
<1>. SUFFICES ASSUME Inv, ChooseActivate PROVE Inv'
  OBVIOUS
<1>1. ui.job = 0 /\ made \in Nat /\ Listing(accounts) /\ Placed(ui) /\ Cursor(ui) /\ JobsOK(jobs)
      /\ ui.focus \in {"Commands", "Accounts", "Recall"}
  BY InIs, ModesDiffer DEF ChooseActivate, Chosen
<1>b. PICK s : s = Shown
  OBVIOUS
<1>2. Placed(s) /\ Cursor(s) /\ s.mode = Browse /\ s.job = 0 /\ s.focus = ui.focus
  BY <1>1, <1>b, ShownIs
<1>3. ui' = s /\ made' = made /\ accounts' = accounts /\ jobs' = jobs
  BY <1>b DEF ChooseActivate
<1>. QED BY <1>1, <1>2, <1>3, BrowseStep

LEMMA SelectNetworkStep == Inv /\ SelectNetwork => Inv'
<1>. SUFFICES ASSUME Inv, SelectNetwork PROVE Inv'
  OBVIOUS
<1>1. ui.job = 0 /\ made \in Nat /\ Listing(accounts) /\ Placed(ui) /\ Cursor(ui) /\ JobsOK(jobs)
      /\ ui.focus \in {"Commands", "Accounts", "Recall"}
  BY InIs, ModesDiffer DEF SelectNetwork, ChosenRow, Chosen
<1>b. PICK s : s = Shown
  OBVIOUS
<1>2. Placed(s) /\ Cursor(s) /\ s.mode = Browse /\ s.job = 0 /\ s.focus = ui.focus
  BY <1>1, <1>b, ShownIs
<1>3. PICK n : ui' = ClampSelection([s EXCEPT !.network = n, !.changed = TRUE])
  BY <1>b DEF SelectNetwork
<1>c. PICK t : t = [s EXCEPT !.network = n, !.changed = TRUE]
  OBVIOUS
<1>4. DOMAIN t = Shape /\ t.list = s.list /\ t.row = s.row /\ t.mode = Browse /\ t.job = 0
      /\ t.focus = ui.focus
  BY <1>2, <1>c DEF Placed, Shape
<1>5. Listing(t.list) /\ t.row \in Nat
  <2>1. Listing(s.list) /\ s.row \in 0 .. Cardinality(Indices(s))
    BY <1>2 DEF Placed
  <2>2. Cardinality(Indices(s)) \in Nat
    BY <2>1, IndicesAre
  <2>. QED BY <1>4, <2>1, <2>2
<1>d. PICK u : u = ClampSelection(t)
  OBVIOUS
<1>6. Placed(u) /\ Cursor(u) /\ SameElse(u, t)
  BY <1>4, <1>5, <1>d, ClampIs
<1>7. u.mode = Browse /\ u.job = 0 /\ u.focus \in {"Commands", "Accounts", "Recall"}
  BY <1>1, <1>4, <1>6 DEF SameElse
<1>8. ui' = u /\ made' = made /\ accounts' = accounts /\ jobs' = jobs
  BY <1>3, <1>c, <1>d DEF SelectNetwork
<1>. QED BY <1>1, <1>6, <1>7, <1>8, BrowseStep

LEMMA QuitStep == Inv /\ Quit => Inv'
<1>. SUFFICES ASSUME Inv, Quit PROVE Inv'
  OBVIOUS
<1>1. made \in Nat /\ Listing(accounts)
  BY DEF Inv
<1>b. PICK s : s = Started(None)
  OBVIOUS
<1>2. Placed(s) /\ Cursor(s) /\ s.job = 0 /\ ~s.changed /\ s.focus = "Commands"
  BY <1>1, <1>b, StartedIs
<1>c. PICK t : t = [s EXCEPT !.mode = Closed]
  OBVIOUS
<1>3. DOMAIN t = Shape /\ t.list = s.list /\ t.row = s.row /\ t.index = s.index /\ t.job = 0
      /\ ~t.changed /\ t.focus = "Commands" /\ t.mode = Closed
  BY <1>2, <1>c DEF Placed, Shape
<1>4. Placed(t) /\ Cursor(t)
  BY <1>2, <1>3, KeepsThePlace
<1>5. ui' = t /\ made' = made /\ accounts' = accounts /\ jobs' = <<>>
  BY <1>b, <1>c DEF Quit, StoreSame
<1>6. JobsOK(<<>>)
  <2>1. <<>> \in Seq({}) /\ DOMAIN <<>> = {}
    OBVIOUS
  <2>2. IsList(<<>>)
    BY <2>1, ListsOf
  <2>. QED BY <2>1, <2>2 DEF JobsOK
<1>. QED BY <1>1, <1>3, <1>4, <1>5, <1>6, BrowseStep

LEMMA LaunchStep == Inv /\ Launch => Inv'
<1>. SUFFICES ASSUME Inv, Launch PROVE Inv'
  OBVIOUS
<1>1. made \in Nat /\ Listing(accounts) /\ JobsOK(jobs)
  BY DEF Inv
<1>2. PICK o : ui' = Started(o)
  BY DEF Launch
<1>b. PICK s : s = Started(o)
  OBVIOUS
<1>3. Placed(s) /\ Cursor(s) /\ s.mode = Browse /\ s.job = 0 /\ s.focus = "Commands"
  BY <1>1, <1>b, StartedIs
<1>4. ui' = s /\ made' = made /\ accounts' = accounts /\ jobs' = jobs
  BY <1>2, <1>b DEF Launch, StoreSame
<1>. QED BY <1>1, <1>3, <1>4, BrowseStep

----------------------------------------------------------------------------
(* Prompts, questions and threads.                                         *)

(* The highlighted account is one of the list.                             *)
LEMMA CurrentIs ==
  ASSUME NEW s, Listing(s.list), Current(s) # None
  PROVE  Current(s).id \in Nat
<1>a. PICK held : held = {n \in DOMAIN s.list :
                 /\ IndexOf(s.list[n]) = SelectedIndex(s)
                 /\ s.list[n].chain = ChainOfNetwork[s.network]}
  OBVIOUS
<1>1. held # {} /\ Current(s) = s.list[Min(held)]
  BY <1>a DEF Current
<1>2. held \subseteq DOMAIN s.list /\ held \in SUBSET Nat
  <2>1. DOMAIN s.list = 1 .. Len(s.list)
    BY ListIs DEF Listing
  <2>. QED BY <1>a, <2>1
<1>3. Min(held) \in held
  <2>1. \E m \in held : \A i \in held : m <= i
    BY <1>1, <1>2, LeastIs
  <2>. QED BY <2>1 DEF Min
<1>. QED BY <1>1, <1>2, <1>3 DEF Listing

LEMMA ChoosePromptStep == Inv /\ ChoosePrompt => Inv'
<1>. SUFFICES ASSUME Inv, ChoosePrompt PROVE Inv'
  OBVIOUS
<1>1. PICK k :
        /\ k \in {"new seed", "import", "import key", "derive", "balance", "send"}
        /\ In(Browse)
        /\ Show([Shown EXCEPT !.mode = Input(k), !.to = IF k = "send" THEN None ELSE @])
  BY DEF ChoosePrompt, Chosen
<1>2. /\ ui.job = 0 /\ ~ui.changed /\ Placed(ui) /\ Cursor(ui) /\ JobsOK(jobs)
      /\ made \in Nat /\ Listing(accounts) /\ ui.focus \in {"Commands", "Accounts", "Recall"}
  BY <1>1, InIs, ModesDiffer
<1>b. PICK s : s = Shown
  OBVIOUS
<1>3. Placed(s) /\ Cursor(s) /\ s.job = 0 /\ ~s.changed /\ s.focus = ui.focus
  BY <1>2, <1>b, ShownIs
<1>c. PICK t : t = [s EXCEPT !.mode = Input(k), !.to = IF k = "send" THEN None ELSE @]
  OBVIOUS
<1>4. /\ DOMAIN t = Shape /\ t.list = s.list /\ t.row = s.row /\ t.index = s.index
      /\ t.job = 0 /\ ~t.changed /\ t.focus = ui.focus /\ t.mode = Input(k)
  BY <1>3, <1>c DEF Placed, Shape
<1>5. Placed(t) /\ Cursor(t)
  BY <1>3, <1>4, KeepsThePlace
<1>6. t.mode # Busy /\ t.mode # Input("amount") /\ \A q : t.mode # Confirm(q)
  <2>1. k # "amount"
    BY <1>1
  <2>. QED BY <1>4, <2>1, ModesDiffer
<1>7. \A js : Screen(t, js)
  <2>1. t.focus \in {"Commands", "Accounts", "Recall"}
    BY <1>2, <1>4
  <2>2. t.job = 0 /\ ~t.changed
    BY <1>4
  <2>3. t.job \in Nat
    BY <2>2
  <2>. QED BY <1>6, <2>1, <2>2, <2>3 DEF Screen
<1>8. ui' = t /\ made' = made /\ accounts' = accounts /\ jobs' = jobs
  BY <1>1, <1>b, <1>c DEF Show, StoreSame
<1>. QED BY <1>2, <1>5, <1>7, <1>8 DEF Inv

LEMMA SubmitRecipientStep == Inv /\ SubmitRecipient => Inv'
<1>. SUFFICES ASSUME Inv, SubmitRecipient PROVE Inv'
  OBVIOUS
<1>1. PICK to \in Recipient :
       ui' = [ui EXCEPT !.to = to, !.mode = Input("amount"),
                        !.asked = [account |-> Current(ui).id, to |-> to]]
  BY DEF SubmitRecipient
<1>2. /\ ui.job = 0 /\ ~ui.changed /\ Placed(ui) /\ Cursor(ui) /\ JobsOK(jobs)
      /\ made \in Nat /\ Listing(accounts) /\ ui.focus \in {"Commands", "Accounts", "Recall"}
  BY InIs, ModesDiffer DEF SubmitRecipient
<1>a. PICK asked : asked = [account |-> Current(ui).id, to |-> to]
  OBVIOUS
<1>3. asked # None /\ Current(ui) # None
  <2>1. Current(ui) # None
    BY DEF SubmitRecipient
  <2>2. Current(ui).id \in Nat
    BY <1>2, <2>1, CurrentIs DEF Placed
  <2>3. asked \in [account : Nat, to : Recipient]
    BY <1>a, <2>2
  <2>. QED BY <2>1, <2>3, TuiConstants
<1>c. PICK t : t = [ui EXCEPT !.to = to, !.mode = Input("amount"), !.asked = asked]
  OBVIOUS
<1>4. /\ DOMAIN t = Shape /\ t.list = ui.list /\ t.row = ui.row /\ t.index = ui.index
      /\ t.job = 0 /\ ~t.changed /\ t.focus = ui.focus /\ t.mode = Input("amount")
      /\ t.network = ui.network /\ t.to = to /\ t.asked = asked
  BY <1>2, <1>c DEF Placed, Shape
<1>5. Placed(t) /\ Cursor(t)
  BY <1>2, <1>4, KeepsThePlace
<1>6. t.mode # Busy /\ t.mode # Browse /\ \A q : t.mode # Confirm(q)
  BY <1>4, ModesDiffer
<1>7. Current(t) = Current(ui)
  BY <1>4, ReadsTheList
<1>8. t.to = t.asked.to /\ FromTheHighlighted(t)
  BY <1>3, <1>4, <1>7, <1>a DEF FromTheHighlighted
<1>9. \A js : Screen(t, js)
  <2>1. t.focus \in {"Commands", "Accounts", "Recall"} /\ t.job \in Nat
    BY <1>2, <1>4
  <2>2. t.job = 0 /\ ~t.changed
    BY <1>4
  <2>. QED BY <1>6, <1>8, <2>1, <2>2 DEF Screen
<1>10. ui' = t /\ made' = made /\ accounts' = accounts /\ jobs' = jobs
  BY <1>1, <1>a, <1>c DEF SubmitRecipient, StoreSame
<1>. QED BY <1>2, <1>5, <1>9, <1>10 DEF Inv

LEMMA SpawnStep ==
  ASSUME Inv, NEW s, Placed(s), Cursor(s), ~s.changed,
         s.focus \in {"Commands", "Accounts", "Recall"},
         NEW kind, NEW account, NEW chain, NEW to, Spawn(s, kind, account, chain, to),
         StoreSame,
         kind = "send" => s.asked.account = account /\ s.asked.to = to /\ FromTheHighlighted(s)
  PROVE  Inv'
<1>1. made' \in Nat /\ Listing(accounts') /\ JobsOK(jobs) /\ IsList(jobs)
  BY DEF Inv, StoreSame, JobsOK
<1>a. PICK j : j = [kind |-> kind, account |-> account, to |-> to,
                    network |-> Store!NetworkOn(chain), event |-> "running"]
  OBVIOUS
<1>b. PICK js : js = Append(jobs, j)
  OBVIOUS
<1>c. PICK t : t = [s EXCEPT !.mode = Busy, !.job = Len(js)]
  OBVIOUS
<1>2. jobs' = js /\ ui' = t
  BY <1>a, <1>b, <1>c DEF Spawn
<1>3. /\ DOMAIN j = JobShape /\ j.event = "running" /\ j.kind = kind /\ j.account = account
      /\ j.to = to
  BY <1>a DEF JobShape
<1>4. /\ IsList(js) /\ DOMAIN js = 1 .. Len(jobs) + 1 /\ Len(js) = Len(jobs) + 1
      /\ Len(jobs) \in Nat /\ js[Len(jobs) + 1] = j
      /\ \A n \in 1 .. Len(jobs) : n \in DOMAIN jobs /\ js[n] = jobs[n]
  <2>. DEFINE S == Range(jobs) \cup {j}
  <2>1. jobs \in Seq(S) /\ Len(jobs) \in Nat /\ DOMAIN jobs = 1 .. Len(jobs)
    BY <1>1, ListIs, SeqDef DEF IsList
  <2>2. js \in Seq(S)
    BY <1>b, <2>1
  <2>3. IsList(js)
    BY <2>2, ListsOf
  <2>. HIDE DEF S
  <2>. QED BY <1>b, <2>1, <2>2, <2>3
<1>5. JobsOK(js)
  <2>1. ASSUME NEW n \in DOMAIN js
        PROVE  /\ DOMAIN js[n] = JobShape
               /\ js[n].event \in {"running", "plan", "balance", "failed", "panicked", "taken"}
               /\ js[n].event = "plan" => js[n].kind = "send"
    <3>1. CASE n = Len(jobs) + 1
      BY <1>3, <1>4, <3>1
    <3>2. CASE n # Len(jobs) + 1
      <4>1. n \in DOMAIN jobs /\ js[n] = jobs[n]
        BY <1>4, <2>1, <3>2
      <4>. QED BY <1>1, <4>1 DEF JobsOK
    <3>. QED BY <3>1, <3>2
  <2>. QED BY <1>4, <2>1 DEF JobsOK
<1>6. /\ DOMAIN t = Shape /\ t.list = s.list /\ t.row = s.row /\ t.index = s.index
      /\ t.job = Len(jobs) + 1 /\ ~t.changed /\ t.focus = s.focus /\ t.mode = Busy
      /\ t.network = s.network /\ t.asked = s.asked
  BY <1>4, <1>c DEF Placed, Shape
<1>7. Placed(t) /\ Cursor(t)
  BY <1>6, KeepsThePlace
<1>8. t.mode # Browse /\ \A q : t.mode # Confirm(q) /\ t.mode # Input(q)
  BY <1>6, ModesDiffer
<1>9. kind = "send" => Prepares(j, t)
  <2>1. FromTheHighlighted(s) => FromTheHighlighted(t)
    BY <1>6, KeepsTheHighlighted
  <2>. QED BY <1>3, <1>6, <2>1 DEF Prepares
<1>10. t.job \in DOMAIN js /\ js[t.job] = j /\ t.job \in Nat
  BY <1>4, <1>6
<1>11. Screen(t, js)
  BY <1>3, <1>6, <1>8, <1>9, <1>10 DEF Screen
<1>. QED BY <1>1, <1>2, <1>5, <1>7, <1>11 DEF Inv

(* A balance is asked for.                                                 *)
LEMMA BalanceStep ==
  ASSUME Inv, ui.job = 0, ~ui.changed, NEW kind, kind # "send", NEW account, NEW chain,
         Spawn(Shown, kind, account, chain, None), StoreSame
  PROVE  Inv'
<1>1. Placed(ui) /\ Cursor(ui) /\ ui.focus \in {"Commands", "Accounts", "Recall"}
  BY DEF Inv, Screen
<1>b. PICK s : s = Shown
  OBVIOUS
<1>2. Placed(s) /\ Cursor(s) /\ ~s.changed /\ s.focus = ui.focus
  BY <1>1, <1>b, ShownIs
<1>3. Spawn(s, kind, account, chain, None)
  BY <1>b
<1>4. s.focus \in {"Commands", "Accounts", "Recall"}
  BY <1>1, <1>2
<1>. QED BY <1>2, <1>3, <1>4, SpawnStep

LEMMA StartBalanceStep == Inv /\ StartBalance => Inv'
<1>. SUFFICES ASSUME Inv, StartBalance PROVE Inv'
  OBVIOUS
<1>1. ui.job = 0 /\ ~ui.changed /\ StoreSame
  BY InIs, ModesDiffer DEF StartBalance
<1>2. Spawn(Shown, "balance", Current(ui).id, Current(ui).chain, None)
  BY DEF StartBalance
<1>. QED BY <1>1, <1>2, BalanceStep

LEMMA StartAddressBalanceStep == Inv /\ StartAddressBalance => Inv'
<1>. SUFFICES ASSUME Inv, StartAddressBalance PROVE Inv'
  OBVIOUS
<1>1. ui.job = 0 /\ ~ui.changed /\ StoreSame
  BY InIs, ModesDiffer DEF StartAddressBalance
<1>2. Spawn(Shown, "address", None, Current(ui).chain, None)
  BY DEF StartAddressBalance
<1>. QED BY <1>1, <1>2, BalanceStep

LEMMA StartTokenBalanceStep == Inv /\ StartTokenBalance => Inv'
<1>. SUFFICES ASSUME Inv, StartTokenBalance PROVE Inv'
  OBVIOUS
<1>1. ui.job = 0 /\ ~ui.changed /\ StoreSame
  BY InIs, ModesDiffer DEF StartTokenBalance, ChosenRow, Chosen
<1>2. PICK c : Spawn(Shown, "token", None, c, None)
  BY DEF StartTokenBalance
<1>. QED BY <1>1, <1>2, BalanceStep

LEMMA StageSendStep == Inv /\ StageSend => Inv'
<1>. SUFFICES ASSUME Inv, StageSend PROVE Inv'
  OBVIOUS
<1>1. ui.mode = Input("amount") /\ ~ui.changed /\ Placed(ui) /\ Cursor(ui) /\ StoreSame
      /\ ui.focus \in {"Commands", "Accounts", "Recall"}
  BY InIs DEF StageSend
<1>2. ui.to = ui.asked.to /\ FromTheHighlighted(ui)
  BY <1>1 DEF Inv, Screen
<1>a. PICK s : s = [ui EXCEPT !.to = None]
  OBVIOUS
<1>3. /\ DOMAIN s = Shape /\ s.list = ui.list /\ s.row = ui.row /\ s.index = ui.index
      /\ ~s.changed /\ s.focus = ui.focus /\ s.network = ui.network /\ s.asked = ui.asked
  BY <1>1, <1>a DEF Placed, Shape
<1>4. Placed(s) /\ Cursor(s)
  BY <1>1, <1>3, KeepsThePlace
<1>5. FromTheHighlighted(s)
  BY <1>2, <1>3, KeepsTheHighlighted
<1>6. Spawn(s, "send", Current(ui).id, Current(ui).chain, ui.to)
  BY <1>a DEF StageSend
<1>7. s.asked.account = Current(ui).id /\ s.asked.to = ui.to
  BY <1>2, <1>3 DEF FromTheHighlighted
<1>8. s.focus \in {"Commands", "Accounts", "Recall"}
  BY <1>1, <1>3
<1>. QED BY <1>1, <1>3, <1>4, <1>5, <1>6, <1>7, <1>8, SpawnStep

LEMMA ChooseRemoveStep == Inv /\ ChooseRemove => Inv'
<1>. SUFFICES ASSUME Inv, ChooseRemove PROVE Inv'
  OBVIOUS
<1>1. /\ ui.job = 0 /\ ~ui.changed /\ Placed(ui) /\ Cursor(ui) /\ JobsOK(jobs)
      /\ made \in Nat /\ Listing(accounts)
  BY InIs, ModesDiffer DEF ChooseRemove, Chosen
<1>a. PICK t : t = [ui EXCEPT !.mode = Confirm("remove"), !.focus = "Accounts",
             !.counted = {a.id : a \in AccountsAt(ui, SelectedIndex(ui))}]
  OBVIOUS
<1>2. /\ DOMAIN t = Shape /\ t.list = ui.list /\ t.row = ui.row /\ t.index = ui.index
      /\ t.job = 0 /\ ~t.changed /\ t.focus = "Accounts" /\ t.mode = Confirm("remove")
      /\ t.counted = {a.id : a \in AccountsAt(ui, SelectedIndex(ui))}
  BY <1>1, <1>a DEF Placed, Shape
<1>3. Placed(t) /\ Cursor(t)
  BY <1>1, <1>2, KeepsThePlace
<1>4. t.mode # Browse /\ t.mode # Busy /\ t.mode # Confirm("send") /\ \A q : t.mode # Input(q)
  BY <1>2, ModesDiffer
<1>5. t.counted = {a.id : a \in AccountsAt(t, SelectedIndex(t))}
  BY <1>2, ReadsTheList
<1>6. \A js : Screen(t, js)
  <2>1. t.focus \in {"Commands", "Accounts", "Recall"} /\ t.job \in Nat
    BY <1>2
  <2>2. t.job = 0 /\ ~t.changed
    BY <1>2
  <2>. QED BY <1>4, <1>5, <2>1, <2>2 DEF Screen
<1>7. ui' = t /\ made' = made /\ accounts' = accounts /\ jobs' = jobs
  BY <1>a DEF ChooseRemove, Show, StoreSame
<1>. QED BY <1>1, <1>3, <1>6, <1>7 DEF Inv

----------------------------------------------------------------------------
(* Answers, and what happens outside.                                      *)

(* What an answer leaves as it was of every thread.                        *)
SameJobs(js, ks) ==
  /\ DOMAIN ks = DOMAIN js
  /\ \A n \in DOMAIN js :
       /\ ks[n].kind = js[n].kind /\ ks[n].to = js[n].to
       /\ js[n].kind = "send" => ks[n].account = js[n].account

LEMMA AnswersKeep ==
  ASSUME NEW s, NEW js, Screen(s, js), NEW ks, SameJobs(js, ks),
         s.mode = Busy => ks[s.job].event # "taken"
  PROVE  Screen(s, ks)
<1>1. ASSUME NEW n \in DOMAIN js, js[n].kind = "send", Prepares(js[n], s)
      PROVE  Prepares(ks[n], s)
  BY <1>1 DEF SameJobs, Prepares
<1>2. s.mode = Busy =>
       /\ s.job \in DOMAIN ks /\ ks[s.job].event # "taken"
       /\ ks[s.job].kind = "send" => Prepares(ks[s.job], s)
  BY <1>1 DEF Screen, SameJobs
<1>3. s.mode = Confirm("send") =>
       /\ s.staged \in DOMAIN ks /\ ks[s.staged].kind = "send"
       /\ Prepares(ks[s.staged], s) /\ s.detail = Detail("plan", s.staged)
  BY <1>1 DEF Screen, SameJobs
<1>. QED BY <1>2, <1>3 DEF Screen

(* A thread's event is set, and perhaps whose answer it is.                *)
WithEvent(ks, js, n, e, account) ==
  /\ e \in {"plan", "balance", "failed", "panicked", "taken"}
  /\ e = "plan" => js[n].kind = "send"
  /\ js[n].kind = "send" => account = js[n].account
  /\ ks = [js EXCEPT ![n].event = e, ![n].account = account]

LEMMA EventSet ==
  ASSUME NEW js, JobsOK(js), NEW n \in DOMAIN js,
         NEW e, NEW account, NEW ks, WithEvent(ks, js, n, e, account)
  PROVE  /\ JobsOK(ks) /\ SameJobs(js, ks) /\ ks[n].event = e
         /\ \A m \in DOMAIN js : m # n => ks[m] = js[m]
<1>1. DOMAIN js = 1 .. Len(js) /\ Len(js) \in Nat /\ DOMAIN js[n] = JobShape
  BY ListIs DEF JobsOK
<1>2. /\ ks = [m \in 1 .. Len(js) |-> ks[m]] /\ DOMAIN ks = DOMAIN js
      /\ \A m \in DOMAIN js : m # n => ks[m] = js[m]
      /\ ks[n] = [js[n] EXCEPT !.event = e, !.account = account]
  BY <1>1 DEF WithEvent
<1>3. /\ DOMAIN ks[n] = JobShape /\ ks[n].event = e /\ ks[n].account = account
      /\ ks[n].kind = js[n].kind /\ ks[n].to = js[n].to
  BY <1>1, <1>2 DEF JobShape
<1>4. IsList(ks)
  <2>1. ks \in Seq({ks[m] : m \in 1 .. Len(js)})
    BY <1>1, <1>2, SeqDef
  <2>. QED BY <2>1, ListsOf
<1>5. JobsOK(ks)
  <2>1. e \in {"running", "plan", "balance", "failed", "panicked", "taken"}
        /\ (e = "plan" => js[n].kind = "send")
    BY DEF WithEvent
  <2>2. ASSUME NEW m \in DOMAIN js
        PROVE  /\ DOMAIN ks[m] = JobShape
               /\ ks[m].event \in {"running", "plan", "balance", "failed", "panicked", "taken"}
               /\ ks[m].event = "plan" => ks[m].kind = "send"
    <3>1. CASE m = n
      BY <1>3, <2>1, <3>1
    <3>2. CASE m # n
      BY <1>2, <3>2 DEF JobsOK
    <3>. QED BY <3>1, <3>2
  <2>. QED BY <1>2, <1>4, <2>2 DEF JobsOK
<1>6. SameJobs(js, ks)
  <2>1. js[n].kind = "send" => account = js[n].account
    BY DEF WithEvent
  <2>. QED BY <1>2, <1>3, <2>1 DEF SameJobs
<1>. QED BY <1>2, <1>3, <1>5, <1>6

LEMMA ThreadEndsStep == Inv /\ ThreadEnds => Inv'
<1>. SUFFICES ASSUME Inv, ThreadEnds PROVE Inv'
  OBVIOUS
<1>1. JobsOK(jobs) /\ Screen(ui, jobs) /\ Placed(ui) /\ Cursor(ui)
  BY DEF Inv
<1>2. made' \in Nat /\ Listing(accounts') /\ ui' = ui
  BY DEF Inv, ThreadEnds, StoreSame
<1>3. PICK n \in DOMAIN jobs :
        LET of == IF jobs[n].kind # "token" THEN jobs[n].account
                  ELSE Store!ActiveAccountOn(ChainOfNetwork[jobs[n].network])
            found == of \in Store!Ids \/ jobs[n].kind = "address"
            done == IF jobs[n].kind = "send" THEN "plan" ELSE "balance"
        IN  /\ jobs[n].event = "running"
            /\ \/ \E e \in {"failed", "panicked"} :
                    jobs' = [jobs EXCEPT ![n].event = e]
               \/ /\ found
                  /\ jobs' = [jobs EXCEPT ![n].event = done, ![n].account = of]
  BY DEF ThreadEnds
<1>4. \E e \in {"plan", "balance", "failed", "panicked"} : \E account :
        /\ e = "plan" => jobs[n].kind = "send"
        /\ jobs[n].kind = "send" => account = jobs[n].account
        /\ jobs' = [jobs EXCEPT ![n].event = e, ![n].account = account]
  <2>1. CASE \E e \in {"failed", "panicked"} : jobs' = [jobs EXCEPT ![n].event = e]
    <3>1. PICK e \in {"failed", "panicked"} : jobs' = [jobs EXCEPT ![n].event = e]
      BY <2>1
    <3>2. DOMAIN jobs[n] = JobShape
      BY <1>1 DEF JobsOK
    <3>3. [jobs[n] EXCEPT !.event = e] = [jobs[n] EXCEPT !.event = e, !.account = jobs[n].account]
      BY <3>2 DEF JobShape
    <3>4. jobs' = [jobs EXCEPT ![n].event = e, ![n].account = jobs[n].account]
      BY <3>1, <3>3
    <3>. QED BY <3>4
  <2>2. CASE ~\E e \in {"failed", "panicked"} : jobs' = [jobs EXCEPT ![n].event = e]
    <3>a. PICK of : of = IF jobs[n].kind # "token" THEN jobs[n].account
                  ELSE Store!ActiveAccountOn(ChainOfNetwork[jobs[n].network])
      OBVIOUS
    <3>b. PICK done : done = IF jobs[n].kind = "send" THEN "plan" ELSE "balance"
      OBVIOUS
    <3>1. jobs' = [jobs EXCEPT ![n].event = done, ![n].account = of]
      BY <1>3, <2>2, <3>a, <3>b
    <3>2. done \in {"plan", "balance"} /\ (done = "plan" => jobs[n].kind = "send")
          /\ (jobs[n].kind = "send" => of = jobs[n].account)
      BY <3>a, <3>b
    <3>. QED BY <3>1, <3>2
  <2>. QED BY <2>1, <2>2
<1>5. PICK e : e \in {"plan", "balance", "failed", "panicked"} /\ \E account :
        /\ e = "plan" => jobs[n].kind = "send"
        /\ jobs[n].kind = "send" => account = jobs[n].account
        /\ jobs' = [jobs EXCEPT ![n].event = e, ![n].account = account]
  BY <1>4
<1>6. PICK account :
        /\ e = "plan" => jobs[n].kind = "send"
        /\ jobs[n].kind = "send" => account = jobs[n].account
        /\ jobs' = [jobs EXCEPT ![n].event = e, ![n].account = account]
  BY <1>5
<1>a. PICK ks : ks = [jobs EXCEPT ![n].event = e, ![n].account = account]
  OBVIOUS
<1>7. /\ JobsOK(ks) /\ SameJobs(jobs, ks) /\ ks[n].event = e
      /\ \A m \in DOMAIN jobs : m # n => ks[m] = jobs[m]
  <2>1. (e = "plan" => jobs[n].kind = "send") /\ (jobs[n].kind = "send" => account = jobs[n].account)
    BY <1>6
  <2>2. e \in {"plan", "balance", "failed", "panicked", "taken"}
    BY <1>5
  <2>3. WithEvent(ks, jobs, n, e, account)
    BY <1>a, <2>1, <2>2 DEF WithEvent
  <2>. QED BY <1>1, <2>3, EventSet
<1>8. ui.mode = Busy => ks[ui.job].event # "taken"
  <2>1. ui.mode = Busy => ui.job \in DOMAIN jobs /\ jobs[ui.job].event # "taken"
    BY <1>1 DEF Screen
  <2>2. ui.job \in DOMAIN jobs => ks[ui.job] = jobs[ui.job] \/ ks[ui.job].event = e
    BY <1>7
  <2>. QED BY <1>5, <2>1, <2>2
<1>9. Screen(ui, ks)
  BY <1>1, <1>7, <1>8, AnswersKeep
<1>. QED BY <1>1, <1>2, <1>6, <1>7, <1>9, <1>a DEF Inv

LEMMA OtherProcessStep == Inv /\ OtherProcess => Inv'
<1>. SUFFICES ASSUME Inv, OtherProcess PROVE Inv'
  OBVIOUS
<1>1. made \in Nat /\ Listing(accounts)
  BY DEF Inv
<1>2. ASSUME OtherNew PROVE made' \in Nat /\ Listing(accounts')
  <2>1. PICK p, i : /\ i \in Index
                   /\ \E chains \in {<<c>> : c \in Chain} \cup {ChainList} : Create(p, i, chains)
    BY <1>2 DEF OtherNew
  <2>2. PICK chains \in {<<c>> : c \in Chain} \cup {ChainList} : Create(p, i, chains)
    BY <2>1
  <2>3. IsList(chains) /\ i \in Nat \cup {None}
    BY <2>1, ChainsAre, TuiConstants
  <2>. QED BY <1>1, <2>2, <2>3, CreateIs
<1>3. ASSUME OtherRemove PROVE made' \in Nat /\ Listing(accounts')
  <2>1. PICK ids : Delete(ids)
    BY <1>3 DEF OtherRemove
  <2>. QED BY <1>1, <2>1, DeleteIs DEF Delete
<1>4. ASSUME OtherNetwork PROVE made' \in Nat /\ Listing(accounts')
  BY <1>1, <1>4, OtherNetworkIs
<1>5. made' \in Nat /\ Listing(accounts') /\ ui' = ui /\ jobs' = jobs
  BY <1>2, <1>3, <1>4 DEF OtherProcess
<1>. QED BY <1>5 DEF Inv

LEMMA TurnStep == Inv /\ Turn => Inv'
<1>. SUFFICES ASSUME Inv, Turn PROVE Inv'
  OBVIOUS
<1>1. /\ JobsOK(jobs) /\ Screen(ui, jobs) /\ Placed(ui) /\ Cursor(ui)
      /\ made' \in Nat /\ Listing(accounts')
      /\ ui.focus \in {"Commands", "Accounts", "Recall"}
  BY DEF Inv, Turn, StoreSame, Screen
<1>2. CASE ui.changed
  <2>a. PICK r : r = [ui EXCEPT !.changed = FALSE, !.bound = ui.network]
    OBVIOUS
  <2>b. PICK t : t = RefreshDetail(r)
    OBVIOUS
  <2>1. ui.mode = Browse /\ ui.job = 0
    BY <1>1, <1>2, ModesDiffer DEF Screen
  <2>2. /\ DOMAIN r = Shape /\ r.list = ui.list /\ r.row = ui.row /\ r.index = ui.index
        /\ r.job = 0 /\ ~r.changed /\ r.focus = ui.focus /\ r.mode = Browse
    BY <1>1, <2>1, <2>a DEF Placed, Shape
  <2>3. Placed(r) /\ Cursor(r)
    BY <1>1, <2>2, KeepsThePlace
  <2>4. Placed(t) /\ Cursor(t) /\ SameElse(t, r)
    BY <2>3, <2>b, RefreshIs
  <2>5. t.mode = Browse /\ t.job = 0 /\ ~t.changed /\ t.focus = ui.focus
    BY <2>2, <2>4 DEF SameElse
  <2>6. ui' = t
    <3>1. Rebuild(ui) = t
      BY <1>2, <2>a, <2>b DEF Rebuild
    <3>2. PollJob(t) = t
      BY <2>5 DEF PollJob, Waiting
    <3>. QED BY <3>1, <3>2 DEF Turn
  <2>7. jobs' = jobs
    BY <2>1 DEF Turn, Waiting
  <2>8. t.focus \in {"Commands", "Accounts", "Recall"}
    BY <1>1, <2>5
  <2>. QED BY <1>1, <2>4, <2>5, <2>6, <2>7, <2>8, BrowseStep
<1>3. CASE ~ui.changed /\ (ui.job = 0 \/ jobs[ui.job].event = "running")
  <2>1. ui' = ui
    BY <1>3 DEF Turn, Rebuild, PollJob, Waiting, Event
  <2>2. jobs' = jobs
    BY <2>1 DEF Turn
  <2>. QED BY <1>1, <2>1, <2>2 DEF Inv
<1>4. CASE ~ui.changed /\ ui.job # 0 /\ jobs[ui.job].event # "running"
  <2>a. PICK n : n = ui.job
    OBVIOUS
  <2>b. PICK t : t = Answered(ui, n)
    OBVIOUS
  <2>c. PICK ks : ks = [jobs EXCEPT ![n].event = "taken"]
    OBVIOUS
  <2>1. /\ ui.mode = Busy /\ n \in DOMAIN jobs
        /\ jobs[n].event \in {"plan", "balance", "failed", "panicked"}
        /\ jobs[n].kind = "send" => Prepares(jobs[n], ui)
    BY <1>1, <1>4, <2>a DEF Screen, JobsOK
  <2>2. ui' = t
    BY <1>4, <2>a, <2>b DEF Turn, Rebuild, PollJob, Waiting, Event
  <2>d. PICK b : b = [ui EXCEPT !.job = 0, !.mode = Browse, !.asked = None]
    OBVIOUS
  <2>3. \/ /\ jobs[n].event = "plan"
           /\ t = [ui EXCEPT !.job = 0, !.staged = n, !.mode = Confirm("send"),
                              !.detail = Detail("plan", n)]
        \/ jobs[n].event # "plan" /\ (t = b \/ t = [b EXCEPT !.detail.balance = n])
    <3>1. CASE jobs[n].event = "plan"
      BY <3>1, <2>b DEF Answered, PresentPlan
    <3>2. CASE jobs[n].event = "balance"
      BY <3>2, <2>b, <2>d DEF Answered
    <3>3. CASE jobs[n].event \in {"failed", "panicked"}
      BY <3>3, <2>b, <2>d DEF Answered
    <3>. QED BY <2>1, <3>1, <3>2, <3>3
  <2>4. /\ DOMAIN t = Shape /\ t.list = ui.list /\ t.row = ui.row /\ t.index = ui.index
        /\ t.job = 0 /\ t.focus = ui.focus /\ t.network = ui.network /\ t.changed = ui.changed
    BY <1>1, <2>3, <2>d DEF Placed, Shape
  <2>5. Placed(t) /\ Cursor(t)
    BY <1>1, <2>4, KeepsThePlace
  <2>6. jobs' = ks
    <3>1. ui'.job = 0
      BY <2>2, <2>4
    <3>. QED BY <1>4, <2>a, <2>c, <3>1 DEF Turn, Waiting
  <2>7. JobsOK(ks) /\ SameJobs(jobs, ks)
    <3>1. DOMAIN jobs[n] = JobShape
      BY <1>1, <2>1 DEF JobsOK
    <3>2. [jobs[n] EXCEPT !.event = "taken"]
            = [jobs[n] EXCEPT !.event = "taken", !.account = jobs[n].account]
      BY <3>1 DEF JobShape
    <3>3. ks = [jobs EXCEPT ![n].event = "taken", ![n].account = jobs[n].account]
      BY <3>2, <2>c
    <3>4. WithEvent(ks, jobs, n, "taken", jobs[n].account)
      BY <3>3 DEF WithEvent
    <3>. QED BY <1>1, <2>1, <3>4, EventSet
  <2>8. t.focus \in {"Commands", "Accounts", "Recall"} /\ ~t.changed
    BY <1>1, <1>4, <2>4
  <2>9. CASE jobs[n].event = "plan"
    <3>1. /\ t.mode = Confirm("send") /\ t.staged = n /\ t.detail = Detail("plan", n)
          /\ t.asked = ui.asked
      BY <1>1, <2>3, <2>9 DEF Placed, Shape
    <3>2. t.mode # Browse /\ t.mode # Busy /\ t.mode # Confirm("remove") /\ \A q : t.mode # Input(q)
      BY <3>1, ModesDiffer
    <3>3. jobs[n].kind = "send"
      BY <1>1, <2>1, <2>9 DEF JobsOK
    <3>4. Prepares(jobs[n], t)
      BY <2>1, <2>4, <3>1, <3>3, KeepsTheHighlighted
    <3>5. t.job \in Nat
      BY <2>4
    <3>6. Screen(t, jobs)
      BY <2>1, <2>4, <2>8, <3>1, <3>2, <3>3, <3>4, <3>5 DEF Screen
    <3>7. Screen(t, ks)
      BY <2>7, <3>2, <3>6, AnswersKeep
    <3>. QED BY <1>1, <2>2, <2>5, <2>6, <2>7, <3>7 DEF Inv
  <2>10. CASE jobs[n].event # "plan"
    <3>1. t.mode = Browse
      BY <1>1, <2>3, <2>10, <2>d DEF Placed, Shape
    <3>. QED BY <1>1, <2>2, <2>4, <2>5, <2>6, <2>7, <2>8, <3>1, BrowseStep
  <2>. QED BY <2>9, <2>10
<1>. QED BY <1>2, <1>3, <1>4

----------------------------------------------------------------------------
(* The invariant, and what it says.                                        *)

LEMMA InitIs == Init => Inv
<1>. SUFFICES ASSUME Init PROVE Inv
  OBVIOUS
<1>1. PICK o : ui = Started(o)
  BY DEF Init
<1>2. accounts = <<>> /\ jobs = <<>> /\ made = 0
  BY DEF Init
<1>3. Listing(<<>>) /\ JobsOK(<<>>)
  <2>1. <<>> \in Seq({}) /\ DOMAIN <<>> = {}
    OBVIOUS
  <2>2. IsList(<<>>)
    BY <2>1, ListsOf
  <2>. QED BY <2>1, <2>2 DEF JobsOK, Listing
<1>b. PICK s : s = Started(o)
  OBVIOUS
<1>4. Placed(s) /\ Cursor(s) /\ s.mode = Browse /\ s.job = 0 /\ s.focus = "Commands"
  BY <1>2, <1>3, <1>b, StartedIs
<1>5. \A js : Screen(s, js)
  BY <1>4, BrowsingIs
<1>. QED BY <1>1, <1>2, <1>3, <1>4, <1>5, <1>b DEF Inv

LEMMA NextIs == Inv /\ [Next]_vars => Inv'
<1>. SUFFICES ASSUME Inv, [Next]_vars PROVE Inv'
  OBVIOUS
<1>1. CASE KeyPress
  BY <1>1, KeyMoveStep, KeyTabStep, KeyEscapeStep, AbandonStep, DeclineStep, ChooseReloadStep,
     ToggleSecretsStep, ChoosePromptStep, ChooseNewWalletStep, SubmitLabelStep, SubmitSecretStep,
     SubmitIndexStep, ImportSelectedRecallStep, ForgetSelectedRecallStep, ChooseRecallStep,
     StartBalanceStep, StartAddressBalanceStep, StartTokenBalanceStep, SubmitRecipientStep,
     StageSendStep, BroadcastStep, ChooseActivateStep, SelectNetworkStep, ChooseRemoveStep,
     RemoveWalletStep, QuitStep, LaunchStep DEF KeyPress
<1>2. CASE Turn
  BY <1>2, TurnStep
<1>3. CASE ThreadEnds
  BY <1>3, ThreadEndsStep
<1>4. CASE OtherProcess
  BY <1>4, OtherProcessStep
<1>5. CASE UNCHANGED vars
  BY <1>5 DEF vars, Inv
<1>. QED BY <1>1, <1>2, <1>3, <1>4, <1>5 DEF Next

LEMMA InvAlways == Spec => []Inv
<1>1. Init => Inv
  BY InitIs
<1>2. Inv /\ [Next]_vars => Inv'
  BY NextIs
<1>. QED BY <1>1, <1>2, PTL DEF Spec

(* Whatever reloads, removals, moves, other processes and starts there     *)
(* have been, the cursor new wallets and commands go by is the row that is *)
(* highlighted.  (reload, clamp_selection, select_index.)                  *)
THEOREM TheCursorIsTheRow == Spec => []CursorIsTheRow
<1>1. Inv => CursorIsTheRow
  BY DEF Inv, Cursor, CursorIsTheRow
<1>. QED BY <1>1, InvAlways, PTL

(* The transfer on the confirm screen is the one typed last, from the      *)
(* account that is highlighted, however threads answered meanwhile.        *)
(* (submit_input, stage_send, present_plan.)                               *)
THEOREM TheTypedIsConfirmed == Spec => []ConfirmsWhatWasTyped
<1>1. Inv => ConfirmsWhatWasTyped
  BY DEF Inv, Screen, Prepares, FromTheHighlighted, ConfirmsWhatWasTyped
<1>. QED BY <1>1, InvAlways, PTL

(* While a transfer is prepared, the highlight stays on the account it is  *)
(* from: nothing but the answer or Esc is taken.  (handle_key in Busy.)    *)
THEOREM TheHighlightedWaits == Spec => []WaitsForTheHighlighted
<1>1. Inv => WaitsForTheHighlighted
  BY DEF Inv, Screen, Prepares, FromTheHighlighted, WaitsForTheHighlighted
<1>. QED BY <1>1, InvAlways, PTL

----------------------------------------------------------------------------
(* What a removal takes, and where a new wallet goes.                      *)

(* The question is answered, or nothing is taken.                          *)
LEMMA AtTheQuestion ==
  ASSUME ui.mode = Confirm("remove"), KeyPress
  PROVE  RemoveWallet \/ accounts' = accounts
<1>1. ui.mode # Browse /\ ui.mode # Busy /\ ui.mode # Closed /\ \A q : ui.mode # Input(q)
  BY ModesDiffer
<1>2. ASSUME KeyMove \/ KeyTab \/ KeyEscape \/ Abandon \/ Decline \/ ChooseReload
             \/ ToggleSecrets \/ ChoosePrompt \/ ChooseRecall \/ Broadcast \/ ChooseRemove
      PROVE  accounts' = accounts
  BY <1>2 DEF KeyMove, KeyTab, KeyEscape, Abandon, Decline, ChooseReload, ToggleSecrets,
              ChoosePrompt, ChooseRecall, Broadcast, ChooseRemove, Show, StoreSame
<1>3. ASSUME ChooseNewWallet \/ SubmitLabel \/ SubmitSecret \/ SubmitIndex
             \/ ImportSelectedRecall \/ ForgetSelectedRecall
      PROVE  FALSE
  BY <1>1, <1>3 DEF ChooseNewWallet, SubmitLabel, SubmitSecret, SubmitIndex,
              ImportSelectedRecall, ForgetSelectedRecall, Chosen, In
<1>4. ASSUME StartBalance \/ StartAddressBalance \/ StartTokenBalance \/ SubmitRecipient
             \/ StageSend \/ ChooseActivate \/ SelectNetwork \/ Quit \/ Launch
      PROVE  accounts' = accounts
  BY <1>4 DEF StartBalance, StartAddressBalance, StartTokenBalance, SubmitRecipient,
              StageSend, ChooseActivate, SelectNetwork, Quit, Launch, StoreSame
<1>. QED BY <1>2, <1>3, <1>4 DEF KeyPress

(* Whatever accounts other processes have put at the index, or taken from  *)
(* it, since the list was read, a removal takes none its question did not  *)
(* count.  (remove_wallet, confirm_delete.)                                *)
THEOREM TheCountedAreRemoved == Spec => RemovesWhatItAsked
<1>1. Inv /\ [Next]_vars =>
        [ui.mode = Confirm("remove") /\ ui'.mode = Browse =>
           {a.id : a \in Range(accounts) \ Range(accounts')} \subseteq ui.counted]_vars
  <2>. SUFFICES ASSUME Inv, Next, ui.mode = Confirm("remove"), ui'.mode = Browse
                PROVE  {a.id : a \in Range(accounts) \ Range(accounts')} \subseteq ui.counted
    OBVIOUS
  <2>1. CASE accounts' = accounts
    BY <2>1
  <2>2. CASE RemoveWallet
    <3>1. ui.counted = {a.id : a \in AccountsAt(ui, SelectedIndex(ui))}
      BY DEF Inv, Screen
    <3>. DEFINE upTo(n) == {a.id : a \in AccountsAt([ui EXCEPT !.list = SubSeq(@, 1, n)],
                                                     SelectedIndex(ui))}
    <3>2. PICK last \in 0 .. Len(ui.list) : \E noted : DeleteNoting(upTo(last), noted)
      BY <2>2 DEF RemoveWallet, Delete
    <3>3. upTo(last) \subseteq ui.counted
      <4>1. IsList(ui.list) /\ DOMAIN ui = Shape
        BY DEF Inv, Placed, Listing
      <4>2. Range(SubSeq(ui.list, 1, last)) \subseteq Range(ui.list)
        BY <4>1 DEF Range
      <4>. QED BY <3>1, <4>1, <4>2 DEF AccountsAt
    <3>4. \A a \in Range(accounts) \ Range(accounts') : a.id \in upTo(last)
      <4>. HIDE DEF upTo
      <4>. QED BY <3>2, DeleteIs DEF Inv
    <3>. QED BY <3>3, <3>4
  <2>3. KeyPress \/ Turn \/ ThreadEnds => RemoveWallet \/ accounts' = accounts
    BY AtTheQuestion DEF Turn, ThreadEnds, StoreSame
  <2>4. ~OtherProcess
    BY ModesDiffer DEF OtherProcess
  <2>. QED BY <2>1, <2>2, <2>3, <2>4 DEF Next
<1>. QED BY <1>1, InvAlways, PTL DEF Spec, RemovesWhatItAsked

(* With the list on screen the store's, New wallet never makes an account  *)
(* of a phrase, index and chain that is in the store: the index it takes   *)
(* is held by none, and there always is one.  (next_free_index.)           *)
THEOREM NewWalletsAreNew == Spec => NewWalletIsNew
<1>1. Inv /\ [Next]_vars =>
        [ChooseNewWallet /\ ui.list = accounts =>
           \A a \in Range(accounts') \ Range(accounts), b \in Range(accounts) :
             ~(a.source = b.source /\ a.index = b.index /\ a.chain = b.chain)]_vars
  <2>. SUFFICES ASSUME Inv, ChooseNewWallet, ui.list = accounts,
                       NEW a \in Range(accounts') \ Range(accounts), NEW b \in Range(accounts)
                PROVE  a.index # b.index
    OBVIOUS
  <2>a. PICK i : i = NextFreeIndex(ui)
    OBVIOUS
  <2>1. made \in Nat /\ Listing(accounts) /\ Listing(ui.list)
    BY DEF Inv
  <2>2. i \in Nat /\ i \notin Indices(ui)
    BY <2>1, <2>a, FreeIndexIs
  <2>3. PICK p : Create(p, i, ChainList)
    BY <2>a DEF ChooseNewWallet
  <2>4. a.index = i
    BY <2>1, <2>2, <2>3, ChainsAre, CreateIs
  <2>5. PICK n \in DOMAIN accounts : accounts[n] = b
    BY DEF Range
  <2>6. IndexOf(b) \in Indices(ui)
    BY <2>5 DEF Indices
  <2>7. i # None
    BY <2>2, TuiConstants
  <2>. QED BY <2>2, <2>4, <2>6, <2>7 DEF IndexOf
<1>. QED BY <1>1, InvAlways, PTL DEF Spec, NewWalletIsNew

----------------------------------------------------------------------------
(* The keyboard: the command pane and the input line.                      *)

PaneShape == {"mode", "focus", "filter", "cursor", "line", "note", "list"}
Bare(s) == DOMAIN s = PaneShape /\ s.line = {} /\ s.note = None

(* Away from the prompts the line is bare; at one it holds what was put    *)
(* into it there, and the note is that of an address prompt.               *)
Clean(s, prompt) ==
  /\ DOMAIN s = PaneShape
  /\ s.mode # Closed =>
       /\ s.mode[1] = "Input" \/ (s.line = {} /\ s.note = None)
       /\ \A i \in s.line : i[2] = prompt
       /\ s.note # None =>
            /\ s.mode \in {Input(<<"send to">>), Input(<<"balance of">>)}
            /\ s.note \in Takes \ Own

LEMMA ModesNamed ==
  /\ \A k : Input(k)[1] = "Input" /\ Confirm(k)[1] = "Confirm"
  /\ Browse[1] = "Browse" /\ Search[1] = "Search"
  /\ Help[1] = "Help" /\ Busy[1] = "Busy" /\ Closed[1] = "Closed"
BY DEF Input, Confirm, Browse, Search, Help,
       Busy, Closed

LEMMA BareIsClean ==
  ASSUME NEW s, Bare(s)
  PROVE  \A prompt : Clean(s, prompt)
BY DEF Bare, Clean

LEMMA StartInputIs ==
  ASSUME NEW s, DOMAIN s = PaneShape, NEW kind, StartInput(s, kind)
  PROVE  Clean(pane', opened')
<1>1. pane' = [s EXCEPT !.mode = Input(kind), !.line = {}, !.note = None]
  BY DEF StartInput
<1>2. Bare(pane')
  BY <1>1 DEF Bare, PaneShape
<1>. QED BY <1>2, BareIsClean

LEMMA StartAddressIs ==
  ASSUME NEW s, DOMAIN s = PaneShape, NEW kind, kind \in {<<"send to">>, <<"balance of">>},
         StartAddress(s, kind)
  PROVE  Clean(pane', opened')
<1>1. PICK note : /\ note \in {None} \cup (IF s.list THEN {clip} \cap (Takes \ Own) ELSE {})
                 /\ pane' = [s EXCEPT !.mode = Input(kind), !.line = {}, !.note = note]
  BY DEF StartAddress
<1>a. PICK t : t = [s EXCEPT !.mode = Input(kind), !.line = {}, !.note = note]
  OBVIOUS
<1>2. DOMAIN t = PaneShape /\ t.mode = Input(kind) /\ t.line = {} /\ t.note = note
  BY <1>a DEF PaneShape
<1>3. t.mode[1] = "Input"
  BY <1>2, ModesNamed
<1>4. note # None => note \in Takes \ Own
  BY <1>1
<1>5. t.mode \in {Input(<<"send to">>), Input(<<"balance of">>)}
  BY <1>2
<1>6. Clean(t, opened')
  BY <1>2, <1>3, <1>4, <1>5 DEF Clean
<1>. QED BY <1>1, <1>6, <1>a

LEMMA StartExportIs ==
  ASSUME NEW s, Bare(s), NEW kind, NEW name, StartExport(s, kind, name)
  PROVE  Clean(pane', opened')
<1>1. pane' = [s EXCEPT !.mode = Input(kind), !.line = {<<name, opened'>>}]
  BY DEF StartExport
<1>a. PICK n : n = opened'
  OBVIOUS
<1>b. PICK t : t = [s EXCEPT !.mode = Input(kind), !.line = {<<name, n>>}]
  OBVIOUS
<1>2. /\ DOMAIN t = PaneShape /\ t.mode = Input(kind) /\ t.line = {<<name, n>>}
      /\ t.note = None
  BY <1>b DEF PaneShape, Bare
<1>3. t.mode[1] = "Input"
  BY <1>2 DEF Input
<1>4. Clean(t, n)
  BY <1>2, <1>3 DEF Clean
<1>. QED BY <1>1, <1>4, <1>a, <1>b

(* A command run with a bare line leaves it so, or opens a prompt.         *)
LEMMA RunActionIs ==
  ASSUME NEW s, Bare(s), NEW a, RunAction(s, a)
  PROVE  Clean(pane', opened')
<1>1. ASSUME NEW t, Stays(t), Bare(t) PROVE Clean(pane', opened')
  BY <1>1, BareIsClean DEF Stays
<1>2. DOMAIN s = PaneShape
  BY DEF Bare
<1>3. CASE \/ a[1] \in DOMAIN PromptOf /\ StartInput(s, PromptOf[a[1]])
           \/ a[1] = "fee ceiling" /\ StartMaxFee(s)
           \/ a[1] = "derive" /\ s.list /\ StartInput(s, <<"index">>)
           \/ a[1] = "sign" /\ s.list /\ StartInput(s, <<"message">>)
  BY <1>2, <1>3, StartInputIs DEF StartMaxFee
<1>4. CASE \/ a[1] = "balance" /\ StartAddress(s, <<"balance of">>)
           \/ a[1] = "send" /\ s.list /\ StartAddress(s, <<"send to">>)
  BY <1>2, <1>4, StartAddressIs
<1>5. CASE \/ a[1] = "export" /\ StartExport(s, <<"keys", "jsonl">>, Suggested["keys"])
           \/ a[1] = "save" /\ StartExport(s, a, Suggested[a[2]])
  BY <1>5, StartExportIs
<1>6. CASE \/ a[1] \in {"send", "derive", "sign", "copy"} /\ ~s.list /\ Stays(s)
           \/ a[1] = "secrets" /\ Stays(s)
           \/ a[1] = "activate" /\ Stays(s)
  BY <1>1, <1>6
<1>7. ASSUME NEW mode PROVE Bare([s EXCEPT !.mode = mode])
  BY DEF Bare, PaneShape
<1>8. ASSUME NEW list PROVE Bare([s EXCEPT !.list = list])
  BY DEF Bare, PaneShape
<1>9. ASSUME NEW focus PROVE Bare([s EXCEPT !.focus = focus])
  BY DEF Bare, PaneShape
<1>10. ASSUME NEW mode, NEW focus PROVE Bare([s EXCEPT !.mode = mode, !.focus = focus])
  BY DEF Bare, PaneShape
<1>11. CASE \/ a[1] = "help" /\ Stays([s EXCEPT !.mode = Help])
            \/ a[1] = "quit" /\ Stays([s EXCEPT !.mode = Closed])
            \/ a[1] = "token" /\ \E mode \in {Browse, Busy} :
                 Stays([s EXCEPT !.mode = mode])
  BY <1>1, <1>7, <1>11
<1>12. CASE \/ a[1] = "recall" /\ Stays([s EXCEPT !.focus = "Recall"])
  BY <1>1, <1>9, <1>12
<1>13. CASE a[1] \in {"reload", "new wallet", "network"} /\
              \E list \in BOOLEAN : Stays([s EXCEPT !.list = list])
  BY <1>1, <1>8, <1>13
<1>14. CASE a[1] = "remove" /\ Stays(IF s.focus = "Recall" \/ ~s.list THEN s
                              ELSE [s EXCEPT !.mode = Confirm(<<"remove">>),
                                             !.focus = "Accounts"])
  <2>1. Bare(IF s.focus = "Recall" \/ ~s.list THEN s
             ELSE [s EXCEPT !.mode = Confirm(<<"remove">>), !.focus = "Accounts"])
    BY <1>10
  <2>. QED BY <1>1, <1>14, <2>1
<1>15. CASE a[1] = "copy" /\ CopyAddress(s)
  BY <1>15, BareIsClean DEF CopyAddress
<1>. QED BY <1>3, <1>4, <1>5, <1>6, <1>11, <1>12, <1>13, <1>14, <1>15 DEF RunAction

(* Away from the prompts.                                                  *)
LEMMA AwayIsBare ==
  ASSUME Clean(pane, opened), pane.mode[1] \in {"Browse", "Search", "Help", "Busy", "Confirm"}
  PROVE  Bare(pane)
<1>1. pane.mode # Closed /\ pane.mode[1] # "Input"
  BY ModesNamed
<1>. QED BY <1>1 DEF Clean, Bare

LEMMA BareWith ==
  ASSUME NEW s, Bare(s), NEW t, DOMAIN t = PaneShape, t.line = s.line, t.note = s.note
  PROVE  Bare(t)
BY DEF Bare

LEMMA BareStep ==
  ASSUME Bare(pane')
  PROVE  Clean(pane', opened')
BY BareIsClean

LEMMA BrowsingKeys ==
  ASSUME Clean(pane, opened),
         \/ BrowseArrow \/ BrowseTab \/ EnterElsewhere
         \/ BrowseEsc \/ OpenSearch \/ SearchTypes
         \/ SearchArrow \/ SearchNothing \/ SearchEsc
         \/ Dismiss
  PROVE  Clean(pane', opened')
<1>1. Bare(pane)
  <2>1. pane.mode[1] \in {"Browse", "Search", "Help", "Busy", "Confirm"}
    BY ModesNamed DEF BrowseArrow, BrowseTab, EnterElsewhere,
         BrowseEsc, OpenSearch, SearchTypes, SearchArrow,
         SearchNothing, SearchEsc, Dismiss, Showing
  <2>. QED BY <2>1, AwayIsBare
<1>2. /\ \A m : Bare([pane EXCEPT !.mode = m]) /\ Bare([pane EXCEPT !.focus = m])
      /\ \A m, n : /\ Bare([pane EXCEPT !.mode = m, !.list = n])
                   /\ Bare([pane EXCEPT !.focus = m, !.list = n])
                   /\ Bare([pane EXCEPT !.focus = m, !.mode = n])
                   /\ Bare([pane EXCEPT !.filter = m, !.cursor = n])
      /\ \A m : Bare([pane EXCEPT !.cursor = m])
  BY <1>1 DEF Bare, PaneShape
<1>3. \A by : Bare(MoveCursor(pane, by))
  BY <1>1, <1>2 DEF MoveCursor
<1>4. CASE BrowseArrow \/ SearchArrow
  BY <1>3, <1>4, BareStep DEF BrowseArrow, SearchArrow
<1>5. CASE BrowseTab
  BY <1>2, <1>5, BareStep DEF BrowseTab, CycleFocus, Shows
<1>6. CASE EnterElsewhere
  <2>1. CASE \E m : Shows([pane EXCEPT !.mode = m])
    <3>1. PICK m : Shows([pane EXCEPT !.mode = m])
      BY <2>1
    <3>2. Bare(pane')
      BY <1>2, <3>1 DEF Shows
    <3>. QED BY <3>2, BareStep
  <2>2. CASE \E n : Shows([pane EXCEPT !.focus = "Accounts", !.list = n])
    <3>1. PICK n : Shows([pane EXCEPT !.focus = "Accounts", !.list = n])
      BY <2>2
    <3>2. Bare(pane')
      BY <1>2, <3>1 DEF Shows
    <3>. QED BY <3>2, BareStep
  <2>. QED BY <1>6, <2>1, <2>2 DEF EnterElsewhere
<1>7. CASE BrowseEsc \/ OpenSearch \/ SearchNothing
  <2>1. CASE BrowseEsc
    <3>1. Bare(pane')
      BY <1>2, <2>1 DEF BrowseEsc, Shows
    <3>. QED BY <3>1, BareStep
  <2>2. CASE OpenSearch
    <3>1. Bare(pane')
      BY <1>2, <2>2 DEF OpenSearch, Shows
    <3>. QED BY <3>1, BareStep
  <2>3. CASE SearchNothing
    <3>1. Bare(pane')
      BY <1>2, <2>3 DEF SearchNothing, Shows
    <3>. QED BY <3>1, BareStep
  <2>. QED BY <1>7, <2>1, <2>2, <2>3
<1>8. CASE SearchTypes
  <2>1. PICK filter : pane' = SetFilter(pane, filter)
    BY <1>8 DEF SearchTypes
  <2>. QED BY <1>2, <2>1, BareStep DEF SetFilter
<1>9. CASE SearchEsc
  <2>a. PICK s : s = [pane EXCEPT !.mode = Browse]
    OBVIOUS
  <2>1. Bare(s)
    BY <1>2, <2>a
  <2>2. Bare(SetFilter(s, <<>>))
    BY <2>1 DEF SetFilter, Bare, PaneShape
  <2>3. pane' = SetFilter(s, <<>>)
    BY <1>9, <2>a DEF SearchEsc
  <2>. QED BY <2>2, <2>3, BareStep
<1>10. CASE Dismiss
  <2>1. CASE \E m : Shows([pane EXCEPT !.mode = m])
    <3>1. PICK m : Shows([pane EXCEPT !.mode = m])
      BY <2>1
    <3>2. Bare(pane')
      BY <1>2, <3>1 DEF Shows
    <3>. QED BY <3>2, BareStep
  <2>2. CASE \E n : Shows([pane EXCEPT !.mode = Browse, !.list = n])
    <3>1. PICK n : Shows([pane EXCEPT !.mode = Browse, !.list = n])
      BY <2>2
    <3>2. Bare(pane')
      BY <1>2, <3>1 DEF Shows
    <3>. QED BY <3>2, BareStep
  <2>. QED BY <1>10, <2>1, <2>2 DEF Dismiss
<1>. QED BY <1>4, <1>5, <1>6, <1>7, <1>8, <1>9, <1>10

LEMMA RunningKeys ==
  ASSUME Clean(pane, opened), EnterRuns \/ BrowseKey
  PROVE  Clean(pane', opened')
<1>1. Bare(pane)
  <2>1. pane.mode[1] \in {"Browse", "Search", "Help", "Busy", "Confirm"}
    BY ModesNamed DEF EnterRuns, BrowseKey, Showing
  <2>. QED BY <2>1, AwayIsBare
<1>2. CASE EnterRuns
  <2>a. PICK s : s = [pane EXCEPT !.mode = Browse]
    OBVIOUS
  <2>1. Bare(s)
    BY <1>1, <2>a DEF Bare, PaneShape
  <2>2. PICK a : RunAction(s, a)
    BY <1>2, <2>a DEF EnterRuns
  <2>. QED BY <2>1, <2>2, RunActionIs
<1>3. CASE BrowseKey
  <2>1. PICK a : RunAction(pane, a)
    BY <1>3 DEF BrowseKey
  <2>. QED BY <1>1, <2>1, RunActionIs
<1>. QED BY <1>2, <1>3

LEMMA PromptKeys ==
  ASSUME Clean(pane, opened),
         \/ Type \/ Backspace \/ CtrlU \/ CtrlV
         \/ InputEsc \/ SubmitFile \/ SubmitSendTo
         \/ SubmitAndWait \/ SubmitHere
  PROVE  Clean(pane', opened')
<1>1. pane.mode[1] = "Input" /\ DOMAIN pane = PaneShape
  <2>1. pane.mode[1] = "Input"
    BY ModesNamed DEF Type, Backspace, CtrlU, CtrlV,
         InputEsc, SubmitFile, SubmitSendTo, SubmitAndWait,
         SubmitHere, Showing, Prompting
  <2>. QED BY <2>1 DEF Clean
<1>2. \A i \in pane.line : i[2] = opened
  BY <1>1, ModesNamed DEF Clean
<1>a. PICK n : n = opened
  OBVIOUS
<1>3. ASSUME NEW line, \A i \in line : i[2] = n,
             pane' = [pane EXCEPT !.line = line, !.note = None], opened' = opened
      PROVE  Clean(pane', opened')
  <2>b. PICK t : t = [pane EXCEPT !.line = line, !.note = None]
    OBVIOUS
  <2>1. /\ DOMAIN t = PaneShape /\ t.mode = pane.mode /\ t.line = line /\ t.note = None
    BY <1>1, <2>b DEF PaneShape
  <2>2. t.mode[1] = "Input"
    BY <1>1, <2>1
  <2>3. Clean(t, n)
    BY <1>3, <2>1, <2>2 DEF Clean
  <2>. QED BY <1>3, <1>a, <2>3, <2>b
<1>4. ASSUME NEW text
      PROVE  [Put(pane, text) EXCEPT !.note = None]
               = [pane EXCEPT !.line = pane.line \cup {<<text, n>>}, !.note = None]
  BY <1>1, <1>a DEF Put, PaneShape
<1>5. \A text : \A i \in pane.line \cup {<<text, n>>} : i[2] = n
  BY <1>2, <1>a
<1>6. CASE Type
  <2>1. PICK text : pane' = [Put(pane, text) EXCEPT !.note = None] /\ opened' = opened
    BY <1>6 DEF Type, Shows, Aside
  <2>. QED BY <1>3, <1>4, <1>5, <2>1
<1>7. CASE Backspace
  <2>1. PICK i : pane' = [pane EXCEPT !.line = pane.line \ i, !.note = None] /\ opened' = opened
    BY <1>7 DEF Backspace, Shows, Aside
  <2>2. \A j \in pane.line \ i : j[2] = n
    BY <1>2, <1>a
  <2>. QED BY <1>3, <2>1, <2>2
<1>8. CASE CtrlU
  <2>a. PICK line : line = {}
    OBVIOUS
  <2>1. pane' = [pane EXCEPT !.line = line, !.note = None] /\ opened' = opened
    BY <1>8, <2>a DEF CtrlU, Cleared, Shows, Aside
  <2>2. \A i \in line : i[2] = n
    BY <2>a
  <2>. QED BY <1>3, <2>1, <2>2
<1>9. CASE CtrlV
  <2>1. CASE pane' = [Put(pane, clip) EXCEPT !.note = None] /\ opened' = opened
    BY <1>3, <1>4, <1>5, <2>1
  <2>2. CASE pane' = [pane EXCEPT !.note = None] /\ opened' = opened
    <3>1. [pane EXCEPT !.note = None] = [pane EXCEPT !.line = pane.line, !.note = None]
      BY <1>1 DEF PaneShape
    <3>2. \A j \in pane.line : j[2] = n
      BY <1>2, <1>a
    <3>. QED BY <1>3, <2>2, <3>1, <3>2
  <2>. QED BY <1>9, <2>1, <2>2 DEF CtrlV, Shows, Aside
<1>b. PICK c : c = Submitted
  OBVIOUS
<1>10. Bare(c)
  BY <1>1, <1>b DEF Submitted, Cleared, Bare, PaneShape
<1>11. \A m : Bare([c EXCEPT !.mode = m]) /\ Bare([c EXCEPT !.list = m])
  BY <1>10 DEF Bare, PaneShape
<1>12. CASE InputEsc \/ SubmitFile
  BY <1>10, <1>12, <1>b, BareStep DEF InputEsc, SubmitFile, Submitted,
       Shows
<1>13. CASE SubmitSendTo
  <2>1. CASE StartInput(c, <<"amount">>)
    BY <1>10, <2>1, StartInputIs DEF Bare
  <2>2. CASE Shows(c)
    BY <1>10, <2>2, BareStep DEF Shows
  <2>. QED BY <1>13, <1>b, <2>1, <2>2 DEF SubmitSendTo
<1>14. CASE SubmitAndWait
  <2>1. PICK m : pane' = [c EXCEPT !.mode = m]
    BY <1>14, <1>b DEF SubmitAndWait, Shows
  <2>. QED BY <1>11, <2>1, BareStep
<1>15. CASE SubmitHere
  <2>1. PICK m : pane' = [c EXCEPT !.list = m]
    BY <1>15, <1>b DEF SubmitHere, Shows
  <2>. QED BY <1>11, <2>1, BareStep
<1>. QED BY <1>6, <1>7, <1>8, <1>9, <1>12, <1>13, <1>14, <1>15

LEMMA OtherKeys ==
  ASSUME Clean(pane, opened), Paste \/ CtrlC \/ Copied
  PROVE  Clean(pane', opened')
<1>a. PICK n : n = opened
  OBVIOUS
<1>1. opened' = opened
  BY DEF Paste, CtrlC, Copied, Shows, Aside
<1>2. CASE pane' = pane
  BY <1>1, <1>2 DEF Clean
<1>3. CASE CtrlC
  <2>1. pane' = [pane EXCEPT !.mode = Closed]
    BY <1>3 DEF CtrlC, Shows
  <2>2. DOMAIN pane' = PaneShape /\ pane'.mode = Closed
    BY <2>1 DEF Clean, PaneShape
  <2>. QED BY <2>2 DEF Clean
<1>4. CASE pane.mode[1] = "Input" /\ \E text : pane' = Put(pane, text)
  <2>1. PICK text : pane' = Put(pane, text)
    BY <1>4
  <2>b. PICK t : t = [pane EXCEPT !.line = @ \cup {<<text, n>>}]
    OBVIOUS
  <2>2. pane' = t
    BY <2>1, <1>a, <2>b DEF Put
  <2>3. /\ DOMAIN t = PaneShape /\ t.mode = pane.mode /\ t.note = pane.note
        /\ t.line = pane.line \cup {<<text, n>>}
    BY <2>b DEF Clean, PaneShape
  <2>4. pane.mode # Closed
    BY <1>4, ModesNamed
  <2>5. /\ \A i \in pane.line : i[2] = n
        /\ pane.note # None =>
             /\ pane.mode \in {Input(<<"send to">>), Input(<<"balance of">>)}
             /\ pane.note \in Takes \ Own
    BY <2>4, <1>a DEF Clean
  <2>c. ASSUME NEW i \in pane.line \cup {<<text, n>>} PROVE i[2] = n
    <3>1. CASE i \in pane.line
      BY <2>5, <3>1
    <3>2. CASE i = <<text, n>>
      BY <3>2
    <3>. QED BY <3>1, <3>2
  <2>6. \A i \in t.line : i[2] = n
    BY <2>3, <2>c
  <2>7. t.mode[1] = "Input"
    BY <1>4, <2>3
  <2>8. Clean(t, n)
    BY <2>3, <2>5, <2>6, <2>7 DEF Clean
  <2>. QED BY <1>1, <2>2, <2>8, <1>a
<1>5. Paste =>
        (\/ pane' = pane
         \/ pane.mode[1] = "Input" /\ \E text : pane' = Put(pane, text))
  BY DEF Paste, Shows, Prompting
<1>6. Copied => pane' = pane
  BY DEF Copied
<1>. QED BY <1>2, <1>3, <1>4, <1>5, <1>6

LEMMA CleanAlways == PaneSpec => []Clean(pane, opened)
<1>1. PaneInit => Clean(pane, opened)
  <2>. SUFFICES ASSUME PaneInit PROVE Clean(pane, opened)
    OBVIOUS
  <2>1. PICK list : pane = [mode |-> Browse, focus |-> "Commands", filter |-> <<>>,
                              cursor |-> 1, line |-> {}, note |-> None, list |-> list]
    BY DEF PaneInit
  <2>2. Bare(pane)
    BY <2>1 DEF Bare, PaneShape
  <2>. QED BY <2>2, BareIsClean
<1>2. Clean(pane, opened) /\ [PaneNext]_paneVars => Clean(pane, opened)'
  <2>. SUFFICES ASSUME Clean(pane, opened), [PaneNext]_paneVars
                PROVE  Clean(pane', opened')
    OBVIOUS
  <2>1. CASE PaneNext
    BY <2>1, BrowsingKeys, RunningKeys, PromptKeys, OtherKeys DEF PaneNext
  <2>2. CASE UNCHANGED paneVars
    BY <2>2 DEF paneVars, Clean
  <2>. QED BY <2>1, <2>2
<1>. QED BY <1>1, <1>2, PTL DEF PaneSpec

(* What goes into a prompt is that prompt's only and goes with it, and the *)
(* note about the clipboard is up at address prompts alone, about an       *)
(* address of somebody else's: no phrase or key is met in a later line,    *)
(* whatever is typed, pasted, copied elsewhere, searched for or run.       *)
(* (start_input, clear_input, note_clipboard_address.)                     *)
THEOREM NothingEverLingers == PaneSpec => []NothingLingers
<1>1. Clean(pane, opened) => NothingLingers
  BY DEF Clean, NothingLingers, Showing, Prompting
<1>. QED BY <1>1, CleanAlways, PTL

----------------------------------------------------------------------------
(* The row under the cursor.                                               *)

LEMMA ListsJoin ==
  ASSUME NEW l, IsList(l), NEW m, IsList(m)
  PROVE  /\ IsList(l \o m) /\ Len(l \o m) = Len(l) + Len(m)
         /\ \A k \in 1 .. Len(l) : (l \o m)[k] = l[k]
<1>a. PICK u : u = l \o m
  OBVIOUS
<1>. DEFINE S == Range(l) \cup Range(m)
<1>1. l \in Seq(S) /\ m \in Seq(S) /\ Len(l) \in Nat /\ Len(m) \in Nat
  BY ListIs, SeqDef DEF IsList
<1>2. u \in Seq(S) /\ Len(u) = Len(l) + Len(m)
  BY <1>1, <1>a
<1>3. \A k \in 1 .. Len(l) : u[k] = l[k]
  BY <1>1, <1>2, <1>a
<1>4. IsList(u)
  BY <1>2, ListsOf
<1>. QED BY <1>2, <1>3, <1>4, <1>a

LEMMA CommandsAre ==
  ASSUME IsList(Networks), IsList(Tokens)
  PROVE  /\ IsList(CommandList) /\ Len(CommandList) \in Nat
         /\ 1 \in DOMAIN CommandList
         /\ CommandList[1] = Command("balance", "b")
<1>a. PICK a : a = FirstCommands
  OBVIOUS
<1>b. PICK b : b = NetworkCommands
  OBVIOUS
<1>c. PICK c : c = TokenCommands
  OBVIOUS
<1>d. PICK d : d = LastCommands
  OBVIOUS
<1>1. IsList(a) /\ Len(a) = 17 /\ a[1] = Command("balance", "b")
  <2>1. Len(a) = 17 /\ a[1] = Command("balance", "b")
    BY <1>a DEF FirstCommands
  <2>2. FirstCommands \in Seq({
          Command("balance", "b"), Command("send", "s"),
          Command("new wallet", "n"), Command("new seed", "N"),
          Command("import mnemonic", "m"), Command("import key", "p"),
          Command("recall", "c"), Command("derive", "d"),
          Command("activate", "a"), Command("copy", "y"),
          Command("sign", "g"), Save("jsonl", "1"),
          Save("csv", "2"), Save("txt", "3"), Save("md", "4"),
          Command("export", "e"), Command("secrets", "v")})
    BY DEF FirstCommands
  <2>. QED BY <1>a, <2>1, <2>2, ListsOf
<1>2. IsList(b)
  <2>1. b = [i \in 1 .. Len(Networks) |-> b[i]] /\ Len(Networks) \in Nat
    BY <1>b, ListIs DEF NetworkCommands
  <2>2. b \in Seq({b[i] : i \in 1 .. Len(Networks)})
    BY <2>1, SeqDef
  <2>. QED BY <2>2, ListsOf
<1>3. IsList(c)
  <2>1. c = [i \in 1 .. Len(Tokens) |-> c[i]] /\ Len(Tokens) \in Nat
    BY <1>c, ListIs DEF TokenCommands
  <2>2. c \in Seq({c[i] : i \in 1 .. Len(Tokens)})
    BY <2>1, SeqDef
  <2>. QED BY <2>2, ListsOf
<1>4. IsList(d)
  <2>1. LastCommands \in Seq({
          Command("fee ceiling", None), Command("remove", "x"),
          Command("reload", "r"), Command("help", "?"),
          Command("quit", "q")})
    BY DEF LastCommands
  <2>. QED BY <1>d, <2>1, ListsOf
<1>e. PICK ab : ab = a \o b
  OBVIOUS
<1>f. PICK abc : abc = ab \o c
  OBVIOUS
<1>g. PICK all : all = abc \o d
  OBVIOUS
<1>5. Len(b) \in Nat /\ Len(c) \in Nat /\ Len(d) \in Nat
  BY <1>2, <1>3, <1>4, ListIs
<1>6. IsList(ab) /\ Len(ab) = 17 + Len(b) /\ ab[1] = a[1]
  <2>1. 1 \in 1 .. Len(a)
    BY <1>1
  <2>2. IsList(a \o b) /\ Len(a \o b) = Len(a) + Len(b) /\ (a \o b)[1] = a[1]
    BY <1>1, <1>2, <2>1, ListsJoin
  <2>. QED BY <1>1, <1>e, <2>2
<1>7. IsList(abc) /\ Len(abc) = Len(ab) + Len(c) /\ abc[1] = ab[1]
  <2>1. 1 \in 1 .. Len(ab)
    BY <1>5, <1>6
  <2>. QED BY <1>3, <1>6, <1>f, <2>1, ListsJoin
<1>8. IsList(all) /\ Len(all) = Len(abc) + Len(d) /\ all[1] = abc[1]
  <2>1. 1 \in 1 .. Len(abc)
    BY <1>5, <1>6, <1>7
  <2>. QED BY <1>4, <1>7, <1>g, <2>1, ListsJoin
<1>9. Len(all) \in Nat /\ 1 \in DOMAIN all
  BY <1>5, <1>6, <1>7, <1>8, ListIs
<1>10. CommandList = all
  BY <1>a, <1>b, <1>c, <1>d, <1>e, <1>f, <1>g DEF CommandList
<1>. QED BY <1>1, <1>6, <1>7, <1>8, <1>9, <1>10

LEMMA DrawnIs ==
  ASSUME IsList(Networks), IsList(Tokens), NEW filter
  PROVE  /\ Cardinality(Drawn(filter)) \in Nat
         /\ Cardinality(Drawn(filter)) = 0 <=> Drawn(filter) = {}
<1>a. PICK K : K = Drawn(filter)
  OBVIOUS
<1>1. K \in SUBSET DOMAIN CommandList
  BY <1>a DEF Drawn
<1>2. IsFiniteSet(K)
  BY <1>1, CommandsAre, SiftedIs
<1>3. Cardinality(K) \in Nat /\ (Cardinality(K) = 0 <=> K = {})
  BY <1>2, FS_CardinalityType, FS_EmptySet
<1>. QED BY <1>3, <1>a

(* With no search the first row is that of balances.                       *)
LEMMA FirstIsBalance ==
  ASSUME IsList(Networks), IsList(Tokens)
  PROVE  /\ Drawn(<<>>) # {}
         /\ VisibleCommands(<<>>)[1].action = <<"balance">>
<1>a. PICK K : K = Drawn(<<>>)
  OBVIOUS
<1>b. PICK l : l = CommandList
  OBVIOUS
<1>1. IsList(l) /\ 1 \in DOMAIN l /\ l[1] = Command("balance", "b")
  BY <1>b, CommandsAre
<1>2. l[1].action = <<"balance">> /\ ~l[1].hidden
  BY <1>1 DEF Command
<1>3. Matches(l[1], <<>>)
  BY DEF Matches
<1>4. K \in SUBSET DOMAIN l /\ 1 \in K
  BY <1>1, <1>2, <1>3, <1>a, <1>b DEF Drawn
<1>5. IsFiniteSet(K) /\ K \in SUBSET Nat /\ Sifted(l, K)[Rank(K, 1)] = l[1]
  BY <1>1, <1>4, SiftedIs
<1>6. Rank(K, 1) = 1
  <2>1. K \in SUBSET (1 .. Len(l))
    BY <1>1, <1>4, ListIs
  <2>2. {j \in K : j <= 1} = {1}
    BY <1>4, <2>1
  <2>. QED BY <2>2, FS_Singleton DEF Rank
<1>7. VisibleCommands(<<>>) = Sifted(l, K)
  BY <1>a, <1>b DEF VisibleCommands
<1>. QED BY <1>2, <1>4, <1>5, <1>6, <1>7, <1>a

(* The cursor is on a row if there is one, and that is the row aimed at.   *)
OnRow(s, row) ==
  /\ DOMAIN s = PaneShape /\ s.cursor \in Nat
  /\ s.cursor = 0 <=> Drawn(s.filter) = {}
  /\ row = IF s.cursor = 0 THEN None
           ELSE VisibleCommands(s.filter)[s.cursor].action
RanIt(r) == r # None => r.ran = r.aimed

(* What leaves search and cursor alone.                                    *)
SearchStays(s, filter, cursor) ==
  DOMAIN s = PaneShape /\ s.filter = filter /\ s.cursor = cursor

LEMMA StaysWith ==
  ASSUME NEW s, NEW f, NEW c, SearchStays(s, f, c)
  PROVE  /\ \A m : /\ SearchStays([s EXCEPT !.mode = m], f, c)
                   /\ SearchStays([s EXCEPT !.focus = m], f, c)
                   /\ SearchStays([s EXCEPT !.list = m], f, c)
                   /\ SearchStays([s EXCEPT !.note = m], f, c)
         /\ \A m, n : /\ SearchStays([s EXCEPT !.mode = m, !.line = n], f, c)
                      /\ SearchStays([s EXCEPT !.mode = m, !.focus = n], f, c)
                      /\ SearchStays([s EXCEPT !.focus = m, !.mode = n], f, c)
                      /\ SearchStays([s EXCEPT !.focus = m, !.list = n], f, c)
                      /\ SearchStays([s EXCEPT !.mode = m, !.list = n], f, c)
                      /\ SearchStays([s EXCEPT !.line = m, !.note = n], f, c)
         /\ \A m, n, p : SearchStays([s EXCEPT !.mode = m, !.line = n, !.note = p], f, c)
BY DEF SearchStays, PaneShape

LEMMA RunActionStays ==
  ASSUME NEW s, NEW f, NEW c, SearchStays(s, f, c), NEW a, RunAction(s, a)
  PROVE  SearchStays(pane', f, c)
<1>1. ASSUME NEW kind, StartInput(s, kind) PROVE SearchStays(pane', f, c)
  BY <1>1, StaysWith DEF StartInput
<1>2. ASSUME NEW kind, StartAddress(s, kind) PROVE SearchStays(pane', f, c)
  <2>1. PICK note : pane' = [s EXCEPT !.mode = Input(kind), !.line = {}, !.note = note]
    BY <1>2 DEF StartAddress
  <2>. QED BY <2>1, StaysWith
<1>3. ASSUME NEW kind, NEW name, StartExport(s, kind, name) PROVE SearchStays(pane', f, c)
  <2>1. PICK line : pane' = [s EXCEPT !.mode = Input(kind), !.line = line]
    BY <1>3 DEF StartExport
  <2>. QED BY <2>1, StaysWith
<1>4. CASE \/ a[1] \in DOMAIN PromptOf /\ StartInput(s, PromptOf[a[1]])
           \/ a[1] = "fee ceiling" /\ StartMaxFee(s)
           \/ a[1] = "derive" /\ s.list /\ StartInput(s, <<"index">>)
           \/ a[1] = "sign" /\ s.list /\ StartInput(s, <<"message">>)
  BY <1>1, <1>4 DEF StartMaxFee
<1>5. CASE \/ a[1] = "balance" /\ StartAddress(s, <<"balance of">>)
           \/ a[1] = "send" /\ s.list /\ StartAddress(s, <<"send to">>)
  BY <1>2, <1>5
<1>6. CASE \/ a[1] = "export" /\ StartExport(s, <<"keys", "jsonl">>, Suggested["keys"])
           \/ a[1] = "save" /\ StartExport(s, a, Suggested[a[2]])
  BY <1>3, <1>6
<1>7. CASE \/ a[1] \in {"send", "derive", "sign", "copy"} /\ ~s.list /\ Stays(s)
           \/ a[1] = "secrets" /\ Stays(s)
           \/ a[1] = "activate" /\ Stays(s)
           \/ a[1] = "copy" /\ CopyAddress(s)
  BY <1>7 DEF Stays, CopyAddress
<1>8. CASE \/ a[1] = "help" /\ Stays([s EXCEPT !.mode = Help])
           \/ a[1] = "quit" /\ Stays([s EXCEPT !.mode = Closed])
           \/ a[1] = "token" /\ \E mode \in {Browse, Busy} :
                Stays([s EXCEPT !.mode = mode])
  <2>1. PICK m : pane' = [s EXCEPT !.mode = m]
    BY <1>8 DEF Stays
  <2>. QED BY <2>1, StaysWith
<1>9. CASE a[1] = "recall" /\ Stays([s EXCEPT !.focus = "Recall"])
  BY <1>9, StaysWith DEF Stays
<1>10. CASE a[1] \in {"reload", "new wallet", "network"} /\
              \E list \in BOOLEAN : Stays([s EXCEPT !.list = list])
  <2>1. PICK m : pane' = [s EXCEPT !.list = m]
    BY <1>10 DEF Stays
  <2>. QED BY <2>1, StaysWith
<1>11. CASE a[1] = "remove" /\ Stays(IF s.focus = "Recall" \/ ~s.list THEN s
                              ELSE [s EXCEPT !.mode = Confirm(<<"remove">>),
                                             !.focus = "Accounts"])
  <2>1. \/ pane' = s
        \/ pane' = [s EXCEPT !.mode = Confirm(<<"remove">>), !.focus = "Accounts"]
    BY <1>11 DEF Stays
  <2>2. SearchStays([s EXCEPT !.mode = Confirm(<<"remove">>), !.focus = "Accounts"], f, c)
    BY StaysWith
  <2>3. CASE pane' = s
    BY <2>3 DEF SearchStays
  <2>4. CASE pane' = [s EXCEPT !.mode = Confirm(<<"remove">>), !.focus = "Accounts"]
    BY <2>2, <2>4 DEF SearchStays
  <2>. QED BY <2>1, <2>3, <2>4
<1>. QED BY <1>4, <1>5, <1>6, <1>7, <1>8, <1>9, <1>10, <1>11 DEF RunAction

(* Keys and answers that do not choose a row.                              *)
LEMMA OthersStay ==
  ASSUME DOMAIN pane = PaneShape,
         \/ BrowseTab \/ EnterElsewhere \/ BrowseEsc
         \/ OpenSearch \/ SearchNothing \/ Dismiss
         \/ CtrlC \/ Copied
  PROVE  /\ SearchStays(pane', pane.filter, pane.cursor)
         /\ aimed' = aimed /\ ran' = None
<1>a. PICK f : f = pane.filter
  OBVIOUS
<1>b. PICK c : c = pane.cursor
  OBVIOUS
<1>c. SUFFICES SearchStays(pane', f, c) /\ aimed' = aimed /\ ran' = None
  BY <1>a, <1>b
<1>1. SearchStays(pane, f, c)
  BY <1>a, <1>b DEF SearchStays
<1>2. ASSUME NEW t, Shows(t), SearchStays(t, f, c)
      PROVE  SearchStays(pane', f, c) /\ aimed' = aimed /\ ran' = None
  BY <1>2 DEF Shows, RanNone
<1>3. CASE \E m : \/ Shows([pane EXCEPT !.mode = m])
                  \/ Shows([pane EXCEPT !.focus = m])
  <2>1. PICK m : \/ Shows([pane EXCEPT !.mode = m])
                 \/ Shows([pane EXCEPT !.focus = m])
    BY <1>3
  <2>2. SearchStays([pane EXCEPT !.mode = m], f, c) /\ SearchStays([pane EXCEPT !.focus = m], f, c)
    BY <1>1, StaysWith
  <2>. QED BY <1>2, <2>1, <2>2
<1>4. CASE \E m, n : \/ Shows([pane EXCEPT !.mode = m, !.list = n])
                     \/ Shows([pane EXCEPT !.focus = m, !.list = n])
                     \/ Shows([pane EXCEPT !.focus = m, !.mode = n])
  <2>1. PICK m, n : \/ Shows([pane EXCEPT !.mode = m, !.list = n])
                    \/ Shows([pane EXCEPT !.focus = m, !.list = n])
                    \/ Shows([pane EXCEPT !.focus = m, !.mode = n])
    BY <1>4
  <2>2. /\ SearchStays([pane EXCEPT !.mode = m, !.list = n], f, c)
        /\ SearchStays([pane EXCEPT !.focus = m, !.list = n], f, c)
        /\ SearchStays([pane EXCEPT !.focus = m, !.mode = n], f, c)
    BY <1>1, StaysWith
  <2>. QED BY <1>2, <2>1, <2>2
<1>5. CASE BrowseTab
  <2>1. SearchStays(CycleFocus(pane), f, c)
    BY <1>1, StaysWith DEF CycleFocus
  <2>. QED BY <1>2, <1>5, <2>1 DEF BrowseTab
<1>6. CASE EnterElsewhere
  BY <1>3, <1>4, <1>6 DEF EnterElsewhere
<1>7. CASE BrowseEsc
  <2>1. \/ Shows([pane EXCEPT !.focus = "Accounts"])
        \/ Shows([pane EXCEPT !.mode = Closed])
    BY <1>7 DEF BrowseEsc
  <2>. QED BY <1>3, <2>1
<1>8. CASE OpenSearch
  BY <1>4, <1>8 DEF OpenSearch
<1>9. CASE SearchNothing \/ CtrlC
  BY <1>3, <1>9 DEF SearchNothing, CtrlC
<1>10. CASE Dismiss
  BY <1>3, <1>4, <1>10 DEF Dismiss
<1>11. CASE Copied
  BY <1>1, <1>11 DEF Copied, RanNone
<1>. QED BY <1>5, <1>6, <1>7, <1>8, <1>9, <1>10, <1>11

LEMMA PromptsStay ==
  ASSUME DOMAIN pane = PaneShape,
         \/ Type \/ Backspace \/ CtrlU \/ CtrlV
         \/ Paste \/ InputEsc \/ SubmitFile
         \/ SubmitSendTo \/ SubmitAndWait \/ SubmitHere
  PROVE  /\ SearchStays(pane', pane.filter, pane.cursor)
         /\ aimed' = aimed /\ ran' = None
<1>a. PICK f : f = pane.filter
  OBVIOUS
<1>b. PICK c : c = pane.cursor
  OBVIOUS
<1>c. SUFFICES SearchStays(pane', f, c) /\ aimed' = aimed /\ ran' = None
  BY <1>a, <1>b
<1>1. SearchStays(pane, f, c)
  BY <1>a, <1>b DEF SearchStays
<1>2. ASSUME NEW t, Shows(t), SearchStays(t, f, c)
      PROVE  SearchStays(pane', f, c) /\ aimed' = aimed /\ ran' = None
  BY <1>2 DEF Shows, RanNone
<1>3. \A text : SearchStays(Put(pane, text), f, c)
                /\ SearchStays([Put(pane, text) EXCEPT !.note = None], f, c)
  BY <1>1 DEF Put, SearchStays, PaneShape
<1>d. PICK t : t = Submitted
  OBVIOUS
<1>4. SearchStays(t, f, c)
  BY <1>1, <1>d DEF Submitted, Cleared, SearchStays, PaneShape
<1>5. CASE Type
  BY <1>2, <1>3, <1>5 DEF Type
<1>6. CASE Backspace
  <2>1. PICK line : Shows([pane EXCEPT !.line = line, !.note = None])
    BY <1>6 DEF Backspace
  <2>2. SearchStays([pane EXCEPT !.line = line, !.note = None], f, c)
    BY <1>1, StaysWith
  <2>. QED BY <1>2, <2>1, <2>2
<1>7. CASE CtrlU
  <2>1. SearchStays(Cleared(pane), f, c)
    BY <1>1, StaysWith DEF Cleared
  <2>. QED BY <1>2, <1>7, <2>1 DEF CtrlU
<1>8. CASE CtrlV
  <2>1. SearchStays([pane EXCEPT !.note = None], f, c)
    BY <1>1, StaysWith
  <2>. QED BY <1>2, <1>3, <1>8, <2>1 DEF CtrlV
<1>9. CASE Paste
  <2>1. PICK text : Shows(IF Prompting THEN Put(pane, text) ELSE pane)
    BY <1>9 DEF Paste
  <2>2. SearchStays(IF Prompting THEN Put(pane, text) ELSE pane, f, c)
    BY <1>1, <1>3
  <2>. QED BY <1>2, <2>1, <2>2
<1>10. CASE InputEsc \/ SubmitFile
  <2>1. Shows(t)
    BY <1>10, <1>d DEF InputEsc, SubmitFile, Submitted
  <2>. QED BY <1>2, <1>4, <2>1
<1>11. CASE SubmitSendTo
  <2>1. CASE StartInput(t, <<"amount">>) /\ RanNone
    <3>1. SearchStays(pane', f, c)
      BY <1>4, <2>1, StaysWith DEF StartInput
    <3>. QED BY <2>1, <3>1 DEF RanNone
  <2>2. CASE Shows(t)
    BY <1>2, <1>4, <2>2
  <2>. QED BY <1>11, <1>d, <2>1, <2>2 DEF SubmitSendTo
<1>12. CASE SubmitAndWait
  <2>1. PICK m : Shows([t EXCEPT !.mode = m])
    BY <1>12, <1>d DEF SubmitAndWait
  <2>2. SearchStays([t EXCEPT !.mode = m], f, c)
    BY <1>4, StaysWith
  <2>. QED BY <1>2, <2>1, <2>2
<1>13. CASE SubmitHere
  <2>1. PICK m : Shows([t EXCEPT !.list = m])
    BY <1>13, <1>d DEF SubmitHere
  <2>2. SearchStays([t EXCEPT !.list = m], f, c)
    BY <1>4, StaysWith
  <2>. QED BY <1>2, <2>1, <2>2
<1>. QED BY <1>5, <1>6, <1>7, <1>8, <1>9, <1>10, <1>11, <1>12, <1>13

LEMMA StaysOnRow ==
  ASSUME OnRow(pane, aimed), NEW t, NEW row, SearchStays(t, pane.filter, pane.cursor), row = aimed
  PROVE  OnRow(t, row)
BY DEF OnRow, SearchStays

(* The arrows stay on a row.                                               *)
LEMMA ArrowsMove ==
  ASSUME IsList(Networks), IsList(Tokens), OnRow(pane, aimed),
         BrowseArrow \/ SearchArrow
  PROVE  OnRow(pane', aimed') /\ RanIt(ran')
<1>1. PICK by : by \in {1, -1} /\ pane' = MoveCursor(pane, by)
                /\ Aim(MoveCursor(pane, by)) /\ ran' = None
  BY DEF BrowseArrow, SearchArrow
<1>a. PICK t : t = MoveCursor(pane, by)
  OBVIOUS
<1>b. PICK len : len = Cardinality(Drawn(pane.filter))
  OBVIOUS
<1>2. len \in Nat /\ (len = 0 <=> Drawn(pane.filter) = {})
  BY <1>b, DrawnIs
<1>3. DOMAIN t = PaneShape /\ t.cursor \in Nat
      /\ (t.cursor = 0 <=> Drawn(t.filter) = {})
  <2>1. CASE len = 0 \/ pane.focus # "Commands"
    BY <1>a, <1>b, <2>1 DEF MoveCursor, OnRow
  <2>2. CASE len # 0 /\ pane.focus = "Commands"
    <3>a. PICK at : at = (IF pane.cursor = 0 THEN 0 ELSE pane.cursor - 1)
      OBVIOUS
    <3>1. at \in Nat /\ by \in Int
      BY <1>1, <3>a DEF OnRow
    <3>2. (at + by + len) % len \in Nat
      BY <1>2, <2>2, <3>1
    <3>3. t = [pane EXCEPT !.cursor = 1 + ((at + by + len) % len)]
      BY <1>a, <1>b, <2>2, <3>a DEF MoveCursor
    <3>4. DOMAIN t = PaneShape /\ t.filter = pane.filter
          /\ t.cursor = 1 + ((at + by + len) % len)
      BY <3>3 DEF OnRow, PaneShape
    <3>5. 1 + ((at + by + len) % len) \in Nat \ {0}
      BY <3>2
    <3>. QED BY <1>2, <2>2, <3>4, <3>5
  <2>. QED BY <2>1, <2>2
<1>4. aimed' = IF t.cursor = 0 THEN None ELSE VisibleCommands(t.filter)[t.cursor].action
  BY <1>1, <1>a DEF Aim
<1>5. OnRow(t, aimed')
  BY <1>3, <1>4 DEF OnRow
<1>. QED BY <1>1, <1>5, <1>a DEF RanIt

(* A search puts the cursor on the first row it leaves.                    *)
LEMMA SearchesLand ==
  ASSUME OnRow(pane, aimed), SearchTypes \/ SearchEsc
  PROVE  OnRow(pane', aimed') /\ RanIt(ran')
<1>1. ran' = None
  BY DEF SearchTypes, SearchEsc
<1>2. ASSUME NEW s, DOMAIN s = PaneShape, NEW f, AimFirst(f)
      PROVE  OnRow(SetFilter(s, f), aimed')
  <2>a. PICK t : t = SetFilter(s, f)
    OBVIOUS
  <2>1. DOMAIN t = PaneShape /\ t.filter = f
        /\ t.cursor = IF Drawn(f) = {} THEN 0 ELSE 1
    BY <1>2, <2>a DEF SetFilter, PaneShape
  <2>2. t.cursor \in Nat /\ (t.cursor = 0 <=> Drawn(f) = {})
    BY <2>1
  <2>3. aimed' = IF t.cursor = 0 THEN None ELSE VisibleCommands(f)[t.cursor].action
    BY <1>2, <2>1 DEF AimFirst
  <2>. QED BY <2>1, <2>2, <2>3, <2>a DEF OnRow
<1>3. CASE SearchTypes
  <2>1. PICK f : pane' = SetFilter(pane, f) /\ AimFirst(f)
    BY <1>3 DEF SearchTypes
  <2>2. DOMAIN pane = PaneShape
    BY DEF OnRow
  <2>3. OnRow(SetFilter(pane, f), aimed')
    BY <1>2, <2>1, <2>2
  <2>. QED BY <1>1, <2>1, <2>3 DEF RanIt
<1>4. CASE SearchEsc
  <2>a. PICK s : s = [pane EXCEPT !.mode = Browse]
    OBVIOUS
  <2>1. DOMAIN s = PaneShape
    BY <2>a DEF OnRow
  <2>2. pane' = SetFilter(s, <<>>) /\ AimFirst(<<>>)
    BY <1>4, <2>a DEF SearchEsc
  <2>3. OnRow(SetFilter(s, <<>>), aimed')
    BY <1>2, <2>1, <2>2
  <2>. QED BY <1>1, <2>2, <2>3 DEF RanIt
<1>. QED BY <1>3, <1>4

LEMMA KeysRun ==
  ASSUME OnRow(pane, aimed), EnterRuns \/ BrowseKey
  PROVE  OnRow(pane', aimed') /\ RanIt(ran')
<1>a. PICK f : f = pane.filter
  OBVIOUS
<1>b. PICK c : c = pane.cursor
  OBVIOUS
<1>1. SearchStays(pane, f, c)
  BY <1>a, <1>b DEF SearchStays, OnRow
<1>2. CASE EnterRuns
  <2>c. PICK s : s = [pane EXCEPT !.mode = Browse]
    OBVIOUS
  <2>1. SearchStays(s, f, c)
    BY <1>1, <2>c, StaysWith
  <2>2. RunAction(s, CurrentCommand(pane)) /\ aimed' = aimed
        /\ ran' = [ran |-> CurrentCommand(pane), aimed |-> aimed]
        /\ pane.cursor # 0
    BY <1>2, <2>c DEF EnterRuns
  <2>3. SearchStays(pane', f, c)
    BY <2>1, <2>2, RunActionStays
  <2>4. aimed = CurrentCommand(pane)
    BY <2>2 DEF OnRow, CurrentCommand
  <2>5. RanIt(ran')
    BY <2>2, <2>4 DEF RanIt
  <2>. QED BY <1>a, <1>b, <2>2, <2>3, <2>5, StaysOnRow
<1>3. CASE BrowseKey
  <2>1. PICK a : RunAction(pane, a)
    BY <1>3 DEF BrowseKey
  <2>2. SearchStays(pane', f, c)
    BY <1>1, <2>1, RunActionStays
  <2>3. aimed' = aimed /\ ran' = None
    BY <1>3 DEF BrowseKey, RanNone
  <2>. QED BY <1>a, <1>b, <2>2, <2>3, StaysOnRow DEF RanIt
<1>. QED BY <1>2, <1>3

LEMMA OnRowAlways ==
  ASSUME IsList(Networks), IsList(Tokens)
  PROVE  PaneSpec => [](OnRow(pane, aimed) /\ RanIt(ran))
<1>1. PaneInit => OnRow(pane, aimed) /\ RanIt(ran)
  <2>. SUFFICES ASSUME PaneInit PROVE OnRow(pane, aimed) /\ RanIt(ran)
    OBVIOUS
  <2>1. PICK list : pane = [mode |-> Browse, focus |-> "Commands", filter |-> <<>>,
                              cursor |-> 1, line |-> {}, note |-> None, list |-> list]
    BY DEF PaneInit
  <2>2. aimed = <<"balance">> /\ ran = None
    BY DEF PaneInit
  <2>3. DOMAIN pane = PaneShape /\ pane.filter = <<>> /\ pane.cursor = 1
    BY <2>1 DEF PaneShape
  <2>. QED BY <2>2, <2>3, FirstIsBalance DEF OnRow, RanIt
<1>2. OnRow(pane, aimed) /\ RanIt(ran) /\ [PaneNext]_paneVars
        => (OnRow(pane, aimed) /\ RanIt(ran))'
  <2>. SUFFICES ASSUME OnRow(pane, aimed), RanIt(ran), [PaneNext]_paneVars
                PROVE  OnRow(pane', aimed') /\ RanIt(ran')
    OBVIOUS
  <2>1. ASSUME SearchStays(pane', pane.filter, pane.cursor), aimed' = aimed, ran' = None
        PROVE  OnRow(pane', aimed') /\ RanIt(ran')
    BY <2>1, StaysOnRow DEF RanIt
  <2>2. DOMAIN pane = PaneShape
    BY DEF OnRow
  <2>3. CASE PaneNext
    BY <2>1, <2>2, <2>3, ArrowsMove, SearchesLand, KeysRun, OthersStay, PromptsStay
       DEF PaneNext
  <2>4. CASE UNCHANGED paneVars
    BY <2>4 DEF paneVars, history, OnRow, RanIt
  <2>. QED BY <2>3, <2>4
<1>. QED BY <1>1, <1>2, PTL DEF PaneSpec

(* Through every search, arrow and hidden row, Enter runs the row the user *)
(* moved the cursor to, or the first the search left, and there is none    *)
(* under the cursor only when none is drawn.  (current_command, set_filter,*)
(* move_selection.)                                                        *)
THEOREM TheAimedAtIsRun ==
  ASSUME IsList(Networks), IsList(Tokens)
  PROVE  PaneSpec => []RunsWhatIsAimedAt
<1>1. OnRow(pane, aimed) /\ RanIt(ran) => RunsWhatIsAimedAt
  BY DEF OnRow, RanIt, RunsWhatIsAimedAt
<1>. QED BY <1>1, OnRowAlways, PTL

----------------------------------------------------------------------------
(* The recall list, as any number of processes share it.                   *)

(* A log: uses with the time of each, and tombstones.                      *)
IsLog(l) ==
  /\ IsList(l)
  /\ \A i \in DOMAIN l :
       /\ l[i].type \in {"secret.remember", "secret.forget"}
       /\ l[i].type = "secret.remember" => l[i].at \in Nat

(* Every place of a finite set in a strict order is taken.                 *)
LEMMA OrderHits ==
  ASSUME NEW S, IsFiniteSet(S), NEW lt,
         \A r \in S : <<r, r>> \notin lt,
         \A r, s \in S : r # s => <<r, s>> \in lt \/ <<s, r>> \in lt,
         \A q, r, s \in S : <<q, r>> \in lt /\ <<r, s>> \in lt => <<q, s>> \in lt,
         NEW n \in 1 .. Cardinality(S)
  PROVE  \E s \in S : Cardinality({r \in S : r = s \/ <<r, s>> \in lt}) = n
<1>. DEFINE T == 1 .. Cardinality(S)
            upTo(s) == {r \in S : r = s \/ <<r, s>> \in lt}
            f == [s \in S |-> Cardinality(upTo(s))]
<1>1. \A s \in S : upTo(s) \in SUBSET S /\ s \in upTo(s)
  OBVIOUS
<1>2. ASSUME NEW r \in S, NEW s \in S, <<r, s>> \in lt
      PROVE  upTo(r) \in SUBSET upTo(s) /\ s \notin upTo(r)
  <2>1. \A q \in upTo(r) : q \in upTo(s)
    BY <1>2
  <2>2. s \notin upTo(r)
    BY <1>2
  <2>. QED BY <2>1, <2>2
<1>. HIDE DEF upTo
<1>3. Cardinality(S) \in Nat
  BY FS_CardinalityType
<1>4. \A s \in S : IsFiniteSet(upTo(s)) /\ Cardinality(upTo(s)) \in T
  <2>. SUFFICES ASSUME NEW s \in S PROVE IsFiniteSet(upTo(s)) /\ Cardinality(upTo(s)) \in T
    OBVIOUS
  <2>1. IsFiniteSet(upTo(s)) /\ Cardinality(upTo(s)) <= Cardinality(S)
    BY <1>1, FS_Subset
  <2>2. Cardinality(upTo(s)) \in Nat /\ Cardinality(upTo(s)) # 0
    BY <1>1, <2>1, FS_CardinalityType, FS_EmptySet
  <2>. QED BY <1>3, <2>1, <2>2
<1>5. ASSUME NEW r \in S, NEW s \in S, <<r, s>> \in lt
      PROVE  Cardinality(upTo(r)) # Cardinality(upTo(s))
  <2>1. upTo(r) # upTo(s)
    BY <1>1, <1>2, <1>5
  <2>. QED BY <1>2, <1>4, <1>5, <2>1, FS_Subset
<1>6. f \in [S -> T]
  BY <1>4
<1>7. \A r, s \in S : f[r] = f[s] => r = s
  BY <1>5
<1>8. IsFiniteSet(T) /\ Cardinality(T) = Cardinality(S)
  BY <1>3, FS_Interval
<1>9. f \in Surjection(S, T)
  <2>1. f \in Injection(S, T)
    BY <1>6, <1>7 DEF Injection, IsInjective
  <2>. HIDE DEF f, T
  <2>. QED BY <1>8, <2>1, FS_Injection
<1>10. PICK s \in S : f[s] = n
  <2>1. \A t \in T : \E s \in S : f[s] = t
    BY <1>9 DEF Surjection
  <2>. QED BY <2>1
<1>11. Cardinality(upTo(s)) = n
  BY <1>10
<1>. QED BY <1>11 DEF upTo

LEMMA LinesAre ==
  ASSUME NEW l, IsList(l), NEW s
  PROVE  /\ LinesOf(l, s) \in SUBSET (1 .. Len(l)) /\ Len(l) \in Nat
         /\ LinesOf(l, s) # {} =>
              /\ LastLine(l, s) \in LinesOf(l, s)
              /\ \A j \in LinesOf(l, s) : j <= LastLine(l, s)
<1>a. PICK L : L = LinesOf(l, s)
  OBVIOUS
<1>1. L \in SUBSET (1 .. Len(l)) /\ Len(l) \in Nat
  BY <1>a, ListIs DEF LinesOf
<1>2. ASSUME L # {} PROVE \E i \in L : \A j \in L : j <= i
  <2>. DEFINE S == {n \in Nat : \E i \in L : n = Len(l) - i}
  <2>1. PICK i \in L : TRUE
    BY <1>2
  <2>2. Len(l) - i \in S
    BY <1>1
  <2>3. PICK m \in S : \A n \in S : m <= n
    <3>1. S \in SUBSET Nat /\ S # {}
      BY <2>2
    <3>. HIDE DEF S
    <3>. QED BY <3>1, LeastIs
  <2>4. PICK k \in L : m = Len(l) - k
    OBVIOUS
  <2>5. ASSUME NEW j \in L PROVE j <= k
    <3>1. Len(l) - j \in S
      BY <1>1
    <3>. HIDE DEF S
    <3>2. m <= Len(l) - j
      BY <2>3, <3>1
    <3>. QED BY <1>1, <2>4, <3>2
  <2>. QED BY <2>5
<1>. QED BY <1>1, <1>2, <1>a DEF LastLine

LEMMA LastOnly ==
  ASSUME NEW l, IsList(l), NEW s, NEW i \in LinesOf(l, s),
         \A j \in LinesOf(l, s) : j <= i
  PROVE  LastLine(l, s) = i
<1>1. LastLine(l, s) \in LinesOf(l, s) /\ i <= LastLine(l, s)
  BY LinesAre
<1>2. LastLine(l, s) <= i
  BY <1>1
<1>3. LastLine(l, s) \in Nat /\ i \in Nat
  BY <1>1, LinesAre
<1>. QED BY <1>1, <1>2, <1>3

(* A remembered secret has a place, which is one of its lines.             *)
LEMMA PlaceIs ==
  ASSUME NEW l, IsLog(l), NEW s \in Remembered(l)
  PROVE  Place(l, s) \in LinesOf(l, s)
<1>a. PICK L : L = LinesOf(l, s)
  OBVIOUS
<1>b. PICK last : last = LastLine(l, s)
  OBVIOUS
<1>1. IsList(l) /\ L # {} /\ l[last].type = "secret.remember"
  BY <1>a, <1>b DEF IsLog, Remembered
<1>2. L \in SUBSET Nat /\ L \subseteq DOMAIN l
  BY <1>1, <1>a, LinesAre DEF LinesOf
<1>3. last \in L /\ \A j \in L : j <= last
  BY <1>1, <1>a, <1>b, LinesAre
<1>. DEFINE S == {i \in L : \A j \in L : j >= i => l[j].type = "secret.remember"}
<1>4. last \in S
  <2>1. ASSUME NEW j \in L, j >= last PROVE l[j].type = "secret.remember"
    <3>1. j = last
      BY <1>2, <1>3, <2>1
    <3>. QED BY <1>1, <3>1
  <2>. QED BY <1>3, <2>1
<1>5. PICK m \in S : \A i \in S : m <= i
  <2>1. S \in SUBSET Nat /\ S # {}
    BY <1>2, <1>4
  <2>. HIDE DEF S
  <2>. QED BY <2>1, LeastIs
<1>6. ASSUME NEW j \in L, j < m
      PROVE  \E k \in L : k >= j /\ k < m /\ l[k].type = "secret.forget"
  <2>1. j \notin S
    <3>. HIDE DEF S
    <3>1. j \in Nat /\ m \in Nat
      BY <1>2 DEF S
    <3>. QED BY <1>5, <1>6, <3>1
  <2>2. PICK k \in L : k >= j /\ l[k].type # "secret.remember"
    BY <2>1
  <2>3. ~(k >= m)
    BY <2>2
  <2>4. k \in Nat /\ m \in Nat /\ k \in DOMAIN l
    BY <1>2
  <2>5. l[k].type = "secret.forget"
    BY <2>2, <2>4 DEF IsLog
  <2>. QED BY <2>2, <2>3, <2>4, <2>5
<1>7. /\ m \in L /\ \A j \in L : j >= m => l[j].type = "secret.remember"
      /\ \A j \in L : j < m => \E k \in L : k >= j /\ k < m /\ l[k].type = "secret.forget"
  BY <1>6
<1>. QED BY <1>7, <1>a DEF Place

(* Each row of the list is a remembered secret.                            *)
LEMMA RecentIs ==
  ASSUME NEW l, IsLog(l), NEW n \in DOMAIN Recent(l)
  PROVE  Recent(l)[n] \in Remembered(l)
<1>a. PICK S : S = Remembered(l)
  OBVIOUS
<1>1. IsList(l) /\ Len(l) \in Nat /\ DOMAIN l = 1 .. Len(l)
  BY ListIs DEF IsLog
<1>2. \A s \in S : LastLine(l, s) \in 1 .. Len(l) /\ l[LastLine(l, s)].id = s
                  /\ l[LastLine(l, s)].type = "secret.remember"
  BY <1>1, <1>a, LinesAre DEF Remembered, LinesOf
<1>3. IsFiniteSet(S)
  <2>. DEFINE f == [s \in S |-> LastLine(l, s)]
  <2>1. f \in Injection(S, 1 .. Len(l))
    <3>1. \A r, s \in S : f[r] = f[s] => r = s
      BY <1>2
    <3>2. f \in [S -> 1 .. Len(l)]
      BY <1>2
    <3>. QED BY <3>1, <3>2 DEF Injection, IsInjective
  <2>2. IsFiniteSet(1 .. Len(l))
    BY <1>1, FS_Interval
  <2>. HIDE DEF f
  <2>. QED BY <2>1, <2>2, FS_Injection
<1>4. \A s \in S : Entry(l, s).at \in Nat /\ Place(l, s) \in Nat
                  /\ l[Place(l, s)].id = s
  <2>. SUFFICES ASSUME NEW s \in S
                PROVE  Entry(l, s).at \in Nat /\ Place(l, s) \in Nat
                       /\ l[Place(l, s)].id = s
    OBVIOUS
  <2>1. Entry(l, s).at \in Nat
    BY <1>1, <1>2 DEF IsLog, Entry
  <2>2. Place(l, s) \in LinesOf(l, s)
    BY <1>a, PlaceIs
  <2>3. LinesOf(l, s) \in SUBSET (1 .. Len(l))
    BY <1>1, LinesAre
  <2>. QED BY <1>1, <2>1, <2>2, <2>3 DEF LinesOf
<1>b. PICK lt : lt = {p \in S \X S : Newer(l, p[1], p[2])}
  OBVIOUS
<1>5. \A r, s \in S : <<r, s>> \in lt <=>
        \/ Entry(l, r).at > Entry(l, s).at
        \/ Entry(l, r).at = Entry(l, s).at
           /\ Place(l, r) > Place(l, s)
  BY <1>b DEF Newer
<1>c. PICK at : at = [s \in S |-> Entry(l, s).at]
  OBVIOUS
<1>d. PICK place : place = [s \in S |-> Place(l, s)]
  OBVIOUS
<1>6. /\ \A s \in S : at[s] \in Nat /\ place[s] \in Nat
      /\ \A r, s \in S : place[r] = place[s] => r = s
      /\ \A r, s \in S : <<r, s>> \in lt <=>
           at[r] > at[s] \/ (at[r] = at[s] /\ place[r] > place[s])
  <2>1. \A s \in S : at[s] \in Nat /\ place[s] \in Nat
    BY <1>4, <1>c, <1>d
  <2>2. \A r, s \in S : place[r] = place[s] => r = s
    BY <1>4, <1>d
  <2>. QED BY <1>5, <1>c, <1>d, <2>1, <2>2
<1>7. \A r \in S : <<r, r>> \notin lt
  BY <1>6
<1>8. \A r, s \in S : r # s => <<r, s>> \in lt \/ <<s, r>> \in lt
  BY <1>6
<1>9. \A q, r, s \in S : <<q, r>> \in lt /\ <<r, s>> \in lt => <<q, s>> \in lt
  BY <1>6
<1>10. \A m \in 1 .. Cardinality(S) :
         \E s \in S : Cardinality({r \in S : r = s \/ <<r, s>> \in lt}) = m
  BY <1>3, <1>7, <1>8, <1>9, OrderHits
<1>11. ASSUME NEW s \in S
       PROVE  Standing(l, s) = Cardinality({r \in S : r = s \/ <<r, s>> \in lt})
  <2>1. {r \in S : r = s \/ Newer(l, r, s)} = {r \in S : r = s \/ <<r, s>> \in lt}
    BY <1>b
  <2>. QED BY <1>a, <2>1 DEF Standing
<1>12. n \in 1 .. Cardinality(S)
  BY <1>a DEF Recent
<1>13. \E s \in S : Standing(l, s) = n
  BY <1>10, <1>11, <1>12
<1>14. Recent(l)[n] = CHOOSE s \in S : Standing(l, s) = n
  BY <1>12, <1>a DEF Recent
<1>. QED BY <1>13, <1>14, <1>a
(* A line put at the end is the last of its secret, and of no other.       *)
LEMMA AddedIs ==
  ASSUME NEW l, IsLog(l), NEW line, line.type = "secret.remember", line.at \in Nat
  PROVE  /\ IsLog(Append(l, line))
         /\ \A s \in Remembered(Append(l, line)) :
              IF s = line.id THEN Entry(Append(l, line), s) = line
              ELSE s \in Remembered(l)
                   /\ Entry(Append(l, line), s) = Entry(l, s)
<1>a. PICK u : u = Append(l, line)
  OBVIOUS
<1>b. PICK n : n = Len(l)
  OBVIOUS
<1>1. IsList(l) /\ n \in Nat /\ DOMAIN l = 1 .. n
  BY <1>b, ListIs DEF IsLog
<1>2. DOMAIN u = 1 .. n + 1 /\ u[n + 1] = line /\ \A i \in 1 .. n : u[i] = l[i]
  <2>1. l \in Seq(Range(l) \cup {line})
    BY <1>1, SeqDef DEF IsList
  <2>. QED BY <1>a, <1>b, <1>1, <2>1
<1>3. IsList(u)
  <2>1. l \in Seq(Range(l) \cup {line})
    BY <1>1, SeqDef DEF IsList
  <2>2. u \in Seq(Range(l) \cup {line})
    BY <1>a, <2>1
  <2>. QED BY <2>2, ListsOf
<1>4. IsLog(u)
  <2>. SUFFICES ASSUME NEW i \in DOMAIN u
                PROVE  /\ u[i].type \in {"secret.remember", "secret.forget"}
                       /\ u[i].type = "secret.remember" => u[i].at \in Nat
    BY <1>3 DEF IsLog
  <2>1. CASE i \in 1 .. n
    BY <1>1, <1>2, <2>1 DEF IsLog
  <2>2. CASE i = n + 1
    BY <1>2, <2>2
  <2>. QED BY <1>1, <1>2, <2>1, <2>2
<1>5. LinesOf(u, line.id) = LinesOf(l, line.id) \cup {n + 1}
  BY <1>1, <1>2 DEF LinesOf
<1>6. LastLine(u, line.id) = n + 1
  <2>1. \A j \in LinesOf(u, line.id) : j <= n + 1
    BY <1>1, <1>2 DEF LinesOf
  <2>2. n + 1 \in LinesOf(u, line.id)
    BY <1>5
  <2>. QED BY <1>3, <2>1, <2>2, LastOnly
<1>7. ASSUME NEW s, s # line.id
      PROVE  LinesOf(u, s) = LinesOf(l, s)
  BY <1>1, <1>2, <1>7 DEF LinesOf
<1>8. ASSUME NEW s \in Remembered(u), s # line.id
      PROVE  s \in Remembered(l) /\ Entry(u, s) = Entry(l, s)
  <2>1. LinesOf(u, s) = LinesOf(l, s) /\ LinesOf(l, s) # {}
    BY <1>7, <1>8 DEF Remembered
  <2>2. LastLine(u, s) = LastLine(l, s)
    BY <2>1 DEF LastLine
  <2>3. LastLine(l, s) \in 1 .. n
    BY <1>1, <1>b, <2>1, LinesAre
  <2>. QED BY <1>2, <1>8, <2>1, <2>2, <2>3 DEF Remembered, Entry
<1>9. Entry(u, line.id) = line
  BY <1>2, <1>6 DEF Entry
<1>. QED BY <1>4, <1>8, <1>9, <1>a

(* With the lines of a secret taken out, the others are as they were.      *)
LEMMA WithoutIs ==
  ASSUME NEW l, IsLog(l), NEW id
  PROVE  /\ IsLog(Without(l, id))
         /\ Remembered(Without(l, id)) = Remembered(l) \ {id}
         /\ \A s \in Remembered(Without(l, id)) :
              Entry(Without(l, id), s) = Entry(l, s)
<1>a. PICK K : K = {i \in DOMAIN l : l[i].id # id}
  OBVIOUS
<1>b. PICK u : u = Sifted(l, K)
  OBVIOUS
<1>1. Without(l, id) = u
  BY <1>a, <1>b DEF Without
<1>2. IsList(l) /\ Len(l) \in Nat /\ DOMAIN l = 1 .. Len(l)
  BY ListIs DEF IsLog
<1>3. K \in SUBSET DOMAIN l
  BY <1>a
<1>4. /\ IsFiniteSet(K) /\ K \in SUBSET Nat
      /\ IsList(u)
      /\ \A k \in K : Rank(K, k) \in DOMAIN u /\ u[Rank(K, k)] = l[k]
      /\ \A n \in DOMAIN u : \E k \in K : Rank(K, k) = n /\ u[n] = l[k]
  BY <1>2, <1>3, <1>b, SiftedIs
<1>5. IsLog(u)
  <2>. SUFFICES ASSUME NEW n \in DOMAIN u
                PROVE  /\ u[n].type \in {"secret.remember", "secret.forget"}
                       /\ u[n].type = "secret.remember" => u[n].at \in Nat
    BY <1>4 DEF IsLog
  <2>1. PICK k \in K : u[n] = l[k]
    BY <1>4
  <2>. QED BY <1>3, <2>1 DEF IsLog
<1>6. LinesOf(u, id) = {}
  BY <1>4, <1>a DEF LinesOf
<1>7. ASSUME NEW s, s # id
      PROVE  /\ LinesOf(u, s) # {} <=> LinesOf(l, s) # {}
             /\ LinesOf(u, s) # {} =>
                  /\ LastLine(u, s) \in DOMAIN u
                  /\ u[LastLine(u, s)] = l[LastLine(l, s)]
  <2>1. \A i \in LinesOf(l, s) : i \in K /\ Rank(K, i) \in LinesOf(u, s)
    BY <1>4, <1>7, <1>a DEF LinesOf
  <2>2. \A n \in LinesOf(u, s) : \E k \in LinesOf(l, s) : Rank(K, k) = n
    BY <1>3, <1>4 DEF LinesOf
  <2>3. ASSUME LinesOf(l, s) # {}
        PROVE  /\ LastLine(u, s) \in DOMAIN u
               /\ u[LastLine(u, s)] = l[LastLine(l, s)]
    <3>a. PICK i : i = LastLine(l, s)
      OBVIOUS
    <3>1. i \in LinesOf(l, s) /\ \A j \in LinesOf(l, s) : j <= i
      BY <1>2, <2>3, <3>a, LinesAre
    <3>2. i \in K /\ Rank(K, i) \in LinesOf(u, s)
      BY <2>1, <3>1
    <3>3. ASSUME NEW n \in LinesOf(u, s) PROVE n <= Rank(K, i)
      <4>1. PICK k \in LinesOf(l, s) : Rank(K, k) = n
        BY <2>2
      <4>2. k \in K /\ k <= i
        BY <2>1, <3>1
      <4>3. Rank(K, k) \in Nat /\ Rank(K, i) \in Nat
        BY <1>4, <3>2, <4>2, RankIn, FS_CardinalityType
      <4>4. k \in Nat /\ i \in Nat
        BY <1>4, <3>2, <4>2
      <4>5. CASE k = i
        BY <4>1, <4>3, <4>5
      <4>6. CASE k < i
        <5>1. Rank(K, k) < Rank(K, i)
          BY <1>4, <3>2, <4>2, <4>6, RankGrows
        <5>. QED BY <4>1, <4>3, <5>1
      <4>. QED BY <4>2, <4>4, <4>5, <4>6
    <3>4. LastLine(u, s) = Rank(K, i)
      BY <1>4, <3>2, <3>3, LastOnly
    <3>. QED BY <1>4, <3>2, <3>4, <3>a
  <2>. QED BY <2>1, <2>2, <2>3
<1>8. ASSUME NEW s
      PROVE  s \in Remembered(u) <=> s \in Remembered(l) \ {id}
  <2>1. CASE s = id
    BY <1>6, <2>1 DEF Remembered
  <2>2. CASE s # id
    BY <1>7, <2>2 DEF Remembered
  <2>. QED BY <2>1, <2>2
<1>9. ASSUME NEW s \in Remembered(u)
      PROVE  Entry(u, s) = Entry(l, s)
  <2>1. s # id /\ LinesOf(u, s) # {}
    BY <1>8 DEF Remembered
  <2>. QED BY <1>7, <2>1 DEF Entry
<1>. QED BY <1>1, <1>5, <1>8, <1>9

----------------------------------------------------------------------------
(* Every entry was used with the passphrase it stands for, and so was what *)
(* a restoration is about to write.                                        *)
Kept ==
  /\ IsLog(log) /\ clock \in Nat /\ DOMAIN doing = Handle
  /\ \A s \in Remembered(log) : <<s, Entry(log, s).pass>> \in wallets
  /\ \A h \in Handle : doing[h].op = "append" =>
       /\ doing[h].line.type = "secret.remember" /\ doing[h].line.at \in Nat
       /\ doing[h].restores => <<doing[h].line.id, doing[h].line.pass>> \in wallets

(* A process changes what it does, and what it has to append is in order.  *)
LEMMA DoesIs ==
  ASSUME Kept, NEW h \in Handle, NEW w, doing' = [doing EXCEPT ![h] = w],
         w.op = "append" => /\ w.line.type = "secret.remember" /\ w.line.at \in Nat
                            /\ w.restores => <<w.line.id, w.line.pass>> \in wallets',
         wallets \subseteq wallets', IsLog(log'), clock' = clock,
         \A s \in Remembered(log') : <<s, Entry(log', s).pass>> \in wallets'
  PROVE  Kept'
<1>1. DOMAIN doing' = Handle
  BY DEF Kept
<1>2. ASSUME NEW k \in Handle, doing'[k].op = "append"
      PROVE  /\ doing'[k].line.type = "secret.remember" /\ doing'[k].line.at \in Nat
             /\ doing'[k].restores => <<doing'[k].line.id, doing'[k].line.pass>> \in wallets'
  <2>1. CASE k = h
    BY <1>2, <2>1 DEF Kept
  <2>2. CASE k # h
    BY <1>2, <2>2 DEF Kept
  <2>. QED BY <2>1, <2>2
<1>. QED BY <1>1, <1>2 DEF Kept

LEMMA TakeIs ==
  ASSUME Kept, NEW h \in Handle, NEW s, NEW p, NEW restores,
         Take(h, s, p, restores), restores => <<s, p>> \in wallets
  PROVE  Kept'
<1>a. PICK line : line = Remember(s, p, Uses(log, s) + 1, clock)
  OBVIOUS
<1>b. PICK w : w = [op |-> "append", restores |-> restores, line |-> line]
  OBVIOUS
<1>1. line.type = "secret.remember" /\ line.at = clock /\ line.id = s /\ line.pass = p
  BY <1>a DEF Remember
<1>2. w.line = line /\ w.restores = restores
  BY <1>b
<1>3. doing' = [doing EXCEPT ![h] = w] /\ log' = log /\ clock' = clock /\ wallets' = wallets
  BY <1>a, <1>b DEF Take
<1>4. IsLog(log') /\ clock \in Nat
      /\ \A r \in Remembered(log') : <<r, Entry(log', r).pass>> \in wallets'
  BY <1>3 DEF Kept
<1>. QED BY <1>1, <1>2, <1>3, <1>4, DoesIs

LEMMA StopsIs ==
  ASSUME Kept, NEW h \in Handle, NEW w, doing' = [doing EXCEPT ![h] = w],
         w.op # "append", log' = log, clock' = clock, wallets' = wallets
  PROVE  Kept'
<1>1. IsLog(log') /\ \A s \in Remembered(log') :
                      <<s, Entry(log', s).pass>> \in wallets'
  BY DEF Kept
<1>. QED BY <1>1, DoesIs

LEMMA KeptStep == Kept /\ [RecallNext]_recallVars => Kept'
<1>. SUFFICES ASSUME Kept, [RecallNext]_recallVars PROVE Kept'
  OBVIOUS
<1>n. Nothing.op # "append"
  BY DEF Nothing
<1>1. CASE UNCHANGED recallVars
  BY <1>1 DEF recallVars, Kept
<1>2. CASE Tick
  BY <1>2 DEF Tick, Kept
<1>3. ASSUME NEW h \in Handle, NEW s, NEW p, Use(h, s, p) PROVE Kept'
  BY <1>3, TakeIs DEF Use
<1>4. ASSUME NEW h \in Handle, NEW n \in DOMAIN Recent(log), NEW p,
             Restore(h, n, p)
      PROVE  Kept'
  <2>a. PICK s : s = FindRecent(log, n)
    OBVIOUS
  <2>1. s \in Remembered(log)
    BY <2>a, RecentIs DEF Kept, FindRecent
  <2>2. Take(h, s, p, TRUE) /\ p = Entry(log, s).pass
    BY <1>4, <2>a DEF Restore
  <2>3. <<s, p>> \in wallets
    BY <2>1, <2>2 DEF Kept
  <2>. QED BY <2>2, <2>3, TakeIs
<1>5. ASSUME NEW h \in Handle, NEW n, AskForget(h, n) PROVE Kept'
  <2>1. \A id, position : [op |-> "forget", id |-> id, position |-> position].op # "append"
    OBVIOUS
  <2>. QED BY <1>5, <2>1, StopsIs DEF AskForget
<1>6. ASSUME NEW h \in Handle, AppendLine(h) PROVE Kept'
  <2>a. PICK line : line = doing[h].line
    OBVIOUS
  <2>1. /\ log' = Append(log, line) /\ wallets' = wallets \cup {<<line.id, line.pass>>}
        /\ doing' = [doing EXCEPT ![h] = Nothing] /\ clock' = clock
    BY <1>6, <2>a DEF AppendLine
  <2>2. line.type = "secret.remember" /\ line.at \in Nat
    BY <1>6, <2>a DEF AppendLine, Kept
  <2>3. IsLog(log)
    BY DEF Kept
  <2>4. /\ IsLog(log')
        /\ \A s \in Remembered(log') :
             IF s = line.id THEN Entry(log', s) = line
             ELSE s \in Remembered(log) /\ Entry(log', s) = Entry(log, s)
    BY <2>1, <2>2, <2>3, AddedIs
  <2>5. \A s \in Remembered(log') : <<s, Entry(log', s).pass>> \in wallets'
    BY <2>1, <2>4 DEF Kept
  <2>. QED BY <1>n, <2>1, <2>4, <2>5, DoesIs
<1>7. ASSUME NEW h \in Handle, DoForget(h) PROVE Kept'
  <2>1. /\ log' = Without(log, doing[h].id) /\ wallets' = wallets
        /\ doing' = [doing EXCEPT ![h] = Nothing] /\ clock' = clock
    BY <1>7 DEF DoForget
  <2>2. IsLog(log)
    BY DEF Kept
  <2>3. /\ IsLog(log')
        /\ Remembered(log') = Remembered(log) \ {doing[h].id}
        /\ \A s \in Remembered(log') : Entry(log', s) = Entry(log, s)
    BY <2>1, <2>2, WithoutIs
  <2>4. \A s \in Remembered(log') : <<s, Entry(log', s).pass>> \in wallets'
    BY <2>1, <2>3 DEF Kept
  <2>. QED BY <1>n, <2>1, <2>3, <2>4, DoesIs
<1>8. ASSUME NEW h \in Handle, AskClear(h) PROVE Kept'
  <2>a. PICK w : w = [op |-> "clear"]
    OBVIOUS
  <2>1. w.op # "append"
    BY <2>a
  <2>2. /\ doing' = [doing EXCEPT ![h] = w]
        /\ log' = log /\ clock' = clock /\ wallets' = wallets
    BY <1>8, <2>a DEF AskClear
  <2>. QED BY <2>1, <2>2, StopsIs
<1>9. ASSUME NEW h \in Handle, DoClear(h) PROVE Kept'
  <2>1. /\ log' = <<>> /\ wallets' = wallets
        /\ doing' = [doing EXCEPT ![h] = Nothing] /\ clock' = clock
    BY <1>9 DEF DoClear
  <2>2. <<>> \in Seq({}) /\ DOMAIN <<>> = {}
    OBVIOUS
  <2>3. IsLog(log')
    BY <2>1, <2>2, ListsOf DEF IsLog
  <2>4. Remembered(log') = {}
    BY <2>1, <2>2 DEF Remembered, LinesOf
  <2>. QED BY <1>n, <2>1, <2>3, <2>4, DoesIs
<1>10. ASSUME NEW h \in Handle, GiveUp(h) PROVE Kept'
  BY <1>10, <1>n, StopsIs DEF GiveUp
<1>. QED BY <1>1, <1>2, <1>3, <1>4, <1>5, <1>6, <1>7, <1>8, <1>9, <1>10 DEF RecallNext

LEMMA KeptAlways == ASSUME IsLog(Initial) PROVE RecallSpec => []Kept
<1>1. RecallInit => Kept
  <2>. SUFFICES ASSUME RecallInit PROVE Kept
    OBVIOUS
  <2>1. log = Initial /\ clock = 0 /\ doing = [h \in Handle |-> Nothing]
        /\ wallets = {<<s, Entry(Initial, s).pass>> : s \in Remembered(Initial)}
    BY DEF RecallInit
  <2>. QED BY <2>1 DEF Kept, Nothing
<1>2. Kept /\ [RecallNext]_recallVars => Kept'
  BY KeptStep
<1>. QED BY <1>1, <1>2, PTL DEF RecallSpec

(* Whatever became of the log since it was shown, and whichever processes  *)
(* wrote to it, restoring writes a wallet the user has had before.  The    *)
(* log found at the start may be any binary's.  (account import-recent.)   *)
THEOREM TheRestoredWasUsed ==
  ASSUME IsLog(Initial)
  PROVE  RecallSpec => []RestoredWasUsed
<1>1. Kept => RestoredWasUsed
  BY DEF Kept, RestoredWasUsed
<1>. QED BY <1>1, KeptAlways, PTL

(* Forgetting takes out the entry that was shown and leaves every other    *)
(* remembered, however the positions moved during the prompt.              *)
(* (recent forget, forget_secret.)                                         *)
THEOREM TheShownIsForgotten ==
  ASSUME IsLog(Initial)
  PROVE  RecallSpec => ForgetsTheOneShown
<1>1. Kept /\ [RecallNext]_recallVars =>
        [\A h \in Handle :
           doing[h].op = "forget" /\ Nothing = doing'[h] /\ log' # log =>
             Remembered(log') = Remembered(log) \ {doing[h].id}]_recallVars
  <2>. SUFFICES ASSUME Kept, RecallNext, NEW h \in Handle,
                       doing[h].op = "forget", Nothing = doing'[h], log' # log
                PROVE  Remembered(log') = Remembered(log) \ {doing[h].id}
    OBVIOUS
  <2>1. doing[h] # Nothing /\ doing'[h] # doing[h]
    BY DEF Nothing
  <2>2. ~Tick
    BY DEF Tick
  <2>3. ASSUME NEW k \in Handle
        PROVE  /\ \A s, p : ~Use(k, s, p)
               /\ \A n, p : ~Restore(k, n, p)
               /\ \A n : ~AskForget(k, n)
               /\ ~AskClear(k) /\ ~GiveUp(k)
    BY DEF Use, Restore, Take, AskForget, AskClear,
           GiveUp
  <2>4. ASSUME NEW k \in Handle, AppendLine(k) \/ DoClear(k) PROVE FALSE
    <3>1. doing[k].op # "forget" /\ doing' = [doing EXCEPT ![k] = Nothing]
      BY <2>4 DEF AppendLine, DoClear
    <3>2. k # h
      BY <3>1
    <3>. QED BY <2>1, <3>1, <3>2 DEF Kept
  <2>5. ASSUME NEW k \in Handle, DoForget(k)
        PROVE  Remembered(log') = Remembered(log) \ {doing[h].id}
    <3>1. doing' = [doing EXCEPT ![k] = Nothing]
          /\ log' = Without(log, doing[k].id)
      BY <2>5 DEF DoForget
    <3>2. k = h
      BY <2>1, <3>1 DEF Kept
    <3>3. IsLog(log)
      BY DEF Kept
    <3>. QED BY <3>1, <3>2, <3>3, WithoutIs
  <2>. QED BY <2>2, <2>3, <2>4, <2>5 DEF RecallNext
<1>. QED BY <1>1, KeptAlways, PTL DEF RecallSpec, ForgetsTheOneShown
============================================================================
