---------------------------- MODULE WalletProofs ----------------------------
(***************************************************************************)
(* Proofs about Wallet, for any processes, chains, networks, secrets,      *)
(* settings and bounds.                                                    *)
(*                                                                         *)
(* A command is the list of store operations it has left, so an invariant  *)
(* is about such lists: what a step puts in the place of the first         *)
(* operation (IsAfter), what holds of the store and of every list however  *)
(* commands interleave (StoreOK, ListsOK), and, of a command that runs     *)
(* alone, what it has done by what it has left (Undisturbed).  Of an       *)
(* orderly home the last is said in full (Parts): such a home only ever    *)
(* has one list.                                                           *)
(***************************************************************************)
EXTENDS Wallet, FiniteSetTheorems, WellFoundedInduction, SequenceTheorems, TLAPS

----------------------------------------------------------------------------
(* Lists of operations.                                                    *)

IsList(t) == t \in Seq(Range(t))

LEMMA ListIs ==
  ASSUME NEW t, IsList(t)
  PROVE  /\ Len(t) \in Nat /\ DOMAIN t = 1 .. Len(t)
         /\ t = <<>> <=> Len(t) = 0
         /\ t # <<>> => Head(t) = t[1]
BY DEF IsList

LEMMA ListsOf ==
  ASSUME NEW S, NEW t \in Seq(S)
  PROVE  IsList(t)
<1>1. t \in [1 .. Len(t) -> Range(t)] /\ Len(t) \in Nat
  BY DEF Range
<1>. QED BY <1>1, SeqDef DEF IsList

(* u is what is left of list t when ops take the place of its first        *)
(* operation.                                                              *)
IsAfter(u, ops, t) ==
  /\ IsList(u) /\ Len(u) = Len(ops) + Len(t) - 1
  /\ \A k \in DOMAIN ops : u[k] = ops[k]
  /\ \A k \in 1 .. Len(t) - 1 : u[Len(ops) + k] = t[k + 1]
  /\ \A k \in DOMAIN u :
       \/ k \in DOMAIN ops /\ u[k] = ops[k]
       \/ k > Len(ops) /\ k - Len(ops) + 1 \in DOMAIN t /\ u[k] = t[k - Len(ops) + 1]

LEMMA Continued ==
  ASSUME NEW t, IsList(t), t # <<>>, NEW ops, IsList(ops)
  PROVE  IsAfter(ops \o Tail(t), ops, t)
<1>. PICK u : u = ops \o Tail(t)
  OBVIOUS
<1>. DEFINE S == Range(t) \cup Range(ops)
<1>1. t \in Seq(S) /\ ops \in Seq(S)
  BY SeqDef DEF IsList
<1>2. Len(t) \in Nat /\ Len(ops) \in Nat /\ Len(t) > 0
  BY <1>1
<1>3. /\ Tail(t) \in Seq(S) /\ Len(Tail(t)) = Len(t) - 1
      /\ \A k \in 1 .. Len(t) - 1 : Tail(t)[k] = t[k + 1]
  BY <1>1, <1>2
<1>4. u \in Seq(S) /\ Len(u) = Len(ops) + Len(t) - 1
  BY <1>1, <1>3
<1>5. \A k \in DOMAIN ops : u[k] = ops[k]
  BY <1>1, <1>3
<1>6. \A k \in 1 .. Len(t) - 1 : u[Len(ops) + k] = t[k + 1]
  <2>. TAKE k \in 1 .. Len(t) - 1
  <2>1. u[Len(ops) + k] = Tail(t)[k]
    BY <1>1, <1>2, <1>3
  <2>. QED BY <2>1, <1>3
<1>7. ASSUME NEW k \in DOMAIN u, k \notin DOMAIN ops
      PROVE  k > Len(ops) /\ k - Len(ops) + 1 \in DOMAIN t /\ u[k] = t[k - Len(ops) + 1]
  <2>. DEFINE j == k - Len(ops)
  <2>1. j \in 1 .. Len(t) - 1 /\ k = Len(ops) + j
    BY <1>1, <1>2, <1>4, <1>7
  <2>2. u[k] = t[j + 1]
    BY <2>1, <1>6
  <2>. QED BY <1>1, <1>2, <2>1, <2>2
<1>8. IsList(u)
  BY <1>4, ListsOf
<1>9. IsAfter(u, ops, t)
  <2>. HIDE DEF S
  <2>. QED BY <1>4, <1>5, <1>6, <1>7, <1>8 DEF IsAfter
<1>. QED BY <1>9

----------------------------------------------------------------------------
(* What the logs and the lists hold, however commands interleave.          *)

AccountShape == {"id", "label", "chain", "source", "plain", "index", "named"}
SelectedKey == {Selected} \cup {SelectedOnKey(c) : c \in Chain}
StoreOK ==
  /\ made \in Nat
  /\ IsList(accounts)
  /\ \A i \in DOMAIN accounts :
       /\ DOMAIN accounts[i] = AccountShape
       /\ accounts[i].id \in 1 .. made /\ accounts[i].chain \in Chain
       /\ \A j \in DOMAIN accounts : accounts[i].id = accounts[j].id => i = j
  /\ config = [k \in ConfigKey |-> config[k]]
  /\ \A k \in SelectedKey : config[k] \in Network \cup {Unset}

CreateShape == {"op", "chain", "source", "plain", "index", "next", "named",
                "label", "first"}
OpOK(o) ==
  /\ "op" \in DOMAIN o
  /\ o.op \in {"index", "create", "append"} => DOMAIN o = CreateShape
  /\ o.op \in {"index", "create", "append", "first", "follow", "missing", "adopt"} =>
       o.chain \in Chain
  /\ o.op = "set" =>
       o.key \in ConfigKey /\ (o.key \in SelectedKey => o.value \in Network)

Rest == todo = [h \in Handle |-> todo[h]] /\ alone = [h \in Handle |-> alone[h]]
ListsOK ==
  /\ Rest /\ setting \in Settings
  /\ \A h \in Handle : IsList(todo[h]) /\ \A k \in DOMAIN todo[h] : OpOK(todo[h][k])
  /\ \A h \in Handle \ setting.handles : Idle(h)

(* A command that runs alone: no other one is under way.                   *)
AloneOK == \A h \in Handle : alone[h] => \A g \in Handle \ {h} : Idle(g)

----------------------------------------------------------------------------
(* What is left of a command that runs alone, and what it has done.        *)

Settle(k, v) == [op |-> "set", key |-> k, value |-> v, settles |-> TRUE]
Follow(c, s) == [op |-> "follow", chain |-> c, settles |-> s]
Derive(c) == [op |-> "missing", chain |-> c]
Adopt(c) == [op |-> "adopt", chain |-> c]
First(a) == [op |-> "first", id |-> a.id, chain |-> a.chain]

(* account use, of account a.                                              *)
Using(a, t) ==
  \/ t = Activate(a.id, a.chain, TRUE)
  \/ /\ config[Active] = a.id
     /\ \/ t = <<Set(ActiveOnKey(a.chain), a.id), Follow(a.chain, TRUE)>>
        \/ t = <<Follow(a.chain, TRUE)>>
  \/ /\ config[Active] = a.id
     /\ \E n \in Network :
          /\ ChainOfNetwork[n] = a.chain
          /\ \/ t = <<Set(Selected, n), Settle(SelectedOnKey(a.chain), n)>>
             \/ /\ config[Selected] = n
                /\ t = <<Settle(SelectedOnKey(a.chain), n)>>

(* network use, of network n: the accounts it owes the chain, and the one  *)
(* it moves to.                                                            *)
Making(o) == /\ o.op \in {"create", "append"} /\ ~o.first
             /\ o.op = "create" => o.label = Unset
Deriving(c, t) ==
  /\ t # <<>> /\ t[Len(t)] = Adopt(c)
  /\ \A k \in 1 .. Len(t) - 1 : Making(t[k]) /\ t[k].chain = c
Moving(n, t) ==
  LET c == ChainOfNetwork[n] IN
  \/ t = <<Set(Selected, n), Set(SelectedOnKey(c), n), Derive(c), Adopt(c)>>
  \/ /\ config[Selected] = n
     /\ \/ t = <<Set(SelectedOnKey(c), n), Derive(c), Adopt(c)>>
        \/ t = <<Derive(c), Adopt(c)>>
        \/ Deriving(c, t)
        \/ \E i \in DOMAIN accounts :
             accounts[i].chain = c /\ t = <<Settle(Active, accounts[i].id)>>

(* Any other command settles nothing.                                      *)
Settling(o) == \/ o.op \in {"missing", "adopt"}
               \/ o.op \in {"set", "follow"} /\ o.settles
Other(t) == \A k \in DOMAIN t : ~Settling(t[k])

Undisturbed(t) ==
  \/ \E i \in DOMAIN accounts : Using(accounts[i], t)
  \/ \E n \in Network : Moving(n, t)
  \/ Other(t)

(* An account is active, on the chain of the network that is selected.     *)
InPlace ==
  \E i \in DOMAIN accounts :
    /\ config[Active] = accounts[i].id
    /\ config[Selected] \in Network /\ ChainOfNetwork[config[Selected]] = accounts[i].chain

MoveOK ==
  /\ StoreOK /\ ListsOK /\ AloneOK
  /\ \A h \in Handle : alone[h] => Undisturbed(todo[h])
  /\ settled => Quiet /\ InPlace

----------------------------------------------------------------------------
(* An orderly home: one process, no removal, no passphrase.                *)

Creating == {"index", "create", "append"}
Twin(o, a) == o.chain = a.chain /\ SameWallet(o, a)
Unnamed(o) == o.op \in {"create", "append"} /\ ~o.named /\ o.source \in Phrase

(* Every account and every operation is as a home without passphrases and  *)
(* removals makes them.                                                    *)
OpPlain(o) ==
  /\ o.op \notin {"remove", "repoint", "fallback"}
  /\ o.op \in Creating => o.plain = TRUE
  /\ o.op \in {"create", "append"} /\ o.source \in Phrase => o.index \in Nat
AccountsPlain ==
  \A i \in DOMAIN accounts :
    /\ accounts[i].plain = TRUE
    /\ accounts[i].source \in Phrase => accounts[i].index \in Nat
PlainOK(t) == AccountsPlain /\ \A k \in DOMAIN t : OpPlain(t[k])

(* An address about to be made is no account's, nor that of another one    *)
(* about to be made.                                                       *)
Twinless(o) == \A i \in DOMAIN accounts : ~Twin(accounts[i], o)
Apart(p, o) == p.op \in {"create", "append"} /\ ~p.first /\ ~SameWallet(p, o)
AddressesOnce ==
  \A j \in DOMAIN accounts :
    accounts[j].source \in Phrase /\ ~accounts[j].named =>
      \A i \in 1 .. j - 1 : ~Twin(accounts[i], accounts[j])
TwinsOK(t) ==
  /\ AddressesOnce
  /\ \A k \in DOMAIN t : Unnamed(t[k]) =>
       Twinless(t[k]) /\ \A j \in 1 .. k - 1 : Apart(t[j], t[k])

(* A move to chain c that worked out what is owed: every phrase's account  *)
(* has its face there, or is about to.                                     *)
Covered(c, t) ==
  \A i \in DOMAIN accounts : accounts[i].source \in Phrase =>
    \/ \E j \in DOMAIN accounts :
         accounts[j].chain = c /\ SameWallet(accounts[i], accounts[j])
    \/ \E k \in 1 .. Len(t) - 1 : SameWallet(accounts[i], t[k])
FacesOK(t) == \A c \in Chain : Deriving(c, t) => Covered(c, t)

(* A home of phrases: while no account is active, one is about to be.      *)
Steady(o) == \/ o.op \in Creating /\ o.first
             \/ o.op \in {"remember", "rename", "relabel"}
Steadily(t, m) == Len(t) >= m /\ \A k \in DOMAIN t : k > m => Steady(t[k])
Settled == accounts # <<>> => InPlace
Opening(a, t) ==
  \/ Steadily(t, 1) /\ t[1] = First(a)
  \/ /\ Steadily(t, 3) /\ t[1] = Set(Active, a.id)
     /\ t[2] = Set(ActiveOnKey(a.chain), a.id) /\ t[3] = Follow(a.chain, FALSE)
  \/ /\ config[Active] = a.id
     /\ \/ /\ Steadily(t, 2) /\ t[1] = Set(ActiveOnKey(a.chain), a.id)
           /\ t[2] = Follow(a.chain, FALSE)
        \/ Steadily(t, 1) /\ t[1] = Follow(a.chain, FALSE)
        \/ \E n \in Network :
             /\ ChainOfNetwork[n] = a.chain /\ Steadily(t, 2)
             /\ t[1] = Set(Selected, n) /\ t[2] = Set(SelectedOnKey(a.chain), n)
Closing(t) ==
  /\ Settled /\ Steadily(t, 1)
  /\ \/ t[1].op = "first" /\ Len(accounts) > 1
     \/ \E c \in Chain, n \in Network : t[1] = Set(SelectedOnKey(c), n)
Placed(t) ==
  \/ Settled /\ Steadily(t, 0)
  \/ Len(accounts) = 1 /\ Opening(accounts[1], t)
  \/ Closing(t)
AllPhrases == \A i \in DOMAIN accounts : accounts[i].source \in Phrase
OpPhrase(o) == o.op \in Creating => o.source \in Phrase
PlaceOK(t) ==
  /\ AllPhrases /\ \A k \in DOMAIN t : OpPhrase(t[k])
  /\ Other(t) => Placed(t)

Parts(t) ==
  /\ PlainOK(t) /\ TwinsOK(t) /\ FacesOK(t)
  /\ "import_key" \notin setting.commands => PlaceOK(t)
OrderOK ==
  /\ MoveOK
  /\ Orderly => \E h \in Handle :
       setting.handles = {h} /\ (alone[h] \/ Idle(h)) /\ Parts(todo[h])

----------------------------------------------------------------------------
(* Readings of the store.                                                  *)

LEMMA KeysDiffer ==
  ASSUME NEW c, NEW d
  PROVE  /\ Active # Selected /\ Active # ActiveOnKey(c) /\ Active # SelectedOnKey(c)
         /\ Selected # ActiveOnKey(c) /\ Selected # SelectedOnKey(c)
         /\ ActiveOnKey(c) # SelectedOnKey(d)
<1>1. Active[1] = "active_account" /\ Selected[1] = "network"
      /\ ActiveOnKey(c)[1] = "active_account" /\ SelectedOnKey(c)[1] = "network"
      /\ SelectedOnKey(d)[1] = "network"
  BY DEF Active, Selected, ActiveOnKey, SelectedOnKey
<1>2. /\ DOMAIN Active = {1} /\ DOMAIN Selected = {1}
      /\ DOMAIN ActiveOnKey(c) = {1, 2} /\ DOMAIN SelectedOnKey(c) = {1, 2}
  BY DEF Active, Selected, ActiveOnKey, SelectedOnKey
<1>3. {1} # {1, 2}
  OBVIOUS
<1>4. "active_account" # "network"
  OBVIOUS
<1>. HIDE DEF Active, Selected, ActiveOnKey, SelectedOnKey
<1>. QED BY <1>1, <1>2, <1>3, <1>4

LEMMA KeysAre ==
  /\ Active \in ConfigKey /\ Active \notin SelectedKey
  /\ Selected \in ConfigKey /\ Selected \in SelectedKey
  /\ \A c \in Chain : /\ ActiveOnKey(c) \in ConfigKey /\ ActiveOnKey(c) \notin SelectedKey
                      /\ SelectedOnKey(c) \in ConfigKey /\ SelectedOnKey(c) \in SelectedKey
  /\ SelectedKey \subseteq ConfigKey
<1>1. /\ Active # Selected
      /\ \A c : Active # SelectedOnKey(c) /\ Selected # ActiveOnKey(c)
      /\ \A c, d : ActiveOnKey(c) # SelectedOnKey(d)
  BY KeysDiffer
<1>. QED BY <1>1 DEF ConfigKey, SelectedKey

LEMMA AccountIs ==
  ASSUME StoreOK, NEW i \in DOMAIN accounts
  PROVE  AccountOf(accounts[i].id) = accounts[i] /\ accounts[i].id \in Ids
<1>1. accounts[i] \in Range(accounts)
  BY DEF Range
<1>2. \A a \in Range(accounts) : a.id = accounts[i].id => a = accounts[i]
  BY DEF Range, StoreOK
<1>. QED BY <1>1, <1>2 DEF AccountOf, Ids

LEMMA NetworkIs ==
  ASSUME StoreOK, NEW c \in Chain
  PROVE  NetworkOn(c) \in Network /\ ChainOfNetwork[NetworkOn(c)] = c
<1>1. DefaultOn[c] \in Network /\ ChainOfNetwork[DefaultOn[c]] = c
  BY WalletConstants
<1>2. config[SelectedOnKey(c)] \in Network \cup {Unset} /\ config[Selected] \in Network \cup {Unset}
  BY KeysAre DEF StoreOK
<1>. QED BY <1>1, <1>2 DEF NetworkOn

----------------------------------------------------------------------------
(* What a step makes of the lists.                                         *)

LEMMA ListsContinue ==
  ASSUME ListsOK, NEW h \in setting.handles, setting' = setting, alone' = alone,
         ~Idle(h), NEW ops, IsList(ops), \A k \in DOMAIN ops : OpOK(ops[k]),
         Continue(h, ops)
  PROVE  ListsOK' /\ h \in Handle /\ IsAfter(todo'[h], ops, todo[h])
         /\ \A g \in Handle \ {h} : todo'[g] = todo[g]
<1>1. h \in Handle
  BY WalletConstants DEF ListsOK
<1>2. todo'[h] = ops \o Tail(todo[h]) /\ Rest' /\ \A g \in Handle \ {h} : todo'[g] = todo[g]
  BY <1>1 DEF ListsOK, Rest, Continue
<1>3. IsList(todo[h]) /\ todo[h] # <<>> /\ \A k \in DOMAIN todo[h] : OpOK(todo[h][k])
  BY <1>1 DEF ListsOK, Idle
<1>4. IsAfter(todo'[h], ops, todo[h])
  BY <1>2, <1>3, Continued
<1>5. IsList(todo'[h]) /\ \A k \in DOMAIN todo'[h] : OpOK(todo'[h][k])
  BY <1>3, <1>4 DEF IsAfter
<1>6. \A g \in Handle : IsList(todo'[g]) /\ \A k \in DOMAIN todo'[g] : OpOK(todo'[g][k])
  BY <1>2, <1>5 DEF ListsOK
<1>7. \A g \in Handle \ setting'.handles : todo'[g] = <<>>
  BY <1>2 DEF ListsOK, Idle
<1>. QED BY <1>1, <1>2, <1>4, <1>6, <1>7 DEF ListsOK, Idle

LEMMA EmptyList == IsList(<<>>) /\ DOMAIN <<>> = {}
<1>1. <<>> \in Seq({}) /\ DOMAIN <<>> = {}
  OBVIOUS
<1>. QED BY <1>1, ListsOf

LEMMA ListsReplace ==
  ASSUME ListsOK, NEW h \in setting.handles, setting' = setting,
         alone' = [g \in Handle |-> alone'[g]],
         NEW ops, IsList(ops), \A k \in DOMAIN ops : OpOK(ops[k]),
         todo' = [todo EXCEPT ![h] = ops]
  PROVE  ListsOK' /\ h \in Handle /\ todo'[h] = ops
         /\ \A g \in Handle \ {h} : todo'[g] = todo[g]
<1>1. h \in Handle
  BY WalletConstants DEF ListsOK
<1>2. todo'[h] = ops /\ Rest' /\ \A g \in Handle \ {h} : todo'[g] = todo[g]
  BY <1>1 DEF ListsOK, Rest
<1>5. \A g \in Handle : IsList(todo'[g]) /\ \A k \in DOMAIN todo'[g] : OpOK(todo'[g][k])
  BY <1>2 DEF ListsOK
<1>6. \A g \in Handle \ setting'.handles : todo'[g] = <<>>
  BY <1>2 DEF ListsOK, Idle
<1>. QED BY <1>1, <1>2, <1>5, <1>6 DEF ListsOK, Idle

LEMMA OneIs ==
  ASSUME NEW a
  PROVE  IsList(<<a>>) /\ DOMAIN <<a>> = {1} /\ Len(<<a>>) = 1
<1>1. <<a>> \in Seq({a})
  OBVIOUS
<1>2. IsList(<<a>>)
  BY <1>1, ListsOf
<1>. QED BY <1>2

LEMMA TwoIs ==
  ASSUME NEW a, NEW b
  PROVE  IsList(<<a, b>>) /\ DOMAIN <<a, b>> = {1, 2} /\ Len(<<a, b>>) = 2
<1>1. <<a, b>> \in Seq({a, b})
  OBVIOUS
<1>2. IsList(<<a, b>>)
  BY <1>1, ListsOf
<1>. QED BY <1>2

LEMMA ThreeIs ==
  ASSUME NEW a, NEW b, NEW c
  PROVE  IsList(<<a, b, c>>) /\ DOMAIN <<a, b, c>> = {1, 2, 3} /\ Len(<<a, b, c>>) = 3
<1>1. <<a, b, c>> \in Seq({a, b, c})
  OBVIOUS
<1>2. IsList(<<a, b, c>>)
  BY <1>1, ListsOf
<1>. QED BY <1>2

LEMMA FourIs ==
  ASSUME NEW a, NEW b, NEW c, NEW d
  PROVE  IsList(<<a, b, c, d>>) /\ DOMAIN <<a, b, c, d>> = {1, 2, 3, 4} /\ Len(<<a, b, c, d>>) = 4
<1>1. <<a, b, c, d>> \in Seq({a, b, c, d})
  OBVIOUS
<1>2. IsList(<<a, b, c, d>>)
  BY <1>1, ListsOf
<1>. QED BY <1>2

LEMMA OneOp ==
  ASSUME NEW o, OpOK(o)
  PROVE  /\ IsList(<<o>>) /\ \A k \in DOMAIN <<o>> : OpOK(<<o>>[k])
         /\ Len(<<o>>) = 1 /\ DOMAIN <<o>> = {1}
<1>1. IsList(<<o>>) /\ DOMAIN <<o>> = {1} /\ Len(<<o>>) = 1
  BY OneIs
<1>. QED BY <1>1

LEMMA NoOps ==
  /\ IsList(<<>>) /\ DOMAIN <<>> = {} /\ \A k \in DOMAIN <<>> : OpOK(<<>>[k])
  /\ Len(<<>>) = 0
BY EmptyList

LEMMA HeadIs ==
  ASSUME ListsOK, NEW h \in setting.handles, ~Idle(h)
  PROVE  /\ h \in Handle /\ IsList(todo[h]) /\ todo[h] # <<>> /\ 1 \in DOMAIN todo[h]
         /\ Head(todo[h]) = todo[h][1] /\ OpOK(Head(todo[h]))
         /\ Len(todo[h]) \in Nat \ {0} /\ DOMAIN todo[h] = 1 .. Len(todo[h])
<1>1. h \in Handle
  BY WalletConstants DEF ListsOK
<1>2. IsList(todo[h]) /\ todo[h] # <<>> /\ \A k \in DOMAIN todo[h] : OpOK(todo[h][k])
  BY <1>1 DEF ListsOK, Idle
<1>. QED BY <1>1, <1>2, ListIs

LEMMA StoreSame ==
  ASSUME StoreOK, UNCHANGED <<accounts, config, made>>
  PROVE  StoreOK'
BY DEF StoreOK

(* One operation that only reads the store, and what it puts in its place. *)
LEMMA ReadStep ==
  ASSUME StoreOK, ListsOK, NEW h \in setting.handles, setting' = setting,
         ~Idle(h), NEW ops, IsList(ops), \A k \in DOMAIN ops : OpOK(ops[k]),
         Continue(h, ops), UNCHANGED <<accounts, config, made, alone>>
  PROVE  /\ StoreOK' /\ ListsOK' /\ h \in Handle /\ IsAfter(todo'[h], ops, todo[h])
         /\ \A g \in Handle \ {h} : todo'[g] = todo[g]
BY StoreSame, ListsContinue

(* What holds after every step of command h.                               *)
Stepped(h) ==
  /\ StoreOK' /\ ListsOK' /\ h \in Handle /\ ~Idle(h)
  /\ \A g \in Handle \ {h} : todo'[g] = todo[g]

LEMMA SetStep ==
  ASSUME StoreOK, ListsOK, NEW h \in setting.handles, setting' = setting, DoSet(h)
  PROVE  Stepped(h) /\ IsAfter(todo'[h], <<>>, todo[h])
<1>1. ~Idle(h) /\ Head(todo[h]).op = "set" /\ Continue(h, <<>>)
      /\ config' = [config EXCEPT ![Head(todo[h]).key] = Head(todo[h]).value]
      /\ UNCHANGED <<accounts, made, alone>>
  BY DEF DoSet, Doing
<1>2. Head(todo[h]).key \in ConfigKey
      /\ (Head(todo[h]).key \in SelectedKey => Head(todo[h]).value \in Network)
  BY <1>1, HeadIs DEF OpOK
<1>3. StoreOK'
  BY <1>1, <1>2, KeysAre DEF StoreOK
<1>4. ListsOK' /\ h \in Handle /\ IsAfter(todo'[h], <<>>, todo[h])
      /\ \A g \in Handle \ {h} : todo'[g] = todo[g]
  BY <1>1, EmptyList, ListsContinue
<1>. QED BY <1>1, <1>3, <1>4 DEF Stepped

LEMMA FollowStep ==
  ASSUME StoreOK, ListsOK, NEW h \in setting.handles, setting' = setting, DoFollow(h)
  PROVE  /\ Stepped(h)
         /\ Head(todo[h]).chain \in Chain /\ UNCHANGED <<accounts, config, alone, settled>>
         /\ \E n \in Network :
              /\ ChainOfNetwork[n] = Head(todo[h]).chain
              /\ IsAfter(todo'[h], <<Set(Selected, n), [op |-> "set", value |-> n,
                            key |-> SelectedOnKey(ChainOfNetwork[n]),
                            settles |-> Head(todo[h]).settles]>>, todo[h])
<1>. DEFINE o == Head(todo[h])
            n == NetworkOn(o.chain)
            ops == <<Set(Selected, n), [op |-> "set", value |-> n,
                       key |-> SelectedOnKey(ChainOfNetwork[n]), settles |-> o.settles]>>
<1>1. ~Idle(h) /\ o.op = "follow" /\ UNCHANGED <<accounts, config, made, alone, settled>>
  BY DEF DoFollow, Doing
<1>2. Continue(h, ops)
  <2>1. \A k, v, x : [Set(k, v) EXCEPT !.settles = x] =
                       [op |-> "set", value |-> v, key |-> k, settles |-> x]
    BY DEF Set
  <2>2. Continue(h, <<Set(Selected, n), [Set(SelectedOnKey(ChainOfNetwork[n]), n)
                                           EXCEPT !.settles = o.settles]>>)
    BY DEF DoFollow
  <2>. QED BY <2>1, <2>2
<1>3. o.chain \in Chain
  BY <1>1, HeadIs DEF OpOK
<1>4. n \in Network /\ ChainOfNetwork[n] = o.chain
  BY <1>3, NetworkIs
<1>5. IsList(ops) /\ \A k \in DOMAIN ops : OpOK(ops[k])
  <2>1. IsList(ops) /\ DOMAIN ops = {1, 2}
    BY TwoIs
  <2>2. OpOK(ops[1]) /\ OpOK(ops[2])
    BY <1>3, <1>4, KeysAre DEF OpOK, Set
  <2>. QED BY <2>1, <2>2
<1>6. StoreOK' /\ ListsOK' /\ h \in Handle /\ IsAfter(todo'[h], ops, todo[h])
      /\ \A g \in Handle \ {h} : todo'[g] = todo[g]
  <2>. HIDE DEF ops
  <2>. QED BY <1>1, <1>2, <1>5, ReadStep
<1>. QED BY <1>1, <1>3, <1>4, <1>6 DEF Stepped

(* u is operation o one step on.                                           *)
NextOf(u, o) ==
  /\ u.chain = o.chain /\ u.source = o.source /\ u.plain = o.plain
  /\ u.next = o.next /\ u.named = o.named /\ u.first = o.first

LEMMA IndexStep ==
  ASSUME StoreOK, ListsOK, NEW h \in setting.handles, setting' = setting, DoIndex(h)
  PROVE  /\ Stepped(h) /\ UNCHANGED <<accounts, config, alone, settled>>
         /\ \E u : /\ u.op = "create" /\ NextOf(u, Head(todo[h]))
                   /\ u.label = Head(todo[h]).label
                   /\ u.index = NextAddressIndex(u.source, u.chain)
                   /\ IsAfter(todo'[h], <<u>>, todo[h])
<1>. DEFINE o == Head(todo[h])
            u == [o EXCEPT !.op = "create", !.index = NextAddressIndex(o.source, o.chain)]
<1>1. ~Idle(h) /\ o.op = "index" /\ UNCHANGED <<accounts, config, made, alone, settled>>
      /\ Continue(h, <<u>>)
  BY DEF DoIndex, Doing
<1>2. DOMAIN o = CreateShape /\ o.chain \in Chain
  BY <1>1, HeadIs DEF OpOK
<1>3. /\ u.op = "create" /\ NextOf(u, o) /\ u.label = o.label /\ DOMAIN u = CreateShape
      /\ u.index = NextAddressIndex(u.source, u.chain)
  BY <1>2 DEF NextOf, CreateShape
<1>4. OpOK(u)
  BY <1>2, <1>3 DEF OpOK, NextOf, CreateShape
<1>5. IsList(<<u>>) /\ \A k \in DOMAIN <<u>> : OpOK(<<u>>[k])
  BY <1>4, OneOp
<1>6. StoreOK' /\ ListsOK' /\ h \in Handle /\ IsAfter(todo'[h], <<u>>, todo[h])
      /\ \A g \in Handle \ {h} : todo'[g] = todo[g]
  <2>. HIDE DEF u
  <2>. QED BY <1>1, <1>5, ReadStep
<1>7. \E v : /\ v.op = "create" /\ NextOf(v, o) /\ v.label = o.label
             /\ v.index = NextAddressIndex(v.source, v.chain)
             /\ IsAfter(todo'[h], <<v>>, todo[h])
  <2>. HIDE DEF u
  <2>. QED BY <1>3, <1>6
<1>. QED BY <1>1, <1>6, <1>7 DEF Stepped

LEMMA CreateStep ==
  ASSUME StoreOK, ListsOK, NEW h \in setting.handles, setting' = setting, DoCreate(h)
  PROVE  /\ Stepped(h) /\ UNCHANGED <<accounts, config, alone, settled>>
         /\ \/ Head(todo[h]).label # Unset /\ todo'[h] = <<>>
            \/ \E u : /\ u.op = "append" /\ NextOf(u, Head(todo[h]))
                      /\ u.index = Head(todo[h]).index
                      /\ IsAfter(todo'[h], <<u>>, todo[h])
<1>. DEFINE o == Head(todo[h])
            u == [o EXCEPT !.op = "append",
                           !.label = IF @ # Unset THEN @ ELSE NextFreeLabel(o.index, o.chain)]
<1>1. ~Idle(h) /\ o.op = "create" /\ UNCHANGED <<accounts, config, made, alone, settled>>
      /\ IF o.label # Unset /\ Taken(o.label) THEN todo' = [todo EXCEPT ![h] = <<>>]
                                              ELSE Continue(h, <<u>>)
  BY DEF DoCreate, Doing
<1>2. DOMAIN o = CreateShape /\ o.chain \in Chain
  BY <1>1, HeadIs DEF OpOK
<1>3. u.op = "append" /\ NextOf(u, o) /\ u.index = o.index /\ DOMAIN u = CreateShape
  BY <1>2 DEF NextOf, CreateShape
<1>4. OpOK(u)
  BY <1>2, <1>3 DEF OpOK, NextOf, CreateShape
<1>5. IsList(<<u>>) /\ \A k \in DOMAIN <<u>> : OpOK(<<u>>[k])
  BY <1>4, OneOp
<1>6. CASE o.label # Unset /\ Taken(o.label)
  <2>1. ListsOK' /\ h \in Handle /\ todo'[h] = <<>>
        /\ \A g \in Handle \ {h} : todo'[g] = todo[g]
    <3>1. alone' = [g \in Handle |-> alone'[g]]
      BY <1>1 DEF ListsOK, Rest
    <3>. QED BY <1>1, <1>6, <3>1, EmptyList, ListsReplace
  <2>2. StoreOK'
    BY <1>1, StoreSame
  <2>. QED BY <1>1, <1>6, <2>1, <2>2 DEF Stepped
<1>7. CASE ~(o.label # Unset /\ Taken(o.label))
  <2>. HIDE DEF u
  <2>1. StoreOK' /\ ListsOK' /\ h \in Handle /\ IsAfter(todo'[h], <<u>>, todo[h])
        /\ \A g \in Handle \ {h} : todo'[g] = todo[g]
    BY <1>1, <1>5, <1>7, ReadStep
  <2>. QED BY <1>1, <1>3, <2>1 DEF Stepped
<1>. QED BY <1>6, <1>7

LEMMA AppendStep ==
  ASSUME StoreOK, ListsOK, NEW h \in setting.handles, setting' = setting, DoAppend(h)
  PROVE  /\ Stepped(h) /\ UNCHANGED <<config, alone, settled>>
         /\ \E a :
              /\ accounts' = Append(accounts, a)
              /\ a.chain = Head(todo[h]).chain /\ a.source = Head(todo[h]).source
              /\ a.plain = Head(todo[h]).plain /\ a.index = Head(todo[h]).index
              /\ a.named = Head(todo[h]).named
              /\ IsAfter(todo'[h], IF Head(todo[h]).first THEN <<First(a)>> ELSE <<>>,
                         todo[h])
<1>. DEFINE o == Head(todo[h])
            a == [id |-> made', label |-> o.label, chain |-> o.chain,
                  source |-> o.source, plain |-> o.plain, index |-> o.index,
                  named |-> o.named]
            ops == IF o.first THEN <<First(a)>> ELSE <<>>
<1>1. ~Idle(h) /\ o.op = "append" /\ UNCHANGED <<config, alone, settled>>
      /\ made' = made + 1 /\ accounts' = Append(accounts, a)
      /\ Continue(h, IF ~o.first THEN <<>>
                     ELSE <<[op |-> "first", id |-> made', chain |-> o.chain]>>)
  BY DEF DoAppend, Doing
<1>2. o.chain \in Chain
  BY <1>1, HeadIs DEF OpOK
<1>3. Continue(h, ops)
  BY <1>1 DEF First
<1>4. IsList(ops) /\ \A k \in DOMAIN ops : OpOK(ops[k])
  <2>1. OpOK(First(a))
    BY <1>2 DEF OpOK, First
  <2>. QED BY <2>1, OneOp, NoOps
<1>5. ListsOK' /\ h \in Handle /\ IsAfter(todo'[h], ops, todo[h])
      /\ \A g \in Handle \ {h} : todo'[g] = todo[g]
  <2>. HIDE DEF ops
  <2>. QED BY <1>1, <1>3, <1>4, ListsContinue
<1>6. StoreOK'
  <2>1. PICK x : x = a
    OBVIOUS
  <2>2. DOMAIN x = AccountShape /\ x.id = made + 1 /\ x.chain \in Chain
    BY <1>1, <1>2, <2>1 DEF AccountShape
  <2>3. accounts \in Seq(Range(accounts)) /\ accounts' = Append(accounts, x)
    BY <1>1, <2>1 DEF StoreOK, IsList
  <2>4. Len(accounts) \in Nat /\ DOMAIN accounts = 1 .. Len(accounts)
    BY <2>3
  <2>5. accounts' \in Seq(Range(accounts) \cup {x}) /\ DOMAIN accounts' = 1 .. Len(accounts) + 1
        /\ accounts'[Len(accounts) + 1] = x
        /\ \A i \in 1 .. Len(accounts) : accounts'[i] = accounts[i]
    BY <2>3
  <2>6. IsList(accounts')
    BY <2>5, ListsOf
  <2>7. ASSUME NEW i \in DOMAIN accounts'
        PROVE  /\ DOMAIN accounts'[i] = AccountShape
               /\ accounts'[i].id \in 1 .. made' /\ accounts'[i].chain \in Chain
               /\ \A j \in DOMAIN accounts' : accounts'[i].id = accounts'[j].id => i = j
    BY <1>1, <2>2, <2>4, <2>5 DEF StoreOK
  <2>. QED BY <1>1, <2>6, <2>7 DEF StoreOK
<1>. QED BY <1>1, <1>5, <1>6 DEF Stepped

LEMMA ActivateOps ==
  ASSUME NEW id, NEW c \in Chain, NEW s
  PROVE  /\ IsList(Activate(id, c, s)) /\ DOMAIN Activate(id, c, s) = {1, 2, 3}
         /\ Len(Activate(id, c, s)) = 3
         /\ \A k \in DOMAIN Activate(id, c, s) : OpOK(Activate(id, c, s)[k])
<1>1. OpOK(Set(Active, id)) /\ OpOK(Set(ActiveOnKey(c), id)) /\ OpOK(Follow(c, s))
  BY KeysAre DEF OpOK, Set, Follow
<1>2. Activate(id, c, s) = <<Set(Active, id), Set(ActiveOnKey(c), id), Follow(c, s)>>
  BY DEF Activate, Follow
<1>3. /\ IsList(Activate(id, c, s)) /\ DOMAIN Activate(id, c, s) = {1, 2, 3}
      /\ Len(Activate(id, c, s)) = 3
  BY <1>2, ThreeIs
<1>. QED BY <1>1, <1>2, <1>3

LEMMA FirstStep ==
  ASSUME StoreOK, ListsOK, NEW h \in setting.handles, setting' = setting,
         DoActivateIfFirst(h)
  PROVE  /\ Stepped(h) /\ UNCHANGED <<accounts, config, alone, settled>>
         /\ Head(todo[h]).chain \in Chain
         /\ IsAfter(todo'[h], IF Len(accounts) = 1
                                THEN Activate(Head(todo[h]).id, Head(todo[h]).chain, FALSE)
                                ELSE <<>>, todo[h])
<1>. DEFINE o == Head(todo[h])
            ops == IF Len(accounts) = 1 THEN Activate(o.id, o.chain, FALSE) ELSE <<>>
<1>1. ~Idle(h) /\ o.op = "first" /\ UNCHANGED <<accounts, config, made, alone, settled>>
      /\ Continue(h, ops)
  BY DEF DoActivateIfFirst, Doing
<1>2. o.chain \in Chain
  BY <1>1, HeadIs DEF OpOK
<1>3. IsList(ops) /\ \A k \in DOMAIN ops : OpOK(ops[k])
  BY <1>2, ActivateOps, NoOps
<1>4. StoreOK' /\ ListsOK' /\ h \in Handle /\ IsAfter(todo'[h], ops, todo[h])
      /\ \A g \in Handle \ {h} : todo'[g] = todo[g]
  <2>. HIDE DEF ops
  <2>. QED BY <1>1, <1>3, ReadStep
<1>. QED BY <1>1, <1>2, <1>4 DEF Stepped

LEMMA RememberStep ==
  ASSUME StoreOK, ListsOK, NEW h \in setting.handles, setting' = setting, DoRemember(h)
  PROVE  /\ Stepped(h) /\ UNCHANGED <<accounts, config, alone, settled>>
         /\ IsAfter(todo'[h], <<>>, todo[h])
<1>1. ~Idle(h) /\ UNCHANGED <<accounts, config, made, alone, settled>> /\ Continue(h, <<>>)
  BY DEF DoRemember, Doing
<1>2. StoreOK' /\ ListsOK' /\ h \in Handle /\ IsAfter(todo'[h], <<>>, todo[h])
      /\ \A g \in Handle \ {h} : todo'[g] = todo[g]
  BY <1>1, NoOps, ReadStep
<1>. QED BY <1>1, <1>2 DEF Stepped

(* An operation of kind k follows, or the command is refused.              *)
LEMMA RenameStep ==
  ASSUME StoreOK, ListsOK, NEW h \in setting.handles, setting' = setting, DoRename(h)
  PROVE  /\ Stepped(h) /\ UNCHANGED <<accounts, config, alone, settled>>
         /\ \/ todo'[h] = <<>>
            \/ \E u : u.op = "relabel" /\ IsAfter(todo'[h], <<u>>, todo[h])
<1>. DEFINE o == Head(todo[h])
            u == [o EXCEPT !.op = "relabel"]
            clash == \E a \in Range(accounts) : a.id # o.id /\ SameLabel(a.label, o.label)
<1>1. ~Idle(h) /\ UNCHANGED <<accounts, config, made, alone, settled>>
      /\ IF clash THEN todo' = [todo EXCEPT ![h] = <<>>] ELSE Continue(h, <<u>>)
  BY DEF DoRename, Doing
<1>2. u.op = "relabel" /\ OpOK(u)
  BY <1>1, HeadIs DEF OpOK
<1>. HIDE DEF u, clash
<1>3. CASE clash
  <2>1. ListsOK' /\ h \in Handle /\ todo'[h] = <<>>
        /\ \A g \in Handle \ {h} : todo'[g] = todo[g]
    <3>1. alone' = [g \in Handle |-> alone'[g]]
      BY <1>1 DEF ListsOK, Rest
    <3>. QED BY <1>1, <1>3, <3>1, NoOps, ListsReplace
  <2>2. StoreOK'
    BY <1>1, StoreSame
  <2>. QED BY <1>1, <2>1, <2>2 DEF Stepped
<1>4. CASE ~clash
  <2>1. StoreOK' /\ ListsOK' /\ h \in Handle /\ IsAfter(todo'[h], <<u>>, todo[h])
        /\ \A g \in Handle \ {h} : todo'[g] = todo[g]
    BY <1>1, <1>2, <1>4, OneOp, ReadStep
  <2>. QED BY <1>1, <1>2, <2>1 DEF Stepped
<1>. QED BY <1>3, <1>4

(* b is account a, but for its label.                                      *)
Relabelled(b, a) ==
  /\ DOMAIN b = DOMAIN a
  /\ b.id = a.id /\ b.chain = a.chain /\ b.source = a.source
  /\ b.plain = a.plain /\ b.index = a.index /\ b.named = a.named

LEMMA RelabelStep ==
  ASSUME StoreOK, ListsOK, NEW h \in setting.handles, setting' = setting, DoRelabel(h)
  PROVE  /\ Stepped(h) /\ UNCHANGED <<config, alone, settled>>
         /\ DOMAIN accounts' = DOMAIN accounts
         /\ \A i \in DOMAIN accounts : Relabelled(accounts'[i], accounts[i])
         /\ IsAfter(todo'[h], <<>>, todo[h])
<1>. DEFINE o == Head(todo[h])
<1>1. ~Idle(h) /\ UNCHANGED <<config, made, alone, settled>> /\ Continue(h, <<>>)
      /\ accounts' = [i \in DOMAIN accounts |->
                        IF accounts[i].id = o.id
                          THEN [accounts[i] EXCEPT !.label = o.label] ELSE accounts[i]]
  BY DEF DoRelabel, Doing
<1>2. ListsOK' /\ h \in Handle /\ IsAfter(todo'[h], <<>>, todo[h])
      /\ \A g \in Handle \ {h} : todo'[g] = todo[g]
  BY <1>1, NoOps, ListsContinue
<1>3. DOMAIN accounts' = DOMAIN accounts
      /\ \A i \in DOMAIN accounts : Relabelled(accounts'[i], accounts[i])
  BY <1>1 DEF StoreOK, Relabelled, AccountShape
<1>4. IsList(accounts')
  <2>1. DOMAIN accounts = 1 .. Len(accounts) /\ Len(accounts) \in Nat
    BY ListIs DEF StoreOK
  <2>2. PICK s : s = accounts'
    OBVIOUS
  <2>3. s = [i \in 1 .. Len(accounts) |-> s[i]] /\ \A i \in 1 .. Len(accounts) : s[i] \in Range(s)
    BY <1>1, <2>1, <2>2 DEF Range
  <2>4. s \in [1 .. Len(accounts) -> Range(s)]
    BY <2>3
  <2>5. s \in Seq(Range(s))
    BY <2>1, <2>4, SeqDef
  <2>. QED BY <2>2, <2>5 DEF IsList
<1>5. StoreOK'
  BY <1>1, <1>3, <1>4 DEF StoreOK, Relabelled
<1>. QED BY <1>1, <1>2, <1>3, <1>5 DEF Stepped

LEMMA RemoveAtIs ==
  ASSUME NEW s, IsList(s), NEW i \in DOMAIN s
  PROVE  /\ IsList(RemoveAt(s, i)) /\ Len(RemoveAt(s, i)) = Len(s) - 1
         /\ \A k \in 1 .. Len(s) - 1 : RemoveAt(s, i)[k] = IF k < i THEN s[k] ELSE s[k + 1]
<1>. PICK S : S = Range(s)
  OBVIOUS
<1>1. s \in Seq(S) /\ Len(s) \in Nat /\ i \in 1 .. Len(s)
  BY DEF IsList
<1>a. PICK p, q : p = SubSeq(s, 1, i - 1) /\ q = SubSeq(s, i + 1, Len(s))
  OBVIOUS
<1>2. p \in Seq(S) /\ Len(p) = i - 1 /\ \A k \in 1 .. i - 1 : p[k] = s[k]
  BY <1>a, <1>1
<1>3. q \in Seq(S) /\ Len(q) = Len(s) - i /\ \A k \in 1 .. Len(s) - i : q[k] = s[i + k]
  BY <1>a, <1>1
<1>b. PICK r : r = p \o q
  OBVIOUS
<1>. PICK n : n = Len(s)
  OBVIOUS
<1>0. /\ n = Len(s) /\ n \in Nat /\ i \in 1 .. n /\ i \in Int
      /\ Len(p) = i - 1 /\ Len(q) = n - i /\ Len(p) + Len(q) = n - 1
  <2>1. n \in Nat /\ i \in 1 .. n /\ Len(p) = i - 1 /\ Len(q) = n - i
    BY <1>1, <1>2, <1>3
  <2>. QED BY <2>1
<1>4. /\ r \in Seq(S) /\ Len(r) = n - 1
      /\ \A k \in 1 .. n - 1 : r[k] = IF k <= i - 1 THEN p[k] ELSE q[k - (i - 1)]
  <2>1. /\ p \in Seq(S) /\ q \in Seq(S)
    BY <1>2, <1>3
  <2>2. /\ r \in Seq(S) /\ Len(r) = Len(p) + Len(q)
        /\ \A k \in 1 .. Len(p) + Len(q) : r[k] = IF k <= Len(p) THEN p[k] ELSE q[k - Len(p)]
    BY <1>b, <2>1, ConcatProperties
  <2>. QED BY <1>0, <2>2
<1>5. ASSUME NEW k \in 1 .. n - 1 PROVE r[k] = IF k < i THEN s[k] ELSE s[k + 1]
  <2>1. CASE k < i
    <3>1. k \in 1 .. i - 1 /\ k <= i - 1
      BY <1>0, <2>1
    <3>. QED BY <1>2, <1>4, <2>1, <3>1
  <2>2. CASE ~(k < i)
    <3>0. k - (i - 1) \in Int /\ k \in Int /\ k >= i
      BY <1>0, <2>2
    <3>. PICK j \in Int : j = k - (i - 1)
      BY <3>0
    <3>1. j \in 1 .. n - i /\ i + j = k + 1 /\ ~(k <= i - 1)
      BY <1>0, <3>0
    <3>2. r[k] = q[j]
      BY <1>4, <3>1
    <3>. QED BY <1>0, <2>2, <3>1, <3>2, <1>3
  <2>. QED BY <2>1, <2>2
<1>6. r = RemoveAt(s, i)
  BY <1>a, <1>b DEF RemoveAt
<1>. QED BY <1>0, <1>4, <1>5, <1>6, ListsOf

LEMMA RemoveStep ==
  ASSUME StoreOK, ListsOK, NEW h \in setting.handles, setting' = setting, DoRemove(h)
  PROVE  /\ Stepped(h) /\ UNCHANGED <<config, alone, settled>>
         /\ \E u : u.op = "repoint" /\ IsAfter(todo'[h], <<u>>, todo[h])
<1>. DEFINE o == Head(todo[h])
            u == [o EXCEPT !.op = "repoint"]
            place == CHOOSE i \in DOMAIN accounts : accounts[i].id = o.id
<1>1. ~Idle(h) /\ UNCHANGED <<config, made, alone, settled>> /\ Continue(h, <<u>>)
      /\ accounts' = IF o.id \notin Ids THEN accounts ELSE RemoveAt(accounts, place)
  BY DEF DoRemove, Doing
<1>2. u.op = "repoint" /\ OpOK(u)
  BY <1>1, HeadIs DEF OpOK
<1>. HIDE DEF u
<1>3. ListsOK' /\ h \in Handle /\ IsAfter(todo'[h], <<u>>, todo[h])
      /\ \A g \in Handle \ {h} : todo'[g] = todo[g]
  BY <1>1, <1>2, OneOp, ListsContinue
<1>4. StoreOK'
  <2>1. CASE o.id \notin Ids
    BY <1>1, <2>1, StoreSame
  <2>2. CASE o.id \in Ids
    <3>. PICK i : i = place
      OBVIOUS
    <3>1. i \in DOMAIN accounts
      BY <2>2 DEF Ids
    <3>2. PICK s : s = accounts'
      OBVIOUS
    <3>3. IsList(accounts) /\ s = RemoveAt(accounts, i)
      BY <1>1, <2>2, <3>2 DEF StoreOK
    <3>4. /\ IsList(s) /\ Len(s) = Len(accounts) - 1
          /\ \A k \in 1 .. Len(accounts) - 1 :
               s[k] = IF k < i THEN accounts[k] ELSE accounts[k + 1]
      BY <3>1, <3>3, RemoveAtIs
    <3>5. /\ DOMAIN accounts = 1 .. Len(accounts) /\ Len(accounts) \in Nat
          /\ DOMAIN s = 1 .. Len(accounts) - 1
      BY <3>3, <3>4, ListIs
    <3>6. ASSUME NEW k \in DOMAIN s
          PROVE  /\ DOMAIN s[k] = AccountShape
                 /\ s[k].id \in 1 .. made /\ s[k].chain \in Chain
                 /\ \A j \in DOMAIN s : s[k].id = s[j].id => k = j
      <4>. DEFINE at(m) == IF m < i THEN m ELSE m + 1
      <4>1. \A m \in DOMAIN s : at(m) \in DOMAIN accounts /\ s[m] = accounts[at(m)]
        BY <3>1, <3>4, <3>5
      <4>2. \A m \in DOMAIN s : at(k) = at(m) => k = m
        BY <3>1, <3>5
      <4>3. /\ DOMAIN accounts[at(k)] = AccountShape
            /\ accounts[at(k)].id \in 1 .. made /\ accounts[at(k)].chain \in Chain
            /\ \A m \in DOMAIN accounts : accounts[at(k)].id = accounts[m].id => at(k) = m
        BY <4>1 DEF StoreOK
      <4>. HIDE DEF at
      <4>. QED BY <4>1, <4>2, <4>3
    <3>. QED BY <1>1, <3>2, <3>4, <3>6 DEF StoreOK
  <2>. QED BY <2>1, <2>2
<1>. QED BY <1>1, <1>2, <1>3, <1>4 DEF Stepped

LEMMA RepointStep ==
  ASSUME StoreOK, ListsOK, NEW h \in setting.handles, setting' = setting, DoRepoint(h)
  PROVE  /\ Stepped(h) /\ UNCHANGED <<accounts, config, alone, settled>>
         /\ \/ IsAfter(todo'[h], <<>>, todo[h])
            \/ IsAfter(todo'[h], <<[op |-> "fallback"]>>, todo[h])
<1>. DEFINE ops == IF config[Active] = Head(todo[h]).id THEN <<[op |-> "fallback"]>> ELSE <<>>
<1>1. ~Idle(h) /\ UNCHANGED <<accounts, config, made, alone, settled>> /\ Continue(h, ops)
  BY DEF DoRepoint, Doing
<1>2. IsList(ops) /\ \A k \in DOMAIN ops : OpOK(ops[k])
  <2>1. OpOK([op |-> "fallback"])
    BY DEF OpOK
  <2>. QED BY <2>1, OneOp, NoOps
<1>3. StoreOK' /\ ListsOK' /\ h \in Handle /\ IsAfter(todo'[h], ops, todo[h])
      /\ \A g \in Handle \ {h} : todo'[g] = todo[g]
  <2>. HIDE DEF ops
  <2>. QED BY <1>1, <1>2, ReadStep
<1>. QED BY <1>1, <1>3 DEF Stepped

LEMMA FallbackStep ==
  ASSUME StoreOK, ListsOK, NEW h \in setting.handles, setting' = setting, DoFallback(h)
  PROVE  /\ Stepped(h) /\ UNCHANGED <<accounts, config, alone, settled>>
         /\ \E v : IsAfter(todo'[h], <<Set(Active, v)>>, todo[h])
<1>. DEFINE v == IF accounts = <<>> THEN Unset ELSE accounts[1].id
<1>1. ~Idle(h) /\ UNCHANGED <<accounts, config, made, alone, settled>>
      /\ Continue(h, <<Set(Active, v)>>)
  BY DEF DoFallback, Doing
<1>2. OpOK(Set(Active, v))
  BY KeysAre DEF OpOK, Set
<1>3. StoreOK' /\ ListsOK' /\ h \in Handle /\ IsAfter(todo'[h], <<Set(Active, v)>>, todo[h])
      /\ \A g \in Handle \ {h} : todo'[g] = todo[g]
  <2>. HIDE DEF v
  <2>. QED BY <1>1, <1>2, OneOp, ReadStep
<1>. QED BY <1>1, <1>3 DEF Stepped

LEMMA CrashStep ==
  ASSUME StoreOK, ListsOK, NEW h \in setting.handles, setting' = setting, Crash(h)
  PROVE  /\ Stepped(h) /\ UNCHANGED <<accounts, config, alone, settled>>
         /\ todo'[h] = <<>>
<1>1. ~Idle(h) /\ UNCHANGED <<accounts, config, made, alone, settled>>
      /\ todo' = [todo EXCEPT ![h] = <<>>]
  BY DEF Crash
<1>2. ListsOK' /\ h \in Handle /\ todo'[h] = <<>>
      /\ \A g \in Handle \ {h} : todo'[g] = todo[g]
  <2>1. alone' = [g \in Handle |-> alone'[g]]
    BY <1>1 DEF ListsOK, Rest
  <2>. QED BY <1>1, <2>1, NoOps, ListsReplace
<1>3. StoreOK'
  BY <1>1, StoreSame
<1>. QED BY <1>1, <1>2, <1>3 DEF Stepped

(* The accounts a move owes chain c, in the order f puts them.             *)
Faces(c, f) == [n \in DOMAIN f |-> Face(c, accounts[f[n]])]

LEMMA OwedIs ==
  ASSUME StoreOK, NEW c
  PROVE  /\ Owed(c) \subseteq DOMAIN accounts /\ IsFiniteSet(Owed(c))
         /\ Cardinality(Owed(c)) \in Nat
<1>1. DOMAIN accounts = 1 .. Len(accounts) /\ Len(accounts) \in Nat
  BY ListIs DEF StoreOK
<1>2. IsFiniteSet(DOMAIN accounts)
  BY <1>1, FS_Interval
<1>3. Owed(c) \subseteq DOMAIN accounts
  BY DEF Owed
<1>. QED BY <1>2, <1>3, FS_Subset, FS_CardinalityType

LEMMA FacesAre ==
  ASSUME StoreOK, NEW c \in Chain, NEW f \in InTurn(Owed(c))
  PROVE  /\ IsList(Faces(c, f)) /\ DOMAIN Faces(c, f) = DOMAIN f
         /\ \A k \in DOMAIN Faces(c, f) :
              OpOK(Faces(c, f)[k]) /\ f[k] \in Owed(c)
              /\ Faces(c, f)[k] = Face(c, accounts[f[k]])
<1>1. /\ DOMAIN f = 1 .. Cardinality(Owed(c)) /\ \A k \in DOMAIN f : f[k] \in Owed(c)
  BY DEF InTurn
<1>2. \A a : OpOK(Face(c, a))
  BY DEF OpOK, Face, CreateShape
<1>3. DOMAIN Faces(c, f) = DOMAIN f
      /\ \A k \in DOMAIN f : Faces(c, f)[k] = Face(c, accounts[f[k]])
  BY DEF Faces
<1>4. IsList(Faces(c, f))
  <2>1. PICK s : s = Faces(c, f)
    OBVIOUS
  <2>2. s = [k \in 1 .. Cardinality(Owed(c)) |-> s[k]]
    BY <1>1, <2>1 DEF Faces
  <2>3. s \in [1 .. Cardinality(Owed(c)) -> Range(s)]
    BY <2>2 DEF Range
  <2>4. s \in Seq(Range(s))
    BY <2>3, OwedIs, SeqDef
  <2>. QED BY <2>1, <2>4 DEF IsList
<1>. QED BY <1>1, <1>2, <1>3, <1>4

LEMMA MissingStep ==
  ASSUME StoreOK, ListsOK, NEW h \in setting.handles, setting' = setting, DoMissing(h)
  PROVE  /\ Stepped(h) /\ UNCHANGED <<accounts, config, alone, settled>>
         /\ Head(todo[h]).chain \in Chain
         /\ \E f \in InTurn(Owed(Head(todo[h]).chain)) :
              IsAfter(todo'[h], Faces(Head(todo[h]).chain, f), todo[h])
<1>. DEFINE c == Head(todo[h]).chain
<1>1. ~Idle(h) /\ Head(todo[h]).op = "missing"
      /\ UNCHANGED <<accounts, config, made, alone, settled>>
      /\ \E owed \in Missing(c) : Continue(h, [i \in DOMAIN owed |-> Face(c, owed[i])])
  BY DEF DoMissing, Doing
<1>2. c \in Chain
  BY <1>1, HeadIs DEF OpOK
<1>3. PICK owed \in Missing(c) : Continue(h, [i \in DOMAIN owed |-> Face(c, owed[i])])
  BY <1>1
<1>4. PICK f \in InTurn(Owed(c)) : owed = [n \in DOMAIN f |-> accounts[f[n]]]
  BY DEF Missing
<1>5. [i \in DOMAIN owed |-> Face(c, owed[i])] = Faces(c, f)
  BY <1>4 DEF Faces
<1>6. StoreOK' /\ ListsOK' /\ h \in Handle /\ IsAfter(todo'[h], Faces(c, f), todo[h])
      /\ \A g \in Handle \ {h} : todo'[g] = todo[g]
  <2>. PICK ops : ops = Faces(c, f)
    OBVIOUS
  <2>1. IsList(ops) /\ \A k \in DOMAIN ops : OpOK(ops[k])
    BY <1>2, FacesAre
  <2>. QED BY <1>1, <1>3, <1>5, <2>1, ReadStep
<1>. QED BY <1>1, <1>2, <1>6 DEF Stepped

(* A nonempty set of numbers has a least one.                              *)
LEMMA LeastIs ==
  ASSUME NEW S \in SUBSET Nat, S # {}
  PROVE  Min(S) \in S /\ \A i \in S : Min(S) <= i
<1>. DEFINE Less == {ss \in Nat \X Nat : ss[1] < ss[2]}
<1>1. IsWellFoundedOn(Less, Nat)
  BY NatLessThanWellFounded DEF OpToRel
<1>2. PICK m \in S : \A j \in S : ~ (<<j, m>> \in Less)
  <2>. HIDE DEF Less
  <2>. QED BY <1>1, WFMin
<1>3. ASSUME NEW j \in S PROVE m <= j
  <2>1. j < m => <<j, m>> \in Less
    OBVIOUS
  <2>. QED BY <1>2, <2>1
<1>. QED BY <1>3 DEF Min

LEMMA ActiveOnIs ==
  ASSUME StoreOK, NEW c
  PROVE  \/ ActiveAccountOn(c) = Unset /\ AccountsOn(c) = {}
         \/ /\ ActiveAccountOn(c) # Unset
            /\ \E i \in DOMAIN accounts :
                 accounts[i].chain = c /\ ActiveAccountOn(c) = accounts[i].id
<1>. DEFINE ids == {accounts[i].id : i \in AccountsOn(c)}
<1>1. AccountsOn(c) \subseteq DOMAIN accounts /\ \A i \in AccountsOn(c) : accounts[i].chain = c
  BY DEF AccountsOn
<1>2. DOMAIN accounts \subseteq Nat /\ \A i \in DOMAIN accounts : accounts[i].id # Unset
  <2>1. DOMAIN accounts \subseteq Nat
    BY ListIs DEF StoreOK
  <2>. QED BY <2>1, WalletConstants DEF StoreOK
<1>3. CASE AccountsOn(c) = {}
  BY <1>3 DEF ActiveAccountOn
<1>4. CASE AccountsOn(c) # {}
  <2>1. Min(AccountsOn(c)) \in AccountsOn(c)
    BY <1>1, <1>2, <1>4, LeastIs
  <2>2. ids # {} /\ ActiveAccountOn(c) \in ids
    BY <1>4, <2>1 DEF ActiveAccountOn
  <2>. QED BY <1>1, <1>2, <2>2
<1>. QED BY <1>3, <1>4

LEMMA AdoptStep ==
  ASSUME StoreOK, ListsOK, NEW h \in setting.handles, setting' = setting, DoAdopt(h)
  PROVE  /\ Stepped(h) /\ UNCHANGED <<accounts, config, alone, settled>>
         /\ \/ /\ AccountsOn(Head(todo[h]).chain) = {}
               /\ IsAfter(todo'[h], <<>>, todo[h])
            \/ \E i \in DOMAIN accounts :
                 /\ accounts[i].chain = Head(todo[h]).chain
                 /\ IsAfter(todo'[h], <<Settle(Active, accounts[i].id)>>, todo[h])
<1>. DEFINE c == Head(todo[h]).chain
            id == ActiveAccountOn(c)
<1>1. ~Idle(h) /\ UNCHANGED <<accounts, config, made, alone, settled>>
      /\ Continue(h, IF id = Unset THEN <<>> ELSE <<[Set(Active, id) EXCEPT !.settles = TRUE]>>)
  BY DEF DoAdopt, Doing
<1>2. [Set(Active, id) EXCEPT !.settles = TRUE] = Settle(Active, id)
  <2>1. \A k, v, x : [Set(k, v) EXCEPT !.settles = x] =
                       [op |-> "set", key |-> k, value |-> v, settles |-> x]
    BY DEF Set
  <2>. QED BY <2>1 DEF Settle
<1>3. OpOK(Settle(Active, id))
  BY KeysAre DEF OpOK, Settle
<1>. HIDE DEF id
<1>4. CASE id = Unset
  <2>1. Continue(h, <<>>)
    BY <1>1, <1>4
  <2>2. StoreOK' /\ ListsOK' /\ h \in Handle /\ IsAfter(todo'[h], <<>>, todo[h])
        /\ \A g \in Handle \ {h} : todo'[g] = todo[g]
    BY <1>1, <2>1, NoOps, ReadStep
  <2>3. AccountsOn(c) = {}
    BY <1>4, ActiveOnIs DEF id
  <2>. QED BY <1>1, <2>2, <2>3 DEF Stepped
<1>5. CASE id # Unset
  <2>1. Continue(h, <<Settle(Active, id)>>)
    BY <1>1, <1>2, <1>5
  <2>2. StoreOK' /\ ListsOK' /\ h \in Handle
        /\ IsAfter(todo'[h], <<Settle(Active, id)>>, todo[h])
        /\ \A g \in Handle \ {h} : todo'[g] = todo[g]
    BY <1>1, <1>3, <2>1, OneOp, ReadStep
  <2>3. PICK i \in DOMAIN accounts : accounts[i].chain = c /\ id = accounts[i].id
    BY <1>5, ActiveOnIs DEF id
  <2>. QED BY <1>1, <2>2, <2>3 DEF Stepped
<1>. QED BY <1>4, <1>5

----------------------------------------------------------------------------
(* A command that starts.                                                  *)

LEMMA StartStep ==
  ASSUME StoreOK, ListsOK, NEW h \in setting.handles, setting' = setting,
         NEW kind, NEW ops, IsList(ops), \A k \in DOMAIN ops : OpOK(ops[k]),
         Start(h, kind, ops)
  PROVE  /\ StoreOK' /\ ListsOK' /\ h \in Handle /\ Idle(h) /\ todo'[h] = ops
         /\ \A g \in Handle \ {h} : todo'[g] = todo[g]
         /\ UNCHANGED <<accounts, config>> /\ settled' = FALSE
         /\ alone' = [g \in Handle |-> g = h /\ \A f \in Handle \ {h} : Idle(f)]
<1>1. /\ Idle(h) /\ todo' = [todo EXCEPT ![h] = ops]
      /\ alone' = [g \in Handle |-> g = h /\ \A f \in Handle \ {h} : Idle(f)]
      /\ settled' = FALSE /\ UNCHANGED <<accounts, config, made>>
  BY DEF Start
<1>2. alone' = [g \in Handle |-> alone'[g]]
  BY <1>1
<1>3. StoreOK'
  BY <1>1, StoreSame
<1>4. ListsOK' /\ h \in Handle /\ todo'[h] = ops
      /\ \A g \in Handle \ {h} : todo'[g] = todo[g]
  BY <1>1, <1>2, ListsReplace
<1>. QED BY <1>1, <1>3, <1>4

LEMMA CreateOps ==
  ASSUME NEW chains \in Seq(Chain), NEW source, NEW plain, NEW index, NEW next, NEW label,
         NEW t, t = CreateWallet(chains, source, plain, index, next, label)
  PROVE  /\ IsList(t) /\ \A k \in DOMAIN t : OpOK(t[k])
         /\ Len(t) = Len(chains) + 1 /\ t[Len(t)] = [op |-> "remember", source |-> source]
         /\ \A k \in 1 .. Len(chains) :
              \E l : t[k] = Create(chains[k], source, plain, index, next, l)
<1>. DEFINE lab(i) == IF label = Unset \/ Len(chains) = 1 THEN label
                      ELSE Append(label, chains[i])
            cs == [i \in DOMAIN chains |-> Create(chains[i], source, plain, index, next, lab(i))]
            r  == [op |-> "remember", source |-> source]
<1>1. t = Append(cs, r)
  BY DEF CreateWallet
<1>. HIDE DEF lab
<1>2. Len(chains) \in Nat /\ DOMAIN chains = 1 .. Len(chains)
      /\ \A k \in DOMAIN chains : chains[k] \in Chain
  OBVIOUS
<1>3. \A k \in 1 .. Len(chains) : cs[k] = Create(chains[k], source, plain, index, next, lab(k))
  BY <1>2
<1>4. cs \in [1 .. Len(chains) -> Range(cs)]
  BY <1>2 DEF Range
<1>5. cs \in Seq(Range(cs)) /\ Len(cs) = Len(chains)
  BY <1>2, <1>4, SeqDef
<1>. HIDE DEF cs, r
<1>6. /\ t \in Seq(Range(cs) \cup {r}) /\ Len(t) = Len(chains) + 1
      /\ t[Len(t)] = r /\ \A k \in 1 .. Len(chains) : t[k] = cs[k]
  BY <1>1, <1>2, <1>5
<1>7. OpOK(r)
  BY DEF OpOK, r
<1>8. ASSUME NEW c \in Chain, NEW l PROVE OpOK(Create(c, source, plain, index, next, l))
  BY DEF OpOK, Create, CreateShape
<1>9. ASSUME NEW k \in DOMAIN t PROVE OpOK(t[k])
  <2>1. DOMAIN t = 1 .. Len(t)
    BY <1>6
  <2>2. k \in 1 .. Len(chains) \/ k = Len(t)
    BY <1>2, <1>6, <2>1
  <2>. QED BY <1>2, <1>3, <1>6, <1>7, <1>8, <2>2
<1>. QED BY <1>3, <1>6, <1>9, ListsOf DEF r

LEMMA ChoicesAre ==
  /\ ChainChoice \subseteq Seq(Chain)
  /\ \A c \in Chain : <<c>> \in Seq(Chain)
  /\ ChainList \in Seq(Chain)
<1>1. \A c \in Chain : <<c>> \in Seq(Chain)
  OBVIOUS
<1>2. ChainList \in Seq(Chain)
  BY WalletConstants
<1>3. \A x \in ChainChoice : (\E c \in Chain : x = <<c>>) \/ x = ChainList
  BY DEF ChainChoice
<1>. QED BY <1>1, <1>2, <1>3

LEMMA NetworkOps ==
  ASSUME NEW n \in Network, NEW c, c = ChainOfNetwork[n],
         NEW t, t = <<Set(Selected, n), Set(SelectedOnKey(c), n), Derive(c), Adopt(c)>>
  PROVE  c \in Chain /\ IsList(t) /\ \A k \in DOMAIN t : OpOK(t[k])
<1>1. c \in Chain
  BY WalletConstants
<1>2. OpOK(Set(Selected, n)) /\ OpOK(Set(SelectedOnKey(c), n)) /\ OpOK(Derive(c))
      /\ OpOK(Adopt(c))
  BY <1>1, KeysAre DEF OpOK, Set, Derive, Adopt
<1>3. IsList(t) /\ DOMAIN t = {1, 2, 3, 4}
  BY FourIs
<1>. QED BY <1>1, <1>2, <1>3

----------------------------------------------------------------------------
(* One undisturbed move puts the position right.                           *)

LEMMA SameUndisturbed ==
  ASSUME UNCHANGED <<accounts, config>>, NEW t, Undisturbed(t)
  PROVE  Undisturbed(t)'
BY DEF Undisturbed, Using, Moving, Deriving, Making, Other, Settling, Activate, Set,
       Settle, Follow, Derive, Adopt, Active, ActiveOnKey, Selected, SelectedOnKey

(* An operation other than these two is one of a command that settles      *)
(* nothing, unless it creates an account.                                  *)
LEMMA HeadTells ==
  ASSUME NEW t, IsList(t), t # <<>>, Undisturbed(t),
         t[1].op \notin {"set", "follow", "missing", "adopt"}
  PROVE  \/ Other(t)
         \/ /\ t[1].op \in {"create", "append"}
            /\ \E n \in Network : config[Selected] = n /\ Deriving(ChainOfNetwork[n], t)
<1>1. \A a : ~Using(a, t)
  BY DEF Using, Activate, Set, Follow, Settle
<1>2. ASSUME NEW n \in Network, Moving(n, t)
      PROVE  /\ t[1].op \in {"create", "append"}
             /\ config[Selected] = n /\ Deriving(ChainOfNetwork[n], t)
  <2>1. config[Selected] = n /\ Deriving(ChainOfNetwork[n], t)
    BY <1>2 DEF Moving, Set, Settle, Derive, Adopt
  <2>2. t[Len(t)].op = "adopt" /\ Len(t) \in Nat \ {0}
    BY <2>1, ListIs DEF Deriving, Adopt
  <2>3. 1 \in 1 .. Len(t) - 1
    BY <2>2
  <2>4. Making(t[1])
    BY <2>1, <2>3 DEF Deriving
  <2>. QED BY <2>1, <2>4 DEF Making
<1>. QED BY <1>1, <1>2 DEF Undisturbed

LEMMA OtherStays ==
  ASSUME NEW t, IsList(t), Other(t), NEW ops, NEW u, IsAfter(u, ops, t),
         \A k \in DOMAIN ops : ~Settling(ops[k])
  PROVE  Other(u)
BY DEF IsAfter, Other

LEMMA StartMoves ==
  ASSUME MoveOK, NEW h \in setting.handles, setting' = setting, NEW kind, NEW ops,
         IsList(ops), \A k \in DOMAIN ops : OpOK(ops[k]), Undisturbed(ops),
         Start(h, kind, ops)
  PROVE  MoveOK'
<1>1. /\ StoreOK' /\ ListsOK' /\ h \in Handle /\ Idle(h) /\ todo'[h] = ops
      /\ \A g \in Handle \ {h} : todo'[g] = todo[g]
      /\ UNCHANGED <<accounts, config>> /\ settled' = FALSE
      /\ alone' = [g \in Handle |-> g = h /\ \A f \in Handle \ {h} : Idle(f)]
  BY StartStep DEF MoveOK
<1>2. \A g \in Handle : alone'[g] => g = h /\ \A f \in Handle \ {h} : Idle(f)
  BY <1>1
<1>3. \A g \in Handle : alone'[g] => \A f \in Handle \ {g} : todo'[f] = <<>>
  BY <1>1, <1>2 DEF Idle
<1>4. Undisturbed(ops)'
  BY <1>1, SameUndisturbed DEF MoveOK
<1>5. \A g \in Handle : alone'[g] => Undisturbed(todo[g])'
  BY <1>1, <1>2, <1>4
<1>. QED BY <1>1, <1>3, <1>5 DEF MoveOK, AloneOK, Idle

LEMMA StepMoves ==
  ASSUME MoveOK, NEW h \in setting.handles, Stepped(h), UNCHANGED <<alone, settled>>,
         alone[h] => Undisturbed(todo[h])'
  PROVE  MoveOK'
<1>1. h \in Handle /\ ~Idle(h) /\ \A g \in Handle \ {h} : todo'[g] = todo[g]
  BY DEF Stepped
<1>2. settled' = FALSE \/ ~settled'
  BY <1>1 DEF MoveOK, Quiet
<1>3. \A g \in Handle : alone[g] => g = h
  BY <1>1 DEF MoveOK, AloneOK
<1>4. AloneOK'
  BY <1>1, <1>3 DEF MoveOK, AloneOK, Idle
<1>5. \A g \in Handle : alone'[g] => Undisturbed(todo[g])'
  BY <1>1, <1>3
<1>. QED BY <1>2, <1>4, <1>5 DEF MoveOK, Stepped

LEMMA TailIs ==
  ASSUME NEW u, NEW t, IsAfter(u, <<>>, t), Len(t) \in Nat
  PROVE  /\ IsList(u) /\ Len(u) = Len(t) - 1
         /\ \A k \in 1 .. Len(t) - 1 : u[k] = t[k + 1]
<1>1. IsList(u) /\ Len(u) = Len(t) - 1 /\ \A k \in 1 .. Len(t) - 1 : u[0 + k] = t[k + 1]
  BY NoOps DEF IsAfter
<1>. QED BY <1>1

LEMMA TailOfOne ==
  ASSUME NEW u, NEW a, IsAfter(u, <<>>, <<a>>)
  PROVE  u = <<>>
<1>1. PICK t : t = <<a>> /\ Len(t) = 1
  BY OneIs
<1>2. /\ IsList(u) /\ Len(u) = Len(t) - 1
      /\ \A k \in 1 .. Len(t) - 1 : u[k] = t[k + 1]
  <2>1. IsAfter(u, <<>>, t) /\ Len(t) \in Nat
    BY <1>1
  <2>. QED BY <2>1, TailIs
<1>. QED BY <1>1, <1>2, ListIs

LEMMA TailOfTwo ==
  ASSUME NEW u, NEW a, NEW b, IsAfter(u, <<>>, <<a, b>>)
  PROVE  u = <<b>>
<1>1. PICK t : t = <<a, b>> /\ Len(t) = 2 /\ t[2] = b
  BY TwoIs
<1>2. /\ IsList(u) /\ Len(u) = Len(t) - 1
      /\ \A k \in 1 .. Len(t) - 1 : u[k] = t[k + 1]
  <2>1. IsAfter(u, <<>>, t) /\ Len(t) \in Nat
    BY <1>1
  <2>. QED BY <2>1, TailIs
<1>3. IsList(u) /\ Len(u) = 1 /\ u[1] = b
  BY <1>1, <1>2
<1>. QED BY <1>3 DEF IsList

LEMMA TailOfThree ==
  ASSUME NEW u, NEW a, NEW b, NEW c, IsAfter(u, <<>>, <<a, b, c>>)
  PROVE  u = <<b, c>>
<1>1. PICK t : t = <<a, b, c>> /\ Len(t) = 3 /\ t[2] = b /\ t[3] = c
  BY ThreeIs
<1>2. /\ IsList(u) /\ Len(u) = Len(t) - 1
      /\ \A k \in 1 .. Len(t) - 1 : u[k] = t[k + 1]
  <2>1. IsAfter(u, <<>>, t) /\ Len(t) \in Nat
    BY <1>1
  <2>. QED BY <2>1, TailIs
<1>3. IsList(u) /\ Len(u) = 2 /\ u[1] = b /\ u[2] = c
  BY <1>1, <1>2
<1>. QED BY <1>3 DEF IsList

LEMMA TailOfFour ==
  ASSUME NEW u, NEW a, NEW b, NEW c, NEW d, IsAfter(u, <<>>, <<a, b, c, d>>)
  PROVE  u = <<b, c, d>>
<1>1. PICK t : t = <<a, b, c, d>> /\ Len(t) = 4 /\ t[2] = b /\ t[3] = c /\ t[4] = d
  BY FourIs
<1>2. /\ IsList(u) /\ Len(u) = Len(t) - 1
      /\ \A k \in 1 .. Len(t) - 1 : u[k] = t[k + 1]
  <2>1. IsAfter(u, <<>>, t) /\ Len(t) \in Nat
    BY <1>1
  <2>. QED BY <2>1, TailIs
<1>3. IsList(u) /\ Len(u) = 3 /\ u[1] = b /\ u[2] = c /\ u[3] = d
  BY <1>1, <1>2
<1>. QED BY <1>3 DEF IsList

(* An operation set done: what it leaves, and the config it makes.         *)
LEMMA SetMakes ==
  ASSUME StoreOK, ListsOK, NEW h \in setting.handles, setting' = setting, DoSet(h)
  PROVE  /\ UNCHANGED <<accounts, alone>> /\ Head(todo[h]).op = "set"
         /\ settled' = (Head(todo[h]).settles /\ alone[h])
         /\ config' = [config EXCEPT ![Head(todo[h]).key] = Head(todo[h]).value]
         /\ DOMAIN config = ConfigKey
BY DEF DoSet, Doing, StoreOK

LEMMA PositionIs ==
  ASSUME UNCHANGED accounts, NEW i \in DOMAIN accounts, NEW n \in Network,
         ChainOfNetwork[n] = accounts[i].chain,
         config'[Active] = accounts[i].id, config'[Selected] = n
  PROVE  InPlace'
BY DEF InPlace, Active, Selected

LEMMA PlaceIs ==
  ASSUME StoreOK, InPlace
  PROVE  accounts # <<>> /\ AccountOf(ActiveAccount).chain = ChainOfNetwork[SelectedNetwork]
<1>. PICK i \in DOMAIN accounts :
       /\ config[Active] = accounts[i].id
       /\ config[Selected] \in Network /\ ChainOfNetwork[config[Selected]] = accounts[i].chain
  BY DEF InPlace
<1>1. SelectedNetwork = config[Selected]
  BY WalletConstants DEF SelectedNetwork
<1>2. AccountOf(accounts[i].id) = accounts[i] /\ accounts[i].id \in Ids
  BY AccountIs
<1>3. accounts # <<>>
  BY EmptyList
<1>4. ActiveAccount = accounts[i].id
  BY <1>2, <1>3 DEF ActiveAccount
<1>. QED BY <1>1, <1>2, <1>3, <1>4

LEMMA SetUndisturbed ==
  ASSUME StoreOK, ListsOK, NEW h \in setting.handles, setting' = setting, DoSet(h),
         Undisturbed(todo[h])
  PROVE  /\ Undisturbed(todo[h])'
         /\ Head(todo[h]).settles => todo'[h] = <<>> /\ InPlace'
<1>. PICK t, u, o : t = todo[h] /\ u = todo'[h] /\ o = Head(todo[h])
  OBVIOUS
<1>1. IsAfter(u, <<>>, t) /\ h \in Handle
  BY SetStep DEF Stepped
<1>2. /\ UNCHANGED accounts /\ o.op = "set" /\ DOMAIN config = ConfigKey
      /\ config' = [config EXCEPT ![o.key] = o.value]
  BY SetMakes
<1>3. IsList(t) /\ t # <<>> /\ o = t[1] /\ 1 \in DOMAIN t
  BY HeadIs, SetStep DEF Stepped
<1>4. SUFFICES Undisturbed(u)' /\ (o.settles => u = <<>> /\ InPlace')
  OBVIOUS
<1>5. Active # Selected /\ \A c : Active # ActiveOnKey(c) /\ Active # SelectedOnKey(c)
      /\ Selected # ActiveOnKey(c) /\ Selected # SelectedOnKey(c)
  BY KeysDiffer
<1>6. Active \in ConfigKey /\ Selected \in ConfigKey
  BY KeysAre
<1>7. CASE Other(t)
  <2>1. ~o.settles
    BY <1>2, <1>3, <1>7 DEF Other, Settling
  <2>2. Other(u)
    BY <1>1, <1>3, <1>7, NoOps, OtherStays
  <2>. QED BY <2>1, <2>2 DEF Undisturbed, Other, Settling
<1>8. ASSUME NEW i \in DOMAIN accounts, Using(accounts[i], t)
      PROVE  Undisturbed(u)' /\ (o.settles => u = <<>> /\ InPlace')
  <2>. PICK a : a = accounts[i]
    OBVIOUS
  <2>1. Using(a, t) /\ a = accounts'[i] /\ i \in DOMAIN accounts'
    BY <1>2, <1>8
  <2>2. CASE t = Activate(a.id, a.chain, TRUE)
    <3>1. t = <<Set(Active, a.id), Set(ActiveOnKey(a.chain), a.id), Follow(a.chain, TRUE)>>
      BY <2>2 DEF Activate, Follow
    <3>2. u = <<Set(ActiveOnKey(a.chain), a.id), Follow(a.chain, TRUE)>>
      <4>0. PICK x, y, z : x = Set(Active, a.id) /\ y = Set(ActiveOnKey(a.chain), a.id)
                          /\ z = Follow(a.chain, TRUE)
        OBVIOUS
      <4>1. IsAfter(u, <<>>, <<x, y, z>>)
        BY <1>1, <3>1, <4>0
      <4>2. u = <<y, z>>
        BY <4>1, TailOfThree
      <4>. QED BY <4>0, <4>2
    <3>3. ~o.settles /\ o.key = Active /\ o.value = a.id
      BY <1>3, <3>1 DEF Set
    <3>4. config'[Active] = a.id
      BY <1>2, <1>6, <3>3
    <3>5. Using(a, u)'
      BY <3>2, <3>4 DEF Using
    <3>. QED BY <2>1, <3>3, <3>5 DEF Undisturbed
  <2>3. CASE config[Active] = a.id
             /\ t = <<Set(ActiveOnKey(a.chain), a.id), Follow(a.chain, TRUE)>>
    <3>1. u = <<Follow(a.chain, TRUE)>>
      BY <1>1, <2>3, TailOfTwo
    <3>2. ~o.settles /\ o.key = ActiveOnKey(a.chain)
      BY <1>3, <2>3 DEF Set
    <3>3. config'[Active] = a.id
      BY <1>2, <1>5, <1>6, <2>3, <3>2
    <3>4. Using(a, u)'
      BY <3>1, <3>3 DEF Using
    <3>. QED BY <2>1, <3>2, <3>4 DEF Undisturbed
  <2>4. ASSUME NEW n \in Network, ChainOfNetwork[n] = a.chain, config[Active] = a.id,
               t = <<Set(Selected, n), Settle(SelectedOnKey(a.chain), n)>>
        PROVE  Undisturbed(u)' /\ ~o.settles
    <3>1. u = <<Settle(SelectedOnKey(a.chain), n)>>
      BY <1>1, <2>4, TailOfTwo
    <3>2. ~o.settles /\ o.key = Selected /\ o.value = n
      BY <1>3, <2>4 DEF Set
    <3>3. config'[Active] = a.id /\ config'[Selected] = n
      BY <1>2, <1>5, <1>6, <2>4, <3>2
    <3>4. Using(a, u)'
      BY <2>4, <3>1, <3>3 DEF Using
    <3>. QED BY <2>1, <3>2, <3>4 DEF Undisturbed
  <2>5. ASSUME NEW n \in Network, ChainOfNetwork[n] = a.chain, config[Active] = a.id,
               config[Selected] = n, t = <<Settle(SelectedOnKey(a.chain), n)>>
        PROVE  Undisturbed(u)' /\ u = <<>> /\ InPlace'
    <3>1. u = <<>>
      BY <1>1, <2>5, TailOfOne
    <3>2. o.key = SelectedOnKey(a.chain)
      BY <1>3, <2>5 DEF Settle
    <3>3. config'[Active] = a.id /\ config'[Selected] = n
      BY <1>2, <1>5, <1>6, <2>5, <3>2
    <3>4. InPlace'
      BY <1>2, <2>5, <3>3, PositionIs
    <3>. QED BY <3>1, <3>4, NoOps DEF Undisturbed, Other
  <2>6. t # <<Follow(a.chain, TRUE)>>
    BY <1>2, <1>3 DEF Follow
  <2>. QED BY <2>1, <2>2, <2>3, <2>4, <2>5, <2>6 DEF Using
<1>9. ASSUME NEW n \in Network, Moving(n, t)
      PROVE  Undisturbed(u)' /\ (o.settles => u = <<>> /\ InPlace')
  <2>. PICK c : c = ChainOfNetwork[n]
    OBVIOUS
  <2>1. CASE t = <<Set(Selected, n), Set(SelectedOnKey(c), n), Derive(c), Adopt(c)>>
    <3>1. u = <<Set(SelectedOnKey(c), n), Derive(c), Adopt(c)>>
      BY <1>1, <2>1, TailOfFour
    <3>2. ~o.settles /\ o.key = Selected /\ o.value = n
      BY <1>3, <2>1 DEF Set
    <3>3. config'[Selected] = n
      BY <1>2, <1>6, <3>2
    <3>4. Moving(n, u)'
      BY <3>1, <3>3 DEF Moving
    <3>. QED BY <3>2, <3>4 DEF Undisturbed
  <2>2. CASE config[Selected] = n /\ t = <<Set(SelectedOnKey(c), n), Derive(c), Adopt(c)>>
    <3>1. u = <<Derive(c), Adopt(c)>>
      BY <1>1, <2>2, TailOfThree
    <3>2. ~o.settles /\ o.key = SelectedOnKey(c)
      BY <1>3, <2>2 DEF Set
    <3>3. config'[Selected] = n
      BY <1>2, <1>5, <1>6, <2>2, <3>2
    <3>4. Moving(n, u)'
      BY <3>1, <3>3 DEF Moving
    <3>. QED BY <3>2, <3>4 DEF Undisturbed
  <2>3. ASSUME NEW i \in DOMAIN accounts, accounts[i].chain = c, config[Selected] = n,
               t = <<Settle(Active, accounts[i].id)>>
        PROVE  Undisturbed(u)' /\ u = <<>> /\ InPlace'
    <3>1. u = <<>>
      BY <1>1, <2>3, TailOfOne
    <3>2. o.key = Active /\ o.value = accounts[i].id
      BY <1>3, <2>3 DEF Settle
    <3>3. config'[Active] = accounts[i].id /\ config'[Selected] = n
      BY <1>2, <1>5, <1>6, <2>3, <3>2
    <3>4. InPlace'
      BY <1>2, <2>3, <3>3, PositionIs
    <3>. QED BY <3>1, <3>4, NoOps DEF Undisturbed, Other
  <2>4. t # <<Derive(c), Adopt(c)>>
    BY <1>2, <1>3 DEF Derive
  <2>5. ~Deriving(c, t)
    <3>1. Len(t) \in Nat \ {0}
      BY <1>3, ListIs
    <3>2. 1 \in 1 .. Len(t) - 1 \/ 1 = Len(t)
      <4>1. \A m \in Nat \ {0} : 1 \in 1 .. m - 1 \/ 1 = m
        OBVIOUS
      <4>. QED BY <3>1, <4>1
    <3>. QED BY <1>2, <1>3, <3>2 DEF Deriving, Making, Adopt
  <2>. QED BY <1>9, <2>1, <2>2, <2>3, <2>4, <2>5 DEF Moving
<1>. QED BY <1>7, <1>8, <1>9 DEF Undisturbed

(* The accounts a move makes come before the move to one of them.          *)
LEMMA DerivingStays ==
  ASSUME NEW c, NEW t, IsList(t), Len(t) >= 2, t[Len(t)] = Adopt(c),
         \A k \in 2 .. Len(t) - 1 : Making(t[k]) /\ t[k].chain = c,
         NEW ops, IsList(ops), \A k \in DOMAIN ops : Making(ops[k]) /\ ops[k].chain = c,
         NEW u, IsAfter(u, ops, t)
  PROVE  Deriving(c, u) /\ IsList(u) /\ Len(u) = Len(ops) + Len(t) - 1
<1>. PICK m, n : m = Len(ops) /\ n = Len(t)
  OBVIOUS
<1>1. m \in Nat /\ n \in Nat /\ n >= 2 /\ DOMAIN ops = 1 .. m /\ DOMAIN t = 1 .. n
  BY ListIs
<1>2. /\ IsList(u) /\ Len(u) = m + n - 1
      /\ \A k \in 1 .. n - 1 : u[m + k] = t[k + 1]
      /\ \A k \in DOMAIN u :
           \/ k \in DOMAIN ops /\ u[k] = ops[k]
           \/ k > m /\ k - m + 1 \in DOMAIN t /\ u[k] = t[k - m + 1]
  BY DEF IsAfter
<1>3. DOMAIN u = 1 .. m + n - 1 /\ u # <<>>
  BY <1>1, <1>2, ListIs
<1>4. u[Len(u)] = Adopt(c)
  <2>1. n - 1 \in 1 .. n - 1 /\ m + (n - 1) = m + n - 1 /\ (n - 1) + 1 = n
    BY <1>1
  <2>. QED BY <1>2, <2>1
<1>5. ASSUME NEW k \in 1 .. Len(u) - 1 PROVE Making(u[k]) /\ u[k].chain = c
  <2>1. k \in DOMAIN u /\ k <= m + n - 2 /\ k \in Nat
    BY <1>1, <1>2, <1>3
  <2>2. CASE k \in DOMAIN ops /\ u[k] = ops[k]
    BY <2>2
  <2>3. CASE k > m /\ u[k] = t[k - m + 1]
    <3>1. k - m + 1 \in 2 .. n - 1
      BY <1>1, <2>1, <2>3
    <3>. QED BY <2>3, <3>1
  <2>. QED BY <1>2, <2>1, <2>2, <2>3
<1>. QED BY <1>2, <1>3, <1>4, <1>5 DEF Deriving

LEMMA DerivingLong ==
  ASSUME NEW c, NEW t, IsList(t), Deriving(c, t), t[1].op # "adopt"
  PROVE  /\ Len(t) >= 2 /\ t[Len(t)] = Adopt(c) /\ Making(t[1]) /\ t[1].chain = c
         /\ \A k \in 2 .. Len(t) - 1 : Making(t[k]) /\ t[k].chain = c
<1>1. Len(t) \in Nat \ {0} /\ t[Len(t)].op = "adopt"
  BY ListIs DEF Deriving, Adopt
<1>2. Len(t) # 1
  BY <1>1
<1>3. \A n \in Nat \ {0} : n # 1 => n >= 2 /\ 1 \in 1 .. n - 1 /\ 2 .. n - 1 \subseteq 1 .. n - 1
  OBVIOUS
<1>. QED BY <1>1, <1>2, <1>3 DEF Deriving

LEMMA CreateMoves ==
  ASSUME MoveOK, NEW h \in setting.handles, setting' = setting, DoCreate(h)
  PROVE  MoveOK'
<1>. PICK t, u, o : t = todo[h] /\ u = todo'[h] /\ o = Head(todo[h])
  OBVIOUS
<1>0. StoreOK /\ ListsOK
  BY DEF MoveOK
<1>1. /\ Stepped(h) /\ UNCHANGED <<accounts, config, alone, settled>>
      /\ \/ o.label # Unset /\ u = <<>>
         \/ \E v : v.op = "append" /\ NextOf(v, o) /\ IsAfter(u, <<v>>, t)
  BY <1>0, CreateStep
<1>2. IsList(t) /\ t # <<>> /\ o = t[1] /\ 1 \in DOMAIN t /\ h \in Handle
  BY <1>0, <1>1, HeadIs DEF Stepped
<1>3. o.op = "create"
  BY DEF DoCreate, Doing
<1>4. ASSUME alone[h] PROVE Undisturbed(u)
  <2>1. Undisturbed(t)
    BY <1>2, <1>4 DEF MoveOK
  <2>2. CASE Other(t)
    <3>1. CASE u = <<>>
      BY <3>1, NoOps DEF Undisturbed, Other
    <3>2. ASSUME NEW v, v.op = "append", IsAfter(u, <<v>>, t) PROVE Other(u)
      <4>1. \A k \in DOMAIN <<v>> : ~Settling(<<v>>[k])
        BY <3>2, OneIs DEF Settling
      <4>. QED BY <1>2, <2>2, <3>2, <4>1, OtherStays
    <3>. QED BY <1>1, <3>1, <3>2 DEF Undisturbed
  <2>3. ASSUME NEW n \in Network, config[Selected] = n, Deriving(ChainOfNetwork[n], t)
        PROVE  Undisturbed(u)
    <3>. PICK c : c = ChainOfNetwork[n]
      OBVIOUS
    <3>1. /\ Len(t) >= 2 /\ t[Len(t)] = Adopt(c) /\ Making(o) /\ o.chain = c
          /\ \A k \in 2 .. Len(t) - 1 : Making(t[k]) /\ t[k].chain = c
      BY <1>2, <1>3, <2>3, DerivingLong
    <3>2. PICK v : v.op = "append" /\ NextOf(v, o) /\ IsAfter(u, <<v>>, t)
      BY <1>1, <1>3, <3>1 DEF Making
    <3>3. \A k \in DOMAIN <<v>> : Making(<<v>>[k]) /\ <<v>>[k].chain = c
      BY <3>1, <3>2, OneIs DEF Making, NextOf
    <3>4. Deriving(c, u)
      BY <1>2, <3>1, <3>2, <3>3, OneIs, DerivingStays
    <3>. QED BY <2>3, <3>4 DEF Undisturbed, Moving
  <2>. QED BY <1>2, <1>3, <2>1, <2>2, <2>3, HeadTells
<1>5. alone[h] => Undisturbed(todo[h])'
  <2>1. Undisturbed(u) => Undisturbed(u)'
    BY <1>1, SameUndisturbed
  <2>. QED BY <1>4, <2>1
<1>. QED BY <1>1, <1>5, StepMoves

LEMMA AppendMoves ==
  ASSUME MoveOK, NEW h \in setting.handles, setting' = setting, DoAppend(h)
  PROVE  MoveOK'
<1>. PICK t, u, o : t = todo[h] /\ u = todo'[h] /\ o = Head(todo[h])
  OBVIOUS
<1>0. StoreOK /\ ListsOK
  BY DEF MoveOK
<1>1. Stepped(h) /\ UNCHANGED <<config, alone, settled>>
  BY <1>0, AppendStep
<1>2. PICK a : IsAfter(u, IF o.first THEN <<First(a)>> ELSE <<>>, t)
  BY <1>0, AppendStep
<1>3. IsList(t) /\ t # <<>> /\ o = t[1] /\ 1 \in DOMAIN t /\ h \in Handle
  BY <1>0, <1>1, HeadIs DEF Stepped
<1>4. o.op = "append"
  BY DEF DoAppend, Doing
<1>5. ASSUME alone[h] PROVE Undisturbed(u)'
  <2>1. Undisturbed(t)
    BY <1>3, <1>5 DEF MoveOK
  <2>2. CASE Other(t)
    <3>. PICK ops : ops = IF o.first THEN <<First(a)>> ELSE <<>>
      OBVIOUS
    <3>1. \A k \in DOMAIN ops : ~Settling(ops[k])
      <4>1. ~Settling(First(a))
        BY DEF Settling, First
      <4>. QED BY <4>1, OneIs, NoOps
    <3>2. Other(u)
      BY <1>2, <1>3, <2>2, <3>1, OtherStays
    <3>. QED BY <3>2 DEF Undisturbed, Other, Settling
  <2>3. ASSUME NEW n \in Network, config[Selected] = n, Deriving(ChainOfNetwork[n], t)
        PROVE  Undisturbed(u)'
    <3>. PICK c : c = ChainOfNetwork[n]
      OBVIOUS
    <3>1. /\ Len(t) >= 2 /\ t[Len(t)] = Adopt(c) /\ Making(o) /\ o.chain = c
          /\ \A k \in 2 .. Len(t) - 1 : Making(t[k]) /\ t[k].chain = c
      BY <1>3, <1>4, <2>3, DerivingLong
    <3>2. IsAfter(u, <<>>, t)
      BY <1>2, <3>1 DEF Making
    <3>3. Deriving(c, u)
      BY <1>3, <3>1, <3>2, NoOps, DerivingStays
    <3>4. Deriving(c, u)'
      BY <3>3 DEF Deriving, Making, Adopt
    <3>. QED BY <1>1, <2>3, <3>4 DEF Undisturbed, Moving, Selected
  <2>. QED BY <1>3, <1>4, <2>1, <2>2, <2>3, HeadTells
<1>. QED BY <1>1, <1>5, StepMoves

LEMMA SetMoves ==
  ASSUME MoveOK, NEW h \in setting.handles, setting' = setting, DoSet(h)
  PROVE  MoveOK'
<1>0. StoreOK /\ ListsOK
  BY DEF MoveOK
<1>1. Stepped(h)
  BY <1>0, SetStep
<1>2. UNCHANGED <<accounts, alone>> /\ settled' = (Head(todo[h]).settles /\ alone[h])
  BY <1>0, SetMakes
<1>3. h \in Handle /\ ~Idle(h) /\ \A g \in Handle \ {h} : todo'[g] = todo[g]
  BY <1>1 DEF Stepped
<1>4. \A g \in Handle : alone[g] => g = h
  BY <1>3 DEF MoveOK, AloneOK
<1>5. alone[h] => /\ Undisturbed(todo[h])'
                  /\ Head(todo[h]).settles => todo'[h] = <<>> /\ InPlace'
  BY <1>0, <1>3, SetUndisturbed DEF MoveOK
<1>6. AloneOK'
  BY <1>2, <1>3, <1>4 DEF MoveOK, AloneOK, Idle
<1>7. \A g \in Handle : alone'[g] => Undisturbed(todo[g])'
  BY <1>2, <1>4, <1>5
<1>8. settled' => Quiet' /\ InPlace'
  <2>1. ASSUME settled' PROVE alone[h] /\ todo'[h] = <<>> /\ InPlace'
    BY <2>1, <1>2, <1>5
  <2>2. ASSUME alone[h] PROVE \A g \in Handle \ {h} : todo'[g] = <<>>
    BY <2>2, <1>3 DEF MoveOK, AloneOK, Idle
  <2>. QED BY <2>1, <2>2 DEF Quiet, Idle
<1>. QED BY <1>1, <1>6, <1>7, <1>8 DEF MoveOK, Stepped

LEMMA ReplaceOne ==
  ASSUME NEW u, NEW a, NEW b, NEW z, IsAfter(u, <<a, b>>, <<z>>)
  PROVE  u = <<a, b>>
<1>1. PICK ops, t : /\ ops = <<a, b>> /\ t = <<z>> /\ Len(ops) = 2 /\ Len(t) = 1
                    /\ DOMAIN ops = {1, 2} /\ ops[1] = a /\ ops[2] = b
  BY OneIs, TwoIs
<1>2. IsAfter(u, ops, t)
  BY <1>1
<1>3. IsList(u) /\ Len(u) = 2 /\ u[1] = a /\ u[2] = b
  BY <1>1, <1>2 DEF IsAfter
<1>. QED BY <1>3 DEF IsList

LEMMA InPlaceOfOne ==
  ASSUME NEW u, NEW a, NEW z, IsAfter(u, <<a>>, <<z>>)
  PROVE  u = <<a>>
<1>1. PICK ops, t : /\ ops = <<a>> /\ t = <<z>> /\ Len(ops) = 1 /\ Len(t) = 1
                    /\ DOMAIN ops = {1} /\ ops[1] = a
  BY OneIs
<1>2. IsAfter(u, ops, t)
  BY <1>1
<1>3. IsList(u) /\ Len(u) = 1 /\ u[1] = a
  BY <1>1, <1>2 DEF IsAfter
<1>. QED BY <1>3 DEF IsList

LEMMA OpIs ==
  ASSUME NEW k, NEW v
  PROVE  /\ Set(k, v).op = "set" /\ Settle(k, v).op = "set" /\ Follow(k, v).op = "follow"
         /\ Derive(k).op = "missing" /\ Adopt(k).op = "adopt"
BY DEF Set, Settle, Follow, Derive, Adopt

(* What an account use has left when the network is to follow.             *)
LEMMA UsingFollows ==
  ASSUME NEW a, NEW t, Using(a, t), t[1].op \notin {"set"}
  PROVE  config[Active] = a.id /\ t = <<Follow(a.chain, TRUE)>>
<1>1. t # Activate(a.id, a.chain, TRUE)
  <2>1. Activate(a.id, a.chain, TRUE)[1] = Set(Active, a.id)
    BY DEF Activate
  <2>2. Set(Active, a.id).op = "set"
    BY OpIs
  <2>. QED BY <2>1, <2>2
<1>2. \A k, v, y : t # <<Set(k, v), y>>
  <2>. TAKE k, v, y
  <2>1. <<Set(k, v), y>>[1] = Set(k, v)
    OBVIOUS
  <2>. QED BY <2>1, OpIs
<1>3. \A k, v : t # <<Settle(k, v)>>
  <2>. TAKE k, v
  <2>1. <<Settle(k, v)>>[1] = Settle(k, v)
    OBVIOUS
  <2>. QED BY <2>1, OpIs
<1>. QED BY <1>1, <1>2, <1>3 DEF Using

(* What a network use has left when accounts are to be made or adopted.    *)
LEMMA MovingMakes ==
  ASSUME NEW n, NEW t, Moving(n, t), t[1].op \notin {"set"}, NEW c, c = ChainOfNetwork[n]
  PROVE  config[Selected] = n /\ (t = <<Derive(c), Adopt(c)>> \/ Deriving(c, t))
<1>1. \A k, v, x, y, z : t # <<Set(k, v), x, y, z>>
  <2>. TAKE k, v, x, y, z
  <2>1. <<Set(k, v), x, y, z>>[1] = Set(k, v)
    OBVIOUS
  <2>. QED BY <2>1, OpIs
<1>2. \A k, v, x, y : t # <<Set(k, v), x, y>>
  <2>. TAKE k, v, x, y
  <2>1. <<Set(k, v), x, y>>[1] = Set(k, v)
    OBVIOUS
  <2>. QED BY <2>1, OpIs
<1>3. \A k, v : t # <<Settle(k, v)>>
  <2>. TAKE k, v
  <2>1. <<Settle(k, v)>>[1] = Settle(k, v)
    OBVIOUS
  <2>. QED BY <2>1, OpIs
<1>. QED BY <1>1, <1>2, <1>3 DEF Moving

LEMMA DerivingHead ==
  ASSUME NEW c, NEW t, IsList(t), Deriving(c, t)
  PROVE  t[1].op \in {"create", "append", "adopt"}
<1>1. Len(t) \in Nat \ {0} /\ t[Len(t)] = Adopt(c)
  BY ListIs DEF Deriving
<1>2. \A n \in Nat \ {0} : 1 \in 1 .. n - 1 \/ n = 1
  OBVIOUS
<1>3. CASE 1 \in 1 .. Len(t) - 1
  BY <1>3 DEF Deriving, Making
<1>4. CASE Len(t) = 1
  BY <1>1, <1>4, OpIs
<1>. QED BY <1>1, <1>2, <1>3, <1>4

(* What a command has left, by the operation it has come to.               *)
LEMMA FollowLeft ==
  ASSUME NEW t, IsList(t), t # <<>>, Undisturbed(t), t[1].op = "follow"
  PROVE  \/ Other(t)
         \/ \E i \in DOMAIN accounts : /\ config[Active] = accounts[i].id
                                       /\ t = <<Follow(accounts[i].chain, TRUE)>>
<1>1. ASSUME NEW n \in Network, Moving(n, t) PROVE FALSE
  <2>. PICK c : c = ChainOfNetwork[n]
    OBVIOUS
  <2>1. t = <<Derive(c), Adopt(c)>> \/ Deriving(c, t)
    BY <1>1, MovingMakes
  <2>2. CASE t = <<Derive(c), Adopt(c)>>
    <3>1. t[1] = Derive(c)
      BY <2>2
    <3>. QED BY <3>1, OpIs
  <2>. QED BY <2>1, <2>2, DerivingHead
<1>2. ASSUME NEW i \in DOMAIN accounts, Using(accounts[i], t)
      PROVE  config[Active] = accounts[i].id /\ t = <<Follow(accounts[i].chain, TRUE)>>
  BY <1>2, UsingFollows
<1>. QED BY <1>1, <1>2 DEF Undisturbed

LEMMA MovingLeft ==
  ASSUME NEW t, IsList(t), t # <<>>, Undisturbed(t), t[1].op \in {"missing", "adopt"}
  PROVE  \E n \in Network : Moving(n, t)
<1>1. ~Other(t)
  <2>1. Len(t) \in Nat /\ Len(t) # 0 /\ DOMAIN t = 1 .. Len(t)
    BY ListIs
  <2>2. 1 \in DOMAIN t
    BY <2>1
  <2>. QED BY <2>2 DEF Other, Settling
<1>2. \A a : ~Using(a, t)
  <2>. SUFFICES ASSUME NEW a, Using(a, t) PROVE FALSE
    OBVIOUS
  <2>1. t = <<Follow(a.chain, TRUE)>>
    BY UsingFollows
  <2>2. t[1] = Follow(a.chain, TRUE)
    BY <2>1
  <2>3. Follow(a.chain, TRUE).op = "follow"
    BY OpIs
  <2>. QED BY <2>2, <2>3
<1>. QED BY <1>1, <1>2 DEF Undisturbed

LEMMA MissingLeft ==
  ASSUME NEW t, IsList(t), t # <<>>, Undisturbed(t), t[1].op = "missing"
  PROVE  \E n \in Network :
           /\ config[Selected] = n
           /\ t = <<Derive(ChainOfNetwork[n]), Adopt(ChainOfNetwork[n])>>
<1>1. PICK n \in Network : Moving(n, t)
  BY MovingLeft
<1>. PICK c : c = ChainOfNetwork[n]
  OBVIOUS
<1>2. ~Deriving(c, t)
  BY DerivingHead
<1>. QED BY <1>1, <1>2, MovingMakes

LEMMA AdoptLeft ==
  ASSUME NEW t, IsList(t), t # <<>>, Undisturbed(t), t[1].op = "adopt"
  PROVE  \E n \in Network : config[Selected] = n /\ t = <<Adopt(ChainOfNetwork[n])>>
<1>1. PICK n \in Network : Moving(n, t)
  BY MovingLeft
<1>. PICK c : c = ChainOfNetwork[n]
  OBVIOUS
<1>2. t # <<Derive(c), Adopt(c)>>
  <2>1. <<Derive(c), Adopt(c)>>[1] = Derive(c)
    OBVIOUS
  <2>. QED BY <2>1, OpIs
<1>3. config[Selected] = n /\ Deriving(c, t)
  BY <1>1, <1>2, MovingMakes
<1>4. Len(t) = 1 /\ t[1] = Adopt(c)
  <2>1. Len(t) \in Nat \ {0} /\ t[Len(t)] = Adopt(c)
    BY <1>3, ListIs DEF Deriving
  <2>2. 1 \notin 1 .. Len(t) - 1
    BY <1>3 DEF Deriving, Making
  <2>3. \A m \in Nat \ {0} : 1 \notin 1 .. m - 1 => m = 1
    OBVIOUS
  <2>. QED BY <2>1, <2>2, <2>3
<1>5. t = <<Adopt(c)>>
  BY <1>4 DEF IsList
<1>. QED BY <1>3, <1>5

LEMMA FollowMoves ==
  ASSUME MoveOK, NEW h \in setting.handles, setting' = setting, DoFollow(h)
  PROVE  MoveOK'
<1>. PICK t, u, o : t = todo[h] /\ u = todo'[h] /\ o = Head(todo[h])
  OBVIOUS
<1>0. StoreOK /\ ListsOK
  BY DEF MoveOK
<1>1. Stepped(h) /\ UNCHANGED <<accounts, config, alone, settled>>
  BY <1>0, FollowStep
<1>2. PICK n \in Network :
        /\ ChainOfNetwork[n] = o.chain
        /\ IsAfter(u, <<Set(Selected, n),
                        [op |-> "set", value |-> n, key |-> SelectedOnKey(o.chain),
                         settles |-> o.settles]>>, t)
  BY <1>0, FollowStep
<1>3. IsList(t) /\ t # <<>> /\ o = t[1] /\ 1 \in DOMAIN t /\ h \in Handle
  BY <1>0, <1>1, HeadIs DEF Stepped
<1>4. o.op = "follow"
  BY DEF DoFollow, Doing
<1>5. ASSUME alone[h] PROVE Undisturbed(u)
  <2>1. Undisturbed(t)
    BY <1>3, <1>5 DEF MoveOK
  <2>2. CASE Other(t)
    <3>1. ~o.settles
      BY <1>3, <1>4, <2>2 DEF Other, Settling
    <3>. PICK x, y : /\ x = Set(Selected, n)
                     /\ y = [op |-> "set", value |-> n, key |-> SelectedOnKey(o.chain),
                             settles |-> o.settles]
      OBVIOUS
    <3>2. \A k \in DOMAIN <<x, y>> : ~Settling(<<x, y>>[k])
      <4>1. ~Settling(x) /\ ~Settling(y)
        BY <3>1 DEF Settling, Set
      <4>. QED BY <4>1, TwoIs
    <3>3. Other(u)
      BY <1>2, <1>3, <2>2, <3>2, OtherStays
    <3>. QED BY <3>3 DEF Undisturbed
  <2>3. ASSUME NEW i \in DOMAIN accounts, config[Active] = accounts[i].id,
               t = <<Follow(accounts[i].chain, TRUE)>>
        PROVE  Undisturbed(u)
    <3>. PICK a : a = accounts[i]
      OBVIOUS
    <3>1. t = <<Follow(a.chain, TRUE)>> /\ config[Active] = a.id
      BY <2>3
    <3>2. o = Follow(a.chain, TRUE)
      BY <1>3, <3>1
    <3>3. o.chain = a.chain /\ o.settles = TRUE
      BY <3>2 DEF Follow
    <3>4. [op |-> "set", value |-> n, key |-> SelectedOnKey(o.chain), settles |-> o.settles]
            = Settle(SelectedOnKey(a.chain), n)
      BY <3>3 DEF Settle
    <3>5. u = <<Set(Selected, n), Settle(SelectedOnKey(a.chain), n)>>
      <4>1. IsAfter(u, <<Set(Selected, n), Settle(SelectedOnKey(a.chain), n)>>,
                    <<Follow(a.chain, TRUE)>>)
        BY <1>2, <3>1, <3>4
      <4>. QED BY <4>1, ReplaceOne
    <3>6. Using(a, u)
      BY <1>2, <3>1, <3>3, <3>5 DEF Using
    <3>. QED BY <3>6 DEF Undisturbed
  <2>. QED BY <1>3, <1>4, <2>1, <2>2, <2>3, FollowLeft
<1>6. alone[h] => Undisturbed(todo[h])'
  <2>1. Undisturbed(u) => Undisturbed(u)'
    BY <1>1, SameUndisturbed
  <2>. QED BY <1>5, <2>1
<1>. QED BY <1>1, <1>6, StepMoves

LEMMA MissingMoves ==
  ASSUME MoveOK, NEW h \in setting.handles, setting' = setting, DoMissing(h)
  PROVE  MoveOK'
<1>. PICK t, u, o : t = todo[h] /\ u = todo'[h] /\ o = Head(todo[h])
  OBVIOUS
<1>0. StoreOK /\ ListsOK
  BY DEF MoveOK
<1>1. Stepped(h) /\ UNCHANGED <<accounts, config, alone, settled>> /\ o.chain \in Chain
  BY <1>0, MissingStep
<1>2. PICK f \in InTurn(Owed(o.chain)) : IsAfter(u, Faces(o.chain, f), t)
  BY <1>0, MissingStep
<1>3. IsList(t) /\ t # <<>> /\ o = t[1] /\ 1 \in DOMAIN t /\ h \in Handle
  BY <1>0, <1>1, HeadIs DEF Stepped
<1>4. o.op = "missing"
  BY DEF DoMissing, Doing
<1>5. ASSUME alone[h] PROVE Undisturbed(u)
  <2>1. Undisturbed(t)
    BY <1>3, <1>5 DEF MoveOK
  <2>6. PICK n \in Network : /\ config[Selected] = n
                             /\ t = <<Derive(ChainOfNetwork[n]), Adopt(ChainOfNetwork[n])>>
    BY <1>3, <1>4, <2>1, MissingLeft
  <2>. PICK c : c = ChainOfNetwork[n]
    OBVIOUS
  <2>7. o.chain = c
    BY <1>3, <2>6 DEF Derive
  <2>8. Len(t) = 2 /\ t[2] = Adopt(c)
    BY <2>6, TwoIs
  <2>. PICK ops : ops = Faces(c, f)
    OBVIOUS
  <2>9. IsList(ops) /\ \A k \in DOMAIN ops : Making(ops[k]) /\ ops[k].chain = c
    <3>1. \A a : Making(Face(c, a)) /\ Face(c, a).chain = c
      BY DEF Making, Face
    <3>. QED BY <1>0, <1>1, <2>7, <3>1, FacesAre
  <2>10. Deriving(c, u)
    <3>1. IsAfter(u, ops, t) /\ Len(t) >= 2 /\ t[Len(t)] = Adopt(c) /\ 2 .. Len(t) - 1 = {}
      BY <1>2, <2>7, <2>8
    <3>. QED BY <1>3, <2>9, <3>1, DerivingStays
  <2>. QED BY <2>6, <2>10 DEF Undisturbed, Moving
<1>6. alone[h] => Undisturbed(todo[h])'
  <2>1. Undisturbed(u) => Undisturbed(u)'
    BY <1>1, SameUndisturbed
  <2>. QED BY <1>5, <2>1
<1>. QED BY <1>1, <1>6, StepMoves

LEMMA AdoptMoves ==
  ASSUME MoveOK, NEW h \in setting.handles, setting' = setting, DoAdopt(h)
  PROVE  MoveOK'
<1>. PICK t, u, o : t = todo[h] /\ u = todo'[h] /\ o = Head(todo[h])
  OBVIOUS
<1>0. StoreOK /\ ListsOK
  BY DEF MoveOK
<1>1. Stepped(h) /\ UNCHANGED <<accounts, config, alone, settled>>
  BY <1>0, AdoptStep
<1>2. \/ IsAfter(u, <<>>, t)
      \/ \E i \in DOMAIN accounts :
           accounts[i].chain = o.chain /\ IsAfter(u, <<Settle(Active, accounts[i].id)>>, t)
  BY <1>0, AdoptStep
<1>3. IsList(t) /\ t # <<>> /\ o = t[1] /\ 1 \in DOMAIN t /\ h \in Handle
  BY <1>0, <1>1, HeadIs DEF Stepped
<1>4. o.op = "adopt"
  BY DEF DoAdopt, Doing
<1>5. ASSUME alone[h] PROVE Undisturbed(u)
  <2>1. Undisturbed(t)
    BY <1>3, <1>5 DEF MoveOK
  <2>2. PICK n \in Network : config[Selected] = n /\ t = <<Adopt(ChainOfNetwork[n])>>
    BY <1>3, <1>4, <2>1, AdoptLeft
  <2>. PICK c : c = ChainOfNetwork[n]
    OBVIOUS
  <2>8. t = <<Adopt(c)>>
    BY <2>2
  <2>9. CASE IsAfter(u, <<>>, t)
    <3>1. u = <<>>
      BY <2>8, <2>9, TailOfOne
    <3>. QED BY <3>1, NoOps DEF Undisturbed, Other
  <2>10. ASSUME NEW i \in DOMAIN accounts, accounts[i].chain = o.chain,
                IsAfter(u, <<Settle(Active, accounts[i].id)>>, t)
         PROVE  Undisturbed(u)
    <3>1. u = <<Settle(Active, accounts[i].id)>>
      BY <2>8, <2>10, InPlaceOfOne
    <3>2. o.chain = c
      BY <1>3, <2>8 DEF Adopt
    <3>3. Moving(n, u)
      BY <2>2, <2>10, <3>1, <3>2 DEF Moving
    <3>. QED BY <3>3 DEF Undisturbed
  <2>. QED BY <1>2, <2>9, <2>10
<1>6. alone[h] => Undisturbed(todo[h])'
  <2>1. Undisturbed(u) => Undisturbed(u)'
    BY <1>1, SameUndisturbed
  <2>. QED BY <1>5, <2>1
<1>. QED BY <1>1, <1>6, StepMoves

(* What a plain operation leaves: nothing, or ops that settle nothing in   *)
(* its place.                                                              *)
Plainly(h) ==
  \/ todo'[h] = <<>>
  \/ \E ops : /\ \A k \in DOMAIN ops : ~Settling(ops[k])
              /\ IsAfter(todo'[h], ops, todo[h])

LEMMA PlainMoves ==
  ASSUME MoveOK, NEW h \in setting.handles, Stepped(h), UNCHANGED <<alone, settled>>,
         Head(todo[h]).op \notin {"set", "follow", "missing", "adopt", "create", "append"},
         Plainly(h)
  PROVE  MoveOK'
<1>. PICK t, u, o : t = todo[h] /\ u = todo'[h] /\ o = Head(todo[h])
  OBVIOUS
<1>1. IsList(t) /\ t # <<>> /\ o = t[1] /\ h \in Handle
  BY HeadIs DEF Stepped, MoveOK
<1>2. ASSUME alone[h] PROVE Other(u)
  <2>1. Other(t)
    BY <1>1, <1>2, HeadTells DEF MoveOK
  <2>2. CASE u = <<>>
    BY <2>2, NoOps DEF Other
  <2>3. ASSUME NEW ops, \A k \in DOMAIN ops : ~Settling(ops[k]), IsAfter(u, ops, t)
        PROVE  Other(u)
    BY <1>1, <2>1, <2>3, OtherStays
  <2>. QED BY <2>2, <2>3 DEF Plainly
<1>3. Other(u) => Undisturbed(u)'
  BY DEF Undisturbed, Other, Settling
<1>. QED BY <1>2, <1>3, StepMoves

LEMMA PlainOne ==
  ASSUME NEW u, NEW v, NEW t, IsAfter(u, <<v>>, t), ~Settling(v)
  PROVE  \E ops : (\A k \in DOMAIN ops : ~Settling(ops[k])) /\ IsAfter(u, ops, t)
<1>1. \A k \in DOMAIN <<v>> : ~Settling(<<v>>[k])
  BY OneIs
<1>. QED BY <1>1

LEMMA PlainNone ==
  ASSUME NEW u, NEW t, IsAfter(u, <<>>, t)
  PROVE  \E ops : (\A k \in DOMAIN ops : ~Settling(ops[k])) /\ IsAfter(u, ops, t)
<1>1. \A k \in DOMAIN <<>> : ~Settling(<<>>[k])
  BY NoOps
<1>. QED BY <1>1

LEMMA ActivatePlain ==
  ASSUME NEW id, NEW c \in Chain
  PROVE  \A k \in DOMAIN Activate(id, c, FALSE) : ~Settling(Activate(id, c, FALSE)[k])
<1>1. DOMAIN Activate(id, c, FALSE) = {1, 2, 3}
  BY ActivateOps
<1>2. /\ Activate(id, c, FALSE)[1] = Set(Active, id)
      /\ Activate(id, c, FALSE)[2] = Set(ActiveOnKey(c), id)
      /\ Activate(id, c, FALSE)[3] = [op |-> "follow", chain |-> c, settles |-> FALSE]
  BY DEF Activate
<1>3. \A k, v : ~Settling(Set(k, v))
  BY DEF Settling, Set
<1>4. ~Settling([op |-> "follow", chain |-> c, settles |-> FALSE])
  BY DEF Settling
<1>. QED BY <1>1, <1>2, <1>3, <1>4

LEMMA OthersMove ==
  ASSUME MoveOK, NEW h \in setting.handles, setting' = setting,
         \/ DoIndex(h) \/ DoActivateIfFirst(h) \/ DoRemember(h) \/ DoRename(h)
         \/ DoRelabel(h) \/ DoRemove(h) \/ DoRepoint(h) \/ DoFallback(h)
  PROVE  MoveOK'
<1>. PICK t, u, o : t = todo[h] /\ u = todo'[h] /\ o = Head(todo[h])
  OBVIOUS
<1>0. StoreOK /\ ListsOK
  BY DEF MoveOK
<1>1. CASE DoIndex(h)
  <2>1. o.op = "index"
    BY <1>1 DEF DoIndex, Doing
  <2>2. Stepped(h) /\ UNCHANGED <<alone, settled>>
    BY <1>0, <1>1, IndexStep
  <2>3. PICK v : v.op = "create" /\ IsAfter(u, <<v>>, t)
    BY <1>0, <1>1, IndexStep
  <2>4. ~Settling(v)
    BY <2>3 DEF Settling
  <2>5. Plainly(h)
    BY <2>3, <2>4, PlainOne DEF Plainly
  <2>. QED BY <2>1, <2>2, <2>5, PlainMoves
<1>2. CASE DoActivateIfFirst(h)
  <2>1. o.op = "first"
    BY <1>2 DEF DoActivateIfFirst, Doing
  <2>2. Stepped(h) /\ UNCHANGED <<alone, settled>> /\ o.chain \in Chain
    BY <1>0, <1>2, FirstStep
  <2>3. CASE Len(accounts) = 1
    <3>1. IsAfter(u, Activate(o.id, o.chain, FALSE), t)
      BY <1>0, <1>2, <2>3, FirstStep
    <3>2. Plainly(h)
      BY <2>2, <3>1, ActivatePlain DEF Plainly
    <3>. QED BY <2>1, <2>2, <3>2, PlainMoves
  <2>4. CASE Len(accounts) # 1
    <3>1. IsAfter(u, <<>>, t)
      BY <1>0, <1>2, <2>4, FirstStep
    <3>2. Plainly(h)
      BY <3>1, PlainNone DEF Plainly
    <3>. QED BY <2>1, <2>2, <3>2, PlainMoves
  <2>. QED BY <2>3, <2>4
<1>3. CASE DoRemember(h)
  <2>1. o.op = "remember"
    BY <1>3 DEF DoRemember, Doing
  <2>2. Stepped(h) /\ UNCHANGED <<alone, settled>> /\ IsAfter(u, <<>>, t)
    BY <1>0, <1>3, RememberStep
  <2>3. Plainly(h)
    BY <2>2, PlainNone DEF Plainly
  <2>. QED BY <2>1, <2>2, <2>3, PlainMoves
<1>4. CASE DoRename(h)
  <2>1. o.op = "rename"
    BY <1>4 DEF DoRename, Doing
  <2>2. Stepped(h) /\ UNCHANGED <<alone, settled>>
    BY <1>0, <1>4, RenameStep
  <2>3. u = <<>> \/ \E v : v.op = "relabel" /\ IsAfter(u, <<v>>, t)
    BY <1>0, <1>4, RenameStep
  <2>4. ASSUME NEW v, v.op = "relabel", IsAfter(u, <<v>>, t) PROVE Plainly(h)
    <3>1. ~Settling(v)
      BY <2>4 DEF Settling
    <3>. QED BY <2>4, <3>1, PlainOne DEF Plainly
  <2>5. Plainly(h)
    BY <2>3, <2>4 DEF Plainly
  <2>. QED BY <2>1, <2>2, <2>5, PlainMoves
<1>5. CASE DoRelabel(h)
  <2>1. o.op = "relabel"
    BY <1>5 DEF DoRelabel, Doing
  <2>2. Stepped(h) /\ UNCHANGED <<alone, settled>> /\ IsAfter(u, <<>>, t)
    BY <1>0, <1>5, RelabelStep
  <2>3. Plainly(h)
    BY <2>2, PlainNone DEF Plainly
  <2>. QED BY <2>1, <2>2, <2>3, PlainMoves
<1>6. CASE DoRemove(h)
  <2>1. o.op = "remove"
    BY <1>6 DEF DoRemove, Doing
  <2>2. Stepped(h) /\ UNCHANGED <<alone, settled>>
    BY <1>0, <1>6, RemoveStep
  <2>3. PICK v : v.op = "repoint" /\ IsAfter(u, <<v>>, t)
    BY <1>0, <1>6, RemoveStep
  <2>4. ~Settling(v)
    BY <2>3 DEF Settling
  <2>5. Plainly(h)
    BY <2>3, <2>4, PlainOne DEF Plainly
  <2>. QED BY <2>1, <2>2, <2>5, PlainMoves
<1>7. CASE DoRepoint(h)
  <2>1. o.op = "repoint"
    BY <1>7 DEF DoRepoint, Doing
  <2>2. /\ Stepped(h) /\ UNCHANGED <<alone, settled>>
        /\ IsAfter(u, <<>>, t) \/ IsAfter(u, <<[op |-> "fallback"]>>, t)
    BY <1>0, <1>7, RepointStep
  <2>3. ~Settling([op |-> "fallback"])
    BY DEF Settling
  <2>4. Plainly(h)
    BY <2>2, <2>3, PlainNone, PlainOne DEF Plainly
  <2>. QED BY <2>1, <2>2, <2>4, PlainMoves
<1>8. CASE DoFallback(h)
  <2>1. o.op = "fallback"
    BY <1>8 DEF DoFallback, Doing
  <2>2. Stepped(h) /\ UNCHANGED <<alone, settled>>
    BY <1>0, <1>8, FallbackStep
  <2>3. PICK v : IsAfter(u, <<Set(Active, v)>>, t)
    BY <1>0, <1>8, FallbackStep
  <2>4. ~Settling(Set(Active, v))
    BY DEF Settling, Set
  <2>5. Plainly(h)
    BY <2>3, <2>4, PlainOne DEF Plainly
  <2>. QED BY <2>1, <2>2, <2>5, PlainMoves
<1>. QED BY <1>1, <1>2, <1>3, <1>4, <1>5, <1>6, <1>7, <1>8

LEMMA CrashMoves ==
  ASSUME MoveOK, NEW h \in setting.handles, setting' = setting, Crash(h)
  PROVE  MoveOK'
<1>0. StoreOK /\ ListsOK
  BY DEF MoveOK
<1>1. Stepped(h) /\ UNCHANGED <<alone, settled>> /\ todo'[h] = <<>>
  BY <1>0, CrashStep
<1>2. Undisturbed(<<>>)'
  BY NoOps DEF Undisturbed, Other
<1>. QED BY <1>1, <1>2, StepMoves

(* The commands that start.                                                *)
LEMMA CreatesStart ==
  ASSUME MoveOK, NEW h \in setting.handles, setting' = setting,
         NEW kind, NEW chains \in Seq(Chain), NEW source, NEW plain, NEW index, NEW next,
         NEW label, Start(h, kind, CreateWallet(chains, source, plain, index, next, label))
  PROVE  MoveOK'
<1>. PICK t : t = CreateWallet(chains, source, plain, index, next, label)
  OBVIOUS
<1>1. /\ IsList(t) /\ \A k \in DOMAIN t : OpOK(t[k])
      /\ Len(t) = Len(chains) + 1 /\ t[Len(t)] = [op |-> "remember", source |-> source]
      /\ \A k \in 1 .. Len(chains) :
           \E l : t[k] = Create(chains[k], source, plain, index, next, l)
  BY CreateOps
<1>2. Other(t)
  <2>. SUFFICES ASSUME NEW k \in DOMAIN t PROVE ~Settling(t[k])
    BY DEF Other
  <2>1. k \in 1 .. Len(chains) \/ k = Len(t)
    BY <1>1, ListIs
  <2>2. CASE k = Len(t)
    <3>1. t[k].op = "remember"
      BY <1>1, <2>2
    <3>. QED BY <3>1 DEF Settling
  <2>3. CASE k \in 1 .. Len(chains)
    <3>. PICK l : t[k] = Create(chains[k], source, plain, index, next, l)
      BY <1>1, <2>3
    <3>1. t[k].op \in {"index", "create"}
      BY DEF Create
    <3>. QED BY <3>1 DEF Settling
  <2>. QED BY <2>1, <2>2, <2>3
<1>. QED BY <1>1, <1>2, StartMoves DEF Undisturbed

LEMMA OneStarts ==
  ASSUME MoveOK, NEW h \in setting.handles, setting' = setting,
         NEW kind, NEW o, o.op \in {"rename", "remove"}, "op" \in DOMAIN o,
         Start(h, kind, <<o>>)
  PROVE  MoveOK'
<1>1. OpOK(o) /\ ~Settling(o)
  BY DEF OpOK, Settling
<1>2. IsList(<<o>>) /\ \A k \in DOMAIN <<o>> : OpOK(<<o>>[k])
  BY <1>1, OneOp
<1>3. Undisturbed(<<o>>)
  BY <1>1, OneIs DEF Undisturbed, Other
<1>. QED BY <1>2, <1>3, StartMoves

LEMMA CommandsMove ==
  ASSUME MoveOK, NEW h \in setting.handles, setting' = setting,
         \/ AccountNew(h) \/ AccountImportMnemonic(h) \/ AccountImportKey(h)
         \/ AccountDerive(h) \/ AccountUse(h) \/ AccountRename(h)
         \/ AccountRemove(h) \/ NetworkUse(h)
  PROVE  MoveOK'
<1>0. StoreOK /\ \A a \in Range(accounts) : a.chain \in Chain
  BY DEF MoveOK, StoreOK, Range
<1>1. CASE AccountNew(h)
  BY <1>1, CreatesStart, ChoicesAre DEF AccountNew
<1>2. CASE AccountImportMnemonic(h)
  BY <1>2, CreatesStart, ChoicesAre DEF AccountImportMnemonic
<1>3. CASE AccountImportKey(h)
  BY <1>3, CreatesStart, ChoicesAre DEF AccountImportKey
<1>4. CASE AccountDerive(h)
  <2>1. \A a \in Range(accounts) : {<<a.chain>>, ChainList} \subseteq Seq(Chain)
    BY <1>0, ChoicesAre
  <2>. QED BY <1>4, <2>1, CreatesStart DEF AccountDerive
<1>5. CASE AccountUse(h)
  <2>1. PICK i \in DOMAIN accounts :
          Start(h, "use", Activate(accounts[i].id, accounts[i].chain, TRUE))
    BY <1>5 DEF AccountUse, Range
  <2>. PICK t : t = Activate(accounts[i].id, accounts[i].chain, TRUE)
    OBVIOUS
  <2>2. accounts[i].chain \in Chain
    BY <1>0 DEF StoreOK
  <2>3. IsList(t) /\ \A k \in DOMAIN t : OpOK(t[k])
    BY <2>2, ActivateOps
  <2>4. Undisturbed(t)
    BY DEF Undisturbed, Using
  <2>. QED BY <2>1, <2>3, <2>4, StartMoves
<1>6. CASE AccountRename(h)
  <2>1. PICK a, l : Start(h, "rename", <<[op |-> "rename", id |-> a.id, label |-> l]>>)
    BY <1>6 DEF AccountRename
  <2>. QED BY <2>1, OneStarts
<1>7. CASE AccountRemove(h)
  <2>1. PICK a : Start(h, "remove", <<[op |-> "remove", id |-> a.id]>>)
    BY <1>7 DEF AccountRemove
  <2>. QED BY <2>1, OneStarts
<1>8. CASE NetworkUse(h)
  <2>1. PICK n, c : n \in Network /\ c = ChainOfNetwork[n]
                /\ Start(h, "network", <<Set(Selected, n), Set(SelectedOnKey(c), n),
                                         Derive(c), Adopt(c)>>)
    BY <1>8 DEF NetworkUse, Derive, Adopt
  <2>. PICK t : t = <<Set(Selected, n), Set(SelectedOnKey(c), n), Derive(c), Adopt(c)>>
    OBVIOUS
  <2>2. IsList(t) /\ \A k \in DOMAIN t : OpOK(t[k])
    BY <2>1, NetworkOps
  <2>3. Undisturbed(t)
    BY <2>1 DEF Undisturbed, Moving
  <2>. QED BY <2>1, <2>2, <2>3, StartMoves
<1>. QED BY <1>1, <1>2, <1>3, <1>4, <1>5, <1>6, <1>7, <1>8

LEMMA MoveStarts == Init => MoveOK
<1>. SUFFICES ASSUME Init PROVE MoveOK
  OBVIOUS
<1>1. StoreOK
  <2>1. IsList(accounts) /\ DOMAIN accounts = {} /\ made \in Nat
    BY EmptyList DEF Init
  <2>2. config = [k \in ConfigKey |-> Unset]
    BY DEF Init
  <2>. QED BY <2>1, <2>2, KeysAre DEF StoreOK
<1>2. ListsOK
  BY NoOps DEF Init, ListsOK, Rest, Idle
<1>3. AloneOK /\ (\A h \in Handle : ~alone[h]) /\ ~settled
  BY DEF Init, AloneOK
<1>. QED BY <1>1, <1>2, <1>3 DEF MoveOK

LEMMA MoveStutters ==
  ASSUME MoveOK, UNCHANGED vars
  PROVE  MoveOK'
<1>1. StoreOK'
  BY StoreSame DEF MoveOK, vars
<1>2. ListsOK' /\ AloneOK'
  BY DEF MoveOK, vars, ListsOK, Rest, AloneOK, Idle
<1>3. \A h \in Handle : alone'[h] => Undisturbed(todo[h])'
  <2>. SUFFICES ASSUME NEW h \in Handle, alone[h] PROVE Undisturbed(todo[h])'
    BY DEF vars
  <2>. PICK t : t = todo[h]
    OBVIOUS
  <2>1. Undisturbed(t) => Undisturbed(t)'
    BY SameUndisturbed DEF vars
  <2>. QED BY <2>1 DEF MoveOK, vars
<1>4. settled' => Quiet' /\ InPlace'
  BY DEF MoveOK, vars, Quiet, Idle, InPlace
<1>. QED BY <1>1, <1>2, <1>3, <1>4 DEF MoveOK

LEMMA MoveKept == MoveOK /\ [Next]_vars => MoveOK'
<1>. SUFFICES ASSUME MoveOK, [Next]_vars PROVE MoveOK'
  OBVIOUS
<1>1. CASE Next
  <2>. PICK h \in setting.handles :
         \/ AccountNew(h) \/ AccountImportMnemonic(h) \/ AccountImportKey(h)
         \/ AccountDerive(h) \/ AccountUse(h) \/ AccountRename(h)
         \/ AccountRemove(h) \/ NetworkUse(h)
         \/ DoSet(h) \/ DoFollow(h) \/ DoIndex(h) \/ DoCreate(h) \/ DoAppend(h)
         \/ DoActivateIfFirst(h) \/ DoRemember(h) \/ DoRename(h) \/ DoRelabel(h)
         \/ DoRemove(h) \/ DoRepoint(h) \/ DoFallback(h) \/ DoMissing(h)
         \/ DoAdopt(h) \/ Crash(h)
    BY <1>1 DEF Next
  <2>. setting' = setting
    BY <1>1 DEF Next
  <2>. QED BY CommandsMove, SetMoves, FollowMoves, CreateMoves, AppendMoves, OthersMove,
              MissingMoves, AdoptMoves, CrashMoves
<1>2. CASE UNCHANGED vars
  BY <1>2, MoveStutters
<1>. QED BY <1>1, <1>2

(* Whatever crashes, races and removals did to the position, one account   *)
(* use, or one network use that found an account, that runs undisturbed    *)
(* leaves the active account on the chain of the selected network.         *)
THEOREM MovesRepair == Spec => []MoveRepairs
<1>1. MoveOK => MoveRepairs
  BY PlaceIs DEF MoveOK, MoveRepairs
<1>. QED BY <1>1, MoveStarts, MoveKept, PTL DEF Spec

----------------------------------------------------------------------------
(* The next index.                                                         *)

LEMMA GreatestIs ==
  ASSUME NEW S \in SUBSET Nat, S # {}, NEW b \in Nat, \A x \in S : x <= b
  PROVE  Max(S) \in S /\ \A x \in S : x <= Max(S)
<1>. DEFINE T == {n \in Nat : \A x \in S : x <= n}
<1>1. T \in SUBSET Nat /\ T # {}
  OBVIOUS
<1>. PICK m : m = Min(T)
  OBVIOUS
<1>2. m \in T /\ \A n \in T : m <= n
  BY <1>1, LeastIs
<1>3. m \in S
  <2>. SUFFICES ASSUME m \notin S PROVE FALSE
    OBVIOUS
  <2>1. \A x \in S : x < m
    BY <1>2
  <2>2. m - 1 \in Nat /\ \A x \in S : x <= m - 1
    <3>. PICK x \in S : TRUE
      OBVIOUS
    <3>1. m \in Nat /\ x \in Nat /\ x < m
      BY <1>2, <2>1
    <3>. QED BY <2>1, <3>1
  <2>. QED BY <1>2, <2>2
<1>4. \E x \in S : \A y \in S : x >= y
  BY <1>2, <1>3
<1>. QED BY <1>4 DEF Max

LEMMA BoundIs ==
  ASSUME NEW n \in Nat, NEW f, \A i \in 1 .. n : f[i] \in Nat
  PROVE  \E b \in Nat : \A i \in 1 .. n : f[i] <= b
<1>. DEFINE Bounded(m) == \E b \in Nat : \A i \in 1 .. m : f[i] <= b
            Q == {m \in 1 .. n : ~Bounded(m)}
<1>1. ASSUME Q # {} PROVE FALSE
  <2>0. Q \in SUBSET Nat /\ \A k \in Q : k \in 1 .. n
    OBVIOUS
  <2>. PICK m : m = Min(Q)
    OBVIOUS
  <2>1. m \in Q /\ m \in 1 .. n /\ \A k \in Q : m <= k
    <3>. HIDE DEF Q
    <3>. QED BY <1>1, <2>0, LeastIs
  <2>2. ASSUME m = 1 PROVE FALSE
    <3>1. f[1] \in Nat /\ \A i \in 1 .. 1 : f[i] <= f[1]
      BY <2>1, <2>2
    <3>. QED BY <2>1, <2>2, <3>1
  <2>3. ASSUME m # 1 PROVE FALSE
    <3>1. m - 1 \in 1 .. n /\ m - 1 \notin Q
      <4>. HIDE DEF Q
      <4>. QED BY <2>1, <2>3
    <3>2. Bounded(m - 1)
      BY <3>1
    <3>. PICK b \in Nat : \A i \in 1 .. m - 1 : f[i] <= b
      BY <3>2
    <3>. PICK d : d = IF f[m] <= b THEN b ELSE f[m]
      OBVIOUS
    <3>3. f[m] \in Nat /\ d \in Nat /\ b <= d /\ f[m] <= d
      BY <2>1
    <3>4. \A i \in 1 .. m : f[i] <= d
      <4>. TAKE i \in 1 .. m
      <4>1. i \in 1 .. m - 1 \/ i = m
        <5>. HIDE DEF Q
        <5>. QED BY <2>1
      <4>2. f[i] \in Nat
        BY <2>1
      <4>. QED BY <3>3, <4>1, <4>2
    <3>. QED BY <2>1, <3>3, <3>4
  <2>. QED BY <2>2, <2>3
<1>2. n = 0 \/ n \in 1 .. n
  OBVIOUS
<1>3. Bounded(0)
  <2>1. 0 \in Nat /\ \A i \in 1 .. 0 : f[i] <= 0
    OBVIOUS
  <2>. QED BY <2>1
<1>. QED BY <1>1, <1>2, <1>3

(* An index nobody has on that chain.                                      *)
LEMMA NextIs ==
  ASSUME StoreOK, NEW p, NEW c,
         \A i \in DOMAIN accounts :
           accounts[i].source = p => accounts[i].index \in Nat
  PROVE  /\ NextAddressIndex(p, c) \in Nat
         /\ \A i \in DOMAIN accounts :
              accounts[i].source = p /\ accounts[i].chain = c =>
                accounts[i].index # NextAddressIndex(p, c)
<1>. PICK S, n : S = IndexesOf(p, c) /\ n = Len(accounts)
  OBVIOUS
<1>1. n \in Nat /\ DOMAIN accounts = 1 .. n
  BY ListIs DEF StoreOK
<1>2. \A x \in S : \E i \in DOMAIN accounts :
        accounts[i].source = p /\ accounts[i].chain = c /\ x = accounts[i].index
  BY DEF IndexesOf, Range
<1>3. \A i \in DOMAIN accounts :
        accounts[i].source = p /\ accounts[i].chain = c => accounts[i].index \in S
  BY DEF IndexesOf, Range
<1>4. S \in SUBSET Nat
  BY <1>2
<1>. PICK f : f = [i \in 1 .. n |-> IF accounts[i].source = p THEN accounts[i].index ELSE 0]
  OBVIOUS
<1>5. \A i \in 1 .. n : f[i] \in Nat
  BY <1>1
<1>6. PICK b \in Nat : \A i \in 1 .. n : f[i] <= b
  BY <1>1, <1>5, BoundIs
<1>7. \A x \in S : x <= b
  BY <1>1, <1>2, <1>6
<1>8. CASE S = {}
  BY <1>3, <1>8 DEF NextAddressIndex
<1>9. CASE S # {}
  <2>1. Max(S) \in S /\ \A x \in S : x <= Max(S)
    BY <1>4, <1>7, <1>9, GreatestIs
  <2>2. NextAddressIndex(p, c) = Max(S) + 1 /\ Max(S) \in Nat
    BY <1>4, <1>9, <2>1 DEF NextAddressIndex
  <2>. QED BY <1>3, <2>1, <2>2
<1>. QED BY <1>8, <1>9

----------------------------------------------------------------------------
(* No address twice.                                                       *)

LEMMA PlainAfter ==
  ASSUME NEW t, PlainOK(t), NEW ops, \A k \in DOMAIN ops : OpPlain(ops[k]),
         NEW u, IsAfter(u, ops, t)
  PROVE  PlainOK(u)
BY DEF IsAfter, PlainOK

(* Behind an operation that makes no account, or the first one of a        *)
(* command, none is to be made that nobody named.                          *)
LEMMA TwinsPlainly ==
  ASSUME NEW t, IsList(t), t # <<>>, TwinsOK(t),
         ~(t[1].op \in {"create", "append"} /\ ~t[1].first),
         NEW ops, IsList(ops), NEW u, IsAfter(u, ops, t)
  PROVE  /\ \A k \in DOMAIN u : Unnamed(u[k]) => k \in DOMAIN ops /\ u[k] = ops[k]
         /\ (\A k \in DOMAIN ops : ~Unnamed(ops[k])) => TwinsOK(u)
<1>1. \A k \in DOMAIN t : k # 1 => ~Unnamed(t[k])
  <2>. SUFFICES ASSUME NEW k \in DOMAIN t, k # 1, Unnamed(t[k]) PROVE FALSE
    OBVIOUS
  <2>1. 1 \in 1 .. k - 1
    BY ListIs
  <2>2. Apart(t[1], t[k])
    BY <2>1 DEF TwinsOK
  <2>. QED BY <2>2 DEF Apart
<1>2. \A k \in DOMAIN u : Unnamed(u[k]) => k \in DOMAIN ops /\ u[k] = ops[k]
  <2>. SUFFICES ASSUME NEW k \in DOMAIN u, Unnamed(u[k]), k > Len(ops),
                       k - Len(ops) + 1 \in DOMAIN t, u[k] = t[k - Len(ops) + 1]
                PROVE  FALSE
    BY DEF IsAfter
  <2>1. k \in Nat /\ Len(ops) \in Nat
    BY ListIs DEF IsAfter
  <2>2. k - Len(ops) + 1 # 1
    BY <2>1
  <2>. QED BY <1>1, <2>2
<1>. QED BY <1>2 DEF TwinsOK

LEMMA TwinsIndex ==
  ASSUME NEW t, IsList(t), t # <<>>, TwinsOK(t), t[1].op = "index",
         NEW v, Unnamed(v) => Twinless(v), NEW u, IsAfter(u, <<v>>, t)
  PROVE  TwinsOK(u)
<1>1. \A k \in DOMAIN u : Unnamed(u[k]) => k = 1 /\ u[k] = v
  BY OneIs, TwinsPlainly
<1>. QED BY <1>1 DEF TwinsOK

LEMMA TwinsCreate ==
  ASSUME NEW t, IsList(t), t # <<>>, TwinsOK(t), t[1].op = "create",
         NEW v, v.op = "append", NextOf(v, t[1]), v.index = t[1].index,
         NEW u, IsAfter(u, <<v>>, t)
  PROVE  TwinsOK(u)
<1>1. DOMAIN u = DOMAIN t /\ u[1] = v /\ \A k \in DOMAIN u : k # 1 => u[k] = t[k]
  <2>1. /\ IsList(u) /\ Len(u) = Len(t) /\ 1 \in DOMAIN t
        /\ DOMAIN u = 1 .. Len(u) /\ DOMAIN t = 1 .. Len(t) /\ Len(t) \in Nat
    <3>1. IsList(u) /\ Len(u) = 1 + Len(t) - 1 /\ Len(t) \in Nat
      BY OneIs, ListIs DEF IsAfter
    <3>2. Len(u) = Len(t) /\ DOMAIN u = 1 .. Len(u) /\ DOMAIN t = 1 .. Len(t)
      BY <3>1, ListIs
    <3>3. Len(t) # 0
      BY ListIs
    <3>. QED BY <3>1, <3>2, <3>3
  <2>2. u[1] = v
    BY OneIs DEF IsAfter
  <2>3. \A k \in DOMAIN u : k # 1 => u[k] = t[k - 1 + 1]
    BY OneIs DEF IsAfter
  <2>. QED BY <2>1, <2>2, <2>3
<1>2. \A o : SameWallet(v, o) <=> SameWallet(t[1], o)
  BY DEF SameWallet, NextOf
<1>3. ASSUME NEW k \in DOMAIN u, Unnamed(u[k])
      PROVE  Twinless(u[k]) /\ \A j \in 1 .. k - 1 : Apart(u[j], u[k])
  <2>1. CASE k = 1
    <3>1. Unnamed(t[1])
      BY <1>1, <1>3, <2>1 DEF Unnamed, NextOf
    <3>2. Twinless(t[1])
      BY <1>1, <2>1, <3>1 DEF TwinsOK
    <3>3. Twinless(v)
      BY <3>2 DEF Twinless, Twin, SameWallet, NextOf
    <3>. QED BY <1>1, <2>1, <3>3
  <2>2. CASE k # 1
    <3>1. u[k] = t[k] /\ Twinless(t[k]) /\ \A j \in 1 .. k - 1 : Apart(t[j], t[k])
      BY <1>1, <1>3, <2>2 DEF TwinsOK
    <3>2. ASSUME NEW j \in 1 .. k - 1 PROVE Apart(u[j], t[k])
      <4>1. CASE j = 1
        <5>1. Apart(t[1], t[k])
          BY <3>1, <4>1
        <5>. QED BY <1>1, <1>2, <4>1, <5>1 DEF Apart, NextOf
      <4>2. CASE j # 1
        <5>1. j \in DOMAIN u
          BY <1>1, ListIs
        <5>. QED BY <1>1, <3>1, <4>2, <5>1
      <4>. QED BY <4>1, <4>2
    <3>. QED BY <3>1, <3>2
  <2>. QED BY <2>1, <2>2
<1>. QED BY <1>3 DEF TwinsOK

LEMMA AppendIs ==
  ASSUME NEW s, IsList(s), NEW a, NEW r, r = Append(s, a)
  PROVE  /\ Len(s) \in Nat /\ DOMAIN s = 1 .. Len(s)
         /\ IsList(r) /\ Len(r) = Len(s) + 1 /\ DOMAIN r = 1 .. Len(s) + 1
         /\ r[Len(s) + 1] = a /\ \A i \in DOMAIN s : r[i] = s[i]
<1>1. s \in Seq(Range(s) \cup {a}) /\ a \in Range(s) \cup {a}
  <2>1. s \in Seq(Range(s))
    BY DEF IsList
  <2>. QED BY <2>1
<1>2. /\ Len(s) \in Nat /\ DOMAIN s = 1 .. Len(s)
      /\ r \in Seq(Range(s) \cup {a}) /\ Len(r) = Len(s) + 1
      /\ r[Len(s) + 1] = a /\ \A i \in 1 .. Len(s) : r[i] = s[i]
  BY <1>1
<1>3. IsList(r)
  BY <1>2, ListsOf
<1>. QED BY <1>2, <1>3, ListIs

(* a is the account that operation o appends.                              *)
MadeBy(a, o) ==
  /\ a.chain = o.chain /\ a.source = o.source /\ a.plain = o.plain
  /\ a.index = o.index /\ a.named = o.named

LEMMA TwinsAppend ==
  ASSUME IsList(accounts), NEW t, IsList(t), t # <<>>, TwinsOK(t), t[1].op = "append",
         NEW a, MadeBy(a, t[1]), accounts' = Append(accounts, a),
         NEW u, IsAfter(u, IF t[1].first THEN <<First(a)>> ELSE <<>>, t)
  PROVE  TwinsOK(u)'
<1>. PICK o, n, r : o = t[1] /\ n = Len(accounts) /\ r = Append(accounts, a)
  OBVIOUS
<1>1. /\ n \in Nat /\ DOMAIN accounts = 1 .. n /\ DOMAIN r = 1 .. n + 1
      /\ r[n + 1] = a /\ \A i \in DOMAIN accounts : r[i] = accounts[i]
  BY AppendIs
<1>2. 1 \in DOMAIN t /\ DOMAIN t = 1 .. Len(t) /\ Len(t) \in Nat
  <2>1. Len(t) \in Nat /\ DOMAIN t = 1 .. Len(t) /\ Len(t) # 0
    BY ListIs
  <2>. QED BY <2>1
<1>3. AddressesOnce'
  <2>. SUFFICES ASSUME NEW j \in DOMAIN r, r[j].source \in Phrase, ~r[j].named,
                       NEW i \in 1 .. j - 1
                PROVE  ~Twin(r[i], r[j])
    BY DEF AddressesOnce, Twin, SameWallet
  <2>1. CASE j \in DOMAIN accounts
    <3>1. i \in DOMAIN accounts
      BY <1>1, <2>1
    <3>. QED BY <1>1, <2>1, <3>1 DEF TwinsOK, AddressesOnce
  <2>2. CASE j = n + 1
    <3>1. i \in DOMAIN accounts
      BY <1>1, <2>2
    <3>2. Unnamed(o)
      BY <1>1, <2>2 DEF Unnamed, MadeBy
    <3>3. ~Twin(accounts[i], o)
      BY <1>2, <3>1, <3>2 DEF TwinsOK, Twinless
    <3>. QED BY <1>1, <2>2, <3>1, <3>3 DEF Twin, SameWallet, MadeBy
  <2>. QED BY <1>1, <2>1, <2>2
<1>4. ASSUME o.first PROVE \A k \in DOMAIN u : ~Unnamed(u[k])
  <2>. PICK ops : ops = <<First(a)>>
    OBVIOUS
  <2>1. IsList(ops) /\ \A k \in DOMAIN ops : ~Unnamed(ops[k])
    <3>1. ~Unnamed(First(a))
      BY DEF Unnamed, First
    <3>. QED BY <3>1, OneIs
  <2>2. IsAfter(u, ops, t)
    BY <1>4
  <2>. QED BY <1>4, <2>1, <2>2, TwinsPlainly
<1>5. ASSUME ~o.first, NEW k \in DOMAIN u, Unnamed(u[k])
      PROVE  /\ \A i \in DOMAIN r : ~Twin(r[i], u[k])
             /\ \A j \in 1 .. k - 1 : Apart(u[j], u[k])
  <2>1. IsAfter(u, <<>>, t)
    BY <1>5
  <2>2. IsList(u) /\ Len(u) = Len(t) - 1 /\ \A m \in 1 .. Len(t) - 1 : u[m] = t[m + 1]
    BY <1>2, <2>1, TailIs
  <2>3. DOMAIN u = 1 .. Len(t) - 1
    BY <2>2, ListIs
  <2>4. /\ k + 1 \in DOMAIN t /\ u[k] = t[k + 1]
        /\ Twinless(t[k + 1]) /\ \A j \in 1 .. (k + 1) - 1 : Apart(t[j], t[k + 1])
    <3>1. k + 1 \in DOMAIN t /\ u[k] = t[k + 1]
      BY <1>2, <2>2, <2>3
    <3>. QED BY <1>5, <3>1 DEF TwinsOK
  <2>5. ~SameWallet(o, u[k])
    <3>1. 1 \in 1 .. (k + 1) - 1
      BY <1>2, <2>3
    <3>. QED BY <2>4, <3>1 DEF Apart
  <2>6. \A i \in DOMAIN r : ~Twin(r[i], u[k])
    <3>1. \A i \in DOMAIN accounts : ~Twin(accounts[i], u[k])
      BY <2>4 DEF Twinless
    <3>2. ~Twin(a, u[k])
      BY <2>5 DEF Twin, SameWallet, MadeBy
    <3>. QED BY <1>1, <3>1, <3>2
  <2>7. ASSUME NEW j \in 1 .. k - 1 PROVE Apart(u[j], u[k])
    <3>1. j \in 1 .. Len(t) - 1 /\ j + 1 \in 1 .. (k + 1) - 1
      BY <1>2, <2>3
    <3>. QED BY <2>2, <2>4, <3>1
  <2>. QED BY <2>6, <2>7
<1>6. \A k \in DOMAIN u : Unnamed(u[k]) =>
        /\ \A i \in DOMAIN r : ~Twin(r[i], u[k])
        /\ \A j \in 1 .. k - 1 : Apart(u[j], u[k])
  BY <1>4, <1>5
<1>. QED BY <1>3, <1>6 DEF TwinsOK, Twinless, Unnamed, Apart, Twin, SameWallet

(* What InTurn gives: every position owed, once, in order.                 *)
LEMMA OwedOnce ==
  ASSUME StoreOK, NEW c, NEW f \in InTurn(Owed(c))
  PROVE  /\ \E n \in Nat : DOMAIN f = 1 .. n
         /\ \A k \in DOMAIN f : f[k] \in Owed(c)
         /\ \A i \in Owed(c) : \E k \in DOMAIN f : f[k] = i
         /\ \A k, m \in DOMAIN f : m < k => ~SameWallet(accounts[f[m]], accounts[f[k]])
<1>. PICK S : S = Owed(c)
  OBVIOUS
<1>1. Cardinality(S) \in Nat /\ S \subseteq DOMAIN accounts
  BY OwedIs
<1>2. /\ f \in [1 .. Cardinality(S) -> S] /\ Range(f) = S
      /\ \A m, k \in DOMAIN f : m < k => f[m] < f[k]
  BY DEF InTurn
<1>3. ASSUME NEW k \in DOMAIN f, NEW m \in DOMAIN f, m < k
      PROVE  ~SameWallet(accounts[f[m]], accounts[f[k]])
  <2>1. f[m] \in S /\ f[k] \in S /\ f[m] < f[k]
    BY <1>2, <1>3
  <2>2. f[m] \in 1 .. f[k] - 1
    <3>1. DOMAIN accounts \subseteq Nat \ {0}
      BY ListIs DEF StoreOK
    <3>. QED BY <1>1, <2>1, <3>1
  <2>3. Derivable(c, f[m])
    BY <2>1 DEF Owed
  <2>4. ~SameWallet(accounts[f[k]], accounts[f[m]])
    BY <2>1, <2>2, <2>3 DEF Owed
  <2>. QED BY <2>4 DEF SameWallet
<1>. QED BY <1>1, <1>2, <1>3 DEF Range

LEMMA TwinsMissing ==
  ASSUME StoreOK, NEW c \in Chain, NEW f \in InTurn(Owed(c)),
         NEW t, IsList(t), t # <<>>, TwinsOK(t), t[1].op = "missing",
         NEW u, IsAfter(u, Faces(c, f), t)
  PROVE  TwinsOK(u)
<1>. PICK ops : ops = Faces(c, f)
  OBVIOUS
<1>1. /\ IsList(ops) /\ DOMAIN ops = DOMAIN f
      /\ \A k \in DOMAIN ops : f[k] \in Owed(c) /\ ops[k] = Face(c, accounts[f[k]])
  BY FacesAre
<1>2. \A k \in DOMAIN u : Unnamed(u[k]) => k \in DOMAIN ops /\ u[k] = ops[k]
  <2>1. IsAfter(u, ops, t)
    OBVIOUS
  <2>. QED BY <1>1, <2>1, TwinsPlainly
<1>3. \A a : /\ Face(c, a).chain = c /\ Face(c, a).op = "create" /\ ~Face(c, a).first
             /\ \A b : /\ SameWallet(b, Face(c, a)) <=> SameWallet(b, a)
                       /\ SameWallet(Face(c, a), b) <=> SameWallet(a, b)
  BY DEF Face, SameWallet
<1>4. ASSUME NEW k \in DOMAIN ops PROVE Twinless(ops[k])
  <2>1. Derivable(c, f[k])
    BY <1>1, <1>4 DEF Owed
  <2>. SUFFICES ASSUME NEW i \in DOMAIN accounts, Twin(accounts[i], ops[k]) PROVE FALSE
    BY DEF Twinless
  <2>2. accounts[i].chain = c /\ SameWallet(accounts[i], accounts[f[k]])
    BY <1>1, <1>3, <1>4 DEF Twin
  <2>3. accounts[i] \in Range(accounts)
    BY DEF Range
  <2>. QED BY <2>1, <2>2, <2>3 DEF Derivable
<1>5. ASSUME NEW k \in DOMAIN ops, NEW j \in 1 .. k - 1 PROVE Apart(u[j], ops[k])
  <2>1. j \in DOMAIN f /\ k \in DOMAIN f /\ j < k
    BY <1>1, OwedOnce
  <2>2. ~SameWallet(accounts[f[j]], accounts[f[k]])
    BY <2>1, OwedOnce
  <2>3. u[j] = ops[j]
    BY <1>1, <2>1 DEF IsAfter
  <2>. QED BY <1>1, <1>3, <2>1, <2>2, <2>3 DEF Apart
<1>. QED BY <1>2, <1>4, <1>5 DEF TwinsOK

----------------------------------------------------------------------------
(* What a step makes of the list of an orderly home.                       *)

LEMMA SameParts ==
  ASSUME UNCHANGED <<accounts, config, setting>>, NEW t, Parts(t)
  PROVE  Parts(t)'
<1>1. PlainOK(t)' /\ TwinsOK(t)'
  BY DEF Parts, PlainOK, AccountsPlain, OpPlain, Creating, TwinsOK, AddressesOnce, Unnamed,
         Twinless, Twin, Apart, SameWallet
<1>2. FacesOK(t)'
  BY DEF Parts, FacesOK, Covered, Deriving, Making, Adopt, SameWallet
<1>3. PlaceOK(t) => PlaceOK(t)'
  BY DEF PlaceOK, Placed, AllPhrases, OpPhrase, Creating, Other, Settling, Settled, InPlace,
         Steadily, Steady, Opening, Closing, First, Set, Follow, Active, ActiveOnKey,
         Selected, SelectedOnKey
<1>. QED BY <1>1, <1>2, <1>3 DEF Parts

LEMMA PartsNothing ==
  ASSUME NEW t, Parts(t), "import_key" \notin setting.commands => Settled
  PROVE  Parts(<<>>)
<1>1. DOMAIN <<>> = {} /\ Len(<<>>) = 0
  BY NoOps
<1>2. \A c : ~Deriving(c, <<>>)
  BY DEF Deriving
<1>3. Steadily(<<>>, 0)
  BY <1>1 DEF Steadily
<1>. QED BY <1>1, <1>2, <1>3 DEF Parts, PlainOK, TwinsOK, FacesOK, PlaceOK, Placed

LEMMA OtherFaces ==
  ASSUME NEW t, IsList(t), Other(t)
  PROVE  FacesOK(t) /\ \A c : ~Deriving(c, t)
<1>. SUFFICES ASSUME NEW c, Deriving(c, t) PROVE FALSE
  BY DEF FacesOK
<1>1. Len(t) \in DOMAIN t /\ t[Len(t)].op = "adopt"
  <2>1. Len(t) \in Nat /\ DOMAIN t = 1 .. Len(t) /\ Len(t) # 0
    BY ListIs DEF Deriving
  <2>2. Len(t) \in DOMAIN t
    BY <2>1
  <2>. QED BY <2>2 DEF Deriving, Adopt
<1>. QED BY <1>1 DEF Other, Settling

LEMMA SteadyHead ==
  ASSUME NEW t, PlaceOK(t), Other(t), t[1].op \notin {"first", "set", "follow"}
  PROVE  Settled /\ Steadily(t, 0)
<1>0. \A k, v : Set(k, v).op = "set" /\ Follow(k, v).op = "follow" /\ First(k).op = "first"
  BY DEF Set, Follow, First
<1>1. ~Opening(accounts[1], t)
  <2>1. /\ \A k, v : t[1] # Set(k, v) /\ t[1] # Follow(k, v)
        /\ \A k : t[1] # First(k)
    BY <1>0
  <2>. QED BY <2>1 DEF Opening
<1>2. ~Closing(t)
  <2>1. \A k, v : t[1] # Set(k, v)
    BY <1>0
  <2>. QED BY <2>1 DEF Closing
<1>. QED BY <1>1, <1>2 DEF PlaceOK, Placed

(* u is ops, and steady operations behind them.                            *)
Led(u, ops) == Steadily(u, Len(ops)) /\ \A k \in DOMAIN ops : u[k] = ops[k]

LEMMA SteadyRest ==
  ASSUME NEW t, IsList(t), t # <<>>, Steadily(t, 0) \/ Steadily(t, 1),
         NEW ops, IsList(ops), NEW u, IsAfter(u, ops, t)
  PROVE  Led(u, ops)
<1>. PICK n : n = Len(ops)
  OBVIOUS
<1>1. /\ n \in Nat /\ Len(t) \in Nat /\ Len(t) # 0
      /\ Len(u) = n + Len(t) - 1 /\ DOMAIN u = 1 .. Len(u) /\ DOMAIN ops = 1 .. n
  BY ListIs DEF IsAfter
<1>2. \A k \in DOMAIN t : k > 1 => Steady(t[k])
  BY ListIs DEF Steadily
<1>3. ASSUME NEW k \in DOMAIN u, k > n PROVE Steady(u[k])
  <2>1. k \notin DOMAIN ops /\ k - n + 1 > 1
    BY <1>1, <1>3
  <2>2. k - n + 1 \in DOMAIN t /\ u[k] = t[k - n + 1]
    BY <2>1 DEF IsAfter
  <2>. QED BY <1>2, <2>1, <2>2
<1>. QED BY <1>1, <1>3 DEF Steadily, IsAfter, Led

LEMMA SteadyTail ==
  ASSUME NEW t, IsList(t), NEW m \in Nat \ {0}, Steadily(t, m), NEW u, IsAfter(u, <<>>, t)
  PROVE  Steadily(u, m - 1) /\ \A k \in 1 .. m - 1 : u[k] = t[k + 1]
<1>1. /\ Len(t) \in Nat /\ Len(t) >= m /\ DOMAIN t = 1 .. Len(t)
      /\ \A k \in DOMAIN t : k > m => Steady(t[k])
  BY ListIs DEF Steadily
<1>2. IsList(u) /\ Len(u) = Len(t) - 1 /\ \A k \in 1 .. Len(t) - 1 : u[k] = t[k + 1]
  BY <1>1, TailIs
<1>3. DOMAIN u = 1 .. Len(t) - 1
  BY <1>2, ListIs
<1>4. ASSUME NEW k \in DOMAIN u, k > m - 1 PROVE Steady(u[k])
  <2>1. k + 1 \in DOMAIN t /\ k + 1 > m /\ k \in 1 .. Len(t) - 1
    BY <1>1, <1>3, <1>4
  <2>. QED BY <1>1, <1>2, <2>1
<1>5. \A k \in 1 .. m - 1 : k \in 1 .. Len(t) - 1
  BY <1>1
<1>. QED BY <1>1, <1>2, <1>4, <1>5 DEF Steadily

Harmless(o) ==
  o.op \notin Creating \cup {"remove", "repoint", "fallback"} /\ ~Settling(o)

LEMMA PartsPlainly ==
  ASSUME NEW t, IsList(t), t # <<>>, Parts(t), Other(t), t[1].op \notin {"create", "append"},
         NEW ops, IsList(ops), \A k \in DOMAIN ops : Harmless(ops[k]),
         NEW u, IsAfter(u, ops, t), "import_key" \notin setting.commands => Placed(u)
  PROVE  Parts(u)
<1>1. \A k \in DOMAIN ops : OpPlain(ops[k]) /\ ~Unnamed(ops[k]) /\ OpPhrase(ops[k])
                            /\ ~Settling(ops[k])
  BY DEF Harmless, OpPlain, Unnamed, OpPhrase, Creating
<1>2. PlainOK(u)
  BY <1>1, PlainAfter DEF Parts
<1>3. TwinsOK(u)
  BY <1>1, TwinsPlainly DEF Parts
<1>4. IsList(u) /\ FacesOK(u)
  BY <1>1, OtherStays, OtherFaces DEF IsAfter
<1>5. "import_key" \notin setting.commands => PlaceOK(u)
  BY <1>1 DEF Parts, PlaceOK, IsAfter
<1>. QED BY <1>2, <1>3, <1>4, <1>5 DEF Parts

(* An account of a command that makes one per chain, one step on.          *)
LEMMA PlaceCreating ==
  ASSUME NEW t, IsList(t), t # <<>>, PlaceOK(t), Other(t), t[1].op \in {"index", "create"},
         NEW v, v.op \in {"create", "append"}, NextOf(v, t[1]),
         NEW u, IsAfter(u, <<v>>, t)
  PROVE  PlaceOK(u)
<1>1. Settled /\ Steadily(t, 0)
  BY SteadyHead
<1>2. /\ Steadily(u, 1) /\ u[1] = v
      /\ \A k \in DOMAIN u : k = 1 \/ k > 1
  <2>1. Led(u, <<v>>)
    BY <1>1, OneIs, SteadyRest
  <2>2. Steadily(u, 1) /\ u[1] = v
    BY <2>1, OneIs DEF Led
  <2>3. IsList(u)
    BY DEF IsAfter
  <2>. QED BY <2>2, <2>3, ListIs
<1>3. 1 \in DOMAIN t
  <2>1. Len(t) \in Nat /\ Len(t) # 0 /\ DOMAIN t = 1 .. Len(t)
    BY ListIs
  <2>. QED BY <2>1
<1>4. Steady(v) /\ OpPhrase(v)
  <2>1. OpPhrase(t[1])
    BY <1>3 DEF PlaceOK
  <2>2. Steady(t[1])
    BY <1>1, <1>3 DEF Steadily
  <2>. QED BY <2>1, <2>2 DEF Steady, Creating, NextOf, OpPhrase
<1>5. Steadily(u, 0)
  <2>1. IsList(u)
    BY DEF IsAfter
  <2>. QED BY <1>2, <1>4, <2>1, ListIs DEF Steadily
<1>6. \A k \in DOMAIN u : OpPhrase(u[k])
  <2>1. \A k \in DOMAIN <<v>> : OpPhrase(<<v>>[k])
    BY <1>4, OneIs
  <2>. QED BY <2>1 DEF PlaceOK, IsAfter
<1>. QED BY <1>1, <1>5, <1>6 DEF PlaceOK, Placed

LEMMA IndexParts ==
  ASSUME MoveOK, NEW h \in setting.handles, setting' = setting, alone[h], Parts(todo[h]),
         DoIndex(h)
  PROVE  Parts(todo[h])'
<1>. PICK t, u, o : t = todo[h] /\ u = todo'[h] /\ o = Head(todo[h])
  OBVIOUS
<1>0. StoreOK /\ ListsOK
  BY DEF MoveOK
<1>1. Stepped(h) /\ UNCHANGED <<accounts, config>>
  BY <1>0, IndexStep
<1>2. PICK v : /\ v.op = "create" /\ NextOf(v, o)
               /\ v.index = NextAddressIndex(v.source, v.chain)
               /\ IsAfter(u, <<v>>, t)
  BY <1>0, IndexStep
<1>3. IsList(t) /\ t # <<>> /\ o = t[1] /\ 1 \in DOMAIN t /\ h \in Handle
  BY <1>0, <1>1, HeadIs DEF Stepped
<1>4. o.op = "index"
  BY DEF DoIndex, Doing
<1>5. Other(t)
  BY <1>3, <1>4, HeadTells DEF MoveOK
<1>6. OpPlain(o) /\ AccountsPlain /\ TwinsOK(t)
  BY <1>3 DEF Parts, PlainOK
<1>7. v.source \in Phrase => Twinless(v) /\ v.index \in Nat
  <2>. SUFFICES ASSUME v.source \in Phrase PROVE Twinless(v) /\ v.index \in Nat
    OBVIOUS
  <2>1. /\ v.index \in Nat
        /\ \A i \in DOMAIN accounts :
             accounts[i].source = v.source /\ accounts[i].chain = v.chain =>
               accounts[i].index # v.index
    BY <1>0, <1>2, <1>6, NextIs DEF AccountsPlain
  <2>. QED BY <2>1 DEF Twinless, Twin, SameWallet
<1>8. PlainOK(u)
  <2>1. OpPlain(v)
    BY <1>2, <1>4, <1>6, <1>7 DEF OpPlain, Creating, NextOf
  <2>2. \A k \in DOMAIN <<v>> : OpPlain(<<v>>[k])
    BY <2>1, OneIs
  <2>. QED BY <1>2, <2>2, PlainAfter DEF Parts
<1>9. TwinsOK(u)
  BY <1>2, <1>3, <1>4, <1>6, <1>7, TwinsIndex DEF Unnamed
<1>10. Other(u) /\ IsList(u)
  <2>1. \A k \in DOMAIN <<v>> : ~Settling(<<v>>[k])
    BY <1>2, OneIs DEF Settling
  <2>2. Other(u)
    BY <1>2, <1>3, <1>5, <2>1, OtherStays
  <2>. QED BY <1>2, <2>2 DEF IsAfter
<1>11. "import_key" \notin setting.commands => PlaceOK(u)
  BY <1>2, <1>3, <1>4, <1>5, PlaceCreating DEF Parts
<1>12. Parts(u)
  BY <1>8, <1>9, <1>10, <1>11, OtherFaces DEF Parts
<1>. QED BY <1>1, <1>12, SameParts

LEMMA FirstParts ==
  ASSUME MoveOK, NEW h \in setting.handles, setting' = setting, alone[h], Parts(todo[h]),
         DoActivateIfFirst(h)
  PROVE  Parts(todo[h])'
<1>. PICK t, u, o : t = todo[h] /\ u = todo'[h] /\ o = Head(todo[h])
  OBVIOUS
<1>0. StoreOK /\ ListsOK
  BY DEF MoveOK
<1>1. Stepped(h) /\ UNCHANGED <<accounts, config>> /\ o.chain \in Chain
  BY <1>0, FirstStep
<1>2. IsAfter(u, IF Len(accounts) = 1 THEN Activate(o.id, o.chain, FALSE) ELSE <<>>, t)
  BY <1>0, FirstStep
<1>3. IsList(t) /\ t # <<>> /\ o = t[1] /\ 1 \in DOMAIN t /\ h \in Handle
  BY <1>0, <1>1, HeadIs DEF Stepped
<1>4. o.op = "first"
  BY DEF DoActivateIfFirst, Doing
<1>5. Other(t)
  BY <1>3, <1>4, HeadTells DEF MoveOK
<1>6. ASSUME "import_key" \notin setting.commands
      PROVE  \/ Len(accounts) = 1 /\ Steadily(t, 1) /\ o = First(accounts[1])
             \/ Len(accounts) # 1 /\ Settled /\ Steadily(t, 1)
  <2>0. \A k, v : Set(k, v).op = "set" /\ Follow(k, v).op = "follow"
    BY OpIs
  <2>1. \A k, v : o # Set(k, v) /\ o # Follow(k, v)
    BY <1>4, <2>0
  <2>2. ~Steadily(t, 0)
    BY <1>3, <1>4 DEF Steadily, Steady, Creating
  <2>3. Placed(t)
    BY <1>5, <1>6 DEF Parts, PlaceOK
  <2>4. ASSUME Opening(accounts[1], t) PROVE Steadily(t, 1) /\ o = First(accounts[1])
    BY <1>3, <2>1, <2>4 DEF Opening
  <2>5. ASSUME Closing(t) PROVE Len(accounts) > 1 /\ Settled /\ Steadily(t, 1)
    BY <1>3, <2>1, <2>5 DEF Closing
  <2>6. Len(accounts) > 1 => Len(accounts) # 1
    <3>1. IsList(accounts)
      BY <1>0 DEF StoreOK
    <3>2. Len(accounts) \in Nat
      BY <3>1, ListIs
    <3>3. \A n \in Nat : n > 1 => n # 1
      OBVIOUS
    <3>. QED BY <3>2, <3>3
  <2>. QED BY <2>2, <2>3, <2>4, <2>5, <2>6 DEF Placed
<1>7. CASE Len(accounts) = 1
  <2>. PICK ops : ops = Activate(o.id, o.chain, FALSE)
    OBVIOUS
  <2>1. IsAfter(u, ops, t) /\ IsList(ops) /\ DOMAIN ops = {1, 2, 3} /\ Len(ops) = 3
    BY <1>1, <1>2, <1>7, ActivateOps
  <2>2. /\ ops[1] = Set(Active, o.id) /\ ops[2] = Set(ActiveOnKey(o.chain), o.id)
        /\ ops[3] = Follow(o.chain, FALSE)
    BY DEF Activate, Follow
  <2>3. \A k \in DOMAIN ops : Harmless(ops[k])
    <3>1. \A k, v : Harmless(Set(k, v))
      BY DEF Harmless, Creating, Settling, Set
    <3>2. Harmless(Follow(o.chain, FALSE))
      BY DEF Harmless, Creating, Settling, Follow
    <3>3. Harmless(ops[1]) /\ Harmless(ops[2]) /\ Harmless(ops[3])
      BY <2>2, <3>1, <3>2
    <3>. QED BY <2>1, <3>3
  <2>4. ASSUME "import_key" \notin setting.commands PROVE Placed(u)
    <3>1. Steadily(t, 1) /\ o = First(accounts[1])
      BY <1>6, <1>7, <2>4
    <3>2. Steadily(u, 3) /\ u[1] = ops[1] /\ u[2] = ops[2] /\ u[3] = ops[3]
      <4>1. Steadily(u, 3) /\ \A k \in DOMAIN ops : u[k] = ops[k]
        <5>1. Led(u, ops)
          BY <1>3, <2>1, <3>1, SteadyRest
        <5>. QED BY <2>1, <5>1 DEF Led
      <4>. QED BY <2>1, <4>1
    <3>3. o.id = accounts[1].id /\ o.chain = accounts[1].chain
      BY <3>1 DEF First
    <3>4. Opening(accounts[1], u)
      BY <2>2, <3>2, <3>3 DEF Opening
    <3>. QED BY <1>7, <3>4 DEF Placed
  <2>5. Parts(u)
    BY <1>3, <1>4, <1>5, <2>1, <2>3, <2>4, PartsPlainly
  <2>. QED BY <1>1, <2>5, SameParts
<1>8. CASE Len(accounts) # 1
  <2>1. IsAfter(u, <<>>, t)
    BY <1>2, <1>8
  <2>2. \A k \in DOMAIN <<>> : Harmless(<<>>[k])
    BY NoOps
  <2>3. ASSUME "import_key" \notin setting.commands PROVE Placed(u)
    <3>1. Settled /\ Steadily(t, 1)
      BY <1>6, <1>8, <2>3
    <3>2. Led(u, <<>>)
      BY <1>3, <2>1, <3>1, NoOps, SteadyRest
    <3>3. Steadily(u, 0)
      BY <3>2, NoOps DEF Led
    <3>. QED BY <3>1, <3>3 DEF Placed
  <2>4. Parts(u)
    BY <1>3, <1>4, <1>5, <2>1, <2>2, <2>3, NoOps, PartsPlainly
  <2>. QED BY <1>1, <2>4, SameParts
<1>. QED BY <1>7, <1>8

LEMMA SteadyParts ==
  ASSUME NEW t, IsList(t), t # <<>>, Parts(t), Other(t),
         t[1].op \in {"remember", "rename", "relabel"},
         NEW ops, IsList(ops), \A k \in DOMAIN ops : Harmless(ops[k]) /\ Steady(ops[k]),
         NEW u, IsAfter(u, ops, t)
  PROVE  Parts(u)
<1>1. ASSUME "import_key" \notin setting.commands PROVE Placed(u)
  <2>1. Settled /\ Steadily(t, 0)
    BY <1>1, SteadyHead DEF Parts
  <2>2. Led(u, ops)
    BY <2>1, SteadyRest
  <2>3. \A k \in DOMAIN u : (k \in DOMAIN ops /\ u[k] = ops[k]) \/ k > Len(ops)
    BY DEF IsAfter
  <2>4. Steadily(u, 0)
    <3>1. Len(u) \in Nat
      BY ListIs DEF IsAfter
    <3>2. Len(u) >= 0
      BY <3>1
    <3>. QED BY <2>2, <2>3, <3>2 DEF Led, Steadily
  <2>. QED BY <2>1, <2>4 DEF Placed
<1>. QED BY <1>1, PartsPlainly

LEMMA RememberParts ==
  ASSUME MoveOK, NEW h \in setting.handles, setting' = setting, alone[h], Parts(todo[h]),
         DoRemember(h) \/ DoRename(h)
  PROVE  Parts(todo[h])'
<1>. PICK t, u, o : t = todo[h] /\ u = todo'[h] /\ o = Head(todo[h])
  OBVIOUS
<1>0. StoreOK /\ ListsOK
  BY DEF MoveOK
<1>1. Stepped(h) /\ UNCHANGED <<accounts, config>>
  BY <1>0, RememberStep, RenameStep
<1>2. IsAfter(u, <<>>, t) \/ u = <<>> \/ \E v : v.op = "relabel" /\ IsAfter(u, <<v>>, t)
  BY <1>0, RememberStep, RenameStep
<1>3. IsList(t) /\ t # <<>> /\ o = t[1] /\ 1 \in DOMAIN t /\ h \in Handle
  BY <1>0, <1>1, HeadIs DEF Stepped
<1>4. o.op \in {"remember", "rename"}
  BY DEF DoRemember, DoRename, Doing
<1>5. Other(t)
  BY <1>3, <1>4, HeadTells DEF MoveOK
<1>6. ASSUME IsAfter(u, <<>>, t) PROVE Parts(u)
  BY <1>3, <1>4, <1>5, <1>6, NoOps, SteadyParts
<1>7. ASSUME NEW v, v.op = "relabel", IsAfter(u, <<v>>, t) PROVE Parts(u)
  <2>1. Harmless(v) /\ Steady(v)
    BY <1>7 DEF Harmless, Creating, Settling, Steady
  <2>2. IsList(<<v>>) /\ \A k \in DOMAIN <<v>> : Harmless(<<v>>[k]) /\ Steady(<<v>>[k])
    BY <2>1, OneIs
  <2>. QED BY <1>3, <1>4, <1>5, <1>7, <2>2, SteadyParts
<1>8. ASSUME u = <<>> PROVE Parts(u)
  <2>1. "import_key" \notin setting.commands => Settled
    BY <1>3, <1>4, <1>5, SteadyHead DEF Parts
  <2>. QED BY <1>8, <2>1, PartsNothing
<1>9. Parts(u)
  BY <1>2, <1>6, <1>7, <1>8
<1>. QED BY <1>1, <1>9, SameParts

LEMMA RelabelledParts ==
  ASSUME StoreOK, StoreOK', UNCHANGED <<config, setting>>,
         DOMAIN accounts' = DOMAIN accounts,
         \A i \in DOMAIN accounts : Relabelled(accounts'[i], accounts[i]),
         NEW t, IsList(t), Other(t), Parts(t),
         "import_key" \notin setting.commands => Settled /\ Steadily(t, 0)
  PROVE  Parts(t)'
<1>1. PlainOK(t)'
  BY DEF Parts, PlainOK, AccountsPlain, OpPlain, Creating, Relabelled
<1>2. TwinsOK(t)'
  <2>1. DOMAIN accounts = 1 .. Len(accounts) /\ Len(accounts) \in Nat
    BY ListIs DEF StoreOK
  <2>2. AddressesOnce'
    <3>. SUFFICES ASSUME NEW j \in DOMAIN accounts, NEW i \in 1 .. j - 1,
                         accounts'[j].source \in Phrase, ~accounts'[j].named
                  PROVE  ~Twin(accounts'[i], accounts'[j])
      BY DEF AddressesOnce, Twin, SameWallet
    <3>1. i \in DOMAIN accounts
      BY <2>1
    <3>2. Relabelled(accounts'[i], accounts[i]) /\ Relabelled(accounts'[j], accounts[j])
      BY <3>1
    <3>3. accounts[j].source \in Phrase /\ ~accounts[j].named
      BY <3>2 DEF Relabelled
    <3>4. ~Twin(accounts[i], accounts[j])
      BY <3>3 DEF Parts, TwinsOK, AddressesOnce
    <3>. QED BY <3>2, <3>4 DEF Twin, SameWallet, Relabelled
  <2>3. ASSUME NEW o, Twinless(o) PROVE Twinless(o)'
    BY <2>3 DEF Twinless, Twin, SameWallet, Relabelled
  <2>4. \A k \in DOMAIN t : Unnamed(t[k]) =>
          Twinless(t[k]) /\ \A j \in 1 .. k - 1 : Apart(t[j], t[k])
    BY DEF Parts, TwinsOK
  <2>. QED BY <2>2, <2>3, <2>4 DEF TwinsOK, Unnamed, Apart, SameWallet
<1>3. FacesOK(t)'
  <2>1. \A c : ~Deriving(c, t)
    BY OtherFaces
  <2>. QED BY <2>1 DEF FacesOK, Deriving, Making, Adopt
<1>4. ASSUME "import_key" \notin setting.commands PROVE PlaceOK(t)'
  <2>1. accounts' # <<>> => accounts # <<>>
    <3>1. IsList(accounts) /\ IsList(accounts')
      BY DEF StoreOK
    <3>2. \A n, m \in Nat : 1 .. n = 1 .. m => (n = 0 <=> m = 0)
      <4>. TAKE n, m \in Nat
      <4>. HAVE 1 .. n = 1 .. m
      <4>1. \A k \in Nat : k = 0 <=> 1 \notin 1 .. k
        OBVIOUS
      <4>. QED BY <4>1
    <3>3. /\ Len(accounts) \in Nat /\ DOMAIN accounts = 1 .. Len(accounts)
          /\ accounts = <<>> <=> Len(accounts) = 0
      BY <3>1, ListIs
    <3>4. /\ Len(accounts') \in Nat /\ DOMAIN accounts' = 1 .. Len(accounts')
          /\ accounts' = <<>> <=> Len(accounts') = 0
      BY <3>1, ListIs
    <3>. QED BY <3>2, <3>3, <3>4
  <2>2. Settled'
    BY <1>4, <2>1 DEF Settled, InPlace, Relabelled, Active, Selected
  <2>3. (AllPhrases /\ \A k \in DOMAIN t : OpPhrase(t[k]))'
    BY <1>4 DEF Parts, PlaceOK, AllPhrases, OpPhrase, Creating, Relabelled
  <2>. QED BY <1>4, <2>2, <2>3 DEF PlaceOK, Placed, Steadily, Steady, Creating
<1>. QED BY <1>1, <1>2, <1>3, <1>4 DEF Parts

LEMMA RelabelParts ==
  ASSUME MoveOK, NEW h \in setting.handles, setting' = setting, alone[h], Parts(todo[h]),
         DoRelabel(h)
  PROVE  Parts(todo[h])'
<1>. PICK t, u, o : t = todo[h] /\ u = todo'[h] /\ o = Head(todo[h])
  OBVIOUS
<1>0. StoreOK /\ ListsOK
  BY DEF MoveOK
<1>1. /\ Stepped(h) /\ UNCHANGED config /\ IsAfter(u, <<>>, t)
      /\ DOMAIN accounts' = DOMAIN accounts
      /\ \A i \in DOMAIN accounts : Relabelled(accounts'[i], accounts[i])
  BY <1>0, RelabelStep
<1>3. IsList(t) /\ t # <<>> /\ o = t[1] /\ 1 \in DOMAIN t /\ h \in Handle
  BY <1>0, <1>1, HeadIs DEF Stepped
<1>4. o.op = "relabel"
  BY DEF DoRelabel, Doing
<1>5. Other(t)
  BY <1>3, <1>4, HeadTells DEF MoveOK
<1>6. Parts(u)
  BY <1>1, <1>3, <1>4, <1>5, NoOps, SteadyParts
<1>7. Other(u) /\ IsList(u)
  <2>1. \A k \in DOMAIN <<>> : ~Settling(<<>>[k])
    BY NoOps
  <2>2. Other(u)
    BY <1>1, <1>3, <1>5, <2>1, OtherStays
  <2>. QED BY <1>1, <2>2 DEF IsAfter
<1>8. "import_key" \notin setting.commands => Settled /\ Steadily(u, 0)
  <2>1. ASSUME "import_key" \notin setting.commands PROVE Settled /\ Steadily(u, 0)
    <3>1. Settled /\ Steadily(t, 0)
      BY <1>3, <1>4, <1>5, <2>1, SteadyHead DEF Parts
    <3>2. Led(u, <<>>)
      BY <1>1, <1>3, <3>1, NoOps, SteadyRest
    <3>. QED BY <3>1, <3>2, NoOps DEF Led
  <2>. QED BY <2>1
<1>9. StoreOK'
  BY <1>1 DEF Stepped
<1>10. Parts(u)'
  BY <1>0, <1>1, <1>6, <1>7, <1>8, <1>9, RelabelledParts
<1>. QED BY <1>10

LEMMA NoRemoving ==
  ASSUME MoveOK, NEW h \in setting.handles, Parts(todo[h])
  PROVE  ~DoRemove(h) /\ ~DoRepoint(h) /\ ~DoFallback(h)
<1>. SUFFICES ASSUME ~Idle(h), Head(todo[h]).op \in {"remove", "repoint", "fallback"}
              PROVE  FALSE
  BY DEF DoRemove, DoRepoint, DoFallback, Doing
<1>1. 1 \in DOMAIN todo[h] /\ Head(todo[h]) = todo[h][1]
  BY HeadIs DEF MoveOK
<1>. QED BY <1>1 DEF Parts, PlainOK, OpPlain

LEMMA DerivingOnce ==
  ASSUME NEW t, NEW c, NEW d, Deriving(c, t), Deriving(d, t)
  PROVE  c = d
<1>1. Adopt(c) = Adopt(d)
  BY DEF Deriving
<1>2. Adopt(c).chain = c /\ Adopt(d).chain = d
  BY DEF Adopt
<1>. QED BY <1>1, <1>2

LEMMA AfterOne ==
  ASSUME NEW t, IsList(t), t # <<>>, NEW v, NEW u, IsAfter(u, <<v>>, t)
  PROVE  /\ IsList(u) /\ Len(u) = Len(t) /\ Len(t) \in Nat \ {0}
         /\ DOMAIN u = 1 .. Len(t) /\ DOMAIN t = 1 .. Len(t)
         /\ u[1] = v /\ \A k \in DOMAIN u : k # 1 => u[k] = t[k]
<1>1. /\ IsList(u) /\ Len(u) = Len(t) /\ Len(t) \in Nat \ {0}
      /\ DOMAIN u = 1 .. Len(t) /\ DOMAIN t = 1 .. Len(t)
  <2>1. IsList(u) /\ Len(u) = 1 + Len(t) - 1 /\ Len(t) \in Nat /\ Len(t) # 0
    BY OneIs, ListIs DEF IsAfter
  <2>2. Len(u) = Len(t)
    BY <2>1
  <2>. QED BY <2>1, <2>2, ListIs
<1>2. u[1] = v
  BY OneIs DEF IsAfter
<1>3. \A k \in DOMAIN u : k # 1 => u[k] = t[k - 1 + 1]
  BY OneIs DEF IsAfter
<1>. QED BY <1>1, <1>2, <1>3

LEMMA CoveredCreate ==
  ASSUME NEW t, IsList(t), t # <<>>, NEW c, Covered(c, t),
         NEW v, NextOf(v, t[1]), v.index = t[1].index, NEW u, IsAfter(u, <<v>>, t)
  PROVE  Covered(c, u)
<1>1. /\ Len(u) = Len(t) /\ Len(t) \in Nat \ {0} /\ DOMAIN u = 1 .. Len(t)
      /\ u[1] = v /\ \A k \in DOMAIN u : k # 1 => u[k] = t[k]
  BY AfterOne
<1>2. \A a : SameWallet(a, v) <=> SameWallet(a, t[1])
  BY DEF SameWallet, NextOf
<1>3. ASSUME NEW a, NEW k \in 1 .. Len(t) - 1, SameWallet(a, t[k])
      PROVE  SameWallet(a, u[k])
  <2>1. k \in DOMAIN u
    BY <1>1
  <2>. QED BY <1>1, <1>2, <1>3, <2>1
<1>. QED BY <1>1, <1>3 DEF Covered

LEMMA CreateParts ==
  ASSUME MoveOK, NEW h \in setting.handles, setting' = setting, alone[h], Parts(todo[h]),
         DoCreate(h)
  PROVE  Parts(todo[h])'
<1>. PICK t, u, o : t = todo[h] /\ u = todo'[h] /\ o = Head(todo[h])
  OBVIOUS
<1>0. StoreOK /\ ListsOK
  BY DEF MoveOK
<1>1. /\ Stepped(h) /\ UNCHANGED <<accounts, config>>
      /\ \/ o.label # Unset /\ u = <<>>
         \/ \E v : v.op = "append" /\ NextOf(v, o) /\ v.index = o.index /\ IsAfter(u, <<v>>, t)
  BY <1>0, CreateStep
<1>2. IsList(t) /\ t # <<>> /\ o = t[1] /\ 1 \in DOMAIN t /\ h \in Handle
  BY <1>0, <1>1, HeadIs DEF Stepped
<1>3. o.op = "create"
  BY DEF DoCreate, Doing
<1>4. Other(t) \/ \E c \in Chain : Deriving(c, t)
  <2>1. Other(t) \/ \E n \in Network : Deriving(ChainOfNetwork[n], t)
    BY <1>2, <1>3, HeadTells DEF MoveOK
  <2>. QED BY <2>1, WalletConstants
<1>5. ASSUME o.label # Unset, u = <<>> PROVE Parts(u)
  <2>1. \A c : ~Deriving(c, t)
    <3>. SUFFICES ASSUME NEW c, Deriving(c, t) PROVE FALSE
      OBVIOUS
    <3>1. Making(o)
      BY <1>2, <1>3, DerivingLong
    <3>. QED BY <1>3, <1>5, <3>1 DEF Making
  <2>2. "import_key" \notin setting.commands => Settled
    BY <1>2, <1>3, <1>4, <2>1, SteadyHead DEF Parts
  <2>. QED BY <1>5, <2>2, PartsNothing
<1>6. ASSUME NEW v, v.op = "append", NextOf(v, o), v.index = o.index, IsAfter(u, <<v>>, t)
      PROVE  Parts(u)
  <2>1. OpPlain(v) /\ ~Settling(v)
    <3>1. OpPlain(o)
      BY <1>2 DEF Parts, PlainOK
    <3>. QED BY <1>3, <1>6, <3>1 DEF OpPlain, Creating, NextOf, Settling
  <2>2. \A k \in DOMAIN <<v>> : OpPlain(<<v>>[k]) /\ ~Settling(<<v>>[k])
    BY <2>1, OneIs
  <2>3. PlainOK(u)
    BY <1>6, <2>2, PlainAfter DEF Parts
  <2>4. TwinsOK(u)
    BY <1>2, <1>3, <1>6, TwinsCreate DEF Parts
  <2>5. ASSUME Other(t) PROVE FacesOK(u)
    <3>1. Other(u)
      BY <1>2, <1>6, <2>2, <2>5, OtherStays
    <3>2. IsList(u)
      BY <1>6 DEF IsAfter
    <3>. QED BY <3>1, <3>2, OtherFaces
  <2>6. ASSUME NEW c \in Chain, Deriving(c, t) PROVE FacesOK(u) /\ ~Other(u)
    <3>1. /\ Len(t) >= 2 /\ t[Len(t)] = Adopt(c) /\ Making(o) /\ o.chain = c
          /\ \A k \in 2 .. Len(t) - 1 : Making(t[k]) /\ t[k].chain = c
      BY <1>2, <1>3, <2>6, DerivingLong
    <3>2. \A k \in DOMAIN <<v>> : Making(<<v>>[k]) /\ <<v>>[k].chain = c
      BY <1>6, <3>1, OneIs DEF Making, NextOf
    <3>3. Deriving(c, u) /\ IsList(u)
      BY <1>2, <1>6, <3>1, <3>2, OneIs, DerivingStays
    <3>4. Covered(c, u)
      BY <1>2, <1>6, <2>6, CoveredCreate DEF Parts, FacesOK
    <3>5. \A d : Deriving(d, u) => d = c
      BY <3>3, DerivingOnce
    <3>. QED BY <3>3, <3>4, <3>5, OtherFaces DEF FacesOK
  <2>7. ASSUME "import_key" \notin setting.commands PROVE PlaceOK(u)
    <3>0. PlaceOK(t)
      BY <2>7 DEF Parts
    <3>1. CASE Other(t)
      BY <1>2, <1>3, <1>6, <3>0, <3>1, PlaceCreating
    <3>2. ASSUME NEW c \in Chain, Deriving(c, t) PROVE PlaceOK(u)
      <4>1. OpPhrase(o)
        BY <1>2, <3>0 DEF PlaceOK
      <4>2. \A k \in DOMAIN <<v>> : OpPhrase(<<v>>[k])
        BY <1>3, <1>6, <4>1, OneIs DEF OpPhrase, Creating, NextOf
      <4>3. \A k \in DOMAIN u : OpPhrase(u[k])
        BY <1>6, <3>0, <4>2 DEF PlaceOK, IsAfter
      <4>. QED BY <2>6, <3>0, <3>2, <4>3 DEF PlaceOK
    <3>. QED BY <1>4, <3>1, <3>2
  <2>. QED BY <1>4, <2>3, <2>4, <2>5, <2>6, <2>7 DEF Parts
<1>7. Parts(u)
  BY <1>1, <1>5, <1>6
<1>. QED BY <1>1, <1>7, SameParts

LEMMA CoveredAppend ==
  ASSUME IsList(accounts), NEW a, accounts' = Append(accounts, a),
         NEW t, IsList(t), t # <<>>, NEW c, Covered(c, t), MadeBy(a, t[1]), a.chain = c,
         NEW u, IsAfter(u, <<>>, t)
  PROVE  Covered(c, u)'
<1>. PICK n, r : n = Len(accounts) /\ r = Append(accounts, a)
  OBVIOUS
<1>1. /\ n \in Nat /\ DOMAIN accounts = 1 .. n /\ DOMAIN r = 1 .. n + 1
      /\ r[n + 1] = a /\ \A i \in DOMAIN accounts : r[i] = accounts[i]
  BY AppendIs
<1>2. Len(t) \in Nat /\ Len(t) # 0
  BY ListIs
<1>3. Len(u) = Len(t) - 1 /\ \A k \in 1 .. Len(t) - 1 : u[k] = t[k + 1]
  BY <1>2, TailIs
<1>4. SameWallet(a, a) /\ \A b : SameWallet(b, a) <=> SameWallet(b, t[1])
  BY DEF SameWallet, MadeBy
<1>5. ASSUME NEW i \in DOMAIN r, r[i].source \in Phrase
      PROVE  \/ \E j \in DOMAIN r : r[j].chain = c /\ SameWallet(r[i], r[j])
             \/ \E k \in 1 .. Len(u) - 1 : SameWallet(r[i], u[k])
  <2>1. n + 1 \in DOMAIN r
    BY <1>1
  <2>2. CASE i = n + 1
    BY <1>1, <1>4, <2>1, <2>2
  <2>3. CASE i # n + 1
    <3>1. i \in DOMAIN accounts /\ r[i] = accounts[i]
      BY <1>1, <2>3
    <3>2. \/ \E j \in DOMAIN accounts :
                accounts[j].chain = c /\ SameWallet(accounts[i], accounts[j])
          \/ \E k \in 1 .. Len(t) - 1 : SameWallet(accounts[i], t[k])
      BY <1>5, <3>1 DEF Covered
    <3>3. ASSUME NEW j \in DOMAIN accounts, accounts[j].chain = c,
                 SameWallet(accounts[i], accounts[j])
          PROVE  \E m \in DOMAIN r : r[m].chain = c /\ SameWallet(r[i], r[m])
      <4>1. j \in DOMAIN r /\ r[j] = accounts[j]
        BY <1>1
      <4>. QED BY <3>1, <3>3, <4>1
    <3>4. ASSUME SameWallet(accounts[i], t[1])
          PROVE  \E m \in DOMAIN r : r[m].chain = c /\ SameWallet(r[i], r[m])
      BY <1>1, <1>4, <2>1, <3>1, <3>4
    <3>5. ASSUME NEW k \in 1 .. Len(t) - 1, k # 1, SameWallet(accounts[i], t[k])
          PROVE  \E m \in 1 .. Len(u) - 1 : SameWallet(r[i], u[m])
      <4>. PICK m \in Int : m = k - 1
        OBVIOUS
      <4>1. m \in 1 .. Len(u) - 1 /\ m \in 1 .. Len(t) - 1 /\ m + 1 = k
        BY <1>2, <1>3, <3>5
      <4>2. u[m] = t[k]
        BY <1>3, <4>1
      <4>. QED BY <3>1, <3>5, <4>1, <4>2
    <3>. QED BY <3>2, <3>3, <3>4, <3>5
  <2>. QED BY <2>2, <2>3
<1>. QED BY <1>5 DEF Covered, SameWallet

LEMMA AppendParts ==
  ASSUME MoveOK, NEW h \in setting.handles, setting' = setting, alone[h], Parts(todo[h]),
         DoAppend(h)
  PROVE  Parts(todo[h])'
<1>. PICK t, u, o, n : t = todo[h] /\ u = todo'[h] /\ o = Head(todo[h]) /\ n = Len(accounts)
  OBVIOUS
<1>0. StoreOK /\ ListsOK /\ IsList(accounts)
  BY DEF MoveOK, StoreOK
<1>1. Stepped(h) /\ UNCHANGED config
  BY <1>0, AppendStep
<1>2. PICK a : /\ accounts' = Append(accounts, a) /\ MadeBy(a, o)
               /\ IsAfter(u, IF o.first THEN <<First(a)>> ELSE <<>>, t)
  BY <1>0, AppendStep DEF MadeBy
<1>3. IsList(t) /\ t # <<>> /\ o = t[1] /\ 1 \in DOMAIN t /\ h \in Handle
  BY <1>0, <1>1, HeadIs DEF Stepped
<1>4. o.op = "append" /\ o.chain \in Chain
  <2>1. o.op = "append"
    BY DEF DoAppend, Doing
  <2>. QED BY <1>0, <1>1, <2>1, HeadIs DEF Stepped, OpOK
<1>5. /\ n \in Nat /\ DOMAIN accounts = 1 .. n
      /\ Len(accounts') = n + 1 /\ DOMAIN accounts' = 1 .. n + 1
      /\ accounts'[n + 1] = a /\ \A i \in DOMAIN accounts : accounts'[i] = accounts[i]
  BY <1>0, <1>2, AppendIs
<1>6. Other(t) \/ \E c \in Chain : Deriving(c, t)
  <2>1. Other(t) \/ \E m \in Network : Deriving(ChainOfNetwork[m], t)
    BY <1>3, <1>4, HeadTells DEF MoveOK
  <2>. QED BY <2>1, WalletConstants
<1>. PICK ops : ops = IF o.first THEN <<First(a)>> ELSE <<>>
  OBVIOUS
<1>7. /\ IsAfter(u, ops, t) /\ IsList(u) /\ IsList(ops)
      /\ \A k \in DOMAIN ops : ops[k] = First(a)
  BY <1>2, OneIs, NoOps DEF IsAfter
<1>8. OpPlain(First(a)) /\ OpPhrase(First(a)) /\ ~Settling(First(a))
  BY DEF OpPlain, OpPhrase, Creating, Settling, First
<1>9. PlainOK(u)'
  <2>1. OpPlain(o) /\ AccountsPlain
    BY <1>3 DEF Parts, PlainOK
  <2>2. a.plain = TRUE /\ (a.source \in Phrase => a.index \in Nat)
    BY <1>2, <1>4, <2>1 DEF OpPlain, Creating, MadeBy
  <2>3. AccountsPlain'
    <3>1. \A i \in DOMAIN accounts' : i \in DOMAIN accounts \/ i = n + 1
      BY <1>5
    <3>. QED BY <1>5, <2>1, <2>2, <3>1 DEF AccountsPlain
  <2>4. PlainOK(u)
    BY <1>7, <1>8, PlainAfter DEF Parts
  <2>. QED BY <2>3, <2>4 DEF PlainOK, OpPlain, Creating
<1>10. TwinsOK(u)'
  BY <1>0, <1>2, <1>3, <1>4, TwinsAppend DEF Parts
<1>11. ASSUME Other(t) PROVE Other(u) /\ FacesOK(u)'
  <2>1. Other(u)
    BY <1>3, <1>7, <1>8, <1>11, OtherStays
  <2>2. \A c : ~Deriving(c, u)
    BY <1>7, <2>1, OtherFaces
  <2>. QED BY <2>1, <2>2 DEF FacesOK, Deriving, Making, Adopt
<1>12. ASSUME NEW c \in Chain, Deriving(c, t) PROVE ~Other(u) /\ FacesOK(u)'
  <2>1. /\ Len(t) >= 2 /\ t[Len(t)] = Adopt(c) /\ Making(o) /\ o.chain = c
        /\ \A k \in 2 .. Len(t) - 1 : Making(t[k]) /\ t[k].chain = c
    BY <1>3, <1>4, <1>12, DerivingLong
  <2>2. IsAfter(u, <<>>, t)
    BY <1>2, <2>1 DEF Making
  <2>3. Deriving(c, u)
    BY <1>3, <2>1, <2>2, NoOps, DerivingStays
  <2>4. Covered(c, t) /\ a.chain = c
    BY <1>2, <1>12, <2>1 DEF Parts, FacesOK, MadeBy
  <2>5. Covered(c, u)'
    BY <1>0, <1>2, <1>3, <2>2, <2>4, CoveredAppend
  <2>6. \A d : Deriving(d, u) => d = c
    BY <2>3, DerivingOnce
  <2>7. \A d \in Chain : Deriving(d, u) => Covered(d, u)'
    BY <2>5, <2>6
  <2>8. FacesOK(u)'
    BY <2>7 DEF FacesOK, Deriving, Making, Adopt
  <2>. QED BY <1>7, <2>3, <2>8, OtherFaces
<1>13. ASSUME "import_key" \notin setting.commands PROVE PlaceOK(u)'
  <2>0. PlaceOK(t) /\ OpPhrase(o)
    BY <1>3, <1>13 DEF Parts, PlaceOK
  <2>1. AllPhrases'
    <3>1. \A i \in DOMAIN accounts' : i \in DOMAIN accounts \/ i = n + 1
      BY <1>5
    <3>2. a.source \in Phrase
      BY <1>2, <1>4, <2>0 DEF OpPhrase, Creating, MadeBy
    <3>. QED BY <1>5, <2>0, <3>1, <3>2 DEF PlaceOK, AllPhrases
  <2>2. \A k \in DOMAIN u : OpPhrase(u[k])
    BY <1>7, <1>8, <2>0 DEF PlaceOK, IsAfter
  <2>3. ASSUME Other(t) PROVE Placed(u)'
    <3>1. Settled /\ Steadily(t, 0)
      BY <1>4, <1>3, <2>0, <2>3, SteadyHead
    <3>2. o.first
      BY <1>3, <1>4, <3>1 DEF Steadily, Steady
    <3>3. ops = <<First(a)>>
      BY <3>2
    <3>4. Steadily(u, 1) /\ u[1] = First(a)
      <4>. PICK v : v = First(a)
        OBVIOUS
      <4>1. ops = <<v>>
        BY <3>3
      <4>2. Led(u, <<v>>)
        BY <1>3, <1>7, <3>1, <4>1, SteadyRest
      <4>. QED BY <4>2, OneIs DEF Led
    <3>5. CASE n = 0
      <4>1. Len(accounts') = 1 /\ accounts'[1] = a
        BY <1>5, <3>5
      <4>2. Opening(a, u)'
        BY <3>4 DEF Opening, Steadily, Steady, Creating, First
      <4>. QED BY <4>1, <4>2 DEF Placed
    <3>6. CASE n # 0
      <4>1. accounts # <<>>
        BY <1>0, <3>6, ListIs
      <4>2. InPlace
        BY <3>1, <4>1 DEF Settled
      <4>3. PICK i \in DOMAIN accounts :
              /\ config[Active] = accounts[i].id
              /\ config[Selected] \in Network
              /\ ChainOfNetwork[config[Selected]] = accounts[i].chain
        BY <4>2 DEF InPlace
      <4>4. i \in DOMAIN accounts' /\ accounts'[i] = accounts[i]
        BY <1>5, <4>3
      <4>5. InPlace'
        BY <1>1, <4>3, <4>4 DEF InPlace, Active, Selected
      <4>6. Len(accounts') > 1
        BY <1>5, <3>6
      <4>7. u[1].op = "first"
        BY <3>4 DEF First
      <4>. QED BY <3>4, <4>5, <4>6, <4>7 DEF Placed, Closing, Settled, Steadily, Steady, Creating
    <3>. QED BY <3>5, <3>6
  <2>4. Other(t) \/ ~Other(u)
    BY <1>6, <1>12
  <2>5. Other(u) => Placed(u)'
    BY <2>3, <2>4
  <2>. QED BY <2>1, <2>2, <2>5 DEF PlaceOK, OpPhrase, Creating, Other, Settling
<1>. QED BY <1>1, <1>6, <1>9, <1>10, <1>11, <1>12, <1>13 DEF Parts

LEMMA SameAccounts ==
  ASSUME UNCHANGED accounts, NEW t, PlainOK(t), TwinsOK(t), FacesOK(t)
  PROVE  PlainOK(t)' /\ TwinsOK(t)' /\ FacesOK(t)'
<1>1. PlainOK(t)' /\ TwinsOK(t)'
  BY DEF PlainOK, AccountsPlain, OpPlain, Creating, TwinsOK, AddressesOnce, Unnamed,
         Twinless, Twin, Apart, SameWallet
<1>2. FacesOK(t)'
  BY DEF FacesOK, Covered, Deriving, Making, Adopt, SameWallet
<1>. QED BY <1>1, <1>2

LEMMA NotDerived ==
  ASSUME NEW u, IsList(u), u = <<>> \/ u[1].op \in {"set", "follow", "missing"}
  PROVE  \A c : ~Deriving(c, u)
<1>. SUFFICES ASSUME NEW c, Deriving(c, u) PROVE FALSE
  OBVIOUS
<1>1. u # <<>>
  BY DEF Deriving
<1>2. u[1].op \in {"create", "append", "adopt"}
  BY DerivingHead
<1>. QED BY <1>1, <1>2

(* A move under way after one of its appends to config.jsonl.              *)
Midway(u) == ~Other(u) /\ \A c : ~Deriving(c, u)

LEMMA MidwayIs ==
  ASSUME NEW u, IsList(u), u[1].op \in {"set", "follow", "missing"},
         NEW k \in DOMAIN u, Settling(u[k])
  PROVE  Midway(u)
BY NotDerived DEF Midway, Other

LEMMA SettlingIs ==
  /\ \A k, v : Settling(Settle(k, v)) /\ ~Settling(Set(k, v))
  /\ \A k : Settling(Follow(k, TRUE)) /\ Settling(Derive(k)) /\ Settling(Adopt(k))
BY DEF Settling, Settle, Follow, Derive, Adopt, Set

LEMMA SetMidway ==
  ASSUME NEW t, IsList(t), t # <<>>, Undisturbed(t), ~Other(t), t[1].op = "set",
         NEW u, IsAfter(u, <<>>, t)
  PROVE  (u = <<>> /\ t[1].settles) \/ Midway(u)
<1>0. IsList(u)
  BY DEF IsAfter
<1>1. ASSUME NEW a, Using(a, t) PROVE (u = <<>> /\ t[1].settles) \/ Midway(u)
  <2>1. CASE t = Activate(a.id, a.chain, TRUE)
    <3>0. PICK x, y, z : x = Set(Active, a.id) /\ y = Set(ActiveOnKey(a.chain), a.id)
                         /\ z = Follow(a.chain, TRUE)
      OBVIOUS
    <3>1. t = <<x, y, z>>
      BY <2>1, <3>0 DEF Activate, Follow
    <3>2. u = <<y, z>>
      <4>1. IsAfter(u, <<>>, <<x, y, z>>)
        BY <3>1
      <4>. QED BY <4>1, TailOfThree
    <3>3. u[1] = y /\ u[2] = z /\ 2 \in DOMAIN u
      BY <3>2, TwoIs
    <3>4. u[1].op = "set" /\ Settling(u[2])
      <4>1. y.op = "set"
        BY <3>0, OpIs
      <4>2. Settling(z)
        BY <3>0, SettlingIs
      <4>. QED BY <3>3, <4>1, <4>2
    <3>. QED BY <1>0, <3>3, <3>4, MidwayIs
  <2>2. CASE t = <<Set(ActiveOnKey(a.chain), a.id), Follow(a.chain, TRUE)>>
    <3>1. u = <<Follow(a.chain, TRUE)>>
      BY <2>2, TailOfTwo
    <3>2. u[1] = Follow(a.chain, TRUE) /\ 1 \in DOMAIN u
      BY <3>1, OneIs
    <3>3. u[1].op = "follow" /\ Settling(u[1])
      <4>1. Follow(a.chain, TRUE).op = "follow" /\ Settling(Follow(a.chain, TRUE))
        BY OpIs, SettlingIs
      <4>. QED BY <3>2, <4>1
    <3>. QED BY <1>0, <3>2, <3>3, MidwayIs
  <2>3. ASSUME NEW n, t = <<Set(Selected, n), Settle(SelectedOnKey(a.chain), n)>>
        PROVE  Midway(u)
    <3>1. u = <<Settle(SelectedOnKey(a.chain), n)>>
      BY <2>3, TailOfTwo
    <3>2. u[1] = Settle(SelectedOnKey(a.chain), n) /\ 1 \in DOMAIN u
      BY <3>1, OneIs
    <3>. QED BY <1>0, <3>2, OpIs, SettlingIs, MidwayIs
  <2>4. ASSUME NEW n, t = <<Settle(SelectedOnKey(a.chain), n)>>
        PROVE  u = <<>> /\ t[1].settles
    <3>1. u = <<>>
      BY <2>4, TailOfOne
    <3>2. t[1] = Settle(SelectedOnKey(a.chain), n)
      BY <2>4
    <3>. QED BY <3>1, <3>2 DEF Settle
  <2>5. t # <<Follow(a.chain, TRUE)>>
    <3>. SUFFICES ASSUME t = <<Follow(a.chain, TRUE)>> PROVE FALSE
      OBVIOUS
    <3>1. t[1] = Follow(a.chain, TRUE)
      OBVIOUS
    <3>2. Follow(a.chain, TRUE).op = "follow"
      BY OpIs
    <3>. QED BY <3>1, <3>2
  <2>. QED BY <1>1, <2>1, <2>2, <2>3, <2>4, <2>5 DEF Using
<1>2. ASSUME NEW n, Moving(n, t) PROVE (u = <<>> /\ t[1].settles) \/ Midway(u)
  <2>. PICK c : c = ChainOfNetwork[n]
    OBVIOUS
  <2>1. CASE t = <<Set(Selected, n), Set(SelectedOnKey(c), n), Derive(c), Adopt(c)>>
    <3>1. u = <<Set(SelectedOnKey(c), n), Derive(c), Adopt(c)>>
      BY <2>1, TailOfFour
    <3>2. u[1] = Set(SelectedOnKey(c), n) /\ u[2] = Derive(c) /\ 2 \in DOMAIN u
      BY <3>1, ThreeIs
    <3>3. Set(SelectedOnKey(c), n).op = "set" /\ Settling(Derive(c))
      BY OpIs, SettlingIs
    <3>4. u[1].op = "set" /\ Settling(u[2])
      BY <3>2, <3>3
    <3>. QED BY <1>0, <3>2, <3>4, MidwayIs
  <2>2. CASE t = <<Set(SelectedOnKey(c), n), Derive(c), Adopt(c)>>
    <3>1. u = <<Derive(c), Adopt(c)>>
      BY <2>2, TailOfThree
    <3>2. u[1] = Derive(c) /\ 1 \in DOMAIN u
      BY <3>1, TwoIs
    <3>. QED BY <1>0, <3>2, OpIs, SettlingIs, MidwayIs
  <2>3. ASSUME NEW i, t = <<Settle(Active, accounts[i].id)>>
        PROVE  u = <<>> /\ t[1].settles
    <3>1. u = <<>>
      BY <2>3, TailOfOne
    <3>2. t[1] = Settle(Active, accounts[i].id)
      BY <2>3
    <3>. QED BY <3>1, <3>2 DEF Settle
  <2>4. t # <<Derive(c), Adopt(c)>>
    <3>1. <<Derive(c), Adopt(c)>>[1] = Derive(c)
      OBVIOUS
    <3>. QED BY <3>1, OpIs
  <2>5. ~Deriving(c, t)
    BY NotDerived
  <2>. QED BY <1>2, <2>1, <2>2, <2>3, <2>4, <2>5 DEF Moving
<1>. QED BY <1>1, <1>2 DEF Undisturbed

LEMMA SetPlace ==
  ASSUME MoveOK, NEW h \in setting.handles, setting' = setting, DoSet(h),
         NEW t, t = todo[h], NEW u, u = todo'[h], Undisturbed(t),
         PlaceOK(t), Other(u)
  PROVE  Placed(u)'
<1>. PICK o : o = Head(t)
  OBVIOUS
<1>0. StoreOK /\ ListsOK
  BY DEF MoveOK
<1>1. IsAfter(u, <<>>, t) /\ h \in Handle /\ ~Idle(h)
  BY <1>0, SetStep DEF Stepped
<1>2. /\ UNCHANGED accounts /\ o.op = "set" /\ DOMAIN config = ConfigKey
      /\ config' = [config EXCEPT ![o.key] = o.value]
  BY <1>0, SetMakes
<1>3. IsList(t) /\ t # <<>> /\ o = t[1] /\ 1 \in DOMAIN t
  BY <1>0, <1>1, HeadIs
<1>4. Active # Selected /\ \A c : Active # ActiveOnKey(c) /\ Active # SelectedOnKey(c)
      /\ Selected # ActiveOnKey(c) /\ Selected # SelectedOnKey(c)
  BY KeysDiffer
<1>5. Active \in ConfigKey /\ Selected \in ConfigKey
  BY KeysAre
<1>6. CASE ~Other(t)
  <2>1. u = <<>> /\ o.settles
    BY <1>1, <1>2, <1>3, <1>6, SetMidway DEF Midway
  <2>2. InPlace'
    BY <1>0, <2>1, SetUndisturbed
  <2>. QED BY <2>1, <2>2, NoOps DEF Placed, Settled, Steadily
<1>7. CASE Other(t)
  <2>. PICK a : a = accounts[1]
    OBVIOUS
  <2>0. \A k, v : Set(k, v).key = k /\ Set(k, v).value = v
    BY DEF Set
  <2>1. /\ ~Steadily(t, 0)
        /\ o # First(a) /\ \A c, s : o # Follow(c, s)
    <3>1. ~Steady(o)
      BY <1>2 DEF Steady, Creating
    <3>2. First(a).op = "first" /\ \A c, s : Follow(c, s).op = "follow"
      BY DEF First, Follow
    <3>. QED BY <1>2, <1>3, <3>1, <3>2 DEF Steadily
  <2>2. ASSUME Steadily(t, 3), t[1] = Set(Active, a.id),
               t[2] = Set(ActiveOnKey(a.chain), a.id), t[3] = Follow(a.chain, FALSE)
        PROVE  Opening(a, u)'
    <3>1. Steadily(u, 2) /\ u[1] = t[2] /\ u[2] = t[3]
      <4>1. Steadily(u, 3 - 1) /\ \A k \in 1 .. 3 - 1 : u[k] = t[k + 1]
        BY <1>1, <1>3, <2>2, SteadyTail
      <4>. QED BY <4>1
    <3>2. config'[Active] = a.id
      BY <1>2, <1>3, <1>5, <2>0, <2>2
    <3>. QED BY <2>2, <3>1, <3>2 DEF Opening, Steadily, Steady, Creating, Set, Follow, Active,
                                    ActiveOnKey
  <2>3. ASSUME config[Active] = a.id, Steadily(t, 2),
               t[1] = Set(ActiveOnKey(a.chain), a.id), t[2] = Follow(a.chain, FALSE)
        PROVE  Opening(a, u)'
    <3>1. Steadily(u, 1) /\ u[1] = t[2]
      <4>1. Steadily(u, 2 - 1) /\ \A k \in 1 .. 2 - 1 : u[k] = t[k + 1]
        BY <1>1, <1>3, <2>3, SteadyTail
      <4>. QED BY <4>1
    <3>2. config'[Active] = a.id
      BY <1>2, <1>3, <1>4, <1>5, <2>0, <2>3
    <3>. QED BY <2>3, <3>1, <3>2 DEF Opening, Steadily, Steady, Creating, Follow, Active
  <2>4. ASSUME config[Active] = a.id, Len(accounts) = 1,
               NEW n \in Network, ChainOfNetwork[n] = a.chain, Steadily(t, 2),
               t[1] = Set(Selected, n), t[2] = Set(SelectedOnKey(a.chain), n)
        PROVE  Closing(u)'
    <3>1. Steadily(u, 1) /\ u[1] = t[2]
      <4>1. Steadily(u, 2 - 1) /\ \A k \in 1 .. 2 - 1 : u[k] = t[k + 1]
        BY <1>1, <1>3, <2>4, SteadyTail
      <4>. QED BY <4>1
    <3>2. config'[Active] = a.id /\ config'[Selected] = n
      BY <1>2, <1>3, <1>4, <1>5, <2>0, <2>4
    <3>3. 1 \in DOMAIN accounts
      <4>1. IsList(accounts)
        BY <1>0 DEF StoreOK
      <4>2. DOMAIN accounts = 1 .. 1
        BY <2>4, <4>1, ListIs
      <4>. QED BY <4>2
    <3>4. InPlace'
      BY <1>2, <2>4, <3>2, <3>3, PositionIs
    <3>5. a.chain \in Chain
      BY <1>0, <3>3 DEF StoreOK
    <3>. QED BY <2>4, <3>1, <3>4, <3>5 DEF Closing, Settled, Steadily, Steady, Creating, Set,
                                          SelectedOnKey
  <2>5. ASSUME Settled, Steadily(t, 1), NEW c \in Chain, NEW n \in Network,
               t[1] = Set(SelectedOnKey(c), n)
        PROVE  Settled' /\ Steadily(u, 0)
    <3>1. Steadily(u, 1 - 1)
      BY <1>1, <1>3, <2>5, SteadyTail
    <3>2. config'[Active] = config[Active] /\ config'[Selected] = config[Selected]
      BY <1>2, <1>3, <1>4, <1>5, <2>0, <2>5
    <3>3. Settled'
      BY <1>2, <2>5, <3>2 DEF Settled, InPlace, Active, Selected
    <3>. QED BY <3>1, <3>3
  <2>6. ASSUME Len(accounts) = 1, Opening(a, t) PROVE Opening(a, u)' \/ Closing(u)'
    BY <1>3, <2>1, <2>2, <2>3, <2>4, <2>6 DEF Opening
  <2>7. ASSUME Closing(t) PROVE Settled' /\ Steadily(u, 0)
    <3>1. t[1].op # "first"
      BY <1>2, <1>3
    <3>. QED BY <2>5, <2>7, <3>1 DEF Closing
  <2>8. (Len(accounts) = 1 /\ Opening(a, t)) \/ Closing(t)
    BY <1>7, <2>1 DEF PlaceOK, Placed
  <2>9. CASE Closing(t)
    BY <2>7, <2>9 DEF Placed, Steadily, Steady, Creating
  <2>10. CASE Len(accounts) = 1 /\ Opening(a, t)
    <3>1. Len(accounts') = 1 /\ accounts'[1] = a
      BY <1>2, <2>10
    <3>. QED BY <2>6, <2>10, <3>1 DEF Placed
  <2>. QED BY <2>8, <2>9, <2>10
<1>. QED BY <1>6, <1>7

LEMMA SetParts ==
  ASSUME MoveOK, NEW h \in setting.handles, setting' = setting, alone[h], Parts(todo[h]),
         DoSet(h)
  PROVE  Parts(todo[h])'
<1>. PICK t, u, o : t = todo[h] /\ u = todo'[h] /\ o = Head(todo[h])
  OBVIOUS
<1>0. StoreOK /\ ListsOK
  BY DEF MoveOK
<1>1. IsAfter(u, <<>>, t) /\ h \in Handle /\ ~Idle(h)
  BY <1>0, SetStep DEF Stepped
<1>2. UNCHANGED accounts /\ o.op = "set"
  BY <1>0, SetMakes
<1>3. IsList(t) /\ t # <<>> /\ o = t[1] /\ 1 \in DOMAIN t /\ IsList(u)
  BY <1>0, <1>1, HeadIs DEF IsAfter
<1>4. Undisturbed(t)
  BY <1>1 DEF MoveOK
<1>5. PlainOK(u)
  BY <1>1, NoOps, PlainAfter DEF Parts
<1>6. TwinsOK(u)
  <2>1. \A k \in DOMAIN <<>> : ~Unnamed(<<>>[k])
    BY NoOps
  <2>. QED BY <1>1, <1>2, <1>3, <2>1, NoOps, TwinsPlainly DEF Parts
<1>7. FacesOK(u)
  <2>1. CASE Other(t)
    <3>1. \A k \in DOMAIN <<>> : ~Settling(<<>>[k])
      BY NoOps
    <3>2. Other(u)
      BY <1>1, <1>3, <2>1, <3>1, OtherStays
    <3>. QED BY <1>3, <3>2, OtherFaces
  <2>2. CASE ~Other(t)
    <3>1. u = <<>> \/ Midway(u)
      BY <1>1, <1>2, <1>3, <1>4, <2>2, SetMidway
    <3>2. u = <<>> => \A c : ~Deriving(c, u)
      BY DEF Deriving
    <3>. QED BY <3>1, <3>2 DEF Midway, FacesOK
  <2>. QED BY <2>1, <2>2
<1>8. ASSUME "import_key" \notin setting.commands PROVE PlaceOK(u)'
  <2>1. PlaceOK(t)
    BY <1>8 DEF Parts
  <2>2. AllPhrases'
    BY <1>2, <2>1 DEF PlaceOK, AllPhrases
  <2>3. \A k \in DOMAIN u : OpPhrase(u[k])
    BY <1>1, <2>1, NoOps DEF PlaceOK, IsAfter
  <2>4. Other(u) => Placed(u)'
    BY <1>4, <2>1, SetPlace
  <2>. QED BY <2>2, <2>3, <2>4 DEF PlaceOK, OpPhrase, Creating, Other, Settling
<1>9. PlainOK(u)' /\ TwinsOK(u)' /\ FacesOK(u)'
  BY <1>2, <1>5, <1>6, <1>7, SameAccounts
<1>. QED BY <1>8, <1>9 DEF Parts

LEMMA MidwayParts ==
  ASSUME NEW t, IsList(t), t # <<>>, Parts(t), t[1].op \notin {"create", "append"},
         NEW ops, IsList(ops), \A k \in DOMAIN ops : ops[k].op \in {"set", "follow"},
         NEW u, IsAfter(u, ops, t), Midway(u)
  PROVE  Parts(u)
<1>1. \A k \in DOMAIN ops : OpPlain(ops[k]) /\ ~Unnamed(ops[k]) /\ OpPhrase(ops[k])
  BY DEF OpPlain, Unnamed, OpPhrase, Creating
<1>2. PlainOK(u)
  BY <1>1, PlainAfter DEF Parts
<1>3. TwinsOK(u)
  BY <1>1, TwinsPlainly DEF Parts
<1>4. "import_key" \notin setting.commands => PlaceOK(u)
  BY <1>1 DEF Parts, PlaceOK, IsAfter, Midway
<1>. QED BY <1>2, <1>3, <1>4 DEF Parts, FacesOK, Midway

LEMMA FollowParts ==
  ASSUME MoveOK, NEW h \in setting.handles, setting' = setting, alone[h], Parts(todo[h]),
         DoFollow(h)
  PROVE  Parts(todo[h])'
<1>. PICK t, u, o : t = todo[h] /\ u = todo'[h] /\ o = Head(todo[h])
  OBVIOUS
<1>0. StoreOK /\ ListsOK
  BY DEF MoveOK
<1>1. Stepped(h) /\ UNCHANGED <<accounts, config>>
  BY <1>0, FollowStep
<1>2. PICK n, y :
        /\ n \in Network /\ ChainOfNetwork[n] = o.chain
        /\ y = [op |-> "set", value |-> n, key |-> SelectedOnKey(o.chain),
                settles |-> o.settles]
        /\ IsAfter(u, <<Set(Selected, n), y>>, t)
  BY <1>0, FollowStep
<1>3. IsList(t) /\ t # <<>> /\ o = t[1] /\ 1 \in DOMAIN t /\ h \in Handle
  BY <1>0, <1>1, HeadIs DEF Stepped
<1>4. o.op = "follow"
  BY DEF DoFollow, Doing
<1>5. Undisturbed(t)
  BY <1>3 DEF MoveOK
<1>6. PICK x, ops : x = Set(Selected, n) /\ ops = <<x, y>>
  OBVIOUS
<1>7. /\ IsAfter(u, ops, t) /\ IsList(ops) /\ Len(ops) = 2 /\ DOMAIN ops = {1, 2}
      /\ ops[1] = x /\ ops[2] = y /\ IsList(u)
  <2>1. ops = <<x, y>> /\ IsAfter(u, <<x, y>>, t)
    BY <1>2, <1>6
  <2>. QED BY <2>1, TwoIs DEF IsAfter
<1>8. x.op = "set" /\ y.op = "set" /\ ~Settling(x) /\ (Settling(y) <=> o.settles)
  BY <1>2, <1>6 DEF Set, Settling
<1>9. CASE Other(t)
  <2>1. ~o.settles
    BY <1>3, <1>4, <1>9 DEF Other, Settling
  <2>2. \A k \in DOMAIN ops : Harmless(ops[k])
    <3>1. Harmless(x) /\ Harmless(y)
      BY <1>8, <2>1 DEF Harmless, Creating
    <3>. QED BY <1>7, <3>1
  <2>3. ASSUME "import_key" \notin setting.commands PROVE Placed(u)
    <3>. PICK a : a = accounts[1]
      OBVIOUS
    <3>1. First(a).op = "first" /\ \A k, v : Set(k, v).op = "set"
      BY DEF First, Set
    <3>2. /\ t[1] # First(a) /\ (\A k, v : t[1] # Set(k, v)) /\ t[1].op # "first"
          /\ ~Steadily(t, 0)
      BY <1>3, <1>4, <3>1 DEF Steadily, Steady, Creating
    <3>3. Placed(t)
      BY <1>9, <2>3 DEF Parts, PlaceOK
    <3>4. /\ Len(accounts) = 1 /\ config[Active] = a.id /\ Steadily(t, 1)
          /\ t[1] = Follow(a.chain, FALSE)
      BY <3>2, <3>3 DEF Placed, Opening, Closing
    <3>5. y = Set(SelectedOnKey(a.chain), n) /\ ChainOfNetwork[n] = a.chain
      <4>1. o.chain = a.chain /\ o.settles = FALSE
        BY <1>3, <3>4 DEF Follow
      <4>. QED BY <1>2, <4>1 DEF Set
    <3>6. Steadily(u, 2) /\ u[1] = x /\ u[2] = y
      <4>1. Led(u, ops)
        BY <1>3, <1>7, <3>4, SteadyRest
      <4>. QED BY <1>7, <4>1 DEF Led
    <3>7. Opening(a, u)
      BY <1>2, <1>6, <3>4, <3>5, <3>6 DEF Opening
    <3>. QED BY <3>4, <3>7 DEF Placed
  <2>4. Parts(u)
    BY <1>3, <1>4, <1>7, <1>9, <2>2, <2>3, PartsPlainly
  <2>. QED BY <1>1, <2>4, SameParts
<1>10. CASE ~Other(t)
  <2>1. PICK i \in DOMAIN accounts : t = <<Follow(accounts[i].chain, TRUE)>>
    BY <1>3, <1>4, <1>5, <1>10, FollowLeft
  <2>2. o.settles
    BY <1>3, <2>1 DEF Follow
  <2>3. 2 \in DOMAIN u /\ u[1] = x /\ u[2] = y
    <3>1. Len(t) = 1
      BY <2>1, OneIs
    <3>2. Len(u) = 2 /\ u[1] = x /\ u[2] = y
      BY <1>7, <3>1 DEF IsAfter
    <3>. QED BY <1>7, <3>2, ListIs
  <2>4. Midway(u)
    BY <1>7, <1>8, <2>2, <2>3, MidwayIs
  <2>5. \A k \in DOMAIN ops : ops[k].op \in {"set", "follow"}
    BY <1>7, <1>8
  <2>6. Parts(u)
    BY <1>3, <1>4, <1>7, <2>4, <2>5, MidwayParts
  <2>. QED BY <1>1, <2>6, SameParts
<1>. QED BY <1>9, <1>10

LEMMA CoveredMissing ==
  ASSUME StoreOK, AccountsPlain, NEW c \in Chain, NEW f \in InTurn(Owed(c)),
         NEW u, Len(u) = Len(Faces(c, f)) + 1,
         \A k \in DOMAIN Faces(c, f) : u[k] = Faces(c, f)[k]
  PROVE  Covered(c, u)
<1>. SUFFICES ASSUME NEW i \in DOMAIN accounts, accounts[i].source \in Phrase,
                     \A j \in DOMAIN accounts :
                       ~(accounts[j].chain = c /\ SameWallet(accounts[i], accounts[j]))
              PROVE  \E k \in 1 .. Len(u) - 1 : SameWallet(accounts[i], u[k])
  BY DEF Covered
<1>1. Derivable(c, i)
  BY DEF Derivable, AccountsPlain, Range, SameWallet
<1>. DEFINE S == {j \in DOMAIN accounts :
                    Derivable(c, j) /\ SameWallet(accounts[i], accounts[j])}
<1>2. DOMAIN accounts \subseteq Nat \ {0}
  <2>1. DOMAIN accounts = 1 .. Len(accounts) /\ Len(accounts) \in Nat
    BY ListIs DEF StoreOK
  <2>. QED BY <2>1
<1>3. S \in SUBSET Nat /\ i \in S
  BY <1>1, <1>2 DEF SameWallet
<1>. PICK m : m = Min(S)
  OBVIOUS
<1>4. m \in S /\ \A j \in S : m <= j
  <2>. HIDE DEF S
  <2>. QED BY <1>3, LeastIs
<1>5. m \in Owed(c)
  <2>. SUFFICES ASSUME NEW j \in 1 .. m - 1, Derivable(c, j),
                       SameWallet(accounts[m], accounts[j])
                PROVE  FALSE
    BY <1>4 DEF Owed
  <2>1. m \in DOMAIN accounts /\ m \in Nat /\ SameWallet(accounts[i], accounts[m])
    BY <1>2, <1>4
  <2>2. j \in DOMAIN accounts
    <3>1. DOMAIN accounts = 1 .. Len(accounts) /\ Len(accounts) \in Nat
      BY ListIs DEF StoreOK
    <3>. HIDE DEF S
    <3>. QED BY <2>1, <3>1
  <2>3. j \in S
    BY <2>1, <2>2 DEF SameWallet
  <2>4. m <= j
    BY <1>4, <2>3
  <2>. HIDE DEF S
  <2>. QED BY <2>1, <2>4
<1>6. PICK k \in DOMAIN f : f[k] = m
  BY <1>5, OwedOnce
<1>7. /\ DOMAIN Faces(c, f) = DOMAIN f /\ IsList(Faces(c, f))
      /\ Faces(c, f)[k] = Face(c, accounts[m])
  BY <1>6, FacesAre
<1>8. SameWallet(accounts[i], u[k])
  <2>1. u[k] = Face(c, accounts[m])
    BY <1>6, <1>7
  <2>. QED BY <1>4, <2>1 DEF SameWallet, Face
<1>9. k \in 1 .. Len(u) - 1
  <2>. PICK l : l = Len(Faces(c, f))
    OBVIOUS
  <2>1. l \in Nat /\ k \in 1 .. l
    BY <1>6, <1>7, ListIs
  <2>2. Len(u) - 1 = l
    BY <2>1
  <2>. QED BY <2>1, <2>2
<1>. QED BY <1>8, <1>9

LEMMA MissingParts ==
  ASSUME MoveOK, NEW h \in setting.handles, setting' = setting, alone[h], Parts(todo[h]),
         DoMissing(h)
  PROVE  Parts(todo[h])'
<1>. PICK t, u, o : t = todo[h] /\ u = todo'[h] /\ o = Head(todo[h])
  OBVIOUS
<1>0. StoreOK /\ ListsOK
  BY DEF MoveOK
<1>1. Stepped(h) /\ UNCHANGED <<accounts, config>> /\ o.chain \in Chain
  BY <1>0, MissingStep
<1>2. PICK f \in InTurn(Owed(o.chain)) : IsAfter(u, Faces(o.chain, f), t)
  BY <1>0, MissingStep
<1>3. IsList(t) /\ t # <<>> /\ o = t[1] /\ 1 \in DOMAIN t /\ h \in Handle
  BY <1>0, <1>1, HeadIs DEF Stepped
<1>4. o.op = "missing"
  BY DEF DoMissing, Doing
<1>5. PICK n \in Network : t = <<Derive(ChainOfNetwork[n]), Adopt(ChainOfNetwork[n])>>
  <2>1. Undisturbed(t)
    BY <1>3 DEF MoveOK
  <2>. QED BY <1>3, <1>4, <2>1, MissingLeft
<1>. PICK c : c = o.chain
  OBVIOUS
<1>6. t = <<Derive(c), Adopt(c)>> /\ Len(t) = 2 /\ t[2] = Adopt(c)
  <2>1. o = Derive(ChainOfNetwork[n])
    BY <1>3, <1>5
  <2>2. c = ChainOfNetwork[n]
    BY <2>1 DEF Derive
  <2>3. t = <<Derive(c), Adopt(c)>>
    BY <1>5, <2>2
  <2>. QED BY <2>3, TwoIs
<1>. PICK ops : ops = Faces(c, f)
  OBVIOUS
<1>7. AccountsPlain
  BY DEF Parts, PlainOK
<1>8. /\ IsList(ops)
      /\ \A k \in DOMAIN ops : /\ Making(ops[k]) /\ ops[k].chain = c
                              /\ OpPlain(ops[k]) /\ OpPhrase(ops[k])
  <2>1. /\ IsList(ops) /\ DOMAIN ops = DOMAIN f
        /\ \A k \in DOMAIN ops : f[k] \in Owed(c) /\ ops[k] = Face(c, accounts[f[k]])
    BY <1>0, <1>1, FacesAre
  <2>2. ASSUME NEW i \in Owed(c)
        PROVE  /\ Making(Face(c, accounts[i])) /\ Face(c, accounts[i]).chain = c
               /\ OpPlain(Face(c, accounts[i])) /\ OpPhrase(Face(c, accounts[i]))
    <3>1. i \in DOMAIN accounts /\ Derivable(c, i)
      BY <2>2 DEF Owed
    <3>2. accounts[i].source \in Phrase /\ accounts[i].index \in Nat
      BY <1>7, <3>1 DEF Derivable, AccountsPlain
    <3>. QED BY <3>2 DEF Making, Face, OpPlain, OpPhrase, Creating
  <2>. QED BY <2>1, <2>2
<1>9. IsAfter(u, ops, t) /\ Len(t) >= 2 /\ t[Len(t)] = Adopt(c) /\ 2 .. Len(t) - 1 = {}
  BY <1>2, <1>6
<1>10. Deriving(c, u) /\ IsList(u) /\ Len(u) = Len(ops) + Len(t) - 1
  <2>1. /\ IsList(t) /\ Len(t) >= 2 /\ t[Len(t)] = Adopt(c)
        /\ \A k \in 2 .. Len(t) - 1 : Making(t[k]) /\ t[k].chain = c
        /\ IsList(ops) /\ \A k \in DOMAIN ops : Making(ops[k]) /\ ops[k].chain = c
        /\ IsAfter(u, ops, t)
    BY <1>3, <1>8, <1>9
  <2>2. Deriving(c, u)
    BY <2>1, DerivingStays
  <2>. QED BY <1>9, <2>2 DEF IsAfter
<1>11. PlainOK(u)
  BY <1>8, <1>9, PlainAfter DEF Parts
<1>12. TwinsOK(u)
  BY <1>0, <1>1, <1>2, <1>3, <1>4, TwinsMissing DEF Parts
<1>13. FacesOK(u)
  <2>1. Len(u) = Len(Faces(c, f)) + 1 /\ \A k \in DOMAIN Faces(c, f) : u[k] = Faces(c, f)[k]
    <3>1. Len(ops) \in Nat /\ Len(u) = Len(ops) + 2 - 1
      BY <1>6, <1>8, <1>10, ListIs
    <3>2. Len(u) = Len(ops) + 1
      <4>1. \A m \in Nat : m + 2 - 1 = m + 1
        OBVIOUS
      <4>. QED BY <3>1, <4>1
    <3>. QED BY <1>9, <3>2 DEF IsAfter
  <2>2. Covered(c, u)
    BY <1>0, <1>1, <1>7, <2>1, CoveredMissing
  <2>3. \A d : Deriving(d, u) => d = c
    BY <1>10, DerivingOnce
  <2>. QED BY <2>2, <2>3 DEF FacesOK
<1>14. ~Other(u)
  BY <1>10, OtherFaces
<1>15. "import_key" \notin setting.commands => PlaceOK(u)
  BY <1>8, <1>9, <1>14 DEF Parts, PlaceOK, IsAfter
<1>16. Parts(u)
  BY <1>11, <1>12, <1>13, <1>15 DEF Parts
<1>. QED BY <1>1, <1>16, SameParts

LEMMA AdoptParts ==
  ASSUME MoveOK, NEW h \in setting.handles, setting' = setting, alone[h], Parts(todo[h]),
         DoAdopt(h)
  PROVE  Parts(todo[h])'
<1>. PICK t, u, o : t = todo[h] /\ u = todo'[h] /\ o = Head(todo[h])
  OBVIOUS
<1>0. StoreOK /\ ListsOK
  BY DEF MoveOK
<1>1. Stepped(h) /\ UNCHANGED <<accounts, config>>
  BY <1>0, AdoptStep
<1>2. \/ AccountsOn(o.chain) = {} /\ IsAfter(u, <<>>, t)
      \/ \E i \in DOMAIN accounts : IsAfter(u, <<Settle(Active, accounts[i].id)>>, t)
  BY <1>0, AdoptStep
<1>3. IsList(t) /\ t # <<>> /\ o = t[1] /\ 1 \in DOMAIN t /\ h \in Handle
  BY <1>0, <1>1, HeadIs DEF Stepped
<1>4. o.op = "adopt" /\ o.chain \in Chain
  <2>1. o.op = "adopt"
    BY DEF DoAdopt, Doing
  <2>. QED BY <1>0, <1>1, <2>1, HeadIs DEF Stepped, OpOK
<1>. PICK c : c = o.chain
  OBVIOUS
<1>5. t = <<Adopt(c)>> /\ Len(t) = 1
  <2>1. Undisturbed(t)
    BY <1>3 DEF MoveOK
  <2>2. PICK n \in Network : t = <<Adopt(ChainOfNetwork[n])>>
    BY <1>3, <1>4, <2>1, AdoptLeft
  <2>3. o = Adopt(ChainOfNetwork[n])
    BY <1>3, <2>2
  <2>4. c = ChainOfNetwork[n]
    BY <2>3 DEF Adopt
  <2>5. t = <<Adopt(c)>>
    BY <2>2, <2>4
  <2>. QED BY <2>5, OneIs
<1>6. Covered(c, t)
  <2>1. t[Len(t)] = Adopt(c) /\ 1 .. Len(t) - 1 = {}
    BY <1>5
  <2>2. Deriving(c, t)
    BY <1>3, <2>1 DEF Deriving
  <2>. QED BY <1>4, <2>2 DEF Parts, FacesOK
<1>7. ASSUME AccountsOn(c) = {}, IsAfter(u, <<>>, t) PROVE Parts(u)
  <2>1. u = <<>>
    BY <1>5, <1>7, TailOfOne
  <2>2. ASSUME "import_key" \notin setting.commands PROVE accounts = <<>>
    <3>1. AllPhrases
      BY <2>2 DEF Parts, PlaceOK
    <3>2. 1 .. Len(t) - 1 = {}
      BY <1>5
    <3>3. DOMAIN accounts = {}
      BY <1>6, <1>7, <3>1, <3>2 DEF Covered, AllPhrases, AccountsOn
    <3>4. DOMAIN accounts = 1 .. Len(accounts) /\ Len(accounts) \in Nat
          /\ (accounts = <<>> <=> Len(accounts) = 0)
      BY <1>0, ListIs DEF StoreOK
    <3>5. \A m \in Nat : 1 .. m = {} => m = 0
      <4>1. \A m \in Nat : m # 0 => 1 \in 1 .. m
        OBVIOUS
      <4>. QED BY <4>1
    <3>. QED BY <3>3, <3>4, <3>5
  <2>. QED BY <2>1, <2>2, PartsNothing DEF Settled
<1>8. ASSUME NEW x, x.op = "set", Settling(x), IsAfter(u, <<x>>, t) PROVE Parts(u)
  <2>1. u[1] = x /\ 1 \in DOMAIN u /\ IsList(u)
    <3>1. u = <<x>>
      BY <1>5, <1>8, InPlaceOfOne
    <3>. QED BY <3>1, OneIs
  <2>2. Midway(u)
    BY <1>8, <2>1, MidwayIs
  <2>3. IsList(<<x>>) /\ \A k \in DOMAIN <<x>> : <<x>>[k].op \in {"set", "follow"}
    BY <1>8, OneIs
  <2>. QED BY <1>3, <1>4, <1>8, <2>2, <2>3, MidwayParts
<1>9. Parts(u)
  <2>1. \A i : Settling(Settle(Active, accounts[i].id)) /\ Settle(Active, accounts[i].id).op = "set"
    BY OpIs, SettlingIs
  <2>. QED BY <1>2, <1>7, <1>8, <2>1
<1>. QED BY <1>1, <1>9, SameParts

(* The commands an orderly home starts, from rest.                         *)
LEMMA AtRest ==
  ASSUME Parts(<<>>)
  PROVE  /\ AccountsPlain /\ AddressesOnce
         /\ "import_key" \notin setting.commands => AllPhrases /\ Settled
<1>1. DOMAIN <<>> = {} /\ Len(<<>>) = 0
  BY NoOps
<1>2. ASSUME "import_key" \notin setting.commands PROVE AllPhrases /\ Settled
  <2>1. AllPhrases /\ Placed(<<>>)
    BY <1>1, <1>2 DEF Parts, PlaceOK, Other
  <2>2. \A m \in {1, 2, 3} : ~Steadily(<<>>, m)
    BY <1>1 DEF Steadily
  <2>. QED BY <2>1, <2>2 DEF Placed, Opening, Closing
<1>. QED BY <1>2 DEF Parts, PlainOK, TwinsOK

LEMMA StartsSteadily ==
  ASSUME Parts(<<>>), NEW t, IsList(t),
         \A k \in DOMAIN t : Steady(t[k]) /\ OpPlain(t[k]) /\ ~Unnamed(t[k]),
         "import_key" \notin setting.commands => \A k \in DOMAIN t : OpPhrase(t[k])
  PROVE  Parts(t)
<1>1. Other(t)
  BY DEF Other, Steady, Settling, Creating
<1>2. Steadily(t, 0)
  BY ListIs DEF Steadily
<1>3. FacesOK(t)
  BY <1>1, OtherFaces
<1>4. PlainOK(t) /\ TwinsOK(t)
  BY AtRest DEF PlainOK, TwinsOK
<1>5. "import_key" \notin setting.commands => PlaceOK(t)
  BY <1>2, AtRest DEF PlaceOK, Placed
<1>. QED BY <1>3, <1>4, <1>5 DEF Parts

LEMMA StartsMidway ==
  ASSUME Parts(<<>>), NEW t, Midway(t),
         \A k \in DOMAIN t : t[k].op \in {"set", "follow", "missing", "adopt"}
  PROVE  Parts(t)
<1>1. \A k \in DOMAIN t : OpPlain(t[k]) /\ ~Unnamed(t[k]) /\ OpPhrase(t[k])
  BY DEF OpPlain, Unnamed, OpPhrase, Creating
<1>2. PlainOK(t) /\ TwinsOK(t)
  BY <1>1, AtRest DEF PlainOK, TwinsOK
<1>3. FacesOK(t)
  BY DEF FacesOK, Midway
<1>4. "import_key" \notin setting.commands => PlaceOK(t)
  BY <1>1, AtRest DEF PlaceOK, Midway
<1>. QED BY <1>2, <1>3, <1>4 DEF Parts

LEMMA StartsCreating ==
  ASSUME Parts(<<>>), NEW chains \in Seq(Chain), NEW source, NEW index, NEW next \in BOOLEAN,
         NEW label, next = FALSE /\ source \in Phrase => index \in Nat,
         "import_key" \notin setting.commands => source \in Phrase
  PROVE  Parts(CreateWallet(chains, source, TRUE, index, next, label))
<1>0. PICK plain, ix, nx : plain = TRUE /\ ix = index /\ nx = next
  OBVIOUS
<1>. PICK t : t = CreateWallet(chains, source, plain, ix, nx, label)
  OBVIOUS
<1>1. /\ IsList(t) /\ \A k \in DOMAIN t : OpOK(t[k])
      /\ Len(t) = Len(chains) + 1 /\ t[Len(t)] = [op |-> "remember", source |-> source]
      /\ \A k \in 1 .. Len(chains) :
           \E l : t[k] = Create(chains[k], source, plain, ix, nx, l)
  BY CreateOps
<1>2. ASSUME NEW c, NEW l, NEW o, o = Create(c, source, plain, ix, nx, l)
      PROVE  /\ Steady(o) /\ OpPlain(o) /\ ~Unnamed(o)
             /\ "import_key" \notin setting.commands => OpPhrase(o)
  BY <1>0, <1>2 DEF Create, Steady, OpPlain, Unnamed, OpPhrase, Creating
<1>3. ASSUME NEW o, o = [op |-> "remember", source |-> source]
      PROVE  Steady(o) /\ OpPlain(o) /\ ~Unnamed(o) /\ OpPhrase(o)
  BY <1>3 DEF Steady, OpPlain, Unnamed, OpPhrase, Creating
<1>4. ASSUME NEW k \in DOMAIN t
      PROVE  /\ Steady(t[k]) /\ OpPlain(t[k]) /\ ~Unnamed(t[k])
             /\ "import_key" \notin setting.commands => OpPhrase(t[k])
  <2>1. k \in 1 .. Len(chains) \/ k = Len(t)
    <3>1. k \in 1 .. Len(t) /\ Len(chains) \in Nat /\ Len(t) = Len(chains) + 1
      BY <1>1, ListIs
    <3>2. \A n \in Nat : \A m, j : m = n + 1 /\ j \in 1 .. m => j \in 1 .. n \/ j = m
      OBVIOUS
    <3>. QED BY <3>1, <3>2
  <2>. QED BY <1>1, <1>2, <1>3, <2>1
<1>5. Parts(t)
  BY <1>1, <1>4, StartsSteadily
<1>. QED BY <1>0, <1>5

LEMMA SeedIs ==
  ASSUME StoreOK
  PROVE  CurrentSeed \in Phrase \cup {Unset}
<1>. DEFINE S == {i \in DOMAIN accounts : accounts[i].source \in Phrase}
<1>1. S \in SUBSET Nat
  <2>1. DOMAIN accounts = 1 .. Len(accounts) /\ Len(accounts) \in Nat
    BY ListIs DEF StoreOK
  <2>. QED BY <2>1
<1>2. S # {} => Min(S) \in S
  <2>. HIDE DEF S
  <2>. QED BY <1>1, LeastIs
<1>3. S # {} => accounts[Min(S)].source \in Phrase
  BY <1>2
<1>. QED BY <1>3 DEF CurrentSeed

LEMMA StartParts ==
  ASSUME MoveOK, NEW h \in setting.handles, setting.handles = {h}, setting' = setting,
         NEW kind, NEW ops, Start(h, kind, ops), Parts(ops)
  PROVE  alone'[h] /\ Parts(todo[h])'
<1>1. h \in Handle /\ Rest /\ \A g \in Handle \ {h} : Idle(g)
  BY WalletConstants DEF MoveOK, ListsOK
<1>2. /\ UNCHANGED <<accounts, config>> /\ todo' = [todo EXCEPT ![h] = ops]
      /\ alone' = [g \in Handle |-> g = h /\ \A f \in Handle \ {h} : Idle(f)]
  BY DEF Start
<1>3. todo'[h] = ops /\ alone'[h]
  BY <1>1, <1>2 DEF Rest
<1>4. Parts(ops)'
  BY <1>2, SameParts
<1>. QED BY <1>3, <1>4

LEMMA StartsOrderly ==
  ASSUME MoveOK, Orderly, NEW h \in setting.handles, setting.handles = {h},
         setting' = setting, Parts(todo[h]),
         \/ AccountNew(h) \/ AccountImportMnemonic(h) \/ AccountImportKey(h)
         \/ AccountDerive(h) \/ AccountUse(h) \/ AccountRename(h)
         \/ AccountRemove(h) \/ NetworkUse(h)
  PROVE  alone'[h] /\ Parts(todo[h])'
<1>0. /\ StoreOK /\ setting.index \subseteq Nat
      /\ "remove" \notin setting.commands /\ "--passphrase" \notin setting.commands
  BY WalletConstants DEF MoveOK, ListsOK, Orderly
<1>1. \A kind, ops : Start(h, kind, ops) => Idle(h) /\ kind \in setting.commands
  BY DEF Start
<1>2. Parts(<<>>)
  BY <1>1 DEF Idle, AccountNew, AccountImportMnemonic, AccountImportKey, AccountDerive,
              AccountUse, AccountRename, AccountRemove, NetworkUse
<1>3. CASE AccountNew(h)
  <2>1. PICK p, chains, l, i :
          p \in Phrase /\ chains \in Seq(Chain) /\ i \in setting.index \cup {Unset}
          /\ Start(h, "new", CreateWallet(chains, p, TRUE, i, i = Unset, l))
    <3>1. {q \in Phrase : Fresh(q)} \cup ({CurrentSeed} \ {Unset}) \subseteq Phrase
      BY <1>0, SeedIs
    <3>2. ChainChoice \subseteq Seq(Chain)
      BY ChoicesAre
    <3>. QED BY <1>3, <3>1, <3>2 DEF AccountNew
  <2>2. Parts(CreateWallet(chains, p, TRUE, i, i = Unset, l))
    <3>1. ~(i = Unset) /\ p \in Phrase => i \in Nat
      BY <1>0, <2>1
    <3>2. (i = Unset) \in BOOLEAN
      OBVIOUS
    <3>3. p \in Phrase /\ chains \in Seq(Chain)
      BY <2>1
    <3>. QED BY <1>2, <3>1, <3>2, <3>3, StartsCreating
  <2>. QED BY <2>1, <2>2, StartParts
<1>4. CASE AccountImportMnemonic(h)
  <2>1. PICK p, i, l, plain, chains :
          /\ p \in Phrase /\ i \in setting.index /\ plain \in BOOLEAN
          /\ chains \in Seq(Chain)
          /\ plain \/ "--passphrase" \in setting.commands
          /\ Start(h, "import", CreateWallet(chains, p, plain, i, FALSE, l))
    BY <1>4, ChoicesAre DEF AccountImportMnemonic
  <2>2. plain = TRUE /\ i \in Nat /\ p \in Phrase /\ chains \in Seq(Chain)
    BY <1>0, <2>1
  <2>3. Parts(CreateWallet(chains, p, TRUE, i, FALSE, l))
    BY <1>2, <2>2, StartsCreating
  <2>. QED BY <2>1, <2>2, <2>3, StartParts
<1>5. CASE AccountImportKey(h)
  <2>1. PICK p, chains, l :
          p \in Key /\ chains \in Seq(Chain)
          /\ Start(h, "import_key", CreateWallet(chains, p, TRUE, Unset, FALSE, l))
    BY <1>5, ChoicesAre DEF AccountImportKey
  <2>2. /\ p \notin Phrase /\ "import_key" \in setting.commands
        /\ chains \in Seq(Chain)
    BY <1>1, <2>1, WalletConstants
  <2>3. Parts(CreateWallet(chains, p, TRUE, Unset, FALSE, l))
    BY <1>2, <2>2, StartsCreating
  <2>. QED BY <2>1, <2>3, StartParts
<1>6. CASE AccountDerive(h)
  <2>1. PICK a, i, l, chains :
          a \in Range(accounts) /\ i \in setting.index
          /\ chains \in {<<a.chain>>, ChainList} /\ a.source \in Phrase
          /\ Start(h, "derive", CreateWallet(chains, a.source, TRUE, i, FALSE, l))
    BY <1>6 DEF AccountDerive
  <2>2. chains \in Seq(Chain) /\ i \in Nat
    <3>1. a.chain \in Chain
      BY <1>0, <2>1 DEF StoreOK, Range
    <3>. QED BY <1>0, <2>1, <3>1, ChoicesAre
  <2>3. Parts(CreateWallet(chains, a.source, TRUE, i, FALSE, l))
    BY <1>2, <2>1, <2>2, StartsCreating
  <2>. QED BY <2>1, <2>3, StartParts
<1>7. CASE AccountUse(h)
  <2>1. PICK id, c : c \in Chain /\ Start(h, "use", Activate(id, c, TRUE))
    BY <1>0, <1>7 DEF AccountUse, Range, StoreOK
  <2>2. PICK x, y, z : x = Set(Active, id) /\ y = Set(ActiveOnKey(c), id)
                       /\ z = Follow(c, TRUE)
    OBVIOUS
  <2>. PICK t : t = <<x, y, z>>
    OBVIOUS
  <2>3. x.op = "set" /\ y.op = "set" /\ z.op = "follow" /\ Settling(z)
    BY <2>2, OpIs, SettlingIs
  <2>4. IsList(t) /\ DOMAIN t = {1, 2, 3} /\ t[1] = x /\ t[2] = y /\ t[3] = z
    BY ThreeIs
  <2>5. Midway(t)
    BY <2>3, <2>4, MidwayIs
  <2>6. Parts(t)
    BY <1>2, <2>3, <2>4, <2>5, StartsMidway
  <2>7. Activate(id, c, TRUE) = t
    BY <2>2 DEF Activate, Follow
  <2>. QED BY <2>1, <2>6, <2>7, StartParts
<1>8. CASE AccountRename(h)
  <2>1. PICK a, l : Start(h, "rename", <<[op |-> "rename", id |-> a.id, label |-> l]>>)
    BY <1>8 DEF AccountRename
  <2>. PICK o : o = [op |-> "rename", id |-> a.id, label |-> l]
    OBVIOUS
  <2>2. Steady(o) /\ OpPlain(o) /\ ~Unnamed(o) /\ OpPhrase(o)
    BY DEF Steady, OpPlain, Unnamed, OpPhrase, Creating
  <2>3. /\ IsList(<<o>>)
        /\ \A k \in DOMAIN <<o>> : /\ Steady(<<o>>[k]) /\ OpPlain(<<o>>[k])
                                    /\ ~Unnamed(<<o>>[k]) /\ OpPhrase(<<o>>[k])
    BY <2>2, OneIs
  <2>4. Parts(<<o>>)
    BY <1>2, <2>3, StartsSteadily
  <2>. QED BY <2>1, <2>4, StartParts
<1>9. CASE AccountRemove(h)
  BY <1>0, <1>1, <1>9 DEF AccountRemove
<1>10. CASE NetworkUse(h)
  <2>1. PICK n, c : Start(h, "network", <<Set(Selected, n), Set(SelectedOnKey(c), n),
                                          Derive(c), Adopt(c)>>)
    BY <1>10 DEF NetworkUse, Derive, Adopt
  <2>2. PICK w, x, y, z : w = Set(Selected, n) /\ x = Set(SelectedOnKey(c), n)
                          /\ y = Derive(c) /\ z = Adopt(c)
    OBVIOUS
  <2>. PICK t : t = <<w, x, y, z>>
    OBVIOUS
  <2>3. w.op = "set" /\ x.op = "set" /\ y.op = "missing" /\ z.op = "adopt" /\ Settling(z)
    BY <2>2, OpIs, SettlingIs
  <2>4. IsList(t) /\ DOMAIN t = {1, 2, 3, 4}
        /\ t[1] = w /\ t[2] = x /\ t[3] = y /\ t[4] = z
    BY FourIs
  <2>5. Midway(t)
    BY <2>3, <2>4, MidwayIs
  <2>6. Parts(t)
    BY <1>2, <2>3, <2>4, <2>5, StartsMidway
  <2>7. Start(h, "network", t)
    BY <2>1, <2>2
  <2>. QED BY <2>6, <2>7, StartParts
<1>. QED BY <1>3, <1>4, <1>5, <1>6, <1>7, <1>8, <1>9, <1>10

LEMMA OrderStarts == Init => OrderOK
<1>. SUFFICES ASSUME Init PROVE OrderOK
  OBVIOUS
<1>1. accounts = <<>> /\ \A h \in Handle : todo[h] = <<>>
  BY DEF Init
<1>2. Parts(<<>>)
  <2>1. DOMAIN <<>> = {} /\ Len(<<>>) = 0
    BY NoOps
  <2>. QED BY <1>1, <2>1 DEF Parts, PlainOK, AccountsPlain, TwinsOK, AddressesOnce, FacesOK,
       Deriving, PlaceOK, AllPhrases, Placed, Settled, Steadily
<1>3. setting.handles \subseteq Handle
  BY WalletConstants DEF Init
<1>4. ASSUME Orderly PROVE \E h \in Handle : setting.handles = {h}
  <2>1. Cardinality(setting.handles) = 1
    BY <1>4 DEF Orderly
  <2>2. IsFiniteSet(setting.handles)
    BY <1>3, WalletConstants, FS_Subset
  <2>3. \E x : setting.handles = {x}
    BY <2>1, <2>2, FS_Singleton
  <2>. QED BY <1>3, <2>3
<1>. QED BY <1>1, <1>2, <1>4, MoveStarts DEF OrderOK, Idle

LEMMA OrderSteps ==
  ASSUME MoveOK, Orderly, NEW h \in setting.handles, setting.handles = {h},
         alone[h] \/ Idle(h), Parts(todo[h]), Next
  PROVE  /\ setting' = setting /\ (alone'[h] \/ todo'[h] = <<>>)
         /\ Parts(todo[h])'
<1>1. /\ setting' = setting
      /\ \/ AccountNew(h) \/ AccountImportMnemonic(h) \/ AccountImportKey(h)
         \/ AccountDerive(h) \/ AccountUse(h) \/ AccountRename(h)
         \/ AccountRemove(h) \/ NetworkUse(h)
         \/ DoSet(h) \/ DoFollow(h) \/ DoIndex(h) \/ DoCreate(h) \/ DoAppend(h)
         \/ DoActivateIfFirst(h) \/ DoRemember(h) \/ DoRename(h) \/ DoRelabel(h)
         \/ DoRemove(h) \/ DoRepoint(h) \/ DoFallback(h) \/ DoMissing(h)
         \/ DoAdopt(h) \/ Crash(h)
  BY DEF Next
<1>2. CASE \/ AccountNew(h) \/ AccountImportMnemonic(h) \/ AccountImportKey(h)
           \/ AccountDerive(h) \/ AccountUse(h) \/ AccountRename(h)
           \/ AccountRemove(h) \/ NetworkUse(h)
  BY <1>1, <1>2, StartsOrderly
<1>3. CASE \/ DoSet(h) \/ DoFollow(h) \/ DoIndex(h) \/ DoCreate(h) \/ DoAppend(h)
           \/ DoActivateIfFirst(h) \/ DoRemember(h) \/ DoRename(h) \/ DoRelabel(h)
           \/ DoMissing(h) \/ DoAdopt(h)
  <2>1. ~Idle(h) /\ UNCHANGED alone
    BY <1>3 DEF DoSet, DoFollow, DoIndex, DoCreate, DoAppend, DoActivateIfFirst, DoRemember,
                DoRename, DoRelabel, DoMissing, DoAdopt, Doing
  <2>2. alone[h] /\ alone'[h]
    BY <2>1
  <2>. QED BY <1>1, <1>3, <2>2, SetParts, FollowParts, IndexParts, CreateParts, AppendParts,
              FirstParts, RememberParts, RelabelParts, MissingParts, AdoptParts
<1>4. ~DoRemove(h) /\ ~DoRepoint(h) /\ ~DoFallback(h) /\ ~Crash(h)
  BY NoRemoving DEF Orderly, Crash
<1>. QED BY <1>1, <1>2, <1>3, <1>4

LEMMA OrderKept == OrderOK /\ [Next]_vars => OrderOK'
<1>. SUFFICES ASSUME OrderOK, [Next]_vars PROVE OrderOK'
  OBVIOUS
<1>1. MoveOK /\ MoveOK'
  BY MoveKept DEF OrderOK
<1>2. setting' = setting
  BY DEF Next, vars
<1>3. ASSUME Orderly'
      PROVE  \E h \in Handle :
               setting'.handles = {h} /\ (alone'[h] \/ todo'[h] = <<>>) /\ Parts(todo[h])'
  <2>1. Orderly
    BY <1>2, <1>3 DEF Orderly
  <2>2. PICK h \in Handle :
          setting.handles = {h} /\ (alone[h] \/ Idle(h)) /\ Parts(todo[h])
    BY <2>1 DEF OrderOK
  <2>3. CASE Next
    BY <1>1, <1>2, <2>1, <2>2, <2>3, OrderSteps
  <2>4. CASE UNCHANGED vars
    <3>1. UNCHANGED <<accounts, config, todo, alone>>
      BY <2>4 DEF vars
    <3>. PICK t : t = todo[h]
      OBVIOUS
    <3>2. Parts(t)'
      BY <1>2, <2>2, <3>1, SameParts
    <3>. QED BY <1>2, <2>2, <3>1, <3>2 DEF Idle
  <2>. QED BY <2>3, <2>4
<1>. QED BY <1>1, <1>3 DEF OrderOK, Idle

LEMMA OrderHolds == Spec => []OrderOK
BY OrderStarts, OrderKept, PTL DEF Spec

(* In an orderly wallet an account whose index the user did not name has a *)
(* phrase, index and chain no earlier account has.                         *)
THEOREM NoAddressTwice == Spec => []NoTwins
<1>1. OrderOK => NoTwins
  BY DEF OrderOK, Parts, TwinsOK, AddressesOnce, Twin, NoTwins
<1>. QED BY <1>1, OrderHolds, PTL

(* In an orderly wallet, when network use asks for the account of the      *)
(* chain it moved to, every wallet the phrase alone derives has its        *)
(* account there.                                                          *)
THEOREM FacesAreMade == Spec => []EveryWalletHasItsFace
<1>1. ASSUME OrderOK, Orderly PROVE FacesOfAll
  <2>. SUFFICES ASSUME NEW g \in Handle, Doing(g, "adopt"),
                       NEW a \in Range(accounts), a.source \in Phrase
                PROVE  \E b \in Range(accounts) : /\ b.chain = Head(todo[g]).chain
                                                 /\ SameWallet(a, b) /\ b.plain
    BY DEF FacesOfAll
  <2>1. PICK h \in Handle :
          setting.handles = {h} /\ (alone[h] \/ Idle(h)) /\ Parts(todo[h])
    BY <1>1 DEF OrderOK
  <2>2. MoveOK /\ ListsOK /\ ~Idle(g) /\ Head(todo[g]).op = "adopt"
    BY <1>1 DEF OrderOK, MoveOK, Doing
  <2>3. g = h /\ alone[h]
    BY <2>1, <2>2 DEF ListsOK
  <2>. PICK t : t = todo[h]
    OBVIOUS
  <2>4. IsList(t) /\ t # <<>> /\ Head(t) = t[1] /\ OpOK(Head(t)) /\ t[1].op = "adopt"
    BY <2>1, <2>2, <2>3, HeadIs
  <2>5. Undisturbed(t)
    BY <2>2, <2>3 DEF MoveOK
  <2>6. PICK n \in Network : t = <<Adopt(ChainOfNetwork[n])>>
    BY <2>4, <2>5, AdoptLeft
  <2>. PICK c : c = Head(t).chain
    OBVIOUS
  <2>7. t[1] = Adopt(c) /\ Len(t) = 1 /\ c \in Chain
    <3>1. t[1] = Adopt(ChainOfNetwork[n]) /\ Len(t) = 1
      BY <2>6, OneIs
    <3>2. c = ChainOfNetwork[n]
      BY <2>4, <3>1 DEF Adopt
    <3>. QED BY <2>4, <3>1, <3>2 DEF OpOK
  <2>8. 1 .. Len(t) - 1 = {}
    BY <2>7
  <2>9. Covered(c, t) /\ AccountsPlain
    <3>1. Deriving(c, t)
      BY <2>4, <2>7, <2>8 DEF Deriving
    <3>. QED BY <2>1, <2>7, <3>1 DEF Parts, FacesOK, PlainOK
  <2>10. PICK i \in DOMAIN accounts : a = accounts[i]
    BY DEF Range
  <2>11. PICK j \in DOMAIN accounts :
           accounts[j].chain = c /\ SameWallet(accounts[i], accounts[j])
    BY <2>8, <2>9, <2>10 DEF Covered
  <2>12. accounts[j] \in Range(accounts) /\ accounts[j].plain
    BY <2>9 DEF Range, AccountsPlain
  <2>. QED BY <2>3, <2>10, <2>11, <2>12
<1>2. OrderOK => EveryWalletHasItsFace
  BY <1>1 DEF EveryWalletHasItsFace
<1>. QED BY <1>2, OrderHolds, PTL

(* In an orderly wallet of phrases with no command in progress, the active *)
(* account is on the chain of the selected network, if the wallet has an   *)
(* account there.                                                          *)
THEOREM PositionsAgree == Spec => []PositionAgrees
<1>1. ASSUME OrderOK, Orderly, "import_key" \notin setting.commands PROVE OnePosition
  <2>. SUFFICES ASSUME Quiet, NEW c, AccountsOn(c) # {}
                PROVE  AccountOf(ActiveAccount).chain = ChainOfNetwork[SelectedNetwork]
    BY DEF OnePosition
  <2>1. PICK h \in Handle : Parts(todo[h])
    BY <1>1 DEF OrderOK
  <2>2. Parts(<<>>)
    BY <2>1 DEF Quiet, Idle
  <2>3. Settled
    BY <1>1, <2>2, AtRest
  <2>4. accounts # <<>>
    BY EmptyList DEF AccountsOn
  <2>. QED BY <1>1, <2>3, <2>4, PlaceIs DEF Settled, OrderOK, MoveOK
<1>2. OrderOK => PositionAgrees
  BY <1>1 DEF PositionAgrees
<1>. QED BY <1>2, OrderHolds, PTL
============================================================================
