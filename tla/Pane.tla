-------------------------------- MODULE Pane --------------------------------
(***************************************************************************)
(* The command pane of the terminal UI and its one input line: the table   *)
(* of commands, the search that narrows it, the keys, the prompts commands *)
(* open, typing and both ways of pasting, and the note about the clipboard  *)
(* (rustcli/cli/src/tui.rs, clipboard.rs, core/src/search.rs).  What       *)
(* commands do to the store is in Tui, and to files in Export; here they   *)
(* may change the list of accounts.                                        *)
(*                                                                         *)
(* A term of a search stands for what the user types of one word; a text   *)
(* for what is typed or pasted in one go.                                  *)
(***************************************************************************)
EXTENDS Integers, Sequences, FiniteSets, Lists, Modes

CONSTANTS
  Networks,    \* the networks with a row of their own, in order
  Tokens,      \* the tokens with a row of their own, in order
  Terms,       \* what is searched for
  Words,       \* [action -> the terms its row is found by]
  Texts,       \* what is typed, pasted, or on the clipboard
  Takes,       \* those that are, in one word, addresses on the account's chain and network
  Own,         \* those of them that are the account's own
  Suggested,   \* [format, or "keys" -> the file a prompt suggests]
  MaxTerms,    \* bound: terms in the search box
  MaxItems,    \* bound: texts in the input line
  MaxPrompts   \* bound: prompts opened

ASSUME PaneConstants ==
  /\ Own \subseteq Takes /\ Takes \subseteq Texts

VARIABLES
  pane,      \* mode, focus, filter, cursor, line, note, list (whether there
           \* are accounts); the note as what it is about, or None
  clip,    \* what the clipboard holds
  opened,  \* prompts opened so far: numbers them
  aimed,   \* history: the row the user moved the cursor to, or the first one
           \* the search last left
  ran      \* history: the row Enter ran in the last step

history == <<aimed, ran>>
paneVars == <<pane, clip, opened, history>>

-----------------------------------------------------------------------------
(* The table.                                                              *)

Command(action, key) == [action |-> <<action>>, key |-> key, hidden |-> FALSE]
Save(format, key) ==
  [action |-> <<"save", format>>, key |-> key, hidden |-> format # "jsonl"]

FirstCommands ==
  <<Command("balance", "b"), Command("send", "s"), Command("new wallet", "n"),
    Command("new seed", "N"), Command("import mnemonic", "m"),
    Command("import key", "p"), Command("recall", "c"), Command("derive", "d"),
    Command("activate", "a"), Command("copy", "y"), Command("sign", "g"),
    Save("jsonl", "1"), Save("csv", "2"), Save("txt", "3"), Save("md", "4"),
    Command("export", "e"), Command("secrets", "v")>>
NetworkCommands ==
  [i \in DOMAIN Networks |->
     [action |-> <<"network", Networks[i]>>, key |-> None, hidden |-> FALSE]]
TokenCommands ==
  [i \in DOMAIN Tokens |->
     [action |-> <<"token", Tokens[i]>>, key |-> None, hidden |-> FALSE]]
LastCommands ==
  <<Command("fee ceiling", None), Command("remove", "x"), Command("reload", "r"),
    Command("help", "?"), Command("quit", "q")>>
CommandList == FirstCommands \o NetworkCommands \o TokenCommands \o LastCommands

(* A row is drawn if it is not hidden and every term of the search is      *)
(* somewhere in its label, its help or its tags.                           *)
Matches(row, terms) == \A i \in DOMAIN terms : terms[i] \in Words[row.action]
Drawn(filter) ==
  {i \in DOMAIN CommandList : ~CommandList[i].hidden /\ Matches(CommandList[i], filter)}
VisibleCommands(filter) == Sifted(CommandList, Drawn(filter))

(* The row under the cursor is looked up among those drawn.                *)
CurrentCommand(s) == VisibleCommands(s.filter)[s.cursor].action
(* A key runs its command whether or not its row is drawn.                 *)
CommandForKey(key) ==
  LET i == CHOOSE i \in DOMAIN CommandList :
             /\ CommandList[i].key = key
             /\ \A j \in 1 .. i - 1 : CommandList[j].key # key
  IN  CommandList[i].action

-----------------------------------------------------------------------------
(* The screen.                                                             *)

Search == <<"Search">>
Help == <<"Help">>
Showing(mode) == pane.mode = mode
Prompting == pane.mode[1] = "Input"

PaneInit ==
  /\ \E list \in BOOLEAN :
       pane = [mode |-> Browse, focus |-> "Commands", filter |-> <<>>, cursor |-> 1,
             line |-> {}, note |-> None, list |-> list]
  /\ clip \in Texts \cup {None}
  /\ opened = 0
  /\ aimed = <<"balance">> /\ ran = None

(* Slip: the cursor stays where it is, if it can.                          *)
SetFilterOnly(s, filter) ==
  [s EXCEPT !.filter = filter,
            !.cursor = IF @ \in 1 .. Cardinality(Drawn(filter)) THEN @
                       ELSE Cardinality(Drawn(filter))]

(* The search is changed and the cursor put on the first row left.         *)
SetFilter(s, filter) ==
  [s EXCEPT !.filter = filter,
            !.cursor = IF Drawn(filter) = {} THEN 0 ELSE 1]

(* move_selection in the command pane, wrapping.                           *)
MoveCursor(s, by) ==
  LET len == Cardinality(Drawn(s.filter))
      at  == IF s.cursor = 0 THEN 0 ELSE s.cursor - 1
  IN  IF len = 0 \/ s.focus # "Commands" THEN s
      ELSE [s EXCEPT !.cursor = 1 + ((at + by + len) % len)]

CycleFocus(s) ==
  [s EXCEPT !.focus = IF @ = "Commands" THEN "Accounts" ELSE "Commands"]

(* What the user moved the cursor to; after a search, the first row.       *)
Aim(s) ==
  aimed' = IF s.cursor = 0 THEN None ELSE VisibleCommands(s.filter)[s.cursor].action
AimFirst(filter) ==
  aimed' = IF Drawn(filter) = {} THEN None ELSE VisibleCommands(filter)[1].action

Aside == UNCHANGED <<clip, opened>>
RanNone == ran' = None /\ UNCHANGED aimed
Shows(s) == pane' = s /\ Aside /\ RanNone

-----------------------------------------------------------------------------
(* Running a command.                                                      *)

(* A prompt opens on an empty line.                                        *)
StartInput(s, kind) ==
  /\ opened < MaxPrompts
  /\ opened' = opened + 1
  /\ pane' = [s EXCEPT !.mode = Input(kind), !.line = {}, !.note = None]
  /\ UNCHANGED clip

(* The note goes up when the clipboard can be read and holds one word, an  *)
(* address this prompt takes, and not the account's own.                   *)
StartAddress(s, kind) ==
  /\ opened < MaxPrompts
  /\ opened' = opened + 1
  /\ \E note \in {None} \cup (IF s.list THEN {clip} \cap (Takes \ Own) ELSE {}) :
       pane' = [s EXCEPT !.mode = Input(kind), !.line = {}, !.note = note]
  /\ UNCHANGED clip

(* A file prompt opens on the name it suggests.                            *)
StartExport(s, kind, name) ==
  /\ opened < MaxPrompts
  /\ opened' = opened + 1
  /\ pane' = [s EXCEPT !.mode = Input(kind), !.line = {<<name, opened'>>}]
  /\ UNCHANGED clip

Stays(s) == pane' = s /\ Aside

(* Commands whose prompt needs no account, and what it is called.          *)
PromptOf ==
  [a \in {"new seed", "import mnemonic", "import key"} |->
     CASE a = "new seed" -> <<"label">> [] a = "import mnemonic" -> <<"mnemonic">>
       [] a = "import key" -> <<"private key">>]
(* The fee ceiling's shows the one in force; the line is empty.            *)
StartMaxFee(s) == StartInput(s, <<"max fee">>)

(* copy_address: the first helper that takes it has it on the clipboard,   *)
(* and perhaps none does.                                                  *)
Copy(texts) == clip' \in texts \cup {clip}
CopyAddress(s) == s.list /\ Copy(Own) /\ pane' = s /\ UNCHANGED opened

RunAction(s, a) ==
  \/ a[1] \in DOMAIN PromptOf /\ StartInput(s, PromptOf[a[1]])
  \/ a[1] = "fee ceiling" /\ StartMaxFee(s)
  \/ a[1] = "balance" /\ StartAddress(s, <<"balance of">>)
  \/ a[1] = "send" /\ s.list /\ StartAddress(s, <<"send to">>)
  \/ a[1] = "derive" /\ s.list /\ StartInput(s, <<"index">>)
  \/ a[1] = "sign" /\ s.list /\ StartInput(s, <<"message">>)
  \/ a[1] \in {"send", "derive", "sign", "copy"} /\ ~s.list /\ Stays(s)
  \/ a[1] = "export" /\ StartExport(s, <<"keys", "jsonl">>, Suggested["keys"])
  \/ a[1] = "save" /\ StartExport(s, a, Suggested[a[2]])
  \/ a[1] = "secrets" /\ Stays(s)
  \/ a[1] = "help" /\ Stays([s EXCEPT !.mode = Help])
  \/ a[1] = "quit" /\ Stays([s EXCEPT !.mode = Closed])
  \/ a[1] = "recall" /\ Stays([s EXCEPT !.focus = "Recall"])
  \/ a[1] = "activate" /\ Stays(s)
  \/ a[1] = "token" /\ \E mode \in {Browse, Busy} : Stays([s EXCEPT !.mode = mode])
  \/ a[1] \in {"reload", "new wallet", "network"} /\
       \E list \in BOOLEAN : Stays([s EXCEPT !.list = list])
  \/ a[1] = "remove" /\ Stays(IF s.focus = "Recall" \/ ~s.list THEN s
                              ELSE [s EXCEPT !.mode = Confirm(<<"remove">>),
                                             !.focus = "Accounts"])
  \/ a[1] = "copy" /\ CopyAddress(s)

-----------------------------------------------------------------------------
(* Keys while browsing and searching.                                      *)

BrowseArrow ==
  /\ Showing(Browse)
  /\ \E by \in {1, -1} : LET s == MoveCursor(pane, by) IN pane' = s /\ Aim(s)
  /\ ran' = None /\ Aside

BrowseTab == Showing(Browse) /\ Shows(CycleFocus(pane))

(* Enter asks for a balance from the accounts and imports from the recall  *)
(* list, where Tui goes on.                                                *)
EnterElsewhere ==
  /\ Showing(Browse)
  /\ \/ pane.focus = "Accounts" /\ \E mode \in {Browse, Busy} : Shows([pane EXCEPT !.mode = mode])
     \/ pane.focus = "Recall" /\ \E list \in BOOLEAN :
          Shows([pane EXCEPT !.focus = "Accounts", !.list = list])

EnterRuns ==
  /\ Showing(Browse) \/ Showing(Search)
  /\ Showing(Browse) => pane.focus = "Commands"
  /\ pane.cursor # 0
  /\ RunAction([pane EXCEPT !.mode = Browse], CurrentCommand(pane))
  /\ ran' = [ran |-> CurrentCommand(pane), aimed |-> aimed]
  /\ UNCHANGED aimed

(* Esc leaves the recall list, else the program.                           *)
BrowseEsc ==
  /\ Showing(Browse)
  /\ Shows(IF pane.focus = "Recall" THEN [pane EXCEPT !.focus = "Accounts"]
          ELSE [pane EXCEPT !.mode = Closed])

OpenSearch == Showing(Browse) /\ Shows([pane EXCEPT !.focus = "Commands", !.mode = Search])

BrowseKey ==
  /\ Showing(Browse)
  /\ \E key \in {CommandList[i].key : i \in DOMAIN CommandList} \ {None} :
       RunAction(pane, CommandForKey(key))
  /\ RanNone

SearchTypes ==
  /\ Showing(Search)
  /\ LET n == Len(pane.filter) IN
     \E filter \in {SubSeq(pane.filter, 1, IF n = 0 THEN 0 ELSE n - 1)}
                     \cup (IF n < MaxTerms THEN {Append(pane.filter, t) : t \in Terms}
                           ELSE {}) :
       pane' = SetFilter(pane, filter) /\ AimFirst(filter)
  /\ ran' = None /\ Aside

SearchArrow ==
  /\ Showing(Search)
  /\ \E by \in {1, -1} : LET s == MoveCursor(pane, by) IN pane' = s /\ Aim(s)
  /\ ran' = None /\ Aside

SearchNothing == Showing(Search) /\ pane.cursor = 0 /\ Shows([pane EXCEPT !.mode = Browse])

(* Esc brings every command back.                                          *)
SearchEsc ==
  /\ Showing(Search)
  /\ pane' = SetFilter([pane EXCEPT !.mode = Browse], <<>>) /\ AimFirst(<<>>)
  /\ ran' = None /\ Aside

-----------------------------------------------------------------------------
(* Keys at a prompt.                                                       *)

Line(s) == {i[1] : i \in s.line}
Cleared(s) == [s EXCEPT !.line = {}, !.note = None]
Put(s, text) == [s EXCEPT !.line = @ \cup {<<text, opened>>}]
Room == Cardinality(pane.line) < MaxItems

(* Typing, and deleting, take the note down.                               *)
Type == /\ Prompting /\ Room
        /\ \E t \in Texts : Shows([Put(pane, t) EXCEPT !.note = None])
Backspace ==
  /\ Prompting
  /\ \E i \in SUBSET pane.line : Cardinality(i) <= 1 /\
       Shows([pane EXCEPT !.line = @ \ i, !.note = None])
CtrlU == Prompting /\ Shows(Cleared(pane))

(* Ctrl-V reads the clipboard, whatever it holds by now, if it can.        *)
CtrlV ==
  /\ Prompting /\ Room
  /\ \/ clip # None /\ Shows([Put(pane, clip) EXCEPT !.note = None])
     \/ Shows([pane EXCEPT !.note = None])

(* A paste of the terminal goes into the line at a prompt, and nowhere     *)
(* else.                                                                   *)
Paste ==
  /\ Room \/ ~Prompting
  /\ \E t \in Texts : Shows(IF Prompting THEN Put(pane, t) ELSE pane)

(* Slip: the line is left as it is for the next prompt to clear.           *)
InputEscQuick ==
  /\ Prompting
  /\ Shows([pane EXCEPT !.mode = Browse, !.note = None])

InputEsc == Prompting /\ Shows(Cleared([pane EXCEPT !.mode = Browse]))

(* What is sent off is what the line holds, put together.                  *)
Value == IF Cardinality(pane.line) = 1 THEN CHOOSE t \in Line(pane) : TRUE ELSE None
Submitted == Cleared([pane EXCEPT !.mode = Browse])

(* A list is written, at the path in the line, if it can be.               *)
SubmitFile == Prompting /\ pane.mode[2][1] \in {"keys", "save"} /\ Shows(Submitted)

(* The recipient is checked on the account's chain before an amount is     *)
(* asked for.                                                              *)
SubmitSendTo ==
  /\ Showing(Input(<<"send to">>))
  /\ IF Value \in Takes /\ pane.list
       THEN StartInput(Submitted, <<"amount">>) /\ RanNone
       ELSE Shows(Submitted)

(* A balance and an amount that can be read are asked about on a thread.   *)
SubmitAndWait ==
  /\ Showing(Input(<<"balance of">>)) \/ Showing(Input(<<"amount">>))
  /\ \E mode \in {Browse, Busy} : Shows([Submitted EXCEPT !.mode = mode])

(* The rest is done at once, and may change the list.                      *)
SubmitHere ==
  /\ \E k \in {"label", "mnemonic", "private key", "index", "max fee", "message"} :
       Showing(Input(<<k>>))
  /\ \E list \in BOOLEAN : Shows([Submitted EXCEPT !.list = list])

-----------------------------------------------------------------------------
(* Elsewhere.                                                              *)

Dismiss ==
  /\ \/ Showing(Help) /\ Shows([pane EXCEPT !.mode = Browse])
     \/ pane.mode[1] = "Confirm" /\ \E list \in BOOLEAN :
          Shows([pane EXCEPT !.mode = Browse, !.list = list])
     \/ Showing(Busy) /\ \E mode \in {Browse, Confirm(<<"send">>)} :
          Shows([pane EXCEPT !.mode = mode])

CtrlC == ~Showing(Closed) /\ Shows([pane EXCEPT !.mode = Closed])

(* Another program copies something.                                       *)
Copied ==
  /\ clip' \in (Texts \cup {None}) \ {clip}
  /\ UNCHANGED <<pane, opened>> /\ RanNone

PaneNext ==
  \/ BrowseArrow \/ BrowseTab \/ EnterElsewhere \/ EnterRuns \/ BrowseEsc
  \/ OpenSearch \/ BrowseKey \/ SearchTypes \/ SearchArrow \/ SearchNothing
  \/ SearchEsc \/ Type \/ Backspace \/ CtrlU \/ CtrlV \/ Paste \/ InputEsc
  \/ SubmitFile \/ SubmitSendTo \/ SubmitAndWait \/ SubmitHere
  \/ Dismiss \/ CtrlC \/ Copied

PaneSpec == PaneInit /\ [][PaneNext]_paneVars

-----------------------------------------------------------------------------
(* Properties.                                                             *)

(* What goes into a prompt is this prompt's only, and is gone when it is   *)
(* answered or left, so that no phrase or key is found in the line of a    *)
(* later one.  The note is up at prompts for an address only, about one    *)
(* the prompt takes and that is not the account's own: never about a       *)
(* secret that happened to be copied.  (start_input, clear_input,          *)
(* note_clipboard_address.)                                                *)
NothingLingers ==
  ~Showing(Closed) =>
    /\ Prompting \/ (pane.line = {} /\ pane.note = None)
    /\ \A i \in pane.line : i[2] = opened
    /\ pane.note # None =>
         /\ pane.mode \in {Input(<<"send to">>), Input(<<"balance of">>)}
         /\ pane.note \in Takes \ Own

(* Enter runs the row the user moved the cursor to, or the first row the   *)
(* last change of the search has left, hidden rows and an empty result          *)
(* notwithstanding.  (visible_commands, set_filter, current_command.)      *)
RunsWhatIsAimedAt ==
  /\ ran # None => ran.ran = ran.aimed
  /\ pane.cursor = 0 <=> Drawn(pane.filter) = {}

(* Any edit takes the note down, as the field's comment says: false of a   *)
(* paste of the terminal.                                                  *)
NoteGoesWithAnyEdit ==
  [][pane'.line # pane.line => pane'.note = None]_paneVars
=============================================================================
