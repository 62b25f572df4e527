------------------------------- MODULE Modes --------------------------------
(***************************************************************************)
(* The modes of the terminal UI (enum Mode of rustcli/cli/src/tui.rs) that *)
(* Tui and Pane both speak of.  A prompt and a confirmation say what they  *)
(* are about.                                                              *)
(***************************************************************************)
CONSTANT None  \* no value

Browse == <<"Browse">>
Busy == <<"Busy">>
Closed == <<"Closed">>
Input(kind) == <<"Input", kind>>
Confirm(kind) == <<"Confirm", kind>>
=============================================================================
