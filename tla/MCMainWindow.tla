---------------------------- MODULE MCMainWindow ----------------------------
(* Small instances of MainWindow for TLC. *)
EXTENDS MainWindow

CONSTANTS Mine

MCNames == {Default, Mine}

Made(p, base) ==
  [settings |-> [state |-> "readable", caps |-> p, edit |-> 0],
   options |-> [there |-> TRUE, assets |-> 0, debug |-> FALSE], base |-> base]

Gone == [settings |-> NoSettings, options |-> NoOptions, base |-> FALSE]

(* SSE as it ships; the other profile whole, without settings.ini, with a  *)
(* malformed profile.ini, or not there.                                    *)
MCDisks ==
  {[p \in MCNames |-> IF p = Default THEN Made(Default, TRUE) ELSE mine] :
     mine \in {Made(Mine, FALSE), [Made(Mine, FALSE) EXCEPT !.options = NoOptions],
               [Made(Mine, FALSE) EXCEPT !.settings.state = "malformed", !.options.debug = TRUE],
               Gone}}

Nothing == [selections |-> 0, dialogs |-> 0, edits |-> 0, toggles |-> 0, starts |-> 0,
            records |-> 0, faults |-> 0]

(* What a run races: edits and profiles that fail, profiles being created, *)
(* the log, and a run before it.                                           *)
MCBudgets ==
  {[Nothing EXCEPT !.selections = 2, !.edits = 1, !.starts = 1, !.faults = 1],
   [Nothing EXCEPT !.selections = 1, !.dialogs = 2, !.starts = 1],
   [Nothing EXCEPT !.dialogs = 1, !.edits = 1, !.selections = 1, !.faults = 2],
   [Nothing EXCEPT !.selections = 1, !.toggles = 1, !.records = 3],
   [Nothing EXCEPT !.toggles = 1, !.starts = 1, !.records = 1, !.faults = 1],
   [Nothing EXCEPT !.selections = 1, !.starts = 1, !.records = 1, !.faults = 1],
   [Nothing EXCEPT !.starts = 3, !.faults = 1]}

=============================================================================
