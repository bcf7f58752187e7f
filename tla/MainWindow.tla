------------------------------ MODULE MainWindow ------------------------------
(***************************************************************************)
(* The main window (cao-gui/app.rs, app/run.rs, modal.rs): its profile and *)
(* controls, its dialogs, the run it starts, cancels and closes after, and *)
(* the Application Log.                                                    *)
(*                                                                         *)
(* Everything the window does happens in turns of one event loop; a run's  *)
(* events are posted to it by the Run Worker, and records are logged by    *)
(* any thread.  The service is what SingleActiveRun promises: a slot that  *)
(* is free once the result is stored, before the terminal event is posted. *)
(* A message box blocks the window from the later turn that shows it to    *)
(* its dismissal, and only the tutorial New Profile begins with goes on    *)
(* from there, on a turn after that; the other boxes are left out.         *)
(***************************************************************************)
EXTENDS ProfileStore, RunView, ApplicationLog

CONSTANTS
  Loggers,       \* threads that log
  NoPath,        \* no log file remembered
  Disks,         \* what profiles/ may hold at startup
  MaxRuns,       \* bound on the runs
  MaxFailures,   \* bound on a run's failures
  Budgets        \* bounds on what the user, the loggers and the disk do

ASSUME WindowAssumption ==
  /\ NoPath \notin Names
  /\ NoRun = 0
  /\ MaxRuns \in Nat
  /\ Disks \subseteq [Names -> Profile]
  /\ \A disk \in Disks : Listed(disk) # {}
  /\ Budgets \subseteq [selections : Nat, dialogs : Nat, edits : Nat, toggles : Nat, starts : Nat,
                        records : Nat, faults : Nat]

VARIABLES
  store,         \* the profiles, what is loaded of them and the controls
  listed,        \* the profile combo's names
  modal,         \* open dialogs, dialogs to tear down, DEPTH, modal-blocked and
                 \* the tutorials that will go on to ask for a name
  newName,       \* the name the base dialog is creating
  view,          \* the RunView
  active,        \* the Run Handle in flight
  windows,       \* RUN_WINDOWS
  locked,        \* whether a run holds the controls
  ui,            \* [shown, running, cancelling]
  slot,          \* the service's ACTIVE_RUN
  work,          \* the Run Worker's run
  events,        \* events posted to the event loop
  log,           \* the Application Log
  runLog,        \* the log file of the profile session
  drains,        \* drains posted to the event loop
  rows,          \* the Log tab's rows
  writing,       \* the record a thread is logging
  budget         \* what is left of the bounds

runVars == <<view, active, windows, locked, ui, slot, work, events>>
logVars == <<log, runLog, drains, rows, writing>>
dialogVars == <<modal, newName>>
vars == <<store, listed, dialogVars, runVars, logVars, budget>>

Spend(kind) == budget[kind] > 0 /\ budget' = [budget EXCEPT ![kind] = @ - 1]

(* One turn's failing reads and writes.                                    *)
SpendFaults(kind, n, fails) ==
  /\ budget[kind] >= n /\ budget.faults >= Cardinality(fails)
  /\ budget' = [budget EXCEPT ![kind] = @ - n, !.faults = @ - Cardinality(fails)]

NoWork ==
  [run |-> NoRun, stage |-> "idle", profile |-> Default, cancelled |-> FALSE, sequence |-> 0,
   failures |-> <<>>, outcome |-> "none", settings |-> NoSettings, tutorials |-> 0]

NoDialog == [open |-> {}, closing |-> 0, depth |-> 0, blocked |-> FALSE, tutorials |-> 0]

(***************************************************************************)
(* Startup: the log is opened for the remembered profile, then the window  *)
(* loads it and attaches the log.                                          *)
(***************************************************************************)
Startup(disk, remembered) ==
  LET current == Resolve(disk, remembered)
      empty == [disk |-> disk, common |-> remembered,
                loaded |-> [profile |-> current, options |-> [assets |-> 0, debug |-> FALSE],
                            settings |-> NoSettings, base |-> FALSE],
                form |-> [edit |-> 0, assets |-> 0, debug |-> FALSE]]
  IN /\ store = Loading(empty, current, {})
     /\ log = Subscribe(Opened(current, LoadOptions(empty, current, {}).debug))

Init ==
  /\ \E disk \in Disks, remembered \in Names : Startup(disk, remembered) /\ listed = Listed(disk)
  /\ modal = NoDialog /\ newName = Default
  /\ view = View0 /\ active = NoRun /\ windows = {} /\ locked = FALSE
  /\ ui = [shown |-> TRUE, running |-> FALSE, cancelling |-> FALSE]
  /\ slot = NoRun /\ work = NoWork /\ events = <<>>
  /\ runLog = NoPath /\ drains = 1 /\ rows = <<>>
  /\ writing = [t \in Loggers |-> [stage |-> "idle", verbose |-> FALSE]]
  /\ budget \in Budgets

(***************************************************************************)
(* What the user can reach: nothing behind a dialog, and while a run is    *)
(* active none of the controls that choose or edit a profile.              *)
(***************************************************************************)
Usable == ui.shown /\ ~modal.blocked

ProfileControls == Usable /\ ~ui.running

AdvancedControls == ProfileControls /\ ~store.loaded.base

(***************************************************************************)
(* Dialogs.  A slot empties at once; its guard goes on the next turn.      *)
(* They end with the event loop.                                           *)
(***************************************************************************)
Open(m, kind) ==
  [m EXCEPT !.open = @ \cup {kind}, !.closing = IF kind \in m.open THEN @ + 1 ELSE @,
            !.depth = @ + 1, !.blocked = @ \/ m.depth = 0]

Close(m, kind) ==
  IF kind \in m.open THEN [m EXCEPT !.open = @ \ {kind}, !.closing = @ + 1] ELSE m

Answers(kind) == ui.shown /\ kind \in modal.open

DropGuard(m) ==
  [m EXCEPT !.closing = @ - 1, !.depth = IF @ = 0 THEN 0 ELSE @ - 1,
            !.blocked = @ /\ m.depth > 1]

Teardown ==
  /\ ui.shown /\ modal.closing > 0
  /\ modal' = DropGuard(modal)
  /\ UNCHANGED <<store, listed, newName, runVars, logVars, budget>>

AskProfileName(m) == Open(m, "name")

(* With Show tutorials on, what follows waits for the box's dismissal.     *)
Tutorial(m, follows) == {follows, [m EXCEPT !.tutorials = @ + 1]}

NewProfile ==
  /\ ProfileControls
  /\ Spend("dialogs")
  /\ modal' \in Tutorial(modal, AskProfileName(modal))
  /\ UNCHANGED <<store, listed, newName, runVars, logVars>>

(* Until its box is up, and again once it is dismissed, the window takes   *)
(* clicks: what the tutorial goes on to is on top of whatever they did.    *)
EndTutorial ==
  /\ ui.shown /\ modal.tutorials > 0
  /\ modal' = AskProfileName([modal EXCEPT !.tutorials = @ - 1])
  /\ UNCHANGED <<store, listed, newName, runVars, logVars, budget>>

AboutSlint ==
  /\ Usable
  /\ Spend("dialogs")
  /\ modal' = Open(modal, "about")
  /\ UNCHANGED <<store, listed, newName, runVars, logVars>>

EditUnwanted ==
  /\ AdvancedControls /\ Readable(store.loaded.settings)
  /\ Spend("dialogs")
  /\ modal' = Open(modal, "formats")
  /\ UNCHANGED <<store, listed, newName, runVars, logVars>>

(* OK commits the dialog's copy of the list, which is one of the settings. *)
ConfirmFormats ==
  /\ Answers("formats")
  /\ \E edit \in 0 .. 1 : store' = [store EXCEPT !.form.edit = edit]
  /\ modal' = Close(modal, "formats")
  /\ UNCHANGED <<listed, newName, runVars, logVars, budget>>

Dismiss ==
  /\ \E kind \in modal.open : Answers(kind) /\ modal' = Close(modal, kind)
  /\ UNCHANGED <<store, listed, newName, runVars, logVars, budget>>

(* The base dialog opens in the turn that closes the name dialog.          *)
ConfirmName(name) ==
  /\ Answers("name")
  /\ newName' = name
  /\ modal' = Open(Close(modal, "name"), "base")
  /\ UNCHANGED <<store, listed, runVars, logVars, budget>>

(***************************************************************************)
(* The log, as the window moves it.                                        *)
(***************************************************************************)
Posted(wakes) == IF wakes THEN drains + 1 ELSE drains

(* A new file that cannot be opened leaves the log where it was.           *)
RedirectLog(path, debug, fails) ==
  IF path # log.path /\ "openLog" \in fails THEN UNCHANGED <<log, drains>>
  ELSE /\ log' = Redirect(log, path, debug)
       /\ drains' = Posted(RedirectWakes(log, path))

StampLog(p, debug, fails) ==
  /\ runLog' = p
  /\ RedirectLog(p, debug, fails)
  /\ UNCHANGED <<rows, writing>>

(***************************************************************************)
(* Choosing a profile saves the window into the current one, loads the new *)
(* one and stamps a log for it.                                            *)
(***************************************************************************)
Select(before, p, fails) ==
  /\ store' = Loading(Saving(before, locked, fails), p, fails)
  /\ StampLog(p, store'.loaded.options.debug, fails)

SelectFaults == SaveFaults \cup LoadFaults \cup {"openLog"}

ProfileSelected(p) ==
  /\ ProfileControls /\ p \in listed
  /\ \E fails \in SUBSET SelectFaults :
       SpendFaults("selections", 1, fails) /\ Select(store, p, fails)
  /\ UNCHANGED <<listed, dialogVars, runVars>>

CreateProfile(base) ==
  /\ Answers("base") /\ base \in listed
  /\ modal' = Close(modal, "base")
  /\ \E fails \in SUBSET SelectFaults :
       LET made == [store EXCEPT !.disk = Create(@, newName, base)]
       IN /\ SpendFaults("selections", 0, fails)
          /\ Select(made, newName, fails)
          /\ listed' = Listed(made.disk)
  /\ UNCHANGED <<newName, runVars>>

FailCreation(base) ==
  /\ Answers("base") /\ base \in listed
  /\ Spend("faults")
  /\ modal' = Close(modal, "base")
  /\ \E disk \in Partial(store.disk, newName, base) : store' = [store EXCEPT !.disk = disk]
  /\ UNCHANGED <<listed, newName, runVars, logVars>>

(* An edit of the asset tabs, which an unreadable profile disables, or of  *)
(* the advanced groups.                                                    *)
EditControls ==
  /\ Readable(store.loaded.settings)
  /\ Spend("edits")
  /\ \/ ProfileControls /\ store' = [store EXCEPT !.form.assets = 1 - @]
     \/ AdvancedControls /\ store' = [store EXCEPT !.form.edit = 1 - @]
  /\ UNCHANGED <<listed, dialogVars, runVars, logVars>>

(* Tools, Enable debug log, stays usable during a run.                     *)
ToggleDebugLog ==
  /\ Usable
  /\ \E fails \in SUBSET SaveFaults :
       LET toggled == [store EXCEPT !.form.debug = ~@]
       IN SpendFaults("toggles", 1, fails) /\ store' = Saving(toggled, locked, fails)
  /\ IF locked THEN UNCHANGED log ELSE log' = Redirect(log, log.path, store'.form.debug)
  /\ UNCHANGED <<listed, dialogVars, runVars, runLog, drains, rows, writing>>

(***************************************************************************)
(* Run.                                                                    *)
(***************************************************************************)
RunPath == IF runLog = NoPath THEN log.path ELSE runLog

(* What profile.ini held and the tutorials pending are kept for the        *)
(* properties.                                                             *)
Admit(run) ==
  /\ slot' = run
  /\ work' = [NoWork EXCEPT !.run = run, !.stage = "working", !.profile = store.loaded.profile,
                            !.settings = store'.disk[store.loaded.profile].settings,
                            !.tutorials = modal.tutorials]
  /\ windows' = windows \cup {run}
  /\ view' = Begin(run)
  /\ active' = run
  /\ locked' = TRUE
  /\ ui' = [ui EXCEPT !.running = TRUE, !.cancelling = FALSE]
  /\ rows' = ShowDetails(rows, <<>>)
  /\ UNCHANGED events

(* A request the form cannot make, or one the service refuses, leaves the  *)
(* window as it was, saved and redirected.                                 *)
StartRun ==
  /\ Usable /\ ~ui.cancelling
  /\ ~view.active /\ CanStart(view) /\ view.run < MaxRuns
  /\ \E fails \in SUBSET (SaveFaults \cup {"openLog"}) :
       /\ SpendFaults("starts", 1, fails)
       /\ store' = Saving(store, locked, fails)
       /\ IF Saved(store, locked, fails) /\ ~("openLog" \in fails /\ RunPath # log.path)
            THEN /\ RedirectLog(RunPath, store'.loaded.options.debug, {})
                 /\ \/ slot = NoRun /\ Admit(view.run + 1)
                    \/ UNCHANGED <<runVars, rows>>
            ELSE UNCHANGED <<runVars, log, drains, rows>>
  /\ UNCHANGED <<listed, dialogVars, runLog, writing>>

(* Mutant: cancelling twice does nothing the second time.                  *)
CancellingOnce ==
  /\ active # NoRun /\ view.active
  /\ work' = IF work.run = active /\ ~view'.cancelRequested
               THEN [work EXCEPT !.cancelled = TRUE] ELSE work
  /\ ui' = [ui EXCEPT !.cancelling = TRUE]

Cancelling ==
  /\ active # NoRun /\ view.active
  /\ work' = IF work.run = active THEN [work EXCEPT !.cancelled = TRUE] ELSE work
  /\ ui' = [ui EXCEPT !.cancelling = TRUE]

CancelRun ==
  /\ Usable /\ ~ui.cancelling /\ view.active
  /\ view' = RequestCancellation(view)
  /\ Cancelling
  /\ UNCHANGED <<store, listed, dialogVars, active, windows, locked, slot, events, logVars, budget>>

(* Closing during a run cancels it; the window closes when it has ended.   *)
CloseDuringRun ==
  /\ Usable /\ view.active
  /\ view' = RequestClose(view)
  /\ Cancelling
  /\ UNCHANGED <<store, listed, dialogVars, active, windows, locked, slot, events, logVars, budget>>

CloseWindow ==
  /\ Usable /\ MayClose(view)
  /\ \E fails \in SUBSET SaveFaults :
       SpendFaults("starts", 0, fails) /\ store' = Saving(store, locked, fails)
  /\ ui' = [ui EXCEPT !.shown = FALSE]
  /\ UNCHANGED <<listed, dialogVars, view, active, windows, locked, slot, work, events, logVars>>

(***************************************************************************)
(* The events of a run, one per turn.                                      *)
(***************************************************************************)
EndsRun(event) == event.kind = "terminal"

(* Mutant: only a run that was cancelled lets the window close.            *)
ClosesWhenCancelled(v) == v.closeRequested /\ v.outcome = "cancelled"

ClosesNow(v) == v.closeRequested

EndRun(v) ==
  /\ active' = NoRun
  /\ windows' = windows \ {active}
  /\ \E fails \in SUBSET SaveFaults :
       /\ SpendFaults("starts", 0, fails)
       /\ IF ClosesNow(v)
            THEN /\ store' = Saving(store, locked, fails)
                 /\ ui' = [ui EXCEPT !.shown = FALSE]
                 /\ UNCHANGED locked
            ELSE /\ store' = Saving(store, FALSE, fails)
                 /\ ui' = [ui EXCEPT !.running = FALSE, !.cancelling = FALSE]
                 /\ locked' = FALSE

OnRunEvent(event) ==
  /\ view' = Consume(view, event)
  /\ rows' = ShowDetails(rows, view'.details)
  /\ IF view.active /\ EndsRun(event) THEN EndRun(view')
     ELSE UNCHANGED <<store, active, windows, locked, ui, budget>>

Deliver ==
  /\ ui.shown /\ events # <<>>
  /\ events' = Tail(events)
  /\ IF Head(events).run \in windows /\ Accepts(view, Head(events))
       THEN OnRunEvent(Head(events))
       ELSE UNCHANGED <<store, view, active, windows, locked, ui, rows, budget>>
  /\ UNCHANGED <<listed, dialogVars, slot, work, log, runLog, drains, writing>>

(***************************************************************************)
(* The Run Worker.  Its events are ordered and end with the result.        *)
(***************************************************************************)
Event(kind, of) ==
  [run |-> work.run, sequence |-> work.sequence + 1, kind |-> kind, of |-> of,
   failures |-> work.failures]

Emit(event) == events' = Append(events, event)

Numbered == [work EXCEPT !.sequence = @ + 1]

StreamFailure(row) ==
  /\ work.stage = "working" /\ Len(work.failures) < MaxFailures
  /\ Emit(Event("failure", row))
  /\ work' = [Numbered EXCEPT !.failures = Append(@, row)]
  /\ UNCHANGED slot

ReportCleanup ==
  /\ work.stage = "working"
  /\ Emit(Event("phase", "cleanup"))
  /\ work' = [Numbered EXCEPT !.stage = "cleanup"]
  /\ UNCHANGED slot

(* The result may hold a failure no event told of, and frees the slot.     *)
Commit ==
  /\ work.stage = "cleanup"
  /\ \E extra \in {<<>>} \cup {<<row>> : row \in FailureRows} :
       LET failures == work.failures \o extra
           outcomes == IF failures # <<>> THEN {"failed"}
                       ELSE {"succeeded"} \cup IF work.cancelled THEN {"cancelled"} ELSE {}
       IN \E outcome \in outcomes :
            work' = [work EXCEPT !.stage = "committed", !.failures = failures, !.outcome = outcome]
  /\ slot' = NoRun
  /\ UNCHANGED events

PostTerminal ==
  /\ work.stage = "committed"
  /\ Emit(Event("terminal", work.outcome))
  /\ work' = [Numbered EXCEPT !.stage = "ended"]
  /\ UNCHANGED slot

WorkerStep ==
  /\ ReportCleanup \/ Commit \/ PostTerminal \/ \E row \in FailureRows : StreamFailure(row)
  /\ UNCHANGED <<store, listed, dialogVars, view, active, windows, locked, ui, logVars, budget>>

(***************************************************************************)
(* Logging.  A record passes the level, is formatted, then written under   *)
(* the lock if the level still allows it; the wake comes after the lock.   *)
(***************************************************************************)
BeginRecord(t) ==
  /\ writing[t].stage = "idle"
  /\ Spend("records")
  /\ \E verbose \in BOOLEAN :
       /\ Enabled(log, verbose)
       /\ writing' = [writing EXCEPT ![t] = [stage |-> "formatting", verbose |-> verbose]]
  /\ UNCHANGED <<store, listed, dialogVars, runVars, log, runLog, drains, rows>>

WriteRecord(t) ==
  /\ writing[t].stage = "formatting"
  /\ LET line == [id |-> budget.records, by |-> t, verbose |-> writing[t].verbose, debug |-> log.debug]
         writes == Enabled(log, writing[t].verbose)
     IN /\ log' = IF writes THEN Log(log, line) ELSE log
        /\ writing' = [writing EXCEPT ![t].stage = IF writes /\ Wakes(log) THEN "waking" ELSE "idle"]
  /\ UNCHANGED <<store, listed, dialogVars, runVars, runLog, drains, rows, budget>>

WakeTab(t) ==
  /\ writing[t].stage = "waking"
  /\ drains' = drains + 1
  /\ writing' = [writing EXCEPT ![t].stage = "idle"]
  /\ UNCHANGED <<store, listed, dialogVars, runVars, log, runLog, rows, budget>>

DrainLog ==
  /\ ui.shown /\ drains > 0
  /\ drains' = drains - 1
  /\ rows' = Apply(rows, log)
  /\ log' = Drained(log)
  /\ UNCHANGED <<store, listed, dialogVars, runVars, runLog, writing, budget>>

(***************************************************************************)

Dialogs ==
  \/ NewProfile \/ EndTutorial \/ AboutSlint \/ EditUnwanted \/ ConfirmFormats
  \/ Dismiss \/ Teardown
  \/ \E name \in Names : ConfirmName(name)
  \/ \E base \in Names : CreateProfile(base) \/ FailCreation(base)

User ==
  \/ \E p \in Names : ProfileSelected(p)
  \/ EditControls \/ ToggleDebugLog
  \/ StartRun \/ CancelRun \/ CloseDuringRun \/ CloseWindow

Logging == \E t \in Loggers : BeginRecord(t) \/ WriteRecord(t) \/ WakeTab(t)

Next == Dialogs \/ User \/ Deliver \/ WorkerStep \/ Logging \/ DrainLog

(* The event loop runs what is posted to it, and a Run Worker comes to its *)
(* end (RunService).                                                       *)
Fairness == WF_vars(Deliver) /\ WF_vars(WorkerStep) /\ WF_vars(DrainLog)

Spec == Init /\ [][Next]_vars

FairSpec == Spec /\ Fairness

(***************************************************************************)
(* Properties.                                                             *)
(***************************************************************************)

(* The settings the window shows, as a save would write them.              *)
ShownSettings == ReadSettings(store.form, store.loaded.settings)

(* A run in flight holds the controls from its start to the turn that      *)
(* takes in its result, and its profile.ini stays what the start left.  If *)
(* no tutorial was pending when it started, the window also keeps its      *)
(* profile, its settings and its log file, whatever the user clicks and    *)
(* whichever dialog opens (app.rs, modal.rs).                              *)
RunHoldsTheWindow ==
  IF active = NoRun THEN ui.shown => ~locked /\ ~view.active
  ELSE /\ locked /\ ui.running /\ ui.shown
       /\ view.active /\ view.run = active /\ active \in windows
       /\ work.settings.state # "absent" => store.disk[work.profile].settings = work.settings
       /\ work.tutorials = 0 =>
            /\ store.loaded.profile = work.profile
            /\ runLog # NoPath => log.path = runLog
            /\ Readable(store.loaded.settings) => ShownSettings = work.settings

(* "A run holds the controls, so the window still shows the settings saved *)
(* when it started" (app.rs save).  Violated: a tutorial pending when the  *)
(* run starts goes on to create a profile, and selects it.                 *)
LockedWindowShowsItsRun ==
  locked /\ Readable(work.settings) /\ Readable(store.loaded.settings) =>
    ShownSettings = work.settings

(* Whenever the window offers Run the service takes one: no run the window *)
(* has seen end still holds ACTIVE_RUN.                                    *)
StartIsNeverRefused == ui.shown /\ CanStart(view) => slot = NoRun

(* Once a run has ended, each text among its result's failures is listed   *)
(* as often as it failed: a streamed failure is not repeated, two failures *)
(* with one text are two rows (run_view.rs append_result_details).         *)
FailuresListedOnce ==
  view.outcome # "none" /\ work.run = view.run =>
    \A row \in FailureRows : Count(view.details, row) = Count(work.failures, row)

(* A cancellation the window shows has reached the run, and the label says *)
(* so exactly once until the outcome replaces it.                          *)
CancellationReachesTheRun ==
  view.active =>
    /\ view.cancelRequested <=> work.cancelled
    /\ view.label.marks = IF view.cancelRequested THEN 1 ELSE 0

(* Only the loaded profile's settings are saved, only if they could be     *)
(* read, and never with another profile's capabilities; a profile that is  *)
(* created takes what it did not have (app.rs save, load_profile).         *)
SettingsStayHome ==
  [][\A p \in Names :
       LET old == store.disk[p].settings new == store'.disk[p].settings
       IN new # old => \/ old.state = "absent"
                       \/ /\ p = store.loaded.profile
                          /\ Readable(old) /\ new.caps = old.caps]_vars

(* The Log tab is the session's newest rows and the run's details, or will *)
(* be after a drain that is posted or about to be: no row is lost, doubled *)
(* or left from the previous file.                                         *)
TabTellsEverything ==
  /\ Apply(rows, log) = [i \in 1 .. Len(log.history) |-> LogRow(log.history[i])]
                        \o [i \in 1 .. Len(view.details) |-> DetailRow(view.details[i])]
  /\ Wakes(log) \/ drains > 0 \/ \E t \in Loggers : writing[t].stage = "waking"
  /\ \A i \in 1 .. Len(log.history) : log.history[i].verbose => log.history[i].debug

(* A close asked for during a run comes once the run has ended.            *)
WindowCloses == view.closeRequested ~> ~ui.shown

=============================================================================
