--------------------------- MODULE MainWindowProofs ---------------------------
(***************************************************************************)
(* Proofs about the main window, for any profiles, dialogs, threads that   *)
(* log, runs, failures and bounds.                                         *)
(*                                                                         *)
(* The inductive invariant has a part for each concern, and each step is   *)
(* looked at once per part: Guarded (the dialogs open and to be torn       *)
(* down), Posting (the events still to be delivered are the last of the    *)
(* run's), InFlight (the window, the handle and the service's slot agree   *)
(* on which run there is), Holding (what a run in flight holds), Listing   *)
(* (the rows listed after each event), AtHome (what was loaded is its own  *)
(* profile's) and Tabbed (what the next drain makes of the Log tab).       *)
(***************************************************************************)
EXTENDS MainWindow, TLAPS, WellFoundedInduction, SequenceTheorems, FiniteSetTheorems

Lines == [id : Nat, by : Loggers, verbose : BOOLEAN, debug : BOOLEAN]
Rows == FailureRows \cup {"result", "evidence"}
Outcomes == {"none", "succeeded", "failed", "cancelled"}
Labels == Outcomes \cup {"preparing", "cleanup"}
Kinds == {"name", "about", "formats", "base"}

Stores ==
  [disk : [Names -> Profile], common : Names,
   loaded : [profile : Names, options : Options, settings : Settings, base : BOOLEAN],
   form : [edit : 0 .. 1, assets : 0 .. 1, debug : BOOLEAN]]

Modals ==
  [open : SUBSET Kinds, closing : Nat, depth : Nat, blocked : BOOLEAN, tutorials : Nat]

Views ==
  [run : Nat, label : [of : Labels, marks : Nat], details : Seq(Rows), active : BOOLEAN,
   cancelRequested : BOOLEAN, closeRequested : BOOLEAN, outcome : Outcomes, sequence : Nat]

Works ==
  [run : Nat, stage : {"idle", "working", "cleanup", "committed", "ended"}, profile : Names,
   cancelled : BOOLEAN, sequence : Nat, failures : Seq(FailureRows), outcome : Outcomes,
   settings : Settings, tutorials : Nat]

Events ==
  [run : Nat, sequence : Nat, kind : {"phase"}, of : {"cleanup"}, failures : Seq(FailureRows)]
  \cup [run : Nat, sequence : Nat, kind : {"terminal"}, of : Outcomes,
        failures : Seq(FailureRows)]
  \cup [run : Nat, sequence : Nat, kind : {"failure"}, of : FailureRows,
        failures : Seq(FailureRows)]

Logs ==
  [path : Names, debug : BOOLEAN, history : Seq(Lines), attached : BOOLEAN, reset : BOOLEAN,
   lines : Seq(Lines)]

Allowances ==
  [selections : Nat, dialogs : Nat, edits : Nat, toggles : Nat, starts : Nat, records : Nat,
   faults : Nat]

(* What each variable may hold.                                            *)
WindowTypeOK ==
  /\ store \in Stores
  /\ listed \in SUBSET Names
  /\ modal \in Modals /\ newName \in Names
  /\ view \in Views /\ active \in Nat /\ windows \in SUBSET Nat /\ locked \in BOOLEAN
  /\ ui \in [shown : BOOLEAN, running : BOOLEAN, cancelling : BOOLEAN]
  /\ slot \in Nat /\ work \in Works /\ events \in Seq(Events)
  /\ log \in Logs /\ runLog \in Names \cup {NoPath} /\ drains \in Nat
  /\ writing \in [Loggers -> [stage : {"idle", "formatting", "waking"}, verbose : BOOLEAN]]
  /\ budget \in Allowances

(* The window is blocked while a dialog is open or waits to be torn down.  *)
Counted(m) ==
  /\ m.depth = Cardinality(m.open) + m.closing
  /\ m.blocked <=> m.depth > 0

Guarded == Counted(modal)

(* The events posted and not yet delivered are the last of the run's, and  *)
(* the terminal one is the last of all.                                    *)
Posting ==
  /\ work.run = view.run
  /\ work.sequence = view.sequence + Len(events)
  /\ work.stage = "idle" => events = <<>>
  /\ \A i \in 1 .. Len(events) :
       /\ events[i].run = work.run
       /\ events[i].sequence = view.sequence + i
       /\ events[i].kind = "terminal" <=> work.stage = "ended" /\ i = Len(events)

(* A run is in flight until its terminal event is delivered.               *)
InFlight ==
  /\ active # NoRun <=> work.stage \notin {"idle", "ended"} \/ events # <<>>
  /\ view.active <=> active # NoRun
  /\ active # NoRun => active = view.run /\ active \in windows
  /\ slot = IF work.stage \in {"working", "cleanup"} THEN work.run ELSE NoRun

(* The settings saved are those the controls show.                         *)
SavedAsShown(s, p) ==
  Readable(s.loaded.settings) => s.disk[p].settings = ReadSettings(s.form, s.loaded.settings)

(* What a run in flight holds: without a tutorial pending when it started, *)
(* no dialog but About is open.                                            *)
Holding ==
  /\ active # NoRun =>
       /\ locked /\ ui.running /\ ui.shown
       /\ work.settings.state # "absent" => store.disk[work.profile].settings = work.settings
       /\ work.tutorials = 0 =>
            /\ modal.tutorials = 0 /\ modal.open \subseteq {"about"}
            /\ store.loaded.profile = work.profile
            /\ runLog # NoPath => log.path = runLog
            /\ Readable(store.loaded.settings) => ShownSettings = work.settings
  /\ active = NoRun /\ ui.shown => ~locked

(* The rows listed once the first n events are delivered.                  *)
RowsAfter(n) ==
  IF n = 0 THEN Len(view.details)
  ELSE Len(events[n].failures) + (IF events[n].kind = "failure" THEN 1 ELSE 0)

(* The rows listed are the first of the run's failures, and each event     *)
(* posted carries on where the one before it leaves off.                   *)
Listing ==
  /\ view.active =>
       /\ view.outcome = "none"
       /\ Len(view.details) <= Len(work.failures)
       /\ \A i \in 1 .. Len(view.details) : view.details[i] = work.failures[i]
  /\ \A i \in 1 .. Len(events) :
       IF events[i].kind = "terminal" THEN events[i].failures = work.failures
       ELSE /\ Len(events[i].failures) = RowsAfter(i - 1)
            /\ events[i].kind = "failure" =>
                 /\ Len(events[i].failures) < Len(work.failures)
                 /\ events[i].of = work.failures[Len(events[i].failures) + 1]
  /\ work.stage \in {"working", "cleanup"} => RowsAfter(Len(events)) = Len(work.failures)
  /\ FailuresListedOnce

(* What the window loaded of a profile that can be read is still its       *)
(* profile's.                                                              *)
AtHome(s) ==
  LET disk == s.disk[s.loaded.profile]
  IN Readable(s.loaded.settings) =>
       Readable(disk.settings) /\ disk.settings.caps = s.loaded.settings.caps

(* The settings a step may write: those a profile did not have, and those  *)
(* of the loaded profile if they can be read, with their own capabilities. *)
Home(s, new) ==
  \A p \in Names : new.disk[p].settings # s.disk[p].settings =>
    \/ s.disk[p].settings.state = "absent"
    \/ /\ p = s.loaded.profile /\ Readable(s.disk[p].settings)
       /\ new.disk[p].settings.caps = s.disk[p].settings.caps

Entries == [kind : {"log"}, of : Lines]
LogRows(lines) == [i \in 1 .. Len(lines) |-> LogRow(lines[i])]
DetailRows(details) == [i \in 1 .. Len(details) |-> DetailRow(details[i])]

(* With the rows that wait in the feed, the log's rows of the tab come to  *)
(* the session's newest.                                                   *)
Told(l, shown) ==
  /\ l.attached
  /\ Len(l.history) <= MaxFeedRows /\ Len(l.lines) <= MaxFeedRows
  /\ Newest((IF l.reset THEN <<>> ELSE shown) \o LogRows(l.lines)) = LogRows(l.history)
  /\ \A i \in 1 .. Len(l.history) : l.history[i].verbose => l.history[i].debug

(* The feed is idle, or a drain is posted or about to be.                  *)
Woken == Wakes(log) \/ drains > 0 \/ \E t \in Loggers : writing[t].stage = "waking"

Tabbed ==
  /\ \E shown \in Seq(Entries) : rows = shown \o DetailRows(view.details) /\ Told(log, shown)
  /\ Woken

(* The least member of a set of numbers.                                   *)
LEMMA Least ==
  ASSUME NEW S \in SUBSET Nat, S # {}
  PROVE  \E i \in S : \A j \in S : i <= j
<1>1. PICK i \in S : \A j \in S : <<j, i>> \notin OpToRel(<, Nat)
  BY NatLessThanWellFounded, WFMin, Zenon
<1>2. \A j \in S : ~(j < i)
  <2> SUFFICES ASSUME NEW j \in S, j < i PROVE FALSE
    OBVIOUS
  <2>1. <<j, i>> \in Nat \X Nat /\ j < i
    OBVIOUS
  <2>2. <<j, i>>[1] < <<j, i>>[2]
    BY <2>1
  <2>3. <<j, i>> \in OpToRel(<, Nat)
    BY <2>1, <2>2, Zenon DEF OpToRel
  <2>4. QED
    BY <1>1, <2>3, Zenon
<1>3. QED
  BY <1>2

(***************************************************************************)
(* Profiles: what reading, saving and creating them leave.                 *)
(***************************************************************************)
LEMMA LoadingLeaves ==
  ASSUME NEW s \in Stores, NEW p \in Names, NEW fails
  PROVE  LET new == Loading(s, p, fails)
         IN /\ new \in Stores
            /\ new.loaded.profile = p /\ new.disk = s.disk
            /\ Readable(new.loaded.settings) => new.loaded.settings = s.disk[p].settings
<1> DEFINE settings == LoadSettings(s, p, fails)
           options == LoadOptions(s, p, fails)
           shown == IF Readable(settings) THEN ShowSettings(s.form, settings) ELSE s.form
           form == ShowOptions(shown, options)
           kept == Remembered(s, p, fails)
           base == s.disk[p].base
           new == Loading(s, p, fails)
<1>1. settings \in Settings /\ (Readable(settings) => settings = s.disk[p].settings)
  BY DefaultAssumption DEF LoadSettings, Readable, NoSettings, Settings, Stores, Profile
<1>2. options \in Options
  BY DEF LoadOptions, Options, Stores, Profile
<1>3. s.form \in [edit : 0 .. 1, assets : 0 .. 1, debug : BOOLEAN]
  BY DEF Stores
<1>4. shown \in [edit : 0 .. 1, assets : 0 .. 1, debug : BOOLEAN]
  BY <1>1, <1>3 DEF ShowSettings, Settings
<1>5. form \in [edit : 0 .. 1, assets : 0 .. 1, debug : BOOLEAN]
  BY <1>2, <1>4 DEF ShowOptions, Options
<1>6. kept \in Stores /\ kept.disk = s.disk
  BY DEF Remembered, Updated, Stores
<1>7. new = [kept EXCEPT !.loaded = [profile |-> p, options |-> options, settings |-> settings,
                                     base |-> base],
                         !.form = form]
  BY DEF Loading
<1>8. base \in BOOLEAN
  BY DEF Stores, Profile
<1> HIDE DEF settings, options, shown, form, kept, base, new
<1>9. /\ new \in Stores /\ new.disk = s.disk
      /\ new.loaded = [profile |-> p, options |-> options, settings |-> settings, base |-> base]
  BY <1>1, <1>2, <1>5, <1>6, <1>7, <1>8 DEF Stores
<1>10. QED
  BY <1>1, <1>9 DEF new

(* While a run holds the window only the profile's name is remembered.     *)
LEMMA HeldSavesNothing ==
  ASSUME NEW s \in Stores, NEW fails
  PROVE  /\ Saving(s, TRUE, fails).disk = s.disk /\ Saving(s, TRUE, fails).form = s.form
         /\ Saving(s, TRUE, fails).loaded = s.loaded
<1>1. Saving(s, TRUE, fails) = Remembered(s, s.loaded.profile, fails)
  BY DEF Saving
<1>2. QED
  BY <1>1 DEF Remembered, Stores

(* Saving writes the loaded profile's files alone, and its settings only if *)
(* they were read.                                                         *)
LEMMA SavingLeaves ==
  ASSUME NEW s \in Stores, NEW held \in BOOLEAN, NEW fails
  PROVE  LET new == Saving(s, held, fails)
             p == s.loaded.profile
             read == ReadSettings(s.form, s.loaded.settings)
         IN /\ new \in Stores
            /\ new.loaded.profile = p /\ new.form = s.form
            /\ \A q \in Names \ {p} : new.disk[q].settings = s.disk[q].settings
            /\ held => new.loaded = s.loaded /\ new.disk = s.disk
            /\ ~Readable(s.loaded.settings) =>
                 /\ new.loaded.settings = s.loaded.settings
                 /\ new.disk[p].settings = s.disk[p].settings
            /\ ~held /\ Readable(s.loaded.settings) =>
                 /\ new.loaded.settings = read
                 /\ new.disk[p].settings = IF "saveSettings" \in fails THEN s.disk[p].settings ELSE read
<1> DEFINE p == s.loaded.profile
           kept == Remembered(s, p, fails)
<1>1. p \in Names
  BY DEF Stores
<1>2. kept \in Stores /\ kept.disk = s.disk /\ kept.loaded = s.loaded /\ kept.form = s.form
  BY <1>1 DEF Remembered, Updated, Stores
<1> DEFINE options == ReadOptions(kept.form, kept.loaded.options, Readable(kept.loaded.settings))
           file == Updated(kept.disk[p].options,
                           [there |-> TRUE, assets |-> options.assets, debug |-> options.debug],
                           "saveOptions" \in fails)
           one == SavingOptions(kept, fails)
<1>3. options \in Options /\ file \in [there : BOOLEAN, assets : 0 .. 1, debug : BOOLEAN]
  BY <1>1, <1>2 DEF ReadOptions, Options, Stores, Profile, Updated
<1>4. one = [kept EXCEPT !.loaded.options = options, !.disk[p].options = file]
  BY <1>2 DEF SavingOptions
<1> HIDE DEF kept, options, file, one
<1>5. /\ one \in Stores /\ one.form = s.form /\ one.loaded.profile = p
      /\ one.loaded.settings = s.loaded.settings
      /\ \A q \in Names : one.disk[q].settings = s.disk[q].settings
  <2> DEFINE loaded == [kept.loaded EXCEPT !.options = options]
             profile == [kept.disk[p] EXCEPT !.options = file]
             disk == [kept.disk EXCEPT ![p] = profile]
  <2>1. /\ loaded \in [profile : Names, options : Options, settings : Settings, base : BOOLEAN]
        /\ loaded.profile = p /\ loaded.settings = s.loaded.settings
    BY <1>2, <1>3 DEF Stores
  <2>2. profile \in Profile /\ profile.settings = s.disk[p].settings
    BY <1>1, <1>2, <1>3 DEF Stores, Profile
  <2>3. /\ disk \in [Names -> Profile]
        /\ \A q \in Names : disk[q].settings = s.disk[q].settings
    <3> HIDE DEF profile
    <3>1. QED
      BY <1>1, <1>2, <2>2 DEF Stores
  <2>4. one = [kept EXCEPT !.loaded = loaded, !.disk = disk]
    BY <1>2, <1>4 DEF Stores
  <2> HIDE DEF loaded, disk, profile
  <2>5. QED
    BY <1>2, <2>1, <2>3, <2>4 DEF Stores
<1>6. CASE held
  BY <1>2, <1>6 DEF Saving, kept
<1>7. CASE ~held /\ ~Readable(s.loaded.settings)
  <2>1. Saving(s, held, fails) = one
    BY <1>5, <1>7 DEF Saving, SavingSettings, one, kept
  <2>2. QED
    BY <1>1, <1>5, <1>7, <2>1
<1>8. CASE ~held /\ Readable(s.loaded.settings)
  <2> DEFINE settings == ReadSettings(one.form, one.loaded.settings)
             new == Saving(s, held, fails)
             entry == Updated(one.disk[p].settings, settings, "saveSettings" \in fails)
             loaded == [one.loaded EXCEPT !.settings = settings]
             profile == [one.disk[p] EXCEPT !.settings = entry]
             disk == [one.disk EXCEPT ![p] = profile]
  <2>1. new = [one EXCEPT !.loaded.settings = settings, !.disk[p].settings = entry]
    BY <1>5, <1>8 DEF Saving, SavingSettings, one, kept
  <2>2. settings \in Settings /\ settings = ReadSettings(s.form, s.loaded.settings)
    BY <1>5 DEF ReadSettings, Stores, Settings
  <2>3. entry \in Settings /\ entry = IF "saveSettings" \in fails THEN s.disk[p].settings ELSE settings
    BY <1>1, <1>5, <2>2 DEF Updated, Stores, Profile
  <2> HIDE DEF settings, entry
  <2>4. /\ loaded \in [profile : Names, options : Options, settings : Settings, base : BOOLEAN]
        /\ loaded.profile = p /\ loaded.settings = settings
    BY <1>5, <2>2 DEF Stores
  <2>5. profile \in Profile /\ profile.settings = entry
    BY <1>1, <1>5, <2>3 DEF Stores, Profile
  <2>6. /\ disk \in [Names -> Profile] /\ disk[p].settings = entry
        /\ \A q \in Names \ {p} : disk[q].settings = s.disk[q].settings
    <3> HIDE DEF profile
    <3>1. QED
      BY <1>1, <1>5, <2>5 DEF Stores
  <2>7. new = [one EXCEPT !.loaded = loaded, !.disk = disk]
    BY <1>5, <2>1 DEF Stores
  <2> HIDE DEF loaded, disk, profile, new
  <2>8. /\ new \in Stores /\ new.loaded = loaded /\ new.disk = disk /\ new.form = s.form
    BY <1>5, <2>4, <2>6, <2>7 DEF Stores
  <2>9. QED
    BY <1>8, <2>2, <2>3, <2>4, <2>6, <2>8 DEF new
<1>9. QED
  BY <1>6, <1>7, <1>8

(* A profile that is created, whole or in part, keeps the settings it had, *)
(* and no other profile changes.                                           *)
KeepsSettings(disk, new, name) ==
  /\ new \in [Names -> Profile]
  /\ \A q \in Names : new[q].settings # disk[q].settings =>
       q = name /\ disk[q].settings.state = "absent"

(* Creating a profile, whole or in part, copies only what it did not have. *)
LEMMA CreatingLeaves ==
  ASSUME NEW disk \in [Names -> Profile], NEW name \in Names, NEW base \in Names
  PROVE  /\ KeepsSettings(disk, Create(disk, name, base), name)
         /\ \A new \in Partial(disk, name, base) : KeepsSettings(disk, new, name)
<1> DEFINE from == Resolve(disk, base)
<1>1. from \in Names
  BY DefaultAssumption DEF Resolve
<1>2. ASSUME NEW files \in SUBSET Missing(disk, from, name)
      PROVE  /\ CopyMissing(disk, from, name, files) \in [Names -> Profile]
             /\ \A q \in Names :
                  CopyMissing(disk, from, name, files)[q].settings # disk[q].settings =>
                    q = name /\ disk[q].settings.state = "absent"
  <2> DEFINE made == [settings |-> IF "settings" \in files THEN disk[from].settings ELSE disk[name].settings,
                      options |-> IF "options" \in files THEN disk[from].options ELSE disk[name].options,
                      base |-> "isBase" \in files \/ disk[name].base]
  <2>1. made \in Profile
    BY <1>1 DEF Profile
  <2>2. made.settings # disk[name].settings => disk[name].settings.state = "absent"
    <3>1. "settings" \in files => "settings" \notin Has(disk[name])
      BY DEF Missing
    <3>2. "settings" \notin Has(disk[name]) => disk[name].settings.state = "absent"
      BY DEF Has, Files
    <3>3. QED
      BY <3>1, <3>2
  <2>3. CopyMissing(disk, from, name, files) = [disk EXCEPT ![name] = made]
    BY DEF CopyMissing
  <2> HIDE DEF made
  <2>4. QED
    BY <2>1, <2>2, <2>3
<1>3. \A new \in Partial(disk, name, base) : KeepsSettings(disk, new, name)
  BY <1>2 DEF Partial, KeepsSettings
<1>4. KeepsSettings(disk, Create(disk, name, base), name)
  <2> DEFINE copied == CopyMissing(disk, from, name, Missing(disk, from, name))
             bare == [copied[name] EXCEPT !.base = FALSE]
             new == Create(disk, name, base)
  <2>1. /\ copied \in [Names -> Profile]
        /\ \A q \in Names : copied[q].settings # disk[q].settings =>
             q = name /\ disk[q].settings.state = "absent"
    BY <1>2
  <2>2. new = [copied EXCEPT ![name].base = FALSE]
    BY DEF Create
  <2> HIDE DEF copied, new
  <2>3. bare \in Profile /\ bare.settings = copied[name].settings
    BY <2>1 DEF Profile
  <2>4. new = [copied EXCEPT ![name] = bare]
    BY <2>2
  <2> HIDE DEF bare
  <2>5. KeepsSettings(disk, new, name)
    BY <2>1, <2>3, <2>4 DEF KeepsSettings
  <2>6. QED
    BY <2>5 DEF new
<1>5. QED
  BY <1>3, <1>4

(***************************************************************************)
(* The rows of a run: how often a text stands in a list, and what the      *)
(* result's failures add to the rows streamed.                             *)
(***************************************************************************)
Among(rws, k, row) == Cardinality({i \in 1 .. k : rws[i] = row})

(* One row more among the first k.                                         *)
LEMMA AmongOneMore ==
  ASSUME NEW k \in Nat, k # 0, NEW rws, NEW row
  PROVE  /\ Among(rws, k, row) \in Nat /\ Among(rws, k - 1, row) \in Nat
         /\ Among(rws, k, row) = Among(rws, k - 1, row) + (IF rws[k] = row THEN 1 ELSE 0)
<1> DEFINE before == {i \in 1 .. (k - 1) : rws[i] = row}
           upto == {i \in 1 .. k : rws[i] = row}
<1>1. IsFiniteSet(before) /\ IsFiniteSet(upto)
  <2>1. IsFiniteSet(1 .. k) /\ IsFiniteSet(1 .. (k - 1))
    BY FS_Interval
  <2>2. before \subseteq 1 .. (k - 1) /\ upto \subseteq 1 .. k
    OBVIOUS
  <2> HIDE DEF before, upto
  <2>3. QED
    BY <2>1, <2>2, FS_Subset
<1>2. Cardinality(upto) \in Nat /\ Cardinality(before) \in Nat
  BY <1>1, FS_CardinalityType
<1>3. /\ k \notin before
      /\ upto = IF rws[k] = row THEN before \cup {k} ELSE before
  OBVIOUS
<1> HIDE DEF before, upto
<1>4. CASE rws[k] = row
  <2>1. Cardinality(upto) = Cardinality(before) + 1
    BY <1>1, <1>3, <1>4, FS_AddElement
  <2>2. QED
    BY <1>2, <1>4, <2>1 DEF Among, before, upto
<1>5. CASE rws[k] # row
  <2>1. Cardinality(upto) = Cardinality(before) + 0
    BY <1>2, <1>3, <1>5
  <2>2. QED
    BY <1>2, <1>5, <2>1 DEF Among, before, upto
<1>6. QED
  BY <1>4, <1>5

LEMMA AmongNone == \A rws, row : Among(rws, 0, row) = 0
<1>1. TAKE rws, row
<1>2. {i \in 1 .. 0 : rws[i] = row} = {}
  OBVIOUS
<1>3. QED
  BY <1>2, FS_EmptySet DEF Among

(* Counting the whole list is counting its first rows up to its length.    *)
LEMMA CountIsAmong ==
  ASSUME NEW S, NEW rws \in Seq(S), NEW row
  PROVE  /\ Count(rws, row) = Among(rws, Len(rws), row)
         /\ Count(rws, row) \in Nat
<1>1. DOMAIN rws = 1 .. Len(rws) /\ Len(rws) \in Nat
  OBVIOUS
<1>2. Count(rws, row) = Among(rws, Len(rws), row)
  BY <1>1 DEF Count, Among
<1>3. IsFiniteSet({i \in 1 .. Len(rws) : rws[i] = row})
  <2>1. IsFiniteSet(1 .. Len(rws))
    BY <1>1, FS_Interval
  <2>2. {i \in 1 .. Len(rws) : rws[i] = row} \subseteq 1 .. Len(rws)
    OBVIOUS
  <2>3. QED
    BY <2>1, <2>2, FS_Subset
<1>4. Among(rws, Len(rws), row) \in Nat
  BY <1>3, FS_CardinalityType DEF Among
<1>5. QED
  BY <1>2, <1>4

(* What appending adds to a count.                                         *)
LEMMA CountAppended ==
  ASSUME NEW S, NEW rws \in Seq(S), NEW x \in S, NEW row
  PROVE  Count(Append(rws, x), row) = Count(rws, row) + (IF x = row THEN 1 ELSE 0)
<1> DEFINE longer == Append(rws, x)
           n == Len(rws)
<1>1. /\ longer \in Seq(S) /\ Len(longer) = n + 1 /\ n \in Nat /\ longer[n + 1] = x
      /\ \A i \in 1 .. n : longer[i] = rws[i]
  OBVIOUS
<1> HIDE DEF longer, n
<1>2. Count(longer, row) = Among(longer, n + 1, row)
  BY <1>1, CountIsAmong
<1>3. Among(longer, n + 1, row) = Among(longer, n, row) + (IF x = row THEN 1 ELSE 0)
  <2>1. n + 1 \in Nat /\ n + 1 # 0 /\ (n + 1) - 1 = n
    BY <1>1
  <2>2. QED
    BY <1>1, <2>1, AmongOneMore
<1>4. Among(longer, n, row) = Among(rws, n, row)
  <2>1. {i \in 1 .. n : longer[i] = row} = {i \in 1 .. n : rws[i] = row}
    BY <1>1
  <2>2. QED
    BY <2>1 DEF Among
<1>5. Among(rws, n, row) = Count(rws, row)
  BY CountIsAmong DEF n
<1>6. QED
  BY <1>2, <1>3, <1>4, <1>5 DEF longer

(* A prefix holds no more of a text than the list.                         *)
LEMMA FewerInAPrefix ==
  ASSUME NEW S, NEW T, NEW few \in Seq(S), NEW many \in Seq(T), Len(few) <= Len(many),
         \A i \in 1 .. Len(few) : few[i] = many[i], NEW row
  PROVE  Count(few, row) <= Count(many, row)
<1> DEFINE A == {i \in 1 .. Len(few) : few[i] = row}
           B == {i \in 1 .. Len(many) : many[i] = row}
<1>1. A \subseteq B
  OBVIOUS
<1>2. IsFiniteSet(B)
  <2>1. IsFiniteSet(1 .. Len(many)) /\ B \subseteq 1 .. Len(many)
    BY FS_Interval
  <2>2. QED
    BY <2>1, FS_Subset
<1>3. Count(few, row) = Cardinality(A) /\ Count(many, row) = Cardinality(B)
  BY CountIsAmong, Zenon DEF Among
<1> HIDE DEF A, B
<1>4. Cardinality(A) <= Cardinality(B)
  BY <1>1, <1>2, FS_Subset
<1>5. QED
  BY <1>3, <1>4

(* A function defined from each number to the next exists.                 *)
Follows(after, n, start, g) ==
  after[0] = start /\ \A k \in 1 .. n : after[k] = g[<<k, after[k - 1]>>]

(* A walk that takes each step from the one before it exists.              *)
LEMMA OneAfterAnother ==
  ASSUME NEW n \in Nat, NEW S, NEW start \in S, NEW g \in [(1 .. n) \X S -> S]
  PROVE  \E after \in [0 .. n -> S] : Follows(after, n, start, g)
<1> DEFINE Reaches(m) == \E a \in [0 .. m -> S] :
             a[0] = start /\ \A k \in 1 .. m : a[k] = g[<<k, a[k - 1]>>]
           Bad == {m \in 0 .. n : ~Reaches(m)}
<1>1. Reaches(0)
  <2> DEFINE a == [i \in 0 .. 0 |-> start]
  <2>1. a \in [0 .. 0 -> S] /\ a[0] = start /\ \A k \in 1 .. 0 : a[k] = g[<<k, a[k - 1]>>]
    OBVIOUS
  <2> HIDE DEF a
  <2>2. QED
    BY <2>1
<1>2. ASSUME NEW m \in 1 .. n, Reaches(m - 1) PROVE Reaches(m)
  <2>1. PICK a \in [0 .. (m - 1) -> S] :
          a[0] = start /\ \A k \in 1 .. (m - 1) : a[k] = g[<<k, a[k - 1]>>]
    BY <1>2
  <2> DEFINE x == g[<<m, a[m - 1]>>]
             b == [i \in 0 .. m |-> IF i = m THEN x ELSE a[i]]
  <2>2. a[m - 1] \in S /\ m - 1 \in 0 .. (m - 1) /\ x \in S
    OBVIOUS
  <2>3. \A i \in 0 .. m : i # m => i \in 0 .. (m - 1) /\ a[i] \in S
    OBVIOUS
  <2> HIDE DEF x
  <2>4. /\ b \in [0 .. m -> S] /\ b[m] = x
        /\ \A i \in 0 .. (m - 1) : b[i] = a[i]
    BY <2>2, <2>3
  <2> HIDE DEF b
  <2>5. b[0] = start
    BY <2>1, <2>4
  <2>6. ASSUME NEW k \in 1 .. m PROVE b[k] = g[<<k, b[k - 1]>>]
    <3>1. b[k - 1] = a[k - 1]
      BY <2>4
    <3>2. CASE k = m
      BY <2>4, <3>1, <3>2 DEF x
    <3>3. CASE k # m
      <4>1. k \in 1 .. (m - 1) /\ k \in 0 .. (m - 1)
        BY <3>3
      <4>2. QED
        BY <2>1, <2>4, <3>1, <4>1
    <3>4. QED
      BY <3>2, <3>3
  <2>7. QED
    BY <2>4, <2>5, <2>6
<1> HIDE DEF Reaches
<1>3. Bad = {}
  <2> SUFFICES ASSUME Bad # {} PROVE FALSE
    OBVIOUS
  <2>1. Bad \in SUBSET Nat
    OBVIOUS
  <2>2. PICK m \in Bad : \A j \in Bad : m <= j
    BY <2>1, Least
  <2>3. m \in 1 .. n /\ m - 1 \in 0 .. n
    BY <1>1, <2>2
  <2>4. m - 1 \notin Bad
    BY <2>2, <2>3
  <2>5. QED
    BY <1>2, <2>2, <2>3, <2>4
<1>4. Reaches(n)
  BY <1>3
<1>5. QED
  BY <1>4 DEF Reaches, Follows

(* What was listed stays listed, in its place.                             *)
Extends(old, new) == Len(old) <= Len(new) /\ \A i \in 1 .. Len(old) : new[i] = old[i]

(* Extending is reflexive and survives an append.                          *)
LEMMA ExtendsMore ==
  ASSUME NEW S, NEW old \in Seq(S), NEW new \in Seq(S), NEW x \in S
  PROVE  /\ Extends(old, old)
         /\ Extends(old, new) => Extends(old, Append(new, x))
<1>1. Extends(old, old)
  BY DEF Extends
<1>2. ASSUME Extends(old, new) PROVE Extends(old, Append(new, x))
  <2>1. /\ Len(Append(new, x)) = Len(new) + 1 /\ \A i \in 1 .. Len(new) : Append(new, x)[i] = new[i]
        /\ Len(old) \in Nat /\ Len(new) \in Nat
    OBVIOUS
  <2>2. QED
    BY <1>2, <2>1 DEF Extends
<1>3. QED
  BY <1>1, <1>2

(* What the result's failures add, one after another: a text is listed as  *)
(* often as it was streamed or has failed so far, whichever is more, and   *)
(* what is left of the streamed rows is the difference.                    *)
Listings(details, failures, after, k, row) ==
  LET shown == Count(details, row)
      failed == Among(failures, k, row)
  IN /\ after[k].streamed[row] = IF failed < shown THEN shown - failed ELSE 0
     /\ Count(after[k].details, row) = IF failed < shown THEN shown ELSE failed

(* Absorbing a result's failures lists each text as often as the more      *)
(* frequent of the two lists.                                              *)
LEMMA FailuresAdd ==
  ASSUME NEW details \in Seq(Rows), NEW failures \in Seq(FailureRows)
  PROVE  LET all == WithFailures(details, failures)
         IN /\ all \in Seq(Rows) /\ Extends(details, all)
            /\ \A row \in FailureRows :
                 Count(all, row) = IF Count(failures, row) < Count(details, row)
                                     THEN Count(details, row) ELSE Count(failures, row)
<1> DEFINE n == Len(failures)
           L == [streamed : [FailureRows -> Nat], details : Seq(Rows)]
           start == [streamed |-> Streamed(details), details |-> details]
           g == [p \in (1 .. n) \X L |-> Absorb(p[2], failures[p[1]])]
           Body(F) == [k \in 0 .. n |-> IF k = 0 THEN start ELSE Absorb(F[k - 1], failures[k])]
           G == CHOOSE F : F = Body(F)
<1>1. n \in Nat /\ \A k \in 1 .. n : failures[k] \in FailureRows
  OBVIOUS
<1>2. start \in L
  BY CountIsAmong DEF Streamed
<1>3. ASSUME NEW l \in L, NEW row \in FailureRows
      PROVE  /\ Absorb(l, row) \in L
             /\ \A r \in FailureRows :
                  /\ Absorb(l, row).streamed[r] =
                       IF r = row /\ l.streamed[row] > 0 THEN l.streamed[r] - 1 ELSE l.streamed[r]
                  /\ Count(Absorb(l, row).details, r) =
                       IF r = row /\ l.streamed[row] = 0
                         THEN Count(l.details, r) + 1 ELSE Count(l.details, r)
  <2>1. /\ l.streamed \in [FailureRows -> Nat] /\ l.details \in Seq(Rows) /\ row \in Rows
        /\ l.streamed[row] \in Nat
    BY DEF Rows
  <2>2. CASE l.streamed[row] > 0
    <3> DEFINE less == [l.streamed EXCEPT ![row] = @ - 1]
    <3>1. /\ less \in [FailureRows -> Nat]
          /\ \A r \in FailureRows : less[r] = IF r = row THEN l.streamed[r] - 1 ELSE l.streamed[r]
      BY <2>1, <2>2
    <3>2. Absorb(l, row) = [l EXCEPT !.streamed = less]
      BY <2>2 DEF Absorb
    <3> HIDE DEF less
    <3>3. Absorb(l, row) \in L /\ Absorb(l, row).streamed = less /\ Absorb(l, row).details = l.details
      BY <2>1, <3>1, <3>2
    <3>4. l.streamed[row] # 0
      BY <2>2
    <3>5. QED
      BY <2>2, <3>1, <3>3, <3>4
  <2>3. CASE ~(l.streamed[row] > 0)
    <3> DEFINE more == Append(l.details, row)
    <3>1. more \in Seq(Rows) /\ l.streamed[row] = 0
      BY <2>1, <2>3
    <3>2. Absorb(l, row) = [l EXCEPT !.details = more]
      BY <2>3 DEF Absorb
    <3>3. \A r : Count(more, r) = Count(l.details, r) + (IF row = r THEN 1 ELSE 0)
      BY <2>1, CountAppended
    <3>4. \A r : Count(l.details, r) \in Nat
      BY <2>1, CountIsAmong
    <3> HIDE DEF more
    <3>5. Absorb(l, row) \in L /\ Absorb(l, row).streamed = l.streamed /\ Absorb(l, row).details = more
      BY <2>1, <3>1, <3>2
    <3>6. \A r : Count(more, r) = IF r = row THEN Count(l.details, r) + 1 ELSE Count(l.details, r)
      BY <3>3, <3>4
    <3>7. QED
      BY <2>3, <3>1, <3>5, <3>6
  <2>4. QED
    BY <2>2, <2>3
<1>4. g \in [(1 .. n) \X L -> L]
  <2>1. \A p \in (1 .. n) \X L : Absorb(p[2], failures[p[1]]) \in L
    BY <1>1, <1>3
  <2>2. QED
    BY <2>1
<1>5. WithFailures(details, failures) = G[n].details
  BY Zenon DEF WithFailures
<1> HIDE DEF L, g, start, n
<1>6. PICK after \in [0 .. n -> L] : Follows(after, n, start, g)
  BY <1>1, <1>2, <1>4, OneAfterAnother
<1>7. after[0] = start /\ \A k \in 1 .. n : after[k] = g[<<k, after[k - 1]>>]
  BY <1>6 DEF Follows
<1>8. ASSUME NEW k \in 1 .. n
      PROVE  k - 1 \in 0 .. n /\ after[k - 1] \in L /\ after[k] = Absorb(after[k - 1], failures[k])
  <2>1. k - 1 \in 0 .. n /\ after[k - 1] \in L
    BY <1>1, <1>6
  <2>2. <<k, after[k - 1]>> \in (1 .. n) \X L
    BY <2>1
  <2>3. QED
    BY <1>7, <2>1, <2>2 DEF g
<1>9. after = Body(after)
  <2>1. \A k \in 0 .. n : k # 0 => k \in 1 .. n
    BY <1>1
  <2>2. after = [k \in 0 .. n |-> after[k]]
    BY <1>6
  <2>3. QED
    BY <1>6, <1>7, <1>8, <2>1, <2>2
<1>10. G = Body(G)
  BY <1>9, Zenon
<1> HIDE DEF G
<1>11. G = after
  <2> DEFINE Bad == {k \in 0 .. n : G[k] # after[k]}
  <2> DEFINE H == [k \in 0 .. n |-> IF k = 0 THEN start ELSE Absorb(G[k - 1], failures[k])]
  <2>1. /\ H[0] = start /\ DOMAIN H = 0 .. n /\ H = [k \in 0 .. n |-> H[k]]
        /\ \A k \in 1 .. n : H[k] = Absorb(G[k - 1], failures[k])
    BY <1>1
  <2> HIDE DEF H
  <2>2. G = H
    BY <1>10, Zenon DEF H
  <2>3. /\ G[0] = start /\ DOMAIN G = 0 .. n /\ G = [k \in 0 .. n |-> G[k]]
        /\ \A k \in 1 .. n : G[k] = Absorb(G[k - 1], failures[k])
    BY <2>1, <2>2
  <2>4. Bad = {}
    <3> SUFFICES ASSUME Bad # {} PROVE FALSE
      OBVIOUS
    <3>1. Bad \in SUBSET Nat
      BY <1>1
    <3>2. PICK m \in Bad : \A j \in Bad : m <= j
      BY <3>1, Least
    <3>3. m \in 1 .. n
      BY <1>1, <1>7, <2>3, <3>2
    <3>4. m - 1 \in 0 .. n /\ m - 1 \notin Bad
      BY <1>1, <3>2, <3>3
    <3>5. QED
      BY <1>8, <2>3, <3>2, <3>3, <3>4
  <2>5. QED
    BY <1>6, <2>3, <2>4
<1> DEFINE Holds(k) == /\ Extends(details, after[k].details)
                       /\ \A row \in FailureRows : Listings(details, failures, after, k, row)
           Bad == {k \in 0 .. n : ~Holds(k)}
<1>12. \A row \in FailureRows : Count(details, row) \in Nat
  BY CountIsAmong
<1>13. Holds(0)
  <2>1. after[0].details = details /\ Extends(details, details)
    <3>1. "result" \in Rows
      BY DEF Rows
    <3>2. QED
      BY <1>7, <3>1, ExtendsMore DEF start
  <2>2. QED
    BY <1>7, <1>12, <2>1, AmongNone DEF Listings, start, Streamed
<1>14. ASSUME NEW k \in 1 .. n, Holds(k - 1) PROVE Holds(k)
  <2>8. Extends(details, after[k].details)
    <3>1. after[k - 1] \in L /\ after[k] = Absorb(after[k - 1], failures[k]) /\ failures[k] \in Rows
      BY <1>1, <1>8 DEF Rows
    <3>2. after[k - 1].details \in Seq(Rows) /\ Extends(details, after[k - 1].details)
      BY <1>14, <3>1 DEF L
    <3>3. after[k].details = after[k - 1].details \/ after[k].details = Append(after[k - 1].details, failures[k])
      BY <3>1 DEF Absorb, L
    <3>4. Extends(details, Append(after[k - 1].details, failures[k]))
      BY <3>1, <3>2, ExtendsMore
    <3>5. QED
      BY <3>2, <3>3, <3>4
  <2> SUFFICES ASSUME NEW row \in FailureRows PROVE Listings(details, failures, after, k, row)
    BY <2>8
  <2> DEFINE shown == Count(details, row)
             failed == Among(failures, k - 1, row)
             now == Among(failures, k, row)
             left == after[k - 1].streamed[row]
             count == Count(after[k - 1].details, row)
  <2>1. /\ left = IF failed < shown THEN shown - failed ELSE 0
        /\ count = IF failed < shown THEN shown ELSE failed
    BY <1>14 DEF Listings
  <2>2. /\ now \in Nat /\ failed \in Nat /\ shown \in Nat
        /\ now = failed + (IF failures[k] = row THEN 1 ELSE 0)
    <3>1. k \in Nat /\ k # 0
      BY <1>1
    <3>2. QED
      BY <1>12, <3>1, AmongOneMore
  <2>3. failures[k] \in FailureRows /\ after[k - 1] \in L /\ after[k] = Absorb(after[k - 1], failures[k])
    BY <1>1, <1>8
  <2>4. /\ after[k].streamed[row] =
             IF row = failures[k] /\ after[k - 1].streamed[failures[k]] > 0 THEN left - 1 ELSE left
        /\ Count(after[k].details, row) =
             IF row = failures[k] /\ after[k - 1].streamed[failures[k]] = 0 THEN count + 1 ELSE count
    <3> DEFINE l == after[k - 1]
               r == failures[k]
    <3>1. /\ Absorb(l, r).streamed[row] =
               IF row = r /\ l.streamed[r] > 0 THEN l.streamed[row] - 1 ELSE l.streamed[row]
          /\ Count(Absorb(l, r).details, row) =
               IF row = r /\ l.streamed[r] = 0 THEN Count(l.details, row) + 1 ELSE Count(l.details, row)
      BY <1>3, <2>3
    <3>2. QED
      BY <2>3, <3>1
  <2>5. /\ after[k].streamed[row] = IF row = failures[k] /\ left > 0 THEN left - 1 ELSE left
        /\ Count(after[k].details, row) = IF row = failures[k] /\ left = 0 THEN count + 1 ELSE count
    BY <2>4
  <2> HIDE DEF shown, failed, now, left, count
  <2>6. /\ after[k].streamed[row] = IF now < shown THEN shown - now ELSE 0
        /\ Count(after[k].details, row) = IF now < shown THEN shown ELSE now
    BY <2>1, <2>2, <2>5
  <2>7. QED
    BY <2>6 DEF Listings, shown, now
<1> HIDE DEF Holds
<1>15. Bad = {}
  <2> SUFFICES ASSUME Bad # {} PROVE FALSE
    OBVIOUS
  <2>1. Bad \in SUBSET Nat
    BY <1>1
  <2>2. PICK m \in Bad : \A j \in Bad : m <= j
    BY <2>1, Least
  <2>3. m \in 1 .. n
    BY <1>1, <1>13, <2>2
  <2>4. m - 1 \in 0 .. n /\ m - 1 \notin Bad
    BY <1>1, <2>2, <2>3
  <2>5. QED
    BY <1>14, <2>2, <2>3, <2>4
<1>16. Holds(n) /\ after[n] \in L
  BY <1>1, <1>6, <1>15
<1>17. \A row \in FailureRows : Count(failures, row) = Among(failures, n, row)
  BY CountIsAmong DEF n
<1>18. WithFailures(details, failures) = after[n].details
  BY <1>5, <1>11
<1>19. after[n].details \in Seq(Rows)
  BY <1>16 DEF L
<1>20. QED
  BY <1>16, <1>17, <1>18, <1>19 DEF Holds, Listings

(***************************************************************************)
(* What the operators of a step leave of dialogs, views, logs and bounds.  *)
(***************************************************************************)
LEMMA DialogsMove ==
  ASSUME NEW m \in Modals, NEW kind \in Kinds
  PROVE  /\ Open(m, kind) \in Modals /\ Open(m, kind).open = m.open \cup {kind}
         /\ Open(m, kind).tutorials = m.tutorials
         /\ Close(m, kind) \in Modals /\ Close(m, kind).open = m.open \ {kind}
         /\ Close(m, kind).tutorials = m.tutorials
         /\ m.closing > 0 => /\ DropGuard(m) \in Modals /\ DropGuard(m).open = m.open
                             /\ DropGuard(m).tutorials = m.tutorials
         /\ Counted(m) =>
              /\ Counted(Open(m, kind)) /\ Counted(Close(m, kind))
              /\ m.closing > 0 => Counted(DropGuard(m))
<1>1. /\ m.open \in SUBSET Kinds /\ m.closing \in Nat /\ m.depth \in Nat /\ m.blocked \in BOOLEAN
  BY DEF Modals
<1>2. IsFiniteSet(m.open)
  <2>1. IsFiniteSet(Kinds)
    <3>1. Kinds = (({"name"} \cup {"about"}) \cup {"formats"}) \cup {"base"}
      BY DEF Kinds
    <3>2. IsFiniteSet({"name"}) /\ IsFiniteSet({"about"}) /\ IsFiniteSet({"formats"}) /\ IsFiniteSet({"base"})
      BY FS_Singleton
    <3>3. IsFiniteSet({"name"} \cup {"about"})
      BY <3>2, FS_Union
    <3>4. IsFiniteSet(({"name"} \cup {"about"}) \cup {"formats"})
      BY <3>2, <3>3, FS_Union
    <3>5. QED
      BY <3>1, <3>2, <3>4, FS_Union
  <2>2. QED
    BY <1>1, <2>1, FS_Subset
<1> DEFINE more == m.open \cup {kind}
           less == m.open \ {kind}
<1>3. /\ Cardinality(m.open) \in Nat
      /\ kind \notin m.open => Cardinality(more) = Cardinality(m.open) + 1
      /\ kind \in m.open => more = m.open /\ Cardinality(less) = Cardinality(m.open) - 1
      /\ kind \notin m.open => less = m.open
  <2>1. Cardinality(m.open) \in Nat
    BY <1>2, FS_CardinalityType
  <2>2. kind \notin m.open => Cardinality(more) = Cardinality(m.open) + 1
    BY <1>2, FS_AddElement
  <2>3. kind \in m.open => Cardinality(less) = Cardinality(m.open) - 1
    BY <1>2, FS_RemoveElement
  <2>4. QED
    BY <2>1, <2>2, <2>3
<1> HIDE DEF more, less
<1>4. /\ Open(m, kind) \in Modals /\ Open(m, kind).open = more
      /\ Open(m, kind).tutorials = m.tutorials
      /\ Open(m, kind).closing = IF kind \in m.open THEN m.closing + 1 ELSE m.closing
      /\ Open(m, kind).depth = m.depth + 1
      /\ Open(m, kind).blocked <=> m.blocked \/ m.depth = 0
  <2> DEFINE guards == IF kind \in m.open THEN m.closing + 1 ELSE m.closing
             blocks == m.blocked \/ m.depth = 0
             new == [m EXCEPT !.open = more, !.closing = guards, !.depth = m.depth + 1,
                              !.blocked = blocks]
  <2>1. /\ more \in SUBSET Kinds /\ guards \in Nat /\ m.depth + 1 \in Nat /\ blocks \in BOOLEAN
    BY <1>1 DEF more
  <2>2. Open(m, kind) = new
    BY Zenon DEF Open, more
  <2> HIDE DEF guards, blocks
  <2>3. /\ new \in Modals /\ new.open = more /\ new.closing = guards /\ new.depth = m.depth + 1
        /\ new.blocked = blocks /\ new.tutorials = m.tutorials
    BY <2>1 DEF Modals
  <2> HIDE DEF new
  <2>4. QED
    BY <2>2, <2>3, Zenon DEF guards, blocks
<1>5. /\ Close(m, kind) \in Modals /\ Close(m, kind).open = less
      /\ Close(m, kind).closing = IF kind \in m.open THEN m.closing + 1 ELSE m.closing
      /\ Close(m, kind).depth = m.depth /\ Close(m, kind).blocked = m.blocked
      /\ Close(m, kind).tutorials = m.tutorials
  <2>1. CASE kind \in m.open
    <3>1. less \in SUBSET Kinds /\ m.closing + 1 \in Nat
      BY <1>1 DEF less
    <3>2. Close(m, kind) = [m EXCEPT !.open = less, !.closing = m.closing + 1]
      BY <2>1, Zenon DEF Close, less
    <3>3. QED
      BY <2>1, <3>1, <3>2 DEF Modals
  <2>2. CASE kind \notin m.open
    BY <1>3, <2>2 DEF Close
  <2>3. QED
    BY <2>1, <2>2
<1>6. ASSUME m.closing > 0
      PROVE  /\ DropGuard(m) \in Modals /\ DropGuard(m).open = m.open
             /\ DropGuard(m).tutorials = m.tutorials
             /\ DropGuard(m).closing = m.closing - 1
             /\ DropGuard(m).depth = IF m.depth = 0 THEN 0 ELSE m.depth - 1
             /\ DropGuard(m).blocked <=> m.blocked /\ m.depth > 1
  <2> DEFINE depth == IF m.depth = 0 THEN 0 ELSE m.depth - 1
             blocks == m.blocked /\ m.depth > 1
             new == [m EXCEPT !.closing = m.closing - 1, !.depth = depth, !.blocked = blocks]
  <2>1. m.closing - 1 \in Nat /\ depth \in Nat /\ blocks \in BOOLEAN
    BY <1>1, <1>6
  <2>2. DropGuard(m) = new
    BY Zenon DEF DropGuard
  <2> HIDE DEF depth, blocks
  <2>3. /\ new \in Modals /\ new.open = m.open /\ new.closing = m.closing - 1 /\ new.depth = depth
        /\ new.blocked = blocks /\ new.tutorials = m.tutorials
    BY <2>1 DEF Modals
  <2> HIDE DEF new
  <2>4. QED
    BY <2>2, <2>3, Zenon DEF depth, blocks
<1>7. ASSUME Counted(m)
      PROVE  /\ Counted(Open(m, kind)) /\ Counted(Close(m, kind))
             /\ m.closing > 0 => Counted(DropGuard(m))
  <2>1. m.depth = Cardinality(m.open) + m.closing /\ (m.blocked <=> m.depth > 0)
    BY <1>7 DEF Counted
  <2>2. Counted(Open(m, kind))
    BY <1>1, <1>3, <1>4, <2>1 DEF Counted
  <2>3. Counted(Close(m, kind))
    BY <1>1, <1>3, <1>5, <2>1 DEF Counted
  <2>4. m.closing > 0 => Counted(DropGuard(m))
    BY <1>1, <1>3, <1>6, <2>1 DEF Counted
  <2>5. QED
    BY <2>2, <2>3, <2>4
<1>8. QED
  BY <1>4, <1>5, <1>6, <1>7 DEF more, less

(* A tutorial that begins or ends is no dialog.                            *)
LEMMA TutorialsMove ==
  ASSUME NEW m \in Modals, NEW n \in Nat
  PROVE  LET new == [m EXCEPT !.tutorials = n]
         IN /\ new \in Modals /\ new.open = m.open /\ new.tutorials = n
            /\ Counted(m) => Counted(new)
BY DEF Modals, Counted

(* What New Profile and its tutorial leave of the dialogs.                 *)
LEMMA AskingMoves ==
  ASSUME NEW m \in Modals
  PROVE  /\ [m EXCEPT !.tutorials = @ + 1] \in Modals
         /\ Counted(m) => Counted([m EXCEPT !.tutorials = @ + 1])
         /\ AskProfileName(m) \in Modals /\ (Counted(m) => Counted(AskProfileName(m)))
         /\ m.tutorials > 0 =>
              LET new == AskProfileName([m EXCEPT !.tutorials = @ - 1])
              IN new \in Modals /\ (Counted(m) => Counted(new))
<1> DEFINE more == m.tutorials + 1
           less == m.tutorials - 1
<1>1. "name" \in Kinds /\ more \in Nat /\ (m.tutorials > 0 => less \in Nat)
  BY DEF Kinds, Modals
<1> HIDE DEF more, less
<1>2. [m EXCEPT !.tutorials = more] \in Modals /\ (Counted(m) => Counted([m EXCEPT !.tutorials = more]))
  BY <1>1, TutorialsMove
<1>3. ASSUME m.tutorials > 0
      PROVE  LET new == AskProfileName([m EXCEPT !.tutorials = less])
             IN new \in Modals /\ (Counted(m) => Counted(new))
  <2> DEFINE old == [m EXCEPT !.tutorials = less]
  <2>1. old \in Modals /\ (Counted(m) => Counted(old))
    BY <1>1, <1>3, TutorialsMove
  <2> HIDE DEF old
  <2>2. QED
    BY <1>1, <2>1, DialogsMove DEF AskProfileName, old
<1>4. AskProfileName(m) \in Modals /\ (Counted(m) => Counted(AskProfileName(m)))
  BY <1>1, DialogsMove DEF AskProfileName
<1>5. QED
  BY <1>2, <1>3, <1>4 DEF more, less

(* What the view of a new run holds.                                       *)
LEMMA Begins ==
  ASSUME NEW run \in Nat
  PROVE  LET new == Begin(run)
         IN /\ new \in Views
            /\ new.run = run /\ new.label.marks = 0 /\ new.details = <<>> /\ new.active
            /\ ~new.cancelRequested /\ ~new.closeRequested
            /\ new.outcome = "none" /\ new.sequence = 0
<1> DEFINE label == [of |-> "preparing", marks |-> 0]
           new == [View0 EXCEPT !.run = run, !.label = label, !.active = TRUE]
<1>1. /\ View0 \in Views /\ View0.details = <<>> /\ View0.cancelRequested = FALSE
      /\ View0.closeRequested = FALSE /\ View0.outcome = "none" /\ View0.sequence = 0
  <2>1. <<>> \in Seq(Rows) /\ NoRun \in Nat
    BY WindowAssumption
  <2>2. QED
    BY <2>1 DEF View0, Views, Labels, Outcomes
<1>2. label \in [of : Labels, marks : Nat] /\ label.marks = 0
  BY DEF Labels
<1>3. Begin(run) = new
  BY Zenon DEF Begin
<1> HIDE DEF label
<1>4. /\ new \in Views /\ new.run = run /\ new.label = label /\ new.active = TRUE
      /\ new.details = View0.details /\ new.cancelRequested = View0.cancelRequested
      /\ new.closeRequested = View0.closeRequested /\ new.outcome = View0.outcome
      /\ new.sequence = View0.sequence
  BY <1>1, <1>2 DEF Views
<1> HIDE DEF new
<1>5. QED
  BY <1>1, <1>2, <1>3, <1>4

(* The fields of the view a step does not touch.                           *)
LEMMA ViewsMove ==
  ASSUME NEW v \in Views
  PROVE  /\ \A run \in Nat : Begin(run) \in Views
         /\ RequestCancellation(v) \in Views /\ RequestClose(v) \in Views
         /\ \A new \in {RequestCancellation(v), RequestClose(v)} :
              /\ new.run = v.run /\ new.details = v.details /\ new.active = v.active
              /\ new.outcome = v.outcome /\ new.sequence = v.sequence
              /\ v.active => new.cancelRequested
              /\ new.label.marks = IF v.active /\ ~v.cancelRequested THEN v.label.marks + 1
                                   ELSE v.label.marks
<1>1. \A run \in Nat : Begin(run) \in Views
  BY Begins
<1>2. ASSUME NEW w \in Views
      PROVE  LET new == RequestCancellation(w)
             IN /\ new \in Views
                /\ new.run = w.run /\ new.details = w.details /\ new.active = w.active
                /\ new.outcome = w.outcome /\ new.sequence = w.sequence
                /\ w.active => new.cancelRequested
                /\ new.label.marks = IF w.active /\ ~w.cancelRequested THEN w.label.marks + 1
                                     ELSE w.label.marks
  <2>1. CASE w.active /\ ~w.cancelRequested
    <3> DEFINE label == Marked(w.label)
               new == [w EXCEPT !.cancelRequested = TRUE, !.label = label]
    <3>1. label \in [of : Labels, marks : Nat] /\ label.marks = w.label.marks + 1
      BY DEF Marked, Views
    <3>2. RequestCancellation(w) = new
      BY <2>1 DEF RequestCancellation
    <3> HIDE DEF label
    <3>3. /\ new \in Views /\ new.label = label /\ new.cancelRequested = TRUE
          /\ new.run = w.run /\ new.details = w.details /\ new.active = w.active
          /\ new.outcome = w.outcome /\ new.sequence = w.sequence
      BY <3>1 DEF Views
    <3> HIDE DEF new
    <3>4. QED
      BY <2>1, <3>1, <3>2, <3>3
  <2>2. CASE ~(w.active /\ ~w.cancelRequested)
    <3>1. RequestCancellation(w) = w
      BY <2>2 DEF RequestCancellation
    <3>2. QED
      BY <2>2, <3>1
  <2>3. QED
    BY <2>1, <2>2
<1>3. CASE v.active
  <2> DEFINE w == [v EXCEPT !.closeRequested = TRUE]
  <2>1. /\ w \in Views /\ w.run = v.run /\ w.details = v.details /\ w.active = v.active
        /\ w.outcome = v.outcome /\ w.sequence = v.sequence /\ w.label = v.label
        /\ w.cancelRequested = v.cancelRequested
    BY DEF Views
  <2>2. RequestClose(v) = RequestCancellation(w)
    BY <1>3 DEF RequestClose, MayClose
  <2> HIDE DEF w
  <2>3. QED
    BY <1>1, <1>2, <2>1, <2>2
<1>4. CASE ~v.active
  <2>1. RequestClose(v) = v
    BY <1>4 DEF RequestClose, MayClose
  <2>2. QED
    BY <1>1, <1>2, <1>4, <2>1
<1>5. QED
  BY <1>3, <1>4

(* The rows a result adds change no count of a failure.                    *)
LEMMA ResultListed ==
  ASSUME NEW details \in Seq(Rows), NEW failures \in Seq(FailureRows)
  PROVE  LET all == AppendResultDetails(details, failures)
         IN /\ all \in Seq(Rows) /\ Extends(details, all)
            /\ \A row \in FailureRows :
                 Count(all, row) = IF Count(failures, row) < Count(details, row)
                                     THEN Count(details, row) ELSE Count(failures, row)
<1> DEFINE longer == Append(details, "result")
           listed1 == WithFailures(longer, failures)
<1>1. "result" \in Rows /\ "evidence" \in Rows /\ \A row \in FailureRows : row # "result" /\ row # "evidence"
  BY RowsAssumption DEF Rows
<1>2. longer \in Seq(Rows) /\ \A row \in FailureRows : Count(longer, row) = Count(details, row)
  <2>1. longer \in Seq(Rows)
    BY <1>1
  <2>2. \A row \in FailureRows : Count(longer, row) = Count(details, row) + 0
    BY <1>1, CountAppended
  <2>3. \A row \in FailureRows : Count(details, row) \in Nat
    BY CountIsAmong
  <2> HIDE DEF longer
  <2>4. QED
    BY <2>1, <2>2, <2>3
<1> HIDE DEF longer
<1>3. /\ listed1 \in Seq(Rows) /\ Extends(longer, listed1)
      /\ \A row \in FailureRows :
           Count(listed1, row) = IF Count(failures, row) < Count(longer, row)
                                  THEN Count(longer, row) ELSE Count(failures, row)
  BY <1>2, FailuresAdd
<1> HIDE DEF listed1
<1>4. \A row \in FailureRows : Count(Append(listed1, "evidence"), row) = Count(listed1, row)
  <2>1. \A row \in FailureRows : Count(Append(listed1, "evidence"), row) = Count(listed1, row) + 0
    BY <1>1, <1>3, CountAppended
  <2>2. \A row \in FailureRows : Count(listed1, row) \in Nat
    BY <1>3, CountIsAmong
  <2>3. QED
    BY <2>1, <2>2
<1>5. AppendResultDetails(details, failures) = Append(listed1, "evidence")
  BY DEF AppendResultDetails, listed1, longer
<1>6. Append(listed1, "evidence") \in Seq(Rows)
  BY <1>1, <1>3
<1>7. Extends(details, Append(listed1, "evidence"))
  <2>1. Extends(details, longer)
    BY <1>1, ExtendsMore DEF longer
  <2>2. Extends(longer, Append(listed1, "evidence"))
    BY <1>1, <1>2, <1>3, ExtendsMore
  <2>3. Len(longer) \in Nat /\ Len(details) \in Nat
    BY <1>2
  <2>4. QED
    BY <2>1, <2>2, <2>3 DEF Extends
<1>8. QED
  BY <1>2, <1>3, <1>4, <1>5, <1>6, <1>7

(* What an event carries.                                                  *)
LEMMA EventsTell ==
  ASSUME NEW e \in Events
  PROVE  /\ e.run \in Nat /\ e.sequence \in Nat /\ e.failures \in Seq(FailureRows)
         /\ e.kind \in {"phase", "failure", "terminal"}
         /\ e.kind = "failure" => e.of \in FailureRows
         /\ e.kind = "phase" => e.of \in Labels
         /\ e.kind = "terminal" => e.of \in Outcomes
BY DEF Events, Labels

(* What taking in an event does to the view.                               *)
LEMMA Consumes ==
  ASSUME NEW v \in Views, NEW e \in Events
  PROVE  LET new == Consume(v, e)
         IN /\ new \in Views /\ Extends(v.details, new.details)
            /\ new.run = v.run /\ new.sequence = e.sequence
            /\ new.cancelRequested = v.cancelRequested /\ new.closeRequested = v.closeRequested
            /\ e.kind # "terminal" => new.active = v.active /\ new.outcome = v.outcome
            /\ e.kind = "terminal" =>
                 /\ ~new.active /\ new.outcome = e.of
                 /\ new.details = AppendResultDetails(v.details, e.failures)
            /\ e.kind = "failure" => new.details = Append(v.details, e.of) /\ new.label = v.label
            /\ e.kind = "phase" =>
                 /\ new.details = v.details
                 /\ new.label.marks = IF v.cancelRequested THEN 1 ELSE 0
<1> DEFINE next == [v EXCEPT !.sequence = e.sequence]
           new == Consume(v, e)
<1>1. /\ next \in Views /\ next.run = v.run /\ next.sequence = e.sequence
      /\ next.cancelRequested = v.cancelRequested /\ next.closeRequested = v.closeRequested
      /\ next.active = v.active /\ next.outcome = v.outcome /\ next.details = v.details
      /\ next.label = v.label
  BY EventsTell DEF Views
<1> HIDE DEF next
<1>2. v.details \in Seq(Rows) /\ Extends(v.details, v.details) /\ e.failures \in Seq(FailureRows)
  <2>1. "result" \in Rows
    BY DEF Rows
  <2>2. QED
    BY <2>1, ExtendsMore, EventsTell DEF Views
<1>3. CASE e.kind = "phase"
  <2> DEFINE named == [of |-> e.of, marks |-> IF v.cancelRequested THEN 1 ELSE 0]
  <2>1. named \in [of : Labels, marks : Nat] /\ named.marks = IF v.cancelRequested THEN 1 ELSE 0
    BY <1>3, EventsTell
  <2>2. new = [next EXCEPT !.label = named]
    BY <1>3 DEF Consume, next
  <2> HIDE DEF named, new
  <2>3. QED
    BY <1>1, <1>3, <1>2, <2>1, <2>2 DEF Views, new
<1>4. CASE e.kind = "failure"
  <2> DEFINE longer == Append(v.details, e.of)
  <2>1. longer \in Seq(Rows)
    BY <1>4, EventsTell DEF Views, Rows
  <2>2. new = [next EXCEPT !.details = longer]
    BY <1>1, <1>4 DEF Consume, next
  <2>3. Extends(v.details, longer)
    BY <1>4, <1>2, EventsTell, ExtendsMore DEF Rows
  <2> HIDE DEF longer, new
  <2>4. /\ new \in Views /\ new.details = longer
        /\ new.run = next.run /\ new.sequence = next.sequence
        /\ new.cancelRequested = next.cancelRequested /\ new.closeRequested = next.closeRequested
        /\ new.active = next.active /\ new.outcome = next.outcome /\ new.label = next.label
    BY <1>1, <2>1, <2>2 DEF Views
  <2>5. QED
    BY <1>1, <1>4, <2>4, <2>3 DEF new, longer
<1>5. CASE e.kind = "terminal"
  <2> DEFINE all == AppendResultDetails(v.details, e.failures)
             label == [of |-> e.of, marks |-> 0]
  <2>1. all \in Seq(Rows) /\ Extends(v.details, all)
    BY <1>2, ResultListed
  <2>2. label \in [of : Labels, marks : Nat] /\ e.of \in Outcomes
    BY <1>5, EventsTell DEF Labels
  <2>3. new = [next EXCEPT !.active = FALSE, !.outcome = e.of, !.details = all, !.label = label]
    BY <1>1, <1>5 DEF Consume, next
  <2> HIDE DEF all, label, new
  <2>4. /\ new \in Views /\ new.details = all /\ new.active = FALSE /\ new.outcome = e.of
        /\ new.run = next.run /\ new.sequence = next.sequence
        /\ new.cancelRequested = next.cancelRequested /\ new.closeRequested = next.closeRequested
    BY <1>1, <2>1, <2>2, <2>3 DEF Views
  <2>5. QED
    BY <1>1, <1>5, <2>1, <2>4 DEF new, all
<1>6. QED
  BY <1>3, <1>4, <1>5, EventsTell

(* Pushing a row keeps a list a list, and within the cap.                  *)
LEMMA PushesType ==
  ASSUME NEW S, NEW old \in Seq(S), NEW line \in S
  PROVE  /\ PushCapped(old, line) \in Seq(S)
         /\ Len(old) <= MaxFeedRows => Len(PushCapped(old, line)) <= MaxFeedRows
<1> DEFINE rest == IF Len(old) = MaxFeedRows THEN Tail(old) ELSE old
<1>1. /\ rest \in Seq(S)
      /\ Len(rest) = IF Len(old) = MaxFeedRows THEN Len(old) - 1 ELSE Len(old)
  <2>1. CASE Len(old) = MaxFeedRows
    <3>1. old # <<>>
      BY <2>1, FeedAssumption
    <3>2. QED
      BY <2>1, <3>1
  <2>2. CASE Len(old) # MaxFeedRows
    BY <2>2
  <2>3. QED
    BY <2>1, <2>2
<1>2. PushCapped(old, line) = Append(rest, line)
  BY DEF PushCapped
<1> HIDE DEF rest
<1>3. Append(rest, line) \in Seq(S) /\ Len(Append(rest, line)) = Len(rest) + 1
  BY <1>1
<1>4. Len(old) \in Nat /\ MaxFeedRows \in Nat
  BY FeedAssumption
<1>5. QED
  BY <1>1, <1>2, <1>3, <1>4

(* What redirecting, logging and draining leave of the log.                *)
LEMMA LogsMove ==
  ASSUME NEW l \in Logs
  PROVE  /\ \A path \in Names, debug \in BOOLEAN :
              LET new == Redirect(l, path, debug)
              IN /\ new \in Logs /\ new.path = path /\ new.attached = l.attached
                 /\ new.history = (IF path = l.path THEN l.history ELSE <<>>)
                 /\ new.lines = (IF path = l.path THEN l.lines ELSE <<>>)
                 /\ new.reset = IF path = l.path THEN l.reset ELSE l.attached
         /\ \A line \in Lines :
              LET new == Log(l, line)
              IN /\ new \in Logs /\ new.path = l.path /\ new.attached = l.attached
                 /\ new.history = PushCapped(l.history, line)
                 /\ new.lines = (IF l.attached THEN PushCapped(l.lines, line) ELSE l.lines)
                 /\ new.reset = l.reset
         /\ LET new == Drained(l)
            IN /\ new \in Logs /\ new.path = l.path /\ new.attached = l.attached
               /\ new.history = l.history /\ new.lines = <<>> /\ ~new.reset
<1>1. <<>> \in Seq(Lines)
  OBVIOUS
<1>2. ASSUME NEW path \in Names, NEW debug \in BOOLEAN
      PROVE LET new == Redirect(l, path, debug)
            IN /\ new \in Logs /\ new.path = path /\ new.attached = l.attached
               /\ new.history = (IF path = l.path THEN l.history ELSE <<>>)
               /\ new.lines = (IF path = l.path THEN l.lines ELSE <<>>)
               /\ new.reset = IF path = l.path THEN l.reset ELSE l.attached
  <2>1. CASE path = l.path
    BY <2>1 DEF Redirect, Logs
  <2>2. CASE path # l.path
    BY <1>1, <2>2 DEF Redirect, Logs
  <2>3. QED
    BY <2>1, <2>2
<1>3. ASSUME NEW line \in Lines
      PROVE LET new == Log(l, line)
            IN /\ new \in Logs /\ new.path = l.path /\ new.attached = l.attached
               /\ new.history = PushCapped(l.history, line)
               /\ new.lines = (IF l.attached THEN PushCapped(l.lines, line) ELSE l.lines)
               /\ new.reset = l.reset
  <2> DEFINE history == PushCapped(l.history, line)
             fed == IF l.attached THEN PushCapped(l.lines, line) ELSE l.lines
  <2>1. history \in Seq(Lines) /\ fed \in Seq(Lines)
    BY PushesType DEF Logs
  <2>2. Log(l, line) = [l EXCEPT !.history = history, !.lines = fed]
    BY DEF Log
  <2> HIDE DEF history, fed
  <2>3. /\ Log(l, line) \in Logs /\ Log(l, line).path = l.path /\ Log(l, line).attached = l.attached
        /\ Log(l, line).history = history /\ Log(l, line).lines = fed /\ Log(l, line).reset = l.reset
    BY <2>1, <2>2 DEF Logs
  <2>4. QED
    BY <2>3 DEF history, fed
<1>4. LET new == Drained(l)
      IN /\ new \in Logs /\ new.path = l.path /\ new.attached = l.attached
         /\ new.history = l.history /\ new.lines = <<>> /\ ~new.reset
  BY <1>1 DEF Drained, Logs
<1>5. QED
  BY <1>2, <1>3, <1>4

(* Spending keeps the bounds numbers.                                      *)
LEMMA SpendsLittle ==
  ASSUME budget \in Allowances
  PROVE  /\ \A kind \in {"dialogs", "edits", "records", "faults"} :
              Spend(kind) => budget' \in Allowances
         /\ \A kind \in {"selections", "toggles", "starts"}, n \in Nat : \A fails :
              SpendFaults(kind, n, fails) /\ IsFiniteSet(fails) => budget' \in Allowances
<1>1. ASSUME NEW kind \in {"dialogs", "edits", "records", "faults"}, Spend(kind)
      PROVE  budget' \in Allowances
  <2>1. budget[kind] > 0 /\ budget[kind] \in Nat
    BY <1>1 DEF Spend, Allowances
  <2>2. budget' = [budget EXCEPT ![kind] = budget[kind] - 1] /\ budget[kind] - 1 \in Nat
    BY <1>1, <2>1 DEF Spend
  <2>3. QED
    BY <2>2 DEF Allowances
<1>2. ASSUME NEW kind \in {"selections", "toggles", "starts"}, NEW n \in Nat, NEW fails,
             SpendFaults(kind, n, fails), IsFiniteSet(fails)
      PROVE  budget' \in Allowances
  <2>1. Cardinality(fails) \in Nat
    BY <1>2, FS_CardinalityType
  <2> DEFINE spent == budget[kind] - n
             left == budget.faults - Cardinality(fails)
  <2>2. budget[kind] \in Nat /\ budget.faults \in Nat
    BY DEF Allowances
  <2>3. spent \in Nat /\ left \in Nat
    <3>1. budget[kind] >= n /\ budget.faults >= Cardinality(fails)
      BY <1>2 DEF SpendFaults
    <3>2. QED
      BY <2>1, <2>2, <3>1
  <2>4. budget' = [budget EXCEPT ![kind] = spent, !.faults = left]
    BY <1>2 DEF SpendFaults, Allowances
  <2> HIDE DEF spent, left
  <2>5. QED
    BY <2>3, <2>4 DEF Allowances
<1>3. QED
  BY <1>1, <1>2

(* The faults of one turn are finitely many.                               *)
LEMMA FaultsAreFew ==
  /\ \A fails \in SUBSET SelectFaults : IsFiniteSet(fails)
  /\ \A fails \in SUBSET (SaveFaults \cup {"openLog"}) : IsFiniteSet(fails)
  /\ \A fails \in SUBSET SaveFaults : IsFiniteSet(fails)
<1>1. SelectFaults = ((({"common"} \cup {"saveOptions"}) \cup ({"saveSettings"} \cup {"readOptions"}))
                      \cup {"readSettings"}) \cup {"openLog"}
  BY DEF SelectFaults, SaveFaults, LoadFaults
<1>2. \A x : IsFiniteSet({x})
  BY FS_Singleton
<1>3. IsFiniteSet({"common"} \cup {"saveOptions"}) /\ IsFiniteSet({"saveSettings"} \cup {"readOptions"})
  BY <1>2, FS_Union
<1>4. IsFiniteSet(({"common"} \cup {"saveOptions"}) \cup ({"saveSettings"} \cup {"readOptions"}))
  BY <1>3, FS_Union
<1>5. IsFiniteSet((({"common"} \cup {"saveOptions"}) \cup ({"saveSettings"} \cup {"readOptions"}))
                  \cup {"readSettings"})
  BY <1>2, <1>4, FS_Union
<1>6. IsFiniteSet(SelectFaults)
  BY <1>1, <1>2, <1>5, FS_Union
<1>7. SaveFaults \cup {"openLog"} \subseteq SelectFaults
  BY DEF SelectFaults
<1>8. SaveFaults \subseteq SelectFaults
  BY DEF SelectFaults
<1>9. \A fails : fails \subseteq SelectFaults => IsFiniteSet(fails)
  BY <1>6, FS_Subset
<1>10. QED
  BY <1>7, <1>8, <1>9

(* Where redirecting leaves the log, unless the file cannot be opened.     *)
LEMMA StampsLog ==
  ASSUME WindowTypeOK, NEW p \in Names, NEW debug \in BOOLEAN, NEW fails
  PROVE  RedirectLog(p, debug, fails) =>
           /\ log' \in Logs /\ drains' \in Nat
           /\ ~("openLog" \in fails /\ p # log.path) => log'.path = p
<1>1. CASE p # log.path /\ "openLog" \in fails
  BY <1>1 DEF RedirectLog, WindowTypeOK
<1>2. CASE ~(p # log.path /\ "openLog" \in fails)
  <2>1. Redirect(log, p, debug) \in Logs /\ Redirect(log, p, debug).path = p
    BY LogsMove DEF WindowTypeOK
  <2>2. \A b : Posted(b) \in Nat
    BY DEF Posted, WindowTypeOK
  <2>3. QED
    BY <1>2, <2>1, <2>2 DEF RedirectLog
<1>3. QED
  BY <1>1, <1>2

(* Choosing a profile stamps its log.                                      *)
LEMMA SelectsType ==
  ASSUME WindowTypeOK, NEW before \in Stores, NEW p \in Names, NEW fails, Select(before, p, fails)
  PROVE  /\ store' = Loading(Saving(before, locked, fails), p, fails)
         /\ store' \in Stores /\ log' \in Logs /\ drains' \in Nat /\ runLog' = p
         /\ UNCHANGED <<rows, writing>>
<1>1. Saving(before, locked, fails) \in Stores
  BY SavingLeaves DEF WindowTypeOK
<1>2. store' = Loading(Saving(before, locked, fails), p, fails)
  BY DEF Select
<1>3. store' \in Stores
  BY <1>1, <1>2, LoadingLeaves
<1>4. store'.loaded.options.debug \in BOOLEAN
  BY <1>3 DEF Stores, Options
<1>5. StampLog(p, store'.loaded.options.debug, fails)
  BY DEF Select
<1>6. RedirectLog(p, store'.loaded.options.debug, fails)
  BY <1>5 DEF StampLog
<1>7. log' \in Logs /\ drains' \in Nat
  BY <1>4, <1>6, StampsLog
<1>8. QED
  BY <1>2, <1>3, <1>5, <1>7 DEF StampLog

(* The dialogs keep the types.                                             *)
LEMMA TypeOfDialogs ==
  ASSUME WindowTypeOK
  PROVE  /\ NewProfile \/ EndTutorial \/ AboutSlint \/ EditUnwanted \/ ConfirmFormats \/ Dismiss
            \/ Teardown => WindowTypeOK'
         /\ \A name \in Names : ConfirmName(name) \/ CreateProfile(name) \/ FailCreation(name) => WindowTypeOK'
<1>1. /\ modal \in Modals /\ {"name", "about", "formats", "base"} = Kinds
      /\ store \in Stores /\ newName \in Names /\ listed \in SUBSET Names /\ budget \in Allowances
  BY DEF WindowTypeOK, Kinds
<1>2. \A kind \in Kinds : Open(modal, kind) \in Modals /\ Close(modal, kind) \in Modals
  BY <1>1, DialogsMove
<1>3. "name" \in Kinds /\ "about" \in Kinds /\ "formats" \in Kinds /\ "base" \in Kinds
  BY DEF Kinds
<1>4. NewProfile \/ EndTutorial \/ AboutSlint \/ EditUnwanted => WindowTypeOK'
  <2> SUFFICES ASSUME NewProfile \/ EndTutorial \/ AboutSlint \/ EditUnwanted PROVE WindowTypeOK'
    OBVIOUS
  <2>1. modal' \in Modals
    BY <1>1, <1>2, <1>3, AskingMoves
    DEF NewProfile, Tutorial, EndTutorial, AboutSlint, EditUnwanted
  <2>2. budget' \in Allowances
    BY <1>1, SpendsLittle DEF NewProfile, EndTutorial, AboutSlint, EditUnwanted
  <2>3. UNCHANGED <<store, listed, newName, runVars, logVars>>
    BY DEF NewProfile, EndTutorial, AboutSlint, EditUnwanted
  <2>4. QED
    BY <2>1, <2>2, <2>3 DEF WindowTypeOK, runVars, logVars
<1>5. ConfirmFormats => WindowTypeOK'
  <2> SUFFICES ASSUME ConfirmFormats PROVE WindowTypeOK'
    OBVIOUS
  <2>1. PICK edit \in 0 .. 1 : store' = [store EXCEPT !.form.edit = edit]
    BY DEF ConfirmFormats
  <2>2. store' \in Stores
    BY <1>1, <2>1 DEF Stores
  <2>3. modal' \in Modals /\ UNCHANGED <<listed, newName, runVars, logVars, budget>>
    BY <1>2, <1>3 DEF ConfirmFormats
  <2>4. QED
    BY <2>2, <2>3 DEF WindowTypeOK, runVars, logVars
<1>6. Dismiss \/ Teardown => WindowTypeOK'
  <2> SUFFICES ASSUME Dismiss \/ Teardown PROVE WindowTypeOK'
    OBVIOUS
  <2>1. modal.open \subseteq Kinds
    BY <1>1 DEF Modals
  <2>2. modal.closing > 0 => DropGuard(modal) \in Modals
    BY <1>1, <1>3, DialogsMove
  <2>3. modal' \in Modals
    BY <1>2, <2>1, <2>2 DEF Dismiss, Teardown
  <2>4. UNCHANGED <<store, listed, newName, runVars, logVars, budget>>
    BY DEF Dismiss, Teardown
  <2>5. QED
    BY <2>3, <2>4 DEF WindowTypeOK, runVars, logVars
<1>7. ASSUME NEW name \in Names, ConfirmName(name) PROVE WindowTypeOK'
  <2>1. Open(Close(modal, "name"), "base") \in Modals
    BY <1>2, <1>3, DialogsMove
  <2>2. modal' \in Modals /\ newName' \in Names /\ UNCHANGED <<store, listed, runVars, logVars, budget>>
    BY <1>7, <2>1 DEF ConfirmName
  <2>3. QED
    BY <2>2 DEF WindowTypeOK, runVars, logVars
<1>8. ASSUME NEW base \in Names, CreateProfile(base) PROVE WindowTypeOK'
  <2> DEFINE made == [store EXCEPT !.disk = Create(@, newName, base)]
  <2>1. PICK fails \in SUBSET SelectFaults :
          /\ SpendFaults("selections", 0, fails)
          /\ Select(made, newName, fails)
          /\ listed' = Listed(made.disk)
    BY <1>8 DEF CreateProfile
  <2>2. Create(store.disk, newName, base) \in [Names -> Profile]
    <3>1. store.disk \in [Names -> Profile]
      BY <1>1 DEF Stores
    <3>2. QED
      BY <1>1, <3>1, CreatingLeaves DEF KeepsSettings
  <2>3. made \in Stores
    BY <1>1, <2>2 DEF Stores
  <2>4. Listed(made.disk) \subseteq Names
    BY DEF Listed
  <2> HIDE DEF made
  <2>5. store' \in Stores /\ log' \in Logs /\ drains' \in Nat /\ runLog' = newName /\ UNCHANGED <<rows, writing>>
    BY <1>1, <2>1, <2>3, SelectsType
  <2>6. budget' \in Allowances
    BY <1>1, <2>1, FaultsAreFew, SpendsLittle
  <2>7. modal' \in Modals /\ UNCHANGED <<newName, runVars>>
    BY <1>2, <1>3, <1>8 DEF CreateProfile
  <2>8. QED
    BY <2>1, <2>4, <2>5, <2>6, <2>7 DEF WindowTypeOK, runVars
<1>9. ASSUME NEW base \in Names, FailCreation(base) PROVE WindowTypeOK'
  <2>1. PICK disk \in Partial(store.disk, newName, base) : store' = [store EXCEPT !.disk = disk]
    BY <1>9 DEF FailCreation
  <2>2. disk \in [Names -> Profile]
    BY <1>1, <2>1, CreatingLeaves DEF Stores, KeepsSettings
  <2>3. store' \in Stores
    BY <1>1, <2>1, <2>2 DEF Stores
  <2>4. modal' \in Modals /\ UNCHANGED <<listed, newName, runVars, logVars>>
    BY <1>2, <1>3, <1>9 DEF FailCreation
  <2>5. budget' \in Allowances
    BY <1>1, <1>9, SpendsLittle DEF FailCreation
  <2>6. QED
    BY <2>3, <2>4, <2>5 DEF WindowTypeOK, runVars, logVars
<1>10. QED
  BY <1>4, <1>5, <1>6, <1>7, <1>8, <1>9

(* So do choosing a profile and using its controls.                        *)
LEMMA TypeOfProfiles ==
  ASSUME WindowTypeOK
  PROVE  /\ \A p \in Names : ProfileSelected(p) => WindowTypeOK'
         /\ EditControls \/ ToggleDebugLog => WindowTypeOK'
<1>1. store \in Stores /\ budget \in Allowances /\ locked \in BOOLEAN /\ log \in Logs
  BY DEF WindowTypeOK
<1>2. ASSUME NEW p \in Names, ProfileSelected(p) PROVE WindowTypeOK'
  <2>1. PICK fails \in SUBSET SelectFaults : SpendFaults("selections", 1, fails) /\ Select(store, p, fails)
    BY <1>2 DEF ProfileSelected
  <2>2. store' \in Stores /\ log' \in Logs /\ drains' \in Nat /\ runLog' = p /\ UNCHANGED <<rows, writing>>
    BY <1>1, <2>1, SelectsType
  <2>3. budget' \in Allowances
    BY <1>1, <2>1, FaultsAreFew, SpendsLittle
  <2>4. UNCHANGED <<listed, dialogVars, runVars>>
    BY <1>2 DEF ProfileSelected
  <2>5. QED
    BY <2>2, <2>3, <2>4 DEF WindowTypeOK, dialogVars, runVars
<1>3. EditControls => WindowTypeOK'
  <2> SUFFICES ASSUME EditControls PROVE WindowTypeOK'
    OBVIOUS
  <2>1. store' \in Stores
    BY <1>1 DEF EditControls, Stores
  <2>2. budget' \in Allowances
    BY <1>1, SpendsLittle DEF EditControls
  <2>3. UNCHANGED <<listed, dialogVars, runVars, logVars>>
    BY DEF EditControls
  <2>4. QED
    BY <2>1, <2>2, <2>3 DEF WindowTypeOK, dialogVars, runVars, logVars
<1>4. ToggleDebugLog => WindowTypeOK'
  <2> SUFFICES ASSUME ToggleDebugLog PROVE WindowTypeOK'
    OBVIOUS
  <2> DEFINE toggled == [store EXCEPT !.form.debug = ~@]
  <2>1. PICK fails \in SUBSET SaveFaults :
          SpendFaults("toggles", 1, fails) /\ store' = Saving(toggled, locked, fails)
    BY DEF ToggleDebugLog
  <2>2. toggled \in Stores
    BY <1>1 DEF Stores
  <2> HIDE DEF toggled
  <2>3. store' \in Stores
    BY <1>1, <2>1, <2>2, SavingLeaves
  <2>4. budget' \in Allowances
    BY <1>1, <2>1, FaultsAreFew, SpendsLittle
  <2>5. log' \in Logs
    <3>1. store'.form.debug \in BOOLEAN /\ log.path \in Names
      BY <1>1, <2>3 DEF Stores, Logs
    <3>2. Redirect(log, log.path, store'.form.debug) \in Logs
      BY <1>1, <3>1, LogsMove
    <3>3. QED
      BY <1>1, <3>2 DEF ToggleDebugLog
  <2>6. UNCHANGED <<listed, dialogVars, runVars, runLog, drains, rows, writing>>
    BY DEF ToggleDebugLog
  <2>7. QED
    BY <2>3, <2>4, <2>5, <2>6 DEF WindowTypeOK, dialogVars, runVars
<1>5. QED
  BY <1>2, <1>3, <1>4

(* What starting a run leaves, whether it is admitted or not.              *)
LEMMA StartsType ==
  ASSUME WindowTypeOK, StartRun
  PROVE  /\ store' \in Stores /\ Usable /\ ~ui.cancelling /\ ~view.active /\ CanStart(view)
         /\ UNCHANGED <<listed, dialogVars, runLog, writing>>
         /\ log' \in Logs /\ drains' \in Nat /\ budget' \in Allowances
         /\ \E fails \in SUBSET (SaveFaults \cup {"openLog"}) :
              /\ store' = Saving(store, locked, fails)
              /\ \/ UNCHANGED <<runVars, rows>>
                 \/ /\ Admit(view.run + 1)
                    /\ Saved(store, locked, fails)
                    /\ RedirectLog(RunPath, store'.loaded.options.debug, {})
                    /\ log'.path = RunPath
<1>1. /\ store \in Stores /\ budget \in Allowances /\ locked \in BOOLEAN /\ log \in Logs
      /\ drains \in Nat
  BY DEF WindowTypeOK
<1>2. PICK fails \in SUBSET (SaveFaults \cup {"openLog"}) :
        /\ SpendFaults("starts", 1, fails)
        /\ store' = Saving(store, locked, fails)
        /\ IF Saved(store, locked, fails) /\ ~("openLog" \in fails /\ RunPath # log.path)
             THEN /\ RedirectLog(RunPath, store'.loaded.options.debug, {})
                  /\ \/ slot = NoRun /\ Admit(view.run + 1)
                     \/ UNCHANGED <<runVars, rows>>
             ELSE UNCHANGED <<runVars, log, drains, rows>>
  BY DEF StartRun
<1>3. budget' \in Allowances
  BY <1>1, <1>2, FaultsAreFew, SpendsLittle
<1>4. store' \in Stores
  BY <1>1, <1>2, SavingLeaves
<1>5. RunPath \in Names
  BY DEF RunPath, WindowTypeOK, Logs
<1>6. store'.loaded.options.debug \in BOOLEAN
  BY <1>4 DEF Stores, Options
<1>7. RedirectLog(RunPath, store'.loaded.options.debug, {}) =>
        log' \in Logs /\ drains' \in Nat /\ log'.path = RunPath
  BY <1>5, <1>6, StampsLog
<1>8. log' \in Logs /\ drains' \in Nat
  BY <1>1, <1>2, <1>7
<1>9. /\ Usable /\ ~ui.cancelling /\ ~view.active /\ CanStart(view)
      /\ UNCHANGED <<listed, dialogVars, runLog, writing>>
  BY DEF StartRun
<1>10. \/ UNCHANGED <<runVars, rows>>
       \/ /\ Admit(view.run + 1)
          /\ Saved(store, locked, fails)
          /\ RedirectLog(RunPath, store'.loaded.options.debug, {})
          /\ log'.path = RunPath
  BY <1>2, <1>7
<1>11. QED
  BY <1>2, <1>3, <1>4, <1>8, <1>9, <1>10

(* What an admitted run starts with.                                       *)
LEMMA Admits ==
  ASSUME WindowTypeOK, store' \in Stores, NEW run \in Nat, Admit(run)
  PROVE  /\ view' \in Views /\ work' \in Works /\ windows' \in SUBSET Nat
         /\ ui' = [ui EXCEPT !.running = TRUE, !.cancelling = FALSE]
         /\ ui' \in [shown : BOOLEAN, running : BOOLEAN, cancelling : BOOLEAN]
         /\ slot' = run /\ active' = run /\ locked' = TRUE /\ events' = events
         /\ windows' = windows \cup {run} /\ view' = Begin(run)
         /\ work'.run = run /\ work'.stage = "working" /\ ~work'.cancelled /\ work'.sequence = 0
         /\ work'.failures = <<>> /\ work'.profile = store.loaded.profile
         /\ work'.settings = store'.disk[store.loaded.profile].settings
         /\ work'.tutorials = modal.tutorials
         /\ rows' = ShowDetails(rows, <<>>)
<1>1. store.loaded.profile \in Names
  BY DEF WindowTypeOK, Stores
<1> DEFINE settings == store'.disk[store.loaded.profile].settings
           new == [run |-> run, stage |-> "working", profile |-> store.loaded.profile,
                   cancelled |-> FALSE, sequence |-> 0, failures |-> <<>>, outcome |-> "none",
                   settings |-> settings, tutorials |-> modal.tutorials]
<1>2. NoWork = [run |-> 0, stage |-> "idle", profile |-> Default, cancelled |-> FALSE,
                sequence |-> 0, failures |-> <<>>, outcome |-> "none",
                settings |-> NoSettings, tutorials |-> 0]
  BY WindowAssumption, Zenon DEF NoWork
<1>3. work' = [NoWork EXCEPT !.run = run, !.stage = "working", !.profile = store.loaded.profile,
                             !.settings = settings, !.tutorials = modal.tutorials]
  BY Zenon DEF Admit
<1>4. settings \in Settings /\ modal.tutorials \in Nat
  BY <1>1 DEF WindowTypeOK, Stores, Profile, Modals
<1> HIDE DEF settings
<1>5. work' = new /\ <<>> \in Seq(FailureRows)
  <2>1. work' = new
    BY <1>2, <1>3
  <2>2. <<>> \in Seq(FailureRows)
    OBVIOUS
  <2>3. QED
    BY <2>1, <2>2
<1>6. new \in Works
  BY <1>1, <1>4, <1>5 DEF Works, Outcomes
<1>7. view' \in Views
  BY Begins DEF Admit
<1>8. ui' \in [shown : BOOLEAN, running : BOOLEAN, cancelling : BOOLEAN]
  BY DEF Admit, WindowTypeOK
<1>9. windows' \in SUBSET Nat
  BY DEF Admit, WindowTypeOK
<1>10. /\ work' \in Works /\ work'.run = run /\ work'.stage = "working" /\ work'.cancelled = FALSE
       /\ work'.sequence = 0 /\ work'.failures = <<>> /\ work'.profile = store.loaded.profile
       /\ work'.settings = settings /\ work'.tutorials = modal.tutorials
  BY <1>5, <1>6
<1> HIDE DEF new
<1>11. /\ ui' = [ui EXCEPT !.running = TRUE, !.cancelling = FALSE]
       /\ slot' = run /\ active' = run /\ locked' = TRUE /\ events' = events
       /\ windows' = windows \cup {run} /\ view' = Begin(run) /\ rows' = ShowDetails(rows, <<>>)
  BY Zenon DEF Admit
<1>12. QED
  BY <1>7, <1>8, <1>9, <1>10, <1>11 DEF settings

(* Starting, cancelling and closing keep the types.                        *)
LEMMA TypeOfRuns ==
  ASSUME WindowTypeOK, StartRun \/ CancelRun \/ CloseDuringRun \/ CloseWindow
  PROVE  WindowTypeOK'
<1>1. /\ store \in Stores /\ budget \in Allowances /\ locked \in BOOLEAN /\ view \in Views
      /\ work \in Works /\ ui \in [shown : BOOLEAN, running : BOOLEAN, cancelling : BOOLEAN]
      /\ active \in Nat
  BY DEF WindowTypeOK
<1>2. CASE StartRun
  <2>1. /\ UNCHANGED <<listed, dialogVars, runLog, writing>>
        /\ log' \in Logs /\ drains' \in Nat /\ budget' \in Allowances
    BY <1>2, StartsType
  <2>2. PICK fails : /\ store' = Saving(store, locked, fails)
                     /\ UNCHANGED <<runVars, rows>> \/ Admit(view.run + 1)
    BY <1>2, StartsType
  <2>3. store' \in Stores
    BY <1>1, <2>2, SavingLeaves
  <2>4. CASE UNCHANGED <<runVars, rows>>
    BY <2>1, <2>3, <2>4 DEF WindowTypeOK, dialogVars, runVars
  <2>5. CASE Admit(view.run + 1)
    <3>1. view.run + 1 \in Nat
      BY <1>1 DEF Views
    <3>2. /\ view' \in Views /\ work' \in Works /\ windows' \in SUBSET Nat
          /\ ui' \in [shown : BOOLEAN, running : BOOLEAN, cancelling : BOOLEAN]
          /\ slot' = view.run + 1 /\ active' = view.run + 1 /\ locked' = TRUE /\ events' = events
      BY <2>3, <2>5, <3>1, Admits
    <3>3. QED
      BY <2>1, <2>3, <3>1, <3>2 DEF WindowTypeOK, dialogVars
  <2>6. QED
    BY <2>2, <2>4, <2>5
<1>3. CASE CancelRun \/ CloseDuringRun
  <2>1. view' \in Views
    BY <1>1, <1>3, ViewsMove DEF CancelRun, CloseDuringRun
  <2>2. work' \in Works /\ ui' \in [shown : BOOLEAN, running : BOOLEAN, cancelling : BOOLEAN]
    <3>1. /\ work' = IF work.run = active THEN [work EXCEPT !.cancelled = TRUE] ELSE work
          /\ ui' = [ui EXCEPT !.cancelling = TRUE]
      BY <1>3 DEF CancelRun, CloseDuringRun, Cancelling
    <3>2. [work EXCEPT !.cancelled = TRUE] \in Works
      BY <1>1 DEF Works
    <3>3. QED
      BY <1>1, <3>1, <3>2
  <2>3. UNCHANGED <<store, listed, dialogVars, active, windows, locked, slot, events, logVars, budget>>
    BY <1>3 DEF CancelRun, CloseDuringRun
  <2>4. QED
    BY <2>1, <2>2, <2>3 DEF WindowTypeOK, dialogVars, logVars
<1>4. CASE CloseWindow
  <2>1. PICK fails \in SUBSET SaveFaults :
          SpendFaults("starts", 0, fails) /\ store' = Saving(store, locked, fails)
    BY <1>4 DEF CloseWindow
  <2>2. store' \in Stores
    BY <1>1, <2>1, SavingLeaves
  <2>3. budget' \in Allowances
    BY <1>1, <2>1, FaultsAreFew, SpendsLittle
  <2>4. ui' \in [shown : BOOLEAN, running : BOOLEAN, cancelling : BOOLEAN]
    BY <1>1, <1>4 DEF CloseWindow
  <2>5. UNCHANGED <<listed, dialogVars, view, active, windows, locked, slot, work, events, logVars>>
    BY <1>4 DEF CloseWindow
  <2>6. QED
    BY <2>2, <2>3, <2>4, <2>5 DEF WindowTypeOK, dialogVars, logVars
<1>5. QED
  BY <1>2, <1>3, <1>4

(* What the first event posted does when it is taken.                       *)
LEMMA Delivers ==
  ASSUME WindowTypeOK, Deliver
  PROVE  /\ ui.shown /\ events # <<>> /\ Head(events) \in Events
         /\ events' = Tail(events) /\ events' \in Seq(Events)
         /\ UNCHANGED <<listed, dialogVars, slot, work, log, runLog, drains, writing>>
         /\ \/ /\ ~(Head(events).run \in windows /\ Accepts(view, Head(events)))
               /\ UNCHANGED <<store, view, active, windows, locked, ui, rows, budget>>
            \/ /\ Head(events).run \in windows /\ Accepts(view, Head(events))
               /\ view' = Consume(view, Head(events)) /\ rows' = ShowDetails(rows, view'.details)
               /\ ~(view.active /\ Head(events).kind = "terminal")
               /\ UNCHANGED <<store, active, windows, locked, ui, budget>>
            \/ /\ Head(events).run \in windows /\ Accepts(view, Head(events))
               /\ view' = Consume(view, Head(events)) /\ rows' = ShowDetails(rows, view'.details)
               /\ view.active /\ Head(events).kind = "terminal" /\ EndRun(view')
<1>1. events \in Seq(Events) /\ events # <<>>
  BY DEF WindowTypeOK, Deliver
<1>2. Head(events) \in Events /\ Tail(events) \in Seq(Events)
  BY <1>1
<1> DEFINE e == Head(events)
<1> HIDE DEF e
<1>3. /\ ui.shown /\ events' = Tail(events)
      /\ UNCHANGED <<listed, dialogVars, slot, work, log, runLog, drains, writing>>
      /\ IF e.run \in windows /\ Accepts(view, e) THEN OnRunEvent(e)
         ELSE UNCHANGED <<store, view, active, windows, locked, ui, rows, budget>>
  BY DEF Deliver, e
<1>4. OnRunEvent(e) =>
        /\ view' = Consume(view, e) /\ rows' = ShowDetails(rows, view'.details)
        /\ IF view.active /\ e.kind = "terminal" THEN EndRun(view')
           ELSE UNCHANGED <<store, active, windows, locked, ui, budget>>
  BY DEF OnRunEvent, EndsRun
<1>5. \/ /\ ~(e.run \in windows /\ Accepts(view, e))
         /\ UNCHANGED <<store, view, active, windows, locked, ui, rows, budget>>
      \/ /\ e.run \in windows /\ Accepts(view, e)
         /\ view' = Consume(view, e) /\ rows' = ShowDetails(rows, view'.details)
         /\ ~(view.active /\ e.kind = "terminal")
         /\ UNCHANGED <<store, active, windows, locked, ui, budget>>
      \/ /\ e.run \in windows /\ Accepts(view, e)
         /\ view' = Consume(view, e) /\ rows' = ShowDetails(rows, view'.details)
         /\ view.active /\ e.kind = "terminal" /\ EndRun(view')
  BY <1>3, <1>4
<1>6. QED
  BY <1>1, <1>2, <1>3, <1>5 DEF e

(* What the end of a run leaves.                                           *)
LEMMA EndsType ==
  ASSUME WindowTypeOK, NEW v \in Views, EndRun(v)
  PROVE  /\ active' = NoRun /\ windows' = windows \ {active}
         /\ budget' \in Allowances /\ store' \in Stores
         /\ locked' = (IF v.closeRequested THEN locked ELSE FALSE)
         /\ ui' \in [shown : BOOLEAN, running : BOOLEAN, cancelling : BOOLEAN]
         /\ ui'.shown = (IF v.closeRequested THEN FALSE ELSE ui.shown)
         /\ \E fails \in SUBSET SaveFaults, held \in BOOLEAN : store' = Saving(store, held, fails)
<1>1. /\ store \in Stores /\ budget \in Allowances /\ locked \in BOOLEAN
      /\ ui \in [shown : BOOLEAN, running : BOOLEAN, cancelling : BOOLEAN]
  BY DEF WindowTypeOK
<1>2. PICK fails \in SUBSET SaveFaults :
        /\ SpendFaults("starts", 0, fails)
        /\ IF v.closeRequested
             THEN /\ store' = Saving(store, locked, fails)
                  /\ ui' = [ui EXCEPT !.shown = FALSE]
                  /\ UNCHANGED locked
             ELSE /\ store' = Saving(store, FALSE, fails)
                  /\ ui' = [ui EXCEPT !.running = FALSE, !.cancelling = FALSE]
                  /\ locked' = FALSE
  BY DEF EndRun, ClosesNow
<1>3. budget' \in Allowances
  BY <1>1, <1>2, FaultsAreFew, SpendsLittle
<1>4. active' = NoRun /\ windows' = windows \ {active}
  BY DEF EndRun
<1>5. CASE v.closeRequested
  <2>1. store' = Saving(store, locked, fails) /\ ui' = [ui EXCEPT !.shown = FALSE] /\ locked' = locked
    BY <1>2, <1>5
  <2>2. store' \in Stores
    BY <1>1, <2>1, SavingLeaves
  <2>3. /\ ui' \in [shown : BOOLEAN, running : BOOLEAN, cancelling : BOOLEAN]
        /\ ui'.shown = FALSE
    BY <1>1, <2>1
  <2>4. QED
    BY <1>1, <1>3, <1>4, <1>5, <2>1, <2>2, <2>3
<1>6. CASE ~v.closeRequested
  <2>1. /\ store' = Saving(store, FALSE, fails) /\ locked' = FALSE
        /\ ui' = [ui EXCEPT !.running = FALSE, !.cancelling = FALSE]
    BY <1>2, <1>6
  <2>2. store' \in Stores
    BY <1>1, <2>1, SavingLeaves
  <2>3. /\ ui' \in [shown : BOOLEAN, running : BOOLEAN, cancelling : BOOLEAN]
        /\ ui'.shown = ui.shown
    BY <1>1, <2>1
  <2>4. QED
    BY <1>1, <1>3, <1>4, <1>6, <2>1, <2>2, <2>3
<1>7. QED
  BY <1>5, <1>6

(* Taking in an event keeps the types.                                     *)
LEMMA TypeOfDelivery ==
  ASSUME WindowTypeOK, Deliver
  PROVE  WindowTypeOK'
<1>1. /\ Head(events) \in Events /\ events' \in Seq(Events)
      /\ UNCHANGED <<listed, dialogVars, slot, work, log, runLog, drains, writing>>
  BY Delivers
<1>2. CASE UNCHANGED <<store, view, active, windows, locked, ui, rows, budget>>
  BY <1>1, <1>2 DEF WindowTypeOK, dialogVars
<1>3. CASE /\ view' = Consume(view, Head(events))
           /\ UNCHANGED <<store, active, windows, locked, ui, budget>>
  <2>1. view' \in Views
    BY <1>1, <1>3, Consumes DEF WindowTypeOK
  <2>2. QED
    BY <1>1, <1>3, <2>1 DEF WindowTypeOK, dialogVars
<1>4. CASE view' = Consume(view, Head(events)) /\ EndRun(view')
  <2>1. view' \in Views
    BY <1>1, <1>4, Consumes DEF WindowTypeOK
  <2>2. /\ active' = NoRun /\ windows' = windows \ {active}
        /\ budget' \in Allowances /\ store' \in Stores
        /\ locked' = (IF view'.closeRequested THEN locked ELSE FALSE)
        /\ ui' \in [shown : BOOLEAN, running : BOOLEAN, cancelling : BOOLEAN]
    BY <1>4, <2>1, EndsType
  <2>3. NoRun \in Nat /\ windows' \in SUBSET Nat /\ locked' \in BOOLEAN
    BY <2>2, WindowAssumption DEF WindowTypeOK
  <2>4. QED
    BY <1>1, <2>1, <2>2, <2>3 DEF WindowTypeOK, dialogVars
<1>5. QED
  BY <1>2, <1>3, <1>4, Delivers

(* What one step of the Run Worker posts.                                  *)
LEMMA WorkerSteps ==
  ASSUME WindowTypeOK, WorkerStep
  PROVE  /\ work' \in Works /\ slot' \in {slot, NoRun}
         /\ UNCHANGED <<store, listed, dialogVars, view, active, windows, locked, ui, logVars, budget>>
         /\ work'.run = work.run /\ work'.profile = work.profile /\ work'.cancelled = work.cancelled
         /\ work'.settings = work.settings /\ work'.tutorials = work.tutorials
         /\ \/ /\ work.stage = "cleanup" /\ work'.stage = "committed" /\ slot' = NoRun
               /\ events' = events /\ work'.sequence = work.sequence
               /\ \E extra \in Seq(FailureRows) : work'.failures = work.failures \o extra
            \/ \E e \in Events :
                 /\ events' = Append(events, e) /\ slot' = slot
                 /\ e.run = work.run /\ e.sequence = work.sequence + 1
                 /\ e.failures = work.failures /\ work'.sequence = work.sequence + 1
                 /\ \/ /\ e.kind = "failure" /\ e.of \in FailureRows
                       /\ work.stage = "working" /\ work'.stage = "working"
                       /\ work'.failures = Append(work.failures, e.of)
                    \/ /\ e.kind = "phase"
                       /\ work.stage = "working" /\ work'.stage = "cleanup"
                       /\ work'.failures = work.failures
                    \/ /\ e.kind = "terminal"
                       /\ work.stage = "committed" /\ work'.stage = "ended"
                       /\ work'.failures = work.failures
<1>1. work \in Works /\ work.run \in Nat /\ work.sequence \in Nat /\ work.failures \in Seq(FailureRows)
  BY DEF WindowTypeOK, Works
<1>2. UNCHANGED <<store, listed, dialogVars, view, active, windows, locked, ui, logVars, budget>>
  BY DEF WorkerStep
<1>3. /\ Numbered \in Works /\ Numbered.sequence = work.sequence + 1 /\ Numbered.run = work.run
      /\ Numbered.profile = work.profile /\ Numbered.cancelled = work.cancelled
      /\ Numbered.stage = work.stage /\ Numbered.failures = work.failures
      /\ Numbered.settings = work.settings /\ Numbered.tutorials = work.tutorials
  BY <1>1 DEF Numbered, Works
<1>4. ASSUME NEW kind, NEW of
      PROVE  LET e == Event(kind, of)
             IN /\ e = [run |-> work.run, sequence |-> work.sequence + 1, kind |-> kind, of |-> of,
                        failures |-> work.failures]
                /\ e.run = work.run /\ e.sequence = work.sequence + 1 /\ e.kind = kind
                /\ e.of = of /\ e.failures = work.failures
  BY DEF Event
<1>5. ASSUME NEW row \in FailureRows, StreamFailure(row) PROVE
        /\ work' \in Works /\ slot' = slot /\ work'.sequence = work.sequence + 1
        /\ work'.run = work.run /\ work'.profile = work.profile /\ work'.cancelled = work.cancelled
        /\ work'.settings = work.settings /\ work'.tutorials = work.tutorials
        /\ Event("failure", row) \in Events /\ events' = Append(events, Event("failure", row))
        /\ work.stage = "working" /\ work'.stage = "working"
        /\ work'.failures = Append(work.failures, row)
  <2>1. Event("failure", row) \in Events
    BY <1>1, <1>4 DEF Events
  <2>2. Append(work.failures, row) \in Seq(FailureRows)
    BY <1>1
  <2>3. work' = [Numbered EXCEPT !.failures = Append(work.failures, row)]
    BY <1>3, <1>5 DEF StreamFailure
  <2>4. /\ work' \in Works /\ work'.sequence = Numbered.sequence /\ work'.stage = Numbered.stage
        /\ work'.run = Numbered.run /\ work'.profile = Numbered.profile
        /\ work'.settings = Numbered.settings /\ work'.tutorials = Numbered.tutorials
        /\ work'.cancelled = Numbered.cancelled /\ work'.failures = Append(work.failures, row)
    BY <1>3, <2>2, <2>3 DEF Works
  <2>5. QED
    BY <1>3, <1>5, <2>1, <2>4 DEF StreamFailure, Emit
<1>6. ASSUME ReportCleanup PROVE
        /\ work' \in Works /\ slot' = slot /\ work'.sequence = work.sequence + 1
        /\ work'.run = work.run /\ work'.profile = work.profile /\ work'.cancelled = work.cancelled
        /\ work'.settings = work.settings /\ work'.tutorials = work.tutorials
        /\ Event("phase", "cleanup") \in Events /\ events' = Append(events, Event("phase", "cleanup"))
        /\ work.stage = "working" /\ work'.stage = "cleanup" /\ work'.failures = work.failures
  <2>1. Event("phase", "cleanup") \in Events
    BY <1>1, <1>4 DEF Events
  <2>2. work' = [Numbered EXCEPT !.stage = "cleanup"]
    BY <1>6 DEF ReportCleanup
  <2>3. /\ work' \in Works /\ work'.sequence = Numbered.sequence /\ work'.stage = "cleanup"
        /\ work'.run = Numbered.run /\ work'.profile = Numbered.profile
        /\ work'.settings = Numbered.settings /\ work'.tutorials = Numbered.tutorials
        /\ work'.cancelled = Numbered.cancelled /\ work'.failures = Numbered.failures
    BY <1>3, <2>2 DEF Works
  <2>4. QED
    BY <1>3, <1>6, <2>1, <2>3 DEF ReportCleanup, Emit
<1>7. ASSUME PostTerminal PROVE
        /\ work' \in Works /\ slot' = slot /\ work'.sequence = work.sequence + 1
        /\ work'.run = work.run /\ work'.profile = work.profile /\ work'.cancelled = work.cancelled
        /\ work'.settings = work.settings /\ work'.tutorials = work.tutorials
        /\ Event("terminal", work.outcome) \in Events
        /\ events' = Append(events, Event("terminal", work.outcome))
        /\ work.stage = "committed" /\ work'.stage = "ended" /\ work'.failures = work.failures
  <2>1. Event("terminal", work.outcome) \in Events
    BY <1>1, <1>4 DEF Events, Works
  <2>2. work' = [Numbered EXCEPT !.stage = "ended"]
    BY <1>7 DEF PostTerminal
  <2>3. /\ work' \in Works /\ work'.sequence = Numbered.sequence /\ work'.stage = "ended"
        /\ work'.run = Numbered.run /\ work'.profile = Numbered.profile
        /\ work'.settings = Numbered.settings /\ work'.tutorials = Numbered.tutorials
        /\ work'.cancelled = Numbered.cancelled /\ work'.failures = Numbered.failures
    BY <1>3, <2>2 DEF Works
  <2>4. QED
    BY <1>3, <1>7, <2>1, <2>3 DEF PostTerminal, Emit
<1>8. ASSUME Commit PROVE
        /\ work' \in Works /\ slot' = NoRun /\ events' = events
        /\ work.stage = "cleanup" /\ work'.stage = "committed" /\ work'.sequence = work.sequence
        /\ work'.run = work.run /\ work'.profile = work.profile /\ work'.cancelled = work.cancelled
        /\ work'.settings = work.settings /\ work'.tutorials = work.tutorials
        /\ \E extra \in Seq(FailureRows) : work'.failures = work.failures \o extra
  <2>1. PICK extra \in {<<>>} \cup {<<row>> : row \in FailureRows},
             outcome \in {"failed", "succeeded", "cancelled"} :
          work' = [work EXCEPT !.stage = "committed", !.failures = work.failures \o extra,
                               !.outcome = outcome]
    BY <1>8 DEF Commit
  <2>2. extra \in Seq(FailureRows)
    <3>1. \A row \in FailureRows : <<row>> \in Seq(FailureRows)
      OBVIOUS
    <3>2. <<>> \in Seq(FailureRows)
      OBVIOUS
    <3>3. QED
      BY <2>1, <3>1, <3>2
  <2>3. work.failures \o extra \in Seq(FailureRows)
    BY <1>1, <2>2
  <2>4. /\ work' \in Works /\ work'.sequence = work.sequence /\ work'.stage = "committed"
        /\ work'.run = work.run /\ work'.profile = work.profile /\ work'.cancelled = work.cancelled
        /\ work'.settings = work.settings /\ work'.tutorials = work.tutorials
        /\ work'.failures = work.failures \o extra
    BY <1>1, <2>1, <2>3 DEF Works, Outcomes
  <2>5. QED
    BY <1>8, <2>2, <2>4 DEF Commit
<1>9. QED
  <2>1. CASE \E row \in FailureRows : StreamFailure(row)
    BY <1>2, <1>4, <1>5, <2>1
  <2>2. CASE ReportCleanup
    BY <1>2, <1>4, <1>6, <2>2
  <2>3. CASE PostTerminal
    BY <1>2, <1>4, <1>7, <2>3
  <2>4. CASE Commit
    BY <1>2, <1>8, <2>4
  <2>5. QED
    BY <2>1, <2>2, <2>3, <2>4 DEF WorkerStep

(* What a step of the log leaves.                                          *)
LEMMA LogSteps ==
  ASSUME WindowTypeOK, Logging
  PROVE  /\ UNCHANGED <<store, listed, dialogVars, runVars, runLog, rows>>
         /\ log' \in Logs /\ drains' \in Nat /\ budget' \in Allowances
         /\ writing' \in [Loggers -> [stage : {"idle", "formatting", "waking"}, verbose : BOOLEAN]]
         /\ \/ /\ log' = log /\ drains' = drains
               /\ \A t \in Loggers : writing[t].stage = "waking" => writing'[t].stage = "waking"
            \/ /\ \E line \in Lines : (line.verbose => line.debug) /\ log' = Log(log, line)
               /\ drains' = drains
               /\ \A t \in Loggers : writing[t].stage = "waking" => writing'[t].stage = "waking"
               /\ Wakes(log) => \E t \in Loggers : writing'[t].stage = "waking"
            \/ log' = log /\ drains' = drains + 1
<1> DEFINE Writers == [stage : {"idle", "formatting", "waking"}, verbose : BOOLEAN]
<1>1. log \in Logs /\ drains \in Nat /\ budget \in Allowances /\ writing \in [Loggers -> Writers]
  BY DEF WindowTypeOK
<1>2. ASSUME NEW t \in Loggers, BeginRecord(t)
      PROVE  /\ UNCHANGED <<store, listed, dialogVars, runVars, log, runLog, drains, rows>>
             /\ budget' \in Allowances /\ writing' \in [Loggers -> Writers]
             /\ \A o \in Loggers : writing[o].stage = "waking" => writing'[o].stage = "waking"
  <2>1. PICK verbose \in BOOLEAN :
          writing' = [writing EXCEPT ![t] = [stage |-> "formatting", verbose |-> verbose]]
    BY <1>2 DEF BeginRecord
  <2>2. writing[t].stage = "idle" /\ budget' \in Allowances
    BY <1>1, <1>2, SpendsLittle DEF BeginRecord
  <2>3. /\ writing' \in [Loggers -> Writers]
        /\ \A o \in Loggers : writing[o].stage = "waking" => writing'[o].stage = "waking"
    BY <1>1, <2>1, <2>2
  <2>4. QED
    BY <1>2, <2>2, <2>3 DEF BeginRecord
<1>3. ASSUME NEW t \in Loggers, WakeTab(t)
      PROVE  /\ UNCHANGED <<store, listed, dialogVars, runVars, log, runLog, rows, budget>>
             /\ drains' = drains + 1 /\ writing' \in [Loggers -> Writers]
  BY <1>1, <1>3 DEF WakeTab
<1>4. ASSUME NEW t \in Loggers, WriteRecord(t)
      PROVE  /\ UNCHANGED <<store, listed, dialogVars, runVars, runLog, drains, rows, budget>>
             /\ log' \in Logs /\ writing' \in [Loggers -> Writers]
             /\ \A o \in Loggers : writing[o].stage = "waking" => writing'[o].stage = "waking"
             /\ \/ log' = log
                \/ /\ \E line \in Lines : (line.verbose => line.debug) /\ log' = Log(log, line)
                   /\ Wakes(log) => \E o \in Loggers : writing'[o].stage = "waking"
  <2> DEFINE line == [id |-> budget.records, by |-> t, verbose |-> writing[t].verbose,
                      debug |-> log.debug]
             writes == Enabled(log, writing[t].verbose)
             stage == IF writes /\ Wakes(log) THEN "waking" ELSE "idle"
  <2>1. line \in Lines /\ line.verbose = writing[t].verbose /\ line.debug = log.debug
    BY <1>1 DEF Lines, Logs, Allowances
  <2>2. writes => (line.verbose => line.debug)
    BY <2>1 DEF Enabled
  <2>3. log' = (IF writes THEN Log(log, line) ELSE log) /\ writing' = [writing EXCEPT ![t].stage = stage]
    BY <1>4 DEF WriteRecord
  <2>4. writing[t].stage = "formatting"
    BY <1>4 DEF WriteRecord
  <2>5. UNCHANGED <<store, listed, dialogVars, runVars, runLog, drains, rows, budget>>
    BY <1>4 DEF WriteRecord
  <2>6. stage \in {"waking", "idle"} /\ (writes /\ Wakes(log) => stage = "waking")
    OBVIOUS
  <2> HIDE DEF line, stage, writes
  <2>7. /\ writing' \in [Loggers -> Writers] /\ writing'[t].stage = stage
        /\ \A o \in Loggers : writing[o].stage = "waking" => writing'[o].stage = "waking"
    BY <1>1, <2>3, <2>4, <2>6
  <2>8. log' \in Logs
    BY <1>1, <2>1, <2>3, LogsMove
  <2>9. QED
    BY <2>1, <2>2, <2>3, <2>5, <2>6, <2>7, <2>8
<1>5. PICK t \in Loggers : BeginRecord(t) \/ WriteRecord(t) \/ WakeTab(t)
  BY DEF Logging
<1>6. CASE BeginRecord(t)
  BY <1>1, <1>2, <1>6
<1>7. CASE WakeTab(t)
  BY <1>1, <1>3, <1>7
<1>8. CASE WriteRecord(t)
  BY <1>1, <1>4, <1>8
<1>9. QED
  BY <1>5, <1>6, <1>7, <1>8

(* So does draining the feed.                                              *)
LEMMA TypeOfDrain ==
  ASSUME WindowTypeOK, DrainLog
  PROVE  WindowTypeOK'
<1>1. log' \in Logs /\ drains' \in Nat
  BY LogsMove DEF DrainLog, WindowTypeOK
<1>2. UNCHANGED <<store, listed, dialogVars, runVars, runLog, writing, budget>>
  BY DEF DrainLog
<1>3. QED
  BY <1>1, <1>2 DEF WindowTypeOK, dialogVars, runVars

(* The types hold at startup, and what was loaded is the profile's.        *)
LEMMA TypeOfInit ==
  ASSUME Init
  PROVE  /\ WindowTypeOK /\ log.attached /\ log.reset /\ log.history = <<>> /\ log.lines = <<>>
         /\ Readable(store.loaded.settings) =>
              store.loaded.settings = store.disk[store.loaded.profile].settings
<1>1. PICK disk \in Disks, remembered \in Names :
        Startup(disk, remembered) /\ listed = Listed(disk)
  BY DEF Init
<1> DEFINE current == Resolve(disk, remembered)
           options == [assets |-> 0, debug |-> FALSE]
           form == [edit |-> 0, assets |-> 0, debug |-> FALSE]
           empty == [disk |-> disk, common |-> remembered,
                     loaded |-> [profile |-> current, options |-> options, settings |-> NoSettings,
                                 base |-> FALSE],
                     form |-> form]
<1>2. current \in Names /\ disk \in [Names -> Profile]
  BY DefaultAssumption, WindowAssumption DEF Resolve
<1>3. NoSettings \in Settings /\ options \in Options
      /\ form \in [edit : 0 .. 1, assets : 0 .. 1, debug : BOOLEAN]
  BY DefaultAssumption DEF NoSettings, Settings, Options
<1>4. empty \in Stores
  <2> HIDE DEF current, options, form
  <2>1. QED
    BY <1>2, <1>3 DEF Stores
<1>5. store = Loading(empty, current, {}) /\ log = Subscribe(Opened(current, LoadOptions(empty, current, {}).debug))
  BY <1>1 DEF Startup
<1>6. LoadOptions(empty, current, {}) \in Options
  <2>1. empty.disk[current].options \in [there : BOOLEAN, assets : 0 .. 1, debug : BOOLEAN]
    BY <1>2, <1>4 DEF Stores, Profile
  <2>2. empty.loaded.options \in Options
    BY <1>4 DEF Stores
  <2> HIDE DEF empty, current
  <2>3. QED
    BY <2>1, <2>2 DEF LoadOptions, Options
<1> HIDE DEF empty, current
<1>7. /\ store \in Stores
      /\ Readable(store.loaded.settings) =>
           store.loaded.settings = store.disk[store.loaded.profile].settings
  BY <1>2, <1>4, <1>5, LoadingLeaves
<1>8. log \in Logs /\ log.attached /\ log.reset /\ log.history = <<>> /\ log.lines = <<>>
  <2>1. <<>> \in Seq(Lines) /\ LoadOptions(empty, current, {}).debug \in BOOLEAN
    BY <1>6 DEF Options
  <2>2. Opened(current, LoadOptions(empty, current, {}).debug) \in Logs
    BY <1>2, <2>1 DEF Opened, Logs
  <2>3. Opened(current, LoadOptions(empty, current, {}).debug).history = <<>>
    BY DEF Opened
  <2>4. QED
    BY <1>5, <2>1, <2>2, <2>3 DEF Subscribe, Logs
<1>9. modal \in Modals
  BY DEF Init, NoDialog, Modals
<1>10. view \in Views /\ active \in Nat /\ slot \in Nat
  <2>1. <<>> \in Seq(Rows) /\ NoRun \in Nat
    BY WindowAssumption
  <2>2. QED
    BY <2>1 DEF Init, View0, Views, Labels, Outcomes
<1>11. work \in Works
  <2>1. <<>> \in Seq(FailureRows) /\ NoRun \in Nat
    BY WindowAssumption
  <2>2. QED
    BY <1>3, <2>1, DefaultAssumption DEF Init, NoWork, Works, Outcomes
<1>12. events \in Seq(Events) /\ listed \in SUBSET Names /\ newName \in Names
  BY <1>1, DefaultAssumption DEF Init, Listed
<1>13. /\ windows \in SUBSET Nat /\ locked \in BOOLEAN /\ runLog \in Names \cup {NoPath} /\ drains \in Nat
       /\ ui \in [shown : BOOLEAN, running : BOOLEAN, cancelling : BOOLEAN]
  BY DEF Init
<1>14. writing \in [Loggers -> [stage : {"idle", "formatting", "waking"}, verbose : BOOLEAN]]
  BY DEF Init
<1>15. budget \in Allowances
  BY WindowAssumption DEF Init, Allowances
<1>16. QED
  BY <1>7, <1>8, <1>9, <1>10, <1>11, <1>12, <1>13, <1>14, <1>15 DEF WindowTypeOK

(* Every step keeps the types.                                             *)
LEMMA TypeOfSteps ==
  ASSUME WindowTypeOK, [Next]_vars
  PROVE  WindowTypeOK'
<1>1. CASE Dialogs
  BY <1>1, TypeOfDialogs DEF Dialogs
<1>2. CASE User
  BY <1>2, TypeOfProfiles, TypeOfRuns DEF User
<1>3. CASE Deliver
  BY <1>3, TypeOfDelivery
<1>4. CASE WorkerStep
  <2>1. /\ work' \in Works /\ slot' \in Nat /\ events' \in Seq(Events)
        /\ UNCHANGED <<store, listed, dialogVars, view, active, windows, locked, ui, logVars, budget>>
    <3>1. events \in Seq(Events) /\ slot \in Nat /\ NoRun \in Nat
      BY WindowAssumption DEF WindowTypeOK
    <3>2. events' \in Seq(Events)
      BY <1>4, <3>1, WorkerSteps
    <3>3. QED
      BY <1>4, <3>1, <3>2, WorkerSteps
  <2>2. QED
    BY <2>1 DEF WindowTypeOK, dialogVars, logVars
<1>5. CASE Logging
  <2>1. /\ UNCHANGED <<store, listed, dialogVars, runVars, runLog, rows>>
        /\ log' \in Logs /\ drains' \in Nat /\ budget' \in Allowances
        /\ writing' \in [Loggers -> [stage : {"idle", "formatting", "waking"}, verbose : BOOLEAN]]
    BY <1>5, LogSteps
  <2>2. QED
    BY <2>1 DEF WindowTypeOK, dialogVars, runVars
<1>6. CASE DrainLog
  BY <1>6, TypeOfDrain
<1>7. CASE UNCHANGED vars
  BY <1>7 DEF WindowTypeOK, vars, dialogVars, runVars, logVars
<1>8. QED
  BY <1>1, <1>2, <1>3, <1>4, <1>5, <1>6, <1>7 DEF Next

(* Every variable of the window keeps its type.                            *)
THEOREM WindowTypes == Spec => []WindowTypeOK
<1>1. Init => WindowTypeOK
  BY TypeOfInit
<1>2. WindowTypeOK /\ [Next]_vars => WindowTypeOK'
  BY TypeOfSteps
<1>3. QED
  BY <1>1, <1>2, PTL DEF Spec

(***************************************************************************)
(* Dialogs.                                                                *)
(***************************************************************************)

(* Nothing behind a dialog can be used.                                    *)
LEMMA OpenBlocks == WindowTypeOK /\ Guarded /\ Usable => modal.open = {}
<1> SUFFICES ASSUME WindowTypeOK, Guarded, Usable, NEW kind \in modal.open PROVE FALSE
  OBVIOUS
<1>1. modal \in Modals /\ kind \in Kinds /\ modal.closing \in Nat
  BY DEF WindowTypeOK, Modals
<1>2. Counted(modal) /\ Counted(Close(modal, kind)) /\ Close(modal, kind) \in Modals
  BY <1>1, DialogsMove DEF Guarded
<1>3. /\ Close(modal, kind).closing = modal.closing + 1 /\ Close(modal, kind).depth = modal.depth
      /\ Close(modal, kind).open = modal.open \ {kind}
  BY <1>1 DEF Close, Modals
<1>4. IsFiniteSet(modal.open \ {kind})
  <2>1. IsFiniteSet(Kinds)
    <3>1. Kinds = (({"name"} \cup {"about"}) \cup {"formats"}) \cup {"base"}
      BY DEF Kinds
    <3>2. IsFiniteSet({"name"}) /\ IsFiniteSet({"about"}) /\ IsFiniteSet({"formats"}) /\ IsFiniteSet({"base"})
      BY FS_Singleton
    <3>3. IsFiniteSet({"name"} \cup {"about"})
      BY <3>2, FS_Union
    <3>4. IsFiniteSet(({"name"} \cup {"about"}) \cup {"formats"})
      BY <3>2, <3>3, FS_Union
    <3>5. QED
      BY <3>1, <3>2, <3>4, FS_Union
  <2>2. modal.open \ {kind} \subseteq Kinds
    BY <1>1 DEF Modals
  <2>3. QED
    BY <2>1, <2>2, FS_Subset
<1>5. Cardinality(modal.open \ {kind}) \in Nat
  BY <1>4, FS_CardinalityType
<1>6. modal.depth > 0
  BY <1>1, <1>2, <1>3, <1>5 DEF Counted
<1>7. QED
  BY <1>2, <1>6 DEF Counted, Usable

(* Every step keeps the count of the dialogs.                              *)
LEMMA GuardedSteps ==
  ASSUME WindowTypeOK, Guarded, [Next]_vars
  PROVE  Guarded'
<1>1. modal \in Modals /\ Counted(modal)
  BY DEF WindowTypeOK, Guarded
<1>2. "name" \in Kinds /\ "about" \in Kinds /\ "formats" \in Kinds /\ "base" \in Kinds
      /\ modal.open \subseteq Kinds
  BY <1>1 DEF Kinds, Modals
<1>3. /\ \A kind \in Kinds : Counted(Open(modal, kind)) /\ Counted(Close(modal, kind))
      /\ modal.closing > 0 => Counted(DropGuard(modal))
  BY <1>1, <1>2, DialogsMove
<1>4. Counted(Open(Close(modal, "name"), "base"))
  BY <1>1, <1>2, DialogsMove
<1>5. Counted(modal')
  <2>1. CASE Dialogs
    BY <1>1, <1>2, <1>3, <1>4, <2>1, AskingMoves
    DEF Dialogs, NewProfile, Tutorial, EndTutorial, AboutSlint, EditUnwanted, ConfirmFormats,
        Dismiss, Teardown, ConfirmName, CreateProfile, FailCreation
  <2>2. CASE User
    <3>1. modal' = modal
      BY <2>2 DEF User, ProfileSelected, EditControls, ToggleDebugLog, StartRun, CancelRun,
                  CloseDuringRun, CloseWindow, dialogVars
    <3>2. QED
      BY <1>1, <3>1
  <2>3. CASE Deliver \/ WorkerStep \/ Logging \/ DrainLog
    <3>1. modal' = modal
      BY <2>3 DEF Deliver, WorkerStep, Logging, BeginRecord, WriteRecord, WakeTab, DrainLog, dialogVars
    <3>2. QED
      BY <1>1, <3>1
  <2>4. CASE UNCHANGED vars
    BY <1>1, <2>4 DEF vars, dialogVars
  <2>5. QED
    BY <2>1, <2>2, <2>3, <2>4 DEF Next
<1>6. QED
  BY <1>5 DEF Guarded

(***************************************************************************)
(* The run and its events.                                                 *)
(***************************************************************************)

(* The steps that move the run in flight.                                  *)
LEMMA RunsMove ==
  ASSUME WindowTypeOK, [Next]_vars
  PROVE  \/ UNCHANGED runVars
         \/ StartRun /\ Admit(view.run + 1)
         \/ CancelRun \/ CloseDuringRun
         \/ CloseWindow
         \/ Deliver \/ WorkerStep
<1>1. CASE Dialogs
  BY <1>1 DEF Dialogs, NewProfile, EndTutorial, AboutSlint, EditUnwanted, ConfirmFormats, Dismiss,
              Teardown, ConfirmName, CreateProfile, FailCreation
<1>2. CASE User
  <2>1. StartRun => UNCHANGED runVars \/ Admit(view.run + 1)
    BY DEF StartRun
  <2>2. (\E p \in Names : ProfileSelected(p)) \/ EditControls \/ ToggleDebugLog => UNCHANGED runVars
    BY DEF ProfileSelected, EditControls, ToggleDebugLog
  <2>3. QED
    BY <1>2, <2>1, <2>2 DEF User
<1>3. CASE Logging \/ DrainLog
  BY <1>3 DEF Logging, BeginRecord, WriteRecord, WakeTab, DrainLog
<1>4. CASE UNCHANGED vars
  BY <1>4 DEF vars
<1>5. QED
  BY <1>1, <1>2, <1>3, <1>4 DEF Next

(* Every event posted is taken, and the terminal one ends the run.         *)
LEMMA Takes ==
  ASSUME WindowTypeOK, Posting, InFlight, Deliver
  PROVE  LET e == events[1]
         IN /\ Len(events) \in Nat /\ Len(events) >= 1 /\ e \in Events /\ e = Head(events)
            /\ e.run = view.run /\ e.sequence = view.sequence + 1
            /\ view.active /\ ui.shown
            /\ events' = Tail(events) /\ Len(events') = Len(events) - 1
            /\ \A i \in 1 .. Len(events') : events'[i] = events[i + 1]
            /\ UNCHANGED <<listed, dialogVars, slot, work, log, runLog, drains, writing>>
            /\ view' = Consume(view, e) /\ rows' = ShowDetails(rows, view'.details)
            /\ \/ /\ e.kind # "terminal" /\ (work.stage = "ended" => Len(events) > 1)
                  /\ UNCHANGED <<store, active, windows, locked, ui, budget>>
               \/ /\ e.kind = "terminal" /\ work.stage = "ended" /\ Len(events) = 1
                  /\ events' = <<>> /\ EndRun(view')
<1> DEFINE e == events[1]
<1>1. events \in Seq(Events) /\ events # <<>> /\ events' = Tail(events) /\ Head(events) \in Events
  BY Delivers DEF WindowTypeOK
<1>2. /\ Len(events) \in Nat /\ Len(events) >= 1 /\ e = Head(events) /\ e \in Events
      /\ Len(events') = Len(events) - 1
      /\ \A i \in 1 .. Len(events') : events'[i] = events[i + 1]
      /\ Len(events) = 1 => events' = <<>>
  BY <1>1
<1>3. /\ e.run = view.run /\ e.sequence = view.sequence + 1
      /\ e.kind = "terminal" <=> work.stage = "ended" /\ 1 = Len(events)
  BY <1>2 DEF Posting
<1>4. active # NoRun /\ view.active /\ view.run \in windows
  BY <1>1 DEF InFlight
<1>5. e.run \in windows /\ Accepts(view, e)
  <2>1. view.sequence \in Nat
    BY DEF WindowTypeOK, Views
  <2>2. QED
    BY <1>3, <1>4, <2>1 DEF Accepts
<1>6. /\ ui.shown
      /\ UNCHANGED <<listed, dialogVars, slot, work, log, runLog, drains, writing>>
      /\ view' = Consume(view, e) /\ rows' = ShowDetails(rows, view'.details)
      /\ \/ e.kind # "terminal" /\ UNCHANGED <<store, active, windows, locked, ui, budget>>
         \/ e.kind = "terminal" /\ EndRun(view')
  BY <1>2, <1>4, <1>5, Delivers
<1>7. e.kind # "terminal" /\ work.stage = "ended" => Len(events) > 1
  BY <1>2, <1>3
<1>8. QED
  BY <1>1, <1>2, <1>3, <1>4, <1>6, <1>7

(* What the run and the view keep when a cancellation or a close is asked  *)
(* for.                                                                    *)
LEMMA Cancels ==
  ASSUME WindowTypeOK, CancelRun \/ CloseDuringRun
  PROVE  /\ view.active /\ active # NoRun /\ Usable
         /\ view' \in Views /\ work' \in Works
         /\ view'.run = view.run /\ view'.active = view.active /\ view'.sequence = view.sequence
         /\ view'.details = view.details /\ view'.outcome = view.outcome /\ view'.cancelRequested
         /\ view'.label.marks = IF view.cancelRequested THEN view.label.marks
                                ELSE view.label.marks + 1
         /\ work'.run = work.run /\ work'.stage = work.stage /\ work'.sequence = work.sequence
         /\ work'.failures = work.failures /\ work'.profile = work.profile
         /\ work'.settings = work.settings /\ work'.tutorials = work.tutorials
         /\ work.run = active => work'.cancelled
         /\ ui'.shown = ui.shown /\ ui'.running = ui.running
         /\ UNCHANGED <<store, listed, dialogVars, active, windows, locked, slot, events, logVars, budget>>
<1>1. /\ view \in Views /\ work \in Works
      /\ ui \in [shown : BOOLEAN, running : BOOLEAN, cancelling : BOOLEAN]
  BY DEF WindowTypeOK
<1>2. /\ Usable /\ view.active /\ Cancelling /\ view' \in {RequestCancellation(view), RequestClose(view)}
      /\ UNCHANGED <<store, listed, dialogVars, active, windows, locked, slot, events, logVars, budget>>
  BY DEF CancelRun, CloseDuringRun
<1>3. /\ view' \in Views
      /\ view'.run = view.run /\ view'.active = view.active /\ view'.sequence = view.sequence
      /\ view'.details = view.details /\ view'.outcome = view.outcome /\ view'.cancelRequested
      /\ view'.label.marks = IF view.cancelRequested THEN view.label.marks
                             ELSE view.label.marks + 1
  BY <1>1, <1>2, ViewsMove
<1>4. /\ work' \in Works /\ active # NoRun
      /\ work'.run = work.run /\ work'.stage = work.stage /\ work'.sequence = work.sequence
      /\ work'.failures = work.failures /\ work'.profile = work.profile
      /\ work'.settings = work.settings /\ work'.tutorials = work.tutorials
      /\ work.run = active => work'.cancelled
  BY <1>1, <1>2 DEF Cancelling, Works
<1>5. ui'.shown = ui.shown /\ ui'.running = ui.running
  BY <1>1, <1>2 DEF Cancelling
<1>6. QED
  BY <1>2, <1>3, <1>4, <1>5

(* No run is in flight at startup.                                         *)
LEMMA InFlightStarts == Init => Posting /\ InFlight
<1> SUFFICES ASSUME Init PROVE Posting /\ InFlight
  OBVIOUS
<1>1. /\ work = NoWork /\ view = View0 /\ active = NoRun /\ slot = NoRun /\ events = <<>>
  BY DEF Init
<1>2. /\ work.run = NoRun /\ work.sequence = 0 /\ work.stage = "idle"
      /\ view.run = NoRun /\ view.sequence = 0 /\ view.active = FALSE
  BY <1>1 DEF NoWork, View0
<1>3. Len(events) = 0
  BY <1>1
<1>4. QED
  BY <1>1, <1>2, <1>3 DEF Posting, InFlight

(* A run is admitted only when the events of the one before are all taken. *)
LEMMA AdmitsAlone ==
  ASSUME WindowTypeOK, Posting, InFlight, StartRun, Admit(view.run + 1)
  PROVE  /\ active = NoRun /\ events = <<>> /\ events' = <<>> /\ Len(events') = 0
         /\ view.run + 1 \in Nat /\ view.run + 1 # NoRun
<1>1. ~view.active /\ active = NoRun
  BY StartsType DEF InFlight
<1>2. events = <<>>
  BY <1>1 DEF InFlight
<1>3. view.run + 1 \in Nat /\ view.run + 1 # NoRun
  BY WindowAssumption DEF WindowTypeOK, Views
<1>4. events' = events
  BY DEF Admit
<1>5. QED
  BY <1>1, <1>2, <1>3, <1>4

(* Every step keeps window, handle and slot agreed on the run.             *)
LEMMA InFlightSteps ==
  ASSUME WindowTypeOK, Posting, InFlight, [Next]_vars
  PROVE  Posting' /\ InFlight'
<1>1. /\ view \in Views /\ work \in Works /\ events \in Seq(Events) /\ windows \in SUBSET Nat
      /\ view.sequence \in Nat /\ work.sequence \in Nat /\ Len(events) \in Nat
      /\ work.stage \in {"idle", "working", "cleanup", "committed", "ended"}
  BY DEF WindowTypeOK, Views, Works
<1>2. CASE UNCHANGED runVars
  BY <1>2 DEF runVars, Posting, InFlight
<1>3. CASE StartRun /\ Admit(view.run + 1)
  <2>1. /\ view.run + 1 \in Nat /\ view.run + 1 # NoRun /\ events' = <<>> /\ Len(events') = 0
    BY <1>3, AdmitsAlone
  <2>2. /\ slot' = view.run + 1 /\ active' = view.run + 1 /\ windows' = windows \cup {view.run + 1}
        /\ view' = Begin(view.run + 1) /\ work'.run = view.run + 1 /\ work'.stage = "working"
        /\ work'.sequence = 0
    BY <1>3, <2>1, StartsType, Admits
  <2>3. view'.run = view.run + 1 /\ view'.active /\ view'.sequence = 0
    BY <2>1, <2>2, Begins
  <2>4. Posting'
    BY <2>1, <2>2, <2>3 DEF Posting
  <2>5. InFlight'
    BY <2>1, <2>2, <2>3 DEF InFlight
  <2>6. QED
    BY <2>4, <2>5
<1>4. CASE CancelRun \/ CloseDuringRun
  BY <1>4, Cancels DEF Posting, InFlight
<1>5. CASE CloseWindow
  BY <1>5 DEF CloseWindow, Posting, InFlight
<1>6. CASE Deliver
  <2> DEFINE e == events[1]
  <2>1. /\ Len(events) >= 1 /\ e \in Events /\ e.sequence = view.sequence + 1 /\ view.active
        /\ Len(events') = Len(events) - 1
        /\ \A i \in 1 .. Len(events') : events'[i] = events[i + 1]
        /\ UNCHANGED <<slot, work>> /\ view' = Consume(view, e)
        /\ \/ /\ e.kind # "terminal" /\ (work.stage = "ended" => Len(events) > 1)
              /\ UNCHANGED <<active, windows>>
           \/ /\ e.kind = "terminal" /\ work.stage = "ended" /\ Len(events) = 1
              /\ events' = <<>> /\ active' = NoRun
    BY <1>6, Takes DEF EndRun
  <2>2. /\ view'.run = view.run /\ view'.sequence = view.sequence + 1
        /\ e.kind # "terminal" => view'.active = view.active
        /\ e.kind = "terminal" => ~view'.active
    <3>1. view' = Consume(view, e) /\ e \in Events /\ view \in Views
      BY <1>1, <2>1
    <3> HIDE DEF e
    <3>2. /\ view'.run = view.run /\ view'.sequence = e.sequence
          /\ e.kind # "terminal" => view'.active = view.active
          /\ e.kind = "terminal" => ~view'.active
      BY <3>1, Consumes, Zenon
    <3>3. QED
      BY <2>1, <3>2
  <2>3. Posting'
    <3>1. work'.run = view'.run /\ work'.sequence = view'.sequence + Len(events')
      BY <1>1, <2>1, <2>2 DEF Posting
    <3>2. ASSUME NEW i \in 1 .. Len(events')
          PROVE  /\ events'[i].run = work'.run
                 /\ events'[i].sequence = view'.sequence + i
                 /\ events'[i].kind = "terminal" <=> work'.stage = "ended" /\ i = Len(events')
      <4>1. i + 1 \in 1 .. Len(events) /\ (i = Len(events') <=> i + 1 = Len(events))
        BY <1>1, <2>1
      <4>2. /\ events[i + 1].run = work.run
            /\ events[i + 1].sequence = view.sequence + (i + 1)
            /\ events[i + 1].kind = "terminal" <=> work.stage = "ended" /\ i + 1 = Len(events)
        BY <4>1 DEF Posting
      <4>3. view.sequence + (i + 1) = (view.sequence + 1) + i
        BY <1>1
      <4>4. QED
        BY <2>1, <2>2, <4>1, <4>2, <4>3
    <3>3. work'.stage # "idle"
      BY <2>1 DEF Posting
    <3>4. QED
      BY <3>1, <3>2, <3>3 DEF Posting
  <2>4. InFlight'
    <3>1. CASE e.kind # "terminal"
      <4>1. /\ UNCHANGED <<active, windows, slot, work>> /\ view'.active = view.active
            /\ view'.run = view.run /\ (work.stage = "ended" => Len(events) > 1)
        BY <2>1, <2>2, <3>1
      <4>2. work.stage \in {"idle", "ended"} => events' # <<>>
        <5>1. ASSUME work.stage = "idle", Len(events) = 1 PROVE FALSE
          BY <1>1, <2>1, <5>1 DEF Posting
        <5>2. work.stage = "ended" => Len(events') # 0
          BY <1>1, <2>1, <4>1
        <5>3. work.stage = "idle" => Len(events') # 0
          BY <1>1, <2>1, <5>1
        <5>4. QED
          BY <5>2, <5>3
      <4>3. QED
        BY <1>1, <2>1, <4>1, <4>2 DEF InFlight
    <3>2. CASE e.kind = "terminal"
      BY <2>1, <2>2, <3>2 DEF InFlight
    <3>3. QED
      BY <3>1, <3>2
  <2>5. QED
    BY <2>3, <2>4
<1>7. CASE WorkerStep
  <2>1. work.sequence = view.sequence + Len(events)
    BY DEF Posting
  <2>2. UNCHANGED <<view, active, windows>> /\ work'.run = work.run
    BY <1>7, WorkerSteps
  <2>3. CASE /\ work.stage = "cleanup" /\ work'.stage = "committed" /\ slot' = NoRun
             /\ events' = events /\ work'.sequence = work.sequence
    <3>1. Posting'
      BY <2>2, <2>3 DEF Posting
    <3>2. InFlight'
      BY <2>2, <2>3 DEF InFlight
    <3>3. QED
      BY <3>1, <3>2
  <2>4. ASSUME NEW e \in Events, events' = Append(events, e), slot' = slot,
               e.run = work.run, e.sequence = work.sequence + 1, work'.sequence = work.sequence + 1,
               \/ work.stage = "working" /\ work'.stage \in {"working", "cleanup"} /\ e.kind # "terminal"
               \/ work.stage = "committed" /\ work'.stage = "ended" /\ e.kind = "terminal"
        PROVE  Posting' /\ InFlight'
    <3>1. /\ Len(events') = Len(events) + 1 /\ events' # <<>>
          /\ \A i \in 1 .. Len(events) : events'[i] = events[i]
          /\ events'[Len(events) + 1] = e
      BY <1>1, <2>4
    <3>2. work.stage # "ended"
      BY <2>4
    <3>3. ASSUME NEW i \in 1 .. Len(events')
          PROVE  /\ events'[i].run = work'.run
                 /\ events'[i].sequence = view'.sequence + i
                 /\ events'[i].kind = "terminal" <=> work'.stage = "ended" /\ i = Len(events')
      <4>1. CASE i = Len(events) + 1
        <5>1. work.sequence + 1 = view.sequence + i
          BY <1>1, <2>1, <4>1
        <5>2. i = Len(events')
          BY <3>1, <4>1
        <5>3. events'[i].kind = "terminal" <=> work'.stage = "ended"
          BY <2>4, <3>1, <4>1
        <5>4. QED
          BY <2>2, <2>4, <3>1, <4>1, <5>1, <5>2, <5>3
      <4>2. CASE i \in 1 .. Len(events)
        <5>1. i # Len(events')
          BY <1>1, <3>1, <4>2
        <5>2. QED
          BY <2>2, <3>1, <3>2, <4>2, <5>1 DEF Posting
      <4>3. QED
        BY <1>1, <3>1, <4>1, <4>2
    <3>4. work'.sequence = view'.sequence + Len(events')
      <4>1. view'.sequence = view.sequence
        BY <2>2
      <4>2. QED
        <5>1. work'.sequence = work.sequence + 1 /\ Len(events') = Len(events) + 1
          BY <2>4, <3>1
        <5>2. QED
          BY <1>1, <2>1, <4>1, <5>1
    <3>5. Posting'
      <4>1. work'.stage # "idle" /\ work'.run = view'.run
        BY <2>2, <2>4 DEF Posting
      <4>2. QED
        BY <3>3, <3>4, <4>1 DEF Posting
    <3>6. InFlight'
      BY <2>2, <2>4, <3>1 DEF InFlight
    <3>7. QED
      BY <3>5, <3>6
  <2>5. CASE \E e \in Events :
               /\ events' = Append(events, e) /\ slot' = slot
               /\ e.run = work.run /\ e.sequence = work.sequence + 1
               /\ work'.sequence = work.sequence + 1
               /\ \/ work.stage = "working" /\ work'.stage \in {"working", "cleanup"} /\ e.kind # "terminal"
                  \/ work.stage = "committed" /\ work'.stage = "ended" /\ e.kind = "terminal"
    BY <2>4, <2>5
  <2>6. QED
    BY <1>7, <2>3, <2>5, WorkerSteps
<1>8. QED
  BY <1>2, <1>3, <1>4, <1>5, <1>6, <1>7, RunsMove

(* Whenever the window offers Run, ACTIVE_RUN is free: the service frees   *)
(* it before it posts the event that lets the window offer Run again.      *)
THEOREM StartNeverRefused == Spec => []StartIsNeverRefused
<1>1. Init => WindowTypeOK /\ Posting /\ InFlight
  BY TypeOfInit, InFlightStarts
<1>2. WindowTypeOK /\ Posting /\ InFlight /\ [Next]_vars => WindowTypeOK' /\ Posting' /\ InFlight'
  BY TypeOfSteps, InFlightSteps
<1>3. Posting /\ InFlight => StartIsNeverRefused
  <2> SUFFICES ASSUME InFlight, CanStart(view) PROVE slot = NoRun
    BY DEF StartIsNeverRefused
  <2>1. active = NoRun
    BY DEF InFlight, CanStart
  <2>2. work.stage \in {"idle", "ended"} \/ work.stage \notin {"working", "cleanup"}
    BY <2>1 DEF InFlight
  <2>3. QED
    BY <2>2 DEF InFlight
<1>4. QED
  BY <1>1, <1>2, <1>3, PTL DEF Spec

(* Every step keeps the cancellation with the run.                         *)
LEMMA CancellationSteps ==
  ASSUME WindowTypeOK, Posting, InFlight, CancellationReachesTheRun, [Next]_vars
  PROVE  CancellationReachesTheRun'
<1>1. view \in Views /\ view.label.marks \in Nat /\ work.cancelled \in BOOLEAN
  BY DEF WindowTypeOK, Views, Works
<1>2. CASE UNCHANGED runVars
  BY <1>2 DEF runVars, CancellationReachesTheRun
<1>3. CASE StartRun /\ Admit(view.run + 1)
  <2>1. view.run + 1 \in Nat
    BY <1>3, AdmitsAlone
  <2>2. view' = Begin(view.run + 1) /\ ~work'.cancelled
    BY <1>3, <2>1, StartsType, Admits
  <2>3. view'.label.marks = 0 /\ ~view'.cancelRequested
    BY <2>1, <2>2, Begins
  <2>4. QED
    BY <2>2, <2>3 DEF CancellationReachesTheRun
<1>4. CASE CancelRun \/ CloseDuringRun
  <2>1. /\ view.active /\ active # NoRun /\ view'.cancelRequested
        /\ view'.label.marks = IF view.cancelRequested THEN view.label.marks
                               ELSE view.label.marks + 1
        /\ work.run = active => work'.cancelled
    BY <1>4, Cancels
  <2>2. work.run = active
    BY <2>1 DEF Posting, InFlight
  <2>3. view.label.marks = IF view.cancelRequested THEN 1 ELSE 0
    BY <2>1 DEF CancellationReachesTheRun
  <2>4. view'.label.marks = 1
    BY <2>1, <2>3
  <2>5. QED
    BY <2>1, <2>2, <2>4 DEF CancellationReachesTheRun
<1>5. CASE CloseWindow
  BY <1>5 DEF CloseWindow, CancellationReachesTheRun
<1>6. CASE Deliver
  <2> DEFINE e == events[1]
  <2>1. e \in Events /\ view.active /\ view' = Consume(view, e) /\ work' = work
    BY <1>6, Takes
  <2>2. e.kind \in {"phase", "failure", "terminal"}
    BY <2>1, EventsTell
  <2>3. /\ view'.cancelRequested = view.cancelRequested
        /\ e.kind = "terminal" => ~view'.active
        /\ e.kind = "failure" => view'.label = view.label
        /\ e.kind = "phase" => view'.label.marks = IF view.cancelRequested THEN 1 ELSE 0
    BY <1>1, <2>1, Consumes
  <2>4. /\ view.cancelRequested <=> work.cancelled
        /\ view.label.marks = IF view.cancelRequested THEN 1 ELSE 0
    BY <2>1 DEF CancellationReachesTheRun
  <2> HIDE DEF e
  <2>5. QED
    BY <2>1, <2>2, <2>3, <2>4 DEF CancellationReachesTheRun
<1>7. CASE WorkerStep
  BY <1>7, WorkerSteps DEF CancellationReachesTheRun
<1>8. QED
  BY <1>2, <1>3, <1>4, <1>5, <1>6, <1>7, RunsMove

(* A cancellation the window shows has reached the run the Run Worker      *)
(* executes, whichever phase is reported meanwhile and however often it is *)
(* asked for; the label says so once.                                      *)
THEOREM CancellationReaches == Spec => []CancellationReachesTheRun
<1>1. Init => CancellationReachesTheRun
  BY DEF Init, View0, CancellationReachesTheRun
<1>2. Init => WindowTypeOK /\ Posting /\ InFlight
  BY TypeOfInit, InFlightStarts
<1>3. WindowTypeOK /\ Posting /\ InFlight /\ CancellationReachesTheRun /\ [Next]_vars
        => WindowTypeOK' /\ Posting' /\ InFlight' /\ CancellationReachesTheRun'
  BY TypeOfSteps, InFlightSteps, CancellationSteps
<1>4. QED
  BY <1>1, <1>2, <1>3, PTL DEF Spec

(***************************************************************************)
(* What a run in flight holds.                                             *)
(***************************************************************************)

(* A save under a run changes no settings; a save that succeeds is what the *)
(* controls show.                                                          *)
LEMMA HeldSettings ==
  ASSUME NEW s \in Stores, NEW fails
  PROVE  /\ LET new == Saving([s EXCEPT !.form.debug = ~@], TRUE, fails)
            IN /\ new.loaded = s.loaded /\ new.disk = s.disk
               /\ ReadSettings(new.form, new.loaded.settings) = ReadSettings(s.form, s.loaded.settings)
         /\ Saved(s, FALSE, fails) =>
              SavedAsShown(Saving(s, FALSE, fails), s.loaded.profile)
<1> DEFINE toggled == [s EXCEPT !.form.debug = ~@]
           kept == Saving(toggled, TRUE, fails)
           saved == Saving(s, FALSE, fails)
           p == s.loaded.profile
<1>1. toggled \in Stores /\ toggled.disk = s.disk /\ toggled.loaded = s.loaded
      /\ toggled.form.edit = s.form.edit
  BY DEF Stores
<1> HIDE DEF toggled
<1>2. kept.loaded = s.loaded /\ kept.disk = s.disk /\ kept.form = toggled.form
  <2> HIDE DEF kept
  <2>1. kept.loaded = toggled.loaded /\ kept.disk = toggled.disk /\ kept.form = toggled.form
    BY <1>1, HeldSavesNothing, Zenon DEF kept
  <2>2. QED
    BY <1>1, <2>1
<1>3. ReadSettings(kept.form, kept.loaded.settings) = ReadSettings(s.form, s.loaded.settings)
  <2> HIDE DEF kept
  <2>1. QED
    BY <1>1, <1>2 DEF ReadSettings
<1>4. ASSUME Saved(s, FALSE, fails) PROVE SavedAsShown(saved, p)
  <2> DEFINE read == ReadSettings(s.form, s.loaded.settings)
  <2>1. CASE ~Readable(s.loaded.settings)
    <3>1. saved.loaded.settings = s.loaded.settings
      BY <2>1, SavingLeaves
    <3>2. QED
      BY <2>1, <3>1 DEF SavedAsShown
  <2>2. CASE Readable(s.loaded.settings)
    <3>1. "saveSettings" \notin fails
      BY <1>4, <2>2 DEF Saved
    <3>2. /\ saved.loaded.settings = read /\ saved.disk[p].settings = read
          /\ saved.form = s.form
      BY <2>2, <3>1, SavingLeaves
    <3>3. s.loaded.settings \in Settings
      BY DEF Stores
    <3> HIDE DEF saved, p
    <3>4. ReadSettings(s.form, read) = read
      BY <3>3 DEF ReadSettings, Settings
    <3> HIDE DEF read
    <3>5. ReadSettings(saved.form, saved.loaded.settings) = read
      BY <3>2, <3>4
    <3>6. QED
      BY <3>2, <3>5 DEF SavedAsShown
  <2>3. QED
    BY <2>1, <2>2
<1>5. QED
  BY <1>2, <1>3, <1>4 DEF toggled

(* Nothing is held at startup.                                             *)
LEMMA HoldingStarts == Init => Holding
BY DEF Init, Holding

(* While a run holds the controls no dialog writes settings a profile has. *)
LEMMA DialogsSaveNothing ==
  ASSUME WindowTypeOK, locked, Dialogs
  PROVE  \A q \in Names : store'.disk[q].settings # store.disk[q].settings =>
           store.disk[q].settings.state = "absent"
<1>1. store \in Stores /\ store.disk \in [Names -> Profile] /\ newName \in Names /\ locked = TRUE
  BY DEF WindowTypeOK, Stores
<1>2. ASSUME NEW base \in Names, CreateProfile(base)
      PROVE  KeepsSettings(store.disk, store'.disk, newName)
  <2> DEFINE disk == Create(store.disk, newName, base)
             made == [store EXCEPT !.disk = disk]
  <2>1. PICK fails \in SUBSET SelectFaults : Select(made, newName, fails)
    BY <1>2 DEF CreateProfile
  <2> DEFINE saved == Saving(made, TRUE, fails)
  <2>2. KeepsSettings(store.disk, disk, newName)
    BY <1>1, CreatingLeaves
  <2> HIDE DEF disk
  <2>3. made \in Stores /\ made.disk = disk
    BY <1>1, <2>2 DEF KeepsSettings, Stores
  <2> HIDE DEF made
  <2>4. saved \in Stores /\ saved.disk = disk
    BY <2>3, HeldSavesNothing, SavingLeaves
  <2>5. store' = Loading(saved, newName, fails)
    BY <1>1, <2>1, <2>3, SelectsType
  <2> HIDE DEF saved
  <2>6. store'.disk = disk
    BY <1>1, <2>4, <2>5, LoadingLeaves
  <2>7. QED
    BY <2>2, <2>6
<1>3. ASSUME NEW base \in Names, FailCreation(base)
      PROVE  KeepsSettings(store.disk, store'.disk, newName)
  <2>1. PICK disk \in Partial(store.disk, newName, base) : store' = [store EXCEPT !.disk = disk]
    BY <1>3 DEF FailCreation
  <2>2. store'.disk = disk
    BY <1>1, <2>1 DEF Stores
  <2>3. QED
    BY <1>1, <2>1, <2>2, CreatingLeaves
<1>4. ASSUME ~\E base \in Names : CreateProfile(base) \/ FailCreation(base)
      PROVE  store'.disk = store.disk
  BY <1>1, <1>4 DEF Dialogs, NewProfile, EndTutorial, AboutSlint, EditUnwanted, ConfirmFormats,
                    Dismiss, Teardown, ConfirmName, Stores
<1>5. QED
  BY <1>2, <1>3, <1>4 DEF KeepsSettings

(* No dialog that a run leaves open reaches what it holds, and the dialogs *)
(* a tutorial goes on to do not reach its profile.ini.                     *)
LEMMA HoldingDialogs ==
  ASSUME WindowTypeOK, InFlight, Holding, Dialogs
  PROVE  Holding'
<1>1. modal \in Modals /\ "about" \in Kinds /\ "name" # "about" /\ "formats" # "about" /\ "base" # "about"
  BY DEF WindowTypeOK, Kinds
<1>2. UNCHANGED runVars
  BY DEF Dialogs, NewProfile, EndTutorial, AboutSlint, EditUnwanted, ConfirmFormats, Dismiss,
         Teardown, ConfirmName, CreateProfile, FailCreation
<1>3. CASE active = NoRun
  BY <1>2, <1>3 DEF Holding, runVars
<1>4. CASE active # NoRun
  <2>1. /\ locked /\ ui.running /\ ui.shown
        /\ work.settings.state # "absent" => store.disk[work.profile].settings = work.settings
    BY <1>4 DEF Holding
  <2>2. work.settings.state # "absent" => store'.disk[work.profile].settings = work.settings
    <3>1. work.profile \in Names
      BY DEF WindowTypeOK, Works
    <3>2. QED
      BY <2>1, <3>1, DialogsSaveNothing
  <2>3. ASSUME work.tutorials = 0
        PROVE  /\ modal'.tutorials = 0 /\ modal'.open \subseteq {"about"}
               /\ UNCHANGED <<store, logVars>>
    <3>1. modal.tutorials = 0 /\ modal.open \subseteq {"about"}
      BY <1>4, <2>3 DEF Holding
    <3>2. Dismiss \/ Teardown \/ AboutSlint
      <4>1. ~NewProfile /\ ~EditUnwanted
        BY <2>1 DEF NewProfile, EditUnwanted, AdvancedControls, ProfileControls
      <4>2. ~EndTutorial
        BY <3>1 DEF EndTutorial
      <4>3. ~Answers("name") /\ ~Answers("formats") /\ ~Answers("base")
        BY <1>1, <3>1 DEF Answers
      <4>4. ~ConfirmFormats /\ ~\E name \in Names : ConfirmName(name)
        BY <4>3 DEF ConfirmFormats, ConfirmName
      <4>5. ~\E base \in Names : CreateProfile(base) \/ FailCreation(base)
        BY <4>3 DEF CreateProfile, FailCreation
      <4>6. QED
        BY <4>1, <4>2, <4>4, <4>5 DEF Dialogs
    <3>3. \A kind \in modal.open : kind \in Kinds
      BY <1>1 DEF Modals
    <3>4. \A kind \in Kinds : /\ Open(modal, kind).open = modal.open \cup {kind}
                              /\ Open(modal, kind).tutorials = modal.tutorials
                              /\ Close(modal, kind).open = modal.open \ {kind}
                              /\ Close(modal, kind).tutorials = modal.tutorials
      BY <1>1, DialogsMove
    <3>5. modal.closing > 0 => /\ DropGuard(modal).open = modal.open
                               /\ DropGuard(modal).tutorials = modal.tutorials
      BY <1>1, DialogsMove
    <3>6. modal'.tutorials = 0 /\ modal'.open \subseteq {"about"}
      BY <1>1, <3>1, <3>2, <3>3, <3>4, <3>5 DEF Dismiss, Teardown, AboutSlint
    <3>7. UNCHANGED <<store, logVars>>
      BY <3>2 DEF Dismiss, Teardown, AboutSlint
    <3>8. QED
      BY <3>6, <3>7
  <2>4. QED
    BY <1>2, <1>4, <2>1, <2>2, <2>3 DEF Holding, ShownSettings, runVars, logVars
<1>5. QED
  BY <1>3, <1>4

(* Neither do the controls it leaves usable.                               *)
LEMMA HoldingUser ==
  ASSUME WindowTypeOK, Guarded, Posting, InFlight, Holding, User
  PROVE  Holding'
<1>1. /\ store \in Stores /\ view \in Views /\ locked \in BOOLEAN /\ log \in Logs
      /\ ui \in [shown : BOOLEAN, running : BOOLEAN, cancelling : BOOLEAN]
  BY DEF WindowTypeOK
<1>2. CASE (\E p \in Names : ProfileSelected(p)) \/ EditControls
  <2>1. active = NoRun /\ UNCHANGED runVars
    BY <1>2 DEF ProfileSelected, EditControls, AdvancedControls, ProfileControls, Holding
  <2>2. QED
    BY <2>1 DEF Holding, runVars
<1>3. CASE ToggleDebugLog
  <2>1. UNCHANGED <<listed, dialogVars, runVars, runLog, drains, rows, writing>>
    BY <1>3 DEF ToggleDebugLog
  <2>2. CASE active = NoRun
    BY <2>1, <2>2 DEF Holding, runVars
  <2>3. CASE active # NoRun
    <3>1. locked = TRUE
      BY <1>1, <2>3 DEF Holding
    <3>2. PICK fails : store' = Saving([store EXCEPT !.form.debug = ~@], TRUE, fails)
      BY <1>3, <3>1 DEF ToggleDebugLog
    <3>3. /\ store'.loaded = store.loaded /\ store'.disk = store.disk /\ log' = log
          /\ ShownSettings' = ShownSettings
      BY <1>1, <1>3, <3>1, <3>2, HeldSettings DEF ToggleDebugLog, ShownSettings
    <3>4. QED
      BY <2>1, <2>3, <3>3 DEF Holding, runVars, dialogVars
  <2>4. QED
    BY <2>2, <2>3
<1>4. CASE StartRun
  <2>1. active = NoRun /\ ~locked /\ Usable /\ ui.shown
    BY <1>4, StartsType DEF InFlight, Holding, Usable
  <2>2. UNCHANGED <<listed, dialogVars, runLog, writing>>
    BY <1>4, StartsType
  <2>3. PICK fails : /\ store' = Saving(store, FALSE, fails)
                     /\ \/ UNCHANGED <<runVars, rows>>
                        \/ /\ Admit(view.run + 1) /\ Saved(store, FALSE, fails)
                           /\ log'.path = RunPath
    BY <1>1, <1>4, <2>1, StartsType
  <2>4. CASE UNCHANGED <<runVars, rows>>
    BY <2>1, <2>4 DEF Holding, runVars
  <2>5. CASE Admit(view.run + 1) /\ Saved(store, FALSE, fails) /\ log'.path = RunPath
    <3>1. view.run + 1 \in Nat /\ view.run + 1 # NoRun
      BY <1>4, <2>5, AdmitsAlone
    <3>2. /\ locked' = TRUE /\ active' = view.run + 1 /\ work'.profile = store.loaded.profile
          /\ work'.settings = store'.disk[work'.profile].settings
          /\ work'.tutorials = modal.tutorials
          /\ ui' = [ui EXCEPT !.running = TRUE, !.cancelling = FALSE]
      BY <1>4, <2>5, <3>1, StartsType, Admits
    <3>3. ui'.running /\ ui'.shown
      BY <1>1, <2>1, <3>2
    <3>4. modal'.open = {} /\ modal'.tutorials = work'.tutorials
      BY <2>1, <2>2, <3>2, OpenBlocks DEF dialogVars
    <3>5. store'.loaded.profile = work'.profile
      BY <1>1, <2>3, <3>2, SavingLeaves
    <3>6. (Readable(store.loaded.settings) => ShownSettings = work.settings)'
      <4>1. SavedAsShown(store', work'.profile)
        BY <1>1, <2>3, <2>5, <3>2, HeldSettings
      <4>2. QED
        BY <3>2, <4>1 DEF SavedAsShown, ShownSettings
    <3>7. runLog' # NoPath => log'.path = runLog'
      BY <2>2, <2>5 DEF RunPath
    <3>8. QED
      BY <3>1, <3>2, <3>3, <3>4, <3>5, <3>6, <3>7 DEF Holding
  <2>6. QED
    BY <2>3, <2>4, <2>5
<1>5. CASE CancelRun \/ CloseDuringRun
  BY <1>5, Cancels DEF Holding, ShownSettings, dialogVars, logVars
<1>6. CASE CloseWindow
  <2>1. active = NoRun /\ ~ui'.shown /\ UNCHANGED active
    BY <1>1, <1>6 DEF CloseWindow, MayClose, InFlight
  <2>2. QED
    BY <2>1 DEF Holding
<1>7. QED
  BY <1>2, <1>3, <1>4, <1>5, <1>6 DEF User

(* Every step keeps what a run holds.                                      *)
LEMMA HoldingSteps ==
  ASSUME WindowTypeOK, Guarded, Posting, InFlight, Holding, [Next]_vars
  PROVE  Holding'
<1>1. view \in Views /\ log \in Logs
  BY DEF WindowTypeOK
<1>2. CASE Deliver
  <2> DEFINE e == events[1]
  <2>1. /\ e \in Events /\ UNCHANGED <<listed, dialogVars, slot, work, log, runLog, drains, writing>>
        /\ view' = Consume(view, e)
        /\ \/ UNCHANGED <<store, active, windows, locked, ui, budget>>
           \/ EndRun(view')
    BY <1>2, Takes
  <2>2. view' \in Views
    BY <1>1, <2>1, Consumes
  <2>3. CASE UNCHANGED <<store, active, windows, locked, ui, budget>>
    BY <2>1, <2>3 DEF Holding, ShownSettings, dialogVars
  <2>4. CASE EndRun(view')
    <3>1. active' = NoRun /\ (ui'.shown => ~locked')
      BY <2>2, <2>4, EndsType
    <3>2. QED
      BY <3>1 DEF Holding
  <2>5. QED
    BY <2>1, <2>3, <2>4
<1>3. CASE WorkerStep
  <2>1. /\ UNCHANGED <<store, listed, dialogVars, view, active, windows, locked, ui, logVars, budget>>
        /\ work'.profile = work.profile /\ work'.settings = work.settings
        /\ work'.tutorials = work.tutorials
    BY <1>3, WorkerSteps
  <2>2. QED
    BY <2>1 DEF Holding, ShownSettings, dialogVars, logVars
<1>4. CASE Logging \/ DrainLog
  <2>1. UNCHANGED <<store, dialogVars, runVars, runLog>>
    BY <1>4, LogSteps DEF DrainLog
  <2>2. log'.path = log.path
    BY <1>1, <1>4, LogSteps, LogsMove DEF DrainLog
  <2>3. QED
    BY <2>1, <2>2 DEF Holding, ShownSettings, dialogVars, runVars
<1>5. CASE UNCHANGED vars
  BY <1>5 DEF Holding, ShownSettings, vars, dialogVars, runVars, logVars
<1>6. QED
  BY <1>2, <1>3, <1>4, <1>5, HoldingDialogs, HoldingUser DEF Next

(* While a run is in flight the controls are held and its profile.ini is   *)
(* what the start left; unless a tutorial was pending at the start, the    *)
(* window also keeps to the run's profile, settings and log file.          *)
THEOREM RunHolds == Spec => []RunHoldsTheWindow
<1>1. Init => WindowTypeOK /\ Guarded /\ Posting /\ InFlight /\ Holding
  <2>1. Init => Guarded
    <3>1. Cardinality({}) = 0
      BY FS_EmptySet
    <3>2. QED
      BY <3>1 DEF Init, NoDialog, Guarded, Counted
  <2>2. QED
    BY <2>1, TypeOfInit, InFlightStarts, HoldingStarts
<1>2. WindowTypeOK /\ Guarded /\ Posting /\ InFlight /\ Holding /\ [Next]_vars
        => WindowTypeOK' /\ Guarded' /\ Posting' /\ InFlight' /\ Holding'
  BY TypeOfSteps, GuardedSteps, InFlightSteps, HoldingSteps
<1>3. InFlight /\ Holding => RunHoldsTheWindow
  BY DEF InFlight, Holding, RunHoldsTheWindow
<1>4. QED
  BY <1>1, <1>2, <1>3, PTL DEF Spec

(***************************************************************************)
(* Whose settings are saved.                                               *)
(***************************************************************************)
LEMMA SavesAtHome ==
  ASSUME NEW s \in Stores, AtHome(s), NEW held \in BOOLEAN, NEW fails
  PROVE  LET new == Saving(s, held, fails)
         IN new \in Stores /\ AtHome(new) /\ Home(s, new)
<1> DEFINE new == Saving(s, held, fails)
           p == s.loaded.profile
           read == ReadSettings(s.form, s.loaded.settings)
<1>1. p \in Names /\ s.disk[p].settings \in Settings /\ s.loaded.settings \in Settings
  BY DEF Stores, Profile
<1>2. /\ new \in Stores /\ new.loaded.profile = p
      /\ \A q \in Names \ {p} : new.disk[q].settings = s.disk[q].settings
  BY SavingLeaves
<1>3. read.caps = s.loaded.settings.caps /\ (Readable(read) <=> Readable(s.loaded.settings))
  BY <1>1 DEF ReadSettings, Readable, Settings
<1>4. CASE held \/ ~Readable(s.loaded.settings)
  <2>1. new.loaded.settings = s.loaded.settings /\ new.disk[p].settings = s.disk[p].settings
    <3>1. held => new.loaded = s.loaded /\ new.disk = s.disk
      BY HeldSavesNothing
    <3>2. ~Readable(s.loaded.settings) => /\ new.loaded.settings = s.loaded.settings
                                         /\ new.disk[p].settings = s.disk[p].settings
      BY SavingLeaves
    <3>3. QED
      BY <1>4, <3>1, <3>2
  <2> HIDE DEF new
  <2>2. QED
    BY <1>2, <2>1 DEF AtHome, Home, new
<1>5. CASE ~held /\ Readable(s.loaded.settings)
  <2>1. /\ new.loaded.settings = read
        /\ new.disk[p].settings = IF "saveSettings" \in fails THEN s.disk[p].settings ELSE read
    BY <1>5, SavingLeaves
  <2>2. Readable(s.disk[p].settings) /\ s.disk[p].settings.caps = s.loaded.settings.caps
    BY <1>5 DEF AtHome
  <2> HIDE DEF new, read
  <2>3. Readable(new.disk[p].settings) /\ new.disk[p].settings.caps = s.loaded.settings.caps
    BY <1>3, <1>5, <2>1, <2>2
  <2>4. AtHome(new)
    BY <1>2, <1>3, <2>1, <2>3 DEF AtHome
  <2>5. Home(s, new)
    BY <1>2, <2>2, <2>3 DEF Home
  <2>6. QED
    BY <1>2, <2>4, <2>5 DEF new
<1>6. QED
  BY <1>4, <1>5

(* Choosing a profile writes only to the one that was loaded.              *)
LEMMA SelectsAtHome ==
  ASSUME WindowTypeOK, NEW before \in Stores, AtHome(before), NEW p \in Names, NEW fails,
         Select(before, p, fails)
  PROVE  AtHome(store') /\ Home(before, store')
<1> DEFINE saved == Saving(before, locked, fails)
<1>1. saved \in Stores /\ Home(before, saved)
  BY SavesAtHome DEF WindowTypeOK
<1>2. store' = Loading(saved, p, fails)
  BY SelectsType
<1> HIDE DEF saved
<1>3. /\ store'.loaded.profile = p /\ store'.disk = saved.disk
      /\ Readable(store'.loaded.settings) => store'.loaded.settings = saved.disk[p].settings
  BY <1>1, <1>2, LoadingLeaves
<1>4. QED
  BY <1>1, <1>3 DEF AtHome, Home

(* Creating a profile takes nothing from one that is there.                *)
LEMMA CreatesAtHome ==
  ASSUME NEW s \in Stores, AtHome(s), NEW disk, NEW name \in Names,
         KeepsSettings(s.disk, disk, name)
  PROVE  LET made == [s EXCEPT !.disk = disk]
         IN made \in Stores /\ AtHome(made) /\ Home(s, made)
            /\ \A new : Home(made, new) => Home(s, new)
<1> DEFINE made == [s EXCEPT !.disk = disk]
<1>1. /\ made \in Stores /\ made.disk = disk /\ made.loaded = s.loaded
      /\ s.loaded.profile \in Names
  BY DEF KeepsSettings, Stores
<1>2. \A q \in Names : made.disk[q].settings # s.disk[q].settings => s.disk[q].settings.state = "absent"
  BY <1>1 DEF KeepsSettings
<1> HIDE DEF made
<1>3. AtHome(made)
  BY <1>1, <1>2 DEF AtHome, Readable
<1>4. Home(s, made)
  BY <1>2 DEF Home
<1>5. ASSUME NEW new, Home(made, new) PROVE Home(s, new)
  BY <1>1, <1>2, <1>5 DEF Home
<1>6. QED
  BY <1>1, <1>3, <1>4, <1>5 DEF made

(* Every step writes settings at home.                                     *)
LEMMA HomeSteps ==
  ASSUME WindowTypeOK, AtHome(store), [Next]_vars
  PROVE  AtHome(store') /\ Home(store, store')
<1>1. store \in Stores /\ locked \in BOOLEAN /\ newName \in Names /\ view \in Views
      /\ store.disk \in [Names -> Profile]
  BY DEF WindowTypeOK, Stores
<1>2. ASSUME store'.disk = store.disk, store'.loaded = store.loaded
      PROVE  AtHome(store') /\ Home(store, store')
  BY <1>2 DEF AtHome, Home
<1>3. ASSUME NEW base \in Names, CreateProfile(base) PROVE AtHome(store') /\ Home(store, store')
  <2> DEFINE disk == Create(store.disk, newName, base)
             made == [store EXCEPT !.disk = disk]
  <2>1. PICK fails \in SUBSET SelectFaults : Select(made, newName, fails)
    BY <1>3 DEF CreateProfile
  <2>2. KeepsSettings(store.disk, disk, newName)
    BY <1>1, CreatingLeaves
  <2> HIDE DEF disk
  <2>3. made \in Stores /\ AtHome(made) /\ \A new : Home(made, new) => Home(store, new)
    BY <1>1, <2>2, CreatesAtHome
  <2> HIDE DEF made
  <2>4. QED
    BY <1>1, <2>1, <2>3, SelectsAtHome
<1>4. ASSUME NEW base \in Names, FailCreation(base) PROVE AtHome(store') /\ Home(store, store')
  <2>1. PICK disk \in Partial(store.disk, newName, base) : store' = [store EXCEPT !.disk = disk]
    BY <1>4 DEF FailCreation
  <2>2. KeepsSettings(store.disk, disk, newName)
    BY <1>1, <2>1, CreatingLeaves
  <2>3. QED
    BY <1>1, <2>1, <2>2, CreatesAtHome
<1>5. ASSUME NEW p \in Names, ProfileSelected(p) PROVE AtHome(store') /\ Home(store, store')
  BY <1>1, <1>5, SelectsAtHome DEF ProfileSelected
<1>6. CASE EditControls \/ ConfirmFormats
  <2>1. store'.disk = store.disk /\ store'.loaded = store.loaded
    BY <1>1, <1>6 DEF EditControls, ConfirmFormats, Stores
  <2>2. QED
    BY <1>2, <2>1
<1>7. CASE ToggleDebugLog
  <2> DEFINE toggled == [store EXCEPT !.form.debug = ~@]
  <2>1. PICK fails \in SUBSET SaveFaults : store' = Saving(toggled, locked, fails)
    BY <1>7 DEF ToggleDebugLog
  <2>2. toggled \in Stores /\ toggled.disk = store.disk /\ toggled.loaded = store.loaded
    BY <1>1 DEF Stores
  <2> HIDE DEF toggled
  <2>3. AtHome(toggled)
    BY <2>2 DEF AtHome
  <2>4. AtHome(store') /\ Home(toggled, store')
    BY <1>1, <2>1, <2>2, <2>3, SavesAtHome
  <2>5. QED
    BY <2>2, <2>4 DEF Home
<1>8. CASE StartRun
  <2>1. PICK fails : store' = Saving(store, locked, fails)
    BY <1>8, StartsType
  <2>2. QED
    BY <1>1, <2>1, SavesAtHome
<1>9. CASE CloseWindow
  <2>1. PICK fails : store' = Saving(store, locked, fails)
    BY <1>9 DEF CloseWindow
  <2>2. QED
    BY <1>1, <2>1, SavesAtHome
<1>10. CASE Deliver
  <2>1. CASE store' = store
    BY <1>2, <2>1
  <2>2. CASE view' = Consume(view, Head(events)) /\ EndRun(view')
    <3>1. Head(events) \in Events
      BY <1>10, Delivers
    <3>2. view' \in Views
      BY <1>1, <2>2, <3>1, Consumes
    <3>3. PICK fails \in SUBSET SaveFaults, held \in BOOLEAN : store' = Saving(store, held, fails)
      BY <2>2, <3>2, EndsType
    <3>4. QED
      BY <1>1, <3>3, SavesAtHome
  <2>3. QED
    BY <1>10, <2>1, <2>2, Delivers
<1>11. CASE NewProfile \/ EndTutorial \/ AboutSlint \/ EditUnwanted \/ Dismiss \/ Teardown
            \/ \E name \in Names : ConfirmName(name)
  <2>1. store' = store
    BY <1>11 DEF NewProfile, EndTutorial, AboutSlint, EditUnwanted, Dismiss, Teardown, ConfirmName
  <2>2. QED
    BY <1>2, <2>1
<1>12. CASE CancelRun \/ CloseDuringRun \/ WorkerStep \/ Logging \/ DrainLog \/ UNCHANGED vars
  <2>1. store' = store
    BY <1>12, LogSteps DEF CancelRun, CloseDuringRun, WorkerStep, DrainLog, vars
  <2>2. QED
    BY <1>2, <2>1
<1>13. QED
  BY <1>3, <1>4, <1>5, <1>6, <1>7, <1>8, <1>9, <1>10, <1>11, <1>12 DEF Next, Dialogs, User

(* Whatever the user clicks and whichever reads and writes fail, no step   *)
(* writes a profile's settings over another's or over what could not be    *)
(* read.                                                                   *)
THEOREM SettingsStay == Spec => SettingsStayHome
<1>1. Init => WindowTypeOK /\ AtHome(store)
  BY TypeOfInit DEF AtHome
<1>2. WindowTypeOK /\ AtHome(store) /\ [Next]_vars => WindowTypeOK' /\ AtHome(store)'
  BY TypeOfSteps, HomeSteps
<1>3. WindowTypeOK /\ AtHome(store) /\ [Next]_vars
        => [\A p \in Names :
              LET old == store.disk[p].settings new == store'.disk[p].settings
              IN new # old => \/ old.state = "absent"
                              \/ /\ p = store.loaded.profile
                                 /\ Readable(old) /\ new.caps = old.caps]_vars
  BY HomeSteps DEF Home
<1>4. QED
  BY <1>1, <1>2, <1>3, PTL DEF Spec, SettingsStayHome

(***************************************************************************)
(* The failures listed.                                                    *)
(***************************************************************************)
LEMMA ListingStarts == Init => Listing
<1> SUFFICES ASSUME Init PROVE Listing
  OBVIOUS
<1>1. /\ view.active = FALSE /\ view.outcome = "none" /\ events = <<>> /\ work.stage = "idle"
  BY DEF Init, View0, NoWork
<1>2. Len(events) = 0
  BY <1>1
<1>3. QED
  BY <1>1, <1>2 DEF Listing, FailuresListedOnce

(* Taking in an event lists what it tells of.                              *)
LEMMA ListingTakes ==
  ASSUME WindowTypeOK, Posting, InFlight, Listing, Deliver
  PROVE  Listing'
<1> DEFINE e == events[1]
<1>1. /\ view \in Views /\ work \in Works /\ events \in Seq(Events)
      /\ view.details \in Seq(Rows) /\ work.failures \in Seq(FailureRows)
  BY DEF WindowTypeOK, Views, Works
<1>2. /\ Len(events) \in Nat /\ Len(events) >= 1 /\ e \in Events /\ view.active
      /\ Len(events') = Len(events) - 1
      /\ \A i \in 1 .. Len(events') : events'[i] = events[i + 1]
      /\ work' = work /\ view' = Consume(view, e)
      /\ e.kind = "terminal" => work.stage = "ended" /\ Len(events) = 1 /\ events' = <<>>
  BY Takes
<1>3. /\ e.kind \in {"phase", "failure", "terminal"} /\ e.failures \in Seq(FailureRows)
      /\ e.kind = "failure" => e.of \in FailureRows
  BY <1>2, EventsTell
<1>4. /\ e.kind # "terminal" => view'.active = view.active /\ view'.outcome = view.outcome
      /\ e.kind = "terminal" =>
           /\ ~view'.active /\ view'.outcome = e.of
           /\ view'.details = AppendResultDetails(view.details, e.failures)
      /\ e.kind = "failure" => view'.details = Append(view.details, e.of)
      /\ e.kind = "phase" => view'.details = view.details
  <2> HIDE DEF e
  <2>1. view \in Views /\ e \in Events /\ view' = Consume(view, e)
    BY <1>1, <1>2
  <2>2. QED
    BY <2>1, Consumes
<1>5. /\ view.outcome = "none" /\ Len(view.details) <= Len(work.failures)
      /\ \A i \in 1 .. Len(view.details) : view.details[i] = work.failures[i]
  BY <1>2 DEF Listing
<1>6. IF e.kind = "terminal" THEN e.failures = work.failures
      ELSE /\ Len(e.failures) = Len(view.details)
           /\ e.kind = "failure" =>
                /\ Len(e.failures) < Len(work.failures)
                /\ e.of = work.failures[Len(e.failures) + 1]
  <2>1. 1 \in 1 .. Len(events) /\ RowsAfter(1 - 1) = Len(view.details)
    BY <1>2 DEF RowsAfter
  <2>2. QED
    BY <2>1 DEF Listing
<1>7. CASE e.kind = "terminal"
  <2>1. \A row \in FailureRows : Count(view'.details, row) = Count(work.failures, row)
    <3>1. ASSUME NEW row \in FailureRows PROVE Count(view'.details, row) = Count(work.failures, row)
      <4>1. Count(view.details, row) <= Count(work.failures, row)
        BY <1>1, <1>5, FewerInAPrefix
      <4>2. Count(view.details, row) \in Nat /\ Count(work.failures, row) \in Nat
        BY <1>1, CountIsAmong
      <4>3. Count(view'.details, row) =
              IF Count(work.failures, row) < Count(view.details, row)
                THEN Count(view.details, row) ELSE Count(work.failures, row)
        BY <1>1, <1>4, <1>6, <1>7, ResultListed
      <4>4. QED
        BY <4>1, <4>2, <4>3
    <3>2. QED
      BY <3>1
  <2>2. FailuresListedOnce'
    BY <1>2, <2>1 DEF FailuresListedOnce
  <2>3. /\ ~view'.active /\ Len(events') = 0 /\ work'.stage = "ended"
    BY <1>2, <1>4, <1>7
  <2>4. QED
    BY <2>2, <2>3 DEF Listing
<1>8. CASE e.kind # "terminal"
  <2>1. /\ Len(view'.details) \in Nat
        /\ Len(view'.details) = Len(e.failures) + (IF e.kind = "failure" THEN 1 ELSE 0)
        /\ Len(view'.details) <= Len(work.failures)
        /\ \A i \in 1 .. Len(view'.details) : view'.details[i] = work.failures[i]
    <3>1. CASE e.kind = "failure"
      <4>1. e.of \in Rows
        BY <1>3, <3>1 DEF Rows
      <4>2. /\ Len(view'.details) = Len(view.details) + 1
            /\ \A i \in 1 .. Len(view.details) : view'.details[i] = view.details[i]
            /\ view'.details[Len(view.details) + 1] = e.of
        BY <1>1, <1>4, <3>1, <4>1
      <4>3. Len(view.details) \in Nat /\ Len(work.failures) \in Nat
        BY <1>1
      <4>4. /\ Len(view.details) < Len(work.failures)
            /\ e.of = work.failures[Len(view.details) + 1]
        BY <1>6, <3>1
      <4>5. ASSUME NEW i \in 1 .. Len(view'.details) PROVE view'.details[i] = work.failures[i]
        <5>1. i \in 1 .. Len(view.details) \/ i = Len(view.details) + 1
          BY <4>2, <4>3
        <5>2. QED
          BY <1>5, <4>2, <4>4, <5>1
      <4>6. QED
        <5>1. Len(view'.details) = Len(e.failures) + 1 /\ Len(view'.details) \in Nat
          BY <1>6, <3>1, <4>2, <4>3
        <5>2. Len(view'.details) <= Len(work.failures)
          BY <4>2, <4>3, <4>4
        <5>3. QED
          BY <3>1, <4>5, <5>1, <5>2
    <3>2. CASE e.kind = "phase"
      BY <1>1, <1>4, <1>5, <1>6, <3>2
    <3>3. QED
      BY <1>3, <1>8, <3>1, <3>2
  <2>2. ASSUME NEW n \in 0 .. Len(events') PROVE RowsAfter(n)' = RowsAfter(n + 1)
    <3>1. CASE n = 0
      <4>1. RowsAfter(n)' = Len(view'.details)
        BY <3>1 DEF RowsAfter
      <4>2. RowsAfter(n + 1) = Len(e.failures) + (IF e.kind = "failure" THEN 1 ELSE 0)
        BY <3>1 DEF RowsAfter
      <4>3. QED
        BY <2>1, <4>1, <4>2
    <3>2. CASE n # 0
      <4>1. n \in 1 .. Len(events') /\ n + 1 # 0
        BY <1>2, <3>2
      <4>2. events'[n] = events[n + 1]
        BY <1>2, <4>1
      <4>3. QED
        BY <3>2, <4>1, <4>2 DEF RowsAfter
    <3>3. QED
      BY <3>1, <3>2
  <2>3. ASSUME NEW i \in 1 .. Len(events')
        PROVE  IF events'[i].kind = "terminal" THEN events'[i].failures = work'.failures
               ELSE /\ Len(events'[i].failures) = RowsAfter(i - 1)'
                    /\ events'[i].kind = "failure" =>
                         /\ Len(events'[i].failures) < Len(work'.failures)
                         /\ events'[i].of = work'.failures[Len(events'[i].failures) + 1]
    <3>1. i + 1 \in 1 .. Len(events) /\ i - 1 \in 0 .. Len(events') /\ (i - 1) + 1 = (i + 1) - 1
      BY <1>2
    <3>2. RowsAfter(i - 1)' = RowsAfter((i + 1) - 1)
      BY <2>2, <3>1
    <3>3. events'[i] = events[i + 1]
      BY <1>2
    <3>4. IF events[i + 1].kind = "terminal" THEN events[i + 1].failures = work.failures
          ELSE /\ Len(events[i + 1].failures) = RowsAfter((i + 1) - 1)
               /\ events[i + 1].kind = "failure" =>
                    /\ Len(events[i + 1].failures) < Len(work.failures)
                    /\ events[i + 1].of = work.failures[Len(events[i + 1].failures) + 1]
      BY <3>1 DEF Listing
    <3>5. QED
      BY <1>2, <3>2, <3>3, <3>4
  <2>4. work'.stage \in {"working", "cleanup"} => RowsAfter(Len(events))' = Len(work'.failures)
    <3>1. Len(events') \in 0 .. Len(events') /\ Len(events') + 1 = Len(events)
      BY <1>2
    <3>2. RowsAfter(Len(events))' = RowsAfter(Len(events') + 1)
      BY <2>2, <3>1
    <3>3. QED
      BY <1>2, <3>1, <3>2 DEF Listing
  <2>5. view'.outcome = "none"
    BY <1>4, <1>5, <1>8
  <2>6. QED
    BY <1>2, <2>1, <2>3, <2>4, <2>5 DEF Listing, FailuresListedOnce
<1>9. QED
  BY <1>7, <1>8

(* What was listed and posted of the run's failures stays true of them as  *)
(* more are added.                                                         *)
LEMMA ListingPosts ==
  ASSUME WindowTypeOK, Posting, InFlight, Listing, WorkerStep
  PROVE  Listing'
<1> DEFINE n == Len(events)
           Tells(i, posted, failures, upto) ==
             IF posted[i].kind = "terminal" THEN posted[i].failures = failures
             ELSE /\ Len(posted[i].failures) = upto
                  /\ posted[i].kind = "failure" =>
                       /\ Len(posted[i].failures) < Len(failures)
                       /\ posted[i].of = failures[Len(posted[i].failures) + 1]
<1>1. /\ view \in Views /\ work \in Works /\ events \in Seq(Events) /\ n \in Nat
      /\ view.details \in Seq(Rows) /\ work.failures \in Seq(FailureRows)
      /\ Len(work.failures) \in Nat /\ Len(view.details) \in Nat
      /\ \A i \in 1 .. n : events[i].failures \in Seq(FailureRows) /\ Len(events[i].failures) \in Nat
  <2>1. \A i \in 1 .. n : events[i] \in Events
    BY DEF WindowTypeOK
  <2>2. QED
    BY <2>1, EventsTell DEF WindowTypeOK, Views, Works
<1>2. work.stage \in {"working", "cleanup", "committed"} /\ view' = view /\ work' \in Works
  BY WorkerSteps
<1>3. view.active /\ view.outcome = "none"
  BY <1>2 DEF InFlight, Listing
<1>4. \A i \in 1 .. n : events[i].kind # "terminal"
  BY <1>2 DEF Posting
<1>5. FailuresListedOnce'
  BY <1>2, <1>3 DEF FailuresListedOnce
<1>6. ASSUME Extends(work.failures, work'.failures)
      PROVE  /\ Len(view'.details) <= Len(work'.failures)
             /\ \A i \in 1 .. Len(view'.details) : view'.details[i] = work'.failures[i]
             /\ \A i \in 1 .. n : Tells(i, events, work'.failures, RowsAfter(i - 1))
  <2>1. Len(work'.failures) \in Nat
    BY <1>2 DEF Works
  <2>2. /\ Len(view.details) <= Len(work.failures)
        /\ \A i \in 1 .. Len(view.details) : view.details[i] = work.failures[i]
    BY <1>3 DEF Listing
  <2>3. /\ Len(work.failures) <= Len(work'.failures)
        /\ \A i \in 1 .. Len(work.failures) : work'.failures[i] = work.failures[i]
    BY <1>6 DEF Extends
  <2>4. \A i \in 1 .. Len(view'.details) : view'.details[i] = work'.failures[i]
    BY <1>1, <1>2, <2>2, <2>3
  <2>5. ASSUME NEW i \in 1 .. n PROVE Tells(i, events, work'.failures, RowsAfter(i - 1))
    <3>1. events[i].kind # "terminal" /\ Tells(i, events, work.failures, RowsAfter(i - 1))
      BY <1>4 DEF Listing
    <3> DEFINE at == Len(events[i].failures)
    <3>2. events[i].kind = "failure" => at < Len(work'.failures) /\ work'.failures[at + 1] = work.failures[at + 1]
      <4>1. at \in Nat
        BY <1>1
      <4>2. events[i].kind = "failure" => at < Len(work.failures)
        BY <3>1
      <4> HIDE DEF at
      <4>3. ASSUME at < Len(work.failures)
            PROVE  at < Len(work'.failures) /\ work'.failures[at + 1] = work.failures[at + 1]
        <5>1. at + 1 \in 1 .. Len(work.failures)
          BY <1>1, <4>1, <4>3
        <5>2. QED
          BY <1>1, <2>1, <2>3, <4>1, <4>3, <5>1
      <4>4. QED
        BY <4>2, <4>3
    <3>3. QED
      BY <3>1, <3>2
  <2>6. QED
    BY <1>1, <1>2, <2>1, <2>2, <2>3, <2>4, <2>5
<1>7. ASSUME NEW extra \in Seq(FailureRows), work'.failures = work.failures \o extra,
             events' = events, work'.stage = "committed"
      PROVE  Listing'
  <2>1. Extends(work.failures, work'.failures)
    BY <1>1, <1>7 DEF Extends
  <2>2. \A i \in 1 .. n : RowsAfter(i - 1)' = RowsAfter(i - 1)
    BY <1>2, <1>7 DEF RowsAfter
  <2>3. \A i \in 1 .. Len(events') : Tells(i, events', work'.failures, RowsAfter(i - 1)')
    BY <1>6, <1>7, <2>1, <2>2
  <2>4. QED
    BY <1>2, <1>3, <1>5, <1>6, <1>7, <2>1, <2>3 DEF Listing
<1>8. ASSUME NEW e \in Events, events' = Append(events, e), e.failures = work.failures,
             \/ /\ e.kind = "failure" /\ e.of \in FailureRows
                /\ work.stage = "working" /\ work'.stage = "working"
                /\ work'.failures = Append(work.failures, e.of)
             \/ /\ e.kind = "phase" /\ work.stage = "working" /\ work'.stage = "cleanup"
                /\ work'.failures = work.failures
             \/ /\ e.kind = "terminal" /\ work'.stage = "ended"
                /\ work'.failures = work.failures
      PROVE  Listing'
  <2>1. /\ Len(events') = n + 1 /\ events'[n + 1] = e /\ \A i \in 1 .. n : events'[i] = events[i]
    BY <1>1, <1>8
  <2>2. /\ e.kind = "failure" =>
             /\ Len(work'.failures) = Len(work.failures) + 1
             /\ work'.failures[Len(work.failures) + 1] = e.of
             /\ \A i \in 1 .. Len(work.failures) : work'.failures[i] = work.failures[i]
        /\ e.kind # "failure" => work'.failures = work.failures
    BY <1>1, <1>8
  <2>3. Extends(work.failures, work'.failures)
    BY <1>1, <2>2 DEF Extends
  <2>4. \A i \in 0 .. n : RowsAfter(i)' = RowsAfter(i)
    <3>1. ASSUME NEW i \in 0 .. n PROVE RowsAfter(i)' = RowsAfter(i)
      <4>1. i # 0 => events'[i] = events[i]
        BY <1>1, <2>1
      <4>2. QED
        BY <1>2, <4>1 DEF RowsAfter
    <3>2. QED
      BY <3>1
  <2>5. work.stage = "working" => RowsAfter(n) = Len(work.failures)
    BY DEF Listing
  <2>6. RowsAfter(Len(events))' = Len(work.failures) + (IF e.kind = "failure" THEN 1 ELSE 0)
    <3>1. Len(events') # 0 /\ events'[Len(events')] = e
      BY <1>1, <2>1
    <3>2. QED
      BY <1>8, <3>1 DEF RowsAfter
  <2>7. ASSUME NEW i \in 1 .. Len(events') PROVE Tells(i, events', work'.failures, RowsAfter(i - 1)')
    <3>1. CASE i \in 1 .. n
      <4>1. Tells(i, events, work'.failures, RowsAfter(i - 1))
        BY <1>6, <2>3, <3>1
      <4>2. RowsAfter(i - 1)' = RowsAfter(i - 1)
        BY <1>1, <2>4, <3>1
      <4>3. events'[i] = events[i]
        BY <2>1, <3>1
      <4>4. QED
        BY <4>1, <4>2, <4>3
    <3>2. CASE i = n + 1
      <4>1. events'[i] = e
        BY <2>1, <3>2
      <4>2. RowsAfter(i - 1)' = RowsAfter(n)
        <5>1. i - 1 = n /\ n \in 0 .. n
          BY <1>1, <3>2
        <5>2. QED
          BY <2>4, <5>1
      <4>3. CASE e.kind = "failure"
        BY <1>1, <1>8, <2>2, <2>5, <4>1, <4>2, <4>3
      <4>4. CASE e.kind = "phase"
        BY <1>1, <1>8, <2>2, <2>5, <4>1, <4>2, <4>4
      <4>5. CASE e.kind = "terminal"
        BY <1>8, <4>1, <4>5
      <4>6. QED
        BY <1>8, <4>3, <4>4, <4>5
    <3>3. QED
      BY <1>1, <2>1, <3>1, <3>2
  <2>8. work'.stage \in {"working", "cleanup"} => RowsAfter(Len(events))' = Len(work'.failures)
    <3>1. CASE e.kind = "failure"
      BY <2>2, <2>6, <3>1
    <3>2. CASE e.kind # "failure"
      <4>1. work'.failures = work.failures /\ Len(work.failures) \in Nat
        BY <1>1, <2>2, <3>2
      <4>2. QED
        BY <2>6, <3>2, <4>1
    <3>3. QED
      BY <3>1, <3>2
  <2>9. QED
    BY <1>2, <1>3, <1>5, <1>6, <2>3, <2>7, <2>8 DEF Listing
<1>9. QED
  <2>1. \/ \E extra \in Seq(FailureRows) :
             work'.failures = work.failures \o extra /\ events' = events /\ work'.stage = "committed"
        \/ \E e \in Events :
             /\ events' = Append(events, e) /\ e.failures = work.failures
             /\ \/ /\ e.kind = "failure" /\ e.of \in FailureRows
                   /\ work.stage = "working" /\ work'.stage = "working"
                   /\ work'.failures = Append(work.failures, e.of)
                \/ /\ e.kind = "phase" /\ work.stage = "working" /\ work'.stage = "cleanup"
                   /\ work'.failures = work.failures
                \/ /\ e.kind = "terminal" /\ work'.stage = "ended"
                   /\ work'.failures = work.failures
    BY WorkerSteps
  <2>2. QED
    BY <1>7, <1>8, <2>1

(* Every step keeps the rows listed and the events posted in line with the *)
(* failures.                                                               *)
LEMMA ListingSteps ==
  ASSUME WindowTypeOK, Posting, InFlight, Listing, [Next]_vars
  PROVE  Listing'
<1>1. CASE UNCHANGED runVars
  BY <1>1 DEF runVars, Listing, RowsAfter, FailuresListedOnce
<1>2. CASE StartRun /\ Admit(view.run + 1)
  <2>1. view.run + 1 \in Nat /\ events' = <<>> /\ Len(events') = 0
    BY <1>2, AdmitsAlone
  <2>2. view' = Begin(view.run + 1) /\ work'.failures = <<>>
    BY <1>2, <2>1, StartsType, Admits
  <2>3. view'.details = <<>> /\ view'.outcome = "none"
    BY <2>1, <2>2, Begins
  <2>4. Len(view'.details) = 0 /\ Len(work'.failures) = 0 /\ RowsAfter(Len(events))' = 0
    BY <2>1, <2>2, <2>3 DEF RowsAfter
  <2>5. QED
    BY <2>1, <2>3, <2>4 DEF Listing, FailuresListedOnce
<1>3. CASE CancelRun \/ CloseDuringRun
  <2>1. /\ view'.active = view.active /\ view'.details = view.details /\ view'.outcome = view.outcome
        /\ view'.run = view.run /\ work'.run = work.run /\ work'.failures = work.failures
        /\ work'.stage = work.stage /\ events' = events
    BY <1>3, Cancels
  <2>2. QED
    BY <2>1 DEF Listing, RowsAfter, FailuresListedOnce
<1>4. CASE CloseWindow
  BY <1>4 DEF CloseWindow, Listing, RowsAfter, FailuresListedOnce
<1>5. QED
  BY <1>1, <1>2, <1>3, <1>4, ListingTakes, ListingPosts, RunsMove

(* Once a run has ended its failures are listed exactly: each streamed one *)
(* is absorbed once by the result's, and one no event told of is added.    *)
THEOREM FailuresListed == Spec => []FailuresListedOnce
<1>1. Init => WindowTypeOK /\ Posting /\ InFlight /\ Listing
  BY TypeOfInit, InFlightStarts, ListingStarts
<1>2. WindowTypeOK /\ Posting /\ InFlight /\ Listing /\ [Next]_vars
        => WindowTypeOK' /\ Posting' /\ InFlight' /\ Listing'
  BY TypeOfSteps, InFlightSteps, ListingSteps
<1>3. Listing => FailuresListedOnce
  BY DEF Listing
<1>4. QED
  BY <1>1, <1>2, <1>3, PTL DEF Spec

(***************************************************************************)
(* The Log tab: rows of the log and after them the details.                *)
(***************************************************************************)
(* The last of a set of places.                                            *)
LEMMA LastPlace ==
  ASSUME NEW n \in Nat, NEW S \in SUBSET (1 .. n), NEW last \in S, \A i \in S : i <= last
  PROVE  Max(S) = last
<1>1. \E i \in S : \A j \in S : i >= j
  OBVIOUS
<1>2. Max(S) \in S /\ \A j \in S : Max(S) >= j
  BY <1>1, Zenon DEF Max
<1>3. Max(S) \in 1 .. n /\ last \in 1 .. n /\ Max(S) >= last /\ Max(S) <= last
  BY <1>2
<1>4. QED
  BY <1>3

(* The rows of the two kinds, one for each line or detail.                 *)
LEMMA RowsType ==
  /\ \A lines \in Seq(Lines) :
       /\ LogRows(lines) \in Seq(Entries) /\ Len(LogRows(lines)) = Len(lines)
       /\ \A i \in 1 .. Len(lines) : LogRows(lines)[i] = LogRow(lines[i])
  /\ \A details \in Seq(Rows) :
       /\ DetailRows(details) \in Seq([kind : {"detail"}, of : Rows])
       /\ Len(DetailRows(details)) = Len(details)
       /\ \A i \in 1 .. Len(details) : DetailRows(details)[i] = DetailRow(details[i])
  /\ \A line : LogRow(line).kind = "log"
  /\ \A text : DetailRow(text).kind # "log"
<1>1. ASSUME NEW lines \in Seq(Lines)
      PROVE  /\ LogRows(lines) \in Seq(Entries) /\ Len(LogRows(lines)) = Len(lines)
             /\ \A i \in 1 .. Len(lines) : LogRows(lines)[i] = LogRow(lines[i])
  <2>1. Len(lines) \in Nat /\ \A i \in 1 .. Len(lines) : LogRow(lines[i]) \in Entries
    BY DEF LogRow, Entries
  <2>2. QED
    BY <2>1 DEF LogRows
<1>2. ASSUME NEW details \in Seq(Rows)
      PROVE  /\ DetailRows(details) \in Seq([kind : {"detail"}, of : Rows])
             /\ Len(DetailRows(details)) = Len(details)
             /\ \A i \in 1 .. Len(details) : DetailRows(details)[i] = DetailRow(details[i])
  <2>1. Len(details) \in Nat /\ \A i \in 1 .. Len(details) : DetailRow(details[i]) \in [kind : {"detail"}, of : Rows]
    BY DEF DetailRow
  <2>2. QED
    BY <2>1 DEF DetailRows
<1>3. QED
  BY <1>1, <1>2 DEF LogRow, DetailRow

(* Where the log's rows end.                                               *)
LEMMA Trailing ==
  ASSUME NEW shown \in Seq(Entries), NEW details \in Seq(Rows)
  PROVE  LET all == shown \o DetailRows(details)
         IN /\ Len(all) = Len(shown) + Len(details)
            /\ TrailingDetails(all) = Len(details)
            /\ Logged(all) = shown
            /\ SubSeq(all, Len(all) - TrailingDetails(all) + 1, Len(all)) = DetailRows(details)
<1> DEFINE D == DetailRows(details)
           all == shown \o D
           I == {i \in 1 .. Len(all) : all[i].kind = "log"}
           T == [kind : {"log", "detail"}, of : Lines \cup Rows]
<1>1. /\ D \in Seq(T) /\ shown \in Seq(T) /\ Len(D) = Len(details)
      /\ Len(shown) \in Nat /\ Len(details) \in Nat
      /\ \A i \in 1 .. Len(details) : D[i].kind # "log"
      /\ \A i \in 1 .. Len(shown) : shown[i].kind = "log"
  <2>1. [kind : {"detail"}, of : Rows] \subseteq T /\ Entries \subseteq T
    BY DEF Entries
  <2>2. D \in Seq([kind : {"detail"}, of : Rows]) /\ Len(D) = Len(details)
    BY RowsType
  <2>3. \A i \in 1 .. Len(details) : D[i].kind # "log"
    BY RowsType
  <2>4. \A i \in 1 .. Len(shown) : shown[i].kind = "log"
    <3>1. \A i \in 1 .. Len(shown) : shown[i] \in Entries
      BY ElementOfSeq
    <3>2. QED
      BY <3>1 DEF Entries
  <2> HIDE DEF T, D
  <2>5. D \in Seq(T) /\ shown \in Seq(T)
    BY <2>1, <2>2, SeqMonotonic
  <2>6. QED
    BY <2>2, <2>3, <2>4, <2>5
<1> HIDE DEF D, T
<1>2. /\ all \in Seq(T) /\ Len(all) = Len(shown) + Len(details)
      /\ \A i \in 1 .. Len(shown) : all[i] = shown[i]
      /\ \A i \in 1 .. Len(details) : all[Len(shown) + i] = D[i]
  <2>1. /\ all \in Seq(T) /\ Len(all) = Len(shown) + Len(D)
        /\ \A i \in 1 .. Len(shown) + Len(D) :
             all[i] = IF i <= Len(shown) THEN shown[i] ELSE D[i - Len(shown)]
    BY <1>1, ConcatProperties
  <2> HIDE DEF all
  <2>2. \A i \in 1 .. Len(shown) : all[i] = shown[i]
    BY <1>1, <2>1
  <2>3. ASSUME NEW i \in 1 .. Len(details) PROVE all[Len(shown) + i] = D[i]
    <3>1. /\ Len(shown) + i \in 1 .. Len(shown) + Len(D) /\ ~(Len(shown) + i <= Len(shown))
          /\ (Len(shown) + i) - Len(shown) = i
      BY <1>1
    <3>2. QED
      BY <2>1, <3>1
  <2>4. QED
    BY <1>1, <2>1, <2>2, <2>3
<1> HIDE DEF all
<1>3. I = 1 .. Len(shown)
  <2>1. ASSUME NEW i \in 1 .. Len(all) PROVE all[i].kind = "log" <=> i <= Len(shown)
    <3>1. CASE i <= Len(shown)
      <4>1. i \in 1 .. Len(shown) /\ all[i] = shown[i]
        BY <1>1, <1>2, <3>1
      <4>2. shown[i] \in Entries
        BY <1>1, <4>1, ElementOfSeq
      <4>3. all[i].kind = "log"
        BY <4>1, <4>2 DEF Entries
      <4>4. QED
        BY <3>1, <4>3
    <3>2. CASE ~(i <= Len(shown))
      <4>1. i - Len(shown) \in 1 .. Len(details) /\ i = Len(shown) + (i - Len(shown))
        BY <1>1, <1>2, <3>2
      <4>2. QED
        BY <1>1, <1>2, <3>2, <4>1
    <3>3. QED
      BY <3>1, <3>2
  <2>2. QED
    BY <1>1, <1>2, <2>1
<1>4. (IF I # {} THEN Max(I) ELSE 0) = Len(shown)
  <2>1. CASE Len(shown) = 0
    BY <1>3, <2>1
  <2>2. CASE Len(shown) # 0
    <3>1. Len(shown) \in I /\ I \in SUBSET (1 .. Len(shown)) /\ \A i \in I : i <= Len(shown)
      BY <1>1, <1>3, <2>2
    <3> HIDE DEF I
    <3>2. Max(I) = Len(shown)
      BY <1>1, <3>1, LastPlace
    <3>3. QED
      BY <3>1, <3>2
  <2>3. QED
    BY <2>1, <2>2
<1>5. TrailingDetails(all) = Len(all) - (IF I # {} THEN Max(I) ELSE 0)
  BY Zenon DEF TrailingDetails, SelectLastInSeq
<1> HIDE DEF I
<1>6. TrailingDetails(all) = Len(details)
  BY <1>1, <1>2, <1>4, <1>5
<1>7. Logged(all) = shown
  <2>1. Logged(all) = SubSeq(all, 1, Len(shown))
    <3>1. Len(all) - TrailingDetails(all) = Len(shown)
      BY <1>1, <1>2, <1>6
    <3>2. QED
      BY <3>1 DEF Logged
  <2>2. SubSeq(all, 1, Len(shown)) = shown
    <3>1. \A i \in 1 .. Len(shown) : all[i] \in T
      BY <1>1, <1>2, ElementOfSeq
    <3>2. /\ SubSeq(all, 1, Len(shown)) \in Seq(T)
          /\ Len(SubSeq(all, 1, Len(shown))) = IF 1 <= Len(shown) THEN Len(shown) - 1 + 1 ELSE 0
          /\ \A i \in 1 .. Len(shown) - 1 + 1 : SubSeq(all, 1, Len(shown))[i] = all[1 + i - 1]
      BY <1>1, <3>1, SubSeqProperties
    <3>3. Len(SubSeq(all, 1, Len(shown))) = Len(shown)
      BY <1>1, <3>2
    <3>4. \A i \in 1 .. Len(shown) : SubSeq(all, 1, Len(shown))[i] = shown[i]
      BY <1>1, <1>2, <3>2
    <3>5. QED
      BY <1>1, <3>2, <3>3, <3>4, SeqEqual
  <2>3. QED
    BY <2>1, <2>2
<1>8. SubSeq(all, Len(all) - TrailingDetails(all) + 1, Len(all)) = D
  <2>1. Len(all) - TrailingDetails(all) + 1 = Len(shown) + 1
    BY <1>1, <1>2, <1>6
  <2>2. SubSeq(all, Len(shown) + 1, Len(all)) = D
    <3> DEFINE m == Len(shown) + 1
               n == Len(all)
               end == SubSeq(all, m, n)
    <3>1. m \in Int /\ n \in Int /\ n - m + 1 = Len(details) /\ (m <= n <=> Len(details) > 0)
      BY <1>1, <1>2
    <3>2. \A i \in m .. n : all[i] \in T
      BY <1>1, <1>2, ElementOfSeq
    <3>3. /\ end \in Seq(T) /\ Len(end) = IF m <= n THEN n - m + 1 ELSE 0
          /\ \A i \in 1 .. n - m + 1 : end[i] = all[m + i - 1]
      BY <3>1, <3>2, SubSeqProperties
    <3>4. Len(end) = Len(D)
      BY <1>1, <3>1, <3>3
    <3>5. \A i \in 1 .. Len(D) : m + i - 1 = Len(shown) + i
      BY <1>1
    <3>6. \A i \in 1 .. Len(D) : end[i] = D[i]
      BY <1>1, <1>2, <3>1, <3>3, <3>5
    <3>7. QED
      BY <1>1, <3>3, <3>4, <3>6, SeqEqual
  <2>3. QED
    BY <2>1, <2>2
<1>9. QED
  BY <1>2, <1>6, <1>7, <1>8 DEF all, D

(* The newest rows are the last MaxFeedRows of them, or all.               *)
LEMMA NewestRows ==
  ASSUME NEW S, NEW all \in Seq(S)
  PROVE  LET new == Newest(all)
         IN /\ new \in Seq(S)
            /\ Len(new) = IF Len(all) > MaxFeedRows THEN MaxFeedRows ELSE Len(all)
            /\ \A i \in 1 .. Len(new) : new[i] = all[Len(all) - Len(new) + i]
<1> DEFINE n == IF Len(all) > MaxFeedRows THEN MaxFeedRows ELSE Len(all)
           m == IF Len(all) > MaxFeedRows THEN Len(all) - MaxFeedRows + 1 ELSE 1
           k == Len(all)
           new == SubSeq(all, m, k)
<1>1. /\ MaxFeedRows \in Nat /\ MaxFeedRows > 0 /\ k \in Nat
      /\ m \in Int /\ m >= 1 /\ n \in Nat /\ k - m + 1 = n /\ (m <= k <=> n > 0)
  BY FeedAssumption
<1>2. Newest(all) = new
  BY DEF Newest
<1> HIDE DEF n, m
<1>3. \A i \in m .. k : all[i] \in S
  BY <1>1, ElementOfSeq
<1>4. /\ new \in Seq(S) /\ Len(new) = IF m <= k THEN k - m + 1 ELSE 0
      /\ \A i \in 1 .. k - m + 1 : new[i] = all[m + i - 1]
  BY <1>1, <1>3, SubSeqProperties
<1> HIDE DEF new, k
<1>5. Len(new) = n
  BY <1>1, <1>4
<1>6. \A i \in 1 .. n : new[i] = all[k - n + i]
  <2>1. \A i \in 1 .. n : m + i - 1 = k - n + i
    BY <1>1
  <2>2. QED
    BY <1>1, <1>4, <2>1
<1>7. new \in Seq(S) /\ Len(new) = n /\ \A i \in 1 .. Len(new) : new[i] = all[Len(all) - Len(new) + i]
  BY <1>4, <1>5, <1>6 DEF k
<1>8. QED
  BY <1>2, <1>7 DEF n

(* A pushed list is the old one's last rows and the new one.               *)
LEMMA PushedRows ==
  ASSUME NEW S, NEW old \in Seq(S), NEW line \in S, Len(old) <= MaxFeedRows
  PROVE  LET new == PushCapped(old, line)
         IN /\ new \in Seq(S) /\ Len(new) \in Nat /\ Len(new) > 0 /\ Len(new) <= MaxFeedRows
            /\ Len(new) = IF Len(old) = MaxFeedRows THEN MaxFeedRows ELSE Len(old) + 1
            /\ new[Len(new)] = line
            /\ \A i \in 1 .. Len(new) - 1 : new[i] = old[Len(old) - Len(new) + 1 + i]
<1> DEFINE rest == IF Len(old) = MaxFeedRows THEN Tail(old) ELSE old
           new == Append(rest, line)
           n == IF Len(old) = MaxFeedRows THEN MaxFeedRows ELSE Len(old) + 1
<1>1. /\ MaxFeedRows \in Nat /\ MaxFeedRows > 0 /\ Len(old) \in Nat
      /\ n \in Nat /\ n > 0 /\ n <= MaxFeedRows
  BY FeedAssumption
<1>2. /\ rest \in Seq(S) /\ Len(rest) = n - 1
      /\ \A i \in 1 .. n - 1 : rest[i] = old[Len(old) - n + 1 + i]
  <2>1. CASE Len(old) = MaxFeedRows
    <3>1. old # <<>>
      BY <1>1, <2>1
    <3>2. /\ Tail(old) \in Seq(S) /\ Len(Tail(old)) = Len(old) - 1
          /\ \A i \in 1 .. Len(Tail(old)) : Tail(old)[i] = old[i + 1]
      BY <3>1, HeadTailProperties
    <3>3. \A i \in 1 .. n - 1 : Len(old) - n + 1 + i = i + 1
      BY <1>1, <2>1
    <3>4. QED
      BY <1>1, <2>1, <3>2, <3>3
  <2>2. CASE Len(old) # MaxFeedRows
    <3>1. rest = old /\ n - 1 = Len(old)
      BY <1>1, <2>2
    <3>2. \A i \in 1 .. n - 1 : Len(old) - n + 1 + i = i
      BY <1>1, <2>2
    <3> HIDE DEF rest, n
    <3>3. QED
      BY <3>1, <3>2
  <2>3. QED
    BY <2>1, <2>2
<1>3. PushCapped(old, line) = new
  BY DEF PushCapped
<1> HIDE DEF rest, n
<1>4. /\ new \in Seq(S) /\ Len(new) = Len(rest) + 1 /\ new[Len(rest) + 1] = line
      /\ \A i \in 1 .. Len(rest) : new[i] = rest[i]
  BY <1>2
<1> HIDE DEF new
<1>5. Len(rest) + 1 = n
  BY <1>1, <1>2
<1>6. /\ new \in Seq(S) /\ Len(new) = n /\ new[n] = line
      /\ \A i \in 1 .. n - 1 : new[i] = old[Len(old) - n + 1 + i]
  <2>1. \A i \in 1 .. n - 1 : new[i] = rest[i]
    BY <1>1, <1>2, <1>4
  <2>2. QED
    BY <1>2, <1>4, <1>5, <2>1
<1>7. /\ new[Len(new)] = line
      /\ \A i \in 1 .. Len(new) - 1 : new[i] = old[Len(old) - Len(new) + 1 + i]
      /\ new \in Seq(S) /\ Len(new) \in Nat /\ Len(new) > 0 /\ Len(new) <= MaxFeedRows /\ Len(new) = n
  BY <1>1, <1>6
<1>8. QED
  BY <1>3, <1>7 DEF n

(* The rows of the log and those that wait, one after the other.           *)
LEMMA Together ==
  ASSUME NEW shown \in Seq(Entries), NEW lines \in Seq(Lines)
  PROVE  LET all == shown \o LogRows(lines)
         IN /\ all \in Seq(Entries) /\ Len(all) = Len(shown) + Len(lines)
            /\ \A i \in 1 .. Len(shown) : all[i] = shown[i]
            /\ \A i \in 1 .. Len(lines) : all[Len(shown) + i] = LogRow(lines[i])
<1> DEFINE R == LogRows(lines)
           all == shown \o R
<1>1. /\ R \in Seq(Entries) /\ Len(R) = Len(lines) /\ Len(shown) \in Nat /\ Len(lines) \in Nat
      /\ \A i \in 1 .. Len(lines) : R[i] = LogRow(lines[i])
  BY RowsType
<1> HIDE DEF R
<1>2. /\ all \in Seq(Entries) /\ Len(all) = Len(shown) + Len(R)
      /\ \A i \in 1 .. Len(shown) + Len(R) :
           all[i] = IF i <= Len(shown) THEN shown[i] ELSE R[i - Len(shown)]
  BY <1>1, ConcatProperties
<1> HIDE DEF all
<1>3. \A i \in 1 .. Len(shown) : all[i] = shown[i]
  BY <1>1, <1>2
<1>4. ASSUME NEW i \in 1 .. Len(lines) PROVE all[Len(shown) + i] = LogRow(lines[i])
  <2>1. /\ Len(shown) + i \in 1 .. Len(shown) + Len(R) /\ ~(Len(shown) + i <= Len(shown))
        /\ (Len(shown) + i) - Len(shown) = i
    BY <1>1
  <2>2. QED
    BY <1>1, <1>2, <2>1
<1>5. QED
  BY <1>1, <1>2, <1>3, <1>4 DEF all, R

(* A row pushed to the history and to the feed is one the next drain tells.*)
LEMMA TellsMore ==
  ASSUME NEW shown \in Seq(Entries), NEW history \in Seq(Lines), NEW lines \in Seq(Lines),
         NEW line \in Lines, Len(history) <= MaxFeedRows, Len(lines) <= MaxFeedRows,
         Newest(shown \o LogRows(lines)) = LogRows(history)
  PROVE  Newest(shown \o LogRows(PushCapped(lines, line))) = LogRows(PushCapped(history, line))
<1> DEFINE a == Len(shown)
           b == Len(lines)
           h == Len(history)
           more == PushCapped(lines, line)
           longer == PushCapped(history, line)
           b1 == Len(more)
           h1 == Len(longer)
           T == shown \o LogRows(lines)
           U == shown \o LogRows(more)
           M == MaxFeedRows
           left == Newest(U)
           right == LogRows(longer)
<1>1. /\ M \in Nat /\ M > 0 /\ a \in Nat /\ b \in Nat /\ h \in Nat /\ h <= M /\ b <= M
  BY FeedAssumption
<1>2. /\ more \in Seq(Lines) /\ b1 = (IF b = M THEN M ELSE b + 1) /\ b1 \in Nat /\ b1 > 0
      /\ more[b1] = line /\ \A i \in 1 .. b1 - 1 : more[i] = lines[b - b1 + 1 + i]
  BY PushedRows
<1>3. /\ longer \in Seq(Lines) /\ h1 = (IF h = M THEN M ELSE h + 1) /\ h1 \in Nat /\ h1 > 0
      /\ longer[h1] = line /\ \A i \in 1 .. h1 - 1 : longer[i] = history[h - h1 + 1 + i]
  BY PushedRows
<1>4. /\ T \in Seq(Entries) /\ Len(T) = a + b
      /\ \A i \in 1 .. a : T[i] = shown[i]
      /\ \A i \in 1 .. b : T[a + i] = LogRow(lines[i])
  BY Together
<1> HIDE DEF more, longer
<1>5. /\ U \in Seq(Entries) /\ Len(U) = a + b1
      /\ \A i \in 1 .. a : U[i] = shown[i]
      /\ \A i \in 1 .. b1 : U[a + i] = LogRow(more[i])
  BY <1>2, Together
<1>6. /\ Len(LogRows(history)) = h /\ \A i \in 1 .. h : LogRows(history)[i] = LogRow(history[i])
      /\ right \in Seq(Entries) /\ Len(right) = h1
      /\ \A i \in 1 .. h1 : right[i] = LogRow(longer[i])
  BY <1>3, RowsType
<1> HIDE DEF a, b, h, b1, h1, T, U, M, right
<1>7. h = (IF a + b > M THEN M ELSE a + b) /\ \A i \in 1 .. h : LogRow(history[i]) = T[a + b - h + i]
  <2>1. /\ Len(Newest(T)) = IF Len(T) > M THEN M ELSE Len(T)
        /\ \A i \in 1 .. Len(Newest(T)) : Newest(T)[i] = T[Len(T) - Len(Newest(T)) + i]
    BY <1>4, NewestRows DEF M
  <2>2. Newest(T) = LogRows(history)
    BY DEF T
  <2>3. Len(Newest(T)) = h /\ Len(T) = a + b
    BY <1>4, <1>6, <2>2
  <2>4. \A i \in 1 .. h : Newest(T)[i] = T[a + b - h + i]
    <3>1. ASSUME NEW i \in 1 .. h PROVE Newest(T)[i] = T[a + b - h + i]
      <4>1. i \in 1 .. Len(Newest(T)) /\ Len(T) - Len(Newest(T)) + i = a + b - h + i
        BY <1>1, <2>3
      <4>2. Newest(T)[i] = T[Len(T) - Len(Newest(T)) + i]
        BY <2>1, <4>1
      <4>3. QED
        BY <4>1, <4>2
    <3>2. QED
      BY <3>1
  <2>5. h = IF a + b > M THEN M ELSE a + b
    BY <2>1, <2>3
  <2>6. \A i \in 1 .. h : Newest(T)[i] = LogRow(history[i])
    BY <1>6, <2>2
  <2>7. QED
    BY <2>4, <2>5, <2>6
<1>8. h1 = IF a + b1 > M THEN M ELSE a + b1
  BY <1>1, <1>2, <1>3, <1>7
<1>9. /\ left \in Seq(Entries) /\ Len(left) = h1
      /\ \A i \in 1 .. h1 : left[i] = U[a + b1 - h1 + i]
  <2>1. /\ left \in Seq(Entries)
        /\ Len(left) = IF Len(U) > M THEN M ELSE Len(U)
        /\ \A i \in 1 .. Len(left) : left[i] = U[Len(U) - Len(left) + i]
    BY <1>5, NewestRows DEF M
  <2>2. Len(left) = h1
    BY <1>5, <1>8, <2>1
  <2>3. Len(U) = a + b1
    BY <1>5
  <2> HIDE DEF left
  <2>4. \A i \in 1 .. h1 : left[i] = U[a + b1 - h1 + i]
    <3>1. ASSUME NEW i \in 1 .. h1 PROVE left[i] = U[a + b1 - h1 + i]
      <4>1. i \in 1 .. Len(left) /\ Len(U) - Len(left) + i = a + b1 - h1 + i
        BY <1>1, <1>2, <1>3, <2>2, <2>3
      <4>2. left[i] = U[Len(U) - Len(left) + i]
        BY <2>1, <4>1
      <4>3. QED
        BY <4>1, <4>2
    <3>2. QED
      BY <3>1
  <2>5. QED
    BY <2>1, <2>2, <2>4
<1> HIDE DEF left
<1>10. ASSUME NEW i \in 1 .. h1 PROVE left[i] = right[i]
  <2>1. left[i] = U[a + b1 - h1 + i] /\ right[i] = LogRow(longer[i])
    BY <1>6, <1>9
  <2>2. CASE i = h1
    <3>1. a + b1 - h1 + i = a + b1 /\ b1 \in 1 .. b1
      BY <1>1, <1>2, <1>3, <2>2, SMTT(30)
    <3>2. U[a + b1] = LogRow(more[b1])
      BY <1>5, <3>1
    <3>3. QED
      BY <1>2, <1>3, <2>1, <2>2, <3>1, <3>2
  <2>3. CASE i # h1
    <3> DEFINE j == h - h1 + 1 + i
               p == a + b - h1 + 1 + i
               q == a + b1 - h1 + i
    <3>1. j \in 1 .. h /\ i \in 1 .. h1 - 1 /\ a + b - h + j = p
      <4>1. (h1 = h \/ h1 = h + 1) /\ i < h1 /\ i >= 1 /\ i \in Int
        BY <1>1, <1>3, <2>3
      <4>2. CASE h1 = h
        BY <1>1, <4>1, <4>2
      <4>3. CASE h1 = h + 1
        BY <1>1, <4>1, <4>3
      <4>4. QED
        BY <4>1, <4>2, <4>3
    <3>2. right[i] = T[p]
      <4>1. longer[i] = history[j]
        BY <1>3, <3>1
      <4>2. LogRow(history[j]) = T[a + b - h + j]
        BY <1>7, <3>1
      <4>3. QED
        BY <2>1, <3>1, <4>1, <4>2
    <3>3. CASE b # M
      <4>1. b1 = b + 1 /\ q = p /\ p \in 1 .. a + b
        BY <1>1, <1>2, <1>3, <1>7, <1>8, <3>1, <3>3
      <4>2. CASE p <= a
        BY <1>1, <1>4, <1>5, <2>1, <3>2, <4>1, <4>2, SMTT(30)
      <4>3. CASE ~(p <= a)
        <5> DEFINE k == p - a
        <5>1. k \in 1 .. b /\ k \in 1 .. b1 /\ k \in 1 .. b1 - 1 /\ p = a + k /\ b - b1 + 1 + k = k
          <6>1. p \in Int /\ a < p /\ p <= a + b
            BY <1>1, <4>1, <4>3
          <6> HIDE DEF p
          <6>2. QED
            BY <1>1, <4>1, <6>1
        <5> HIDE DEF k, p, q, j
        <5>2. T[p] = LogRow(lines[k]) /\ U[p] = LogRow(more[k]) /\ more[k] = lines[k]
          BY <1>2, <1>4, <1>5, <5>1
        <5>3. QED
          BY <2>1, <3>2, <4>1, <5>2 DEF q
      <4>4. QED
        BY <4>2, <4>3
    <3>4. CASE b = M
      <4>1. /\ b1 = b /\ h1 = b /\ q = a + i /\ p = a + (i + 1) /\ i \in 1 .. b1 /\ i \in 1 .. b1 - 1
            /\ i + 1 \in 1 .. b /\ b - b1 + 1 + i = i + 1
        BY <1>1, <1>2, <1>3, <1>7, <3>1, <3>4
      <4> HIDE DEF p, q, j
      <4>2. T[p] = LogRow(lines[i + 1]) /\ U[q] = LogRow(more[i]) /\ more[i] = lines[i + 1]
        BY <1>2, <1>4, <1>5, <4>1
      <4>3. QED
        BY <2>1, <3>2, <4>2 DEF q
    <3>5. QED
      BY <3>3, <3>4
  <2>4. QED
    BY <2>2, <2>3
<1>11. left = right
  BY <1>6, <1>9, <1>10, SeqEqual
<1>12. QED
  BY <1>11 DEF left, right, U, more, longer

(* Redirecting, logging and draining all keep what the tab will come to.   *)
LEMMA LogsTell ==
  ASSUME NEW l \in Logs, NEW shown \in Seq(Entries), Told(l, shown)
  PROVE  /\ \A path \in Names, debug \in BOOLEAN : Told(Redirect(l, path, debug), shown)
         /\ \A line \in Lines : (line.verbose => line.debug) => Told(Log(l, line), shown)
         /\ Told(Drained(l), LogRows(l.history))
<1>1. /\ l.history \in Seq(Lines) /\ l.lines \in Seq(Lines) /\ l.attached
      /\ Len(l.history) <= MaxFeedRows /\ Len(l.lines) <= MaxFeedRows
      /\ Newest((IF l.reset THEN <<>> ELSE shown) \o LogRows(l.lines)) = LogRows(l.history)
      /\ \A i \in 1 .. Len(l.history) : l.history[i].verbose => l.history[i].debug
      /\ <<>> \in Seq(Entries) /\ <<>> \in Seq(Lines) /\ Len(<<>>) = 0
      /\ MaxFeedRows \in Nat /\ MaxFeedRows > 0
  BY FeedAssumption DEF Logs, Told
<1>2. ASSUME NEW few \in Seq(Lines), Len(few) <= MaxFeedRows
      PROVE  /\ Newest(LogRows(few) \o LogRows(<<>>)) = LogRows(few)
             /\ Newest(<<>> \o LogRows(few)) = LogRows(few)
  <2>1. LogRows(few) \in Seq(Entries) /\ Len(LogRows(few)) = Len(few) /\ LogRows(<<>>) = <<>>
    <3>1. Len(LogRows(<<>>)) = 0 /\ LogRows(<<>>) \in Seq(Entries)
      BY <1>1, RowsType
    <3>2. QED
      BY <3>1, RowsType, EmptySeq
  <2>2. LogRows(few) \o <<>> = LogRows(few) /\ <<>> \o LogRows(few) = LogRows(few)
    BY <2>1, ConcatEmptySeq
  <2>3. Newest(LogRows(few)) = LogRows(few)
    <3>1. ~(Len(LogRows(few)) > MaxFeedRows)
      BY <1>1, <1>2, <2>1
    <3>2. Newest(LogRows(few)) = SubSeq(LogRows(few), 1, Len(LogRows(few)))
      BY <3>1 DEF Newest
    <3>3. QED
      BY <2>1, <3>2, SubSeqFull
  <2>4. QED
    BY <2>1, <2>2, <2>3
<1>3. ASSUME NEW path \in Names, NEW debug \in BOOLEAN PROVE Told(Redirect(l, path, debug), shown)
  <2> DEFINE new == Redirect(l, path, debug)
  <2>1. /\ new.attached = l.attached
        /\ new.history = (IF path = l.path THEN l.history ELSE <<>>)
        /\ new.lines = (IF path = l.path THEN l.lines ELSE <<>>)
        /\ new.reset = IF path = l.path THEN l.reset ELSE l.attached
    <3>1. \A p \in Names, d \in BOOLEAN :
            LET to == Redirect(l, p, d)
            IN /\ to \in Logs /\ to.path = p /\ to.attached = l.attached
               /\ to.history = (IF p = l.path THEN l.history ELSE <<>>)
               /\ to.lines = (IF p = l.path THEN l.lines ELSE <<>>)
               /\ to.reset = IF p = l.path THEN l.reset ELSE l.attached
      BY LogsMove, Zenon
    <3>2. QED
      BY <3>1, Zenon
  <2> HIDE DEF new
  <2>2. CASE path = l.path
    BY <1>1, <2>1, <2>2 DEF Told, new
  <2>3. CASE path # l.path
    <3>1. new.attached /\ new.history = <<>> /\ new.lines = <<>> /\ new.reset
      BY <1>1, <2>1, <2>3
    <3>2. Newest(<<>> \o LogRows(<<>>)) = LogRows(<<>>)
      <4>1. <<>> \in Seq(Lines) /\ Len(<<>>) <= MaxFeedRows
        BY <1>1
      <4>2. QED
        BY <4>1, <1>2, Zenon
    <3>3. QED
      BY <1>1, <3>1, <3>2 DEF Told, new
  <2>4. QED
    BY <2>2, <2>3
<1>4. ASSUME NEW line \in Lines, line.verbose => line.debug PROVE Told(Log(l, line), shown)
  <2> DEFINE new == Log(l, line)
             seen == IF l.reset THEN <<>> ELSE shown
             longer == PushCapped(l.history, line)
             more == PushCapped(l.lines, line)
  <2>1. /\ new.attached = l.attached /\ new.reset = l.reset
        /\ new.history = longer /\ new.lines = more
    <3>1. \A s \in Lines :
            LET to == Log(l, s)
            IN /\ to \in Logs /\ to.path = l.path /\ to.attached = l.attached
               /\ to.history = PushCapped(l.history, s)
               /\ to.lines = (IF l.attached THEN PushCapped(l.lines, s) ELSE l.lines)
               /\ to.reset = l.reset
      BY LogsMove, Zenon
    <3>2. /\ new.attached = l.attached /\ new.reset = l.reset /\ new.history = longer
          /\ new.lines = IF l.attached THEN more ELSE l.lines
      BY <1>4, <3>1, Zenon
    <3>3. l.attached
      BY <1>1
    <3>4. QED
      BY <3>2, <3>3
  <2>2. seen \in Seq(Entries) /\ Newest(seen \o LogRows(l.lines)) = LogRows(l.history)
    BY <1>1
  <2> HIDE DEF seen
  <2>3. Newest(seen \o LogRows(more)) = LogRows(longer)
    BY <1>1, <2>2, TellsMore
  <2>4. Len(longer) <= MaxFeedRows /\ Len(more) <= MaxFeedRows
    BY <1>1, PushedRows
  <2>5. \A i \in 1 .. Len(longer) : longer[i].verbose => longer[i].debug
    <3>1. /\ Len(longer) \in Nat /\ Len(longer) > 0
          /\ Len(longer) = (IF Len(l.history) = MaxFeedRows THEN MaxFeedRows ELSE Len(l.history) + 1)
          /\ longer[Len(longer)] = line
          /\ \A i \in 1 .. Len(longer) - 1 : longer[i] = l.history[Len(l.history) - Len(longer) + 1 + i]
      <4> DEFINE old == l.history
      <4>1. old \in Seq(Lines) /\ Len(old) <= MaxFeedRows
        BY <1>1
      <4> HIDE DEF old
      <4>2. LET all == PushCapped(old, line)
            IN /\ all \in Seq(Lines) /\ Len(all) \in Nat /\ Len(all) > 0 /\ Len(all) <= MaxFeedRows
               /\ Len(all) = IF Len(old) = MaxFeedRows THEN MaxFeedRows ELSE Len(old) + 1
               /\ all[Len(all)] = line
               /\ \A i \in 1 .. Len(all) - 1 : all[i] = old[Len(old) - Len(all) + 1 + i]
        BY <1>4, <4>1, PushedRows
      <4>3. QED
        BY <4>2 DEF old
    <3> HIDE DEF longer
    <3>2. ASSUME NEW i \in 1 .. Len(longer), i # Len(longer)
          PROVE  longer[i].verbose => longer[i].debug
      <4> DEFINE j == Len(l.history) - Len(longer) + 1 + i
      <4>1. i \in 1 .. Len(longer) - 1 /\ j \in 1 .. Len(l.history)
        <5>1. /\ Len(l.history) \in Nat /\ i \in 1 .. Len(longer) - 1 /\ Len(longer) \in Nat
              /\ Len(longer) = Len(l.history) \/ Len(longer) = Len(l.history) + 1
          BY <1>1, <3>1, <3>2
        <5>2. QED
          BY <5>1
      <4>2. longer[i] = l.history[j]
        BY <3>1, <4>1
      <4> HIDE DEF j
      <4>3. QED
        BY <1>1, <4>1, <4>2
    <3>3. QED
      BY <1>4, <3>1, <3>2
  <2> HIDE DEF new, longer, more
  <2>6. QED
    BY <1>1, <2>1, <2>3, <2>4, <2>5 DEF Told, seen, new
<1>5. Told(Drained(l), LogRows(l.history))
  <2>1. /\ Drained(l).attached = l.attached /\ Drained(l).history = l.history
        /\ Drained(l).lines = <<>> /\ ~Drained(l).reset
    BY LogsMove
  <2>2. QED
    BY <1>1, <1>2, <2>1 DEF Told
<1>6. QED
  BY <1>3, <1>4, <1>5

(* Three sequences joined from either end.                                 *)
Associates(a, b, c) == (a \o b) \o c = a \o (b \o c)

LEMMA AllAssociate ==
  ASSUME NEW T, NEW a \in Seq(T), NEW b \in Seq(T), NEW c \in Seq(T)
  PROVE  Associates(a, b, c)
<1>1. (a \o b) \o c = a \o (b \o c)
  OBVIOUS
<1>2. QED
  BY <1>1 DEF Associates

(* Showing details replaces the run's rows and leaves the log's.           *)
LEMMA ShowsDetails ==
  ASSUME NEW shown \in Seq(Entries), NEW old \in Seq(Rows), NEW new \in Seq(Rows),
         new = <<>> \/ Extends(old, new)
  PROVE  ShowDetails(shown \o DetailRows(old), new) = shown \o DetailRows(new)
<1> DEFINE all == shown \o DetailRows(old)
           D == DetailRows(old)
           E == DetailRows(new)
           T == [kind : {"log", "detail"}, of : Lines \cup Rows]
<1>1. TrailingDetails(all) = Len(old) /\ Logged(all) = shown
  BY Trailing
<1>2. ShowDetails(all, new) = IF Len(old) > Len(new) THEN shown \o E
                              ELSE all \o SubSeq(E, Len(old) + 1, Len(new))
  BY <1>1 DEF ShowDetails, DetailRows
<1>3. /\ D \in Seq(T) /\ E \in Seq(T) /\ shown \in Seq(T) /\ Len(D) = Len(old) /\ Len(E) = Len(new)
      /\ \A i \in 1 .. Len(old) : D[i] = DetailRow(old[i])
      /\ \A i \in 1 .. Len(new) : E[i] = DetailRow(new[i])
      /\ Len(old) \in Nat /\ Len(new) \in Nat
  <2>1. [kind : {"detail"}, of : Rows] \subseteq T /\ Entries \subseteq T
    BY DEF Entries
  <2>2. /\ D \in Seq([kind : {"detail"}, of : Rows]) /\ E \in Seq([kind : {"detail"}, of : Rows])
        /\ Len(D) = Len(old) /\ Len(E) = Len(new)
        /\ \A i \in 1 .. Len(old) : D[i] = DetailRow(old[i])
        /\ \A i \in 1 .. Len(new) : E[i] = DetailRow(new[i])
    BY RowsType
  <2> HIDE DEF T, D, E
  <2>3. D \in Seq(T) /\ E \in Seq(T) /\ shown \in Seq(T)
    BY <2>1, <2>2, SeqMonotonic
  <2>4. QED
    BY <2>2, <2>3
<1> HIDE DEF T, D, E
<1>4. CASE Len(old) > Len(new)
  BY <1>2, <1>4 DEF E
<1>5. CASE ~(Len(old) > Len(new))
  <2> DEFINE rest == SubSeq(E, Len(old) + 1, Len(new))
  <2>1. SubSeq(E, 1, Len(old)) = D
    <3>1. \A i \in 1 .. Len(old) : i \in 1 .. Len(new) /\ old[i] = new[i]
      BY <1>3, <1>5 DEF Extends
    <3>2. \A i \in 1 .. Len(old) : E[i] = D[i] /\ E[i] \in T
      BY <1>3, <3>1, ElementOfSeq
    <3> DEFINE begin == SubSeq(E, 1, Len(old))
    <3>3. /\ begin \in Seq(T)
          /\ Len(begin) = IF 1 <= Len(old) THEN Len(old) - 1 + 1 ELSE 0
          /\ \A i \in 1 .. Len(old) - 1 + 1 : begin[i] = E[1 + i - 1]
      BY <1>3, <3>2, SubSeqProperties
    <3>4. Len(begin) = Len(D)
      BY <1>3, <3>3
    <3>5. \A i \in 1 .. Len(begin) : begin[i] = D[i]
      BY <1>3, <3>2, <3>3, <3>4
    <3>6. QED
      BY <1>3, <3>3, <3>4, <3>5, SeqEqual
  <2>2. D \o rest = E
    <3>1. SubSeq(E, 1, Len(old)) \o SubSeq(E, Len(old) + 1, Len(new)) = SubSeq(E, 1, Len(new))
      <4>1. /\ 1 \in 1 .. Len(E) + 1 /\ Len(old) \in 1 - 1 .. Len(E) /\ Len(new) \in Len(old) .. Len(E)
        BY <1>3, <1>5
      <4>2. QED
        BY <1>3, <4>1, ConcatAdjacentSubSeq
    <3>2. SubSeq(E, 1, Len(new)) = E
      BY <1>3, SubSeqFull
    <3>3. QED
      BY <2>1, <3>1, <3>2
  <2>3. rest \in Seq(T)
    <3>1. \A i \in Len(old) + 1 .. Len(new) : E[i] \in T
      BY <1>3, ElementOfSeq
    <3>2. Len(old) + 1 \in Int /\ Len(new) \in Int
      BY <1>3
    <3>3. QED
      BY <3>1, <3>2, SubSeqProperties
  <2> HIDE DEF rest
  <2>4. (shown \o D) \o rest = shown \o (D \o rest)
    <3> HIDE DEF D, E, T
    <3>1. shown \in Seq(T) /\ D \in Seq(T) /\ rest \in Seq(T)
      BY <1>3, <2>3
    <3> HIDE DEF rest
    <3>2. Associates(shown, D, rest)
      BY <3>1, AllAssociate, Zenon
    <3>3. QED
      BY <3>2 DEF Associates
  <2>5. ShowDetails(all, new) = (shown \o D) \o rest
    BY <1>2, <1>5 DEF rest, D
  <2>6. QED
    BY <2>2, <2>4, <2>5 DEF E
<1>6. QED
  BY <1>4, <1>5

(* A drain makes the tab the session's newest rows and the details.        *)
LEMMA Applies ==
  ASSUME NEW shown \in Seq(Entries), NEW details \in Seq(Rows), NEW l, Told(l, shown)
  PROVE  Apply(shown \o DetailRows(details), l) = LogRows(l.history) \o DetailRows(details)
<1> DEFINE all == shown \o DetailRows(details)
<1>1. /\ Logged(all) = shown
      /\ SubSeq(all, Len(all) - TrailingDetails(all) + 1, Len(all)) = DetailRows(details)
  BY Trailing
<1>2. Apply(all, l) = Newest((IF l.reset THEN <<>> ELSE Logged(all)) \o LogRows(l.lines))
                        \o SubSeq(all, Len(all) - TrailingDetails(all) + 1, Len(all))
  BY Zenon DEF Apply, LogRows
<1>3. QED
  BY <1>1, <1>2 DEF Told

(* A drain is owed as long as rows wait, whatever is done to the log.      *)
LEMMA RedirectsWake ==
  ASSUME WindowTypeOK, Woken, NEW p \in Names, NEW debug \in BOOLEAN, NEW fails,
         RedirectLog(p, debug, fails), UNCHANGED writing
  PROVE  Woken' /\ (log' = log \/ log' = Redirect(log, p, debug))
<1>1. log \in Logs /\ drains \in Nat
  BY DEF WindowTypeOK
<1>2. CASE log' = log /\ drains' = drains
  BY <1>2 DEF Woken
<1>3. CASE log' = Redirect(log, p, debug) /\ drains' = Posted(RedirectWakes(log, p))
  <2>1. CASE p = log.path
    <3>1. log' = [log EXCEPT !.debug = debug] /\ drains' = drains
      BY <1>3, <2>1 DEF Redirect, RedirectWakes, Posted
    <3>2. Wakes(log') = Wakes(log)
      BY <1>1, <3>1 DEF Logs, Wakes, Idle
    <3>3. drains' = drains /\ writing' = writing
      BY <3>1
    <3>4. Woken'
      BY <3>2, <3>3, Zenon DEF Woken
    <3>5. QED
      BY <1>3, <3>4
  <2>2. CASE p # log.path /\ Wakes(log)
    <3>1. drains' = drains + 1
      BY <1>3, <2>2 DEF RedirectWakes, Posted
    <3>2. QED
      BY <1>1, <1>3, <3>1 DEF Woken
  <2>3. CASE p # log.path /\ ~Wakes(log)
    <3>1. drains' = drains
      BY <1>3, <2>3 DEF RedirectWakes, Posted
    <3>2. QED
      BY <1>3, <2>3, <3>1 DEF Woken
  <2>4. QED
    BY <2>1, <2>2, <2>3
<1>4. QED
  BY <1>2, <1>3 DEF RedirectLog

(* The log's rows of the tab are those of shown.                           *)
Shows(shown) == rows = shown \o DetailRows(view.details) /\ Told(log, shown)

(* Steps that leave the rows alone keep the tab.                           *)
LEMMA TabKeeps ==
  ASSUME WindowTypeOK, Tabbed, rows' = rows, view'.details = view.details, Woken',
         \/ log' = log
         \/ \E path \in Names, debug \in BOOLEAN : log' = Redirect(log, path, debug)
         \/ \E line \in Lines : (line.verbose => line.debug) /\ log' = Log(log, line)
  PROVE  Tabbed'
<1>1. PICK shown \in Seq(Entries) : Shows(shown)
  BY DEF Tabbed, Shows
<1>2. log \in Logs /\ Told(log, shown)
  BY <1>1 DEF WindowTypeOK, Shows
<1>3. Told(log', shown)
  <2>1. /\ \A path \in Names, debug \in BOOLEAN : Told(Redirect(log, path, debug), shown)
        /\ \A line \in Lines : (line.verbose => line.debug) => Told(Log(log, line), shown)
    BY <1>2, LogsTell
  <2>2. QED
    BY <1>2, <2>1
<1>4. rows' = shown \o DetailRows(view'.details)
  BY <1>1 DEF Shows
<1>5. QED
  BY <1>3, <1>4 DEF Tabbed

(* So do steps that show the run's new details.                            *)
LEMMA TabShowsDetails ==
  ASSUME WindowTypeOK, Tabbed, view' \in Views, Woken',
         view'.details = <<>> \/ Extends(view.details, view'.details),
         rows' = ShowDetails(rows, view'.details),
         log' = log \/ \E path \in Names, debug \in BOOLEAN : log' = Redirect(log, path, debug)
  PROVE  Tabbed'
<1>1. PICK shown \in Seq(Entries) : Shows(shown)
  BY DEF Tabbed, Shows
<1>2. log \in Logs /\ Told(log, shown) /\ view.details \in Seq(Rows) /\ view'.details \in Seq(Rows)
  BY <1>1 DEF WindowTypeOK, Shows, Views
<1>3. Told(log', shown)
  <2>1. \A path \in Names, debug \in BOOLEAN : Told(Redirect(log, path, debug), shown)
    BY <1>2, LogsTell
  <2>2. QED
    BY <1>2, <2>1
<1>4. rows' = shown \o DetailRows(view'.details)
  BY <1>1, <1>2, ShowsDetails DEF Shows
<1>5. QED
  BY <1>3, <1>4 DEF Tabbed

(* The tab starts empty, with a drain posted.                              *)
LEMMA TabStarts == Init => Tabbed
<1> SUFFICES ASSUME Init PROVE Tabbed
  OBVIOUS
<1>1. /\ log.attached /\ log.reset /\ log.history = <<>> /\ log.lines = <<>>
      /\ rows = <<>> /\ drains = 1 /\ view.details = <<>>
  BY TypeOfInit DEF Init, View0
<1>2. /\ LogRows(<<>>) = <<>> /\ DetailRows(<<>>) = <<>>
      /\ <<>> \in Seq(Entries) /\ <<>> \o <<>> = <<>>
  <2>1. <<>> \in Seq(Lines) /\ <<>> \in Seq(Rows) /\ <<>> \in Seq(Entries) /\ Len(<<>>) = 0
    OBVIOUS
  <2>2. LogRows(<<>>) = <<>>
    BY <2>1, RowsType, EmptySeq
  <2>3. DetailRows(<<>>) = <<>>
    BY <2>1, RowsType, EmptySeq
  <2>4. QED
    BY <2>1, <2>2, <2>3, ConcatEmptySeq
<1>3. Newest(<<>>) = <<>>
  <2>1. Len(<<>>) = 0 /\ <<>> \in Seq(Entries) /\ MaxFeedRows \in Nat
    BY FeedAssumption
  <2>2. Newest(<<>>) = SubSeq(<<>>, 1, 0)
    BY <2>1 DEF Newest
  <2>3. QED
    BY <2>1, <2>2, SubSeqFull
<1>4. Told(log, <<>>)
  <2>1. Len(<<>>) = 0 /\ MaxFeedRows \in Nat
    BY FeedAssumption
  <2>2. QED
    BY <1>1, <1>2, <1>3, <2>1 DEF Told
<1>5. rows = <<>> \o DetailRows(view.details)
  BY <1>1, <1>2
<1>6. Woken
  BY <1>1 DEF Woken
<1>7. QED
  BY <1>2, <1>4, <1>5, <1>6, Zenon DEF Tabbed

(* Every step keeps what the tab will come to.                             *)
LEMMA TabSteps ==
  ASSUME WindowTypeOK, Posting, InFlight, Tabbed, [Next]_vars
  PROVE  Tabbed'
<1>1. /\ WindowTypeOK' /\ Woken /\ log \in Logs /\ drains \in Nat
      /\ store'.loaded.options.debug \in BOOLEAN /\ store'.form.debug \in BOOLEAN
  BY TypeOfSteps DEF WindowTypeOK, Stores, Options, Tabbed
<1>2. ASSUME NEW p \in Names, NEW fails, NEW debug \in BOOLEAN, RedirectLog(p, debug, fails),
             UNCHANGED <<rows, view, writing>>
      PROVE  Tabbed'
  BY <1>1, <1>2, RedirectsWake, TabKeeps
<1>3. ASSUME UNCHANGED <<log, drains, rows, view, writing>> PROVE Tabbed'
  BY <1>1, <1>3, TabKeeps DEF Woken
<1>4. CASE Dialogs
  <2>1. ASSUME NEW base \in Names, CreateProfile(base) PROVE Tabbed'
    <3>1. /\ newName \in Names /\ UNCHANGED <<newName, runVars>>
          /\ \E before, fails : Select(before, newName, fails)
      BY <2>1 DEF CreateProfile, WindowTypeOK
    <3>2. \E fails : RedirectLog(newName, store'.loaded.options.debug, fails)
      BY <3>1 DEF Select, StampLog
    <3>3. UNCHANGED <<rows, view, writing>>
      BY <3>1 DEF Select, StampLog, runVars
    <3>4. QED
      BY <1>1, <1>2, <3>1, <3>2, <3>3
  <2>2. CASE UNCHANGED <<runVars, logVars>>
    BY <1>3, <2>2 DEF runVars, logVars
  <2>3. QED
    BY <1>4, <2>1, <2>2
    DEF Dialogs, NewProfile, EndTutorial, AboutSlint, EditUnwanted, ConfirmFormats, Dismiss, Teardown,
        ConfirmName, FailCreation
<1>5. CASE User
  <2>1. ASSUME NEW p \in Names, ProfileSelected(p) PROVE Tabbed'
    <3>1. UNCHANGED runVars /\ \E fails : Select(store, p, fails)
      BY <2>1 DEF ProfileSelected
    <3>2. \E fails : RedirectLog(p, store'.loaded.options.debug, fails)
      BY <3>1 DEF Select, StampLog
    <3>3. UNCHANGED <<rows, view, writing>>
      BY <3>1 DEF Select, StampLog, runVars
    <3>4. QED
      BY <1>1, <1>2, <3>2, <3>3
  <2>2. CASE EditControls
    BY <1>3, <2>2 DEF EditControls, runVars, logVars
  <2>3. CASE ToggleDebugLog
    <3>1. /\ log' = log \/ log' = Redirect(log, log.path, store'.form.debug)
          /\ UNCHANGED <<rows, view, drains, writing>>
      BY <2>3 DEF ToggleDebugLog, runVars
    <3>2. Redirect(log, log.path, store'.form.debug) = [log EXCEPT !.debug = store'.form.debug]
      BY DEF Redirect
    <3>3. Wakes(log') = Wakes(log) /\ log.path \in Names
      BY <1>1, <3>1, <3>2 DEF Logs, Wakes, Idle
    <3>4. Woken'
      BY <1>1, <3>1, <3>3 DEF Woken
    <3>5. log' = log \/ \E path \in Names, debug \in BOOLEAN : log' = Redirect(log, path, debug)
      BY <1>1, <3>1, <3>3
    <3>6. QED
      BY <3>1, <3>4, <3>5, TabKeeps
  <2>4. CASE StartRun
    <3>1. RunPath \in Names /\ UNCHANGED writing
      BY <1>1, <2>4 DEF StartRun, RunPath, WindowTypeOK, Logs
    <3>2. \/ UNCHANGED <<runVars, log, drains, rows>>
          \/ /\ RedirectLog(RunPath, store'.loaded.options.debug, {})
             /\ Admit(view.run + 1) \/ UNCHANGED <<runVars, rows>>
      BY <2>4 DEF StartRun
    <3>3. CASE UNCHANGED <<runVars, log, drains, rows>>
      BY <1>3, <3>1, <3>3 DEF runVars
    <3>4. CASE RedirectLog(RunPath, store'.loaded.options.debug, {}) /\ UNCHANGED <<runVars, rows>>
      BY <1>1, <1>2, <3>1, <3>4 DEF runVars
    <3>5. CASE RedirectLog(RunPath, store'.loaded.options.debug, {}) /\ Admit(view.run + 1)
      <4>1. Woken' /\ (log' = log \/ log' = Redirect(log, RunPath, store'.loaded.options.debug))
        BY <1>1, <3>1, <3>5, RedirectsWake
      <4>2. view.run + 1 \in Nat
        BY <2>4, <3>5, AdmitsAlone
      <4>3. view' \in Views /\ view' = Begin(view.run + 1) /\ rows' = ShowDetails(rows, <<>>)
        BY <2>4, <3>5, <4>2, StartsType, Admits
      <4>4. view'.details = <<>>
        BY <4>2, <4>3, Begins
      <4>5. log' = log \/ \E path \in Names, debug \in BOOLEAN : log' = Redirect(log, path, debug)
        BY <1>1, <3>1, <4>1
      <4>6. QED
        BY <4>1, <4>3, <4>4, <4>5, TabShowsDetails
    <3>6. QED
      BY <3>2, <3>3, <3>4, <3>5
  <2>5. CASE CancelRun \/ CloseDuringRun
    <3>1. view'.details = view.details /\ UNCHANGED logVars
      BY <2>5, Cancels
    <3>2. QED
      BY <1>1, <3>1, TabKeeps DEF logVars, Woken
  <2>6. CASE CloseWindow
    BY <1>3, <2>6 DEF CloseWindow, logVars
  <2>7. QED
    BY <1>5, <2>1, <2>2, <2>3, <2>4, <2>5, <2>6 DEF User
<1>6. CASE Deliver
  <2>1. /\ events[1] \in Events /\ view' = Consume(view, events[1])
        /\ rows' = ShowDetails(rows, view'.details) /\ UNCHANGED <<log, drains, writing>>
    BY <1>6, Takes
  <2>2. view \in Views /\ view' \in Views
    BY <1>1 DEF WindowTypeOK
  <2>3. Extends(view.details, view'.details)
    BY <2>1, <2>2, Consumes
  <2>4. Woken'
    BY <1>1, <2>1 DEF Woken
  <2>5. QED
    BY <2>1, <2>2, <2>3, <2>4, TabShowsDetails
<1>7. CASE WorkerStep
  <2>1. UNCHANGED <<view, logVars>>
    BY <1>7, WorkerSteps
  <2>2. QED
    BY <1>3, <2>1 DEF logVars
<1>8. CASE Logging
  <2>1. /\ UNCHANGED <<view, rows>>
        /\ \/ /\ log' = log /\ drains' = drains
              /\ \A t \in Loggers : writing[t].stage = "waking" => writing'[t].stage = "waking"
           \/ /\ \E line \in Lines : (line.verbose => line.debug) /\ log' = Log(log, line)
              /\ drains' = drains
              /\ \A t \in Loggers : writing[t].stage = "waking" => writing'[t].stage = "waking"
              /\ Wakes(log) => \E t \in Loggers : writing'[t].stage = "waking"
           \/ log' = log /\ drains' = drains + 1
    BY <1>8, LogSteps DEF runVars
  <2>2. Woken'
    BY <1>1, <2>1 DEF Woken
  <2>3. QED
    BY <2>1, <2>2, TabKeeps
<1>9. CASE DrainLog
  <2>1. PICK shown \in Seq(Entries) : Shows(shown)
    BY DEF Tabbed, Shows
  <2>2. Told(log, shown) /\ view.details \in Seq(Rows) /\ log.history \in Seq(Lines)
    BY <1>1, <2>1 DEF Shows, WindowTypeOK, Views, Logs
  <2>3. rows' = LogRows(log.history) \o DetailRows(view.details)
    <3>1. rows = shown \o DetailRows(view.details) /\ rows' = Apply(rows, log)
      BY <1>9, <2>1 DEF Shows, DrainLog
    <3>2. QED
      BY <2>2, <3>1, Applies
  <2>4. log' = Drained(log) /\ view' = view
    BY <1>9 DEF DrainLog, runVars
  <2>5. Told(log', LogRows(log.history))
    BY <1>1, <2>2, <2>4, LogsTell
  <2>6. LogRows(log.history) \in Seq(Entries)
    BY <2>2, RowsType
  <2>7. Woken'
    <3>1. log'.attached = log.attached /\ log'.lines = <<>> /\ ~log'.reset
      BY <1>1, <2>4, LogsMove
    <3>2. log.attached
      BY <2>2 DEF Told
    <3>3. QED
      BY <3>1, <3>2 DEF Woken, Wakes, Idle
  <2>8. QED
    BY <2>3, <2>4, <2>5, <2>6, <2>7 DEF Tabbed
<1>10. CASE UNCHANGED vars
  BY <1>3, <1>10 DEF vars, runVars, logVars
<1>11. QED
  BY <1>4, <1>5, <1>6, <1>7, <1>8, <1>9, <1>10 DEF Next

(* The Log tab comes to the session's newest rows and the run's details: a *)
(* drain that is owed makes it so, and no row is lost, doubled or left     *)
(* from the previous file, whichever thread logs and whenever the file     *)
(* changes.                                                                *)
THEOREM TabTells == Spec => []TabTellsEverything
<1>1. Init => WindowTypeOK /\ Posting /\ InFlight /\ Tabbed
  BY TypeOfInit, InFlightStarts, TabStarts
<1>2. WindowTypeOK /\ Posting /\ InFlight /\ Tabbed /\ [Next]_vars
        => WindowTypeOK' /\ Posting' /\ InFlight' /\ Tabbed'
  BY TypeOfSteps, InFlightSteps, TabSteps
<1>3. WindowTypeOK /\ Tabbed => TabTellsEverything
  <2> SUFFICES ASSUME WindowTypeOK, Tabbed PROVE TabTellsEverything
    OBVIOUS
  <2>1. PICK shown \in Seq(Entries) : Shows(shown)
    BY DEF Tabbed, Shows
  <2>2. Told(log, shown) /\ view.details \in Seq(Rows) /\ rows = shown \o DetailRows(view.details)
    BY <2>1 DEF Shows, WindowTypeOK, Views
  <2>3. Apply(rows, log) = LogRows(log.history) \o DetailRows(view.details)
    BY <2>2, Applies
  <2>4. Woken /\ \A i \in 1 .. Len(log.history) : log.history[i].verbose => log.history[i].debug
    BY <2>2 DEF Tabbed, Told
  <2>5. QED
    BY <2>3, <2>4 DEF TabTellsEverything, LogRows, DetailRows, Woken
<1>4. QED
  BY <1>1, <1>2, <1>3, PTL DEF Spec

===============================================================================
