----------------------------- MODULE ProfileStore -----------------------------
(***************************************************************************)
(* The profiles of one install and the window's copy of the selected one:  *)
(* profile.ini with its settings, settings.ini with its options, the       *)
(* isBase flag, common.ini, and the controls (cao-profiles/profiles.rs,    *)
(* cao-gui/app.rs and form.rs).                                            *)
(*                                                                         *)
(* Of the settings, caps stands for the Profile Capabilities, which the    *)
(* window keeps, and edit for the advanced groups, which it shows; of the  *)
(* options, assets stands for what the asset tabs show.                    *)
(***************************************************************************)
EXTENDS Naturals, FiniteSets

CONSTANTS
  Names,      \* profile names, Default among them
  Default     \* the profile SSE

ASSUME DefaultAssumption == Default \in Names

Files == {"settings", "options", "isBase"}

NoSettings == [state |-> "absent", caps |-> Default, edit |-> 0]
NoOptions == [there |-> FALSE, assets |-> 0, debug |-> FALSE]
Settings == [state : {"absent", "malformed", "readable"}, caps : Names, edit : 0 .. 1]
Options == [assets : 0 .. 1, debug : BOOLEAN]
Profile == [settings : Settings, options : [there : BOOLEAN, assets : 0 .. 1, debug : BOOLEAN],
            base : BOOLEAN]

Listed(disk) == {p \in Names : disk[p].settings.state # "absent"}

Resolve(disk, p) == IF p \in Listed(disk) THEN p ELSE Default

Readable(settings) == settings.state = "readable"

(* Mutant: an unreadable profile.ini keeps what was loaded, as an           *)
(* unreadable settings.ini does.                                           *)
KeptSettings(store, p, fails) ==
  IF Readable(store.disk[p].settings) /\ "readSettings" \notin fails
    THEN store.disk[p].settings ELSE store.loaded.settings

(***************************************************************************)
(* Reading a profile.  A file that cannot be read now, whatever it holds,  *)
(* is in fails.                                                            *)
(***************************************************************************)
LoadSettings(store, p, fails) ==
  IF Readable(store.disk[p].settings) /\ "readSettings" \notin fails
    THEN store.disk[p].settings ELSE NoSettings

LoadOptions(store, p, fails) ==
  LET file == store.disk[p].options
  IN IF file.there /\ "readOptions" \notin fails
       THEN [assets |-> file.assets, debug |-> file.debug]
       ELSE store.loaded.options

ShowSettings(form, settings) == [form EXCEPT !.edit = settings.edit]

ShowOptions(form, options) == [form EXCEPT !.assets = options.assets, !.debug = options.debug]

(* A file is read again, changed and replaced whole, or stays as it was.   *)
Updated(old, new, failed) == IF failed THEN old ELSE new

Remembered(store, p, fails) ==
  [store EXCEPT !.common = Updated(@, p, "common" \in fails)]

(* What load_profile leaves: the profile remembered, loaded and shown.     *)
Loading(store, p, fails) ==
  LET settings == LoadSettings(store, p, fails)
      options == LoadOptions(store, p, fails)
      shown == IF Readable(settings) THEN ShowSettings(store.form, settings) ELSE store.form
  IN [Remembered(store, p, fails) EXCEPT
        !.loaded = [profile |-> p, options |-> options, settings |-> settings,
                    base |-> store.disk[p].base],
        !.form = ShowOptions(shown, options)]

(***************************************************************************)
(* Saving the window.  While a run holds the controls only common.ini is   *)
(* written.                                                                *)
(***************************************************************************)
ReadOptions(form, current, settingsRead) ==
  [assets |-> IF settingsRead THEN form.assets ELSE current.assets, debug |-> form.debug]

ReadSettings(form, current) == [current EXCEPT !.edit = form.edit]

SavingOptions(store, fails) ==
  LET p == store.loaded.profile
      options == ReadOptions(store.form, store.loaded.options, Readable(store.loaded.settings))
  IN [store EXCEPT
        !.loaded.options = options,
        !.disk[p].options =
          Updated(@, [there |-> TRUE, assets |-> options.assets, debug |-> options.debug],
                  "saveOptions" \in fails)]

SavingSettings(store, fails) ==
  LET p == store.loaded.profile
      settings == ReadSettings(store.form, store.loaded.settings)
  IN IF Readable(store.loaded.settings)
       THEN [store EXCEPT
               !.loaded.settings = settings,
               !.disk[p].settings = Updated(@, settings, "saveSettings" \in fails)]
       ELSE store

Saving(store, locked, fails) ==
  LET remembered == Remembered(store, store.loaded.profile, fails)
  IN IF locked THEN remembered ELSE SavingSettings(SavingOptions(remembered, fails), fails)

(* Mutant: a failed save of the settings is only shown, as the others are. *)
AlwaysSaved(store, locked, fails) == TRUE

(* What save returns.                                                      *)
Saved(store, locked, fails) ==
  locked \/ ~Readable(store.loaded.settings) \/ "saveSettings" \notin fails

(* What saving and loading may fail at.                                    *)
SaveFaults == {"common", "saveOptions", "saveSettings"}
LoadFaults == {"common", "readOptions", "readSettings"}

(***************************************************************************)
(* Creating a profile copies the base profile's files, keeps what is there *)
(* already and drops the isBase flag.  A failure leaves what was copied.   *)
(***************************************************************************)
Has(profile) ==
  {f \in Files : \/ f = "settings" /\ profile.settings.state # "absent"
                 \/ f = "options" /\ profile.options.there
                 \/ f = "isBase" /\ profile.base}

CopyMissing(disk, from, to, files) ==
  [disk EXCEPT ![to] =
     [settings |-> IF "settings" \in files THEN disk[from].settings ELSE @.settings,
      options |-> IF "options" \in files THEN disk[from].options ELSE @.options,
      base |-> "isBase" \in files \/ @.base]]

Missing(disk, from, to) == Has(disk[from]) \ Has(disk[to])

Create(disk, name, base) ==
  LET from == Resolve(disk, base)
  IN [CopyMissing(disk, from, name, Missing(disk, from, name)) EXCEPT ![name].base = FALSE]

(* What a creation that fails may leave.                                   *)
Partial(disk, name, base) ==
  LET from == Resolve(disk, base)
  IN {CopyMissing(disk, from, name, files) : files \in SUBSET Missing(disk, from, name)}

=============================================================================
