-------------------------- MODULE ArchiveExtraction --------------------------
(***************************************************************************)
(* Archive discovery's preflight and Archive extraction (run/archives.rs): *)
(* every selected Archive of a Mod Root is read and its winning entries    *)
(* are frozen; then each Archive is staged as a whole, its winners are     *)
(* published beside it, and its source is deleted or backed up, while      *)
(* another program changes the Mod Root and a user cancels.  Every state   *)
(* is also what a crash would leave.                                       *)
(*                                                                         *)
(* Abstractions.  A number stands for the bytes of a file, and for those   *)
(* of every entry of an Archive.  The Archive pass is one step.  Mod Roots *)
(* share nothing: one is modelled.  A backup takes the source's name away  *)
(* as a deletion does.  Staging and its cleanup are StagingOwnership.      *)
(***************************************************************************)
EXTENDS Naturals

CONSTANTS
    Paths,          \* game paths
    Archives,
    Rank,           \* Archive Precedence, the highest first
    Nothing,        \* no Archive
    Fresh,          \* bytes that no file has at first
    MaxEdits        \* bound: what the other program does

ASSUME ConstantsAssumption ==
    /\ Rank \in [Archives -> Nat]
    /\ \A a, b \in Archives : Rank[a] = Rank[b] => a = b
    /\ Nothing \notin Archives
    /\ Fresh \in Nat /\ \A a \in Archives : 2 + Rank[a] < Fresh
    /\ MaxEdits \in Nat

VARIABLES
    apply,          \* the mode: Apply, or Dry Run
    cancelRequested,
    loose,          \* the bytes of each Loose Asset, 0 when it is absent
    bytes,          \* the bytes of each Archive, 0 when it is absent
    entries,        \* the game paths in it
    edits,          \* the other program's steps
    stage,          \* the step to come
    found,          \* RootArchives: the Loose Assets of the Archive pass
    unread,         \* its Archives whose manifest is still to be read
    planned,        \* the Archives with an ArchiveExtractionPlan
    manifest,       \* the entries of each plan
    first,          \* the highest Archive that provides each game path
    todo,           \* plans not yet attempted
    source,         \* the Archive being extracted
    pin,            \* what SourceFilePin and staging saw of it
    left,           \* its winners still to be published
    attempts,       \* what Run Evidence holds of each Archive
    (* History *)
    merged,         \* the entries published from each Archive
    removed,        \* sources this phase took away
    disturbed       \* game paths decided here that another program undid

disk == <<loose, bytes, entries>>
plan == <<found, unread, planned, manifest, first>>
attempt == <<source, pin, left>>
history == <<merged, removed, disturbed>>
vars == <<apply, cancelRequested, disk, edits, stage, plan, todo, attempt, attempts, history>>

Stages == {"walk", "preflight", "next", "pin", "stage", "merge", "cleanup", "judge",
           "extracted", "planned", "halted"}
Ended == {"extracted", "planned", "halted"}
Failures == {"none", "ExtractionFailed", "MergeFailed", "SourceCleanupFailed",
             "InsufficientCapacity"}
Mutations == {"None", "Committed", "PartialOrUnknown"}
Attempts == [failure : Failures, mutation : Mutations, safe : BOOLEAN]
NoAttempt == [failure |-> "none", mutation |-> "None", safe |-> TRUE]
NoPin == [bytes |-> 0, entries |-> {}]

TypeOK ==
    /\ apply \in BOOLEAN /\ cancelRequested \in BOOLEAN
    /\ loose \in [Paths -> Nat]
    /\ bytes \in [Archives -> Nat]
    /\ entries \in [Archives -> SUBSET Paths]
    /\ edits \in Nat
    /\ stage \in Stages
    /\ found \in SUBSET Paths
    /\ unread \in SUBSET Archives
    /\ planned \in SUBSET Archives
    /\ manifest \in [Archives -> SUBSET Paths]
    /\ first \in [Paths -> Archives \cup {Nothing}]
    /\ todo \in SUBSET Archives
    /\ source \in Archives \cup {Nothing}
    /\ pin \in [bytes : Nat, entries : SUBSET Paths]
    /\ left \in SUBSET Paths
    /\ attempts \in [Archives -> Attempts]
    /\ merged \in [Archives -> SUBSET Paths]
    /\ removed \in SUBSET Archives
    /\ disturbed \in SUBSET Paths

Init ==
    /\ apply \in BOOLEAN /\ cancelRequested = FALSE
    /\ loose \in [Paths -> {0, 1}]
    /\ bytes = [a \in Archives |-> 2 + Rank[a]]
    /\ entries \in [Archives -> SUBSET Paths]
    /\ edits = 0 /\ stage = "walk"
    /\ found = {} /\ unread = {} /\ planned = {}
    /\ manifest = [a \in Archives |-> {}] /\ first = [p \in Paths |-> Nothing]
    /\ todo = {} /\ source = Nothing /\ pin = NoPin /\ left = {}
    /\ attempts = [a \in Archives |-> NoAttempt]
    /\ merged = [a \in Archives |-> {}] /\ removed = {} /\ disturbed = {}

At(s) == stage = s
Goto(s) == stage' = s

Highest(a, S) == a \in S /\ \A b \in S : Rank[b] <= Rank[a]

(* The Effective Asset Tree: at each game path its Loose Asset, or else    *)
(* the entry of the highest Archive that is in place.                      *)
Providers(p) == {a \in Archives : bytes[a] # 0 /\ p \in entries[a]}
Top(S) == IF \E a \in Archives : Highest(a, S) THEN CHOOSE a \in Archives : Highest(a, S)
          ELSE Nothing
Effective(p) ==
    IF loose[p] # 0 THEN loose[p]
    ELSE IF Top(Providers(p)) = Nothing THEN 0
    ELSE bytes[Top(Providers(p))]

-----------------------------------------------------------------------------
(* The Archive pass and the preflight, in both modes.                      *)

Reading == UNCHANGED <<apply, cancelRequested, disk, edits, attempt, attempts, history>>

Walk ==
    /\ At("walk")
    /\ \/ /\ found' = {p \in Paths : loose[p] # 0}
          /\ unread' = {a \in Archives : bytes[a] # 0}
          /\ Goto("preflight")
       \/ cancelRequested /\ Goto("halted") /\ UNCHANGED <<found, unread>>
    /\ Reading /\ UNCHANGED <<planned, manifest, first, todo>>

(* From high to low.  A game path is free, or a Loose Asset of the pass.   *)
ReadManifest ==
    /\ At("preflight") /\ ~cancelRequested
    /\ \E a \in Archives :
         /\ Highest(a, unread) /\ bytes[a] # 0
         /\ \A p \in entries[a] \ found : loose[p] = 0
         /\ unread' = unread \ {a} /\ planned' = planned \cup {a}
         /\ manifest' = [manifest EXCEPT ![a] = entries[a]]
         /\ first' = [p \in Paths |-> IF first[p] = Nothing /\ p \in entries[a]
                                      THEN a ELSE first[p]]
    /\ Reading /\ UNCHANGED <<stage, found, todo>>

(* Every plan is known; a Dry Run reports them, and stops when cancelled.  *)
FreezeWinners ==
    /\ At("preflight") /\ unread = {}
    /\ \/ apply /\ Goto("next")
       \/ ~apply /\ ~cancelRequested /\ Goto("planned")
       \/ ~apply /\ cancelRequested /\ Goto("halted")
    /\ todo' = planned
    /\ Reading /\ UNCHANGED plan

(* An invalid order, an unreadable Archive, an unsafe or occupied game     *)
(* path, a shortage; or a cancellation.  Nothing is extracted.             *)
StopPreflight ==
    /\ At("preflight") /\ Goto("halted")
    /\ Reading /\ UNCHANGED <<plan, todo>>

(* Mutant: an Archive of lower precedence is not shadowed.                 *)
Unshadowed(a) == manifest[a] \ found

(* merge_entries: what the Archive won.                                    *)
MergeEntries(a) == {p \in manifest[a] \ found : first[p] = a}

-----------------------------------------------------------------------------
(* One Archive's attempt, which no cancellation interrupts.                *)

NextArchive ==
    /\ At("next")
    /\ \/ cancelRequested /\ Goto("halted") /\ UNCHANGED <<source, todo>>
       \/ /\ ~cancelRequested
          /\ \E a \in Archives : Highest(a, todo) /\ source' = a /\ todo' = todo \ {a}
          /\ Goto("pin")
       \/ /\ ~cancelRequested /\ todo = {} /\ Goto("extracted") /\ UNCHANGED <<source, todo>>
    /\ UNCHANGED <<apply, cancelRequested, disk, edits, plan, pin, left, attempts, history>>

(* The verdict does not believe a claim about an unknown mutation.         *)
Conclude(failure, mutation, claim) ==
    LET safe == claim /\ mutation # "PartialOrUnknown" IN
    /\ attempts' = [attempts EXCEPT ![source] = [failure |-> failure, mutation |-> mutation,
                                                 safe |-> safe]]
    /\ IF safe THEN Goto("next") ELSE Goto("halted")
    /\ source' = Nothing /\ pin' = NoPin /\ left' = {}

FailExtraction == \E f \in {"ExtractionFailed", "InsufficientCapacity"} :
                    Conclude(f, "None", TRUE)

(* Nobody writes, renames or deletes the source until its pin gives way.   *)
PinSource ==
    /\ At("pin")
    /\ \/ /\ bytes[source] # 0
          /\ pin' = [bytes |-> bytes[source], entries |-> entries[source]]
          /\ Goto("stage") /\ UNCHANGED <<source, left, attempts>>
       \/ Conclude("ExtractionFailed", "None", TRUE)
    /\ UNCHANGED <<apply, cancelRequested, disk, edits, plan, todo, history>>

Pinned(a) == a = source /\ stage \in {"stage", "merge"}

(* Every entry is staged, shadowed ones too, before anything is published. *)
StageEntries ==
    /\ At("stage")
    /\ \/ /\ pin.entries = manifest[source]
          /\ left' = MergeEntries(source) /\ Goto("merge")
          /\ UNCHANGED <<source, pin, attempts>>
       \/ FailExtraction
    /\ UNCHANGED <<apply, cancelRequested, disk, edits, plan, todo, history>>

(* Mutant: an entry counts once its publication is complete.               *)
FailMergeOnceReleased ==
    Conclude("MergeFailed", IF merged[source] = {} THEN "None" ELSE "PartialOrUnknown",
             merged[source] = {})

(* A failure after the first publication leaves a half-merged tree.        *)
FailMerge ==
    Conclude("MergeFailed", IF merged'[source] = {} THEN "None" ELSE "PartialOrUnknown",
             merged'[source] = {})

(* Its publication replaces nothing, and may fail to release its staging.  *)
PublishEntry(p) ==
    /\ loose[p] = 0
    /\ loose' = [loose EXCEPT ![p] = pin.bytes]
    /\ merged' = [merged EXCEPT ![source] = @ \cup {p}]

MergeEntry ==
    /\ At("merge")
    /\ \/ \E p \in left : PublishEntry(p) /\ left' = left \ {p}
          /\ UNCHANGED <<stage, source, pin, attempts>>
       \/ (\E p \in left : PublishEntry(p)) /\ FailMerge
       \/ left # {} /\ UNCHANGED <<loose, merged>> /\ FailMerge
       \/ left = {} /\ Goto("cleanup") /\ UNCHANGED <<loose, merged, attempt, attempts>>
    /\ UNCHANGED <<apply, cancelRequested, bytes, entries, edits, plan, todo, removed,
                   disturbed>>

-----------------------------------------------------------------------------
(* The source, once its read pin gave way to a handle that may delete.     *)

Unchanged == bytes[source] = pin.bytes /\ entries[source] = pin.entries

TakeAway ==
    /\ bytes[source] # 0 /\ Unchanged
    /\ bytes' = [bytes EXCEPT ![source] = 0]
    /\ removed' = removed \cup {source}

CleanUpSource ==
    /\ At("cleanup")
    /\ \/ TakeAway /\ Conclude("none", "Committed", TRUE)
       \/ Goto("judge") /\ UNCHANGED <<bytes, removed, attempt, attempts>>
       \/ /\ TakeAway \/ UNCHANGED <<bytes, removed>>
          /\ Conclude("SourceCleanupFailed", "PartialOrUnknown", FALSE)
    /\ UNCHANGED <<apply, cancelRequested, loose, entries, edits, plan, todo, merged, disturbed>>

(* A failed cleanup goes on only when entries were committed and the same  *)
(* source is still readable: recovery material for what was extracted.     *)
JudgeCleanup ==
    /\ At("judge")
    /\ \/ /\ merged[source] # {} /\ bytes[source] # 0 /\ Unchanged
          /\ Conclude("SourceCleanupFailed", "Committed", TRUE)
       \/ Conclude("SourceCleanupFailed", "PartialOrUnknown", FALSE)
    /\ UNCHANGED <<apply, cancelRequested, disk, edits, plan, todo, history>>

-----------------------------------------------------------------------------
(* The user, and another program.                                          *)

RequestCancel ==
    /\ stage \notin Ended /\ ~cancelRequested /\ cancelRequested' = TRUE
    /\ UNCHANGED <<apply, disk, edits, stage, plan, todo, attempt, attempts, history>>

Edit ==
    /\ stage \notin Ended /\ edits < MaxEdits
    /\ edits' = edits + 1
    /\ UNCHANGED <<apply, cancelRequested, stage, plan, todo, attempt, attempts, merged, removed>>

(* Precedence at this game path is being decided, or was.                  *)
Decided(p) == At("preflight") \/ first[p] # Nothing

(* It creates, edits or deletes a Loose Asset.                             *)
ForeignLoose ==
    /\ Edit
    /\ \E p \in Paths, n \in {0, Fresh + edits} :
         /\ loose' = [loose EXCEPT ![p] = n]
         /\ disturbed' = IF n = 0 /\ Decided(p) THEN disturbed \cup {p} ELSE disturbed
    /\ UNCHANGED <<bytes, entries>>

(* It replaces, rewrites or deletes an Archive nobody holds.               *)
ForeignArchive ==
    /\ Edit
    /\ \E a \in Archives, n \in {0, Fresh + edits}, e \in SUBSET Paths :
         /\ ~Pinned(a)
         /\ n = 0 => e = {}
         /\ bytes' = [bytes EXCEPT ![a] = n]
         /\ entries' = [entries EXCEPT ![a] = e]
         /\ disturbed' = disturbed \cup
                {p \in Paths : Decided(p) /\ ((p \in e) # (bytes[a] # 0 /\ p \in entries[a]))}
    /\ UNCHANGED loose

Foreign == ForeignLoose \/ ForeignArchive

Extract ==
    \/ Walk \/ ReadManifest \/ FreezeWinners \/ StopPreflight \/ NextArchive \/ PinSource
    \/ StageEntries \/ MergeEntry \/ CleanUpSource \/ JudgeCleanup

Next == Extract \/ RequestCancel \/ Foreign

Spec == Init /\ [][Next]_vars

-----------------------------------------------------------------------------
(* Properties                                                              *)

(* Extraction changes where the Effective Asset Tree lies, and not what it *)
(* is: no step of it, whatever failed before, changes what a game path     *)
(* holds, unless another program undid what its precedence was decided on. *)
KeepsTheTree ==
    [][Foreign \/ \A p \in Paths \ disturbed : Effective(p)' = Effective(p)]_vars

(* Run Evidence tells the truth, and the run goes on only over Archives    *)
(* merged as a whole or not at all.                                        *)
MergeIsReported ==
    source = Nothing => \A a \in Archives :
        /\ attempts[a].mutation = "None" => merged[a] = {} /\ a \notin removed
        /\ attempts[a].mutation = "Committed" => merged[a] = MergeEntries(a)
        /\ ~attempts[a].safe => At("halted")

=============================================================================
