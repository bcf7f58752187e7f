--------------------------- MODULE AssetExecution ---------------------------
(***************************************************************************)
(* One attempt at one Routed Asset (execution.rs, asset_attempt.rs), with  *)
(* the publication of its output (artifacts.rs), while another program     *)
(* edits, replaces, renames and deletes files of the Mod Root between any  *)
(* two steps.  Every state is also what a crash would leave.               *)
(*                                                                         *)
(* Three kinds of attempt differ in control: a Texture conversion, which   *)
(* publishes beside its source and then removes the source; an in-place    *)
(* Texture or Mesh; and an Animation, staged before it is optimized.       *)
(*                                                                         *)
(* Abstractions.  Bytes are the file that brought them: an edit in place   *)
(* is a new file.  A Mesh's two operations are one.  The temporary's       *)
(* ownership is StagingOwnership; confinement and links are an error.      *)
(***************************************************************************)
EXTENDS Naturals, FiniteSets

CONSTANT MaxEdits       \* bound: what the other program does

ASSUME BoundAssumption == MaxEdits \in Nat

VARIABLES
    kind, mode,     \* the Routed Asset
    disk,           \* what each path names
    edits,          \* the other program's steps, which date every change
    stage,          \* the step to come
    pin,            \* the conversion's source (PinnedSource), 0 when there is none
    target,         \* the captured leaf (PublicationTarget)
    loaded,         \* the file the backend read, 0 when there was none
    handle,         \* the file opened for removal or quarantine
    result,         \* AssetExecutionResult
    (* History *)
    published,      \* the output reached its destination
    overwritten,    \* files the attempt's publication replaced
    deleted,        \* files the attempt deleted
    quarantined,    \* the file the attempt set aside, 0 when there is none
    late,           \* files put at the destination after the last check of it
    displaced,      \* files another program took from the source's path
    spoiled         \* the output was touched after the attempt's last look at it

input == <<kind, mode>>
facts == <<pin, target, loaded>>
effects == <<published, overwritten, deleted, quarantined>>
witness == <<late, displaced, spoiled>>
vars == <<input, disk, edits, stage, facts, handle, result, effects, witness>>

Paths == {"source", "output", "aside", "bad", "bad1"}
Entries == [file : Nat, changed : Nat]
Absent == [file |-> 0, changed |-> 0]
Made == 4           \* the file the attempt stages; other programs bring later ones

(* A conversion; a native Texture or a Mesh; an Animation.                 *)
Kinds == {"convert", "inPlace", "animation"}

Stages == {"begin", "pin", "capture", "load", "operate", "stage", "save", "publish",
           "rename", "release", "verify", "remove", "delete", "judge", "finish",
           "quarantine", "setAside", "done"}
Failures == {"none", "IdentityMismatch", "LoadFailed", "OperationFailed", "SaveFailed",
             "SourceRemovalFailed", "StagingFailed", "CommitFailed", "BackendException"}
Mutations == {"None", "Committed", "PartialOrUnknown"}

TypeOK ==
    /\ kind \in Kinds
    /\ mode \in {"Apply", "DryRun"}
    /\ disk \in [Paths -> Entries]
    /\ edits \in Nat
    /\ stage \in Stages
    /\ pin \in Nat
    /\ target \in Entries
    /\ loaded \in Nat
    /\ handle \in Nat
    /\ result \in [failure : Failures, mutation : Mutations, safe : BOOLEAN]
    /\ published \in BOOLEAN
    /\ overwritten \in SUBSET Nat
    /\ deleted \in SUBSET Nat
    /\ quarantined \in Nat
    /\ late \in SUBSET Nat
    /\ displaced \in SUBSET Nat
    /\ spoiled \in BOOLEAN

Initially(f) == {Absent, [file |-> f, changed |-> 0]}

Init ==
    /\ kind \in Kinds
    /\ mode \in {"Apply", "DryRun"}
    /\ \E s \in Initially(1), o \in Initially(2), b \in Initially(3) :
         disk = [p \in Paths |-> IF p = "source" THEN s
                                 ELSE IF p = "output" THEN o
                                 ELSE IF p = "bad" THEN b ELSE Absent]
    /\ edits = 0 /\ stage = "begin"
    /\ pin = 0 /\ target = Absent /\ loaded = 0 /\ handle = 0
    /\ result = [failure |-> "none", mutation |-> "None", safe |-> TRUE]
    /\ published = FALSE /\ overwritten = {} /\ deleted = {} /\ quarantined = 0
    /\ late = {} /\ displaced = {} /\ spoiled = FALSE

(* The destination of the output: beside the source, or the source.        *)
Out == IF kind = "convert" THEN "output" ELSE "source"

At(s) == stage = s
Goto(s) == stage' = s
Present(p) == disk[p].file # 0
SourceFile == disk["source"].file

Proceed(s) == Goto(s) /\ UNCHANGED result

(* An Attempt Outcome: unknown mutation is never safe.                     *)
Outcome(failure, mutation, safe) ==
    result' = [failure |-> failure, mutation |-> mutation,
               safe |-> safe /\ mutation # "PartialOrUnknown"]

Conclude(failure, mutation, safe) == Outcome(failure, mutation, safe) /\ Goto("finish")
Succeed(mutation) == Conclude("none", mutation, TRUE)

-----------------------------------------------------------------------------
(* Before the output is staged.                                            *)

(* A target, identity or operation set the executor does not know.         *)
RejectAsset ==
    /\ At("begin")
    /\ \E f \in {"IdentityMismatch", "OperationFailed"} : Conclude(f, "None", FALSE)
    /\ UNCHANGED <<input, disk, edits, facts, handle, effects, witness>>

Begin ==
    /\ At("begin")
    /\ Proceed(IF mode = "Apply" THEN IF kind = "convert" THEN "pin" ELSE "capture"
               ELSE IF kind = "animation" THEN "operate" ELSE "load")
    /\ UNCHANGED <<input, disk, edits, facts, handle, effects, witness>>

PinSource ==
    /\ At("pin")
    /\ \/ Present("source") /\ pin' = SourceFile /\ Proceed("capture")
       \/ Conclude("StagingFailed", "None", FALSE) /\ UNCHANGED pin
    /\ UNCHANGED <<input, disk, edits, target, loaded, handle, effects, witness>>

(* Only a failed path lookup leaves a staging failure safe.                *)
CaptureTarget ==
    /\ At("capture")
    /\ \/ /\ target' = disk[Out]
          /\ Proceed(IF kind = "animation" THEN "stage" ELSE "load")
       \/ \E lookup \in BOOLEAN : Conclude("StagingFailed", "None", lookup)
                                  /\ UNCHANGED target
    /\ UNCHANGED <<input, disk, edits, pin, loaded, handle, effects, witness>>

(* The backend reads the path, and need not make sense of what it finds.   *)
Load ==
    /\ At("load")
    /\ loaded' = SourceFile
    /\ \/ Present("source") /\ Proceed("operate")
       \/ Conclude("LoadFailed", "None", TRUE)
    /\ UNCHANGED <<input, disk, edits, pin, target, handle, effects, witness>>

(* The loaded Asset changes, or not, or the operation fails; Dry Run stops *)
(* here.                                                                   *)
Operate ==
    /\ At("operate") /\ kind # "animation"
    /\ \/ Conclude("OperationFailed", "None", TRUE)
       \/ Succeed("None")
       \/ mode = "Apply" /\ Proceed("stage")
    /\ UNCHANGED <<input, disk, edits, facts, handle, effects, witness>>

(* hkxcmd reads its input only now, and writes to the staged path.         *)
OptimizeAnimation ==
    /\ At("operate") /\ kind = "animation"
    /\ loaded' = SourceFile
    /\ \/ Conclude("OperationFailed", "None", TRUE)
       \/ Succeed("None")
       \/ mode = "Apply" /\ Present("source") /\ Proceed("save")
    /\ UNCHANGED <<input, disk, edits, pin, target, handle, effects, witness>>

(* Mutant: a leaf is recognized by its file ID alone.                      *)
SameFile == disk[Out].file = target.file

(* DestinationSnapshot: same file object, same change time, same bytes.    *)
TargetUnchanged == disk[Out] = target

Stage ==
    /\ At("stage")
    /\ \/ TargetUnchanged /\ Proceed(IF kind = "animation" THEN "operate" ELSE "save")
       \/ ~TargetUnchanged /\ Conclude("StagingFailed", "None", FALSE)
       \/ \E lookup \in BOOLEAN : Conclude("StagingFailed", "None", lookup)
    /\ UNCHANGED <<input, disk, edits, facts, handle, effects, witness>>

(* The staged file is written, and must be a usable regular file.          *)
Save ==
    /\ At("save")
    /\ Proceed("publish") \/ Conclude("SaveFailed", "None", TRUE)
    /\ UNCHANGED <<input, disk, edits, facts, handle, effects, witness>>

-----------------------------------------------------------------------------
(* publish.                                                                *)

(* Mutant: a publication that was not released reports no mutation.        *)
MutationOnlyOnceReleased(s) == "None"

(* PublicationResult::mutation.                                            *)
PublicationMutation(s) == IF s = "NotPublished" THEN "None" ELSE "Committed"

PublicationSafe(s) == s # "PublishedStillOwned"

FailPublication(s) ==
    Conclude("CommitFailed", PublicationMutation(s), PublicationSafe(s))

(* Ownership, confinement, the flush, and then the leaf.                   *)
CheckDestination ==
    /\ At("publish")
    /\ \/ TargetUnchanged /\ Proceed("rename")
       \/ FailPublication("NotPublished")
    /\ UNCHANGED <<input, disk, edits, facts, handle, effects, witness>>

(* The check's handle is closed; the rename replaces whatever is there.    *)
RenameStaged ==
    /\ At("rename")
    /\ \/ /\ disk' = [disk EXCEPT ![Out] = [file |-> Made, changed |-> edits]]
          /\ overwritten' = overwritten \cup ({disk[Out].file} \ {0})
          /\ published' = TRUE
          /\ spoiled' = FALSE
          /\ Proceed("release")
       \/ /\ FailPublication("NotPublished")
          /\ UNCHANGED <<disk, overwritten, published, spoiled>>
    /\ UNCHANGED <<input, edits, facts, handle, deleted, quarantined, late, displaced>>

Release ==
    /\ At("release")
    /\ \/ IF kind = "convert" THEN Proceed("verify") ELSE Succeed("Committed")
       \/ FailPublication("PublishedStillOwned")
    /\ UNCHANGED <<input, disk, edits, facts, handle, effects, witness>>

-----------------------------------------------------------------------------
(* The conversion's source.                                                *)

(* Mutant: removal opens whatever file is there.                           *)
AnySource == Present("source")

(* PinnedSource::unchanged_at_path compares file IDs; sharing protects the *)
(* bytes.                                                                  *)
PinUnchanged == SourceFile = pin

(* Mutant: only the source is verified.                                    *)
SourceUsable == SourceFile = pin

(* retained_usable: the output holds the saved bytes, and the source's     *)
(* path names the pinned file.                                             *)
RetainedUsable == disk["output"].file = Made /\ SourceFile = pin

VerifyConversion ==
    /\ At("verify")
    /\ \/ RetainedUsable /\ Proceed("remove") /\ spoiled' = FALSE
       \/ Conclude("SourceRemovalFailed", "Committed", FALSE) /\ UNCHANGED spoiled
    /\ UNCHANGED <<input, disk, edits, facts, handle, effects, late, displaced>>

(* The backend runs remove_verified, which opens and checks the pinned     *)
(* file; or it does not, or the check refuses.                             *)
RemoveVerified ==
    /\ At("remove")
    /\ \/ PinUnchanged /\ handle' = SourceFile /\ Proceed("delete")
       \/ Proceed("judge") /\ UNCHANGED handle
    /\ UNCHANGED <<input, disk, edits, facts, effects, witness>>

(* The disposition is set on the file, wherever it is by now; the backend  *)
(* may still report a failure.                                             *)
DeleteByHandle ==
    /\ At("delete")
    /\ \/ /\ disk' = [p \in Paths |-> IF disk[p].file = handle THEN Absent ELSE disk[p]]
          /\ deleted' = deleted \cup {handle}
          /\ Succeed("Committed") \/ Proceed("judge")
       \/ UNCHANGED <<disk, deleted>> /\ Proceed("judge")
    /\ UNCHANGED <<input, edits, facts, handle, published, overwritten, quarantined,
                   witness>>

(* Mutants: a failed removal is an unknown failure; the verdict.           *)
JudgeAsCleanup ==
    /\ At("judge")
    /\ Conclude("CleanupFailed", IF RetainedUsable THEN "Committed" ELSE "PartialOrUnknown",
                RetainedUsable)
    /\ UNCHANGED <<input, disk, edits, facts, handle, effects, witness>>

JudgeRemoval ==
    /\ At("judge")
    /\ Conclude("SourceRemovalFailed",
                IF RetainedUsable THEN "Committed" ELSE "PartialOrUnknown", RetainedUsable)
    /\ spoiled' = (spoiled /\ ~RetainedUsable)
    /\ UNCHANGED <<input, disk, edits, facts, handle, effects, late, displaced>>

-----------------------------------------------------------------------------
(* The end of the attempt.                                                 *)

(* attempt_finished, and then Quarantine where it applies.                 *)
FinishAttempt ==
    /\ At("finish")
    /\ Proceed(IF /\ mode = "Apply" /\ kind # "animation"
                  /\ result.failure = "LoadFailed"
               THEN "quarantine" ELSE "done")
    /\ UNCHANGED <<input, disk, edits, facts, handle, effects, witness>>

(* Mutant: an Asset that cannot be set aside is only logged.               *)
KeepsGoing == stage' = "done" /\ UNCHANGED result

AbandonQuarantine == stage' = "done" /\ result' = [result EXCEPT !.safe = FALSE]

(* Whatever the path names now is opened.                                  *)
OpenForQuarantine ==
    /\ At("quarantine")
    /\ \/ Present("source") /\ handle' = SourceFile /\ Proceed("setAside")
       \/ AbandonQuarantine /\ UNCHANGED handle
    /\ UNCHANGED <<input, disk, edits, facts, effects, witness>>

(* The first free .caobad name; no entry is replaced.                      *)
FreeName == IF Present("bad") THEN "bad1" ELSE "bad"

SetAside ==
    /\ At("setAside")
    /\ \/ /\ \E p \in Paths :
               /\ disk[p].file = handle /\ ~Present(FreeName)
               /\ disk' = [disk EXCEPT ![p] = Absent,
                                       ![FreeName] = [file |-> handle, changed |-> edits]]
          /\ quarantined' = handle
          /\ stage' = "done" /\ result' = [result EXCEPT !.mutation = "Committed"]
       \/ AbandonQuarantine /\ UNCHANGED <<disk, quarantined>>
    /\ UNCHANGED <<input, edits, facts, handle, published, overwritten, deleted, witness>>

(* Creating or calling the backend panics, or no backend can be created:   *)
(* nobody knows what it touched.                                           *)
Panic ==
    /\ stage \in {"begin", "load", "operate", "save", "remove", "judge", "finish"}
    /\ Outcome("BackendException", "PartialOrUnknown", FALSE) /\ Goto("done")
    /\ UNCHANGED <<input, disk, edits, facts, handle, effects, witness>>

-----------------------------------------------------------------------------
(* Another program.                                                        *)

(* What it puts at a path, and what that path's file was, go on record.    *)
Changes(p, new) ==
    /\ late' = IF At("rename") /\ p = Out THEN late \cup {new} ELSE late
    /\ displaced' = IF p = "source" THEN displaced \cup {SourceFile} ELSE displaced
    /\ spoiled' = (spoiled \/ p = Out)

Edit ==
    /\ ~At("done") /\ edits < MaxEdits
    /\ edits' = edits + 1
    /\ UNCHANGED <<input, stage, facts, handle, result, effects>>

(* It creates, edits or replaces a file.                                   *)
ForeignWrite(p) ==
    /\ Edit
    /\ disk' = [disk EXCEPT ![p] = [file |-> Made + edits', changed |-> edits']]
    /\ Changes(p, Made + edits')

ForeignDelete(p) ==
    /\ Edit /\ Present(p)
    /\ disk' = [disk EXCEPT ![p] = Absent]
    /\ Changes(p, 0)

(* It renames the source, or renames it back over whatever is there.       *)
ForeignMove ==
    /\ Edit
    /\ \E p, q \in {"source", "aside"} :
         /\ p # q /\ Present(p)
         /\ disk' = [disk EXCEPT ![p] = Absent,
                                 ![q] = [file |-> disk[p].file, changed |-> edits']]
         /\ Changes("source", IF q = "source" THEN disk[p].file ELSE 0)

Foreign == ForeignMove \/ \E p \in {"source", "output", "bad"} :
                            ForeignWrite(p) \/ ForeignDelete(p)

Attempt ==
    \/ RejectAsset \/ Begin \/ PinSource \/ CaptureTarget \/ Load \/ Operate
    \/ OptimizeAnimation \/ Stage \/ Save \/ CheckDestination \/ RenameStaged \/ Release \/ VerifyConversion
    \/ RemoveVerified \/ DeleteByHandle \/ JudgeRemoval \/ FinishAttempt
    \/ OpenForQuarantine \/ SetAside \/ Panic

Next == Attempt \/ Foreign

Spec == Init /\ [][Next]_vars

-----------------------------------------------------------------------------
(* Properties                                                              *)

(* "The saved bytes came from the leaf captured before loading, not a      *)
(* replacement or an in-place edit made while the backend ran": what a     *)
(* publication overwrites is what the backend read, or for a conversion    *)
(* what was captured, up to the last check of the leaf.                    *)
OverwritesWhatItLoaded ==
    \A f \in overwritten \ late :
        f = target.file /\ (kind # "convert" => f = loaded)

(* "Only that file object can be deleted once its replacement is           *)
(* published": the pinned one, the one that was converted unless another   *)
(* program put a file in its place while it was loaded.                    *)
RemovesOnlyWhatItConverted ==
    deleted # {} =>
        /\ deleted = {pin} /\ kind = "convert" /\ published
        /\ loaded = pin \/ {pin, loaded} \subseteq displaced

(* An Asset is its old or its new content: when its source is deleted, and *)
(* when the run may go on to pack the Mod Root, the output is in place     *)
(* unless another program took it since the attempt looked.                *)
OutputIsWhole ==
    deleted # {} \/ (At("done") /\ published /\ result.safe) =>
        disk[Out].file = Made \/ spoiled

(* The reported mutation is the real one: None only when nothing durable   *)
(* changed, Committed only when something did; an unknown one stops the    *)
(* run.                                                                    *)
Mutated == published \/ deleted # {} \/ quarantined # 0
MutationIsReported ==
    At("done") =>
        /\ result.mutation = "None" => ~Mutated
        /\ result.mutation = "Committed" => Mutated
        /\ result.mutation = "PartialOrUnknown" => ~result.safe

(* Quarantine: an Apply run goes on to Archive Finalization only if the    *)
(* file that failed to load was set aside, or is not the one there.        *)
FailedLoadIsNotPacked ==
    At("done") /\ result.safe /\ result.failure = "LoadFailed" /\ mode = "Apply" =>
        quarantined # 0 /\ (quarantined = loaded \/ loaded \in displaced \/ loaded = 0)

(* The comment on PinnedSource: "write sharing is denied, so the loaded    *)
(* bytes cannot change underneath it".                                     *)
LoadedBytesArePinned == \A f \in deleted : f = loaded

=============================================================================
