-------------------------- MODULE StagingOwnership --------------------------
(***************************************************************************)
(* The staging-ownership protocol of one Mod Root: staging.rs (producer)   *)
(* and staging/recovery.rs (recovery), as executed by several Optimization *)
(* Runs in different processes that share the Mod Root, any of which may   *)
(* crash between two filesystem operations.                                *)
(*                                                                         *)
(* One action is one filesystem operation, or one read-only pass that the  *)
(* held owner.lock and pins make atomic to other runs.                     *)
(*                                                                         *)
(* Abstractions.  A manifest record is its name: the D record is the run   *)
(* child, the S and F records are a set, because the removal order among   *)
(* files changes nothing and every order ends with the run child.  Parent  *)
(* pins, links and path confinement are left out.  Nonces are fresh: a run *)
(* never draws a name it already holds, and other programs do not guess a  *)
(* registered name.                                                        *)
(***************************************************************************)
EXTENDS Naturals, FiniteSets

CONSTANTS
    Runs,           \* Optimization Runs, each in its own process
    NoRun,          \* nobody holds the lock
    Legacy,         \* the crashed run that left staging before the model starts
    TopNames,       \* sibling names directly in the Mod Root
    DeepNames,      \* sibling names in a subfolder
    EntryNames,     \* names below the run child
    ForeignNames,   \* sibling names some other program may already occupy
    MaxAttempts     \* bound: files each run tries to stage

Names == TopNames \cup DeepNames \cup EntryNames

ASSUME RunAssumption ==
    NoRun \notin Runs /\ Legacy \notin Runs /\ NoRun # Legacy

ASSUME NameAssumption ==
    /\ Names # {}
    /\ TopNames \cap DeepNames = {}
    /\ (TopNames \cup DeepNames) \cap EntryNames = {}
    /\ ForeignNames \subseteq TopNames \cup DeepNames

ASSUME BoundAssumption == MaxAttempts \in [Runs -> Nat]

VARIABLES
    (* The disk *)
    area,           \* .cao-staging: "absent", "bare" (no owner.lock) or "locked"
    manifest,       \* ownership.manifest; version 0 when absent
    scratch,        \* ownership.manifest.next exists
    children,       \* run children present in the area
    disk,           \* what occupies each temporary name
    conflict,       \* ownership.conflict exists
    stray,          \* an unregistered entry lies in the run child
    (* The operating system *)
    holder,         \* the run whose process holds owner.lock open
    (* Volatile state of each run's StagingScope and Run Worker *)
    pc, op, cur, batch, scope, mem, unknown, dirty, attempts,
    (* History *)
    lost,           \* names whose foreign occupant a run deleted
    botched         \* collisions whose withdrawal was cut short

controls == <<area, manifest, scratch, children, conflict>>
work == <<scope, mem, unknown, dirty, attempts>>
history == <<lost, botched>>
vars == <<controls, disk, stray, holder, pc, op, cur, batch, work, history>>

NoManifest == [version |-> 0, child |-> NoRun, files |-> {}]

Manifests == [version : 0..3, child : Runs \cup {NoRun, Legacy},
              files : SUBSET Names]

Labels ==
    {"new", "scan", "claim", "verify", "discard", "delete",  \* recover
     "work",                                                 \* between operations
     "mkdir", "mklock", "area", "mkchild",                   \* prepare_area
     "scratch", "replace",                                   \* publish_manifest
     "create", "conflict",                                   \* create_registered_file
     "cleanup", "sweep", "drop", "done", "crashed"}          \* Safety Cleanup, exit

Operations == {"prepare", "stage", "bootstrap", "register", "withdraw", "release"}

TypeOK ==
    /\ area \in {"absent", "bare", "locked"}
    /\ manifest \in Manifests
    /\ scratch \in BOOLEAN
    /\ children \in SUBSET (Runs \cup {Legacy})
    /\ disk \in [Names -> {"absent", "staged", "foreign"}]
    /\ conflict \in BOOLEAN
    /\ stray \in BOOLEAN
    /\ holder \in Runs \cup {NoRun}
    /\ pc \in [Runs -> Labels]
    /\ op \in [Runs -> Operations]
    /\ cur \in [Runs -> Names]
    /\ batch \in [Runs -> SUBSET Names]
    /\ scope \in [Runs -> {"unknown", "claimed", "named", "ready"}]
    /\ mem \in [Runs -> SUBSET Names]
    /\ unknown \in [Runs -> SUBSET TopNames]
    /\ dirty \in [Runs -> BOOLEAN]
    /\ attempts \in [Runs -> Nat]
    /\ lost \in SUBSET Names
    /\ botched \in SUBSET Names

Staged == {n \in Names : disk[n] = "staged"}
Present(S) == {n \in S : disk[n] # "absent"}
Foreign == {n \in Names : disk[n] = "foreign"}

(* A Mod Root is clean, or holds what a crashed run (of this program or of *)
(* its C++ predecessor) left: a manifest that names every entry.  Only v3  *)
(* manifests have S records.                                               *)
CleanRoot ==
    /\ area = "absent"
    /\ manifest = NoManifest
    /\ scratch = FALSE
    /\ children = {}
    /\ disk = [n \in Names |-> "absent"]

AbandonedRoot ==
    /\ area = "locked"
    /\ \E v \in 1..3, files \in SUBSET Names, left \in SUBSET Names :
          /\ v < 3 => files \subseteq EntryNames
          /\ left \subseteq files
          /\ manifest = [version |-> v, child |-> Legacy, files |-> files]
          /\ disk = [n \in Names |-> IF n \in left THEN "staged" ELSE "absent"]
          /\ children \in SUBSET {Legacy}
          /\ left \cap EntryNames # {} => children = {Legacy}
          /\ scratch \in IF v = 1 THEN {FALSE} ELSE BOOLEAN

Init ==
    /\ CleanRoot \/ AbandonedRoot
    /\ conflict = FALSE /\ stray = FALSE /\ holder = NoRun
    /\ pc = [p \in Runs |-> "new"]
    /\ op = [p \in Runs |-> "prepare"]
    /\ cur = [p \in Runs |-> CHOOSE n \in Names : TRUE]  \* read only once staged
    /\ batch = [p \in Runs |-> {}]
    /\ scope = [p \in Runs |-> "unknown"]
    /\ mem = [p \in Runs |-> {}]
    /\ unknown = [p \in Runs |-> {}]
    /\ dirty = [p \in Runs |-> FALSE]
    /\ attempts = [p \in Runs |-> 0]
    /\ lost = {} /\ botched = {}

-----------------------------------------------------------------------------
(* Control flow of one Run Worker.                                         *)

At(p, label) == pc[p] = label
Goto(p, label) == pc' = [pc EXCEPT ![p] = label]

(* A failed recovery ends Preparing with a Run Failure, which goes straight*)
(* to Safety Cleanup; inside prepare_area it only fails the attempt.       *)
AfterRejection(p) == IF op[p] = "prepare" THEN "cleanup" ELSE "work"

(* Deleting whatever occupies a temporary name.                            *)
Erase(n) ==
    /\ disk' = [disk EXCEPT ![n] = "absent"]
    /\ lost' = IF disk[n] = "foreign" THEN lost \cup {n} ELSE lost

-----------------------------------------------------------------------------
(* recover: prove ownership of leftover staging, then delete it.           *)

Start(p) ==
    /\ At(p, "new")
    /\ Goto(p, "scan")
    /\ UNCHANGED <<controls, disk, stray, holder, op, cur, batch, work, history>>

(* Staging-like names directly in the Mod Root, read before the lock.      *)
ScanRoot(p) ==
    /\ At(p, "scan")
    /\ unknown' = [unknown EXCEPT ![p] = Present(TopNames)]
    /\ Goto(p, "claim")
    /\ UNCHANGED <<controls, disk, stray, holder, op, cur, batch,
                   scope, mem, dirty, attempts, history>>

AcceptCleanRoot(p) ==
    /\ At(p, "claim") /\ area = "absent" /\ unknown[p] = {}
    /\ Goto(p, IF op[p] = "prepare" THEN "work" ELSE "mkdir")
    /\ UNCHANGED <<controls, disk, stray, holder, op, cur, batch, work, history>>

(* Mutant: a refusal is retried instead of reported.                       *)
RetryRefusedStaging(p) ==
    /\ At(p, "claim")
    /\ \/ area = "absent" /\ unknown[p] # {}
       \/ area = "bare"
       \/ area = "locked" /\ holder # NoRun
    /\ Goto(p, "scan")
    /\ UNCHANGED <<controls, disk, stray, holder, op, cur, batch, work, history>>

(* Unknown names, a missing lock, or a lock another process (or this run's *)
(* own failed recovery) still holds.                                       *)
RefuseStaging(p) ==
    /\ At(p, "claim")
    /\ \/ area = "absent" /\ unknown[p] # {}
       \/ area = "bare"
       \/ area = "locked" /\ holder # NoRun
    /\ Goto(p, AfterRejection(p))
    /\ UNCHANGED <<controls, disk, stray, holder, op, cur, batch, work, history>>

ClaimExistingLock(p) ==
    /\ At(p, "claim") /\ area = "locked" /\ holder = NoRun
    /\ holder' = p
    /\ Goto(p, "verify")
    /\ UNCHANGED <<controls, disk, stray, op, cur, batch, work, history>>

(* read_manifest and validate_tree: the manifest parses, owns every        *)
(* staging-like root name seen, and every entry of the area is recorded.   *)
Verifiable(p) ==
    /\ manifest.version # 0
    /\ unknown[p] \subseteq manifest.files
    /\ scratch => manifest.version >= 2
    /\ children \subseteq {manifest.child}
    /\ Present(EntryNames) \subseteq manifest.files
    /\ ~conflict /\ ~stray

ValidateTree(p) ==
    /\ At(p, "verify") /\ Verifiable(p)
    /\ batch' = [batch EXCEPT ![p] = Present(manifest.files)]
    /\ Goto(p, "discard")
    /\ UNCHANGED <<controls, disk, stray, holder, op, cur, work, history>>

(* Anything unproven, or any read error, fails closed and frees the lock.  *)
RefuseTree(p) ==
    /\ At(p, "verify")
    /\ holder' = NoRun
    /\ Goto(p, AfterRejection(p))
    /\ UNCHANGED <<controls, disk, stray, op, cur, batch, work, history>>

DiscardScratch(p) ==
    /\ At(p, "discard")
    /\ scratch' = FALSE
    /\ Goto(p, "delete")
    /\ UNCHANGED <<area, manifest, children, conflict, disk, stray, holder,
                   op, cur, batch, work, history>>

DeleteLeftover(p, n) ==
    /\ At(p, "delete") /\ n \in batch[p]
    /\ Erase(n)
    /\ batch' = [batch EXCEPT ![p] = @ \ {n}]
    /\ UNCHANGED <<controls, stray, holder, pc, op, cur, work, botched>>

(* The D record comes first, so its removal is last; it never recurses.    *)
DeleteLeftoverChild(p) ==
    /\ At(p, "delete") /\ batch[p] = {} /\ ~stray
    /\ manifest.child \in children
    /\ children' = children \ {manifest.child}
    /\ UNCHANGED <<area, manifest, scratch, conflict, disk, stray, holder,
                   pc, op, cur, batch, work, history>>

(* Mutants: a failed removal is ignored; the run child is left behind; the *)
(* manifest is cleared with the entries it names.                          *)
FinishDespiteFailure(p) ==
    /\ At(p, "delete")
    /\ scope' = [scope EXCEPT ![p] = "claimed"]
    /\ Goto(p, IF op[p] = "prepare" THEN "work" ELSE "area")
    /\ UNCHANGED <<controls, disk, stray, holder, op, cur, batch,
                   mem, unknown, dirty, attempts, history>>

FinishKeepingChild(p) == batch[p] = {} /\ FinishDespiteFailure(p)

FinishClearingManifest(p) ==
    /\ At(p, "delete") /\ batch[p] = {} /\ manifest.child \notin children
    /\ manifest' = NoManifest
    /\ scope' = [scope EXCEPT ![p] = "claimed"]
    /\ Goto(p, IF op[p] = "prepare" THEN "work" ELSE "area")
    /\ UNCHANGED <<area, scratch, children, conflict, disk, stray, holder, op,
                   cur, batch, mem, unknown, dirty, attempts, history>>

FinishRecovery(p) ==
    /\ At(p, "delete") /\ batch[p] = {} /\ manifest.child \notin children
    /\ scope' = [scope EXCEPT ![p] = "claimed"]
    /\ Goto(p, IF op[p] = "prepare" THEN "work" ELSE "area")
    /\ UNCHANGED <<controls, disk, stray, holder, op, cur, batch,
                   mem, unknown, dirty, attempts, history>>

(* A removal fails: the lock stays in the scope, the area stays unknown.   *)
FailRecovery(p) ==
    /\ \/ At(p, "discard") /\ scratch
       \/ At(p, "delete") /\ (batch[p] # {} \/ manifest.child \in children)
    /\ batch' = [batch EXCEPT ![p] = {}]
    /\ Goto(p, AfterRejection(p))
    /\ UNCHANGED <<controls, disk, stray, holder, op, cur, work, history>>

(* Only Preparing passes a live token; before deletion began the lock is   *)
(* still a local of recover and is freed.                                  *)
CancelRecovery(p) ==
    /\ op[p] = "prepare" /\ pc[p] \in {"scan", "verify", "delete"}
    /\ holder' = IF At(p, "verify") THEN NoRun ELSE holder
    /\ batch' = [batch EXCEPT ![p] = {}]
    /\ Goto(p, "cleanup")
    /\ UNCHANGED <<controls, disk, stray, op, cur, work, history>>

-----------------------------------------------------------------------------
(* prepare_area and publish_manifest: claim the area, then name the child. *)

BeginStage(p, n) ==
    /\ At(p, "work") /\ attempts[p] < MaxAttempts[p]
    /\ n \notin mem[p]
    /\ cur' = [cur EXCEPT ![p] = n]
    /\ op' = [op EXCEPT ![p] = "stage"]
    /\ attempts' = [attempts EXCEPT ![p] = @ + 1]
    /\ Goto(p, IF scope[p] = "unknown" THEN "scan" ELSE "area")
    /\ UNCHANGED <<controls, disk, stray, holder, batch,
                   scope, mem, unknown, dirty, history>>

CreateStagingDirectory(p) ==
    /\ At(p, "mkdir") /\ area = "absent"
    /\ area' = "bare"
    /\ Goto(p, "mklock")
    /\ UNCHANGED <<manifest, scratch, children, conflict, disk, stray, holder,
                   op, cur, batch, work, history>>

CreateLock(p) ==
    /\ At(p, "mklock")
    /\ area' = "locked"
    /\ holder' = p
    /\ scope' = [scope EXCEPT ![p] = "claimed"]
    /\ Goto(p, "area")
    /\ UNCHANGED <<manifest, scratch, children, conflict, disk, stray,
                   op, cur, batch, mem, unknown, dirty, attempts, history>>

(* The directory appeared since the scan, or an operation failed.          *)
FailBootstrap(p) ==
    /\ pc[p] \in {"mkdir", "mklock", "mkchild"}
    /\ Goto(p, "work")
    /\ UNCHANGED <<controls, disk, stray, holder, op, cur, batch, work, history>>

NameChild(p) ==
    /\ At(p, "area") /\ scope[p] = "claimed"
    /\ scope' = [scope EXCEPT ![p] = "named"]
    /\ mem' = [mem EXCEPT ![p] = {}]
    /\ op' = [op EXCEPT ![p] = "bootstrap"]
    /\ batch' = [batch EXCEPT ![p] = {}]
    /\ Goto(p, "scratch")
    /\ UNCHANGED <<controls, disk, stray, holder, cur,
                   unknown, dirty, attempts, history>>

(* An earlier bootstrap of this run did not complete.                      *)
RefuseHalfArea(p) ==
    /\ At(p, "area") /\ scope[p] = "named"
    /\ Goto(p, "work")
    /\ UNCHANGED <<controls, disk, stray, holder, op, cur, batch, work, history>>

(* Mutant: the snapshot is published before the new name is added to it.   *)
RegisterLate(p) ==
    /\ At(p, "area") /\ scope[p] = "ready"
    /\ op' = [op EXCEPT ![p] = "register"]
    /\ batch' = [batch EXCEPT ![p] = mem[p]]
    /\ Goto(p, "scratch")
    /\ UNCHANGED <<controls, disk, stray, holder, cur, work, history>>

Register(p) ==
    /\ At(p, "area") /\ scope[p] = "ready"
    /\ op' = [op EXCEPT ![p] = "register"]
    /\ batch' = [batch EXCEPT ![p] = mem[p] \cup {cur[p]}]
    /\ Goto(p, "scratch")
    /\ UNCHANGED <<controls, disk, stray, holder, cur, work, history>>

WriteScratch(p) ==
    /\ At(p, "scratch") /\ ~scratch
    /\ scratch' = TRUE
    /\ Goto(p, "replace")
    /\ UNCHANGED <<area, manifest, children, conflict, disk, stray, holder,
                   op, cur, batch, work, history>>

(* Where each caller of publish_manifest goes on.  A failed release is     *)
(* PublishedStillOwned, which is unsafe and ends the run's work.           *)
AfterReplacement(o) ==
    IF o = "bootstrap" THEN "mkchild"
    ELSE IF o = "register" THEN "create" ELSE "work"

AfterFailedPublication(o) ==
    IF o = "withdraw" THEN "conflict"
    ELSE IF o = "release" THEN "cleanup" ELSE "work"

SnapshotOf(p) == [version |-> 3, child |-> p, files |-> batch[p]]

(* The scratch file replaces the manifest on the same volume; only then is *)
(* the in-memory registration list replaced.                               *)
ReplaceManifest(p) ==
    /\ At(p, "replace")
    /\ manifest' = SnapshotOf(p)
    /\ scratch' = FALSE
    /\ mem' = [mem EXCEPT ![p] = batch[p]]
    /\ Goto(p, AfterReplacement(op[p]))
    /\ UNCHANGED <<area, children, conflict, disk, stray, holder, op, cur, batch,
                   scope, unknown, dirty, attempts, history>>

(* Creating the scratch collides with a leftover, or it is left partial,   *)
(* or the replacement fails and leaves it complete.                        *)
FailPublish(p) ==
    /\ pc[p] \in {"scratch", "replace"}
    /\ scratch' \in IF scratch THEN {TRUE} ELSE BOOLEAN
    /\ Goto(p, AfterFailedPublication(op[p]))
    /\ UNCHANGED <<area, manifest, children, conflict, disk, stray, holder,
                   op, cur, batch, work, history>>

MakeChild(p) ==
    /\ At(p, "mkchild")
    /\ children' = children \cup {p}
    /\ scope' = [scope EXCEPT ![p] = "ready"]
    /\ Goto(p, "area")
    /\ UNCHANGED <<area, manifest, scratch, conflict, disk, stray, holder,
                   op, cur, batch, mem, unknown, dirty, attempts, history>>

-----------------------------------------------------------------------------
(* create_registered_file, publication and release_file.                   *)

CreateTemporary(p) ==
    /\ At(p, "create") /\ disk[cur[p]] = "absent"
    /\ disk' = [disk EXCEPT ![cur[p]] = "staged"]
    /\ Goto(p, "work")
    /\ UNCHANGED <<controls, stray, holder, op, cur, batch, work, history>>

(* A failure other than a collision keeps the registration.                *)
FailCreate(p) ==
    /\ At(p, "create") /\ disk[cur[p]] = "absent"
    /\ Goto(p, "work")
    /\ UNCHANGED <<controls, disk, stray, holder, op, cur, batch, work, history>>

(* Mutant: the registration is withdrawn in memory only.                   *)
CollideInMemory(p) ==
    /\ At(p, "create") /\ disk[cur[p]] # "absent"
    /\ mem' = [mem EXCEPT ![p] = @ \ {cur[p]}]
    /\ op' = [op EXCEPT ![p] = "withdraw"]
    /\ Goto(p, "work")
    /\ UNCHANGED <<controls, disk, stray, holder, cur, batch,
                   scope, unknown, dirty, attempts, history>>

(* CREATE_NEW found the name occupied: withdraw the registration.          *)
Collide(p) ==
    /\ At(p, "create") /\ disk[cur[p]] # "absent"
    /\ mem' = [mem EXCEPT ![p] = @ \ {cur[p]}]
    /\ batch' = [batch EXCEPT ![p] = mem[p] \ {cur[p]}]
    /\ op' = [op EXCEPT ![p] = "withdraw"]
    /\ Goto(p, "scratch")
    /\ UNCHANGED <<controls, disk, stray, holder, cur,
                   scope, unknown, dirty, attempts, history>>

WriteConflictControl(p) ==
    /\ At(p, "conflict")
    /\ conflict' = TRUE
    /\ Goto(p, "work")
    /\ UNCHANGED <<area, manifest, scratch, children, disk, stray, holder,
                   op, cur, batch, work, history>>

(* The control's failure is ignored.                                       *)
FailConflictControl(p) ==
    /\ At(p, "conflict") /\ ~conflict
    /\ botched' = botched \cup {cur[p]}
    /\ Goto(p, "work")
    /\ UNCHANGED <<controls, disk, stray, holder, op, cur, batch, work, lost>>

(* A receipt's native rename: the entry leaves its temporary name, then    *)
(* release_file publishes a snapshot without it.                           *)
MoveToDestination(p, n) ==
    /\ At(p, "work") /\ n \in mem[p] /\ disk[n] = "staged"
    /\ disk' = [disk EXCEPT ![n] = "absent"]
    /\ cur' = [cur EXCEPT ![p] = n]
    /\ op' = [op EXCEPT ![p] = "release"]
    /\ batch' = [batch EXCEPT ![p] = mem[p] \ {n}]
    /\ Goto(p, "scratch")
    /\ UNCHANGED <<controls, stray, holder, work, history>>

-----------------------------------------------------------------------------
(* Safety Cleanup and the end of the process.                              *)

EndWork(p) ==
    /\ At(p, "work")
    /\ Goto(p, "cleanup")
    /\ UNCHANGED <<controls, disk, stray, holder, op, cur, batch, work, history>>

BeginCleanup(p) ==
    /\ At(p, "cleanup")
    /\ batch' = [batch EXCEPT ![p] =
                    IF scope[p] \in {"named", "ready"} THEN mem[p] ELSE {}]
    /\ Goto(p, "sweep")
    /\ UNCHANGED <<controls, disk, stray, holder, op, cur, work, history>>

RemoveArtifact(p, n) ==
    /\ At(p, "sweep") /\ n \in batch[p]
    /\ Erase(n)
    /\ batch' = [batch EXCEPT ![p] = @ \ {n}]
    /\ UNCHANGED <<controls, stray, holder, pc, op, cur, work, botched>>

(* A failed removal is collected, and the pass goes on.                    *)
FailRemoval(p, n) ==
    /\ At(p, "sweep") /\ n \in batch[p] /\ disk[n] # "absent"
    /\ dirty' = [dirty EXCEPT ![p] = TRUE]
    /\ batch' = [batch EXCEPT ![p] = @ \ {n}]
    /\ UNCHANGED <<controls, disk, stray, holder, pc, op, cur,
                   scope, mem, unknown, attempts, history>>

OwnsChild(p) == scope[p] \in {"named", "ready"} /\ p \in children

RemoveRunChild(p) ==
    /\ At(p, "sweep") /\ batch[p] = {}
    /\ OwnsChild(p) => ~stray /\ Present(EntryNames) = {}
    /\ children' = IF OwnsChild(p) THEN children \ {p} ELSE children
    /\ Goto(p, "drop")
    /\ UNCHANGED <<area, manifest, scratch, conflict, disk, stray, holder,
                   op, cur, batch, work, history>>

FailRunChild(p) ==
    /\ At(p, "sweep") /\ batch[p] = {} /\ OwnsChild(p)
    /\ dirty' = [dirty EXCEPT ![p] = TRUE]
    /\ Goto(p, "drop")
    /\ UNCHANGED <<controls, disk, stray, holder, op, cur, batch,
                   scope, mem, unknown, attempts, history>>

Released(p) == IF holder = p THEN NoRun ELSE holder

(* Dropping the scope closes the lock and forgets the area.                *)
Forget(p) ==
    /\ holder' = Released(p)
    /\ scope' = [scope EXCEPT ![p] = "unknown"]
    /\ mem' = [mem EXCEPT ![p] = {}]
    /\ batch' = [batch EXCEPT ![p] = {}]
    /\ unknown' = [unknown EXCEPT ![p] = {}]

DropScope(p) ==
    /\ At(p, "drop")
    /\ Forget(p)
    /\ Goto(p, "done")
    /\ UNCHANGED <<controls, disk, stray, op, cur, dirty, attempts, history>>

(* A collision is exposed while the durable manifest names the occupant    *)
(* and its withdrawal has not been published.                              *)
Exposed(p) ==
    /\ \/ At(p, "create")
       \/ op[p] = "withdraw" /\ pc[p] \in {"scratch", "replace", "conflict"}
    /\ disk[cur[p]] = "foreign" /\ cur[p] \in manifest.files

(* The process dies; the operating system closes its handles.              *)
Crash(p) ==
    /\ pc[p] \notin {"new", "done", "crashed"}
    /\ Forget(p)
    /\ botched' = IF Exposed(p) THEN botched \cup {cur[p]} ELSE botched
    /\ Goto(p, "crashed")
    /\ UNCHANGED <<controls, disk, stray, op, cur, dirty, attempts, lost>>

-----------------------------------------------------------------------------
(* Other programs: one occupies a sibling name no run has registered, or   *)
(* leaves a file in a run child.                                           *)

ForeignAppears(n) ==
    /\ disk[n] = "absent" /\ n \notin manifest.files
    /\ \A p \in Runs : n \notin mem[p] \cup batch[p]
    /\ disk' = [disk EXCEPT ![n] = "foreign"]
    /\ UNCHANGED <<controls, stray, holder, pc, op, cur, batch, work, history>>

StrayAppears ==
    /\ children # {} /\ ForeignNames # {}
    /\ stray' = TRUE
    /\ UNCHANGED <<controls, disk, holder, pc, op, cur, batch, work, history>>

-----------------------------------------------------------------------------
Recovery(p) ==
    \/ Start(p) \/ ScanRoot(p) \/ AcceptCleanRoot(p) \/ RefuseStaging(p)
    \/ ClaimExistingLock(p) \/ ValidateTree(p) \/ RefuseTree(p)
    \/ DiscardScratch(p) \/ DeleteLeftoverChild(p) \/ FinishRecovery(p)
    \/ FailRecovery(p) \/ CancelRecovery(p)
    \/ \E n \in Names : DeleteLeftover(p, n)

Production(p) ==
    \/ CreateStagingDirectory(p) \/ CreateLock(p) \/ FailBootstrap(p)
    \/ NameChild(p) \/ RefuseHalfArea(p) \/ Register(p)
    \/ WriteScratch(p) \/ ReplaceManifest(p) \/ FailPublish(p) \/ MakeChild(p)
    \/ CreateTemporary(p) \/ FailCreate(p) \/ Collide(p)
    \/ WriteConflictControl(p) \/ FailConflictControl(p)
    \/ \E n \in Names : BeginStage(p, n) \/ MoveToDestination(p, n)

Exit(p) ==
    \/ EndWork(p) \/ BeginCleanup(p) \/ RemoveRunChild(p) \/ FailRunChild(p)
    \/ DropScope(p)
    \/ \E n \in Names : RemoveArtifact(p, n) \/ FailRemoval(p, n)

Step(p) == Recovery(p) \/ Production(p) \/ Exit(p)

Next ==
    \/ \E p \in Runs : Step(p) \/ Crash(p)
    \/ \E n \in ForeignNames : ForeignAppears(n)
    \/ StrayAppears

Spec == Init /\ [][Next]_vars

(* The operating system keeps running a Run Worker that has not died.      *)
FairSpec == Spec /\ \A p \in Runs : WF_vars(Step(p))

-----------------------------------------------------------------------------
(* Properties                                                              *)

(* "A crash at any point leaves every temporary path named in the manifest *)
(* that owns it" (staging.rs, module comment): no order of registrations,  *)
(* creations, withdrawals, recoveries and crashes leaves an orphan.        *)
EveryTemporaryIsNamed == Staged \subseteq manifest.files

(* A run that believes it owns the area, or is between two operations that *)
(* write control files, holds owner.lock: two processes never interleave   *)
(* their snapshots, whichever of bootstrap and recovery each came through. *)
Writing(p) ==
    \/ scope[p] # "unknown"
    \/ pc[p] \in {"verify", "discard", "delete", "area", "mkchild",
                   "scratch", "replace", "create", "conflict"}

OwnerHoldsLock == \A p \in Runs : Writing(p) => holder = p

(* Once a run owns the area, whatever is staged on disk is its own: none   *)
(* of a crashed run's files survives a recovery that was reported as done, *)
(* so none can be mistaken for output or forgotten by Safety Cleanup.      *)
OwnerKnowsEveryTemporary ==
    \A p \in Runs : scope[p] # "unknown" => Staged \subseteq mem[p]

(* Safety Cleanup that reports no failure leaves no temporary file behind, *)
(* even when registration, creation, withdrawal or release failed before.  *)
CleanExit ==
    \A p \in Runs :
        pc[p] = "drop" /\ scope[p] # "unknown" /\ ~dirty[p] => Staged = {}

(* Staged files of a dead run are never stuck: unless another program left *)
(* unregistered material, recovery can prove them (recover, validate_tree).*)
AbandonedStagingIsProvable ==
    holder = NoRun /\ Staged # {} /\ ~conflict /\ ~stray =>
        /\ area = "locked" /\ manifest.version # 0
        /\ scratch => manifest.version >= 2
        /\ children \subseteq {manifest.child}
        /\ Present(EntryNames) \subseteq manifest.files

(* An entry CAO did not create is deleted only when a run registered its   *)
(* very name and the withdrawal was cut short by a crash, or failed        *)
(* together with the conflict control (create_registered_file).            *)
ForeignEntriesSurvive == lost \subseteq botched

(* ownership.conflict makes recovery "preserve the whole tree".            *)
ConflictPreservesForeign == [][conflict => lost' = lost]_vars

(* Only a run that holds the lock and has bootstrapped rewrites the        *)
(* manifest; recovery leaves it byte for byte, so an interrupted recovery  *)
(* can be repeated.                                                        *)
RecoveryKeepsManifest ==
    [][manifest' # manifest =>
         \E p \in Runs : holder = p /\ scope[p] \in {"named", "ready"}]_vars

(* A run that starts comes to an end and frees the lock, however its       *)
(* staging operations fail.                                                *)
RunEnds ==
    \A p \in Runs : pc[p] = "scan" ~> pc[p] \in {"done", "crashed"} /\ holder # p

(* The inductive strengthening of the safety properties above.             *)

BootstrapInv ==
    /\ holder # NoRun => area = "locked"
    /\ area # "locked" => Staged = {}
    /\ \A p \in Runs : At(p, "mklock") => area = "bare"
    /\ \A p, q \in Runs : At(p, "mklock") /\ At(q, "mklock") => p = q

ScopeInv ==
    \A p \in Runs :
        /\ pc[p] \in {"new", "scan", "claim", "verify", "discard", "delete",
                      "mkdir", "mklock"} => scope[p] = "unknown"
        /\ At(p, "area") => scope[p] # "unknown"
        /\ pc[p] \in {"scratch", "replace", "mkchild", "create", "conflict"}
             => scope[p] \in {"named", "ready"}
        /\ scope[p] # "ready" => mem[p] = {}
        /\ At(p, "create") => op[p] = "register"
        /\ At(p, "conflict") => op[p] = "withdraw"

(* The run is on its way to creating cur under a name it does not hold.    *)
Approaching(p) ==
    \/ pc[p] \in {"area", "mkchild", "create"}
    \/ pc[p] \in {"scratch", "replace"} /\ op[p] \in {"bootstrap", "register"}

(* Deletions and snapshots work from a list that covers what is staged.    *)
BatchInv ==
    \A p \in Runs :
        /\ pc[p] \in {"discard", "delete", "scratch", "replace"} => Staged \subseteq batch[p]
        /\ At(p, "sweep") /\ scope[p] # "unknown" /\ ~dirty[p] => Staged \subseteq batch[p]
        /\ pc[p] \in {"scratch", "replace"} /\ op[p] = "register" => cur[p] \in batch[p]
        /\ Approaching(p) => disk[cur[p]] # "staged"
        /\ At(p, "create") => cur[p] \in manifest.files /\ cur[p] \in mem[p]

(* A foreign occupant is on a list only while its collision is unresolved. *)
ForeignInv ==
    /\ \A n \in Foreign \cap manifest.files :
          n \in botched \/ conflict \/ (\E p \in Runs : Exposed(p) /\ cur[p] = n)
    /\ \A p \in Runs :
          /\ \A n \in Foreign \cap mem[p] : At(p, "create") /\ n = cur[p]
          /\ pc[p] \in {"scratch", "replace"} =>
               \A n \in Foreign \cap batch[p] : op[p] = "register" /\ n = cur[p]
          /\ pc[p] \in {"discard", "delete"} =>
               Foreign \cap batch[p] \subseteq botched /\ ~conflict
          /\ At(p, "sweep") => Foreign \cap batch[p] = {}

(* Which manifest, run child and scratch can coexist with staged files.    *)
LineageInv ==
    /\ manifest.version = 0 => manifest.files = {}
    /\ children \subseteq {manifest.child}
    /\ scratch /\ manifest.version < 2 => Staged = {}
    /\ Foreign \subseteq ForeignNames
    /\ area # "locked" => children = {}
    /\ \A p \in Runs :
          /\ scope[p] \in {"claimed", "named"} => children = {}
          /\ scope[p] = "ready" \/ At(p, "mkchild")
               => manifest.version = 3 /\ manifest.child = p
          /\ pc[p] \in {"mkchild", "scratch", "replace"} /\ op[p] = "bootstrap"
               => scope[p] = "named"
          /\ pc[p] \in {"create", "conflict"} => scope[p] = "ready"
          /\ pc[p] \in {"scratch", "replace"} =>
               IF op[p] = "bootstrap" THEN batch[p] = {} ELSE scope[p] = "ready"
          /\ At(p, "mkchild") => op[p] = "bootstrap"

OwnershipInv ==
    /\ EveryTemporaryIsNamed /\ OwnerHoldsLock /\ OwnerKnowsEveryTemporary
    /\ CleanExit /\ ForeignEntriesSurvive
    /\ BootstrapInv /\ ScopeInv /\ BatchInv /\ ForeignInv /\ LineageInv

(* The protocol keeps the promise of TemporaryOwnership.                   *)
Promise == INSTANCE TemporaryOwnership
             WITH claimed <- manifest.files, present <- Staged
KeepsPromise == Promise!Spec

=============================================================================
