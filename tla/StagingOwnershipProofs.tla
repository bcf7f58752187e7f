----------------------- MODULE StagingOwnershipProofs -----------------------
(***************************************************************************)
(* TLAPS proofs about StagingOwnership, for any number of runs and names.  *)
(*                                                                         *)
(* Everything rests on OwnershipInv, the inductive strengthening of the    *)
(* module's safety properties: each later theorem projects it or combines  *)
(* it with one step.  Liveness (RunEnds) is left to TLC.                   *)
(***************************************************************************)
EXTENDS StagingOwnership, TLAPS

USE DEF At, Goto, Erase, Forget, Released, SnapshotOf, controls, work, history

(* Every variable keeps its type in every reachable state.                 *)
THEOREM TypeCorrect == Spec => []TypeOK
<1> USE RunAssumption, NameAssumption, BoundAssumption DEF TypeOK, Manifests,
      Labels, Operations
<1>0. (CHOOSE n \in Names : TRUE) \in Names
  BY Zenon
<1>1. Init => TypeOK
  <2> SUFFICES ASSUME Init PROVE TypeOK
    OBVIOUS
  <2>1. cur \in [Runs -> Names]
    BY <1>0 DEF Init
  <2>2. CASE CleanRoot
    <3>1. manifest \in Manifests
      BY <2>2 DEF CleanRoot, NoManifest
    <3> QED
      BY <2>1, <2>2, <3>1 DEF Init, CleanRoot
  <2>3. CASE AbandonedRoot
    <3>1. manifest \in Manifests
      BY <2>3 DEF AbandonedRoot
    <3> QED
      BY <2>1, <2>3, <3>1 DEF Init, AbandonedRoot
  <2> QED
    BY <2>2, <2>3 DEF Init
<1>2. TypeOK /\ [Next]_vars => TypeOK'
  <2> SUFFICES ASSUME TypeOK, [Next]_vars PROVE TypeOK'
    OBVIOUS
  <2>1. ASSUME NEW p \in Runs, Start(p) PROVE TypeOK'
    BY <2>1 DEF Start
  <2>2. ASSUME NEW p \in Runs, ScanRoot(p) PROVE TypeOK'
    BY <2>2 DEF ScanRoot, Present
  <2>3. ASSUME NEW p \in Runs, AcceptCleanRoot(p) PROVE TypeOK'
    BY <2>3 DEF AcceptCleanRoot
  <2>4. ASSUME NEW p \in Runs, RefuseStaging(p) PROVE TypeOK'
    BY <2>4 DEF RefuseStaging, AfterRejection
  <2>5. ASSUME NEW p \in Runs, ClaimExistingLock(p) PROVE TypeOK'
    BY <2>5 DEF ClaimExistingLock
  <2>6. ASSUME NEW p \in Runs, ValidateTree(p) PROVE TypeOK'
    BY <2>6 DEF ValidateTree, Present
  <2>7. ASSUME NEW p \in Runs, RefuseTree(p) PROVE TypeOK'
    BY <2>7 DEF RefuseTree, AfterRejection
  <2>8. ASSUME NEW p \in Runs, DiscardScratch(p) PROVE TypeOK'
    BY <2>8 DEF DiscardScratch
  <2>9. ASSUME NEW p \in Runs, DeleteLeftoverChild(p) PROVE TypeOK'
    BY <2>9 DEF DeleteLeftoverChild
  <2>10. ASSUME NEW p \in Runs, FinishRecovery(p) PROVE TypeOK'
    BY <2>10 DEF FinishRecovery
  <2>11. ASSUME NEW p \in Runs, FailRecovery(p) PROVE TypeOK'
    BY <2>11 DEF FailRecovery, AfterRejection
  <2>12. ASSUME NEW p \in Runs, CancelRecovery(p) PROVE TypeOK'
    BY <2>12 DEF CancelRecovery
  <2>13. ASSUME NEW p \in Runs, NEW n \in Names, DeleteLeftover(p, n) PROVE TypeOK'
    BY <2>13 DEF DeleteLeftover
  <2>14. ASSUME NEW p \in Runs, CreateStagingDirectory(p) PROVE TypeOK'
    BY <2>14 DEF CreateStagingDirectory
  <2>15. ASSUME NEW p \in Runs, CreateLock(p) PROVE TypeOK'
    BY <2>15 DEF CreateLock
  <2>16. ASSUME NEW p \in Runs, FailBootstrap(p) PROVE TypeOK'
    BY <2>16 DEF FailBootstrap
  <2>17. ASSUME NEW p \in Runs, NameChild(p) PROVE TypeOK'
    BY <2>17 DEF NameChild
  <2>18. ASSUME NEW p \in Runs, RefuseHalfArea(p) PROVE TypeOK'
    BY <2>18 DEF RefuseHalfArea
  <2>19. ASSUME NEW p \in Runs, Register(p) PROVE TypeOK'
    BY <2>19 DEF Register
  <2>20. ASSUME NEW p \in Runs, WriteScratch(p) PROVE TypeOK'
    BY <2>20 DEF WriteScratch
  <2>21. ASSUME NEW p \in Runs, ReplaceManifest(p) PROVE TypeOK'
    <3>1. manifest' \in Manifests
      BY <2>21 DEF ReplaceManifest
    <3> QED
      BY <2>21, <3>1 DEF ReplaceManifest, AfterReplacement
  <2>22. ASSUME NEW p \in Runs, FailPublish(p) PROVE TypeOK'
    BY <2>22 DEF FailPublish, AfterFailedPublication
  <2>23. ASSUME NEW p \in Runs, MakeChild(p) PROVE TypeOK'
    BY <2>23 DEF MakeChild
  <2>24. ASSUME NEW p \in Runs, CreateTemporary(p) PROVE TypeOK'
    BY <2>24 DEF CreateTemporary
  <2>25. ASSUME NEW p \in Runs, FailCreate(p) PROVE TypeOK'
    BY <2>25 DEF FailCreate
  <2>26. ASSUME NEW p \in Runs, Collide(p) PROVE TypeOK'
    BY <2>26 DEF Collide
  <2>27. ASSUME NEW p \in Runs, WriteConflictControl(p) PROVE TypeOK'
    BY <2>27 DEF WriteConflictControl
  <2>28. ASSUME NEW p \in Runs, FailConflictControl(p) PROVE TypeOK'
    BY <2>28 DEF FailConflictControl
  <2>29. ASSUME NEW p \in Runs, NEW n \in Names, BeginStage(p, n) PROVE TypeOK'
    BY <2>29 DEF BeginStage
  <2>30. ASSUME NEW p \in Runs, NEW n \in Names, MoveToDestination(p, n) PROVE TypeOK'
    BY <2>30 DEF MoveToDestination
  <2>31. ASSUME NEW p \in Runs, EndWork(p) PROVE TypeOK'
    BY <2>31 DEF EndWork
  <2>32. ASSUME NEW p \in Runs, BeginCleanup(p) PROVE TypeOK'
    BY <2>32 DEF BeginCleanup
  <2>33. ASSUME NEW p \in Runs, RemoveRunChild(p) PROVE TypeOK'
    BY <2>33 DEF RemoveRunChild
  <2>34. ASSUME NEW p \in Runs, FailRunChild(p) PROVE TypeOK'
    BY <2>34 DEF FailRunChild
  <2>35. ASSUME NEW p \in Runs, DropScope(p) PROVE TypeOK'
    BY <2>35 DEF DropScope
  <2>36. ASSUME NEW p \in Runs, NEW n \in Names, RemoveArtifact(p, n) PROVE TypeOK'
    BY <2>36 DEF RemoveArtifact
  <2>37. ASSUME NEW p \in Runs, NEW n \in Names, FailRemoval(p, n) PROVE TypeOK'
    BY <2>37 DEF FailRemoval
  <2>38. ASSUME NEW p \in Runs, Crash(p) PROVE TypeOK'
    BY <2>38 DEF Crash
  <2>39. ASSUME NEW n \in ForeignNames, ForeignAppears(n) PROVE TypeOK'
    BY <2>39 DEF ForeignAppears
  <2>40. CASE StrayAppears
    BY <2>40 DEF StrayAppears
  <2>41. CASE UNCHANGED vars
    BY <2>41 DEF vars
  <2> QED
    BY <2>1, <2>2, <2>3, <2>4, <2>5, <2>6, <2>7, <2>8, <2>9, <2>10, <2>11,
       <2>12, <2>13, <2>14, <2>15, <2>16, <2>17, <2>18, <2>19, <2>20, <2>21,
       <2>22, <2>23, <2>24, <2>25, <2>26, <2>27, <2>28, <2>29, <2>30, <2>31,
       <2>32, <2>33, <2>34, <2>35, <2>36, <2>37, <2>38, <2>39, <2>40, <2>41
       DEF Next, Step, Recovery, Production, Exit
<1> QED BY <1>1, <1>2, PTL DEF Spec

(* OwnershipInv holds in every reachable state: no action of any run, no   *)
(* crash and no other program disturbs it.  BatchInv ties each deletion or *)
(* snapshot list to what is on disk, LineageInv the manifest to the run    *)
(* child and the scratch file, ForeignInv the occupants of registered      *)
(* names to their unresolved collisions.                                   *)
THEOREM OwnershipInvariant == Spec => []OwnershipInv
<1> USE RunAssumption, NameAssumption DEF TypeOK, Manifests, Labels, Operations,
      Names
<1>1. Init => OwnershipInv
  <2> SUFFICES ASSUME Init PROVE OwnershipInv
    OBVIOUS
  <2>1. /\ Staged \subseteq manifest.files /\ Foreign = {}
        /\ area # "locked" => Staged = {} /\ children = {}
        /\ manifest.version = 0 => manifest.files = {}
        /\ children \subseteq {manifest.child}
        /\ scratch /\ manifest.version < 2 => Staged = {}
    <3>1. CASE CleanRoot
      BY <3>1 DEF CleanRoot, NoManifest, Staged, Foreign
    <3>2. CASE AbandonedRoot
      <4>1. PICK v \in 1..3, files \in SUBSET Names, left \in SUBSET Names :
              /\ left \subseteq files
              /\ manifest = [version |-> v, child |-> Legacy, files |-> files]
              /\ disk = [n \in Names |-> IF n \in left THEN "staged" ELSE "absent"]
              /\ children \in SUBSET {Legacy}
              /\ scratch \in IF v = 1 THEN {FALSE} ELSE BOOLEAN
        BY <3>2 DEF AbandonedRoot
      <4>2. area = "locked"
        BY <3>2 DEF AbandonedRoot
      <4>3. Staged = left /\ Foreign = {}
        BY <4>1 DEF Staged, Foreign
      <4>4. manifest.version = v /\ manifest.files = files /\ manifest.child = Legacy
        BY <4>1
      <4>5. scratch => v >= 2
        <5>1. CASE v = 1
          <6>1. scratch = FALSE
            BY <5>1, <4>1, Zenon
          <6> QED
            BY <6>1
        <5>2. CASE v # 1
          BY <5>2, <4>1
        <5> QED
          BY <5>1, <5>2
      <4> QED
        BY <4>1, <4>2, <4>3, <4>4, <4>5
    <3> QED
      BY <3>1, <3>2 DEF Init
  <2> QED
    BY <2>1 DEF Init, OwnershipInv, EveryTemporaryIsNamed, OwnerHoldsLock,
       OwnerKnowsEveryTemporary, CleanExit, ForeignEntriesSurvive,
       BootstrapInv, ScopeInv, BatchInv, ForeignInv, LineageInv, Writing,
       Approaching, Exposed, Staged, Foreign
<1>2. TypeOK /\ OwnershipInv /\ [Next]_vars => OwnershipInv'
  <2> SUFFICES ASSUME TypeOK, OwnershipInv, [Next]_vars PROVE OwnershipInv'
    OBVIOUS
  <2> USE DEF OwnershipInv, EveryTemporaryIsNamed, OwnerHoldsLock,
        OwnerKnowsEveryTemporary, CleanExit, ForeignEntriesSurvive,
        BootstrapInv, ScopeInv, BatchInv, ForeignInv, LineageInv, Writing,
        Approaching, Exposed, Staged, Foreign
  <2>1. ASSUME NEW p \in Runs, Start(p) PROVE OwnershipInv'
    BY <2>1 DEF Start
  <2>2. ASSUME NEW p \in Runs, ScanRoot(p) PROVE OwnershipInv'
    BY <2>2 DEF ScanRoot
  <2>3. ASSUME NEW p \in Runs, AcceptCleanRoot(p) PROVE OwnershipInv'
    BY <2>3 DEF AcceptCleanRoot
  <2>4. ASSUME NEW p \in Runs, RefuseStaging(p) PROVE OwnershipInv'
    BY <2>4 DEF RefuseStaging, AfterRejection
  <2>5. ASSUME NEW p \in Runs, ClaimExistingLock(p) PROVE OwnershipInv'
    BY <2>5 DEF ClaimExistingLock
  <2>6. ASSUME NEW p \in Runs, ValidateTree(p) PROVE OwnershipInv'
    BY <2>6 DEF ValidateTree, Present, Verifiable
  <2>7. ASSUME NEW p \in Runs, RefuseTree(p) PROVE OwnershipInv'
    BY <2>7 DEF RefuseTree, AfterRejection
  <2>8. ASSUME NEW p \in Runs, DiscardScratch(p) PROVE OwnershipInv'
    BY <2>8 DEF DiscardScratch
  <2>9. ASSUME NEW p \in Runs, DeleteLeftoverChild(p) PROVE OwnershipInv'
    BY <2>9 DEF DeleteLeftoverChild
  <2>10. ASSUME NEW p \in Runs, FinishRecovery(p) PROVE OwnershipInv'
    BY <2>10 DEF FinishRecovery
  <2>11. ASSUME NEW p \in Runs, FailRecovery(p) PROVE OwnershipInv'
    BY <2>11 DEF FailRecovery, AfterRejection
  <2>12. ASSUME NEW p \in Runs, CancelRecovery(p) PROVE OwnershipInv'
    BY <2>12 DEF CancelRecovery
  <2>13. ASSUME NEW p \in Runs, NEW n \in Names, DeleteLeftover(p, n) PROVE OwnershipInv'
    BY <2>13 DEF DeleteLeftover
  <2>14. ASSUME NEW p \in Runs, CreateStagingDirectory(p) PROVE OwnershipInv'
    BY <2>14 DEF CreateStagingDirectory
  <2>15. ASSUME NEW p \in Runs, CreateLock(p) PROVE OwnershipInv'
    BY <2>15 DEF CreateLock
  <2>16. ASSUME NEW p \in Runs, FailBootstrap(p) PROVE OwnershipInv'
    BY <2>16 DEF FailBootstrap
  <2>17. ASSUME NEW p \in Runs, NameChild(p) PROVE OwnershipInv'
    BY <2>17 DEF NameChild
  <2>18. ASSUME NEW p \in Runs, RefuseHalfArea(p) PROVE OwnershipInv'
    BY <2>18 DEF RefuseHalfArea
  <2>19. ASSUME NEW p \in Runs, Register(p) PROVE OwnershipInv'
    BY <2>19 DEF Register
  <2>20. ASSUME NEW p \in Runs, WriteScratch(p) PROVE OwnershipInv'
    BY <2>20 DEF WriteScratch
  <2>21. ASSUME NEW p \in Runs, ReplaceManifest(p) PROVE OwnershipInv'
    BY <2>21 DEF ReplaceManifest, AfterReplacement
  <2>22. ASSUME NEW p \in Runs, FailPublish(p) PROVE OwnershipInv'
    BY <2>22 DEF FailPublish, AfterFailedPublication
  <2>23. ASSUME NEW p \in Runs, MakeChild(p) PROVE OwnershipInv'
    BY <2>23 DEF MakeChild
  <2>24. ASSUME NEW p \in Runs, CreateTemporary(p) PROVE OwnershipInv'
    BY <2>24 DEF CreateTemporary
  <2>25. ASSUME NEW p \in Runs, FailCreate(p) PROVE OwnershipInv'
    BY <2>25 DEF FailCreate
  <2>26. ASSUME NEW p \in Runs, Collide(p) PROVE OwnershipInv'
    BY <2>26 DEF Collide
  <2>27. ASSUME NEW p \in Runs, WriteConflictControl(p) PROVE OwnershipInv'
    BY <2>27 DEF WriteConflictControl
  <2>28. ASSUME NEW p \in Runs, FailConflictControl(p) PROVE OwnershipInv'
    BY <2>28 DEF FailConflictControl
  <2>29. ASSUME NEW p \in Runs, NEW n \in Names, BeginStage(p, n) PROVE OwnershipInv'
    BY <2>29 DEF BeginStage
  <2>30. ASSUME NEW p \in Runs, NEW n \in Names, MoveToDestination(p, n) PROVE OwnershipInv'
    BY <2>30 DEF MoveToDestination
  <2>31. ASSUME NEW p \in Runs, EndWork(p) PROVE OwnershipInv'
    BY <2>31 DEF EndWork
  <2>32. ASSUME NEW p \in Runs, BeginCleanup(p) PROVE OwnershipInv'
    BY <2>32 DEF BeginCleanup
  <2>33. ASSUME NEW p \in Runs, RemoveRunChild(p) PROVE OwnershipInv'
    BY <2>33 DEF RemoveRunChild
  <2>34. ASSUME NEW p \in Runs, FailRunChild(p) PROVE OwnershipInv'
    BY <2>34 DEF FailRunChild
  <2>35. ASSUME NEW p \in Runs, DropScope(p) PROVE OwnershipInv'
    BY <2>35 DEF DropScope
  <2>36. ASSUME NEW p \in Runs, NEW n \in Names, RemoveArtifact(p, n) PROVE OwnershipInv'
    BY <2>36 DEF RemoveArtifact
  <2>37. ASSUME NEW p \in Runs, NEW n \in Names, FailRemoval(p, n) PROVE OwnershipInv'
    BY <2>37 DEF FailRemoval
  <2>38. ASSUME NEW p \in Runs, Crash(p) PROVE OwnershipInv'
    BY <2>38 DEF Crash, Exposed
  <2>39. ASSUME NEW n \in ForeignNames, ForeignAppears(n) PROVE OwnershipInv'
    BY <2>39 DEF ForeignAppears
  <2>40. ASSUME StrayAppears PROVE OwnershipInv'
    BY <2>40 DEF StrayAppears
  <2>41. ASSUME UNCHANGED vars PROVE OwnershipInv'
    BY <2>41 DEF vars
  <2> QED
    BY ONLY [Next]_vars, <2>1, <2>2, <2>3, <2>4, <2>5, <2>6, <2>7, <2>8, <2>9,
       <2>10, <2>11, <2>12, <2>13, <2>14, <2>15, <2>16, <2>17, <2>18, <2>19,
       <2>20, <2>21, <2>22, <2>23, <2>24, <2>25, <2>26, <2>27, <2>28, <2>29,
       <2>30, <2>31, <2>32, <2>33, <2>34, <2>35, <2>36, <2>37, <2>38, <2>39,
       <2>40, <2>41, NameAssumption DEF Next, Step, Recovery, Production,
       Exit, Names
<1> QED
  BY <1>1, <1>2, TypeCorrect, PTL DEF Spec
-----------------------------------------------------------------------------
(* The safety properties the model-checked runs check, for every set of    *)
(* runs, names and foreign names.                                          *)

(* No interleaving of registrations, creations, withdrawals, recoveries    *)
(* and crashes leaves a temporary file the manifest does not name.         *)
THEOREM TemporariesAreNamed == Spec => []EveryTemporaryIsNamed
BY OwnershipInvariant, PTL DEF OwnershipInv

(* Whoever is about to write control files, or believes it owns the area,  *)
(* holds owner.lock: bootstrap and recovery never admit two owners.        *)
THEOREM OwnersHoldTheLock == Spec => []OwnerHoldsLock
BY OwnershipInvariant, PTL DEF OwnershipInv

(* An owner's registration list covers every staged file on disk.          *)
THEOREM OwnersKnowTheirFiles == Spec => []OwnerKnowsEveryTemporary
BY OwnershipInvariant, PTL DEF OwnershipInv

(* A cleanup pass without failures leaves nothing staged.                  *)
THEOREM CleanExits == Spec => []CleanExit
BY OwnershipInvariant, PTL DEF OwnershipInv

(* Foreign entries are lost only to an unfinished withdrawal.              *)
THEOREM ForeignSurvival == Spec => []ForeignEntriesSurvive
BY OwnershipInvariant, PTL DEF OwnershipInv

(* Files of a dead run can always be proven by recovery.                   *)
THEOREM AbandonedIsProvable == Spec => []AbandonedStagingIsProvable
<1>1. TypeOK /\ OwnershipInv => AbandonedStagingIsProvable
  <2> SUFFICES ASSUME TypeOK, OwnershipInv, Staged # {}
               PROVE  /\ area = "locked" /\ manifest.version # 0
                      /\ scratch => manifest.version >= 2
                      /\ children \subseteq {manifest.child}
                      /\ Present(EntryNames) \subseteq manifest.files
    BY DEF AbandonedStagingIsProvable
  <2>1. area = "locked" /\ children \subseteq {manifest.child}
    BY DEF OwnershipInv, BootstrapInv, LineageInv
  <2>2. manifest.version # 0
    BY DEF OwnershipInv, EveryTemporaryIsNamed, LineageInv
  <2>3. scratch => manifest.version >= 2
    BY DEF OwnershipInv, LineageInv, TypeOK, Manifests
  <2>4. Present(EntryNames) \subseteq Staged
    BY NameAssumption
       DEF OwnershipInv, LineageInv, TypeOK, Present, Staged, Foreign, Names
  <2> QED
    BY <2>1, <2>2, <2>3, <2>4 DEF OwnershipInv, EveryTemporaryIsNamed
<1> QED
  BY <1>1, TypeCorrect, OwnershipInvariant, PTL

(* Once ownership.conflict exists, no run deletes a foreign entry.         *)
THEOREM ConflictPreserves == Spec => ConflictPreservesForeign
<1>1. TypeOK /\ OwnershipInv /\ [Next]_vars => [conflict => lost' = lost]_vars
  <2> SUFFICES ASSUME TypeOK, OwnershipInv, Next, conflict PROVE lost' = lost
    BY DEF vars
  <2>1. ASSUME NEW p \in Runs, NEW n \in Names, DeleteLeftover(p, n)
        PROVE  lost' = lost
    BY <2>1 DEF DeleteLeftover, OwnershipInv, ForeignInv, Foreign
  <2>2. ASSUME NEW p \in Runs, NEW n \in Names, RemoveArtifact(p, n)
        PROVE  lost' = lost
    BY <2>2 DEF RemoveArtifact, OwnershipInv, ForeignInv, Foreign
  <2>3. ASSUME NEW p \in Runs, Recovery(p) PROVE lost' = lost
    BY <2>1, <2>3 DEF Recovery, Start, ScanRoot, AcceptCleanRoot,
       RefuseStaging, ClaimExistingLock,
         ValidateTree, RefuseTree, DiscardScratch, DeleteLeftoverChild,
         FinishRecovery, FailRecovery, CancelRecovery
  <2>4. ASSUME NEW p \in Runs, Production(p) PROVE lost' = lost
    BY <2>4 DEF Production, CreateStagingDirectory, CreateLock, FailBootstrap,
          NameChild,
         RefuseHalfArea, Register, WriteScratch, FailPublish, MakeChild,
         CreateTemporary, FailCreate, Collide, WriteConflictControl,
         FailConflictControl, BeginStage, MoveToDestination, ReplaceManifest
  <2>5. ASSUME NEW p \in Runs, Exit(p) PROVE lost' = lost
    BY <2>2, <2>5 DEF Exit, EndWork, BeginCleanup, RemoveRunChild,
       FailRunChild, DropScope,
         FailRemoval
  <2>6. ASSUME NEW p \in Runs, Crash(p) PROVE lost' = lost
    BY <2>6 DEF Crash
  <2> QED
    BY <2>3, <2>4, <2>5, <2>6 DEF Next, Step, ForeignAppears, StrayAppears
<1> QED
  BY <1>1, TypeCorrect, OwnershipInvariant, PTL DEF Spec, ConflictPreservesForeign

(* Only a bootstrapped owner rewrites the manifest.                        *)
THEOREM OnlyOwnersRewrite == Spec => RecoveryKeepsManifest
<1>1. TypeOK /\ OwnershipInv /\ [Next]_vars =>
        [manifest' # manifest =>
           \E p \in Runs : holder = p /\ scope[p] \in {"named", "ready"}]_vars
  <2> SUFFICES ASSUME TypeOK, OwnershipInv, Next, manifest' # manifest
               PROVE  \E p \in Runs : holder = p /\ scope[p] \in {"named", "ready"}
    BY DEF vars
  <2>1. ASSUME NEW p \in Runs, Recovery(p) PROVE \E q \in Runs : ReplaceManifest(q)
    BY <2>1 DEF Recovery, Start, ScanRoot, AcceptCleanRoot, RefuseStaging,
       ClaimExistingLock,
         ValidateTree, RefuseTree, DiscardScratch, DeleteLeftoverChild,
         FinishRecovery, FailRecovery, CancelRecovery, DeleteLeftover
  <2>2. ASSUME NEW p \in Runs, Production(p) PROVE \E q \in Runs : ReplaceManifest(q)
    BY <2>2 DEF Production, CreateStagingDirectory, CreateLock, FailBootstrap,
          NameChild,
         RefuseHalfArea, Register, WriteScratch, FailPublish, MakeChild,
         CreateTemporary, FailCreate, Collide, WriteConflictControl,
         FailConflictControl, BeginStage, MoveToDestination
  <2>3. ASSUME NEW p \in Runs, Exit(p) PROVE \E q \in Runs : ReplaceManifest(q)
    BY <2>3 DEF Exit, EndWork, BeginCleanup, RemoveRunChild, FailRunChild,
          DropScope,
         FailRemoval, RemoveArtifact
  <2>4. ASSUME NEW p \in Runs, Crash(p) PROVE \E q \in Runs : ReplaceManifest(q)
    BY <2>4 DEF Crash
  <2>5. \E q \in Runs : ReplaceManifest(q)
    BY <2>1, <2>2, <2>3, <2>4 DEF Next, Step, ForeignAppears, StrayAppears
  <2>6. PICK p \in Runs : ReplaceManifest(p)
    BY <2>5
  <2> QED
    BY <2>6 DEF ReplaceManifest, OwnershipInv, OwnerHoldsLock, Writing, ScopeInv
<1> QED
  BY <1>1, TypeCorrect, OwnershipInvariant, PTL DEF Spec, RecoveryKeepsManifest

-----------------------------------------------------------------------------
(* The protocol implements TemporaryOwnership: every step is a snapshot    *)
(* that covers what is on disk, the creation of a claimed entry, the       *)
(* departure of an entry, or a stutter.                                    *)

(* A step that publishes no snapshot and stages or removes nothing.        *)
LEMMA QuietStep ==
    ASSUME UNCHANGED <<manifest, disk>>
    PROVE  UNCHANGED <<manifest.files, Staged>>
BY DEF Staged

(* Erasing one name removes at most that entry.                            *)
LEMMA EraseLeaves ==
    ASSUME TypeOK, NEW n \in Names, Erase(n), UNCHANGED manifest
    PROVE  [Promise!Next]_<<manifest.files, Staged>>
<1>1. Staged' = Staged \ {n}
  BY DEF TypeOK, Staged
<1>2. CASE n \in Staged
  BY <1>1, <1>2 DEF Promise!Next, Promise!Leave
<1>3. CASE n \notin Staged
  BY <1>1, <1>3
<1> QED
  BY <1>2, <1>3

(* Spec implements TemporaryOwnership!Spec with the durable manifest's     *)
(* files as claims and the staged files as what is present.                *)
THEOREM ImplementsPromise == Spec => KeepsPromise
<1>1. Init /\ TypeOK /\ OwnershipInv => Promise!Init
  BY DEF Promise!Init, TypeOK, Manifests, OwnershipInv, EveryTemporaryIsNamed
<1>2. TypeOK /\ OwnershipInv /\ TypeOK' /\ OwnershipInv' /\ [Next]_vars
        => [Promise!Next]_<<manifest.files, Staged>>
  <2> SUFFICES ASSUME TypeOK, OwnershipInv, OwnershipInv', TypeOK', [Next]_vars
               PROVE  [Promise!Next]_<<manifest.files, Staged>>
    OBVIOUS
  <2>1. ASSUME NEW p \in Runs, ReplaceManifest(p)
        PROVE  [Promise!Next]_<<manifest.files, Staged>>
    <3>1. manifest'.files \in SUBSET Names
      BY DEF TypeOK, Manifests
    <3>2. Staged' = Staged
      BY <2>1 DEF ReplaceManifest, Staged
    <3>3. Staged \subseteq manifest'.files
      BY <3>2 DEF OwnershipInv, EveryTemporaryIsNamed
    <3> QED
      BY <3>1, <3>2, <3>3 DEF Promise!Next, Promise!Snapshot
  <2>2. ASSUME NEW p \in Runs, CreateTemporary(p)
        PROVE  [Promise!Next]_<<manifest.files, Staged>>
    <3>1. cur[p] \in Names /\ cur[p] \in manifest.files /\ cur[p] \notin Staged
      BY <2>2 DEF CreateTemporary, OwnershipInv, BatchInv, Staged, TypeOK
    <3>2. Staged' = Staged \cup {cur[p]} /\ manifest' = manifest
      BY <2>2, <3>1 DEF CreateTemporary, Staged, TypeOK
    <3> QED
      BY <3>1, <3>2 DEF Promise!Next, Promise!Create
  <2>3. ASSUME NEW p \in Runs, NEW n \in Names, MoveToDestination(p, n)
        PROVE  [Promise!Next]_<<manifest.files, Staged>>
    <3>1. Staged' = Staged \ {n} /\ n \in Staged /\ manifest' = manifest
      BY <2>3 DEF MoveToDestination, Staged, TypeOK
    <3> QED
      BY <3>1 DEF Promise!Next, Promise!Leave
  <2>4. ASSUME NEW p \in Runs, NEW n \in Names,
               DeleteLeftover(p, n) \/ RemoveArtifact(p, n)
        PROVE  [Promise!Next]_<<manifest.files, Staged>>
    BY <2>4, EraseLeaves DEF DeleteLeftover, RemoveArtifact
  <2>5. ASSUME NEW n \in ForeignNames, ForeignAppears(n)
        PROVE  [Promise!Next]_<<manifest.files, Staged>>
    <3>1. Staged' = Staged /\ manifest' = manifest
      BY <2>5 DEF ForeignAppears, Staged, TypeOK
    <3> QED
      BY <3>1
  <2>6. CASE UNCHANGED <<manifest, disk>>
    BY <2>6, QuietStep
  <2> DEFINE Quiet == UNCHANGED <<manifest, disk>>
  <2>7. ASSUME NEW p \in Runs, Recovery(p)
        PROVE  Quiet \/ \E n \in Names : DeleteLeftover(p, n)
    BY <2>7 DEF Recovery, Start, ScanRoot, AcceptCleanRoot, RefuseStaging,
       ClaimExistingLock, ValidateTree, RefuseTree, DiscardScratch, DeleteLeftoverChild,
       FinishRecovery, FailRecovery, CancelRecovery
  <2>8. ASSUME NEW p \in Runs, Production(p)
        PROVE  \/ Quiet \/ ReplaceManifest(p) \/ CreateTemporary(p)
               \/ \E n \in Names : MoveToDestination(p, n)
    BY <2>8 DEF Production, CreateStagingDirectory, CreateLock, FailBootstrap, NameChild,
       RefuseHalfArea, Register, WriteScratch, FailPublish, MakeChild, FailCreate, Collide,
       WriteConflictControl, FailConflictControl, BeginStage
  <2>9. ASSUME NEW p \in Runs, Exit(p)
        PROVE  Quiet \/ \E n \in Names : RemoveArtifact(p, n)
    BY <2>9 DEF Exit, EndWork, BeginCleanup, RemoveRunChild, FailRunChild, DropScope,
       FailRemoval
  <2>10. CASE \E p \in Runs : Crash(p) \/ StrayAppears \/ UNCHANGED vars
    BY <2>10, <2>6 DEF Crash, StrayAppears, vars
  <2> HIDE DEF Quiet
  <2>11. ASSUME NEW p \in Runs, Step(p)
         PROVE  [Promise!Next]_<<manifest.files, Staged>>
    BY <2>1, <2>2, <2>3, <2>4, <2>6, <2>7, <2>8, <2>9, <2>11, Zenon DEF Step, Quiet
  <2>12. CASE StrayAppears \/ UNCHANGED vars
    BY <2>12, <2>6 DEF StrayAppears, vars
  <2> QED
    BY <2>5, <2>10, <2>11, <2>12, Zenon DEF Next
<1> QED
  BY <1>1, <1>2, TypeCorrect, OwnershipInvariant, PTL
     DEF Spec, KeepsPromise, Promise!Spec

=============================================================================
