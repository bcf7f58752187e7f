------------------------------ MODULE AssetProofs ------------------------------
(***************************************************************************)
(* Proofs about Assets.  First one attempt against a changing disk         *)
(* (AssetExecution), for any number of changes another program makes:      *)
(* AttemptInv says what the attempt has pinned, captured, loaded and       *)
(* published at each stage; the safety properties are projections.         *)
(*                                                                         *)
(* Then runs over the production backend (OptimizerBackend), for every     *)
(* world of files, choices and plugins, any number of runs and failures:   *)
(* the arithmetic of one image, the base invariant of every attempt, and   *)
(* on top of it the Dry Run's word and the rest Textures come to.          *)
(***************************************************************************)
EXTENDS AssetExecution, OptimizerBackend, WellFoundedInduction, SequenceTheorems, TLAPS

Removing == {"verify", "remove", "delete", "judge"}

(* What has been done, and reported, at each stage.                        *)
EffectsOfStage ==
    /\ stage \notin {"finish", "quarantine", "setAside", "done"} =>
         result = [failure |-> "none", mutation |-> "None", safe |-> TRUE]
    /\ published => stage \in Removing \cup {"release", "finish", "done"}
    /\ stage \in Removing \cup {"release"} => published
    /\ stage \in Removing => kind = "convert"
    /\ At("load") => kind # "animation"
    /\ overwritten # {} => published
    /\ deleted # {} => published /\ stage \in {"judge", "finish", "done"}
    /\ quarantined # 0 => At("done")
    /\ stage \in {"pin", "capture", "stage", "save", "publish", "rename", "release"} \cup Removing
         => mode = "Apply"

(* Mutation, failure and verdict agree with the effects at the end.        *)
ReportOfStage ==
    /\ stage \in {"finish", "done"} =>
         /\ result.mutation = "None" => ~Mutated
         /\ result.mutation = "Committed" => Mutated
         /\ result.mutation = "PartialOrUnknown" => ~result.safe
    /\ stage \in {"quarantine", "setAside"} =>
         result.failure = "LoadFailed" /\ result.mutation = "None"
    /\ At("finish") /\ result.failure = "LoadFailed" => result.mutation = "None"
    /\ result.failure = "LoadFailed" => kind # "animation" /\ ~published
    /\ At("setAside") => handle # 0
    /\ At("setAside") => handle = loaded \/ loaded \in displaced

(* Files are told apart, and changes are dated.                            *)
FilesOfStage ==
    /\ target.changed <= edits
    /\ \A p \in Paths : disk[p].changed <= edits
    /\ pin # Made
    /\ ~published => \A p \in Paths : disk[p].file # Made

(* The backend read the leaf that is captured, wherever that leaf is still *)
(* the one at the destination.                                             *)
LeafOfStage ==
    /\ (\/ kind = "inPlace" /\ stage \in {"operate", "stage"}
        \/ kind # "convert" /\ stage \in {"save", "publish", "rename"}) =>
         (disk["source"] = target /\ target.file # 0 => loaded = target.file)
    /\ At("rename") => disk[Out] = target \/ disk[Out].file \in late \cup {0}

(* The pinned file is the one that was loaded, unless someone took either. *)
PinOfStage ==
    /\ kind = "convert" =>
         /\ stage \in {"capture", "load"} /\ mode = "Apply" =>
              SourceFile = pin \/ pin \in displaced
         /\ stage \in {"operate", "stage", "save", "publish", "rename", "release", "verify",
                       "remove"} /\ mode = "Apply" =>
              /\ loaded = pin \/ pin \in displaced
              /\ SourceFile = loaded \/ loaded \in displaced
    /\ At("delete") => handle = pin /\ (loaded = pin \/ {pin, loaded} \subseteq displaced)
    /\ stage \in {"finish", "quarantine"} /\ result.failure = "LoadFailed" =>
         SourceFile = loaded \/ loaded \in displaced

(* The output is there, or was taken since the attempt looked.             *)
OutputOfStage ==
    stage \in {"release", "verify", "remove", "delete"} => disk[Out].file = Made \/ spoiled

OutputAtEnd ==
    deleted # {} \/ (stage \in {"finish", "done"} /\ published /\ result.safe) =>
        disk[Out].file = Made \/ spoiled

AttemptInv ==
    /\ EffectsOfStage /\ ReportOfStage /\ FilesOfStage
    /\ LeafOfStage /\ PinOfStage /\ OutputOfStage /\ OutputAtEnd
    /\ OverwritesWhatItLoaded /\ RemovesOnlyWhatItConverted /\ FailedLoadIsNotPacked

(***************************************************************************)
(* Type correctness.                                                       *)
(***************************************************************************)

(* The labels the actions use.                                             *)
LEMMA Names ==
    /\ \A s \in {"begin", "pin", "capture", "load", "operate", "stage", "save", "publish",
                  "rename", "release", "verify", "remove", "delete", "judge", "finish",
                  "quarantine", "setAside", "done"} : s \in Stages
    /\ \A f \in {"none", "IdentityMismatch", "LoadFailed", "OperationFailed", "SaveFailed",
                  "SourceRemovalFailed", "StagingFailed", "CommitFailed",
                  "BackendException"} : f \in Failures
    /\ \A m \in {"None", "Committed", "PartialOrUnknown"} : m \in Mutations
BY DEF Stages, Failures, Mutations

(* An Attempt Outcome is a result.                                         *)
LEMMA OutcomeType ==
    ASSUME NEW f \in Failures, NEW m \in Mutations, NEW s \in BOOLEAN, Outcome(f, m, s)
    PROVE  result' \in [failure : Failures, mutation : Mutations, safe : BOOLEAN]
<1>1. (s /\ m # "PartialOrUnknown") \in BOOLEAN
  OBVIOUS
<1>2. QED
  BY <1>1 DEF Outcome

(* The record kept of another program's change has its types.              *)
LEMMA ChangesType ==
    ASSUME TypeOK, NEW p, NEW new \in Nat, Changes(p, new)
    PROVE  late' \in SUBSET Nat /\ displaced' \in SUBSET Nat /\ spoiled' \in BOOLEAN
<1>1. disk["source"] \in Entries
  BY DEF TypeOK, Paths
<1>2. SourceFile \in Nat
  BY <1>1 DEF SourceFile, Entries
<1>3. late' \in SUBSET Nat
  BY DEF Changes, TypeOK
<1>4. displaced' \in SUBSET Nat
  BY <1>2 DEF Changes, TypeOK
<1>5. spoiled' \in BOOLEAN
  BY DEF Changes
<1>6. QED
  BY <1>3, <1>4, <1>5

LEMMA InitType == Init => TypeOK
<1> SUFFICES ASSUME Init PROVE TypeOK
  OBVIOUS
<1>1. kind \in Kinds /\ disk \in [Paths -> Entries]
  BY DEF Init, Initially, Absent, Entries, Paths, Kinds
<1>2. result \in [failure : Failures, mutation : Mutations, safe : BOOLEAN]
  BY Names DEF Init
<1>3. QED
  BY <1>1, <1>2, Names DEF Init, TypeOK, Absent, Entries

(* Every action keeps every variable in its type.                          *)
LEMMA TypeStep == TypeOK /\ [Next]_vars => TypeOK'
<1> SUFFICES ASSUME TypeOK, [Next]_vars PROVE TypeOK'
  OBVIOUS
<1> USE DEF TypeOK, At, Goto, Entries, input, facts, effects, witness
<1>1. CASE RejectAsset
  <2>1. result' \in [failure : Failures, mutation : Mutations, safe : BOOLEAN]
    BY <1>1, Names, OutcomeType DEF RejectAsset, Conclude
  <2>2. disk' \in [Paths -> Entries]
    BY <1>1 DEF RejectAsset, Conclude, Outcome, Paths, Made, Entries
  <2>3. stage' \in Stages
    BY <1>1, Names DEF RejectAsset, Conclude, Outcome
  <2>4. QED
    BY <1>1, <2>1, <2>2, <2>3 DEF RejectAsset, Conclude, Outcome, Paths, Made
<1>2. CASE Begin
  <2>1. result' \in [failure : Failures, mutation : Mutations, safe : BOOLEAN]
    BY <1>2, Names, OutcomeType DEF Begin, Proceed
  <2>2. disk' \in [Paths -> Entries]
    BY <1>2 DEF Begin, Proceed, Paths, Made, Entries
  <2>3. stage' \in Stages
    BY <1>2, Names DEF Begin, Proceed
  <2>4. QED
    BY <1>2, <2>1, <2>2, <2>3 DEF Begin, Proceed, Paths, Made
<1>3. CASE PinSource
  <2>1. result' \in [failure : Failures, mutation : Mutations, safe : BOOLEAN]
    BY <1>3, Names, OutcomeType DEF PinSource, Proceed, Conclude, Present, SourceFile
  <2>2. disk' \in [Paths -> Entries]
    BY <1>3 DEF PinSource, Proceed, Conclude, Outcome, Present, SourceFile, Paths, Made,
       Entries
  <2>3. stage' \in Stages
    BY <1>3, Names DEF PinSource, Proceed, Conclude, Outcome, Present, SourceFile
  <2>4. QED
    BY <1>3, <2>1, <2>2, <2>3 DEF PinSource, Proceed, Conclude, Outcome, Present,
       SourceFile, Paths, Made
<1>4. CASE CaptureTarget
  <2>1. result' \in [failure : Failures, mutation : Mutations, safe : BOOLEAN]
    BY <1>4, Names, OutcomeType DEF CaptureTarget, Proceed, Conclude, Out
  <2>2. disk' \in [Paths -> Entries]
    BY <1>4 DEF CaptureTarget, Proceed, Conclude, Outcome, Out, Paths, Made, Entries
  <2>3. stage' \in Stages
    BY <1>4, Names DEF CaptureTarget, Proceed, Conclude, Outcome, Out
  <2>4. QED
    BY <1>4, <2>1, <2>2, <2>3 DEF CaptureTarget, Proceed, Conclude, Outcome, Out, Paths,
       Made
<1>5. CASE Load
  <2>1. result' \in [failure : Failures, mutation : Mutations, safe : BOOLEAN]
    BY <1>5, Names, OutcomeType DEF Load, Proceed, Conclude, Present, SourceFile
  <2>2. disk' \in [Paths -> Entries]
    BY <1>5 DEF Load, Proceed, Conclude, Outcome, Present, SourceFile, Paths, Made, Entries
  <2>3. stage' \in Stages
    BY <1>5, Names DEF Load, Proceed, Conclude, Outcome, Present, SourceFile
  <2>4. QED
    BY <1>5, <2>1, <2>2, <2>3 DEF Load, Proceed, Conclude, Outcome, Present, SourceFile,
       Paths, Made
<1>6. CASE Operate
  <2>1. result' \in [failure : Failures, mutation : Mutations, safe : BOOLEAN]
    BY <1>6, Names, OutcomeType DEF Operate, Proceed, Conclude, Succeed
  <2>2. disk' \in [Paths -> Entries]
    BY <1>6 DEF Operate, Proceed, Conclude, Outcome, Succeed, Paths, Made, Entries
  <2>3. stage' \in Stages
    BY <1>6, Names DEF Operate, Proceed, Conclude, Outcome, Succeed
  <2>4. QED
    BY <1>6, <2>1, <2>2, <2>3 DEF Operate, Proceed, Conclude, Outcome, Succeed, Paths, Made
<1>7. CASE OptimizeAnimation
  <2>1. result' \in [failure : Failures, mutation : Mutations, safe : BOOLEAN]
    BY <1>7, Names, OutcomeType DEF OptimizeAnimation, Proceed, Conclude, Succeed, Present,
       SourceFile
  <2>2. disk' \in [Paths -> Entries]
    BY <1>7 DEF OptimizeAnimation, Proceed, Conclude, Outcome, Succeed, Present, SourceFile,
       Paths, Made, Entries
  <2>3. stage' \in Stages
    BY <1>7, Names DEF OptimizeAnimation, Proceed, Conclude, Outcome, Succeed, Present,
       SourceFile
  <2>4. QED
    BY <1>7, <2>1, <2>2, <2>3 DEF OptimizeAnimation, Proceed, Conclude, Outcome, Succeed,
       Present, SourceFile, Paths, Made
<1>8. CASE Stage
  <2>1. result' \in [failure : Failures, mutation : Mutations, safe : BOOLEAN]
    <3>1. CASE \E lookup \in BOOLEAN : Conclude("StagingFailed", "None", lookup)
      <4>1. PICK lookup \in BOOLEAN : Outcome("StagingFailed", "None", lookup)
        BY <3>1 DEF Conclude
      <4>2. QED
        BY <4>1, Names, OutcomeType
    <3>2. CASE Conclude("StagingFailed", "None", FALSE)
      BY <3>2, Names, OutcomeType DEF Conclude
    <3>3. CASE UNCHANGED result
      BY <3>3
    <3>4. QED
      BY <1>8, <3>1, <3>2, <3>3 DEF Stage, Proceed
  <2>2. disk' \in [Paths -> Entries]
    BY <1>8 DEF Stage, Proceed, Conclude, Outcome, TargetUnchanged, Out, Paths, Made,
       Entries
  <2>3. stage' \in Stages
    BY <1>8, Names DEF Stage, Proceed, Conclude, Outcome, TargetUnchanged, Out
  <2>4. QED
    BY <1>8, <2>1, <2>2, <2>3 DEF Stage, Proceed, Conclude, Outcome, TargetUnchanged, Out,
       Paths, Made
<1>9. CASE Save
  <2>1. result' \in [failure : Failures, mutation : Mutations, safe : BOOLEAN]
    BY <1>9, Names, OutcomeType DEF Save, Proceed, Conclude
  <2>2. disk' \in [Paths -> Entries]
    BY <1>9 DEF Save, Proceed, Conclude, Outcome, Paths, Made, Entries
  <2>3. stage' \in Stages
    BY <1>9, Names DEF Save, Proceed, Conclude, Outcome
  <2>4. QED
    BY <1>9, <2>1, <2>2, <2>3 DEF Save, Proceed, Conclude, Outcome, Paths, Made
<1>10. CASE CheckDestination
  <2>1. result' \in [failure : Failures, mutation : Mutations, safe : BOOLEAN]
    BY <1>10, Names, OutcomeType DEF CheckDestination, Proceed, FailPublication,
       PublicationMutation, PublicationSafe, Conclude, TargetUnchanged, Out
  <2>2. disk' \in [Paths -> Entries]
    BY <1>10 DEF CheckDestination, Proceed, FailPublication, PublicationMutation,
       PublicationSafe, Conclude, Outcome, TargetUnchanged, Out, Paths, Made, Entries
  <2>3. stage' \in Stages
    BY <1>10, Names DEF CheckDestination, Proceed, FailPublication, PublicationMutation,
       PublicationSafe, Conclude, Outcome, TargetUnchanged, Out
  <2>4. QED
    BY <1>10, <2>1, <2>2, <2>3 DEF CheckDestination, Proceed, FailPublication,
       PublicationMutation, PublicationSafe, Conclude, Outcome, TargetUnchanged, Out, Paths,
       Made
<1>11. CASE RenameStaged
  <2>1. result' \in [failure : Failures, mutation : Mutations, safe : BOOLEAN]
    BY <1>11, Names, OutcomeType DEF RenameStaged, Proceed, FailPublication,
       PublicationMutation, PublicationSafe, Conclude, Out, Made
  <2>2. disk' \in [Paths -> Entries]
    BY <1>11 DEF RenameStaged, Proceed, FailPublication, PublicationMutation,
       PublicationSafe, Conclude, Outcome, Out, Made, Paths, Entries
  <2>3. stage' \in Stages
    BY <1>11, Names DEF RenameStaged, Proceed, FailPublication, PublicationMutation,
       PublicationSafe, Conclude, Outcome, Out, Made
  <2>4. QED
    BY <1>11, <2>1, <2>2, <2>3 DEF RenameStaged, Proceed, FailPublication,
       PublicationMutation, PublicationSafe, Conclude, Outcome, Out, Made, Paths
<1>12. CASE Release
  <2>1. result' \in [failure : Failures, mutation : Mutations, safe : BOOLEAN]
    BY <1>12, Names, OutcomeType DEF Release, Proceed, Succeed, FailPublication,
       PublicationMutation, PublicationSafe, Conclude
  <2>2. disk' \in [Paths -> Entries]
    BY <1>12 DEF Release, Proceed, Succeed, FailPublication, PublicationMutation,
       PublicationSafe, Conclude, Outcome, Paths, Made, Entries
  <2>3. stage' \in Stages
    BY <1>12, Names DEF Release, Proceed, Succeed, FailPublication, PublicationMutation,
       PublicationSafe, Conclude, Outcome
  <2>4. QED
    BY <1>12, <2>1, <2>2, <2>3 DEF Release, Proceed, Succeed, FailPublication,
       PublicationMutation, PublicationSafe, Conclude, Outcome, Paths, Made
<1>13. CASE VerifyConversion
  <2>1. result' \in [failure : Failures, mutation : Mutations, safe : BOOLEAN]
    BY <1>13, Names, OutcomeType DEF VerifyConversion, Proceed, Conclude, RetainedUsable,
       SourceFile
  <2>2. disk' \in [Paths -> Entries]
    BY <1>13 DEF VerifyConversion, Proceed, Conclude, Outcome, RetainedUsable, SourceFile,
       Paths, Made, Entries
  <2>3. stage' \in Stages
    BY <1>13, Names DEF VerifyConversion, Proceed, Conclude, Outcome, RetainedUsable,
       SourceFile
  <2>4. QED
    BY <1>13, <2>1, <2>2, <2>3 DEF VerifyConversion, Proceed, Conclude, Outcome,
       RetainedUsable, SourceFile, Paths, Made
<1>14. CASE RemoveVerified
  <2>1. result' \in [failure : Failures, mutation : Mutations, safe : BOOLEAN]
    BY <1>14, Names, OutcomeType DEF RemoveVerified, Proceed, PinUnchanged, SourceFile
  <2>2. disk' \in [Paths -> Entries]
    BY <1>14 DEF RemoveVerified, Proceed, PinUnchanged, SourceFile, Paths, Made, Entries
  <2>3. stage' \in Stages
    BY <1>14, Names DEF RemoveVerified, Proceed, PinUnchanged, SourceFile
  <2>4. QED
    BY <1>14, <2>1, <2>2, <2>3 DEF RemoveVerified, Proceed, PinUnchanged, SourceFile, Paths,
       Made
<1>15. CASE DeleteByHandle
  <2>1. result' \in [failure : Failures, mutation : Mutations, safe : BOOLEAN]
    BY <1>15, Names, OutcomeType DEF DeleteByHandle, Proceed, Succeed, Conclude, Absent
  <2>2. disk' \in [Paths -> Entries]
    BY <1>15 DEF DeleteByHandle, Proceed, Succeed, Conclude, Outcome, Absent, Paths, Made,
       Entries
  <2>3. stage' \in Stages
    BY <1>15, Names DEF DeleteByHandle, Proceed, Succeed, Conclude, Outcome, Absent
  <2>4. QED
    BY <1>15, <2>1, <2>2, <2>3 DEF DeleteByHandle, Proceed, Succeed, Conclude, Outcome,
       Absent, Paths, Made
<1>16. CASE JudgeRemoval
  <2>1. result' \in [failure : Failures, mutation : Mutations, safe : BOOLEAN]
    BY <1>16, Names, OutcomeType DEF JudgeRemoval, Conclude, RetainedUsable, SourceFile
  <2>2. disk' \in [Paths -> Entries]
    BY <1>16 DEF JudgeRemoval, Conclude, Outcome, RetainedUsable, SourceFile, Paths, Made,
       Entries
  <2>3. stage' \in Stages
    BY <1>16, Names DEF JudgeRemoval, Conclude, Outcome, RetainedUsable, SourceFile
  <2>4. QED
    BY <1>16, <2>1, <2>2, <2>3 DEF JudgeRemoval, Conclude, Outcome, RetainedUsable,
       SourceFile, Paths, Made
<1>17. CASE FinishAttempt
  <2>1. result' \in [failure : Failures, mutation : Mutations, safe : BOOLEAN]
    BY <1>17, Names, OutcomeType DEF FinishAttempt, Proceed
  <2>2. disk' \in [Paths -> Entries]
    BY <1>17 DEF FinishAttempt, Proceed, Paths, Made, Entries
  <2>3. stage' \in Stages
    BY <1>17, Names DEF FinishAttempt, Proceed
  <2>4. QED
    BY <1>17, <2>1, <2>2, <2>3 DEF FinishAttempt, Proceed, Paths, Made
<1>18. CASE OpenForQuarantine
  <2>1. result' \in [failure : Failures, mutation : Mutations, safe : BOOLEAN]
    BY <1>18, Names, OutcomeType DEF OpenForQuarantine, Proceed, AbandonQuarantine, Present,
       SourceFile
  <2>2. disk' \in [Paths -> Entries]
    BY <1>18 DEF OpenForQuarantine, Proceed, AbandonQuarantine, Present, SourceFile, Paths,
       Made, Entries
  <2>3. stage' \in Stages
    BY <1>18, Names DEF OpenForQuarantine, Proceed, AbandonQuarantine, Present, SourceFile
  <2>4. QED
    BY <1>18, <2>1, <2>2, <2>3 DEF OpenForQuarantine, Proceed, AbandonQuarantine, Present,
       SourceFile, Paths, Made
<1>19. CASE SetAside
  <2>1. result' \in [failure : Failures, mutation : Mutations, safe : BOOLEAN]
    BY <1>19, Names, OutcomeType DEF SetAside, AbandonQuarantine, FreeName, Present, Absent
  <2>2. disk' \in [Paths -> Entries]
    BY <1>19 DEF SetAside, AbandonQuarantine, FreeName, Present, Absent, Paths, Made,
       Entries
  <2>3. stage' \in Stages
    BY <1>19, Names DEF SetAside, AbandonQuarantine, FreeName, Present, Absent
  <2>4. QED
    BY <1>19, <2>1, <2>2, <2>3 DEF SetAside, AbandonQuarantine, FreeName, Present, Absent,
       Paths, Made
<1>20. CASE Panic
  <2>1. result' \in [failure : Failures, mutation : Mutations, safe : BOOLEAN]
    BY <1>20, Names, OutcomeType DEF Panic
  <2>2. disk' \in [Paths -> Entries]
    BY <1>20 DEF Panic, Outcome, Paths, Made, Entries
  <2>3. stage' \in Stages
    BY <1>20, Names DEF Panic, Outcome
  <2>4. QED
    BY <1>20, <2>1, <2>2, <2>3 DEF Panic, Outcome, Paths, Made
<1>21. CASE ForeignMove
  <2>1. PICK p \in {"source", "aside"}, q \in {"source", "aside"} :
          /\ disk' = [disk EXCEPT ![p] = Absent,
                                 ![q] = [file |-> disk[p].file, changed |-> edits']]
          /\ Changes("source", IF q = "source" THEN disk[p].file ELSE 0)
    BY <1>21 DEF ForeignMove
  <2>2. disk' \in [Paths -> Entries]
    BY <1>21, <2>1 DEF ForeignMove, Edit, Absent, Paths
  <2>3. late' \in SUBSET Nat /\ displaced' \in SUBSET Nat /\ spoiled' \in BOOLEAN
    <3>1. disk[p] \in Entries
      BY <2>1 DEF Paths
    <3>2. (IF q = "source" THEN disk[p].file ELSE 0) \in Nat
      BY <3>1
    <3>3. QED
      BY <2>1, <3>2, ChangesType
  <2>4. QED
    BY <1>21, <2>2, <2>3 DEF ForeignMove, Edit
<1>22. ASSUME NEW p \in {"source", "output", "bad"}, ForeignWrite(p) \/ ForeignDelete(p)
      PROVE TypeOK'
  <2>1. CASE ForeignWrite(p)
    <3>1. disk' \in [Paths -> Entries]
      BY <2>1 DEF ForeignWrite, Edit, Changes, Present, Absent, SourceFile, Out, Made, Paths
    <3>2. late' \in SUBSET Nat /\ displaced' \in SUBSET Nat /\ spoiled' \in BOOLEAN
      <4>1. Changes(p, Made + edits') /\ Made + edits' \in Nat
        BY <2>1 DEF ForeignWrite, Edit, Made
      <4>2. QED
        BY <4>1, ChangesType
    <3>3. QED
      BY <2>1, <3>1, <3>2 DEF ForeignWrite, Edit
  <2>2. CASE ForeignDelete(p)
    <3>1. disk' \in [Paths -> Entries]
      BY <2>2 DEF ForeignDelete, Edit, Changes, Present, Absent, SourceFile, Out, Made,
         Paths
    <3>2. late' \in SUBSET Nat /\ displaced' \in SUBSET Nat /\ spoiled' \in BOOLEAN
      <4>1. Changes(p, 0) /\ 0 \in Nat
        BY <2>2 DEF ForeignDelete, Edit, Made
      <4>2. QED
        BY <4>1, ChangesType
    <3>3. QED
      BY <2>2, <3>1, <3>2 DEF ForeignDelete, Edit
  <2>3. QED
    BY <1>22, <2>1, <2>2
<1>23. CASE UNCHANGED vars
  BY <1>23 DEF vars
<1>24. QED
  BY <1>1, <1>2, <1>3, <1>4, <1>5, <1>6, <1>7, <1>8, <1>9, <1>10, <1>11, <1>12, <1>13,
     <1>14, <1>15, <1>16, <1>17, <1>18, <1>19, <1>20, <1>21, <1>22, <1>23 DEF Next, Attempt,
     Foreign

(* A specification whose steps keep a type is type-correct.                *)
THEOREM TypeCorrect == Spec => []TypeOK
<1>1. Init => TypeOK
  BY InitType
<1>2. TypeOK /\ [Next]_vars => TypeOK'
  BY TypeStep
<1>3. QED
  BY <1>1, <1>2, PTL DEF Spec

(***************************************************************************)
(* The inductive invariant.                                                *)
(***************************************************************************)

LEMMA InitInv == Init => AttemptInv
<1> SUFFICES ASSUME Init PROVE AttemptInv
  OBVIOUS
<1>1. EffectsOfStage /\ ReportOfStage /\ FilesOfStage
  BY DEF Init, EffectsOfStage, ReportOfStage, FilesOfStage, Removing, At, Initially, Absent,
     Made, Paths
<1>2. LeafOfStage /\ PinOfStage /\ OutputOfStage /\ OutputAtEnd
  BY DEF Init, LeafOfStage, PinOfStage, OutputOfStage, OutputAtEnd, At
<1>3. OverwritesWhatItLoaded /\ RemovesOnlyWhatItConverted /\ FailedLoadIsNotPacked
  BY DEF Init, OverwritesWhatItLoaded, RemovesOnlyWhatItConverted, FailedLoadIsNotPacked, At
<1>4. QED
  BY <1>1, <1>2, <1>3 DEF AttemptInv

(* One step per action; under it, one per part of the invariant.           *)
LEMMA InvStep == TypeOK /\ AttemptInv /\ [Next]_vars => AttemptInv'
<1> SUFFICES ASSUME TypeOK, AttemptInv, [Next]_vars PROVE AttemptInv'
  OBVIOUS
<1> USE DEF TypeOK, AttemptInv, At, Goto, input, facts, effects, witness
<1>1. CASE RejectAsset
  <2>1. EffectsOfStage'
    BY <1>1 DEF RejectAsset, Conclude, Outcome, Removing, Kinds, Paths, EffectsOfStage,
       ReportOfStage, FilesOfStage, LeafOfStage, PinOfStage
  <2>2. ReportOfStage'
    BY <1>1 DEF RejectAsset, Conclude, Outcome, Mutated, Removing, Kinds, Paths,
       EffectsOfStage, ReportOfStage, FilesOfStage, LeafOfStage, PinOfStage, OutputOfStage,
       OutputAtEnd, OverwritesWhatItLoaded, RemovesOnlyWhatItConverted,
       FailedLoadIsNotPacked
  <2>3. FilesOfStage'
    BY <1>1 DEF RejectAsset, Conclude, Outcome, Paths, Absent, Removing, Kinds,
       EffectsOfStage, ReportOfStage, FilesOfStage, LeafOfStage, PinOfStage
  <2>4. LeafOfStage'
    BY <1>1 DEF RejectAsset, Conclude, Outcome, Out, Paths, Entries, Absent, Removing,
       Kinds, EffectsOfStage, ReportOfStage, FilesOfStage, LeafOfStage, PinOfStage
  <2>5. PinOfStage'
    BY <1>1 DEF RejectAsset, Conclude, Outcome, SourceFile, Paths, Entries, Removing, Kinds,
       EffectsOfStage, ReportOfStage, FilesOfStage, LeafOfStage, PinOfStage, OutputOfStage,
       OutputAtEnd, OverwritesWhatItLoaded, RemovesOnlyWhatItConverted,
       FailedLoadIsNotPacked
  <2>6. OutputOfStage' /\ OutputAtEnd'
    BY <1>1 DEF RejectAsset, Conclude, Outcome, Out, Paths, Removing, Kinds, EffectsOfStage,
       ReportOfStage, FilesOfStage, LeafOfStage, PinOfStage, OutputOfStage, OutputAtEnd,
       OverwritesWhatItLoaded, RemovesOnlyWhatItConverted, FailedLoadIsNotPacked
  <2>7. OverwritesWhatItLoaded' /\ RemovesOnlyWhatItConverted' /\ FailedLoadIsNotPacked'
    BY <1>1 DEF RejectAsset, Conclude, Outcome, Out, Mutated, Removing, Kinds, Paths,
       EffectsOfStage, ReportOfStage, FilesOfStage, LeafOfStage, PinOfStage, OutputOfStage,
       OutputAtEnd, OverwritesWhatItLoaded, RemovesOnlyWhatItConverted,
       FailedLoadIsNotPacked
  <2>8. QED
    BY <2>1, <2>2, <2>3, <2>4, <2>5, <2>6, <2>7 DEF AttemptInv
<1>2. CASE Begin
  <2>1. EffectsOfStage'
    BY <1>2 DEF Begin, Proceed, Removing, Kinds, Paths, EffectsOfStage, ReportOfStage,
       FilesOfStage, LeafOfStage, PinOfStage
  <2>2. ReportOfStage'
    BY <1>2 DEF Begin, Proceed, Mutated, Removing, Kinds, Paths, EffectsOfStage,
       ReportOfStage, FilesOfStage, LeafOfStage, PinOfStage, OutputOfStage, OutputAtEnd,
       OverwritesWhatItLoaded, RemovesOnlyWhatItConverted, FailedLoadIsNotPacked
  <2>3. FilesOfStage'
    BY <1>2 DEF Begin, Proceed, Paths, Absent, Removing, Kinds, EffectsOfStage,
       ReportOfStage, FilesOfStage, LeafOfStage, PinOfStage
  <2>4. LeafOfStage'
    BY <1>2 DEF Begin, Proceed, Out, Paths, Entries, Absent, Removing, Kinds,
       EffectsOfStage, ReportOfStage, FilesOfStage, LeafOfStage, PinOfStage
  <2>5. PinOfStage'
    BY <1>2 DEF Begin, Proceed, SourceFile, Paths, Entries, Removing, Kinds, EffectsOfStage,
       ReportOfStage, FilesOfStage, LeafOfStage, PinOfStage, OutputOfStage, OutputAtEnd,
       OverwritesWhatItLoaded, RemovesOnlyWhatItConverted, FailedLoadIsNotPacked
  <2>6. OutputOfStage' /\ OutputAtEnd'
    BY <1>2 DEF Begin, Proceed, Out, Paths, Removing, Kinds, EffectsOfStage, ReportOfStage,
       FilesOfStage, LeafOfStage, PinOfStage, OutputOfStage, OutputAtEnd,
       OverwritesWhatItLoaded, RemovesOnlyWhatItConverted, FailedLoadIsNotPacked
  <2>7. OverwritesWhatItLoaded' /\ RemovesOnlyWhatItConverted' /\ FailedLoadIsNotPacked'
    BY <1>2 DEF Begin, Proceed, Out, Mutated, Removing, Kinds, Paths, EffectsOfStage,
       ReportOfStage, FilesOfStage, LeafOfStage, PinOfStage, OutputOfStage, OutputAtEnd,
       OverwritesWhatItLoaded, RemovesOnlyWhatItConverted, FailedLoadIsNotPacked
  <2>8. QED
    BY <2>1, <2>2, <2>3, <2>4, <2>5, <2>6, <2>7 DEF AttemptInv
<1>3. CASE PinSource
  <2>1. EffectsOfStage'
    BY <1>3 DEF PinSource, Proceed, Conclude, Outcome, Present, SourceFile, Removing, Kinds,
       Paths, EffectsOfStage, ReportOfStage, FilesOfStage, LeafOfStage, PinOfStage
  <2>2. ReportOfStage'
    BY <1>3 DEF PinSource, Proceed, Conclude, Outcome, Present, SourceFile, Mutated,
       Removing, Kinds, Paths, EffectsOfStage, ReportOfStage, FilesOfStage, LeafOfStage,
       PinOfStage, OutputOfStage, OutputAtEnd, OverwritesWhatItLoaded,
       RemovesOnlyWhatItConverted, FailedLoadIsNotPacked
  <2>3. FilesOfStage'
    BY <1>3 DEF PinSource, Proceed, Conclude, Outcome, Present, SourceFile, Paths, Absent,
       Removing, Kinds, EffectsOfStage, ReportOfStage, FilesOfStage, LeafOfStage, PinOfStage
  <2>4. LeafOfStage'
    BY <1>3 DEF PinSource, Proceed, Conclude, Outcome, Present, SourceFile, Out, Paths,
       Entries, Absent, Removing, Kinds, EffectsOfStage, ReportOfStage, FilesOfStage,
       LeafOfStage, PinOfStage
  <2>5. PinOfStage'
    BY <1>3 DEF PinSource, Proceed, Conclude, Outcome, Present, SourceFile, Paths, Entries,
       Removing, Kinds, EffectsOfStage, ReportOfStage, FilesOfStage, LeafOfStage,
       PinOfStage, OutputOfStage, OutputAtEnd, OverwritesWhatItLoaded,
       RemovesOnlyWhatItConverted, FailedLoadIsNotPacked
  <2>6. OutputOfStage' /\ OutputAtEnd'
    BY <1>3 DEF PinSource, Proceed, Conclude, Outcome, Present, SourceFile, Out, Paths,
       Removing, Kinds, EffectsOfStage, ReportOfStage, FilesOfStage, LeafOfStage,
       PinOfStage, OutputOfStage, OutputAtEnd, OverwritesWhatItLoaded,
       RemovesOnlyWhatItConverted, FailedLoadIsNotPacked
  <2>7. OverwritesWhatItLoaded' /\ RemovesOnlyWhatItConverted' /\ FailedLoadIsNotPacked'
    BY <1>3 DEF PinSource, Proceed, Conclude, Outcome, Present, SourceFile, Out, Mutated,
       Removing, Kinds, Paths, EffectsOfStage, ReportOfStage, FilesOfStage, LeafOfStage,
       PinOfStage, OutputOfStage, OutputAtEnd, OverwritesWhatItLoaded,
       RemovesOnlyWhatItConverted, FailedLoadIsNotPacked
  <2>8. QED
    BY <2>1, <2>2, <2>3, <2>4, <2>5, <2>6, <2>7 DEF AttemptInv
<1>4. CASE CaptureTarget
  <2>1. EffectsOfStage'
    BY <1>4 DEF CaptureTarget, Proceed, Conclude, Outcome, Out, Removing, Kinds, Paths,
       EffectsOfStage, ReportOfStage, FilesOfStage, LeafOfStage, PinOfStage
  <2>2. ReportOfStage'
    BY <1>4 DEF CaptureTarget, Proceed, Conclude, Outcome, Out, Mutated, Removing, Kinds,
       Paths, EffectsOfStage, ReportOfStage, FilesOfStage, LeafOfStage, PinOfStage,
       OutputOfStage, OutputAtEnd, OverwritesWhatItLoaded, RemovesOnlyWhatItConverted,
       FailedLoadIsNotPacked
  <2>3. FilesOfStage'
    BY <1>4 DEF CaptureTarget, Proceed, Conclude, Outcome, Out, Paths, Absent, Removing,
       Kinds, EffectsOfStage, ReportOfStage, FilesOfStage, LeafOfStage, PinOfStage
  <2>4. LeafOfStage'
    BY <1>4 DEF CaptureTarget, Proceed, Conclude, Outcome, Out, Paths, Entries, Absent,
       Removing, Kinds, EffectsOfStage, ReportOfStage, FilesOfStage, LeafOfStage, PinOfStage
  <2>5. PinOfStage'
    BY <1>4 DEF CaptureTarget, Proceed, Conclude, Outcome, Out, SourceFile, Paths, Entries,
       Removing, Kinds, EffectsOfStage, ReportOfStage, FilesOfStage, LeafOfStage,
       PinOfStage, OutputOfStage, OutputAtEnd, OverwritesWhatItLoaded,
       RemovesOnlyWhatItConverted, FailedLoadIsNotPacked
  <2>6. OutputOfStage' /\ OutputAtEnd'
    BY <1>4 DEF CaptureTarget, Proceed, Conclude, Outcome, Out, Paths, Removing, Kinds,
       EffectsOfStage, ReportOfStage, FilesOfStage, LeafOfStage, PinOfStage, OutputOfStage,
       OutputAtEnd, OverwritesWhatItLoaded, RemovesOnlyWhatItConverted,
       FailedLoadIsNotPacked
  <2>7. OverwritesWhatItLoaded' /\ RemovesOnlyWhatItConverted' /\ FailedLoadIsNotPacked'
    BY <1>4 DEF CaptureTarget, Proceed, Conclude, Outcome, Out, Mutated, Removing, Kinds,
       Paths, EffectsOfStage, ReportOfStage, FilesOfStage, LeafOfStage, PinOfStage,
       OutputOfStage, OutputAtEnd, OverwritesWhatItLoaded, RemovesOnlyWhatItConverted,
       FailedLoadIsNotPacked
  <2>8. QED
    BY <2>1, <2>2, <2>3, <2>4, <2>5, <2>6, <2>7 DEF AttemptInv
<1>5. CASE Load
  <2>1. EffectsOfStage'
    BY <1>5 DEF Load, Proceed, Conclude, Outcome, Present, SourceFile, Removing, Kinds,
       Paths, EffectsOfStage, ReportOfStage, FilesOfStage, LeafOfStage, PinOfStage
  <2>2. ReportOfStage'
    BY <1>5 DEF Load, Proceed, Conclude, Outcome, Present, SourceFile, Mutated, Removing,
       Kinds, Paths, EffectsOfStage, ReportOfStage, FilesOfStage, LeafOfStage, PinOfStage,
       OutputOfStage, OutputAtEnd, OverwritesWhatItLoaded, RemovesOnlyWhatItConverted,
       FailedLoadIsNotPacked
  <2>3. FilesOfStage'
    BY <1>5 DEF Load, Proceed, Conclude, Outcome, Present, SourceFile, Paths, Absent,
       Removing, Kinds, EffectsOfStage, ReportOfStage, FilesOfStage, LeafOfStage, PinOfStage
  <2>4. LeafOfStage'
    BY <1>5 DEF Load, Proceed, Conclude, Outcome, Present, SourceFile, Out, Paths, Entries,
       Absent, Removing, Kinds, EffectsOfStage, ReportOfStage, FilesOfStage, LeafOfStage,
       PinOfStage
  <2>5. PinOfStage'
    BY <1>5 DEF Load, Proceed, Conclude, Outcome, Present, SourceFile, Paths, Entries,
       Removing, Kinds, EffectsOfStage, ReportOfStage, FilesOfStage, LeafOfStage,
       PinOfStage, OutputOfStage, OutputAtEnd, OverwritesWhatItLoaded,
       RemovesOnlyWhatItConverted, FailedLoadIsNotPacked
  <2>6. OutputOfStage' /\ OutputAtEnd'
    BY <1>5 DEF Load, Proceed, Conclude, Outcome, Present, SourceFile, Out, Paths, Removing,
       Kinds, EffectsOfStage, ReportOfStage, FilesOfStage, LeafOfStage, PinOfStage,
       OutputOfStage, OutputAtEnd, OverwritesWhatItLoaded, RemovesOnlyWhatItConverted,
       FailedLoadIsNotPacked
  <2>7. OverwritesWhatItLoaded' /\ RemovesOnlyWhatItConverted' /\ FailedLoadIsNotPacked'
    BY <1>5 DEF Load, Proceed, Conclude, Outcome, Present, SourceFile, Out, Mutated,
       Removing, Kinds, Paths, EffectsOfStage, ReportOfStage, FilesOfStage, LeafOfStage,
       PinOfStage, OutputOfStage, OutputAtEnd, OverwritesWhatItLoaded,
       RemovesOnlyWhatItConverted, FailedLoadIsNotPacked
  <2>8. QED
    BY <2>1, <2>2, <2>3, <2>4, <2>5, <2>6, <2>7 DEF AttemptInv
<1>6. CASE Operate
  <2>1. EffectsOfStage'
    BY <1>6 DEF Operate, Proceed, Conclude, Outcome, Succeed, Removing, Kinds, Paths,
       EffectsOfStage, ReportOfStage, FilesOfStage, LeafOfStage, PinOfStage
  <2>2. ReportOfStage'
    BY <1>6 DEF Operate, Proceed, Conclude, Outcome, Succeed, Mutated, Removing, Kinds,
       Paths, EffectsOfStage, ReportOfStage, FilesOfStage, LeafOfStage, PinOfStage,
       OutputOfStage, OutputAtEnd, OverwritesWhatItLoaded, RemovesOnlyWhatItConverted,
       FailedLoadIsNotPacked
  <2>3. FilesOfStage'
    BY <1>6 DEF Operate, Proceed, Conclude, Outcome, Succeed, Paths, Absent, Removing,
       Kinds, EffectsOfStage, ReportOfStage, FilesOfStage, LeafOfStage, PinOfStage
  <2>4. LeafOfStage'
    BY <1>6 DEF Operate, Proceed, Conclude, Outcome, Succeed, Out, Paths, Entries, Absent,
       Removing, Kinds, EffectsOfStage, ReportOfStage, FilesOfStage, LeafOfStage, PinOfStage
  <2>5. PinOfStage'
    BY <1>6 DEF Operate, Proceed, Conclude, Outcome, Succeed, SourceFile, Paths, Entries,
       Removing, Kinds, EffectsOfStage, ReportOfStage, FilesOfStage, LeafOfStage,
       PinOfStage, OutputOfStage, OutputAtEnd, OverwritesWhatItLoaded,
       RemovesOnlyWhatItConverted, FailedLoadIsNotPacked
  <2>6. OutputOfStage' /\ OutputAtEnd'
    BY <1>6 DEF Operate, Proceed, Conclude, Outcome, Succeed, Out, Paths, Removing, Kinds,
       EffectsOfStage, ReportOfStage, FilesOfStage, LeafOfStage, PinOfStage, OutputOfStage,
       OutputAtEnd, OverwritesWhatItLoaded, RemovesOnlyWhatItConverted,
       FailedLoadIsNotPacked
  <2>7. OverwritesWhatItLoaded' /\ RemovesOnlyWhatItConverted' /\ FailedLoadIsNotPacked'
    BY <1>6 DEF Operate, Proceed, Conclude, Outcome, Succeed, Out, Mutated, Removing, Kinds,
       Paths, EffectsOfStage, ReportOfStage, FilesOfStage, LeafOfStage, PinOfStage,
       OutputOfStage, OutputAtEnd, OverwritesWhatItLoaded, RemovesOnlyWhatItConverted,
       FailedLoadIsNotPacked
  <2>8. QED
    BY <2>1, <2>2, <2>3, <2>4, <2>5, <2>6, <2>7 DEF AttemptInv
<1>7. CASE OptimizeAnimation
  <2>1. EffectsOfStage'
    BY <1>7 DEF OptimizeAnimation, Proceed, Conclude, Outcome, Succeed, Present, SourceFile,
       Removing, Kinds, Paths, EffectsOfStage, ReportOfStage, FilesOfStage, LeafOfStage,
       PinOfStage
  <2>2. ReportOfStage'
    BY <1>7 DEF OptimizeAnimation, Proceed, Conclude, Outcome, Succeed, Present, SourceFile,
       Mutated, Removing, Kinds, Paths, EffectsOfStage, ReportOfStage, FilesOfStage,
       LeafOfStage, PinOfStage, OutputOfStage, OutputAtEnd, OverwritesWhatItLoaded,
       RemovesOnlyWhatItConverted, FailedLoadIsNotPacked
  <2>3. FilesOfStage'
    BY <1>7 DEF OptimizeAnimation, Proceed, Conclude, Outcome, Succeed, Present, SourceFile,
       Paths, Absent, Removing, Kinds, EffectsOfStage, ReportOfStage, FilesOfStage,
       LeafOfStage, PinOfStage
  <2>4. LeafOfStage'
    BY <1>7 DEF OptimizeAnimation, Proceed, Conclude, Outcome, Succeed, Present, SourceFile,
       Out, Paths, Entries, Absent, Removing, Kinds, EffectsOfStage, ReportOfStage,
       FilesOfStage, LeafOfStage, PinOfStage
  <2>5. PinOfStage'
    BY <1>7 DEF OptimizeAnimation, Proceed, Conclude, Outcome, Succeed, Present, SourceFile,
       Paths, Entries, Removing, Kinds, EffectsOfStage, ReportOfStage, FilesOfStage,
       LeafOfStage, PinOfStage, OutputOfStage, OutputAtEnd, OverwritesWhatItLoaded,
       RemovesOnlyWhatItConverted, FailedLoadIsNotPacked
  <2>6. OutputOfStage' /\ OutputAtEnd'
    BY <1>7 DEF OptimizeAnimation, Proceed, Conclude, Outcome, Succeed, Present, SourceFile,
       Out, Paths, Removing, Kinds, EffectsOfStage, ReportOfStage, FilesOfStage,
       LeafOfStage, PinOfStage, OutputOfStage, OutputAtEnd, OverwritesWhatItLoaded,
       RemovesOnlyWhatItConverted, FailedLoadIsNotPacked
  <2>7. OverwritesWhatItLoaded' /\ RemovesOnlyWhatItConverted' /\ FailedLoadIsNotPacked'
    BY <1>7 DEF OptimizeAnimation, Proceed, Conclude, Outcome, Succeed, Present, SourceFile,
       Out, Mutated, Removing, Kinds, Paths, EffectsOfStage, ReportOfStage, FilesOfStage,
       LeafOfStage, PinOfStage, OutputOfStage, OutputAtEnd, OverwritesWhatItLoaded,
       RemovesOnlyWhatItConverted, FailedLoadIsNotPacked
  <2>8. QED
    BY <2>1, <2>2, <2>3, <2>4, <2>5, <2>6, <2>7 DEF AttemptInv
<1>8. CASE Stage
  <2>1. EffectsOfStage'
    BY <1>8 DEF Stage, Proceed, Conclude, Outcome, TargetUnchanged, Out, Removing, Kinds,
       Paths, EffectsOfStage, ReportOfStage, FilesOfStage, LeafOfStage, PinOfStage
  <2>2. ReportOfStage'
    BY <1>8 DEF Stage, Proceed, Conclude, Outcome, TargetUnchanged, Out, Mutated, Removing,
       Kinds, Paths, EffectsOfStage, ReportOfStage, FilesOfStage, LeafOfStage, PinOfStage,
       OutputOfStage, OutputAtEnd, OverwritesWhatItLoaded, RemovesOnlyWhatItConverted,
       FailedLoadIsNotPacked
  <2>3. FilesOfStage'
    BY <1>8 DEF Stage, Proceed, Conclude, Outcome, TargetUnchanged, Out, Paths, Absent,
       Removing, Kinds, EffectsOfStage, ReportOfStage, FilesOfStage, LeafOfStage, PinOfStage
  <2>4. LeafOfStage'
    BY <1>8 DEF Stage, Proceed, Conclude, Outcome, TargetUnchanged, Out, Paths, Entries,
       Absent, Removing, Kinds, EffectsOfStage, ReportOfStage, FilesOfStage, LeafOfStage,
       PinOfStage
  <2>5. PinOfStage'
    BY <1>8 DEF Stage, Proceed, Conclude, Outcome, TargetUnchanged, Out, SourceFile, Paths,
       Entries, Removing, Kinds, EffectsOfStage, ReportOfStage, FilesOfStage, LeafOfStage,
       PinOfStage, OutputOfStage, OutputAtEnd, OverwritesWhatItLoaded,
       RemovesOnlyWhatItConverted, FailedLoadIsNotPacked
  <2>6. OutputOfStage' /\ OutputAtEnd'
    BY <1>8 DEF Stage, Proceed, Conclude, Outcome, TargetUnchanged, Out, Paths, Removing,
       Kinds, EffectsOfStage, ReportOfStage, FilesOfStage, LeafOfStage, PinOfStage,
       OutputOfStage, OutputAtEnd, OverwritesWhatItLoaded, RemovesOnlyWhatItConverted,
       FailedLoadIsNotPacked
  <2>7. OverwritesWhatItLoaded' /\ RemovesOnlyWhatItConverted' /\ FailedLoadIsNotPacked'
    BY <1>8 DEF Stage, Proceed, Conclude, Outcome, TargetUnchanged, Out, Mutated, Removing,
       Kinds, Paths, EffectsOfStage, ReportOfStage, FilesOfStage, LeafOfStage, PinOfStage,
       OutputOfStage, OutputAtEnd, OverwritesWhatItLoaded, RemovesOnlyWhatItConverted,
       FailedLoadIsNotPacked
  <2>8. QED
    BY <2>1, <2>2, <2>3, <2>4, <2>5, <2>6, <2>7 DEF AttemptInv
<1>9. CASE Save
  <2>1. EffectsOfStage'
    BY <1>9 DEF Save, Proceed, Conclude, Outcome, Removing, Kinds, Paths, EffectsOfStage,
       ReportOfStage, FilesOfStage, LeafOfStage, PinOfStage
  <2>2. ReportOfStage'
    BY <1>9 DEF Save, Proceed, Conclude, Outcome, Mutated, Removing, Kinds, Paths,
       EffectsOfStage, ReportOfStage, FilesOfStage, LeafOfStage, PinOfStage, OutputOfStage,
       OutputAtEnd, OverwritesWhatItLoaded, RemovesOnlyWhatItConverted,
       FailedLoadIsNotPacked
  <2>3. FilesOfStage'
    BY <1>9 DEF Save, Proceed, Conclude, Outcome, Paths, Absent, Removing, Kinds,
       EffectsOfStage, ReportOfStage, FilesOfStage, LeafOfStage, PinOfStage
  <2>4. LeafOfStage'
    BY <1>9 DEF Save, Proceed, Conclude, Outcome, Out, Paths, Entries, Absent, Removing,
       Kinds, EffectsOfStage, ReportOfStage, FilesOfStage, LeafOfStage, PinOfStage
  <2>5. PinOfStage'
    BY <1>9 DEF Save, Proceed, Conclude, Outcome, SourceFile, Paths, Entries, Removing,
       Kinds, EffectsOfStage, ReportOfStage, FilesOfStage, LeafOfStage, PinOfStage,
       OutputOfStage, OutputAtEnd, OverwritesWhatItLoaded, RemovesOnlyWhatItConverted,
       FailedLoadIsNotPacked
  <2>6. OutputOfStage' /\ OutputAtEnd'
    BY <1>9 DEF Save, Proceed, Conclude, Outcome, Out, Paths, Removing, Kinds,
       EffectsOfStage, ReportOfStage, FilesOfStage, LeafOfStage, PinOfStage, OutputOfStage,
       OutputAtEnd, OverwritesWhatItLoaded, RemovesOnlyWhatItConverted,
       FailedLoadIsNotPacked
  <2>7. OverwritesWhatItLoaded' /\ RemovesOnlyWhatItConverted' /\ FailedLoadIsNotPacked'
    BY <1>9 DEF Save, Proceed, Conclude, Outcome, Out, Mutated, Removing, Kinds, Paths,
       EffectsOfStage, ReportOfStage, FilesOfStage, LeafOfStage, PinOfStage, OutputOfStage,
       OutputAtEnd, OverwritesWhatItLoaded, RemovesOnlyWhatItConverted,
       FailedLoadIsNotPacked
  <2>8. QED
    BY <2>1, <2>2, <2>3, <2>4, <2>5, <2>6, <2>7 DEF AttemptInv
<1>10. CASE CheckDestination
  <2>1. EffectsOfStage'
    BY <1>10 DEF CheckDestination, Proceed, FailPublication, PublicationMutation,
       PublicationSafe, Conclude, Outcome, TargetUnchanged, Out, Removing, Kinds, Paths,
       EffectsOfStage, ReportOfStage, FilesOfStage, LeafOfStage, PinOfStage
  <2>2. ReportOfStage'
    BY <1>10 DEF CheckDestination, Proceed, FailPublication, PublicationMutation,
       PublicationSafe, Conclude, Outcome, TargetUnchanged, Out, Mutated, Removing, Kinds,
       Paths, EffectsOfStage, ReportOfStage, FilesOfStage, LeafOfStage, PinOfStage,
       OutputOfStage, OutputAtEnd, OverwritesWhatItLoaded, RemovesOnlyWhatItConverted,
       FailedLoadIsNotPacked
  <2>3. FilesOfStage'
    BY <1>10 DEF CheckDestination, Proceed, FailPublication, PublicationMutation,
       PublicationSafe, Conclude, Outcome, TargetUnchanged, Out, Paths, Absent, Removing,
       Kinds, EffectsOfStage, ReportOfStage, FilesOfStage, LeafOfStage, PinOfStage
  <2>4. LeafOfStage'
    BY <1>10 DEF CheckDestination, Proceed, FailPublication, PublicationMutation,
       PublicationSafe, Conclude, Outcome, TargetUnchanged, Out, Paths, Entries, Absent,
       Removing, Kinds, EffectsOfStage, ReportOfStage, FilesOfStage, LeafOfStage, PinOfStage
  <2>5. PinOfStage'
    BY <1>10 DEF CheckDestination, Proceed, FailPublication, PublicationMutation,
       PublicationSafe, Conclude, Outcome, TargetUnchanged, Out, SourceFile, Paths, Entries,
       Removing, Kinds, EffectsOfStage, ReportOfStage, FilesOfStage, LeafOfStage,
       PinOfStage, OutputOfStage, OutputAtEnd, OverwritesWhatItLoaded,
       RemovesOnlyWhatItConverted, FailedLoadIsNotPacked
  <2>6. OutputOfStage' /\ OutputAtEnd'
    BY <1>10 DEF CheckDestination, Proceed, FailPublication, PublicationMutation,
       PublicationSafe, Conclude, Outcome, TargetUnchanged, Out, Paths, Removing, Kinds,
       EffectsOfStage, ReportOfStage, FilesOfStage, LeafOfStage, PinOfStage, OutputOfStage,
       OutputAtEnd, OverwritesWhatItLoaded, RemovesOnlyWhatItConverted,
       FailedLoadIsNotPacked
  <2>7. OverwritesWhatItLoaded' /\ RemovesOnlyWhatItConverted' /\ FailedLoadIsNotPacked'
    BY <1>10 DEF CheckDestination, Proceed, FailPublication, PublicationMutation,
       PublicationSafe, Conclude, Outcome, TargetUnchanged, Out, Mutated, Removing, Kinds,
       Paths, EffectsOfStage, ReportOfStage, FilesOfStage, LeafOfStage, PinOfStage,
       OutputOfStage, OutputAtEnd, OverwritesWhatItLoaded, RemovesOnlyWhatItConverted,
       FailedLoadIsNotPacked
  <2>8. QED
    BY <2>1, <2>2, <2>3, <2>4, <2>5, <2>6, <2>7 DEF AttemptInv
<1>11. CASE RenameStaged
  <2>1. EffectsOfStage'
    BY <1>11 DEF RenameStaged, Proceed, FailPublication, PublicationMutation,
       PublicationSafe, Conclude, Outcome, Out, Made, Removing, Kinds, Paths,
       EffectsOfStage, ReportOfStage, FilesOfStage, LeafOfStage, PinOfStage
  <2>2. ReportOfStage'
    BY <1>11 DEF RenameStaged, Proceed, FailPublication, PublicationMutation,
       PublicationSafe, Conclude, Outcome, Out, Made, Mutated, Removing, Kinds, Paths,
       EffectsOfStage, ReportOfStage, FilesOfStage, LeafOfStage, PinOfStage, OutputOfStage,
       OutputAtEnd, OverwritesWhatItLoaded, RemovesOnlyWhatItConverted,
       FailedLoadIsNotPacked
  <2>3. FilesOfStage'
    BY <1>11 DEF RenameStaged, Proceed, FailPublication, PublicationMutation,
       PublicationSafe, Conclude, Outcome, Out, Made, Paths, Absent, Removing, Kinds,
       EffectsOfStage, ReportOfStage, FilesOfStage, LeafOfStage, PinOfStage
  <2>4. LeafOfStage'
    BY <1>11 DEF RenameStaged, Proceed, FailPublication, PublicationMutation,
       PublicationSafe, Conclude, Outcome, Out, Made, Paths, Entries, Absent, Removing,
       Kinds, EffectsOfStage, ReportOfStage, FilesOfStage, LeafOfStage, PinOfStage
  <2>5. PinOfStage'
    BY <1>11 DEF RenameStaged, Proceed, FailPublication, PublicationMutation,
       PublicationSafe, Conclude, Outcome, Out, Made, SourceFile, Paths, Entries, Removing,
       Kinds, EffectsOfStage, ReportOfStage, FilesOfStage, LeafOfStage, PinOfStage,
       OutputOfStage, OutputAtEnd, OverwritesWhatItLoaded, RemovesOnlyWhatItConverted,
       FailedLoadIsNotPacked
  <2>6. OutputOfStage' /\ OutputAtEnd'
    BY <1>11 DEF RenameStaged, Proceed, FailPublication, PublicationMutation,
       PublicationSafe, Conclude, Outcome, Out, Made, Paths, Removing, Kinds,
       EffectsOfStage, ReportOfStage, FilesOfStage, LeafOfStage, PinOfStage, OutputOfStage,
       OutputAtEnd, OverwritesWhatItLoaded, RemovesOnlyWhatItConverted,
       FailedLoadIsNotPacked
  <2>7. OverwritesWhatItLoaded' /\ RemovesOnlyWhatItConverted' /\ FailedLoadIsNotPacked'
    BY <1>11 DEF RenameStaged, Proceed, FailPublication, PublicationMutation,
       PublicationSafe, Conclude, Outcome, Out, Made, Mutated, Removing, Kinds, Paths,
       EffectsOfStage, ReportOfStage, FilesOfStage, LeafOfStage, PinOfStage, OutputOfStage,
       OutputAtEnd, OverwritesWhatItLoaded, RemovesOnlyWhatItConverted,
       FailedLoadIsNotPacked
  <2>8. QED
    BY <2>1, <2>2, <2>3, <2>4, <2>5, <2>6, <2>7 DEF AttemptInv
<1>12. CASE Release
  <2>1. EffectsOfStage'
    BY <1>12 DEF Release, Proceed, Succeed, FailPublication, PublicationMutation,
       PublicationSafe, Conclude, Outcome, Removing, Kinds, Paths, EffectsOfStage,
       ReportOfStage, FilesOfStage, LeafOfStage, PinOfStage
  <2>2. ReportOfStage'
    BY <1>12 DEF Release, Proceed, Succeed, FailPublication, PublicationMutation,
       PublicationSafe, Conclude, Outcome, Mutated, Removing, Kinds, Paths, EffectsOfStage,
       ReportOfStage, FilesOfStage, LeafOfStage, PinOfStage, OutputOfStage, OutputAtEnd,
       OverwritesWhatItLoaded, RemovesOnlyWhatItConverted, FailedLoadIsNotPacked
  <2>3. FilesOfStage'
    BY <1>12 DEF Release, Proceed, Succeed, FailPublication, PublicationMutation,
       PublicationSafe, Conclude, Outcome, Paths, Absent, Removing, Kinds, EffectsOfStage,
       ReportOfStage, FilesOfStage, LeafOfStage, PinOfStage
  <2>4. LeafOfStage'
    BY <1>12 DEF Release, Proceed, Succeed, FailPublication, PublicationMutation,
       PublicationSafe, Conclude, Outcome, Out, Paths, Entries, Absent, Removing, Kinds,
       EffectsOfStage, ReportOfStage, FilesOfStage, LeafOfStage, PinOfStage
  <2>5. PinOfStage'
    BY <1>12 DEF Release, Proceed, Succeed, FailPublication, PublicationMutation,
       PublicationSafe, Conclude, Outcome, SourceFile, Paths, Entries, Removing, Kinds,
       EffectsOfStage, ReportOfStage, FilesOfStage, LeafOfStage, PinOfStage, OutputOfStage,
       OutputAtEnd, OverwritesWhatItLoaded, RemovesOnlyWhatItConverted,
       FailedLoadIsNotPacked
  <2>6. OutputOfStage' /\ OutputAtEnd'
    BY <1>12 DEF Release, Proceed, Succeed, FailPublication, PublicationMutation,
       PublicationSafe, Conclude, Outcome, Out, Paths, Removing, Kinds, EffectsOfStage,
       ReportOfStage, FilesOfStage, LeafOfStage, PinOfStage, OutputOfStage, OutputAtEnd,
       OverwritesWhatItLoaded, RemovesOnlyWhatItConverted, FailedLoadIsNotPacked
  <2>7. OverwritesWhatItLoaded' /\ RemovesOnlyWhatItConverted' /\ FailedLoadIsNotPacked'
    BY <1>12 DEF Release, Proceed, Succeed, FailPublication, PublicationMutation,
       PublicationSafe, Conclude, Outcome, Out, Mutated, Removing, Kinds, Paths,
       EffectsOfStage, ReportOfStage, FilesOfStage, LeafOfStage, PinOfStage, OutputOfStage,
       OutputAtEnd, OverwritesWhatItLoaded, RemovesOnlyWhatItConverted,
       FailedLoadIsNotPacked
  <2>8. QED
    BY <2>1, <2>2, <2>3, <2>4, <2>5, <2>6, <2>7 DEF AttemptInv
<1>13. CASE VerifyConversion
  <2>1. EffectsOfStage'
    BY <1>13 DEF VerifyConversion, Proceed, Conclude, Outcome, RetainedUsable, SourceFile,
       Removing, Kinds, Paths, EffectsOfStage, ReportOfStage, FilesOfStage, LeafOfStage,
       PinOfStage
  <2>2. ReportOfStage'
    BY <1>13 DEF VerifyConversion, Proceed, Conclude, Outcome, RetainedUsable, SourceFile,
       Mutated, Removing, Kinds, Paths, EffectsOfStage, ReportOfStage, FilesOfStage,
       LeafOfStage, PinOfStage, OutputOfStage, OutputAtEnd, OverwritesWhatItLoaded,
       RemovesOnlyWhatItConverted, FailedLoadIsNotPacked
  <2>3. FilesOfStage'
    BY <1>13 DEF VerifyConversion, Proceed, Conclude, Outcome, RetainedUsable, SourceFile,
       Paths, Absent, Removing, Kinds, EffectsOfStage, ReportOfStage, FilesOfStage,
       LeafOfStage, PinOfStage
  <2>4. LeafOfStage'
    BY <1>13 DEF VerifyConversion, Proceed, Conclude, Outcome, RetainedUsable, SourceFile,
       Out, Paths, Entries, Absent, Removing, Kinds, EffectsOfStage, ReportOfStage,
       FilesOfStage, LeafOfStage, PinOfStage
  <2>5. PinOfStage'
    BY <1>13 DEF VerifyConversion, Proceed, Conclude, Outcome, RetainedUsable, SourceFile,
       Paths, Entries, Removing, Kinds, EffectsOfStage, ReportOfStage, FilesOfStage,
       LeafOfStage, PinOfStage, OutputOfStage, OutputAtEnd, OverwritesWhatItLoaded,
       RemovesOnlyWhatItConverted, FailedLoadIsNotPacked
  <2>6. OutputOfStage' /\ OutputAtEnd'
    BY <1>13 DEF VerifyConversion, Proceed, Conclude, Outcome, RetainedUsable, SourceFile,
       Out, Paths, Removing, Kinds, EffectsOfStage, ReportOfStage, FilesOfStage,
       LeafOfStage, PinOfStage, OutputOfStage, OutputAtEnd, OverwritesWhatItLoaded,
       RemovesOnlyWhatItConverted, FailedLoadIsNotPacked
  <2>7. OverwritesWhatItLoaded' /\ RemovesOnlyWhatItConverted' /\ FailedLoadIsNotPacked'
    BY <1>13 DEF VerifyConversion, Proceed, Conclude, Outcome, RetainedUsable, SourceFile,
       Out, Mutated, Removing, Kinds, Paths, EffectsOfStage, ReportOfStage, FilesOfStage,
       LeafOfStage, PinOfStage, OutputOfStage, OutputAtEnd, OverwritesWhatItLoaded,
       RemovesOnlyWhatItConverted, FailedLoadIsNotPacked
  <2>8. QED
    BY <2>1, <2>2, <2>3, <2>4, <2>5, <2>6, <2>7 DEF AttemptInv
<1>14. CASE RemoveVerified
  <2>1. EffectsOfStage'
    BY <1>14 DEF RemoveVerified, Proceed, PinUnchanged, SourceFile, Removing, Kinds, Paths,
       EffectsOfStage, ReportOfStage, FilesOfStage, LeafOfStage, PinOfStage
  <2>2. ReportOfStage'
    BY <1>14 DEF RemoveVerified, Proceed, PinUnchanged, SourceFile, Mutated, Removing,
       Kinds, Paths, EffectsOfStage, ReportOfStage, FilesOfStage, LeafOfStage, PinOfStage,
       OutputOfStage, OutputAtEnd, OverwritesWhatItLoaded, RemovesOnlyWhatItConverted,
       FailedLoadIsNotPacked
  <2>3. FilesOfStage'
    BY <1>14 DEF RemoveVerified, Proceed, PinUnchanged, SourceFile, Paths, Absent, Removing,
       Kinds, EffectsOfStage, ReportOfStage, FilesOfStage, LeafOfStage, PinOfStage
  <2>4. LeafOfStage'
    BY <1>14 DEF RemoveVerified, Proceed, PinUnchanged, SourceFile, Out, Paths, Entries,
       Absent, Removing, Kinds, EffectsOfStage, ReportOfStage, FilesOfStage, LeafOfStage,
       PinOfStage
  <2>5. PinOfStage'
    BY <1>14 DEF RemoveVerified, Proceed, PinUnchanged, SourceFile, Paths, Entries,
       Removing, Kinds, EffectsOfStage, ReportOfStage, FilesOfStage, LeafOfStage,
       PinOfStage, OutputOfStage, OutputAtEnd, OverwritesWhatItLoaded,
       RemovesOnlyWhatItConverted, FailedLoadIsNotPacked
  <2>6. OutputOfStage' /\ OutputAtEnd'
    BY <1>14 DEF RemoveVerified, Proceed, PinUnchanged, SourceFile, Out, Paths, Removing,
       Kinds, EffectsOfStage, ReportOfStage, FilesOfStage, LeafOfStage, PinOfStage,
       OutputOfStage, OutputAtEnd, OverwritesWhatItLoaded, RemovesOnlyWhatItConverted,
       FailedLoadIsNotPacked
  <2>7. OverwritesWhatItLoaded' /\ RemovesOnlyWhatItConverted' /\ FailedLoadIsNotPacked'
    BY <1>14 DEF RemoveVerified, Proceed, PinUnchanged, SourceFile, Out, Mutated, Removing,
       Kinds, Paths, EffectsOfStage, ReportOfStage, FilesOfStage, LeafOfStage, PinOfStage,
       OutputOfStage, OutputAtEnd, OverwritesWhatItLoaded, RemovesOnlyWhatItConverted,
       FailedLoadIsNotPacked
  <2>8. QED
    BY <2>1, <2>2, <2>3, <2>4, <2>5, <2>6, <2>7 DEF AttemptInv
<1>15. CASE DeleteByHandle
  <2>1. EffectsOfStage'
    BY <1>15 DEF DeleteByHandle, Proceed, Succeed, Conclude, Outcome, Absent, Removing,
       Kinds, Paths, EffectsOfStage, ReportOfStage, FilesOfStage, LeafOfStage, PinOfStage
  <2>2. ReportOfStage'
    BY <1>15 DEF DeleteByHandle, Proceed, Succeed, Conclude, Outcome, Absent, Mutated,
       Removing, Kinds, Paths, EffectsOfStage, ReportOfStage, FilesOfStage, LeafOfStage,
       PinOfStage, OutputOfStage, OutputAtEnd, OverwritesWhatItLoaded,
       RemovesOnlyWhatItConverted, FailedLoadIsNotPacked
  <2>3. FilesOfStage'
    BY <1>15 DEF DeleteByHandle, Proceed, Succeed, Conclude, Outcome, Absent, Paths,
       Removing, Kinds, EffectsOfStage, ReportOfStage, FilesOfStage, LeafOfStage, PinOfStage
  <2>4. LeafOfStage'
    BY <1>15 DEF DeleteByHandle, Proceed, Succeed, Conclude, Outcome, Absent, Out, Paths,
       Entries, Removing, Kinds, EffectsOfStage, ReportOfStage, FilesOfStage, LeafOfStage,
       PinOfStage
  <2>5. PinOfStage'
    BY <1>15 DEF DeleteByHandle, Proceed, Succeed, Conclude, Outcome, Absent, SourceFile,
       Paths, Entries, Removing, Kinds, EffectsOfStage, ReportOfStage, FilesOfStage,
       LeafOfStage, PinOfStage, OutputOfStage, OutputAtEnd, OverwritesWhatItLoaded,
       RemovesOnlyWhatItConverted, FailedLoadIsNotPacked
  <2>6. OutputOfStage' /\ OutputAtEnd'
    BY <1>15 DEF DeleteByHandle, Proceed, Succeed, Conclude, Outcome, Absent, Out, Paths,
       Removing, Kinds, EffectsOfStage, ReportOfStage, FilesOfStage, LeafOfStage,
       PinOfStage, OutputOfStage, OutputAtEnd, OverwritesWhatItLoaded,
       RemovesOnlyWhatItConverted, FailedLoadIsNotPacked
  <2>7. OverwritesWhatItLoaded' /\ RemovesOnlyWhatItConverted' /\ FailedLoadIsNotPacked'
    BY <1>15 DEF DeleteByHandle, Proceed, Succeed, Conclude, Outcome, Absent, Out, Mutated,
       Removing, Kinds, Paths, EffectsOfStage, ReportOfStage, FilesOfStage, LeafOfStage,
       PinOfStage, OutputOfStage, OutputAtEnd, OverwritesWhatItLoaded,
       RemovesOnlyWhatItConverted, FailedLoadIsNotPacked
  <2>8. QED
    BY <2>1, <2>2, <2>3, <2>4, <2>5, <2>6, <2>7 DEF AttemptInv
<1>16. CASE JudgeRemoval
  <2>1. EffectsOfStage'
    BY <1>16 DEF JudgeRemoval, Conclude, Outcome, RetainedUsable, SourceFile, Removing,
       Kinds, Paths, EffectsOfStage, ReportOfStage, FilesOfStage, LeafOfStage, PinOfStage
  <2>2. ReportOfStage'
    BY <1>16 DEF JudgeRemoval, Conclude, Outcome, RetainedUsable, SourceFile, Mutated,
       Removing, Kinds, Paths, EffectsOfStage, ReportOfStage, FilesOfStage, LeafOfStage,
       PinOfStage, OutputOfStage, OutputAtEnd, OverwritesWhatItLoaded,
       RemovesOnlyWhatItConverted, FailedLoadIsNotPacked
  <2>3. FilesOfStage'
    BY <1>16 DEF JudgeRemoval, Conclude, Outcome, RetainedUsable, SourceFile, Paths, Absent,
       Removing, Kinds, EffectsOfStage, ReportOfStage, FilesOfStage, LeafOfStage, PinOfStage
  <2>4. LeafOfStage'
    BY <1>16 DEF JudgeRemoval, Conclude, Outcome, RetainedUsable, SourceFile, Out, Paths,
       Entries, Absent, Removing, Kinds, EffectsOfStage, ReportOfStage, FilesOfStage,
       LeafOfStage, PinOfStage
  <2>5. PinOfStage'
    BY <1>16 DEF JudgeRemoval, Conclude, Outcome, RetainedUsable, SourceFile, Paths,
       Entries, Removing, Kinds, EffectsOfStage, ReportOfStage, FilesOfStage, LeafOfStage,
       PinOfStage, OutputOfStage, OutputAtEnd, OverwritesWhatItLoaded,
       RemovesOnlyWhatItConverted, FailedLoadIsNotPacked
  <2>6. OutputOfStage' /\ OutputAtEnd'
    BY <1>16 DEF JudgeRemoval, Conclude, Outcome, RetainedUsable, SourceFile, Out, Paths,
       Removing, Kinds, EffectsOfStage, ReportOfStage, FilesOfStage, LeafOfStage,
       PinOfStage, OutputOfStage, OutputAtEnd, OverwritesWhatItLoaded,
       RemovesOnlyWhatItConverted, FailedLoadIsNotPacked
  <2>7. OverwritesWhatItLoaded' /\ RemovesOnlyWhatItConverted' /\ FailedLoadIsNotPacked'
    BY <1>16 DEF JudgeRemoval, Conclude, Outcome, RetainedUsable, SourceFile, Out, Mutated,
       Removing, Kinds, Paths, EffectsOfStage, ReportOfStage, FilesOfStage, LeafOfStage,
       PinOfStage, OutputOfStage, OutputAtEnd, OverwritesWhatItLoaded,
       RemovesOnlyWhatItConverted, FailedLoadIsNotPacked
  <2>8. QED
    BY <2>1, <2>2, <2>3, <2>4, <2>5, <2>6, <2>7 DEF AttemptInv
<1>17. CASE FinishAttempt
  <2>1. EffectsOfStage'
    BY <1>17 DEF FinishAttempt, Proceed, Removing, Kinds, Paths, EffectsOfStage,
       ReportOfStage, FilesOfStage, LeafOfStage, PinOfStage
  <2>2. ReportOfStage'
    BY <1>17 DEF FinishAttempt, Proceed, Mutated, Removing, Kinds, Paths, EffectsOfStage,
       ReportOfStage, FilesOfStage, LeafOfStage, PinOfStage, OutputOfStage, OutputAtEnd,
       OverwritesWhatItLoaded, RemovesOnlyWhatItConverted, FailedLoadIsNotPacked
  <2>3. FilesOfStage'
    BY <1>17 DEF FinishAttempt, Proceed, Paths, Absent, Removing, Kinds, EffectsOfStage,
       ReportOfStage, FilesOfStage, LeafOfStage, PinOfStage
  <2>4. LeafOfStage'
    BY <1>17 DEF FinishAttempt, Proceed, Out, Paths, Entries, Absent, Removing, Kinds,
       EffectsOfStage, ReportOfStage, FilesOfStage, LeafOfStage, PinOfStage
  <2>5. PinOfStage'
    BY <1>17 DEF FinishAttempt, Proceed, SourceFile, Paths, Entries, Removing, Kinds,
       EffectsOfStage, ReportOfStage, FilesOfStage, LeafOfStage, PinOfStage, OutputOfStage,
       OutputAtEnd, OverwritesWhatItLoaded, RemovesOnlyWhatItConverted,
       FailedLoadIsNotPacked
  <2>6. OutputOfStage' /\ OutputAtEnd'
    BY <1>17 DEF FinishAttempt, Proceed, Out, Paths, Removing, Kinds, EffectsOfStage,
       ReportOfStage, FilesOfStage, LeafOfStage, PinOfStage, OutputOfStage, OutputAtEnd,
       OverwritesWhatItLoaded, RemovesOnlyWhatItConverted, FailedLoadIsNotPacked
  <2>7. OverwritesWhatItLoaded' /\ RemovesOnlyWhatItConverted' /\ FailedLoadIsNotPacked'
    BY <1>17 DEF FinishAttempt, Proceed, Out, Mutated, Removing, Kinds, Paths,
       EffectsOfStage, ReportOfStage, FilesOfStage, LeafOfStage, PinOfStage, OutputOfStage,
       OutputAtEnd, OverwritesWhatItLoaded, RemovesOnlyWhatItConverted,
       FailedLoadIsNotPacked
  <2>8. QED
    BY <2>1, <2>2, <2>3, <2>4, <2>5, <2>6, <2>7 DEF AttemptInv
<1>18. CASE OpenForQuarantine
  <2>1. EffectsOfStage'
    BY <1>18 DEF OpenForQuarantine, Proceed, AbandonQuarantine, Present, SourceFile,
       Removing, Kinds, Paths, EffectsOfStage, ReportOfStage, FilesOfStage, LeafOfStage,
       PinOfStage
  <2>2. ReportOfStage'
    BY <1>18 DEF OpenForQuarantine, Proceed, AbandonQuarantine, Present, SourceFile,
       Mutated, Removing, Kinds, Paths, EffectsOfStage, ReportOfStage, FilesOfStage,
       LeafOfStage, PinOfStage, OutputOfStage, OutputAtEnd, OverwritesWhatItLoaded,
       RemovesOnlyWhatItConverted, FailedLoadIsNotPacked
  <2>3. FilesOfStage'
    BY <1>18 DEF OpenForQuarantine, Proceed, AbandonQuarantine, Present, SourceFile, Paths,
       Absent, Removing, Kinds, EffectsOfStage, ReportOfStage, FilesOfStage, LeafOfStage,
       PinOfStage
  <2>4. LeafOfStage'
    BY <1>18 DEF OpenForQuarantine, Proceed, AbandonQuarantine, Present, SourceFile, Out,
       Paths, Entries, Absent, Removing, Kinds, EffectsOfStage, ReportOfStage, FilesOfStage,
       LeafOfStage, PinOfStage
  <2>5. PinOfStage'
    BY <1>18 DEF OpenForQuarantine, Proceed, AbandonQuarantine, Present, SourceFile, Paths,
       Entries, Removing, Kinds, EffectsOfStage, ReportOfStage, FilesOfStage, LeafOfStage,
       PinOfStage, OutputOfStage, OutputAtEnd, OverwritesWhatItLoaded,
       RemovesOnlyWhatItConverted, FailedLoadIsNotPacked
  <2>6. OutputOfStage' /\ OutputAtEnd'
    BY <1>18 DEF OpenForQuarantine, Proceed, AbandonQuarantine, Present, SourceFile, Out,
       Paths, Removing, Kinds, EffectsOfStage, ReportOfStage, FilesOfStage, LeafOfStage,
       PinOfStage, OutputOfStage, OutputAtEnd, OverwritesWhatItLoaded,
       RemovesOnlyWhatItConverted, FailedLoadIsNotPacked
  <2>7. OverwritesWhatItLoaded' /\ RemovesOnlyWhatItConverted' /\ FailedLoadIsNotPacked'
    BY <1>18 DEF OpenForQuarantine, Proceed, AbandonQuarantine, Present, SourceFile, Out,
       Mutated, Removing, Kinds, Paths, EffectsOfStage, ReportOfStage, FilesOfStage,
       LeafOfStage, PinOfStage, OutputOfStage, OutputAtEnd, OverwritesWhatItLoaded,
       RemovesOnlyWhatItConverted, FailedLoadIsNotPacked
  <2>8. QED
    BY <2>1, <2>2, <2>3, <2>4, <2>5, <2>6, <2>7 DEF AttemptInv
<1>19. CASE SetAside
  <2>1. EffectsOfStage'
    BY <1>19 DEF SetAside, AbandonQuarantine, FreeName, Present, Absent, Removing, Kinds,
       Paths, EffectsOfStage, ReportOfStage, FilesOfStage, LeafOfStage, PinOfStage
  <2>2. ReportOfStage'
    BY <1>19 DEF SetAside, AbandonQuarantine, FreeName, Present, Absent, Mutated, Removing,
       Kinds, Paths, EffectsOfStage, ReportOfStage, FilesOfStage, LeafOfStage, PinOfStage,
       OutputOfStage, OutputAtEnd, OverwritesWhatItLoaded, RemovesOnlyWhatItConverted,
       FailedLoadIsNotPacked
  <2>3. FilesOfStage'
    BY <1>19 DEF SetAside, AbandonQuarantine, FreeName, Present, Absent, Paths, Removing,
       Kinds, EffectsOfStage, ReportOfStage, FilesOfStage, LeafOfStage, PinOfStage
  <2>4. LeafOfStage'
    BY <1>19 DEF SetAside, AbandonQuarantine, FreeName, Present, Absent, Out, Paths,
       Entries, Removing, Kinds, EffectsOfStage, ReportOfStage, FilesOfStage, LeafOfStage,
       PinOfStage
  <2>5. PinOfStage'
    BY <1>19 DEF SetAside, AbandonQuarantine, FreeName, Present, Absent, SourceFile, Paths,
       Entries, Removing, Kinds, EffectsOfStage, ReportOfStage, FilesOfStage, LeafOfStage,
       PinOfStage, OutputOfStage, OutputAtEnd, OverwritesWhatItLoaded,
       RemovesOnlyWhatItConverted, FailedLoadIsNotPacked
  <2>6. OutputOfStage' /\ OutputAtEnd'
    BY <1>19 DEF SetAside, AbandonQuarantine, FreeName, Present, Absent, Out, Paths,
       Removing, Kinds, EffectsOfStage, ReportOfStage, FilesOfStage, LeafOfStage,
       PinOfStage, OutputOfStage, OutputAtEnd, OverwritesWhatItLoaded,
       RemovesOnlyWhatItConverted, FailedLoadIsNotPacked
  <2>7. OverwritesWhatItLoaded' /\ RemovesOnlyWhatItConverted' /\ FailedLoadIsNotPacked'
    BY <1>19 DEF SetAside, AbandonQuarantine, FreeName, Present, Absent, Out, Mutated,
       Removing, Kinds, Paths, EffectsOfStage, ReportOfStage, FilesOfStage, LeafOfStage,
       PinOfStage, OutputOfStage, OutputAtEnd, OverwritesWhatItLoaded,
       RemovesOnlyWhatItConverted, FailedLoadIsNotPacked
  <2>8. QED
    BY <2>1, <2>2, <2>3, <2>4, <2>5, <2>6, <2>7 DEF AttemptInv
<1>20. CASE Panic
  <2>1. EffectsOfStage'
    BY <1>20 DEF Panic, Outcome, Removing, Kinds, Paths, EffectsOfStage, ReportOfStage,
       FilesOfStage, LeafOfStage, PinOfStage
  <2>2. ReportOfStage'
    BY <1>20 DEF Panic, Outcome, Mutated, Removing, Kinds, Paths, EffectsOfStage,
       ReportOfStage, FilesOfStage, LeafOfStage, PinOfStage, OutputOfStage, OutputAtEnd,
       OverwritesWhatItLoaded, RemovesOnlyWhatItConverted, FailedLoadIsNotPacked
  <2>3. FilesOfStage'
    BY <1>20 DEF Panic, Outcome, Paths, Absent, Removing, Kinds, EffectsOfStage,
       ReportOfStage, FilesOfStage, LeafOfStage, PinOfStage
  <2>4. LeafOfStage'
    BY <1>20 DEF Panic, Outcome, Out, Paths, Entries, Absent, Removing, Kinds,
       EffectsOfStage, ReportOfStage, FilesOfStage, LeafOfStage, PinOfStage
  <2>5. PinOfStage'
    BY <1>20 DEF Panic, Outcome, SourceFile, Paths, Entries, Removing, Kinds,
       EffectsOfStage, ReportOfStage, FilesOfStage, LeafOfStage, PinOfStage, OutputOfStage,
       OutputAtEnd, OverwritesWhatItLoaded, RemovesOnlyWhatItConverted,
       FailedLoadIsNotPacked
  <2>6. OutputOfStage' /\ OutputAtEnd'
    BY <1>20 DEF Panic, Outcome, Out, Paths, Removing, Kinds, EffectsOfStage, ReportOfStage,
       FilesOfStage, LeafOfStage, PinOfStage, OutputOfStage, OutputAtEnd,
       OverwritesWhatItLoaded, RemovesOnlyWhatItConverted, FailedLoadIsNotPacked
  <2>7. OverwritesWhatItLoaded' /\ RemovesOnlyWhatItConverted' /\ FailedLoadIsNotPacked'
    BY <1>20 DEF Panic, Outcome, Out, Mutated, Removing, Kinds, Paths, EffectsOfStage,
       ReportOfStage, FilesOfStage, LeafOfStage, PinOfStage, OutputOfStage, OutputAtEnd,
       OverwritesWhatItLoaded, RemovesOnlyWhatItConverted, FailedLoadIsNotPacked
  <2>8. QED
    BY <2>1, <2>2, <2>3, <2>4, <2>5, <2>6, <2>7 DEF AttemptInv
<1>21. CASE ForeignMove
  <2>1. EffectsOfStage'
    BY <1>21 DEF ForeignMove, Edit, Changes, Present, Absent, SourceFile, Out, Removing,
       Kinds, Paths, EffectsOfStage, ReportOfStage, FilesOfStage, LeafOfStage, PinOfStage
  <2>2. ReportOfStage'
    BY <1>21 DEF ForeignMove, Edit, Changes, Present, Absent, SourceFile, Out, Mutated,
       Removing, Kinds, Paths, EffectsOfStage, ReportOfStage, FilesOfStage, LeafOfStage,
       PinOfStage, OutputOfStage, OutputAtEnd, OverwritesWhatItLoaded,
       RemovesOnlyWhatItConverted, FailedLoadIsNotPacked
  <2>3. FilesOfStage'
    <3>1. edits' \in Nat /\ edits' > edits /\ target'.changed <= edits' /\ pin' # Made
      BY <1>21 DEF ForeignMove, Edit, Changes, Present, Absent, SourceFile, Out, Paths,
         Entries, Made, FilesOfStage
    <3>2. \A q \in Paths : disk'[q].changed <= edits'
      BY <1>21 DEF ForeignMove, Edit, Changes, Present, Absent, SourceFile, Out, Paths,
         Entries, Made, FilesOfStage
    <3>3. ~published' => (\A q \in Paths : disk'[q].file # Made)
      BY <1>21 DEF ForeignMove, Edit, Changes, Present, Absent, SourceFile, Out, Paths,
         Entries, Made, FilesOfStage
    <3>4. QED
      BY <3>1, <3>2, <3>3 DEF FilesOfStage
  <2>4. LeafOfStage'
    BY <1>21 DEF ForeignMove, Edit, Changes, Present, Absent, SourceFile, Out, Paths,
       Entries, Removing, Kinds, EffectsOfStage, ReportOfStage, FilesOfStage, LeafOfStage,
       PinOfStage
  <2>5. PinOfStage'
    BY <1>21 DEF ForeignMove, Edit, Changes, Present, Absent, SourceFile, Out, Paths,
       Entries, Removing, Kinds, EffectsOfStage, ReportOfStage, FilesOfStage, LeafOfStage,
       PinOfStage, OutputOfStage, OutputAtEnd, OverwritesWhatItLoaded,
       RemovesOnlyWhatItConverted, FailedLoadIsNotPacked
  <2>6. OutputOfStage' /\ OutputAtEnd'
    BY <1>21 DEF ForeignMove, Edit, Changes, Present, Absent, SourceFile, Out, Paths,
       Removing, Kinds, EffectsOfStage, ReportOfStage, FilesOfStage, LeafOfStage,
       PinOfStage, OutputOfStage, OutputAtEnd, OverwritesWhatItLoaded,
       RemovesOnlyWhatItConverted, FailedLoadIsNotPacked
  <2>7. OverwritesWhatItLoaded' /\ RemovesOnlyWhatItConverted' /\ FailedLoadIsNotPacked'
    BY <1>21 DEF ForeignMove, Edit, Changes, Present, Absent, SourceFile, Out, Mutated,
       Removing, Kinds, Paths, EffectsOfStage, ReportOfStage, FilesOfStage, LeafOfStage,
       PinOfStage, OutputOfStage, OutputAtEnd, OverwritesWhatItLoaded,
       RemovesOnlyWhatItConverted, FailedLoadIsNotPacked
  <2>8. QED
    BY <2>1, <2>2, <2>3, <2>4, <2>5, <2>6, <2>7 DEF AttemptInv
<1>22. ASSUME NEW p \in {"source", "output", "bad"}, ForeignWrite(p)
      PROVE AttemptInv'
  <2>1. EffectsOfStage'
    BY <1>22 DEF ForeignWrite, Edit, Changes, Present, Absent, SourceFile, Out, Made,
       Removing, Kinds, Paths, EffectsOfStage, ReportOfStage, FilesOfStage, LeafOfStage,
       PinOfStage
  <2>2. ReportOfStage'
    BY <1>22 DEF ForeignWrite, Edit, Changes, Present, Absent, SourceFile, Out, Made,
       Mutated, Removing, Kinds, Paths, EffectsOfStage, ReportOfStage, FilesOfStage,
       LeafOfStage, PinOfStage, OutputOfStage, OutputAtEnd, OverwritesWhatItLoaded,
       RemovesOnlyWhatItConverted, FailedLoadIsNotPacked
  <2>3. FilesOfStage'
    <3>1. edits' \in Nat /\ edits' > edits /\ target'.changed <= edits' /\ pin' # Made
      BY <1>22 DEF ForeignWrite, Edit, Changes, Present, Absent, SourceFile, Out, Made,
         Paths, Entries, FilesOfStage
    <3>2. \A q \in Paths : disk'[q].changed <= edits'
      BY <1>22 DEF ForeignWrite, Edit, Changes, Present, Absent, SourceFile, Out, Made,
         Paths, Entries, FilesOfStage
    <3>3. ~published' => (\A q \in Paths : disk'[q].file # Made)
      BY <1>22 DEF ForeignWrite, Edit, Changes, Present, Absent, SourceFile, Out, Made,
         Paths, Entries, FilesOfStage
    <3>4. QED
      BY <3>1, <3>2, <3>3 DEF FilesOfStage
  <2>4. LeafOfStage'
    BY <1>22 DEF ForeignWrite, Edit, Changes, Present, Absent, SourceFile, Out, Made, Paths,
       Entries, Removing, Kinds, EffectsOfStage, ReportOfStage, FilesOfStage, LeafOfStage,
       PinOfStage
  <2>5. PinOfStage'
    BY <1>22 DEF ForeignWrite, Edit, Changes, Present, Absent, SourceFile, Out, Made, Paths,
       Entries, Removing, Kinds, EffectsOfStage, ReportOfStage, FilesOfStage, LeafOfStage,
       PinOfStage, OutputOfStage, OutputAtEnd, OverwritesWhatItLoaded,
       RemovesOnlyWhatItConverted, FailedLoadIsNotPacked
  <2>6. OutputOfStage' /\ OutputAtEnd'
    BY <1>22 DEF ForeignWrite, Edit, Changes, Present, Absent, SourceFile, Out, Made, Paths,
       Removing, Kinds, EffectsOfStage, ReportOfStage, FilesOfStage, LeafOfStage,
       PinOfStage, OutputOfStage, OutputAtEnd, OverwritesWhatItLoaded,
       RemovesOnlyWhatItConverted, FailedLoadIsNotPacked
  <2>7. OverwritesWhatItLoaded' /\ RemovesOnlyWhatItConverted' /\ FailedLoadIsNotPacked'
    BY <1>22 DEF ForeignWrite, Edit, Changes, Present, Absent, SourceFile, Out, Made,
       Mutated, Removing, Kinds, Paths, EffectsOfStage, ReportOfStage, FilesOfStage,
       LeafOfStage, PinOfStage, OutputOfStage, OutputAtEnd, OverwritesWhatItLoaded,
       RemovesOnlyWhatItConverted, FailedLoadIsNotPacked
  <2>8. QED
    BY <2>1, <2>2, <2>3, <2>4, <2>5, <2>6, <2>7 DEF AttemptInv
<1>23. ASSUME NEW p \in {"source", "output", "bad"}, ForeignDelete(p)
      PROVE AttemptInv'
  <2>1. EffectsOfStage'
    BY <1>23 DEF ForeignDelete, Edit, Changes, Present, Absent, SourceFile, Out, Made,
       Removing, Kinds, Paths, EffectsOfStage, ReportOfStage, FilesOfStage, LeafOfStage,
       PinOfStage
  <2>2. ReportOfStage'
    BY <1>23 DEF ForeignDelete, Edit, Changes, Present, Absent, SourceFile, Out, Made,
       Mutated, Removing, Kinds, Paths, EffectsOfStage, ReportOfStage, FilesOfStage,
       LeafOfStage, PinOfStage, OutputOfStage, OutputAtEnd, OverwritesWhatItLoaded,
       RemovesOnlyWhatItConverted, FailedLoadIsNotPacked
  <2>3. FilesOfStage'
    <3>1. edits' \in Nat /\ edits' > edits /\ target'.changed <= edits' /\ pin' # Made
      BY <1>23 DEF ForeignDelete, Edit, Changes, Present, Absent, SourceFile, Out, Made,
         Paths, Entries, FilesOfStage
    <3>2. \A q \in Paths : disk'[q].changed <= edits'
      BY <1>23 DEF ForeignDelete, Edit, Changes, Present, Absent, SourceFile, Out, Made,
         Paths, Entries, FilesOfStage
    <3>3. ~published' => (\A q \in Paths : disk'[q].file # Made)
      BY <1>23 DEF ForeignDelete, Edit, Changes, Present, Absent, SourceFile, Out, Made,
         Paths, Entries, FilesOfStage
    <3>4. QED
      BY <3>1, <3>2, <3>3 DEF FilesOfStage
  <2>4. LeafOfStage'
    BY <1>23 DEF ForeignDelete, Edit, Changes, Present, Absent, SourceFile, Out, Made,
       Paths, Entries, Removing, Kinds, EffectsOfStage, ReportOfStage, FilesOfStage,
       LeafOfStage, PinOfStage
  <2>5. PinOfStage'
    BY <1>23 DEF ForeignDelete, Edit, Changes, Present, Absent, SourceFile, Out, Made,
       Paths, Entries, Removing, Kinds, EffectsOfStage, ReportOfStage, FilesOfStage,
       LeafOfStage, PinOfStage, OutputOfStage, OutputAtEnd, OverwritesWhatItLoaded,
       RemovesOnlyWhatItConverted, FailedLoadIsNotPacked
  <2>6. OutputOfStage' /\ OutputAtEnd'
    BY <1>23 DEF ForeignDelete, Edit, Changes, Present, Absent, SourceFile, Out, Made,
       Paths, Removing, Kinds, EffectsOfStage, ReportOfStage, FilesOfStage, LeafOfStage,
       PinOfStage, OutputOfStage, OutputAtEnd, OverwritesWhatItLoaded,
       RemovesOnlyWhatItConverted, FailedLoadIsNotPacked
  <2>7. OverwritesWhatItLoaded' /\ RemovesOnlyWhatItConverted' /\ FailedLoadIsNotPacked'
    BY <1>23 DEF ForeignDelete, Edit, Changes, Present, Absent, SourceFile, Out, Made,
       Mutated, Removing, Kinds, Paths, EffectsOfStage, ReportOfStage, FilesOfStage,
       LeafOfStage, PinOfStage, OutputOfStage, OutputAtEnd, OverwritesWhatItLoaded,
       RemovesOnlyWhatItConverted, FailedLoadIsNotPacked
  <2>8. QED
    BY <2>1, <2>2, <2>3, <2>4, <2>5, <2>6, <2>7 DEF AttemptInv
<1>24. CASE UNCHANGED vars
  BY <1>24 DEF vars, EffectsOfStage, ReportOfStage, FilesOfStage, LeafOfStage, PinOfStage,
     OutputOfStage, OutputAtEnd, OverwritesWhatItLoaded, RemovesOnlyWhatItConverted,
     FailedLoadIsNotPacked, Removing, Mutated, Out, SourceFile
<1>25. QED
  BY <1>1, <1>2, <1>3, <1>4, <1>5, <1>6, <1>7, <1>8, <1>9, <1>10, <1>11, <1>12, <1>13,
     <1>14, <1>15, <1>16, <1>17, <1>18, <1>19, <1>20, <1>21, <1>22, <1>23, <1>24 DEF Next,
     Attempt, Foreign

(* The invariant holds in every reachable state.                           *)
THEOREM AttemptInvariant == Spec => []AttemptInv
<1>1. Init => AttemptInv
  BY InitInv
<1>2. TypeOK /\ AttemptInv /\ [Next]_vars => AttemptInv'
  BY InvStep
<1>3. QED
  BY <1>1, <1>2, TypeCorrect, PTL DEF Spec

(***************************************************************************)
(* The properties.                                                         *)
(***************************************************************************)

(* Publication overwrites only what the backend read.                      *)
THEOREM OverwritesOnlyInput == Spec => []OverwritesWhatItLoaded
<1>1. AttemptInv => OverwritesWhatItLoaded
  BY DEF AttemptInv
<1>2. QED
  BY <1>1, AttemptInvariant, PTL

(* Only the pinned, converted source is deleted.                           *)
THEOREM RemovesOnlySource == Spec => []RemovesOnlyWhatItConverted
<1>1. AttemptInv => RemovesOnlyWhatItConverted
  BY DEF AttemptInv
<1>2. QED
  BY <1>1, AttemptInvariant, PTL

(* An Asset keeps its old or its new content.                              *)
THEOREM AssetStaysWhole == Spec => []OutputIsWhole
<1>1. AttemptInv => OutputIsWhole
  BY DEF AttemptInv, OutputAtEnd, OutputIsWhole, At
<1>2. QED
  BY <1>1, AttemptInvariant, PTL

(* The reported mutation is the real one.                                  *)
THEOREM ReportsMutation == Spec => []MutationIsReported
<1>1. AttemptInv => MutationIsReported
  BY DEF AttemptInv, ReportOfStage, MutationIsReported, At
<1>2. QED
  BY <1>1, AttemptInvariant, PTL

(* A file that failed to load is set aside before the run goes on.         *)
THEOREM QuarantinesFailedLoads == Spec => []FailedLoadIsNotPacked
<1>1. AttemptInv => FailedLoadIsNotPacked
  BY DEF AttemptInv
<1>2. QED
  BY <1>1, AttemptInvariant, PTL

-----------------------------------------------------------------------------
(* Least and greatest numbers.                                             *)

(* A non-empty set of natural numbers has a least member, ...              *)
LEMMA Least ==
  ASSUME NEW S \in SUBSET Nat, S # {}
  PROVE  Min(S) \in S /\ \A y \in S : Min(S) <= y
<1>1. PICK i \in S : \A j \in S : <<j, i>> \notin OpToRel(<, Nat)
  BY NatLessThanWellFounded, WFMin, Zenon
<1>2. \A j \in S : i <= j
  <2> SUFFICES ASSUME NEW j \in S, j < i PROVE FALSE
    OBVIOUS
  <2>1. <<j, i>> \in Nat \X Nat /\ j < i
    OBVIOUS
  <2>2. <<j, i>>[1] < <<j, i>>[2]
    BY <2>1
  <2>3. <<j, i>> \in OpToRel(<, Nat)
    BY <2>1, <2>2, Zenon DEF OpToRel
  <2>4. QED
    BY <1>1, <2>3, Zenon
<1>3. QED
  BY <1>2 DEF Min

(* ... and a greatest one if it is bounded.                                *)
LEMMA Greatest ==
  ASSUME NEW n \in Nat, NEW S \in SUBSET (0 .. n), S # {}
  PROVE  Max(S) \in S /\ \A y \in S : Max(S) >= y
<1> DEFINE T == {n - y : y \in S}
<1>1. T \in SUBSET Nat /\ T # {}
  <2>1. \A y \in S : y \in Int /\ 0 <= y /\ y <= n
    OBVIOUS
  <2>2. \A y \in S : n - y \in Nat
    BY <2>1
  <2>3. QED
    BY <2>2
<1>2. Min(T) \in T /\ \A z \in T : Min(T) <= z
  BY <1>1, Least
<1>3. PICK x \in S : Min(T) = n - x
  BY <1>2
<1>4. \A y \in S : x >= y
  <2> SUFFICES ASSUME NEW y \in S PROVE x >= y
    OBVIOUS
  <2>1. n - x <= n - y
    BY <1>2, <1>3
  <2>2. QED
    BY <2>1
<1>5. QED
  BY <1>4 DEF Max

-----------------------------------------------------------------------------
(* Powers of two.                                                          *)

(* How often a side may be doubled.                                        *)
Exponents == 0 .. MaxDoublings + 1

(* The table of powers exists: were n the least length without one, one    *)
(* entry more after the table of length n - 1 would make it.               *)
LEMMA PowersExist ==
  ASSUME NEW N \in Nat
  PROVE  \E F \in [0 .. N -> Nat] :
           \A k \in 0 .. N : F[k] = IF k = 0 THEN 1 ELSE 2 * F[k - 1]
<1> DEFINE Good(n) == \E F \in [0 .. n -> Nat] :
                         \A k \in 0 .. n : F[k] = IF k = 0 THEN 1 ELSE 2 * F[k - 1]
           Bad == {n \in Nat : ~Good(n)}
<1>1. Good(0)
  <2> DEFINE F == [k \in 0 .. 0 |-> 1]
  <2>1. F \in [0 .. 0 -> Nat] /\ \A k \in 0 .. 0 : F[k] = IF k = 0 THEN 1 ELSE 2 * F[k - 1]
    OBVIOUS
  <2>2. QED
    BY <2>1
<1>2. ASSUME NEW n \in Nat, Good(n) PROVE Good(n + 1)
  <2>1. PICK F \in [0 .. n -> Nat] :
          \A k \in 0 .. n : F[k] = IF k = 0 THEN 1 ELSE 2 * F[k - 1]
    BY <1>2
  <2> DEFINE G == [k \in 0 .. n + 1 |-> IF k = n + 1 THEN 2 * F[n] ELSE F[k]]
  <2>2. \A k \in 0 .. n : G[k] = F[k] /\ k \in 0 .. n + 1
    OBVIOUS
  <2>3. G[n + 1] = 2 * F[n]
    OBVIOUS
  <2>4. G \in [0 .. n + 1 -> Nat]
    <3>1. 2 * F[n] \in Nat
      BY <2>1
    <3>2. QED
      BY <2>1, <3>1
  <2> HIDE DEF G
  <2>5. ASSUME NEW k \in 0 .. n + 1 PROVE G[k] = IF k = 0 THEN 1 ELSE 2 * G[k - 1]
    <3>1. CASE k = n + 1
      BY <2>2, <2>3, <3>1
    <3>2. CASE k \in 0 .. n
      <4>1. k # 0 => k - 1 \in 0 .. n
        BY <3>2
      <4>2. QED
        BY <2>1, <2>2, <3>2, <4>1
    <3>3. QED
      BY <3>1, <3>2
  <2>6. QED
    BY <2>4, <2>5
<1> HIDE DEF Good
<1>3. Bad = {}
  <2> SUFFICES ASSUME Bad # {} PROVE FALSE
    OBVIOUS
  <2> DEFINE m == Min(Bad)
  <2>1. m \in Bad /\ \A n \in Bad : m <= n
    BY Least
  <2> HIDE DEF m
  <2>2. m # 0 /\ m - 1 \in Nat
    BY <1>1, <2>1
  <2>3. Good(m - 1)
    BY <2>1, <2>2
  <2>4. Good(m)
    <3>1. m \in Nat /\ (m - 1) + 1 = m
      BY <2>1, <2>2
    <3>2. Good((m - 1) + 1)
      BY <1>2, <2>2, <2>3
    <3>3. QED
      BY <3>1, <3>2
  <2>5. QED
    BY <2>1, <2>4
<1>4. QED
  BY <1>3 DEF Good

(* The table TwoTo holds the powers of two.                                *)
LEMMA Powers ==
  /\ TwoTo[0] = 1
  /\ \A k \in Exponents : TwoTo[k] \in Nat \ {0}
  /\ \A k \in 0 .. MaxDoublings : TwoTo[k + 1] = 2 * TwoTo[k]
<1> USE FormatsAssumption
<1> DEFINE Body(F) == [k \in 0 .. MaxDoublings + 1 |-> IF k = 0 THEN 1 ELSE 2 * F[k - 1]]
<1>1. PICK F \in [0 .. MaxDoublings + 1 -> Nat] :
        \A k \in 0 .. MaxDoublings + 1 : F[k] = IF k = 0 THEN 1 ELSE 2 * F[k - 1]
  <2>1. MaxDoublings + 1 \in Nat
    OBVIOUS
  <2>2. QED
    BY <2>1, PowersExist, Zenon
<1>2. F = Body(F)
  BY <1>1
<1>3. TwoTo = Body(TwoTo)
  <2>1. TwoTo = CHOOSE G : G = Body(G)
    BY DEF TwoTo
  <2> HIDE DEF Body
  <2>2. QED
    BY <1>2, <2>1, Zenon
<1>4. \A k \in 0 .. MaxDoublings + 1 : TwoTo[k] = IF k = 0 THEN 1 ELSE 2 * TwoTo[k - 1]
  BY <1>3
<1> DEFINE Bad == {k \in 0 .. MaxDoublings + 1 : TwoTo[k] \notin Nat \ {0}}
<1>5. Bad = {}
  <2> SUFFICES ASSUME Bad # {} PROVE FALSE
    OBVIOUS
  <2> DEFINE m == Min(Bad)
  <2>1. m \in Bad /\ \A n \in Bad : m <= n
    <3>1. Bad \in SUBSET Nat
      OBVIOUS
    <3>2. QED
      BY <3>1, Least
  <2> HIDE DEF m
  <2>2. m # 0
    BY <1>4, <2>1
  <2>3. m - 1 \in 0 .. MaxDoublings + 1 /\ m - 1 \notin Bad
    BY <2>1, <2>2
  <2>4. TwoTo[m - 1] \in Nat \ {0}
    BY <2>3
  <2>5. TwoTo[m] = 2 * TwoTo[m - 1]
    BY <1>4, <2>1, <2>2
  <2>6. QED
    BY <2>1, <2>4, <2>5
<1>6. \A k \in 0 .. MaxDoublings : TwoTo[k + 1] = 2 * TwoTo[k]
  <2> SUFFICES ASSUME NEW k \in 0 .. MaxDoublings PROVE TwoTo[k + 1] = 2 * TwoTo[k]
    OBVIOUS
  <2>1. k + 1 \in 0 .. MaxDoublings + 1 /\ k + 1 # 0 /\ (k + 1) - 1 = k
    OBVIOUS
  <2>2. QED
    BY <1>4, <2>1
<1>7. QED
  BY <1>4, <1>5, <1>6 DEF Exponents

(* A power is the product of two smaller ones.                             *)
LEMMA PowersMultiply ==
  ASSUME NEW j \in Exponents, NEW k \in Exponents, j <= k
  PROVE  TwoTo[k - j] * TwoTo[j] = TwoTo[k]
<1> USE FormatsAssumption
<1> DEFINE Bad == {d \in Exponents : j + d \in Exponents /\ TwoTo[d] * TwoTo[j] # TwoTo[j + d]}
<1>1. Bad = {}
  <2> SUFFICES ASSUME Bad # {} PROVE FALSE
    OBVIOUS
  <2> DEFINE m == Min(Bad)
  <2>1. m \in Bad /\ \A n \in Bad : m <= n
    BY Least DEF Exponents
  <2> HIDE DEF m
  <2>2. m # 0
    BY <2>1, Powers DEF Exponents
  <2>3. /\ m - 1 \in 0 .. MaxDoublings /\ j + (m - 1) \in 0 .. MaxDoublings
        /\ (m - 1) + 1 = m /\ (j + (m - 1)) + 1 = j + m /\ m - 1 \notin Bad
    BY <2>1, <2>2 DEF Exponents
  <2>4. TwoTo[m - 1] * TwoTo[j] = TwoTo[j + (m - 1)]
    BY <2>3 DEF Exponents
  <2>5. TwoTo[m] = 2 * TwoTo[m - 1] /\ TwoTo[j + m] = 2 * TwoTo[j + (m - 1)]
    <3>1. TwoTo[(m - 1) + 1] = 2 * TwoTo[m - 1]
      BY <2>3, Powers
    <3>2. TwoTo[(j + (m - 1)) + 1] = 2 * TwoTo[j + (m - 1)]
      BY <2>3, Powers
    <3>3. QED
      BY <2>3, <3>1, <3>2
  <2>6. TwoTo[m - 1] \in Nat /\ TwoTo[j] \in Nat
    BY <2>3, Powers DEF Exponents
  <2>7. TwoTo[m] * TwoTo[j] = TwoTo[j + m]
    BY <2>4, <2>5, <2>6
  <2>8. QED
    BY <2>1, <2>7
<1>2. k - j \in Exponents /\ j + (k - j) = k
  BY DEF Exponents
<1>3. k - j \notin Bad
  BY <1>1
<1>4. QED
  BY <1>2, <1>3

(* A greater power is at least twice a smaller one.                        *)
LEMMA PowersGrow ==
  ASSUME NEW j \in Exponents, NEW k \in Exponents, j < k
  PROVE  2 * TwoTo[j] <= TwoTo[k]
<1> USE FormatsAssumption
<1>1. k - j \in Exponents /\ k - j # 0
  BY DEF Exponents
<1>2. TwoTo[k - j] * TwoTo[j] = TwoTo[k] /\ TwoTo[j] \in Nat
  <2>1. j <= k
    BY DEF Exponents
  <2>2. TwoTo[k - j] * TwoTo[j] = TwoTo[k]
    BY <2>1, PowersMultiply
  <2>3. QED
    BY <2>2, Powers
<1>3. TwoTo[k - j] \in Nat /\ TwoTo[k - j] >= 2
  <2>1. (k - j) - 1 \in 0 .. MaxDoublings /\ ((k - j) - 1) + 1 = k - j
    BY <1>1 DEF Exponents
  <2>2. TwoTo[k - j] = 2 * TwoTo[(k - j) - 1]
    BY <2>1, Powers
  <2>3. TwoTo[(k - j) - 1] \in Nat \ {0}
    BY <2>1, Powers DEF Exponents
  <2>4. QED
    BY <2>2, <2>3
<1> QED
  BY <1>2, <1>3

(* The next power of two of a side is a side, ...                          *)
LEMMA NextPower ==
  ASSUME NEW n \in 0 .. TwoTo[MaxDoublings]
  PROVE  /\ NextPowerOfTwo(n) \in Sides
         /\ \E j \in 0 .. MaxDoublings : NextPowerOfTwo(n) = TwoTo[j]
<1> USE FormatsAssumption
<1> DEFINE S == {k \in 0 .. MaxDoublings : TwoTo[k] >= n}
           m == Min(S)
<1>1. TwoTo[MaxDoublings] \in Nat \ {0} /\ MaxDoublings \in Exponents
  BY Powers DEF Exponents
<1>2. S \in SUBSET Nat /\ S # {}
  BY <1>1
<1>3. m \in S
  BY <1>2, Least
<1>4. NextPowerOfTwo(n) = TwoTo[m]
  BY DEF NextPowerOfTwo
<1> HIDE DEF m
<1>5. m \in Exponents /\ m \in 0 .. MaxDoublings
  BY <1>3 DEF Exponents
<1>6. TwoTo[m] \in Nat \ {0}
  BY <1>5, Powers
<1>7. TwoTo[m] <= TwoTo[MaxDoublings]
  <2>1. CASE m = MaxDoublings
    BY <1>1, <2>1
  <2>2. CASE m < MaxDoublings
    <3>1. 2 * TwoTo[m] <= TwoTo[MaxDoublings]
      BY <1>1, <1>5, <2>2, PowersGrow
    <3>2. QED
      BY <1>1, <1>6, <3>1
  <2>3. QED
    BY <1>5, <2>1, <2>2
<1>8. QED
  BY <1>1, <1>4, <1>5, <1>6, <1>7 DEF Sides

(* ... and a power of two is its own.                                      *)
LEMMA NextOfPower ==
  ASSUME NEW j \in 0 .. MaxDoublings
  PROVE  NextPowerOfTwo(TwoTo[j]) = TwoTo[j]
<1> USE FormatsAssumption
<1> DEFINE S == {k \in 0 .. MaxDoublings : TwoTo[k] >= TwoTo[j]}
           m == Min(S)
<1>1. TwoTo[j] \in Nat \ {0} /\ j \in Exponents
  BY Powers DEF Exponents
<1>2. S \in SUBSET Nat /\ j \in S
  BY <1>1
<1>3. m \in S /\ m <= j
  BY <1>2, Least
<1>4. NextPowerOfTwo(TwoTo[j]) = TwoTo[m]
  BY DEF NextPowerOfTwo
<1> HIDE DEF m
<1>5. m \in Exponents /\ TwoTo[m] >= TwoTo[j]
  BY <1>3 DEF Exponents
<1>6. TwoTo[m] \in Nat \ {0}
  BY <1>5, Powers
<1>7. ~(m < j)
  <2> SUFFICES ASSUME m < j PROVE FALSE
    OBVIOUS
  <2>1. 2 * TwoTo[m] <= TwoTo[j]
    BY <1>1, <1>5, PowersGrow
  <2>2. QED
    BY <1>1, <1>5, <1>6, <2>1
<1>8. m = j
  BY <1>3, <1>5, <1>7 DEF Exponents
<1>9. QED
  BY <1>4, <1>8

(* A side that is a power of two.                                          *)
Power2(n) == \E j \in 0 .. MaxDoublings : n = TwoTo[j]

(* is_power_of_two asks that of both sides.                                *)
LEMMA PowerSides ==
  ASSUME NEW image \in Images
  PROVE  IsPowerOfTwo(image) <=> Power2(image.w) /\ Power2(image.h)
<1>1. image.w \in 0 .. TwoTo[MaxDoublings] /\ image.h \in 0 .. TwoTo[MaxDoublings]
  BY DEF Images, Sides
<1>2. Power2(NextPowerOfTwo(image.w)) /\ Power2(NextPowerOfTwo(image.h))
  BY <1>1, NextPower DEF Power2
<1>3. \A n : Power2(n) => NextPowerOfTwo(n) = n
  BY NextOfPower DEF Power2
<1>4. QED
  BY <1>2, <1>3 DEF IsPowerOfTwo

(* What halving k times makes of a side.                                   *)
LEMMA HalvedSide ==
  ASSUME NEW n \in Sides, NEW k \in Exponents
  PROVE  /\ n \div TwoTo[k] \in Nat /\ n \div TwoTo[k] <= n
         /\ k = 0 => n \div TwoTo[k] = n
         /\ k > 0 => n \div TwoTo[k] < n
<1> USE FormatsAssumption
<1> DEFINE p == TwoTo[k]
<1>1. p \in Nat \ {0} /\ n \in Nat \ {0}
  BY Powers DEF Sides
<1>2. k = 0 => p = 1
  BY Powers
<1>3. k > 0 => p >= 2
  <2> SUFFICES ASSUME k > 0 PROVE p >= 2
    OBVIOUS
  <2>1. k - 1 \in 0 .. MaxDoublings /\ (k - 1) + 1 = k /\ k - 1 \in Exponents
    BY DEF Exponents
  <2>2. TwoTo[k] = 2 * TwoTo[k - 1] /\ TwoTo[k - 1] \in Nat \ {0}
    BY <2>1, Powers
  <2>3. QED
    BY <2>2
<1> HIDE DEF p
<1>4. n \div p \in Nat /\ n \div p <= n
  BY <1>1
<1>5. p = 1 => n \div p = n
  BY <1>1
<1>6. p >= 2 => n \div p < n
  BY <1>1
<1>7. QED
  BY <1>2, <1>3, <1>4, <1>5, <1>6 DEF p

(* A power of two, halved and not lost, is one.                            *)
LEMMA HalvedPower ==
  ASSUME NEW n, Power2(n), NEW k \in Exponents, n \div TwoTo[k] >= 1
  PROVE  Power2(n \div TwoTo[k])
<1> USE FormatsAssumption
<1>1. PICK j \in 0 .. MaxDoublings : n = TwoTo[j]
  BY DEF Power2
<1>2. j \in Exponents /\ TwoTo[j] \in Nat \ {0} /\ TwoTo[k] \in Nat \ {0}
  BY Powers DEF Exponents
<1>3. k <= j
  <2> SUFFICES ASSUME j < k PROVE FALSE
    BY DEF Exponents
  <2>1. 2 * TwoTo[j] <= TwoTo[k]
    BY <1>2, PowersGrow
  <2>2. TwoTo[j] \div TwoTo[k] = 0
    BY <1>2, <2>1
  <2>3. QED
    BY <1>1, <2>2
<1>4. j - k \in 0 .. MaxDoublings /\ j - k \in Exponents
  BY <1>3 DEF Exponents
<1>5. TwoTo[j - k] * TwoTo[k] = TwoTo[j]
  BY <1>2, <1>3, PowersMultiply
<1>6. TwoTo[j - k] \in Nat
  BY <1>4, Powers
<1>7. (TwoTo[j - k] * TwoTo[k]) \div TwoTo[k] = TwoTo[j - k]
  <2> DEFINE a == TwoTo[j - k]
             b == TwoTo[k]
  <2>1. a \in Nat /\ b \in Nat \ {0}
    BY <1>2, <1>6
  <2> HIDE DEF a, b
  <2>2. (a * b) \div b = a
    BY <2>1
  <2>3. QED
    BY <2>2 DEF a, b
<1>8. QED
  BY <1>1, <1>4, <1>5, <1>7 DEF Power2

(* Halving stops, at the first k where a side has reached its target.      *)
LEMMA HalvingsStop ==
  ASSUME NEW image \in Images, NEW goal \in [w : Nat, h : Nat]
  PROVE  LET k == Halvings(image, goal)
             above(j) == image.w \div TwoTo[j] > goal.w /\ image.h \div TwoTo[j] > goal.h
         IN k \in Exponents /\ ~above(k) /\ \A j \in 0 .. k - 1 : above(j)
<1> USE FormatsAssumption
<1> DEFINE above(j) == image.w \div TwoTo[j] > goal.w /\ image.h \div TwoTo[j] > goal.h
           S == {j \in 0 .. MaxDoublings + 1 : ~above(j)}
           k == Halvings(image, goal)
           last == MaxDoublings + 1
<1>1. k = Min(S)
  BY DEF Halvings
<1>2. last \in S
  <2>1. last \in Exponents /\ MaxDoublings \in Exponents /\ MaxDoublings < last
    BY DEF Exponents
  <2>2. TwoTo[MaxDoublings] \in Nat \ {0} /\ TwoTo[last] \in Nat \ {0}
    BY <2>1, Powers
  <2>3. 2 * TwoTo[MaxDoublings] <= TwoTo[last]
    BY <2>1, PowersGrow
  <2>4. image.w \in Nat /\ image.w <= TwoTo[MaxDoublings] /\ goal.w \in Nat
    BY <2>2 DEF Images, Sides
  <2>5. image.w < TwoTo[last]
    BY <2>2, <2>3, <2>4
  <2>6. image.w \div TwoTo[last] = 0
    BY <2>2, <2>4, <2>5
  <2>7. QED
    BY <2>4, <2>6
<1> HIDE DEF above
<1>3. S \in SUBSET Nat
  OBVIOUS
<1>4. Min(S) \in S /\ \A j \in S : Min(S) <= j
  BY <1>2, <1>3, Least
<1>5. k \in Exponents /\ ~above(k) /\ \A j \in S : k <= j
  BY <1>1, <1>4 DEF Exponents
<1>6. \A j \in 0 .. k - 1 : above(j)
  <2> HIDE DEF k
  <2> SUFFICES ASSUME NEW j \in 0 .. k - 1, ~above(j) PROVE FALSE
    OBVIOUS
  <2>1. j \in S
    BY <1>5 DEF Exponents
  <2>2. QED
    BY <1>5, <2>1 DEF Exponents
<1>7. QED
  BY <1>5, <1>6 DEF above

-----------------------------------------------------------------------------
(* One attempt on an image.                                                *)

(* What texture_request may ask of the optimizer.                          *)
Requests ==
  [necessary : BOOLEAN, compress : BOOLEAN, mipmaps : BOOLEAN, resize : BOOLEAN,
   target : [w : Nat, h : Nat]]

(* How often plan halves the sides.                                        *)
Halved(image, request) == IF request.resize THEN Halvings(image, request.target) ELSE 0

(* The image once it is decompressed and resized.                          *)
Shrunk(image, request) ==
  LET k == Halved(image, request)
  IN IF k > 0
       THEN Resized(Decompressed(image), image.w \div TwoTo[k], image.h \div TwoTo[k])
       ELSE Decompressed(image)

(* A side is halved no more often than there are powers.                   *)
LEMMA HalvedType ==
  ASSUME NEW image \in Images, NEW request \in Requests
  PROVE  Halved(image, request) \in Exponents
<1>1. request.target \in [w : Nat, h : Nat] /\ 0 \in Exponents
  BY FormatsAssumption DEF Requests, Exponents
<1>2. Halvings(image, request.target) \in Exponents
  BY <1>1, HalvingsStop
<1>3. QED
  BY <1>1, <1>2 DEF Halved

(* Decompression changes the format alone.                                 *)
LEMMA OpenImage ==
  ASSUME NEW image \in Images
  PROVE  LET open == Decompressed(image)
         IN /\ open \in Images /\ open.format \notin Block
            /\ open.w = image.w /\ open.h = image.h /\ open.mips = image.mips
            /\ open.cube = image.cube /\ open.opaque = image.opaque
            /\ image.format \notin Block => open.format = image.format
BY FormatsAssumption DEF Decompressed, Images

(* The sides become powers of two when they are halved at all.             *)
LEMMA ShrunkImage ==
  ASSUME NEW image \in Images, NEW request \in Requests
  PROVE  LET k == Halved(image, request)
             s == Shrunk(image, request)
         IN /\ s \in Images /\ s.format = Decompressed(image).format
            /\ s.cube = image.cube /\ s.opaque = image.opaque
            /\ k = 0 => s = Decompressed(image)
            /\ k > 0 => /\ s.w = NextPowerOfTwo(image.w \div TwoTo[k]) /\ Power2(s.w)
                        /\ s.h = NextPowerOfTwo(image.h \div TwoTo[k]) /\ Power2(s.h)
<1> DEFINE k == Halved(image, request)
           s == Shrunk(image, request)
           open == Decompressed(image)
           w == image.w \div TwoTo[k]
           h == image.h \div TwoTo[k]
<1>1. k \in Exponents
  BY HalvedType
<1>2. /\ open \in Images /\ open.w = image.w /\ open.h = image.h
      /\ open.cube = image.cube /\ open.opaque = image.opaque
  BY OpenImage
<1>3. image.w \in Sides /\ image.h \in Sides
  BY DEF Images
<1> HIDE DEF open
<1>4. k = 0 => s = open
  BY <1>1 DEF Shrunk, Exponents, open
<1>5. ASSUME k > 0
      PROVE  /\ s = [open EXCEPT !.w = NextPowerOfTwo(w), !.h = NextPowerOfTwo(h), !.mips = 1]
             /\ NextPowerOfTwo(w) \in Sides /\ NextPowerOfTwo(h) \in Sides
             /\ Power2(NextPowerOfTwo(w)) /\ Power2(NextPowerOfTwo(h))
  <2>1. s = Resized(open, w, h)
    BY <1>5 DEF Shrunk, open
  <2> HIDE DEF k, s
  <2>2. w \in Nat /\ w < image.w /\ h \in Nat /\ h < image.h
    BY <1>1, <1>3, <1>5, HalvedSide
  <2>3. ~(open.w <= w)
    BY <1>2, <1>3, <2>2 DEF Sides
  <2>4. s = [open EXCEPT !.w = NextPowerOfTwo(w), !.h = NextPowerOfTwo(h), !.mips = 1]
    BY <2>1, <2>3 DEF Resized
  <2>5. w \in 0 .. TwoTo[MaxDoublings] /\ h \in 0 .. TwoTo[MaxDoublings]
    <3>1. TwoTo[MaxDoublings] \in Nat
      BY Powers, FormatsAssumption DEF Exponents
    <3>2. QED
      BY <1>3, <2>2, <3>1 DEF Sides
  <2> HIDE DEF w, h
  <2>6. QED
    BY <2>4, <2>5, NextPower DEF Power2
<1> HIDE DEF k, s
<1>6. CASE k = 0
  BY <1>2, <1>4, <1>6 DEF k, s, open
<1>7. CASE k > 0
  <2>1. s \in Images
    <3>1. ASSUME NEW a \in Sides, NEW b \in Sides
          PROVE  [open EXCEPT !.w = a, !.h = b, !.mips = 1] \in Images
      BY <1>2 DEF Images
    <3>2. QED
      BY <1>5, <1>7, <3>1
  <2>2. /\ s.format = open.format /\ s.cube = open.cube /\ s.opaque = open.opaque
        /\ s.w = NextPowerOfTwo(w) /\ s.h = NextPowerOfTwo(h)
    BY <1>2, <1>5, <1>7 DEF Images
  <2>3. QED
    BY <1>2, <1>5, <1>7, <2>1, <2>2 DEF k, s, open
<1>8. QED
  BY <1>1, <1>6, <1>7 DEF Exponents, k, s

(* Sides that are powers of two are halved exactly, and once.              *)
LEMMA ShrunkOnce ==
  ASSUME NEW image \in Images, NEW request \in Requests,
         request.resize => request.target.w >= 1 /\ request.target.h >= 1,
         Halved(image, request) > 0 => IsPowerOfTwo(image)
  PROVE  /\ Halved(Shrunk(image, request), request) = 0
         /\ Shrunk(image, request).w <= image.w /\ Shrunk(image, request).h <= image.h
<1> USE FormatsAssumption
<1> DEFINE k == Halved(image, request)
           s == Shrunk(image, request)
           t == request.target
<1>1. k \in Exponents /\ image.w \in Sides /\ image.h \in Sides /\ t \in [w : Nat, h : Nat]
  BY HalvedType DEF Images, Requests
<1>2. s \in Images
  BY ShrunkImage
<1>3. s.w = image.w \div TwoTo[k] /\ s.h = image.h \div TwoTo[k]
  <2>1. CASE k = 0
    <3>1. s = Decompressed(image)
      BY <2>1, ShrunkImage
    <3>2. s.w = image.w /\ s.h = image.h
      BY <3>1, OpenImage
    <3> HIDE DEF k, s
    <3>3. QED
      BY <1>1, <2>1, <3>2, HalvedSide
  <2>2. CASE k > 0
    <3>1. Power2(image.w) /\ Power2(image.h)
      BY <2>2, PowerSides
    <3>2. s.w = NextPowerOfTwo(image.w \div TwoTo[k]) /\ s.h = NextPowerOfTwo(image.h \div TwoTo[k])
      BY <2>2, ShrunkImage
    <3>3. request.resize /\ k = Halvings(image, t)
      BY <2>2 DEF Halved
    <3>4. t.w >= 1 /\ t.h >= 1
      BY <3>3
    <3> HIDE DEF k, s, t
    <3>5. k - 1 \in 0 .. k - 1 /\ k - 1 \in 0 .. MaxDoublings /\ k - 1 \in Exponents /\ (k - 1) + 1 = k
      BY <1>1, <2>2 DEF Exponents
    <3>6. image.w \div TwoTo[k - 1] > t.w /\ image.h \div TwoTo[k - 1] > t.h
      BY <1>1, <3>3, <3>5, HalvingsStop
    <3>7. TwoTo[k] = 2 * TwoTo[k - 1] /\ TwoTo[k - 1] \in Nat \ {0}
      BY <3>5, Powers
    <3>8. ASSUME NEW n \in Sides, NEW b \in Nat, b >= 1, n \div TwoTo[k - 1] > b
          PROVE  n \div TwoTo[k] >= 1
      <4> DEFINE p == TwoTo[k - 1]
      <4>1. n \in Nat /\ p \in Nat \ {0} /\ TwoTo[k] = 2 * p /\ n \div p > b
        BY <3>7, <3>8 DEF Sides
      <4> HIDE DEF p
      <4>2. n \div p >= 2
        BY <3>8, <4>1
      <4>3. n >= 2 * p
        BY <4>1, <4>2
      <4>4. n \div (2 * p) >= 1
        BY <4>1, <4>3
      <4>5. QED
        BY <4>1, <4>4
    <3>9. image.w \div TwoTo[k] >= 1 /\ image.h \div TwoTo[k] >= 1
      BY <1>1, <3>4, <3>6, <3>8
    <3>10. Power2(image.w \div TwoTo[k]) /\ Power2(image.h \div TwoTo[k])
      BY <1>1, <3>1, <3>9, HalvedPower
    <3>11. QED
      BY <3>2, <3>10, NextOfPower DEF Power2
  <2>3. QED
    BY <1>1, <2>1, <2>2 DEF Exponents
<1>4. s.w <= image.w /\ s.h <= image.h
  <2> HIDE DEF k, s
  <2>1. QED
    BY <1>1, <1>3, HalvedSide
<1>5. CASE ~request.resize
  BY <1>5, <1>4 DEF Halved
<1>6. CASE request.resize
  <2> DEFINE m == Halvings(s, t)
  <2>1. k = Halvings(image, t) /\ Halved(s, request) = m
    BY <1>6 DEF Halved
  <2>2. ~(image.w \div TwoTo[k] > t.w /\ image.h \div TwoTo[k] > t.h)
    BY <1>1, <2>1, HalvingsStop
  <2>3. m \in Exponents /\ \A j \in 0 .. m - 1 : s.w \div TwoTo[j] > t.w /\ s.h \div TwoTo[j] > t.h
    BY <1>1, <1>2, HalvingsStop
  <2> HIDE DEF k, s, m, t
  <2>4. s.w \in Sides /\ s.h \in Sides /\ 0 \in Exponents
    BY <1>2 DEF Images, Exponents
  <2>5. s.w \div TwoTo[0] = s.w /\ s.h \div TwoTo[0] = s.h
    BY <2>4, HalvedSide
  <2>6. ~(m > 0)
    BY <1>3, <2>2, <2>3, <2>5 DEF Exponents
  <2>7. m = 0
    BY <2>3, <2>6 DEF Exponents
  <2>8. QED
    BY <1>4, <2>1, <2>7 DEF s
<1>7. QED
  BY <1>5, <1>6

(* An image the attempt changes has the sides it was shrunk to, its mips    *)
(* are as they should be, and its format is the one the plan settles on.   *)
SoundlyOptimized(image, variant, interface, profile, request) ==
  LET plan == Plan(image, variant, interface, profile, request)
      report == Optimized(image, variant, interface, profile, request)
      new == report.image
      s == Shrunk(image, request)
  IN /\ report.modified \in BOOLEAN /\ new \in Images
     /\ ~WouldChange(plan) => new = image /\ report.modified = FALSE
     /\ WouldChange(plan) =>
          /\ new.w = s.w /\ new.h = s.h
          /\ new.cube = image.cube /\ new.opaque = image.opaque
          /\ ~WantsMipmaps(new, interface, profile, request)
          /\ new.format =
               IF ~(/\ InterfaceOkay(interface, profile) /\ new.w >= 4 /\ new.h >= 4
                    /\ IsPowerOfTwo(new)) THEN Bgra
               ELSE IF plan.compress THEN profile.format ELSE image.format
          /\ report.modified <=>
               \/ image.format \in Block \/ plan.resize
               \/ WantsMipmaps(s, interface, profile, request)
               \/ new.format # s.format

(* Texture::optimize is sound: whatever the image and the request, the     *)
(* result is one of these images, and modified says exactly whether it     *)
(* differs in what the steps do.                                           *)
LEMMA OptimizedImage ==
  ASSUME NEW image \in Images, NEW variant, NEW interface \in BOOLEAN,
         NEW profile \in Targets, NEW request \in Requests
  PROVE  SoundlyOptimized(image, variant, interface, profile, request)
<1> USE FormatsAssumption
<1> DEFINE plan == Plan(image, variant, interface, profile, request)
           report == Optimized(image, variant, interface, profile, request)
           k == Halved(image, request)
           s == Shrunk(image, request)
           open == Decompressed(image)
           mips == WantsMipmaps(s, interface, profile, request)
           mipped == IF mips THEN Mipmapped(s) ELSE s
           okay == CanBeCompressed(mipped, interface, profile)
           goal == IF ~okay THEN Bgra ELSE IF plan.compress THEN profile.format ELSE image.format
           new == [mipped EXCEPT !.format = goal]
<1>1. /\ plan.resize = (k > 0) /\ plan.w = image.w \div TwoTo[k] /\ plan.h = image.h \div TwoTo[k]
      /\ plan.mipmaps = WantsMipmaps(image, interface, profile, request)
      /\ plan.compress \in BOOLEAN
  BY DEF Plan, Halved
<1>2. (IF plan.resize THEN Resized(open, plan.w, plan.h) ELSE open) = s
  BY <1>1 DEF Shrunk
<1>3. k \in Exponents
  BY HalvedType
<1>4. s \in Images /\ s.format \notin Block /\ s.cube = image.cube /\ s.opaque = image.opaque
  BY ShrunkImage, OpenImage
<1>5. (IF plan.resize THEN mips ELSE plan.mipmaps) = mips
  <2>1. CASE k > 0
    BY <1>1, <2>1
  <2>2. CASE k = 0
    <3>1. s.w = image.w /\ s.h = image.h /\ s.mips = image.mips
      BY <2>2, ShrunkImage, OpenImage
    <3> HIDE DEF s
    <3>2. mips = WantsMipmaps(image, interface, profile, request)
      BY <3>1 DEF WantsMipmaps, CanHaveMipmaps
    <3>3. QED
      BY <1>1, <3>2
  <2>3. QED
    BY <1>3, <2>1, <2>2 DEF Exponents
<1>6. mips \in BOOLEAN
  BY DEF WantsMipmaps
<1> HIDE DEF s
<1>7. ASSUME mips PROVE s.w >= 4 /\ mipped = [s EXCEPT !.mips = OptimalMips(s.w, s.h)]
  <2>1. s.w >= 4 /\ s.w \in Nat
    BY <1>4, <1>7 DEF WantsMipmaps, CanHaveMipmaps, Images, Sides
  <2>2. QED
    BY <1>7, <2>1 DEF Mipmapped
<1>8. /\ mipped \in Images /\ mipped.w = s.w /\ mipped.h = s.h /\ mipped.format = s.format
      /\ mipped.cube = s.cube /\ mipped.opaque = s.opaque
      /\ mipped.mips = IF mips THEN OptimalMips(s.w, s.h) ELSE s.mips
  <2>1. OptimalMips(s.w, s.h) \in Nat
    <3> DEFINE S == {j \in 0 .. MaxDoublings : s.w \div TwoTo[j] >= 1 \/ s.h \div TwoTo[j] >= 1}
    <3>1. s.w \in Sides /\ 0 \in Exponents
      BY <1>4 DEF Images, Exponents
    <3>2. s.w \div TwoTo[0] = s.w
      BY <3>1, HalvedSide
    <3>3. 0 \in S
      BY <3>1, <3>2 DEF Sides
    <3>4. S \in SUBSET (0 .. MaxDoublings) /\ MaxDoublings \in Nat
      OBVIOUS
    <3>5. Max(S) \in S
      BY <3>3, <3>4, Greatest
    <3>6. QED
      BY <3>5 DEF OptimalMips
  <2>2. CASE mips
    <3>1. [s EXCEPT !.mips = OptimalMips(s.w, s.h)] \in Images
      BY <1>4, <2>1 DEF Images
    <3>2. QED
      BY <1>4, <1>7, <2>2, <3>1 DEF Images
  <2>3. CASE ~mips
    BY <1>4, <2>3
  <2>4. QED
    BY <2>2, <2>3
<1> HIDE DEF mipped
<1>9. goal \in Formats
  BY DEF Images, Targets
<1>10. /\ new \in Images /\ new.w = s.w /\ new.h = s.h /\ new.mips = mipped.mips
       /\ new.cube = s.cube /\ new.opaque = s.opaque /\ new.format = goal
  <2> HIDE DEF goal
  <2>1. QED
    BY <1>8, <1>9 DEF Images
<1>11. Converted(mipped, goal) = new
  BY <1>4, <1>8 DEF Converted
<1>12. ~WantsMipmaps(new, interface, profile, request)
  <2> HIDE DEF new
  <2>1. CASE mips
    <3>1. new.mips = OptimalMips(new.w, new.h)
      BY <1>8, <1>10, <2>1
    <3>2. QED
      BY <3>1 DEF WantsMipmaps
  <2>2. CASE ~mips
    BY <1>8, <1>10, <2>2 DEF WantsMipmaps, CanHaveMipmaps
  <2>3. QED
    BY <2>1, <2>2
<1>13. okay <=> /\ InterfaceOkay(interface, profile) /\ new.w >= 4 /\ new.h >= 4
                /\ IsPowerOfTwo(new)
  <2> HIDE DEF new
  <2>1. QED
    BY <1>4, <1>8, <1>10 DEF CanBeCompressed, IsPowerOfTwo
<1>14. new # mipped <=> new.format # s.format
  <2> HIDE DEF goal
  <2>1. QED
    BY <1>8, <1>10 DEF Images
<1>15. CASE ~WouldChange(plan)
  <2>1. report = [image |-> image, modified |-> FALSE]
    BY <1>15 DEF Optimized
  <2>2. QED
    BY <1>15, <2>1 DEF SoundlyOptimized
<1>16. CASE WouldChange(plan)
  <2>1. report = [image |-> new, modified |-> \/ image.format \in Block \/ mips
                                              \/ plan.resize \/ new # mipped]
    BY <1>2, <1>5, <1>11, <1>16 DEF Optimized, mipped
  <2> HIDE DEF report, new, okay, plan
  <2>2. report.image = new /\ report.modified \in BOOLEAN
        /\ (report.modified <=> image.format \in Block \/ mips \/ plan.resize \/ new # mipped)
    BY <2>1
  <2> DEFINE x == report.image
  <2>3. /\ x \in Images /\ x.w = s.w /\ x.h = s.h
        /\ x.cube = image.cube /\ x.opaque = image.opaque
        /\ ~WantsMipmaps(x, interface, profile, request)
    BY <1>4, <1>8, <1>10, <1>12, <2>2
  <2>4. x.format = IF ~(/\ InterfaceOkay(interface, profile) /\ x.w >= 4 /\ x.h >= 4
                        /\ IsPowerOfTwo(x)) THEN Bgra
                   ELSE IF plan.compress THEN profile.format ELSE image.format
    BY <1>10, <1>13, <2>2
  <2>5. report.modified <=> image.format \in Block \/ plan.resize \/ mips \/ x.format # s.format
    BY <1>14, <2>2
  <2> HIDE DEF x, mips
  <2>6. QED
    BY <1>16, <2>2, <2>3, <2>4, <2>5 DEF SoundlyOptimized, report, plan, s, x, mips
<1>17. QED
  BY <1>15, <1>16

(* Halvings and powers of two depend on the sides alone.                   *)
LEMMA SameSides ==
  ASSUME NEW x, NEW y, x.w = y.w, x.h = y.h, NEW request
  PROVE  Halved(x, request) = Halved(y, request) /\ (IsPowerOfTwo(x) <=> IsPowerOfTwo(y))
BY DEF Halved, Halvings, IsPowerOfTwo

(* A Texture comes to rest: once it has been through the optimizer, it is  *)
(* halved again only from sides that are powers of two; and once that is   *)
(* so, the attempt that follows the next one finds nothing to write.       *)
LEMMA ComesToRest ==
  ASSUME NEW image \in Images, NEW interface \in BOOLEAN, NEW profile \in Targets,
         profile.format \notin profile.unwanted, NEW request \in Requests,
         request.resize => request.target.w >= 1 /\ request.target.h >= 1
  PROVE  LET report == Optimized(image, "native", interface, profile, request)
             again == Optimized(report.image, "native", interface, profile, request)
         IN /\ Halved(report.image, request) > 0 => IsPowerOfTwo(report.image)
            /\ (Halved(image, request) > 0 => IsPowerOfTwo(image)) => again.modified = FALSE
<1> USE FormatsAssumption
<1> DEFINE plan == Plan(image, "native", interface, profile, request)
           new == Optimized(image, "native", interface, profile, request).image
           next == Plan(new, "native", interface, profile, request)
           again == Optimized(new, "native", interface, profile, request)
           s == Shrunk(image, request)
           k == Halved(image, request)
<1>1. k \in Exponents /\ (plan.resize <=> k > 0) /\ (next.resize <=> Halved(new, request) > 0)
  BY HalvedType DEF Plan, Halved
<1>2. new \in Images /\ Halved(new, request) \in Exponents
  <2>1. SoundlyOptimized(image, "native", interface, profile, request)
    BY OptimizedImage, Zenon
  <2>2. new \in Images
    BY <2>1 DEF SoundlyOptimized
  <2>3. QED
    BY <2>2, HalvedType
<1>3. /\ SoundlyOptimized(image, "native", interface, profile, request)
      /\ SoundlyOptimized(new, "native", interface, profile, request)
  BY <1>2, OptimizedImage, Zenon
<1>4. CASE ~WouldChange(plan)
  <2>1. new = image
    BY <1>4, <1>3 DEF SoundlyOptimized
  <2>2. ~(k > 0)
    BY <1>1, <1>4 DEF WouldChange
  <2>3. again.modified = FALSE
    BY <1>4, <2>1, <1>3 DEF SoundlyOptimized
  <2> HIDE DEF new, again, k
  <2>4. QED
    BY <2>1, <2>2, <2>3 DEF new, again, k
<1>5. CASE WouldChange(plan)
  <2> DEFINE fits == InterfaceOkay(interface, profile) /\ new.w >= 4 /\ new.h >= 4 /\ IsPowerOfTwo(new)
  <2>1. /\ new.w = s.w /\ new.h = s.h /\ new.cube = image.cube /\ new.opaque = image.opaque
        /\ ~WantsMipmaps(new, interface, profile, request)
        /\ new.format = IF ~fits THEN Bgra
                        ELSE IF plan.compress THEN profile.format ELSE image.format
    BY <1>5, <1>3 DEF SoundlyOptimized
  <2>2. s \in Images
    BY ShrunkImage
  <2>3. Halved(new, request) = Halved(s, request) /\ (IsPowerOfTwo(new) <=> IsPowerOfTwo(s))
    <3> HIDE DEF new, s
    <3>1. QED
      BY <2>1, SameSides
  <2>4. Halved(new, request) > 0 => IsPowerOfTwo(new)
    <3>1. CASE k > 0
      <4>1. Power2(s.w) /\ Power2(s.h)
        BY <3>1, ShrunkImage
      <4>2. QED
        BY <2>2, <2>3, <4>1, PowerSides
    <3>2. CASE ~(k > 0)
      BY <2>3, <3>2, ShrunkOnce
    <3>3. QED
      BY <3>1, <3>2
  <2>5. ASSUME k > 0 => IsPowerOfTwo(image) PROVE again.modified = FALSE
    <3>1. Halved(new, request) = 0 /\ new.w <= image.w /\ new.h <= image.h
      BY <2>1, <2>3, <2>5, ShrunkOnce
    <3>2. ~next.resize /\ Shrunk(new, request) = Decompressed(new)
      <4>1. ~next.resize
        BY <1>1, <3>1
      <4>2. Shrunk(new, request) = Decompressed(new)
        BY <3>1 DEF Shrunk
      <4>3. QED
        BY <4>1, <4>2
    <3>3. ~next.mipmaps
      BY <2>1 DEF Plan
    <3> DEFINE t == Decompressed(new)
    <3>4. /\ t.w = new.w /\ t.h = new.h /\ t.mips = new.mips
          /\ new.format \notin Block => t.format = new.format
      BY <1>2, OpenImage
    <3>5. ~WantsMipmaps(t, interface, profile, request)
      <4> HIDE DEF new, t
      <4>1. QED
        BY <2>1, <3>4 DEF WantsMipmaps, CanHaveMipmaps
    <3> SUFFICES ASSUME WouldChange(next) PROVE again.modified = FALSE
      BY <1>2, <1>3 DEF SoundlyOptimized
    <3>6. next.compress
      BY <3>2, <3>3 DEF WouldChange
    <3>7. /\ next.compress <=> \/ request.necessary /\ IsIncompatible(new, profile)
                               \/ /\ request.compress /\ CanBeCompressed(new, interface, profile)
                                  /\ new.format # profile.format
          /\ plan.compress <=> \/ request.necessary /\ IsIncompatible(image, profile)
                               \/ /\ request.compress /\ CanBeCompressed(image, interface, profile)
                                  /\ image.format # profile.format
      BY DEF Plan, Requests
    <3>8. LET u == again.image
          IN /\ u.w = t.w /\ u.h = t.h
             /\ u.format = IF ~(InterfaceOkay(interface, profile) /\ u.w >= 4 /\ u.h >= 4 /\ IsPowerOfTwo(u))
                             THEN Bgra ELSE IF next.compress THEN profile.format ELSE new.format
             /\ again.modified \in BOOLEAN
             /\ again.modified <=> \/ new.format \in Block \/ next.resize
                                   \/ WantsMipmaps(t, interface, profile, request)
                                   \/ u.format # t.format
      BY <1>2, <3>2, <1>3 DEF SoundlyOptimized
    <3> DEFINE u == again.image
    <3> HIDE DEF new, t, again, s, k, plan, next
    <3>9. u.format = IF ~fits THEN Bgra ELSE profile.format
      <4>1. IsPowerOfTwo(u) <=> IsPowerOfTwo(new)
        <5>1. u.w = new.w /\ u.h = new.h
          BY <3>4, <3>8
        <5> HIDE DEF u
        <5>2. QED
          BY <5>1, SameSides
      <4>2. QED
        BY <3>4, <3>6, <3>8, <4>1
    <3>10. again.modified <=> new.format \in Block \/ u.format # t.format
      BY <3>2, <3>5, <3>8
    <3> HIDE DEF u, fits
    <3>11. CASE ~fits
      <4>1. new.format = Bgra /\ u.format = Bgra
        BY <2>1, <3>9, <3>11
      <4>2. QED
        BY <3>4, <3>8, <3>10, <4>1
    <3>12. CASE fits /\ plan.compress
      <4>1. new.format = profile.format /\ u.format = profile.format
        BY <2>1, <3>9, <3>12
      <4>2. new.format \notin Block
        <5> SUFFICES ASSUME new.format \in Block PROVE FALSE
          OBVIOUS
        <5>1. ~IsIncompatible(new, profile)
          BY <3>12, <4>1 DEF IsIncompatible, fits
        <5>2. QED
          BY <3>6, <3>7, <4>1, <5>1
      <4>3. QED
        BY <3>4, <3>8, <3>10, <4>1, <4>2
    <3>13. CASE fits /\ ~plan.compress
      <4>1. new.format = image.format
        BY <2>1, <3>13
      <4>2. IsIncompatible(new, profile) => IsIncompatible(image, profile)
        BY <2>1, <3>13, <4>1 DEF IsIncompatible, fits
      <4>3. CanBeCompressed(new, interface, profile) => CanBeCompressed(image, interface, profile)
        <5>1. IsPowerOfTwo(image)
          <6>1. CASE k > 0
            BY <2>5, <6>1
          <6>2. CASE k = 0
            <7>1. s.w = image.w /\ s.h = image.h
              BY <6>2, ShrunkImage, OpenImage DEF s, k
            <7>2. IsPowerOfTwo(s) <=> IsPowerOfTwo(image)
              BY <7>1, SameSides
            <7>3. QED
              BY <2>3, <3>13, <7>2 DEF fits
          <6>3. QED
            BY <1>1, <6>1, <6>2 DEF Exponents
        <5>2. image.w \in Nat /\ image.h \in Nat /\ new.w \in Nat /\ new.h \in Nat
          BY <1>2 DEF Images, Sides
        <5>3. image.w >= 4 /\ image.h >= 4
          BY <3>1, <3>13, <5>2 DEF fits
        <5>4. QED
          BY <4>1, <5>1, <5>3 DEF CanBeCompressed
      <4>4. QED
        BY <3>6, <3>7, <3>13, <4>1, <4>2, <4>3
    <3>14. QED
      BY <3>11, <3>12, <3>13
  <2> HIDE DEF new, again, k
  <2>6. QED
    BY <2>4, <2>5 DEF new, again, k
<1>6. QED
  BY <1>4, <1>5

-----------------------------------------------------------------------------
(* Processing run after run: the invariants.                               *)

(* What an attempt may report (AssetExecutionResult).                      *)
Results ==
  [ok : BOOLEAN, changed : BOOLEAN,
   failure : {"none", "LoadFailed", "OperationFailed", "SaveFailed", "PublicationFailed",
              "SourceRemovalFailed", "BackendException"},
   mutation : {"None", "Committed", "PartialOrUnknown"}, safe : BOOLEAN]

(* The types of the variables, given the world.                            *)
StateTypeOK ==
  /\ DOMAIN files \subseteq LoosePaths /\ aside \subseteq LoosePaths
  /\ \A p \in DOMAIN files : files[p] \in Contents[TargetOf(p)]
  /\ run \in 1 .. Len(world.modes)
  /\ step \in {"open", "head", "create", "attempt", "over"}
  /\ left \subseteq LoosePaths /\ failed \subseteq LoosePaths
  /\ cancelled \in BOOLEAN /\ made \in BOOLEAN
  /\ plugins \cup unreadable \cup diagnostics \subseteq DOMAIN world.plugins
  /\ converter \in {"unlooked", "found", "missing"}
  /\ DOMAIN said \subseteq LoosePaths /\ \A p \in DOMAIN said : said[p] \in Results
  /\ previous.mode \in {"none", "Apply", "DryRun"} /\ previous.clean \in BOOLEAN
  /\ settling \in [LoosePaths -> Nat] /\ faults \in 0 .. world.faults

(* Every variable keeps its type.                                          *)
BackendTypeOK == world \in Worlds /\ StateTypeOK

(* Where the loop stands.  An Asset is attempted once, is there until then, *)
(* and a TGA to be converted waits, has been attempted, or is gone.         *)
LoopInv ==
  /\ left \subseteq Routed /\ left \cap DOMAIN said = {}
  /\ step = "open" => left = {} /\ said = NothingSaid /\ failed = {} /\ diagnostics = {}
                      /\ unreadable = {} /\ ~made
  /\ step = "attempt" => made
  /\ step = "create" => ~made
  /\ step # "open" => \A t \in Routed : t.ext = "tga" => t \in left \cup DOMAIN said

(* What a failed conversion leaves behind, and what one that did not fail.  *)
ConversionInv ==
  /\ failed \subseteq DOMAIN said
  /\ \A t \in failed : ~said[t].ok /\ t \in DOMAIN files \cup aside
  /\ Apply /\ step # "over" =>
       \A t \in DOMAIN said \ failed :
         t.ext = "tga" => OutputOf(t) \in DOMAIN files \cup aside

(* Only conversions make files, and only DDS files; a TGA found at first is *)
(* there, aside, or what it became is.                                      *)
FilesInv ==
  /\ \A p \in DOMAIN files : TargetOf(p) # "Texture" => p \in DOMAIN world.files
  /\ \A t \in DOMAIN world.files : t.ext = "tga" =>
       {t, OutputOf(t)} \cap (DOMAIN files \cup aside) # {}
  /\ \A p \in DOMAIN said : said[p].ok => p.ext = "tga" \/ p \in DOMAIN files

(* The TGA references a Mesh had at first that mean a file of the Mod.     *)
FirstTgas(m) ==
  {o \in world.files[m].refs : o.ext = "tga" /\ Meant(m, o) \cap DOMAIN world.files # {}}

(* A Mesh keeps a name, or gave it up for one that is right, in this run or *)
(* an earlier one.                                                          *)
NamesInv ==
  /\ \A m \in DOMAIN files : TargetOf(m) = "Mesh" =>
       \A o \in FirstTgas(m) :
         \/ o \in files[m].refs
         \/ Replaced(o) \in files[m].refs /\ Meant(m, Replaced(o)) \cap DOMAIN files # {}
         \/ (Meant(m, o) \cup Meant(m, Replaced(o))) \cap aside # {}
  /\ \A m \in MaintainedMeshes :
       /\ m \in DOMAIN files
       /\ \A r \in files[m].refs : ContainsTga(r) => Meant(m, r) \cap failed # {}

(* What the scan lists once every plugin was read.                         *)
AllHeadparts == world.custom \cup UNION {world.plugins[p] : p \in DOMAIN world.plugins}

(* What the scan has listed.                                                *)
ScanInv ==
  /\ ~made /\ step \in {"open", "head"} => unreadable = {} /\ diagnostics = {}
  /\ world.meshes.level >= Necessary =>
       /\ step = "create" =>
            /\ diagnostics = {} /\ plugins \cap unreadable = {}
            /\ headparts = world.custom \cup
                 UNION {world.plugins[p] : p \in DOMAIN world.plugins \ (plugins \cup unreadable)}
       /\ made /\ diagnostics = {} => headparts = AllHeadparts

(* is_headpart, as the complete list decides it.                           *)
HeadpartAtLast(path) ==
  /\ world.meshes.level >= Necessary
  /\ GamePath(path) \in AllHeadparts \/ Contains(GamePath(path).dir, "facegen")

(* What a Dry Run says of a file that nothing failed for.                   *)
Foretold(path) ==
  \/ TargetOf(path) = "Texture" /\ TextureWouldChange(path)
  \/ TargetOf(path) = "Animation"
  \/ /\ TargetOf(path) = "Mesh"
     /\ \/ /\ "maintenance" \in OperationsOf(path)
           /\ Maintained(files[path].refs, {}, path) # files[path].refs
        \/ /\ "optimization" \in OperationsOf(path) /\ Scan(files[path]) # "DoNotProcess"
           /\ \/ HeadpartAtLast(path) /\ world.meshes.headparts
              \/ Scan(files[path]) = "Good" /\ world.meshes.level >= 2
              \/ Scan(files[path]) = "CriticalIssue" /\ world.meshes.level >= Necessary
              \/ world.meshes.resave

(* No attempt failed, and every plugin could be read.                      *)
NothingFailed == diagnostics = {} /\ \A p \in DOMAIN said : said[p].ok

(* A Dry Run changes nothing and says what is foretold, ...                 *)
DryRunInv ==
  Mode = "DryRun" /\ step # "open" =>
    /\ left \cup DOMAIN said = Routed
    /\ NothingFailed => \A p \in DOMAIN said : said[p].changed <=> Foretold(p)

(* ... which stays foretold of what is still to be attempted.               *)
ForetoldInv ==
  /\ previous.mode = "DryRun" /\ previous.clean =>
      \A p \in (IF step = "open" THEN Routed ELSE left \ ConversionsWrote) :
        p \in DOMAIN previous.said /\ (previous.said[p].changed <=> Foretold(p))
  /\ DryRunForetells

(* A Texture that is optimized where it lies.                              *)
Native(path) == TargetOf(path) = "Texture" /\ path.ext # "tga"

(* How far a Texture has come to rest.                                      *)
RestInv ==
  /\ \A p \in LoosePaths : TargetOf(p) # "Texture" => settling[p] = 0
  /\ \A p \in LoosePaths : p.ext = "tga" /\ settling[p] >= 1 => p \notin DOMAIN files
  /\ world.textures.resize.kind # "ratio" /\ world.profile.format \notin world.profile.unwanted =>
       \A p \in DOMAIN files : Native(p) =>
         /\ settling[p] >= 1 /\ Halved(files[p].image, RequestOf(p)) > 0 =>
              IsPowerOfTwo(files[p].image)
         /\ settling[p] >= 2 => ~OptimizeTexture(p).modified
  /\ TexturesSettle

-----------------------------------------------------------------------------
(* Paths and names.                                                        *)

(* A loose path is a reference, and so is the path of its output.          *)
LEMMA PathIsReference ==
  ASSUME NEW p \in LoosePaths
  PROVE  /\ p \in References /\ OutputOf(p) \in LoosePaths
         /\ Extension(p) \in DOMAIN BuiltIn
<1>1. PICK i \in DOMAIN Order : p = Order[i]
  BY DEF LoosePaths, ToSet
<1>2. p \in References
  BY <1>1, OrderAssumption
<1>3. QED
  BY <1>2, OrderAssumption

(* What an extension says of the optimizer and the output; only a TGA is   *)
(* written under another name.                                             *)
LEMMA PathFacts ==
  ASSUME NEW p \in LoosePaths
  PROVE  /\ p \in References /\ OutputOf(p) \in LoosePaths
         /\ Extension(p) \in DOMAIN BuiltIn
         /\ TargetOf(p) \in {"Texture", "Mesh", "Animation"}
         /\ TargetOf(p) = "Texture" => p.ext = "tga" \/ Extension(p) = "dds"
         /\ p.ext = "tga" =>
              /\ TargetOf(p) = "Texture" /\ OutputOf(p).ext = "dds" /\ OutputOf(p) # p
              /\ TargetOf(OutputOf(p)) = "Texture"
         /\ p.ext # "tga" => OutputOf(p) = p
<1>1. p \in References /\ OutputOf(p) \in LoosePaths /\ Extension(p) \in DOMAIN BuiltIn
  BY PathIsReference
<1>2. TargetOf(p) \in {"Texture", "Mesh", "Animation"}
  BY <1>1 DEF TargetOf, BuiltIn
<1>3. TargetOf(p) = "Texture" => p.ext = "tga" \/ Extension(p) = "dds"
  <2>1. TargetOf(p) = "Texture" => Extension(p) \in {"tga", "dds"}
    BY <1>1 DEF TargetOf, BuiltIn
  <2>2. Extension(p) = "tga" => p.ext = "tga"
    BY DEF Extension
  <2>3. QED
    BY <2>1, <2>2
<1>4. ASSUME p.ext = "tga"
      PROVE  /\ TargetOf(p) = "Texture" /\ OutputOf(p).ext = "dds" /\ OutputOf(p) # p
             /\ TargetOf(OutputOf(p)) = "Texture"
  <2>1. Extension(p) = "tga"
    BY <1>4 DEF Extension
  <2>2. TargetOf(p) = "Texture"
    BY <2>1 DEF TargetOf, BuiltIn
  <2>3. OutputOf(p).ext = "dds"
    BY <1>1, <1>4 DEF OutputOf, References
  <2>4. Extension(OutputOf(p)) = "dds"
    BY <2>3 DEF Extension
  <2>5. TargetOf(OutputOf(p)) = "Texture"
    BY <2>4 DEF TargetOf, BuiltIn
  <2>6. QED
    BY <1>4, <2>2, <2>3, <2>5
<1>5. p.ext # "tga" => OutputOf(p) = p
  BY DEF OutputOf
<1>6. QED
  BY <1>1, <1>2, <1>3, <1>4, <1>5

(* Only a TGA is converted; references are maintained where the Run Policy *)
(* converts.                                                               *)
LEMMA OperationFacts ==
  ASSUME NEW p \in LoosePaths
  PROVE  /\ Converting(p) <=> p.ext = "tga" /\ world.policy.converts
         /\ OperationsOf(p) # {} /\ p.ext = "tga" => Converting(p)
         /\ "maintenance" \in OperationsOf(p) => world.policy.converts /\ TargetOf(p) = "Mesh"
<1>1. Extension(p) \in DOMAIN BuiltIn /\ (Extension(p) = "tga" <=> p.ext = "tga")
  BY PathFacts DEF Extension
<1>2. OperationsOf(p) =
        (IF Extension(p) \in DOMAIN OptimizedBy /\ OptimizedBy[Extension(p)] \in world.policy.work
           THEN {"optimization"} ELSE {})
        \cup (IF Extension(p) = "tga" /\ world.policy.converts THEN {"conversion"} ELSE {})
        \cup (IF Extension(p) \in Meshes /\ world.policy.converts THEN {"maintenance"} ELSE {})
  BY <1>1 DEF OperationsOf, Operations, MaintainsMeshReferences, IsArchive
<1>3. Converting(p) <=> p.ext = "tga" /\ world.policy.converts
  BY <1>1, <1>2 DEF Converting
<1>4. OperationsOf(p) # {} /\ p.ext = "tga" => Converting(p)
  <2> SUFFICES ASSUME OperationsOf(p) # {}, p.ext = "tga" PROVE world.policy.converts
    BY <1>3
  <2>1. "tga" \notin DOMAIN OptimizedBy /\ "tga" \notin Meshes
    BY DEF OptimizedBy, Meshes, BuiltIn
  <2>2. QED
    BY <1>1, <1>2, <2>1
<1>5. "maintenance" \in OperationsOf(p) => world.policy.converts /\ TargetOf(p) = "Mesh"
  <2>1. Extension(p) \in Meshes => TargetOf(p) = "Mesh"
    BY DEF Meshes, TargetOf, BuiltIn
  <2>2. QED
    BY <1>2, <2>1
<1>6. QED
  BY <1>3, <1>4, <1>5

(* A Texture ends in a reference and starts with folders of the Mesh       *)
(* exactly if the reference, from one of these folders, means it.          *)
LEMMA SplitPath ==
  ASSUME NEW a \in Seq(STRING), NEW b \in Seq(STRING), NEW m \in Seq(STRING)
  PROVE  IsSuffix(a, b) /\ IsPrefix(SubSeq(b, 1, Len(b) - Len(a)), m)
           <=> \E k \in 0 .. Len(m) : b = SubSeq(m, 1, k) \o a
<1>1. ASSUME IsSuffix(a, b), IsPrefix(SubSeq(b, 1, Len(b) - Len(a)), m)
      PROVE  \E k \in 0 .. Len(m) : b = SubSeq(m, 1, k) \o a
  <2> DEFINE k == Len(b) - Len(a)
             pre == SubSeq(b, 1, k)
  <2>1. Len(a) <= Len(b) /\ k \in Nat /\ Len(Reverse(a)) = Len(a) /\ Len(Reverse(b)) = Len(b)
    <3>1. Len(Reverse(a)) = Len(a) /\ Len(Reverse(b)) = Len(b)
      BY DEF Reverse
    <3>2. QED
      BY <1>1, <3>1 DEF IsSuffix, IsPrefix
  <2>2. SubSeq(Reverse(a), 1, Len(a)) = SubSeq(Reverse(b), 1, Len(a))
    BY <1>1, <2>1 DEF IsSuffix, IsPrefix
  <2>3. ASSUME NEW i \in 1 .. Len(a) PROVE a[i] = b[k + i]
    <3> DEFINE j == Len(a) - i + 1
    <3>1. j \in 1 .. Len(a) /\ j \in 1 .. Len(b)
      BY <2>1
    <3>2. SubSeq(Reverse(a), 1, Len(a))[j] = Reverse(a)[j]
      BY <2>1, <3>1
    <3>3. SubSeq(Reverse(b), 1, Len(a))[j] = Reverse(b)[j]
      BY <2>1, <3>1
    <3>4. Reverse(a)[j] = a[Len(a) - j + 1] /\ Reverse(b)[j] = b[Len(b) - j + 1]
      BY <3>1 DEF Reverse
    <3>5. Len(a) - j + 1 = i /\ Len(b) - j + 1 = k + i
      BY <2>1
    <3>6. QED
      BY <2>2, <3>2, <3>3, <3>4, <3>5
  <2>4. pre \in Seq(STRING) /\ Len(pre) = k /\ \A i \in 1 .. k : pre[i] = b[i]
    BY <2>1
  <2>5. k <= Len(m) /\ SubSeq(pre, 1, k) = SubSeq(m, 1, k)
    BY <1>1, <2>4 DEF IsPrefix
  <2>6. SubSeq(pre, 1, k) = pre
    BY <2>1, <2>4
  <2>7. Len(a) \in Nat /\ Len(b) = k + Len(a)
    BY <2>1
  <2>8. k \in Nat
    BY <2>1
  <2> HIDE DEF k, pre
  <2>9. b = pre \o a
    <3>1. Len(pre \o a) = Len(b) /\ pre \o a \in Seq(STRING)
      <4>1. pre \o a \in Seq(STRING) /\ Len(pre \o a) = Len(pre) + Len(a)
        BY <2>4, ConcatProperties
      <4>2. QED
        BY <2>4, <2>7, <4>1
    <3>2. \A i \in 1 .. Len(b) : (pre \o a)[i] = b[i]
      <4> TAKE i \in 1 .. Len(b)
      <4>1. CASE i <= k
        BY <2>4, <2>8, <4>1
      <4>2. CASE i > k
        <5>1. i - k \in 1 .. Len(a) /\ k + (i - k) = i
          BY <2>7, <2>8, <4>2
        <5>2. (pre \o a)[i] = a[i - k]
          <6>1. i \in Len(pre) + 1 .. Len(pre) + Len(a)
            BY <2>4, <2>7, <2>8, <5>1
          <6>2. (pre \o a)[i] = a[i - Len(pre)]
            BY <2>4, <6>1
          <6>3. QED
            BY <2>4, <6>2
        <5>3. QED
          BY <2>3, <5>1, <5>2
      <4>3. i <= k \/ i > k
        BY <2>7, <2>8
      <4>4. QED
        BY <4>1, <4>2, <4>3
    <3>3. QED
      BY <3>1, <3>2, SeqEqual
  <2>10. k \in 0 .. Len(m) /\ pre = SubSeq(m, 1, k)
    BY <2>5, <2>6, <2>8
  <2>11. QED
    BY <2>9, <2>10
<1>2. ASSUME NEW k \in 0 .. Len(m), b = SubSeq(m, 1, k) \o a
      PROVE  IsSuffix(a, b) /\ IsPrefix(SubSeq(b, 1, Len(b) - Len(a)), m)
  <2> DEFINE pre == SubSeq(m, 1, k)
  <2>1. pre \in Seq(STRING) /\ Len(pre) = k /\ Len(b) = k + Len(a)
    BY <1>2
  <2>2. SubSeq(b, 1, k) = pre
    BY <1>2, <2>1
  <2>3. SubSeq(pre, 1, k) = pre
    BY <2>1
  <2>4. IsPrefix(SubSeq(b, 1, Len(b) - Len(a)), m)
    BY <2>1, <2>2, <2>3 DEF IsPrefix
  <2>5. Len(Reverse(a)) = Len(a) /\ Len(Reverse(b)) = Len(b)
    BY DEF Reverse
  <2>6. Reverse(a) \in Seq(STRING) /\ Reverse(b) \in Seq(STRING)
    BY DEF Reverse
  <2>7. \A j \in 1 .. Len(a) : Reverse(b)[j] = Reverse(a)[j]
    <3> TAKE j \in 1 .. Len(a)
    <3>1. /\ Reverse(a)[j] = a[Len(a) - j + 1] /\ Reverse(b)[j] = b[Len(b) - j + 1]
      BY <2>1 DEF Reverse
    <3>2. Len(b) - j + 1 = k + (Len(a) - j + 1) /\ Len(a) - j + 1 \in 1 .. Len(a)
      BY <2>1
    <3>3. b[k + (Len(a) - j + 1)] = a[Len(a) - j + 1]
      BY <1>2, <2>1, <3>2
    <3>4. QED
      BY <3>1, <3>2, <3>3
  <2>8. SubSeq(Reverse(b), 1, Len(a)) = SubSeq(Reverse(a), 1, Len(a))
    BY <2>1, <2>5, <2>6, <2>7
  <2>9. QED
    BY <2>1, <2>4, <2>5, <2>8 DEF IsSuffix, IsPrefix
<1>3. QED
  BY <1>1, <1>2

(* names_same_texture agrees with what a reference of a Mesh may mean.     *)
LEMMA MeantNames ==
  ASSUME NEW t \in References, NEW r \in References, NEW m \in References
  PROVE  NamesSameTexture(t, r, m) <=> t \in Meant(m, r)
<1>1. t.dir \in Seq(STRING) /\ r.dir \in Seq(STRING) /\ m.dir \in Seq(STRING)
  BY DEF References
<1>2. t \in Meant(m, r) <=>
        /\ t.stem = r.stem /\ t.ext = r.ext
        /\ \E k \in 0 .. Len(m.dir) : t.dir = SubSeq(m.dir, 1, k) \o r.dir
  <2>1. \A d : t = [dir |-> d, stem |-> r.stem, ext |-> r.ext] <=>
                 t.dir = d /\ t.stem = r.stem /\ t.ext = r.ext
    BY DEF References
  <2>2. t \in Meant(m, r) <=>
          \E k \in 0 .. Len(m.dir) :
            t = [dir |-> SubSeq(m.dir, 1, k) \o r.dir, stem |-> r.stem, ext |-> r.ext]
    BY DEF Meant
  <2>3. QED
    BY <2>1, <2>2
<1>3. NamesSameTexture(t, r, m) <=>
        /\ t.stem = r.stem /\ t.ext = r.ext
        /\ IsSuffix(r.dir, t.dir) /\ IsPrefix(SubSeq(t.dir, 1, Len(t.dir) - Len(r.dir)), m.dir)
  BY DEF NamesSameTexture
<1>4. QED
  BY <1>1, <1>2, <1>3, SplitPath

(* What a Mesh's references become.                                        *)
LEMMA ReplacedName ==
  ASSUME NEW r \in References, ContainsTga(r)
  PROVE  Replaced(r) \in References /\ ~ContainsTga(Replaced(r))
<1>1. Rewritten[r.ext] \in {"dds", "dds.dds"}
  BY DEF ContainsTga, Rewritten
<1>2. Replaced(r) = [r EXCEPT !.ext = Rewritten[r.ext]]
  BY DEF Replaced
<1>3. ASSUME NEW e \in Endings
      PROVE  [r EXCEPT !.ext = e] \in References /\ [r EXCEPT !.ext = e].ext = e
  BY DEF References
<1>4. Replaced(r) \in References /\ Replaced(r).ext = Rewritten[r.ext]
  <2>1. Rewritten[r.ext] \in Endings
    BY <1>1 DEF Endings
  <2>2. QED
    BY <1>2, <1>3, <2>1
<1>5. QED
  BY <1>1, <1>4 DEF ContainsTga, Rewritten

(* Maintenance keeps what is withheld and renames every other TGA.         *)
LEMMA MaintainedNames ==
  ASSUME NEW refs \in SUBSET References, NEW withheld, NEW m
  PROVE  LET now == Maintained(refs, withheld, m)
         IN /\ now \in SUBSET References
            /\ \A r \in now : ContainsTga(r) => r \in refs /\ Withholds(withheld, r, m)
            /\ \A r \in refs : IF ContainsTga(r) /\ ~Withholds(withheld, r, m)
                                 THEN Replaced(r) \in now ELSE r \in now
<1>1. \A r \in Eligible(refs, withheld, m) :
        r \in refs /\ ContainsTga(r) /\ Replaced(r) \in References /\ ~ContainsTga(Replaced(r))
  BY ReplacedName DEF Eligible
<1>2. QED
  BY <1>1 DEF Maintained, Eligible

(* The renamed reference means the output of the converted Texture.        *)
LEMMA MeantReplaced ==
  ASSUME NEW t \in LoosePaths, NEW o, NEW m, o \in References, o.ext = "tga", t \in Meant(m, o)
  PROVE  t.ext = "tga" /\ OutputOf(t) \in Meant(m, Replaced(o))
<1>1. PICK k \in 0 .. Len(m.dir) :
        t = [dir |-> SubSeq(m.dir, 1, k) \o o.dir, stem |-> o.stem, ext |-> o.ext]
  BY DEF Meant
<1>2. t.ext = "tga" /\ OutputOf(t) = [dir |-> SubSeq(m.dir, 1, k) \o o.dir, stem |-> o.stem, ext |-> "dds"]
  BY <1>1 DEF OutputOf
<1>3. Replaced(o).dir = o.dir /\ Replaced(o).stem = o.stem /\ Replaced(o).ext = "dds"
  BY DEF Replaced, Rewritten, References
<1>4. QED
  BY <1>2, <1>3 DEF Meant

-----------------------------------------------------------------------------
(* What every attempt has in common.                                       *)

(* Whether an attempt would change its Asset.                              *)
Alters(path) ==
  IF TargetOf(path) = "Texture" THEN TextureChanges(path)
  ELSE IF TargetOf(path) = "Mesh" THEN MeshChanges(path) ELSE TRUE

(* What an attempt may publish.                                            *)
MayWrite(path, written) ==
  \/ TargetOf(path) = "Texture" /\ written = WrittenTexture(path)
  \/ TargetOf(path) = "Mesh" /\ \E sse \in BOOLEAN : written = WrittenMesh(path, sse)
  \/ /\ TargetOf(path) = "Animation"
     /\ written = With(files, path, [files[path] EXCEPT !.format = "amd64"])

(* The files once the converted source is removed.                         *)
Landed(path, written) == IF Converting(path) THEN Without(written, path) ELSE written

(* How an attempt counts towards rest.                                     *)
Settles(path, wrote, succeeded) ==
  /\ settling' \in [LoosePaths -> Nat]
  /\ \A p \in LoosePaths :
       settling'[p] = (IF wrote /\ Converting(path) /\ p = OutputOf(path) THEN 0 ELSE settling[p])
                      + IF succeeded /\ p = path /\ TargetOf(path) = "Texture" THEN 1 ELSE 0

(* The ways an attempt ends: nothing to change, ...                        *)
EndsSame(path, report) ==
  /\ ~(Apply /\ Alters(path)) /\ report = Succeeded(Alters(path))
  /\ UNCHANGED <<files, aside>> /\ Settles(path, FALSE, Apply)

(* ... changed and published, ...                                          *)
EndsWritten(path, report, written) ==
  /\ Apply /\ Alters(path) /\ report = Succeeded(Alters(path))
  /\ files' = Landed(path, written) /\ UNCHANGED aside /\ Settles(path, TRUE, TRUE)

(* ... failed with nothing changed, ...                                    *)
EndsFailed(path, report) ==
  /\ ~report.ok /\ report.failure # "SourceRemovalFailed"
  /\ UNCHANGED <<files, aside, settling>>

(* ... not loadable and renamed, ...                                       *)
EndsAside(path, report) ==
  /\ ~report.ok /\ report.failure # "SourceRemovalFailed" /\ Apply
  /\ files' = Without(files, path) /\ aside' = aside \cup {path} /\ UNCHANGED settling

(* ... published, but failed after that.                                   *)
EndsKept(path, report, written) ==
  /\ ~report.ok /\ Apply /\ Alters(path)
  /\ files' = written /\ UNCHANGED aside /\ Settles(path, TRUE, FALSE)

(* The ways an attempt ends, together.                                     *)
Ends(path, report, written) ==
  /\ Record(path, report) /\ report \in Results /\ step' \in {"head", "over"}
  /\ \/ EndsSame(path, report) \/ EndsWritten(path, report, written) \/ EndsFailed(path, report)
     \/ EndsAside(path, report) \/ EndsKept(path, report, written)

(* An attempt on any kind of Asset.                                        *)
Attempted(path, report, written) ==
  /\ step = "attempt" /\ IsNext(path) /\ Unattempted
  /\ converter' \in {"unlooked", "found", "missing"}
  /\ MayWrite(path, written) /\ Ends(path, report, written)

(* Results are well formed and say what they were made from: successes ... *)
LEMMA SuccessTypes ==
  ASSUME NEW c \in BOOLEAN
  PROVE  Succeeded(c) \in Results /\ Succeeded(c).ok /\ Succeeded(c).changed = c
         /\ Succeeded(c).safe
<1>1. ASSUME NEW m \in {"None", "Committed"}
      PROVE  [ok |-> TRUE, changed |-> c, failure |-> "none", mutation |-> m, safe |-> TRUE] \in Results
  BY DEF Results
<1>2. (IF c /\ Apply THEN "Committed" ELSE "None") \in {"None", "Committed"}
  OBVIOUS
<1>3. QED
  BY <1>1, <1>2 DEF Succeeded

(* ... and failures.                                                       *)
LEMMA ResultTypes ==
  /\ \A c \in BOOLEAN : Succeeded(c) \in Results /\ Succeeded(c).ok /\ Succeeded(c).changed = c
                        /\ Succeeded(c).safe
  /\ \A f \in {"LoadFailed", "OperationFailed", "SaveFailed", "PublicationFailed",
               "SourceRemovalFailed", "BackendException"} :
       \A m \in {"None", "Committed", "PartialOrUnknown"} : \A s \in BOOLEAN :
         /\ Failed(f, m, s) \in Results /\ ~Failed(f, m, s).ok /\ Failed(f, m, s).failure = f
         /\ Failed(f, m, s).mutation = m /\ Failed(f, m, s).safe = s
BY SuccessTypes DEF Failed, Results

(* Whether an attempt changes its Asset is a truth value.                  *)
LEMMA AltersType ==
  ASSUME NEW path PROVE Alters(path) \in BOOLEAN
BY DEF Alters, TextureChanges, TextureWouldChange, MeshChanges

(* Assets that are no Textures count nothing; nor does a Dry Run.          *)
LEMMA Unsettled ==
  ASSUME NEW path \in LoosePaths, settling \in [LoosePaths -> Nat]
  PROVE  /\ UNCHANGED settling /\ (TargetOf(path) = "Texture" => ~Apply) => Settles(path, FALSE, Apply)
         /\ UNCHANGED settling /\ TargetOf(path) # "Texture" =>
              \A succeeded \in BOOLEAN : Settles(path, TRUE, succeeded)
<1>1. Converting(path) => TargetOf(path) = "Texture"
  BY OperationFacts, PathFacts
<1>2. QED
  BY <1>1 DEF Settles

(* A conversion starts the count of its output anew; a success counts.     *)
LEMMA Settled ==
  ASSUME NEW path \in LoosePaths, settling \in [LoosePaths -> Nat],
         TargetOf(path) = "Texture",
         NEW anew, anew = IF Converting(path) THEN [settling EXCEPT ![OutputOf(path)] = 0] ELSE settling
  PROVE  /\ settling' = [settling EXCEPT ![path] = @ + IF Apply THEN 1 ELSE 0] => Settles(path, FALSE, Apply)
         /\ settling' = [anew EXCEPT ![path] = @ + 1] => Settles(path, TRUE, TRUE)
         /\ settling' = anew => Settles(path, TRUE, FALSE)
<1>1. OutputOf(path) \in LoosePaths /\ (Converting(path) => OutputOf(path) # path)
  BY OperationFacts, PathFacts
<1>2. anew \in [LoosePaths -> Nat]
      /\ \A p \in LoosePaths : anew[p] = IF Converting(path) /\ p = OutputOf(path) THEN 0 ELSE settling[p]
  BY <1>1
<1>3. settling' = anew => Settles(path, TRUE, FALSE)
  BY <1>2 DEF Settles
<1>4. ASSUME settling' = [anew EXCEPT ![path] = @ + 1] PROVE Settles(path, TRUE, TRUE)
  BY <1>2, <1>4 DEF Settles
<1>5. ASSUME settling' = [settling EXCEPT ![path] = @ + IF Apply THEN 1 ELSE 0]
      PROVE  Settles(path, FALSE, Apply)
  BY <1>5 DEF Settles
<1>6. QED
  BY <1>3, <1>4, <1>5

(* Every failure is one of the ways an attempt ends.                       *)
LEMMA FailuresEnd ==
  ASSUME NEW path, NEW written
  PROVE  /\ \A f \in {"SaveFailed", "OperationFailed"} :
              FailBefore(path, f) /\ UNCHANGED settling => \E report : Ends(path, report, written)
         /\ FailLoad(path) /\ UNCHANGED settling => \E report : Ends(path, report, written)
         /\ FailRelease(path, written) /\ Apply /\ Alters(path) /\ Settles(path, TRUE, FALSE) =>
              \E report : Ends(path, report, written)
<1>1. ASSUME NEW f \in {"SaveFailed", "OperationFailed"}, FailBefore(path, f), UNCHANGED settling
      PROVE  Ends(path, Failed(f, "None", TRUE), written)
  <2> DEFINE report == Failed(f, "None", TRUE)
  <2>1. report \in Results /\ ~report.ok /\ report.failure = f
    BY DEF Failed, Results
  <2>2. Record(path, report) /\ Continue(report) /\ UNCHANGED <<files, aside>>
    BY <1>1 DEF FailBefore
  <2> HIDE DEF report
  <2>3. EndsFailed(path, report)
    BY <1>1, <2>1, <2>2 DEF EndsFailed
  <2>4. QED
    BY <2>1, <2>2, <2>3 DEF Ends, Continue, report
<1>2. ASSUME FailLoad(path), UNCHANGED settling
      PROVE  Ends(path, Failed("LoadFailed", "None", TRUE), written)
  <2> DEFINE report == Failed("LoadFailed", "None", TRUE)
  <2>1. report \in Results /\ ~report.ok /\ report.failure = "LoadFailed"
    BY DEF Failed, Results
  <2>2. /\ Record(path, report)
        /\ \/ Apply /\ files' = Without(files, path) /\ aside' = aside \cup {path} /\ step' = "head"
           \/ UNCHANGED <<files, aside>> /\ step' = IF Apply THEN "over" ELSE "head"
    BY <1>2 DEF FailLoad
  <2> HIDE DEF report
  <2>3. EndsFailed(path, report) \/ EndsAside(path, report)
    BY <1>2, <2>1, <2>2 DEF EndsFailed, EndsAside
  <2>4. QED
    BY <2>1, <2>2, <2>3 DEF Ends, report
<1>3. ASSUME FailRelease(path, written), Apply, Alters(path), Settles(path, TRUE, FALSE)
      PROVE  Ends(path, Failed("PublicationFailed", "Committed", FALSE), written)
  <2> DEFINE report == Failed("PublicationFailed", "Committed", FALSE)
  <2>1. report \in Results /\ ~report.ok
    BY DEF Failed, Results
  <2>2. Record(path, report) /\ Continue(report) /\ files' = written /\ UNCHANGED aside
    BY <1>3 DEF FailRelease
  <2> HIDE DEF report
  <2>3. EndsKept(path, report, written)
    BY <1>3, <2>1, <2>2 DEF EndsKept
  <2>4. QED
    BY <2>1, <2>2, <2>3 DEF Ends, Continue, report
<1>4. QED
  BY <1>1, <1>2, <1>3

(* execute_texture, execute_mesh and execute_animation are attempts:       *)
(* Textures, ...                                                           *)
LEMMA TextureAttempted ==
  ASSUME BackendTypeOK, NEW path \in LoosePaths, AttemptTexture(path)
  PROVE  \E report, written : Attempted(path, report, written)
<1> DEFINE written == WrittenTexture(path)
           anew == IF Converting(path) THEN [settling EXCEPT ![OutputOf(path)] = 0] ELSE settling
           changed == TextureChanges(path)
<1>1. /\ step = "attempt" /\ IsNext(path) /\ Unattempted /\ converter' \in {"unlooked", "found", "missing"}
      /\ TargetOf(path) = "Texture" /\ MayWrite(path, written) /\ Alters(path) = changed
      /\ settling \in [LoosePaths -> Nat]
  BY DEF AttemptTexture, MayWrite, Alters, BackendTypeOK, StateTypeOK
<1>2. /\ settling' = [settling EXCEPT ![path] = @ + IF Apply THEN 1 ELSE 0] => Settles(path, FALSE, Apply)
      /\ settling' = [anew EXCEPT ![path] = @ + 1] => Settles(path, TRUE, TRUE)
      /\ settling' = anew => Settles(path, TRUE, FALSE)
  BY <1>1, Settled
<1>3. changed \in BOOLEAN /\ Succeeded(changed) \in Results
  BY <1>1, AltersType, ResultTypes
<1>4. \/ /\ ~(Apply /\ changed) /\ Record(path, Succeeded(changed)) /\ step' = "head" /\ UNCHANGED aside
         /\ UNCHANGED files /\ settling' = [settling EXCEPT ![path] = @ + IF Apply THEN 1 ELSE 0]
      \/ /\ Apply /\ changed
         /\ \/ /\ Record(path, Succeeded(changed)) /\ step' = "head" /\ UNCHANGED aside
               /\ files' = IF Converting(path) THEN Without(written, path) ELSE written
               /\ settling' = [anew EXCEPT ![path] = @ + 1]
            \/ FailBefore(path, "SaveFailed") /\ UNCHANGED settling
            \/ FailRelease(path, written) /\ settling' = anew
            \/ \E report \in {Failed("SourceRemovalFailed", "Committed", TRUE),
                              Failed("SourceRemovalFailed", "PartialOrUnknown", FALSE)} :
                 /\ Record(path, report) /\ Continue(report) /\ files' = written /\ settling' = anew
                 /\ UNCHANGED aside
      \/ FailBefore(path, "OperationFailed") /\ UNCHANGED settling
      \/ FailLoad(path) /\ UNCHANGED settling
  BY Zenon DEF AttemptTexture
<1> HIDE DEF written, anew, changed
<1>5. CASE /\ ~(Apply /\ changed) /\ Record(path, Succeeded(changed)) /\ step' = "head" /\ UNCHANGED aside
           /\ UNCHANGED files /\ settling' = [settling EXCEPT ![path] = @ + IF Apply THEN 1 ELSE 0]
  <2>1. EndsSame(path, Succeeded(changed))
    BY <1>1, <1>2, <1>5 DEF EndsSame
  <2>2. Ends(path, Succeeded(changed), written)
    BY <1>3, <1>5, <2>1 DEF Ends
  <2>3. QED
    BY <1>1, <2>2, Zenon DEF Attempted
<1>6. CASE /\ Apply /\ changed /\ Record(path, Succeeded(changed)) /\ step' = "head" /\ UNCHANGED aside
           /\ files' = IF Converting(path) THEN Without(written, path) ELSE written
           /\ settling' = [anew EXCEPT ![path] = @ + 1]
  <2>1. EndsWritten(path, Succeeded(changed), written)
    BY <1>1, <1>2, <1>6 DEF EndsWritten, Landed
  <2>2. Ends(path, Succeeded(changed), written)
    BY <1>3, <1>6, <2>1 DEF Ends
  <2>3. QED
    BY <1>1, <2>2, Zenon DEF Attempted
<1>7. ASSUME Apply, changed,
             NEW report \in {Failed("SourceRemovalFailed", "Committed", TRUE),
                             Failed("SourceRemovalFailed", "PartialOrUnknown", FALSE)},
             Record(path, report), Continue(report), files' = written, settling' = anew, UNCHANGED aside
      PROVE  Attempted(path, report, written)
  <2>1. report \in Results /\ ~report.ok
    <3>1. \A m \in {"Committed", "PartialOrUnknown"} : \A b \in BOOLEAN :
            Failed("SourceRemovalFailed", m, b) \in Results /\ ~Failed("SourceRemovalFailed", m, b).ok
      BY DEF Failed, Results
    <3>2. QED
      BY <1>7, <3>1
  <2>2. EndsKept(path, report, written)
    BY <1>1, <1>2, <1>7, <2>1 DEF EndsKept
  <2>3. Ends(path, report, written)
    BY <1>7, <2>1, <2>2 DEF Ends, Continue
  <2>4. QED
    BY <1>1, <2>3, Zenon DEF Attempted
<1>8. ASSUME \E report : Ends(path, report, written)
      PROVE  \E report, w : Attempted(path, report, w)
  BY <1>1, <1>8, Zenon DEF Attempted
<1>9. CASE Apply /\ changed /\ FailRelease(path, written) /\ settling' = anew
  <2>1. \E report : Ends(path, report, written)
    BY <1>1, <1>2, <1>9, FailuresEnd
  <2>2. QED
    BY <1>8, <2>1, Zenon
<1>10. CASE /\ UNCHANGED settling
            /\ FailBefore(path, "SaveFailed") \/ FailBefore(path, "OperationFailed") \/ FailLoad(path)
  <2>1. \E report : Ends(path, report, written)
    BY <1>10, FailuresEnd
  <2>2. QED
    BY <1>8, <2>1, Zenon
<1>11. QED
  BY <1>4, <1>5, <1>6, <1>7, <1>9, <1>10, Zenon

(* ... Meshes ...                                                          *)
LEMMA MeshAttempted ==
  ASSUME BackendTypeOK, LoopInv, NEW path \in LoosePaths, AttemptMesh(path)
  PROVE  \E report, written : Attempted(path, report, written)
<1> DEFINE changed == MeshChanges(path)
<1>1. /\ step = "attempt" /\ IsNext(path) /\ Unattempted /\ converter' \in {"unlooked", "found", "missing"}
      /\ TargetOf(path) = "Mesh" /\ Alters(path) = changed /\ UNCHANGED settling
      /\ settling \in [LoosePaths -> Nat]
  BY DEF AttemptMesh, Alters, BackendTypeOK, StateTypeOK
<1>2. ~Converting(path) /\ TargetOf(path) # "Texture"
  BY <1>1, OperationFacts, PathFacts
<1>3. Settles(path, FALSE, Apply) /\ Settles(path, TRUE, TRUE) /\ Settles(path, TRUE, FALSE)
  BY <1>1, <1>2, Unsettled
<1>4. changed \in BOOLEAN /\ Succeeded(changed) \in Results
  BY <1>1, AltersType, ResultTypes
<1>5. PICK sse \in BOOLEAN :
         \/ ~(Apply /\ changed) /\ Record(path, Succeeded(changed)) /\ step' = "head" /\ UNCHANGED <<files, aside>>
         \/ /\ Apply /\ changed
            /\ \/ /\ Record(path, Succeeded(changed)) /\ step' = "head" /\ UNCHANGED aside
                  /\ files' = WrittenMesh(path, sse)
               \/ FailRelease(path, WrittenMesh(path, sse))
         \/ FailBefore(path, "SaveFailed") \/ FailBefore(path, "OperationFailed") \/ FailLoad(path)
         \/ Record(path, BackendException) /\ step' = "over" /\ UNCHANGED <<files, aside>>
  <2> DEFINE compatible == IF /\ "optimization" \in OperationsOf(path)
                              /\ files[path].valid /\ RunsOptimizeFor(path)
                             THEN {files[path].sse, TRUE} ELSE {files[path].sse}
  <2>1. compatible \subseteq BOOLEAN
    <3>1. path \in DOMAIN files
      BY <1>1 DEF IsNext, LoopInv, Routed
    <3>2. files[path] \in Contents["Mesh"]
      BY <1>1, <3>1 DEF BackendTypeOK, StateTypeOK
    <3>3. files[path].sse \in BOOLEAN
      BY <3>2 DEF Contents
    <3>4. QED
      BY <3>3
  <2>2. QED
    BY <2>1, Zenon DEF AttemptMesh
<1> DEFINE written == WrittenMesh(path, sse)
<1>6. MayWrite(path, written)
  BY <1>1 DEF MayWrite
<1> HIDE DEF written, changed
<1>7. ASSUME \E report : Ends(path, report, written)
      PROVE  \E report, w : Attempted(path, report, w)
  BY <1>1, <1>6, <1>7, Zenon DEF Attempted
<1>8. CASE ~(Apply /\ changed) /\ Record(path, Succeeded(changed)) /\ step' = "head" /\ UNCHANGED <<files, aside>>
  <2>1. EndsSame(path, Succeeded(changed))
    BY <1>1, <1>3, <1>8 DEF EndsSame
  <2>2. Ends(path, Succeeded(changed), written)
    BY <1>4, <1>8, <2>1 DEF Ends
  <2>3. QED
    BY <1>7, <2>2, Zenon
<1>9. CASE /\ Apply /\ changed /\ Record(path, Succeeded(changed)) /\ step' = "head" /\ UNCHANGED aside
           /\ files' = written
  <2>1. EndsWritten(path, Succeeded(changed), written)
    BY <1>1, <1>2, <1>3, <1>9 DEF EndsWritten, Landed
  <2>2. Ends(path, Succeeded(changed), written)
    BY <1>4, <1>9, <2>1 DEF Ends
  <2>3. QED
    BY <1>7, <2>2, Zenon
<1>10. CASE \/ Apply /\ changed /\ FailRelease(path, written)
            \/ FailBefore(path, "SaveFailed") \/ FailBefore(path, "OperationFailed") \/ FailLoad(path)
  <2>1. \E report : Ends(path, report, written)
    BY <1>1, <1>3, <1>10, FailuresEnd
  <2>2. QED
    BY <1>7, <2>1, Zenon
<1>11. CASE Record(path, BackendException) /\ step' = "over" /\ UNCHANGED <<files, aside>>
  <2>1. BackendException \in Results /\ ~BackendException.ok /\ BackendException.failure = "BackendException"
    BY DEF BackendException, Failed, Results
  <2>2. EndsFailed(path, BackendException)
    BY <1>1, <1>11, <2>1 DEF EndsFailed
  <2>3. Ends(path, BackendException, written)
    BY <1>11, <2>1, <2>2 DEF Ends
  <2>4. QED
    BY <1>7, <2>3, Zenon
<1>12. QED
  BY <1>5, <1>8, <1>9, <1>10, <1>11, Zenon DEF written

(* ... and Animations.                                                     *)
LEMMA AnimationAttempted ==
  ASSUME BackendTypeOK, NEW path \in LoosePaths, AttemptAnimation(path)
  PROVE  \E report, written : Attempted(path, report, written)
<1> DEFINE written == With(files, path, [files[path] EXCEPT !.format = "amd64"])
<1>1. /\ step = "attempt" /\ IsNext(path) /\ Unattempted /\ converter' \in {"unlooked", "found", "missing"}
      /\ TargetOf(path) = "Animation" /\ Alters(path) = TRUE /\ UNCHANGED settling
      /\ settling \in [LoosePaths -> Nat] /\ MayWrite(path, written)
  BY DEF AttemptAnimation, Alters, BackendTypeOK, StateTypeOK, LookForConverter, MayWrite
<1>2. ~Converting(path) /\ TargetOf(path) # "Texture"
  BY <1>1, OperationFacts, PathFacts
<1>3. Settles(path, FALSE, Apply) /\ Settles(path, TRUE, TRUE) /\ Settles(path, TRUE, FALSE)
  BY <1>1, <1>2, Unsettled
<1>4. Succeeded(TRUE) \in Results
  <2>1. TRUE \in BOOLEAN
    OBVIOUS
  <2>2. QED
    BY <2>1, SuccessTypes
<1>5. \/ ~Apply /\ Record(path, Succeeded(TRUE)) /\ step' = "head" /\ UNCHANGED <<files, aside>>
      \/ /\ Apply
         /\ \/ Record(path, Succeeded(TRUE)) /\ step' = "head" /\ files' = written /\ UNCHANGED aside
            \/ FailRelease(path, written)
            \/ FailBefore(path, "OperationFailed")
  BY DEF AttemptAnimation
<1> HIDE DEF written
<1>6. ASSUME \E report : Ends(path, report, written)
      PROVE  \E report, w : Attempted(path, report, w)
  BY <1>1, <1>6, Zenon DEF Attempted
<1>7. CASE ~Apply /\ Record(path, Succeeded(TRUE)) /\ step' = "head" /\ UNCHANGED <<files, aside>>
  <2>1. EndsSame(path, Succeeded(TRUE))
    BY <1>1, <1>3, <1>7 DEF EndsSame
  <2>2. Ends(path, Succeeded(TRUE), written)
    BY <1>4, <1>7, <2>1 DEF Ends
  <2>3. QED
    BY <1>6, <2>2, Zenon
<1>8. CASE Apply /\ Record(path, Succeeded(TRUE)) /\ step' = "head" /\ files' = written /\ UNCHANGED aside
  <2>1. EndsWritten(path, Succeeded(TRUE), written)
    BY <1>1, <1>2, <1>3, <1>8 DEF EndsWritten, Landed
  <2>2. Ends(path, Succeeded(TRUE), written)
    BY <1>4, <1>8, <2>1 DEF Ends
  <2>3. QED
    BY <1>6, <2>2, Zenon
<1>9. CASE (Apply /\ FailRelease(path, written)) \/ FailBefore(path, "OperationFailed")
  <2>1. \E report : Ends(path, report, written)
    BY <1>1, <1>3, <1>9, FailuresEnd
  <2>2. QED
    BY <1>6, <2>1, Zenon
<1>10. QED
  BY <1>5, <1>7, <1>8, <1>9, Zenon

(* What is assumed of a world, one by one.                                 *)
LEMMA WorldTypes ==
  ASSUME world \in Worlds
  PROVE  /\ DOMAIN world.files \subseteq LoosePaths
         /\ \A p \in DOMAIN world.files : world.files[p] \in Contents[TargetOf(p)]
         /\ world.modes \in Seq({"Apply", "DryRun"}) /\ world.modes # <<>>
         /\ world.profile \in Targets /\ world.textures \in TextureChoices
         /\ world.meshes \in [level : Levels, headparts : BOOLEAN, resave : BOOLEAN, target : {"SK", "SSE"}]
         /\ world.faults \in Nat
BY WorldsAssumption

(* texture_request asks for a target of at least one pixel unless a ratio  *)
(* is asked for, and only then looks at the image.                         *)
LEMMA RequestType ==
  ASSUME NEW operations, NEW textures \in TextureChoices, NEW image \in Images
  PROVE  LET request == TextureRequest(operations, textures, image)
         IN /\ request \in Requests
            /\ textures.resize.kind # "ratio" =>
                 /\ request.resize => request.target.w >= 1 /\ request.target.h >= 1
                 /\ \A other : TextureRequest(operations, textures, other) = request
<1> DEFINE r == textures.resize
           goal == IF r.kind = "ratio" THEN [w |-> image.w \div r.w, h |-> image.h \div r.h]
                     ELSE [w |-> r.w, h |-> r.h]
           resize == "optimization" \in operations /\ r # Off
           request == TextureRequest(operations, textures, image)
<1>1. r = Off \/ r \in [kind : {"size", "ratio"}, w : Nat \ {0}, h : Nat \ {0}]
  BY DEF TextureChoices
<1>2. goal \in [w : Nat, h : Nat]
  <2>1. CASE r = Off
    BY <2>1 DEF Off
  <2>2. CASE r \in [kind : {"size", "ratio"}, w : Nat \ {0}, h : Nat \ {0}]
    <3>1. image.w \in Nat /\ image.h \in Nat /\ r.w \in Nat \ {0} /\ r.h \in Nat \ {0}
      BY <2>2, Powers DEF Images, Sides
    <3>2. image.w \div r.w \in Nat /\ image.h \div r.h \in Nat
      BY <3>1
    <3>3. QED
      BY <3>1, <3>2
  <2>3. QED
    BY <1>1, <2>1, <2>2
<1>3. r.kind # "ratio" /\ resize => goal.w >= 1 /\ goal.h >= 1
  BY <1>1
<1>4. /\ request.target = goal /\ request.resize = resize
      /\ request \in [necessary : BOOLEAN, compress : BOOLEAN, mipmaps : BOOLEAN, resize : BOOLEAN,
                      target : {goal}]
  BY DEF TextureRequest, TextureChoices
<1>5. request \in Requests
  <2> HIDE DEF goal, request
  <2>1. QED
    BY <1>2, <1>4 DEF Requests
<1>6. r.kind # "ratio" => \A other : TextureRequest(operations, textures, other) = request
  BY DEF TextureRequest
<1>7. QED
  BY <1>3, <1>4, <1>5, <1>6

(* The optimizer is run on an image and a request it is sound for.         *)
LEMMA TextureFacts ==
  ASSUME BackendTypeOK, NEW path \in DOMAIN files, TargetOf(path) = "Texture"
  PROVE  /\ files[path].image \in Images /\ RequestOf(path) \in Requests
         /\ IsInterface(path) \in BOOLEAN /\ world.profile \in Targets
         /\ SoundlyOptimized(files[path].image, VariantOf(path), IsInterface(path), world.profile, RequestOf(path))
<1>1. path \in LoosePaths /\ files[path] \in Contents["Texture"] /\ world \in Worlds
  BY DEF BackendTypeOK, StateTypeOK
<1>2. files[path].image \in Images
  BY <1>1 DEF Contents
<1>3. RequestOf(path) \in Requests /\ world.profile \in Targets
  BY <1>1, <1>2, WorldTypes, RequestType DEF RequestOf
<1>4. IsInterface(path) \in BOOLEAN
  BY DEF IsInterface, Contains
<1>5. QED
  BY <1>2, <1>3, <1>4, OptimizedImage, Zenon

(* What an attempt publishes is its output, and of its output's kind.      *)
LEMMA Written ==
  ASSUME BackendTypeOK, NEW path \in DOMAIN files, NEW written, MayWrite(path, written)
  PROVE  /\ DOMAIN written = DOMAIN files \cup {OutputOf(path)}
         /\ \A p \in DOMAIN files \ {OutputOf(path)} : written[p] = files[p]
         /\ written[OutputOf(path)] \in Contents[TargetOf(OutputOf(path))]
         /\ TargetOf(path) = "Texture" => written[OutputOf(path)].image = OptimizeTexture(path).image
         /\ TargetOf(path) = "Mesh" => written[path].refs = MaintainMeshReferences(path)
<1>1. path \in LoosePaths /\ files[path] \in Contents[TargetOf(path)]
  BY DEF BackendTypeOK, StateTypeOK
<1>2. ASSUME NEW out, NEW value, written = With(files, out, value)
      PROVE  /\ DOMAIN written = DOMAIN files \cup {out} /\ written[out] = value
             /\ \A p \in DOMAIN files \ {out} : written[p] = files[p]
  BY <1>2 DEF With
<1>3. CASE TargetOf(path) = "Texture"
  <2> DEFINE image == OptimizeTexture(path).image
  <2>1. written = With(files, OutputOf(path), [image |-> image])
    BY <1>3 DEF MayWrite, WrittenTexture
  <2>2. TargetOf(OutputOf(path)) = "Texture"
    BY <1>1, <1>3, PathFacts
  <2>3. image \in Images
    <3>1. SoundlyOptimized(files[path].image, VariantOf(path), IsInterface(path), world.profile, RequestOf(path))
      BY <1>3, TextureFacts
    <3>2. QED
      BY <3>1 DEF SoundlyOptimized, OptimizeTexture
  <2> HIDE DEF image
  <2>4. [image |-> image] \in Contents["Texture"]
    BY <2>3 DEF Contents
  <2>5. /\ DOMAIN written = DOMAIN files \cup {OutputOf(path)} /\ written[OutputOf(path)] = [image |-> image]
        /\ \A p \in DOMAIN files \ {OutputOf(path)} : written[p] = files[p]
    BY <1>2, <2>1
  <2>6. QED
    BY <1>3, <2>2, <2>4, <2>5 DEF image
<1>4. CASE TargetOf(path) = "Mesh"
  <2>1. PICK sse \in BOOLEAN :
          written = With(files, path, [files[path] EXCEPT !.refs = MaintainMeshReferences(path), !.sse = sse])
    BY <1>4 DEF MayWrite, WrittenMesh
  <2>2. OutputOf(path) = path
    BY <1>1, <1>4, PathFacts
  <2>3. files[path] \in [refs : SUBSET References, sse : BOOLEAN, valid : BOOLEAN]
    BY <1>1, <1>4 DEF Contents
  <2>4. MaintainMeshReferences(path) \in SUBSET References
    BY <2>3, MaintainedNames DEF MaintainMeshReferences
  <2> DEFINE refs == MaintainMeshReferences(path)
             value == [files[path] EXCEPT !.refs = refs, !.sse = sse]
  <2> HIDE DEF refs
  <2>5. value \in Contents["Mesh"] /\ value.refs = refs
    BY <2>3, <2>4 DEF Contents, refs
  <2>6. /\ DOMAIN written = DOMAIN files \cup {path} /\ written[path] = value
        /\ \A p \in DOMAIN files \ {path} : written[p] = files[p]
    BY <1>2, <2>1 DEF refs
  <2> HIDE DEF value
  <2>7. QED
    BY <1>4, <2>2, <2>5, <2>6 DEF refs
<1>5. CASE TargetOf(path) = "Animation"
  <2> DEFINE value == [files[path] EXCEPT !.format = "amd64"]
  <2>1. written = With(files, path, value)
    BY <1>5 DEF MayWrite
  <2>2. OutputOf(path) = path
    BY <1>1, <1>5, PathFacts
  <2>3. value \in Contents["Animation"]
    BY <1>1, <1>5 DEF Contents
  <2>4. /\ DOMAIN written = DOMAIN files \cup {path} /\ written[path] = value
        /\ \A p \in DOMAIN files \ {path} : written[p] = files[p]
    BY <1>2, <2>1
  <2> HIDE DEF value
  <2>5. QED
    BY <1>5, <2>2, <2>3, <2>4
<1>6. QED
  BY <1>1, <1>3, <1>4, <1>5, PathFacts

(* What an attempt moves.                                                  *)
Moves(path, report) ==
  /\ path \in DOMAIN files /\ path \in left /\ path \notin DOMAIN said /\ OperationsOf(path) # {}
  /\ DOMAIN files' \subseteq DOMAIN files \cup {OutputOf(path)}
  /\ DOMAIN files \ {path} \subseteq DOMAIN files'
  /\ path \in DOMAIN files' \cup aside' \/ (Converting(path) /\ OutputOf(path) \in DOMAIN files')
  /\ aside \subseteq aside' /\ aside' \subseteq aside \cup {path}
  /\ \A p \in DOMAIN files' \ {OutputOf(path)} : files'[p] = files[p]
  /\ \A p \in DOMAIN files' : files'[p] \in Contents[TargetOf(p)]
  /\ DOMAIN said' = DOMAIN said \cup {path} /\ said'[path] = report
  /\ \A p \in DOMAIN said : said'[p] = said[p]
  /\ report.ok /\ path.ext # "tga" => path \in DOMAIN files'

(* Every attempt does so.                                                  *)
LEMMA AttemptMoves ==
  ASSUME BackendTypeOK, LoopInv, NEW path \in LoosePaths, NEW report, NEW written,
         Attempted(path, report, written)
  PROVE  Moves(path, report)
<1>1. /\ IsNext(path) /\ Record(path, report) /\ MayWrite(path, written)
      /\ \/ EndsSame(path, report) \/ EndsWritten(path, report, written) \/ EndsFailed(path, report)
         \/ EndsAside(path, report) \/ EndsKept(path, report, written)
  BY DEF Attempted, Ends
<1>2. path \in DOMAIN files /\ path \in left /\ path \notin DOMAIN said /\ OperationsOf(path) # {}
  BY <1>1 DEF IsNext, LoopInv, Routed
<1>3. /\ DOMAIN said' = DOMAIN said \cup {path} /\ said'[path] = report
      /\ \A p \in DOMAIN said : said'[p] = said[p]
  BY <1>1, <1>2 DEF Record, With
<1>4. /\ DOMAIN written = DOMAIN files \cup {OutputOf(path)}
      /\ \A p \in DOMAIN files \ {OutputOf(path)} : written[p] = files[p]
      /\ written[OutputOf(path)] \in Contents[TargetOf(OutputOf(path))]
  BY <1>1, <1>2, Written
<1>5. /\ Converting(path) <=> path.ext = "tga" /\ world.policy.converts
      /\ path.ext = "tga" => Converting(path) /\ OutputOf(path) # path
      /\ path.ext # "tga" => OutputOf(path) = path
  BY <1>2, OperationFacts, PathFacts
<1>6. \A p \in DOMAIN files : files[p] \in Contents[TargetOf(p)]
  BY DEF BackendTypeOK, StateTypeOK
<1> DEFINE Placed ==
      /\ DOMAIN files' \subseteq DOMAIN files \cup {OutputOf(path)}
      /\ DOMAIN files \ {path} \subseteq DOMAIN files'
      /\ path \in DOMAIN files' \cup aside' \/ (Converting(path) /\ OutputOf(path) \in DOMAIN files')
      /\ aside \subseteq aside' /\ aside' \subseteq aside \cup {path}
      /\ \A p \in DOMAIN files' \ {OutputOf(path)} : files'[p] = files[p]
      /\ \A p \in DOMAIN files' : files'[p] \in Contents[TargetOf(p)]
      /\ report.ok /\ path.ext # "tga" => path \in DOMAIN files'
<1>7. ASSUME UNCHANGED <<files, aside>> PROVE Placed
  BY <1>2, <1>6, <1>7
<1>8. ASSUME EndsAside(path, report) PROVE Placed
  <2>1. files' = Without(files, path) /\ aside' = aside \cup {path} /\ ~report.ok
    BY <1>8 DEF EndsAside
  <2>2. DOMAIN files' = DOMAIN files \ {path} /\ \A p \in DOMAIN files' : files'[p] = files[p]
    BY <2>1 DEF Without, Restrict
  <2>3. QED
    BY <1>6, <2>1, <2>2
<1>9. ASSUME files' = written, UNCHANGED aside PROVE Placed
  BY <1>2, <1>4, <1>6, <1>9
<1>10. ASSUME files' = Landed(path, written), UNCHANGED aside PROVE Placed
  <2>1. CASE Converting(path)
    <3>1. files' = Without(written, path)
      BY <1>10, <2>1 DEF Landed
    <3>2. DOMAIN files' = DOMAIN written \ {path} /\ \A p \in DOMAIN files' : files'[p] = written[p]
      BY <3>1 DEF Without, Restrict
    <3>3. QED
      BY <1>2, <1>4, <1>5, <1>6, <1>10, <2>1, <3>2
  <2>2. CASE ~Converting(path)
    <3>1. files' = written
      BY <1>10, <2>2 DEF Landed
    <3>2. QED
      BY <1>9, <1>10, <3>1
  <2>3. QED
    BY <2>1, <2>2
<1>11. Placed
  <2> HIDE DEF Placed
  <2>1. QED
    BY <1>1, <1>7, <1>8, <1>9, <1>10 DEF EndsSame, EndsWritten, EndsFailed, EndsKept
<1>12. QED
  BY <1>2, <1>3, <1>11 DEF Moves

(* The backend is told of exactly the conversions that failed before their *)
(* output was published for good.                                          *)
LEMMA AttemptFails ==
  ASSUME NEW path, NEW report, Record(path, report)
  PROVE  /\ failed \subseteq failed' /\ failed' \subseteq failed \cup {path}
         /\ path \in failed' /\ path \notin failed => ~report.ok /\ Converting(path)
         /\ path \notin failed' /\ Converting(path) =>
              report.ok \/ report.failure = "SourceRemovalFailed"
BY DEF Record, RecordAttempt, AssetOf

(* An attempt keeps the types, ...                                         *)
LEMMA AttemptTypes ==
  ASSUME BackendTypeOK, LoopInv, NEW path \in LoosePaths, NEW report, NEW written,
         Attempted(path, report, written)
  PROVE  BackendTypeOK'
<1>1. Moves(path, report)
  BY AttemptMoves
<1>2. /\ UNCHANGED <<world, run, cancelled, plugins, headparts, unreadable, diagnostics, made, previous>>
      /\ Record(path, report) /\ report \in Results /\ step' \in {"head", "over"}
      /\ converter' \in {"unlooked", "found", "missing"}
  BY DEF Attempted, Ends, Unattempted
<1>3. DOMAIN files' \subseteq LoosePaths /\ aside' \subseteq LoosePaths
      /\ \A p \in DOMAIN files' : files'[p] \in Contents[TargetOf(p)]
  <2>1. OutputOf(path) \in LoosePaths
    BY PathFacts
  <2>2. DOMAIN files \subseteq LoosePaths /\ aside \subseteq LoosePaths
    BY DEF BackendTypeOK, StateTypeOK
  <2>3. QED
    BY <1>1, <2>1, <2>2 DEF Moves
<1>4. left' \subseteq LoosePaths /\ failed' \subseteq LoosePaths
  BY <1>2, AttemptFails DEF Record, BackendTypeOK, StateTypeOK
<1>5. DOMAIN said' \subseteq LoosePaths /\ \A p \in DOMAIN said' : said'[p] \in Results
  BY <1>1, <1>2 DEF Moves, BackendTypeOK, StateTypeOK
<1>6. settling' \in [LoosePaths -> Nat]
  BY DEF Attempted, Ends, EndsSame, EndsWritten, EndsFailed, EndsAside, EndsKept, Settles, BackendTypeOK, StateTypeOK
<1>7. faults' \in 0 .. world.faults
  <2>1. world.faults \in Nat
    BY WorldTypes DEF BackendTypeOK
  <2>2. QED
    BY <1>2, <2>1 DEF Record, BackendTypeOK, StateTypeOK
<1>8. QED
  BY <1>2, <1>3, <1>4, <1>5, <1>6, <1>7 DEF BackendTypeOK, StateTypeOK

(* ... the loop's place, ...                                               *)
LEMMA AttemptLoop ==
  ASSUME BackendTypeOK, LoopInv, NEW path \in LoosePaths, NEW report, NEW written,
         Attempted(path, report, written)
  PROVE  LoopInv'
<1>1. Moves(path, report) /\ Record(path, report) /\ step' \in {"head", "over"}
      /\ UNCHANGED world /\ step = "attempt"
  BY AttemptMoves DEF Attempted, Ends, Unattempted
<1>2. left' = left \ {path}
  BY <1>1 DEF Record
<1>3. Routed' = {p \in DOMAIN files' : OperationsOf(p) # {}}
  BY <1>1 DEF Routed, OperationsOf
<1>4. left' \subseteq Routed'
  BY <1>1, <1>2, <1>3 DEF Moves, LoopInv, Routed
<1>5. left' \cap DOMAIN said' = {}
  BY <1>1, <1>2 DEF Moves, LoopInv
<1>6. \A t \in Routed' : t.ext = "tga" => t \in left' \cup DOMAIN said'
  <2> SUFFICES ASSUME NEW t \in Routed', t.ext = "tga" PROVE t \in left' \cup DOMAIN said'
    OBVIOUS
  <2>1. path.ext = "tga" => OutputOf(path).ext = "dds"
    BY PathFacts
  <2>2. path.ext # "tga" => OutputOf(path) = path
    BY PathFacts
  <2>3. t = path \/ t \in DOMAIN files
    BY <1>1, <1>3, <2>1, <2>2 DEF Moves
  <2>4. t \in Routed => t \in left \cup DOMAIN said
    BY <1>1 DEF LoopInv
  <2>5. t \in DOMAIN files => t \in Routed
    BY <1>3 DEF Routed
  <2>6. QED
    BY <1>1, <1>2, <2>3, <2>4, <2>5 DEF Moves
<1>7. QED
  BY <1>1, <1>4, <1>5, <1>6 DEF LoopInv

(* ... what is known of conversions ...                                    *)
LEMMA AttemptConversions ==
  ASSUME BackendTypeOK, LoopInv, ConversionInv, NEW path \in LoosePaths, NEW report, NEW written,
         Attempted(path, report, written)
  PROVE  ConversionInv'
<1>1. Moves(path, report) /\ Record(path, report) /\ step = "attempt"
      /\ UNCHANGED <<world, run>>
  BY AttemptMoves DEF Attempted, Ends, Unattempted
<1>0. path \in DOMAIN files /\ DOMAIN written = DOMAIN files \cup {OutputOf(path)}
  <2>1. path \in DOMAIN files
    BY <1>1 DEF Moves
  <2>2. MayWrite(path, written)
    BY DEF Attempted
  <2>3. QED
    BY <2>1, <2>2, Written
<1>2. /\ failed \subseteq failed' /\ failed' \subseteq failed \cup {path}
      /\ path \in failed' /\ path \notin failed => ~report.ok /\ Converting(path)
      /\ path \notin failed' /\ Converting(path) => report.ok \/ report.failure = "SourceRemovalFailed"
  BY <1>1, AttemptFails
<1>3. failed \subseteq DOMAIN said /\ path \notin failed
  BY <1>1 DEF Moves, ConversionInv
<1>4. failed' \subseteq DOMAIN said'
  BY <1>1, <1>2, <1>3 DEF Moves
<1>5. ASSUME NEW t \in failed' PROVE ~said'[t].ok /\ t \in DOMAIN files' \cup aside'
  <2>1. CASE t = path
    <3>1. ~report.ok /\ Converting(path)
      BY <1>2, <1>3, <2>1
    <3>2. path \in DOMAIN files' \cup aside'
      <4>1. CASE EndsSame(path, report) \/ EndsFailed(path, report)
        BY <1>1, <4>1 DEF Moves, EndsSame, EndsFailed
      <4>2. CASE EndsAside(path, report)
        BY <4>2 DEF EndsAside
      <4>3. CASE EndsKept(path, report, written)
        <5>1. files' = written /\ MayWrite(path, written)
          BY <4>3 DEF EndsKept, Attempted
        <5>2. QED
          BY <1>0, <5>1
      <4>4. CASE EndsWritten(path, report, written)
        <5>1. report.ok
          BY <4>4 DEF EndsWritten, Succeeded
        <5>2. QED
          BY <3>1, <5>1
      <4>5. QED
        BY <4>1, <4>2, <4>3, <4>4 DEF Attempted, Ends
    <3>3. QED
      BY <1>1, <2>1, <3>1, <3>2 DEF Moves
  <2>2. CASE t # path
    <3>1. t \in failed /\ ~said[t].ok /\ t \in DOMAIN files \cup aside
      BY <1>2, <2>2 DEF ConversionInv
    <3>2. QED
      BY <1>1, <1>3, <2>2, <3>1 DEF Moves
  <2>3. QED
    BY <2>1, <2>2
<1>6. ASSUME Apply', step' # "over", NEW t \in DOMAIN said' \ failed', t.ext = "tga"
      PROVE  OutputOf(t) \in DOMAIN files' \cup aside'
  <2>1. Apply
    BY <1>1, <1>6 DEF Apply, Mode
  <2>2. t \in LoosePaths
    BY <1>1, <1>6 DEF Moves, BackendTypeOK, StateTypeOK
  <2>3. CASE t = path
    <3>1. Converting(path) /\ TargetOf(path) = "Texture" /\ OutputOf(path) # path
      BY <1>1, <1>6, <2>3, OperationFacts, PathFacts DEF Moves
    <3>2. Alters(path)
      BY <2>1, <3>1 DEF Alters, TextureChanges
    <3>3. OutputOf(path) \in DOMAIN written
      BY <1>0
    <3>4. CASE EndsWritten(path, report, written)
      <4>1. files' = Without(written, path)
        BY <3>1, <3>4 DEF EndsWritten, Landed
      <4>2. DOMAIN files' = DOMAIN written \ {path}
        BY <4>1 DEF Without, Restrict
      <4>3. QED
        BY <2>3, <3>1, <3>3, <4>2
    <3>5. CASE EndsKept(path, report, written)
      BY <2>3, <3>3, <3>5 DEF EndsKept
    <3>6. ~EndsSame(path, report) /\ ~EndsFailed(path, report) /\ ~EndsAside(path, report)
      BY <1>2, <1>6, <2>1, <2>3, <3>1, <3>2 DEF EndsSame, EndsFailed, EndsAside
    <3>7. QED
      BY <3>4, <3>5, <3>6 DEF Attempted, Ends
  <2>4. CASE t # path
    <3>1. t \in DOMAIN said \ failed
      BY <1>1, <1>2, <1>6, <2>4 DEF Moves
    <3>2. OutputOf(t) \in DOMAIN files \cup aside
      BY <1>1, <1>6, <2>1, <3>1 DEF ConversionInv
    <3>3. OutputOf(t) = path => ~Converting(path)
      BY <1>6, <2>2, PathFacts, OperationFacts
    <3>4. QED
      BY <1>1, <3>2, <3>3 DEF Moves
  <2>5. QED
    BY <2>3, <2>4
<1>7. QED
  BY <1>4, <1>5, <1>6 DEF ConversionInv

(* ... and of the files.                                                   *)
LEMMA AttemptFiles ==
  ASSUME BackendTypeOK, LoopInv, FilesInv, NEW path \in LoosePaths, NEW report, NEW written,
         Attempted(path, report, written)
  PROVE  FilesInv'
<1>1. Moves(path, report) /\ UNCHANGED world
  BY AttemptMoves DEF Attempted, Unattempted
<1>2. OutputOf(path) = path \/ TargetOf(OutputOf(path)) = "Texture"
  BY PathFacts
<1>3. \A p \in DOMAIN files' : TargetOf(p) # "Texture" => p \in DOMAIN world'.files
  BY <1>1, <1>2 DEF Moves, FilesInv
<1>4. ASSUME NEW t \in DOMAIN world'.files, t.ext = "tga"
      PROVE  {t, OutputOf(t)} \cap (DOMAIN files' \cup aside') # {}
  <2>1. t \in DOMAIN world.files /\ t \in LoosePaths
    BY <1>1, <1>4, WorldTypes DEF BackendTypeOK
  <2>2. t \in DOMAIN files \cup aside \/ OutputOf(t) \in DOMAIN files \cup aside
    BY <1>4, <2>1 DEF FilesInv
  <2>3. Converting(path) => path # OutputOf(t)
    BY <1>4, <2>1, OperationFacts, PathFacts
  <2>4. QED
    BY <1>1, <2>2, <2>3 DEF Moves
<1>5. ASSUME NEW p \in DOMAIN said', said'[p].ok PROVE p.ext = "tga" \/ p \in DOMAIN files'
  BY <1>1, <1>5 DEF Moves, FilesInv
<1>6. QED
  BY <1>3, <1>4, <1>5 DEF FilesInv

(* The inductive invariant the other ones rest on.                         *)
BaseInv == BackendTypeOK /\ LoopInv /\ ConversionInv /\ FilesInv /\ NamesInv

(* A name a Mesh had at first is kept, replaced by one that is right, or   *)
(* means an Asset set aside.                                               *)
NameHolds(m, o) ==
  \/ o \in files[m].refs
  \/ Replaced(o) \in files[m].refs /\ Meant(m, Replaced(o)) \cap DOMAIN files # {}
  \/ (Meant(m, o) \cup Meant(m, Replaced(o))) \cap aside # {}

(* A TGA reference and the DDS reference it becomes.                       *)
LEMMA FirstName ==
  ASSUME world \in Worlds, NEW m \in DOMAIN world.files, TargetOf(m) = "Mesh", NEW o \in FirstTgas(m)
  PROVE  /\ m \in LoosePaths /\ o \in References /\ o.ext = "tga" /\ ContainsTga(o)
         /\ Replaced(o).ext = "dds" /\ ~ContainsTga(Replaced(o)) /\ Replaced(o) \in References
         /\ \A t \in Meant(m, Replaced(o)) : t.ext = "dds"
<1>1. m \in LoosePaths /\ world.files[m] \in Contents["Mesh"]
  BY WorldTypes
<1>2. o \in References /\ o.ext = "tga"
  BY <1>1 DEF FirstTgas, Contents
<1>3. ContainsTga(o)
  BY <1>2 DEF ContainsTga, Rewritten
<1>4. Replaced(o).ext = "dds"
  BY <1>2 DEF Replaced, Rewritten, References
<1>5. \A t \in Meant(m, Replaced(o)) : t.ext = "dds"
  <2> SUFFICES ASSUME NEW t \in Meant(m, Replaced(o)) PROVE t.ext = "dds"
    OBVIOUS
  <2>1. PICK k \in 0 .. Len(m.dir) :
          t = [dir |-> SubSeq(m.dir, 1, k) \o Replaced(o).dir, stem |-> Replaced(o).stem, ext |-> Replaced(o).ext]
    BY DEF Meant
  <2>2. QED
    BY <1>4, <2>1
<1>6. QED
  BY <1>1, <1>2, <1>3, <1>4, <1>5, ReplacedName

(* A name that holds goes on holding while its Mesh keeps its references.  *)
LEMMA NameStays ==
  ASSUME BackendTypeOK, LoopInv, NEW path \in LoosePaths, NEW report,
         Moves(path, report), NEW m \in DOMAIN files', m \in DOMAIN files, m \in DOMAIN world.files,
         TargetOf(m) = "Mesh", files'[m].refs = files[m].refs,
         NEW o \in FirstTgas(m), NameHolds(m, o)
  PROVE  NameHolds(m, o)'
<1>1. \A t \in Meant(m, Replaced(o)) : t.ext = "dds"
  BY FirstName DEF BackendTypeOK
<1>2. CASE o \in files[m].refs
  BY <1>2 DEF NameHolds
<1>3. CASE Replaced(o) \in files[m].refs /\ Meant(m, Replaced(o)) \cap DOMAIN files # {}
  <2>1. PICK t \in Meant(m, Replaced(o)) : t \in DOMAIN files
    BY <1>3
  <2>2. t.ext = "dds"
    BY <1>1
  <2>3. Converting(path) => path # t
    BY <2>2, OperationFacts
  <2>4. t \in DOMAIN files' \cup aside'
    BY <2>1, <2>3 DEF Moves
  <2>5. QED
    BY <1>3, <2>1, <2>4 DEF NameHolds
<1>4. CASE (Meant(m, o) \cup Meant(m, Replaced(o))) \cap aside # {}
  <2>1. aside \subseteq aside'
    BY DEF Moves
  <2>2. QED
    BY <1>4, <2>1 DEF NameHolds
<1>5. QED
  BY <1>2, <1>3, <1>4 DEF NameHolds

(* A name that the maintenance of a Mesh gives up is right already: the    *)
(* Textures it may mean were all attempted before.                         *)
LEMMA NameReplaced ==
  ASSUME BackendTypeOK, LoopInv, ConversionInv, FilesInv, Apply, step = "attempt",
         NEW m \in LoosePaths, IsNext(m), "maintenance" \in OperationsOf(m),
         m \in DOMAIN world.files, TargetOf(m) = "Mesh",
         NEW o \in FirstTgas(m), ~Withholds(failed, o, m)
  PROVE  \/ Meant(m, Replaced(o)) \cap DOMAIN files # {}
         \/ (Meant(m, o) \cup Meant(m, Replaced(o))) \cap aside # {}
<1>1. PICK t \in Meant(m, o) : t \in DOMAIN world.files
  BY DEF FirstTgas
<1>2. o \in References /\ o.ext = "tga" /\ world \in Worlds
  BY FirstName DEF BackendTypeOK
<1>3. t \in LoosePaths
  BY <1>1, <1>2, WorldTypes
<1>4. t.ext = "tga" /\ OutputOf(t) \in Meant(m, Replaced(o))
  BY <1>1, <1>2, <1>3, MeantReplaced
<1>5. {t, OutputOf(t)} \cap (DOMAIN files \cup aside) # {}
  BY <1>1, <1>4 DEF FilesInv
<1>6. CASE t \in DOMAIN files
  <2>1. world.policy.converts
    BY OperationFacts
  <2>2. Converting(t)
    BY <1>3, <1>4, <2>1, OperationFacts
  <2>3. t \in Routed
    BY <1>6, <2>2 DEF Routed, Converting
  <2>4. t \in left \cup DOMAIN said
    BY <1>4, <2>3 DEF LoopInv
  <2>5. t \notin left
    <3> SUFFICES ASSUME t \in left PROVE FALSE
      OBVIOUS
    <3>1. TargetOf(t) = "Texture" /\ t # m
      BY <1>3, <1>4, PathFacts
    <3>2. Before(m, t)
      BY <3>1 DEF IsNext
    <3>3. QED
      BY <3>1, <3>2 DEF Before, Rank
  <2>6. t \notin failed
    <3>1. t \in References /\ m \in References
      BY <1>3, PathFacts
    <3>2. NamesSameTexture(t, o, m)
      BY <1>1, <1>2, <3>1, MeantNames
    <3>3. QED
      BY <3>2 DEF Withholds
  <2>7. OutputOf(t) \in DOMAIN files \cup aside
    BY <1>4, <2>4, <2>5, <2>6 DEF ConversionInv
  <2>8. QED
    BY <1>4, <2>7
<1>7. CASE t \notin DOMAIN files
  BY <1>1, <1>4, <1>5, <1>7
<1>8. QED
  BY <1>6, <1>7

(* An attempt on any Asset leaves the names right.                         *)
LEMMA AttemptNames ==
  ASSUME BaseInv, NEW path \in LoosePaths, NEW report, NEW written,
         Attempted(path, report, written)
  PROVE  NamesInv'
<1>1. /\ Moves(path, report) /\ Record(path, report) /\ step = "attempt" /\ IsNext(path)
      /\ UNCHANGED <<world, run>> /\ MayWrite(path, written)
      /\ BackendTypeOK /\ LoopInv /\ ConversionInv /\ FilesInv /\ NamesInv
  BY AttemptMoves DEF Attempted, Ends, Unattempted, BaseInv
<1>2. failed \subseteq failed' /\ (TargetOf(path) = "Mesh" => failed' = failed)
  <2>1. failed \subseteq failed' /\ failed' \subseteq failed \cup {path}
        /\ (path \in failed' /\ path \notin failed => Converting(path))
    BY <1>1, AttemptFails
  <2>2. TargetOf(path) = "Mesh" => ~Converting(path)
    BY OperationFacts, PathFacts
  <2>3. QED
    BY <2>1, <2>2
<1>3. TargetOf(path) = "Mesh" => OutputOf(path) = path
  BY PathFacts
<1>4. TargetOf(OutputOf(path)) = "Mesh" => OutputOf(path) = path
  BY PathFacts
<1>5. path \in DOMAIN files /\ path \in LoosePaths
  BY <1>1 DEF Moves
(* The references of the Mesh that is attempted.                           *)
<1>6. ASSUME TargetOf(path) = "Mesh", path \in DOMAIN files'
      PROVE  \/ files'[path].refs = files[path].refs /\ (Apply /\ report.ok => ~Alters(path) \/
                   MaintainMeshReferences(path) = files[path].refs)
             \/ /\ Apply /\ DOMAIN files' = DOMAIN files /\ UNCHANGED aside
                /\ files'[path].refs = MaintainMeshReferences(path)
  <2>1. /\ DOMAIN written = DOMAIN files /\ written[path].refs = MaintainMeshReferences(path)
    BY <1>1, <1>3, <1>5, <1>6, Written
  <2>2. ~Converting(path)
    BY <1>6, OperationFacts, PathFacts
  <2>3. CASE EndsSame(path, report)
    BY <2>3 DEF EndsSame
  <2>4. CASE EndsWritten(path, report, written)
    BY <2>1, <2>2, <2>4 DEF EndsWritten, Landed
  <2>5. CASE EndsFailed(path, report)
    BY <2>5 DEF EndsFailed
  <2>6. CASE EndsAside(path, report)
    BY <1>6, <2>6 DEF EndsAside, Without, Restrict
  <2>7. CASE EndsKept(path, report, written)
    BY <2>1, <2>7 DEF EndsKept
  <2>8. QED
    BY <2>3, <2>4, <2>5, <2>6, <2>7 DEF Attempted, Ends
<1>7. ASSUME NEW m \in DOMAIN files', TargetOf(m) = "Mesh", NEW o \in FirstTgas(m)
      PROVE  NameHolds(m, o)'
  <2>1. m \in DOMAIN files /\ m \in DOMAIN world.files
    BY <1>1, <1>3, <1>4, <1>5, <1>7 DEF Moves, FilesInv
  <2>2. NameHolds(m, o)
    BY <1>1, <1>7, <2>1 DEF NamesInv, NameHolds
  <2>3. CASE files'[m].refs = files[m].refs
    BY <1>1, <1>7, <2>1, <2>2, <2>3, NameStays
  <2>4. CASE files'[m].refs # files[m].refs
    <3>1. m = path
      BY <1>1, <1>4, <1>7, <2>4 DEF Moves
    <3>2. Apply /\ DOMAIN files' = DOMAIN files /\ UNCHANGED aside
          /\ files'[m].refs = MaintainMeshReferences(m)
      BY <1>6, <1>7, <2>4, <3>1
    <3>3. "maintenance" \in OperationsOf(m)
          /\ MaintainMeshReferences(m) = Maintained(files[m].refs, failed, m)
      BY <2>4, <3>2 DEF MaintainMeshReferences
    <3>4. files[m].refs \in SUBSET References
      <4>1. files[m] \in Contents["Mesh"]
        BY <1>1, <1>7, <2>1 DEF BackendTypeOK, StateTypeOK
      <4>2. QED
        BY <4>1 DEF Contents
    <3>5. ContainsTga(o) /\ ~ContainsTga(Replaced(o))
      BY <1>1, <1>7, <2>1, FirstName DEF BackendTypeOK
    <3>6. \A r \in files[m].refs : IF ContainsTga(r) /\ ~Withholds(failed, r, m)
                                     THEN Replaced(r) \in files'[m].refs ELSE r \in files'[m].refs
      <4>1. \A r \in files[m].refs : IF ContainsTga(r) /\ ~Withholds(failed, r, m)
                                       THEN Replaced(r) \in Maintained(files[m].refs, failed, m)
                                       ELSE r \in Maintained(files[m].refs, failed, m)
        BY <3>4, MaintainedNames
      <4>2. files'[m].refs = Maintained(files[m].refs, failed, m)
        BY <3>2, <3>3
      <4>3. QED
        BY <4>1, <4>2
    <3>7. CASE o \in files[m].refs /\ ~Withholds(failed, o, m)
      <4>1. Replaced(o) \in files'[m].refs
        BY <3>5, <3>6, <3>7
      <4>2. \/ Meant(m, Replaced(o)) \cap DOMAIN files # {}
            \/ (Meant(m, o) \cup Meant(m, Replaced(o))) \cap aside # {}
        BY <1>1, <1>7, <2>1, <3>1, <3>2, <3>3, <3>7, NameReplaced
      <4>3. QED
        BY <3>2, <4>1, <4>2 DEF NameHolds
    <3>8. CASE o \in files[m].refs /\ Withholds(failed, o, m)
      BY <3>6, <3>8 DEF NameHolds
    <3>9. CASE Replaced(o) \in files[m].refs /\ Meant(m, Replaced(o)) \cap DOMAIN files # {}
      BY <3>2, <3>5, <3>6, <3>9 DEF NameHolds
    <3>10. CASE (Meant(m, o) \cup Meant(m, Replaced(o))) \cap aside # {}
      BY <3>2, <3>10 DEF NameHolds
    <3>11. QED
      BY <2>2, <3>7, <3>8, <3>9, <3>10 DEF NameHolds
  <2>5. QED
    BY <2>3, <2>4
<1>8. ASSUME NEW m \in MaintainedMeshes'
      PROVE  /\ m \in DOMAIN files'
             /\ \A r \in files'[m].refs : ContainsTga(r) => Meant(m, r) \cap failed' # {}
  <2>1. /\ m \in DOMAIN said' /\ TargetOf(m) = "Mesh" /\ Apply /\ said'[m].ok
        /\ "maintenance" \in OperationsOf(m)
    BY <1>1, <1>8 DEF MaintainedMeshes, Apply, Mode, OperationsOf
  <2>2. CASE m # path
    <3>1. m \in MaintainedMeshes
      BY <1>1, <2>1, <2>2 DEF MaintainedMeshes, Moves
    <3>2. m \in DOMAIN files /\ \A r \in files[m].refs : ContainsTga(r) => Meant(m, r) \cap failed # {}
      BY <1>1, <3>1 DEF NamesInv
    <3>3. m \in DOMAIN files' /\ files'[m] = files[m]
      BY <1>1, <1>4, <2>1, <2>2, <3>2 DEF Moves
    <3>4. QED
      BY <1>2, <3>2, <3>3
  <2>3. CASE m = path
    <3>1. report.ok /\ path.ext # "tga"
      BY <1>1, <2>1, <2>3, PathFacts DEF Moves
    <3>2. m \in DOMAIN files'
      BY <1>1, <2>3, <3>1 DEF Moves
    <3>3. files'[m].refs = Maintained(files[m].refs, failed, m)
      <4>1. MaintainMeshReferences(m) = Maintained(files[m].refs, failed, m)
        BY <2>1 DEF MaintainMeshReferences
      <4>2. ~Alters(path) => MaintainMeshReferences(m) = files[m].refs
        BY <2>1, <2>3 DEF Alters, MeshChanges
      <4>3. QED
        BY <1>6, <2>1, <2>3, <3>1, <3>2, <4>1, <4>2
    <3>4. files[m].refs \in SUBSET References
      <4>1. files[m] \in Contents["Mesh"]
        BY <1>1, <1>5, <2>1, <2>3 DEF BackendTypeOK, StateTypeOK
      <4>2. QED
        BY <4>1 DEF Contents
    <3>5. ASSUME NEW r \in files'[m].refs, ContainsTga(r) PROVE Meant(m, r) \cap failed' # {}
      <4>0. \A q \in Maintained(files[m].refs, failed, m) :
              ContainsTga(q) => q \in files[m].refs /\ Withholds(failed, q, m)
        BY <3>4, MaintainedNames, Zenon
      <4>1. r \in References /\ Withholds(failed, r, m)
        <5>1. r \in files[m].refs /\ Withholds(failed, r, m)
          BY <3>3, <3>5, <4>0
        <5>2. QED
          BY <3>4, <5>1
      <4>2. PICK t \in failed : NamesSameTexture(t, r, m)
        BY <4>1 DEF Withholds
      <4>3. t \in LoosePaths
        BY <1>1 DEF BackendTypeOK, StateTypeOK
      <4>4. t \in References /\ m \in References
        BY <2>3, <4>3, PathFacts
      <4>5. t \in Meant(m, r)
        BY <4>1, <4>2, <4>4, MeantNames
      <4>6. QED
        BY <1>2, <4>5
    <3>6. QED
      BY <3>2, <3>5
  <2>4. QED
    BY <2>2, <2>3
<1>10. QED
  BY <1>1, <1>7, <1>8 DEF NamesInv, NameHolds, FirstTgas

(* The steps that make no attempt.                                         *)
Quiet ==
  \/ OpenProcessing \/ RequestCancellation \/ EndLoop \/ NextAsset
  \/ \E p \in DOMAIN world.plugins : ScanPlugin(p)
  \/ CancelScan \/ MakeBackend \/ UNCHANGED backendVars

(* Such a step leaves the files and what was said alone.                   *)
LEMMA QuietFrame ==
  ASSUME Quiet
  PROVE  /\ UNCHANGED <<world, files, aside, run, failed, said, previous, settling>>
         /\ step' = "over" \/ step # "over"  \/ UNCHANGED step
         /\ diagnostics \subseteq diagnostics'
         /\ (UNCHANGED left /\ (step = "open" <=> step' = "open")) \/ OpenProcessing
<1>1. CASE OpenProcessing
  BY <1>1 DEF OpenProcessing
<1>2. CASE RequestCancellation
  BY <1>2 DEF RequestCancellation
<1>3. CASE EndLoop
  BY <1>3 DEF EndLoop
<1>4. CASE NextAsset
  BY <1>4 DEF NextAsset
<1>5. CASE \E p \in DOMAIN world.plugins : ScanPlugin(p)
  BY <1>5 DEF ScanPlugin
<1>6. CASE CancelScan
  BY <1>6 DEF CancelScan
<1>7. CASE MakeBackend
  BY <1>7 DEF MakeBackend
<1>8. CASE UNCHANGED backendVars
  BY <1>8 DEF backendVars
<1>9. QED
  BY <1>1, <1>2, <1>3, <1>4, <1>5, <1>6, <1>7, <1>8 DEF Quiet

(* Such a step keeps the types, ...                                        *)
LEMMA QuietTypes ==
  ASSUME BackendTypeOK, LoopInv, Quiet
  PROVE  BackendTypeOK'
<1> USE DEF BackendTypeOK, StateTypeOK
<1>1. CASE OpenProcessing
  <2>1. left' \subseteq LoosePaths
    BY <1>1 DEF OpenProcessing, Routed
  <2>2. QED
    BY <1>1, <2>1 DEF OpenProcessing
<1>2. CASE RequestCancellation
  BY <1>2 DEF RequestCancellation
<1>3. CASE EndLoop
  BY <1>3 DEF EndLoop
<1>4. CASE NextAsset
  BY <1>4 DEF NextAsset
<1>5. CASE \E p \in DOMAIN world.plugins : ScanPlugin(p)
  <2>1. world.faults \in Nat
    BY WorldTypes
  <2>2. QED
    BY <1>5, <2>1 DEF ScanPlugin
<1>6. CASE CancelScan
  BY <1>6 DEF CancelScan
<1>7. CASE MakeBackend
  BY <1>7 DEF MakeBackend
<1>8. CASE UNCHANGED backendVars
  BY <1>8 DEF backendVars
<1>9. QED
  BY <1>1, <1>2, <1>3, <1>4, <1>5, <1>6, <1>7, <1>8 DEF Quiet

(* ... the loop's place ...                                                *)
LEMMA QuietLoop ==
  ASSUME BackendTypeOK, LoopInv, Quiet
  PROVE  LoopInv'
<1>1. UNCHANGED <<world, files>>
  BY QuietFrame
<1>2. Routed' = Routed
  BY <1>1 DEF Routed, OperationsOf
<1>3. CASE OpenProcessing
  BY <1>2, <1>3 DEF OpenProcessing, LoopInv, NothingSaid
<1>4. CASE RequestCancellation
  BY <1>2, <1>4 DEF RequestCancellation, LoopInv
<1>5. CASE EndLoop
  BY <1>2, <1>5 DEF EndLoop, LoopInv
<1>6. CASE NextAsset
  BY <1>2, <1>6 DEF NextAsset, LoopInv
<1>7. CASE \E p \in DOMAIN world.plugins : ScanPlugin(p)
  BY <1>2, <1>7 DEF ScanPlugin, LoopInv
<1>8. CASE CancelScan
  BY <1>2, <1>8 DEF CancelScan, LoopInv
<1>9. CASE MakeBackend
  BY <1>2, <1>9 DEF MakeBackend, LoopInv
<1>10. CASE UNCHANGED backendVars
  BY <1>2, <1>10 DEF backendVars, LoopInv
<1>11. QED
  BY <1>3, <1>4, <1>5, <1>6, <1>7, <1>8, <1>9, <1>10 DEF Quiet

(* ... and the rest of the invariant.                                      *)
LEMMA QuietRest ==
  ASSUME BaseInv, Quiet
  PROVE  ConversionInv' /\ FilesInv' /\ NamesInv'
<1>1. UNCHANGED <<world, files, aside, run, failed, said>>
      /\ (step' = "over" \/ step # "over"  \/ UNCHANGED step)
  BY QuietFrame
<1>2. Apply' = Apply /\ MaintainedMeshes' = MaintainedMeshes
  BY <1>1 DEF Apply, Mode, MaintainedMeshes, OperationsOf
<1>3. ConversionInv'
  BY <1>1, <1>2 DEF BaseInv, ConversionInv
<1>4. FilesInv'
  BY <1>1 DEF BaseInv, FilesInv
<1>5. NamesInv'
  BY <1>1, <1>2 DEF BaseInv, NamesInv, FirstTgas
<1>6. QED
  BY <1>3, <1>4, <1>5

(* A backend that cannot be made fails one Asset, and the phase ends.      *)
LEMMA CreationFails ==
  ASSUME BaseInv, NEW path \in LoosePaths, FailCreation(path)
  PROVE  /\ BaseInv' /\ ~said'[path].ok /\ DOMAIN said' = DOMAIN said \cup {path}
         /\ path \notin DOMAIN said /\ \A p \in DOMAIN said : said'[p] = said[p]
<1>1. /\ step = "create" /\ IsNext(path) /\ step' = "over" /\ left' = left \ {path}
      /\ diagnostics' = diagnostics \cup unreadable /\ said' = With(said, path, BackendException)
      /\ faults < world.faults /\ faults' = faults + 1
      /\ UNCHANGED <<world, files, aside, run, cancelled, plugins, headparts, unreadable,
                     made, failed, converter, previous, settling>>
      /\ BackendTypeOK /\ LoopInv /\ ConversionInv /\ FilesInv /\ NamesInv
  BY DEF FailCreation, BaseInv
<1>2. BackendException \in Results /\ ~BackendException.ok
  BY DEF BackendException, Failed, Results
<1>3. /\ DOMAIN said' = DOMAIN said \cup {path} /\ said'[path] = BackendException
      /\ path \notin DOMAIN said /\ \A p \in DOMAIN said : said'[p] = said[p]
  BY <1>1 DEF With, IsNext, LoopInv
<1>4. BackendTypeOK'
  <2>1. world.faults \in Nat
    BY <1>1, WorldTypes DEF BackendTypeOK
  <2>2. DOMAIN said' \subseteq LoosePaths /\ \A p \in DOMAIN said' : said'[p] \in Results
    BY <1>1, <1>2, <1>3 DEF BackendTypeOK, StateTypeOK
  <2>3. faults' \in 0 .. world.faults
    BY <1>1, <2>1 DEF BackendTypeOK, StateTypeOK
  <2>4. QED
    BY <1>1, <2>2, <2>3 DEF BackendTypeOK, StateTypeOK
<1>5. LoopInv'
  <2>1. Routed' = Routed
    BY <1>1 DEF Routed, OperationsOf
  <2>2. QED
    BY <1>1, <1>3, <2>1 DEF LoopInv
<1>6. ConversionInv' /\ FilesInv'
  BY <1>1, <1>2, <1>3 DEF ConversionInv, FilesInv
<1>7. NamesInv'
  <2>1. MaintainedMeshes' = MaintainedMeshes
    BY <1>1, <1>2, <1>3 DEF MaintainedMeshes, Apply, Mode, OperationsOf
  <2>2. QED
    BY <1>1, <2>1 DEF NamesInv, FirstTgas
<1>8. QED
  BY <1>2, <1>3, <1>4, <1>5, <1>6, <1>7 DEF BaseInv

(* The next run starts over the files this one left.                       *)
LEMMA NextRunBase ==
  ASSUME BaseInv, NextRun
  PROVE  BaseInv'
<1>1. /\ step = "over" /\ run < Len(world.modes) /\ run' = run + 1 /\ step' = "open" /\ left' = {}
      /\ cancelled' = FALSE /\ plugins' = {} /\ headparts' = {} /\ unreadable' = {} /\ diagnostics' = {}
      /\ made' = FALSE /\ failed' = {} /\ converter' = "unlooked" /\ said' = NothingSaid
      /\ previous' = [mode |-> Mode, clean |-> Clean, said |-> said]
      /\ UNCHANGED <<world, files, aside, settling, faults>>
      /\ BackendTypeOK /\ LoopInv /\ ConversionInv /\ FilesInv /\ NamesInv
  BY DEF NextRun, BaseInv
<1>2. DOMAIN said' = {}
  BY <1>1 DEF NothingSaid
<1>3. BackendTypeOK'
  <2>1. world.modes \in Seq({"Apply", "DryRun"}) /\ run \in 1 .. Len(world.modes)
    BY <1>1, WorldTypes DEF BackendTypeOK, StateTypeOK
  <2>2. run' \in 1 .. Len(world'.modes)
    BY <1>1, <2>1
  <2>3. previous'.mode \in {"none", "Apply", "DryRun"} /\ previous'.clean \in BOOLEAN
    <3>1. Mode \in {"Apply", "DryRun"}
      BY <2>1 DEF Mode
    <3>2. Clean \in BOOLEAN
      BY DEF Clean
    <3>3. QED
      BY <1>1, <3>1, <3>2
  <2>4. QED
    BY <1>1, <1>2, <2>2, <2>3 DEF BackendTypeOK, StateTypeOK
<1>4. LoopInv'
  BY <1>1, <1>2 DEF LoopInv
<1>5. ConversionInv' /\ FilesInv'
  BY <1>1, <1>2 DEF ConversionInv, FilesInv
<1>6. NamesInv'
  <2>1. MaintainedMeshes' = {}
    BY <1>2 DEF MaintainedMeshes
  <2>2. QED
    BY <1>1, <2>1 DEF NamesInv, FirstTgas
<1>7. QED
  BY <1>3, <1>4, <1>5, <1>6 DEF BaseInv

(* Every step is quiet, starts the next run, fails to make the backend, or *)
(* is an attempt.                                                          *)
LEMMA StepCases ==
  ASSUME BaseInv, [BackendNext]_backendVars
  PROVE  \/ Quiet \/ NextRun
         \/ \E path \in LoosePaths : FailCreation(path)
         \/ \E path \in LoosePaths : \E report, written : Attempted(path, report, written)
<1>1. BackendTypeOK /\ LoopInv
  BY DEF BaseInv
<1>2. ASSUME NEW path \in LoosePaths,
             AttemptTexture(path) \/ AttemptMesh(path) \/ AttemptAnimation(path)
      PROVE  \E report, written : Attempted(path, report, written)
  BY <1>1, <1>2, TextureAttempted, MeshAttempted, AnimationAttempted, Zenon
<1>3. QED
  BY <1>2, Zenon DEF BackendNext, Quiet

(* The invariant is kept by every step, ...                                *)
LEMMA BaseStep ==
  ASSUME BaseInv, [BackendNext]_backendVars
  PROVE  BaseInv'
<1>1. CASE Quiet
  BY <1>1, QuietTypes, QuietLoop, QuietRest DEF BaseInv
<1>2. CASE NextRun
  BY <1>2, NextRunBase
<1>3. ASSUME NEW path \in LoosePaths, FailCreation(path) PROVE BaseInv'
  BY <1>3, CreationFails
<1>4. ASSUME NEW path \in LoosePaths, NEW report, NEW written, Attempted(path, report, written)
      PROVE  BaseInv'
  <2>1. BackendTypeOK /\ LoopInv /\ ConversionInv /\ FilesInv
    BY DEF BaseInv
  <2>2. BackendTypeOK' /\ LoopInv' /\ ConversionInv' /\ FilesInv' /\ NamesInv'
    BY <1>4, <2>1, AttemptTypes, AttemptLoop, AttemptConversions, AttemptFiles, AttemptNames, Zenon
  <2>3. QED
    BY <2>2 DEF BaseInv
<1>5. QED
  BY <1>1, <1>2, <1>3, <1>4, StepCases, Zenon

(* ... and holds at first.                                                 *)
LEMMA BaseStart == ASSUME BackendInit PROVE BaseInv
<1> USE DEF BackendInit, NothingSaid, NoRunYet
<1>1. /\ world \in Worlds /\ DOMAIN world.files \subseteq LoosePaths /\ world.modes \in Seq({"Apply", "DryRun"})
      /\ world.modes # <<>> /\ world.faults \in Nat
      /\ \A p \in DOMAIN world.files : world.files[p] \in Contents[TargetOf(p)]
  BY WorldTypes
<1>2. 1 \in 1 .. Len(world.modes)
  BY <1>1
<1>3. BackendTypeOK
  <2>1. settling \in [LoosePaths -> Nat] /\ faults \in 0 .. world.faults
    BY <1>1
  <2>2. previous.mode = "none" /\ previous.clean \in BOOLEAN
    OBVIOUS
  <2>3. DOMAIN said = {} /\ run = 1 /\ files = world.files /\ step = "open" /\ converter = "unlooked"
    OBVIOUS
  <2>4. /\ aside = {} /\ left = {} /\ failed = {} /\ plugins = {} /\ unreadable = {} /\ diagnostics = {}
        /\ cancelled = FALSE /\ made = FALSE
    OBVIOUS
  <2> QED
    BY <1>1, <1>2, <2>1, <2>2, <2>3, <2>4 DEF BackendTypeOK, StateTypeOK
<1>4. LoopInv /\ ConversionInv
  BY DEF LoopInv, ConversionInv
<1>5. FilesInv
  BY DEF FilesInv
<1>6. NamesInv
  BY DEF NamesInv, MaintainedMeshes, FirstTgas
<1>7. QED
  BY <1>3, <1>4, <1>5, <1>6 DEF BaseInv

(* Run after run, every attempt over the production backend keeps the      *)
(* invariant: what failed is remembered within its run, and files and names*)
(* agree.                                                                  *)
THEOREM BackendInvariant == BackendSpec => []BaseInv
BY BaseStart, BaseStep, PTL DEF BackendSpec

(* The failures that withhold a name are those of Textures the Mesh may    *)
(* mean.                                                                   *)
LEMMA BaseWithholds == ASSUME BaseInv PROVE OwnFailureWithholds
BY DEF BaseInv, NamesInv, ConversionInv, OwnFailureWithholds

(* A maintained Mesh has given up every name that nothing withholds.       *)
LEMMA BaseResolves == ASSUME BaseInv PROVE ReferencesResolve
<1>1. BackendTypeOK /\ ConversionInv /\ FilesInv /\ NamesInv
  BY DEF BaseInv
<1> SUFFICES ASSUME NEW m \in MaintainedMeshes, NEW o \in world.files[m].refs,
                    o.ext = "tga", Meant(m, o) \cap DOMAIN world.files # {}
             PROVE  \/ \E r \in files[m].refs \cap {o, Replaced(o)} : Meant(m, r) \cap DOMAIN files # {}
                    \/ (Meant(m, o) \cup Meant(m, Replaced(o))) \cap aside # {}
  BY DEF ReferencesResolve
<1>2. TargetOf(m) = "Mesh" /\ m \in DOMAIN files /\ o \in FirstTgas(m)
      /\ \A r \in files[m].refs : ContainsTga(r) => Meant(m, r) \cap failed # {}
  BY <1>1 DEF MaintainedMeshes, NamesInv, FirstTgas
<1>3. NameHolds(m, o)
  BY <1>1, <1>2 DEF NamesInv, NameHolds
<1>4. CASE o \in files[m].refs
  <2>1. ContainsTga(o)
    BY DEF ContainsTga, Rewritten
  <2>2. PICK t \in Meant(m, o) : t \in failed
    BY <1>2, <1>4, <2>1
  <2>3. t \in DOMAIN files \cup aside
    BY <1>1, <2>2 DEF ConversionInv
  <2>4. QED
    BY <1>4, <2>2, <2>3
<1>5. QED
  BY <1>3, <1>4 DEF NameHolds

(* A maintained Mesh goes on naming a TGA only if the conversion of one it *)
(* may mean failed in this very run (FailedTextureConversions::withholds). *)
THEOREM OwnFailuresWithhold == BackendSpec => []OwnFailureWithholds
BY BackendInvariant, BaseWithholds, PTL

(* However runs fail, are cancelled or repeated, a maintained Mesh names no*)
(* Texture that is gone (replace_referenced_tga_texture_names).            *)
THEOREM AllReferencesResolve == BackendSpec => []ReferencesResolve
BY BackendInvariant, BaseResolves, PTL

-----------------------------------------------------------------------------
(* The headpart scan and the Dry Run.                                      *)

(* The Headpart Meshes of the plugins but those pending.                   *)
Listed(pending) ==
  world.custom \cup UNION {world.plugins[p] : p \in DOMAIN world.plugins \ pending}

(* The scan lists the Headpart Meshes of the plugins it could read, and    *)
(* says which ones it could not.                                           *)
LEMMA ScanStep ==
  ASSUME BaseInv, ScanInv, [BackendNext]_backendVars
  PROVE  ScanInv'
<1>1. BackendTypeOK /\ LoopInv
  BY DEF BaseInv
<1>2. /\ step = "attempt" => made
      /\ step = "open" => ~made
      /\ step = "create" => ~made
      /\ step \in {"open", "head", "create", "attempt", "over"} /\ made \in BOOLEAN
      /\ plugins \cup unreadable \cup diagnostics \subseteq DOMAIN world.plugins
  BY <1>1 DEF LoopInv, BackendTypeOK, StateTypeOK
<1> DEFINE Unscanned == ~made /\ step \in {"open", "head"} => unreadable = {} /\ diagnostics = {}
           Scanning == step = "create" => /\ diagnostics = {} /\ plugins \cap unreadable = {}
                                          /\ headparts = Listed(plugins \cup unreadable)
           Scanned == made /\ diagnostics = {} => headparts = AllHeadparts
<1>3. /\ ScanInv <=> Unscanned /\ (world.meshes.level >= Necessary => Scanning /\ Scanned)
      /\ ScanInv' <=> Unscanned' /\ ((world.meshes.level >= Necessary)' => Scanning' /\ Scanned')
  BY DEF ScanInv, Listed
<1>4. AllHeadparts = Listed({})
  BY DEF AllHeadparts, Listed
<1>5. CASE OpenProcessing
  BY <1>2, <1>3, <1>5 DEF OpenProcessing, AllHeadparts
<1>6. CASE RequestCancellation
  BY <1>2, <1>3, <1>6 DEF RequestCancellation, AllHeadparts, Listed
<1>7. CASE EndLoop
  BY <1>2, <1>3, <1>7 DEF EndLoop, AllHeadparts
<1>8. CASE NextAsset
  <2>1. Unscanned'
    BY <1>8 DEF NextAsset
  <2>2. ASSUME world.meshes.level >= Necessary PROVE Scanning' /\ Scanned'
    <3>1. CASE made
      BY <1>3, <1>8, <2>2, <3>1 DEF NextAsset, AllHeadparts
    <3>2. CASE ~made
      <4>1. plugins' = DOMAIN world.plugins /\ headparts' = world.custom /\ unreadable = {} /\ diagnostics = {}
            /\ UNCHANGED <<world, unreadable, diagnostics, made>>
        BY <1>3, <1>8, <2>2, <3>2 DEF NextAsset
      <4>2. Listed(plugins \cup unreadable)' = world.custom
        BY <4>1 DEF Listed
      <4>3. QED
        BY <3>2, <4>1, <4>2
    <3>3. QED
      BY <3>1, <3>2
  <2>3. QED
    BY <1>3, <1>8, <2>1, <2>2 DEF NextAsset
<1>9. ASSUME NEW p \in DOMAIN world.plugins, ScanPlugin(p) PROVE ScanInv'
  <2>1. /\ step = "create" /\ p \in plugins /\ plugins' = plugins \ {p}
        /\ \/ headparts' = headparts \cup world.plugins[p] /\ UNCHANGED unreadable
           \/ unreadable' = unreadable \cup {p} /\ UNCHANGED headparts
        /\ UNCHANGED <<world, step, made, diagnostics>>
    BY <1>9 DEF ScanPlugin
  <2>2. ~made
    BY <1>2, <2>1
  <2>3. ASSUME world.meshes.level >= Necessary PROVE Scanning'
    <3>1. diagnostics = {} /\ plugins \cap unreadable = {} /\ headparts = Listed(plugins \cup unreadable)
      BY <1>3, <2>1, <2>3
    <3>2. plugins' \cap unreadable' = {}
      BY <2>1, <3>1
    <3>3. CASE headparts' = headparts \cup world.plugins[p] /\ UNCHANGED unreadable
      <4>1. DOMAIN world.plugins \ (plugins' \cup unreadable') =
              (DOMAIN world.plugins \ (plugins \cup unreadable)) \cup {p}
        BY <2>1, <3>1, <3>3
      <4>2. Listed(plugins' \cup unreadable') = Listed(plugins \cup unreadable) \cup world.plugins[p]
        BY <4>1 DEF Listed
      <4>3. Listed(plugins \cup unreadable)' = Listed(plugins' \cup unreadable')
        BY <2>1 DEF Listed
      <4>4. QED
        BY <2>1, <3>1, <3>2, <3>3, <4>2, <4>3
    <3>4. CASE unreadable' = unreadable \cup {p} /\ UNCHANGED headparts
      <4>1. plugins' \cup unreadable' = plugins \cup unreadable
        BY <2>1, <3>4
      <4>2. Listed(plugins \cup unreadable)' = Listed(plugins \cup unreadable)
        BY <2>1, <4>1 DEF Listed
      <4>3. QED
        BY <2>1, <3>1, <3>2, <3>4, <4>2
    <3>5. QED
      BY <2>1, <3>3, <3>4
  <2>4. QED
    BY <1>3, <2>1, <2>2, <2>3
<1>10. CASE CancelScan
  BY <1>2, <1>3, <1>10 DEF CancelScan, AllHeadparts
<1>11. CASE MakeBackend
  <2>1. /\ step = "create" /\ plugins = {} /\ step' = "attempt" /\ made' = TRUE
        /\ diagnostics' = diagnostics \cup unreadable /\ UNCHANGED <<world, headparts>>
    BY <1>11 DEF MakeBackend
  <2>2. AllHeadparts' = Listed({})
    BY <1>4, <2>1 DEF AllHeadparts
  <2>3. ASSUME world.meshes.level >= Necessary PROVE Scanned'
    <3>1. headparts = Listed(unreadable)
      BY <1>3, <2>1, <2>3
    <3>2. QED
      BY <2>1, <2>2, <3>1
  <2>4. QED
    BY <1>3, <2>1, <2>3
<1>12. CASE UNCHANGED backendVars
  BY <1>12 DEF backendVars, ScanInv, AllHeadparts
<1>13. CASE NextRun
  BY <1>3, <1>13 DEF NextRun
<1>14. ASSUME NEW path \in LoosePaths, FailCreation(path) PROVE ScanInv'
  BY <1>2, <1>3, <1>14 DEF FailCreation
<1>15. ASSUME NEW path \in LoosePaths, NEW report, NEW written, Attempted(path, report, written)
       PROVE  ScanInv'
  BY <1>2, <1>3, <1>15 DEF Attempted, Ends, Unattempted, AllHeadparts
<1>16. QED
  <2>1. CASE Quiet
    BY <1>5, <1>6, <1>7, <1>8, <1>9, <1>10, <1>11, <1>12, <2>1 DEF Quiet
  <2>2. QED
    BY <1>13, <1>14, <1>15, <2>1, StepCases, Zenon

(* What is foretold of a file depends on that file alone.                  *)
LEMMA SameForetold ==
  ASSUME NEW p, UNCHANGED world, files'[p] = files[p]
  PROVE  /\ Foretold(p)' <=> Foretold(p)
BY DEF Foretold, TextureWouldChange, RequestOf, OperationsOf, Converting, IsInterface, VariantOf,
       HeadpartAtLast, AllHeadparts, Scan

(* Without failures, an attempt does what is foretold.                     *)
LEMMA ForetoldChanges ==
  ASSUME BackendTypeOK, ScanInv, made, diagnostics = {}, failed = {},
         NEW path \in DOMAIN files, OperationsOf(path) # {}
  PROVE  /\ Alters(path) => Foretold(path)
         /\ Foretold(path) /\ ~Alters(path) =>
              /\ Apply /\ Extension(path) = "dds" /\ TargetOf(path) = "Texture"
              /\ files[path].image.format \in {Bgra, world.profile.format}
<1>1. path \in LoosePaths /\ world \in Worlds /\ world.meshes.level \in 0 .. 3
  BY WorldTypes DEF BackendTypeOK, StateTypeOK, Levels
<1>2. TargetOf(path) \in {"Texture", "Mesh", "Animation"}
  BY <1>1, PathFacts
<1>3. CASE TargetOf(path) = "Animation"
  BY <1>3 DEF Alters, Foretold
<1>4. CASE TargetOf(path) = "Mesh"
  <2>1. IsHeadpart(path) <=> HeadpartAtLast(path)
    BY DEF IsHeadpart, HeadpartAtLast, ScanInv
  <2>2. MeshModified(path) <=> DryRunMesh(path)
    <3>1. Scan(files[path]) \in {"DoNotProcess", "CriticalIssue", "Good"}
      BY DEF Scan
    <3>2. IsHeadpart(path) => (RunsOptimizeFor(path) <=> world.meshes.headparts)
      BY <1>1, WorldTypes DEF RunsOptimizeFor
    <3>3. QED
      BY <1>1, <3>1, <3>2 DEF MeshModified, DryRunMesh, Necessary
  <2>3. Alters(path) <=> \/ MaintainMeshReferences(path) # files[path].refs
                         \/ "optimization" \in OperationsOf(path) /\ DryRunMesh(path)
    BY <1>4, <2>2 DEF Alters, MeshChanges
  <2>4. MaintainMeshReferences(path) # files[path].refs <=>
          /\ "maintenance" \in OperationsOf(path)
          /\ Maintained(files[path].refs, {}, path) # files[path].refs
    BY DEF MaintainMeshReferences
  <2>5. Alters(path) <=> Foretold(path)
    BY <1>4, <2>1, <2>3, <2>4 DEF Foretold, DryRunMesh
  <2>6. QED
    BY <2>5
<1>5. CASE TargetOf(path) = "Texture"
  <2> DEFINE image == files[path].image
             request == RequestOf(path)
             plan == Plan(image, VariantOf(path), IsInterface(path), world.profile, request)
             report == OptimizeTexture(path)
  <2>1. SoundlyOptimized(image, VariantOf(path), IsInterface(path), world.profile, request)
        /\ image \in Images /\ request \in Requests
    BY <1>5, TextureFacts
  <2>2. /\ Alters(path) <=> IF Apply THEN report.modified \/ Converting(path)
                                      ELSE WouldChange(plan) \/ Converting(path)
        /\ Foretold(path) <=> WouldChange(plan) \/ Converting(path)
    BY <1>5 DEF Alters, Foretold, TextureChanges, TextureWouldChange
  <2>3. report.modified => WouldChange(plan)
    BY <2>1 DEF SoundlyOptimized, OptimizeTexture
  <2>4. ASSUME Apply, WouldChange(plan), ~report.modified, ~Converting(path)
        PROVE  Extension(path) = "dds" /\ image.format \in {Bgra, world.profile.format}
    <3>1. Extension(path) = "dds"
      BY <1>1, <1>5, <2>4, OperationFacts, PathFacts
    <3> DEFINE new == report.image
               s == Shrunk(image, request)
    <3>2. /\ new.format = IF ~(/\ InterfaceOkay(IsInterface(path), world.profile) /\ new.w >= 4 /\ new.h >= 4
                               /\ IsPowerOfTwo(new)) THEN Bgra
                          ELSE IF plan.compress THEN world.profile.format ELSE image.format
          /\ report.modified <=> \/ image.format \in Block \/ plan.resize
                                 \/ WantsMipmaps(s, IsInterface(path), world.profile, request)
                                 \/ new.format # s.format
      BY <2>1, <2>4 DEF SoundlyOptimized, OptimizeTexture
    <3>3. /\ image.format \notin Block /\ ~plan.resize /\ new.format = s.format
          /\ ~WantsMipmaps(s, IsInterface(path), world.profile, request)
      BY <2>4, <3>2
    <3>4. Halved(image, request) = 0
      <4>1. plan.resize <=> Halved(image, request) > 0
        BY DEF Plan, Halved
      <4>2. Halved(image, request) \in Exponents
        BY <2>1, HalvedType
      <4>3. QED
        BY <3>3, <4>1, <4>2, FormatsAssumption DEF Exponents
    <3>5. /\ s.format = image.format /\ s.w = image.w /\ s.h = image.h /\ s.mips = image.mips
      BY <2>1, <3>3, <3>4, ShrunkImage, OpenImage
    <3>6. plan.mipmaps <=> WantsMipmaps(image, IsInterface(path), world.profile, request)
      BY DEF Plan
    <3> HIDE DEF s, plan, image, request, new, report
    <3>7. ~plan.mipmaps
      BY <3>3, <3>5, <3>6 DEF WantsMipmaps, CanHaveMipmaps
    <3>8. plan.compress
      BY <2>4, <3>3, <3>7 DEF WouldChange
    <3>9. QED
      BY <3>1, <3>2, <3>3, <3>5, <3>8
  <2> HIDE DEF report, plan
  <2>5. QED
    BY <1>5, <2>2, <2>3, <2>4
<1>6. QED
  BY <1>2, <1>3, <1>4, <1>5

(* A run is an Apply run or a Dry Run.                                     *)
LEMMA Modes ==
  ASSUME world \in Worlds, run \in 1 .. Len(world.modes)
  PROVE  Mode \in {"Apply", "DryRun"} /\ (Mode = "DryRun" <=> ~Apply)
<1>1. world.modes \in Seq({"Apply", "DryRun"})
  BY WorldTypes
<1>2. QED
  BY <1>1 DEF Mode, Apply

(* A Dry Run says of each Asset what is foretold, ...                      *)
LEMMA DryRunStep ==
  ASSUME BaseInv, ScanInv, DryRunInv, [BackendNext]_backendVars
  PROVE  DryRunInv'
<1>1. BackendTypeOK /\ LoopInv /\ ConversionInv
  BY DEF BaseInv
<1>2. CASE Quiet
  <2>1. /\ UNCHANGED <<world, files, aside, run, failed, said, previous, settling>>
        /\ diagnostics \subseteq diagnostics'
        /\ (UNCHANGED left /\ (step = "open" <=> step' = "open")) \/ OpenProcessing
    BY <1>2, QuietFrame
  <2>2. Mode' = Mode /\ Routed' = Routed
    BY <2>1 DEF Mode, Routed, OperationsOf
  <2>3. \A p : Foretold(p)' <=> Foretold(p)
    BY <2>1, SameForetold
  <2>4. CASE OpenProcessing
    <3>1. left' = Routed /\ DOMAIN said' = {}
      BY <1>1, <2>1, <2>4 DEF OpenProcessing, LoopInv, NothingSaid
    <3>2. QED
      BY <2>2, <3>1 DEF DryRunInv
  <2>5. CASE UNCHANGED left /\ (step = "open" <=> step' = "open")
    <3>1. NothingFailed' => NothingFailed
      BY <2>1 DEF NothingFailed
    <3>2. QED
      BY <2>1, <2>2, <2>3, <2>5, <3>1 DEF DryRunInv
  <2>6. QED
    BY <2>1, <2>4, <2>5
<1>3. CASE NextRun
  BY <1>3 DEF NextRun, DryRunInv
<1>4. ASSUME NEW path \in LoosePaths, FailCreation(path) PROVE DryRunInv'
  <2>1. ~said'[path].ok /\ DOMAIN said' = DOMAIN said \cup {path}
    BY <1>4, CreationFails
  <2>2. UNCHANGED <<world, files, run>> /\ left' = left \ {path} /\ path \in left /\ step = "create"
    BY <1>4 DEF FailCreation, IsNext
  <2>3. Mode' = Mode /\ Routed' = Routed
    BY <2>2 DEF Mode, Routed, OperationsOf
  <2>4. ~NothingFailed'
    BY <2>1 DEF NothingFailed
  <2>5. QED
    BY <2>1, <2>2, <2>3, <2>4 DEF DryRunInv
<1>5. ASSUME NEW path \in LoosePaths, NEW report, NEW written, Attempted(path, report, written)
      PROVE  DryRunInv'
  <2>1. /\ Moves(path, report) /\ step = "attempt" /\ UNCHANGED <<world, run, diagnostics>>
        /\ left' = left \ {path} /\ made
    BY <1>1, <1>5, AttemptMoves DEF Attempted, Ends, Unattempted, Record, LoopInv
  <2> SUFFICES ASSUME Mode' = "DryRun" PROVE DryRunInv'
    BY DEF DryRunInv
  <2>2. Mode = "DryRun" /\ ~Apply
    BY <1>1, <2>1, Modes DEF Mode, BackendTypeOK, StateTypeOK
  <2>3. EndsSame(path, report) \/ EndsFailed(path, report)
    BY <1>5, <2>2 DEF Attempted, Ends, EndsWritten, EndsAside, EndsKept
  <2>4. UNCHANGED files
    BY <2>3 DEF EndsSame, EndsFailed
  <2>5. Routed' = Routed
    BY <2>1, <2>4 DEF Routed, OperationsOf
  <2>6. left' \cup DOMAIN said' = Routed'
    BY <2>1, <2>2, <2>5 DEF DryRunInv, Moves
  <2>7. \A p : Foretold(p)' <=> Foretold(p)
    BY <2>1, <2>4, SameForetold
  <2>8. ASSUME NothingFailed' PROVE \A p \in DOMAIN said' : said'[p].changed <=> Foretold(p)'
    <3>1. NothingFailed /\ report.ok /\ diagnostics = {}
      BY <2>1, <2>8 DEF NothingFailed, Moves
    <3>2. failed = {}
      BY <1>1, <3>1 DEF ConversionInv, NothingFailed
    <3>3. report = Succeeded(Alters(path))
      BY <2>3, <3>1 DEF EndsSame, EndsFailed
    <3>4. report.changed <=> Alters(path)
      BY <3>3, AltersType, ResultTypes
    <3>5. Alters(path) <=> Foretold(path)
      <4>1. path \in DOMAIN files /\ OperationsOf(path) # {}
        BY <2>1 DEF Moves
      <4>2. QED
        BY <1>1, <2>1, <2>2, <3>1, <3>2, <4>1, ForetoldChanges
    <3>6. \A p \in DOMAIN said : said[p].changed <=> Foretold(p)
      BY <2>1, <2>2, <3>1 DEF DryRunInv
    <3>7. QED
      BY <2>1, <2>7, <3>4, <3>5, <3>6 DEF Moves
  <2>9. QED
    BY <2>6, <2>8 DEF DryRunInv
<1>6. QED
  BY <1>2, <1>3, <1>4, <1>5, StepCases, Zenon

(* ... which holds until the Apply run attempts that Asset.                *)
LEMMA ForetoldStep ==
  ASSUME BaseInv, ScanInv, DryRunInv, ForetoldInv, [BackendNext]_backendVars
  PROVE  ForetoldInv'
<1>1. BackendTypeOK /\ LoopInv /\ ConversionInv /\ FilesInv
  BY DEF BaseInv
<1> DEFINE Pending == IF step = "open" THEN Routed ELSE left \ ConversionsWrote
           AfterDryRun == previous.mode = "DryRun" /\ previous.clean
           Right(p) == /\ said[p].changed => previous.said[p].changed
                       /\ previous.said[p].changed /\ ~said[p].changed =>
                            Extension(p) = "dds" /\ files[p].image.format \in {Bgra, world.profile.format}
<1>2. /\ ForetoldInv <=>
           /\ AfterDryRun => \A p \in Pending :
                p \in DOMAIN previous.said /\ (previous.said[p].changed <=> Foretold(p))
           /\ Apply /\ AfterDryRun /\ NothingFailed => \A p \in DOMAIN said \ ConversionsWrote : Right(p)
      /\ ForetoldInv' <=>
           /\ AfterDryRun' => \A p \in Pending' :
                p \in DOMAIN previous'.said /\ (previous'.said[p].changed <=> Foretold(p)')
           /\ Apply' /\ AfterDryRun' /\ NothingFailed' =>
                \A p \in DOMAIN said' \ ConversionsWrote' : Right(p)'
  BY DEF ForetoldInv, DryRunForetells, NothingFailed
<1>3. CASE Quiet
  <2>1. /\ UNCHANGED <<world, files, aside, run, failed, said, previous, settling>>
        /\ diagnostics \subseteq diagnostics'
        /\ (UNCHANGED left /\ (step = "open" <=> step' = "open")) \/ OpenProcessing
    BY <1>3, QuietFrame
  <2>2. Apply' = Apply /\ Routed' = Routed /\ ConversionsWrote' = ConversionsWrote
    BY <2>1 DEF Apply, Mode, Routed, OperationsOf, ConversionsWrote, AssetOf, Converting
  <2>3. \A p : Foretold(p)' <=> Foretold(p)
    BY <2>1, SameForetold
  <2>4. NothingFailed' => NothingFailed
    BY <2>1 DEF NothingFailed
  <2>5. Pending' \subseteq Pending
    BY <2>1, <2>2 DEF OpenProcessing
  <2>6. QED
    BY <1>2, <2>1, <2>2, <2>3, <2>4, <2>5
<1>4. CASE NextRun
  <2>1. /\ step = "over" /\ step' = "open" /\ said' = NothingSaid /\ UNCHANGED <<world, files>>
        /\ previous' = [mode |-> Mode, clean |-> Clean, said |-> said]
    BY <1>4 DEF NextRun
  <2>2. DOMAIN said' = {} /\ Routed' = Routed
    BY <2>1 DEF NothingSaid, Routed, OperationsOf
  <2>3. ASSUME AfterDryRun'
        PROVE  \A p \in Pending' :
                 p \in DOMAIN previous'.said /\ (previous'.said[p].changed <=> Foretold(p)')
    <3>1. Mode = "DryRun" /\ left = {} /\ NothingFailed
      BY <2>1, <2>3 DEF Clean, NothingFailed
    <3>2. DOMAIN said = Routed /\ \A p \in DOMAIN said : said[p].changed <=> Foretold(p)
      BY <2>1, <3>1 DEF DryRunInv
    <3>3. \A p : Foretold(p)' <=> Foretold(p)
      BY <2>1, SameForetold
    <3>4. QED
      BY <2>1, <2>2, <3>2, <3>3
  <2>4. QED
    BY <1>2, <2>2, <2>3
<1>5. ASSUME NEW path \in LoosePaths, FailCreation(path) PROVE ForetoldInv'
  <2>1. ~said'[path].ok /\ DOMAIN said' = DOMAIN said \cup {path}
    BY <1>5, CreationFails
  <2>2. UNCHANGED <<world, files, run, previous>> /\ left' = left \ {path} /\ step = "create" /\ step' = "over"
    BY <1>5 DEF FailCreation
  <2>3. ConversionsWrote \subseteq ConversionsWrote'
    BY <2>1, <2>2 DEF ConversionsWrote, AssetOf, Converting, OperationsOf
  <2>4. ~NothingFailed'
    BY <2>1 DEF NothingFailed
  <2>5. \A p : Foretold(p)' <=> Foretold(p)
    BY <2>2, SameForetold
  <2>6. Pending' \subseteq Pending
    BY <2>2, <2>3
  <2>7. QED
    BY <1>2, <2>2, <2>4, <2>5, <2>6
<1>6. ASSUME NEW path \in LoosePaths, NEW report, NEW written, Attempted(path, report, written)
      PROVE  ForetoldInv'
  <2>1. /\ Moves(path, report) /\ step = "attempt" /\ UNCHANGED <<world, run, diagnostics, previous>>
        /\ left' = left \ {path} /\ made /\ step' # "open"
    BY <1>1, <1>6, AttemptMoves DEF Attempted, Ends, Unattempted, Record, LoopInv
  <2>2. DOMAIN said' = DOMAIN said \cup {path} /\ said'[path] = report /\ path \notin DOMAIN said
        /\ path \in DOMAIN files /\ path \in left /\ OperationsOf(path) # {}
        /\ \A p \in DOMAIN said : said'[p] = said[p]
    BY <2>1 DEF Moves
  <2>3. ConversionsWrote' = ConversionsWrote \cup IF Converting(path) THEN {OutputOf(path)} ELSE {}
    BY <2>1, <2>2 DEF ConversionsWrote, AssetOf, Converting, OperationsOf
  <2>4. Converting(path) \/ OutputOf(path) = path
    BY <2>2, OperationFacts, PathFacts
  <2>5. ASSUME NEW p \in DOMAIN files, p # path, p \notin ConversionsWrote' PROVE files'[p] = files[p]
    <3>1. p # OutputOf(path) /\ p \in DOMAIN files'
      BY <2>1, <2>3, <2>4, <2>5 DEF Moves
    <3>2. QED
      BY <2>1, <3>1 DEF Moves
  <2>6. ASSUME AfterDryRun', NEW p \in Pending'
        PROVE  p \in DOMAIN previous'.said /\ (previous'.said[p].changed <=> Foretold(p)')
    <3>1. p \in left /\ p # path /\ p \notin ConversionsWrote' /\ p \notin ConversionsWrote
      BY <2>1, <2>3
    <3>2. p \in DOMAIN previous.said /\ (previous.said[p].changed <=> Foretold(p))
      BY <1>2, <2>1, <2>6, <3>1
    <3>3. files'[p] = files[p]
      BY <1>1, <2>5, <3>1 DEF LoopInv, Routed
    <3>4. QED
      BY <2>1, <3>2, <3>3, SameForetold
  <2>7. ASSUME Apply', AfterDryRun', NothingFailed', NEW p \in DOMAIN said' \ ConversionsWrote'
        PROVE  Right(p)'
    <3>1. Apply /\ AfterDryRun /\ NothingFailed /\ report.ok
      BY <2>1, <2>2, <2>7 DEF Apply, Mode, NothingFailed
    <3>2. CASE p # path
      <4>1. p \in DOMAIN said \ ConversionsWrote /\ said'[p] = said[p]
        BY <2>2, <2>3, <2>7, <3>2
      <4>2. Right(p)
        BY <1>2, <3>1, <4>1
      <4>3. Extension(p) = "dds" => p.ext # "tga"
        BY DEF Extension
      <4>4. Extension(p) = "dds" => p \in DOMAIN files
        BY <1>1, <3>1, <4>1, <4>3 DEF FilesInv, NothingFailed
      <4>5. Extension(p) = "dds" => files'[p] = files[p]
        BY <2>5, <2>7, <3>2, <4>4
      <4>6. QED
        BY <2>1, <4>1, <4>2, <4>5
    <3>3. CASE p = path
      <4>1. path \notin ConversionsWrote
        BY <2>3, <2>7, <3>3
      <4>2. previous.said[path].changed <=> Foretold(path)
        BY <1>2, <2>1, <2>2, <3>1, <4>1
      <4>3. failed = {} /\ diagnostics = {}
        BY <1>1, <3>1 DEF ConversionInv, NothingFailed
      <4>4. /\ Alters(path) => Foretold(path)
            /\ Foretold(path) /\ ~Alters(path) =>
                 /\ Extension(path) = "dds"
                 /\ files[path].image.format \in {Bgra, world.profile.format}
        BY <1>1, <2>1, <2>2, <4>3, ForetoldChanges
      <4>5. report = Succeeded(Alters(path)) /\ (~Alters(path) => UNCHANGED files)
        BY <1>6, <3>1 DEF Attempted, Ends, EndsSame, EndsWritten, EndsFailed, EndsAside, EndsKept
      <4>6. report.changed <=> Alters(path)
        BY <4>5, AltersType, ResultTypes
      <4>7. QED
        BY <2>1, <2>2, <3>3, <4>2, <4>4, <4>5, <4>6
    <3>4. QED
      BY <3>2, <3>3
  <2>8. QED
    BY <1>2, <2>6, <2>7
<1>7. QED
  BY <1>3, <1>4, <1>5, <1>6, StepCases, Zenon

(* Before the first run nothing is foretold.                               *)
LEMMA ForetoldStart ==
  ASSUME BackendInit PROVE ScanInv /\ DryRunInv /\ ForetoldInv
BY DEF BackendInit, ScanInv, DryRunInv, ForetoldInv, DryRunForetells, NothingSaid, NoRunYet

(* A clean Dry Run foretells what a clean Apply run after it changes, up to*)
(* the native Textures that turn out as they were (optimize_texture,       *)
(* MeshOptimizer::optimize).                                               *)
THEOREM DryRunsForetell == BackendSpec => []DryRunForetells
<1> DEFINE I == BaseInv /\ ScanInv /\ DryRunInv /\ ForetoldInv
<1>1. BackendInit => I
  BY BaseStart, ForetoldStart
<1>2. I /\ [BackendNext]_backendVars => I'
  BY BaseStep, ScanStep, DryRunStep, ForetoldStep, Zenon
<1>3. I => DryRunForetells
  BY DEF ForetoldInv
<1>4. QED
  BY <1>1, <1>2, <1>3, PTL DEF BackendSpec

-----------------------------------------------------------------------------
(* Textures come to rest.                                                  *)

(* The choices under which Textures come to rest.                          *)
Settling ==
  world.textures.resize.kind # "ratio" /\ world.profile.format \notin world.profile.unwanted

(* One success leaves at most sides that are powers of two to be halved, a *)
(* second one nothing at all.                                              *)
Rested(p) ==
  /\ settling[p] >= 1 /\ Halved(files[p].image, RequestOf(p)) > 0 => IsPowerOfTwo(files[p].image)
  /\ settling[p] >= 2 => ~OptimizeTexture(p).modified

(* Rest depends on the Texture and how often it succeeded.                 *)
LEMMA SameRested ==
  ASSUME NEW p, UNCHANGED world, files'[p] = files[p], settling'[p] = settling[p], Rested(p)
  PROVE  Rested(p)'
BY DEF Rested, RequestOf, OptimizeTexture, VariantOf, IsInterface, OperationsOf

(* An attempt on a native Texture brings it one step closer to rest.       *)
LEMMA CloserToRest ==
  ASSUME BackendTypeOK, Settling, NEW p \in DOMAIN files, Native(p), Rested(p)
  PROVE  LET image == files[p].image
             request == RequestOf(p)
             new == OptimizeTexture(p).image
             again == Optimized(new, VariantOf(p), IsInterface(p), world.profile, request)
         IN /\ Halved(new, request) > 0 => IsPowerOfTwo(new)
            /\ settling[p] >= 1 => again.modified = FALSE
            /\ ~OptimizeTexture(p).modified => ~(Halved(image, request) > 0)
            /\ \A other : TextureRequest(OperationsOf(p), world.textures, other) = request
<1> DEFINE image == files[p].image
           request == RequestOf(p)
           new == OptimizeTexture(p).image
           again == Optimized(new, VariantOf(p), IsInterface(p), world.profile, request)
<1>1. TargetOf(p) = "Texture" /\ VariantOf(p) = "native"
  BY DEF Native, VariantOf
<1>2. /\ image \in Images /\ request \in Requests /\ IsInterface(p) \in BOOLEAN /\ world.profile \in Targets
      /\ SoundlyOptimized(image, VariantOf(p), IsInterface(p), world.profile, request)
  BY <1>1, TextureFacts
<1>3. /\ request.resize => request.target.w >= 1 /\ request.target.h >= 1
      /\ \A other : TextureRequest(OperationsOf(p), world.textures, other) = request
  <2>1. world.textures \in TextureChoices
    BY WorldTypes DEF BackendTypeOK
  <2>2. QED
    BY <1>2, <2>1, RequestType DEF RequestOf, Settling
<1>4. /\ Halved(new, request) > 0 => IsPowerOfTwo(new)
      /\ (Halved(image, request) > 0 => IsPowerOfTwo(image)) => again.modified = FALSE
  <2>1. world.profile.format \notin world.profile.unwanted
    BY DEF Settling
  <2>2. LET report == Optimized(image, "native", IsInterface(p), world.profile, request)
            second == Optimized(report.image, "native", IsInterface(p), world.profile, request)
        IN /\ Halved(report.image, request) > 0 => IsPowerOfTwo(report.image)
           /\ (Halved(image, request) > 0 => IsPowerOfTwo(image)) => second.modified = FALSE
    BY <1>2, <1>3, <2>1, ComesToRest
  <2>3. QED
    BY <1>1, <2>2 DEF OptimizeTexture
<1>5. ~OptimizeTexture(p).modified => ~(Halved(image, request) > 0)
  <2> DEFINE plan == Plan(image, VariantOf(p), IsInterface(p), world.profile, request)
  <2>1. plan.resize <=> Halved(image, request) > 0
    BY DEF Plan, Halved
  <2>2. WouldChange(plan) => (plan.resize => OptimizeTexture(p).modified)
    BY <1>2 DEF SoundlyOptimized, OptimizeTexture
  <2>3. plan.resize => WouldChange(plan)
    BY DEF WouldChange
  <2> HIDE DEF plan
  <2>4. QED
    BY <2>1, <2>2, <2>3
<1>6. settling[p] >= 1 => again.modified = FALSE
  BY <1>4 DEF Rested
<1>7. QED
  BY <1>3, <1>4, <1>5, <1>6

(* The parts of RestInv that an attempt moves.                             *)
RestParts ==
  /\ \A p \in LoosePaths : TargetOf(p) # "Texture" => settling[p] = 0
  /\ \A p \in LoosePaths : p.ext = "tga" /\ settling[p] >= 1 => p \notin DOMAIN files
  /\ Settling => \A p \in DOMAIN files : Native(p) => Rested(p)

(* They make up RestInv.                                                   *)
LEMMA RestIs == RestInv <=> RestParts /\ TexturesSettle
BY DEF RestInv, RestParts, Rested, Settling

(* They are about the files and the counts alone.                          *)
LEMMA RestFrame ==
  ASSUME RestParts, UNCHANGED <<world, files, settling>>
  PROVE  RestParts'
BY SameRested DEF RestParts, Settling, Native

(* An attempt keeps Textures that rest at rest.                            *)
LEMMA RestAttempt ==
  ASSUME BaseInv, RestInv, NEW path \in LoosePaths, NEW report, NEW written,
         Attempted(path, report, written)
  PROVE  RestInv'
<1>1. BackendTypeOK /\ LoopInv /\ RestParts /\ TexturesSettle
  BY RestIs DEF BaseInv
<1>2. /\ Moves(path, report) /\ UNCHANGED <<world, run>> /\ MayWrite(path, written)
  BY <1>1, AttemptMoves DEF Attempted, Unattempted
<1>3. path \in DOMAIN files /\ OperationsOf(path) # {} /\ path \notin DOMAIN said
  BY <1>2 DEF Moves
<1>4. /\ Converting(path) <=> path.ext = "tga"
      /\ path.ext = "tga" => TargetOf(path) = "Texture" /\ OutputOf(path) # path
      /\ path.ext # "tga" => OutputOf(path) = path
      /\ OutputOf(path).ext = "tga" => OutputOf(path) = path
      /\ TargetOf(OutputOf(path)) # "Texture" => OutputOf(path) = path
  BY <1>3, OperationFacts, PathFacts
<1>5. settling \in [LoosePaths -> Nat] /\ DOMAIN files \subseteq LoosePaths
      /\ settling' \in [LoosePaths -> Nat] /\ DOMAIN files' \subseteq LoosePaths
  <2>1. BackendTypeOK'
    BY <1>1, AttemptTypes
  <2>2. QED
    BY <1>1, <2>1 DEF BackendTypeOK, StateTypeOK
<1>6. path.ext = "tga" => settling[path] = 0
  BY <1>1, <1>3, <1>5 DEF RestParts
<1>7. Settling' = Settling /\ Apply' = Apply
  BY <1>2 DEF Settling, Apply, Mode
(* What becomes of the counts of other Textures, ...                       *)
<1>8. ASSUME NEW p \in LoosePaths, p # path
      PROVE  \/ settling'[p] = 0
             \/ /\ settling'[p] = settling[p]
                /\ p \in DOMAIN files' => p \in DOMAIN files /\ files'[p] = files[p]
  <2>1. OutputOf(path) # p => (p \in DOMAIN files' => p \in DOMAIN files /\ files'[p] = files[p])
    BY <1>2, <1>8 DEF Moves
  <2>2. ASSUME UNCHANGED <<files, settling>> PROVE settling'[p] = settling[p] /\ files'[p] = files[p] /\ DOMAIN files' = DOMAIN files
    BY <2>2
  <2>3. CASE EndsSame(path, report)
    BY <1>5, <1>8, <2>3 DEF EndsSame, Settles
  <2>4. CASE EndsWritten(path, report, written)
    BY <1>4, <1>5, <1>8, <2>1, <2>4 DEF EndsWritten, Settles
  <2>5. CASE EndsFailed(path, report)
    BY <2>2, <2>5 DEF EndsFailed
  <2>6. CASE EndsAside(path, report)
    BY <1>8, <2>6 DEF EndsAside, Without, Restrict
  <2>7. CASE EndsKept(path, report, written)
    BY <1>4, <1>5, <1>8, <2>1, <2>7 DEF EndsKept, Settles
  <2>8. QED
    BY <2>3, <2>4, <2>5, <2>6, <2>7 DEF Attempted, Ends
(* ... and of its own.                                                     *)
<1>9. \/ /\ EndsSame(path, report) /\ UNCHANGED files /\ ~(Apply /\ Alters(path))
         /\ settling'[path] = settling[path] + IF Apply /\ TargetOf(path) = "Texture" THEN 1 ELSE 0
      \/ /\ EndsWritten(path, report, written) /\ files' = Landed(path, written) /\ Apply
         /\ settling'[path] = settling[path] + IF TargetOf(path) = "Texture" THEN 1 ELSE 0
      \/ EndsFailed(path, report) /\ UNCHANGED files /\ settling'[path] = settling[path]
      \/ EndsAside(path, report) /\ path \notin DOMAIN files' /\ settling'[path] = settling[path]
      \/ EndsKept(path, report, written) /\ files' = written /\ settling'[path] = settling[path]
  <2>1. CASE EndsSame(path, report)
    BY <1>5, <2>1 DEF EndsSame, Settles
  <2>2. CASE EndsWritten(path, report, written)
    BY <1>4, <1>5, <2>2 DEF EndsWritten, Settles
  <2>3. CASE EndsFailed(path, report)
    BY <2>3 DEF EndsFailed
  <2>4. CASE EndsAside(path, report)
    BY <2>4 DEF EndsAside, Without, Restrict
  <2>5. CASE EndsKept(path, report, written)
    BY <1>4, <1>5, <2>5 DEF EndsKept, Settles
  <2>6. QED
    BY <2>1, <2>2, <2>3, <2>4, <2>5 DEF Attempted, Ends
<1>10. /\ DOMAIN written = DOMAIN files \cup {OutputOf(path)}
       /\ TargetOf(path) = "Texture" => written[OutputOf(path)].image = OptimizeTexture(path).image
  BY <1>1, <1>2, <1>3, Written
<1>11. ASSUME NEW p \in LoosePaths, TargetOf(p) # "Texture" PROVE settling'[p] = 0
  <2>1. settling[p] = 0
    BY <1>1, <1>11 DEF RestParts
  <2>2. CASE p = path
    BY <1>9, <1>11, <2>1, <2>2
  <2>3. CASE p # path
    BY <1>8, <2>1, <2>3
  <2>4. QED
    BY <2>2, <2>3
<1>12. ASSUME NEW p \in LoosePaths, p.ext = "tga", settling'[p] >= 1 PROVE p \notin DOMAIN files'
  <2>1. CASE p = path
    <3>1. Converting(path) /\ settling[path] = 0 /\ TargetOf(path) = "Texture"
      BY <1>4, <1>6, <1>12, <2>1
    <3>2. Alters(path) <=> IF Apply THEN OptimizeTexture(path).modified \/ Converting(path)
                                     ELSE TextureWouldChange(path)
      BY <3>1 DEF Alters, TextureChanges
    <3>3. files' = Without(written, path) \/ path \notin DOMAIN files'
      BY <1>9, <1>12, <2>1, <3>1, <3>2 DEF Landed
    <3>4. QED
      BY <2>1, <3>3 DEF Without, Restrict
  <2>2. CASE p # path
    <3>1. settling'[p] = settling[p] /\ (p \in DOMAIN files' => p \in DOMAIN files)
      BY <1>8, <1>12, <2>2
    <3>2. QED
      BY <1>1, <1>12, <3>1 DEF RestParts
  <2>3. QED
    BY <2>1, <2>2
<1>13. ASSUME Settling, NEW p \in DOMAIN files', Native(p) PROVE Rested(p)'
  <2>1. p \in LoosePaths
    BY <1>5
  <2>2. CASE p # path
    <3>1. CASE settling'[p] = 0
      BY <3>1 DEF Rested
    <3>2. CASE settling'[p] = settling[p] /\ p \in DOMAIN files /\ files'[p] = files[p]
      <4>1. Rested(p)
        BY <1>1, <1>13, <3>2 DEF RestParts
      <4>2. QED
        BY <1>2, <3>2, <4>1, SameRested
    <3>3. QED
      BY <1>8, <2>1, <2>2, <3>1, <3>2
  <2>3. CASE p = path
    <3> DEFINE image == files[path].image
               request == RequestOf(path)
               new == OptimizeTexture(path).image
               again == Optimized(new, VariantOf(path), IsInterface(path), world.profile, request)
    <3>1. TargetOf(path) = "Texture" /\ path.ext # "tga" /\ ~Converting(path) /\ OutputOf(path) = path
          /\ Native(path)
      BY <1>4, <1>13, <2>3 DEF Native
    <3>2. Rested(path)
      BY <1>1, <1>3, <1>13, <3>1 DEF RestParts
    <3>3. /\ Halved(new, request) > 0 => IsPowerOfTwo(new)
          /\ settling[path] >= 1 => again.modified = FALSE
          /\ ~OptimizeTexture(path).modified => ~(Halved(image, request) > 0)
          /\ \A other : TextureRequest(OperationsOf(path), world.textures, other) = request
      BY <1>1, <1>3, <1>13, <3>1, <3>2, CloserToRest
    <3>4. Apply /\ ~Alters(path) => ~OptimizeTexture(path).modified
      BY <3>1 DEF Alters, TextureChanges
    <3>5. CASE UNCHANGED files /\ settling'[path] = settling[path]
      BY <1>2, <2>3, <3>2, <3>5, SameRested
    <3>6. CASE UNCHANGED files /\ ~OptimizeTexture(path).modified
      <4>1. RequestOf(path)' = RequestOf(path) /\ OptimizeTexture(path)' = OptimizeTexture(path)
        BY <1>2, <3>6 DEF RequestOf, OptimizeTexture, OperationsOf, IsInterface, VariantOf
      <4>2. QED
        BY <2>3, <3>3, <3>6, <4>1 DEF Rested
    <3>7. CASE files' = written /\ settling'[path] <= settling[path] + 1
      <4>1. files'[path].image = new
        BY <1>10, <3>1, <3>7
      <4>2. RequestOf(path)' = request
        BY <1>2, <3>3 DEF RequestOf, OperationsOf
      <4>3. OptimizeTexture(path)' = again
        BY <1>2, <4>1, <4>2 DEF OptimizeTexture, IsInterface, VariantOf
      <4>4. settling'[path] >= 2 => settling[path] >= 1
        BY <1>5, <3>7
      <4> HIDE DEF new, again, request
      <4>5. QED
        BY <2>3, <3>3, <4>1, <4>2, <4>3, <4>4 DEF Rested
    <3>8. QED
      BY <1>5, <1>9, <1>13, <2>3, <3>1, <3>4, <3>5, <3>6, <3>7 DEF Landed
  <2>4. QED
    BY <2>2, <2>3
<1>14. RestParts'
  BY <1>7, <1>11, <1>12, <1>13 DEF RestParts, Native
<1>15. ASSUME Apply', NEW p \in DOMAIN said', said'[p].ok, settling'[p] >= 3, Settling
       PROVE  ~said'[p].changed
  <2>1. DOMAIN said' = DOMAIN said \cup {path} /\ said'[path] = report
        /\ \A q \in DOMAIN said : said'[q] = said[q]
    BY <1>2 DEF Moves
  <2>2. DOMAIN said \subseteq LoosePaths
    BY <1>1 DEF BackendTypeOK, StateTypeOK
  <2>3. CASE p # path
    <3>1. p \in DOMAIN said /\ said'[p] = said[p] /\ settling[p] >= 3
      BY <1>8, <1>15, <2>1, <2>2, <2>3
    <3>2. QED
      BY <1>1, <1>7, <1>15, <3>1 DEF TexturesSettle, Settling
  <2>4. CASE p = path
    <3>1. TargetOf(path) = "Texture"
      BY <1>11, <1>15, <2>4
    <3>2. settling[path] >= 2
      BY <1>5, <1>9, <1>15, <2>4
    <3>3. Native(path) /\ ~Converting(path)
      BY <1>4, <1>6, <3>1, <3>2 DEF Native
    <3>4. ~OptimizeTexture(path).modified
      BY <1>1, <1>3, <1>15, <3>2, <3>3 DEF RestParts, Rested
    <3>5. ~Alters(path)
      BY <1>7, <1>15, <3>1, <3>3, <3>4 DEF Alters, TextureChanges
    <3>6. EndsSame(path, report)
      BY <1>7, <1>9, <1>15, <2>1, <2>4, <3>5 DEF EndsWritten, EndsFailed, EndsAside, EndsKept
    <3>7. QED
      BY <2>1, <2>4, <3>5, <3>6, AltersType, ResultTypes DEF EndsSame
  <2>5. QED
    BY <2>3, <2>4
<1>16. TexturesSettle'
  BY <1>7, <1>15 DEF TexturesSettle, Settling
<1>17. QED
  BY <1>14, <1>16 DEF RestInv, RestParts, Rested, Settling

(* So does every step, ...                                                 *)
LEMMA RestStep ==
  ASSUME BaseInv, RestInv, [BackendNext]_backendVars
  PROVE  RestInv'
<1>1. RestParts /\ TexturesSettle
  BY RestIs
<1>2. ASSUME UNCHANGED <<world, files, settling>>, TexturesSettle' PROVE RestInv'
  <2>1. RestParts'
    BY <1>1, <1>2, RestFrame
  <2>2. QED
    BY <1>2, <2>1 DEF RestInv, RestParts, Rested, Settling
<1>3. CASE Quiet
  <2>1. UNCHANGED <<world, files, run, said, settling>>
    BY <1>3, QuietFrame
  <2>2. TexturesSettle'
    BY <1>1, <2>1 DEF TexturesSettle, Apply, Mode
  <2>3. QED
    BY <1>2, <2>1, <2>2
<1>4. CASE NextRun
  <2>1. UNCHANGED <<world, files, settling>> /\ DOMAIN said' = {}
    BY <1>4 DEF NextRun, NothingSaid
  <2>2. TexturesSettle'
    BY <2>1 DEF TexturesSettle
  <2>3. QED
    BY <1>2, <2>1, <2>2
<1>5. ASSUME NEW path \in LoosePaths, FailCreation(path) PROVE RestInv'
  <2>1. UNCHANGED <<world, files, settling, run>>
    BY <1>5 DEF FailCreation
  <2>2. /\ ~said'[path].ok /\ DOMAIN said' = DOMAIN said \cup {path}
        /\ \A p \in DOMAIN said : said'[p] = said[p]
    BY <1>5, CreationFails
  <2>3. TexturesSettle'
    BY <1>1, <2>1, <2>2 DEF TexturesSettle, Apply, Mode
  <2>4. QED
    BY <1>2, <2>1, <2>3
<1>6. ASSUME NEW path \in LoosePaths, NEW report, NEW written, Attempted(path, report, written)
      PROVE  RestInv'
  BY <1>6, RestAttempt
<1>7. QED
  BY <1>3, <1>4, <1>5, <1>6, StepCases, Zenon

(* ... and at first no Texture has been attempted.                         *)
LEMMA RestStart == ASSUME BackendInit PROVE RestInv
<1>1. DOMAIN said = {} /\ DOMAIN files \subseteq LoosePaths /\ \A p \in LoosePaths : settling[p] = 0
  BY WorldTypes DEF BackendInit, NothingSaid
<1>2. RestParts
  BY <1>1 DEF RestParts, Rested
<1>3. TexturesSettle
  BY <1>1 DEF TexturesSettle
<1>4. QED
  BY <1>2, <1>3, RestIs

(* Under the same choices the third successful attempt on a Texture writes *)
(* nothing, whatever its size, format and mipmaps (plan,                   *)
(* Texture::optimize).                                                     *)
THEOREM TexturesRest == BackendSpec => []TexturesSettle
<1> DEFINE I == BaseInv /\ RestInv
<1>1. BackendInit => I
  BY BaseStart, RestStart
<1>2. I /\ [BackendNext]_backendVars => I'
  BY BaseStep, RestStep, Zenon
<1>3. I => TexturesSettle
  BY DEF RestInv
<1>4. QED
  BY <1>1, <1>2, <1>3, PTL DEF BackendSpec
=============================================================================
