---------------------- MODULE ArchiveExtractionProofs ----------------------
(***************************************************************************)
(* Proofs about ArchiveExtraction, for any game paths and Archives and any *)
(* number of changes another program makes.  ExtractionInv says what the   *)
(* preflight decided, and what of it still lies on disk; that no step      *)
(* changes the Effective Asset Tree follows from it.                       *)
(***************************************************************************)
EXTENDS ArchiveExtraction, TLAPS

Attempting == {"pin", "stage", "merge", "cleanup", "judge"}
Merging == {"merge", "cleanup", "judge"}

(* An attempt has a source.                                                *)
SourceOfStage == IF stage \in Attempting THEN source \in Archives ELSE source = Nothing

(* Manifests are read from high to low, so that the first Archive with a   *)
(* game path is the highest that has it.                                   *)
PlanOfStage ==
    /\ At("walk") => \A p \in Paths : first[p] = Nothing
    /\ At("walk") => planned = {}
    /\ \A a \in Archives : a \notin planned => manifest[a] = {}
    /\ \A a \in unread, b \in planned : Rank[a] < Rank[b]
    /\ stage \in Attempting \cup {"next"} => unread = {}
    /\ \A p \in Paths : first[p] # Nothing => p \in manifest[first[p]]
    /\ \A a \in Archives : \A p \in manifest[a] :
         first[p] # Nothing /\ Rank[a] <= Rank[first[p]]
    /\ todo \subseteq planned

(* What was decided on is there: Loose Assets that won, and the Archives   *)
(* that won until their entries are Loose Assets.                          *)
DecisionsStand ==
    \A p \in Paths \ disturbed :
        /\ p \in found /\ Decided(p) => loose[p] # 0
        /\ Decided(p) => \A a \in Providers(p) : a \in unread \/ p \in manifest[a]
        /\ first[p] # Nothing => loose[p] # 0 \/ first[p] \in Providers(p)
        /\ (\E a \in Archives : p \in merged[a]) => loose[p] # 0

(* The source is what the pin saw, and its winners are merged one by one.  *)
MergeOfStage ==
    /\ stage \in {"stage", "merge"} =>
         pin.bytes = bytes[source] /\ pin.entries = entries[source]
    /\ stage \in {"stage"} \cup Merging => pin.bytes # 0
    /\ stage \in Merging => /\ pin.entries = manifest[source]
                            /\ merged[source] \cup left = MergeEntries(source)
    /\ stage \in {"cleanup", "judge"} => left = {}
    /\ \A a \in Archives : merged[a] \subseteq manifest[a]

(* What was done is on record, or about to be.                             *)
EvidenceOfStage ==
    /\ source \notin todo
    /\ stage \in {"walk", "preflight"} =>
         \A a \in Archives : attempts[a] = NoAttempt /\ merged[a] = {} /\ a \notin removed
    /\ \A a \in todo : attempts[a] = NoAttempt /\ merged[a] = {} /\ a \notin removed
    /\ stage \in Attempting => attempts[source] = NoAttempt /\ source \notin removed
    /\ stage \in {"pin", "stage"} => merged[source] = {}
    /\ \A a \in Archives \ {source} :
         /\ attempts[a].mutation = "None" => merged[a] = {} /\ a \notin removed
         /\ attempts[a].mutation = "Committed" => merged[a] = MergeEntries(a)
         /\ ~attempts[a].safe => At("halted")

ExtractionInv == PlanOfStage /\ DecisionsStand /\ MergeOfStage /\ EvidenceOfStage

(***************************************************************************)
(* Type correctness.                                                       *)
(***************************************************************************)

(* The labels the actions use.                                             *)
LEMMA Names ==
    /\ \A s \in {"walk", "preflight", "next", "pin", "stage", "merge", "cleanup", "judge",
                  "extracted", "planned", "halted"} : s \in Stages
    /\ \A f \in {"none", "ExtractionFailed", "MergeFailed", "SourceCleanupFailed",
                  "InsufficientCapacity"} : f \in Failures
    /\ \A m \in {"None", "Committed", "PartialOrUnknown"} : m \in Mutations
    /\ NoAttempt \in Attempts
BY DEF Stages, Failures, Mutations, Attempts, NoAttempt

LEMMA PinType == NoPin \in [bytes : Nat, entries : SUBSET Paths]
BY DEF NoPin

(* What an attempt leaves when it ends.                                    *)
LEMMA ConcludeType ==
    ASSUME TypeOK, source \in Archives, NEW f \in Failures, NEW m \in Mutations,
           NEW c \in BOOLEAN, Conclude(f, m, c)
    PROVE  /\ attempts' \in [Archives -> Attempts]
           /\ stage' \in {"next", "halted"}
           /\ source' = Nothing /\ pin' = NoPin /\ left' = {}
<1>1. (c /\ m # "PartialOrUnknown") \in BOOLEAN
  OBVIOUS
<1>2. attempts' \in [Archives -> Attempts]
  BY <1>1 DEF TypeOK, Conclude, Attempts
<1>3. QED
  BY <1>2 DEF Conclude, Goto

LEMMA InitType == Init => TypeOK /\ SourceOfStage
<1> SUFFICES ASSUME Init PROVE TypeOK /\ SourceOfStage
  OBVIOUS
<1>1. loose \in [Paths -> Nat] /\ bytes \in [Archives -> Nat]
  BY ConstantsAssumption DEF Init
<1>2. attempts \in [Archives -> Attempts]
  BY Names DEF Init
<1>3. SourceOfStage
  BY DEF Init, SourceOfStage, Attempting
<1>4. QED
  BY <1>1, <1>2, <1>3, Names, PinType DEF Init, TypeOK

(* Every action keeps every variable in its type.                          *)
LEMMA TypeStep == TypeOK /\ SourceOfStage /\ [Next]_vars => TypeOK' /\ SourceOfStage'
<1> SUFFICES ASSUME TypeOK, SourceOfStage, [Next]_vars PROVE TypeOK' /\ SourceOfStage'
  OBVIOUS
<1> USE ConstantsAssumption, Names
    DEF TypeOK, At, Goto, disk, plan, attempt, history, SourceOfStage, Attempting
<1>1. CASE Walk
  BY <1>1 DEF Walk, Reading
<1>2. CASE ReadManifest
  BY <1>2 DEF ReadManifest, Reading, Highest
<1>3. CASE FreezeWinners
  BY <1>3 DEF FreezeWinners, Reading
<1>4. CASE StopPreflight
  BY <1>4 DEF StopPreflight, Reading
<1>5. CASE NextArchive
  BY <1>5 DEF NextArchive, Highest
<1>6. CASE PinSource
  <2>1. source \in Archives
    BY <1>6 DEF PinSource
  <2>2. /\ attempts' \in [Archives -> Attempts]
        /\ stage' \in Stages
        /\ pin' \in [bytes : Nat, entries : SUBSET Paths] /\ left' \in SUBSET Paths
        /\ source' \in Archives \cup {Nothing}
        /\ SourceOfStage'
    <3>1. CASE Conclude("ExtractionFailed", "None", TRUE)
      BY <3>1, <2>1, ConcludeType, PinType
    <3>2. CASE /\ bytes[source] # 0
               /\ pin' = [bytes |-> bytes[source], entries |-> entries[source]]
               /\ Goto("stage") /\ UNCHANGED <<source, left, attempts>>
      BY <1>6, <3>2, <2>1 DEF PinSource, MergeEntries
    <3>3. QED
      BY <1>6, <3>1, <3>2 DEF PinSource
  <2>3. /\ loose' \in [Paths -> Nat] /\ bytes' \in [Archives -> Nat]
        /\ entries' \in [Archives -> SUBSET Paths]
        /\ merged' \in [Archives -> SUBSET Paths] /\ removed' \in SUBSET Archives
    BY <1>6, <2>1 DEF PinSource
  <2>4. QED
    BY <1>6, <2>2, <2>3 DEF PinSource
<1>7. CASE StageEntries
  <2>1. source \in Archives
    BY <1>7 DEF StageEntries
  <2>2. /\ attempts' \in [Archives -> Attempts]
        /\ stage' \in Stages
        /\ pin' \in [bytes : Nat, entries : SUBSET Paths] /\ left' \in SUBSET Paths
        /\ source' \in Archives \cup {Nothing}
        /\ SourceOfStage'
    <3>1. CASE FailExtraction
      <4>1. PICK f \in Failures : Conclude(f, "None", TRUE)
        BY <3>1 DEF FailExtraction
      <4>2. QED
        BY <4>1, <2>1, ConcludeType, PinType
    <3>2. CASE /\ left' = MergeEntries(source) /\ Goto("merge")
               /\ UNCHANGED <<source, pin, attempts>>
      BY <1>7, <3>2, <2>1 DEF StageEntries, MergeEntries
    <3>3. QED
      BY <1>7, <3>1, <3>2 DEF StageEntries
  <2>3. /\ loose' \in [Paths -> Nat] /\ bytes' \in [Archives -> Nat]
        /\ entries' \in [Archives -> SUBSET Paths]
        /\ merged' \in [Archives -> SUBSET Paths] /\ removed' \in SUBSET Archives
    BY <1>7, <2>1 DEF StageEntries
  <2>4. QED
    BY <1>7, <2>2, <2>3 DEF StageEntries
<1>8. CASE MergeEntry
  <2>1. source \in Archives
    BY <1>8 DEF MergeEntry
  <2>2. /\ attempts' \in [Archives -> Attempts]
        /\ stage' \in Stages
        /\ pin' \in [bytes : Nat, entries : SUBSET Paths] /\ left' \in SUBSET Paths
        /\ source' \in Archives \cup {Nothing}
        /\ SourceOfStage'
    <3>1. CASE FailMerge
      <4>1. PICK m \in Mutations, b \in BOOLEAN : Conclude("MergeFailed", m, b)
        BY <3>1 DEF FailMerge
      <4>2. QED
        BY <4>1, <2>1, ConcludeType, PinType
    <3>2. CASE /\ \E p \in left : left' = left \ {p}
               /\ UNCHANGED <<stage, source, pin, attempts>>
      BY <1>8, <3>2, <2>1 DEF MergeEntry, PublishEntry, MergeEntries
    <3>3. CASE Goto("cleanup") /\ UNCHANGED <<attempt, attempts>>
      BY <1>8, <3>3, <2>1 DEF MergeEntry, PublishEntry, MergeEntries
    <3>4. QED
      BY <1>8, <3>1, <3>2, <3>3 DEF MergeEntry
  <2>3. /\ loose' \in [Paths -> Nat] /\ bytes' \in [Archives -> Nat]
        /\ entries' \in [Archives -> SUBSET Paths]
        /\ merged' \in [Archives -> SUBSET Paths] /\ removed' \in SUBSET Archives
    BY <1>8, <2>1 DEF MergeEntry, PublishEntry
  <2>4. QED
    BY <1>8, <2>2, <2>3 DEF MergeEntry
<1>9. CASE CleanUpSource
  <2>1. source \in Archives
    BY <1>9 DEF CleanUpSource
  <2>2. /\ attempts' \in [Archives -> Attempts]
        /\ stage' \in Stages
        /\ pin' \in [bytes : Nat, entries : SUBSET Paths] /\ left' \in SUBSET Paths
        /\ source' \in Archives \cup {Nothing}
        /\ SourceOfStage'
    <3>1. CASE Conclude("none", "Committed", TRUE)
      BY <3>1, <2>1, ConcludeType, PinType
    <3>2. CASE Conclude("SourceCleanupFailed", "PartialOrUnknown", FALSE)
      BY <3>2, <2>1, ConcludeType, PinType
    <3>3. CASE Goto("judge") /\ UNCHANGED <<attempt, attempts>>
      BY <1>9, <3>3, <2>1 DEF CleanUpSource, TakeAway, MergeEntries
    <3>4. QED
      BY <1>9, <3>1, <3>2, <3>3 DEF CleanUpSource
  <2>3. /\ loose' \in [Paths -> Nat] /\ bytes' \in [Archives -> Nat]
        /\ entries' \in [Archives -> SUBSET Paths]
        /\ merged' \in [Archives -> SUBSET Paths] /\ removed' \in SUBSET Archives
    <3>1. CASE TakeAway
      BY <1>9, <3>1, <2>1 DEF CleanUpSource, TakeAway
    <3>2. CASE UNCHANGED <<bytes, removed>>
      BY <1>9, <3>2 DEF CleanUpSource
    <3>3. QED
      BY <1>9, <3>1, <3>2 DEF CleanUpSource
  <2>4. QED
    BY <1>9, <2>2, <2>3 DEF CleanUpSource
<1>10. CASE JudgeCleanup
  <2>1. source \in Archives
    BY <1>10 DEF JudgeCleanup
  <2>2. /\ attempts' \in [Archives -> Attempts]
        /\ stage' \in Stages
        /\ pin' \in [bytes : Nat, entries : SUBSET Paths] /\ left' \in SUBSET Paths
        /\ source' \in Archives \cup {Nothing}
        /\ SourceOfStage'
    <3>1. CASE Conclude("SourceCleanupFailed", "Committed", TRUE)
      BY <3>1, <2>1, ConcludeType, PinType
    <3>2. CASE Conclude("SourceCleanupFailed", "PartialOrUnknown", FALSE)
      BY <3>2, <2>1, ConcludeType, PinType
    <3>3. QED
      BY <1>10, <3>1, <3>2 DEF JudgeCleanup
  <2>3. /\ loose' \in [Paths -> Nat] /\ bytes' \in [Archives -> Nat]
        /\ entries' \in [Archives -> SUBSET Paths]
        /\ merged' \in [Archives -> SUBSET Paths] /\ removed' \in SUBSET Archives
    BY <1>10, <2>1 DEF JudgeCleanup, Unchanged
  <2>4. QED
    BY <1>10, <2>2, <2>3 DEF JudgeCleanup
<1>11. CASE RequestCancel
  BY <1>11 DEF RequestCancel
<1>12. CASE ForeignLoose
  BY <1>12 DEF ForeignLoose, Edit
<1>13. CASE ForeignArchive
  BY <1>13 DEF ForeignArchive, Edit
<1>14. CASE UNCHANGED vars
  BY <1>14 DEF vars
<1>15. QED
  BY <1>1, <1>2, <1>3, <1>4, <1>5, <1>6, <1>7, <1>8, <1>9, <1>10, <1>11, <1>12, <1>13, <1>14
     DEF Next, Extract, Foreign

(* Every variable keeps its type.                                          *)
THEOREM TypeCorrect == Spec => []TypeOK
<1>1. Spec => [](TypeOK /\ SourceOfStage)
  BY InitType, TypeStep, PTL DEF Spec
<1>2. QED
  BY <1>1, PTL

(***************************************************************************)
(* The inductive invariant.                                                *)
(***************************************************************************)

LEMMA InitInv == Init => ExtractionInv
<1> SUFFICES ASSUME Init PROVE ExtractionInv
  OBVIOUS
<1> USE DEF Init, At, Attempting, Merging
<1>1. PlanOfStage
  BY DEF PlanOfStage
<1>2. DecisionsStand
  BY DEF DecisionsStand, Decided
<1>3. MergeOfStage
  BY DEF MergeOfStage
<1>4. EvidenceOfStage
  BY ConstantsAssumption DEF EvidenceOfStage, NoAttempt
<1>5. QED
  BY <1>1, <1>2, <1>3, <1>4 DEF ExtractionInv

(* A step that leaves the disk, the plan and what was merged alone.         *)
LEMMA DecisionsKept ==
    ASSUME DecisionsStand, stage' # "preflight",
           UNCHANGED <<loose, bytes, entries, disturbed, found, unread, manifest, first,
                       planned, merged>>
    PROVE  DecisionsStand'
BY DEF DecisionsStand, Decided, Providers, At

(* However an attempt ends, it is on record.                               *)
LEMMA ConcludeInv ==
    ASSUME TypeOK, SourceOfStage, ExtractionInv, stage \in Attempting,
           NEW f \in Failures, NEW m \in Mutations, NEW c \in BOOLEAN, Conclude(f, m, c),
           UNCHANGED <<found, unread, planned, manifest, first, todo>>,
           merged' \in [Archives -> SUBSET Paths], merged'[source] \subseteq manifest[source],
           \A a \in Archives \ {source} :
             merged'[a] = merged[a] /\ (a \in removed' <=> a \in removed),
           m = "None" => merged'[source] = {} /\ source \notin removed',
           m = "Committed" => merged'[source] = MergeEntries(source)
    PROVE  PlanOfStage' /\ MergeOfStage' /\ EvidenceOfStage'
<1> USE DEF TypeOK, ExtractionInv, At, Goto
<1>1. /\ source \in Archives /\ stage' \in {"next", "halted"} /\ source' = Nothing
      /\ Nothing \notin Archives
  BY ConcludeType, ConstantsAssumption DEF SourceOfStage
<1>2. /\ attempts' = [attempts EXCEPT ![source] = [failure |-> f, mutation |-> m,
                              safe |-> (c /\ m # "PartialOrUnknown")]]
      /\ stage' = IF c /\ m # "PartialOrUnknown" THEN "next" ELSE "halted"
  BY DEF Conclude
<1>3. PlanOfStage'
  BY <1>1 DEF PlanOfStage, Attempting
<1>4. MergeOfStage'
  BY <1>1 DEF MergeOfStage, Merging
<1>5. EvidenceOfStage'
  <2>1. /\ source' \notin todo' /\ stage' \notin {"walk", "preflight", "pin", "stage"}
        /\ stage' \notin Attempting
    BY <1>1 DEF PlanOfStage, Attempting
  <2>2. ASSUME NEW a \in todo'
        PROVE  attempts'[a] = NoAttempt /\ merged'[a] = {} /\ a \notin removed'
    BY <1>1, <1>2 DEF EvidenceOfStage
  <2>3. ASSUME NEW a \in Archives \ {source'}
        PROVE  /\ attempts'[a].mutation = "None" => merged'[a] = {} /\ a \notin removed'
               /\ attempts'[a].mutation = "Committed" => merged'[a] = MergeEntries(a)'
               /\ ~attempts'[a].safe => stage' = "halted"
    <3>1. ~At("halted")
      BY DEF Attempting
    <3>2. CASE a = source
      BY <1>1, <1>2, <3>2 DEF MergeEntries
    <3>3. CASE a # source
      BY <1>1, <1>2, <3>1, <3>3 DEF EvidenceOfStage, MergeEntries
    <3>4. QED
      BY <3>2, <3>3
  <2>4. QED
    BY <2>1, <2>2, <2>3 DEF EvidenceOfStage
<1>6. QED
  BY <1>3, <1>4, <1>5

(* Once its winners are published, all an Archive won is loose.            *)
LEMMA WinnersAreLoose ==
    ASSUME TypeOK, SourceOfStage, ExtractionInv, stage \in {"cleanup", "judge"},
           NEW p \in Paths \ disturbed, first[p] = source
    PROVE  loose[p] # 0
<1> USE DEF ExtractionInv
<1>1. source \in Archives /\ Nothing \notin Archives
  BY ConstantsAssumption DEF SourceOfStage, Attempting
<1>2. p \in manifest[source] /\ first[p] # Nothing
  BY <1>1 DEF PlanOfStage, TypeOK
<1>3. p \in found \/ p \in merged[source]
  BY <1>1, <1>2 DEF MergeOfStage, Merging, MergeEntries, TypeOK
<1>4. QED
  BY <1>1, <1>2, <1>3 DEF DecisionsStand, Decided

(* One step per action; under it, one per part of the invariant.           *)
LEMMA InvStep ==
    TypeOK /\ SourceOfStage /\ ExtractionInv /\ [Next]_vars => ExtractionInv'
<1> SUFFICES ASSUME TypeOK, SourceOfStage, ExtractionInv, [Next]_vars
             PROVE  ExtractionInv'
  OBVIOUS
<1> USE ConstantsAssumption
    DEF TypeOK, SourceOfStage, ExtractionInv, At, Goto, disk, plan, attempt, history
<1>1. CASE Walk
  <2>1. PlanOfStage'
    BY <1>1 DEF Walk, Reading, PlanOfStage, Attempting, Merging
  <2>2. DecisionsStand'
    BY <1>1 DEF Walk, Reading, DecisionsStand, PlanOfStage, MergeOfStage, EvidenceOfStage,
       Decided, Providers, MergeEntries, Attempting, Merging
  <2>3. MergeOfStage'
    BY <1>1 DEF Walk, Reading, MergeOfStage, PlanOfStage, EvidenceOfStage, MergeEntries,
       Attempting, Merging
  <2>4. EvidenceOfStage'
    BY <1>1 DEF Walk, Reading, EvidenceOfStage, MergeEntries, NoAttempt, Attempts,
       MergeOfStage, Attempting, Merging
  <2>5. QED
    BY <2>1, <2>2, <2>3, <2>4
<1>2. CASE ReadManifest
  <2>1. PlanOfStage'
    <3>1. PICK a \in Archives :
            /\ a \in unread /\ \A b \in unread : Rank[b] <= Rank[a]
            /\ unread' = unread \ {a} /\ planned' = planned \cup {a}
            /\ manifest' = [manifest EXCEPT ![a] = entries[a]]
            /\ first' = [p \in Paths |-> IF first[p] = Nothing /\ p \in entries[a]
                                         THEN a ELSE first[p]]
      BY <1>2 DEF ReadManifest, Highest
    <3>2. /\ At("preflight") /\ UNCHANGED <<stage, todo>>
          /\ a \notin planned /\ entries[a] \subseteq Paths
      BY <1>2, <3>1 DEF ReadManifest, PlanOfStage
    <3>3. \A x \in unread', y \in planned' : Rank[x] < Rank[y]
      <4>1. ASSUME NEW x \in unread' PROVE Rank[x] < Rank[a]
        <5>1. x \in unread /\ x # a /\ x \in Archives
          BY <3>1
        <5>2. Rank[x] <= Rank[a] /\ Rank[x] # Rank[a]
          BY <3>1, <5>1, ConstantsAssumption
        <5>3. Rank[x] \in Nat /\ Rank[a] \in Nat
          BY <5>1, ConstantsAssumption
        <5>4. QED
          BY <5>2, <5>3
      <4>2. \A x \in unread, y \in planned : Rank[x] < Rank[y]
        BY DEF PlanOfStage
      <4>3. QED
        BY <3>1, <4>1, <4>2
    <3>4. \A p \in Paths : first'[p] # Nothing => p \in manifest'[first'[p]]
      BY <3>1, <3>2 DEF PlanOfStage
    <3>5. \A x \in Archives : \A p \in manifest'[x] :
             first'[p] # Nothing /\ Rank[x] <= Rank[first'[p]]
      BY <3>1, <3>2, ConstantsAssumption DEF PlanOfStage
    <3>6. QED
      BY <3>1, <3>2, <3>3, <3>4, <3>5 DEF PlanOfStage, Attempting
  <2>2. DecisionsStand'
    BY <1>2 DEF ReadManifest, Reading, Highest, DecisionsStand, PlanOfStage, MergeOfStage,
       EvidenceOfStage, Decided, Providers, MergeEntries, Attempting, Merging
  <2>3. MergeOfStage'
    BY <1>2 DEF ReadManifest, Reading, Highest, MergeOfStage, PlanOfStage, EvidenceOfStage,
       MergeEntries, Attempting, Merging
  <2>4. EvidenceOfStage'
    BY <1>2 DEF ReadManifest, Reading, Highest, EvidenceOfStage, MergeEntries, NoAttempt,
       Attempts, MergeOfStage, Attempting, Merging
  <2>5. QED
    BY <2>1, <2>2, <2>3, <2>4
<1>3. CASE FreezeWinners
  <2>1. PlanOfStage'
    BY <1>3 DEF FreezeWinners, Reading, PlanOfStage, Attempting, Merging
  <2>2. DecisionsStand'
    BY <1>3 DEF FreezeWinners, Reading, DecisionsStand, PlanOfStage, MergeOfStage,
       EvidenceOfStage, Decided, Providers, MergeEntries, Attempting, Merging
  <2>3. MergeOfStage'
    BY <1>3 DEF FreezeWinners, Reading, MergeOfStage, PlanOfStage, EvidenceOfStage,
       MergeEntries, Attempting, Merging
  <2>4. EvidenceOfStage'
    <3>1. /\ source' = Nothing /\ stage' \in {"next", "planned", "halted"} /\ todo' \subseteq Archives
          /\ attempts' = attempts /\ merged' = merged /\ removed' = removed
      BY <1>3 DEF FreezeWinners, Reading, Attempting
    <3>2. \A a \in Archives : attempts[a] = NoAttempt /\ merged[a] = {} /\ a \notin removed
      BY <1>3 DEF FreezeWinners, EvidenceOfStage
    <3>3. NoAttempt.mutation = "None" /\ NoAttempt.safe
      BY DEF NoAttempt
    <3>4. \A a \in Archives :
            /\ attempts'[a].mutation = "None" => merged'[a] = {} /\ a \notin removed'
            /\ attempts'[a].mutation # "Committed" /\ attempts'[a].safe
      BY <3>1, <3>2, <3>3
    <3>5. QED
      BY <3>1, <3>2, <3>4 DEF EvidenceOfStage, Attempting
  <2>5. QED
    BY <2>1, <2>2, <2>3, <2>4
<1>4. CASE StopPreflight
  <2>1. PlanOfStage'
    BY <1>4 DEF StopPreflight, Reading, PlanOfStage, Attempting, Merging
  <2>2. DecisionsStand'
    BY <1>4 DEF StopPreflight, Reading, DecisionsStand, PlanOfStage, MergeOfStage,
       EvidenceOfStage, Decided, Providers, MergeEntries, Attempting, Merging
  <2>3. MergeOfStage'
    BY <1>4 DEF StopPreflight, Reading, MergeOfStage, PlanOfStage, EvidenceOfStage,
       MergeEntries, Attempting, Merging
  <2>4. EvidenceOfStage'
    BY <1>4 DEF StopPreflight, Reading, EvidenceOfStage, MergeEntries, NoAttempt, Attempts,
       MergeOfStage, Attempting, Merging
  <2>5. QED
    BY <2>1, <2>2, <2>3, <2>4
<1>5. CASE NextArchive
  <2>1. PlanOfStage'
    BY <1>5 DEF NextArchive, Highest, PlanOfStage, Attempting, Merging
  <2>2. DecisionsStand'
    BY <1>5 DEF NextArchive, Highest, DecisionsStand, PlanOfStage, MergeOfStage,
       EvidenceOfStage, Decided, Providers, MergeEntries, Attempting, Merging
  <2>3. MergeOfStage'
    BY <1>5 DEF NextArchive, Highest, MergeOfStage, PlanOfStage, EvidenceOfStage,
       MergeEntries, Attempting, Merging
  <2>4. EvidenceOfStage'
    BY <1>5 DEF NextArchive, Highest, EvidenceOfStage, MergeEntries, NoAttempt, Attempts,
       MergeOfStage, Attempting, Merging
  <2>5. QED
    BY <2>1, <2>2, <2>3, <2>4
<1>6. CASE PinSource
  <2>1. CASE /\ bytes[source] # 0
             /\ pin' = [bytes |-> bytes[source], entries |-> entries[source]]
             /\ Goto("stage") /\ UNCHANGED <<source, left, attempts>>
    <3>1. PlanOfStage'
      BY <1>6, <2>1 DEF PinSource, PlanOfStage, Attempting, Merging
    <3>2. DecisionsStand'
      BY <1>6, <2>1 DEF PinSource, DecisionsStand, PlanOfStage, MergeOfStage,
         EvidenceOfStage, Decided, Providers, MergeEntries, Attempting, Merging
    <3>3. MergeOfStage'
      BY <1>6, <2>1 DEF PinSource, MergeOfStage, PlanOfStage, EvidenceOfStage, MergeEntries,
         Attempting, Merging
    <3>4. EvidenceOfStage'
      BY <1>6, <2>1 DEF PinSource, EvidenceOfStage, MergeEntries, NoAttempt, Attempts,
         MergeOfStage, Attempting, Merging
    <3>5. QED
      BY <3>1, <3>2, <3>3, <3>4
  <2>2. CASE Conclude("ExtractionFailed", "None", TRUE)
    <3>1. source \in Archives /\ source \notin removed
      BY <1>6 DEF PinSource, EvidenceOfStage, Attempting, Merging
    <3>2. PlanOfStage' /\ MergeOfStage' /\ EvidenceOfStage'
      BY <1>6, <2>2, <3>1, ConcludeInv, Names DEF PinSource, EvidenceOfStage, MergeOfStage,
         MergeEntries, Attempting, Merging
    <3>3. DecisionsStand'
      <4>1. stage' \in {"next", "halted"}
        BY <1>6, <2>2, <3>1, ConcludeType, Names DEF PinSource, Attempting
      <4>2. UNCHANGED <<loose, bytes, entries, disturbed, found, unread, manifest, first,
                        planned, merged>>
        BY <1>6 DEF PinSource
      <4>3. QED
        BY <4>1, <4>2, DecisionsKept
    <3>4. QED
      BY <3>2, <3>3
  <2>3. QED
    BY <1>6, <2>1, <2>2 DEF PinSource
<1>7. CASE StageEntries
  <2>1. CASE /\ pin.entries = manifest[source]
             /\ left' = MergeEntries(source) /\ Goto("merge")
             /\ UNCHANGED <<source, pin, attempts>>
    <3>1. PlanOfStage'
      BY <1>7, <2>1 DEF StageEntries, PlanOfStage, Attempting, Merging
    <3>2. DecisionsStand'
      BY <1>7, <2>1 DEF StageEntries, DecisionsStand, PlanOfStage, MergeOfStage,
         EvidenceOfStage, Decided, Providers, MergeEntries, Attempting, Merging
    <3>3. MergeOfStage'
      BY <1>7, <2>1 DEF StageEntries, MergeOfStage, PlanOfStage, EvidenceOfStage,
         MergeEntries, Attempting, Merging
    <3>4. EvidenceOfStage'
      BY <1>7, <2>1 DEF StageEntries, EvidenceOfStage, MergeEntries, NoAttempt, Attempts,
         MergeOfStage, Attempting, Merging
    <3>5. QED
      BY <3>1, <3>2, <3>3, <3>4
  <2>2. CASE FailExtraction
    <3>1. PICK f \in Failures : Conclude(f, "None", TRUE)
      BY <1>7, <2>2, Names DEF FailExtraction
    <3>2. PlanOfStage' /\ MergeOfStage' /\ EvidenceOfStage'
      BY <1>7, <2>2, <3>1, ConcludeInv, Names DEF StageEntries, EvidenceOfStage,
         MergeOfStage, MergeEntries, Attempting, Merging
    <3>3. DecisionsStand'
      <4>1. stage' \in {"next", "halted"}
        BY <1>7, <2>2, <3>1, ConcludeType, Names DEF StageEntries, Attempting
      <4>2. UNCHANGED <<loose, bytes, entries, disturbed, found, unread, manifest, first,
                        planned, merged>>
        BY <1>7 DEF StageEntries
      <4>3. QED
        BY <4>1, <4>2, DecisionsKept
    <3>4. QED
      BY <3>2, <3>3
  <2>3. QED
    BY <1>7, <2>1, <2>2 DEF StageEntries
<1>8. CASE MergeEntry
  <2>1. CASE /\ \E p \in left : PublishEntry(p) /\ left' = left \ {p}
             /\ UNCHANGED <<stage, source, pin, attempts>>
    <3>1. PlanOfStage'
      BY <1>8, <2>1 DEF MergeEntry, PublishEntry, PlanOfStage, Attempting, Merging
    <3>2. DecisionsStand'
      BY <1>8, <2>1 DEF MergeEntry, PublishEntry, DecisionsStand, PlanOfStage, MergeOfStage,
         EvidenceOfStage, Decided, Providers, MergeEntries, Attempting, Merging
    <3>3. MergeOfStage'
      BY <1>8, <2>1 DEF MergeEntry, PublishEntry, MergeOfStage, PlanOfStage,
         EvidenceOfStage, MergeEntries, Attempting, Merging
    <3>4. EvidenceOfStage'
      BY <1>8, <2>1 DEF MergeEntry, PublishEntry, EvidenceOfStage, MergeEntries, NoAttempt,
         Attempts, MergeOfStage, Attempting, Merging
    <3>5. QED
      BY <3>1, <3>2, <3>3, <3>4
  <2>2. CASE /\ left = {} /\ Goto("cleanup")
             /\ UNCHANGED <<loose, merged, attempt, attempts>>
    <3>1. PlanOfStage'
      BY <1>8, <2>2 DEF MergeEntry, PublishEntry, PlanOfStage, Attempting, Merging
    <3>2. DecisionsStand'
      BY <1>8, <2>2 DEF MergeEntry, PublishEntry, DecisionsStand, PlanOfStage, MergeOfStage,
         EvidenceOfStage, Decided, Providers, MergeEntries, Attempting, Merging
    <3>3. MergeOfStage'
      BY <1>8, <2>2 DEF MergeEntry, PublishEntry, MergeOfStage, PlanOfStage,
         EvidenceOfStage, MergeEntries, Attempting, Merging
    <3>4. EvidenceOfStage'
      BY <1>8, <2>2 DEF MergeEntry, PublishEntry, EvidenceOfStage, MergeEntries, NoAttempt,
         Attempts, MergeOfStage, Attempting, Merging
    <3>5. QED
      BY <3>1, <3>2, <3>3, <3>4
  <2>3. CASE (\E p \in left : PublishEntry(p)) /\ FailMerge
    <3>1. PICK m \in Mutations, b \in BOOLEAN : /\ Conclude("MergeFailed", m, b)
                                           /\ m = IF merged'[source] = {} THEN "None" ELSE "PartialOrUnknown"
      BY <1>8, <2>3, Names DEF FailMerge
    <3>2. PlanOfStage' /\ MergeOfStage' /\ EvidenceOfStage'
      <4>1. source \in Archives /\ stage \in Attempting
        BY <1>8 DEF MergeEntry, Attempting
      <4>2. PICK p \in left : PublishEntry(p)
        BY <2>3
      <4>3. /\ p \in MergeEntries(source) /\ p \in manifest[source]
            /\ merged[source] \subseteq manifest[source]
        BY <1>8, <4>1 DEF MergeEntry, MergeOfStage, Merging, MergeEntries
      <4>4. merged' = [merged EXCEPT ![source] = @ \cup {p}]
        BY <4>2 DEF PublishEntry
      <4>5. /\ merged' \in [Archives -> SUBSET Paths]
            /\ merged'[source] \subseteq manifest[source] /\ merged'[source] # {}
            /\ \A a \in Archives \ {source} : merged'[a] = merged[a]
        BY <4>1, <4>3, <4>4
      <4>6. m = "PartialOrUnknown"
        BY <3>1, <4>5
      <4>7. removed' = removed /\ UNCHANGED <<found, unread, planned, manifest, first, todo>>
        BY <1>8 DEF MergeEntry
      <4>8. QED
        BY <3>1, <4>1, <4>5, <4>6, <4>7, ConcludeInv, Names
    <3>3. DecisionsStand'
      BY <1>8, <2>3, <3>1, ConcludeType, Names DEF MergeEntry, PublishEntry, DecisionsStand,
         PlanOfStage, MergeOfStage, EvidenceOfStage, Decided, Providers, MergeEntries,
         Attempting, Merging
    <3>4. QED
      BY <3>2, <3>3
  <2>4. CASE UNCHANGED <<loose, merged>> /\ FailMerge
    <3>1. PICK m \in Mutations, b \in BOOLEAN : /\ Conclude("MergeFailed", m, b)
                                           /\ m = IF merged'[source] = {} THEN "None" ELSE "PartialOrUnknown"
      BY <1>8, <2>4, Names DEF FailMerge
    <3>2. PlanOfStage' /\ MergeOfStage' /\ EvidenceOfStage'
      BY <1>8, <2>4, <3>1, ConcludeInv, Names DEF MergeEntry, PublishEntry, EvidenceOfStage,
         MergeOfStage, MergeEntries, Attempting, Merging
    <3>3. DecisionsStand'
      BY <1>8, <2>4, <3>1, ConcludeType, Names DEF MergeEntry, PublishEntry, DecisionsStand,
         PlanOfStage, MergeOfStage, EvidenceOfStage, Decided, Providers, MergeEntries,
         Attempting, Merging
    <3>4. QED
      BY <3>2, <3>3
  <2>5. QED
    BY <1>8, <2>1, <2>2, <2>3, <2>4 DEF MergeEntry
<1>9. CASE CleanUpSource
  <2>1. CASE /\ Goto("judge") /\ UNCHANGED <<bytes, removed, attempt, attempts>>
    <3>1. PlanOfStage'
      BY <1>9, <2>1 DEF CleanUpSource, TakeAway, PlanOfStage, Attempting, Merging
    <3>2. DecisionsStand'
      BY <1>9, <2>1 DEF CleanUpSource, TakeAway, DecisionsStand, PlanOfStage, MergeOfStage,
         EvidenceOfStage, Decided, Providers, MergeEntries, Attempting, Merging
    <3>3. MergeOfStage'
      BY <1>9, <2>1 DEF CleanUpSource, TakeAway, MergeOfStage, PlanOfStage, EvidenceOfStage,
         MergeEntries, Attempting, Merging
    <3>4. EvidenceOfStage'
      BY <1>9, <2>1 DEF CleanUpSource, TakeAway, EvidenceOfStage, MergeEntries, NoAttempt,
         Attempts, MergeOfStage, Attempting, Merging
    <3>5. QED
      BY <3>1, <3>2, <3>3, <3>4
  <2>2. CASE TakeAway /\ Conclude("none", "Committed", TRUE)
    <3>1. source \in Archives /\ source \notin removed
      BY <1>9 DEF CleanUpSource, EvidenceOfStage, Attempting, Merging
    <3>2. PlanOfStage' /\ MergeOfStage' /\ EvidenceOfStage'
      <4>1. stage \in Attempting /\ merged[source] = MergeEntries(source)
        BY <1>9, <3>1 DEF CleanUpSource, MergeOfStage, Merging, Attempting
      <4>2. merged[source] \subseteq manifest[source] /\ merged' = merged
        BY <1>9, <3>1 DEF CleanUpSource, MergeOfStage
      <4>3. /\ \A a \in Archives \ {source} : a \in removed' <=> a \in removed
            /\ UNCHANGED <<found, unread, planned, manifest, first, todo>>
        BY <1>9, <2>2, <3>1 DEF CleanUpSource, TakeAway
      <4>4. QED
        BY <2>2, <3>1, <4>1, <4>2, <4>3, ConcludeInv, Names
    <3>3. DecisionsStand'
      <4>1. SUFFICES ASSUME NEW p \in Paths \ disturbed
                     PROVE  /\ p \in found /\ Decided(p)' => loose[p] # 0
                            /\ Decided(p)' => \A a \in Providers(p)' : p \in manifest[a]
                            /\ first[p] # Nothing => loose[p] # 0 \/ first[p] \in Providers(p)'
                            /\ (\E a \in Archives : p \in merged[a]) => loose[p] # 0
        BY <1>9 DEF CleanUpSource, DecisionsStand
      <4>2. /\ stage' \in {"next", "halted"} /\ first' = first /\ entries' = entries
            /\ unread = {}
        BY <1>9, <2>2, <3>1, ConcludeType, Names DEF CleanUpSource, PlanOfStage, Attempting
      <4>3. /\ Decided(p)' => Decided(p) /\ first[p] # Nothing
            /\ first[p] # Nothing => Decided(p)
        BY <4>2 DEF Decided
      <4>4. Providers(p)' \subseteq Providers(p) /\ Providers(p) \ {source} \subseteq Providers(p)'
        BY <1>9, <2>2, <3>1 DEF CleanUpSource, TakeAway, Providers
      <4>5. first[p] = source => loose[p] # 0
        BY <1>9, WinnersAreLoose DEF CleanUpSource
      <4>6. QED
        BY <4>2, <4>3, <4>4, <4>5 DEF DecisionsStand
    <3>4. QED
      BY <3>2, <3>3
  <2>3. CASE (TakeAway \/ UNCHANGED <<bytes, removed>>) /\ Conclude("SourceCleanupFailed", "PartialOrUnknown", FALSE)
    <3>1. source \in Archives /\ source \notin removed
      BY <1>9 DEF CleanUpSource, EvidenceOfStage, Attempting, Merging
    <3>2. PlanOfStage' /\ MergeOfStage' /\ EvidenceOfStage'
      <4>1. stage \in Attempting /\ merged[source] = MergeEntries(source)
        BY <1>9, <3>1 DEF CleanUpSource, MergeOfStage, Merging, Attempting
      <4>2. merged[source] \subseteq manifest[source] /\ merged' = merged
        BY <1>9, <3>1 DEF CleanUpSource, MergeOfStage
      <4>3. /\ \A a \in Archives \ {source} : a \in removed' <=> a \in removed
            /\ UNCHANGED <<found, unread, planned, manifest, first, todo>>
        BY <1>9, <2>3, <3>1 DEF CleanUpSource, TakeAway
      <4>4. QED
        BY <2>3, <3>1, <4>1, <4>2, <4>3, ConcludeInv, Names
    <3>3. DecisionsStand'
      <4>1. SUFFICES ASSUME NEW p \in Paths \ disturbed
                     PROVE  /\ p \in found /\ Decided(p)' => loose[p] # 0
                            /\ Decided(p)' => \A a \in Providers(p)' : p \in manifest[a]
                            /\ first[p] # Nothing => loose[p] # 0 \/ first[p] \in Providers(p)'
                            /\ (\E a \in Archives : p \in merged[a]) => loose[p] # 0
        BY <1>9 DEF CleanUpSource, DecisionsStand
      <4>2. /\ stage' \in {"next", "halted"} /\ first' = first /\ entries' = entries
            /\ unread = {}
        BY <1>9, <2>3, <3>1, ConcludeType, Names DEF CleanUpSource, PlanOfStage, Attempting
      <4>3. /\ Decided(p)' => Decided(p) /\ first[p] # Nothing
            /\ first[p] # Nothing => Decided(p)
        BY <4>2 DEF Decided
      <4>4. Providers(p)' \subseteq Providers(p) /\ Providers(p) \ {source} \subseteq Providers(p)'
        BY <1>9, <2>3, <3>1 DEF CleanUpSource, TakeAway, Providers
      <4>5. first[p] = source => loose[p] # 0
        BY <1>9, WinnersAreLoose DEF CleanUpSource
      <4>6. QED
        BY <4>2, <4>3, <4>4, <4>5 DEF DecisionsStand
    <3>4. QED
      BY <3>2, <3>3
  <2>4. QED
    BY <1>9, <2>1, <2>2, <2>3 DEF CleanUpSource
<1>10. CASE JudgeCleanup
  <2>1. CASE Conclude("SourceCleanupFailed", "Committed", TRUE)
    <3>1. source \in Archives /\ source \notin removed
      BY <1>10 DEF JudgeCleanup, EvidenceOfStage, Attempting, Merging
    <3>2. PlanOfStage' /\ MergeOfStage' /\ EvidenceOfStage'
      <4>1. stage \in Attempting /\ merged[source] = MergeEntries(source)
        BY <1>10, <3>1 DEF JudgeCleanup, MergeOfStage, Merging, Attempting
      <4>2. merged[source] \subseteq manifest[source] /\ merged' = merged
        BY <1>10, <3>1 DEF JudgeCleanup, MergeOfStage
      <4>3. /\ \A a \in Archives \ {source} : a \in removed' <=> a \in removed
            /\ UNCHANGED <<found, unread, planned, manifest, first, todo>>
        BY <1>10, <2>1, <3>1 DEF JudgeCleanup
      <4>4. QED
        BY <2>1, <3>1, <4>1, <4>2, <4>3, ConcludeInv, Names
    <3>3. DecisionsStand'
      <4>1. stage' \in {"next", "halted"}
        BY <1>10, <2>1, <3>1, ConcludeType, Names DEF JudgeCleanup, Attempting
      <4>2. UNCHANGED <<loose, bytes, entries, disturbed, found, unread, manifest, first,
                        planned, merged>>
        BY <1>10 DEF JudgeCleanup
      <4>3. QED
        BY <4>1, <4>2, DecisionsKept
    <3>4. QED
      BY <3>2, <3>3
  <2>2. CASE Conclude("SourceCleanupFailed", "PartialOrUnknown", FALSE)
    <3>1. source \in Archives /\ source \notin removed
      BY <1>10 DEF JudgeCleanup, EvidenceOfStage, Attempting, Merging
    <3>2. PlanOfStage' /\ MergeOfStage' /\ EvidenceOfStage'
      BY <1>10, <2>2, <3>1, ConcludeInv, Names DEF JudgeCleanup, Unchanged, EvidenceOfStage,
         MergeOfStage, MergeEntries, Attempting, Merging
    <3>3. DecisionsStand'
      <4>1. stage' \in {"next", "halted"}
        BY <1>10, <2>2, <3>1, ConcludeType, Names DEF JudgeCleanup, Attempting
      <4>2. UNCHANGED <<loose, bytes, entries, disturbed, found, unread, manifest, first,
                        planned, merged>>
        BY <1>10 DEF JudgeCleanup
      <4>3. QED
        BY <4>1, <4>2, DecisionsKept
    <3>4. QED
      BY <3>2, <3>3
  <2>3. QED
    BY <1>10, <2>1, <2>2 DEF JudgeCleanup
<1>11. CASE RequestCancel
  <2>1. PlanOfStage'
    BY <1>11 DEF RequestCancel, PlanOfStage, Attempting, Merging
  <2>2. DecisionsStand'
    BY <1>11 DEF RequestCancel, DecisionsStand, PlanOfStage, MergeOfStage, EvidenceOfStage,
       Decided, Providers, MergeEntries, Attempting, Merging
  <2>3. MergeOfStage'
    BY <1>11 DEF RequestCancel, MergeOfStage, PlanOfStage, EvidenceOfStage, MergeEntries,
       Attempting, Merging
  <2>4. EvidenceOfStage'
    BY <1>11 DEF RequestCancel, EvidenceOfStage, MergeEntries, NoAttempt, Attempts,
       MergeOfStage, Attempting, Merging
  <2>5. QED
    BY <2>1, <2>2, <2>3, <2>4
<1>12. CASE ForeignLoose
  <2>1. PlanOfStage'
    BY <1>12 DEF ForeignLoose, Edit, PlanOfStage, Attempting, Merging
  <2>2. DecisionsStand'
    BY <1>12 DEF ForeignLoose, Edit, DecisionsStand, PlanOfStage, MergeOfStage,
       EvidenceOfStage, Decided, Providers, MergeEntries, Attempting, Merging
  <2>3. MergeOfStage'
    BY <1>12 DEF ForeignLoose, Edit, MergeOfStage, PlanOfStage, EvidenceOfStage,
       MergeEntries, Attempting, Merging
  <2>4. EvidenceOfStage'
    BY <1>12 DEF ForeignLoose, Edit, EvidenceOfStage, MergeEntries, NoAttempt, Attempts,
       MergeOfStage, Attempting, Merging
  <2>5. QED
    BY <2>1, <2>2, <2>3, <2>4
<1>13. CASE ForeignArchive
  <2>1. PlanOfStage'
    BY <1>13 DEF ForeignArchive, Edit, PlanOfStage, Attempting, Merging
  <2>2. DecisionsStand'
    BY <1>13 DEF ForeignArchive, Edit, DecisionsStand, PlanOfStage, MergeOfStage,
       EvidenceOfStage, Decided, Providers, MergeEntries, Attempting, Merging
  <2>3. MergeOfStage'
    <3>1. PICK a \in Archives, n \in {0, Fresh + edits}, e \in SUBSET Paths :
            /\ ~Pinned(a)
            /\ bytes' = [bytes EXCEPT ![a] = n] /\ entries' = [entries EXCEPT ![a] = e]
      BY <1>13 DEF ForeignArchive
    <3>2. stage \in {"stage", "merge"} =>
            bytes'[source] = bytes[source] /\ entries'[source] = entries[source]
      BY <3>1 DEF Pinned, Attempting
    <3>3. UNCHANGED <<stage, found, manifest, first, source, pin, left, merged>>
      BY <1>13 DEF ForeignArchive, Edit
    <3>4. QED
      BY <3>2, <3>3 DEF MergeOfStage, MergeEntries
  <2>4. EvidenceOfStage'
    BY <1>13 DEF ForeignArchive, Edit, EvidenceOfStage, MergeEntries, NoAttempt, Attempts,
       MergeOfStage, Attempting, Merging
  <2>5. QED
    BY <2>1, <2>2, <2>3, <2>4
<1>14. CASE UNCHANGED vars
  BY <1>14 DEF vars, PlanOfStage, DecisionsStand, MergeOfStage, EvidenceOfStage, Decided,
     Providers, MergeEntries
<1>15. QED
  BY <1>1, <1>2, <1>3, <1>4, <1>5, <1>6, <1>7, <1>8, <1>9, <1>10, <1>11, <1>12, <1>13, <1>14
     DEF Next, Extract, Foreign

(* The invariant holds in every reachable state.                           *)
THEOREM ExtractionInvariant == Spec => [](TypeOK /\ SourceOfStage /\ ExtractionInv)
<1>1. Init => TypeOK /\ SourceOfStage /\ ExtractionInv
  BY InitType, InitInv
<1>2. TypeOK /\ SourceOfStage /\ ExtractionInv /\ [Next]_vars
        => (TypeOK /\ SourceOfStage /\ ExtractionInv)'
  BY TypeStep, InvStep
<1>3. QED
  BY <1>1, <1>2, PTL DEF Spec

(* Run Evidence tells what became of every Archive.                        *)
THEOREM MergesAreReported == Spec => []MergeIsReported
<1>1. TypeOK /\ ExtractionInv => MergeIsReported
  BY ConstantsAssumption DEF ExtractionInv, EvidenceOfStage, MergeIsReported
<1>2. QED
  BY <1>1, ExtractionInvariant, PTL

(***************************************************************************)
(* No step of extraction changes the Effective Asset Tree.                 *)
(***************************************************************************)

(* The highest of a set of Archives is its top.                            *)
LEMMA TopIs ==
    ASSUME NEW S \in SUBSET Archives, NEW a \in Archives, Highest(a, S)
    PROVE  Top(S) = a
<1>1. Top(S) \in Archives /\ Highest(Top(S), S)
  BY DEF Top
<1>2. Rank[Top(S)] <= Rank[a] /\ Rank[a] <= Rank[Top(S)]
  BY <1>1 DEF Highest
<1>3. QED
  BY <1>1, <1>2, ConstantsAssumption

LEMMA TopIsOneOf ==
    ASSUME NEW S \in SUBSET Archives, Top(S) # Nothing
    PROVE  Top(S) \in S
BY DEF Top, Highest

(* What a game path holds depends on its Loose Asset and its providers.    *)
LEMMA SameTree ==
    ASSUME NEW p \in Paths, loose'[p] = loose[p], Providers(p)' = Providers(p),
           \A a \in Providers(p) : bytes'[a] = bytes[a]
    PROVE  Effective(p)' = Effective(p)
<1>1. Providers(p) \in SUBSET Archives
  BY DEF Providers
<1>2. Top(Providers(p))' = Top(Providers(p))
  BY DEF Top, Highest
<1>3. Top(Providers(p)) # Nothing
        => bytes'[Top(Providers(p))] = bytes[Top(Providers(p))]
  BY <1>1, TopIsOneOf
<1>4. QED
  BY <1>2, <1>3 DEF Effective

(* An Archive that won a game path is the highest that provides it.        *)
LEMMA WinnerIsTop ==
    ASSUME TypeOK, ExtractionInv, unread = {}, NEW p \in Paths \ disturbed,
           first[p] # Nothing, loose[p] = 0
    PROVE  first[p] \in Archives /\ Highest(first[p], Providers(p))
<1>1. first[p] \in Archives /\ first[p] \in Providers(p)
  BY DEF TypeOK, ExtractionInv, DecisionsStand
<1>2. \A a \in Providers(p) : a \in Archives /\ p \in manifest[a]
  BY DEF ExtractionInv, DecisionsStand, Decided, Providers
<1>3. \A a \in Providers(p) : Rank[a] <= Rank[first[p]]
  BY <1>2 DEF ExtractionInv, PlanOfStage
<1>4. QED
  BY <1>1, <1>3 DEF Highest

(* An entry is published where the same bytes were the Archive's.          *)
LEMMA PublicationKeepsTheTree ==
    ASSUME TypeOK, SourceOfStage, ExtractionInv, At("merge"), NEW p \in left,
           PublishEntry(p), UNCHANGED <<bytes, entries>>, NEW q \in Paths \ disturbed
    PROVE  Effective(q)' = Effective(q)
<1>1. /\ source \in Archives /\ Nothing \notin Archives /\ unread = {} /\ p \in Paths
      /\ first[p] = source /\ pin.bytes = bytes[source] /\ pin.bytes # 0
  BY ConstantsAssumption DEF TypeOK, SourceOfStage, ExtractionInv, At, Attempting, Merging,
     PlanOfStage, MergeOfStage, MergeEntries
<1>2. loose[p] = 0 /\ loose' = [loose EXCEPT ![p] = pin.bytes]
  BY DEF PublishEntry
<1>3. Providers(q)' = Providers(q)
  BY DEF Providers
<1>4. CASE q # p
  BY <1>2, <1>3, <1>4, SameTree DEF TypeOK
<1>5. CASE q = p
  <2>1. Top(Providers(p)) = source
    <3>1. Highest(source, Providers(p))
      BY <1>1, <1>2, <1>5, WinnerIsTop
    <3>2. Providers(p) \in SUBSET Archives
      BY DEF Providers
    <3>3. QED
      BY <1>1, <3>1, <3>2, TopIs
  <2>2. Effective(p) = pin.bytes
    BY <1>1, <1>2, <2>1 DEF Effective
  <2>3. loose'[p] = pin.bytes
    BY <1>1, <1>2 DEF TypeOK
  <2>4. Effective(p)' = pin.bytes
    BY <1>1, <2>3 DEF Effective
  <2>5. QED
    BY <1>5, <2>2, <2>4
<1>6. QED
  BY <1>4, <1>5

(* A source is taken away when nothing is left that it alone provides.     *)
LEMMA CleanupKeepsTheTree ==
    ASSUME TypeOK, SourceOfStage, ExtractionInv, At("cleanup"), TakeAway,
           UNCHANGED <<loose, entries>>, NEW p \in Paths \ disturbed
    PROVE  Effective(p)' = Effective(p)
<1>1. /\ source \in Archives /\ Nothing \notin Archives /\ unread = {}
      /\ entries[source] = manifest[source]
  BY ConstantsAssumption DEF TypeOK, SourceOfStage, ExtractionInv, At, Attempting, Merging,
     PlanOfStage, MergeOfStage, TakeAway, Unchanged
<1>2. bytes' = [bytes EXCEPT ![source] = 0]
  BY DEF TakeAway
<1>3. Providers(p)' = Providers(p) \ {source}
  BY <1>1, <1>2 DEF Providers, TypeOK
<1>4. CASE loose[p] # 0
  BY <1>4 DEF Effective
<1>5. CASE source \notin Providers(p)
  <2>1. \A a \in Providers(p) : bytes'[a] = bytes[a]
    BY <1>2, <1>5 DEF Providers, TypeOK
  <2>2. QED
    BY <1>3, <1>5, <2>1, SameTree
<1>6. CASE loose[p] = 0 /\ source \in Providers(p)
  <2>1. p \in manifest[source]
    BY <1>1, <1>6 DEF Providers
  <2>2. first[p] # Nothing
    BY <1>1, <2>1 DEF ExtractionInv, PlanOfStage
  <2>3. first[p] # source
    BY <1>6, WinnersAreLoose DEF At
  <2>4. first[p] \in Archives /\ Highest(first[p], Providers(p))
    BY <1>1, <1>6, <2>2, WinnerIsTop
  <2>5. Highest(first[p], Providers(p)')
    BY <1>3, <2>3, <2>4 DEF Highest
  <2>6. Providers(p) \in SUBSET Archives /\ Providers(p)' \in SUBSET Archives
    BY <1>3 DEF Providers
  <2>7. Top(Providers(p)) = first[p] /\ Top(Providers(p)') = first[p]
    BY <2>4, <2>5, <2>6, TopIs
  <2>8. Top(Providers(p))' = Top(Providers(p)')
    BY DEF Top, Highest
  <2>9. bytes'[first[p]] = bytes[first[p]]
    BY <1>2, <2>3, <2>4 DEF TypeOK
  <2>10. QED
    BY <2>7, <2>8, <2>9 DEF Effective
<1>7. QED
  BY <1>4, <1>5, <1>6

(* No step of extraction changes what a game path holds.                   *)
THEOREM TreeIsKept == Spec => KeepsTheTree
<1> DEFINE Kept == Foreign \/ \A p \in Paths \ disturbed : Effective(p)' = Effective(p)
<1>1. TypeOK /\ SourceOfStage /\ ExtractionInv /\ [Next]_vars => [Kept]_vars
  <2> SUFFICES ASSUME TypeOK, SourceOfStage, ExtractionInv, Next PROVE Kept
    OBVIOUS
  <2>1. CASE UNCHANGED <<loose, bytes, entries>>
    BY <2>1, SameTree DEF Providers
  <2>2. CASE MergeEntry
    <3>1. CASE \E p \in left : PublishEntry(p)
      BY <2>2, <3>1, PublicationKeepsTheTree DEF MergeEntry
    <3>2. CASE UNCHANGED loose
      BY <2>1, <2>2, <3>2 DEF MergeEntry
    <3>3. QED
      BY <2>2, <3>1, <3>2 DEF MergeEntry
  <2>3. CASE CleanUpSource
    <3>1. CASE TakeAway
      BY <2>3, <3>1, CleanupKeepsTheTree DEF CleanUpSource
    <3>2. CASE UNCHANGED bytes
      BY <2>1, <2>3, <3>2 DEF CleanUpSource
    <3>3. QED
      BY <2>3, <3>1, <3>2 DEF CleanUpSource
  <2>4. CASE Foreign
    BY <2>4
  <2>5. CASE \/ Walk \/ ReadManifest \/ FreezeWinners \/ StopPreflight \/ NextArchive
             \/ PinSource \/ StageEntries \/ JudgeCleanup \/ RequestCancel
    BY <2>1, <2>5 DEF Walk, ReadManifest, FreezeWinners, StopPreflight, Reading, disk,
       NextArchive, PinSource, StageEntries, JudgeCleanup, RequestCancel
  <2>6. QED
    BY <2>2, <2>3, <2>4, <2>5 DEF Next, Extract
<1>2. QED
  BY <1>1, ExtractionInvariant, PTL DEF Spec, KeepsTheTree

=============================================================================
