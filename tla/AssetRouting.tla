---------------------------- MODULE AssetRouting ----------------------------
(* The choices of a run, from the options form to the Routing Ledger: which *)
(* work the form asks for, what the Admission Rules hold back, what the     *)
(* window shows of them, which conflicts compiling a Routing Policy finds,  *)
(* and what the policy decides for each path.  Everything here is a pure    *)
(* function; RunPlanning drives it.                                         *)
(*                                                                          *)
(* A path is its extension, the only part of it routing reads: one of the   *)
(* built-in extensions, the profile's Archive extension or another.         *)
EXTENDS Integers, Sequences, FiniteSets, SequencesExt

Works == {"native", "standard", "terrain", "animation", "extraction", "creation"}

(* Each explicit work choice needs the capability of its own name; two      *)
(* capabilities belong to no choice.                                        *)
Capabilities == Works \cup {"conversion", "maintenance"}

KindOf ==
  [native |-> "texture", conversion |-> "texture",
   standard |-> "mesh", terrain |-> "mesh", maintenance |-> "mesh",
   animation |-> "animation", extraction |-> "archive", creation |-> "archive"]

(* The work that targets one Asset Variant of its Kind.                     *)
VariantWork == {"native", "standard", "terrain"}

BuiltIn ==
  [dds |-> "texture", tga |-> "texture", nif |-> "mesh", btr |-> "mesh",
   bto |-> "mesh", hkx |-> "animation"]

Meshes == {e \in DOMAIN BuiltIn : BuiltIn[e] = "mesh"}

(* A path without an extension, or a profile without an Archive extension.  *)
NoExtension == "none"
Malformed == "malformed"

-----------------------------------------------------------------------------
(* Admission Rules                                                          *)

Levels == 0 .. 3
Necessary == 1
Full == 3

(* What a run may ask for: capabilities are those of the profile the caller *)
(* knows, and every capability when it knows none.                          *)
Admission(mode, known) ==
  [work |-> Works \cap known,
   level |-> IF mode = "several" THEN Necessary ELSE Full]

Groups == {"textures", "meshes", "animations", "extract", "create"}

WorkOf ==
  [textures |-> {"native"}, meshes |-> {"standard", "terrain"},
   animations |-> {"animation"}, extract |-> {"extraction"}, create |-> {"creation"}]

RequestsMeshWork(form) == form.level > 0 \/ form.resave

Chosen(form) ==
  {g \in Groups :
     \/ g = "textures" /\ (form.process \/ form.size # "off" \/ form.ratio # "off")
     \/ g = "meshes" /\ RequestsMeshWork(form)
     \/ g \in {"animations", "extract", "create"} /\ g \in form.boxes}

HeldBack(group, admission) == WorkOf[group] \cap admission.work = {}

-----------------------------------------------------------------------------
(* The Run Request                                                          *)

RatioError(form) == IF form.ratio = "zero" THEN "ResizeRatio" ELSE "none"

SizeError(form) == IF form.size \in {"zero", "odd"} THEN "ResizeSize" ELSE "none"

(* Ratio wins over size when both are on, and only the one used is checked. *)
ResizeError(form) == IF form.ratio # "off" THEN RatioError(form) ELSE SizeError(form)

(* The first reason the form cannot start a run.                            *)
SetupError(form) ==
  IF form.mode \notin {"single", "several"} THEN "UnsupportedMode"
  ELSE IF form.folder = "relative" THEN "RelativeSelection"
  ELSE IF ResizeError(form) # "none" THEN ResizeError(form)
  ELSE IF form.level \notin Levels THEN "MeshLevel"
  ELSE "none"

(* A Mod Selection of several mods carries a level of Necessary at most,    *)
(* whatever capabilities the caller knew.                                   *)
Capped(level, mode) ==
  IF level <= Admission(mode, Capabilities).level
    THEN level ELSE Admission(mode, Capabilities).level

AskedWork(form) == UNION {WorkOf[g] : g \in Chosen(form)}

(* Mutant: the request asks for whatever the form chooses.                  *)
UnadmittedRequest(form, known) ==
  [mode |-> form.mode, dry |-> form.dry, work |-> AskedWork(form),
   level |-> Capped(form.level, form.mode)]

RunRequest(form, known) ==
  [mode |-> form.mode, dry |-> form.dry,
   work |-> AskedWork(form) \cap Admission(form.mode, known).work,
   level |-> Capped(form.level, form.mode)]

-----------------------------------------------------------------------------
(* What the window shows                                                    *)

AssetTabs == {"Bsa", "Meshes", "Textures", "Animations"}
Tabs == AssetTabs \cup {"Log"}

GroupsOf ==
  [Bsa |-> {"extract", "create"}, Meshes |-> {"meshes"},
   Textures |-> {"textures"}, Animations |-> {"animations"}, Log |-> {}]

(* Mutant: the rules of the window forget the mode.                         *)
OneMod(form) == "single"

(* A combo that shows no mode reads as one mod.                             *)
ChosenMode(form) == IF form.mode = "several" THEN "several" ELSE "single"

WindowAdmission(form, known) == Admission(ChosenMode(form), known)

EnabledUnder(tab, admission) ==
  tab = "Log" \/ \E g \in GroupsOf[tab] : ~HeldBack(g, admission)

(* A profile whose file could not be read enables no asset tab, although    *)
(* its admission holds nothing back.                                        *)
TabEnabled(tab, admission, settingsRead) ==
  tab = "Log" \/ (settingsRead /\ EnabledUnder(tab, admission))

(* The controls forced to show something other than the user's choice.      *)
ControlState(admission) ==
  [extractOff |-> HeldBack("extract", admission),
   createOff |-> HeldBack("create", admission),
   deleteBackupsOff |-> HeldBack("extract", admission),
   necessaryForced |-> admission.level = Necessary]

-----------------------------------------------------------------------------
(* Compiling the Routing Policy                                             *)

(* The capabilities the settings of a profile declare: reference maintenance *)
(* belongs to Texture conversion.                                           *)
CapabilitiesOf(enabled) ==
  (IF "textures" \in enabled THEN {"native", "conversion", "maintenance"} ELSE {})
  \cup (IF "meshes" \in enabled THEN {"standard", "terrain"} ELSE {})
  \cup (IF "animations" \in enabled THEN {"animation"} ELSE {})
  \cup (IF "archives" \in enabled THEN {"extraction", "creation"} ELSE {})

SupportsKind(profile, kind) ==
  \E c \in profile.supports : KindOf[c] = kind

ExtensionConflicts(profile) ==
  {[cause |-> "extension", error |-> e] : e \in
     (IF profile.extension = NoExtension THEN {"MissingArchiveExtension"} ELSE {})
     \cup (IF profile.extension = Malformed THEN {"MalformedArchiveExtension"} ELSE {})
     \cup (IF profile.extension \in DOMAIN BuiltIn THEN {"AmbiguousArchiveExtension"} ELSE {})}

(* A Kind the profile cannot handle at all is reported as such, even for    *)
(* Variant work.                                                            *)
WorkConflicts(work, profile) ==
  {[cause |-> w,
    error |-> IF w \in VariantWork /\ SupportsKind(profile, KindOf[w])
                THEN "UnsupportedRequestedAssetVariant"
                ELSE "UnsupportedRequestedAssetKind"] : w \in work \ profile.supports}

(* Conversion is derived, never requested; a preference the profile cannot  *)
(* honour is not a conflict.                                                *)
Converts(work, profile) ==
  profile.prefers /\ "native" \in work /\ "conversion" \in profile.supports

DerivedConflicts(work, profile) ==
  IF Converts(work, profile) /\ "maintenance" \notin profile.supports
    THEN {[cause |-> "native", error |-> "UnsupportedDerivedOperation"]} ELSE {}

Conflicts(work, profile) ==
  ExtensionConflicts(profile) \cup WorkConflicts(work, profile)
    \cup DerivedConflicts(work, profile)

Policy(work, profile) ==
  [work |-> work, converts |-> Converts(work, profile), extension |-> profile.extension]

MaintainsMeshReferences(policy) == policy.converts

KindHasWork(policy, kind) ==
  \/ kind = "texture" /\ ("native" \in policy.work \/ policy.converts)
  \/ kind = "mesh" /\ ( \/ {"standard", "terrain"} \cap policy.work # {}
                        \/ MaintainsMeshReferences(policy))
  \/ kind = "animation" /\ "animation" \in policy.work
  \/ kind = "archive" /\ "extraction" \in policy.work

-----------------------------------------------------------------------------
(* Routing one path, and every path once                                    *)

OptimizedBy ==
  [dds |-> "native", nif |-> "standard", btr |-> "terrain", bto |-> "terrain",
   hkx |-> "animation"]

IsArchive(policy, e) == e \notin DOMAIN BuiltIn /\ e = policy.extension

Recognized(policy, e) == e \in DOMAIN BuiltIn \/ IsArchive(policy, e)

KindOfPath(policy, e) == IF e \in DOMAIN BuiltIn THEN BuiltIn[e] ELSE "archive"

(* Mutant: only Meshes to optimize are maintained.                          *)
MaintainsOptimized(policy, e) ==
  (IF e \in DOMAIN OptimizedBy /\ OptimizedBy[e] \in policy.work THEN {"optimization"} ELSE {})
  \cup (IF e = "tga" /\ policy.converts THEN {"conversion"} ELSE {})
  \cup (IF /\ e \in Meshes /\ OptimizedBy[e] \in policy.work
            /\ MaintainsMeshReferences(policy) THEN {"maintenance"} ELSE {})
  \cup (IF IsArchive(policy, e) /\ "extraction" \in policy.work THEN {"extraction"} ELSE {})

Operations(policy, e) ==
  (IF e \in DOMAIN OptimizedBy /\ OptimizedBy[e] \in policy.work
     THEN {"optimization"} ELSE {})
  \cup (IF e = "tga" /\ policy.converts THEN {"conversion"} ELSE {})
  \cup (IF e \in Meshes /\ MaintainsMeshReferences(policy)
          THEN {"maintenance"} ELSE {})
  \cup (IF IsArchive(policy, e) /\ "extraction" \in policy.work
          THEN {"extraction"} ELSE {})

Phase(policy, e) ==
  IF IsArchive(policy, e) THEN "ArchiveExtraction" ELSE "LooseAssetProcessing"

SkipReason(policy, e) ==
  IF KindHasWork(policy, KindOfPath(policy, e))
    THEN "ExcludedAssetVariant" ELSE "DisabledAssetKind"

Route(policy, e) ==
  IF ~Recognized(policy, e) THEN [disposition |-> "unsupported"]
  ELSE IF Operations(policy, e) # {}
    THEN [disposition |-> "routed", kind |-> KindOfPath(policy, e), path |-> e,
          phase |-> Phase(policy, e), operations |-> Operations(policy, e)]
    ELSE [disposition |-> "skipped", reason |-> SkipReason(policy, e)]

SkipReasons == {"DisabledAssetKind", "ExcludedAssetVariant"}

EmptyLedger == [routed |-> <<>>, skipped |-> [r \in SkipReasons |-> 0]]

Recorded(ledger, decision) ==
  IF decision.disposition = "routed"
    THEN [ledger EXCEPT !.routed = Append(@, decision)]
  ELSE IF decision.disposition = "skipped"
    THEN [ledger EXCEPT !.skipped[decision.reason] = @ + 1]
  ELSE ledger

(* Routed Assets keep the caller's order, duplicates included; exclusions   *)
(* are only counted, and unsupported paths leave no trace.                  *)
RouteAll(policy, paths) ==
  FoldLeft(LAMBDA ledger, e : Recorded(ledger, Route(policy, e)), EmptyLedger, paths)

(* The places in the ledger of the Routed Assets of one phase.              *)
RoutedInPhase(ledger, phase) ==
  {m \in DOMAIN ledger.routed : ledger.routed[m].phase = phase}

=============================================================================
