---------------------------- MODULE RunPlanning ----------------------------
(* A run from the options form to its Archive work: the Run Request the     *)
(* window builds, Preparing (the profile read, the Routing Policy, the Mod  *)
(* Roots), the Routing Ledger and the Capacity Checks.  The window may have *)
(* read the profile before it changed: Preparing's read has the last word.  *)
(*                                                                          *)
(* Once the ledger is made the run only needs plan: the form and the        *)
(* profile are then dropped, so that the states to come do not repeat for   *)
(* each of them.                                                            *)
EXTENDS AssetRouting, ModSelection, CapacityCheck

CONSTANTS
  Forms,         \* options forms
  Profiles,      \* profiles Preparing may read
  Knowledge,     \* what the window may hold of the profile
  Worlds,        \* what the entries of the mods directory may be
  Paths,         \* lists of paths to route
  MaxChecks      \* bound on the checks begun after the preflight

ASSUME RootsAssumption == Roots = Dirs \ FileRoots

ASSUME InputsAssumption ==
  /\ \A f \in Forms : f.dry \in BOOLEAN
  /\ Paths \subseteq Seq(STRING)
  /\ Worlds \subseteq [Names -> Dirs \cup NotDirectories]
  /\ Checkers # {}

VARIABLES
  phase,         \* how far the run has come
  form,          \* the options form at Start
  known,         \* [read, supports]: what the window read of the profile
  profile,       \* the profile Preparing reads
  request,       \* the Run Request
  policy,        \* the compiled Routing Policy
  plan,          \* what the later phases need: several mods, Dry Run, extraction
  checks         \* later checks begun

runVars == <<phase, form, known, profile, request, policy, plan, checks>>

vars == <<runVars, selectionVars, capacityVars>>

Preflighter == CHOOSE c \in Checkers : TRUE

Ended == {"refused", "failed", "cancelled"}

Init ==
  /\ phase = "form"
  /\ form \in Forms
  /\ profile \in Profiles
  /\ known \in Knowledge \cup {[read |-> TRUE, supports |-> profile.supports]}
  /\ request = Unset
  /\ policy = Unset
  /\ plan = Unset
  /\ checks = 0
  /\ SelectionInit
  /\ CapacityInit

(* The window reads no profile file: it asks with the capabilities it       *)
(* holds.  The service refuses a request without a folder.                  *)
StartRun ==
  /\ phase = "form"
  /\ \/ /\ SetupError(form) # "none" \/ form.folder = "empty"
        /\ phase' = "refused"
        /\ UNCHANGED request
     \/ /\ SetupError(form) = "none" /\ form.folder # "empty"
        /\ request' = RunRequest(form, known.supports)
        /\ phase' = "loading"
  /\ UNCHANGED <<form, known, profile, policy, plan, checks, selectionVars, capacityVars>>

(* The provider may fail or panic; a cancellation during its read is seen   *)
(* before anything more is compiled or resolved.                            *)
LoadProfile ==
  /\ phase = "loading"
  /\ phase' \in {"failed", IF stop THEN "cancelled" ELSE "compiling"}
  /\ UNCHANGED <<form, known, profile, request, policy, plan, checks, selectionVars,
                 capacityVars>>

CompilePolicy ==
  /\ phase = "compiling"
  /\ \/ /\ Conflicts(request.work, profile) # {}
        /\ phase' = "failed"
        /\ UNCHANGED policy
     \/ /\ Conflicts(request.work, profile) = {}
        /\ policy' = Policy(request.work, profile)
        /\ phase' = "compiled"
  /\ UNCHANGED <<form, known, profile, request, plan, checks, selectionVars, capacityVars>>

(* Resolving begins; what it selects and finds is chosen here.              *)
ResolveModRoots ==
  /\ phase = "compiled"
  /\ phase' = "resolving"
  /\ plan' = [dry |-> request.dry, extracts |-> "extraction" \in policy.work,
              works |-> request.work # {}]
  /\ \E selected \in {"directory", "missing", "fileRoot"}, entries \in Worlds :
       Select(request.mode = "several", selected, entries)
  /\ form' = Unset /\ known' = Unset /\ profile' = Unset
  /\ request' = Unset /\ policy' = Unset
  /\ UNCHANGED <<checks, capacityVars>>

Resolve ==
  /\ phase = "resolving"
  /\ SelectionStep
  /\ UNCHANGED <<runVars, capacityVars>>

(* Cancellation is looked at again when resolution returns.  A request      *)
(* without work skips every work phase.                                     *)
EndPreparing ==
  /\ phase = "resolving" /\ walk = "done"
  /\ phase' = IF resolution # "roots" THEN "failed"
              ELSE IF stop THEN "cancelled"
              ELSE IF plan.works THEN "planning" ELSE "skipped"
  /\ selection' = Unset /\ exclusions' = <<>>
  /\ UNCHANGED <<form, known, profile, request, policy, plan, checks, walk, unlisted,
                 children, roots, resolution, stop, capacityVars>>

-----------------------------------------------------------------------------
(* Archive discovery plans each Archive to extract and checks them all at   *)
(* once; with no plan no volume is probed.                                  *)
PlanExtraction ==
  /\ phase = "planning"
  /\ plan.extracts
  /\ \E r \in ToSet(roots), b \in Sizes : Estimate(Preflighter, r, b)
  /\ UNCHANGED <<runVars, selectionVars>>

Preflight ==
  /\ phase = "planning"
  /\ \/ /\ check[Preflighter].step = "idle"
        /\ phase' = "working"
        /\ UNCHANGED capacityVars
     \/ /\ Submit(Preflighter, "BeforeExtraction", plan.dry, NoRoot)
        /\ phase' = "preflight"
  /\ UNCHANGED <<form, known, profile, request, policy, plan, checks, selectionVars>>

EndPreflight ==
  /\ phase = "preflight"
  /\ EndCheck(Preflighter)
  /\ phase' = IF check[Preflighter].verdict = "FailRun" THEN "failed" ELSE "working"
  /\ UNCHANGED <<form, known, profile, request, policy, plan, checks, selectionVars>>

CheckCapacity ==
  /\ phase \in {"preflight", "working"}
  /\ \E c \in Checkers : CheckStep(c)
  /\ UNCHANGED <<runVars, selectionVars>>

(* Before creation the whole phase is checked, which is all a Dry Run does  *)
(* later; an Apply run checks each attempt again at its own root.           *)
BeginCheck(c) ==
  /\ phase = "working"
  /\ checks < MaxChecks
  /\ \/ /\ \E r \in ToSet(roots), b \in Sizes : Estimate(c, r, b)
        /\ UNCHANGED checks
     \/ /\ \/ Submit(c, "BeforeCreation", plan.dry, NoRoot)
           \/ ~plan.dry /\ \E r \in ToSet(roots) : Submit(c, "Recheck", FALSE, r)
        /\ checks' = checks + 1
  /\ UNCHANGED <<phase, form, known, profile, request, policy, plan, selectionVars>>

EndLaterCheck(c) ==
  /\ phase = "working"
  /\ EndCheck(c)
  /\ UNCHANGED <<runVars, selectionVars>>

RequestCancellation ==
  /\ phase \in {"loading", "compiling", "resolving"}
  /\ Cancel
  /\ UNCHANGED <<runVars, capacityVars>>

Next ==
  \/ StartRun \/ LoadProfile \/ CompilePolicy \/ ResolveModRoots \/ Resolve
  \/ EndPreparing \/ PlanExtraction \/ Preflight \/ EndPreflight \/ CheckCapacity
  \/ \E c \in Checkers : BeginCheck(c) \/ EndLaterCheck(c)
  \/ RequestCancellation

Spec == Init /\ [][Next]_vars

-----------------------------------------------------------------------------
(* A request asks for what the form chose and the window's profile could do, *)
(* and compiling refuses exactly the work the profile Preparing reads does  *)
(* not support: none at all while the window knew no more than that profile *)
(* supports.  A policy that compiles does all the request asks for, and     *)
(* nothing its profile does not support (run_request.rs, routing.rs).       *)
AdmittedWorkCompiles ==
  LET admitted == AskedWork(form) \cap known.supports
      refused == {c.cause : c \in WorkConflicts(request.work, profile)}
  IN /\ phase = "compiling" =>
          /\ request.work = admitted
          /\ refused = admitted \ profile.supports
          /\ known.supports \subseteq profile.supports => refused = {}
     /\ phase = "compiled" => policy.work = admitted /\ admitted \subseteq profile.supports

(* What the window shows of a profile it read is what the request carries:  *)
(* a disabled tab's groups and a box forced off are left out, an enabled    *)
(* tab's chosen group is asked for at least in part, and the Mesh level is  *)
(* within the radios left.                                                  *)
WindowShowsTheRun ==
  phase = "loading" =>
    LET admission == WindowAdmission(form, known.supports)
        forced == ControlState(admission)
    IN /\ known.read => \A tab \in AssetTabs :
            LET asked == request.work \cap UNION {WorkOf[g] : g \in GroupsOf[tab]}
            IN IF TabEnabled(tab, admission, known.read)
                 THEN asked # {} \/ \A g \in GroupsOf[tab] : g \in Chosen(form) => HeldBack(g, admission)
                 ELSE asked = {}
       /\ forced.extractOff => "extraction" \notin request.work
       /\ forced.createOff => "creation" \notin request.work
       /\ forced.necessaryForced => request.level <= Necessary
       /\ ~forced.necessaryForced => request.level = form.level

(* What a policy owes a path, told from the work and the paths it is about. *)
DoneOn ==
  [native |-> {"dds"}, standard |-> {"nif"}, terrain |-> {"btr", "bto"}, animation |-> {"hkx"}]

Owes(operation, e) ==
  \/ operation = "optimization" /\ \E w \in policy.work \cap DOMAIN DoneOn : e \in DoneOn[w]
  \/ operation = "conversion" /\ policy.converts /\ e = "tga"
  \/ operation = "maintenance" /\ policy.converts /\ e \in Meshes
  \/ operation = "extraction" /\ "extraction" \in policy.work /\ e = policy.extension

Owed(e) ==
  {operation \in {"optimization", "conversion", "maintenance", "extraction"} : Owes(operation, e)}

KindIsOwed(kind) ==
  \E e \in DOMAIN BuiltIn \cup {policy.extension} : KindOfPath(policy, e) = kind /\ Owed(e) # {}

(* The ledger is what the policy owes the paths.  A path that is owed       *)
(* something is routed once, in its place among those, to its phase and for *)
(* all it is owed: of Meshes, maintenance whenever Textures are converted,  *)
(* so that no reference to a new name is missed.  Any other path the policy *)
(* knows is counted once, as disabled exactly when no path of its Kind is   *)
(* owed anything (routing.rs route_all).                                    *)
LedgerIsHonest ==
  phase = "compiled" => \A paths \in Paths :
    LET ledger == RouteAll(policy, paths)
        owed == {i \in DOMAIN paths : Owed(paths[i]) # {}}
        idle == {i \in DOMAIN paths \ owed : Recognized(policy, paths[i])}
        disabled == {i \in idle : ~KindIsOwed(KindOfPath(policy, paths[i]))}
        place(i) == Cardinality(owed \cap (1 .. i))
    IN /\ Len(ledger.routed) = Cardinality(owed)
       /\ \A i \in owed :
            /\ ledger.routed[place(i)].path = paths[i]
            /\ ledger.routed[place(i)].operations = Owed(paths[i])
            /\ place(i) \in RoutedInPhase(ledger, "ArchiveExtraction")
                 <=> "extraction" \in Owed(paths[i])
       /\ ledger.skipped["DisabledAssetKind"] = Cardinality(disabled)
       /\ ledger.skipped["ExcludedAssetVariant"] = Cardinality(idle \ disabled)
=============================================================================
