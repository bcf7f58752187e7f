---------------------------- MODULE ModSelection ----------------------------
(* Mod Selection resolution: the part of Preparing that turns the selected  *)
(* directory into the canonical Mod Roots a run processes.  A cancellation  *)
(* may be requested between any two steps.                                  *)
(*                                                                          *)
(* A directory is a member of Dirs, compared by identity as the code does;  *)
(* Above[d] is d with its ancestors.  An entry of the mods directory is the *)
(* directory it resolves to, through links, or a reason it is none.         *)
EXTENDS Naturals, Sequences, FiniteSets, SequencesExt

CONSTANTS
  Dirs,          \* directories
  Above,         \* [Dirs -> SUBSET Dirs]: a directory with its ancestors
  FileRoots,     \* directories without a parent
  ModsDir,       \* the selected directory
  NameOrder,     \* entry names, in the order of their folded names
  Separators,    \* names that end in _separator
  Ignored,       \* names the profile ignores, once folded
  Reserved,      \* names in the staging namespace
  Unset

Names == {NameOrder[i] : i \in DOMAIN NameOrder}

ASSUME DirsAssumption ==
  /\ \A d \in Dirs : d \in Above[d] /\ Above[d] \subseteq Dirs
  /\ FileRoots = {d \in Dirs : Above[d] = {d}}
  /\ ModsDir \in Dirs \ FileRoots
  /\ NameOrder \in Seq(Names)

NotDirectories == {"absent", "file", "dangling", "denied"}

VARIABLES
  selection,     \* Unset, or what the request selects and what is there
  walk,          \* "idle", "listing", "resolving" or "done"
  unlisted,      \* names the listing has not reached
  children,      \* child directories found; then those left to resolve
  roots,         \* Mod Roots accepted so far
  exclusions,    \* Mod Exclusions recorded, in order
  resolution,    \* "none", "roots", or a failure code
  stop           \* cancellation was requested

selectionVars ==
  <<selection, walk, unlisted, children, roots, exclusions, resolution, stop>>

SelectionInit ==
  /\ selection = Unset
  /\ walk = "idle"
  /\ unlisted = {}
  /\ children = <<>>
  /\ roots = <<>>
  /\ exclusions = <<>>
  /\ resolution = "none"
  /\ stop = FALSE

-----------------------------------------------------------------------------
ContainsDirectory(boundary, directory) == boundary \in Above[directory]

(* Mutant: only a root inside an earlier one is an overlap.                 *)
Inside(a, b) == ContainsDirectory(a, b)

Overlap(a, b) == ContainsDirectory(a, b) \/ ContainsDirectory(b, a)

IsDirectory(name) == selection.entries[name] \notin NotDirectories

(* The separator rule comes first, so a child owes one exclusion at most.   *)
ModExclusion(name) ==
  IF name \in Separators THEN "SeparatorModExcluded"
  ELSE IF name \in Ignored THEN "IgnoredModExcluded"
  ELSE "none"

Finish(result, found) ==
  /\ walk' = "done"
  /\ resolution' = result
  /\ roots' = found
  /\ unlisted' = {}
  /\ children' = <<>>

(* Failures return no roots; the diagnostics recorded stay.                 *)
Fail(code) == Finish(code, <<>>)

(* A cancellation returns what was found, an empty list, and the caller     *)
(* discards it.                                                             *)
Stopped == Finish("roots", <<>>)

(* One mod resolves to itself; a missing directory, a file or a filesystem  *)
(* root cannot be selected.                                                 *)
Select(several, selected, entries) ==
  /\ walk = "idle"
  /\ selection' = [several |-> several, selected |-> selected, entries |-> entries]
  /\ \/ /\ selected # "directory"
        /\ Fail("ModSelectionResolutionFailed")
     \/ /\ selected = "directory" /\ ~several
        /\ Finish("roots", <<ModsDir>>)
     \/ /\ selected = "directory" /\ several
        /\ walk' = "listing"
        /\ unlisted' = {n \in Names : entries[n] # "absent"}
        /\ UNCHANGED <<children, roots, resolution>>
  /\ UNCHANGED <<exclusions, stop>>

(* One entry of the mods directory, in the order the filesystem gives.      *)
ListEntry(name) ==
  /\ walk = "listing"
  /\ name \in unlisted
  /\ \/ stop /\ Stopped
     \/ /\ ~stop /\ name \notin Reserved /\ selection.entries[name] = "denied"
        /\ Fail("ModSelectionResolutionFailed")
     \/ /\ ~stop /\ (name \in Reserved \/ selection.entries[name] # "denied")
        /\ unlisted' = unlisted \ {name}
        /\ children' = IF name \notin Reserved /\ IsDirectory(name)
                         THEN Append(children, name) ELSE children
        /\ UNCHANGED <<walk, roots, resolution>>
  /\ UNCHANGED <<selection, exclusions, stop>>

Position(name) == CHOOSE i \in DOMAIN NameOrder : NameOrder[i] = name

(* Entry names define the run order; link targets do not.                   *)
SortChildren ==
  /\ walk = "listing"
  /\ unlisted = {}
  /\ walk' = "resolving"
  /\ \E order \in [1 .. Len(children) -> ToSet(children)] :
       /\ \A i, j \in DOMAIN order : i < j => Position(order[i]) < Position(order[j])
       /\ children' = order
  /\ UNCHANGED <<selection, unlisted, roots, exclusions, resolution, stop>>

(* Neither the mods directory nor anything above it may become a Mod Root.  *)
Unsafe(target) == target \in FileRoots \/ ContainsDirectory(target, ModsDir)

ResolveChild ==
  /\ walk = "resolving"
  /\ children # <<>>
  /\ LET name == Head(children)
         target == selection.entries[name]
     IN \/ /\ stop /\ Stopped /\ UNCHANGED exclusions
        \/ /\ ~stop /\ ModExclusion(name) # "none"
           /\ exclusions' = Append(exclusions, [name |-> name, code |-> ModExclusion(name)])
           /\ children' = Tail(children)
           /\ UNCHANGED <<walk, unlisted, roots, resolution>>
        \/ /\ ~stop /\ ModExclusion(name) = "none"
           /\ Unsafe(target) /\ Fail("ModSelectionResolutionFailed")
           /\ UNCHANGED exclusions
        \/ /\ ~stop /\ ModExclusion(name) = "none" /\ ~Unsafe(target)
           /\ \E i \in DOMAIN roots : Overlap(roots[i], target)
           /\ Fail("ConflictingModRoots")
           /\ UNCHANGED exclusions
        \/ /\ ~stop /\ ModExclusion(name) = "none" /\ ~Unsafe(target)
           /\ ~ \E i \in DOMAIN roots : Overlap(roots[i], target)
           /\ roots' = Append(roots, target)
           /\ children' = Tail(children)
           /\ UNCHANGED <<walk, unlisted, exclusions, resolution>>
  /\ UNCHANGED <<selection, stop>>

EndResolution ==
  /\ walk = "resolving"
  /\ children = <<>>
  /\ Finish("roots", roots)
  /\ UNCHANGED <<selection, exclusions, stop>>

(* Any directory lookup may fail, and uncertain containment fails Preparing. *)
LookupFails ==
  /\ walk \in {"listing", "resolving"}
  /\ Fail("ModSelectionResolutionFailed")
  /\ UNCHANGED <<selection, exclusions, stop>>

Cancel ==
  /\ ~stop
  /\ stop' = TRUE
  /\ UNCHANGED <<selection, walk, unlisted, children, roots, exclusions, resolution>>

SelectionStep ==
  \/ \E n \in Names : ListEntry(n)
  \/ SortChildren \/ ResolveChild \/ EndResolution \/ LookupFails

-----------------------------------------------------------------------------
(* The members of chosen, once each, in the order of their folded names.    *)
InNameOrder(names, chosen) ==
  /\ ToSet(names) = chosen
  /\ \A i, j \in DOMAIN names : i < j => Position(names[i]) < Position(names[j])

ChildDirectories == {n \in Names : n \notin Reserved /\ IsDirectory(n)}

Excluded(names) == {n \in names : ModExclusion(n) # "none"}

RootsStandApart ==
  /\ \A i, j \in DOMAIN roots : i # j => ~Overlap(roots[i], roots[j])
  /\ \A i \in DOMAIN roots : ~ContainsDirectory(roots[i], ModsDir)

(* Of the child directories in names, each is a root or owes its exclusion. *)
Accounts(names) ==
  /\ \E accepted \in [DOMAIN roots -> names \ Excluded(names)] :
       /\ InNameOrder(accepted, names \ Excluded(names))
       /\ \A i \in DOMAIN roots : roots[i] = selection.entries[accepted[i]]
  /\ InNameOrder([i \in DOMAIN exclusions |-> exclusions[i].name], Excluded(names))
  /\ \A i \in DOMAIN exclusions : exclusions[i].code = ModExclusion(exclusions[i].name)

(* When Preparing accepts a selection of several mods: no accepted root     *)
(* holds another or the mods directory itself, so no file is processed      *)
(* twice; and every child directory is one root, or owes one exclusion, in  *)
(* name order.                                                              *)
RootsAreSafe ==
  resolution = "roots" /\ ~stop /\ selection # Unset /\ selection.several =>
    RootsStandApart /\ Accounts(ChildDirectories)

=============================================================================
