--------------------------- MODULE MCRunPlanning ---------------------------
(* Small instances of RunPlanning for TLC. *)
EXTENDS RunPlanning

CONSTANTS v1, v2

MCAbove == [vol |-> {"vol"}, mods |-> {"vol", "mods"}, a |-> {"vol", "mods", "a"},
            sub |-> {"vol", "mods", "a", "sub"}, b |-> {"vol", "mods", "b"}]
MCNameOrder == <<"cao_staging", "alpha", "beta", "gamma_separator", "ignored">>

(* alpha and beta may link anywhere; the others are plain or missing. *)
MCWorlds ==
  {[cao_staging |-> v, alpha |-> x, beta |-> y, gamma_separator |-> z, ignored |-> w] :
     v \in {"absent", "denied"}, x \in {"a", "sub", "mods", "vol", "dangling"},
     y \in {"absent", "a", "b", "file", "denied"}, z \in {"absent", "b"}, w \in {"absent", "a"}}

BaseForm ==
  [mode |-> "single", folder |-> "absolute", dry |-> FALSE, process |-> FALSE,
   size |-> "off", ratio |-> "off", level |-> 0, resave |-> FALSE, boxes |-> {}]

(* Every combination of groups under both modes, then one form for each way *)
(* a form is refused.                                                       *)
MCForms ==
  {[BaseForm EXCEPT !.mode = m, !.dry = d, !.process = t, !.level = l, !.boxes = b] :
     m \in {"single", "several"}, d \in {FALSE}, t \in BOOLEAN, l \in {0, 2},
     b \in SUBSET {"animations", "extract", "create"}}
  \cup {[BaseForm EXCEPT !.dry = TRUE, !.boxes = {"extract"}, !.mode = m] : m \in {"single", "several"}}
  \cup {[BaseForm EXCEPT !.resave = TRUE, !.mode = m, !.size = s, !.ratio = r] :
          m \in {"several", "unsupported"}, s \in {"off", "zero", "odd", "even"},
          r \in {"off", "zero", "valid"}}
  \cup {[BaseForm EXCEPT !.level = l] : l \in {-1, 4}}
  \cup {[BaseForm EXCEPT !.folder = f] : f \in {"empty", "relative"}}

(* Profiles as their settings declare them, and others a provider may give. *)
Supports ==
  {CapabilitiesOf(e) : e \in {{}, {"textures"}, {"textures", "archives"}, {"meshes", "animations"},
                              {"textures", "meshes", "animations", "archives"}}}
  \cup {Capabilities \ {"maintenance"}, Works \ {"terrain"}, {"conversion", "extraction"}}

MCProfiles ==
  {[supports |-> s, prefers |-> p, extension |-> "bsa"] : s \in Supports, p \in BOOLEAN}
  \cup {[supports |-> Capabilities, prefers |-> FALSE, extension |-> e] :
          e \in {"none", "malformed", "dds"}}

(* The window may have read nothing, or settings changed since. *)
MCKnowledge ==
  {[read |-> FALSE, supports |-> Capabilities],
   [read |-> TRUE, supports |-> CapabilitiesOf({"meshes", "archives"})]}

MCPaths ==
  {<<"dds", "tga", "nif", "btr", "bto", "hkx", "bsa", "txt", "none">>,
   <<"btr", "bsa", "bsa", "tga", "nif", "nif">>}

(* Up to the names of the volumes: b shares the volume of a, or does not. *)
MCHomes == {[mods |-> v1, a |-> v1, sub |-> v1, b |-> v] : v \in {v1, v2}}
=============================================================================
