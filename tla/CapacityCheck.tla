--------------------------- MODULE CapacityCheck ---------------------------
(* The Capacity Checks of one run: estimated Archive work compared with the *)
(* free space on each affected volume.  The checks share the identities of  *)
(* their roots' volumes, each frozen by the first answer recorded for it.   *)
(* The probe runs outside the lock, so two checks may ask for one root at   *)
(* once; it may fail or panic, and free space changes between samples.      *)
EXTENDS Naturals, Sequences, FiniteSets, FiniteSetsExt

CONSTANTS
  Roots,         \* Mod Roots
  Volumes,
  Homes,         \* the volumes the roots may be on
  Checkers,      \* checks that may run at once
  Sizes,         \* the estimates a caller may add, in bytes
  MaxBytes,      \* the largest byte count, at which sums saturate
  MaxEstimates,  \* bound on the estimates one demand is built from
  Unknown,       \* the answer of a probe that cannot answer
  Unasked,       \* no check has asked yet
  NoRoot

ASSUME BytesAssumption ==
  /\ MaxBytes \in Nat /\ Sizes \subseteq 0 .. MaxBytes
  /\ MaxEstimates \in Nat

ASSUME NamesAssumption ==
  /\ Homes \subseteq [Roots -> Volumes]
  /\ Unknown \notin Volumes \cup Nat /\ Unasked \notin Volumes \cup Nat
  /\ Unknown # Unasked
  /\ NoRoot \notin Roots

Stages == {"BeforeExtraction", "BeforeCreation", "Recheck"}

VARIABLES
  home,          \* the volume each root is really on
  frozen,        \* the identity each root is frozen to
  check          \* each checker's check

capacityVars == <<home, frozen, check>>

Answers == Volumes \cup {Unknown}

(* Mutant: sums wrap.                                                      *)
Wrapped(bytes) == bytes % (MaxBytes + 1)

Saturate(bytes) == IF bytes > MaxBytes THEN MaxBytes ELSE bytes

-----------------------------------------------------------------------------
(* Demand: each root once, in the order of first addition, with the total.  *)

EmptyDemand == [roots |-> <<>>, total |-> 0]

Add(demand, root, bytes) ==
  [roots |->
     IF \E i \in DOMAIN demand.roots : demand.roots[i].root = root
       THEN [i \in DOMAIN demand.roots |->
               IF demand.roots[i].root = root
                 THEN [root |-> root, bytes |-> Saturate(demand.roots[i].bytes + bytes)]
                 ELSE demand.roots[i]]
       ELSE Append(demand.roots, [root |-> root, bytes |-> bytes]),
   total |-> Saturate(demand.total + bytes)]

Entries(demand) == DOMAIN demand.roots

NonZero(demand) == {i \in Entries(demand) : demand.roots[i].bytes # 0}

SumOf(demand, charged) ==
  FoldSet(LAMBDA i, sum : Saturate(sum + demand.roots[i].bytes), 0, charged)

(* What a shortage means: the whole rule of stage and execution mode.       *)
Verdict(stage, dry) ==
  IF stage = "Recheck" THEN "FailWork"
  ELSE IF dry THEN "Warn"
  ELSE IF stage = "BeforeExtraction" THEN "FailRun"
  ELSE "FailWork"

-----------------------------------------------------------------------------
(* A check walks the roots it tests.  For the root at hand it looks up the  *)
(* root's own volume, then that of every entry with bytes, charging those   *)
(* that share it, and samples the root's free space.                        *)

Idle ==
  [step |-> "idle", stage |-> "Recheck", demand |-> EmptyDemand, tested |-> {},
   at |-> NoRoot, next |-> 0, volume |-> Unknown, charged |-> {},
   probed |-> Unknown, seen |-> [r \in Roots |-> Unasked], dry |-> FALSE,
   verdict |-> "none"]

CapacityInit ==
  /\ home \in Homes
  /\ frozen = [r \in Roots |-> Unasked]
  /\ check = [c \in Checkers |-> Idle]

Estimate(c, root, bytes) ==
  /\ check[c].step \in {"idle", "estimating"}
  /\ Len(check[c].demand.roots) < MaxEstimates
  /\ check' = [check EXCEPT ![c].step = "estimating",
                            ![c].demand = Add(@, root, bytes)]
  /\ UNCHANGED <<home, frozen>>

(* The roots with bytes of their own that a phase-wide check still has to   *)
(* test, or the one root an attempt's recheck names.                        *)
Submit(c, stage, dry, root) ==
  /\ check[c].step = "estimating"
  /\ (root = NoRoot) <=> (stage # "Recheck")
  /\ root # NoRoot => \E i \in Entries(check[c].demand) : check[c].demand.roots[i].root = root
  /\ check' = [check EXCEPT
       ![c].step = "next", ![c].stage = stage, ![c].dry = dry,
       ![c].tested = IF root = NoRoot THEN NonZero(check[c].demand)
                     ELSE {i \in Entries(check[c].demand) : check[c].demand.roots[i].root = root}]
  /\ UNCHANGED <<home, frozen>>

FirstTested(c) == CHOOSE i \in check[c].tested : \A j \in check[c].tested : i <= j

(* Grouping can only lower a requirement when another root has demand, so   *)
(* only then is a volume looked up.                                         *)
Alone(demand, root) ==
  \A i \in Entries(demand) : demand.roots[i].bytes = 0 \/ demand.roots[i].root = root

NextRoot(c) ==
  /\ check[c].step = "next"
  /\ \/ /\ check[c].tested = {}
        /\ check' = [check EXCEPT ![c].step = "done", ![c].verdict = "Fits"]
     \/ /\ check[c].tested # {}
        /\ LET i == FirstTested(c)
               root == check[c].demand.roots[i].root
               alone == Alone(check[c].demand, root)
           IN check' = [check EXCEPT
                ![c].step = IF alone THEN "sample" ELSE "peek",
                ![c].tested = @ \ {i}, ![c].at = root, ![c].next = 0,
                ![c].charged = IF alone THEN Entries(check[c].demand) ELSE {}]
  /\ UNCHANGED <<home, frozen>>

(* The root whose identity the check needs next.                            *)
Asked(c) ==
  IF check[c].step \in {"describe", "describing", "naming"} \/ check[c].next = 0
    THEN check[c].at ELSE check[c].demand.roots[check[c].next].root

(* Mutant: an entry on an unknown volume is taken to be elsewhere.          *)
UseKnownOnly(c, answer) ==
  LET demand == check[c].demand
      charged == IF check[c].next # 0 /\ answer = check[c].volume
                   THEN check[c].charged \cup {check[c].next} ELSE check[c].charged
      left == {i \in NonZero(demand) : i > check[c].next}
      whole == answer = Unknown /\ check[c].next = 0
  IN check' = [check EXCEPT
       ![c].volume = IF check[c].next = 0 THEN answer ELSE @,
       ![c].charged = IF whole THEN Entries(demand) ELSE charged,
       ![c].probed = Unknown,
       ![c].step = IF whole \/ left = {} THEN "sample" ELSE "peek",
       ![c].next = IF whole \/ left = {} THEN @ ELSE CHOOSE i \in left : \A j \in left : i <= j]

(* An unknown volume may be any volume: the root then carries the whole     *)
(* demand.  An entry without bytes is never looked up.                      *)
Use(c, answer) ==
  LET demand == check[c].demand
      charged == IF check[c].next # 0 /\ answer = check[c].volume
                   THEN check[c].charged \cup {check[c].next} ELSE check[c].charged
      left == {i \in NonZero(demand) : i > check[c].next}
  IN check' = [check EXCEPT
       ![c].volume = IF check[c].next = 0 THEN answer ELSE @,
       ![c].charged = IF answer = Unknown THEN Entries(demand) ELSE charged,
       ![c].probed = Unknown,
       ![c].step = IF answer = Unknown \/ left = {} THEN "sample" ELSE "peek",
       ![c].next = IF answer = Unknown \/ left = {} THEN @
                   ELSE CHOOSE i \in left : \A j \in left : i <= j]

Peek(c) ==
  /\ check[c].step = "peek"
  /\ \/ frozen[Asked(c)] # Unasked /\ Use(c, frozen[Asked(c)])
     \/ frozen[Asked(c)] = Unasked /\ check' = [check EXCEPT ![c].step = "probe"]
  /\ UNCHANGED <<home, frozen>>

(* The probe answers truthfully, or not at all: it fails or panics.         *)
ProbeVolume(c) ==
  /\ check[c].step = "probe"
  /\ \E answer \in {home[Asked(c)], Unknown} :
       check' = [check EXCEPT ![c].step = "freeze", ![c].probed = answer]
  /\ UNCHANGED <<home, frozen>>

(* The first answer stands, so every check sees one identity per root.      *)
Freeze(c) ==
  /\ check[c].step = "freeze"
  /\ LET root == Asked(c)
         answer == IF frozen[root] = Unasked THEN check[c].probed ELSE frozen[root]
     IN /\ frozen' = [frozen EXCEPT ![root] = answer]
        /\ Use(c, answer)
  /\ UNCHANGED home

(* Every entry charged means the whole demand, whose total saturated once.  *)
Required(c) ==
  IF check[c].charged = Entries(check[c].demand)
    THEN check[c].demand.total ELSE SumOf(check[c].demand, check[c].charged)

(* Free space is sampled afresh by every check.  Unknown never fails one,   *)
(* and the first known shortage decides.                                    *)
Sample(c) ==
  /\ check[c].step = "sample"
  /\ \E free \in (0 .. MaxBytes - 1) \cup {Unknown} :
       LET short == free # Unknown /\ free < Required(c)
       IN check' = [check EXCEPT
            ![c].seen = [@ EXCEPT ![check[c].at] = free],
            ![c].step = IF ~short THEN "next"
                        ELSE IF Verdict(check[c].stage, check[c].dry) = "Warn"
                          THEN "describe" ELSE "done",
            ![c].next = 0, ![c].volume = Unknown, ![c].charged = {},
            ![c].verdict = IF short THEN Verdict(check[c].stage, check[c].dry) ELSE "none"]
  /\ UNCHANGED <<home, frozen>>

(* A warning names the root's volume, looked up only if no check has.       *)
Describe(c) ==
  /\ check[c].step = "describe"
  /\ check' = [check EXCEPT ![c].step = IF frozen[check[c].at] # Unasked THEN "done"
                                        ELSE "describing"]
  /\ UNCHANGED <<home, frozen>>

ProbeForWarning(c) ==
  /\ check[c].step = "describing"
  /\ \E answer \in {home[check[c].at], Unknown} :
       check' = [check EXCEPT ![c].step = "naming", ![c].probed = answer]
  /\ UNCHANGED <<home, frozen>>

FreezeForWarning(c) ==
  /\ check[c].step = "naming"
  /\ frozen' = IF frozen[check[c].at] = Unasked
                 THEN [frozen EXCEPT ![check[c].at] = check[c].probed] ELSE frozen
  /\ check' = [check EXCEPT ![c].step = "done"]
  /\ UNCHANGED home

EndCheck(c) ==
  /\ check[c].step = "done"
  /\ check' = [check EXCEPT ![c] = Idle]
  /\ UNCHANGED <<home, frozen>>

CheckStep(c) ==
  \/ NextRoot(c) \/ Peek(c) \/ ProbeVolume(c) \/ Freeze(c) \/ Sample(c)
  \/ Describe(c) \/ ProbeForWarning(c) \/ FreezeForWarning(c)

CapacityNext ==
  \E c \in Checkers :
    \/ \E r \in Roots, b \in Sizes : Estimate(c, r, b)
    \/ \E s \in Stages, d \in BOOLEAN, r \in Roots \cup {NoRoot} : Submit(c, s, d, r)
    \/ CheckStep(c) \/ EndCheck(c)

CapacitySpec == CapacityInit /\ [][CapacityNext]_capacityVars

-----------------------------------------------------------------------------
(* The entries charged to a root, from the identities recorded.             *)
Grouping(demand, root) ==
  LET volumeOf(i) == frozen[demand.roots[i].root]
  IN IF \/ Alone(demand, root) \/ frozen[root] = Unknown
        \/ \E i \in NonZero(demand) : volumeOf(i) = Unknown
       THEN Entries(demand)
       ELSE {i \in NonZero(demand) : volumeOf(i) = frozen[root]}

(* What a root's volume must really hold, without saturation.               *)
Sharing(demand, root) ==
  {i \in NonZero(demand) : home[demand.roots[i].root] = home[root]}

TotalOf(demand, charged) ==
  FoldSet(LAMBDA i, sum : sum + demand.roots[i].bytes, 0, charged)

(* A check that fits had room: each root it sampled with a known answer has *)
(* space for the demand of every root really on its volume, unsaturated,    *)
(* and a check of the whole phase sampled every root with bytes.            *)
FitsHasRoom ==
  \A c \in Checkers : check[c].step = "done" /\ check[c].verdict = "Fits" =>
    LET demand == check[c].demand
    IN /\ \A r \in Roots : check[c].seen[r] \notin {Unasked, Unknown} =>
            check[c].seen[r] >= TotalOf(demand, Sharing(demand, r))
       /\ check[c].stage # "Recheck" =>
            \A i \in NonZero(demand) : check[c].seen[demand.roots[i].root] # Unasked

(* A check of a root charges it with every entry really on its volume,      *)
(* however its lookups interleave with other checks or fail.                *)
ChargesItsVolume ==
  \A c \in Checkers : check[c].step = "sample" =>
    \A i \in NonZero(check[c].demand) :
      home[check[c].demand.roots[i].root] = home[check[c].at] => i \in check[c].charged

(* Every check sees one identity per root: when a check samples, what it    *)
(* charged follows from the identities recorded, whoever asked for them and *)
(* in whatever order the answers came.                                      *)
OneIdentity ==
  \A c \in Checkers : check[c].step = "sample" =>
    check[c].charged = Grouping(check[c].demand, check[c].at)

(* The first answer recorded for a root stands for the whole run.           *)
IdentityFrozen ==
  [][\A r \in Roots : frozen[r] # Unasked => frozen'[r] = frozen[r]]_capacityVars
=============================================================================
