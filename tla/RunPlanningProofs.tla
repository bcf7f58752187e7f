------------------------- MODULE RunPlanningProofs -------------------------
(***************************************************************************)
(* Proofs about a run from its form to its Archive work, for any forms,    *)
(* profiles, mods, paths, roots, volumes and number of concurrent checks:  *)
(*                                                                         *)
(*   - the Capacity Checks, alone and within RunPlanning.  CapacityInv     *)
(*     says what the identities frozen so far mean and what each check has *)
(*     charged at each point of its walk;                                  *)
(*   - the Mod Roots: Accounted says what the walk over the mods directory *)
(*     owes to the entries it has taken so far;                            *)
(*   - the Run Request and the Routing Policy: Requested ties them to the  *)
(*     form and the profile they came from;                                *)
(*   - the room a check found, through what a fold over the roots of one   *)
(*     volume adds up to;                                                  *)
(*   - the Routing Ledger: Tells says what it holds after k paths.         *)
(***************************************************************************)
EXTENDS RunPlanning, TLAPS, WellFoundedInduction, SequenceTheorems, FiniteSetTheorems

Walking == {"peek", "probe", "freeze"}
Warning == {"describe", "describing", "naming"}

Demands == [roots : Seq([root : Roots, bytes : Nat]), total : Nat]

Checks ==
  [step : Walking \cup Warning \cup {"idle", "estimating", "next", "sample", "done"},
   stage : Stages, demand : Demands, tested : SUBSET Nat, at : Roots \cup {NoRoot},
   next : Nat, volume : Answers, charged : SUBSET Nat, probed : Answers,
   seen : [Roots -> Nat \cup {Unknown, Unasked}], dry : BOOLEAN,
   verdict : {"none", "Fits", "Warn", "FailRun", "FailWork"}]

Freezes == [Roots -> Answers \cup {Unasked}]

CapacityTypeOK ==
  /\ home \in [Roots -> Volumes]
  /\ frozen \in Freezes
  /\ check \in [Checkers -> Checks]

(* What follows speaks of one check k, identities f and real volumes h.    *)
VolumeOf(k, f, i) == f[k.demand.roots[i].root]

(* An identity is frozen to the truth, or to no answer.                    *)
Truthful(f, h) == \A r \in Roots : f[r] \in {Unasked, Unknown, h[r]}

(* A walk has charged the entries before the next one that share the       *)
(* root's volume, all of which are known.                                  *)
WalkInv(k, f) ==
  k.step \in Walking =>
    /\ k.at \in Roots
    /\ ~Alone(k.demand, k.at)
    /\ k.next = 0 => k.charged = {}
    /\ k.next # 0 =>
         /\ k.next \in NonZero(k.demand)
         /\ k.volume \in Volumes /\ f[k.at] = k.volume
         /\ \A i \in NonZero(k.demand) : i < k.next => VolumeOf(k, f, i) \in Volumes
         /\ k.charged = {i \in NonZero(k.demand) : i < k.next /\ VolumeOf(k, f, i) = k.volume}

(* A volume that is not known decides, or every volume is known.           *)
Whole(k, f) ==
  \/ Alone(k.demand, k.at) \/ f[k.at] = Unknown
  \/ \E i \in NonZero(k.demand) : VolumeOf(k, f, i) = Unknown

AllKnown(k, f) ==
  f[k.at] \in Volumes /\ \A i \in NonZero(k.demand) : VolumeOf(k, f, i) \in Volumes

SampleInv(k, f) ==
  k.step = "sample" =>
    /\ k.at \in Roots
    /\ \/ Whole(k, f) /\ k.charged = Entries(k.demand)
       \/ /\ ~Whole(k, f) /\ AllKnown(k, f)
          /\ k.charged = {i \in NonZero(k.demand) : VolumeOf(k, f, i) = f[k.at]}

AskedBy(k) ==
  IF k.step \in {"describe", "describing", "naming"} \/ k.next = 0
    THEN k.at ELSE k.demand.roots[k.next].root

(* The roots still to test have entries; a probe asks about a root, and    *)
(* its answer is that root's.                                              *)
ProbeInv(k, h) ==
  /\ k.step \in Walking \cup {"next", "sample"} => k.tested \subseteq Entries(k.demand)
  /\ k.step \in Warning => k.at \in Roots
  /\ k.step \in {"freeze", "naming"} => k.probed \in {h[AskedBy(k)], Unknown}

CheckInv(k, f, h) == WalkInv(k, f) /\ SampleInv(k, f) /\ ProbeInv(k, h)

CapacityInv ==
  /\ Truthful(frozen, home)
  /\ \A c \in Checkers : CheckInv(check[c], frozen, home)

(* Later identities: those recorded stand.                                 *)
Grows(f, g) == \A r \in Roots : f[r] # Unasked => g[r] = f[r]

(* What a check becomes with an answer.                                    *)
Used(k, answer) ==
  LET charged == IF k.next # 0 /\ answer = k.volume THEN k.charged \cup {k.next} ELSE k.charged
      left == {i \in NonZero(k.demand) : i > k.next}
  IN [k EXCEPT
       !.volume = IF k.next = 0 THEN answer ELSE @,
       !.charged = IF answer = Unknown THEN Entries(k.demand) ELSE charged,
       !.probed = Unknown,
       !.step = IF answer = Unknown \/ left = {} THEN "sample" ELSE "peek",
       !.next = IF answer = Unknown \/ left = {} THEN @
                ELSE CHOOSE i \in left : \A j \in left : i <= j]

-----------------------------------------------------------------------------
(* A nonempty set of numbers has a least one.                              *)
LEMMA Least ==
  ASSUME NEW S \in SUBSET Nat, S # {}
  PROVE  \E i \in S : \A j \in S : i <= j
<1>1. PICK i \in S : \A j \in S : <<j, i>> \notin OpToRel(<, Nat)
  BY NatLessThanWellFounded, WFMin, Zenon
<1>2. \A j \in S : ~(j < i)
  <2> SUFFICES ASSUME NEW j \in S, j < i PROVE FALSE
    OBVIOUS
  <2>1. <<j, i>> \in Nat \X Nat /\ j < i
    OBVIOUS
  <2>2. <<j, i>>[1] < <<j, i>>[2]
    BY <2>1
  <2>3. <<j, i>> \in OpToRel(<, Nat)
    BY <2>1, <2>2, Zenon DEF OpToRel
  <2>4. QED
    BY <1>1, <2>3, Zenon
<1>3. QED
  BY <1>2

(* A member of a sequence is where it is said to be.                       *)
LEMMA Members ==
  ASSUME NEW S, NEW s \in Seq(S), NEW i \in DOMAIN s
  PROVE  i \in Nat \ {0} /\ s[i] \in S
OBVIOUS

(* The entries of a demand name roots.                                     *)
LEMMA EntriesAreRoots ==
  ASSUME NEW k \in Checks, NEW i \in Entries(k.demand)
  PROVE  i \in Nat \ {0} /\ k.demand.roots[i] \in [root : Roots, bytes : Nat]
<1>1. k.demand.roots \in Seq([root : Roots, bytes : Nat])
  BY DEF Checks, Demands
<1>2. QED
  BY <1>1, Members DEF Entries

(* Sums stay numbers.                                                      *)
LEMMA Saturated == \A b \in Nat : Saturate(b) \in Nat
BY BytesAssumption DEF Saturate

(* A demand with one more estimate is a demand.                            *)
LEMMA AddType ==
  ASSUME NEW demand \in Demands, NEW root \in Roots, NEW bytes \in Nat
  PROVE  Add(demand, root, bytes) \in Demands
<1> DEFINE E == [root : Roots, bytes : Nat]
<1>1. demand.roots \in Seq(E) /\ demand.total \in Nat
  BY DEF Demands
<1>2. Saturate(demand.total + bytes) \in Nat
  <2>1. demand.total + bytes \in Nat
    BY <1>1
  <2>2. QED
    BY <2>1, Saturated
<1>3. CASE \E i \in DOMAIN demand.roots : demand.roots[i].root = root
  <2> DEFINE new == [i \in DOMAIN demand.roots |->
               IF demand.roots[i].root = root
                 THEN [root |-> root, bytes |-> Saturate(demand.roots[i].bytes + bytes)]
                 ELSE demand.roots[i]]
  <2>1. \A i \in DOMAIN demand.roots : new[i] \in E
    <3> SUFFICES ASSUME NEW i \in DOMAIN demand.roots PROVE new[i] \in E
      OBVIOUS
    <3>1. demand.roots[i] \in E
      BY <1>1, Members
    <3>2. Saturate(demand.roots[i].bytes + bytes) \in Nat
      BY <3>1, Saturated
    <3>3. QED
      BY <3>1, <3>2
  <2> HIDE DEF E
  <2>2. new \in Seq(E)
    <3>1. PICK n \in Nat : DOMAIN demand.roots = 1 .. n
      BY <1>1
    <3>2. new \in [1 .. n -> E]
      BY <2>1, <3>1
    <3> HIDE DEF new
    <3>3. QED
      BY <3>1, <3>2, SeqDef
  <2>3. QED
    <3>1. Add(demand, root, bytes) = [roots |-> new, total |-> Saturate(demand.total + bytes)]
      BY <1>3, Zenon DEF Add
    <3> HIDE DEF new
    <3>2. QED
      BY <1>2, <2>2, <3>1 DEF Demands, E
<1>4. CASE ~ \E i \in DOMAIN demand.roots : demand.roots[i].root = root
  <2>1. Append(demand.roots, [root |-> root, bytes |-> bytes]) \in Seq(E)
    BY <1>1
  <2>2. QED
    BY <1>2, <1>4, <2>1 DEF Add, Demands
<1>5. QED
  BY <1>3, <1>4

-----------------------------------------------------------------------------
(* One check replaced by another.                                          *)
LEMMA ReplaceCheck ==
  ASSUME CapacityTypeOK, NEW c \in Checkers, NEW k \in Checks,
         check' = [check EXCEPT ![c] = k], UNCHANGED home, frozen' \in Freezes
  PROVE  CapacityTypeOK' /\ check'[c] = k /\ \A d \in Checkers \ {c} : check'[d] = check[d]
BY DEF CapacityTypeOK

(* What a check has found stays true whatever other checks record.         *)
LEMMA CheckInvStays ==
  ASSUME NEW k \in Checks, NEW f \in Freezes, NEW g \in Freezes, NEW h, Grows(f, g),
         CheckInv(k, f, h)
  PROVE  CheckInv(k, g, h)
<1> DEFINE N == NonZero(k.demand)
<1>1. \A i \in N : k.demand.roots[i].root \in Roots
  BY EntriesAreRoots DEF NonZero
<1>2. \A i \in N : VolumeOf(k, f, i) # Unasked => VolumeOf(k, g, i) = VolumeOf(k, f, i)
  BY <1>1 DEF VolumeOf, Grows
<1>3. k.at \in Roots => (f[k.at] # Unasked => g[k.at] = f[k.at])
  BY DEF Grows
<1> HIDE DEF N
<1>4. WalkInv(k, g)
  BY <1>2, <1>3, NamesAssumption DEF WalkInv, CheckInv, N
<1>5. SampleInv(k, g)
  <2> SUFFICES ASSUME k.step = "sample" PROVE SampleInv(k, g)
    BY DEF SampleInv
  <2>1. CASE Whole(k, f)
    BY <1>2, <1>3, <2>1, NamesAssumption DEF SampleInv, CheckInv, N, Whole
  <2>2. CASE ~Whole(k, f)
    <3>1. AllKnown(k, f) /\ k.at \in Roots
      BY <2>2 DEF SampleInv, CheckInv
    <3>2. AllKnown(k, g) /\ ~Whole(k, g) /\ g[k.at] = f[k.at]
      BY <1>2, <1>3, <2>2, <3>1, NamesAssumption DEF AllKnown, Whole, N
    <3>3. \A i \in N : VolumeOf(k, g, i) = VolumeOf(k, f, i)
      BY <1>2, <3>1, NamesAssumption DEF AllKnown, N
    <3>4. QED
      BY <2>2, <3>1, <3>2, <3>3 DEF SampleInv, CheckInv, N
  <2>3. QED
    BY <2>1, <2>2
<1>6. QED
  BY <1>4, <1>5 DEF CheckInv

(* What an answer changes of a check, and what it leaves.                  *)
Answered(k, v, s, p, t, n) ==
  [k EXCEPT !.volume = v, !.charged = s, !.probed = p, !.step = t, !.next = n]

(* What an answered probe leaves of a check.                               *)
LEMMA AnsweredType ==
  ASSUME NEW k \in Checks, NEW v \in Answers, NEW s \in SUBSET Nat, NEW p \in Answers,
         NEW t \in {"sample", "peek"}, NEW n \in Nat
  PROVE  LET u == Answered(k, v, s, p, t, n)
         IN /\ u \in Checks /\ u.at = k.at /\ u.demand = k.demand /\ u.tested = k.tested
            /\ u.volume = v /\ u.charged = s /\ u.step = t /\ u.next = n
<1> DEFINE u == Answered(k, v, s, p, t, n)
<1>1. u \in Checks
  BY DEF Checks, Walking, Answered
<1>2. u.at = k.at /\ u.demand = k.demand /\ u.tested = k.tested
  BY DEF Checks, Answered
<1>3. u.volume = v /\ u.charged = s /\ u.step = t /\ u.next = n
  BY DEF Checks, Answered
<1>4. QED
  BY <1>1, <1>2, <1>3

(* A check that uses an answer stays a check, and what it charges follows. *)
LEMMA UsedInv ==
  ASSUME NEW f \in Freezes, NEW h, NEW k \in Checks, k.step \in {"peek", "freeze"},
         CheckInv(k, f, h), NEW answer \in Answers, answer = f[AskedBy(k)]
  PROVE  Used(k, answer) \in Checks /\ CheckInv(Used(k, answer), f, h)
<1> DEFINE N == NonZero(k.demand)
           charged == IF k.next # 0 /\ answer = k.volume THEN k.charged \cup {k.next}
                      ELSE k.charged
           left == {i \in N : i > k.next}
           min == CHOOSE i \in left : \A j \in left : i <= j
           u == Used(k, answer)
<1> SUFFICES u \in Checks /\ CheckInv(u, f, h)
  OBVIOUS
<1>1. N \in SUBSET Nat /\ N \subseteq Entries(k.demand) /\ Entries(k.demand) \in SUBSET Nat
  BY EntriesAreRoots DEF NonZero
<1>2. k.at \in Roots /\ ~Alone(k.demand, k.at) /\ k.tested \subseteq Entries(k.demand)
  BY DEF CheckInv, WalkInv, ProbeInv, Walking
<1>3. k.next \in Nat /\ k.charged \in SUBSET Nat
  BY DEF Checks
<1>4. left # {} => min \in left /\ \A j \in left : min <= j
  <2>1. left \in SUBSET Nat
    BY <1>1
  <2>2. left # {} => \E i \in left : \A j \in left : i <= j
    BY <2>1, Least
  <2> HIDE DEF left
  <2>3. QED
    BY <2>2
<1>5. /\ k.next = 0 => k.charged = {} /\ answer = f[k.at]
      /\ k.next # 0 =>
           /\ k.next \in N /\ k.volume \in Volumes /\ f[k.at] = k.volume
           /\ answer = VolumeOf(k, f, k.next)
           /\ \A i \in N : i < k.next => VolumeOf(k, f, i) \in Volumes
           /\ k.charged = {i \in N : i < k.next /\ VolumeOf(k, f, i) = k.volume}
  BY DEF CheckInv, WalkInv, Walking, AskedBy, VolumeOf
<1>6. charged \in SUBSET Nat /\ charged \subseteq N
  BY <1>1, <1>3, <1>5
<1>7. /\ u \in Checks
      /\ u.at = k.at /\ u.demand = k.demand /\ u.tested = k.tested
      /\ u.volume = (IF k.next = 0 THEN answer ELSE k.volume)
      /\ u.charged = (IF answer = Unknown THEN Entries(k.demand) ELSE charged)
      /\ u.step = (IF answer = Unknown \/ left = {} THEN "sample" ELSE "peek")
      /\ u.next = (IF answer = Unknown \/ left = {} THEN k.next ELSE min)
  <2>1. (IF k.next = 0 THEN answer ELSE k.volume) \in Answers
    BY DEF Checks
  <2>2. (IF answer = Unknown THEN Entries(k.demand) ELSE charged) \in SUBSET Nat
    BY <1>1, <1>6
  <2>3. (IF answer = Unknown \/ left = {} THEN "sample" ELSE "peek") \in {"sample", "peek"}
    OBVIOUS
  <2>4. (IF answer = Unknown \/ left = {} THEN k.next ELSE min) \in Nat
    <3>1. left # {} => min \in Nat
      BY <1>1, <1>4
    <3> HIDE DEF left, min
    <3>2. QED
      BY <1>3, <3>1
  <2>5. Unknown \in Answers
    BY DEF Answers
  <2>6. u = [k EXCEPT
       !.volume = IF k.next = 0 THEN answer ELSE k.volume,
       !.charged = IF answer = Unknown THEN Entries(k.demand) ELSE charged,
       !.probed = Unknown,
       !.step = IF answer = Unknown \/ left = {} THEN "sample" ELSE "peek",
       !.next = IF answer = Unknown \/ left = {} THEN k.next ELSE min]
    BY DEF Used
  <2> DEFINE volumeOf == IF k.next = 0 THEN answer ELSE k.volume
             chargedOf == IF answer = Unknown THEN Entries(k.demand) ELSE charged
             stepOf == IF answer = Unknown \/ left = {} THEN "sample" ELSE "peek"
             nextOf == IF answer = Unknown \/ left = {} THEN k.next ELSE min
  <2>7. u = Answered(k, volumeOf, chargedOf, Unknown, stepOf, nextOf)
    BY <2>6 DEF Answered
  <2>8. /\ volumeOf \in Answers /\ chargedOf \in SUBSET Nat
        /\ stepOf \in {"sample", "peek"} /\ nextOf \in Nat
    BY <2>1, <2>2, <2>3, <2>4
  <2> HIDE DEF volumeOf, chargedOf, stepOf, nextOf, left, min, charged, u, N
  <2>9. /\ u \in Checks /\ u.at = k.at /\ u.demand = k.demand /\ u.tested = k.tested
        /\ u.volume = volumeOf /\ u.charged = chargedOf /\ u.step = stepOf /\ u.next = nextOf
    <3> DEFINE a == Answered(k, volumeOf, chargedOf, Unknown, stepOf, nextOf)
    <3>1. /\ volumeOf \in Answers /\ chargedOf \in SUBSET Nat
          /\ stepOf \in {"sample", "peek"} /\ nextOf \in Nat /\ k \in Checks
      BY <2>8
    <3>2. /\ a \in Checks /\ a.at = k.at /\ a.demand = k.demand /\ a.tested = k.tested
          /\ a.volume = volumeOf /\ a.charged = chargedOf /\ a.step = stepOf
          /\ a.next = nextOf
      BY ONLY <2>5, <3>1, AnsweredType
    <3>3. QED
      BY <2>7, <3>2
  <2>10. QED
    BY <2>9 DEF volumeOf, chargedOf, stepOf, nextOf
<1> HIDE DEF u
<1>8. ProbeInv(u, h)
  BY <1>2, <1>7 DEF ProbeInv, Walking, Warning
<1>9. CASE answer = Unknown
  <2>1. Whole(u, f)
    BY <1>5, <1>7, <1>9 DEF Whole, VolumeOf
  <2>2. u.step = "sample" /\ u.at \in Roots /\ u.charged = Entries(u.demand)
    BY <1>2, <1>7, <1>9
  <2>3. WalkInv(u, f)
    BY <2>2 DEF WalkInv, Walking
  <2>4. SampleInv(u, f)
    BY <2>1, <2>2 DEF SampleInv
  <2>5. QED
    BY <1>7, <1>8, <2>3, <2>4 DEF CheckInv
<1>10. CASE answer # Unknown /\ left = {}
  <2>1. k.next # 0
    <3>1. \E i \in N : TRUE
      BY <1>2 DEF Alone, NonZero, Entries
    <3>2. \A i \in N : i > 0
      BY EntriesAreRoots DEF NonZero
    <3>3. QED
      BY <1>10, <3>1, <3>2
  <2>2. \A i \in N : i = k.next \/ i < k.next
    BY <1>1, <1>3, <1>10
  <2>3. \A i \in N : VolumeOf(k, f, i) \in Volumes
    BY <1>5, <1>10, <2>1, <2>2 DEF Answers
  <2>4. charged = {i \in N : VolumeOf(k, f, i) = f[k.at]}
    BY <1>1, <1>5, <2>1, <2>2
  <2>5. ~Whole(u, f) /\ AllKnown(u, f)
    BY <1>2, <1>5, <1>7, <2>1, <2>3, NamesAssumption DEF Whole, AllKnown, VolumeOf
  <2>6. u.charged = {i \in NonZero(u.demand) : VolumeOf(u, f, i) = f[u.at]}
    BY <1>7, <1>10, <2>4 DEF VolumeOf
  <2>7. u.step = "sample" /\ u.at \in Roots
    BY <1>2, <1>7, <1>10
  <2>8. WalkInv(u, f)
    BY <2>7 DEF WalkInv, Walking
  <2>9. SampleInv(u, f)
    BY <2>5, <2>6, <2>7 DEF SampleInv
  <2>10. QED
    BY <1>7, <1>8, <2>8, <2>9 DEF CheckInv
<1>11. CASE answer # Unknown /\ left # {}
  <2>1. u.step = "peek" /\ u.next = min /\ u.charged = charged /\ min \in N /\ min > k.next
    BY <1>4, <1>7, <1>11
  <2>2. \A i \in N : i < min <=> i <= k.next
    BY <1>1, <1>3, <1>4, <1>11
  <2>3. u.volume \in Volumes /\ f[u.at] = u.volume
    BY <1>5, <1>7, <1>11 DEF Answers
  <2>4. \A i \in N : i < min => VolumeOf(k, f, i) \in Volumes
    <3>1. 0 \notin N
      BY EntriesAreRoots DEF NonZero
    <3>2. QED
      BY <1>1, <1>3, <1>5, <1>11, <2>2, <3>1 DEF Answers
  <2>5. charged = {i \in N : i < min /\ VolumeOf(k, f, i) = u.volume}
    <3>1. 0 \notin N
      BY EntriesAreRoots DEF NonZero
    <3> HIDE DEF min, left
    <3>2. CASE k.next = 0
      BY <1>1, <1>5, <2>2, <3>1, <3>2
    <3>3. CASE k.next # 0
      BY <1>1, <1>3, <1>5, <1>7, <2>2, <3>3
    <3>4. QED
      BY <3>2, <3>3
  <2> HIDE DEF min, left, charged
  <2>6. WalkInv(u, f)
    BY <1>1, <1>2, <1>7, <2>1, <2>3, <2>4, <2>5 DEF WalkInv, VolumeOf
  <2>7. SampleInv(u, f)
    BY <2>1 DEF SampleInv
  <2>8. QED
    BY <1>7, <1>8, <2>6, <2>7 DEF CheckInv
<1>12. QED
  BY <1>9, <1>10, <1>11

(* A step that replaces one check and records at most one identity.        *)
LEMMA KeepsInv ==
  ASSUME CapacityTypeOK, CapacityInv, NEW c \in Checkers, NEW k \in Checks,
         check' = [check EXCEPT ![c] = k], UNCHANGED home, frozen' \in Freezes,
         Grows(frozen, frozen'), Truthful(frozen', home), CheckInv(k, frozen', home)
  PROVE  CapacityTypeOK' /\ CapacityInv'
<1>1. CapacityTypeOK' /\ check'[c] = k /\ \A d \in Checkers \ {c} : check'[d] = check[d]
  BY ReplaceCheck
<1>2. \A d \in Checkers \ {c} : CheckInv(check'[d], frozen', home')
  <2> SUFFICES ASSUME NEW d \in Checkers \ {c} PROVE CheckInv(check[d], frozen', home)
    BY <1>1
  <2>1. check[d] \in Checks /\ frozen \in Freezes /\ CheckInv(check[d], frozen, home)
    BY DEF CapacityTypeOK, CapacityInv
  <2>2. QED
    BY <2>1, CheckInvStays
<1>3. QED
  BY <1>1, <1>2 DEF CapacityInv

(* The same for a step that records none.                                  *)
LEMMA KeepsInvAlone ==
  ASSUME CapacityTypeOK, CapacityInv, NEW c \in Checkers, NEW k \in Checks,
         check' = [check EXCEPT ![c] = k], UNCHANGED <<home, frozen>>,
         CheckInv(k, frozen, home)
  PROVE  CapacityTypeOK' /\ CapacityInv'
<1>1. frozen' \in Freezes /\ Grows(frozen, frozen') /\ Truthful(frozen', home)
  BY DEF CapacityTypeOK, CapacityInv, Grows
<1>2. CheckInv(k, frozen', home)
  OBVIOUS
<1>3. QED
  BY <1>1, <1>2, KeepsInv

(* A check that asks and holds nothing.                                    *)
LEMMA Resting ==
  ASSUME NEW k \in Checks, NEW f, NEW h, k.step \in {"idle", "estimating", "done"}
  PROVE  CheckInv(k, f, h)
BY DEF CheckInv, WalkInv, SampleInv, ProbeInv, Walking, Warning

LEMMA IdleIsACheck == Idle \in Checks
<1>1. EmptyDemand \in Demands
  BY DEF EmptyDemand, Demands
<1>2. QED
  BY <1>1 DEF Idle, Checks, Answers, Stages

LEMMA EstimateInv ==
  ASSUME CapacityTypeOK, CapacityInv, NEW c \in Checkers, NEW r \in Roots, NEW b \in Sizes,
         Estimate(c, r, b)
  PROVE  CapacityTypeOK' /\ CapacityInv'
<1>1. check[c] \in Checks /\ check[c].demand \in Demands
  BY DEF CapacityTypeOK, Checks
<1>2. b \in Nat
  BY BytesAssumption
<1>3. Add(check[c].demand, r, b) \in Demands
  BY <1>1, <1>2, AddType
<1> DEFINE k == [check[c] EXCEPT !.step = "estimating", !.demand = Add(@, r, b)]
<1>4. k \in Checks /\ k.step = "estimating"
  BY <1>1, <1>3 DEF Checks
<1>5. check' = [check EXCEPT ![c] = k] /\ UNCHANGED <<home, frozen>>
  BY DEF Estimate
<1> HIDE DEF k
<1>6. CheckInv(k, frozen, home)
  BY <1>4, Resting
<1>7. QED
  BY <1>4, <1>5, <1>6, KeepsInvAlone

LEMMA SubmitInv ==
  ASSUME CapacityTypeOK, CapacityInv, NEW c \in Checkers, NEW s \in Stages,
         NEW d \in BOOLEAN, NEW r \in Roots \cup {NoRoot}, Submit(c, s, d, r)
  PROVE  CapacityTypeOK' /\ CapacityInv'
<1>1. check[c] \in Checks
  BY DEF CapacityTypeOK
<1> DEFINE named == {i \in Entries(check[c].demand) : check[c].demand.roots[i].root = r}
           tested == IF r = NoRoot THEN NonZero(check[c].demand) ELSE named
<1>2. Entries(check[c].demand) \in SUBSET Nat
  BY <1>1, EntriesAreRoots
<1>3. tested \in SUBSET Nat /\ tested \subseteq Entries(check[c].demand)
  BY <1>2 DEF NonZero
<1>4. check' = [check EXCEPT ![c].step = "next", ![c].stage = s, ![c].dry = d,
                             ![c].tested = tested] /\ UNCHANGED <<home, frozen>>
  BY DEF Submit
<1> HIDE DEF tested
<1> DEFINE k == [check[c] EXCEPT !.step = "next", !.stage = s, !.dry = d, !.tested = tested]
<1>5. k \in Checks /\ k.tested = tested /\ k.step = "next" /\ k.demand = check[c].demand
  BY <1>1, <1>3 DEF Checks
<1>6. check' = [check EXCEPT ![c] = k]
  BY <1>4
<1> HIDE DEF k
<1>7. CheckInv(k, frozen, home)
  BY <1>3, <1>5 DEF CheckInv, WalkInv, SampleInv, ProbeInv, Walking, Warning
<1>8. QED
  BY <1>4, <1>5, <1>6, <1>7, KeepsInvAlone

LEMMA NextRootInv ==
  ASSUME CapacityTypeOK, CapacityInv, NEW c \in Checkers, NextRoot(c)
  PROVE  CapacityTypeOK' /\ CapacityInv'
<1>1. /\ check[c] \in Checks /\ CheckInv(check[c], frozen, home)
      /\ check[c].tested \subseteq Entries(check[c].demand) /\ UNCHANGED <<home, frozen>>
  BY DEF CapacityTypeOK, CapacityInv, NextRoot, CheckInv, ProbeInv
<1>2. CASE check[c].tested = {}
  <2> DEFINE k == [check[c] EXCEPT !.step = "done", !.verdict = "Fits"]
  <2>1. k \in Checks /\ k.step = "done"
    BY <1>1 DEF Checks
  <2>2. check' = [check EXCEPT ![c] = k]
    BY <1>2 DEF NextRoot
  <2> HIDE DEF k
  <2>3. CheckInv(k, frozen, home)
    BY <2>1, Resting
  <2>4. QED
    BY <1>1, <2>1, <2>2, <2>3, KeepsInvAlone
<1>3. CASE check[c].tested # {}
  <2> DEFINE i == FirstTested(c)
             root == check[c].demand.roots[i].root
             alone == Alone(check[c].demand, root)
             step == IF alone THEN "sample" ELSE "peek"
             charged == IF alone THEN Entries(check[c].demand) ELSE {}
             left == check[c].tested \ {i}
             k == [check[c] EXCEPT !.step = step, !.tested = left, !.at = root,
                                   !.next = 0, !.charged = charged]
  <2>1. i \in Entries(check[c].demand)
    <3>1. check[c].tested \in SUBSET Nat
      BY <1>1 DEF Checks
    <3>2. \E j \in check[c].tested : \A m \in check[c].tested : j <= m
      BY <1>3, <3>1, Least
    <3>3. i \in check[c].tested
      BY <3>2 DEF FirstTested
    <3>4. QED
      BY <1>1, <3>3
  <2>2. root \in Roots /\ Entries(check[c].demand) \in SUBSET Nat
    BY <1>1, <2>1, EntriesAreRoots
  <2>3. check' = [check EXCEPT ![c] = k]
    BY <1>3 DEF NextRoot
  <2>4. charged \in SUBSET Nat /\ left \in SUBSET Nat /\ left \subseteq Entries(check[c].demand)
    BY <1>1, <2>2
  <2>5. step \in {"sample", "peek"}
    OBVIOUS
  <2> HIDE DEF i, root, charged, left, step
  <2>6. /\ k \in Checks /\ k.step = step /\ k.at = root /\ k.next = 0 /\ k.charged = charged
        /\ k.tested = left /\ k.demand = check[c].demand
    BY <1>1, <2>2, <2>4, <2>5 DEF Checks, Walking
  <2> HIDE DEF k
  <2>7. ProbeInv(k, home)
    BY <2>4, <2>5, <2>6 DEF ProbeInv, Warning
  <2>8. WalkInv(k, frozen)
    BY <2>2, <2>6 DEF WalkInv, Walking, step, charged
  <2>9. SampleInv(k, frozen)
    BY <2>2, <2>6 DEF SampleInv, step, charged, Whole
  <2>10. QED
    BY <1>1, <2>3, <2>6, <2>7, <2>8, <2>9, KeepsInvAlone DEF CheckInv
<1>4. QED
  BY <1>2, <1>3

(* A step that uses an answer makes its check what the answer makes of it. *)
LEMMA UseIsUsed ==
  ASSUME CapacityTypeOK, NEW c \in Checkers, NEW answer, Use(c, answer)
  PROVE  check' = [check EXCEPT ![c] = Used(check[c], answer)]
<1> DEFINE old == check[c]
           charged0 == IF old.next # 0 /\ answer = old.volume
                         THEN old.charged \cup {old.next} ELSE old.charged
           left == {i \in NonZero(old.demand) : i > old.next}
           volume == IF old.next = 0 THEN answer ELSE old.volume
           charged == IF answer = Unknown THEN Entries(old.demand) ELSE charged0
           step == IF answer = Unknown \/ left = {} THEN "sample" ELSE "peek"
           next == IF answer = Unknown \/ left = {} THEN old.next
                   ELSE CHOOSE i \in left : \A j \in left : i <= j
<1>1. check' = [check EXCEPT ![c].volume = volume, ![c].charged = charged,
                             ![c].probed = Unknown, ![c].step = step, ![c].next = next]
  BY DEF Use
<1>2. Used(check[c], answer) =
        [check[c] EXCEPT !.volume = volume, !.charged = charged,
                         !.probed = Unknown, !.step = step, !.next = next]
  BY DEF Used
<1> HIDE DEF volume, charged, step, next
<1>3. check' = [check EXCEPT ![c] = [check[c] EXCEPT !.volume = volume, !.charged = charged,
                         !.probed = Unknown, !.step = step, !.next = next]]
  BY <1>1
<1>4. QED
  BY <1>2, <1>3

(* The answer a check uses is the identity recorded for what it asked.     *)
LEMMA PeekInv ==
  ASSUME CapacityTypeOK, CapacityInv, NEW c \in Checkers, Peek(c)
  PROVE  CapacityTypeOK' /\ CapacityInv'
<1>1. /\ check[c] \in Checks /\ CheckInv(check[c], frozen, home) /\ check[c].step = "peek"
      /\ UNCHANGED <<home, frozen>> /\ frozen \in Freezes
  BY DEF CapacityTypeOK, CapacityInv, Peek
<1>2. Asked(c) = AskedBy(check[c]) /\ Asked(c) \in Roots
  <2>1. Asked(c) = AskedBy(check[c])
    BY DEF Asked, AskedBy
  <2>2. check[c].at \in Roots /\ (check[c].next # 0 => check[c].next \in NonZero(check[c].demand))
    BY <1>1 DEF CheckInv, WalkInv, Walking
  <2>3. check[c].next # 0 => check[c].demand.roots[check[c].next].root \in Roots
    BY <1>1, <2>2, EntriesAreRoots DEF NonZero
  <2>4. QED
    BY <2>1, <2>2, <2>3 DEF AskedBy
<1>3. CASE frozen[Asked(c)] # Unasked /\ Use(c, frozen[Asked(c)])
  <2>1. frozen[Asked(c)] \in Answers
    BY <1>1, <1>2, <1>3 DEF Freezes
  <2> DEFINE answer == frozen[Asked(c)]
             k == Used(check[c], answer)
  <2>2. k \in Checks /\ CheckInv(k, frozen, home)
    BY <1>1, <1>2, <2>1, UsedInv
  <2>3. check' = [check EXCEPT ![c] = k]
    BY <1>3, UseIsUsed
  <2> HIDE DEF k
  <2>4. QED
    BY <1>1, <2>2, <2>3, KeepsInvAlone
<1>4. CASE check' = [check EXCEPT ![c].step = "probe"]
  <2> DEFINE k == [check[c] EXCEPT !.step = "probe"]
  <2>1. /\ k \in Checks /\ k.step = "probe" /\ k.at = check[c].at /\ k.next = check[c].next
        /\ k.charged = check[c].charged /\ k.tested = check[c].tested
        /\ k.demand = check[c].demand /\ k.volume = check[c].volume
    BY <1>1 DEF Checks, Walking
  <2>2. check' = [check EXCEPT ![c] = k]
    BY <1>4
  <2> HIDE DEF k
  <2>3. CheckInv(k, frozen, home)
    BY <1>1, <2>1 DEF CheckInv, WalkInv, SampleInv, ProbeInv, Walking, Warning, VolumeOf
  <2>4. QED
    BY <1>1, <2>1, <2>2, <2>3, KeepsInvAlone
<1>5. QED
  BY <1>3, <1>4 DEF Peek

LEMMA ProbeVolumeInv ==
  ASSUME CapacityTypeOK, CapacityInv, NEW c \in Checkers, ProbeVolume(c)
  PROVE  CapacityTypeOK' /\ CapacityInv'
<1>1. /\ check[c] \in Checks /\ CheckInv(check[c], frozen, home) /\ check[c].step = "probe"
      /\ UNCHANGED <<home, frozen>>
  BY DEF CapacityTypeOK, CapacityInv, ProbeVolume
<1>2. PICK answer \in {home[Asked(c)], Unknown} :
        check' = [check EXCEPT ![c].step = "freeze", ![c].probed = answer]
  BY DEF ProbeVolume
<1>3. Asked(c) = AskedBy(check[c]) /\ Asked(c) \in Roots
  <2>1. Asked(c) = AskedBy(check[c])
    BY DEF Asked, AskedBy
  <2>2. check[c].at \in Roots /\ (check[c].next # 0 => check[c].next \in NonZero(check[c].demand))
    BY <1>1 DEF CheckInv, WalkInv, Walking
  <2>3. check[c].next # 0 => check[c].demand.roots[check[c].next].root \in Roots
    BY <1>1, <2>2, EntriesAreRoots DEF NonZero
  <2>4. QED
    BY <2>1, <2>2, <2>3, <1>1 DEF AskedBy
<1>4. answer \in Answers
  BY <1>2, <1>3 DEF Answers, CapacityTypeOK
<1> DEFINE k == [check[c] EXCEPT !.step = "freeze", !.probed = answer]
<1>5. /\ k \in Checks /\ k.step = "freeze" /\ k.at = check[c].at /\ k.next = check[c].next
      /\ k.charged = check[c].charged /\ k.tested = check[c].tested
      /\ k.demand = check[c].demand /\ k.volume = check[c].volume /\ k.probed = answer
  BY <1>1, <1>4 DEF Checks, Walking
<1>6. check' = [check EXCEPT ![c] = k]
  BY <1>2
<1> HIDE DEF k
<1>7. AskedBy(k) = AskedBy(check[c])
  BY <1>1, <1>5 DEF AskedBy
<1>8. CheckInv(k, frozen, home)
  BY <1>1, <1>2, <1>3, <1>5, <1>7
     DEF CheckInv, WalkInv, SampleInv, ProbeInv, Walking, Warning, VolumeOf
<1>9. QED
  BY <1>1, <1>5, <1>6, <1>8, KeepsInvAlone

(* Recording an answer truthfully changes no identity recorded before.     *)
LEMMA RecordGrows ==
  ASSUME CapacityTypeOK, CapacityInv, NEW r \in Roots, NEW probed \in {home[r], Unknown},
         frozen[r] = Unasked
  PROVE  LET g == [frozen EXCEPT ![r] = probed]
         IN g \in Freezes /\ Grows(frozen, g) /\ Truthful(g, home) /\ g[r] = probed
BY NamesAssumption DEF CapacityTypeOK, CapacityInv, Freezes, Grows, Truthful, Answers

LEMMA FreezeInv ==
  ASSUME CapacityTypeOK, CapacityInv, NEW c \in Checkers, Freeze(c)
  PROVE  CapacityTypeOK' /\ CapacityInv'
<1>1. /\ check[c] \in Checks /\ CheckInv(check[c], frozen, home) /\ check[c].step = "freeze"
      /\ UNCHANGED home /\ frozen \in Freezes
  BY DEF CapacityTypeOK, CapacityInv, Freeze
<1>2. Asked(c) = AskedBy(check[c]) /\ Asked(c) \in Roots
  <2>1. Asked(c) = AskedBy(check[c])
    BY DEF Asked, AskedBy
  <2>2. check[c].at \in Roots /\ (check[c].next # 0 => check[c].next \in NonZero(check[c].demand))
    BY <1>1 DEF CheckInv, WalkInv, Walking
  <2>3. check[c].next # 0 => check[c].demand.roots[check[c].next].root \in Roots
    BY <1>1, <2>2, EntriesAreRoots DEF NonZero
  <2>4. QED
    BY <2>1, <2>2, <2>3, <1>1 DEF AskedBy
<1>3. check[c].probed \in {home[Asked(c)], Unknown}
  BY <1>1, <1>2 DEF CheckInv, ProbeInv
<1> DEFINE root == Asked(c)
           answer == IF frozen[root] = Unasked THEN check[c].probed ELSE frozen[root]
           g == [frozen EXCEPT ![root] = answer]
           k == Used(check[c], answer)
<1>4. frozen' = g /\ check' = [check EXCEPT ![c] = k]
  <2>1. frozen' = g /\ Use(c, answer)
    BY DEF Freeze
  <2>2. QED
    BY <2>1, UseIsUsed
<1>5. answer \in Answers
  BY <1>1, <1>2, <1>3 DEF Freezes, Answers, CapacityTypeOK
<1>6. g \in Freezes /\ Grows(frozen, g) /\ Truthful(g, home) /\ g[root] = answer
  <2>1. CASE frozen[root] = Unasked
    BY <1>2, <1>3, <2>1, RecordGrows
  <2>2. CASE frozen[root] # Unasked
    <3>1. g = frozen
      BY <1>1, <2>2 DEF Freezes
    <3>2. QED
      BY <1>1, <1>2, <2>2, <3>1 DEF Grows, CapacityInv
  <2>3. QED
    BY <2>1, <2>2
<1> HIDE DEF g, answer
<1>7. CheckInv(check[c], g, home)
  BY <1>1, <1>6, CheckInvStays
<1>8. k \in Checks /\ CheckInv(k, g, home)
  BY <1>1, <1>2, <1>5, <1>6, <1>7, UsedInv
<1> HIDE DEF k
<1>9. QED
  BY <1>1, <1>4, <1>6, <1>8, KeepsInv

LEMMA SampleStepInv ==
  ASSUME CapacityTypeOK, CapacityInv, NEW c \in Checkers, Sample(c)
  PROVE  CapacityTypeOK' /\ CapacityInv'
<1>1. /\ check[c] \in Checks /\ CheckInv(check[c], frozen, home) /\ check[c].step = "sample"
      /\ UNCHANGED <<home, frozen>>
  BY DEF CapacityTypeOK, CapacityInv, Sample
<1>2. PICK free \in (0 .. MaxBytes - 1) \cup {Unknown} :
        LET short == free # Unknown /\ free < Required(c)
        IN check' = [check EXCEPT
            ![c].seen = [@ EXCEPT ![check[c].at] = free],
            ![c].step = IF ~short THEN "next"
                        ELSE IF Verdict(check[c].stage, check[c].dry) = "Warn"
                          THEN "describe" ELSE "done",
            ![c].next = 0, ![c].volume = Unknown, ![c].charged = {},
            ![c].verdict = IF short THEN Verdict(check[c].stage, check[c].dry) ELSE "none"]
  BY DEF Sample
<1> DEFINE short == free # Unknown /\ free < Required(c)
           seen == [check[c].seen EXCEPT ![check[c].at] = free]
           step == IF ~short THEN "next"
                   ELSE IF Verdict(check[c].stage, check[c].dry) = "Warn"
                     THEN "describe" ELSE "done"
           verdict == IF short THEN Verdict(check[c].stage, check[c].dry) ELSE "none"
           k == [check[c] EXCEPT !.seen = seen, !.step = step, !.next = 0,
                                 !.volume = Unknown, !.charged = {}, !.verdict = verdict]
<1>3. check' = [check EXCEPT ![c] = k]
  BY <1>2
<1>4. step \in {"next", "describe", "done"}
  OBVIOUS
<1>5. verdict \in {"none", "Warn", "FailRun", "FailWork"}
  BY DEF Verdict
<1>6. seen \in [Roots -> Nat \cup {Unknown, Unasked}]
  <2>1. check[c].seen \in [Roots -> Nat \cup {Unknown, Unasked}]
    BY <1>1 DEF Checks
  <2>2. free \in Nat \cup {Unknown, Unasked}
    BY <1>2, BytesAssumption
  <2>3. QED
    BY <2>1, <2>2
<1>7. Unknown \in Answers
  BY DEF Answers
<1> HIDE DEF seen, step, verdict, short
<1>8. /\ k \in Checks /\ k.step = step /\ k.at = check[c].at
      /\ k.tested = check[c].tested /\ k.demand = check[c].demand
  BY <1>1, <1>4, <1>5, <1>6, <1>7 DEF Checks, Warning
<1> HIDE DEF k
<1>9. check[c].at \in Roots /\ check[c].tested \subseteq Entries(check[c].demand)
  BY <1>1 DEF CheckInv, SampleInv, ProbeInv
<1>10. CheckInv(k, frozen, home)
  BY <1>4, <1>8, <1>9 DEF CheckInv, WalkInv, SampleInv, ProbeInv, Walking, Warning
<1>11. QED
  BY <1>1, <1>3, <1>8, <1>10, KeepsInvAlone

(* A warning only names the volume: the verdict is given.                  *)
LEMMA WarningInv ==
  ASSUME CapacityTypeOK, CapacityInv, NEW c \in Checkers,
         Describe(c) \/ ProbeForWarning(c) \/ FreezeForWarning(c)
  PROVE  CapacityTypeOK' /\ CapacityInv'
<1>1. /\ check[c] \in Checks /\ CheckInv(check[c], frozen, home) /\ check[c].step \in Warning
      /\ UNCHANGED home /\ check[c].at \in Roots
  BY DEF CapacityTypeOK, CapacityInv, Describe, ProbeForWarning, FreezeForWarning, Warning,
     CheckInv, ProbeInv
<1>2. CASE Describe(c)
  <2> DEFINE step == IF frozen[check[c].at] # Unasked THEN "done" ELSE "describing"
             k == [check[c] EXCEPT !.step = step]
  <2>1. step \in {"done", "describing"}
    OBVIOUS
  <2>2. check' = [check EXCEPT ![c] = k] /\ UNCHANGED <<home, frozen>>
    BY <1>2 DEF Describe
  <2> HIDE DEF step
  <2>3. k \in Checks /\ k.step = step /\ k.at = check[c].at
    BY <1>1, <2>1 DEF Checks, Warning
  <2> HIDE DEF k
  <2>4. CheckInv(k, frozen, home)
    BY <1>1, <2>1, <2>3 DEF CheckInv, WalkInv, SampleInv, ProbeInv, Walking, Warning
  <2>5. QED
    BY <2>2, <2>3, <2>4, KeepsInvAlone
<1>3. CASE ProbeForWarning(c)
  <2>1. PICK answer \in {home[check[c].at], Unknown} :
          check' = [check EXCEPT ![c].step = "naming", ![c].probed = answer]
    BY <1>3 DEF ProbeForWarning
  <2>2. answer \in Answers
    BY <1>1, <2>1 DEF Answers, CapacityTypeOK
  <2> DEFINE k == [check[c] EXCEPT !.step = "naming", !.probed = answer]
  <2>3. k \in Checks /\ k.step = "naming" /\ k.at = check[c].at /\ k.probed = answer
    BY <1>1, <2>2 DEF Checks, Warning
  <2>4. check' = [check EXCEPT ![c] = k] /\ UNCHANGED <<home, frozen>>
    BY <1>3, <2>1 DEF ProbeForWarning
  <2> HIDE DEF k
  <2>5. CheckInv(k, frozen, home)
    BY <1>1, <2>1, <2>3
       DEF CheckInv, WalkInv, SampleInv, ProbeInv, AskedBy, Walking, Warning
  <2>6. QED
    BY <2>3, <2>4, <2>5, KeepsInvAlone
<1>4. CASE FreezeForWarning(c)
  <2> DEFINE at == check[c].at
             k == [check[c] EXCEPT !.step = "done"]
  <2>1. k \in Checks /\ k.step = "done"
    BY <1>1 DEF Checks
  <2>2. check' = [check EXCEPT ![c] = k]
    BY <1>4 DEF FreezeForWarning
  <2> HIDE DEF k
  <2>3. CheckInv(k, frozen', home)
    BY <2>1, Resting
  <2>4. frozen' \in Freezes /\ Grows(frozen, frozen') /\ Truthful(frozen', home)
    <3>1. CASE frozen[at] = Unasked
      <4>1. check[c].probed \in {home[at], Unknown}
        BY <1>1, <1>4 DEF FreezeForWarning, CheckInv, ProbeInv, AskedBy
      <4>2. frozen' = [frozen EXCEPT ![at] = check[c].probed]
        BY <1>4, <3>1 DEF FreezeForWarning
      <4>3. QED
        BY <1>1, <3>1, <4>1, <4>2, RecordGrows
    <3>2. CASE frozen[at] # Unasked
      <4>1. frozen' = frozen
        BY <1>4, <3>2 DEF FreezeForWarning
      <4>2. QED
        BY <4>1 DEF Grows, CapacityInv, CapacityTypeOK
    <3>3. QED
      BY <3>1, <3>2
  <2>5. QED
    BY <1>1, <2>1, <2>2, <2>3, <2>4, KeepsInv
<1>5. QED
  BY <1>2, <1>3, <1>4

LEMMA EndCheckInv ==
  ASSUME CapacityTypeOK, CapacityInv, NEW c \in Checkers, EndCheck(c)
  PROVE  CapacityTypeOK' /\ CapacityInv'
<1>1. Idle \in Checks /\ Idle.step = "idle"
  BY IdleIsACheck DEF Idle
<1>2. CheckInv(Idle, frozen, home)
  BY <1>1, Resting
<1>3. check' = [check EXCEPT ![c] = Idle] /\ UNCHANGED <<home, frozen>>
  BY DEF EndCheck
<1>4. QED
  BY <1>1, <1>2, <1>3, KeepsInvAlone

(* No identity recorded changes, in any step.                              *)
LEMMA NextGrows ==
  ASSUME CapacityTypeOK, CapacityNext
  PROVE  Grows(frozen, frozen')
<1>1. CASE UNCHANGED frozen
  BY <1>1 DEF Grows
<1>2. ASSUME NEW c \in Checkers, Freeze(c) PROVE Grows(frozen, frozen')
  BY <1>2 DEF Freeze, Grows, CapacityTypeOK, Freezes
<1>3. ASSUME NEW c \in Checkers, FreezeForWarning(c) PROVE Grows(frozen, frozen')
  BY <1>3 DEF FreezeForWarning, Grows, CapacityTypeOK, Freezes
<1>4. ASSUME NEW c \in Checkers, CheckStep(c) PROVE Grows(frozen, frozen')
  <2>1. \/ UNCHANGED frozen \/ Freeze(c) \/ FreezeForWarning(c)
    BY <1>4 DEF CheckStep, NextRoot, Peek, ProbeVolume, Sample, Describe, ProbeForWarning
  <2>2. QED
    BY <1>1, <1>2, <1>3, <2>1
<1>5. ASSUME NEW c \in Checkers,
             \/ \E r \in Roots, b \in Sizes : Estimate(c, r, b)
             \/ \E s \in Stages, d \in BOOLEAN, r \in Roots \cup {NoRoot} : Submit(c, s, d, r)
             \/ EndCheck(c)
      PROVE  Grows(frozen, frozen')
  BY <1>1, <1>5 DEF Estimate, Submit, EndCheck
<1>6. QED
  BY <1>4, <1>5 DEF CapacityNext

-----------------------------------------------------------------------------
(* The types of the checks and what each has charged, of every run of the  *)
(* checks.                                                                 *)
THEOREM CapacityInvariant == CapacitySpec => [](CapacityTypeOK /\ CapacityInv)
<1>1. CapacityInit => CapacityTypeOK /\ CapacityInv
  <2> SUFFICES ASSUME CapacityInit PROVE CapacityTypeOK /\ CapacityInv
    OBVIOUS
  <2>1. CapacityTypeOK
    BY IdleIsACheck, NamesAssumption DEF CapacityInit, CapacityTypeOK, Freezes
  <2>2. Truthful(frozen, home)
    BY DEF CapacityInit, Truthful
  <2>3. CheckInv(Idle, frozen, home)
    BY IdleIsACheck, Resting DEF Idle
  <2>4. QED
    BY <2>1, <2>2, <2>3 DEF CapacityInit, CapacityInv
<1>2. CapacityTypeOK /\ CapacityInv /\ [CapacityNext]_capacityVars
        => (CapacityTypeOK /\ CapacityInv)'
  <2> SUFFICES ASSUME CapacityTypeOK, CapacityInv, [CapacityNext]_capacityVars
               PROVE  CapacityTypeOK' /\ CapacityInv'
    OBVIOUS
  <2>1. CASE UNCHANGED capacityVars
    BY <2>1 DEF capacityVars, CapacityTypeOK, CapacityInv
  <2>2. ASSUME NEW c \in Checkers, CheckStep(c) PROVE CapacityTypeOK' /\ CapacityInv'
    BY <2>2, NextRootInv, PeekInv, ProbeVolumeInv, FreezeInv, SampleStepInv, WarningInv
       DEF CheckStep
  <2>3. QED
    BY <2>1, <2>2, EstimateInv, SubmitInv, EndCheckInv DEF CapacityNext
<1>3. QED
  BY <1>1, <1>2, PTL DEF CapacitySpec

(* When a check samples a root, what it charged follows from the           *)
(* identities recorded, for any number of checks at once.                  *)
THEOREM OneIdentityHolds == CapacitySpec => []OneIdentity
<1>1. CapacityTypeOK /\ CapacityInv => OneIdentity
  <2> SUFFICES ASSUME CapacityTypeOK, CapacityInv, NEW c \in Checkers,
                      check[c].step = "sample"
               PROVE  check[c].charged = Grouping(check[c].demand, check[c].at)
    BY DEF OneIdentity
  <2>1. SampleInv(check[c], frozen)
    BY DEF CapacityInv, CheckInv
  <2>2. CASE Whole(check[c], frozen)
    BY <2>1, <2>2 DEF SampleInv, Grouping, Whole, VolumeOf
  <2>3. CASE ~Whole(check[c], frozen)
    BY <2>1, <2>3 DEF SampleInv, Grouping, Whole, VolumeOf
  <2>4. QED
    BY <2>2, <2>3
<1>2. QED
  BY <1>1, CapacityInvariant, PTL

(* A check charges a root with every entry really on its volume.           *)
THEOREM VolumeIsCharged == CapacitySpec => []ChargesItsVolume
<1>1. CapacityTypeOK /\ CapacityInv => ChargesItsVolume
  <2> SUFFICES ASSUME CapacityTypeOK, CapacityInv, NEW c \in Checkers,
                      check[c].step = "sample", NEW i \in NonZero(check[c].demand),
                      home[check[c].demand.roots[i].root] = home[check[c].at]
               PROVE  i \in check[c].charged
    BY DEF ChargesItsVolume
  <2>1. SampleInv(check[c], frozen) /\ Truthful(frozen, home) /\ check[c] \in Checks
    BY DEF CapacityInv, CheckInv, CapacityTypeOK
  <2>2. i \in Entries(check[c].demand) /\ check[c].demand.roots[i].root \in Roots
    BY <2>1, EntriesAreRoots DEF NonZero
  <2>3. CASE Whole(check[c], frozen)
    BY <2>1, <2>2, <2>3 DEF SampleInv
  <2>4. CASE ~Whole(check[c], frozen)
    <3>1. check[c].at \in Roots /\ AllKnown(check[c], frozen)
      BY <2>1, <2>4 DEF SampleInv
    <3>2. VolumeOf(check[c], frozen, i) = home[check[c].demand.roots[i].root]
      BY <2>1, <2>2, <3>1, NamesAssumption DEF Truthful, AllKnown, VolumeOf
    <3>3. frozen[check[c].at] = home[check[c].at]
      BY <2>1, <3>1, NamesAssumption DEF Truthful, AllKnown
    <3>4. QED
      BY <2>1, <2>4, <3>2, <3>3 DEF SampleInv
  <2>5. QED
    BY <2>3, <2>4
<1>2. QED
  BY <1>1, CapacityInvariant, PTL

(* An identity recorded for a root is never recorded anew.                 *)
THEOREM FrozenOnce == CapacitySpec => IdentityFrozen
<1> DEFINE Stands == \A r \in Roots : frozen[r] # Unasked => frozen'[r] = frozen[r]
<1>1. CapacityTypeOK /\ [CapacityNext]_capacityVars => [Stands]_capacityVars
  BY NextGrows DEF Grows
<1>2. QED
  BY <1>1, CapacityInvariant, PTL DEF CapacitySpec, IdentityFrozen

-----------------------------------------------------------------------------
(* What the walk of the mods directory holds: entries that were looked up, *)
(* children that are directories, and roots that may hold work.            *)
Walked ==
  /\ walk \in {"listing", "resolving"} =>
       /\ selection.entries \in [Names -> Dirs \cup NotDirectories]
       /\ \A i \in DOMAIN children : selection.entries[children[i]] \in Dirs
  /\ walk = "idle" => children = <<>>
  /\ children \in Seq(Names)
  /\ roots \in Seq(Roots)

(* A resolution that finishes keeps what is known of the walk.             *)
LEMMA FinishKeeps ==
  ASSUME NEW result, NEW found \in Seq(Roots), Finish(result, found)
  PROVE  Walked'
<1>1. walk' = "done" /\ children' = <<>> /\ roots' = found
  BY DEF Finish
<1>2. QED
  BY <1>1 DEF Walked

(* So does one that fails or is stopped.                                   *)
LEMMA FailKeeps ==
  ASSUME NEW code, Fail(code) \/ Stopped
  PROVE  Walked'
<1>1. <<>> \in Seq(Roots)
  OBVIOUS
<1>2. QED
  BY <1>1, FinishKeeps DEF Fail, Stopped

(* Resolving adds roots and touches no check.                              *)
LEMMA WalkKeeps ==
  ASSUME Walked, SelectionStep
  PROVE  Walked'
<1>1. ASSUME NEW n \in Names, ListEntry(n) PROVE Walked'
  <2>1. CASE Stopped \/ Fail("ModSelectionResolutionFailed")
    BY <2>1, FailKeeps
  <2>2. CASE /\ children' = IF n \notin Reserved /\ IsDirectory(n)
                              THEN Append(children, n) ELSE children
             /\ UNCHANGED <<walk, roots, resolution>>
    <3>1. UNCHANGED <<selection, walk, roots>> /\ walk = "listing"
      BY <1>1, <2>2 DEF ListEntry
    <3>2. /\ children \in Seq(Names) /\ selection.entries \in [Names -> Dirs \cup NotDirectories]
          /\ \A i \in DOMAIN children : selection.entries[children[i]] \in Dirs
      BY <3>1 DEF Walked
    <3>3. IsDirectory(n) => selection.entries[n] \in Dirs
      BY <3>2 DEF IsDirectory
    <3>4. children' \in Seq(Names)
      BY <1>1, <2>2, <3>2
    <3>5. \A i \in DOMAIN children' : selection.entries[children'[i]] \in Dirs
      BY <1>1, <2>2, <3>2, <3>3
    <3>6. QED
      BY <3>1, <3>2, <3>4, <3>5 DEF Walked
  <2>3. QED
    BY <1>1, <2>1, <2>2 DEF ListEntry
<1>2. CASE SortChildren
  <2>1. /\ children \in Seq(Names) /\ walk = "listing" /\ UNCHANGED <<selection, roots>>
        /\ selection.entries \in [Names -> Dirs \cup NotDirectories]
        /\ \A i \in DOMAIN children : selection.entries[children[i]] \in Dirs
    BY <1>2 DEF SortChildren, Walked
  <2>2. PICK order \in [1 .. Len(children) -> ToSet(children)] : children' = order
    BY <1>2 DEF SortChildren
  <2>3. \A n \in ToSet(children) : n \in Names /\ selection.entries[n] \in Dirs
    BY <2>1, Members DEF ToSet
  <2>4. Len(children) \in Nat
    BY <2>1
  <2>5. order \in [1 .. Len(children) -> Names]
    BY <2>2, <2>3
  <2>6. children' \in Seq(Names)
    BY <2>2, <2>4, <2>5, SeqDef
  <2>7. \A i \in DOMAIN children' : selection.entries[children'[i]] \in Dirs
    BY <2>2, <2>3
  <2>8. roots' \in Seq(Roots) /\ walk' = "resolving"
    BY <1>2, <2>1 DEF Walked, SortChildren
  <2>9. QED
    BY <2>1, <2>6, <2>7, <2>8 DEF Walked
<1>3. CASE ResolveChild
  <2>1. CASE Stopped \/ Fail("ModSelectionResolutionFailed") \/ Fail("ConflictingModRoots")
    BY <2>1, FailKeeps
  <2>2. CASE /\ children' = Tail(children)
             /\ \/ UNCHANGED <<walk, unlisted, roots, resolution>>
                \/ UNCHANGED walk /\ ~Unsafe(selection.entries[Head(children)])
                   /\ roots' = Append(roots, selection.entries[Head(children)])
    <3>1. /\ UNCHANGED <<selection, walk>> /\ walk = "resolving" /\ children # <<>>
          /\ children \in Seq(Names) /\ roots \in Seq(Roots)
          /\ selection.entries \in [Names -> Dirs \cup NotDirectories]
          /\ \A i \in DOMAIN children : selection.entries[children[i]] \in Dirs
      BY <1>3, <2>2 DEF ResolveChild, Walked
    <3>2. /\ children' \in Seq(Names)
          /\ \A i \in DOMAIN children' : children'[i] = children[i + 1] /\ i + 1 \in DOMAIN children
      BY <2>2, <3>1
    <3>3. \A i \in DOMAIN children' : selection.entries[children'[i]] \in Dirs
      BY <3>1, <3>2
    <3>4. ~Unsafe(selection.entries[Head(children)]) => selection.entries[Head(children)] \in Roots
      <4>1. selection.entries[Head(children)] \in Dirs
        BY <3>1
      <4>2. QED
        BY <4>1, RootsAssumption DEF Unsafe
    <3>5. roots' \in Seq(Roots)
      BY <2>2, <3>1, <3>4
    <3>6. QED
      BY <3>1, <3>2, <3>3, <3>5 DEF Walked
  <2>3. QED
    BY <1>3, <2>1, <2>2 DEF ResolveChild
<1>4. CASE EndResolution
  BY <1>4, FinishKeeps DEF EndResolution, Walked
<1>5. CASE LookupFails
  BY <1>5, FailKeeps DEF LookupFails
<1>6. QED
  BY <1>1, <1>2, <1>3, <1>4, <1>5 DEF SelectionStep

(* So does selecting what to resolve.                                      *)
LEMMA SelectKeeps ==
  ASSUME Walked, NEW several, NEW selected, NEW entries \in Worlds,
         Select(several, selected, entries)
  PROVE  Walked'
<1>1. CASE Fail("ModSelectionResolutionFailed")
  BY <1>1, FailKeeps
<1>2. CASE Finish("roots", <<ModsDir>>)
  <2>1. <<ModsDir>> \in Seq(Roots)
    BY DirsAssumption, RootsAssumption
  <2>2. QED
    BY <1>2, <2>1, FinishKeeps
<1>3. CASE walk' = "listing" /\ UNCHANGED <<children, roots, resolution>>
  <2>1. selection'.entries \in [Names -> Dirs \cup NotDirectories]
    BY InputsAssumption DEF Select
  <2>2. children' = <<>>
    BY <1>3 DEF Select, Walked
  <2>3. QED
    BY <1>3, <2>1, <2>2 DEF Walked
<1>4. QED
  BY <1>1, <1>2, <1>3 DEF Select

(* What decides whether a shortage fails the run is known by then.         *)
Planned ==
  /\ phase = "form" => form.dry \in BOOLEAN
  /\ phase \in {"loading", "compiling", "compiled"} => request.dry \in BOOLEAN
  /\ phase \in {"resolving", "planning", "preflight", "working"} => plan.dry \in BOOLEAN

(* Each step of a run that touches a check is a step of the checks.        *)
LEMMA StepsOfChecks ==
  ASSUME Walked, Planned, Next
  PROVE  CapacityNext \/ UNCHANGED capacityVars
<1>1. \A r \in ToSet(roots) : r \in Roots
  BY Members DEF Walked, ToSet
<1>2. Preflighter \in Checkers
  BY InputsAssumption DEF Preflighter
<1>3. CASE PlanExtraction
  BY <1>1, <1>2, <1>3 DEF PlanExtraction, CapacityNext
<1>4. CASE Preflight
  <2>1. CASE Submit(Preflighter, "BeforeExtraction", plan.dry, NoRoot)
    <3>1. plan.dry \in BOOLEAN
      BY <1>4 DEF Planned, Preflight
    <3>2. QED
      BY <1>2, <2>1, <3>1 DEF CapacityNext, Stages
  <2>2. QED
    BY <1>4, <2>1 DEF Preflight
<1>5. CASE EndPreflight
  BY <1>2, <1>5 DEF EndPreflight, CapacityNext
<1>6. CASE CheckCapacity
  BY <1>6 DEF CheckCapacity, CapacityNext
<1>7. ASSUME NEW c \in Checkers, BeginCheck(c) PROVE CapacityNext
  <2>1. CASE \E r \in ToSet(roots), b \in Sizes : Estimate(c, r, b)
    BY <1>1, <2>1 DEF CapacityNext
  <2>2. CASE Submit(c, "BeforeCreation", plan.dry, NoRoot)
    <3>1. plan.dry \in BOOLEAN
      BY <1>7 DEF Planned, BeginCheck
    <3>2. QED
      BY <2>2, <3>1 DEF CapacityNext, Stages
  <2>3. CASE \E r \in ToSet(roots) : Submit(c, "Recheck", FALSE, r)
    BY <1>1, <2>3 DEF CapacityNext, Stages
  <2>4. QED
    BY <1>7, <2>1, <2>2, <2>3 DEF BeginCheck
<1>8. ASSUME NEW c \in Checkers, EndLaterCheck(c) PROVE CapacityNext
  BY <1>8 DEF EndLaterCheck, CapacityNext
<1>9. CASE \/ StartRun \/ LoadProfile \/ CompilePolicy \/ ResolveModRoots \/ Resolve
           \/ EndPreparing \/ RequestCancellation
  BY <1>9 DEF StartRun, LoadProfile, CompilePolicy, ResolveModRoots, Resolve,
     EndPreparing, RequestCancellation
<1>10. QED
  BY <1>3, <1>4, <1>5, <1>6, <1>7, <1>8, <1>9 DEF Next

(* No step but those of the walk touches what it holds.                    *)
LEMMA StepsOfTheWalk ==
  ASSUME Walked, Next
  PROVE  Walked'
<1>1. ASSUME UNCHANGED <<selection, walk, children, roots>> PROVE Walked'
  BY <1>1 DEF Walked
<1>2. CASE ResolveModRoots
  BY <1>2, SelectKeeps DEF ResolveModRoots
<1>3. CASE Resolve
  BY <1>3, WalkKeeps DEF Resolve
<1>4. CASE EndPreparing
  BY <1>4 DEF EndPreparing, Walked
<1>5. CASE \/ StartRun \/ LoadProfile \/ CompilePolicy \/ PlanExtraction \/ Preflight
           \/ EndPreflight \/ CheckCapacity \/ RequestCancellation
           \/ \E c \in Checkers : BeginCheck(c) \/ EndLaterCheck(c)
  <2>1. UNCHANGED <<selection, walk, children, roots>>
    BY <1>5 DEF StartRun, LoadProfile, CompilePolicy, PlanExtraction, Preflight,
       EndPreflight, CheckCapacity, RequestCancellation, BeginCheck, EndLaterCheck,
       Cancel, selectionVars
  <2>2. QED
    BY <1>1, <2>1
<1>6. QED
  BY <1>2, <1>3, <1>4, <1>5 DEF Next

LEMMA StepsOfThePlan ==
  ASSUME Planned, Next
  PROVE  Planned'
<1>1. CASE StartRun
  BY <1>1 DEF StartRun, Planned, RunRequest
<1>2. CASE LoadProfile \/ CompilePolicy
  BY <1>2 DEF LoadProfile, CompilePolicy, Planned
<1>3. CASE ResolveModRoots
  BY <1>3 DEF ResolveModRoots, Planned
<1>4. CASE EndPreparing
  BY <1>4 DEF EndPreparing, Planned
<1>5. CASE \/ Resolve \/ PlanExtraction \/ CheckCapacity \/ RequestCancellation
           \/ \E c \in Checkers : BeginCheck(c) \/ EndLaterCheck(c)
  BY <1>5 DEF Resolve, PlanExtraction, CheckCapacity, RequestCancellation, BeginCheck,
     EndLaterCheck, Planned, runVars
<1>6. CASE Preflight \/ EndPreflight
  BY <1>6 DEF Preflight, EndPreflight, Planned
<1>7. QED
  BY <1>1, <1>2, <1>3, <1>4, <1>5, <1>6 DEF Next

(* The Capacity Checks within a run are those of CapacityCheck: what holds *)
(* of every run of the checks holds of them.                               *)
THEOREM RunChecksCapacity == Spec => CapacitySpec
<1>1. Init => CapacityInit /\ Walked /\ Planned
  BY InputsAssumption DEF Init, SelectionInit, Walked, Planned
<1>2. Walked /\ Planned /\ [Next]_vars => [CapacityNext]_capacityVars /\ Walked' /\ Planned'
  <2>1. ASSUME Walked, Planned, UNCHANGED vars
        PROVE  UNCHANGED capacityVars /\ Walked' /\ Planned'
    BY <2>1 DEF vars, capacityVars, selectionVars, runVars, Walked, Planned
  <2>2. QED
    BY <2>1, StepsOfChecks, StepsOfTheWalk, StepsOfThePlan
<1>3. QED
  BY <1>1, <1>2, PTL DEF Spec, CapacitySpec

(* What each check of a run charges is what its volume holds, and no       *)
(* identity is recorded twice.                                             *)
THEOREM RunChargesVolumes == Spec => []ChargesItsVolume /\ []OneIdentity /\ IdentityFrozen
BY RunChecksCapacity, VolumeIsCharged, OneIdentityHolds, FrozenOnce, PTL

-----------------------------------------------------------------------------
(* Names have positions, and different names different ones.               *)
LEMMA Positions ==
  /\ \A n \in Names : Position(n) \in Nat
  /\ \A m, n \in Names : Position(m) = Position(n) => m = n
<1>1. ASSUME NEW n \in Names
      PROVE  Position(n) \in DOMAIN NameOrder /\ NameOrder[Position(n)] = n
  BY <1>1 DEF Names, Position
<1>2. \A i \in DOMAIN NameOrder : i \in Nat
  BY DirsAssumption
<1>3. QED
  BY <1>1, <1>2

(* A sequence is the function of its places.                               *)
LEMMA SeqIsFunction ==
  ASSUME NEW S, NEW s \in Seq(S)
  PROVE  s = [i \in DOMAIN s |-> s[i]]
BY SeqDef

(* The members and places of a longer sequence.                            *)
LEMMA AppendMembers ==
  ASSUME NEW S, NEW s \in Seq(S), NEW x \in S
  PROVE  /\ Append(s, x) \in Seq(S) /\ ToSet(Append(s, x)) = ToSet(s) \cup {x}
         /\ DOMAIN Append(s, x) = DOMAIN s \cup {Len(s) + 1}
         /\ \A i \in DOMAIN s : Append(s, x)[i] = s[i] /\ i < Len(s) + 1
         /\ Append(s, x)[Len(s) + 1] = x
<1>1. /\ Append(s, x) \in Seq(S)
      /\ DOMAIN Append(s, x) = DOMAIN s \cup {Len(s) + 1}
      /\ \A i \in DOMAIN s : Append(s, x)[i] = s[i] /\ i < Len(s) + 1
      /\ Append(s, x)[Len(s) + 1] = x
  OBVIOUS
<1>2. ToSet(Append(s, x)) = ToSet(s) \cup {x}
  BY <1>1 DEF ToSet
<1>3. QED
  BY <1>1, <1>2

(* The members and places of a sequence without its head.                  *)
LEMMA TailMembers ==
  ASSUME NEW S, NEW s \in Seq(S), s # <<>>
  PROVE  /\ Head(s) \in S /\ Tail(s) \in Seq(S)
         /\ ToSet(s) = ToSet(Tail(s)) \cup {Head(s)}
         /\ \A i \in DOMAIN Tail(s) : Tail(s)[i] = s[i + 1] /\ i + 1 \in DOMAIN s
         /\ 1 \in DOMAIN s /\ s[1] = Head(s)
<1>1. /\ Head(s) \in S /\ Tail(s) \in Seq(S) /\ 1 \in DOMAIN s /\ s[1] = Head(s)
      /\ \A i \in DOMAIN Tail(s) : Tail(s)[i] = s[i + 1] /\ i + 1 \in DOMAIN s
      /\ \A i \in DOMAIN s : i = 1 \/ (i - 1 \in DOMAIN Tail(s) /\ Tail(s)[i - 1] = s[i])
  OBVIOUS
<1>2. ToSet(s) = ToSet(Tail(s)) \cup {Head(s)}
  <2>1. \A i \in DOMAIN s : s[i] = Head(s) \/ s[i] \in ToSet(Tail(s))
    <3> SUFFICES ASSUME NEW i \in DOMAIN s, i # 1 PROVE s[i] \in ToSet(Tail(s))
      BY <1>1
    <3>1. i - 1 \in DOMAIN Tail(s) /\ Tail(s)[i - 1] = s[i]
      BY <1>1
    <3>2. QED
      BY <3>1, Zenon DEF ToSet
  <2>2. \A x : x \in ToSet(Tail(s)) \/ x = Head(s) => x \in ToSet(s)
    BY <1>1 DEF ToSet
  <2>3. QED
    BY <2>1, <2>2 DEF ToSet
<1>3. QED
  BY <1>1, <1>2

(* A name past those listed in name order can be listed next.              *)
LEMMA NextInOrder ==
  ASSUME NEW names \in Seq(Names), NEW chosen, InNameOrder(names, chosen),
         NEW n \in Names, \A m \in chosen : Position(m) < Position(n)
  PROVE  InNameOrder(Append(names, n), chosen \cup {n})
<1>1. /\ ToSet(Append(names, n)) = ToSet(names) \cup {n}
      /\ DOMAIN Append(names, n) = DOMAIN names \cup {Len(names) + 1}
      /\ \A i \in DOMAIN names : Append(names, n)[i] = names[i] /\ i < Len(names) + 1
      /\ Append(names, n)[Len(names) + 1] = n
  BY AppendMembers
<1>2. \A i \in DOMAIN names : names[i] \in chosen /\ i \in Nat
  BY Members DEF InNameOrder, ToSet
<1>3. ToSet(names) = chosen /\ \A i, j \in DOMAIN names : i < j => Position(names[i]) < Position(names[j])
  BY DEF InNameOrder
<1>4. ASSUME NEW i \in DOMAIN Append(names, n), NEW j \in DOMAIN Append(names, n), i < j
      PROVE  Position(Append(names, n)[i]) < Position(Append(names, n)[j])
  <2>1. Len(names) \in Nat
    OBVIOUS
  <2>2. i \in DOMAIN names
    BY <1>1, <1>2, <1>4, <2>1
  <2>3. CASE j \in DOMAIN names
    BY <1>1, <1>3, <1>4, <2>2, <2>3
  <2>4. CASE j = Len(names) + 1
    BY <1>1, <1>2, <2>2, <2>4
  <2>5. QED
    BY <1>1, <2>3, <2>4
<1>5. QED
  BY <1>1, <1>3, <1>4 DEF InNameOrder

Distinct(s) == \A i, j \in DOMAIN s : s[i] = s[j] => i = j

(* Sorting loses no child: an order of the same length that names only     *)
(* children, no one twice, names them all.                                 *)
LEMMA SortingKeepsAll ==
  ASSUME NEW s \in Seq(Names), Distinct(s), NEW order \in [1 .. Len(s) -> ToSet(s)],
         \A i, j \in DOMAIN order : i < j => Position(order[i]) < Position(order[j])
  PROVE  order \in Seq(Names) /\ InNameOrder(order, ToSet(s))
<1> DEFINE S == ToSet(s)
           D == 1 .. Len(s)
<1>1. Len(s) \in Nat /\ DOMAIN s = D /\ S \subseteq Names
  BY Members DEF ToSet
<1>2. IsFiniteSet(D) /\ Cardinality(D) = Len(s)
  <2>1. /\ IsFiniteSet(D)
        /\ Cardinality(D) = IF 1 > Len(s) THEN 0 ELSE Len(s) - 1 + 1
    BY <1>1, FS_Interval
  <2>2. QED
    BY <1>1, <2>1
<1>3. s \in Surjection(D, S) /\ s \in Injection(D, S)
  <2>1. s \in [D -> S]
    BY <1>1 DEF ToSet
  <2>2. QED
    BY <1>1, <2>1, Zenon DEF Surjection, Injection, Distinct, ToSet, IsInjective
<1>4. IsFiniteSet(S) /\ Cardinality(S) = Cardinality(D)
  BY <1>2, <1>3, FS_Surjection
<1>5. \A i, j \in D : order[i] = order[j] => i = j
  <2> SUFFICES ASSUME NEW i \in D, NEW j \in D, order[i] = order[j], i # j PROVE FALSE
    OBVIOUS
  <2>1. i < j \/ j < i
    BY <1>1
  <2>2. order[i] \in Names /\ order[j] \in Names
    BY <1>1
  <2>3. Position(order[i]) \in Nat
    BY <2>2, Positions
  <2>4. QED
    BY <2>1, <2>3
<1>6. order \in Injection(D, S)
  BY <1>5, Zenon DEF Injection, IsInjective
<1>7. order \in Surjection(D, S)
  BY <1>2, <1>4, <1>6, FS_Injection
<1>8. ToSet(order) = S
  <2>1. \A x \in S : \E i \in D : order[i] = x
    BY <1>7 DEF Surjection
  <2> HIDE DEF S
  <2>2. DOMAIN order = D
    BY <1>1 DEF S
  <2>3. QED
    BY <2>1, <2>2 DEF ToSet, S
<1>9. order \in Seq(Names)
  <2>1. order \in [1 .. Len(s) -> Names]
    BY <1>1
  <2>2. QED
    BY <1>1, <2>1, SeqDef
<1>10. QED
  BY <1>8, <1>9 DEF InNameOrder
Diagnostics == Seq([name : Names, code : {"SeparatorModExcluded", "IgnoredModExcluded", "none"}])

Left == ToSet(children)
Settled == ChildDirectories \ Left

(* Of several mods: the listing has met every child directory that is not  *)
(* unlisted, once; resolving has accounted for every child before those    *)
(* that are left, in name order.                                           *)
Accounted ==
  /\ walk \in {"idle", "listing", "resolving", "done"}
  /\ exclusions \in Diagnostics
  /\ walk \in {"idle", "listing"} => resolution = "none" /\ roots = <<>> /\ exclusions = <<>>
  /\ walk = "listing" => Distinct(children) /\ Left = ChildDirectories \ unlisted
  /\ walk = "resolving" =>
       /\ resolution = "none"
       /\ Left \subseteq ChildDirectories
       /\ InNameOrder(children, Left)
       /\ \A m \in Settled, n \in Left : Position(m) < Position(n)
       /\ RootsStandApart
       /\ Accounts(Settled)
  /\ walk = "done" => RootsAreSafe

(* Nothing found accounts for nothing walked.                              *)
LEMMA RootsStart ==
  ASSUME roots = <<>>, exclusions = <<>>
  PROVE  RootsStandApart /\ Accounts({})
<1>1. RootsStandApart
  BY DEF RootsStandApart
<1>2. InNameOrder(<<>>, {})
  BY DEF InNameOrder, ToSet
<1>3. Excluded({}) = {}
  BY DEF Excluded
<1>4. <<>> \in [DOMAIN roots -> {} \ Excluded({})]
  BY <1>3
<1>5. [i \in DOMAIN exclusions |-> exclusions[i].name] = <<>>
  OBVIOUS
<1>6. Accounts({})
  BY <1>2, <1>3, <1>4, <1>5 DEF Accounts
<1>7. QED
  BY <1>1, <1>6

(* A resolution that fails or is stopped promises no roots.                *)
LEMMA StoppedIsSafe ==
  ASSUME Accounted, exclusions' = exclusions,
         \/ Fail("ModSelectionResolutionFailed") \/ Fail("ConflictingModRoots")
         \/ Stopped /\ stop' = TRUE
  PROVE  Accounted'
<1>1. walk' = "done" /\ (resolution' # "roots" \/ stop' = TRUE)
  BY DEF Fail, Stopped, Finish
<1>2. RootsAreSafe'
  BY <1>1 DEF RootsAreSafe
<1>3. QED
  BY <1>1, <1>2 DEF Accounted

(* The child at hand owes an exclusion, or becomes a root apart from those *)
(* before it.                                                              *)
LEMMA ResolveAccounts ==
  ASSUME Walked, Accounted, walk = "resolving", children # <<>>, ~stop,
         UNCHANGED <<selection, stop, walk, resolution>>, children' = Tail(children),
         LET name == Head(children)
             target == selection.entries[name]
         IN \/ /\ ModExclusion(name) # "none"
               /\ exclusions' = Append(exclusions, [name |-> name, code |-> ModExclusion(name)])
               /\ roots' = roots
            \/ /\ ModExclusion(name) = "none" /\ ~Unsafe(target)
               /\ ~ \E i \in DOMAIN roots : Overlap(roots[i], target)
               /\ roots' = Append(roots, target)
               /\ exclusions' = exclusions
  PROVE  Accounted'
<1> DEFINE name == Head(children)
           target == selection.entries[name]
           Done == Settled
           After == ChildDirectories \ ToSet(Tail(children))
<1>1. /\ children \in Seq(Names) /\ roots \in Seq(Roots) /\ exclusions \in Diagnostics
      /\ \A i \in DOMAIN children : selection.entries[children[i]] \in Dirs
  BY DEF Walked, Accounted
<1>2. /\ name \in Names /\ Tail(children) \in Seq(Names)
      /\ Left = ToSet(Tail(children)) \cup {name}
      /\ \A i \in DOMAIN Tail(children) :
           Tail(children)[i] = children[i + 1] /\ i + 1 \in DOMAIN children
      /\ 1 \in DOMAIN children /\ children[1] = name
  BY <1>1, TailMembers DEF Left
<1>3. /\ Left \subseteq ChildDirectories /\ InNameOrder(children, Left)
      /\ \A m \in Done, n \in Left : Position(m) < Position(n)
      /\ RootsStandApart /\ Accounts(Done)
  BY DEF Accounted
<1>4. \A n \in ToSet(Tail(children)) : Position(name) < Position(n)
  <2> SUFFICES ASSUME NEW i \in DOMAIN Tail(children)
               PROVE  Position(name) < Position(Tail(children)[i])
    BY DEF ToSet
  <2>1. i \in Nat \ {0}
    BY <1>2
  <2>2. QED
    BY <1>2, <1>3, <2>1 DEF InNameOrder
<1>5. name \notin ToSet(Tail(children)) /\ name \in ChildDirectories
  <2>1. Position(name) \in Nat
    BY <1>2, Positions
  <2>2. QED
    BY <1>2, <1>3, <1>4, <2>1
<1>6. After = Done \cup {name} /\ \A m \in Done : Position(m) < Position(name)
  BY <1>2, <1>3, <1>5 DEF Settled
<1>7. /\ Left' = ToSet(Tail(children)) /\ ChildDirectories' = ChildDirectories
      /\ Settled' = After
  BY DEF Left, ChildDirectories, IsDirectory, Settled
<1>8. InNameOrder(children', Left')
  <2>1. ASSUME NEW i \in DOMAIN Tail(children), NEW j \in DOMAIN Tail(children), i < j
        PROVE  Position(Tail(children)[i]) < Position(Tail(children)[j])
    <3>1. i \in Nat /\ j \in Nat /\ i + 1 < j + 1
      BY <1>2, <2>1
    <3>2. QED
      BY <1>2, <1>3, <3>1 DEF InNameOrder
  <2>2. QED
    BY <1>7, <2>1 DEF InNameOrder
<1>9. \A m \in After, n \in ToSet(Tail(children)) : Position(m) < Position(n)
  BY <1>2, <1>3, <1>4, <1>6
<1>10. exclusions' \in Diagnostics /\ RootsStandApart' /\ Accounts(Settled)'
  <2> DEFINE named == [i \in DOMAIN exclusions |-> exclusions[i].name]
  <2>1. PICK accepted \in [DOMAIN roots -> Done \ Excluded(Done)] :
          /\ InNameOrder(accepted, Done \ Excluded(Done))
          /\ \A i \in DOMAIN roots : roots[i] = selection.entries[accepted[i]]
    BY <1>3 DEF Accounts
  <2>2. /\ InNameOrder(named, Excluded(Done))
        /\ \A i \in DOMAIN exclusions : exclusions[i].code = ModExclusion(exclusions[i].name)
    BY <1>3 DEF Accounts
  <2>3. accepted \in Seq(Names) /\ Len(accepted) = Len(roots)
    <3>1. Len(roots) \in Nat /\ DOMAIN roots = 1 .. Len(roots)
      BY <1>1
    <3>2. accepted \in [1 .. Len(roots) -> Names]
      BY <1>1, <2>1, <3>1 DEF ChildDirectories, Settled
    <3>3. QED
      BY <3>1, <3>2, SeqDef
  <2>4. named \in Seq(Names) /\ Len(named) = Len(exclusions)
    <3>1. Len(exclusions) \in Nat /\ DOMAIN exclusions = 1 .. Len(exclusions)
      BY <1>1 DEF Diagnostics
    <3>2. named \in [1 .. Len(exclusions) -> Names]
      <4>1. \A i \in DOMAIN exclusions : exclusions[i].name \in Names
        <5> DEFINE E == [name : Names, code : {"SeparatorModExcluded", "IgnoredModExcluded", "none"}]
        <5>1. exclusions \in Seq(E)
          BY <1>1 DEF Diagnostics
        <5>2. \A i \in DOMAIN exclusions : exclusions[i] \in E
          <6> HIDE DEF E
          <6>1. QED
            BY <5>1, Members
        <5>3. QED
          BY <5>2
      <4>2. QED
        BY <3>1, <4>1
    <3>3. QED
      BY <3>1, <3>2, SeqDef
  <2>5. CASE ModExclusion(name) # "none"
    <3> DEFINE code == ModExclusion(name)
    <3>1. /\ exclusions' = Append(exclusions, [name |-> name, code |-> code])
          /\ roots' = roots
      BY <2>5
    <3>2. Excluded(After) = Excluded(Done) \cup {name} /\ After \ Excluded(After) = Done \ Excluded(Done)
      BY <1>6, <2>5 DEF Excluded
    <3>3. InNameOrder(Append(named, name), Excluded(After))
      <4>1. \A m \in Excluded(Done) : Position(m) < Position(name)
        BY <1>6 DEF Excluded
      <4> HIDE DEF named, Done, After, name
      <4>2. InNameOrder(Append(named, name), Excluded(Done) \cup {name})
        BY <1>2, <2>2, <2>4, <4>1, NextInOrder
      <4>3. QED
        BY <3>2, <4>2
    <3>4. [name |-> name, code |-> code] \in [name : Names, code : {"SeparatorModExcluded", "IgnoredModExcluded", "none"}]
      BY <1>2 DEF ModExclusion
    <3>5. /\ exclusions' \in Diagnostics
          /\ DOMAIN exclusions' = DOMAIN exclusions \cup {Len(exclusions) + 1}
          /\ \A i \in DOMAIN exclusions : exclusions'[i] = exclusions[i] /\ i < Len(exclusions) + 1
          /\ exclusions'[Len(exclusions) + 1] = [name |-> name, code |-> code]
      BY <1>1, <3>1, <3>4, AppendMembers DEF Diagnostics
    <3>6. [i \in DOMAIN exclusions' |-> exclusions'[i].name] = Append(named, name)
      <4>1. /\ DOMAIN Append(named, name) = DOMAIN named \cup {Len(named) + 1}
            /\ \A i \in DOMAIN named : Append(named, name)[i] = named[i]
            /\ Append(named, name)[Len(named) + 1] = name
        BY <1>2, <2>4, AppendMembers
      <4>2. DOMAIN Append(named, name) = DOMAIN exclusions'
        BY <2>4, <3>5, <4>1
      <4>3. \A i \in DOMAIN exclusions' : exclusions'[i].name = Append(named, name)[i]
        BY <2>4, <3>5, <4>1
      <4>4. Append(named, name) = [i \in DOMAIN Append(named, name) |-> Append(named, name)[i]]
        BY <2>4, <1>2, AppendMembers, SeqIsFunction
      <4> HIDE DEF named
      <4>5. QED
        BY <4>2, <4>3, <4>4
    <3>7. \A i \in DOMAIN exclusions' : exclusions'[i].code = ModExclusion(exclusions'[i].name)
      BY <2>2, <3>5
    <3>8. Accounts(Settled)'
      <4>1. InNameOrder([i \in DOMAIN exclusions' |-> exclusions'[i].name], Excluded(After))
        BY <3>3, <3>6
      <4>2. \E a \in [DOMAIN roots' -> After \ Excluded(After)] :
              /\ InNameOrder(a, After \ Excluded(After))
              /\ \A i \in DOMAIN roots' : roots'[i] = selection.entries[a[i]]
        BY <2>1, <3>1, <3>2
      <4> HIDE DEF After
      <4>4. QED
        BY <1>7, <3>7, <4>1, <4>2 DEF Accounts, InNameOrder, Excluded, ModExclusion, Position
    <3>9. RootsStandApart'
      BY <1>3, <3>1 DEF RootsStandApart
    <3>10. QED
      BY <3>5, <3>8, <3>9
  <2>6. CASE /\ ModExclusion(name) = "none" /\ ~Unsafe(target)
             /\ ~ \E i \in DOMAIN roots : Overlap(roots[i], target)
             /\ roots' = Append(roots, target)
             /\ exclusions' = exclusions
    <3>1. target \in Dirs /\ target \in Roots
      <4>1. target \in Dirs
        BY <1>1, <1>2
      <4>2. QED
        BY <4>1, <2>6, RootsAssumption DEF Unsafe
    <3>2. /\ DOMAIN roots' = DOMAIN roots \cup {Len(roots) + 1}
          /\ \A i \in DOMAIN roots : roots'[i] = roots[i] /\ i < Len(roots) + 1
          /\ roots'[Len(roots) + 1] = target
      BY <1>1, <2>6, <3>1, AppendMembers
    <3>3. RootsStandApart'
      <4>1. ASSUME NEW i \in DOMAIN roots', NEW j \in DOMAIN roots', i # j
            PROVE  ~Overlap(roots'[i], roots'[j])
        BY <1>3, <2>6, <3>2, <4>1 DEF RootsStandApart, Overlap
      <4>2. \A i \in DOMAIN roots' : ~ContainsDirectory(roots'[i], ModsDir)
        BY <1>3, <2>6, <3>2 DEF RootsStandApart, Unsafe
      <4>3. QED
        BY <4>1, <4>2 DEF RootsStandApart
    <3>4. Excluded(After) = Excluded(Done)
          /\ After \ Excluded(After) = (Done \ Excluded(Done)) \cup {name}
      BY <1>5, <1>6, <2>6 DEF Excluded
    <3> DEFINE next == Append(accepted, name)
    <3>5. InNameOrder(next, After \ Excluded(After))
      <4>1. \A m \in Done \ Excluded(Done) : Position(m) < Position(name)
        BY <1>6
      <4> HIDE DEF Done, After, name
      <4>2. InNameOrder(Append(accepted, name), (Done \ Excluded(Done)) \cup {name})
        BY <1>2, <2>1, <2>3, <4>1, NextInOrder
      <4>3. QED
        BY <3>4, <4>2
    <3>6. /\ next \in Seq(Names) /\ ToSet(next) = After \ Excluded(After)
          /\ DOMAIN next = DOMAIN accepted \cup {Len(accepted) + 1}
          /\ \A i \in DOMAIN accepted : next[i] = accepted[i] /\ i < Len(accepted) + 1
          /\ next[Len(accepted) + 1] = name
      <4>1. ToSet(next) = After \ Excluded(After)
        BY <3>5 DEF InNameOrder
      <4>2. accepted \in Seq(Names) /\ name \in Names
        BY <1>2, <2>3
      <4> HIDE DEF name
      <4>3. QED
        BY <4>1, <4>2, AppendMembers
    <3>7. DOMAIN next = DOMAIN roots'
      BY <2>1, <2>3, <3>2, <3>6
    <3>8. next \in [DOMAIN roots' -> After \ Excluded(After)]
      <4>1. next = [i \in DOMAIN next |-> next[i]]
        BY <3>6, SeqIsFunction
      <4>2. \A i \in DOMAIN next : next[i] \in After \ Excluded(After)
        BY <3>6, Zenon DEF ToSet
      <4> HIDE DEF next
      <4>3. QED
        BY <3>7, <4>1, <4>2
    <3>9. \A i \in DOMAIN roots' : roots'[i] = selection.entries[next[i]]
      BY <2>1, <2>3, <3>2, <3>6
    <3>10. Accounts(Settled)'
      <4>1. /\ InNameOrder([i \in DOMAIN exclusions' |-> exclusions'[i].name], Excluded(After))
            /\ \A i \in DOMAIN exclusions' : exclusions'[i].code = ModExclusion(exclusions'[i].name)
        BY <2>2, <2>6, <3>4
      <4> HIDE DEF next, After
      <4>3. QED
        BY <1>7, <3>5, <3>8, <3>9, <4>1 DEF Accounts, InNameOrder, Excluded, ModExclusion, Position
    <3>11. QED
      BY <1>1, <2>6, <3>3, <3>10
  <2>7. QED
    BY <2>5, <2>6
<1>11. QED
  <2> HIDE DEF After, Done
  <2>1. Left' \subseteq ChildDirectories'
    BY <1>2, <1>3, <1>7
  <2>2. \A m \in Settled', n \in Left' : Position(m) < Position(n)
    BY <1>7, <1>9 DEF After
  <2>3. walk' = "resolving" /\ resolution' = "none"
    BY DEF Accounted
  <2>4. QED
    BY <1>8, <1>10, <2>1, <2>2, <2>3 DEF Accounted, Position

LEMMA ListingAccounts ==
  ASSUME Walked, Accounted, NEW n \in Names, ListEntry(n)
  PROVE  Accounted'
<1>1. CASE stop /\ Stopped
  BY <1>1, StoppedIsSafe DEF ListEntry
<1>2. CASE Fail("ModSelectionResolutionFailed")
  BY <1>2, StoppedIsSafe DEF ListEntry
<1>3. CASE /\ unlisted' = unlisted \ {n}
           /\ children' = IF n \notin Reserved /\ IsDirectory(n) THEN Append(children, n)
                          ELSE children
           /\ UNCHANGED <<walk, roots, resolution>>
  <2>1. /\ walk = "listing" /\ n \in unlisted /\ UNCHANGED <<selection, exclusions, stop>>
        /\ children \in Seq(Names) /\ Distinct(children) /\ Left = ChildDirectories \ unlisted
    BY <1>3 DEF ListEntry, Walked, Accounted
  <2>2. ChildDirectories' = ChildDirectories
    BY <2>1 DEF ChildDirectories, IsDirectory
  <2>3. CASE n \in ChildDirectories
    <3>1. children' = Append(children, n)
      BY <1>3, <2>3 DEF ChildDirectories
    <3>2. /\ ToSet(Append(children, n)) = ToSet(children) \cup {n}
          /\ DOMAIN Append(children, n) = DOMAIN children \cup {Len(children) + 1}
          /\ \A i \in DOMAIN children : Append(children, n)[i] = children[i]
          /\ Append(children, n)[Len(children) + 1] = n
      BY <2>1, AppendMembers
    <3>3. \A i \in DOMAIN children : children[i] # n
      BY <2>1 DEF Left, ToSet
    <3>4. Distinct(children')
      BY <2>1, <3>1, <3>2, <3>3 DEF Distinct
    <3>5. Left' = ChildDirectories' \ unlisted'
      BY <1>3, <2>1, <2>2, <2>3, <3>1, <3>2 DEF Left
    <3>6. QED
      BY <1>3, <2>1, <3>4, <3>5 DEF Accounted
  <2>4. CASE n \notin ChildDirectories
    <3>1. children' = children
      BY <1>3, <2>4 DEF ChildDirectories
    <3>2. Distinct(children') /\ Left' = ChildDirectories' \ unlisted'
      BY <1>3, <2>1, <2>2, <2>4, <3>1 DEF Left
    <3>3. QED
      BY <1>3, <2>1, <3>2 DEF Accounted
  <2>5. QED
    BY <2>3, <2>4
<1>4. QED
  BY <1>1, <1>2, <1>3 DEF ListEntry

LEMMA SortingAccounts ==
  ASSUME Walked, Accounted, SortChildren
  PROVE  Accounted'
<1>1. /\ walk = "listing" /\ unlisted = {} /\ walk' = "resolving"
      /\ UNCHANGED <<selection, unlisted, roots, exclusions, resolution, stop>>
      /\ children \in Seq(Names) /\ Distinct(children) /\ Left = ChildDirectories \ unlisted
      /\ roots = <<>> /\ exclusions = <<>> /\ resolution = "none"
  BY DEF SortChildren, Walked, Accounted
<1>2. PICK order \in [1 .. Len(children) -> ToSet(children)] :
        /\ \A i, j \in DOMAIN order : i < j => Position(order[i]) < Position(order[j])
        /\ children' = order
  BY DEF SortChildren
<1>3. InNameOrder(order, ToSet(children))
  BY <1>1, <1>2, SortingKeepsAll
<1>4. Left' = ChildDirectories /\ InNameOrder(children', Left') /\ Settled' = {}
  BY <1>1, <1>2, <1>3 DEF Left, Settled, InNameOrder, ChildDirectories, IsDirectory
<1>5. ChildDirectories' = ChildDirectories
  BY <1>1 DEF ChildDirectories, IsDirectory
<1>6. RootsStandApart' /\ Accounts(Settled)'
  <2>1. RootsStandApart /\ Accounts({})
    BY <1>1, RootsStart
  <2>2. RootsStandApart'
    BY <1>1 DEF RootsStandApart
  <2>3. UNCHANGED Accounts({})
    BY <1>1 DEF Accounts, InNameOrder, Excluded, ModExclusion, Position
  <2>4. QED
    BY <1>4, <2>1, <2>2, <2>3
<1>7. exclusions' \in Diagnostics
  BY <1>1 DEF Accounted
<1>8. QED
  BY <1>1, <1>4, <1>5, <1>6, <1>7 DEF Accounted, Position

(* Each step of the walk accounts for what it has met.                     *)
LEMMA WalkAccounts ==
  ASSUME Walked, Accounted, SelectionStep
  PROVE  Accounted'
<1>1. CASE ResolveChild
  <2> DEFINE name == Head(children)
             target == selection.entries[name]
  <2>1. CASE stop /\ Stopped /\ UNCHANGED exclusions
    BY <1>1, <2>1, StoppedIsSafe DEF ResolveChild
  <2>2. CASE (Fail("ModSelectionResolutionFailed") \/ Fail("ConflictingModRoots")) /\ UNCHANGED exclusions
    BY <2>2, StoppedIsSafe
  <2>3. CASE /\ ~stop /\ ModExclusion(name) # "none"
             /\ exclusions' = Append(exclusions, [name |-> name, code |-> ModExclusion(name)])
             /\ children' = Tail(children)
             /\ UNCHANGED <<walk, unlisted, roots, resolution>>
    BY <1>1, <2>3, ResolveAccounts DEF ResolveChild
  <2>4. CASE /\ ~stop /\ ModExclusion(name) = "none" /\ ~Unsafe(target)
             /\ ~ \E i \in DOMAIN roots : Overlap(roots[i], target)
             /\ roots' = Append(roots, target)
             /\ children' = Tail(children)
             /\ UNCHANGED <<walk, unlisted, exclusions, resolution>>
    BY <1>1, <2>4, ResolveAccounts DEF ResolveChild
  <2>5. QED
    BY <1>1, <2>1, <2>2, <2>3, <2>4 DEF ResolveChild
<1>2. CASE EndResolution
  <2>1. /\ walk = "resolving" /\ children = <<>> /\ walk' = "done" /\ roots' = roots
        /\ UNCHANGED <<selection, exclusions, stop>>
    BY <1>2 DEF EndResolution, Finish
  <2>2. Left = {}
    BY <2>1 DEF Left, ToSet
  <2>3. RootsStandApart /\ Accounts(ChildDirectories)
    BY <2>1, <2>2 DEF Accounted, Settled
  <2>4. (RootsStandApart /\ Accounts(ChildDirectories))'
    BY <2>1, <2>3 DEF RootsStandApart, Accounts, InNameOrder, Excluded, ModExclusion, Position,
       ChildDirectories, IsDirectory
  <2>5. QED
    BY <2>1, <2>4 DEF Accounted, RootsAreSafe
<1>3. CASE LookupFails
  BY <1>3, StoppedIsSafe DEF LookupFails
<1>4. QED
  BY <1>1, <1>2, <1>3, ListingAccounts, SortingAccounts DEF SelectionStep

LEMMA SelectAccounts ==
  ASSUME Walked, Accounted, NEW several, NEW selected, NEW entries \in Worlds,
         Select(several, selected, entries)
  PROVE  Accounted'
<1>1. /\ walk = "idle" /\ UNCHANGED <<exclusions, stop>>
      /\ selection' = [several |-> several, selected |-> selected, entries |-> entries]
  BY DEF Select
<1>2. CASE Fail("ModSelectionResolutionFailed")
  BY <1>1, <1>2, StoppedIsSafe
<1>3. CASE ~several /\ Finish("roots", <<ModsDir>>)
  <2>1. walk' = "done" /\ ~selection'.several
    BY <1>1, <1>3 DEF Finish
  <2>2. QED
    BY <1>1, <2>1 DEF Accounted, RootsAreSafe
<1>4. CASE /\ walk' = "listing" /\ unlisted' = {n \in Names : entries[n] # "absent"}
           /\ UNCHANGED <<children, roots, resolution>>
  <2>1. /\ children = <<>> /\ roots = <<>> /\ resolution = "none" /\ exclusions = <<>>
    BY <1>1 DEF Walked, Accounted
  <2>2. Left' = {} /\ Distinct(children')
    BY <1>4, <2>1 DEF Left, ToSet, Distinct
  <2>3. ChildDirectories' \subseteq unlisted'
    BY <1>1, <1>4 DEF ChildDirectories, IsDirectory, NotDirectories
  <2>4. QED
    BY <1>1, <1>4, <2>1, <2>2, <2>3 DEF Accounted
<1>5. QED
  BY <1>2, <1>3, <1>4 DEF Select

(* No other step of a run touches the walk, but to ask it to stop or to    *)
(* let go of what it selected.                                             *)
LEMMA StepsAccount ==
  ASSUME Walked, Accounted, [Next]_vars
  PROVE  Accounted'
<1>1. ASSUME UNCHANGED <<selection, walk, unlisted, children, roots, exclusions, resolution>>,
             stop' = stop \/ stop' = TRUE
      PROVE  Accounted'
  <2>1. /\ Left' = Left /\ Settled' = Settled /\ ChildDirectories' = ChildDirectories
        /\ Accounts(Settled)' = Accounts(Settled) /\ RootsStandApart' = RootsStandApart
        /\ Accounts(ChildDirectories)' = Accounts(ChildDirectories)
    BY <1>1 DEF Left, Settled, ChildDirectories, IsDirectory, Accounts, RootsStandApart,
       InNameOrder, Excluded, ModExclusion, Position
  <2>2. RootsAreSafe => RootsAreSafe'
    BY <1>1, <2>1 DEF RootsAreSafe
  <2>3. InNameOrder(children, Left)' = InNameOrder(children, Left)
    BY <1>1, <2>1 DEF InNameOrder, Position
  <2>4. QED
    BY <1>1, <2>1, <2>2, <2>3 DEF Accounted, Distinct, Position
<1>2. CASE ResolveModRoots
  BY <1>2, SelectAccounts DEF ResolveModRoots
<1>3. CASE Resolve
  BY <1>3, WalkAccounts DEF Resolve
<1>4. CASE EndPreparing
  <2>1. walk' = "done" /\ selection' = Unset /\ exclusions' = <<>>
    BY <1>4 DEF EndPreparing
  <2>2. QED
    BY <2>1 DEF Accounted, RootsAreSafe, Diagnostics
<1>5. CASE RequestCancellation
  BY <1>1, <1>5 DEF RequestCancellation, Cancel
<1>6. CASE UNCHANGED selectionVars
  BY <1>1, <1>6 DEF selectionVars
<1>7. CASE \/ StartRun \/ LoadProfile \/ CompilePolicy \/ PlanExtraction \/ Preflight
           \/ EndPreflight \/ CheckCapacity \/ UNCHANGED vars
           \/ \E c \in Checkers : BeginCheck(c) \/ EndLaterCheck(c)
  <2>1. UNCHANGED selectionVars
    BY <1>7 DEF StartRun, LoadProfile, CompilePolicy, PlanExtraction, Preflight,
       EndPreflight, CheckCapacity, BeginCheck, EndLaterCheck, vars
  <2>2. QED
    BY <1>6, <2>1
<1>8. QED
  BY <1>2, <1>3, <1>4, <1>5, <1>6, <1>7 DEF Next

(* Preparing accepts roots that stand apart, and no child directory goes    *)
(* unaccounted for: of every run, for any directories and links.            *)
THEOREM RootsHold == Spec => []RootsAreSafe
<1>1. Init => Walked /\ Accounted
  BY DEF Init, SelectionInit, Walked, Accounted, Diagnostics
<1>2. Walked /\ Accounted /\ [Next]_vars => (Walked /\ Accounted)'
  <2>1. Walked /\ [Next]_vars => Walked'
    <3>1. Walked /\ UNCHANGED vars => Walked'
      BY DEF vars, selectionVars, Walked
    <3>2. QED
      BY <3>1, StepsOfTheWalk
  <2>2. QED
    BY <2>1, StepsAccount
<1>3. Walked /\ Accounted => RootsAreSafe
  BY DEF Accounted, RootsAreSafe
<1>4. QED
  BY <1>1, <1>2, <1>3, PTL DEF Spec


-----------------------------------------------------------------------------

(* Until it is resolved a run carries the request its form made with what  *)
(* the window knew, and then the policy compiled from it.                  *)
Requested ==
  /\ phase \in {"loading", "compiling", "compiled"} =>
       SetupError(form) = "none" /\ request = RunRequest(form, known.supports)
  /\ phase = "compiled" =>
       /\ Conflicts(request.work, profile) = {}
       /\ policy = Policy(request.work, profile)

(* Every step keeps what the request was made from.                        *)
LEMMA StepsOfTheRequest ==
  ASSUME Requested, [Next]_vars
  PROVE  Requested'
<1>1. CASE StartRun
  BY <1>1 DEF StartRun, Requested
<1>2. CASE LoadProfile
  BY <1>2 DEF LoadProfile, Requested
<1>3. CASE CompilePolicy
  BY <1>3 DEF CompilePolicy, Requested
<1>4. CASE ResolveModRoots \/ EndPreparing
  BY <1>4 DEF ResolveModRoots, EndPreparing, Requested
<1>5. CASE Preflight \/ EndPreflight
  BY <1>5 DEF Preflight, EndPreflight, Requested
<1>6. CASE \/ Resolve \/ PlanExtraction \/ CheckCapacity \/ RequestCancellation \/ UNCHANGED vars
           \/ \E c \in Checkers : BeginCheck(c) \/ EndLaterCheck(c)
  BY <1>6 DEF Resolve, PlanExtraction, CheckCapacity, RequestCancellation, BeginCheck,
     EndLaterCheck, Requested, runVars, vars
<1>7. QED
  BY <1>1, <1>2, <1>3, <1>4, <1>5, <1>6 DEF Next

(* Every choice asks for work of the six kinds, each group for its own.    *)
LEMMA WorkOfGroups ==
  /\ \A g \in Groups : WorkOf[g] \subseteq Works
  /\ \A f \in Forms : AskedWork(f) \subseteq Works /\ Chosen(f) \subseteq Groups
<1>1. \A g \in Groups : WorkOf[g] \subseteq Works
  BY DEF Groups, WorkOf, Works
<1>2. QED
  BY <1>1 DEF AskedWork, Chosen

(* What a request takes from the form and the profile.                     *)
LEMMA RequestOf ==
  ASSUME NEW f, NEW k
  PROVE  LET r == RunRequest(f, k)
         IN /\ r.work = AskedWork(f) \cap k
            /\ r.level = Capped(f.level, f.mode)
            /\ r.mode = f.mode
<1>1. AskedWork(f) \subseteq Works
  BY WorkOfGroups DEF AskedWork, Chosen, Groups, WorkOf, Works
<1>2. QED
  BY <1>1 DEF RunRequest, Admission

(* There is a conflict for each work the profile does not support.         *)
LEMMA CauseOfConflicts ==
  ASSUME NEW work, NEW p
  PROVE  {c.cause : c \in WorkConflicts(work, p)} = work \ p.supports
<1>1. ASSUME NEW w \in work \ p.supports
      PROVE  \E c \in WorkConflicts(work, p) : c.cause = w
  <2> DEFINE error == IF w \in VariantWork /\ SupportsKind(p, KindOf[w])
                        THEN "UnsupportedRequestedAssetVariant"
                        ELSE "UnsupportedRequestedAssetKind"
  <2>1. [cause |-> w, error |-> error] \in WorkConflicts(work, p)
    BY Zenon DEF WorkConflicts
  <2> HIDE DEF error
  <2>2. [cause |-> w, error |-> error].cause = w
    OBVIOUS
  <2>3. QED
    BY <2>1, <2>2, Zenon
<1>2. \A c \in WorkConflicts(work, p) : c.cause \in work \ p.supports
  BY DEF WorkConflicts
<1>3. QED
  BY <1>1, <1>2

(* A request that was made asks for what was admitted, and compiles if the *)
(* profile supports that.                                                  *)
LEMMA AdmittedNow ==
  ASSUME Requested
  PROVE  AdmittedWorkCompiles
<1> DEFINE admitted == AskedWork(form) \cap known.supports
           refused == {c.cause : c \in WorkConflicts(request.work, profile)}
<1>1. phase \in {"compiling", "compiled"} => request.work = admitted
  BY RequestOf DEF Requested
<1>2. refused = request.work \ profile.supports
  BY CauseOfConflicts
<1>3. phase = "compiled" => policy.work = request.work /\ refused = {}
  <2> SUFFICES ASSUME phase = "compiled" PROVE policy.work = request.work /\ refused = {}
    OBVIOUS
  <2>1. Conflicts(request.work, profile) = {} /\ policy = Policy(request.work, profile)
    BY DEF Requested
  <2>2. WorkConflicts(request.work, profile) = {}
    BY <2>1 DEF Conflicts
  <2>3. policy.work = request.work
    BY <2>1 DEF Policy
  <2>4. QED
    BY <2>2, <2>3
<1> HIDE DEF refused
<1>4. phase = "compiling" =>
        /\ request.work = admitted
        /\ refused = admitted \ profile.supports
        /\ known.supports \subseteq profile.supports => refused = {}
  BY <1>1, <1>2
<1>5. phase = "compiled" => policy.work = admitted /\ admitted \subseteq profile.supports
  BY <1>1, <1>2, <1>3
<1> HIDE DEF admitted
<1>6. QED
  BY <1>4, <1>5 DEF AdmittedWorkCompiles, admitted, refused

(* The window shows what was requested.                                    *)
LEMMA ShownNow ==
  ASSUME Requested
  PROVE  WindowShowsTheRun
<1> SUFFICES ASSUME phase = "loading" PROVE WindowShowsTheRun
  BY DEF WindowShowsTheRun
<1> DEFINE admission == WindowAdmission(form, known.supports)
           asked(tab) == request.work \cap UNION {WorkOf[g] : g \in GroupsOf[tab]}
<1>1. /\ request.work = AskedWork(form) \cap known.supports
      /\ request.level = Capped(form.level, form.mode)
      /\ SetupError(form) = "none"
  BY RequestOf DEF Requested
<1>2. form.mode \in {"single", "several"} /\ form.level \in Levels
  BY <1>1 DEF SetupError
<1>3. admission.work = Works \cap known.supports
      /\ admission.level = IF form.mode = "several" THEN Necessary ELSE Full
  BY <1>2 DEF WindowAdmission, ChosenMode, Admission
<1>4. AskedWork(form) \subseteq Works
  BY DEF AskedWork, Chosen, Groups, WorkOf, Works
<1> HIDE DEF admission
<1>5. \A g \in Groups : WorkOf[g] \subseteq Works
  BY WorkOfGroups
<1>6. \A tab \in AssetTabs : GroupsOf[tab] \subseteq Groups
  BY DEF AssetTabs, GroupsOf, Groups
<1>7. ASSUME NEW tab \in AssetTabs, EnabledUnder(tab, admission)
      PROVE  asked(tab) # {} \/ \A g \in GroupsOf[tab] : g \in Chosen(form) => HeldBack(g, admission)
  BY <1>1, <1>3, <1>5, <1>6 DEF HeldBack, AskedWork
<1>8. ASSUME NEW tab \in AssetTabs, ~EnabledUnder(tab, admission)
      PROVE  asked(tab) = {}
  <2>1. \A g \in GroupsOf[tab] : WorkOf[g] \cap admission.work = {}
    BY <1>8 DEF EnabledUnder, HeldBack
  <2>2. request.work \subseteq admission.work
    BY <1>1, <1>3, <1>4
  <2>3. QED
    BY <2>1, <2>2
<1>9. \A g \in Groups : HeldBack(g, admission) => \A w \in WorkOf[g] : w \notin request.work
  BY <1>1, <1>3, <1>5 DEF HeldBack
<1>10. "extraction" \in WorkOf["extract"] /\ "creation" \in WorkOf["create"]
       /\ "extract" \in Groups /\ "create" \in Groups
  BY DEF WorkOf, Groups
<1>11. /\ admission.level = Necessary => request.level <= Necessary
       /\ admission.level # Necessary => request.level = form.level
  BY <1>1, <1>2, <1>3 DEF Capped, Admission, Levels, Necessary, Full
<1>12. /\ ControlState(admission).extractOff = HeldBack("extract", admission)
       /\ ControlState(admission).createOff = HeldBack("create", admission)
       /\ ControlState(admission).necessaryForced = (admission.level = Necessary)
  BY DEF ControlState
<1>13. \A tab \in AssetTabs : known.read =>
         (TabEnabled(tab, admission, known.read) <=> EnabledUnder(tab, admission))
  BY DEF TabEnabled, AssetTabs
<1>14. known.read => \A tab \in AssetTabs :
         IF TabEnabled(tab, admission, known.read)
           THEN asked(tab) # {} \/ \A g \in GroupsOf[tab] : g \in Chosen(form) => HeldBack(g, admission)
           ELSE asked(tab) = {}
  BY <1>7, <1>8, <1>13
<1>15. QED
  BY <1>9, <1>10, <1>11, <1>12, <1>14 DEF WindowShowsTheRun, admission

(* The request carries its form's work until Preparing has compiled it.     *)
THEOREM RequestInvariant == Spec => []Requested
<1>1. Init => Requested
  BY DEF Init, Requested
<1>2. QED
  BY <1>1, StepsOfTheRequest, PTL DEF Spec

(* Compiling refuses exactly the work the profile read does not support.    *)
THEOREM AdmittedCompiles == Spec => []AdmittedWorkCompiles
BY RequestInvariant, AdmittedNow, PTL

(* The window shows what the request carries, for every form and profile.   *)
THEOREM WindowShows == Spec => []WindowShowsTheRun
BY RequestInvariant, ShownNow, PTL

-----------------------------------------------------------------------------
(* Folds.  A fold over a finite set is what its equation says, for the     *)
(* choice ch of the next member and the step g that the fold takes.        *)
FoldsTo(F, S, base, ch, g) ==
  \A s \in SUBSET S : F[s] = IF s = {} THEN base ELSE g[<<ch[s], F[s \ {ch[s]}]>>]

Chooses(ch, S) == \A s \in SUBSET S : s # {} => ch[s] \in s

Small(S, n) == {s \in SUBSET S : Cardinality(s) <= n}

(* A finite set without one of its members.                                *)
LEMMA Smaller ==
  ASSUME NEW S, IsFiniteSet(S), NEW s \in SUBSET S, NEW x \in s
  PROVE  /\ IsFiniteSet(s) /\ Cardinality(s) \in Nat
         /\ s \ {x} \in SUBSET S /\ Cardinality(s \ {x}) = Cardinality(s) - 1
         /\ Cardinality(s) # 0
<1>1. IsFiniteSet(s)
  BY FS_Subset
<1>2. Cardinality(s) \in Nat /\ Cardinality(s \ {x}) = Cardinality(s) - 1
  BY <1>1, FS_CardinalityType, FS_RemoveElement
<1>3. Cardinality(s) # 0
  BY <1>1, FS_EmptySet
<1>4. QED
  BY <1>1, <1>2, <1>3

(* A fold over the subsets of a finite set exists.                         *)
LEMMA FoldExists ==
  ASSUME NEW S, IsFiniteSet(S), NEW V, NEW base \in V, NEW ch, Chooses(ch, S),
         NEW g \in [S \X V -> V]
  PROVE  \E F \in [SUBSET S -> V] : FoldsTo(F, S, base, ch, g)
<1> DEFINE Taken(F, s) == IF s = {} THEN base ELSE g[<<ch[s], F[s \ {ch[s]}]>>]
           Good(n) == \E F \in [Small(S, n) -> V] : \A s \in Small(S, n) : F[s] = Taken(F, s)
           Bad == {n \in Nat : ~Good(n)}
<1>1. Good(0)
  <2> DEFINE F == [s \in Small(S, 0) |-> base]
  <2>1. \A s \in Small(S, 0) : s = {}
    <3> SUFFICES ASSUME NEW s \in Small(S, 0) PROVE s = {}
      OBVIOUS
    <3>1. IsFiniteSet(s)
      BY FS_Subset DEF Small
    <3>2. Cardinality(s) \in Nat /\ Cardinality(s) <= 0
      BY <3>1, FS_CardinalityType DEF Small
    <3>3. QED
      BY <3>1, <3>2, FS_EmptySet
  <2>2. F \in [Small(S, 0) -> V] /\ \A s \in Small(S, 0) : F[s] = Taken(F, s)
    BY <2>1
  <2>3. QED
    BY <2>2
<1>2. ASSUME NEW n \in Nat, Good(n) PROVE Good(n + 1)
  <2>1. PICK F \in [Small(S, n) -> V] : \A s \in Small(S, n) : F[s] = Taken(F, s)
    BY <1>2
  <2> DEFINE G == [s \in Small(S, n + 1) |-> Taken(F, s)]
  <2>2. ASSUME NEW s \in Small(S, n + 1), s # {}
        PROVE  s \ {ch[s]} \in Small(S, n) /\ s \ {ch[s]} \in Small(S, n + 1) /\ ch[s] \in S
    <3>1. s \in SUBSET S /\ ch[s] \in s /\ Cardinality(s) <= n + 1
      BY <2>2 DEF Small, Chooses
    <3>2. s \ {ch[s]} \in SUBSET S /\ Cardinality(s) \in Nat
          /\ Cardinality(s \ {ch[s]}) = Cardinality(s) - 1
      <4>1. IsFiniteSet(s)
        BY <3>1, FS_Subset
      <4>2. QED
        BY <3>1, <4>1, FS_CardinalityType, FS_RemoveElement, Zenon
    <3>3. QED
      BY <3>1, <3>2 DEF Small
  <2>3. \A s \in Small(S, n + 1) : Taken(F, s) \in V
    <3> SUFFICES ASSUME NEW s \in Small(S, n + 1), s # {} PROVE Taken(F, s) \in V
      OBVIOUS
    <3>1. <<ch[s], F[s \ {ch[s]}]>> \in S \X V
      BY <2>2
    <3>2. QED
      BY <3>1
  <2>4. \A s \in Small(S, n) : G[s] = F[s]
    <3> SUFFICES ASSUME NEW s \in Small(S, n) PROVE G[s] = F[s]
      OBVIOUS
    <3>1. s \in Small(S, n + 1)
      <4>1. Cardinality(s) \in Nat
        BY FS_Subset, FS_CardinalityType DEF Small
      <4>2. QED
        BY <4>1 DEF Small
    <3>2. QED
      BY <2>1, <3>1
  <2>5. \A s \in Small(S, n + 1) : G[s] = Taken(G, s)
    BY <2>2, <2>4
  <2>6. G \in [Small(S, n + 1) -> V]
    BY <2>3
  <2> HIDE DEF G
  <2>7. QED
    BY <2>5, <2>6
<1> HIDE DEF Good
<1>3. Bad = {}
  <2> SUFFICES ASSUME Bad # {} PROVE FALSE
    OBVIOUS
  <2>1. PICK m \in Bad : \A n \in Bad : m <= n
    BY Least
  <2>2. m # 0 /\ m - 1 \in Nat
    BY <1>1
  <2>3. Good(m - 1)
    BY <2>1, <2>2
  <2>4. Good(m)
    BY <1>2, <2>2, <2>3
  <2>5. QED
    BY <2>4
<1>4. Good(Cardinality(S)) /\ Small(S, Cardinality(S)) = SUBSET S
  <2>1. Cardinality(S) \in Nat
    BY FS_CardinalityType
  <2>2. \A s \in SUBSET S : Cardinality(s) <= Cardinality(S)
    BY FS_Subset
  <2>3. QED
    BY <1>3, <2>1, <2>2 DEF Small
<1>5. QED
  BY <1>4 DEF Good, FoldsTo

(* Of the finite sets that fail, one fails by none of its members' absence. *)
LEMMA SmallestBad ==
  ASSUME NEW S, IsFiniteSet(S), NEW Bad \in SUBSET (SUBSET S), Bad # {}
  PROVE  \E s \in Bad : \A x \in s : s \ {x} \in SUBSET S /\ s \ {x} \notin Bad
<1> DEFINE Counts == {Cardinality(s) : s \in Bad}
<1>1. Counts \in SUBSET Nat /\ Counts # {}
  BY FS_Subset, FS_CardinalityType
<1>2. PICK m \in Counts : \A n \in Counts : m <= n
  BY <1>1, Least
<1>3. PICK s \in Bad : Cardinality(s) = m
  OBVIOUS
<1>4. ASSUME NEW x \in s
      PROVE  s \ {x} \in SUBSET S /\ s \ {x} \notin Bad
  <2>1. s \ {x} \in SUBSET S /\ Cardinality(s \ {x}) = m - 1 /\ m \in Nat
    BY <1>3, Smaller
  <2>2. QED
    BY <1>2, <2>1
<1>5. QED
  BY <1>4

(* Two functions of the finite subsets that agree on a set whenever they   *)
(* agree on it without the member chosen agree on all of them.             *)
LEMMA SameFolds ==
  ASSUME NEW S, IsFiniteSet(S), NEW ch, Chooses(ch, S), NEW F, NEW G, F[{}] = G[{}],
         \A s \in SUBSET S : s # {} /\ F[s \ {ch[s]}] = G[s \ {ch[s]}] => F[s] = G[s]
  PROVE  \A s \in SUBSET S : F[s] = G[s]
<1> DEFINE Bad == {s \in SUBSET S : F[s] # G[s]}
<1> SUFFICES ASSUME Bad # {} PROVE FALSE
  OBVIOUS
<1>1. PICK s \in Bad : \A x \in s : s \ {x} \in SUBSET S /\ s \ {x} \notin Bad
  <2>1. Bad \in SUBSET (SUBSET S)
    OBVIOUS
  <2> HIDE DEF Bad
  <2>2. QED
    BY <2>1, SmallestBad
<1>2. s # {} /\ ch[s] \in s
  BY DEF Chooses
<1>3. QED
  BY <1>1, <1>2
-----------------------------------------------------------------------------
(* What entries hold together, one entry at a time: the entry a fold takes *)
(* first is any, so it may be the one a reader has in mind.                *)
Bytes(demand, i) == demand.roots[i].bytes

OneOf(S) == CHOOSE x \in S : TRUE

(* The places of a demand are finitely many, their bytes numbers.          *)
LEMMA EntriesAreFinite ==
  ASSUME NEW demand \in Demands
  PROVE  /\ IsFiniteSet(Entries(demand))
         /\ \A i \in Entries(demand) : Bytes(demand, i) \in Nat /\ i \in Nat \ {0}
<1>1. demand.roots \in Seq([root : Roots, bytes : Nat])
  BY DEF Demands
<1>2. Entries(demand) = 1 .. Len(demand.roots) /\ Len(demand.roots) \in Nat
  BY <1>1 DEF Entries
<1>3. IsFiniteSet(Entries(demand))
  BY <1>2, FS_Interval
<1>4. ASSUME NEW i \in Entries(demand) PROVE Bytes(demand, i) \in Nat /\ i \in Nat \ {0}
  <2>1. demand.roots[i] \in [root : Roots, bytes : Nat] /\ i \in Nat \ {0}
    BY <1>1, Members DEF Entries
  <2>2. QED
    BY <2>1 DEF Bytes
<1>5. QED
  BY <1>3, <1>4

(* Either sum of a set is that of the set without the entry taken first,   *)
(* and that entry's bytes.                                                 *)
LEMMA TotalTakesOne ==
  ASSUME NEW demand \in Demands, NEW S \in SUBSET Entries(demand)
  PROVE  /\ TotalOf(demand, S) \in Nat
         /\ TotalOf(demand, {}) = 0
         /\ S # {} => TotalOf(demand, S) = TotalOf(demand, S \ {OneOf(S)}) + Bytes(demand, OneOf(S))
<1> DEFINE b(i) == demand.roots[i].bytes
           Body(F, T) == [s \in SUBSET T |->
                            IF s = {} THEN 0
                            ELSE F[s \ {CHOOSE x \in s : TRUE}] + b(CHOOSE x \in s : TRUE)]
           ch(T) == [s \in SUBSET T |-> OneOf(s)]
           It(T) == CHOOSE F : F = Body(F, T)
<1>1. ASSUME NEW T \in SUBSET Entries(demand)
      PROVE  /\ It(T) = Body(It(T), T) /\ It(T) \in [SUBSET T -> Nat]
             /\ IsFiniteSet(T) /\ Chooses(ch(T), T)
  <2> DEFINE g == [p \in T \X Nat |-> p[2] + b(p[1])]
  <2>1. IsFiniteSet(T)
    BY EntriesAreFinite, FS_Subset
  <2>2. \A i \in T : b(i) \in Nat
    BY EntriesAreFinite DEF Bytes
  <2>3. Chooses(ch(T), T)
    BY DEF Chooses, OneOf
  <2>4. g \in [T \X Nat -> Nat]
    BY <2>2
  <2> HIDE DEF g, ch
  <2>5. PICK F \in [SUBSET T -> Nat] : FoldsTo(F, T, 0, ch(T), g)
    BY <2>1, <2>3, <2>4, FoldExists
  <2>6. \A s \in SUBSET T : s # {} => F[s] = F[s \ {ch(T)[s]}] + b(ch(T)[s])
    <3> SUFFICES ASSUME NEW s \in SUBSET T, s # {}
                 PROVE  F[s] = F[s \ {ch(T)[s]}] + b(ch(T)[s])
      OBVIOUS
    <3>1. ch(T)[s] \in T /\ s \ {ch(T)[s]} \in SUBSET T
      BY <2>3 DEF Chooses
    <3>2. F[s] = g[<<ch(T)[s], F[s \ {ch(T)[s]}]>>]
      BY <2>5 DEF FoldsTo
    <3>3. QED
      BY <3>1, <3>2 DEF g
  <2>7. F[{}] = 0
    BY <2>5 DEF FoldsTo
  <2>8. F = Body(F, T)
    <3>1. \A s \in SUBSET T : ch(T)[s] = CHOOSE x \in s : TRUE
      BY DEF ch, OneOf
    <3>2. \A s \in SUBSET T : F[s] = IF s = {} THEN 0
                 ELSE F[s \ {CHOOSE x \in s : TRUE}] + b(CHOOSE x \in s : TRUE)
      BY <2>6, <2>7, <3>1
    <3>3. QED
      BY <3>2
  <2>9. It(T) = Body(It(T), T)
    BY <2>8, Zenon
  <2> DEFINE G == It(T)
  <2> HIDE DEF It
  <2>10. \A s \in SUBSET T : G[s] = IF s = {} THEN 0
                 ELSE G[s \ {CHOOSE x \in s : TRUE}] + b(CHOOSE x \in s : TRUE)
    <3>1. G = Body(G, T)
      BY <2>9
    <3> HIDE DEF G
    <3>2. QED
      BY <3>1
  <2>11. \A s \in SUBSET T : G[s] = F[s]
    <3>1. G[{}] = F[{}]
      BY <2>7, <2>10
    <3>2. \A s \in SUBSET T : ch(T)[s] = CHOOSE x \in s : TRUE
      BY DEF ch, OneOf
    <3> HIDE DEF G
    <3>3. \A s \in SUBSET T : s # {} /\ G[s \ {ch(T)[s]}] = F[s \ {ch(T)[s]}] => G[s] = F[s]
      <4> SUFFICES ASSUME NEW s \in SUBSET T, s # {}, G[s \ {ch(T)[s]}] = F[s \ {ch(T)[s]}]
                   PROVE  G[s] = F[s]
        OBVIOUS
      <4> DEFINE x == CHOOSE y \in s : TRUE
      <4>1. ch(T)[s] = x
        BY <3>2
      <4>2. G[s] = G[s \ {x}] + b(x)
        BY <2>10
      <4> HIDE DEF x, b
      <4>3. QED
        BY <2>6, <4>1, <4>2
    <3>4. QED
      BY <2>1, <2>3, <3>1, <3>3, SameFolds
  <2>12. G \in [SUBSET T -> Nat]
    <3>1. G = Body(G, T)
      BY <2>9
    <3> DEFINE H == Body(G, T)
    <3>2. DOMAIN H = SUBSET T
      OBVIOUS
    <3> HIDE DEF H
    <3>3. QED
      BY <2>11, <3>1, <3>2 DEF H
  <2>13. QED
    BY <2>1, <2>3, <2>9, <2>12
<1>2. \A T : TotalOf(demand, T) = It(T)[T]
  BY Zenon DEF TotalOf, FoldSet, MapThenFoldSet
<1> HIDE DEF It
<1>3. ASSUME NEW T \in SUBSET Entries(demand), NEW s \in SUBSET T
      PROVE  /\ It(T)[s] = It(s)[s] /\ It(T)[s] \in Nat
             /\ s = {} => It(T)[s] = 0
             /\ s # {} => It(T)[s] = It(T)[s \ {OneOf(s)}] + b(OneOf(s))
  <2> DEFINE F == It(T)
             G == It(s)
  <2>1. s \in SUBSET Entries(demand)
    OBVIOUS
  <2>2. F = Body(F, T) /\ F \in [SUBSET T -> Nat]
    BY <1>1
  <2>3. G = Body(G, s) /\ IsFiniteSet(s) /\ Chooses(ch(s), s)
    BY <1>1, <2>1
  <2> HIDE DEF F, G, b
  <2>4. \A t \in SUBSET T : /\ t = {} => F[t] = 0
                            /\ t # {} => F[t] = F[t \ {OneOf(t)}] + b(OneOf(t))
    BY <2>2 DEF OneOf
  <2>5. \A t \in SUBSET s : /\ t = {} => G[t] = 0
                            /\ t # {} => G[t] = G[t \ {OneOf(t)}] + b(OneOf(t))
    BY <2>3 DEF OneOf
  <2>6. \A t \in SUBSET s : ch(s)[t] = OneOf(t)
    OBVIOUS
  <2> HIDE DEF ch
  <2>7. \A t \in SUBSET s : F[t] = G[t]
    <3>1. F[{}] = G[{}]
      BY <2>4, <2>5
    <3>2. \A t \in SUBSET s : t # {} /\ F[t \ {ch(s)[t]}] = G[t \ {ch(s)[t]}] => F[t] = G[t]
      BY <2>4, <2>5, <2>6
    <3> DEFINE chosen == ch(s)
    <3>3. IsFiniteSet(s) /\ Chooses(chosen, s)
      BY <2>3
    <3>4. \A t \in SUBSET s : t # {} /\ F[t \ {chosen[t]}] = G[t \ {chosen[t]}] => F[t] = G[t]
      BY <3>2
    <3> HIDE DEF chosen, Body
    <3>5. QED
      BY ONLY <3>1, <3>3, <3>4, SameFolds
  <2>8. QED
    BY <2>2, <2>4, <2>7 DEF F, G
<1> HIDE DEF b
<1>4. QED
  <2>1. TotalOf(demand, S) = It(S)[S] /\ TotalOf(demand, {}) = It({})[{}]
        /\ TotalOf(demand, S \ {OneOf(S)}) = It(S \ {OneOf(S)})[S \ {OneOf(S)}]
    BY <1>2
  <2>2. It(S)[S] \in Nat /\ It({})[{}] = 0
    BY <1>3
  <2>3. S # {} => It(S)[S] = It(S)[S \ {OneOf(S)}] + b(OneOf(S))
    BY <1>3
  <2>4. It(S)[S \ {OneOf(S)}] = It(S \ {OneOf(S)})[S \ {OneOf(S)}]
    BY <1>3
  <2>5. b(OneOf(S)) = Bytes(demand, OneOf(S))
    BY DEF b, Bytes
  <2>6. QED
    BY <2>1, <2>2, <2>3, <2>4, <2>5

(* A sum that saturates at each step is the whole sum saturated once.      *)
LEMMA SumSaturates ==
  ASSUME NEW demand \in Demands, NEW T \in SUBSET Entries(demand)
  PROVE  SumOf(demand, T) = Saturate(TotalOf(demand, T))
<1> DEFINE b(i) == demand.roots[i].bytes
           Body(F) == [s \in SUBSET T |->
                         IF s = {} THEN 0
                         ELSE Saturate(F[s \ {CHOOSE x \in s : TRUE}] + b(CHOOSE x \in s : TRUE))]
           ch == [s \in SUBSET T |-> OneOf(s)]
           F == [s \in SUBSET T |-> Saturate(TotalOf(demand, s))]
           G == CHOOSE H : H = Body(H)
<1>1. SumOf(demand, T) = G[T]
  BY Zenon DEF SumOf, FoldSet, MapThenFoldSet
<1>2. IsFiniteSet(T) /\ \A i \in T : b(i) \in Nat
  BY EntriesAreFinite, FS_Subset DEF Bytes
<1>3. Chooses(ch, T) /\ \A s \in SUBSET T : ch[s] = OneOf(s)
  BY DEF Chooses, OneOf
<1>4. F[{}] = 0
  <2>1. TotalOf(demand, {}) = 0
    BY TotalTakesOne
  <2>2. Saturate(0) = 0
    BY BytesAssumption DEF Saturate
  <2>3. QED
    BY <2>1, <2>2
<1>5. ASSUME NEW s \in SUBSET T, s # {}
      PROVE  F[s] = Saturate(F[s \ {OneOf(s)}] + b(OneOf(s)))
  <2>1. OneOf(s) \in T /\ s \ {OneOf(s)} \in SUBSET T
    BY <1>5 DEF OneOf
  <2>2. /\ TotalOf(demand, s \ {OneOf(s)}) \in Nat
        /\ TotalOf(demand, s) = TotalOf(demand, s \ {OneOf(s)}) + b(OneOf(s))
    BY <1>5, <2>1, TotalTakesOne DEF Bytes
  <2>3. \A m, n \in Nat : Saturate(m + n) = Saturate(Saturate(m) + n)
    BY BytesAssumption DEF Saturate
  <2>4. Saturate(TotalOf(demand, s)) =
          Saturate(Saturate(TotalOf(demand, s \ {OneOf(s)})) + b(OneOf(s)))
    BY <1>2, <2>1, <2>2, <2>3
  <2>5. QED
    BY <2>1, <2>4
<1> HIDE DEF b
<1>6. F = Body(F)
  <2>1. \A s \in SUBSET T : F[s] = IF s = {} THEN 0
                 ELSE Saturate(F[s \ {CHOOSE x \in s : TRUE}] + b(CHOOSE x \in s : TRUE))
    <3> HIDE DEF F
    <3>1. QED
      BY <1>4, <1>5 DEF OneOf
  <2>2. F = [s \in SUBSET T |-> F[s]]
    OBVIOUS
  <2> HIDE DEF F
  <2>3. QED
    BY <2>1, <2>2
<1>7. G = Body(G)
  <2> HIDE DEF F
  <2>1. QED
    BY <1>6, Zenon
<1> HIDE DEF F, G
<1>8. \A s \in SUBSET T : /\ s = {} => G[s] = 0
                          /\ s # {} => G[s] = Saturate(G[s \ {OneOf(s)}] + b(OneOf(s)))
  BY <1>7 DEF OneOf
<1>9. \A s \in SUBSET T : F[s] = G[s]
  <2> HIDE DEF ch, Body
  <2>1. F[{}] = G[{}]
    BY <1>4, <1>8
  <2>2. \A s \in SUBSET T : s # {} /\ F[s \ {ch[s]}] = G[s \ {ch[s]}] => F[s] = G[s]
    BY <1>3, <1>5, <1>8
  <2>3. QED
    BY <1>2, <1>3, <2>1, <2>2, SameFolds
<1>10. F[T] = Saturate(TotalOf(demand, T))
  BY DEF F
<1>11. QED
  BY <1>1, <1>9, <1>10

(* Any entry may be taken first.                                           *)
LEMMA TotalTakesAny ==
  ASSUME NEW demand \in Demands, NEW S \in SUBSET Entries(demand), NEW i \in S
  PROVE  TotalOf(demand, S) = TotalOf(demand, S \ {i}) + Bytes(demand, i)
<1> DEFINE Fails(s) == \E j \in s : TotalOf(demand, s) # TotalOf(demand, s \ {j}) + Bytes(demand, j)
           Bad == {s \in SUBSET S : Fails(s)}
<1> SUFFICES ASSUME Bad # {} PROVE FALSE
  OBVIOUS
<1>1. IsFiniteSet(S)
  BY EntriesAreFinite, FS_Subset
<1>4. PICK s \in Bad : \A x \in s : s \ {x} \in SUBSET S /\ s \ {x} \notin Bad
  <2>1. Bad \in SUBSET (SUBSET S)
    OBVIOUS
  <2> HIDE DEF Bad
  <2>2. QED
    BY <1>1, <2>1, SmallestBad
<1>5. PICK j \in s : TotalOf(demand, s) # TotalOf(demand, s \ {j}) + Bytes(demand, j)
  OBVIOUS
<1> DEFINE k == OneOf(s)
<1>6. /\ k \in s /\ s \in SUBSET S
      /\ TotalOf(demand, s) = TotalOf(demand, s \ {k}) + Bytes(demand, k)
  BY TotalTakesOne DEF OneOf
<1> HIDE DEF k
<1>7. j # k
  BY <1>5, <1>6
<1>8. ASSUME NEW e \in s
      PROVE  /\ s \ {e} \in SUBSET S /\ s \ {e} \in SUBSET Entries(demand)
             /\ \A f \in s \ {e} : TotalOf(demand, s \ {e})
                                       = TotalOf(demand, (s \ {e}) \ {f}) + Bytes(demand, f)
  BY <1>4
<1>9. (s \ {j}) \ {k} = (s \ {k}) \ {j}
  OBVIOUS
<1> DEFINE both == (s \ {j}) \ {k}
<1>10. /\ TotalOf(demand, s \ {j}) = TotalOf(demand, both) + Bytes(demand, k)
       /\ TotalOf(demand, s \ {k}) = TotalOf(demand, both) + Bytes(demand, j)
  BY <1>6, <1>7, <1>8, <1>9
<1>11. TotalOf(demand, both) \in Nat /\ Bytes(demand, j) \in Nat /\ Bytes(demand, k) \in Nat
  BY <1>6, <1>8, TotalTakesOne, EntriesAreFinite
<1> HIDE DEF both
<1>12. QED
  BY <1>5, <1>6, <1>10, <1>11

(* More entries hold no less.                                              *)
LEMMA TotalGrows ==
  ASSUME NEW demand \in Demands, NEW T \in SUBSET Entries(demand), NEW S \in SUBSET T
  PROVE  TotalOf(demand, S) <= TotalOf(demand, T)
<1> DEFINE Bad == {t \in SUBSET T : S \subseteq t /\ ~(TotalOf(demand, S) <= TotalOf(demand, t))}
<1> SUFFICES ASSUME Bad # {} PROVE FALSE
  OBVIOUS
<1>1. IsFiniteSet(T)
  BY EntriesAreFinite, FS_Subset
<1>4. PICK t \in Bad : \A x \in t : t \ {x} \in SUBSET T /\ t \ {x} \notin Bad
  <2>1. Bad \in SUBSET (SUBSET T)
    OBVIOUS
  <2> HIDE DEF Bad
  <2>2. QED
    BY <1>1, <2>1, SmallestBad
<1>5. TotalOf(demand, S) \in Nat /\ TotalOf(demand, t) \in Nat
  BY TotalTakesOne
<1>6. PICK i \in t \ S : TRUE
  BY <1>5
<1>8. TotalOf(demand, S) <= TotalOf(demand, t \ {i})
  BY <1>4, <1>6
<1>9. /\ TotalOf(demand, t) = TotalOf(demand, t \ {i}) + Bytes(demand, i)
      /\ TotalOf(demand, t \ {i}) \in Nat /\ Bytes(demand, i) \in Nat
  BY TotalTakesAny, TotalTakesOne, EntriesAreFinite
<1>10. QED
  BY <1>5, <1>8, <1>9

(* Only the bytes of the entries matter.                                   *)
LEMMA TotalAgrees ==
  ASSUME NEW d \in Demands, NEW e \in Demands,
         NEW S \in SUBSET (Entries(d) \cap Entries(e)),
         \A i \in S : Bytes(d, i) = Bytes(e, i)
  PROVE  TotalOf(d, S) = TotalOf(e, S)
<1> DEFINE Bad == {s \in SUBSET S : TotalOf(d, s) # TotalOf(e, s)}
<1> SUFFICES ASSUME Bad # {} PROVE FALSE
  OBVIOUS
<1>1. IsFiniteSet(S)
  BY EntriesAreFinite, FS_Subset
<1>4. PICK s \in Bad : \A x \in s : s \ {x} \in SUBSET S /\ s \ {x} \notin Bad
  <2>1. Bad \in SUBSET (SUBSET S)
    OBVIOUS
  <2> HIDE DEF Bad
  <2>2. QED
    BY <1>1, <2>1, SmallestBad
<1>5. /\ s # {} => TotalOf(d, s) = TotalOf(d, s \ {OneOf(s)}) + Bytes(d, OneOf(s))
      /\ s # {} => TotalOf(e, s) = TotalOf(e, s \ {OneOf(s)}) + Bytes(e, OneOf(s))
      /\ TotalOf(d, {}) = 0 /\ TotalOf(e, {}) = 0
  BY TotalTakesOne
<1>6. s # {} /\ OneOf(s) \in s
  BY <1>5 DEF OneOf
<1>8. TotalOf(d, s \ {OneOf(s)}) = TotalOf(e, s \ {OneOf(s)})
  BY <1>4, <1>6
<1>9. QED
  BY <1>5, <1>6, <1>8

(* A demand names each root once, and its total is that of its entries.    *)
Summed(demand) ==
  /\ \A i, j \in Entries(demand) : demand.roots[i].root = demand.roots[j].root => i = j
  /\ demand.total = Saturate(TotalOf(demand, Entries(demand)))

(* Saturating early or late makes no difference.                           *)
LEMMA SaturatedOnce ==
  \A m, n, p \in Nat : /\ Saturate(Saturate(m) + n) = Saturate(m + n)
                       /\ Saturate(Saturate(m + n) + p) = Saturate(m + Saturate(n + p))
BY BytesAssumption DEF Saturate

(* Adding bytes for a root keeps every total the saturated sum.            *)
LEMMA AddSums ==
  ASSUME NEW demand \in Demands, Summed(demand), NEW root \in Roots, NEW bytes \in Nat
  PROVE  Summed(Add(demand, root, bytes))
<1> DEFINE more == Add(demand, root, bytes)
           E == Entries(demand)
           new == [i \in DOMAIN demand.roots |->
               IF demand.roots[i].root = root
                 THEN [root |-> root, bytes |-> Saturate(demand.roots[i].bytes + bytes)]
                 ELSE demand.roots[i]]
<1> SUFFICES Summed(more)
  OBVIOUS
<1>1. more \in Demands
  BY AddType
<1>2. more.total = Saturate(demand.total + bytes)
  BY DEF Add
<1>3. demand.total = Saturate(TotalOf(demand, E)) /\ TotalOf(demand, E) \in Nat
  BY TotalTakesOne DEF Summed
<1>4. demand.roots \in Seq([root : Roots, bytes : Nat])
  BY DEF Demands
<1>5. CASE \E i \in DOMAIN demand.roots : demand.roots[i].root = root
  <2>1. more.roots = new
    BY <1>5, Zenon DEF Add
  <2>2. PICK i \in E : demand.roots[i].root = root
    BY <1>5 DEF Entries
  <2> HIDE DEF more
  <2>3. Entries(more) = E
    BY <2>1 DEF Entries
  <2>4. \A j \in E : j # i => more.roots[j] = demand.roots[j]
    BY <2>1, <2>2 DEF Entries, Summed
  <2>5. more.roots[i].root = root /\ Bytes(more, i) = Saturate(Bytes(demand, i) + bytes)
    BY <2>1, <2>2 DEF Entries, Bytes
  <2> HIDE DEF new
  <2>6. \A j, k \in E : more.roots[j].root = more.roots[k].root => j = k
    BY <2>2, <2>4, <2>5 DEF Summed
  <2>7. TotalOf(more, E \ {i}) = TotalOf(demand, E \ {i}) /\ TotalOf(demand, E \ {i}) \in Nat
    <3>1. E \ {i} \in SUBSET (Entries(more) \cap Entries(demand))
      BY <2>3
    <3>2. \A j \in E \ {i} : Bytes(more, j) = Bytes(demand, j)
      BY <2>4 DEF Bytes
    <3>3. QED
      BY <1>1, <3>1, <3>2, TotalAgrees, TotalTakesOne
  <2>8. TotalOf(more, E) = TotalOf(demand, E \ {i}) + Saturate(Bytes(demand, i) + bytes)
    BY <1>1, <2>2, <2>3, <2>5, <2>7, TotalTakesAny
  <2>9. TotalOf(demand, E) = TotalOf(demand, E \ {i}) + Bytes(demand, i)
    BY <2>2, TotalTakesAny
  <2>10. Bytes(demand, i) \in Nat
    BY <2>2, EntriesAreFinite
  <2>11. more.total = Saturate(TotalOf(more, E))
    BY <1>2, <1>3, <2>7, <2>8, <2>9, <2>10, SaturatedOnce
  <2>12. QED
    BY <2>3, <2>6, <2>11 DEF Summed
<1>6. CASE ~ \E i \in DOMAIN demand.roots : demand.roots[i].root = root
  <2> DEFINE n == Len(demand.roots) + 1
  <2>1. more.roots = Append(demand.roots, [root |-> root, bytes |-> bytes])
    BY <1>6, Zenon DEF Add
  <2> HIDE DEF more
  <2>2. /\ Entries(more) = E \cup {n} /\ n \notin E
        /\ \A i \in E : more.roots[i] = demand.roots[i]
        /\ more.roots[n].root = root /\ Bytes(more, n) = bytes
    BY <1>4, <2>1 DEF Entries, Bytes
  <2> HIDE DEF n
  <2>3. \A i, j \in Entries(more) : more.roots[i].root = more.roots[j].root => i = j
    BY <1>6, <2>2 DEF Summed, Entries
  <2>4. TotalOf(more, Entries(more)) = TotalOf(more, E) + bytes
    <3>1. Entries(more) \ {n} = E /\ n \in Entries(more)
      BY <2>2
    <3>2. QED
      BY <1>1, <2>2, <3>1, TotalTakesAny
  <2>5. TotalOf(more, E) = TotalOf(demand, E)
    <3>1. E \in SUBSET (Entries(more) \cap Entries(demand))
      BY <2>2
    <3>2. \A j \in E : Bytes(more, j) = Bytes(demand, j)
      BY <2>2 DEF Bytes
    <3>3. QED
      BY <1>1, <3>1, <3>2, TotalAgrees
  <2>6. more.total = Saturate(TotalOf(more, Entries(more)))
    BY <1>2, <1>3, <2>4, <2>5, SaturatedOnce
  <2>7. QED
    BY <2>3, <2>6 DEF Summed
<1>7. QED
  BY <1>5, <1>6

-----------------------------------------------------------------------------
(* A check that has met no shortage.                                       *)
Ahead(k) == k.step \in Walking \cup {"next", "sample"}

Fitting(k) == Ahead(k) \/ (k.step = "done" /\ k.verdict = "Fits")

SharingIn(demand, h, r) ==
  {i \in NonZero(demand) : h[demand.roots[i].root] = h[r]}

(* What a check that has met no shortage has seen was enough, and a root   *)
(* with bytes that it has not seen is still to come.                       *)
RoomInv(k, h) ==
  /\ Summed(k.demand)
  /\ k.step \in {"idle", "estimating"} => \A r \in Roots : k.seen[r] = Unasked
  /\ k.step \in Warning => k.verdict # "Fits"
  /\ Fitting(k) => \A r \in Roots : k.seen[r] \notin {Unasked, Unknown} =>
       k.seen[r] >= TotalOf(k.demand, SharingIn(k.demand, h, r))
  /\ Fitting(k) /\ k.stage # "Recheck" => \A i \in NonZero(k.demand) :
       LET root == k.demand.roots[i].root
       IN \/ k.seen[root] # Unasked
          \/ Ahead(k) /\ i \in k.tested
          \/ k.step \in Walking \cup {"sample"} /\ root = k.at

Roomy == \A c \in Checkers : RoomInv(check[c], home)

(* A walk goes on, or a warning does.                                      *)
LEMMA RoomStays ==
  ASSUME NEW k, NEW m, NEW h, RoomInv(k, h),
         m.demand = k.demand, m.seen = k.seen, m.verdict = k.verdict,
         \/ /\ k.step \in Walking /\ m.step \in Walking \cup {"sample"}
            /\ m.tested = k.tested /\ m.at = k.at /\ m.stage = k.stage
         \/ k.step \in Warning /\ m.step \in Warning \cup {"done"}
  PROVE  RoomInv(m, h)
BY DEF RoomInv, Ahead, Fitting, Walking, Warning

(* A probe that is used changes neither the demand nor what was seen.      *)
LEMMA UsedKeeps ==
  ASSUME NEW k \in Checks, NEW answer
  PROVE  LET m == Used(k, answer)
         IN /\ m.demand = k.demand /\ m.seen = k.seen /\ m.verdict = k.verdict
            /\ m.tested = k.tested /\ m.at = k.at /\ m.stage = k.stage
            /\ m.step \in {"peek", "sample"}
<1> DEFINE left == {i \in NonZero(k.demand) : i > k.next}
           v == IF k.next = 0 THEN answer ELSE k.volume
           s == IF answer = Unknown THEN Entries(k.demand)
                ELSE IF k.next # 0 /\ answer = k.volume THEN k.charged \cup {k.next}
                ELSE k.charged
           t == IF answer = Unknown \/ left = {} THEN "sample" ELSE "peek"
           n == IF answer = Unknown \/ left = {} THEN k.next
                ELSE CHOOSE i \in left : \A j \in left : i <= j
<1>1. Used(k, answer) = [k EXCEPT !.volume = v, !.charged = s, !.probed = Unknown,
                                  !.step = t, !.next = n]
  BY DEF Used
<1>2. t \in {"peek", "sample"}
  OBVIOUS
<1> HIDE DEF v, s, t, n, left
<1>3. QED
  BY <1>1, <1>2 DEF Checks

(* Looking for a root's volume keeps the room found.                       *)
LEMMA WalkRoom ==
  ASSUME CapacityTypeOK, Roomy, NEW c \in Checkers,
         Peek(c) \/ ProbeVolume(c) \/ Freeze(c)
  PROVE  Roomy'
<1>1. check[c] \in Checks /\ RoomInv(check[c], home) /\ check[c].step \in Walking
  BY DEF CapacityTypeOK, Roomy, Peek, ProbeVolume, Freeze, Walking
<1>2. UNCHANGED home /\ \A d \in Checkers \ {c} : check'[d] = check[d]
  BY DEF CapacityTypeOK, Peek, ProbeVolume, Freeze, Use
<1>3. ASSUME NEW answer, Use(c, answer) PROVE RoomInv(check'[c], home)
  <2>1. check'[c] = Used(check[c], answer)
    BY <1>3, UseIsUsed DEF CapacityTypeOK
  <2> DEFINE m == Used(check[c], answer)
  <2>2. /\ m.demand = check[c].demand /\ m.seen = check[c].seen
        /\ m.verdict = check[c].verdict /\ m.tested = check[c].tested
        /\ m.at = check[c].at /\ m.stage = check[c].stage /\ m.step \in {"peek", "sample"}
    BY <1>1, UsedKeeps
  <2> HIDE DEF m
  <2>3. RoomInv(m, home)
    BY <1>1, <2>2, RoomStays DEF Walking
  <2>4. QED
    BY <2>1, <2>3 DEF m
<1>4. ASSUME NEW step \in Walking, NEW answer,
             \/ check' = [check EXCEPT ![c].step = step]
             \/ check' = [check EXCEPT ![c].step = step, ![c].probed = answer]
      PROVE  RoomInv(check'[c], home)
  <2> DEFINE m == check'[c]
  <2>1. /\ m.demand = check[c].demand /\ m.seen = check[c].seen
        /\ m.verdict = check[c].verdict /\ m.tested = check[c].tested
        /\ m.at = check[c].at /\ m.stage = check[c].stage /\ m.step \in Walking
    BY <1>1, <1>4 DEF CapacityTypeOK, Checks
  <2> HIDE DEF m
  <2>2. RoomInv(m, home)
    BY <1>1, <2>1, RoomStays
  <2>3. QED
    BY <2>2 DEF m
<1>5. RoomInv(check'[c], home)
  BY <1>3, <1>4 DEF Peek, ProbeVolume, Freeze, Walking
<1>6. QED
  BY <1>2, <1>5 DEF Roomy

(* An idle check promises no room.                                         *)
LEMMA IdleRoom == RoomInv(Idle, home)
<1>1. EmptyDemand \in Demands /\ Entries(EmptyDemand) = {}
  BY DEF EmptyDemand, Demands, Entries
<1>2. Summed(EmptyDemand)
  <2>1. TotalOf(EmptyDemand, {}) = 0
    BY <1>1, TotalTakesOne
  <2>2. Saturate(0) = 0 /\ EmptyDemand.total = 0
    BY BytesAssumption DEF Saturate, EmptyDemand
  <2>3. QED
    BY <1>1, <2>1, <2>2 DEF Summed
<1>3. /\ Idle.demand = EmptyDemand /\ Idle.step = "idle"
      /\ \A r \in Roots : Idle.seen[r] = Unasked
  BY DEF Idle
<1>4. QED
  BY <1>2, <1>3 DEF RoomInv, Warning, Fitting, Ahead, Walking

(* Beginning and ending a check keep the room found.                       *)
LEMMA BeginRoom ==
  ASSUME CapacityTypeOK, Roomy, NEW c \in Checkers,
         \/ \E r \in Roots, b \in Sizes : Estimate(c, r, b)
         \/ \E s \in Stages, d \in BOOLEAN, r \in Roots \cup {NoRoot} : Submit(c, s, d, r)
         \/ EndCheck(c)
  PROVE  Roomy'
<1>1. check[c] \in Checks /\ check[c].demand \in Demands /\ RoomInv(check[c], home)
  BY DEF CapacityTypeOK, Roomy, Checks
<1>2. UNCHANGED home /\ \A d \in Checkers \ {c} : check'[d] = check[d]
  BY DEF CapacityTypeOK, Estimate, Submit, EndCheck
<1> SUFFICES RoomInv(check'[c], home)
  BY <1>2 DEF Roomy
<1> DEFINE m == check'[c]
<1>3. ASSUME NEW r \in Roots, NEW b \in Sizes, Estimate(c, r, b) PROVE RoomInv(m, home)
  <2>1. /\ m.demand = Add(check[c].demand, r, b) /\ m.step = "estimating"
        /\ m.seen = check[c].seen /\ check[c].step \in {"idle", "estimating"}
    BY <1>1, <1>3 DEF CapacityTypeOK, Checks, Estimate
  <2>2. Summed(m.demand)
    <3>1. b \in Nat
      BY BytesAssumption
    <3>2. QED
      BY <1>1, <2>1, <3>1, AddSums DEF RoomInv
  <2> HIDE DEF m
  <2>3. QED
    BY <1>1, <2>1, <2>2 DEF RoomInv, Warning, Fitting, Ahead, Walking
<1>4. ASSUME NEW s \in Stages, NEW d \in BOOLEAN, NEW r \in Roots \cup {NoRoot},
             Submit(c, s, d, r)
      PROVE  RoomInv(m, home)
  <2>1. /\ m.demand = check[c].demand /\ m.step = "next" /\ m.seen = check[c].seen
        /\ m.stage = s /\ check[c].step = "estimating"
        /\ m.tested = IF r = NoRoot THEN NonZero(check[c].demand)
             ELSE {i \in Entries(check[c].demand) : check[c].demand.roots[i].root = r}
        /\ (r = NoRoot) <=> (s # "Recheck")
    BY <1>1, <1>4 DEF CapacityTypeOK, Checks, Submit
  <2> HIDE DEF m
  <2>2. Summed(m.demand) /\ \A q \in Roots : m.seen[q] = Unasked
    BY <1>1, <2>1 DEF RoomInv
  <2>3. m.stage # "Recheck" => m.tested = NonZero(m.demand)
    BY <2>1
  <2>4. QED
    BY <2>1, <2>2, <2>3 DEF RoomInv, Warning, Fitting, Ahead, Walking
<1>5. CASE EndCheck(c)
  <2>1. m = Idle
    BY <1>5 DEF EndCheck, CapacityTypeOK
  <2>2. QED
    BY <2>1, IdleRoom
<1>6. QED
  BY <1>3, <1>4, <1>5

(* The steps ahead of the volume's test, and those after.                  *)
LEMMA StepsAhead ==
  ASSUME NEW k
  PROVE  /\ k.step = "next" => Ahead(k) /\ k.step \notin Walking \cup {"sample"}
         /\ k.step \in {"sample", "peek"} => Ahead(k) /\ k.step \in Walking \cup {"sample"}
         /\ Ahead(k) => Fitting(k) /\ k.step \notin Warning \cup {"idle", "estimating"}
<1>1. k.step = "next" => Ahead(k) /\ k.step \notin Walking \cup {"sample"}
  BY DEF Ahead, Walking
<1>2. k.step \in {"sample", "peek"} => Ahead(k) /\ k.step \in Walking \cup {"sample"}
  BY DEF Ahead, Walking
<1>3. Ahead(k) => Fitting(k) /\ k.step \notin Warning \cup {"idle", "estimating"}
  <2>1. Ahead(k) => k.step \notin Warning \cup {"idle", "estimating"}
    BY DEF Ahead, Walking, Warning
  <2>2. QED
    BY <2>1 DEF Fitting
<1>4. QED
  BY <1>1, <1>2, <1>3

(* The next root to test, or none: then every root with bytes was seen.    *)
LEMMA NextRoom ==
  ASSUME CapacityTypeOK, Roomy, NEW c \in Checkers, NextRoot(c)
  PROVE  Roomy'
<1>1. check[c] \in Checks /\ RoomInv(check[c], home) /\ check[c].step = "next"
  BY DEF CapacityTypeOK, Roomy, NextRoot
<1>2. UNCHANGED home /\ \A d \in Checkers \ {c} : check'[d] = check[d]
  BY DEF CapacityTypeOK, NextRoot
<1> SUFFICES RoomInv(check'[c], home)
  BY <1>2 DEF Roomy
<1> DEFINE m == check'[c]
<1>3. CASE check[c].tested = {}
  <2>1. /\ m.demand = check[c].demand /\ m.step = "done" /\ m.seen = check[c].seen
        /\ m.stage = check[c].stage
    BY <1>1, <1>3 DEF CapacityTypeOK, Checks, NextRoot
  <2> HIDE DEF m
  <2>2. Fitting(check[c]) /\ Ahead(check[c]) /\ check[c].step \notin Walking \cup {"sample"}
    BY <1>1, StepsAhead
  <2>3. /\ Summed(m.demand)
        /\ \A r \in Roots : m.seen[r] \notin {Unasked, Unknown} =>
             m.seen[r] >= TotalOf(m.demand, SharingIn(m.demand, home, r))
    BY <1>1, <2>1, <2>2 DEF RoomInv
  <2>4. m.stage # "Recheck" => \A i \in NonZero(m.demand) : m.seen[m.demand.roots[i].root] # Unasked
    BY <1>1, <1>3, <2>1, <2>2 DEF RoomInv
  <2>5. m.step \notin Warning \cup {"idle", "estimating"}
    BY <2>1 DEF Warning
  <2>6. RoomInv(m, home)
    BY <2>3, <2>4, <2>5 DEF RoomInv
  <2>7. QED
    BY <2>6 DEF m
<1>4. CASE check[c].tested # {}
  <2> DEFINE i == FirstTested(c)
             at == check[c].demand.roots[i].root
             alone == Alone(check[c].demand, at)
             step == IF alone THEN "sample" ELSE "peek"
             charged == IF alone THEN Entries(check[c].demand) ELSE {}
  <2>1. check' = [check EXCEPT ![c].step = step, ![c].tested = @ \ {i}, ![c].at = at,
                               ![c].next = 0, ![c].charged = charged]
    BY <1>4 DEF NextRoot
  <2>2. step \in {"sample", "peek"}
    OBVIOUS
  <2> HIDE DEF i, step, charged
  <2>3. /\ m.demand = check[c].demand /\ m.step = step /\ m.seen = check[c].seen
        /\ m.stage = check[c].stage /\ m.tested = check[c].tested \ {i} /\ m.at = at
    BY <1>1, <2>1 DEF CapacityTypeOK, Checks
  <2> HIDE DEF m
  <2>4. /\ Fitting(check[c]) /\ Ahead(check[c]) /\ check[c].step \notin Walking \cup {"sample"}
        /\ Ahead(m) /\ m.step \in Walking \cup {"sample"}
        /\ m.step \notin Warning \cup {"idle", "estimating"}
    BY <1>1, <2>2, <2>3, StepsAhead
  <2>5. /\ Summed(m.demand)
        /\ \A r \in Roots : m.seen[r] \notin {Unasked, Unknown} =>
             m.seen[r] >= TotalOf(m.demand, SharingIn(m.demand, home, r))
    BY <1>1, <2>3, <2>4 DEF RoomInv
  <2>6. m.stage # "Recheck" => \A j \in NonZero(m.demand) :
          \/ m.seen[m.demand.roots[j].root] # Unasked
          \/ j \in m.tested
          \/ m.demand.roots[j].root = m.at
    <3> SUFFICES ASSUME m.stage # "Recheck", NEW j \in NonZero(m.demand)
                 PROVE  \/ m.seen[m.demand.roots[j].root] # Unasked
                        \/ j \in m.tested
                        \/ m.demand.roots[j].root = m.at
      OBVIOUS
    <3>1. check[c].seen[m.demand.roots[j].root] # Unasked \/ j \in check[c].tested
      BY <1>1, <2>3, <2>4 DEF RoomInv
    <3>2. j = i => m.demand.roots[j].root = m.at
      BY <2>3
    <3>3. QED
      BY <2>3, <3>1, <3>2
  <2>7. RoomInv(m, home)
    BY <2>4, <2>5, <2>6 DEF RoomInv
  <2>8. QED
    BY <2>7 DEF m
<1>5. QED
  BY <1>3, <1>4

(* Free space that is no shortage holds what is really on the volume.      *)
LEMMA NoShortage ==
  ASSUME CapacityTypeOK, CapacityInv, ChargesItsVolume, Roomy, NEW c \in Checkers,
         check[c].step = "sample", NEW free \in 0 .. MaxBytes - 1, ~(free < Required(c))
  PROVE  free >= TotalOf(check[c].demand, SharingIn(check[c].demand, home, check[c].at))
<1> DEFINE d == check[c].demand
           charged == check[c].charged
           sharing == SharingIn(d, home, check[c].at)
<1>1. d \in Demands /\ SampleInv(check[c], frozen) /\ Summed(d)
  BY DEF CapacityTypeOK, Checks, CapacityInv, CheckInv, Roomy, RoomInv
<1>2. charged \subseteq Entries(d)
  BY <1>1 DEF SampleInv, NonZero
<1>3. sharing \subseteq charged
  BY DEF ChargesItsVolume, SharingIn
<1>4. Required(c) = Saturate(TotalOf(d, charged))
  <2>1. CASE charged = Entries(d)
    BY <1>1, <2>1 DEF Required, Summed
  <2>2. CASE charged # Entries(d)
    BY <1>1, <1>2, <2>2, SumSaturates DEF Required
  <2>3. QED
    BY <2>1, <2>2
<1> HIDE DEF d, charged, sharing
<1>5. /\ TotalOf(d, charged) \in Nat /\ TotalOf(d, sharing) \in Nat
      /\ TotalOf(d, sharing) <= TotalOf(d, charged)
  BY <1>1, <1>2, <1>3, TotalTakesOne, TotalGrows
<1>6. free >= TotalOf(d, sharing)
  BY <1>4, <1>5, BytesAssumption DEF Saturate
<1>7. QED
  BY <1>6 DEF d, sharing

(* Testing a volume finds the room its total needs.                        *)
LEMMA SampleRoom ==
  ASSUME CapacityTypeOK, CapacityInv, ChargesItsVolume, Roomy, NEW c \in Checkers, Sample(c)
  PROVE  Roomy'
<1>1. check[c] \in Checks /\ RoomInv(check[c], home) /\ check[c].step = "sample"
      /\ SampleInv(check[c], frozen)
  BY DEF CapacityTypeOK, Roomy, Sample, CapacityInv, CheckInv
<1>2. UNCHANGED home /\ \A d \in Checkers \ {c} : check'[d] = check[d]
  BY DEF CapacityTypeOK, Sample
<1> SUFFICES RoomInv(check'[c], home)
  BY <1>2 DEF Roomy
<1> DEFINE m == check'[c]
           at == check[c].at
<1>3. PICK free \in (0 .. MaxBytes - 1) \cup {Unknown} :
        LET short == free # Unknown /\ free < Required(c)
        IN check' = [check EXCEPT
            ![c].seen = [@ EXCEPT ![check[c].at] = free],
            ![c].step = IF ~short THEN "next"
                        ELSE IF Verdict(check[c].stage, check[c].dry) = "Warn"
                          THEN "describe" ELSE "done",
            ![c].next = 0, ![c].volume = Unknown, ![c].charged = {},
            ![c].verdict = IF short THEN Verdict(check[c].stage, check[c].dry) ELSE "none"]
  BY DEF Sample
<1> DEFINE short == free # Unknown /\ free < Required(c)
           step == IF ~short THEN "next"
                   ELSE IF Verdict(check[c].stage, check[c].dry) = "Warn"
                     THEN "describe" ELSE "done"
           verdict == IF short THEN Verdict(check[c].stage, check[c].dry) ELSE "none"
           seen == [check[c].seen EXCEPT ![at] = free]
<1>4. check' = [check EXCEPT ![c].seen = seen, ![c].step = step, ![c].next = 0,
                  ![c].volume = Unknown, ![c].charged = {}, ![c].verdict = verdict]
  BY <1>3
<1>5. /\ short => step \in {"describe", "done"} /\ verdict # "Fits"
      /\ ~short => step = "next"
  BY DEF Verdict
<1>6. at \in Roots /\ check[c].seen \in [Roots -> Nat \cup {Unknown, Unasked}]
  BY <1>1 DEF SampleInv, Checks
<1>7. seen[at] = free /\ \A r \in Roots \ {at} : seen[r] = check[c].seen[r]
  BY <1>6
<1> HIDE DEF step, verdict, seen
<1>8. /\ m.demand = check[c].demand /\ m.step = step /\ m.seen = seen
      /\ m.stage = check[c].stage /\ m.tested = check[c].tested /\ m.verdict = verdict
  BY <1>1, <1>4 DEF CapacityTypeOK, Checks
<1>9. free # Unasked
  BY NamesAssumption, BytesAssumption
<1> DEFINE need(r) == TotalOf(check[c].demand, SharingIn(check[c].demand, home, r))
<1>10. ~short => (free # Unknown => free >= need(at))
  <2> SUFFICES ASSUME ~short, free # Unknown PROVE free >= need(at)
    OBVIOUS
  <2>1. free \in 0 .. MaxBytes - 1 /\ ~(free < Required(c))
    OBVIOUS
  <2>2. QED
    BY <1>1, <2>1, NoShortage
<1> HIDE DEF m, short
<1>11. CASE short
  BY <1>1, <1>5, <1>8, <1>11 DEF RoomInv, Warning, Fitting, Ahead, Walking, m
<1>12. CASE ~short
  <2>1. m.step = "next" /\ Ahead(m) /\ Fitting(m) /\ Fitting(check[c]) /\ Ahead(check[c])
    <3>1. m.step = "next"
      BY <1>5, <1>8, <1>12
    <3>2. QED
      BY <1>1, <3>1, StepsAhead
  <2>2. \A r \in Roots : m.seen[r] \notin {Unasked, Unknown} => m.seen[r] >= need(r)
    <3>1. \A r \in Roots \ {at} : check[c].seen[r] \notin {Unasked, Unknown} =>
                                      check[c].seen[r] >= need(r)
      BY <1>1, <2>1 DEF RoomInv
    <3> HIDE DEF need
    <3>2. QED
      BY <1>6, <1>7, <1>8, <1>10, <1>12, <3>1
  <2>3. m.stage # "Recheck" => \A i \in NonZero(m.demand) :
          m.seen[m.demand.roots[i].root] # Unasked \/ i \in m.tested
    <3> SUFFICES ASSUME m.stage # "Recheck", NEW i \in NonZero(m.demand)
                 PROVE  m.seen[m.demand.roots[i].root] # Unasked \/ i \in m.tested
      OBVIOUS
    <3>1. m.demand.roots[i].root \in Roots
      BY <1>1, <1>8, EntriesAreRoots DEF NonZero
    <3>2. \/ check[c].seen[m.demand.roots[i].root] # Unasked \/ i \in check[c].tested
          \/ m.demand.roots[i].root = at
      BY <1>1, <1>8, <2>1 DEF RoomInv
    <3>3. QED
      BY <1>6, <1>7, <1>8, <1>9, <3>1, <3>2
  <2>4. Summed(m.demand)
    BY <1>1, <1>8 DEF RoomInv
  <2>5. RoomInv(m, home)
    BY <1>8, <2>1, <2>2, <2>3, <2>4 DEF RoomInv, Warning
  <2>6. QED
    BY <2>5 DEF m
<1>13. QED
  BY <1>11, <1>12

(* Describing a warning keeps the room found.                              *)
LEMMA WarningRoom ==
  ASSUME CapacityTypeOK, Roomy, NEW c \in Checkers,
         Describe(c) \/ ProbeForWarning(c) \/ FreezeForWarning(c)
  PROVE  Roomy'
<1>1. check[c] \in Checks /\ RoomInv(check[c], home) /\ check[c].step \in Warning
  BY DEF CapacityTypeOK, Roomy, Describe, ProbeForWarning, FreezeForWarning, Warning
<1>2. UNCHANGED home /\ \A d \in Checkers \ {c} : check'[d] = check[d]
  BY DEF CapacityTypeOK, Describe, ProbeForWarning, FreezeForWarning
<1> DEFINE m == check'[c]
<1>3. /\ m.demand = check[c].demand /\ m.seen = check[c].seen
      /\ m.verdict = check[c].verdict /\ m.step \in Warning \cup {"done"}
  BY <1>1 DEF CapacityTypeOK, Checks, Describe, ProbeForWarning, FreezeForWarning, Warning
<1> HIDE DEF m
<1>4. RoomInv(m, home)
  BY <1>1, <1>3, RoomStays
<1>5. QED
  BY <1>2, <1>4 DEF Roomy, m

(* A check of a whole phase that fits saw every root with bytes, and each  *)
(* root it saw had room for what is really on its volume, whatever the     *)
(* other checks asked meanwhile and however sums saturate.                 *)
THEOREM FitsIsRoom == CapacitySpec => []FitsHasRoom
<1>1. CapacityInit => Roomy
  BY IdleRoom DEF CapacityInit, Roomy
<1>2. CapacityTypeOK /\ CapacityInv /\ ChargesItsVolume /\ Roomy /\ [CapacityNext]_capacityVars
        => Roomy'
  <2> SUFFICES ASSUME CapacityTypeOK, CapacityInv, ChargesItsVolume, Roomy,
                      [CapacityNext]_capacityVars
               PROVE  Roomy'
    OBVIOUS
  <2>1. CASE UNCHANGED capacityVars
    BY <2>1 DEF capacityVars, Roomy
  <2>2. ASSUME NEW c \in Checkers, CheckStep(c) PROVE Roomy'
    BY <2>2, NextRoom, WalkRoom, SampleRoom, WarningRoom DEF CheckStep
  <2>3. QED
    BY <2>1, <2>2, BeginRoom DEF CapacityNext
<1>3. CapacityTypeOK /\ Roomy => FitsHasRoom
  <2> SUFFICES ASSUME CapacityTypeOK, Roomy, NEW c \in Checkers, check[c].step = "done",
                      check[c].verdict = "Fits"
               PROVE  /\ \A r \in Roots : check[c].seen[r] \notin {Unasked, Unknown} =>
                           check[c].seen[r] >= TotalOf(check[c].demand, Sharing(check[c].demand, r))
                      /\ check[c].stage # "Recheck" => \A i \in NonZero(check[c].demand) :
                           check[c].seen[check[c].demand.roots[i].root] # Unasked
    BY DEF FitsHasRoom
  <2>1. RoomInv(check[c], home) /\ Fitting(check[c]) /\ ~Ahead(check[c])
    BY DEF Roomy, Fitting, Ahead, Walking
  <2>2. \A r : Sharing(check[c].demand, r) = SharingIn(check[c].demand, home, r)
    BY DEF Sharing, SharingIn
  <2>3. QED
    BY <2>1, <2>2 DEF RoomInv, Walking
<1>4. QED
  BY <1>1, <1>2, <1>3, CapacityInvariant, VolumeIsCharged, PTL DEF CapacitySpec

(* The checks of a run are among them.                                      *)
THEOREM RunHasRoom == Spec => []FitsHasRoom
BY RunChecksCapacity, FitsIsRoom, PTL

-----------------------------------------------------------------------------
(* The Routing Ledger, one path after another.                             *)
Decided(pol) == {Route(pol, e) : e \in STRING}

Ledgers(pol) == [routed : Seq(Decided(pol)), skipped : [SkipReasons -> Nat]]

Routed(pol, e) == Route(pol, e).disposition = "routed"
Skipped(pol, e, reason) ==
  Route(pol, e).disposition = "skipped" /\ Route(pol, e).reason = reason

(* What Route decides, and what it says of a path it routes or skips.      *)
LEMMA Decision ==
  ASSUME NEW pol, NEW e
  PROVE  /\ Routed(pol, e) <=> Recognized(pol, e) /\ Operations(pol, e) # {}
         /\ Routed(pol, e) =>
              /\ Route(pol, e).path = e /\ Route(pol, e).phase = Phase(pol, e)
              /\ Route(pol, e).operations = Operations(pol, e)
         /\ \A r \in SkipReasons : Skipped(pol, e, r) <=>
              Recognized(pol, e) /\ Operations(pol, e) = {} /\ r = SkipReason(pol, e)
         /\ Route(pol, e).disposition = "skipped" => Route(pol, e).reason \in SkipReasons
         /\ Route(pol, e).disposition \in {"routed", "skipped", "unsupported"}
<1>1. CASE ~Recognized(pol, e)
  BY <1>1 DEF Route, Routed, Skipped
<1>2. CASE Recognized(pol, e) /\ Operations(pol, e) # {}
  BY <1>2 DEF Route, Routed, Skipped
<1>3. CASE Recognized(pol, e) /\ Operations(pol, e) = {}
  <2>1. Route(pol, e) = [disposition |-> "skipped", reason |-> SkipReason(pol, e)]
    BY <1>3 DEF Route
  <2>2. SkipReason(pol, e) \in SkipReasons
    BY DEF SkipReason, SkipReasons
  <2>3. QED
    BY <1>3, <2>1, <2>2 DEF Routed, Skipped
<1>4. QED
  BY <1>1, <1>2, <1>3

(* Recording a decision extends the routed or counts one skip.             *)
LEMMA RecordedType ==
  ASSUME NEW pol, NEW ledger \in Ledgers(pol), NEW e \in STRING
  PROVE  LET next == Recorded(ledger, Route(pol, e))
         IN /\ next \in Ledgers(pol)
            /\ Routed(pol, e) => /\ next.routed = Append(ledger.routed, Route(pol, e))
                                 /\ next.skipped = ledger.skipped
            /\ ~Routed(pol, e) => next.routed = ledger.routed
            /\ \A r \in SkipReasons : next.skipped[r] =
                 IF Skipped(pol, e, r) THEN ledger.skipped[r] + 1 ELSE ledger.skipped[r]
<1> DEFINE d == Route(pol, e)
<1>1. /\ ledger.routed \in Seq(Decided(pol)) /\ ledger.skipped \in [SkipReasons -> Nat]
      /\ d \in Decided(pol)
  BY DEF Ledgers, Decided
<1> HIDE DEF d
<1>2. CASE d.disposition = "routed"
  <2>1. Recorded(ledger, d) = [ledger EXCEPT !.routed = Append(@, d)]
    BY <1>2 DEF Recorded
  <2>2. Append(ledger.routed, d) \in Seq(Decided(pol))
    BY <1>1
  <2>3. QED
    BY <1>1, <1>2, <2>1, <2>2 DEF Ledgers, Routed, Skipped, d
<1>3. CASE d.disposition = "skipped"
  <2>1. Recorded(ledger, d) = [ledger EXCEPT !.skipped[d.reason] = @ + 1]
    BY <1>3 DEF Recorded
  <2>2. d.reason \in SkipReasons
    BY <1>3, Decision DEF d
  <2> DEFINE skips == [ledger.skipped EXCEPT ![d.reason] = @ + 1]
             next == [ledger EXCEPT !.skipped = skips]
  <2>3. Recorded(ledger, d) = next
    BY <2>1
  <2>4. /\ skips \in [SkipReasons -> Nat]
        /\ \A r \in SkipReasons : skips[r] =
             IF r = d.reason THEN ledger.skipped[r] + 1 ELSE ledger.skipped[r]
    BY <1>1, <2>2
  <2> HIDE DEF skips
  <2>5. next \in Ledgers(pol) /\ next.routed = ledger.routed /\ next.skipped = skips
    BY <2>4 DEF Ledgers
  <2>6. ~Routed(pol, e) /\ \A r \in SkipReasons : Skipped(pol, e, r) <=> r = d.reason
    BY <1>3 DEF Routed, Skipped, d
  <2> HIDE DEF next
  <2>7. QED
    BY <2>3, <2>4, <2>5, <2>6 DEF d
<1>4. CASE d.disposition \notin {"routed", "skipped"}
  BY <1>1, <1>4 DEF Recorded, Ledgers, Routed, Skipped, d
<1>5. QED
  BY <1>2, <1>3, <1>4

(* A nonempty set of places has a greatest.                                *)
LEMMA GreatestPlace ==
  ASSUME NEW n \in Nat, NEW s \in SUBSET (1 .. n), s # {}
  PROVE  Max(s) \in s
<1> DEFINE gaps == {n - i : i \in s}
<1>1. gaps \in SUBSET Nat /\ gaps # {}
  <2>1. \A i \in s : n - i \in Nat
    OBVIOUS
  <2>2. QED
    BY <2>1
<1>2. PICK gap \in gaps : \A other \in gaps : gap <= other
  BY <1>1, Least
<1>3. PICK i \in s : gap = n - i
  OBVIOUS
<1>4. ASSUME NEW j \in s PROVE i >= j
  <2>1. n - j \in gaps
    OBVIOUS
  <2>2. n - i <= n - j /\ i \in 1 .. n /\ j \in 1 .. n
    BY <1>2, <1>3, <2>1
  <2>3. QED
    BY <2>2
<1>5. QED
  BY <1>4, Zenon DEF Max

(* The last of the places 1 .. k.                                          *)
LEMMA LastPlace ==
  ASSUME NEW k \in Nat, k # 0
  PROVE  Max(1 .. k) = k /\ (1 .. k) \ {k} = 1 .. (k - 1)
<1>1. Max(1 .. k) \in 1 .. k
  <2>1. (1 .. k) # {} /\ (1 .. k) \in SUBSET (1 .. k)
    OBVIOUS
  <2>2. QED
    BY <2>1, GreatestPlace
<1>2. \E i \in 1 .. k : \A j \in 1 .. k : i >= j
  OBVIOUS
<1>3. \A j \in 1 .. k : Max(1 .. k) >= j
  BY <1>2, Zenon DEF Max
<1>4. QED
  BY <1>1, <1>3

(* The ledger after each path.                                             *)
LEMMA LedgerGrows ==
  ASSUME NEW pol, NEW paths \in Seq(STRING)
  PROVE  \E after \in [0 .. Len(paths) -> Ledgers(pol)] :
           /\ after[0] = EmptyLedger
           /\ \A k \in 1 .. Len(paths) : after[k] = Recorded(after[k - 1], Route(pol, paths[k]))
           /\ RouteAll(pol, paths) = after[Len(paths)]
<1> DEFINE n == Len(paths)
           S == DOMAIN paths
           op(e, ledger) == Recorded(ledger, Route(pol, e))
           Body(F) == [s \in SUBSET S |->
                         IF s = {} THEN EmptyLedger
                         ELSE op(paths[Max(s)], F[s \ {Max(s)}])]
           ch == [s \in SUBSET S |-> Max(s)]
           g == [p \in S \X Ledgers(pol) |-> op(paths[p[1]], p[2])]
           G == CHOOSE F : F = Body(F)
<1>1. n \in Nat /\ S = 1 .. n /\ \A i \in S : paths[i] \in STRING
  OBVIOUS
<1>2. RouteAll(pol, paths) = G[S]
  BY Zenon DEF RouteAll, FoldLeft, MapThenFoldSet
<1>3. Chooses(ch, S) /\ IsFiniteSet(S)
  <2> HIDE DEF n, S
  <2>1. IsFiniteSet(S)
    BY <1>1, FS_Interval
  <2>2. ASSUME NEW s \in SUBSET S, s # {} PROVE ch[s] \in s
    <3>1. s \in SUBSET (1 .. n) /\ ch[s] = Max(s)
      BY <1>1
    <3>2. QED
      BY <1>1, <2>2, <3>1, GreatestPlace
  <2> HIDE DEF ch
  <2>3. QED
    BY <2>1, <2>2 DEF Chooses
<1>4. g \in [S \X Ledgers(pol) -> Ledgers(pol)]
  BY <1>1, RecordedType
<1>5. EmptyLedger \in Ledgers(pol)
  BY DEF EmptyLedger, Ledgers
<1> HIDE DEF g, ch, n, S
<1>6. PICK F \in [SUBSET S -> Ledgers(pol)] : FoldsTo(F, S, EmptyLedger, ch, g)
  BY <1>3, <1>4, <1>5, FoldExists
<1>7. F = Body(F)
  <2>1. ASSUME NEW s \in SUBSET S, s # {} PROVE F[s] = op(paths[Max(s)], F[s \ {Max(s)}])
    <3>1. ch[s] = Max(s) /\ ch[s] \in s
      BY <1>3, <2>1 DEF ch, Chooses
    <3>2. F[s] = g[<<ch[s], F[s \ {ch[s]}]>>]
      BY <1>6, <2>1 DEF FoldsTo
    <3>3. <<ch[s], F[s \ {ch[s]}]>> \in S \X Ledgers(pol)
      BY <3>1
    <3>4. QED
      BY <3>1, <3>2, <3>3 DEF g
  <2>2. F[{}] = EmptyLedger
    BY <1>6 DEF FoldsTo
  <2>3. F = [s \in SUBSET S |-> F[s]]
    OBVIOUS
  <2> HIDE DEF op
  <2>4. QED
    BY <2>1, <2>2, <2>3
<1>8. G = Body(G)
  BY <1>7, Zenon
<1> HIDE DEF G
<1>9. /\ G[{}] = EmptyLedger
      /\ \A s \in SUBSET S : s # {} => G[s] = op(paths[Max(s)], G[s \ {Max(s)}])
  <2> HIDE DEF op
  <2>1. QED
    BY <1>8
<1> DEFINE after == [k \in 0 .. n |-> G[1 .. k]]
<1>10. \A k \in 0 .. n : (1 .. k) \in SUBSET S
  BY <1>1
<1>11. after[0] = EmptyLedger
  BY <1>1, <1>9
<1>12. ASSUME NEW k \in 1 .. n PROVE after[k] = Recorded(after[k - 1], Route(pol, paths[k]))
  <2>1. k \in Nat /\ k # 0 /\ (1 .. k) \in SUBSET S /\ (1 .. k) # {} /\ k - 1 \in 0 .. n /\ k \in 0 .. n
    BY <1>1, <1>10
  <2>2. Max(1 .. k) = k /\ (1 .. k) \ {k} = 1 .. (k - 1)
    BY <2>1, LastPlace
  <2>3. G[1 .. k] = op(paths[k], G[1 .. (k - 1)])
    BY <1>9, <2>1, <2>2
  <2>4. QED
    BY <2>1, <2>3
<1>13. RouteAll(pol, paths) = after[n]
  BY <1>1, <1>2
<1>14. DOMAIN after = 0 .. n /\ \A k \in 0 .. n : after[k] \in Ledgers(pol)
  <2> DEFINE Bad == {k \in 0 .. n : after[k] \notin Ledgers(pol)}
  <2> SUFFICES ASSUME Bad # {} PROVE FALSE
    OBVIOUS
  <2>1. Bad \in SUBSET Nat
    BY <1>1
  <2> HIDE DEF after
  <2>2. PICK k \in Bad : \A j \in Bad : k <= j
    BY <2>1, Least
  <2>3. k # 0
    BY <1>5, <1>11
  <2>4. k \in 1 .. n /\ k - 1 \in 0 .. n /\ k - 1 \notin Bad
    BY <1>1, <2>2, <2>3
  <2>5. after[k - 1] \in Ledgers(pol) /\ paths[k] \in STRING
    BY <1>1, <2>4
  <2>6. after[k] = Recorded(after[k - 1], Route(pol, paths[k]))
    BY <1>12, <2>4
  <2>7. Recorded(after[k - 1], Route(pol, paths[k])) \in Ledgers(pol)
    BY <2>5, RecordedType
  <2>8. QED
    BY <2>6, <2>7
<1>15. after \in [0 .. n -> Ledgers(pol)]
  <2>1. after = [k \in 0 .. n |-> after[k]]
    OBVIOUS
  <2> HIDE DEF after
  <2>2. QED
    BY <1>14, <2>1
<1> HIDE DEF after
<1>16. QED
  BY <1>11, <1>12, <1>13, <1>15 DEF n

(* The built-in extensions, their Kinds, and the work that optimizes them. *)
LEMMA Extensions ==
  /\ DOMAIN BuiltIn = {"dds", "tga", "nif", "btr", "bto", "hkx"}
  /\ \A e \in {"dds", "tga"} : BuiltIn[e] = "texture"
  /\ \A e \in {"nif", "btr", "bto"} : BuiltIn[e] = "mesh"
  /\ BuiltIn["hkx"] = "animation"
  /\ Meshes = {"nif", "btr", "bto"}
  /\ DOMAIN OptimizedBy = {"dds", "nif", "btr", "bto", "hkx"}
  /\ OptimizedBy["dds"] = "native" /\ OptimizedBy["nif"] = "standard"
  /\ OptimizedBy["btr"] = "terrain" /\ OptimizedBy["bto"] = "terrain"
  /\ OptimizedBy["hkx"] = "animation"
<1>1. /\ DOMAIN BuiltIn = {"dds", "tga", "nif", "btr", "bto", "hkx"}
      /\ BuiltIn["dds"] = "texture" /\ BuiltIn["tga"] = "texture"
      /\ BuiltIn["nif"] = "mesh" /\ BuiltIn["btr"] = "mesh" /\ BuiltIn["bto"] = "mesh"
      /\ BuiltIn["hkx"] = "animation"
  BY DEF BuiltIn
<1>2. /\ DOMAIN OptimizedBy = {"dds", "nif", "btr", "bto", "hkx"}
      /\ OptimizedBy["dds"] = "native" /\ OptimizedBy["nif"] = "standard"
      /\ OptimizedBy["btr"] = "terrain" /\ OptimizedBy["bto"] = "terrain"
      /\ OptimizedBy["hkx"] = "animation"
  BY DEF OptimizedBy
<1>3. Meshes = {"nif", "btr", "bto"}
  BY <1>1 DEF Meshes
<1>4. QED
  BY <1>1, <1>2, <1>3

(* The operations of a path are those it is owed, work by work, once no    *)
(* Archive has a built-in extension; its phase goes by them.               *)
LEMMA OperationsAreOwed ==
  ASSUME policy.extension \notin DOMAIN BuiltIn, NEW e
  PROVE  /\ Operations(policy, e) = Owed(e)
         /\ Operations(policy, e) # {} => Recognized(policy, e)
         /\ Operations(policy, e) # {} =>
              (Phase(policy, e) = "ArchiveExtraction" <=> "extraction" \in Operations(policy, e))
<1>1. /\ "optimization" \in Operations(policy, e)
           <=> e \in DOMAIN OptimizedBy /\ OptimizedBy[e] \in policy.work
      /\ "conversion" \in Operations(policy, e) <=> e = "tga" /\ policy.converts
      /\ "maintenance" \in Operations(policy, e) <=> e \in Meshes /\ policy.converts
      /\ "extraction" \in Operations(policy, e)
           <=> IsArchive(policy, e) /\ "extraction" \in policy.work
      /\ Operations(policy, e) \subseteq {"optimization", "conversion", "maintenance", "extraction"}
  BY DEF Operations, MaintainsMeshReferences
<1>2. IsArchive(policy, e) <=> e = policy.extension
  BY DEF IsArchive
<1>3. /\ DOMAIN DoneOn = {"native", "standard", "terrain", "animation"}
      /\ DoneOn["native"] = {"dds"} /\ DoneOn["standard"] = {"nif"}
      /\ DoneOn["terrain"] = {"btr", "bto"} /\ DoneOn["animation"] = {"hkx"}
  BY DEF DoneOn
<1>4. (e \in DOMAIN OptimizedBy /\ OptimizedBy[e] \in policy.work)
        <=> \E w \in policy.work \cap DOMAIN DoneOn : e \in DoneOn[w]
  <2>1. \A w \in DOMAIN DoneOn : e \in DoneOn[w] <=> e \in DOMAIN OptimizedBy /\ OptimizedBy[e] = w
    BY <1>3, Extensions
  <2>2. e \in DOMAIN OptimizedBy => OptimizedBy[e] \in DOMAIN DoneOn
    BY <1>3, Extensions
  <2>3. QED
    BY <2>1, <2>2
<1>5. \A op : op \in Operations(policy, e) <=> op \in Owed(e)
  BY <1>1, <1>2, <1>4 DEF Owed, Owes
<1>6. Operations(policy, e) = Owed(e)
  BY <1>5
<1>7. Operations(policy, e) # {} => Recognized(policy, e)
  BY <1>1, Extensions DEF Recognized
<1>8. IsArchive(policy, e) => e \notin DOMAIN OptimizedBy /\ e # "tga" /\ e \notin Meshes
  BY Extensions DEF IsArchive
<1>9. (Phase(policy, e) = "ArchiveExtraction") <=> IsArchive(policy, e)
  BY DEF Phase
<1>10. QED
  BY <1>1, <1>6, <1>7, <1>8, <1>9

(* Work on a Kind routes some extension of it, and only such work does:    *)
(* what a skipped path is told of its Kind is true.                        *)
Routable(pol, kind) ==
  \E e \in DOMAIN BuiltIn \cup {pol.extension} :
    KindOfPath(pol, e) = kind /\ Operations(pol, e) # {}

(* A path is routable exactly when its kind has work.                      *)
LEMMA KindsAreTold ==
  ASSUME NEW pol, pol.extension \notin DOMAIN BuiltIn, NEW e, Recognized(pol, e)
  PROVE  /\ Routable(pol, KindOfPath(pol, e)) <=> KindHasWork(pol, KindOfPath(pol, e))
         /\ Operations(pol, e) # {} => Routable(pol, KindOfPath(pol, e))
<1> DEFINE x == pol.extension
<1>1. /\ Operations(pol, "dds") # {} <=> "native" \in pol.work
      /\ Operations(pol, "tga") # {} <=> pol.converts
      /\ Operations(pol, "nif") # {} <=> "standard" \in pol.work \/ pol.converts
      /\ Operations(pol, "btr") # {} <=> "terrain" \in pol.work \/ pol.converts
      /\ Operations(pol, "bto") # {} <=> "terrain" \in pol.work \/ pol.converts
      /\ Operations(pol, "hkx") # {} <=> "animation" \in pol.work
  BY Extensions DEF Operations, IsArchive, MaintainsMeshReferences
<1>2. Operations(pol, x) # {} <=> "extraction" \in pol.work
  BY Extensions DEF Operations, IsArchive
<1>3. KindOfPath(pol, x) = "archive"
  BY DEF KindOfPath
<1>4. \A f \in DOMAIN BuiltIn : KindOfPath(pol, f) = BuiltIn[f]
  BY DEF KindOfPath
<1>5. e \in DOMAIN BuiltIn \cup {x}
  BY DEF Recognized, IsArchive
<1>6. Routable(pol, "texture") <=> "native" \in pol.work \/ pol.converts
  BY <1>1, <1>3, <1>4, Extensions DEF Routable
<1>7. Routable(pol, "mesh") <=> "standard" \in pol.work \/ "terrain" \in pol.work \/ pol.converts
  BY <1>1, <1>3, <1>4, Extensions DEF Routable
<1>8. Routable(pol, "animation") <=> "animation" \in pol.work
  BY <1>1, <1>3, <1>4, Extensions DEF Routable
<1>9. Routable(pol, "archive") <=> "extraction" \in pol.work
  BY <1>2, <1>3, <1>4, Extensions DEF Routable
<1>10. KindOfPath(pol, e) \in {"texture", "mesh", "animation", "archive"}
  BY <1>3, <1>4, <1>5, Extensions
<1>11. Routable(pol, KindOfPath(pol, e)) <=> KindHasWork(pol, KindOfPath(pol, e))
  BY <1>6, <1>7, <1>8, <1>9, <1>10 DEF KindHasWork, MaintainsMeshReferences
<1>12. Operations(pol, e) # {} => Routable(pol, KindOfPath(pol, e))
  BY <1>5 DEF Routable
<1>13. QED
  BY <1>11, <1>12

(* One more place counts for one, if it is counted.                        *)
LEMMA CountOneMore ==
  ASSUME NEW k \in Nat, k # 0, NEW T \in SUBSET (1 .. k)
  PROVE  /\ Cardinality(T) \in Nat
         /\ Cardinality(T) = Cardinality(T \cap (1 .. (k - 1))) + (IF k \in T THEN 1 ELSE 0)
<1> DEFINE before == T \cap (1 .. (k - 1))
<1>1. IsFiniteSet(T) /\ IsFiniteSet(before)
  <2>1. IsFiniteSet(1 .. k)
    BY FS_Interval
  <2>2. IsFiniteSet(T)
    BY <2>1, FS_Subset
  <2>3. before \subseteq T
    OBVIOUS
  <2> HIDE DEF before
  <2>4. QED
    BY <2>2, <2>3, FS_Subset
<1>2. Cardinality(T) \in Nat /\ Cardinality(before) \in Nat
  BY <1>1, FS_CardinalityType
<1>3. \A i \in T : i = k \/ i \in before
  OBVIOUS
<1>4. k \notin before /\ before \subseteq T
  OBVIOUS
<1> HIDE DEF before
<1>5. CASE k \in T
  <2>1. T = before \cup {k}
    BY <1>3, <1>4, <1>5
  <2>2. Cardinality(T) = Cardinality(before) + 1
    BY <1>1, <1>4, <2>1, FS_AddElement
  <2>3. QED
    BY <1>2, <1>5, <2>2 DEF before
<1>6. CASE k \notin T
  <2>1. T = before
    BY <1>3, <1>4, <1>6
  <2>2. Cardinality(T) = Cardinality(before) + 0
    BY <1>2, <2>1
  <2>3. QED
    BY <1>2, <1>6, <2>2 DEF before
<1>7. QED
  BY <1>5, <1>6

(* One more place counts for one in any set of places.                     *)
LEMMA PlacesCount ==
  ASSUME NEW k \in Nat, k # 0, NEW T
  PROVE  /\ Cardinality(T \cap (1 .. k)) \in Nat
         /\ Cardinality(T \cap (1 .. (k - 1))) \in Nat
         /\ Cardinality(T \cap (1 .. k))
              = Cardinality(T \cap (1 .. (k - 1))) + (IF k \in T THEN 1 ELSE 0)
<1> DEFINE S == T \cap (1 .. k)
<1>1. S \in SUBSET (1 .. k) /\ S \cap (1 .. (k - 1)) = T \cap (1 .. (k - 1)) /\ (k \in S <=> k \in T)
  OBVIOUS
<1>2. IsFiniteSet(T \cap (1 .. (k - 1)))
  <2>1. IsFiniteSet(1 .. (k - 1))
    BY FS_Interval
  <2>2. T \cap (1 .. (k - 1)) \subseteq 1 .. (k - 1)
    OBVIOUS
  <2>3. QED
    BY <2>1, <2>2, FS_Subset
<1>3. Cardinality(T \cap (1 .. (k - 1))) \in Nat
  BY <1>2, FS_CardinalityType
<1> HIDE DEF S
<1>4. /\ Cardinality(S) \in Nat
      /\ Cardinality(S) = Cardinality(S \cap (1 .. (k - 1))) + (IF k \in S THEN 1 ELSE 0)
  BY <1>1, CountOneMore, Zenon
<1>5. QED
  BY <1>1, <1>3, <1>4 DEF S

(* What the ledger after k paths says of them.                             *)
Owing(pol, paths) == {i \in DOMAIN paths : Routed(pol, paths[i])}
Idling(pol, paths, reason) == {i \in DOMAIN paths : Skipped(pol, paths[i], reason)}

Tells(pol, paths, ledger, k) ==
  LET owing == Owing(pol, paths)
      place(i) == Cardinality(owing \cap (1 .. i))
  IN /\ Len(ledger.routed) = place(k)
     /\ \A i \in owing : i <= k =>
          place(i) \in DOMAIN ledger.routed /\ ledger.routed[place(i)] = Route(pol, paths[i])
     /\ \A r \in SkipReasons : ledger.skipped[r] = Cardinality(Idling(pol, paths, r) \cap (1 .. k))

(* One more path keeps the ledger telling: it is routed, counted under one *)
(* reason, or unsupported and left out.                                     *)
LEMMA NextTells ==
  ASSUME NEW pol, NEW paths \in Seq(STRING),
         NEW k \in 1 .. Len(paths), NEW old \in Ledgers(pol), Tells(pol, paths, old, k - 1)
  PROVE  Tells(pol, paths, Recorded(old, Route(pol, paths[k])), k)
<1> DEFINE e == paths[k]
           owing == Owing(pol, paths)
           place(i) == Cardinality(owing \cap (1 .. i))
           new == Recorded(old, Route(pol, e))
<1>1. /\ k \in Nat /\ k # 0 /\ DOMAIN paths = 1 .. Len(paths) /\ k \in DOMAIN paths
      /\ e \in STRING /\ k - 1 \in Nat
  OBVIOUS
<1>2. /\ new \in Ledgers(pol)
      /\ Routed(pol, e) => new.routed = Append(old.routed, Route(pol, e)) /\ new.skipped = old.skipped
      /\ ~Routed(pol, e) => new.routed = old.routed
      /\ \A r \in SkipReasons : new.skipped[r] =
           IF Skipped(pol, e, r) THEN old.skipped[r] + 1 ELSE old.skipped[r]
  BY <1>1, RecordedType
<1>3. /\ Len(old.routed) = place(k - 1)
      /\ \A i \in owing : i <= k - 1 =>
          place(i) \in DOMAIN old.routed /\ old.routed[place(i)] = Route(pol, paths[i])
      /\ \A r \in SkipReasons :
           old.skipped[r] = Cardinality(Idling(pol, paths, r) \cap (1 .. (k - 1)))
  BY Zenon DEF Tells
<1>4. /\ k \in owing <=> Routed(pol, e)
      /\ \A r \in SkipReasons : k \in Idling(pol, paths, r) <=> Skipped(pol, e, r)
  BY <1>1 DEF Owing, Idling
<1>5. owing \subseteq 1 .. Len(paths)
  BY <1>1 DEF Owing
<1>6. place(k) = place(k - 1) + (IF Routed(pol, e) THEN 1 ELSE 0) /\ place(k - 1) \in Nat
  <2> HIDE DEF owing
  <2>1. QED
    BY <1>1, <1>4, PlacesCount
<1>7. old.routed \in Seq(Decided(pol)) /\ Route(pol, e) \in Decided(pol)
  BY <1>1 DEF Ledgers, Decided
<1> HIDE DEF new, owing, place
<1>8. \A r \in SkipReasons : new.skipped[r] = Cardinality(Idling(pol, paths, r) \cap (1 .. k))
  <2>1. ASSUME NEW r \in SkipReasons
        PROVE  new.skipped[r] = Cardinality(Idling(pol, paths, r) \cap (1 .. k))
    <3> DEFINE T == Idling(pol, paths, r)
    <3>1. k \in T <=> Skipped(pol, e, r)
      BY <1>4
    <3> HIDE DEF T
    <3>2. /\ Cardinality(T \cap (1 .. k))
               = Cardinality(T \cap (1 .. (k - 1))) + (IF k \in T THEN 1 ELSE 0)
          /\ Cardinality(T \cap (1 .. (k - 1))) \in Nat
      BY <1>1, PlacesCount
    <3>3. old.skipped[r] = Cardinality(T \cap (1 .. (k - 1)))
      BY <1>3 DEF T
    <3>4. new.skipped[r] = IF Skipped(pol, e, r) THEN old.skipped[r] + 1 ELSE old.skipped[r]
      BY <1>2
    <3>5. new.skipped[r] = Cardinality(T \cap (1 .. k))
      BY <3>1, <3>2, <3>3, <3>4
    <3>6. QED
      BY <3>5 DEF T
  <2>2. QED
    BY <2>1
<1>9. CASE Routed(pol, e)
  <2> DEFINE s == Append(old.routed, Route(pol, e))
  <2>1. /\ DOMAIN s = DOMAIN old.routed \cup {Len(old.routed) + 1}
        /\ \A m \in DOMAIN old.routed : s[m] = old.routed[m]
        /\ s[Len(old.routed) + 1] = Route(pol, e)
    BY <1>7, AppendMembers
  <2>2. Len(s) = Len(old.routed) + 1
    BY <1>7
  <2>3. new.routed = s
    BY <1>2, <1>9
  <2> HIDE DEF s
  <2>4. Len(new.routed) = place(k) /\ place(k) = Len(old.routed) + 1
    BY <1>3, <1>6, <1>9, <2>2, <2>3
  <2>5. ASSUME NEW i \in owing, i <= k
        PROVE  place(i) \in DOMAIN s /\ s[place(i)] = Route(pol, paths[i])
    <3>1. CASE i = k
      BY <2>1, <2>4, <3>1 DEF e
    <3>2. CASE i # k
      <4>1. i <= k - 1
        BY <1>1, <1>5, <2>5, <3>2
      <4>2. place(i) \in DOMAIN old.routed /\ old.routed[place(i)] = Route(pol, paths[i])
        BY <1>3, <4>1
      <4>3. QED
        BY <2>1, <4>2
    <3>3. QED
      BY <3>1, <3>2
  <2>6. QED
    BY <1>8, <2>3, <2>4, <2>5, Zenon DEF Tells, new, e, owing, place
<1>10. CASE ~Routed(pol, e)
  <2>1. new.routed = old.routed /\ place(k) = place(k - 1)
    BY <1>2, <1>6, <1>10
  <2>2. Len(new.routed) = place(k)
    BY <1>3, <2>1
  <2>3. ASSUME NEW i \in owing, i <= k
        PROVE  place(i) \in DOMAIN new.routed /\ new.routed[place(i)] = Route(pol, paths[i])
    <3>1. i # k
      BY <1>4, <1>10
    <3>2. i <= k - 1
      BY <1>1, <1>5, <2>3, <3>1
    <3>3. QED
      BY <1>3, <2>1, <3>2
  <2>4. QED
    BY <1>8, <2>2, <2>3, Zenon DEF Tells, new, e, owing, place
<1>11. QED
  BY <1>9, <1>10

(* The whole ledger tells of all the paths.                                *)
LEMMA RouteAllTells ==
  ASSUME NEW pol, NEW paths \in Seq(STRING)
  PROVE  /\ Tells(pol, paths, RouteAll(pol, paths), Len(paths))
         /\ RouteAll(pol, paths) \in Ledgers(pol)
<1>1. Len(paths) \in Nat
  OBVIOUS
<1>2. PICK after \in [0 .. Len(paths) -> Ledgers(pol)] :
        /\ after[0] = EmptyLedger
        /\ \A k \in 1 .. Len(paths) : after[k] = Recorded(after[k - 1], Route(pol, paths[k]))
        /\ RouteAll(pol, paths) = after[Len(paths)]
  BY LedgerGrows
<1>3. Tells(pol, paths, after[0], 0)
  <2>1. EmptyLedger.routed = <<>> /\ \A r \in SkipReasons : EmptyLedger.skipped[r] = 0
    BY DEF EmptyLedger, SkipReasons
  <2>2. \A T : Cardinality(T \cap (1 .. 0)) = 0
    <3>1. \A T : T \cap (1 .. 0) = {}
      OBVIOUS
    <3>2. QED
      BY <3>1, FS_EmptySet
  <2>3. Len(EmptyLedger.routed) = 0
    BY <2>1
  <2>4. \A i \in Owing(pol, paths) : ~(i <= 0)
    BY DEF Owing
  <2> HIDE DEF EmptyLedger
  <2>5. QED
    BY <1>2, <2>1, <2>2, <2>3, <2>4, Zenon DEF Tells
<1> DEFINE Bad == {k \in 0 .. Len(paths) : ~Tells(pol, paths, after[k], k)}
<1>4. Bad = {}
  <2> SUFFICES ASSUME Bad # {} PROVE FALSE
    OBVIOUS
  <2>1. Bad \in SUBSET Nat
    BY <1>1
  <2>2. PICK k \in Bad : \A j \in Bad : k <= j
    BY <2>1, Least
  <2>3. k # 0
    BY <1>3, <2>2
  <2>4. k \in 1 .. Len(paths) /\ k - 1 \in 0 .. Len(paths) /\ k - 1 \notin Bad
    BY <1>1, <2>2, <2>3
  <2>5. Tells(pol, paths, after[k - 1], k - 1) /\ after[k - 1] \in Ledgers(pol)
    BY <1>2, <2>4
  <2>6. Tells(pol, paths, Recorded(after[k - 1], Route(pol, paths[k])), k)
    BY <2>4, <2>5, NextTells
  <2>7. QED
    BY <1>2, <2>2, <2>4, <2>6
<1>5. QED
  BY <1>1, <1>2, <1>4

(* The paths a compiled policy routes are those it owes something, and the *)
(* reason of any other path it knows says whether its Kind is owed any.    *)
LEMMA DecidedAsOwed ==
  ASSUME policy.extension \notin DOMAIN BuiltIn, NEW e
  PROVE  /\ Routed(policy, e) <=> Owed(e) # {}
         /\ Skipped(policy, e, "DisabledAssetKind")
              <=> Owed(e) = {} /\ Recognized(policy, e) /\ ~KindIsOwed(KindOfPath(policy, e))
         /\ Skipped(policy, e, "ExcludedAssetVariant")
              <=> Owed(e) = {} /\ Recognized(policy, e) /\ KindIsOwed(KindOfPath(policy, e))
<1>1. \A x : /\ Operations(policy, x) = Owed(x)
             /\ Operations(policy, x) # {} => Recognized(policy, x)
  BY OperationsAreOwed
<1>2. /\ Routed(policy, e) <=> Recognized(policy, e) /\ Operations(policy, e) # {}
      /\ \A r \in SkipReasons : Skipped(policy, e, r) <=>
           Recognized(policy, e) /\ Operations(policy, e) = {} /\ r = SkipReason(policy, e)
  BY Decision
<1>3. \A kind : KindIsOwed(kind) <=> Routable(policy, kind)
  BY <1>1, Zenon DEF KindIsOwed, Routable
<1>4. Recognized(policy, e) =>
        (KindIsOwed(KindOfPath(policy, e)) <=> KindHasWork(policy, KindOfPath(policy, e)))
  BY <1>3, KindsAreTold
<1>5. /\ SkipReason(policy, e) = IF KindHasWork(policy, KindOfPath(policy, e))
                                   THEN "ExcludedAssetVariant" ELSE "DisabledAssetKind"
      /\ SkipReasons = {"DisabledAssetKind", "ExcludedAssetVariant"}
  BY DEF SkipReason, SkipReasons
<1>6. QED
  BY <1>1, <1>2, <1>4, <1>5

(* The ledger of a request that was made is honest.                        *)
LEMMA LedgerNow ==
  ASSUME Requested
  PROVE  LedgerIsHonest
<1> SUFFICES ASSUME phase = "compiled" PROVE LedgerIsHonest
  BY DEF LedgerIsHonest
<1>1. policy.extension \notin DOMAIN BuiltIn
  <2>1. Conflicts(request.work, profile) = {} /\ policy = Policy(request.work, profile)
    BY DEF Requested
  <2>2. policy.extension = profile.extension
    BY <2>1 DEF Policy
  <2>3. ExtensionConflicts(profile) = {}
    BY <2>1 DEF Conflicts
  <2>4. QED
    BY <2>2, <2>3, Zenon DEF ExtensionConflicts
<1> DEFINE D == "DisabledAssetKind"
           V == "ExcludedAssetVariant"
<1>2. ASSUME NEW paths \in Paths
      PROVE LET ledger == RouteAll(policy, paths)
                owed == {i \in DOMAIN paths : Owed(paths[i]) # {}}
                idle == {i \in DOMAIN paths \ owed : Recognized(policy, paths[i])}
                disabled == {i \in idle : ~KindIsOwed(KindOfPath(policy, paths[i]))}
                place(i) == Cardinality(owed \cap (1 .. i))
            IN /\ Len(ledger.routed) = Cardinality(owed)
               /\ \A i \in owed :
                    /\ ledger.routed[place(i)].path = paths[i]
                    /\ ledger.routed[place(i)].operations = Owed(paths[i])
                    /\ place(i) \in RoutedInPhase(ledger, "ArchiveExtraction")
                         <=> "extraction" \in Owed(paths[i])
               /\ ledger.skipped[D] = Cardinality(disabled)
               /\ ledger.skipped[V] = Cardinality(idle \ disabled)
  <2> DEFINE ledger == RouteAll(policy, paths)
             owed == {i \in DOMAIN paths : Owed(paths[i]) # {}}
             idle == {i \in DOMAIN paths \ owed : Recognized(policy, paths[i])}
             disabled == {i \in idle : ~KindIsOwed(KindOfPath(policy, paths[i]))}
             place(i) == Cardinality(owed \cap (1 .. i))
             n == Len(paths)
  <2>1. paths \in Seq(STRING) /\ DOMAIN paths = 1 .. n
    BY InputsAssumption
  <2>2. Tells(policy, paths, ledger, n)
    BY <2>1, RouteAllTells
  <2>3. /\ owed = Owing(policy, paths)
        /\ disabled = Idling(policy, paths, D)
        /\ idle \ disabled = Idling(policy, paths, V)
    BY <1>1, DecidedAsOwed DEF Owing, Idling
  <2>4. /\ owed \cap (1 .. n) = owed
        /\ disabled \cap (1 .. n) = disabled
        /\ (idle \ disabled) \cap (1 .. n) = idle \ disabled
    BY <2>1
  <2>5. \A i \in owed : i \in DOMAIN paths /\ i <= n /\ Owed(paths[i]) # {}
    BY <2>1
  <2>6. D \in SkipReasons /\ V \in SkipReasons
    BY DEF SkipReasons
  <2> HIDE DEF ledger, disabled, owed, idle
  <2>7. /\ Len(ledger.routed) = place(n)
        /\ \A i \in owed : i <= n =>
             place(i) \in DOMAIN ledger.routed /\ ledger.routed[place(i)] = Route(policy, paths[i])
        /\ ledger.skipped[D] = Cardinality(disabled \cap (1 .. n))
        /\ ledger.skipped[V] = Cardinality((idle \ disabled) \cap (1 .. n))
    BY <2>2, <2>3, <2>6, Zenon DEF Tells
  <2>8. Len(ledger.routed) = Cardinality(owed)
    BY <2>4, <2>7
  <2> HIDE DEF place
  <2>9. ASSUME NEW i \in owed
        PROVE  /\ ledger.routed[place(i)].path = paths[i]
               /\ ledger.routed[place(i)].operations = Owed(paths[i])
               /\ place(i) \in RoutedInPhase(ledger, "ArchiveExtraction")
                    <=> "extraction" \in Owed(paths[i])
    <3> DEFINE e == paths[i]
    <3>1. place(i) \in DOMAIN ledger.routed /\ ledger.routed[place(i)] = Route(policy, e)
      BY <2>5, <2>7
    <3>2. Owed(e) # {}
      BY <2>5
    <3> HIDE DEF e
    <3>3. /\ Operations(policy, e) = Owed(e)
          /\ Phase(policy, e) = "ArchiveExtraction" <=> "extraction" \in Owed(e)
      BY <1>1, <3>2, OperationsAreOwed
    <3>4. /\ Route(policy, e).path = e /\ Route(policy, e).phase = Phase(policy, e)
          /\ Route(policy, e).operations = Operations(policy, e)
      BY <1>1, <3>2, Decision, DecidedAsOwed
    <3>5. place(i) \in RoutedInPhase(ledger, "ArchiveExtraction")
            <=> ledger.routed[place(i)].phase = "ArchiveExtraction"
      BY <3>1 DEF RoutedInPhase
    <3>6. QED
      BY <3>1, <3>3, <3>4, <3>5 DEF e
  <2>10. ledger.skipped[D] = Cardinality(disabled) /\ ledger.skipped[V] = Cardinality(idle \ disabled)
    BY <2>4, <2>7
  <2>11. QED
    BY <2>8, <2>9, <2>10, Zenon DEF ledger, owed, idle, disabled, place
<1>3. QED
  BY <1>2, Zenon DEF LedgerIsHonest

(* Every run: the ledger is what the policy owes the paths, in their order, *)
(* and tells every other path once, whatever paths it is asked to route.    *)
THEOREM LedgerHolds == Spec => []LedgerIsHonest
BY RequestInvariant, LedgerNow, PTL

=============================================================================
