-------------------------- MODULE RunServiceProofs --------------------------
(***************************************************************************)
(* TLAPS proofs about RunService, for any client threads and any number of *)
(* runs.                                                                   *)
(*                                                                         *)
(* CallInv says what the calls in flight know of their run, its handle and *)
(* the service; PhaseInv says what each stage of a Run Worker implies for  *)
(* the slot, the result, Safety Cleanup and the last event.  Every safety  *)
(* property of the module follows from the two.                            *)
(***************************************************************************)
EXTENDS RunService, TLAPS

USE ClientAssumption, BoundAssumption
    DEF Runs, Threads, NoRun, At, Goto, shared, facts, lifetime, admission

(* The record of a call.                                                   *)
LEMMA CallRecords ==
  /\ Idle \in Calls /\ Idle.op = "idle" /\ Idle.by = "handle"
  /\ \A by \in Callers : [op |-> "close", run |-> NoRun, by |-> by] \in Calls
  /\ \A by \in Callers, r \in Runs, op \in {"start", "wait", "check", "lock", "join"} :
       [op |-> op, run |-> r, by |-> by] \in Calls
  /\ \A c \in Calls : c.op \notin {"idle", "close"} => c.run \in Runs
  /\ \A c \in Calls : c.by \in Callers
BY DEF Calls, Callers, Idle

(* Entering and leaving a call keeps the calls well typed.                  *)
LEMMA ReturnTypes ==
  ASSUME call \in [Threads -> Calls], NEW t \in Threads, Return(t)
  PROVE  call' \in [Threads -> Calls]
BY CallRecords DEF Return

(* Every variable keeps its type in every reachable state.                 *)
THEOREM TypeCorrect == Spec => []TypeOK
<1> USE DEF TypeOK, Kinds, Stages, Outcomes
<1>1. Init => TypeOK
  <2>1. Init => call \in [Threads -> Calls]
    BY CallRecords DEF Init
  <2> SUFFICES ASSUME Init PROVE TypeOK
    OBVIOUS
  <2>2. /\ slot \in Runs \cup {NoRun} /\ started \in 0..MaxRuns
        /\ retained \in SUBSET Runs /\ seen \in SUBSET Runs
        /\ stage \in [Runs -> Stages] /\ kind \in [Runs -> Kinds]
        /\ sent \in [Runs -> Kinds \cup {"none"}]
        /\ result \in [Runs -> Outcomes \cup {"none"}]
        /\ handle \in [Runs -> {"none", "held", "dropping", "dropped"}]
    BY DEF Init
  <2>3. /\ host \in [Runs -> Threads] /\ cleanups \in [Runs -> Nat]
        /\ joining \in [Runs -> Threads \cup {NoThread}]
    BY DEF Init
  <2>4. /\ dispatcher \in [Runs -> BOOLEAN] /\ cancelled \in [Runs -> BOOLEAN]
        /\ dispatched \in [Runs -> BOOLEAN] /\ worker \in [Runs -> BOOLEAN]
        /\ joined \in [Runs -> BOOLEAN]
    BY DEF Init
  <2> QED
    BY <2>1, <2>2, <2>3, <2>4 DEF Init
<1>2. TypeOK /\ [Next]_vars => TypeOK'
  <2> SUFFICES ASSUME TypeOK, [Next]_vars PROVE TypeOK'
    OBVIOUS
  <2>1. ASSUME NEW r \in Runs, RecordFact(r)
        PROVE  TypeOK'
    BY <2>1 DEF RecordFact, Publish
  <2>2. ASSUME NEW r \in Runs, RecordSafetyCleanup(r)
        PROVE  TypeOK'
    BY <2>2 DEF RecordSafetyCleanup, Publish
  <2>3. ASSUME NEW r \in Runs, PerformCleanup(r)
        PROVE  TypeOK'
    BY <2>3 DEF PerformCleanup
  <2>4. ASSUME NEW r \in Runs, Escape(r)
        PROVE  TypeOK'
    BY <2>4 DEF Escape
  <2>5. ASSUME NEW r \in Runs, Salvage(r)
        PROVE  TypeOK'
    BY <2>5 DEF Salvage, Publish, Pending
  <2>6. ASSUME NEW r \in Runs, PublishResult(r)
        PROVE  TypeOK'
    BY <2>6 DEF PublishResult, Verdicts
  <2>7. ASSUME NEW r \in Runs, ReleaseSlot(r)
        PROVE  TypeOK'
    BY <2>7 DEF ReleaseSlot
  <2>8. ASSUME NEW r \in Runs, Emit(r)
        PROVE  TypeOK'
    BY <2>8 DEF Emit, After
  <2>9. ASSUME NEW r \in Runs, LeaveCallback(r)
        PROVE  TypeOK'
    BY <2>9 DEF LeaveCallback, After
  <2>10. ASSUME NEW r \in Runs, FinishCommit(r)
         PROVE  TypeOK'
    BY <2>10 DEF FinishCommit
  <2>11. ASSUME NEW r \in Runs, EndWorker(r)
         PROVE  TypeOK'
    BY <2>11 DEF EndWorker
  <2>12. ASSUME NEW t \in Threads, Admit(t)
         PROVE  TypeOK'
    <3>1. NextRun \in Runs
      BY <2>12 DEF Admit, NextRun
    <3>2. call' \in [Threads -> Calls]
      BY <2>12, <3>1, CallRecords DEF Admit, Calling, Callers
    <3>3. slot' \in Runs /\ started' \in 0..MaxRuns /\ retained' \in SUBSET Runs
      <4>1. /\ slot' = NextRun /\ started' = NextRun
            /\ retained' = {r \in retained : Alive(r)} \cup {NextRun}
        BY <2>12 DEF Admit
      <4>2. slot' \in Runs /\ started' \in 0..MaxRuns
        BY <3>1, <4>1
      <4>3. retained' \subseteq Runs
        BY <3>1, <4>1, Zenon
      <4> QED
        BY <4>2, <4>3
    <3>4. dispatcher' \in [Runs -> BOOLEAN]
      BY <2>12, <3>1, Zenon DEF Admit
    <3>5. stage' \in [Runs -> Stages]
      BY <2>12, <3>1 DEF Admit
    <3> QED
      BY <2>12, <3>2, <3>3, <3>4, <3>5 DEF Admit
  <2>13. ASSUME NEW t \in Threads, SpawnWorker(t)
         PROVE  TypeOK'
    BY <2>13 DEF SpawnWorker
  <2>14. ASSUME NEW t \in Threads, FailSchedule(t)
         PROVE  TypeOK'
    BY <2>14 DEF FailSchedule
  <2>15. ASSUME NEW t \in Threads, ReturnHandle(t)
         PROVE  TypeOK'
    <3>1. call' \in [Threads -> Calls]
      BY <2>15, CallRecords DEF ReturnHandle, Return, Callers
    <3> QED
      BY <2>15, <3>1 DEF ReturnHandle
  <2>16. ASSUME NEW t \in Threads, ReturnFromWait(t)
         PROVE  TypeOK'
    <3>1. call' \in [Threads -> Calls]
      BY <2>16, CallRecords DEF ReturnFromWait, Return
    <3>2. call[t].run \in Runs
      BY <2>16, CallRecords DEF ReturnFromWait
    <3> QED
      BY <2>16, <3>1, <3>2 DEF ReturnFromWait, See
  <2>17. ASSUME NEW t \in Threads, AbortOnWorker(t)
         PROVE  TypeOK'
    BY <2>17 DEF AbortOnWorker
  <2>18. ASSUME NEW t \in Threads, CancelBeforeJoin(t)
         PROVE  TypeOK'
    <3>1. call' \in [Threads -> Calls]
      BY <2>18, CallRecords DEF CancelBeforeJoin, Calling, Callers
    <3> QED
      BY <2>18, <3>1 DEF CancelBeforeJoin
  <2>19. ASSUME NEW t \in Threads, LockJoin(t)
         PROVE  TypeOK'
    <3>1. call' \in [Threads -> Calls]
      BY <2>19, CallRecords DEF LockJoin, Calling, Callers
    <3> QED
      BY <2>19, <3>1 DEF LockJoin
  <2>20. ASSUME NEW t \in Threads, FinishJoin(t)
         PROVE  TypeOK'
    <3>1. call' \in [Threads -> Calls]
      <4>1. CASE call[t].by = "handle"
        <5>1. Return(t)
          BY <2>20, <4>1 DEF FinishJoin
        <5> QED
          BY <5>1, ReturnTypes
      <4>2. CASE call[t].by # "handle"
        BY <2>20, <4>2, CallRecords DEF FinishJoin, Calling, Callers
      <4> QED
        BY <4>1, <4>2
    <3>2. handle' \in [Runs -> {"none", "held", "dropping", "dropped"}]
      BY <2>20 DEF FinishJoin
    <3> QED
      BY <2>20, <3>1, <3>2 DEF FinishJoin
  <2>21. ASSUME NEW t \in Threads, FinishService(t)
         PROVE  TypeOK'
    <3>1. call' \in [Threads -> Calls]
      BY <2>21, CallRecords DEF FinishService, Return, Callers
    <3> QED
      BY <2>21, <3>1 DEF FinishService
  <2>22. ASSUME NEW t \in Threads, DropService(t)
         PROVE  TypeOK'
    <3>1. call' \in [Threads -> Calls]
      BY <2>22, CallRecords DEF DropService, MayCall, Calling, Callers
    <3> QED
      BY <2>22, <3>1 DEF DropService, MayCall
  <2>23. ASSUME NEW t \in Threads, NEW r \in Runs, JoinRetained(t, r)
         PROVE  TypeOK'
    <3>1. call' \in [Threads -> Calls]
      <4>1. CASE Alive(r)
        <5>1. [op |-> "check", run |-> r, by |-> "service"] \in Calls
          BY CallRecords DEF Callers
        <5> QED
          BY <2>23, <4>1, <5>1 DEF JoinRetained, Calling
      <4>2. CASE ~Alive(r)
        BY <2>23, <4>2 DEF JoinRetained
      <4> QED
        BY <4>1, <4>2
    <3> QED
      BY <2>23, <3>1 DEF JoinRetained
  <2>24. ASSUME NEW t \in Threads, NEW r \in Runs, RequestCancellation(t, r)
         PROVE  TypeOK'
    BY <2>24 DEF RequestCancellation, MayCall
  <2>25. ASSUME NEW t \in Threads, NEW r \in Runs, PollResult(t, r)
         PROVE  TypeOK'
    BY <2>25 DEF PollResult, See, Locked, MayCall
  <2>26. ASSUME NEW t \in Threads, NEW r \in Runs, Wait(t, r)
         PROVE  TypeOK'
    <3>1. call' \in [Threads -> Calls]
      BY <2>26, CallRecords DEF Wait, MayCall, Calling, Callers
    <3> QED
      BY <2>26, <3>1 DEF Wait, MayCall
  <2>27. ASSUME NEW t \in Threads, NEW r \in Runs, DropHandle(t, r)
         PROVE  TypeOK'
    <3>1. call' \in [Threads -> Calls]
      BY <2>27, CallRecords DEF DropHandle, MayCall, Calling, Callers
    <3> QED
      BY <2>27, <3>1 DEF DropHandle, MayCall
  <2>28. CASE UNCHANGED vars
    BY <2>28 DEF vars
  <2> QED
    BY <2>1, <2>2, <2>3, <2>4, <2>5, <2>6, <2>7, <2>8, <2>9, <2>10,
       <2>11, <2>12, <2>13, <2>14, <2>15, <2>16, <2>17, <2>18, <2>19, <2>20,
       <2>21, <2>22, <2>23, <2>24, <2>25, <2>26, <2>27, <2>28
       DEF Next, WorkerStep, CallStep, NewCall
<1> QED
  BY <1>1, <1>2, PTL DEF Spec

-----------------------------------------------------------------------------
(* The calls in flight.                                                    *)

Joining == {"check", "lock", "join"}

(* Thread t is closing the service and is at run r.                        *)
Closing(t, r) == call[t].by = "service" /\ call[t].op \in Joining /\ call[t].run = r

Starting(t, r) == call[t].op = "start" /\ call[t].run = r

RunOfCall ==
    \A t \in Threads :
        /\ call[t].op \in {"start", "wait"} \cup Joining => call[t].run \in Runs
        /\ call[t].op = "start" =>
             /\ handle[call[t].run] = "none" /\ stage[call[t].run] # "unborn"
             /\ \A u \in Threads : Starting(u, call[t].run) => u = t
        /\ call[t].op \in Joining => handle[call[t].run] # "none"

HandleInv ==
    \A r \in Runs :
        /\ stage[r] = "unborn" <=> r > started
        /\ handle[r] = "none" => stage[r] = "unborn" \/ \E t \in Threads : Starting(t, r)
        /\ handle[r] # "none" =>
             /\ stage[r] \notin {"unborn", "admitted"}
             /\ worker[r] \/ stage[r] = "ended"
        /\ joined[r] \/ handle[r] = "dropped" => stage[r] = "ended"

ServiceInv ==
    /\ \A r \in retained : r <= started
    /\ service # "live" => \A t \in Threads : call[t].op # "start"
    /\ service # "closing" => \A t \in Threads : call[t].by = "handle"
    /\ service = "gone" => retained = {}
    /\ \A t \in Threads :
         /\ call[t].op = "close" => call[t].by = "service"
         /\ call[t].by = "service" =>
              /\ call[t].op \in {"close"} \cup Joining
              /\ \A u \in Threads : call[u].by = "service" => u = t
    /\ \A r \in Runs : r <= started =>
         r \in retained \/ stage[r] = "ended" \/ \E t \in Threads : Closing(t, r)

CallInv == RunOfCall /\ HandleInv /\ ServiceInv

(* A Run Worker's own steps are none of its callers' business.             *)
LEMMA WorkerKeepsCalls ==
  ASSUME TypeOK, CallInv, NEW r \in Runs, NEW s \in Stages, Goto(r, s),
         stage[r] \notin {"unborn", "ended"}, s \notin {"unborn", "admitted"},
         UNCHANGED <<started, service, retained, worker, joined, handle, call>>
  PROVE  CallInv'
<1> USE DEF CallInv, TypeOK
<1>1. \A q \in Runs :
        /\ q # r => stage'[q] = stage[q]
        /\ (stage'[q] = "unborn") = (stage[q] = "unborn")
        /\ stage[q] = "ended" => stage'[q] = "ended"
        /\ stage'[q] \in {"unborn", "admitted"} => stage[q] \in {"unborn", "admitted"}
  OBVIOUS
<1>2. RunOfCall'
  BY <1>1 DEF RunOfCall, Starting, Joining
<1>3. HandleInv'
  BY <1>1 DEF HandleInv, Starting
<1>4. ServiceInv'
  BY <1>1 DEF ServiceInv, Closing, Joining
<1> QED
  BY <1>2, <1>3, <1>4

(* No call in flight is confused about its run, and the service forgets no *)
(* run that is still executing.                                            *)
THEOREM CallInvariant == Spec => []CallInv
<1> USE DEF CallInv, RunOfCall, HandleInv, ServiceInv, Joining, Closing, Starting,
      TypeOK
<1>1. Init => CallInv
  BY DEF Init, Idle
<1>2. TypeOK /\ CallInv /\ [Next]_vars => CallInv'
  <2> SUFFICES ASSUME TypeOK, CallInv, [Next]_vars PROVE CallInv'
    OBVIOUS
  <2>1. ASSUME NEW r \in Runs, RecordFact(r)
        PROVE  CallInv'
    BY <2>1, WorkerKeepsCalls DEF RecordFact, Publish, After, Stages, Kinds
  <2>2. ASSUME NEW r \in Runs, RecordSafetyCleanup(r)
        PROVE  CallInv'
    BY <2>2, WorkerKeepsCalls DEF RecordSafetyCleanup, Publish, After, Stages, Kinds
  <2>3. ASSUME NEW r \in Runs, PerformCleanup(r)
        PROVE  CallInv'
    BY <2>3, WorkerKeepsCalls DEF PerformCleanup, After, Stages, Kinds
  <2>4. ASSUME NEW r \in Runs, Escape(r)
        PROVE  CallInv'
    BY <2>4, WorkerKeepsCalls DEF Escape, After, Stages, Kinds
  <2>5. ASSUME NEW r \in Runs, Salvage(r)
        PROVE  CallInv'
    BY <2>5, WorkerKeepsCalls DEF Salvage, Publish, Pending, After, Stages, Kinds
  <2>6. ASSUME NEW r \in Runs, PublishResult(r)
        PROVE  CallInv'
    BY <2>6, WorkerKeepsCalls DEF PublishResult, Verdicts, After, Stages, Kinds
  <2>7. ASSUME NEW r \in Runs, ReleaseSlot(r)
        PROVE  CallInv'
    BY <2>7, WorkerKeepsCalls DEF ReleaseSlot, After, Stages, Kinds
  <2>8. ASSUME NEW r \in Runs, Emit(r)
        PROVE  CallInv'
    BY <2>8, WorkerKeepsCalls DEF Emit, After, After, Stages, Kinds
  <2>9. ASSUME NEW r \in Runs, LeaveCallback(r)
        PROVE  CallInv'
    BY <2>9, WorkerKeepsCalls DEF LeaveCallback, After, After, Stages, Kinds
  <2>10. ASSUME NEW r \in Runs, FinishCommit(r)
         PROVE  CallInv'
    BY <2>10, WorkerKeepsCalls DEF FinishCommit, After, Stages, Kinds
  <2>11. ASSUME NEW r \in Runs, EndWorker(r)
         PROVE  CallInv'
    BY <2>11, WorkerKeepsCalls DEF EndWorker, After, Stages, Kinds
  <2>12. ASSUME NEW t \in Threads, Admit(t)
         PROVE  CallInv'
    <3>1. RunOfCall'
      BY <2>12 DEF Admit, NextRun, Vacant, MayCall, Alive, Calling, Idle
    <3>2. HandleInv'
      BY <2>12 DEF Admit, NextRun, Vacant, MayCall, Alive, Calling, Idle
    <3>3. ServiceInv'
      BY <2>12 DEF Admit, NextRun, Vacant, MayCall, Alive, Calling, Idle
    <3> QED
      BY <3>1, <3>2, <3>3 DEF CallInv
  <2>13. ASSUME NEW t \in Threads, SpawnWorker(t)
         PROVE  CallInv'
    BY <2>13, WorkerKeepsCalls DEF SpawnWorker, After, Stages, Kinds
  <2>14. ASSUME NEW t \in Threads, FailSchedule(t)
         PROVE  CallInv'
    BY <2>14, WorkerKeepsCalls DEF FailSchedule, After, Stages, Kinds
  <2>15. ASSUME NEW t \in Threads, ReturnHandle(t)
         PROVE  CallInv'
    <3>1. RunOfCall'
      BY <2>15 DEF ReturnHandle, Return, Idle
    <3>2. HandleInv'
      <4> DEFINE q == call[t].run
      <4> HIDE DEF CallInv, RunOfCall, HandleInv, ServiceInv, TypeOK
      <4>1. /\ call[t].op = "start" /\ q \in Runs
            /\ stage[q] \notin {"unborn", "admitted"}
        BY <2>15 DEF ReturnHandle, CallInv, RunOfCall
      <4>2. \A r \in Runs : r # q => handle'[r] = handle[r] /\ worker'[r] = worker[r]
        BY <2>15 DEF ReturnHandle, TypeOK
      <4>3. handle'[q] = "held" /\ (worker'[q] \/ stage[q] = "ended")
        BY <2>15, <4>1 DEF ReturnHandle, TypeOK
      <4>4. \A u \in Threads : u # t => call'[u] = call[u]
        BY <2>15 DEF ReturnHandle, Return, TypeOK
      <4>5. UNCHANGED <<stage, started, joined>>
        BY <2>15 DEF ReturnHandle
      <4> HIDE DEF q
      <4> QED
        BY <4>1, <4>2, <4>3, <4>4, <4>5 DEF CallInv, HandleInv, q
    <3>3. ServiceInv'
      BY <2>15 DEF ReturnHandle, Return, Idle
    <3> QED
      BY <3>1, <3>2, <3>3 DEF CallInv
  <2>16. ASSUME NEW t \in Threads, ReturnFromWait(t)
         PROVE  CallInv'
    <3>1. RunOfCall'
      BY <2>16 DEF ReturnFromWait, See, Return, Idle
    <3>2. HandleInv'
      BY <2>16 DEF ReturnFromWait, See, Return, Idle
    <3>3. ServiceInv'
      <4>1. \A u \in Threads : call'[u] = IF u = t THEN Idle ELSE call[u]
        BY <2>16 DEF ReturnFromWait, Return, TypeOK
      <4>2. call[t].op = "wait" /\ UNCHANGED <<stage, started, service, retained>>
        BY <2>16 DEF ReturnFromWait
      <4>3. Idle.op = "idle" /\ Idle.by = "handle" /\ UNCHANGED service
        BY <2>16, CallRecords DEF ReturnFromWait
      <4>4. call[t].by = "handle"
        <5>1. call[t].by \in Callers
          BY CallRecords DEF TypeOK
        <5>2. call[t].by # "service"
          BY <4>2 DEF CallInv, ServiceInv, Joining
        <5> QED
          BY <5>1, <5>2 DEF Callers
      <4>5. \A r \in Runs, u \in Threads : Closing(u, r) => Closing(u, r)'
        BY <4>1, <4>2, <4>4 DEF Closing, Joining
      <4>6. \A u \in Threads : call'[u].by = "service" => u # t /\ call[u].by = "service"
        BY <4>1, <4>3
      <4>7. ServiceInv /\ started \in Nat
        BY DEF CallInv, TypeOK
      <4>8. \A u \in Threads : u # t => call'[u] = call[u]
        BY <4>1
      <4>9. call'[t].op = "idle" /\ call'[t].by = "handle"
        BY <4>1, <4>3
      <4> HIDE DEF Closing
      <4>10. \A r \in Runs : r <= started' =>
               r \in retained' \/ stage'[r] = "ended" \/ \E u \in Threads : Closing(u, r)'
        BY <4>2, <4>5, <4>7 DEF ServiceInv
      <4>11. /\ service' # "live" => \A u \in Threads : call'[u].op # "start"
             /\ service' # "closing" => \A u \in Threads : call'[u].by = "handle"
             /\ \A u \in Threads : call'[u].op = "close" => call'[u].by = "service"
        BY <4>3, <4>7, <4>8, <4>9 DEF ServiceInv
      <4>12. \A u \in Threads :
               call'[u].by = "service" =>
                 /\ call'[u].op \in {"close"} \cup Joining
                 /\ \A v \in Threads : call'[v].by = "service" => v = u
        BY <4>6, <4>7, <4>8 DEF ServiceInv
      <4>13. /\ \A r \in retained' : r <= started'
             /\ service' = "gone" => retained' = {}
        BY <4>2, <4>3, <4>7 DEF ServiceInv
      <4> QED
        BY <4>10, <4>11, <4>12, <4>13 DEF ServiceInv
    <3> QED
      BY <3>1, <3>2, <3>3 DEF CallInv
  <2>17. ASSUME NEW t \in Threads, AbortOnWorker(t)
         PROVE  CallInv'
    BY <2>17 DEF AbortOnWorker
  <2>18. ASSUME NEW t \in Threads, CancelBeforeJoin(t)
         PROVE  CallInv'
    <3>1. RunOfCall'
      BY <2>18 DEF CancelBeforeJoin, Calling, Idle
    <3>2. HandleInv'
      BY <2>18 DEF CancelBeforeJoin, Calling, Idle
    <3>3. ServiceInv'
      BY <2>18 DEF CancelBeforeJoin, Calling, Idle
    <3> QED
      BY <3>1, <3>2, <3>3 DEF CallInv
  <2>19. ASSUME NEW t \in Threads, LockJoin(t)
         PROVE  CallInv'
    <3>1. RunOfCall'
      BY <2>19 DEF LockJoin, Calling, Idle
    <3>2. HandleInv'
      BY <2>19 DEF LockJoin, Calling, Idle
    <3>3. ServiceInv'
      BY <2>19 DEF LockJoin, Calling, Idle
    <3> QED
      BY <3>1, <3>2, <3>3 DEF CallInv
  <2>20. ASSUME NEW t \in Threads, FinishJoin(t)
         PROVE  CallInv'
    <3> DEFINE q == call[t].run
    <3> HIDE DEF CallInv, RunOfCall, HandleInv, ServiceInv, TypeOK
    <3>1. call[t].op = "join" /\ call[t].by \in {"handle", "service"}
      BY <2>20, CallRecords DEF FinishJoin, Callers, TypeOK
    <3>2. q \in Runs /\ handle[q] # "none"
      BY <3>1 DEF CallInv, RunOfCall, Joining
    <3>3. stage[q] = "ended"
      BY <2>20, <3>2 DEF FinishJoin, Joinable, CallInv, HandleInv
    <3>4. /\ \A u \in Threads : u # t => call'[u] = call[u]
          /\ IF call[t].by = "handle"
               THEN call'[t].op = "idle" /\ call'[t].by = "handle"
               ELSE call'[t].op = "close" /\ call'[t].by = "service"
      BY <2>20 DEF FinishJoin, Calling, Return, Idle, TypeOK
    <3>5. \A r \in Runs : handle'[r] = handle[r] \/ (r = q /\ handle'[r] = "dropped")
      <4>1. handle' = handle \/ handle' = [handle EXCEPT ![q] = "dropped"]
        BY <2>20 DEF FinishJoin
      <4> HIDE DEF q
      <4>2. CASE handle' = handle
        BY <4>2
      <4>3. CASE handle' = [handle EXCEPT ![q] = "dropped"]
        BY <3>2, <4>3 DEF TypeOK
      <4> QED
        BY <4>1, <4>2, <4>3
    <3>6. \A r \in Runs : joined'[r] = joined[r] \/ r = q
      BY <2>20, <3>2 DEF FinishJoin, TypeOK
    <3>7. UNCHANGED <<stage, started, service, retained, worker>>
      BY <2>20 DEF FinishJoin
    <3> HIDE DEF q
    <3>8. RunOfCall'
      BY <3>1, <3>2, <3>4, <3>5, <3>7 DEF CallInv, RunOfCall
    <3>9. HandleInv'
      BY <3>1, <3>2, <3>3, <3>4, <3>5, <3>6, <3>7 DEF CallInv, HandleInv
    <3>10. ServiceInv'
      BY <3>1, <3>2, <3>3, <3>4, <3>7 DEF CallInv, ServiceInv, q
    <3> QED
      BY <3>8, <3>9, <3>10 DEF CallInv
  <2>21. ASSUME NEW t \in Threads, FinishService(t)
         PROVE  CallInv'
    <3>1. RunOfCall'
      BY <2>21 DEF FinishService, Return, Idle
    <3>2. HandleInv'
      BY <2>21 DEF FinishService, Return, Idle
    <3>3. ServiceInv'
      <4> HIDE DEF CallInv, RunOfCall, HandleInv, ServiceInv, TypeOK
      <4>1. /\ call[t].op = "close" /\ retained' = {} /\ retained = {}
            /\ service' = "gone" /\ UNCHANGED <<stage, started>>
        BY <2>21 DEF FinishService
      <4>2. /\ \A u \in Threads : u # t => call'[u] = call[u]
            /\ call'[t].op = "idle" /\ call'[t].by = "handle"
        BY <2>21 DEF FinishService, Return, Idle, TypeOK
      <4>3. call[t].by = "service" /\ service # "live"
        BY <4>1 DEF CallInv, ServiceInv
      <4>4. \A u \in Threads : u # t => call[u].by = "handle"
        <5> SUFFICES ASSUME NEW u \in Threads, u # t PROVE call[u].by = "handle"
          OBVIOUS
        <5>1. call[u].by \in {"handle", "service"}
          BY CallRecords DEF TypeOK, Callers
        <5> QED
          BY <4>3, <5>1 DEF CallInv, ServiceInv
      <4> QED
        BY <4>1, <4>2, <4>3, <4>4 DEF CallInv, ServiceInv
    <3> QED
      BY <3>1, <3>2, <3>3 DEF CallInv
  <2>22. ASSUME NEW t \in Threads, DropService(t)
         PROVE  CallInv'
    <3>1. RunOfCall'
      BY <2>22 DEF DropService, MayCall, Calling, Idle
    <3>2. HandleInv'
      BY <2>22 DEF DropService, MayCall, Calling, Idle
    <3>3. ServiceInv'
      BY <2>22 DEF DropService, MayCall, Calling, Idle
    <3> QED
      BY <3>1, <3>2, <3>3 DEF CallInv
  <2>23. ASSUME NEW t \in Threads, NEW r \in Runs, JoinRetained(t, r)
         PROVE  CallInv'
    <3>1. CASE ~Alive(r)
      BY <2>23, <3>1 DEF JoinRetained, Alive
    <3> HIDE DEF CallInv, RunOfCall, HandleInv, ServiceInv, TypeOK
    <3>2. CASE Alive(r)
      <4>1. call[t].op = "close" /\ call[t].by = "service" /\ r <= started
        BY <2>23 DEF JoinRetained, CallInv, ServiceInv
      <4>2. handle[r] # "none"
        <5>1. service # "live" /\ stage[r] # "unborn"
          BY <4>1 DEF CallInv, ServiceInv, HandleInv, TypeOK
        <5> QED
          BY <5>1 DEF CallInv, ServiceInv, HandleInv
      <4>3. /\ \A u \in Threads : u # t => call'[u] = call[u]
            /\ call'[t].op = "check" /\ call'[t].run = r /\ call'[t].by = "service"
        BY <2>23, <3>2 DEF JoinRetained, Calling, TypeOK
      <4>4. /\ UNCHANGED <<stage, started, service, worker, handle, joined>>
            /\ retained' = retained \ {r}
        BY <2>23 DEF JoinRetained
      <4>5. RunOfCall'
        BY <4>1, <4>2, <4>3, <4>4 DEF CallInv, RunOfCall
      <4>6. HandleInv'
        BY <4>1, <4>2, <4>3, <4>4 DEF CallInv, HandleInv
      <4>7. ServiceInv'
        BY <4>1, <4>2, <4>3, <4>4 DEF CallInv, ServiceInv
      <4> QED
        BY <4>5, <4>6, <4>7 DEF CallInv
    <3> QED
      BY <3>1, <3>2
  <2>24. ASSUME NEW t \in Threads, NEW r \in Runs, RequestCancellation(t, r)
         PROVE  CallInv'
    BY <2>24 DEF RequestCancellation, MayCall
  <2>25. ASSUME NEW t \in Threads, NEW r \in Runs, PollResult(t, r)
         PROVE  CallInv'
    BY <2>25 DEF PollResult, See, Locked, MayCall
  <2>26. ASSUME NEW t \in Threads, NEW r \in Runs, Wait(t, r)
         PROVE  CallInv'
    <3>1. RunOfCall'
      BY <2>26 DEF Wait, MayCall, Calling, Idle
    <3>2. HandleInv'
      BY <2>26 DEF Wait, MayCall, Calling, Idle
    <3>3. ServiceInv'
      BY <2>26 DEF Wait, MayCall, Calling, Idle
    <3> QED
      BY <3>1, <3>2, <3>3 DEF CallInv
  <2>27. ASSUME NEW t \in Threads, NEW r \in Runs, DropHandle(t, r)
         PROVE  CallInv'
    <3>1. RunOfCall'
      BY <2>27 DEF DropHandle, MayCall, Calling, Idle
    <3>2. HandleInv'
      BY <2>27 DEF DropHandle, MayCall, Calling, Idle
    <3>3. ServiceInv'
      BY <2>27 DEF DropHandle, MayCall, Calling, Idle
    <3> QED
      BY <3>1, <3>2, <3>3 DEF CallInv
  <2>28. CASE UNCHANGED vars
    BY <2>28 DEF vars
  <2> QED
    BY <2>1, <2>2, <2>3, <2>4, <2>5, <2>6, <2>7, <2>8, <2>9, <2>10,
       <2>11, <2>12, <2>13, <2>14, <2>15, <2>16, <2>17, <2>18, <2>19, <2>20,
       <2>21, <2>22, <2>23, <2>24, <2>25, <2>26, <2>27, <2>28
       DEF Next, WorkerStep, CallStep, NewCall
<1> QED
  BY <1>1, <1>2, TypeCorrect, PTL DEF Spec

-----------------------------------------------------------------------------
(* The stages of a Run Worker.                                             *)

(* Its terminal event is recorded.                                         *)
Committed(r) ==
    \/ stage[r] \in {"finish", "exit", "ended"}
    \/ stage[r] \in {"emit", "callback"} /\ kind[r] = "terminal"

(* It is before its Safety Cleanup pass.                                   *)
Uncleaned(r) ==
    \/ stage[r] \in {"unborn", "admitted", "work", "unwind", "sweep"}
    \/ stage[r] \in {"emit", "callback"} /\ kind[r] # "terminal"

SlotInv ==
    /\ slot # NoRun => stage[slot] # "unborn" /\ ~Committed(slot)
    /\ \A r \in Runs : stage[r] # "unborn" /\ ~Committed(r) => slot = r

ResultInv ==
    \A r \in Runs :
        /\ result[r] # "none" <=> stage[r] = "release" \/ Committed(r)
        /\ dispatched[r] => stage[r] \in {"exit", "ended"}
        /\ r \in seen => Committed(r)

CleanupInv ==
    \A r \in Runs :
        /\ Uncleaned(r) => cleanups[r] = 0
        /\ stage[r] = "seal" \/ stage[r] = "release" \/ Committed(r) => cleanups[r] = 1
        /\ cleanups[r] \in {0, 1}

EventInv ==
    \A r \in Runs :
        /\ stage[r] \in {"unborn", "admitted"} => sent[r] = "none"
        /\ stage[r] = "work" => sent[r] \in {"none", "fact"}
        /\ stage[r] = "escaped" =>
             sent[r] \in IF cleanups[r] = 0 THEN {"none", "fact"} ELSE {"cleanup"}
        /\ stage[r] = "unwind" => sent[r] = "escape"
        /\ stage[r] \in {"sweep", "seal", "release"} => sent[r] \in {"cleanup", "salvage"}
        /\ stage[r] = "sweep" => kind[r] = sent[r]
        /\ stage[r] = "seal" /\ kind[r] = "cleanup" => sent[r] = "cleanup"
        /\ stage[r] = "callback" => sent[r] = kind[r]
        /\ stage[r] = "emit" =>
             \/ kind[r] \in {"fact", "escape", "cleanup"} /\ sent[r] \in {"none", "fact"}
             \/ kind[r] = "salvage" /\ sent[r] = "escape"
             \/ kind[r] = "terminal" /\ sent[r] \in {"cleanup", "salvage"}

PhaseInv == SlotInv /\ ResultInv /\ CleanupInv /\ EventInv

(* The stage of a worker fixes what the process may observe of its run.    *)
THEOREM PhaseInvariant == Spec => []PhaseInv
<1> USE DEF PhaseInv, SlotInv, ResultInv, CleanupInv, EventInv, Committed, Uncleaned,
      TypeOK, Kinds, Stages, Outcomes, CallInv, RunOfCall, HandleInv
<1>1. Init => PhaseInv
  BY DEF Init
<1>2. TypeOK /\ CallInv /\ PhaseInv /\ [Next]_vars => PhaseInv'
  <2> SUFFICES ASSUME TypeOK, CallInv, PhaseInv, [Next]_vars PROVE PhaseInv'
    OBVIOUS
  <2>1. ASSUME NEW r \in Runs, RecordFact(r)
        PROVE  PhaseInv'
    BY <2>1 DEF RecordFact, Publish
  <2>2. ASSUME NEW r \in Runs, RecordSafetyCleanup(r)
        PROVE  PhaseInv'
    <3>1. SlotInv'
      BY <2>2 DEF RecordSafetyCleanup, Publish
    <3>2. ResultInv'
      BY <2>2 DEF RecordSafetyCleanup, Publish
    <3>3. CleanupInv'
      BY <2>2 DEF RecordSafetyCleanup, Publish
    <3>4. EventInv'
      BY <2>2 DEF RecordSafetyCleanup, Publish
    <3> QED
      BY <3>1, <3>2, <3>3, <3>4
  <2>3. ASSUME NEW r \in Runs, PerformCleanup(r)
        PROVE  PhaseInv'
    BY <2>3 DEF PerformCleanup
  <2>4. ASSUME NEW r \in Runs, Escape(r)
        PROVE  PhaseInv'
    BY <2>4 DEF Escape
  <2>5. ASSUME NEW r \in Runs, Salvage(r)
        PROVE  PhaseInv'
    <3>1. SlotInv'
      <4>1. CASE Pending(r)
        BY <2>5, <4>1 DEF Salvage, Publish, Pending
      <4>2. CASE ~Pending(r)
        BY <2>5, <4>2 DEF Salvage, Pending
      <4> QED
        BY <4>1, <4>2
    <3>2. ResultInv'
      BY <2>5 DEF Salvage, Publish, Pending
    <3>3. CleanupInv'
      BY <2>5 DEF Salvage, Publish, Pending
    <3>4. EventInv'
      <4>1. CASE Pending(r)
        BY <2>5, <4>1 DEF Salvage, Publish, Pending
      <4>2. CASE ~Pending(r)
        BY <2>5, <4>2 DEF Salvage, Pending
      <4> QED
        BY <4>1, <4>2
    <3> QED
      BY <3>1, <3>2, <3>3, <3>4
  <2>6. ASSUME NEW r \in Runs, PublishResult(r)
        PROVE  PhaseInv'
    BY <2>6 DEF PublishResult, Verdicts
  <2>7. ASSUME NEW r \in Runs, ReleaseSlot(r)
        PROVE  PhaseInv'
    BY <2>7 DEF ReleaseSlot
  <2>8. ASSUME NEW r \in Runs, Emit(r)
        PROVE  PhaseInv'
    BY <2>8 DEF Emit, After
  <2>9. ASSUME NEW r \in Runs, LeaveCallback(r)
        PROVE  PhaseInv'
    BY <2>9 DEF LeaveCallback, After
  <2>10. ASSUME NEW r \in Runs, FinishCommit(r)
         PROVE  PhaseInv'
    BY <2>10 DEF FinishCommit
  <2>11. ASSUME NEW r \in Runs, EndWorker(r)
         PROVE  PhaseInv'
    BY <2>11 DEF EndWorker
  <2>12. ASSUME NEW t \in Threads, Admit(t)
         PROVE  PhaseInv'
    BY <2>12 DEF Admit, NextRun, Vacant, MayCall
  <2>13. ASSUME NEW t \in Threads, SpawnWorker(t)
         PROVE  PhaseInv'
    BY <2>13 DEF SpawnWorker
  <2>14. ASSUME NEW t \in Threads, FailSchedule(t)
         PROVE  PhaseInv'
    BY <2>14 DEF FailSchedule
  <2>15. ASSUME NEW t \in Threads, ReturnHandle(t)
         PROVE  PhaseInv'
    BY <2>15 DEF ReturnHandle
  <2>16. ASSUME NEW t \in Threads, ReturnFromWait(t)
         PROVE  PhaseInv'
    BY <2>16 DEF ReturnFromWait, See
  <2>17. ASSUME NEW t \in Threads, AbortOnWorker(t)
         PROVE  PhaseInv'
    BY <2>17 DEF AbortOnWorker
  <2>18. ASSUME NEW t \in Threads, CancelBeforeJoin(t)
         PROVE  PhaseInv'
    BY <2>18 DEF CancelBeforeJoin
  <2>19. ASSUME NEW t \in Threads, LockJoin(t)
         PROVE  PhaseInv'
    BY <2>19 DEF LockJoin
  <2>20. ASSUME NEW t \in Threads, FinishJoin(t)
         PROVE  PhaseInv'
    BY <2>20 DEF FinishJoin, Joinable
  <2>21. ASSUME NEW t \in Threads, FinishService(t)
         PROVE  PhaseInv'
    BY <2>21 DEF FinishService
  <2>22. ASSUME NEW t \in Threads, DropService(t)
         PROVE  PhaseInv'
    BY <2>22 DEF DropService, MayCall
  <2>23. ASSUME NEW t \in Threads, NEW r \in Runs, JoinRetained(t, r)
         PROVE  PhaseInv'
    BY <2>23 DEF JoinRetained, Alive
  <2>24. ASSUME NEW t \in Threads, NEW r \in Runs, RequestCancellation(t, r)
         PROVE  PhaseInv'
    BY <2>24 DEF RequestCancellation, MayCall
  <2>25. ASSUME NEW t \in Threads, NEW r \in Runs, PollResult(t, r)
         PROVE  PhaseInv'
    BY <2>25 DEF PollResult, See, Locked, MayCall
  <2>26. ASSUME NEW t \in Threads, NEW r \in Runs, Wait(t, r)
         PROVE  PhaseInv'
    BY <2>26 DEF Wait, MayCall
  <2>27. ASSUME NEW t \in Threads, NEW r \in Runs, DropHandle(t, r)
         PROVE  PhaseInv'
    BY <2>27 DEF DropHandle, MayCall
  <2>28. CASE UNCHANGED vars
    BY <2>28 DEF vars
  <2> QED
    BY <2>1, <2>2, <2>3, <2>4, <2>5, <2>6, <2>7, <2>8, <2>9, <2>10,
       <2>11, <2>12, <2>13, <2>14, <2>15, <2>16, <2>17, <2>18, <2>19, <2>20,
       <2>21, <2>22, <2>23, <2>24, <2>25, <2>26, <2>27, <2>28
       DEF Next, WorkerStep, CallStep, NewCall
<1> QED
  BY <1>1, <1>2, TypeCorrect, CallInvariant, PTL DEF Spec

-----------------------------------------------------------------------------
(* The properties of the module.                                           *)

(* Whoever has seen a run's result can start the next one.                 *)
THEOREM ResultFreesTheSlot == Spec => []TerminalFreesTheSlot
<1>1. TypeOK /\ PhaseInv => TerminalFreesTheSlot
  BY DEF TypeOK, PhaseInv, SlotInv, ResultInv, Committed, TerminalFreesTheSlot
<1> QED
  BY <1>1, TypeCorrect, PhaseInvariant, PTL

(* Every terminal path performs Safety Cleanup exactly once.               *)
THEOREM CleansOnce == Spec => []OneCleanup
<1>1. TypeOK /\ PhaseInv => OneCleanup
  BY DEF TypeOK, PhaseInv, ResultInv, CleanupInv, Committed, OneCleanup
<1> QED
  BY <1>1, TypeCorrect, PhaseInvariant, PTL

(* Neither drop leaves a run executing.                                    *)
THEOREM DropsJoin == Spec => []NoAbandonedRun
<1>1. TypeOK /\ CallInv => NoAbandonedRun
  <2> SUFFICES ASSUME TypeOK, CallInv PROVE NoAbandonedRun
    OBVIOUS
  <2>1. \A r \in Runs : handle[r] = "dropped" => stage[r] = "ended"
    BY DEF CallInv, HandleInv
  <2>2. ASSUME service = "gone", NEW r \in 1..started PROVE stage[r] = "ended"
    <3>1. r \in Runs /\ r <= started
      BY DEF TypeOK
    <3> QED
      BY <2>2, <3>1 DEF CallInv, ServiceInv, Closing
  <2> QED
    BY <2>1, <2>2 DEF NoAbandonedRun
<1> QED
  BY <1>1, TypeCorrect, CallInvariant, PTL

(* A run's events never go back, whichever stage panics.                   *)
THEOREM EventsAdvance == Spec => EventOrder
<1> DEFINE Advance == \A r \in Runs : sent'[r] # sent[r] => Rank(sent[r]) < Rank(sent'[r])
<1>1. TypeOK /\ PhaseInv /\ [Next]_vars => [Advance]_vars
  <2> SUFFICES ASSUME TypeOK, PhaseInv, Next PROVE Advance
    OBVIOUS
  <2>1. ASSUME NEW r \in Runs, Emit(r)
        PROVE  Advance
    BY <2>1 DEF Emit, PhaseInv, EventInv, Rank, TypeOK, Kinds
  <2>2. CASE UNCHANGED sent
    BY <2>2
  <2>3. ASSUME NEW r \in Runs, WorkerStep(r)
        PROVE  Emit(r) \/ UNCHANGED sent
    BY <2>3 DEF WorkerStep, Publish, RecordFact, RecordSafetyCleanup, PerformCleanup,
       Escape, Salvage, PublishResult, ReleaseSlot, LeaveCallback, FinishCommit, EndWorker
  <2>4. ASSUME NEW t \in Threads, CallStep(t)
        PROVE  UNCHANGED sent
    BY <2>4 DEF CallStep, SpawnWorker, FailSchedule, ReturnHandle, ReturnFromWait,
       AbortOnWorker, CancelBeforeJoin, LockJoin, FinishJoin, FinishService, JoinRetained
  <2>5. ASSUME NEW t \in Threads, NewCall(t)
        PROVE  UNCHANGED sent
    BY <2>5 DEF NewCall, Admit, DropService, RequestCancellation, PollResult, Wait,
       DropHandle
  <2> HIDE DEF Advance
  <2> QED
    BY <2>1, <2>2, <2>3, <2>4, <2>5 DEF Next
<1> QED
  BY <1>1, TypeCorrect, PhaseInvariant, PTL DEF Spec, EventOrder

(* The service implements the abstract one: at most one active run, and    *)
(* its outcome and the free slot appear in one step.                       *)
THEOREM ImplementsSingleActiveRun == Spec => ServesOneRun
<1> USE DEF Promise!Next, Promise!Admit, Promise!Commit, Promise!Outcomes
<1> DEFINE Shown == [r \in Runs |-> Visible(r)]
           Goal == [Promise!Next]_<<slot, Shown>>
<1>1. Init => Promise!Init
  BY DEF Init, Promise!Init, Visible, Locked
<1>2. TypeOK /\ CallInv /\ PhaseInv /\ [Next]_vars => Goal
  <2> SUFFICES ASSUME TypeOK, CallInv, PhaseInv, [Next]_vars PROVE Goal
    OBVIOUS
  <2> USE DEF TypeOK, Stages, Outcomes, Visible, Locked, PhaseInv, SlotInv, ResultInv,
        Committed
  <2>1. ASSUME NEW r \in Runs, RecordFact(r)
        PROVE  Goal
    BY <2>1 DEF RecordFact, Publish
  <2>2. ASSUME NEW r \in Runs, RecordSafetyCleanup(r)
        PROVE  Goal
    BY <2>2 DEF RecordSafetyCleanup, Publish
  <2>3. ASSUME NEW r \in Runs, PerformCleanup(r)
        PROVE  Goal
    BY <2>3 DEF PerformCleanup
  <2>4. ASSUME NEW r \in Runs, Escape(r)
        PROVE  Goal
    BY <2>4 DEF Escape
  <2>5. ASSUME NEW r \in Runs, Salvage(r)
        PROVE  Goal
    BY <2>5 DEF Salvage, Publish, Pending
  <2>6. ASSUME NEW r \in Runs, PublishResult(r)
        PROVE  Goal
    <3>1. result[r] = "none" /\ stage'[r] = "release" /\ UNCHANGED slot
      BY <2>6 DEF PublishResult
    <3>2. \A q \in Runs : q # r => stage'[q] = stage[q] /\ result'[q] = result[q]
      BY <2>6 DEF PublishResult
    <3>3. \A q \in Runs : Visible(q)' = Visible(q)
      BY <3>1, <3>2
    <3>4. UNCHANGED Shown
      BY <3>3, Zenon
    <3> QED
      BY <3>1, <3>4
  <2>7. ASSUME NEW r \in Runs, ReleaseSlot(r)
        PROVE  Goal
    <3>1. slot = r /\ slot' = NoRun /\ UNCHANGED result
      BY <2>7 DEF ReleaseSlot
    <3>2. stage[r] = "release" /\ result[r] \in Outcomes
      BY <2>7 DEF ReleaseSlot
    <3>3. Shown' = [Shown EXCEPT ![r] = result[r]]
      <4>1. \A q \in Runs : stage'[q] = IF q = r THEN "emit" ELSE stage[q]
        BY <2>7 DEF ReleaseSlot
      <4> QED
        BY <3>1, <3>2, <4>1
    <3> QED
      BY <3>1, <3>2, <3>3
  <2>8. ASSUME NEW r \in Runs, Emit(r)
        PROVE  Goal
    BY <2>8 DEF Emit, After
  <2>9. ASSUME NEW r \in Runs, LeaveCallback(r)
        PROVE  Goal
    BY <2>9 DEF LeaveCallback, After
  <2>10. ASSUME NEW r \in Runs, FinishCommit(r)
         PROVE  Goal
    BY <2>10 DEF FinishCommit
  <2>11. ASSUME NEW r \in Runs, EndWorker(r)
         PROVE  Goal
    BY <2>11 DEF EndWorker
  <2>12. ASSUME NEW t \in Threads, Admit(t)
         PROVE  Goal
    <3>1. NextRun \in Runs /\ slot = NoRun /\ slot' = NextRun
      BY <2>12 DEF Admit, NextRun, Vacant
    <3>2. stage[NextRun] = "unborn" /\ UNCHANGED result
      BY <2>12, <3>1 DEF Admit, NextRun, CallInv, HandleInv, facts
    <3>3. UNCHANGED Shown
      BY <2>12, <3>1, <3>2 DEF Admit
    <3>4. Shown[NextRun] = "none"
      BY <3>1, <3>2
    <3> QED
      BY <3>1, <3>3, <3>4
  <2>13. ASSUME NEW t \in Threads, SpawnWorker(t)
         PROVE  Goal
    BY <2>13 DEF SpawnWorker
  <2>14. ASSUME NEW t \in Threads, FailSchedule(t)
         PROVE  Goal
    BY <2>14 DEF FailSchedule
  <2>15. ASSUME NEW t \in Threads, ReturnHandle(t)
         PROVE  Goal
    BY <2>15 DEF ReturnHandle
  <2>16. ASSUME NEW t \in Threads, ReturnFromWait(t)
         PROVE  Goal
    BY <2>16 DEF ReturnFromWait, See
  <2>17. ASSUME NEW t \in Threads, AbortOnWorker(t)
         PROVE  Goal
    BY <2>17 DEF AbortOnWorker
  <2>18. ASSUME NEW t \in Threads, CancelBeforeJoin(t)
         PROVE  Goal
    BY <2>18 DEF CancelBeforeJoin
  <2>19. ASSUME NEW t \in Threads, LockJoin(t)
         PROVE  Goal
    BY <2>19 DEF LockJoin
  <2>20. ASSUME NEW t \in Threads, FinishJoin(t)
         PROVE  Goal
    BY <2>20 DEF FinishJoin, Joinable
  <2>21. ASSUME NEW t \in Threads, FinishService(t)
         PROVE  Goal
    BY <2>21 DEF FinishService
  <2>22. ASSUME NEW t \in Threads, DropService(t)
         PROVE  Goal
    BY <2>22 DEF DropService, MayCall
  <2>23. ASSUME NEW t \in Threads, NEW r \in Runs, JoinRetained(t, r)
         PROVE  Goal
    BY <2>23 DEF JoinRetained, Alive
  <2>24. ASSUME NEW t \in Threads, NEW r \in Runs, RequestCancellation(t, r)
         PROVE  Goal
    BY <2>24 DEF RequestCancellation, MayCall
  <2>25. ASSUME NEW t \in Threads, NEW r \in Runs, PollResult(t, r)
         PROVE  Goal
    BY <2>25 DEF PollResult, See, Locked, MayCall
  <2>26. ASSUME NEW t \in Threads, NEW r \in Runs, Wait(t, r)
         PROVE  Goal
    BY <2>26 DEF Wait, MayCall
  <2>27. ASSUME NEW t \in Threads, NEW r \in Runs, DropHandle(t, r)
         PROVE  Goal
    BY <2>27 DEF DropHandle, MayCall
  <2>28. CASE UNCHANGED vars
    BY <2>28 DEF vars
  <2> QED
    BY <2>1, <2>2, <2>3, <2>4, <2>5, <2>6, <2>7, <2>8, <2>9, <2>10,
       <2>11, <2>12, <2>13, <2>14, <2>15, <2>16, <2>17, <2>18, <2>19, <2>20,
       <2>21, <2>22, <2>23, <2>24, <2>25, <2>26, <2>27, <2>28
       DEF Next, WorkerStep, CallStep, NewCall
<1> QED
  BY <1>1, <1>2, TypeCorrect, CallInvariant, PhaseInvariant, PTL
     DEF Spec, ServesOneRun, Promise!Spec

=============================================================================
