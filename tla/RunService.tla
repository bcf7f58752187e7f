----------------------------- MODULE RunService -----------------------------
(***************************************************************************)
(* The Optimization Run Service of one process (service.rs, scheduler.rs): *)
(* client threads that start, cancel, poll, wait for and drop runs, and    *)
(* the Run Worker of each run, which executes it, commits its one result   *)
(* and calls the Run Event dispatcher, where the adapter may call back     *)
(* into the service.                                                       *)
(*                                                                         *)
(* A critical section is one action, except commit's, which takes the      *)
(* run's `published` lock and then ACTIVE_RUN: other threads run between   *)
(* the two.  What a run does before Safety Cleanup is the subject of       *)
(* RunExecutor; here it records facts, may fail and may panic.             *)
(*                                                                         *)
(* Abstractions.  Only the thread-backed scheduler is modelled: inline     *)
(* runs are used by tests.  A dispatcher waits for or drops runs that were *)
(* started no later than its own: two runs waiting for each other is the   *)
(* adapter's deadlock, not the service's.  The adapter drops the service   *)
(* from a client thread, when no start call borrows it.                    *)
(***************************************************************************)
EXTENDS Naturals

CONSTANTS
    Clients,    \* threads of the adapter
    NoThread,   \* nobody holds a join lock
    MaxRuns     \* bound: runs started in the process

Runs == 1..MaxRuns      \* a run is known by its number in create_run_id
NoRun == 0
Threads == Clients \cup Runs    \* the Run Worker of run r is thread r

ASSUME ClientAssumption ==
    Clients \cap Nat = {} /\ NoThread \notin Clients \cup Nat
ASSUME BoundAssumption == MaxRuns \in Nat

VARIABLES
    slot,           \* ACTIVE_RUN
    started,        \* runs created so far
    service,        \* the service: "live", "closing" or "gone"
    retained,       \* OptimizationRunService.runs
    (* RunShared and the Run Worker, for each run *)
    stage,          \* where its worker is
    kind,           \* the event last recorded; "salvage" is the Safety Cleanup
                    \* of terminal_failure, which builds a panicked run's result
    host,           \* the thread that executes it
    dispatcher,     \* it still has a Run Event dispatcher
    cancelled,      \* its CancellationToken
    cleanups,       \* Safety Cleanup passes performed
    result,         \* the published outcome
    dispatched,     \* terminal_dispatched
    (* RunWorkerLifetime and RunHandle, for each run *)
    worker,         \* lifetime.worker is set
    joining,        \* the thread that holds lifetime.joined
    joined,         \* lifetime.joined
    handle,         \* "none", "held", "dropping" or "dropped"
    (* Threads *)
    call,           \* the service call each thread is in
    aborted,        \* the process aborted
    (* History *)
    sent,           \* the kind of the last event numbered and dispatched
    seen            \* the runs whose terminal result some thread has read

shared == <<dispatcher, sent>>
facts == <<cleanups, result, dispatched>>
lifetime == <<worker, joining, joined, handle>>
admission == <<slot, started, service, retained>>
vars == <<admission, stage, kind, host, shared, cancelled, facts, lifetime,
          call, aborted, seen>>

Stages == {"unborn", "admitted", "work", "unwind", "escaped", "sweep", "seal",
           "release", "emit", "callback", "finish", "exit", "ended"}
Kinds == {"fact", "escape", "cleanup", "salvage", "terminal"}
Outcomes == {"succeeded", "cancelled", "failed"}
Callers == {"handle", "service"}
Calls ==
    [op : {"idle", "close"}, run : {NoRun}, by : Callers]
        \cup [op : {"start", "wait", "check", "lock", "join"}, run : Runs, by : Callers]
Idle == [op |-> "idle", run |-> NoRun, by |-> "handle"]

TypeOK ==
    /\ slot \in Runs \cup {NoRun}
    /\ started \in 0..MaxRuns
    /\ service \in {"live", "closing", "gone"}
    /\ retained \in SUBSET Runs
    /\ stage \in [Runs -> Stages]
    /\ kind \in [Runs -> Kinds]
    /\ host \in [Runs -> Threads]
    /\ dispatcher \in [Runs -> BOOLEAN]
    /\ cancelled \in [Runs -> BOOLEAN]
    /\ cleanups \in [Runs -> Nat]
    /\ result \in [Runs -> Outcomes \cup {"none"}]
    /\ dispatched \in [Runs -> BOOLEAN]
    /\ worker \in [Runs -> BOOLEAN]
    /\ joining \in [Runs -> Threads \cup {NoThread}]
    /\ joined \in [Runs -> BOOLEAN]
    /\ handle \in [Runs -> {"none", "held", "dropping", "dropped"}]
    /\ call \in [Threads -> Calls]
    /\ aborted \in BOOLEAN
    /\ sent \in [Runs -> Kinds \cup {"none"}]
    /\ seen \in SUBSET Runs

Init ==
    /\ slot = NoRun /\ started = 0 /\ service = "live" /\ retained = {}
    /\ stage = [r \in Runs |-> "unborn"]
    /\ kind = [r \in Runs |-> "fact"]
    /\ host = [r \in Runs |-> r]
    /\ dispatcher = [r \in Runs |-> FALSE]
    /\ cancelled = [r \in Runs |-> FALSE]
    /\ cleanups = [r \in Runs |-> 0]
    /\ result = [r \in Runs |-> "none"]
    /\ dispatched = [r \in Runs |-> FALSE]
    /\ worker = [r \in Runs |-> FALSE]
    /\ joining = [r \in Runs |-> NoThread]
    /\ joined = [r \in Runs |-> FALSE]
    /\ handle = [r \in Runs |-> "none"]
    /\ call = [t \in Threads |-> Idle]
    /\ aborted = FALSE
    /\ sent = [r \in Runs |-> "none"]
    /\ seen = {}

-----------------------------------------------------------------------------
Calling(t, op, r, by) ==
    call' = [call EXCEPT ![t] = [op |-> op, run |-> r, by |-> by]]
Return(t) == call' = [call EXCEPT ![t] = Idle]

(* A worker's thread is in the adapter's hands while its dispatcher runs.  *)
MayCall(t) ==
    /\ call[t] = Idle
    /\ t \in Runs => stage[t] = "callback" /\ host[t] = t

(* Mutant: the lock is dropped before the slot is released.                *)
UnlockedEarly(r) == FALSE

(* commit holds the run's `published` lock.                                *)
Locked(r) == stage[r] = "release"

(* The lifetime of a started run exists until its handle has gone.         *)
Alive(r) == handle[r] # "dropped"

At(r, s) == stage[r] = s
Goto(r, s) == stage' = [stage EXCEPT ![r] = s]

-----------------------------------------------------------------------------
(* start, and the scheduler.                                               *)

NextRun == started + 1

(* Mutant: a run is active once its handle exists.                         *)
VacantByHandle == \A r \in Runs : handle[r] # "held"

Vacant == slot = NoRun

(* A structural conflict or an active run returns a Start Error and leaves *)
(* no trace.                                                               *)
Admit(t) ==
    /\ MayCall(t) /\ service = "live"
    /\ Vacant /\ started < MaxRuns
    /\ slot' = NextRun /\ started' = NextRun
    /\ retained' = {r \in retained : Alive(r)} \cup {NextRun}
    /\ \E given \in BOOLEAN :
         dispatcher' = [dispatcher EXCEPT ![NextRun] = given]
    /\ Calling(t, "start", NextRun, "handle")
    /\ Goto(NextRun, "admitted")
    /\ UNCHANGED <<service, kind, host, sent, cancelled, facts, lifetime,
                   aborted, seen>>

(* The new thread may run, and even end, before schedule returns.          *)
SpawnWorker(t) ==
    LET r == call[t].run IN
    /\ call[t].op = "start" /\ At(r, "admitted")
    /\ Goto(r, "work")
    /\ UNCHANGED <<admission, kind, host, shared, cancelled, facts, lifetime,
                   call, aborted, seen>>

(* commit_scheduling_failure: the caller of start executes the run's end.  *)
FailSchedule(t) ==
    LET r == call[t].run IN
    /\ call[t].op = "start" /\ At(r, "admitted")
    /\ host' = [host EXCEPT ![r] = t]
    /\ Goto(r, "escaped")
    /\ UNCHANGED <<admission, kind, shared, cancelled, facts, lifetime, call,
                   aborted, seen>>

ReturnHandle(t) ==
    LET r == call[t].run IN
    /\ call[t].op = "start" /\ ~At(r, "admitted")
    /\ host[r] = r \/ At(r, "ended")
    /\ worker' = [worker EXCEPT ![r] = host[r] = r]
    /\ handle' = [handle EXCEPT ![r] = "held"]
    /\ Return(t)
    /\ UNCHANGED <<admission, stage, kind, host, shared, cancelled, facts,
                   joining, joined, aborted, seen>>

-----------------------------------------------------------------------------
(* execute: the run up to its sealed result.                               *)

(* Publish in the snapshot, then dispatch.                                 *)
Publish(r, k) ==
    /\ kind' = [kind EXCEPT ![r] = k]
    /\ Goto(r, "emit")
    /\ UNCHANGED shared

RecordFact(r) ==
    /\ At(r, "work")
    /\ Publish(r, "fact")
    /\ UNCHANGED <<admission, host, cancelled, facts, lifetime, call, aborted,
                   seen>>

RecordSafetyCleanup(r) ==
    /\ \/ At(r, "work") /\ Publish(r, "cleanup")
       \/ At(r, "unwind") /\ Publish(r, "salvage")
    /\ UNCHANGED <<admission, host, cancelled, facts, lifetime, call, aborted,
                   seen>>

(* Safety Cleanup runs to its end whatever was cancelled; the executor     *)
(* contains a pass that fails or panics.                                   *)
PerformCleanup(r) ==
    /\ At(r, "sweep")
    /\ cleanups' = [cleanups EXCEPT ![r] = @ + 1]
    /\ Goto(r, "seal")
    /\ UNCHANGED <<admission, kind, host, shared, cancelled, result,
                   dispatched, lifetime, call, aborted, seen>>

(* A panic escapes the executor, before Safety Cleanup or after it.        *)
Escape(r) ==
    /\ \/ At(r, "work")
       \/ At(r, "seal") /\ kind[r] = "cleanup"
    /\ Goto(r, "escaped")
    /\ UNCHANGED <<admission, kind, host, shared, cancelled, facts, lifetime,
                   call, aborted, seen>>

(* Mutant: the escaped run always owes a cleanup pass.                     *)
AlwaysPending(r) == TRUE

Pending(r) == cleanups[r] = 0

(* terminal_failure publishes the failure only before Safety Cleanup.      *)
Salvage(r) ==
    /\ At(r, "escaped")
    /\ \/ Pending(r) /\ Publish(r, "escape")
       \/ /\ ~Pending(r)
          /\ kind' = [kind EXCEPT ![r] = "salvage"]
          /\ Goto(r, "seal")
          /\ UNCHANGED shared
    /\ UNCHANGED <<admission, host, cancelled, facts, lifetime, call, aborted,
                   seen>>

(* Sealing: one sample of the token decides between success and            *)
(* cancellation; a run may have failed whatever was requested, and a       *)
(* salvaged run always has.                                                *)
Verdicts(r) ==
    IF kind[r] = "salvage" THEN {"failed"}
    ELSE {"failed", IF cancelled[r] THEN "cancelled" ELSE "succeeded"}

-----------------------------------------------------------------------------
(* commit and dispatch.                                                    *)

PublishResult(r) ==
    /\ At(r, "seal")
    /\ \E o \in Verdicts(r) : result' = [result EXCEPT ![r] = o]
    /\ Goto(r, "release")
    /\ UNCHANGED <<admission, kind, host, shared, cancelled, cleanups,
                   dispatched, lifetime, call, aborted, seen>>

ReleaseSlot(r) ==
    /\ At(r, "release")
    /\ slot' = IF slot = r THEN NoRun ELSE slot
    /\ kind' = [kind EXCEPT ![r] = "terminal"]
    /\ Goto(r, "emit")
    /\ UNCHANGED <<started, service, retained, host, shared, cancelled, facts,
                   lifetime, call, aborted, seen>>

After(k) ==
    IF k = "fact" THEN "work"
    ELSE IF k = "escape" THEN "unwind"
    ELSE IF k = "terminal" THEN "finish"
    ELSE "sweep"

Emit(r) ==
    /\ At(r, "emit")
    /\ sent' = [sent EXCEPT ![r] = kind[r]]
    /\ Goto(r, IF dispatcher[r] THEN "callback" ELSE After(kind[r]))
    /\ UNCHANGED <<admission, kind, host, dispatcher, cancelled, facts,
                   lifetime, call, aborted, seen>>

(* The dispatcher returns, or panics and is disabled; waiting for the run  *)
(* it runs on is such a panic.                                             *)
LeaveCallback(r) ==
    /\ At(r, "callback")
    /\ host[r] = r => call[r] = Idle
    /\ dispatcher' \in {dispatcher, [dispatcher EXCEPT ![r] = FALSE]}
    /\ Goto(r, After(kind[r]))
    /\ UNCHANGED <<admission, kind, host, sent, cancelled, facts, lifetime,
                   call, aborted, seen>>

FinishCommit(r) ==
    /\ At(r, "finish")
    /\ dispatcher' = [dispatcher EXCEPT ![r] = FALSE]
    /\ dispatched' = [dispatched EXCEPT ![r] = TRUE]
    /\ Goto(r, "exit")
    /\ UNCHANGED <<admission, kind, host, sent, cancelled, cleanups, result,
                   lifetime, call, aborted, seen>>

EndWorker(r) ==
    /\ At(r, "exit")
    /\ Goto(r, "ended")
    /\ UNCHANGED <<admission, kind, host, shared, cancelled, facts, lifetime,
                   call, aborted, seen>>

-----------------------------------------------------------------------------
(* RunHandle.                                                              *)

RequestCancellation(t, r) ==
    /\ MayCall(t) /\ handle[r] = "held" /\ ~cancelled[r]
    /\ cancelled' = [cancelled EXCEPT ![r] = TRUE]
    /\ UNCHANGED <<admission, stage, kind, host, shared, facts, lifetime, call,
                   aborted, seen>>

See(r) == seen' = seen \cup {r}

(* terminal_result, and the outcome of a snapshot.                         *)
PollResult(t, r) ==
    /\ MayCall(t) /\ handle[r] = "held"
    /\ ~Locked(r) /\ result[r] # "none"
    /\ See(r)
    /\ UNCHANGED <<admission, stage, kind, host, shared, cancelled, facts,
                   lifetime, call, aborted>>

(* A dispatcher's call about a run started no later than its own.          *)
MayAwait(t, r) == t \in Runs => r <= t

(* Mutant: the guard against waiting for oneself is missing.               *)
NeverFromWorker(t, r) == FALSE

CalledFromWorker(t, r) == t = host[r] /\ stage[r] # "ended"

Wait(t, r) ==
    /\ MayCall(t) /\ handle[r] = "held" /\ MayAwait(t, r) /\ r \notin seen
    /\ ~CalledFromWorker(t, r)
    /\ Calling(t, "wait", r, "handle")
    /\ UNCHANGED <<admission, stage, kind, host, shared, cancelled, facts,
                   lifetime, aborted, seen>>

ReturnFromWait(t) ==
    LET r == call[t].run IN
    /\ call[t].op = "wait" /\ dispatched[r]
    /\ See(r)
    /\ Return(t)
    /\ UNCHANGED <<admission, stage, kind, host, shared, cancelled, facts,
                   lifetime, aborted>>

(* The owner drops the handle, which nothing borrows any more.             *)
DropHandle(t, r) ==
    /\ MayCall(t) /\ handle[r] = "held" /\ MayAwait(t, r)
    /\ \A other \in Threads : ~(call[other].op = "wait" /\ call[other].run = r)
    /\ handle' = [handle EXCEPT ![r] = "dropping"]
    /\ Calling(t, "check", r, "handle")
    /\ UNCHANGED <<admission, stage, kind, host, shared, cancelled, facts,
                   worker, joining, joined, aborted, seen>>

-----------------------------------------------------------------------------
(* cancel_and_join, called by both drops.                                  *)

AbortOnWorker(t) ==
    /\ call[t].op = "check" /\ CalledFromWorker(t, call[t].run)
    /\ aborted' = TRUE
    /\ UNCHANGED <<admission, stage, kind, host, shared, cancelled, facts,
                   lifetime, call, seen>>

CancelBeforeJoin(t) ==
    /\ call[t].op = "check" /\ ~CalledFromWorker(t, call[t].run)
    /\ cancelled' = [cancelled EXCEPT ![call[t].run] = TRUE]
    /\ Calling(t, "lock", call[t].run, call[t].by)
    /\ UNCHANGED <<admission, stage, kind, host, shared, facts, lifetime,
                   aborted, seen>>

LockJoin(t) ==
    LET r == call[t].run IN
    /\ call[t].op = "lock" /\ joining[r] = NoThread
    /\ joining' = [joining EXCEPT ![r] = t]
    /\ Calling(t, "join", r, call[t].by)
    /\ UNCHANGED <<admission, stage, kind, host, shared, cancelled, facts,
                   worker, joined, handle, aborted, seen>>

(* Mutant: a handle dropped before its worker ended does not wait for it.  *)
JoinsAtOnce(r) == TRUE

Joinable(r) == joined[r] \/ ~worker[r] \/ stage[r] = "ended"

FinishJoin(t) ==
    LET r == call[t].run IN
    /\ call[t].op = "join" /\ Joinable(r)
    /\ joined' = [joined EXCEPT ![r] = TRUE]
    /\ joining' = [joining EXCEPT ![r] = NoThread]
    /\ IF call[t].by = "handle"
         THEN /\ handle' = [handle EXCEPT ![r] = "dropped"]
              /\ Return(t)
         ELSE /\ Calling(t, "close", NoRun, "service")
              /\ UNCHANGED handle
    /\ UNCHANGED <<admission, stage, kind, host, shared, cancelled, facts,
                   worker, aborted, seen>>

-----------------------------------------------------------------------------
(* Dropping the service joins every run whose lifetime still exists.       *)

DropService(t) ==
    /\ t \in Clients /\ MayCall(t) /\ service = "live"
    /\ \A other \in Threads : call[other].op # "start"
    /\ service' = "closing"
    /\ Calling(t, "close", NoRun, "service")
    /\ UNCHANGED <<slot, started, retained, stage, kind, host, shared,
                   cancelled, facts, lifetime, aborted, seen>>

JoinRetained(t, r) ==
    /\ call[t].op = "close" /\ r \in retained
    /\ retained' = retained \ {r}
    /\ IF Alive(r) THEN Calling(t, "check", r, "service") ELSE UNCHANGED call
    /\ UNCHANGED <<slot, started, service, stage, kind, host, shared,
                   cancelled, facts, lifetime, aborted, seen>>

FinishService(t) ==
    /\ call[t].op = "close" /\ retained = {}
    /\ service' = "gone"
    /\ Return(t)
    /\ UNCHANGED <<slot, started, retained, stage, kind, host, shared,
                   cancelled, facts, lifetime, aborted, seen>>

-----------------------------------------------------------------------------
WorkerStep(r) ==
    \/ RecordFact(r) \/ RecordSafetyCleanup(r) \/ PerformCleanup(r) \/ Escape(r)
    \/ Salvage(r) \/ PublishResult(r) \/ ReleaseSlot(r) \/ Emit(r)
    \/ LeaveCallback(r) \/ FinishCommit(r) \/ EndWorker(r)

(* A thread goes on with the call it is in.                                *)
CallStep(t) ==
    \/ SpawnWorker(t) \/ FailSchedule(t) \/ ReturnHandle(t) \/ ReturnFromWait(t)
    \/ AbortOnWorker(t) \/ CancelBeforeJoin(t) \/ LockJoin(t) \/ FinishJoin(t)
    \/ FinishService(t)
    \/ \E r \in Runs : JoinRetained(t, r)

NewCall(t) ==
    \/ Admit(t) \/ DropService(t)
    \/ \E r \in Runs : RequestCancellation(t, r) \/ PollResult(t, r) \/ Wait(t, r)
                       \/ DropHandle(t, r)

Next ==
    /\ ~aborted
    /\ \/ \E r \in Runs : WorkerStep(r)
       \/ \E t \in Threads : CallStep(t) \/ NewCall(t)

Spec == Init /\ [][Next]_vars

(* Threads are scheduled, dispatchers return or panic, and a run's work,   *)
(* however many facts it records, comes to an end.                         *)
FairSpec ==
    /\ Spec
    /\ \A r \in Runs : WF_vars(~aborted /\ WorkerStep(r))
    /\ \A r \in Runs : SF_vars(~aborted /\ RecordSafetyCleanup(r))
    /\ \A t \in Threads : WF_vars(~aborted /\ CallStep(t))

-----------------------------------------------------------------------------
(* Properties                                                              *)

Visible(r) == IF Locked(r) THEN "none" ELSE result[r]

(* The comment in commit: "a waiter must never see a terminal result while *)
(* a new start would still be rejected", whichever thread saw the result;  *)
(* and the terminal event's dispatcher can start the next run.             *)
TerminalFreesTheSlot ==
    /\ slot \notin seen
    /\ \A r \in Runs : At(r, "callback") /\ kind[r] = "terminal" => slot # r

Rank(k) ==
    IF k = "none" THEN 0
    ELSE IF k = "fact" THEN 1
    ELSE IF k = "escape" THEN 2
    ELSE IF k = "terminal" THEN 4
    ELSE 3

(* "Nothing may be published after [Safety Cleanup] but the terminal       *)
(* event", and nothing after that one, whatever panics when.               *)
EventOrder ==
    [][\A r \in Runs : sent'[r] # sent[r] => Rank(sent[r]) < Rank(sent'[r])]_vars

(* "Safety Cleanup runs exactly once on every terminal path": success,     *)
(* failure, a panic before or after it, and a worker that never started.   *)
OneCleanup ==
    \A r \in Runs : cleanups[r] <= 1 /\ (result[r] # "none" => cleanups[r] = 1)

(* Dropping a handle, or the service, leaves no run executing behind it.   *)
NoAbandonedRun ==
    /\ \A r \in Runs : handle[r] = "dropped" => At(r, "ended")
    /\ service = "gone" => \A r \in 1..started : At(r, "ended")

(* Every call returns, whatever its run, its dispatcher and the other      *)
(* callers do, or the process aborts with a diagnostic.                    *)
CallsReturn == \A t \in Threads : call[t] # Idle ~> call[t] = Idle \/ aborted

(* The service implements SingleActiveRun.                                 *)
Promise == INSTANCE SingleActiveRun
             WITH active <- slot, outcome <- [r \in Runs |-> Visible(r)]
ServesOneRun == Promise!Spec

=============================================================================
