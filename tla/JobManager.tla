----------------------------- MODULE JobManager -----------------------------
(***************************************************************************)
(* catwalk/jobs.py: rollup jobs on a bounded executor, shared by clients   *)
(* that ask for the same key, and cancelled when their last watcher leaves;*)
(* with the handlers of catwalk/app.py that call it.                       *)
(*                                                                         *)
(* submit, get, cancel and close all run on the asyncio event loop, one at *)
(* a time, and interleave only with the executor's worker threads.  cancel *)
(* sets the flags under the lock and calls future.cancel() after it; the   *)
(* loop is busy in between (pendingCancel).                                *)
(*                                                                         *)
(* A request is one GET /api/rollup.  It names its watcher token, and the  *)
(* job that its submit creates when it joins no other.  The executor       *)
(* (ThreadPoolExecutor) is external: a FIFO of work items that only its    *)
(* workers and shutdown() remove, cancelled ones included.                 *)
(***************************************************************************)
EXTENDS Integers, Sequences, FiniteSets, SequencesExt

CONSTANTS Requests, KeyOf,         \* requests, and the rollup each asks for
          MaxWorkers, MaxQueue,    \* rollup_workers, rollup_queue_max
          NoJob

Jobs == Requests
Keys == {KeyOf[r] : r \in Requests}
Capacity == MaxWorkers + MaxQueue

ASSUME JobManagerAssumption ==
  /\ MaxWorkers \in Nat \ {0} /\ MaxQueue \in Nat
  /\ IsFiniteSet(Requests) /\ NoJob \notin Requests
  /\ KeyOf = [r \in Requests |-> KeyOf[r]]

VARIABLES
  registry,        \* ids in _jobs
  byKey,           \* _by_key
  status,          \* job.status, "none" before the job is created
  doomed,          \* jobs whose cancel_requested is set
  watchers,        \* job.watchers
  event,           \* jobs whose event is set
  aged,            \* jobs that finished more than _DONE_RETENTION_SECS ago
  slots,           \* value of the semaphore _slots
  future,          \* state of job.future
  workq,           \* the executor's work queue
  stage, final,    \* where a worker is in run(), and its final_status
  closing,         \* where close() is; _closed is closing # "open"
  toCancel,        \* close's list of active jobs still to be cancelled
  pendingCancel,   \* the job whose future cancel() is about to cancel
  phase, watched   \* each request: how far it got, and the job it watches

clientVars == <<phase, watched>>
loopVars   == <<closing, toCancel, pendingCancel>>
tableVars  == <<registry, byKey>>
workVars   == <<stage, final>>
jobVars    == <<status, doomed, watchers, event, aged>>
poolVars   == <<slots, future, workq>>
vars == <<registry, byKey, status, doomed, watchers, event, aged, slots,
          future, workq, stage, final, closing, toCancel, pendingCancel,
          phase, watched>>

Active == {"queued", "running"}
Ended  == {"done", "error", "cancelled"}

ActiveJobs == {j \in Jobs : status[j] \in Active}
Joinable(j) == status[j] \in Active /\ j \notin doomed

StateTypeOK ==
  /\ registry \subseteq Jobs
  /\ byKey \in [Keys -> Jobs \cup {NoJob}]
  /\ status \in [Jobs -> {"none"} \cup Active \cup Ended]
  /\ doomed \subseteq Jobs /\ event \subseteq Jobs /\ aged \subseteq Jobs
  /\ watchers \in [Jobs -> SUBSET Requests]
  /\ slots \in Nat
  /\ future \in [Jobs -> {"none", "pending", "running", "cancelled", "finished"}]
  /\ workq \in Seq(Jobs)
  /\ stage \in [Jobs -> {"off", "start", "scan", "finish", "signal", "release"}]
  /\ final \in [Jobs -> {"none"} \cup Ended]
  /\ closing \in {"open", "cancelling", "waiting", "closed"}
  /\ toCancel \subseteq Jobs
  /\ pendingCancel \in Jobs \cup {NoJob}
  /\ phase \in [Requests -> {"fresh", "waiting", "polling", "detached", "over"}]
  /\ watched \in [Requests -> Jobs \cup {NoJob}]

(* The type invariant, with the bound that the semaphore asserts.          *)
TypeOK == StateTypeOK /\ slots =< Capacity

Init ==
  /\ registry = {} /\ byKey = [k \in Keys |-> NoJob]
  /\ status = [j \in Jobs |-> "none"]
  /\ doomed = {} /\ event = {} /\ aged = {}
  /\ watchers = [j \in Jobs |-> {}]
  /\ slots = Capacity
  /\ future = [j \in Jobs |-> "none"] /\ workq = <<>>
  /\ stage = [j \in Jobs |-> "off"] /\ final = [j \in Jobs |-> "none"]
  /\ closing = "open" /\ toCancel = {} /\ pendingCancel = NoJob
  /\ phase = [r \in Requests |-> "fresh"]
  /\ watched = [r \in Requests |-> NoJob]
-----------------------------------------------------------------------------
(* submit, on the event loop.                                              *)

(* The event loop serves requests: it is in no call of the manager, and    *)
(* the server has not begun to shut down (it stops serving before that).   *)
LoopFree == pendingCancel = NoJob /\ closing = "open"

(* _prune_locked.                                                          *)
Kept == registry \ aged
KeptByKey == [k \in Keys |-> IF byKey[k] \in registry \cap aged THEN NoJob
                             ELSE byKey[k]]
Prune == registry' = Kept /\ byKey' = KeptByKey

(* The job that submit would join for request r.                           *)
Existing(r) == KeptByKey[KeyOf[r]]
(* Mutation: the check of cancel_requested is forgotten.                   *)
CanJoinDoomed(r) == Existing(r) # NoJob /\ status[Existing(r)] \in Active
CanJoin(r) == Existing(r) # NoJob /\ Joinable(Existing(r))

SubmitJoins(r) ==
  /\ LoopFree /\ phase[r] = "fresh"
  /\ CanJoin(r)
  /\ Prune
  /\ watchers' = [watchers EXCEPT ![Existing(r)] = @ \cup {r}]
  /\ phase' = [phase EXCEPT ![r] = "waiting"]
  /\ watched' = [watched EXCEPT ![r] = Existing(r)]
  /\ UNCHANGED <<status, doomed, event, aged, poolVars, workVars, loopVars>>

SubmitStarts(r) ==
  /\ LoopFree /\ phase[r] = "fresh"
  /\ ~CanJoin(r) /\ slots > 0
  /\ registry' = Kept \cup {r}
  /\ byKey' = [KeptByKey EXCEPT ![KeyOf[r]] = r]
  /\ status' = [status EXCEPT ![r] = "queued"]
  /\ watchers' = [watchers EXCEPT ![r] = {r}]
  /\ slots' = slots - 1
  /\ future' = [future EXCEPT ![r] = "pending"]
  /\ workq' = Append(workq, r)
  /\ phase' = [phase EXCEPT ![r] = "waiting"]
  /\ watched' = [watched EXCEPT ![r] = r]
  /\ UNCHANGED <<doomed, event, aged, workVars, loopVars>>

(* JobQueueFullError (429).                                                *)
SubmitFull(r) ==
  /\ LoopFree /\ phase[r] = "fresh"
  /\ ~CanJoin(r) /\ slots = 0
  /\ Prune
  /\ phase' = [phase EXCEPT ![r] = "over"]
  /\ UNCHANGED <<watched, jobVars, poolVars, workVars, loopVars>>

(* executor.submit raises: the job is taken out again, with its slot.      *)
SubmitFails(r) ==
  /\ LoopFree /\ phase[r] = "fresh"
  /\ ~CanJoin(r) /\ slots > 0
  /\ registry' = Kept
  /\ byKey' = [KeptByKey EXCEPT ![KeyOf[r]] = NoJob]
  /\ phase' = [phase EXCEPT ![r] = "over"]
  /\ UNCHANGED <<watched, jobVars, poolVars, workVars, loopVars>>

SubmitClosed(r) ==
  /\ closing = "closed" /\ phase[r] = "fresh"
  /\ phase' = [phase EXCEPT ![r] = "over"]
  /\ UNCHANGED <<watched, tableVars, jobVars, poolVars, workVars, loopVars>>
-----------------------------------------------------------------------------
(* The executor's workers, and run() in them.                              *)

(* Workers hold an item from the time they take it until run() returned.   *)
Busy == {j \in Jobs : stage[j] # "off"}

TakeItem ==
  /\ workq # <<>> /\ Cardinality(Busy) < MaxWorkers
  /\ workq' = Tail(workq)
  /\ IF future[Head(workq)] = "pending"
     THEN /\ future' = [future EXCEPT ![Head(workq)] = "running"]
          /\ stage' = [stage EXCEPT ![Head(workq)] = "start"]
     ELSE UNCHANGED <<future, stage>>       \* a cancelled item is dropped
  /\ UNCHANGED <<slots, final, tableVars, jobVars, loopVars, clientVars>>

(* status "running", and the first check of cancel_requested.              *)
Start(j) ==
  /\ stage[j] = "start"
  /\ status' = [status EXCEPT ![j] = "running"]
  /\ IF j \in doomed
     THEN /\ stage' = [stage EXCEPT ![j] = "finish"]
          /\ final' = [final EXCEPT ![j] = "cancelled"]
     ELSE stage' = [stage EXCEPT ![j] = "scan"] /\ UNCHANGED final
  /\ UNCHANGED <<doomed, watchers, event, aged, tableVars, poolVars, loopVars,
                 clientVars>>

EndScan(j, s) ==
  /\ stage[j] = "scan"
  /\ stage' = [stage EXCEPT ![j] = "finish"]
  /\ final' = [final EXCEPT ![j] = s]
  /\ UNCHANGED <<tableVars, jobVars, poolVars, loopVars, clientVars>>

(* fn returns, and the last check of cancel_requested; fn raises; or the   *)
(* progress callback raises JobCancelledError through fn.                  *)
ScanReturns(j) == EndScan(j, IF j \in doomed THEN "cancelled" ELSE "done")
ScanFails(j) == EndScan(j, "error")
ScanCancelled(j) == j \in doomed /\ EndScan(j, "cancelled")

(* The finally block: job.finished and job.status, then job.event.         *)
(* Mutation: the event comes first.                                        *)
PublishWakesFirst(j) ==
  /\ stage[j] = "finish"
  /\ event' = event \cup {j}
  /\ stage' = [stage EXCEPT ![j] = "signal"]
  /\ UNCHANGED <<status, doomed, watchers, aged, final, tableVars, poolVars,
                 loopVars, clientVars>>
Publish(j) ==
  /\ stage[j] = "finish"
  /\ status' = [status EXCEPT ![j] = final[j]]
  /\ stage' = [stage EXCEPT ![j] = "signal"]
  /\ UNCHANGED <<doomed, watchers, event, aged, final, tableVars, poolVars,
                 loopVars, clientVars>>

Signal(j) ==
  /\ stage[j] = "signal"
  /\ event' = event \cup {j}
  /\ stage' = [stage EXCEPT ![j] = "release"]
  /\ UNCHANGED <<status, doomed, watchers, aged, final, tableVars, poolVars,
                 loopVars, clientVars>>

(* The future is set; _future_done releases the slot.                      *)
Release(j) ==
  /\ stage[j] = "release"
  /\ future' = [future EXCEPT ![j] = "finished"]
  /\ slots' = slots + 1
  /\ stage' = [stage EXCEPT ![j] = "off"]
  /\ UNCHANGED <<workq, final, tableVars, jobVars, loopVars, clientVars>>

RunStep(j) ==
  \/ Start(j)
  \/ ScanReturns(j) \/ ScanFails(j) \/ ScanCancelled(j)
  \/ Publish(j) \/ Signal(j) \/ Release(j)
-----------------------------------------------------------------------------
(* cancel, on the event loop.                                              *)

(* The locked part: discard the watcher, and doom the job once none is     *)
(* left.  Mutation: one client leaving dooms the job for all.              *)
DetachForAll(j, r) ==
  /\ watchers' = [watchers EXCEPT ![j] = @ \ {r}]
  /\ doomed' = doomed \cup {j}
  /\ pendingCancel' = j
Detach(j, r) ==
  /\ watchers' = [watchers EXCEPT ![j] = @ \ {r}]
  /\ IF watchers[j] \ {r} = {}
     THEN doomed' = doomed \cup {j} /\ pendingCancel' = j
     ELSE UNCHANGED <<doomed, pendingCancel>>

(* DELETE /api/rollup/status with the request's token; may be repeated.    *)
Cancel(r) ==
  /\ LoopFree /\ phase[r] \in {"polling", "detached"}
  /\ phase' = [phase EXCEPT ![r] = "detached"]
  /\ IF watched[r] \in registry /\ status[watched[r]] \in Active
     THEN Detach(watched[r], r)
     ELSE UNCHANGED <<watchers, doomed, pendingCancel>>
  /\ UNCHANGED <<watched, status, event, aged, closing, toCancel, tableVars,
                 poolVars, workVars>>

(* A future that is cancelled before it ran; _future_done ends the job in  *)
(* the worker's place and releases the slot.                               *)
(* Mutations: the slot is not released; the job is not ended.              *)
CancelPendingKeepsSlot(S) ==
  /\ future' = [j \in Jobs |-> IF j \in S THEN "cancelled" ELSE future[j]]
  /\ status' = [j \in Jobs |-> IF j \in S THEN "cancelled" ELSE status[j]]
  /\ event' = event \cup S
  /\ UNCHANGED slots
CancelPendingSilently(S) ==
  /\ future' = [j \in Jobs |-> IF j \in S THEN "cancelled" ELSE future[j]]
  /\ slots' = slots + Cardinality(S)
  /\ UNCHANGED <<status, event>>
CancelPending(S) ==
  /\ future' = [j \in Jobs |-> IF j \in S THEN "cancelled" ELSE future[j]]
  /\ status' = [j \in Jobs |-> IF j \in S THEN "cancelled" ELSE status[j]]
  /\ event' = event \cup S
  /\ slots' = slots + Cardinality(S)

(* The unlocked part: future.cancel(), which fails once a worker has it.   *)
(* Mutation: the job is ended and its slot given back even then.           *)
CancelFutureAnyway ==
  /\ pendingCancel # NoJob
  /\ pendingCancel' = NoJob
  /\ CancelPending({pendingCancel})
  /\ UNCHANGED <<doomed, watchers, aged, workq, closing, toCancel, tableVars,
                 workVars, clientVars>>
CancelFuture ==
  /\ pendingCancel # NoJob
  /\ pendingCancel' = NoJob
  /\ CancelPending({j \in {pendingCancel} : future[j] = "pending"})
  /\ UNCHANGED <<doomed, watchers, aged, workq, closing, toCancel, tableVars,
                 workVars, clientVars>>
-----------------------------------------------------------------------------
(* The clients.  None has to go on: one that went away without a DELETE    *)
(* takes no further step, and leaves its watcher behind.                   *)

(* The handler of GET /api/rollup, in _wait_job: the job ended in time ... *)
SyncAnswer(r) ==
  /\ LoopFree /\ phase[r] = "waiting" /\ watched[r] \in event
  /\ phase' = [phase EXCEPT ![r] = "over"]
  /\ UNCHANGED <<watched, tableVars, jobVars, poolVars, workVars, loopVars>>

(* ... or it gets a 202 with its cancel token.                             *)
SyncTimeout(r) ==
  /\ LoopFree /\ phase[r] = "waiting" /\ watched[r] \notin event
  /\ phase' = [phase EXCEPT ![r] = "polling"]
  /\ UNCHANGED <<watched, tableVars, jobVars, poolVars, workVars, loopVars>>

(* GET /api/rollup/status: 404 for a pruned job, else its state.           *)
Poll(r) ==
  /\ LoopFree /\ phase[r] = "polling"
  /\ Prune
  /\ phase' = [phase EXCEPT ![r] =
                 IF watched[r] \in registry' /\ status[watched[r]] \in Active
                 THEN "polling" ELSE "over"]
  /\ UNCHANGED <<watched, jobVars, poolVars, workVars, loopVars>>

(* More than _DONE_RETENTION_SECS pass after the job finished (what passes *)
(* after the shutdown began is of no consequence).                         *)
Age(j) ==
  /\ status[j] \in Ended /\ j \notin aged /\ closing = "open"
  /\ aged' = aged \cup {j}
  /\ UNCHANGED <<status, doomed, watchers, event, tableVars, poolVars,
                 workVars, loopVars, clientVars>>
-----------------------------------------------------------------------------
(* close, on the event loop at shutdown.                                   *)

CloseBegin ==
  /\ LoopFree
  /\ closing' = "cancelling"
  /\ toCancel' = registry \cap ActiveJobs
  /\ UNCHANGED <<pendingCancel, tableVars, jobVars, poolVars, workVars,
                 clientVars>>

(* cancel(job.id) without a watcher, for one job of the list.              *)
CloseCancels(j) ==
  /\ closing = "cancelling" /\ pendingCancel = NoJob /\ j \in toCancel
  /\ toCancel' = toCancel \ {j}
  /\ IF status[j] \in Active
     THEN doomed' = doomed \cup {j} /\ pendingCancel' = j
     ELSE UNCHANGED <<doomed, pendingCancel>>
  /\ UNCHANGED <<status, watchers, event, aged, closing, tableVars, poolVars,
                 workVars, clientVars>>

(* executor.shutdown(cancel_futures=True) empties the work queue ...       *)
CloseDrains ==
  /\ closing = "cancelling" /\ pendingCancel = NoJob /\ toCancel = {}
  /\ closing' = "waiting"
  /\ workq' = <<>>
  /\ CancelPending({j \in ToSet(workq) : future[j] = "pending"})
  /\ UNCHANGED <<doomed, watchers, aged, toCancel, pendingCancel, tableVars,
                 workVars, clientVars>>

(* ... and waits for the workers.                                          *)
CloseJoins ==
  /\ closing = "waiting" /\ Busy = {}
  /\ closing' = "closed"
  /\ UNCHANGED <<toCancel, pendingCancel, tableVars, jobVars, poolVars,
                 workVars, clientVars>>

(* The process ends after the shutdown, and only then.                     *)
Terminated == closing = "closed" /\ UNCHANGED vars

Submit(r) == SubmitJoins(r) \/ SubmitStarts(r) \/ SubmitFull(r)
             \/ SubmitFails(r) \/ SubmitClosed(r)

Client(r) == Submit(r) \/ SyncAnswer(r) \/ SyncTimeout(r) \/ Poll(r)
             \/ Cancel(r)

Close == CloseBegin \/ (\E j \in Jobs : CloseCancels(j)) \/ CloseDrains
         \/ CloseJoins

Next ==
  \/ \E r \in Requests : Client(r)
  \/ TakeItem
  \/ \E j \in Jobs : RunStep(j) \/ Age(j)
  \/ CancelFuture
  \/ Close
  \/ Terminated

Spec == Init /\ [][Next]_vars

(* Workers keep working, a scan ends (backend calls are bounded by client  *)
(* timeouts), and a call of the manager that began runs to its end.        *)
FairSpec ==
  /\ Spec
  /\ WF_vars(TakeItem) /\ \A j \in Jobs : WF_vars(RunStep(j))
  /\ WF_vars(CancelFuture)
  /\ WF_vars((\E j \in Jobs : CloseCancels(j)) \/ CloseDrains \/ CloseJoins)
-----------------------------------------------------------------------------
(* Properties.                                                             *)

(* A slot is held by exactly the jobs whose future is neither cancelled nor*)
(* finished: whichever way a job ends, _future_done gives its slot back,   *)
(* once (jobs.py:88-138; a BoundedSemaphore raises on a second release).   *)
SlotHolders == {j \in Jobs : future[j] \in {"pending", "running"}}
SlotAccounting == slots + Cardinality(SlotHolders) = Capacity

(* Before shutdown, a client that still waits or polls never has its job   *)
(* cancelled under it, whatever the other clients of that job do, and      *)
(* whenever it joined (jobs.py:74-87, 145-166).                            *)
NoOneElseCancels ==
  closing = "open" =>
    \A r \in Requests : phase[r] \in {"waiting", "polling"} =>
      watched[r] \notin doomed /\ status[watched[r]] # "cancelled"

(* Whoever is woken by the event finds a final status, and a final status  *)
(* is never taken back (jobs.py:113-116, 131-137).                         *)
WokenAtTheEnd ==
  [][ \A j \in Jobs : /\ j \in event => status[j] \in Ended
                      /\ status[j] \in Ended => status'[j] = status[j] ]_vars

(* The manager keeps its promise to clients (SharedJobs): a job that is    *)
(* active is live, or doomed once its cancellation was requested.          *)
Work == [j \in Jobs |-> IF status[j] \in Active
                        THEN IF j \in doomed THEN "doomed" ELSE "live"
                        ELSE status[j]]
Promise == INSTANCE SharedJobs WITH
  work <- Work, watching <- watchers, open <- closing = "open"
KeepsPromise == Promise!Spec

(* Every accepted job ends and wakes its waiters, whether it runs, waits,  *)
(* or is cancelled; and close(), which waits for all of them on the event  *)
(* loop, returns (jobs.py:89-118, 131-138, 172-178).                       *)
EverythingEnds ==
  /\ \A j \in Jobs : status[j] = "queued" ~> j \in event
  /\ closing = "cancelling" ~> closing = "closed"

(* jobs.py:15 "Raised instead of allowing an unbounded executor backlog":  *)
(* with every worker busy, no more than max_queue items wait.  It does not *)
(* hold: a cancelled item gives its slot back at once, but stays in the    *)
(* work queue until a worker takes it.                                     *)
BacklogIsBounded == Cardinality(Busy) = MaxWorkers => Len(workq) =< MaxQueue
=============================================================================
