-------------------------- MODULE JobManagerProofs --------------------------
(***************************************************************************)
(* The job manager keeps its promises for any requests, keys, workers and  *)
(* queue size.                                                             *)
(*                                                                         *)
(* The inductive invariant says how the places a job's state is kept in    *)
(* agree: its status with its future and with the worker that runs it      *)
(* (RunInv), its watchers with cancel_requested and with the clients       *)
(* (WatchInv), the tables with the jobs that can be joined (IndexInv), and *)
(* close's list with the jobs still to be given up (CloseInv).  Who is to  *)
(* end a job that has not ended is HandInv, on top of it.                  *)
(***************************************************************************)
EXTENDS JobManager, FiniteSetTheorems, TLAPS

RunInv ==
  \A j \in Jobs :
    /\ future[j] = "none" <=> status[j] = "none"
    /\ future[j] = "running" <=> stage[j] # "off"
    /\ future[j] = "pending" => status[j] = "queued"
    /\ future[j] = "finished" => status[j] \in Ended
    /\ future[j] = "cancelled" => status[j] = "cancelled"
    /\ stage[j] = "start" => status[j] = "queued"
    /\ stage[j] \in {"scan", "finish"} => status[j] = "running"
    /\ stage[j] \in {"signal", "release"} => status[j] \in Ended
    /\ stage[j] = "finish" =>
         final[j] \in Ended /\ (final[j] = "cancelled" => j \in doomed)
    /\ status[j] = "cancelled" => j \in doomed
    /\ j \in event \cup aged => status[j] \in Ended
    /\ status[j] = "none" => j \notin doomed

WatchInv ==
  /\ \A j \in Jobs : closing = "open" /\ j \in doomed => watchers[j] = {}
  /\ \A j \in Jobs : Joinable(j) => watchers[j] # {}
  /\ pendingCancel \in doomed \cup {NoJob}
  /\ \A r \in Requests :
       /\ phase[r] = "fresh" => status[r] = "none"
       /\ phase[r] \in {"waiting", "polling", "detached"} =>
            watched[r] \in Jobs /\ status[watched[r]] # "none"
       /\ phase[r] \in {"waiting", "polling"} => r \in watchers[watched[r]]

IndexInv ==
  /\ ActiveJobs \subseteq registry
  /\ \A j \in Jobs : Joinable(j) => byKey[KeyOf[j]] = j
  /\ \A k \in Keys : byKey[k] # NoJob => KeyOf[byKey[k]] = k

CloseInv ==
  /\ closing = "cancelling" => ActiveJobs \subseteq toCancel \cup doomed
  /\ closing \in {"waiting", "closed"} => ActiveJobs \subseteq doomed

Inv == StateTypeOK /\ RunInv /\ WatchInv /\ IndexInv /\ CloseInv

LEMMA InitInv == Init => Inv
  BY JobManagerAssumption
     DEF Init, Inv, StateTypeOK, RunInv, WatchInv, IndexInv, CloseInv,
         Jobs, Keys, Capacity, ActiveJobs, Active, Ended, Joinable
-----------------------------------------------------------------------------
(* What each action preserves.                                             *)

(* Pruning drops ended jobs only.                                          *)
LEMMA PruneKeeps ==
  ASSUME Inv
  PROVE  /\ Kept \subseteq Jobs /\ ActiveJobs \subseteq Kept
         /\ KeptByKey \in [Keys -> Jobs \cup {NoJob}]
         /\ \A k \in Keys : KeptByKey[k] \in {byKey[k], NoJob}
         /\ \A j \in Jobs : Joinable(j) => KeptByKey[KeyOf[j]] = j
<1>1. \A j \in Jobs : status[j] \in Active => j \in registry /\ j \notin aged
  BY DEF Inv, RunInv, IndexInv, ActiveJobs, Active, Ended
<1>2. QED
  BY <1>1 DEF Inv, StateTypeOK, IndexInv, Kept, KeptByKey, ActiveJobs,
              Joinable, Jobs, Keys

LEMMA SubmitJoinsInv ==
  ASSUME Inv, NEW r \in Requests, SubmitJoins(r) PROVE Inv'
<1> DEFINE e == Existing(r)
<1>1. e \in Jobs /\ Joinable(e) /\ KeyOf[r] \in Keys
  BY PruneKeeps DEF SubmitJoins, CanJoin, Existing, Jobs, Keys
<1>2. /\ registry' = Kept /\ byKey' = KeptByKey
      /\ watchers' = [watchers EXCEPT ![e] = @ \cup {r}]
      /\ phase' = [phase EXCEPT ![r] = "waiting"]
      /\ watched' = [watched EXCEPT ![r] = e]
      /\ UNCHANGED <<status, doomed, event, aged, slots, future, workq, stage,
                     final, closing, toCancel, pendingCancel>>
  BY DEF SubmitJoins, Prune, poolVars, workVars, loopVars
<1> HIDE DEF e
<1>3. StateTypeOK'
  BY <1>1, <1>2, PruneKeeps DEF Inv, StateTypeOK, Jobs
<1>4. RunInv'
  BY <1>2 DEF Inv, RunInv
<1>5. WatchInv'
  BY <1>1, <1>2, JobManagerAssumption
     DEF Inv, WatchInv, Joinable, StateTypeOK, Active, Jobs
<1>6. IndexInv'
  BY <1>2, PruneKeeps DEF Inv, IndexInv, Joinable, ActiveJobs
<1>7. CloseInv'
  BY <1>2 DEF Inv, CloseInv, ActiveJobs
<1>8. QED  BY <1>3, <1>4, <1>5, <1>6, <1>7 DEF Inv

LEMMA SubmitStartsInv ==
  ASSUME Inv, NEW r \in Requests, SubmitStarts(r) PROVE Inv'
<1>1. /\ r \in Jobs /\ KeyOf[r] \in Keys /\ pendingCancel = NoJob
      /\ closing = "open" /\ phase[r] = "fresh" /\ slots > 0
      /\ status[r] = "none" /\ r \notin doomed
  BY DEF SubmitStarts, LoopFree, Jobs, Keys, Inv, WatchInv, RunInv
<1>2. ~CanJoin(r)
  BY DEF SubmitStarts
<1>3. /\ registry' = Kept \cup {r}
      /\ byKey' = [KeptByKey EXCEPT ![KeyOf[r]] = r]
      /\ status' = [status EXCEPT ![r] = "queued"]
      /\ watchers' = [watchers EXCEPT ![r] = {r}]
      /\ slots' = slots - 1
      /\ future' = [future EXCEPT ![r] = "pending"]
      /\ workq' = Append(workq, r)
      /\ phase' = [phase EXCEPT ![r] = "waiting"]
      /\ watched' = [watched EXCEPT ![r] = r]
      /\ UNCHANGED <<doomed, event, aged, stage, final, closing, toCancel,
                     pendingCancel>>
  BY DEF SubmitStarts, workVars, loopVars
<1>4. StateTypeOK'
  <2>1. workq' \in Seq(Jobs) /\ slots' \in Nat
    BY <1>1, <1>3 DEF Inv, StateTypeOK
  <2>2. byKey' \in [Keys -> Jobs \cup {NoJob}]
    BY <1>1, <1>3, PruneKeeps
  <2>3. /\ registry' \subseteq Jobs
        /\ status' \in [Jobs -> {"none"} \cup Active \cup Ended]
        /\ watchers' \in [Jobs -> SUBSET Requests]
    BY <1>1, <1>3, PruneKeeps DEF Inv, StateTypeOK, Active
  <2>4. /\ future' \in [Jobs -> {"none", "pending", "running", "cancelled", "finished"}]
        /\ phase' \in [Requests -> {"fresh", "waiting", "polling", "detached", "over"}]
        /\ watched' \in [Requests -> Jobs \cup {NoJob}]
    BY <1>1, <1>3 DEF Inv, StateTypeOK
  <2>5. QED
    BY <1>3, <2>1, <2>2, <2>3, <2>4 DEF Inv, StateTypeOK
<1>5. RunInv'
  BY <1>1, <1>3 DEF Inv, RunInv, StateTypeOK, Ended
<1>6. WatchInv'
  <2>1. \A j \in Jobs : /\ closing' = "open" /\ j \in doomed' => watchers'[j] = {}
                        /\ Joinable(j)' => watchers'[j] # {}
    <3> SUFFICES ASSUME NEW j \in Jobs
                 PROVE  /\ closing' = "open" /\ j \in doomed' => watchers'[j] = {}
                        /\ Joinable(j)' => watchers'[j] # {}
      OBVIOUS
    <3>1. CASE j = r
      BY <1>1, <1>3, <3>1 DEF Inv, StateTypeOK
    <3>2. CASE j # r
      BY <1>1, <1>3, <3>2 DEF Inv, WatchInv, StateTypeOK, Joinable
    <3>3. QED  BY <3>1, <3>2
  <2>2. ASSUME NEW q \in Requests
        PROVE  /\ phase'[q] = "fresh" => status'[q] = "none"
               /\ phase'[q] \in {"waiting", "polling", "detached"} =>
                    watched'[q] \in Jobs /\ status'[watched'[q]] # "none"
               /\ phase'[q] \in {"waiting", "polling"} =>
                    q \in watchers'[watched'[q]]
    <3>1. CASE q = r
      BY <1>1, <1>3, <3>1 DEF Inv, StateTypeOK
    <3>2. CASE q # r
      BY <1>1, <1>3, <3>2 DEF Inv, WatchInv, StateTypeOK, Jobs
    <3>3. QED  BY <3>1, <3>2
  <2>3. QED
    BY <1>1, <1>3, <2>1, <2>2 DEF WatchInv
<1>7. IndexInv'
  <2>1. ActiveJobs' \subseteq registry'
    BY <1>1, <1>3, PruneKeeps DEF Inv, StateTypeOK, ActiveJobs
  <2>2. ASSUME NEW j \in Jobs, Joinable(j)' PROVE byKey'[KeyOf[j]] = j
    <3>1. CASE j = r
      BY <1>1, <1>3, <3>1, PruneKeeps
    <3>2. CASE j # r
      <4>1. Joinable(j)
        BY <1>3, <2>2, <3>2 DEF Inv, StateTypeOK, Joinable
      <4>2. KeptByKey[KeyOf[j]] = j /\ j # NoJob
        BY <4>1, PruneKeeps, JobManagerAssumption DEF Jobs
      <4>3. KeyOf[j] # KeyOf[r]
        BY <1>2, <4>1, <4>2 DEF CanJoin, Existing
      <4>4. QED
        BY <1>1, <1>3, <4>2, <4>3, PruneKeeps
    <3>3. QED  BY <3>1, <3>2
  <2>3. ASSUME NEW k \in Keys, byKey'[k] # NoJob PROVE KeyOf[byKey'[k]] = k
    BY <1>1, <1>3, <2>3, PruneKeeps DEF Inv, IndexInv
  <2>4. QED  BY <2>1, <2>2, <2>3 DEF IndexInv
<1>8. CloseInv'
  BY <1>1, <1>3 DEF Inv, CloseInv
<1>9. QED  BY <1>4, <1>5, <1>6, <1>7, <1>8 DEF Inv

(* SubmitFull, SubmitFails and Poll prune, and change nothing of the jobs. *)
LEMMA PruningInv ==
  ASSUME Inv, registry' = Kept,
         byKey' = KeptByKey
         \/ \E r \in Requests : /\ byKey' = [KeptByKey EXCEPT ![KeyOf[r]] = NoJob]
                                /\ ~CanJoin(r),
         NEW r \in Requests, NEW p \in {"waiting", "polling", "over"},
         phase[r] # "fresh" => phase[r] = "polling" /\ p \in {"polling", "over"},
         phase[r] = "fresh" => p = "over",
         phase' = [phase EXCEPT ![r] = p],
         UNCHANGED <<watched, jobVars, poolVars, workVars, loopVars>>
  PROVE  Inv'
<1> USE DEF jobVars, poolVars, workVars, loopVars
<1>1. /\ byKey' \in [Keys -> Jobs \cup {NoJob}]
      /\ \A k \in Keys : byKey'[k] \in {byKey[k], NoJob}
      /\ \A j \in Jobs : Joinable(j) => byKey'[KeyOf[j]] = j
  <2>1. CASE byKey' = KeptByKey
    BY <2>1, PruneKeeps
  <2>2. ASSUME NEW q \in Requests, ~CanJoin(q),
               byKey' = [KeptByKey EXCEPT ![KeyOf[q]] = NoJob]
        PROVE  <1>1!1 /\ <1>1!2 /\ <1>1!3
    <3>1. \A j \in Jobs : Joinable(j) => KeyOf[j] # KeyOf[q]
      BY <2>2, PruneKeeps, JobManagerAssumption DEF CanJoin, Existing, Jobs
    <3>2. QED
      BY <2>2, <3>1, PruneKeeps DEF Keys
  <2>3. QED  BY <2>1, <2>2
<1>2. StateTypeOK'
  BY <1>1, PruneKeeps DEF Inv, StateTypeOK
<1>3. RunInv' /\ CloseInv'
  BY DEF Inv, RunInv, CloseInv, ActiveJobs
<1>4. WatchInv'
  BY DEF Inv, WatchInv, StateTypeOK, Joinable
<1>5. IndexInv'
  BY <1>1, PruneKeeps, JobManagerAssumption
     DEF Inv, IndexInv, ActiveJobs, Joinable
<1>6. QED  BY <1>2, <1>3, <1>4, <1>5 DEF Inv

LEMMA SubmitInv ==
  ASSUME Inv, NEW r \in Requests, Submit(r) PROVE Inv'
<1>1. CASE SubmitFull(r)
  BY <1>1, PruningInv DEF SubmitFull, Prune
<1>2. CASE SubmitFails(r)
  BY <1>2, PruningInv DEF SubmitFails, Inv, jobVars, poolVars, workVars, loopVars
<1>3. CASE SubmitClosed(r)
  BY <1>3 DEF SubmitClosed, Inv, StateTypeOK, RunInv, WatchInv, IndexInv,
              CloseInv, Joinable, ActiveJobs, tableVars, jobVars, poolVars,
              workVars, loopVars
<1>4. QED
  BY <1>1, <1>2, <1>3, SubmitJoinsInv, SubmitStartsInv DEF Submit

LEMMA ClientInv ==
  ASSUME Inv, NEW r \in Requests,
         SyncAnswer(r) \/ SyncTimeout(r) \/ Poll(r)
  PROVE  Inv'
<1>1. CASE SyncAnswer(r) \/ SyncTimeout(r)
  BY <1>1 DEF SyncAnswer, SyncTimeout, Inv, StateTypeOK, RunInv, WatchInv,
              IndexInv, CloseInv, Joinable, ActiveJobs, tableVars, jobVars,
              poolVars, workVars, loopVars
<1>2. CASE Poll(r)
  BY <1>2, PruningInv DEF Poll, Prune
<1>3. QED  BY <1>1, <1>2

LEMMA TakeItemInv == Inv /\ TakeItem => Inv'
<1> SUFFICES ASSUME Inv, TakeItem PROVE Inv'
  OBVIOUS
<1>1. Head(workq) \in Jobs /\ Tail(workq) \in Seq(Jobs)
  BY DEF TakeItem, Inv, StateTypeOK
<1>2. UNCHANGED <<slots, final, registry, byKey, status, doomed, watchers,
                  event, aged, closing, toCancel, pendingCancel, phase, watched>>
  BY DEF TakeItem, tableVars, jobVars, loopVars, clientVars
<1>3. StateTypeOK' /\ RunInv'
  <2>1. CASE future[Head(workq)] = "pending"
    <3>1. PICK h \in Jobs : /\ future[h] = "pending"
                            /\ future' = [future EXCEPT ![h] = "running"]
                            /\ stage' = [stage EXCEPT ![h] = "start"]
      BY <1>1, <2>1 DEF TakeItem
    <3>2. StateTypeOK'
      BY <1>1, <1>2, <3>1 DEF TakeItem, Inv, StateTypeOK
    <3>3. RunInv'
      BY <1>2, <3>1 DEF Inv, StateTypeOK, RunInv, Ended
    <3>4. QED  BY <3>2, <3>3
  <2>2. CASE future[Head(workq)] # "pending"
    BY <1>1, <1>2, <2>2 DEF TakeItem, Inv, StateTypeOK, RunInv
  <2>3. QED  BY <2>1, <2>2
<1>4. WatchInv' /\ IndexInv' /\ CloseInv'
  BY <1>2 DEF Inv, WatchInv, IndexInv, CloseInv, Joinable, ActiveJobs
<1>5. QED  BY <1>3, <1>4 DEF Inv

LEMMA StartInv ==
  ASSUME Inv, NEW j \in Jobs, Start(j) PROVE Inv'
<1>1. /\ stage[j] = "start" /\ status[j] = "queued"
      /\ status' = [status EXCEPT ![j] = "running"]
      /\ UNCHANGED <<doomed, watchers, event, aged, registry, byKey, slots,
                     future, workq, closing, toCancel, pendingCancel, phase,
                     watched>>
  BY DEF Start, Inv, RunInv, tableVars, poolVars, loopVars, clientVars
<1>2. \A i \in Jobs : status'[i] \in Active <=> status[i] \in Active
  BY <1>1 DEF Inv, StateTypeOK, Active
<1>3. StateTypeOK' /\ RunInv'
  BY <1>1 DEF Start, Inv, StateTypeOK, RunInv, Active, Ended
<1>4. WatchInv' /\ IndexInv' /\ CloseInv'
  BY <1>1, <1>2 DEF Inv, StateTypeOK, WatchInv, IndexInv, CloseInv, Joinable,
                    ActiveJobs, Jobs
<1>5. QED  BY <1>3, <1>4 DEF Inv

LEMMA EndScanInv ==
  ASSUME Inv, NEW j \in Jobs, ScanReturns(j) \/ ScanFails(j) \/ ScanCancelled(j)
  PROVE  Inv'
<1>1. PICK s \in Ended : EndScan(j, s) /\ (s = "cancelled" => j \in doomed)
  BY DEF ScanReturns, ScanFails, ScanCancelled, Ended
<1>2. /\ stage[j] = "scan"
      /\ stage' = [stage EXCEPT ![j] = "finish"]
      /\ final' = [final EXCEPT ![j] = s]
      /\ UNCHANGED <<status, doomed, watchers, event, aged, registry, byKey,
                     slots, future, workq, closing, toCancel, pendingCancel,
                     phase, watched>>
  BY <1>1 DEF EndScan, tableVars, jobVars, poolVars, loopVars, clientVars
<1>3. StateTypeOK' /\ RunInv'
  BY <1>1, <1>2 DEF Inv, StateTypeOK, RunInv
<1>4. WatchInv' /\ IndexInv' /\ CloseInv'
  BY <1>2 DEF Inv, WatchInv, IndexInv, CloseInv, Joinable, ActiveJobs
<1>5. QED  BY <1>3, <1>4 DEF Inv

LEMMA PublishInv ==
  ASSUME Inv, NEW j \in Jobs, Publish(j) PROVE Inv'
<1>1. /\ stage[j] = "finish" /\ status[j] = "running" /\ final[j] \in Ended
      /\ final[j] = "cancelled" => j \in doomed
      /\ status' = [status EXCEPT ![j] = final[j]]
      /\ stage' = [stage EXCEPT ![j] = "signal"]
      /\ UNCHANGED <<doomed, watchers, event, aged, final, registry, byKey,
                     slots, future, workq, closing, toCancel, pendingCancel,
                     phase, watched>>
  BY DEF Publish, Inv, RunInv, tableVars, poolVars, loopVars, clientVars
<1>2. \A i \in Jobs : status'[i] \in Active => status[i] \in Active
  BY <1>1 DEF Inv, StateTypeOK, Active
<1>3. StateTypeOK' /\ RunInv'
  BY <1>1 DEF Inv, StateTypeOK, RunInv, Ended
<1>4. WatchInv' /\ IndexInv' /\ CloseInv'
  BY <1>1, <1>2 DEF Inv, StateTypeOK, WatchInv, IndexInv, CloseInv, Joinable,
                    ActiveJobs, Ended, Jobs
<1>5. QED  BY <1>3, <1>4 DEF Inv

LEMMA SignalInv ==
  ASSUME Inv, NEW j \in Jobs, Signal(j) \/ Release(j) \/ Age(j) PROVE Inv'
<1>1. /\ UNCHANGED <<status, doomed, watchers, registry, byKey, workq, closing,
                     toCancel, pendingCancel, phase, watched>>
      /\ slots' \in {slots, slots + 1}
  BY DEF Signal, Release, Age, tableVars, poolVars, jobVars, loopVars,
         clientVars
<1>2. StateTypeOK' /\ RunInv'
  <2>1. CASE Signal(j)
    BY <1>1, <2>1 DEF Signal, Inv, StateTypeOK, RunInv, Ended, poolVars
  <2>2. CASE Release(j)
    BY <1>1, <2>2 DEF Release, Inv, StateTypeOK, RunInv, jobVars
  <2>3. CASE Age(j)
    BY <1>1, <2>3 DEF Age, Inv, StateTypeOK, RunInv, poolVars, workVars
  <2>4. QED  BY <2>1, <2>2, <2>3
<1>3. WatchInv' /\ IndexInv' /\ CloseInv'
  BY <1>1 DEF Inv, WatchInv, IndexInv, CloseInv, Joinable, ActiveJobs
<1>4. QED  BY <1>2, <1>3 DEF Inv

LEMMA DetachInv ==
  ASSUME Inv, NEW r \in Requests, Cancel(r) PROVE Inv'
<1>1. /\ pendingCancel = NoJob /\ phase[r] \in {"polling", "detached"}
      /\ closing = "open"
      /\ phase' = [phase EXCEPT ![r] = "detached"]
      /\ UNCHANGED <<watched, status, event, aged, closing, toCancel, registry,
                     byKey, slots, future, workq, stage, final>>
  BY DEF Cancel, LoopFree, tableVars, poolVars, workVars
<1>2. PICK j \in Jobs : j = watched[r] /\ status[j] # "none"
  BY <1>1 DEF Inv, WatchInv
<1>3. CASE UNCHANGED <<watchers, doomed, pendingCancel>>
  <2>1. StateTypeOK' /\ RunInv' /\ IndexInv' /\ CloseInv'
    BY <1>1, <1>3 DEF Inv, StateTypeOK, RunInv, IndexInv, CloseInv, Joinable,
                      ActiveJobs
  <2>2. WatchInv'
    BY <1>1, <1>3 DEF Inv, StateTypeOK, WatchInv, Joinable
  <2>3. QED  BY <2>1, <2>2 DEF Inv
<1>4. CASE status[j] \in Active /\ Detach(j, r)
  <2>1. /\ watchers' = [watchers EXCEPT ![j] = @ \ {r}]
        /\ \/ /\ watchers'[j] = {}
              /\ doomed' = doomed \cup {j} /\ pendingCancel' = j
           \/ /\ watchers'[j] # {}
              /\ doomed' = doomed /\ pendingCancel' = pendingCancel
    BY <1>4 DEF Detach, Inv, StateTypeOK
  <2>2. StateTypeOK'
    BY <1>1, <2>1 DEF Inv, StateTypeOK
  <2>3. RunInv' /\ CloseInv'
    BY <1>1, <1>2, <2>1 DEF Inv, RunInv, CloseInv
  <2>4. IndexInv'
    BY <1>1, <2>1 DEF Inv, IndexInv, Joinable, ActiveJobs
  <2>5. \A i \in Jobs : /\ closing' = "open" /\ i \in doomed' => watchers'[i] = {}
                        /\ Joinable(i)' => watchers'[i] # {}
    BY <1>1, <2>1 DEF Inv, StateTypeOK, WatchInv, Joinable
  <2>6. ASSUME NEW q \in Requests
        PROVE  /\ phase'[q] = "fresh" => status'[q] = "none"
               /\ phase'[q] \in {"waiting", "polling", "detached"} =>
                    watched'[q] \in Jobs /\ status'[watched'[q]] # "none"
               /\ phase'[q] \in {"waiting", "polling"} =>
                    q \in watchers'[watched'[q]]
    BY <1>1, <2>1 DEF Inv, StateTypeOK, WatchInv
  <2>7. WatchInv'
    BY <1>1, <2>1, <2>5, <2>6 DEF Inv, WatchInv
  <2>8. QED  BY <2>2, <2>3, <2>4, <2>7 DEF Inv
<1>5. QED
  BY <1>2, <1>3, <1>4 DEF Cancel

(* Cancelling futures that are pending ends doomed jobs, and nothing else. *)
LEMMA CancelPendingInv ==
  ASSUME Inv, NEW STATE S, S \subseteq {j \in Jobs : future[j] = "pending"},
         S \subseteq doomed, slots' \in Nat, CancelPending(S),
         pendingCancel' = NoJob,
         workq' \in Seq(Jobs), toCancel' = toCancel,
         closing' = closing \/ (closing' = "waiting" /\ ActiveJobs \subseteq doomed),
         UNCHANGED <<doomed, watchers, aged, registry, byKey, stage, final,
                     phase, watched>>
  PROVE  Inv'
<1>1. /\ future' = [j \in Jobs |-> IF j \in S THEN "cancelled" ELSE future[j]]
      /\ status' = [j \in Jobs |-> IF j \in S THEN "cancelled" ELSE status[j]]
      /\ event' = event \cup S
  BY DEF CancelPending
<1>2. \A j \in Jobs : /\ status'[j] \in Active => status[j] \in Active
                      /\ status'[j] = "none" <=> status[j] = "none"
  BY <1>1 DEF Inv, RunInv, Active
<1>3. StateTypeOK'
  BY <1>1 DEF Inv, StateTypeOK, Ended
<1>4. RunInv'
  BY <1>1 DEF Inv, RunInv, Ended
<1>5. WatchInv'
  BY <1>2 DEF Inv, WatchInv, Joinable, Jobs
<1>6. IndexInv' /\ CloseInv'
  BY <1>2 DEF Inv, IndexInv, CloseInv, Joinable, ActiveJobs
<1>7. QED  BY <1>3, <1>4, <1>5, <1>6 DEF Inv

LEMMA CancelFutureInv == Inv /\ CancelFuture => Inv'
<1> SUFFICES ASSUME Inv, CancelFuture PROVE Inv'
  OBVIOUS
<1> DEFINE S == {j \in {pendingCancel} : future[j] = "pending"}
<1>1. pendingCancel \in Jobs /\ pendingCancel \in doomed
  BY DEF CancelFuture, Inv, WatchInv, StateTypeOK
<1>2. Cardinality(S) \in Nat
  BY FS_Singleton, FS_Subset, FS_CardinalityType
<1>3. CancelPending(S)
  BY DEF CancelFuture
<1>4. slots' \in Nat
  BY <1>2, <1>3 DEF CancelPending, Inv, StateTypeOK
<1>5. S \subseteq doomed /\ S \subseteq {j \in Jobs : future[j] = "pending"}
  BY <1>1
<1> HIDE DEF S
<1>6. QED
  BY <1>3, <1>4, <1>5, CancelPendingInv
     DEF CancelFuture, Inv, StateTypeOK, tableVars, workVars, clientVars

LEMMA CloseInvStep ==
  ASSUME Inv, Close PROVE Inv'
<1>1. CASE CloseBegin
  <2>1. /\ closing = "open" /\ closing' = "cancelling" /\ pendingCancel' = NoJob
        /\ toCancel' = registry \cap ActiveJobs
        /\ UNCHANGED <<registry, byKey, status, doomed, watchers, event, aged,
                       slots, future, workq, stage, final, phase, watched>>
    BY <1>1 DEF CloseBegin, LoopFree, tableVars, jobVars, poolVars, workVars,
                clientVars
  <2>2. StateTypeOK' /\ RunInv'
    BY <2>1 DEF Inv, StateTypeOK, RunInv
  <2>3. WatchInv' /\ IndexInv'
    BY <2>1 DEF Inv, WatchInv, IndexInv, Joinable, ActiveJobs
  <2>4. CloseInv'
    BY <2>1 DEF Inv, IndexInv, CloseInv, ActiveJobs
  <2>5. QED  BY <2>2, <2>3, <2>4 DEF Inv
<1>2. ASSUME NEW j \in Jobs, CloseCancels(j) PROVE Inv'
  <2>1. /\ closing = "cancelling" /\ pendingCancel = NoJob
        /\ toCancel' = toCancel \ {j}
        /\ UNCHANGED <<registry, byKey, status, watchers, event, aged, closing,
                       slots, future, workq, stage, final, phase, watched>>
    BY <1>2 DEF CloseCancels, tableVars, poolVars, workVars, clientVars
  <2>2. \/ /\ status[j] \in Active
           /\ doomed' = doomed \cup {j} /\ pendingCancel' = j
        \/ /\ status[j] \notin Active
           /\ UNCHANGED <<doomed, pendingCancel>>
    BY <1>2 DEF CloseCancels
  <2>3. StateTypeOK'
    BY <2>1, <2>2 DEF Inv, StateTypeOK
  <2>4. RunInv'
    BY <2>1, <2>2 DEF Inv, RunInv, Active
  <2>5. WatchInv' /\ IndexInv'
    BY <2>1, <2>2 DEF Inv, WatchInv, IndexInv, Joinable, ActiveJobs
  <2>6. CloseInv'
    BY <2>1, <2>2 DEF Inv, CloseInv, ActiveJobs
  <2>7. QED  BY <2>3, <2>4, <2>5, <2>6 DEF Inv
<1>3. CASE CloseDrains
  <2> DEFINE S == {j \in ToSet(workq) : future[j] = "pending"}
  <2>1. ToSet(workq) \subseteq Jobs
    BY DEF ToSet, Inv, StateTypeOK
  <2>2. ActiveJobs \subseteq doomed
    BY <1>3 DEF CloseDrains, Inv, CloseInv
  <2>3. S \subseteq {j \in Jobs : future[j] = "pending"}
    BY <2>1
  <2>4. S \subseteq doomed
    BY <2>2, <2>3 DEF Inv, RunInv, ActiveJobs, Active
  <2>5. Cardinality(S) \in Nat
    BY <2>3, JobManagerAssumption, FS_Subset, FS_CardinalityType DEF Jobs
  <2>6. CancelPending(S)
    BY <1>3 DEF CloseDrains
  <2>7. slots' \in Nat
    BY <2>5, <2>6 DEF CancelPending, Inv, StateTypeOK
  <2>8. workq' \in Seq(Jobs)
    BY <1>3 DEF CloseDrains
  <2> HIDE DEF S
  <2>9. QED
    BY <1>3, <2>2, <2>3, <2>4, <2>6, <2>7, <2>8, CancelPendingInv
       DEF CloseDrains, tableVars, workVars, clientVars
<1>4. CASE CloseJoins
  BY <1>4 DEF CloseJoins, Inv, StateTypeOK, RunInv, WatchInv, IndexInv, CloseInv,
              Joinable, ActiveJobs, tableVars, jobVars, poolVars, workVars,
              clientVars
<1>5. QED
  BY <1>1, <1>2, <1>3, <1>4 DEF Close

LEMMA StutterInv == Inv /\ UNCHANGED vars => Inv'
  BY DEF vars, Inv, StateTypeOK, RunInv, WatchInv, IndexInv, CloseInv,
         Joinable, ActiveJobs

LEMMA NextInv == Inv /\ [Next]_vars => Inv'
<1> SUFFICES ASSUME Inv, [Next]_vars PROVE Inv'
  OBVIOUS
<1>1. ASSUME NEW r \in Requests, Client(r) PROVE Inv'
  BY <1>1, SubmitInv, ClientInv, DetachInv DEF Client
<1>2. ASSUME NEW j \in Jobs, RunStep(j) \/ Age(j) PROVE Inv'
  BY <1>2, StartInv, EndScanInv, PublishInv, SignalInv DEF RunStep
<1>3. QED
  BY <1>1, <1>2, TakeItemInv, CancelFutureInv, CloseInvStep, StutterInv
     DEF Next, Terminated

LEMMA InvAlways == Spec => []Inv
  BY InitInv, NextInv, PTL DEF Spec
-----------------------------------------------------------------------------
(* The properties.                                                         *)

LEMMA SlotsInit == Init => SlotAccounting
<1> SUFFICES ASSUME Init PROVE SlotAccounting
  OBVIOUS
<1>1. SlotHolders = {}
  BY DEF Init, SlotHolders
<1>2. QED
  BY <1>1, FS_EmptySet, JobManagerAssumption DEF Init, SlotAccounting, Capacity

LEMMA HoldersFinite ==
  IsFiniteSet(SlotHolders) /\ Cardinality(SlotHolders) \in Nat
  BY FS_Subset, FS_CardinalityType, JobManagerAssumption DEF SlotHolders, Jobs

(* The jobs whose pending futures are cancelled give back one slot each.   *)
LEMMA CancelPendingSlots ==
  ASSUME Inv, SlotAccounting, NEW STATE S,
         S \subseteq {j \in Jobs : future[j] = "pending"}, CancelPending(S)
  PROVE  SlotAccounting'
<1>1. SlotHolders' = SlotHolders \ S /\ SlotHolders \cap S = S
  BY DEF CancelPending, SlotHolders
<1>2. IsFiniteSet(S) /\ Cardinality(S) \in Nat
  BY <1>1, HoldersFinite, FS_Subset, FS_CardinalityType
<1>3. Cardinality(SlotHolders') = Cardinality(SlotHolders) - Cardinality(S)
  <2>1. Cardinality(SlotHolders \ S)
          = Cardinality(SlotHolders) - Cardinality(SlotHolders \cap S)
    BY HoldersFinite, FS_Difference
  <2>2. QED  BY <1>1, <2>1
<1>4. QED
  BY <1>2, <1>3, HoldersFinite
     DEF CancelPending, SlotAccounting, Inv, StateTypeOK

LEMMA SlotsNext == Inv /\ SlotAccounting /\ [Next]_vars => SlotAccounting'
<1> SUFFICES ASSUME Inv, SlotAccounting, [Next]_vars PROVE SlotAccounting'
  OBVIOUS
<1>1. CASE UNCHANGED <<slots, future>>
  BY <1>1 DEF SlotAccounting, SlotHolders
<1>2. ASSUME NEW r \in Requests, SubmitStarts(r) PROVE SlotAccounting'
  <2>1. r \in Jobs /\ future[r] = "none"
    BY <1>2 DEF SubmitStarts, Inv, WatchInv, RunInv, Jobs
  <2>2. r \notin SlotHolders /\ SlotHolders' = SlotHolders \cup {r}
    BY <1>2, <2>1 DEF SubmitStarts, SlotHolders, Inv, StateTypeOK
  <2>3. Cardinality(SlotHolders') = Cardinality(SlotHolders) + 1
    BY <2>2, HoldersFinite, FS_AddElement
  <2>4. QED
    BY <1>2, <2>3, HoldersFinite
       DEF SubmitStarts, SlotAccounting, Inv, StateTypeOK
<1>3. CASE TakeItem
  <2>1. SlotHolders' = SlotHolders
    BY <1>3 DEF TakeItem, SlotHolders, Inv, StateTypeOK
  <2>2. QED
    BY <1>3, <2>1 DEF TakeItem, SlotAccounting
<1>4. ASSUME NEW j \in Jobs, Release(j) PROVE SlotAccounting'
  <2>1. future[j] = "running"
    BY <1>4 DEF Release, Inv, RunInv
  <2>2. j \in SlotHolders /\ SlotHolders' = SlotHolders \ {j}
    BY <1>4, <2>1 DEF Release, SlotHolders, Inv, StateTypeOK
  <2>3. Cardinality(SlotHolders') = Cardinality(SlotHolders) - 1
    BY <2>2, HoldersFinite, FS_RemoveElement
  <2>4. QED
    BY <1>4, <2>3, HoldersFinite DEF Release, SlotAccounting, Inv, StateTypeOK
<1>5. CASE CancelFuture
  <2>1. {j \in {pendingCancel} : future[j] = "pending"}
          \subseteq {j \in Jobs : future[j] = "pending"}
    BY <1>5 DEF CancelFuture, Inv, StateTypeOK
  <2>2. QED
    BY <1>5, <2>1, CancelPendingSlots DEF CancelFuture
<1>6. CASE CloseDrains
  <2>1. {j \in ToSet(workq) : future[j] = "pending"}
          \subseteq {j \in Jobs : future[j] = "pending"}
    BY DEF ToSet, Inv, StateTypeOK
  <2>2. QED
    BY <1>6, <2>1, CancelPendingSlots DEF CloseDrains
<1>7. ASSUME NEW r \in Requests, Client(r), ~SubmitStarts(r)
      PROVE  UNCHANGED <<slots, future>>
  BY <1>7 DEF Client, Submit, SubmitJoins, SubmitFull, SubmitFails, SubmitClosed,
              SyncAnswer, SyncTimeout, Poll, Cancel, poolVars
<1>8. ASSUME NEW j \in Jobs, RunStep(j) \/ Age(j), ~Release(j)
      PROVE  UNCHANGED <<slots, future>>
  BY <1>8 DEF RunStep, Start, ScanReturns, ScanFails, ScanCancelled, EndScan,
              Publish, Signal, Age, poolVars
<1>9. Close /\ ~CloseDrains => UNCHANGED <<slots, future>>
  BY DEF Close, CloseBegin, CloseCancels, CloseJoins, poolVars
<1>10. QED
  BY <1>1, <1>2, <1>3, <1>4, <1>5, <1>6, <1>7, <1>8, <1>9
     DEF Next, Terminated, vars

(* No path that ends a job loses its slot, and none gives it back twice,   *)
(* for any number of jobs (jobs.py:88-138).                                *)
THEOREM Slots == Spec => []SlotAccounting
<1>1. Spec => [](Inv /\ SlotAccounting)
  BY InitInv, NextInv, SlotsInit, SlotsNext, PTL DEF Spec
<1>2. QED
  BY <1>1, PTL

(* Every variable keeps its type, and the semaphore its bound.             *)
THEOREM TypeCorrect == Spec => []TypeOK
<1>1. Inv /\ SlotAccounting => TypeOK
  BY HoldersFinite, JobManagerAssumption
     DEF Inv, StateTypeOK, TypeOK, SlotAccounting, Capacity
<1>2. QED
  BY <1>1, InvAlways, Slots, PTL

(* A client that waits never has its job cancelled by another (jobs.py:    *)
(* 145-166).  The argument: a job is doomed only when nobody watches it,   *)
(* a doomed job is not joined, and whoever waits is among the watchers.    *)
THEOREM NobodyElseCancels == Spec => []NoOneElseCancels
<1>1. Inv => NoOneElseCancels
  BY DEF Inv, WatchInv, RunInv, NoOneElseCancels
<1>2. QED
  BY <1>1, InvAlways, PTL

(* A job that can be joined is registered, and found under its key.        *)
JoinableJobsAreFound ==
  \A j \in Jobs : Joinable(j) => j \in registry /\ byKey[KeyOf[j]] = j

(* The tables find every job that can be joined, so a request for its key  *)
(* joins it and at most one job per key can be joined (jobs.py:74-95,      *)
(* 180-190).  A doomed job is left out: it may still scan beside a fresh   *)
(* job of its key (jobs.py:78-81).                                         *)
THEOREM JoinableFound == Spec => []JoinableJobsAreFound
<1>1. Inv => JoinableJobsAreFound
  BY DEF Inv, IndexInv, JoinableJobsAreFound, Joinable, ActiveJobs
<1>2. QED
  BY <1>1, InvAlways, PTL

(* A final status is published before the event and never changes.         *)
THEOREM FinalStatus == Spec => WokenAtTheEnd
<1> DEFINE Settled ==
      \A j \in Jobs : /\ j \in event => status[j] \in Ended
                      /\ status[j] \in Ended => status'[j] = status[j]
<1>1. Inv /\ [Next]_vars => [Settled]_vars
  <2> SUFFICES ASSUME Inv, Next PROVE Settled
    OBVIOUS
  <2>1. \A j \in Jobs : j \in event => status[j] \in Ended
    BY DEF Inv, RunInv
  <2>2. CASE UNCHANGED status
    BY <2>1, <2>2
  <2>3. ASSUME NEW r \in Requests, SubmitStarts(r) PROVE Settled
    <3>1. status[r] = "none" /\ status' = [status EXCEPT ![r] = "queued"]
      BY <2>3 DEF SubmitStarts, Inv, WatchInv
    <3>2. QED  BY <2>1, <3>1 DEF Inv, StateTypeOK, Ended
  <2>4. ASSUME NEW j \in Jobs, Start(j) PROVE Settled
    <3>1. status[j] = "queued" /\ status' = [status EXCEPT ![j] = "running"]
      BY <2>4 DEF Start, Inv, RunInv
    <3>2. QED  BY <2>1, <3>1 DEF Inv, StateTypeOK, Ended
  <2>5. ASSUME NEW j \in Jobs, Publish(j) PROVE Settled
    <3>1. status[j] = "running" /\ status' = [status EXCEPT ![j] = final[j]]
      BY <2>5 DEF Publish, Inv, RunInv
    <3>2. QED  BY <2>1, <3>1 DEF Inv, StateTypeOK, Ended
  <2>6. ASSUME NEW STATE S, S \subseteq {j \in Jobs : future[j] = "pending"},
               CancelPending(S)
        PROVE  Settled
    BY <2>1, <2>6 DEF CancelPending, Inv, RunInv, Ended
  <2>7. CancelFuture => Settled
    <3>1. CancelFuture =>
            {j \in {pendingCancel} : future[j] = "pending"}
              \subseteq {j \in Jobs : future[j] = "pending"}
      BY DEF CancelFuture, Inv, StateTypeOK
    <3>2. QED  BY <3>1, <2>6 DEF CancelFuture
  <2>8. CloseDrains => Settled
    <3>1. {j \in ToSet(workq) : future[j] = "pending"}
            \subseteq {j \in Jobs : future[j] = "pending"}
      BY DEF ToSet, Inv, StateTypeOK
    <3>2. QED  BY <3>1, <2>6 DEF CloseDrains
  <2>9. ASSUME NEW r \in Requests, Client(r), ~SubmitStarts(r)
        PROVE  UNCHANGED status
    BY <2>9 DEF Client, Submit, SubmitJoins, SubmitFull, SubmitFails,
                SubmitClosed, SyncAnswer, SyncTimeout, Poll, Cancel, jobVars
  <2>10. ASSUME NEW j \in Jobs, RunStep(j) \/ Age(j), ~Start(j), ~Publish(j)
         PROVE  UNCHANGED status
    BY <2>10 DEF RunStep, ScanReturns, ScanFails, ScanCancelled, EndScan,
                 Signal, Release, Age, jobVars
  <2>11. (Close /\ ~CloseDrains) \/ TakeItem \/ Terminated => UNCHANGED status
    BY DEF Close, CloseBegin, CloseCancels, CloseJoins, TakeItem, Terminated,
           vars, jobVars
  <2>12. QED
    BY <2>2, <2>3, <2>4, <2>5, <2>7, <2>8, <2>9, <2>10, <2>11 DEF Next
<1>2. QED
  BY <1>1, InvAlways, PTL DEF Spec, WokenAtTheEnd
-----------------------------------------------------------------------------
(* Refinement of SharedJobs.                                               *)

(* A step that changes neither status, cancel_requested, watchers nor the  *)
(* closed flag is a stutter of the abstract specification.                 *)
LEMMA AbstractStutter ==
  ASSUME UNCHANGED <<status, doomed, watchers>>,
         (closing' = "open") = (closing = "open")
  PROVE  UNCHANGED Promise!vars
  BY DEF Promise!vars, Work

LEMMA WorkOf ==
  ASSUME Inv, NEW j \in Jobs
  PROVE  /\ Work[j] = "none" <=> status[j] = "none"
         /\ Work[j] = "live" <=> Joinable(j)
         /\ Work[j] = "doomed" <=> status[j] \in Active /\ j \in doomed
  BY DEF Work, Joinable, Active, Ended, Inv, StateTypeOK

LEMMA SubmitPromise ==
  ASSUME Inv, NEW r \in Requests, Submit(r)
  PROVE  [Promise!Next]_(Promise!vars)
<1>1. CASE SubmitJoins(r)
  <2> DEFINE e == Existing(r)
  <2>1. e \in Jobs /\ Joinable(e) /\ KeyOf[e] = KeyOf[r]
    BY <1>1, PruneKeeps DEF SubmitJoins, CanJoin, Existing, Jobs, Keys, Inv,
       IndexInv
  <2>2. Work' = Work
    BY <1>1 DEF SubmitJoins, Work
  <2>3. Promise!Join(r, e)
    BY <1>1, <2>1, <2>2, WorkOf DEF Promise!Join, SubmitJoins, LoopFree, loopVars
  <2>4. QED
    BY <2>1, <2>3 DEF Promise!Next, Jobs
<1>2. CASE SubmitStarts(r)
  <2>1. r \in Jobs /\ status[r] = "none" /\ closing = "open" /\ r \notin doomed
    BY <1>2 DEF SubmitStarts, LoopFree, Inv, WatchInv, RunInv, Jobs
  <2>2. ASSUME NEW j \in Requests, Work[j] = "live" PROVE KeyOf[j] # KeyOf[r]
    <3>1. Joinable(j)
      BY <2>2, WorkOf DEF Jobs
    <3>2. KeptByKey[KeyOf[j]] = j /\ j # NoJob
      BY <3>1, PruneKeeps, JobManagerAssumption DEF Jobs
    <3>3. QED
      BY <1>2, <3>1, <3>2 DEF SubmitStarts, CanJoin, Existing
  <2>3. Work' = [Work EXCEPT ![r] = "live"]
    BY <1>2, <2>1 DEF SubmitStarts, Work, Active, Inv, StateTypeOK
  <2>4. Promise!Start(r)
    BY <1>2, <2>1, <2>2, <2>3, WorkOf
       DEF Promise!Start, SubmitStarts, loopVars
  <2>5. QED
    BY <2>4 DEF Promise!Next
<1>3. CASE SubmitFull(r) \/ SubmitFails(r) \/ SubmitClosed(r)
  BY <1>3, AbstractStutter
     DEF SubmitFull, SubmitFails, SubmitClosed, jobVars, loopVars
<1>4. QED
  BY <1>1, <1>2, <1>3 DEF Submit

LEMMA CancelPromise ==
  ASSUME Inv, NEW r \in Requests, Cancel(r)
  PROVE  [Promise!Next]_(Promise!vars)
<1>1. PICK j \in Jobs : j = watched[r]
  BY DEF Cancel, Inv, WatchInv
<1>2. CASE UNCHANGED <<watchers, doomed>>
  BY <1>2, AbstractStutter DEF Cancel
<1>3. CASE status[j] \in Active /\ Detach(j, r)
  <2>1. Work[j] \in {"live", "doomed"}
    BY <1>3 DEF Work
  <2>2. watchers' = [watchers EXCEPT ![j] = @ \ {r}]
    BY <1>3 DEF Detach
  <2>3. Work' = [Work EXCEPT ![j] = IF watchers'[j] = {} THEN "doomed" ELSE @]
    BY <1>3 DEF Cancel, Detach, Work, Inv, StateTypeOK
  <2>4. Promise!Leave(r, j)
    BY <2>1, <2>2, <2>3 DEF Promise!Leave, Cancel
  <2>5. QED
    BY <2>4 DEF Promise!Next, Jobs
<1>4. QED
  BY <1>1, <1>2, <1>3 DEF Cancel

LEMMA PublishPromise ==
  ASSUME Inv, NEW j \in Jobs, Publish(j)
  PROVE  [Promise!Next]_(Promise!vars)
<1>1. /\ status[j] = "running" /\ final[j] \in Ended
      /\ final[j] = "cancelled" => j \in doomed
  BY DEF Publish, Inv, RunInv
<1>2. Work' = [Work EXCEPT ![j] = final[j]]
  BY <1>1 DEF Publish, Work, Active, Ended, Inv, StateTypeOK
<1>3. CASE j \in doomed
  <2>1. Work[j] = "doomed"
    BY <1>1, <1>3 DEF Work, Active
  <2>2. Promise!Settle(j)
    BY <1>1, <1>2, <2>1 DEF Promise!Settle, Promise!Ended, Ended, Publish, loopVars
  <2>3. QED  BY <2>2 DEF Promise!Next, Jobs
<1>4. CASE j \notin doomed
  <2>1. Work[j] = "live" /\ final[j] \in {"done", "error"}
    BY <1>1, <1>4 DEF Work, Active, Ended
  <2>2. Promise!Settle(j)
    BY <1>2, <2>1 DEF Promise!Settle, Publish, loopVars
  <2>3. QED  BY <2>2 DEF Promise!Next, Jobs
<1>5. QED  BY <1>3, <1>4

LEMMA CancelPendingPromise ==
  ASSUME Inv, NEW STATE S, S \subseteq {j \in Jobs : future[j] = "pending"},
         S \subseteq doomed, CancelPending(S), UNCHANGED <<doomed, watchers>>,
         (closing' = "open") = (closing = "open")
  PROVE  [Promise!Next]_(Promise!vars)
<1>1. S \subseteq Requests
  BY DEF Jobs
<1>2. \A j \in S : Work[j] = "doomed"
  BY WorkOf DEF Inv, RunInv, Active
<1>3. Work' = [j \in Requests |-> IF j \in S THEN "cancelled" ELSE Work[j]]
  BY DEF CancelPending, Work, Active, Jobs
<1>4. Promise!SettleMany(S)
  BY <1>2, <1>3 DEF Promise!SettleMany
<1>5. QED
  BY <1>1, <1>4 DEF Promise!Next

LEMMA ClosePromise ==
  ASSUME Inv, Close
  PROVE  [Promise!Next]_(Promise!vars)
<1>1. CASE CloseBegin
  <2>1. Promise!Shutdown
    BY <1>1 DEF Promise!Shutdown, CloseBegin, LoopFree, jobVars, Work
  <2>2. QED  BY <2>1 DEF Promise!Next
<1>2. ASSUME NEW j \in Jobs, CloseCancels(j)
      PROVE  [Promise!Next]_(Promise!vars)
  <2>1. CASE status[j] \in Active /\ j \notin doomed
    <3>1. Work[j] = "live" /\ Work' = [Work EXCEPT ![j] = "doomed"]
      BY <1>2, <2>1 DEF CloseCancels, Work
    <3>2. Promise!GiveUp(j)
      BY <1>2, <3>1 DEF Promise!GiveUp, CloseCancels
    <3>3. QED  BY <3>2 DEF Promise!Next, Jobs
  <2>2. CASE ~(status[j] \in Active /\ j \notin doomed)
    <3>1. UNCHANGED <<status, doomed, watchers, closing>>
      BY <1>2, <2>2 DEF CloseCancels
    <3>2. QED  BY <3>1, AbstractStutter
  <2>3. QED  BY <2>1, <2>2
<1>3. CASE CloseDrains
  <2>1. {j \in ToSet(workq) : future[j] = "pending"}
          \subseteq {j \in Jobs : future[j] = "pending"}
    BY DEF ToSet, Inv, StateTypeOK
  <2>2. ActiveJobs \subseteq doomed
    BY <1>3 DEF CloseDrains, Inv, CloseInv
  <2>3. {j \in ToSet(workq) : future[j] = "pending"} \subseteq doomed
    BY <2>1, <2>2 DEF Inv, RunInv, ActiveJobs, Active
  <2>4. QED
    BY <1>3, <2>1, <2>3, CancelPendingPromise DEF CloseDrains
<1>4. CASE CloseJoins
  BY <1>4, AbstractStutter DEF CloseJoins, jobVars
<1>5. QED
  BY <1>1, <1>2, <1>3, <1>4 DEF Close

LEMMA StepPromise == Inv /\ [Next]_vars => [Promise!Next]_(Promise!vars)
<1> SUFFICES ASSUME Inv, [Next]_vars PROVE [Promise!Next]_(Promise!vars)
  OBVIOUS
<1>1. CASE UNCHANGED vars
  BY <1>1, AbstractStutter DEF vars
<1>2. ASSUME NEW r \in Requests, Client(r)
      PROVE  [Promise!Next]_(Promise!vars)
  <2>1. CASE SyncAnswer(r) \/ SyncTimeout(r) \/ Poll(r)
    BY <2>1, AbstractStutter
       DEF SyncAnswer, SyncTimeout, Poll, jobVars, loopVars
  <2>2. QED
    BY <1>2, <2>1, SubmitPromise, CancelPromise DEF Client
<1>3. CASE TakeItem
  BY <1>3, AbstractStutter DEF TakeItem, jobVars, loopVars
<1>4. ASSUME NEW j \in Jobs, RunStep(j) \/ Age(j)
      PROVE  [Promise!Next]_(Promise!vars)
  <2>1. CASE Start(j)
    <3>1. status[j] = "queued" /\ status' = [status EXCEPT ![j] = "running"]
      BY <2>1 DEF Start, Inv, RunInv
    <3>2. Work' = Work
      BY <2>1, <3>1 DEF Start, Work, Active, Inv, StateTypeOK
    <3>3. QED  BY <2>1, <3>2 DEF Promise!vars, Start, loopVars
  <2>2. CASE RunStep(j) /\ ~Start(j) /\ ~Publish(j)
    BY <2>2, AbstractStutter
       DEF RunStep, ScanReturns, ScanFails, ScanCancelled, EndScan, Signal,
           Release, jobVars, loopVars
  <2>3. CASE Age(j)
    BY <2>3, AbstractStutter DEF Age, loopVars
  <2>4. QED
    BY <1>4, <2>1, <2>2, <2>3, PublishPromise
<1>5. CASE CancelFuture
  <2>1. pendingCancel \in Jobs /\ pendingCancel \in doomed
    BY <1>5 DEF CancelFuture, Inv, WatchInv, StateTypeOK
  <2>2. QED
    BY <1>5, <2>1, CancelPendingPromise DEF CancelFuture
<1>6. QED
  BY <1>1, <1>2, <1>3, <1>4, <1>5, ClosePromise DEF Next, Terminated

(* The job manager implements the promise it makes to its clients, for any *)
(* requests, keys, workers and queue size: clients of a key share one      *)
(* computation, given up only when the last of them has left or the server *)
(* shuts down, and never joined once it is given up.                       *)
THEOREM Refinement == Spec => KeepsPromise
<1>1. Init => Promise!Init
  BY DEF Init, Promise!Init, Work, Active, Jobs
<1>2. QED
  BY <1>1, StepPromise, InvAlways, PTL DEF Spec, Promise!Spec, KeepsPromise

-----------------------------------------------------------------------------
(* No job is left without anybody to end it.                               *)

InQueue == {j \in Jobs : \E i \in 1..Len(workq) : workq[i] = j}

\* Where a job is that has not ended, and that one that has woke its waiters.
HandInv ==
  /\ \A j \in Jobs : future[j] = "pending" => j \in InQueue
  /\ \A j \in Jobs :
       future[j] \in {"cancelled", "finished"} \/ stage[j] = "release" => j \in event
  /\ closing \in {"waiting", "closed"} => workq = <<>>
  /\ closing = "closed" => Busy = {}

LEMMA HandSame ==
  ASSUME HandInv, UNCHANGED <<future, workq, stage, event, closing>>
  PROVE  HandInv'
BY DEF HandInv, InQueue, Busy

\* One job goes on to another stage of the worker that has it.
LEMMA HandStage ==
  ASSUME Inv, HandInv, NEW j \in Jobs, NEW s, stage' = [stage EXCEPT ![j] = s],
         stage[j] # "off", event \subseteq event', s = "release" => j \in event',
         UNCHANGED <<future, workq, closing>>
  PROVE  HandInv'
<1>1. \A i \in Jobs : stage'[i] = IF i = j THEN s ELSE stage[i]
  BY DEF Inv, StateTypeOK
<1>2. InQueue' = InQueue
  BY DEF InQueue
<1>3. j \in Busy
  BY DEF Busy
<1>4. closing # "closed"
  BY <1>3 DEF HandInv
<1>5. QED
  BY <1>1, <1>2, <1>4 DEF HandInv

\* Pending futures are cancelled, and with the queue drained they all are.
LEMMA HandCancel ==
  ASSUME Inv, HandInv, NEW STATE S, CancelPending(S),
         S \subseteq {j \in Jobs : future[j] = "pending"}, UNCHANGED stage,
         \/ closing' = closing /\ workq' = workq
         \/ closing' = "waiting" /\ workq' = <<>> /\ InQueue \cap {j \in Jobs : future[j] = "pending"} \subseteq S
  PROVE  HandInv'
<1>1. /\ \A j \in Jobs : future'[j] = IF j \in S THEN "cancelled" ELSE future[j]
      /\ event' = event \cup S
  BY DEF CancelPending
<1>2. CASE closing' = closing /\ workq' = workq
  <2>1. InQueue' = InQueue /\ Busy' = Busy
    BY <1>2 DEF InQueue, Busy
  <2> QED
    BY <1>1, <1>2, <2>1 DEF HandInv
<1>3. CASE /\ closing' = "waiting" /\ workq' = <<>>
           /\ InQueue \cap {j \in Jobs : future[j] = "pending"} \subseteq S
  <2>1. \A j \in Jobs : future'[j] # "pending"
    BY <1>1, <1>3 DEF HandInv
  <2> QED
    BY <1>1, <1>3, <2>1 DEF HandInv
<1>4. QED
  BY <1>2, <1>3

LEMMA HandNext == Inv /\ HandInv /\ [Next]_vars => HandInv'
<1> SUFFICES ASSUME Inv, HandInv, [Next]_vars PROVE HandInv'
  OBVIOUS
<1>1. ASSUME NEW r \in Requests, Client(r) PROVE HandInv'
  <2>1. CASE SubmitStarts(r)
    <3>1. /\ closing = "open" /\ closing' = closing /\ r \in Jobs
          /\ UNCHANGED <<stage, event>>
          /\ future' = [future EXCEPT ![r] = "pending"]
          /\ workq' = Append(workq, r)
      BY <2>1 DEF SubmitStarts, LoopFree, workVars, loopVars, Jobs
    <3>2. \A j \in Jobs : future'[j] = IF j = r THEN "pending" ELSE future[j]
      BY <3>1 DEF Inv, StateTypeOK
    <3>3. InQueue \cup {r} \subseteq InQueue'
      <4>1. workq \in Seq(Jobs)
        BY DEF Inv, StateTypeOK
      <4>2. /\ Len(workq) \in Nat /\ Len(workq') = Len(workq) + 1
            /\ workq'[Len(workq) + 1] = r
            /\ \A i \in 1..Len(workq) : workq'[i] = workq[i]
        BY <3>1, <4>1
      <4>3. Len(workq) + 1 \in 1..Len(workq') /\ 1..Len(workq) \subseteq 1..Len(workq')
        BY <4>2
      <4> QED
        BY <3>1, <4>2, <4>3 DEF InQueue
    <3> QED
      BY <3>1, <3>2, <3>3 DEF HandInv
  <2>2. CASE SubmitJoins(r) \/ SubmitFull(r) \/ SubmitFails(r) \/ SubmitClosed(r)
             \/ SyncAnswer(r) \/ SyncTimeout(r) \/ Poll(r)
    <3>1. UNCHANGED <<future, workq, stage, event, closing>>
      BY <2>2 DEF SubmitJoins, SubmitFull, SubmitFails, SubmitClosed, SyncAnswer,
                  SyncTimeout, Poll, jobVars, poolVars, workVars, loopVars
    <3> QED
      BY <3>1, HandSame
  <2>3. CASE Cancel(r)
    <3>1. UNCHANGED <<future, workq, stage, event, closing>>
      BY <2>3 DEF Cancel, poolVars, workVars
    <3> QED
      BY <3>1, HandSame
  <2> QED
    BY <1>1, <2>1, <2>2, <2>3 DEF Client, Submit
<1>2. CASE TakeItem
  <2> DEFINE h == Head(workq)
  <2>1. /\ workq # <<>> /\ workq \in Seq(Jobs) /\ workq' = Tail(workq)
        /\ UNCHANGED <<event, closing>>
    BY <1>2 DEF TakeItem, Inv, StateTypeOK, jobVars, loopVars
  <2>2. h \in Jobs /\ h = workq[1]
    BY <2>1
  <2>3. /\ \A j \in Jobs : future'[j] = IF j = h /\ future[h] = "pending"
                                        THEN "running" ELSE future[j]
        /\ \A j \in Jobs : stage'[j] = IF j = h /\ future[h] = "pending"
                                       THEN "start" ELSE stage[j]
    BY <1>2, <2>2 DEF TakeItem, Inv, StateTypeOK
  <2> HIDE DEF h
  <2>4. ASSUME NEW j \in Jobs, future'[j] = "pending"
        PROVE  j \in InQueue'
    <3>1. j # h /\ future[j] = "pending"
      BY <2>3, <2>4
    <3>2. j \in InQueue
      BY <3>1 DEF HandInv
    <3>3. PICK i \in 1..Len(workq) : workq[i] = j
      BY <3>2 DEF InQueue
    <3>4. i # 1
      BY <2>2, <3>1, <3>3
    <3>5. i - 1 \in 1..Len(workq') /\ workq'[i - 1] = workq[i]
      BY <2>1, <3>3, <3>4
    <3> QED
      BY <3>3, <3>5 DEF InQueue
  <2>5. closing \notin {"waiting", "closed"}
    BY <2>1 DEF HandInv
  <2> QED
    BY <2>1, <2>3, <2>4, <2>5 DEF HandInv
<1>3. ASSUME NEW j \in Jobs, RunStep(j) PROVE HandInv'
  <2>1. CASE Start(j)
    <3>1. /\ \E s \in {"finish", "scan"} : stage' = [stage EXCEPT ![j] = s]
          /\ stage[j] # "off" /\ UNCHANGED <<event, future, workq, closing>>
      BY <2>1 DEF Start, poolVars, loopVars
    <3> QED
      BY <3>1, HandStage
  <2>2. CASE ScanReturns(j) \/ ScanFails(j) \/ ScanCancelled(j)
    <3>1. PICK s : EndScan(j, s)
      BY <2>2 DEF ScanReturns, ScanFails, ScanCancelled
    <3>2. /\ stage' = [stage EXCEPT ![j] = "finish"]
          /\ stage[j] # "off" /\ UNCHANGED <<event, future, workq, closing>>
      BY <3>1 DEF EndScan, jobVars, poolVars, loopVars
    <3> QED
      BY <3>2, HandStage
  <2>3. CASE Publish(j)
    <3>1. /\ stage' = [stage EXCEPT ![j] = "signal"]
          /\ stage[j] # "off" /\ UNCHANGED <<event, future, workq, closing>>
      BY <2>3 DEF Publish, poolVars, loopVars
    <3> QED
      BY <3>1, HandStage
  <2>4. CASE Signal(j)
    <3>1. /\ stage' = [stage EXCEPT ![j] = "release"] /\ event' = event \cup {j}
          /\ stage[j] # "off" /\ UNCHANGED <<future, workq, closing>>
      BY <2>4 DEF Signal, poolVars, loopVars
    <3> QED
      BY <3>1, HandStage
  <2>5. CASE Release(j)
    <3>1. /\ stage[j] = "release" /\ UNCHANGED <<event, workq, closing>>
          /\ \A i \in Jobs : future'[i] = IF i = j THEN "finished" ELSE future[i]
          /\ \A i \in Jobs : stage'[i] = IF i = j THEN "off" ELSE stage[i]
      BY <2>5 DEF Release, Inv, StateTypeOK, jobVars, loopVars
    <3>2. InQueue' = InQueue /\ j \in event
      BY <3>1 DEF InQueue, HandInv
    <3>3. closing # "closed"
      BY <3>1 DEF HandInv, Busy
    <3> QED
      BY <3>1, <3>2, <3>3 DEF HandInv
  <2> QED
    BY <1>3, <2>1, <2>2, <2>3, <2>4, <2>5 DEF RunStep
<1>4. ASSUME NEW j \in Jobs, Age(j) PROVE HandInv'
  <2>1. UNCHANGED <<future, workq, stage, event, closing>>
    BY <1>4 DEF Age, poolVars, workVars, loopVars
  <2> QED
    BY <2>1, HandSame
<1>5. CASE CancelFuture
  <2> DEFINE S == {j \in {pendingCancel} : future[j] = "pending"}
  <2>1. pendingCancel \in Jobs /\ CancelPending(S)
        /\ UNCHANGED <<workq, closing, stage>>
    BY <1>5 DEF CancelFuture, Inv, StateTypeOK, workVars
  <2>2. S \subseteq {j \in Jobs : future[j] = "pending"}
    BY <2>1
  <2> HIDE DEF S
  <2> QED
    BY <2>1, <2>2, HandCancel
<1>6. CASE Close
  <2>1. CASE CloseBegin
    <3>1. closing' = "cancelling" /\ UNCHANGED <<future, workq, stage, event>>
      BY <2>1 DEF CloseBegin, jobVars, poolVars, workVars
    <3>2. InQueue' = InQueue
      BY <3>1 DEF InQueue
    <3> QED
      BY <3>1, <3>2 DEF HandInv
  <2>2. ASSUME NEW j \in Jobs, CloseCancels(j) PROVE HandInv'
    <3>1. UNCHANGED <<future, workq, stage, event, closing>>
      BY <2>2 DEF CloseCancels, poolVars, workVars
    <3> QED
      BY <3>1, HandSame
  <2>3. CASE CloseDrains
    <3> DEFINE S == {j \in ToSet(workq) : future[j] = "pending"}
    <3>1. workq \in Seq(Jobs) /\ ToSet(workq) = InQueue
      BY DEF Inv, StateTypeOK, ToSet, InQueue
    <3>2. /\ CancelPending(S) /\ closing' = "waiting" /\ workq' = <<>>
          /\ UNCHANGED stage
      BY <2>3 DEF CloseDrains, workVars
    <3>3. /\ S \subseteq {j \in Jobs : future[j] = "pending"}
          /\ InQueue \cap {j \in Jobs : future[j] = "pending"} \subseteq S
      BY <3>1 DEF InQueue
    <3> HIDE DEF S
    <3> QED
      BY <3>2, <3>3, HandCancel
  <2>4. CASE CloseJoins
    <3>1. /\ closing = "waiting" /\ Busy = {} /\ closing' = "closed"
          /\ UNCHANGED <<future, workq, stage, event>>
      BY <2>4 DEF CloseJoins, jobVars, poolVars, workVars
    <3>2. InQueue' = InQueue /\ Busy' = Busy
      BY <3>1 DEF InQueue, Busy
    <3> QED
      BY <3>1, <3>2 DEF HandInv
  <2> QED
    BY <1>6, <2>1, <2>2, <2>3, <2>4 DEF Close
<1>7. CASE UNCHANGED vars
  BY <1>7, HandSame DEF vars
<1> QED
  BY <1>1, <1>2, <1>3, <1>4, <1>5, <1>6, <1>7 DEF Next, Terminated

(* Whoever waits for a job has it ended already, or in the queue, or with a *)
(* worker that has yet to wake its waiters; and once close has returned,   *)
(* every job that was ever accepted has ended and woken them.              *)
NoJobIsStranded ==
  /\ \A r \in Requests : phase[r] \in {"waiting", "polling"} =>
       \/ watched[r] \in event
       \/ future[watched[r]] = "pending" /\ watched[r] \in InQueue
       \/ stage[watched[r]] \in {"start", "scan", "finish", "signal"}
  /\ closing = "closed" => \A j \in Jobs : status[j] = "none" \/ j \in event

(* However a job is cancelled, or the manager closed, no waiter is left    *)
(* without somebody to wake it: the safety half of EverythingEnds          *)
(* (jobs.py:88-138, 145-178).                                              *)
THEOREM NobodyIsStranded == Spec => []NoJobIsStranded
<1>1. Init => HandInv
  <2> SUFFICES ASSUME Init PROVE HandInv
    OBVIOUS
  <2>1. /\ \A j \in Jobs : future[j] = "none" /\ stage[j] = "off"
        /\ closing = "open"
    BY DEF Init
  <2> QED
    BY <2>1 DEF HandInv
<1>2. Inv /\ HandInv => NoJobIsStranded
  <2> SUFFICES ASSUME Inv, HandInv PROVE NoJobIsStranded
    OBVIOUS
  <2>1. ASSUME NEW j \in Jobs, status[j] # "none", j \notin event
        PROVE  \/ future[j] = "pending" /\ j \in InQueue
               \/ future[j] = "running" /\ stage[j] \in {"start", "scan", "finish", "signal"}
    <3>1. future[j] \in {"pending", "running", "cancelled", "finished"}
      BY <2>1 DEF Inv, StateTypeOK, RunInv
    <3>2. future[j] = "running" => stage[j] \in {"start", "scan", "finish", "signal", "release"}
      BY DEF Inv, StateTypeOK, RunInv
    <3> QED
      BY <2>1, <3>1, <3>2 DEF HandInv
  <2>2. ASSUME NEW r \in Requests, phase[r] \in {"waiting", "polling"}
        PROVE  watched[r] \in Jobs /\ status[watched[r]] # "none"
    BY <2>2 DEF Inv, WatchInv
  <2>3. ASSUME closing = "closed", NEW j \in Jobs
        PROVE  status[j] = "none" \/ j \in event
    <3>1. workq = <<>> /\ Busy = {}
      BY <2>3 DEF HandInv
    <3>2. j \notin InQueue
      BY <3>1 DEF InQueue
    <3>3. stage[j] = "off"
      BY <3>1 DEF Busy
    <3> QED
      BY <2>1, <3>2, <3>3
  <2> QED
    BY <2>1, <2>2, <2>3 DEF NoJobIsStranded
<1>3. Spec => [](Inv /\ HandInv)
  BY <1>1, InitInv, NextInv, HandNext, PTL DEF Spec
<1> QED
  BY <1>2, <1>3, PTL
=============================================================================
