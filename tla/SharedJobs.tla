----------------------------- MODULE SharedJobs -----------------------------
(***************************************************************************)
(* What the job manager promises its clients (catwalk/jobs.py docstrings): *)
(* clients that ask for the same key share one computation; it is only     *)
(* given up once every client that asked has left, or at shutdown; and a   *)
(* computation given up is never joined.                                   *)
(*                                                                         *)
(* There is no queue, no pool and no registry here: JobManager implements  *)
(* this specification with those.                                          *)
(***************************************************************************)
CONSTANTS Requests,    \* client requests, each made once
          KeyOf        \* what each request asks for

VARIABLES work,        \* the life of the computation that each request starts
          watching,    \* the requests that still want its result
          open         \* FALSE once the service shuts down

vars == <<work, watching, open>>

Ended == {"done", "error", "cancelled"}

Init ==
  /\ work = [j \in Requests |-> "none"]
  /\ watching = [j \in Requests |-> {}]
  /\ open = TRUE

(* A request joins the live computation of its key ...                     *)
Join(r, j) ==
  /\ open /\ work[j] = "live" /\ KeyOf[j] = KeyOf[r]
  /\ watching' = [watching EXCEPT ![j] = @ \cup {r}]
  /\ UNCHANGED <<work, open>>

(* ... and starts one only when there is none.                             *)
Start(r) ==
  /\ open /\ work[r] = "none"
  /\ \A j \in Requests : work[j] = "live" => KeyOf[j] # KeyOf[r]
  /\ work' = [work EXCEPT ![r] = "live"]
  /\ watching' = [watching EXCEPT ![r] = {r}]
  /\ UNCHANGED open

(* A client leaves; the last one to leave dooms the computation.           *)
Leave(r, j) ==
  /\ work[j] \in {"live", "doomed"}
  /\ watching' = [watching EXCEPT ![j] = @ \ {r}]
  /\ work' = [work EXCEPT ![j] = IF watching'[j] = {} THEN "doomed" ELSE @]
  /\ UNCHANGED open

(* A live computation ends by itself, never cancelled; a doomed one may    *)
(* still have been too far on to be stopped.                               *)
Settle(j) ==
  /\ \/ work[j] = "live" /\ work' \in {[work EXCEPT ![j] = s] : s \in {"done", "error"}}
     \/ work[j] = "doomed" /\ work' \in {[work EXCEPT ![j] = s] : s \in Ended}
  /\ UNCHANGED <<watching, open>>

(* At shutdown every computation is given up whoever watches it.           *)
Shutdown == open /\ open' = FALSE /\ UNCHANGED <<work, watching>>

GiveUp(j) ==
  /\ ~open /\ work[j] = "live"
  /\ work' = [work EXCEPT ![j] = "doomed"]
  /\ UNCHANGED <<watching, open>>

(* Shutdown ends the doomed computations that never began, all at once.     *)
SettleMany(S) ==
  /\ \A j \in S : work[j] = "doomed"
  /\ work' = [j \in Requests |-> IF j \in S THEN "cancelled" ELSE work[j]]
  /\ UNCHANGED <<watching, open>>

Next ==
  \/ \E r, j \in Requests : Join(r, j) \/ Leave(r, j)
  \/ \E r \in Requests : Start(r) \/ Settle(r) \/ GiveUp(r)
  \/ \E S \in SUBSET Requests : SettleMany(S)
  \/ Shutdown

Spec == Init /\ [][Next]_vars
=============================================================================
