------------------------------ MODULE Instance ------------------------------
(***************************************************************************)
(* catwalk/cli.py: the commands start, stop and status on one state        *)
(* directory, run by several people at once, and the servers they spawn.   *)
(*                                                                         *)
(* Each start spawns the next server, under a process number of its own.   *)
(* When the server is gone, another program may get its number: one that   *)
(* has "catwalk" in its command line, or any other.  Files are read,       *)
(* truncated, written and unlinked in single steps; a truncated one does   *)
(* not parse, and reads as none.  There is a /proc.  Ports are left out: a *)
(* server that finds its port taken dies.                                  *)
(***************************************************************************)
EXTENDS Integers

CONSTANTS Commands,      \* terminals, one command at a time on each
          MaxServers,    \* servers spawned while the model runs
          None, Torn

Servers == 1..MaxServers

ASSUME InstanceAssumption ==
  /\ MaxServers \in Nat
  /\ None \notin Servers /\ Torn \notin Servers /\ None # Torn

VARIABLES
  file,        \* catwalk.json: the server it names
  process,     \* what runs under the process number of each server
  op, pc,      \* the command on each terminal, and where it is
  pid,         \* the server it read of or spawned
  disturbed    \* history: a start overlapped another command, or was
               \* interrupted between its Popen and the end of its write_text

cmdVars == <<op, pc, pid>>
vars == <<file, process, op, pc, pid, disturbed>>

Live(i)  == process[i] \in {"starting", "listening", "stopping"}
Stages   == {"read", "check", "clear", "spawn", "wait", "truncate", "write",
             "kill", "down"}
Spawned  == {"wait", "truncate", "write"}

TypeOK ==
  /\ file \in Servers \cup {None, Torn}
  /\ process \in [Servers -> {"unborn", "starting", "listening", "stopping",
                              "zombie", "gone", "catwalk", "stranger"}]
  /\ op \in [Commands -> {"none", "start", "stop", "status"}]
  /\ pc \in [Commands -> Stages \cup {"idle"}]
  /\ pid \in [Commands -> Servers \cup {None}]
  /\ disturbed \in BOOLEAN
  /\ \A c \in Commands :
       /\ pc[c] = "idle" <=> op[c] = "none"
       /\ pc[c] \in {"check", "clear", "kill", "down"} \cup Spawned
            => pid[c] \in Servers
       /\ pc[c] \in {"spawn"} \cup Spawned => op[c] = "start"
       /\ pc[c] \in {"kill", "down"} => op[c] = "stop"

Init ==
  /\ file = None
  /\ process = [i \in Servers |-> "unborn"]
  /\ op = [c \in Commands |-> "none"] /\ pc = [c \in Commands |-> "idle"]
  /\ pid = [c \in Commands |-> None]
  /\ disturbed = FALSE

Goto(c, label) == pc' = [pc EXCEPT ![c] = label] /\ UNCHANGED op

Exit(c) ==
  /\ op' = [op EXCEPT ![c] = "none"] /\ pc' = [pc EXCEPT ![c] = "idle"]
  /\ pid' = [pid EXCEPT ![c] = None]
-----------------------------------------------------------------------------
(* The servers, and the other processes of the machine.                    *)

Become(i, from, to) ==
  /\ process[i] \in from /\ process' = [process EXCEPT ![i] = to]
  /\ UNCHANGED <<file, cmdVars, disturbed>>

Bind(i) == Become(i, {"starting"}, "listening")

(* A server that ends is a zombie until somebody reaps it: the start that  *)
(* spawned it, if it polls; when that has ended, whoever inherited it.     *)
Die(i)  == Become(i, {"starting", "listening", "stopping"}, "zombie")
Reap(i) ==
  /\ ~\E c \in Commands : pc[c] \in Spawned /\ pid[c] = i
  /\ Become(i, {"zombie"}, "gone")

(* A process number is not used again as fast as a stop gets from its check*)
(* to its kill.                                                            *)
Reuse(i) ==
  /\ ~\E c \in Commands : pc[c] = "kill" /\ pid[c] = i
  /\ \E program \in {"catwalk", "stranger"} : Become(i, {"gone"}, program)

OtherEnds(i) == Become(i, {"catwalk", "stranger"}, "gone")
-----------------------------------------------------------------------------
(* A command begins; to overlap with a start is to disturb it.             *)
Begin(c, command) ==
  /\ pc[c] = "idle"
  /\ op' = [op EXCEPT ![c] = command] /\ pc' = [pc EXCEPT ![c] = "read"]
  /\ disturbed' = (disturbed \/ \E b \in Commands :
                                  \/ op[b] = "start"
                                  \/ command = "start" /\ op[b] # "none")
  /\ UNCHANGED <<file, process, pid>>

(* It ends early: Ctrl-C, a full disk, a lost terminal.                    *)
Interrupt(c) ==
  /\ pc[c] # "idle"
  /\ disturbed' = (disturbed \/ pc[c] \in Spawned)
  /\ Exit(c)
  /\ UNCHANGED <<file, process>>

(* read_state, first of all.                                               *)
ReadNothing(c) ==
  /\ pc[c] = "read" /\ file \in {None, Torn}
  /\ IF op[c] = "start" THEN Goto(c, "spawn") /\ UNCHANGED pid ELSE Exit(c)
  /\ UNCHANGED <<file, process, disturbed>>

(* Mutation: a file that does not parse is not caught.                     *)
ReadRecordTorn(c) ==
  /\ pc[c] = "read" /\ file # None
  /\ pid' = [pid EXCEPT ![c] = file]
  /\ Goto(c, "check")
  /\ UNCHANGED <<file, process, disturbed>>
ReadRecord(c) ==
  /\ pc[c] = "read" /\ file \in Servers
  /\ pid' = [pid EXCEPT ![c] = file]
  /\ Goto(c, "check")
  /\ UNCHANGED <<file, process, disturbed>>

(* process_alive: a zombie is not.                                         *)
Alive(i) == process[i] \notin {"unborn", "zombie", "gone"}

(* ... and _is_catwalk_process.                                            *)
Catwalk(i) == Alive(i) /\ process[i] # "stranger"

CheckUp(c) ==
  /\ pc[c] = "check" /\ Catwalk(pid[c])
  /\ IF op[c] = "stop" THEN Goto(c, "kill") /\ UNCHANGED pid ELSE Exit(c)
  /\ UNCHANGED <<file, process, disturbed>>

CheckDown(c) ==
  /\ pc[c] = "check" /\ ~Catwalk(pid[c])
  /\ Goto(c, "clear")
  /\ UNCHANGED <<file, process, pid, disturbed>>

(* The unlink of a stale record.                                           *)
Clear(c) ==
  /\ pc[c] = "clear"
  /\ file' = None
  /\ IF op[c] = "start" THEN Goto(c, "spawn") /\ UNCHANGED pid ELSE Exit(c)
  /\ UNCHANGED <<process, disturbed>>
-----------------------------------------------------------------------------
(* cmd_start, once there is no server.                                     *)

Spawn(c, i) ==
  /\ pc[c] = "spawn"
  /\ process[i] = "unborn" /\ \A j \in Servers : process[j] = "unborn" => i =< j
  /\ process' = [process EXCEPT ![i] = "starting"]
  /\ pid' = [pid EXCEPT ![c] = i]
  /\ Goto(c, "wait")
  /\ UNCHANGED <<file, disturbed>>

(* child.poll(), which reaps.                                              *)
ChildDied(c) ==
  /\ pc[c] = "wait" /\ process[pid[c]] = "zombie"
  /\ process' = [process EXCEPT ![pid[c]] = "gone"]
  /\ Exit(c)
  /\ UNCHANGED <<file, disturbed>>

(* It listens, or the deadline has passed, whatever became of it.          *)
(* Mutation: a server that is slow is reported and not recorded.           *)
WaitOverIfUp(c) ==
  /\ pc[c] = "wait"
  /\ IF process[pid[c]] = "listening" THEN Goto(c, "truncate") /\ UNCHANGED pid
     ELSE Exit(c)
  /\ UNCHANGED <<file, process, disturbed>>
WaitOver(c) ==
  /\ pc[c] = "wait"
  /\ Goto(c, "truncate")
  /\ UNCHANGED <<file, process, pid, disturbed>>

(* write_text                                                              *)
Truncate(c) ==
  /\ pc[c] = "truncate"
  /\ file' = Torn
  /\ Goto(c, "write")
  /\ UNCHANGED <<process, pid, disturbed>>

Write(c) ==
  /\ pc[c] = "write"
  /\ file' = pid[c]
  /\ Exit(c)
  /\ UNCHANGED <<process, disturbed>>
-----------------------------------------------------------------------------
(* The rest of cmd_stop.                                                   *)

(* os.kill; force is SIGKILL.  A process that is gone raises.              *)
(* Mutation: the end of the server is not waited for.                      *)
KillAtOnce(c, force) ==
  /\ pc[c] = "kill"
  /\ IF process[pid[c]] = "gone" THEN Exit(c)
     ELSE Goto(c, "clear") /\ UNCHANGED pid
  /\ process' = [process EXCEPT ![pid[c]] =
                   IF ~Live(pid[c]) THEN @
                   ELSE IF force THEN "zombie" ELSE "stopping"]
  /\ UNCHANGED <<file, disturbed>>
Kill(c, force) ==
  /\ pc[c] = "kill"
  /\ IF process[pid[c]] = "gone" THEN Exit(c)
     ELSE Goto(c, "down") /\ UNCHANGED pid
  /\ process' = [process EXCEPT ![pid[c]] =
                   IF ~Live(pid[c]) THEN @
                   ELSE IF force THEN "zombie" ELSE "stopping"]
  /\ UNCHANGED <<file, disturbed>>

(* The wait has found it dead.                                             *)
(* Mutation: or the deadline has passed.                                   *)
DownAnyway(c) ==
  /\ pc[c] = "down"
  /\ Goto(c, "clear")
  /\ UNCHANGED <<file, process, pid, disturbed>>
Down(c) ==
  /\ pc[c] = "down" /\ ~Alive(pid[c])
  /\ Goto(c, "clear")
  /\ UNCHANGED <<file, process, pid, disturbed>>

(* Mutation: the record is unlinked all the same.                          *)
StillUpForgets(c) ==
  /\ pc[c] = "down" /\ Alive(pid[c])
  /\ file' = None
  /\ Exit(c)
  /\ UNCHANGED <<process, disturbed>>
StillUp(c) ==
  /\ pc[c] = "down" /\ Alive(pid[c])
  /\ Exit(c)
  /\ UNCHANGED <<file, process, disturbed>>
-----------------------------------------------------------------------------
Machine(i) == Bind(i) \/ Die(i) \/ Reap(i) \/ Reuse(i) \/ OtherEnds(i)

Step(c) ==
  \/ ReadNothing(c) \/ ReadRecord(c) \/ CheckUp(c) \/ CheckDown(c) \/ Clear(c)
  \/ \E i \in Servers : Spawn(c, i)
  \/ ChildDied(c) \/ WaitOver(c) \/ Truncate(c) \/ Write(c)
  \/ \E force \in BOOLEAN : Kill(c, force)
  \/ Down(c) \/ StillUp(c)

Next ==
  \/ \E i \in Servers : Machine(i)
  \/ \E c \in Commands : \/ \E command \in {"start", "stop", "status"} :
                              Begin(c, command)
                         \/ Step(c) \/ Interrupt(c)

Spec == Init /\ [][Next]_vars
-----------------------------------------------------------------------------
(* Properties.                                                             *)

(* cli.py:15 "One state dir manages one instance": so it does until a start*)
(* is disturbed, whatever servers, stops and status commands do meanwhile. *)
OneInstance ==
  ~disturbed => \A i, j \in Servers : Live(i) /\ Live(j) => i = j

(* Nor is a server ever lost: stop and status know it, or the start that   *)
(* spawned it is about to write its record (cli.py:288-327).               *)
Managed ==
  ~disturbed => \A i \in Servers :
    Live(i) => \/ file = i
               \/ \E c \in Commands : pc[c] \in Spawned /\ pid[c] = i

(* "not running" and "stopped" are true when they are said, though what    *)
(* was read and checked may be old by then (cli.py:154-163, 348-373).      *)
SaysDown(c) == Clear(c) \/ ReadNothing(c)
DownMeansDown ==
  [][ \A c \in Commands : ~disturbed /\ SaysDown(c)
        => \A i \in Servers : ~Live(i) ]_vars

(* Even among starts that overlap or were interrupted, a command that      *)
(* unlinks the record it has read unlinks that of a dead server, however   *)
(* late it comes (cli.py:162, 354, 372).                                   *)
ClearsTheDead ==
  [][ \A c \in Commands : Clear(c) /\ file = pid[c] => ~Live(pid[c]) ]_vars
=============================================================================
