--------------------------- MODULE InstanceProofs ---------------------------
(***************************************************************************)
(* Proofs for Instance.  Until a start is disturbed it is alone, so what a *)
(* command has read is still what the file says, or the file is gone; and  *)
(* the server it may have found dead stays dead, whatever happens.         *)
(***************************************************************************)
EXTENDS Instance, TLAPS

(* Whom a command or the file names was spawned.                           *)
Born ==
  /\ \A c \in Commands : pid[c] # None => process[pid[c]] # "unborn"
  /\ file \in Servers => process[file] # "unborn"

(* Who is about to unlink a record read that of a dead server.             *)
StaleIsDead == \A c \in Commands : pc[c] = "clear" => ~Live(pid[c])

(* A start has the state directory for itself.                             *)
Alone ==
  \A c, b \in Commands : op[c] = "start" /\ b # c => op[b] = "none"

(* The record that a command has read is still there, if any is.           *)
AsRead ==
  \A c \in Commands :
    pc[c] \in {"check", "clear", "kill", "down"} => file \in {pid[c], None}

(* A start spawns when there is no server, and waits for the only one.     *)
SpawnsFirst == \A c \in Commands : pc[c] = "spawn" => \A i \in Servers : ~Live(i)
OnlyChild ==
  \A c \in Commands, i \in Servers : pc[c] \in Spawned /\ Live(i) => i = pid[c]

Undisturbed == Alone /\ AsRead /\ SpawnsFirst /\ OnlyChild
IInv == /\ TypeOK /\ Born /\ StaleIsDead
        /\ ~disturbed => Undisturbed
        /\ Managed
-----------------------------------------------------------------------------
LEMMA InvInit == Init => IInv
<1> SUFFICES ASSUME Init PROVE IInv
  OBVIOUS
<1> USE DEF Init
<1>1. TypeOK
  BY DEF TypeOK, Stages, Spawned
<1>2. Born
  BY InstanceAssumption DEF Born
<1>3. \A i \in Servers : ~Live(i)
  BY DEF Live
<1>4. StaleIsDead /\ Undisturbed
  BY <1>3 DEF StaleIsDead, Undisturbed, Alone, AsRead, SpawnsFirst, OnlyChild,
              Spawned
<1> QED
  BY <1>1, <1>2, <1>3, <1>4 DEF IInv, Managed

LEMMA TypeStep == TypeOK /\ [Next]_vars => TypeOK'
<1> SUFFICES ASSUME TypeOK, [Next]_vars PROVE TypeOK'
  OBVIOUS
<1> USE InstanceAssumption DEF TypeOK, Stages, Spawned
<1>1. ASSUME NEW i \in Servers, Machine(i) PROVE TypeOK'
  BY <1>1 DEF Machine, Bind, Die, Reap, Reuse, OtherEnds, Become, cmdVars
<1>2. ASSUME NEW c \in Commands, NEW command \in {"start", "stop", "status"},
             Begin(c, command)
      PROVE  TypeOK'
  BY <1>2 DEF Begin
<1>3. ASSUME NEW c \in Commands, Interrupt(c) PROVE TypeOK'
  BY <1>3 DEF Interrupt, Exit
<1>4. ASSUME NEW c \in Commands, Step(c) PROVE TypeOK'
  <2>1. CASE ReadNothing(c)
    BY <2>1 DEF ReadNothing, Goto, Exit
  <2>2. CASE ReadRecord(c)
    BY <2>2 DEF ReadRecord, Goto
  <2>3. CASE CheckUp(c)
    BY <2>3 DEF CheckUp, Goto, Exit
  <2>4. CASE CheckDown(c)
    BY <2>4 DEF CheckDown, Goto
  <2>5. CASE Clear(c)
    BY <2>5 DEF Clear, Goto, Exit
  <2>6. ASSUME NEW i \in Servers, Spawn(c, i) PROVE TypeOK'
    BY <2>6 DEF Spawn, Goto
  <2>7. CASE ChildDied(c)
    BY <2>7 DEF ChildDied, Exit
  <2>8. CASE WaitOver(c) \/ Truncate(c)
    BY <2>8 DEF WaitOver, Truncate, Goto
  <2>9. CASE Write(c)
    BY <2>9 DEF Write, Exit
  <2>10. ASSUME NEW force \in BOOLEAN, Kill(c, force) PROVE TypeOK'
    BY <2>10 DEF Kill, Goto, Exit
  <2>11. CASE Down(c) \/ StillUp(c)
    BY <2>11 DEF Down, StillUp, Goto, Exit
  <2> QED
    BY <1>4, <2>1, <2>2, <2>3, <2>4, <2>5, <2>6, <2>7, <2>8, <2>9, <2>10, <2>11
       DEF Step
<1>5. CASE UNCHANGED vars
  BY <1>5 DEF vars, cmdVars
<1> QED
  BY <1>1, <1>2, <1>3, <1>4, <1>5 DEF Next

(* The file, the commands and the processes keep their types.              *)
THEOREM TypeCorrect == Spec => []TypeOK
<1>1. Init => TypeOK
  BY InvInit DEF IInv
<1> QED
  BY <1>1, TypeStep, PTL DEF Spec
-----------------------------------------------------------------------------
(* The machine revives nobody, and leaves file and commands alone.         *)
LEMMA MachineStep ==
  ASSUME TypeOK, NEW i \in Servers, Machine(i)
  PROVE  /\ file' = file /\ op' = op /\ pc' = pc /\ pid' = pid
         /\ disturbed' = disturbed
         /\ \A j \in Servers : Live(j)' => Live(j)
         /\ \A j \in Servers : process'[j] = "unborn" => process[j] = "unborn"
BY DEF TypeOK, Machine, Bind, Die, Reap, Reuse, OtherEnds, Become, cmdVars, Live

(* What a step of c does to the processes: no server comes to life but the *)
(* one that is spawned.                                                    *)
LEMMA CommandStep ==
  ASSUME TypeOK, NEW c \in Commands, Step(c)
  PROVE  /\ UNCHANGED disturbed
         /\ \A b \in Commands \ {c} :
              op'[b] = op[b] /\ pc'[b] = pc[b] /\ pid'[b] = pid[b]
         /\ \A j \in Servers : process'[j] = "unborn" => process[j] = "unborn"
         /\ \A j \in Servers :
              Live(j)' => \/ Live(j)
                          \/ process[j] = "unborn" /\ Spawn(c, j)
<1> USE DEF TypeOK, Live
<1>1. CASE ReadNothing(c) \/ ReadRecord(c) \/ CheckUp(c) \/ CheckDown(c)
  BY <1>1 DEF ReadNothing, ReadRecord, CheckUp, CheckDown, Goto, Exit
<1>2. CASE Clear(c)
  BY <1>2 DEF Clear, Goto, Exit
<1>3. ASSUME NEW i \in Servers, Spawn(c, i)
      PROVE  /\ UNCHANGED disturbed
             /\ \A b \in Commands \ {c} :
                  op'[b] = op[b] /\ pc'[b] = pc[b] /\ pid'[b] = pid[b]
             /\ \A j \in Servers : process'[j] = "unborn" => process[j] = "unborn"
             /\ \A j \in Servers :
                  Live(j)' => \/ Live(j)
                              \/ j = i /\ process[j] = "unborn"
  BY <1>3 DEF Spawn, Goto
<1>4. CASE ChildDied(c)
  BY <1>4 DEF ChildDied, Exit
<1>5. CASE WaitOver(c) \/ Truncate(c) \/ Write(c)
  BY <1>5 DEF WaitOver, Truncate, Write, Goto, Exit
<1>6. ASSUME NEW force \in BOOLEAN, Kill(c, force)
      PROVE  /\ UNCHANGED disturbed
             /\ \A b \in Commands \ {c} :
                  op'[b] = op[b] /\ pc'[b] = pc[b] /\ pid'[b] = pid[b]
             /\ \A j \in Servers : process'[j] = "unborn" => process[j] = "unborn"
             /\ \A j \in Servers : Live(j)' => Live(j)
  BY <1>6 DEF Kill, Goto, Exit
<1>7. CASE Down(c) \/ StillUp(c)
  BY <1>7 DEF Down, StillUp, Goto, Exit
<1> QED
  BY <1>1, <1>2, <1>3, <1>4, <1>5, <1>6, <1>7 DEF Step

LEMMA BornStep == TypeOK /\ Born /\ [Next]_vars => Born'
<1> SUFFICES ASSUME TypeOK, Born, [Next]_vars PROVE Born'
  OBVIOUS
<1>0. pid \in [Commands -> Servers \cup {None}]
  BY DEF TypeOK
<1>1. ASSUME NEW i \in Servers, Machine(i) PROVE Born'
  <2>1. /\ file' = file /\ pid' = pid
        /\ \A j \in Servers : process'[j] = "unborn" => process[j] = "unborn"
    BY <1>1, MachineStep
  <2> QED
    BY <1>0, <2>1 DEF Born
<1>2. ASSUME NEW c \in Commands, NEW command \in {"start", "stop", "status"},
             Begin(c, command)
      PROVE  Born'
  BY <1>2 DEF Begin, Born
<1>3. ASSUME NEW c \in Commands, Interrupt(c) PROVE Born'
  <2>1. /\ UNCHANGED <<file, process>>
        /\ \A b \in Commands : pid'[b] \in {pid[b], None}
    BY <1>0, <1>3 DEF Interrupt, Exit
  <2> QED
    BY <2>1 DEF Born
<1>4. ASSUME NEW c \in Commands, Step(c) PROVE Born'
  <2>1. \A j \in Servers : process'[j] = "unborn" => process[j] = "unborn"
    BY <1>4, CommandStep
  <2>2. \A b \in Commands \ {c} : pid'[b] = pid[b]
    BY <1>4, CommandStep
  <2>3. file' \in Servers => file' = file \/ file' = pid[c]
    BY <1>4, InstanceAssumption
       DEF Step, ReadNothing, ReadRecord, CheckUp, CheckDown, Clear, Spawn,
           ChildDied, WaitOver, Truncate, Write, Kill, Down, StillUp
  <2>4. CASE ReadRecord(c)
    BY <1>0, <2>1, <2>2, <2>3, <2>4, InstanceAssumption DEF ReadRecord, Born
  <2>5. ASSUME NEW i \in Servers, Spawn(c, i) PROVE Born'
    <3>1. process'[i] = "starting" /\ pid'[c] = i /\ file' = file
      BY <1>0, <2>5 DEF TypeOK, Spawn
    <3> QED
      BY <1>0, <2>1, <2>2, <3>1 DEF Born
  <2>6. ASSUME ~ReadRecord(c), ~\E i \in Servers : Spawn(c, i) PROVE Born'
    <3>1. pid'[c] \in {pid[c], None}
      BY <1>0, <1>4, <2>6
         DEF Step, ReadNothing, CheckUp, CheckDown, Clear, ChildDied, WaitOver,
             Truncate, Write, Kill, Down, StillUp, Exit
    <3> QED
      BY <1>0, <2>1, <2>2, <2>3, <3>1, InstanceAssumption DEF Born
  <2> QED
    BY <2>4, <2>5, <2>6
<1>5. CASE UNCHANGED vars
  BY <1>5 DEF vars, cmdVars, Born
<1> QED
  BY <1>1, <1>2, <1>3, <1>4, <1>5 DEF Next

LEMMA StaleStep == TypeOK /\ Born /\ StaleIsDead /\ [Next]_vars => StaleIsDead'
<1> SUFFICES ASSUME TypeOK, Born, StaleIsDead, [Next]_vars PROVE StaleIsDead'
  OBVIOUS
<1>0. \A c \in Commands : pc[c] = "clear" => pid[c] \in Servers
  BY DEF TypeOK
<1>1. ASSUME NEW i \in Servers, Machine(i) PROVE StaleIsDead'
  <2>1. /\ pc' = pc /\ pid' = pid
        /\ \A j \in Servers : Live(j)' => Live(j)
    BY <1>1, MachineStep
  <2> QED
    BY <1>0, <2>1 DEF StaleIsDead, Live
<1>2. ASSUME NEW c \in Commands, NEW command \in {"start", "stop", "status"},
             Begin(c, command)
      PROVE  StaleIsDead'
  BY <1>2 DEF TypeOK, Begin, StaleIsDead, Live
<1>3. ASSUME NEW c \in Commands, Interrupt(c) PROVE StaleIsDead'
  BY <1>3 DEF TypeOK, Interrupt, Exit, StaleIsDead, Live
<1>4. ASSUME NEW c \in Commands, Step(c) PROVE StaleIsDead'
  <2>1. ASSUME NEW b \in Commands \ {c}, pc'[b] = "clear" PROVE ~Live(pid[b])'
    <3>1. pc[b] = "clear" /\ pid'[b] = pid[b]
      BY <1>4, <2>1, CommandStep
    <3>2. process[pid[b]] # "unborn" /\ ~Live(pid[b])
      BY <1>0, <3>1, InstanceAssumption DEF Born, StaleIsDead
    <3> QED
      BY <1>0, <1>4, <3>1, <3>2, CommandStep DEF Live
  <2>2. ASSUME pc'[c] = "clear" PROVE ~Live(pid[c])'
    <3>1. CheckDown(c) \/ Down(c)
      BY <1>4, <2>2 DEF TypeOK, Step, ReadNothing, ReadRecord, CheckUp, Clear,
         Spawn, ChildDied, WaitOver, Truncate, Write, Kill, StillUp, Goto, Exit
    <3> QED
      BY <3>1 DEF TypeOK, CheckDown, Down, Catwalk, Alive, Live, Goto
  <2> QED
    BY <2>1, <2>2 DEF StaleIsDead
<1>5. CASE UNCHANGED vars
  BY <1>5 DEF vars, cmdVars, StaleIsDead, Live
<1> QED
  BY <1>1, <1>2, <1>3, <1>4, <1>5 DEF Next
-----------------------------------------------------------------------------
(* Managed and Undisturbed, without the flag.                              *)
Kept == Undisturbed /\ \A i \in Servers :
          Live(i) => \/ file = i
                     \/ \E c \in Commands : pc[c] \in Spawned /\ pid[c] = i

(* Where nobody is starting, a live server is the recorded one.            *)
LEMMA Recorded ==
  ASSUME TypeOK, Kept, NEW c \in Commands, pc[c] # "idle", pc[c] \notin Spawned
  PROVE  \A i \in Servers : Live(i) => file = i
<1> SUFFICES ASSUME NEW b \in Commands, pc[b] \in Spawned PROVE FALSE
  BY DEF Kept
<1>1. op[b] = "start" /\ op[c] # "none" /\ b # c
  BY DEF TypeOK
<1> QED
  BY <1>1 DEF Kept, Undisturbed, Alone

LEMMA KeptByMachine ==
  ASSUME TypeOK, Kept, NEW i \in Servers, Machine(i)
  PROVE  Kept'
<1>1. /\ file' = file /\ op' = op /\ pc' = pc /\ pid' = pid
      /\ \A j \in Servers : Live(j)' => Live(j)
  BY MachineStep
<1> QED
  BY <1>1 DEF Kept, Undisturbed, Alone, AsRead, SpawnsFirst, OnlyChild, Live,
              Spawned

LEMMA KeptByBegin ==
  ASSUME TypeOK, Kept, NEW c \in Commands,
         NEW command \in {"start", "stop", "status"}, Begin(c, command),
         ~disturbed'
  PROVE  Kept'
<1>1. /\ file' = file /\ process' = process /\ pid' = pid
      /\ op' = [op EXCEPT ![c] = command] /\ pc' = [pc EXCEPT ![c] = "read"]
      /\ pc[c] = "idle"
  BY DEF Begin
<1>2. /\ \A b \in Commands : op[b] # "start"
      /\ command = "start" => \A b \in Commands : op[b] = "none"
  BY DEF Begin
<1>3. \A b \in Commands \ {c} : op'[b] = op[b] /\ pc'[b] = pc[b]
  BY <1>1 DEF TypeOK
<1>4. op'[c] = command /\ pc'[c] = "read"
  BY <1>1 DEF TypeOK
<1>5. Alone'
  BY <1>2, <1>3, <1>4 DEF Alone
<1>6. (AsRead /\ SpawnsFirst /\ OnlyChild)'
  BY <1>1, <1>3, <1>4 DEF Kept, Undisturbed, AsRead, SpawnsFirst, OnlyChild,
                          Live, Spawned
<1> QED
  BY <1>1, <1>3, <1>5, <1>6 DEF Kept, Undisturbed, Live, Spawned

LEMMA KeptByInterrupt ==
  ASSUME TypeOK, Kept, NEW c \in Commands, Interrupt(c), ~disturbed'
  PROVE  Kept'
<1>1. file' = file /\ process' = process /\ pc[c] \notin Spawned
  BY DEF Interrupt
<1>2. \A b \in Commands \ {c} :
        op'[b] = op[b] /\ pc'[b] = pc[b] /\ pid'[b] = pid[b]
  BY DEF TypeOK, Interrupt, Exit
<1>3. op'[c] = "none" /\ pc'[c] = "idle"
  BY DEF TypeOK, Interrupt, Exit
<1> QED
  BY <1>1, <1>2, <1>3 DEF Kept, Undisturbed, Alone, AsRead, SpawnsFirst,
                          OnlyChild, Live, Spawned

LEMMA KeptByStep ==
  ASSUME TypeOK, Born, StaleIsDead, Kept, NEW c \in Commands, Step(c)
  PROVE  Kept'
<1> DEFINE Others == \A b \in Commands \ {c} :
                       op'[b] = op[b] /\ pc'[b] = pc[b] /\ pid'[b] = pid[b]
           NoneLive == \A j \in Servers : ~Live(j)
<1>1. Others
  BY CommandStep
<1>2. Alone'
  <2>1. op'[c] \in {op[c], "none"}
    BY DEF TypeOK, Step, ReadNothing, ReadRecord, CheckUp, CheckDown, Clear,
           Spawn, ChildDied, WaitOver, Truncate, Write, Kill, Down, StillUp,
           Goto, Exit
  <2> QED
    BY <1>1, <2>1 DEF Kept, Undisturbed, Alone
<1>3. ASSUME ~\E i \in Servers : Spawn(c, i)
      PROVE  \A j \in Servers : Live(j)' => Live(j)
  BY <1>3, CommandStep
<1> USE DEF Kept, Undisturbed, AsRead, SpawnsFirst, OnlyChild
<1>4. CASE ReadNothing(c)
  <2>1. process' = process /\ file' = file /\ file \notin Servers
        /\ pid'[c] \in {pid[c], None} /\ pc'[c] \in {"spawn", "idle"}
    BY <1>4, InstanceAssumption DEF TypeOK, ReadNothing, Goto, Exit
  <2>2. NoneLive
    BY <1>4, <2>1, Recorded DEF ReadNothing, Spawned
  <2> QED
    BY <1>1, <1>2, <2>1, <2>2 DEF Live, Spawned
<1>5. CASE ReadRecord(c)
  <2>1. process' = process /\ file' = file /\ pid'[c] = file
        /\ pc'[c] = "check" /\ pc[c] = "read"
    BY <1>5 DEF TypeOK, ReadRecord, Goto
  <2> QED
    BY <1>1, <1>2, <2>1 DEF Live, Spawned
<1>6. CASE CheckUp(c) \/ CheckDown(c) \/ Down(c) \/ StillUp(c)
  <2>1. process' = process /\ file' = file
        /\ pc[c] \in {"check", "down"} /\ pc'[c] \in {"kill", "clear", "idle"}
    BY <1>6 DEF TypeOK, CheckUp, CheckDown, Down, StillUp, Goto, Exit
  <2>2. pc'[c] # "idle" => pid'[c] = pid[c]
    BY <1>6 DEF TypeOK, CheckUp, CheckDown, Down, StillUp, Goto, Exit
  <2> QED
    BY <1>1, <1>2, <2>1, <2>2 DEF Live, Spawned
<1>7. CASE Clear(c)
  <2>1. process' = process /\ file' = None /\ pc[c] = "clear"
        /\ pc'[c] \in {"spawn", "idle"}
    BY <1>7 DEF TypeOK, Clear, Goto, Exit
  <2>2. NoneLive
    BY <2>1, Recorded, InstanceAssumption DEF StaleIsDead, Spawned
  <2> QED
    BY <1>1, <1>2, <2>1, <2>2 DEF Live, Spawned
<1>8. ASSUME NEW i \in Servers, Spawn(c, i) PROVE Kept'
  <2>1. file' = file /\ pid'[c] = i /\ pc'[c] = "wait" /\ pc[c] = "spawn"
        /\ process' = [process EXCEPT ![i] = "starting"]
    BY <1>8 DEF TypeOK, Spawn, Goto
  <2>2. NoneLive
    BY <2>1
  <2>3. \A j \in Servers : Live(j)' => j = i
    BY <2>1, <2>2 DEF TypeOK, Live
  <2>4. \A b \in Commands \ {c} : pc'[b] = "idle"
    <3>1. op[c] = "start"
      BY <2>1 DEF TypeOK
    <3> QED
      BY <1>1, <3>1 DEF TypeOK, Alone
  <2> QED
    BY <1>1, <1>2, <2>1, <2>3, <2>4 DEF Spawned
<1>9. CASE ChildDied(c)
  <2>1. file' = file /\ pc[c] = "wait" /\ pc'[c] = "idle" /\ ~Live(pid[c])
    BY <1>9 DEF TypeOK, ChildDied, Exit, Live
  <2>2. \A j \in Servers : Live(j)' => Live(j)
    BY <1>9 DEF TypeOK, ChildDied, Live
  <2> QED
    BY <1>1, <1>2, <2>1, <2>2 DEF Live, Spawned
<1>10. CASE WaitOver(c) \/ Truncate(c) \/ Write(c)
  <2>1. process' = process /\ pc[c] \in Spawned /\ op[c] = "start"
    BY <1>10 DEF TypeOK, WaitOver, Truncate, Write, Spawned
  <2>2. \A b \in Commands \ {c} : pc'[b] = "idle"
    BY <1>1, <2>1 DEF TypeOK, Alone
  <2>3. \/ pc'[c] \in Spawned /\ pid'[c] = pid[c]
        \/ pc'[c] = "idle" /\ file' = pid[c]
    BY <1>10 DEF TypeOK, WaitOver, Truncate, Write, Goto, Exit, Spawned
  <2> QED
    BY <1>1, <1>2, <2>1, <2>2, <2>3 DEF Live, Spawned
<1>11. ASSUME NEW force \in BOOLEAN, Kill(c, force) PROVE Kept'
  <2>1. file' = file /\ pc[c] = "kill" /\ pc'[c] \in {"down", "idle"}
    BY <1>11 DEF TypeOK, Kill, Goto, Exit
  <2>2. pc'[c] # "idle" => pid'[c] = pid[c]
    BY <1>11 DEF TypeOK, Kill, Goto, Exit
  <2>3. \A j \in Servers : Live(j)' => Live(j)
    BY <1>11 DEF TypeOK, Kill, Live
  <2> QED
    BY <1>1, <1>2, <2>1, <2>2, <2>3 DEF Live, Spawned
<1> QED
  BY <1>4, <1>5, <1>6, <1>7, <1>8, <1>9, <1>10, <1>11 DEF Step

LEMMA KeptStep ==
  ASSUME IInv, [Next]_vars, ~disturbed'
  PROVE  Kept'
<1>1. ~disturbed
  BY CommandStep, MachineStep DEF IInv, Next, vars, Begin, Interrupt
<1>2. TypeOK /\ Born /\ StaleIsDead /\ Kept
  BY <1>1 DEF IInv, Kept, Managed
<1>3. CASE UNCHANGED vars
  BY <1>2, <1>3 DEF vars, cmdVars, Kept, Undisturbed, Alone, AsRead,
                    SpawnsFirst, OnlyChild, Live, Spawned
<1> QED
  BY <1>2, <1>3, KeptByMachine, KeptByBegin, KeptByInterrupt, KeptByStep
     DEF Next

LEMMA InvHolds == Spec => []IInv
<1>1. IInv /\ [Next]_vars => IInv'
  BY TypeStep, BornStep, StaleStep, KeptStep DEF IInv, Kept, Managed
<1> QED
  BY InvInit, <1>1, PTL DEF Spec
-----------------------------------------------------------------------------
(* Every live server is known to stop and status, or about to be.          *)
THEOREM ServersAreManaged == Spec => []Managed
<1>1. IInv => Managed
  BY DEF IInv
<1> QED
  BY <1>1, InvHolds, PTL

(* Undisturbed, a state directory has one server at most.                  *)
THEOREM OneServer == Spec => []OneInstance
<1>1. IInv => OneInstance
  BY DEF IInv, Undisturbed, OnlyChild, Managed, OneInstance
<1> QED
  BY <1>1, InvHolds, PTL

(* A command never unlinks the record of a live server that it has read.   *)
THEOREM StaleRecordsOnly == Spec => ClearsTheDead
<1>1. IInv => \A c \in Commands : Clear(c) /\ file = pid[c] => ~Live(pid[c])
  BY DEF IInv, StaleIsDead, Clear
<1> QED
  BY <1>1, InvHolds, PTL DEF ClearsTheDead

(* What stop and status say of a server that is down is true.              *)
THEOREM DownIsDown == Spec => DownMeansDown
<1>1. IInv => \A c \in Commands : ~disturbed /\ SaysDown(c)
               => \A i \in Servers : ~Live(i)
  <2> SUFFICES ASSUME IInv, NEW c \in Commands, ~disturbed, SaysDown(c)
               PROVE  \A i \in Servers : ~Live(i)
    OBVIOUS
  <2>1. TypeOK /\ Kept /\ StaleIsDead
    BY DEF IInv, Kept, Managed
  <2>2. pc[c] \in {"clear", "read"}
    BY DEF SaysDown, Clear, ReadNothing
  <2>3. \A i \in Servers : Live(i) => file = i
    BY <2>1, <2>2, Recorded DEF Spawned
  <2>4. CASE Clear(c)
    BY <2>1, <2>3, <2>4, InstanceAssumption
       DEF Clear, Kept, Undisturbed, AsRead, StaleIsDead
  <2>5. CASE ReadNothing(c)
    BY <2>3, <2>5, InstanceAssumption DEF ReadNothing
  <2> QED
    BY <2>4, <2>5 DEF SaysDown
<1> QED
  BY <1>1, InvHolds, PTL DEF DownMeansDown
=============================================================================
