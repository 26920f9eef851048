--------------------------- MODULE TaskPoolProofs ---------------------------
(***************************************************************************)
(* Proofs about TaskPool for every set of tasks, templates and projects    *)
(* and every value of the limits.                                          *)
(***************************************************************************)
EXTENDS TaskPool, FiniteSetTheorems, TLAPS

(***************************************************************************)
(* The inductive invariant: what holds of the queue, of the message the    *)
(* locker has received and of the task the main loop is starting.          *)
(***************************************************************************)

\* No task is in the queue twice.
QueueDistinct ==
    \A i, j \in 1..Len(queue) : queue[i] = queue[j] => i = j

\* A task in the queue has not been started; only while the main loop is
\* between `go t.run()' and the removal of the head is the head running.
QueuedNotStarted ==
    \A i \in 1..Len(queue) :
        \/ pc[queue[i]] = "queued"
        \/ mainPc = "pop" /\ i = 1 /\ pc[queue[i]] \in RunPcs \cup {"save", "done"}

\* Whom the locker's message is about.
LockerMessage ==
    /\ lockerPc = "lock" =>
          \/ pc[lockerTask] \in RunPcs
          \/ mainPc = "spawn" /\ Head(queue) = lockerTask
    /\ lockerPc = "unlock" => pc[lockerTask] \in {"save", "done"}

\* The task that is about to be started has its lock, or is about to.
SpawnHasLock ==
    mainPc = "spawn" =>
        Head(queue) \in running \/ (lockerPc = "lock" /\ lockerTask = Head(queue))

LockInv ==
    /\ TypeOK
    /\ QueueDistinct
    /\ QueuedNotStarted
    /\ LockerMessage
    /\ SpawnHasLock
    /\ HeldWhileRunning
    /\ NoOrphanLock

-----------------------------------------------------------------------------
(***************************************************************************)
(* Type correctness.                                                       *)
(***************************************************************************)

\* SetStatus keeps the types of what it writes.
LEMMA SetStatusType ==
    ASSUME TypeOK, NEW t \in Task, NEW s \in TaskStatuses, SetStatus(t, s)
    PROVE  /\ status' \in [Task -> TaskStatuses]
           /\ save' \in [Task -> Copies]
           /\ raced' \subseteq Task
  BY DEF TypeOK, SetStatus, Assign, Copies

\* A save keeps the types.
LEMMA SaveType ==
    ASSUME TypeOK, NEW t \in Task
    PROVE  /\ TakeCopy(t) => raced' \subseteq Task
           /\ \A st \in TaskStatuses :
                 UpdateTask(t, st) => row' \in [Task -> TaskStatuses \cup {"absent"}]
  BY DEF TypeOK, TakeCopy, UpdateTask

\* AddTask, by whomever, keeps the types.
LEMMA CreateType ==
    ASSUME TypeOK, NEW t \in Task, NEW by \in Task \cup {NoTask}, Create(t, by)
    PROVE  /\ pc' \in [Task -> Pcs]
           /\ row' \in [Task -> TaskStatuses \cup {"absent"}]
           /\ parent' \in [Task -> Task \cup {NoTask}]
  BY DEF TypeOK, Create, Pcs, TaskStatuses

\* So do the steps of the main loop,
LEMMA MainType == TypeOK /\ Main => TypeOK'
<1> SUFFICES ASSUME TypeOK, Main PROVE TypeOK'
  OBVIOUS
<1>1. CASE Tick
  <2>1. queue # <<>> /\ Head(queue) \in Task /\ Tail(queue) \in Seq(Task)
    BY <1>1 DEF TypeOK, Tick
  <2>2. /\ queue' \in {queue, Tail(queue), Append(Tail(queue), Head(queue))}
        /\ mainPc' # "select" => queue' = queue
    BY <1>1 DEF Tick
  <2>3. queue' \in Seq(Task) /\ (mainPc' # "select" => queue' # <<>>)
    <3>1. Append(Tail(queue), Head(queue)) \in Seq(Task)
      BY <2>1
    <3> QED
      BY <2>1, <2>2, <3>1 DEF TypeOK
  <2>4. pc' \in [Task -> Pcs] /\ mainPc' \in {"select", "send"}
    BY <1>1, <2>1 DEF TypeOK, Tick, Pcs
  <2> QED
    BY <1>1, <2>3, <2>4 DEF TypeOK, Tick, db, lock
<1>2. CASE TickIdle
  BY <1>2 DEF TypeOK, TickIdle, vars
<1>3. CASE SendLock
  BY <1>3 DEF TypeOK, SendLock, db, run
<1>4. CASE Spawn
  BY <1>4 DEF TypeOK, Spawn, Pcs, RunPcs, db, lock
<1>5. CASE Pop
  BY <1>5 DEF TypeOK, Pop, db, lock, run
<1>6. ASSUME NEW t \in Task, Register(t) PROVE TypeOK'
  BY <1>6 DEF TypeOK, Register, Pcs, Copies, db, lock
<1>7. CASE RegisterCall \/ RegisterSave
  <2>1. queue # <<>> /\ queue \in Seq(Task)
    BY <1>7 DEF RegisterCall, RegisterSave, TypeOK
  <2>2. Registered \in Task
    <3>1. Len(queue) \in 1..Len(queue)
      BY <2>1
    <3> QED
      BY <2>1, <3>1 DEF Registered
  <2>3. CASE RegisterCall
    BY <2>2, <2>3, SaveType DEF TypeOK, RegisterCall, Copies, db, lock, run
  <2>4. CASE RegisterSave
    <3>1. row' \in [Task -> TaskStatuses \cup {"absent"}]
      BY <2>2, <2>4, SaveType DEF RegisterSave
    <3>2. up' \in BOOLEAN
      BY <2>4 DEF RegisterSave
    <3> QED
      BY <2>4, <3>1, <3>2 DEF TypeOK, RegisterSave, Copies, lock, run
  <2> QED
    BY <1>7, <2>3, <2>4
<1> QED
  BY <1>1, <1>2, <1>3, <1>4, <1>5, <1>6, <1>7 DEF Main, MainGoesOn, MainRegister

\* of the locker,
LEMMA LockerType == TypeOK /\ Locker => TypeOK'
  BY DEF TypeOK, Locker, LockerLock, LockerUnlock, db, main, lock, run

\* of the goroutine of a task,
LEMMA RunStepType ==
    ASSUME TypeOK, NEW t \in Task, RunStep(t) \/ PlaybookExit(t)
    PROVE  TypeOK'
<1>1. CASE RunBegin(t)
  BY <1>1, SetStatusType, ZenonT(40) DEF TypeOK, RunBegin, Pcs, RunPcs, db, main, lock, TaskStatuses
<1>2. CASE RunStarting(t)
  BY <1>2, SetStatusType DEF TypeOK, RunStarting, Pcs, RunPcs, db, main, lock, TaskStatuses
<1>3. CASE JobRun(t)
  BY <1>3, SetStatusType DEF TypeOK, JobRun, Pcs, RunPcs, db, main, lock, TaskStatuses
<1>4. CASE Prepare(t)
  BY <1>4 DEF TypeOK, Prepare, Pcs, RunPcs, db, main, lock
<1>5. CASE JobReturn(t)
  BY <1>5 DEF TypeOK, JobReturn, Pcs, RunPcs, db, main, lock
<1>6. CASE RunErr(t)
  BY <1>6, SetStatusType DEF TypeOK, RunErr, Pcs, RunPcs, db, main, lock, TaskStatuses
<1>7. CASE RunOk(t)
  <2>1. AutorunOf[TemplateOf[t]] \in SUBSET Template
    BY TaskPoolAssumption
  <2> QED
    BY <1>7, <2>1 DEF TypeOK, RunOk, Pcs, RunPcs, db, main, lock
<1>8. CASE RunSuccess(t)
  BY <1>8, SetStatusType DEF TypeOK, RunSuccess, Pcs, RunPcs, db, main, lock, TaskStatuses
<1>9. CASE AutorunDone(t)
  BY <1>9 DEF TypeOK, AutorunDone, Pcs, RunPcs, db, main, lock
<1>10. CASE SendUnlock(t)
  BY <1>10 DEF TypeOK, SendUnlock, Pcs, RunPcs, db, main
<1>11. CASE FinalSave(t)
  BY <1>11 DEF TypeOK, FinalSave, Pcs, Copies, db, main, lock
<1>12. ASSUME NEW c \in Task, AutorunAdd(t, c) PROVE TypeOK'
  <2>1. autorun' \in [Task -> SUBSET Template]
    BY <1>12 DEF TypeOK, AutorunAdd
  <2> QED
    BY <1>12, <2>1, CreateType DEF TypeOK, AutorunAdd, main, lock
<1>13. ASSUME NEW tpl \in Template, AutorunFail(t, tpl) PROVE TypeOK'
  <2>1. autorun' \in [Task -> SUBSET Template]
    BY <1>13 DEF TypeOK, AutorunFail
  <2> QED
    BY <1>13, <2>1 DEF TypeOK, AutorunFail, db, main, lock
<1>14. CASE PlaybookExit(t)
  BY <1>14 DEF TypeOK, PlaybookExit, db, main, lock
<1>15. CASE SaveCall(t)
  BY <1>15, SaveType DEF TypeOK, SaveCall, Copies, db, main, lock
<1>16. CASE SaveWrite(t)
  <2>1. row' \in [Task -> TaskStatuses \cup {"absent"}]
    BY <1>16, SaveType DEF SaveWrite
  <2>2. up' \in BOOLEAN
    BY <1>16 DEF SaveWrite
  <2> QED
    BY <1>16, <2>1, <2>2 DEF TypeOK, SaveWrite, Copies, main, lock
<1>17. CASE Details(t)
  <2>1. CASE UNCHANGED <<status, raced, save>>
    BY <1>17, <2>1 DEF TypeOK, Details, Pcs, db, main, lock
  <2>2. CASE SetStatus(t, "error")
    BY <1>17, <2>2, SetStatusType DEF TypeOK, Details, Pcs, TaskStatuses, db, main, lock
  <2> QED
    BY <1>17, <2>1, <2>2 DEF Details
<1> QED
  BY <1>1, <1>2, <1>3, <1>4, <1>5, <1>6, <1>7, <1>8, <1>9, <1>10, <1>11, <1>12,
     <1>13, <1>14, <1>15, <1>16, <1>17 DEF RunStep

\* A stop request that takes a step, and what it has changed besides.
LEMMA StopType ==
    ASSUME TypeOK, NEW s \in Stopper, NEW r \in StopRequest, stop' = [stop EXCEPT ![s] = r],
           UNCHANGED <<projMax, main, lock, pc, autorun, parent, save>>,
           row' \in [Task -> TaskStatuses \cup {"absent"}], up' = up,
           status' \in [Task -> TaskStatuses], raced' \subseteq Task,
           proc' \in [Task -> {"nil", "live", "ok", "failed"}]
    PROVE  TypeOK'
<1>1. stop' \in [Stopper -> StopRequest]
  BY DEF TypeOK
<1> QED
  BY <1>1 DEF TypeOK, main, lock

\* What a stop request has at each of its steps.
LEMMA StopFacts ==
    ASSUME TypeOK, NEW s \in Stopper
    PROVE  /\ stop[s] \in StopRequest
           /\ stop[s].pc = "idle" => stop[s].task = NoTask /\ stop[s].copy = "none"
           /\ stop[s].copy # "none" => stop[s].pc = "save" /\ stop[s].task \in Task
           /\ stop[s].pc = "kill" => stop[s].task \in Task /\ stop[s].copy = "none"
<1>1. stop[s] \in StopRequest
  BY DEF TypeOK
<1> QED
  BY <1>1 DEF StopRequest, IdleStop, OverStop

\* of the requests,
LEMMA RequestType == TypeOK /\ Request => TypeOK'
<1> SUFFICES ASSUME TypeOK, Request PROVE TypeOK'
  OBVIOUS
<1>1. ASSUME NEW t \in Task, AddTask(t) PROVE TypeOK'
  BY <1>1, CreateType DEF TypeOK, AddTask, main, lock
<1>2. ASSUME NEW s \in Stopper, NEW t \in Task, StopShadow(s, t) PROVE TypeOK'
  <2> DEFINE r == [pc |-> "save", task |-> t, copy |-> "stopped", next |-> "over"]
  <2>1. r \in StopRequest
    BY DEF StopRequest, Copies, TaskStatuses
  <2>2. stop' = [stop EXCEPT ![s] = r]
    BY <1>2 DEF StopShadow
  <2>3. UNCHANGED <<db, main, lock, run, raced>>
    BY <1>2 DEF StopShadow
  <2> QED
    BY <2>1, <2>2, <2>3, StopType DEF run, db, TypeOK
<1>3. ASSUME NEW s \in Stopper, NEW t \in Task, NEW force \in BOOLEAN, StopActive(s, t, force)
      PROVE  TypeOK'
  <2> DEFINE r == [pc |-> "save", task |-> t, copy |-> "call",
                   next |-> IF status[t] = "running" THEN "kill" ELSE "over"]
  <2>1. r \in StopRequest
    BY DEF StopRequest, Copies
  <2>2. stop' = [stop EXCEPT ![s] = r]
    BY <1>3 DEF StopActive
  <2>3. PICK new \in {"stopped", "stopping"} : Assign(t, new)
    BY <1>3 DEF StopActive
  <2>4. status' \in [Task -> TaskStatuses] /\ raced' \subseteq Task
    BY <2>3 DEF Assign, TypeOK, TaskStatuses
  <2>5. UNCHANGED <<db, main, lock, pc, proc, autorun, parent, save>>
    BY <1>3 DEF StopActive
  <2> QED
    BY <2>1, <2>2, <2>4, <2>5, StopType DEF db, TypeOK
<1>6. ASSUME NEW s \in Stopper, StopStep(s) PROVE TypeOK'
  <2> DEFINE t == stop[s].task
  <2>1. CASE StopCall(s)
    <3>1. t \in Task /\ stop[s].pc = "save" /\ stop[s] \in StopRequest
      BY <2>1, StopFacts DEF StopCall
    <3>2. status[t] \in TaskStatuses
      BY <3>1 DEF TypeOK
    <3> DEFINE r == [stop[s] EXCEPT !.copy = status[t]]
    <3>3. r \in StopRequest
      BY <3>1, <3>2 DEF StopRequest, IdleStop, OverStop, Copies, TaskStatuses
    <3>4. stop' = [stop EXCEPT ![s] = r]
      BY <2>1 DEF StopCall
    <3>5. raced' \subseteq Task
      BY <2>1, <3>1, SaveType DEF StopCall
    <3>6. UNCHANGED <<db, main, lock, run>>
      BY <2>1 DEF StopCall
    <3> QED
      BY <3>3, <3>4, <3>5, <3>6, StopType DEF run, db, TypeOK
  <2>2. CASE StopWrite(s)
    <3>1. t \in Task /\ stop[s].pc = "save" /\ stop[s] \in StopRequest
      BY <2>2, StopFacts DEF StopWrite, TaskStatuses
    <3>2. row' \in [Task -> TaskStatuses \cup {"absent"}]
      BY <2>2, <3>1, SaveType DEF StopWrite
    <3> DEFINE r == [stop[s] EXCEPT !.pc = "kill", !.copy = "none"]
    <3>3. stop[s].next = "kill" => r \in StopRequest
      BY <3>1 DEF StopRequest, IdleStop, OverStop
    <3>4. OverStop \in StopRequest
      BY DEF StopRequest
    <3>5. PICK q \in StopRequest : stop' = [stop EXCEPT ![s] = q]
      BY <2>2, <3>3, <3>4 DEF StopWrite
    <3>6. UNCHANGED <<up, projMax, main, lock, run, raced>>
      BY <2>2 DEF StopWrite
    <3> QED
      BY <3>2, <3>5, <3>6, StopType DEF run, TypeOK
  <2>3. CASE StopKill(s)
    <3>1. t \in Task
      BY <2>3, StopFacts DEF StopKill
    <3>2. proc' \in [Task -> {"nil", "live", "ok", "failed"}]
      BY <2>3, <3>1 DEF StopKill, TypeOK
    <3>3. OverStop \in StopRequest
      BY DEF StopRequest
    <3>4. stop' = [stop EXCEPT ![s] = OverStop]
      BY <2>3 DEF StopKill
    <3>5. UNCHANGED <<db, main, lock, pc, status, autorun, parent, save, raced>>
      BY <2>3 DEF StopKill
    <3> QED
      BY <3>2, <3>3, <3>4, <3>5, StopType DEF db, TypeOK
  <2> QED
    BY <1>6, <2>1, <2>2, <2>3 DEF StopStep
<1>4. ASSUME NEW t \in Task, RemoveTask(t) PROVE TypeOK'
  BY <1>4 DEF TypeOK, RemoveTask, main, lock, run
<1>5. ASSUME NEW p \in Project, UpdateProject(p) PROVE TypeOK'
  BY <1>5 DEF TypeOK, UpdateProject, main, lock, run
<1> QED
  BY <1>1, <1>2, <1>3, <1>4, <1>5, <1>6, TaskPoolAssumption DEF Request

\* and hence all steps.
LEMMA TypeStep == TypeOK /\ [Next]_vars => TypeOK'
<1> SUFFICES ASSUME TypeOK, [Next]_vars PROVE TypeOK'
  OBVIOUS
<1>1. CASE Crash
  BY <1>1 DEF TypeOK, Crash, main, lock, run
<1>2. CASE Restart
  <2>1. IdleStop \in StopRequest /\ OverStop \in StopRequest
    BY DEF StopRequest
  <2>2. stop' \in [Stopper -> StopRequest]
    BY <1>2, <2>1 DEF Restart
  <2>3. pc' \in [Task -> Pcs] /\ status' \in [Task -> TaskStatuses] /\ save' \in [Task -> Copies]
    BY <1>2 DEF Restart, Pcs, TaskStatuses, Copies
  <2> QED
    BY <1>2, <2>2, <2>3 DEF TypeOK, Restart, Copies
<1>3. CASE UNCHANGED vars
  BY <1>3 DEF TypeOK, vars
<1> QED
  BY <1>1, <1>2, <1>3, MainType, LockerType, RunStepType, RequestType DEF Next

\* The pool begins with proper types.
LEMMA InitType == Init => TypeOK
<1> SUFFICES ASSUME Init PROVE TypeOK
  OBVIOUS
<1>1. IdleStop \in StopRequest
  BY DEF StopRequest
<1>2. stop \in [Stopper -> StopRequest]
  BY <1>1 DEF Init
<1> QED
  BY <1>2 DEF Init, TypeOK, Pcs, TaskStatuses, Copies

\* Every variable keeps its type, and the main loop is never past its select
\* with an empty queue (TaskPool.Run reads queue[0] there).
THEOREM TypeCorrect == Spec => []TypeOK
<1>1. Init => TypeOK
  BY InitType
<1>2. TypeOK /\ [Next]_vars => TypeOK'
  BY TypeStep
<1> QED
  BY <1>1, <1>2, PTL DEF Spec

-----------------------------------------------------------------------------
(***************************************************************************)
(* A run of a task is covered by the lock of its template.                 *)
(***************************************************************************)

\* What is left of a queue without duplicates when its head is removed, and
\* where the head goes when it is moved to the end.
LEMMA TailFacts ==
    ASSUME NEW q \in Seq(Task), q # <<>>
    PROVE  /\ Head(q) = q[1] /\ Head(q) \in Task /\ 1 \in 1..Len(q)
           /\ Tail(q) \in Seq(Task) /\ Len(Tail(q)) = Len(q) - 1
           /\ \A i \in 1..Len(Tail(q)) : Tail(q)[i] = q[i + 1] /\ i + 1 \in 1..Len(q)
  OBVIOUS

\* The task at the end of the queue, and those before it.
LEMMA AppendFacts ==
    ASSUME NEW q \in Seq(Task), NEW t \in Task
    PROVE  /\ Append(q, t) \in Seq(Task) /\ Len(Append(q, t)) = Len(q) + 1
           /\ \A i \in 1..Len(q) : Append(q, t)[i] = q[i]
           /\ Append(q, t)[Len(q) + 1] = t
  OBVIOUS

\* A step that leaves the main loop and the locker alone and moves one task
\* from one part of its life to the next.
LEMMA PcMove ==
    ASSUME LockInv, TypeOK', UNCHANGED <<main, lock>>, NEW t \in Task, NEW v,
           pc' = [pc EXCEPT ![t] = v],
           \/ pc[t] \in RunPcs /\ v \in RunPcs
           \/ pc[t] = "none" /\ v = "details"
           \/ pc[t] = "details" /\ v \in {"created", "rejected"}
           \/ pc[t] = "save" /\ v = "done"
    PROVE  LockInv'
<1>0. /\ mainPc' = mainPc /\ queue' = queue /\ lockerPc' = lockerPc
      /\ lockerTask' = lockerTask /\ running' = running
  BY DEF main, lock
<1>1. QueueDistinct'
  BY <1>0 DEF LockInv, QueueDistinct
<1>2. QueuedNotStarted'
  BY <1>0 DEF LockInv, QueuedNotStarted, TypeOK, RunPcs
<1>3. LockerMessage'
  BY <1>0 DEF LockInv, LockerMessage, TypeOK, RunPcs
<1>4. SpawnHasLock'
  BY <1>0 DEF LockInv, SpawnHasLock
<1>5. HeldWhileRunning'
  BY <1>0 DEF LockInv, HeldWhileRunning, TypeOK, RunPcs
<1>6. NoOrphanLock'
  BY <1>0 DEF LockInv, NoOrphanLock, TypeOK, RunPcs
<1> QED
  BY <1>1, <1>2, <1>3, <1>4, <1>5, <1>6 DEF LockInv

\* A step that touches none of what the invariant speaks about.
LEMMA LockFrame ==
    ASSUME LockInv, TypeOK', UNCHANGED <<mainPc, queue, lock, pc>>
    PROVE  LockInv'
  BY DEF LockInv, QueueDistinct, QueuedNotStarted, LockerMessage, SpawnHasLock,
         HeldWhileRunning, NoOrphanLock, lock

\* The main loop keeps LockInv: it accepts a head, sends its lock, starts it and
\* removes it.
LEMMA MainLock == LockInv /\ TypeOK' /\ Main => LockInv'
<1> SUFFICES ASSUME LockInv, TypeOK', Main PROVE LockInv'
  OBVIOUS
<1> USE DEF LockInv
<1>1. CASE Tick
  <2> DEFINE t == Head(queue)
  <2>0. /\ mainPc = "select" /\ queue # <<>> /\ queue \in Seq(Task) /\ pc \in [Task -> Pcs]
        /\ lockerPc' = lockerPc /\ lockerTask' = lockerTask /\ running' = running
    BY <1>1 DEF Tick, TypeOK, lock
  <2>1. pc[t] = "queued" /\ t \in Task
    BY <2>0, TailFacts DEF QueuedNotStarted
  <2>2. mainPc' \in {"select", "send"}
    BY <1>1, <2>0 DEF Tick
  <2>3. CASE queue' = queue /\ pc' = pc
    BY <2>0, <2>2, <2>3 DEF QueueDistinct, QueuedNotStarted, LockerMessage, SpawnHasLock,
       HeldWhileRunning, NoOrphanLock
  <2>4. CASE queue' = Append(Tail(queue), t) /\ pc' = pc
    <3>0. /\ Len(queue) \in Nat /\ Len(queue) > 0 /\ Len(queue') = Len(queue)
          /\ queue'[Len(queue)] = queue[1]
          /\ \A i \in 1..(Len(queue) - 1) : queue'[i] = queue[i + 1]
      <4>1. /\ Tail(queue) \in Seq(Task) /\ Len(Tail(queue)) = Len(queue) - 1 /\ t = queue[1]
            /\ \A i \in 1..Len(Tail(queue)) : Tail(queue)[i] = queue[i + 1]
        BY <2>0, TailFacts
      <4>2. /\ Len(queue') = Len(Tail(queue)) + 1
            /\ \A i \in 1..Len(Tail(queue)) : queue'[i] = Tail(queue)[i]
            /\ queue'[Len(Tail(queue)) + 1] = t
        BY <2>1, <2>4, <4>1, AppendFacts
      <4>3. Len(queue) \in Nat /\ Len(queue) > 0
        BY <2>0
      <4>4. Len(queue') = Len(queue) /\ queue'[Len(queue)] = queue[1]
        BY <4>1, <4>2, <4>3
      <4>5. \A i \in 1..(Len(queue) - 1) : queue'[i] = queue[i + 1]
        BY <4>1, <4>2
      <4> QED
        BY <4>3, <4>4, <4>5
    <3>1. QueueDistinct'
      BY <2>0, <3>0 DEF QueueDistinct
    <3>2. QueuedNotStarted'
      <4> SUFFICES ASSUME NEW i \in 1..Len(queue') PROVE pc'[queue'[i]] = "queued"
        BY DEF QueuedNotStarted
      <4>1. CASE i = Len(queue)
        BY <2>0, <2>4, <3>0, <4>1 DEF QueuedNotStarted
      <4>2. CASE i # Len(queue)
        <5>1. i \in 1..(Len(queue) - 1) /\ i + 1 \in 1..Len(queue)
          BY <3>0, <4>2
        <5> QED
          BY <2>0, <2>4, <3>0, <5>1 DEF QueuedNotStarted
      <4> QED
        BY <4>1, <4>2
    <3> QED
      BY <2>0, <2>2, <2>4, <3>1, <3>2 DEF LockerMessage, SpawnHasLock, HeldWhileRunning,
         NoOrphanLock
  <2>5. CASE queue' = Tail(queue) /\ pc' = [pc EXCEPT ![t] = "dropped"]
    <3>0. \A i \in 1..Len(queue') : queue'[i] = queue[i + 1] /\ i + 1 \in 1..Len(queue)
      BY <2>0, <2>5, TailFacts
    <3>1. QueueDistinct'
      BY <2>0, <3>0 DEF QueueDistinct
    <3>2. QueuedNotStarted'
      <4> SUFFICES ASSUME NEW i \in 1..Len(queue') PROVE pc'[queue'[i]] = "queued"
        BY DEF QueuedNotStarted
      <4>1. queue'[i] = queue[i + 1] /\ i + 1 \in 1..Len(queue) /\ 1 \in 1..Len(queue)
        BY <2>0, <3>0, TailFacts
      <4>2. queue[i + 1] # queue[1] /\ t = queue[1]
        BY <2>0, <4>1, TailFacts DEF QueueDistinct
      <4>3. queue[i + 1] \in Task /\ pc[queue[i + 1]] = "queued"
        BY <2>0, <4>1 DEF QueuedNotStarted
      <4> QED
        BY <2>0, <2>5, <4>1, <4>2, <4>3
    <3>3. LockerMessage' /\ SpawnHasLock'
      BY <2>0, <2>1, <2>2, <2>5 DEF LockerMessage, SpawnHasLock, TypeOK, RunPcs
    <3>4. HeldWhileRunning' /\ NoOrphanLock'
      BY <2>0, <2>1, <2>2, <2>5 DEF HeldWhileRunning, NoOrphanLock, TypeOK, RunPcs
    <3> QED
      BY <3>1, <3>2, <3>3, <3>4
  <2> QED
    BY <1>1, <2>3, <2>4, <2>5 DEF Tick
<1>2. CASE TickIdle
  BY <1>2, LockFrame DEF TickIdle, vars, main, lock
<1>3. CASE SendLock
  <2>1. /\ queue' = queue /\ pc' = pc /\ running' = running /\ mainPc' = "spawn"
        /\ lockerPc = "idle" /\ lockerPc' = "lock" /\ lockerTask' = Head(queue)
        /\ mainPc = "send"
    BY <1>3 DEF SendLock, run
  <2>2. QueueDistinct' /\ LockerMessage' /\ SpawnHasLock'
    BY <2>1 DEF QueueDistinct, LockerMessage, SpawnHasLock
  <2>3. QueuedNotStarted'
    BY <2>1 DEF QueuedNotStarted
  <2>4. HeldWhileRunning' /\ NoOrphanLock'
    BY <2>1 DEF HeldWhileRunning, NoOrphanLock
  <2> QED
    BY <2>2, <2>3, <2>4
<1>4. CASE Spawn
  <2>1. /\ queue' = queue /\ pc' = [pc EXCEPT ![Head(queue)] = "begin"]
        /\ running' = running /\ lockerPc' = lockerPc /\ lockerTask' = lockerTask
        /\ mainPc = "spawn" /\ mainPc' = "pop"
        /\ queue \in Seq(Task) /\ queue # <<>> /\ pc \in [Task -> Pcs]
    BY <1>4 DEF Spawn, lock, TypeOK
  <2>2. Head(queue) = queue[1] /\ Head(queue) \in Task /\ pc[Head(queue)] = "queued"
    BY <2>1, TailFacts DEF QueuedNotStarted
  <2>3. QueueDistinct'
    BY <2>1 DEF QueueDistinct
  <2>4. QueuedNotStarted'
    BY <2>1, <2>2 DEF QueuedNotStarted, QueueDistinct, RunPcs
  <2>5. LockerMessage' /\ SpawnHasLock'
    BY <2>1, <2>2 DEF LockerMessage, SpawnHasLock, TypeOK, RunPcs
  <2>6. HeldWhileRunning'
    BY <2>1, <2>2 DEF HeldWhileRunning, SpawnHasLock
  <2>7. NoOrphanLock'
    BY <2>1, <2>2 DEF NoOrphanLock, TypeOK, RunPcs
  <2> QED
    BY <2>3, <2>4, <2>5, <2>6, <2>7
<1>5. CASE Pop
  <2>1. /\ queue' = Tail(queue) /\ pc' = pc /\ running' = running
        /\ lockerPc' = lockerPc /\ lockerTask' = lockerTask
        /\ mainPc = "pop" /\ mainPc' = "select" /\ queue \in Seq(Task) /\ queue # <<>>
    BY <1>5 DEF Pop, lock, run, TypeOK
  <2>2. \A i \in 1..Len(queue') : queue'[i] = queue[i + 1] /\ i + 1 \in 1..Len(queue)
    BY <2>1, TailFacts
  <2>3. QueueDistinct'
    BY <2>1, <2>2 DEF QueueDistinct
  <2>4. QueuedNotStarted'
    BY <2>1, <2>2 DEF QueuedNotStarted
  <2>5. LockerMessage' /\ SpawnHasLock' /\ HeldWhileRunning' /\ NoOrphanLock'
    BY <2>1 DEF LockerMessage, SpawnHasLock, HeldWhileRunning, NoOrphanLock
  <2> QED
    BY <2>3, <2>4, <2>5
<1>6. ASSUME NEW t \in Task, Register(t) PROVE LockInv'
  <2>1. /\ queue' = Append(queue, t) /\ pc' = [pc EXCEPT ![t] = "queued"] /\ pc[t] = "created"
        /\ running' = running /\ lockerPc' = lockerPc /\ lockerTask' = lockerTask
        /\ mainPc = "select" /\ mainPc' = "register" /\ queue \in Seq(Task) /\ pc \in [Task -> Pcs]
    BY <1>6 DEF Register, lock, TypeOK
  <2>2. /\ Len(queue') = Len(queue) + 1
        /\ \A i \in 1..Len(queue) : queue'[i] = queue[i] /\ queue[i] \in Task
        /\ queue'[Len(queue) + 1] = t
    BY <2>1, AppendFacts
  <2>3. \A i \in 1..Len(queue) : pc[queue[i]] = "queued" /\ queue[i] # t
    BY <2>1, <2>2 DEF QueuedNotStarted
  <2>4. QueueDistinct'
    BY <2>1, <2>2, <2>3 DEF QueueDistinct
  <2>5. QueuedNotStarted'
    BY <2>1, <2>2, <2>3 DEF QueuedNotStarted
  <2>6. LockerMessage' /\ SpawnHasLock'
    BY <2>1 DEF LockerMessage, SpawnHasLock, TypeOK, RunPcs
  <2>7. HeldWhileRunning' /\ NoOrphanLock'
    BY <2>1 DEF HeldWhileRunning, NoOrphanLock, TypeOK, RunPcs
  <2> QED
    BY <2>4, <2>5, <2>6, <2>7
<1>7. CASE RegisterCall
  BY <1>7, LockFrame DEF RegisterCall, run
<1>8. CASE RegisterSave
  <2>1. /\ queue' = queue /\ pc' = pc /\ running' = running /\ lockerPc' = lockerPc
        /\ lockerTask' = lockerTask /\ mainPc = "register" /\ mainPc' = "select"
    BY <1>8 DEF RegisterSave, lock, run
  <2> QED
    BY <2>1 DEF QueueDistinct, QueuedNotStarted, LockerMessage, SpawnHasLock, HeldWhileRunning,
       NoOrphanLock
<1> QED
  BY <1>1, <1>2, <1>3, <1>4, <1>5, <1>6, <1>7, <1>8 DEF Main, MainGoesOn, MainRegister

\* The locker keeps it: the message it handles is about a task with a goroutine.
LEMMA LockerLockInv == LockInv /\ TypeOK' /\ Locker => LockInv'
<1> SUFFICES ASSUME LockInv, TypeOK', Locker PROVE LockInv'
  OBVIOUS
<1> USE DEF LockInv
<1>1. CASE LockerLock /\ UNCHANGED lock
  BY <1>1, LockFrame DEF LockerLock, main, run
<1>2. CASE LockerLock /\ running' = running \cup {lockerTask} /\ lockerPc' = "idle"
  <2>1. /\ mainPc' = mainPc /\ queue' = queue /\ pc' = pc /\ lockerPc = "lock"
    BY <1>2 DEF LockerLock, main, run
  <2>2. QueueDistinct' /\ QueuedNotStarted' /\ LockerMessage' /\ SpawnHasLock'
    BY <1>2, <2>1 DEF QueueDistinct, QueuedNotStarted, LockerMessage, SpawnHasLock
  <2>3. HeldWhileRunning'
    BY <1>2, <2>1 DEF HeldWhileRunning
  <2>4. NoOrphanLock'
    BY <1>2, <2>1 DEF NoOrphanLock, LockerMessage
  <2> QED
    BY <2>2, <2>3, <2>4
<1>3. CASE LockerUnlock
  <2>1. /\ mainPc' = mainPc /\ queue' = queue /\ pc' = pc /\ lockerPc = "unlock"
        /\ lockerPc' = "idle" /\ running' = running \ {lockerTask}
        /\ pc[lockerTask] \in {"save", "done"}
    BY <1>3 DEF LockerUnlock, main, run, LockerMessage
  <2>2. mainPc = "spawn" => pc[Head(queue)] = "queued"
    BY TailFacts DEF TypeOK, QueuedNotStarted
  <2>3. QueueDistinct' /\ QueuedNotStarted' /\ LockerMessage' /\ SpawnHasLock'
    BY <2>1, <2>2 DEF QueueDistinct, QueuedNotStarted, LockerMessage, SpawnHasLock
  <2>4. HeldWhileRunning' /\ NoOrphanLock'
    BY <2>1 DEF HeldWhileRunning, NoOrphanLock, RunPcs
  <2> QED
    BY <2>3, <2>4
<1> QED
  BY <1>1, <1>2, <1>3 DEF Locker, LockerLock

\* The goroutine of a task keeps it up to the unlock it sends.
LEMMA RunStepLock ==
    ASSUME LockInv, TypeOK', NEW t \in Task, RunStep(t) \/ PlaybookExit(t)
    PROVE  LockInv'
<1>0. pc \in [Task -> Pcs]
  BY DEF LockInv, TypeOK
<1>1. CASE RunBegin(t)
  BY <1>1, PcMove DEF RunBegin, At, RunPcs, main, lock
<1>2. CASE RunStarting(t)
  BY <1>2, PcMove DEF RunStarting, At, RunPcs, main, lock
<1>3. CASE JobRun(t)
  BY <1>3, PcMove DEF JobRun, At, RunPcs, main, lock
<1>4. CASE Prepare(t)
  BY <1>4, PcMove DEF Prepare, At, RunPcs, main, lock
<1>5. CASE JobReturn(t)
  BY <1>5, PcMove DEF JobReturn, At, RunPcs, main, lock
<1>6. CASE RunErr(t)
  BY <1>6, PcMove DEF RunErr, At, RunPcs, main, lock
<1>7. CASE RunOk(t)
  BY <1>7, PcMove DEF RunOk, At, RunPcs, main, lock
<1>8. CASE RunSuccess(t)
  BY <1>8, PcMove DEF RunSuccess, At, RunPcs, main, lock
<1>9. CASE AutorunDone(t)
  BY <1>9, PcMove DEF AutorunDone, At, RunPcs, main, lock
<1>10. CASE SendUnlock(t)
  <2>1. /\ mainPc' = mainPc /\ queue' = queue /\ running' = running
        /\ pc' = [pc EXCEPT ![t] = "save"] /\ pc[t] = "unlock" /\ lockerPc = "idle"
        /\ lockerPc' = "unlock" /\ lockerTask' = t
    BY <1>10 DEF SendUnlock, At, main
  <2>2. QueueDistinct' /\ QueuedNotStarted'
    BY <1>0, <2>1 DEF LockInv, QueueDistinct, QueuedNotStarted
  <2>3. LockerMessage' /\ SpawnHasLock'
    BY <1>0, <2>1 DEF LockInv, LockerMessage, SpawnHasLock
  <2>4. HeldWhileRunning' /\ NoOrphanLock'
    BY <1>0, <2>1 DEF LockInv, HeldWhileRunning, NoOrphanLock, TypeOK, RunPcs
  <2> QED
    BY <2>2, <2>3, <2>4 DEF LockInv
<1>11. CASE FinalSave(t)
  BY <1>11, PcMove DEF FinalSave, At, main, lock
<1>12. ASSUME NEW c \in Task, AutorunAdd(t, c) PROVE LockInv'
  BY <1>12, PcMove DEF AutorunAdd, Create, main, lock
<1>13. ASSUME NEW tpl \in Template, AutorunFail(t, tpl) PROVE LockInv'
  BY <1>13, LockFrame DEF AutorunFail, main, lock
<1>14. CASE PlaybookExit(t)
  BY <1>14, LockFrame DEF PlaybookExit, main, lock
<1>15. CASE SaveCall(t) \/ SaveWrite(t)
  BY <1>15, LockFrame DEF SaveCall, SaveWrite, main, lock
<1>16. CASE Details(t)
  BY <1>16, PcMove DEF Details, main, lock
<1> QED
  BY <1>1, <1>2, <1>3, <1>4, <1>5, <1>6, <1>7, <1>8, <1>9, <1>10, <1>11, <1>12,
     <1>13, <1>14, <1>15, <1>16 DEF RunStep

\* Every step keeps it.
LEMMA LockStep == LockInv /\ [Next]_vars => LockInv'
<1> SUFFICES ASSUME LockInv, [Next]_vars PROVE LockInv'
  OBVIOUS
<1>0. TypeOK'
  BY TypeStep DEF LockInv
<1>1. CASE Request
  <2>1. ASSUME NEW t \in Task, AddTask(t) PROVE LockInv'
    BY <1>0, <2>1, PcMove DEF AddTask, Create, main, lock
  <2>2. CASE UNCHANGED <<main, lock, pc>>
    BY <1>0, <2>2, LockFrame DEF main
  <2> QED
    BY <1>1, <2>1, <2>2, TaskPoolAssumption DEF Request, StopShadow, StopActive, StopStep,
       StopCall, StopWrite, StopKill, RemoveTask, UpdateProject, run
<1>2. CASE Crash
  BY <1>0, <1>2, LockFrame DEF Crash, main, run
<1>3. CASE Restart
  <2>1. /\ queue' = <<>> /\ mainPc' = "select" /\ lockerPc' = "idle" /\ running' = {}
        /\ \A t \in Task : pc'[t] \notin RunPcs
    BY <1>3 DEF Restart, RunPcs
  <2> QED
    BY <1>0, <2>1 DEF LockInv, QueueDistinct, QueuedNotStarted, LockerMessage, SpawnHasLock,
       HeldWhileRunning, NoOrphanLock
<1>4. CASE UNCHANGED vars
  BY <1>0, <1>4, LockFrame DEF vars, main, lock
<1> QED
  BY <1>0, <1>1, <1>2, <1>3, <1>4, MainLock, LockerLockInv, RunStepLock DEF Next

\* The pool begins with an empty queue and without locks.
LEMMA InitLock == Init => LockInv
<1> SUFFICES ASSUME Init PROVE LockInv
  OBVIOUS
<1>1. TypeOK
  BY InitType
<1>2. queue = <<>> /\ mainPc = "select" /\ lockerPc = "idle" /\ running = {}
      /\ \A t \in Task : pc[t] \notin RunPcs
  BY DEF Init, RunPcs
<1> QED
  BY <1>1, <1>2 DEF LockInv, QueueDistinct, QueuedNotStarted, LockerMessage, SpawnHasLock,
     HeldWhileRunning, NoOrphanLock

\* LockInv holds in every reachable state.
LEMMA LockInvariant == Spec => []LockInv
  BY InitLock, LockStep, PTL DEF Spec

\* From its first step to its unlock the goroutine of a task is covered by the
\* lock of its template, although TaskPool.Run starts it before the locker
\* has recorded the lock.
THEOREM RunsAreCovered == Spec => []HeldWhileRunning
<1>1. LockInv => HeldWhileRunning
  BY DEF LockInv
<1> QED
  BY <1>1, LockInvariant, PTL

\* No lock outlives the goroutine that has to release it.
THEOREM LocksHaveOwners == Spec => []NoOrphanLock
<1>1. LockInv => NoOrphanLock
  BY DEF LockInv
<1> QED
  BY <1>1, LockInvariant, PTL

-----------------------------------------------------------------------------
(***************************************************************************)
(* The locker implements the abstract lock manager, hence excludes.        *)
(***************************************************************************)

\* The re-check of blocks in the locker establishes what the abstract lock
\* manager demands of an acquisition, whatever GetProject answers.
LEMMA NotBlockedCompatible ==
    ASSUME TypeOK, NEW t \in Task, NEW err \in BOOLEAN, ~ Blocks(t, err)
    PROVE  Locks!Compatible(t)
<1>1. ASSUME NEW r \in running, TemplateOf[r] = TemplateOf[t] PROVE FALSE
  <2>1. r \in ActiveProj(ProjectID(t))
    BY <1>1 DEF ActiveProj, ProjectID
  <2> QED
    BY <1>1, <2>1 DEF Blocks
<1>2. running \subseteq Task /\ IsFiniteSet(running)
  BY TaskPoolAssumption, FS_Subset DEF TypeOK
<1>3. Cardinality(running) \in Nat
  BY <1>2, FS_CardinalityType
<1>4. MaxParallelTasks > 0 => Cardinality(running) < MaxParallelTasks
  BY <1>3, TaskPoolAssumption DEF Blocks
<1> QED
  BY <1>1, <1>4, Zenon DEF Locks!Compatible, Cardinality, Locks!Cardinality

\* The main loop does not change the set of held locks,
LEMMA MainKeepsRunning == Main => running' = running
  BY DEF Main, MainGoesOn, MainRegister, Tick, TickIdle, SendLock, Spawn, Pop, Register,
     RegisterCall, RegisterSave, lock, vars

\* nor do requests,
LEMMA RequestKeepsRunning == Request => running' = running
  BY DEF Request, AddTask, StopShadow, StopActive, StopStep, StopCall, StopWrite, StopKill,
     RemoveTask, UpdateProject, lock

\* nor the goroutines of the tasks.
LEMMA RunStepKeepsRunning ==
    ASSUME NEW t \in Task, RunStep(t) \/ PlaybookExit(t) PROVE running' = running
  BY DEF RunStep, RunBegin, RunStarting, JobRun, Prepare, JobReturn, RunErr, RunOk,
     RunSuccess, AutorunDone, SendUnlock, FinalSave, SaveCall, SaveWrite, Details, AutorunAdd,
     AutorunFail, PlaybookExit, lock

\* Only the locker goroutine and a restart change the set of held locks.
LEMMA LockSteps ==
    ASSUME TypeOK, [Next]_vars, running' # running
    PROVE  \/ \E t \in Task : Locks!Acquire(t) \/ Locks!Release(t)
           \/ Locks!Forget
<1>1. CASE LockerLock
  <2>1. PICK err \in StoreErr :
            ~ Blocks(lockerTask, err) /\ running' = running \cup {lockerTask}
    BY <1>1 DEF LockerLock, lock
  <2>2. lockerTask \in Task /\ err \in BOOLEAN
    BY <1>1, TaskPoolAssumption DEF LockerLock, TypeOK
  <2> QED
    BY <2>1, <2>2, NotBlockedCompatible DEF Locks!Acquire
<1>2. CASE LockerUnlock
  BY <1>2 DEF LockerUnlock, TypeOK, Locks!Release
<1>3. CASE Restart
  BY <1>3 DEF Restart, Locks!Forget
<1>4. CASE UNCHANGED vars \/ Crash
  BY <1>4 DEF vars, Crash, lock
<1>5. CASE Main
  BY <1>5, MainKeepsRunning
<1>6. CASE Request
  BY <1>6, RequestKeepsRunning
<1>7. ASSUME NEW t \in Task, RunStep(t) \/ PlaybookExit(t) PROVE FALSE
  BY <1>7, RunStepKeepsRunning
<1> QED
  BY <1>1, <1>2, <1>3, <1>4, <1>5, <1>6, <1>7 DEF Next, Locker

\* Every step of the pool is a step of the lock manager or none.
LEMMA RefineStep == TypeOK /\ [Next]_vars => [Locks!Next]_running
  BY LockSteps DEF Locks!Next

\* The pool begins as the lock manager does.
LEMMA RefineInit == Init => Locks!Init
  BY DEF Init, Locks!Init

\* The goroutines of the pool, with all their interleavings, panics and
\* restarts, implement the abstract lock manager of ResourceLocks.
THEOREM LockerRefinesLocks == Spec => LocksRefined
<1>1. Init => Locks!Init
  BY RefineInit
<1>2. TypeOK /\ [Next]_vars => [Locks!Next]_running
  BY RefineStep
<1> QED
  BY <1>1, <1>2, TypeCorrect, PTL DEF Spec, LocksRefined, Locks!Spec

\* The lock manager excludes, hence the pool does.
LEMMA ExclusionStep == TypeOK /\ LockExclusion /\ [Next]_vars => LockExclusion'
<1> SUFFICES ASSUME TypeOK, LockExclusion, [Next]_vars, running' # running
             PROVE  LockExclusion'
  BY DEF LockExclusion
<1>1. ASSUME NEW t \in Task, Locks!Acquire(t) PROVE LockExclusion'
  BY <1>1 DEF LockExclusion, Locks!Acquire, Locks!Compatible
<1>2. ASSUME NEW t \in Task, Locks!Release(t) PROVE LockExclusion'
  BY <1>2 DEF LockExclusion, Locks!Release
<1>3. CASE Locks!Forget
  BY <1>3 DEF LockExclusion, Locks!Forget
<1> QED
  BY <1>1, <1>2, <1>3, LockSteps

\* An acquisition adds one to less than the limit.
LEMMA LimitStep == TypeOK /\ TypeOK' /\ WithinLimit /\ [Next]_vars => WithinLimit'
<1> SUFFICES ASSUME TypeOK, TypeOK', WithinLimit, [Next]_vars, running' # running,
                    MaxParallelTasks > 0
             PROVE  Cardinality(running') <= MaxParallelTasks
  BY DEF WithinLimit
<1>0. /\ IsFiniteSet(running) /\ Cardinality(running) \in Nat
      /\ Cardinality(running) <= MaxParallelTasks /\ MaxParallelTasks \in Nat
  BY TaskPoolAssumption, FS_Subset, FS_CardinalityType DEF TypeOK, WithinLimit
<1>1. ASSUME NEW t \in Task, Locks!Acquire(t) PROVE Cardinality(running') <= MaxParallelTasks
  <2>1. Cardinality(running \cup {t}) = Cardinality(running) + 1 \/ t \in running
    BY <1>0, FS_AddElement
  <2>2. Cardinality(running) < MaxParallelTasks /\ running' = running \cup {t}
    BY <1>1, Zenon DEF Locks!Acquire, Locks!Compatible, Cardinality, Locks!Cardinality
  <2>3. t \notin running
    BY <2>2
  <2> QED
    BY <1>0, <2>1, <2>2, <2>3
<1>2. ASSUME NEW t \in Task, Locks!Release(t) PROVE Cardinality(running') <= MaxParallelTasks
  <2>1. running' \subseteq running
    BY <1>2 DEF Locks!Release
  <2>2. Cardinality(running') <= Cardinality(running) /\ Cardinality(running') \in Nat
    BY <1>0, <2>1, FS_Subset, FS_CardinalityType
  <2> QED
    BY <1>0, <2>2
<1>3. CASE Locks!Forget
  BY <1>0, <1>3, FS_EmptySet DEF Locks!Forget
<1> QED
  BY <1>1, <1>2, <1>3, LockSteps

\* Two tasks of one template never hold a lock together: the panic of the
\* locker is the price, not an exception.
THEOREM LockerExcludes == Spec => []LockExclusion
<1>1. Init => LockExclusion
  BY DEF Init, LockExclusion
<1>2. TypeOK /\ LockExclusion /\ [Next]_vars => LockExclusion'
  BY ExclusionStep
<1> QED
  BY <1>1, <1>2, TypeCorrect, PTL DEF Spec

\* The server-wide limit on parallel tasks is never exceeded.
THEOREM LimitRespected == Spec => []WithinLimit
<1>1. Init => WithinLimit
  BY FS_EmptySet, TaskPoolAssumption DEF Init, WithinLimit
<1>2. TypeOK /\ TypeOK' /\ WithinLimit /\ [Next]_vars => WithinLimit'
  BY LimitStep
<1> QED
  BY <1>1, <1>2, TypeCorrect, PTL DEF Spec

-----------------------------------------------------------------------------
(***************************************************************************)
(* Action properties.                                                      *)
(***************************************************************************)

\* Only Spawn starts a task, and the head of the queue is not started.
LEMMA StartedOnceStep ==
    ASSUME LockInv, [Next]_vars, NEW t \in Task, pc'[t] = "begin", pc[t] # "begin"
    PROVE  pc[t] = "queued"
<1>0. pc \in [Task -> Pcs] /\ queue \in Seq(Task)
  BY DEF LockInv, TypeOK
<1>1. CASE Spawn
  <2>1. pc[Head(queue)] = "queued"
    BY <1>0, <1>1, TailFacts DEF Spawn, LockInv, TypeOK, QueuedNotStarted
  <2> QED
    BY <1>0, <1>1, <2>1 DEF Spawn
<1>2. CASE Tick
  BY <1>0, <1>2 DEF Tick
<1>3. CASE SendLock \/ Pop \/ TickIdle \/ RegisterCall \/ RegisterSave \/ MainRegister
  BY <1>0, <1>3 DEF SendLock, Pop, TickIdle, RegisterCall, RegisterSave, MainRegister, Register,
     vars, run
<1>4. CASE Locker \/ Crash \/ UNCHANGED vars
  BY <1>4 DEF Locker, LockerLock, LockerUnlock, Crash, vars, run
<1>5. CASE Restart
  BY <1>5 DEF Restart
<1>6. CASE Request
  BY <1>0, <1>6 DEF Request, AddTask, Create, StopShadow, StopActive, StopStep, StopCall,
     StopWrite, StopKill, RemoveTask, UpdateProject, run
<1>7. ASSUME NEW u \in Task, RunStep(u) \/ PlaybookExit(u) PROVE FALSE
  <2>1. ASSUME NEW c \in Task, AutorunAdd(u, c) PROVE FALSE
    BY <1>0, <2>1 DEF AutorunAdd, Create
  <2> QED
    BY <1>0, <1>7, <2>1 DEF RunStep, RunBegin, RunStarting, JobRun, Prepare, JobReturn,
       RunErr, RunOk, RunSuccess, AutorunDone, SendUnlock, FinalSave, SaveCall, SaveWrite,
       Details, AutorunFail, PlaybookExit
<1> QED
  BY <1>1, <1>2, <1>3, <1>4, <1>5, <1>6, <1>7 DEF Next, Main, MainGoesOn

\* The main loop starts each task at most once.
THEOREM TasksStartOnce == Spec => StartedOnce
<1>1. LockInv /\ [Next]_vars =>
        [\A t \in Task : pc'[t] = "begin" /\ pc[t] # "begin" => pc[t] = "queued"]_vars
  BY StartedOnceStep
<1> QED
  BY <1>1, LockInvariant, PTL DEF Spec, StartedOnce

-----------------------------------------------------------------------------
(***************************************************************************)
(* The status of a runner along its run.                                   *)
(***************************************************************************)

Ended == {"stopped", "success", "error", "stopping"}

\* What the goroutine of t knows of its status at each point.
StatusAt(t) ==
    /\ pc[t] = "none" => status[t] = "waiting"
    /\ pc[t] = "starting" => status[t] \in {"starting", "stopping", "stopped"}
    /\ pc[t] \in {"preparing", "playbook", "ok", "setSuccess"} =>
          status[t] \in {"running", "stopping", "stopped"}
    /\ pc[t] \in {"autorun", "unlock", "save", "done"} => status[t] \in Ended

StatusInv == TypeOK /\ \A t \in Task : StatusAt(t)

\* A task whose program counter and status do not change.
LEMMA StatusFrame ==
    ASSUME NEW t \in Task, StatusAt(t), pc'[t] = pc[t], status'[t] = status[t]
    PROVE  StatusAt(t)'
  BY DEF StatusAt

\* The outcome of SetStatus for the task it is called on, and for the others.
LEMMA SetStatusEffect ==
    ASSUME TypeOK, NEW t \in Task, NEW s \in TaskStatuses, SetStatus(t, s)
    PROVE  /\ status'[t] = NextStatus(status[t], s)
           /\ \A u \in Task \ {t} : status'[u] = status[u]
  BY DEF TypeOK, SetStatus, Assign, NextStatus, Accepts

\* The goroutine of a task moves its status as StatusAt says.
LEMMA RunStepStatus ==
    ASSUME StatusInv, TypeOK', NEW t \in Task, RunStep(t) \/ PlaybookExit(t)
    PROVE  StatusInv'
<1>0. /\ TypeOK /\ StatusAt(t) /\ pc \in [Task -> Pcs]
      /\ status \in [Task -> TaskStatuses]
  BY DEF StatusInv, TypeOK
<1>1. ASSUME \A u \in Task \ {t} : pc'[u] = pc[u] /\ status'[u] = status[u],
             StatusAt(t)'
      PROVE  StatusInv'
  BY <1>1, StatusFrame DEF StatusInv
<1>2. CASE RunBegin(t)
  <2>1. CASE status[t] = "stopping"
    <3>1. SetStatus(t, "stopped") /\ pc' = [pc EXCEPT ![t] = "unlock"] /\ pc[t] = "begin"
      BY <1>2, <2>1 DEF RunBegin, At
    <3>2. "stopped" \in TaskStatuses
      BY DEF TaskStatuses
    <3> QED
      BY <1>0, <1>1, <3>1, <3>2, SetStatusEffect DEF StatusAt, NextStatus, Accepts, Ended
  <2>2. CASE status[t] # "stopping"
    BY <1>0, <1>1, <1>2, <2>2 DEF RunBegin, At, StatusAt
  <2> QED
    BY <2>1, <2>2
<1>3. CASE RunStarting(t)
  <2>1. "starting" \in TaskStatuses
    BY DEF TaskStatuses
  <2> QED
    BY <1>0, <1>1, <1>3, <2>1, SetStatusEffect DEF RunStarting, At, StatusAt, NextStatus, Accepts
<1>4. CASE JobRun(t)
  <2>1. "running" \in TaskStatuses
    BY DEF TaskStatuses
  <2> QED
    BY <1>0, <1>1, <1>4, <2>1, SetStatusEffect DEF JobRun, At, StatusAt, NextStatus, Accepts
<1>5. CASE RunErr(t)
  <2>1. "error" \in TaskStatuses
    BY DEF TaskStatuses
  <2> QED
    BY <1>0, <1>1, <1>5, <2>1, SetStatusEffect DEF RunErr, At, StatusAt, NextStatus, Accepts, Ended
<1>6. CASE RunSuccess(t)
  <2>1. "success" \in TaskStatuses
    BY DEF TaskStatuses
  <2> QED
    BY <1>0, <1>1, <1>6, <2>1, SetStatusEffect DEF RunSuccess, At, StatusAt, NextStatus, Accepts, Ended
<1>7. CASE Prepare(t) \/ JobReturn(t) \/ PlaybookExit(t)
  BY <1>0, <1>1, <1>7 DEF Prepare, JobReturn, PlaybookExit, At, StatusAt
<1>8. CASE RunOk(t)
  BY <1>0, <1>1, <1>8 DEF RunOk, At, StatusAt, Ended
<1>9. CASE AutorunDone(t) \/ SendUnlock(t)
  BY <1>0, <1>1, <1>9 DEF AutorunDone, SendUnlock, At, StatusAt
<1>10. CASE FinalSave(t)
  BY <1>0, <1>1, <1>10 DEF FinalSave, At, StatusAt
<1>11. ASSUME NEW c \in Task, AutorunAdd(t, c) PROVE StatusInv'
  <2>1. \A u \in Task \ {c} : pc'[u] = pc[u] /\ status'[u] = status[u]
    BY <1>0, <1>11 DEF AutorunAdd, Create
  <2>2. StatusAt(c)'
    BY <1>0, <1>11 DEF AutorunAdd, Create, StatusAt, StatusInv
  <2> QED
    BY <2>1, <2>2, StatusFrame DEF StatusInv
<1>12. ASSUME NEW tpl \in Template, AutorunFail(t, tpl) PROVE StatusInv'
  BY <1>12, StatusFrame DEF AutorunFail, StatusInv
<1>13. CASE SaveCall(t) \/ SaveWrite(t)
  BY <1>13, StatusFrame DEF SaveCall, SaveWrite, StatusInv
<1>14. CASE Details(t)
  <2>1. "error" \in TaskStatuses
    BY DEF TaskStatuses
  <2>2. \A u \in Task \ {t} : pc'[u] = pc[u] /\ status'[u] = status[u]
    BY <1>0, <1>14, <2>1, SetStatusEffect DEF Details
  <2>3. StatusAt(t)'
    BY <1>0, <1>14 DEF Details, StatusAt
  <2> QED
    BY <1>1, <2>2, <2>3
<1> QED
  BY <1>2, <1>3, <1>4, <1>5, <1>6, <1>7, <1>8, <1>9, <1>10, <1>11, <1>12,
     <1>13, <1>14 DEF RunStep

\* Every step keeps StatusInv, those of a stop at any point included.
LEMMA StatusStep == StatusInv /\ LockInv /\ [Next]_vars => StatusInv'
<1> SUFFICES ASSUME StatusInv, LockInv, [Next]_vars PROVE StatusInv'
  OBVIOUS
<1>0. /\ TypeOK' /\ TypeOK /\ pc \in [Task -> Pcs] /\ \A t \in Task : StatusAt(t)
      /\ status \in [Task -> TaskStatuses]
  BY TypeStep DEF StatusInv, TypeOK
<1>1. ASSUME NEW t \in Task, StatusAt(t)',
             \A u \in Task \ {t} : pc'[u] = pc[u] /\ status'[u] = status[u]
      PROVE  StatusInv'
  BY <1>0, <1>1, StatusFrame DEF StatusInv
<1>2. ASSUME UNCHANGED <<pc, status>> PROVE StatusInv'
  BY <1>0, <1>2, StatusFrame DEF StatusInv
<1>3. CASE Main
  <2>1. CASE Tick
    <3>1. PICK h \in Task : h = Head(queue) /\ pc[h] = "queued"
      BY <2>1, TailFacts DEF Tick, LockInv, TypeOK, QueuedNotStarted
    <3>2. CASE pc' = pc
      BY <1>2, <2>1, <3>2 DEF Tick
    <3>3. CASE pc' = [pc EXCEPT ![h] = "dropped"]
      <4>1. status' = status
        BY <2>1 DEF Tick
      <4>2. StatusAt(h)'
        BY <1>0, <3>1, <3>3, <4>1 DEF StatusAt
      <4> QED
        BY <1>0, <1>1, <3>1, <3>3, <4>1, <4>2
    <3> QED
      BY <2>1, <3>1, <3>2, <3>3 DEF Tick
  <2>2. CASE Spawn
    <3>1. PICK h \in Task : h = Head(queue) /\ pc[h] = "queued"
      BY <2>2, TailFacts DEF Spawn, LockInv, TypeOK, QueuedNotStarted
    <3>2. status' = status /\ pc' = [pc EXCEPT ![h] = "begin"]
      BY <2>2, <3>1 DEF Spawn
    <3>3. StatusAt(h)'
      BY <1>0, <3>1, <3>2 DEF StatusAt
    <3> QED
      BY <1>0, <1>1, <3>1, <3>2, <3>3
  <2>3. CASE TickIdle \/ SendLock \/ Pop \/ RegisterCall \/ RegisterSave
    BY <1>2, <2>3 DEF TickIdle, SendLock, Pop, RegisterCall, RegisterSave, vars, run
  <2>4. ASSUME NEW t \in Task, Register(t) PROVE StatusInv'
    <3>1. StatusAt(t)'
      BY <1>0, <2>4 DEF Register, StatusAt
    <3> QED
      BY <1>0, <1>1, <2>4, <3>1 DEF Register
  <2> QED
    BY <1>3, <2>1, <2>2, <2>3, <2>4 DEF Main, MainGoesOn, MainRegister
<1>4. CASE Locker \/ Crash \/ UNCHANGED vars
  BY <1>2, <1>4 DEF Locker, LockerLock, LockerUnlock, Crash, vars, run
<1>5. CASE Restart
  BY <1>0, <1>5 DEF Restart, StatusInv, StatusAt
<1>6. CASE Request
  <2>1. ASSUME NEW t \in Task, AddTask(t) PROVE StatusInv'
    <3>1. StatusAt(t)'
      BY <1>0, <2>1 DEF AddTask, Create, StatusAt
    <3> QED
      BY <1>0, <1>1, <2>1, <3>1 DEF AddTask, Create
  <2>2. ASSUME NEW s \in Stopper, NEW t \in Task, NEW force \in BOOLEAN, StopActive(s, t, force)
        PROVE  StatusInv'
    <3>1. pc' = pc /\ pc[t] # "none"
      <4>1. InQueue(t) => pc[t] # "none"
        BY DEF InQueue, LockInv, QueuedNotStarted, RunPcs
      <4>2. t \in running => pc[t] # "none"
        BY TailFacts DEF LockInv, NoOrphanLock, LockerMessage, QueuedNotStarted, TypeOK, RunPcs
      <4> QED
        BY <2>2, <4>1, <4>2 DEF StopActive, InPool
    <3>2. PICK new \in {"stopped", "stopping"} :
              Accepts(status[t], new) /\ status' = [status EXCEPT ![t] = new]
      BY <2>2 DEF StopActive, Assign
    <3>3. StatusAt(t)'
      BY <1>0, <3>1, <3>2 DEF StatusAt, Ended
    <3> QED
      BY <1>0, <1>1, <3>1, <3>2, <3>3
  <2>3. ASSUME NEW s \in Stopper, NEW t \in Task, StopShadow(s, t) PROVE StatusInv'
    BY <1>2, <2>3 DEF StopShadow, run
  <2>4. ASSUME NEW t \in Task, RemoveTask(t) PROVE StatusInv'
    BY <1>2, <2>4 DEF RemoveTask, run
  <2>6. ASSUME NEW s \in Stopper, StopStep(s) PROVE StatusInv'
    BY <1>2, <2>6 DEF StopStep, StopCall, StopWrite, StopKill, run
  <2>5. ASSUME NEW p \in Project, UpdateProject(p) PROVE StatusInv'
    BY <1>2, <2>5 DEF UpdateProject, run
  <2> QED
    BY <1>6, <2>1, <2>2, <2>3, <2>4, <2>5, <2>6, TaskPoolAssumption DEF Request
<1> QED
  BY <1>0, <1>3, <1>4, <1>5, <1>6, RunStepStatus DEF Next

\* StatusInv holds in every reachable state.
LEMMA StatusInvariant == Spec => []StatusInv
<1>1. Init => StatusInv
  BY InitType DEF Init, StatusInv, StatusAt
<1>2. StatusInv /\ LockInv /\ [Next]_vars => StatusInv'
  BY StatusStep
<1> QED
  BY <1>1, <1>2, LockInvariant, PTL DEF Spec

\* Every run ends in a status that says that it is over or being stopped.
THEOREM RunsEndEnded == Spec => []EndedStatus
<1>1. StatusInv => EndedStatus
  BY DEF StatusInv, StatusAt, EndedStatus, Ended, IsFinished
<1> QED
  BY <1>1, StatusInvariant, PTL

-----------------------------------------------------------------------------
(***************************************************************************)
(* The row of a task.  A save takes a copy and writes it later, and up to  *)
(* three goroutines can be saving one task; what they have in hand is the  *)
(* status of the runner unless there was a race.                           *)
(***************************************************************************)
SaveAt(t) ==
    /\ t \notin raced => \A st \in TaskStatuses : InHand(t, st) => st \in {status[t], "stopped"}
    /\ pc[t] \notin {"none", "lost"} /\ t \notin raced /\ ~ Saving(t) =>
          row[t] \in {status[t], "stopped", "absent"}
    /\ pc[t] = "none" => row[t] = "absent"

SaveInv == \A t \in Task : SaveAt(t)

\* A step that has nothing to do with the row of u and its saves.
MainElsewhere(u) ==
    \/ UNCHANGED <<mainPc, queue, regSave>>
    \/ /\ mainPc = "register" => Registered # u
       /\ mainPc' = "register" => Registered' # u

StopsElsewhere(u) ==
    \A s \in Stopper : stop'[s] = stop[s] \/ (stop[s].task # u /\ stop'[s].task # u)

Untouched(u) ==
    /\ save'[u] = save[u]
    /\ row'[u] = row[u]
    /\ status'[u] = status[u]
    /\ u \in raced' <=> u \in raced
    /\ pc'[u] = "none" => pc[u] = "none"
    /\ pc[u] \in {"none", "lost"} => pc'[u] \in {"none", "lost"}
    /\ MainElsewhere(u)
    /\ StopsElsewhere(u)

\* Nobody begins, copies or ends a save of u in such a step.
LEMMA HandFrame ==
    ASSUME NEW u \in Task, save'[u] = save[u], MainElsewhere(u), StopsElsewhere(u)
    PROVE  /\ \A st \in TaskStatuses : InHand(u, st)' <=> InHand(u, st)
           /\ Saving(u)' <=> Saving(u)
<1>1. /\ mainPc' = "register" /\ Registered' = u <=> mainPc = "register" /\ Registered = u
      /\ mainPc' = "register" /\ Registered' = u => regSave' = regSave
  BY DEF MainElsewhere, Registered
<1>2. \A st : (\E s \in Stopper : stop'[s].task = u /\ stop'[s].copy = st)
              <=> (\E s \in Stopper : stop[s].task = u /\ stop[s].copy = st)
  BY DEF StopsElsewhere
<1>3. (\E s \in Stopper : stop'[s].task = u /\ stop'[s].copy # "none")
      <=> (\E s \in Stopper : stop[s].task = u /\ stop[s].copy # "none")
  BY DEF StopsElsewhere
<1>4. \A st \in TaskStatuses : InHand(u, st)' <=> InHand(u, st)
  BY <1>1, <1>2 DEF InHand
<1>5. Saving(u)' <=> Saving(u)
  BY <1>1, <1>3 DEF Saving
<1> QED
  BY <1>4, <1>5

\* Such a step keeps SaveAt.
LEMMA UntouchedSave ==
    ASSUME NEW u \in Task, SaveAt(u), Untouched(u)
    PROVE  SaveAt(u)'
<1>1. /\ \A st \in TaskStatuses : InHand(u, st)' <=> InHand(u, st)
      /\ Saving(u)' <=> Saving(u)
  BY HandFrame DEF Untouched
<1> QED
  BY <1>1 DEF SaveAt, Untouched

\* A status is set: the copies in hand are out of date, or say the same.
LEMMA AssignSave ==
    ASSUME NEW t \in Task, TypeOK, SaveAt(t), NEW s \in TaskStatuses, Assign(t, s),
           \A st \in TaskStatuses : InHand(t, st)' => InHand(t, st),
           Saving(t)', pc'[t] # "none"
    PROVE  SaveAt(t)'
<1>1. status'[t] = s
  BY DEF Assign, TypeOK
<1>2. t \notin raced' => ~ Others(t, s)
  BY DEF Assign
<1>3. t \notin raced' => \A st \in TaskStatuses : InHand(t, st)' => st \in {s, "stopped"}
  BY <1>2 DEF Others
<1> QED
  BY <1>1, <1>3 DEF SaveAt

\* A copy is taken: it is current, and the others are if there was no race;
\* and if there are no others the race is over.
LEMMA CopySave ==
    ASSUME NEW t \in Task, SaveAt(t), TakeCopy(t), status' = status, row' = row, pc' = pc,
           \A st \in TaskStatuses : InHand(t, st)' => InHand(t, st) \/ st = status[t],
           Saving(t)'
    PROVE  SaveAt(t)'
<1>1. t \notin raced' => t \notin raced \/ ~ Others(t, "none")
  BY DEF TakeCopy
<1>2. ~ Others(t, "none") => \A st \in TaskStatuses : InHand(t, st) => st = "stopped"
  BY DEF Others, TaskStatuses
<1>3. t \notin raced' => \A st \in TaskStatuses : InHand(t, st)' => st \in {status[t], "stopped"}
  BY <1>1, <1>2 DEF SaveAt
<1> QED
  BY <1>3 DEF SaveAt

\* A copy is written: without a race it is what the runner has.
LEMMA WriteSave ==
    ASSUME NEW t \in Task, TypeOK, SaveAt(t), NEW st \in TaskStatuses, InHand(t, st),
           UpdateTask(t, st), status' = status, raced' = raced, pc' = pc,
           \A c \in TaskStatuses : InHand(t, c)' => InHand(t, c)
    PROVE  SaveAt(t)'
<1>1. row'[t] \in {st, "absent"} /\ (row[t] = "absent" => row'[t] = "absent")
  BY DEF UpdateTask, TypeOK
<1>2. t \notin raced => st \in {status[t], "stopped"}
  BY DEF SaveAt
<1> QED
  BY <1>1, <1>2 DEF SaveAt

\* The goroutine of a task begins a save of its own, or sets no status.
LEMMA SetStatusSave ==
    ASSUME NEW t \in Task, TypeOK, SaveInv, NEW s \in TaskStatuses, SetStatus(t, s),
           NEW v, v \notin {"none", "lost"}, pc[t] \notin {"none", "lost"},
           pc' = [pc EXCEPT ![t] = v], row' = row, stop' = stop,
           mainPc' = mainPc, queue' = queue, regSave' = regSave
    PROVE  SaveInv'
<1>0. pc \in [Task -> Pcs] /\ save \in [Task -> Copies] /\ status \in [Task -> TaskStatuses]
  BY DEF TypeOK
<1>1. ASSUME NEW u \in Task, u # t PROVE SaveAt(u)'
  <2>1. Untouched(u)
    BY <1>0, <1>1 DEF Untouched, MainElsewhere, StopsElsewhere, SetStatus, Assign
  <2> QED
    BY <2>1, UntouchedSave DEF SaveInv
<1>2. CASE UNCHANGED <<status, raced, save>>
  <2>1. Untouched(t)
    BY <1>0, <1>2 DEF Untouched, MainElsewhere, StopsElsewhere
  <2> QED
    BY <1>1, <2>1, UntouchedSave DEF SaveInv
<1>3. CASE Assign(t, s) /\ save' = [save EXCEPT ![t] = "call"]
  <2>1. save'[t] = "call"
    BY <1>0, <1>3
  <2>2. \A st \in TaskStatuses : InHand(t, st)' => InHand(t, st)
    BY <2>1 DEF InHand, Registered, TaskStatuses
  <2>3. Saving(t)'
    BY <2>1 DEF Saving
  <2>4. SaveAt(t)'
    BY <1>0, <1>3, <2>2, <2>3, AssignSave DEF SaveInv
  <2> QED
    BY <1>1, <2>4 DEF SaveInv
<1> QED
  BY <1>2, <1>3 DEF SetStatus

\* A step that changes only where tasks are.
LEMMA PcSave ==
    ASSUME TypeOK, SaveInv, UNCHANGED <<row, status, save, stop, raced>>,
           \/ UNCHANGED <<mainPc, queue, regSave>>
           \/ mainPc # "register" /\ mainPc' # "register",
           \A u \in Task : /\ pc'[u] = "none" => pc[u] = "none"
                           /\ pc[u] \in {"none", "lost"} => pc'[u] \in {"none", "lost"}
    PROVE  SaveInv'
<1> SUFFICES ASSUME NEW u \in Task PROVE SaveAt(u)'
  BY DEF SaveInv
<1>1. Untouched(u)
  BY DEF Untouched, MainElsewhere, StopsElsewhere
<1> QED
  BY <1>1, UntouchedSave DEF SaveInv

\* A row is inserted with the status its runner will have.
LEMMA CreateSave ==
    ASSUME TypeOK, SaveInv, StatusInv, NEW t \in Task, NEW by, Create(t, by),
           UNCHANGED <<status, save, stop, raced, mainPc, queue, regSave>>
    PROVE  SaveInv'
<1>0. pc \in [Task -> Pcs] /\ row \in [Task -> TaskStatuses \cup {"absent"}]
  BY DEF TypeOK
<1>1. ASSUME NEW u \in Task, u # t PROVE SaveAt(u)'
  <2>1. Untouched(u)
    BY <1>0, <1>1 DEF Untouched, MainElsewhere, StopsElsewhere, Create
  <2> QED
    BY <2>1, UntouchedSave DEF SaveInv
<1>2. pc'[t] = "details" /\ row'[t] = "waiting" /\ status[t] = "waiting"
  BY <1>0 DEF Create, StatusInv, StatusAt
<1>3. \A st \in TaskStatuses : InHand(t, st)' <=> InHand(t, st)
  BY HandFrame DEF MainElsewhere, StopsElsewhere
<1>4. SaveAt(t)'
  BY <1>2, <1>3 DEF SaveAt, SaveInv
<1> QED
  BY <1>1, <1>4 DEF SaveInv

\* A step that touches one task, t, alone.
LEMMA OneSave ==
    ASSUME SaveInv, NEW t \in Task, SaveAt(t)', \A u \in Task \ {t} : Untouched(u)
    PROVE  SaveInv'
  BY UntouchedSave DEF SaveInv

\* The main loop keeps SaveInv: it saves the task it has put into the queue.
LEMMA MainSave == TypeOK /\ SaveInv /\ LockInv /\ Main => SaveInv'
<1> SUFFICES ASSUME TypeOK, SaveInv, LockInv, Main PROVE SaveInv'
  OBVIOUS
<1>0. pc \in [Task -> Pcs] /\ queue \in Seq(Task)
  BY DEF TypeOK
<1>1. CASE Tick
  <2>1. queue # <<>> /\ mainPc = "select"
    BY <1>1 DEF Tick
  <2>2. PICK h \in Task : h = Head(queue) /\ pc[h] = "queued"
    BY <1>0, <2>1, TailFacts DEF LockInv, QueuedNotStarted
  <2>3. UNCHANGED <<row, status, save, stop, raced>> /\ mainPc # "register" /\ mainPc' # "register"
    BY <1>1 DEF Tick, db
  <2>4. \A u \in Task : /\ pc'[u] = "none" => pc[u] = "none"
                        /\ pc[u] \in {"none", "lost"} => pc'[u] \in {"none", "lost"}
    BY <1>0, <1>1, <2>2 DEF Tick
  <2> QED
    BY <2>3, <2>4, PcSave
<1>2. CASE Spawn
  <2>1. queue # <<>> /\ mainPc = "spawn"
    BY <1>2 DEF Spawn, TypeOK
  <2>2. PICK h \in Task : h = Head(queue) /\ pc[h] = "queued"
    BY <1>0, <2>1, TailFacts DEF LockInv, QueuedNotStarted
  <2>3. UNCHANGED <<row, status, save, stop, raced>> /\ mainPc # "register" /\ mainPc' # "register"
    BY <1>2 DEF Spawn, db
  <2>4. \A u \in Task : /\ pc'[u] = "none" => pc[u] = "none"
                        /\ pc[u] \in {"none", "lost"} => pc'[u] \in {"none", "lost"}
    BY <1>0, <1>2, <2>2 DEF Spawn
  <2> QED
    BY <2>3, <2>4, PcSave
<1>3. CASE SendLock \/ Pop
  <2>1. /\ UNCHANGED <<row, status, save, stop, raced, pc>>
        /\ mainPc # "register" /\ mainPc' # "register"
    BY <1>3 DEF SendLock, Pop, db, run
  <2> QED
    BY <2>1, PcSave
<1>4. CASE TickIdle
  BY <1>4, PcSave DEF TickIdle, vars
<1>5. ASSUME NEW t \in Task, Register(t) PROVE SaveInv'
  <2>1. /\ queue' = Append(queue, t) /\ mainPc = "select" /\ mainPc' = "register"
        /\ regSave' = "call" /\ UNCHANGED <<row, status, save, stop, raced>>
        /\ pc' = [pc EXCEPT ![t] = "queued"] /\ pc[t] = "created"
    BY <1>5 DEF Register, db
  <2>2. Registered' = t
    <3>1. Len(queue) \in Nat
      BY <1>0
    <3>2. Len(queue') = Len(queue) + 1 /\ queue'[Len(queue) + 1] = t
      BY <1>0, <2>1, AppendFacts
    <3> QED
      BY <3>1, <3>2 DEF Registered
  <2>3. \A u \in Task \ {t} : Untouched(u)
    BY <1>0, <2>1, <2>2 DEF Untouched, MainElsewhere, StopsElsewhere
  <2>4. \A st \in TaskStatuses : InHand(t, st)' => InHand(t, st)
    BY <2>1 DEF InHand, TaskStatuses
  <2>5. Saving(t)'
    BY <2>1, <2>2 DEF Saving
  <2>6. SaveAt(t)'
    BY <1>0, <2>1, <2>4, <2>5 DEF SaveAt, SaveInv
  <2> QED
    BY <2>3, <2>6, OneSave
<1>6. CASE RegisterCall \/ RegisterSave
  <2>1. mainPc = "register" /\ queue # <<>> /\ queue' = queue
    BY <1>6 DEF RegisterCall, RegisterSave, TypeOK
  <2>2. PICK t \in Task : t = Registered /\ t = Registered'
    <3>1. Len(queue) \in 1..Len(queue)
      BY <1>0, <2>1
    <3> QED
      BY <1>0, <2>1, <3>1 DEF Registered
  <2>3. CASE RegisterCall
    <3>1. /\ UNCHANGED <<mainPc, row, status, save, stop, pc>> /\ regSave' = status[t]
          /\ TakeCopy(t)
      BY <2>2, <2>3 DEF RegisterCall, db, run
    <3>2. \A u \in Task \ {t} : Untouched(u)
      BY <2>2, <3>1 DEF Untouched, MainElsewhere, StopsElsewhere, TakeCopy
    <3>3. \A st \in TaskStatuses : InHand(t, st)' => InHand(t, st) \/ st = status[t]
      BY <2>2, <3>1 DEF InHand
    <3>4. Saving(t)'
      BY <2>1, <2>2, <3>1 DEF Saving
    <3>5. SaveAt(t)'
      BY <3>1, <3>3, <3>4, CopySave DEF SaveInv
    <3> QED
      BY <3>2, <3>5, OneSave
  <2>4. CASE RegisterSave
    <3>1. /\ UNCHANGED <<status, save, stop, pc, raced>> /\ mainPc' = "select"
          /\ regSave \in TaskStatuses /\ UpdateTask(t, regSave)
      BY <2>2, <2>4 DEF RegisterSave, run
    <3>2. \A u \in Task \ {t} : row'[u] = row[u]
      BY <3>1 DEF UpdateTask, TypeOK
    <3>3. \A u \in Task \ {t} : Untouched(u)
      BY <2>2, <3>1, <3>2 DEF Untouched, MainElsewhere, StopsElsewhere
    <3>4. \A st \in TaskStatuses : InHand(t, st)' => InHand(t, st)
      BY <3>1 DEF InHand
    <3>5. InHand(t, regSave)
      BY <2>1, <2>2 DEF InHand
    <3>6. SaveAt(t)'
      BY <3>1, <3>4, <3>5, WriteSave DEF SaveInv
    <3> QED
      BY <3>3, <3>6, OneSave
  <2> QED
    BY <1>6, <2>3, <2>4
<1> QED
  BY <1>1, <1>2, <1>3, <1>4, <1>5, <1>6 DEF Main, MainGoesOn, MainRegister

\* The goroutine of a task keeps it: every status it sets is saved.
LEMMA RunStepSave ==
    ASSUME TypeOK, SaveInv, StatusInv, NEW t \in Task, RunStep(t) \/ PlaybookExit(t)
    PROVE  SaveInv'
<1>0. /\ pc \in [Task -> Pcs] /\ save \in [Task -> Copies]
      /\ {"stopped", "starting", "running", "error", "success"} \subseteq TaskStatuses
  BY DEF TypeOK, TaskStatuses
<1>1. CASE RunBegin(t)
  <2>1. pc[t] = "begin" /\ UNCHANGED <<row, stop, mainPc, queue, regSave>>
    BY <1>1 DEF RunBegin, At, db, main
  <2>2. CASE SetStatus(t, "stopped") /\ pc' = [pc EXCEPT ![t] = "unlock"]
    BY <1>0, <2>1, <2>2, SetStatusSave
  <2>3. CASE UNCHANGED <<status, raced, save>> /\ pc' = [pc EXCEPT ![t] = "setStarting"]
    BY <1>0, <2>1, <2>3, PcSave
  <2> QED
    BY <1>1, <2>2, <2>3 DEF RunBegin
<1>2. CASE RunStarting(t)
  <2>1. pc[t] = "setStarting" /\ UNCHANGED <<row, stop, mainPc, queue, regSave>>
    BY <1>2 DEF RunStarting, At, db, main
  <2> QED
    BY <1>0, <1>2, <2>1, SetStatusSave DEF RunStarting
<1>3. CASE JobRun(t)
  <2>1. pc[t] = "starting" /\ UNCHANGED <<row, stop, mainPc, queue, regSave>>
    BY <1>3 DEF JobRun, At, db, main
  <2> QED
    BY <1>0, <1>3, <2>1, SetStatusSave DEF JobRun
<1>4. CASE RunErr(t)
  <2>1. pc[t] = "err" /\ UNCHANGED <<row, stop, mainPc, queue, regSave>>
    BY <1>4 DEF RunErr, At, db, main
  <2> QED
    BY <1>0, <1>4, <2>1, SetStatusSave DEF RunErr
<1>5. CASE RunSuccess(t)
  <2>1. pc[t] = "setSuccess" /\ UNCHANGED <<row, stop, mainPc, queue, regSave>>
    BY <1>5 DEF RunSuccess, At, db, main
  <2> QED
    BY <1>0, <1>5, <2>1, SetStatusSave DEF RunSuccess
<1>6. CASE Details(t)
  <2>1. pc[t] = "details" /\ UNCHANGED <<row, stop, mainPc, queue, regSave>>
    BY <1>6 DEF Details, db, main
  <2>2. CASE SetStatus(t, "error") /\ pc' = [pc EXCEPT ![t] = "rejected"]
    BY <1>0, <2>1, <2>2, SetStatusSave
  <2>3. CASE UNCHANGED <<status, raced, save>> /\ pc' = [pc EXCEPT ![t] = "created"]
    BY <1>0, <2>1, <2>3, PcSave
  <2> QED
    BY <1>6, <2>2, <2>3 DEF Details
<1>7. CASE Prepare(t) \/ JobReturn(t) \/ RunOk(t) \/ AutorunDone(t) \/ SendUnlock(t)
           \/ PlaybookExit(t) \/ \E tpl \in Template : AutorunFail(t, tpl)
  <2>1. UNCHANGED <<row, status, save, stop, raced, mainPc, queue, regSave>>
    BY <1>7 DEF Prepare, JobReturn, RunOk, AutorunDone, SendUnlock, PlaybookExit, AutorunFail,
       db, main
  <2>2. \A u \in Task : /\ pc'[u] = "none" => pc[u] = "none"
                        /\ pc[u] \in {"none", "lost"} => pc'[u] \in {"none", "lost"}
    BY <1>0, <1>7 DEF Prepare, JobReturn, RunOk, AutorunDone, SendUnlock, PlaybookExit,
       AutorunFail, At
  <2> QED
    BY <2>1, <2>2, PcSave
<1>8. ASSUME NEW c \in Task, AutorunAdd(t, c) PROVE SaveInv'
  BY <1>8, CreateSave DEF AutorunAdd, main
<1>9. CASE FinalSave(t)
  <2>1. /\ pc[t] = "save" /\ UNCHANGED <<row, status, stop, raced, mainPc, queue, regSave>>
        /\ pc' = [pc EXCEPT ![t] = "done"] /\ save' = [save EXCEPT ![t] = "call"]
    BY <1>9 DEF FinalSave, At, db, main
  <2>2. \A u \in Task \ {t} : Untouched(u)
    BY <1>0, <2>1 DEF Untouched, MainElsewhere, StopsElsewhere
  <2>3. save'[t] = "call" /\ pc'[t] = "done"
    BY <1>0, <2>1
  <2>4. \A st \in TaskStatuses : InHand(t, st)' => InHand(t, st)
    BY <2>1, <2>3 DEF InHand, Registered, TaskStatuses
  <2>5. Saving(t)'
    BY <2>3 DEF Saving
  <2>6. SaveAt(t)'
    BY <2>1, <2>3, <2>4, <2>5 DEF SaveAt, SaveInv
  <2> QED
    BY <2>2, <2>6, OneSave
<1>10. CASE SaveCall(t)
  <2>1. /\ UNCHANGED <<row, status, stop, pc, mainPc, queue, regSave>>
        /\ TakeCopy(t) /\ save' = [save EXCEPT ![t] = status[t]]
    BY <1>10 DEF SaveCall, db, main
  <2>2. \A u \in Task \ {t} : Untouched(u)
    BY <1>0, <2>1 DEF Untouched, MainElsewhere, StopsElsewhere, TakeCopy
  <2>3. save'[t] = status[t] /\ status[t] \in TaskStatuses
    BY <1>0, <2>1 DEF TypeOK
  <2>4. \A st \in TaskStatuses : InHand(t, st)' => InHand(t, st) \/ st = status[t]
    BY <2>1, <2>3 DEF InHand, Registered
  <2>5. Saving(t)'
    BY <2>3 DEF Saving, TaskStatuses
  <2>6. SaveAt(t)'
    BY <2>1, <2>4, <2>5, CopySave DEF SaveInv
  <2> QED
    BY <2>2, <2>6, OneSave
<1>11. CASE SaveWrite(t)
  <2>1. /\ UNCHANGED <<status, stop, pc, raced, mainPc, queue, regSave>>
        /\ save[t] \in TaskStatuses /\ UpdateTask(t, save[t]) /\ save' = [save EXCEPT ![t] = "none"]
    BY <1>11 DEF SaveWrite, main
  <2>2. \A u \in Task \ {t} : row'[u] = row[u]
    BY <2>1 DEF UpdateTask, TypeOK
  <2>3. \A u \in Task \ {t} : Untouched(u)
    BY <1>0, <2>1, <2>2 DEF Untouched, MainElsewhere, StopsElsewhere
  <2>4. save'[t] = "none" /\ InHand(t, save[t])
    BY <1>0, <2>1 DEF InHand
  <2>5. \A st \in TaskStatuses : InHand(t, st)' => InHand(t, st)
    BY <2>1, <2>4 DEF InHand, Registered, TaskStatuses
  <2>6. SaveAt(t)'
    BY <2>1, <2>4, <2>5, WriteSave DEF SaveInv
  <2> QED
    BY <2>3, <2>6, OneSave
<1> QED
  BY <1>1, <1>2, <1>3, <1>4, <1>5, <1>6, <1>7, <1>8, <1>9, <1>10, <1>11 DEF RunStep

\* Requests keep it: a stop sets the status of a runner and saves it, or has
\* a copy with "stopped" of its own.
LEMMA RequestSave ==
    ASSUME TypeOK, TypeOK', SaveInv, StatusInv, LockInv, Request
    PROVE  SaveInv'
<1>0. /\ pc \in [Task -> Pcs] /\ stop \in [Stopper -> StopRequest]
      /\ row \in [Task -> TaskStatuses \cup {"absent"}]
  BY DEF TypeOK
<1>1. ASSUME NEW t \in Task, AddTask(t) PROVE SaveInv'
  BY <1>1, CreateSave DEF AddTask, main
<1>2. ASSUME NEW s \in Stopper, stop[s].pc = "idle" PROVE stop[s].task = NoTask /\ stop[s].copy = "none"
  BY <1>2, StopFacts
<1>3. ASSUME NEW s \in Stopper, NEW t \in Task, NEW force \in BOOLEAN, StopActive(s, t, force)
      PROVE  SaveInv'
  <2>1. PICK new \in {"stopped", "stopping"} : Assign(t, new)
    BY <1>3 DEF StopActive
  <2>2. /\ UNCHANGED <<row, pc, save, mainPc, queue, regSave>> /\ stop[s].pc = "idle"
    BY <1>3 DEF StopActive, db, main
  <2>3. /\ stop'[s].task = t /\ stop'[s].copy = "call" /\ stop[s].task = NoTask
        /\ \A q \in Stopper \ {s} : stop'[q] = stop[q]
    BY <1>0, <1>2, <1>3, <2>2 DEF StopActive
  <2>4. \A u \in Task \ {t} : Untouched(u)
    <3> SUFFICES ASSUME NEW u \in Task, u # t PROVE Untouched(u)
      OBVIOUS
    <3>1. StopsElsewhere(u)
      BY <2>3, TaskPoolAssumption DEF StopsElsewhere
    <3>2. status'[u] = status[u] /\ (u \in raced' <=> u \in raced)
      BY <2>1 DEF Assign, TypeOK
    <3> QED
      BY <2>2, <3>1, <3>2 DEF Untouched, MainElsewhere
  <2>5. \A st \in TaskStatuses : InHand(t, st)' => InHand(t, st)
    BY <2>2, <2>3 DEF InHand, Registered, TaskStatuses
  <2>6. Saving(t)'
    BY <2>3 DEF Saving
  <2>7. pc[t] # "none"
    <3>1. InQueue(t) => pc[t] # "none"
      BY DEF InQueue, LockInv, QueuedNotStarted, RunPcs
    <3>2. t \in running => pc[t] # "none"
      BY TailFacts DEF LockInv, NoOrphanLock, LockerMessage, QueuedNotStarted, TypeOK, RunPcs
    <3> QED
      BY <1>3, <3>1, <3>2 DEF StopActive, InPool
  <2>8. SaveAt(t)'
    <3>1. new \in TaskStatuses
      BY DEF TaskStatuses
    <3> QED
      BY <2>1, <2>2, <2>5, <2>6, <2>7, <3>1, AssignSave DEF SaveInv
  <2> QED
    BY <2>4, <2>8, OneSave
<1>4. ASSUME NEW s \in Stopper, NEW t \in Task, StopShadow(s, t) PROVE SaveInv'
  <2>1. /\ UNCHANGED <<row, pc, status, save, raced, mainPc, queue, regSave>>
        /\ stop[s].pc = "idle" /\ row[t] # "absent"
    BY <1>4 DEF StopShadow, db, main, run
  <2>2. /\ stop'[s].task = t /\ stop'[s].copy = "stopped" /\ stop[s].task = NoTask
        /\ \A q \in Stopper \ {s} : stop'[q] = stop[q]
    BY <1>0, <1>2, <1>4, <2>1 DEF StopShadow
  <2>3. \A u \in Task \ {t} : Untouched(u)
    <3> SUFFICES ASSUME NEW u \in Task, u # t PROVE Untouched(u)
      OBVIOUS
    <3>1. StopsElsewhere(u)
      BY <2>2, TaskPoolAssumption DEF StopsElsewhere
    <3> QED
      BY <2>1, <3>1 DEF Untouched, MainElsewhere
  <2>4. \A st \in TaskStatuses : InHand(t, st)' => InHand(t, st) \/ st = "stopped"
    BY <2>1, <2>2 DEF InHand, Registered
  <2>5. Saving(t)'
    BY <2>2 DEF Saving
  <2>6. SaveAt(t)'
    BY <2>1, <2>4, <2>5 DEF SaveAt, SaveInv
  <2> QED
    BY <2>3, <2>6, OneSave
<1>5. ASSUME NEW s \in Stopper, StopCall(s) PROVE SaveInv'
  <2>1. PICK t \in Task : t = stop[s].task
    BY <1>5, StopFacts DEF StopCall
  <2>2. /\ UNCHANGED <<row, status, pc, save, mainPc, queue, regSave>> /\ TakeCopy(t)
    BY <1>5, <2>1 DEF StopCall, db, main, run
  <2>3. /\ stop'[s].task = t /\ stop'[s].copy = status[t] /\ status[t] \in TaskStatuses
        /\ \A q \in Stopper \ {s} : stop'[q] = stop[q]
    BY <1>0, <1>5, <2>1, StopFacts DEF StopCall, StopRequest, IdleStop, OverStop, TypeOK
  <2>4. \A u \in Task \ {t} : Untouched(u)
    BY <2>1, <2>2, <2>3 DEF Untouched, MainElsewhere, StopsElsewhere, TakeCopy
  <2>5. \A st \in TaskStatuses : InHand(t, st)' => InHand(t, st) \/ st = status[t]
    BY <2>2, <2>3 DEF InHand, Registered
  <2>6. Saving(t)'
    BY <2>3 DEF Saving, TaskStatuses
  <2>7. SaveAt(t)'
    BY <2>2, <2>5, <2>6, CopySave DEF SaveInv
  <2> QED
    BY <2>4, <2>7, OneSave
<1>6. ASSUME NEW s \in Stopper, StopWrite(s) PROVE SaveInv'
  <2>1. PICK t \in Task : t = stop[s].task
    BY <1>6, StopFacts DEF StopWrite, TaskStatuses
  <2>2. /\ UNCHANGED <<status, pc, save, raced, mainPc, queue, regSave>>
        /\ stop[s].copy \in TaskStatuses /\ UpdateTask(t, stop[s].copy)
    BY <1>6, <2>1 DEF StopWrite, main, run
  <2>3. /\ stop'[s].task \in {t, NoTask} /\ stop'[s].copy = "none"
        /\ \A q \in Stopper \ {s} : stop'[q] = stop[q]
    BY <1>0, <1>6, <2>1, StopFacts DEF StopWrite, StopRequest, IdleStop, OverStop
  <2>4. \A u \in Task \ {t} : row'[u] = row[u]
    BY <2>2 DEF UpdateTask, TypeOK
  <2>5. \A u \in Task \ {t} : Untouched(u)
    BY <2>1, <2>2, <2>3, <2>4, TaskPoolAssumption DEF Untouched, MainElsewhere, StopsElsewhere
  <2>6. \A st \in TaskStatuses : InHand(t, st)' => InHand(t, st)
    BY <2>2, <2>3 DEF InHand, Registered, TaskStatuses
  <2>7. InHand(t, stop[s].copy)
    BY <2>1 DEF InHand
  <2>8. SaveAt(t)'
    BY <2>2, <2>6, <2>7, WriteSave DEF SaveInv
  <2> QED
    BY <2>5, <2>8, OneSave
<1>7. ASSUME NEW s \in Stopper, StopKill(s) PROVE SaveInv'
  <2>1. UNCHANGED <<row, status, pc, save, raced, mainPc, queue, regSave>>
    BY <1>7 DEF StopKill, db, main
  <2>2. /\ stop'[s] = OverStop /\ \A q \in Stopper \ {s} : stop'[q] = stop[q]
    BY <1>0, <1>7 DEF StopKill
  <2> SUFFICES ASSUME NEW u \in Task PROVE SaveAt(u)'
    BY DEF SaveInv
  <2>3. \A st \in TaskStatuses : InHand(u, st)' => InHand(u, st)
    BY <2>1, <2>2 DEF InHand, Registered, OverStop, TaskStatuses
  <2>4. stop[s].copy = "none"
    BY <1>7, StopFacts DEF StopKill
  <2>5. Saving(u) => Saving(u)'
    BY <2>1, <2>2, <2>4 DEF Saving, Registered
  <2> QED
    BY <2>1, <2>3, <2>5 DEF SaveAt, SaveInv
<1>8. ASSUME NEW t \in Task, RemoveTask(t) PROVE SaveInv'
  <2>1. /\ UNCHANGED <<status, pc, save, raced, mainPc, queue, regSave, stop>>
        /\ row' = [row EXCEPT ![t] = "absent"]
    BY <1>8 DEF RemoveTask, main, run
  <2>2. \A u \in Task \ {t} : Untouched(u)
    BY <1>0, <2>1 DEF Untouched, MainElsewhere, StopsElsewhere
  <2>3. \A st \in TaskStatuses : InHand(t, st)' <=> InHand(t, st)
    BY <2>1, HandFrame DEF MainElsewhere, StopsElsewhere
  <2>4. SaveAt(t)'
    BY <1>0, <2>1, <2>3 DEF SaveAt, SaveInv
  <2> QED
    BY <2>2, <2>4, OneSave
<1>9. ASSUME NEW p \in Project, UpdateProject(p) PROVE SaveInv'
  BY <1>9, PcSave DEF UpdateProject, main, run
<1> QED
  BY <1>1, <1>3, <1>4, <1>5, <1>6, <1>7, <1>8, <1>9, TaskPoolAssumption DEF Request, StopStep

\* Every step keeps it; after a restart there is nobody left who saves.
LEMMA SaveStep == SaveInv /\ StatusInv /\ LockInv /\ [Next]_vars => SaveInv'
<1> SUFFICES ASSUME SaveInv, StatusInv, LockInv, [Next]_vars PROVE SaveInv'
  OBVIOUS
<1>0. TypeOK /\ TypeOK'
  BY TypeStep DEF LockInv
<1>1. CASE Locker \/ Crash \/ UNCHANGED vars
  <2>1. UNCHANGED <<row, status, save, stop, raced, pc, mainPc, queue, regSave>>
    BY <1>1 DEF Locker, LockerLock, LockerUnlock, Crash, vars, db, main, run
  <2> QED
    BY <1>0, <2>1, PcSave
<1>2. CASE Restart
  <2> SUFFICES ASSUME NEW t \in Task PROVE SaveAt(t)'
    BY DEF SaveInv
  <2>1. /\ row' = row /\ pc'[t] \in {"none", "lost"} /\ (pc'[t] = "none" => pc[t] = "none")
        /\ save'[t] = "none" /\ mainPc' = "select"
        /\ \A s \in Stopper : stop'[s].copy = "none"
    BY <1>2 DEF Restart, IdleStop, OverStop
  <2>2. \A st \in TaskStatuses : ~ InHand(t, st)'
    BY <2>1 DEF InHand, TaskStatuses
  <2> QED
    BY <2>1, <2>2 DEF SaveAt, SaveInv
<1> QED
  BY <1>0, <1>1, <1>2, MainSave, RunStepSave, RequestSave DEF Next

\* SaveInv holds in every reachable state.
LEMMA SaveInvariant == Spec => []SaveInv
<1>1. Init => SaveInv
  <2> SUFFICES ASSUME Init, NEW t \in Task PROVE SaveAt(t)
    BY DEF SaveInv
  <2>1. /\ row[t] = "absent" /\ save[t] = "none" /\ mainPc = "select"
        /\ \A s \in Stopper : stop[s].copy = "none"
    BY DEF Init, IdleStop
  <2>2. \A st \in TaskStatuses : ~ InHand(t, st)
    BY <2>1 DEF InHand, TaskStatuses
  <2> QED
    BY <2>1, <2>2 DEF SaveAt
<1>2. SaveInv /\ StatusInv /\ LockInv /\ [Next]_vars => SaveInv'
  BY SaveStep
<1> QED
  BY <1>1, <1>2, LockInvariant, StatusInvariant, PTL DEF Spec

\* Once the saves of a task are over, a reader of the task table sees the
\* status of the runner, or "stopped" from a stop request that did not find
\* the runner, or no row, whichever goroutine set the status and in whatever
\* order the saves were written, unless an older copy was overtaken
\* (TaskRunner.SetStatus, saveStatus).
THEOREM TableFollowsRunner == Spec => []RowFollowsRunner
<1>1. SaveInv => RowFollowsRunner
  BY DEF SaveInv, SaveAt, RowFollowsRunner
<1> QED
  BY <1>1, SaveInvariant, PTL

-----------------------------------------------------------------------------
(***************************************************************************)
(* Removed rows.                                                           *)
(***************************************************************************)

\* UpdateTask of a missing row inserts nothing, whoever saves what.
LEMMA UpdateKeepsAbsent ==
    ASSUME TypeOK, NEW t \in Task, row[t] = "absent", NEW u, NEW st, UpdateTask(u, st)
    PROVE  row'[t] = "absent"
  BY DEF TypeOK, UpdateTask

\* No goroutine of the pool, no request and no restart inserts the row of a
\* task that has been created before.
LEMMA RemovedStep ==
    ASSUME TypeOK, [Next]_vars, NEW t \in Task, row[t] = "absent", pc[t] # "none"
    PROVE  row'[t] = "absent"
<1>0. row \in [Task -> TaskStatuses \cup {"absent"}] /\ pc \in [Task -> Pcs]
  BY DEF TypeOK
<1>1. CASE Main
  <2>1. CASE RegisterSave
    BY <2>1, UpdateKeepsAbsent DEF RegisterSave
  <2> QED
    BY <1>1, <2>1 DEF Main, MainGoesOn, MainRegister, Tick, TickIdle, SendLock, Spawn, Pop,
       Register, RegisterCall, db, vars
<1>2. CASE Locker \/ Crash \/ Restart \/ UNCHANGED vars
  BY <1>2 DEF Locker, LockerLock, LockerUnlock, Crash, Restart, db, vars
<1>3. ASSUME NEW u, NEW by, Create(u, by) PROVE row'[t] = "absent"
  BY <1>0, <1>3 DEF Create
<1>4. CASE Request
  <2>1. ASSUME NEW s \in Stopper, StopWrite(s) PROVE row'[t] = "absent"
    BY <2>1, UpdateKeepsAbsent DEF StopWrite
  <2>2. ASSUME NEW u \in Task, RemoveTask(u) PROVE row'[t] = "absent"
    BY <1>0, <2>2 DEF RemoveTask
  <2>3. ASSUME NEW u \in Task, AddTask(u) PROVE row'[t] = "absent"
    BY <1>3, <2>3 DEF AddTask
  <2>4. ASSUME NEW p \in Project, UpdateProject(p) PROVE row'[t] = "absent"
    BY <2>4 DEF UpdateProject
  <2>5. ASSUME NEW s \in Stopper, NEW u \in Task,
               StopShadow(s, u) \/ \E force \in BOOLEAN : StopActive(s, u, force)
        PROVE  row'[t] = "absent"
    BY <2>5 DEF StopShadow, StopActive, db
  <2>6. ASSUME NEW s \in Stopper, StopCall(s) \/ StopKill(s) PROVE row'[t] = "absent"
    BY <2>6 DEF StopCall, StopKill, db
  <2> QED
    BY <1>4, <2>1, <2>2, <2>3, <2>4, <2>5, <2>6, TaskPoolAssumption DEF Request, StopStep
<1>5. ASSUME NEW u \in Task, RunStep(u) \/ PlaybookExit(u) PROVE row'[t] = "absent"
  <2>1. ASSUME NEW c \in Task, AutorunAdd(u, c) PROVE row'[t] = "absent"
    BY <1>3, <2>1 DEF AutorunAdd
  <2>2. CASE SaveWrite(u)
    BY <2>2, UpdateKeepsAbsent DEF SaveWrite
  <2>3. CASE RunBegin(u) \/ RunStarting(u) \/ JobRun(u) \/ RunErr(u) \/ RunSuccess(u)
             \/ FinalSave(u) \/ SaveCall(u) \/ Details(u)
    BY <2>3 DEF RunBegin, RunStarting, JobRun, RunErr, RunSuccess, FinalSave, SaveCall,
       Details, db
  <2>4. CASE Prepare(u) \/ JobReturn(u) \/ RunOk(u) \/ AutorunDone(u) \/ SendUnlock(u)
             \/ PlaybookExit(u) \/ \E tpl \in Template : AutorunFail(u, tpl)
    BY <2>4 DEF Prepare, JobReturn, RunOk, AutorunDone, SendUnlock, PlaybookExit,
       AutorunFail, db
  <2> QED
    BY <1>5, <2>1, <2>2, <2>3, <2>4 DEF RunStep
<1> QED
  BY <1>1, <1>2, <1>4, <1>5 DEF Next

\* A removed task is never brought back into the table, however far its
\* goroutine had come when the row was removed (UpdateTask, saveStatus).
THEOREM RemovedRowsStayRemoved == Spec => RemovedStaysRemoved
<1>1. TypeOK /\ [Next]_vars =>
        [\A t \in Task : row[t] = "absent" /\ pc[t] # "none" => row'[t] = "absent"]_vars
  BY RemovedStep
<1> QED
  BY <1>1, TypeCorrect, PTL DEF Spec, RemovedStaysRemoved

-----------------------------------------------------------------------------
(***************************************************************************)
(* The limit of a project.                                                 *)
(***************************************************************************)

\* The step does not lower the limit of a project: it is raised, or
\* lifted (0), or left alone.
LimitsRise ==
    \A p \in Project : projMax'[p] = 0 \/ (projMax[p] > 0 /\ projMax'[p] >= projMax[p])

\* While GetProject does not fail the locker lets a task in only if its
\* project has room for it, and no other step adds a task to a project.
LEMMA ActiveStep ==
    ASSUME TypeOK, StoreErr \subseteq {FALSE}, [Next]_vars, NEW p \in Project,
           projMax[p] > 0, Cardinality(ActiveProj(p)) <= projMax[p]
    PROVE  Cardinality(ActiveProj(p)') <= projMax[p]
<1> DEFINE A == ActiveProj(p)
           B == ActiveProj(p)'
<1>0. /\ IsFiniteSet(A) /\ Cardinality(A) \in Nat /\ projMax[p] \in Nat
      /\ running \subseteq Task
  <2>1. running \subseteq Task /\ A \subseteq Task /\ projMax[p] \in Nat
    BY TaskPoolAssumption DEF TypeOK, ActiveProj
  <2> QED
    BY <2>1, TaskPoolAssumption, FS_Subset, FS_CardinalityType
<1>1. CASE B \subseteq A
  <2>1. Cardinality(B) <= Cardinality(A) /\ Cardinality(B) \in Nat
    BY <1>0, <1>1, FS_Subset, FS_CardinalityType
  <2> QED
    BY <1>0, <2>1
<1>2. CASE LockerLock /\ running' # running
  <2>1. /\ running' = running \cup {lockerTask}
        /\ ~ Blocks(lockerTask, FALSE)
    BY <1>2 DEF LockerLock, lock
  <2>2. CASE ProjectID(lockerTask) # p
    <3>1. B \subseteq A
      BY <2>1, <2>2 DEF ActiveProj, ProjectID
    <3> QED
      BY <1>1, <3>1
  <2>3. CASE ProjectID(lockerTask) = p
    <3>1. B = A \cup {lockerTask} /\ lockerTask \notin running
      BY <1>2, <2>1, <2>3 DEF ActiveProj, ProjectID
    <3>2. lockerTask \notin A
      BY <3>1 DEF ActiveProj
    <3>3. Cardinality(B) = Cardinality(A) + 1
      BY <1>0, <3>1, <3>2, FS_AddElement
    <3>4. A = {} \/ Cardinality(A) < projMax[p]
      BY <1>0, <2>1, <2>3 DEF Blocks
    <3>5. A = {} => Cardinality(A) = 0
      BY FS_EmptySet
    <3> QED
      BY <1>0, <3>3, <3>4, <3>5
  <2> QED
    BY <2>2, <2>3
<1>3. CASE LockerUnlock
  <2>1. running' \subseteq running
    BY <1>3 DEF LockerUnlock
  <2> QED
    BY <1>1, <2>1 DEF ActiveProj, ProjectID
<1>4. CASE Restart
  BY <1>1, <1>4 DEF Restart, ActiveProj
<1>5. CASE running' = running
  BY <1>1, <1>5 DEF ActiveProj, ProjectID
<1>6. ASSUME running' # running PROVE LockerLock \/ LockerUnlock \/ Restart
  <2>1. CASE UNCHANGED vars \/ Crash
    BY <1>6, <2>1 DEF vars, Crash, lock
  <2>2. CASE Main
    BY <1>6, <2>2, MainKeepsRunning
  <2>3. CASE Request
    BY <1>6, <2>3, RequestKeepsRunning
  <2>4. ASSUME NEW t \in Task, RunStep(t) \/ PlaybookExit(t) PROVE FALSE
    BY <1>6, <2>4, RunStepKeepsRunning
  <2> QED
    BY <2>1, <2>2, <2>3, <2>4 DEF Next, Locker
<1> QED
  BY <1>2, <1>3, <1>4, <1>5, <1>6

\* The limit is kept by every step that does not lower one.
LEMMA ProjectLimitStep ==
    ASSUME StoreErr \subseteq {FALSE}
    PROVE  TypeOK /\ TypeOK' /\ WithinProjectLimit /\ [Next]_vars /\ [LimitsRise]_projMax
           => WithinProjectLimit'
<1> SUFFICES ASSUME TypeOK, TypeOK', WithinProjectLimit, [Next]_vars, [LimitsRise]_projMax,
                    NEW p \in Project, projMax'[p] > 0
             PROVE  Cardinality(ActiveProj(p)') <= projMax'[p]
  BY DEF WithinProjectLimit
<1>1. projMax[p] \in Nat /\ projMax'[p] \in Nat
  BY TaskPoolAssumption DEF TypeOK
<1>2. projMax[p] > 0 /\ projMax'[p] >= projMax[p]
  BY <1>1 DEF LimitsRise
<1>3. Cardinality(ActiveProj(p)') <= projMax[p]
  BY <1>2, ActiveStep DEF WithinProjectLimit
<1>4. Cardinality(ActiveProj(p)') \in Nat
  <2>1. ActiveProj(p)' \subseteq Task
    BY DEF TypeOK, ActiveProj
  <2> QED
    BY <2>1, TaskPoolAssumption, FS_Subset, FS_CardinalityType
<1> QED
  BY <1>1, <1>2, <1>3, <1>4

\* A project never has more tasks running than its limit allows, as long as
\* nobody lowers the limit and the store answers GetProject: blocks lets a
\* task through when GetProject fails, and does not count again when the
\* limit changes.
THEOREM ProjectLimitRespected ==
    ASSUME StoreErr \subseteq {FALSE}
    PROVE  Spec /\ [][LimitsRise]_projMax => []WithinProjectLimit
<1>1. Init => WithinProjectLimit
  <2> SUFFICES ASSUME Init, NEW p \in Project PROVE Cardinality(ActiveProj(p)) = 0 /\ projMax[p] \in Nat
    BY DEF WithinProjectLimit
  <2>1. ActiveProj(p) = {}
    BY DEF Init, ActiveProj
  <2> QED
    BY <2>1, FS_EmptySet, TaskPoolAssumption DEF Init
<1>2. TypeOK /\ TypeOK' /\ WithinProjectLimit /\ [Next]_vars /\ [LimitsRise]_projMax
      => WithinProjectLimit'
  BY ProjectLimitStep
<1> QED
  BY <1>1, <1>2, TypeCorrect, PTL DEF Spec

=============================================================================
