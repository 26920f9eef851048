------------------------------ MODULE TaskPool ------------------------------
(***************************************************************************)
(* The task pool of the Semaphore server (services/tasks): the main loop   *)
(* of TaskPool.Run, its resource-locker goroutine, one goroutine per       *)
(* executed task (TaskRunner.run with a LocalJob), and the API handlers    *)
(* that add, stop and remove tasks while those goroutines run.             *)
(*                                                                         *)
(* One step is one piece of code between two points at which another       *)
(* goroutine can interfere: a channel operation, a change of status, the   *)
(* copy of the task and the write of its row that follow it, the start or  *)
(* the end of the playbook.                                                *)
(***************************************************************************)
EXTENDS TaskStatus, Integers, Sequences, FiniteSets

CONSTANTS
    Task,              \* task ids
    Template,          \* template ids
    Project,           \* project ids
    NoTask,            \* "no task"
    TemplateOf,        \* Task.TemplateID
    ProjectOf,         \* Template.ProjectID
    AutorunOf,         \* templates that autorun after a build template
    MaxParallelTasks,  \* util.Config.MaxParallelTasks, 0 for no limit
    ProjectLimits,     \* the values Project.MaxParallelTasks can be given
    StoreErr,          \* whether GetProject can fail: {FALSE} or BOOLEAN
    StrictUpdate,      \* UpdateTask of a missing row: Bolt fails, SQL does not
    Addable,           \* bound: the tasks users add, the others being autoruns
    Stopper,           \* bound: the stop requests that users send
    Stoppable,         \* bound: the tasks users send stop requests for
    Removable,         \* bound: the tasks users send remove requests for
    MayCrash           \* bound: whether the process can be killed

ASSUME TaskPoolAssumption ==
    /\ NoTask \notin Task
    /\ IsFiniteSet(Task)
    /\ TemplateOf \in [Task -> Template]
    /\ ProjectOf \in [Template -> Project]
    /\ AutorunOf \in [Template -> SUBSET Template]
    /\ MaxParallelTasks \in Nat
    /\ ProjectLimits \subseteq Nat
    /\ StoreErr \subseteq BOOLEAN
    /\ StrictUpdate \in BOOLEAN
    /\ Addable \subseteq Task
    /\ Stoppable \subseteq Task
    /\ Removable \subseteq Task
    /\ MayCrash \in BOOLEAN

VARIABLES
    \* the process and its database
    up,          \* FALSE once a goroutine has panicked
    row,         \* status in the task table, "absent" before and after
    projMax,     \* Project.MaxParallelTasks
    \* the main loop
    mainPc,      \* "select", or where in the ticker or register case it is
    queue,       \* TaskPool.queue
    regSave,     \* its save of the task it has registered, the last of queue
    \* the locker goroutine
    lockerPc,    \* "idle", or the kind of the message it has received
    lockerTask,  \* the holder named by that message
    running,     \* TaskPool.runningTasks; activeProj groups it by project
    \* the TaskRunner of each task
    pc,          \* where its goroutine is
    status,      \* TaskRunner.Task.Status
    proc,        \* LocalJob.Process, "nil" again once it has been waited for
    autorun,     \* templates whose autorun is still to be added
    parent,      \* the task whose goroutine is in AddTask for this one
    save,        \* the save its goroutine is in
    \* the stop requests
    stop,        \* what each of them is doing
    \* history
    raced        \* tasks whose status was set while an older one was being saved

db   == <<up, row, projMax>>
main == <<mainPc, queue, regSave>>
lock == <<lockerPc, lockerTask, running>>
run  == <<pc, status, proc, autorun, parent, save>>
vars == <<up, row, projMax, mainPc, queue, regSave, lockerPc, lockerTask, running,
          pc, status, proc, autorun, parent, save, stop, raced>>

ProjectID(t) == ProjectOf[TemplateOf[t]]

\* Where the goroutine of TaskRunner.run can be while it may use the
\* resources of its template: from `go t.run()' to the deferred unlock.
RunPcs == {"begin", "setStarting", "starting", "preparing", "playbook", "ok",
           "setSuccess", "err", "autorun", "unlock"}

\* "details": AddTask has inserted the row; "created": it is sending to
\* p.register; "lost": the server has restarted since.
Pcs == {"none", "details", "created", "rejected", "queued", "dropped", "save", "done",
        "lost"} \cup RunPcs

\* A save: saveStatus sends to the browsers of the users, which can take time
\* ("call"), then UpdateTask gets a copy of the task, whose status it will
\* write into the row once it has the database.
Copies == {"none", "call"} \cup TaskStatuses

\* A stop request in SetStatus, or about to kill the process; next says
\* whether it will, because the status was running when it came.
IdleStop == [pc |-> "idle", task |-> NoTask, copy |-> "none", next |-> "over"]
OverStop == [pc |-> "over", task |-> NoTask, copy |-> "none", next |-> "over"]
StopRequest ==
    {IdleStop, OverStop}
    \cup [pc : {"save"}, task : Task, copy : Copies \ {"none"}, next : {"kill", "over"}]
    \cup [pc : {"kill"}, task : Task, copy : {"none"}, next : {"kill"}]

TypeOK ==
    /\ up \in BOOLEAN
    /\ row \in [Task -> TaskStatuses \cup {"absent"}]
    /\ projMax \in [Project -> ProjectLimits]
    /\ mainPc \in {"select", "register", "send", "spawn", "pop"}
    /\ queue \in Seq(Task)
    /\ mainPc # "select" => queue # <<>>
    /\ regSave \in Copies
    /\ lockerPc \in {"idle", "lock", "unlock"}
    /\ lockerTask \in Task \cup {NoTask}
    /\ lockerPc # "idle" => lockerTask \in Task
    /\ running \subseteq Task
    /\ pc \in [Task -> Pcs]
    /\ status \in [Task -> TaskStatuses]
    /\ proc \in [Task -> {"nil", "live", "ok", "failed"}]
    /\ autorun \in [Task -> SUBSET Template]
    /\ parent \in [Task -> Task \cup {NoTask}]
    /\ save \in [Task -> Copies]
    /\ stop \in [Stopper -> StopRequest]
    /\ raced \subseteq Task

Init ==
    /\ up = TRUE
    /\ row = [t \in Task |-> "absent"]
    /\ projMax \in [Project -> ProjectLimits]
    /\ mainPc = "select"
    /\ queue = <<>>
    /\ regSave = "none"
    /\ lockerPc = "idle"
    /\ lockerTask = NoTask
    /\ running = {}
    /\ pc = [t \in Task |-> "none"]
    /\ status = [t \in Task |-> "waiting"]
    /\ proc = [t \in Task |-> "nil"]
    /\ autorun = [t \in Task |-> {}]
    /\ parent = [t \in Task |-> NoTask]
    /\ save = [t \in Task |-> "none"]
    /\ stop = [s \in Stopper |-> IdleStop]
    /\ raced = {}

-----------------------------------------------------------------------------
(***************************************************************************)
(* Helpers.                                                                *)
(***************************************************************************)

InQueue(t) == \E i \in 1..Len(queue) : queue[i] = t

\* TaskPool.GetTask(id) # nil.
InPool(t) == InQueue(t) \/ t \in running

ActiveProj(p) == {r \in running : ProjectID(r) = p}

\* Faulty variant of blocks: a limit that is off by one.
BlocksOffByOne(t, err) ==
    \/ MaxParallelTasks > 0 /\ Cardinality(running) > MaxParallelTasks
    \/ \E r \in ActiveProj(ProjectID(t)) : TemplateOf[r] = TemplateOf[t]
    \/ /\ ActiveProj(ProjectID(t)) # {}
       /\ ~ err
       /\ projMax[ProjectID(t)] > 0
       /\ Cardinality(ActiveProj(ProjectID(t))) > projMax[ProjectID(t)]

\* TaskPool.blocks(t); err is a failure of GetProject, which is only called
\* when another task of the project is active.
Blocks(t, err) ==
    \/ MaxParallelTasks > 0 /\ Cardinality(running) >= MaxParallelTasks
    \/ \E r \in ActiveProj(ProjectID(t)) : TemplateOf[r] = TemplateOf[t]
    \/ /\ ActiveProj(ProjectID(t)) # {}
       /\ ~ err
       /\ projMax[ProjectID(t)] > 0
       /\ Cardinality(ActiveProj(ProjectID(t))) >= projMax[ProjectID(t)]

\* The task that the main loop has just registered.
Registered == queue[Len(queue)]

\* Somebody saves task t: its own goroutine, the main loop or a stop request.
Saving(t) ==
    \/ save[t] # "none"
    \/ mainPc = "register" /\ Registered = t
    \/ \E s \in Stopper : stop[s].task = t /\ stop[s].copy # "none"

\* Somebody has a copy of t with this status in hand, to write it.  A copy
\* with "stopped" is never out of date: it is the last status of a runner.
InHand(t, st) ==
    \/ save[t] = st
    \/ mainPc = "register" /\ Registered = t /\ regSave = st
    \/ \E s \in Stopper : stop[s].task = t /\ stop[s].copy = st

Others(t, s) == \E st \in TaskStatuses \ {s, "stopped"} : InHand(t, st)

\* Faulty variant: an update that inserts the row it does not find.
UpdateTaskUpserts(t, st) == row' = [row EXCEPT ![t] = st]

\* UpdateTask with a copy of t: a row that is not there is not inserted.
UpdateTask(t, st) == row' = IF row[t] = "absent" THEN row ELSE [row EXCEPT ![t] = st]

\* The update of a missing row is an error, and that is a panic (saveStatus).
UpdateFails(t) == StrictUpdate /\ row[t] = "absent"

\* t.Task.Status = s: what others have in hand of t is out of date from here.
Assign(t, s) ==
    /\ status' = [status EXCEPT ![t] = s]
    /\ raced' = IF Others(t, s) THEN raced \cup {t} ELSE raced

\* A copy is taken; when it is the only one it ends a race.
TakeCopy(t) == raced' = IF Others(t, "none") THEN raced ELSE raced \ {t}

\* Faulty variant: the status is not saved.
SetStatusUnsaved(t, s) ==
    IF Accepts(status[t], s) THEN Assign(t, s) /\ UNCHANGED save
    ELSE UNCHANGED <<status, raced, save>>

\* TaskRunner.SetStatus in the goroutine of t, up to its save.
SetStatus(t, s) ==
    IF Accepts(status[t], s)
    THEN Assign(t, s) /\ save' = [save EXCEPT ![t] = "call"]
    ELSE UNCHANGED <<status, raced, save>>

(***************************************************************************)
(* Faulty variants of the steps below, which the properties tell apart     *)
(* from the real ones.                                                     *)
(***************************************************************************)

\* The blocked head is appended again but not removed from the front.
TickKeepsHead ==
    /\ up
    /\ mainPc = "select"
    /\ queue # <<>>
    /\ queue' = IF Blocks(Head(queue), FALSE) THEN Append(queue, Head(queue)) ELSE queue
    /\ mainPc' = IF Blocks(Head(queue), FALSE) THEN "select" ELSE "send"
    /\ Len(queue) < 5
    /\ UNCHANGED <<db, regSave, lock, run, stop, raced>>

\* The blocked head stays at the front.
TickNoRotation ==
    /\ up
    /\ mainPc = "select"
    /\ queue # <<>>
    /\ ~ Blocks(Head(queue), FALSE)
    /\ mainPc' = "send"
    /\ UNCHANGED <<db, queue, regSave, lock, run, stop, raced>>

\* The task is started without a lock.
TickNoLock ==
    /\ up
    /\ mainPc = "select"
    /\ queue # <<>>
    /\ ~ Blocks(Head(queue), FALSE)
    /\ mainPc' = "spawn"
    /\ UNCHANGED <<db, queue, regSave, lock, run, stop, raced>>

\* The task leaves the queue where it is started, and once more after it.
SpawnPops ==
    /\ up
    /\ mainPc = "spawn"
    /\ pc' = [pc EXCEPT ![Head(queue)] = "begin"]
    /\ queue' = Tail(queue)
    /\ mainPc' = "pop"
    /\ UNCHANGED <<db, regSave, lock, status, proc, autorun, parent, save, stop, raced>>

\* The locker trusts the main loop.
LockerLockUnchecked ==
    /\ up
    /\ lockerPc = "lock"
    /\ running' = running \cup {lockerTask}
    /\ lockerPc' = "idle"
    /\ lockerTask' = NoTask
    /\ UNCHANGED <<db, main, run, stop, raced>>

\* The locker waits for the lock instead of refusing it.
LockerLockWaits == lockerPc = "lock" /\ ~ Blocks(lockerTask, FALSE) /\ LockerLockUnchecked

\* The early return of a stopped task skips the deferred unlock.
RunBeginNoUnlock(t) ==
    /\ up
    /\ pc[t] = "begin"
    /\ IF status[t] = "stopping"
       THEN SetStatus(t, "stopped") /\ pc' = [pc EXCEPT ![t] = "done"]
       ELSE /\ pc' = [pc EXCEPT ![t] = "setStarting"]
            /\ UNCHANGED <<status, raced, save>>
    /\ UNCHANGED <<db, main, lock, proc, autorun, parent, stop>>

\* The error of the job is logged but not made the status of the task.
RunErrSilent(t) ==
    /\ up
    /\ pc[t] = "err"
    /\ pc' = [pc EXCEPT ![t] = "unlock"]
    /\ UNCHANGED <<db, main, lock, status, proc, autorun, parent, save, stop, raced>>

-----------------------------------------------------------------------------
(***************************************************************************)
(* TaskPool.AddTask, called by an API request or by a schedule (by = no    *)
(* task) or by the goroutine of a build task for its autoruns: the row is  *)
(* inserted, then the details of the task are loaded.                      *)
(***************************************************************************)
Create(t, by) ==
    /\ pc[t] = "none"
    /\ pc' = [pc EXCEPT ![t] = "details"]
    /\ row' = [row EXCEPT ![t] = "waiting"]
    /\ parent' = [parent EXCEPT ![t] = by]

AddTask(t) ==
    /\ up
    /\ Create(t, NoTask)
    /\ UNCHANGED <<up, projMax, main, lock, status, proc, autorun, save, stop, raced>>

\* A task whose details cannot be loaded is left failed and unqueued.
Details(t) ==
    /\ up
    /\ pc[t] = "details"
    /\ \/ /\ pc' = [pc EXCEPT ![t] = "created"]
          /\ UNCHANGED <<status, raced, save>>
       \/ /\ pc' = [pc EXCEPT ![t] = "rejected"]
          /\ SetStatus(t, "error")
    /\ UNCHANGED <<db, main, lock, proc, autorun, parent, stop>>

\* The main loop receives the task AddTask is sending to p.register, and
\* saves it.
Register(t) ==
    /\ up
    /\ mainPc = "select"
    /\ pc[t] = "created"
    /\ queue' = Append(queue, t)
    /\ pc' = [pc EXCEPT ![t] = "queued"]
    /\ parent' = [parent EXCEPT ![t] = NoTask]
    /\ mainPc' = "register"
    /\ regSave' = "call"
    /\ UNCHANGED <<db, lock, status, proc, autorun, save, stop, raced>>

RegisterCall ==
    /\ up
    /\ mainPc = "register"
    /\ regSave = "call"
    /\ regSave' = status[Registered]
    /\ TakeCopy(Registered)
    /\ UNCHANGED <<db, mainPc, queue, lock, run, stop>>

RegisterSave ==
    /\ up
    /\ mainPc = "register"
    /\ regSave \in TaskStatuses
    /\ UpdateTask(Registered, regSave)
    /\ up' = ~ UpdateFails(Registered)
    /\ regSave' = "none"
    /\ mainPc' = "select"
    /\ UNCHANGED <<projMax, queue, lock, run, stop, raced>>

(***************************************************************************)
(* The ticker case of the main loop.  A task whose lock is free is sent to *)
(* the locker (SendLock), started (Spawn) and only then removed from the   *)
(* queue (Pop); no goroutine but this one changes the queue.               *)
(***************************************************************************)
Tick ==
    /\ up
    /\ mainPc = "select"
    /\ queue # <<>>
    /\ LET t == Head(queue) IN
       IF status[t] = "error"
       THEN /\ queue' = Tail(queue)
            /\ pc' = [pc EXCEPT ![t] = "dropped"]
            /\ UNCHANGED mainPc
       ELSE \E err \in StoreErr :
            /\ queue' = IF Blocks(t, err) THEN Append(Tail(queue), t) ELSE queue
            /\ mainPc' = IF Blocks(t, err) THEN "select" ELSE "send"
            /\ UNCHANGED pc
    /\ UNCHANGED <<db, regSave, lock, status, proc, autorun, parent, save, stop, raced>>

\* The ticker fires and there is nothing to do.
TickIdle ==
    /\ up
    /\ mainPc = "select"
    /\ queue = <<>>
    /\ UNCHANGED vars

\* The send returns as soon as the locker has received the message, before
\* the locker has acted on it.
SendLock ==
    /\ up
    /\ mainPc = "send"
    /\ lockerPc = "idle"
    /\ lockerPc' = "lock"
    /\ lockerTask' = Head(queue)
    /\ mainPc' = "spawn"
    /\ UNCHANGED <<db, queue, regSave, running, run, stop, raced>>

Spawn ==
    /\ up
    /\ mainPc = "spawn"
    /\ pc' = [pc EXCEPT ![Head(queue)] = "begin"]
    /\ mainPc' = "pop"
    /\ UNCHANGED <<db, queue, regSave, lock, status, proc, autorun, parent, save, stop, raced>>

Pop ==
    /\ up
    /\ mainPc = "pop"
    /\ queue' = Tail(queue)
    /\ mainPc' = "select"
    /\ UNCHANGED <<db, regSave, lock, run, stop, raced>>

-----------------------------------------------------------------------------
(***************************************************************************)
(* The locker goroutine.                                                   *)
(***************************************************************************)

\* blocks(t) is evaluated again; a lock that is taken is a panic.
LockerLock ==
    /\ up
    /\ lockerPc = "lock"
    /\ \E err \in StoreErr :
       IF Blocks(lockerTask, err)
       THEN up' = FALSE /\ UNCHANGED lock
       ELSE /\ running' = running \cup {lockerTask}
            /\ lockerPc' = "idle"
            /\ lockerTask' = NoTask
            /\ UNCHANGED up
    /\ UNCHANGED <<row, projMax, main, run, stop, raced>>

LockerUnlock ==
    /\ up
    /\ lockerPc = "unlock"
    /\ running' = running \ {lockerTask}
    /\ lockerPc' = "idle"
    /\ lockerTask' = NoTask
    /\ UNCHANGED <<db, main, run, stop, raced>>

-----------------------------------------------------------------------------
(***************************************************************************)
(* The goroutine of a task: TaskRunner.run and, inside it, LocalJob.Run.   *)
(* It takes its next step when the save of the last one is done.           *)
(***************************************************************************)
At(t, place) == up /\ pc[t] = place /\ save[t] = "none"

\* The status is read, and set in a later step: a stop can come in between.
RunBegin(t) ==
    /\ At(t, "begin")
    /\ IF status[t] = "stopping"
       THEN SetStatus(t, "stopped") /\ pc' = [pc EXCEPT ![t] = "unlock"]
       ELSE /\ pc' = [pc EXCEPT ![t] = "setStarting"]
            /\ UNCHANGED <<status, raced, save>>
    /\ UNCHANGED <<db, main, lock, proc, autorun, parent, stop>>

RunStarting(t) ==
    /\ At(t, "setStarting")
    /\ SetStatus(t, "starting")
    /\ pc' = [pc EXCEPT ![t] = "starting"]
    /\ UNCHANGED <<db, main, lock, proc, autorun, parent, stop>>

JobRun(t) ==
    /\ At(t, "starting")
    /\ SetStatus(t, "running")
    /\ pc' = [pc EXCEPT ![t] = "preparing"]
    /\ UNCHANGED <<db, main, lock, proc, autorun, parent, stop>>

\* prepareRun, the arguments or the start of the process fail, or the
\* process is started and handed to LocalJob.Process.
Prepare(t) ==
    /\ At(t, "preparing")
    /\ \/ pc' = [pc EXCEPT ![t] = "err"] /\ UNCHANGED proc
       \/ /\ pc' = [pc EXCEPT ![t] = "playbook"]
          /\ proc' = [proc EXCEPT ![t] = "live"]
    /\ UNCHANGED <<db, main, lock, status, autorun, parent, save, stop, raced>>

\* ansible-playbook ends by itself.
PlaybookExit(t) ==
    /\ up
    /\ pc[t] = "playbook"
    /\ proc[t] = "live"
    /\ \E res \in {"ok", "failed"} : proc' = [proc EXCEPT ![t] = res]
    /\ UNCHANGED <<db, main, lock, pc, status, autorun, parent, save, stop, raced>>

\* cmd.Wait returns.
JobReturn(t) ==
    /\ At(t, "playbook")
    /\ proc[t] \in {"ok", "failed"}
    /\ pc' = [pc EXCEPT ![t] = IF proc[t] = "ok" THEN "ok" ELSE "err"]
    /\ proc' = [proc EXCEPT ![t] = "nil"]
    /\ UNCHANGED <<db, main, lock, status, autorun, parent, save, stop, raced>>

RunErr(t) ==
    /\ At(t, "err")
    /\ SetStatus(t, "error")
    /\ pc' = [pc EXCEPT ![t] = "unlock"]
    /\ UNCHANGED <<db, main, lock, proc, autorun, parent, stop>>

\* The autorun templates are looked up whatever the status has become.
RunOk(t) ==
    /\ At(t, "ok")
    /\ pc' = [pc EXCEPT ![t] = IF status[t] = "running" THEN "setSuccess" ELSE "autorun"]
    /\ autorun' = [autorun EXCEPT ![t] = AutorunOf[TemplateOf[t]]]
    /\ UNCHANGED <<db, main, lock, status, proc, parent, save, stop, raced>>

RunSuccess(t) ==
    /\ At(t, "setSuccess")
    /\ SetStatus(t, "success")
    /\ pc' = [pc EXCEPT ![t] = "autorun"]
    /\ UNCHANGED <<db, main, lock, proc, autorun, parent, stop>>

\* The goroutine waits in AddTask until its last autorun is with the main
\* loop, or is saved as failed.
Adding(t) == \E c \in Task : parent[c] = t

AutorunAdd(t, c) ==
    /\ At(t, "autorun")
    /\ ~ Adding(t)
    /\ TemplateOf[c] \in autorun[t]
    /\ autorun' = [autorun EXCEPT ![t] = @ \ {TemplateOf[c]}]
    /\ Create(c, t)
    /\ UNCHANGED <<up, projMax, main, lock, status, proc, save, stop, raced>>

\* AddTask returns an error before it has created a row.
AutorunFail(t, tpl) ==
    /\ At(t, "autorun")
    /\ ~ Adding(t)
    /\ tpl \in autorun[t]
    /\ autorun' = [autorun EXCEPT ![t] = @ \ {tpl}]
    /\ UNCHANGED <<db, main, lock, pc, status, proc, parent, save, stop, raced>>

AutorunDone(t) ==
    /\ At(t, "autorun")
    /\ ~ Adding(t)
    /\ autorun[t] = {}
    /\ pc' = [pc EXCEPT ![t] = "unlock"]
    /\ UNCHANGED <<db, main, lock, status, proc, autorun, parent, save, stop, raced>>

\* The deferred function: the unlock, then the end of the task is saved.
SendUnlock(t) ==
    /\ At(t, "unlock")
    /\ lockerPc = "idle"
    /\ lockerPc' = "unlock"
    /\ lockerTask' = t
    /\ pc' = [pc EXCEPT ![t] = "save"]
    /\ UNCHANGED <<db, main, running, status, proc, autorun, parent, save, stop, raced>>

FinalSave(t) ==
    /\ At(t, "save")
    /\ save' = [save EXCEPT ![t] = "call"]
    /\ pc' = [pc EXCEPT ![t] = "done"]
    /\ UNCHANGED <<db, main, lock, status, proc, autorun, parent, stop, raced>>

\* saveStatus: the users have been told, and UpdateTask is called.
SaveCall(t) ==
    /\ up
    /\ save[t] = "call"
    /\ save' = [save EXCEPT ![t] = status[t]]
    /\ TakeCopy(t)
    /\ UNCHANGED <<db, main, lock, pc, status, proc, autorun, parent, stop>>

\* The panic ends the process, except in an API request that added a task
\* (net/http recovers it); a schedule is no request.
SaveWrite(t) ==
    /\ up
    /\ save[t] \in TaskStatuses
    /\ UpdateTask(t, save[t])
    /\ save' = [save EXCEPT ![t] = "none"]
    /\ \/ up' = ~ UpdateFails(t)
       \/ pc[t] = "rejected" /\ parent[t] = NoTask /\ up' = TRUE
    /\ parent' = [parent EXCEPT ![t] = NoTask]
    /\ UNCHANGED <<projMax, main, lock, pc, status, proc, autorun, stop, raced>>

-----------------------------------------------------------------------------
(***************************************************************************)
(* API requests.  GetTaskMiddleware has found the row of the task.         *)
(***************************************************************************)

\* StopTask of a task that the pool knows sets its status; a status that
\* refuses this is not running either, so nothing happens then.
StopActive(s, t, force) ==
    /\ up
    /\ stop[s].pc = "idle"
    /\ row[t] # "absent"
    /\ InPool(t)
    /\ LET new == IF force THEN "stopped" ELSE "stopping" IN
       Accepts(status[t], new) /\ Assign(t, new)
    /\ stop' = [stop EXCEPT ![s] = [pc |-> "save", task |-> t, copy |-> "call",
                                    next |-> IF status[t] = "running" THEN "kill" ELSE "over"]]
    /\ UNCHANGED <<db, main, lock, pc, proc, autorun, parent, save>>

\* StopTask of a task that is only in the database: a TaskRunner made for
\* the request, from the row, is set to stopped.
StopShadow(s, t) ==
    /\ up
    /\ stop[s].pc = "idle"
    /\ row[t] # "absent"
    /\ ~ InPool(t)
    /\ Accepts(row[t], "stopped")
    /\ stop' = [stop EXCEPT ![s] = [pc |-> "save", task |-> t, copy |-> "stopped",
                                    next |-> "over"]]
    /\ UNCHANGED <<db, main, lock, run, raced>>

StopCall(s) ==
    /\ up
    /\ stop[s].copy = "call"
    /\ stop' = [stop EXCEPT ![s].copy = status[stop[s].task]]
    /\ TakeCopy(stop[s].task)
    /\ UNCHANGED <<db, main, lock, run>>

\* When the row is gone the panic ends the request, and nothing is killed.
StopWrite(s) ==
    /\ up
    /\ stop[s].copy \in TaskStatuses
    /\ UpdateTask(stop[s].task, stop[s].copy)
    /\ stop' = [stop EXCEPT ![s] =
                  IF @.next = "kill" /\ ~ UpdateFails(@.task)
                  THEN [@ EXCEPT !.pc = "kill", !.copy = "none"] ELSE OverStop]
    /\ UNCHANGED <<up, projMax, main, lock, run, raced>>

\* The process of the task is killed; there is none before it is started.
StopKill(s) ==
    /\ up
    /\ stop[s].pc = "kill"
    /\ LET t == stop[s].task IN
       proc' = IF proc[t] = "live" THEN [proc EXCEPT ![t] = "failed"] ELSE proc
    /\ stop' = [stop EXCEPT ![s] = OverStop]
    /\ UNCHANGED <<db, main, lock, pc, status, autorun, parent, save, raced>>

RemoveTask(t) ==
    /\ up
    /\ row[t] # "absent"
    /\ ~ InPool(t)
    /\ row' = [row EXCEPT ![t] = "absent"]
    /\ UNCHANGED <<up, projMax, main, lock, run, stop, raced>>

UpdateProject(p) ==
    /\ up
    /\ \E n \in ProjectLimits \ {projMax[p]} : projMax' = [projMax EXCEPT ![p] = n]
    /\ UNCHANGED <<up, row, main, lock, run, stop, raced>>

(***************************************************************************)
(* The process ends (killed, or a panic that is not modelled by itself)    *)
(* and is started again: everything but the database is gone.              *)
(***************************************************************************)
Crash ==
    /\ MayCrash
    /\ up
    /\ up' = FALSE
    /\ UNCHANGED <<row, projMax, main, lock, run, stop, raced>>

Restart ==
    /\ ~ up
    /\ up' = TRUE
    /\ mainPc' = "select"
    /\ queue' = <<>>
    /\ regSave' = "none"
    /\ lockerPc' = "idle"
    /\ lockerTask' = NoTask
    /\ running' = {}
    /\ pc' = [t \in Task |-> IF pc[t] = "none" THEN "none" ELSE "lost"]
    /\ status' = [t \in Task |-> "waiting"]
    /\ proc' = [t \in Task |-> "nil"]
    /\ autorun' = [t \in Task |-> {}]
    /\ parent' = [t \in Task |-> NoTask]
    /\ save' = [t \in Task |-> "none"]
    /\ stop' = [s \in Stopper |-> IF stop[s].pc = "idle" THEN IdleStop ELSE OverStop]
    /\ raced' = {}
    /\ UNCHANGED <<row, projMax>>

-----------------------------------------------------------------------------
\* The main loop inside one of its cases, where only one step is possible.
MainGoesOn == SendLock \/ Spawn \/ Pop \/ RegisterCall \/ RegisterSave

MainRegister == \E t \in Task : Register(t)

Main == Tick \/ TickIdle \/ MainRegister \/ MainGoesOn

Locker == LockerLock \/ LockerUnlock

\* A step of t's own goroutine, or of the one that adds t.
RunStep(t) ==
    \/ RunBegin(t) \/ RunStarting(t) \/ JobRun(t) \/ Prepare(t) \/ JobReturn(t)
    \/ RunErr(t) \/ RunOk(t) \/ RunSuccess(t) \/ AutorunDone(t)
    \/ SendUnlock(t) \/ FinalSave(t) \/ SaveCall(t) \/ SaveWrite(t) \/ Details(t)
    \/ \E c \in Task : AutorunAdd(t, c)
    \/ \E tpl \in Template : AutorunFail(t, tpl)

\* A step of a stop request under way.
StopStep(s) == StopCall(s) \/ StopWrite(s) \/ StopKill(s)

Request ==
    \/ \E t \in Addable : AddTask(t)
    \/ \E s \in Stopper, t \in Stoppable :
          StopShadow(s, t) \/ \E force \in BOOLEAN : StopActive(s, t, force)
    \/ \E s \in Stopper : StopStep(s)
    \/ \E t \in Removable : RemoveTask(t)
    \/ \E p \in Project : UpdateProject(p)

Next ==
    \/ Main
    \/ Locker
    \/ \E t \in Task : RunStep(t) \/ PlaybookExit(t)
    \/ Request
    \/ Crash
    \/ Restart

Spec == Init /\ [][Next]_vars

(***************************************************************************)
(* Fairness: the Go scheduler runs every goroutine that can run, the       *)
(* ticker keeps firing and select does not ignore p.register for ever; the *)
(* hub takes the messages of a save.  Nothing makes API requests come, and *)
(* nothing makes ansible-playbook end.                                     *)
(***************************************************************************)
Fairness ==
    /\ WF_vars(Tick) /\ WF_vars(MainRegister) /\ WF_vars(MainGoesOn)
    /\ WF_vars(Locker)
    /\ \A t \in Task : WF_vars(RunStep(t))
    /\ \A s \in Stopper : WF_vars(StopStep(s))

FairSpec == Spec /\ Fairness

-----------------------------------------------------------------------------
(***************************************************************************)
(* Safety.                                                                 *)
(***************************************************************************)

\* The locker never holds two tasks of one template at a time, although the
\* main loop decides on a view of the locks that can be out of date
\* (TaskPool.Run, blocks).
LockExclusion ==
    \A t, u \in running : TemplateOf[t] = TemplateOf[u] => t = u

\* Nor more tasks than the server-wide limit (blocks, first test).
WithinLimit ==
    MaxParallelTasks > 0 => Cardinality(running) <= MaxParallelTasks

\* Nor, in one project, more than the project's limit, while that limit is
\* not lowered and GetProject does not fail (blocks, last test).
WithinProjectLimit ==
    \A p \in Project : projMax[p] > 0 => Cardinality(ActiveProj(p)) <= projMax[p]

\* A goroutine of TaskRunner.run is covered by the lock of its template from
\* its first to its last step: the lock is held, or it is the message that
\* the locker is working on (run is started before the locker is done).
HeldWhileRunning ==
    \A t \in Task : pc[t] \in RunPcs =>
        t \in running \/ (lockerPc = "lock" /\ lockerTask = t)

\* A held lock has a goroutine that will release it: the task is running, is
\* about to be started by the main loop, or its unlock is being handled.
NoOrphanLock ==
    \A t \in running :
        \/ pc[t] \in RunPcs
        \/ mainPc = "spawn" /\ Head(queue) = t
        \/ lockerPc = "unlock" /\ lockerTask = t

\* Once nobody is saving a task its row shows what its runner has, whoever
\* set it last, unless a status was set while an older copy was on its way to
\* the row and no save has begun alone since.  A stop of a task that the pool
\* did not find wrote "stopped", and the row can have been removed
\* (SetStatus, saveStatus, StopTask).
RowFollowsRunner ==
    \A t \in Task : pc[t] \notin {"none", "lost"} /\ ~ Saving(t) /\ t \notin raced =>
        row[t] \in {status[t], "stopped", "absent"}

\* A run that is over left a status that says so; "stopping" is possible,
\* "waiting", "starting" and "running" are not (TaskRunner.run).
EndedStatus ==
    \A t \in Task : pc[t] \in {"unlock", "save", "done"} =>
        IsFinished(status[t]) \/ status[t] = "stopping"

\* No task is started a second time, however often it was moved to the end of
\* the queue: `go t.run()' happens to a task that has never run.
StartedOnce ==
    [][\A t \in Task : pc'[t] = "begin" /\ pc[t] # "begin" => pc[t] = "queued"]_vars

\* A row that was removed is not brought back by a goroutine that still works
\* on the task (UpdateTask updates, it does not insert).
RemovedStaysRemoved ==
    [][\A t \in Task : row[t] = "absent" /\ pc[t] # "none" => row'[t] = "absent"]_vars

\* The locker implements the abstract lock manager.
Locks == INSTANCE ResourceLocks WITH held <- running
LocksRefined == Locks!Spec

(***************************************************************************)
(* Liveness.                                                               *)
(***************************************************************************)

\* Main loop, locker and task goroutines wait for one another (p.register,
\* p.resourceLocker), yet none of them for ever: a lock is released unless
\* its playbook does not end or the process is down.
LocksReleased ==
    \A t \in Task : []<>(t \notin running \/ proc[t] = "live" \/ ~ up)

\* A task that waits in the queue for ever is blocked for ever: no other task
\* that is blocked keeps it from the front, and no playbook has to end for it
\* (the rotation in TaskPool.Run).
QueueDrains ==
    \A t \in Task : <>[](up /\ pc[t] = "queued") => <>[]Blocks(t, FALSE)

(***************************************************************************)
(* Statements of the code's comments that its behaviour does not meet.     *)
(***************************************************************************)

\* "Trying to lock an already locked resource!": the locker never receives a
\* lock for a task that is blocked (the panic in TaskPool.Run).
NoDoubleLock == lockerPc = "lock" => ~ Blocks(lockerTask, FALSE)

\* "Mark task as stopped if user stopped task during preparation (before
\* task run).": a task that was stopped before its goroutine looks at its
\* status goes straight to its end (TaskRunner.run).
StoppedBeforeRun ==
    [][\A t \in Task : pc[t] = "begin" /\ status[t] \in {"stopping", "stopped"} =>
        pc'[t] \in {"begin", "unlock", "lost"}]_vars

=============================================================================
