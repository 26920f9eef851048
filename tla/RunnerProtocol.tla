--------------------------- MODULE RunnerProtocol ---------------------------
(***************************************************************************)
(* Tasks that the server gives to a remote runner: the server's side of    *)
(* RemoteJob.Run (services/tasks), the two handlers of the runner API      *)
(* (api/runners), and the JobPool of the runner process                    *)
(* (services/runners), which reports its progress with PUT, asks for work  *)
(* with GET, and loses every request that fails.                           *)
(*                                                                         *)
(* The tasks are past TaskRunner.SetStatus(starting): they are in the      *)
(* pool's runningTasks until RemoteJob.Run has returned.  One runner is    *)
(* modelled; runners share nothing but the server's choice among them.     *)
(***************************************************************************)
EXTENDS TaskStatus, Integers, Sequences, FiniteSets

CONSTANTS
    Task,       \* task ids
    NoTask,     \* "no task"
    Capacity,   \* Runner.MaxParallelTasks
    OneOff,     \* util.Config.Runner.OneOff
    Stoppable,  \* bound: the tasks users send stop requests for
    MayLose,    \* bound: whether requests of the runner can fail
    MaxExecs    \* bound: how often the runner starts one task

ASSUME RunnerAssumption ==
    /\ NoTask \notin Task
    /\ Capacity \in Nat
    /\ OneOff \in BOOLEAN
    /\ Stoppable \subseteq Task
    /\ MayLose \in BOOLEAN
    /\ MaxExecs \in Nat

VARIABLES
    \* the server
    srvPc,      \* where RemoteJob.Run is for each task
    srvStatus,  \* TaskRunner.Task.Status
    assigned,   \* the tasks whose TaskRunner.RunnerID is this runner
    stops,      \* history: the kinds of stop requests made
    \* the runner: queue, running list and main loop
    queue,      \* JobPool.queue
    jobs,       \* JobPool.runningJobs: which execution, 0 for none
    tickPc,     \* "idle", or "pop" after a job was started
    tickSeen,   \* the queue as the ticker case read it
    \* the goroutines that execute jobs
    execs,      \* for each task its executions, in the order they started
    \* the goroutine of the request timer
    reqPc,      \* where it is, "exited" when the process has ended
    body,       \* the RunnerProgress it sends: for each task the execution
                \* that is reported on (0 for none) and its status
    resp,       \* the RunnerState it received
    cand,       \* the new job it looks at
    candSeen    \* the queue when it began to

server == <<srvPc, srvStatus, assigned, stops>>
pool   == <<queue, jobs, tickPc, tickSeen, execs>>
req    == <<reqPc, body, resp, cand, candSeen>>
vars   == <<srvPc, srvStatus, assigned, stops, queue, jobs, tickPc, tickSeen,
            execs, reqPc, body, resp, cand, candSeen>>

\* A runningJob has the zero status "" until its goroutine sets one.
RunnerStatus == TaskStatuses \cup {""}
None == "none"
NoReport == [t \in Task |-> [job |-> 0, st |-> None]]
NoState  == [t \in Task |-> None]
Execution == [pc : {"spawned", "preparing", "playbook", "returned", "done"},
              st : RunnerStatus,
              res : {None, "ok", "err", "killed"}]

TypeOK ==
    /\ srvPc \in [Task -> {"idle", "chosen", "polling", "finish", "ended"}]
    /\ srvStatus \in [Task -> RunnerStatus]
    /\ assigned \subseteq Task
    /\ stops \in [Task -> SUBSET {"stopping", "stopped"}]
    /\ queue \in Seq(Task) /\ tickSeen \in Seq(Task) /\ candSeen \in Seq(Task)
    /\ tickPc \in {"idle", "pop"}
    /\ tickPc = "pop" => tickSeen # <<>> /\ queue # <<>>
    /\ execs \in [Task -> Seq(Execution)]
    /\ jobs \in [Task -> Nat] /\ \A t \in Task : jobs[t] <= Len(execs[t])
    /\ reqPc \in {"idle", "sweep", "put", "check", "get", "apply", "new", "enqueue", "exited"}
    /\ body \in [Task -> [job : Nat, st : RunnerStatus \cup {None}]]
    /\ \A t \in Task : body[t].job <= Len(execs[t])
    /\ resp \in [cur : [Task -> RunnerStatus \cup {None}], new : SUBSET Task]
    /\ cand \in Task \cup {NoTask}

Init ==
    /\ srvPc = [t \in Task |-> "idle"]
    /\ srvStatus = [t \in Task |-> "starting"]
    /\ assigned = {}
    /\ stops = [t \in Task |-> {}]
    /\ queue = <<>> /\ tickSeen = <<>> /\ candSeen = <<>>
    /\ jobs = [t \in Task |-> 0]
    /\ tickPc = "idle"
    /\ execs = [t \in Task |-> <<>>]
    /\ reqPc = "idle"
    /\ body = NoReport
    /\ resp = [cur |-> NoState, new |-> {}]
    /\ cand = NoTask

-----------------------------------------------------------------------------
(***************************************************************************)
(* The server: TaskRunner.run around RemoteJob.Run, and StopTask.          *)
(***************************************************************************)

InPool(t) == srvPc[t] # "ended"

\* TaskPool.GetNumberOfRunningTasksOfRunner.
RunningOnRunner == {t \in assigned : InPool(t)}

\* RemoteJob.Run returns to TaskRunner.run: an error makes the task fail, and a
\* task that is "running" then is successful.
Return(t, failed) ==
    /\ srvPc' = [srvPc EXCEPT ![t] = "ended"]
    /\ srvStatus' = [srvStatus EXCEPT ![t] =
          IF failed THEN NextStatus(@, "error") ELSE IF @ = "running" THEN "success" ELSE @]

\* The runner has room, or "no runners available"; err: the task is not found
\* in the pool, or the list of the runners cannot be read.
Choose(t) ==
    /\ srvPc[t] = "idle"
    /\ \E err \in BOOLEAN :
          IF ~ err /\ Cardinality(RunningOnRunner) < Capacity
          THEN srvPc' = [srvPc EXCEPT ![t] = "chosen"] /\ UNCHANGED srvStatus
          ELSE Return(t, TRUE)
    /\ UNCHANGED <<assigned, stops, pool, req>>

\* The runner is told by webhook "start"; only then is RunnerID set.
Assign(t) ==
    /\ srvPc[t] = "chosen"
    /\ \/ /\ srvPc' = [srvPc EXCEPT ![t] = "polling"]
          /\ assigned' = assigned \cup {t}
          /\ UNCHANGED srvStatus
       \/ Return(t, TRUE) /\ UNCHANGED assigned
    /\ UNCHANGED <<stops, pool, req>>

\* Faulty variant: "stopping" ends the wait as well.
PollStopping(t) ==
    /\ srvPc[t] = "polling"
    /\ IsFinished(srvStatus[t]) \/ srvStatus[t] = "stopping"
    /\ srvPc' = [srvPc EXCEPT ![t] = "finish"]
    /\ UNCHANGED <<srvStatus, assigned, stops, pool, req>>

\* The poll finds a final status ...
Poll(t) ==
    /\ srvPc[t] = "polling"
    /\ IsFinished(srvStatus[t])
    /\ srvPc' = [srvPc EXCEPT ![t] = "finish"]
    /\ UNCHANGED <<srvStatus, assigned, stops, pool, req>>

\* ... and webhook "finish" is called: its failure fails the task, whatever
\* its status was, and so does a status "error", which is read only now.
Finish(t) ==
    /\ srvPc[t] = "finish"
    /\ \E hookFails \in BOOLEAN : Return(t, hookFails \/ srvStatus[t] = "error")
    /\ UNCHANGED <<assigned, stops, pool, req>>

\* RemoteJob.Kill does nothing: the status is all the runner gets to see.
StopTask(t, s) ==
    /\ InPool(t)
    /\ srvStatus' = [srvStatus EXCEPT ![t] = NextStatus(@, s)]
    /\ stops' = [stops EXCEPT ![t] = @ \cup {s}]
    /\ UNCHANGED <<srvPc, assigned, pool, req>>

-----------------------------------------------------------------------------
(***************************************************************************)
(* The runner: ticker case of JobPool.Run and the goroutine of a job.      *)
(***************************************************************************)

Alive == reqPc # "exited"

InQueue(t) == \E i \in 1..Len(queue) : queue[i] = t

\* Faulty variant: the head leaves the queue at once, and once more later.
StartJobPops ==
    /\ Alive
    /\ tickPc = "idle"
    /\ queue # <<>>
    /\ LET t == Head(queue) IN
       /\ Len(execs[t]) < MaxExecs
       /\ execs' = [execs EXCEPT ![t] = Append(@, [pc |-> "spawned", st |-> "", res |-> None])]
       /\ jobs' = [jobs EXCEPT ![t] = Len(execs[t]) + 1]
    /\ queue' = Tail(queue)
    /\ tickPc' = "pop"
    /\ tickSeen' = queue
    /\ UNCHANGED <<server, req>>

\* The head is put into runningJobs and its goroutine is started ...
StartJob ==
    /\ Alive
    /\ tickPc = "idle"
    /\ queue # <<>>
    /\ LET t == Head(queue) IN
       /\ Len(execs[t]) < MaxExecs
       /\ execs' = [execs EXCEPT ![t] = Append(@, [pc |-> "spawned", st |-> "", res |-> None])]
       /\ jobs' = [jobs EXCEPT ![t] = Len(execs[t]) + 1]
    /\ tickPc' = "pop"
    /\ tickSeen' = queue
    /\ UNCHANGED <<server, queue, req>>

\* ... and then it is removed.  The queue is a slice that the other goroutine
\* appends to without synchronisation: an append in between can be undone.
PopJob ==
    /\ Alive
    /\ tickPc = "pop"
    /\ queue' \in {Tail(queue), Tail(tickSeen)}
    /\ tickPc' = "idle"
    /\ tickSeen' = <<>>
    /\ UNCHANGED <<server, jobs, execs, req>>

Exec(t, i, e) == execs' = [execs EXCEPT ![t][i] = e]

\* SetStatus(Running) here and again in LocalJob.Run.
ExecBegin(t, i) ==
    /\ Alive
    /\ execs[t][i].pc = "spawned"
    /\ Exec(t, i, [pc |-> "preparing", st |-> "running", res |-> None])
    /\ UNCHANGED <<server, queue, jobs, tickPc, tickSeen, req>>

ExecPrepare(t, i) ==
    /\ Alive
    /\ execs[t][i].pc = "preparing"
    /\ \/ Exec(t, i, [execs[t][i] EXCEPT !.pc = "playbook"])
       \/ Exec(t, i, [execs[t][i] EXCEPT !.pc = "returned", !.res = "err"])
    /\ UNCHANGED <<server, queue, jobs, tickPc, tickSeen, req>>

\* ansible-playbook ends by itself.
PlaybookExit(t, i) ==
    /\ Alive
    /\ execs[t][i].pc = "playbook"
    /\ \E res \in {"ok", "err"} :
          Exec(t, i, [execs[t][i] EXCEPT !.pc = "returned", !.res = res])
    /\ UNCHANGED <<server, queue, jobs, tickPc, tickSeen, req>>

\* Faulty variant: the error of the job is not looked at.
FinalStatusBlind(e) == IF IsFinished(e.st) THEN e.st ELSE "success"

\* What the goroutine makes of its status when LocalJob.Run has returned.
FinalStatus(e) ==
    CASE IsFinished(e.st) -> e.st
      [] ~ IsFinished(e.st) /\ e.res = "ok" -> "success"
      [] ~ IsFinished(e.st) /\ e.res # "ok" ->
            IF e.st = "stopping" THEN "stopped" ELSE "error"

ExecFinish(t, i) ==
    /\ Alive
    /\ execs[t][i].pc = "returned"
    /\ Exec(t, i, [execs[t][i] EXCEPT !.pc = "done", !.st = FinalStatus(execs[t][i])])
    /\ UNCHANGED <<server, queue, jobs, tickPc, tickSeen, req>>

-----------------------------------------------------------------------------
(***************************************************************************)
(* The request timer: sendProgress, then checkNewJobs.                     *)
(***************************************************************************)

JobStatus(t) == IF jobs[t] = 0 THEN None ELSE execs[t][jobs[t]].st

SendProgress ==
    /\ reqPc = "idle"
    /\ body' = [t \in Task |-> [job |-> jobs[t], st |-> JobStatus(t)]]
    /\ reqPc' = "sweep"
    /\ UNCHANGED <<server, pool, resp, cand, candSeen>>

\* The statuses are read again: jobs that have finished by now leave the list
\* before the request is made.
SweepFinished ==
    /\ reqPc = "sweep"
    /\ jobs' = [t \in Task |->
          IF body[t].job # 0 /\ IsFinished(execs[t][body[t].job].st) THEN 0 ELSE jobs[t]]
    /\ reqPc' = "put"
    /\ UNCHANGED <<server, queue, tickPc, tickSeen, execs, body, resp, cand, candSeen>>

\* UpdateRunner on the server; a task it does not know is skipped.
PutDelivered ==
    /\ reqPc = "put"
    /\ srvStatus' = [t \in Task |->
          IF body[t].job # 0 /\ InPool(t) THEN NextStatus(srvStatus[t], body[t].st)
                                          ELSE srvStatus[t]]
    /\ body' = NoReport
    /\ reqPc' = "check"
    /\ UNCHANGED <<srvPc, assigned, stops, pool, resp, cand, candSeen>>

\* The error is printed and the report is gone.
PutLost ==
    /\ MayLose
    /\ reqPc = "put"
    /\ body' = NoReport
    /\ reqPc' = "check"
    /\ UNCHANGED <<server, pool, resp, cand, candSeen>>

\* JobPool.hasRunningJobs.
HasRunningJobs == \E t \in Task : jobs[t] # 0 /\ ~ IsFinished(JobStatus(t))

CheckOneOff ==
    /\ reqPc = "check"
    /\ reqPc' = IF OneOff /\ (\E t \in Task : jobs[t] # 0) /\ ~ HasRunningJobs
                THEN "exited" ELSE "get"
    /\ UNCHANGED <<server, pool, body, resp, cand, candSeen>>

\* GetRunner on the server.
GetRunner ==
    /\ reqPc = "get"
    /\ resp' = [cur |-> [t \in Task |->
                   IF t \in RunningOnRunner /\ srvStatus[t] # "starting"
                   THEN srvStatus[t] ELSE None],
                new |-> {t \in RunningOnRunner : srvStatus[t] = "starting"}]
    /\ reqPc' = "apply"
    /\ UNCHANGED <<server, pool, body, cand, candSeen>>

GetLost ==
    /\ MayLose
    /\ reqPc = "get"
    /\ reqPc' = "idle"
    /\ UNCHANGED <<server, pool, body, resp, cand, candSeen>>

\* LocalJob.Kill: only a process that has been started can be killed.
Killed(e) == IF e.pc = "playbook" THEN [e EXCEPT !.pc = "returned", !.res = "killed"] ELSE e

\* Faulty variants: every job the server still lists as running is killed,
\* and only jobs that were stopped by force are.
AppliedKillAll(e, s) == Killed([e EXCEPT !.st = s])
AppliedKillForced(e, s) ==
    IF s = "stopped" THEN Killed([e EXCEPT !.st = s]) ELSE [e EXCEPT !.st = s]

Applied(e, s) ==
    IF s \in {"stopping", "stopped"} THEN Killed([e EXCEPT !.st = s]) ELSE [e EXCEPT !.st = s]

\* The statuses in the response replace those of the running list, and jobs
\* that are being stopped are killed.
ApplyCurrent ==
    /\ reqPc = "apply"
    /\ execs' = [t \in Task |->
          [i \in 1..Len(execs[t]) |->
             IF i = jobs[t] /\ resp.cur[t] # None
             THEN Applied(execs[t][i], resp.cur[t]) ELSE execs[t][i]]]
    /\ reqPc' = IF OneOff /\ (queue # <<>> \/ \E t \in Task : jobs[t] # 0)
                THEN "idle" ELSE "new"
    /\ resp' = [resp EXCEPT !.cur = NoState]
    /\ UNCHANGED <<server, queue, jobs, tickPc, tickSeen, body, cand, candSeen>>

\* A new job is skipped if it is in the running list ...
NextNew(t) ==
    /\ reqPc = "new"
    /\ t \in resp.new
    /\ resp' = [resp EXCEPT !.new = @ \ {t}]
    /\ IF jobs[t] # 0
       THEN UNCHANGED <<reqPc, cand, candSeen>>
       ELSE reqPc' = "enqueue" /\ cand' = t /\ candSeen' = queue
    /\ UNCHANGED <<server, pool, body>>

\* ... or, looked up afterwards, in the queue.  A removal from the queue in
\* between can be undone by the append.
Enqueue ==
    /\ reqPc = "enqueue"
    /\ IF InQueue(cand) THEN UNCHANGED queue
                        ELSE queue' \in {Append(queue, cand), Append(candSeen, cand)}
    /\ reqPc' = "new"
    /\ cand' = NoTask
    /\ candSeen' = <<>>
    /\ UNCHANGED <<server, jobs, tickPc, tickSeen, execs, body, resp>>

NewDone ==
    /\ reqPc = "new"
    /\ resp.new = {}
    /\ reqPc' = "idle"
    /\ UNCHANGED <<server, pool, body, resp, cand, candSeen>>

-----------------------------------------------------------------------------
Server == \E t \in Task : Choose(t) \/ Assign(t) \/ Poll(t) \/ Finish(t)

ExecStep(t, i) == ExecBegin(t, i) \/ ExecPrepare(t, i) \/ ExecFinish(t, i)

Request ==
    \/ SendProgress \/ SweepFinished \/ PutDelivered \/ CheckOneOff \/ GetRunner \/ ApplyCurrent
    \/ Enqueue \/ NewDone \/ \E t \in Task : NextNew(t)

Next ==
    \/ Server
    \/ \E t \in Stoppable, s \in {"stopping", "stopped"} : StopTask(t, s)
    \/ StartJob
    \/ PopJob
    \/ \E t \in Task : \E i \in 1..Len(execs[t]) : ExecStep(t, i) \/ PlaybookExit(t, i)
    \/ Request
    \/ PutLost
    \/ GetLost

Spec == Init /\ [][Next]_vars

(***************************************************************************)
(* Every goroutine keeps running and the request timer keeps firing; a     *)
(* request gets through infinitely often if it is made infinitely often.   *)
(* Playbooks need not end.                                                 *)
(***************************************************************************)
Fairness ==
    /\ \A t \in Task : WF_vars(Choose(t) \/ Assign(t) \/ Poll(t) \/ Finish(t))
    /\ WF_vars(StartJob) /\ WF_vars(PopJob)
    /\ \A t \in Task, i \in 1..MaxExecs : WF_vars(i <= Len(execs[t]) /\ ExecStep(t, i))
    /\ WF_vars(Request) /\ SF_vars(PutDelivered) /\ SF_vars(GetRunner)

FairSpec == Spec /\ Fairness

\* In addition, playbooks end.
LiveSpec ==
    FairSpec /\ \A t \in Task, i \in 1..MaxExecs :
                    WF_vars(i <= Len(execs[t]) /\ PlaybookExit(t, i))

-----------------------------------------------------------------------------
(***************************************************************************)
(* Properties.                                                             *)
(***************************************************************************)

\* A task that the runner has not started twice is shown as successful only if
\* its execution ended well: neither lost reports, nor stale statuses that
\* checkNewJobs writes over the local ones, nor stop requests make a success
\* up.  (Of a task started twice, the report "running" of the second execution
\* that arrives during webhook "finish" turns the "error" of the first into
\* "success", see Finish and Return.)
SuccessIsReal ==
    \A t \in Task : srvStatus[t] = "success" /\ Len(execs[t]) < 2 =>
        \E i \in 1..Len(execs[t]) : execs[t][i].res = "ok"

\* The runner kills a playbook only if a user asked for the task to be stopped
\* (checkNewJobs).
KillOnlyOnStop ==
    \A t \in Task : \A i \in 1..Len(execs[t]) :
        execs[t][i].res = "killed" => stops[t] # {}

\* The server gives up a task that a runner has accepted, and with it the lock
\* of the template, only after an execution has returned or a stop by force.
EndedForReason ==
    \A t \in Task : srvPc[t] = "ended" /\ t \in assigned =>
        \/ "stopped" \in stops[t]
        \/ \E i \in 1..Len(execs[t]) : execs[t][i].pc = "done"

\* As long as the server waits for a task that is being stopped, the playbook of
\* the execution that the runner lists does not go on for ever: Kill is repeated
\* with every response, so one that came too early is made up for.  (Once the
\* server has given the task up, nobody kills a second execution of it.)
StopKills ==
    \A t \in Task :
        (InPool(t) /\ srvStatus[t] = "stopping" /\ JobStatus(t) # None)
            ~> \/ ~ InPool(t) \/ srvStatus[t] # "stopping"
               \/ JobStatus(t) = None
               \/ execs[t][jobs[t]].pc \in {"returned", "done"}

\* "OneOff indicates than runner runs only one job and exit" (util/config.go):
\* the process exits when its job is done (JobPool.Run).
OneOffExits ==
    (OneOff /\ \E t \in Task : execs[t] # <<>> /\ execs[t][1].pc = "done") ~> reqPc = "exited"

=============================================================================
