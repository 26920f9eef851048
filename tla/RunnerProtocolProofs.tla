------------------------ MODULE RunnerProtocolProofs ------------------------
(***************************************************************************)
(* Proofs about RunnerProtocol for any number of tasks, any capacity, any  *)
(* number of executions of a task and any requests lost.                   *)
(***************************************************************************)
EXTENDS RunnerProtocol, TLAPS

Stop(s)  == s \in {"stopping", "stopped"}
Ended(s) == s \in {"success", "error"}

(***************************************************************************)
(* The inductive invariant, task by task.                                  *)
(***************************************************************************)

\* The request goroutine has a job in hand when it enqueues one, and a report
\* only until it is sent.
RequestOK ==
    /\ reqPc = "enqueue" => cand \in Task
    /\ \A t \in Task : body[t].job # 0 => reqPc \in {"sweep", "put"} /\ body[t].st # None

\* Statuses of stopping travel from the user to the server, in a response to
\* the runner, from there to the execution, and back in a report: none of them
\* is there before the user has asked.
StopAsked(t) ==
    stops[t] = {} =>
        /\ ~ Stop(srvStatus[t]) /\ ~ Stop(resp.cur[t]) /\ ~ Stop(body[t].st)
        /\ \A i \in 1..Len(execs[t]) : ~ Stop(execs[t][i].st) /\ execs[t][i].res # "killed"

\* Why a task may be given up, and the final statuses that come with it.
Reason(t) ==
    "stopped" \in stops[t] \/ \E i \in 1..Len(execs[t]) : execs[t][i].pc = "done"

ReasonKnown(t) ==
    /\ srvPc[t] \in {"idle", "chosen"} => t \notin assigned
    /\ ~ Reason(t) =>
        /\ srvPc[t] # "finish" /\ ~ (srvPc[t] = "ended" /\ t \in assigned)
        /\ IsFinished(srvStatus[t]) => srvPc[t] = "ended"
        /\ ~ IsFinished(body[t].st) /\ ~ IsFinished(resp.cur[t])
        /\ \A i \in 1..Len(execs[t]) : ~ IsFinished(execs[t][i].st)

\* The only execution has been reported as ended, or is just being so: it has
\* left the running list, and no other status of it will reach the server.
Reported(t) ==
    /\ Len(execs[t]) = 1
    /\ jobs[t] = 0
    /\ body[t].job # 0 => reqPc = "put" /\ Ended(body[t].st)

HasOk(t) == \E i \in 1..Len(execs[t]) : execs[t][i].res = "ok"

\* Of a task that was not started twice, a status of success or error is that
\* of the execution; the server has it only once the execution is reported, and
\* hears nothing else of it after that.
Real(t) ==
    Len(execs[t]) < 2 =>
        /\ \A i \in 1..Len(execs[t]) :
              /\ execs[t][i].res = "ok" => execs[t][i].pc \in {"returned", "done"}
              /\ Ended(execs[t][i].st) => execs[t][i].pc = "done"
              /\ execs[t][i].st = "success" => execs[t][i].res = "ok"
        /\ body[t].job # 0 /\ Ended(body[t].st) =>
              /\ reqPc = "sweep" => Ended(execs[t][body[t].job].st)
              /\ reqPc = "put" => jobs[t] = 0
              /\ body[t].st = "success" => HasOk(t)
        /\ Ended(srvStatus[t]) /\ InPool(t) => Reported(t)
        /\ Ended(resp.cur[t]) => Reported(t)
        /\ srvPc[t] = "finish" =>
              srvStatus[t] = "stopped" \/ (Reported(t) /\ srvStatus[t] \in {"success", "error", "stopping"})
        /\ srvStatus[t] = "success" => HasOk(t)

TaskOK(t) == StopAsked(t) /\ ReasonKnown(t) /\ Real(t)

RunnerInv == TypeOK /\ RequestOK /\ \A t \in Task : TaskOK(t)

-----------------------------------------------------------------------------
(***************************************************************************)
(* Executions.                                                             *)
(***************************************************************************)

\* The status an execution ends with is a status of a runner.
LEMMA FinalTyped ==
    ASSUME NEW e \in Execution
    PROVE  /\ FinalStatus(e) \in RunnerStatus
           /\ IsFinished(FinalStatus(e))
           /\ IsFinished(e.st) => FinalStatus(e) = e.st
           /\ ~ IsFinished(e.st) => (FinalStatus(e) = "success" <=> e.res = "ok")
           /\ Stop(FinalStatus(e)) => Stop(e.st)
BY DEF FinalStatus, IsFinished, Execution, RunnerStatus, TaskStatuses, Stop

\* One execution of one task is changed.
LEMMA ExecChanges ==
    ASSUME TypeOK, NEW t \in Task, NEW i \in 1..Len(execs[t]), NEW e \in Execution, Exec(t, i, e)
    PROVE  /\ execs' \in [Task -> Seq(Execution)]
           /\ \A u \in Task : Len(execs'[u]) = Len(execs[u])
           /\ \A u \in Task : u # t => execs'[u] = execs[u]
           /\ execs'[t][i] = e
           /\ \A k \in 1..Len(execs[t]) : k # i => execs'[t][k] = execs[t][k]
<1>1. execs \in [Task -> Seq(Execution)]
  BY DEF TypeOK
<1>2. execs' = [execs EXCEPT ![t] = [@ EXCEPT ![i] = e]]
  BY DEF Exec
<1> DEFINE s == [execs[t] EXCEPT ![i] = e]
<1>3. s \in Seq(Execution) /\ Len(s) = Len(execs[t])
  BY <1>1
<1>4. s[i] = e /\ \A k \in 1..Len(execs[t]) : k # i => s[k] = execs[t][k]
  BY <1>1
<1> HIDE DEF s
<1>5. execs' = [execs EXCEPT ![t] = s]
  BY <1>2 DEF s
<1>6. execs'[t] = s /\ \A u \in Task : u # t => execs'[u] = execs[u]
  BY <1>1, <1>5
<1>7. execs' \in [Task -> Seq(Execution)]
  BY <1>1, <1>3, <1>5
<1> QED  BY <1>3, <1>4, <1>6, <1>7

\* An execution is of its type.
LEMMA ExecTyped ==
    ASSUME TypeOK, NEW t \in Task, NEW i \in 1..Len(execs[t])
    PROVE  execs[t][i] \in Execution
BY DEF TypeOK

\* A job is started: one execution more.
LEMMA StartChanges ==
    ASSUME TypeOK, StartJob, NEW t \in Task, t = Head(queue)
    PROVE  /\ execs' \in [Task -> Seq(Execution)]
           /\ Len(execs'[t]) = Len(execs[t]) + 1
           /\ \A u \in Task : u # t => execs'[u] = execs[u] /\ jobs'[u] = jobs[u]
           /\ jobs'[t] = Len(execs[t]) + 1
           /\ jobs' \in [Task -> Nat]
           /\ \A k \in 1..Len(execs[t]) : execs'[t][k] = execs[t][k]
           /\ execs'[t][Len(execs[t]) + 1].pc = "spawned"
           /\ execs'[t][Len(execs[t]) + 1].st = ""
           /\ execs'[t][Len(execs[t]) + 1].res = "none"
<1> DEFINE e == [pc |-> "spawned", st |-> "", res |-> None]
<1>1. execs \in [Task -> Seq(Execution)] /\ jobs \in [Task -> Nat]
  BY DEF TypeOK
<1>2. execs' = [execs EXCEPT ![t] = Append(@, e)] /\ jobs' = [jobs EXCEPT ![t] = Len(execs[t]) + 1]
  BY DEF StartJob
<1>3. e \in Execution
  BY DEF Execution, RunnerStatus
<1>9. e.pc = "spawned" /\ e.st = "" /\ e.res = "none"
  BY DEF None
<1> HIDE DEF e
<1> DEFINE s == Append(execs[t], e)
<1>4. /\ s \in Seq(Execution) /\ Len(s) = Len(execs[t]) + 1 /\ s[Len(execs[t]) + 1] = e
      /\ \A k \in 1..Len(execs[t]) : s[k] = execs[t][k]
  BY <1>1, <1>3
<1> HIDE DEF s
<1>5. execs' = [execs EXCEPT ![t] = s]
  BY <1>2 DEF s
<1>6. execs'[t] = s /\ \A u \in Task : u # t => execs'[u] = execs[u]
  BY <1>1, <1>5
<1>7. execs' \in [Task -> Seq(Execution)]
  BY <1>1, <1>4, <1>5
<1>8. jobs' \in [Task -> Nat] /\ jobs'[t] = Len(execs[t]) + 1 /\ \A u \in Task : u # t => jobs'[u] = jobs[u]
  BY <1>1, <1>2
<1>10. execs'[t][Len(execs[t]) + 1] = e
  BY <1>4, <1>6
<1> QED  BY <1>4, <1>6, <1>7, <1>8, <1>9, <1>10

\* What the response makes of an execution.
LEMMA AppliedTyped ==
    ASSUME NEW e \in Execution, NEW s \in RunnerStatus
    PROVE  /\ Applied(e, s) \in Execution
           /\ Applied(e, s).st = s
           /\ e.pc # "playbook" => Applied(e, s).pc = e.pc /\ Applied(e, s).res = e.res
           /\ Applied(e, s).res = "ok" => e.res = "ok"
           /\ Applied(e, s).res = "killed" => e.res = "killed" \/ Stop(s)
           /\ Applied(e, s).pc = "done" <=> e.pc = "done"
           /\ Applied(e, s).pc \in {"returned", e.pc}
BY DEF Applied, Killed, Execution, Stop

\* checkNewJobs changes the executions of the running list only.
LEMMA ApplyChanges ==
    ASSUME TypeOK, ApplyCurrent
    PROVE  /\ execs' \in [Task -> Seq(Execution)]
           /\ \A t \in Task : Len(execs'[t]) = Len(execs[t])
           /\ \A t \in Task : \A i \in 1..Len(execs[t]) :
                 execs'[t][i] = IF i = jobs[t] /\ resp.cur[t] # None
                                THEN Applied(execs[t][i], resp.cur[t]) ELSE execs[t][i]
<1> DEFINE New(t, i) == IF i = jobs[t] /\ resp.cur[t] # None
                        THEN Applied(execs[t][i], resp.cur[t]) ELSE execs[t][i]
<1>1. execs' = [t \in Task |-> [i \in 1..Len(execs[t]) |-> New(t, i)]]
  BY DEF ApplyCurrent
<1>2. ASSUME NEW t \in Task
      PROVE  /\ execs'[t] \in Seq(Execution)
             /\ Len(execs'[t]) = Len(execs[t])
             /\ \A i \in 1..Len(execs[t]) : execs'[t][i] = New(t, i)
  <2>1. execs[t] \in Seq(Execution) /\ Len(execs[t]) \in Nat
    BY DEF TypeOK
  <2>2. \A i \in 1..Len(execs[t]) : New(t, i) \in Execution
    <3> TAKE i \in 1..Len(execs[t])
    <3>1. resp.cur[t] # None => resp.cur[t] \in RunnerStatus
      BY DEF TypeOK
    <3> QED  BY <3>1, ExecTyped, AppliedTyped
  <2> HIDE DEF New
  <2>3. execs'[t] = [i \in 1..Len(execs[t]) |-> New(t, i)]
    BY <1>1
  <2>4. \A i \in 1..Len(execs[t]) : execs'[t][i] = New(t, i)
    BY <2>3
  <2>5. DOMAIN execs'[t] = 1..Len(execs[t])
    BY <2>3
  <2>6. execs'[t] \in [1..Len(execs[t]) -> Execution]
    BY <2>2, <2>3
  <2>7. execs'[t] \in Seq(Execution)
    BY <2>1, <2>6
  <2>8. Len(execs'[t]) = Len(execs[t])
    BY <2>1, <2>5, <2>7
  <2> QED  BY <2>4, <2>7, <2>8
<1>3. execs' = [t \in Task |-> execs'[t]]
  BY <1>1
<1>4. execs' \in [Task -> Seq(Execution)]
  BY <1>2, <1>3
<1> QED  BY <1>2, <1>4

-----------------------------------------------------------------------------
(***************************************************************************)
(* Types.                                                                  *)
(***************************************************************************)

\* A status is replaced by a status.
LEMMA NextStatusTyped ==
    ASSUME NEW S, NEW old \in S, NEW new \in S
    PROVE  NextStatus(old, new) \in S
BY DEF NextStatus

\* What RemoteJob.Run returns to.
LEMMA ReturnTyped ==
    ASSUME TypeOK, NEW t \in Task, NEW failed, Return(t, failed)
    PROVE  /\ srvPc' \in [Task -> {"idle", "chosen", "polling", "finish", "ended"}]
           /\ srvStatus' \in [Task -> RunnerStatus]
<1>1. "error" \in RunnerStatus /\ "success" \in RunnerStatus
  BY DEF RunnerStatus, TaskStatuses
<1>2. \A s \in RunnerStatus :
         (IF failed THEN NextStatus(s, "error") ELSE IF s = "running" THEN "success" ELSE s) \in RunnerStatus
  BY <1>1, NextStatusTyped
<1> QED  BY <1>2 DEF Return, TypeOK

\* The part of the invariant that is about types.
Typed == TypeOK /\ RequestOK

\* A step that changes one execution keeps the types.
LEMMA ExecKeepsTypes ==
    ASSUME Typed, NEW t \in Task, NEW i \in 1..Len(execs[t]), NEW e \in Execution, Exec(t, i, e),
           UNCHANGED <<server, queue, jobs, tickPc, tickSeen, req>>
    PROVE  Typed'
<1>1. /\ execs' \in [Task -> Seq(Execution)]
      /\ \A u \in Task : Len(execs'[u]) = Len(execs[u])
  BY ExecChanges DEF Typed
<1>2. TypeOK'
  BY <1>1 DEF Typed, TypeOK, server, req
<1>3. RequestOK'
  BY DEF Typed, RequestOK, req
<1> QED  BY <1>2, <1>3 DEF Typed

\* Every step keeps the types.
LEMMA TypeStep == Typed /\ [Next]_vars => Typed'
<1> SUFFICES ASSUME TypeOK, RequestOK, [Next]_vars PROVE Typed'
  BY DEF Typed
<1>t. Typed
  BY DEF Typed
<1>1. ASSUME NEW t \in Task, Choose(t) PROVE Typed'
  <2>1. /\ srvPc' \in [Task -> {"idle", "chosen", "polling", "finish", "ended"}]
        /\ srvStatus' \in [Task -> RunnerStatus]
    <3>1. \/ srvPc' = [srvPc EXCEPT ![t] = "chosen"] /\ srvStatus' = srvStatus
          \/ Return(t, TRUE)
      BY <1>1 DEF Choose
    <3> QED  BY <3>1, ReturnTyped DEF TypeOK
  <2>2. TypeOK' /\ RequestOK'
    BY <1>1, <2>1 DEF Choose, TypeOK, RequestOK, pool, req
  <2> QED  BY <2>2 DEF Typed
<1>2. ASSUME NEW t \in Task, Assign(t) PROVE Typed'
  <2>1. /\ srvPc' \in [Task -> {"idle", "chosen", "polling", "finish", "ended"}]
        /\ srvStatus' \in [Task -> RunnerStatus]
        /\ assigned' \subseteq Task
    BY <1>2, ReturnTyped DEF Assign, TypeOK
  <2>2. TypeOK' /\ RequestOK'
    BY <1>2, <2>1 DEF Assign, TypeOK, RequestOK, pool, req
  <2> QED  BY <2>2 DEF Typed
<1>3. ASSUME NEW t \in Task, Poll(t) PROVE Typed'
  <2>1. srvPc' \in [Task -> {"idle", "chosen", "polling", "finish", "ended"}]
    BY <1>3 DEF Poll, TypeOK
  <2>2. TypeOK' /\ RequestOK'
    BY <1>3, <2>1 DEF Poll, TypeOK, RequestOK, pool, req
  <2> QED  BY <2>2 DEF Typed
<1>4. ASSUME NEW t \in Task, Finish(t) PROVE Typed'
  <2>1. /\ srvPc' \in [Task -> {"idle", "chosen", "polling", "finish", "ended"}]
        /\ srvStatus' \in [Task -> RunnerStatus]
    BY <1>4, ReturnTyped DEF Finish
  <2>2. TypeOK' /\ RequestOK'
    BY <1>4, <2>1 DEF Finish, TypeOK, RequestOK, pool, req
  <2> QED  BY <2>2 DEF Typed
<1>5. ASSUME NEW t \in Stoppable, NEW s \in {"stopping", "stopped"}, StopTask(t, s) PROVE Typed'
  <2>1. t \in Task
    BY RunnerAssumption
  <2>2. NextStatus(srvStatus[t], s) \in RunnerStatus
    <3>1. srvStatus[t] \in RunnerStatus /\ s \in RunnerStatus
      BY <2>1 DEF TypeOK, RunnerStatus, TaskStatuses
    <3> QED  BY <3>1, NextStatusTyped
  <2>3. srvStatus' \in [Task -> RunnerStatus] /\ stops' \in [Task -> SUBSET {"stopping", "stopped"}]
    BY <1>5, <2>1, <2>2 DEF StopTask, TypeOK
  <2>4. TypeOK' /\ RequestOK'
    BY <1>5, <2>3 DEF StopTask, TypeOK, RequestOK, pool, req
  <2> QED  BY <2>4 DEF Typed
<1>6. CASE StartJob
  <2>1. queue \in Seq(Task) /\ queue # <<>> /\ tickSeen' = queue /\ queue' = queue /\ tickPc' = "pop"
    BY <1>6 DEF StartJob, TypeOK
  <2>2. PICK t \in Task : t = Head(queue)
    BY <2>1
  <2>3. /\ execs' \in [Task -> Seq(Execution)]
        /\ Len(execs'[t]) = Len(execs[t]) + 1
        /\ \A u \in Task : u # t => execs'[u] = execs[u] /\ jobs'[u] = jobs[u]
        /\ jobs'[t] = Len(execs[t]) + 1
        /\ jobs' \in [Task -> Nat]
    BY <1>6, <2>2, StartChanges
  <2>4. \A u \in Task : Len(execs[u]) \in Nat /\ jobs[u] \in Nat /\ body[u].job \in Nat
    BY DEF TypeOK
  <2>5. \A u \in Task : jobs'[u] <= Len(execs'[u]) /\ body[u].job <= Len(execs'[u])
    <3> TAKE u \in Task
    <3>1. jobs[u] <= Len(execs[u]) /\ body[u].job <= Len(execs[u])
      BY DEF TypeOK
    <3> QED  BY <2>3, <2>4, <3>1
  <2>6. TypeOK'
    BY <1>6, <2>1, <2>3, <2>5 DEF StartJob, TypeOK, server, req
  <2>7. RequestOK'
    BY <1>6 DEF StartJob, RequestOK, req
  <2> QED  BY <2>6, <2>7 DEF Typed
<1>7. CASE PopJob
  <2>1. queue' \in Seq(Task)
    <3>1. /\ queue \in Seq(Task) /\ queue # <<>> /\ tickSeen \in Seq(Task) /\ tickSeen # <<>>
          /\ queue' \in {Tail(queue), Tail(tickSeen)}
      BY <1>7 DEF PopJob, TypeOK
    <3>2. Tail(queue) \in Seq(Task) /\ Tail(tickSeen) \in Seq(Task)
      BY <3>1
    <3> QED  BY <3>1, <3>2
  <2>2. tickSeen' = <<>> /\ tickPc' = "idle"
    BY <1>7 DEF PopJob
  <2>3. <<>> \in Seq(Task)
    OBVIOUS
  <2>4. TypeOK' /\ RequestOK'
    BY <1>7, <2>1, <2>2, <2>3 DEF PopJob, TypeOK, RequestOK, server, req
  <2> QED  BY <2>4 DEF Typed
<1>8. ASSUME NEW t \in Task, NEW i \in 1..Len(execs[t]), ExecStep(t, i) \/ PlaybookExit(t, i)
      PROVE  Typed'
  <2>1. execs[t][i] \in Execution
    BY ExecTyped
  <2>2. UNCHANGED <<server, queue, jobs, tickPc, tickSeen, req>>
    BY <1>8 DEF ExecStep, ExecBegin, ExecPrepare, ExecFinish, PlaybookExit
  <2>3. \E e \in Execution : Exec(t, i, e)
    <3>1. CASE ExecBegin(t, i)
      BY <3>1 DEF ExecBegin, Execution, RunnerStatus, TaskStatuses
    <3>2. CASE ExecPrepare(t, i)
      <4>1. /\ [execs[t][i] EXCEPT !.pc = "playbook"] \in Execution
            /\ [execs[t][i] EXCEPT !.pc = "returned", !.res = "err"] \in Execution
        BY <2>1 DEF Execution
      <4> QED  BY <3>2, <4>1 DEF ExecPrepare
    <3>3. CASE PlaybookExit(t, i)
      <4>1. \A res \in {"ok", "err"} : [execs[t][i] EXCEPT !.pc = "returned", !.res = res] \in Execution
        BY <2>1 DEF Execution
      <4> QED  BY <3>3, <4>1 DEF PlaybookExit
    <3>4. CASE ExecFinish(t, i)
      <4>1. FinalStatus(execs[t][i]) \in RunnerStatus
        BY <2>1, FinalTyped
      <4>2. [execs[t][i] EXCEPT !.pc = "done", !.st = FinalStatus(execs[t][i])] \in Execution
        BY <2>1, <4>1 DEF Execution
      <4> QED  BY <3>4, <4>2 DEF ExecFinish
    <3> QED  BY <1>8, <3>1, <3>2, <3>3, <3>4 DEF ExecStep
  <2> QED  BY <1>t, <2>2, <2>3, ExecKeepsTypes
<1>9. CASE SendProgress
  <2>1. \A t \in Task : JobStatus(t) \in RunnerStatus \cup {None}
    <3> TAKE t \in Task
    <3>1. jobs[t] \in Nat /\ jobs[t] <= Len(execs[t]) /\ Len(execs[t]) \in Nat
      BY DEF TypeOK
    <3>2. jobs[t] # 0 => execs[t][jobs[t]] \in Execution
      BY <3>1, ExecTyped
    <3> QED  BY <3>2 DEF JobStatus, Execution
  <2>2. body' \in [Task -> [job : Nat, st : RunnerStatus \cup {None}]]
    BY <1>9, <2>1 DEF SendProgress, TypeOK
  <2>3. \A t \in Task : body'[t].job = jobs[t]
    BY <1>9 DEF SendProgress
  <2>4. TypeOK'
    BY <1>9, <2>2, <2>3 DEF SendProgress, TypeOK, server, pool
  <2>5. RequestOK'
    <3>1. \A t \in Task : jobs[t] # 0 => JobStatus(t) # None
      <4> TAKE t \in Task
      <4>1. jobs[t] \in Nat /\ jobs[t] <= Len(execs[t]) /\ Len(execs[t]) \in Nat
        BY DEF TypeOK
      <4>2. jobs[t] # 0 => execs[t][jobs[t]] \in Execution
        BY <4>1, ExecTyped
      <4> QED  BY <4>2 DEF JobStatus, Execution, RunnerStatus, TaskStatuses, None
    <3> QED  BY <1>9, <3>1 DEF SendProgress, RequestOK
  <2> QED  BY <2>4, <2>5 DEF Typed
<1>10. CASE SweepFinished
  <2>1. /\ jobs' \in [Task -> Nat]
        /\ \A t \in Task : jobs'[t] = 0 \/ jobs'[t] = jobs[t]
    BY <1>10 DEF SweepFinished, TypeOK
  <2>2. \A t \in Task : jobs'[t] <= Len(execs[t])
    <3> TAKE t \in Task
    <3>1. execs[t] \in Seq(Execution) /\ jobs[t] <= Len(execs[t])
      BY DEF TypeOK
    <3>2. Len(execs[t]) \in Nat
      BY <3>1
    <3> QED  BY <2>1, <3>1, <3>2
  <2>3. TypeOK'
    BY <1>10, <2>1, <2>2 DEF SweepFinished, TypeOK, server
  <2>4. RequestOK'
    BY <1>10 DEF SweepFinished, RequestOK
  <2> QED  BY <2>3, <2>4 DEF Typed
<1>11. CASE PutDelivered \/ PutLost
  <2>1. body' = NoReport /\ reqPc' = "check"
    BY <1>11 DEF PutDelivered, PutLost
  <2>2. /\ body' \in [Task -> [job : Nat, st : RunnerStatus \cup {None}]]
        /\ \A t \in Task : body'[t].job = 0
    BY <2>1 DEF NoReport
  <2>3. srvStatus' \in [Task -> RunnerStatus]
    <3>1. CASE PutDelivered
      <4>1. \A t \in Task : body[t].job # 0 => body[t].st \in RunnerStatus
        BY DEF TypeOK, RequestOK
      <4>2. \A t \in Task : body[t].job # 0 => NextStatus(srvStatus[t], body[t].st) \in RunnerStatus
        <5> TAKE t \in Task
        <5>1. srvStatus[t] \in RunnerStatus
          BY DEF TypeOK
        <5> QED  BY <4>1, <5>1, NextStatusTyped
      <4>3. \A t \in Task : srvStatus'[t] \in RunnerStatus
        BY <3>1, <4>2 DEF PutDelivered, TypeOK
      <4> QED  BY <3>1, <4>3 DEF PutDelivered, TypeOK
    <3>2. CASE PutLost
      BY <3>2 DEF PutLost, server, TypeOK
    <3> QED  BY <1>11, <3>1, <3>2
  <2>4. /\ srvPc' = srvPc /\ assigned' = assigned /\ stops' = stops /\ queue' = queue /\ jobs' = jobs
        /\ tickPc' = tickPc /\ tickSeen' = tickSeen /\ execs' = execs /\ resp' = resp
        /\ cand' = cand /\ candSeen' = candSeen
    BY <1>11 DEF PutDelivered, PutLost, server, pool
  <2>6. \A t \in Task : body'[t].job <= Len(execs[t])
    <3> TAKE t \in Task
    <3>1. execs[t] \in Seq(Execution)
      BY DEF TypeOK
    <3>2. Len(execs[t]) \in Nat
      BY <3>1
    <3> QED  BY <2>2, <3>2
  <2>7. TypeOK'
    BY <2>1, <2>2, <2>3, <2>4, <2>6 DEF TypeOK
  <2>5. RequestOK'
    BY <2>1, <2>2 DEF RequestOK
  <2> QED  BY <2>5, <2>7 DEF Typed
<1>12. CASE CheckOneOff \/ GetLost
  <2>1. reqPc' \in {"exited", "get", "idle"} /\ reqPc \in {"check", "get"}
    BY <1>12 DEF CheckOneOff, GetLost
  <2>2. TypeOK' /\ RequestOK'
    BY <1>12, <2>1 DEF CheckOneOff, GetLost, TypeOK, RequestOK, server, pool
  <2> QED  BY <2>2 DEF Typed
<1>13. CASE GetRunner
  <2>1. resp' \in [cur : [Task -> RunnerStatus \cup {None}], new : SUBSET Task]
    <3>1. RunningOnRunner \subseteq Task
      BY DEF RunningOnRunner, TypeOK
    <3>2. [t \in Task |-> IF t \in RunningOnRunner /\ srvStatus[t] # "starting"
                          THEN srvStatus[t] ELSE None] \in [Task -> RunnerStatus \cup {None}]
      BY DEF TypeOK
    <3> QED  BY <1>13, <3>1, <3>2 DEF GetRunner
  <2>2. TypeOK' /\ RequestOK'
    BY <1>13, <2>1 DEF GetRunner, TypeOK, RequestOK, server, pool
  <2> QED  BY <2>2 DEF Typed
<1>14. CASE ApplyCurrent
  <2>1. /\ execs' \in [Task -> Seq(Execution)]
        /\ \A t \in Task : Len(execs'[t]) = Len(execs[t])
    BY <1>14, ApplyChanges
  <2>2. resp' \in [cur : [Task -> RunnerStatus \cup {None}], new : SUBSET Task]
    BY <1>14 DEF ApplyCurrent, TypeOK, NoState
  <2>3. reqPc = "apply" /\ reqPc' \in {"idle", "new"}
    BY <1>14 DEF ApplyCurrent
  <2>4. TypeOK'
    BY <1>14, <2>1, <2>2, <2>3 DEF ApplyCurrent, TypeOK, server
  <2>5. RequestOK'
    BY <1>14, <2>3 DEF ApplyCurrent, RequestOK
  <2> QED  BY <2>4, <2>5 DEF Typed
<1>15. ASSUME NEW t \in Task, NextNew(t) PROVE Typed'
  <2>1. resp' \in [cur : [Task -> RunnerStatus \cup {None}], new : SUBSET Task]
    BY <1>15 DEF NextNew, TypeOK
  <2>2. /\ reqPc = "new" /\ cand' \in {cand, t} /\ candSeen' \in {candSeen, queue}
        /\ (reqPc' = "new" /\ cand' = cand) \/ (reqPc' = "enqueue" /\ cand' = t)
    BY <1>15 DEF NextNew
  <2>3. TypeOK' /\ RequestOK'
    BY <1>15, <2>1, <2>2 DEF NextNew, TypeOK, RequestOK, server, pool
  <2> QED  BY <2>3 DEF Typed
<1>16. CASE Enqueue
  <2>1. /\ reqPc = "enqueue" /\ reqPc' = "new" /\ cand' = NoTask /\ candSeen' = <<>>
        /\ queue' = queue \/ queue' \in {Append(queue, cand), Append(candSeen, cand)}
    BY <1>16 DEF Enqueue
  <2>2. cand \in Task
    BY <2>1 DEF RequestOK
  <2>3. queue' \in Seq(Task) /\ (queue # <<>> => queue' # <<>>)
    <3>1. queue \in Seq(Task) /\ candSeen \in Seq(Task)
      BY DEF TypeOK
    <3>2. Append(queue, cand) \in Seq(Task) /\ Append(queue, cand) # <<>>
      BY <2>2, <3>1
    <3>3. Append(candSeen, cand) \in Seq(Task) /\ Append(candSeen, cand) # <<>>
      BY <2>2, <3>1
    <3> QED  BY <2>1, <3>1, <3>2, <3>3
  <2>4. TypeOK'
    <3>1. <<>> \in Seq(Task)
      OBVIOUS
    <3> QED  BY <1>16, <2>1, <2>3, <3>1 DEF Enqueue, TypeOK, server
  <2>5. RequestOK'
    BY <1>16, <2>1 DEF Enqueue, RequestOK
  <2> QED  BY <2>4, <2>5 DEF Typed
<1>17. CASE NewDone
  <2>1. TypeOK' /\ RequestOK'
    BY <1>17 DEF NewDone, TypeOK, RequestOK, server, pool
  <2> QED  BY <2>1 DEF Typed
<1>18. CASE UNCHANGED vars
  <2>1. TypeOK' /\ RequestOK'
    BY <1>18 DEF vars, TypeOK, RequestOK
  <2> QED  BY <2>1 DEF Typed
<1> QED
  BY <1>1, <1>2, <1>3, <1>4, <1>5, <1>6, <1>7, <1>8, <1>9, <1>10, <1>11, <1>12, <1>13, <1>14,
     <1>15, <1>16, <1>17, <1>18 DEF Next, Server, Request

-----------------------------------------------------------------------------
(***************************************************************************)
(* The tasks.                                                              *)
(***************************************************************************)

\* Nothing that concerns a task changes.
LEMMA TaskStays ==
    ASSUME NEW t \in Task, TaskOK(t),
           srvPc'[t] = srvPc[t], srvStatus'[t] = srvStatus[t], stops'[t] = stops[t],
           t \in assigned' <=> t \in assigned,
           execs'[t] = execs[t], jobs'[t] = jobs[t], body'[t] = body[t],
           resp'.cur[t] = resp.cur[t], reqPc' = reqPc \/ body[t].job = 0
    PROVE  TaskOK(t)'
<1>1. StopAsked(t)'
  BY DEF TaskOK, StopAsked, Stop
<1>2. ReasonKnown(t)'
  BY DEF TaskOK, ReasonKnown, Reason, IsFinished
<1>3. Real(t)'
  BY DEF TaskOK, Real, Reported, HasOk, InPool, Ended
<1> QED  BY <1>1, <1>2, <1>3 DEF TaskOK

\* The goroutine of a job changes its execution, which is not done yet.
LEMMA TaskExecutes ==
    ASSUME TypeOK, NEW t \in Task, TaskOK(t), NEW i \in 1..Len(execs[t]), NEW e \in Execution,
           Exec(t, i, e), UNCHANGED <<server, queue, jobs, tickPc, tickSeen, req>>,
           Stop(e.st) => Stop(execs[t][i].st),
           e.res = "killed" => execs[t][i].res = "killed",
           IsFinished(e.st) => IsFinished(execs[t][i].st) \/ e.pc = "done",
           execs[t][i].pc # "done",
           Len(execs[t]) < 2 => /\ execs[t][i].res = "ok" => e.res = "ok"
                                /\ e.res = "ok" => e.pc \in {"returned", "done"},
           Ended(e.st) => \/ e.st = execs[t][i].st
                          \/ e.pc = "done" /\ (e.st = "success" => e.res = "ok")
    PROVE  TaskOK(t)'
<1>1. /\ Len(execs'[t]) = Len(execs[t])
      /\ execs'[t][i] = e
      /\ \A k \in 1..Len(execs[t]) : k # i => execs'[t][k] = execs[t][k]
  BY ExecChanges
<1>2. /\ srvPc' = srvPc /\ srvStatus' = srvStatus /\ stops' = stops /\ assigned' = assigned
      /\ jobs' = jobs /\ body' = body /\ resp' = resp /\ reqPc' = reqPc
  BY DEF server, req
<1>3. StopAsked(t)'
  BY <1>1, <1>2 DEF TaskOK, StopAsked, Stop
<1>4. ReasonKnown(t)'
  <2>1. Reason(t) => Reason(t)'
    BY <1>1, <1>2 DEF Reason
  <2>2. ~ Reason(t)' => \A k \in 1..Len(execs[t]) : ~ IsFinished(execs'[t][k].st)
    <3> SUFFICES ASSUME ~ Reason(t)', NEW k \in 1..Len(execs[t]) PROVE ~ IsFinished(execs'[t][k].st)
      OBVIOUS
    <3>1. ~ IsFinished(execs[t][k].st)
      BY <2>1 DEF TaskOK, ReasonKnown
    <3>2. execs'[t][k].pc # "done"
      BY <1>1 DEF Reason
    <3>3. CASE k = i
      BY <1>1, <3>1, <3>2, <3>3
    <3>4. CASE k # i
      BY <1>1, <3>1, <3>4
    <3> QED  BY <3>3, <3>4
  <2>3. ~ Reason(t)' =>
          /\ srvPc[t] # "finish" /\ ~ (srvPc[t] = "ended" /\ t \in assigned)
          /\ IsFinished(srvStatus[t]) => srvPc[t] = "ended"
          /\ ~ IsFinished(body[t].st) /\ ~ IsFinished(resp.cur[t])
    BY <2>1 DEF TaskOK, ReasonKnown
  <2> QED  BY <1>1, <1>2, <2>2, <2>3 DEF TaskOK, ReasonKnown, IsFinished
<1>5. Real(t)'
  <2> SUFFICES ASSUME Len(execs[t]) < 2 PROVE Real(t)'
    BY <1>1 DEF Real
  <2>1. Real(t)
    BY DEF TaskOK
  <2>2. HasOk(t) => HasOk(t)'
    BY <1>1 DEF HasOk
  <2>3. Reported(t) => Reported(t)'
    BY <1>1, <1>2 DEF Reported, Ended
  <2>4. ~ Ended(execs[t][i].st)
    BY <2>1 DEF Real
  <2>5. \A k \in 1..Len(execs[t]) :
              /\ execs'[t][k].res = "ok" => execs'[t][k].pc \in {"returned", "done"}
              /\ Ended(execs'[t][k].st) => execs'[t][k].pc = "done"
              /\ execs'[t][k].st = "success" => execs'[t][k].res = "ok"
    <3> TAKE k \in 1..Len(execs[t])
    <3>1. CASE k = i
      BY <1>1, <2>4, <3>1 DEF Ended
    <3>2. CASE k # i
      BY <1>1, <2>1, <3>2 DEF Real
    <3> QED  BY <3>1, <3>2
  <2>6. body[t].job # 0 /\ Ended(body[t].st) /\ reqPc = "sweep" => Ended(execs'[t][body[t].job].st)
    <3> SUFFICES ASSUME body[t].job # 0, Ended(body[t].st), reqPc = "sweep"
                 PROVE  Ended(execs'[t][body[t].job].st)
      OBVIOUS
    <3>1. Ended(execs[t][body[t].job].st)
      BY <2>1 DEF Real
    <3>2. body[t].job \in 1..Len(execs[t])
      BY DEF TypeOK
    <3> QED  BY <1>1, <2>4, <3>1, <3>2
  <2> QED
    BY <1>1, <1>2, <2>1, <2>2, <2>3, <2>5, <2>6 DEF Real, InPool, Ended
<1> QED  BY <1>3, <1>4, <1>5 DEF TaskOK

\* The steps of the server for the task.
LEMMA TaskServed ==
    ASSUME TypeOK, NEW t \in Task, TaskOK(t), Choose(t) \/ Assign(t) \/ Poll(t) \/ Finish(t)
    PROVE  TaskOK(t)'
<1>0. srvPc[t] \in {"idle", "chosen", "polling", "finish"}
  BY DEF Choose, Assign, Poll, Finish
<1>1. /\ stops' = stops /\ execs' = execs /\ jobs' = jobs /\ body' = body /\ resp' = resp /\ reqPc' = reqPc
  BY DEF Choose, Assign, Poll, Finish, pool, req
<1>2. \/ /\ srvPc[t] = "idle" /\ srvPc'[t] = "chosen" /\ srvStatus' = srvStatus /\ assigned' = assigned
      \/ /\ srvPc[t] = "chosen" /\ srvPc'[t] = "polling" /\ srvStatus' = srvStatus
         /\ assigned' = assigned \cup {t}
      \/ /\ srvPc[t] = "polling" /\ IsFinished(srvStatus[t]) /\ srvPc'[t] = "finish"
         /\ srvStatus' = srvStatus /\ assigned' = assigned
      \/ /\ srvPc[t] \in {"idle", "chosen", "finish"} /\ srvPc'[t] = "ended" /\ assigned' = assigned
         /\ srvStatus'[t] \in {srvStatus[t], "error"}
      \/ /\ srvPc[t] = "finish" /\ srvPc'[t] = "ended" /\ assigned' = assigned
         /\ srvStatus[t] = "running" /\ srvStatus'[t] = "success"
  <2>1. CASE Choose(t)
    BY <2>1 DEF Choose, Return, NextStatus, TypeOK
  <2>2. CASE Assign(t)
    BY <2>2 DEF Assign, Return, NextStatus, TypeOK
  <2>3. CASE Poll(t)
    BY <2>3 DEF Poll, TypeOK
  <2>4. CASE Finish(t)
    BY <2>4 DEF Finish, Return, NextStatus, TypeOK
  <2> QED  BY <2>1, <2>2, <2>3, <2>4
<1>3. StopAsked(t)'
  BY <1>1, <1>2 DEF TaskOK, StopAsked, Stop
<1>4. ReasonKnown(t)'
  BY <1>1, <1>2 DEF TaskOK, ReasonKnown, Reason, IsFinished
<1>5. Real(t)'
  BY <1>1, <1>2 DEF TaskOK, Real, Reported, HasOk, InPool, Ended, IsFinished
<1> QED  BY <1>3, <1>4, <1>5 DEF TaskOK

\* A user asks for the task to be stopped.
LEMMA TaskIsStopped ==
    ASSUME TypeOK, NEW t \in Task, TaskOK(t), NEW s \in {"stopping", "stopped"}, StopTask(t, s)
    PROVE  TaskOK(t)'
<1>1. /\ execs' = execs /\ jobs' = jobs /\ body' = body /\ resp' = resp /\ reqPc' = reqPc
      /\ srvPc' = srvPc /\ assigned' = assigned
      /\ stops'[t] = stops[t] \cup {s}
      /\ srvStatus'[t] = NextStatus(srvStatus[t], s)
  BY DEF StopTask, pool, req, TypeOK
<1>2. srvStatus'[t] = srvStatus[t] \/ (srvStatus'[t] = s /\ srvStatus[t] # "stopped")
  BY <1>1 DEF NextStatus, Accepts
<1>3. StopAsked(t)'
  BY <1>1 DEF StopAsked
<1>4. ReasonKnown(t)'
  <2>1. Reason(t) => Reason(t)'
    BY <1>1 DEF Reason
  <2>2. ~ Reason(t)' => s = "stopping"
    BY <1>1 DEF Reason
  <2> QED  BY <1>1, <1>2, <2>1, <2>2 DEF TaskOK, ReasonKnown, IsFinished
<1>5. Real(t)'
  BY <1>1, <1>2 DEF TaskOK, Real, Reported, HasOk, InPool, Ended
<1> QED  BY <1>3, <1>4, <1>5 DEF TaskOK

\* The runner starts the task.
LEMMA TaskIsStarted ==
    ASSUME TypeOK, NEW t \in Task, TaskOK(t), StartJob, t = Head(queue)
    PROVE  TaskOK(t)'
<1>1. PICK n \in Nat : n = Len(execs[t])
  <2>1. execs[t] \in Seq(Execution)
    BY DEF TypeOK
  <2> QED  BY <2>1
<1>2. /\ Len(execs'[t]) = n + 1
      /\ \A k \in 1..n : execs'[t][k] = execs[t][k]
  BY <1>1, StartChanges
<1>e. execs'[t][n + 1].st = "" /\ execs'[t][n + 1].res = "none"
  BY <1>1, StartChanges
<1>3. /\ srvPc' = srvPc /\ srvStatus' = srvStatus /\ stops' = stops /\ assigned' = assigned
      /\ body' = body /\ resp' = resp /\ reqPc' = reqPc
  BY DEF StartJob, server, req
<1>4. body[t].job \in 0..n
  BY <1>1 DEF TypeOK
<1>5. \A k \in 1..(n + 1) : k \in 1..n \/ k = n + 1
  OBVIOUS
<1>6. StopAsked(t)'
  <2> SUFFICES ASSUME stops[t] = {} PROVE StopAsked(t)'
    BY <1>3 DEF StopAsked
  <2>1. \A k \in 1..n : ~ Stop(execs'[t][k].st) /\ execs'[t][k].res # "killed"
    BY <1>1, <1>2 DEF TaskOK, StopAsked
  <2>2. ~ Stop(execs'[t][n + 1].st) /\ execs'[t][n + 1].res # "killed"
    BY <1>e DEF Stop
  <2>3. \A k \in 1..(n + 1) : ~ Stop(execs'[t][k].st) /\ execs'[t][k].res # "killed"
    BY <1>5, <2>1, <2>2
  <2> QED  BY <1>2, <1>3, <2>3 DEF TaskOK, StopAsked, Stop
<1>7. ReasonKnown(t)'
  <2>1. Reason(t) => Reason(t)'
    <3>1. \A k \in 1..Len(execs[t]) : k \in 1..Len(execs'[t]) /\ execs'[t][k] = execs[t][k]
      BY <1>1, <1>2
    <3> QED  BY <1>3, <3>1 DEF Reason
  <2>2. ~ Reason(t)' => \A k \in 1..Len(execs'[t]) : ~ IsFinished(execs'[t][k].st)
    <3> SUFFICES ASSUME ~ Reason(t)', NEW k \in 1..Len(execs'[t]) PROVE ~ IsFinished(execs'[t][k].st)
      OBVIOUS
    <3>1. CASE k \in 1..n
      BY <1>1, <1>2, <2>1, <3>1 DEF TaskOK, ReasonKnown
    <3>2. CASE k = n + 1
      BY <1>e, <3>2 DEF IsFinished
    <3> QED  BY <1>2, <1>5, <3>1, <3>2
  <2>3. ~ Reason(t)' =>
          /\ srvPc[t] # "finish" /\ ~ (srvPc[t] = "ended" /\ t \in assigned)
          /\ IsFinished(srvStatus[t]) => srvPc[t] = "ended"
          /\ ~ IsFinished(body[t].st) /\ ~ IsFinished(resp.cur[t])
    BY <2>1 DEF TaskOK, ReasonKnown
  <2> QED  BY <1>3, <2>2, <2>3 DEF TaskOK, ReasonKnown, IsFinished
<1>8. Real(t)'
  <2> SUFFICES ASSUME n = 0 PROVE Real(t)'
    <3>1. Len(execs'[t]) < 2 => n = 0
      BY <1>2
    <3> QED  BY <3>1 DEF Real
  <2>0. Len(execs[t]) = 0
    BY <1>1
  <2>1. Real(t) /\ ~ Reported(t) /\ ~ HasOk(t)
    BY <2>0 DEF TaskOK, Reported, HasOk
  <2>2. /\ ~ (Ended(srvStatus[t]) /\ InPool(t)) /\ ~ Ended(resp.cur[t])
        /\ srvPc[t] = "finish" => srvStatus[t] = "stopped"
        /\ srvStatus[t] # "success"
    BY <2>0, <2>1 DEF Real
  <2>3. body[t].job = 0
    BY <1>4
  <2>4. \A k \in 1..Len(execs'[t]) : execs'[t][k].st = "" /\ execs'[t][k].res = "none"
    <3>1. \A k \in 1..Len(execs'[t]) : k = n + 1
      BY <1>2
    <3> QED  BY <1>e, <3>1
  <2> QED  BY <1>3, <2>2, <2>3, <2>4 DEF Real, InPool, Ended
<1> QED  BY <1>6, <1>7, <1>8 DEF TaskOK

\* sendProgress reads the statuses of the running list.
LEMMA TaskIsReported ==
    ASSUME TypeOK, RequestOK, NEW t \in Task, TaskOK(t), SendProgress
    PROVE  TaskOK(t)'
<1>1. /\ srvPc' = srvPc /\ srvStatus' = srvStatus /\ stops' = stops /\ assigned' = assigned
      /\ execs' = execs /\ jobs' = jobs /\ resp' = resp /\ reqPc' = "sweep" /\ reqPc = "idle"
      /\ body'[t].job = jobs[t] /\ body'[t].st = JobStatus(t)
  BY DEF SendProgress, server, pool
<1>2. jobs[t] # 0 => jobs[t] \in 1..Len(execs[t]) /\ body'[t].st = execs[t][jobs[t]].st
  BY <1>1 DEF TypeOK, JobStatus
<1>3. jobs[t] = 0 => body'[t].st = "none"
  BY <1>1 DEF JobStatus, None
<1>4. body[t].job = 0
  BY <1>1 DEF RequestOK
<1>5. StopAsked(t)'
  BY <1>1, <1>2, <1>3 DEF TaskOK, StopAsked, Stop
<1>6. ReasonKnown(t)'
  BY <1>1, <1>2, <1>3 DEF TaskOK, ReasonKnown, Reason, IsFinished
<1>7. Real(t)'
  <2> SUFFICES ASSUME Len(execs[t]) < 2 PROVE Real(t)'
    BY <1>1 DEF Real
  <2>1. Real(t)
    BY DEF TaskOK
  <2>2. Reported(t) => Reported(t)'
    BY <1>1 DEF Reported
  <2>3. HasOk(t)' <=> HasOk(t)
    BY <1>1 DEF HasOk
  <2>4. body'[t].job # 0 /\ Ended(body'[t].st) =>
          /\ Ended(execs[t][jobs[t]].st)
          /\ body'[t].st = "success" => HasOk(t)
    BY <1>1, <1>2, <2>1 DEF Real, HasOk
  <2> QED  BY <1>1, <2>1, <2>2, <2>3, <2>4 DEF Real, InPool, Ended
<1> QED  BY <1>5, <1>6, <1>7 DEF TaskOK

\* Jobs that have finished leave the running list.
LEMMA TaskIsSwept ==
    ASSUME TypeOK, NEW t \in Task, TaskOK(t), SweepFinished
    PROVE  TaskOK(t)'
<1>1. /\ srvPc' = srvPc /\ srvStatus' = srvStatus /\ stops' = stops /\ assigned' = assigned
      /\ execs' = execs /\ body' = body /\ resp' = resp /\ reqPc' = "put" /\ reqPc = "sweep"
      /\ jobs'[t] = IF body[t].job # 0 /\ IsFinished(execs[t][body[t].job].st) THEN 0 ELSE jobs[t]
  BY DEF SweepFinished, server
<1>2. StopAsked(t)'
  BY <1>1 DEF TaskOK, StopAsked, Stop
<1>3. ReasonKnown(t)'
  BY <1>1 DEF TaskOK, ReasonKnown, Reason, IsFinished
<1>4. Real(t)'
  <2> SUFFICES ASSUME Len(execs[t]) < 2 PROVE Real(t)'
    BY <1>1 DEF Real
  <2>1. Real(t)
    BY DEF TaskOK
  <2>2. Reported(t) => Reported(t)'
    BY <1>1 DEF Reported
  <2>3. HasOk(t)' <=> HasOk(t)
    BY <1>1 DEF HasOk
  <2>4. body[t].job # 0 /\ Ended(body[t].st) => jobs'[t] = 0
    BY <1>1, <2>1 DEF Real, Ended, IsFinished
  <2> QED  BY <1>1, <2>1, <2>2, <2>3, <2>4 DEF Real, InPool, Ended
<1> QED  BY <1>2, <1>3, <1>4 DEF TaskOK

\* The report is applied by UpdateRunner, or lost.
LEMMA TaskIsUpdated ==
    ASSUME TypeOK, NEW t \in Task, TaskOK(t), PutDelivered \/ PutLost
    PROVE  TaskOK(t)'
<1>1. /\ srvPc' = srvPc /\ stops' = stops /\ assigned' = assigned
      /\ execs' = execs /\ jobs' = jobs /\ resp' = resp /\ reqPc = "put"
      /\ body'[t].job = 0 /\ body'[t].st = "none"
  BY DEF PutDelivered, PutLost, server, pool, NoReport, None
<1>2. \/ srvStatus'[t] = srvStatus[t]
      \/ body[t].job # 0 /\ InPool(t) /\ srvStatus'[t] = body[t].st /\ Accepts(srvStatus[t], body[t].st)
  <2>1. CASE PutDelivered
    BY <2>1 DEF PutDelivered, NextStatus
  <2>2. CASE PutLost
    BY <2>2 DEF PutLost, server
  <2> QED  BY <2>1, <2>2
<1>3. StopAsked(t)'
  BY <1>1, <1>2 DEF TaskOK, StopAsked, Stop
<1>4. ReasonKnown(t)'
  BY <1>1, <1>2 DEF TaskOK, ReasonKnown, Reason, IsFinished
<1>5. Real(t)'
  <2> SUFFICES ASSUME Len(execs[t]) < 2 PROVE Real(t)'
    BY <1>1 DEF Real
  <2>1. Real(t)
    BY DEF TaskOK
  <2>2. Reported(t) => Reported(t)'
    BY <1>1 DEF Reported
  <2>3. HasOk(t)' <=> HasOk(t)
    BY <1>1 DEF HasOk
  <2>4. body[t].job # 0 /\ Ended(body[t].st) => Reported(t)'
    <3> SUFFICES ASSUME body[t].job # 0, Ended(body[t].st) PROVE Reported(t)'
      OBVIOUS
    <3>1. jobs[t] = 0
      BY <1>1, <2>1 DEF Real
    <3>2. execs[t] \in Seq(Execution) /\ body[t].job \in Nat /\ body[t].job <= Len(execs[t])
      BY DEF TypeOK
    <3>3. Len(execs[t]) \in Nat
      BY <3>2
    <3>4. Len(execs[t]) = 1
      <4> DEFINE n == Len(execs[t])
                 j == body[t].job
      <4>1. n \in Nat /\ j \in Nat /\ j # 0 /\ j <= n /\ n < 2
        BY <3>2, <3>3
      <4> HIDE DEF n, j
      <4>2. n = 1
        BY <4>1
      <4> QED  BY <4>2 DEF n
    <3> QED  BY <1>1, <3>1, <3>4 DEF Reported
  <2>5. Ended(srvStatus'[t]) /\ InPool(t) => Reported(t)'
    BY <1>2, <2>1, <2>2, <2>4 DEF Real
  <2>6. srvStatus'[t] = "success" => HasOk(t)
    BY <1>2, <2>1 DEF Real, Ended
  <2>7. srvPc[t] = "finish" =>
           \/ srvStatus'[t] = "stopped"
           \/ Reported(t)' /\ srvStatus'[t] \in {"success", "error", "stopping"}
    <3> SUFFICES ASSUME srvPc[t] = "finish"
                 PROVE  \/ srvStatus'[t] = "stopped"
                        \/ Reported(t)' /\ srvStatus'[t] \in {"success", "error", "stopping"}
      OBVIOUS
    <3>1. CASE srvStatus[t] = "stopped"
      BY <1>2, <3>1 DEF Accepts
    <3>2. CASE Reported(t) /\ srvStatus[t] \in {"success", "error", "stopping"}
      BY <1>2, <2>2, <3>2 DEF Reported, Ended
    <3> QED  BY <2>1, <3>1, <3>2 DEF Real
  <2>8. Ended(resp.cur[t]) => Reported(t)'
    BY <2>1, <2>2 DEF Real
  <2> QED  BY <1>1, <2>1, <2>3, <2>5, <2>6, <2>7, <2>8 DEF Real, InPool, Ended
<1> QED  BY <1>3, <1>4, <1>5 DEF TaskOK

\* GetRunner answers with the status of the task.
LEMMA TaskIsListed ==
    ASSUME TypeOK, RequestOK, NEW t \in Task, TaskOK(t), GetRunner
    PROVE  TaskOK(t)'
<1>1. /\ srvPc' = srvPc /\ srvStatus' = srvStatus /\ stops' = stops /\ assigned' = assigned
      /\ execs' = execs /\ jobs' = jobs /\ body' = body /\ reqPc = "get"
  BY DEF GetRunner, server, pool
<1>2. \/ resp'.cur[t] = "none"
      \/ resp'.cur[t] = srvStatus[t] /\ t \in assigned /\ InPool(t)
  BY DEF GetRunner, RunningOnRunner, None
<1>3. body[t].job = 0
  BY <1>1 DEF RequestOK
<1>4. StopAsked(t)'
  BY <1>1, <1>2 DEF TaskOK, StopAsked, Stop
<1>5. ReasonKnown(t)'
  BY <1>1, <1>2 DEF TaskOK, ReasonKnown, Reason, IsFinished, InPool
<1>6. Real(t)'
  BY <1>1, <1>2, <1>3 DEF TaskOK, Real, Reported, HasOk, InPool, Ended
<1> QED  BY <1>4, <1>5, <1>6 DEF TaskOK

\* checkNewJobs writes the statuses of the response over those of the running
\* list, stale as they may be, and kills what is being stopped.
LEMMA TaskIsApplied ==
    ASSUME TypeOK, RequestOK, NEW t \in Task, TaskOK(t), ApplyCurrent
    PROVE  TaskOK(t)'
<1>1. /\ srvPc' = srvPc /\ srvStatus' = srvStatus /\ stops' = stops /\ assigned' = assigned
      /\ jobs' = jobs /\ body' = body /\ reqPc = "apply"
  BY DEF ApplyCurrent, server
<1>2. resp'.cur[t] = "none"
  BY DEF ApplyCurrent, TypeOK, NoState, None
<1>3. body[t].job = 0
  BY <1>1 DEF RequestOK
<1>4. Len(execs'[t]) = Len(execs[t])
  BY ApplyChanges
<1> DEFINE Old(i) == execs[t][i]
           New(i) == execs'[t][i]
<1>5. ASSUME NEW i \in 1..Len(execs[t])
      PROVE  \/ New(i) = Old(i)
             \/ /\ i = jobs[t] /\ New(i).st = resp.cur[t]
                /\ Old(i).pc # "playbook" => New(i).pc = Old(i).pc /\ New(i).res = Old(i).res
                /\ New(i).res = "ok" => Old(i).res = "ok"
                /\ New(i).res = "killed" => Old(i).res = "killed" \/ Stop(resp.cur[t])
                /\ New(i).pc = "done" <=> Old(i).pc = "done"
                /\ New(i).pc \in {"returned", Old(i).pc}
  <2>1. New(i) = IF i = jobs[t] /\ resp.cur[t] # None
                 THEN Applied(execs[t][i], resp.cur[t]) ELSE execs[t][i]
    BY ApplyChanges
  <2>2. resp.cur[t] # None => resp.cur[t] \in RunnerStatus
    BY DEF TypeOK
  <2>3. execs[t][i] \in Execution
    BY ExecTyped
  <2> QED  BY <2>1, <2>2, <2>3, AppliedTyped
<1> HIDE DEF Old, New
<1>6. StopAsked(t)'
  <2> SUFFICES ASSUME stops[t] = {} PROVE StopAsked(t)'
    BY <1>1 DEF StopAsked
  <2>1. /\ ~ Stop(srvStatus[t]) /\ ~ Stop(resp.cur[t]) /\ ~ Stop(body[t].st)
        /\ \A i \in 1..Len(execs[t]) : ~ Stop(Old(i).st) /\ Old(i).res # "killed"
    BY DEF TaskOK, StopAsked, Old
  <2>2. \A i \in 1..Len(execs[t]) : ~ Stop(New(i).st) /\ New(i).res # "killed"
    BY <1>5, <2>1
  <2> QED  BY <1>1, <1>2, <1>4, <2>1, <2>2 DEF StopAsked, New, Stop
<1>7. ReasonKnown(t)'
  <2>1. Reason(t) <=> Reason(t)'
    BY <1>1, <1>4, <1>5 DEF Reason, Old, New
  <2>2. ~ Reason(t) => \A i \in 1..Len(execs[t]) : ~ IsFinished(New(i).st)
    BY <1>5 DEF TaskOK, ReasonKnown, Old
  <2> QED  BY <1>1, <1>2, <1>4, <2>1, <2>2 DEF TaskOK, ReasonKnown, New, IsFinished
<1>8. Real(t)'
  <2> SUFFICES ASSUME Len(execs[t]) < 2 PROVE Real(t)'
    BY <1>4 DEF Real
  <2>1. Real(t)
    BY DEF TaskOK
  <2>2. \A i \in 1..Len(execs[t]) :
           /\ Old(i).res = "ok" => Old(i).pc \in {"returned", "done"}
           /\ Ended(Old(i).st) => Old(i).pc = "done"
           /\ Old(i).st = "success" => Old(i).res = "ok"
    BY <2>1 DEF Real, Old
  <2>3. Ended(resp.cur[t]) => jobs[t] = 0
    BY <2>1 DEF Real, Reported
  <2>4. \A i \in 1..Len(execs[t]) :
           /\ New(i).res = "ok" => New(i).pc \in {"returned", "done"}
           /\ Ended(New(i).st) => New(i).pc = "done"
           /\ New(i).st = "success" => New(i).res = "ok"
    <3> TAKE i \in 1..Len(execs[t])
    <3>1. CASE New(i) = Old(i)
      BY <2>2, <3>1
    <3>2. CASE New(i) # Old(i)
      <4>1. i = jobs[t] /\ New(i).st = resp.cur[t]
        BY <1>5, <3>2
      <4>2. ~ Ended(New(i).st)
        BY <2>3, <4>1
      <4>3. New(i).res = "ok" => New(i).pc \in {"returned", "done"}
        BY <1>5, <2>2, <3>2
      <4> QED  BY <4>2, <4>3 DEF Ended
    <3> QED  BY <3>1, <3>2
  <2>5. HasOk(t) => HasOk(t)'
    <3> SUFFICES ASSUME NEW i \in 1..Len(execs[t]), Old(i).res = "ok" PROVE New(i).res = "ok"
      BY <1>4 DEF HasOk, Old, New
    <3>1. Old(i).pc # "playbook"
      BY <2>2
    <3> QED  BY <1>5, <3>1
  <2>6. Reported(t) => Reported(t)'
    BY <1>1, <1>3, <1>4 DEF Reported
  <2> QED
    BY <1>1, <1>2, <1>3, <1>4, <2>1, <2>4, <2>5, <2>6 DEF Real, New, InPool, Ended
<1> QED  BY <1>6, <1>7, <1>8 DEF TaskOK

\* The goroutine of a job: its steps are of that kind.
LEMMA TaskExecSteps ==
    ASSUME TypeOK, NEW t \in Task, TaskOK(t), NEW i \in 1..Len(execs[t]),
           ExecStep(t, i) \/ PlaybookExit(t, i)
    PROVE  TaskOK(t)'
<1> DEFINE old == execs[t][i]
<1>1. UNCHANGED <<server, queue, jobs, tickPc, tickSeen, req>>
  BY DEF ExecStep, ExecBegin, ExecPrepare, ExecFinish, PlaybookExit
<1>2. old \in Execution
  BY ExecTyped
<1>3. Len(execs[t]) < 2 /\ old.res = "ok" => old.pc \in {"returned", "done"}
  BY DEF TaskOK, Real
<1>4. CASE ExecBegin(t, i)
  <2> DEFINE e == [pc |-> "preparing", st |-> "running", res |-> None]
  <2>1. old.pc = "spawned" /\ Exec(t, i, e)
    BY <1>4 DEF ExecBegin
  <2>2. e \in Execution
    BY DEF Execution, RunnerStatus, TaskStatuses
  <2>3. e.st = "running" /\ e.res = "none"
    BY DEF None
  <2> HIDE DEF e
  <2>4. ~ Stop(e.st) /\ ~ IsFinished(e.st) /\ ~ Ended(e.st) /\ e.res # "killed" /\ e.res # "ok"
    BY <2>3 DEF Stop, IsFinished, Ended
  <2> QED  BY <1>1, <1>3, <2>1, <2>2, <2>4, TaskExecutes
<1>5. CASE ExecPrepare(t, i)
  <2> DEFINE a == [old EXCEPT !.pc = "playbook"]
             b == [old EXCEPT !.pc = "returned", !.res = "err"]
  <2>1. old.pc = "preparing" /\ (Exec(t, i, a) \/ Exec(t, i, b))
    BY <1>5 DEF ExecPrepare
  <2>2. a \in Execution /\ b \in Execution
    BY <1>2 DEF Execution
  <2>3. a.st = old.st /\ a.res = old.res /\ b.st = old.st /\ b.res = "err"
    BY <1>2 DEF Execution
  <2> HIDE DEF a, b
  <2>4. CASE Exec(t, i, a)
    BY <1>1, <1>3, <2>1, <2>2, <2>3, <2>4, TaskExecutes
  <2>5. CASE Exec(t, i, b)
    BY <1>1, <1>3, <2>1, <2>2, <2>3, <2>5, TaskExecutes
  <2> QED  BY <2>1, <2>4, <2>5
<1>6. CASE PlaybookExit(t, i)
  <2>1. PICK res \in {"ok", "err"} : Exec(t, i, [old EXCEPT !.pc = "returned", !.res = res])
    BY <1>6 DEF PlaybookExit
  <2> DEFINE e == [old EXCEPT !.pc = "returned", !.res = res]
  <2>2. old.pc = "playbook"
    BY <1>6 DEF PlaybookExit
  <2>3. e \in Execution
    BY <1>2 DEF Execution
  <2>4. e.st = old.st /\ e.res = res /\ e.pc = "returned"
    BY <1>2 DEF Execution
  <2>5. Exec(t, i, e)
    BY <2>1
  <2> HIDE DEF e
  <2> QED  BY <1>1, <1>3, <2>2, <2>3, <2>4, <2>5, TaskExecutes
<1>7. CASE ExecFinish(t, i)
  <2> DEFINE e == [old EXCEPT !.pc = "done", !.st = FinalStatus(old)]
  <2>1. old.pc = "returned" /\ Exec(t, i, e)
    BY <1>7 DEF ExecFinish
  <2>2. /\ FinalStatus(old) \in RunnerStatus
        /\ IsFinished(old.st) => FinalStatus(old) = old.st
        /\ ~ IsFinished(old.st) => (FinalStatus(old) = "success" <=> old.res = "ok")
        /\ Stop(FinalStatus(old)) => Stop(old.st)
    BY <1>2, FinalTyped
  <2>3. e \in Execution
    BY <1>2, <2>2 DEF Execution
  <2>4. e.st = FinalStatus(old) /\ e.res = old.res /\ e.pc = "done"
    BY <1>2 DEF Execution
  <2> HIDE DEF e
  <2>5. /\ Stop(e.st) => Stop(old.st)
        /\ e.st = old.st \/ (e.st = "success" => e.res = "ok")
    BY <2>2, <2>4
  <2> QED  BY <1>1, <2>1, <2>3, <2>4, <2>5, TaskExecutes
<1> QED  BY <1>4, <1>5, <1>6, <1>7 DEF ExecStep

\* Every step keeps what is known of every task.
LEMMA TaskStep == RunnerInv /\ [Next]_vars => \A t \in Task : TaskOK(t)'
<1> SUFFICES ASSUME TypeOK, RequestOK, \A t \in Task : TaskOK(t), [Next]_vars, NEW t \in Task
             PROVE  TaskOK(t)'
  BY DEF RunnerInv
<1>1. ASSUME NEW u \in Task, Choose(u) \/ Assign(u) \/ Poll(u) \/ Finish(u) PROVE TaskOK(t)'
  <2>1. CASE u = t
    BY <1>1, <2>1, TaskServed
  <2>2. CASE u # t
    <3>1. /\ stops' = stops /\ execs' = execs /\ jobs' = jobs /\ body' = body /\ resp' = resp /\ reqPc' = reqPc
      BY <1>1 DEF Choose, Assign, Poll, Finish, pool, req
    <3>2. /\ srvPc'[t] = srvPc[t] /\ srvStatus'[t] = srvStatus[t]
          /\ t \in assigned' <=> t \in assigned
      <4>1. CASE Choose(u)
        BY <2>2, <4>1 DEF Choose, Return, TypeOK
      <4>2. CASE Assign(u)
        BY <2>2, <4>2 DEF Assign, Return, TypeOK
      <4>3. CASE Poll(u) \/ Finish(u)
        BY <2>2, <4>3 DEF Poll, Finish, Return, TypeOK
      <4> QED  BY <1>1, <4>1, <4>2, <4>3
    <3> QED  BY <3>1, <3>2, TaskStays
  <2> QED  BY <2>1, <2>2
<1>2. ASSUME NEW u \in Stoppable, NEW s \in {"stopping", "stopped"}, StopTask(u, s) PROVE TaskOK(t)'
  <2>1. CASE u = t
    BY <1>2, <2>1, TaskIsStopped
  <2>2. CASE u # t
    <3>1. /\ srvPc' = srvPc /\ assigned' = assigned /\ execs' = execs /\ jobs' = jobs /\ body' = body
          /\ resp' = resp /\ reqPc' = reqPc
      BY <1>2 DEF StopTask, pool, req
    <3>2. srvStatus'[t] = srvStatus[t] /\ stops'[t] = stops[t]
      BY <1>2, <2>2 DEF StopTask, TypeOK
    <3> QED  BY <3>1, <3>2, TaskStays
  <2> QED  BY <2>1, <2>2
<1>3. CASE StartJob
  <2>1. queue \in Seq(Task) /\ queue # <<>>
    BY <1>3 DEF StartJob, TypeOK
  <2>2. PICK u \in Task : u = Head(queue)
    BY <2>1
  <2>3. CASE u = t
    BY <1>3, <2>2, <2>3, TaskIsStarted
  <2>4. CASE u # t
    <3>1. execs'[t] = execs[t] /\ jobs'[t] = jobs[t]
      BY <1>3, <2>2, <2>4, StartChanges
    <3>2. /\ srvPc' = srvPc /\ srvStatus' = srvStatus /\ stops' = stops /\ assigned' = assigned
          /\ body' = body /\ resp' = resp /\ reqPc' = reqPc
      BY <1>3 DEF StartJob, server, req
    <3> QED  BY <3>1, <3>2, TaskStays
  <2> QED  BY <2>3, <2>4
<1>4. ASSUME NEW u \in Task, NEW i \in 1..Len(execs[u]), ExecStep(u, i) \/ PlaybookExit(u, i)
      PROVE  TaskOK(t)'
  <2>1. CASE u = t
    BY <1>4, <2>1, TaskExecSteps
  <2>2. CASE u # t
    <3>1. /\ srvPc' = srvPc /\ srvStatus' = srvStatus /\ stops' = stops /\ assigned' = assigned
          /\ jobs' = jobs /\ body' = body /\ resp' = resp /\ reqPc' = reqPc
      BY <1>4 DEF ExecStep, ExecBegin, ExecPrepare, ExecFinish, PlaybookExit, server, req
    <3>2. \E e : Exec(u, i, e)
      BY <1>4 DEF ExecStep, ExecBegin, ExecPrepare, ExecFinish, PlaybookExit
    <3>3. execs'[t] = execs[t]
      BY <2>2, <3>2 DEF Exec, TypeOK
    <3> QED  BY <3>1, <3>3, TaskStays
  <2> QED  BY <2>1, <2>2
<1>5. CASE SendProgress
  BY <1>5, TaskIsReported
<1>6. CASE SweepFinished
  BY <1>6, TaskIsSwept
<1>7. CASE PutDelivered \/ PutLost
  BY <1>7, TaskIsUpdated
<1>8. CASE GetRunner
  BY <1>8, TaskIsListed
<1>9. CASE ApplyCurrent
  BY <1>9, TaskIsApplied
<1>10. CASE PopJob \/ UNCHANGED vars
  <2>1. /\ srvPc' = srvPc /\ srvStatus' = srvStatus /\ stops' = stops /\ assigned' = assigned
        /\ execs' = execs /\ jobs' = jobs /\ body' = body /\ resp' = resp /\ reqPc' = reqPc
    BY <1>10 DEF PopJob, vars, server, req
  <2> QED  BY <2>1, TaskStays
<1>11. CASE CheckOneOff \/ GetLost \/ Enqueue \/ NewDone \/ (\E u \in Task : NextNew(u))
  <2>1. /\ srvPc' = srvPc /\ srvStatus' = srvStatus /\ stops' = stops /\ assigned' = assigned
        /\ execs' = execs /\ jobs' = jobs /\ body' = body
        /\ reqPc \in {"check", "get", "enqueue", "new"}
    BY <1>11 DEF CheckOneOff, GetLost, Enqueue, NewDone, NextNew, server, pool
  <2>2. resp'.cur[t] = resp.cur[t]
    BY <1>11 DEF CheckOneOff, GetLost, Enqueue, NewDone, NextNew, TypeOK
  <2>3. body[t].job = 0
    BY <2>1 DEF RequestOK
  <2> QED  BY <2>1, <2>2, <2>3, TaskStays
<1> QED
  BY <1>1, <1>2, <1>3, <1>4, <1>5, <1>6, <1>7, <1>8, <1>9, <1>10, <1>11 DEF Next, Server, Request

-----------------------------------------------------------------------------
(***************************************************************************)
(* The theorems.                                                           *)
(***************************************************************************)

\* The server has the tasks in "starting", and the runner has none.
LEMMA InitInv == Init => RunnerInv
<1> SUFFICES ASSUME Init PROVE RunnerInv
  OBVIOUS
<1>1. TypeOK
  <2>1. <<>> \in Seq(Task) /\ <<>> \in Seq(Execution)
    OBVIOUS
  <2>2. /\ execs \in [Task -> Seq(Execution)]
        /\ \A t \in Task : Len(execs[t]) = 0
    BY <2>1 DEF Init
  <2>3. body \in [Task -> [job : Nat, st : RunnerStatus \cup {None}]] /\ \A t \in Task : body[t].job = 0
    BY DEF Init, NoReport
  <2>4. resp \in [cur : [Task -> RunnerStatus \cup {None}], new : SUBSET Task]
    BY DEF Init, NoState
  <2>5. srvStatus \in [Task -> RunnerStatus]
    BY DEF Init, RunnerStatus, TaskStatuses
  <2>6. jobs \in [Task -> Nat] /\ \A t \in Task : jobs[t] = 0
    BY DEF Init
  <2> QED  BY <2>1, <2>2, <2>3, <2>4, <2>5, <2>6 DEF Init, TypeOK
<1>2. RequestOK
  BY DEF Init, RequestOK, NoReport
<1>3. ASSUME NEW t \in Task PROVE TaskOK(t)
  <2>1. /\ srvPc[t] = "idle" /\ srvStatus[t] = "starting" /\ assigned = {} /\ execs[t] = <<>>
        /\ body[t].st = "none" /\ body[t].job = 0 /\ resp.cur[t] = "none"
    BY DEF Init, NoReport, NoState, None
  <2>2. \A i \in 1..Len(execs[t]) : FALSE
    BY <2>1
  <2>3. StopAsked(t)
    BY <2>1, <2>2 DEF StopAsked, Stop
  <2>4. ReasonKnown(t)
    BY <2>1, <2>2 DEF ReasonKnown, IsFinished
  <2>5. Real(t)
    BY <2>1, <2>2 DEF Real, Ended
  <2> QED  BY <2>3, <2>4, <2>5 DEF TaskOK
<1> QED  BY <1>1, <1>2, <1>3 DEF RunnerInv

\* The invariant holds in every reachable state.
THEOREM RunnerInvariant == Spec => []RunnerInv
<1>1. RunnerInv /\ [Next]_vars => RunnerInv'
  BY TypeStep, TaskStep DEF RunnerInv, Typed
<1> QED  BY InitInv, <1>1, PTL DEF Spec

\* The queue, the running list and the executions, the reports and the
\* responses keep their types, although two goroutines write the queue without
\* a lock (JobPool.Run, sendProgress, checkNewJobs).
THEOREM RunnerTyped == Spec => []TypeOK
BY RunnerInvariant, PTL DEF RunnerInv

\* The runner kills a playbook only if a user asked for the task to be stopped,
\* whatever requests are lost and however stale a response is (checkNewJobs).
THEOREM KillsAreAskedFor == Spec => []KillOnlyOnStop
<1>1. RunnerInv => KillOnlyOnStop
  BY DEF RunnerInv, TaskOK, StopAsked, KillOnlyOnStop
<1> QED  BY RunnerInvariant, <1>1, PTL

\* The server gives up an accepted task only after one of its executions has
\* returned or a stop by force (RemoteJob.Run, UpdateRunner).
THEOREM GivenUpForReason == Spec => []EndedForReason
<1>1. RunnerInv => EndedForReason
  BY DEF RunnerInv, TaskOK, ReasonKnown, Reason, EndedForReason
<1> QED  BY RunnerInvariant, <1>1, PTL

\* A task that was not started twice is shown as successful only if its
\* execution ended well, whatever reports are lost, stale statuses written over
\* the local ones, and stops asked for (UpdateRunner, RemoteJob.Run,
\* checkNewJobs).
THEOREM SuccessesAreReal == Spec => []SuccessIsReal
<1>1. RunnerInv => SuccessIsReal
  BY DEF RunnerInv, TaskOK, Real, HasOk, SuccessIsReal
<1> QED  BY RunnerInvariant, <1>1, PTL

=============================================================================
