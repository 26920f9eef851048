# Verification of the Semaphore server

Semaphore is a server for running Ansible playbooks: users describe what to run
in *templates*, start *tasks* by hand, by schedule or by webhook, and follow
them in the browser while the server, or a *runner* on another machine,
executes them. This directory holds TLA+ models of its concurrent core, the TLC
configurations that check them, and TLAPS proofs of their safety properties.
Paths below are relative to `src/`.

## 1. Inventory

| Component | State | Operations | Interacts with |
|---|---|---|---|
| Task pool (`services/tasks/TaskPool.go`) | `queue`, `runningTasks`, `activeProj`, channels `register`, `logger`, `resourceLocker` | main loop, locker goroutine, `blocks`, `AddTask`, `StopTask`, `GetTask` | API handlers, schedules, task goroutines, store, websocket hub |
| Task runner (`services/tasks/TaskRunner.go`, `LocalJob.go`) | status, row of the task, process | `run`, `SetStatus`, `saveStatus`, `Kill`, autorun | pool (unlock, register), store, ansible process |
| Remote job and runner API (`services/tasks/RemoteJob.go`, `api/runners`) | `RunnerID`, status | `Run` (choose, webhook, poll), `GetRunner`, `UpdateRunner` | runner process over HTTP |
| Runner process (`services/runners/JobPool.go`) | `queue`, `runningJobs` | ticker, job goroutines, `sendProgress`, `checkNewJobs`, one-off exit | server over HTTP, ansible process |
| Websocket hub (`api/sockets`) | `connections`, a buffered channel per connection | `hub.run`, `readPump`, `writePump`, `Message` | browsers, every goroutine that logs |
| Project store (`db/bolt`, `api/projects`) | rows of keys, repositories, inventories, environments, templates, schedules, views, tasks | middlewares, add / update / remove, `deleteTemplate`, `deleteObject` | every handler, schedule pool, task pool |
| Schedule pool (`services/schedules`, `api/projects/schedules.go`) | cron entries, mutex, table of schedules | `Refresh`, `Destroy`, `Run` of a fired schedule | store, git, task pool |
| Store sessions (`db/Store.go`, `db/bolt/BoltDb.go`) | `connections`, the open file | `StoreSession`, `Connect`, `Close` | everybody who uses the store |
| Accounts (`api/login.go`, `auth.go`, `user.go`, `users.go`, `api/projects/users.go`) | users, sessions, API tokens, projects, teams | log in, authenticate, add / update / delete | LDAP, OpenID, store |
| Local job (`services/tasks/LocalJob.go`, `db/AccessKey.go`, `lib/SshAgent.go`, `db_lib`, `db/Repository.go`) | working copy of a template, installed requirements, keys on disk and agents | `prepareRun`, playbook, `destroyKeys`, `ClearCache` | git, ansible-galaxy, requests that change the repository |
| Configuration, migrations, alerts, command line, web client | | | |

What is hard to test here: the pool's main loop decides on maps that another
goroutine changes; a task can be stopped, removed or outlived by its server
between any two steps; the runner's lists are shared by two goroutines without
synchronisation, and its reports get lost or arrive late; the hub and a
connection's reader may both close the same channel; a request works with what
it read in one database transaction while others write; a working copy is what
earlier runs, crashes and requests have left of it. `PROJECT.json` lists
each hazard at its line with the properties that would notice it going wrong.

What makes the parts correct, in short:

* pool: one task of a template at a time, under the limits; every lock has an
  owner and is released; a task that is not blocked gets its turn, once; the
  table comes to show what the runner has;
* runner protocol: the runner executes only what it was given, a success is a
  success of a playbook, a stop reaches the process;
* hub: no panic, no gaps, nobody waits for a slow browser;
* store: what is referred to is not deleted, what is deleted comes back only by
  a create, templates go with what hangs on them;
* schedules: the cron entries are those of one list, no commit is skipped, the
  database file is open exactly while somebody uses it;
* accounts: a token's two rows agree, a deleted user leaves the teams, the admin
  flag comes from administrators;
* local job: the playbook runs on the commit it should, with the requirements
  and keys it should.

## 2. The modules

| Module | Stands for |
|---|---|
| `TaskStatus` | the statuses and the transition rule of `SetStatus` |
| `ResourceLocks` | abstract lock manager: one holder per template |
| `TaskPool` | task pool, task goroutines with a local job, task handlers, restart |
| `TaskPoolProofs` | theorems about `TaskPool` |
| `RunnerProtocol` | remote job and runner API on the server, job pool on the runner |
| `SocketHub` | hub goroutine, both pumps, `Message` |
| `SocketHubProofs` | theorems about `SocketHub` |
| `ProjectStore` | the Bolt tables of a project and the handlers on them |
| `BoltConnections` | the sessions of a store, by token |
| `SchedulePool` | schedules, `Refresh`, fired schedules; extends `BoltConnections` |
| `Accounts` | login, users, tokens, projects and teams on Bolt |
| `LocalJob` | preparation of a run: working copy, requirements, keys |
| `RunnerProtocolProofs`, `ProjectStoreProofs`, `SchedulePoolProofs`, `AccountsProofs`, `LocalJobProofs` | theorems about the module they extend |
| `MC*` | functions that instances need as constants |

### TaskPool

`mainPc`/`queue`/`regSave` belong to the goroutine of `Run`, `lockerPc`/
`lockerTask`/`running` to the locker (`running` is `runningTasks`; `activeProj`
is always its grouping by project and is derived), `pc`/`status`/`proc`/
`autorun`/`parent`/`save` to the `TaskRunner` of each task, `stop` to the stop
requests under way, `row` and `projMax` to the database. A step is the code
between two points at which another goroutine can interfere.

* `Tick`, `SendLock`, `Spawn`, `Pop`: the ticker case. `Tick` evaluates
  `blocks` on the maps as they are; the head is dropped, rotated or
  accepted. The unbuffered send on `resourceLocker` needs an idle locker
  (`SendLock`), after which `go t.run()` (`Spawn`) and the removal from the queue
  (`Pop`) proceed while the locker still works. `Register`, `RegisterCall` and
  `RegisterSave` are the other case of the select, which saves the task it has
  received.
* `LockerLock`, `LockerUnlock`: the locker handles the message it has received.
  A lock for a blocked task is the panic of `TaskPool.go:100`: `up` becomes
  FALSE and everything stops until `Restart`.
* `RunBegin` ... `RunSuccess`, `RunErr`, `AutorunAdd`, `AutorunFail`,
  `AutorunDone`, `SendUnlock`, `FinalSave`: `TaskRunner.run` with
  `LocalJob.Run`; `PlaybookExit` is the external process. The deferred function
  runs on every path.
* `AddTask` (`Create`) and `Details`: the row is inserted, then
  `populateDetails` loads what it names; a task for which that fails is left as
  "error" and is not queued.
* `StopActive`, `StopCall`, `StopWrite`, `StopKill`: the stop of a task that the
  pool knows, from the status to the kill; `StopShadow` is that of a task the
  pool does not know. `RemoveTask`, `UpdateProject`: the other requests.
* `SaveCall`, `SaveWrite`: the save that a `SetStatus` of the task's own
  goroutine began.
* `Crash`, `Restart`: all that is in memory is lost, rows are kept.

`StrictUpdate` chooses between Bolt, where the update of a missing row is an
error and hence a panic of the task's goroutine, and SQL, where it does nothing;
the runs use Bolt, the theorems hold for both.

A change of status is three steps. `SetStatus` tests and assigns (`Assign`);
`saveStatus` then sends to the sockets of every user, which can block, before
it calls `UpdateTask` with the task by value, so that the status written is the
one at the time of the call (`SaveCall`, `RegisterCall`, `StopCall`); and the
row is written when the database gets to it (`SaveWrite`, `RegisterSave`,
`StopWrite`). The task's goroutine, the main loop and stop requests do this to
the same task in any interleaving, and an older status can be written last.
`raced` is a history of exactly that: a status was assigned while somebody had a
copy with another in hand, and no save has taken its copy alone since.

The test and the assignment of `SetStatus` are one step, and so is what
`StopTask` looks up with its own `SetStatus`. Left out are the failure of the Go
runtime on a concurrent read and write of a map, the logger channel, log lines,
alerts and build versions, the panics of the event log, and a task id that the
body of a request names (`ProjectStore` has it).

### ResourceLocks

A set `held`; `Acquire` needs a free template, `Release` gives back, `Forget` is
the end of the process. `LocksRefined` says that the pool, with
`held <- running`, implements it: the check in the locker is what makes it so,
not the earlier one in the main loop, which can be out of date.

### RunnerProtocol

On the server `srvPc`, `srvStatus`, `assigned` and `stops`; on the runner
`queue`, `jobs` (the running list) and `execs`, all executions of a task; in
between the one request goroutine with its body and response (`reqPc`, `body`,
`resp`). `Choose`, `Assign`, `Poll`, `Finish` are `RemoteJob.Run` with its
webhooks, any of which may fail. `SendProgress`, `SweepFinished`,
`PutDelivered`/`PutLost` are `sendProgress` and `UpdateRunner`; `GetRunner`/
`GetLost`, `ApplyCurrent`, `NextNew`, `Enqueue`, `NewDone` are `checkNewJobs`.
The runner's queue is a slice that two goroutines append to and cut without
synchronisation: an append may be lost or a removal undone, and the model allows
each outcome (`PopJob`, `Enqueue`). One runner is modelled, without restart;
`sendProgress` collects the statuses in one step; a job's goroutine reads and
sets its final status in one step; log records, keys and registration are left
out.

### SocketHub

`HubRegister`, `HubUnregister`, `HubBroadcast` are the cases of the hub's
select; a broadcast then visits the connections one after the other (`todo`,
`HubSend`), in any order because Go's maps have none. A full buffer is the
`default` branch: the connection is closed and forgotten. `ReadFails`,
`ReadClose`, `WriteTake`, `WriteDone`, `WriteFails`, `WriteEnd` are the pumps;
deadlines and pings are operations that fail. `panicked` records a send on, or a
second close of, a closed channel. `due` and `got` are histories: the messages
for the user of a connection since it registered, and those that reached the
peer.

### ProjectStore

`row` maps the ids that exist to their rows; a row is its references and one
value for the rest. Bolt has one writing transaction at a time: `writer` is the
request whose transaction takes several steps (`deleteTemplate`), all other
transactions are one step. Each request is a goroutine: a middleware loads the
object (`Load`), the handler writes. `deleteObject` looks at four tables in four
transactions (`CheckTable`) and deletes in a fifth (`DeleteObject`). `ReadRow`
and `WriteBack` are the two transactions of a rename of a key, a new commit hash
and a new position of a view. `held` is a history: the references that have been
there since the request was let through.

A create gives the row the next id of the sequence, or the id that its body
names, which the handlers pass on (`CreateObject`, `db/bolt/BoltDb.go:498`): a
row that is there is replaced, one that was deleted is created again, and a
later id of the sequence may meet it. `named` is a history of the rows made so;
`NoResurrection` says that a row comes only from a create, with a number never
given out or with the id its body names, and from no update, write-back or
cascade. `UpdateKey` updates the key that the body names, which the handler does
not compare with the one of the URL.

One project is modelled; bodies name the project of the URL; `view_id` is left
out since nothing depends on it; a loop of
`SetViewPositions` is one request per round; the event log, `ClearCache` and the
refresh of the schedules at the end of handlers are left out (they are in
`LocalJob` and `SchedulePool`). Limits and races
that the code has and no property forbids are in the model: a write-back undoes
a concurrent change, a task may be created for a template that has just been
deleted, and the become key of an inventory is not protected, because
`isObjectReferredBy` compares only the first column of a kind.

### BoltConnections and SchedulePool

A session adds its token to `connections`; the first opens the file, the last
closes it, and a token in use is a panic. On SQL (`permanent`) sessions do
nothing. Sessions are those of `runService` ("root"), of API requests (a random
token each) and of fired schedules (all "schedule"). `Begin`, `Write`, `Refresh`
and `End` are a request that adds, changes or removes a schedule, or a template
with its schedules. `Refresh` reads the table, then takes the mutex, clears cron
and adds one entry after the other (`RefreshRead`, `RefreshLock`, `RefreshAdd`,
`RefreshUnlock`); the unlock is deferred before the lock, so a failing
`GetSchedules` unlocks a mutex that is free, which ends the process, or another
request's. `Fire` and `RunConnect` ... `RunClose` are the goroutine of an entry:
it reads the schedule, asks git for the remote commit, stores the hash (read and
write are two transactions) and adds the task. `Crash`, `Destroy` and `Restart`
end and begin the process. `applied`, `broken` and `added` are histories. When
an entry fires is left open; formats are valid (the handlers validate them).

### Accounts

The tables (`users`, `projects`, `member`, `tokenRow`, `tokenIndex`, `sessions`)
and requests with `pc`, the authenticated user `me` and what they have read
(`seen`). A transaction is a step, so that `CreateUserWithoutPassword` and
`InsertExternal`, `UpdateUser` and `WriteUser`, `CreateAPIToken` and
`IndexAPIToken`, `AddProject` and `AddProjectOwner`, and the parts of
`DeleteUser` can be interleaved and cut off by `Crash`. Username and email are
one name; an LDAP server and an OpenID provider are what they answer
(`TryFindLDAPUser`, `ClaimOidcToken`). The permissions of the routes are `Can`
and `MustCan`, evaluated on the role that the middleware has read. Cookies,
hashing and the profile of a user are left out. The bodies that create users and
projects may name an id, as in the store; a project with the id of a deleted one
has its team, since `DeleteProject` does not remove the rows of the team. Any
`DeleteProjectUser` within `DeleteUser` may fail, and its error is discarded.
`wasAdmin` and `stray` are histories; `stray` holds the memberships that were
made, or came back with a project, when their user was gone or being deleted, and
those on which `DeleteProjectUser` failed.

### LocalJob

One template: its jobs share a working copy (`copy`: URL, head, remote head,
how much of it is there, the hashes of the requirements) and run one after
the other, which `LockExclusion` of the pool justifies. `PopulateDetails` reads
the repository's row when the task is created; `Run` begins later. Then
`updateRepository` (`ValidateRepo`, `Fetch`, `MergeBase`, `Pull`, `RemoveAll`,
`Clone`, `CloneRefs`, `CloneEnds`), `Checkout`, the keys of the inventory, both requirements
files (`Galaxy`, `WriteMD5Hash`), the vault key, the playbook and `DestroyKeys`.
Any command may fail. A clone is "broken" until it has its refs and "partial"
until its files and submodules are there. A clone that fails in its first phase
removes the directory, one that fails in the second leaves it, and one that is
killed leaves it as it is; git then fetches, compares and pulls in a partial
copy as if nothing were missing. A pull also succeeds, and changes nothing, when
the head is ahead of the tip. `ansible-galaxy` installs into `HOME`, the
temporary directory of all templates, while the hash is stored beside the copy:
`OtherGalaxy` is the installation of another template, complete or not, at any
moment. Meanwhile the branch moves, also by force (`Push`), a
request changes the URL and removes the copies (`ReadRepository`,
`WriteRepository`, `ClearCache`), a change of its key removes them too
(`UpdateKey`), and the process dies. Git is the command line client and pulls by
fast-forward; the go-git
client and repositories that are local directories are not modelled, nor are the
submodules after a pull or a checkout. `tips`, `cut`, `others`, `excuse` and the
`by` of a copy are histories. Keys that were installed before a preparation
fails stay on disk, in the code and in the model.

## 3. Runs

Runs that pass:

| Run | Shows | Instance |
|---|---|---|
| `pool_safety` | types, `WithinLimit`, `HeldWhileRunning`, `NoOrphanLock`, `RowFollowsRunner`, `EndedStatus`, `StartedOnce`, `RemovedStaysRemoved` | a task that autoruns another, both also added by users, limit 1, the project's limit changes, `GetProject` may fail, one stop request at any moment and also in the middle of other saves, remove, crash and restart between any two steps |
| `pool_live` | `LockExclusion`, `WithinProjectLimit`, `LocksRefined`, `LocksReleased`, `QueueDrains` | 3 tasks, two of one template, which autoruns the template of the third; a project limit of 2 that stays; playbooks that need not end |
| `runner` | types, `SuccessIsReal`, `KillOnlyOnStop`, `EndedForReason`, `StopKills` | 1 task, up to two executions of it, lost requests, stop |
| `hub` | types, `NoPanic`, `NoGaps`, `MessageReturns`, `PumpsEnd` | 2 connections of 2 users, buffers of 1, 3 messages to one user or to all |
| `store_safety` | types, `ProtectedRefs`, `NoResurrection`, `CascadeComplete` | 3 keys, 2 repositories, templates and schedules of which one each is free at first, one object of every other kind, 3 requests of which 2 at a time, creates with and without an id |
| `schedules` | types, `SessionsOpen`, `OneList`, `CommitsBuilt` | 2 schedules, one with a repository, 2 requests, 2 fired entries, 2 commits, Bolt and SQL, failing `GetSchedules`, crash and restart |
| `accounts` | types, `TokenIndexed`, `MembersGone`, `AdminGranted` | an administrator and a project owner with a session each, room for a third user, a second project and a token, 3 requests, crash |
| `local_jobs` | types, `KeysInOrder`, `OldCopies`, `PlaysItsCommit`, `RequirementsInstalled` | 2 jobs, 2 URLs, 2 commits, 1 push back to the older one, 1 installation by another template, 2 updates of the repository, an ssh key, a password and an ssh key for the vault, failing commands, crash |

Runs that end with a counterexample, because the code does not do what a
comment or an assertion of it says:

| Run | Statement | What happens |
|---|---|---|
| `pool_double_lock` | "Trying to lock an already locked resource!" is impossible | the ticker fires again before the locker has recorded the last lock; the locker panics and takes the server with it |
| `pool_stop_before_run` | "Mark task as stopped if user stopped task during preparation" | a task that was stopped by force while queued is executed |
| `runner_one_off_exits` | "OneOff indicates than runner runs only one job and exit" | the finished job is deleted from the list before the exit looks for it; the runner goes on for ever |
| `schedule_tokens` | "Connection ... already exists" is impossible | two schedules fire at the same time, both connect as "schedule", and the second panics |

### Bounds, and why they are enough

* Pool: two tasks of a template are needed for a conflict on it. The third of
  `pool_live` is of another template and stands behind the second in the queue:
  while the first runs, which may be for ever, the second is blocked and the
  third is not, so that it depends on the rotation. In `pool_safety` two tasks
  compete for the limit of 1 and one creates the other; one stop request is
  enough for two saves of a task to overtake one another, its own with that of
  the main loop or of the task's goroutine. A task is added once; removals and
  changes of the limit are not limited in number.
* Runner: the hazards are between one task and the messages about it. Two
  executions are what the unsynchronised queue can produce; more add no new
  kind of overlap.
* Hub: with a buffer of 1 the third message finds it full while the first is
  being written; two connections let one be dropped in the middle of a broadcast
  to the other.
* Store: two requests are needed for a race, the third leaves its effect between
  two steps of another, or prepares a state. `MaxRefs` limits how many
  references a body sets.

* Schedules: two requests are needed for two refreshes, two fired entries for a
  shared token and for a hash stored over another; the second commit is the one
  that might be skipped.
* Accounts: a request is made once, so that one can delete a user, one can act
  for him with what it has read, and one can add him to a team or log him in.
  More requests repeat these pairs. A token or a project is created at most as
  often as the sets allow.
* Local jobs: the second job meets what the first has left; two updates are
  needed for one to come between the read and the write of the other. The branch
  begins at the second commit and can be pushed back, by force, to the first, so that
  a head is at, behind or ahead of the tip, or has a file of requirements that the
  tip lacks. That a stored hash is one of before an installation that was
  `cut` needs three jobs; there the theorem stands alone.

`CHECK_DEADLOCK FALSE` is set where the bounds on messages, requests and jobs, or
the exit of the process, are a legal end: hub, store, schedules, accounts, local
jobs and the one-off run. The pool and `runner` are checked for deadlock.

### Fairness

* Pool: weak fairness for the steps of the main loop, the locker and every task
  goroutine: the Go scheduler runs what can run, the ticker keeps firing, and
  select does not pass over a ready case for ever; stop requests go on, and the
  hub takes the messages of a save (`MessageReturns` of the hub). Nothing makes
  users send requests, and nothing makes a playbook end: `LocksReleased` excepts
  a lock whose playbook runs, and `QueueDrains` says that only a task that stays
  blocked can stay in the queue.
* Runner: as for the pool, the timers fire, and a request that is made again and
  again gets through again and again (strong fairness). Playbooks need not
  end for `StopKills`; in the one-off run they do.
* Hub: strong fairness for the cases of the select, because Go chooses among the
  ready ones at random; the pumps go on because every write has a deadline, a
  read of a closed websocket fails and pings fail on it. A read of an open one
  may take for ever.
* The store, schedules, accounts and local jobs have safety properties only:
  what should happen there eventually depends on users, on cron and on git.

## 4. Proofs

Every safety property that a passing run checks is also a theorem, for every
value of the constants that satisfies the assumption named in the module
(`TaskPoolAssumption`, `SocketHubAssumption`, ...): any number of tasks,
requests, connections, schedules, users, jobs and commits, any limit and any
capacity, any contents of the tables at the start. The assumptions say that the
parameters have their types, that names which stand for nothing (`NoTask`,
`NoRow`, `NoHash`, ...) are not objects, and, where something is counted, that
there are finitely many. Two are worth naming:

* schedules: there is a schedule (`Schedule # {}`), since a fired goroutine is
  always one of some schedule; tokens of requests and goroutines are not "root"
  or "schedule".
* local jobs: a commit is based on itself, as for `git merge-base --is-ancestor`.

The proofs have one shape. An invariant that a run checks says what matters and
is not preserved by every step on its own; the inductive invariant adds what each
goroutine or request knows at the point where it is. Each was checked with TLC
on the instance of the run before it was proved.

`TaskPoolProofs`:

* `TypeCorrect`.
* `RunsAreCovered` (`HeldWhileRunning`), `LocksHaveOwners` (`NoOrphanLock`) and
  `TasksStartOnce` (`StartedOnce`) rest on `LockInv`. Neither property is
  inductive: `Spawn` starts the head of the queue, so one has to know that the
  head has its lock or that the locker has the message (`SpawnHasLock`); the
  locker acts on a message sent earlier, so one has to know whom it may be about
  (`LockerMessage`); and `Pop` removes a task that may already be finished, so
  one has to know that a task is in the queue at most once and otherwise not
  started (`QueueDistinct`, `QueuedNotStarted`).
* `LockerExcludes` (`LockExclusion`), `LimitRespected` (`WithinLimit`) and the
  refinement `LockerRefinesLocks` (`LocksRefined`) need only the types: the
  locker repeats the test of `blocks`.
* `ProjectLimitRespected` (`WithinProjectLimit`) has two hypotheses, which the
  code needs: the store answers `GetProject` (`StoreErr \subseteq {FALSE}`;
  `blocks` lets a task through when it does not), and no step lowers a limit
  (`[][LimitsRise]_projMax`; limits may be raised or lifted at any time). Without
  either the property is false: `blocks` does not count again.
* `RemovedRowsStayRemoved` (`RemovedStaysRemoved`) needs only the types, on Bolt
  and on SQL: every save of a pool goroutine is an update, and the only insert
  is that of a task that was never created before.
* `RunsEndEnded` (`EndedStatus`) rests on `StatusInv`: which statuses are
  possible at each point of `TaskRunner.run`, given that a stop request may have
  come at any time and that `SetStatus` ignores some changes.
* `TableFollowsRunner` (`RowFollowsRunner`) rests on `SaveInv` besides: of a task
  that is not in `raced`, every copy in anybody's hand is the runner's status or
  "stopped", so whichever write is the last leaves the right row. A copy that is
  taken when no other is in hand ends a race: all writes to come are of it or of
  newer ones.

`SocketHubProofs`: `HubTypeCorrect`, `HubNeverPanics`, `PeersSeePrefixes`,
`HandlersAreForgotten` (`NoDeadConnection`, which no run lists: the theorem holds
for every instance), all from `HubInv`. `Lifecycle` relates the hub's set,
the closed channels and the program counters of both pumps; `Pipeline` says that
what a peer has received, what is in writePump's hand, what is buffered and what
the current broadcast is about to add make up the messages due, in their order,
with which no gap can arise.

`RunnerProtocolProofs`: `RunnerTyped`, `KillsAreAskedFor` (`KillOnlyOnStop`),
`GivenUpForReason` (`EndedForReason`), `SuccessesAreReal` (`SuccessIsReal`), from
`RunnerInv`, which is a conjunction over the tasks. A status goes round in a
circle: from the server into a response, from there into the execution, back in
a report; any of the three copies may be stale when it is used. `StopAsked` and
`ReasonKnown` say of every copy that it shows no stop, no end, before its cause.
`Real` is the part that took an argument: once the server shows an end, the
execution has left the running list, so that no report about it is still to come
(`Reported`) except the one that says the same, and "running" cannot arrive late
and turn "error" into "success". It holds for a task that was not started twice.

`ProjectStoreProofs`: `StoreTyped`, `StoreProtectsRefs` (`ProtectedRefs`),
`StoreNeverResurrects` (`NoResurrection`), `StoreCascades` (`CascadeComplete`),
from `StoreInv`. `HeldRefers` and `HeldElsewhere`: a reference that has been
there since the request was let through is in none of the tables `deleteObject`
has looked at, though each look is a transaction of its own and others write in
between; after the fourth there is no table left to be in. `TemplateTx`: while
the transaction of `deleteTemplate` is open nobody else writes, so what it has
collected is everything that refers to the template when it commits.
`NoResurrection` needs that the rows whose id a body named exist (`named` is part
of the types): a row that comes anew and is in `named` was named in this step.

`SchedulePoolProofs`: `SchedulesTyped`, `FileOpenInSessions` (`SessionsOpen`),
`EntriesOfOneList` (`OneList`), `NoCommitSkipped` (`CommitsBuilt`), from
`ScheduleInv`. `SessionsOK` says which tokens are connected: those of the requests
and of the goroutine at work, of which there is one at a time because two are the
panic that `schedule_tokens` shows. `RefreshOK`: one `Refresh` has the lock, and
what it has entered plus what is left of its list is the list. `Built` follows
each hash from the remote to the task through the two transactions of
`SetScheduleCommitHash`. `NoClosedClose` (`ClosesOpen`, of no run) shows that a
session that is being closed is open, so that the panic of `Close`, which the
model's guard leaves out, does not happen.

`AccountsProofs`: `AccountsTyped`, `TokensStayIndexed` (`TokenIndexed`),
`DeletedUsersHaveLeft` (`MembersGone`), `AdminIsGranted` (`AdminGranted`), from
`AccountsInv`: what each request has read by the time it is at a given point
(`ReadSoFar`), that a token about to be indexed has its row (`TokenStored`), that
a user being deleted has no membership but those still to be visited and the
stray ones (`TeamsLeft`), and that a request about to write the admin flag comes from
an administrator or writes it for somebody who has had it (`MayGrant`,
`AdminRecorded`). Nothing is assumed of the ids of projects.

`LocalJobProofs`: `LocalJobTyped`, `PlaybooksHaveKeys` (`KeysInOrder`),
`OldCopiesExplained` (`OldCopies`), `PlaybooksPlayTheirCommit`
(`PlaysItsCommit`), `PlaybooksHaveRequirements` (`RequirementsInstalled`), from
`LocalInv`: what has become of the copy (`CopyReady`), the keys (`KeysReady`) and
the requirements (`GalaxyReady`) at each step of the preparation, unless the copy
was removed meanwhile. `CopyReady` follows the head from `merge-base`, which
shows it to be behind a tip of this run, through a pull that moves it or finds it
up to date, to a commit between two tips; `CloneLeft` says that a copy that is
not complete is the work of a clone that is going on or has failed or died, which
after the first phase of the job's own clone leaves only earlier jobs. `HashTrue`
is why a skipped installation is right: the hash stored beside the copy is that
of what is installed, unless a run was cut off or another template has installed
since. `OneAtWork` carries the
exclusion of the task pool, which is a guard of `Run` in this module and a
theorem in `TaskPoolProofs`.

Only model-checked: liveness (`QueueDrains`, `LocksReleased`, `StopKills`,
`MessageReturns`, `PumpsEnd`), because the proof system does not handle
fairness; and the four runs with a counterexample, which are statements about
one behaviour.

`SuccessIsReal` speaks of tasks that were started once: if the unsynchronised
queue has started a task twice, the report "running" of the second execution,
arriving while webhook "finish" is under way, turns the "error" of the first
into "success".

Six properties except what the code does not prevent, and say so:

* `OneList`: until `GetSchedules` fails;
* `CommitsBuilt`: a failing `AddTask` and a crash lose the commit;
* `RowFollowsRunner`: a status set while an older one was on its way to the row
  (`raced`), until a save takes its copy alone;
* `MembersGone`: memberships in `stray`;
* `PlaysItsCommit`: files are missing because the clone of an earlier job failed
  or died after its first phase;
* `RequirementsInstalled`: galaxy ran and its hash was not stored (`cut`), or
  another template has installed in the common place since (`others`).

Each exception is a history that only the step in question sets.

## 5. Not modelled, and what is left

* Configuration (`util/config.go`): read once, constant afterwards; its values
  are constants of the modules. Loading works by reflection over struct tags and
  regular expressions, text that no property tells apart.
* Migrations: applied in order by one process before the server begins; they
  rewrite rows whose content is abstracted.
* SQL store: statements and dialects. Where it differs for its callers it is in
  the models (`StrictUpdate`, `permanent`).
* The logger channel, log lines and outputs of tasks, the event log, alerts and
  mail: output. The main loop's write to the logger channel, which it alone
  reads, is a hazard without a property.
* Build versions: text computed from the last task's text.
* The go-git client and local directories as repositories; the encryption of
  secrets; the registration of runners and the table of them; the sessions of
  the task pool and of remote jobs (the latter share one token as schedules do);
  handlers that panic, after which `StoreSession` does not close its connection;
  the demo project, the interactive setup, the web client.

Worth doing next: theorems that join two modules, first that the exclusion of
the pool (`LockExclusion`) is what `LocalJob` assumes of its jobs
(`OneAtWork`); the conditional form of `SuccessIsReal` for tasks that were
started twice (an end that is shown was reached by one of the executions).
