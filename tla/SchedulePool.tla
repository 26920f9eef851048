---------------------------- MODULE SchedulePool ----------------------------
(***************************************************************************)
(* Schedules (services/schedules): the API requests that change the table  *)
(* of schedules and then rebuild the cron entries with Refresh, and the    *)
(* goroutines that cron starts for an entry (ScheduleRunner.Run), all of   *)
(* them with sessions of the store.  Cron fires an entry at any moment.    *)
(***************************************************************************)
EXTENDS BoltConnections

CONSTANTS
    Schedule,    \* schedule ids
    WithRepo,    \* the schedules with a RepositoryID
    Cron,        \* valid cron formats
    Hash,        \* commits of the remote repository
    NoHash,      \* LastCommitHash nil
    NoRow,       \* a schedule that is not in the table
    Req,         \* bound: API requests, each made once
    Firing,      \* goroutines of fired cron entries
    Permanent,   \* the kinds of stores: SQL (TRUE) and Bolt (FALSE)
    StoreErr     \* whether GetSchedules can fail: {FALSE} or BOOLEAN

ASSUME SchedulePoolAssumption ==
    /\ Schedule # {}
    /\ WithRepo \subseteq Schedule
    /\ NoHash \notin Hash
    /\ NoRow \notin [cron : Cron, hash : Hash \cup {NoHash}]
    /\ Permanent \subseteq BOOLEAN
    /\ StoreErr \subseteq BOOLEAN
    /\ Req \cap Firing = {}
    /\ {"root", "schedule"} \cap (Req \cup Firing) = {}

VARIABLES
    up,        \* FALSE once the process has died
    root,      \* the session "root" of runService is open
    table,     \* the table of schedules
    used,      \* the ids that NextSequence has given out
    entries,   \* the entries of cron: schedule, format and how often
    locked,    \* SchedulePool.locker
    reqPc,     \* where a request is
    op,        \* what it was asked to do
    list,      \* what GetSchedules returned to it
    firePc,    \* where a fired goroutine is
    fired,     \* its ScheduleRunner.scheduleID
    sched,     \* the row it has read, and reads again to store the hash
    remote,    \* remoteHash
    applied,   \* history: the list of the last Refresh that got the lock
    broken,    \* history: GetSchedules has failed
    added      \* history: commits for which a task was added, or given up

pool    == <<entries, locked, applied, broken>>
request == <<reqPc, op, list>>
firing  == <<firePc, fired, sched, remote>>
vars    == <<store, up, root, table, used, pool, request, firing, added>>

Row   == [cron : Cron, hash : Hash \cup {NoHash}]
Table == [Schedule -> Row \cup {NoRow}]
Entry == Schedule \X Cron
Op    == [kind : {"add", "update"}, s : Schedule, cron : Cron]
            \cup [kind : {"remove", "removeTemplate"}, s : Schedule]

NoTable   == [s \in Schedule |-> NoRow]
NoEntries == [e \in Entry |-> 0]
AnyOp     == CHOOSE o \in Op : TRUE
AnySched  == CHOOSE s \in Schedule : TRUE

ReqPcs  == {"new", "write", "read", "lock", "add", "close", "done"}
FirePcs == {"idle", "fired", "load", "remote", "setRead", "setWrite", "addTask", "close"}

TypeOK ==
    /\ permanent \in BOOLEAN /\ dbOpen \in BOOLEAN
    /\ connections \subseteq Req \cup {"root", "schedule"}
    /\ up \in BOOLEAN /\ root \in BOOLEAN /\ locked \in BOOLEAN /\ broken \in BOOLEAN
    /\ table \in Table /\ applied \in Table
    /\ used \subseteq Schedule
    /\ entries \in [Entry -> Nat]
    /\ reqPc \in [Req -> ReqPcs]
    /\ op \in [Req -> Op]
    /\ list \in [Req -> Table]
    /\ firePc \in [Firing -> FirePcs]
    /\ fired \in [Firing -> Schedule]
    /\ sched \in [Firing -> Row \cup {NoRow}]
    /\ remote \in [Firing -> Hash \cup {NoHash}]
    /\ added \in [Schedule -> SUBSET Hash]

\* The entries a Refresh makes of a list.
EntriesOf(l) == [e \in Entry |-> IF l[e[1]] # NoRow /\ l[e[1]].cron = e[2] THEN 1 ELSE 0]

\* runService up to the start of cron: the session "root" is open, and
\* CreateSchedulePool has called Refresh.
Init ==
    /\ permanent \in Permanent
    /\ table \in [Schedule -> {[cron |-> c, hash |-> NoHash] : c \in Cron} \cup {NoRow}]
    /\ used = {s \in Schedule : table[s] # NoRow}
    /\ up = TRUE /\ root = TRUE /\ dbOpen = TRUE
    /\ connections = IF permanent THEN {} ELSE {"root"}
    /\ entries = EntriesOf(table)
    /\ applied = table
    /\ locked = FALSE
    /\ broken = FALSE
    /\ reqPc = [r \in Req |-> "new"]
    /\ op = [r \in Req |-> AnyOp]
    /\ list = [r \in Req |-> NoTable]
    /\ firePc = [f \in Firing |-> "idle"]
    /\ fired = [f \in Firing |-> AnySched]
    /\ sched = [f \in Firing |-> NoRow]
    /\ remote = [f \in Firing |-> NoHash]
    /\ added = [s \in Schedule |-> {}]

\* The server listens; only a permanent connection is kept.
RootClose ==
    /\ up /\ root
    /\ root' = FALSE
    /\ Close("root")
    /\ UNCHANGED <<up, table, used, pool, request, firing, added>>

\* The commits that are stored while their task is not yet added.
Pending(s) == {remote[f] : f \in {g \in Firing : fired[g] = s /\ firePc[g] = "addTask"}}

\* The process ends: the table is all that is left.
Die ==
    /\ up' = FALSE /\ root' = FALSE
    /\ connections' = {} /\ dbOpen' = FALSE
    /\ entries' = NoEntries /\ locked' = FALSE /\ applied' = NoTable
    /\ reqPc' = [r \in Req |-> IF reqPc[r] = "new" THEN "new" ELSE "done"]
    /\ op' = [r \in Req |-> AnyOp]
    /\ list' = [r \in Req |-> NoTable]
    /\ firePc' = [f \in Firing |-> "idle"]
    /\ fired' = [f \in Firing |-> AnySched]
    /\ sched' = [f \in Firing |-> NoRow]
    /\ remote' = [f \in Firing |-> NoHash]
    /\ added' = [s \in Schedule |-> added[s] \cup (IF s \in WithRepo THEN Pending(s) ELSE {})]
    /\ UNCHANGED <<permanent, table, used, broken>>

-----------------------------------------------------------------------------
(***************************************************************************)
(* Requests.  StoreMiddleware gives each a session under a token of its    *)
(* own; SchedulesMiddleware loads the schedule of an update or a removal.  *)
(***************************************************************************)
Begin(r, o) ==
    /\ up /\ ~ root
    /\ reqPc[r] = "new"
    /\ IF o.kind = "add" THEN o.s \notin used ELSE table[o.s] # NoRow
    /\ used' = IF o.kind = "add" THEN used \cup {o.s} ELSE used
    /\ op' = [op EXCEPT ![r] = o]
    /\ reqPc' = [reqPc EXCEPT ![r] = "write"]
    /\ Connect(r)
    /\ UNCHANGED <<up, root, table, pool, list, firing, added>>

\* An update through the API knows no commit hash and clears it; a row that
\* has gone is an error on Bolt only, and a removal never minds.  RemoveTemplate
\* deletes the schedules of the template and leaves the pool alone.
Write(r) ==
    /\ up
    /\ reqPc[r] = "write"
    /\ LET o == op[r]
           missing == o.kind = "update" /\ table[o.s] = NoRow
       IN /\ table' = IF missing THEN table
                      ELSE [table EXCEPT ![o.s] =
                              IF o.kind \in {"add", "update"}
                              THEN [cron |-> o.cron, hash |-> NoHash] ELSE NoRow]
          /\ reqPc' = [reqPc EXCEPT ![r] =
                IF o.kind = "removeTemplate" \/ (missing /\ ~ permanent) THEN "close" ELSE "read"]
    /\ op' = [op EXCEPT ![r] = AnyOp]
    /\ UNCHANGED <<store, up, root, used, pool, list, firing, added>>

(***************************************************************************)
(* SchedulePool.Refresh.  The list is read before the lock is taken, and   *)
(* the Unlock is deferred before both: when GetSchedules fails, a mutex    *)
(* that is not locked is unlocked, which is fatal, or that of another      *)
(* Refresh is.                                                             *)
(***************************************************************************)
RefreshRead(r) ==
    /\ up
    /\ reqPc[r] = "read"
    /\ \E err \in StoreErr :
          /\ list' = [list EXCEPT ![r] = IF err THEN NoTable ELSE table]
          /\ reqPc' = [reqPc EXCEPT ![r] = IF err THEN "add" ELSE "lock"]
          /\ broken' = (broken \/ err)
    /\ UNCHANGED <<store, up, root, table, used, entries, locked, applied, op, firing, added>>

\* Faulty variant: there is no mutex.
RefreshLockFree(r) ==
    /\ up
    /\ reqPc[r] = "lock"
    /\ locked' = TRUE
    /\ entries' = NoEntries
    /\ applied' = list[r]
    /\ reqPc' = [reqPc EXCEPT ![r] = "add"]
    /\ UNCHANGED <<store, up, root, table, used, broken, op, list, firing, added>>

\* The lock is taken and all entries of cron are removed.
RefreshLock(r) ==
    /\ up
    /\ reqPc[r] = "lock"
    /\ ~ locked
    /\ locked' = TRUE
    /\ entries' = NoEntries
    /\ applied' = list[r]
    /\ reqPc' = [reqPc EXCEPT ![r] = "add"]
    /\ UNCHANGED <<store, up, root, table, used, broken, op, list, firing, added>>

\* addRunner for one schedule of the list; their formats were validated.
RefreshAdd(r, s) ==
    /\ up
    /\ reqPc[r] = "add"
    /\ list[r][s] # NoRow
    /\ entries' = [entries EXCEPT ![<<s, list[r][s].cron>>] = @ + 1]
    /\ list' = [list EXCEPT ![r][s] = NoRow]
    /\ UNCHANGED <<store, up, root, table, used, locked, applied, broken, reqPc, op, firing, added>>

\* The deferred Unlock, after the loop or at once when there was no list:
\* "fatal error: sync: unlock of unlocked mutex" ends the process.
RefreshUnlock(r) ==
    /\ up
    /\ reqPc[r] = "add"
    /\ list[r] = NoTable
    /\ IF locked
       THEN /\ locked' = FALSE
            /\ reqPc' = [reqPc EXCEPT ![r] = "close"]
            /\ UNCHANGED <<store, up, root, table, used, entries, applied, broken, op, list, firing, added>>
       ELSE Die

End(r) ==
    /\ up
    /\ reqPc[r] = "close"
    /\ reqPc' = [reqPc EXCEPT ![r] = "done"]
    /\ Close(r)
    /\ UNCHANGED <<up, root, table, used, pool, op, list, firing, added>>

-----------------------------------------------------------------------------
(***************************************************************************)
(* ScheduleRunner.Run in a goroutine of cron, which recovers no panic.     *)
(***************************************************************************)
Goto(f, pc) == firePc' = [firePc EXCEPT ![f] = pc]

\* cron.Run: the time of an entry has come.
Fire(f, s) ==
    /\ up
    /\ firePc[f] = "idle"
    /\ \E c \in Cron : entries[<<s, c>>] > 0
    /\ fired' = [fired EXCEPT ![f] = s]
    /\ Goto(f, "fired")
    /\ UNCHANGED <<store, up, root, table, used, pool, request, sched, remote, added>>

\* The token is the same for all schedules: a second session is a panic.
RunConnect(f) ==
    /\ up
    /\ firePc[f] = "fired"
    /\ IF ConnectPanics("schedule")
       THEN Die
       ELSE /\ Connect("schedule")
            /\ Goto(f, "load")
            /\ UNCHANGED <<up, root, table, used, pool, request, fired, sched, remote, added>>

RunLoad(f) ==
    /\ up
    /\ firePc[f] = "load"
    /\ sched' = [sched EXCEPT ![f] = table[fired[f]]]
    /\ Goto(f, IF table[fired[f]] = NoRow THEN "close"
               ELSE IF fired[f] \in WithRepo THEN "remote" ELSE "addTask")
    /\ UNCHANGED <<store, up, root, table, used, pool, request, fired, remote, added>>

\* Faulty variant: the error is ignored and the empty hash is used.
RunRemoteEmpty(f) ==
    /\ up
    /\ firePc[f] = "remote"
    /\ remote' = [remote EXCEPT ![f] = ""]
    /\ Goto(f, "setRead")
    /\ UNCHANGED <<store, up, root, table, used, pool, request, fired, sched, added>>

\* tryUpdateScheduleCommitHash: repository, key or remote may fail; the
\* commit is compared with that of the row as it was loaded.
RunRemote(f) ==
    /\ up
    /\ firePc[f] = "remote"
    /\ \/ Goto(f, "close") /\ UNCHANGED remote
       \/ \E h \in Hash :
             /\ remote' = [remote EXCEPT ![f] = h]
             /\ Goto(f, IF sched[f].hash = h THEN "close" ELSE "setRead")
    /\ UNCHANGED <<store, up, root, table, used, pool, request, fired, sched, added>>

\* SetScheduleCommitHash reads the row and writes it back in two transactions
\* on Bolt, and is one statement on SQL, which does not miss a missing row.
RunSetRead(f) ==
    /\ up
    /\ firePc[f] = "setRead"
    /\ IF permanent
       THEN /\ table' = IF table[fired[f]] = NoRow THEN table
                        ELSE [table EXCEPT ![fired[f]].hash = remote[f]]
            /\ Goto(f, "addTask")
            /\ UNCHANGED sched
       ELSE /\ sched' = [sched EXCEPT ![f] = table[fired[f]]]
            /\ Goto(f, IF table[fired[f]] = NoRow THEN "close" ELSE "setWrite")
            /\ UNCHANGED table
    /\ UNCHANGED <<store, up, root, used, pool, request, fired, remote, added>>

\* Faulty variant: the row is written and taken for one that was up to date.
RunSetWriteReturns(f) ==
    /\ up
    /\ firePc[f] = "setWrite"
    /\ table' = IF table[fired[f]] = NoRow THEN table
                ELSE [table EXCEPT ![fired[f]] = [sched[f] EXCEPT !.hash = remote[f]]]
    /\ Goto(f, "close")
    /\ UNCHANGED <<store, up, root, used, pool, request, fired, sched, remote, added>>

RunSetWrite(f) ==
    /\ up
    /\ firePc[f] = "setWrite"
    /\ IF table[fired[f]] = NoRow
       THEN Goto(f, "close") /\ UNCHANGED table
       ELSE /\ table' = [table EXCEPT ![fired[f]] = [sched[f] EXCEPT !.hash = remote[f]]]
            /\ Goto(f, "addTask")
    /\ UNCHANGED <<store, up, root, used, pool, request, fired, sched, remote, added>>

\* TaskPool.AddTask succeeds, or fails and the commit is not tried again.
RunAddTask(f) ==
    /\ up
    /\ firePc[f] = "addTask"
    /\ added' = IF fired[f] \in WithRepo
                THEN [added EXCEPT ![fired[f]] = @ \cup {remote[f]}] ELSE added
    /\ Goto(f, "close")
    /\ UNCHANGED <<store, up, root, table, used, pool, request, fired, sched, remote>>

RunClose(f) ==
    /\ up
    /\ firePc[f] = "close"
    /\ Close("schedule")
    /\ Goto(f, "idle")
    /\ fired' = [fired EXCEPT ![f] = AnySched]
    /\ sched' = [sched EXCEPT ![f] = NoRow]
    /\ remote' = [remote EXCEPT ![f] = NoHash]
    /\ UNCHANGED <<up, root, table, used, pool, request, added>>

-----------------------------------------------------------------------------
\* The process is killed.
Crash == up /\ Die

\* SchedulePool.Destroy, when the server cannot listen any more and ends: it
\* waits for the mutex, stops cron and clears it.
Destroy == up /\ ~ root /\ ~ locked /\ Die

\* runService again.
Restart ==
    /\ ~ up
    /\ up' = TRUE /\ root' = TRUE /\ dbOpen' = TRUE
    /\ connections' = IF permanent THEN {} ELSE {"root"}
    /\ entries' = EntriesOf(table)
    /\ applied' = table
    /\ UNCHANGED <<permanent, table, used, locked, broken, request, firing, added>>

Refresh(r) ==
    \/ RefreshRead(r) \/ RefreshLock(r) \/ RefreshUnlock(r)
    \/ \E s \in Schedule : RefreshAdd(r, s)

Run(f) ==
    \/ RunConnect(f) \/ RunLoad(f) \/ RunRemote(f) \/ RunSetRead(f) \/ RunSetWrite(f)
    \/ RunAddTask(f) \/ RunClose(f)

Next ==
    \/ RootClose
    \/ \E r \in Req : Write(r) \/ Refresh(r) \/ End(r) \/ \E o \in Op : Begin(r, o)
    \/ \E f \in Firing : Run(f) \/ \E s \in Schedule : Fire(f, s)
    \/ Crash
    \/ Destroy
    \/ Restart

Spec == Init /\ [][Next]_vars

-----------------------------------------------------------------------------
(***************************************************************************)
(* Properties.                                                             *)
(***************************************************************************)

\* Who works with the store.
InSession == {r \in Req : reqPc[r] \notin {"new", "done"}} \cup {f \in Firing : firePc[f] \notin {"idle", "fired"}}
                \cup (IF root THEN {"root"} ELSE {})

\* On Bolt the file is open exactly while somebody works with it: no session
\* ends under another one's feet, and an idle server leaves the file to the
\* command line (BoltDb.Connect, Close, StoreSession).
SessionsOpen == up /\ ~ permanent => (dbOpen <=> InSession # {})

\* As long as GetSchedules has not failed, cron has the entries of one list of
\* schedules whenever no Refresh is at work: two of them neither mix their
\* lists nor enter a schedule twice (SchedulePool.Refresh).
OneList == up /\ ~ locked /\ ~ broken => entries = EntriesOf(applied)

\* A commit that a schedule's row calls the last one had its task added, or is
\* about to, or AddTask failed or the process died right after it was stored:
\* nothing else makes the schedule skip a commit, whatever is stored back over
\* the row meanwhile (tryUpdateScheduleCommitHash, Run).
CommitsBuilt ==
    up => \A s \in WithRepo :
        table[s] # NoRow /\ table[s].hash # NoHash =>
            table[s].hash \in added[s] \cup Pending(s)

\* "Connection ... already exists" (BoltDb.Connect): no session is asked for
\* under a token that is in use.
TokensFree == \A f \in Firing : up /\ firePc[f] = "fired" => ~ ConnectPanics("schedule")

=============================================================================
