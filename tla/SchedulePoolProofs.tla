------------------------- MODULE SchedulePoolProofs -------------------------
(***************************************************************************)
(* Proofs about SchedulePool for any number of schedules, requests, fired  *)
(* goroutines and commits, on Bolt and on SQL.                             *)
(***************************************************************************)
EXTENDS SchedulePool, FiniteSetTheorems, TLAPS

\* Where a fired goroutine has a session, and where a request has one.
FireSession == FirePcs \ {"idle", "fired"}
ReqSession  == ReqPcs \ {"new", "done"}

(***************************************************************************)
(* The inductive invariant.                                                *)
(***************************************************************************)

\* What a fired goroutine knows by the time it needs it: it asks for commits
\* of a schedule with a repository only, stores a commit of the repository,
\* into a row that it has read.
FiringOK ==
    \A f \in Firing :
        /\ firePc[f] \in {"remote", "setRead", "setWrite"} => fired[f] \in WithRepo
        /\ firePc[f] \in {"setRead", "setWrite"} => remote[f] \in Hash
        /\ firePc[f] = "setWrite" => sched[f] # NoRow
        /\ firePc[f] = "addTask" /\ fired[f] \in WithRepo => remote[f] \in Hash

\* Nothing is left of a process that has died.
DeadOK ==
    ~ up => /\ ~ locked /\ ~ root
            /\ \A r \in Req : reqPc[r] \in {"new", "done"}
            /\ \A f \in Firing : firePc[f] = "idle"

\* The tokens of the connections are those of the sessions at work, the fired
\* goroutines take turns with theirs, and the file is open for any of them.
SessionsOK ==
    up /\ ~ permanent =>
        /\ IsFiniteSet(connections)
        /\ "root" \in connections <=> root
        /\ \A r \in Req : r \in connections <=> reqPc[r] \in ReqSession
        /\ "schedule" \in connections <=> \E f \in Firing : firePc[f] \in FireSession
        /\ \A f, g \in Firing : firePc[f] \in FireSession /\ firePc[g] \in FireSession => f = g
        /\ dbOpen <=> connections # {}

\* One Refresh at a time has the lock, and what it has entered and what is left
\* of its list make up the list it started with.
RefreshOK ==
    up /\ ~ broken =>
        /\ ~ locked => entries = EntriesOf(applied)
        /\ \A r \in Req : reqPc[r] = "add" =>
              /\ locked
              /\ \A e \in Entry : entries[e] + EntriesOf(list[r])[e] = EntriesOf(applied)[e]
        /\ \A r, q \in Req : reqPc[r] = "add" /\ reqPc[q] = "add" => r = q

\* CommitsBuilt, whether or not there is a process.
Built ==
    \A s \in WithRepo :
        table[s] # NoRow /\ table[s].hash # NoHash => table[s].hash \in added[s] \cup Pending(s)

-----------------------------------------------------------------------------
(***************************************************************************)
(* Types.                                                                  *)
(***************************************************************************)

\* The initial values of an operation and of a fired schedule are proper.
LEMMA SomeOp == AnyOp \in Op /\ AnySched \in Schedule
<1>1. PICK s \in Schedule : TRUE
  BY SchedulePoolAssumption
<1>2. [kind |-> "remove", s |-> s] \in Op
  BY <1>1 DEF Op
<1>3. AnyOp \in Op
  BY <1>2 DEF AnyOp
<1>4. AnySched \in Schedule
  BY <1>1 DEF AnySched
<1> QED  BY <1>3, <1>4

\* No row is the missing one.
LEMMA RowIsRow == \A row \in Row : row # NoRow
BY SchedulePoolAssumption DEF Row

\* Storing a commit in a row gives a row.
LEMMA RowWithHash ==
    ASSUME NEW row \in Row, NEW h \in Hash \cup {NoHash}
    PROVE  /\ [row EXCEPT !.hash = h] \in Row
           /\ [row EXCEPT !.hash = h].hash = h
BY DEF Row

\* What Refresh makes of a list are counts of entries.
LEMMA EntriesTyped == \A l : EntriesOf(l) \in [Entry -> {0, 1}]
BY DEF EntriesOf

\* Tables of schedules and their initial value.
LEMMA NoTableTyped == NoTable \in Table /\ NoEntries \in [Entry -> Nat]
BY DEF NoTable, Table, NoEntries

\* A process that dies leaves proper values.
LEMMA DieTyped == TypeOK /\ FiringOK /\ Die => TypeOK' /\ FiringOK'
<1> SUFFICES ASSUME TypeOK, FiringOK, Die PROVE TypeOK' /\ FiringOK'
  OBVIOUS
<1>1. added' \in [Schedule -> SUBSET Hash]
  <2>1. \A s \in WithRepo : Pending(s) \subseteq Hash
    BY DEF Pending, FiringOK, TypeOK
  <2>2. \A s \in Schedule : added[s] \cup (IF s \in WithRepo THEN Pending(s) ELSE {}) \subseteq Hash
    BY <2>1 DEF TypeOK
  <2> QED  BY <2>2 DEF Die
<1>2. op' \in [Req -> Op] /\ fired' \in [Firing -> Schedule]
  BY SomeOp DEF Die
<1>3. reqPc' \in [Req -> ReqPcs]
  BY DEF Die, TypeOK, ReqPcs
<1>4. /\ firePc' \in [Firing -> FirePcs]
      /\ sched' \in [Firing -> Row \cup {NoRow}]
      /\ remote' \in [Firing -> Hash \cup {NoHash}]
  BY DEF Die, FirePcs
<1>5. list' \in [Req -> Table] /\ applied' \in Table /\ entries' \in [Entry -> Nat]
  BY NoTableTyped DEF Die
<1>6. TypeOK'
  BY <1>1, <1>2, <1>3, <1>4, <1>5 DEF Die, TypeOK
<1>7. FiringOK'
  BY DEF Die, FiringOK
<1> QED  BY <1>6, <1>7

\* Sessions keep the store's variables proper.
LEMMA StoreTyped ==
    ASSUME TypeOK, NEW t \in Req \cup {"root", "schedule"}, Connect(t) \/ Close(t)
    PROVE  /\ permanent' \in BOOLEAN /\ dbOpen' \in BOOLEAN
           /\ connections' \subseteq Req \cup {"root", "schedule"}
<1>1. CASE permanent
  BY <1>1 DEF TypeOK, Connect, Close, store
<1>2. CASE ~ permanent
  <2>1. permanent' = permanent /\ dbOpen' \in BOOLEAN
    BY <1>2 DEF Connect, Close, TypeOK
  <2>2. connections' = connections \cup {t} \/ connections' = connections \ {t}
    BY <1>2 DEF Connect, Close
  <2> QED  BY <2>1, <2>2 DEF TypeOK
<1> QED  BY <1>1, <1>2

\* Init makes proper values.
LEMMA InitTyped == Init => TypeOK /\ FiringOK
<1> SUFFICES ASSUME Init PROVE TypeOK /\ FiringOK
  OBVIOUS
<1>1. table \in Table
  <2>1. \A c \in Cron : [cron |-> c, hash |-> NoHash] \in Row
    BY DEF Row
  <2> QED  BY <2>1 DEF Init, Table
<1>2. entries \in [Entry -> Nat]
  BY EntriesTyped DEF Init
<1>3. op \in [Req -> Op] /\ fired \in [Firing -> Schedule]
  BY SomeOp DEF Init
<1>4. list \in [Req -> Table] /\ reqPc \in [Req -> ReqPcs]
  BY NoTableTyped DEF Init, ReqPcs
<1>5. firePc \in [Firing -> FirePcs] /\ sched \in [Firing -> Row \cup {NoRow}]
  BY DEF Init, FirePcs
<1>6. permanent \in BOOLEAN /\ connections \subseteq Req \cup {"root", "schedule"}
  BY SchedulePoolAssumption DEF Init
<1>7. TypeOK
  BY <1>1, <1>2, <1>3, <1>4, <1>5, <1>6 DEF Init, TypeOK
<1>8. FiringOK
  BY DEF Init, FiringOK
<1> QED  BY <1>7, <1>8

\* Every step keeps the values proper, and what a fired goroutine knows.
LEMMA TypeStep == TypeOK /\ FiringOK /\ [Next]_vars => TypeOK' /\ FiringOK'
<1> SUFFICES ASSUME TypeOK, FiringOK, [Next]_vars PROVE TypeOK' /\ FiringOK'
  OBVIOUS
<1>1. CASE RootClose
  <2>1. /\ permanent' \in BOOLEAN /\ dbOpen' \in BOOLEAN
        /\ connections' \subseteq Req \cup {"root", "schedule"}
    BY <1>1, StoreTyped DEF RootClose
  <2>2. TypeOK'
    BY <1>1, <2>1 DEF RootClose, TypeOK, pool, request, firing
  <2>3. FiringOK'
    BY <1>1 DEF RootClose, FiringOK, firing
  <2> QED  BY <2>2, <2>3
<1>2. ASSUME NEW r \in Req, Write(r) PROVE TypeOK' /\ FiringOK'
  <2> DEFINE o == op[r]
  <2>1. o \in Op
    BY DEF TypeOK
  <2>2. o.s \in Schedule
    BY <2>1 DEF Op
  <2>3. o.kind \in {"add", "update"} => [cron |-> o.cron, hash |-> NoHash] \in Row
    BY <2>1 DEF Op, Row
  <2>4. \/ table' = table
        \/ o.kind \in {"add", "update"} /\ table' = [table EXCEPT ![o.s] = [cron |-> o.cron, hash |-> NoHash]]
        \/ table' = [table EXCEPT ![o.s] = NoRow]
    BY <1>2 DEF Write
  <2>5. table' \in Table
    BY <2>2, <2>3, <2>4 DEF Table, TypeOK
  <2>6. reqPc' \in [Req -> ReqPcs] /\ op' \in [Req -> Op]
    BY <1>2, SomeOp DEF Write, TypeOK, ReqPcs
  <2>7. TypeOK'
    BY <1>2, <2>5, <2>6 DEF Write, TypeOK, store, pool, firing
  <2>8. FiringOK'
    BY <1>2 DEF Write, FiringOK, firing
  <2> QED  BY <2>7, <2>8
<1>3. ASSUME NEW r \in Req, RefreshRead(r) PROVE TypeOK' /\ FiringOK'
  <2>1. PICK err \in StoreErr : /\ list' = [list EXCEPT ![r] = IF err THEN NoTable ELSE table]
                                /\ reqPc' = [reqPc EXCEPT ![r] = IF err THEN "add" ELSE "lock"]
                                /\ broken' = (broken \/ err)
    BY <1>3 DEF RefreshRead
  <2>2. list' \in [Req -> Table]
    BY <2>1, NoTableTyped DEF TypeOK
  <2>3. reqPc' \in [Req -> ReqPcs]
    BY <2>1 DEF TypeOK, ReqPcs
  <2>4. TypeOK'
    BY <1>3, <2>1, <2>2, <2>3 DEF RefreshRead, TypeOK, store, firing
  <2>5. FiringOK'
    BY <1>3 DEF RefreshRead, FiringOK, firing
  <2> QED  BY <2>4, <2>5
<1>4. ASSUME NEW r \in Req, RefreshLock(r) PROVE TypeOK' /\ FiringOK'
  <2>1. reqPc' \in [Req -> ReqPcs] /\ entries' \in [Entry -> Nat] /\ applied' \in Table
    BY <1>4, NoTableTyped DEF RefreshLock, TypeOK, ReqPcs
  <2>2. TypeOK'
    BY <1>4, <2>1 DEF RefreshLock, TypeOK, store, firing
  <2>3. FiringOK'
    BY <1>4 DEF RefreshLock, FiringOK, firing
  <2> QED  BY <2>2, <2>3
<1>5. ASSUME NEW r \in Req, NEW s \in Schedule, RefreshAdd(r, s) PROVE TypeOK' /\ FiringOK'
  <2>1. entries' \in [Entry -> Nat]
    <3>1. PICK e : entries' = [entries EXCEPT ![e] = entries[e] + 1]
      BY <1>5 DEF RefreshAdd
    <3>2. entries \in [Entry -> Nat]
      BY DEF TypeOK
    <3>3. \A x \in Entry : entries'[x] = IF x = e THEN entries[x] + 1 ELSE entries[x]
      BY <3>1, <3>2
    <3>4. \A x \in Entry : entries'[x] \in Nat
      BY <3>2, <3>3
    <3>5. entries' = [x \in Entry |-> entries'[x]]
      BY <3>1, <3>2
    <3> QED  BY <3>4, <3>5
  <2>2. list' \in [Req -> Table]
    BY <1>5 DEF RefreshAdd, TypeOK, Table
  <2>3. TypeOK'
    BY <1>5, <2>1, <2>2 DEF RefreshAdd, TypeOK, store, firing
  <2>4. FiringOK'
    BY <1>5 DEF RefreshAdd, FiringOK, firing
  <2> QED  BY <2>3, <2>4
<1>6. ASSUME NEW r \in Req, RefreshUnlock(r) PROVE TypeOK' /\ FiringOK'
  <2>1. CASE locked
    <3>1. reqPc' \in [Req -> ReqPcs]
      BY <1>6, <2>1 DEF RefreshUnlock, TypeOK, ReqPcs
    <3>2. TypeOK'
      BY <1>6, <2>1, <3>1 DEF RefreshUnlock, TypeOK, store, firing
    <3>3. FiringOK'
      BY <1>6, <2>1 DEF RefreshUnlock, FiringOK, firing
    <3> QED  BY <3>2, <3>3
  <2>2. CASE ~ locked
    BY <1>6, <2>2, DieTyped DEF RefreshUnlock
  <2> QED  BY <2>1, <2>2
<1>7. ASSUME NEW r \in Req, End(r) PROVE TypeOK' /\ FiringOK'
  <2>1. /\ permanent' \in BOOLEAN /\ dbOpen' \in BOOLEAN
        /\ connections' \subseteq Req \cup {"root", "schedule"}
    BY <1>7, StoreTyped DEF End
  <2>2. reqPc' \in [Req -> ReqPcs]
    BY <1>7 DEF End, TypeOK, ReqPcs
  <2>3. TypeOK'
    BY <1>7, <2>1, <2>2 DEF End, TypeOK, pool, firing
  <2>4. FiringOK'
    BY <1>7 DEF End, FiringOK, firing
  <2> QED  BY <2>3, <2>4
<1>8. ASSUME NEW r \in Req, NEW o \in Op, Begin(r, o) PROVE TypeOK' /\ FiringOK'
  <2>1. /\ permanent' \in BOOLEAN /\ dbOpen' \in BOOLEAN
        /\ connections' \subseteq Req \cup {"root", "schedule"}
    BY <1>8, StoreTyped DEF Begin
  <2>2. reqPc' \in [Req -> ReqPcs] /\ op' \in [Req -> Op]
    BY <1>8 DEF Begin, TypeOK, ReqPcs
  <2>3. o.s \in Schedule
    BY DEF Op
  <2>4. used' \subseteq Schedule
    BY <1>8, <2>3 DEF Begin, TypeOK
  <2>5. TypeOK'
    BY <1>8, <2>1, <2>2, <2>4 DEF Begin, TypeOK, pool, firing
  <2>6. FiringOK'
    BY <1>8 DEF Begin, FiringOK, firing
  <2> QED  BY <2>5, <2>6
<1>9. ASSUME NEW f \in Firing, NEW s \in Schedule, Fire(f, s) PROVE TypeOK' /\ FiringOK'
  <2>1. firePc' \in [Firing -> FirePcs] /\ fired' \in [Firing -> Schedule]
    BY <1>9 DEF Fire, Goto, TypeOK, FirePcs
  <2>2. TypeOK'
    BY <1>9, <2>1 DEF Fire, TypeOK, store, pool, request
  <2>3. FiringOK'
    BY <1>9 DEF Fire, Goto, FiringOK, TypeOK
  <2> QED  BY <2>2, <2>3
<1>10. ASSUME NEW f \in Firing, RunConnect(f) PROVE TypeOK' /\ FiringOK'
  <2>1. CASE ConnectPanics("schedule")
    BY <1>10, <2>1, DieTyped DEF RunConnect
  <2>2. CASE ~ ConnectPanics("schedule")
    <3>1. /\ permanent' \in BOOLEAN /\ dbOpen' \in BOOLEAN
          /\ connections' \subseteq Req \cup {"root", "schedule"}
      BY <1>10, <2>2, StoreTyped DEF RunConnect
    <3>2. firePc' \in [Firing -> FirePcs]
      BY <1>10, <2>2 DEF RunConnect, Goto, TypeOK, FirePcs
    <3>3. TypeOK'
      BY <1>10, <2>2, <3>1, <3>2 DEF RunConnect, TypeOK, pool, request
    <3>4. FiringOK'
      BY <1>10, <2>2 DEF RunConnect, Goto, FiringOK, TypeOK
    <3> QED  BY <3>3, <3>4
  <2> QED  BY <2>1, <2>2
<1>11. ASSUME NEW f \in Firing, RunLoad(f) PROVE TypeOK' /\ FiringOK'
  <2>1. firePc' \in [Firing -> FirePcs]
    BY <1>11 DEF RunLoad, Goto, TypeOK, FirePcs
  <2>2. sched' \in [Firing -> Row \cup {NoRow}]
    BY <1>11 DEF RunLoad, TypeOK, Table
  <2>3. TypeOK'
    BY <1>11, <2>1, <2>2 DEF RunLoad, TypeOK, store, pool, request
  <2>4. FiringOK'
    BY <1>11 DEF RunLoad, Goto, FiringOK, TypeOK
  <2> QED  BY <2>3, <2>4
<1>12. ASSUME NEW f \in Firing, RunRemote(f) PROVE TypeOK' /\ FiringOK'
  <2>1. \/ firePc' = [firePc EXCEPT ![f] = "close"] /\ remote' = remote
        \/ \E h \in Hash : /\ remote' = [remote EXCEPT ![f] = h]
                           /\ \/ firePc' = [firePc EXCEPT ![f] = "close"]
                              \/ firePc' = [firePc EXCEPT ![f] = "setRead"]
    BY <1>12 DEF RunRemote, Goto
  <2>2. firePc' \in [Firing -> FirePcs] /\ remote' \in [Firing -> Hash \cup {NoHash}]
    BY <2>1 DEF TypeOK, FirePcs
  <2>3. TypeOK'
    BY <1>12, <2>2 DEF RunRemote, TypeOK, store, pool, request
  <2>4. firePc[f] = "remote" /\ fired' = fired /\ sched' = sched
    BY <1>12 DEF RunRemote
  <2>5. FiringOK'
    BY <2>1, <2>4 DEF FiringOK, TypeOK
  <2> QED  BY <2>3, <2>5
<1>13. ASSUME NEW f \in Firing, RunSetRead(f) PROVE TypeOK' /\ FiringOK'
  <2>1. CASE permanent
    <3>1. table' \in Table
      <4>1. CASE table[fired[f]] = NoRow
        BY <1>13, <2>1, <4>1 DEF RunSetRead, TypeOK
      <4>2. CASE table[fired[f]] # NoRow
        <5>1. table' = [table EXCEPT ![fired[f]] = [@ EXCEPT !.hash = remote[f]]]
          BY <1>13, <2>1, <4>2 DEF RunSetRead
        <5>2. table[fired[f]] \in Row
          BY <4>2 DEF TypeOK, Table
        <5>3. remote[f] \in Hash \cup {NoHash}
          BY DEF TypeOK
        <5>4. [table[fired[f]] EXCEPT !.hash = remote[f]] \in Row
          BY <5>2, <5>3, RowWithHash
        <5> QED  BY <5>1, <5>4 DEF TypeOK, Table
      <4> QED  BY <4>1, <4>2
    <3>2. firePc' \in [Firing -> FirePcs]
      BY <1>13, <2>1 DEF RunSetRead, Goto, TypeOK, FirePcs
    <3>3. TypeOK'
      BY <1>13, <2>1, <3>1, <3>2 DEF RunSetRead, TypeOK, store, pool, request
    <3>4. FiringOK'
      BY <1>13, <2>1 DEF RunSetRead, Goto, FiringOK, TypeOK
    <3> QED  BY <3>3, <3>4
  <2>2. CASE ~ permanent
    <3>1. firePc' \in [Firing -> FirePcs]
      BY <1>13, <2>2 DEF RunSetRead, Goto, TypeOK, FirePcs
    <3>2. sched' \in [Firing -> Row \cup {NoRow}]
      BY <1>13, <2>2 DEF RunSetRead, TypeOK, Table
    <3>3. TypeOK'
      BY <1>13, <2>2, <3>1, <3>2 DEF RunSetRead, TypeOK, store, pool, request
    <3>4. FiringOK'
      BY <1>13, <2>2 DEF RunSetRead, Goto, FiringOK, TypeOK
    <3> QED  BY <3>3, <3>4
  <2> QED  BY <2>1, <2>2
<1>14. ASSUME NEW f \in Firing, RunSetWrite(f) PROVE TypeOK' /\ FiringOK'
  <2>1. [sched[f] EXCEPT !.hash = remote[f]] \in Row
    <3>1. sched[f] \in Row
      BY <1>14 DEF RunSetWrite, FiringOK, TypeOK
    <3>2. remote[f] \in Hash \cup {NoHash}
      BY DEF TypeOK
    <3> QED  BY <3>1, <3>2, RowWithHash
  <2>2. table' \in Table
    BY <1>14, <2>1 DEF RunSetWrite, TypeOK, Table
  <2>3. firePc' \in [Firing -> FirePcs]
    BY <1>14 DEF RunSetWrite, Goto, TypeOK, FirePcs
  <2>4. TypeOK'
    BY <1>14, <2>2, <2>3 DEF RunSetWrite, TypeOK, store, pool, request
  <2>5. FiringOK'
    BY <1>14 DEF RunSetWrite, Goto, FiringOK, TypeOK
  <2> QED  BY <2>4, <2>5
<1>15. ASSUME NEW f \in Firing, RunAddTask(f) PROVE TypeOK' /\ FiringOK'
  <2>1. fired[f] \in WithRepo => remote[f] \in Hash
    BY <1>15 DEF RunAddTask, FiringOK
  <2>2. added' \in [Schedule -> SUBSET Hash]
    BY <1>15, <2>1 DEF RunAddTask, TypeOK
  <2>3. firePc' \in [Firing -> FirePcs]
    BY <1>15 DEF RunAddTask, Goto, TypeOK, FirePcs
  <2>4. TypeOK'
    BY <1>15, <2>2, <2>3 DEF RunAddTask, TypeOK, store, pool, request
  <2>5. FiringOK'
    BY <1>15 DEF RunAddTask, Goto, FiringOK, TypeOK
  <2> QED  BY <2>4, <2>5
<1>16. ASSUME NEW f \in Firing, RunClose(f) PROVE TypeOK' /\ FiringOK'
  <2>1. /\ permanent' \in BOOLEAN /\ dbOpen' \in BOOLEAN
        /\ connections' \subseteq Req \cup {"root", "schedule"}
    BY <1>16, StoreTyped DEF RunClose
  <2>2. firePc' \in [Firing -> FirePcs] /\ fired' \in [Firing -> Schedule]
    BY <1>16, SomeOp DEF RunClose, Goto, TypeOK, FirePcs
  <2>3. sched' \in [Firing -> Row \cup {NoRow}] /\ remote' \in [Firing -> Hash \cup {NoHash}]
    BY <1>16 DEF RunClose, TypeOK
  <2>4. TypeOK'
    BY <1>16, <2>1, <2>2, <2>3 DEF RunClose, TypeOK, pool, request
  <2>5. FiringOK'
    BY <1>16 DEF RunClose, Goto, FiringOK, TypeOK
  <2> QED  BY <2>4, <2>5
<1>17. CASE Crash \/ Destroy
  BY <1>17, DieTyped DEF Crash, Destroy
<1>18. CASE Restart
  <2>1. entries' \in [Entry -> Nat]
    BY <1>18, EntriesTyped DEF Restart
  <2>2. TypeOK'
    BY <1>18, <2>1 DEF Restart, TypeOK, request, firing
  <2>3. FiringOK'
    BY <1>18 DEF Restart, FiringOK, firing
  <2> QED  BY <2>2, <2>3
<1>19. CASE UNCHANGED vars
  <2>1. TypeOK'
    BY <1>19 DEF TypeOK, vars, store, pool, request, firing
  <2>2. FiringOK'
    BY <1>19 DEF FiringOK, vars, firing
  <2> QED  BY <2>1, <2>2
<1> QED
  BY <1>1, <1>2, <1>3, <1>4, <1>5, <1>6, <1>7, <1>8, <1>9, <1>10, <1>11, <1>12, <1>13, <1>14,
     <1>15, <1>16, <1>17, <1>18, <1>19 DEF Next, Refresh, Run

-----------------------------------------------------------------------------
(***************************************************************************)
(* The process and its sessions.                                           *)
(***************************************************************************)

\* Only a death ends the process.
LEMMA OnlyDeath == TypeOK /\ Next => up' \/ Die
<1> SUFFICES ASSUME TypeOK, Next PROVE up' \/ Die
  OBVIOUS
<1>1. CASE RootClose \/ Crash \/ Destroy \/ Restart
  BY <1>1 DEF RootClose, Crash, Destroy, Restart
<1>2. ASSUME NEW r \in Req, Write(r) \/ Refresh(r) \/ End(r) \/ \E o \in Op : Begin(r, o)
      PROVE  up' \/ Die
  <2>1. CASE Write(r) \/ RefreshRead(r) \/ RefreshLock(r)
    BY <2>1 DEF Write, RefreshRead, RefreshLock
  <2>2. CASE RefreshUnlock(r)
    BY <2>2 DEF RefreshUnlock
  <2>3. CASE \E s \in Schedule : RefreshAdd(r, s)
    BY <2>3 DEF RefreshAdd
  <2>4. CASE End(r) \/ \E o \in Op : Begin(r, o)
    BY <2>4 DEF End, Begin
  <2> QED  BY <1>2, <2>1, <2>2, <2>3, <2>4 DEF Refresh
<1>3. ASSUME NEW f \in Firing, Run(f) \/ \E s \in Schedule : Fire(f, s)
      PROVE  up' \/ Die
  <2>1. CASE RunConnect(f)
    BY <2>1 DEF RunConnect
  <2>2. CASE RunLoad(f) \/ RunRemote(f)
    BY <2>2 DEF RunLoad, RunRemote
  <2>3. CASE RunSetRead(f) \/ RunSetWrite(f)
    BY <2>3 DEF RunSetRead, RunSetWrite
  <2>4. CASE RunAddTask(f) \/ RunClose(f) \/ \E s \in Schedule : Fire(f, s)
    BY <2>4 DEF RunAddTask, RunClose, Fire
  <2> QED  BY <1>3, <2>1, <2>2, <2>3, <2>4 DEF Run
<1> QED  BY <1>1, <1>2, <1>3 DEF Next

\* A dead process has no sessions, no lock and no goroutines.
LEMMA DeadStep == TypeOK /\ DeadOK /\ [Next]_vars => DeadOK'
<1> SUFFICES ASSUME TypeOK, DeadOK, [Next]_vars PROVE DeadOK'
  OBVIOUS
<1>1. CASE Die
  BY <1>1 DEF Die, DeadOK, TypeOK
<1>2. CASE up'
  BY <1>2 DEF DeadOK
<1>3. CASE UNCHANGED vars
  BY <1>3 DEF DeadOK, vars, pool, request, firing
<1> QED  BY <1>1, <1>2, <1>3, OnlyDeath

\* Connect: the file is open.
LEMMA ConnectOpens ==
    ASSUME NEW t, ~ permanent, IsFiniteSet(connections), Connect(t)
    PROVE  /\ permanent' = permanent /\ connections' = connections \cup {t}
           /\ IsFiniteSet(connections')
           /\ dbOpen' <=> connections' # {}
<1>1. permanent' = permanent /\ connections' = connections \cup {t} /\ dbOpen' = TRUE
  BY DEF Connect
<1>2. IsFiniteSet(connections \cup {t})
  BY FS_AddElement
<1> QED  BY <1>1, <1>2

\* Close: the last session closes the file, another one leaves it open.
LEMMA CloseCloses ==
    ASSUME NEW t, ~ permanent, IsFiniteSet(connections), dbOpen <=> connections # {}, Close(t),
           dbOpen \in BOOLEAN
    PROVE  /\ permanent' = permanent /\ connections' = connections \ {t}
           /\ IsFiniteSet(connections')
           /\ dbOpen' <=> connections' # {}
<1>1. /\ permanent' = permanent /\ connections' = connections \ {t}
      /\ t \in connections
      /\ dbOpen' = IF Cardinality(connections) > 1 THEN dbOpen ELSE FALSE
  BY DEF Close
<1> DEFINE rest == connections \ {t}
<1>2. IsFiniteSet(rest) /\ Cardinality(rest) = Cardinality(connections) - 1
  BY <1>1, FS_RemoveElement
<1>3. Cardinality(rest) = 0 <=> rest = {}
  BY <1>2, FS_EmptySet
<1>4. Cardinality(connections) \in Nat /\ Cardinality(rest) \in Nat
  BY <1>2, FS_CardinalityType
<1> HIDE DEF rest
<1>5. Cardinality(connections) > 1 <=> rest # {}
  BY <1>2, <1>3, <1>4
<1>6. dbOpen
  BY <1>1
<1>7. connections' = rest
  BY <1>1 DEF rest
<1> QED  BY <1>1, <1>2, <1>5, <1>6, <1>7

\* A step that neither begins nor ends a session.
LEMMA SessionsStay ==
    ASSUME SessionsOK, up, up' = up, root' = root, permanent' = permanent,
           connections' = connections, dbOpen' = dbOpen,
           \A r \in Req : reqPc'[r] \in ReqSession <=> reqPc[r] \in ReqSession,
           \A f \in Firing : firePc'[f] \in FireSession <=> firePc[f] \in FireSession
    PROVE  SessionsOK'
BY DEF SessionsOK

\* A request that goes on working.
LEMMA RequestWorks ==
    ASSUME TypeOK, SessionsOK, NEW r \in Req, up, up' = up, root' = root, permanent' = permanent,
           connections' = connections, dbOpen' = dbOpen, firePc' = firePc, reqPc[r] \in ReqSession,
           NEW pc \in ReqSession, reqPc' = [reqPc EXCEPT ![r] = pc]
    PROVE  SessionsOK'
<1>1. \A q \in Req : reqPc'[q] \in ReqSession <=> reqPc[q] \in ReqSession
  BY DEF TypeOK
<1> QED  BY <1>1, SessionsStay

\* A request begins: StoreMiddleware gives it a session.
LEMMA RequestBegins ==
    ASSUME TypeOK, SessionsOK, NEW r \in Req, up, up' = up, root' = root, firePc' = firePc,
           reqPc[r] = "new", reqPc' = [reqPc EXCEPT ![r] = "write"], Connect(r)
    PROVE  SessionsOK'
<1>1. CASE permanent
  BY <1>1 DEF Connect, store, SessionsOK
<1>2. CASE ~ permanent
  <2>1. /\ permanent' = permanent /\ connections' = connections \cup {r}
        /\ IsFiniteSet(connections')
        /\ dbOpen' <=> connections' # {}
    BY <1>2, ConnectOpens DEF SessionsOK
  <2>2. "root" # r /\ "schedule" # r
    BY SchedulePoolAssumption
  <2>3. \A q \in Req : q \in connections' <=> reqPc'[q] \in ReqSession
    BY <1>2, <2>1 DEF SessionsOK, TypeOK, ReqSession, ReqPcs
  <2> QED  BY <1>2, <2>1, <2>2, <2>3 DEF SessionsOK
<1> QED  BY <1>1, <1>2

\* A request ends, and its session.
LEMMA RequestEnds ==
    ASSUME TypeOK, SessionsOK, NEW r \in Req, up, up' = up, root' = root, firePc' = firePc,
           reqPc[r] = "close", reqPc' = [reqPc EXCEPT ![r] = "done"], Close(r)
    PROVE  SessionsOK'
<1>1. CASE permanent
  BY <1>1 DEF Close, store, SessionsOK
<1>2. CASE ~ permanent
  <2>1. /\ permanent' = permanent /\ connections' = connections \ {r}
        /\ IsFiniteSet(connections')
        /\ dbOpen' <=> connections' # {}
    BY <1>2, CloseCloses DEF SessionsOK, TypeOK
  <2>2. "root" # r /\ "schedule" # r
    BY SchedulePoolAssumption
  <2>3. \A q \in Req : q \in connections' <=> reqPc'[q] \in ReqSession
    BY <1>2, <2>1 DEF SessionsOK, TypeOK, ReqSession, ReqPcs
  <2> QED  BY <1>2, <2>1, <2>2, <2>3 DEF SessionsOK
<1> QED  BY <1>1, <1>2

\* A fired goroutine goes on with or without its session.
LEMMA FiringWorks ==
    ASSUME TypeOK, SessionsOK, NEW f \in Firing, up, up' = up, root' = root, permanent' = permanent,
           connections' = connections, dbOpen' = dbOpen, reqPc' = reqPc,
           NEW pc \in FirePcs, firePc' = [firePc EXCEPT ![f] = pc],
           firePc[f] \in FireSession <=> pc \in FireSession
    PROVE  SessionsOK'
<1>1. \A g \in Firing : firePc'[g] \in FireSession <=> firePc[g] \in FireSession
  BY DEF TypeOK
<1> QED  BY <1>1, SessionsStay

\* A fired goroutine gets the session "schedule", which nobody has.
LEMMA FiringBegins ==
    ASSUME TypeOK, SessionsOK, NEW f \in Firing, up, up' = up, root' = root, reqPc' = reqPc,
           firePc' = [firePc EXCEPT ![f] = "load"], Connect("schedule")
    PROVE  SessionsOK'
<1>1. CASE permanent
  BY <1>1 DEF Connect, store, SessionsOK
<1>2. CASE ~ permanent
  <2>1. /\ permanent' = permanent /\ connections' = connections \cup {"schedule"}
        /\ IsFiniteSet(connections')
        /\ dbOpen' <=> connections' # {}
        /\ "schedule" \notin connections
    BY <1>2, ConnectOpens DEF SessionsOK, Connect
  <2>2. "schedule" \notin Req
    BY SchedulePoolAssumption
  <2>3. \A g \in Firing : firePc'[g] \in FireSession <=> g = f
    BY <1>2, <2>1 DEF SessionsOK, TypeOK, FireSession, FirePcs
  <2>4. \A g, h \in Firing : firePc'[g] \in FireSession /\ firePc'[h] \in FireSession => g = h
    BY <2>3
  <2>5. \E g \in Firing : firePc'[g] \in FireSession
    BY <2>3
  <2>6. "root" \in connections' <=> root'
    BY <1>2, <2>1 DEF SessionsOK
  <2>7. \A r \in Req : r \in connections' <=> reqPc'[r] \in ReqSession
    BY <1>2, <2>1, <2>2 DEF SessionsOK
  <2> QED  BY <1>2, <2>1, <2>4, <2>5, <2>6, <2>7 DEF SessionsOK
<1> QED  BY <1>1, <1>2

\* It gives the session back, and was the only one to have it.
LEMMA FiringEnds ==
    ASSUME TypeOK, SessionsOK, NEW f \in Firing, up, up' = up, root' = root, reqPc' = reqPc,
           firePc[f] = "close", firePc' = [firePc EXCEPT ![f] = "idle"], Close("schedule")
    PROVE  SessionsOK'
<1>1. CASE permanent
  BY <1>1 DEF Close, store, SessionsOK
<1>2. CASE ~ permanent
  <2>1. /\ permanent' = permanent /\ connections' = connections \ {"schedule"}
        /\ IsFiniteSet(connections')
        /\ dbOpen' <=> connections' # {}
    BY <1>2, CloseCloses DEF SessionsOK, TypeOK
  <2>2. "schedule" \notin Req
    BY SchedulePoolAssumption
  <2>3. \A g \in Firing : firePc'[g] \notin FireSession
    BY <1>2 DEF SessionsOK, TypeOK, FireSession, FirePcs
  <2>4. "root" \in connections' <=> root'
    BY <1>2, <2>1 DEF SessionsOK
  <2>5. \A r \in Req : r \in connections' <=> reqPc'[r] \in ReqSession
    BY <1>2, <2>1, <2>2 DEF SessionsOK
  <2> QED  BY <1>2, <2>1, <2>3, <2>4, <2>5 DEF SessionsOK
<1> QED  BY <1>1, <1>2

\* A process that has died has no sessions to speak of.
LEMMA SessionsDie == Die => SessionsOK' /\ RefreshOK'
BY DEF Die, SessionsOK, RefreshOK

\* Every step keeps the sessions in order.
LEMMA SessionsStep == TypeOK /\ DeadOK /\ SessionsOK /\ [Next]_vars => SessionsOK'
<1> SUFFICES ASSUME TypeOK, DeadOK, SessionsOK, [Next]_vars PROVE SessionsOK'
  OBVIOUS
<1>r. {"write", "read", "lock", "add", "close"} \subseteq ReqSession
  BY DEF ReqSession, ReqPcs
<1>f. {"load", "remote", "setRead", "setWrite", "addTask", "close"} \subseteq FireSession
  BY DEF FireSession, FirePcs
<1>p. FireSession \subseteq FirePcs /\ "fired" \in FirePcs
  BY DEF FireSession, FirePcs
<1>1. CASE RootClose
  <2>1. /\ up /\ up' = up /\ root /\ root' = FALSE /\ Close("root")
        /\ reqPc' = reqPc /\ firePc' = firePc
    BY <1>1 DEF RootClose, request, firing
  <2>2. CASE permanent
    BY <2>1, <2>2 DEF Close, store, SessionsOK
  <2>3. CASE ~ permanent
    <3>1. /\ permanent' = permanent /\ connections' = connections \ {"root"}
          /\ IsFiniteSet(connections')
          /\ dbOpen' <=> connections' # {}
      BY <2>1, <2>3, CloseCloses DEF SessionsOK, TypeOK
    <3>2. "root" \notin Req
      BY SchedulePoolAssumption
    <3> QED  BY <2>1, <2>3, <3>1, <3>2 DEF SessionsOK
  <2> QED  BY <2>2, <2>3
<1>2. ASSUME NEW r \in Req, Write(r) PROVE SessionsOK'
  <2>1. PICK pc \in {"close", "read"} : reqPc' = [reqPc EXCEPT ![r] = pc]
    BY <1>2 DEF Write
  <2>2. /\ up /\ up' = up /\ root' = root /\ permanent' = permanent /\ connections' = connections
        /\ dbOpen' = dbOpen /\ firePc' = firePc /\ reqPc[r] = "write"
    BY <1>2 DEF Write, store, firing
  <2> QED  BY <2>1, <2>2, <1>r, RequestWorks
<1>3. ASSUME NEW r \in Req, RefreshRead(r) PROVE SessionsOK'
  <2>1. PICK pc \in {"add", "lock"} : reqPc' = [reqPc EXCEPT ![r] = pc]
    BY <1>3 DEF RefreshRead
  <2>2. /\ up /\ up' = up /\ root' = root /\ permanent' = permanent /\ connections' = connections
        /\ dbOpen' = dbOpen /\ firePc' = firePc /\ reqPc[r] = "read"
    BY <1>3 DEF RefreshRead, store, firing
  <2> QED  BY <2>1, <2>2, <1>r, RequestWorks
<1>4. ASSUME NEW r \in Req, RefreshLock(r) PROVE SessionsOK'
  <2>1. /\ up /\ up' = up /\ root' = root /\ permanent' = permanent /\ connections' = connections
        /\ dbOpen' = dbOpen /\ firePc' = firePc /\ reqPc[r] = "lock"
        /\ reqPc' = [reqPc EXCEPT ![r] = "add"]
    BY <1>4 DEF RefreshLock, store, firing
  <2> QED  BY <2>1, <1>r, RequestWorks
<1>5. ASSUME NEW r \in Req, NEW s \in Schedule, RefreshAdd(r, s) PROVE SessionsOK'
  <2>1. /\ up /\ up' = up /\ root' = root /\ permanent' = permanent /\ connections' = connections
        /\ dbOpen' = dbOpen /\ firePc' = firePc /\ reqPc' = reqPc
    BY <1>5 DEF RefreshAdd, store, firing
  <2> QED  BY <2>1, SessionsStay
<1>6. ASSUME NEW r \in Req, RefreshUnlock(r) PROVE SessionsOK'
  <2>1. CASE locked
    <3>1. /\ up /\ up' = up /\ root' = root /\ permanent' = permanent /\ connections' = connections
          /\ dbOpen' = dbOpen /\ firePc' = firePc /\ reqPc[r] = "add"
          /\ reqPc' = [reqPc EXCEPT ![r] = "close"]
      BY <1>6, <2>1 DEF RefreshUnlock, store, firing
    <3> QED  BY <3>1, <1>r, RequestWorks
  <2>2. CASE ~ locked
    BY <1>6, <2>2, SessionsDie DEF RefreshUnlock
  <2> QED  BY <2>1, <2>2
<1>7. ASSUME NEW r \in Req, End(r) PROVE SessionsOK'
  BY <1>7, RequestEnds DEF End, firing
<1>8. ASSUME NEW r \in Req, NEW o \in Op, Begin(r, o) PROVE SessionsOK'
  BY <1>8, RequestBegins DEF Begin, firing
<1>9. ASSUME NEW f \in Firing, NEW s \in Schedule, Fire(f, s) PROVE SessionsOK'
  <2>1. /\ up /\ up' = up /\ root' = root /\ permanent' = permanent /\ connections' = connections
        /\ dbOpen' = dbOpen /\ reqPc' = reqPc /\ firePc[f] = "idle"
        /\ firePc' = [firePc EXCEPT ![f] = "fired"]
    BY <1>9 DEF Fire, Goto, store, request
  <2>2. "idle" \notin FireSession /\ "fired" \notin FireSession
    BY DEF FireSession
  <2> QED  BY <2>1, <2>2, <1>p, FiringWorks
<1>10. ASSUME NEW f \in Firing, RunConnect(f) PROVE SessionsOK'
  <2>1. CASE ConnectPanics("schedule")
    BY <1>10, <2>1, SessionsDie DEF RunConnect
  <2>2. CASE ~ ConnectPanics("schedule")
    <3>1. /\ up /\ up' = up /\ root' = root /\ reqPc' = reqPc /\ Connect("schedule")
          /\ firePc' = [firePc EXCEPT ![f] = "load"]
      BY <1>10, <2>2 DEF RunConnect, Goto, request
    <3> QED  BY <3>1, FiringBegins
  <2> QED  BY <2>1, <2>2
<1>11. ASSUME NEW f \in Firing,
              RunLoad(f) \/ RunRemote(f) \/ RunSetRead(f) \/ RunSetWrite(f) \/ RunAddTask(f)
       PROVE  SessionsOK'
  <2>1. /\ up /\ up' = up /\ root' = root /\ permanent' = permanent /\ connections' = connections
        /\ dbOpen' = dbOpen /\ reqPc' = reqPc
    BY <1>11 DEF RunLoad, RunRemote, RunSetRead, RunSetWrite, RunAddTask, store, request
  <2>2. firePc[f] \in FireSession
    BY <1>11, <1>f DEF RunLoad, RunRemote, RunSetRead, RunSetWrite, RunAddTask
  <2>3. \E pc \in FireSession : firePc' = [firePc EXCEPT ![f] = pc]
    <3>1. CASE RunLoad(f)
      BY <3>1, <1>f DEF RunLoad, Goto
    <3>2. CASE RunRemote(f)
      BY <3>2, <1>f DEF RunRemote, Goto
    <3>3. CASE RunSetRead(f)
      BY <3>3, <1>f DEF RunSetRead, Goto
    <3>4. CASE RunSetWrite(f) \/ RunAddTask(f)
      BY <3>4, <1>f DEF RunSetWrite, RunAddTask, Goto
    <3> QED  BY <1>11, <3>1, <3>2, <3>3, <3>4
  <2> QED  BY <2>1, <2>2, <2>3, <1>p, FiringWorks
<1>12. ASSUME NEW f \in Firing, RunClose(f) PROVE SessionsOK'
  BY <1>12, FiringEnds DEF RunClose, Goto, request
<1>13. CASE Crash \/ Destroy
  BY <1>13, SessionsDie DEF Crash, Destroy
<1>14. CASE Restart
  <2>1. /\ ~ up /\ up' = TRUE /\ root' = TRUE /\ dbOpen' = TRUE /\ permanent' = permanent
        /\ ~ permanent => connections' = {"root"}
        /\ reqPc' = reqPc /\ firePc' = firePc
    BY <1>14 DEF Restart, request, firing
  <2>2. /\ \A r \in Req : reqPc[r] \notin ReqSession
        /\ \A f \in Firing : firePc[f] \notin FireSession
    BY <2>1 DEF DeadOK, ReqSession, FireSession
  <2>3. IsFiniteSet({"root"})
    BY FS_Singleton
  <2>4. "root" \notin Req
    BY SchedulePoolAssumption
  <2> QED  BY <2>1, <2>2, <2>3, <2>4 DEF SessionsOK
<1>15. CASE UNCHANGED vars
  BY <1>15 DEF SessionsOK, vars, store, request, firing
<1> QED
  BY <1>1, <1>2, <1>3, <1>4, <1>5, <1>6, <1>7, <1>8, <1>9, <1>10, <1>11, <1>12, <1>13, <1>14,
     <1>15 DEF Next, Refresh, Run

-----------------------------------------------------------------------------
(***************************************************************************)
(* The entries of cron.                                                    *)
(***************************************************************************)

\* The part of the pool that Refresh works on is left alone.
LEMMA RefreshStays ==
    ASSUME RefreshOK, up, entries' = entries, locked' = locked, applied' = applied, broken' = broken,
           \A r \in Req : reqPc'[r] = "add" => reqPc[r] = "add" /\ list'[r] = list[r]
    PROVE  RefreshOK'
BY DEF RefreshOK, EntriesOf

\* A list has no entries once all its schedules have been taken from it.
LEMMA NoEntriesLeft == EntriesOf(NoTable) = NoEntries
BY DEF EntriesOf, NoTable, NoEntries, Entry

\* addRunner moves one entry from the list into cron.
LEMMA EntryMoves ==
    ASSUME NEW l \in Table, NEW s \in Schedule, l[s] # NoRow,
           NEW n \in [Entry -> Nat], NEW e \in Entry
    PROVE  [n EXCEPT ![<<s, l[s].cron>>] = @ + 1][e] + EntriesOf([l EXCEPT ![s] = NoRow])[e]
              = n[e] + EntriesOf(l)[e]
<1>1. PICK t \in Schedule, c \in Cron : e = <<t, c>>
  BY DEF Entry
<1>2. l[s].cron \in Cron
  BY DEF Table, Row
<1>3. EntriesOf(l)[e] = IF l[t] # NoRow /\ l[t].cron = c THEN 1 ELSE 0
  BY <1>1 DEF EntriesOf
<1> DEFINE m == [l EXCEPT ![s] = NoRow]
<1>4. EntriesOf(m)[e] = IF m[t] # NoRow /\ m[t].cron = c THEN 1 ELSE 0
  BY <1>1 DEF EntriesOf
<1>5. m[t] = IF t = s THEN NoRow ELSE l[t]
  BY <1>1 DEF Table
<1> DEFINE k == <<s, l[s].cron>>
<1>6. e = k <=> t = s /\ c = l[s].cron
  BY <1>1
<1>7. k \in Entry
  BY <1>2 DEF Entry
<1> HIDE DEF m, k
<1>8. [n EXCEPT ![k] = @ + 1][e] = IF e = k THEN n[e] + 1 ELSE n[e]
  OBVIOUS
<1>9. n[e] \in Nat
  OBVIOUS
<1>10. [n EXCEPT ![k] = @ + 1][e] + EntriesOf(m)[e] = n[e] + EntriesOf(l)[e]
  <2>1. CASE e = k
    <3>1. EntriesOf(l)[e] = 1 /\ EntriesOf(m)[e] = 0
      BY <1>3, <1>4, <1>5, <1>6, <2>1
    <3> QED  BY <1>8, <1>9, <2>1, <3>1
  <2>2. CASE e # k
    <3>1. EntriesOf(m)[e] = EntriesOf(l)[e]
      BY <1>3, <1>4, <1>5, <1>6, <2>2
    <3> QED  BY <1>8, <2>2, <3>1
  <2> QED  BY <2>1, <2>2
<1> QED  BY <1>10 DEF m, k

\* Every step keeps the entries those of one list.
LEMMA RefreshStep == TypeOK /\ DeadOK /\ RefreshOK /\ [Next]_vars => RefreshOK'
<1> SUFFICES ASSUME TypeOK, DeadOK, RefreshOK, [Next]_vars PROVE RefreshOK'
  OBVIOUS
<1>1. CASE RootClose
  BY <1>1, RefreshStays DEF RootClose, pool, request
<1>2. ASSUME NEW r \in Req, Write(r) PROVE RefreshOK'
  <2>1. PICK pc \in {"close", "read"} : reqPc' = [reqPc EXCEPT ![r] = pc]
    BY <1>2 DEF Write
  <2>2. \A q \in Req : reqPc'[q] = "add" => reqPc[q] = "add"
    BY <2>1 DEF TypeOK
  <2> QED  BY <1>2, <2>2, RefreshStays DEF Write, pool
<1>3. ASSUME NEW r \in Req, RefreshRead(r) PROVE RefreshOK'
  <2>1. PICK err \in StoreErr : /\ list' = [list EXCEPT ![r] = IF err THEN NoTable ELSE table]
                                /\ reqPc' = [reqPc EXCEPT ![r] = IF err THEN "add" ELSE "lock"]
                                /\ broken' = (broken \/ err)
    BY <1>3 DEF RefreshRead
  <2>2. err \in BOOLEAN /\ broken \in BOOLEAN
    BY SchedulePoolAssumption DEF TypeOK
  <2>3. CASE err
    BY <2>1, <2>3 DEF RefreshOK
  <2>4. CASE ~ err
    <3>1. broken' = broken
      BY <2>1, <2>2, <2>4
    <3>2. reqPc[r] = "read"
      BY <1>3 DEF RefreshRead
    <3>3. \A q \in Req : reqPc'[q] = "add" => reqPc[q] = "add" /\ list'[q] = list[q]
      BY <2>1, <2>4, <3>2 DEF TypeOK
    <3> QED  BY <1>3, <3>1, <3>3, RefreshStays DEF RefreshRead
  <2> QED  BY <2>3, <2>4
<1>4. ASSUME NEW r \in Req, RefreshLock(r) PROVE RefreshOK'
  <2> SUFFICES ASSUME up', ~ broken' PROVE RefreshOK'
    BY DEF RefreshOK
  <2>1. /\ up /\ reqPc[r] = "lock" /\ ~ locked /\ locked' = TRUE
        /\ entries' = NoEntries /\ applied' = list[r] /\ list' = list /\ broken' = broken
        /\ reqPc' = [reqPc EXCEPT ![r] = "add"]
    BY <1>4 DEF RefreshLock
  <2>2. \A q \in Req : reqPc'[q] = "add" <=> q = r
    BY <2>1 DEF RefreshOK, TypeOK
  <2>3. \A e \in Entry : NoEntries[e] + EntriesOf(list[r])[e] = EntriesOf(list[r])[e]
    BY EntriesTyped DEF NoEntries
  <2>4. EntriesOf(list'[r]) = EntriesOf(list[r]) /\ EntriesOf(applied') = EntriesOf(list[r])
    BY <2>1
  <2>5. \A q \in Req : reqPc'[q] = "add" =>
              /\ locked'
              /\ \A e \in Entry : entries'[e] + EntriesOf(list'[q])[e] = EntriesOf(applied')[e]
    BY <2>1, <2>2, <2>3, <2>4
  <2> QED  BY <2>1, <2>2, <2>5 DEF RefreshOK, EntriesOf
<1>5. ASSUME NEW r \in Req, NEW s \in Schedule, RefreshAdd(r, s) PROVE RefreshOK'
  <2> SUFFICES ASSUME up', ~ broken' PROVE RefreshOK'
    BY DEF RefreshOK
  <2>1. /\ up /\ reqPc[r] = "add" /\ locked' = locked /\ applied' = applied /\ broken' = broken
        /\ reqPc' = reqPc /\ list[r][s] # NoRow
        /\ entries' = [entries EXCEPT ![<<s, list[r][s].cron>>] = @ + 1]
        /\ list' = [list EXCEPT ![r] = [@ EXCEPT ![s] = NoRow]]
    BY <1>5 DEF RefreshAdd
  <2>2. list[r] \in Table /\ entries \in [Entry -> Nat]
    BY DEF TypeOK
  <2>3. \A q \in Req : reqPc'[q] = "add" => q = r
    BY <2>1 DEF RefreshOK
  <2>4. locked /\ \A e \in Entry : entries[e] + EntriesOf(list[r])[e] = EntriesOf(applied)[e]
    BY <2>1 DEF RefreshOK
  <2>5. list'[r] = [list[r] EXCEPT ![s] = NoRow]
    BY <2>1 DEF TypeOK
  <2>6. \A e \in Entry : entries'[e] + EntriesOf([list[r] EXCEPT ![s] = NoRow])[e]
                            = entries[e] + EntriesOf(list[r])[e]
    BY <2>1, <2>2, EntryMoves
  <2>7. \A e \in Entry : entries'[e] + EntriesOf(list'[r])[e] = EntriesOf(applied')[e]
    BY <2>1, <2>4, <2>5, <2>6
  <2> QED  BY <2>1, <2>3, <2>4, <2>7 DEF RefreshOK, EntriesOf
<1>6. ASSUME NEW r \in Req, RefreshUnlock(r) PROVE RefreshOK'
  <2> SUFFICES ASSUME up', ~ broken' PROVE RefreshOK'
    BY DEF RefreshOK
  <2>1. CASE locked
    <3>1. /\ up /\ reqPc[r] = "add" /\ list[r] = NoTable /\ locked' = FALSE
          /\ reqPc' = [reqPc EXCEPT ![r] = "close"] /\ entries' = entries /\ applied' = applied
          /\ broken' = broken /\ list' = list
      BY <1>6, <2>1 DEF RefreshUnlock
    <3>2. \A q \in Req : reqPc'[q] # "add"
      BY <3>1 DEF RefreshOK, TypeOK
    <3>3. \A e \in Entry : entries[e] = EntriesOf(applied)[e]
      <4>1. \A e \in Entry : entries[e] + EntriesOf(list[r])[e] = EntriesOf(applied)[e]
        BY <3>1 DEF RefreshOK
      <4>2. \A e \in Entry : EntriesOf(list[r])[e] = 0
        BY <3>1, NoEntriesLeft DEF NoEntries
      <4> QED  BY <4>1, <4>2 DEF TypeOK
    <3>4. entries = EntriesOf(applied)
      BY <3>3, EntriesTyped DEF TypeOK
    <3>5. entries' = EntriesOf(applied')
      BY <3>1, <3>4
    <3> QED  BY <3>2, <3>5 DEF RefreshOK, EntriesOf
  <2>2. CASE ~ locked
    BY <1>6, <2>2, SessionsDie DEF RefreshUnlock
  <2> QED  BY <2>1, <2>2
<1>7. ASSUME NEW r \in Req, End(r) PROVE RefreshOK'
  <2>1. \A q \in Req : reqPc'[q] = "add" => reqPc[q] = "add"
    BY <1>7 DEF End, TypeOK
  <2> QED  BY <1>7, <2>1, RefreshStays DEF End, pool
<1>8. ASSUME NEW r \in Req, NEW o \in Op, Begin(r, o) PROVE RefreshOK'
  <2>1. \A q \in Req : reqPc'[q] = "add" => reqPc[q] = "add"
    BY <1>8 DEF Begin, TypeOK
  <2> QED  BY <1>8, <2>1, RefreshStays DEF Begin, pool
<1>9. ASSUME NEW f \in Firing, RunConnect(f) PROVE RefreshOK'
  <2>1. CASE ConnectPanics("schedule")
    BY <1>9, <2>1, SessionsDie DEF RunConnect
  <2>2. CASE ~ ConnectPanics("schedule")
    BY <1>9, <2>2, RefreshStays DEF RunConnect, pool, request
  <2> QED  BY <2>1, <2>2
<1>10. ASSUME NEW f \in Firing, \/ RunLoad(f) \/ RunRemote(f) \/ RunSetRead(f) \/ RunSetWrite(f)
                                \/ RunAddTask(f) \/ RunClose(f) \/ \E s \in Schedule : Fire(f, s)
       PROVE  RefreshOK'
  <2>1. /\ up /\ entries' = entries /\ locked' = locked /\ applied' = applied /\ broken' = broken
        /\ reqPc' = reqPc /\ list' = list
    BY <1>10 DEF RunLoad, RunRemote, RunSetRead, RunSetWrite, RunAddTask, RunClose, Fire, pool, request
  <2> QED  BY <2>1, RefreshStays
<1>11. CASE Crash \/ Destroy
  BY <1>11, SessionsDie DEF Crash, Destroy
<1>12. CASE Restart
  <2>1. ~ up /\ entries' = EntriesOf(table) /\ applied' = table /\ reqPc' = reqPc
    BY <1>12 DEF Restart, request
  <2>2. \A r \in Req : reqPc'[r] # "add"
    BY <2>1 DEF DeadOK
  <2>3. entries' = EntriesOf(applied')
    BY <2>1
  <2> QED  BY <2>2, <2>3 DEF RefreshOK, EntriesOf
<1>13. CASE UNCHANGED vars
  BY <1>13 DEF RefreshOK, EntriesOf, vars, pool, request
<1> QED
  BY <1>1, <1>2, <1>3, <1>4, <1>5, <1>6, <1>7, <1>8, <1>9, <1>10, <1>11, <1>12, <1>13
     DEF Next, Refresh, Run

-----------------------------------------------------------------------------
(***************************************************************************)
(* The commits of the schedules.                                           *)
(***************************************************************************)

\* A commit that is pending is the one some goroutine is adding the task for.
LEMMA PendingOf ==
    \A s, h : h \in Pending(s) <=>
        \E f \in Firing : fired[f] = s /\ firePc[f] = "addTask" /\ remote[f] = h
BY DEF Pending

\* The same after a step.
LEMMA PendingOfNext ==
    \A s, h : h \in Pending(s)' <=>
        \E f \in Firing : fired'[f] = s /\ firePc'[f] = "addTask" /\ remote'[f] = h
BY DEF Pending

\* A step that stores no commit, adds no task and leaves those alone that do.
LEMMA BuiltStays ==
    ASSUME Built, added' = added,
           \A s \in WithRepo : table'[s] # NoRow => table'[s] = table[s] \/ table'[s].hash = NoHash,
           \A f \in Firing : firePc[f] = "addTask" =>
              firePc'[f] = "addTask" /\ fired'[f] = fired[f] /\ remote'[f] = remote[f]
    PROVE  Built'
<1>1. \A s : Pending(s) \subseteq Pending(s)'
  BY PendingOf, PendingOfNext
<1> SUFFICES ASSUME NEW s \in WithRepo, table'[s] # NoRow, table'[s].hash # NoHash
             PROVE  table'[s].hash \in added'[s] \cup Pending(s)'
  BY DEF Built
<1>2. table'[s] = table[s]
  OBVIOUS
<1>3. table[s].hash \in added[s] \cup Pending(s)
  BY <1>2 DEF Built
<1> QED  BY <1>1, <1>2, <1>3

\* A goroutine that stores its commit goes on to add the task.
LEMMA BuiltStored ==
    ASSUME TypeOK, Built, added' = added, NEW f \in Firing, fired' = fired, remote' = remote,
           firePc[f] # "addTask", firePc' = [firePc EXCEPT ![f] = "addTask"],
           \A s \in Schedule : table'[s] = table[s] \/ (s = fired[f] /\ table'[s].hash = remote[f])
    PROVE  Built'
<1>1. \A s : Pending(s) \subseteq Pending(s)'
  BY PendingOf, PendingOfNext DEF TypeOK
<1>2. remote[f] \in Pending(fired[f])'
  BY PendingOfNext DEF TypeOK
<1> SUFFICES ASSUME NEW s \in WithRepo, table'[s] # NoRow, table'[s].hash # NoHash
             PROVE  table'[s].hash \in added'[s] \cup Pending(s)'
  BY DEF Built
<1>3. s \in Schedule
  BY SchedulePoolAssumption
<1>4. CASE table'[s] = table[s]
  <2>1. table[s].hash \in added[s] \cup Pending(s)
    BY <1>4 DEF Built
  <2> QED  BY <1>1, <1>4, <2>1
<1>5. CASE s = fired[f] /\ table'[s].hash = remote[f]
  BY <1>2, <1>5
<1> QED  BY <1>3, <1>4, <1>5

\* A process that dies has added, or given up, what was pending.
LEMMA BuiltDies == TypeOK /\ Built /\ Die => Built'
<1> SUFFICES ASSUME TypeOK, Built, Die, NEW s \in WithRepo, table'[s] # NoRow, table'[s].hash # NoHash
             PROVE  table'[s].hash \in added'[s] \cup Pending(s)'
  BY DEF Built
<1>1. table' = table /\ s \in Schedule
  BY SchedulePoolAssumption DEF Die
<1>2. added'[s] = added[s] \cup Pending(s)
  BY <1>1 DEF Die
<1> QED  BY <1>1, <1>2 DEF Built

\* Every step keeps the stored commits accounted for.
LEMMA BuiltStep == TypeOK /\ FiringOK /\ Built /\ [Next]_vars => Built'
<1> SUFFICES ASSUME TypeOK, FiringOK, Built, [Next]_vars PROVE Built'
  OBVIOUS
<1>1. CASE RootClose \/ Restart
  BY <1>1, BuiltStays DEF RootClose, Restart, firing
<1>2. ASSUME NEW r \in Req, Write(r) PROVE Built'
  <2>1. op[r].s \in Schedule
    BY DEF TypeOK, Op
  <2>2. \/ table' = table
        \/ table' = [table EXCEPT ![op[r].s] = [cron |-> op[r].cron, hash |-> NoHash]]
        \/ table' = [table EXCEPT ![op[r].s] = NoRow]
    BY <1>2 DEF Write
  <2>3. \A s \in Schedule : table'[s] # NoRow => table'[s] = table[s] \/ table'[s].hash = NoHash
    BY <2>1, <2>2 DEF TypeOK, Table
  <2>4. \A s \in WithRepo : s \in Schedule
    BY SchedulePoolAssumption
  <2> QED  BY <1>2, <2>3, <2>4, BuiltStays DEF Write, firing
<1>3. ASSUME NEW r \in Req, RefreshRead(r) \/ RefreshLock(r) \/ (\E s \in Schedule : RefreshAdd(r, s))
      PROVE  Built'
  <2>1. table' = table /\ added' = added /\ firePc' = firePc /\ fired' = fired /\ remote' = remote
    BY <1>3 DEF RefreshRead, RefreshLock, RefreshAdd, firing
  <2> QED  BY <2>1, BuiltStays
<1>4. ASSUME NEW r \in Req, RefreshUnlock(r) PROVE Built'
  <2>1. CASE locked
    BY <1>4, <2>1, BuiltStays DEF RefreshUnlock, firing
  <2>2. CASE ~ locked
    BY <1>4, <2>2, BuiltDies DEF RefreshUnlock
  <2> QED  BY <2>1, <2>2
<1>5. ASSUME NEW r \in Req, End(r) \/ (\E o \in Op : Begin(r, o)) PROVE Built'
  <2>1. table' = table /\ added' = added /\ firePc' = firePc /\ fired' = fired /\ remote' = remote
    BY <1>5 DEF End, Begin, firing
  <2> QED  BY <2>1, BuiltStays
<1>6. ASSUME NEW f \in Firing, NEW s \in Schedule, Fire(f, s) PROVE Built'
  <2>1. /\ table' = table /\ added' = added /\ remote' = remote /\ firePc[f] = "idle"
        /\ firePc' = [firePc EXCEPT ![f] = "fired"] /\ fired' = [fired EXCEPT ![f] = s]
    BY <1>6 DEF Fire, Goto
  <2>2. \A g \in Firing : firePc[g] = "addTask" =>
              firePc'[g] = "addTask" /\ fired'[g] = fired[g] /\ remote'[g] = remote[g]
    BY <2>1 DEF TypeOK
  <2> QED  BY <2>1, <2>2, BuiltStays
<1>7. ASSUME NEW f \in Firing, RunConnect(f) PROVE Built'
  <2>1. CASE ConnectPanics("schedule")
    BY <1>7, <2>1, BuiltDies DEF RunConnect
  <2>2. CASE ~ ConnectPanics("schedule")
    <3>1. /\ table' = table /\ added' = added /\ fired' = fired /\ remote' = remote
          /\ firePc[f] = "fired" /\ firePc' = [firePc EXCEPT ![f] = "load"]
      BY <1>7, <2>2 DEF RunConnect, Goto
    <3>2. \A g \in Firing : firePc[g] = "addTask" => firePc'[g] = "addTask"
      BY <3>1 DEF TypeOK
    <3> QED  BY <3>1, <3>2, BuiltStays
  <2> QED  BY <2>1, <2>2
<1>8. ASSUME NEW f \in Firing, RunLoad(f) PROVE Built'
  <2>1. /\ table' = table /\ added' = added /\ fired' = fired /\ remote' = remote /\ firePc[f] = "load"
        /\ \E pc : firePc' = [firePc EXCEPT ![f] = pc]
    BY <1>8 DEF RunLoad, Goto
  <2>2. \A g \in Firing : firePc[g] = "addTask" => firePc'[g] = "addTask"
    BY <2>1 DEF TypeOK
  <2> QED  BY <2>1, <2>2, BuiltStays
<1>9. ASSUME NEW f \in Firing, RunRemote(f) PROVE Built'
  <2>1. /\ table' = table /\ added' = added /\ fired' = fired /\ firePc[f] = "remote"
        /\ \E pc : firePc' = [firePc EXCEPT ![f] = pc]
        /\ remote' = remote \/ \E h : remote' = [remote EXCEPT ![f] = h]
    BY <1>9 DEF RunRemote, Goto
  <2>2. \A g \in Firing : firePc[g] = "addTask" =>
              firePc'[g] = "addTask" /\ fired'[g] = fired[g] /\ remote'[g] = remote[g]
    BY <2>1 DEF TypeOK
  <2> QED  BY <2>1, <2>2, BuiltStays
<1>10. ASSUME NEW f \in Firing, RunSetRead(f) PROVE Built'
  <2>1. added' = added /\ fired' = fired /\ remote' = remote /\ firePc[f] = "setRead"
    BY <1>10 DEF RunSetRead
  <2>2. CASE permanent
    <3>1. /\ firePc' = [firePc EXCEPT ![f] = "addTask"]
          /\ \/ table' = table
             \/ /\ table[fired[f]] # NoRow
                /\ table' = [table EXCEPT ![fired[f]] = [@ EXCEPT !.hash = remote[f]]]
      BY <1>10, <2>2 DEF RunSetRead, Goto
    <3>2. table[fired[f]] # NoRow => [table[fired[f]] EXCEPT !.hash = remote[f]].hash = remote[f]
      <4>1. fired[f] \in Schedule /\ remote[f] \in Hash \cup {NoHash}
        BY DEF TypeOK
      <4>2. table[fired[f]] # NoRow => table[fired[f]] \in Row
        BY <4>1 DEF TypeOK, Table
      <4> QED  BY <4>1, <4>2, RowWithHash
    <3>3. \A s \in Schedule : table'[s] = table[s] \/ (s = fired[f] /\ table'[s].hash = remote[f])
      <4> TAKE s \in Schedule
      <4>1. DOMAIN table = Schedule /\ fired[f] \in Schedule
        BY DEF TypeOK, Table
      <4>2. table'[s] = table[s] \/ (s = fired[f] /\ table'[s] = [table[fired[f]] EXCEPT !.hash = remote[f]])
        BY <3>1, <4>1
      <4> QED  BY <4>2, <3>1, <3>2
    <3> QED  BY <2>1, <3>1, <3>3, BuiltStored
  <2>3. CASE ~ permanent
    <3>1. table' = table /\ \E pc : firePc' = [firePc EXCEPT ![f] = pc]
      BY <1>10, <2>3 DEF RunSetRead, Goto
    <3>2. \A g \in Firing : firePc[g] = "addTask" => firePc'[g] = "addTask"
      BY <2>1, <3>1 DEF TypeOK
    <3> QED  BY <2>1, <3>1, <3>2, BuiltStays
  <2> QED  BY <2>2, <2>3
<1>11. ASSUME NEW f \in Firing, RunSetWrite(f) PROVE Built'
  <2>1. added' = added /\ fired' = fired /\ remote' = remote /\ firePc[f] = "setWrite"
    BY <1>11 DEF RunSetWrite
  <2>2. CASE table[fired[f]] = NoRow
    <3>1. table' = table /\ firePc' = [firePc EXCEPT ![f] = "close"]
      BY <1>11, <2>2 DEF RunSetWrite, Goto
    <3>2. \A g \in Firing : firePc[g] = "addTask" => firePc'[g] = "addTask"
      BY <2>1, <3>1 DEF TypeOK
    <3> QED  BY <2>1, <3>1, <3>2, BuiltStays
  <2>3. CASE table[fired[f]] # NoRow
    <3>1. /\ firePc' = [firePc EXCEPT ![f] = "addTask"]
          /\ table' = [table EXCEPT ![fired[f]] = [sched[f] EXCEPT !.hash = remote[f]]]
      BY <1>11, <2>3 DEF RunSetWrite, Goto
    <3>2. [sched[f] EXCEPT !.hash = remote[f]].hash = remote[f]
      <4>1. sched[f] \in Row /\ remote[f] \in Hash \cup {NoHash}
        BY <2>1 DEF FiringOK, TypeOK
      <4> QED  BY <4>1, RowWithHash
    <3>3. \A s \in Schedule : table'[s] = table[s] \/ (s = fired[f] /\ table'[s].hash = remote[f])
      <4> TAKE s \in Schedule
      <4>1. DOMAIN table = Schedule /\ fired[f] \in Schedule
        BY DEF TypeOK, Table
      <4>2. table'[s] = table[s] \/ (s = fired[f] /\ table'[s] = [sched[f] EXCEPT !.hash = remote[f]])
        BY <3>1, <4>1
      <4> QED  BY <4>2, <3>1, <3>2
    <3> QED  BY <2>1, <3>1, <3>3, BuiltStored
  <2> QED  BY <2>2, <2>3
<1>12. ASSUME NEW f \in Firing, RunAddTask(f) PROVE Built'
  <2>1. /\ table' = table /\ fired' = fired /\ remote' = remote /\ firePc[f] = "addTask"
        /\ firePc' = [firePc EXCEPT ![f] = "close"]
        /\ fired[f] \in WithRepo => added' = [added EXCEPT ![fired[f]] = @ \cup {remote[f]}]
        /\ fired[f] \notin WithRepo => added' = added
    BY <1>12 DEF RunAddTask, Goto
  <2> SUFFICES ASSUME NEW s \in WithRepo, table'[s] # NoRow, table'[s].hash # NoHash
               PROVE  table'[s].hash \in added'[s] \cup Pending(s)'
    BY DEF Built
  <2>2. s \in Schedule
    BY SchedulePoolAssumption
  <2>3. table[s].hash \in added[s] \cup Pending(s)
    BY <2>1 DEF Built
  <2>4. added[s] \subseteq added'[s]
    BY <2>1, <2>2 DEF TypeOK
  <2>5. fired[f] = s => remote[f] \in added'[s]
    BY <2>1, <2>2 DEF TypeOK
  <2>6. \A h \in Pending(s) : h \in Pending(s)' \/ (fired[f] = s /\ h = remote[f])
    BY <2>1, PendingOf, PendingOfNext DEF TypeOK
  <2> QED  BY <2>1, <2>3, <2>4, <2>5, <2>6
<1>13. ASSUME NEW f \in Firing, RunClose(f) PROVE Built'
  <2>1. /\ table' = table /\ added' = added /\ firePc[f] = "close"
        /\ firePc' = [firePc EXCEPT ![f] = "idle"] /\ fired' = [fired EXCEPT ![f] = AnySched]
        /\ remote' = [remote EXCEPT ![f] = NoHash]
    BY <1>13 DEF RunClose, Goto
  <2>2. \A g \in Firing : firePc[g] = "addTask" =>
              firePc'[g] = "addTask" /\ fired'[g] = fired[g] /\ remote'[g] = remote[g]
    BY <2>1 DEF TypeOK
  <2> QED  BY <2>1, <2>2, BuiltStays
<1>14. CASE Crash \/ Destroy
  BY <1>14, BuiltDies DEF Crash, Destroy
<1>15. CASE UNCHANGED vars
  BY <1>15, BuiltStays DEF vars, firing
<1> QED
  BY <1>1, <1>2, <1>3, <1>4, <1>5, <1>6, <1>7, <1>8, <1>9, <1>10, <1>11, <1>12, <1>13, <1>14,
     <1>15 DEF Next, Refresh, Run

-----------------------------------------------------------------------------
(***************************************************************************)
(* The theorems.                                                           *)
(***************************************************************************)

ScheduleInv == TypeOK /\ FiringOK /\ DeadOK /\ SessionsOK /\ RefreshOK /\ Built

\* runService starts with the session "root" and the entries of the table.
LEMMA InitInv == Init => ScheduleInv
<1> SUFFICES ASSUME Init PROVE ScheduleInv
  OBVIOUS
<1>1. TypeOK /\ FiringOK
  BY InitTyped
<1>2. DeadOK
  BY DEF Init, DeadOK
<1>3. SessionsOK
  <2>1. IsFiniteSet({"root"})
    BY FS_Singleton
  <2>2. {"root", "schedule"} \cap Req = {}
    BY SchedulePoolAssumption
  <2>3. /\ \A r \in Req : reqPc[r] \notin ReqSession
        /\ \A f \in Firing : firePc[f] \notin FireSession
    BY DEF Init, ReqSession, FireSession
  <2>4. root /\ dbOpen /\ (~ permanent => connections = {"root"})
    BY DEF Init
  <2> QED  BY <2>1, <2>2, <2>3, <2>4 DEF SessionsOK
<1>4. RefreshOK
  BY DEF Init, RefreshOK
<1>5. Built
  <2>1. \A s \in Schedule : table[s] # NoRow => table[s].hash = NoHash
    BY DEF Init
  <2> QED  BY <2>1, SchedulePoolAssumption DEF Built
<1> QED  BY <1>1, <1>2, <1>3, <1>4, <1>5 DEF ScheduleInv

\* The invariant holds in every reachable state.
THEOREM ScheduleInvariant == Spec => []ScheduleInv
<1>1. ScheduleInv /\ [Next]_vars => ScheduleInv'
  BY TypeStep, DeadStep, SessionsStep, RefreshStep, BuiltStep DEF ScheduleInv
<1> QED  BY InitInv, <1>1, PTL DEF Spec

\* The variables keep their types: a row that is written back is a row, a
\* commit that is recorded as built is one of the repository
\* (SetScheduleCommitHash, tryUpdateScheduleCommitHash).
THEOREM SchedulesTyped == Spec => []TypeOK
BY ScheduleInvariant, PTL DEF ScheduleInv

\* On Bolt the file is open exactly while somebody works with it
\* (BoltDb.Connect, Close, StoreSession).
THEOREM FileOpenInSessions == Spec => []SessionsOpen
<1>1. ScheduleInv => SessionsOpen
  <2> SUFFICES ASSUME ScheduleInv, up, ~ permanent PROVE dbOpen <=> InSession # {}
    BY DEF SessionsOpen
  <2>1. TypeOK /\ SessionsOK
    BY DEF ScheduleInv
  <2>2. dbOpen <=> connections # {}
    BY <2>1 DEF SessionsOK
  <2>3. \A r \in Req : r \in connections <=> r \in InSession
    <3>1. \A r \in Req : reqPc[r] \in ReqSession <=> reqPc[r] \notin {"new", "done"}
      BY <2>1 DEF TypeOK, ReqSession
    <3>2. \A r \in Req : r \in InSession <=> reqPc[r] \notin {"new", "done"}
      BY SchedulePoolAssumption DEF InSession
    <3> QED  BY <2>1, <3>1, <3>2 DEF SessionsOK
  <2>4. "root" \in connections <=> "root" \in InSession
    BY <2>1, SchedulePoolAssumption DEF SessionsOK, InSession
  <2>5. "schedule" \in connections <=> \E f \in Firing : f \in InSession
    <3>1. \A f \in Firing : firePc[f] \in FireSession <=> firePc[f] \notin {"idle", "fired"}
      BY <2>1 DEF TypeOK, FireSession
    <3>2. \A f \in Firing : f \in InSession <=> firePc[f] \notin {"idle", "fired"}
      BY SchedulePoolAssumption DEF InSession
    <3> QED  BY <2>1, <3>1, <3>2 DEF SessionsOK
  <2>6. connections \subseteq Req \cup {"root", "schedule"}
    BY <2>1 DEF TypeOK
  <2>7. InSession \subseteq Req \cup Firing \cup {"root"}
    BY DEF InSession
  <2> QED  BY <2>2, <2>3, <2>4, <2>5, <2>6, <2>7
<1> QED  BY ScheduleInvariant, <1>1, PTL

\* As long as GetSchedules has not failed, cron has the entries of one list
\* whenever no Refresh is at work, however many run (SchedulePool.Refresh).
THEOREM EntriesOfOneList == Spec => []OneList
<1>1. ScheduleInv => OneList
  BY DEF ScheduleInv, RefreshOK, OneList
<1> QED  BY ScheduleInvariant, <1>1, PTL

\* No schedule skips a commit: what its row calls the last one was built, is
\* about to be, or its task was given up (tryUpdateScheduleCommitHash, Run).
THEOREM NoCommitSkipped == Spec => []CommitsBuilt
<1>1. ScheduleInv => CommitsBuilt
  BY DEF ScheduleInv, Built, CommitsBuilt
<1> QED  BY ScheduleInvariant, <1>1, PTL

\* A session that is closed is open: the panic of BoltDb.Close, "can not close
\* closed connection", is never reached by a request, by a fired schedule or by
\* runService, whatever else opens and closes sessions meanwhile.
ClosesOpen ==
    up /\ ~ permanent =>
        /\ root => "root" \in connections
        /\ \A r \in Req : reqPc[r] = "close" => r \in connections
        /\ \A f \in Firing : firePc[f] = "close" => "schedule" \in connections

\* The guard of Close in the model therefore hides no panic of the code.
THEOREM NoClosedClose == Spec => []ClosesOpen
<1>1. ScheduleInv => ClosesOpen
  BY DEF ScheduleInv, SessionsOK, ClosesOpen, ReqSession, ReqPcs, FireSession, FirePcs
<1> QED  BY ScheduleInvariant, <1>1, PTL

=============================================================================
