---------------------------- MODULE ProjectStore ----------------------------
(***************************************************************************)
(* The objects of a project in the Bolt store (db/bolt): access keys,      *)
(* repositories, inventories, environments, templates, schedules, views    *)
(* and the rows of tasks, with the handlers of api/projects that create,   *)
(* change and delete them, one goroutine for each request.                 *)
(*                                                                         *)
(* Bolt runs one writing transaction at a time; each transaction that is   *)
(* only a read or a single write is one step here.  A row is what the      *)
(* requests tell apart: its references, and one value that stands for the  *)
(* rest (the secret of a key, the cron format of a schedule, the title of  *)
(* a view).  One project is modelled: bodies name the project of the URL.  *)
(* A body that creates something may name an id, and no handler looks at   *)
(* it.  The event log and the refresh of the schedule pool at the end of a *)
(* handler are left out.                                                   *)
(***************************************************************************)
EXTENDS Integers, Sequences, FiniteSets

CONSTANTS
    Obj,        \* ids
    KindOf,     \* the table an id is of
    NoObj,      \* a reference that is not set
    InitRow,    \* the rows at the beginning
    Value,      \* secrets, cron formats, titles
    Req,        \* goroutines that serve requests
    NoReq,      \* "no request"
    MaxReq,     \* bound: how many requests are made
    MaxRefs     \* bound: how many references a body sets

Kinds == {"key", "repository", "inventory", "environment", "template", "schedule",
          "view", "task"}

\* The columns that refer to other objects, in the order of the struct's
\* fields.  (view_id of a template is left out: nothing depends on it.)
RefFields ==
    [k \in Kinds |->
        CASE k = "template" -> <<"inventory_id", "repository_id", "environment_id",
                                 "vault_key_id", "build_template_id">>
          [] k = "inventory" -> <<"ssh_key_id", "become_key_id">>
          [] k = "repository" -> <<"ssh_key_id">>
          [] k = "schedule" -> <<"template_id", "repository_id">>
          [] k = "task" -> <<"template_id">>
          [] OTHER -> <<>>]

\* The columns whose names end with the ReferringColumnSuffix of a kind.
FieldsTo ==
    [k \in Kinds |->
        CASE k = "key" -> {"ssh_key_id", "become_key_id", "vault_key_id"}
          [] k = "repository" -> {"repository_id"}
          [] k = "inventory" -> {"inventory_id"}
          [] k = "environment" -> {"environment_id"}
          [] k = "template" -> {"template_id", "build_template_id"}
          [] OTHER -> {}]

Fields(k) == {RefFields[k][i] : i \in 1..Len(RefFields[k])}

TargetOf(f) == CHOOSE k \in Kinds : f \in FieldsTo[k]

IsRow(o, v) ==
    /\ v.val \in Value
    /\ DOMAIN v.refs = Fields(KindOf[o])
    /\ \A f \in DOMAIN v.refs :
          v.refs[f] = NoObj \/ (v.refs[f] \in Obj /\ KindOf[v.refs[f]] = TargetOf(f))

ASSUME ProjectStoreAssumption ==
    /\ KindOf \in [Obj -> Kinds]
    /\ NoObj \notin Obj
    /\ NoReq \notin Req
    /\ MaxReq \in Nat /\ MaxRefs \in Nat
    /\ DOMAIN InitRow \subseteq Obj
    /\ \A o \in DOMAIN InitRow : IsRow(o, InitRow[o])

VARIABLES
    row,     \* the rows: a function on the ids that exist
    used,    \* the ids that NextSequence has given out
    named,   \* history: the rows whose id a body has named
    writer,  \* the request whose transaction, of several steps, is open
    pc,      \* where each request is
    obj,     \* the object it is about
    table,   \* how many tables deleteObject has looked at
    copy,    \* the row it has read and will write back, or NoObj
    doomed,  \* the rows it will delete with a template
    total,   \* requests made so far
    held     \* history: references to obj that have been there since the
             \* request was let through, as pairs of referrer and column

vars == <<row, used, named, writer, pc, obj, table, copy, doomed, total, held>>

Exists == DOMAIN row

TypeOK ==
    /\ used \subseteq Obj /\ Exists \subseteq Obj
    /\ named \subseteq Exists /\ Exists \subseteq used \cup named
    /\ \A o \in Exists : IsRow(o, row[o])
    /\ writer \in Req \cup {NoReq}
    /\ pc \in [Req -> {"idle", "loaded", "check", "delete", "inUse", "collect", "commit",
                       "writeBack"}]
    /\ obj \in [Req -> Obj \cup {NoObj}]
    /\ table \in [Req -> 0..4]
    /\ doomed \in [Req -> SUBSET Obj]
    /\ DOMAIN copy = Req
    /\ \A r \in Req : pc[r] = "writeBack" => IsRow(obj[r], copy[r])
    /\ total \in Nat

Init ==
    /\ row = InitRow
    /\ used = DOMAIN InitRow
    /\ named = {}
    /\ writer = NoReq
    /\ pc = [r \in Req |-> "idle"]
    /\ obj = [r \in Req |-> NoObj]
    /\ table = [r \in Req |-> 0]
    /\ copy = [r \in Req |-> NoObj]
    /\ doomed = [r \in Req |-> {}]
    /\ total = 0
    /\ held = [r \in Req |-> {}]

-----------------------------------------------------------------------------
(***************************************************************************)
(* The Bolt store.  A write needs that no other transaction is open.       *)
(***************************************************************************)

Refers(rows, q, f, o) == q \in DOMAIN rows /\ f \in DOMAIN rows[q].refs /\ rows[q].refs[f] = o

\* The column isObjectReferredBy looks at: the first that has the suffix.
CheckedField(q, o) ==
    LET F == {i \in 1..Len(RefFields[KindOf[q]]) : RefFields[KindOf[q]][i] \in FieldsTo[KindOf[o]]}
    IN  {RefFields[KindOf[q]][i] : i \in {i \in F : \A j \in F : i <= j}}

IsObjectReferredBy(q, o) == \E f \in CheckedField(q, o) : Refers(row, q, f, o)

IsObjectInUse(o, k) == \E q \in Exists : KindOf[q] = k /\ IsObjectReferredBy(q, o)

\* The rows after a write of request r, and what is left of held.
Put(r, rows) ==
    /\ row' = rows
    /\ held' = [q \in Req |->
          IF q = r THEN {} ELSE {p \in held[q] : Refers(rows, p[1], p[2], obj[q])}]

PutRow(r, o, v) == Put(r, [q \in Exists \cup {o} |-> IF q = o THEN v ELSE row[q]])

\* Faulty variant: the sequence does not go on.
CreateObjectUnnumbered(r, o, v) ==
    /\ writer = NoReq
    /\ PutRow(r, o, v)
    /\ \/ o \in Obj \ used /\ UNCHANGED <<used, named>>
       \/ named' = named \cup {o} /\ UNCHANGED used

\* A new row has the next id of the sequence, which does not know the ids that
\* bodies have named, or the id that its body names.  In both cases it replaces
\* a row that has the id already.
CreateObject(r, o, v) ==
    /\ writer = NoReq
    /\ PutRow(r, o, v)
    /\ \/ o \in Obj \ used /\ used' = used \cup {o} /\ UNCHANGED named
       \/ named' = named \cup {o} /\ UNCHANGED used

\* Faulty variant: the row is put without a look at what is there.
UpdateObjectUpsert(r, o, v) ==
    /\ writer = NoReq
    /\ PutRow(r, o, v)
    /\ UNCHANGED <<used, named>>

\* A row that is not there is not put (ErrNotFound).
UpdateObject(r, o, v) ==
    /\ writer = NoReq
    /\ Put(r, [q \in Exists |-> IF q = o THEN v ELSE row[q]])
    /\ UNCHANGED <<used, named>>

DeleteObjects(r, S) ==
    /\ Put(r, [o \in Exists \ S |-> row[o]])
    /\ named' = named \ S
    /\ UNCHANGED used

\* The tables deleteObject looks at, one transaction for each.
Tables == <<"template", "environment", "inventory", "repository">>

-----------------------------------------------------------------------------
(***************************************************************************)
(* Requests.                                                               *)
(***************************************************************************)

\* What a user can send: nothing checks that what a body refers to is there.
Bodies(k) ==
    LET All  == {p \in Fields(k) \X Obj : KindOf[p[2]] = TargetOf(p[1])}
        Sets == {S \in SUBSET All : /\ Cardinality(S) <= MaxRefs
                                    /\ \A p, q \in S : p[1] = q[1] => p = q}
        Refs(S) == [f \in Fields(k) |->
                      IF \E p \in S : p[1] = f THEN (CHOOSE p \in S : p[1] = f)[2] ELSE NoObj]
    IN  [val : Value, refs : {Refs(S) : S \in Sets}]

Arrive(r) == pc[r] = "idle" /\ total < MaxReq /\ total' = total + 1

Loaded(r, k) == pc[r] = "loaded" /\ KindOf[obj[r]] = k

\* The response is sent.
Done(r) ==
    /\ pc' = [pc EXCEPT ![r] = "idle"]
    /\ obj' = [obj EXCEPT ![r] = NoObj]
    /\ table' = [table EXCEPT ![r] = 0]
    /\ copy' = [copy EXCEPT ![r] = NoObj]
    /\ doomed' = [doomed EXCEPT ![r] = {}]

\* A middleware has found the object of the URL.
Load(r, o) ==
    /\ Arrive(r)
    /\ pc' = [pc EXCEPT ![r] = "loaded"]
    /\ obj' = [obj EXCEPT ![r] = o]
    /\ held' = [held EXCEPT ![r] =
          {p \in Exists \X UNION {Fields(k) : k \in Kinds} : Refers(row, p[1], p[2], o)}]
    /\ UNCHANGED <<row, used, named, writer, table, copy, doomed>>

Add(r, k) ==
    /\ Arrive(r)
    /\ \E o \in Obj, v \in Bodies(k) : KindOf[o] = k /\ CreateObject(r, o, v)
    /\ UNCHANGED <<writer, pc, obj, table, copy, doomed>>

UpdateRow(r, o) ==
    /\ \E v \in Bodies(KindOf[o]) : UpdateObject(r, o, v)
    /\ Done(r)
    /\ UNCHANGED <<writer, total>>

\* The ids in the body and in the URL are the same.
Update(r, k) == Loaded(r, k) /\ UpdateRow(r, obj[r])

\* A row is read to be written back with one column changed, one that val
\* does not stand for.
ReadRow(r, o) ==
    /\ pc' = [pc EXCEPT ![r] = "writeBack"]
    /\ obj' = [obj EXCEPT ![r] = o]
    /\ copy' = [copy EXCEPT ![r] = row[o]]
    /\ held' = [held EXCEPT ![r] = {}]
    /\ UNCHANGED <<row, used, named, writer, table, doomed>>

WriteBack(r) ==
    /\ pc[r] = "writeBack"
    /\ UpdateObject(r, obj[r], copy[r])
    /\ Done(r)
    /\ UNCHANGED <<writer, total>>

\* deleteObject without a transaction of its caller.
Remove(r, k) ==
    /\ Loaded(r, k)
    /\ pc' = [pc EXCEPT ![r] = "check"]
    /\ UNCHANGED <<row, used, named, writer, obj, table, copy, doomed, total, held>>

\* Faulty variant: the first table in which the object is not used will do.
CheckTableOnce(r) ==
    /\ pc[r] = "check"
    /\ IF IsObjectInUse(obj[r], Tables[table[r] + 1])
       THEN Done(r) /\ held' = [held EXCEPT ![r] = {}]
       ELSE /\ table' = [table EXCEPT ![r] = @ + 1]
            /\ pc' = [pc EXCEPT ![r] = "delete"]
            /\ UNCHANGED <<obj, copy, doomed, held>>
    /\ UNCHANGED <<row, used, named, writer, total>>

\* ErrInvalidOperation if the object is in use; otherwise the next table.
CheckTable(r) ==
    /\ pc[r] = "check"
    /\ IF IsObjectInUse(obj[r], Tables[table[r] + 1])
       THEN Done(r) /\ held' = [held EXCEPT ![r] = {}]
       ELSE /\ table' = [table EXCEPT ![r] = @ + 1]
            /\ pc' = [pc EXCEPT ![r] = IF table[r] + 1 = Len(Tables) THEN "delete" ELSE "check"]
            /\ UNCHANGED <<obj, copy, doomed, held>>
    /\ UNCHANGED <<row, used, named, writer, total>>

DeleteObject(r) ==
    /\ pc[r] = "delete"
    /\ writer = NoReq
    /\ DeleteObjects(r, {obj[r]})
    /\ Done(r)
    /\ UNCHANGED <<writer, total>>

-----------------------------------------------------------------------------
(***************************************************************************)
(* The handlers of each kind of object.                                    *)
(***************************************************************************)

KeyMiddleware(r) == \E o \in Exists : KindOf[o] = "key" /\ Load(r, o)
AddKey(r) == Add(r, "key")
RemoveKey(r) == Remove(r, "key")

\* The key is the one that the body names, whatever the URL says.  Without
\* override_secret it is read, and written back under the new name; otherwise
\* the body is written.
UpdateKey(r) ==
    /\ Loaded(r, "key")
    /\ \E o \in Obj :
          /\ KindOf[o] = "key"
          /\ UpdateRow(r, o) \/ (o \in Exists /\ ReadRow(r, o) /\ UNCHANGED total)

\* The key of a repository is loaded with it.
GetRepository(o) == KindOf[o] = "repository" /\ row[o].refs["ssh_key_id"] \in Exists

RepositoryMiddleware(r) == \E o \in Exists : GetRepository(o) /\ Load(r, o)
AddRepository(r) == Add(r, "repository")
UpdateRepository(r) == Update(r, "repository")
RemoveRepository(r) == Remove(r, "repository")

FillInventory(o) ==
    \A f \in {"ssh_key_id", "become_key_id"} : row[o].refs[f] \in Exists \cup {NoObj}

InventoryMiddleware(r) ==
    \E o \in Exists : KindOf[o] = "inventory" /\ FillInventory(o) /\ Load(r, o)
AddInventory(r) == Add(r, "inventory")
UpdateInventory(r) == Update(r, "inventory")
RemoveInventory(r) == Remove(r, "inventory")

EnvironmentMiddleware(r) == \E o \in Exists : KindOf[o] = "environment" /\ Load(r, o)
AddEnvironment(r) == Add(r, "environment")
UpdateEnvironment(r) == Update(r, "environment")
RemoveEnvironment(r) == Remove(r, "environment")

ViewMiddleware(r) == \E o \in Exists : KindOf[o] = "view" /\ Load(r, o)
AddView(r) == Add(r, "view")
UpdateView(r) == Update(r, "view")
RemoveView(r) == Remove(r, "view")

\* One round of the loop: the rounds share nothing, and a view that is not
\* there ends the request.
SetViewPositions(r) ==
    \E o \in Exists : KindOf[o] = "view" /\ Arrive(r) /\ ReadRow(r, o)

SchedulesMiddleware(r) == \E o \in Exists : KindOf[o] = "schedule" /\ Load(r, o)
AddSchedule(r) == Add(r, "schedule")
UpdateSchedule(r) == Update(r, "schedule")

\* deleteObject in a transaction; nothing refers to a schedule.
RemoveSchedule(r) ==
    /\ Loaded(r, "schedule")
    /\ writer = NoReq
    /\ DeleteObjects(r, {obj[r]})
    /\ Done(r)
    /\ UNCHANGED <<writer, total>>

\* A schedule that watches a repository fires and finds a new commit.
SetScheduleCommitHash(r) ==
    \E o \in Exists :
        /\ KindOf[o] = "schedule"
        /\ row[o].refs["repository_id"] \in Exists
        /\ GetRepository(row[o].refs["repository_id"])
        /\ Arrive(r)
        /\ ReadRow(r, o)

(***************************************************************************)
(* Templates.                                                              *)
(***************************************************************************)

FillTemplate(o) == row[o].refs["vault_key_id"] \in Exists \cup {NoObj}

TemplatesMiddleware(r) ==
    \E o \in Exists : KindOf[o] = "template" /\ FillTemplate(o) /\ Load(r, o)
AddTemplate(r) == Add(r, "template")
UpdateTemplate(r) == Update(r, "template")

\* TaskPool.AddTask, which has loaded the template.
CreateTask(r) ==
    /\ Loaded(r, "template")
    /\ \E o \in Obj, v \in Value :
          /\ KindOf[o] = "task"
          /\ CreateObject(r, o, [val |-> v, refs |-> [f \in {"template_id"} |-> obj[r]]])
    /\ Done(r)
    /\ UNCHANGED <<writer, total>>

\* Faulty variant: each deletion is a transaction of its own.
RemoveTemplateNoTx(r) ==
    /\ Loaded(r, "template")
    /\ pc' = [pc EXCEPT ![r] = "inUse"]
    /\ UNCHANGED <<row, used, named, writer, obj, table, copy, doomed, total, held>>

\* The writing transaction begins ...
RemoveTemplate(r) ==
    /\ Loaded(r, "template")
    /\ writer = NoReq
    /\ writer' = r
    /\ pc' = [pc EXCEPT ![r] = "inUse"]
    /\ UNCHANGED <<row, used, named, obj, table, copy, doomed, total, held>>

\* ... is rolled back if the template is the build template of another one ...
DeleteTemplateInUse(r) ==
    /\ pc[r] = "inUse"
    /\ IF IsObjectInUse(obj[r], "template")
       THEN Done(r) /\ writer' = NoReq /\ held' = [held EXCEPT ![r] = {}]
       ELSE /\ pc' = [pc EXCEPT ![r] = "collect"]
            /\ UNCHANGED <<writer, obj, table, copy, doomed, held>>
    /\ UNCHANGED <<row, used, named, total>>

\* ... and otherwise its tasks and schedules, which other transactions read,
DeleteTemplateCollect(r) ==
    /\ pc[r] = "collect"
    /\ doomed' = [doomed EXCEPT ![r] = {q \in Exists : Refers(row, q, "template_id", obj[r])}]
    /\ pc' = [pc EXCEPT ![r] = "commit"]
    /\ UNCHANGED <<row, used, named, writer, obj, table, copy, total, held>>

\* are deleted with it.
DeleteTemplateCommit(r) ==
    /\ pc[r] = "commit"
    /\ DeleteObjects(r, doomed[r] \cup {obj[r]})
    /\ writer' = NoReq
    /\ Done(r)
    /\ UNCHANGED total

-----------------------------------------------------------------------------
Next ==
    \E r \in Req :
        \/ KeyMiddleware(r) \/ AddKey(r) \/ UpdateKey(r) \/ RemoveKey(r)
        \/ RepositoryMiddleware(r) \/ AddRepository(r) \/ UpdateRepository(r)
        \/ RemoveRepository(r)
        \/ InventoryMiddleware(r) \/ AddInventory(r) \/ UpdateInventory(r) \/ RemoveInventory(r)
        \/ EnvironmentMiddleware(r) \/ AddEnvironment(r) \/ UpdateEnvironment(r)
        \/ RemoveEnvironment(r)
        \/ ViewMiddleware(r) \/ AddView(r) \/ UpdateView(r) \/ RemoveView(r)
        \/ SetViewPositions(r)
        \/ SchedulesMiddleware(r) \/ AddSchedule(r) \/ UpdateSchedule(r) \/ RemoveSchedule(r)
        \/ SetScheduleCommitHash(r)
        \/ TemplatesMiddleware(r) \/ AddTemplate(r) \/ UpdateTemplate(r) \/ CreateTask(r)
        \/ RemoveTemplate(r)
        \/ DeleteTemplateInUse(r) \/ DeleteTemplateCollect(r) \/ DeleteTemplateCommit(r)
        \/ CheckTable(r) \/ DeleteObject(r) \/ WriteBack(r)

Spec == Init /\ [][Next]_vars

-----------------------------------------------------------------------------
(***************************************************************************)
(* Properties.                                                             *)
(***************************************************************************)

\* The references deleteObject looks for.
Checked(q, f, o) ==
    /\ \E i \in 1..Len(Tables) : Tables[i] = KindOf[q]
    /\ f \in CheckedField(q, o)

\* A reference that was there when a removal was let through, and still is,
\* keeps its object, although every table is looked at in a transaction of
\* its own and others write in between (deleteObject).
ProtectedRefs ==
    \A r \in Req : pc[r] = "delete" =>
        \A p \in held[r] : ~ Checked(p[1], p[2], obj[r])

\* A row that is not there appears only when something is created, under the id
\* its body names or under an id that the sequence has never given out before
\* (createObject).  So what was deleted comes back neither by an update that was
\* under way nor by the writing back of a row read before (updateObject).
NoResurrection ==
    [][\A o \in DOMAIN row' \ Exists : o \in named' \/ o \in used' \ used]_vars

\* When a template is deleted nothing that refers to it stays: no task, no
\* schedule, although others add them in the meantime, and no template that
\* takes its builds (deleteTemplate).
CascadeComplete ==
    [][\A o \in Exists \ DOMAIN row' : KindOf[o] = "template" =>
          \A q \in DOMAIN row' : \A f \in FieldsTo["template"] : ~ Refers(row', q, f, o)]_vars

=============================================================================
