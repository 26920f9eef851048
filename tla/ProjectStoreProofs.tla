------------------------- MODULE ProjectStoreProofs -------------------------
(***************************************************************************)
(* Proofs about ProjectStore for every set of objects, every contents of   *)
(* the tables at the start and any number of concurrent requests.          *)
(***************************************************************************)
EXTENDS ProjectStore, TLAPS

\* What may be deleted by deleteObject, table by table.
Removable == {"key", "repository", "inventory", "environment", "view"}

(***************************************************************************)
(* The inductive invariant.                                                *)
(***************************************************************************)

\* A request at work has an object, and one that is not has no history.
HasObject ==
    \A r \in Req : IF pc[r] = "idle" THEN held[r] = {} ELSE obj[r] \in Obj

\* How far deleteObject has come, and with what kinds of objects.
TablesLooked ==
    \A r \in Req :
        /\ pc[r] \notin {"check", "delete"} => table[r] = 0
        /\ pc[r] = "check" => table[r] \in 0..3
        /\ pc[r] = "delete" => table[r] = 4
        /\ pc[r] \in {"check", "delete"} => KindOf[obj[r]] \in Removable

\* The history is about references that are still there.
HeldRefers ==
    \A r \in Req : \A p \in held[r] : Refers(row, p[1], p[2], obj[r])

\* No such reference is in a table that deleteObject has looked at.
HeldElsewhere ==
    \A r \in Req : \A p \in held[r] : \A i \in 1..table[r] :
        Tables[i] = KindOf[p[1]] => p[2] \notin CheckedField(p[1], obj[r])

\* The transaction of a template's deletion is open from its first step to
\* its last, so that what it has seen of the tables still holds.
TemplateTx ==
    \A r \in Req :
        /\ pc[r] \in {"inUse", "collect", "commit"} =>
              writer = r /\ KindOf[obj[r]] = "template"
        /\ pc[r] \in {"collect", "commit"} =>
              \A q \in Exists : ~ Refers(row, q, "build_template_id", obj[r])
        /\ pc[r] = "commit" =>
              doomed[r] = {q \in Exists : Refers(row, q, "template_id", obj[r])}

StoreInv ==
    /\ TypeOK
    /\ held \in [Req -> SUBSET (Obj \X UNION {Fields(k) : k \in Kinds})]
    /\ HasObject
    /\ TablesLooked
    /\ HeldRefers
    /\ HeldElsewhere
    /\ TemplateTx

-----------------------------------------------------------------------------
(***************************************************************************)
(* The columns of the tables.                                              *)
(***************************************************************************)

\* Only schedules and tasks have the column template_id, only templates have
\* build_template_id.
LEMMA TemplateFields ==
    /\ Fields("task") = {"template_id"}
    /\ \A k \in Kinds : "template_id" \in Fields(k) => k \in {"schedule", "task"}
    /\ \A k \in Kinds : "build_template_id" \in Fields(k) => k = "template"
<1>1. Fields("task") = {"template_id"}
  BY DEF Fields, RefFields, Kinds
<1>2. ASSUME NEW k \in Kinds, "template_id" \in Fields(k) PROVE k \in {"schedule", "task"}
  BY <1>2 DEF Fields, RefFields, Kinds
<1>3. ASSUME NEW k \in Kinds, "build_template_id" \in Fields(k) PROVE k = "template"
  BY <1>3 DEF Fields, RefFields, Kinds
<1> QED
  BY <1>1, <1>2, <1>3

\* The column template_id is one of templates.
LEMMA TargetOfTemplateId == TargetOf("template_id") = "template"
<1>1. \A k \in Kinds : "template_id" \in FieldsTo[k] <=> k = "template"
  BY DEF FieldsTo, Kinds
<1> QED
  BY <1>1 DEF TargetOf, Kinds

\* Of the columns of a template isObjectReferredBy looks, for a template, at
\* build_template_id.
LEMMA CheckedOfTemplate ==
    ASSUME NEW q \in Obj, NEW o \in Obj, KindOf[q] = "template", KindOf[o] = "template"
    PROVE  CheckedField(q, o) = {"build_template_id"}
<1> DEFINE F == {i \in 1..Len(RefFields["template"]) :
                    RefFields["template"][i] \in FieldsTo["template"]}
<1>1. RefFields["template"] = <<"inventory_id", "repository_id", "environment_id",
                                "vault_key_id", "build_template_id">>
  BY DEF RefFields, Kinds
<1>2. FieldsTo["template"] = {"template_id", "build_template_id"}
  BY DEF FieldsTo, Kinds
<1>3. F = {5}
  BY <1>1, <1>2
<1>4. {i \in F : \A j \in F : i <= j} = {5}
  BY <1>3
<1>5. CheckedField(q, o) = {RefFields["template"][i] : i \in {i \in F : \A j \in F : i <= j}}
  BY DEF CheckedField
<1> QED
  BY <1>1, <1>4, <1>5

\* A body is a row of its kind.
LEMMA BodyIsRow ==
    ASSUME NEW o \in Obj, NEW v \in Bodies(KindOf[o])
    PROVE  IsRow(o, v)
<1> DEFINE k    == KindOf[o]
           All  == {p \in Fields(k) \X Obj : KindOf[p[2]] = TargetOf(p[1])}
           Sets == {S \in SUBSET All : /\ Cardinality(S) <= MaxRefs
                                       /\ \A p, q \in S : p[1] = q[1] => p = q}
           Refs(S) == [f \in Fields(k) |->
                         IF \E p \in S : p[1] = f THEN (CHOOSE p \in S : p[1] = f)[2] ELSE NoObj]
<1>1. v \in [val : Value, refs : {Refs(S) : S \in Sets}]
  BY DEF Bodies
<1>2. PICK S \in Sets : v.refs = Refs(S)
  BY <1>1
<1>3. ASSUME NEW f \in Fields(k)
      PROVE  v.refs[f] = NoObj \/ (v.refs[f] \in Obj /\ KindOf[v.refs[f]] = TargetOf(f))
  <2>1. CASE \E p \in S : p[1] = f
    <3>1. PICK p \in S : p[1] = f /\ v.refs[f] = p[2]
      BY <1>2, <2>1
    <3>2. p \in All
      OBVIOUS
    <3> QED
      BY <3>1, <3>2
  <2>2. CASE ~ \E p \in S : p[1] = f
    BY <1>2, <2>2
  <2> QED
    BY <2>1, <2>2
<1>4. DOMAIN v.refs = Fields(k) /\ v.val \in Value
  BY <1>1, <1>2
<1> QED
  BY <1>3, <1>4 DEF IsRow

-----------------------------------------------------------------------------
(***************************************************************************)
(* The handlers are instances of a few operations.                         *)
(***************************************************************************)
LoadStep(r)   == \E o \in Exists : Load(r, o)
AddStep(r)    == \E k \in Kinds : Add(r, k)
UpdateStep(r) == pc[r] = "loaded" /\ \E o \in Obj : UpdateRow(r, o)
ReadStep(r)   ==
    \E o \in Exists :
        /\ ReadRow(r, o)
        /\ Arrive(r) \/ (Loaded(r, "key") /\ UNCHANGED total)
RemoveStep(r) == \E k \in Removable : Remove(r, k)
TemplateStep(r) ==
    RemoveTemplate(r) \/ DeleteTemplateInUse(r) \/ DeleteTemplateCollect(r)
    \/ DeleteTemplateCommit(r)

\* Every step is of one of these forms.
LEMMA StepForms ==
    ASSUME HasObject, Next
    PROVE  \E r \in Req :
              \/ LoadStep(r) \/ AddStep(r) \/ UpdateStep(r) \/ ReadStep(r) \/ RemoveStep(r)
              \/ WriteBack(r) \/ CheckTable(r) \/ DeleteObject(r)
              \/ RemoveSchedule(r) \/ CreateTask(r) \/ TemplateStep(r)
<1>1. PICK r \in Req : Next!(r)
  BY DEF Next
<1>2. CASE \/ KeyMiddleware(r) \/ RepositoryMiddleware(r) \/ InventoryMiddleware(r)
           \/ EnvironmentMiddleware(r) \/ ViewMiddleware(r) \/ SchedulesMiddleware(r)
           \/ TemplatesMiddleware(r)
  <2>1. LoadStep(r)
    BY <1>2 DEF LoadStep, KeyMiddleware, RepositoryMiddleware, InventoryMiddleware,
         EnvironmentMiddleware, ViewMiddleware, SchedulesMiddleware, TemplatesMiddleware
  <2> QED
    BY <2>1
<1>3. CASE \/ AddKey(r) \/ AddRepository(r) \/ AddInventory(r) \/ AddEnvironment(r)
           \/ AddView(r) \/ AddSchedule(r) \/ AddTemplate(r)
  <2>1. AddStep(r)
    BY <1>3 DEF AddStep, AddKey, AddRepository, AddInventory, AddEnvironment, AddView,
         AddSchedule, AddTemplate, Kinds
  <2> QED
    BY <2>1
<1>4. CASE \/ UpdateRepository(r) \/ UpdateInventory(r) \/ UpdateEnvironment(r)
           \/ UpdateView(r) \/ UpdateSchedule(r) \/ UpdateTemplate(r)
  <2>1. PICK k \in Kinds : Update(r, k)
    BY <1>4 DEF UpdateRepository, UpdateInventory, UpdateEnvironment, UpdateView,
         UpdateSchedule, UpdateTemplate, Kinds
  <2>2. pc[r] = "loaded" /\ obj[r] \in Obj
    BY <2>1 DEF Update, Loaded, HasObject
  <2>3. UpdateStep(r)
    BY <2>1, <2>2 DEF UpdateStep, Update
  <2> QED
    BY <2>3
<1>5. CASE SetViewPositions(r) \/ SetScheduleCommitHash(r)
  <2>1. ReadStep(r)
    BY <1>5 DEF ReadStep, SetViewPositions, SetScheduleCommitHash
  <2> QED
    BY <2>1
<1>7. CASE UpdateKey(r)
  <2>1. UpdateStep(r) \/ ReadStep(r)
    BY <1>7 DEF UpdateKey, Loaded, UpdateStep, ReadStep
  <2> QED
    BY <2>1
<1>6. CASE \/ RemoveKey(r) \/ RemoveRepository(r) \/ RemoveInventory(r)
           \/ RemoveEnvironment(r) \/ RemoveView(r)
  <2>1. RemoveStep(r)
    BY <1>6 DEF RemoveStep, RemoveKey, RemoveRepository, RemoveInventory,
         RemoveEnvironment, RemoveView, Removable
  <2> QED
    BY <2>1
<1> QED
  BY <1>1, <1>2, <1>3, <1>4, <1>5, <1>6, <1>7 DEF TemplateStep

-----------------------------------------------------------------------------
(***************************************************************************)
(* Each operation keeps the invariant.                                     *)
(***************************************************************************)

\* A write forgets the references that it removes.
LEMMA PutHeld ==
    ASSUME StoreInv, NEW r \in Req, NEW rows, Put(r, rows)
    PROVE  /\ held' \in [Req -> SUBSET (Obj \X UNION {Fields(k) : k \in Kinds})]
           /\ held'[r] = {}
           /\ \A q \in Req : held'[q] \subseteq held[q]
           /\ \A q \in Req : \A p \in held'[q] : Refers(row', p[1], p[2], obj[q])
  BY DEF StoreInv, Put

\* A history that has only lost references, of a request that looks at the same
\* object and has looked at no table since, stays out of the tables.
LEMMA StaysElsewhere ==
    ASSUME StoreInv,
           \A q \in Req : \/ held'[q] = {}
                          \/ /\ held'[q] \subseteq held[q]
                             /\ table'[q] = table[q] /\ obj'[q] = obj[q]
    PROVE  HeldElsewhere'
<1>1. ASSUME NEW q \in Req, NEW p \in held'[q], NEW i \in 1..table'[q],
             Tables[i] = KindOf[p[1]]
      PROVE  p[2] \notin CheckedField(p[1], obj'[q])
  <2>1. p \in held[q] /\ i \in 1..table[q] /\ obj'[q] = obj[q]
    BY <1>1
  <2> QED
    BY <1>1, <2>1 DEF StoreInv, HeldElsewhere
<1> QED
  BY <1>1 DEF HeldElsewhere, CheckedField

\* A write with no transaction open that ends its request.
LEMMA WriteEnds ==
    ASSUME StoreInv, NEW r \in Req, NEW rows, Put(r, rows), Done(r), writer = NoReq,
           writer' = writer, total' = total, used' \subseteq Obj, DOMAIN rows \subseteq Obj,
           named' \subseteq DOMAIN rows, DOMAIN rows \subseteq used' \cup named',
           \A o \in DOMAIN rows : IsRow(o, rows[o])
    PROVE  StoreInv'
<1>1. held' \in [Req -> SUBSET (Obj \X UNION {Fields(k) : k \in Kinds})]
  BY PutHeld
<1>2. /\ row' = rows
      /\ pc' = [pc EXCEPT ![r] = "idle"]
      /\ \A q \in Req \ {r} : /\ pc'[q] = pc[q] /\ obj'[q] = obj[q] /\ table'[q] = table[q]
                              /\ copy'[q] = copy[q] /\ doomed'[q] = doomed[q]
      /\ pc'[r] = "idle" /\ table'[r] = 0
  BY DEF StoreInv, TypeOK, Put, Done
<1>3. TypeOK'
  <2>1. \A q \in Req : pc'[q] = "writeBack" => IsRow(obj'[q], copy'[q])
    BY <1>2 DEF StoreInv, TypeOK
  <2>2. \A o \in Exists' : IsRow(o, row'[o])
    BY <1>2 DEF Exists
  <2> QED
    BY <1>2, <2>1, <2>2 DEF StoreInv, TypeOK, Done, Exists, IsRow
<1>4. HasObject'
  BY <1>2, PutHeld DEF StoreInv, HasObject
<1>5. TablesLooked'
  BY <1>2 DEF StoreInv, TablesLooked
<1>6. HeldRefers'
  BY <1>2, PutHeld DEF HeldRefers
<1>7. HeldElsewhere'
  BY <1>2, PutHeld, StaysElsewhere
<1>8. TemplateTx'
  BY <1>2, ProjectStoreAssumption DEF StoreInv, TemplateTx
<1> QED
  BY <1>1, <1>3, <1>4, <1>5, <1>6, <1>7, <1>8 DEF StoreInv

\* Rows stay rows when one is replaced or some are removed.
LEMMA UpdateRows ==
    ASSUME StoreInv, NEW o, NEW v, o \in Exists => IsRow(o, v)
    PROVE  LET rows == [q \in Exists |-> IF q = o THEN v ELSE row[q]]
           IN  DOMAIN rows = Exists /\ \A q \in DOMAIN rows : IsRow(q, rows[q])
  BY DEF StoreInv, TypeOK

\* A middleware begins the history of its request.
LEMMA LoadInv == ASSUME StoreInv, NEW r \in Req, LoadStep(r) PROVE StoreInv'
<1>1. PICK o \in Exists : Load(r, o)
  BY DEF LoadStep
<1> DEFINE Held == {p \in Exists \X UNION {Fields(k) : k \in Kinds} : Refers(row, p[1], p[2], o)}
<1>2. o \in Obj /\ Exists \subseteq Obj
  BY DEF StoreInv, TypeOK
<1>3. /\ pc[r] = "idle" /\ pc' = [pc EXCEPT ![r] = "loaded"]
      /\ obj' = [obj EXCEPT ![r] = o] /\ held' = [held EXCEPT ![r] = Held]
      /\ (total \in Nat => total' \in Nat)
      /\ UNCHANGED <<row, used, named, writer, table, copy, doomed>>
  BY <1>1 DEF Load, Arrive
<1>4. TypeOK'
  BY <1>2, <1>3 DEF StoreInv, TypeOK, Exists, IsRow
<1>5. held' \in [Req -> SUBSET (Obj \X UNION {Fields(k) : k \in Kinds})]
  BY <1>2, <1>3 DEF StoreInv
<1>6. \A q \in Req \ {r} : pc'[q] = pc[q] /\ obj'[q] = obj[q] /\ held'[q] = held[q]
  BY <1>3 DEF StoreInv, TypeOK
<1>7. pc'[r] = "loaded" /\ obj'[r] = o /\ held'[r] = Held /\ table'[r] = 0
  BY <1>3 DEF StoreInv, TypeOK, TablesLooked
<1>8. HasObject'
  BY <1>2, <1>6, <1>7 DEF StoreInv, HasObject
<1>9. TablesLooked'
  BY <1>3, <1>6, <1>7 DEF StoreInv, TablesLooked
<1>10. HeldRefers'
  BY <1>3, <1>6, <1>7 DEF StoreInv, HeldRefers, Refers
<1>11. HeldElsewhere'
  BY <1>3, <1>6, <1>7 DEF StoreInv, HeldElsewhere, CheckedField
<1>12. TemplateTx'
  BY <1>3, <1>6, <1>7 DEF StoreInv, TemplateTx, Exists, Refers
<1> QED
  BY <1>4, <1>5, <1>8, <1>9, <1>10, <1>11, <1>12 DEF StoreInv

\* A new row has an id of the sequence or one that a body has named.
LEMMA AddInv == ASSUME StoreInv, NEW r \in Req, AddStep(r) PROVE StoreInv'
<1>1. PICK k \in Kinds : Add(r, k)
  BY DEF AddStep
<1>2. PICK o \in Obj, v \in Bodies(k) : KindOf[o] = k /\ CreateObject(r, o, v)
  BY <1>1 DEF Add
<1> DEFINE rows == [q \in Exists \cup {o} |-> IF q = o THEN v ELSE row[q]]
<1>3. IsRow(o, v)
  BY <1>2, BodyIsRow DEF StoreInv
<1>4. /\ pc[r] = "idle" /\ (total \in Nat => total' \in Nat)
      /\ UNCHANGED <<writer, pc, obj, table, copy, doomed>>
      /\ Put(r, rows) /\ row' = rows /\ writer = NoReq
      /\ \/ used' = used \cup {o} /\ named' = named
         \/ used' = used /\ named' = named \cup {o}
  <2>1. /\ pc[r] = "idle" /\ (total \in Nat => total' \in Nat)
        /\ UNCHANGED <<writer, pc, obj, table, copy, doomed>>
    BY <1>1 DEF Add, Arrive
  <2>2. /\ Put(r, rows) /\ writer = NoReq
        /\ \/ used' = used \cup {o} /\ named' = named
           \/ used' = used /\ named' = named \cup {o}
    BY <1>2 DEF CreateObject, PutRow
  <2> QED
    BY <2>1, <2>2 DEF Put
<1>5. TypeOK'
  <2>1. \A q \in Exists' : IsRow(q, row'[q])
    BY <1>3, <1>4 DEF StoreInv, TypeOK, Exists
  <2>2. /\ used' \subseteq Obj /\ Exists' \subseteq Obj
        /\ named' \subseteq Exists' /\ Exists' \subseteq used' \cup named'
    BY <1>4 DEF StoreInv, TypeOK, Exists
  <2> QED
    BY <1>4, <2>1, <2>2 DEF StoreInv, TypeOK, IsRow
<1>6. held' \in [Req -> SUBSET (Obj \X UNION {Fields(l) : l \in Kinds})]
  BY <1>4, PutHeld
<1>7. HasObject'
  BY <1>4, PutHeld DEF StoreInv, HasObject
<1>8. TablesLooked'
  BY <1>4 DEF StoreInv, TablesLooked
<1>9. HeldRefers'
  BY <1>4, PutHeld DEF HeldRefers
<1>10. HeldElsewhere'
  <2>1. \A q \in Req : held'[q] \subseteq held[q]
    BY <1>4, PutHeld
  <2>2. obj' = obj /\ table' = table
    BY <1>4
  <2> QED
    BY <2>1, <2>2 DEF StoreInv, HeldElsewhere, CheckedField
<1>11. TemplateTx'
  BY <1>4, ProjectStoreAssumption DEF StoreInv, TemplateTx
<1> QED
  BY <1>5, <1>6, <1>7, <1>8, <1>9, <1>10, <1>11 DEF StoreInv

\* An update replaces an existing row.
LEMMA UpdateInv == ASSUME StoreInv, NEW r \in Req, UpdateStep(r) PROVE StoreInv'
<1>1. PICK o \in Obj : UpdateRow(r, o)
  BY DEF UpdateStep
<1>2. PICK v \in Bodies(KindOf[o]) : UpdateObject(r, o, v)
  BY <1>1 DEF UpdateRow
<1> DEFINE rows == [q \in Exists |-> IF q = o THEN v ELSE row[q]]
<1>3. IsRow(o, v)
  BY BodyIsRow
<1>4. DOMAIN rows = Exists /\ \A q \in DOMAIN rows : IsRow(q, rows[q])
  BY <1>3, UpdateRows
<1>5. Put(r, rows) /\ Done(r) /\ writer = NoReq /\ UNCHANGED <<writer, total, used, named>>
  BY <1>1, <1>2 DEF UpdateRow, UpdateObject
<1>6. /\ used' \subseteq Obj /\ DOMAIN rows \subseteq Obj
      /\ named' \subseteq DOMAIN rows /\ DOMAIN rows \subseteq used' \cup named'
  BY <1>5 DEF StoreInv, TypeOK
<1> QED
  BY <1>4, <1>5, <1>6, WriteEnds

\* So does the second transaction of a rename, a commit hash or a view position.
LEMMA WriteBackInv == ASSUME StoreInv, NEW r \in Req, WriteBack(r) PROVE StoreInv'
<1> DEFINE rows == [q \in Exists |-> IF q = obj[r] THEN copy[r] ELSE row[q]]
<1>1. IsRow(obj[r], copy[r])
  BY DEF StoreInv, TypeOK, WriteBack
<1>2. DOMAIN rows = Exists /\ \A q \in DOMAIN rows : IsRow(q, rows[q])
  BY <1>1, UpdateRows
<1>3. Put(r, rows) /\ Done(r) /\ writer = NoReq /\ UNCHANGED <<writer, total, used, named>>
  BY DEF WriteBack, UpdateObject
<1>4. /\ used' \subseteq Obj /\ DOMAIN rows \subseteq Obj
      /\ named' \subseteq DOMAIN rows /\ DOMAIN rows \subseteq used' \cup named'
  BY <1>3 DEF StoreInv, TypeOK
<1> QED
  BY <1>2, <1>3, <1>4, WriteEnds

\* The deletion of one row.
LEMMA DeleteInv ==
    ASSUME StoreInv, NEW r \in Req, DeleteObject(r) \/ RemoveSchedule(r)
    PROVE  StoreInv'
<1> DEFINE rows == [q \in Exists \ {obj[r]} |-> row[q]]
<1>1. /\ Put(r, rows) /\ Done(r) /\ writer = NoReq /\ UNCHANGED <<writer, total, used>>
      /\ named' = named \ {obj[r]}
  BY DEF DeleteObject, RemoveSchedule, DeleteObjects
<1>2. /\ \A q \in DOMAIN rows : IsRow(q, rows[q])
      /\ used' \subseteq Obj /\ DOMAIN rows \subseteq Obj
      /\ named' \subseteq DOMAIN rows /\ DOMAIN rows \subseteq used' \cup named'
  BY <1>1 DEF StoreInv, TypeOK
<1> QED
  BY <1>1, <1>2, WriteEnds

\* A task may be added for a template that is gone, not inside a transaction.
LEMMA CreateTaskInv == ASSUME StoreInv, NEW r \in Req, CreateTask(r) PROVE StoreInv'
<1>1. PICK o \in Obj, v \in Value :
         KindOf[o] = "task" /\ CreateObject(r, o, [val |-> v, refs |-> [f \in {"template_id"} |-> obj[r]]])
  BY DEF CreateTask
<1> DEFINE new  == [val |-> v, refs |-> [f \in {"template_id"} |-> obj[r]]]
           rows == [q \in Exists \cup {o} |-> IF q = o THEN new ELSE row[q]]
<1>2. obj[r] \in Obj /\ KindOf[obj[r]] = "template"
  BY DEF CreateTask, Loaded, StoreInv, HasObject
<1>3. IsRow(o, new)
  BY <1>1, <1>2, TemplateFields, TargetOfTemplateId DEF IsRow
<1>4. /\ Put(r, rows) /\ Done(r) /\ writer = NoReq /\ UNCHANGED <<writer, total>>
      /\ \/ used' = used \cup {o} /\ named' = named
         \/ used' = used /\ named' = named \cup {o}
  BY <1>1 DEF CreateTask, CreateObject, PutRow
<1>5. /\ \A q \in DOMAIN rows : IsRow(q, rows[q])
      /\ used' \subseteq Obj /\ DOMAIN rows \subseteq Obj
      /\ named' \subseteq DOMAIN rows /\ DOMAIN rows \subseteq used' \cup named'
  <2> HIDE DEF new
  <2> QED
    BY <1>3, <1>4 DEF StoreInv, TypeOK
<1> QED
  BY <1>4, <1>5, WriteEnds

\* The first transaction of a rename, a commit hash or a view position.
LEMMA ReadInv == ASSUME StoreInv, NEW r \in Req, ReadStep(r) PROVE StoreInv'
<1>1. PICK o \in Exists :
         /\ ReadRow(r, o)
         /\ Arrive(r) \/ (Loaded(r, "key") /\ UNCHANGED total)
  BY DEF ReadStep
<1>2. o \in Obj /\ IsRow(o, row[o])
  BY DEF StoreInv, TypeOK
<1>3. /\ pc[r] \in {"idle", "loaded"}
      /\ pc' = [pc EXCEPT ![r] = "writeBack"] /\ obj' = [obj EXCEPT ![r] = o]
      /\ copy' = [copy EXCEPT ![r] = row[o]]
      /\ (total \in Nat => total' \in Nat)
      /\ row' = row /\ used' = used /\ named' = named /\ writer' = writer /\ table' = table
      /\ doomed' = doomed /\ held' = [held EXCEPT ![r] = {}]
  BY <1>1 DEF ReadRow, Arrive, Loaded
<1>4. /\ \A q \in Req \ {r} : pc'[q] = pc[q] /\ obj'[q] = obj[q]
      /\ pc'[r] = "writeBack" /\ obj'[r] = o /\ table'[r] = 0
  BY <1>3 DEF StoreInv, TypeOK, TablesLooked
<1>5. held'[r] = {} /\ \A q \in Req \ {r} : held'[q] = held[q]
  BY <1>3 DEF StoreInv
<1>6. TypeOK'
  <2>1. copy'[r] = row[o] /\ \A q \in Req \ {r} : copy'[q] = copy[q]
    BY <1>3 DEF StoreInv, TypeOK
  <2>2. \A q \in Req : pc'[q] = "writeBack" => IsRow(obj'[q], copy'[q])
    BY <1>2, <1>4, <2>1 DEF StoreInv, TypeOK
  <2> QED
    BY <1>2, <1>3, <2>2 DEF StoreInv, TypeOK, Exists, IsRow
<1>7. held' \in [Req -> SUBSET (Obj \X UNION {Fields(l) : l \in Kinds})]
  BY <1>3 DEF StoreInv
<1>8. HasObject'
  BY <1>2, <1>4, <1>5 DEF StoreInv, HasObject
<1>9. TablesLooked'
  BY <1>3, <1>4 DEF StoreInv, TablesLooked
<1>10. HeldRefers'
  BY <1>3, <1>4, <1>5 DEF StoreInv, HeldRefers, Refers
<1>11. HeldElsewhere'
  BY <1>3, <1>4, <1>5, StaysElsewhere
<1>12. TemplateTx'
  BY <1>3, <1>4 DEF StoreInv, TemplateTx, Exists, Refers
<1> QED
  BY <1>6, <1>7, <1>8, <1>9, <1>10, <1>11, <1>12 DEF StoreInv

\* A step after which the request is done, or at another point of the same
\* work, and no row has changed.
LEMMA SameRows ==
    ASSUME StoreInv, NEW r \in Req, NEW at \in {"check", "delete", "inUse", "collect", "commit"},
           \/ Done(r) /\ held' = [held EXCEPT ![r] = {}]
           \/ /\ pc' = [pc EXCEPT ![r] = at] /\ obj[r] \in Obj
              /\ obj' = obj /\ copy' = copy /\ held' = held,
           doomed' \in [Req -> SUBSET Obj],
           table' \in [Req -> 0..4], \A q \in Req \ {r} : table'[q] = table[q],
           row' = row, used' = used, named' = named, total' = total, writer' \in Req \cup {NoReq}
    PROVE  /\ TypeOK' /\ HasObject' /\ HeldRefers'
           /\ held' \in [Req -> SUBSET (Obj \X UNION {Fields(k) : k \in Kinds})]
           /\ \A q \in Req \ {r} : /\ pc'[q] = pc[q] /\ obj'[q] = obj[q]
                                   /\ held'[q] = held[q]
<1>1. /\ \A q \in Req \ {r} : /\ pc'[q] = pc[q] /\ obj'[q] = obj[q] /\ copy'[q] = copy[q]
                              /\ held'[q] = held[q]
      /\ \/ pc'[r] = "idle" /\ held'[r] = {}
         \/ pc'[r] = at /\ obj'[r] = obj[r] /\ obj[r] \in Obj /\ held'[r] = held[r]
  <2>1. CASE Done(r) /\ held' = [held EXCEPT ![r] = {}]
    BY <2>1 DEF StoreInv, TypeOK, Done
  <2>2. CASE /\ pc' = [pc EXCEPT ![r] = at] /\ obj[r] \in Obj
             /\ obj' = obj /\ copy' = copy /\ held' = held
    BY <2>2 DEF StoreInv, TypeOK
  <2> QED
    BY <2>1, <2>2
<1>2. held' \in [Req -> SUBSET (Obj \X UNION {Fields(k) : k \in Kinds})]
  BY DEF StoreInv
<1>3. TypeOK'
  <2>1. \A q \in Req : pc'[q] = "writeBack" => IsRow(obj'[q], copy'[q])
    BY <1>1 DEF StoreInv, TypeOK
  <2>2. pc' \in [Req -> {"idle", "loaded", "check", "delete", "inUse", "collect", "commit",
                         "writeBack"}]
    BY DEF StoreInv, TypeOK, Done
  <2>3. obj' \in [Req -> Obj \cup {NoObj}]
    BY DEF StoreInv, TypeOK, Done
  <2>4. \A q \in Exists' : IsRow(q, row'[q])
    BY DEF StoreInv, TypeOK, Exists
  <2>5. DOMAIN copy' = Req
    BY DEF StoreInv, TypeOK, Done
  <2> QED
    BY <2>1, <2>2, <2>3, <2>4, <2>5 DEF StoreInv, TypeOK, Exists
<1>4. HasObject'
  BY <1>1 DEF StoreInv, HasObject
<1>5. HeldRefers'
  BY <1>1 DEF StoreInv, HeldRefers, Refers
<1> QED
  BY <1>1, <1>2, <1>3, <1>4, <1>5

\* deleteObject begins with no table looked at.
LEMMA RemoveInv == ASSUME StoreInv, NEW r \in Req, RemoveStep(r) PROVE StoreInv'
<1>1. PICK k \in Removable : Remove(r, k)
  BY DEF RemoveStep
<1>2. /\ pc[r] = "loaded" /\ KindOf[obj[r]] \in Removable
      /\ pc' = [pc EXCEPT ![r] = "check"]
      /\ row' = row /\ used' = used /\ named' = named /\ writer' = writer /\ obj' = obj /\ table' = table
      /\ copy' = copy /\ doomed' = doomed /\ total' = total /\ held' = held
  BY <1>1 DEF Remove, Loaded
<1>3. obj[r] \in Obj /\ table[r] = 0 /\ table' \in [Req -> 0..4]
      /\ doomed' \in [Req -> SUBSET Obj] /\ writer' \in Req \cup {NoReq}
  BY <1>2 DEF StoreInv, HasObject, TablesLooked, TypeOK
<1>4. /\ TypeOK' /\ HasObject' /\ HeldRefers'
      /\ held' \in [Req -> SUBSET (Obj \X UNION {Fields(l) : l \in Kinds})]
  BY <1>2, <1>3, SameRows
<1>5. \A q \in Req \ {r} : pc'[q] = pc[q]
  BY <1>2 DEF StoreInv, TypeOK
<1>6. pc'[r] = "check"
  BY <1>2 DEF StoreInv, TypeOK
<1>7. TablesLooked'
  BY <1>2, <1>3, <1>5, <1>6 DEF StoreInv, TablesLooked
<1>8. HeldElsewhere'
  BY <1>2 DEF StoreInv, HeldElsewhere, CheckedField
<1>9. TemplateTx'
  BY <1>2, <1>5, <1>6 DEF StoreInv, TemplateTx, Exists, Refers
<1> QED
  BY <1>4, <1>7, <1>8, <1>9 DEF StoreInv

\* Where the next table uses the object nothing is deleted; where it does not
\* the references that have been there are none of that table's.
LEMMA CheckTableInv == ASSUME StoreInv, NEW r \in Req, CheckTable(r) PROVE StoreInv'
<1> DEFINE n    == table[r] + 1
           next == IF n = Len(Tables) THEN "delete" ELSE "check"
<1>1. /\ pc[r] = "check" /\ row' = row /\ used' = used /\ named' = named /\ writer' = writer /\ total' = total
      /\ table[r] \in 0..3 /\ KindOf[obj[r]] \in Removable /\ obj[r] \in Obj
      /\ writer' \in Req \cup {NoReq}
  BY DEF CheckTable, StoreInv, TypeOK, HasObject, TablesLooked
<1>2. CASE IsObjectInUse(obj[r], Tables[n])
  <2>1. Done(r) /\ held' = [held EXCEPT ![r] = {}]
    BY <1>2 DEF CheckTable
  <2>2. /\ table' \in [Req -> 0..4] /\ \A q \in Req \ {r} : table'[q] = table[q]
        /\ doomed' \in [Req -> SUBSET Obj] /\ \A q \in Req \ {r} : doomed'[q] = doomed[q]
        /\ pc'[r] = "idle" /\ table'[r] = 0 /\ held'[r] = {}
    BY <2>1 DEF Done, StoreInv, TypeOK
  <2>3. /\ TypeOK' /\ HasObject' /\ HeldRefers'
        /\ held' \in [Req -> SUBSET (Obj \X UNION {Fields(l) : l \in Kinds})]
        /\ \A q \in Req \ {r} : pc'[q] = pc[q] /\ obj'[q] = obj[q] /\ held'[q] = held[q]
    BY <1>1, <2>1, <2>2, SameRows
  <2>4. TablesLooked'
    BY <2>2, <2>3 DEF StoreInv, TablesLooked
  <2>5. HeldElsewhere'
    BY <2>2, <2>3, StaysElsewhere
  <2>6. TemplateTx'
    BY <1>1, <2>2, <2>3 DEF StoreInv, TemplateTx, Exists, Refers
  <2> QED
    BY <2>3, <2>4, <2>5, <2>6 DEF StoreInv
<1>3. CASE ~ IsObjectInUse(obj[r], Tables[n])
  <2>1. /\ table' = [table EXCEPT ![r] = n] /\ pc' = [pc EXCEPT ![r] = next]
        /\ obj' = obj /\ copy' = copy /\ doomed' = doomed /\ held' = held
    BY <1>3 DEF CheckTable
  <2>2. Len(Tables) = 4
    BY DEF Tables
  <2>3. /\ table' \in [Req -> 0..4] /\ \A q \in Req \ {r} : table'[q] = table[q]
        /\ doomed' \in [Req -> SUBSET Obj]
        /\ table'[r] = n /\ pc'[r] = next
    BY <1>1, <2>1 DEF StoreInv, TypeOK
  <2>4. next \in {"check", "delete"}
    OBVIOUS
  <2>5. /\ TypeOK' /\ HasObject' /\ HeldRefers'
        /\ held' \in [Req -> SUBSET (Obj \X UNION {Fields(l) : l \in Kinds})]
        /\ \A q \in Req \ {r} : pc'[q] = pc[q] /\ obj'[q] = obj[q] /\ held'[q] = held[q]
    <3> HIDE DEF next, n
    <3> QED
      BY <1>1, <2>1, <2>3, <2>4, SameRows
  <2>6. TablesLooked'
    <3>1. /\ next = "check" => n \in 0..3
          /\ next = "delete" => n = 4
      BY <1>1, <2>2
    <3> HIDE DEF next, n
    <3> QED
      BY <1>1, <2>1, <2>3, <2>4, <2>5, <3>1 DEF StoreInv, TablesLooked
  <2>7. HeldElsewhere'
    <3> SUFFICES ASSUME NEW q \in Req, NEW p \in held[q], NEW i \in 1..table'[q],
                        Tables[i] = KindOf[p[1]]
                 PROVE  p[2] \notin CheckedField(p[1], obj[q])
      BY <2>1 DEF HeldElsewhere, CheckedField
    <3>1. CASE q # r \/ i # n
      <4>1. i \in 1..table[q]
        BY <1>1, <2>3, <3>1 DEF StoreInv, TypeOK
      <4> QED
        BY <4>1 DEF StoreInv, HeldElsewhere
    <3>2. CASE q = r /\ i = n
      <4>1. Refers(row, p[1], p[2], obj[r])
        BY <3>2 DEF StoreInv, HeldRefers
      <4>2. p[1] \in Exists /\ KindOf[p[1]] = Tables[n]
        BY <3>2, <4>1 DEF Refers, Exists
      <4>3. ~ IsObjectReferredBy(p[1], obj[r])
        BY <1>3, <4>2 DEF IsObjectInUse
      <4> QED
        BY <3>2, <4>1, <4>3 DEF IsObjectReferredBy
    <3> QED
      BY <3>1, <3>2
  <2>8. TemplateTx'
    <3> HIDE DEF next, n
    <3> QED
      BY <1>1, <2>1, <2>3, <2>4, <2>5 DEF StoreInv, TemplateTx, Exists, Refers
  <2> QED
    BY <2>5, <2>6, <2>7, <2>8 DEF StoreInv
<1> QED
  BY <1>2, <1>3

\* The steps of deleteTemplate: the transaction is open, and no other request
\* writes, from the first to the last.
LEMMA TemplateInv == ASSUME StoreInv, NEW r \in Req, TemplateStep(r) PROVE StoreInv'
<1>1. CASE RemoveTemplate(r)
  <2>1. /\ pc[r] = "loaded" /\ KindOf[obj[r]] = "template" /\ writer = NoReq /\ writer' = r
        /\ pc' = [pc EXCEPT ![r] = "inUse"]
        /\ row' = row /\ used' = used /\ named' = named /\ obj' = obj /\ table' = table /\ copy' = copy
        /\ doomed' = doomed /\ total' = total /\ held' = held
    BY <1>1 DEF RemoveTemplate, Loaded
  <2>2. /\ obj[r] \in Obj /\ table[r] = 0 /\ table' \in [Req -> 0..4]
        /\ doomed' \in [Req -> SUBSET Obj] /\ writer' \in Req \cup {NoReq}
    BY <2>1 DEF StoreInv, HasObject, TablesLooked, TypeOK
  <2>3. /\ TypeOK' /\ HasObject' /\ HeldRefers'
        /\ held' \in [Req -> SUBSET (Obj \X UNION {Fields(l) : l \in Kinds})]
    BY <2>1, <2>2, SameRows
  <2>4. pc'[r] = "inUse" /\ \A q \in Req \ {r} : pc'[q] = pc[q]
    BY <2>1 DEF StoreInv, TypeOK
  <2>5. TablesLooked'
    BY <2>1, <2>2, <2>4 DEF StoreInv, TablesLooked
  <2>6. HeldElsewhere'
    BY <2>1 DEF StoreInv, HeldElsewhere, CheckedField
  <2>7. \A q \in Req \ {r} : pc[q] \notin {"inUse", "collect", "commit"}
    BY <2>1, ProjectStoreAssumption DEF StoreInv, TemplateTx
  <2>8. TemplateTx'
    BY <2>1, <2>4, <2>7 DEF TemplateTx
  <2> QED
    BY <2>3, <2>5, <2>6, <2>8 DEF StoreInv
<1>2. CASE DeleteTemplateInUse(r)
  <2>1. /\ pc[r] = "inUse" /\ row' = row /\ used' = used /\ named' = named /\ total' = total
        /\ obj[r] \in Obj /\ KindOf[obj[r]] = "template" /\ writer = r /\ table[r] = 0
    BY <1>2 DEF DeleteTemplateInUse, StoreInv, HasObject, TemplateTx, TablesLooked
  <2>2. \A q \in Req \ {r} : pc[q] \notin {"inUse", "collect", "commit"}
    BY <2>1 DEF StoreInv, TemplateTx
  <2>3. CASE IsObjectInUse(obj[r], "template")
    <3>1. Done(r) /\ writer' = NoReq /\ held' = [held EXCEPT ![r] = {}]
      BY <1>2, <2>3 DEF DeleteTemplateInUse
    <3>2. /\ table' \in [Req -> 0..4] /\ \A q \in Req \ {r} : table'[q] = table[q]
          /\ doomed' \in [Req -> SUBSET Obj] /\ writer' \in Req \cup {NoReq}
          /\ pc'[r] = "idle" /\ table'[r] = 0 /\ held'[r] = {}
      BY <3>1 DEF Done, StoreInv, TypeOK
    <3>3. /\ TypeOK' /\ HasObject' /\ HeldRefers'
          /\ held' \in [Req -> SUBSET (Obj \X UNION {Fields(l) : l \in Kinds})]
          /\ \A q \in Req \ {r} : pc'[q] = pc[q] /\ obj'[q] = obj[q] /\ held'[q] = held[q]
      BY <2>1, <3>1, <3>2, SameRows
    <3>4. TablesLooked'
      BY <3>2, <3>3 DEF StoreInv, TablesLooked
    <3>5. HeldElsewhere'
      BY <3>2, <3>3 DEF StoreInv, HeldElsewhere, CheckedField
    <3>6. TemplateTx'
      BY <2>2, <3>2, <3>3 DEF TemplateTx
    <3> QED
      BY <3>3, <3>4, <3>5, <3>6 DEF StoreInv
  <2>4. CASE ~ IsObjectInUse(obj[r], "template")
    <3>1. /\ pc' = [pc EXCEPT ![r] = "collect"]
          /\ writer' = writer /\ obj' = obj /\ table' = table /\ copy' = copy
          /\ doomed' = doomed /\ held' = held
      BY <1>2, <2>4 DEF DeleteTemplateInUse
    <3>2. /\ table' \in [Req -> 0..4] /\ doomed' \in [Req -> SUBSET Obj]
          /\ writer' \in Req \cup {NoReq}
          /\ pc'[r] = "collect" /\ \A q \in Req \ {r} : pc'[q] = pc[q]
      BY <3>1 DEF StoreInv, TypeOK
    <3>3. /\ TypeOK' /\ HasObject' /\ HeldRefers'
          /\ held' \in [Req -> SUBSET (Obj \X UNION {Fields(l) : l \in Kinds})]
      BY <2>1, <3>1, <3>2, SameRows
    <3>4. TablesLooked'
      BY <2>1, <3>1, <3>2 DEF StoreInv, TablesLooked
    <3>5. HeldElsewhere'
      BY <3>1 DEF StoreInv, HeldElsewhere, CheckedField
    <3>6. ASSUME NEW q \in Exists, Refers(row, q, "build_template_id", obj[r]) PROVE FALSE
      <4>1. q \in Obj /\ "build_template_id" \in Fields(KindOf[q]) /\ KindOf[q] \in Kinds
        BY <3>6, ProjectStoreAssumption DEF Refers, StoreInv, TypeOK, IsRow
      <4>2. KindOf[q] = "template"
        BY <4>1, TemplateFields
      <4>3. CheckedField(q, obj[r]) = {"build_template_id"}
        BY <2>1, <4>1, <4>2, CheckedOfTemplate
      <4> QED
        BY <2>4, <3>6, <4>2, <4>3 DEF IsObjectInUse, IsObjectReferredBy
    <3>7. TemplateTx'
      BY <2>1, <2>2, <3>1, <3>2, <3>6 DEF TemplateTx, Exists, Refers
    <3> QED
      BY <3>3, <3>4, <3>5, <3>7 DEF StoreInv
  <2> QED
    BY <2>3, <2>4
<1>3. CASE DeleteTemplateCollect(r)
  <2> DEFINE D == {q \in Exists : Refers(row, q, "template_id", obj[r])}
  <2>1. /\ pc[r] = "collect" /\ pc' = [pc EXCEPT ![r] = "commit"]
        /\ doomed' = [doomed EXCEPT ![r] = D]
        /\ row' = row /\ used' = used /\ named' = named /\ writer' = writer /\ obj' = obj /\ table' = table
        /\ copy' = copy /\ total' = total /\ held' = held
    BY <1>3 DEF DeleteTemplateCollect
  <2>2. /\ obj[r] \in Obj /\ table[r] = 0 /\ table' \in [Req -> 0..4] /\ D \subseteq Obj
        /\ writer' \in Req \cup {NoReq}
        /\ pc'[r] = "commit" /\ \A q \in Req \ {r} : pc'[q] = pc[q]
    BY <2>1 DEF StoreInv, HasObject, TablesLooked, TypeOK
  <2>3. doomed' \in [Req -> SUBSET Obj] /\ doomed'[r] = D
    <3> HIDE DEF D
    <3> QED
      BY <2>1, <2>2 DEF StoreInv, TypeOK
  <2>4. /\ TypeOK' /\ HasObject' /\ HeldRefers'
        /\ held' \in [Req -> SUBSET (Obj \X UNION {Fields(l) : l \in Kinds})]
    BY <2>1, <2>2, <2>3, SameRows
  <2>5. TablesLooked'
    BY <2>1, <2>2 DEF StoreInv, TablesLooked
  <2>6. HeldElsewhere'
    BY <2>1 DEF StoreInv, HeldElsewhere, CheckedField
  <2>7. \A q \in Req \ {r} : pc[q] \notin {"inUse", "collect", "commit"}
    BY <2>1 DEF StoreInv, TemplateTx
  <2>8. TemplateTx'
    BY <2>1, <2>2, <2>3, <2>7 DEF StoreInv, TemplateTx, Exists, Refers
  <2> QED
    BY <2>4, <2>5, <2>6, <2>8 DEF StoreInv
<1>4. CASE DeleteTemplateCommit(r)
  <2> DEFINE rows == [o \in Exists \ (doomed[r] \cup {obj[r]}) |-> row[o]]
  <2>1. /\ pc[r] = "commit" /\ Put(r, rows) /\ used' = used /\ writer' = NoReq /\ Done(r)
        /\ total' = total /\ row' = rows /\ named' = named \ (doomed[r] \cup {obj[r]})
    BY <1>4 DEF DeleteTemplateCommit, DeleteObjects, Put
  <2>2. /\ pc' = [pc EXCEPT ![r] = "idle"]
        /\ \A q \in Req \ {r} : /\ pc'[q] = pc[q] /\ obj'[q] = obj[q] /\ table'[q] = table[q]
                                /\ copy'[q] = copy[q]
        /\ pc'[r] = "idle" /\ table'[r] = 0
    BY <2>1 DEF StoreInv, TypeOK, Done
  <2>3. TypeOK'
    <3>1. \A q \in Req : pc'[q] = "writeBack" => IsRow(obj'[q], copy'[q])
      BY <2>2 DEF StoreInv, TypeOK
    <3>2. /\ \A o \in Exists' : IsRow(o, row'[o])
          /\ Exists' \subseteq Obj /\ used' \subseteq Obj
          /\ named' \subseteq Exists' /\ Exists' \subseteq used' \cup named'
      BY <2>1 DEF StoreInv, TypeOK, Exists
    <3>3. /\ pc' \in [Req -> {"idle", "loaded", "check", "delete", "inUse", "collect",
                             "commit", "writeBack"}]
          /\ obj' \in [Req -> Obj \cup {NoObj}] /\ table' \in [Req -> 0..4]
          /\ doomed' \in [Req -> SUBSET Obj] /\ DOMAIN copy' = Req
      BY <2>1 DEF StoreInv, TypeOK, Done
    <3> QED
      BY <2>1, <3>1, <3>2, <3>3 DEF StoreInv, TypeOK
  <2>4. /\ held' \in [Req -> SUBSET (Obj \X UNION {Fields(k) : k \in Kinds})]
        /\ held'[r] = {}
        /\ \A q \in Req : held'[q] \subseteq held[q]
        /\ \A q \in Req : \A p \in held'[q] : Refers(row', p[1], p[2], obj[q])
    BY <2>1, PutHeld
  <2>5. HasObject'
    BY <2>2, <2>4 DEF StoreInv, HasObject
  <2>6. TablesLooked'
    BY <2>2 DEF StoreInv, TablesLooked
  <2>7. HeldRefers'
    BY <2>2, <2>4 DEF HeldRefers
  <2>8. HeldElsewhere'
    BY <2>2, <2>4, StaysElsewhere
  <2>9. TemplateTx'
    <3>1. \A q \in Req \ {r} : pc[q] \notin {"inUse", "collect", "commit"}
      BY <2>1 DEF StoreInv, TemplateTx
    <3> QED
      BY <2>2, <3>1 DEF TemplateTx
  <2> QED
    BY <2>3, <2>4, <2>5, <2>6, <2>7, <2>8, <2>9 DEF StoreInv
<1> QED
  BY <1>1, <1>2, <1>3, <1>4 DEF TemplateStep

\* The tables at the start satisfy the invariant.
LEMMA StoreInit == ASSUME Init PROVE StoreInv
<1>1. TypeOK
  BY ProjectStoreAssumption DEF Init, TypeOK, Exists
<1>2. /\ held \in [Req -> SUBSET (Obj \X UNION {Fields(k) : k \in Kinds})]
      /\ HasObject /\ TablesLooked /\ HeldRefers /\ HeldElsewhere /\ TemplateTx
  BY DEF Init, HasObject, TablesLooked, HeldRefers, HeldElsewhere, TemplateTx
<1> QED
  BY <1>1, <1>2 DEF StoreInv

\* A step that changes nothing keeps the invariant.
LEMMA StoreStutter == ASSUME StoreInv, UNCHANGED vars PROVE StoreInv'
<1> USE DEF vars
<1>1. TypeOK'
  BY DEF StoreInv, TypeOK, Exists, IsRow
<1>2. held' = held /\ HasObject' /\ TablesLooked'
  BY DEF StoreInv, HasObject, TablesLooked
<1>3. HeldRefers' /\ TemplateTx'
  BY DEF StoreInv, HeldRefers, TemplateTx, Exists, Refers
<1>4. HeldElsewhere'
  BY DEF StoreInv, HeldElsewhere, CheckedField
<1> QED
  BY <1>1, <1>2, <1>3, <1>4 DEF StoreInv

\* Every step keeps it.
LEMMA StoreStep == ASSUME StoreInv, [Next]_vars PROVE StoreInv'
<1>1. CASE Next
  BY <1>1, StepForms, LoadInv, AddInv, UpdateInv, ReadInv, RemoveInv, WriteBackInv,
     CheckTableInv, DeleteInv, CreateTaskInv, TemplateInv DEF StoreInv
<1>2. CASE UNCHANGED vars
  BY <1>2, StoreStutter
<1> QED
  BY <1>1, <1>2

\* The invariant holds in every reachable state.
LEMMA StoreInvariant == Spec => []StoreInv
<1>1. Init => StoreInv
  BY StoreInit
<1>2. StoreInv /\ [Next]_vars => StoreInv'
  BY StoreStep
<1> QED
  BY <1>1, <1>2, PTL DEF Spec

-----------------------------------------------------------------------------
(***************************************************************************)
(* The theorems.                                                           *)
(***************************************************************************)

\* The rows are rows of their tables, and what a request has in its hands is
\* of the kind its handler expects, whatever other requests do.
THEOREM StoreTyped == Spec => []TypeOK
  BY StoreInvariant, PTL DEF StoreInv

\* deleteObject never deletes an object under a reference it looks for, if the
\* reference was there when the request was let through and has stayed: for
\* any number of requests that write between the transactions of its checks.
THEOREM StoreProtectsRefs == Spec => []ProtectedRefs
<1>1. StoreInv => ProtectedRefs
  <2> SUFFICES ASSUME StoreInv, NEW r \in Req, pc[r] = "delete", NEW p \in held[r],
                      Checked(p[1], p[2], obj[r])
               PROVE  FALSE
    BY DEF ProtectedRefs
  <2>1. PICK i \in 1..Len(Tables) : Tables[i] = KindOf[p[1]]
    BY DEF Checked
  <2>2. Len(Tables) = table[r]
    BY DEF StoreInv, TablesLooked, Tables
  <2>3. p[2] \notin CheckedField(p[1], obj[r])
    BY <2>1, <2>2 DEF StoreInv, HeldElsewhere
  <2> QED
    BY <2>3 DEF Checked
<1> QED
  BY <1>1, StoreInvariant, PTL

\* A row that a step adds has the next id of the sequence or the id that the
\* body of a create names (createObject); updateObject adds none.
LEMMA NewIds ==
    ASSUME StoreInv, Next
    PROVE  \A o \in DOMAIN row' \ Exists : o \in named' \/ o \in used' \ used
<1>1. PICK r \in Req :
         \/ LoadStep(r) \/ AddStep(r) \/ UpdateStep(r) \/ ReadStep(r) \/ RemoveStep(r)
         \/ WriteBack(r) \/ CheckTable(r) \/ DeleteObject(r)
         \/ RemoveSchedule(r) \/ CreateTask(r) \/ TemplateStep(r)
  BY StepForms DEF StoreInv
<1>2. CASE LoadStep(r) \/ ReadStep(r) \/ RemoveStep(r) \/ CheckTable(r)
  BY <1>2 DEF LoadStep, Load, ReadStep, ReadRow, RemoveStep, Remove, CheckTable, Exists
<1>3. CASE AddStep(r) \/ CreateTask(r)
  <2>1. PICK o \in Obj : \E v : CreateObject(r, o, v)
    BY <1>3 DEF AddStep, Add, CreateTask
  <2>2. DOMAIN row' = Exists \cup {o} /\ (o \in named' \/ o \in used' \ used)
    BY <2>1 DEF CreateObject, PutRow, Put
  <2> QED
    BY <2>2
<1>4. CASE UpdateStep(r) \/ WriteBack(r)
  <2>1. \E o, v : UpdateObject(r, o, v)
    BY <1>4 DEF UpdateStep, UpdateRow, WriteBack
  <2> QED
    BY <2>1 DEF UpdateObject, Put
<1>5. CASE DeleteObject(r) \/ RemoveSchedule(r)
  BY <1>5 DEF DeleteObject, RemoveSchedule, DeleteObjects, Put
<1>6. CASE TemplateStep(r)
  BY <1>6 DEF TemplateStep, RemoveTemplate, DeleteTemplateInUse, DeleteTemplateCollect,
       DeleteTemplateCommit, DeleteObjects, Put, Exists
<1> QED
  BY <1>1, <1>2, <1>3, <1>4, <1>5, <1>6

\* No interleaving brings a deleted row back by an update that was under way or
\* by the writing back of an old copy (updateObject), and the sequence gives no
\* id twice: a row that was not there has been created, under a new id of the
\* sequence or under the id that the body of the request names (createObject).
THEOREM StoreNeverResurrects == Spec => NoResurrection
<1> DEFINE New == \A o \in DOMAIN row' \ Exists : o \in named' \/ o \in used' \ used
<1>1. StoreInv /\ [Next]_vars => [New]_vars
  BY NewIds
<1> QED
  BY <1>1, StoreInvariant, PTL DEF Spec, NoResurrection

\* Only the last step of deleteTemplate deletes a template, and of the rows
\* that are deleted then the template is the only one.
LEMMA TemplateDeleted ==
    ASSUME StoreInv, Next, NEW o \in Exists \ DOMAIN row', KindOf[o] = "template"
    PROVE  \E r \in Req : DeleteTemplateCommit(r) /\ o = obj[r]
<1>1. PICK r \in Req :
         \/ LoadStep(r) \/ AddStep(r) \/ UpdateStep(r) \/ ReadStep(r) \/ RemoveStep(r)
         \/ WriteBack(r) \/ CheckTable(r) \/ DeleteObject(r)
         \/ RemoveSchedule(r) \/ CreateTask(r) \/ TemplateStep(r)
  BY StepForms DEF StoreInv
<1>2. ~ (LoadStep(r) \/ ReadStep(r) \/ RemoveStep(r) \/ CheckTable(r))
  BY DEF LoadStep, Load, ReadStep, ReadRow, RemoveStep, Remove, CheckTable, Exists
<1>3. ~ (AddStep(r) \/ CreateTask(r))
  <2> SUFFICES ASSUME AddStep(r) \/ CreateTask(r) PROVE FALSE
    OBVIOUS
  <2>1. PICK q \in Obj : \E v : CreateObject(r, q, v)
    BY DEF AddStep, Add, CreateTask
  <2> QED
    BY <2>1 DEF CreateObject, PutRow, Put
<1>4. ~ (UpdateStep(r) \/ WriteBack(r))
  <2> SUFFICES ASSUME UpdateStep(r) \/ WriteBack(r) PROVE FALSE
    OBVIOUS
  <2>1. \E q, v : UpdateObject(r, q, v)
    BY DEF UpdateStep, UpdateRow, WriteBack
  <2> QED
    BY <2>1 DEF UpdateObject, Put
<1>5. ~ DeleteObject(r)
  BY DEF DeleteObject, DeleteObjects, Put, StoreInv, TablesLooked, Removable
<1>6. ~ RemoveSchedule(r)
  BY DEF RemoveSchedule, Loaded, DeleteObjects, Put
<1>7. TemplateStep(r)
  BY <1>1, <1>2, <1>3, <1>4, <1>5, <1>6
<1>8. DeleteTemplateCommit(r)
  BY <1>7 DEF TemplateStep, RemoveTemplate, DeleteTemplateInUse, DeleteTemplateCollect, Exists
<1>9. o \notin doomed[r]
  <2> SUFFICES ASSUME o \in doomed[r] PROVE FALSE
    OBVIOUS
  <2>1. Refers(row, o, "template_id", obj[r])
    BY <1>8 DEF DeleteTemplateCommit, StoreInv, TemplateTx
  <2>2. o \in Obj /\ "template_id" \in Fields(KindOf[o]) /\ KindOf[o] \in Kinds
    BY <2>1, ProjectStoreAssumption DEF Refers, StoreInv, TypeOK, IsRow
  <2> QED
    BY <2>2, TemplateFields
<1>10. DOMAIN row' = Exists \ (doomed[r] \cup {obj[r]})
  BY <1>8 DEF DeleteTemplateCommit, DeleteObjects, Put
<1> QED
  BY <1>8, <1>9, <1>10

\* A template goes with everything that refers to it: the tasks and schedules
\* are deleted in the same transaction, none slips in between the look and
\* the deletion, and a template that others build from is not deleted
\* (deleteTemplate).
THEOREM StoreCascades == Spec => CascadeComplete
<1> DEFINE Cascade ==
      \A o \in Exists \ DOMAIN row' : KindOf[o] = "template" =>
          \A q \in DOMAIN row' : \A f \in FieldsTo["template"] : ~ Refers(row', q, f, o)
<1>1. ASSUME StoreInv, Next PROVE Cascade
  <2> SUFFICES ASSUME NEW o \in Exists \ DOMAIN row', KindOf[o] = "template",
                      NEW q \in DOMAIN row', NEW f \in FieldsTo["template"],
                      Refers(row', q, f, o)
               PROVE  FALSE
    OBVIOUS
  <2>1. PICK r \in Req : DeleteTemplateCommit(r) /\ o = obj[r]
    BY <1>1, TemplateDeleted
  <2>2. q \in Exists \ doomed[r] /\ row'[q] = row[q]
    BY <2>1 DEF DeleteTemplateCommit, DeleteObjects, Put
  <2>3. Refers(row, q, f, obj[r])
    BY <2>1, <2>2 DEF Refers, Exists
  <2>4. /\ ~ Refers(row, q, "template_id", obj[r])
        /\ ~ Refers(row, q, "build_template_id", obj[r])
    BY <1>1, <2>1, <2>2 DEF DeleteTemplateCommit, StoreInv, TemplateTx
  <2>5. f \in {"template_id", "build_template_id"}
    BY DEF FieldsTo, Kinds
  <2> QED
    BY <2>3, <2>4, <2>5
<1>2. StoreInv /\ [Next]_vars => [Cascade]_vars
  BY <1>1
<1> QED
  BY <1>2, StoreInvariant, PTL DEF Spec, CascadeComplete

=============================================================================
