--------------------------- MODULE LocalJobProofs ---------------------------
(***************************************************************************)
(* Proofs about LocalJob for any number of jobs, requests and commits, any *)
(* history of the branches and any files of requirements.                  *)
(***************************************************************************)
EXTENDS LocalJob, TLAPS

\* Before the playbook starts; once the commit is checked out.
Preparing == Working \ {"play", "destroy"}
CheckedOut == {"userKey", "becomeKey", "collections", "collectionsMd5", "roles", "rolesMd5",
               "vaultKey", "args"}

(***************************************************************************)
(* The inductive invariant.                                                *)
(***************************************************************************)

\* A job that is waiting or running knows its repository; while it prepares
\* the run the tips of the branches are all on record.
Knows(j) ==
    /\ pc[j] \in Working \cup {"waiting"} => job[j] \in [url : Url, commit : Commit \cup {None}]
    /\ pc[j] \in Preparing => \A u \in Url : <<u, tip[u]>> \in tips

\* HEAD is an ancestor of a tip seen since the run began.
Behind(u, c) == \E b \in Commit : <<u, b>> \in tips /\ c \in Ancestor[b]

\* What updateRepository and checkoutRepository have made of the copy, if
\* nobody has removed it since.
CopyReady(j) ==
    copy # None =>
        /\ pc[j] \in {"mergeBase", "pull", "cloneFiles", "checkout"} \cup CheckedOut =>
              copy.state # "broken"
        /\ pc[j] = "cloning" => copy.state = "broken"
        /\ pc[j] = "mergeBase" => <<copy.url, copy.origin>> \in tips
        /\ pc[j] = "pull" => Behind(copy.url, copy.head)
        /\ pc[j] = "cloneFiles" => <<copy.url, copy.head>> \in tips
        /\ pc[j] = "checkout" => Current(copy.url, copy.head)
        /\ pc[j] \in CheckedOut => IF job[j].commit # None THEN copy.head = job[j].commit
                                   ELSE Current(copy.url, copy.head)

\* Whose clone is not complete is still at it, or has failed or died.
CloneLeft ==
    copy # None /\ copy.state # "complete" =>
        pc[copy.by] \in {"cloning", "cloneFiles", "failed", "dead"}

KeyInPlace(role) == Good(inst[role]) \in Install(role, keyType[role])

\* The keys that have been installed so far.
KeysReady(j) ==
    /\ pc[j] \in (CheckedOut \ {"userKey"}) \cup {"play"} => KeyInPlace("user")
    /\ pc[j] \in (CheckedOut \ {"userKey", "becomeKey"}) \cup {"play"} => KeyInPlace("become")
    /\ pc[j] \in {"args", "play"} => KeyInPlace("vault")
    /\ pc[j] = "destroy" => \A role \in Role : inst[role] # "deaf"

\* The requirements that have been installed so far; those of kind k are unless
\* another template has replaced them, and unless a galaxy run was cut off.
InPlace(k)  == Required(k) # None /\ ~ others[k] => installed[k] = Required(k)
Assumed(k)  == ~ cut[k] => InPlace(k)

GalaxyReady(j) ==
    /\ pc[j] = "collectionsMd5" => InPlace("collections")
    /\ pc[j] \in {"roles", "rolesMd5", "vaultKey", "args"} => Assumed("collections")
    /\ pc[j] = "rolesMd5" => InPlace("roles")
    /\ pc[j] \in {"vaultKey", "args"} => Assumed("roles")

JobOK(j) == Knows(j) /\ CopyReady(j) /\ KeysReady(j) /\ GalaxyReady(j)

\* The task pool runs the tasks of a template one after the other.
OneAtWork == \A i, j \in Job : pc[i] \in Working /\ pc[j] \in Working => i = j

\* A request has read the row it will replace.
RowRead == \A r \in Update : upc[r] = "read" => upd[r] \in [old : Url, new : Url]

\* The stored hash is that of what is installed, unless a run was cut off or
\* another template has installed since.
HashTrue ==
    copy # None => \A k \in Kind :
        copy.md5[k] # None /\ ~ cut[k] /\ ~ others[k] => installed[k] = copy.md5[k]

LocalInv ==
    /\ TypeOK
    /\ \A j \in Job : JobOK(j)
    /\ OneAtWork
    /\ RowRead
    /\ HashTrue
    /\ CloneLeft
    /\ OldCopies

-----------------------------------------------------------------------------
(***************************************************************************)
(* Keys.                                                                   *)
(***************************************************************************)

\* An installation that succeeds gives the key its role asks for; an agent
\* that does not listen is never one of them.
LEMMA InstallOutcomes ==
    ASSUME NEW role \in Role, NEW type \in KeyType
    PROVE  /\ \A out \in Install(role, type) :
                 /\ out.is \in {"none", "file", "agent", "deaf"}
                 /\ out.ok => out = Good(out.is)
           /\ Good("deaf") \notin Install(role, type)
<1>1. ASSUME NEW out \in Install(role, type)
      PROVE  \/ out \in {Good("none"), Good("file"), Good("agent")}
             \/ out \in {Bad("none"), Bad("deaf")}
  BY DEF Install, StartSshAgent, Listen, Role, KeyType
<1>2. \A out \in {Good("none"), Good("file"), Good("agent")} :
         /\ out.is \in {"none", "file", "agent"} /\ out = Good(out.is)
  BY DEF Good
<1>3. \A out \in {Bad("none"), Bad("deaf")} : out.is \in {"none", "deaf"} /\ out.ok = FALSE
  BY DEF Bad
<1>4. Good("deaf").is = "deaf" /\ Good("deaf").ok = TRUE
  BY DEF Good
<1> QED
  BY <1>1, <1>2, <1>3, <1>4

-----------------------------------------------------------------------------
(***************************************************************************)
(* A step of the job at work.                                              *)
(***************************************************************************)
LEMMA GotoMoves ==
    ASSUME LocalInv, NEW j \in Job, pc[j] \in Working,
           NEW where \in Working \cup {"failed", "ended"}, Goto(j, where),
           where \in Preparing => pc[j] \in Preparing, tip' = tip
    PROVE  /\ pc' \in [Job -> Working \cup {"new", "waiting", "failed", "ended", "dead"}]
           /\ job' \in [Job -> [url : Url, commit : Commit \cup {None}] \cup {None}]
           /\ tips' \subseteq Url \X Commit
           /\ pc'[j] = where
           /\ where \in Working => job'[j] = job[j]
           /\ where \in Preparing => tips' = tips
           /\ \A i \in Job \ {j} : pc'[i] = pc[i] /\ pc[i] \notin Working /\ job'[i] = job[i]
           /\ OneAtWork'
           /\ \A i \in Job : Knows(i)'
<1>1. /\ pc' \in [Job -> Working \cup {"new", "waiting", "failed", "ended", "dead"}]
      /\ pc'[j] = where /\ \A i \in Job \ {j} : pc'[i] = pc[i]
  BY DEF LocalInv, TypeOK, Goto
<1>2. /\ job' \in [Job -> [url : Url, commit : Commit \cup {None}] \cup {None}]
      /\ where \in Working => job'[j] = job[j]
      /\ \A i \in Job \ {j} : job'[i] = job[i]
  BY DEF LocalInv, TypeOK, Goto
<1>3. tips' \subseteq Url \X Commit /\ (where \in Preparing => tips' = tips)
  BY DEF LocalInv, TypeOK, Goto, Preparing
<1>4. \A i \in Job \ {j} : pc[i] \notin Working
  BY DEF LocalInv, OneAtWork
<1>5. OneAtWork'
  BY <1>1, <1>4 DEF OneAtWork
<1>6. Preparing \subseteq Working /\ {"failed", "ended", "waiting"} \cap Working = {}
  BY DEF Preparing, Working
<1>7. ASSUME NEW i \in Job PROVE Knows(i)'
  <2>1. CASE i = j
    BY <1>1, <1>2, <1>3, <1>6, <2>1 DEF Knows, LocalInv, JobOK, Preparing
  <2>2. CASE i # j
    BY <1>1, <1>2, <1>4, <1>6, <2>2 DEF Knows, LocalInv, JobOK
  <2> QED
    BY <2>1, <2>2
<1> QED
  BY <1>1, <1>2, <1>3, <1>4, <1>5, <1>7

\* A step of the job at work keeps the invariant if it is well at its new point
\* and the stored hashes are still true: no other job is at work.
LEMMA WorkStep ==
    ASSUME LocalInv, NEW j \in Job, pc[j] \in Working,
           NEW where \in Working \cup {"failed", "ended"}, Goto(j, where),
           where \in Preparing => pc[j] \in Preparing,
           UNCHANGED <<outside, requests>>,
           copy' \in Copy \cup {None},
           installed' \in [Kind -> Version \cup {None, "mixed"}],
           inst' \in [Role -> {"none", "file", "agent", "deaf"}],
           cut' \in [Kind -> BOOLEAN], others' \in [Kind -> BOOLEAN],
           excuse' \in {"no", "oldJob", "otherUpdate", "notCleared", "crash"},
           where \in Working => CopyReady(j)' /\ KeysReady(j)' /\ GalaxyReady(j)',
           HashTrue', CloneLeft', OldCopies'
    PROVE  LocalInv'
<1>1. /\ tip' = tip /\ pushes' = pushes /\ installs' = installs /\ keyType' = keyType
      /\ repoUrl' = repoUrl /\ upc' = upc /\ upd' = upd
  BY DEF outside, requests
<1>2. /\ pc' \in [Job -> Working \cup {"new", "waiting", "failed", "ended", "dead"}]
      /\ job' \in [Job -> [url : Url, commit : Commit \cup {None}] \cup {None}]
      /\ tips' \subseteq Url \X Commit
      /\ pc'[j] = where
      /\ \A i \in Job \ {j} : pc'[i] = pc[i] /\ pc[i] \notin Working
      /\ OneAtWork'
      /\ \A i \in Job : Knows(i)'
  BY <1>1, GotoMoves
<1>3. TypeOK'
  BY <1>1, <1>2 DEF LocalInv, TypeOK
<1>4. ASSUME NEW i \in Job, pc'[i] \notin Working
      PROVE  CopyReady(i)' /\ KeysReady(i)' /\ GalaxyReady(i)'
  BY <1>4 DEF CopyReady, KeysReady, GalaxyReady, CheckedOut, Working
<1>5. \A i \in Job : JobOK(i)'
  BY <1>2, <1>4 DEF JobOK
<1>6. RowRead'
  BY <1>1 DEF LocalInv, RowRead
<1> QED
  BY <1>2, <1>3, <1>5, <1>6 DEF LocalInv

\* A copy left half cloned stays one of a job that is over: no other job is at
\* work.
LEMMA OldClone ==
    ASSUME LocalInv, NEW j \in Job, pc[j] \in Working \ {"cloning", "cloneFiles"},
           NEW where, Goto(j, where),
           copy' = None \/ (copy # None /\ copy'.by = copy.by /\ copy'.state = copy.state)
    PROVE  CloneLeft'
<1> SUFFICES ASSUME copy' # None, copy'.state # "complete"
             PROVE  pc'[copy'.by] \in {"cloning", "cloneFiles", "failed", "dead"}
  BY DEF CloneLeft
<1>1. copy # None /\ copy'.by = copy.by /\ copy.state # "complete"
  OBVIOUS
<1>2. pc[copy.by] \in {"cloning", "cloneFiles", "failed", "dead"}
  BY <1>1 DEF LocalInv, CloneLeft
<1>3. copy.by # j
  BY <1>2 DEF Working
<1>4. copy.by \in Job
  BY <1>1 DEF LocalInv, TypeOK, Copy
<1>5. pc'[copy.by] = pc[copy.by]
  BY <1>3, <1>4 DEF Goto, LocalInv, TypeOK
<1> QED
  BY <1>1, <1>2, <1>5

\* A copy that is removed, or keeps its URL and its hashes.
LEMMA SameCopy ==
    ASSUME LocalInv,
           \/ copy' = None
           \/ /\ copy # None /\ copy'.url = copy.url /\ copy'.md5 = copy.md5
              /\ excuse' = excuse /\ installed' = installed /\ cut' = cut
              /\ others' = others,
           repoUrl' = repoUrl, upc' = upc
    PROVE  HashTrue' /\ OldCopies'
  BY DEF LocalInv, HashTrue, OldCopies

\* A step after which nothing has been prepared, or the run has failed.
LEMMA EarlyStep ==
    ASSUME LocalInv, NEW j \in Job, pc[j] \in Preparing,
           NEW where \in {"fetch", "removeAll", "clone", "cloning", "failed"}, Goto(j, where),
           UNCHANGED <<outside, requests>>, UNCHANGED <<installed, inst>>,
           copy' \in Copy \cup {None}, cut' = cut, others' = others,
           excuse' \in {"no", "oldJob", "otherUpdate", "notCleared", "crash"},
           where = "cloning" /\ copy' # None => copy'.state = "broken",
           HashTrue', CloneLeft', OldCopies'
    PROVE  LocalInv'
<1>1. where \in Working \cup {"failed", "ended"} /\ pc[j] \in Working
  BY DEF Working, Preparing
<1>2. pc'[j] = where
  BY DEF LocalInv, TypeOK, Goto
<1>3. CopyReady(j)' /\ KeysReady(j)' /\ GalaxyReady(j)'
  BY <1>2 DEF CopyReady, KeysReady, GalaxyReady, CheckedOut
<1>4. /\ installed' \in [Kind -> Version \cup {None, "mixed"}] /\ cut' \in [Kind -> BOOLEAN]
      /\ others' \in [Kind -> BOOLEAN]
      /\ inst' \in [Role -> {"none", "file", "agent", "deaf"}]
  BY DEF LocalInv, TypeOK
<1> QED
  BY <1>1, <1>3, <1>4, WorkStep

\* A step to the next point where the copy is as CopyReady says.
LEMMA CopyStep ==
    ASSUME LocalInv, NEW j \in Job, pc[j] \in Preparing,
           NEW where \in {"mergeBase", "pull", "cloneFiles", "checkout", "userKey"}, Goto(j, where),
           UNCHANGED <<outside, requests>>, UNCHANGED <<history, installed, inst>>,
           copy # None, copy' \in Copy, copy'.url = copy.url, copy'.md5 = copy.md5,
           copy'.state # "broken",
           where = "mergeBase" => <<copy'.url, copy'.origin>> \in tips,
           where = "pull" => Behind(copy'.url, copy'.head),
           where = "cloneFiles" => <<copy'.url, copy'.head>> \in tips,
           where = "checkout" => Current(copy'.url, copy'.head),
           where = "userKey" => IF job[j].commit # None THEN copy'.head = job[j].commit
                                ELSE Current(copy'.url, copy'.head),
           CloneLeft'
    PROVE  LocalInv'
<1>1. where \in Working \cup {"failed", "ended"} /\ pc[j] \in Working /\ where \in Preparing
  BY DEF Working, Preparing
<1>2. pc'[j] = where /\ job'[j] = job[j] /\ tips' = tips
  BY <1>1 DEF LocalInv, TypeOK, Goto, Preparing
<1>3. CopyReady(j)'
  BY <1>2 DEF CopyReady, CheckedOut, Current, Behind
<1>4. KeysReady(j)' /\ GalaxyReady(j)'
  BY <1>2 DEF KeysReady, GalaxyReady, CheckedOut
<1>5. /\ installed' = installed /\ cut' = cut /\ others' = others /\ inst' = inst /\ excuse' = excuse
      /\ repoUrl' = repoUrl /\ upc' = upc
  BY DEF history, requests
<1>6. HashTrue' /\ OldCopies'
  BY <1>5, SameCopy
<1>7. /\ installed' \in [Kind -> Version \cup {None, "mixed"}] /\ cut' \in [Kind -> BOOLEAN]
      /\ others' \in [Kind -> BOOLEAN]
      /\ inst' \in [Role -> {"none", "file", "agent", "deaf"}]
      /\ excuse' \in {"no", "oldJob", "otherUpdate", "notCleared", "crash"}
  BY <1>5 DEF LocalInv, TypeOK
<1> QED
  BY <1>1, <1>3, <1>4, <1>6, <1>7, WorkStep

\* Validation, fetch, pull, clone and checkout of the working copy.
LEMMA UpdateRepositoryInv ==
    ASSUME LocalInv, NEW j \in Job, UpdateRepositoryOf(j) \/ Checkout(j)
    PROVE  LocalInv'
<1>1. /\ UNCHANGED <<outside, requests>> /\ UNCHANGED <<installed, inst>> /\ cut' = cut
      /\ others' = others /\ repoUrl' = repoUrl /\ upc' = upc
      /\ pc[j] \in Preparing /\ pc[j] \in Working
  BY DEF UpdateRepositoryOf, ValidateRepo, Fetch, MergeBase, Pull, RemoveAll, Clone,
       CloneRefs, CloneEnds, Checkout, Preparing, Working, history, requests
<1>2. /\ copy \in Copy \cup {None}
      /\ excuse \in {"no", "oldJob", "otherUpdate", "notCleared", "crash"}
      /\ tip \in [Url -> Commit]
      /\ job[j] \in [url : Url, commit : Commit \cup {None}]
      /\ \A u \in Url : <<u, tip[u]>> \in tips
  BY <1>1 DEF LocalInv, TypeOK, JobOK, Knows, Preparing
<1>3. ASSUME NEW where \in {"fetch", "removeAll", "clone", "failed"}, Goto(j, where),
             copy' = copy, excuse' = excuse,
             pc[j] \notin {"cloning", "cloneFiles"} \/ where = "failed"
      PROVE  LocalInv'
  <2>1. HashTrue' /\ OldCopies'
    BY <1>1, <1>3 DEF LocalInv, HashTrue, OldCopies
  <2>2. CloneLeft'
    <3>1. CASE pc[j] \notin {"cloning", "cloneFiles"}
      BY <1>1, <1>3, <3>1, OldClone
    <3>2. CASE where = "failed"
      BY <1>3, <3>2 DEF LocalInv, TypeOK, Copy, CloneLeft, Goto
    <3> QED
      BY <1>3, <3>1, <3>2
  <2> QED
    BY <1>1, <1>2, <1>3, <2>1, <2>2, EarlyStep
<1>4. ASSUME NEW where \in {"clone", "failed"}, Goto(j, where), copy' = None,
             excuse' \in {"no", excuse}
      PROVE  LocalInv'
  <2>1. HashTrue' /\ OldCopies'
    BY <1>1, <1>4, SameCopy
  <2>2. CloneLeft'
    BY <1>4 DEF CloneLeft
  <2> QED
    BY <1>1, <1>2, <1>4, <2>1, <2>2, EarlyStep
<1>5. CASE ValidateRepo(j)
  BY <1>3, <1>5 DEF ValidateRepo, history
<1>6. CASE Fetch(j)
  <2>1. CASE /\ copy # None /\ copy.state # "broken"
             /\ copy' = [copy EXCEPT !.origin = tip[copy.url]]
             /\ Goto(j, "mergeBase")
    <3>1. /\ copy' \in Copy /\ copy'.url = copy.url /\ copy'.md5 = copy.md5
          /\ copy'.state = copy.state /\ copy'.by = copy.by
          /\ copy'.origin = tip[copy.url] /\ copy.url \in Url
      BY <1>2, <2>1 DEF Copy
    <3>2. UNCHANGED <<history, installed, inst>> /\ pc[j] = "fetch"
      BY <1>6 DEF Fetch
    <3>3. CloneLeft'
      BY <1>1, <2>1, <3>1, <3>2, OldClone
    <3>4. <<copy'.url, copy'.origin>> \in tips
      BY <1>2, <3>1
    <3> QED
      BY <1>1, <2>1, <3>1, <3>2, <3>3, <3>4, CopyStep
  <2> QED
    BY <1>3, <1>6, <2>1 DEF Fetch, GitFails, history
<1>7. CASE MergeBase(j)
  <2>1. CASE copy # None /\ copy.head \in Ancestor[copy.origin] /\ Goto(j, "pull")
    <3>1. copy' = copy /\ UNCHANGED <<history, installed, inst>> /\ pc[j] = "mergeBase"
      BY <1>7 DEF MergeBase
    <3>2. copy.state # "broken" /\ copy \in Copy /\ <<copy.url, copy.origin>> \in tips
      BY <1>2, <2>1, <3>1 DEF LocalInv, JobOK, CopyReady
    <3>3. Behind(copy.url, copy.head)
      BY <2>1, <3>2 DEF Behind, Copy
    <3>4. CloneLeft'
      BY <1>1, <2>1, <3>1, OldClone
    <3>5. Behind(copy'.url, copy'.head)
      BY <3>1, <3>3
    <3> QED
      BY <1>1, <2>1, <3>1, <3>2, <3>4, <3>5, CopyStep
  <2> QED
    BY <1>3, <1>7, <2>1 DEF MergeBase, history
<1>8. CASE Pull(j)
  <2>1. CASE CanPull /\ copy' = Pulled /\ Goto(j, "checkout")
    <3>1. UNCHANGED <<history, installed, inst>> /\ pc[j] = "pull" /\ copy # None
      BY <1>8, <2>1 DEF Pull, CanPull
    <3>2. copy.state # "broken" /\ copy \in Copy /\ Behind(copy.url, copy.head)
      BY <1>2, <3>1 DEF LocalInv, JobOK, CopyReady
    <3>3. /\ copy' \in Copy /\ copy'.url = copy.url /\ copy'.md5 = copy.md5
          /\ copy'.state = copy.state /\ copy'.by = copy.by
          /\ copy'.head = IF tip[copy.url] \in Ancestor[copy.head] THEN copy.head
                          ELSE tip[copy.url]
      BY <1>2, <2>1, <3>2 DEF Pulled, Copy
    <3>4. CloneLeft'
      BY <1>1, <2>1, <3>1, <3>3, OldClone
    <3>5. Current(copy'.url, copy'.head)
      <4>1. <<copy.url, tip[copy.url]>> \in tips /\ tip[copy.url] \in Commit
        BY <1>2, <3>2 DEF Copy
      <4>2. CASE tip[copy.url] \in Ancestor[copy.head]
        <5>1. PICK b \in Commit : <<copy.url, b>> \in tips /\ copy.head \in Ancestor[b]
          BY <3>2 DEF Behind
        <5>2. {<<copy.url, tip[copy.url]>>, <<copy.url, b>>} \subseteq tips
          BY <4>1, <5>1
        <5> QED
          BY <3>3, <4>1, <4>2, <5>1, <5>2 DEF Current
      <4>3. CASE tip[copy.url] \notin Ancestor[copy.head]
        <5>1. tip[copy.url] \in Ancestor[tip[copy.url]]
          BY <4>1, LocalJobAssumption
        <5> QED
          BY <3>3, <4>1, <4>3, <5>1 DEF Current
      <4> QED
        BY <4>2, <4>3
    <3> QED
      BY <1>1, <2>1, <3>1, <3>2, <3>3, <3>4, <3>5, CopyStep
  <2> QED
    BY <1>3, <1>8, <2>1 DEF Pull, GitFails, history
<1>9. CASE RemoveAll(j)
  BY <1>3, <1>4, <1>9 DEF RemoveAll, Fail
<1>10. CASE Clone(j)
  <2> DEFINE new == [url |-> job[j].url, head |-> tip[job[j].url], origin |-> tip[job[j].url],
                     state |-> "broken", by |-> j, md5 |-> [k \in Kind |-> None]]
  <2>1. CASE /\ copy = None /\ copy' = new
             /\ excuse' = IF job[j].url # repoUrl THEN "oldJob" ELSE "no"
             /\ Goto(j, "cloning")
    <3>1. new \in Copy /\ new.url = job[j].url /\ \A k \in Kind : new.md5[k] = None
      BY <1>2 DEF Copy
    <3>2. new.by = j /\ new.state = "broken"
      OBVIOUS
    <3> HIDE DEF new
    <3>3. HashTrue'
      BY <2>1, <3>1 DEF HashTrue
    <3>4. OldCopies'
      BY <1>1, <2>1, <3>1 DEF OldCopies
    <3>5. CloneLeft'
      <4>1. pc'[j] = "cloning"
        BY <2>1 DEF Goto, LocalInv, TypeOK
      <4> QED
        BY <2>1, <3>2, <4>1 DEF CloneLeft
    <3> QED
      BY <1>1, <2>1, <3>1, <3>2, <3>3, <3>4, <3>5, EarlyStep
  <2> QED
    BY <1>3, <1>10, <2>1 DEF Clone, GitFails
<1>11. CASE CloneRefs(j)
  <2>1. CASE /\ copy # None
             /\ copy' = [copy EXCEPT !.state = "partial", !.head = tip[copy.url],
                                     !.origin = tip[copy.url]]
             /\ Goto(j, "cloneFiles")
    <3>1. /\ copy' \in Copy /\ copy'.url = copy.url /\ copy'.md5 = copy.md5
          /\ copy'.state = "partial" /\ copy'.by = copy.by
          /\ copy'.head = tip[copy.url] /\ copy.url \in Url /\ copy.by \in Job
      BY <1>2, <2>1 DEF Copy
    <3>2. UNCHANGED <<history, installed, inst>> /\ pc[j] = "cloning"
      BY <1>11 DEF CloneRefs
    <3>3. CloneLeft'
      <4>1. copy.state = "broken"
        BY <2>1, <3>2 DEF LocalInv, JobOK, CopyReady
      <4>2. pc[copy.by] \in {"cloning", "cloneFiles", "failed", "dead"}
        BY <2>1, <4>1 DEF LocalInv, CloneLeft
      <4>3. pc'[copy.by] = IF copy.by = j THEN "cloneFiles" ELSE pc[copy.by]
        BY <2>1, <3>1 DEF Goto, LocalInv, TypeOK
      <4> QED
        BY <3>1, <4>2, <4>3 DEF CloneLeft
    <3>4. <<copy'.url, copy'.head>> \in tips
      BY <1>2, <3>1
    <3> QED
      BY <1>1, <2>1, <3>1, <3>2, <3>3, <3>4, CopyStep
  <2> QED
    BY <1>4, <1>11, <2>1 DEF CloneRefs, Fail, history
<1>12. CASE CloneEnds(j)
  <2>1. CASE /\ copy # None /\ copy' = [copy EXCEPT !.state = "complete"]
             /\ Goto(j, "checkout")
    <3>1. UNCHANGED <<history, installed, inst>> /\ pc[j] = "cloneFiles"
      BY <1>12 DEF CloneEnds
    <3>2. copy \in Copy /\ <<copy.url, copy.head>> \in tips
      BY <1>2, <2>1, <3>1 DEF LocalInv, JobOK, CopyReady
    <3>3. /\ copy' \in Copy /\ copy'.url = copy.url /\ copy'.md5 = copy.md5
          /\ copy'.state = "complete" /\ copy'.head = copy.head /\ copy.head \in Commit
      BY <2>1, <3>2 DEF Copy
    <3>4. CloneLeft'
      BY <3>3 DEF CloneLeft
    <3>5. Current(copy'.url, copy'.head)
      BY <3>2, <3>3, LocalJobAssumption DEF Current
    <3> QED
      BY <1>1, <2>1, <3>1, <3>3, <3>4, <3>5, CopyStep
  <2> QED
    BY <1>3, <1>12, <2>1 DEF CloneEnds, GitFails, history
<1>13. CASE Checkout(j)
  <2>1. CASE /\ copy # None
             /\ copy' = IF job[j].commit = None THEN copy
                        ELSE [copy EXCEPT !.head = job[j].commit]
             /\ Goto(j, "userKey")
    <3>1. UNCHANGED <<history, installed, inst>> /\ pc[j] = "checkout"
      BY <1>13 DEF Checkout
    <3>2. copy.state # "broken" /\ copy \in Copy /\ Current(copy.url, copy.head)
      BY <1>2, <2>1, <3>1 DEF LocalInv, JobOK, CopyReady
    <3>3. /\ copy' \in Copy /\ copy'.url = copy.url /\ copy'.md5 = copy.md5
          /\ copy'.state = copy.state /\ copy'.by = copy.by
          /\ copy'.head = IF job[j].commit = None THEN copy.head ELSE job[j].commit
      BY <1>2, <2>1, <3>2 DEF Copy
    <3>4. CloneLeft'
      BY <1>1, <2>1, <3>1, <3>3, OldClone
    <3>5. IF job[j].commit # None THEN copy'.head = job[j].commit
          ELSE Current(copy'.url, copy'.head)
      BY <3>2, <3>3
    <3> QED
      BY <1>1, <2>1, <3>1, <3>2, <3>3, <3>4, <3>5, CopyStep
  <2> QED
    BY <1>3, <1>13, <2>1 DEF Checkout, GitFails, history
<1> QED
  BY <1>5, <1>6, <1>7, <1>8, <1>9, <1>10, <1>11, <1>12, <1>13 DEF UpdateRepositoryOf

\* A step between the checkout and the playbook that leaves the copy's files
\* alone; what else it does is KeysReady's and GalaxyReady's.
LEMMA CheckedOutStep ==
    ASSUME LocalInv, NEW j \in Job, pc[j] \in CheckedOut,
           NEW where \in CheckedOut \cup {"failed"}, Goto(j, where),
           UNCHANGED <<outside, requests>>, excuse' = excuse,
           copy' \in Copy \cup {None},
           copy' # None => /\ copy # None /\ copy'.url = copy.url /\ copy'.head = copy.head
                           /\ copy'.state = copy.state /\ copy'.by = copy.by,
           installed' \in [Kind -> Version \cup {None, "mixed"}],
           inst' \in [Role -> {"none", "file", "agent", "deaf"}],
           cut' \in [Kind -> BOOLEAN], others' \in [Kind -> BOOLEAN],
           where \in CheckedOut => KeysReady(j)' /\ GalaxyReady(j)',
           HashTrue'
    PROVE  LocalInv'
<1>1. /\ where \in Working \cup {"failed", "ended"} /\ pc[j] \in Preparing /\ pc[j] \in Working
      /\ (where # "failed" => where \in CheckedOut /\ where \in Preparing)
      /\ "failed" \notin Working
  BY DEF CheckedOut, Preparing, Working
<1>2. /\ pc'[j] = where
      /\ (where # "failed" => job'[j] = job[j] /\ tips' = tips)
  BY <1>1 DEF LocalInv, TypeOK, Goto, Preparing
<1>3. where # "failed" => CopyReady(j)'
  <2> SUFFICES ASSUME where # "failed" PROVE CopyReady(j)'
    OBVIOUS
  <2>1. CopyReady(j)
    BY DEF LocalInv, JobOK
  <2>2. where \notin {"mergeBase", "pull", "cloning", "cloneFiles", "checkout"}
    BY <1>1 DEF CheckedOut
  <2> QED
    BY <1>1, <1>2, <2>1, <2>2 DEF CopyReady, Current
<1>4. excuse' \in {"no", "oldJob", "otherUpdate", "notCleared", "crash"}
  BY DEF LocalInv, TypeOK
<1>5. OldCopies'
  BY DEF LocalInv, OldCopies, requests
<1>6. CloneLeft'
  <2>1. pc[j] \in Working \ {"cloning", "cloneFiles"}
    BY <1>1 DEF CheckedOut
  <2> QED
    BY <2>1, OldClone
<1> QED
  BY <1>1, <1>3, <1>4, <1>5, <1>6, WorkStep

\* The next key is installed.
LEMMA InstallKeyInv ==
    ASSUME LocalInv, NEW j \in Job,
           InstallUserKey(j) \/ InstallBecomeKey(j) \/ InstallVaultKeyFile(j)
    PROVE  LocalInv'
<1>1. PICK role \in Role, next \in CheckedOut :
         /\ InstallKey(j, role, next)
         /\ \/ role = "user" /\ next = "becomeKey" /\ pc[j] = "userKey"
            \/ role = "become" /\ next = "collections" /\ pc[j] = "becomeKey"
            \/ role = "vault" /\ next = "args" /\ pc[j] = "vaultKey"
  BY DEF InstallUserKey, InstallBecomeKey, InstallVaultKeyFile, Role, CheckedOut
<1>2. PICK out \in Install(role, keyType[role]) :
         /\ inst' = [inst EXCEPT ![role] = out.is]
         /\ IF out.ok THEN Goto(j, next) ELSE Fail(j)
         /\ UNCHANGED <<outside, requests, history, copy, installed>>
  BY <1>1 DEF InstallKey
<1>3. keyType[role] \in KeyType
  BY LocalJobAssumption DEF LocalInv, TypeOK
<1>4. out.is \in {"none", "file", "agent", "deaf"} /\ (out.ok => out = Good(out.is))
  BY <1>3, InstallOutcomes
<1>5. /\ inst' \in [Role -> {"none", "file", "agent", "deaf"}]
      /\ inst'[role] = out.is /\ \A x \in Role \ {role} : inst'[x] = inst[x]
  BY <1>2, <1>4 DEF LocalInv, TypeOK
<1>6. /\ keyType' = keyType /\ copy' = copy /\ installed' = installed /\ cut' = cut
      /\ others' = others
      /\ excuse' = excuse /\ UNCHANGED <<outside, requests>>
  BY <1>2 DEF outside, history
<1>7. /\ copy' \in Copy \cup {None} /\ installed' \in [Kind -> Version \cup {None, "mixed"}]
      /\ cut' \in [Kind -> BOOLEAN] /\ others' \in [Kind -> BOOLEAN] /\ pc[j] \in CheckedOut
  BY <1>1, <1>6 DEF LocalInv, TypeOK, CheckedOut
<1>8. HashTrue'
  BY <1>6 DEF LocalInv, HashTrue
<1>9. CASE out.ok
  <2>1. Goto(j, next) /\ pc'[j] = next
    BY <1>2, <1>9 DEF Goto, LocalInv, TypeOK
  <2>2. KeyInPlace(role)'
    BY <1>4, <1>5, <1>6, <1>9 DEF KeyInPlace, Install, Good, Bad, StartSshAgent, Listen
  <2>3. ASSUME NEW x \in Role \ {role}, KeyInPlace(x) PROVE KeyInPlace(x)'
    BY <1>5, <1>6, <2>3 DEF KeyInPlace, Install, Good, Bad, StartSshAgent, Listen
  <2>4. KeysReady(j)
    BY DEF LocalInv, JobOK
  <2>5. KeysReady(j)'
    BY <1>1, <2>1, <2>2, <2>3, <2>4 DEF KeysReady, CheckedOut, Role
  <2>6. GalaxyReady(j)'
    BY <1>1, <1>6, <2>1 DEF GalaxyReady, LocalInv, JobOK, Assumed, InPlace, Required
  <2> QED
    BY <1>5, <1>6, <1>7, <1>8, <2>1, <2>5, <2>6, CheckedOutStep
<1>10. CASE ~ out.ok
  <2>1. Goto(j, "failed") /\ "failed" \notin CheckedOut
    BY <1>2, <1>10 DEF Fail, CheckedOut
  <2> QED
    BY <1>5, <1>6, <1>7, <1>8, <2>1, CheckedOutStep
<1> QED
  BY <1>9, <1>10

\* The files of requirements are installed, and their hashes stored.
LEMMA GalaxyInv ==
    ASSUME LocalInv, NEW j \in Job,
           InstallCollectionsRequirements(j) \/ InstallRolesRequirements(j)
    PROVE  LocalInv'
<1>1. PICK k \in Kind, store \in CheckedOut, next \in CheckedOut :
         /\ Galaxy(j, k, next, store) \/ WriteMD5Hash(j, k, store, next)
         /\ \/ k = "collections" /\ store = "collectionsMd5" /\ next = "roles"
            \/ k = "roles" /\ store = "rolesMd5" /\ next = "vaultKey"
  BY LocalJobAssumption DEF InstallCollectionsRequirements, InstallRolesRequirements, CheckedOut
<1>2. /\ UNCHANGED <<outside, requests>> /\ inst' = inst /\ excuse' = excuse
      /\ keyType' = keyType /\ pc[j] \in {k, store}
  BY <1>1 DEF Galaxy, WriteMD5Hash, outside
<1>3. /\ copy \in Copy \cup {None} /\ installed \in [Kind -> Version \cup {None, "mixed"}]
      /\ cut \in [Kind -> BOOLEAN] /\ others \in [Kind -> BOOLEAN]
      /\ inst' \in [Role -> {"none", "file", "agent", "deaf"}]
      /\ pc[j] \in CheckedOut /\ "failed" \notin CheckedOut
  BY <1>1, <1>2 DEF LocalInv, TypeOK, CheckedOut
<1>4. \A x \in Kind : Required(x) \in Version \cup {None}
  BY <1>3, LocalJobAssumption DEF Required, Copy
<1>5. ASSUME NEW where \in {store, next}, Goto(j, where) PROVE KeysReady(j)' /\ pc'[j] = where
  <2>1. pc'[j] = where
    BY <1>5 DEF Goto, LocalInv, TypeOK
  <2>2. \A x \in Role : KeyInPlace(x) => KeyInPlace(x)'
    BY <1>2 DEF KeyInPlace, Install, Good, Bad, StartSshAgent, Listen
  <2>3. KeysReady(j)
    BY DEF LocalInv, JobOK
  <2>4. KeysReady(j)'
    BY <1>1, <1>2, <2>1, <2>2, <2>3 DEF KeysReady, CheckedOut, Role
  <2> QED
    BY <2>1, <2>4
<1>6. CASE Galaxy(j, k, next, store)
  <2>1. copy' = copy /\ pc[j] = k
    BY <1>6 DEF Galaxy
  <2>2. \A x \in Kind : Required(x)' = Required(x)
    BY <2>1 DEF Required
  <2>3. CASE Required(k) = None \/ ~ HasRequirementsChanges(k)
    <3>1. Goto(j, next) /\ installed' = installed /\ cut' = cut /\ others' = others
      BY <1>6, <2>3 DEF Galaxy
    <3>2. Assumed(k)
      <4> SUFFICES ASSUME ~ cut[k], ~ others[k], Required(k) # None PROVE installed[k] = Required(k)
        BY DEF Assumed, InPlace
      <4>1. copy # None /\ copy.md5[k] = Required(k)
        BY <2>3 DEF Required, HasRequirementsChanges
      <4> QED
        BY <4>1 DEF LocalInv, HashTrue
    <3>3. Assumed(k)'
      BY <2>2, <3>1, <3>2 DEF Assumed, InPlace
    <3>4. k = "roles" => Assumed("collections")'
      <4>1. k = "roles" => Assumed("collections")
        BY <2>1 DEF LocalInv, JobOK, GalaxyReady
      <4> QED
        BY <2>2, <3>1, <4>1, LocalJobAssumption DEF Assumed, InPlace
    <3>5. GalaxyReady(j)'
      BY <1>1, <1>5, <3>1, <3>3, <3>4 DEF GalaxyReady
    <3>6. HashTrue'
      BY <2>1, <3>1 DEF LocalInv, HashTrue
    <3> QED
      BY <1>1, <1>2, <1>3, <1>5, <2>1, <3>1, <3>5, <3>6, CheckedOutStep
  <2>4. CASE ~ (Required(k) = None \/ ~ HasRequirementsChanges(k))
    <3>1. /\ cut' = [cut EXCEPT ![k] = TRUE] /\ others' = [others EXCEPT ![k] = FALSE]
          /\ \/ installed' = [installed EXCEPT ![k] = Required(k)] /\ Goto(j, store)
             \/ installed' = [installed EXCEPT ![k] = "mixed"] /\ Fail(j)
      BY <1>6, <2>4 DEF Galaxy
    <3>2. /\ cut' \in [Kind -> BOOLEAN] /\ cut'[k]
          /\ \A x \in Kind \ {k} : /\ cut'[x] = cut[x] /\ installed'[x] = installed[x]
                                   /\ others'[x] = others[x]
          /\ others' \in [Kind -> BOOLEAN]
          /\ installed' \in [Kind -> Version \cup {None, "mixed"}]
      BY <1>3, <1>4, <3>1
    <3>3. HashTrue'
      BY <2>1, <3>2 DEF LocalInv, HashTrue
    <3>4. CASE installed' = [installed EXCEPT ![k] = Required(k)] /\ Goto(j, store)
      <4>1. InPlace(k)'
        BY <1>3, <2>2, <3>4 DEF InPlace
      <4>2. k = "roles" => Assumed("collections")'
        <5>1. k = "roles" => Assumed("collections")
          BY <2>1 DEF LocalInv, JobOK, GalaxyReady
        <5> QED
          BY <2>2, <3>2, <5>1, LocalJobAssumption DEF Assumed, InPlace
      <4>3. GalaxyReady(j)'
        BY <1>1, <1>5, <3>4, <4>1, <4>2 DEF GalaxyReady
      <4> QED
        BY <1>1, <1>2, <1>3, <1>5, <2>1, <3>2, <3>3, <3>4, <4>3, CheckedOutStep
    <3>5. CASE Fail(j)
      BY <1>2, <1>3, <2>1, <3>2, <3>3, <3>5, CheckedOutStep DEF Fail
    <3> QED
      BY <3>1, <3>4, <3>5
  <2> QED
    BY <2>3, <2>4
<1>7. CASE WriteMD5Hash(j, k, store, next)
  <2>1. pc[j] = store /\ installed' = installed /\ others' = others
    BY <1>7 DEF WriteMD5Hash
  <2>2. InPlace(k)
    BY <1>1, <2>1 DEF LocalInv, JobOK, GalaxyReady
  <2>3. CASE Required(k) = None
    <3>1. Fail(j) /\ copy' = copy /\ cut' = cut
      BY <1>7, <2>3 DEF WriteMD5Hash
    <3>2. HashTrue'
      BY <2>1, <3>1 DEF LocalInv, HashTrue
    <3> QED
      BY <1>2, <1>3, <2>1, <3>1, <3>2, CheckedOutStep DEF Fail
  <2>4. CASE Required(k) # None
    <3>1. /\ copy' = [copy EXCEPT !.md5[k] = Required(k)]
          /\ cut' = [cut EXCEPT ![k] = FALSE] /\ Goto(j, next)
      BY <1>7, <2>4 DEF WriteMD5Hash
    <3>2. copy # None /\ copy \in Copy
      BY <1>3, <2>4 DEF Required
    <3>3. /\ copy' \in Copy /\ copy'.url = copy.url /\ copy'.head = copy.head
          /\ copy'.state = copy.state /\ copy'.by = copy.by /\ copy'.md5[k] = Required(k)
          /\ \A x \in Kind \ {k} : copy'.md5[x] = copy.md5[x]
      BY <1>4, <3>1, <3>2 DEF Copy
    <3>4. cut' \in [Kind -> BOOLEAN] /\ \A x \in Kind \ {k} : cut'[x] = cut[x]
      BY <1>3, <3>1
    <3>5. HashTrue'
      <4>1. ~ others'[k] => installed'[k] = Required(k)
        BY <2>1, <2>2, <2>4 DEF InPlace
      <4> QED
        BY <2>1, <3>2, <3>3, <3>4, <4>1 DEF LocalInv, HashTrue
    <3>6. ASSUME NEW x \in Kind, InPlace(x) PROVE InPlace(x)'
      <4>1. Required(x)' = Required(x) \/ Required(x)' = None
        BY <3>2, <3>3 DEF Required
      <4> QED
        BY <2>1, <3>6, <4>1 DEF InPlace
    <3>7. k = "roles" => Assumed("collections")'
      <4>1. k = "roles" => Assumed("collections")
        BY <1>1, <2>1 DEF LocalInv, JobOK, GalaxyReady
      <4> QED
        BY <3>4, <3>6, <4>1, LocalJobAssumption DEF Assumed
    <3>8. GalaxyReady(j)'
      BY <1>1, <1>5, <2>2, <3>1, <3>6, <3>7 DEF GalaxyReady, Assumed
    <3> QED
      BY <1>1, <1>2, <1>3, <1>5, <2>1, <3>1, <3>2, <3>3, <3>4, <3>5, <3>8, CheckedOutStep
  <2> QED
    BY <2>3, <2>4
<1> QED
  BY <1>1, <1>6, <1>7

\* The playbook starts and ends, and the keys are destroyed.
LEMMA PlaybookInv ==
    ASSUME LocalInv, NEW j \in Job, GetPlaybookArgs(j) \/ RunPlaybook(j) \/ DestroyKeys(j)
    PROVE  LocalInv'
<1>1. PICK where \in {"play", "destroy", "ended"} :
         /\ Goto(j, where)
         /\ pc[j] \in {"args", "play", "destroy"}
         /\ (where = "play" => pc[j] = "args")
         /\ (where = "destroy" => pc[j] \in {"args", "play"})
         /\ (where = "ended" => inst' = [role \in Role |-> Destroy(inst[role])])
         /\ (where # "ended" => inst' = inst)
  BY DEF GetPlaybookArgs, RunPlaybook, DestroyKeys
<1>2. /\ UNCHANGED <<outside, requests>> /\ keyType' = keyType /\ copy' = copy
      /\ installed' = installed /\ cut' = cut /\ others' = others /\ excuse' = excuse
      /\ repoUrl' = repoUrl /\ upc' = upc
  BY DEF GetPlaybookArgs, RunPlaybook, DestroyKeys, outside, requests, history
<1>3. /\ copy' \in Copy \cup {None} /\ installed' \in [Kind -> Version \cup {None, "mixed"}]
      /\ cut' \in [Kind -> BOOLEAN] /\ others' \in [Kind -> BOOLEAN]
      /\ excuse' \in {"no", "oldJob", "otherUpdate", "notCleared", "crash"}
      /\ pc[j] \in Working /\ where \in Working \cup {"failed", "ended"} /\ where \notin Preparing
  BY <1>1, <1>2 DEF LocalInv, TypeOK, Working, Preparing
<1>4. inst' \in [Role -> {"none", "file", "agent", "deaf"}]
  BY <1>1 DEF LocalInv, TypeOK, Destroy
<1>5. pc'[j] = where
  BY <1>1 DEF Goto, LocalInv, TypeOK
<1>6. CopyReady(j)' /\ GalaxyReady(j)'
  BY <1>5 DEF CopyReady, GalaxyReady, CheckedOut
<1>7. pc[j] \in {"args", "play"} => \A role \in Role : KeyInPlace(role)
  BY DEF LocalInv, JobOK, KeysReady, CheckedOut, Role
<1>8. where = "play" => KeysReady(j)'
  <2> SUFFICES ASSUME where = "play" PROVE KeysReady(j)'
    OBVIOUS
  <2>1. \A role \in Role : KeyInPlace(role) => KeyInPlace(role)'
    BY <1>1, <1>2 DEF KeyInPlace, Install, Good, Bad, StartSshAgent, Listen
  <2> QED
    BY <1>1, <1>5, <1>7, <2>1 DEF KeysReady, Role
<1>9. where = "destroy" => KeysReady(j)'
  <2> SUFFICES ASSUME where = "destroy" PROVE KeysReady(j)'
    OBVIOUS
  <2>1. ASSUME NEW role \in Role PROVE inst[role] # "deaf"
    <3>1. Good(inst[role]) \in Install(role, keyType[role])
      BY <1>1, <1>7 DEF KeyInPlace
    <3>2. keyType[role] \in KeyType
      BY LocalJobAssumption DEF LocalInv, TypeOK
    <3> QED
      BY <3>1, <3>2, InstallOutcomes
  <2> QED
    BY <1>1, <1>5, <2>1 DEF KeysReady, CheckedOut
<1>10. where = "ended" => KeysReady(j)'
  BY <1>5 DEF KeysReady, CheckedOut
<1>11. HashTrue' /\ OldCopies'
  BY <1>2 DEF LocalInv, HashTrue, OldCopies
<1>12. CloneLeft'
  <2>1. pc[j] \in Working \ {"cloning", "cloneFiles"}
    BY <1>1 DEF Working
  <2> QED
    BY <1>1, <1>2, <2>1, OldClone
<1> QED
  BY <1>12, <1>1, <1>2, <1>3, <1>4, <1>6, <1>8, <1>9, <1>10, <1>11, WorkStep

-----------------------------------------------------------------------------
(***************************************************************************)
(* The steps of everybody else.                                            *)
(***************************************************************************)

\* A task is created, and starts when no other is at work.
LEMMA StartInv ==
    ASSUME LocalInv, NEW j \in Job,
           Run(j) \/ \E c \in Commit \cup {None} : PopulateDetails(j, c)
    PROVE  LocalInv'
<1>1. ASSUME NEW c \in Commit \cup {None}, PopulateDetails(j, c) PROVE LocalInv'
  <2>1. /\ pc[j] = "new" /\ job' = [job EXCEPT ![j] = [url |-> repoUrl, commit |-> c]]
        /\ pc' = [pc EXCEPT ![j] = "waiting"]
        /\ tip' = tip /\ pushes' = pushes /\ installs' = installs /\ keyType' = keyType
        /\ repoUrl' = repoUrl /\ upc' = upc /\ upd' = upd
        /\ cut' = cut /\ others' = others /\ excuse' = excuse /\ copy' = copy
        /\ installed' = installed /\ inst' = inst /\ tips' = tips
    BY <1>1 DEF PopulateDetails, outside, requests, history
  <2>2. [url |-> repoUrl, commit |-> c] \in [url : Url, commit : Commit \cup {None}]
    BY DEF LocalInv, TypeOK
  <2>3. TypeOK'
    BY <2>1, <2>2 DEF LocalInv, TypeOK
  <2>4. /\ pc'[j] = "waiting" /\ job'[j] \in [url : Url, commit : Commit \cup {None}]
        /\ \A i \in Job \ {j} : pc'[i] = pc[i] /\ job'[i] = job[i]
    BY <2>1, <2>2 DEF LocalInv, TypeOK
  <2>5. "waiting" \notin Working
    BY DEF Working
  <2>6. ASSUME NEW i \in Job PROVE JobOK(i)'
    <3>1. CASE i = j
      BY <2>4, <3>1 DEF JobOK, Knows, CopyReady, KeysReady, GalaxyReady, Preparing, CheckedOut, Working
    <3>2. CASE i # j
      <4>1. Knows(i)' /\ CopyReady(i)'
        BY <2>1, <2>4, <3>2 DEF LocalInv, JobOK, Knows, CopyReady, Current, Behind
      <4>2. KeysReady(i)'
        BY <2>1, <2>4, <3>2 DEF LocalInv, JobOK, KeysReady, KeyInPlace, Install, Good, Bad,
             StartSshAgent, Listen
      <4>3. GalaxyReady(i)'
        BY <2>1, <2>4, <3>2 DEF LocalInv, JobOK, GalaxyReady, Assumed, InPlace, Required
      <4> QED
        BY <4>1, <4>2, <4>3 DEF JobOK
    <3> QED
      BY <3>1, <3>2
  <2>7. OneAtWork'
    BY <2>4, <2>5 DEF LocalInv, OneAtWork
  <2>8. RowRead' /\ HashTrue' /\ OldCopies'
    BY <2>1 DEF LocalInv, RowRead, HashTrue, OldCopies
  <2>9. CloneLeft'
    BY <2>1, <2>4 DEF LocalInv, TypeOK, Copy, CloneLeft
  <2> QED
    BY <2>3, <2>6, <2>7, <2>8, <2>9 DEF LocalInv
<1>2. CASE Run(j)
  <2>1. /\ pc[j] = "waiting" /\ \A i \in Job : pc[i] \notin Working
        /\ pc' = [pc EXCEPT ![j] = "validate"] /\ tips' = {<<u, tip[u]>> : u \in Url}
        /\ inst' = NoKeys
        /\ tip' = tip /\ pushes' = pushes /\ installs' = installs /\ keyType' = keyType
        /\ repoUrl' = repoUrl /\ upc' = upc /\ upd' = upd
        /\ cut' = cut /\ others' = others /\ excuse' = excuse /\ copy' = copy
        /\ installed' = installed /\ job' = job
    BY <1>2 DEF Run, outside, requests, history
  <2>2. pc'[j] = "validate" /\ \A i \in Job \ {j} : pc'[i] = pc[i]
    BY <2>1 DEF LocalInv, TypeOK
  <2>3. TypeOK'
    <3>1. /\ pc' \in [Job -> Working \cup {"new", "waiting", "failed", "ended", "dead"}]
          /\ inst' \in [Role -> {"none", "file", "agent", "deaf"}]
      BY <2>1 DEF LocalInv, TypeOK, Working, NoKeys
    <3>2. tips' \subseteq Url \X Commit
      BY <2>1 DEF LocalInv, TypeOK
    <3> QED
      BY <2>1, <3>1, <3>2 DEF LocalInv, TypeOK
  <2>4. ASSUME NEW i \in Job PROVE JobOK(i)'
    <3>1. Knows(i)'
      BY <2>1, <2>2 DEF LocalInv, JobOK, Knows, Preparing
    <3>2. pc'[i] = "validate" \/ pc'[i] \notin Working
      BY <2>1, <2>2
    <3>3. CopyReady(i)' /\ KeysReady(i)' /\ GalaxyReady(i)'
      BY <3>2 DEF CopyReady, KeysReady, GalaxyReady, CheckedOut, Working
    <3> QED
      BY <3>1, <3>3 DEF JobOK
  <2>5. OneAtWork'
    BY <2>1, <2>2 DEF OneAtWork
  <2>6. RowRead' /\ HashTrue' /\ OldCopies'
    BY <2>1 DEF LocalInv, RowRead, HashTrue, OldCopies
  <2>7. CloneLeft'
    BY <2>1, <2>2 DEF LocalInv, TypeOK, Copy, CloneLeft
  <2> QED
    BY <2>3, <2>4, <2>5, <2>6, <2>7 DEF LocalInv
<1> QED
  BY <1>1, <1>2

\* While jobs stand still the copy may be removed, a branch may move and
\* another template may replace what is installed.
LEMMA JobsStand ==
    ASSUME LocalInv, copy' \in {copy, None},
           pc' = pc, job' = job, keyType' = keyType, inst' = inst, cut' = cut,
           \A k \in Kind : others'[k] \/ (others'[k] = others[k] /\ installed'[k] = installed[k]),
           tips \subseteq tips',
           \A j \in Job : pc[j] \in Preparing => \A u \in Url : <<u, tip'[u]>> \in tips'
    PROVE  (\A j \in Job : JobOK(j)') /\ OneAtWork' /\ HashTrue' /\ CloneLeft'
<1>1. ASSUME NEW j \in Job PROVE JobOK(j)'
  <2>1. Knows(j)'
    BY DEF LocalInv, JobOK, Knows
  <2>2. CopyReady(j)'
    <3>1. CopyReady(j)
      BY DEF LocalInv, JobOK
    <3>2. ASSUME copy' = copy, copy # None
          PROVE  /\ Behind(copy.url, copy.head) => Behind(copy.url, copy.head)'
                 /\ Current(copy.url, copy.head) => Current(copy.url, copy.head)'
      BY <3>2 DEF Behind, Current
    <3> QED
      BY <3>1, <3>2 DEF CopyReady
  <2>3. KeysReady(j)'
    BY DEF LocalInv, JobOK, KeysReady, KeyInPlace, Install, Good, Bad, StartSshAgent, Listen
  <2>4. \A k \in Kind : Required(k)' \in {Required(k), None}
    BY DEF Required
  <2>5. \A k \in Kind : (InPlace(k) => InPlace(k)') /\ (Assumed(k) => Assumed(k)')
    BY <2>4 DEF Assumed, InPlace
  <2>6. GalaxyReady(j)'
    BY <2>5, LocalJobAssumption DEF LocalInv, JobOK, GalaxyReady
  <2> QED
    BY <2>1, <2>2, <2>3, <2>6 DEF JobOK
<1>2. OneAtWork' /\ HashTrue' /\ CloneLeft'
  BY DEF LocalInv, OneAtWork, HashTrue, CloneLeft
<1> QED
  BY <1>1, <1>2

\* Requests write a row they have read, and at most remove the copy.
LEMMA RequestInv ==
    ASSUME LocalInv,
           \/ \E r \in Update : \/ \E u \in Url : ReadRepository(r, u)
                                \/ WriteRepository(r) \/ ClearCache(r)
           \/ UpdateKey
    PROVE  LocalInv'
<1>1. /\ tip' = tip /\ pushes' = pushes /\ installs' = installs /\ keyType' = keyType
      /\ pc' = pc /\ job' = job /\ tips' = tips /\ cut' = cut /\ others' = others
      /\ installed' = installed
      /\ inst' = inst /\ copy' \in {copy, None}
  BY DEF ReadRepository, WriteRepository, ClearCache, UpdateKey, outside, control, history
<1>2. (\A j \in Job : JobOK(j)') /\ OneAtWork' /\ HashTrue' /\ CloneLeft'
  <2>1. \A j \in Job : pc[j] \in Preparing => \A u \in Url : <<u, tip'[u]>> \in tips'
    BY <1>1 DEF LocalInv, JobOK, Knows
  <2> QED
    BY <1>1, <2>1, JobsStand
<1>3. ASSUME repoUrl' \in Url, upc' \in [Update -> {"new", "read", "written", "done"}],
             upd' \in [Update -> [old : Url, new : Url] \cup {None}],
             excuse' \in {"no", "oldJob", "otherUpdate", "notCleared", "crash"}
      PROVE  TypeOK'
  BY <1>1, <1>3 DEF LocalInv, TypeOK
<1>4. ASSUME NEW r \in Update, NEW u \in Url, ReadRepository(r, u) PROVE LocalInv'
  <2>1. /\ upc[r] = "new" /\ upd' = [upd EXCEPT ![r] = [old |-> repoUrl, new |-> u]]
        /\ upc' = [upc EXCEPT ![r] = "read"]
        /\ repoUrl' = repoUrl /\ excuse' = excuse /\ copy' = copy
    BY <1>4 DEF ReadRepository, history
  <2>2. TypeOK' /\ RowRead'
    <3>1. [old |-> repoUrl, new |-> u] \in [old : Url, new : Url]
      BY DEF LocalInv, TypeOK
    <3>2. /\ upd' \in [Update -> [old : Url, new : Url] \cup {None}]
          /\ upc' \in [Update -> {"new", "read", "written", "done"}]
          /\ repoUrl' \in Url
          /\ excuse' \in {"no", "oldJob", "otherUpdate", "notCleared", "crash"}
      BY <2>1, <3>1 DEF LocalInv, TypeOK
    <3>3. RowRead'
      BY <2>1, <3>1 DEF LocalInv, TypeOK, RowRead
    <3> QED
      BY <1>3, <3>2, <3>3
  <2>3. OldCopies'
    BY <2>1 DEF LocalInv, TypeOK, OldCopies
  <2> QED
    BY <1>2, <2>2, <2>3 DEF LocalInv
<1>5. ASSUME NEW r \in Update, WriteRepository(r) PROVE LocalInv'
  <2>1. /\ upc[r] = "read" /\ repoUrl' = upd[r].new
        /\ upc' = [upc EXCEPT ![r] = IF upd[r].old # upd[r].new THEN "written" ELSE "done"]
        /\ upd' = [upd EXCEPT ![r] = None]
        /\ excuse' = IF repoUrl # upd[r].old THEN "otherUpdate" ELSE excuse
        /\ copy' = copy
    BY <1>5 DEF WriteRepository
  <2>2. upd[r] \in [old : Url, new : Url]
    BY <2>1 DEF LocalInv, RowRead
  <2>3. TypeOK'
    BY <1>3, <2>1, <2>2 DEF LocalInv, TypeOK
  <2>4. RowRead'
    BY <2>1 DEF LocalInv, TypeOK, RowRead
  <2>5. OldCopies'
    BY <2>1, <2>2 DEF LocalInv, TypeOK, OldCopies
  <2> QED
    BY <1>2, <2>3, <2>4, <2>5 DEF LocalInv
<1>6. ASSUME NEW r \in Update, ClearCache(r) PROVE LocalInv'
  <2>1. /\ upc[r] = "written" /\ upc' = [upc EXCEPT ![r] = "done"]
        /\ (copy' = None /\ excuse' = "no") \/ excuse' = "notCleared"
        /\ repoUrl' = repoUrl /\ upd' = upd
    BY <1>6 DEF ClearCache
  <2>2. TypeOK'
    BY <1>3, <2>1 DEF LocalInv, TypeOK
  <2>3. RowRead' /\ OldCopies'
    BY <2>1 DEF LocalInv, TypeOK, RowRead, OldCopies
  <2> QED
    BY <1>2, <2>2, <2>3 DEF LocalInv
<1>7. CASE UpdateKey
  <2>1. /\ copy' = None /\ excuse' = "no" /\ repoUrl' = repoUrl /\ upc' = upc /\ upd' = upd
    BY <1>7 DEF UpdateKey, requests
  <2>2. TypeOK' /\ RowRead' /\ OldCopies'
    BY <1>3, <2>1 DEF LocalInv, TypeOK, RowRead, OldCopies
  <2> QED
    BY <1>2, <2>2 DEF LocalInv
<1> QED
  BY <1>4, <1>5, <1>6, <1>7

\* A push makes the new tip one of those seen since the run began.
LEMMA PushInv ==
    ASSUME LocalInv, NEW u \in Url, NEW c \in Commit, Push(u, c)
    PROVE  LocalInv'
<1>1. /\ pushes < MaxPushes /\ pushes' = pushes + 1 /\ tip' = [tip EXCEPT ![u] = c]
      /\ tips' = IF tips = {} THEN {} ELSE tips \cup {<<u, c>>}
      /\ installs' = installs /\ keyType' = keyType
      /\ repoUrl' = repoUrl /\ upc' = upc /\ upd' = upd
      /\ cut' = cut /\ others' = others /\ excuse' = excuse /\ copy' = copy
      /\ installed' = installed /\ pc' = pc /\ job' = job /\ inst' = inst
  BY DEF Push, requests, history
<1>2. ASSUME NEW j \in Job, pc[j] \in Preparing, NEW v \in Url PROVE <<v, tip'[v]>> \in tips'
  <2>1. <<v, tip[v]>> \in tips
    BY <1>2 DEF LocalInv, JobOK, Knows
  <2>2. tip'[v] = (IF v = u THEN c ELSE tip[v]) /\ tips' = tips \cup {<<u, c>>}
    BY <1>1, <2>1 DEF LocalInv, TypeOK
  <2> QED
    BY <2>1, <2>2
<1>3. (\A j \in Job : JobOK(j)') /\ OneAtWork' /\ HashTrue' /\ CloneLeft'
  BY <1>1, <1>2, JobsStand
<1>4. TypeOK'
  <2>1. pushes' \in 0 .. MaxPushes
    BY <1>1, LocalJobAssumption DEF LocalInv, TypeOK
  <2>2. tip' \in [Url -> Commit] /\ tips' \subseteq Url \X Commit
    BY <1>1 DEF LocalInv, TypeOK
  <2> QED
    BY <1>1, <2>1, <2>2 DEF LocalInv, TypeOK
<1>5. RowRead' /\ OldCopies'
  BY <1>1 DEF LocalInv, RowRead, OldCopies
<1> QED
  BY <1>3, <1>4, <1>5 DEF LocalInv

\* Another template installs in the same place, which is on record.
LEMMA OtherGalaxyInv ==
    ASSUME LocalInv, NEW k \in Kind, NEW v \in Foreign, OtherGalaxy(k, v)
    PROVE  LocalInv'
<1>1. /\ installs < MaxInstalls /\ installs' = installs + 1
      /\ installed' = [installed EXCEPT ![k] = v] /\ others' = [others EXCEPT ![k] = TRUE]
      /\ tip' = tip /\ pushes' = pushes /\ keyType' = keyType
      /\ repoUrl' = repoUrl /\ upc' = upc /\ upd' = upd
      /\ cut' = cut /\ excuse' = excuse /\ copy' = copy
      /\ pc' = pc /\ job' = job /\ tips' = tips /\ inst' = inst
  BY DEF OtherGalaxy, requests, control
<1>2. \A j \in Job : pc[j] \in Preparing => \A u \in Url : <<u, tip'[u]>> \in tips'
  BY <1>1 DEF LocalInv, JobOK, Knows
<1>3. \A x \in Kind : others'[x] \/ (others'[x] = others[x] /\ installed'[x] = installed[x])
  BY <1>1 DEF LocalInv, TypeOK
<1>4. (\A j \in Job : JobOK(j)') /\ OneAtWork' /\ HashTrue' /\ CloneLeft'
  BY <1>1, <1>2, <1>3, JobsStand
<1>5. TypeOK'
  <2>1. installs' \in 0 .. MaxInstalls
    BY <1>1, LocalJobAssumption DEF LocalInv, TypeOK
  <2>2. /\ installed' \in [Kind -> Version \cup {None, "mixed"}]
        /\ others' \in [Kind -> BOOLEAN]
    BY <1>1, LocalJobAssumption DEF LocalInv, TypeOK
  <2> QED
    BY <1>1, <2>1, <2>2 DEF LocalInv, TypeOK
<1>6. RowRead' /\ OldCopies'
  BY <1>1 DEF LocalInv, RowRead, OldCopies
<1> QED
  BY <1>4, <1>5, <1>6 DEF LocalInv

\* A crash leaves the copy as it is and no job at work.
LEMMA CrashInv == ASSUME LocalInv, Crash PROVE LocalInv'
<1>1. /\ pc' = [j \in Job |-> IF pc[j] \in Working \cup {"waiting"} THEN "dead" ELSE pc[j]]
      /\ upc' = [r \in Update |-> IF upc[r] = "new" THEN "new" ELSE "done"]
      /\ excuse' = IF \E r \in Update : upc[r] = "written" THEN "crash" ELSE excuse
      /\ job' = [j \in Job |-> None] /\ upd' = [r \in Update |-> None] /\ tips' = {}
      /\ tip' = tip /\ pushes' = pushes /\ installs' = installs /\ keyType' = keyType
      /\ repoUrl' = repoUrl /\ cut' = cut /\ others' = others /\ copy' = copy
      /\ installed' = installed /\ inst' = NoKeys
  BY DEF Crash, outside
<1>2. TypeOK'
  BY <1>1 DEF LocalInv, TypeOK, NoKeys
<1>3. \A j \in Job : pc'[j] \notin Working \cup {"waiting"}
  BY <1>1 DEF Working
<1>4. \A j \in Job : JobOK(j)'
  BY <1>3 DEF JobOK, Knows, CopyReady, KeysReady, GalaxyReady, Preparing, CheckedOut, Working
<1>5. OneAtWork' /\ RowRead'
  BY <1>1, <1>3 DEF OneAtWork, RowRead
<1>6. HashTrue' /\ OldCopies'
  BY <1>1 DEF LocalInv, HashTrue, OldCopies
<1>7. CloneLeft'
  BY <1>1 DEF LocalInv, TypeOK, Copy, CloneLeft, Working
<1> QED
  BY <1>2, <1>4, <1>5, <1>6, <1>7 DEF LocalInv

\* A step that changes nothing keeps the invariant.
LEMMA LocalStutter == ASSUME LocalInv, UNCHANGED vars PROVE LocalInv'
<1>1. /\ tip' = tip /\ pushes' = pushes /\ installs' = installs /\ keyType' = keyType
      /\ repoUrl' = repoUrl /\ upc' = upc /\ upd' = upd
      /\ cut' = cut /\ others' = others /\ excuse' = excuse /\ copy' = copy
      /\ installed' = installed /\ pc' = pc /\ job' = job /\ inst' = inst /\ tips' = tips
  BY DEF vars, outside, requests, control, history
<1>2. \A j \in Job : pc[j] \in Preparing => \A u \in Url : <<u, tip'[u]>> \in tips'
  BY <1>1 DEF LocalInv, JobOK, Knows
<1>3. (\A j \in Job : JobOK(j)') /\ OneAtWork' /\ HashTrue' /\ CloneLeft'
  BY <1>1, <1>2, JobsStand
<1>4. TypeOK' /\ RowRead' /\ OldCopies'
  BY <1>1 DEF LocalInv, TypeOK, RowRead, OldCopies
<1> QED
  BY <1>3, <1>4 DEF LocalInv

\* At the start there is no copy and no job.
LEMMA LocalInit == ASSUME Init PROVE LocalInv
<1>1. TypeOK
  BY LocalJobAssumption DEF Init, TypeOK, NoKeys
<1>2. \A j \in Job : pc[j] = "new"
  BY DEF Init
<1>3. (\A j \in Job : JobOK(j)) /\ OneAtWork
  BY <1>2 DEF JobOK, Knows, CopyReady, KeysReady, GalaxyReady, OneAtWork, Preparing,
       CheckedOut, Working
<1>4. RowRead /\ HashTrue /\ CloneLeft /\ OldCopies
  BY DEF Init, RowRead, HashTrue, CloneLeft, OldCopies
<1> QED
  BY <1>1, <1>3, <1>4 DEF LocalInv

\* Every step keeps the invariant.
LEMMA LocalStep == ASSUME LocalInv, [Next]_vars PROVE LocalInv'
<1>1. ASSUME NEW j \in Job, JobStep(j) PROVE LocalInv'
  BY <1>1, StartInv, UpdateRepositoryInv, InstallKeyInv, GalaxyInv, PlaybookInv
     DEF JobStep, PrepareRun
<1> QED
  BY <1>1, RequestInv, PushInv, OtherGalaxyInv, CrashInv, LocalStutter DEF Next

\* The invariant holds in every reachable state.
LEMMA LocalInvariant == Spec => []LocalInv
<1>1. Init => LocalInv
  BY LocalInit
<1>2. LocalInv /\ [Next]_vars => LocalInv'
  BY LocalStep
<1> QED
  BY <1>1, <1>2, PTL DEF Spec

-----------------------------------------------------------------------------
(***************************************************************************)
(* The theorems.                                                           *)
(***************************************************************************)

\* The copy, what is installed, and what jobs and requests know, are what the
\* code can make of them.
THEOREM LocalJobTyped == Spec => []TypeOK
  BY LocalInvariant, PTL DEF LocalInv

\* Every playbook runs with its keys installed as their roles ask for, and
\* destroyKeys closes no agent that has not listened, for every combination of
\* key types and every failure of an installation (Install, destroyKeys).
THEOREM PlaybooksHaveKeys == Spec => []KeysInOrder
<1>1. LocalInv => KeysInOrder
  BY DEF LocalInv, JobOK, KeysReady, KeyInPlace, KeysInOrder, Role
<1> QED
  BY <1>1, LocalInvariant, PTL

\* A copy of an old URL is always accounted for (UpdateRepository, ClearCache),
\* for any number of concurrent updates.
THEOREM OldCopiesExplained == Spec => []OldCopies
  BY LocalInvariant, PTL DEF LocalInv

\* Only the end of prepareRun starts a playbook.
LEMMA PlayStarts ==
    ASSUME LocalInv, Next, NEW j \in Job, pc[j] # "play", pc'[j] = "play"
    PROVE  pc[j] = "args" /\ copy # None
<1>1. PICK i \in Job : JobStep(i)
  <2>1. CASE \E r \in Update : (\E u \in Url : ReadRepository(r, u)) \/ WriteRepository(r) \/ ClearCache(r)
    BY <2>1 DEF ReadRepository, WriteRepository, ClearCache, control
  <2>2. CASE \/ \E u \in Url, c \in Commit : Push(u, c)
             \/ \E k \in Kind, v \in Foreign : OtherGalaxy(k, v)
             \/ UpdateKey
    BY <2>2 DEF Push, OtherGalaxy, UpdateKey, control
  <2>3. CASE Crash
    BY <2>3 DEF Crash
  <2> QED
    BY <2>1, <2>2, <2>3 DEF Next
<1>2. pc' = [pc EXCEPT ![i] = pc'[i]]
  <2>1. \E where : pc' = [pc EXCEPT ![i] = where]
    BY <1>1 DEF JobStep, PopulateDetails, Run, PrepareRun, UpdateRepositoryOf, ValidateRepo, Fetch,
         MergeBase, Pull, RemoveAll, Clone, CloneRefs, CloneEnds, Checkout, InstallUserKey, InstallBecomeKey,
         InstallVaultKeyFile, InstallKey, InstallCollectionsRequirements,
         InstallRolesRequirements, Galaxy, WriteMD5Hash, GetPlaybookArgs, RunPlaybook,
         DestroyKeys, GitFails, Fail, Goto
  <2> QED
    BY <2>1 DEF LocalInv, TypeOK
<1>3. i = j
  BY <1>2 DEF LocalInv, TypeOK
<1>4. ~ (UpdateRepositoryOf(j) \/ Checkout(j))
  BY DEF UpdateRepositoryOf, ValidateRepo, Fetch, MergeBase, Pull, RemoveAll, Clone, CloneRefs, CloneEnds,
       Checkout, GitFails, Fail, Goto, LocalInv, TypeOK
<1>5. ~ (InstallUserKey(j) \/ InstallBecomeKey(j) \/ InstallVaultKeyFile(j))
  BY DEF InstallUserKey, InstallBecomeKey, InstallVaultKeyFile, InstallKey, Fail, Goto,
       LocalInv, TypeOK
<1>6. ~ (InstallCollectionsRequirements(j) \/ InstallRolesRequirements(j))
  BY DEF InstallCollectionsRequirements, InstallRolesRequirements, Galaxy, WriteMD5Hash, Fail,
       Goto, LocalInv, TypeOK
<1>7. ~ (Run(j) \/ \E c \in Commit \cup {None} : PopulateDetails(j, c))
  BY DEF Run, PopulateDetails, LocalInv, TypeOK
<1>8. ~ (RunPlaybook(j) \/ DestroyKeys(j))
  BY DEF RunPlaybook, DestroyKeys, Goto, LocalInv, TypeOK
<1>9. GetPlaybookArgs(j)
  BY <1>1, <1>3, <1>4, <1>5, <1>6, <1>7, <1>8 DEF JobStep, PrepareRun
<1> QED
  BY <1>9 DEF GetPlaybookArgs, Goto, LocalInv, TypeOK

\* The playbook plays the commit of its task, or one between two tips of the
\* branch since the run began, on a copy that is complete unless the clone of
\* an earlier job failed or died once its refs were written: for any history of
\* pushes, failures of git, removals of the copy and crashes (updateRepository,
\* checkoutRepository).
THEOREM PlaybooksPlayTheirCommit == Spec => PlaysItsCommit
<1> DEFINE Plays ==
      \A j \in Job : pc[j] # "play" /\ pc'[j] = "play" =>
        /\ copy # None /\ copy.state # "broken"
        /\ copy.state = "partial" => copy.by # j /\ pc[copy.by] \in {"failed", "dead"}
        /\ IF job[j].commit # None THEN copy.head = job[j].commit
                                   ELSE Current(copy.url, copy.head)
<1>1. ASSUME LocalInv, Next PROVE Plays
  <2> SUFFICES ASSUME NEW j \in Job, pc[j] = "args", copy # None
               PROVE  /\ copy.state # "broken"
                      /\ copy.state = "partial" =>
                            copy.by # j /\ pc[copy.by] \in {"failed", "dead"}
                      /\ IF job[j].commit # None THEN copy.head = job[j].commit
                         ELSE Current(copy.url, copy.head)
    BY <1>1, PlayStarts
  <2>1. /\ copy.state # "broken"
        /\ IF job[j].commit # None THEN copy.head = job[j].commit
           ELSE Current(copy.url, copy.head)
    BY <1>1 DEF LocalInv, JobOK, CopyReady, CheckedOut
  <2>2. ASSUME copy.state = "partial"
        PROVE  copy.by # j /\ pc[copy.by] \in {"failed", "dead"}
    <3>1. copy.by \in Job /\ pc[copy.by] \in {"cloning", "cloneFiles", "failed", "dead"}
      BY <1>1, <2>2 DEF LocalInv, TypeOK, Copy, CloneLeft
    <3>2. pc[copy.by] \notin {"cloning", "cloneFiles"}
      BY <1>1, <3>1 DEF LocalInv, OneAtWork, Working
    <3> QED
      BY <3>1, <3>2
  <2> QED
    BY <2>1, <2>2
<1>2. LocalInv /\ [Next]_vars => [Plays]_vars
  BY <1>1
<1> QED
  BY <1>2, LocalInvariant, PTL DEF Spec, PlaysItsCommit

\* When a playbook starts the requirements of its commit are installed, unless
\* a galaxy run was cut off before its hash was stored or another template has
\* installed since: an installation that is skipped was made (RunGalaxy,
\* hasRequirementsChanges, writeMD5Hash).
THEOREM PlaybooksHaveRequirements == Spec => RequirementsInstalled
<1> DEFINE Has ==
      \A j \in Job : pc[j] # "play" /\ pc'[j] = "play" =>
        \A k \in Kind : Required(k) # None /\ ~ cut[k] /\ ~ others[k] =>
            installed[k] = Required(k)
<1>1. ASSUME LocalInv, Next PROVE Has
  BY <1>1, PlayStarts, LocalJobAssumption DEF LocalInv, JobOK, GalaxyReady, Assumed, InPlace
<1>2. LocalInv /\ [Next]_vars => [Has]_vars
  BY <1>1
<1> QED
  BY <1>2, LocalInvariant, PTL DEF Spec, RequirementsInstalled

=============================================================================
