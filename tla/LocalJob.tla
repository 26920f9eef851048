------------------------------ MODULE LocalJob ------------------------------
(***************************************************************************)
(* How a local job prepares its run: the working copy of the repository,   *)
(* the requirements and the access keys (services/tasks/LocalJob.go with   *)
(* db_lib, db/AccessKey.go and db/Repository.go).  The jobs are those of   *)
(* one template, which share a directory and which the task pool runs one  *)
(* after the other; meanwhile the branch moves, requests change the        *)
(* repository and its key, other templates install their requirements in   *)
(* the same place, and the process may die.                                *)
(*                                                                         *)
(* Every git command may fail; git is the command line client, and pulls   *)
(* by fast-forward only.  The repository is not a local directory.         *)
(***************************************************************************)
EXTENDS Naturals, FiniteSets

CONSTANTS
    Job,           \* bound: jobs, each run once
    Update,        \* bound: requests to change the repository, each made once
    Url,           \* git URLs
    Commit,        \* commits
    Ancestor,      \* Ancestor[c]: the commits c is based on, c included
    Kind,          \* files of requirements, {"collections", "roles"}
    Version,       \* contents of such a file
    Requires,      \* Requires[k][c]: the content at commit c, None without file
    MaxPushes,     \* bound: pushes to the branches
    Foreign,       \* what other templates install, "mixed" for a part of it
    MaxInstalls,   \* bound: installations by other templates
    FirstCommit,   \* the tip of the branches at the start
    KeyTypes,      \* types of the keys [user, become, vault] a template may have
    None

VARIABLES
    repoUrl,       \* the row of the repository
    tip,           \* tip of the branch at every URL
    copy,          \* directory repository_<id>_<template>, None if there is none
    installed,     \* what ansible-galaxy has installed, in the HOME of all templates
    keyType,       \* types of the keys of the template and its inventory
    pc,            \* where a job is
    job,           \* Repository.GitURL and Task.CommitHash of a job
    inst,          \* installations of the keys of the running job
    upc,           \* where a request is: "new", "read", "written", "done"
    upd,           \* its old and its new URL
    pushes,        \* pushes made
    installs,      \* installations other templates have made
    tips,          \* history: URLs and tips since the running job has begun
    cut,           \* history: galaxy has run without its hash being stored
    others,        \* history: another template has installed since this one
    excuse         \* history: why the copy may be one of another URL

outside  == <<tip, pushes, installs, keyType>>
requests == <<repoUrl, upc, upd>>
control  == <<pc, job, tips>>
history  == <<cut, others, excuse>>
vars     == <<outside, requests, control, history, copy, installed, inst>>

Role    == {"user", "become", "vault"}
KeyType == {"none", "ssh", "login_password"}

\* A copy is "broken" until git clone has written its refs and "partial" until
\* all files and submodules are there.
Copy    == [url : Url, head : Commit, origin : Commit,
            state : {"broken", "partial", "complete"},
            by : Job,                            \* history: who has cloned it
            md5 : [Kind -> Version \cup {None}]]
Working == {"validate", "fetch", "mergeBase", "pull", "removeAll", "clone", "cloning",
            "cloneFiles", "checkout", "userKey", "becomeKey", "collections", "collectionsMd5",
            "roles", "rolesMd5", "vaultKey", "args", "play", "destroy"}
NoKeys  == [role \in Role |-> "none"]

ASSUME LocalJobAssumption ==
    /\ Ancestor \in [Commit -> SUBSET Commit]
    /\ \A c \in Commit : c \in Ancestor[c]
    /\ Requires \in [Kind -> [Commit -> Version \cup {None}]]
    /\ Foreign \subseteq Version \cup {"mixed"}
    /\ KeyTypes \subseteq [Role -> KeyType]
    /\ Kind = {"collections", "roles"}
    /\ MaxPushes \in Nat /\ MaxInstalls \in Nat /\ FirstCommit \in Commit
    /\ None \notin Commit /\ None \notin Version

TypeOK ==
    /\ repoUrl \in Url
    /\ tip \in [Url -> Commit]
    /\ copy \in Copy \cup {None}
    /\ installed \in [Kind -> Version \cup {None, "mixed"}]
    /\ keyType \in KeyTypes
    /\ pc \in [Job -> Working \cup {"new", "waiting", "failed", "ended", "dead"}]
    /\ job \in [Job -> [url : Url, commit : Commit \cup {None}] \cup {None}]
    /\ inst \in [Role -> {"none", "file", "agent", "deaf"}]
    /\ upc \in [Update -> {"new", "read", "written", "done"}]
    /\ upd \in [Update -> [old : Url, new : Url] \cup {None}]
    /\ pushes \in 0 .. MaxPushes
    /\ installs \in 0 .. MaxInstalls
    /\ tips \subseteq Url \X Commit
    /\ cut \in [Kind -> BOOLEAN]
    /\ others \in [Kind -> BOOLEAN]
    /\ excuse \in {"no", "oldJob", "otherUpdate", "notCleared", "crash"}

Init ==
    /\ repoUrl \in Url
    /\ tip = [u \in Url |-> FirstCommit]
    /\ copy = None
    /\ installed = [k \in Kind |-> None]
    /\ keyType \in KeyTypes
    /\ pc = [j \in Job |-> "new"]
    /\ job = [j \in Job |-> None]
    /\ inst = NoKeys
    /\ upc = [r \in Update |-> "new"]
    /\ upd = [r \in Update |-> None]
    /\ pushes = 0
    /\ installs = 0
    /\ tips = {}
    /\ cut = [k \in Kind |-> FALSE]
    /\ others = [k \in Kind |-> FALSE]
    /\ excuse = "no"

-----------------------------------------------------------------------------
\* A job goes on; when it is over, what it has been told is forgotten.
Goto(j, where) ==
    /\ pc' = [pc EXCEPT ![j] = where]
    /\ job' = IF where \in Working THEN job ELSE [job EXCEPT ![j] = None]
    /\ tips' = IF where \in Working \ {"play", "destroy"} THEN tips ELSE {}

\* Faulty variant: destroyKeys is deferred first thing.
FailDestroys(j) == Goto(j, "destroy")

\* prepareRun returns an error.  Run has not deferred destroyKeys yet.
Fail(j) == Goto(j, "failed")

\* The types of keys and what Install makes of them: the outcomes.
Good(x) == [ok |-> TRUE, is |-> x]
Bad(x)  == [ok |-> FALSE, is |-> x]

\* startSshAgent: the agent is there even if it could not listen (a key that
\* cannot be parsed, a socket of that name).
Listen == {Good("agent"), Bad("deaf")}
StartSshAgent == Listen

\* DeserializeSecret or the file may fail; a key of no use to the role is an
\* error, or for the vault simply not installed.
Install(role, type) ==
    IF type = "none" THEN {Good("none")}
    ELSE {Bad("none")} \cup
         CASE type = "login_password" -> {Good("file")}
           [] role = "user" /\ type = "ssh" -> StartSshAgent
           [] role = "vault" /\ type = "ssh" -> {Good("none")}
           [] OTHER -> {}

\* A git command installs the key of the repository, runs, and destroys the
\* key again: any of it may fail, which leaves the copy as it is.
GitFails(j, where) == Goto(j, where) /\ UNCHANGED copy

-----------------------------------------------------------------------------
(***************************************************************************)
(* The task is created with the repository as it is; the pool runs it when *)
(* no other task of the template is running.                               *)
(***************************************************************************)
PopulateDetails(j, c) ==
    /\ pc[j] = "new"
    /\ job' = [job EXCEPT ![j] = [url |-> repoUrl, commit |-> c]]
    /\ pc' = [pc EXCEPT ![j] = "waiting"]
    /\ UNCHANGED <<outside, requests, history, copy, installed, inst, tips>>

Run(j) ==
    /\ pc[j] = "waiting"
    /\ \A i \in Job : pc[i] \notin Working
    /\ pc' = [pc EXCEPT ![j] = "validate"]
    /\ tips' = {<<u, tip[u]>> : u \in Url}
    /\ inst' = NoKeys
    /\ UNCHANGED <<outside, requests, history, copy, installed, job>>

-----------------------------------------------------------------------------
(***************************************************************************)
(* updateRepository                                                        *)
(***************************************************************************)
ValidateRepo(j) ==
    /\ pc[j] = "validate"
    /\ Goto(j, IF copy = None THEN "clone" ELSE "fetch")
    /\ UNCHANGED <<outside, requests, history, copy, installed, inst>>

\* CanBePulled: fetch, and then merge-base --is-ancestor HEAD origin/<branch>.
\* Both need refs and do not look at the files.
Fetch(j) ==
    /\ pc[j] = "fetch"
    /\ \/ /\ copy # None
          /\ copy.state # "broken"
          /\ copy' = [copy EXCEPT !.origin = tip[copy.url]]
          /\ Goto(j, "mergeBase")
       \/ GitFails(j, "removeAll")
    /\ UNCHANGED <<outside, requests, history, installed, inst>>

MergeBase(j) ==
    /\ pc[j] = "mergeBase"
    /\ \/ copy # None /\ copy.head \in Ancestor[copy.origin] /\ Goto(j, "pull")
       \/ Goto(j, "removeAll")
    /\ UNCHANGED <<outside, requests, history, copy, installed, inst>>

\* Fast-forward to the tip, or 'Already up to date' if HEAD is at or past it.
Pulled == [copy EXCEPT !.origin = tip[copy.url],
                       !.head = IF tip[copy.url] \in Ancestor[copy.head] THEN copy.head
                                ELSE tip[copy.url]]
CanPull ==
    /\ copy # None
    /\ copy.head \in Ancestor[tip[copy.url]] \/ tip[copy.url] \in Ancestor[copy.head]

\* Faulty variant: a pull that fails is good enough.
PullOptional(j) ==
    /\ pc[j] = "pull"
    /\ Goto(j, "checkout")
    /\ (CanPull /\ copy' = Pulled) \/ UNCHANGED copy
    /\ UNCHANGED <<outside, requests, history, installed, inst>>

Pull(j) ==
    /\ pc[j] = "pull"
    /\ \/ CanPull /\ copy' = Pulled /\ Goto(j, "checkout")
       \/ GitFails(j, "removeAll")
    /\ UNCHANGED <<outside, requests, history, installed, inst>>

RemoveAll(j) ==
    /\ pc[j] = "removeAll"
    /\ \/ copy' = None /\ excuse' = "no" /\ Goto(j, "clone")
       \/ Fail(j) /\ UNCHANGED <<copy, excuse>>
    /\ UNCHANGED <<outside, requests, cut, others, installed, inst>>

\* git clone makes the directory, then writes the refs, checks the files out
\* and clones the submodules.  If it fails before the refs are there it removes
\* the directory again, later it leaves the directory.
Clone(j) ==
    /\ pc[j] = "clone"
    /\ \/ /\ copy = None
          /\ copy' = [url |-> job[j].url, head |-> tip[job[j].url], origin |-> tip[job[j].url],
                      state |-> "broken", by |-> j, md5 |-> [k \in Kind |-> None]]
          /\ excuse' = IF job[j].url # repoUrl THEN "oldJob" ELSE "no"
          /\ Goto(j, "cloning")
       \/ GitFails(j, "failed") /\ UNCHANGED excuse
    /\ UNCHANGED <<outside, requests, cut, others, installed, inst>>

CloneRefs(j) ==
    /\ pc[j] = "cloning"
    /\ \/ /\ copy # None
          /\ copy' = [copy EXCEPT !.state = "partial", !.head = tip[copy.url], !.origin = tip[copy.url]]
          /\ Goto(j, "cloneFiles")
       \/ copy' = None /\ Fail(j)
    /\ UNCHANGED <<outside, requests, history, installed, inst>>

CloneEnds(j) ==
    /\ pc[j] = "cloneFiles"
    /\ \/ copy # None /\ copy' = [copy EXCEPT !.state = "complete"] /\ Goto(j, "checkout")
       \/ GitFails(j, "failed")
    /\ UNCHANGED <<outside, requests, history, installed, inst>>

-----------------------------------------------------------------------------
(***************************************************************************)
(* checkoutRepository, installInventory, installRequirements and           *)
(* installVaultKeyFile                                                     *)
(***************************************************************************)
\* Faulty variant: a task without a commit is not told apart.
CheckoutAlways(j) ==
    /\ pc[j] = "checkout"
    /\ copy # None
    /\ copy' = [copy EXCEPT !.head = job[j].commit]
    /\ Goto(j, "userKey")
    /\ UNCHANGED <<outside, requests, history, installed, inst>>

Checkout(j) ==
    /\ pc[j] = "checkout"
    /\ \/ /\ copy # None
          /\ copy' = IF job[j].commit = None THEN copy ELSE [copy EXCEPT !.head = job[j].commit]
          /\ Goto(j, "userKey")
       \/ (copy = None \/ job[j].commit # None) /\ GitFails(j, "failed")
    /\ UNCHANGED <<outside, requests, history, installed, inst>>

InstallKey(j, role, next) ==
    \E out \in Install(role, keyType[role]) :
        /\ inst' = [inst EXCEPT ![role] = out.is]
        /\ IF out.ok THEN Goto(j, next) ELSE Fail(j)
        /\ UNCHANGED <<outside, requests, history, copy, installed>>

InstallUserKey(j)      == pc[j] = "userKey" /\ InstallKey(j, "user", "becomeKey")
InstallBecomeKey(j)    == pc[j] = "becomeKey" /\ InstallKey(j, "become", "collections")
InstallVaultKeyFile(j) == pc[j] = "vaultKey" /\ InstallKey(j, "vault", "args")

\* The content of the file of requirements, and the hash next to it.
Required(k) == IF copy = None THEN None ELSE Requires[k][copy.head]
HasRequirementsChanges(k) == copy.md5[k] # Required(k)

\* Faulty variant: the error of ansible-galaxy is lost.
GalaxyUnchecked(j, k, skip, store) ==
    /\ pc[j] = k
    /\ IF Required(k) = None \/ ~ HasRequirementsChanges(k)
       THEN Goto(j, skip) /\ UNCHANGED <<installed, cut, others>>
       ELSE /\ cut' = [cut EXCEPT ![k] = TRUE]
            /\ others' = [others EXCEPT ![k] = FALSE]
            /\ installed' \in {[installed EXCEPT ![k] = v] : v \in {Required(k), "mixed"}}
            /\ Goto(j, store)
    /\ UNCHANGED <<outside, requests, copy, inst, excuse>>

\* runGalaxy with HOME set to the directory of all templates, and --force.
Galaxy(j, k, skip, store) ==
    /\ pc[j] = k
    /\ IF Required(k) = None \/ ~ HasRequirementsChanges(k)
       THEN Goto(j, skip) /\ UNCHANGED <<installed, cut, others>>
       ELSE /\ cut' = [cut EXCEPT ![k] = TRUE]
            /\ others' = [others EXCEPT ![k] = FALSE]
            /\ \/ installed' = [installed EXCEPT ![k] = Required(k)] /\ Goto(j, store)
               \/ installed' = [installed EXCEPT ![k] = "mixed"] /\ Fail(j)
    /\ UNCHANGED <<outside, requests, copy, inst, excuse>>

WriteMD5Hash(j, k, stored, next) ==
    /\ pc[j] = stored
    /\ IF Required(k) = None THEN Fail(j) /\ UNCHANGED <<copy, cut>>
       ELSE /\ copy' = [copy EXCEPT !.md5[k] = Required(k)]
            /\ cut' = [cut EXCEPT ![k] = FALSE]
            /\ Goto(j, next)
    /\ UNCHANGED <<outside, requests, others, installed, inst, excuse>>

InstallCollectionsRequirements(j) ==
    \/ Galaxy(j, "collections", "roles", "collectionsMd5")
    \/ WriteMD5Hash(j, "collections", "collectionsMd5", "roles")

InstallRolesRequirements(j) ==
    \/ Galaxy(j, "roles", "vaultKey", "rolesMd5")
    \/ WriteMD5Hash(j, "roles", "rolesMd5", "vaultKey")

-----------------------------------------------------------------------------
(***************************************************************************)
(* The arguments and the playbook; from here on destroyKeys is deferred.   *)
(***************************************************************************)
\* A process does not start in a directory that is gone.
GetPlaybookArgs(j) ==
    /\ pc[j] = "args"
    /\ \/ copy # None /\ Goto(j, "play")
       \/ Goto(j, "destroy")
    /\ UNCHANGED <<outside, requests, history, copy, installed, inst>>

\* The playbook ends, well or not, or is killed.
RunPlaybook(j) ==
    /\ pc[j] = "play"
    /\ Goto(j, "destroy")
    /\ UNCHANGED <<outside, requests, history, copy, installed, inst>>

\* Destroy removes the file or closes the agent, which has to listen.
Destroy(x) == IF x = "deaf" THEN x ELSE "none"

DestroyKeys(j) ==
    /\ pc[j] = "destroy"
    /\ inst' = [role \in Role |-> Destroy(inst[role])]
    /\ Goto(j, "ended")
    /\ UNCHANGED <<outside, requests, history, copy, installed>>

-----------------------------------------------------------------------------
(***************************************************************************)
(* Requests.  UpdateRepository writes the row and then, if the URL has     *)
(* changed, removes the copies; if that fails it is only logged.           *)
(***************************************************************************)
ReadRepository(r, u) ==
    /\ upc[r] = "new"
    /\ upd' = [upd EXCEPT ![r] = [old |-> repoUrl, new |-> u]]
    /\ upc' = [upc EXCEPT ![r] = "read"]
    /\ UNCHANGED <<outside, repoUrl, history, copy, installed, control, inst>>

\* Faulty variant: the copies are removed first.
WriteRepositoryLast(r) ==
    /\ \/ upc[r] = "read" /\ upc' = [upc EXCEPT ![r] = "written"]
          /\ copy' = None /\ excuse' = "no" /\ UNCHANGED repoUrl
       \/ upc[r] = "written" /\ upc' = [upc EXCEPT ![r] = "done"]
          /\ repoUrl' = upd[r].new /\ UNCHANGED <<copy, excuse>>
    /\ UNCHANGED <<outside, upd, cut, others, installed, control, inst>>

WriteRepository(r) ==
    /\ upc[r] = "read"
    /\ repoUrl' = upd[r].new
    /\ upc' = [upc EXCEPT ![r] = IF upd[r].old # upd[r].new THEN "written" ELSE "done"]
    /\ upd' = [upd EXCEPT ![r] = None]
    /\ excuse' = IF repoUrl # upd[r].old THEN "otherUpdate" ELSE excuse
    /\ UNCHANGED <<outside, cut, others, copy, installed, control, inst>>

ClearCache(r) ==
    /\ upc[r] = "written"
    /\ upc' = [upc EXCEPT ![r] = "done"]
    /\ \/ copy' = None /\ excuse' = "no"
       \/ copy # None /\ UNCHANGED copy /\ excuse' = "notCleared"
    /\ UNCHANGED <<outside, repoUrl, upd, cut, others, installed, control, inst>>

\* UpdateKey removes the copies of the repositories with that key.
UpdateKey ==
    /\ copy # None
    /\ copy' = None
    /\ excuse' = "no"
    /\ UNCHANGED <<outside, requests, cut, others, installed, control, inst>>

\* Somebody pushes, with or without --force.
Push(u, c) ==
    /\ c # tip[u]
    /\ pushes < MaxPushes
    /\ pushes' = pushes + 1
    /\ tip' = [tip EXCEPT ![u] = c]
    /\ tips' = IF tips = {} THEN {} ELSE tips \cup {<<u, c>>}
    /\ UNCHANGED <<installs, keyType, requests, history, copy, installed, pc, job, inst>>

\* A job of another template installs its requirements, wholly or in part.
OtherGalaxy(k, v) ==
    /\ installs < MaxInstalls
    /\ installs' = installs + 1
    /\ installed' = [installed EXCEPT ![k] = v]
    /\ others' = [others EXCEPT ![k] = TRUE]
    /\ UNCHANGED <<tip, pushes, keyType, requests, control, cut, excuse, copy, inst>>

\* The process dies, with its jobs and requests; the files stay.
Crash ==
    /\ pc' = [j \in Job |-> IF pc[j] \in Working \cup {"waiting"} THEN "dead" ELSE pc[j]]
    /\ upc' = [r \in Update |-> IF upc[r] = "new" THEN "new" ELSE "done"]
    /\ excuse' = IF \E r \in Update : upc[r] = "written" THEN "crash" ELSE excuse
    /\ job' = [j \in Job |-> None]
    /\ upd' = [r \in Update |-> None]
    /\ tips' = {}
    /\ inst' = NoKeys
    /\ UNCHANGED <<outside, repoUrl, cut, others, copy, installed>>

UpdateRepositoryOf(j) ==
    \/ ValidateRepo(j) \/ Fetch(j) \/ MergeBase(j) \/ Pull(j)
    \/ RemoveAll(j) \/ Clone(j) \/ CloneRefs(j) \/ CloneEnds(j)

PrepareRun(j) ==
    \/ UpdateRepositoryOf(j) \/ Checkout(j)
    \/ InstallUserKey(j) \/ InstallBecomeKey(j)
    \/ InstallCollectionsRequirements(j) \/ InstallRolesRequirements(j)
    \/ InstallVaultKeyFile(j)

JobStep(j) ==
    \/ \E c \in Commit \cup {None} : PopulateDetails(j, c)
    \/ Run(j) \/ PrepareRun(j) \/ GetPlaybookArgs(j) \/ RunPlaybook(j) \/ DestroyKeys(j)

Next ==
    \/ \E j \in Job : JobStep(j)
    \/ \E r \in Update : (\E u \in Url : ReadRepository(r, u)) \/ WriteRepository(r) \/ ClearCache(r)
    \/ \E u \in Url, c \in Commit : Push(u, c)
    \/ \E k \in Kind, v \in Foreign : OtherGalaxy(k, v)
    \/ UpdateKey \/ Crash

Spec == Init /\ [][Next]_vars

-----------------------------------------------------------------------------
(***************************************************************************)
(* Properties.                                                             *)
(***************************************************************************)

\* The commit lies between two tips the branch has had since the run began.
Current(u, c) ==
    \E a, b \in Commit : {<<u, a>>, <<u, b>>} \subseteq tips /\ a \in Ancestor[c] /\ c \in Ancestor[b]

\* A playbook starts on the commit the task names, or on one between two tips
\* the branch at the copy's URL has had since the run began, whatever an earlier
\* run has checked out, left half cloned or failed to pull; and if files are
\* missing, then because the clone of an earlier job failed or died once the
\* refs were written, which fetch and pull do not notice (updateRepository,
\* checkoutRepository).
PlaysItsCommit ==
    [][\A j \in Job : pc[j] # "play" /\ pc'[j] = "play" =>
        /\ copy # None /\ copy.state # "broken"
        /\ copy.state = "partial" => copy.by # j /\ pc[copy.by] \in {"failed", "dead"}
        /\ IF job[j].commit # None THEN copy.head = job[j].commit
                                   ELSE Current(copy.url, copy.head)]_vars

\* When a playbook starts, the requirements of its commit are installed, unless
\* an earlier galaxy run did not get as far as storing its hash, or another
\* template has installed its own in the same place since this template's last
\* galaxy run: a skipped installation is one that was made (RunGalaxy,
\* hasRequirementsChanges, writeMD5Hash).
RequirementsInstalled ==
    [][\A j \in Job : pc[j] # "play" /\ pc'[j] = "play" =>
        \A k \in Kind : Required(k) # None /\ ~ cut[k] /\ ~ others[k] =>
            installed[k] = Required(k)]_vars

\* A playbook runs with every key its template and inventory name installed in
\* the way the role asks for, and destroyKeys never closes an agent that has
\* not listened, which would be a panic (Install, SshAgent.Close on a nil
\* channel): whichever installation failed, the run did not get that far.
KeysInOrder ==
    \A j \in Job :
        /\ pc[j] = "play" => \A role \in Role :
              Good(inst[role]) \in Install(role, keyType[role])
        /\ pc[j] = "destroy" => \A role \in Role : inst[role] # "deaf"

\* A working copy of another URL than the repository's is about to be removed,
\* or there is one of four reasons: a task created before the change has cloned
\* it, another update came between, removing it failed, or the process died
\* before it could (UpdateRepository, ClearCache).
OldCopies ==
    copy # None /\ copy.url # repoUrl => excuse # "no" \/ \E r \in Update : upc[r] = "written"

=============================================================================
