--------------------------- MODULE DeprovisionHook ---------------------------
(***************************************************************************)
(* The teardown of an AnsibleBindingVM: run its spec.onDeleted hook if its *)
(* VirtualMachine is gone, hand a surviving AWX inventory host back as it  *)
(* was, delete an owned one, report, and release the finalizer.            *)
(*                                                                         *)
(* All children here hold the same object name, one after the other: the   *)
(* name is the claim on one VM name, and one work queue key, so one pass   *)
(* at a time works on it.  Each call a pass makes is a step.               *)
(*                                                                         *)
(* What provisioning left behind (the recorded instance, the host, a job   *)
(* still running) is where the first child starts; a replacement starts    *)
(* with nothing, its VM not being ready.                                   *)
(***************************************************************************)
EXTENDS Naturals, Sequences, FiniteSets

CONSTANTS
    Child,        \* AnsibleBindingVM objects, by UID; all of one name
    First,        \* the one that may exist at the start
    VM, VMOf,     \* VirtualMachines by UID, and the one that owns each child
    Hook,         \* what spec.onDeleted may say: "none", "ManagedHost", "Template"
    Endpoint,     \* AWX instances a connection may point at
    Home,         \* the one it points at to begin with
    None,         \* no child, no endpoint
    MayCrash,     \* whether the controller may be restarted
    Given,        \* what a host's own ansible_connection may be: "unset", "custom"
    MaxEdits,     \* bound on edits of the policy, the connection and the inventory
    MayRecreate,  \* whether a host may be replaced by another of its name by hand
    MayPurge      \* whether AWX may delete the record of an ended job

ASSUME TeardownAssumption ==
    /\ First \in Child /\ VMOf \in [Child -> VM]
    /\ Hook \subseteq {"none", "ManagedHost", "Template"}
    /\ Home \in Endpoint /\ None \notin Child /\ None \notin Endpoint
    /\ Given \subseteq {"unset", "custom"}
    /\ MaxEdits \in Nat /\ MayCrash \in BOOLEAN
    /\ MayRecreate \in BOOLEAN /\ MayPurge \in BOOLEAN

VARIABLES
    hook,     \* spec.onDeleted, which nothing changes in a terminating child
    obj,      \* the API server's AnsibleBindingVM objects, by UID
    cache,    \* the informer's copy of the name
    pass,     \* the reconcile pass running on the name
    vms,      \* the VirtualMachines that are gone
    conn,     \* the endpoint the AWXConnection names now; None when it is gone
    host,     \* AWX: what holds the child's host name in the inventory, per instance
    jobs,     \* AWX: the hook template's jobs on each instance
    prov,     \* the provisioning job of each child, as AWX knows it
    req,      \* each child's last launch request, as the network and AWX hold it
    overdue,  \* children whose hook's deadline has passed
    reported, \* the outcome last reported of each child's hook
    excused,  \* children whose report said the host was out of reach
    edits

vars == <<hook, obj, cache, pass, vms, conn, host, jobs, prov, req, overdue,
          reported, excused, edits>>
awxVars == <<host, jobs, prov, req>>
envVars == <<hook, vms, conn, overdue, edits>>
outVars == <<reported, excused>>

-----------------------------------------------------------------------------
(* Data *)

\* isTerminalHookPhase
Done == {"Succeeded", "Failed", "TimedOut", "Skipped"}

\* Values of ansible_connection on a host; "local" is the hook's override.
Connection == {"unset", "custom", "local"}

\* status.deprovision.  Phase "none" is its absence: a record is opened with
\* its clock.  The mode it records is the spec's, which does not change.
Dep == [phase : {"none", "Pending", "Launching", "Running"} \cup Done,
        job : Nat, ep : Endpoint \cup {None}, narrowed : BOOLEAN,
        pinned : BOOLEAN, pinId : Nat, pinEp : Endpoint \cup {None},
        prior : Connection]
NoDep == [phase |-> "none", job |-> 0, ep |-> None, narrowed |-> FALSE,
          pinned |-> FALSE, pinId |-> 0, pinEp |-> None, prior |-> "unset"]

\* What status says of provisioning: the instance, written with the host's
\* inventory and name, and the last job's status.
Facts == [ep : Endpoint \cup {None}, job : {"none", "running", "ended"}]
NoFacts == [ep |-> None, job |-> "none"]

Object == [phase : {"none", "live", "gone"}, deleting : BOOLEAN, fin : BOOLEAN,
           retain : BOOLEAN, facts : Facts, dep : Dep,
           owed : BOOLEAN]       \* it was its VM's end that deleted it
NoObject == [phase |-> "none", deleting |-> FALSE, fin |-> FALSE, retain |-> FALSE,
             facts |-> NoFacts, dep |-> NoDep, owed |-> FALSE]

Copy == [uid : Child \cup {None}, deleting : BOOLEAN, fin : BOOLEAN,
         retain : BOOLEAN, facts : Facts]

\* "was" is the value its owner gave the variable.  Ids are not reused.
Host == [id : Nat, owner : {"none", "ours", "foreign", "hand"},
         was : Connection \ {"local"}, conn : Connection]
NoHost == [id |-> 0, owner |-> "none", was |-> "unset", conn |-> "unset"]

\* "narrowed": AWX dropped the limit it was sent.  "kept": its record is there.
Job == [by : Child, status : {"running", "successful", "failed"},
        narrowed : BOOLEAN, kept : BOOLEAN]

PC == {"idle", "read", "connect", "poll", "find", "decide", "launch", "pin",
       "submit", "answer", "lost", "restore", "delete", "report", "release"}

Pass == [pc : PC, uid : Child \cup {None}, retain : BOOLEAN, facts : Facts,
         dep : Dep, ep : Endpoint \cup {None}, host : Host,
         lost : BOOLEAN]      \* the host could not be looked up

NoPass == [pc |-> "idle", uid |-> None, retain |-> FALSE, facts |-> NoFacts,
           dep |-> NoDep, ep |-> None, host |-> NoHost, lost |-> FALSE]

Request == [state : {"none", "sent", "accepted", "refused"},
            ep : Endpoint \cup {None}, job : Nat]
NoRequest == [state |-> "none", ep |-> None, job |-> 0]

-----------------------------------------------------------------------------
(* Reading the world *)

Holders == {c \in Child : obj[c].phase = "live"}
Holder == IF Holders = {} THEN None ELSE CHOOSE c \in Holders : TRUE

\* Under a hook a pass reads the spec and status live, and of the informer's
\* copy only who holds the name, and how.
Snapshot ==
    IF Holder = None
    THEN [uid |-> None, deleting |-> FALSE, fin |-> FALSE, retain |-> FALSE,
          facts |-> NoFacts]
    ELSE LET o == obj[Holder]
         IN  [uid |-> Holder, deleting |-> o.deleting, fin |-> o.fin,
              retain |-> hook = "none" /\ o.retain,
              facts |-> IF hook = "none" THEN o.facts ELSE NoFacts]

\* Edits count while there is a teardown for them to disturb.
MayEdit == edits < MaxEdits /\ \E c \in Child : obj[c].deleting

\* Absent, being deleted, or another UID under the name: all the same here.
vmIsGone(c) == VMOf[c] \in vms

\* Mutant: only provisioning's record of the instance is looked at.
ProvisioningEndpoint(facts, dep) == facts.ep

\* The instance the child's external state is on, as far as it is recorded.
recordedAWXEndpoint(facts, dep) ==
    CASE facts.ep # None  -> facts.ep
      [] facts.ep = None /\ dep.pinEp # None -> dep.pinEp
      [] OTHER -> dep.ep

Exists(h) == h.owner # "none"

\* What a hook's record says once AWX is out of reach for good.
hooklessOutcome(dep) ==
    CASE dep.phase \in {"none", "Pending"} /\ dep.job = 0 ->
           [NoDep EXCEPT !.phase = "Skipped"]
      [] dep.phase \in Done -> dep
      [] OTHER -> [dep EXCEPT !.phase = "Failed"]

skipHook(dep) == [dep EXCEPT !.phase = "Skipped"]

-----------------------------------------------------------------------------
(* The objects' own life: their binding, the VM, the informer, the process *)

\* The binding creates a child when its cache shows none under the name; the
\* API server lets one object hold it.  A VM that replaced another is there
\* only once the other is gone.
CreateChild(c) ==
    /\ obj[c].phase = "none" /\ Holder = None /\ cache.uid = None
    /\ VMOf[c] \notin vms
    /\ \A d \in Child : obj[d].phase # "none" => VMOf[d] \in vms \cup {VMOf[c]}
    /\ obj' = [obj EXCEPT ![c].phase = "live"]
    /\ UNCHANGED <<cache, pass, awxVars, outVars, envVars>>

\* The binding detaches the VM, or the garbage collector follows its end.
DeleteChild(c) ==
    /\ obj[c].phase = "live" /\ ~obj[c].deleting
    /\ obj' = [obj EXCEPT ![c] =
         IF @.fin THEN [@ EXCEPT !.deleting = TRUE, !.owed = vmIsGone(c)]
                  ELSE [NoObject EXCEPT !.phase = "gone"]]
    /\ UNCHANGED <<cache, pass, awxVars, outVars, envVars>>

VMGoes(v) ==
    /\ v \notin vms
    /\ \E c \in Child : VMOf[c] = v /\ obj[c].phase = "live"
    /\ vms' = vms \cup {v}
    /\ UNCHANGED <<hook, obj, cache, pass, conn, awxVars, overdue, outVars, edits>>

\* deleteBindingChild copies a changed cleanupPolicy into a terminating child.
SetPolicy(c) ==
    /\ MayEdit /\ obj[c].deleting
    /\ edits' = edits + 1
    /\ obj' = [obj EXCEPT ![c].retain = ~@]
    /\ UNCHANGED <<hook, cache, pass, vms, conn, awxVars, overdue, outVars>>

SyncCache ==
    /\ cache # Snapshot
    /\ cache' = Snapshot
    /\ UNCHANGED <<obj, pass, awxVars, outVars, envVars>>

Crash ==
    /\ MayCrash
    /\ pass' = NoPass /\ cache' = Snapshot
    /\ UNCHANGED <<hook, obj, vms, conn, awxVars, overdue, outVars, edits>>

Repoint ==
    /\ MayEdit
    /\ edits' = edits + 1
    /\ conn' \in (Endpoint \cup {None}) \ {conn}
    /\ UNCHANGED <<hook, obj, cache, pass, vms, awxVars, overdue, outVars>>

\* The deadline startHookClock wrote passes.
Elapse(c) ==
    /\ obj[c].phase = "live" /\ obj[c].dep.phase # "none"
    /\ c \notin overdue
    /\ overdue' = overdue \cup {c}
    /\ UNCHANGED <<hook, obj, cache, pass, vms, conn, awxVars, outVars, edits>>

-----------------------------------------------------------------------------
(* AWX on its own *)

\* The launch reaches AWX, perhaps long after its sender gave up on it, and
\* perhaps without the limit it was sent with.
AWXLaunch(c) ==
    LET e == req[c].ep IN
    /\ req[c].state = "sent"
    /\ \E n \in {FALSE, hook = "ManagedHost"} :
         jobs' = [jobs EXCEPT ![e] =
           Append(@, [by |-> c, status |-> "running", narrowed |-> n, kept |-> TRUE])]
    /\ req' = [req EXCEPT ![c].state = "accepted", ![c].job = Len(jobs[e]) + 1]
    /\ UNCHANGED <<obj, cache, pass, host, prov, outVars, envVars>>

AWXRefuse(c) ==
    /\ req[c].state = "sent"
    /\ req' = [req EXCEPT ![c].state = "refused"]
    /\ UNCHANGED <<obj, cache, pass, host, jobs, prov, outVars, envVars>>

\* Once its child is gone nobody asks how a job does.
JobEnds(e, j) ==
    /\ jobs[e][j].status = "running" /\ obj[jobs[e][j].by].phase = "live"
    /\ \E s \in {"successful", "failed"} : jobs' = [jobs EXCEPT ![e][j].status = s]
    /\ UNCHANGED <<obj, cache, pass, host, prov, req, outVars, envVars>>

PurgeJob(e, j) ==
    /\ MayPurge /\ obj[jobs[e][j].by].phase = "live"
    /\ jobs[e][j].status # "running" /\ jobs[e][j].kept
    /\ jobs' = [jobs EXCEPT ![e][j].kept = FALSE]
    /\ UNCHANGED <<obj, cache, pass, host, prov, req, outVars, envVars>>

ProvisioningEnds(c) ==
    /\ prov[c] = "running" /\ obj[c].phase = "live"
    /\ prov' = [prov EXCEPT ![c] = "ended"]
    /\ UNCHANGED <<obj, cache, pass, host, jobs, req, outVars, envVars>>

\* Somebody deletes the host by hand, takes it over, or puts another one of
\* the same name there.
EditInventory(e) ==
    /\ MayEdit /\ e = conn
    /\ Exists(host[e])
    /\ edits' = edits + 1
    /\ \/ host' = [host EXCEPT ![e] = [NoHost EXCEPT !.id = host[e].id]]
       \/ \E o \in {"foreign", "hand"} : host' = [host EXCEPT ![e].owner = o]
       \/ /\ MayRecreate
          /\ host' = [host EXCEPT ![e] = [NoHost EXCEPT !.id = host[e].id + 1,
                                                        !.owner = "hand"]]
    /\ UNCHANGED <<hook, obj, cache, pass, vms, conn, jobs, prov, req, overdue,
                   outVars>>

-----------------------------------------------------------------------------
(* A pass over the terminating child *)

\* A status write goes to the name, whoever holds it now, and to nobody
\* without complaint.  A pass with no hook has nothing to write.
Written(dep, facts) ==
    IF Holder = None \/ dep.phase = "none" THEN obj
    ELSE [obj EXCEPT ![Holder].dep = dep, ![Holder].facts = facts]

\* The write is made and the pass goes on; or it fails, perhaps only in its
\* answer, and the pass ends to be tried again.
Persists(dep, facts, next) ==
    \/ obj' = Written(dep, facts) /\ pass' = next
    \/ obj' \in {obj, Written(dep, facts)} /\ pass' = NoPass

\* Everything the release of a child looks at, before any call is made.
cleanupAnsibleBindingVM ==
    /\ pass.pc = "idle" /\ cache.uid # None /\ cache.deleting /\ cache.fin
    /\ pass' = [NoPass EXCEPT
         !.pc = CASE hook # "none" -> "read"
                  [] hook = "none" /\ cache.retain -> "release"
                  [] OTHER -> "connect",
         !.uid = cache.uid, !.retain = cache.retain, !.facts = cache.facts]
    /\ UNCHANGED <<obj, cache, awxVars, outVars, envVars>>

\* Mutant: the deadline is left to the launch path.
ClockWithoutTimeout ==
    /\ pass.pc = "read"
    /\ IF Holder = None
       THEN pass' = [pass EXCEPT !.pc = "release"] /\ UNCHANGED obj
       ELSE LET o == obj[Holder]
                opened == IF o.dep.phase # "none" THEN o.dep
                          ELSE [NoDep EXCEPT !.phase = "Pending"]
            IN  Persists(opened, o.facts,
                         [pass EXCEPT !.pc = "connect", !.uid = Holder,
                            !.retain = o.retain, !.facts = o.facts, !.dep = opened])
    /\ UNCHANGED <<cache, awxVars, outVars, envVars>>

\* The live re-read, by name; the clock, on its first sight; the deadline.
startHookClock ==
    /\ pass.pc = "read"
    /\ IF Holder = None
       THEN pass' = [pass EXCEPT !.pc = "release"] /\ UNCHANGED obj
       ELSE LET o == obj[Holder]
                opened == IF o.dep.phase # "none" THEN o.dep
                          ELSE [NoDep EXCEPT !.phase = "Pending"]
                timed == IF Holder \in overdue /\ opened.phase \notin Done
                         THEN [opened EXCEPT !.phase = "TimedOut"] ELSE opened
            IN  Persists(opened, o.facts,
                         [pass EXCEPT !.pc = "connect", !.uid = Holder,
                            !.retain = o.retain, !.facts = o.facts, !.dep = timed])
    /\ UNCHANGED <<cache, awxVars, outVars, envVars>>

\* AWX, or the inventory, is out of reach for good: report, and release.
finishHookless ==
    /\ pass' = [pass EXCEPT !.pc = "report",
                  !.dep = IF hook = "none" THEN @ ELSE hooklessOutcome(@)]
    /\ excused' = excused \cup {pass.uid}

\* The connection, and whether it still names the recorded instance.
Connect ==
    LET recorded == recordedAWXEndpoint(pass.facts, pass.dep) IN
    /\ pass.pc = "connect"
    /\ IF conn = None \/ (recorded # None /\ recorded # conn)
       THEN finishHookless
       ELSE /\ pass' = [pass EXCEPT !.ep = conn,
                 !.pc = IF pass.dep.job # 0 /\ pass.dep.phase \notin Done
                        THEN "poll" ELSE "find"]
            /\ UNCHANGED excused
    /\ UNCHANGED <<obj, cache, awxVars, reported, envVars>>

\* Mutant: AWX's word for the job's status becomes the hook's phase.
PollUnmapped ==
    /\ pass.pc = "poll"
    /\ pass' = [pass EXCEPT !.pc = "find",
                  !.dep.phase = jobs[pass.ep][pass.dep.job].status]
    /\ UNCHANGED <<obj, cache, awxVars, outVars, envVars>>

\* Mutant: that AWX dropped the limit is forgotten.
PollForgetsNarrowing ==
    LET j == jobs[pass.ep][pass.dep.job] IN
    /\ pass.pc = "poll" /\ j.kept
    /\ IF j.status = "running"
       THEN Persists([pass.dep EXCEPT !.phase = "Running"], pass.facts, NoPass)
       ELSE /\ pass' = [pass EXCEPT !.pc = "find",
                 !.dep.phase = IF j.status = "successful" THEN "Succeeded" ELSE "Failed"]
            /\ UNCHANGED obj
    /\ UNCHANGED <<cache, awxVars, outVars, envVars>>

\* Mutant: a job that has not succeeded has failed.
PollDoesNotWait ==
    LET j == jobs[pass.ep][pass.dep.job] IN
    /\ pass.pc = "poll" /\ j.kept
    /\ pass' = [pass EXCEPT !.pc = "find",
         !.dep.phase = IF j.status = "successful" /\ ~pass.dep.narrowed
                       THEN "Succeeded" ELSE "Failed"]
    /\ UNCHANGED <<obj, cache, awxVars, outVars, envVars>>

\* A launch AWX narrowed is no success, however well the job ran.
pollDeprovisionJob ==
    LET d == pass.dep
        j == jobs[pass.ep][d.job]
    IN
    /\ pass.pc = "poll"
    /\ IF d.ep # pass.ep
       THEN pass' = [pass EXCEPT !.pc = "find", !.dep.phase = "Failed"] /\ UNCHANGED obj
       ELSE /\ j.kept
            /\ IF j.status = "running"
               THEN Persists([d EXCEPT !.phase = "Running"], pass.facts, NoPass)
               ELSE /\ pass' = [pass EXCEPT !.pc = "find",
                         !.dep.phase = IF j.status = "successful" /\ ~d.narrowed
                                       THEN "Succeeded" ELSE "Failed"]
                    /\ UNCHANGED obj
    /\ UNCHANGED <<cache, awxVars, outVars, envVars>>

-----------------------------------------------------------------------------
(* Where a pass goes once the hook has had its turn *)

Ours(h) == Exists(h) /\ h.owner = "ours"

\* A host that outlives this child is handed back as it was found.
Survives(p) == Exists(p.host) /\ (p.retain \/ ~Ours(p.host))

Unpinned(dep) == [dep EXCEPT !.pinned = FALSE, !.prior = "unset"]

AfterRestore(p) ==
    [p EXCEPT !.pc = IF ~p.retain /\ Ours(p.host) THEN "delete" ELSE "report"]

\* The override comes off the host it was put on, and needs no call if it is
\* not there; another host of the name is left alone.
AfterHook(p) ==
    CASE p.lost -> [p EXCEPT !.pc = "lost"]
      [] ~p.lost /\ ~(p.dep.pinned /\ Survives(p)) -> AfterRestore(p)
      [] OTHER -> IF p.dep.pinId # p.host.id \/ p.host.conn = p.dep.prior
                  THEN AfterRestore([p EXCEPT !.dep = Unpinned(@)])
                  ELSE [p EXCEPT !.pc = "restore"]

-----------------------------------------------------------------------------
(* The inventory host *)

\* By name, whatever id status has.
discoverCleanupHost ==
    /\ pass.pc = "find"
    /\ LET h == IF Exists(host[pass.ep]) THEN host[pass.ep] ELSE NoHost
           p == [pass EXCEPT !.pc = "decide", !.host = h]
       IN  pass' = IF hook = "none" THEN AfterHook(p) ELSE p
    /\ UNCHANGED <<obj, cache, awxVars, outVars, envVars>>

\* Status has no inventory, and the template that would name it is gone.
InventoryGone ==
    /\ pass.pc = "find" /\ pass.facts.ep = None
    /\ finishHookless
    /\ UNCHANGED <<obj, cache, awxVars, reported, envVars>>

\* The host cannot be looked up, and will not be deleted: report, and release.
releaseWithoutHost(dep) ==
    /\ pass' = [pass EXCEPT !.pc = "report", !.dep = dep]
    /\ excused' = excused \cup {pass.uid}

\* Mutant: a hook still owed its run is not looked for.
LookupFailsForgetsHook ==
    /\ pass.pc = "find"
    /\ IF pass.retain THEN releaseWithoutHost(pass.dep) /\ UNCHANGED obj
       ELSE /\ pass' = NoPass /\ obj' \in {obj, Written(pass.dep, pass.facts)}
            /\ UNCHANGED excused
    /\ UNCHANGED <<cache, awxVars, reported, envVars>>

\* The lookup fails and a retry might not: what happens then depends on
\* whether the hook is still owed its run, and what it is aimed at.
LookupFails ==
    LET owed == pass.dep.phase \notin Done /\ hook # "none"
        gone == vmIsGone(pass.uid)
        dep == IF owed THEN skipHook(pass.dep) ELSE pass.dep
    IN
    /\ pass.pc = "find"
    /\ \/ /\ owed /\ hook = "Template"
          /\ pass' = [pass EXCEPT !.pc = "decide", !.lost = TRUE, !.host = NoHost]
          /\ UNCHANGED <<obj, excused>>
       \/ /\ owed /\ hook = "ManagedHost" /\ gone
          /\ pass' = NoPass
          /\ UNCHANGED <<obj, excused>>
       \/ /\ ~owed \/ (hook = "ManagedHost" /\ ~gone)
          /\ IF pass.retain THEN releaseWithoutHost(dep) /\ UNCHANGED obj
             ELSE /\ pass' = NoPass /\ obj' \in {obj, Written(dep, pass.facts)}
                  /\ UNCHANGED excused
    /\ UNCHANGED <<cache, awxVars, reported, envVars>>

-----------------------------------------------------------------------------
(* The hook *)

\* Mutant: a Template hook is held to what only a ManagedHost hook needs.
SkippedWithoutHost ==
    ~vmIsGone(pass.uid) \/ ~Exists(pass.host) \/ pass.host.owner = "foreign"

\* A hook is for a VM that is gone and, under ManagedHost, for a host that is
\* there and not another binding's.
Skipped ==
    \/ ~vmIsGone(pass.uid)
    \/ hook = "ManagedHost" /\ (~Exists(pass.host) \/ pass.host.owner = "foreign")

HookSkipped ==
    /\ pass.pc = "decide" /\ Skipped
    /\ pass' = AfterHook([pass EXCEPT !.dep = skipHook(@)])
    /\ UNCHANGED <<obj, cache, awxVars, outVars, envVars>>

\* Mutant: a launch without an answer is tried again.
LaunchingIsRetried(dep, late) ==
    IF dep.phase \notin Done /\ late THEN [dep EXCEPT !.phase = "TimedOut"] ELSE dep

\* The hook finished earlier; or a launch's answer never reached the record,
\* and is not tried again; or its time is up.
HookIsOver(dep, late) ==
    CASE dep.phase \in Done -> dep
      [] dep.phase = "Launching" -> [dep EXCEPT !.phase = "Failed"]
      [] dep.phase \notin Done \cup {"Launching"} /\ late -> [dep EXCEPT !.phase = "TimedOut"]
      [] OTHER -> dep

\* Mutant: what status says of the provisioning job is not checked with AWX.
NeverWaits == FALSE

\* A provisioning job that still runs is waited for.
MustWait == pass.facts.job = "running" /\ prov[pass.uid] = "running"

runDeprovisionHook ==
    LET dep == HookIsOver(pass.dep, pass.uid \in overdue) IN
    /\ pass.pc = "decide" /\ ~Skipped
    /\ \/ /\ dep.phase \in Done
          /\ pass' = AfterHook([pass EXCEPT !.dep = dep])
          /\ UNCHANGED obj
       \/ /\ dep.phase \notin Done /\ MustWait
          /\ Persists([dep EXCEPT !.phase = "Pending"], pass.facts, NoPass)
       \/ /\ dep.phase \notin Done /\ ~MustWait
          /\ pass' = [pass EXCEPT !.pc = "launch",
                !.facts.job = IF @ = "running" THEN "ended" ELSE @]
          /\ UNCHANGED obj
    /\ UNCHANGED <<cache, awxVars, outVars, envVars>>

\* Mutant: recorded on every attempt.
PinRecordAnew(dep) ==
    [dep EXCEPT !.pinned = TRUE, !.pinId = pass.host.id, !.pinEp = pass.ep,
                !.prior = pass.host.conn]

\* What the override will replace is on record, once, before the override is.
PinRecord(dep) ==
    IF dep.pinned THEN dep
    ELSE [dep EXCEPT !.pinned = TRUE, !.pinId = pass.host.id, !.pinEp = pass.ep,
                     !.prior = pass.host.conn]

launchDeprovisionHook ==
    /\ pass.pc = "launch"
    /\ IF hook = "Template"
       THEN pass' = [pass EXCEPT !.pc = "submit"] /\ UNCHANGED obj
       ELSE LET dep == PinRecord(pass.dep)
                next == [pass EXCEPT !.pc = "pin", !.dep = dep]
            IN  IF pass.dep.pinned THEN pass' = next /\ UNCHANGED obj
                ELSE Persists(dep, pass.facts, next)
    /\ UNCHANGED <<cache, awxVars, outVars, envVars>>

\* The hook's template is gone or, under ManagedHost, takes no limit or is of
\* another inventory.
TemplateUnfit ==
    /\ pass.pc = "launch"
    /\ pass' = AfterHook([pass EXCEPT !.dep.phase = "Failed"])
    /\ UNCHANGED <<obj, cache, awxVars, outVars, envVars>>

\* ansible_connection: local goes on, by id; a host that says so needs no call.
SetHostVariables ==
    LET h == host[pass.ep] IN
    /\ pass.pc = "pin"
    /\ IF pass.host.conn = "local"
       THEN pass' = [pass EXCEPT !.pc = "submit"] /\ UNCHANGED host
       ELSE /\ Exists(h) /\ h.id = pass.host.id
            /\ host' = [host EXCEPT ![pass.ep].conn = "local"]
            /\ pass' \in {[pass EXCEPT !.pc = "submit", !.host.conn = "local"], NoPass}
    /\ UNCHANGED <<obj, cache, jobs, prov, req, outVars, envVars>>

\* That a launch is under way is on record before the request goes out.
submitDeprovisionHook ==
    LET dep == [pass.dep EXCEPT !.phase = "Launching", !.ep = pass.ep] IN
    /\ pass.pc = "submit"
    /\ \/ /\ obj' = Written(dep, pass.facts)
          /\ pass' = [pass EXCEPT !.pc = "answer", !.dep = dep]
          /\ req' = [req EXCEPT ![pass.uid] =
                       [state |-> "sent", ep |-> pass.ep, job |-> 0]]
       \/ /\ obj' \in {obj, Written(dep, pass.facts)}
          /\ pass' = NoPass
          /\ UNCHANGED req
    /\ UNCHANGED <<cache, host, jobs, prov, outVars, envVars>>

\* A job id, with or without a complaint about what AWX dropped.
LaunchAnswered ==
    LET r == req[pass.uid]
        dep == [pass.dep EXCEPT !.phase = "Running", !.job = r.job,
                  !.narrowed = jobs[r.ep][r.job].narrowed]
    IN
    /\ pass.pc = "answer" /\ r.state = "accepted"
    /\ Persists(dep, pass.facts, NoPass)
    /\ UNCHANGED <<cache, awxVars, outVars, envVars>>

\* No job id: a refusal, or no answer at all.
LaunchFails ==
    /\ pass.pc = "answer"
    /\ pass' = AfterHook([pass EXCEPT !.dep.phase = "Failed"])
    /\ UNCHANGED <<obj, cache, awxVars, outVars, envVars>>

-----------------------------------------------------------------------------
(* After the hook *)

\* The lookup a Template hook ran without is still owed to the host.
StillLost ==
    /\ pass.pc = "lost"
    /\ obj' \in {obj, Written(pass.dep, pass.facts)}
    /\ IF pass.retain THEN releaseWithoutHost(pass.dep)
       ELSE pass' = NoPass /\ UNCHANGED excused
    /\ UNCHANGED <<cache, awxVars, reported, envVars>>

\* By id: the host may have gone since it was looked up.
PinnedIsThere == Exists(host[pass.ep]) /\ host[pass.ep].id = pass.host.id

RestoreHostVariable ==
    /\ pass.pc = "restore"
    /\ PinnedIsThere
    /\ host' = [host EXCEPT ![pass.ep].conn = pass.dep.prior]
    /\ pass' = AfterRestore([pass EXCEPT !.dep = Unpinned(@)])
    /\ UNCHANGED <<obj, cache, jobs, prov, req, outVars, envVars>>

\* An error, or no answer: reported, not retried.
RestoreFails ==
    /\ pass.pc = "restore"
    /\ \/ UNCHANGED host
       \/ PinnedIsThere /\ host' = [host EXCEPT ![pass.ep].conn = pass.dep.prior]
    /\ pass' = AfterRestore(pass)
    /\ excused' = excused \cup {pass.uid}
    /\ UNCHANGED <<obj, cache, jobs, prov, req, reported, envVars>>

\* Deletes by id, and finding it gone is as good.
Deleted ==
    LET h == host[pass.ep] IN
    IF Exists(h) /\ h.id = pass.host.id
    THEN [host EXCEPT ![pass.ep] = [NoHost EXCEPT !.id = h.id]] ELSE host

DeleteHost ==
    /\ pass.pc = "delete"
    /\ host' = Deleted
    /\ pass' = [pass EXCEPT !.pc = "report"]
    /\ UNCHANGED <<obj, cache, jobs, prov, req, outVars, envVars>>

\* An error, or no answer; the hook's outcome is recorded before the retry.
DeleteHostFails ==
    /\ pass.pc = "delete"
    /\ host' \in {host, Deleted}
    /\ obj' \in {obj, Written(pass.dep, pass.facts)}
    /\ pass' = NoPass
    /\ UNCHANGED <<cache, jobs, prov, req, outVars, envVars>>

\* Log and Event carry the outcome whether or not status takes it.
reportHookOutcome ==
    /\ pass.pc = "report"
    /\ obj' \in {obj, Written(pass.dep, pass.facts)}
    /\ reported' = [reported EXCEPT ![pass.uid] =
                      IF pass.dep.phase = "none" THEN @ ELSE pass.dep.phase]
    /\ pass' = [pass EXCEPT !.pc = "release"]
    /\ UNCHANGED <<cache, awxVars, excused, envVars>>

-----------------------------------------------------------------------------
(* The engine around it *)

\* A conflict makes patchFinalizer re-read by name and apply the same there.
ReleaseFinalizer ==
    /\ pass.pc = "release"
    /\ pass' = NoPass
    /\ obj' = IF Holder = None THEN obj
              ELSE [obj EXCEPT ![Holder] =
                     IF @.deleting THEN [NoObject EXCEPT !.phase = "gone"]
                                   ELSE [@ EXCEPT !.fin = FALSE]]
    /\ UNCHANGED <<cache, awxVars, outVars, envVars>>

\* A child's first pass.  The API server adds no finalizer to a terminating one.
HoldFinalizer ==
    /\ pass.pc = "idle" /\ cache.uid # None /\ ~cache.deleting /\ ~cache.fin
    /\ Holder # None /\ ~obj[Holder].deleting
    /\ obj' = [obj EXCEPT ![Holder].fin = TRUE]
    /\ UNCHANGED <<cache, pass, awxVars, outVars, envVars>>

\* A read, a poll, a request or a patch fails, and the queue tries again.
StepFails ==
    /\ pass.pc \in {"read", "connect", "poll", "decide", "launch", "pin", "release"}
    /\ pass' = NoPass
    /\ UNCHANGED <<obj, cache, awxVars, outVars, envVars>>

-----------------------------------------------------------------------------
(* Specification *)

\* The first child is there, with what provisioning may have left of it, or is
\* yet to be created.  To the teardown a job that has ended is no different
\* from none.
Init ==
    /\ hook \in Hook
    /\ \/ /\ obj = [c \in Child |-> NoObject]
          /\ prov = [c \in Child |-> "none"]
       \/ \E r \in BOOLEAN, f \in {g \in Facts : /\ g.ep \in {None, Home} /\ g.job # "ended"
                                                 /\ g.job # "none" => g.ep = Home} :
            /\ obj = [c \in Child |-> IF c # First THEN NoObject
                        ELSE [NoObject EXCEPT !.phase = "live", !.fin = TRUE,
                                              !.retain = r, !.facts = f]]
            /\ prov = [c \in Child |-> IF c = First THEN f.job ELSE "none"]
    /\ \E o \in {"none", "ours", "foreign", "hand"}, w \in Given :
         host = [e \in Endpoint |->
                   CASE e = Home /\ o = "none" -> NoHost
                     [] e = Home /\ o # "none" ->
                          [id |-> 1, owner |-> o, was |-> w, conn |-> w]
                     [] OTHER -> [NoHost EXCEPT !.id = 1, !.owner = "ours"]]
    /\ cache = Snapshot
    /\ pass = NoPass
    /\ vms = {} /\ conn = Home
    /\ jobs = [e \in Endpoint |-> <<>>]
    /\ req = [c \in Child |-> NoRequest]
    /\ overdue = {} /\ excused = {}
    /\ reported = [c \in Child |-> "none"]
    /\ edits = 0

PassStep ==
    \/ cleanupAnsibleBindingVM \/ startHookClock \/ Connect \/ pollDeprovisionJob
    \/ discoverCleanupHost \/ InventoryGone \/ LookupFails
    \/ HookSkipped \/ runDeprovisionHook \/ launchDeprovisionHook \/ TemplateUnfit
    \/ SetHostVariables \/ submitDeprovisionHook \/ LaunchAnswered \/ LaunchFails
    \/ StillLost \/ RestoreHostVariable \/ RestoreFails
    \/ DeleteHost \/ DeleteHostFails \/ reportHookOutcome
    \/ ReleaseFinalizer \/ HoldFinalizer \/ StepFails

Next ==
    \/ PassStep
    \/ \E c \in Child : CreateChild(c) \/ DeleteChild(c) \/ SetPolicy(c) \/ Elapse(c)
                        \/ AWXLaunch(c) \/ AWXRefuse(c) \/ ProvisioningEnds(c)
    \/ \E v \in VM : VMGoes(v)
    \/ \E e \in Endpoint : EditInventory(e)
    \/ \E e \in Endpoint : \E j \in DOMAIN jobs[e] : JobEnds(e, j) \/ PurgeJob(e, j)
    \/ SyncCache \/ Crash \/ Repoint

Spec == Init /\ [][Next]_vars

\* Scheduling.  A worker is always there to take the next step, the informer
\* catches up, and the deadline passes.
\*
\* The calls a teardown cannot do without stop failing at some time: the
\* reads and writes of the API server and, if a host is to go, its lookup and
\* its deletion.  Every retry is rate limited and none is the last, so an
\* outage that ends is survived.  Nothing is assumed of the rest: polls,
\* templates, pins and launches may fail for ever, no job has to end, and a
\* lookup may never succeed if the host is to stay.
Outage ==
    \/ StepFails /\ pass.pc \in {"read", "connect", "decide", "release"}
    \/ startHookClock /\ pass'.pc = "idle"
    \/ LookupFails /\ ~pass.retain
    \/ DeleteHostFails

FairSpec ==
    /\ Spec
    /\ WF_vars(PassStep) /\ WF_vars(SyncCache)
    /\ \A c \in Child : WF_vars(Elapse(c))
    /\ <>[][~Outage]_vars

-----------------------------------------------------------------------------
(* Properties *)

\* Every variable keeps its type: the records of a child's status, of a pass,
\* of AWX's hosts and jobs.
TypeOK ==
    /\ hook \in Hook
    /\ obj \in [Child -> Object]
    /\ cache \in Copy
    /\ pass \in Pass
    /\ vms \subseteq VM
    /\ conn \in Endpoint \cup {None}
    /\ host \in [Endpoint -> Host]
    /\ jobs \in [Endpoint -> Seq(Job)]
    /\ prov \in [Child -> {"none", "running", "ended"}]
    /\ req \in [Child -> Request]
    /\ overdue \subseteq Child /\ excused \subseteq Child
    /\ reported \in [Child -> {"none", "Pending", "Launching", "Running"} \cup Done]
    /\ edits \in 0..MaxEdits

HookJobs(c) == UNION {{<<e, j>> : j \in {i \in DOMAIN jobs[e] : jobs[e][i].by = c}} :
                        e \in Endpoint}

\* A decommission playbook is launched at most once for a child, through
\* crashes, lost answers and failed writes: the record says Launching before
\* the request goes out, and a Launching record is never relaunched.
HookLaunchedOnce ==
    \A c \in Child :
        Cardinality(HookJobs(c)) + (IF req[c].state = "sent" THEN 1 ELSE 0) <= 1

\* A launch goes out only for a terminating child whose VM is gone and whose
\* recorded provisioning job is over: never against a VM merely relabelled,
\* never beside the playbook it undoes.
HookIsSafeToLaunch ==
    [][\A c \in Child : req[c].state # "sent" /\ req'[c].state = "sent" =>
         /\ obj[c].deleting /\ vmIsGone(c)
         /\ obj[c].facts.job = "running" => prov[c] = "ended"]_vars

Records(c) == {obj[c].dep} \cup (IF pass.uid = c THEN {pass.dep} ELSE {})

EndedWell(d) ==
    /\ d.job \in DOMAIN jobs[d.ep]
    /\ LET j == jobs[d.ep][d.job] IN j.status = "successful" /\ ~j.narrowed

\* A finished record of Succeeded, in status or about to be, is of this
\* child's own hook job, which ended well and was not launched without its
\* limit.
HookSuccessIsReal ==
    \A c \in Child : \A d \in Records(c) :
        d.phase = "Succeeded" => EndedWell(d) /\ jobs[d.ep][d.job].by = c

Leaves(c) == obj[c].deleting /\ obj'[c].phase = "gone"

\* A terminating child with a hook does not leave before an outcome of the
\* hook was reported: releasing without one is how a failed lookup once lost
\* a deregistration without a trace.
ReleasedWithOutcome ==
    [][\A c \in Child : Leaves(c) /\ hook # "none" => reported[c] \in Done]_vars

\* When a child leaves, no host still carries the hook's ansible_connection
\* override, whatever became of the policy, the marker or the host in the
\* meantime, unless the report said that it could not be reached.
PinHandedBack ==
    [][\A c \in Child : Leaves(c) /\ c \notin excused =>
         \A e \in Endpoint : Exists(host[e]) => host[e].conn = host[e].was]_vars

\* A host is not deleted under a hook job known to run on it, before the
\* hook's deadline has passed or the job was given up on as out of reach.
HostOutlivesHook ==
    [][pass.pc = "delete" /\ host' # host =>
         LET d == obj[pass.uid].dep
         IN  d.job # 0 /\ jobs[d.ep][d.job].status = "running" =>
               pass.uid \in overdue \cup excused]_vars

\* A teardown alters hosts on one AWX instance only, the one its records
\* name: a connection repointed halfway does not bring a namesake on the
\* other instance into it.
StaysOnItsInstance ==
    [][\A e \in Endpoint : pass.pc # "idle" /\ edits' = edits /\ host'[e] # host[e] =>
         LET o == obj[pass.uid]
         IN  /\ o.facts.ep \in {None, e}
             /\ o.dep.pinEp \in {None, e} /\ o.dep.ep \in {None, e}]_vars

\* A Template hook of a child deleted because its VM went is not skipped, as
\* long as AWX and its inventory stay within reach.
OwedHookIsRun ==
    [][\A c \in Child : Leaves(c) /\ obj[c].owed /\ hook = "Template" /\ c \notin excused
         => reported[c] # "Skipped"]_vars

-----------------------------------------------------------------------------
(* The invariant behind them, inductive *)

\* A name that one child has at all, and one that is taken over once.
Alone == \A c, d \in Child : c = d
Pair == \A b, c, d \in Child : b = c \/ b = d \/ c = d

OneHolder == \A c, d \in Holders : c = d

Within(f, d, e) == {f.ep, d.ep, d.pinEp} \subseteq {None, e}

\* What a record says of a job is so, and all is on one instance.
RecordOK(f, d) ==
    /\ d.phase \in {"none", "Pending", "Launching"} => d.job = 0
    /\ d.phase = "Running" => d.job # 0
    /\ d.job # 0 => /\ d.ep \in Endpoint /\ d.job \in DOMAIN jobs[d.ep]
                    /\ d.narrowed = jobs[d.ep][d.job].narrowed
    /\ d.phase = "Succeeded" => d.job # 0 /\ EndedWell(d)
    /\ \E e \in Endpoint : Within(f, d, e)

\* It is of the child's own job, which is over unless it was given up on.
OwnRecord(c, d) ==
    d.job # 0 => /\ jobs[d.ep][d.job].by = c
                 /\ d.phase \in Done => \/ jobs[d.ep][d.job].status # "running"
                                        \/ c \in overdue \cup excused

\* A job is that of its child's one request.
JobsOK ==
    \A e \in Endpoint : \A j \in DOMAIN jobs[e] :
        req[jobs[e][j].by] = [state |-> "accepted", ep |-> e, job |-> j]

RequestOK(r, c) ==
    /\ r.state # "none" => r.ep \in Endpoint
    /\ r.state = "accepted" => r.job \in DOMAIN jobs[r.ep] /\ jobs[r.ep][r.job].by = c

\* What is gone has nothing, what terminates has a finalizer, what was launched
\* for has it on record, and without a hook there is no record of one.
ChildOK(c, o) ==
    /\ o.phase = "none" => o = NoObject /\ req[c].state = "none"
    /\ o.phase = "gone" => o = [NoObject EXCEPT !.phase = "gone"]
    /\ o.phase = "live" /\ o.dep.phase \in {"none", "Pending"} => req[c].state = "none"
    /\ o.deleting => o.fin
    /\ RecordOK(o.facts, o.dep)
    /\ hook = "none" => o.dep = NoDep
    /\ Pair => OwnRecord(c, o.dep)
    /\ Alone /\ o.facts.job = "running" => prov[c] # "none"

Ending(c) == obj[c].deleting \/ obj[c].phase = "gone"

\* Who the informer's copy is of holds the name, if anybody does.
CopyOK(k) ==
    k.uid # None =>
        /\ obj[k.uid].phase # "none"
        /\ \A c \in Holders : c = k.uid
        /\ k.deleting => Ending(k.uid)
        /\ hook = "none" /\ k.uid \in Holders => k.facts.ep = obj[k.uid].facts.ep

\* Steps of a pass: on the way to a launch, with an instance, with the outcome.
Launching == {"launch", "pin", "submit"}
OnInstance == {"poll", "find", "decide", "answer", "restore", "delete"} \cup Launching
Settled == {"lost", "restore", "delete", "report"}
AtWork == OnInstance \cup Settled \cup {"connect"}

\* What a pass has in hand at its steps.
InHand(p) ==
    /\ p.pc # "idle" => p.uid \in Child
    /\ p.pc \in {"idle", "read"} => p.dep = NoDep
    /\ p.pc = "poll" => p.dep.job # 0 /\ p.dep.phase \notin Done
    /\ p.pc \in {"find", "decide"} => p.dep.job = 0 \/ p.dep.phase \in Done
    /\ p.pc \in Launching => p.dep.phase \in {"none", "Pending"}
    /\ p.pc = "answer" => p.dep.phase = "Launching" /\ p.dep.ep = p.ep
    /\ p.pc \in Launching \cup {"read", "decide", "answer", "lost", "restore"} => hook # "none"
    /\ p.pc \in Settled /\ hook # "none" => p.dep.phase \in Done
    /\ hook = "none" => p.dep = NoDep /\ ~p.lost
    /\ p.pc \in OnInstance => p.ep \in Endpoint /\ Within(p.facts, p.dep, p.ep)

\* Who is held while a pass goes on is who it is for, and was reported of before
\* it is let go.
HeldOK(p) ==
    /\ p.pc # "idle" => obj[p.uid].phase # "none"
    /\ p.pc = "read" => Ending(p.uid)
    /\ hook # "none" /\ p.pc \notin {"idle", "read"} =>
         \A c \in Holders : obj[c].fin => c = p.uid /\ (p.pc = "release" => reported[c] \in Done)

\* For whom it may launch had no launch, and nor had who took the name over.
LaunchOK(p) ==
    /\ hook # "none" /\ p.pc \in AtWork =>
         /\ p.dep.phase \in {"none", "Pending"} => req[p.uid].state = "none"
         /\ \A c \in Holders : c # p.uid => req[c].state = "none"
    /\ p.pc = "answer" => req[p.uid].state # "none" /\ req[p.uid].ep = p.ep

\* What is on record of who it is for agrees with what it has in hand.
DurableOK(p) ==
    p.uid \in Holders =>
      LET o == obj[p.uid] IN
      /\ p.pc = "connect" => /\ o.facts.ep = p.facts.ep /\ o.dep.pinEp = p.dep.pinEp
                             /\ p.dep.phase \in Done => o.dep.phase \in Done \/ p.uid \in overdue
      /\ p.pc \in {"connect", "poll"} => o.dep.job = p.dep.job /\ o.dep.ep = p.dep.ep
      /\ p.pc \in OnInstance => Within(o.facts, o.dep, p.ep)
      /\ p.pc \in OnInstance \ {"poll"} /\ o.dep.job # 0 =>
           \/ jobs[o.dep.ep][o.dep.job].status # "running"
           \/ o.dep.phase \in Done \/ p.uid \in overdue

\* Who took the name over has no other after it.
PairOK(p) ==
    /\ p.pc # "idle" => OwnRecord(p.uid, p.dep)
    /\ hook # "none" /\ p.pc \in AtWork =>
         obj[p.uid].deleting \/ \A c \in Child \ {p.uid} : obj[c].phase = "gone"

\* Who has the name alone is terminating throughout, and is launched for once
\* its VM is gone and its provisioning over.
AloneOK(p) ==
    hook # "none" =>
      /\ p.pc \in AtWork => /\ obj[p.uid].deleting
                            /\ p.facts.job = "running" => prov[p.uid] # "none"
      /\ p.pc \in {"connect", "poll", "find", "decide"} => obj[p.uid].facts = p.facts
      /\ p.pc \in Launching =>
           /\ vmIsGone(p.uid) /\ p.facts.job # "running"
           /\ obj[p.uid].facts.job = "running" => prov[p.uid] = "ended"

PassOK(p) ==
    /\ RecordOK(p.facts, p.dep) /\ InHand(p) /\ HeldOK(p) /\ LaunchOK(p) /\ DurableOK(p)
    /\ Pair => PairOK(p)
    /\ Alone => AloneOK(p)

IInv ==
    /\ TypeOK /\ OneHolder /\ JobsOK /\ CopyOK(cache) /\ PassOK(pass)
    /\ \A c \in Child : RequestOK(req[c], c) /\ ChildOK(c, obj[c])

-----------------------------------------------------------------------------
(* Promises about what readers see, and about what comes to be *)

\* "A host that won't delete can't cost the hook's outcome" (SCENARIOS.md):
\* a hook recorded as Succeeded, before a retry of the host's deletion, stays
\* so while the child exists.
HookSuccessIsKept ==
    [][\A c \in Child : obj[c].dep.phase = "Succeeded" /\ obj'[c].phase = "live" =>
         obj'[c].dep.phase = "Succeeded"]_vars

\* A deleted child goes, whatever its hook does: no playbook, no lost answer
\* and no purged job record holds it past the deadline and the retries.
TeardownCompletes ==
    \A c \in Child : obj[c].deleting ~> obj[c].phase = "gone"
=============================================================================
