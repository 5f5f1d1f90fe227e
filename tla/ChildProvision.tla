---------------------------- MODULE ChildProvision ----------------------------
(***************************************************************************)
(* The provisioning of one VM: an AnsibleBindingVM keeps an AWX inventory  *)
(* host for its VirtualMachine and launches its template once for every    *)
(* request its binding copies into its spec.  Beside it the binding's      *)
(* orphan reaper deletes hosts of the binding that no child accounts for.  *)
(*                                                                         *)
(* A pass works from the informer's copy of the child, spec and status     *)
(* together, which may lag what the pass before it wrote; its own status   *)
(* writes replace everything and carry no resourceVersion.  Each call a    *)
(* pass makes is a step.  A request is a binding generation; the re-run    *)
(* annotation is another way to make one.  A host is known by its slot,    *)
(* the inventory and the name; the name includes the connection's prefix.  *)
(***************************************************************************)
EXTENDS Naturals, Sequences, FiniteSets

CONSTANTS
    Name,         \* inventory host names
    Inventory,    \* inventories a template may belong to, as positive numbers
    Elsewhere,    \* inventories the binding's other children have recorded
    MaxGen,       \* bound on the binding's generation
    Want,         \* what each generation asks for: name, wide, retain
    Endpoint,     \* AWX instances a connection may point at
    Home,         \* the one it points at to begin with
    None,
    Leftover,     \* what may be in the inventory to begin with: "none", "ours", ...
    MaxEdits,     \* bound on what people do to the VM, the connection and AWX
    Edits,        \* and what that may be
    MaxFaults,    \* bound on crashes, failed calls and reads of a lagging copy
    MayCrash      \* whether the controller may be restarted

Owner == {"none", "ours", "foreign", "hand"}

ASSUME ProvisionAssumption ==
    /\ Inventory \subseteq Nat \ {0} /\ Elsewhere \subseteq Inventory
    /\ Inventory # {}
    /\ MaxGen \in Nat \ {0}
    /\ Want \in [1..MaxGen -> [name : Name, wide : BOOLEAN, retain : BOOLEAN]]
    /\ Home \in Endpoint /\ None \notin Endpoint
    /\ Leftover \subseteq Owner
    /\ MaxEdits \in Nat /\ MaxFaults \in Nat /\ MayCrash \in BOOLEAN
    /\ Edits \subseteq {"vm", "conn", "limit", "inventory", "host"}

VARIABLES
    obj,     \* the API server's AnsibleBindingVM: spec generation and status
    cache,   \* the informer's copy of it
    pass,    \* the reconcile pass running on it
    reap,    \* the orphan scan of its binding
    vm,      \* the VirtualMachine, which every pass reads live
    conn,    \* the instance the AWXConnection names
    tmpl,    \* AWX: the template on each instance
    tcache,  \* the template cache's entry under the connection as it is now
    host,    \* AWX: what holds each slot of each instance
    jobs,    \* AWX: the template's jobs on each instance
    edits, faults

vars == <<obj, cache, pass, reap, vm, conn, tmpl, tcache, host, jobs, edits, faults>>
envVars == <<vm, conn, tmpl, edits>>

-----------------------------------------------------------------------------
(* Data *)

\* Requests, 0 for none; a VM's addresses, 0 for none; edits counted.
Gen == 0..MaxGen
Request == 1..MaxGen
Addr == 0..2
Count == 0..MaxEdits

Slot == Inventory \X Name
NoSlot == <<0, None>>

\* status.  "job" 0 is no job; its instance and kind are recorded with it.
\* "checked": lastHostCheck is set.  "addr" 0 is no observed address.
Status == [ep : Endpoint \cup {None}, slot : Slot \cup {NoSlot}, id : Nat,
           created : BOOLEAN, job : Nat, jobEp : Endpoint \cup {None},
           jobStatus : {"none", "pending", "successful", "failed"}, gen : Gen,
           phase : {"none", "Pending", "Running", "Succeeded", "Failed"},
           checked : BOOLEAN, addr : Addr]
NoStatus == [ep |-> None, slot |-> NoSlot, id |-> 0, created |-> FALSE, job |-> 0,
             jobEp |-> None, jobStatus |-> "none", gen |-> 0, phase |-> "none",
             checked |-> FALSE, addr |-> 0]

Object == [gen : Request, st : Status]

\* A deleted host leaves its slot's last id: ids are not used again.
Host == [id : Nat, owner : Owner, addr : Addr]
NoHost == [id |-> 0, owner |-> "none", addr |-> 0]

\* "limit": the slot it was limited to, or NoSlot when it took the template's
\* own scope; "dropped": AWX left out the limit it was sent.
Job == [gen : Request, limit : Slot \cup {NoSlot}, dropped : BOOLEAN,
        status : {"pending", "successful", "failed"}]

\* "ask" is ask_limit_on_launch; inventory 0 is none.
Template == [inv : Inventory \cup {0}, ask : BOOLEAN]
NoTemplate == [inv |-> None, ask |-> FALSE]

Pass == [pc : {"idle", "poll", "connect", "retire", "delete", "intent", "upsert",
               "launch", "finish"},
         gen : Gen, was : Status, st : Status, ready : BOOLEAN, addr : Addr,
         wants : BOOLEAN, due : BOOLEAN, ep : Endpoint \cup {None},
         inv : Inventory \cup {0}, edits : Count,  \* made when it was resolved
         fresh : BOOLEAN]             \* the copy it started from was current
NoPass == [pc |-> "idle", gen |-> 0, was |-> NoStatus, st |-> NoStatus,
           ready |-> FALSE, addr |-> 0, wants |-> FALSE, due |-> FALSE, ep |-> None,
           inv |-> 0, edits |-> 0, fresh |-> TRUE]

\* Hosts are scanned for, and deleted, by slot and id.
Scan == [pc : {"idle", "confirm", "delete"}, ep : Endpoint \cup {None},
         cand : SUBSET (Slot \X Nat)]
NoScan == [pc |-> "idle", ep |-> None, cand |-> {}]

Exists(h) == h.owner # "none"
Emptied(h) == [NoHost EXCEPT !.id = h.id]
isTerminalAWXStatus(s) == s \in {"successful", "failed"}

\* Mutant: AWX's own word is taken for the phase.
PhaseAsGiven(s) == s

mapAWXStatus(s) ==
    CASE s = "successful" -> "Succeeded" [] s = "failed" -> "Failed" [] OTHER -> "Running"

MayFail == faults < MaxFaults
Fault == MayFail /\ faults' = faults + 1

-----------------------------------------------------------------------------
(* A pass: its decisions *)

\* Mutant: a run that failed is launched again.
NeedsRunUnlessSucceeded(st, gen) ==
    st.job = 0 \/ st.gen # gen \/ st.jobStatus = "failed"

needsRun(st, gen) == st.job = 0 \/ st.gen # gen

InFlight(st) == st.job # 0 /\ ~isTerminalAWXStatus(st.jobStatus)

\* Every exit goes through finish, which writes what the copy does not say.
finish(p) == IF p.st = p.was THEN NoPass ELSE [p EXCEPT !.pc = "finish"]

\* The old host is dealt with; its name stays until the new one's replaces it.
Retired(p) == [p EXCEPT !.st.id = 0, !.st.created = FALSE, !.st.slot = NoSlot]

\* A VM without an address: a run that was made keeps its phase.
NotReady(st) == IF st.job = 0 THEN [st EXCEPT !.phase = "Pending"] ELSE st

targetSlot(p) == <<p.inv, Want[p.gen].name>>
Moved(p) == p.st.slot \notin {NoSlot, targetSlot(p)}

\* The host is as it should be, or there is none to keep: the check is done,
\* and its time always says something new.
AfterHost(p) ==
    [p EXCEPT !.st.checked = TRUE, !.pc = IF p.wants THEN "launch" ELSE "finish"]

\* Where a pass goes once it has the template, or is rid of an old host.
TowardsHost(p) ==
    CASE p.inv = 0 -> AfterHost(p)
      [] p.inv # 0 /\ p.st.id = 0 -> [p EXCEPT !.pc = "intent"]
      [] OTHER -> [p EXCEPT !.pc = "upsert"]

\* Which jobs AWX would be asked about.
Recorded(st) == jobs[st.jobEp][st.job]

-----------------------------------------------------------------------------
(* A pass: its calls *)

\* A pass as it starts, from the informer's copy and the VM.
Started(due) ==
    LET addr == IF vm.state = "on" THEN vm.addr ELSE 0
        phase == IF cache.st.job # 0 THEN mapAWXStatus(cache.st.jobStatus) ELSE cache.st.phase
    IN  [NoPass EXCEPT !.gen = cache.gen, !.was = cache.st,
           !.st = [cache.st EXCEPT !.addr = addr, !.phase = phase],
           !.ready = vm.state = "on", !.addr = addr, !.due = due,
           !.wants = needsRun(cache.st, cache.gen), !.fresh = cache = obj]

\* What they leave to be done.  When a host check is due is a matter of time; with
\* none on record it is.
applyAnsibleBindingVM(due) ==
    LET p == Started(due) IN
    /\ pass.pc = "idle" /\ vm.state # "gone"
    /\ cache.st.checked \/ due
    /\ IF cache = obj THEN UNCHANGED faults ELSE Fault
    /\ pass' = CASE InFlight(p.st) -> [p EXCEPT !.pc = "poll"]
                 [] ~InFlight(p.st) /\ ~p.ready -> finish([p EXCEPT !.st = NotReady(@)])
                 [] ~InFlight(p.st) /\ p.ready /\ ~p.wants /\ ~due -> finish(p)
                 [] OTHER -> [p EXCEPT !.pc = "connect"]
    /\ UNCHANGED <<obj, cache, reap, envVars, tcache, host, jobs>>

\* Mutant: the job is looked up where the connection points now.
PollHere ==
    /\ pass.pc = "poll" /\ pass.st.job \in DOMAIN jobs[conn]
    /\ LET s == jobs[conn][pass.st.job].status
           p == [pass EXCEPT !.st.jobStatus = s, !.st.phase = mapAWXStatus(s)]
       IN  pass' = IF isTerminalAWXStatus(s) /\ p.ready /\ (p.wants \/ p.due)
                   THEN [p EXCEPT !.pc = "connect"] ELSE finish(p)
    /\ UNCHANGED <<obj, cache, reap, envVars, tcache, host, jobs, faults>>

\* The recorded job, on the instance it was launched on.
pollRecordedJob ==
    /\ pass.pc = "poll"
    /\ LET s == Recorded(pass.st).status
           p == [pass EXCEPT !.st.jobStatus = s, !.st.phase = mapAWXStatus(s)]
       IN  pass' = IF isTerminalAWXStatus(s) /\ p.ready /\ (p.wants \/ p.due)
                   THEN [p EXCEPT !.pc = "connect"] ELSE finish(p)
    /\ UNCHANGED <<obj, cache, reap, envVars, tcache, host, jobs, faults>>

\* Mutant: what was recorded on another instance is kept.
Keeping(st, ep) == [st EXCEPT !.ep = ep]

\* Ids and coordinates of another instance are dropped.
OnInstance(st, ep) ==
    IF st.ep \in {None, ep} THEN [st EXCEPT !.ep = ep]
    ELSE [st EXCEPT !.ep = ep, !.id = 0, !.slot = NoSlot, !.created = FALSE]

\* Mutant: a launch uses the cached template too.
TemplateFromCache(wants) == IF tcache # NoTemplate THEN tcache ELSE tmpl[conn]

\* From AWX for a launch; for a host check the cache will do.
ResolvedTemplate(wants) ==
    IF ~wants /\ tcache # NoTemplate THEN tcache ELSE tmpl[conn]

\* AWX drops a limit its template is not set up to take.
Accepted(p, t) == (~Want[p.gen].wide /\ t.inv # 0) => t.ask

\* The connection, the template on it, and whether it takes the limit.
Connect ==
    LET t == ResolvedTemplate(pass.wants)
        p == [pass EXCEPT !.st = OnInstance(@, conn), !.ep = conn, !.inv = t.inv,
                !.edits = edits]
    IN
    /\ pass.pc = "connect"
    /\ tcache' = t
    /\ pass' = CASE ~Accepted(p, t) -> finish(p)
                 [] Accepted(p, t) /\ t.inv # 0 /\ Moved(p) -> [p EXCEPT !.pc = "retire"]
                 [] OTHER -> TowardsHost(p)
    /\ UNCHANGED <<obj, cache, reap, envVars, host, jobs, faults>>

\* Mutant: any host found under the old name is taken for the child's own.
TakenForOwn(h) == Exists(h)

\* Whether a host found under the old name is the child's to delete.
OwnedHost(h) == h.owner = "ours"

\* The host moves.  The old one is looked up by its recorded coordinates: its
\* id may never have reached status.
FindHost ==
    LET h == host[pass.ep][pass.st.slot]
        p == [pass EXCEPT !.st.id = IF Exists(h) THEN h.id ELSE 0,
                          !.st.created = OwnedHost(h)]
    IN
    /\ pass.pc = "retire"
    /\ pass' = CASE p.st.id = 0 -> TowardsHost(p)
                 [] p.st.id # 0 /\ p.st.created /\ ~Want[p.gen].retain ->
                      [p EXCEPT !.pc = "delete"]
                 [] OTHER -> TowardsHost(Retired(p))
    /\ UNCHANGED <<obj, cache, reap, envVars, tcache, host, jobs, faults>>

\* A deletion by id, to which a host that is gone is as good.
Deleted(e, s, id) ==
    IF host[e][s].id = id THEN [host EXCEPT ![e][s] = Emptied(@)] ELSE host

DeleteHost ==
    /\ pass.pc = "delete"
    /\ host' = Deleted(pass.ep, pass.st.slot, pass.st.id)
    /\ pass' = TowardsHost(Retired(pass))
    /\ UNCHANGED <<obj, cache, reap, envVars, tcache, jobs, faults>>

\* The status in which the host's coordinates are recorded ahead of it.
HostIntent(p) == [p.st EXCEPT !.slot = targetSlot(p), !.created = FALSE]

\* Where the host will be is durable before there is a host.
RecordHostIntent ==
    LET st == HostIntent(pass) IN
    /\ pass.pc = "intent"
    /\ obj' = IF st = pass.was THEN obj ELSE [obj EXCEPT !.st = st]
    /\ pass' = [pass EXCEPT !.pc = "upsert", !.st = st]
    /\ UNCHANGED <<cache, reap, envVars, tcache, host, jobs, faults>>

\* A host another binding marked is refused.
Adoptable(h) == h.owner # "foreign"

\* Mutant: a host that is there is left as it is.
UpsertedIfMissing ==
    [host EXCEPT ![pass.ep][targetSlot(pass)] =
        IF Exists(@) THEN @ ELSE [id |-> @.id + 1, owner |-> "ours", addr |-> pass.addr]]

\* What an upsert leaves in the slot: the host that is there with the VM's
\* address, or a new one with the binding's marker.
Upserted ==
    [host EXCEPT ![pass.ep][targetSlot(pass)] =
        IF Exists(@) THEN [@ EXCEPT !.addr = pass.addr]
        ELSE [id |-> @.id + 1, owner |-> "ours", addr |-> pass.addr]]

UpsertHost ==
    LET h == host[pass.ep][targetSlot(pass)] IN
    /\ pass.pc = "upsert"
    /\ IF Adoptable(h)
       THEN /\ host' = Upserted
            /\ LET n == Upserted[pass.ep][targetSlot(pass)]
               IN  pass' = AfterHost([pass EXCEPT !.st.id = n.id,
                             !.st.created = n.owner = "ours", !.st.slot = targetSlot(pass)])
       ELSE UNCHANGED host /\ pass' = finish(pass)
    /\ UNCHANGED <<obj, cache, reap, envVars, tcache, jobs, faults>>

\* What AWX makes of the launch: a template that takes no limit drops it.
Launched ==
    LET narrow == ~Want[pass.gen].wide /\ pass.inv # 0
        dropped == narrow /\ ~tmpl[pass.ep].ask
    IN  [gen |-> pass.gen, dropped |-> dropped, status |-> "pending",
         limit |-> IF narrow /\ ~dropped THEN targetSlot(pass) ELSE NoSlot]

\* A job id, with or without a complaint about what was dropped.
LaunchJobTemplate ==
    /\ pass.pc = "launch"
    /\ jobs' = [jobs EXCEPT ![pass.ep] = Append(@, Launched)]
    /\ pass' = [pass EXCEPT !.pc = "finish", !.st.job = Len(jobs[pass.ep]) + 1,
                  !.st.jobEp = pass.ep, !.st.jobStatus = "pending",
                  !.st.phase = "Running", !.st.gen = pass.gen]
    /\ UNCHANGED <<obj, cache, reap, envVars, tcache, host, faults>>

\* No job id: a refusal, or an answer lost on its way.
LaunchFails ==
    /\ pass.pc = "launch" /\ Fault
    /\ jobs' \in {jobs, [jobs EXCEPT ![pass.ep] = Append(@, Launched)]}
    /\ pass' = [pass EXCEPT !.pc = "finish", !.st.phase = "Failed"]
    /\ UNCHANGED <<obj, cache, reap, envVars, tcache, host>>

\* A status write goes to the name and replaces everything.
writeAnsibleBindingVMDetails ==
    /\ pass.pc = "finish"
    /\ obj' = [obj EXCEPT !.st = pass.st]
    /\ pass' = NoPass
    /\ UNCHANGED <<cache, reap, envVars, tcache, host, jobs, faults>>

\* A call errs, having had its effect or not; the error path writes status too.
CallFails ==
    /\ Fault
    /\ \/ /\ pass.pc = "poll"
          /\ pass' = finish([pass EXCEPT !.st.phase = "Running"])
          /\ UNCHANGED <<obj, host>>
       \/ /\ pass.pc \in {"connect", "retire"}
          /\ pass' = finish(pass)
          /\ UNCHANGED <<obj, host>>
       \/ /\ pass.pc = "delete"
          /\ host' \in {host, Deleted(pass.ep, pass.st.slot, pass.st.id)}
          /\ pass' = finish(pass) /\ UNCHANGED obj
       \/ /\ pass.pc = "intent" /\ HostIntent(pass) # pass.was
          /\ obj' \in {obj, [obj EXCEPT !.st = HostIntent(pass)]}
          /\ pass' = finish([pass EXCEPT !.st = HostIntent(pass)])
          /\ UNCHANGED host
       \/ /\ pass.pc = "upsert" /\ Adoptable(host[pass.ep][targetSlot(pass)])
          /\ host' \in {host, Upserted}
          /\ pass' = finish(pass) /\ UNCHANGED obj
       \/ /\ pass.pc = "finish"
          /\ obj' \in {obj, [obj EXCEPT !.st = pass.st]}
          /\ pass' = NoPass /\ UNCHANGED host
    /\ UNCHANGED <<cache, reap, envVars, tcache, jobs>>

-----------------------------------------------------------------------------
(* The binding: a new request, and the orphan scan *)

\* The patch names the resourceVersion of the copy it was made from, so it
\* lands only when that copy is current.  It and the scan are of one pass.
updateBindingChildSpec ==
    /\ reap.pc = "idle" /\ cache = obj
    /\ obj.gen < MaxGen
    /\ obj' = [obj EXCEPT !.gen = @ + 1]
    /\ UNCHANGED <<cache, pass, reap, envVars, tcache, host, jobs, faults>>

\* The names a copy of the child accounts for; the binding's own generation is
\* the child's, its patch having been issued.
claimedHostNames(o) ==
    {Want[obj.gen].name} \cup (IF o.st.slot = NoSlot THEN {} ELSE {o.st.slot[2]})

Inventories == Elsewhere \cup ({cache.st.slot[1]} \ {0})

\* The binding's marked hosts in the inventories its children know, that the
\* cached children do not claim.
ListOwnedHosts ==
    LET found == {s \in Inventories \X Name : host[conn][s].owner = "ours"}
        cand == {<<s, host[conn][s].id>> :
                   s \in {t \in found : t[2] \notin claimedHostNames(cache)}}
    IN
    /\ reap.pc = "idle" /\ ~Want[obj.gen].retain /\ cand # {}
    /\ reap' = [pc |-> "confirm", ep |-> conn, cand |-> cand]
    /\ UNCHANGED <<obj, cache, pass, envVars, tcache, host, jobs, faults>>

\* Mutant: the children in hand are asked again.
ConfirmFromCache == claimedHostNames(cache)

\* A list of the children from the API server, before anything is deleted.
FreshClaims == claimedHostNames(obj)

ConfirmOrphans ==
    /\ reap.pc = "confirm"
    /\ LET cand == {h \in reap.cand : h[1][2] \notin FreshClaims}
       IN  reap' = IF cand = {} THEN NoScan
                   ELSE [reap EXCEPT !.pc = "delete", !.cand = cand]
    /\ UNCHANGED <<obj, cache, pass, envVars, tcache, host, jobs, faults>>

\* One deletion at a time; the first that fails ends the scan.
reapOrphanHosts(h) ==
    /\ reap.pc = "delete" /\ h \in reap.cand
    /\ host' = Deleted(reap.ep, h[1], h[2])
    /\ reap' = IF reap.cand = {h} THEN NoScan ELSE [reap EXCEPT !.cand = @ \ {h}]
    /\ UNCHANGED <<obj, cache, pass, envVars, tcache, jobs, faults>>

ScanFails ==
    /\ reap.pc # "idle" /\ Fault
    /\ reap' = NoScan
    /\ UNCHANGED <<obj, cache, pass, envVars, tcache, host, jobs>>

-----------------------------------------------------------------------------
(* The world around: the informer, the process, people, AWX *)

SyncCache ==
    /\ cache # obj
    /\ cache' = obj
    /\ UNCHANGED <<obj, pass, reap, envVars, tcache, host, jobs, faults>>

\* The old process is gone before the new one starts and lists everything.
Crash ==
    /\ MayCrash /\ Fault
    /\ pass' = NoPass /\ reap' = NoScan
    /\ cache' = obj /\ tcache' = NoTemplate
    /\ UNCHANGED <<obj, envVars, host, jobs>>

MayEdit(kind) == kind \in Edits /\ edits < MaxEdits /\ edits' = edits + 1

VMChanges ==
    /\ MayEdit("vm") /\ vm.state # "gone"
    /\ vm' \in {[vm EXCEPT !.state = "on"], [vm EXCEPT !.state = "off"],
                [vm EXCEPT !.state = "gone"], [vm EXCEPT !.addr = 3 - @]} \ {vm}
    /\ UNCHANGED <<obj, cache, pass, reap, conn, tmpl, tcache, host, jobs, faults>>

\* A new version of the connection, under which no template is cached.
Repoint ==
    /\ MayEdit("conn")
    /\ conn' \in Endpoint \ {conn}
    /\ tcache' = NoTemplate
    /\ UNCHANGED <<obj, cache, pass, reap, vm, tmpl, host, jobs, faults>>

\* The entry's time is up.
TemplateExpires ==
    /\ tcache # NoTemplate
    /\ tcache' = NoTemplate
    /\ UNCHANGED <<obj, cache, pass, reap, envVars, host, jobs, faults>>

EditTemplate(e) ==
    /\ \/ MayEdit("limit") /\ tmpl' = [tmpl EXCEPT ![e].ask = ~@]
       \/ /\ MayEdit("inventory")
          /\ \E i \in (Inventory \cup {0}) \ {tmpl[e].inv} :
                tmpl' = [tmpl EXCEPT ![e].inv = i]
    /\ UNCHANGED <<obj, cache, pass, reap, vm, conn, tcache, host, jobs, faults>>

\* Somebody deletes a host by hand, edits its address, or puts another one of
\* its name there.
EditHost(e, s) ==
    /\ MayEdit("host") /\ Exists(host[e][s])
    /\ host' \in {[host EXCEPT ![e][s] = Emptied(@)], [host EXCEPT ![e][s].addr = 0]}
          \cup {[host EXCEPT ![e][s] = [id |-> @.id + 1, owner |-> o, addr |-> 0]] :
                  o \in {"foreign", "hand"}}
    /\ UNCHANGED <<obj, cache, pass, reap, vm, conn, tmpl, tcache, jobs, faults>>

JobEnds(e, j) ==
    /\ jobs[e][j].status = "pending"
    /\ \E r \in {"successful", "failed"} : jobs' = [jobs EXCEPT ![e][j].status = r]
    /\ UNCHANGED <<obj, cache, pass, reap, envVars, tcache, host, faults>>

-----------------------------------------------------------------------------
(* Specification *)

\* A child just created.  Its slot may hold what an earlier child of the same
\* binding, another binding or a person left there.
Init ==
    /\ obj = [gen |-> 1, st |-> NoStatus] /\ cache = obj
    /\ pass = NoPass /\ reap = NoScan
    /\ vm = [state |-> "on", addr |-> 1]
    /\ conn = Home
    /\ \E i \in Inventory : tmpl = [e \in Endpoint |-> [inv |-> i, ask |-> TRUE]]
    /\ tcache = NoTemplate
    /\ \E o \in Leftover, s \in Slot :
         host = [e \in Endpoint |-> [t \in Slot |->
                  IF t = s /\ o # "none" THEN [id |-> 1, owner |-> o, addr |-> 0]
                  ELSE NoHost]]
    /\ jobs = [e \in Endpoint |-> <<>>]
    /\ edits = 0 /\ faults = 0

PassStep ==
    \/ applyAnsibleBindingVM(TRUE) \/ applyAnsibleBindingVM(FALSE)
    \/ pollRecordedJob \/ Connect \/ FindHost \/ DeleteHost \/ RecordHostIntent
    \/ UpsertHost \/ LaunchJobTemplate \/ LaunchFails
    \/ writeAnsibleBindingVMDetails \/ CallFails

ReapStep ==
    \/ ListOwnedHosts \/ ConfirmOrphans
    \/ (\E h \in reap.cand : reapOrphanHosts(h)) \/ ScanFails

Next ==
    \/ PassStep \/ ReapStep \/ updateBindingChildSpec \/ SyncCache \/ Crash
    \/ VMChanges \/ Repoint \/ TemplateExpires
    \/ \E e \in Endpoint : EditTemplate(e) \/ (\E s \in Slot : EditHost(e, s))
                           \/ (\E j \in DOMAIN jobs[e] : JobEnds(e, j))

Spec == Init /\ [][Next]_vars
\* Workers, informer and timers do not stop: a pass goes on, the copy catches
\* up, a host check and a scan come due again, a cached template expires.  A
\* job ends.  Faults and edits are bounded, so they stop.
FairSpec ==
    /\ Spec
    /\ WF_vars(PassStep) /\ SF_vars(applyAnsibleBindingVM(TRUE))
    /\ WF_vars(ReapStep) /\ WF_vars(SyncCache) /\ WF_vars(TemplateExpires)
    /\ \A e \in Endpoint : WF_vars(\E j \in DOMAIN jobs[e] : JobEnds(e, j))

-----------------------------------------------------------------------------
(* Properties *)

\* Every variable keeps its type: the child's status, a pass, a scan, and what
\* AWX holds.
TypeOK ==
    /\ obj \in Object /\ cache \in Object
    /\ pass \in Pass
    /\ reap \in Scan
    /\ vm \in [state : {"on", "off", "gone"}, addr : 1..2]
    /\ conn \in Endpoint
    /\ tmpl \in [Endpoint -> Template]
    /\ tcache \in Template \cup {NoTemplate}
    /\ host \in [Endpoint -> [Slot -> Host]]
    /\ jobs \in [Endpoint -> Seq(Job)]
    /\ edits \in Count /\ faults \in 0..MaxFaults

\* A record of a job, in status or about to be, is of a job of the request it
\* names, and an outcome it gives, or a phase of Succeeded, is that job's own:
\* a lagging copy, a repointed connection or a lost write never makes one
\* request answer for another.
OutcomeIsReal ==
    \A st \in {obj.st, cache.st, pass.st} :
        /\ st.job # 0 =>
             /\ st.job \in DOMAIN jobs[st.jobEp]
             /\ Recorded(st).gen = st.gen
             /\ isTerminalAWXStatus(st.jobStatus) => Recorded(st).status = st.jobStatus
        /\ st.phase = "Succeeded" => st.job # 0 /\ st.jobStatus = "successful"

Launches == UNION {{e} \X DOMAIN jobs[e] : e \in Endpoint}

\* One run per request, and at most one more for every crash, failed call or
\* lagging read, however they combine.
FaultCostsARun == Cardinality(Launches) <= obj.gen + faults

\* Nothing is deleted by the controller but a host with the binding's marker.
DeletesOwnOnly ==
    [][\A e \in Endpoint, s \in Slot :
         Exists(host[e][s]) /\ ~Exists(host'[e][s]) /\ edits' = edits
            => host[e][s].owner = "ours"]_vars

\* A pass that started from a current copy creates no host before the instance
\* and the slot are durable: a crash after it leaves a host its teardown finds.
IntentBeforeHost ==
    [][\A e \in Endpoint, s \in Slot :
         ~Exists(host[e][s]) /\ Exists(host'[e][s]) /\ pass.fresh
            => obj.st.ep = e /\ obj.st.slot = s]_vars

\* A run that was to be limited to one host goes to the whole inventory only
\* when somebody edited AWX after the pass had resolved its template.
WidenedOnlyByEdit ==
    [][\A e \in Endpoint : Len(jobs'[e]) > Len(jobs[e]) /\ jobs'[e][Len(jobs'[e])].dropped
         => edits > pass.edits]_vars

\* No host with the binding's marker is left behind: by an earlier binding of the
\* name, on an instance the connection pointed at, or on purpose.
NothingLeft ==
    "ours" \notin Leftover /\ "conn" \notin Edits /\ \A g \in Request : ~Want[g].retain

\* As long as no copy lagged, nothing failed and nothing was left behind, the scan
\* deletes no host that the child's durable status names and no host a job in
\* flight is limited to, though the children it listed first may not show it.
ReapSparesClaimed ==
    [][\A h \in reap.cand : NothingLeft /\ reapOrphanHosts(h) /\ faults = 0 /\ host' # host =>
         /\ obj.st.slot # h[1]
         /\ \A j \in DOMAIN jobs[reap.ep] :
              jobs[reap.ep][j].limit = h[1] => jobs[reap.ep][j].status # "pending"]_vars

\* The children are listed again before a host is deleted, so that none is
\* "deleted out from under a running playbook" (reapOrphanHosts' comment).
ReapSparesRunning ==
    [][\A h \in reap.cand : reapOrphanHosts(h) /\ host' # host =>
         \A j \in DOMAIN jobs[reap.ep] :
           jobs[reap.ep][j].limit = h[1] => jobs[reap.ep][j].status # "pending"]_vars

-----------------------------------------------------------------------------
(* The invariant behind them, inductive *)

\* Whether a request, in a status as a pass or the API server has it, is still to
\* be launched.
Owed(st, gen) == IF needsRun(st, gen) THEN 1 ELSE 0

\* The launches there were and the one to come are paid for.
Paid(st, gen) == Cardinality(Launches) + Owed(st, gen) <= gen + faults

\* What a status says of a job and of a host is so, and it is of no request the
\* informer has not shown.
StatusOK(st) ==
    /\ st.job # 0 =>
         /\ st.jobEp \in Endpoint /\ st.job \in DOMAIN jobs[st.jobEp]
         /\ Recorded(st).gen = st.gen
         /\ isTerminalAWXStatus(st.jobStatus) => Recorded(st).status = st.jobStatus
    /\ st.phase = "Succeeded" => st.job # 0 /\ st.jobStatus = "successful"
    /\ st.id # 0 => st.ep # None /\ st.slot # NoSlot
    /\ st.gen <= cache.gen

\* No host of this id is another's, now or later.
Marked(e, s, id) ==
    /\ host[e][s].id >= id
    /\ host[e][s].id = id /\ Exists(host[e][s]) => host[e][s].owner = "ours"

\* What a pass knows: at any step what it may still cost; up to its launch, that
\* nothing was launched; once it has the template, where it is at work and that
\* the template took the limit if nobody edited it since.
PassOK(p) ==
    /\ p.pc # "idle" => p.gen # 0 /\ p.gen <= cache.gen /\ Paid(p.st, p.gen)
    /\ p.pc \notin {"idle", "finish"} => p.wants = needsRun(p.st, p.gen)
    /\ p.pc = "poll" => p.st.job # 0
    /\ p.pc \in {"poll", "connect"} =>
         p.st.ep = p.was.ep /\ p.st.slot = p.was.slot /\ p.st.id = p.was.id
    /\ p.pc \in {"retire", "delete", "intent", "upsert", "launch"} =>
         /\ p.ep \in Endpoint /\ p.st.ep = p.ep /\ p.edits <= edits
         /\ p.wants /\ p.edits = edits /\ ~Want[p.gen].wide /\ p.inv # 0 => tmpl[p.ep].ask
    /\ p.pc \in {"retire", "delete", "intent", "upsert"} => p.inv # 0
    /\ p.pc \in {"retire", "delete"} => p.st.slot # NoSlot
    /\ p.pc = "delete" => Marked(p.ep, p.st.slot, p.st.id)
    /\ p.pc = "launch" => p.wants

\* What is durable while a pass that started from a current copy goes on.
FreshOK(p) ==
    p.fresh => /\ p.pc \in {"poll", "connect", "retire", "delete", "intent"} => obj.st = p.was
               /\ p.pc = "upsert" => obj.st.ep = p.ep /\ obj.st.slot = targetSlot(p)

ScanOK ==
    reap.pc # "idle" => /\ reap.ep \in Endpoint
                        /\ \A h \in reap.cand : Marked(reap.ep, h[1], h[2])

IInv ==
    /\ TypeOK
    /\ StatusOK(obj.st) /\ StatusOK(cache.st) /\ StatusOK(pass.st)
    /\ cache.gen <= obj.gen /\ obj.gen <= cache.gen + 1
    /\ PassOK(pass) /\ FreshOK(pass) /\ ScanOK
    /\ IsFiniteSet(Launches)
    /\ pass.pc # "finish" => Paid(obj.st, obj.gen)

-----------------------------------------------------------------------------
(* Promises about what comes to be *)

Current == <<tmpl[conn].inv, Want[obj.gen].name>>

\* What keeps a child from its host or its run.
Blocked ==
    \/ vm.state # "on" \/ ~Accepted(obj, tmpl[conn])
    \/ tmpl[conn].inv # 0 /\ host[conn][Current].owner = "foreign"

\* Hosts with the binding's marker that the child's status does not name.
Orphans == {s \in Slot : host[conn][s].owner = "ours" /\ s # obj.st.slot}

\* Once people leave it alone, a child comes to rest with a finished run of the
\* request in force and one host, in its slot and with the VM's address,
\* whatever a lagging copy, a crash or a failed call did on the way; unless
\* its VM is down, its template refuses the limit or its slot is another's.
Converges ==
    <>[](\/ Blocked
         \/ /\ obj.st.gen = obj.gen /\ isTerminalAWXStatus(obj.st.jobStatus)
            /\ tmpl[conn].inv # 0 =>
                 /\ obj.st.slot = Current
                 /\ Exists(host[conn][Current]) /\ host[conn][Current].addr = vm.addr
                 /\ Want[obj.gen].retain \/ Orphans = {})

\* "Each binding periodically lists the AWX hosts it owns and deletes any that
\* no VM and no child accounts for" (FAQ.md).
OrphansAreReaped == <>[](Blocked \/ Orphans = {})

\* "The window [...] needs a crash inside it [...]. Nothing else in the
\* controller re-launches on its own" (FAQ.md): where nothing crashes, every
\* request is launched once.
OneRunPerRequest ==
    \A g \in 1..MaxGen :
        Cardinality({l \in Launches : jobs[l[1]][l[2]].gen = g}) <= 1
=============================================================================
