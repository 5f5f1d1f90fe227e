----------------------------- MODULE AnsibleRun -----------------------------
(***************************************************************************)
(* The AnsibleRun controller: one request to run one AWX job, once.        *)
(*                                                                         *)
(* A reconcile pass works on one object name at a time (the work queue     *)
(* serialises a key) and is a sequence of calls to the API server and to   *)
(* AWX.  Each call is a step here, so that user edits, deletions,          *)
(* replacements under the same name, repointed connections, AWX's own      *)
(* progress, passes over other runs and a crash of the controller can fall *)
(* between any two of them.                                                *)
(*                                                                         *)
(* An element of Run is one object, that is one UID; NameOf gives the name *)
(* it is created under.  Timestamps are kept only as far as decisions tell *)
(* them apart: the launch attempt and a job's creation carry a second, to  *)
(* be compared; every "older than" test reads the set elapsed.             *)
(***************************************************************************)
EXTENDS Naturals, Sequences, FiniteSets

CONSTANTS
    Run,          \* AnsibleRun objects, by UID
    Name,         \* object names
    NameOf,       \* the name each object is created under
    Endpoint,     \* AWX instances a connection may point at
    Host,         \* inventory host names
    Targets,      \* the inventory hosts each run's spec resolves to
    Retain,       \* runs whose spec says cleanupPolicy: Retain
    HasDeadline,  \* runs with spec.activeDeadlineSeconds
    Deletable,    \* runs their user may delete
    HasTTL,       \* runs with spec.ttlSecondsAfterFinished
    None,         \* no run, no endpoint
    MaxSecond,    \* bound on the clock
    MaxCrashes,   \* bound on controller restarts
    MaxEdits,     \* bound on hand edits: of a run, the AWXConnection, AWX
    MayPurge      \* whether AWX may delete the record of an ended job

ASSUME ConstantsAssumption ==
    /\ NameOf \in [Run -> Name]
    /\ Targets \in [Run -> SUBSET Host]
    /\ Retain \subseteq Run /\ HasDeadline \subseteq Run /\ HasTTL \subseteq Run
    /\ Deletable \subseteq Run
    /\ None \notin Run /\ None \notin Endpoint
    /\ MaxSecond \in Nat \ {0} /\ MaxCrashes \in Nat /\ MaxEdits \in Nat
    /\ MayPurge \in BOOLEAN

VARIABLES
    obj,      \* the API server's AnsibleRun objects, by UID
    cache,    \* the informer's copy of each name
    pass,     \* the reconcile pass running on each name, if any
    conn,     \* the endpoint the AWXConnection names now; None when it is gone
    jobs,     \* AWX: the template's jobs on each instance, in order of id
    hosts,    \* AWX: the inventory on each instance
    lastHost, \* AWX: the last host id each instance handed out
    req,      \* the last launch request of each run, as the network and AWX hold it
    second,   \* the wall clock, in seconds
    elapsed,  \* the timers that have run out
    crashes, edits

vars == <<obj, cache, pass, conn, jobs, hosts, lastHost, req, second, elapsed,
          crashes, edits>>
awxVars == <<jobs, hosts, lastHost, req>>
envVars == <<conn, second, crashes, edits>>

-----------------------------------------------------------------------------
(* Data *)

\* "failed" stands for AWX's failed, error and canceled, which no decision
\* tells apart, and "running" for its new, pending, waiting and running.
Terminal == {"successful", "failed"}
JobStatuses == {"running", "purged"} \cup Terminal
Timers == {"deadline", "grace", "cancel", "ttl"}

\* One entry of status.hosts: where the host is, and whether this run made it.
HostEntry == [name : Host, id : Nat, created : BOOLEAN]

\* The detail half of status; "" and 0 are the fields' absence.
Status == [job : Nat, jobStatus : {"", "unknown", "running"} \cup Terminal,
           attempted : Nat, cancelAsked : BOOLEAN, finished : BOOLEAN,
           endpoint : Endpoint \cup {None}, hosts : SUBSET HostEntry]

NoStatus == [job |-> 0, jobStatus |-> "", attempted |-> 0, cancelAsked |-> FALSE,
             finished |-> FALSE, endpoint |-> None, hosts |-> {}]

Object == [phase : {"none", "live", "gone"}, deleting : BOOLEAN,
           fin : BOOLEAN, st : Status]

NoObject == [phase |-> "none", deleting |-> FALSE, fin |-> FALSE, st |-> NoStatus]
Gone == [NoObject EXCEPT !.phase = "gone"]

Copy == [uid : Run \cup {None}, deleting : BOOLEAN, fin : BOOLEAN]
NoCopy == [uid |-> None, deleting |-> FALSE, fin |-> FALSE]

\* "by" is who launched a job; AWX shows only its template and its limit.
Job == [by : Run \cup {None}, limit : SUBSET Host, created : Nat,
        status : JobStatuses, cancel : BOOLEAN]

\* Here "by" is who created the host; AWX itself stores only the marker, which
\* names the run's name and not its UID.
HostRec == [id : Nat, by : Run \cup {None}]
NoHost == [id |-> 0, by |-> None]

PC == {"idle", "read", "poll", "recover", "launch", "hosts", "claim", "post",
       "answer", "resolve", "cancel", "confirm", "delhosts", "release"}

Pass == [pc : PC, uid : Run \cup {None}, ep : Endpoint \cup {None}, st : Status,
         fresh : BOOLEAN,             \* nothing was written to the object since it was read
         left : SUBSET Host,          \* targets whose inventory host is not resolved yet
         todo : SUBSET HostEntry,     \* recorded hosts not deleted yet
         failed : BOOLEAN, abandoned : BOOLEAN]

NoPass == [pc |-> "idle", uid |-> None, ep |-> None,
           st |-> NoStatus, fresh |-> FALSE, todo |-> {}, left |-> {},
           failed |-> FALSE, abandoned |-> FALSE]

Request == [state : {"none", "sent", "accepted", "refused"},
            ep : Endpoint \cup {None}, job : Nat]
NoRequest == [state |-> "none", ep |-> None, job |-> 0]

-----------------------------------------------------------------------------
(* Reading the world *)

\* The object that holds a name now.
Holders(n) == {r \in Run : NameOf[r] = n /\ obj[r].phase = "live"}
Holder(n) == IF Holders(n) = {} THEN None ELSE CHOOSE r \in Holders(n) : TRUE

Snapshot(n) ==
    IF Holders(n) = {} THEN NoCopy
    ELSE LET r == Holder(n)
         IN  [uid |-> r, deleting |-> obj[r].deleting, fin |-> obj[r].fin]

\* The record says there is a job that may still be going.
Tracking(st) == st.job # 0 /\ st.jobStatus \notin Terminal
\* The record says a launch was sent and nothing about what came of it.
Unresolved(st) == st.job = 0 /\ st.attempted # 0

HostNames(st) == {h.name : h \in st.hosts}

\* Mutant: no lower bound on the creation time.
MatchAnyAge(e, st) ==
    {j \in DOMAIN jobs[e] : jobs[e][j].status # "purged" /\ jobs[e][j].limit = HostNames(st)}

\* The jobs in the template's history that a lost launch recorded in st could
\* have started: same limit, created no earlier than the attempt.
matchLostLaunchJobs(e, st) ==
    {j \in DOMAIN jobs[e] :
        /\ jobs[e][j].status # "purged"
        /\ jobs[e][j].limit = HostNames(st)
        /\ jobs[e][j].created >= st.attempted}

\* File a host under its name; what an earlier pass created stays created.
recordRunHost(hs, h) ==
    LET same == {x \in hs : x.name = h.name}
    IN  (hs \ same) \cup
        {[h EXCEPT !.created = @ \/ \E x \in same : x.created]}

\* The marker on a host says it belongs to the name n.
MarkedBy(rec, n) == rec.by # None /\ NameOf[rec.by] = n

-----------------------------------------------------------------------------
(* The objects' own life: the user, the informer, the process *)

\* Deleting an object that holds no finalizer removes it at once.
MarkDeleted(o) ==
    IF o.fin THEN [o EXCEPT !.deleting = TRUE]
             ELSE Gone

\* What timers count from goes with the object.
TimersKept == {x \in elapsed : obj'[x[2]].phase # "gone"}

\* Any write to r moves its resourceVersion on, past the one a pass read.
Stale(r) ==
    [n \in Name |-> IF pass[n].uid = r THEN [pass[n] EXCEPT !.fresh = FALSE]
                                       ELSE pass[n]]

CreateRun(r) ==
    /\ obj[r].phase = "none"
    /\ Holders(NameOf[r]) = {}
    /\ obj' = [obj EXCEPT ![r].phase = "live"]
    /\ UNCHANGED <<cache, pass, awxVars, elapsed, envVars>>

DeleteRun(r) ==
    /\ r \in Deletable
    /\ obj[r].phase = "live" /\ ~obj[r].deleting
    /\ obj' = [obj EXCEPT ![r] = MarkDeleted(@)]
    /\ elapsed' = TimersKept
    /\ pass' = Stale(r)
    /\ UNCHANGED <<cache, awxVars, envVars>>

\* A label or an annotation, such as the re-run trigger.
EditRun(r) ==
    /\ edits < MaxEdits
    /\ obj[r].phase = "live"
    /\ edits' = edits + 1
    /\ pass' = Stale(r)
    /\ UNCHANGED <<obj, cache, awxVars, elapsed, conn, second, crashes>>

\* The watch catches up.  Between two of these the copy may be any age.
SyncCache(n) ==
    /\ cache[n] # Snapshot(n)
    /\ cache' = [cache EXCEPT ![n] = Snapshot(n)]
    /\ UNCHANGED <<obj, pass, awxVars, elapsed, envVars>>

\* The process dies and starts again: what it held in memory is lost, and the
\* informer lists afresh.
Crash ==
    /\ crashes < MaxCrashes
    /\ crashes' = crashes + 1
    /\ pass' = [n \in Name |-> NoPass]
    /\ cache' = [n \in Name |-> Snapshot(n)]
    /\ UNCHANGED <<obj, awxVars, elapsed, conn, second, edits>>

\* The AWXConnection is pointed elsewhere, deleted, or put back.
Repoint ==
    /\ edits < MaxEdits
    /\ edits' = edits + 1
    /\ conn' \in (Endpoint \cup {None}) \ {conn}
    /\ UNCHANGED <<obj, cache, pass, awxVars, elapsed, second, crashes>>

Tick ==
    /\ second < MaxSecond
    /\ second' = second + 1
    /\ UNCHANGED <<obj, cache, pass, awxVars, elapsed, conn, crashes, edits>>

\* A timer can only run out once the field it counts from has been written.
TimerRuns(t, r) ==
    /\ obj[r].phase = "live"
    /\ CASE t = "deadline" -> r \in HasDeadline
         [] t = "grace"    -> obj[r].st.attempted # 0
         [] t = "cancel"   -> obj[r].st.cancelAsked
         [] t = "ttl"      -> r \in HasTTL /\ obj[r].st.finished

Elapse(t, r) ==
    /\ TimerRuns(t, r)
    /\ <<t, r>> \notin elapsed
    /\ elapsed' = elapsed \cup {<<t, r>>}
    /\ UNCHANGED <<obj, cache, pass, awxVars, envVars>>

-----------------------------------------------------------------------------
(* AWX on its own *)

\* A job of the template as AWX starts it.
Launched(r, limit) == [by |-> r, limit |-> limit, created |-> second,
                       status |-> "running", cancel |-> FALSE]

\* A launch request reaches AWX, perhaps long after its sender gave up on it.
AWXLaunch(r) ==
    LET e == req[r].ep IN
    /\ req[r].state = "sent"
    /\ jobs' = [jobs EXCEPT ![e] = Append(@, Launched(r, Targets[r]))]
    /\ req' = [req EXCEPT ![r] = [state |-> "accepted", ep |-> e,
                                  job |-> Len(jobs[e]) + 1]]
    /\ UNCHANGED <<obj, cache, pass, hosts, lastHost, elapsed, envVars>>

\* Somebody else launches the same template by hand.
OtherLaunch(e) ==
    /\ edits < MaxEdits
    /\ edits' = edits + 1
    /\ \E limit \in SUBSET Host :
         jobs' = [jobs EXCEPT ![e] = Append(@, Launched(None, limit))]
    /\ UNCHANGED <<obj, cache, pass, hosts, lastHost, req, elapsed, conn, second, crashes>>

AWXRefuse(r) ==
    /\ req[r].state = "sent"
    /\ req' = [req EXCEPT ![r].state = "refused"]
    /\ UNCHANGED <<obj, cache, pass, jobs, hosts, lastHost, elapsed, envVars>>

JobEnds(e, j) ==
    /\ jobs[e][j].status = "running"
    /\ \E s \in Terminal : jobs' = [jobs EXCEPT ![e][j].status = s]
    /\ UNCHANGED <<obj, cache, pass, hosts, lastHost, req, elapsed, envVars>>

PurgeJob(e, j) ==
    /\ MayPurge
    /\ jobs[e][j].status \in Terminal
    /\ jobs' = [jobs EXCEPT ![e][j].status = "purged"]
    /\ UNCHANGED <<obj, cache, pass, hosts, lastHost, req, elapsed, envVars>>

\* Somebody deletes a host by hand, or takes it over under the same id.
EditInventory(e, h) ==
    /\ edits < MaxEdits
    /\ hosts[e][h].by # None
    /\ edits' = edits + 1
    /\ \/ hosts' = [hosts EXCEPT ![e][h] = NoHost]
       \/ hosts' = [hosts EXCEPT ![e][h].by = None]
    /\ UNCHANGED <<obj, cache, pass, jobs, lastHost, req, elapsed, conn, second, crashes>>

-----------------------------------------------------------------------------
(* A reconcile pass *)

Goto(n, p) == pass' = [pass EXCEPT ![n] = p]
EndPass(n) == Goto(n, NoPass)
At(n, pc) == pass[n].pc = pc

\* A worker takes a key off the queue and reads the informer's copy of it.  The
\* queue hands out a key to one worker at a time; there are more workers than
\* an instance has names.
Begins(n) ==
    /\ At(n, "idle")
    /\ cache[n].uid # None

\* writeRunDetails: a forced apply, addressed by name alone.  An object that
\* is no longer there is not an error.
Written(n, st) ==
    IF Holder(n) = None THEN obj ELSE [obj EXCEPT ![Holder(n)].st = st]

\* The status a terminal failure leaves behind.
failRun(st) == [st EXCEPT !.finished = TRUE,
                          !.jobStatus = IF @ = "" THEN "unknown" ELSE @]

\* Write st and end the pass.
Conclude(n, st) == obj' = Written(n, st) /\ EndPass(n)

\* A call may fail, or the write at the end of a step may: nothing is decided
\* and a later pass starts over.  Failures that leave a trace have their own
\* actions.
Fallible == PC \ {"idle", "hosts", "post", "answer", "delhosts"}
StepFails(n) ==
    /\ pass[n].pc \in Fallible
    /\ EndPass(n)
    /\ UNCHANGED <<obj, cache, awxVars, elapsed, envVars>>

\* The finalizer goes on before anything external is made.  The patch is by
\* name: on a conflict it is applied again to whatever object is there, and
\* the pass goes on from that object.
HoldFinalizer(n) ==
    /\ Begins(n) /\ ~cache[n].deleting /\ ~cache[n].fin
    /\ Holder(n) # None
    /\ obj' = [obj EXCEPT ![Holder(n)].fin = TRUE]
    /\ Goto(n, [NoPass EXCEPT !.pc = "read", !.uid = Holder(n)])
    /\ UNCHANGED <<cache, awxVars, elapsed, envVars>>

\* Mutant: work starts before the object holds the finalizer.
ReadUnheld(n, r) ==
    /\ \/ At(n, "read") /\ r = pass[n].uid
       \/ Begins(n) /\ ~cache[n].deleting /\ r = cache[n].uid
    /\ Holder(n) = r

\* applyAnsibleRun works from a live read, and only on the object it was
\* queued for.
ReadLive(n, r) ==
    /\ \/ At(n, "read") /\ r = pass[n].uid
       \/ Begins(n) /\ ~cache[n].deleting /\ cache[n].fin /\ r = cache[n].uid
    /\ Holder(n) = r

\* A finished run deletes itself once its TTL is up, bound to its own UID.
collectFinishedRun(n) ==
    /\ \E r \in Run :
         /\ ReadLive(n, r)
         /\ obj[r].st.finished
         /\ IF <<"ttl", r>> \in elapsed THEN obj' = [obj EXCEPT ![r] = MarkDeleted(@)]
                                        ELSE UNCHANGED obj
    /\ EndPass(n)
    /\ elapsed' = TimersKept
    /\ UNCHANGED <<cache, awxVars, envVars>>

\* AWX takes the cancel; on a job that has ended or is gone it changes nothing.
AskCancel(e, j) ==
    jobs' = [jobs EXCEPT ![e][j].cancel = @ \/ jobs[e][j].status = "running"]

\* Mutant: a run is ended only once its job could be told to stop.
ExpireAfterCancel(n) ==
    /\ \E r \in Run :
         LET st == obj[r].st IN
         /\ ReadLive(n, r)
         /\ ~st.finished /\ <<"deadline", r>> \in elapsed
         /\ Tracking(st) /\ conn # None /\ st.endpoint \in {None, conn}
         /\ AskCancel(conn, st.job)
         /\ obj' = Written(n, failRun([st EXCEPT !.cancelAsked = TRUE]))
    /\ EndPass(n)
    /\ UNCHANGED <<cache, hosts, lastHost, req, elapsed, envVars>>

\* Out of time: cancel on a best-effort basis, and end the run either way.  The
\* write that says so may fail after the cancel went out.
expireRun(n) ==
    /\ \E r \in Run :
         LET st == obj[r].st IN
         /\ ReadLive(n, r)
         /\ ~st.finished /\ <<"deadline", r>> \in elapsed
         /\ \/ /\ Tracking(st)
               /\ conn # None /\ st.endpoint \in {None, conn}
               /\ AskCancel(conn, st.job)
               /\ obj' \in {obj, Written(n, failRun([st EXCEPT !.cancelAsked = TRUE]))}
            \/ /\ obj' = Written(n, failRun(st))
               /\ UNCHANGED jobs
    /\ EndPass(n)
    /\ UNCHANGED <<cache, hosts, lastHost, req, elapsed, envVars>>

\* reconcileRun: where this run stands, and on which instance.  A connection
\* that is gone or names another instance ends the run.
reconcileRun(n) ==
    /\ \E r \in Run :
         LET st == obj[r].st IN
         /\ ReadLive(n, r)
         /\ ~st.finished /\ <<"deadline", r>> \notin elapsed
         /\ IF conn = None \/ st.endpoint \notin {None, conn}
            THEN Conclude(n, failRun(st))
            ELSE /\ Goto(n, [NoPass EXCEPT !.uid = r, !.ep = conn, !.st = st,
                               !.fresh = st.attempted = 0,
                               !.pc = IF st.job # 0 THEN "poll"
                                      ELSE IF st.attempted # 0 THEN "recover"
                                      ELSE "launch"])
                 /\ UNCHANGED obj
    /\ UNCHANGED <<cache, awxVars, elapsed, envVars>>

\* Mutant: whatever the lookup says is recorded, the job's absence too.
PollAnything(n) ==
    LET p == pass[n]
        s == jobs[p.ep][p.st.job].status
    IN
    /\ At(n, "poll")
    /\ Conclude(n, [p.st EXCEPT !.jobStatus = s, !.finished = s \in Terminal])
    /\ UNCHANGED <<cache, awxVars, elapsed, envVars>>

\* Mutant: an ended job is taken for a successful one.
PollEndedIsSuccess(n) ==
    LET p == pass[n]
        s == jobs[p.ep][p.st.job].status
    IN
    /\ At(n, "poll")
    /\ s # "purged"
    /\ Conclude(n, IF s \in Terminal
                   THEN [p.st EXCEPT !.jobStatus = "successful", !.finished = TRUE]
                   ELSE [p.st EXCEPT !.jobStatus = s])
    /\ UNCHANGED <<cache, awxVars, elapsed, envVars>>

\* Only a terminal status ends the run.  A job AWX no longer has is an error,
\* which is StepFails.
pollRun(n) ==
    LET p == pass[n]
        s == jobs[p.ep][p.st.job].status
    IN
    /\ At(n, "poll")
    /\ s # "purged"
    /\ Conclude(n, [p.st EXCEPT !.jobStatus = s, !.finished = s \in Terminal])
    /\ UNCHANGED <<cache, awxVars, elapsed, envVars>>

\* A launch whose answer was lost: look for its job and adopt it, wait, or
\* give up; never launch again.  The list AWX shows may be missing any job.
recoverLostLaunch(n) ==
    LET p == pass[n] IN
    /\ At(n, "recover")
    /\ \/ \E seen \in SUBSET matchLostLaunchJobs(p.ep, p.st) :
            \/ \E j \in seen :
                 /\ seen = {j}
                 /\ Conclude(n, [p.st EXCEPT !.job = j, !.jobStatus = jobs[p.ep][j].status])
            \/ /\ seen = {} /\ <<"grace", p.uid>> \notin elapsed
               /\ EndPass(n) /\ UNCHANGED obj
            \/ /\ seen = {} /\ <<"grace", p.uid>> \in elapsed
               /\ Conclude(n, failRun(p.st))
            \/ Cardinality(seen) > 1 /\ Conclude(n, failRun(p.st))
       \/ Conclude(n, failRun(p.st))     \* the template itself is gone
    /\ UNCHANGED <<cache, awxVars, elapsed, envVars>>

-----------------------------------------------------------------------------
(* launchRun: everything up to and including the single launch *)

\* Template, variables and targets.  A spec that cannot be met ends the run,
\* before or after the endpoint was noted; the rest only reads.
PrepareLaunch(n) ==
    LET p == pass[n] IN
    /\ At(n, "launch")
    /\ \/ \E e \in {p.st.endpoint, p.ep} :
            Conclude(n, failRun([p.st EXCEPT !.endpoint = e]))
       \/ /\ Goto(n, [p EXCEPT !.st.endpoint = p.ep, !.left = Targets[p.uid],
                              !.pc = IF Targets[p.uid] = {} THEN "claim" ELSE "hosts"])
          /\ UNCHANGED obj
    /\ UNCHANGED <<cache, awxVars, elapsed, envVars>>

\* The next target has an inventory host: it goes on the in-memory record.
HostResolved(p, h, id, owned) ==
    [p EXCEPT !.st.hosts = recordRunHost(@, [name |-> h, id |-> id, created |-> owned]),
              !.left = @ \ {h},
              !.pc = IF p.left = {h} THEN "claim" ELSE "hosts"]

\* One target failed: what was made so far is recorded if that write succeeds.
HostFailed(n, st) == obj' \in {obj, Written(n, st)} /\ EndPass(n)

\* resolveRunHost: use what is there and create only what is missing.
\* A creation may succeed and its answer be lost.
resolveRunHost(n) ==
    LET p == pass[n] IN
    /\ At(n, "hosts")
    /\ \E h \in p.left :
         LET rec == hosts[p.ep][h]
             new == lastHost[p.ep] + 1
         IN
         \/ /\ rec.id = 0
            /\ hosts' = [hosts EXCEPT ![p.ep][h] = [id |-> new, by |-> p.uid]]
            /\ lastHost' = [lastHost EXCEPT ![p.ep] = new]
            /\ \/ Goto(n, HostResolved(p, h, new, TRUE)) /\ UNCHANGED obj
               \/ HostFailed(n, p.st)
         \/ /\ rec.id # 0
            /\ \/ Goto(n, HostResolved(p, h, rec.id, MarkedBy(rec, n))) /\ UNCHANGED obj
               \/ /\ ~MarkedBy(rec, n)      \* host variables were asked for
                  /\ Conclude(n, failRun(p.st))
            /\ UNCHANGED <<hosts, lastHost>>
    /\ UNCHANGED <<cache, jobs, req, elapsed, envVars>>

HostCallFails(n) ==
    /\ At(n, "hosts")
    /\ HostFailed(n, pass[n].st)
    /\ UNCHANGED <<cache, awxVars, elapsed, envVars>>

\* The one conditional write: it lands only if nothing was written to the
\* object since this pass read it.  Its answer may be lost, and the launch is
\* then not sent.
claimLaunch(n) ==
    LET p  == pass[n]
        st == [p.st EXCEPT !.attempted = second]
    IN
    /\ At(n, "claim")
    /\ p.fresh /\ Holder(n) = p.uid
    /\ obj' = [obj EXCEPT ![p.uid].st = st]
    /\ elapsed' = elapsed \ {<<"grace", p.uid>>}
    /\ \/ Goto(n, [p EXCEPT !.pc = "post", !.st = st, !.fresh = FALSE])
       \/ EndPass(n)
    /\ UNCHANGED <<cache, awxVars, envVars>>

SendLaunch(n) ==
    LET p == pass[n] IN
    /\ At(n, "post")
    /\ req' = [req EXCEPT ![p.uid] = [state |-> "sent", ep |-> p.ep, job |-> 0]]
    /\ Goto(n, [p EXCEPT !.pc = "answer"])
    /\ UNCHANGED <<obj, cache, jobs, hosts, lastHost, elapsed, envVars>>

\* An accepted launch carries its job, and perhaps the news that AWX ignored
\* the limit, which ends the run at once.
LaunchAccepted(n) ==
    LET p  == pass[n]
        st == [p.st EXCEPT !.job = req[p.uid].job, !.jobStatus = "running"]
    IN
    /\ At(n, "answer")
    /\ req[p.uid].state = "accepted"
    /\ Conclude(n, st) \/ Conclude(n, failRun(st))
    /\ UNCHANGED <<cache, awxVars, elapsed, envVars>>

\* The attempt marker comes off only when AWX itself turned the request down.
LaunchRefused(n) ==
    LET p == pass[n] IN
    /\ At(n, "answer")
    /\ req[p.uid].state = "refused"
    /\ Conclude(n, [p.st EXCEPT !.attempted = 0])
    /\ UNCHANGED <<cache, awxVars, elapsed, envVars>>

\* Mutant: any error takes the attempt marker off.
LostIsRefused(n) ==
    /\ At(n, "answer")
    /\ Conclude(n, [pass[n].st EXCEPT !.attempted = 0])
    /\ UNCHANGED <<cache, awxVars, elapsed, envVars>>

\* No answer, or none that says AWX refused, or no write of the answer there
\* was: the record keeps saying what claimLaunch made it say.
LaunchLost(n) ==
    /\ At(n, "answer")
    /\ EndPass(n)
    /\ UNCHANGED <<obj, cache, awxVars, elapsed, envVars>>

-----------------------------------------------------------------------------
(* cleanupAnsibleRun, and the release of the finalizer *)

\* The hosts this run's record says are its own to delete.
ToDelete(r, st) ==
    IF r \in Retain THEN {} ELSE {h \in st.hosts : h.id # 0 /\ h.created}

\* What a live read says is left to do.  With no connection, or one that names
\* another instance, nothing this run made can be reached, and it is let go.
cleanupAnsibleRun(n) ==
    LET r  == cache[n].uid
        st == obj[r].st
        p  == [NoPass EXCEPT !.uid = r]
    IN
    /\ Begins(n) /\ cache[n].deleting /\ cache[n].fin
    /\ Goto(n, CASE \/ Holder(n) # r
                    \/ ToDelete(r, st) = {} /\ ~Tracking(st) /\ ~Unresolved(st) ->
                      [p EXCEPT !.pc = "release"]
                 [] OTHER ->
                      IF conn = None \/ st.endpoint \notin {None, conn}
                      THEN [p EXCEPT !.pc = "release", !.abandoned = TRUE]
                      ELSE [p EXCEPT !.ep = conn, !.st = st, !.todo = ToDelete(r, st),
                              !.pc = IF Unresolved(st) THEN "resolve"
                                     ELSE IF Tracking(st) THEN "cancel" ELSE "delhosts"])
    /\ UNCHANGED <<obj, cache, awxVars, elapsed, envVars>>

\* One last look for the job of an unrecorded launch.
resolveLostJobForCleanup(n) ==
    LET p == pass[n] IN
    /\ At(n, "resolve")
    /\ \/ \E j \in matchLostLaunchJobs(p.ep, p.st) :
            LET s  == jobs[p.ep][j].status
                st == [p.st EXCEPT !.job = j, !.jobStatus = s]
            IN  /\ obj' = Written(n, st)
                /\ Goto(n, [p EXCEPT !.st = st,
                              !.pc = IF s \in Terminal THEN "delhosts" ELSE "cancel"])
       \/ Goto(n, [p EXCEPT !.pc = "delhosts"]) /\ UNCHANGED obj
    /\ UNCHANGED <<cache, awxVars, elapsed, envVars>>

\* Mutant: 202 Accepted is taken to mean the job has stopped.
CancelMeansStopped(n) ==
    LET p  == pass[n]
        st == [p.st EXCEPT !.cancelAsked = TRUE]
    IN
    /\ At(n, "cancel")
    /\ IF p.st.cancelAsked THEN UNCHANGED <<jobs, obj>>
       ELSE AskCancel(p.ep, p.st.job) /\ obj' = Written(n, st)
    /\ Goto(n, [p EXCEPT !.pc = "delhosts", !.st = st])
    /\ UNCHANGED <<cache, hosts, lastHost, req, elapsed, envVars>>

\* cancelAndConfirm, first half: ask once, and write down that it was asked.
RequestCancel(n) ==
    LET p  == pass[n]
        st == [p.st EXCEPT !.cancelAsked = TRUE]
    IN
    /\ At(n, "cancel")
    /\ IF p.st.cancelAsked THEN UNCHANGED <<jobs, obj>>
       ELSE AskCancel(p.ep, p.st.job) /\ obj' = Written(n, st)
    /\ Goto(n, [p EXCEPT !.pc = "confirm", !.st = st])
    /\ UNCHANGED <<cache, hosts, lastHost, req, elapsed, envVars>>

\* The cancel went out and the write that says so failed.
CancelUnrecorded(n) ==
    LET p == pass[n] IN
    /\ At(n, "cancel") /\ ~p.st.cancelAsked
    /\ AskCancel(p.ep, p.st.job)
    /\ EndPass(n)
    /\ UNCHANGED <<obj, cache, hosts, lastHost, req, elapsed, envVars>>

\* Mutant: the wait for the job has no end.
ConfirmForever(n) ==
    LET p == pass[n]
        s == jobs[p.ep][p.st.job].status
        st == [p.st EXCEPT !.jobStatus = s]
    IN
    /\ At(n, "confirm")
    /\ s # "purged"
    /\ obj' = IF s = p.st.jobStatus THEN obj ELSE Written(n, st)
    /\ Goto(n, IF s \in Terminal THEN [p EXCEPT !.pc = "delhosts", !.st = st] ELSE NoPass)
    /\ UNCHANGED <<cache, awxVars, elapsed, envVars>>

\* Mutant: the write carries only what this handler knows.
ConfirmOverwrites(n) ==
    LET p == pass[n]
        s == jobs[p.ep][p.st.job].status
        st == [NoStatus EXCEPT !.job = p.st.job, !.jobStatus = s, !.attempted = p.st.attempted]
    IN
    /\ At(n, "confirm")
    /\ s # "purged"
    /\ obj' = Written(n, st)
    /\ Goto(n, IF s \in Terminal \/ <<"cancel", p.uid>> \in elapsed
               THEN [p EXCEPT !.pc = "delhosts", !.st = st] ELSE NoPass)
    /\ UNCHANGED <<cache, awxVars, elapsed, envVars>>

\* Second half: the job has stopped, or was waited for long enough, or the
\* pass comes back later.  A job AWX no longer has is an error, StepFails.
ConfirmStopped(n) ==
    LET p == pass[n]
        s == jobs[p.ep][p.st.job].status
        st == [p.st EXCEPT !.jobStatus = s]
    IN
    /\ At(n, "confirm")
    /\ s # "purged"
    /\ obj' = IF s = p.st.jobStatus THEN obj ELSE Written(n, st)
    /\ Goto(n, IF s \in Terminal \/ <<"cancel", p.uid>> \in elapsed
               THEN [p EXCEPT !.pc = "delhosts", !.st = st] ELSE NoPass)
    /\ UNCHANGED <<cache, awxVars, elapsed, envVars>>

\* Each recorded host is read back by id and deleted only if it still carries
\* this run's marker.
DeleteHost(n) ==
    LET p == pass[n] IN
    /\ At(n, "delhosts")
    /\ \E h \in p.todo :
         LET rec == hosts[p.ep][h.name] IN
         /\ hosts' = IF rec.id = h.id /\ MarkedBy(rec, n)
                     THEN [hosts EXCEPT ![p.ep][h.name] = NoHost] ELSE hosts
         /\ Goto(n, [p EXCEPT !.todo = @ \ {h}])
    /\ UNCHANGED <<obj, cache, jobs, lastHost, req, elapsed, envVars>>

\* A failure is remembered, and the other hosts still go.
DeleteHostFails(n) ==
    LET p == pass[n] IN
    /\ At(n, "delhosts")
    /\ \E h \in p.todo : Goto(n, [p EXCEPT !.todo = @ \ {h}, !.failed = TRUE])
    /\ UNCHANGED <<obj, cache, awxVars, elapsed, envVars>>

\* Mutant: a failed deletion does not hold the finalizer.
HostsDoneAnyway(n) ==
    LET p == pass[n] IN
    /\ At(n, "delhosts") /\ p.todo = {}
    /\ Goto(n, [p EXCEPT !.pc = "release"])
    /\ UNCHANGED <<obj, cache, awxVars, elapsed, envVars>>

HostsDone(n) ==
    LET p == pass[n] IN
    /\ At(n, "delhosts") /\ p.todo = {}
    /\ Goto(n, IF p.failed THEN NoPass ELSE [p EXCEPT !.pc = "release"])
    /\ UNCHANGED <<obj, cache, awxVars, elapsed, envVars>>

\* The finalizer comes off whatever object holds the name.
ReleaseFinalizer(n) ==
    /\ At(n, "release")
    /\ EndPass(n)
    /\ IF Holder(n) = None THEN UNCHANGED obj
       ELSE obj' = [obj EXCEPT ![Holder(n)] =
                      IF @.deleting THEN Gone ELSE [@ EXCEPT !.fin = FALSE]]
    /\ elapsed' = TimersKept
    /\ UNCHANGED <<cache, awxVars, envVars>>

-----------------------------------------------------------------------------
Init ==
    /\ obj = [r \in Run |-> NoObject]
    /\ cache = [n \in Name |-> NoCopy]
    /\ pass = [n \in Name |-> NoPass]
    /\ conn \in Endpoint
    /\ jobs = [e \in Endpoint |-> <<>>]
    \* some hosts are there already, put in by hand
    /\ \E there \in SUBSET (Endpoint \X Host) :
         /\ hosts = [e \in Endpoint |-> [h \in Host |->
                       IF <<e, h>> \in there THEN [id |-> 1, by |-> None] ELSE NoHost]]
    /\ lastHost = [e \in Endpoint |-> 1]
    /\ req = [r \in Run |-> NoRequest]
    /\ second = 1
    /\ elapsed = {}
    /\ crashes = 0 /\ edits = 0

ApplyStep(n) ==
    \/ HoldFinalizer(n) \/ collectFinishedRun(n) \/ expireRun(n) \/ reconcileRun(n)
    \/ pollRun(n) \/ recoverLostLaunch(n) \/ PrepareLaunch(n) \/ resolveRunHost(n)
    \/ HostCallFails(n) \/ claimLaunch(n) \/ SendLaunch(n) \/ LaunchAccepted(n)
    \/ LaunchRefused(n) \/ LaunchLost(n)

CleanupStep(n) ==
    \/ cleanupAnsibleRun(n) \/ resolveLostJobForCleanup(n) \/ RequestCancel(n)
    \/ CancelUnrecorded(n) \/ ConfirmStopped(n) \/ DeleteHost(n) \/ DeleteHostFails(n)
    \/ HostsDone(n) \/ ReleaseFinalizer(n)

RunStep(r) ==
    \/ CreateRun(r) \/ DeleteRun(r) \/ EditRun(r) \/ AWXLaunch(r) \/ AWXRefuse(r)
    \/ \E t \in Timers : Elapse(t, r)

AWXStep(e) ==
    \/ \E j \in DOMAIN jobs[e] : JobEnds(e, j) \/ PurgeJob(e, j)
    \/ OtherLaunch(e)
    \/ \E h \in Host : EditInventory(e, h)

Next ==
    \/ \E n \in Name : ApplyStep(n) \/ CleanupStep(n) \/ StepFails(n) \/ SyncCache(n)
    \/ \E r \in Run : RunStep(r)
    \/ \E e \in Endpoint : AWXStep(e)
    \/ Crash \/ Repoint \/ Tick

Spec == Init /\ [][Next]_vars

-----------------------------------------------------------------------------
(* Fairness *)

PassStep(n) == ApplyStep(n) \/ CleanupStep(n) \/ StepFails(n)

\* The queue hands out keys, the watch delivers and time passes, so a pass ends
\* and another follows (a cleanup that failed is requeued without limit, any
\* other key comes back with the resync).  A call that is repeated for ever
\* succeeds in the end.  Nothing is assumed of AWX's jobs, which may run for
\* ever, nor of what users do.
Fairness ==
    /\ \A n \in Name :
         /\ WF_vars(SyncCache(n)) /\ WF_vars(PassStep(n))
         /\ SF_vars(expireRun(n) /\ obj' # obj)
         /\ SF_vars(resolveLostJobForCleanup(n))
         /\ SF_vars(RequestCancel(n))
         /\ SF_vars(ConfirmStopped(n))
         /\ SF_vars(DeleteHost(n))
         /\ SF_vars(ReleaseFinalizer(n))
    /\ \A r \in Run, t \in Timers : WF_vars(Elapse(t, r))

FairSpec == Spec /\ Fairness

-----------------------------------------------------------------------------
(* Safety *)

\* Every variable stays in its type; in particular only statuses AWX gives to a
\* job it still has, or "unknown", are ever recorded in status.jobStatus.
TypeOK ==
    /\ obj \in [Run -> Object]
    /\ cache \in [Name -> Copy]
    /\ pass \in [Name -> Pass]
    /\ conn \in Endpoint \cup {None}
    /\ jobs \in [Endpoint -> Seq(Job)]
    /\ hosts \in [Endpoint -> [Host -> HostRec]]
    /\ lastHost \in [Endpoint -> Nat]
    /\ req \in [Run -> Request]
    /\ second \in Nat \ {0}
    /\ elapsed \subseteq Timers \X Run
    /\ crashes \in Nat /\ edits \in Nat

\* One AnsibleRun object starts at most one AWX job, on whatever instance:
\* applyAnsibleRun "launch[es] at most one AWX job", through stale caches, lost
\* answers, refusals, conflicts, repointed connections and crashes.
AtMostOneJob ==
    \A e, f \in Endpoint : \A i \in DOMAIN jobs[e], j \in DOMAIN jobs[f] :
        jobs[e][i].by = jobs[f][j].by /\ jobs[e][i].by # None => e = f /\ i = j

\* writeRunDetails, patchFinalizer and the deletion of hosts address an object
\* by name.  The object there is nevertheless always the one the pass read:
\* what one run recorded is never written into a replacement of the same name,
\* and only a finalizer whose cleanup was done is released.
WritesReachOwnObject ==
    \A n \in Name :
        /\ pass[n].pc \notin {"idle", "release"} => Holder(n) = pass[n].uid
        /\ pass[n].pc = "release" /\ Holder(n) # None /\ obj[Holder(n)].fin
              => Holder(n) = pass[n].uid /\ obj[Holder(n)].deleting

\* While the object lives, a recorded job id is never lost or replaced and a
\* finished run stays finished, whichever handler writes the status and
\* however old the record it started from.
RecordIsKept ==
    [][\A r \in Run : obj'[r].phase = "live" =>
         /\ obj[r].st.job # 0 => obj'[r].st.job = obj[r].st.job
         /\ obj[r].st.finished => obj'[r].st.finished]_vars

\* r launched this job, or could not tell it from one it launched.
CouldBeOf(r, st, e, j) ==
    \/ jobs[e][j].by = r
    \/ jobs[e][j].limit = Targets[r] /\ jobs[e][j].created >= st.attempted

\* A job is cancelled only for a run that is being deleted or is out of time,
\* that recorded this very job on this instance, and that could have started
\* it: never one older than the run's own attempt or with another limit, and
\* never the job of the same number on another instance (cancelRunJob,
\* cancelAndConfirm, matchLostLaunchJobs).
CancelsOnlyPlausibleJob ==
    [][\A e \in Endpoint : \A j \in DOMAIN jobs[e] :
         jobs'[e][j].cancel /\ ~jobs[e][j].cancel =>
            \E r \in Run : LET st == obj[r].st IN
               /\ obj[r].deleting \/ <<"deadline", r>> \in elapsed
               /\ st.endpoint = e /\ st.job = j /\ CouldBeOf(r, st, e, j)]_vars

\* The controller deletes an inventory host only in the cleanup of the run that
\* made it, and not while that run's recorded job still runs, unless the wait
\* for its cancellation timed out (cleanupAnsibleRun, cancelAndConfirm).
HostOutlivesJob ==
    [][\A e \in Endpoint, h \in Host :
         hosts[e][h].id # 0 /\ hosts'[e][h].id = 0 /\ edits' = edits =>
            \E n \in Name :
               LET r == pass[n].uid IN
               /\ At(n, "delhosts") /\ MarkedBy(hosts[e][h], n)
               /\ \A j \in DOMAIN jobs[e] :
                    jobs[e][j].status = "running" /\ obj[r].st.job = j
                    => <<"cancel", r>> \in elapsed]_vars

\* An object leaves only when its recorded job was seen to stop or waited for
\* long enough, and every host it recorded as its own is gone or is somebody
\* else's now, unless there was no way to reach the instance they are on
\* (cleanupAnsibleRun, and the finalizer that waits for it).
ReleasedClean ==
    [][\A r \in Run :
         obj[r].phase = "live" /\ obj[r].fin /\ obj'[r].phase = "gone" =>
            LET st == obj[r].st
                e  == st.endpoint
            IN  \/ pass[NameOf[r]].abandoned
                \/ /\ Tracking(st) => <<"cancel", r>> \in elapsed
                   /\ \A h \in ToDelete(r, st) :
                        ~(hosts[e][h.name].id = h.id /\ MarkedBy(hosts[e][h.name], NameOf[r]))]_vars

\* A run reported Ready (finished, jobStatus successful) recorded a job that
\* ended successfully on the instance it recorded (updateAnsibleRunStatus).
SuccessIsReal ==
    \A r \in Run :
        LET st == obj[r].st IN
        st.finished /\ st.jobStatus = "successful" =>
            /\ st.job \in DOMAIN jobs[st.endpoint]
            /\ jobs[st.endpoint][st.job].status \in {"successful", "purged"}

-----------------------------------------------------------------------------
(* Why these hold: an inductive invariant *)

\* A name has one holder.
OneHolder ==
    \A r, s \in Run : NameOf[r] = NameOf[s] /\ obj[r].phase = "live" /\ obj[s].phase = "live"
                       => r = s

\* What a record says is backed by AWX and by the attempt marker.
RecordOK(st) ==
    /\ st.attempted # 0 => st.endpoint \in Endpoint
    /\ st.job # 0 => st.attempted # 0 /\ st.job \in DOMAIN jobs[st.endpoint]
    /\ st.jobStatus = "successful" =>
          st.job # 0 /\ jobs[st.endpoint][st.job].status \in {"successful", "purged"}

Unlaunched(st) == st.job = 0 /\ st.attempted = 0 /\ ~st.finished

\* A launch was sent for r and was not turned down.
MayHaveLaunched(r) == req[r].state \in {"sent", "accepted"}

\* The marker is on the record of every run whose launch may have started a job.
RunOK(r) ==
    /\ RecordOK(obj[r].st)
    /\ obj[r].phase = "none" => obj[r] = NoObject /\ req[r] = NoRequest
    /\ obj[r].phase = "live" /\ obj[r].st.attempted = 0 => ~MayHaveLaunched(r)
    /\ req[r].state # "none" => req[r].ep \in Endpoint
    /\ req[r].state = "accepted" => req[r].job \in DOMAIN jobs[req[r].ep]

\* A run's job is the one its last request was answered with.
JobsOK ==
    \A e \in Endpoint : \A j \in DOMAIN jobs[e] : \A r \in Run :
        jobs[e][j].by = r => req[r] = [state |-> "accepted", ep |-> e, job |-> j]

\* No object that holds the name n carries the finalizer.
NoFinalizer(n) ==
    \A r \in Run : NameOf[r] = n /\ obj[r].phase = "live" => ~obj[r].fin

\* The copy is old, and never ahead.
CacheOK(n, c) ==
    c.uid # None =>
        /\ NameOf[c.uid] = n /\ obj[c.uid].phase # "none"
        /\ obj[c.uid].phase = "live" => (c.fin => obj[c.uid].fin)
                                       /\ (c.deleting => obj[c.uid].deleting)
        /\ obj[c.uid].phase = "gone" /\ c.deleting /\ c.fin => NoFinalizer(n)

\* What a pass on n holds in memory, at each of its steps, against the object.
PassOK(n, p) ==
    /\ p.pc \notin {"idle", "release"} =>
          /\ p.uid \in Run /\ NameOf[p.uid] = n
          /\ obj[p.uid].phase = "live" /\ obj[p.uid].fin
    /\ p.pc \notin {"idle", "release", "read"} =>
          p.ep \in Endpoint /\ p.st.endpoint \in {None, p.ep}
    /\ p.pc \notin {"idle", "release", "read", "hosts", "claim"} =>
          p.st = obj[p.uid].st
    /\ p.pc \in {"launch", "hosts", "claim"} =>
          /\ Unlaunched(p.st) /\ Unlaunched(obj[p.uid].st)
          /\ p.st.jobStatus # "successful"
    /\ p.pc \in {"hosts", "claim"} => p.st.endpoint = p.ep
    /\ p.pc = "poll" => p.st.job # 0 /\ ~p.st.finished
    /\ p.pc \in {"recover", "resolve", "post", "answer"} => Unresolved(p.st)
    /\ p.pc \in {"cancel", "confirm"} => p.st.job # 0
    /\ p.pc \in {"resolve", "cancel", "confirm", "delhosts"} => obj[p.uid].deleting
    /\ p.pc = "post" => ~MayHaveLaunched(p.uid)
    /\ p.pc = "answer" => req[p.uid].state # "none" /\ req[p.uid].ep = p.ep
    /\ p.pc = "release" =>
          /\ p.uid \in Run /\ NameOf[p.uid] = n /\ obj[p.uid].phase # "none"
          /\ obj[p.uid].phase = "live" => obj[p.uid].deleting
          /\ obj[p.uid].phase = "gone" => NoFinalizer(n)

\* The inductive invariant behind AtMostOneJob, WritesReachOwnObject,
\* SuccessIsReal and RecordIsKept: every record of a run, in the API server, in
\* a stale cache and in the memory of a pass, against what AWX was sent.
IInv ==
    /\ TypeOK
    /\ OneHolder
    /\ \A r \in Run : RunOK(r)
    /\ JobsOK
    /\ \A n \in Name : CacheOK(n, cache[n]) /\ PassOK(n, pass[n])

-----------------------------------------------------------------------------
(* Liveness *)

\* A run that is being deleted goes: cleanup never holds the finalizer for
\* ever, even for a job that does not stop (cancelConfirmTimeout).
DeletionCompletes ==
    \A r \in Run : obj[r].deleting ~> obj[r].phase = "gone"

\* A run with a deadline reaches an end, whatever AWX does (expireRun).
DeadlineEndsRun ==
    \A r \in HasDeadline :
        obj[r].phase = "live" ~> obj[r].st.finished \/ obj[r].phase = "gone"

-----------------------------------------------------------------------------
(* What comments and docs say and the code does not do *)

\* "Hosts already upserted when a later one fails are recorded in status, so
\* they are cleaned up with the run rather than leaked" (launchRun): a run that
\* is gone, and did not ask to retain them, leaves no host it created.
NoHostLeaked ==
    \A r \in Run : obj[r].phase = "gone" /\ r \notin Retain =>
        \A e \in Endpoint, h \in Host : hosts[e][h].by # r

\* A run whose launch answer was lost "adopts the one it started"
\* (recoverLostLaunch, README.md): the job a run records is its own.
AdoptsOnlyOwnJob ==
    \A r \in Run : LET st == obj[r].st IN
        st.job # 0 => jobs[st.endpoint][st.job].by = r

\* "A terminal outcome is the last word" (updateAnsibleRunStatus): a run that
\* was reported Failed is not reported Ready later.
Failed(st) == st.finished /\ st.jobStatus # "successful"
OutcomeIsFinal ==
    [][\A r \in Run : obj'[r].phase = "live" /\ Failed(obj[r].st) => Failed(obj'[r].st)]_vars

=============================================================================
