-------------------------- MODULE AnsibleRunProofs --------------------------
(***************************************************************************)
(* Proofs about AnsibleRun, for any number of runs, names, AWX instances,  *)
(* hosts, crashes and edits.                                               *)
(***************************************************************************)
EXTENDS AnsibleRun, TLAPS, SequenceTheorems

-----------------------------------------------------------------------------
(* The holder of a name, and writes addressed to it *)

\* Whatever object lives under a name is its holder.
LEMMA HolderIs ==
    ASSUME OneHolder, NEW r \in Run, obj[r].phase = "live"
    PROVE  Holder(NameOf[r]) = r
<1>1. Holders(NameOf[r]) = {r}
  BY DEF OneHolder, Holders
<1>. QED
  BY <1>1 DEF Holder

\* A name with a holder has a live one, of that name.
LEMMA HolderLives ==
    ASSUME ConstantsAssumption, NEW n \in Name, Holder(n) # None
    PROVE  Holder(n) \in Run /\ NameOf[Holder(n)] = n /\ obj[Holder(n)].phase = "live"
<1>1. Holders(n) # {}
  BY DEF Holder
<1>2. PICK r \in Holders(n) : TRUE
  BY <1>1
<1>3. (CHOOSE s \in Holders(n) : TRUE) \in Holders(n)
  BY <1>2
<1>. QED
  BY <1>1, <1>3 DEF Holder, Holders

\* A write addressed by name reaches the object that lives there.
LEMMA WrittenIs ==
    ASSUME ConstantsAssumption, OneHolder, NEW r \in Run, obj[r].phase = "live", NEW st
    PROVE  Written(NameOf[r], st) = [obj EXCEPT ![r].st = st]
BY HolderIs DEF Written, ConstantsAssumption

-----------------------------------------------------------------------------
(* Empty values *)

\* What nothing looks like is of the right type.
LEMMA EmptyTyped ==
    /\ NoStatus \in Status /\ NoObject \in Object /\ Gone \in Object
    /\ NoCopy \in Copy /\ NoPass \in Pass /\ NoRequest \in Request
<1>1. NoStatus \in Status
  BY DEF NoStatus, Status
<1>2. NoObject \in Object
  BY <1>1 DEF NoObject, Object
<1>3. Gone \in Object
  BY <1>1 DEF Gone, NoObject, Object
<1>4. NoPass \in Pass
  BY <1>1 DEF NoPass, Pass, PC
<1>5. NoCopy \in Copy /\ NoRequest \in Request
  BY DEF NoCopy, Copy, NoRequest, Request
<1>. QED
  BY <1>1, <1>2, <1>3, <1>4, <1>5

\* An empty record claims nothing.
LEMMA EmptyRecordOK == RecordOK(NoStatus) /\ RecordOK(NoStatus)'
BY DEF RecordOK, NoStatus

\* A pass that has ended relies on nothing.
LEMMA EndedPassOK ==
    ASSUME NEW n \in Name
    PROVE  PassOK(n, NoPass) /\ PassOK(n, NoPass)'
BY DEF PassOK, NoPass

-----------------------------------------------------------------------------
(* Steps by what they change *)

\* AWX keeps the jobs it has, and what they ended as; new ones are not a run's.
JobsKept ==
    /\ jobs' \in [Endpoint -> Seq(Job)]
    /\ \A e \in Endpoint :
         /\ DOMAIN jobs[e] \subseteq DOMAIN jobs'[e]
         /\ \A j \in DOMAIN jobs'[e] \ DOMAIN jobs[e] : jobs'[e][j].by \notin Run
         /\ \A j \in DOMAIN jobs[e] :
              /\ jobs'[e][j].by = jobs[e][j].by
              /\ jobs[e][j].status \in {"successful", "purged"} =>
                   jobs'[e][j].status \in {"successful", "purged"}

\* The parts of the state the invariant only types.
RestTyped ==
    /\ conn' \in Endpoint \cup {None}
    /\ hosts' \in [Endpoint -> [Host -> HostRec]]
    /\ lastHost' \in [Endpoint -> Nat]
    /\ second' \in Nat \ {0}
    /\ elapsed' \subseteq Timers \X Run
    /\ crashes' \in Nat /\ edits' \in Nat

\* A record stays backed while AWX keeps its jobs.
LEMMA RecordKept ==
    ASSUME JobsKept, NEW st \in Status, RecordOK(st)
    PROVE  RecordOK(st)'
BY DEF RecordOK, JobsKept

\* A step of the pass on n that writes st to its object and goes on as q.
LEMMA StatusStep ==
    ASSUME IInv, JobsKept, RestTyped,
           NEW n \in Name, NEW r \in Run, NameOf[r] = n, obj[r].phase = "live",
           NEW st \in Status, NEW q \in Pass,
           RecordOK(st)',
           st.attempted = 0 => ~MayHaveLaunched(r),
           PassOK(n, q)',
           obj' = [obj EXCEPT ![r].st = st],
           pass' = [pass EXCEPT ![n] = q],
           UNCHANGED <<cache, req>>
    PROVE  IInv'
<1>. USE DEF IInv
<1>1. obj' \in [Run -> Object]
  BY DEF TypeOK, Object
<1>2. /\ obj'[r].st = st /\ obj'[r].phase = "live"
      /\ obj'[r].fin = obj[r].fin /\ obj'[r].deleting = obj[r].deleting
  BY DEF TypeOK, Object
<1>3. \A s \in Run : s # r => obj'[s] = obj[s]
  BY DEF TypeOK, Object
<1>4. \A s \in Run : /\ obj'[s].phase = obj[s].phase
                     /\ obj'[s].fin = obj[s].fin /\ obj'[s].deleting = obj[s].deleting
  BY <1>2, <1>3
<1>5. TypeOK'
  BY <1>1 DEF TypeOK, JobsKept, RestTyped
<1>6. OneHolder'
  BY <1>4 DEF OneHolder
<1>7. ASSUME NEW s \in Run PROVE RunOK(s)'
  <2>1. RecordOK(obj[s].st)'
    <3>1. CASE s = r
      BY <3>1, <1>2 DEF RecordOK
    <3>2. CASE s # r
      <4>1. obj[s].st \in Status /\ RecordOK(obj[s].st)
        BY DEF TypeOK, Object, RunOK
      <4>. QED
        BY <3>2, <1>3, <4>1 DEF RecordOK, JobsKept
    <3>. QED
      BY <3>1, <3>2
  <2>2. /\ (obj[s].phase = "none")' => (obj[s] = NoObject /\ req[s] = NoRequest)'
        /\ (obj[s].phase = "live" /\ obj[s].st.attempted = 0)' => ~MayHaveLaunched(s)'
        /\ (req[s].state # "none")' => (req[s].ep \in Endpoint)'
    BY <1>2, <1>3 DEF RunOK, MayHaveLaunched
  <2>3. (req[s].state = "accepted")' => (req[s].job \in DOMAIN jobs[req[s].ep])'
    BY DEF RunOK, JobsKept
  <2>. QED
    BY <2>1, <2>2, <2>3 DEF RunOK
<1>8. JobsOK'
  BY DEF JobsOK, JobsKept
<1>9. ASSUME NEW m \in Name PROVE CacheOK(m, cache[m])'
  BY <1>4 DEF CacheOK, NoFinalizer, TypeOK, Copy
<1>10. ASSUME NEW m \in Name PROVE PassOK(m, pass[m])'
  <2>1. CASE m = n
    BY <2>1 DEF TypeOK
  <2>2. CASE m # n
    <3>1. pass'[m] = pass[m] /\ PassOK(m, pass[m])
      BY <2>2 DEF TypeOK
    <3>2. pass[m].pc \notin {"idle", "release"} => pass[m].uid \in Run /\ pass[m].uid # r
      BY <3>1, <2>2 DEF PassOK
    <3>. QED
      BY <3>1, <3>2, <1>3, <1>4 DEF PassOK, NoFinalizer, MayHaveLaunched
  <2>. QED
    BY <2>1, <2>2
<1>. QED
  BY <1>5, <1>6, <1>7, <1>8, <1>9, <1>10

\* A step that leaves the objects alone; the pass on n goes on as q.
LEMMA PassOnlyStep ==
    ASSUME IInv, JobsKept, RestTyped,
           NEW n \in Name, NEW q \in Pass, PassOK(n, q),
           pass' = [pass EXCEPT ![n] = q],
           UNCHANGED <<obj, cache, req>>
    PROVE  IInv'
<1>. USE DEF IInv
<1>1. TypeOK'
  BY DEF TypeOK, JobsKept, RestTyped
<1>2. OneHolder'
  BY DEF OneHolder
<1>3. ASSUME NEW s \in Run PROVE RunOK(s)'
  <2>1. obj[s].st \in Status /\ RecordOK(obj[s].st)
    BY DEF TypeOK, Object, RunOK
  <2>2. RecordOK(obj[s].st)'
    BY <2>1 DEF RecordOK, JobsKept
  <2>. QED
    BY <2>2 DEF RunOK, MayHaveLaunched, JobsKept
<1>4. JobsOK'
  BY DEF JobsOK, JobsKept
<1>5. ASSUME NEW m \in Name PROVE CacheOK(m, cache[m])' /\ PassOK(m, pass[m])'
  <2>1. CacheOK(m, cache[m])'
    BY DEF CacheOK, NoFinalizer
  <2>2. pass'[m] = IF m = n THEN q ELSE pass[m]
    BY DEF TypeOK
  <2>3. PassOK(m, pass'[m])
    BY <2>2
  <2>4. PassOK(m, pass[m])'
    BY <2>3 DEF PassOK, NoFinalizer, MayHaveLaunched
  <2>. QED
    BY <2>1, <2>4
<1>. QED
  BY <1>1, <1>2, <1>3, <1>4, <1>5

\* A step that changes nothing the invariant relates.
LEMMA OutsideStep ==
    ASSUME IInv, JobsKept, RestTyped, UNCHANGED <<obj, cache, req, pass>>
    PROVE  IInv'
<1>. USE DEF IInv
<1>1. TypeOK'
  BY DEF TypeOK, JobsKept, RestTyped
<1>2. OneHolder'
  BY DEF OneHolder
<1>3. ASSUME NEW s \in Run PROVE RunOK(s)'
  <2>1. obj[s].st \in Status /\ RecordOK(obj[s].st)
    BY DEF TypeOK, Object, RunOK
  <2>2. RecordOK(obj[s].st)'
    BY <2>1 DEF RecordOK, JobsKept
  <2>. QED
    BY <2>2 DEF RunOK, MayHaveLaunched, JobsKept
<1>4. JobsOK'
  BY DEF JobsOK, JobsKept
<1>5. ASSUME NEW m \in Name PROVE CacheOK(m, cache[m])' /\ PassOK(m, pass[m])'
  BY DEF CacheOK, NoFinalizer, PassOK, MayHaveLaunched
<1>. QED
  BY <1>1, <1>2, <1>3, <1>4, <1>5

\* Steps that do not touch AWX's jobs.
LEMMA JobsStay ==
    ASSUME TypeOK, UNCHANGED jobs
    PROVE  JobsKept
BY DEF TypeOK, JobsKept

\* One job changes, but not whose it is, and not what it ended as.
LEMMA OneJobChanges ==
    ASSUME TypeOK, NEW e \in Endpoint, NEW j \in DOMAIN jobs[e], NEW x \in Job,
           x.by = jobs[e][j].by,
           jobs[e][j].status \in {"successful", "purged"} => x.status \in {"successful", "purged"},
           jobs' = [jobs EXCEPT ![e] = [@ EXCEPT ![j] = x]]
    PROVE  JobsKept
<1>1. jobs[e] \in Seq(Job) /\ [jobs[e] EXCEPT ![j] = x] \in Seq(Job)
  BY ExceptSeq DEF TypeOK
<1>2. jobs' \in [Endpoint -> Seq(Job)]
  BY <1>1 DEF TypeOK
<1>3. ASSUME NEW f \in Endpoint
      PROVE  /\ DOMAIN jobs'[f] = DOMAIN jobs[f]
             /\ \A i \in DOMAIN jobs[f] :
                   jobs'[f][i] = IF f = e /\ i = j THEN x ELSE jobs[f][i]
  BY <1>1 DEF TypeOK
<1>. QED
  BY <1>2, <1>3 DEF JobsKept

-----------------------------------------------------------------------------
(* The environment's steps *)

\* A cancel request neither moves nor ends a job.
LEMMA CancelKeepsJobs ==
    ASSUME TypeOK, NEW e \in Endpoint, NEW j \in DOMAIN jobs[e], AskCancel(e, j)
    PROVE  JobsKept
<1>. DEFINE x == [jobs[e][j] EXCEPT !.cancel = @ \/ jobs[e][j].status = "running"]
<1>1. jobs[e] \in Seq(Job) /\ jobs[e][j] \in Job
  BY ElementOfSeq DEF TypeOK
<1>2. x \in Job /\ x.by = jobs[e][j].by /\ x.status = jobs[e][j].status
  BY <1>1 DEF Job
<1>3. jobs' = [jobs EXCEPT ![e] = [@ EXCEPT ![j] = x]]
  BY <1>1 DEF AskCancel, TypeOK
<1>. QED
  BY <1>2, <1>3, OneJobChanges

\* AWX ends jobs and purges their records, and nothing more.
LEMMA JobEndsKeepsJobs ==
    ASSUME TypeOK, NEW e \in Endpoint, NEW j \in DOMAIN jobs[e],
           JobEnds(e, j) \/ PurgeJob(e, j)
    PROVE  JobsKept
<1>1. jobs[e] \in Seq(Job) /\ jobs[e][j] \in Job
  BY ElementOfSeq DEF TypeOK
<1>2. PICK s \in JobStatuses :
        /\ jobs' = [jobs EXCEPT ![e][j].status = s]
        /\ jobs[e][j].status \in {"successful", "purged"} => s = "purged"
  BY DEF JobEnds, PurgeJob, JobStatuses, Terminal
<1>. DEFINE x == [jobs[e][j] EXCEPT !.status = s]
<1>3. x \in Job /\ x.by = jobs[e][j].by /\ x.status = s
  BY <1>1 DEF Job
<1>4. jobs' = [jobs EXCEPT ![e] = [@ EXCEPT ![j] = x]]
  BY <1>1, <1>2 DEF TypeOK
<1>. HIDE DEF x
<1>5. jobs[e][j].status \in {"successful", "purged"} => x.status \in {"successful", "purged"}
  BY <1>2, <1>3
<1>. QED
  BY <1>3, <1>4, <1>5, OneJobChanges

\* What a job appended to an instance's history leaves as it was.
LEMMA AppendJob ==
    ASSUME TypeOK, NEW e \in Endpoint, NEW x \in Job,
           jobs' = [jobs EXCEPT ![e] = Append(@, x)]
    PROVE  /\ jobs' \in [Endpoint -> Seq(Job)]
           /\ Len(jobs[e]) + 1 \in DOMAIN jobs'[e]
           /\ \A f \in Endpoint :
                /\ DOMAIN jobs[f] \subseteq DOMAIN jobs'[f]
                /\ \A j \in DOMAIN jobs[f] : jobs'[f][j] = jobs[f][j]
                /\ \A j \in DOMAIN jobs'[f] \ DOMAIN jobs[f] :
                     f = e /\ j = Len(jobs[e]) + 1 /\ jobs'[f][j] = x
<1>1. jobs[e] \in Seq(Job)
  BY DEF TypeOK
<1>2. /\ Append(jobs[e], x) \in Seq(Job)
      /\ DOMAIN jobs[e] = 1 .. Len(jobs[e])
      /\ DOMAIN Append(jobs[e], x) = 1 .. Len(jobs[e]) + 1
      /\ Len(jobs[e]) \in Nat
      /\ \A j \in 1 .. Len(jobs[e]) : Append(jobs[e], x)[j] = jobs[e][j]
      /\ Append(jobs[e], x)[Len(jobs[e]) + 1] = x
  BY <1>1, AppendProperties, LenProperties
<1>3. \A f \in Endpoint : jobs'[f] = IF f = e THEN Append(jobs[e], x) ELSE jobs[f]
  BY DEF TypeOK
<1>4. jobs' \in [Endpoint -> Seq(Job)]
  BY <1>2 DEF TypeOK
<1>. QED
  BY <1>2, <1>3, <1>4

\* Moving the resourceVersion on leaves a pass where it is.
LEMMA StaleSame ==
    ASSUME TypeOK, NEW r \in Run
    PROVE  /\ Stale(r) \in [Name -> Pass]
           /\ \A n \in Name : /\ Stale(r)[n].pc = pass[n].pc /\ Stale(r)[n].uid = pass[n].uid
                               /\ Stale(r)[n].ep = pass[n].ep /\ Stale(r)[n].st = pass[n].st
<1>1. ASSUME NEW n \in Name
      PROVE  /\ Stale(r)[n] \in Pass
             /\ Stale(r)[n].pc = pass[n].pc /\ Stale(r)[n].uid = pass[n].uid
             /\ Stale(r)[n].ep = pass[n].ep /\ Stale(r)[n].st = pass[n].st
  BY DEF Stale, TypeOK, Pass
<1>2. Stale(r) = [n \in Name |-> Stale(r)[n]]
  BY DEF Stale
<1>. QED
  BY <1>1, <1>2

\* The object r becomes o: marked for deletion, gone, or what it was.
LEMMA ObjectStep ==
    ASSUME IInv, RestTyped, NEW r \in Run, obj[r].phase = "live",
           NEW o \in {obj[r], [obj[r] EXCEPT !.deleting = TRUE], Gone},
           obj' = [obj EXCEPT ![r] = o],
           pass' \in [Name -> Pass],
           \A n \in Name : PassOK(n, pass[n])',
           UNCHANGED <<cache, jobs, req>>
    PROVE  IInv'
<1>. USE DEF IInv
<1>1. o \in Object
  <2>1. obj[r] \in Object /\ [obj[r] EXCEPT !.deleting = TRUE] \in Object
    BY DEF TypeOK, Object
  <2>. QED
    BY <2>1, EmptyTyped
<1>2. \A s \in Run : obj'[s] = IF s = r THEN o ELSE obj[s]
  BY DEF TypeOK
<1>3. \/ /\ o.phase = "live" /\ o.fin = obj[r].fin /\ o.st = obj[r].st
         /\ obj[r].deleting => o.deleting
      \/ o.phase = "gone" /\ o.st = NoStatus
  BY DEF TypeOK, Object, Gone, NoObject
<1>4. TypeOK'
  BY <1>1 DEF TypeOK, RestTyped
<1>5. OneHolder'
  BY <1>2, <1>3 DEF OneHolder
<1>6. ASSUME NEW s \in Run PROVE RunOK(s)'
  <2>1. RecordOK(obj'[s].st)
    BY <1>2, <1>3, EmptyRecordOK DEF RunOK
  <2>. QED
    BY <1>2, <1>3, <2>1 DEF RunOK, RecordOK, MayHaveLaunched
<1>7. JobsOK'
  BY DEF JobsOK
<1>8. ASSUME NEW m \in Name PROVE CacheOK(m, cache[m])'
  <2>1. CacheOK(m, cache[m])
    OBVIOUS
  <2>2. cache[m].uid # None => cache[m].uid \in Run
    BY DEF TypeOK, Copy
  <2>3. NameOf[r] = m /\ o.phase = "gone" => NoFinalizer(m)'
    BY <1>2 DEF OneHolder, NoFinalizer
  <2>4. NoFinalizer(m) => NoFinalizer(m)'
    BY <1>2, <1>3 DEF NoFinalizer
  <2>. QED
    BY <1>2, <1>3, <2>1, <2>2, <2>3, <2>4 DEF CacheOK
<1>. QED
  BY <1>4, <1>5, <1>6, <1>7, <1>8

\* A new object is unlaunched, and no pass or copy knows it.
LEMMA CreateRunOK ==
    ASSUME ConstantsAssumption, IInv, NEW r \in Run, CreateRun(r)
    PROVE  IInv'
<1>. USE DEF IInv
<1>1. obj[r] = NoObject /\ req[r] = NoRequest
  BY DEF CreateRun, RunOK
<1>2. /\ obj'[r].phase = "live" /\ obj'[r].st = NoStatus /\ ~obj'[r].fin
      /\ obj' \in [Run -> Object]
  <2>1. obj' = [obj EXCEPT ![r] = [NoObject EXCEPT !.phase = "live"]]
    BY <1>1 DEF CreateRun, TypeOK
  <2>2. [NoObject EXCEPT !.phase = "live"] \in Object
    BY EmptyTyped DEF NoObject, Object
  <2>. QED
    BY <2>1, <2>2 DEF TypeOK, NoObject
<1>3. \A s \in Run : s # r => obj'[s] = obj[s]
  BY DEF CreateRun, TypeOK
<1>4. /\ UNCHANGED <<cache, pass, jobs, req>>
      /\ RestTyped
  BY DEF CreateRun, awxVars, envVars, RestTyped, TypeOK
<1>5. TypeOK'
  BY <1>2, <1>4 DEF TypeOK, RestTyped
<1>6. OneHolder'
  BY <1>2, <1>3 DEF CreateRun, Holders, OneHolder
<1>7. ASSUME NEW s \in Run PROVE RunOK(s)'
  <2>1. RecordOK(obj'[s].st)
    BY <1>2, <1>3, EmptyRecordOK DEF RunOK
  <2>. QED
    BY <1>1, <1>2, <1>3, <1>4, <2>1 DEF RunOK, RecordOK, MayHaveLaunched, NoRequest
<1>8. JobsOK'
  BY <1>4 DEF JobsOK
<1>9. ASSUME NEW m \in Name PROVE CacheOK(m, cache[m])'
  <2>1. cache[m].uid # None => cache[m].uid \in Run /\ cache[m].uid # r
    BY <1>1 DEF TypeOK, Copy, CacheOK, NoObject
  <2>. QED
    BY <1>2, <1>3, <1>4, <2>1 DEF CacheOK, NoFinalizer
<1>10. ASSUME NEW m \in Name PROVE PassOK(m, pass[m])'
  <2>1. PassOK(m, pass[m]) /\ (pass[m].pc # "idle" => pass[m].uid \in Run /\ pass[m].uid # r)
    BY <1>1 DEF PassOK, NoObject
  <2>. QED
    BY <1>2, <1>3, <1>4, <2>1 DEF PassOK, NoFinalizer, MayHaveLaunched
<1>. QED
  BY <1>5, <1>6, <1>7, <1>8, <1>9, <1>10

\* Deleting an object marks it or removes it, under any pass at work on it.
LEMMA DeleteRunOK ==
    ASSUME IInv, NEW r \in Run, DeleteRun(r)
    PROVE  IInv'
<1>. USE DEF IInv
<1>. DEFINE o == MarkDeleted(obj[r])
<1>1. /\ obj[r].phase = "live" /\ ~obj[r].deleting
      /\ o \in {[obj[r] EXCEPT !.deleting = TRUE], Gone}
      /\ obj[r].fin => o = [obj[r] EXCEPT !.deleting = TRUE]
      /\ obj' = [obj EXCEPT ![r] = o]
  BY DEF DeleteRun, MarkDeleted, TypeOK
<1>2. UNCHANGED <<cache, jobs, req>> /\ RestTyped
  BY DEF DeleteRun, awxVars, envVars, RestTyped, TypeOK, TimersKept
<1>3. /\ pass' \in [Name -> Pass]
      /\ \A n \in Name : /\ pass'[n].pc = pass[n].pc /\ pass'[n].uid = pass[n].uid
                          /\ pass'[n].ep = pass[n].ep /\ pass'[n].st = pass[n].st
  BY StaleSame DEF DeleteRun
<1>. HIDE DEF o
<1>4. \A s \in Run : obj'[s] = IF s = r THEN o ELSE obj[s]
  BY <1>1 DEF TypeOK
<1>5. obj[r].fin => o.phase = "live" /\ o.fin /\ o.st = obj[r].st /\ o.deleting
  BY <1>1 DEF TypeOK, Object
<1>6. o.phase = "live" => o.fin = obj[r].fin
  BY <1>1 DEF TypeOK, Object, Gone, NoObject
<1>7. ASSUME NEW n \in Name PROVE PassOK(n, pass[n])'
  <2>1. PassOK(n, pass[n])
    OBVIOUS
  <2>2. NoFinalizer(n) => NoFinalizer(n)'
    BY <1>4, <1>1, <1>6 DEF NoFinalizer
  <2>. QED
    BY <1>1, <1>2, <1>3, <1>4, <1>5, <2>1, <2>2 DEF PassOK, MayHaveLaunched
<1>. QED
  BY <1>1, <1>2, <1>3, <1>7, ObjectStep

\* A hand edit costs a pass its claim, and nothing else.
LEMMA EditRunOK ==
    ASSUME IInv, NEW r \in Run, EditRun(r)
    PROVE  IInv'
<1>. USE DEF IInv
<1>1. /\ pass' \in [Name -> Pass]
      /\ \A n \in Name : /\ pass'[n].pc = pass[n].pc /\ pass'[n].uid = pass[n].uid
                          /\ pass'[n].ep = pass[n].ep /\ pass'[n].st = pass[n].st
  BY StaleSame DEF EditRun
<1>2. /\ UNCHANGED <<cache, jobs, req>> /\ obj' = [obj EXCEPT ![r] = obj[r]]
      /\ obj[r].phase = "live" /\ RestTyped
  BY DEF EditRun, awxVars, RestTyped, TypeOK
<1>3. obj' = obj
  BY DEF EditRun
<1>4. ASSUME NEW n \in Name PROVE PassOK(n, pass[n])'
  BY <1>1, <1>2, <1>3 DEF PassOK, NoFinalizer, MayHaveLaunched
<1>. QED
  BY <1>1, <1>2, <1>4, ObjectStep

\* A copy taken now is right about the present.
LEMMA SnapshotOK ==
    ASSUME ConstantsAssumption, IInv, NEW n \in Name
    PROVE  Snapshot(n) \in Copy /\ CacheOK(n, Snapshot(n))
<1>1. CASE Holders(n) = {}
  BY <1>1, EmptyTyped DEF Snapshot, CacheOK, NoCopy
<1>2. CASE Holders(n) # {}
  <2>. DEFINE r == Holder(n)
  <2>1. r \in Holders(n)
    <3>1. PICK x \in Holders(n) : TRUE
      BY <1>2
    <3>. QED
      BY <1>2, <3>1 DEF Holder
  <2>2. r \in Run /\ NameOf[r] = n /\ obj[r].phase = "live" /\ obj[r] \in Object
    BY <2>1 DEF Holders, IInv, TypeOK
  <2>3. Snapshot(n) = [uid |-> r, deleting |-> obj[r].deleting, fin |-> obj[r].fin]
    BY <1>2 DEF Snapshot
  <2>. HIDE DEF r
  <2>. QED
    BY <2>2, <2>3 DEF Copy, CacheOK, Object
<1>. QED
  BY <1>1, <1>2

\* Fresh copies, and passes that go on or are lost.
LEMMA CopiesStep ==
    ASSUME IInv, RestTyped, UNCHANGED <<obj, jobs, req>>,
           cache' \in [Name -> Copy], pass' \in [Name -> Pass],
           \A n \in Name : CacheOK(n, cache'[n]) /\ PassOK(n, pass'[n])
    PROVE  IInv'
<1>. USE DEF IInv
<1>1. TypeOK'
  BY DEF TypeOK, RestTyped
<1>2. OneHolder' /\ JobsOK'
  BY DEF OneHolder, JobsOK
<1>3. ASSUME NEW s \in Run PROVE RunOK(s)'
  BY DEF RunOK, RecordOK, MayHaveLaunched
<1>4. ASSUME NEW m \in Name PROVE CacheOK(m, cache[m])' /\ PassOK(m, pass[m])'
  BY DEF CacheOK, PassOK, NoFinalizer, MayHaveLaunched
<1>. QED
  BY <1>1, <1>2, <1>3, <1>4

\* The watch delivers the state of the moment.
LEMMA SyncCacheOK ==
    ASSUME ConstantsAssumption, IInv, NEW n \in Name, SyncCache(n)
    PROVE  IInv'
<1>1. /\ cache' = [cache EXCEPT ![n] = Snapshot(n)] /\ UNCHANGED <<obj, pass, jobs, req>>
      /\ RestTyped
  BY DEF SyncCache, awxVars, envVars, RestTyped, IInv, TypeOK
<1>2. Snapshot(n) \in Copy /\ CacheOK(n, Snapshot(n))
  BY SnapshotOK
<1>3. /\ cache' \in [Name -> Copy] /\ pass' \in [Name -> Pass]
      /\ \A m \in Name : cache'[m] = (IF m = n THEN Snapshot(n) ELSE cache[m]) /\ pass'[m] = pass[m]
  BY <1>1, <1>2 DEF IInv, TypeOK
<1>4. \A m \in Name : CacheOK(m, cache'[m]) /\ PassOK(m, pass'[m])
  BY <1>2, <1>3 DEF IInv
<1>. QED
  BY <1>1, <1>3, <1>4, CopiesStep

\* A restart forgets passes and lists afresh.
LEMMA CrashOK ==
    ASSUME ConstantsAssumption, IInv, Crash
    PROVE  IInv'
<1>1. /\ cache' = [n \in Name |-> Snapshot(n)] /\ pass' = [n \in Name |-> NoPass]
      /\ UNCHANGED <<obj, jobs, req>> /\ RestTyped
  BY DEF Crash, awxVars, RestTyped, IInv, TypeOK
<1>2. \A n \in Name : Snapshot(n) \in Copy /\ CacheOK(n, Snapshot(n))
  BY SnapshotOK
<1>3. \A n \in Name : PassOK(n, NoPass)
  BY EndedPassOK
<1>4. cache' \in [Name -> Copy] /\ pass' \in [Name -> Pass]
  BY <1>1, <1>2, EmptyTyped
<1>5. \A n \in Name : CacheOK(n, cache'[n]) /\ PassOK(n, pass'[n])
  BY <1>1, <1>2, <1>3
<1>. QED
  BY <1>1, <1>4, <1>5, CopiesStep

\* A job as AWX starts it is typed.
LEMMA LaunchedTyped ==
    ASSUME TypeOK, NEW r \in Run \cup {None}, NEW l \in SUBSET Host
    PROVE  Launched(r, l) \in Job /\ Launched(r, l).by = r
BY DEF TypeOK, Launched, Job, JobStatuses

\* A request that arrives, however late, becomes the one job of its run.
LEMMA AWXLaunchOK ==
    ASSUME ConstantsAssumption, IInv, NEW r \in Run, AWXLaunch(r)
    PROVE  IInv'
<1>. USE DEF IInv
<1>. DEFINE e == req[r].ep
            x == Launched(r, Targets[r])
            k == Len(jobs[e]) + 1
<1>1. req[r].state = "sent" /\ e \in Endpoint
  BY DEF AWXLaunch, RunOK
<1>2. /\ jobs' = [jobs EXCEPT ![e] = Append(@, x)]
      /\ req' = [req EXCEPT ![r] = [state |-> "accepted", ep |-> e, job |-> k]]
      /\ UNCHANGED <<obj, cache, pass>> /\ RestTyped
  BY DEF AWXLaunch, envVars, RestTyped, TypeOK
<1>3. x \in Job /\ x.by = r
  BY LaunchedTyped DEF ConstantsAssumption
<1>4. k \in Nat
  BY <1>1 DEF TypeOK
<1>. HIDE DEF x, e, k
<1>5. /\ jobs' \in [Endpoint -> Seq(Job)]
      /\ Len(jobs[e]) + 1 \in DOMAIN jobs'[e]
      /\ \A f \in Endpoint :
           /\ DOMAIN jobs[f] \subseteq DOMAIN jobs'[f]
           /\ \A j \in DOMAIN jobs[f] : jobs'[f][j] = jobs[f][j]
           /\ \A j \in DOMAIN jobs'[f] \ DOMAIN jobs[f] :
                f = e /\ j = Len(jobs[e]) + 1 /\ jobs'[f][j] = x
  BY <1>1, <1>2, <1>3, AppendJob
<1>6. /\ req' \in [Run -> Request]
      /\ req'[r] = [state |-> "accepted", ep |-> e, job |-> k]
      /\ \A s \in Run : s # r => req'[s] = req[s]
  BY <1>1, <1>2, <1>4 DEF TypeOK, Request
<1>7. TypeOK'
  BY <1>2, <1>5, <1>6 DEF TypeOK, RestTyped
<1>8. OneHolder'
  BY <1>2 DEF OneHolder
<1>9. ASSUME NEW s \in Run PROVE RunOK(s)'
  <2>1. obj[s].st \in Status /\ RecordOK(obj[s].st) /\ obj'[s] = obj[s]
    BY <1>2 DEF TypeOK, Object, RunOK
  <2>2. RecordOK(obj[s].st)'
    BY <2>1, <1>5 DEF RecordOK
  <2>3. /\ (obj[s].phase = "none")' => (obj[s] = NoObject /\ req[s] = NoRequest)'
        /\ (obj[s].phase = "live" /\ obj[s].st.attempted = 0)' => ~MayHaveLaunched(s)'
        /\ (req[s].state # "none")' => (req[s].ep \in Endpoint)'
    BY <1>1, <1>6, <2>1 DEF RunOK, MayHaveLaunched, NoRequest
  <2>4. (req[s].state = "accepted")' => (req[s].job \in DOMAIN jobs[req[s].ep])'
    <3>1. CASE s = r
      BY <3>1, <1>5, <1>6 DEF k
    <3>2. CASE s # r
      BY <3>2, <1>5, <1>6 DEF RunOK
    <3>. QED
      BY <3>1, <3>2
  <2>. QED
    BY <2>2, <2>3, <2>4 DEF RunOK
<1>10. JobsOK'
  <2>1. ASSUME NEW f \in Endpoint, NEW j \in DOMAIN jobs'[f], NEW s \in Run, jobs'[f][j].by = s
        PROVE  req'[s] = [state |-> "accepted", ep |-> f, job |-> j]
    <3>1. CASE j \in DOMAIN jobs[f]
      <4>1. req[s] = [state |-> "accepted", ep |-> f, job |-> j]
        BY <2>1, <3>1, <1>5 DEF JobsOK
      <4>2. s # r
        BY <4>1, <1>1
      <4>. QED
        BY <4>1, <4>2, <1>6
    <3>2. CASE j \notin DOMAIN jobs[f]
      BY <2>1, <3>2, <1>3, <1>5, <1>6 DEF k
    <3>. QED
      BY <3>1, <3>2
  <2>. QED
    BY <2>1 DEF JobsOK
<1>11. ASSUME NEW m \in Name PROVE CacheOK(m, cache[m])' /\ PassOK(m, pass[m])'
  <2>1. CacheOK(m, cache[m])'
    BY <1>2 DEF CacheOK, NoFinalizer
  <2>2. PassOK(m, pass[m])'
    BY <1>1, <1>2, <1>6 DEF PassOK, NoFinalizer, MayHaveLaunched, e
  <2>. QED
    BY <2>1, <2>2
<1>. QED
  BY <1>7, <1>8, <1>9, <1>10, <1>11

\* A request that is turned down leaves its run without a job.
LEMMA AWXRefuseOK ==
    ASSUME IInv, NEW r \in Run, AWXRefuse(r)
    PROVE  IInv'
<1>. USE DEF IInv
<1>1. req[r].state = "sent" /\ UNCHANGED <<obj, cache, pass, jobs>> /\ RestTyped
  BY DEF AWXRefuse, envVars, RestTyped, TypeOK
<1>2. /\ req' \in [Run -> Request]
      /\ req'[r].state = "refused" /\ req'[r].ep = req[r].ep
      /\ \A s \in Run : s # r => req'[s] = req[s]
  BY DEF AWXRefuse, TypeOK, Request
<1>3. TypeOK'
  BY <1>1, <1>2 DEF TypeOK, RestTyped
<1>4. OneHolder'
  BY <1>1 DEF OneHolder
<1>5. ASSUME NEW s \in Run PROVE RunOK(s)'
  BY <1>1, <1>2 DEF RunOK, RecordOK, MayHaveLaunched, NoRequest
<1>6. ASSUME NEW f \in Endpoint, NEW j \in DOMAIN jobs[f], NEW s \in Run, jobs[f][j].by = s
      PROVE  req'[s] = [state |-> "accepted", ep |-> f, job |-> j]
  <2>1. req[s] = [state |-> "accepted", ep |-> f, job |-> j]
    BY <1>6 DEF JobsOK
  <2>2. s # r
    BY <2>1, <1>1
  <2>. QED
    BY <2>1, <2>2, <1>2
<1>7. JobsOK'
  BY <1>1, <1>6 DEF JobsOK
<1>8. ASSUME NEW m \in Name PROVE CacheOK(m, cache[m])' /\ PassOK(m, pass[m])'
  <2>1. CacheOK(m, cache[m])'
    BY <1>1 DEF CacheOK, NoFinalizer
  <2>2. PassOK(m, pass[m])'
    BY <1>1, <1>2 DEF PassOK, NoFinalizer, MayHaveLaunched
  <2>. QED
    BY <2>1, <2>2
<1>. QED
  BY <1>3, <1>4, <1>5, <1>7, <1>8

\* The clock, the timers, the connection and AWX's own life.
LEMMA OutsideOK ==
    ASSUME ConstantsAssumption, IInv,
           \/ Repoint \/ Tick
           \/ \E r \in Run, t \in Timers : Elapse(t, r)
           \/ \E e \in Endpoint : AWXStep(e)
    PROVE  IInv'
<1>. USE DEF IInv
<1>1. CASE Repoint \/ Tick \/ \E r \in Run, t \in Timers : Elapse(t, r)
  <2>1. UNCHANGED <<obj, cache, req, pass, jobs>>
    BY <1>1 DEF Repoint, Tick, Elapse, awxVars
  <2>2. ASSUME Repoint PROVE RestTyped
    BY <2>2 DEF Repoint, awxVars, RestTyped, TypeOK
  <2>3. ASSUME Tick PROVE RestTyped
    BY <2>3 DEF Tick, awxVars, RestTyped, TypeOK
  <2>4. ASSUME NEW r \in Run, NEW t \in Timers, Elapse(t, r) PROVE RestTyped
    <3>1. elapsed' \subseteq Timers \X Run
      BY <2>4 DEF Elapse, TypeOK
    <3>. QED
      BY <2>4, <3>1 DEF Elapse, awxVars, envVars, RestTyped, TypeOK
  <2>5. RestTyped
    BY <1>1, <2>2, <2>3, <2>4
  <2>. QED
    BY <2>1, <2>5, JobsStay, OutsideStep
<1>2. ASSUME NEW e \in Endpoint, NEW j \in DOMAIN jobs[e], JobEnds(e, j) \/ PurgeJob(e, j)
      PROVE  IInv'
  <2>1. JobsKept
    BY <1>2, JobEndsKeepsJobs
  <2>2. UNCHANGED <<obj, cache, req, pass>> /\ RestTyped
    BY <1>2 DEF JobEnds, PurgeJob, envVars, RestTyped, TypeOK
  <2>. QED
    BY <2>1, <2>2, OutsideStep
<1>3. ASSUME NEW e \in Endpoint, OtherLaunch(e)
      PROVE  IInv'
  <2>1. PICK l \in SUBSET Host : jobs' = [jobs EXCEPT ![e] = Append(@, Launched(None, l))]
    BY <1>3 DEF OtherLaunch
  <2>2. Launched(None, l) \in Job /\ Launched(None, l).by \notin Run
    BY LaunchedTyped DEF ConstantsAssumption
  <2>. DEFINE x == Launched(None, l)
  <2>. HIDE DEF x
  <2>3. JobsKept
    <3>1. x \in Job /\ x.by \notin Run /\ jobs' = [jobs EXCEPT ![e] = Append(@, x)]
      BY <2>1, <2>2 DEF x
    <3>2. /\ jobs' \in [Endpoint -> Seq(Job)]
          /\ \A f \in Endpoint :
               /\ DOMAIN jobs[f] \subseteq DOMAIN jobs'[f]
               /\ \A j \in DOMAIN jobs[f] : jobs'[f][j] = jobs[f][j]
               /\ \A j \in DOMAIN jobs'[f] \ DOMAIN jobs[f] :
                    f = e /\ j = Len(jobs[e]) + 1 /\ jobs'[f][j] = x
      BY <3>1, AppendJob
    <3>. QED
      BY <3>1, <3>2 DEF JobsKept
  <2>4. UNCHANGED <<obj, cache, req, pass>> /\ RestTyped
    BY <1>3 DEF OtherLaunch, RestTyped, TypeOK
  <2>. QED
    BY <2>3, <2>4, OutsideStep
<1>4. ASSUME NEW e \in Endpoint, NEW h \in Host, EditInventory(e, h)
      PROVE  IInv'
  <2>1. NoHost \in HostRec /\ None \in Run \cup {None}
    BY DEF NoHost, HostRec
  <2>2. hosts' \in [Endpoint -> [Host -> HostRec]]
    <3>0. hosts[e] \in [Host -> HostRec] /\ hosts[e][h] \in HostRec
      BY DEF TypeOK
    <3>1. [hosts[e][h] EXCEPT !.by = None] \in HostRec
      BY <3>0 DEF HostRec
    <3>2. \E x \in HostRec : hosts' = [hosts EXCEPT ![e] = [@ EXCEPT ![h] = x]]
      BY <1>4, <2>1, <3>1 DEF EditInventory, TypeOK
    <3>. QED
      BY <3>2 DEF TypeOK
  <2>3. UNCHANGED <<obj, cache, req, pass, jobs>> /\ RestTyped
    BY <1>4, <2>2 DEF EditInventory, RestTyped, TypeOK
  <2>. QED
    BY <2>3, JobsStay, OutsideStep
<1>. QED
  BY <1>1, <1>2, <1>3, <1>4 DEF AWXStep

-----------------------------------------------------------------------------
(* A pass: ways to go on *)

\* What a pass at work holds.
LEMMA AtWork ==
    ASSUME IInv, NEW n \in Name, pass[n].pc \notin {"idle", "release", "read"}
    PROVE  /\ pass[n] \in Pass /\ pass[n].uid \in Run /\ pass[n].ep \in Endpoint
           /\ pass[n].st \in Status /\ PassOK(n, pass[n])
           /\ NameOf[pass[n].uid] = n /\ obj[pass[n].uid].phase = "live"
           /\ obj[pass[n].uid].st \in Status /\ RunOK(pass[n].uid)
BY DEF IInv, TypeOK, Pass, PassOK, Object

\* Write st to r, the object of this pass, and end the pass.
LEMMA ConcludeOK ==
    ASSUME ConstantsAssumption, IInv, RestTyped, JobsKept,
           NEW n \in Name, NEW r \in Run, NameOf[r] = n, obj[r].phase = "live",
           NEW st \in Status, RecordOK(st), st.attempted = 0 => ~MayHaveLaunched(r),
           Conclude(n, st), UNCHANGED <<cache, req>>
    PROVE  IInv'
<1>1. obj' = [obj EXCEPT ![r].st = st] /\ pass' = [pass EXCEPT ![n] = NoPass]
  BY WrittenIs DEF Conclude, EndPass, Goto, IInv
<1>2. RecordOK(st)'
  BY RecordKept
<1>. QED
  BY <1>1, <1>2, StatusStep, EmptyTyped, EndedPassOK

\* End the pass and write nothing.
LEMMA EndPassOK ==
    ASSUME IInv, RestTyped, JobsKept, NEW n \in Name, EndPass(n), UNCHANGED <<obj, cache, req>>
    PROVE  IInv'
BY PassOnlyStep, EmptyTyped, EndedPassOK DEF EndPass, Goto

\* A failed run keeps its launch record.
LEMMA FailKeeps ==
    ASSUME NEW st \in Status
    PROVE  /\ failRun(st) \in Status /\ failRun(st).finished
           /\ failRun(st).job = st.job /\ failRun(st).attempted = st.attempted
           /\ failRun(st).endpoint = st.endpoint
           /\ failRun(st).jobStatus = "successful" => st.jobStatus = "successful"
           /\ RecordOK(st) => RecordOK(failRun(st))
<1>1. /\ failRun(st) \in Status /\ failRun(st).finished
      /\ failRun(st).job = st.job /\ failRun(st).attempted = st.attempted
      /\ failRun(st).endpoint = st.endpoint
      /\ failRun(st).jobStatus = "successful" => st.jobStatus = "successful"
  BY DEF failRun, Status
<1>2. RecordOK(st) => RecordOK(failRun(st))
  BY <1>1 DEF RecordOK
<1>. QED
  BY <1>1, <1>2

\* A run that launched nothing has a record that is in order.
LEMMA UnlaunchedOK ==
    ASSUME NEW st \in Status, st.job = 0, st.attempted = 0, st.jobStatus # "successful"
    PROVE  RecordOK(st)
BY DEF RecordOK

\* The object a live read returns.
LEMMA ReadLiveIs ==
    ASSUME ConstantsAssumption, IInv, NEW n \in Name, NEW r \in Run, ReadLive(n, r)
    PROVE  /\ NameOf[r] = n /\ obj[r].phase = "live" /\ obj[r].fin /\ obj[r].st \in Status
           /\ RunOK(r)
<1>1. Holder(n) = r /\ r # None
  BY DEF ReadLive, ConstantsAssumption
<1>2. NameOf[r] = n /\ obj[r].phase = "live"
  BY <1>1, HolderLives
<1>3. obj[r].fin
  BY <1>1, <1>2 DEF ReadLive, IInv, PassOK, CacheOK, At
<1>. QED
  BY <1>2, <1>3 DEF IInv, TypeOK, Object

-----------------------------------------------------------------------------
(* The steps of applyAnsibleRun *)

\* A failed call ends the pass.
LEMMA StepFailsOK ==
    ASSUME IInv, NEW n \in Name, StepFails(n)
    PROVE  IInv'
<1>1. UNCHANGED <<obj, cache, req, jobs>> /\ EndPass(n) /\ RestTyped
  BY DEF StepFails, awxVars, envVars, RestTyped, IInv, TypeOK
<1>. QED
  BY <1>1, JobsStay, EndPassOK DEF IInv

\* A finalizer put on by name is on whatever object the pass goes on with.
LEMMA HoldFinalizerOK ==
    ASSUME ConstantsAssumption, IInv, NEW n \in Name, HoldFinalizer(n)
    PROVE  IInv'
<1>. USE DEF IInv
<1>. DEFINE r == Holder(n)
            q == [NoPass EXCEPT !.pc = "read", !.uid = r]
<1>1. r \in Run /\ NameOf[r] = n /\ obj[r].phase = "live" /\ ~cache[n].deleting
  BY HolderLives DEF HoldFinalizer
<1>2. /\ obj' = [obj EXCEPT ![r].fin = TRUE] /\ pass' = [pass EXCEPT ![n] = q]
      /\ UNCHANGED <<cache, jobs, req>> /\ RestTyped
  BY DEF HoldFinalizer, Goto, awxVars, envVars, RestTyped, TypeOK
<1>3. q \in Pass /\ q.pc = "read" /\ q.uid = r
  BY <1>1, EmptyTyped DEF Pass, PC, NoPass
<1>. HIDE DEF r, q
<1>4. /\ obj' \in [Run -> Object]
      /\ obj'[r].fin /\ obj'[r].phase = "live" /\ obj'[r].st = obj[r].st
      /\ obj'[r].deleting = obj[r].deleting
      /\ \A s \in Run : s # r => obj'[s] = obj[s]
  <2>. DEFINE o == [obj[r] EXCEPT !.fin = TRUE]
  <2>1. /\ o \in Object /\ o.fin = TRUE /\ o.phase = obj[r].phase /\ o.st = obj[r].st
        /\ o.deleting = obj[r].deleting
    <3>1. obj[r] \in Object
      BY <1>1 DEF TypeOK
    <3>. QED
      BY <3>1 DEF Object
  <2>2. obj' = [obj EXCEPT ![r] = o]
    BY <1>1, <1>2 DEF TypeOK
  <2>. HIDE DEF o
  <2>3. obj' \in [Run -> Object] /\ obj'[r] = o /\ \A s \in Run : s # r => obj'[s] = obj[s]
    BY <1>1, <2>1, <2>2 DEF TypeOK
  <2>. QED
    BY <1>1, <2>1, <2>3
<1>5. /\ pass' \in [Name -> Pass] /\ pass'[n] = q
      /\ \A m \in Name : m # n => pass'[m] = pass[m]
  BY <1>2, <1>3 DEF TypeOK
<1>6. TypeOK'
  BY <1>2, <1>4, <1>5 DEF TypeOK, RestTyped
<1>7. OneHolder' /\ JobsOK'
  BY <1>1, <1>2, <1>4 DEF OneHolder, JobsOK
<1>8. ASSUME NEW s \in Run PROVE RunOK(s)'
  BY <1>1, <1>2, <1>4 DEF RunOK, RecordOK, MayHaveLaunched
<1>9. ASSUME NEW m \in Name, m # n PROVE NoFinalizer(m) => NoFinalizer(m)'
  BY <1>1, <1>4, <1>9 DEF NoFinalizer
<1>10. ASSUME NEW m \in Name PROVE CacheOK(m, cache[m])'
  <2>1. CacheOK(m, cache[m]) /\ (cache[m].uid # None => cache[m].uid \in Run)
    BY DEF TypeOK, Copy
  <2>. QED
    BY <1>1, <1>2, <1>4, <1>9, <2>1 DEF CacheOK
<1>11. ASSUME NEW m \in Name PROVE PassOK(m, pass[m])'
  <2>1. CASE m = n
    BY <2>1, <1>1, <1>3, <1>4, <1>5 DEF PassOK
  <2>2. CASE m # n
    <3>1. PassOK(m, pass[m]) /\ (pass[m].pc # "idle" => pass[m].uid \in Run /\ pass[m].uid # r)
      BY <2>2, <1>1 DEF PassOK
    <3>. QED
      BY <2>2, <3>1, <1>2, <1>4, <1>5, <1>9 DEF PassOK, MayHaveLaunched
  <2>. QED
    BY <2>1, <2>2
<1>. QED
  BY <1>6, <1>7, <1>8, <1>10, <1>11

\* Self-deletion after the TTL is bound to the object read.
LEMMA CollectOK ==
    ASSUME ConstantsAssumption, IInv, NEW n \in Name, collectFinishedRun(n)
    PROVE  IInv'
<1>. USE DEF IInv
<1>1. PICK r \in Run : /\ ReadLive(n, r)
                       /\ obj' = [obj EXCEPT ![r] = MarkDeleted(@)] \/ UNCHANGED obj
  BY DEF collectFinishedRun
<1>2. NameOf[r] = n /\ obj[r].phase = "live" /\ obj[r].fin
  BY <1>1, ReadLiveIs
<1>3. PICK o \in {obj[r], [obj[r] EXCEPT !.deleting = TRUE]} : obj' = [obj EXCEPT ![r] = o]
  BY <1>1, <1>2 DEF MarkDeleted, TypeOK
<1>4. /\ pass' = [pass EXCEPT ![n] = NoPass] /\ UNCHANGED <<cache, jobs, req>> /\ RestTyped
  BY DEF collectFinishedRun, EndPass, Goto, awxVars, envVars, TimersKept, RestTyped, TypeOK
<1>5. \A s \in Run : /\ obj'[s].phase = obj[s].phase /\ obj'[s].fin = obj[s].fin
                     /\ obj'[s].st = obj[s].st /\ (obj[s].deleting => obj'[s].deleting)
  BY <1>3 DEF TypeOK, Object
<1>6. pass' \in [Name -> Pass] /\ \A m \in Name : pass'[m] = IF m = n THEN NoPass ELSE pass[m]
  BY <1>4, EmptyTyped DEF TypeOK
<1>7. ASSUME NEW m \in Name PROVE PassOK(m, pass[m])'
  <2>1. CASE m = n
    BY <2>1, <1>6 DEF PassOK, NoPass
  <2>2. CASE m # n
    BY <2>2, <1>4, <1>5, <1>6 DEF PassOK, NoFinalizer, MayHaveLaunched
  <2>. QED
    BY <2>1, <2>2
<1>. QED
  BY <1>2, <1>3, <1>4, <1>6, <1>7, ObjectStep

\* Out of time: the record stays backed, with the cancel recorded or not.
LEMMA ExpireRunOK ==
    ASSUME ConstantsAssumption, IInv, NEW n \in Name, expireRun(n)
    PROVE  IInv'
<1>. USE DEF IInv
<1>1. PICK r \in Run :
        LET st == obj[r].st IN
        /\ ReadLive(n, r)
        /\ \/ /\ Tracking(st)
              /\ conn # None /\ st.endpoint \in {None, conn}
              /\ AskCancel(conn, st.job)
              /\ obj' \in {obj, Written(n, failRun([st EXCEPT !.cancelAsked = TRUE]))}
           \/ /\ obj' = Written(n, failRun(st))
              /\ UNCHANGED jobs
  BY DEF expireRun
<1>. DEFINE st == obj[r].st
            sc == [st EXCEPT !.cancelAsked = TRUE]
<1>2. NameOf[r] = n /\ obj[r].phase = "live" /\ st \in Status /\ RunOK(r)
  BY <1>1, ReadLiveIs
<1>3. EndPass(n) /\ UNCHANGED <<cache, req>> /\ RestTyped
  BY DEF expireRun, envVars, RestTyped, TypeOK
<1>4. RecordOK(st) /\ (st.attempted = 0 => ~MayHaveLaunched(r))
  BY <1>2 DEF RunOK
<1>5. /\ sc \in Status /\ sc.job = st.job /\ sc.attempted = st.attempted
      /\ sc.endpoint = st.endpoint /\ sc.jobStatus = st.jobStatus
  BY <1>2 DEF Status
<1>. HIDE DEF sc, st
<1>6. RecordOK(sc)
  BY <1>4, <1>5 DEF RecordOK
<1>7. failRun(st) \in Status /\ RecordOK(failRun(st)) /\ failRun(st).attempted = st.attempted
  BY <1>2, <1>4, FailKeeps
<1>8. failRun(sc) \in Status /\ RecordOK(failRun(sc)) /\ failRun(sc).attempted = st.attempted
  BY <1>5, <1>6, FailKeeps
<1>9. CASE obj' = Written(n, failRun(st)) /\ UNCHANGED jobs
  BY <1>2, <1>3, <1>4, <1>7, <1>9, JobsStay, ConcludeOK DEF Conclude
<1>10. CASE /\ Tracking(st)
            /\ conn # None /\ st.endpoint \in {None, conn}
            /\ AskCancel(conn, st.job)
            /\ obj' \in {obj, Written(n, failRun(sc))}
  <2>1. conn \in Endpoint /\ st.job \in DOMAIN jobs[conn]
    BY <1>4, <1>10 DEF RecordOK, Tracking, ConstantsAssumption, TypeOK
  <2>2. JobsKept
    BY <1>10, <2>1, CancelKeepsJobs
  <2>3. CASE obj' = obj
    BY <2>2, <2>3, <1>3, EndPassOK
  <2>4. CASE obj' = Written(n, failRun(sc))
    BY <1>2, <1>3, <1>4, <1>8, <2>2, <2>4, ConcludeOK DEF Conclude
  <2>. QED
    BY <1>10, <2>3, <2>4
<1>. QED
  BY <1>1, <1>9, <1>10 DEF st, sc

\* The pass starts from the record it reads.
LEMMA ReconcileRunOK ==
    ASSUME ConstantsAssumption, IInv, NEW n \in Name, reconcileRun(n)
    PROVE  IInv'
<1>. USE DEF IInv
<1>. DEFINE Q(r, st) == [NoPass EXCEPT !.uid = r, !.ep = conn, !.st = st,
                           !.fresh = st.attempted = 0,
                           !.pc = IF st.job # 0 THEN "poll"
                                  ELSE IF st.attempted # 0 THEN "recover" ELSE "launch"]
<1>1. PICK r \in Run :
        /\ ReadLive(n, r) /\ ~obj[r].st.finished
        /\ \/ Conclude(n, failRun(obj[r].st))
           \/ /\ conn # None /\ obj[r].st.endpoint \in {None, conn}
              /\ Goto(n, Q(r, obj[r].st)) /\ UNCHANGED obj
  BY DEF reconcileRun
<1>. DEFINE st == obj[r].st
            q == Q(r, st)
<1>2. NameOf[r] = n /\ obj[r].phase = "live" /\ obj[r].fin /\ st \in Status /\ RunOK(r)
  BY <1>1, ReadLiveIs
<1>3. UNCHANGED <<cache, req, jobs>> /\ RestTyped /\ JobsKept
  BY JobsStay DEF reconcileRun, awxVars, envVars, RestTyped, TypeOK
<1>4. RecordOK(st) /\ (st.attempted = 0 => ~MayHaveLaunched(r))
  BY <1>2 DEF RunOK
<1>5. CASE Conclude(n, failRun(st))
  <2>1. failRun(st) \in Status /\ RecordOK(failRun(st)) /\ failRun(st).attempted = st.attempted
    BY <1>2, <1>4, FailKeeps
  <2>. QED
    BY <1>2, <1>3, <1>4, <1>5, <2>1, ConcludeOK
<1>6. CASE conn # None /\ st.endpoint \in {None, conn} /\ Goto(n, q) /\ UNCHANGED obj
  <2>1. conn \in Endpoint
    BY <1>6 DEF TypeOK
  <2>2. /\ q \in Pass /\ q.uid = r /\ q.ep = conn /\ q.st = st
        /\ q.pc = IF st.job # 0 THEN "poll" ELSE IF st.attempted # 0 THEN "recover" ELSE "launch"
    BY <1>2, <2>1, EmptyTyped DEF Pass, PC, NoPass
  <2>. HIDE DEF q
  <2>3. PassOK(n, q)
    BY <1>1, <1>2, <1>4, <1>6, <2>1, <2>2 DEF PassOK, Unlaunched, Unresolved, RecordOK
  <2>. QED
    BY <1>3, <1>6, <2>2, <2>3, PassOnlyStep DEF Goto
<1>. QED
  BY <1>1, <1>5, <1>6

\* A record that keeps the launch of p.st and follows job j of the instance e.
LEMMA FollowJob ==
    ASSUME TypeOK, NEW st \in Status, RecordOK(st), NEW e \in Endpoint, st.endpoint = e,
           st.attempted # 0, NEW j \in DOMAIN jobs[e], jobs[e][j].status # "purged",
           NEW t \in Status, t.job = j, t.jobStatus = jobs[e][j].status,
           t.endpoint = e, t.attempted = st.attempted
    PROVE  RecordOK(t)
<1>1. jobs[e] \in Seq(Job) /\ j \in 1 .. Len(jobs[e]) /\ j # 0
  BY DEF TypeOK
<1>. QED
  BY <1>1 DEF RecordOK

\* A job AWX still has has a status a record may hold.
LEMMA JobStatusTyped ==
    ASSUME TypeOK, NEW e \in Endpoint, NEW j \in DOMAIN jobs[e], jobs[e][j].status # "purged"
    PROVE  j \in Nat /\ j # 0 /\ jobs[e][j].status \in {"", "unknown", "running"} \cup Terminal
<1>1. jobs[e] \in Seq(Job) /\ j \in 1 .. Len(jobs[e]) /\ jobs[e][j] \in Job
  BY ElementOfSeq DEF TypeOK
<1>2. jobs[e][j].status \in JobStatuses
  BY <1>1 DEF Job
<1>3. jobs[e][j].status \in {"", "unknown", "running"} \cup Terminal
  BY <1>2 DEF JobStatuses
<1>4. j \in Nat /\ j # 0
  BY <1>1, LenProperties
<1>. QED
  BY <1>3, <1>4

\* Polling keeps the record on its job.
LEMMA PollRunOK ==
    ASSUME ConstantsAssumption, IInv, NEW n \in Name, pollRun(n)
    PROVE  IInv'
<1>. USE DEF IInv
<1>. DEFINE p == pass[n]
            s == jobs[p.ep][p.st.job].status
            t == [p.st EXCEPT !.jobStatus = s, !.finished = s \in Terminal]
<1>1. p.pc = "poll" /\ s # "purged" /\ Conclude(n, t)
  BY DEF pollRun, At
<1>2. /\ p \in Pass /\ p.uid \in Run /\ p.ep \in Endpoint /\ p.st \in Status /\ PassOK(n, p)
      /\ NameOf[p.uid] = n /\ obj[p.uid].phase = "live" /\ RunOK(p.uid)
  BY <1>1, AtWork
<1>3. UNCHANGED <<cache, req, jobs>> /\ RestTyped /\ JobsKept
  BY JobsStay DEF pollRun, awxVars, envVars, RestTyped, TypeOK
<1>4. p.st = obj[p.uid].st /\ RecordOK(p.st) /\ p.st.job # 0 /\ p.st.attempted # 0
  BY <1>1, <1>2 DEF PassOK, RunOK, RecordOK
<1>5. p.st.endpoint = p.ep /\ p.st.job \in DOMAIN jobs[p.ep]
  BY <1>1, <1>2, <1>4 DEF PassOK, RecordOK, ConstantsAssumption
<1>6. s \in {"", "unknown", "running"} \cup Terminal
  BY <1>1, <1>2, <1>5, JobStatusTyped
<1>7. /\ t \in Status /\ t.job = p.st.job /\ t.jobStatus = s /\ t.endpoint = p.ep
      /\ t.attempted = p.st.attempted
  <2>1. (s \in Terminal) \in BOOLEAN
    OBVIOUS
  <2>. DEFINE b == s \in Terminal
  <2>2. b \in BOOLEAN /\ t = [p.st EXCEPT !.jobStatus = s, !.finished = b]
    BY <2>1
  <2>. HIDE DEF b, t, s
  <2>. QED
    BY <1>2, <1>5, <1>6, <2>2 DEF Status
<1>. HIDE DEF t
<1>8. RecordOK(t)
  BY <1>1, <1>2, <1>4, <1>5, <1>7, FollowJob
<1>. QED
  BY <1>1, <1>2, <1>3, <1>4, <1>7, <1>8, ConcludeOK

\* A match is a job AWX still has.
LEMMA MatchedIs ==
    ASSUME NEW e, NEW st, NEW j \in matchLostLaunchJobs(e, st)
    PROVE  j \in DOMAIN jobs[e] /\ jobs[e][j].status # "purged"
BY DEF matchLostLaunchJobs

\* Recovery adopts a job that is there, waits, or gives up.
LEMMA RecoverOK ==
    ASSUME ConstantsAssumption, IInv, NEW n \in Name, recoverLostLaunch(n)
    PROVE  IInv'
<1>. USE DEF IInv
<1>. DEFINE p == pass[n]
            t(j) == [p.st EXCEPT !.job = j, !.jobStatus = jobs[p.ep][j].status]
<1>1. /\ p.pc = "recover"
      /\ \/ \E j \in matchLostLaunchJobs(p.ep, p.st) : Conclude(n, t(j))
         \/ EndPass(n) /\ UNCHANGED obj
         \/ Conclude(n, failRun(p.st))
  BY DEF recoverLostLaunch, At
<1>2. /\ p \in Pass /\ p.uid \in Run /\ p.ep \in Endpoint /\ p.st \in Status /\ PassOK(n, p)
      /\ NameOf[p.uid] = n /\ obj[p.uid].phase = "live" /\ RunOK(p.uid)
  BY <1>1, AtWork
<1>3. UNCHANGED <<cache, req, jobs>> /\ RestTyped /\ JobsKept
  BY JobsStay DEF recoverLostLaunch, awxVars, envVars, RestTyped, TypeOK
<1>4. p.st = obj[p.uid].st /\ RecordOK(p.st) /\ p.st.attempted # 0 /\ p.st.endpoint = p.ep
  <2>1. p.st = obj[p.uid].st /\ Unresolved(p.st) /\ p.st.endpoint \in {None, p.ep}
    BY <1>1, <1>2 DEF PassOK
  <2>. QED
    BY <1>2, <2>1 DEF RunOK, RecordOK, Unresolved, ConstantsAssumption
<1>5. ASSUME NEW j \in matchLostLaunchJobs(p.ep, p.st), Conclude(n, t(j)) PROVE IInv'
  <2>1. /\ j \in DOMAIN jobs[p.ep] /\ jobs[p.ep][j].status # "purged" /\ j \in Nat
        /\ jobs[p.ep][j].status \in {"", "unknown", "running"} \cup Terminal
    BY <1>2, MatchedIs, JobStatusTyped
  <2>2. /\ t(j) \in Status /\ t(j).job = j /\ t(j).jobStatus = jobs[p.ep][j].status
        /\ t(j).endpoint = p.ep /\ t(j).attempted = p.st.attempted
    BY <1>2, <1>4, <2>1 DEF Status
  <2>3. RecordOK(t(j))
    BY <1>2, <1>4, <2>1, <2>2, FollowJob
  <2>. QED
    BY <1>2, <1>3, <1>4, <1>5, <2>2, <2>3, ConcludeOK
<1>6. CASE EndPass(n) /\ UNCHANGED obj
  BY <1>3, <1>6, EndPassOK
<1>7. CASE Conclude(n, failRun(p.st))
  <2>1. /\ failRun(p.st) \in Status /\ RecordOK(failRun(p.st))
        /\ failRun(p.st).attempted = p.st.attempted
    BY <1>2, <1>4, FailKeeps
  <2>. QED
    BY <1>2, <1>3, <1>4, <1>7, <2>1, ConcludeOK
<1>. QED
  BY <1>1, <1>5, <1>6, <1>7

\* What a pass that is about to launch knows.
LEMMA BeforeLaunch ==
    ASSUME IInv, NEW n \in Name, pass[n].pc \in {"launch", "hosts", "claim"}
    PROVE  /\ Unlaunched(pass[n].st) /\ pass[n].st.jobStatus # "successful"
           /\ ~MayHaveLaunched(pass[n].uid)
<1>1. PassOK(n, pass[n]) /\ RunOK(pass[n].uid) /\ obj[pass[n].uid].phase = "live"
  BY AtWork
<1>2. Unlaunched(pass[n].st) /\ Unlaunched(obj[pass[n].uid].st) /\ pass[n].st.jobStatus # "successful"
  BY <1>1 DEF PassOK
<1>. QED
  BY <1>1, <1>2 DEF RunOK, Unlaunched

\* Preparing a launch launches nothing.
LEMMA PrepareLaunchOK ==
    ASSUME ConstantsAssumption, IInv, NEW n \in Name, PrepareLaunch(n)
    PROVE  IInv'
<1>. USE DEF IInv
<1>. DEFINE p == pass[n]
            q == [p EXCEPT !.st.endpoint = p.ep, !.left = Targets[p.uid],
                           !.pc = IF Targets[p.uid] = {} THEN "claim" ELSE "hosts"]
            u(e) == [p.st EXCEPT !.endpoint = e]
<1>1. /\ p.pc = "launch"
      /\ \/ \E e \in {p.st.endpoint, p.ep} : Conclude(n, failRun(u(e)))
         \/ Goto(n, q) /\ UNCHANGED obj
  BY DEF PrepareLaunch, At
<1>2. /\ p \in Pass /\ p.uid \in Run /\ p.ep \in Endpoint /\ p.st \in Status /\ PassOK(n, p)
      /\ NameOf[p.uid] = n /\ obj[p.uid].phase = "live"
  BY <1>1, AtWork
<1>3. UNCHANGED <<cache, req, jobs>> /\ RestTyped /\ JobsKept
  BY JobsStay DEF PrepareLaunch, awxVars, envVars, RestTyped, TypeOK
<1>4. Unlaunched(p.st) /\ p.st.jobStatus # "successful" /\ ~MayHaveLaunched(p.uid)
  BY <1>1, BeforeLaunch
<1>5. ASSUME NEW e \in {p.st.endpoint, p.ep}, Conclude(n, failRun(u(e))) PROVE IInv'
  <2>1. /\ u(e) \in Status /\ u(e).job = 0 /\ u(e).attempted = 0
        /\ u(e).jobStatus # "successful"
    BY <1>2, <1>4 DEF Status, Unlaunched
  <2>. DEFINE t == failRun(u(e))
  <2>2. t \in Status /\ RecordOK(t)
    BY <2>1, UnlaunchedOK, FailKeeps
  <2>. HIDE DEF t
  <2>. QED
    BY <1>2, <1>3, <1>4, <1>5, <2>2, ConcludeOK DEF t
<1>6. CASE Goto(n, q) /\ UNCHANGED obj
  <2>. DEFINE t == u(p.ep)
  <2>1. /\ t \in Status /\ t.endpoint = p.ep /\ Unlaunched(t) /\ t.jobStatus # "successful"
    BY <1>2, <1>4 DEF Status, Unlaunched
  <2>2. q = [p EXCEPT !.st = t, !.left = Targets[p.uid],
                      !.pc = IF Targets[p.uid] = {} THEN "claim" ELSE "hosts"]
    BY <1>2 DEF Pass, Status
  <2>. HIDE DEF t, q
  <2>3. /\ q \in Pass /\ q.pc \in {"hosts", "claim"} /\ q.uid = p.uid /\ q.ep = p.ep /\ q.st = t
    BY <1>2, <2>1, <2>2 DEF Pass, PC, ConstantsAssumption
  <2>4. PassOK(n, q)
    BY <1>1, <1>2, <2>1, <2>3 DEF PassOK
  <2>. QED
    BY <1>3, <1>6, <2>3, <2>4, PassOnlyStep DEF Goto
<1>. QED
  BY <1>1, <1>5, <1>6

\* One target failed: with the partial record or without it.
LEMMA HostFailedOK ==
    ASSUME ConstantsAssumption, IInv, RestTyped, UNCHANGED <<cache, req, jobs>>,
           NEW n \in Name, pass[n].pc = "hosts", HostFailed(n, pass[n].st)
    PROVE  IInv'
<1>1. /\ pass[n].uid \in Run /\ pass[n].st \in Status
      /\ NameOf[pass[n].uid] = n /\ obj[pass[n].uid].phase = "live"
  BY AtWork
<1>2. /\ Unlaunched(pass[n].st) /\ pass[n].st.jobStatus # "successful"
      /\ ~MayHaveLaunched(pass[n].uid)
  BY BeforeLaunch
<1>3. RecordOK(pass[n].st)
  BY <1>1, <1>2, UnlaunchedOK DEF Unlaunched
<1>4. JobsKept
  BY JobsStay DEF IInv
<1>5. CASE obj' = obj
  BY <1>4, <1>5, EndPassOK DEF HostFailed
<1>6. CASE obj' = Written(n, pass[n].st)
  BY <1>1, <1>2, <1>3, <1>4, <1>6, ConcludeOK DEF HostFailed, Conclude
<1>. QED
  BY <1>5, <1>6 DEF HostFailed

\* The pass goes on unlaunched with one more host on its record.
LEMMA HostResolvedOK ==
    ASSUME ConstantsAssumption, IInv, NEW n \in Name, pass[n].pc = "hosts",
           NEW h \in Host, NEW id \in Nat, NEW owned \in BOOLEAN
    PROVE  /\ HostResolved(pass[n], h, id, owned) \in Pass
           /\ PassOK(n, HostResolved(pass[n], h, id, owned))
<1>. DEFINE p == pass[n]
            x == [name |-> h, id |-> id, created |-> owned]
            y == recordRunHost(p.st.hosts, x)
            t == [p.st EXCEPT !.hosts = y]
            q == HostResolved(p, h, id, owned)
<1>1. /\ p \in Pass /\ p.uid \in Run /\ p.ep \in Endpoint /\ p.st \in Status /\ PassOK(n, p)
  BY AtWork
<1>2. y \in SUBSET HostEntry
  <2>. DEFINE same == {z \in p.st.hosts : z.name = x.name}
              b == owned \/ \E z \in same : z.created
  <2>1. x \in HostEntry /\ p.st.hosts \in SUBSET HostEntry
    BY <1>1 DEF HostEntry, Status
  <2>2. b \in BOOLEAN
    OBVIOUS
  <2>3. [x EXCEPT !.created = b] \in HostEntry
    <3>. HIDE DEF b
    <3>. QED
      BY <2>2 DEF HostEntry
  <2>4. y = (p.st.hosts \ same) \cup {[x EXCEPT !.created = b]}
    BY DEF recordRunHost
  <2>. QED
    BY <2>1, <2>3, <2>4
<1>. HIDE DEF y
<1>3. /\ t \in Status /\ t.endpoint = p.st.endpoint /\ t.job = p.st.job
      /\ t.attempted = p.st.attempted /\ t.finished = p.st.finished /\ t.jobStatus = p.st.jobStatus
  BY <1>1, <1>2 DEF Status
<1>4. q = [p EXCEPT !.st = t, !.left = @ \ {h}, !.pc = IF p.left = {h} THEN "claim" ELSE "hosts"]
  BY <1>1 DEF HostResolved, Pass, Status, y
<1>. HIDE DEF t, q
<1>5. /\ q \in Pass /\ q.pc \in {"hosts", "claim"} /\ q.uid = p.uid /\ q.ep = p.ep /\ q.st = t
  BY <1>1, <1>3, <1>4 DEF Pass, PC
<1>6. PassOK(n, q)
  BY <1>1, <1>3, <1>5 DEF PassOK, Unlaunched
<1>. QED
  BY <1>5, <1>6 DEF q

\* Resolving a host changes the inventory, and no claim about jobs.
LEMMA ResolveRunHostOK ==
    ASSUME ConstantsAssumption, IInv, NEW n \in Name, resolveRunHost(n)
    PROVE  IInv'
<1>. USE DEF IInv
<1>. DEFINE p == pass[n]
            new == lastHost[p.ep] + 1
<1>1. p.pc = "hosts"
  BY DEF resolveRunHost, At
<1>2. /\ p \in Pass /\ p.uid \in Run /\ p.ep \in Endpoint /\ p.st \in Status
      /\ NameOf[p.uid] = n /\ obj[p.uid].phase = "live" /\ p.left \subseteq Host
  BY <1>1, AtWork DEF Pass
<1>3. UNCHANGED <<cache, req, jobs>> /\ JobsKept /\ UNCHANGED <<conn, second, elapsed, crashes, edits>>
  BY JobsStay DEF resolveRunHost, envVars
<1>4. PICK h \in p.left :
        LET rec == hosts[p.ep][h] IN
        \/ /\ rec.id = 0
           /\ hosts' = [hosts EXCEPT ![p.ep][h] = [id |-> new, by |-> p.uid]]
           /\ lastHost' = [lastHost EXCEPT ![p.ep] = new]
           /\ \/ Goto(n, HostResolved(p, h, new, TRUE)) /\ UNCHANGED obj
              \/ HostFailed(n, p.st)
        \/ /\ rec.id # 0
           /\ \/ Goto(n, HostResolved(p, h, rec.id, MarkedBy(rec, n))) /\ UNCHANGED obj
              \/ /\ ~MarkedBy(rec, n)
                 /\ Conclude(n, failRun(p.st))
           /\ UNCHANGED <<hosts, lastHost>>
  BY DEF resolveRunHost
<1>. DEFINE rec == hosts[p.ep][h]
<1>5. rec \in HostRec /\ rec.id \in Nat /\ new \in Nat /\ h \in Host
  BY <1>2 DEF TypeOK, HostRec
<1>6. RestTyped
  <2>1. CASE UNCHANGED <<hosts, lastHost>>
    BY <2>1, <1>3 DEF RestTyped, TypeOK
  <2>2. CASE /\ hosts' = [hosts EXCEPT ![p.ep][h] = [id |-> new, by |-> p.uid]]
             /\ lastHost' = [lastHost EXCEPT ![p.ep] = new]
    <3>1. [id |-> new, by |-> p.uid] \in HostRec
      BY <1>2, <1>5 DEF HostRec
    <3>. HIDE DEF new, p
    <3>2. hosts' \in [Endpoint -> [Host -> HostRec]] /\ lastHost' \in [Endpoint -> Nat]
      BY <1>2, <1>5, <2>2, <3>1 DEF TypeOK
    <3>. QED
      BY <3>2, <1>3 DEF RestTyped, TypeOK
  <2>. QED
    BY <1>4, <2>1, <2>2
<1>7. ASSUME NEW id \in Nat, NEW owned \in BOOLEAN,
             Goto(n, HostResolved(p, h, id, owned)), UNCHANGED obj
      PROVE  IInv'
  <2>1. HostResolved(p, h, id, owned) \in Pass /\ PassOK(n, HostResolved(p, h, id, owned))
    BY <1>1, <1>5, HostResolvedOK
  <2>. QED
    BY <1>3, <1>6, <1>7, <2>1, PassOnlyStep DEF Goto
<1>8. CASE HostFailed(n, p.st)
  BY <1>1, <1>3, <1>6, <1>8, HostFailedOK
<1>9. CASE Conclude(n, failRun(p.st))
  <2>1. Unlaunched(p.st) /\ p.st.jobStatus # "successful" /\ ~MayHaveLaunched(p.uid)
    BY <1>1, BeforeLaunch
  <2>2. failRun(p.st) \in Status /\ RecordOK(failRun(p.st))
    BY <1>2, <2>1, UnlaunchedOK, FailKeeps DEF Unlaunched
  <2>. QED
    BY <1>2, <1>3, <1>6, <1>9, <2>1, <2>2, ConcludeOK
<1>10. MarkedBy(rec, n) \in BOOLEAN
  BY DEF MarkedBy
<1>. QED
  BY <1>4, <1>5, <1>7, <1>8, <1>9, <1>10

\* A failed host call leaves the run unlaunched.
LEMMA HostCallFailsOK ==
    ASSUME ConstantsAssumption, IInv, NEW n \in Name, HostCallFails(n)
    PROVE  IInv'
<1>1. /\ pass[n].pc = "hosts" /\ HostFailed(n, pass[n].st)
      /\ UNCHANGED <<cache, req, jobs>> /\ RestTyped
  BY DEF HostCallFails, At, awxVars, envVars, RestTyped, IInv, TypeOK
<1>. QED
  BY <1>1, HostFailedOK

\* The attempt is on the record before anything is sent.
LEMMA ClaimLaunchOK ==
    ASSUME ConstantsAssumption, IInv, NEW n \in Name, claimLaunch(n)
    PROVE  IInv'
<1>. USE DEF IInv
<1>. DEFINE p == pass[n]
            t == [p.st EXCEPT !.attempted = second]
            q == [p EXCEPT !.pc = "post", !.st = t, !.fresh = FALSE]
<1>1. /\ p.pc = "claim" /\ obj' = [obj EXCEPT ![p.uid].st = t]
      /\ Goto(n, q) \/ EndPass(n)
      /\ UNCHANGED <<cache, req, jobs>> /\ RestTyped
  BY DEF claimLaunch, At, awxVars, envVars, RestTyped, TypeOK
<1>2. /\ p \in Pass /\ p.uid \in Run /\ p.ep \in Endpoint /\ p.st \in Status /\ PassOK(n, p)
      /\ NameOf[p.uid] = n /\ obj[p.uid].phase = "live"
  BY <1>1, AtWork
<1>3. Unlaunched(p.st) /\ p.st.jobStatus # "successful" /\ ~MayHaveLaunched(p.uid)
  BY <1>1, BeforeLaunch
<1>4. p.st.endpoint = p.ep /\ obj[p.uid].fin
  BY <1>1, <1>2 DEF PassOK
<1>5. /\ t \in Status /\ t.attempted # 0 /\ t.job = 0 /\ t.endpoint = p.ep
      /\ t.jobStatus # "successful"
  BY <1>2, <1>3, <1>4 DEF Status, Unlaunched, TypeOK
<1>6. /\ q \in Pass /\ q.pc = "post" /\ q.uid = p.uid /\ q.ep = p.ep /\ q.st = t
  BY <1>2, <1>5 DEF Pass, PC
<1>. HIDE DEF t, q
<1>7. PICK c \in Status : c = t
  BY <1>5
<1>8. (\E d \in Pass : d = q) /\ (\E r \in Run : r = p.uid)
  BY <1>2, <1>6
<1>. PICK d \in Pass : d = q
  BY <1>8
<1>. PICK r \in Run : r = p.uid
  BY <1>8
<1>9. RecordOK(c)
  BY <1>2, <1>5, <1>7 DEF RecordOK
<1>10. JobsKept /\ RecordOK(c)'
  BY <1>1, <1>9, JobsStay, RecordKept
<1>11. /\ obj' = [obj EXCEPT ![r].st = c]
       /\ obj'[r].st = c /\ obj'[r].phase = "live" /\ obj'[r].fin = obj[r].fin
  BY <1>1, <1>2, <1>7 DEF TypeOK, Object
<1>12. /\ d.pc = "post" /\ d.uid = r /\ NameOf[r] = n /\ d.ep \in Endpoint
       /\ d.st = c /\ c.endpoint = d.ep /\ Unresolved(c)
       /\ (obj[r].phase = "live" /\ obj[r].fin /\ obj[r].st = c)'
       /\ ~MayHaveLaunched(r)'
  BY <1>1, <1>2, <1>3, <1>4, <1>5, <1>6, <1>7, <1>8, <1>11 DEF MayHaveLaunched, Unresolved
<1>13. PassOK(n, d)'
  BY <1>12 DEF PassOK, MayHaveLaunched
<1>14. NameOf[r] = n /\ obj[r].phase = "live" /\ c.attempted # 0
  BY <1>2, <1>5, <1>7
<1>15. CASE Goto(n, q)
  <2>1. pass' = [pass EXCEPT ![n] = d]
    BY <1>15, <1>8 DEF Goto
  <2>. QED
    BY <1>1, <1>10, <1>11, <1>13, <1>14, <2>1, StatusStep
<1>16. CASE EndPass(n)
  <2>1. pass' = [pass EXCEPT ![n] = NoPass] /\ NoPass \in Pass /\ PassOK(n, NoPass)'
    BY <1>16, EmptyTyped, EndedPassOK DEF EndPass, Goto
  <2>. QED
    BY <1>1, <1>10, <1>11, <1>14, <2>1, StatusStep
<1>. QED
  BY <1>1, <1>15, <1>16

\* The one request goes out for a run that had none under way.
LEMMA SendLaunchOK ==
    ASSUME ConstantsAssumption, IInv, NEW n \in Name, SendLaunch(n)
    PROVE  IInv'
<1>. USE DEF IInv
<1>. DEFINE p == pass[n]
            q == [p EXCEPT !.pc = "answer"]
            r == p.uid
<1>1. /\ p.pc = "post" /\ pass' = [pass EXCEPT ![n] = q]
      /\ req' = [req EXCEPT ![r] = [state |-> "sent", ep |-> p.ep, job |-> 0]]
      /\ UNCHANGED <<obj, cache, jobs>> /\ RestTyped
  BY DEF SendLaunch, At, Goto, envVars, RestTyped, TypeOK
<1>2. /\ p \in Pass /\ r \in Run /\ p.ep \in Endpoint /\ p.st \in Status /\ PassOK(n, p)
      /\ NameOf[r] = n /\ obj[r].phase = "live" /\ RunOK(r)
  BY <1>1, AtWork
<1>3. ~MayHaveLaunched(r) /\ Unresolved(p.st) /\ p.st = obj[r].st
  BY <1>1, <1>2 DEF PassOK
<1>4. q \in Pass /\ q.pc = "answer" /\ q.uid = r /\ q.ep = p.ep /\ q.st = p.st
  BY <1>2 DEF Pass, PC
<1>. HIDE DEF q
<1>5. /\ req' \in [Run -> Request]
      /\ req'[r].state = "sent" /\ req'[r].ep = p.ep
      /\ \A s \in Run : s # r => req'[s] = req[s]
  BY <1>1, <1>2 DEF TypeOK, Request
<1>6. /\ pass' \in [Name -> Pass] /\ pass'[n] = q
      /\ \A m \in Name : m # n => pass'[m] = pass[m]
  BY <1>1, <1>4 DEF TypeOK
<1>7. TypeOK'
  BY <1>1, <1>5, <1>6 DEF TypeOK, RestTyped
<1>8. OneHolder'
  BY <1>1 DEF OneHolder
<1>9. ASSUME NEW s \in Run PROVE RunOK(s)'
  <2>1. RunOK(s) /\ RecordOK(obj[s].st)'
    BY <1>1 DEF RunOK, RecordOK
  <2>2. CASE s = r
    BY <2>1, <2>2, <1>1, <1>2, <1>3, <1>5 DEF RunOK, Unresolved
  <2>3. CASE s # r
    BY <2>1, <2>3, <1>1, <1>5 DEF RunOK, MayHaveLaunched
  <2>. QED
    BY <2>2, <2>3
<1>10. ASSUME NEW f \in Endpoint, NEW j \in DOMAIN jobs[f], NEW s \in Run, jobs[f][j].by = s
      PROVE  req'[s] = [state |-> "accepted", ep |-> f, job |-> j]
  <2>1. req[s] = [state |-> "accepted", ep |-> f, job |-> j]
    BY <1>10 DEF JobsOK
  <2>2. s # r
    BY <2>1, <1>3 DEF MayHaveLaunched
  <2>. QED
    BY <2>1, <2>2, <1>5
<1>11. JobsOK'
  BY <1>1, <1>10 DEF JobsOK
<1>12. ASSUME NEW m \in Name PROVE CacheOK(m, cache[m])' /\ PassOK(m, pass[m])'
  <2>1. CacheOK(m, cache[m])'
    BY <1>1 DEF CacheOK, NoFinalizer
  <2>2. CASE m = n
    <3>1. PICK d \in Pass : d = q
      BY <1>4
    <3>2. PICK s \in Run : s = r
      BY <1>2
    <3>3. /\ d.pc = "answer" /\ d.uid = s /\ NameOf[s] = n /\ d.ep \in Endpoint
          /\ d.st.endpoint \in {None, d.ep} /\ Unresolved(d.st)
          /\ (obj[s].phase = "live" /\ obj[s].fin /\ obj[s].st = d.st)'
          /\ (req[s].state = "sent" /\ req[s].ep = d.ep)'
      BY <3>1, <3>2, <1>1, <1>2, <1>3, <1>4, <1>5 DEF PassOK
    <3>4. PassOK(n, d)'
      BY <3>3 DEF PassOK
    <3>5. pass'[n] = d
      BY <1>6, <3>1
    <3>. QED
      BY <2>1, <2>2, <3>4, <3>5 DEF PassOK
  <2>3. CASE m # n
    <3>1. PassOK(m, pass[m]) /\ (pass[m].pc \notin {"idle", "release"} => pass[m].uid \in Run /\ pass[m].uid # r)
      BY <2>3, <1>2 DEF PassOK
    <3>2. PassOK(m, pass[m])'
      BY <2>3, <3>1, <1>1, <1>5, <1>6 DEF PassOK, NoFinalizer, MayHaveLaunched
    <3>. QED
      BY <2>1, <3>2
  <2>. QED
    BY <2>2, <2>3
<1>. QED
  BY <1>7, <1>8, <1>9, <1>11, <1>12

\* From the attempt on, a pass holds the record as it is, and knows where it launched.
LEMMA LaunchKnown ==
    ASSUME ConstantsAssumption, IInv, NEW n \in Name,
           pass[n].pc \in {"poll", "recover", "resolve", "post", "answer", "cancel", "confirm"}
    PROVE  /\ pass[n].st = obj[pass[n].uid].st /\ obj[pass[n].uid].fin
           /\ RecordOK(pass[n].st) /\ pass[n].st.attempted # 0 /\ pass[n].st.endpoint = pass[n].ep
<1>1. PassOK(n, pass[n]) /\ RunOK(pass[n].uid) /\ pass[n].ep \in Endpoint
  BY AtWork
<1>2. /\ pass[n].st = obj[pass[n].uid].st /\ obj[pass[n].uid].fin
      /\ pass[n].st.endpoint \in {None, pass[n].ep}
      /\ Unresolved(pass[n].st) \/ pass[n].st.job # 0
  BY <1>1 DEF PassOK
<1>3. RecordOK(pass[n].st)
  BY <1>1, <1>2 DEF RunOK
<1>. QED
  BY <1>1, <1>2, <1>3 DEF RecordOK, Unresolved, ConstantsAssumption

\* AWX's answer, whatever it is: the launch sent is never forgotten.
LEMMA LaunchAnswerOK ==
    ASSUME ConstantsAssumption, IInv, NEW n \in Name,
           LaunchAccepted(n) \/ LaunchRefused(n) \/ LaunchLost(n)
    PROVE  IInv'
<1>. USE DEF IInv
<1>. DEFINE p == pass[n]
            a == [p.st EXCEPT !.job = req[p.uid].job, !.jobStatus = "running"]
            b == [p.st EXCEPT !.attempted = 0]
<1>1. /\ p.pc = "answer" /\ UNCHANGED <<cache, req, jobs>> /\ RestTyped /\ JobsKept
  BY JobsStay DEF LaunchAccepted, LaunchRefused, LaunchLost, At, awxVars, envVars, RestTyped, TypeOK
<1>2. /\ p.uid \in Run /\ p.ep \in Endpoint /\ p.st \in Status /\ PassOK(n, p)
      /\ NameOf[p.uid] = n /\ obj[p.uid].phase = "live" /\ RunOK(p.uid)
  BY <1>1, AtWork
<1>3. /\ RecordOK(p.st) /\ p.st.attempted # 0 /\ p.st.endpoint = p.ep
      /\ Unresolved(p.st) /\ req[p.uid].ep = p.ep /\ req[p.uid] \in Request
  BY <1>1, <1>2, LaunchKnown DEF PassOK, TypeOK
<1>4. CASE LaunchAccepted(n)
  <2>1. req[p.uid].job \in DOMAIN jobs[p.ep] /\ req[p.uid].job \in Nat
    BY <1>2, <1>3, <1>4 DEF LaunchAccepted, RunOK, Request
  <2>2. /\ a \in Status /\ a.job = req[p.uid].job /\ a.jobStatus = "running"
        /\ a.endpoint = p.ep /\ a.attempted = p.st.attempted
    BY <1>2, <1>3, <2>1 DEF Status
  <2>3. Conclude(n, a) \/ Conclude(n, failRun(a))
    BY <1>4 DEF LaunchAccepted
  <2>. HIDE DEF a
  <2>4. RecordOK(a)
    BY <1>2, <1>3, <2>1, <2>2 DEF RecordOK
  <2>5. failRun(a) \in Status /\ RecordOK(failRun(a)) /\ failRun(a).attempted = a.attempted
    BY <2>2, <2>4, FailKeeps
  <2>6. CASE Conclude(n, a)
    BY <1>1, <1>2, <1>3, <2>2, <2>4, <2>6, ConcludeOK
  <2>7. CASE Conclude(n, failRun(a))
    BY <1>1, <1>2, <1>3, <2>2, <2>5, <2>7, ConcludeOK
  <2>. QED
    BY <2>3, <2>6, <2>7
<1>5. CASE LaunchRefused(n)
  <2>1. Conclude(n, b) /\ ~MayHaveLaunched(p.uid)
    BY <1>5 DEF LaunchRefused, MayHaveLaunched
  <2>2. b \in Status /\ b.job = 0 /\ b.attempted = 0 /\ b.jobStatus # "successful"
    BY <1>2, <1>3 DEF Status, Unresolved, RecordOK
  <2>. HIDE DEF b
  <2>3. RecordOK(b)
    BY <2>2, UnlaunchedOK
  <2>. QED
    BY <1>1, <1>2, <2>1, <2>2, <2>3, ConcludeOK
<1>6. CASE LaunchLost(n)
  BY <1>1, <1>6, EndPassOK DEF LaunchLost
<1>. QED
  BY <1>4, <1>5, <1>6

-----------------------------------------------------------------------------
(* The steps of cleanupAnsibleRun *)

\* Write st to r, the object of this pass, and go on with the cleanup as q.
LEMMA WriteAndGoOn ==
    ASSUME ConstantsAssumption, IInv, RestTyped, JobsKept,
           NEW n \in Name, NEW r \in Run, NameOf[r] = n, obj[r].phase = "live", obj[r].fin,
           obj[r].deleting, NEW st \in Status, RecordOK(st), st.attempted # 0,
           NEW q \in Pass, q.pc \in {"cancel", "confirm", "delhosts"}, q.uid = r, q.st = st,
           q.ep \in Endpoint, st.endpoint = q.ep, q.pc # "delhosts" => st.job # 0,
           obj' = Written(n, st), Goto(n, q), UNCHANGED <<cache, req>>
    PROVE  IInv'
<1>1. obj' = [obj EXCEPT ![r].st = st] /\ pass' = [pass EXCEPT ![n] = q]
  BY WrittenIs DEF Goto, IInv
<1>2. RecordOK(st)'
  BY RecordKept
<1>3. obj'[r].phase = "live" /\ obj'[r].fin /\ obj'[r].deleting /\ obj'[r].st = st
  BY <1>1 DEF IInv, TypeOK, Object
<1>4. PassOK(n, q)'
  BY <1>3 DEF PassOK
<1>. QED
  BY <1>1, <1>2, <1>4, StatusStep

\* Cleanup starts from a live read of the object its copy names.
LEMMA CleanupOK ==
    ASSUME ConstantsAssumption, IInv, NEW n \in Name, cleanupAnsibleRun(n)
    PROVE  IInv'
<1>. USE DEF IInv
<1>. DEFINE r == cache[n].uid
            st == obj[r].st
            p == [NoPass EXCEPT !.uid = r]
            rel == [p EXCEPT !.pc = "release"]
            lost == [p EXCEPT !.pc = "release", !.abandoned = TRUE]
            work == [p EXCEPT !.ep = conn, !.st = st, !.todo = ToDelete(r, st),
                        !.pc = IF Unresolved(st) THEN "resolve"
                               ELSE IF Tracking(st) THEN "cancel" ELSE "delhosts"]
<1>1. /\ cache[n].deleting /\ cache[n].fin
      /\ r \in Run /\ NameOf[r] = n /\ obj[r].phase # "none"
      /\ obj[r].phase = "live" => obj[r].deleting /\ obj[r].fin
      /\ obj[r].phase = "gone" => NoFinalizer(n)
      /\ RunOK(r) /\ obj[r] \in Object /\ st \in Status
  <2>1. cache[n].uid # None /\ cache[n].deleting /\ cache[n].fin /\ cache[n] \in Copy
    BY DEF cleanupAnsibleRun, Begins, TypeOK
  <2>2. r \in Run /\ CacheOK(n, cache[n])
    BY <2>1 DEF Copy
  <2>3. obj[r] \in Object /\ st \in Status /\ RunOK(r)
    BY <2>2 DEF TypeOK, Object
  <2>. QED
    BY <2>1, <2>2, <2>3 DEF CacheOK
<1>2. UNCHANGED <<obj, cache, req, jobs>> /\ RestTyped /\ JobsKept
  BY JobsStay DEF cleanupAnsibleRun, awxVars, envVars, RestTyped, TypeOK
<1>3. \/ Goto(n, rel) \/ Goto(n, lost)
      \/ Holder(n) = r /\ conn # None /\ st.endpoint \in {None, conn} /\ Goto(n, work)
  BY DEF cleanupAnsibleRun
<1>4. /\ rel \in Pass /\ rel.pc = "release" /\ rel.uid = r
      /\ lost \in Pass /\ lost.pc = "release" /\ lost.uid = r
  BY <1>1, EmptyTyped DEF Pass, PC, NoPass
<1>5. ASSUME NEW q \in {rel, lost}, Goto(n, q) PROVE IInv'
  <2>1. q \in Pass /\ q.pc = "release" /\ q.uid = r
    BY <1>4
  <2>. HIDE DEF rel, lost
  <2>2. PassOK(n, q)
    BY <1>1, <2>1 DEF PassOK
  <2>. QED
    BY <1>2, <1>5, <2>1, <2>2, PassOnlyStep DEF Goto
<1>6. CASE Holder(n) = r /\ conn # None /\ st.endpoint \in {None, conn} /\ Goto(n, work)
  <2>1. obj[r].phase = "live" /\ conn \in Endpoint
    BY <1>1, <1>6, HolderLives DEF TypeOK, ConstantsAssumption
  <2>2. ToDelete(r, st) \in SUBSET HostEntry
    BY <1>1 DEF ToDelete, Status
  <2>3. /\ work \in Pass /\ work.uid = r /\ work.ep = conn /\ work.st = st
        /\ work.pc = IF Unresolved(st) THEN "resolve"
                     ELSE IF Tracking(st) THEN "cancel" ELSE "delhosts"
    BY <1>1, <2>1, <2>2, EmptyTyped DEF Pass, PC, NoPass
  <2>. HIDE DEF work
  <2>4. PassOK(n, work)
    BY <1>1, <1>6, <2>1, <2>3 DEF PassOK, Unresolved, Tracking
  <2>. QED
    BY <1>2, <1>6, <2>3, <2>4, PassOnlyStep DEF Goto
<1>. QED
  BY <1>3, <1>5, <1>6

\* The last look records a job that is there.
LEMMA ResolveLostJobOK ==
    ASSUME ConstantsAssumption, IInv, NEW n \in Name, resolveLostJobForCleanup(n)
    PROVE  IInv'
<1>. USE DEF IInv
<1>. DEFINE p == pass[n]
            s(j) == jobs[p.ep][j].status
            t(j) == [p.st EXCEPT !.job = j, !.jobStatus = s(j)]
            q(j) == [p EXCEPT !.st = t(j), !.pc = IF s(j) \in Terminal THEN "delhosts" ELSE "cancel"]
            u == [p EXCEPT !.pc = "delhosts"]
<1>1. /\ p.pc = "resolve"
      /\ \/ \E j \in matchLostLaunchJobs(p.ep, p.st) : obj' = Written(n, t(j)) /\ Goto(n, q(j))
         \/ Goto(n, u) /\ UNCHANGED obj
  BY DEF resolveLostJobForCleanup, At
<1>2. /\ p \in Pass /\ p.uid \in Run /\ p.ep \in Endpoint /\ p.st \in Status /\ PassOK(n, p)
      /\ NameOf[p.uid] = n /\ obj[p.uid].phase = "live"
  BY <1>1, AtWork
<1>3. UNCHANGED <<cache, req, jobs>> /\ RestTyped /\ JobsKept
  BY JobsStay DEF resolveLostJobForCleanup, awxVars, envVars, RestTyped, TypeOK
<1>4. /\ p.st = obj[p.uid].st /\ obj[p.uid].fin /\ obj[p.uid].deleting
      /\ RecordOK(p.st) /\ p.st.attempted # 0 /\ p.st.endpoint = p.ep
  BY <1>1, <1>2, LaunchKnown DEF PassOK
<1>5. ASSUME NEW j \in matchLostLaunchJobs(p.ep, p.st), obj' = Written(n, t(j)), Goto(n, q(j))
      PROVE  IInv'
  <2>1. /\ j \in DOMAIN jobs[p.ep] /\ s(j) # "purged" /\ j \in Nat /\ j # 0
        /\ s(j) \in {"", "unknown", "running"} \cup Terminal
    BY <1>2, MatchedIs, JobStatusTyped
  <2>2. /\ t(j) \in Status /\ t(j).job = j /\ t(j).jobStatus = s(j)
        /\ t(j).endpoint = p.ep /\ t(j).attempted = p.st.attempted
    BY <1>2, <1>4, <2>1 DEF Status
  <2>3. RecordOK(t(j))
    BY <1>2, <1>4, <2>1, <2>2, FollowJob
  <2>. HIDE DEF t
  <2>4. /\ q(j) \in Pass /\ q(j).pc \in {"cancel", "delhosts"} /\ q(j).uid = p.uid
        /\ q(j).ep = p.ep /\ q(j).st = t(j)
    BY <1>2, <2>2 DEF Pass, PC
  <2>. HIDE DEF q
  <2>. QED
    BY <1>2, <1>3, <1>4, <1>5, <2>1, <2>2, <2>3, <2>4, WriteAndGoOn
<1>6. CASE Goto(n, u) /\ UNCHANGED obj
  <2>1. u \in Pass /\ u.pc = "delhosts" /\ u.uid = p.uid /\ u.ep = p.ep /\ u.st = p.st
    BY <1>2 DEF Pass, PC
  <2>. HIDE DEF u
  <2>2. PassOK(n, u)
    BY <1>1, <1>2, <1>4, <2>1 DEF PassOK
  <2>. QED
    BY <1>3, <1>6, <2>1, <2>2, PassOnlyStep DEF Goto
<1>. QED
  BY <1>1, <1>5, <1>6

\* Both halves of cancelAndConfirm: the record stays backed by the job it names.
LEMMA CancelAndConfirmOK ==
    ASSUME ConstantsAssumption, IInv, NEW n \in Name,
           RequestCancel(n) \/ CancelUnrecorded(n) \/ ConfirmStopped(n)
    PROVE  IInv'
<1>. USE DEF IInv
<1>. DEFINE p == pass[n]
            s == jobs[p.ep][p.st.job].status
            a == [p.st EXCEPT !.cancelAsked = TRUE]
            b == [p.st EXCEPT !.jobStatus = s]
            qa == [p EXCEPT !.pc = "confirm", !.st = a]
            qb == [p EXCEPT !.pc = "delhosts", !.st = b]
<1>1. /\ p.pc \in {"cancel", "confirm"} /\ UNCHANGED <<cache, req>> /\ RestTyped
  BY DEF RequestCancel, CancelUnrecorded, ConfirmStopped, At, awxVars, envVars, RestTyped, TypeOK
<1>2. /\ p \in Pass /\ p.uid \in Run /\ p.ep \in Endpoint /\ p.st \in Status /\ PassOK(n, p)
      /\ NameOf[p.uid] = n /\ obj[p.uid].phase = "live"
  BY <1>1, AtWork
<1>3. /\ p.st = obj[p.uid].st /\ obj[p.uid].fin /\ obj[p.uid].deleting
      /\ RecordOK(p.st) /\ p.st.attempted # 0 /\ p.st.endpoint = p.ep
  BY <1>1, <1>2, LaunchKnown DEF PassOK
<1>4. p.st.job # 0 /\ p.st.job \in DOMAIN jobs[p.ep]
  BY <1>1, <1>2, <1>3 DEF PassOK, RecordOK
<1>5. AskCancel(p.ep, p.st.job) \/ UNCHANGED jobs => JobsKept
  BY <1>2, <1>4, JobsStay, CancelKeepsJobs
<1>6. /\ a \in Status /\ a.job = p.st.job /\ a.attempted = p.st.attempted
      /\ a.endpoint = p.ep /\ a.jobStatus = p.st.jobStatus
      /\ p.st.cancelAsked => a = p.st
  BY <1>2, <1>3 DEF Status
<1>7. RecordOK(a)
  BY <1>3, <1>6 DEF RecordOK
<1>8. CASE RequestCancel(n)
  <2>1. /\ JobsKept /\ Goto(n, qa)
        /\ obj' = Written(n, a) \/ (obj' = obj /\ p.st.cancelAsked)
    BY <1>5, <1>8 DEF RequestCancel
  <2>. HIDE DEF a
  <2>2. qa \in Pass /\ qa.pc = "confirm" /\ qa.uid = p.uid /\ qa.ep = p.ep /\ qa.st = a
    BY <1>2, <1>6 DEF Pass, PC
  <2>. HIDE DEF qa
  <2>3. CASE obj' = Written(n, a)
    BY <1>1, <1>2, <1>3, <1>4, <1>6, <1>7, <2>1, <2>2, <2>3, WriteAndGoOn
  <2>4. CASE obj' = obj /\ p.st.cancelAsked
    <3>1. PassOK(n, qa)
      BY <1>1, <1>2, <1>3, <1>4, <1>6, <2>2, <2>4 DEF PassOK
    <3>. QED
      BY <1>1, <2>1, <2>2, <2>4, <3>1, PassOnlyStep DEF Goto
  <2>. QED
    BY <2>1, <2>3, <2>4
<1>9. CASE CancelUnrecorded(n)
  BY <1>1, <1>5, <1>9, EndPassOK DEF CancelUnrecorded
<1>10. CASE ConfirmStopped(n)
  <2>1. /\ JobsKept /\ s # "purged"
        /\ obj' = IF s = p.st.jobStatus THEN obj ELSE Written(n, b)
        /\ Goto(n, qb) \/ EndPass(n)
    BY <1>5, <1>10 DEF ConfirmStopped, awxVars, EndPass
  <2>2. s \in {"", "unknown", "running"} \cup Terminal
    BY <1>2, <1>4, <2>1, JobStatusTyped
  <2>3. /\ b \in Status /\ b.job = p.st.job /\ b.attempted = p.st.attempted
        /\ b.endpoint = p.ep /\ b.jobStatus = s
        /\ s = p.st.jobStatus => b = p.st
    BY <1>2, <1>3, <2>2 DEF Status
  <2>. HIDE DEF b
  <2>4. RecordOK(b)
    BY <1>2, <1>3, <1>4, <2>1, <2>3, FollowJob
  <2>5. qb \in Pass /\ qb.pc = "delhosts" /\ qb.uid = p.uid /\ qb.ep = p.ep /\ qb.st = b
    BY <1>2, <2>3 DEF Pass, PC
  <2>. HIDE DEF qb, s
  <2>6. CASE obj' = obj /\ b = p.st
    <3>1. PassOK(n, qb)
      BY <1>1, <1>2, <1>3, <1>4, <2>3, <2>5, <2>6 DEF PassOK
    <3>2. CASE Goto(n, qb)
      BY <1>1, <2>1, <2>5, <2>6, <3>1, <3>2, PassOnlyStep DEF Goto
    <3>3. CASE EndPass(n)
      BY <1>1, <2>1, <2>6, <3>3, EndPassOK
    <3>. QED
      BY <2>1, <3>2, <3>3
  <2>7. CASE obj' = Written(n, b)
    <3>1. CASE Goto(n, qb)
      BY <1>1, <1>2, <1>3, <2>1, <2>3, <2>4, <2>5, <2>7, <3>1, WriteAndGoOn
    <3>2. CASE EndPass(n)
      BY <1>1, <1>2, <1>3, <2>1, <2>3, <2>4, <2>7, <3>2, ConcludeOK DEF Conclude
    <3>. QED
      BY <2>1, <3>1, <3>2
  <2>. QED
    BY <2>1, <2>3, <2>6, <2>7
<1>. QED
  BY <1>8, <1>9, <1>10

\* Deleting hosts touches nothing a record speaks of.
LEMMA DeleteHostsOK ==
    ASSUME ConstantsAssumption, IInv, NEW n \in Name,
           DeleteHost(n) \/ DeleteHostFails(n)
    PROVE  IInv'
<1>. USE DEF IInv
<1>. DEFINE p == pass[n]
<1>1. p.pc = "delhosts" /\ UNCHANGED <<obj, cache, req, jobs>> /\ JobsKept
  BY JobsStay DEF DeleteHost, DeleteHostFails, At, awxVars
<1>2. p \in Pass /\ p.ep \in Endpoint /\ PassOK(n, p)
  BY <1>1, AtWork
<1>3. PICK h \in p.todo, f \in BOOLEAN : Goto(n, [p EXCEPT !.todo = @ \ {h}, !.failed = f])
  <2>1. p.failed \in BOOLEAN /\ \A h : [p EXCEPT !.todo = @ \ {h}] =
                                        [p EXCEPT !.todo = @ \ {h}, !.failed = p.failed]
    BY <1>2 DEF Pass
  <2>. QED
    BY <2>1 DEF DeleteHost, DeleteHostFails
<1>. DEFINE q == [p EXCEPT !.todo = @ \ {h}, !.failed = f]
<1>4. q \in Pass /\ q.pc = p.pc /\ q.uid = p.uid /\ q.ep = p.ep /\ q.st = p.st
  BY <1>2 DEF Pass
<1>. HIDE DEF q
<1>5. PassOK(n, q)
  BY <1>1, <1>2, <1>4 DEF PassOK
<1>6. RestTyped
  <2>1. hosts' \in [Endpoint -> [Host -> HostRec]]
    <3>1. NoHost \in HostRec
      BY DEF NoHost, HostRec
    <3>2. \A x \in p.todo : x.name \in Host
      BY <1>2 DEF Pass, HostEntry
    <3>3. \/ hosts' = hosts
          \/ \E x \in p.todo : hosts' = [hosts EXCEPT ![p.ep][x.name] = NoHost]
      BY DEF DeleteHost, DeleteHostFails, awxVars
    <3>4. ASSUME NEW y \in Host, hosts' = [hosts EXCEPT ![p.ep][y] = NoHost]
          PROVE  hosts' \in [Endpoint -> [Host -> HostRec]]
      <4>1. hosts[p.ep] \in [Host -> HostRec]
        BY <1>2 DEF TypeOK
      <4>2. [hosts[p.ep] EXCEPT ![y] = NoHost] \in [Host -> HostRec]
        BY <3>1, <4>1
      <4>. QED
        BY <1>2, <3>4, <4>2 DEF TypeOK
    <3>. QED
      BY <3>2, <3>3, <3>4 DEF TypeOK
  <2>2. UNCHANGED <<conn, second, lastHost, elapsed, crashes, edits>>
    BY DEF DeleteHost, DeleteHostFails, awxVars, envVars
  <2>. QED
    BY <2>1, <2>2 DEF RestTyped, TypeOK
<1>. QED
  BY <1>1, <1>3, <1>4, <1>5, <1>6, PassOnlyStep DEF Goto, q

\* The cleanup is through, and its object is still the one being deleted.
LEMMA HostsDoneOK ==
    ASSUME ConstantsAssumption, IInv, NEW n \in Name, HostsDone(n)
    PROVE  IInv'
<1>. USE DEF IInv
<1>. DEFINE p == pass[n]
            q == [p EXCEPT !.pc = "release"]
<1>1. /\ p.pc = "delhosts" /\ UNCHANGED <<obj, cache, req, jobs>> /\ JobsKept /\ RestTyped
      /\ Goto(n, q) \/ EndPass(n)
  BY JobsStay DEF HostsDone, At, EndPass, awxVars, envVars, RestTyped, TypeOK
<1>2. /\ p \in Pass /\ p.uid \in Run /\ PassOK(n, p)
      /\ NameOf[p.uid] = n /\ obj[p.uid].phase = "live"
  BY <1>1, AtWork
<1>3. q \in Pass /\ q.pc = "release" /\ q.uid = p.uid
  BY <1>2 DEF Pass, PC
<1>. HIDE DEF q
<1>4. PassOK(n, q)
  BY <1>1, <1>2, <1>3 DEF PassOK
<1>5. CASE Goto(n, q)
  BY <1>1, <1>3, <1>4, <1>5, PassOnlyStep DEF Goto
<1>6. CASE EndPass(n)
  BY <1>1, <1>6, EndPassOK
<1>. QED
  BY <1>1, <1>5, <1>6

\* The release is addressed by name, and yet only an object under deletion loses
\* its finalizer: a replacement has none to lose.
LEMMA ReleaseOK ==
    ASSUME ConstantsAssumption, IInv, NEW n \in Name, ReleaseFinalizer(n)
    PROVE  IInv'
<1>. USE DEF IInv
<1>1. /\ pass[n].pc = "release" /\ pass' = [pass EXCEPT ![n] = NoPass]
      /\ UNCHANGED <<cache, req, jobs>> /\ JobsKept
      /\ RestTyped
  BY JobsStay DEF ReleaseFinalizer, At, EndPass, Goto, TimersKept, awxVars, envVars, RestTyped, TypeOK
<1>2. pass' \in [Name -> Pass] /\ \A m \in Name : pass'[m] = IF m = n THEN NoPass ELSE pass[m]
  BY <1>1, EmptyTyped DEF TypeOK
<1>3. CASE Holder(n) = None
  BY <1>1, <1>3, EndPassOK DEF ReleaseFinalizer, EndPass, Goto
<1>4. CASE Holder(n) # None
  <2>1. PICK r \in Run : r = Holder(n) /\ NameOf[r] = n /\ obj[r].phase = "live"
    BY <1>4, HolderLives
  <2>2. obj[r] \in Object /\ PassOK(n, pass[n])
    BY <2>1 DEF TypeOK
  <2>3. obj[r].deleting \/ obj[r].fin = FALSE
    <3>1. CASE obj[pass[n].uid].phase = "live"
      <4>1. pass[n].uid = r
        BY <1>1, <2>1, <2>2, <3>1 DEF PassOK, OneHolder
      <4>. QED
        BY <1>1, <2>2, <3>1, <4>1 DEF PassOK
    <3>2. CASE obj[pass[n].uid].phase # "live"
      <4>1. pass[n].uid \in Run /\ obj[pass[n].uid].phase = "gone"
        BY <1>1, <2>2, <3>2 DEF PassOK, TypeOK, Object
      <4>. QED
        BY <1>1, <2>1, <2>2, <4>1 DEF PassOK, NoFinalizer, Object
    <3>. QED
      BY <3>1, <3>2
  <2>4. obj[r].fin = FALSE => [obj[r] EXCEPT !.fin = FALSE] = obj[r]
    BY <2>2 DEF Object
  <2>5. obj' = [obj EXCEPT ![r] = IF obj[r].deleting THEN Gone ELSE [obj[r] EXCEPT !.fin = FALSE]]
    BY <1>4, <2>1 DEF ReleaseFinalizer, TypeOK
  <2>6. PICK o \in {obj[r], Gone} : obj' = [obj EXCEPT ![r] = o]
    BY <2>3, <2>4, <2>5
  <2>7. \A s \in Run : obj'[s] = IF s = r THEN o ELSE obj[s]
    BY <2>6 DEF TypeOK
  <2>8. o.phase = "live" => o = obj[r]
    BY <2>6 DEF Gone, NoObject
  <2>9. ASSUME NEW m \in Name PROVE PassOK(m, pass[m])'
    <3>1. CASE m = n
      BY <3>1, <1>2 DEF PassOK, NoPass
    <3>2. CASE m # n
      <4>1. PassOK(m, pass[m]) /\ (pass[m].pc # "idle" => pass[m].uid \in Run /\ pass[m].uid # r)
        BY <2>1, <3>2 DEF PassOK
      <4>2. NoFinalizer(m) => NoFinalizer(m)'
        BY <2>7, <2>8 DEF NoFinalizer
      <4>. QED
        BY <1>1, <1>2, <2>7, <3>2, <4>1, <4>2 DEF PassOK, MayHaveLaunched
    <3>. QED
      BY <3>1, <3>2
  <2>. QED
    BY <1>1, <1>2, <2>1, <2>6, <2>9, ObjectStep
<1>. QED
  BY <1>3, <1>4

-----------------------------------------------------------------------------
(* The invariant, and what follows from it *)

\* The invariant holds at the start.
LEMMA InitOK ==
    ASSUME ConstantsAssumption, Init
    PROVE  IInv
<1>1. TypeOK
  <2>1. hosts \in [Endpoint -> [Host -> HostRec]]
    <3>1. [id |-> 1, by |-> None] \in HostRec /\ NoHost \in HostRec
      BY DEF HostRec, NoHost
    <3>. QED
      BY <3>1 DEF Init
  <2>2. jobs \in [Endpoint -> Seq(Job)]
    BY EmptySeq DEF Init
  <2>. QED
    BY <2>1, <2>2, EmptyTyped DEF Init, TypeOK
<1>2. \A r \in Run : obj[r] = NoObject /\ req[r] = NoRequest
  BY DEF Init
<1>3. OneHolder
  BY <1>2 DEF OneHolder, NoObject
<1>4. ASSUME NEW r \in Run PROVE RunOK(r)
  <2>1. RecordOK(obj[r].st)
    BY <1>2, EmptyRecordOK DEF NoObject
  <2>2. obj[r].phase = "none" /\ req[r].state = "none"
    BY <1>2 DEF NoObject, NoRequest
  <2>. QED
    BY <1>2, <2>1, <2>2 DEF RunOK
<1>5. JobsOK
  BY DEF Init, JobsOK
<1>6. ASSUME NEW n \in Name PROVE CacheOK(n, cache[n]) /\ PassOK(n, pass[n])
  BY DEF Init, CacheOK, NoCopy, PassOK, NoPass
<1>. QED
  BY <1>1, <1>3, <1>4, <1>5, <1>6 DEF IInv

\* It survives a step that changes nothing.
LEMMA StutterOK ==
    ASSUME IInv, UNCHANGED vars
    PROVE  IInv'
BY JobsStay, OutsideStep DEF IInv, vars, RestTyped, TypeOK

\* It survives every step.
LEMMA NextOK ==
    ASSUME ConstantsAssumption, IInv, Next
    PROVE  IInv'
<1>1. ASSUME NEW n \in Name, ApplyStep(n) PROVE IInv'
  BY <1>1, HoldFinalizerOK, CollectOK, ExpireRunOK, ReconcileRunOK, PollRunOK, RecoverOK,
     PrepareLaunchOK, ResolveRunHostOK, HostCallFailsOK, ClaimLaunchOK, SendLaunchOK,
     LaunchAnswerOK DEF ApplyStep
<1>2. ASSUME NEW n \in Name, CleanupStep(n) PROVE IInv'
  BY <1>2, CleanupOK, ResolveLostJobOK, CancelAndConfirmOK, DeleteHostsOK, HostsDoneOK,
     ReleaseOK DEF CleanupStep
<1>3. ASSUME NEW n \in Name, StepFails(n) \/ SyncCache(n) PROVE IInv'
  BY <1>3, StepFailsOK, SyncCacheOK
<1>4. ASSUME NEW r \in Run, RunStep(r) PROVE IInv'
  BY <1>4, CreateRunOK, DeleteRunOK, EditRunOK, AWXLaunchOK, AWXRefuseOK, OutsideOK DEF RunStep
<1>5. ASSUME Crash PROVE IInv'
  BY <1>5, CrashOK
<1>6. ASSUME Repoint \/ Tick \/ \E e \in Endpoint : AWXStep(e) PROVE IInv'
  BY <1>6, OutsideOK
<1>. QED
  BY <1>1, <1>2, <1>3, <1>4, <1>5, <1>6 DEF Next

\* What the API server, the informer's copies and the passes in memory say of
\* every run agrees with what AWX was sent, in every reachable state.
THEOREM Invariance == Spec => []IInv
<1>1. Init => IInv
  BY InitOK, ConstantsAssumption
<1>2. IInv /\ [Next]_vars => IInv'
  BY NextOK, StutterOK, ConstantsAssumption
<1>. QED
  BY <1>1, <1>2, PTL DEF Spec

\* No step takes a variable out of its type; jobStatus in particular.
THEOREM TypeCorrect == Spec => []TypeOK
<1>1. IInv => TypeOK
  BY DEF IInv
<1>. QED
  BY <1>1, Invariance, PTL

\* No run object ever starts two jobs, whatever is lost, stale, repeated or
\* repointed, for any number of runs, names and instances: launchRun's promise.
THEOREM LaunchedOnce == Spec => []AtMostOneJob
<1>1. IInv => AtMostOneJob
  <2>. SUFFICES ASSUME IInv, NEW e \in Endpoint, NEW f \in Endpoint,
                       NEW i \in DOMAIN jobs[e], NEW j \in DOMAIN jobs[f],
                       jobs[e][i].by = jobs[f][j].by, jobs[e][i].by # None
                PROVE  e = f /\ i = j
    BY DEF AtMostOneJob
  <2>1. jobs[e] \in Seq(Job) /\ jobs[e][i] \in Job
    BY ElementOfSeq DEF IInv, TypeOK
  <2>2. PICK r \in Run : r = jobs[e][i].by
    BY <2>1 DEF Job
  <2>3. /\ req[r] = [state |-> "accepted", ep |-> e, job |-> i]
        /\ req[r] = [state |-> "accepted", ep |-> f, job |-> j]
    BY <2>2 DEF IInv, JobsOK
  <2>. QED
    BY <2>3
<1>. QED
  BY <1>1, Invariance, PTL

\* Writes addressed by name reach the object the pass read, never a replacement
\* of it (writeRunDetails, patchFinalizer).
THEOREM OwnObject == Spec => []WritesReachOwnObject
<1>1. ASSUME ConstantsAssumption, IInv, NEW n \in Name, pass[n].pc \notin {"idle", "release"}
      PROVE  Holder(n) = pass[n].uid
  <2>1. pass[n].uid \in Run /\ NameOf[pass[n].uid] = n /\ obj[pass[n].uid].phase = "live" /\ OneHolder
    BY <1>1 DEF IInv, PassOK
  <2>. QED
    BY <2>1, HolderIs
<1>2. ASSUME ConstantsAssumption, IInv, NEW n \in Name, pass[n].pc = "release",
             Holder(n) # None, obj[Holder(n)].fin
      PROVE  Holder(n) = pass[n].uid /\ obj[Holder(n)].deleting
  <2>1. Holder(n) \in Run /\ NameOf[Holder(n)] = n /\ obj[Holder(n)].phase = "live"
    BY <1>2, HolderLives
  <2>2. PassOK(n, pass[n]) /\ OneHolder /\ obj \in [Run -> Object]
    BY <1>2 DEF IInv, TypeOK
  <2>3. pass[n].uid \in Run /\ NameOf[pass[n].uid] = n /\ obj[pass[n].uid].phase # "none"
    BY <1>2, <2>2 DEF PassOK
  <2>4. obj[pass[n].uid].phase # "gone"
    BY <1>2, <2>1, <2>2 DEF PassOK, NoFinalizer
  <2>5. obj[pass[n].uid].phase = "live"
    BY <2>2, <2>3, <2>4 DEF Object
  <2>. QED
    BY <1>2, <2>1, <2>2, <2>3, <2>5 DEF PassOK, OneHolder
<1>3. IInv => WritesReachOwnObject
  BY <1>1, <1>2, ConstantsAssumption DEF WritesReachOwnObject
<1>. QED
  BY <1>3, Invariance, PTL

\* A run reported Ready has a job that succeeded (updateAnsibleRunStatus).
THEOREM ReadyIsEarned == Spec => []SuccessIsReal
<1>1. IInv => SuccessIsReal
  BY DEF IInv, RunOK, RecordOK, SuccessIsReal
<1>. QED
  BY <1>1, Invariance, PTL

-----------------------------------------------------------------------------
(* What a write may not undo *)

\* st drops neither the job nor the end that r's record has.
Keeps(r, st) == /\ obj[r].st.job # 0 => st.job = obj[r].st.job
                /\ obj[r].st.finished => st.finished

\* RecordIsKept, for one step.
StepKeeps == \A r \in Run : obj'[r].phase = "live" => Keeps(r, obj'[r].st)

\* A pass writes what it holds, changed as the step says.
LEMMA WriteKeeps ==
    ASSUME ConstantsAssumption, IInv, NEW r \in Run, obj[r].phase = "live",
           NEW st \in Status, Keeps(r, st), obj' = Written(NameOf[r], st)
    PROVE  StepKeeps
<1>1. obj' = [obj EXCEPT ![r].st = st]
  BY WrittenIs DEF IInv
<1>2. \A s \in Run : obj'[s].st = IF s = r THEN st ELSE obj[s].st
  BY <1>1 DEF IInv, TypeOK, Object
<1>. QED
  BY <1>2 DEF StepKeeps, Keeps

\* Steps that write no status, though they may create or remove an object.
LEMMA SameStatusKeeps ==
    ASSUME \A r \in Run : obj'[r].phase = "live" => obj'[r].st = obj[r].st
    PROVE  StepKeeps
BY DEF StepKeeps, Keeps

\* The pass of n, at one of the steps that write the record.
LEMMA PassHolds ==
    ASSUME ConstantsAssumption, IInv, NEW n \in Name, pass[n].pc \notin {"idle", "read", "release"}
    PROVE  /\ pass[n].uid \in Run /\ NameOf[pass[n].uid] = n /\ obj[pass[n].uid].phase = "live"
           /\ pass[n].st \in Status
           /\ pass[n].pc \in {"launch", "hosts", "claim"} =>
                 obj[pass[n].uid].st.job = 0 /\ ~obj[pass[n].uid].st.finished
           /\ pass[n].pc \notin {"hosts", "claim"} => pass[n].st = obj[pass[n].uid].st
BY AtWork DEF PassOK, Unlaunched

\* Before the launch there is no job on the record, and no end.
LEMMA LaunchStepsKeep ==
    ASSUME ConstantsAssumption, IInv, NEW n \in Name,
           PrepareLaunch(n) \/ resolveRunHost(n) \/ HostCallFails(n) \/ claimLaunch(n)
    PROVE  StepKeeps
<1>. DEFINE p == pass[n]
<1>1. p.pc \in {"launch", "hosts", "claim"}
  BY DEF PrepareLaunch, resolveRunHost, HostCallFails, claimLaunch, At
<1>2. /\ p.uid \in Run /\ NameOf[p.uid] = n /\ obj[p.uid].phase = "live" /\ p.st \in Status
      /\ obj[p.uid].st.job = 0 /\ ~obj[p.uid].st.finished
  BY <1>1, PassHolds
<1>3. \/ UNCHANGED obj \/ \E st : obj' = Written(n, st) \/ obj' = [obj EXCEPT ![p.uid].st = st]
  BY DEF PrepareLaunch, resolveRunHost, HostCallFails, claimLaunch, Conclude, HostFailed
<1>4. \/ UNCHANGED obj \/ \E st : obj' = [obj EXCEPT ![p.uid].st = st]
  <2>1. \A st : Written(NameOf[p.uid], st) = [obj EXCEPT ![p.uid].st = st]
    BY <1>2, WrittenIs DEF IInv
  <2>. QED
    BY <1>2, <1>3, <2>1
<1>5. \A s \in Run : s # p.uid => obj'[s].st = obj[s].st
  BY <1>2, <1>4 DEF IInv, TypeOK
<1>. QED
  BY <1>2, <1>5 DEF StepKeeps, Keeps

\* The steps that write the record the pass holds, which is the object's own.
LEMMA RecordStepsKeep ==
    ASSUME ConstantsAssumption, IInv, NEW n \in Name,
           \/ pollRun(n) \/ recoverLostLaunch(n) \/ LaunchAccepted(n) \/ LaunchRefused(n)
           \/ resolveLostJobForCleanup(n) \/ RequestCancel(n) \/ ConfirmStopped(n)
    PROVE  StepKeeps
<1>. DEFINE p == pass[n]
<1>1. p.pc \in {"poll", "recover", "answer", "resolve", "cancel", "confirm"}
  BY DEF pollRun, recoverLostLaunch, LaunchAccepted, LaunchRefused, resolveLostJobForCleanup,
         RequestCancel, ConfirmStopped, At
<1>2. /\ p.uid \in Run /\ NameOf[p.uid] = n /\ obj[p.uid].phase = "live" /\ p.st \in Status
      /\ p.st = obj[p.uid].st
  BY <1>1, PassHolds
<1>3. /\ p.pc \in {"recover", "answer", "resolve"} => p.st.job = 0
      /\ p.pc = "poll" => ~p.st.finished
  BY <1>1, AtWork DEF PassOK, Unresolved
<1>4. ASSUME NEW st, obj' = Written(n, st), Keeps(p.uid, st) PROVE StepKeeps
  <2>1. obj' = [obj EXCEPT ![p.uid].st = st]
    BY <1>2, <1>4, WrittenIs DEF IInv
  <2>2. \A s \in Run : obj'[s].st = IF s = p.uid THEN st ELSE obj[s].st
    BY <1>2, <2>1 DEF IInv, TypeOK, Object
  <2>. QED
    BY <1>4, <2>2 DEF StepKeeps, Keeps
<1>5. ASSUME UNCHANGED obj PROVE StepKeeps
  BY <1>5, SameStatusKeeps
<1>6. CASE pollRun(n)
  <2>. DEFINE s == jobs[p.ep][p.st.job].status
              t == [p.st EXCEPT !.jobStatus = s, !.finished = s \in Terminal]
  <2>1. p.pc = "poll" /\ obj' = Written(n, t)
    BY <1>6 DEF pollRun, Conclude, At
  <2>2. Keeps(p.uid, t)
    BY <1>2, <1>3, <2>1 DEF Keeps, Status
  <2>. QED
    BY <1>4, <2>1, <2>2
<1>7. CASE recoverLostLaunch(n)
  <2>. DEFINE t(j) == [p.st EXCEPT !.job = j, !.jobStatus = jobs[p.ep][j].status]
  <2>1. /\ p.pc = "recover"
        /\ UNCHANGED obj \/ obj' = Written(n, failRun(p.st)) \/ \E j : obj' = Written(n, t(j))
    BY <1>7 DEF recoverLostLaunch, Conclude, At
  <2>2. Keeps(p.uid, failRun(p.st)) /\ \A j : Keeps(p.uid, t(j))
    BY <1>2, <1>3, <2>1 DEF Keeps, Status, failRun
  <2>. QED
    BY <1>4, <1>5, <2>1, <2>2
<1>8. CASE LaunchAccepted(n)
  <2>. DEFINE t == [p.st EXCEPT !.job = req[p.uid].job, !.jobStatus = "running"]
  <2>1. p.pc = "answer" /\ (obj' = Written(n, t) \/ obj' = Written(n, failRun(t)))
    BY <1>8 DEF LaunchAccepted, Conclude, At
  <2>2. Keeps(p.uid, t) /\ Keeps(p.uid, failRun(t))
    BY <1>2, <1>3, <2>1 DEF Keeps, Status, failRun
  <2>. QED
    BY <1>4, <2>1, <2>2
<1>9. CASE LaunchRefused(n)
  <2>. DEFINE t == [p.st EXCEPT !.attempted = 0]
  <2>1. p.pc = "answer" /\ obj' = Written(n, t)
    BY <1>9 DEF LaunchRefused, Conclude, At
  <2>2. Keeps(p.uid, t)
    BY <1>2, <1>3, <2>1 DEF Keeps, Status
  <2>. QED
    BY <1>4, <2>1, <2>2
<1>10. CASE resolveLostJobForCleanup(n)
  <2>. DEFINE t(j) == [p.st EXCEPT !.job = j, !.jobStatus = jobs[p.ep][j].status]
  <2>1. p.pc = "resolve" /\ (UNCHANGED obj \/ \E j : obj' = Written(n, t(j)))
    BY <1>10 DEF resolveLostJobForCleanup, At
  <2>2. \A j : Keeps(p.uid, t(j))
    BY <1>2, <1>3, <2>1 DEF Keeps, Status
  <2>. QED
    BY <1>4, <1>5, <2>1, <2>2
<1>11. CASE RequestCancel(n)
  <2>. DEFINE t == [p.st EXCEPT !.cancelAsked = TRUE]
  <2>1. UNCHANGED obj \/ obj' = Written(n, t)
    BY <1>11 DEF RequestCancel
  <2>2. Keeps(p.uid, t)
    BY <1>2 DEF Keeps, Status
  <2>. QED
    BY <1>4, <1>5, <2>1, <2>2
<1>12. CASE ConfirmStopped(n)
  <2>. DEFINE t == [p.st EXCEPT !.jobStatus = jobs[p.ep][p.st.job].status]
  <2>1. UNCHANGED obj \/ obj' = Written(n, t)
    BY <1>12 DEF ConfirmStopped
  <2>2. Keeps(p.uid, t)
    BY <1>2 DEF Keeps, Status
  <2>. QED
    BY <1>4, <1>5, <2>1, <2>2
<1>. QED
  BY <1>6, <1>7, <1>8, <1>9, <1>10, <1>11, <1>12

\* A run that expires, or has lost its connection, is ended with its record.
LEMMA EndStepsKeep ==
    ASSUME ConstantsAssumption, IInv, NEW n \in Name, expireRun(n) \/ reconcileRun(n)
    PROVE  StepKeeps
<1>1. PICK r \in Run :
        /\ ReadLive(n, r)
        /\ \/ UNCHANGED obj
           \/ obj' = Written(n, failRun(obj[r].st))
           \/ obj' = Written(n, failRun([obj[r].st EXCEPT !.cancelAsked = TRUE]))
  BY DEF expireRun, reconcileRun, Conclude
<1>2. NameOf[r] = n /\ obj[r].phase = "live" /\ obj[r].st \in Status
  BY <1>1, ReadLiveIs
<1>. DEFINE c == [obj[r].st EXCEPT !.cancelAsked = TRUE]
<1>3. c \in Status /\ c.job = obj[r].st.job
  BY <1>2 DEF Status
<1>. HIDE DEF c
<1>4. /\ failRun(obj[r].st) \in Status /\ Keeps(r, failRun(obj[r].st))
      /\ failRun(c) \in Status /\ Keeps(r, failRun(c))
  BY <1>2, <1>3, FailKeeps DEF Keeps
<1>. QED
  BY <1>1, <1>2, <1>4, WriteKeeps, SameStatusKeeps DEF c

\* Steps that change at most whether an object is there, or held.
LEMMA ObjectStepsKeep ==
    ASSUME ConstantsAssumption, IInv,
           \/ \E n \in Name : HoldFinalizer(n) \/ collectFinishedRun(n) \/ ReleaseFinalizer(n)
           \/ \E r \in Run : DeleteRun(r) \/ CreateRun(r)
    PROVE  StepKeeps
<1>. USE DEF IInv
<1>. DEFINE Changed(r) ==
        \/ obj' = [obj EXCEPT ![r].fin = TRUE] \/ obj' = [obj EXCEPT ![r] = MarkDeleted(@)]
        \/ obj' = [obj EXCEPT ![r].phase = "live"]
        \/ obj' = [obj EXCEPT ![r] = IF @.deleting THEN Gone ELSE [@ EXCEPT !.fin = FALSE]]
<1>1. UNCHANGED obj \/ \E r \in Run : Changed(r)
  <2>1. ASSUME NEW n \in Name, HoldFinalizer(n) PROVE \E r \in Run : Changed(r)
    BY <2>1, HolderLives DEF HoldFinalizer
  <2>2. ASSUME NEW n \in Name, ReleaseFinalizer(n) PROVE UNCHANGED obj \/ \E r \in Run : Changed(r)
    BY <2>2, HolderLives DEF ReleaseFinalizer
  <2>3. ASSUME NEW n \in Name, collectFinishedRun(n)
        PROVE  UNCHANGED obj \/ \E r \in Run : Changed(r)
    BY <2>3 DEF collectFinishedRun
  <2>4. ASSUME NEW r \in Run, DeleteRun(r) \/ CreateRun(r) PROVE Changed(r)
    BY <2>4 DEF DeleteRun, CreateRun
  <2>. QED
    BY <2>1, <2>2, <2>3, <2>4
<1>2. ASSUME NEW r \in Run, Changed(r) PROVE StepKeeps
  <2>1. \A s \in Run : s # r => obj'[s] = obj[s]
    BY <1>2 DEF TypeOK
  <2>2. obj'[r].phase = "live" => obj'[r].st = obj[r].st
    BY <1>2 DEF TypeOK, Object, MarkDeleted, Gone, NoObject
  <2>. QED
    BY <2>1, <2>2, SameStatusKeeps
<1>. QED
  BY <1>1, <1>2, SameStatusKeeps

\* Every other step leaves the objects as they are.
LEMMA NextKeeps ==
    ASSUME ConstantsAssumption, IInv, Next
    PROVE  StepKeeps
<1>1. ASSUME NEW n \in Name, ApplyStep(n) PROVE StepKeeps
  <2>1. ASSUME SendLaunch(n) \/ LaunchLost(n) PROVE StepKeeps
    BY <2>1, SameStatusKeeps DEF SendLaunch, LaunchLost
  <2>. QED
    BY <1>1, <2>1, LaunchStepsKeep, RecordStepsKeep, EndStepsKeep, ObjectStepsKeep DEF ApplyStep
<1>2. ASSUME NEW n \in Name, CleanupStep(n) PROVE StepKeeps
  <2>1. ASSUME cleanupAnsibleRun(n) \/ CancelUnrecorded(n) \/ DeleteHost(n) \/ DeleteHostFails(n)
               \/ HostsDone(n)
        PROVE  StepKeeps
    BY <2>1, SameStatusKeeps
       DEF cleanupAnsibleRun, CancelUnrecorded, DeleteHost, DeleteHostFails, HostsDone
  <2>. QED
    BY <1>2, <2>1, RecordStepsKeep, ObjectStepsKeep DEF CleanupStep
<1>3. ASSUME NEW n \in Name, StepFails(n) \/ SyncCache(n) PROVE StepKeeps
  BY <1>3, SameStatusKeeps DEF StepFails, SyncCache
<1>4. ASSUME NEW r \in Run, RunStep(r) PROVE StepKeeps
  <2>1. ASSUME EditRun(r) \/ AWXLaunch(r) \/ AWXRefuse(r) \/ \E t \in Timers : Elapse(t, r)
        PROVE  StepKeeps
    BY <2>1, SameStatusKeeps DEF EditRun, AWXLaunch, AWXRefuse, Elapse
  <2>. QED
    BY <1>4, <2>1, ObjectStepsKeep DEF RunStep
<1>5. ASSUME NEW e \in Endpoint, AWXStep(e) PROVE StepKeeps
  BY <1>5, SameStatusKeeps DEF AWXStep, JobEnds, PurgeJob, OtherLaunch, EditInventory
<1>6. ASSUME Crash \/ Repoint \/ Tick PROVE StepKeeps
  BY <1>6, SameStatusKeeps DEF Crash, Repoint, Tick
<1>. QED
  BY <1>1, <1>2, <1>3, <1>4, <1>5, <1>6 DEF Next

\* No write of any handler drops a recorded job id, replaces it by another, or
\* takes a run that has ended up again (writeRunDetails, claimLaunch).
THEOREM RecordKeptForever == Spec => RecordIsKept
<1>. DEFINE A == \A r \in Run : obj'[r].phase = "live" =>
                   /\ obj[r].st.job # 0 => obj'[r].st.job = obj[r].st.job
                   /\ obj[r].st.finished => obj'[r].st.finished
<1>1. StepKeeps => A
  BY DEF StepKeeps, Keeps
<1>2. IInv /\ [Next]_vars => [A]_vars
  BY <1>1, NextKeeps, ConstantsAssumption
<1>. QED
  BY <1>2, Invariance, PTL DEF Spec, RecordIsKept

=============================================================================
