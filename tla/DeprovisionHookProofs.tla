------------------------ MODULE DeprovisionHookProofs ------------------------
(***************************************************************************)
(* Proofs about DeprovisionHook, for any children of the name, VMs, AWX    *)
(* instances and number of edits.  What is said of a child's own job needs *)
(* a name that is taken over at most once (Pair).                          *)
(***************************************************************************)
EXTENDS DeprovisionHook, FiniteSetTheorems, TLAPS

-----------------------------------------------------------------------------
(* Data *)

\* What nothing looks like is of the right type.
LEMMA EmptyTyped ==
    /\ NoDep \in Dep /\ NoFacts \in Facts /\ NoObject \in Object /\ NoHost \in Host
    /\ NoPass \in Pass /\ NoRequest \in Request
    /\ [NoObject EXCEPT !.phase = "gone"] \in Object
    /\ NoPass.pc = "idle" /\ NoPass.dep = NoDep /\ NoPass.facts = NoFacts /\ ~NoPass.lost
    /\ NoDep.job = 0 /\ NoDep.phase = "none"
<1>1. NoDep \in Dep /\ NoFacts \in Facts
  BY DEF NoDep, Dep, NoFacts, Facts, Connection
<1>2. NoObject \in Object
  BY <1>1 DEF NoObject, Object
<1>3. NoHost \in Host
  BY DEF NoHost, Host, Connection
<1>4. NoPass \in Pass
  BY <1>1, <1>3 DEF NoPass, Pass, PC
<1>5. NoRequest \in Request
  BY DEF NoRequest, Request
<1>6. [NoObject EXCEPT !.phase = "gone"] \in Object
  BY <1>2 DEF Object
<1>. QED
  BY <1>1, <1>2, <1>3, <1>4, <1>5, <1>6 DEF NoPass, NoDep

\* The holder of the name is the child that is there, if any.
LEMMA HolderIs ==
    ASSUME OneHolder
    PROVE  /\ Holder \in Child \cup {None}
           /\ Holder # None => Holder \in Holders /\ Holder \in Child /\ obj[Holder].phase = "live"
           /\ Holder = None => Holders = {}
           /\ \A c \in Holders : Holder = c
<1>1. None \notin Child
  BY TeardownAssumption
<1>2. Holders \subseteq Child
  BY DEF Holders
<1>. QED
  BY <1>1, <1>2 DEF Holder, OneHolder, Holders

\* What the types say.
LEMMA Typed ==
    ASSUME IInv
    PROVE  /\ hook \in Hook /\ obj \in [Child -> Object] /\ cache \in Copy /\ pass \in Pass
           /\ host \in [Endpoint -> Host] /\ jobs \in [Endpoint -> Seq(Job)]
           /\ prov \in [Child -> {"none", "running", "ended"}] /\ req \in [Child -> Request]
           /\ pass.dep \in Dep /\ pass.facts \in Facts /\ pass.host \in Host
           /\ pass.uid \in Child \cup {None} /\ pass.ep \in Endpoint \cup {None}
           /\ None \notin Child /\ None \notin Endpoint /\ Holders \subseteq Child
           /\ \A c \in Child : obj[c] \in Object /\ obj[c].dep \in Dep /\ obj[c].facts \in Facts
<1>1. /\ hook \in Hook /\ obj \in [Child -> Object] /\ cache \in Copy /\ pass \in Pass
      /\ host \in [Endpoint -> Host] /\ jobs \in [Endpoint -> Seq(Job)]
      /\ prov \in [Child -> {"none", "running", "ended"}] /\ req \in [Child -> Request]
  BY DEF IInv, TypeOK
<1>2. pass.dep \in Dep /\ pass.facts \in Facts /\ pass.host \in Host
      /\ pass.uid \in Child \cup {None} /\ pass.ep \in Endpoint \cup {None}
  BY <1>1 DEF Pass
<1>3. \A c \in Child : obj[c] \in Object /\ obj[c].dep \in Dep /\ obj[c].facts \in Facts
  BY <1>1 DEF Object
<1>. QED
  BY <1>1, <1>2, <1>3, TeardownAssumption DEF Holders

\* A pass that is over keeps nothing.
LEMMA IdleOK == PassOK(NoPass)
<1>1. RecordOK(NoPass.facts, NoPass.dep)
  BY EmptyTyped, TeardownAssumption DEF RecordOK, Within, NoPass, NoDep, NoFacts
<1>2. InHand(NoPass)
  BY EmptyTyped DEF InHand, Launching, OnInstance, Settled
<1>3. HeldOK(NoPass) /\ LaunchOK(NoPass) /\ PairOK(NoPass) /\ AloneOK(NoPass)
  BY EmptyTyped DEF HeldOK, LaunchOK, PairOK, AloneOK, AtWork, Launching, OnInstance, Settled
<1>4. DurableOK(NoPass)
  BY EmptyTyped DEF DurableOK, OnInstance, Launching
<1>. QED
  BY <1>1, <1>2, <1>3, <1>4 DEF PassOK

-----------------------------------------------------------------------------
(* Steps that change only the pass, and AWX's host *)

\* What is said of records, requests and children reads this much of the state.
LEMMA SameRecords ==
    ASSUME UNCHANGED <<hook, jobs, prov, req, overdue>>, excused \subseteq excused'
    PROVE  /\ \A f, d : RecordOK(f, d) => RecordOK(f, d)'
           /\ \A c, d : OwnRecord(c, d) => OwnRecord(c, d)'
           /\ \A r, c : RequestOK(r, c) => RequestOK(r, c)'
           /\ \A c, o : ChildOK(c, o) => ChildOK(c, o)'
           /\ JobsOK => JobsOK'
<1>1. /\ \A f, d : RecordOK(f, d) => RecordOK(f, d)'
      /\ \A c, d : OwnRecord(c, d) => OwnRecord(c, d)'
      /\ \A r, c : RequestOK(r, c) => RequestOK(r, c)'
  BY DEF RecordOK, Within, EndedWell, OwnRecord, RequestOK
<1>2. JobsOK => JobsOK'
  BY DEF JobsOK
<1>3. \A c, o : ChildOK(c, o) => ChildOK(c, o)'
  BY <1>1 DEF ChildOK, Pair, Alone
<1>. QED
  BY <1>1, <1>2, <1>3

\* What is said of a pass reads this much of it.
LEMMA SamePass ==
    ASSUME UNCHANGED <<hook, obj, jobs, prov, req, overdue, reported>>, excused \subseteq excused',
           vms \subseteq vms', NEW q
    PROVE  /\ InHand(q) => InHand(q)'
           /\ HeldOK(q) => HeldOK(q)'
           /\ LaunchOK(q) => LaunchOK(q)'
           /\ DurableOK(q) => DurableOK(q)'
           /\ PairOK(q) => PairOK(q)'
           /\ AloneOK(q) => AloneOK(q)'
<1>1. Holders' = Holders
  BY DEF Holders
<1>2. InHand(q) => InHand(q)'
  BY DEF InHand, Within
<1>3. HeldOK(q) => HeldOK(q)'
  BY <1>1 DEF HeldOK, Ending
<1>4. LaunchOK(q) => LaunchOK(q)'
  BY <1>1 DEF LaunchOK
<1>5. DurableOK(q) => DurableOK(q)'
  BY <1>1 DEF DurableOK, Within
<1>6. PairOK(q) => PairOK(q)'
  BY SameRecords DEF PairOK
<1>7. AloneOK(q) => AloneOK(q)'
  BY DEF AloneOK, vmIsGone
<1>. QED
  BY <1>2, <1>3, <1>4, <1>5, <1>6, <1>7

\* A step that leaves the pass sound, and changes little else, keeps the invariant.
LEMMA PassOnly ==
    ASSUME IInv, NEW q \in Pass, pass' = q,
           UNCHANGED <<hook, obj, cache, vms, conn, jobs, prov, req, overdue, reported, edits>>,
           host' \in [Endpoint -> Host], excused \subseteq excused', excused' \subseteq Child,
           RecordOK(q.facts, q.dep), InHand(q), HeldOK(q), LaunchOK(q), DurableOK(q),
           Pair => PairOK(q)', Alone => AloneOK(q)
    PROVE  IInv'
<1>1. TypeOK'
  BY DEF IInv, TypeOK
<1>2. Holders' = Holders /\ (OneHolder => OneHolder')
  BY DEF Holders, OneHolder
<1>3. CopyOK(cache)'
  BY <1>2 DEF IInv, CopyOK, Ending
<1>4. JobsOK' /\ \A c \in Child : RequestOK(req[c], c)' /\ ChildOK(c, obj[c])'
  <2>1. \A c \in Child : RequestOK(req[c], c)' <=> RequestOK(req[c], c)
    BY DEF RequestOK
  <2>2. \A c \in Child : ChildOK(c, obj[c]) => ChildOK(c, obj[c])'
    BY SameRecords
  <2>. QED
    BY <2>1, <2>2, SameRecords DEF IInv
<1>5. PassOK(q)'
  <2>1. RecordOK(q.facts, q.dep)'
    BY SameRecords
  <2>2. (Pair <=> Pair') /\ (Alone <=> Alone')
    BY DEF Pair, Alone
  <2>. QED
    BY <2>1, <2>2, SamePass DEF PassOK
<1>. QED
  BY <1>1, <1>2, <1>3, <1>4, <1>5 DEF IInv

\* A step that ends the pass does.
LEMMA PassEnds ==
    ASSUME IInv, pass' = NoPass,
           UNCHANGED <<hook, obj, cache, vms, conn, jobs, prov, req, overdue, reported, edits>>,
           host' \in [Endpoint -> Host], UNCHANGED excused
    PROVE  IInv'
<1>1. PairOK(NoPass)'
  BY EmptyTyped DEF PairOK, AtWork, OnInstance, Settled, Launching
<1>2. excused \subseteq Child
  BY DEF IInv, TypeOK
<1>3. AloneOK(NoPass)
  BY EmptyTyped DEF AloneOK, AtWork, OnInstance, Settled, Launching
<1>. QED
  BY <1>1, <1>2, <1>3, IdleOK, EmptyTyped, PassOnly DEF PassOK

-----------------------------------------------------------------------------
(* A pass that has the hook's outcome *)

\* Taking the override off a record changes nothing of what it says of a job.
LEMMA UnpinnedIs ==
    ASSUME NEW d \in Dep
    PROVE  /\ Unpinned(d) \in Dep /\ Unpinned(d).phase = d.phase /\ Unpinned(d).job = d.job
           /\ Unpinned(d).ep = d.ep /\ Unpinned(d).pinEp = d.pinEp
           /\ Unpinned(d).narrowed = d.narrowed
BY DEF Unpinned, Dep, Connection

\* Where a pass goes from there.
LEMMA AfterHookIs ==
    ASSUME NEW p \in Pass, NEW q, q = AfterHook(p) \/ q = AfterRestore(p)
    PROVE  /\ q \in Pass /\ q.pc \in Settled /\ q.uid = p.uid /\ q.facts = p.facts
           /\ q.ep = p.ep /\ q.lost = p.lost /\ q.dep \in {p.dep, Unpinned(p.dep)}
           /\ q.pc = "lost" => p.lost
           /\ ~p.dep.pinned => q.dep = p.dep /\ q.pc # "restore"
<1>1. p.dep \in Dep /\ Unpinned(p.dep) \in Dep
  BY UnpinnedIs DEF Pass
<1>2. ASSUME NEW r \in Pass
      PROVE  /\ AfterRestore(r) \in Pass /\ AfterRestore(r).pc \in {"delete", "report"}
             /\ AfterRestore(r).uid = r.uid /\ AfterRestore(r).facts = r.facts
             /\ AfterRestore(r).ep = r.ep /\ AfterRestore(r).lost = r.lost
             /\ AfterRestore(r).dep = r.dep
  BY DEF AfterRestore, Pass, PC
<1>3. CASE q = AfterRestore(p)
  BY <1>2, <1>3 DEF Settled
<1>4. CASE q = AfterHook(p)
  <2>. DEFINE r == [p EXCEPT !.dep = Unpinned(@)]
  <2>1. r \in Pass /\ r.dep = Unpinned(p.dep) /\ r.uid = p.uid /\ r.facts = p.facts
        /\ r.ep = p.ep /\ r.lost = p.lost
    BY <1>1 DEF Pass
  <2>2. CASE p.lost
    <3>1. q = [p EXCEPT !.pc = "lost"]
      BY <1>4, <2>2 DEF AfterHook
    <3>. QED
      BY <2>2, <3>1 DEF Pass, PC, Settled
  <2>3. CASE ~p.lost /\ ~(p.dep.pinned /\ Survives(p))
    <3>1. q = AfterRestore(p)
      BY <1>4, <2>3 DEF AfterHook
    <3>. QED
      BY <1>2, <3>1 DEF Settled
  <2>4. CASE ~p.lost /\ p.dep.pinned /\ Survives(p)
    <3>1. q = AfterRestore(r) \/ q = [p EXCEPT !.pc = "restore"]
      BY <1>4, <2>4 DEF AfterHook
    <3>. HIDE DEF r
    <3>2. CASE q = AfterRestore(r)
      BY <1>2, <2>1, <2>4, <3>2 DEF Settled
    <3>3. CASE q = [p EXCEPT !.pc = "restore"]
      BY <3>3, <2>4 DEF Pass, PC, Settled
    <3>. QED
      BY <3>1, <3>2, <3>3
  <2>. QED
    BY <2>2, <2>3, <2>4
<1>. QED
  BY <1>3, <1>4

\* What is said of a record does not look at the override it keeps.
LEMMA SameOutcome ==
    ASSUME NEW d \in Dep, NEW f, NEW e, NEW u \in {d, Unpinned(d)}
    PROVE  /\ RecordOK(f, d) => RecordOK(f, u)
           /\ Within(f, d, e) => Within(f, u, e)
           /\ \A c : OwnRecord(c, d) => OwnRecord(c, u)
           /\ u.phase = d.phase /\ u.job = d.job /\ u \in Dep
<1>1. /\ u.phase = d.phase /\ u.job = d.job /\ u.ep = d.ep /\ u.pinEp = d.pinEp
      /\ u.narrowed = d.narrowed /\ u \in Dep
  BY UnpinnedIs
<1>. QED
  BY <1>1 DEF RecordOK, Within, OwnRecord, EndedWell

\* A pass on an instance that comes to the outcome is sound.
LEMMA Outcome ==
    ASSUME IInv, pass.pc \in OnInstance \ {"poll"}, NEW q \in Pass, q.pc \in Settled,
           q.uid = pass.uid, q.facts = pass.facts, q.ep = pass.ep,
           q.pc \in {"lost", "restore"} => hook # "none", hook = "none" => q.dep = NoDep /\ ~q.lost,
           hook # "none" => q.dep.phase \in Done,
           RecordOK(pass.facts, q.dep), Within(pass.facts, q.dep, pass.ep)
    PROVE  /\ RecordOK(q.facts, q.dep) /\ InHand(q) /\ HeldOK(q) /\ LaunchOK(q) /\ DurableOK(q)
           /\ Alone => AloneOK(q)
           /\ Pair /\ OwnRecord(q.uid, q.dep) => PairOK(q)
<1>1. /\ InHand(pass) /\ HeldOK(pass) /\ LaunchOK(pass) /\ DurableOK(pass)
      /\ (Pair => PairOK(pass)) /\ (Alone => AloneOK(pass))
  BY DEF IInv, PassOK
<1>2. /\ pass.pc \in AtWork /\ pass.pc \notin {"idle", "read", "release", "connect", "poll"}
      /\ q.pc \in AtWork
      /\ q.pc \notin {"idle", "read", "release", "connect", "poll", "find", "decide", "answer"}
      /\ q.pc \notin Launching
  BY DEF OnInstance, AtWork, Settled, Launching
<1>3. pass.uid \in Child /\ pass.ep \in Endpoint
  BY <1>1, <1>2 DEF InHand
<1>4. InHand(q)
  BY <1>1, <1>2, <1>3 DEF InHand
<1>5. HeldOK(q)
  BY <1>1, <1>2 DEF HeldOK
<1>6. LaunchOK(q)
  <2>1. hook # "none" => q.dep.phase \notin {"none", "Pending"}
    BY DEF Done
  <2>. QED
    BY <1>1, <1>2, <2>1 DEF LaunchOK
<1>7. DurableOK(q)
  BY <1>1, <1>2 DEF DurableOK
<1>8. Alone => AloneOK(q)
  BY <1>1, <1>2 DEF AloneOK
<1>9. Pair /\ OwnRecord(q.uid, q.dep) => PairOK(q)
  BY <1>1, <1>2 DEF PairOK
<1>. QED
  BY <1>4, <1>5, <1>6, <1>7, <1>8, <1>9

\* So a step to the outcome keeps the invariant.
LEMMA OutcomeStep ==
    ASSUME IInv, pass.pc \in OnInstance \ {"poll"}, NEW p \in Pass, NEW q,
           q = AfterHook(p) \/ q = AfterRestore(p), pass' = q,
           p.uid = pass.uid, p.facts = pass.facts, p.ep = pass.ep,
           hook = "none" => p.dep = NoDep /\ ~p.lost, hook # "none" => p.dep.phase \in Done,
           RecordOK(pass.facts, p.dep), Within(pass.facts, p.dep, pass.ep),
           Pair => OwnRecord(pass.uid, p.dep),
           UNCHANGED <<hook, obj, cache, vms, conn, jobs, prov, req, overdue, reported, edits>>,
           host' \in [Endpoint -> Host], excused \subseteq excused', excused' \subseteq Child
    PROVE  IInv'
<1>1. /\ q \in Pass /\ q.pc \in Settled /\ q.uid = p.uid /\ q.facts = p.facts
      /\ q.ep = p.ep /\ q.lost = p.lost /\ q.dep \in {p.dep, Unpinned(p.dep)}
      /\ q.pc = "lost" => p.lost
      /\ ~p.dep.pinned => q.dep = p.dep /\ q.pc # "restore"
  BY AfterHookIs
<1>2. p.dep \in Dep
  BY DEF Pass
<1>3. /\ RecordOK(pass.facts, q.dep) /\ Within(pass.facts, q.dep, pass.ep)
      /\ (Pair => OwnRecord(pass.uid, q.dep)) /\ q.dep.phase = p.dep.phase
  BY <1>1, <1>2, SameOutcome
<1>4. hook = "none" => q.dep = NoDep /\ q.pc # "restore"
  BY <1>1 DEF NoDep
<1>5. /\ RecordOK(q.facts, q.dep) /\ InHand(q) /\ HeldOK(q) /\ LaunchOK(q) /\ DurableOK(q)
      /\ (Alone => AloneOK(q)) /\ (Pair => PairOK(q))
  BY <1>1, <1>3, <1>4, Outcome
<1>6. Pair => PairOK(q)'
  BY <1>5, SamePass
<1>. QED
  BY <1>1, <1>5, <1>6, PassOnly

-----------------------------------------------------------------------------
(* Up to the host *)

\* What the parts of the invariant say of the pass.
LEMMA PassIs ==
    ASSUME IInv
    PROVE  /\ RecordOK(pass.facts, pass.dep) /\ InHand(pass) /\ HeldOK(pass) /\ LaunchOK(pass)
           /\ DurableOK(pass) /\ (Pair => PairOK(pass)) /\ (Alone => AloneOK(pass))
           /\ pass \in Pass /\ pass.dep \in Dep /\ pass.facts \in Facts
           /\ host \in [Endpoint -> Host] /\ excused \subseteq Child
BY Typed DEF IInv, PassOK, TypeOK

LEMMA CleanupStep == ASSUME IInv, cleanupAnsibleBindingVM PROVE IInv'
<1>1. /\ pass.pc = "idle" /\ cache.uid # None /\ cache.deleting
      /\ UNCHANGED <<hook, obj, cache, vms, conn, jobs, prov, req, overdue, reported, edits>>
      /\ UNCHANGED <<host, excused>>
  BY DEF cleanupAnsibleBindingVM, awxVars, outVars, envVars
<1>2. PICK t \in {"read", "release", "connect"} :
        /\ pass' = [NoPass EXCEPT !.pc = t, !.uid = cache.uid, !.retain = cache.retain,
                                  !.facts = cache.facts]
        /\ t = "read" <=> hook # "none"
  <2>1. CASE hook # "none"
    BY <2>1 DEF cleanupAnsibleBindingVM
  <2>2. CASE hook = "none" /\ cache.retain
    BY <2>2 DEF cleanupAnsibleBindingVM
  <2>3. CASE hook = "none" /\ ~cache.retain
    BY <2>3 DEF cleanupAnsibleBindingVM
  <2>. QED
    BY <2>1, <2>2, <2>3
<1>12. PICK q : q = [NoPass EXCEPT !.pc = t, !.uid = cache.uid, !.retain = cache.retain,
                                   !.facts = cache.facts]
  OBVIOUS
<1>3. /\ cache.uid \in Child /\ cache.facts \in Facts /\ cache.retain \in BOOLEAN
      /\ cache.facts.ep \in Endpoint \cup {None} /\ Endpoint # {}
  BY <1>1, Typed, TeardownAssumption DEF Copy, Facts
<1>4. /\ q \in Pass /\ q.pc = t /\ q.uid = cache.uid /\ q.facts = cache.facts /\ q.dep = NoDep
      /\ ~q.lost
  BY <1>3, <1>12, EmptyTyped DEF Pass, PC, NoPass
<1>5. /\ NoDep.job = 0 /\ NoDep.phase = "none" /\ NoDep.ep = None /\ NoDep.pinEp = None
  BY DEF NoDep
<1>6. CopyOK(cache) /\ ChildOK(cache.uid, obj[cache.uid])
  BY <1>3 DEF IInv
<1>7. RecordOK(q.facts, q.dep)
  BY <1>3, <1>4, <1>5 DEF RecordOK, Within
<1>8. InHand(q)
  BY <1>2, <1>3, <1>4, <1>5 DEF InHand, Launching, OnInstance, Settled
<1>9. HeldOK(q)
  BY <1>1, <1>2, <1>4, <1>6 DEF HeldOK, CopyOK
<1>10. LaunchOK(q) /\ (Alone => AloneOK(q)) /\ PairOK(q)'
  BY <1>1, <1>2, <1>4, <1>5 DEF LaunchOK, AloneOK, PairOK, OwnRecord, AtWork, OnInstance, Settled,
     Launching
<1>11. DurableOK(q)
  BY <1>1, <1>2, <1>4, <1>5, <1>6 DEF DurableOK, CopyOK, ChildOK, OnInstance, Launching, Done
<1>13. pass' = q
  BY <1>2, <1>12
<1>. QED
  BY <1>1, <1>4, <1>7, <1>8, <1>9, <1>10, <1>11, <1>13, PassIs, PassOnly

LEMMA StepFailsStep == ASSUME IInv, StepFails PROVE IInv'
BY PassIs, PassEnds DEF StepFails, awxVars, outVars, envVars

\* Giving up on AWX is an outcome, and excused.
LEMMA HooklessIs ==
    ASSUME NEW d \in Dep, NEW f, RecordOK(f, d)
    PROVE  /\ hooklessOutcome(d) \in Dep /\ hooklessOutcome(d).phase \in Done
           /\ RecordOK(f, hooklessOutcome(d))
           /\ UNCHANGED jobs =>
                \A c, h : OwnRecord(c, d) /\ c \in excused' /\ h = hooklessOutcome(d) =>
                           OwnRecord(c, h)'
<1>. PICK h : h = hooklessOutcome(d)
  OBVIOUS
<1>1. CASE d.phase \in {"none", "Pending"} /\ d.job = 0
  <2>1. h = [NoDep EXCEPT !.phase = "Skipped"]
    BY <1>1 DEF hooklessOutcome, Done
  <2>2. h \in Dep /\ h.phase = "Skipped" /\ h.job = 0 /\ h.ep = None /\ h.pinEp = None
    BY <2>1, EmptyTyped DEF Dep, Done, NoDep
  <2>. QED
    BY <2>2 DEF RecordOK, OwnRecord, Within, Done
<1>2. CASE ~(d.phase \in {"none", "Pending"} /\ d.job = 0) /\ d.phase \in Done
  <2>1. h = d
    BY <1>2 DEF hooklessOutcome, Done
  <2>. QED
    BY <1>2, <2>1 DEF OwnRecord
<1>3. CASE ~(d.phase \in {"none", "Pending"} /\ d.job = 0) /\ d.phase \notin Done
  <2>1. h = [d EXCEPT !.phase = "Failed"]
    BY <1>3 DEF hooklessOutcome, Done
  <2>2. h \in Dep /\ h.phase = "Failed" /\ h.job = d.job /\ h.ep = d.ep /\ h.pinEp = d.pinEp
        /\ h.narrowed = d.narrowed
    BY <2>1 DEF Dep, Done
  <2>. QED
    BY <2>2 DEF RecordOK, OwnRecord, Within, Done
<1>. QED
  BY <1>1, <1>2, <1>3

LEMMA HooklessStep ==
    ASSUME IInv, pass.pc \in {"connect", "find"}, finishHookless,
           UNCHANGED <<obj, cache, awxVars, reported, envVars>>
    PROVE  IInv'
<1>1. UNCHANGED <<hook, obj, cache, vms, conn, jobs, prov, req, overdue, reported, edits>>
      /\ UNCHANGED host
  BY DEF awxVars, envVars
<1>. PICK d : d = IF hook = "none" THEN pass.dep ELSE hooklessOutcome(pass.dep)
  OBVIOUS
<1>. PICK q : q = [pass EXCEPT !.pc = "report", !.dep = d]
  OBVIOUS
<1>. PICK u : u = pass.uid
  OBVIOUS
<1>2. pass' = q /\ excused' = excused \cup {u}
  BY DEF finishHookless
<1>3. u \in Child /\ pass.pc \in AtWork
  BY PassIs DEF InHand, AtWork, OnInstance
<1>4. /\ d \in Dep /\ RecordOK(pass.facts, d)
      /\ Pair => OwnRecord(u, d)'
  <2>1. Pair => OwnRecord(u, pass.dep)
    BY PassIs DEF PairOK
  <2>2. u \in excused'
    BY <1>2
  <2>3. CASE hook # "none"
    BY <1>1, <2>1, <2>2, <2>3, PassIs, HooklessIs
  <2>4. CASE hook = "none"
    BY <1>1, <1>2, <2>1, <2>4, PassIs DEF OwnRecord
  <2>. QED
    BY <2>3, <2>4
<1>5. (hook # "none" => d.phase \in Done) /\ (hook = "none" => d = NoDep)
  BY PassIs, HooklessIs DEF InHand
<1>6. q \in Pass /\ q.pc = "report" /\ q.dep = d /\ q.uid = u /\ q.facts = pass.facts
      /\ q.lost = pass.lost
  BY <1>4, PassIs DEF Pass, PC
<1>7. q.pc \in AtWork /\ q.pc \in Settled /\ q.pc \notin OnInstance /\ q.pc \notin Launching
  BY <1>6 DEF AtWork, Settled, OnInstance, Launching
<1>8. InHand(q)
  BY <1>3, <1>5, <1>6, <1>7, PassIs DEF InHand
<1>9. HeldOK(q)
  BY <1>3, <1>6, PassIs DEF HeldOK
<1>10. LaunchOK(q)
  <2>1. hook # "none" => q.dep.phase \notin {"none", "Pending"}
    BY <1>5, <1>6 DEF Done
  <2>. QED
    BY <1>3, <1>6, <2>1, PassIs DEF LaunchOK
<1>11. DurableOK(q)
  BY <1>6, <1>7 DEF DurableOK
<1>12. Alone => AloneOK(q)
  BY <1>3, <1>6, <1>7, PassIs DEF AloneOK
<1>13. Pair => PairOK(q)'
  BY <1>1, <1>3, <1>4, <1>6, <1>7, PassIs DEF PairOK
<1>14. RecordOK(q.facts, q.dep) /\ host' \in [Endpoint -> Host] /\ excused' \subseteq Child
  BY <1>1, <1>2, <1>3, <1>4, <1>6, PassIs
<1>. QED
  BY <1>1, <1>2, <1>6, <1>8, <1>9, <1>10, <1>11, <1>12, <1>13, <1>14, PassOnly

\* A pass that goes on for whom it is for stays sound in these respects.
LEMMA Onward ==
    ASSUME IInv, pass.pc \in AtWork, NEW q \in Pass, q.pc \in AtWork \ {"answer"},
           q.uid = pass.uid,
           q.dep.phase \in {"none", "Pending"} => pass.dep.phase \in {"none", "Pending"}
    PROVE  /\ q.uid \in Child /\ HeldOK(q) /\ LaunchOK(q)
           /\ Pair /\ OwnRecord(q.uid, q.dep) => PairOK(q)
<1>1. pass.pc \notin {"idle", "read", "release"} /\ q.pc \notin {"idle", "read", "release"}
  BY DEF AtWork, OnInstance, Settled, Launching
<1>. QED
  BY <1>1, PassIs DEF InHand, HeldOK, LaunchOK, PairOK

\* All that is on record is on the instance it names.
LEMMA RecordedIs ==
    ASSUME NEW f, NEW d, NEW e, RecordOK(f, d), recordedAWXEndpoint(f, d) \in {None, e}
    PROVE  Within(f, d, e)
<1>1. PICK x \in Endpoint : Within(f, d, x)
  BY DEF RecordOK
<1>2. CASE f.ep # None
  BY <1>1, <1>2 DEF recordedAWXEndpoint, Within
<1>3. CASE f.ep = None /\ d.pinEp # None
  BY <1>1, <1>3 DEF recordedAWXEndpoint, Within
<1>4. CASE f.ep = None /\ d.pinEp = None
  BY <1>1, <1>4 DEF recordedAWXEndpoint, Within
<1>. QED
  BY <1>2, <1>3, <1>4

LEMMA ConnectStep == ASSUME IInv, Connect PROVE IInv'
<1>1. /\ pass.pc = "connect"
      /\ UNCHANGED <<hook, obj, cache, vms, conn, jobs, prov, req, overdue, reported, edits>>
      /\ UNCHANGED host
  BY DEF Connect, awxVars, envVars
<1>2. CASE conn = None \/ recordedAWXEndpoint(pass.facts, pass.dep) \notin {None, conn}
  <2>1. finishHookless /\ UNCHANGED <<obj, cache, awxVars, reported, envVars>>
    BY <1>2 DEF Connect
  <2>. QED
    BY <1>1, <2>1, HooklessStep
<1>3. CASE conn # None /\ recordedAWXEndpoint(pass.facts, pass.dep) \in {None, conn}
  <2>1. conn \in Endpoint
    BY <1>3 DEF IInv, TypeOK
  <2>2. PICK t : t = IF pass.dep.job # 0 /\ pass.dep.phase \notin Done THEN "poll" ELSE "find"
    OBVIOUS
  <2>3. PICK q : q = [pass EXCEPT !.ep = conn, !.pc = t]
    OBVIOUS
  <2>4. pass' = q /\ UNCHANGED excused
    BY <1>3, <2>2, <2>3 DEF Connect
  <2>5. /\ q \in Pass /\ q.pc = t /\ q.ep = conn /\ q.uid = pass.uid /\ q.dep = pass.dep
        /\ q.facts = pass.facts /\ q.lost = pass.lost
    BY <2>1, <2>2, <2>3, PassIs DEF Pass, PC
  <2>6. /\ pass.pc \in AtWork /\ q.pc \in AtWork \ {"answer"} /\ q.pc \in {"poll", "find"}
        /\ q.pc \notin Settled \cup Launching
    BY <1>1, <2>2, <2>5 DEF AtWork, OnInstance, Settled, Launching
  <2>7. /\ q.uid \in Child /\ HeldOK(q) /\ LaunchOK(q)
        /\ Pair /\ OwnRecord(q.uid, q.dep) => PairOK(q)
    BY <2>5, <2>6, Onward
  <2>8. Within(pass.facts, pass.dep, conn)
    BY <1>3, PassIs, RecordedIs
  <2>9. InHand(q)
    BY <1>1, <2>1, <2>2, <2>5, <2>6, <2>7, <2>8, PassIs DEF InHand
  <2>10. DurableOK(q)
    BY <1>1, <2>2, <2>5, <2>6, <2>8, PassIs DEF DurableOK, Within
  <2>11. Alone => AloneOK(q)
    BY <1>1, <2>5, <2>6, PassIs DEF AloneOK
  <2>12. Pair => PairOK(q)
    BY <1>1, <2>5, <2>7, PassIs DEF PairOK
  <2>13. Pair => PairOK(q)'
    BY <1>1, <2>4, <2>12, SamePass
  <2>. QED
    BY <1>1, <2>4, <2>5, <2>7, <2>9, <2>10, <2>11, <2>13, PassIs, PassOnly
<1>. QED
  BY <1>2, <1>3

-----------------------------------------------------------------------------
(* The host and the hook *)

\* A record closed without success.
LEMMA FinishIs ==
    ASSUME NEW d \in Dep, NEW x \in {"Failed", "TimedOut", "Skipped"}, NEW u,
           u = [d EXCEPT !.phase = x]
    PROVE  /\ u \in Dep /\ u.phase = x /\ u.phase \in Done
           /\ \A f : RecordOK(f, d) => RecordOK(f, u)
           /\ \A f, e : Within(f, d, e) => Within(f, u, e)
           /\ \A c : OwnRecord(c, d) /\ (d.job = 0 \/ d.phase \in Done \/ c \in overdue) =>
                       OwnRecord(c, u)
<1>1. /\ u \in Dep /\ u.phase = x /\ u.job = d.job /\ u.ep = d.ep /\ u.pinEp = d.pinEp
      /\ u.narrowed = d.narrowed
  BY DEF Dep, Done
<1>. QED
  BY <1>1 DEF RecordOK, Within, OwnRecord, Done

\* What a pass on an instance has of its record.
LEMMA InstanceIs ==
    ASSUME IInv, pass.pc \in OnInstance
    PROVE  /\ pass.uid \in Child /\ pass.ep \in Endpoint /\ pass.pc \in AtWork
           /\ Within(pass.facts, pass.dep, pass.ep)
           /\ Pair => OwnRecord(pass.uid, pass.dep)
           /\ hook = "none" => pass.dep = NoDep /\ ~pass.lost
<1>1. pass.pc # "idle" /\ pass.pc \in AtWork
  BY DEF OnInstance, Launching, AtWork
<1>. QED
  BY <1>1, PassIs DEF InHand, PairOK

\* A pass looks for the host and then decides.
LEMMA DecideStep ==
    ASSUME IInv, pass.pc = "find", hook # "none", NEW q \in Pass, pass' = q, q.pc = "decide",
           q.uid = pass.uid, q.facts = pass.facts, q.dep = pass.dep, q.ep = pass.ep,
           UNCHANGED <<hook, obj, cache, vms, conn, jobs, prov, req, overdue, reported, edits>>,
           UNCHANGED <<host, excused>>
    PROVE  IInv'
<1>1. /\ pass.pc \in OnInstance /\ pass.pc \in AtWork /\ q.pc \in OnInstance
      /\ q.pc \in AtWork \ {"answer"} /\ q.pc \notin Settled \cup Launching
  BY DEF OnInstance, AtWork, Settled, Launching
<1>2. HeldOK(q) /\ LaunchOK(q) /\ (Pair => PairOK(q))
  BY <1>1, Onward, InstanceIs
<1>3. InHand(q)
  BY <1>1, InstanceIs, PassIs DEF InHand
<1>4. DurableOK(q)
  BY <1>1, PassIs DEF DurableOK
<1>5. Alone => AloneOK(q)
  BY <1>1, PassIs DEF AloneOK
<1>6. Pair => PairOK(q)'
  BY <1>2, SamePass
<1>. QED
  BY <1>2, <1>3, <1>4, <1>5, <1>6, PassIs, PassOnly

LEMMA DiscoverStep == ASSUME IInv, discoverCleanupHost PROVE IInv'
<1>1. /\ pass.pc = "find" /\ pass.pc \in OnInstance \ {"poll"}
      /\ UNCHANGED <<hook, obj, cache, vms, conn, jobs, prov, req, overdue, reported, edits>>
      /\ UNCHANGED <<host, excused>>
  BY DEF discoverCleanupHost, awxVars, outVars, envVars, OnInstance
<1>2. PICK h : h = IF Exists(host[pass.ep]) THEN host[pass.ep] ELSE NoHost
  OBVIOUS
<1>3. h \in Host
  BY <1>1, <1>2, InstanceIs, PassIs, EmptyTyped
<1>4. PICK p : p = [pass EXCEPT !.pc = "decide", !.host = h]
  OBVIOUS
<1>5. /\ p \in Pass /\ p.pc = "decide" /\ p.uid = pass.uid /\ p.facts = pass.facts
      /\ p.dep = pass.dep /\ p.ep = pass.ep /\ p.lost = pass.lost
  BY <1>3, <1>4, PassIs DEF Pass, PC
<1>6. pass' = IF hook = "none" THEN AfterHook(p) ELSE p
  BY <1>2, <1>4 DEF discoverCleanupHost
<1>7. CASE hook # "none"
  BY <1>1, <1>5, <1>6, <1>7, DecideStep
<1>8. CASE hook = "none"
  <2>1. PICK q : q = AfterHook(p)
    OBVIOUS
  <2>2. pass' = q
    BY <1>6, <1>8, <2>1
  <2>. QED
    BY <1>1, <1>5, <1>8, <2>1, <2>2, InstanceIs, PassIs, OutcomeStep
<1>. QED
  BY <1>7, <1>8

\* The record is closed, and the pass goes on to the host.
LEMMA CloseStep ==
    ASSUME IInv, pass.pc \in OnInstance \ {"poll"}, hook # "none",
           NEW x \in {"Failed", "TimedOut", "Skipped"},
           pass.dep.job = 0 \/ pass.dep.phase \in Done \/ pass.uid \in overdue,
           pass' = AfterHook([pass EXCEPT !.dep = [pass.dep EXCEPT !.phase = x]]),
           UNCHANGED <<hook, obj, cache, vms, conn, jobs, prov, req, overdue, reported, edits>>,
           UNCHANGED <<host, excused>>
    PROVE  IInv'
<1>1. PICK d : d = [pass.dep EXCEPT !.phase = x]
  OBVIOUS
<1>2. PICK p : p = [pass EXCEPT !.dep = d]
  OBVIOUS
<1>3. PICK q : q = AfterHook(p)
  OBVIOUS
<1>4. pass' = q
  BY <1>1, <1>2, <1>3
<1>5. /\ d \in Dep /\ d.phase \in Done /\ RecordOK(pass.facts, d)
      /\ Within(pass.facts, d, pass.ep) /\ (Pair => OwnRecord(pass.uid, d))
  BY <1>1, FinishIs, InstanceIs, PassIs
<1>6. p \in Pass /\ p.uid = pass.uid /\ p.facts = pass.facts /\ p.ep = pass.ep /\ p.dep = d
  BY <1>2, <1>5, PassIs DEF Pass
<1>. QED
  BY <1>3, <1>4, <1>5, <1>6, PassIs, OutcomeStep

LEMMA SkippedStep == ASSUME IInv, HookSkipped PROVE IInv'
<1>1. /\ pass.pc = "decide" /\ pass.pc \in OnInstance \ {"poll"}
      /\ UNCHANGED <<hook, obj, cache, vms, conn, jobs, prov, req, overdue, reported, edits>>
      /\ UNCHANGED <<host, excused>>
  BY DEF HookSkipped, awxVars, outVars, envVars, OnInstance
<1>2. hook # "none" /\ (pass.dep.job = 0 \/ pass.dep.phase \in Done)
  BY <1>1, PassIs DEF InHand
<1>3. pass' = AfterHook([pass EXCEPT !.dep = [pass.dep EXCEPT !.phase = "Skipped"]])
  BY DEF HookSkipped, skipHook
<1>. QED
  BY <1>1, <1>2, <1>3, CloseStep

LEMMA UnfitStep == ASSUME IInv, TemplateUnfit \/ LaunchFails PROVE IInv'
<1>1. /\ pass.pc \in {"launch", "answer"} /\ pass.pc \in OnInstance \ {"poll"}
      /\ pass.pc = "launch" => pass.pc \in Launching
      /\ UNCHANGED <<hook, obj, cache, vms, conn, jobs, prov, req, overdue, reported, edits>>
      /\ UNCHANGED <<host, excused>>
  BY DEF TemplateUnfit, LaunchFails, awxVars, outVars, envVars, OnInstance, Launching
<1>2. hook # "none" /\ pass.dep.job = 0
  BY <1>1, PassIs DEF InHand, RecordOK
<1>3. pass' = AfterHook([pass EXCEPT !.dep = [pass.dep EXCEPT !.phase = "Failed"]])
  BY DEF TemplateUnfit, LaunchFails
<1>. QED
  BY <1>1, <1>2, <1>3, CloseStep

\* A host's variable is set.
LEMMA HostTyped ==
    ASSUME IInv, NEW e \in Endpoint, NEW v \in Connection
    PROVE  /\ [host EXCEPT ![e].conn = v] \in [Endpoint -> Host]
           /\ Deleted \in [Endpoint -> Host] \/ pass.ep \notin Endpoint
<1>1. host \in [Endpoint -> Host]
  BY PassIs
<1>2. [host[e] EXCEPT !.conn = v] \in Host
  BY <1>1 DEF Host
<1>3. pass.ep \in Endpoint => [NoHost EXCEPT !.id = host[pass.ep].id] \in Host
  BY <1>1, EmptyTyped DEF Host
<1>. QED
  BY <1>1, <1>2, <1>3 DEF Deleted

LEMMA RestoreStep == ASSUME IInv, RestoreHostVariable \/ RestoreFails PROVE IInv'
<1>1. /\ pass.pc = "restore" /\ pass.pc \in OnInstance \ {"poll"} /\ pass.pc \in Settled
      /\ UNCHANGED <<hook, obj, cache, vms, conn, jobs, prov, req, overdue, reported, edits>>
  BY DEF RestoreHostVariable, RestoreFails, awxVars, outVars, envVars, OnInstance, Settled
<1>2. hook # "none" /\ pass.dep.phase \in Done
  BY <1>1, PassIs DEF InHand
<1>3. host' \in [Endpoint -> Host]
  <2>1. pass.dep.prior \in Connection /\ pass.ep \in Endpoint
    BY <1>1, PassIs, InstanceIs DEF Dep
  <2>2. host' \in {host, [host EXCEPT ![pass.ep].conn = pass.dep.prior]}
    BY DEF RestoreHostVariable, RestoreFails
  <2>. QED
    BY <2>1, <2>2, HostTyped, PassIs
<1>4. excused \subseteq excused' /\ excused' \subseteq Child
  BY <1>1, PassIs, InstanceIs DEF RestoreHostVariable, RestoreFails, outVars
<1>5. PICK d \in {pass.dep, Unpinned(pass.dep)} : pass' = AfterRestore([pass EXCEPT !.dep = d])
  <2>1. CASE RestoreHostVariable
    BY <2>1 DEF RestoreHostVariable
  <2>2. CASE RestoreFails
    <3>1. pass = [pass EXCEPT !.dep = pass.dep]
      BY PassIs DEF Pass
    <3>2. pass' = AfterRestore(pass)
      BY <2>2 DEF RestoreFails
    <3>. QED
      BY <3>1, <3>2
  <2>. QED
    BY <2>1, <2>2
<1>6. PICK p : p = [pass EXCEPT !.dep = d]
  OBVIOUS
<1>7. PICK q : q = AfterRestore(p)
  OBVIOUS
<1>8. /\ d \in Dep /\ d.phase \in Done /\ RecordOK(pass.facts, d)
      /\ Within(pass.facts, d, pass.ep) /\ (Pair => OwnRecord(pass.uid, d))
  BY <1>1, <1>2, SameOutcome, InstanceIs, PassIs
<1>9. p \in Pass /\ p.uid = pass.uid /\ p.facts = pass.facts /\ p.ep = pass.ep /\ p.dep = d
  BY <1>6, <1>8, PassIs DEF Pass
<1>10. pass' = q
  BY <1>5, <1>6, <1>7
<1>. QED
  BY <1>1, <1>2, <1>3, <1>4, <1>7, <1>8, <1>9, <1>10, OutcomeStep

\* The outcome goes to the report.
LEMMA ReportStep ==
    ASSUME IInv, pass.pc \in OnInstance \ {"poll"}, NEW d \in Dep,
           pass' = [pass EXCEPT !.pc = "report", !.dep = d],
           hook = "none" => d = NoDep, hook # "none" => d.phase \in Done,
           RecordOK(pass.facts, d), Within(pass.facts, d, pass.ep),
           Pair => OwnRecord(pass.uid, d),
           UNCHANGED <<hook, obj, cache, vms, conn, jobs, prov, req, overdue, reported, edits>>,
           host' \in [Endpoint -> Host], excused \subseteq excused', excused' \subseteq Child
    PROVE  IInv'
<1>1. PICK q : q = [pass EXCEPT !.pc = "report", !.dep = d]
  OBVIOUS
<1>2. /\ q \in Pass /\ q.pc = "report" /\ q.uid = pass.uid /\ q.facts = pass.facts
      /\ q.ep = pass.ep /\ q.lost = pass.lost /\ q.dep = d /\ q.pc \in Settled
  BY <1>1, PassIs DEF Pass, PC, Settled
<1>3. /\ RecordOK(q.facts, q.dep) /\ InHand(q) /\ HeldOK(q) /\ LaunchOK(q) /\ DurableOK(q)
      /\ (Alone => AloneOK(q)) /\ (Pair => PairOK(q))
  BY <1>2, Outcome, InstanceIs
<1>4. Pair => PairOK(q)'
  BY <1>3, SamePass
<1>. QED
  BY <1>1, <1>2, <1>3, <1>4, PassOnly

LEMMA DeleteStep == ASSUME IInv, DeleteHost PROVE IInv'
<1>1. /\ pass.pc = "delete" /\ pass.pc \in OnInstance \ {"poll"} /\ pass.pc \in Settled
      /\ UNCHANGED <<hook, obj, cache, vms, conn, jobs, prov, req, overdue, reported, edits>>
      /\ UNCHANGED excused
  BY DEF DeleteHost, awxVars, outVars, envVars, OnInstance, Settled
<1>2. host' \in [Endpoint -> Host]
  <2>1. "unset" \in Connection
    BY DEF Connection
  <2>. QED
    BY <1>1, <2>1, HostTyped, InstanceIs DEF DeleteHost
<1>3. pass' = [pass EXCEPT !.pc = "report", !.dep = pass.dep]
  BY PassIs DEF DeleteHost, Pass
<1>4. hook # "none" => pass.dep.phase \in Done
  BY <1>1, PassIs DEF InHand
<1>. QED
  BY <1>1, <1>2, <1>3, <1>4, ReportStep, InstanceIs, PassIs

LEMMA GoneStep == ASSUME IInv, InventoryGone PROVE IInv'
BY HooklessStep DEF InventoryGone

\* What the hook's turn makes of a record.
LEMMA OverIs ==
    ASSUME NEW d \in Dep, NEW c, NEW h, h = HookIsOver(d, c \in overdue)
    PROVE  \/ h = d /\ d.phase \in Done
           \/ h = d /\ d.phase \in {"none", "Pending", "Running"}
           \/ h = [d EXCEPT !.phase = "Failed"] /\ d.phase = "Launching"
           \/ h = [d EXCEPT !.phase = "TimedOut"] /\ c \in overdue
<1>1. d.phase \in {"none", "Pending", "Launching", "Running"} \cup Done
  BY DEF Dep
<1>2. CASE d.phase \in Done
  BY <1>2 DEF HookIsOver, Done
<1>3. CASE d.phase = "Launching"
  BY <1>3 DEF HookIsOver, Done
<1>4. CASE d.phase \in {"none", "Pending", "Running"} /\ c \in overdue
  BY <1>4 DEF HookIsOver, Done
<1>5. CASE d.phase \in {"none", "Pending", "Running"} /\ c \notin overdue
  BY <1>5 DEF HookIsOver, Done
<1>. QED
  BY <1>1, <1>2, <1>3, <1>4, <1>5

\* The hook was over, or is now.
LEMMA OverStep ==
    ASSUME IInv, pass.pc = "decide", NEW d, d = HookIsOver(pass.dep, pass.uid \in overdue),
           d.phase \in Done, pass' = AfterHook([pass EXCEPT !.dep = d]),
           UNCHANGED <<hook, obj, cache, vms, conn, jobs, prov, req, overdue, reported, edits>>,
           UNCHANGED <<host, excused>>
    PROVE  IInv'
<1>1. pass.pc \in OnInstance \ {"poll"} /\ hook # "none"
  BY PassIs DEF OnInstance, InHand
<1>2. \/ d = pass.dep /\ pass.dep.phase \in Done
      \/ d = [pass.dep EXCEPT !.phase = "Failed"] /\ pass.dep.phase = "Launching"
      \/ d = [pass.dep EXCEPT !.phase = "TimedOut"] /\ pass.uid \in overdue
  BY OverIs, PassIs DEF Done
<1>3. CASE d = [pass.dep EXCEPT !.phase = "Failed"] /\ pass.dep.phase = "Launching"
  <2>1. pass.dep.job = 0
    BY <1>3, PassIs DEF RecordOK
  <2>. QED
    BY <1>1, <1>3, <2>1, CloseStep
<1>4. CASE d = [pass.dep EXCEPT !.phase = "TimedOut"] /\ pass.uid \in overdue
  BY <1>1, <1>4, CloseStep
<1>5. CASE d = pass.dep /\ pass.dep.phase \in Done
  <2>1. PICK p : p = [pass EXCEPT !.dep = d]
    OBVIOUS
  <2>2. PICK q : q = AfterHook(p)
    OBVIOUS
  <2>3. p \in Pass /\ p.uid = pass.uid /\ p.facts = pass.facts /\ p.ep = pass.ep
        /\ p.dep = pass.dep
    BY <1>5, <2>1, PassIs DEF Pass
  <2>4. pass' = q
    BY <2>1, <2>2
  <2>. QED
    BY <1>1, <1>5, <2>2, <2>3, <2>4, OutcomeStep, InstanceIs, PassIs
<1>. QED
  BY <1>2, <1>3, <1>4, <1>5

\* A pass on its way to a launch.
LEMMA LaunchingStep ==
    ASSUME IInv, pass.pc \in Launching, NEW q \in Pass, pass' = q, q.pc \in Launching,
           q.uid = pass.uid, q.facts = pass.facts, q.dep = pass.dep, q.ep = pass.ep,
           UNCHANGED <<hook, obj, cache, vms, conn, jobs, prov, req, overdue, reported, edits>>,
           host' \in [Endpoint -> Host], UNCHANGED excused
    PROVE  IInv'
<1>1. /\ pass.pc \in OnInstance /\ pass.pc \in AtWork /\ q.pc \in OnInstance
      /\ pass.pc \notin {"idle", "read", "poll", "connect", "find", "decide", "answer"}
      /\ q.pc \notin {"idle", "read", "poll", "connect", "find", "decide", "answer"}
      /\ q.pc \in AtWork \ {"answer"} /\ q.pc \notin Settled
  BY DEF OnInstance, AtWork, Settled, Launching
<1>2. HeldOK(q) /\ LaunchOK(q) /\ (Pair => PairOK(q))
  BY <1>1, Onward, InstanceIs
<1>3. InHand(q)
  BY <1>1, InstanceIs, PassIs DEF InHand
<1>4. DurableOK(q)
  BY <1>1, PassIs DEF DurableOK
<1>5. Alone => AloneOK(q)
  BY <1>1, PassIs DEF AloneOK
<1>6. Pair => PairOK(q)'
  BY <1>2, SamePass
<1>. QED
  BY <1>2, <1>3, <1>4, <1>5, <1>6, PassIs, PassOnly

\* The hook's turn has come.
LEMMA TurnStep ==
    ASSUME IInv, pass.pc = "decide", ~Skipped, ~MustWait,
           HookIsOver(pass.dep, pass.uid \in overdue).phase \notin Done,
           pass' = [pass EXCEPT !.pc = "launch",
                       !.facts.job = IF @ = "running" THEN "ended" ELSE @],
           UNCHANGED <<hook, obj, cache, vms, conn, jobs, prov, req, overdue, reported, edits>>,
           UNCHANGED <<host, excused>>
    PROVE  IInv'
<1>1. PICK q : q = [pass EXCEPT !.pc = "launch",
                      !.facts.job = IF @ = "running" THEN "ended" ELSE @]
  OBVIOUS
<1>2. pass.facts.job \in {"none", "running", "ended"} /\ pass.facts.ep \in Endpoint \cup {None}
  BY PassIs DEF Facts
<1>3. /\ q \in Pass /\ q.pc = "launch" /\ q.uid = pass.uid /\ q.dep = pass.dep
      /\ q.ep = pass.ep /\ q.lost = pass.lost
      /\ q.facts.ep = pass.facts.ep /\ q.facts.job # "running"
  BY <1>1, <1>2, PassIs DEF Pass, PC, Facts
<1>4. /\ pass.pc \in OnInstance /\ pass.pc \in AtWork /\ q.pc \in OnInstance /\ q.pc \in Launching
      /\ q.pc \in AtWork \ {"answer"} /\ q.pc \notin Settled
  BY <1>3 DEF OnInstance, AtWork, Settled, Launching
<1>5. HeldOK(q) /\ LaunchOK(q) /\ (Pair => PairOK(q))
  BY <1>3, <1>4, Onward, InstanceIs
<1>6. pass.dep.phase \in {"none", "Pending"} /\ hook # "none"
  <2>1. PICK h : h = HookIsOver(pass.dep, pass.uid \in overdue)
    OBVIOUS
  <2>2. h = pass.dep /\ pass.dep.phase \in {"none", "Pending", "Running"}
    BY <2>1, OverIs, PassIs, FinishIs
  <2>. QED
    BY <2>1, <2>2, PassIs DEF InHand, RecordOK
<1>7. InHand(q)
  BY <1>3, <1>4, <1>6, InstanceIs, PassIs DEF InHand, Within
<1>8. DurableOK(q)
  BY <1>3, <1>4, PassIs DEF DurableOK
<1>9. Alone => AloneOK(q)
  <2>. SUFFICES ASSUME Alone PROVE AloneOK(q)
    OBVIOUS
  <2>1. vmIsGone(pass.uid)
    BY DEF Skipped
  <2>2. /\ obj[pass.uid].facts = pass.facts /\ obj[pass.uid].deleting
        /\ pass.facts.job = "running" => prov[pass.uid] # "none"
    BY <1>4, <1>6, PassIs DEF AloneOK
  <2>3. pass.facts.job = "running" => prov[pass.uid] = "ended"
    BY <2>2, <1>4, InstanceIs, Typed DEF MustWait
  <2>. QED
    BY <1>3, <1>4, <2>1, <2>2, <2>3 DEF AloneOK
<1>10. RecordOK(q.facts, q.dep)
  BY <1>3, PassIs DEF RecordOK, Within
<1>11. Pair => PairOK(q)'
  BY <1>5, SamePass
<1>. QED
  BY <1>1, <1>3, <1>5, <1>7, <1>8, <1>9, <1>10, <1>11, PassIs, PassOnly

LEMMA PinStep == ASSUME IInv, SetHostVariables PROVE IInv'
<1>1. /\ pass.pc = "pin" /\ pass.pc \in Launching /\ pass.pc \in OnInstance
      /\ UNCHANGED <<hook, obj, cache, vms, conn, jobs, prov, req, overdue, reported, edits>>
      /\ UNCHANGED excused
  BY DEF SetHostVariables, awxVars, outVars, envVars, OnInstance, Launching
<1>2. host' \in {host, [host EXCEPT ![pass.ep].conn = "local"]}
  BY DEF SetHostVariables
<1>3. "local" \in Connection
  BY DEF Connection
<1>4. host' \in [Endpoint -> Host]
  BY <1>1, <1>2, <1>3, HostTyped, InstanceIs, PassIs
<1>5. pass' = NoPass \/ pass' = [pass EXCEPT !.pc = "submit"]
      \/ pass' = [pass EXCEPT !.pc = "submit", !.host.conn = "local"]
  BY DEF SetHostVariables
<1>6. CASE pass' = NoPass
  BY <1>1, <1>4, <1>6, PassEnds
<1>7. CASE pass' = [pass EXCEPT !.pc = "submit"]
  <2>1. PICK q : q = [pass EXCEPT !.pc = "submit"]
    OBVIOUS
  <2>2. /\ q \in Pass /\ q.pc \in Launching /\ q.uid = pass.uid /\ q.facts = pass.facts
        /\ q.dep = pass.dep /\ q.ep = pass.ep
    BY <2>1, PassIs DEF Pass, PC, Launching
  <2>. QED
    BY <1>1, <1>4, <1>7, <2>1, <2>2, LaunchingStep
<1>8. CASE pass' = [pass EXCEPT !.pc = "submit", !.host.conn = "local"]
  <2>1. PICK q : q = [pass EXCEPT !.pc = "submit", !.host.conn = "local"]
    OBVIOUS
  <2>2. /\ q \in Pass /\ q.pc \in Launching /\ q.uid = pass.uid /\ q.facts = pass.facts
        /\ q.dep = pass.dep /\ q.ep = pass.ep
    BY <1>3, <2>1, PassIs DEF Pass, PC, Launching, Host
  <2>. QED
    BY <1>1, <1>4, <1>8, <2>1, <2>2, LaunchingStep
<1>. QED
  BY <1>5, <1>6, <1>7, <1>8

-----------------------------------------------------------------------------
(* Status writes *)

\* A status write changes the holder's record, if anything.
LEMMA WrittenIs ==
    ASSUME IInv, NEW d \in Dep, NEW f \in Facts, obj' = obj \/ obj' = Written(d, f)
    PROVE  /\ obj' \in [Child -> Object] /\ Holders' = Holders /\ OneHolder'
           /\ \A c \in Child : /\ obj'[c].phase = obj[c].phase /\ obj'[c].fin = obj[c].fin
                               /\ obj'[c].deleting = obj[c].deleting
                               /\ c \notin Holders => obj'[c] = obj[c]
                               /\ \/ obj'[c] = obj[c]
                                  \/ /\ obj'[c].dep = d /\ obj'[c].facts = f
                                     /\ d.phase # "none" /\ c = Holder
<1>1. obj \in [Child -> Object] /\ OneHolder
  BY Typed DEF IInv
<1>2. CASE obj' = obj
  BY <1>1, <1>2 DEF Holders, OneHolder
<1>3. CASE obj' # obj
  <2>1. /\ Holder # None /\ d.phase # "none"
        /\ obj' = [obj EXCEPT ![Holder].dep = d, ![Holder].facts = f]
    BY <1>3 DEF Written
  <2>2. Holder \in Child /\ Holder \in Holders
    BY <1>1, <2>1, HolderIs
  <2>3. PICK o : o = [obj[Holder] EXCEPT !.dep = d, !.facts = f]
    OBVIOUS
  <2>4. obj[Holder] \in Object
    BY <1>1, <2>2
  <2>5. /\ o \in Object /\ o.phase = obj[Holder].phase /\ o.fin = obj[Holder].fin
         /\ o.deleting = obj[Holder].deleting /\ o.dep = d /\ o.facts = f
    BY <2>3, <2>4 DEF Object
  <2>6. obj' = [obj EXCEPT ![Holder] = o]
    BY <1>1, <2>1, <2>2, <2>3
  <2>7. /\ obj' \in [Child -> Object] /\ \A c \in Child : c # Holder => obj'[c] = obj[c]
    BY <1>1, <2>2, <2>5, <2>6
  <2>8. /\ obj'[Holder].phase = obj[Holder].phase /\ obj'[Holder].fin = obj[Holder].fin
        /\ obj'[Holder].deleting = obj[Holder].deleting
        /\ obj'[Holder].dep = d /\ obj'[Holder].facts = f
    BY <1>1, <2>2, <2>5, <2>6
  <2>9. \A c \in Child : obj'[c].phase = obj[c].phase
    BY <2>7, <2>8
  <2>10. Holders' = Holders
    BY <2>9 DEF Holders
  <2>11. OneHolder'
    BY <1>1, <2>10 DEF OneHolder
  <2>. QED
    BY <2>1, <2>2, <2>7, <2>8, <2>10, <2>11
<1>. QED
  BY <1>2, <1>3

\* What may be written: of who holds the name, it is so.
Writable(f, d) ==
    /\ RecordOK(f, d)
    /\ hook = "none" => d.phase = "none"
    /\ d.phase \in {"none", "Pending"} => \A c \in Holders : req[c].state = "none"
    /\ Pair => \A c \in Holders : OwnRecord(c, d)
    /\ Alone /\ f.job = "running" => \A c \in Holders : prov[c] # "none"

\* The rest of the state stays sound.
LEMMA WriteWorld ==
    ASSUME IInv, NEW d \in Dep, NEW f \in Facts, obj' = obj \/ obj' = Written(d, f),
           Writable(f, d), excused \subseteq excused',
           UNCHANGED <<hook, cache, jobs, prov, req, overdue>>
    PROVE  /\ JobsOK' /\ CopyOK(cache)'
           /\ \A c \in Child : RequestOK(req[c], c)' /\ ChildOK(c, obj[c])'
<1>1. /\ obj' \in [Child -> Object] /\ Holders' = Holders /\ OneHolder'
      /\ \A c \in Child : /\ obj'[c].phase = obj[c].phase /\ obj'[c].fin = obj[c].fin
                          /\ obj'[c].deleting = obj[c].deleting
                          /\ c \notin Holders => obj'[c] = obj[c]
                          /\ \/ obj'[c] = obj[c]
                             \/ /\ obj'[c].dep = d /\ obj'[c].facts = f
                                /\ d.phase # "none" /\ c = Holder
  BY WrittenIs
<1>2. JobsOK' /\ \A c \in Child : RequestOK(req[c], c)'
  <2>1. \A c \in Child : RequestOK(req[c], c)' <=> RequestOK(req[c], c)
    BY DEF RequestOK
  <2>. QED
    BY <2>1, SameRecords DEF IInv
<1>3. CopyOK(cache)'
  <2>. SUFFICES ASSUME cache.uid # None
                PROVE  /\ obj'[cache.uid].phase # "none"
                       /\ \A c \in Holders : c = cache.uid
                       /\ cache.deleting => Ending(cache.uid)'
                       /\ hook = "none" /\ cache.uid \in Holders =>
                            cache.facts.ep = obj'[cache.uid].facts.ep
    BY <1>1 DEF CopyOK
  <2>1. cache.uid \in Child
    BY Typed DEF Copy
  <2>2. CopyOK(cache)
    BY DEF IInv
  <2>3. hook = "none" => obj'[cache.uid] = obj[cache.uid]
    BY <1>1, <2>1 DEF Writable
  <2>. QED
    BY <1>1, <2>1, <2>2, <2>3 DEF CopyOK, Ending
<1>4. ASSUME NEW c \in Child
      PROVE  ChildOK(c, obj[c])'
  <2>1. ChildOK(c, obj[c])
    BY DEF IInv
  <2>2. CASE obj'[c] = obj[c]
    <3>1. PICK o : o = obj[c]
      OBVIOUS
    <3>2. ChildOK(c, o)'
      BY <2>1, <3>1, SameRecords
    <3>. QED
      BY <2>2, <3>1, <3>2 DEF ChildOK
  <2>3. CASE obj'[c] # obj[c]
    <3>1. /\ obj'[c].dep = d /\ obj'[c].facts = f /\ d.phase # "none" /\ c \in Holders
          /\ obj'[c].phase = "live" /\ obj'[c].deleting = obj[c].deleting
          /\ obj'[c].fin = obj[c].fin /\ hook # "none"
      BY <1>1, <2>3 DEF Writable, Holders
    <3>2. RecordOK(f, d)' /\ (Pair => OwnRecord(c, d)')
      BY <3>1, SameRecords DEF Writable
    <3>. QED
      BY <2>1, <3>1, <3>2 DEF ChildOK, Writable, Pair, Alone
  <2>. QED
    BY <2>2, <2>3
<1>. QED
  BY <1>2, <1>3, <1>4

\* So a write that ends the pass keeps the invariant.
LEMMA WriteEnds ==
    ASSUME IInv, NEW d \in Dep, NEW f \in Facts, obj' = obj \/ obj' = Written(d, f),
           Writable(f, d), pass' = NoPass,
           UNCHANGED <<hook, cache, vms, conn, jobs, prov, req, overdue, excused, reported, edits>>,
           host' \in [Endpoint -> Host]
    PROVE  IInv'
<1>1. TypeOK'
  BY WrittenIs, EmptyTyped DEF IInv, TypeOK
<1>2. JobsOK' /\ CopyOK(cache)' /\ \A c \in Child : RequestOK(req[c], c)' /\ ChildOK(c, obj[c])'
  BY WriteWorld
<1>3. PassOK(NoPass)'
  BY IdleOK, PTL
<1>4. PassOK(pass)'
  BY <1>3
<1>. QED
  BY <1>1, <1>2, <1>4, WrittenIs DEF IInv

\* A child that terminates is there.
LEMMA DeletingLives ==
    ASSUME IInv, NEW c \in Child, obj[c].deleting
    PROVE  obj[c].phase = "live" /\ c \in Holders /\ obj[c].fin
<1>1. ChildOK(c, obj[c]) /\ obj[c].phase \in {"none", "live", "gone"}
  BY Typed DEF IInv, Object
<1>2. ~NoObject.deleting /\ ~[NoObject EXCEPT !.phase = "gone"].deleting
  BY DEF NoObject
<1>. QED
  BY <1>1, <1>2 DEF ChildOK, Holders

\* A pass under a hook may write what it has of who it is for.
LEMMA MayWrite ==
    ASSUME IInv, pass.pc \in AtWork, hook # "none", NEW f, NEW d, RecordOK(f, d),
           d.phase \in {"none", "Pending"} => pass.dep.phase \in {"none", "Pending"},
           Pair => OwnRecord(pass.uid, d), f.job = "running" => pass.facts.job = "running"
    PROVE  Writable(f, d)
<1>1. pass.uid \in Child
  BY PassIs DEF InHand, AtWork, OnInstance, Settled, Launching
<1>2. d.phase \in {"none", "Pending"} => \A c \in Holders : req[c].state = "none"
  BY <1>1, PassIs DEF LaunchOK
<1>3. Pair => \A c \in Holders : OwnRecord(c, d)
  <2>. SUFFICES ASSUME Pair, NEW c \in Holders PROVE OwnRecord(c, d)
    OBVIOUS
  <2>1. obj[pass.uid].deleting \/ \A b \in Child \ {pass.uid} : obj[b].phase = "gone"
    BY PassIs DEF PairOK
  <2>2. obj[pass.uid].deleting => pass.uid \in Holders
    BY <1>1, DeletingLives
  <2>3. c = pass.uid
    BY <2>1, <2>2 DEF IInv, OneHolder, Holders
  <2>. QED
    BY <2>3
<1>4. Alone /\ f.job = "running" => \A c \in Holders : prov[c] # "none"
  BY <1>1, PassIs DEF AloneOK, Alone, Holders
<1>. QED
  BY <1>2, <1>3, <1>4 DEF Writable

\* What it writes before it ends, to be tried again.
LEMMA WorkEnds ==
    ASSUME IInv, pass.pc \in AtWork, NEW d \in Dep, obj' = obj \/ obj' = Written(d, pass.facts),
           RecordOK(pass.facts, d), hook = "none" => d = NoDep,
           d.phase \in {"none", "Pending"} => pass.dep.phase \in {"none", "Pending"},
           Pair => OwnRecord(pass.uid, d), pass' = NoPass,
           UNCHANGED <<hook, cache, vms, conn, jobs, prov, req, overdue, excused, reported, edits>>,
           host' \in [Endpoint -> Host]
    PROVE  IInv'
<1>1. CASE hook # "none"
  <2>1. Writable(pass.facts, d)
    BY <1>1, MayWrite
  <2>. QED
    BY <2>1, PassIs, WriteEnds
<1>2. CASE hook = "none"
  <2>1. obj' = obj
    BY <1>2, EmptyTyped DEF Written
  <2>. QED
    BY <2>1, PassEnds
<1>. QED
  BY <1>1, <1>2

\* A write after which the pass goes on.
LEMMA WriteOn ==
    ASSUME IInv, NEW d \in Dep, NEW f \in Facts, obj' = obj \/ obj' = Written(d, f),
           Writable(f, d), NEW q \in Pass, pass' = q,
           UNCHANGED <<hook, cache, vms, conn, jobs, prov, req, overdue, edits>>,
           host' \in [Endpoint -> Host], excused \subseteq excused', excused' \subseteq Child,
           reported' \in [Child -> {"none", "Pending", "Launching", "Running"} \cup Done],
           RecordOK(q.facts, q.dep), InHand(q), HeldOK(q)', LaunchOK(q), DurableOK(q)',
           Pair => PairOK(q)', Alone => AloneOK(q)'
    PROVE  IInv'
<1>1. TypeOK'
  BY WrittenIs DEF IInv, TypeOK
<1>2. JobsOK' /\ CopyOK(cache)' /\ \A c \in Child : RequestOK(req[c], c)' /\ ChildOK(c, obj[c])'
  BY WriteWorld
<1>3. PassOK(q)'
  <2>1. RecordOK(q.facts, q.dep)'
    BY SameRecords
  <2>2. (Pair <=> Pair') /\ (Alone <=> Alone')
    BY DEF Pair, Alone
  <2>3. InHand(q)'
    BY DEF InHand, Within
  <2>4. LaunchOK(q)'
    BY WrittenIs DEF LaunchOK
  <2>. QED
    BY <2>1, <2>2, <2>3, <2>4 DEF PassOK
<1>. QED
  BY <1>1, <1>2, <1>3, WrittenIs DEF IInv

\* The record a pass begins with: the holder's, opened, and closed past its deadline.
LEMMA ClockStep == ASSUME IInv, startHookClock PROVE IInv'
<1>1. /\ pass.pc = "read" /\ hook # "none" /\ pass.dep = NoDep /\ pass.uid \in Child
      /\ UNCHANGED <<hook, cache, vms, conn, jobs, prov, req, overdue, reported, edits>>
      /\ UNCHANGED <<host, excused>> /\ excused \subseteq Child
      /\ reported \in [Child -> {"none", "Pending", "Launching", "Running"} \cup Done]
  <2>1. pass.pc = "read"
    BY DEF startHookClock
  <2>. QED
    BY <2>1, PassIs DEF startHookClock, awxVars, outVars, envVars, InHand, IInv, TypeOK
<1>2. OneHolder
  BY DEF IInv
<1>3. CASE Holder = None
  <2>1. PICK q : q = [pass EXCEPT !.pc = "release"]
    OBVIOUS
  <2>2. pass' = q /\ UNCHANGED obj
    BY <1>3, <2>1 DEF startHookClock
  <2>3. /\ q \in Pass /\ q.pc = "release" /\ q.uid = pass.uid /\ q.dep = pass.dep
        /\ q.facts = pass.facts /\ q.lost = pass.lost
    BY <2>1, PassIs DEF Pass, PC
  <2>4. q.pc \notin AtWork /\ q.pc \notin Launching /\ q.pc \notin OnInstance /\ q.pc \notin Settled
    BY <2>3 DEF AtWork, Launching, OnInstance, Settled
  <2>5. Holders = {}
    BY <1>2, <1>3, HolderIs
  <2>6. InHand(q) /\ HeldOK(q) /\ LaunchOK(q) /\ DurableOK(q) /\ AloneOK(q)
    BY <1>1, <2>3, <2>4, <2>5, PassIs DEF InHand, HeldOK, LaunchOK, DurableOK, AloneOK
  <2>7. PairOK(q)'
    BY <1>1, <2>3, <2>4, EmptyTyped DEF PairOK, OwnRecord
  <2>. QED
    BY <1>1, <2>2, <2>3, <2>6, <2>7, PassIs, PassOnly
<1>4. CASE Holder # None
  <2>1. Holder \in Child /\ Holder \in Holders /\ obj[Holder].phase = "live"
        /\ \A c \in Holders : c = Holder
    BY <1>2, <1>4, HolderIs
  <2>2. PICK c : c = Holder
    OBVIOUS
  <2>3. PICK o : o = obj[c]
    OBVIOUS
  <2>4. PICK d : d = IF o.dep.phase # "none" THEN o.dep ELSE [NoDep EXCEPT !.phase = "Pending"]
    OBVIOUS
  <2>5. PICK t : t = IF c \in overdue /\ d.phase \notin Done
                     THEN [d EXCEPT !.phase = "TimedOut"] ELSE d
    OBVIOUS
  <2>6. PICK q : q = [pass EXCEPT !.pc = "connect", !.uid = c, !.retain = o.retain,
                                  !.facts = o.facts, !.dep = t]
    OBVIOUS
  <2>7. Persists(d, o.facts, q)
    BY <1>4, <2>2, <2>3, <2>4, <2>5, <2>6 DEF startHookClock
  <2>8. /\ o \in Object /\ o.dep \in Dep /\ o.facts \in Facts /\ o.retain \in BOOLEAN
        /\ ChildOK(c, o) /\ c \in Child
    BY <2>1, <2>2, <2>3, Typed DEF IInv, Object
  <2>9. /\ d \in Dep /\ RecordOK(o.facts, d) /\ d.phase # "none"
        /\ d.phase \in {"none", "Pending"} => req[c].state = "none"
        /\ Pair => OwnRecord(c, d)
    <3>1. CASE o.dep.phase # "none"
      BY <2>1, <2>2, <2>3, <2>4, <2>8, <3>1 DEF ChildOK
    <3>2. CASE o.dep.phase = "none"
      <4>1. d = [NoDep EXCEPT !.phase = "Pending"]
        BY <2>4, <3>2
      <4>2. /\ d \in Dep /\ d.phase = "Pending" /\ d.job = 0 /\ d.ep = None /\ d.pinEp = None
        BY <4>1, EmptyTyped DEF Dep, NoDep
      <4>3. RecordOK(o.facts, o.dep)
        BY <2>8 DEF ChildOK
      <4>4. RecordOK(o.facts, d)
        BY <4>2, <4>3 DEF RecordOK, Within
      <4>. QED
        BY <2>1, <2>2, <2>3, <2>8, <3>2, <4>2, <4>4 DEF ChildOK, OwnRecord
    <3>. QED
      BY <3>1, <3>2
  <2>10. Writable(o.facts, d)
    BY <1>1, <2>1, <2>2, <2>8, <2>9 DEF Writable, ChildOK
  <2>11. CASE pass' = NoPass /\ obj' \in {obj, Written(d, o.facts)}
    BY <1>1, <2>8, <2>9, <2>10, <2>11, WriteEnds, PassIs
  <2>12. CASE obj' = Written(d, o.facts) /\ pass' = q
    <3>1. /\ t \in Dep /\ RecordOK(o.facts, t) /\ t.job = d.job /\ t.ep = d.ep /\ t.pinEp = d.pinEp
          /\ t.phase \in {"none", "Pending"} => t = d
          /\ t.phase \in Done => d.phase \in Done \/ c \in overdue
          /\ OwnRecord(c, d) => OwnRecord(c, t)
      <4>1. CASE c \in overdue /\ d.phase \notin Done
        <5>1. t = [d EXCEPT !.phase = "TimedOut"]
          BY <2>5, <4>1
        <5>2. t.job = d.job /\ t.ep = d.ep /\ t.pinEp = d.pinEp
          BY <2>9, <5>1 DEF Dep
        <5>. QED
          BY <2>9, <4>1, <5>1, <5>2, FinishIs
      <4>2. CASE ~(c \in overdue /\ d.phase \notin Done)
        BY <2>5, <2>9, <4>2
      <4>. QED
        BY <4>1, <4>2
    <3>2. /\ q \in Pass /\ q.pc = "connect" /\ q.uid = c /\ q.facts = o.facts /\ q.dep = t
      BY <2>6, <2>8, <3>1, PassIs DEF Pass, PC
    <3>3. /\ q.pc \in AtWork /\ q.pc \notin Launching /\ q.pc \notin OnInstance
          /\ q.pc \notin Settled
      BY <3>2 DEF AtWork, Launching, OnInstance, Settled
    <3>4. /\ Holders' = Holders
          /\ \A b \in Child : obj'[b].phase = obj[b].phase /\ obj'[b].deleting = obj[b].deleting
          /\ obj'[c].dep = d /\ obj'[c].facts = o.facts
      <4>1. obj' = [obj EXCEPT ![c].dep = d, ![c].facts = o.facts]
        BY <1>4, <2>2, <2>9, <2>12 DEF Written
      <4>2. obj'[c].dep = d /\ obj'[c].facts = o.facts
        BY <2>3, <2>8, <4>1, Typed DEF Object
      <4>. QED
        BY <2>8, <2>9, <2>12, <4>2, WrittenIs
    <3>5. InHand(q)
      BY <1>1, <2>8, <3>2, <3>3 DEF InHand
    <3>6. HeldOK(q)'
      BY <2>1, <2>2, <2>8, <3>2, <3>4 DEF HeldOK, Holders
    <3>7. LaunchOK(q)
      BY <2>1, <2>2, <2>9, <3>1, <3>2 DEF LaunchOK
    <3>8. DurableOK(q)'
      BY <1>1, <3>1, <3>2, <3>3, <3>4 DEF DurableOK
    <3>9. Ending(pass.uid)
      BY <1>1, PassIs DEF HeldOK
    <3>10. obj[pass.uid].deleting => pass.uid = c
      BY <1>1, <2>1, <2>2, DeletingLives
    <3>11. Pair => PairOK(q)'
      <4>. SUFFICES ASSUME Pair PROVE PairOK(q)'
        OBVIOUS
      <4>1. OwnRecord(c, t)'
        BY <1>1, <2>9, <3>1, SameRecords
      <4>2. obj[c].deleting \/ \A b \in Child \ {c} : obj[b].phase = "gone"
        BY <1>1, <2>1, <2>2, <3>9, <3>10 DEF Ending, Pair
      <4>. QED
        BY <2>8, <3>2, <3>4, <4>1, <4>2 DEF PairOK
    <3>12. Alone => AloneOK(q)'
      <4>. SUFFICES ASSUME Alone PROVE AloneOK(q)'
        OBVIOUS
      <4>1. pass.uid = c
        BY <1>1, <2>8 DEF Alone
      <4>2. obj[c].deleting
        BY <2>1, <2>2, <3>9, <4>1 DEF Ending
      <4>3. o.facts.job = "running" => prov[c] # "none"
        BY <2>8 DEF ChildOK
      <4>. QED
        BY <1>1, <2>8, <3>2, <3>3, <3>4, <4>2, <4>3 DEF AloneOK
    <3>. QED
      BY <1>1, <2>8, <2>9, <2>10, <2>12, <3>1, <3>2, <3>5, <3>6, <3>7, <3>8, <3>11, <3>12,
         WriteOn, PassIs
  <2>. QED
    BY <2>7, <2>11, <2>12 DEF Persists
<1>. QED
  BY <1>3, <1>4

LEMMA PollStep == ASSUME IInv, pollDeprovisionJob PROVE IInv'
<1>1. /\ pass.pc = "poll" /\ pass.pc \in OnInstance /\ pass.pc \in AtWork
      /\ UNCHANGED <<hook, cache, vms, conn, jobs, prov, req, overdue, reported, edits>>
      /\ UNCHANGED <<host, excused>>
  BY DEF pollDeprovisionJob, awxVars, outVars, envVars, OnInstance, AtWork
<1>2. PICK d : d = pass.dep
  OBVIOUS
<1>3. PICK j : j = jobs[d.ep][d.job]
  OBVIOUS
<1>4. /\ d.job # 0 /\ d.phase \notin Done /\ d.ep \in Endpoint /\ d.ep = pass.ep
      /\ d.narrowed = j.narrowed /\ d.job \in DOMAIN jobs[d.ep]
  BY <1>1, <1>2, <1>3, PassIs, TeardownAssumption DEF InHand, RecordOK, Within
<1>5. /\ d \in Dep /\ RecordOK(pass.facts, d) /\ Within(pass.facts, d, pass.ep)
      /\ (Pair => OwnRecord(pass.uid, d)) /\ hook # "none"
  <2>1. hook # "none"
    BY <1>1, <1>2, <1>4, PassIs, EmptyTyped DEF InHand
  <2>. QED
    BY <1>1, <1>2, <2>1, PassIs, InstanceIs
<1>6. CASE j.status = "running"
  <2>1. PICK r : r = [d EXCEPT !.phase = "Running"]
    OBVIOUS
  <2>2. Persists(r, pass.facts, NoPass)
    BY <1>2, <1>3, <1>4, <1>6, <2>1 DEF pollDeprovisionJob
  <2>3. /\ r \in Dep /\ r.phase = "Running" /\ r.job = d.job /\ r.ep = d.ep /\ r.pinEp = d.pinEp
        /\ r.narrowed = d.narrowed
    BY <1>5, <2>1 DEF Dep
  <2>4. RecordOK(pass.facts, r) /\ (Pair => OwnRecord(pass.uid, r))
    BY <1>4, <1>5, <2>3 DEF RecordOK, Within, OwnRecord, Done
  <2>. QED
    BY <1>1, <1>5, <2>2, <2>3, <2>4, WorkEnds, PassIs DEF Persists
<1>7. CASE j.status # "running"
  <2>1. PICK x \in {"Succeeded", "Failed"} :
          /\ x = "Succeeded" => j.status = "successful" /\ ~d.narrowed
          /\ pass' = [pass EXCEPT !.pc = "find", !.dep = [d EXCEPT !.phase = x]]
          /\ UNCHANGED obj
    BY <1>2, <1>3, <1>4, <1>7 DEF pollDeprovisionJob
  <2>2. PICK t : t = [d EXCEPT !.phase = x]
    OBVIOUS
  <2>3. PICK q : q = [pass EXCEPT !.pc = "find", !.dep = t]
    OBVIOUS
  <2>4. /\ t \in Dep /\ t.phase = x /\ t.job = d.job /\ t.ep = d.ep /\ t.pinEp = d.pinEp
        /\ t.narrowed = d.narrowed /\ t.phase \in Done
    BY <1>5, <2>2 DEF Dep, Done
  <2>5. /\ q \in Pass /\ q.pc = "find" /\ q.uid = pass.uid /\ q.facts = pass.facts
        /\ q.dep = t /\ q.ep = pass.ep /\ q.lost = pass.lost
    BY <2>3, <2>4, PassIs DEF Pass, PC
  <2>6. /\ q.pc \in OnInstance \ {"poll"} /\ q.pc \in AtWork \ {"answer"}
        /\ q.pc \notin Settled \cup Launching
    BY <2>5 DEF OnInstance, AtWork, Settled, Launching
  <2>7. RecordOK(pass.facts, t)
    BY <1>3, <1>4, <1>5, <2>1, <2>4 DEF RecordOK, Within, EndedWell
  <2>8. Pair => OwnRecord(pass.uid, t)
    BY <1>3, <1>5, <1>7, <2>4 DEF OwnRecord
  <2>9. HeldOK(q) /\ LaunchOK(q) /\ (Pair => PairOK(q)) /\ q.uid \in Child
    BY <1>1, <2>4, <2>5, <2>6, <2>8, Onward DEF Done
  <2>10. InHand(q)
    BY <1>1, <1>4, <1>5, <2>4, <2>5, <2>6, <2>9, PassIs DEF InHand, Within
  <2>11. DurableOK(q)
    BY <1>1, <1>2, <1>3, <1>7, <2>5, <2>6, PassIs DEF DurableOK
  <2>12. Alone => AloneOK(q)
    BY <1>1, <2>5, <2>6, PassIs DEF AloneOK
  <2>13. Pair => PairOK(q)'
    BY <1>1, <2>1, <2>9, SamePass
  <2>. QED
    BY <1>1, <2>1, <2>2, <2>3, <2>5, <2>7, <2>9, <2>10, <2>11, <2>12, <2>13, PassIs, PassOnly
<1>. QED
  BY <1>6, <1>7

\* What a pass keeps of a hook that it skips, if it has had no turn.
LEMMA LookupStep == ASSUME IInv, LookupFails PROVE IInv'
<1>1. /\ pass.pc = "find" /\ pass.pc \in OnInstance \ {"poll"} /\ pass.pc \in AtWork
      /\ UNCHANGED <<hook, cache, vms, conn, jobs, prov, req, overdue, reported, edits>>
      /\ UNCHANGED host
  BY DEF LookupFails, awxVars, envVars, OnInstance, AtWork
<1>2. PICK d : d = IF pass.dep.phase \notin Done /\ hook # "none"
                   THEN skipHook(pass.dep) ELSE pass.dep
  OBVIOUS
<1>3. /\ d \in Dep /\ RecordOK(pass.facts, d) /\ Within(pass.facts, d, pass.ep)
      /\ (Pair => OwnRecord(pass.uid, d)) /\ (hook = "none" => d = NoDep)
      /\ (hook # "none" => d.phase \in Done) /\ pass.uid \in Child
  <2>1. CASE pass.dep.phase \notin Done /\ hook # "none"
    <3>1. d = [pass.dep EXCEPT !.phase = "Skipped"] /\ pass.dep.job = 0
      BY <1>1, <1>2, <2>1, PassIs DEF skipHook, InHand
    <3>. QED
      BY <1>1, <2>1, <3>1, FinishIs, PassIs, InstanceIs
  <2>2. CASE ~(pass.dep.phase \notin Done /\ hook # "none")
    BY <1>1, <1>2, <2>2, PassIs, InstanceIs
  <2>. QED
    BY <2>1, <2>2
<1>4. CASE /\ hook = "Template" /\ UNCHANGED <<obj, excused>>
           /\ pass' = [pass EXCEPT !.pc = "decide", !.lost = TRUE, !.host = NoHost]
  <2>1. PICK q : q = [pass EXCEPT !.pc = "decide", !.lost = TRUE, !.host = NoHost]
    OBVIOUS
  <2>2. /\ q \in Pass /\ q.pc = "decide" /\ q.uid = pass.uid /\ q.facts = pass.facts
        /\ q.dep = pass.dep /\ q.ep = pass.ep
    BY <2>1, PassIs, EmptyTyped DEF Pass, PC
  <2>. QED
    BY <1>1, <1>4, <2>1, <2>2, DecideStep
<1>5. CASE pass' = NoPass /\ UNCHANGED <<obj, excused>>
  BY <1>1, <1>5, PassEnds, PassIs
<1>6. CASE releaseWithoutHost(d) /\ UNCHANGED obj
  <2>1. pass' = [pass EXCEPT !.pc = "report", !.dep = d] /\ excused' = excused \cup {pass.uid}
    BY <1>6 DEF releaseWithoutHost
  <2>. QED
    BY <1>1, <1>3, <1>6, <2>1, ReportStep, PassIs
<1>7. CASE pass' = NoPass /\ obj' \in {obj, Written(d, pass.facts)} /\ UNCHANGED excused
  <2>1. d.phase \in {"none", "Pending"} => pass.dep.phase \in {"none", "Pending"}
    BY <1>1, <1>3, InstanceIs, EmptyTyped DEF Done
  <2>. QED
    BY <1>1, <1>3, <1>7, <2>1, WorkEnds, PassIs
<1>. QED
  BY <1>2, <1>4, <1>5, <1>6, <1>7 DEF LookupFails

LEMMA RunStep == ASSUME IInv, runDeprovisionHook PROVE IInv'
<1>1. /\ pass.pc = "decide" /\ ~Skipped /\ pass.pc \in OnInstance /\ pass.pc \in AtWork
      /\ UNCHANGED <<hook, cache, vms, conn, jobs, prov, req, overdue, reported, edits>>
      /\ UNCHANGED <<host, excused>>
  BY DEF runDeprovisionHook, awxVars, outVars, envVars, OnInstance, AtWork
<1>2. PICK d : d = HookIsOver(pass.dep, pass.uid \in overdue)
  OBVIOUS
<1>3. CASE d.phase \in Done /\ pass' = AfterHook([pass EXCEPT !.dep = d]) /\ UNCHANGED obj
  BY <1>1, <1>2, <1>3, OverStep
<1>4. CASE d.phase \notin Done /\ Persists([d EXCEPT !.phase = "Pending"], pass.facts, NoPass)
  <2>1. d = pass.dep /\ pass.dep.phase \in {"none", "Pending", "Running"}
    BY <1>2, <1>4, OverIs, PassIs, FinishIs
  <2>2. pass.dep.phase \in {"none", "Pending"} /\ pass.dep.job = 0
    BY <1>1, <1>4, <2>1, PassIs DEF InHand, RecordOK
  <2>3. PICK r : r = [d EXCEPT !.phase = "Pending"]
    OBVIOUS
  <2>4. /\ r \in Dep /\ r.phase = "Pending" /\ r.job = 0 /\ r.ep = pass.dep.ep
        /\ r.pinEp = pass.dep.pinEp /\ hook # "none"
    BY <1>1, <2>1, <2>2, <2>3, PassIs DEF Dep, InHand
  <2>5. RecordOK(pass.facts, r) /\ OwnRecord(pass.uid, r)
    BY <2>4, PassIs DEF RecordOK, Within, OwnRecord
  <2>. QED
    BY <1>1, <1>4, <2>2, <2>3, <2>4, <2>5, WorkEnds, PassIs DEF Persists
<1>5. CASE /\ d.phase \notin Done /\ ~MustWait /\ UNCHANGED obj
           /\ pass' = [pass EXCEPT !.pc = "launch",
                         !.facts.job = IF @ = "running" THEN "ended" ELSE @]
  BY <1>1, <1>2, <1>5, TurnStep
<1>. QED
  BY <1>2, <1>3, <1>4, <1>5 DEF runDeprovisionHook

\* The record of what the override replaces is of the host and instance in hand.
LEMMA PinRecordIs ==
    ASSUME IInv, pass.pc \in Launching, ~pass.dep.pinned, NEW d, d = PinRecord(pass.dep)
    PROVE  /\ d \in Dep /\ RecordOK(pass.facts, d) /\ d.phase = pass.dep.phase /\ d.job = 0
           /\ OwnRecord(pass.uid, d) /\ Within(pass.facts, d, pass.ep)
<1>1. pass.pc \in OnInstance
  BY DEF OnInstance
<1>2. d = [pass.dep EXCEPT !.pinned = TRUE, !.pinId = pass.host.id, !.pinEp = pass.ep,
                           !.prior = pass.host.conn]
  BY DEF PinRecord
<1>3. pass.host.id \in Nat /\ pass.host.conn \in Connection
  BY Typed DEF Host
<1>4. pass.dep.phase \in {"none", "Pending"} /\ pass.dep.job = 0
  BY PassIs DEF InHand, RecordOK
<1>5. /\ d \in Dep /\ d.phase = pass.dep.phase /\ d.job = 0 /\ d.ep = pass.dep.ep
      /\ d.pinEp = pass.ep
  BY <1>1, <1>2, <1>3, <1>4, PassIs, InstanceIs DEF Dep
<1>6. Within(pass.facts, d, pass.ep) /\ pass.ep \in Endpoint
  BY <1>1, <1>5, InstanceIs DEF Within
<1>7. RecordOK(pass.facts, d)
  BY <1>4, <1>5, <1>6 DEF RecordOK
<1>. QED
  BY <1>5, <1>6, <1>7 DEF OwnRecord

LEMMA LaunchStep == ASSUME IInv, launchDeprovisionHook PROVE IInv'
<1>1. /\ pass.pc = "launch" /\ pass.pc \in Launching /\ pass.pc \in OnInstance /\ pass.pc \in AtWork
      /\ UNCHANGED <<hook, cache, vms, conn, jobs, prov, req, overdue, reported, edits>>
      /\ UNCHANGED <<host, excused>>
  BY DEF launchDeprovisionHook, awxVars, outVars, envVars, OnInstance, AtWork, Launching
<1>2. CASE hook = "Template"
  <2>1. PICK q : q = [pass EXCEPT !.pc = "submit"]
    OBVIOUS
  <2>2. /\ q \in Pass /\ q.pc \in Launching /\ q.uid = pass.uid /\ q.facts = pass.facts
        /\ q.dep = pass.dep /\ q.ep = pass.ep
    BY <2>1, PassIs DEF Pass, PC, Launching
  <2>3. pass' = q /\ UNCHANGED obj
    BY <1>2, <2>1 DEF launchDeprovisionHook
  <2>. QED
    BY <1>1, <2>2, <2>3, LaunchingStep, PassIs
<1>3. CASE hook # "Template" /\ pass.dep.pinned
  <2>1. PICK q : q = [pass EXCEPT !.pc = "pin", !.dep = pass.dep]
    OBVIOUS
  <2>2. /\ q \in Pass /\ q.pc \in Launching /\ q.uid = pass.uid /\ q.facts = pass.facts
        /\ q.dep = pass.dep /\ q.ep = pass.ep
    BY <2>1, PassIs DEF Pass, PC, Launching
  <2>3. pass' = q /\ UNCHANGED obj
    BY <1>3, <2>1 DEF launchDeprovisionHook, PinRecord
  <2>. QED
    BY <1>1, <2>2, <2>3, LaunchingStep, PassIs
<1>4. CASE hook # "Template" /\ ~pass.dep.pinned
  <2>1. PICK d : d = PinRecord(pass.dep)
    OBVIOUS
  <2>2. PICK q : q = [pass EXCEPT !.pc = "pin", !.dep = d]
    OBVIOUS
  <2>3. Persists(d, pass.facts, q)
    BY <1>4, <2>1, <2>2 DEF launchDeprovisionHook
  <2>4. /\ d \in Dep /\ RecordOK(pass.facts, d) /\ d.phase = pass.dep.phase /\ d.job = 0
        /\ OwnRecord(pass.uid, d) /\ Within(pass.facts, d, pass.ep)
        /\ hook # "none" /\ pass.dep.phase \in {"none", "Pending"}
    BY <1>1, <1>4, <2>1, PinRecordIs, PassIs DEF InHand
  <2>5. CASE pass' = NoPass /\ obj' \in {obj, Written(d, pass.facts)}
    BY <1>1, <2>4, <2>5, WorkEnds, PassIs
  <2>6. CASE pass' = q /\ obj' = Written(d, pass.facts)
    <3>1. /\ q \in Pass /\ q.pc = "pin" /\ q.uid = pass.uid /\ q.facts = pass.facts
          /\ q.dep = d /\ q.ep = pass.ep /\ q.lost = pass.lost
      BY <2>2, <2>4, PassIs DEF Pass, PC
    <3>2. /\ q.pc \in OnInstance \ {"poll"} /\ q.pc \in Launching /\ q.pc \in AtWork \ {"answer"}
          /\ q.pc \notin Settled
      BY <3>1 DEF OnInstance, AtWork, Settled, Launching
    <3>3. HeldOK(q) /\ LaunchOK(q) /\ (Pair => PairOK(q)) /\ q.uid \in Child
      BY <1>1, <2>4, <3>1, <3>2, Onward
    <3>4. InHand(q)
      BY <1>1, <2>4, <3>1, <3>2, <3>3, PassIs, InstanceIs DEF InHand
    <3>5. /\ Holders' = Holders
          /\ \A c \in Child : /\ obj'[c].phase = obj[c].phase /\ obj'[c].fin = obj[c].fin
                              /\ obj'[c].deleting = obj[c].deleting
                              /\ \/ obj'[c] = obj[c]
                                 \/ obj'[c].dep = d /\ obj'[c].facts = pass.facts
      BY <2>4, <2>6, WrittenIs, PassIs
    <3>6. HeldOK(q)'
      BY <1>1, <3>1, <3>3, <3>5, Typed DEF HeldOK, Ending
    <3>7. DurableOK(q)'
      <4>1. pass.uid \in Holders /\ obj[pass.uid].dep.job # 0 =>
              \/ jobs[obj[pass.uid].dep.ep][obj[pass.uid].dep.job].status # "running"
              \/ obj[pass.uid].dep.phase \in Done \/ pass.uid \in overdue
        BY <1>1, PassIs DEF DurableOK
      <4>2. pass.uid \in Holders => Within(obj[pass.uid].facts, obj[pass.uid].dep, pass.ep)
        BY <1>1, PassIs DEF DurableOK
      <4>. QED
        BY <1>1, <2>4, <3>1, <3>2, <3>3, <3>5, <4>1, <4>2 DEF DurableOK, Within
    <3>8. Pair => PairOK(q)'
      BY <1>1, <2>4, <3>1, <3>3, <3>5, SameRecords DEF PairOK
    <3>9. Alone => AloneOK(q)'
      BY <1>1, <3>1, <3>2, <3>3, <3>5, PassIs DEF AloneOK, vmIsGone
    <3>10. Writable(pass.facts, d)
      BY <1>1, <2>4, MayWrite
    <3>. QED
      BY <1>1, <2>4, <2>6, <3>1, <3>3, <3>4, <3>6, <3>7, <3>8, <3>9, <3>10, WriteOn, PassIs
         DEF IInv, TypeOK
  <2>. QED
    BY <2>3, <2>5, <2>6 DEF Persists
<1>. QED
  BY <1>2, <1>3, <1>4

\* A launch that went out with a job to it is recorded, and the pass ends.
LEMMA AnsweredStep == ASSUME IInv, LaunchAnswered PROVE IInv'
<1>1. /\ pass.pc = "answer" /\ pass.pc \in OnInstance /\ pass.pc \in AtWork
      /\ req[pass.uid].state = "accepted"
      /\ UNCHANGED <<hook, cache, vms, conn, jobs, prov, req, overdue, reported, edits>>
      /\ UNCHANGED <<host, excused>>
  BY DEF LaunchAnswered, awxVars, outVars, envVars, OnInstance, AtWork
<1>2. PICK r : r = req[pass.uid]
  OBVIOUS
<1>3. /\ pass.uid \in Child /\ pass.ep \in Endpoint /\ r.ep = pass.ep /\ hook # "none"
      /\ pass.dep.ep = pass.ep
  BY <1>1, <1>2, InstanceIs, PassIs DEF LaunchOK, InHand
<1>4. /\ r.job \in DOMAIN jobs[pass.ep] /\ jobs[pass.ep][r.job].by = pass.uid
  <2>1. RequestOK(r, pass.uid)
    BY <1>2, <1>3 DEF IInv
  <2>. QED
    BY <1>1, <1>2, <1>3, <2>1 DEF RequestOK
<1>5. /\ r.job \in Nat \ {0} /\ jobs[pass.ep][r.job].narrowed \in BOOLEAN
  <2>1. jobs[pass.ep] \in Seq(Job)
    BY <1>3, Typed
  <2>2. r.job \in 1..Len(jobs[pass.ep]) /\ Len(jobs[pass.ep]) \in Nat
    BY <1>4, <2>1
  <2>3. jobs[pass.ep][r.job] \in Job
    BY <2>1, <2>2
  <2>. QED
    BY <2>2, <2>3 DEF Job
<1>6. PICK d : d = [pass.dep EXCEPT !.phase = "Running", !.job = r.job,
                      !.narrowed = jobs[r.ep][r.job].narrowed]
  OBVIOUS
<1>7. Persists(d, pass.facts, NoPass)
  BY <1>2, <1>6 DEF LaunchAnswered
<1>8. /\ d \in Dep /\ d.phase = "Running" /\ d.job = r.job /\ d.ep = pass.ep
      /\ d.narrowed = jobs[pass.ep][r.job].narrowed /\ d.pinEp = pass.dep.pinEp
  BY <1>3, <1>5, <1>6, PassIs DEF Dep
<1>9. RecordOK(pass.facts, d)
  BY <1>1, <1>3, <1>4, <1>5, <1>8, InstanceIs DEF RecordOK, Within
<1>10. OwnRecord(pass.uid, d)
  BY <1>4, <1>8 DEF OwnRecord, Done
<1>. QED
  BY <1>1, <1>3, <1>7, <1>8, <1>9, <1>10, WorkEnds, PassIs DEF Persists

\* A job of AWX.
LEMMA JobTyped ==
    ASSUME IInv, NEW e \in Endpoint, NEW j \in DOMAIN jobs[e]
    PROVE  /\ jobs[e][j] \in Job /\ jobs[e][j].by \in Child /\ j \in Nat \ {0}
           /\ req[jobs[e][j].by].state = "accepted" /\ req[jobs[e][j].by].ep = e
           /\ req[jobs[e][j].by].job = j
<1>1. jobs[e] \in Seq(Job)
  BY Typed
<1>2. j \in 1..Len(jobs[e]) /\ Len(jobs[e]) \in Nat
  BY <1>1
<1>3. jobs[e][j] \in Job
  BY <1>1, <1>2
<1>4. JobsOK
  BY DEF IInv
<1>5. req[jobs[e][j].by] = [state |-> "accepted", ep |-> e, job |-> j]
  BY <1>4 DEF JobsOK
<1>. QED
  BY <1>2, <1>3, <1>5 DEF Job

\* The launch is on record, and goes out.
LEMMA SentStep ==
    ASSUME IInv, pass.pc = "submit", NEW d,
           d = [pass.dep EXCEPT !.phase = "Launching", !.ep = pass.ep],
           obj' = Written(d, pass.facts), pass' = [pass EXCEPT !.pc = "answer", !.dep = d],
           req' = [req EXCEPT ![pass.uid] = [state |-> "sent", ep |-> pass.ep, job |-> 0]],
           UNCHANGED <<hook, cache, vms, conn, host, jobs, prov, overdue, excused, reported, edits>>
    PROVE  IInv'
<1>1. pass.pc \in Launching /\ pass.pc \in OnInstance /\ pass.pc \in AtWork
  BY DEF OnInstance, AtWork, Launching
<1>2. PICK u : u = pass.uid
  OBVIOUS
<1>3. PICK q : q = [pass EXCEPT !.pc = "answer", !.dep = d]
  OBVIOUS
<1>4. /\ u \in Child /\ pass.ep \in Endpoint /\ hook # "none" /\ obj[u].phase # "none"
      /\ pass.dep.phase \in {"none", "Pending"} /\ pass.dep.job = 0 /\ req[u].state = "none"
  BY <1>1, <1>2, InstanceIs, PassIs DEF InHand, HeldOK, LaunchOK, RecordOK
<1>5. /\ d \in Dep /\ d.phase = "Launching" /\ d.job = 0 /\ d.ep = pass.ep
      /\ d.pinEp = pass.dep.pinEp
  BY <1>4, PassIs DEF Dep
<1>6. Within(pass.facts, d, pass.ep) /\ RecordOK(pass.facts, d) /\ \A c : OwnRecord(c, d)
  BY <1>1, <1>4, <1>5, InstanceIs DEF RecordOK, Within, OwnRecord
<1>7. Writable(pass.facts, d)
  BY <1>1, <1>4, <1>5, <1>6, MayWrite
<1>8. /\ q \in Pass /\ q.pc = "answer" /\ q.uid = u /\ q.facts = pass.facts
      /\ q.dep = d /\ q.ep = pass.ep /\ q.lost = pass.lost /\ pass' = q
  BY <1>2, <1>3, <1>5, PassIs DEF Pass, PC
<1>9. /\ q.pc \in OnInstance \ {"poll"} /\ q.pc \in AtWork /\ q.pc \notin Launching
      /\ q.pc \notin Settled
  BY <1>8 DEF OnInstance, AtWork, Settled, Launching
<1>10. /\ obj' \in [Child -> Object] /\ Holders' = Holders /\ OneHolder'
       /\ \A c \in Child : /\ obj'[c].phase = obj[c].phase /\ obj'[c].fin = obj[c].fin
                           /\ obj'[c].deleting = obj[c].deleting
                           /\ c \notin Holders => obj'[c] = obj[c]
                           /\ \/ obj'[c] = obj[c]
                              \/ /\ obj'[c].dep = d /\ obj'[c].facts = pass.facts
                                 /\ d.phase # "none" /\ c = Holder
  BY <1>5, WrittenIs, PassIs
<1>11. \A c \in Holders : obj'[c].dep = d
  <2>. SUFFICES ASSUME NEW c \in Holders PROVE obj'[c].dep = d
    OBVIOUS
  <2>1. c = Holder /\ c \in Child /\ Holder # None
    BY HolderIs, Typed DEF IInv, Holders
  <2>2. obj' = [obj EXCEPT ![c].dep = d, ![c].facts = pass.facts]
    BY <1>5, <2>1 DEF Written
  <2>. QED
    BY <2>1, <2>2, Typed DEF Object
<1>12. /\ req' \in [Child -> Request] /\ \A c \in Child : c # u => req'[c] = req[c]
       /\ req'[u].state = "sent" /\ req'[u].ep = pass.ep
  <2>1. [state |-> "sent", ep |-> pass.ep, job |-> 0] \in Request
    BY <1>4 DEF Request
  <2>. QED
    BY <1>2, <1>4, <2>1, Typed
<1>13. TypeOK'
  BY <1>8, <1>10, <1>12 DEF IInv, TypeOK
<1>14. \A e \in Endpoint : \A j \in DOMAIN jobs[e] : jobs[e][j].by # u
  <2>. SUFFICES ASSUME NEW e \in Endpoint, NEW j \in DOMAIN jobs[e] PROVE jobs[e][j].by # u
    OBVIOUS
  <2>1. req[jobs[e][j].by].state = "accepted"
    BY JobTyped
  <2>. QED
    BY <1>4, <2>1
<1>15. JobsOK'
  <2>. SUFFICES ASSUME NEW e \in Endpoint, NEW j \in DOMAIN jobs[e]
                PROVE  req'[jobs[e][j].by] = [state |-> "accepted", ep |-> e, job |-> j]
    BY DEF JobsOK
  <2>1. jobs[e][j].by \in Child
    BY JobTyped
  <2>. QED
    BY <1>12, <1>14, <2>1 DEF IInv, JobsOK
<1>16. CopyOK(cache)'
  BY <1>4, <1>10, Typed DEF IInv, CopyOK, Ending, Copy
<1>17. \A c \in Child : RequestOK(req[c], c)'
  <2>. SUFFICES ASSUME NEW c \in Child PROVE RequestOK(req[c], c)'
    OBVIOUS
  <2>1. CASE c = u
    BY <1>4, <1>12, <2>1 DEF RequestOK
  <2>2. CASE c # u
    <3>1. RequestOK(req[c], c)
      BY DEF IInv
    <3>. QED
      BY <1>12, <2>2, <3>1 DEF RequestOK
  <2>. QED
    BY <2>1, <2>2
<1>18. ASSUME NEW c \in Child
       PROVE  ChildOK(c, obj[c])'
  <2>1. ChildOK(c, obj[c]) /\ (c # u => req'[c] = req[c])
    BY <1>12 DEF IInv
  <2>2. CASE c \notin Holders
    <3>1. obj'[c] = obj[c] /\ obj[c].phase # "live"
      BY <1>10, <2>2 DEF Holders
    <3>2. PICK o : o = obj[c]
      OBVIOUS
    <3>3. RecordOK(o.facts, o.dep)' /\ (Pair => OwnRecord(c, o.dep)')
      <4>1. RecordOK(o.facts, o.dep) /\ (Pair => OwnRecord(c, o.dep))
        BY <2>1, <3>2 DEF ChildOK
      <4>. QED
        BY <4>1 DEF RecordOK, Within, EndedWell, OwnRecord
    <3>4. obj'[c] = o /\ (o.phase = "none" => c # u)
      BY <1>4, <3>1, <3>2
    <3>. QED
      BY <2>1, <3>1, <3>2, <3>3, <3>4 DEF ChildOK, Pair, Alone
  <2>3. CASE c \in Holders
    <3>1. obj'[c].dep = d /\ obj'[c].phase = "live" /\ obj'[c].fin = obj[c].fin
          /\ obj'[c].deleting = obj[c].deleting
      BY <1>10, <1>11, <2>3 DEF Holders
    <3>2. obj'[c].facts = pass.facts
      <4>1. c = Holder /\ Holder # None
        BY <2>3, HolderIs, Typed DEF IInv
      <4>2. obj' = [obj EXCEPT ![c].dep = d, ![c].facts = pass.facts]
        BY <1>5, <4>1 DEF Written
      <4>. QED
        BY <4>2, Typed DEF Object
    <3>3. PICK f : f = pass.facts
      OBVIOUS
    <3>4. RecordOK(f, d)' /\ OwnRecord(c, d)'
      BY <1>5, <1>6, <3>3 DEF RecordOK, Within, OwnRecord
    <3>5. Alone /\ pass.facts.job = "running" => prov[c] # "none"
      BY <1>7, <2>3 DEF Writable
    <3>6. obj[c].deleting => obj[c].fin
      BY <2>1 DEF ChildOK
    <3>7. PICK o : o = obj'[c]
      OBVIOUS
    <3>8. /\ o.phase = "live" /\ o.dep = d /\ o.facts = f /\ (o.deleting => o.fin)
          /\ Alone /\ f.job = "running" => prov'[c] # "none"
          /\ hook' # "none" /\ (Alone <=> Alone')
      BY <1>4, <3>1, <3>2, <3>5, <3>6, <3>7, <3>3 DEF Alone
    <3>9. ChildOK(c, o)'
      BY <1>5, <3>4, <3>8 DEF ChildOK
    <3>. QED
      BY <3>7, <3>9 DEF ChildOK
  <2>. QED
    BY <2>2, <2>3
<1>19. PassOK(q)'
  <2>1. RecordOK(q.facts, q.dep)'
    BY <1>5, <1>6, <1>8 DEF RecordOK, Within
  <2>2. InHand(q)'
    BY <1>4, <1>5, <1>6, <1>8, <1>9, PassIs DEF InHand, Within
  <2>3. HeldOK(q)'
    <3>1. HeldOK(q)
      <4>1. q.pc \notin {"idle", "read", "release"} /\ pass.pc \notin {"idle", "read", "release"}
        BY <1>8
      <4>2. \A c \in Holders : obj[c].fin => c = u
        BY <1>2, <1>4, <4>1, PassIs DEF HeldOK
      <4>. QED
        BY <1>4, <1>8, <4>1, <4>2 DEF HeldOK
    <3>. QED
      BY <1>4, <1>8, <1>10, <3>1, Typed DEF HeldOK
  <2>4. LaunchOK(q)'
    <3>1. \A c \in Holders : c # u => req[c].state = "none"
      BY <1>1, <1>2, <1>4, PassIs DEF LaunchOK
    <3>. QED
      BY <1>5, <1>8, <1>10, <1>12, <3>1, Typed DEF LaunchOK
  <2>5. DurableOK(q)'
    <3>1. u \in Holders => obj'[u].facts = pass.facts \/ Within(obj'[u].facts, obj'[u].dep, pass.ep)
      BY <1>1, <1>2, <1>4, <1>10, PassIs DEF DurableOK
    <3>. QED
      BY <1>4, <1>5, <1>6, <1>8, <1>9, <1>10, <1>11, <3>1 DEF DurableOK
  <2>6. Pair => PairOK(q)'
    <3>1. OwnRecord(u, d)'
      BY <1>5 DEF OwnRecord
    <3>. QED
      BY <1>1, <1>2, <1>4, <1>8, <1>10, <3>1, PassIs DEF PairOK
  <2>7. Alone => AloneOK(q)'
    BY <1>1, <1>2, <1>4, <1>8, <1>9, <1>10, PassIs DEF AloneOK
  <2>. QED
    BY <2>1, <2>2, <2>3, <2>4, <2>5, <2>6, <2>7 DEF PassOK, Pair, Alone
<1>. QED
  BY <1>8, <1>10, <1>13, <1>15, <1>16, <1>17, <1>18, <1>19 DEF IInv

LEMMA SubmitStep == ASSUME IInv, submitDeprovisionHook PROVE IInv'
<1>1. /\ pass.pc = "submit" /\ pass.pc \in Launching /\ pass.pc \in OnInstance
      /\ pass.pc \in AtWork /\ UNCHANGED <<host, jobs, prov, excused, reported>>
      /\ UNCHANGED <<hook, cache, vms, conn, overdue, edits>>
  BY DEF submitDeprovisionHook, outVars, envVars, OnInstance, AtWork, Launching
<1>2. PICK d : d = [pass.dep EXCEPT !.phase = "Launching", !.ep = pass.ep]
  OBVIOUS
<1>3. CASE /\ obj' = Written(d, pass.facts) /\ pass' = [pass EXCEPT !.pc = "answer", !.dep = d]
           /\ req' = [req EXCEPT ![pass.uid] = [state |-> "sent", ep |-> pass.ep, job |-> 0]]
  BY <1>1, <1>2, <1>3, SentStep
<1>4. CASE obj' \in {obj, Written(d, pass.facts)} /\ pass' = NoPass /\ UNCHANGED req
  <2>1. /\ pass.ep \in Endpoint /\ hook # "none" /\ pass.dep.job = 0
    BY <1>1, InstanceIs, PassIs DEF InHand, RecordOK
  <2>2. /\ d \in Dep /\ d.phase = "Launching" /\ d.job = 0 /\ d.ep = pass.ep
        /\ d.pinEp = pass.dep.pinEp
    BY <1>2, <2>1, PassIs DEF Dep
  <2>3. RecordOK(pass.facts, d) /\ OwnRecord(pass.uid, d)
    BY <1>1, <2>1, <2>2, InstanceIs DEF RecordOK, Within, OwnRecord
  <2>. QED
    BY <1>1, <1>4, <2>1, <2>2, <2>3, WorkEnds, PassIs
<1>. QED
  BY <1>2, <1>3, <1>4 DEF submitDeprovisionHook

\* The outcome on record, or not, and the pass goes to the report or past it.
LEMMA OutcomeWrite ==
    ASSUME IInv, pass.pc \in {"lost", "report"}, NEW t \in {"report", "release"},
           pass' = [pass EXCEPT !.pc = t], obj' = obj \/ obj' = Written(pass.dep, pass.facts),
           UNCHANGED <<hook, cache, vms, conn, host, jobs, prov, req, overdue, edits>>,
           excused \subseteq excused', excused' \subseteq Child,
           reported' \in [Child -> {"none", "Pending", "Launching", "Running"} \cup Done],
           t = "release" /\ pass.dep.phase # "none" => reported'[pass.uid] = pass.dep.phase
    PROVE  IInv'
<1>1. PICK q : q = [pass EXCEPT !.pc = t]
  OBVIOUS
<1>2. pass.pc \in AtWork /\ pass.pc \in Settled /\ pass.pc # "idle"
  BY DEF AtWork, Settled
<1>3. /\ q \in Pass /\ q.pc = t /\ q.uid = pass.uid /\ q.facts = pass.facts /\ q.dep = pass.dep
      /\ q.lost = pass.lost /\ pass' = q
  BY <1>1, PassIs DEF Pass, PC
<1>4. q.pc \notin OnInstance /\ q.pc \notin Launching
  BY <1>3 DEF OnInstance, Launching
<1>5. /\ pass.uid \in Child /\ (hook # "none" => pass.dep.phase \in Done)
      /\ (hook = "none" => pass.dep = NoDep) /\ (Pair => OwnRecord(pass.uid, pass.dep))
  BY <1>2, PassIs DEF InHand, PairOK
<1>6. InHand(q)
  BY <1>3, <1>4, <1>5, PassIs DEF InHand
<1>7. LaunchOK(q)
  BY <1>2, <1>3, <1>5, PassIs DEF LaunchOK, AtWork, Done
<1>8. CASE hook # "none"
  <2>1. /\ obj' \in [Child -> Object] /\ Holders' = Holders
        /\ \A c \in Child : /\ obj'[c].phase = obj[c].phase /\ obj'[c].fin = obj[c].fin
                            /\ obj'[c].deleting = obj[c].deleting
    BY WrittenIs, PassIs
  <2>2. HeldOK(q)'
    <3>1. pass.pc \notin {"idle", "read", "release"}
      OBVIOUS
    <3>2. obj[pass.uid].phase # "none" /\ \A c \in Holders : obj[c].fin => c = pass.uid
      BY <1>8, <3>1, PassIs DEF HeldOK
    <3>3. t = "release" => reported'[pass.uid] \in Done
      BY <1>5, <1>8 DEF Done
    <3>. QED
      BY <1>3, <1>5, <2>1, <3>2, <3>3, Typed DEF HeldOK
  <2>3. DurableOK(q)'
    BY <1>3, <1>4 DEF DurableOK
  <2>4. Pair => PairOK(q)'
    BY <1>2, <1>3, <1>5, <1>8, <2>1, PassIs, SameRecords DEF PairOK
  <2>5. Alone => AloneOK(q)'
    BY <1>2, <1>3, <1>4, <1>5, <1>8, <2>1, PassIs DEF AloneOK
  <2>6. Writable(pass.facts, pass.dep)
    BY <1>2, <1>5, <1>8, MayWrite, PassIs
  <2>. QED
    BY <1>3, <1>6, <1>7, <2>2, <2>3, <2>4, <2>5, <2>6, WriteOn, PassIs
<1>9. CASE hook = "none"
  <2>1. UNCHANGED obj
    BY <1>5, <1>9, EmptyTyped DEF Written
  <2>2. HeldOK(q)'
    BY <1>2, <1>3, <1>9, <2>1, PassIs DEF HeldOK
  <2>3. DurableOK(q)' /\ AloneOK(q)'
    BY <1>3, <1>4, <1>9 DEF DurableOK, AloneOK
  <2>4. PairOK(q)'
    BY <1>3, <1>5, <1>9, EmptyTyped DEF PairOK, OwnRecord
  <2>5. NoFacts \in Facts /\ NoDep \in Dep /\ RecordOK(NoFacts, NoDep)
    BY EmptyTyped, IdleOK DEF PassOK
  <2>6. Writable(NoFacts, NoDep)
    <3>1. \A c \in Holders : req[c].state = "none"
      BY <1>9, EmptyTyped, Typed DEF IInv, ChildOK, Holders
    <3>2. \A c : OwnRecord(c, NoDep)
      BY EmptyTyped DEF OwnRecord
    <3>. QED
      BY <2>5, <3>1, <3>2, EmptyTyped DEF Writable, NoFacts
  <2>. QED
    BY <1>3, <1>6, <1>7, <2>1, <2>2, <2>3, <2>4, <2>5, <2>6, WriteOn, PassIs
<1>. QED
  BY <1>8, <1>9

LEMMA LostStep == ASSUME IInv, StillLost PROVE IInv'
<1>1. /\ pass.pc = "lost" /\ pass.pc \in AtWork /\ pass.pc # "idle"
      /\ obj' \in {obj, Written(pass.dep, pass.facts)}
      /\ UNCHANGED <<hook, cache, vms, conn, host, jobs, prov, req, overdue, reported, edits>>
  BY DEF StillLost, awxVars, envVars, AtWork, Settled
<1>2. pass.uid \in Child /\ (Pair => OwnRecord(pass.uid, pass.dep))
      /\ (hook = "none" => pass.dep = NoDep)
      /\ reported \in [Child -> {"none", "Pending", "Launching", "Running"} \cup Done]
  BY <1>1, PassIs DEF InHand, PairOK, IInv, TypeOK
<1>3. CASE pass' = NoPass /\ UNCHANGED excused
  BY <1>1, <1>2, <1>3, WorkEnds, PassIs
<1>4. CASE releaseWithoutHost(pass.dep)
  <2>1. /\ pass' = [pass EXCEPT !.pc = "report", !.dep = pass.dep]
        /\ excused' = excused \cup {pass.uid}
    BY <1>4 DEF releaseWithoutHost
  <2>2. pass' = [pass EXCEPT !.pc = "report"]
    BY <2>1, PassIs DEF Pass
  <2>. QED
    BY <1>1, <1>2, <2>1, <2>2, OutcomeWrite, PassIs
<1>. QED
  BY <1>3, <1>4 DEF StillLost

LEMMA UndeletedStep == ASSUME IInv, DeleteHostFails PROVE IInv'
<1>1. /\ pass.pc = "delete" /\ pass.pc \in AtWork /\ pass.pc \in OnInstance /\ pass' = NoPass
      /\ obj' \in {obj, Written(pass.dep, pass.facts)} /\ host' \in {host, Deleted}
      /\ UNCHANGED <<hook, cache, vms, conn, jobs, prov, req, overdue, excused, reported, edits>>
  BY DEF DeleteHostFails, outVars, envVars, AtWork, OnInstance, Settled
<1>2. host' \in [Endpoint -> Host]
  <2>1. "unset" \in Connection
    BY DEF Connection
  <2>. QED
    BY <1>1, <2>1, HostTyped, InstanceIs, PassIs
<1>. QED
  BY <1>1, <1>2, WorkEnds, InstanceIs, PassIs

LEMMA ReportedStep == ASSUME IInv, reportHookOutcome PROVE IInv'
<1>1. /\ pass.pc = "report" /\ pass.pc # "idle" /\ pass' = [pass EXCEPT !.pc = "release"]
      /\ obj' \in {obj, Written(pass.dep, pass.facts)}
      /\ UNCHANGED <<hook, cache, vms, conn, host, jobs, prov, req, overdue, excused, edits>>
  BY DEF reportHookOutcome, awxVars, envVars
<1>2. pass.uid \in Child /\ pass.dep.phase \in {"none", "Pending", "Launching", "Running"} \cup Done
  BY <1>1, PassIs DEF InHand, Dep
<1>3. reported \in [Child -> {"none", "Pending", "Launching", "Running"} \cup Done]
  BY DEF IInv, TypeOK
<1>4. reported' = [reported EXCEPT ![pass.uid] =
                     IF pass.dep.phase = "none" THEN @ ELSE pass.dep.phase]
  BY DEF reportHookOutcome
<1>5. /\ reported' \in [Child -> {"none", "Pending", "Launching", "Running"} \cup Done]
      /\ pass.dep.phase # "none" => reported'[pass.uid] = pass.dep.phase
  BY <1>2, <1>3, <1>4
<1>. QED
  BY <1>1, <1>5, OutcomeWrite, PassIs

-----------------------------------------------------------------------------
(* The objects' own life *)

\* A step of one object that comes no nearer to holding the name.
LEMMA ObjectWorld ==
    ASSUME IInv, NEW c \in Child, NEW o \in Object, obj' = [obj EXCEPT ![c] = o],
           obj[c].phase = "live", o.phase \in {"live", "gone"}, ChildOK(c, o)',
           Ending(c) => o.deleting \/ o.phase = "gone",
           o.phase = "live" => o.facts = obj[c].facts,
           UNCHANGED <<hook, cache, jobs, prov, req, overdue, excused>>
    PROVE  /\ obj' \in [Child -> Object] /\ Holders' \subseteq Holders /\ OneHolder'
           /\ JobsOK' /\ CopyOK(cache)'
           /\ \A b \in Child : RequestOK(req[b], b)' /\ ChildOK(b, obj[b])'
           /\ obj'[c] = o /\ \A b \in Child : b # c => obj'[b] = obj[b]
<1>1. /\ obj' \in [Child -> Object] /\ obj'[c] = o /\ \A b \in Child : b # c => obj'[b] = obj[b]
  BY Typed
<1>2. Holders' \subseteq Holders
  BY <1>1 DEF Holders
<1>3. OneHolder'
  BY <1>2 DEF IInv, OneHolder
<1>4. JobsOK'
  BY SameRecords DEF IInv
<1>5. \A b \in Child : RequestOK(req[b], b)'
  <2>1. \A b \in Child : RequestOK(req[b], b)' <=> RequestOK(req[b], b)
    BY DEF RequestOK
  <2>. QED
    BY <2>1 DEF IInv
<1>6. CopyOK(cache)'
  <2>. SUFFICES ASSUME cache.uid # None
                PROVE  /\ obj'[cache.uid].phase # "none"
                       /\ \A b \in Holders' : b = cache.uid
                       /\ cache.deleting => Ending(cache.uid)'
                       /\ hook = "none" /\ cache.uid \in Holders' =>
                            cache.facts.ep = obj'[cache.uid].facts.ep
    BY DEF CopyOK
  <2>1. cache.uid \in Child
    BY Typed DEF Copy
  <2>2. CopyOK(cache)
    BY DEF IInv
  <2>3. Ending(cache.uid) => Ending(cache.uid)'
    BY <1>1, <2>1 DEF Ending
  <2>4. cache.uid \in Holders' => obj'[cache.uid].facts = obj[cache.uid].facts
    BY <1>1, <2>1 DEF Holders
  <2>. QED
    BY <1>1, <1>2, <2>1, <2>2, <2>3, <2>4 DEF CopyOK
<1>7. ASSUME NEW b \in Child
      PROVE  ChildOK(b, obj[b])'
  <2>1. CASE b = c
    BY <1>1, <2>1 DEF ChildOK
  <2>2. CASE b # c
    <3>1. PICK x : x = obj[b]
      OBVIOUS
    <3>2. ChildOK(b, x)
      BY <3>1 DEF IInv
    <3>3. ChildOK(b, x)'
      BY <3>2, SameRecords
    <3>4. obj'[b] = x
      BY <1>1, <2>2, <3>1
    <3>. QED
      BY <3>3, <3>4 DEF ChildOK
  <2>. QED
    BY <2>1, <2>2
<1>. QED
  BY <1>1, <1>2, <1>3, <1>4, <1>5, <1>6, <1>7

\* What has gone keeps nothing, and so says nothing wrong.
LEMMA GoneOK ==
    ASSUME NEW c, NEW o, o = [NoObject EXCEPT !.phase = "gone"]
    PROVE  ChildOK(c, o) /\ o.phase = "gone"
<1>1. o.phase = "gone" /\ ~o.deleting /\ o.dep = NoDep /\ o.facts = NoFacts
  BY DEF NoObject
<1>2. RecordOK(NoFacts, NoDep)
  BY IdleOK, EmptyTyped DEF PassOK
<1>3. OwnRecord(c, NoDep) /\ NoFacts.job # "running"
  BY EmptyTyped DEF OwnRecord, NoFacts
<1>. QED
  BY <1>1, <1>2, <1>3 DEF ChildOK

\* What says nothing wrong still does with other marks.
LEMMA MarkedOK ==
    ASSUME NEW c, NEW x, NEW o, ChildOK(c, x), x.phase = "live", o.phase = "live",
           o.facts = x.facts, o.dep = x.dep, o.deleting => o.fin
    PROVE  ChildOK(c, o)
BY DEF ChildOK

LEMMA ReleaseStep == ASSUME IInv, ReleaseFinalizer PROVE IInv'
<1>1. /\ pass' = NoPass
      /\ UNCHANGED <<hook, cache, vms, conn, host, jobs, prov, req, overdue, excused, reported>>
      /\ UNCHANGED edits
  BY DEF ReleaseFinalizer, awxVars, outVars, envVars
<1>2. CASE Holder = None
  BY <1>1, <1>2, PassEnds, PassIs DEF ReleaseFinalizer
<1>3. CASE Holder # None
  <2>1. PICK c : c = Holder
    OBVIOUS
  <2>2. c \in Child /\ obj[c].phase = "live"
    BY <1>3, <2>1, HolderIs DEF IInv
  <2>3. PICK o : o = IF obj[c].deleting THEN [NoObject EXCEPT !.phase = "gone"]
                                        ELSE [obj[c] EXCEPT !.fin = FALSE]
    OBVIOUS
  <2>4. obj' = [obj EXCEPT ![c] = o]
    BY <1>3, <2>1, <2>2, <2>3, Typed DEF ReleaseFinalizer
  <2>5. /\ o \in Object /\ o.phase \in {"live", "gone"} /\ ChildOK(c, o)
        /\ Ending(c) => o.deleting \/ o.phase = "gone"
        /\ o.phase = "live" => o.facts = obj[c].facts
    <3>1. CASE obj[c].deleting
      BY <2>3, <3>1, GoneOK, EmptyTyped
    <3>2. CASE ~obj[c].deleting
      <4>1. o = [obj[c] EXCEPT !.fin = FALSE]
        BY <2>3, <3>2
      <4>2. /\ o \in Object /\ o.phase = "live" /\ o.facts = obj[c].facts /\ o.dep = obj[c].dep
            /\ o.deleting = obj[c].deleting
        BY <2>2, <4>1, Typed DEF Object
      <4>3. ChildOK(c, obj[c])
        BY <2>2 DEF IInv
      <4>4. ChildOK(c, o)
        BY <2>2, <3>2, <4>2, <4>3, MarkedOK
      <4>. QED
        BY <2>2, <3>2, <4>2, <4>4 DEF Ending
    <3>. QED
      BY <3>1, <3>2
  <2>6. ChildOK(c, o)'
    BY <1>1, <2>5, SameRecords
  <2>7. /\ obj' \in [Child -> Object] /\ OneHolder' /\ JobsOK' /\ CopyOK(cache)'
        /\ \A b \in Child : RequestOK(req[b], b)' /\ ChildOK(b, obj[b])'
    BY <1>1, <2>2, <2>4, <2>5, <2>6, ObjectWorld
  <2>8. TypeOK'
    BY <1>1, <2>7, EmptyTyped DEF IInv, TypeOK
  <2>9. PassOK(NoPass)'
    BY IdleOK, PTL
  <2>10. PassOK(pass)'
    BY <1>1, <2>9
  <2>. QED
    BY <2>7, <2>8, <2>10 DEF IInv
<1>. QED
  BY <1>2, <1>3

LEMMA HoldStep == ASSUME IInv, HoldFinalizer PROVE IInv'
<1>1. /\ pass.pc = "idle" /\ Holder # None /\ ~obj[Holder].deleting
      /\ UNCHANGED <<hook, cache, pass, vms, conn, host, jobs, prov, req, overdue, excused>>
      /\ UNCHANGED <<reported, edits>>
  BY DEF HoldFinalizer, awxVars, outVars, envVars
<1>2. PICK c : c = Holder
  OBVIOUS
<1>3. c \in Child /\ obj[c].phase = "live"
  BY <1>1, <1>2, HolderIs DEF IInv
<1>4. PICK o : o = [obj[c] EXCEPT !.fin = TRUE]
  OBVIOUS
<1>5. obj' = [obj EXCEPT ![c] = o]
  BY <1>2, <1>3, <1>4, Typed DEF HoldFinalizer
<1>6. /\ o \in Object /\ o.phase = "live" /\ o.facts = obj[c].facts /\ o.dep = obj[c].dep
      /\ o.fin /\ o.deleting = obj[c].deleting
  BY <1>3, <1>4, Typed DEF Object
<1>7. ChildOK(c, o)'
  <2>1. ChildOK(c, obj[c])
    BY <1>3 DEF IInv
  <2>2. ChildOK(c, o)
    BY <1>3, <1>6, <2>1, MarkedOK
  <2>. QED
    BY <1>1, <2>2, SameRecords
<1>8. Ending(c) => o.deleting \/ o.phase = "gone"
  BY <1>3, <1>6 DEF Ending
<1>9. /\ obj' \in [Child -> Object] /\ OneHolder' /\ JobsOK' /\ CopyOK(cache)'
      /\ \A b \in Child : RequestOK(req[b], b)' /\ ChildOK(b, obj[b])'
  BY <1>1, <1>3, <1>5, <1>6, <1>7, <1>8, ObjectWorld
<1>10. TypeOK'
  BY <1>1, <1>9 DEF IInv, TypeOK
<1>11. PassOK(pass)'
  <2>1. PICK q : q = pass
    OBVIOUS
  <2>2. q.pc = "idle" /\ RecordOK(q.facts, q.dep) /\ InHand(q) /\ DurableOK(q) /\ q.pc # "answer"
        /\ q.pc \notin OnInstance /\ q.pc \notin Launching /\ q.pc \notin AtWork
    BY <1>1, <2>1, PassIs DEF OnInstance, Launching, AtWork, Settled
  <2>3. RecordOK(q.facts, q.dep)'
    BY <1>1, <2>2, SameRecords
  <2>4. InHand(q)' /\ HeldOK(q)' /\ LaunchOK(q)' /\ DurableOK(q)' /\ PairOK(q)' /\ AloneOK(q)'
    BY <1>1, <2>2 DEF InHand, HeldOK, LaunchOK, DurableOK, PairOK, AloneOK, Within
  <2>5. PassOK(q)'
    BY <2>3, <2>4 DEF PassOK
  <2>. QED
    BY <1>1, <2>1, <2>5
<1>. QED
  BY <1>9, <1>10, <1>11 DEF IInv

\* A child goes on its way while a pass is under way: its end is not taken back.
LEMMA ObjectStep ==
    ASSUME IInv, NEW c \in Child, NEW o \in Object, obj' = [obj EXCEPT ![c] = o],
           obj[c].phase = "live", ChildOK(c, o),
           \/ o.phase = "gone" /\ ~obj[c].deleting
           \/ /\ o.phase = "live" /\ o.facts = obj[c].facts /\ o.dep = obj[c].dep
              /\ o.fin = obj[c].fin /\ (obj[c].deleting => o.deleting),
           UNCHANGED <<hook, cache, pass, vms, conn, host, jobs, prov, req, overdue, excused>>,
           UNCHANGED reported, edits' \in 0..MaxEdits
    PROVE  IInv'
<1>1. ChildOK(c, o)'
  BY SameRecords
<1>2. Ending(c) => o.deleting \/ o.phase = "gone"
  BY DEF Ending
<1>3. /\ obj' \in [Child -> Object] /\ Holders' \subseteq Holders /\ OneHolder'
      /\ JobsOK' /\ CopyOK(cache)'
      /\ \A b \in Child : RequestOK(req[b], b)' /\ ChildOK(b, obj[b])'
      /\ obj'[c] = o /\ \A b \in Child : b # c => obj'[b] = obj[b]
  BY <1>1, <1>2, ObjectWorld
<1>4. TypeOK'
  BY <1>3 DEF IInv, TypeOK
<1>5. /\ \A b \in Child : obj[b].deleting => obj'[b].deleting
      /\ \A b \in Child : obj[b].phase # "none" => obj'[b].phase # "none"
      /\ \A b \in Child : obj[b].phase = "gone" => obj'[b].phase = "gone"
      /\ \A b \in Holders' : /\ b \in Child /\ b \in Holders /\ obj'[b].fin = obj[b].fin
                             /\ obj'[b].facts = obj[b].facts /\ obj'[b].dep = obj[b].dep
  BY <1>3 DEF Holders
<1>6. PICK q : q = pass
  OBVIOUS
<1>7. /\ RecordOK(q.facts, q.dep) /\ InHand(q) /\ HeldOK(q) /\ LaunchOK(q) /\ DurableOK(q)
      /\ (Pair => PairOK(q)) /\ (Alone => AloneOK(q)) /\ (q.pc # "idle" => q.uid \in Child)
  BY <1>6, PassIs DEF InHand
<1>8. q.pc \in AtWork => q.pc # "idle"
  BY DEF AtWork, OnInstance, Settled, Launching
<1>9. RecordOK(q.facts, q.dep)' /\ InHand(q)'
  BY <1>7, SameRecords DEF InHand, Within
<1>10. HeldOK(q)'
  BY <1>5, <1>7 DEF HeldOK, Ending
<1>11. LaunchOK(q)'
  BY <1>5, <1>7 DEF LaunchOK
<1>12. DurableOK(q)'
  <2>. SUFFICES ASSUME q.uid \in Holders' PROVE DurableOK(q)'
    BY DEF DurableOK
  <2>1. q.uid \in Holders /\ obj'[q.uid].facts = obj[q.uid].facts /\ obj'[q.uid].dep = obj[q.uid].dep
    BY <1>5
  <2>. QED
    BY <1>7, <2>1 DEF DurableOK, Within
<1>13. Pair => PairOK(q)'
  BY <1>5, <1>7, <1>8, SameRecords DEF PairOK
<1>14. Alone => AloneOK(q)'
  <2>. SUFFICES ASSUME Alone, hook # "none", q.pc \in AtWork PROVE AloneOK(q)'
    BY DEF AloneOK, AtWork, OnInstance
  <2>1. q.uid = c /\ obj[c].deleting
    BY <1>7, <1>8 DEF Alone, AloneOK
  <2>2. obj'[c].deleting /\ obj'[c].facts = obj[c].facts
    BY <1>3, <2>1
  <2>. QED
    BY <1>7, <2>1, <2>2 DEF AloneOK, vmIsGone
<1>15. PassOK(q)'
  BY <1>9, <1>10, <1>11, <1>12, <1>13, <1>14 DEF PassOK, Pair, Alone
<1>. QED
  BY <1>3, <1>4, <1>6, <1>15 DEF IInv

LEMMA DeletedStep == ASSUME IInv, NEW c \in Child, DeleteChild(c) PROVE IInv'
<1>1. /\ obj[c].phase = "live" /\ ~obj[c].deleting
      /\ UNCHANGED <<hook, cache, pass, vms, conn, host, jobs, prov, req, overdue, excused>>
      /\ UNCHANGED <<reported, edits>> /\ edits \in 0..MaxEdits
  BY DEF DeleteChild, awxVars, outVars, envVars, IInv, TypeOK
<1>2. PICK o : o = IF obj[c].fin
                   THEN [obj[c] EXCEPT !.deleting = TRUE, !.owed = vmIsGone(c)]
                   ELSE [NoObject EXCEPT !.phase = "gone"]
  OBVIOUS
<1>3. obj' = [obj EXCEPT ![c] = o]
  BY <1>2, Typed DEF DeleteChild
<1>4. CASE obj[c].fin
  <2>1. o = [obj[c] EXCEPT !.deleting = TRUE, !.owed = vmIsGone(c)] /\ vmIsGone(c) \in BOOLEAN
    BY <1>2, <1>4 DEF vmIsGone
  <2>2. /\ o \in Object /\ o.phase = "live" /\ o.facts = obj[c].facts /\ o.dep = obj[c].dep
        /\ o.fin = obj[c].fin /\ o.deleting
    BY <1>1, <2>1, Typed DEF Object
  <2>3. ChildOK(c, obj[c])
    BY DEF IInv
  <2>4. ChildOK(c, o)
    BY <1>1, <1>4, <2>2, <2>3, MarkedOK
  <2>. QED
    BY <1>1, <1>3, <2>2, <2>4, ObjectStep
<1>5. CASE ~obj[c].fin
  BY <1>1, <1>2, <1>3, <1>5, GoneOK, EmptyTyped, ObjectStep
<1>. QED
  BY <1>4, <1>5

LEMMA PolicyStep == ASSUME IInv, NEW c \in Child, SetPolicy(c) PROVE IInv'
<1>1. /\ obj[c].deleting /\ edits < MaxEdits /\ edits' = edits + 1
      /\ UNCHANGED <<hook, cache, pass, vms, conn, host, jobs, prov, req, overdue, excused>>
      /\ UNCHANGED reported
  BY DEF SetPolicy, MayEdit, awxVars, outVars
<1>2. edits' \in 0..MaxEdits
  BY <1>1, TeardownAssumption DEF IInv, TypeOK
<1>3. PICK o : o = [obj[c] EXCEPT !.retain = ~@]
  OBVIOUS
<1>4. obj[c].phase = "live" /\ obj[c].fin
  BY <1>1, DeletingLives
<1>5. /\ o \in Object /\ o.phase = obj[c].phase /\ o.facts = obj[c].facts /\ o.dep = obj[c].dep
      /\ o.fin = obj[c].fin /\ o.deleting = obj[c].deleting
  BY <1>3, Typed DEF Object
<1>6. obj' = [obj EXCEPT ![c] = o]
  BY <1>3, Typed DEF SetPolicy
<1>7. ChildOK(c, obj[c])
  BY DEF IInv
<1>8. ChildOK(c, o)
  BY <1>4, <1>5, <1>7, MarkedOK
<1>. QED
  BY <1>1, <1>2, <1>4, <1>5, <1>6, <1>8, ObjectStep

\* Whoever takes the name over has no finalizer, no record and no launch.
LEMMA CreatedStep == ASSUME IInv, NEW c \in Child, CreateChild(c) PROVE IInv'
<1>1. /\ obj[c].phase = "none" /\ Holder = None /\ cache.uid = None
      /\ UNCHANGED <<hook, cache, pass, vms, conn, host, jobs, prov, req, overdue, excused>>
      /\ UNCHANGED <<reported, edits>>
  BY DEF CreateChild, awxVars, outVars, envVars
<1>2. obj[c] = NoObject /\ req[c].state = "none" /\ Holders = {}
  <2>1. ChildOK(c, obj[c]) /\ OneHolder
    BY DEF IInv
  <2>. QED
    BY <1>1, <2>1, HolderIs DEF ChildOK
<1>3. PICK o : o = [NoObject EXCEPT !.phase = "live"]
  OBVIOUS
<1>4. /\ o \in Object /\ o.phase = "live" /\ o.facts = NoFacts /\ o.dep = NoDep
      /\ ~o.fin /\ ~o.deleting
  BY <1>3, EmptyTyped DEF NoObject, Object
<1>5. obj' = [obj EXCEPT ![c] = o]
  BY <1>2, <1>3, Typed DEF CreateChild
<1>6. /\ obj' \in [Child -> Object] /\ obj'[c] = o /\ \A b \in Child : b # c => obj'[b] = obj[b]
  BY <1>4, <1>5, Typed
<1>7. Holders' = {c}
  BY <1>2, <1>4, <1>6 DEF Holders
<1>8. TypeOK'
  BY <1>1, <1>6 DEF IInv, TypeOK
<1>9. OneHolder' /\ CopyOK(cache)'
  BY <1>1, <1>7 DEF OneHolder, CopyOK
<1>10. JobsOK' /\ \A b \in Child : RequestOK(req[b], b)'
  <2>1. \A b \in Child : RequestOK(req[b], b)' <=> RequestOK(req[b], b)
    BY <1>1 DEF RequestOK
  <2>. QED
    BY <1>1, <2>1, SameRecords DEF IInv
<1>11. ASSUME NEW b \in Child
       PROVE  ChildOK(b, obj[b])'
  <2>1. PICK x : x = obj'[b]
    OBVIOUS
  <2>2. ChildOK(b, x)
    <3>1. CASE b = c
      <4>1. RecordOK(NoFacts, NoDep)
        BY IdleOK, EmptyTyped DEF PassOK
      <4>2. OwnRecord(c, NoDep) /\ NoFacts.job # "running"
        BY EmptyTyped DEF OwnRecord, NoFacts
      <4>3. x = o
        BY <1>6, <2>1, <3>1
      <4>. QED
        BY <1>2, <1>4, <3>1, <4>1, <4>2, <4>3 DEF ChildOK
    <3>2. CASE b # c
      BY <1>6, <2>1, <3>2 DEF IInv
    <3>. QED
      BY <3>1, <3>2
  <2>3. ChildOK(b, x)'
    BY <1>1, <2>2, SameRecords
  <2>. QED
    BY <2>1, <2>3 DEF ChildOK
<1>12. PICK q : q = pass
  OBVIOUS
<1>13. /\ RecordOK(q.facts, q.dep) /\ InHand(q) /\ HeldOK(q) /\ LaunchOK(q)
       /\ (Pair => PairOK(q)) /\ (Alone => AloneOK(q)) /\ (q.pc # "idle" => q.uid \in Child)
       /\ q.uid \in Child \cup {None} /\ None \notin Child
  BY <1>12, PassIs, Typed DEF InHand
<1>14. q.pc # "idle" => q.uid # c /\ obj'[q.uid] = obj[q.uid]
  BY <1>1, <1>6, <1>13 DEF HeldOK
<1>15. q.pc \in AtWork => q.pc # "idle"
  BY DEF AtWork, OnInstance, Settled, Launching
<1>16. RecordOK(q.facts, q.dep)' /\ InHand(q)'
  BY <1>1, <1>13, SameRecords DEF InHand, Within
<1>17. HeldOK(q)'
  BY <1>1, <1>4, <1>6, <1>7, <1>13, <1>14 DEF HeldOK, Ending
<1>18. LaunchOK(q)'
  BY <1>1, <1>2, <1>7, <1>13 DEF LaunchOK
<1>19. DurableOK(q)'
  <2>1. q.pc # "idle" => q.uid \notin Holders'
    BY <1>7, <1>14
  <2>. QED
    BY <2>1 DEF DurableOK, OnInstance, Launching
<1>20. ~(q.pc # "idle" /\ obj[q.uid].deleting)
  BY <1>2, <1>12, <1>13, DeletingLives
<1>21. Pair => PairOK(q)'
  <2>. SUFFICES ASSUME Pair, hook # "none", q.pc \in AtWork PROVE FALSE
    BY <1>1, <1>13, SameRecords DEF PairOK
  <2>1. \A b \in Child \ {q.uid} : obj[b].phase = "gone"
    BY <1>13, <1>15, <1>20 DEF PairOK
  <2>. QED
    BY <1>1, <1>14, <1>15, <2>1
<1>22. Alone => AloneOK(q)'
  <2>. SUFFICES ASSUME Alone, hook # "none", q.pc \in AtWork PROVE FALSE
    BY <1>1 DEF AloneOK, AtWork, OnInstance
  <2>. QED
    BY <1>13, <1>15, <1>20 DEF AloneOK
<1>23. PassOK(q)'
  BY <1>16, <1>17, <1>18, <1>19, <1>21, <1>22 DEF PassOK, Pair, Alone
<1>. QED
  BY <1>1, <1>8, <1>9, <1>10, <1>11, <1>12, <1>23 DEF IInv

-----------------------------------------------------------------------------
(* The world around *)

\* AWX, the VMs and the clocks only go forward: jobs stay, and end once; what
\* was launched was; what is gone, overdue or over stays so.
Forward ==
    /\ \A e \in Endpoint : \A j \in DOMAIN jobs[e] :
         /\ j \in DOMAIN jobs'[e]
         /\ jobs'[e][j].by = jobs[e][j].by /\ jobs'[e][j].narrowed = jobs[e][j].narrowed
         /\ jobs[e][j].status # "running" => jobs'[e][j].status = jobs[e][j].status
    /\ \A c \in Child : /\ req'[c].state = "none" <=> req[c].state = "none"
                        /\ req'[c].ep = req[c].ep
                        /\ prov[c] # "none" => prov'[c] # "none"
                        /\ prov[c] = "ended" => prov'[c] = "ended"
    /\ vms \subseteq vms' /\ overdue \subseteq overdue'

LEMMA WorldMoves ==
    ASSUME IInv, Forward, TypeOK', JobsOK', CopyOK(cache)',
           \A c \in Child : RequestOK(req[c], c)',
           UNCHANGED <<hook, obj, pass, excused, reported>>
    PROVE  IInv'
<1>1. Holders' = Holders /\ Holders \subseteq Child /\ OneHolder'
  BY DEF Holders, OneHolder, IInv
<1>2. ASSUME NEW f, NEW d, RecordOK(f, d)
      PROVE  /\ RecordOK(f, d)'
             /\ \A c : OwnRecord(c, d) => OwnRecord(c, d)'
             /\ d.job # 0 /\ jobs[d.ep][d.job].status # "running" =>
                  jobs'[d.ep][d.job].status # "running"
  <2>1. CASE d.job = 0
    BY <1>2, <2>1 DEF RecordOK, Within, OwnRecord
  <2>2. CASE d.job # 0
    <3>1. d.ep \in Endpoint /\ d.job \in DOMAIN jobs[d.ep]
      BY <1>2, <2>2 DEF RecordOK
    <3>2. /\ d.job \in DOMAIN jobs'[d.ep]
          /\ jobs'[d.ep][d.job].by = jobs[d.ep][d.job].by
          /\ jobs'[d.ep][d.job].narrowed = jobs[d.ep][d.job].narrowed
          /\ jobs[d.ep][d.job].status # "running" =>
               jobs'[d.ep][d.job].status = jobs[d.ep][d.job].status
      BY <3>1 DEF Forward
    <3>3. RecordOK(f, d)'
      BY <1>2, <3>1, <3>2 DEF RecordOK, Within, EndedWell
    <3>4. \A c : OwnRecord(c, d) => OwnRecord(c, d)'
      BY <3>2 DEF OwnRecord, Forward
    <3>. QED
      BY <3>2, <3>3, <3>4
  <2>. QED
    BY <2>1, <2>2
<1>3. ASSUME NEW c \in Child
      PROVE  ChildOK(c, obj[c])'
  <2>1. PICK o : o = obj[c]
    OBVIOUS
  <2>2. ChildOK(c, o)
    BY <2>1 DEF IInv
  <2>3. RecordOK(o.facts, o.dep)' /\ (OwnRecord(c, o.dep) => OwnRecord(c, o.dep)')
    BY <1>2, <2>2 DEF ChildOK
  <2>4. (req[c].state = "none" => req'[c].state = "none") /\ (prov[c] # "none" => prov'[c] # "none")
    BY DEF Forward
  <2>5. ChildOK(c, o)'
    BY <2>2, <2>3, <2>4 DEF ChildOK, Pair, Alone
  <2>. QED
    BY <2>1, <2>5 DEF ChildOK
<1>4. PICK q : q = pass
  OBVIOUS
<1>5. /\ RecordOK(q.facts, q.dep) /\ InHand(q) /\ HeldOK(q) /\ LaunchOK(q) /\ DurableOK(q)
      /\ (Pair => PairOK(q)) /\ (Alone => AloneOK(q)) /\ (q.pc # "idle" => q.uid \in Child)
  BY <1>4, PassIs DEF InHand
<1>6. (q.pc \in AtWork => q.pc # "idle") /\ (q.pc \in OnInstance => q.pc \in AtWork)
      /\ (q.pc \in Launching => q.pc \in AtWork)
  BY DEF AtWork, OnInstance, Settled, Launching
<1>7. RecordOK(q.facts, q.dep)' /\ (OwnRecord(q.uid, q.dep) => OwnRecord(q.uid, q.dep)')
  BY <1>2, <1>5
<1>8. InHand(q)' /\ HeldOK(q)'
  BY <1>1, <1>5 DEF InHand, Within, HeldOK, Ending
<1>9. LaunchOK(q)'
  BY <1>1, <1>5, <1>6 DEF LaunchOK, Forward
<1>10. DurableOK(q)'
  <2>. SUFFICES ASSUME q.uid \in Holders PROVE DurableOK(q)'
    BY <1>1 DEF DurableOK
  <2>1. PICK o : o = obj[q.uid]
    OBVIOUS
  <2>2. ChildOK(q.uid, o)
    BY <1>1, <2>1 DEF IInv
  <2>3. o.dep.job # 0 /\ jobs[o.dep.ep][o.dep.job].status # "running" =>
          jobs'[o.dep.ep][o.dep.job].status # "running"
    BY <1>2, <2>2 DEF ChildOK
  <2>4. overdue \subseteq overdue' /\ obj'[q.uid] = o
    BY <2>1 DEF Forward
  <2>. QED
    BY <1>5, <2>1, <2>3, <2>4 DEF DurableOK, Within
<1>11. Pair => PairOK(q)'
  BY <1>5, <1>7 DEF PairOK
<1>12. Alone => AloneOK(q)'
  BY <1>5, <1>6 DEF AloneOK, vmIsGone, Forward
<1>13. PassOK(q)'
  BY <1>7, <1>8, <1>9, <1>10, <1>11, <1>12 DEF PassOK, Pair, Alone
<1>. QED
  BY <1>1, <1>3, <1>4, <1>13 DEF IInv

\* Steps that leave the objects, AWX's jobs and the requests alone.
LEMMA QuietStep ==
    ASSUME IInv, UNCHANGED <<hook, obj, cache, pass, jobs, req, excused, reported>>, TypeOK',
           vms \subseteq vms', overdue \subseteq overdue',
           \A c \in Child : /\ prov[c] # "none" => prov'[c] # "none"
                            /\ prov[c] = "ended" => prov'[c] = "ended"
    PROVE  IInv'
<1>1. JobsOK' /\ \A c \in Child : RequestOK(req[c], c)'
  BY DEF IInv, JobsOK, RequestOK
<1>2. CopyOK(cache)'
  BY DEF IInv, CopyOK, Ending, Holders
<1>3. Forward
  BY DEF Forward
<1>. QED
  BY <1>1, <1>2, <1>3, WorldMoves

LEMMA VMGoesStep == ASSUME IInv, NEW v \in VM, VMGoes(v) PROVE IInv'
<1>1. UNCHANGED <<hook, obj, cache, pass, jobs, req, excused, reported>> /\ UNCHANGED <<prov, overdue>>
  BY DEF VMGoes, awxVars, outVars
<1>2. TypeOK' /\ vms \subseteq vms'
  BY DEF VMGoes, awxVars, outVars, IInv, TypeOK
<1>. QED
  BY <1>1, <1>2, QuietStep

LEMMA ElapseStep == ASSUME IInv, NEW c \in Child, Elapse(c) PROVE IInv'
<1>1. UNCHANGED <<hook, obj, cache, pass, jobs, req, excused, reported>> /\ UNCHANGED <<prov, vms>>
  BY DEF Elapse, awxVars, outVars
<1>2. TypeOK' /\ overdue \subseteq overdue'
  BY DEF Elapse, awxVars, outVars, IInv, TypeOK
<1>. QED
  BY <1>1, <1>2, QuietStep

LEMMA RepointStep == ASSUME IInv, Repoint PROVE IInv'
<1>1. /\ UNCHANGED <<hook, obj, cache, pass, jobs, req, excused, reported>>
      /\ UNCHANGED <<prov, vms, overdue, host>>
      /\ edits < MaxEdits /\ edits' = edits + 1 /\ conn' \in Endpoint \cup {None}
  BY DEF Repoint, awxVars, outVars, MayEdit
<1>2. edits' \in 0..MaxEdits
  BY <1>1, TeardownAssumption DEF IInv, TypeOK
<1>3. TypeOK'
  BY <1>1, <1>2 DEF IInv, TypeOK
<1>. QED
  BY <1>1, <1>3, QuietStep

LEMMA ProvisioningStep == ASSUME IInv, NEW c \in Child, ProvisioningEnds(c) PROVE IInv'
<1>1. /\ UNCHANGED <<hook, obj, cache, pass, jobs, req, excused, reported>>
      /\ UNCHANGED <<host, vms, conn, overdue, edits>>
      /\ prov[c] = "running" /\ prov' = [prov EXCEPT ![c] = "ended"]
  BY DEF ProvisioningEnds, outVars, envVars
<1>2. \A b \in Child : /\ prov[b] # "none" => prov'[b] # "none"
                       /\ prov[b] = "ended" => prov'[b] = "ended"
  BY <1>1, Typed
<1>3. TypeOK'
  BY <1>1 DEF IInv, TypeOK
<1>. QED
  BY <1>1, <1>2, <1>3, QuietStep

LEMMA InventoryStep == ASSUME IInv, NEW e \in Endpoint, EditInventory(e) PROVE IInv'
<1>1. /\ UNCHANGED <<hook, obj, cache, pass, jobs, req, excused, reported>>
      /\ UNCHANGED <<prov, vms, overdue, conn>>
      /\ edits < MaxEdits /\ edits' = edits + 1
  BY DEF EditInventory, outVars, MayEdit
<1>2. edits' \in 0..MaxEdits
  BY <1>1, TeardownAssumption DEF IInv, TypeOK
<1>3. PICK h \in Host : host' = [host EXCEPT ![e] = h]
  <2>1. host[e] \in Host /\ host \in [Endpoint -> Host]
    BY Typed
  <2>2. CASE host' = [host EXCEPT ![e] = [NoHost EXCEPT !.id = host[e].id]]
    <3>1. [NoHost EXCEPT !.id = host[e].id] \in Host
      BY <2>1, EmptyTyped DEF Host
    <3>. QED
      BY <2>2, <3>1
  <2>3. CASE \E o \in {"foreign", "hand"} : host' = [host EXCEPT ![e].owner = o]
    <3>1. PICK o \in {"foreign", "hand"} : host' = [host EXCEPT ![e].owner = o]
      BY <2>3
    <3>2. [host[e] EXCEPT !.owner = o] \in Host
      BY <2>1 DEF Host
    <3>. QED
      BY <3>1, <3>2
  <2>4. CASE host' = [host EXCEPT ![e] = [NoHost EXCEPT !.id = host[e].id + 1, !.owner = "hand"]]
    <3>1. PICK n : n = host[e].id + 1
      OBVIOUS
    <3>2. n \in Nat
      BY <2>1, <3>1 DEF Host
    <3>3. [NoHost EXCEPT !.id = n, !.owner = "hand"] \in Host
      BY <3>2, EmptyTyped DEF Host
    <3>. QED
      BY <2>4, <3>1, <3>3
  <2>. QED
    BY <2>2, <2>3, <2>4 DEF EditInventory
<1>4. host' \in [Endpoint -> Host]
  BY <1>3, Typed
<1>5. TypeOK'
  BY <1>1, <1>2, <1>4 DEF IInv, TypeOK
<1>. QED
  BY <1>1, <1>5, QuietStep

\* The informer's copy, taken now, is of who holds the name.
LEMMA SnapshotOK ==
    ASSUME OneHolder, obj \in [Child -> Object]
    PROVE  Snapshot \in Copy /\ CopyOK(Snapshot)
<1>1. CASE Holder = None
  <2>1. Snapshot = [uid |-> None, deleting |-> FALSE, fin |-> FALSE, retain |-> FALSE,
                    facts |-> NoFacts]
    BY <1>1 DEF Snapshot
  <2>. QED
    BY <2>1, EmptyTyped DEF Copy, CopyOK
<1>2. CASE Holder # None
  <2>1. PICK c : c = Holder
    OBVIOUS
  <2>2. c \in Child /\ c \in Holders /\ obj[c].phase = "live" /\ \A b \in Holders : b = c
    BY <1>2, <2>1, HolderIs
  <2>3. PICK s : s = Snapshot
    OBVIOUS
  <2>4. s = [uid |-> c, deleting |-> obj[c].deleting, fin |-> obj[c].fin,
             retain |-> hook = "none" /\ obj[c].retain,
             facts |-> IF hook = "none" THEN obj[c].facts ELSE NoFacts]
    BY <1>2, <2>1, <2>3 DEF Snapshot
  <2>5. /\ s.uid = c /\ s.deleting = obj[c].deleting
        /\ (hook = "none" => s.facts = obj[c].facts)
    BY <2>4
  <2>6. s \in Copy
    <3>1. /\ obj[c].deleting \in BOOLEAN /\ obj[c].fin \in BOOLEAN /\ obj[c].retain \in BOOLEAN
          /\ obj[c].facts \in Facts
      BY <2>2 DEF Object
    <3>. QED
      BY <2>2, <2>4, <3>1, EmptyTyped DEF Copy
  <2>7. CopyOK(s)
    BY <2>2, <2>5 DEF CopyOK, Ending
  <2>. QED
    BY <2>3, <2>6, <2>7
<1>. QED
  BY <1>1, <1>2

LEMMA SyncStep == ASSUME IInv, SyncCache PROVE IInv'
<1>1. /\ UNCHANGED <<hook, obj, pass, excused, reported>>
      /\ UNCHANGED <<host, jobs, prov, req, vms, conn, overdue, edits>>
      /\ cache' = Snapshot
  BY DEF SyncCache, awxVars, outVars, envVars
<1>2. PICK s : s = Snapshot
  OBVIOUS
<1>3. s \in Copy /\ CopyOK(s)
  BY <1>2, SnapshotOK, Typed DEF IInv
<1>4. TypeOK'
  BY <1>1, <1>2, <1>3 DEF IInv, TypeOK
<1>5. CopyOK(s)'
  BY <1>1, <1>3 DEF CopyOK, Ending, Holders
<1>6. CopyOK(cache)'
  BY <1>1, <1>2, <1>5
<1>7. JobsOK' /\ \A c \in Child : RequestOK(req[c], c)'
  BY <1>1 DEF IInv, JobsOK, RequestOK
<1>8. Forward
  BY <1>1 DEF Forward
<1>. QED
  BY <1>1, <1>4, <1>6, <1>7, <1>8, WorldMoves

LEMMA CrashStep == ASSUME IInv, Crash PROVE IInv'
<1>1. /\ UNCHANGED <<hook, obj, excused, reported>>
      /\ UNCHANGED <<host, jobs, prov, req, vms, conn, overdue, edits>>
      /\ cache' = Snapshot /\ pass' = NoPass
  BY DEF Crash, awxVars, outVars
<1>2. PICK s : s = Snapshot
  OBVIOUS
<1>3. s \in Copy /\ CopyOK(s)
  BY <1>2, SnapshotOK, Typed DEF IInv
<1>4. TypeOK'
  BY <1>1, <1>2, <1>3, EmptyTyped DEF IInv, TypeOK
<1>5. CopyOK(s)'
  BY <1>1, <1>3 DEF CopyOK, Ending, Holders
<1>6. CopyOK(cache)' /\ OneHolder'
  BY <1>1, <1>2, <1>5 DEF IInv, OneHolder, Holders
<1>7. JobsOK' /\ \A c \in Child : RequestOK(req[c], c)' /\ ChildOK(c, obj[c])'
  <2>1. \A c \in Child : RequestOK(req[c], c)' <=> RequestOK(req[c], c)
    BY <1>1 DEF RequestOK
  <2>2. \A c \in Child : ChildOK(c, obj[c]) => ChildOK(c, obj[c])'
    BY <1>1, SameRecords
  <2>. QED
    BY <1>1, <2>1, <2>2, SameRecords DEF IInv
<1>8. PassOK(NoPass)'
  BY IdleOK, PTL
<1>. QED
  BY <1>1, <1>4, <1>6, <1>7, <1>8 DEF IInv

\* A step of AWX on its jobs and requests.
LEMMA AWXStep ==
    ASSUME IInv, Forward, JobsOK', \A c \in Child : RequestOK(req[c], c)',
           jobs' \in [Endpoint -> Seq(Job)], req' \in [Child -> Request],
           UNCHANGED <<hook, obj, cache, pass, host, prov, vms, conn, overdue, excused, reported>>,
           UNCHANGED edits
    PROVE  IInv'
<1>1. TypeOK'
  BY DEF IInv, TypeOK
<1>2. CopyOK(cache)'
  BY DEF IInv, CopyOK, Ending, Holders
<1>. QED
  BY <1>1, <1>2, WorldMoves

\* AWX takes the one launch there was for the child.
LEMMA AcceptStep == ASSUME IInv, NEW c \in Child, AWXLaunch(c) PROVE IInv'
<1>1. /\ req[c].state = "sent" /\ UNCHANGED <<hook, obj, cache, pass, host, prov, vms, conn>>
      /\ UNCHANGED <<overdue, excused, reported, edits>>
  BY DEF AWXLaunch, outVars, envVars
<1>2. PICK e : e = req[c].ep
  OBVIOUS
<1>3. e \in Endpoint /\ RequestOK(req[c], c)
  BY <1>1, <1>2 DEF IInv, RequestOK
<1>4. PICK n \in BOOLEAN : jobs' = [jobs EXCEPT ![e] =
        Append(@, [by |-> c, status |-> "running", narrowed |-> n, kept |-> TRUE])]
  <2>1. PICK n \in {FALSE, hook = "ManagedHost"} : jobs' = [jobs EXCEPT ![e] =
          Append(@, [by |-> c, status |-> "running", narrowed |-> n, kept |-> TRUE])]
    BY <1>2 DEF AWXLaunch
  <2>2. n \in BOOLEAN
    BY <2>1
  <2>. QED
    BY <2>1, <2>2
<1>5. PICK r : r = [by |-> c, status |-> "running", narrowed |-> n, kept |-> TRUE]
  OBVIOUS
<1>6. r \in Job /\ r.by = c
  BY <1>4, <1>5 DEF Job
<1>7. PICK k : k = Len(jobs[e]) + 1
  OBVIOUS
<1>8. /\ jobs \in [Endpoint -> Seq(Job)] /\ jobs[e] \in Seq(Job) /\ Len(jobs[e]) \in Nat
      /\ k \in Nat
  BY <1>3, <1>7, Typed
<1>9. /\ jobs'[e] = Append(jobs[e], r) /\ jobs' \in [Endpoint -> Seq(Job)]
      /\ \A x \in Endpoint : x # e => jobs'[x] = jobs[x]
  BY <1>3, <1>4, <1>5, <1>6, <1>8
<1>10. /\ DOMAIN jobs'[e] = 1..k /\ DOMAIN jobs[e] = 1..Len(jobs[e]) /\ jobs'[e][k] = r
       /\ \A j \in DOMAIN jobs[e] : j # k /\ j \in DOMAIN jobs'[e] /\ jobs'[e][j] = jobs[e][j]
       /\ \A j \in DOMAIN jobs'[e] : j = k \/ j \in DOMAIN jobs[e]
  BY <1>6, <1>7, <1>8, <1>9
<1>11. /\ req' \in [Child -> Request] /\ req'[c].state = "accepted" /\ req'[c].ep = e
       /\ req'[c].job = k /\ \A b \in Child : b # c => req'[b] = req[b]
       /\ req'[c] = [state |-> "accepted", ep |-> e, job |-> k]
  <2>1. req[c] \in Request /\ req \in [Child -> Request]
    BY Typed
  <2>2. PICK q : q = [req[c] EXCEPT !.state = "accepted", !.job = k]
    OBVIOUS
  <2>3. q \in Request /\ q = [state |-> "accepted", ep |-> e, job |-> k]
    BY <1>2, <1>8, <2>1, <2>2 DEF Request
  <2>4. req' = [req EXCEPT ![c] = q]
    BY <1>2, <1>7, <2>1, <2>2 DEF AWXLaunch
  <2>. QED
    BY <2>1, <2>3, <2>4
<1>12. \A x \in Endpoint : \A j \in DOMAIN jobs[x] :
         j \in DOMAIN jobs'[x] /\ jobs'[x][j] = jobs[x][j]
  BY <1>9, <1>10
<1>13. \A x \in Endpoint : \A j \in DOMAIN jobs[x] : jobs[x][j].by \in Child \ {c}
  <2>. SUFFICES ASSUME NEW x \in Endpoint, NEW j \in DOMAIN jobs[x]
                PROVE  jobs[x][j].by \in Child \ {c}
    OBVIOUS
  <2>1. req[jobs[x][j].by].state = "accepted" /\ jobs[x][j].by \in Child
    BY JobTyped
  <2>. QED
    BY <1>1, <2>1
<1>14. Forward
  BY <1>1, <1>2, <1>11, <1>12 DEF Forward
<1>15. JobsOK'
  <2>. SUFFICES ASSUME NEW x \in Endpoint, NEW j \in DOMAIN jobs'[x]
                PROVE  req'[jobs'[x][j].by] = [state |-> "accepted", ep |-> x, job |-> j]
    BY DEF JobsOK
  <2>1. CASE j \in DOMAIN jobs[x]
    <3>1. req[jobs[x][j].by] = [state |-> "accepted", ep |-> x, job |-> j]
      BY <2>1 DEF IInv, JobsOK
    <3>. QED
      BY <1>11, <1>12, <1>13, <2>1, <3>1
  <2>2. CASE j \notin DOMAIN jobs[x]
    <3>1. x = e /\ j = k
      BY <1>9, <1>10, <2>2
    <3>. QED
      BY <1>6, <1>10, <1>11, <3>1
  <2>. QED
    BY <2>1, <2>2
<1>16. ASSUME NEW b \in Child
       PROVE  RequestOK(req[b], b)'
  <2>1. CASE b = c
    <3>1. k \in DOMAIN jobs'[e]
      BY <1>7, <1>8, <1>10
    <3>. QED
      BY <1>3, <1>6, <1>10, <1>11, <2>1, <3>1 DEF RequestOK
  <2>2. CASE b # c
    <3>1. RequestOK(req[b], b)
      BY DEF IInv
    <3>. QED
      BY <1>11, <1>12, <2>2, <3>1 DEF RequestOK
  <2>. QED
    BY <2>1, <2>2
<1>. QED
  BY <1>1, <1>9, <1>11, <1>14, <1>15, <1>16, AWXStep

LEMMA RefuseStep == ASSUME IInv, NEW c \in Child, AWXRefuse(c) PROVE IInv'
<1>1. /\ req[c].state = "sent" /\ req' = [req EXCEPT ![c].state = "refused"]
      /\ UNCHANGED <<hook, obj, cache, pass, host, jobs, prov, vms, conn>>
      /\ UNCHANGED <<overdue, excused, reported, edits>>
  BY DEF AWXRefuse, outVars, envVars
<1>2. /\ req' \in [Child -> Request] /\ req'[c].state = "refused" /\ req'[c].ep = req[c].ep
      /\ \A b \in Child : b # c => req'[b] = req[b]
  <2>1. req[c] \in Request /\ req \in [Child -> Request]
    BY Typed
  <2>2. PICK q : q = [req[c] EXCEPT !.state = "refused"]
    OBVIOUS
  <2>3. q \in Request /\ q.state = "refused" /\ q.ep = req[c].ep
    BY <2>1, <2>2 DEF Request
  <2>4. req' = [req EXCEPT ![c] = q]
    BY <1>1, <2>1, <2>2
  <2>. QED
    BY <2>1, <2>3, <2>4
<1>3. Forward
  BY <1>1, <1>2 DEF Forward
<1>4. JobsOK'
  <2>. SUFFICES ASSUME NEW x \in Endpoint, NEW j \in DOMAIN jobs[x]
                PROVE  req'[jobs[x][j].by] = [state |-> "accepted", ep |-> x, job |-> j]
    BY <1>1 DEF JobsOK
  <2>1. req[jobs[x][j].by].state = "accepted" /\ jobs[x][j].by \in Child
    BY JobTyped
  <2>2. req[jobs[x][j].by] = [state |-> "accepted", ep |-> x, job |-> j]
    BY DEF IInv, JobsOK
  <2>. QED
    BY <1>1, <1>2, <2>1, <2>2
<1>5. ASSUME NEW b \in Child
      PROVE  RequestOK(req[b], b)'
  <2>1. RequestOK(req[b], b)
    BY DEF IInv
  <2>. QED
    BY <1>1, <1>2, <2>1 DEF RequestOK
<1>. QED
  BY <1>1, <1>2, <1>3, <1>4, <1>5, AWXStep, Typed

\* A job ends, or its record goes.
LEMMA JobStep ==
    ASSUME IInv, NEW e \in Endpoint, NEW j \in DOMAIN jobs[e], JobEnds(e, j) \/ PurgeJob(e, j)
    PROVE  IInv'
<1>1. UNCHANGED <<hook, obj, cache, pass, host, prov, vms, conn, overdue, excused, reported>>
      /\ UNCHANGED <<req, edits>>
  BY DEF JobEnds, PurgeJob, outVars, envVars
<1>2. jobs[e][j] \in Job /\ jobs \in [Endpoint -> Seq(Job)] /\ jobs[e] \in Seq(Job)
  BY JobTyped, Typed
<1>3. PICK r \in Job : /\ jobs' = [jobs EXCEPT ![e] = [@ EXCEPT ![j] = r]]
                       /\ r.by = jobs[e][j].by /\ r.narrowed = jobs[e][j].narrowed
                       /\ jobs[e][j].status # "running" => r.status = jobs[e][j].status
  <2>1. CASE JobEnds(e, j)
    <3>1. PICK s \in {"successful", "failed"} : jobs' = [jobs EXCEPT ![e][j].status = s]
      BY <2>1 DEF JobEnds
    <3>2. PICK r : r = [jobs[e][j] EXCEPT !.status = s]
      OBVIOUS
    <3>3. r \in Job /\ r.by = jobs[e][j].by /\ r.narrowed = jobs[e][j].narrowed
      BY <1>2, <3>2 DEF Job
    <3>4. jobs[e][j].status = "running"
      BY <2>1 DEF JobEnds
    <3>. QED
      BY <3>1, <3>2, <3>3, <3>4
  <2>2. CASE PurgeJob(e, j)
    <3>1. jobs' = [jobs EXCEPT ![e][j].kept = FALSE]
      BY <2>2 DEF PurgeJob
    <3>2. PICK r : r = [jobs[e][j] EXCEPT !.kept = FALSE]
      OBVIOUS
    <3>3. r \in Job /\ r.by = jobs[e][j].by /\ r.narrowed = jobs[e][j].narrowed
          /\ r.status = jobs[e][j].status
      BY <1>2, <3>2 DEF Job
    <3>. QED
      BY <3>1, <3>2, <3>3
  <2>. QED
    BY <2>1, <2>2
<1>4. /\ jobs'[e] = [jobs[e] EXCEPT ![j] = r] /\ \A x \in Endpoint : x # e => jobs'[x] = jobs[x]
  BY <1>2, <1>3
<1>5. jobs'[e] \in Seq(Job) /\ DOMAIN jobs'[e] = DOMAIN jobs[e] /\ jobs'[e][j] = r
      /\ \A i \in DOMAIN jobs[e] : i # j => jobs'[e][i] = jobs[e][i]
  BY <1>2, <1>3, <1>4
<1>6. jobs' \in [Endpoint -> Seq(Job)]
  BY <1>2, <1>3, <1>4, <1>5
<1>7. \A x \in Endpoint : /\ DOMAIN jobs'[x] = DOMAIN jobs[x]
                          /\ \A i \in DOMAIN jobs[x] :
                               /\ jobs'[x][i].by = jobs[x][i].by
                               /\ jobs'[x][i].narrowed = jobs[x][i].narrowed
                               /\ jobs[x][i].status # "running" =>
                                    jobs'[x][i].status = jobs[x][i].status
  BY <1>3, <1>4, <1>5
<1>8. Forward
  BY <1>1, <1>7 DEF Forward
<1>9. JobsOK'
  <2>. SUFFICES ASSUME NEW x \in Endpoint, NEW i \in DOMAIN jobs'[x]
                PROVE  req'[jobs'[x][i].by] = [state |-> "accepted", ep |-> x, job |-> i]
    BY DEF JobsOK
  <2>1. i \in DOMAIN jobs[x] /\ jobs'[x][i].by = jobs[x][i].by
    BY <1>7
  <2>2. req[jobs[x][i].by] = [state |-> "accepted", ep |-> x, job |-> i]
    BY <2>1 DEF IInv, JobsOK
  <2>. QED
    BY <1>1, <2>1, <2>2
<1>10. ASSUME NEW b \in Child
       PROVE  RequestOK(req[b], b)'
  <2>1. RequestOK(req[b], b)
    BY DEF IInv
  <2>. QED
    BY <1>1, <1>7, <2>1 DEF RequestOK
<1>. QED
  BY <1>1, <1>6, <1>8, <1>9, <1>10, AWXStep, Typed

-----------------------------------------------------------------------------
(* The invariant *)

LEMMA InitOK == Init => IInv
<1>. SUFFICES ASSUME Init PROVE IInv
  OBVIOUS
<1>1. /\ hook \in Hook /\ cache = Snapshot /\ pass = NoPass /\ vms = {} /\ conn = Home
      /\ jobs = [e \in Endpoint |-> <<>>] /\ req = [c \in Child |-> NoRequest]
      /\ overdue = {} /\ excused = {} /\ reported = [c \in Child |-> "none"] /\ edits = 0
  BY DEF Init
<1>2. PICK r \in BOOLEAN, f \in Facts, p \in {"none", "live"} :
        /\ f.ep \in {None, Home}
        /\ obj = [c \in Child |-> IF c # First \/ p = "none" THEN NoObject
                   ELSE [NoObject EXCEPT !.phase = "live", !.fin = TRUE,
                                         !.retain = r, !.facts = f]]
        /\ prov \in [Child -> {"none", "running", "ended"}]
        /\ p = "live" => prov[First] = f.job
  <2>1. CASE obj = [c \in Child |-> NoObject] /\ prov = [c \in Child |-> "none"]
    <3>1. NoFacts.ep = None
      BY DEF NoFacts
    <3>. QED
      BY <2>1, <3>1, EmptyTyped
  <2>2. ASSUME NEW r \in BOOLEAN, NEW f \in Facts, f.ep \in {None, Home},
               obj = [c \in Child |-> IF c # First THEN NoObject
                        ELSE [NoObject EXCEPT !.phase = "live", !.fin = TRUE,
                                              !.retain = r, !.facts = f]],
               prov = [c \in Child |-> IF c = First THEN f.job ELSE "none"]
        PROVE  \E x \in BOOLEAN, g \in Facts, p \in {"none", "live"} :
                 /\ g.ep \in {None, Home}
                 /\ obj = [c \in Child |-> IF c # First \/ p = "none" THEN NoObject
                            ELSE [NoObject EXCEPT !.phase = "live", !.fin = TRUE,
                                                  !.retain = x, !.facts = g]]
                 /\ prov \in [Child -> {"none", "running", "ended"}]
                 /\ p = "live" => prov[First] = g.job
    <3>1. f.job \in {"none", "running", "ended"} /\ First \in Child
      BY TeardownAssumption DEF Facts
    <3>2. /\ prov \in [Child -> {"none", "running", "ended"}] /\ prov[First] = f.job
      BY <2>2, <3>1
    <3>3. obj = [c \in Child |-> IF c # First \/ "live" = "none" THEN NoObject
                   ELSE [NoObject EXCEPT !.phase = "live", !.fin = TRUE,
                                         !.retain = r, !.facts = f]]
      BY <2>2
    <3>. QED
      BY <2>2, <3>2, <3>3
  <2>. QED
    BY <2>1, <2>2 DEF Init
<1>3. PICK o : o = [NoObject EXCEPT !.phase = "live", !.fin = TRUE, !.retain = r, !.facts = f]
  OBVIOUS
<1>4. /\ o \in Object /\ o.phase = "live" /\ o.fin /\ o.dep = NoDep /\ o.facts = f
  BY <1>3, EmptyTyped DEF NoObject, Object
<1>5. /\ obj \in [Child -> Object]
      /\ \A c \in Child : obj[c] = NoObject \/ (c = First /\ obj[c] = o /\ p = "live")
  <2>1. obj = [c \in Child |-> IF c # First \/ p = "none" THEN NoObject ELSE o]
    BY <1>2, <1>3
  <2>2. \A c \in Child : obj[c] = IF c # First \/ p = "none" THEN NoObject ELSE o
    BY <2>1
  <2>3. obj \in [Child -> Object]
    BY <1>4, <2>1, EmptyTyped
  <2>. QED
    BY <2>2, <2>3
<1>6. \A c \in Holders : c = First
  <2>1. NoObject.phase = "none"
    BY DEF NoObject
  <2>. QED
    BY <1>5, <2>1 DEF Holders
<1>7. OneHolder
  BY <1>6 DEF OneHolder
<1>8. cache \in Copy /\ CopyOK(cache)
  BY <1>1, <1>5, <1>7, SnapshotOK
<1>9. host \in [Endpoint -> Host]
  <2>1. PICK x \in {"none", "ours", "foreign", "hand"}, w \in Given :
          host = [e \in Endpoint |->
                   CASE e = Home /\ x = "none" -> NoHost
                     [] e = Home /\ x # "none" ->
                          [id |-> 1, owner |-> x, was |-> w, conn |-> w]
                     [] OTHER -> [NoHost EXCEPT !.id = 1, !.owner = "ours"]]
    BY DEF Init
  <2>2. w \in {"unset", "custom"}
    BY TeardownAssumption
  <2>3. [id |-> 1, owner |-> x, was |-> w, conn |-> w] \in Host
    BY <2>2 DEF Host, Connection
  <2>4. [NoHost EXCEPT !.id = 1, !.owner = "ours"] \in Host
    BY EmptyTyped DEF Host
  <2>5. \A e \in Endpoint : (CASE e = Home /\ x = "none" -> NoHost
                               [] e = Home /\ x # "none" ->
                                    [id |-> 1, owner |-> x, was |-> w, conn |-> w]
                               [] OTHER -> [NoHost EXCEPT !.id = 1, !.owner = "ours"]) \in Host
    BY <2>3, <2>4, EmptyTyped
  <2>. QED
    BY <2>1, <2>5
<1>10. TypeOK
  <2>1. jobs \in [Endpoint -> Seq(Job)]
    BY <1>1
  <2>. QED
    BY <1>1, <1>2, <1>5, <1>8, <1>9, <2>1, EmptyTyped, TeardownAssumption DEF TypeOK
<1>11. JobsOK
  BY <1>1 DEF JobsOK
<1>12. ASSUME NEW c \in Child
       PROVE  RequestOK(req[c], c) /\ ChildOK(c, obj[c])
  <2>1. req[c].state = "none"
    BY <1>1 DEF NoRequest
  <2>2. RequestOK(req[c], c)
    BY <2>1 DEF RequestOK
  <2>3. RecordOK(f, NoDep) /\ RecordOK(NoFacts, NoDep) /\ OwnRecord(c, NoDep)
    <3>1. RecordOK(f, NoDep)
      BY <1>2, TeardownAssumption DEF RecordOK, Within, NoDep
    <3>. QED
      BY <3>1, IdleOK, EmptyTyped DEF PassOK, OwnRecord
  <2>4. CASE obj[c] = NoObject
    <3>1. /\ NoObject.phase = "none" /\ ~NoObject.deleting /\ NoObject.facts = NoFacts
          /\ NoObject.dep = NoDep /\ NoFacts.job # "running"
      BY DEF NoObject, NoFacts
    <3>. QED
      BY <2>1, <2>2, <2>3, <2>4, <3>1 DEF ChildOK
  <2>5. CASE c = First /\ obj[c] = o /\ p = "live"
    BY <1>2, <1>4, <2>1, <2>2, <2>3, <2>5 DEF ChildOK
  <2>. QED
    BY <1>5, <2>4, <2>5
<1>. QED
  BY <1>1, <1>7, <1>8, <1>10, <1>11, <1>12, IdleOK DEF IInv

LEMMA PassStepOK == ASSUME IInv, PassStep PROVE IInv'
BY CleanupStep, ClockStep, ConnectStep, PollStep, DiscoverStep, GoneStep, LookupStep,
   SkippedStep, RunStep, LaunchStep, UnfitStep, PinStep, SubmitStep, AnsweredStep, LostStep,
   RestoreStep, DeleteStep, UndeletedStep, ReportedStep, ReleaseStep, HoldStep, StepFailsStep
   DEF PassStep

LEMMA NextOK == ASSUME IInv, [Next]_vars PROVE IInv'
<1>1. CASE PassStep
  BY <1>1, PassStepOK
<1>2. ASSUME NEW c \in Child,
             CreateChild(c) \/ DeleteChild(c) \/ SetPolicy(c) \/ Elapse(c)
               \/ AWXLaunch(c) \/ AWXRefuse(c) \/ ProvisioningEnds(c)
      PROVE  IInv'
  BY <1>2, CreatedStep, DeletedStep, PolicyStep, ElapseStep, AcceptStep, RefuseStep,
     ProvisioningStep
<1>3. ASSUME NEW v \in VM, VMGoes(v) PROVE IInv'
  BY <1>3, VMGoesStep
<1>4. ASSUME NEW e \in Endpoint, EditInventory(e) PROVE IInv'
  BY <1>4, InventoryStep
<1>5. ASSUME NEW e \in Endpoint, NEW j \in DOMAIN jobs[e], JobEnds(e, j) \/ PurgeJob(e, j)
      PROVE  IInv'
  BY <1>5, JobStep
<1>6. CASE SyncCache \/ Crash \/ Repoint
  BY <1>6, SyncStep, CrashStep, RepointStep
<1>7. CASE UNCHANGED vars
  <2>1. UNCHANGED <<hook, obj, cache, pass, jobs, req, excused, reported>>
        /\ UNCHANGED <<host, prov, vms, conn, overdue, edits>>
    BY <1>7 DEF vars
  <2>2. TypeOK'
    BY <2>1 DEF IInv, TypeOK
  <2>. QED
    BY <2>1, <2>2, QuietStep
<1>. QED
  BY <1>1, <1>2, <1>3, <1>4, <1>5, <1>6, <1>7 DEF Next

\* What the object, the copy, the pass and AWX say of a child's hook agrees,
\* whatever order crashes, lost answers, edits and replacements come in.
THEOREM Invariance == Spec => []IInv
<1>1. Init => IInv
  BY InitOK
<1>2. IInv /\ [Next]_vars => IInv'
  BY NextOK
<1>. QED
  BY <1>1, <1>2, PTL DEF Spec

-----------------------------------------------------------------------------
(* Results *)

\* The records of a child's status, of a pass and of AWX keep their types.
THEOREM HookTyped == Spec => []TypeOK
<1>1. IInv => TypeOK
  BY DEF IInv
<1>. QED
  BY <1>1, Invariance, PTL

\* submitDeprovisionHook and startHookClock: the record says Launching before
\* the request goes out, so no crash, lost answer or failed write makes a
\* second launch of a decommission playbook.
THEOREM LaunchedOnce == Spec => []HookLaunchedOnce
<1>1. IInv => HookLaunchedOnce
  <2>. SUFFICES ASSUME IInv, NEW c \in Child
                PROVE  Cardinality(HookJobs(c)) + (IF req[c].state = "sent" THEN 1 ELSE 0) <= 1
    BY DEF HookLaunchedOnce
  <2>1. PICK x : x = <<req[c].ep, req[c].job>>
    OBVIOUS
  <2>2. \A y \in HookJobs(c) : y = x /\ req[c].state = "accepted"
    <3>. SUFFICES ASSUME NEW y \in HookJobs(c) PROVE y = x /\ req[c].state = "accepted"
      OBVIOUS
    <3>1. PICK e \in Endpoint : y \in {<<e, j>> : j \in {i \in DOMAIN jobs[e] : jobs[e][i].by = c}}
      BY DEF HookJobs
    <3>2. PICK j \in DOMAIN jobs[e] : y = <<e, j>> /\ jobs[e][j].by = c
      BY <3>1
    <3>. QED
      BY <2>1, <3>2, JobTyped
  <2>3. CASE HookJobs(c) = {}
    BY <2>3, FS_EmptySet
  <2>4. CASE HookJobs(c) # {}
    <3>1. HookJobs(c) = {x} /\ req[c].state # "sent"
      BY <2>2, <2>4
    <3>2. Cardinality({x}) = 1
      BY FS_Singleton
    <3>. QED
      BY <3>1, <3>2
  <2>. QED
    BY <2>3, <2>4
<1>. QED
  BY <1>1, Invariance, PTL

\* pollDeprovisionJob and Written: however often the name was taken over, a
\* record of Succeeded is of a job that ended well, with the limit it was sent.
THEOREM SuccessEndedWell ==
    Spec => [](\A c \in Child : \A d \in Records(c) : d.phase = "Succeeded" => EndedWell(d))
<1>1. IInv => \A c \in Child : \A d \in Records(c) : d.phase = "Succeeded" => EndedWell(d)
  <2>. SUFFICES ASSUME IInv, NEW c \in Child, NEW d \in Records(c)
                PROVE  d.phase = "Succeeded" => EndedWell(d)
    OBVIOUS
  <2>1. d = obj[c].dep \/ d = pass.dep
    BY DEF Records
  <2>2. RecordOK(obj[c].facts, obj[c].dep) /\ RecordOK(pass.facts, pass.dep)
    BY PassIs DEF IInv, ChildOK
  <2>. QED
    BY <2>1, <2>2 DEF RecordOK
<1>. QED
  BY <1>1, Invariance, PTL

\* And where the name is taken over at most once, the job is the child's own:
\* a pass of the one before does not write its success onto the other.
THEOREM SuccessIsReal == Pair => (Spec => []HookSuccessIsReal)
<1>. SUFFICES ASSUME Pair PROVE Spec => []HookSuccessIsReal
  OBVIOUS
<1>1. IInv => HookSuccessIsReal
  <2>. SUFFICES ASSUME IInv, NEW c \in Child, NEW d \in Records(c), d.phase = "Succeeded"
                PROVE  EndedWell(d) /\ jobs[d.ep][d.job].by = c
    BY DEF HookSuccessIsReal
  <2>1. ChildOK(c, obj[c])
    BY DEF IInv
  <2>2. CASE d = obj[c].dep
    BY <2>1, <2>2 DEF ChildOK, RecordOK, OwnRecord
  <2>3. CASE pass.uid = c /\ d = pass.dep
    <3>1. pass.pc # "idle"
      BY <2>3, PassIs, EmptyTyped DEF InHand
    <3>. QED
      BY <2>3, <3>1, PassIs DEF PairOK, RecordOK, OwnRecord
  <2>. QED
    BY <2>2, <2>3 DEF Records
<1>. QED
  BY <1>1, Invariance, PTL

\* A status write leaves every object where it is.
LEMMA WrittenPhase ==
    ASSUME IInv, NEW d, NEW f, obj' = Written(d, f)
    PROVE  \A c \in Child : obj'[c].phase = obj[c].phase
<1>1. CASE obj' = obj
  BY <1>1
<1>2. CASE obj' # obj
  <2>1. obj' = [obj EXCEPT ![Holder].dep = d, ![Holder].facts = f]
    BY <1>2 DEF Written
  <2>. QED
    BY <2>1, Typed DEF Object
<1>. QED
  BY <1>1, <1>2

\* Only the release of the finalizer lets a terminating child go.
LEMMA LeavesBy ==
    ASSUME IInv, [Next]_vars, NEW c \in Child, Leaves(c)
    PROVE  ReleaseFinalizer
<1>1. obj[c].phase = "live" /\ obj'[c].phase = "gone" /\ obj[c].deleting
  BY DeletingLives DEF Leaves
<1>2. CASE PassStep
  <2>1. CASE \/ startHookClock \/ pollDeprovisionJob \/ LookupFails \/ runDeprovisionHook
             \/ launchDeprovisionHook \/ submitDeprovisionHook \/ LaunchAnswered \/ StillLost
             \/ DeleteHostFails \/ reportHookOutcome
    <3>1. obj' = obj \/ \E d, f : obj' = Written(d, f)
      BY <2>1 DEF startHookClock, pollDeprovisionJob, LookupFails, runDeprovisionHook,
         launchDeprovisionHook, submitDeprovisionHook, LaunchAnswered, StillLost,
         DeleteHostFails, reportHookOutcome, Persists
    <3>. QED
      BY <1>1, <3>1, WrittenPhase
  <2>2. CASE HoldFinalizer
    BY <1>1, <2>2, Typed DEF HoldFinalizer, Object
  <2>3. CASE \/ cleanupAnsibleBindingVM \/ Connect \/ discoverCleanupHost \/ InventoryGone
             \/ HookSkipped \/ TemplateUnfit \/ SetHostVariables \/ LaunchFails
             \/ RestoreHostVariable \/ RestoreFails \/ DeleteHost \/ StepFails
    <3>1. UNCHANGED obj
      BY <2>3 DEF cleanupAnsibleBindingVM, Connect, discoverCleanupHost, InventoryGone,
         HookSkipped, TemplateUnfit, SetHostVariables, LaunchFails, RestoreHostVariable,
         RestoreFails, DeleteHost, StepFails
    <3>. QED
      BY <1>1, <3>1
  <2>. QED
    BY <1>2, <2>1, <2>2, <2>3 DEF PassStep
<1>3. ASSUME NEW b \in Child, CreateChild(b) \/ DeleteChild(b) \/ SetPolicy(b)
      PROVE  FALSE
  <2>1. CASE CreateChild(b)
    BY <1>1, <2>1, Typed DEF CreateChild, Object
  <2>2. CASE DeleteChild(b)
    BY <1>1, <2>2, Typed DEF DeleteChild, Object
  <2>3. CASE SetPolicy(b)
    BY <1>1, <2>3, Typed DEF SetPolicy, Object
  <2>. QED
    BY <1>3, <2>1, <2>2, <2>3
<1>4. ASSUME NEW b \in Child,
             Elapse(b) \/ AWXLaunch(b) \/ AWXRefuse(b) \/ ProvisioningEnds(b)
      PROVE  FALSE
  BY <1>1, <1>4 DEF Elapse, AWXLaunch, AWXRefuse, ProvisioningEnds
<1>5. ~\E v \in VM : VMGoes(v)
  BY <1>1 DEF VMGoes
<1>6. ~\E e \in Endpoint : EditInventory(e)
  BY <1>1 DEF EditInventory
<1>7. ~\E e \in Endpoint : \E j \in DOMAIN jobs[e] : JobEnds(e, j) \/ PurgeJob(e, j)
  BY <1>1 DEF JobEnds, PurgeJob
<1>8. ~(SyncCache \/ Crash \/ Repoint) /\ ~UNCHANGED vars
  BY <1>1 DEF SyncCache, Crash, Repoint, vars
<1>. QED
  BY <1>2, <1>3, <1>4, <1>5, <1>6, <1>7, <1>8 DEF Next

\* cleanupAnsibleBindingVM and finishHookless: no release of a child with a
\* hook, nor of one that took its name over, is without an outcome reported.
THEOREM OutcomeBeforeRelease == Spec => ReleasedWithOutcome
<1>1. ASSUME IInv, [Next]_vars, NEW c \in Child, Leaves(c), hook # "none"
      PROVE  reported[c] \in Done
  <2>1. ReleaseFinalizer
    BY <1>1, LeavesBy
  <2>2. c \in Holders /\ obj[c].fin
    BY <1>1, DeletingLives DEF Leaves
  <2>3. pass.pc = "release"
    BY <2>1 DEF ReleaseFinalizer
  <2>. QED
    BY <1>1, <2>2, <2>3, PassIs DEF HeldOK
<1>2. IInv /\ [Next]_vars =>
        [\A c \in Child : Leaves(c) /\ hook # "none" => reported[c] \in Done]_vars
  BY <1>1
<1>. QED
  BY <1>2, Invariance, PTL DEF Spec, ReleasedWithOutcome

\* Of a child a pass on an instance is for, all on record is on that instance.
LEMMA OnRecordIs ==
    ASSUME IInv, pass.pc \in OnInstance, NEW o, o = obj[pass.uid]
    PROVE  Within(o.facts, o.dep, pass.ep) /\ (o.dep = NoDep \/ pass.uid \in Holders)
<1>1. pass.uid \in Child /\ pass.pc # "idle"
  BY InstanceIs DEF OnInstance, Launching
<1>2. ChildOK(pass.uid, o) /\ o.phase # "none" /\ o.phase \in {"none", "live", "gone"}
  BY <1>1, PassIs, Typed DEF IInv, HeldOK, Object
<1>3. CASE o.phase = "gone"
  <2>1. o.facts = NoFacts /\ o.dep = NoDep
    BY <1>2, <1>3 DEF ChildOK, NoObject
  <2>. QED
    BY <2>1 DEF Within, NoFacts, NoDep
<1>4. CASE o.phase = "live"
  BY <1>1, <1>4, PassIs DEF DurableOK, Holders
<1>. QED
  BY <1>2, <1>3, <1>4

\* Only a pass on an instance, or an edit, changes AWX's hosts, and only there.
LEMMA HostChangesBy ==
    ASSUME IInv, [Next]_vars, host' # host
    PROVE  \/ edits' # edits
           \/ /\ pass.pc \in OnInstance
              /\ \A e \in Endpoint : e # pass.ep => host'[e] = host[e]
<1>1. CASE PassStep
  <2>1. \/ SetHostVariables \/ RestoreHostVariable \/ RestoreFails \/ DeleteHost
        \/ DeleteHostFails
    BY <1>1 DEF PassStep, cleanupAnsibleBindingVM, startHookClock, Connect, pollDeprovisionJob,
       discoverCleanupHost, InventoryGone, LookupFails, HookSkipped, runDeprovisionHook,
       launchDeprovisionHook, TemplateUnfit, submitDeprovisionHook, LaunchAnswered, LaunchFails,
       StillLost, reportHookOutcome, ReleaseFinalizer, HoldFinalizer, StepFails, awxVars
  <2>2. pass.pc \in OnInstance
    BY <2>1 DEF SetHostVariables, RestoreHostVariable, RestoreFails, DeleteHost,
       DeleteHostFails, OnInstance, Launching
  <2>3. \/ host' = Deleted
        \/ \E v : host' = [host EXCEPT ![pass.ep].conn = v]
    BY <2>1 DEF SetHostVariables, RestoreHostVariable, RestoreFails, DeleteHost, DeleteHostFails
  <2>4. \A e \in Endpoint : e # pass.ep => host'[e] = host[e]
    BY <2>3, PassIs DEF Deleted
  <2>. QED
    BY <2>2, <2>4
<1>2. ASSUME NEW e \in Endpoint, EditInventory(e)
      PROVE  edits' # edits
  BY <1>2 DEF EditInventory, MayEdit, IInv, TypeOK
<1>3. ~\E c \in Child : \/ CreateChild(c) \/ DeleteChild(c) \/ SetPolicy(c) \/ Elapse(c)
                        \/ AWXLaunch(c) \/ AWXRefuse(c) \/ ProvisioningEnds(c)
  BY DEF CreateChild, DeleteChild, SetPolicy, Elapse, AWXLaunch, AWXRefuse, ProvisioningEnds,
     awxVars
<1>4. ~\E v \in VM : VMGoes(v)
  BY DEF VMGoes, awxVars
<1>5. ~\E e \in Endpoint : \E j \in DOMAIN jobs[e] : JobEnds(e, j) \/ PurgeJob(e, j)
  BY DEF JobEnds, PurgeJob
<1>6. ~(SyncCache \/ Crash \/ Repoint) /\ ~UNCHANGED vars
  BY DEF SyncCache, Crash, Repoint, vars, awxVars
<1>. QED
  BY <1>1, <1>2, <1>3, <1>4, <1>5, <1>6 DEF Next

\* Connect and recordedAWXEndpoint: whatever the connection was repointed to,
\* a pass alters hosts only where the records of its child are.
THEOREM OneInstance == Spec => StaysOnItsInstance
<1>1. ASSUME IInv, [Next]_vars, NEW e \in Endpoint, edits' = edits, host'[e] # host[e]
      PROVE  LET o == obj[pass.uid]
             IN  /\ o.facts.ep \in {None, e}
                 /\ o.dep.pinEp \in {None, e} /\ o.dep.ep \in {None, e}
  <2>1. PICK o : o = obj[pass.uid]
    OBVIOUS
  <2>2. pass.pc \in OnInstance /\ e = pass.ep
    BY <1>1, HostChangesBy
  <2>3. Within(o.facts, o.dep, e)
    BY <1>1, <2>1, <2>2, OnRecordIs
  <2>. QED
    BY <2>1, <2>3 DEF Within
<1>2. IInv /\ [Next]_vars =>
        [\A e \in Endpoint : pass.pc # "idle" /\ edits' = edits /\ host'[e] # host[e] =>
           LET o == obj[pass.uid]
           IN  /\ o.facts.ep \in {None, e}
               /\ o.dep.pinEp \in {None, e} /\ o.dep.ep \in {None, e}]_vars
  BY <1>1
<1>. QED
  BY <1>2, Invariance, PTL DEF Spec, StaysOnItsInstance

\* pollDeprovisionJob and finishHookless: the host is deleted only once the
\* hook's own job is over, overdue, or was reported as out of reach.
THEOREM HostGoesAfterHook == Pair => (Spec => HostOutlivesHook)
<1>. SUFFICES ASSUME Pair PROVE Spec => HostOutlivesHook
  OBVIOUS
<1>1. ASSUME IInv, pass.pc = "delete", NEW d, d = obj[pass.uid].dep,
             d.job # 0, jobs[d.ep][d.job].status = "running"
      PROVE  pass.uid \in overdue \cup excused
  <2>1. PICK o : o = obj[pass.uid]
    OBVIOUS
  <2>2. pass.pc \in OnInstance \ {"poll"}
    BY <1>1 DEF OnInstance
  <2>3. pass.uid \in Holders
    BY <1>1, <2>1, <2>2, OnRecordIs, EmptyTyped
  <2>4. d.phase \in Done \/ pass.uid \in overdue
    BY <1>1, <2>2, <2>3, PassIs DEF DurableOK
  <2>5. OwnRecord(pass.uid, d)
    BY <1>1, <2>3 DEF IInv, ChildOK, Holders
  <2>. QED
    BY <1>1, <2>4, <2>5 DEF OwnRecord
<1>2. IInv =>
        [pass.pc = "delete" /\ host' # host =>
           LET d == obj[pass.uid].dep
           IN  d.job # 0 /\ jobs[d.ep][d.job].status = "running" =>
                 pass.uid \in overdue \cup excused]_vars
  BY <1>1
<1>. QED
  BY <1>2, Invariance, PTL DEF HostOutlivesHook

\* A launch request goes out only by submitDeprovisionHook, for whom the pass is.
LEMMA SentBy ==
    ASSUME IInv, [Next]_vars, NEW c \in Child, req[c].state # "sent", req'[c].state = "sent"
    PROVE  submitDeprovisionHook /\ c = pass.uid
<1>1. req' # req /\ req \in [Child -> Request]
  BY Typed
<1>2. CASE PassStep
  <2>1. submitDeprovisionHook
    BY <1>1, <1>2 DEF PassStep, cleanupAnsibleBindingVM, startHookClock, Connect,
       pollDeprovisionJob, discoverCleanupHost, InventoryGone, LookupFails, HookSkipped,
       runDeprovisionHook, launchDeprovisionHook, TemplateUnfit, SetHostVariables,
       LaunchAnswered, LaunchFails, StillLost, RestoreHostVariable, RestoreFails, DeleteHost,
       DeleteHostFails, reportHookOutcome, ReleaseFinalizer, HoldFinalizer, StepFails, awxVars
  <2>2. req' = [req EXCEPT ![pass.uid] = [state |-> "sent", ep |-> pass.ep, job |-> 0]]
    BY <1>1, <2>1 DEF submitDeprovisionHook
  <2>. QED
    BY <1>1, <2>1, <2>2
<1>3. ASSUME NEW b \in Child, AWXLaunch(b) \/ AWXRefuse(b)
      PROVE  FALSE
  <2>1. CASE AWXRefuse(b)
    BY <1>1, <2>1 DEF AWXRefuse, Request
  <2>2. CASE AWXLaunch(b)
    BY <1>1, <2>2 DEF AWXLaunch, Request
  <2>. QED
    BY <1>3, <2>1, <2>2
<1>4. ~\E b \in Child : \/ CreateChild(b) \/ DeleteChild(b) \/ SetPolicy(b) \/ Elapse(b)
                        \/ ProvisioningEnds(b)
  BY <1>1 DEF CreateChild, DeleteChild, SetPolicy, Elapse, ProvisioningEnds, awxVars
<1>5. (~\E v \in VM : VMGoes(v)) /\ ~\E e \in Endpoint : EditInventory(e)
  BY <1>1 DEF VMGoes, EditInventory, awxVars
<1>6. ~\E e \in Endpoint : \E j \in DOMAIN jobs[e] : JobEnds(e, j) \/ PurgeJob(e, j)
  BY <1>1 DEF JobEnds, PurgeJob
<1>7. ~(SyncCache \/ Crash \/ Repoint) /\ ~UNCHANGED vars
  BY <1>1 DEF SyncCache, Crash, Repoint, vars, awxVars
<1>. QED
  BY <1>2, <1>3, <1>4, <1>5, <1>6, <1>7 DEF Next

\* runDeprovisionHook: a name nobody takes over is launched for only while its
\* child terminates, its VM is gone and its provisioning job is over.
THEOREM SafeToLaunch == Alone => (Spec => HookIsSafeToLaunch)
<1>. SUFFICES ASSUME Alone PROVE Spec => HookIsSafeToLaunch
  OBVIOUS
<1>1. ASSUME IInv, [Next]_vars, NEW c \in Child,
             req[c].state # "sent", req'[c].state = "sent"
      PROVE  /\ obj[c].deleting /\ vmIsGone(c)
             /\ obj[c].facts.job = "running" => prov[c] = "ended"
  <2>1. pass.pc = "submit" /\ c = pass.uid
    BY <1>1, SentBy DEF submitDeprovisionHook
  <2>2. pass.pc \in Launching /\ pass.pc \in AtWork /\ hook # "none"
    BY <1>1, <2>1, PassIs DEF Launching, AtWork, OnInstance, InHand
  <2>. QED
    BY <1>1, <2>1, <2>2, PassIs DEF AloneOK
<1>2. IInv /\ [Next]_vars =>
        [\A c \in Child : req[c].state # "sent" /\ req'[c].state = "sent" =>
           /\ obj[c].deleting /\ vmIsGone(c)
           /\ obj[c].facts.job = "running" => prov[c] = "ended"]_vars
  BY <1>1
<1>. QED
  BY <1>2, Invariance, PTL DEF Spec, HookIsSafeToLaunch

=============================================================================
