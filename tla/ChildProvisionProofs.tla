------------------------- MODULE ChildProvisionProofs -------------------------
(***************************************************************************)
(* Proofs about ChildProvision, for any requests, names, inventories and   *)
(* AWX instances, and any number of edits and faults.                      *)
(***************************************************************************)
EXTENDS ChildProvision, FiniteSetTheorems, TLAPS

-----------------------------------------------------------------------------
(* Data *)

\* Requests are numbers.
LEMMA Numbers ==
    /\ Request \subseteq Gen /\ Gen \subseteq Nat /\ 0 \in Gen /\ 1 \in Request
    /\ \A g \in Gen : g # 0 => g \in Request
    /\ \A g \in Request : g # 0 /\ (g < MaxGen => g + 1 \in Request)
    /\ Count \subseteq Nat /\ 0 \in Count /\ 0 \in Addr
BY ProvisionAssumption DEF Request, Gen, Count, Addr

\* No slot is none.
LEMMA SlotIs ==
    /\ NoSlot \notin Slot
    /\ \A s \in Slot \cup {NoSlot} : s[1] \in Inventory \cup {0}
    /\ \A i \in Inventory, n \in Name : <<i, n>> \in Slot
<1>1. 0 \notin Inventory
  BY ProvisionAssumption
<1>. QED
  BY <1>1 DEF Slot, NoSlot

\* What nothing looks like is of the right type.
LEMMA EmptyTyped ==
    /\ NoStatus \in Status /\ NoPass \in Pass /\ NoScan \in Scan /\ NoHost \in Host
    /\ NoPass.pc = "idle" /\ NoPass.st = NoStatus /\ NoScan.pc = "idle"
    /\ NoStatus.job = 0 /\ NoStatus.id = 0 /\ NoStatus.gen = 0 /\ NoStatus.phase = "none"
<1>1. NoStatus \in Status
  BY Numbers DEF NoStatus, Status
<1>2. NoPass \in Pass
  BY <1>1, Numbers DEF NoPass, Pass
<1>3. NoScan \in Scan /\ NoHost \in Host
  BY Numbers DEF NoScan, Scan, NoHost, Host, Owner
<1>. QED
  BY <1>1, <1>2, <1>3 DEF NoPass, NoStatus, NoScan

\* The slot a pass works in, once it has an inventory.
LEMMA TargetIs ==
    ASSUME NEW p \in Pass, p.gen # 0, p.inv # 0
    PROVE  targetSlot(p) \in Slot /\ targetSlot(p) # NoSlot
<1>1. p.gen \in Request /\ p.inv \in Inventory
  BY Numbers DEF Pass
<1>2. Want[p.gen].name \in Name
  BY <1>1, ProvisionAssumption DEF Request
<1>. QED
  BY <1>1, <1>2, SlotIs DEF targetSlot

\* What the types say.
LEMMA Typed ==
    ASSUME IInv
    PROVE  /\ obj \in Object /\ cache \in Object /\ pass \in Pass /\ reap \in Scan
           /\ conn \in Endpoint /\ tmpl \in [Endpoint -> Template]
           /\ tcache \in Template \cup {NoTemplate}
           /\ host \in [Endpoint -> [Slot -> Host]] /\ jobs \in [Endpoint -> Seq(Job)]
           /\ edits \in Nat /\ faults \in Nat /\ faults \in 0..MaxFaults
           /\ obj.st \in Status /\ cache.st \in Status /\ pass.st \in Status
           /\ obj.gen \in Request /\ cache.gen \in Request
           /\ obj.gen \in Nat /\ cache.gen \in Nat /\ pass.gen \in Nat
           /\ obj.st.gen \in Nat /\ cache.st.gen \in Nat /\ pass.st.gen \in Nat
<1>1. /\ obj \in Object /\ cache \in Object /\ pass \in Pass /\ reap \in Scan
      /\ conn \in Endpoint /\ tmpl \in [Endpoint -> Template]
      /\ tcache \in Template \cup {NoTemplate}
      /\ host \in [Endpoint -> [Slot -> Host]] /\ jobs \in [Endpoint -> Seq(Job)]
      /\ edits \in Count /\ faults \in 0..MaxFaults
  BY DEF IInv, TypeOK
<1>2. obj.st \in Status /\ cache.st \in Status /\ pass.st \in Status
      /\ obj.gen \in Request /\ cache.gen \in Request /\ pass.gen \in Gen
  BY <1>1 DEF Object, Pass
<1>3. obj.st.gen \in Gen /\ cache.st.gen \in Gen /\ pass.st.gen \in Gen
  BY <1>2 DEF Status
<1>4. edits \in Nat /\ faults \in Nat
  BY <1>1, Numbers
<1>. QED
  BY <1>1, <1>2, <1>3, <1>4, Numbers

-----------------------------------------------------------------------------
(* What it costs *)

LEMMA LaunchesCounted == ASSUME IInv PROVE Cardinality(Launches) \in Nat
BY FS_CardinalityType DEF IInv

LEMMA OwedIs == ASSUME NEW st, NEW g PROVE Owed(st, g) \in {0, 1} /\ (Owed(st, g) = 1 <=> needsRun(st, g))
BY DEF Owed

\* What was paid for an earlier request pays for a later one.
LEMMA PaidLater ==
    ASSUME NEW st, NEW g \in Nat, NEW h \in Nat, g <= h, Cardinality(Launches) \in Nat,
           faults \in Nat, Paid(st, g)
    PROVE  Paid(st, h)
<1>1. CASE g = h
  BY <1>1
<1>2. CASE g < h
  BY <1>2, OwedIs DEF Paid
<1>. QED
  BY <1>1, <1>2

\* A copy that lags is paid for by the fault it counts as.
LEMMA CopyPaid ==
    ASSUME IInv, pass.pc = "idle", (cache = obj /\ UNCHANGED faults) \/ Fault
    PROVE  Cardinality(Launches) + Owed(cache.st, cache.gen) <= cache.gen + faults'
<1>1. /\ Cardinality(Launches) \in Nat /\ faults \in Nat
      /\ cache.gen \in Nat /\ obj.gen \in Nat /\ obj.st.gen \in Nat
  BY LaunchesCounted, Typed
<1>2. Paid(obj.st, obj.gen) /\ cache.gen <= obj.gen /\ obj.gen <= cache.gen + 1
      /\ obj.st.gen <= cache.gen
  BY DEF IInv, StatusOK
<1>3. CASE cache = obj /\ UNCHANGED faults
  BY <1>2, <1>3 DEF Paid
<1>4. CASE Fault
  <2>1. faults' = faults + 1
    BY <1>4 DEF Fault
  <2>2. CASE obj.gen = cache.gen
    BY <1>1, <1>2, <2>1, <2>2, OwedIs DEF Paid
  <2>3. CASE obj.gen # cache.gen
    <3>1. needsRun(obj.st, obj.gen)
      BY <1>1, <1>2, <2>3 DEF needsRun
    <3>2. Owed(obj.st, obj.gen) = 1 /\ obj.gen = cache.gen + 1
      BY <1>1, <1>2, <2>3, <3>1, OwedIs
    <3>. QED
      BY <1>1, <1>2, <2>1, <3>2, OwedIs DEF Paid
  <2>. QED
    BY <2>2, <2>3
<1>. QED
  BY <1>3, <1>4

-----------------------------------------------------------------------------
(* Hosts and jobs move on *)

\* An id passes from a host to none, never to another.
HostMoves(e, s) ==
    /\ host'[e][s].id >= host[e][s].id
    /\ host'[e][s].id = host[e][s].id /\ Exists(host'[e][s]) =>
         Exists(host[e][s]) /\ host'[e][s].owner = host[e][s].owner

LEMMA MarkedKept ==
    ASSUME NEW e \in Endpoint, NEW s \in Slot, NEW id \in Nat, HostMoves(e, s), Marked(e, s, id),
           host \in [Endpoint -> [Slot -> Host]], host' \in [Endpoint -> [Slot -> Host]]
    PROVE  Marked(e, s, id)'
<1>1. host[e][s] \in Host /\ host'[e][s] \in Host
  OBVIOUS
<1>2. PICK i \in Nat, j \in Nat : i = host[e][s].id /\ j = host'[e][s].id
  BY <1>1 DEF Host
<1>3. j >= i /\ i >= id
  BY <1>2 DEF HostMoves, Marked
<1>4. j >= id /\ (j = id => i = id /\ j = i)
  BY <1>3
<1>. QED
  BY <1>2, <1>4, Zenon DEF HostMoves, Marked

\* The hosts a scan has in hand stay the binding's or go.
LEMMA ScanKept ==
    ASSUME IInv, UNCHANGED reap, host' \in [Endpoint -> [Slot -> Host]],
           \A e \in Endpoint, s \in Slot : HostMoves(e, s)
    PROVE  ScanOK'
<1>1. reap.pc # "idle" => reap.ep \in Endpoint /\ \A h \in reap.cand : Marked(reap.ep, h[1], h[2])
  BY DEF IInv, ScanOK
<1>2. \A h \in reap.cand : h[1] \in Slot /\ h[2] \in Nat
  BY Typed DEF Scan
<1>3. ASSUME NEW h \in reap.cand, reap.pc # "idle" PROVE Marked(reap.ep, h[1], h[2])'
  <2>1. PICK e \in Endpoint, s \in Slot, i \in Nat : e = reap.ep /\ s = h[1] /\ i = h[2]
    BY <1>1, <1>2, <1>3
  <2>2. Marked(e, s, i)'
    BY <1>1, <1>3, <2>1, MarkedKept, Typed
  <2>. QED
    BY <2>1, <2>2 DEF Marked
<1>. QED
  BY <1>1, <1>3 DEF ScanOK

\* A job is not forgotten, and its outcome stands.
JobsGrow ==
    \A e \in Endpoint : \A j \in DOMAIN jobs[e] :
      /\ j \in DOMAIN jobs'[e] /\ jobs'[e][j].gen = jobs[e][j].gen
      /\ isTerminalAWXStatus(jobs[e][j].status) => jobs'[e][j].status = jobs[e][j].status

LEMMA StatusKept ==
    ASSUME NEW st \in Status, StatusOK(st), JobsGrow, cache.gen \in Nat, cache'.gen \in Nat,
           cache.gen <= cache'.gen
    PROVE  StatusOK(st)'
<1>1. st.gen \in Nat
  BY Numbers DEF Status
<1>2. st.gen <= cache'.gen
  BY <1>1 DEF StatusOK
<1>. QED
  BY <1>2 DEF StatusOK, JobsGrow, Recorded

\* A status of the same run, and of a host as much on record.
LEMMA StatusLike ==
    ASSUME NEW st, NEW t, StatusOK(st), t.job = st.job, t.jobEp = st.jobEp,
           t.jobStatus = st.jobStatus, t.gen = st.gen,
           t.phase = "Succeeded" => st.phase = "Succeeded" \/ (st.job # 0 /\ st.jobStatus = "successful"),
           t.id # 0 => t.ep # None /\ t.slot # NoSlot
    PROVE  StatusOK(t)
BY DEF StatusOK, Recorded

-----------------------------------------------------------------------------
(* A pass goes on *)

\* The steps of a pass keep the invariant if what they leave of it is sound.
LEMMA PassMoves ==
    ASSUME IInv, NEW q \in Pass, pass' = q, UNCHANGED <<cache, reap, vm, conn, tmpl, edits>>,
           tcache' \in Template \cup {NoTemplate}, faults' \in 0..MaxFaults,
           NEW o \in Object, obj' = o, o.gen = obj.gen, StatusOK(o.st)',
           host' \in [Endpoint -> [Slot -> Host]],
           \A e \in Endpoint, s \in Slot : HostMoves(e, s),
           jobs' \in [Endpoint -> Seq(Job)], JobsGrow, IsFiniteSet(Launches'),
           StatusOK(q.st)', PassOK(q)', FreshOK(q)',
           q.pc # "finish" => Paid(o.st, o.gen)'
    PROVE  IInv'
<1>1. TypeOK'
  BY DEF IInv, TypeOK
<1>2. StatusOK(cache.st)'
  <2>1. PICK c \in Status : c = cache.st /\ StatusOK(c)
    BY Typed DEF IInv
  <2>2. StatusOK(c)'
    BY <2>1, StatusKept, Typed
  <2>. QED
    BY <2>1, <2>2 DEF StatusOK, Recorded
<1>3. StatusOK(obj.st)' /\ StatusOK(pass.st)'
  BY DEF StatusOK, Recorded
<1>4. PassOK(pass)' /\ FreshOK(pass)'
  BY DEF PassOK, FreshOK, Paid, Marked, targetSlot
<1>5. ScanOK'
  BY ScanKept
<1>6. pass'.pc # "finish" => Paid(obj.st, obj.gen)'
  BY DEF Paid
<1>7. cache'.gen <= obj'.gen /\ obj'.gen <= cache'.gen + 1
  BY DEF IInv
<1>. QED
  BY <1>1, <1>2, <1>3, <1>4, <1>5, <1>6, <1>7 DEF IInv

\* What a pass is for and what it found stay with it.
SameFrame(p, q) ==
    /\ q.gen = p.gen /\ q.was = p.was /\ q.wants = p.wants /\ q.fresh = p.fresh
    /\ q.ep = p.ep /\ q.inv = p.inv /\ q.edits = p.edits

LEMMA finishIs ==
    ASSUME NEW p \in Pass
    PROVE  /\ finish(p) \in Pass
           /\ \/ finish(p) = NoPass
              \/ finish(p).pc = "finish" /\ finish(p).st = p.st /\ SameFrame(p, finish(p))
<1>. DEFINE q == [p EXCEPT !.pc = "finish"]
<1>1. q \in Pass /\ q.pc = "finish" /\ q.st = p.st /\ SameFrame(p, q)
  BY DEF Pass, SameFrame
<1>2. finish(p) \in {q, NoPass}
  BY DEF finish
<1>. HIDE DEF q
<1>. QED
  BY <1>1, <1>2, EmptyTyped

LEMMA AfterHostIs ==
    ASSUME NEW p \in Pass
    PROVE  /\ AfterHost(p) \in Pass /\ SameFrame(p, AfterHost(p))
           /\ AfterHost(p).pc = IF p.wants THEN "launch" ELSE "finish"
           /\ AfterHost(p).st = [p.st EXCEPT !.checked = TRUE]
<1>. DEFINE c == IF p.wants THEN "launch" ELSE "finish"
            t == [p.st EXCEPT !.checked = TRUE]
<1>1. p.st \in Status
  BY DEF Pass
<1>2. t \in Status
  BY <1>1 DEF Status
<1>3. AfterHost(p) = [p EXCEPT !.st = t, !.pc = c]
  BY DEF AfterHost, Pass
<1>4. c \in {"launch", "finish"}
  OBVIOUS
<1>. HIDE DEF t, c
<1>5. /\ [p EXCEPT !.st = t, !.pc = c] \in Pass /\ SameFrame(p, [p EXCEPT !.st = t, !.pc = c])
      /\ [p EXCEPT !.st = t, !.pc = c].pc = c /\ [p EXCEPT !.st = t, !.pc = c].st = t
  BY <1>2, <1>4 DEF Pass, SameFrame
<1>. QED
  BY <1>3, <1>5 DEF t, c

\* Another status for the same run.
LEMMA CheckedIs ==
    ASSUME NEW st \in Status
    PROVE  LET t == [st EXCEPT !.checked = TRUE] IN
           /\ t \in Status /\ t.job = st.job /\ t.jobEp = st.jobEp /\ t.jobStatus = st.jobStatus
           /\ t.gen = st.gen /\ t.phase = st.phase /\ t.id = st.id /\ t.ep = st.ep /\ t.slot = st.slot
BY DEF Status

LEMMA TowardsHostIs ==
    ASSUME NEW p \in Pass
    PROVE  /\ TowardsHost(p) \in Pass /\ SameFrame(p, TowardsHost(p))
           /\ TowardsHost(p).st \in {p.st, [p.st EXCEPT !.checked = TRUE]}
           /\ \/ p.inv = 0 /\ TowardsHost(p).pc = IF p.wants THEN "launch" ELSE "finish"
              \/ p.inv # 0 /\ p.st.id = 0 /\ TowardsHost(p).pc = "intent"
              \/ p.inv # 0 /\ p.st.id # 0 /\ TowardsHost(p).pc = "upsert"
<1>. DEFINE a == [p EXCEPT !.pc = "intent"]
            b == [p EXCEPT !.pc = "upsert"]
<1>1. a \in Pass /\ SameFrame(p, a) /\ a.pc = "intent" /\ a.st = p.st
  BY DEF Pass, SameFrame
<1>2. b \in Pass /\ SameFrame(p, b) /\ b.pc = "upsert" /\ b.st = p.st
  BY DEF Pass, SameFrame
<1>3. \/ p.inv = 0 /\ TowardsHost(p) = AfterHost(p)
      \/ p.inv # 0 /\ p.st.id = 0 /\ TowardsHost(p) = a
      \/ p.inv # 0 /\ p.st.id # 0 /\ TowardsHost(p) = b
  BY DEF TowardsHost
<1>. HIDE DEF a, b
<1>. QED
  BY <1>1, <1>2, <1>3, AfterHostIs

-----------------------------------------------------------------------------
(* A pass: its decisions *)

\* What stays as it was.
LEMMA HostsUnmoved ==
    ASSUME IInv, UNCHANGED host
    PROVE  host' \in [Endpoint -> [Slot -> Host]] /\ \A e \in Endpoint, s \in Slot : HostMoves(e, s)
<1>1. \A e \in Endpoint, s \in Slot : host[e][s].id \in Nat
  BY Typed DEF Host
<1>. QED
  BY <1>1, Typed DEF HostMoves

LEMMA JobsUnmoved ==
    ASSUME IInv, UNCHANGED jobs
    PROVE  /\ jobs' \in [Endpoint -> Seq(Job)] /\ JobsGrow /\ Launches' = Launches
           /\ IsFiniteSet(Launches') /\ Cardinality(Launches) \in Nat
BY Typed, LaunchesCounted DEF JobsGrow, Launches, IInv

LEMMA FaultsCounted ==
    ASSUME IInv, UNCHANGED faults \/ Fault
    PROVE  faults' \in 0..MaxFaults /\ faults <= faults' /\ faults' \in Nat
BY Typed, ProvisionAssumption DEF Fault, MayFail

\* What was paid stays so while nothing is launched.
LEMMA PaidKept ==
    ASSUME IInv, NEW st, NEW g \in Nat, Paid(st, g), UNCHANGED jobs, UNCHANGED faults \/ Fault
    PROVE  Paid(st, g)'
<1>1. Launches' = Launches /\ Cardinality(Launches) \in Nat /\ Cardinality(Launches') = Cardinality(Launches)
  BY JobsUnmoved
<1>2. Owed(st, g)' = Owed(st, g) /\ Owed(st, g) \in {0, 1}
  BY OwedIs DEF Owed, needsRun
<1>. QED
  BY <1>1, <1>2, FaultsCounted, Typed DEF Paid

\* What a copy or the API server has stays sound while no job moves and the copy
\* does not.
LEMMA StatusesKept ==
    ASSUME IInv, NEW st \in Status, StatusOK(st), UNCHANGED <<jobs, cache>>
    PROVE  StatusOK(st)'
BY JobsUnmoved, StatusKept, Typed

\* A pass ends, with or without something to write, and the child's status stands.
LEMMA PassEndsWith ==
    ASSUME IInv, NEW p \in Pass, pass' = finish(p), NEW o \in Object, obj' = o, o.gen = obj.gen,
           StatusOK(o.st)', Paid(o.st, o.gen)',
           UNCHANGED <<cache, reap, vm, conn, tmpl, edits, jobs>>,
           tcache' \in Template \cup {NoTemplate}, UNCHANGED faults \/ Fault,
           host' \in [Endpoint -> [Slot -> Host]],
           \A e \in Endpoint, s \in Slot : HostMoves(e, s),
           p.gen # 0, p.gen <= cache.gen, StatusOK(p.st), Paid(p.st, p.gen)'
    PROVE  IInv'
<1>1. PICK q \in Pass : /\ q = finish(p)
                        /\ q = NoPass \/ (q.pc = "finish" /\ q.st = p.st /\ SameFrame(p, q))
  BY finishIs
<1>4. p.st \in Status
  BY DEF Pass
<1>5. CASE q = NoPass
  <2>1. q.pc = "idle" /\ q.st = NoStatus
    BY <1>5, EmptyTyped
  <2>2. StatusOK(q.st)'
    BY <2>1, EmptyTyped, Typed DEF StatusOK
  <2>3. PassOK(q)' /\ FreshOK(q)'
    BY <2>1 DEF PassOK, FreshOK
  <2>. QED
    BY <1>1, <2>2, <2>3, JobsUnmoved, FaultsCounted, PassMoves
<1>6. CASE q.pc = "finish" /\ q.st = p.st /\ SameFrame(p, q)
  <2>1. StatusOK(q.st)'
    <3>1. StatusOK(p.st)'
      BY <1>4, StatusesKept
    <3>. QED
      BY <1>6, <3>1
  <2>2. PassOK(q)' /\ FreshOK(q)'
    BY <1>6 DEF PassOK, FreshOK, SameFrame
  <2>. QED
    BY <1>1, <1>6, <2>1, <2>2, JobsUnmoved, FaultsCounted, PassMoves
<1>. QED
  BY <1>1, <1>5, <1>6

\* The child's status as it stands, while nothing is launched.
LEMMA Unwritten ==
    ASSUME IInv, pass.pc # "finish", UNCHANGED <<obj, cache, jobs>>, UNCHANGED faults \/ Fault
    PROVE  \E o \in Object : /\ o = obj /\ obj' = o /\ o.gen = obj.gen
                             /\ StatusOK(o.st)' /\ Paid(o.st, o.gen)'
<1>1. PICK o \in Object : o = obj
  BY Typed
<1>2. StatusOK(o.st) /\ Paid(o.st, o.gen) /\ o.st \in Status /\ o.gen \in Nat
  BY <1>1, Typed DEF IInv
<1>3. StatusOK(o.st)' /\ Paid(o.st, o.gen)'
  BY <1>2, StatusesKept, PaidKept
<1>. QED
  BY <1>1, <1>3

\* A pass that has written nothing yet ends.
LEMMA PassEnds ==
    ASSUME IInv, NEW p \in Pass, pass' = finish(p),
           UNCHANGED <<obj, cache, reap, vm, conn, tmpl, edits, jobs>>,
           tcache' \in Template \cup {NoTemplate}, UNCHANGED faults \/ Fault,
           host' \in [Endpoint -> [Slot -> Host]],
           \A e \in Endpoint, s \in Slot : HostMoves(e, s),
           pass.pc # "finish", p.gen # 0, p.gen <= cache.gen, StatusOK(p.st), Paid(p.st, p.gen)'
    PROVE  IInv'
BY Unwritten, PassEndsWith

\* A pass that has its template, and what it may go by.
Resolved(p) ==
    /\ p.gen # 0 /\ p.gen <= cache.gen /\ Paid(p.st, p.gen) /\ StatusOK(p.st)
    /\ p.wants = needsRun(p.st, p.gen)
    /\ p.ep \in Endpoint /\ p.st.ep = p.ep /\ p.edits <= edits
    /\ p.wants /\ p.edits = edits /\ ~Want[p.gen].wide /\ p.inv # 0 => tmpl[p.ep].ask

\* Such a pass goes on towards its host.
LEMMA PassTowards ==
    ASSUME IInv, NEW p \in Pass, Resolved(p), pass' = TowardsHost(p),
           UNCHANGED <<obj, cache, reap, vm, conn, tmpl, edits, jobs, faults>>,
           tcache' \in Template \cup {NoTemplate}, host' \in [Endpoint -> [Slot -> Host]],
           \A e \in Endpoint, s \in Slot : HostMoves(e, s), pass.pc # "finish",
           p.fresh => obj.st = p.was,
           p.fresh /\ p.inv # 0 /\ p.st.id # 0 => obj.st.ep = p.ep /\ obj.st.slot = targetSlot(p)
    PROVE  IInv'
<1>1. PICK q \in Pass :
             /\ q = TowardsHost(p) /\ SameFrame(p, q)
             /\ q.st \in {p.st, [p.st EXCEPT !.checked = TRUE]}
             /\ \/ p.inv = 0 /\ q.pc = IF p.wants THEN "launch" ELSE "finish"
                \/ p.inv # 0 /\ p.st.id = 0 /\ q.pc = "intent"
                \/ p.inv # 0 /\ p.st.id # 0 /\ q.pc = "upsert"
  BY TowardsHostIs
<1>2. PICK o \in Object : o = obj /\ StatusOK(o.st)' /\ Paid(o.st, o.gen)'
  BY Unwritten
<1>4. p.st \in Status /\ q.st \in Status /\ p.gen \in Nat
  BY <1>1, Numbers DEF Pass
<1>5. /\ q.st.job = p.st.job /\ q.st.jobEp = p.st.jobEp /\ q.st.jobStatus = p.st.jobStatus
      /\ q.st.gen = p.st.gen /\ q.st.phase = p.st.phase /\ q.st.id = p.st.id
      /\ q.st.ep = p.st.ep /\ q.st.slot = p.st.slot
  BY <1>1, <1>4, CheckedIs
<1>6. StatusOK(q.st)
  <2>1. p.st.id # 0 => p.st.ep # None /\ p.st.slot # NoSlot
    BY DEF Resolved, StatusOK
  <2>. QED
    BY <1>5, <2>1, StatusLike DEF Resolved
<1>7. StatusOK(q.st)'
  BY <1>4, <1>6, StatusesKept
<1>8. Paid(q.st, q.gen)'
  <2>1. Paid(p.st, p.gen)'
    BY <1>4, PaidKept DEF Resolved
  <2>. QED
    BY <1>1, <1>5, <2>1 DEF Paid, Owed, needsRun, SameFrame
<1>9. PassOK(q)'
  BY <1>1, <1>5, <1>8 DEF PassOK, Resolved, SameFrame, needsRun
<1>10. FreshOK(q)'
  BY <1>1 DEF FreshOK, SameFrame, targetSlot
<1>. QED
  BY <1>1, <1>2, <1>7, <1>9, <1>10, JobsUnmoved, FaultsCounted, PassMoves

\* A step that only takes a pass further.
LEMMA PassTurns ==
    ASSUME IInv, NEW q \in Pass, pass' = q, pass.pc # "finish",
           UNCHANGED <<obj, cache, reap, vm, conn, tmpl, edits, host, jobs>>,
           tcache' \in Template \cup {NoTemplate}, UNCHANGED faults \/ Fault,
           StatusOK(q.st), PassOK(q)', FreshOK(q)'
    PROVE  IInv'
<1>1. PICK o \in Object : o = obj /\ StatusOK(o.st)' /\ Paid(o.st, o.gen)'
  BY Unwritten
<1>3. StatusOK(q.st)'
  <2>1. q.st \in Status
    BY DEF Pass
  <2>. QED
    BY <2>1, StatusesKept
<1>. QED
  BY <1>1, <1>3, HostsUnmoved, JobsUnmoved, FaultsCounted, PassMoves

\* The phase that goes with a recorded job.
LEMMA PhaseIs ==
    ASSUME NEW x
    PROVE  /\ mapAWXStatus(x) \in {"none", "Pending", "Running", "Succeeded", "Failed"}
           /\ mapAWXStatus(x) = "Succeeded" => x = "successful"
BY DEF mapAWXStatus

\* A pass starts from a copy of the child and from the VM as it is.
LEMMA StartedIs ==
    ASSUME IInv, NEW due \in BOOLEAN
    PROVE  LET p == Started(due) IN
           /\ p \in Pass /\ p.gen = cache.gen /\ p.was = cache.st /\ p.fresh = (cache = obj)
           /\ p.wants = needsRun(p.st, p.gen)
           /\ p.st.job = cache.st.job /\ p.st.gen = cache.st.gen
           /\ p.st.ep = p.was.ep /\ p.st.slot = p.was.slot /\ p.st.id = p.was.id
           /\ StatusOK(p.st)
<1>. DEFINE a == IF vm.state = "on" THEN vm.addr ELSE 0
            f == IF cache.st.job # 0 THEN mapAWXStatus(cache.st.jobStatus) ELSE cache.st.phase
            st == [cache.st EXCEPT !.addr = a, !.phase = f]
            p == Started(due)
<1>1. cache.st \in Status /\ cache.gen \in Gen /\ StatusOK(cache.st)
  BY Typed, Numbers DEF IInv
<1>2. a \in Addr
  <2>1. vm.addr \in 1..2
    BY DEF IInv, TypeOK
  <2>. QED
    BY <2>1 DEF Addr
<1>3. f \in {"none", "Pending", "Running", "Succeeded", "Failed"}
      /\ (f = "Succeeded" => cache.st.phase = "Succeeded" \/ (cache.st.job # 0 /\ cache.st.jobStatus = "successful"))
  BY <1>1, PhaseIs DEF Status
<1>. HIDE DEF a, f
<1>4. /\ st \in Status /\ st.job = cache.st.job /\ st.jobEp = cache.st.jobEp
      /\ st.jobStatus = cache.st.jobStatus /\ st.gen = cache.st.gen /\ st.phase = f
      /\ st.ep = cache.st.ep /\ st.slot = cache.st.slot /\ st.id = cache.st.id
  BY <1>1, <1>2, <1>3 DEF Status
<1>5. p = [NoPass EXCEPT !.gen = cache.gen, !.was = cache.st, !.st = st,
             !.ready = vm.state = "on", !.addr = a, !.due = due,
             !.wants = needsRun(cache.st, cache.gen), !.fresh = cache = obj]
  BY DEF Started, a, f
<1>. HIDE DEF st, p
<1>6. PICK r \in BOOLEAN, w \in BOOLEAN, k \in BOOLEAN :
             r = (vm.state = "on") /\ w = needsRun(cache.st, cache.gen) /\ k = (cache = obj)
  BY Zenon DEF needsRun
<1>a. p = [NoPass EXCEPT !.gen = cache.gen, !.was = cache.st, !.st = st,
             !.ready = r, !.addr = a, !.due = due, !.wants = w, !.fresh = k]
  BY <1>5, <1>6, Zenon
<1>b. /\ p \in Pass /\ p.gen = cache.gen /\ p.was = cache.st /\ p.st = st
      /\ p.fresh = k /\ p.wants = w
  <2>1. p = [pc |-> "idle", gen |-> cache.gen, was |-> cache.st, st |-> st, ready |-> r,
             addr |-> a, wants |-> w, due |-> due, ep |-> None, inv |-> 0, edits |-> 0,
             fresh |-> k]
    BY <1>a DEF NoPass
  <2>. QED
    BY <1>1, <1>2, <1>4, <2>1, Numbers DEF Pass
<1>7. /\ p \in Pass /\ p.gen = cache.gen /\ p.was = cache.st /\ p.st = st
      /\ p.fresh = (cache = obj) /\ p.wants = needsRun(cache.st, cache.gen)
  BY <1>b, <1>6, Zenon
<1>8. needsRun(st, cache.gen) = needsRun(cache.st, cache.gen)
  BY <1>4 DEF needsRun
<1>9. StatusOK(st)
  <2>1. cache.st.id # 0 => cache.st.ep # None /\ cache.st.slot # NoSlot
    BY <1>1 DEF StatusOK
  <2>. QED
    BY <1>1, <1>3, <1>4, <2>1, StatusLike
<1>. QED
  BY <1>4, <1>7, <1>8, <1>9 DEF p

LEMMA applyAnsibleBindingVMOK ==
    ASSUME IInv, NEW due \in BOOLEAN, applyAnsibleBindingVM(due) PROVE IInv'
<1>1. PICK p \in Pass :
        /\ p = Started(due) /\ p.gen = cache.gen /\ p.was = cache.st /\ p.fresh = (cache = obj)
        /\ p.wants = needsRun(p.st, p.gen)
        /\ p.st.job = cache.st.job /\ p.st.gen = cache.st.gen
        /\ p.st.ep = p.was.ep /\ p.st.slot = p.was.slot /\ p.st.id = p.was.id
        /\ StatusOK(p.st)
  BY StartedIs
<1>. DEFINE polling == [p EXCEPT !.pc = "poll"]
            resting == [p EXCEPT !.st = NotReady(p.st)]
            going == [p EXCEPT !.pc = "connect"]
<1>2. /\ pass.pc = "idle"
      /\ \/ cache = obj /\ UNCHANGED faults
         \/ Fault
      /\ UNCHANGED <<obj, cache, reap, envVars, tcache, host, jobs>>
      /\ \/ pass' = polling /\ InFlight(p.st)
         \/ pass' \in {finish(resting), finish(p), going}
  BY <1>1 DEF applyAnsibleBindingVM
<1>3. UNCHANGED faults \/ Fault
  BY <1>2
<1>4. UNCHANGED <<obj, cache, reap, vm, conn, tmpl, edits, host, jobs>>
      /\ tcache' \in Template \cup {NoTemplate}
  BY <1>2, Typed DEF envVars
<1>5. p.st \in Status /\ p.gen \in Request /\ p.gen # 0 /\ p.gen <= cache.gen
  BY <1>1, Typed, Numbers DEF Pass
<1>6. Paid(p.st, p.gen)'
  <2>1. Cardinality(Launches) + Owed(cache.st, cache.gen) <= cache.gen + faults'
    BY <1>2, CopyPaid
  <2>2. Owed(p.st, p.gen)' = Owed(cache.st, cache.gen)
    BY <1>1 DEF Owed, needsRun
  <2>. QED
    BY <1>1, <1>2, <2>1, <2>2, JobsUnmoved DEF Paid
<1>7. ASSUME NEW q \in Pass, pass' = q, q.st = p.st, SameFrame(p, q),
             \/ q.pc = "poll" /\ InFlight(p.st)
             \/ q.pc = "connect"
      PROVE  IInv'
  <2>1. PassOK(q)'
    BY <1>1, <1>4, <1>5, <1>6, <1>7 DEF PassOK, SameFrame, InFlight, Paid, Owed, needsRun
  <2>2. FreshOK(q)'
    BY <1>1, <1>4, <1>7 DEF FreshOK, SameFrame
  <2>. QED
    BY <1>1, <1>2, <1>3, <1>4, <1>7, <2>1, <2>2, PassTurns
<1>8. CASE pass' = polling /\ InFlight(p.st)
  <2>1. polling \in Pass /\ polling.st = p.st /\ SameFrame(p, polling) /\ polling.pc = "poll"
    BY DEF Pass, SameFrame
  <2>. QED
    BY <1>7, <1>8, <2>1
<1>9. CASE pass' = going
  <2>1. going \in Pass /\ going.st = p.st /\ SameFrame(p, going) /\ going.pc = "connect"
    BY DEF Pass, SameFrame
  <2>. QED
    BY <1>7, <1>9, <2>1
<1>10. CASE pass' = finish(p)
  BY <1>1, <1>2, <1>3, <1>4, <1>5, <1>6, <1>10, HostsUnmoved, PassEnds
<1>11. CASE pass' = finish(resting)
  <2>. DEFINE t == NotReady(p.st)
  <2>1. /\ t \in Status /\ t.job = p.st.job /\ t.jobEp = p.st.jobEp /\ t.jobStatus = p.st.jobStatus
        /\ t.gen = p.st.gen /\ t.id = p.st.id /\ t.ep = p.st.ep /\ t.slot = p.st.slot
        /\ t.phase = "Succeeded" => p.st.phase = "Succeeded"
    BY <1>5 DEF NotReady, Status
  <2>. HIDE DEF t
  <2>2. resting \in Pass /\ resting.gen = p.gen /\ resting.st = t
    BY <2>1 DEF Pass, t
  <2>. HIDE DEF resting
  <2>3. StatusOK(t)
    <3>1. p.st.id # 0 => p.st.ep # None /\ p.st.slot # NoSlot
      BY <1>1 DEF StatusOK
    <3>. QED
      BY <1>1, <2>1, <3>1, StatusLike
  <2>4. PICK r \in Pass : r = resting /\ r.gen = p.gen /\ r.st = t
    BY <2>2
  <2>5. Paid(r.st, r.gen)'
    BY <1>6, <2>1, <2>4 DEF Paid, Owed, needsRun
  <2>. QED
    BY <1>2, <1>3, <1>4, <1>5, <1>11, <2>3, <2>4, <2>5, HostsUnmoved, PassEnds
<1>. QED
  BY <1>2, <1>8, <1>9, <1>10, <1>11

\* What holds of a pass under way.
Sound(p) ==
    /\ p.st \in Status /\ StatusOK(p.st) /\ Paid(p.st, p.gen) /\ PassOK(p) /\ FreshOK(p)
    /\ p.gen \in Request /\ p.gen \in Nat /\ p.gen # 0 /\ p.gen <= cache.gen

LEMMA UnderWay ==
    ASSUME IInv, pass.pc # "idle"
    PROVE  \E p \in Pass : p = pass /\ Sound(p)
<1>1. pass \in Pass /\ pass.st \in Status /\ pass.gen \in Gen
  BY Typed DEF Pass
<1>. QED
  BY <1>1, Numbers DEF IInv, PassOK, Sound

\* What is owed is a matter of the job and the request on record.
LEMMA PaidLike ==
    ASSUME IInv, NEW u, NEW t, NEW g \in Nat, t.job = u.job, t.gen = u.gen, Paid(u, g),
           UNCHANGED jobs, UNCHANGED faults \/ Fault
    PROVE  Paid(t, g)'
<1>1. Paid(t, g)
  BY DEF Paid, Owed, needsRun
<1>. QED
  BY <1>1, PaidKept

\* The answer about a job on record is written down as it is.
LEMMA pollRecordedJobOK == ASSUME IInv, pollRecordedJob PROVE IInv'
<1>1. pass.pc = "poll" /\ UNCHANGED <<obj, cache, reap, envVars, tcache, host, jobs, faults>>
  BY DEF pollRecordedJob
<1>2. PICK p \in Pass : p = pass /\ Sound(p)
  BY <1>1, UnderWay
<1>3. p.st.job # 0 /\ p.st.jobEp \in Endpoint /\ p.st.job \in DOMAIN jobs[p.st.jobEp]
  BY <1>1, <1>2 DEF PassOK, StatusOK, Sound
<1>4. PICK s \in {"pending", "successful", "failed"} : s = Recorded(p.st).status
  <2>1. jobs[p.st.jobEp] \in Seq(Job)
    BY <1>3, Typed
  <2>2. Recorded(p.st) \in Job
    BY <1>3, <2>1 DEF Recorded
  <2>. QED
    BY <2>2 DEF Job
<1>. DEFINE t == [p.st EXCEPT !.jobStatus = s, !.phase = mapAWXStatus(s)]
            q == [p EXCEPT !.st = t]
            going == [q EXCEPT !.pc = "connect"]
<1>5. /\ t \in Status /\ t.job = p.st.job /\ t.jobEp = p.st.jobEp /\ t.jobStatus = s
      /\ t.gen = p.st.gen /\ t.phase = mapAWXStatus(s)
      /\ t.id = p.st.id /\ t.ep = p.st.ep /\ t.slot = p.st.slot
  BY <1>2, <1>4, PhaseIs DEF Status, Sound
<1>6. q = [p EXCEPT !.st.jobStatus = s, !.st.phase = mapAWXStatus(s)]
  BY DEF Pass
<1>7. pass' \in {going, finish(q)}
  BY <1>2, <1>4, <1>6 DEF pollRecordedJob
<1>. HIDE DEF t
<1>8. q \in Pass /\ q.st = t /\ SameFrame(p, q)
  BY <1>5 DEF Pass, SameFrame
<1>9. going \in Pass /\ going.pc = "connect" /\ going.st = t /\ SameFrame(p, going)
  BY <1>5 DEF Pass, SameFrame
<1>. HIDE DEF q, going
<1>10. StatusOK(t)
  <2>1. Recorded(t) = Recorded(p.st)
    BY <1>5 DEF Recorded
  <2>. QED
    BY <1>2, <1>3, <1>4, <1>5, <2>1, PhaseIs DEF StatusOK, Sound
<1>11. UNCHANGED <<obj, cache, reap, vm, conn, tmpl, edits, host, jobs>>
      /\ tcache' \in Template \cup {NoTemplate}
  BY <1>1, Typed DEF envVars
<1>12. Paid(t, p.gen)'
  BY <1>1, <1>2, <1>5, PaidLike DEF Sound
<1>13. CASE pass' = finish(q)
  <2>1. PICK r \in Pass : r = q /\ r.st = t /\ r.gen = p.gen
    BY <1>8 DEF SameFrame
  <2>. QED
    BY <1>1, <1>2, <1>10, <1>11, <1>12, <1>13, <2>1, HostsUnmoved, PassEnds DEF Sound
<1>14. CASE pass' = going
  <2>1. PICK r \in Pass : r = going /\ r.pc = "connect" /\ r.st = t /\ SameFrame(p, r)
    BY <1>9
  <2>2. PassOK(r)'
    BY <1>1, <1>2, <1>5, <1>11, <1>12, <2>1 DEF PassOK, SameFrame, Sound, needsRun
  <2>3. FreshOK(r)'
    BY <1>1, <1>2, <1>11, <2>1 DEF FreshOK, SameFrame, Sound
  <2>. QED
    BY <1>1, <1>10, <1>11, <1>14, <2>1, <2>2, <2>3, PassTurns
<1>. QED
  BY <1>7, <1>13, <1>14

-----------------------------------------------------------------------------
(* A pass: the connection and the host *)

\* A pass that errs or has nothing more to do, as it stands.
LEMMA PassStops ==
    ASSUME IInv, pass.pc \notin {"idle", "finish"}, pass' = finish(pass),
           UNCHANGED <<obj, cache, reap, envVars, tcache, jobs>>, UNCHANGED faults \/ Fault,
           host' \in [Endpoint -> [Slot -> Host]], \A e \in Endpoint, s \in Slot : HostMoves(e, s)
    PROVE  IInv'
<1>1. PICK p \in Pass : p = pass /\ Sound(p)
  BY UnderWay
<1>2. Paid(p.st, p.gen)'
  BY <1>1, PaidLike DEF Sound
<1>. QED
  BY <1>1, <1>2, PassEnds, Typed DEF envVars, Sound

\* What was recorded on another instance is not carried over.
LEMMA OnInstanceIs ==
    ASSUME NEW st \in Status, NEW e \in Endpoint
    PROVE  LET t == OnInstance(st, e) IN
           /\ t \in Status /\ t.job = st.job /\ t.jobEp = st.jobEp /\ t.jobStatus = st.jobStatus
           /\ t.gen = st.gen /\ t.phase = st.phase /\ t.ep = e
           /\ t.id # 0 => t.id = st.id /\ t.slot = st.slot /\ st.ep \in {None, e}
BY DEF OnInstance, Status

\* The template that counts for a launch is AWX's.
LEMMA ResolvedIs ==
    ASSUME IInv, NEW w \in BOOLEAN
    PROVE  ResolvedTemplate(w) \in Template /\ (w => ResolvedTemplate(w) = tmpl[conn])
<1>1. tmpl[conn] \in Template
  BY Typed
<1>. QED
  BY <1>1, Typed DEF ResolvedTemplate

LEMMA ConnectOK == ASSUME IInv, Connect PROVE IInv'
<1>1. pass.pc = "connect" /\ UNCHANGED <<obj, cache, reap, envVars, host, jobs, faults>>
  BY DEF Connect
<1>2. PICK p \in Pass : p = pass /\ Sound(p)
  BY <1>1, UnderWay
<1>3. PICK x \in Template : x = ResolvedTemplate(p.wants) /\ (p.wants => x = tmpl[conn])
  <2>1. p.wants \in BOOLEAN
    BY DEF Pass
  <2>. QED
    BY <2>1, ResolvedIs
<1>4. PICK e \in Endpoint, n \in Count : e = conn /\ n = edits
  BY DEF IInv, TypeOK
<1>. DEFINE t == OnInstance(p.st, e)
            q == [p EXCEPT !.st = t, !.ep = e, !.inv = x.inv, !.edits = n]
            retiring == [q EXCEPT !.pc = "retire"]
<1>5. /\ tcache' = x
      /\ \/ ~Accepted(q, x) /\ pass' = finish(q)
         \/ Accepted(q, x) /\ Moved(q) /\ x.inv # 0 /\ pass' = retiring
         \/ Accepted(q, x) /\ (x.inv = 0 \/ ~Moved(q)) /\ pass' = TowardsHost(q)
  BY <1>2, <1>3, <1>4 DEF Connect
<1>6. /\ t \in Status /\ t.job = p.st.job /\ t.jobEp = p.st.jobEp /\ t.jobStatus = p.st.jobStatus
      /\ t.gen = p.st.gen /\ t.phase = p.st.phase /\ t.ep = e
      /\ t.id # 0 => t.id = p.st.id /\ t.slot = p.st.slot /\ p.st.ep \in {None, e}
  BY <1>2, OnInstanceIs DEF Sound
<1>. HIDE DEF t
<1>7. x.inv \in Inventory \cup {0}
  BY DEF Template
<1>8. /\ q \in Pass /\ q.st = t /\ q.ep = e /\ q.inv = x.inv /\ q.edits = n /\ q.gen = p.gen
      /\ q.wants = p.wants /\ q.was = p.was /\ q.fresh = p.fresh
  BY <1>6, <1>7 DEF Pass
<1>9. retiring \in Pass /\ retiring.pc = "retire" /\ retiring.st = t /\ SameFrame(q, retiring)
  BY <1>6, <1>7 DEF Pass, SameFrame
<1>. HIDE DEF q, retiring
<1>10. PICK r \in Pass : /\ r = q /\ r.st = t /\ r.ep = e /\ r.inv = x.inv /\ r.edits = n
                         /\ r.gen = p.gen /\ r.wants = p.wants /\ r.was = p.was /\ r.fresh = p.fresh
  BY <1>8
<1>11. t.id # 0 => t.ep # None /\ t.slot # NoSlot /\ p.st.ep = e
  BY <1>2, <1>6, ProvisionAssumption DEF Sound, StatusOK
<1>12. StatusOK(t)
  BY <1>2, <1>6, <1>11, StatusLike DEF Sound
<1>13. Paid(t, p.gen) /\ Paid(t, p.gen)'
  <2>1. Paid(t, p.gen)
    BY <1>2, <1>6 DEF Sound, Paid, Owed, needsRun
  <2>. QED
    BY <1>1, <1>2, <2>1, PaidKept DEF Sound
<1>14. UNCHANGED <<obj, cache, reap, vm, conn, tmpl, edits, host, jobs>>
      /\ tcache' \in Template \cup {NoTemplate}
  BY <1>1, <1>5 DEF envVars
<1>15. CASE pass' = finish(q)
  BY <1>1, <1>2, <1>10, <1>12, <1>13, <1>14, <1>15, HostsUnmoved, PassEnds DEF Sound
<1>16. p.wants = needsRun(p.st, p.gen) /\ (p.fresh => obj.st = p.was)
       /\ p.st.ep = p.was.ep /\ p.st.slot = p.was.slot /\ p.st.id = p.was.id
  BY <1>1, <1>2 DEF Sound, PassOK, FreshOK
<1>17. Accepted(q, x) => (p.wants /\ ~Want[p.gen].wide /\ x.inv # 0 => tmpl[e].ask)
  BY <1>3, <1>4, <1>8 DEF Accepted
<1>18. CASE Accepted(q, x) /\ Moved(q) /\ x.inv # 0 /\ pass' = retiring
  <2>1. PICK z \in Pass : z = retiring /\ z.pc = "retire" /\ z.st = t /\ SameFrame(r, z)
    BY <1>9, <1>10
  <2>2. t.slot # NoSlot
    BY <1>8, <1>18 DEF Moved
  <2>3. PassOK(z)'
    BY <1>2, <1>4, <1>6, <1>10, <1>13, <1>14, <1>16, <1>17, <1>18, <2>1, <2>2, Typed
       DEF PassOK, SameFrame, Sound, needsRun
  <2>4. FreshOK(z)'
    BY <1>10, <1>14, <1>16, <2>1 DEF FreshOK, SameFrame
  <2>. QED
    BY <1>1, <1>12, <1>14, <1>18, <2>1, <2>3, <2>4, PassTurns
<1>19. CASE Accepted(q, x) /\ (x.inv = 0 \/ ~Moved(q)) /\ pass' = TowardsHost(q)
  <2>1. Resolved(r)
    BY <1>2, <1>4, <1>6, <1>10, <1>12, <1>13, <1>16, <1>17, <1>19, Typed DEF Resolved, Sound, needsRun
  <2>2. r.fresh /\ r.inv # 0 /\ r.st.id # 0 => obj.st.ep = r.ep /\ obj.st.slot = targetSlot(r)
    BY <1>6, <1>10, <1>11, <1>16, <1>19 DEF Moved
  <2>. QED
    BY <1>1, <1>10, <1>14, <1>16, <1>19, <2>1, <2>2, HostsUnmoved, PassTowards
<1>. QED
  BY <1>5, <1>15, <1>18, <1>19

\* A status of the same run: what it says of the host is another matter.
SameRun(st, t) ==
    /\ t.job = st.job /\ t.jobEp = st.jobEp /\ t.jobStatus = st.jobStatus
    /\ t.gen = st.gen /\ t.phase = st.phase /\ t.ep = st.ep

\* At work on its host a pass has its template.
LEMMA AtWork ==
    ASSUME IInv, pass.pc \in {"retire", "delete", "intent", "upsert"}
    PROVE  \E p \in Pass : /\ p = pass /\ Sound(p) /\ Resolved(p) /\ p.inv # 0
                           /\ targetSlot(p) \in Slot /\ targetSlot(p) # NoSlot
<1>1. PICK p \in Pass : p = pass /\ Sound(p)
  BY UnderWay
<1>2. Resolved(p) /\ p.inv # 0
  BY <1>1 DEF Sound, PassOK, Resolved
<1>. QED
  BY <1>1, <1>2, TargetIs DEF Sound

\* And goes on having it with another host on record.
LEMMA ResolvedLike ==
    ASSUME NEW p \in Pass, Resolved(p), NEW q \in Pass, SameFrame(p, q), SameRun(p.st, q.st),
           q.st.id # 0 => q.st.slot # NoSlot
    PROVE  Resolved(q)
<1>1. q.st.ep # None
  BY ProvisionAssumption DEF Resolved, SameRun
<1>2. StatusOK(q.st)
  BY <1>1, StatusLike DEF Resolved, SameRun, StatusOK
<1>3. Paid(q.st, q.gen)
  BY DEF Resolved, Paid, Owed, needsRun, SameRun, SameFrame
<1>. QED
  BY <1>2, <1>3 DEF Resolved, needsRun, SameRun, SameFrame

\* A pass with another status.
LEMMA PassWith ==
    ASSUME NEW p \in Pass, NEW t \in Status
    PROVE  LET q == [p EXCEPT !.st = t] IN
           q \in Pass /\ SameFrame(p, q) /\ q.st = t /\ q.pc = p.pc
BY DEF Pass, SameFrame

LEMMA RetiredIs ==
    ASSUME NEW p \in Pass
    PROVE  /\ Retired(p) \in Pass /\ SameFrame(p, Retired(p)) /\ SameRun(p.st, Retired(p).st)
           /\ Retired(p).st.id = 0 /\ Retired(p).pc = p.pc
<1>. DEFINE t == [p.st EXCEPT !.id = 0, !.created = FALSE, !.slot = NoSlot]
<1>1. p.st \in Status
  BY DEF Pass
<1>2. t \in Status /\ SameRun(p.st, t) /\ t.id = 0
  BY <1>1 DEF Status, SameRun
<1>3. Retired(p) = [p EXCEPT !.st = t]
  BY DEF Retired, Pass
<1>. HIDE DEF t
<1>. QED
  BY <1>2, <1>3, PassWith

\* The old host is looked up: there is none, or it is deleted, or left.
LEMMA FindHostOK == ASSUME IInv, FindHost PROVE IInv'
<1>1. pass.pc = "retire" /\ UNCHANGED <<obj, cache, reap, envVars, tcache, host, jobs, faults>>
  BY DEF FindHost
<1>2. PICK p \in Pass : p = pass /\ Sound(p) /\ Resolved(p)
  BY <1>1, AtWork
<1>3. PICK e \in Endpoint, s \in Slot : e = p.ep /\ s = p.st.slot
  BY <1>1, <1>2 DEF Sound, PassOK, Status
<1>4. PICK h \in Host : h = host[e][s]
  BY <1>3, Typed
<1>5. PICK i \in Nat, c \in BOOLEAN :
         i = (IF Exists(h) THEN h.id ELSE 0) /\ c = OwnedHost(h)
  BY <1>4 DEF Host, OwnedHost
<1>. DEFINE t == [p.st EXCEPT !.id = i, !.created = c]
            q == [p EXCEPT !.st = t]
            deleting == [q EXCEPT !.pc = "delete"]
<1>6. t \in Status /\ SameRun(p.st, t) /\ t.id = i /\ t.created = c /\ t.slot = s
  BY <1>2, <1>3 DEF Status, SameRun, Sound
<1>7. q = [p EXCEPT !.st.id = i, !.st.created = c]
  BY DEF Pass
<1>. HIDE DEF t
<1>8. q \in Pass /\ SameFrame(p, q) /\ q.st = t /\ q.pc = "retire"
  BY <1>1, <1>2, <1>6, PassWith
<1>9. \/ i = 0 /\ pass' = TowardsHost(q)
      \/ i # 0 /\ c /\ pass' = deleting
      \/ pass' = TowardsHost(Retired(q))
  <2>1. q = [p EXCEPT !.st.id = IF Exists(h) THEN h.id ELSE 0, !.st.created = OwnedHost(h)]
    BY <1>5, <1>7, Zenon
  <2>. HIDE DEF q
  <2>2. pass' = CASE q.st.id = 0 -> TowardsHost(q)
                  [] q.st.id # 0 /\ q.st.created /\ ~Want[q.gen].retain ->
                       [q EXCEPT !.pc = "delete"]
                  [] OTHER -> TowardsHost(Retired(q))
    BY <1>2, <1>3, <1>4, <2>1, Zenon DEF FindHost
  <2>. QED
    BY <1>6, <1>8, <2>2
<1>10. UNCHANGED <<obj, cache, reap, vm, conn, tmpl, edits, host, jobs>>
      /\ tcache' \in Template \cup {NoTemplate}
  BY <1>1, Typed DEF envVars
<1>11. p.fresh => obj.st = p.was
  BY <1>1, <1>2 DEF Sound, FreshOK
<1>12. ASSUME NEW r \in Pass, SameFrame(p, r), SameRun(p.st, r.st), r.st.id = 0,
              pass' = TowardsHost(r)
       PROVE  IInv'
  <2>1. Resolved(r)
    BY <1>2, <1>12, ResolvedLike
  <2>. QED
    BY <1>1, <1>10, <1>11, <1>12, <2>1, HostsUnmoved, PassTowards DEF SameFrame
<1>13. deleting \in Pass /\ deleting.pc = "delete" /\ deleting.st = t /\ SameFrame(p, deleting)
  BY <1>6 DEF Pass, SameFrame
<1>. HIDE DEF q, deleting
<1>14. CASE i = 0 /\ pass' = TowardsHost(q)
  BY <1>6, <1>8, <1>12, <1>14
<1>15. CASE pass' = TowardsHost(Retired(q))
  BY <1>6, <1>8, <1>12, <1>15, RetiredIs DEF SameFrame, SameRun
<1>16. CASE i # 0 /\ c /\ pass' = deleting
  <2>1. PICK r \in Pass : r = deleting /\ r.pc = "delete" /\ r.st = t /\ SameFrame(p, r)
    BY <1>13
  <2>2. Resolved(r)
    BY <1>2, <1>3, <1>6, <2>1, SlotIs, ResolvedLike
  <2>3. Marked(e, s, i)
    <3>1. h.id = i /\ h.owner = "ours" /\ h.id \in Nat
      BY <1>5, <1>16 DEF OwnedHost, Host
    <3>. QED
      BY <1>4, <3>1 DEF Marked
  <2>4. Paid(r.st, r.gen)'
    BY <1>1, <1>2, <2>1, <2>2, PaidKept DEF Resolved, Sound, SameFrame
  <2>5. PassOK(r)'
    BY <1>1, <1>2, <1>3, <1>6, <1>10, <2>1, <2>2, <2>3, <2>4, SlotIs
       DEF PassOK, Resolved, SameFrame, Sound, needsRun, Marked
  <2>6. FreshOK(r)'
    BY <1>10, <1>11, <2>1 DEF FreshOK, SameFrame
  <2>. QED
    BY <1>1, <1>10, <1>16, <2>1, <2>2, <2>5, <2>6, PassTurns DEF Resolved
<1>. QED
  BY <1>9, <1>14, <1>15, <1>16

\* A deletion takes a host away and leaves its id behind.
LEMMA DeletedIs ==
    ASSUME IInv, NEW e \in Endpoint, NEW s \in Slot, NEW i \in Nat, host' = Deleted(e, s, i)
    PROVE  /\ host' \in [Endpoint -> [Slot -> Host]]
           /\ \A d \in Endpoint, t \in Slot :
                /\ HostMoves(d, t)
                /\ Exists(host'[d][t]) => Exists(host[d][t])
                /\ host'[d][t] = host[d][t] \/ (d = e /\ t = s /\ host[e][s].id = i)
<1>1. host \in [Endpoint -> [Slot -> Host]]
  BY Typed
<1>2. CASE host' = host
  BY <1>2, HostsUnmoved
<1>3. CASE host' = [host EXCEPT ![e][s] = Emptied(@)] /\ host[e][s].id = i
  <2>1. PICK h \in Host : h = host[e][s]
    BY <1>1
  <2>2. Emptied(h) \in Host /\ Emptied(h).id = h.id /\ Emptied(h).owner = "none"
    BY DEF Emptied, NoHost, Host, Owner, Addr
  <2>3. /\ host' \in [Endpoint -> [Slot -> Host]]
        /\ \A d \in Endpoint, t \in Slot :
             host'[d][t] = IF d = e /\ t = s THEN Emptied(h) ELSE host[d][t]
    BY <1>1, <1>3, <2>1, <2>2
  <2>4. \A d \in Endpoint, t \in Slot : host[d][t].id \in Nat
    BY <1>1 DEF Host
  <2>5. ASSUME NEW d \in Endpoint, NEW t \in Slot
        PROVE  HostMoves(d, t) /\ (Exists(host'[d][t]) => Exists(host[d][t]))
    <3>1. CASE d = e /\ t = s
      BY <2>1, <2>2, <2>3, <2>4, <3>1 DEF HostMoves, Exists
    <3>2. CASE ~(d = e /\ t = s)
      BY <2>3, <2>4, <3>2 DEF HostMoves
    <3>. QED
      BY <3>1, <3>2
  <2>. QED
    BY <1>3, <2>3, <2>5
<1>. QED
  BY <1>2, <1>3 DEF Deleted

LEMMA DeleteHostOK == ASSUME IInv, DeleteHost PROVE IInv'
<1>1. /\ pass.pc = "delete" /\ UNCHANGED <<obj, cache, reap, envVars, tcache, jobs, faults>>
      /\ host' = Deleted(pass.ep, pass.st.slot, pass.st.id)
      /\ pass' = TowardsHost(Retired(pass))
  BY DEF DeleteHost
<1>2. PICK p \in Pass : p = pass /\ Sound(p) /\ Resolved(p)
  BY <1>1, AtWork
<1>3. p.ep \in Endpoint /\ p.st.slot \in Slot /\ p.st.id \in Nat
  BY <1>1, <1>2 DEF Sound, PassOK, Status
<1>4. UNCHANGED <<obj, cache, reap, vm, conn, tmpl, edits, jobs>>
      /\ tcache' \in Template \cup {NoTemplate}
  BY <1>1, Typed DEF envVars
<1>5. PICK r \in Pass : r = Retired(p) /\ SameFrame(p, r) /\ SameRun(p.st, r.st) /\ r.st.id = 0
  BY RetiredIs
<1>6. Resolved(r)
  BY <1>2, <1>5, ResolvedLike
<1>7. p.fresh => obj.st = p.was
  BY <1>1, <1>2 DEF Sound, FreshOK
<1>. QED
  BY <1>1, <1>2, <1>3, <1>4, <1>5, <1>6, <1>7, DeletedIs, PassTowards DEF SameFrame

\* The child's status as a pass writes it.
LEMMA Written ==
    ASSUME IInv, NEW t \in Status, NEW g \in Nat, g <= cache.gen, StatusOK(t), Paid(t, g),
           UNCHANGED <<cache, jobs>>, UNCHANGED faults \/ Fault
    PROVE  \E o \in Object : /\ o = [obj EXCEPT !.st = t] /\ o.gen = obj.gen /\ o.st = t
                             /\ StatusOK(o.st)' /\ Paid(o.st, o.gen)'
<1>1. obj \in Object /\ obj.gen \in Nat /\ faults \in Nat /\ cache.gen \in Nat
  BY Typed
<1>2. PICK o \in Object : o = [obj EXCEPT !.st = t] /\ o.gen = obj.gen /\ o.st = t
  <2>1. [obj EXCEPT !.st = t] \in Object /\ [obj EXCEPT !.st = t].gen = obj.gen
        /\ [obj EXCEPT !.st = t].st = t
    BY <1>1 DEF Object
  <2>. QED
    BY <2>1, Zenon
<1>3. Paid(t, o.gen)
  <2>1. g <= o.gen /\ o.gen \in Nat
    BY <1>1, <1>2 DEF IInv
  <2>. QED
    BY <1>1, <2>1, LaunchesCounted, PaidLater
<1>4. Paid(t, o.gen)'
  BY <1>1, <1>2, <1>3, PaidKept
<1>5. StatusOK(t)'
  BY StatusesKept
<1>. QED
  BY <1>2, <1>4, <1>5

\* Where the host is to be, on record ahead of it.
LEMMA HostIntentIs ==
    ASSUME IInv, NEW p \in Pass, Resolved(p), p.st \in Status, targetSlot(p) \in Slot,
           targetSlot(p) # NoSlot
    PROVE  LET t == HostIntent(p) IN
           /\ t \in Status /\ SameRun(p.st, t) /\ t.slot = targetSlot(p)
           /\ StatusOK(t) /\ Paid(t, p.gen) /\ t.ep = p.ep
<1>. DEFINE t == HostIntent(p)
<1>1. t \in Status /\ SameRun(p.st, t) /\ t.slot = targetSlot(p)
  BY DEF HostIntent, Status, SameRun
<1>. HIDE DEF t
<1>2. t.ep = p.ep /\ t.ep # None
  BY <1>1, ProvisionAssumption DEF Resolved, SameRun
<1>3. StatusOK(t)
  BY <1>1, <1>2, StatusLike DEF Resolved, SameRun
<1>4. Paid(t, p.gen)
  BY <1>1 DEF Resolved, Paid, Owed, needsRun, SameRun
<1>. QED
  BY <1>1, <1>2, <1>3, <1>4 DEF t

LEMMA RecordHostIntentOK == ASSUME IInv, RecordHostIntent PROVE IInv'
<1>1. pass.pc = "intent" /\ UNCHANGED <<cache, reap, envVars, tcache, host, jobs, faults>>
  BY DEF RecordHostIntent
<1>2. PICK p \in Pass : /\ p = pass /\ Sound(p) /\ Resolved(p) /\ p.inv # 0
                        /\ targetSlot(p) \in Slot /\ targetSlot(p) # NoSlot
  BY <1>1, AtWork
<1>3. PICK t \in Status : /\ t = HostIntent(p) /\ SameRun(p.st, t) /\ t.slot = targetSlot(p)
                          /\ StatusOK(t) /\ Paid(t, p.gen) /\ t.ep = p.ep
  BY <1>2, HostIntentIs DEF Sound
<1>4. PICK q \in Pass : q = [p EXCEPT !.pc = "upsert", !.st = t] /\ SameFrame(p, q)
                        /\ q.st = t /\ q.pc = "upsert"
  <2>. DEFINE q == [p EXCEPT !.pc = "upsert", !.st = t]
  <2>1. q \in Pass /\ SameFrame(p, q) /\ q.st = t /\ q.pc = "upsert"
    BY DEF Pass, SameFrame
  <2>. QED
    BY <2>1, Zenon
<1>5. /\ obj' = IF t = p.was THEN obj ELSE [obj EXCEPT !.st = t]
      /\ pass' = q
  BY <1>2, <1>3, <1>4 DEF RecordHostIntent
<1>6. UNCHANGED <<cache, reap, vm, conn, tmpl, edits, host, jobs, faults>>
      /\ tcache' \in Template \cup {NoTemplate}
  BY <1>1, Typed DEF envVars
<1>7. PICK o \in Object : /\ obj' = o /\ o.gen = obj.gen /\ StatusOK(o.st)' /\ Paid(o.st, o.gen)'
                          /\ p.fresh => o.st = t
  <2>1. CASE t = p.was
    <3>1. UNCHANGED obj /\ (p.fresh => obj.st = t)
      BY <1>1, <1>2, <1>5, <2>1 DEF Sound, FreshOK
    <3>. QED
      BY <1>1, <1>6, <3>1, Unwritten
  <2>2. CASE t # p.was
    BY <1>2, <1>3, <1>5, <1>6, <2>2, Written DEF Sound
  <2>. QED
    BY <2>1, <2>2
<1>8. StatusOK(q.st)' /\ Paid(q.st, q.gen)'
  BY <1>2, <1>3, <1>4, <1>6, StatusesKept, PaidKept DEF Sound, SameFrame
<1>9. PassOK(q)'
  BY <1>2, <1>3, <1>4, <1>6, <1>8 DEF PassOK, Resolved, SameFrame, SameRun, needsRun
<1>10. FreshOK(q)'
  BY <1>3, <1>4, <1>7 DEF FreshOK, SameFrame, targetSlot
<1>. QED
  BY <1>5, <1>6, <1>7, <1>8, <1>9, <1>10, HostsUnmoved, JobsUnmoved, FaultsCounted, PassMoves

\* An upsert keeps the host that is there, or makes one under the next id.
LEMMA UpsertedIs ==
    ASSUME IInv, NEW p \in Pass, p = pass, p.ep \in Endpoint, targetSlot(p) \in Slot,
           host' = Upserted
    PROVE  /\ host' \in [Endpoint -> [Slot -> Host]]
           /\ \A d \in Endpoint, t \in Slot :
                /\ HostMoves(d, t)
                /\ Exists(host[d][t]) => Exists(host'[d][t])
                /\ ~Exists(host[d][t]) /\ Exists(host'[d][t]) => d = p.ep /\ t = targetSlot(p)
<1>1. host \in [Endpoint -> [Slot -> Host]] /\ p.addr \in Addr
  BY Typed DEF Pass
<1>2. PICK e \in Endpoint, s \in Slot : e = p.ep /\ s = targetSlot(p)
  OBVIOUS
<1>3. PICK h \in Host : h = host[e][s]
  BY <1>1
<1>. DEFINE n == IF Exists(h) THEN [h EXCEPT !.addr = p.addr]
                 ELSE [id |-> h.id + 1, owner |-> "ours", addr |-> p.addr]
<1>4. /\ n \in Host
      /\ Exists(h) => n.id = h.id /\ n.owner = h.owner
      /\ ~Exists(h) => n.id = h.id + 1
  BY <1>1 DEF Host, Owner
<1>5. host' = [host EXCEPT ![e][s] = n]
  BY <1>1, <1>2, <1>3 DEF Upserted
<1>. HIDE DEF n
<1>6. /\ host' \in [Endpoint -> [Slot -> Host]]
      /\ \A d \in Endpoint, t \in Slot : host'[d][t] = IF d = e /\ t = s THEN n ELSE host[d][t]
  BY <1>1, <1>4, <1>5
<1>7. \A d \in Endpoint, t \in Slot : host[d][t].id \in Nat
  BY <1>1 DEF Host
<1>8. ASSUME NEW d \in Endpoint, NEW t \in Slot
      PROVE  /\ HostMoves(d, t)
             /\ Exists(host[d][t]) => Exists(host'[d][t])
             /\ ~Exists(host[d][t]) /\ Exists(host'[d][t]) => d = e /\ t = s
  <2>1. CASE d = e /\ t = s
    <3>1. host'[d][t] = n /\ host[d][t] = h /\ h.id \in Nat
      BY <1>3, <1>6, <1>7, <2>1
    <3>. QED
      BY <1>4, <2>1, <3>1 DEF HostMoves, Exists
  <2>2. CASE ~(d = e /\ t = s)
    BY <1>6, <1>7, <2>2 DEF HostMoves
  <2>. QED
    BY <2>1, <2>2
<1>. QED
  BY <1>2, <1>6, <1>8

\* A pass that is done with its host.
LEMMA PassAfterHost ==
    ASSUME IInv, NEW p \in Pass, Resolved(p), pass' = AfterHost(p),
           UNCHANGED <<obj, cache, reap, vm, conn, tmpl, edits, jobs, faults>>,
           tcache' \in Template \cup {NoTemplate}, host' \in [Endpoint -> [Slot -> Host]],
           \A e \in Endpoint, s \in Slot : HostMoves(e, s), pass.pc # "finish"
    PROVE  IInv'
<1>1. p.st \in Status /\ p.gen \in Nat
  BY Numbers DEF Pass
<1>2. PICK q \in Pass : /\ q = AfterHost(p) /\ SameFrame(p, q)
                        /\ q.pc = IF p.wants THEN "launch" ELSE "finish"
                        /\ q.st \in Status /\ SameRun(p.st, q.st)
                        /\ q.st.id = p.st.id /\ q.st.slot = p.st.slot
  <2>. DEFINE q == AfterHost(p)
  <2>1. /\ q \in Pass /\ SameFrame(p, q) /\ q.pc = IF p.wants THEN "launch" ELSE "finish"
        /\ q.st = [p.st EXCEPT !.checked = TRUE]
    BY AfterHostIs
  <2>. HIDE DEF q
  <2>2. q.st \in Status /\ SameRun(p.st, q.st) /\ q.st.id = p.st.id /\ q.st.slot = p.st.slot
    BY <1>1, <2>1, CheckedIs DEF SameRun
  <2>. QED
    BY <2>1, <2>2 DEF q
<1>3. PICK o \in Object : obj' = o /\ o.gen = obj.gen /\ StatusOK(o.st)' /\ Paid(o.st, o.gen)'
  BY Unwritten
<1>4. Resolved(q)
  BY <1>2, ResolvedLike DEF Resolved, StatusOK
<1>5. StatusOK(q.st)' /\ Paid(q.st, q.gen)'
  BY <1>1, <1>2, <1>4, StatusesKept, PaidKept DEF Resolved, SameFrame
<1>6. PassOK(q)'
  BY <1>2, <1>4, <1>5 DEF PassOK, Resolved, SameFrame, needsRun
<1>7. FreshOK(q)'
  BY <1>2 DEF FreshOK
<1>. QED
  BY <1>2, <1>3, <1>5, <1>6, <1>7, JobsUnmoved, FaultsCounted, PassMoves

LEMMA UpsertHostOK == ASSUME IInv, UpsertHost PROVE IInv'
<1>1. pass.pc = "upsert" /\ UNCHANGED <<obj, cache, reap, envVars, tcache, jobs, faults>>
  BY DEF UpsertHost
<1>2. PICK p \in Pass : /\ p = pass /\ Sound(p) /\ Resolved(p) /\ p.inv # 0
                        /\ targetSlot(p) \in Slot /\ targetSlot(p) # NoSlot
  BY <1>1, AtWork
<1>3. PICK e \in Endpoint, s \in Slot : e = p.ep /\ s = targetSlot(p)
  BY <1>2 DEF Resolved
<1>4. CASE UNCHANGED host /\ pass' = finish(pass)
  BY <1>1, <1>4, HostsUnmoved, PassStops
<1>5. CASE ~(UNCHANGED host /\ pass' = finish(pass))
  <2>1. /\ host' = Upserted
        /\ pass' = AfterHost([p EXCEPT !.st.id = host'[e][s].id,
                     !.st.created = host'[e][s].owner = "ours", !.st.slot = s])
    BY <1>2, <1>3, <1>5 DEF UpsertHost
  <2>2. host' \in [Endpoint -> [Slot -> Host]] /\ \A d \in Endpoint, t \in Slot : HostMoves(d, t)
    BY <1>2, <1>3, <2>1, UpsertedIs
  <2>3. PICK i \in Nat, c \in BOOLEAN : i = host'[e][s].id /\ c = (host'[e][s].owner = "ours")
    BY <2>2 DEF Host
  <2>. DEFINE t == [p.st EXCEPT !.id = i, !.created = c, !.slot = s]
  <2>4. t \in Status /\ SameRun(p.st, t) /\ t.slot = s
    BY <1>2 DEF Status, SameRun, Sound
  <2>5. [p EXCEPT !.st = t] = [p EXCEPT !.st.id = i, !.st.created = c, !.st.slot = s]
    BY DEF Pass
  <2>6. pass' = AfterHost([p EXCEPT !.st = t])
    BY <2>1, <2>3, <2>5, Zenon
  <2>. HIDE DEF t
  <2>7. PICK q \in Pass : q = [p EXCEPT !.st = t] /\ SameFrame(p, q) /\ q.st = t
    BY <2>4, PassWith
  <2>8. Resolved(q)
    BY <1>2, <1>3, <2>4, <2>7, ResolvedLike
  <2>. QED
    BY <1>1, <2>2, <2>6, <2>7, <2>8, PassAfterHost, Typed DEF envVars
<1>. QED
  BY <1>4, <1>5

-----------------------------------------------------------------------------
(* A pass: the launch *)

LEMMA LaunchesIs ==
    \A l : l \in Launches <=> \E e \in Endpoint : \E j \in DOMAIN jobs[e] : l = <<e, j>>
<1>1. \A l : l \in Launches <=> \E e \in Endpoint : l \in {e} \X DOMAIN jobs[e]
  BY DEF Launches
<1>. QED
  BY <1>1

\* A launch adds one job, pending, of the pass's request.
LEMMA LaunchedIs ==
    ASSUME IInv, NEW p \in Pass, p = pass, Sound(p), p.pc = "launch",
           jobs' = [jobs EXCEPT ![pass.ep] = Append(@, Launched)]
    PROVE  /\ p.ep \in Endpoint /\ Len(jobs[p.ep]) \in Nat
           /\ jobs' \in [Endpoint -> Seq(Job)] /\ JobsGrow
           /\ IsFiniteSet(Launches') /\ Cardinality(Launches') = Cardinality(Launches) + 1
           /\ Len(jobs[p.ep]) + 1 \in DOMAIN jobs'[p.ep]
           /\ jobs'[p.ep][Len(jobs[p.ep]) + 1] = Launched
           /\ \A e \in Endpoint : e # p.ep => jobs'[e] = jobs[e]
           /\ Len(jobs'[p.ep]) = Len(jobs[p.ep]) + 1
           /\ Launched.gen = p.gen /\ Launched.status = "pending"
           /\ Launched.dropped => p.edits # edits
<1>1. /\ p.ep \in Endpoint /\ p.wants
      /\ p.wants /\ p.edits = edits /\ ~Want[p.gen].wide /\ p.inv # 0 => tmpl[p.ep].ask
  BY DEF Sound, PassOK
<1>2. PICK k \in Job : /\ k = Launched /\ k.gen = p.gen /\ k.status = "pending"
                       /\ k.dropped => p.edits # edits
  <2>. DEFINE narrow == ~Want[p.gen].wide /\ p.inv # 0
              dropped == narrow /\ ~tmpl[p.ep].ask
              limit == IF narrow /\ ~dropped THEN targetSlot(p) ELSE NoSlot
  <2>1. limit \in Slot \cup {NoSlot}
    BY TargetIs DEF Sound
  <2>2. dropped => p.edits # edits
    BY <1>1
  <2>3. PICK d \in BOOLEAN : d = dropped
    BY Zenon
  <2>. HIDE DEF limit, dropped
  <2>4. Launched = [gen |-> p.gen, dropped |-> dropped, status |-> "pending", limit |-> limit]
    BY Zenon DEF Launched, limit, dropped
  <2>5. Launched = [gen |-> p.gen, dropped |-> d, status |-> "pending", limit |-> limit]
    BY <2>3, <2>4, Zenon
  <2>6. Launched \in Job /\ Launched.gen = p.gen /\ Launched.status = "pending" /\ Launched.dropped = d
    BY <2>1, <2>5 DEF Job, Sound
  <2>. QED
    BY <2>2, <2>3, <2>6
<1>3. jobs \in [Endpoint -> Seq(Job)]
  BY Typed
<1>4. PICK q \in Seq(Job), n \in Nat : q = jobs[p.ep] /\ n = Len(q) /\ DOMAIN q = 1..n
  BY <1>1, <1>3
<1>5. /\ Append(q, k) \in Seq(Job) /\ Len(Append(q, k)) = n + 1 /\ DOMAIN Append(q, k) = 1..(n + 1)
      /\ Append(q, k)[n + 1] = k /\ \A j \in DOMAIN q : Append(q, k)[j] = q[j]
  BY <1>4
<1>6. jobs' = [jobs EXCEPT ![p.ep] = Append(q, k)]
  BY <1>2, <1>4
<1>7. /\ jobs' \in [Endpoint -> Seq(Job)] /\ jobs'[p.ep] = Append(q, k)
      /\ \A e \in Endpoint : e # p.ep => jobs'[e] = jobs[e]
  BY <1>1, <1>3, <1>5, <1>6
<1>8. JobsGrow
  <2>. SUFFICES ASSUME NEW e \in Endpoint, NEW j \in DOMAIN jobs[e]
                PROVE  j \in DOMAIN jobs'[e] /\ jobs'[e][j] = jobs[e][j]
    BY DEF JobsGrow
  <2>1. CASE e = p.ep
    BY <1>4, <1>5, <1>7, <2>1
  <2>. QED
    BY <1>7, <2>1
<1>9. Launches' = Launches \cup {<<p.ep, n + 1>>} /\ <<p.ep, n + 1>> \notin Launches
  <2>1. \A l : l \in Launches' <=> \E e \in Endpoint : \E j \in DOMAIN jobs'[e] : l = <<e, j>>
    <3>1. \A l : l \in Launches' <=> \E e \in Endpoint : l \in {e} \X DOMAIN jobs'[e]
      BY DEF Launches
    <3>. QED
      BY <3>1
  <2>2. \A l : l \in Launches <=> \E e \in Endpoint : \E j \in DOMAIN jobs[e] : l = <<e, j>>
    BY LaunchesIs
  <2>3. DOMAIN jobs'[p.ep] = DOMAIN jobs[p.ep] \cup {n + 1} /\ n + 1 \notin DOMAIN jobs[p.ep]
    BY <1>4, <1>5, <1>7
  <2>. QED
    BY <1>1, <1>7, <2>1, <2>2, <2>3
<1>10. IsFiniteSet(Launches') /\ Cardinality(Launches') = Cardinality(Launches) + 1
  BY <1>9, FS_AddElement DEF IInv
<1>. QED
  BY <1>1, <1>2, <1>4, <1>5, <1>7, <1>8, <1>10

LEMMA LaunchJobTemplateOK == ASSUME IInv, LaunchJobTemplate PROVE IInv'
<1>1. /\ pass.pc = "launch" /\ UNCHANGED <<obj, cache, reap, envVars, tcache, host, faults>>
      /\ jobs' = [jobs EXCEPT ![pass.ep] = Append(@, Launched)]
  BY DEF LaunchJobTemplate
<1>2. PICK p \in Pass : p = pass /\ Sound(p)
  BY <1>1, UnderWay
<1>3. PICK n \in Nat :
             /\ p.ep \in Endpoint /\ n = Len(jobs[p.ep])
             /\ jobs' \in [Endpoint -> Seq(Job)] /\ JobsGrow
             /\ IsFiniteSet(Launches') /\ Cardinality(Launches') = Cardinality(Launches) + 1
             /\ n + 1 \in DOMAIN jobs'[p.ep] /\ jobs'[p.ep][n + 1].gen = p.gen
  BY <1>1, <1>2, LaunchedIs
<1>. DEFINE t == [p.st EXCEPT !.job = n + 1, !.jobEp = p.ep, !.jobStatus = "pending",
                    !.phase = "Running", !.gen = p.gen]
            r == [p EXCEPT !.pc = "finish", !.st = t]
<1>4. /\ t \in Status /\ t.job = n + 1 /\ t.jobEp = p.ep /\ t.jobStatus = "pending"
      /\ t.phase = "Running" /\ t.gen = p.gen
      /\ t.id = p.st.id /\ t.ep = p.st.ep /\ t.slot = p.st.slot
  <2>1. p.st \in Status /\ n + 1 \in Nat /\ p.gen \in Gen
    BY <1>2, Numbers DEF Sound
  <2>2. PICK k \in Nat : k = n + 1
    BY <2>1
  <2>3. t = [p.st EXCEPT !.job = k, !.jobEp = p.ep, !.jobStatus = "pending",
               !.phase = "Running", !.gen = p.gen]
    BY <2>2
  <2>. HIDE DEF t
  <2>4. /\ t \in Status /\ t.job = k /\ t.jobEp = p.ep /\ t.jobStatus = "pending"
        /\ t.phase = "Running" /\ t.gen = p.gen
        /\ t.id = p.st.id /\ t.ep = p.st.ep /\ t.slot = p.st.slot
    BY <1>3, <2>1, <2>3 DEF Status
  <2>. QED
    BY <2>2, <2>4
<1>5. r = [p EXCEPT !.pc = "finish", !.st.job = n + 1, !.st.jobEp = p.ep,
             !.st.jobStatus = "pending", !.st.phase = "Running", !.st.gen = p.gen]
  BY DEF Pass
<1>6. pass' = r
  BY <1>2, <1>3, <1>5 DEF LaunchJobTemplate
<1>. HIDE DEF t
<1>7. PICK q \in Pass : q = r /\ q.pc = "finish" /\ q.st = t /\ SameFrame(p, q)
  <2>1. r \in Pass /\ r.pc = "finish" /\ r.st = t /\ SameFrame(p, r)
    BY <1>4 DEF Pass, SameFrame
  <2>. HIDE DEF r
  <2>. QED
    BY <2>1
<1>8. UNCHANGED <<obj, cache, reap, vm, conn, tmpl, edits, host, faults>>
      /\ tcache' \in Template \cup {NoTemplate}
  BY <1>1, Typed DEF envVars
<1>9. StatusOK(q.st)'
  BY <1>2, <1>3, <1>4, <1>7, <1>8 DEF StatusOK, Sound, Recorded, isTerminalAWXStatus
<1>10. Paid(q.st, q.gen)'
  <2>1. Owed(p.st, p.gen) = 1
    BY <1>1, <1>2, OwedIs DEF Sound, PassOK
  <2>2. Owed(q.st, q.gen)' = 0
    BY <1>3, <1>4, <1>7 DEF Owed, needsRun, SameFrame
  <2>. QED
    BY <1>2, <1>3, <1>7, <1>8, <2>1, <2>2, LaunchesCounted, Typed DEF Paid, Sound, SameFrame
<1>11. PassOK(q)' /\ FreshOK(q)'
  BY <1>2, <1>7, <1>8, <1>10 DEF PassOK, FreshOK, Sound, SameFrame
<1>12. PICK o \in Object : obj' = o /\ o.gen = obj.gen /\ StatusOK(o.st)'
  <2>1. PICK o \in Object : o = obj /\ o.st \in Status /\ StatusOK(o.st)
    BY Typed DEF IInv
  <2>2. StatusOK(o.st)'
    BY <1>3, <1>8, <2>1, StatusKept, Typed
  <2>. QED
    BY <1>8, <2>1, <2>2
<1>. QED
  BY <1>3, <1>6, <1>7, <1>8, <1>9, <1>11, <1>12, HostsUnmoved, FaultsCounted, PassMoves

LEMMA LaunchFailsOK == ASSUME IInv, LaunchFails PROVE IInv'
<1>1. /\ pass.pc = "launch" /\ Fault /\ UNCHANGED <<obj, cache, reap, envVars, tcache, host>>
      /\ jobs' \in {jobs, [jobs EXCEPT ![pass.ep] = Append(@, Launched)]}
  BY DEF LaunchFails
<1>2. PICK p \in Pass : p = pass /\ Sound(p)
  BY <1>1, UnderWay
<1>3. /\ jobs' \in [Endpoint -> Seq(Job)] /\ JobsGrow /\ IsFiniteSet(Launches')
      /\ Cardinality(Launches') \in {Cardinality(Launches), Cardinality(Launches) + 1}
  BY <1>1, <1>2, LaunchedIs, JobsUnmoved
<1>. DEFINE t == [p.st EXCEPT !.phase = "Failed"]
            r == [p EXCEPT !.pc = "finish", !.st = t]
<1>4. /\ t \in Status /\ t.job = p.st.job /\ t.jobEp = p.st.jobEp /\ t.jobStatus = p.st.jobStatus
      /\ t.phase = "Failed" /\ t.gen = p.st.gen
      /\ t.id = p.st.id /\ t.ep = p.st.ep /\ t.slot = p.st.slot
  BY <1>2 DEF Status, Sound
<1>5. pass' = r
  <2>1. r = [p EXCEPT !.pc = "finish", !.st.phase = "Failed"]
    BY DEF Pass
  <2>. QED
    BY <1>2, <2>1 DEF LaunchFails
<1>. HIDE DEF t
<1>6. PICK q \in Pass : q = r /\ q.pc = "finish" /\ q.st = t /\ SameFrame(p, q)
  <2>1. r \in Pass /\ r.pc = "finish" /\ r.st = t /\ SameFrame(p, r)
    BY <1>4 DEF Pass, SameFrame
  <2>. HIDE DEF r
  <2>. QED
    BY <2>1
<1>7. UNCHANGED <<obj, cache, reap, vm, conn, tmpl, edits, host>>
      /\ tcache' \in Template \cup {NoTemplate}
  BY <1>1, Typed DEF envVars
<1>8. StatusOK(q.st)'
  <2>1. StatusOK(t)
    <3>1. p.st.id # 0 => p.st.ep # None /\ p.st.slot # NoSlot
      BY <1>2 DEF Sound, StatusOK
    <3>. QED
      BY <1>2, <1>4, <3>1, StatusLike DEF Sound
  <2>. QED
    BY <1>3, <1>4, <1>6, <1>7, <2>1, StatusKept, Typed
<1>9. Paid(q.st, q.gen)'
  <2>1. Owed(q.st, q.gen)' = Owed(p.st, p.gen) /\ Owed(p.st, p.gen) \in {0, 1}
    BY <1>4, <1>6, OwedIs DEF Owed, needsRun, SameFrame
  <2>2. faults' = faults + 1
    BY <1>1 DEF Fault
  <2>. QED
    BY <1>2, <1>3, <1>6, <2>1, <2>2, LaunchesCounted, Typed DEF Paid, Sound, SameFrame
<1>10. PassOK(q)' /\ FreshOK(q)'
  BY <1>2, <1>6, <1>7, <1>9 DEF PassOK, FreshOK, Sound, SameFrame
<1>11. PICK o \in Object : obj' = o /\ o.gen = obj.gen /\ StatusOK(o.st)'
  <2>1. PICK o \in Object : o = obj /\ o.st \in Status /\ StatusOK(o.st)
    BY Typed DEF IInv
  <2>2. StatusOK(o.st)'
    BY <1>3, <1>7, <2>1, StatusKept, Typed
  <2>. QED
    BY <1>7, <2>1, <2>2
<1>. QED
  BY <1>1, <1>3, <1>5, <1>6, <1>7, <1>8, <1>10, <1>11, HostsUnmoved, FaultsCounted, PassMoves

\* What a pass leaves is written, or lost at the price of a fault.
LEMMA PassOver ==
    ASSUME IInv, pass' = NoPass, NEW o \in Object, obj' = o, o.gen = obj.gen,
           StatusOK(o.st)', Paid(o.st, o.gen)',
           UNCHANGED <<cache, reap, envVars, tcache, host, jobs>>, UNCHANGED faults \/ Fault
    PROVE  IInv'
<1>1. PICK q \in Pass : q = NoPass /\ q.pc = "idle" /\ q.st = NoStatus
  BY EmptyTyped
<1>2. StatusOK(q.st)'
  BY <1>1, EmptyTyped, Typed DEF StatusOK
<1>3. PassOK(q)' /\ FreshOK(q)'
  BY <1>1 DEF PassOK, FreshOK
<1>. QED
  BY <1>1, <1>2, <1>3, HostsUnmoved, JobsUnmoved, FaultsCounted, PassMoves, Typed DEF envVars

LEMMA writeAnsibleBindingVMDetailsOK == ASSUME IInv, writeAnsibleBindingVMDetails PROVE IInv'
<1>1. /\ pass.pc = "finish" /\ UNCHANGED <<cache, reap, envVars, tcache, host, jobs, faults>>
      /\ obj' = [obj EXCEPT !.st = pass.st] /\ pass' = NoPass
  BY DEF writeAnsibleBindingVMDetails
<1>2. PICK p \in Pass : p = pass /\ Sound(p)
  BY <1>1, UnderWay
<1>. QED
  BY <1>1, <1>2, Written, PassOver DEF Sound

\* A fault that costs a pass its record pays for the run it may cost.
LEMMA FaultPays ==
    ASSUME IInv, Fault, UNCHANGED jobs
    PROVE  \E o \in Object : o = obj /\ Paid(o.st, o.gen)'
<1>1. PICK o \in Object : o = obj /\ o.gen \in Nat
  BY Typed
<1>2. CASE pass.pc # "finish"
  <2>1. Paid(o.st, o.gen)
    BY <1>1, <1>2 DEF IInv
  <2>. QED
    BY <1>1, <2>1, PaidKept
<1>3. CASE pass.pc = "finish"
  <2>1. PICK p \in Pass : p = pass /\ Sound(p)
    BY <1>3, UnderWay
  <2>2. Cardinality(Launches) \in Nat /\ faults \in Nat /\ p.gen \in Nat /\ p.gen <= o.gen
    BY <1>1, <2>1, LaunchesCounted, Typed DEF IInv, Sound
  <2>3. Cardinality(Launches) <= o.gen + faults
    BY <1>1, <2>1, <2>2, OwedIs DEF Sound, Paid
  <2>4. faults' = faults + 1 /\ Launches' = Launches /\ Owed(o.st, o.gen)' \in {0, 1}
    BY JobsUnmoved, OwedIs DEF Fault, Owed
  <2>5. Paid(o.st, o.gen)'
    BY <1>1, <2>2, <2>3, <2>4 DEF Paid
  <2>. QED
    BY <1>1, <2>5
<1>. QED
  BY <1>2, <1>3

\* A call that fails, at each of the places a pass makes one.
LEMMA CallFailsOK == ASSUME IInv, CallFails PROVE IInv'
<1>1. Fault /\ UNCHANGED <<cache, reap, envVars, tcache, jobs>>
  BY DEF CallFails
<1>2. UNCHANGED <<cache, reap, vm, conn, tmpl, edits, jobs>> /\ tcache' \in Template \cup {NoTemplate}
  BY <1>1, Typed DEF envVars
<1>3. CASE pass.pc = "poll"
  <2>1. pass' = finish([pass EXCEPT !.st.phase = "Running"]) /\ UNCHANGED <<obj, host>>
    BY <1>3 DEF CallFails
  <2>2. PICK p \in Pass : p = pass /\ Sound(p)
    BY <1>3, UnderWay
  <2>. DEFINE t == [p.st EXCEPT !.phase = "Running"]
  <2>3. /\ t \in Status /\ t.job = p.st.job /\ t.jobEp = p.st.jobEp /\ t.jobStatus = p.st.jobStatus
        /\ t.phase = "Running" /\ t.gen = p.st.gen
        /\ t.id = p.st.id /\ t.ep = p.st.ep /\ t.slot = p.st.slot
    BY <2>2 DEF Status, Sound
  <2>4. [p EXCEPT !.st = t] = [p EXCEPT !.st.phase = "Running"]
    BY DEF Pass
  <2>5. pass' = finish([p EXCEPT !.st = t])
    BY <2>1, <2>2, <2>4, Zenon
  <2>. HIDE DEF t
  <2>6. PICK q \in Pass : q = [p EXCEPT !.st = t] /\ SameFrame(p, q) /\ q.st = t
    BY <2>3, PassWith
  <2>7. StatusOK(t)
    <3>1. p.st.id # 0 => p.st.ep # None /\ p.st.slot # NoSlot
      BY <2>2 DEF Sound, StatusOK
    <3>. QED
      BY <2>2, <2>3, <3>1, StatusLike DEF Sound
  <2>8. Paid(q.st, q.gen)'
    BY <1>1, <2>2, <2>3, <2>6, PaidLike DEF Sound, SameFrame
  <2>. QED
    BY <1>1, <1>2, <1>3, <2>1, <2>2, <2>5, <2>6, <2>7, <2>8, HostsUnmoved, PassEnds
       DEF Sound, SameFrame
<1>4. CASE pass.pc \in {"connect", "retire"}
  <2>1. pass' = finish(pass) /\ UNCHANGED <<obj, host>>
    BY <1>4 DEF CallFails
  <2>. QED
    BY <1>1, <1>4, <2>1, HostsUnmoved, PassStops
<1>5. CASE pass.pc = "delete"
  <2>1. /\ pass' = finish(pass) /\ UNCHANGED obj
        /\ host' \in {host, Deleted(pass.ep, pass.st.slot, pass.st.id)}
    BY <1>5 DEF CallFails
  <2>2. pass.ep \in Endpoint /\ pass.st.slot \in Slot /\ pass.st.id \in Nat
    BY <1>5, Typed DEF IInv, PassOK, Status
  <2>3. host' \in [Endpoint -> [Slot -> Host]] /\ \A e \in Endpoint, s \in Slot : HostMoves(e, s)
    BY <2>1, <2>2, HostsUnmoved, DeletedIs
  <2>. QED
    BY <1>1, <1>5, <2>1, <2>3, PassStops
<1>6. CASE pass.pc = "intent"
  <2>1. /\ obj' \in {obj, [obj EXCEPT !.st = HostIntent(pass)]}
        /\ pass' = finish([pass EXCEPT !.st = HostIntent(pass)]) /\ UNCHANGED host
    BY <1>6 DEF CallFails
  <2>2. PICK p \in Pass : /\ p = pass /\ Sound(p) /\ Resolved(p)
                          /\ targetSlot(p) \in Slot /\ targetSlot(p) # NoSlot
    BY <1>6, AtWork
  <2>3. PICK t \in Status : t = HostIntent(p) /\ StatusOK(t) /\ Paid(t, p.gen)
    BY <2>2, HostIntentIs DEF Sound
  <2>4. PICK q \in Pass : q = [p EXCEPT !.st = t] /\ SameFrame(p, q) /\ q.st = t
    BY PassWith
  <2>5. PICK o \in Object : obj' = o /\ o.gen = obj.gen /\ StatusOK(o.st)' /\ Paid(o.st, o.gen)'
    <3>1. CASE UNCHANGED obj
      BY <1>1, <1>6, <3>1, Unwritten
    <3>2. CASE obj' = [obj EXCEPT !.st = t]
      BY <1>1, <2>2, <2>3, <3>2, Written DEF Sound
    <3>. QED
      BY <2>1, <2>2, <2>3, <3>1, <3>2
  <2>6. Paid(q.st, q.gen)'
    BY <1>1, <2>2, <2>3, <2>4, PaidKept DEF Sound, SameFrame
  <2>. QED
    BY <1>1, <1>2, <2>1, <2>2, <2>3, <2>4, <2>5, <2>6, HostsUnmoved, PassEndsWith
       DEF Sound, SameFrame
<1>7. CASE pass.pc = "upsert"
  <2>1. /\ pass' = finish(pass) /\ UNCHANGED obj /\ host' \in {host, Upserted}
    BY <1>7 DEF CallFails
  <2>2. PICK p \in Pass : p = pass /\ Resolved(p) /\ targetSlot(p) \in Slot
    BY <1>7, AtWork
  <2>3. host' \in [Endpoint -> [Slot -> Host]] /\ \A e \in Endpoint, s \in Slot : HostMoves(e, s)
    BY <2>1, <2>2, HostsUnmoved, UpsertedIs DEF Resolved
  <2>. QED
    BY <1>1, <1>7, <2>1, <2>3, PassStops
<1>8. CASE pass.pc = "finish"
  <2>1. pass' = NoPass /\ UNCHANGED host /\ obj' \in {obj, [obj EXCEPT !.st = pass.st]}
    BY <1>8 DEF CallFails
  <2>2. PICK p \in Pass : p = pass /\ Sound(p)
    BY <1>8, UnderWay
  <2>3. PICK o \in Object : obj' = o /\ o.gen = obj.gen /\ StatusOK(o.st)' /\ Paid(o.st, o.gen)'
    <3>1. CASE UNCHANGED obj
      <4>1. PICK o \in Object : o = obj /\ Paid(o.st, o.gen)'
        BY <1>1, FaultPays
      <4>2. o.st \in Status /\ StatusOK(o.st)
        BY <4>1, Typed DEF IInv
      <4>3. StatusOK(o.st)'
        BY <1>1, <4>2, StatusesKept
      <4>. QED
        BY <3>1, <4>1, <4>3
    <3>2. CASE obj' = [obj EXCEPT !.st = p.st]
      BY <1>1, <2>2, <3>2, Written DEF Sound
    <3>. QED
      BY <2>1, <2>2, <3>1, <3>2
  <2>. QED
    BY <1>1, <2>1, <2>3, PassOver
<1>. QED
  BY <1>3, <1>4, <1>5, <1>6, <1>7, <1>8 DEF CallFails

LEMMA PassStepOK == ASSUME IInv, PassStep PROVE IInv'
BY applyAnsibleBindingVMOK, pollRecordedJobOK, ConnectOK, FindHostOK, DeleteHostOK,
   RecordHostIntentOK, UpsertHostOK, LaunchJobTemplateOK, LaunchFailsOK,
   writeAnsibleBindingVMDetailsOK, CallFailsOK DEF PassStep

-----------------------------------------------------------------------------
(* Beside a pass: the binding, the scan, the world *)

\* A pass is untouched by what happens beside it: launches only pay for more,
\* and an edit of a template shows in the count of edits.
LEMMA WorldMoves ==
    ASSUME IInv, TypeOK', UNCHANGED pass, obj'.st = obj.st, cache'.st \in {cache.st, obj.st},
           cache.gen <= cache'.gen, cache'.gen <= obj'.gen, obj'.gen <= cache'.gen + 1,
           obj.gen <= obj'.gen, \A e \in Endpoint, s \in Slot : HostMoves(e, s),
           JobsGrow, Launches' = Launches, faults <= faults',
           UNCHANGED <<edits, tmpl>> \/ edits < edits', ScanOK'
    PROVE  IInv'
<1>1. /\ obj' \in Object /\ cache' \in Object /\ host' \in [Endpoint -> [Slot -> Host]]
      /\ faults' \in 0..MaxFaults /\ edits' \in Count
  BY DEF TypeOK
<1>2. obj'.gen \in Nat /\ cache'.gen \in Nat /\ faults' \in Nat /\ edits' \in Nat
  <2>1. obj'.gen \in Request /\ cache'.gen \in Request
    BY <1>1 DEF Object
  <2>2. faults' \in Nat
    BY <1>1
  <2>. QED
    BY <1>1, <2>1, <2>2, Numbers
<1>3. ASSUME NEW st \in Status, StatusOK(st) PROVE StatusOK(st)'
  BY <1>2, <1>3, StatusKept, Typed
<1>4. StatusOK(obj.st)' /\ StatusOK(cache.st)' /\ StatusOK(pass.st)'
  <2>1. PICK a \in Status, b \in Status, c \in Status :
            a = obj.st /\ b = cache.st /\ c = pass.st /\ StatusOK(a) /\ StatusOK(b) /\ StatusOK(c)
    BY Typed DEF IInv
  <2>2. StatusOK(a)' /\ StatusOK(b)' /\ StatusOK(c)'
    BY <1>3, <2>1
  <2>3. obj'.st = a /\ cache'.st \in {a, b} /\ pass'.st = c
    BY <2>1
  <2>. QED
    BY <2>2, <2>3 DEF StatusOK, Recorded
<1>5. ASSUME NEW st, NEW g \in Nat, NEW h \in Nat, g <= h, Paid(st, g) PROVE Paid(st, h)'
  <2>1. Cardinality(Launches) \in Nat /\ Cardinality(Launches') = Cardinality(Launches)
    BY LaunchesCounted
  <2>2. Paid(st, h)
    BY <1>5, <2>1, PaidLater, Typed
  <2>3. Owed(st, h)' = Owed(st, h) /\ Owed(st, h) \in {0, 1}
    BY OwedIs DEF Owed, needsRun
  <2>4. Cardinality(Launches) + Owed(st, h) <= h + faults
    BY <2>2 DEF Paid
  <2>5. faults \in Nat /\ faults' \in Nat /\ faults <= faults'
    BY <1>2, Typed
  <2>6. Cardinality(Launches') + Owed(st, h)' <= h + faults'
    BY <1>5, <2>1, <2>3, <2>4, <2>5
  <2>. QED
    BY <2>6 DEF Paid
<1>6. pass'.pc # "finish" => Paid(obj.st, obj.gen)'
  <2>1. PICK t \in Status, g \in Nat, h \in Nat : t = obj.st /\ g = obj.gen /\ h = obj'.gen
    BY <1>2, Typed
  <2>2. pass.pc # "finish" => Paid(t, h)'
    BY <1>5, <2>1 DEF IInv
  <2>. QED
    BY <2>1, <2>2 DEF Paid, Owed, needsRun
<1>7. PICK p \in Pass : p = pass /\ PassOK(p) /\ FreshOK(p)
  BY Typed DEF IInv
<1>8. p.pc # "idle" => p.gen # 0 /\ p.gen <= cache'.gen /\ Paid(p.st, p.gen)'
  BY <1>2, <1>5, <1>7, Typed DEF PassOK
<1>9. p.pc = "delete" => Marked(p.ep, p.st.slot, p.st.id)'
  <2>1. p.pc = "delete" => p.ep \in Endpoint /\ p.st.slot \in Slot /\ p.st.id \in Nat
    BY <1>7 DEF PassOK, Pass, Status
  <2>. QED
    BY <1>1, <1>7, <2>1, MarkedKept, Typed DEF PassOK
<1>10. p.pc \in {"retire", "delete", "intent", "upsert", "launch"} =>
         /\ p.edits <= edits'
         /\ p.wants /\ p.edits = edits' /\ ~Want[p.gen].wide /\ p.inv # 0 => tmpl'[p.ep].ask
  <2>1. p.edits \in Nat
    BY Numbers DEF Pass
  <2>. QED
    BY <1>2, <1>7, <2>1, Typed DEF PassOK
<1>11. PassOK(p)'
  BY <1>7, <1>8, <1>9, <1>10 DEF PassOK, needsRun
<1>12. FreshOK(p)'
  BY <1>7 DEF FreshOK, targetSlot
<1>13. PassOK(pass)' /\ FreshOK(pass)'
  BY <1>7, <1>11, <1>12 DEF PassOK, FreshOK, Paid, Owed, needsRun, Marked, targetSlot
<1>14. IsFiniteSet(Launches')
  BY DEF IInv
<1>. QED
  BY <1>4, <1>6, <1>13, <1>14 DEF IInv

\* What a step that leaves hosts and jobs alone need not say of them.
LEMMA Quiet ==
    ASSUME IInv, UNCHANGED <<host, jobs>>
    PROVE  /\ \A e \in Endpoint, s \in Slot : HostMoves(e, s)
           /\ JobsGrow /\ Launches' = Launches
BY HostsUnmoved, JobsUnmoved

LEMMA Sizes ==
    ASSUME IInv
    PROVE  /\ cache.gen <= cache.gen /\ obj.gen <= obj.gen /\ faults <= faults
           /\ cache.gen <= obj.gen /\ obj.gen <= cache.gen + 1
BY Typed DEF IInv

\* The hosts a scan lists are the binding's.
LEMMA ListOwnedHostsOK == ASSUME IInv, ListOwnedHosts PROVE IInv'
<1>. DEFINE cand == {<<s, host[conn][s].id>> :
                       s \in {t \in {s \in Inventories \X Name : host[conn][s].owner = "ours"} :
                                t[2] \notin claimedHostNames(cache)}}
<1>1. /\ reap' = [pc |-> "confirm", ep |-> conn, cand |-> cand]
      /\ UNCHANGED <<obj, cache, pass, envVars, tcache, host, jobs, faults>>
  BY DEF ListOwnedHosts
<1>2. Inventories \X Name \subseteq Slot
  <2>1. cache.st.slot[1] \in Inventory \cup {0}
    BY SlotIs, Typed DEF Status
  <2>2. Inventories \subseteq Inventory
    BY <2>1, ProvisionAssumption DEF Inventories
  <2>. QED
    BY <2>2 DEF Slot
<1>3. \A s \in Slot : host[conn][s] \in Host /\ host[conn][s].id \in Nat
  BY Typed DEF Host
<1>4. \A h \in cand : \E s \in Slot : h = <<s, host[conn][s].id>> /\ host[conn][s].owner = "ours"
  BY <1>2
<1>5. cand \subseteq Slot \X Nat
  BY <1>3, <1>4
<1>6. \A h \in cand : Marked(conn, h[1], h[2])
  BY <1>3, <1>4 DEF Marked
<1>. HIDE DEF cand
<1>7. reap' \in Scan
  BY <1>1, <1>5, Typed DEF Scan
<1>8. ScanOK'
  BY <1>1, <1>6, Typed DEF ScanOK, Marked
<1>9. TypeOK'
  BY <1>1, <1>7 DEF IInv, TypeOK, envVars
<1>. QED
  BY <1>1, <1>8, <1>9, Quiet, Sizes, WorldMoves DEF envVars

\* What is left of a scan.
LEMMA ScanNarrows ==
    ASSUME IInv, UNCHANGED <<obj, cache, pass, envVars, tcache, jobs>>, UNCHANGED faults \/ Fault,
           host' \in [Endpoint -> [Slot -> Host]], \A e \in Endpoint, s \in Slot : HostMoves(e, s),
           NEW r \in Scan, reap' = r,
           r.pc # "idle" => reap.pc # "idle" /\ r.ep = reap.ep /\ r.cand \subseteq reap.cand
    PROVE  IInv'
<1>1. ScanOK'
  <2>1. reap.pc # "idle" => reap.ep \in Endpoint /\ \A h \in reap.cand : Marked(reap.ep, h[1], h[2])
    BY DEF IInv, ScanOK
  <2>2. \A h \in reap.cand : h[1] \in Slot /\ h[2] \in Nat
    BY Typed DEF Scan
  <2>3. ASSUME NEW h \in r.cand, r.pc # "idle" PROVE Marked(r.ep, h[1], h[2])'
    BY <2>1, <2>2, <2>3, MarkedKept, Typed
  <2>. QED
    BY <2>1, <2>3 DEF ScanOK, Marked
<1>2. TypeOK'
  BY FaultsCounted DEF IInv, TypeOK, envVars
<1>3. JobsGrow /\ Launches' = Launches
  BY JobsUnmoved
<1>. QED
  BY <1>1, <1>2, <1>3, FaultsCounted, Sizes, WorldMoves DEF envVars

LEMMA ConfirmOrphansOK == ASSUME IInv, ConfirmOrphans PROVE IInv'
<1>. DEFINE cand == {h \in reap.cand : h[1][2] \notin FreshClaims}
            r == [reap EXCEPT !.pc = "delete", !.cand = cand]
<1>1. /\ reap.pc = "confirm" /\ reap' \in {NoScan, r}
      /\ UNCHANGED <<obj, cache, pass, envVars, tcache, host, jobs, faults>>
  BY DEF ConfirmOrphans
<1>2. r \in Scan /\ r.ep = reap.ep /\ r.cand \subseteq reap.cand
  BY Typed DEF Scan
<1>. HIDE DEF r
<1>. QED
  BY <1>1, <1>2, EmptyTyped, HostsUnmoved, ScanNarrows

LEMMA reapOrphanHostsOK == ASSUME IInv, NEW h \in reap.cand, reapOrphanHosts(h) PROVE IInv'
<1>. DEFINE r == [reap EXCEPT !.cand = reap.cand \ {h}]
<1>1. /\ reap.pc = "delete" /\ reap' \in {NoScan, r} /\ host' = Deleted(reap.ep, h[1], h[2])
      /\ UNCHANGED <<obj, cache, pass, envVars, tcache, jobs, faults>>
  BY DEF reapOrphanHosts
<1>2. r \in Scan /\ r.ep = reap.ep /\ r.cand \subseteq reap.cand /\ h[1] \in Slot /\ h[2] \in Nat
  BY Typed DEF Scan
<1>. HIDE DEF r
<1>3. reap.ep \in Endpoint
  BY <1>1 DEF IInv, ScanOK
<1>. QED
  BY <1>1, <1>2, <1>3, DeletedIs, EmptyTyped, ScanNarrows

LEMMA ScanFailsOK == ASSUME IInv, ScanFails PROVE IInv'
<1>1. Fault /\ reap' = NoScan /\ UNCHANGED <<obj, cache, pass, envVars, tcache, host, jobs>>
  BY DEF ScanFails
<1>. QED
  BY <1>1, EmptyTyped, HostsUnmoved, ScanNarrows

LEMMA ReapStepOK == ASSUME IInv, ReapStep PROVE IInv'
BY ListOwnedHostsOK, ConfirmOrphansOK, reapOrphanHostsOK, ScanFailsOK DEF ReapStep

\* A new request, made from a copy that was current.
LEMMA updateBindingChildSpecOK == ASSUME IInv, updateBindingChildSpec PROVE IInv'
<1>1. /\ cache = obj /\ obj.gen < MaxGen /\ obj' = [obj EXCEPT !.gen = @ + 1]
      /\ UNCHANGED <<cache, pass, reap, envVars, tcache, host, jobs, faults>>
  BY DEF updateBindingChildSpec
<1>2. obj.gen + 1 \in Request
  BY <1>1, Typed, Numbers
<1>3. obj' \in Object /\ obj'.gen = obj.gen + 1 /\ obj'.st = obj.st
  BY <1>1, <1>2, Typed DEF Object
<1>4. TypeOK'
  BY <1>1, <1>3 DEF IInv, TypeOK, envVars
<1>5. cache.gen <= obj'.gen /\ obj'.gen <= cache.gen + 1 /\ obj.gen <= obj'.gen
  BY <1>1, <1>3, Typed
<1>6. ScanOK'
  BY <1>1, HostsUnmoved, ScanKept
<1>. QED
  BY <1>1, <1>3, <1>4, <1>5, <1>6, Quiet, Sizes, WorldMoves DEF envVars

LEMMA SyncCacheOK == ASSUME IInv, SyncCache PROVE IInv'
<1>1. cache' = obj /\ UNCHANGED <<obj, pass, reap, envVars, tcache, host, jobs, faults>>
  BY DEF SyncCache
<1>2. TypeOK'
  BY <1>1 DEF IInv, TypeOK, envVars
<1>3. obj.gen <= obj.gen + 1
  BY Typed
<1>4. ScanOK'
  BY <1>1, HostsUnmoved, ScanKept
<1>. QED
  BY <1>1, <1>2, <1>3, <1>4, Quiet, Sizes, WorldMoves DEF envVars

\* A restart forgets the pass, the scan and the caches, and counts as a fault.
LEMMA CrashOK == ASSUME IInv, Crash PROVE IInv'
<1>1. /\ Fault /\ pass' = NoPass /\ reap' = NoScan /\ cache' = obj /\ tcache' = NoTemplate
      /\ UNCHANGED <<obj, envVars, host, jobs>>
  BY DEF Crash
<1>2. TypeOK'
  BY <1>1, EmptyTyped, FaultsCounted DEF IInv, TypeOK, envVars
<1>3. PICK o \in Object : o = obj /\ Paid(o.st, o.gen)' /\ o.st \in Status /\ StatusOK(o.st)
  <2>1. PICK o \in Object : o = obj /\ Paid(o.st, o.gen)'
    BY <1>1, FaultPays
  <2>. QED
    BY <2>1, Typed DEF IInv
<1>4. StatusOK(o.st)'
  BY <1>1, <1>3, JobsUnmoved, Sizes, StatusKept, Typed
<1>5. StatusOK(obj.st)' /\ StatusOK(cache.st)' /\ Paid(obj.st, obj.gen)'
  BY <1>1, <1>3, <1>4 DEF StatusOK, Recorded, Paid, Owed, needsRun
<1>6. pass'.pc = "idle" /\ pass'.st = NoStatus
  BY <1>1, EmptyTyped
<1>7. StatusOK(pass.st)'
  BY <1>1, <1>6, EmptyTyped, Typed DEF StatusOK
<1>8. PassOK(pass)' /\ FreshOK(pass)' /\ ScanOK'
  BY <1>1, <1>6, EmptyTyped DEF PassOK, FreshOK, ScanOK
<1>9. IsFiniteSet(Launches')
  BY <1>1, JobsUnmoved
<1>10. cache'.gen <= obj'.gen /\ obj'.gen <= cache'.gen + 1
  BY <1>1, Typed
<1>. QED
  BY <1>2, <1>5, <1>7, <1>8, <1>9, <1>10 DEF IInv

\* An edit is counted.
LEMMA EditCounted ==
    ASSUME IInv, edits < MaxEdits, edits' = edits + 1 PROVE edits' \in Count /\ edits < edits'
BY ProvisionAssumption DEF Count, IInv, TypeOK

LEMMA VMChangesOK == ASSUME IInv, VMChanges PROVE IInv'
<1>1. /\ edits < MaxEdits /\ edits' = edits + 1
      /\ UNCHANGED <<obj, cache, pass, reap, conn, tmpl, tcache, host, jobs, faults>>
  BY DEF VMChanges, MayEdit
<1>2. vm' \in [state : {"on", "off", "gone"}, addr : 1..2]
  <2>1. vm \in [state : {"on", "off", "gone"}, addr : 1..2]
    BY DEF IInv, TypeOK
  <2>2. vm' \in {[vm EXCEPT !.state = "on"], [vm EXCEPT !.state = "off"],
                 [vm EXCEPT !.state = "gone"], [vm EXCEPT !.addr = 3 - @]}
    BY DEF VMChanges
  <2>3. [vm EXCEPT !.state = "on"] \in [state : {"on", "off", "gone"}, addr : 1..2]
    BY <2>1
  <2>4. [vm EXCEPT !.state = "off"] \in [state : {"on", "off", "gone"}, addr : 1..2]
    BY <2>1
  <2>5. [vm EXCEPT !.state = "gone"] \in [state : {"on", "off", "gone"}, addr : 1..2]
    BY <2>1
  <2>6. [vm EXCEPT !.addr = 3 - @] \in [state : {"on", "off", "gone"}, addr : 1..2]
    BY <2>1
  <2>. QED
    BY <2>2, <2>3, <2>4, <2>5, <2>6
<1>3. TypeOK'
  BY <1>1, <1>2, EditCounted DEF IInv, TypeOK
<1>4. ScanOK'
  BY <1>1, HostsUnmoved, ScanKept
<1>. QED
  BY <1>1, <1>3, <1>4, EditCounted, Quiet, Sizes, WorldMoves

LEMMA RepointOK == ASSUME IInv, Repoint PROVE IInv'
<1>1. /\ edits < MaxEdits /\ edits' = edits + 1 /\ conn' \in Endpoint /\ tcache' = NoTemplate
      /\ UNCHANGED <<obj, cache, pass, reap, vm, tmpl, host, jobs, faults>>
  BY DEF Repoint, MayEdit
<1>2. TypeOK'
  BY <1>1, EditCounted DEF IInv, TypeOK
<1>3. ScanOK'
  BY <1>1, HostsUnmoved, ScanKept
<1>. QED
  BY <1>1, <1>2, <1>3, EditCounted, Quiet, Sizes, WorldMoves

LEMMA TemplateExpiresOK == ASSUME IInv, TemplateExpires PROVE IInv'
<1>1. tcache' = NoTemplate /\ UNCHANGED <<obj, cache, pass, reap, envVars, host, jobs, faults>>
  BY DEF TemplateExpires
<1>2. TypeOK'
  BY <1>1 DEF IInv, TypeOK, envVars
<1>3. ScanOK'
  BY <1>1, HostsUnmoved, ScanKept
<1>. QED
  BY <1>1, <1>2, <1>3, Quiet, Sizes, WorldMoves DEF envVars

LEMMA EditTemplateOK == ASSUME IInv, NEW e \in Endpoint, EditTemplate(e) PROVE IInv'
<1>1. /\ edits < MaxEdits /\ edits' = edits + 1
      /\ UNCHANGED <<obj, cache, pass, reap, vm, conn, tcache, host, jobs, faults>>
  BY DEF EditTemplate, MayEdit
<1>2. tmpl' \in [Endpoint -> Template]
  <2>1. tmpl \in [Endpoint -> Template]
    BY Typed
  <2>2. \/ tmpl' = [tmpl EXCEPT ![e].ask = ~@]
        \/ \E i \in Inventory \cup {0} : tmpl' = [tmpl EXCEPT ![e].inv = i]
    BY DEF EditTemplate
  <2>. QED
    BY <2>1, <2>2 DEF Template
<1>3. TypeOK'
  BY <1>1, <1>2, EditCounted DEF IInv, TypeOK
<1>4. ScanOK'
  BY <1>1, HostsUnmoved, ScanKept
<1>. QED
  BY <1>1, <1>3, <1>4, EditCounted, Quiet, Sizes, WorldMoves

\* A host put in another's place has the next id.
LEMMA EditHostIs ==
    ASSUME IInv, NEW e \in Endpoint, NEW s \in Slot, EditHost(e, s)
    PROVE  /\ host' \in [Endpoint -> [Slot -> Host]]
           /\ \A d \in Endpoint, t \in Slot :
                HostMoves(d, t) /\ (Exists(host'[d][t]) => Exists(host[d][t]))
<1>1. /\ edits < MaxEdits /\ edits' = edits + 1 /\ Exists(host[e][s])
      /\ UNCHANGED <<obj, cache, pass, reap, vm, conn, tmpl, tcache, jobs, faults>>
  BY DEF EditHost, MayEdit
<1>2. PICK h \in Host : h = host[e][s] /\ h.id \in Nat
  BY Typed DEF Host
<1>3. \E n \in Host : /\ host' = [host EXCEPT ![e][s] = n]
                      /\ \/ n.id = h.id /\ n.owner = "none"
                         \/ n.id = h.id /\ n.owner = h.owner
                         \/ n.id = h.id + 1
  <2>1. CASE host' = [host EXCEPT ![e][s] = Emptied(@)]
    <3>1. Emptied(h) \in Host /\ Emptied(h).id = h.id /\ Emptied(h).owner = "none"
      BY DEF Emptied, NoHost, Host, Owner, Addr
    <3>. QED
      BY <1>2, <2>1, <3>1
  <2>2. CASE host' = [host EXCEPT ![e][s].addr = 0]
    <3>. DEFINE n == [h EXCEPT !.addr = 0]
    <3>1. n \in Host /\ n.id = h.id /\ n.owner = h.owner
      BY Numbers DEF Host
    <3>2. host' = [host EXCEPT ![e][s] = n]
      BY <1>2, <2>2
    <3>. HIDE DEF n
    <3>. QED
      BY <3>1, <3>2
  <2>3. CASE \E o \in {"foreign", "hand"} :
               host' = [host EXCEPT ![e][s] = [id |-> @.id + 1, owner |-> o, addr |-> 0]]
    <3>1. PICK o \in {"foreign", "hand"} :
               host' = [host EXCEPT ![e][s] = [id |-> @.id + 1, owner |-> o, addr |-> 0]]
      BY <2>3
    <3>. DEFINE n == [id |-> h.id + 1, owner |-> o, addr |-> 0]
    <3>2. n \in Host /\ n.id = h.id + 1
      BY <1>2, Numbers DEF Host, Owner
    <3>3. host' = [host EXCEPT ![e][s] = n]
      BY <1>2, <3>1
    <3>. HIDE DEF n
    <3>. QED
      BY <3>2, <3>3
  <2>. QED
    BY <2>1, <2>2, <2>3 DEF EditHost
<1>4. PICK n \in Host : /\ host' = [host EXCEPT ![e][s] = n]
                        /\ \/ n.id = h.id /\ n.owner = "none"
                           \/ n.id = h.id /\ n.owner = h.owner
                           \/ n.id = h.id + 1
  BY <1>3
<1>5. /\ host' \in [Endpoint -> [Slot -> Host]]
      /\ \A d \in Endpoint, t \in Slot : host'[d][t] = IF d = e /\ t = s THEN n ELSE host[d][t]
  BY <1>4, Typed
<1>6. \A d \in Endpoint, t \in Slot : host[d][t].id \in Nat
  BY Typed DEF Host
<1>7. ASSUME NEW d \in Endpoint, NEW t \in Slot
      PROVE  HostMoves(d, t) /\ (Exists(host'[d][t]) => Exists(host[d][t]))
  <2>1. CASE d = e /\ t = s
    <3>1. host'[d][t] = n /\ host[d][t] = h
      BY <1>2, <1>5, <2>1
    <3>. QED
      BY <1>1, <1>2, <1>4, <2>1, <3>1 DEF HostMoves, Exists
  <2>2. CASE ~(d = e /\ t = s)
    BY <1>5, <1>6, <2>2 DEF HostMoves
  <2>. QED
    BY <2>1, <2>2
<1>. QED
  BY <1>5, <1>7

LEMMA EditHostOK == ASSUME IInv, NEW e \in Endpoint, NEW s \in Slot, EditHost(e, s) PROVE IInv'
<1>1. /\ edits < MaxEdits /\ edits' = edits + 1
      /\ UNCHANGED <<obj, cache, pass, reap, vm, conn, tmpl, tcache, jobs, faults>>
  BY DEF EditHost, MayEdit
<1>2. /\ host' \in [Endpoint -> [Slot -> Host]]
      /\ \A d \in Endpoint, t \in Slot : HostMoves(d, t)
  BY EditHostIs
<1>3. TypeOK'
  BY <1>1, <1>2, EditCounted DEF IInv, TypeOK
<1>4. ScanOK'
  BY <1>1, <1>2, ScanKept
<1>. QED
  BY <1>1, <1>2, <1>3, <1>4, EditCounted, JobsUnmoved, Sizes, WorldMoves

LEMMA JobEndsOK ==
    ASSUME IInv, NEW e \in Endpoint, NEW j \in DOMAIN jobs[e], JobEnds(e, j) PROVE IInv'
<1>1. /\ jobs[e][j].status = "pending"
      /\ UNCHANGED <<obj, cache, pass, reap, envVars, tcache, host, faults>>
  BY DEF JobEnds
<1>2. PICK r \in {"successful", "failed"} : jobs' = [jobs EXCEPT ![e][j].status = r]
  BY DEF JobEnds
<1>3. jobs \in [Endpoint -> Seq(Job)]
  BY Typed
<1>4. PICK q \in Seq(Job) : q = jobs[e]
  BY <1>3
<1>5. PICK k \in Job : k = q[j] /\ k.status = "pending"
  BY <1>1, <1>4
<1>. DEFINE n == [k EXCEPT !.status = r]
<1>6. n \in Job /\ n.gen = k.gen
  BY DEF Job
<1>7. jobs' = [jobs EXCEPT ![e] = [q EXCEPT ![j] = n]]
  BY <1>2, <1>3, <1>4, <1>5
<1>. HIDE DEF n
<1>8. /\ [q EXCEPT ![j] = n] \in Seq(Job) /\ DOMAIN [q EXCEPT ![j] = n] = DOMAIN q
      /\ \A i \in DOMAIN q : [q EXCEPT ![j] = n][i] = IF i = j THEN n ELSE q[i]
  BY <1>4, <1>6
<1>9. /\ jobs' \in [Endpoint -> Seq(Job)] /\ jobs'[e] = [q EXCEPT ![j] = n]
      /\ \A d \in Endpoint : d # e => jobs'[d] = jobs[d]
  BY <1>3, <1>7, <1>8
<1>10. \A d \in Endpoint : DOMAIN jobs'[d] = DOMAIN jobs[d]
  BY <1>4, <1>8, <1>9
<1>11. JobsGrow
  <2>. SUFFICES ASSUME NEW d \in Endpoint, NEW i \in DOMAIN jobs[d]
                PROVE  /\ i \in DOMAIN jobs'[d] /\ jobs'[d][i].gen = jobs[d][i].gen
                       /\ isTerminalAWXStatus(jobs[d][i].status) =>
                            jobs'[d][i].status = jobs[d][i].status
    BY DEF JobsGrow
  <2>1. CASE d = e /\ i = j
    BY <1>1, <1>4, <1>5, <1>6, <1>8, <1>9, <1>10, <2>1 DEF isTerminalAWXStatus
  <2>2. CASE ~(d = e /\ i = j)
    <3>1. jobs'[d][i] = jobs[d][i]
      BY <1>4, <1>8, <1>9, <2>2
    <3>. QED
      BY <1>10, <3>1
  <2>. QED
    BY <2>1, <2>2
<1>12. Launches' = Launches
  BY <1>10 DEF Launches
<1>13. TypeOK'
  BY <1>1, <1>9 DEF IInv, TypeOK, envVars
<1>14. ScanOK'
  BY <1>1, HostsUnmoved, ScanKept
<1>. QED
  BY <1>1, <1>11, <1>12, <1>13, <1>14, HostsUnmoved, Sizes, WorldMoves DEF envVars

-----------------------------------------------------------------------------
(* The specification *)

LEMMA InitOK == Init => IInv
<1>. SUFFICES ASSUME Init PROVE IInv
  OBVIOUS
<1>1. /\ obj = [gen |-> 1, st |-> NoStatus] /\ cache = obj /\ pass = NoPass /\ reap = NoScan
      /\ vm = [state |-> "on", addr |-> 1] /\ conn = Home /\ tcache = NoTemplate
      /\ jobs = [e \in Endpoint |-> <<>>] /\ edits = 0 /\ faults = 0
  BY DEF Init
<1>2. obj \in Object /\ obj.gen = 1 /\ obj.st = NoStatus
  BY <1>1, EmptyTyped, Numbers DEF Object
<1>3. tmpl \in [Endpoint -> Template]
  BY DEF Init, Template
<1>4. host \in [Endpoint -> [Slot -> Host]]
  <2>1. PICK o \in Leftover, s \in Slot :
         host = [e \in Endpoint |-> [t \in Slot |->
                  IF t = s /\ o # "none" THEN [id |-> 1, owner |-> o, addr |-> 0]
                  ELSE NoHost]]
    BY DEF Init
  <2>2. [id |-> 1, owner |-> o, addr |-> 0] \in Host
    BY ProvisionAssumption, Numbers DEF Host
  <2>. QED
    BY <2>1, <2>2, EmptyTyped
<1>5. jobs \in [Endpoint -> Seq(Job)]
  BY <1>1
<1>6. TypeOK
  BY <1>1, <1>2, <1>3, <1>4, <1>5, EmptyTyped, Numbers, ProvisionAssumption DEF TypeOK
<1>7. StatusOK(obj.st) /\ StatusOK(cache.st) /\ StatusOK(pass.st)
  BY <1>1, <1>2, EmptyTyped DEF StatusOK
<1>8. PassOK(pass) /\ FreshOK(pass) /\ ScanOK
  BY <1>1, EmptyTyped DEF PassOK, FreshOK, ScanOK
<1>9. Launches = {}
  <2>1. \A e \in Endpoint : DOMAIN jobs[e] = {}
    BY <1>1
  <2>. QED
    BY <2>1, LaunchesIs
<1>10. IsFiniteSet(Launches) /\ Cardinality(Launches) = 0
  BY <1>9, FS_EmptySet
<1>11. Paid(obj.st, obj.gen)
  BY <1>1, <1>2, <1>10, OwedIs DEF Paid
<1>. QED
  BY <1>1, <1>2, <1>6, <1>7, <1>8, <1>10, <1>11 DEF IInv

LEMMA StutterOK == ASSUME IInv, UNCHANGED vars PROVE IInv'
<1>1. UNCHANGED <<obj, cache, pass, reap, vm, conn, tmpl, tcache, host, jobs, edits, faults>>
  BY DEF vars
<1>2. TypeOK'
  BY <1>1 DEF IInv, TypeOK
<1>3. ScanOK'
  BY <1>1, HostsUnmoved, ScanKept
<1>. QED
  BY <1>1, <1>2, <1>3, Quiet, Sizes, WorldMoves

LEMMA StepOK == IInv /\ [Next]_vars => IInv'
<1>. SUFFICES ASSUME IInv, [Next]_vars PROVE IInv'
  OBVIOUS
<1>1. CASE PassStep
  BY <1>1, PassStepOK
<1>2. CASE ReapStep
  BY <1>2, ReapStepOK
<1>3. CASE updateBindingChildSpec \/ SyncCache \/ Crash
  BY <1>3, updateBindingChildSpecOK, SyncCacheOK, CrashOK
<1>4. CASE VMChanges \/ Repoint \/ TemplateExpires
  BY <1>4, VMChangesOK, RepointOK, TemplateExpiresOK
<1>5. CASE \E e \in Endpoint : EditTemplate(e) \/ (\E s \in Slot : EditHost(e, s))
                               \/ (\E j \in DOMAIN jobs[e] : JobEnds(e, j))
  BY <1>5, EditTemplateOK, EditHostOK, JobEndsOK
<1>6. CASE UNCHANGED vars
  BY <1>6, StutterOK
<1>. QED
  BY <1>1, <1>2, <1>3, <1>4, <1>5, <1>6 DEF Next

\* The invariant behind what follows holds of every behaviour.
LEMMA Invariance == Spec => []IInv
BY InitOK, StepOK, PTL DEF Spec

\* What a status, a pass or a scan holds, and what AWX does, is of its type
\* whatever the requests, names, inventories and instances are.
THEOREM ProvisionTyped == Spec => []TypeOK
<1>1. IInv => TypeOK
  BY DEF IInv
<1>. QED
  BY <1>1, Invariance, PTL

\* No status, durable, cached or about to be written, has a request answered by
\* another request's job, or an outcome that its job does not have: whatever copy
\* a pass started from, wherever the connection points and whichever write is lost.
THEOREM OutcomesReal == Spec => []OutcomeIsReal
<1>1. IInv => OutcomeIsReal
  BY DEF IInv, StatusOK, OutcomeIsReal
<1>. QED
  BY <1>1, Invariance, PTL

\* There are never more runs than requests and faults together, in whatever order
\* requests, lagging reads, failed calls and restarts come.
THEOREM RunsArePaidFor == Spec => []FaultCostsARun
<1>1. ASSUME IInv PROVE FaultCostsARun
  <2>1. /\ Cardinality(Launches) \in Nat /\ faults \in Nat /\ obj.gen \in Nat /\ cache.gen \in Nat
        /\ cache.gen <= obj.gen
    BY <1>1, LaunchesCounted, Typed DEF IInv
  <2>2. CASE pass.pc # "finish"
    BY <1>1, <2>1, <2>2, OwedIs DEF IInv, Paid, FaultCostsARun
  <2>3. CASE pass.pc = "finish"
    <3>1. PICK p \in Pass : p = pass /\ Sound(p)
      BY <1>1, <2>3, UnderWay
    <3>. QED
      BY <2>1, <3>1, OwedIs DEF Sound, Paid, FaultCostsARun
  <2>. QED
    BY <2>2, <2>3
<1>. QED
  BY <1>1, Invariance, PTL

-----------------------------------------------------------------------------
(* What a step may never do *)

\* The steps that change what AWX holds.
LEMMA HostStep ==
    ASSUME IInv, Next
    PROVE  \/ UNCHANGED host
           \/ \E e \in Endpoint, s \in Slot, i \in Nat : Marked(e, s, i) /\ host' = Deleted(e, s, i)
           \/ pass.pc = "upsert" /\ host' = Upserted
           \/ \E e \in Endpoint, s \in Slot : EditHost(e, s)
<1>1. ASSUME pass.pc = "delete", host' = Deleted(pass.ep, pass.st.slot, pass.st.id)
      PROVE  \E e \in Endpoint, s \in Slot, i \in Nat : Marked(e, s, i) /\ host' = Deleted(e, s, i)
  <2>1. /\ pass.ep \in Endpoint /\ pass.st.slot \in Slot /\ pass.st.id \in Nat
        /\ Marked(pass.ep, pass.st.slot, pass.st.id)
    BY <1>1, Typed DEF IInv, PassOK, Status
  <2>. QED
    BY <1>1, <2>1
<1>2. CASE PassStep
  <2>1. CASE DeleteHost
    BY <1>1, <2>1 DEF DeleteHost
  <2>2. CASE CallFails
    BY <1>1, <2>2 DEF CallFails
  <2>3. CASE UpsertHost
    BY <2>3 DEF UpsertHost
  <2>. QED
    BY <1>2, <2>1, <2>2, <2>3
       DEF PassStep, applyAnsibleBindingVM, pollRecordedJob, Connect, FindHost, RecordHostIntent,
           LaunchJobTemplate, LaunchFails, writeAnsibleBindingVMDetails
<1>3. CASE ReapStep
  <2>1. ASSUME NEW h \in reap.cand, reapOrphanHosts(h)
        PROVE  \E e \in Endpoint, s \in Slot, i \in Nat : Marked(e, s, i) /\ host' = Deleted(e, s, i)
    <3>1. /\ reap.ep \in Endpoint /\ h[1] \in Slot /\ h[2] \in Nat
          /\ Marked(reap.ep, h[1], h[2]) /\ host' = Deleted(reap.ep, h[1], h[2])
      BY <2>1, Typed DEF IInv, ScanOK, Scan, reapOrphanHosts
    <3>. QED
      BY <3>1
  <2>. QED
    BY <1>3, <2>1 DEF ReapStep, ListOwnedHosts, ConfirmOrphans, ScanFails
<1>. QED
  BY <1>2, <1>3 DEF Next, updateBindingChildSpec, SyncCache, Crash, VMChanges, Repoint,
     TemplateExpires, EditTemplate, JobEnds

\* A host that the controller deletes, whether it moves the child's own or reaps an
\* orphan, carries the binding's marker when it goes: it is known by id, and no id
\* is another host's.
THEOREM DeletesOnlyItsOwn == Spec => DeletesOwnOnly
<1>1. ASSUME IInv, [Next]_vars, NEW e \in Endpoint, NEW s \in Slot,
             Exists(host[e][s]), ~Exists(host'[e][s]), edits' = edits
      PROVE  host[e][s].owner = "ours"
  <2>1. host' # host
    BY <1>1
  <2>2. Next
    BY <1>1, <2>1 DEF vars
  <2>3. CASE \E d \in Endpoint, t \in Slot, i \in Nat : Marked(d, t, i) /\ host' = Deleted(d, t, i)
    <3>1. PICK d \in Endpoint, t \in Slot, i \in Nat : Marked(d, t, i) /\ host' = Deleted(d, t, i)
      BY <2>3
    <3>2. e = d /\ s = t /\ host[d][t].id = i
      BY <1>1, <3>1, DeletedIs
    <3>. QED
      BY <1>1, <3>1, <3>2 DEF Marked
  <2>4. CASE pass.pc = "upsert" /\ host' = Upserted
    BY <1>1, <2>4, AtWork, UpsertedIs DEF Resolved
  <2>5. CASE \E d \in Endpoint, t \in Slot : EditHost(d, t)
    <3>1. edits' = edits + 1
      BY <2>5 DEF EditHost, MayEdit
    <3>. QED
      BY <1>1, <3>1, Typed
  <2>. QED
    BY <1>1, <2>1, <2>2, <2>3, <2>4, <2>5, HostStep
<1>2. IInv /\ [Next]_vars =>
        [\A e \in Endpoint, s \in Slot :
           Exists(host[e][s]) /\ ~Exists(host'[e][s]) /\ edits' = edits
              => host[e][s].owner = "ours"]_vars
  BY <1>1
<1>. QED
  BY <1>2, Invariance, PTL DEF Spec, DeletesOwnOnly

\* No pass that started from a current copy makes a host anywhere but where the
\* child's durable status says it will be.
THEOREM IntentComesFirst == Spec => IntentBeforeHost
<1>1. ASSUME IInv, [Next]_vars, NEW e \in Endpoint, NEW s \in Slot,
             ~Exists(host[e][s]), Exists(host'[e][s]), pass.fresh
      PROVE  obj.st.ep = e /\ obj.st.slot = s
  <2>1. host' # host
    BY <1>1
  <2>2. Next
    BY <1>1, <2>1 DEF vars
  <2>3. CASE \E d \in Endpoint, t \in Slot, i \in Nat : Marked(d, t, i) /\ host' = Deleted(d, t, i)
    BY <1>1, <2>3, DeletedIs
  <2>4. CASE pass.pc = "upsert" /\ host' = Upserted
    <3>1. PICK p \in Pass : p = pass /\ Sound(p) /\ Resolved(p) /\ targetSlot(p) \in Slot
      BY <1>1, <2>4, AtWork
    <3>2. e = p.ep /\ s = targetSlot(p)
      BY <1>1, <2>4, <3>1, UpsertedIs DEF Resolved
    <3>. QED
      BY <1>1, <2>4, <3>1, <3>2 DEF Sound, FreshOK
  <2>5. CASE \E d \in Endpoint, t \in Slot : EditHost(d, t)
    BY <1>1, <2>5, EditHostIs
  <2>. QED
    BY <1>1, <2>1, <2>2, <2>3, <2>4, <2>5, HostStep
<1>2. IInv /\ [Next]_vars =>
        [\A e \in Endpoint, s \in Slot :
           ~Exists(host[e][s]) /\ Exists(host'[e][s]) /\ pass.fresh
              => obj.st.ep = e /\ obj.st.slot = s]_vars
  BY <1>1
<1>. QED
  BY <1>2, Invariance, PTL DEF Spec, IntentBeforeHost

\* The steps that change AWX's jobs.
LEMMA JobStep ==
    ASSUME IInv, Next
    PROVE  \/ UNCHANGED jobs
           \/ pass.pc = "launch" /\ jobs' = [jobs EXCEPT ![pass.ep] = Append(@, Launched)]
           \/ \E e \in Endpoint : \E j \in DOMAIN jobs[e] : JobEnds(e, j)
<1>1. CASE PassStep
  BY <1>1 DEF PassStep, applyAnsibleBindingVM, pollRecordedJob, Connect, FindHost, DeleteHost,
     RecordHostIntent, UpsertHost, LaunchJobTemplate, LaunchFails, writeAnsibleBindingVMDetails,
     CallFails
<1>2. CASE ReapStep
  BY <1>2 DEF ReapStep, ListOwnedHosts, ConfirmOrphans, reapOrphanHosts, ScanFails
<1>. QED
  BY <1>1, <1>2 DEF Next, updateBindingChildSpec, SyncCache, Crash, VMChanges, Repoint,
     TemplateExpires, EditTemplate, EditHost

\* No run meant for one host goes to the whole inventory unless AWX was edited
\* after the pass that launched it had read the template from AWX.
THEOREM OnlyAnEditWidens == Spec => WidenedOnlyByEdit
<1>1. ASSUME IInv, [Next]_vars, NEW e \in Endpoint,
             Len(jobs'[e]) > Len(jobs[e]), jobs'[e][Len(jobs'[e])].dropped
      PROVE  edits > pass.edits
  <2>1. jobs \in [Endpoint -> Seq(Job)] /\ Len(jobs[e]) \in Nat
    BY <1>1, Typed
  <2>2. jobs' # jobs
    BY <1>1, <2>1
  <2>3. Next
    BY <1>1, <2>2 DEF vars
  <2>4. CASE pass.pc = "launch" /\ jobs' = [jobs EXCEPT ![pass.ep] = Append(@, Launched)]
    <3>1. PICK p \in Pass : p = pass /\ Sound(p)
      BY <1>1, <2>4, UnderWay
    <3>2. /\ \A d \in Endpoint : d # p.ep => jobs'[d] = jobs[d]
          /\ Len(jobs'[p.ep]) = Len(jobs[p.ep]) + 1
          /\ jobs'[p.ep][Len(jobs[p.ep]) + 1] = Launched /\ (Launched.dropped => p.edits # edits)
      BY <1>1, <2>4, <3>1, LaunchedIs
    <3>3. e = p.ep
      BY <1>1, <2>1, <3>2
    <3>4. p.edits # edits
      BY <1>1, <3>2, <3>3
    <3>5. p.edits <= edits /\ p.edits \in Nat /\ edits \in Nat
      BY <1>1, <2>4, <3>1, Numbers, Typed DEF Sound, PassOK, Pass
    <3>. QED
      BY <3>1, <3>4, <3>5
  <2>5. CASE \E d \in Endpoint : \E j \in DOMAIN jobs[d] : JobEnds(d, j)
    <3>1. PICK d \in Endpoint, r \in {"successful", "failed"} :
             \E j \in DOMAIN jobs[d] : jobs' = [jobs EXCEPT ![d][j].status = r]
      BY <2>5 DEF JobEnds
    <3>2. DOMAIN jobs'[e] = DOMAIN jobs[e]
      BY <2>1, <3>1
    <3>3. jobs'[e] \in Seq(Job) /\ Len(jobs'[e]) = Len(jobs[e])
      BY <1>1, <2>1, <2>3, <3>2, StepOK, Typed DEF IInv, TypeOK
    <3>. QED
      BY <1>1, <2>1, <3>3
  <2>. QED
    BY <1>1, <2>2, <2>3, <2>4, <2>5, JobStep
<1>2. IInv /\ [Next]_vars =>
        [\A e \in Endpoint :
           Len(jobs'[e]) > Len(jobs[e]) /\ jobs'[e][Len(jobs'[e])].dropped
             => edits > pass.edits]_vars
  BY <1>1
<1>. QED
  BY <1>2, Invariance, PTL DEF Spec, WidenedOnlyByEdit

=============================================================================
