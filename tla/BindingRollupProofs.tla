------------------------- MODULE BindingRollupProofs -------------------------
(***************************************************************************)
(* Proofs about BindingRollup, for any number of VMs, generations, retries *)
(* and faults, any burst and batch width, and any plan of edits.           *)
(***************************************************************************)
EXTENDS BindingRollup, TLAPS, FiniteSetTheorems

-----------------------------------------------------------------------------
(* The rollup *)

\* A count of VMs is a count.
LEMMA CountTyped ==
    /\ Cardinality(VM) \in Nat
    /\ \A S \in SUBSET VM : IsFiniteSet(S) /\ Cardinality(S) \in Count
<1>1. IsFiniteSet(VM) /\ Cardinality(VM) \in Nat
  BY RollupAssumption, FS_CardinalityType
<1>2. ASSUME NEW S \in SUBSET VM PROVE IsFiniteSet(S) /\ Cardinality(S) \in Count
  BY <1>1, <1>2, FS_Subset, FS_CardinalityType DEF Count
<1>. QED
  BY <1>1, <1>2

\* Two disjoint sets of VMs count as many as both.
LEMMA CountUnion ==
    ASSUME NEW S \in SUBSET VM, NEW T \in SUBSET VM, S \cap T = {}
    PROVE  Cardinality(S \cup T) = Cardinality(S) + Cardinality(T)
<1>1. IsFiniteSet(S) /\ IsFiniteSet(T) /\ Cardinality(S) \in Nat /\ Cardinality(T) \in Nat
  BY CountTyped DEF Count
<1>2. Cardinality(S \cup T) = Cardinality(S) + Cardinality(T) - Cardinality(S \cap T)
  BY <1>1, FS_Union, Zenon
<1>3. Cardinality(S \cap T) = 0
  BY FS_EmptySet
<1>. QED
  BY <1>1, <1>2, <1>3

\* Generations are numbers, and there is a first.
LEMMA GenTyped == 0 \in Gen /\ 1 \in Gen /\ Gen \subseteq Nat
BY RollupAssumption DEF Gen

\* What nothing looks like is of the right type.
LEMMA EmptyTyped ==
    /\ NoSummary \in Summary /\ NoObj \in Object /\ NoChild \in Child
    /\ NoPass.kids \in [VM -> Child] /\ Unprovisioned \in Word /\ ErrorWord \in Word
<1>1. NoSummary \in Summary
  BY CountTyped DEF NoSummary, Summary, Count
<1>2. NoChild \in Child
  BY GenTyped DEF NoChild, Child
<1>3. NoObj \in Object
  BY <1>1, GenTyped DEF NoObj, Object, Word
<1>4. NoPass.kids \in [VM -> Child]
  BY <1>2 DEF NoPass
<1>. QED
  BY <1>1, <1>2, <1>3, <1>4 DEF Word, Unprovisioned, ErrorWord

\* A VM is of one class.
LEMMA ClassIsOne ==
    ASSUME NEW c, NEW g
    PROVE  Class(c, g) \in {"failed", "ok", "running", "pending"}
BY DEF Class

\* Every matched VM is in exactly one count of the rollup.
LEMMA SummarizeTyped ==
    ASSUME NEW kids \in [VM -> Child], NEW listed \in SUBSET VM, NEW g
    PROVE  summarize(kids, listed, g) \in Summary
<1>. DEFINE own == listed \ plan.taken
            P(k) == {v \in own : Class(kids[v], g) = k}
<1>1. own = P("pending") \cup (P("running") \cup (P("ok") \cup P("failed")))
  BY ClassIsOne
<1>2. \A k \in {"pending", "running", "ok", "failed"} :
        P(k) \in SUBSET VM /\ Cardinality(P(k)) \in Count
  BY CountTyped
<1>3. /\ P("ok") \cap P("failed") = {}
      /\ P("running") \cap (P("ok") \cup P("failed")) = {}
      /\ P("pending") \cap (P("running") \cup (P("ok") \cup P("failed"))) = {}
  OBVIOUS
<1>4. \A k \in {"pending", "running", "ok", "failed"} : Of(k, kids, own, g) = Cardinality(P(k))
  BY DEF Of
<1>. HIDE DEF P
<1>5. Cardinality(P("ok") \cup P("failed")) = Cardinality(P("ok")) + Cardinality(P("failed"))
  BY <1>2, <1>3, CountUnion
<1>6. Cardinality(P("running") \cup (P("ok") \cup P("failed"))) =
        Cardinality(P("running")) + Cardinality(P("ok") \cup P("failed"))
  BY <1>2, <1>3, CountUnion
<1>7. Cardinality(own) = Cardinality(P("pending")) +
        Cardinality(P("running") \cup (P("ok") \cup P("failed")))
  BY <1>1, <1>2, <1>3, CountUnion
<1>8. Cardinality(listed) = Cardinality(own) + Cardinality(listed \cap plan.taken)
  <2>1. listed = own \cup (listed \cap plan.taken) /\ own \cap (listed \cap plan.taken) = {}
    OBVIOUS
  <2>2. own \in SUBSET VM /\ listed \cap plan.taken \in SUBSET VM
    OBVIOUS
  <2>. QED
    BY <2>1, <2>2, CountUnion
<1>9. /\ Cardinality(listed) \in Count /\ Cardinality(listed \cap plan.taken) \in Count
      /\ Cardinality({v \in VM : kids[v].deleting}) \in Count
  BY CountTyped
<1>10. /\ summarize(kids, listed, g) =
          [total |-> Cardinality(listed), pending |-> Cardinality(P("pending")),
           running |-> Cardinality(P("running")), ok |-> Cardinality(P("ok")),
           failed |-> Cardinality(P("failed")),
           conflicted |-> Cardinality(listed \cap plan.taken),
           leaving |-> Cardinality({v \in VM : kids[v].deleting})]
  BY <1>4 DEF summarize
<1>11. Count \subseteq Nat
  BY CountTyped DEF Count
<1>. HIDE DEF own
<1>12. /\ Cardinality(P("pending")) \in Nat /\ Cardinality(P("running")) \in Nat
       /\ Cardinality(P("ok")) \in Nat /\ Cardinality(P("failed")) \in Nat
       /\ Cardinality(listed \cap plan.taken) \in Nat
  BY <1>2, <1>9, <1>11
<1>13. Cardinality(listed) = Cardinality(P("pending")) + Cardinality(P("running")) +
         Cardinality(P("ok")) + Cardinality(P("failed")) + Cardinality(listed \cap plan.taken)
  BY <1>5, <1>6, <1>7, <1>8, <1>12
<1>. QED
  BY <1>2, <1>9, <1>10, <1>13 DEF Summary

\* A rollup has a word.
LEMMA WordTyped ==
    ASSUME NEW s \in Summary
    PROVE  updateAnsibleBindingStatus(s) \in Word
<1>1. s.total \in Nat /\ s.leaving \in Nat /\ s.conflicted \in Nat /\ s.failed \in Nat
      /\ s.running \in Nat /\ s.pending \in Nat
  BY CountTyped DEF Summary, Count
<1>. QED
  BY <1>1 DEF updateAnsibleBindingStatus, Word

\* Ready leaves no matched VM in any count but ok.
LEMMA ReadyMeansDone ==
    ASSUME NEW kids \in [VM -> Child], NEW listed \in SUBSET VM, NEW g,
           updateAnsibleBindingStatus(summarize(kids, listed, g)).state = "Ready",
           NEW v \in listed
    PROVE  kids[v].phase = "Succeeded" /\ kids[v].applied = g
<1>. DEFINE s == summarize(kids, listed, g)
            own == listed \ plan.taken
<1>1. s \in Summary
  BY SummarizeTyped
<1>2. s.total \in Nat /\ s.leaving \in Nat /\ s.conflicted \in Nat /\ s.failed \in Nat
      /\ s.running \in Nat /\ s.pending \in Nat
  BY <1>1, CountTyped DEF Summary, Count
<1>. HIDE DEF s
<1>3. s.conflicted = 0 /\ s.failed = 0 /\ s.running = 0 /\ s.pending = 0
  <2>1. updateAnsibleBindingStatus(s).state = "Ready"
    BY DEF s
  <2>. QED
    BY <1>2, <2>1 DEF updateAnsibleBindingStatus
<1>4. /\ Cardinality(listed \cap plan.taken) = 0 /\ Of("failed", kids, own, g) = 0
      /\ Of("running", kids, own, g) = 0 /\ Of("pending", kids, own, g) = 0
  BY <1>3 DEF s, summarize
<1>5. listed \cap plan.taken = {}
  BY <1>4, CountTyped, FS_EmptySet
<1>6. ASSUME NEW k \in {"failed", "running", "pending"} PROVE Class(kids[v], g) # k
  <2>. DEFINE K == {w \in own : Class(kids[w], g) = k}
  <2>1. K \in SUBSET VM /\ Cardinality(K) = 0
    BY <1>4 DEF Of
  <2>2. K = {}
    BY <2>1, CountTyped, FS_EmptySet
  <2>. QED
    BY <2>2, <1>5
<1>7. Class(kids[v], g) = "ok"
  BY <1>6, ClassIsOne
<1>. QED
  BY <1>7 DEF Class, Outdated

\* A pass that has ended is one with nothing in it.
LEMMA NoPassTyped == NoPass \in Pass /\ NoPass.pc = "idle" /\ NoPass.src = NoObj /\ NoPass.size = 0
BY EmptyTyped DEF NoPass, Pass

-----------------------------------------------------------------------------
(* The queue *)

\* What each operation of the queue does to a key, and leaves alone.
LEMMA QueueOps ==
    ASSUME NEW q \in Queue
    PROVE  /\ Add(q) \in Queue /\ Add(q).dirty /\ Add(q).proc = q.proc /\ Add(q).later = q.later
           /\ AddAfter(q) \in Queue /\ AddAfter(q).later
           /\ AddAfter(q).proc = q.proc /\ AddAfter(q).dirty = q.dirty
           /\ AddRateLimited(q) \in Queue /\ AddRateLimited(q).later
           /\ AddRateLimited(q).proc = q.proc /\ AddRateLimited(q).dirty = q.dirty
           /\ Done(q) \in Queue /\ ~Done(q).proc
           /\ Done(q).dirty = q.dirty /\ Done(q).later = q.later
           /\ Forget(q) \in Queue /\ Forget(q).proc = q.proc
           /\ Forget(q).dirty = q.dirty /\ Forget(q).later = q.later
<1>1. 0 \in Tries /\ \A t \in Tries : t < MaxRetries => t + 1 \in Tries
  BY RollupAssumption DEF Tries
<1>2. (IF q.tries < MaxRetries THEN q.tries + 1 ELSE q.tries) \in Tries
  BY <1>1 DEF Queue
<1>. QED
  BY <1>1, <1>2 DEF Queue, Add, AddAfter, AddRateLimited, Done, Forget

\* A pass that ends well leaves the key as due as it was.
LEMMA EndsIs ==
    ASSUME NEW q \in Queue, Ends(q)
    PROVE  /\ pass' = NoPass /\ queue' \in Queue /\ ~queue'.proc
           /\ queue'.dirty = q.dirty /\ queue'.later = q.later /\ dropped' = dropped
<1>1. Forget(q) \in Queue /\ Forget(q).dirty = q.dirty /\ Forget(q).later = q.later
  BY QueueOps
<1>. QED
  BY <1>1, QueueOps DEF Ends

\* One that fails leaves it due, or given up; never given up after a cleanup.
LEMMA RetriesIs ==
    ASSUME NEW q \in Queue, dropped \in BOOLEAN, Retries(q)
    PROVE  /\ pass' = NoPass /\ queue' \in Queue /\ ~queue'.proc
           /\ queue'.dirty = q.dirty /\ (q.later => queue'.later)
           /\ dropped' \in BOOLEAN /\ (dropped => dropped')
           /\ queue'.later \/ dropped'
           /\ pass.pc = "cleanup" => queue'.later
<1>1. CASE isCleanupPending(pass) \/ q.tries < MaxRetries
  <2>1. queue' = Done(AddRateLimited(q)) /\ dropped' = dropped /\ pass' = NoPass
    BY <1>1 DEF Retries
  <2>. QED
    BY <2>1, QueueOps
<1>2. CASE ~(isCleanupPending(pass) \/ q.tries < MaxRetries)
  <2>1. queue' = Done(Forget(q)) /\ dropped' = TRUE /\ pass' = NoPass /\ pass.pc # "cleanup"
    BY <1>2 DEF Retries, isCleanupPending
  <2>. QED
    BY <2>1, QueueOps
<1>. QED
  BY <1>1, <1>2

-----------------------------------------------------------------------------
(* Bursts *)

\* The least of two or three numbers is one of them, and not above any.
LEMMA LeastIs ==
    ASSUME NEW a \in Nat, NEW b \in Nat, NEW c \in Nat
    PROVE  /\ Least({a, b, c}) \in Nat
           /\ Least({a, b, c}) <= a /\ Least({a, b, c}) <= b /\ Least({a, b, c}) <= c
<1>1. \E x \in {a, b, c} : \A y \in {a, b, c} : x <= y
  <2>1. CASE a <= b /\ a <= c
    BY <2>1
  <2>2. CASE b <= a /\ b <= c
    BY <2>2
  <2>3. CASE c <= a /\ c <= b
    BY <2>3
  <2>. QED
    BY <2>1, <2>2, <2>3
<1>2. Least({a, b, c}) \in {a, b, c} /\ \A y \in {a, b, c} : Least({a, b, c}) <= y
  BY <1>1 DEF Least
<1>. QED
  BY <1>2

LEMMA LeastOfTwo ==
    ASSUME NEW a \in Nat, NEW b \in Nat
    PROVE  Least({a, b}) \in Nat /\ Least({a, b}) <= a /\ Least({a, b}) <= b
<1>1. {a, b} = {a, b, b}
  OBVIOUS
<1>. QED
  BY <1>1, LeastIs

\* A burst and what follows it change what calls are to be made, not what they
\* are for.
SameReport(p, q) == q.src = p.src /\ q.listed = p.listed /\ q.sum = p.sum

\* A burst is as long as its list, or as the limit.
LEMMA BurstfulIs ==
    ASSUME NEW p \in Pass, NEW calls \in SUBSET VM, NEW then \in SUBSET VM
    PROVE  /\ Burstful(p, calls, then) \in Pass
           /\ Burstful(p, calls, then).size <= Burstful(p, calls, then).left
           /\ Burstful(p, calls, then).pc = p.pc /\ SameReport(p, Burstful(p, calls, then))
<1>. DEFINE left == Least({Cardinality(calls), Burst})
            size == Least({left, 1})
<1>1. left \in Nat
  <2>1. Cardinality(calls) \in Nat /\ Burst \in Nat
    BY CountTyped, RollupAssumption DEF Count
  <2>. QED
    BY <2>1, LeastOfTwo
<1>. HIDE DEF left
<1>2. size \in Nat /\ size <= left
  BY <1>1, LeastOfTwo
<1>. HIDE DEF size
<1>3. Burstful(p, calls, then) =
        [p EXCEPT !.todo = calls, !.then = then, !.left = left, !.size = size]
  BY DEF Burstful, left, size
<1>. QED
  BY <1>1, <1>2, <1>3 DEF Pass, SameReport

\* A pass goes on with its burst, to the next one, or to its report.
LEMMA OnwardIs ==
    ASSUME NEW p \in Pass, p.size <= p.left, p.pc \in {"delete", "write"}
    PROVE  /\ Onward(p) \in Pass /\ Onward(p).size <= Onward(p).left
           /\ Onward(p).pc \in {"delete", "write", "report"} /\ SameReport(p, Onward(p))
<1>. DEFINE m == p.more \/ p.todo # {}
            q == [p EXCEPT !.more = m]
            u == [q EXCEPT !.pc = "write"]
            w == Burstful(u, p.then, {})
            r == [q EXCEPT !.pc = "report", !.todo = {}, !.then = {}, !.left = 0,
                           !.kids = NoPass.kids]
<1>1. \/ Onward(p) = p \/ Onward(p) = w
      \/ Onward(p) = r /\ ~(p.size > 0)
  BY DEF Onward
<1>2. q \in Pass /\ SameReport(p, q) /\ q.size = p.size
  BY DEF Pass, SameReport
<1>. HIDE DEF q
<1>3. u \in Pass /\ u.pc = "write" /\ SameReport(p, u) /\ p.then \in SUBSET VM
  BY <1>2 DEF Pass, SameReport
<1>. HIDE DEF u
<1>4. w \in Pass /\ w.pc = "write" /\ SameReport(p, w) /\ w.size <= w.left
  BY <1>3, BurstfulIs DEF SameReport
<1>5. r \in Pass /\ r.pc = "report" /\ SameReport(p, r) /\ r.size = p.size /\ r.left = 0
  BY <1>2, EmptyTyped DEF Pass, SameReport
<1>6. ~(p.size > 0) => p.size = 0
  BY DEF Pass
<1>. HIDE DEF w, r
<1>. QED
  BY <1>1, <1>4, <1>5, <1>6 DEF SameReport

-----------------------------------------------------------------------------
(* Initially *)

\* A binding just created, or one that has settled.
LEMMA InitOK == Init => IInv
<1>. SUFFICES ASSUME Init PROVE IInv
  OBVIOUS
<1>1. plan \in Plans /\ plan.first \subseteq VM /\ plan.settled \in BOOLEAN /\ sel \in SUBSET VM
      /\ edits \in 0 .. plan.edits /\ faults \in 0 .. plan.faults
  BY RollupAssumption DEF Init
<1>2. /\ DoneChild \in Child /\ NoChild \in Child
      /\ DoneChild.applied = 1 /\ DoneChild.gen = 1 /\ DoneChild.phase = "Succeeded"
  BY GenTyped, EmptyTyped DEF DoneChild, Child, NoChild
<1>3. child \in [VM -> Child] /\ ccopy = child /\ \A v \in VM : child[v] \in {DoneChild, NoChild}
  BY <1>1, <1>2 DEF Init
<1>4. ran = [v \in VM |-> {child[v].applied} \ {0}]
  BY DEF Init
<1>5. ASSUME NEW v \in VM PROVE ChildOK(v, child[v]) /\ ran[v] \in SUBSET (Gen \ {0})
  <2>1. CASE child[v] = DoneChild
    BY GenTyped, <1>2, <1>4, <2>1 DEF ChildOK
  <2>2. CASE child[v] = NoChild
    BY <1>4, <2>2 DEF ChildOK, NoChild
  <2>. QED
    BY <1>3, <2>1, <2>2
<1>6. obj \in Object /\ obj.exists /\ obj.gen = 1 /\ obj.obs <= 1 /\ ~obj.deleting
      /\ copy \in {obj, NoObj}
  <2>. DEFINE s == summarize(child, sel, 1)
              w == updateAnsibleBindingStatus(s)
  <2>1. s \in Summary
    BY <1>1, <1>3, SummarizeTyped
  <2>2. w \in Word
    BY <2>1, WordTyped
  <2>3. CASE plan.settled
    <3>1. copy = obj /\ obj = [NoObj EXCEPT !.exists = TRUE, !.gen = 1, !.fin = TRUE, !.obs = 1,
                                          !.sum = s, !.word = w]
      BY <2>3 DEF Init
    <3>. HIDE DEF s, w
    <3>2. obj \in Object
      BY <2>1, <2>2, <3>1, GenTyped, EmptyTyped DEF Object
    <3>. QED
      BY <3>1, <3>2 DEF NoObj
  <2>4. CASE ~plan.settled
    <3>1. copy = NoObj /\ obj = [NoObj EXCEPT !.exists = TRUE, !.gen = 1]
      BY <2>4 DEF Init
    <3>2. obj \in Object
      BY <3>1, GenTyped, EmptyTyped DEF Object
    <3>. QED
      BY <3>1, <3>2 DEF NoObj
  <2>. QED
    BY <1>1, <2>3, <2>4
<1>7. pass = NoPass /\ queue = [dirty |-> FALSE, proc |-> FALSE, later |-> FALSE, tries |-> 0]
      /\ unseen = FALSE /\ dropped = FALSE
  BY DEF Init
<1>8. TypeOK
  <2>1. ran \in [VM -> SUBSET (Gen \ {0})]
    BY <1>4, <1>5
  <2>2. obj \in Object /\ copy \in Object /\ \A o \in {obj, copy, pass.src} : o.obs <= o.gen
    <3>1. NoObj.obs <= NoObj.gen
      BY DEF NoObj
    <3>. QED
      BY <1>6, <1>7, <3>1, EmptyTyped, NoPassTyped
  <2>3. pass \in Pass /\ pass.pc = "idle" /\ pass.size <= pass.left
    <3>1. NoPass.left = 0
      BY DEF NoPass
    <3>. QED
      BY <1>7, <3>1, NoPassTyped
  <2>4. queue \in Queue /\ ~queue.proc
    <3>1. 0 \in Tries
      BY RollupAssumption DEF Tries
    <3>. QED
      BY <1>7, <3>1 DEF Queue
  <2>. QED
    BY <1>1, <1>3, <2>1, <2>2, <2>3, <2>4 DEF TypeOK
<1>9. (\A o \in {obj, copy, pass.src} : ObjectOK(o)) /\ CopiesLag /\ PassOK /\ DeletionDue /\ NewsDue
       /\ RollupEarned
  BY <1>6, <1>7 DEF NoPass, NoObj, ObjectOK, CopiesLag, PassOK, DeletionDue, NewsDue, RollupEarned
<1>. QED
  BY <1>3, <1>5, <1>7, <1>8, <1>9 DEF IInv

-----------------------------------------------------------------------------
(* Steps of a pass, by what they change *)

\* A step leaves the object there is as it is, but for what a status write or a
\* finalizer changes, or takes it away.
ObjKept ==
    /\ obj' \in Object /\ obj'.obs <= obj'.gen /\ ObjectOK(obj')
    /\ obj'.exists => obj.exists /\ obj'.gen = obj.gen /\ obj'.deleting = obj.deleting

\* It leaves the children what they should be, and counts no fault too many.
RestKept ==
    /\ child' \in [VM -> Child] /\ \A v \in VM : ChildOK(v, child[v])'
    /\ faults' \in 0 .. plan.faults
    /\ UNCHANGED <<copy, ccopy, sel, ran, plan, edits>>

\* A pass ends, and what it knew of is due if it was not dealt with.
LEMMA PassStops ==
    ASSUME IInv, ObjKept, RestKept, pass' = NoPass,
           queue' \in Queue, ~queue'.proc, queue.dirty => queue'.dirty, queue.later => queue'.later,
           dropped' \in BOOLEAN, dropped => dropped', unseen' = unseen,
           pass.pc \in {"hold", "reread", "decide"} => queue'.later \/ dropped',
           pass.pc = "cleanup" /\ obj'.exists => queue'.later
    PROVE  IInv'
<1>1. pass' \in Pass /\ pass'.pc = "idle" /\ pass'.src = NoObj /\ pass'.size <= pass'.left
  BY NoPassTyped DEF NoPass
<1>2. NoObj.gen = 0 /\ NoObj.obs = 0 /\ ~NoObj.exists /\ ~NoObj.deleting /\ ObjectOK(NoObj)
  BY DEF NoObj, ObjectOK
<1>3. TypeOK'
  BY <1>1, <1>2 DEF TypeOK, ObjKept, RestKept, IInv
<1>4. \A o \in {obj', copy', pass'.src} : ObjectOK(o)
  BY <1>1, <1>2 DEF IInv, ObjKept, RestKept
<1>5. CopiesLag'
  <2>1. obj'.exists => obj'.gen \in Nat
    BY GenTyped DEF ObjKept, Object
  <2>. QED
    BY <1>1, <1>2, <2>1 DEF IInv, ObjKept, RestKept, CopiesLag
<1>6. PassOK' /\ RollupEarned'
  BY <1>1 DEF PassOK, RollupEarned
<1>7. DeletionDue'
  BY DEF IInv, ObjKept, RestKept, DeletionDue, ObjectOK
<1>8. NewsDue'
  BY DEF IInv, RestKept, NewsDue
<1>. QED
  BY <1>3, <1>4, <1>5, <1>6, <1>7, <1>8 DEF IInv, RestKept, ChildOK

\* A pass goes on, and keeps the key.
LEMMA PassGoesOn ==
    ASSUME IInv, ObjKept, RestKept, NEW q \in Pass, pass' = q, q.pc # "idle",
           q.size <= q.left, q.src.obs <= q.src.gen, ObjectOK(q.src),
           obj'.exists => q.src.gen <= obj'.gen,
           pass.pc \notin {"idle", "cleanup"}, PassOK', RollupEarned',
           queue' = queue, dropped' = dropped, unseen' \in BOOLEAN, unseen' => unseen,
           \/ q.pc \in {"hold", "reread", "decide"} \/ ~unseen'
           \/ pass.pc \notin {"hold", "reread", "decide"}
    PROVE  IInv'
<1>1. TypeOK'
  BY DEF TypeOK, ObjKept, RestKept, IInv
<1>2. \A o \in {obj', copy', pass'.src} : ObjectOK(o)
  BY DEF IInv, ObjKept, RestKept
<1>3. CopiesLag' /\ DeletionDue'
  BY DEF IInv, ObjKept, RestKept, CopiesLag, DeletionDue, ObjectOK
<1>4. NewsDue'
  BY DEF IInv, RestKept, NewsDue
<1>. QED
  BY <1>1, <1>2, <1>3, <1>4 DEF IInv, RestKept, ChildOK

\* A write of state and message, or none.
LEMMA WordKept ==
    ASSUME IInv, NEW w \in Word, obj' \in {obj, [obj EXCEPT !.word = w]}
    PROVE  ObjKept /\ obj'.deleting = obj.deleting /\ obj'.exists = obj.exists /\ obj'.fin = obj.fin
<1>1. obj \in Object /\ obj.obs <= obj.gen /\ ObjectOK(obj)
  BY DEF IInv, TypeOK
<1>. QED
  BY <1>1 DEF ObjKept, ObjectOK, Object

\* A step that leaves children and faults alone.
LEMMA StillKept ==
    ASSUME IInv, UNCHANGED <<copy, child, ccopy, envVars>>, UNCHANGED faults \/ Fault
    PROVE  RestKept
<1>1. faults' \in 0 .. plan.faults
  <2>1. faults \in 0 .. plan.faults /\ plan.faults \in Nat
    BY RollupAssumption DEF IInv, TypeOK
  <2>. QED
    BY <2>1 DEF Fault
<1>. QED
  BY <1>1 DEF IInv, TypeOK, RestKept, envVars, ChildOK

\* A step that fails writes the error down, and is retried or given up.
LEMMA ErrsOK ==
    ASSUME IInv, Errs, UNCHANGED <<copy, child, ccopy, envVars, unseen>>, UNCHANGED faults \/ Fault
    PROVE  IInv'
<1>1. queue \in Queue /\ dropped \in BOOLEAN
  BY DEF IInv, TypeOK
<1>2. obj' \in {obj, [obj EXCEPT !.word = ErrorWord]} /\ Retries(queue)
  BY DEF Errs
<1>3. ObjKept
  BY <1>2, WordKept, EmptyTyped
<1>4. RestKept
  BY StillKept
<1>5. /\ pass' = NoPass /\ queue' \in Queue /\ ~queue'.proc
      /\ queue'.dirty = queue.dirty /\ (queue.later => queue'.later)
      /\ dropped' \in BOOLEAN /\ (dropped => dropped')
      /\ queue'.later \/ dropped'
      /\ pass.pc = "cleanup" => queue'.later
  BY <1>1, <1>2, RetriesIs
<1>. QED
  BY <1>3, <1>4, <1>5, PassStops

-----------------------------------------------------------------------------
(* The steps of a pass *)

\* A pass begins on what the copy is.
LEMMA PassStarts ==
    ASSUME IInv, NEW q \in Pass, pass' = q, queue' \in Queue, queue'.proc <=> q.pc # "idle",
           queue'.later = queue.later, pass.pc = "idle", q.size <= q.left,
           q.src \in {NoObj, copy}, q.pc = "decide" => q.src = copy,
           \/ q.pc = "cleanup" /\ copy.deleting
           \/ q.pc \in {"hold", "decide"} /\ copy.exists /\ ~copy.deleting
           \/ q.pc = "idle" /\ ~copy.exists,
           dropped' = FALSE, UNCHANGED <<obj, copy, child, ccopy, envVars, unseen, faults>>
    PROVE  IInv'
<1>1. RestKept
  BY StillKept
<1>2. NoObj.gen = 0 /\ NoObj.obs = 0 /\ ~NoObj.exists /\ ~NoObj.deleting /\ ObjectOK(NoObj)
  BY DEF NoObj, ObjectOK
<1>3. TypeOK'
  BY <1>1, <1>2 DEF TypeOK, RestKept, IInv
<1>4. \A o \in {obj', copy', pass'.src} : ObjectOK(o)
  BY <1>1, <1>2 DEF IInv, RestKept
<1>5. CopiesLag'
  <2>1. obj.exists => obj.gen \in Nat
    BY GenTyped DEF IInv, TypeOK, Object
  <2>. QED
    BY <1>1, <1>2, <2>1 DEF IInv, RestKept, CopiesLag
<1>6. PassOK' /\ RollupEarned'
  BY DEF PassOK, RollupEarned
<1>7. DeletionDue' /\ NewsDue'
  BY <1>4 DEF DeletionDue, NewsDue, ObjectOK
<1>. QED
  BY <1>1, <1>3, <1>4, <1>5, <1>6, <1>7 DEF IInv, RestKept, ChildOK

LEMMA processNextWorkItemOK == IInv /\ processNextWorkItem => IInv'
<1>. SUFFICES ASSUME IInv, processNextWorkItem PROVE IInv'
  OBVIOUS
<1>. DEFINE q == [queue EXCEPT !.dirty = FALSE, !.proc = TRUE]
            P(pc) == [NoPass EXCEPT !.pc = pc, !.src = IF pc = "decide" THEN copy ELSE NoObj]
<1>1. /\ queue \in Queue /\ copy \in Object /\ pass.pc = "idle"
      /\ dropped' = FALSE /\ UNCHANGED <<obj, copy, child, ccopy, envVars, unseen, faults>>
  BY DEF IInv, TypeOK, processNextWorkItem
<1>2. /\ q \in Queue /\ q.proc /\ q.later = queue.later
  BY <1>1 DEF Queue
<1>3. Done(Forget(q)) \in Queue /\ ~Done(Forget(q)).proc /\ Done(Forget(q)).later = queue.later
  <2>. HIDE DEF q
  <2>1. Forget(q) \in Queue /\ Forget(q).later = queue.later
    BY <1>2, QueueOps
  <2>. QED
    BY <2>1, QueueOps
<1>4. ASSUME NEW pc \in {"cleanup", "hold", "decide"}
      PROVE  /\ P(pc) \in Pass /\ P(pc).pc = pc /\ P(pc).size <= P(pc).left
             /\ P(pc).src = IF pc = "decide" THEN copy ELSE NoObj
  <2>. DEFINE o == IF pc = "decide" THEN copy ELSE NoObj
  <2>1. NoPass.size = 0 /\ NoPass.left = 0
    BY DEF NoPass
  <2>2. o \in Object
    BY <1>1, EmptyTyped
  <2>. HIDE DEF o
  <2>3. P(pc) = [NoPass EXCEPT !.pc = pc, !.src = o]
    BY DEF o
  <2>4. P(pc) \in Pass /\ P(pc).pc = pc /\ P(pc).src = o
    BY <2>2, <2>3, NoPassTyped DEF Pass
  <2>5. P(pc).size = 0 /\ P(pc).left = 0
    BY <2>1, <2>3, NoPassTyped DEF Pass
  <2>. QED
    BY <2>4, <2>5 DEF o
<1>5. ObjectOK(copy)
  BY DEF IInv
<1>6. \/ copy.deleting /\ pass' = P("cleanup") /\ queue' = q
      \/ copy.exists /\ ~copy.deleting /\ pass' = P("hold") /\ queue' = q
      \/ copy.exists /\ ~copy.deleting /\ pass' = P("decide") /\ queue' = q
      \/ ~copy.exists /\ pass' = NoPass /\ queue' = Done(Forget(q))
  BY <1>5 DEF processNextWorkItem, ObjectOK
<1>. HIDE DEF q, P
<1>7. CASE pass' = NoPass /\ ~copy.exists /\ queue' = Done(Forget(q))
  <2>1. NoPass.size <= NoPass.left
    BY DEF NoPass
  <2>2. queue' \in Queue /\ ~queue'.proc /\ queue'.later = queue.later
    BY <1>3, <1>7
  <2>. QED
    BY <1>1, <1>7, <2>1, <2>2, NoPassTyped, PassStarts
<1>8. CASE copy.deleting /\ pass' = P("cleanup") /\ queue' = q
  BY <1>1, <1>2, <1>4, <1>8, PassStarts
<1>9. CASE copy.exists /\ ~copy.deleting /\ pass' = P("hold") /\ queue' = q
  BY <1>1, <1>2, <1>4, <1>9, PassStarts
<1>10. CASE copy.exists /\ ~copy.deleting /\ pass' = P("decide") /\ queue' = q
  BY <1>1, <1>2, <1>4, <1>10, PassStarts
<1>. QED
  BY <1>6, <1>7, <1>8, <1>9, <1>10

LEMMA HoldFinalizerOK == IInv /\ HoldFinalizer => IInv'
<1>. SUFFICES ASSUME IInv, HoldFinalizer PROVE IInv'
  OBVIOUS
<1>1. CASE obj.exists /\ ~obj.deleting
  <2>. DEFINE q == [pass EXCEPT !.pc = "reread"]
  <2>1. /\ obj' = [obj EXCEPT !.fin = TRUE, !.word = Unprovisioned] /\ pass' = q
        /\ UNCHANGED <<queue, dropped, unseen, copy, child, ccopy, envVars, faults>>
        /\ pass.pc = "hold"
    BY <1>1 DEF HoldFinalizer
  <2>2. RestKept
    BY <2>1, StillKept
  <2>3. obj \in Object /\ obj.obs <= obj.gen /\ ObjectOK(obj)
    BY DEF IInv, TypeOK
  <2>4. ObjKept /\ obj'.exists /\ obj'.fin /\ obj'.gen = obj.gen
    BY <1>1, <2>1, <2>3, EmptyTyped DEF ObjKept, ObjectOK, Object
  <2>5. pass \in Pass
    BY DEF IInv, TypeOK
  <2>6. /\ q \in Pass /\ q.pc = "reread" /\ q.src = pass.src
        /\ q.size = pass.size /\ q.left = pass.left
    BY <2>5 DEF Pass
  <2>. HIDE DEF q
  <2>7. PassOK' /\ RollupEarned'
    BY <2>1, <2>4, <2>6 DEF PassOK, RollupEarned
  <2>8. q.size <= q.left /\ q.src.obs <= q.src.gen /\ ObjectOK(q.src) /\ q.src.gen <= obj'.gen
        /\ unseen' \in BOOLEAN
    BY <1>1, <2>1, <2>4, <2>6 DEF IInv, TypeOK, CopiesLag
  <2>. QED
    BY <2>1, <2>2, <2>4, <2>6, <2>7, <2>8, PassGoesOn
<1>2. CASE ~(obj.exists /\ ~obj.deleting)
  BY <1>2, ErrsOK DEF HoldFinalizer
<1>. QED
  BY <1>1, <1>2

LEMMA RereadLiveOK == IInv /\ RereadLive => IInv'
<1>. SUFFICES ASSUME IInv, RereadLive PROVE IInv'
  OBVIOUS
<1>. DEFINE q == [pass EXCEPT !.pc = "decide", !.src = obj]
<1>1. /\ pass' = q /\ pass.pc = "reread"
      /\ UNCHANGED <<obj, queue, dropped, unseen, copy, child, ccopy, envVars, faults>>
  BY DEF RereadLive, IInv, PassOK
<1>2. RestKept
  BY <1>1, StillKept
<1>3. pass \in Pass /\ obj \in Object /\ obj.obs <= obj.gen /\ ObjectOK(obj) /\ obj.exists
  BY <1>1 DEF IInv, TypeOK, PassOK
<1>4. ObjKept /\ obj.gen <= obj.gen
  BY <1>1, <1>3, GenTyped DEF ObjKept, Object
<1>5. q \in Pass /\ q.pc = "decide" /\ q.src = obj /\ q.size = pass.size /\ q.left = pass.left
  BY <1>3 DEF Pass
<1>. HIDE DEF q
<1>6. PassOK' /\ RollupEarned'
  BY <1>1, <1>3, <1>5 DEF PassOK, RollupEarned
<1>7. q.size <= q.left /\ unseen' \in BOOLEAN
  BY <1>1, <1>5 DEF IInv, TypeOK
<1>. QED
  BY <1>1, <1>2, <1>3, <1>4, <1>5, <1>6, <1>7, PassGoesOn

\* A pass decides, and its rollup is earned if it says Ready.
LEMMA applyAnsibleBindingOK == IInv /\ applyAnsibleBinding => IInv'
<1>. SUFFICES ASSUME IInv, applyAnsibleBinding PROVE IInv'
  OBVIOUS
<1>. DEFINE k == ccopy
            gone == {v \in VM : k[v].gen # 0 /\ v \notin sel}
            stale == {v \in sel \ plan.taken : ~k[v].deleting /\ k[v].gen # pass.src.gen}
            s == summarize(k, sel, pass.src.gen)
            p == [pass EXCEPT !.pc = "delete", !.listed = sel, !.kids = k, !.sum = s]
            b == Burstful(p, gone, stale)
            q == Onward(b)
<1>1. /\ pass' = q /\ unseen' = FALSE /\ pass.pc = "decide"
      /\ UNCHANGED <<obj, copy, child, ccopy, envVars, queue, dropped, faults>>
  BY DEF applyAnsibleBinding
<1>2. pass \in Pass /\ k \in [VM -> Child] /\ sel \in SUBSET VM /\ gone \in SUBSET VM
      /\ stale \in SUBSET VM
  BY DEF IInv, TypeOK
<1>3. s \in Summary
  BY <1>2, SummarizeTyped
<1>. HIDE DEF gone, stale
<1>4. updateAnsibleBindingStatus(s).state = "Ready" => \A v \in sel : pass.src.gen \in ran[v]
  <2>. SUFFICES ASSUME updateAnsibleBindingStatus(s).state = "Ready", NEW v \in sel
                PROVE  pass.src.gen \in ran[v]
    OBVIOUS
  <2>1. k[v].phase = "Succeeded" /\ k[v].applied = pass.src.gen
    BY <1>2, ReadyMeansDone
  <2>2. v \in VM /\ ChildOK(v, ccopy[v])
    BY <1>2 DEF IInv
  <2>. QED
    BY <2>1, <2>2 DEF ChildOK
<1>. HIDE DEF s, k
<1>5. p \in Pass /\ p.pc = "delete" /\ p.src = pass.src /\ p.listed = sel /\ p.sum = s
  BY <1>2, <1>3 DEF Pass
<1>. HIDE DEF p
<1>6. b \in Pass /\ b.size <= b.left /\ b.pc = "delete" /\ SameReport(p, b)
  BY <1>2, <1>5, BurstfulIs
<1>. HIDE DEF b
<1>7. q \in Pass /\ q.size <= q.left /\ q.pc \in {"delete", "write", "report"} /\ SameReport(b, q)
  BY <1>6, OnwardIs
<1>. HIDE DEF q
<1>8. q.src = pass.src /\ q.listed = sel /\ q.sum = s
  BY <1>5, <1>6, <1>7 DEF SameReport
<1>9. pass.src.exists /\ pass.src.obs <= pass.src.gen /\ ObjectOK(pass.src)
      /\ (obj.exists => pass.src.gen <= obj.gen)
      /\ obj \in Object /\ obj.obs <= obj.gen /\ ObjectOK(obj)
  BY <1>1 DEF IInv, TypeOK, PassOK, CopiesLag
<1>10. ObjKept /\ RestKept
  BY <1>1, <1>9, StillKept DEF ObjKept
<1>11. PassOK' /\ RollupEarned'
  <2>1. ran' = ran
    BY <1>1 DEF envVars
  <2>. QED
    BY <1>1, <1>4, <1>7, <1>8, <1>9, <2>1 DEF PassOK, RollupEarned
<1>. QED
  BY <1>1, <1>7, <1>8, <1>9, <1>10, <1>11, PassGoesOn

\* A call that takes leaves a child what it should be.
LEMMA AppliedOK ==
    ASSUME IInv, pass.pc \in {"delete", "write"}, NEW v \in VM
    PROVE  Applied(v) \in Child /\ ChildOK(v, Applied(v))
<1>1. child[v] \in Child /\ ChildOK(v, child[v]) /\ pass.src.gen \in Gen
  BY DEF IInv, TypeOK, Pass, Object
<1>2. pass.src.gen # 0
  BY DEF IInv, PassOK, ObjectOK
<1>3. NoChild \in Child /\ ChildOK(v, NoChild)
  BY EmptyTyped DEF ChildOK, NoChild
<1>4. ASSUME NEW c \in Child, c.gen # 0, c.phase = child[v].phase, c.applied = child[v].applied
      PROVE  ChildOK(v, c)
  BY <1>1, <1>4 DEF ChildOK
<1>. DEFINE d == [child[v] EXCEPT !.deleting = TRUE]
            g == [child[v] EXCEPT !.gen = pass.src.gen]
<1>5. d \in Child /\ d.gen = child[v].gen /\ d.phase = child[v].phase /\ d.applied = child[v].applied
  BY <1>1 DEF Child
<1>6. g \in Child /\ g.gen = pass.src.gen /\ g.phase = child[v].phase /\ g.applied = child[v].applied
  BY <1>1 DEF Child
<1>7. \/ Applied(v) = d /\ child[v].gen # 0
      \/ Applied(v) \in {NoChild, child[v], g}
  BY DEF Applied
<1>. HIDE DEF d, g
<1>8. ChildOK(v, g) /\ (child[v].gen # 0 => ChildOK(v, d))
  BY <1>2, <1>4, <1>5, <1>6
<1>. QED
  BY <1>1, <1>3, <1>5, <1>6, <1>7, <1>8

LEMMA issueChildWritesOK == IInv /\ issueChildWrites => IInv'
<1>. SUFFICES ASSUME IInv, issueChildWrites PROVE IInv'
  OBVIOUS
<1>1. pass.pc \in {"delete", "write"} /\ UNCHANGED <<obj, copy, ccopy, envVars, queue, unseen, dropped>>
  BY DEF issueChildWrites
<1>. DEFINE batch == FirstOf(pass.size, pass.todo)
            failed(lost) == {v \in batch : WriteFails(v)} \cup lost
            left == pass.left - pass.size
            size(lost) == IF StopsBurst(pass.size, Cardinality(failed(lost))) THEN 0
                          ELSE Least({2 * pass.size, left, MaxWidth})
<1>2. PICK lost \in {{}} \cup {{v} : v \in batch} :
             /\ lost # {} => Fault
             /\ lost = {} => UNCHANGED faults
             /\ child' = [v \in VM |-> IF v \in batch \ failed(lost) THEN Applied(v) ELSE child[v]]
             /\ pass' = Onward([pass EXCEPT !.todo = @ \ batch, !.left = left,
                                  !.size = size(lost), !.err = @ \/ failed(lost) # {}])
  BY Zenon DEF issueChildWrites
<1>. DEFINE z == size(lost)
            e == (pass.err \/ failed(lost) # {})
            t == pass.todo \ batch
            p == [pass EXCEPT !.todo = t, !.left = left, !.size = z, !.err = e]
            q == Onward(p)
<1>3. pass \in Pass /\ pass.size \in Nat /\ pass.left \in Nat /\ pass.size <= pass.left
      /\ t \in SUBSET VM /\ e \in BOOLEAN
  BY DEF IInv, TypeOK, Pass
<1>4. left \in Nat
  BY <1>3
<1>5. z \in Nat /\ z <= left
  <2>1. 2 * pass.size \in Nat /\ MaxWidth \in Nat
    BY <1>3, RollupAssumption
  <2>. HIDE DEF left
  <2>2. Least({2 * pass.size, left, MaxWidth}) \in Nat /\ Least({2 * pass.size, left, MaxWidth}) <= left
    BY <1>4, <2>1, LeastIs
  <2>. QED
    BY <1>4, <2>2
<1>6. child' \in [VM -> Child] /\ \A v \in VM : ChildOK(v, child'[v])
  <2>. HIDE DEF batch, failed
  <2>1. \A v \in VM : Applied(v) \in Child /\ ChildOK(v, Applied(v))
    BY <1>1, AppliedOK
  <2>2. child \in [VM -> Child] /\ \A v \in VM : ChildOK(v, child[v])
    BY DEF IInv, TypeOK
  <2>. QED
    BY <1>2, <2>1, <2>2
<1>7. RestKept
  <2>1. faults' \in 0 .. plan.faults
    <3>1. faults \in 0 .. plan.faults /\ plan.faults \in Nat
      BY RollupAssumption DEF IInv, TypeOK
    <3>. QED
      BY <1>2, <3>1 DEF Fault
  <2>2. ran' = ran
    BY <1>1 DEF envVars
  <2>. QED
    BY <1>1, <1>6, <2>1, <2>2 DEF RestKept, envVars, ChildOK
<1>8. pass' = q
  BY <1>2
<1>. HIDE DEF batch, left, t, z, e
<1>9. p \in Pass /\ p.pc = pass.pc /\ SameReport(pass, p) /\ p.size <= p.left
  BY <1>3, <1>4, <1>5 DEF Pass, SameReport
<1>. HIDE DEF p
<1>10. q \in Pass /\ q.size <= q.left /\ q.pc \in {"delete", "write", "report"} /\ SameReport(p, q)
  BY <1>1, <1>9, OnwardIs
<1>. HIDE DEF q
<1>11. q.src = pass.src /\ q.listed = pass.listed /\ q.sum = pass.sum
  BY <1>9, <1>10 DEF SameReport
<1>12. pass.src.exists /\ pass.src.obs <= pass.src.gen /\ ObjectOK(pass.src)
      /\ (obj.exists => pass.src.gen <= obj.gen)
      /\ obj \in Object /\ obj.obs <= obj.gen /\ ObjectOK(obj) /\ unseen \in BOOLEAN
  BY <1>1 DEF IInv, TypeOK, PassOK, CopiesLag
<1>13. ObjKept
  BY <1>1, <1>12 DEF ObjKept
<1>14. PassOK' /\ RollupEarned'
  <2>1. ran' = ran
    BY <1>1 DEF envVars
  <2>2. RollupEarned
    BY DEF IInv
  <2>. QED
    BY <1>1, <1>8, <1>10, <1>11, <1>12, <2>1, <2>2 DEF PassOK, RollupEarned
<1>. QED
  BY <1>1, <1>7, <1>8, <1>10, <1>11, <1>12, <1>13, <1>14, PassGoesOn

LEMMA writeAnsibleBindingDetailsOK == IInv /\ writeAnsibleBindingDetails => IInv'
<1>. SUFFICES ASSUME IInv, writeAnsibleBindingDetails PROVE IInv'
  OBVIOUS
<1>0. pass \in Pass
  BY DEF IInv, TypeOK
<1>1. /\ pass.pc = "report"
      /\ UNCHANGED <<copy, child, ccopy, envVars, queue, unseen, dropped>>
      /\ UNCHANGED faults \/ Fault
      /\ obj' \in {obj, [obj EXCEPT !.obs = pass.src.gen, !.sum = pass.sum]}
      /\ obj' # obj => obj.exists
      /\ \/ pass' = [pass EXCEPT !.pc = "word"]
         \/ pass' = [pass EXCEPT !.pc = "word", !.err = TRUE]
  BY DEF writeAnsibleBindingDetails
<1>2. PICK q \in Pass :
        /\ pass' = q /\ q.pc = "word" /\ SameReport(pass, q)
        /\ q.size = pass.size /\ q.left = pass.left
  <2>. DEFINE P(q) == /\ q \in Pass /\ q.pc = "word" /\ SameReport(pass, q)
                      /\ q.size = pass.size /\ q.left = pass.left
  <2>1. P([pass EXCEPT !.pc = "word"])
    BY <1>0 DEF Pass, SameReport
  <2>2. P([pass EXCEPT !.pc = "word", !.err = TRUE])
    BY <1>0 DEF Pass, SameReport
  <2>. QED
    BY <1>1, <2>1, <2>2
<1>3. q.src = pass.src /\ q.listed = pass.listed /\ q.sum = pass.sum
  BY <1>2 DEF SameReport
<1>4. pass.src.exists /\ pass.src.obs <= pass.src.gen /\ ObjectOK(pass.src)
      /\ (obj.exists => pass.src.gen <= obj.gen) /\ pass.size <= pass.left
      /\ obj \in Object /\ obj.obs <= obj.gen /\ ObjectOK(obj) /\ unseen \in BOOLEAN
      /\ pass.src.gen \in Gen /\ pass.sum \in Summary
  BY <1>1 DEF IInv, TypeOK, PassOK, CopiesLag, Pass, Object
<1>5. ObjKept /\ obj'.gen = obj.gen
  <2>1. CASE obj' = obj
    BY <1>4, <2>1 DEF ObjKept
  <2>2. CASE obj' # obj
    <3>1. obj' = [obj EXCEPT !.obs = pass.src.gen, !.sum = pass.sum] /\ obj.exists
      BY <1>1, <2>2
    <3>2. obj' \in Object /\ obj'.obs = pass.src.gen /\ obj'.gen = obj.gen
          /\ obj'.exists = obj.exists /\ obj'.deleting = obj.deleting /\ obj'.fin = obj.fin
      BY <1>4, <3>1 DEF Object
    <3>. QED
      BY <1>4, <3>1, <3>2 DEF ObjKept, ObjectOK
  <2>. QED
    BY <2>1, <2>2
<1>6. RestKept
  BY <1>1, StillKept
<1>7. PassOK' /\ RollupEarned'
  <2>1. ran' = ran
    BY <1>1 DEF envVars
  <2>2. RollupEarned
    BY DEF IInv
  <2>. QED
    BY <1>1, <1>2, <1>3, <1>4, <2>1, <2>2 DEF PassOK, RollupEarned
<1>8. obj'.exists => q.src.gen <= obj'.gen
  BY <1>3, <1>4, <1>5 DEF ObjKept
<1>. QED
  BY <1>1, <1>2, <1>3, <1>4, <1>5, <1>6, <1>7, <1>8, PassGoesOn

LEMMA ReconcileOK == IInv /\ Reconcile => IInv'
<1>. SUFFICES ASSUME IInv, Reconcile PROVE IInv'
  OBVIOUS
<1>. DEFINE word == updateAnsibleBindingStatus(pass.sum)
            q == IF pass.more \/ pass.sum.conflicted > 0 THEN AddAfter(queue) ELSE queue
<1>1. queue \in Queue /\ dropped \in BOOLEAN /\ word \in Word
  <2>1. pass.sum \in Summary
    BY DEF IInv, TypeOK, Pass
  <2>. QED
    BY <2>1, WordTyped DEF IInv, TypeOK
<1>2. q \in Queue /\ q.dirty = queue.dirty /\ (queue.later => q.later)
  BY <1>1, QueueOps
<1>3. UNCHANGED <<copy, child, ccopy, envVars, unseen>> /\ pass.pc = "word"
  BY DEF Reconcile
<1>4. CASE pass.err /\ Errs /\ UNCHANGED faults
  BY <1>3, <1>4, ErrsOK
<1>. HIDE DEF word, q
<1>5. CASE Ends(q) /\ UNCHANGED faults /\ obj' \in {obj, [obj EXCEPT !.word = word]}
  <2>1. ObjKept /\ RestKept
    BY <1>1, <1>3, <1>5, WordKept, StillKept
  <2>2. /\ pass' = NoPass /\ queue' \in Queue /\ ~queue'.proc
        /\ queue'.dirty = q.dirty /\ queue'.later = q.later /\ dropped' = dropped
    BY <1>2, <1>5, EndsIs
  <2>. QED
    BY <1>1, <1>2, <1>3, <2>1, <2>2, PassStops
<1>6. CASE Fault /\ Retries(q) /\ UNCHANGED obj
  <2>1. ObjKept /\ RestKept
    BY <1>1, <1>3, <1>6, WordKept, StillKept
  <2>2. /\ pass' = NoPass /\ queue' \in Queue /\ ~queue'.proc
        /\ queue'.dirty = q.dirty /\ (q.later => queue'.later)
        /\ dropped' \in BOOLEAN /\ (dropped => dropped')
    BY <1>1, <1>2, <1>6, RetriesIs
  <2>. QED
    BY <1>1, <1>2, <1>3, <2>1, <2>2, PassStops
<1>. QED
  BY <1>4, <1>5, <1>6 DEF Reconcile, word, q

\* A cleanup that waits comes back, and one that fails is retried.
LEMMA cleanupAnsibleBindingOK == IInv /\ cleanupAnsibleBinding => IInv'
<1>. SUFFICES ASSUME IInv, cleanupAnsibleBinding PROVE IInv'
  OBVIOUS
<1>. DEFINE shown == {v \in VM : ccopy[v].gen # 0}
            there == {v \in VM : child[v].gen # 0}
            kids == IF shown # {} THEN shown ELSE there
            c == [v \in VM |-> IF v \in kids /\ child[v].gen # 0
                               THEN [child[v] EXCEPT !.deleting = TRUE] ELSE child[v]]
<1>1. UNCHANGED <<copy, ccopy, envVars, unseen>> /\ pass.pc = "cleanup"
  BY DEF cleanupAnsibleBinding
<1>2. /\ queue \in Queue /\ dropped \in BOOLEAN /\ child \in [VM -> Child]
      /\ faults \in 0 .. plan.faults /\ \A v \in VM : ChildOK(v, child[v])
      /\ obj \in Object /\ obj.obs <= obj.gen /\ ObjectOK(obj)
  BY DEF IInv, TypeOK
<1>3. c \in [VM -> Child] /\ \A v \in VM : ChildOK(v, c[v])
  <2>1. ASSUME NEW v \in VM PROVE c[v] \in Child /\ ChildOK(v, c[v])
    BY <1>2 DEF Child, ChildOK
  <2>. QED
    BY <2>1
<1>4. /\ AddAfter(queue) \in Queue /\ AddAfter(queue).later
      /\ AddAfter(queue).dirty = queue.dirty
  BY <1>2, QueueOps
<1>5. child' = c /\ UNCHANGED faults => RestKept
  <2>1. ran' = ran
    BY <1>1 DEF envVars
  <2>. HIDE DEF c
  <2>. QED
    BY <1>1, <1>2, <1>3, <2>1 DEF RestKept, envVars, ChildOK
<1>6. CASE child' = c /\ kids # {} /\ Ends(AddAfter(queue)) /\ UNCHANGED <<obj, faults>>
  <2>1. ObjKept
    BY <1>2, <1>6 DEF ObjKept
  <2>2. RestKept
    BY <1>5, <1>6
  <2>3. /\ pass' = NoPass /\ queue' \in Queue /\ ~queue'.proc
        /\ queue'.dirty = queue.dirty /\ queue'.later /\ dropped' = dropped
    BY <1>4, <1>6, EndsIs
  <2>. QED
    BY <1>1, <1>2, <2>1, <2>2, <2>3, PassStops
<1>7. CASE child' = c /\ Ends(queue) /\ obj' = NoObj /\ UNCHANGED faults
  <2>1. ObjKept /\ ~obj'.exists
    BY <1>7, EmptyTyped DEF ObjKept, NoObj, ObjectOK
  <2>2. RestKept
    BY <1>5, <1>7
  <2>3. /\ pass' = NoPass /\ queue' \in Queue /\ ~queue'.proc
        /\ queue'.dirty = queue.dirty /\ queue'.later = queue.later /\ dropped' = dropped
    BY <1>2, <1>7, EndsIs
  <2>. QED
    BY <1>1, <1>2, <2>1, <2>2, <2>3, PassStops
<1>8. CASE child' = c /\ kids = {} /\ Errs /\ UNCHANGED faults
  <2>1. child' = child
    BY <1>2, <1>8
  <2>. QED
    BY <1>1, <1>8, <2>1, ErrsOK
<1>9. CASE Fault /\ Errs /\ UNCHANGED child
  BY <1>1, <1>9, ErrsOK
<1>. QED
  BY <1>6, <1>7, <1>8, <1>9 DEF cleanupAnsibleBinding

LEMMA CallFailsOK == IInv /\ CallFails => IInv'
BY ErrsOK DEF CallFails

-----------------------------------------------------------------------------
(* Events and the queue's timer *)

\* A key that is added, whatever else the queue holds of it, and whatever an
\* event shows, is due.
LEMMA KeyAdded ==
    ASSUME IInv, NEW k \in Queue, queue' = k, k.proc = queue.proc, k.dirty,
           copy' \in {copy, obj}, ccopy' \in [VM -> Child], \A v \in VM : ChildOK(v, ccopy'[v]),
           unseen' \in BOOLEAN, UNCHANGED <<obj, child, envVars, pass, dropped, faults>>
    PROVE  IInv'
<1>1. ran' = ran /\ sel' = sel /\ plan' = plan /\ edits' = edits
  BY DEF envVars
<1>2. TypeOK' /\ \A o \in {obj', copy', pass'.src} : ObjectOK(o)
  BY <1>1 DEF IInv, TypeOK
<1>3. CopiesLag'
  <2>1. obj.exists => obj.gen \in Nat
    BY GenTyped DEF IInv, TypeOK, Object
  <2>. QED
    BY <2>1 DEF IInv, CopiesLag
<1>4. PassOK' /\ DeletionDue' /\ NewsDue' /\ RollupEarned'
  BY <1>1 DEF IInv, PassOK, DeletionDue, NewsDue, RollupEarned
<1>5. \A v \in VM : ChildOK(v, child[v])' /\ ChildOK(v, ccopy[v])'
  BY <1>1 DEF IInv, ChildOK
<1>. QED
  BY <1>2, <1>3, <1>4, <1>5 DEF IInv

LEMMA LaterFiresOK == IInv /\ LaterFires => IInv'
<1>. SUFFICES ASSUME IInv, LaterFires PROVE IInv'
  OBVIOUS
<1>. DEFINE k == [Add(queue) EXCEPT !.later = FALSE]
<1>1. queue \in Queue
  BY DEF IInv, TypeOK
<1>2. Add(queue) \in Queue /\ Add(queue).dirty /\ Add(queue).proc = queue.proc
  BY <1>1, QueueOps
<1>3. k \in Queue /\ k.dirty /\ k.proc = queue.proc
  BY <1>2 DEF Queue
<1>4. queue' = k /\ UNCHANGED <<obj, copy, child, ccopy, envVars, pass, unseen, dropped, faults>>
  BY DEF LaterFires
<1>5. ccopy \in [VM -> Child] /\ (\A v \in VM : ChildOK(v, ccopy[v])) /\ unseen \in BOOLEAN
  BY DEF IInv, TypeOK
<1>. HIDE DEF k
<1>. QED
  BY <1>3, <1>4, <1>5, KeyAdded

LEMMA ResyncOK == IInv /\ Resync => IInv'
<1>. SUFFICES ASSUME IInv, Resync PROVE IInv'
  OBVIOUS
<1>1. queue \in Queue
  BY DEF IInv, TypeOK
<1>2. Add(queue) \in Queue /\ Add(queue).dirty /\ Add(queue).proc = queue.proc
  BY <1>1, QueueOps
<1>3. queue' = Add(queue) /\ UNCHANGED <<obj, copy, child, ccopy, envVars, pass, unseen, dropped, faults>>
  BY DEF Resync
<1>4. ccopy \in [VM -> Child] /\ (\A v \in VM : ChildOK(v, ccopy[v])) /\ unseen \in BOOLEAN
  BY DEF IInv, TypeOK
<1>. QED
  BY <1>2, <1>3, <1>4, KeyAdded

LEMMA SyncChildOK == ASSUME IInv, NEW v \in VM, SyncChild(v) PROVE IInv'
<1>1. queue \in Queue
  BY DEF IInv, TypeOK
<1>2. Add(queue) \in Queue /\ Add(queue).dirty /\ Add(queue).proc = queue.proc
  BY <1>1, QueueOps
<1>3. /\ queue' = Add(queue) /\ unseen' = TRUE /\ ccopy' = [ccopy EXCEPT ![v] = child[v]]
      /\ UNCHANGED <<obj, copy, child, envVars, pass, dropped, faults>>
  BY DEF SyncChild, watchChildren
<1>4. ccopy' \in [VM -> Child] /\ (\A w \in VM : ChildOK(w, ccopy'[w]))
  BY <1>3 DEF IInv, TypeOK
<1>. QED
  BY <1>2, <1>3, <1>4, KeyAdded

\* The object's event is one that wakes the key, or one that changes neither
\* what is asked for nor whether it is to go.
LEMMA SyncBindingOK == IInv /\ SyncBinding => IInv'
<1>. SUFFICES ASSUME IInv, SyncBinding PROVE IInv'
  OBVIOUS
<1>1. /\ copy' = obj /\ unseen' = (unseen \/ copy.gen # obj.gen)
      /\ UNCHANGED <<obj, child, ccopy, envVars, pass, dropped, faults>>
  BY DEF SyncBinding
<1>2. /\ queue \in Queue /\ ccopy \in [VM -> Child] /\ (\A v \in VM : ChildOK(v, ccopy[v]))
      /\ unseen \in BOOLEAN
  BY DEF IInv, TypeOK
<1>4. CASE queue' = Add(queue)
  <2>1. Add(queue) \in Queue /\ Add(queue).dirty /\ Add(queue).proc = queue.proc
    BY <1>2, QueueOps
  <2>. QED
    BY <1>1, <1>2, <1>4, <2>1, KeyAdded
<1>5. CASE queue' = queue /\ copy.exists /\ obj.exists /\ ~shouldEnqueueOnUpdate(copy, obj)
  <2>1. copy.gen = obj.gen /\ (obj.deleting => copy.deleting) /\ (copy.deleting => obj.deleting)
    BY <1>5 DEF IInv, CopiesLag, shouldEnqueueOnUpdate
  <2>2. ran' = ran /\ sel' = sel /\ plan' = plan /\ edits' = edits /\ unseen' \in BOOLEAN
        /\ (unseen' => unseen)
    BY <1>1, <1>2, <2>1 DEF envVars
  <2>3. TypeOK' /\ \A o \in {obj', copy', pass'.src} : ObjectOK(o)
    BY <1>1, <1>5, <2>2 DEF IInv, TypeOK
  <2>4. CopiesLag'
    <3>1. obj.gen \in Nat
      BY GenTyped DEF IInv, TypeOK, Object
    <3>. QED
      BY <1>1, <3>1 DEF IInv, CopiesLag
  <2>5. PassOK' /\ RollupEarned'
    BY <1>1, <2>2 DEF IInv, PassOK, RollupEarned
  <2>6. DeletionDue' /\ NewsDue'
    BY <1>1, <1>5, <2>1, <2>2 DEF IInv, DeletionDue, NewsDue
  <2>7. \A v \in VM : ChildOK(v, child[v])' /\ ChildOK(v, ccopy[v])'
    BY <1>1, <2>2 DEF IInv, ChildOK
  <2>. QED
    BY <1>1, <2>2, <2>3, <2>4, <2>5, <2>6, <2>7 DEF IInv
<1>. QED
  BY <1>4, <1>5 DEF SyncBinding

\* A new process lists what there is, so a binding there is due.
LEMMA CrashOK == IInv /\ Crash => IInv'
<1>. SUFFICES ASSUME IInv, Crash PROVE IInv'
  OBVIOUS
<1>1. /\ copy' = obj /\ ccopy' = child /\ pass' = NoPass /\ unseen' = TRUE
      /\ queue' = [dirty |-> obj.exists, proc |-> FALSE, later |-> FALSE, tries |-> 0]
      /\ UNCHANGED <<obj, child, envVars, dropped>>
      /\ faults < plan.faults /\ faults' = faults + 1
  BY DEF Crash, Fault
<1>2. ran' = ran /\ sel' = sel /\ plan' = plan /\ edits' = edits
  BY <1>1 DEF envVars
<1>3. pass' \in Pass /\ pass'.pc = "idle" /\ pass'.src = NoObj /\ pass'.size <= pass'.left
  BY <1>1, NoPassTyped DEF NoPass
<1>4. NoObj.gen = 0 /\ NoObj.obs = 0 /\ ~NoObj.exists /\ ~NoObj.deleting /\ ObjectOK(NoObj)
  BY DEF NoObj, ObjectOK
<1>5. queue' \in Queue /\ ~queue'.proc /\ queue'.dirty = obj.exists
  <2>1. 0 \in Tries /\ obj.exists \in BOOLEAN
    BY RollupAssumption DEF Tries, IInv, TypeOK, Object
  <2>. QED
    BY <1>1, <2>1 DEF Queue
<1>6. faults' \in 0 .. plan.faults
  <2>1. faults \in 0 .. plan.faults /\ plan.faults \in Nat
    BY RollupAssumption DEF IInv, TypeOK
  <2>. QED
    BY <1>1, <2>1
<1>7. TypeOK' /\ \A o \in {obj', copy', pass'.src} : ObjectOK(o)
  BY <1>1, <1>2, <1>3, <1>4, <1>5, <1>6 DEF IInv, TypeOK
<1>8. CopiesLag'
  <2>1. obj.gen \in Nat
    BY GenTyped DEF IInv, TypeOK, Object
  <2>. QED
    BY <1>1, <1>3, <1>4, <2>1 DEF CopiesLag
<1>9. PassOK' /\ RollupEarned' /\ DeletionDue' /\ NewsDue'
  BY <1>1, <1>3, <1>5, <1>7 DEF PassOK, RollupEarned, DeletionDue, NewsDue, ObjectOK
<1>10. \A v \in VM : ChildOK(v, child[v])' /\ ChildOK(v, ccopy[v])'
  BY <1>1, <1>2 DEF IInv, ChildOK
<1>. QED
  BY <1>1, <1>7, <1>8, <1>9, <1>10 DEF IInv

-----------------------------------------------------------------------------
(* Children and people *)

\* Runs are only ever added to the record, so what was earned stays so.
LEMMA ChildMoves ==
    ASSUME IInv, NEW v \in VM, NEW c \in Child, ChildStep(v, c), UNCHANGED faults \/ Fault,
           ran' \in [VM -> SUBSET (Gen \ {0})], \A w \in VM : ran[w] \subseteq ran'[w],
           c.phase = "Succeeded" => c.applied \in ran'[v],
           c.phase = "Running" => c.applied # 0, c.gen = 0 => c = NoChild
    PROVE  IInv'
<1>1. /\ child' = [child EXCEPT ![v] = c]
      /\ UNCHANGED <<obj, copy, ccopy, sel, plan, edits, queue, pass, unseen, dropped>>
  BY DEF ChildStep
<1>2. faults' \in 0 .. plan.faults
  <2>1. faults \in 0 .. plan.faults /\ plan.faults \in Nat
    BY RollupAssumption DEF IInv, TypeOK
  <2>. QED
    BY <2>1 DEF Fault
<1>3. TypeOK'
  BY <1>1, <1>2 DEF IInv, TypeOK
<1>4. \A w \in VM : ChildOK(w, child[w])' /\ ChildOK(w, ccopy[w])'
  BY <1>1 DEF IInv, TypeOK, ChildOK
<1>5. RollupEarned'
  <2>1. pass.listed \subseteq VM
    BY DEF IInv, TypeOK, Pass
  <2>. QED
    BY <1>1, <2>1 DEF IInv, RollupEarned
<1>6. CopiesLag' /\ PassOK' /\ DeletionDue' /\ NewsDue'
  BY <1>1 DEF IInv, CopiesLag, PassOK, DeletionDue, NewsDue
<1>. QED
  BY <1>1, <1>3, <1>4, <1>5, <1>6 DEF IInv

LEMMA ChildRunsOK == ASSUME IInv, NEW v \in VM, ChildRuns(v) PROVE IInv'
<1>. DEFINE c == [child[v] EXCEPT !.applied = child[v].gen, !.phase = "Running", !.err = FALSE]
<1>1. child[v] \in Child /\ ChildOK(v, child[v]) /\ ran \in [VM -> SUBSET (Gen \ {0})]
  BY DEF IInv, TypeOK
<1>2. child[v].gen # 0
  BY <1>1 DEF ChildRuns, ChildOK, NoChild
<1>3. c \in Child /\ c.gen = child[v].gen /\ c.applied = child[v].gen /\ c.phase = "Running"
  BY <1>1 DEF Child
<1>4. ChildStep(v, c) /\ UNCHANGED <<ran, faults>>
  BY DEF ChildRuns
<1>. HIDE DEF c
<1>. QED
  BY <1>1, <1>2, <1>3, <1>4, ChildMoves

LEMMA ChildEndsOK == ASSUME IInv, NEW v \in VM, ChildEnds(v) PROVE IInv'
<1>. DEFINE c(p) == [child[v] EXCEPT !.phase = p, !.err = FALSE]
<1>1. child[v] \in Child /\ ChildOK(v, child[v]) /\ ran \in [VM -> SUBSET (Gen \ {0})]
      /\ child[v].applied \in Gen
  BY DEF IInv, TypeOK, Child
<1>2. child[v].applied # 0 /\ child[v].gen # 0 /\ UNCHANGED faults
  BY <1>1 DEF ChildEnds, ChildOK, NoChild
<1>3. ASSUME NEW p \in {"Succeeded", "Failed"}
      PROVE  c(p) \in Child /\ c(p).gen = child[v].gen /\ c(p).applied = child[v].applied
             /\ c(p).phase = p
  BY <1>1 DEF Child
<1>4. \/ ran' = [ran EXCEPT ![v] = @ \cup {child[v].applied}] /\ ChildStep(v, c("Succeeded"))
      \/ UNCHANGED ran /\ ChildStep(v, c("Failed"))
  BY DEF ChildEnds
<1>. HIDE DEF c
<1>5. CASE UNCHANGED ran /\ ChildStep(v, c("Failed"))
  BY <1>1, <1>2, <1>3, <1>5, ChildMoves
<1>6. CASE ran' = [ran EXCEPT ![v] = @ \cup {child[v].applied}] /\ ChildStep(v, c("Succeeded"))
  <2>1. /\ ran' \in [VM -> SUBSET (Gen \ {0})] /\ \A w \in VM : ran[w] \subseteq ran'[w]
        /\ child[v].applied \in ran'[v]
    BY <1>1, <1>2, <1>6
  <2>. QED
    BY <1>2, <1>3, <1>6, <2>1, ChildMoves
<1>. QED
  BY <1>4, <1>5, <1>6

LEMMA ChildErrsOK == ASSUME IInv, NEW v \in VM, ChildErrs(v) PROVE IInv'
<1>. DEFINE c == [child[v] EXCEPT !.err = ~@]
<1>1. child[v] \in Child /\ ChildOK(v, child[v]) /\ ran \in [VM -> SUBSET (Gen \ {0})]
  BY DEF IInv, TypeOK
<1>2. child[v].gen # 0 /\ ChildStep(v, c) /\ UNCHANGED ran /\ (UNCHANGED faults \/ Fault)
  BY DEF ChildErrs
<1>3. c \in Child /\ c.gen = child[v].gen /\ c.applied = child[v].applied /\ c.phase = child[v].phase
  BY <1>1 DEF Child
<1>. HIDE DEF c
<1>. QED
  BY <1>1, <1>2, <1>3, ChildMoves DEF ChildOK

LEMMA ChildGoneOK == ASSUME IInv, NEW v \in VM, ChildGone(v) PROVE IInv'
<1>1. ran \in [VM -> SUBSET (Gen \ {0})] /\ ChildStep(v, NoChild) /\ UNCHANGED <<ran, faults>>
  BY DEF IInv, TypeOK, ChildGone
<1>2. NoChild \in Child /\ NoChild.phase = "none"
  BY EmptyTyped DEF NoChild
<1>. QED
  BY <1>1, <1>2, ChildMoves

\* What people change, of the object and of what its selector matches.
LEMMA PeopleOK == IInv /\ (EditBinding \/ DeleteBinding \/ \E v \in VM : Relabel(v)) => IInv'
<1>. SUFFICES ASSUME IInv, EditBinding \/ DeleteBinding \/ \E v \in VM : Relabel(v) PROVE IInv'
  OBVIOUS
<1>1. /\ UNCHANGED <<copy, child, ccopy, ran, plan, queue, pass, unseen, dropped, faults>>
      /\ \E kind \in {"spec", "delete", "label"} : MayEdit(kind)
  BY DEF EditBinding, DeleteBinding, Relabel
<1>2. edits' \in 0 .. plan.edits
  <2>1. edits \in 0 .. plan.edits /\ plan.edits \in Nat
    BY RollupAssumption DEF IInv, TypeOK
  <2>2. edits < plan.edits /\ edits' = edits + 1
    BY <1>1 DEF MayEdit
  <2>. QED
    BY <2>1, <2>2
<1>3. sel' \in SUBSET VM
  BY DEF IInv, TypeOK, EditBinding, DeleteBinding, Relabel
<1>4. obj \in Object /\ obj.obs <= obj.gen /\ ObjectOK(obj) /\ CopiesLag
  BY DEF IInv, TypeOK
<1>5. /\ obj' \in Object /\ obj'.obs <= obj'.gen /\ ObjectOK(obj')
      /\ obj'.exists => obj.exists /\ obj.gen <= obj'.gen /\ (obj.deleting => obj'.deleting)
      /\ obj.exists /\ obj.fin => obj'.exists /\ obj'.fin
      /\ obj'.deleting => obj.deleting \/ ~copy.deleting
  <2>0. obj.gen \in Nat /\ obj.obs \in Nat /\ obj.exists \in BOOLEAN
    BY <1>4, GenTyped DEF Object
  <2>1. CASE EditBinding
    <3>1. obj' = [obj EXCEPT !.gen = obj.gen + 1] /\ obj.gen < MaxGen
      BY <2>1 DEF EditBinding
    <3>2. obj.gen + 1 \in Gen /\ obj.gen + 1 # 0 /\ obj.gen <= obj.gen + 1 /\ obj.obs <= obj.gen + 1
      BY <1>4, <2>0, <3>1, RollupAssumption DEF Gen
    <3>3. obj' \in Object /\ obj'.gen = obj.gen + 1 /\ obj'.obs = obj.obs /\ obj'.exists = obj.exists
          /\ obj'.deleting = obj.deleting /\ obj'.fin = obj.fin
      BY <1>4, <3>1, <3>2 DEF Object
    <3>. QED
      BY <1>4, <3>2, <3>3 DEF ObjectOK
  <2>2. CASE DeleteBinding /\ obj.fin
    <3>1. obj' = [obj EXCEPT !.deleting = TRUE] /\ obj.exists /\ ~obj.deleting
      BY <2>2 DEF DeleteBinding
    <3>2. obj' \in Object /\ obj'.gen = obj.gen /\ obj'.obs = obj.obs /\ obj'.exists = obj.exists
          /\ obj'.deleting /\ obj'.fin = obj.fin
      BY <1>4, <3>1 DEF Object
    <3>. QED
      BY <1>4, <2>0, <2>2, <3>1, <3>2 DEF ObjectOK, CopiesLag
  <2>3. CASE DeleteBinding /\ ~obj.fin
    <3>1. obj' = NoObj
      BY <2>3 DEF DeleteBinding
    <3>. QED
      BY <2>3, <3>1, EmptyTyped DEF NoObj, ObjectOK
  <2>4. CASE UNCHANGED obj
    BY <1>4, <2>0, <2>4 DEF ObjectOK
  <2>. QED
    BY <2>1, <2>2, <2>3, <2>4 DEF Relabel
<1>6. TypeOK' /\ \A o \in {obj', copy', pass'.src} : ObjectOK(o)
  BY <1>1, <1>2, <1>3, <1>5 DEF IInv, TypeOK
<1>7. CopiesLag'
  <2>1. copy.gen \in Nat /\ pass.src.gen \in Nat /\ obj.gen \in Nat /\ obj'.gen \in Nat
    BY <1>5, GenTyped DEF IInv, TypeOK, Object, Pass
  <2>. QED
    BY <1>1, <1>4, <1>5, <2>1 DEF CopiesLag
<1>8. PassOK' /\ DeletionDue' /\ NewsDue' /\ RollupEarned'
  BY <1>1, <1>5 DEF IInv, PassOK, DeletionDue, NewsDue, RollupEarned
<1>9. \A v \in VM : ChildOK(v, child[v])' /\ ChildOK(v, ccopy[v])'
  BY <1>1 DEF IInv, ChildOK
<1>. QED
  BY <1>1, <1>6, <1>7, <1>8, <1>9 DEF IInv

-----------------------------------------------------------------------------
(* The theorems *)

\* The invariant holds in every state: of every pass, failure, event and crash.
LEMMA Invariance == Spec => []IInv
<1>1. IInv /\ [Next]_vars => IInv'
  <2>. SUFFICES ASSUME IInv, [Next]_vars PROVE IInv'
    OBVIOUS
  <2>1. CASE PassStep
    BY <2>1, processNextWorkItemOK, HoldFinalizerOK, RereadLiveOK, applyAnsibleBindingOK,
       issueChildWritesOK, writeAnsibleBindingDetailsOK, ReconcileOK, cleanupAnsibleBindingOK,
       CallFailsOK DEF PassStep
  <2>2. CASE Events \/ LaterFires \/ Resync \/ Crash
    BY <2>2, SyncBindingOK, SyncChildOK, LaterFiresOK, ResyncOK, CrashOK DEF Events
  <2>3. CASE \E v \in VM : ChildRuns(v) \/ ChildEnds(v) \/ ChildErrs(v) \/ ChildGone(v)
    BY <2>3, ChildRunsOK, ChildEndsOK, ChildErrsOK, ChildGoneOK
  <2>4. CASE EditBinding \/ DeleteBinding \/ \E v \in VM : Relabel(v)
    BY <2>4, PeopleOK
  <2>5. CASE UNCHANGED vars
    BY <2>5 DEF vars, IInv, TypeOK, CopiesLag, PassOK, DeletionDue, NewsDue, ChildOK, RollupEarned
  <2>. QED
    BY <2>1, <2>2, <2>3, <2>4, <2>5 DEF Next
<1>. QED
  BY <1>1, InitOK, PTL DEF Spec

\* Every variable keeps its type, each matched VM is in exactly one count of
\* every summary written (summarize), and a batch never exceeds what is left of
\* its burst (issueChildWrites).
THEOREM RollupTyped == Spec => []TypeOK
<1>1. IInv => TypeOK
  BY DEF IInv
<1>. QED
  BY <1>1, Invariance, PTL

\* No failure, delay or crash lets a terminating binding's key be forgotten once
\* its deletion was heard of (processNextWorkItem, errCleanupPending).
THEOREM NeverForgotten == Spec => []FinalizationNotForgotten
<1>1. IInv => FinalizationNotForgotten
  BY DEF IInv, TypeOK, DeletionDue, FinalizationNotForgotten, Idle
<1>. QED
  BY <1>1, Invariance, PTL

\* A key at rest has nothing new to it unless it was given up, however events and
\* passes interleave (informerEventHandler, watchChildren).
THEOREM RestIsSeen == Spec => []RestMeansSeen
<1>1. IInv => RestMeansSeen
  BY DEF IInv, TypeOK, NewsDue, RestMeansSeen, Idle
<1>. QED
  BY <1>1, Invariance, PTL

\* A pass concludes Ready only when every VM it matched has completed a
\* successful run of the generation it reports on (summarize).
THEOREM ReadyEarned == Spec => []ReadyIsEarned
<1>1. IInv => ReadyIsEarned
  BY DEF IInv, RollupEarned, ReadyIsEarned
<1>. QED
  BY <1>1, Invariance, PTL

=============================================================================
