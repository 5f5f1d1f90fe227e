---------------------------- MODULE BindingRollup ----------------------------
(***************************************************************************)
(* One AnsibleBinding's key on the work queue: the events that put it      *)
(* there, the engine's pass over it, the bounded batches in which a pass   *)
(* writes the children, the rollup of their statuses, the two patches that *)
(* report it, and what becomes of the key when the pass fails.             *)
(*                                                                         *)
(* Whose a child is and which VM it was made for is VMClaim's matter: here *)
(* a VM is this binding's to claim unless the plan says it is taken.  The  *)
(* children's runs (ChildProvision) are steps that change their status.    *)
(***************************************************************************)
EXTENDS Naturals, FiniteSets

CONSTANTS
    VM,          \* names of VirtualMachines, numbers for their order in a list
    MaxGen,      \* bound on the binding's generation
    MaxRetries,  \* maxReconcileRetries
    Burst,       \* burstChildWrites
    MaxWidth,    \* maxWriteConcurrency
    Plans        \* what may happen, see "plan"

ASSUME RollupAssumption ==
    /\ VM \subseteq Nat /\ IsFiniteSet(VM)
    /\ MaxGen \in Nat \ {0} /\ MaxRetries \in Nat /\ Burst \in Nat /\ MaxWidth \in Nat
    /\ \A p \in Plans : /\ p.first \subseteq VM /\ p.taken \subseteq VM /\ p.broken \subseteq VM
                        /\ p.edits \in Nat /\ p.faults \in Nat /\ p.kinds \subseteq STRING
                        /\ p.settled \in BOOLEAN

VARIABLES
    obj,     \* the API server's AnsibleBinding
    copy,    \* the informer's copy of it
    child,   \* the API server's AnsibleBindingVMs
    ccopy,   \* the informer's copies of them
    sel,     \* the VMs the selector matches
    queue,   \* the key: dirty, processed, due later, and its failures in a row
    pass,    \* the worker's pass over it
    ran,     \* the generations each VM has completed a successful run of
    unseen,  \* whether the copies changed since a pass last decided from them
    dropped, \* whether the key was last given up
    plan,    \* the VMs matched at "first", those of another binding ("taken"),
             \* those whose writes are refused ("broken"), whether it starts
             \* "settled", the edits and faults, and what "kinds" of event occur
    edits, faults

vars == <<obj, copy, child, ccopy, sel, queue, pass, ran, unseen, dropped, plan, edits, faults>>
envVars == <<sel, ran, plan, edits>>

-----------------------------------------------------------------------------
(* Data *)

Gen == 0 .. MaxGen

\* A child's spec generation (0: no child), what it last started a run for and
\* how that went, and whether its state says Failed ("err"): of its own last
\* pass, or of a run.
Child == [gen : Gen, applied : Gen, deleting : BOOLEAN, err : BOOLEAN,
          phase : {"none", "Running", "Succeeded", "Failed"}]
NoChild == [gen |-> 0, applied |-> 0, deleting |-> FALSE, err |-> FALSE, phase |-> "none"]

\* Every matched VM is in exactly one count; "leaving" is apart.
Count == 0 .. Cardinality(VM)
Summary == {s \in [total : Count, pending : Count, running : Count, ok : Count, failed : Count,
                   conflicted : Count, leaving : Count] :
              s.total = s.pending + s.running + s.ok + s.failed + s.conflicted}
NoSummary == [total |-> 0, pending |-> 0, running |-> 0, ok |-> 0, failed |-> 0,
              conflicted |-> 0, leaving |-> 0]

\* state and message as one patch writes them; ready is state = "Ready".
Word == [state : {"none", "Pending", "Terminating", "Conflict", "Failed", "Running", "Ready"},
         note : Nat]
Unprovisioned == [state |-> "Pending", note |-> 0]
ErrorWord == [state |-> "Failed", note |-> 0]

\* obs and sum are the details patch's, word the engine's.
Object == [exists : BOOLEAN, gen : Gen, deleting : BOOLEAN, fin : BOOLEAN,
           obs : Gen, sum : Summary, word : Word]
NoObj == [exists |-> FALSE, gen |-> 0, deleting |-> FALSE, fin |-> FALSE,
          obs |-> 0, sum |-> NoSummary, word |-> [state |-> "none", note |-> 0]]

\* "src" is the object as the pass has it, "listed" and "kids" what it decides
\* from, "sum" its rollup; "todo" and "then" the VMs to call about, of which "left"
\* in this burst and "size" at once.
Pass == [pc : {"idle", "hold", "reread", "decide", "delete", "write", "report", "word", "cleanup"},
         src : Object, listed : SUBSET VM, kids : [VM -> Child], sum : Summary,
         todo : SUBSET VM, then : SUBSET VM, left : Nat, size : Nat,
         err : BOOLEAN, more : BOOLEAN]
NoPass == [pc |-> "idle", src |-> NoObj, listed |-> {}, kids |-> [v \in VM |-> NoChild],
           sum |-> NoSummary, todo |-> {}, then |-> {}, left |-> 0, size |-> 0,
           err |-> FALSE, more |-> FALSE]

Fault == faults < plan.faults /\ faults' = faults + 1
Least(S) == CHOOSE x \in S : \A y \in S : x <= y

-----------------------------------------------------------------------------
(* The queue, as client-go keeps it *)

Tries == 0 .. MaxRetries
Queue == [dirty : BOOLEAN, proc : BOOLEAN, later : BOOLEAN, tries : Tries]

Add(q) == [q EXCEPT !.dirty = TRUE]
AddAfter(q) == [q EXCEPT !.later = TRUE]
AddRateLimited(q) == [q EXCEPT !.later = TRUE, !.tries = IF @ < MaxRetries THEN @ + 1 ELSE @]
Done(q) == [q EXCEPT !.proc = FALSE]
Forget(q) == [q EXCEPT !.tries = 0]
Idle(q) == ~q.dirty /\ ~q.proc /\ ~q.later

LaterFires ==
    /\ queue.later
    /\ queue' = [Add(queue) EXCEPT !.later = FALSE]
    /\ UNCHANGED <<obj, copy, child, ccopy, envVars, pass, unseen, dropped, faults>>

-----------------------------------------------------------------------------
(* The rollup *)

\* Mutant: an earlier request's run counts for this one.
NeverStale(c, gen) == FALSE

\* The child's last run answered another request.
Outdated(c, gen) == c.applied # gen

\* A matched VM's class; a child's state of Failed outranks its run, whichever
\* request that was for, and a child that is leaving is not yet there.
Class(c, gen) ==
    LET here == c.gen # 0 /\ ~c.deleting
        answered == here /\ ~c.err /\ ~Outdated(c, gen)
    IN  CASE here /\ c.err -> "failed"
          [] answered /\ c.phase = "Failed" -> "failed"
          [] answered /\ c.phase = "Succeeded" -> "ok"
          [] answered /\ c.phase = "Running" -> "running"
          [] OTHER -> "pending"

Of(class, kids, vms, gen) == Cardinality({v \in vms : Class(kids[v], gen) = class})

\* Mutant: a VM of another's waits for its child as well.
CountedTwice(kids, listed, gen) ==
    [total |-> Cardinality(listed), pending |-> Of("pending", kids, listed, gen),
     running |-> Of("running", kids, listed, gen), ok |-> Of("ok", kids, listed, gen),
     failed |-> Of("failed", kids, listed, gen),
     conflicted |-> Cardinality(listed \cap plan.taken),
     leaving |-> Cardinality({v \in VM : kids[v].deleting})]

\* Each VM the selector matches is counted once, conflicts first; children that
\* are leaving are counted apart, their VMs matched or not.
summarize(kids, listed, gen) ==
    LET own == listed \ plan.taken IN
    [total |-> Cardinality(listed), pending |-> Of("pending", kids, own, gen),
     running |-> Of("running", kids, own, gen), ok |-> Of("ok", kids, own, gen),
     failed |-> Of("failed", kids, own, gen),
     conflicted |-> Cardinality(listed \cap plan.taken),
     leaving |-> Cardinality({v \in VM : kids[v].deleting})]

\* The aggregate state and the count its message gives.
updateAnsibleBindingStatus(s) ==
    LET word(state, n) == [state |-> state, note |-> n]
    IN  CASE s.total = 0 /\ s.leaving = 0 -> word("Pending", 0)
          [] s.total = 0 /\ s.leaving > 0 -> word("Terminating", s.leaving)
          [] s.total > 0 /\ s.conflicted > 0 -> word("Conflict", s.conflicted)
          [] s.total > 0 /\ s.conflicted = 0 /\ s.failed > 0 -> word("Failed", s.failed)
          [] s.total > 0 /\ s.conflicted + s.failed = 0 /\ s.running > 0 ->
               word("Running", s.running)
          [] s.total > 0 /\ s.conflicted + s.failed + s.running = 0 /\ s.pending > 0 ->
               word("Pending", s.pending)
          [] s.total = s.ok /\ s.total > 0 /\ s.leaving > 0 -> word("Running", 0)
          [] OTHER -> word("Ready", s.total)

ansibleBindingDetailsCurrent(o, s, gen) == o.obs = gen /\ o.sum = s

\* Mutant: the message is not compared.
SameState(o, word) == o.word.state = word.state

\* Whether a copy of the object has the state and message already.
genericStatusCurrent(o, word) == o.word = word

-----------------------------------------------------------------------------
(* A pass *)

\* A pass ends well, ...
Ends(q) == /\ pass' = NoPass
           /\ queue' = Done(Forget(q))
           /\ UNCHANGED dropped

\* Mutant: a cleanup is given up like anything else.
GivesUpAlways(p) == FALSE

\* A failed finalization is never given up, ...
isCleanupPending(p) == p.pc = "cleanup"

\* ... any other failure is retried so many times.
Retries(q) ==
    /\ pass' = NoPass
    /\ IF isCleanupPending(pass) \/ q.tries < MaxRetries
       THEN queue' = Done(AddRateLimited(q)) /\ UNCHANGED dropped
       ELSE queue' = Done(Forget(q)) /\ dropped' = TRUE

\* The engine writes an error down if its copy does not say it already.
Errs ==
    /\ obj' = IF copy.exists /\ obj.exists /\ ~genericStatusCurrent(copy, ErrorWord)
              THEN [obj EXCEPT !.word = ErrorWord] ELSE obj
    /\ Retries(queue)

\* A worker takes the key and reads the copy.
processNextWorkItem ==
    LET q == [queue EXCEPT !.dirty = FALSE, !.proc = TRUE]
        starts(pc) == pass' = [NoPass EXCEPT !.pc = pc,
                                  !.src = IF pc = "decide" THEN copy ELSE NoObj] /\ queue' = q
    IN
    /\ queue.dirty /\ ~queue.proc
    /\ dropped' = FALSE
    /\ CASE copy.exists /\ copy.deleting /\ copy.fin -> starts("cleanup")
         [] copy.exists /\ ~copy.deleting /\ ~copy.fin -> starts("hold")
         [] copy.exists /\ ~copy.deleting /\ copy.fin -> starts("decide")
         [] OTHER -> pass' = NoPass /\ queue' = Done(Forget(q))
    /\ UNCHANGED <<obj, copy, child, ccopy, envVars, unseen, faults>>

\* The finalizer and a first word, then the object as the API server has it; an
\* object that terminates or is gone takes no finalizer.
HoldFinalizer ==
    /\ pass.pc = "hold"
    /\ IF obj.exists /\ ~obj.deleting
       THEN /\ obj' = [obj EXCEPT !.fin = TRUE, !.word = Unprovisioned]
            /\ pass' = [pass EXCEPT !.pc = "reread"]
            /\ UNCHANGED <<queue, dropped>>
       ELSE Errs
    /\ UNCHANGED <<copy, child, ccopy, envVars, unseen, faults>>

RereadLive ==
    /\ pass.pc = "reread"
    /\ IF obj.exists THEN /\ pass' = [pass EXCEPT !.pc = "decide", !.src = obj]
                          /\ UNCHANGED <<queue, dropped>>
       ELSE Ends(queue)
    /\ UNCHANGED <<obj, copy, child, ccopy, envVars, unseen, faults>>

\* The first so many of a list, by name.
FirstOf(n, S) == {v \in S : Cardinality({w \in S : w < v}) < n}

\* A burst over a list of calls: the first batch is of one.
Burstful(p, calls, then) ==
    LET left == Least({Cardinality(calls), Burst})
    IN  [p EXCEPT !.todo = calls, !.then = then, !.left = left, !.size = Least({left, 1})]

\* Where a pass with no batch left to issue goes: from the deletions to the
\* writes, from those to the report.  What was not issued is for another pass.
Onward(p) ==
    LET q == [p EXCEPT !.more = @ \/ p.todo # {}]
        w == Burstful([q EXCEPT !.pc = "write"], p.then, {})
    IN  CASE p.size > 0 -> p
          [] p.size = 0 /\ p.pc = "delete" /\ w.size > 0 -> w
          [] OTHER -> [q EXCEPT !.pc = "report", !.todo = {}, !.then = {}, !.left = 0,
                                !.kids = NoPass.kids]

\* VMs are listed live, the children from the copies.  A VM that no longer
\* matches loses its child; one that does gets or keeps one, unless it is
\* taken, or waits for its child to be gone.
applyAnsibleBinding ==
    LET k == ccopy
        gone == {v \in VM : k[v].gen # 0 /\ v \notin sel}
        stale == {v \in sel \ plan.taken : ~k[v].deleting /\ k[v].gen # pass.src.gen}
        p == [pass EXCEPT !.pc = "delete", !.listed = sel, !.kids = k,
                !.sum = summarize(k, sel, pass.src.gen)]
    IN
    /\ pass.pc = "decide"
    /\ pass' = Onward(Burstful(p, gone, stale))
    /\ unseen' = FALSE
    /\ UNCHANGED <<obj, copy, child, ccopy, envVars, queue, dropped, faults>>

\* A broken VM's child is refused by the API server; a patch of a child that
\* changed fails its test; a child to be created that exists is our own.
WriteFails(v) ==
    pass.pc = "write" /\ (v \in plan.broken \/ (pass.kids[v].gen # 0 /\ child[v] # pass.kids[v]))

Applied(v) ==
    CASE child[v].gen # 0 /\ pass.pc = "delete" -> [child[v] EXCEPT !.deleting = TRUE]
      [] child[v].gen = 0 /\ pass.pc = "delete" -> NoChild
      [] pass.pc = "write" /\ child[v].gen # 0 /\ pass.kids[v].gen = 0 -> child[v]
      [] OTHER -> [child[v] EXCEPT !.gen = pass.src.gen]

\* Mutant: any batch that fails whole ends the burst, the first too.
StopsAtFirst(size, failures) == failures = size

\* Everything failing ends the burst, except in the first batch of one.
StopsBurst(size, failures) == size > 1 /\ failures = size

\* One batch, its calls on different children; the next is twice as wide.
issueChildWrites ==
    /\ pass.pc \in {"delete", "write"}
    /\ \E lost \in {{}} \cup {{v} : v \in FirstOf(pass.size, pass.todo)} :
         LET batch == FirstOf(pass.size, pass.todo)
             failed == {v \in batch : WriteFails(v)} \cup lost
             left == pass.left - pass.size
             size == IF StopsBurst(pass.size, Cardinality(failed)) THEN 0
                     ELSE Least({2 * pass.size, left, MaxWidth})
         IN  /\ lost # {} => Fault
             /\ lost = {} => UNCHANGED faults
             /\ child' = [v \in VM |-> IF v \in batch \ failed THEN Applied(v) ELSE child[v]]
             /\ pass' = Onward([pass EXCEPT !.todo = @ \ batch,
                                  !.left = left, !.size = size, !.err = @ \/ failed # {}])
    /\ UNCHANGED <<obj, copy, ccopy, envVars, queue, unseen, dropped>>

\* The rollup of the children as they were before the writes goes to status, if
\* the pass's own copy does not have it.  A lost write is an error of the pass.
writeAnsibleBindingDetails ==
    LET current == ansibleBindingDetailsCurrent(pass.src, pass.sum, pass.src.gen) IN
    /\ pass.pc = "report"
    /\ \/ /\ obj' = IF current \/ ~obj.exists THEN obj
                    ELSE [obj EXCEPT !.obs = pass.src.gen, !.sum = pass.sum]
          /\ pass' = [pass EXCEPT !.pc = "word"]
          /\ UNCHANGED faults
       \/ /\ ~current /\ Fault
          /\ pass' = [pass EXCEPT !.pc = "word", !.err = TRUE]
          /\ UNCHANGED obj
    /\ UNCHANGED <<copy, child, ccopy, envVars, queue, unseen, dropped>>

\* The engine's word on it, if the pass's own copy does not have that; then
\* another pass soon if calls are left over or a VM is taken.
Reconcile ==
    LET word == updateAnsibleBindingStatus(pass.sum)
        again == pass.more \/ pass.sum.conflicted > 0
        q == IF again THEN AddAfter(queue) ELSE queue
    IN
    /\ pass.pc = "word"
    /\ \/ /\ pass.err /\ Errs /\ UNCHANGED faults
       \/ /\ ~pass.err /\ Ends(q) /\ UNCHANGED faults
          /\ obj' = IF genericStatusCurrent(pass.src, word) \/ ~obj.exists THEN obj
                    ELSE [obj EXCEPT !.word = word]
       \/ /\ ~pass.err /\ ~genericStatusCurrent(pass.src, word) /\ Fault
          /\ Retries(q) /\ UNCHANGED obj
    /\ UNCHANGED <<copy, child, ccopy, envVars, unseen>>

\* Deletes what children it finds, in the copies or, when those show none, at
\* the API server, and waits; with none left it lets the object go.
cleanupAnsibleBinding ==
    LET shown == {v \in VM : ccopy[v].gen # 0}
        there == {v \in VM : child[v].gen # 0}
        kids == IF shown # {} THEN shown ELSE there
    IN
    /\ pass.pc = "cleanup"
    /\ \/ /\ child' = [v \in VM |-> IF v \in kids /\ child[v].gen # 0
                                    THEN [child[v] EXCEPT !.deleting = TRUE] ELSE child[v]]
          /\ IF kids # {} THEN Ends(AddAfter(queue)) /\ UNCHANGED obj
             ELSE IF obj.exists THEN Ends(queue) /\ obj' = NoObj
             ELSE Errs
          /\ UNCHANGED faults
       \/ Fault /\ Errs /\ UNCHANGED child
    /\ UNCHANGED <<copy, ccopy, envVars, unseen>>

\* A call of a pass fails: the list, the finalizer patch, the re-read.
CallFails ==
    /\ pass.pc \in {"hold", "reread", "decide"} /\ Fault
    /\ Errs
    /\ UNCHANGED <<copy, child, ccopy, envVars, unseen>>

-----------------------------------------------------------------------------
(* Events *)

\* A change of the spec, or of the wish to delete; a status write is neither.
shouldEnqueueOnUpdate(old, new) ==
    old.gen # new.gen \/ (~old.deleting /\ new.deleting)

SyncBinding ==
    /\ copy # obj
    /\ copy' = obj
    /\ queue' = IF copy.exists /\ obj.exists /\ ~shouldEnqueueOnUpdate(copy, obj) THEN queue
                ELSE Add(queue)
    /\ unseen' = (unseen \/ copy.gen # obj.gen)
    /\ UNCHANGED <<obj, child, ccopy, envVars, pass, dropped, faults>>

\* Mutant: the filter of the object's own events is used on its children's.
WakesOnSpec(old, new) == old.gen # new.gen \/ old.deleting # new.deleting

\* Every change of a child wakes its binding.
watchChildren(old, new) == old # new

SyncChild(v) ==
    /\ ccopy[v] # child[v]
    /\ ccopy' = [ccopy EXCEPT ![v] = child[v]]
    /\ queue' = IF watchChildren(ccopy[v], child[v]) THEN Add(queue) ELSE queue
    /\ unseen' = TRUE
    /\ UNCHANGED <<obj, copy, child, envVars, pass, dropped, faults>>

\* The informer delivers what it has again.
Resync ==
    /\ copy.exists
    /\ queue' = Add(queue)
    /\ UNCHANGED <<obj, copy, child, ccopy, envVars, pass, unseen, dropped, faults>>

\* The process dies; the next one lists everything anew.
Crash ==
    /\ Fault
    /\ copy' = obj /\ ccopy' = child /\ pass' = NoPass
    /\ queue' = [dirty |-> obj.exists, proc |-> FALSE, later |-> FALSE, tries |-> 0]
    /\ unseen' = TRUE
    /\ UNCHANGED <<obj, child, envVars, dropped>>

-----------------------------------------------------------------------------
(* Children and people *)

ChildStep(v, c) ==
    /\ child' = [child EXCEPT ![v] = c]
    /\ UNCHANGED <<obj, copy, ccopy, sel, plan, edits, queue, pass, unseen, dropped>>

\* A child starts the run its spec asks for once the last one has ended.
ChildRuns(v) ==
    /\ "run" \in plan.kinds
    /\ child[v].gen # child[v].applied /\ ~child[v].deleting /\ child[v].phase # "Running"
    /\ ChildStep(v, [child[v] EXCEPT !.applied = child[v].gen, !.phase = "Running", !.err = FALSE])
    /\ UNCHANGED <<ran, faults>>

ChildEnds(v) ==
    /\ child[v].phase = "Running" /\ ~child[v].deleting
    /\ \/ /\ ran' = [ran EXCEPT ![v] = @ \cup {child[v].applied}]
          /\ ChildStep(v, [child[v] EXCEPT !.phase = "Succeeded", !.err = FALSE])
       \/ /\ "fail" \in plan.kinds /\ UNCHANGED ran
          /\ ChildStep(v, [child[v] EXCEPT !.phase = "Failed", !.err = FALSE])
    /\ UNCHANGED faults

\* A child's own pass fails, or passes again; after a failed run its state says
\* so until the next.
ChildErrs(v) ==
    /\ child[v].gen # 0 /\ ~child[v].deleting
    /\ \/ ~child[v].err /\ child[v].phase = "Failed" /\ UNCHANGED faults
       \/ ~child[v].err /\ child[v].phase # "Failed" /\ Fault
       \/ child[v].err /\ child[v].phase # "Failed" /\ UNCHANGED faults
    /\ ChildStep(v, [child[v] EXCEPT !.err = ~@])
    /\ UNCHANGED ran

ChildGone(v) ==
    /\ child[v].deleting
    /\ ChildStep(v, NoChild)
    /\ UNCHANGED <<ran, faults>>

MayEdit(kind) == kind \in plan.kinds /\ edits < plan.edits /\ edits' = edits + 1

EditBinding ==
    /\ MayEdit("spec") /\ obj.exists /\ obj.gen < MaxGen
    /\ obj' = [obj EXCEPT !.gen = @ + 1]
    /\ UNCHANGED <<copy, child, ccopy, sel, ran, plan, queue, pass, unseen, dropped, faults>>

DeleteBinding ==
    /\ MayEdit("delete") /\ obj.exists /\ ~obj.deleting
    /\ obj' = IF obj.fin THEN [obj EXCEPT !.deleting = TRUE] ELSE NoObj
    /\ UNCHANGED <<copy, child, ccopy, sel, ran, plan, queue, pass, unseen, dropped, faults>>

Relabel(v) ==
    /\ MayEdit("label")
    /\ sel' = IF v \in sel THEN sel \ {v} ELSE sel \cup {v}
    /\ UNCHANGED <<obj, copy, child, ccopy, ran, plan, queue, pass, unseen, dropped, faults>>

-----------------------------------------------------------------------------
(* Specification *)

DoneChild == [NoChild EXCEPT !.gen = 1, !.applied = 1, !.phase = "Succeeded"]

\* A binding was just created, or has settled.
Init ==
    /\ plan \in Plans
    /\ sel = plan.first
    /\ IF plan.settled
       THEN /\ child = [v \in VM |-> IF v \in sel \ plan.taken THEN DoneChild ELSE NoChild]
            /\ obj = LET s == summarize(child, sel, 1)
                     IN  [NoObj EXCEPT !.exists = TRUE, !.gen = 1, !.fin = TRUE, !.obs = 1,
                            !.sum = s, !.word = updateAnsibleBindingStatus(s)]
            /\ copy = obj
       ELSE /\ child = [v \in VM |-> NoChild]
            /\ obj = [NoObj EXCEPT !.exists = TRUE, !.gen = 1] /\ copy = NoObj
    /\ ccopy = child
    /\ queue = [dirty |-> FALSE, proc |-> FALSE, later |-> FALSE, tries |-> 0]
    /\ pass = NoPass
    /\ ran = [v \in VM |-> {child[v].applied} \ {0}]
    /\ unseen = FALSE /\ dropped = FALSE
    /\ edits = 0 /\ faults = 0

PassStep ==
    \/ processNextWorkItem \/ HoldFinalizer \/ RereadLive \/ applyAnsibleBinding
    \/ issueChildWrites \/ writeAnsibleBindingDetails \/ Reconcile \/ cleanupAnsibleBinding
    \/ CallFails

Events == SyncBinding \/ (\E v \in VM : SyncChild(v))

Next ==
    \/ PassStep \/ LaterFires \/ Events \/ Resync \/ Crash
    \/ \E v \in VM : ChildRuns(v) \/ ChildEnds(v) \/ ChildErrs(v) \/ ChildGone(v) \/ Relabel(v)
    \/ EditBinding \/ DeleteBinding

Spec == Init /\ [][Next]_vars

\* Workers, timers, watches and the resync go on; children that are deleted go.
FairSpec ==
    /\ Spec
    /\ WF_vars(PassStep) /\ WF_vars(LaterFires) /\ WF_vars(Events) /\ WF_vars(Resync)
    /\ WF_vars(\E v \in VM : ChildGone(v))

-----------------------------------------------------------------------------
(* Properties *)

\* Every variable keeps its type; each matched VM is in one count of every
\* summary written (summarize), and the key is processed while a pass runs.
TypeOK ==
    /\ obj \in Object /\ copy \in Object /\ pass \in Pass
    /\ \A o \in {obj, copy, pass.src} : o.obs <= o.gen
    /\ child \in [VM -> Child] /\ ccopy \in [VM -> Child]
    /\ sel \in SUBSET VM /\ ran \in [VM -> SUBSET (Gen \ {0})]
    /\ queue \in Queue
    /\ pass.size <= pass.left
    /\ queue.proc <=> pass.pc # "idle"
    /\ plan \in Plans /\ edits \in 0 .. plan.edits /\ faults \in 0 .. plan.faults

\* A terminating binding's key is queued, in work or due, or its deletion is
\* still to be heard of: no failure, delay or crash lets it be forgotten
\* (processNextWorkItem, errCleanupPending).
FinalizationNotForgotten ==
    obj.deleting => ~Idle(queue) \/ ~copy.deleting

\* A key at rest has nothing new to it: the last pass decided from the children
\* as the informer has them and from no older a spec, whatever arrived while it
\* ran, unless the key was given up (informerEventHandler, watchChildren).
RestMeansSeen ==
    Idle(queue) /\ ~dropped /\ copy.exists /\ ~copy.deleting => ~unseen

\* A pass concludes Ready only when every VM it matched has completed a
\* successful run of the generation it reports on (summarize).
ReadyIsEarned ==
    pass.pc = "word" /\ updateAnsibleBindingStatus(pass.sum).state = "Ready" =>
      \A v \in pass.listed : pass.src.gen \in ran[v]

-----------------------------------------------------------------------------
(* The invariant behind them, inductive *)

\* An object that exists has a generation, and one that terminates a finalizer.
ObjectOK(o) == (o.exists => o.gen # 0) /\ (o.deleting => o.exists /\ o.fin)

\* Copies are old, and never ahead of an object that is there.
CopiesLag ==
    obj.exists => /\ copy.gen <= obj.gen /\ pass.src.gen <= obj.gen
                  /\ copy.deleting => obj.deleting

\* What a pass knows at its steps.
PassOK ==
    /\ pass.pc = "reread" => obj.exists /\ obj.fin
    /\ pass.pc \in {"decide", "delete", "write", "report", "word"} => pass.src.exists

\* A deletion that was heard of is due, or being worked on.
DeletionDue == obj.deleting /\ copy.deleting => queue.dirty \/ queue.later \/ pass.pc = "cleanup"

\* News that no pass has decided from is due, or will be when the pass decides.
NewsDue ==
    unseen /\ copy.exists /\ ~copy.deleting =>
      queue.dirty \/ queue.later \/ dropped \/ pass.pc \in {"hold", "reread", "decide"}

\* A child's success is on the record of runs, and no child is without a spec.
ChildOK(v, c) ==
    /\ c.phase = "Succeeded" => c.applied \in ran[v]
    /\ c.phase = "Running" => c.applied # 0
    /\ c.gen = 0 => c = NoChild

\* A rollup that says Ready was earned from when it was made.
RollupEarned ==
    /\ pass.pc \in {"delete", "write", "report", "word"}
    /\ updateAnsibleBindingStatus(pass.sum).state = "Ready"
    => \A v \in pass.listed : pass.src.gen \in ran[v]

IInv ==
    /\ TypeOK /\ unseen \in BOOLEAN /\ dropped \in BOOLEAN
    /\ \A o \in {obj, copy, pass.src} : ObjectOK(o)
    /\ CopiesLag /\ PassOK /\ DeletionDue /\ NewsDue
    /\ \A v \in VM : ChildOK(v, child[v]) /\ ChildOK(v, ccopy[v])
    /\ RollupEarned

-----------------------------------------------------------------------------
(* Promises about what comes to be, and about what readers see *)

\* What a reader of status and children would agree on.
Truthful ==
    LET s == summarize(child, sel, obj.gen) IN
    /\ obj.obs = obj.gen /\ obj.sum = s
    /\ obj.word = updateAnsibleBindingStatus(s) \/ plan.broken # {}

\* Status comes to be true again after every change, the resync included among
\* what makes it so.
StatusCatchesUp == []<>(Truthful \/ ~obj.exists \/ obj.deleting)

\* A VM whose writes are refused, or two, keep no other from getting its child
\* and the present spec (issueChildWrites).
HealthyServed ==
    []<>(\/ ~obj.exists \/ obj.deleting
         \/ \A v \in sel \ (plan.broken \cup plan.taken) : child[v].gen = obj.gen)

\* At rest, with nothing left to hear of, Ready for the present generation means
\* that every VM has run it (summarize, genericStatusCurrent).
ReadyAtRestIsEarned ==
    /\ Idle(queue) /\ copy = obj /\ ccopy = child
    /\ obj.exists /\ ~obj.deleting /\ obj.obs = obj.gen /\ obj.word.state = "Ready"
    => \A v \in sel : obj.gen \in ran[v]
=============================================================================
