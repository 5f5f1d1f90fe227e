------------------------------- MODULE VMClaim -------------------------------
(***************************************************************************)
(* The claims of AnsibleBindings on VirtualMachines.  A binding keeps one  *)
(* AnsibleBindingVM, its child, per VM its selector matches; the child's   *)
(* name is the VM's, so the API server's refusal of a second object of one *)
(* name is what settles who owns the VM.                                   *)
(*                                                                         *)
(* A pass lists VMs live, reads bindings and children from informer copies *)
(* that lag, then issues its deletions and its writes one call at a time.  *)
(* Bindings of one name share a work queue key and so one pass; passes of  *)
(* different names interleave.  A child's own teardown (DeprovisionHook)   *)
(* is one step here, that needs AWX unless the child says Retain.          *)
(***************************************************************************)
EXTENDS Naturals, FiniteSets, FiniteSetsExt

CONSTANTS
    BName,        \* names of bindings
    Binding,      \* bindings, by UID
    NameOf,       \* the name each was created under
    VMName,       \* names of VirtualMachines, in one namespace with the bindings
    None,
    MaxVM,        \* bound on the UIDs a VM name goes through
    MaxUID,       \* bound on the child objects known of at one time
    Plans         \* what people may do and what may fail, see "plan"

ASSUME ClaimAssumption ==
    /\ NameOf \in [Binding -> BName]
    /\ None \notin Binding
    /\ MaxVM \in Nat \ {0} /\ MaxUID \in Nat
    /\ \A p \in Plans : /\ p.who \subseteq Binding /\ p.awx \in BOOLEAN
                        /\ p.max \in Nat /\ p.faults \in Nat
                        /\ \A k \in DOMAIN p.edits : p.edits[k] \in Nat

VARIABLES
    bind,     \* the API server's AnsibleBindings, by UID
    bcache,   \* the informer's copy of each binding name
    child,    \* the API server's AnsibleBindingVMs, by the VM name they claim
    ccache,   \* the informer's copies of them
    vm,       \* the UID behind each VM name; 0 when there is none
    gone,     \* UIDs a VM name has gone through
    sel,      \* the VM names each binding's selector matches
    pass,     \* the pass running on each binding name
    conflict, \* the VMs each binding last reported as claimed by another
    plan,     \* the bindings people create ("who"), how many edits of each kind
              \* they make ("edits") and in all ("max"), the crashes and failed
              \* calls ("faults"), and whether AWX answers
    edits, faults

vars == <<bind, bcache, child, ccache, vm, gone, sel, plan, pass, conflict,
          edits, faults>>
worldVars == <<vm, gone, sel, plan, edits>>

-----------------------------------------------------------------------------
(* Data *)

\* "gen" is the generation, which any edit of the spec bumps; "retain" the
\* cleanup policy, of which the child has its own copy.  A binding is "gone" by
\* itself, "stripped" when its finalizer was taken off by hand, and "unheld" when
\* it went without one under a name where that had been done.
BindObj == [phase : {"none", "live", "gone", "stripped", "unheld"}, deleting : BOOLEAN, fin : BOOLEAN,
            gen : Nat, retain : BOOLEAN]
NoBind == [phase |-> "none", deleting |-> FALSE, fin |-> FALSE, gen |-> 0, retain |-> FALSE]

\* uid 0 is no object.  "by" is spec.bindingUID (its name follows from it) and
\* "vm" the UID in the owner reference.
Child == [uid : Nat, by : Binding \cup {None}, vm : Nat, gen : Nat, retain : BOOLEAN,
          deleting : BOOLEAN, fin : BOOLEAN]
NoChild == [uid |-> 0, by |-> None, vm |-> 0, gen |-> 0, retain |-> FALSE,
            deleting |-> FALSE, fin |-> FALSE]
Exists(c) == c.uid # 0

\* What a pass means to do about one VM name, with the copy it decided from or
\* the VM it listed.
Op == [kind : {"none", "create", "update", "delete"}, copy : Child, vm : Nat]
NoOp == [kind |-> "none", copy |-> NoChild, vm |-> 0]

\* "b" is the binding the pass is for, "gen" and "retain" its spec as copied.
Pass == [pc : {"idle", "hold", "ops", "confirm", "release", "report"},
         b : Binding \cup {None}, cleanup : BOOLEAN, gen : Nat, retain : BOOLEAN,
         ops : [VMName -> Op], conflict : SUBSET VMName]
NoPass == [pc |-> "idle", b |-> None, cleanup |-> FALSE, gen |-> 0, retain |-> FALSE,
           ops |-> [v \in VMName |-> NoOp], conflict |-> {}]

Held(n) == {b \in Binding : NameOf[b] = n /\ bind[b].phase = "live"}
Holder(n) == IF Held(n) = {} THEN None ELSE CHOOSE b \in Held(n) : TRUE
NoCopy == [b |-> None, obj |-> NoBind]
Snapshot(n) == IF Holder(n) = None THEN NoCopy
               ELSE [b |-> Holder(n), obj |-> bind[Holder(n)]]

Fault == faults < plan.faults /\ faults' = faults + 1
Pending(p) == {v \in VMName : p.ops[v].kind # "none"}
Deletions(p) == {v \in VMName : p.ops[v].kind = "delete"}

-----------------------------------------------------------------------------
(* A pass decides *)

\* Name and UID: what an earlier binding of the name left is not inherited.
claimHeldBy(c, b) == Exists(c) /\ c.by = b

\* The owner reference names this VM by UID.
bindingChildMatchesVM(c, uid) == c.vm = uid

\* Mutant: nobody's name is put on it.
UnsignedSpec(p) == [by |-> None, gen |-> p.gen, retain |-> p.retain]

\* The spec a child of the pass's binding should have.
childSpecFor(p) == [by |-> p.b, gen |-> p.gen, retain |-> p.retain]

\* The spec it has.
SpecOf(c) == [by |-> c.by, gen |-> c.gen, retain |-> c.retain]

\* The UID behind a VM name the binding's selector matches.
Listed(b, v) == IF v \in sel[b] THEN vm[v] ELSE 0

\* What is to be done about one VM name, from the VMs listed and the copies.
Decision(p, v) ==
    LET c == ccache[v]
        uid == Listed(p.b, v)
        current == uid # 0 /\ bindingChildMatchesVM(c, uid)
    IN  CASE uid # 0 /\ ~Exists(c) -> [NoOp EXCEPT !.kind = "create", !.vm = uid]
          [] claimHeldBy(c, p.b) /\ current /\ ~c.deleting /\ SpecOf(c) # childSpecFor(p) ->
               [NoOp EXCEPT !.kind = "update", !.copy = c]
          [] claimHeldBy(c, p.b) /\ ~current -> [NoOp EXCEPT !.kind = "delete", !.copy = c]
          [] OTHER -> NoOp

\* Mutant: a claim of another's is passed over without a word.
NoConflicts(b) == {}

\* A matched VM whose claim, as copied, is another binding's.
Conflicts(b) ==
    {v \in VMName : Listed(b, v) # 0 /\ Exists(ccache[v]) /\ ~claimHeldBy(ccache[v], b)}

Report(p) == [NoPass EXCEPT !.pc = "report", !.b = p.b, !.conflict = p.conflict]

\* A pass over the VMs as they are and the children as copied.  One with no call
\* to make goes straight to its report, or ends if that would say nothing new.
Decided(c) ==
    LET p == [NoPass EXCEPT !.b = c.b, !.gen = c.obj.gen, !.retain = c.obj.retain]
        q == [p EXCEPT !.conflict = Conflicts(c.b), !.ops = [v \in VMName |-> Decision(p, v)]]
    IN  CASE Pending(q) # {} -> [q EXCEPT !.pc = "ops"]
          [] Pending(q) = {} /\ q.conflict # conflict[c.b] -> Report(q)
          [] OTHER -> NoPass

applyAnsibleBinding(n) ==
    LET c == bcache[n] IN
    /\ pass[n].pc = "idle" /\ c.b # None /\ ~c.obj.deleting /\ c.obj.fin
    /\ pass' = [pass EXCEPT ![n] = Decided(c)]
    /\ UNCHANGED <<bind, bcache, child, ccache, worldVars, conflict, faults>>

\* The children of the binding's name, whoever of that name made them.
Deletes(n, children) ==
    [v \in VMName |->
       IF Exists(children[v]) /\ children[v].by # None /\ NameOf[children[v].by] = n
       THEN [NoOp EXCEPT !.kind = "delete", !.copy = children[v]] ELSE NoOp]

\* The pass deletes what its list shows, and waits for it; where it goes when
\* the list is empty is the caller's.
CleanupPass(p, ops, otherwise) ==
    IF \A v \in VMName : ops[v] = NoOp THEN [p EXCEPT !.pc = otherwise]
    ELSE [p EXCEPT !.pc = "ops", !.ops = ops]

\* Mutant: a cache that shows no child is taken at its word.
ReleaseOnCache == "release"

\* A cache that shows none is checked with a live list.
AfterEmptyCache == "confirm"

cleanupAnsibleBinding(n) ==
    LET c == bcache[n]
        p == [NoPass EXCEPT !.b = c.b, !.cleanup = TRUE, !.retain = c.obj.retain]
    IN
    /\ pass[n].pc = "idle" /\ c.b # None /\ c.obj.deleting /\ c.obj.fin
    /\ pass' = [pass EXCEPT ![n] = CleanupPass(p, Deletes(n, ccache), AfterEmptyCache)]
    /\ UNCHANGED <<bind, bcache, child, ccache, worldVars, conflict, faults>>

ConfirmChildrenGone(n) ==
    /\ pass[n].pc = "confirm"
    /\ pass' = [pass EXCEPT ![n] = CleanupPass(@, Deletes(n, child), "release")]
    /\ UNCHANGED <<bind, bcache, child, ccache, worldVars, conflict, faults>>

-----------------------------------------------------------------------------
(* A pass acts *)

\* One call done; the last is followed by the report, or in a cleanup by the
\* wait for the children.
Did(p, v) ==
    LET q == [p EXCEPT !.ops[v] = NoOp]
    IN  CASE Pending(q) # {} -> q
          [] Pending(q) = {} /\ p.cleanup -> NoPass
          [] OTHER -> Report(q)

\* Deletions go before writes.
Issuing(n, v, kind) ==
    /\ pass[n].pc = "ops" /\ pass[n].ops[v].kind = kind
    /\ kind # "delete" => Deletions(pass[n]) = {}

\* Whether an object, or a copy of one, has this UID.
KnownUID(u) ==
    \E v \in VMName : u \in {child[v].uid, ccache[v].uid} \cup {pass[n].ops[v].copy.uid : n \in BName}

\* The first UID that none has.
FreshUID(u) == ~KnownUID(u) /\ \A w \in 1 .. u - 1 : KnownUID(w)

\* The API server lets one object hold the name; the loser reads whose it is.
createBindingChild(n, v) ==
    LET p == pass[n] IN
    /\ Issuing(n, v, "create")
    /\ IF Exists(child[v])
       THEN /\ pass' = [pass EXCEPT ![n] = Did([p EXCEPT
                 !.conflict = IF claimHeldBy(child[v], p.b) THEN @ ELSE @ \cup {v}], v)]
            /\ UNCHANGED child
       ELSE /\ \E uid \in 1 .. MaxUID :
                 /\ FreshUID(uid)
                 /\ child' = [child EXCEPT ![v] = [NoChild EXCEPT !.uid = uid,
                                !.by = childSpecFor(p).by, !.vm = p.ops[v].vm,
                                !.gen = p.gen, !.retain = p.retain]]
            /\ pass' = [pass EXCEPT ![n] = Did(p, v)]
    /\ UNCHANGED <<bind, bcache, ccache, worldVars, conflict, faults>>

\* The patch tests uid and resourceVersion: nothing may have changed.
PatchApplies(c, copy) == c = copy

\* The whole spec is replaced; the CRD lets no patch change whose claim it is.
updateBindingChildSpec(n, v) ==
    LET p == pass[n]
        s == childSpecFor(p)
    IN
    /\ Issuing(n, v, "update")
    /\ PatchApplies(child[v], p.ops[v].copy) /\ child[v].by = s.by
    /\ child' = [child EXCEPT ![v].gen = s.gen, ![v].retain = s.retain]
    /\ pass' = [pass EXCEPT ![n] = Did(p, v)]
    /\ UNCHANGED <<bind, bcache, ccache, worldVars, conflict, faults>>

\* Mutant: the delete goes to the name.
DeletesByName(c, copy) == Exists(c)

\* The delete names the UID it was decided for.
DeleteApplies(c, copy) == Exists(c) /\ c.uid = copy.uid

\* A finalizer turns a deletion into a wish.
Deleted(c) == IF c.fin THEN [c EXCEPT !.deleting = TRUE] ELSE NoChild

\* Mutant: a deletion takes no policy along.
NeverTold(p, copy) == FALSE

\* Whether the policy in force differs from the one the child has.
PolicyChanged(p, copy) == copy.retain # p.retain

\* The policy goes down first, if it changed, then the deletion, if it was not
\* asked for yet; a child gone by then is as good.
deleteBindingChild(n, v) ==
    LET p == pass[n]
        copy == p.ops[v].copy
        c == child[v]
        told == [c EXCEPT !.retain = p.retain]
    IN
    /\ Issuing(n, v, "delete")
    /\ \/ /\ ~Exists(c) \/ (~PolicyChanged(p, copy) /\ copy.deleting)
          /\ pass' = [pass EXCEPT ![n] = Did(p, v)]
          /\ UNCHANGED child
       \/ /\ PolicyChanged(p, copy) /\ Exists(c) /\ PatchApplies(c, copy)
          /\ child' = [child EXCEPT ![v] = told]
          /\ pass' = [pass EXCEPT ![n].ops[v].copy = told]
       \/ /\ ~PolicyChanged(p, copy) /\ ~copy.deleting /\ DeleteApplies(c, copy)
          /\ child' = [child EXCEPT ![v] = IF @.deleting THEN @ ELSE Deleted(@)]
          /\ pass' = [pass EXCEPT ![n] = Did(p, v)]
    /\ UNCHANGED <<bind, bcache, ccache, worldVars, conflict, faults>>

\* The call fails: its precondition no longer holds, since the object changed
\* after it was copied, or the API server is at fault.  A cleanup stops there;
\* another pass goes on with the rest and ends in an error.
Refused(n, v) ==
    LET p == pass[n]
        copy == p.ops[v].copy
        patching == p.ops[v].kind = "update" \/ PolicyChanged(p, copy)
        stale == IF patching THEN ~PatchApplies(child[v], copy)
                 ELSE ~copy.deleting /\ ~DeleteApplies(child[v], copy)
    IN
    /\ p.pc = "ops" /\ p.ops[v].kind # "none"
    /\ p.ops[v].kind # "delete" => Deletions(p) = {}
    /\ \/ /\ p.ops[v].kind = "update" \/ (p.ops[v].kind = "delete" /\ Exists(child[v]))
          /\ stale /\ UNCHANGED faults
       \/ Fault
    /\ pass' = [pass EXCEPT ![n] = IF p.cleanup THEN NoPass ELSE Did(p, v)]
    /\ UNCHANGED <<bind, bcache, child, ccache, worldVars, conflict>>

\* The summary's conflicts reach status, by name.
writeAnsibleBindingDetails(n) ==
    /\ pass[n].pc = "report"
    /\ conflict' = IF Holder(n) = None THEN conflict
                   ELSE [conflict EXCEPT ![Holder(n)] = pass[n].conflict]
    /\ pass' = [pass EXCEPT ![n] = NoPass]
    /\ UNCHANGED <<bind, bcache, child, ccache, worldVars, faults>>

\* The binding's finalizer.  Both patches re-read by name on a conflict, and a
\* terminating object takes no new finalizer.
HoldFinalizer(n) ==
    /\ pass[n].pc = "idle" /\ bcache[n].b # None
    /\ ~bcache[n].obj.deleting /\ ~bcache[n].obj.fin
    /\ Holder(n) # None /\ ~bind[Holder(n)].deleting
    /\ bind' = [bind EXCEPT ![Holder(n)].fin = TRUE]
    /\ pass' = [pass EXCEPT ![n].pc = "hold"]
    /\ UNCHANGED <<bcache, child, ccache, worldVars, conflict, faults>>

\* The pass goes on from what the API server has, terminating by now or not.
ProvisionHeld(n) ==
    /\ pass[n].pc = "hold"
    /\ pass' = [pass EXCEPT ![n] = IF Holder(n) = None THEN NoPass ELSE Decided(Snapshot(n))]
    /\ UNCHANGED <<bind, bcache, child, ccache, worldVars, conflict, faults>>

ReleaseFinalizer(n) ==
    /\ pass[n].pc = "release"
    /\ bind' = IF Holder(n) = None THEN bind
               ELSE [bind EXCEPT ![Holder(n)] = IF @.deleting THEN [NoBind EXCEPT !.phase = "gone"]
                                                ELSE [@ EXCEPT !.fin = FALSE]]
    /\ pass' = [pass EXCEPT ![n] = NoPass]
    /\ UNCHANGED <<bcache, child, ccache, worldVars, conflict, faults>>

\* Any call fails: what was done stays done.
CallFails(n) ==
    /\ pass[n].pc # "idle" /\ Fault
    /\ pass' = [pass EXCEPT ![n] = NoPass]
    /\ UNCHANGED <<bind, bcache, child, ccache, worldVars, conflict>>

-----------------------------------------------------------------------------
(* The child, the garbage collector, the informers, the process *)

\* A child takes its finalizer before it does anything.
ChildHolds(v) ==
    /\ Exists(child[v]) /\ ~child[v].deleting /\ ~child[v].fin
    /\ child' = [child EXCEPT ![v].fin = TRUE]
    /\ UNCHANGED <<bind, bcache, ccache, worldVars, pass, conflict, faults>>

\* Its teardown completes: at once under Retain, otherwise with AWX's help.
ChildGone(v) ==
    /\ child[v].deleting /\ (plan.awx \/ child[v].retain)
    /\ child' = [child EXCEPT ![v] = NoChild]
    /\ UNCHANGED <<bind, bcache, ccache, worldVars, pass, conflict, faults>>

\* Its owner's UID resolves to nothing.
CollectGarbage(v) ==
    /\ Exists(child[v]) /\ ~child[v].deleting /\ child[v].vm # vm[v]
    /\ child' = [child EXCEPT ![v] = Deleted(@)]
    /\ UNCHANGED <<bind, bcache, ccache, worldVars, pass, conflict, faults>>

SyncChild(v) ==
    /\ ccache[v] # child[v]
    /\ ccache' = [ccache EXCEPT ![v] = child[v]]
    /\ UNCHANGED <<bind, bcache, child, worldVars, pass, conflict, faults>>

SyncBinding(n) ==
    /\ bcache[n] # Snapshot(n)
    /\ bcache' = [bcache EXCEPT ![n] = Snapshot(n)]
    /\ UNCHANGED <<bind, child, ccache, worldVars, pass, conflict, faults>>

Crash ==
    /\ Fault
    /\ pass' = [n \in BName |-> NoPass]
    /\ ccache' = child /\ bcache' = [n \in BName |-> Snapshot(n)]
    /\ UNCHANGED <<bind, child, worldVars, conflict>>

-----------------------------------------------------------------------------
(* People *)

EditsInAll == MapThenSumSet(LAMBDA k : edits[k], DOMAIN edits)

MayEdit(kind) ==
    /\ kind \in DOMAIN plan.edits /\ edits[kind] < plan.edits[kind] /\ EditsInAll < plan.max
    /\ edits' = [edits EXCEPT ![kind] = @ + 1]

\* One object of a name at a time; a UID is not used again.
CreateBinding(b) ==
    /\ b \in plan.who /\ bind[b].phase = "none" /\ Holder(NameOf[b]) = None
    /\ bind' = [bind EXCEPT ![b] = [NoBind EXCEPT !.phase = "live", !.gen = 1]]
    /\ UNCHANGED <<bcache, child, ccache, worldVars, pass, conflict, faults>>

\* Whether a finalizer was taken off by hand under this name.
Stripped(n) == \E b \in Binding : NameOf[b] = n /\ bind[b].phase = "stripped"

DeleteBinding(b) ==
    LET end == IF Stripped(NameOf[b]) THEN "unheld" ELSE "gone" IN
    /\ MayEdit("delete") /\ bind[b].phase = "live" /\ ~bind[b].deleting
    /\ bind' = [bind EXCEPT ![b] = IF @.fin THEN [@ EXCEPT !.deleting = TRUE]
                                   ELSE [NoBind EXCEPT !.phase = end]]
    /\ UNCHANGED <<bcache, child, ccache, vm, gone, sel, plan, pass, conflict, faults>>

\* A new generation, or another policy.
EditBinding(b) ==
    /\ bind[b].phase = "live"
    /\ \/ MayEdit("spec") /\ bind' = [bind EXCEPT ![b].gen = @ + 1]
       \/ MayEdit("policy") /\ bind' = [bind EXCEPT ![b].gen = @ + 1, ![b].retain = ~@]
    /\ UNCHANGED <<bcache, child, ccache, vm, gone, sel, plan, pass, conflict, faults>>

\* A terminating binding's finalizer is taken off by hand.
StripFinalizer(b) ==
    /\ MayEdit("strip") /\ bind[b].deleting
    /\ bind' = [bind EXCEPT ![b] = [NoBind EXCEPT !.phase = "stripped"]]
    /\ UNCHANGED <<bcache, child, ccache, vm, gone, sel, plan, pass, conflict, faults>>

Relabel(b, v) ==
    /\ MayEdit("label") /\ bind[b].phase = "live"
    /\ sel' = [sel EXCEPT ![b] = IF v \in @ THEN @ \ {v} ELSE @ \cup {v}]
    /\ UNCHANGED <<bind, bcache, child, ccache, vm, gone, plan, pass, conflict, faults>>

\* A VM is deleted, or deleted and created again under its name.
ReplaceVM(v) ==
    /\ MayEdit("vm") /\ vm[v] # 0
    /\ \/ vm' = [vm EXCEPT ![v] = 0] /\ UNCHANGED gone
       \/ /\ gone[v] < MaxVM
          /\ vm' = [vm EXCEPT ![v] = gone[v] + 1] /\ gone' = [gone EXCEPT ![v] = @ + 1]
    /\ UNCHANGED <<bind, bcache, child, ccache, sel, plan, pass, conflict, faults>>

-----------------------------------------------------------------------------
(* Specification *)

\* Every binding's selector matches every VM to begin with.
Init ==
    /\ bind = [b \in Binding |-> NoBind]
    /\ bcache = [n \in BName |-> NoCopy]
    /\ child = [v \in VMName |-> NoChild] /\ ccache = child
    /\ vm = [v \in VMName |-> 1] /\ gone = vm
    /\ sel = [b \in Binding |-> VMName]
    /\ plan \in Plans
    /\ pass = [n \in BName |-> NoPass]
    /\ conflict = [b \in Binding |-> {}]
    /\ edits = [k \in DOMAIN plan.edits |-> 0] /\ faults = 0

PassStep(n) ==
    \/ applyAnsibleBinding(n) \/ cleanupAnsibleBinding(n) \/ ConfirmChildrenGone(n)
    \/ (\E v \in VMName : \/ createBindingChild(n, v) \/ updateBindingChildSpec(n, v)
                          \/ deleteBindingChild(n, v) \/ Refused(n, v))
    \/ writeAnsibleBindingDetails(n) \/ HoldFinalizer(n) \/ ProvisionHeld(n)
    \/ ReleaseFinalizer(n)
    \/ CallFails(n)

ChildStep(v) == ChildHolds(v) \/ ChildGone(v) \/ CollectGarbage(v)

Next ==
    \/ \E n \in BName : PassStep(n) \/ SyncBinding(n)
    \/ \E v \in VMName : ChildStep(v) \/ SyncChild(v) \/ ReplaceVM(v)
    \/ \E b \in Binding : \/ CreateBinding(b) \/ DeleteBinding(b) \/ EditBinding(b)
                          \/ StripFinalizer(b) \/ (\E v \in VMName : Relabel(b, v))
    \/ Crash

Spec == Init /\ [][Next]_vars

\* Passes come again (a conflict and a wait ask for one, the resync brings the
\* rest) and go on; the informers catch up; children and the garbage collector
\* do their part.
FairSpec ==
    /\ Spec
    /\ \A n \in BName : WF_vars(PassStep(n)) /\ WF_vars(SyncBinding(n))
    /\ \A v \in VMName : WF_vars(SyncChild(v)) /\ WF_vars(ChildStep(v))

-----------------------------------------------------------------------------
(* Properties *)

\* Every variable keeps its type, and every child there is, or is a copy of,
\* names a binding and a VM (childSpecFor, createBindingChild).
TypeOK ==
    /\ bind \in [Binding -> BindObj]
    /\ bcache \in [BName -> [b : Binding \cup {None}, obj : BindObj]]
    /\ child \in [VMName -> Child] /\ ccache \in [VMName -> Child]
    /\ \A v \in VMName : \A c \in {child[v], ccache[v]} :
         IF Exists(c) THEN c.by # None /\ c.vm # 0 ELSE c = NoChild
    /\ vm \in [VMName -> 0 .. MaxVM] /\ gone \in [VMName -> 1 .. MaxVM]
    /\ sel \in [Binding -> SUBSET VMName] /\ conflict \in [Binding -> SUBSET VMName]
    /\ pass \in [BName -> Pass]
    /\ plan \in Plans /\ faults \in 0 .. plan.faults
    /\ DOMAIN edits = DOMAIN plan.edits /\ \A k \in DOMAIN edits : edits[k] \in 0 .. plan.edits[k]

\* The claims implement VMOwnership: a VM goes from one binding to the next only
\* through being free, also to a binding recreated under the name of one whose
\* finalizer was taken off by hand, and a binding that leaves by itself leaves no
\* child (claimHeldBy, createBindingChild, cleanupAnsibleBinding).
Ownership == INSTANCE VMOwnership WITH
    owner <- [v \in VMName |-> child[v].by],
    left <- {b \in Binding : bind[b].phase = "gone"}
Implements == Ownership!Spec

\* A pass of a living binding changes or deletes no child but its own, however
\* long ago it decided to and whatever holds the name by then, and a cleanup
\* none of another name (deleteBindingChild, updateBindingChildSpec).
OwnerOnly ==
    [][\A n \in BName, v \in VMName :
         pass'[n] # pass[n] /\ pass[n].pc = "ops" /\ Exists(child[v]) /\ child'[v] # child[v] =>
           IF pass[n].cleanup THEN NameOf[child[v].by] = n ELSE child[v].by = pass[n].b]_vars

\* The finalizer is in place before anything external is created: who a child is
\* made for has it, if that binding is still there (Controller.Reconcile, which
\* re-reads by name after it put the finalizer on and asks no more).
HeldBeforeClaim ==
    [][\A v \in VMName : ~Exists(child[v]) /\ Exists(child'[v]) =>
         LET b == bind[child'[v].by] IN b.phase = "live" => b.fin]_vars

-----------------------------------------------------------------------------
(* The invariant behind them, inductive *)

\* What is not live has neither finalizer nor a deletion to wait for; what
\* terminates has a finalizer; and a name is one binding's at a time.
BindingsOK ==
    /\ \A b \in Binding : /\ bind[b].phase # "live" => ~bind[b].fin /\ ~bind[b].deleting
                          /\ bind[b].deleting => bind[b].fin
    /\ \A a, b \in Binding :
         bind[a].phase = "live" /\ bind[b].phase = "live" /\ NameOf[a] = NameOf[b] => a = b

\* A binding that may have children: one with its finalizer, or one for which
\* the finalizer could not be relied on.
Entitled(b) ==
    \/ bind[b].phase \in {"stripped", "unheld"}
    \/ bind[b].phase = "live" /\ (bind[b].fin \/ Stripped(NameOf[b]))

\* One that people deleted while it had its finalizer.
Ending(b) == bind[b].deleting \/ bind[b].phase \in {"gone", "stripped"}

\* No other binding of the name has its finalizer.
OnlyHeld(n, b) == \A a \in Held(n) : bind[a].fin => a = b

ClaimsEntitled == \A v \in VMName : Exists(child[v]) => Entitled(child[v].by)

\* What a copy of a binding still says of it.
CopyOK(n) ==
    LET c == bcache[n] IN
    c.b # None => /\ NameOf[c.b] = n
                  /\ c.obj.fin /\ ~c.obj.deleting => Entitled(c.b)
                  /\ c.obj.deleting => Ending(c.b) /\ OnlyHeld(n, c.b)

\* What a pass knows at its steps: for whom it writes, that a finalization is of a
\* binding that is ending, and that none of its name's children is left once it
\* has confirmed so.
PassOK(n, p) ==
    /\ p.pc = "idle" => p = NoPass
    /\ p.pc \in {"hold", "report"} => ~p.cleanup
    /\ p.pc \in {"confirm", "release"} => p.cleanup
    /\ p.pc = "hold" => Stripped(n) \/ \E b \in Held(n) : bind[b].fin
    /\ p.pc = "ops" \/ p.cleanup => p.b # None /\ NameOf[p.b] = n
    /\ p.pc = "ops" /\ ~p.cleanup => Entitled(p.b)
    /\ p.cleanup => /\ Ending(p.b) /\ OnlyHeld(n, p.b)
                    /\ bcache[n].b = p.b => bcache[n].obj.deleting
    /\ p.pc = "release" => \A v \in VMName : Exists(child[v]) => NameOf[child[v].by] # n

\* What a call it means to make is about.
OpOK(n, p, o) ==
    /\ o.kind \in {"none", "create"} => o.copy = NoChild
    /\ o.kind = "create" => o.vm # 0
    /\ o.kind \in {"create", "update"} => ~p.cleanup
    /\ o.kind \in {"update", "delete"} => Exists(o.copy) /\ o.copy.by # None /\ o.copy.vm # 0
    /\ o.kind = "delete" /\ p.cleanup => NameOf[o.copy.by] = n
    /\ o.kind = "delete" /\ ~p.cleanup => o.copy.by = p.b

\* Objects and copies of one UID have one owner.
Known(v) == {child[v], ccache[v]} \cup {pass[n].ops[v].copy : n \in BName}
OneOwner(K) == \A c, d \in K : Exists(c) /\ c.uid = d.uid => c.by = d.by

IInv ==
    /\ TypeOK /\ BindingsOK /\ ClaimsEntitled
    /\ \A n \in BName : /\ CopyOK(n) /\ PassOK(n, pass[n])
                         /\ \A v \in VMName : OpOK(n, pass[n], pass[n].ops[v])
    /\ \A v \in VMName : OneOwner(Known(v))

-----------------------------------------------------------------------------
(* Promises about what comes to be *)

\* Where things stand when nothing is left to do about a VM: a selected one is
\* owned by one of the bindings that select it, for its present UID and with
\* the present spec, the others report the conflict, and an unselected one is
\* nobody's.
Selecting(v) == {b \in Binding : /\ bind[b].phase = "live" /\ ~bind[b].deleting
                                 /\ v \in sel[b] /\ vm[v] # 0}
Settled(v) ==
    IF Selecting(v) = {} THEN ~Exists(child[v])
    ELSE /\ child[v].by \in Selecting(v)
         /\ ~child[v].deleting /\ child[v].vm = vm[v]
         /\ child[v].gen = bind[child[v].by].gen /\ child[v].retain = bind[child[v].by].retain
         /\ \A b \in Selecting(v) : v \in conflict[b] <=> b # child[v].by

\* Every VM comes to be settled again, whatever the order in which bindings,
\* labels and VMs came and went and whatever calls failed; a dead AWX or a
\* finalizer taken off by hand may leave a child in the way.
Settles ==
    []<>((\A v \in VMName : Settled(v)) \/ ~plan.awx
         \/ \E b \in Binding : bind[b].phase = "stripped")

\* Retain lets a binding go though AWX is dead, also when it is set after the
\* deletion (deleteBindingChild copies the policy down during finalization).
RetainReleases == []<>(\A b \in Binding : ~(bind[b].deleting /\ bind[b].retain))
=============================================================================
