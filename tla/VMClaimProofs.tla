---------------------------- MODULE VMClaimProofs ----------------------------
(***************************************************************************)
(* Proofs about VMClaim, for any number of bindings, names and VMs, and    *)
(* any plan of edits and faults.                                           *)
(***************************************************************************)
EXTENDS VMClaim, TLAPS

-----------------------------------------------------------------------------
(* Bindings of a name *)

\* The holder of a name is the binding of that name that is there, if any.
LEMMA HolderIs ==
    ASSUME BindingsOK, NEW n \in BName
    PROVE  /\ Holder(n) \in Binding \cup {None}
           /\ Holder(n) # None => Holder(n) \in Held(n)
           /\ \A b \in Held(n) : Holder(n) = b
<1>1. None \notin Binding
  BY ClaimAssumption
<1>2. \A a, b \in Held(n) : a = b
  BY DEF Held, BindingsOK
<1>3. Held(n) \subseteq Binding
  BY DEF Held
<1>. QED
  BY <1>1, <1>2, <1>3 DEF Holder

\* What nothing looks like is of the right type.
LEMMA EmptyTyped ==
    /\ NoBind \in BindObj /\ NoChild \in Child /\ NoOp \in Op /\ NoPass \in Pass
    /\ ~Exists(NoChild)
<1>1. NoBind \in BindObj /\ NoChild \in Child /\ ~Exists(NoChild)
  BY DEF NoBind, BindObj, NoChild, Child, Exists
<1>2. NoOp \in Op
  BY <1>1 DEF NoOp, Op
<1>. QED
  BY <1>1, <1>2 DEF NoPass, Pass

\* A pass that is over, or reports, means to make no call.
LEMMA NoPassIs ==
    /\ NoPass.pc = "idle" /\ ~NoPass.cleanup /\ NoPass.b = None
    /\ \A v \in VMName : NoPass.ops[v] = NoOp
    /\ NoOp.kind = "none" /\ NoOp.copy = NoChild
BY DEF NoPass, NoOp

LEMMA ReportIs ==
    ASSUME NEW p \in Pass
    PROVE  /\ Report(p) \in Pass /\ Report(p).pc = "report" /\ ~Report(p).cleanup
           /\ \A v \in VMName : Report(p).ops[v] = NoOp
<1>1. p.b \in Binding \cup {None} /\ p.conflict \in SUBSET VMName
  BY DEF Pass
<1>. QED
  BY <1>1, EmptyTyped, NoPassIs DEF Report, Pass

-----------------------------------------------------------------------------
(* Owners *)

\* Objects and copies that are of those known before, or one unheard of.
From(K, L, f) ==
    /\ \A c \in L : ~Exists(c) \/ c = f \/ \E d \in K : d.uid = c.uid /\ d.by = c.by
    /\ \A d \in K : d.uid # f.uid

\* Those still have one owner for each UID.
LEMMA OwnersKept ==
    ASSUME NEW K, NEW L, NEW f, OneOwner(K), From(K, L, f)
    PROVE  OneOwner(L)
<1>. SUFFICES ASSUME NEW c \in L, NEW d \in L, Exists(c), c.uid = d.uid PROVE c.by = d.by
  BY DEF OneOwner
<1>1. Exists(d)
  BY DEF Exists
<1>2. CASE c = f \/ d = f
  BY <1>1, <1>2 DEF From
<1>3. CASE c # f /\ d # f
  <2>1. PICK c1 \in K : c1.uid = c.uid /\ c1.by = c.by
    BY <1>3 DEF From
  <2>2. PICK d1 \in K : d1.uid = d.uid /\ d1.by = d.by
    BY <1>1, <1>3 DEF From
  <2>. QED
    BY <2>1, <2>2 DEF Exists, OneOwner
<1>. QED
  BY <1>2, <1>3

\* As do those that are all of those known before.
LEMMA OwnersSame ==
    ASSUME NEW K, NEW L, OneOwner(K),
           \A c \in L : ~Exists(c) \/ \E d \in K : d.uid = c.uid /\ d.by = c.by
    PROVE  OneOwner(L)
<1>. SUFFICES ASSUME NEW c \in L, NEW d \in L, Exists(c), c.uid = d.uid PROVE c.by = d.by
  BY DEF OneOwner
<1>1. Exists(d)
  BY DEF Exists
<1>2. PICK c1 \in K : c1.uid = c.uid /\ c1.by = c.by
  OBVIOUS
<1>3. PICK d1 \in K : d1.uid = d.uid /\ d1.by = d.by
  BY <1>1
<1>. QED
  BY <1>2, <1>3 DEF Exists, OneOwner

\* Nothing about bindings changes while they do not.
LEMMA BindSame ==
    ASSUME bind' = bind
    PROVE  /\ BindingsOK' <=> BindingsOK
           /\ \A b \in Binding : (Entitled(b)' <=> Entitled(b)) /\ (Ending(b)' <=> Ending(b))
           /\ \A n \in BName : (Stripped(n)' <=> Stripped(n)) /\ Held(n)' = Held(n)
           /\ \A n \in BName : \A b : OnlyHeld(n, b)' <=> OnlyHeld(n, b)
BY DEF BindingsOK, Entitled, Ending, Stripped, Held, OnlyHeld

-----------------------------------------------------------------------------
(* Steps of a pass, by what they change *)

\* A child stays as it was, changes but not its UID, owner and VM, goes, or is
\* made by the pass of the name for its binding, with a UID unheard of.
ChildMoves(n, v) ==
    LET c == child[v]
        d == child'[v]
    IN  \/ d = c \/ d = NoChild
        \/ Exists(c) /\ d.uid = c.uid /\ d.by = c.by /\ d.vm = c.vm
        \/ /\ ~Exists(c) /\ Exists(d) /\ d.by = pass[n].b /\ d.vm # 0
           /\ \A k \in Known(v) : k.uid # d.uid
           /\ pass[n].pc = "ops" /\ ~pass[n].cleanup

\* A copy that is of something known.
Sourced(v, c) == ~Exists(c) \/ \E k \in Known(v) : k.uid = c.uid /\ k.by = c.by

\* A step of one pass keeps the invariant if what it leaves of the pass is sound.
LEMMA PassSteps ==
    ASSUME IInv, NEW n \in BName, NEW q \in Pass, pass' = [pass EXCEPT ![n] = q],
           UNCHANGED <<bind, bcache, ccache, vm, gone, sel, plan, edits>>,
           faults' \in 0 .. plan.faults, conflict' \in [Binding -> SUBSET VMName],
           child' \in [VMName -> Child], \A v \in VMName : ChildMoves(n, v),
           PassOK(n, q)',
           \A v \in VMName : OpOK(n, q, q.ops[v]) /\ Sourced(v, q.ops[v].copy)
    PROVE  IInv'
<1>1. /\ BindingsOK' /\ \A b \in Binding : (Entitled(b)' <=> Entitled(b)) /\ (Ending(b)' <=> Ending(b))
      /\ \A m \in BName : (Stripped(m)' <=> Stripped(m)) /\ Held(m)' = Held(m)
      /\ \A m \in BName : \A b : OnlyHeld(m, b)' <=> OnlyHeld(m, b)
  BY BindSame DEF IInv
<1>2. pass \in [BName -> Pass] /\ child \in [VMName -> Child]
  BY DEF IInv, TypeOK
<1>3. pass'[n] = q /\ \A m \in BName \ {n} : pass'[m] = pass[m]
  BY <1>2
<1>4. ASSUME NEW v \in VMName
      PROVE  /\ IF Exists(child'[v]) THEN child'[v].by # None /\ child'[v].vm # 0 ELSE child'[v] = NoChild
             /\ Exists(child'[v]) => Entitled(child'[v].by)
             /\ \A m \in BName \ {n} : (Exists(child[v]) => NameOf[child[v].by] # m) =>
                                       (Exists(child'[v]) => NameOf[child'[v].by] # m)
  <2>1. /\ IF Exists(child[v]) THEN child[v].by # None /\ child[v].vm # 0 ELSE child[v] = NoChild
        /\ Exists(child[v]) => Entitled(child[v].by)
    BY DEF IInv, TypeOK, ClaimsEntitled
  <2>2. PassOK(n, pass[n])
    BY DEF IInv
  <2>3. ~Exists(NoChild)
    BY EmptyTyped
  <2>. QED
    BY <2>1, <2>2, <2>3 DEF ChildMoves, Exists, PassOK
<1>5. TypeOK'
  BY <1>2, <1>4 DEF IInv, TypeOK
<1>6. ClaimsEntitled'
  <2>1. \A v \in VMName : Exists(child'[v]) => child'[v].by \in Binding
    BY <1>4 DEF Child
  <2>. QED
    BY <1>1, <1>4, <2>1 DEF ClaimsEntitled
<1>7. ASSUME NEW m \in BName PROVE CopyOK(m)' /\ PassOK(m, pass[m])'
  <2>1. CopyOK(m) /\ PassOK(m, pass[m]) /\ pass[m] \in Pass /\ bcache[m].b \in Binding \cup {None}
    BY <1>2 DEF IInv, TypeOK
  <2>2. CopyOK(m)'
    BY <1>1, <2>1 DEF CopyOK
  <2>3. CASE m = n
    BY <1>3, <2>2, <2>3 DEF PassOK
  <2>4. CASE m # n
    <3>1. pass[m].b \in Binding \cup {None}
      BY <2>1 DEF Pass
    <3>. QED
      BY <1>1, <1>3, <1>4, <2>1, <2>2, <2>4, <3>1 DEF PassOK
  <2>. QED
    BY <2>3, <2>4
<1>8. \A m \in BName, v \in VMName : OpOK(m, pass'[m], pass'[m].ops[v])
  BY <1>3 DEF IInv
<1>9. ASSUME NEW v \in VMName PROVE OneOwner(Known(v)')
  <2>1. OneOwner(Known(v))
    BY DEF IInv
  <2>2. Known(v)' = {child'[v], ccache[v]} \cup {pass'[m].ops[v].copy : m \in BName}
    BY DEF Known
  <2>3. child[v] \in Known(v) /\ ccache[v] \in Known(v)
        /\ \A m \in BName : pass[m].ops[v].copy \in Known(v)
    BY DEF Known
  <2>4. Sourced(v, ccache[v]) /\ \A m \in BName : Sourced(v, pass'[m].ops[v].copy)
    BY <1>3, <2>3 DEF Sourced
  <2>5. Sourced(v, child'[v]) \/ \A k \in Known(v) : k.uid # child'[v].uid
    BY <2>3, EmptyTyped DEF Sourced, ChildMoves
  <2>6. CASE \A k \in Known(v) : k.uid # child'[v].uid
    <3>1. From(Known(v), Known(v)', child'[v])
      BY <2>2, <2>4, <2>6 DEF Sourced, From
    <3>. QED
      BY <2>1, <3>1, OwnersKept
  <2>7. CASE Sourced(v, child'[v])
    <3>1. \A c \in Known(v)' : ~Exists(c) \/ \E d \in Known(v) : d.uid = c.uid /\ d.by = c.by
      BY <2>2, <2>4, <2>7 DEF Sourced
    <3>. QED
      BY <2>1, <3>1, OwnersSame
  <2>. QED
    BY <2>5, <2>6, <2>7
<1>. QED
  BY <1>1, <1>5, <1>6, <1>7, <1>8, <1>9 DEF IInv

\* A pass that has nothing left to do, but perhaps to report.
Over(q) ==
    /\ q.pc \in {"idle", "report"} /\ ~q.cleanup /\ (q.pc = "idle" => q = NoPass)
    /\ \A v \in VMName : q.ops[v] = NoOp

\* A pass comes to its end, or has made a call of those it means to make.
Follows(p, q) ==
    \/ Over(q)
    \/ /\ p.pc = "ops" /\ q.pc = "ops" /\ q.b = p.b /\ q.cleanup = p.cleanup
       /\ \A v \in VMName : q.ops[v] \in {p.ops[v], NoOp}

LEMMA DidIs ==
    ASSUME NEW p \in Pass, p.pc = "ops", NEW v \in VMName
    PROVE  Did(p, v) \in Pass /\ Follows(p, Did(p, v))
<1>. DEFINE q == [p EXCEPT !.ops[v] = NoOp]
<1>1. p.ops \in [VMName -> Op] /\ p.b \in Binding \cup {None}
  BY DEF Pass
<1>2. [p.ops EXCEPT ![v] = NoOp] \in [VMName -> Op]
      /\ \A w \in VMName : [p.ops EXCEPT ![v] = NoOp][w] \in {p.ops[w], NoOp}
  BY <1>1, EmptyTyped
<1>3. q = [p EXCEPT !.ops = [p.ops EXCEPT ![v] = NoOp]]
  BY DEF Pass
<1>4. /\ q \in Pass /\ q.pc = "ops" /\ q.b = p.b /\ q.cleanup = p.cleanup
      /\ q.ops = [p.ops EXCEPT ![v] = NoOp]
  BY <1>2, <1>3 DEF Pass
<1>. HIDE DEF q
<1>5. Did(p, v) \in {q, NoPass, Report(q)}
  BY DEF Did, q
<1>6. Report(q) \in Pass /\ Over(Report(q))
  BY <1>4, ReportIs DEF Over
<1>7. NoPass \in Pass /\ Over(NoPass)
  BY EmptyTyped, NoPassIs DEF Over
<1>. QED
  BY <1>2, <1>4, <1>5, <1>6, <1>7 DEF Follows

\* A step of a pass that goes on so keeps the invariant.
LEMMA PassFollows ==
    ASSUME IInv, NEW n \in BName, NEW q \in Pass, pass' = [pass EXCEPT ![n] = q],
           UNCHANGED <<bind, bcache, ccache, worldVars>>,
           faults' \in 0 .. plan.faults, conflict' \in [Binding -> SUBSET VMName],
           child' \in [VMName -> Child], \A v \in VMName : ChildMoves(n, v),
           Follows(pass[n], q)
    PROVE  IInv'
<1>1. PassOK(n, pass[n]) /\ \A v \in VMName : OpOK(n, pass[n], pass[n].ops[v])
  BY DEF IInv
<1>2. UNCHANGED <<bind, bcache, ccache, vm, gone, sel, plan, edits>>
  BY DEF worldVars
<1>3. \A v \in VMName : OpOK(n, q, NoOp) /\ Sourced(v, NoOp.copy)
  BY EmptyTyped, NoPassIs DEF OpOK, Sourced
<1>4. CASE Over(q)
  <2>1. PassOK(n, q)'
    BY <1>4, NoPassIs DEF PassOK, Over
  <2>. QED
    BY <1>2, <1>3, <1>4, <2>1, PassSteps DEF Over
<1>5. CASE /\ pass[n].pc = "ops" /\ q.pc = "ops" /\ q.b = pass[n].b /\ q.cleanup = pass[n].cleanup
           /\ \A v \in VMName : q.ops[v] \in {pass[n].ops[v], NoOp}
  <2>1. q.b # None /\ NameOf[q.b] = n /\ q.b \in Binding
    BY <1>1, <1>5 DEF PassOK, Pass
  <2>2. /\ (Entitled(q.b)' <=> Entitled(q.b)) /\ (Ending(q.b)' <=> Ending(q.b))
        /\ OnlyHeld(n, q.b)' <=> OnlyHeld(n, q.b)
    BY <1>2, <2>1, BindSame
  <2>3. PassOK(n, q)'
    BY <1>1, <1>2, <1>5, <2>1, <2>2 DEF PassOK
  <2>4. \A v \in VMName : OpOK(n, q, q.ops[v]) /\ Sourced(v, q.ops[v].copy)
    <3>1. \A v \in VMName : OpOK(n, q, pass[n].ops[v])
      BY <1>1, <1>5 DEF OpOK
    <3>2. \A v \in VMName : pass[n].ops[v].copy \in Known(v)
      BY DEF Known
    <3>. QED
      BY <1>3, <1>5, <3>1, <3>2 DEF Sourced
  <2>. QED
    BY <1>2, <2>3, <2>4, PassSteps
<1>. QED
  BY <1>4, <1>5 DEF Follows

\* Faults are counted, and no more than planned.
LEMMA FaultCounted == ASSUME IInv, UNCHANGED faults \/ Fault PROVE faults' \in 0 .. plan.faults
<1>1. faults \in 0 .. plan.faults /\ plan.faults \in Nat
  BY ClaimAssumption DEF IInv, TypeOK
<1>. QED
  BY <1>1 DEF Fault

-----------------------------------------------------------------------------
(* A pass decides *)

\* What is decided about one VM is about its child as copied, if it is the
\* binding's own.
LEMMA DecisionIs ==
    ASSUME IInv, NEW p \in Pass, p.b \in Binding, ~p.cleanup, NEW v \in VMName, NEW n
    PROVE  /\ Decision(p, v) \in Op /\ OpOK(n, p, Decision(p, v))
           /\ Decision(p, v).copy \in {NoChild, ccache[v]}
<1>. DEFINE c == ccache[v]
            uid == Listed(p.b, v)
            made == [NoOp EXCEPT !.kind = "create", !.vm = uid]
            changed == [NoOp EXCEPT !.kind = "update", !.copy = c]
            removed == [NoOp EXCEPT !.kind = "delete", !.copy = c]
<1>1. c \in Child /\ (Exists(c) => c.by # None /\ c.vm # 0) /\ uid \in Nat
  BY ClaimAssumption DEF IInv, TypeOK, Listed
<1>2. \/ Decision(p, v) = made /\ uid # 0
      \/ Decision(p, v) \in {changed, removed} /\ Exists(c) /\ c.by = p.b
      \/ Decision(p, v) = NoOp
  BY DEF Decision, claimHeldBy
<1>3. made \in Op /\ made.kind = "create" /\ made.copy = NoChild /\ made.vm = uid
  BY <1>1, EmptyTyped DEF NoOp, Op
<1>4. changed \in Op /\ changed.kind = "update" /\ changed.copy = c
  BY <1>1, EmptyTyped DEF NoOp, Op
<1>5. removed \in Op /\ removed.kind = "delete" /\ removed.copy = c
  BY <1>1, EmptyTyped DEF NoOp, Op
<1>. HIDE DEF made, changed, removed, uid
<1>. QED
  BY <1>1, <1>2, <1>3, <1>4, <1>5, EmptyTyped, NoPassIs DEF OpOK

Copy == [b : Binding \cup {None}, obj : BindObj]

\* A pass over the VMs is for the binding it was given.
LEMMA DecidedIs ==
    ASSUME IInv, NEW c \in Copy, c.b # None, NEW n
    PROVE  /\ Decided(c) \in Pass
           /\ \/ Over(Decided(c))
              \/ /\ Decided(c).pc = "ops" /\ Decided(c).b = c.b /\ ~Decided(c).cleanup
                 /\ \A v \in VMName : /\ OpOK(n, Decided(c), Decided(c).ops[v])
                                      /\ Decided(c).ops[v].copy \in {NoChild, ccache[v]}
<1>. DEFINE p == [NoPass EXCEPT !.b = c.b, !.gen = c.obj.gen, !.retain = c.obj.retain]
            o == [v \in VMName |-> Decision(p, v)]
            k == Conflicts(c.b)
            q == [p EXCEPT !.conflict = k, !.ops = o]
            r == [q EXCEPT !.pc = "ops"]
<1>1. c.b \in Binding /\ c.obj.gen \in Nat /\ c.obj.retain \in BOOLEAN
  BY DEF Copy, BindObj
<1>2. p \in Pass /\ p.b = c.b /\ ~p.cleanup
  BY <1>1, EmptyTyped, NoPassIs DEF Pass
<1>. HIDE DEF p
<1>3. /\ o \in [VMName -> Op]
      /\ \A v \in VMName : OpOK(n, p, o[v]) /\ o[v].copy \in {NoChild, ccache[v]}
  BY <1>1, <1>2, DecisionIs
<1>4. k \in SUBSET VMName
  BY DEF Conflicts
<1>. HIDE DEF o, k
<1>5. q \in Pass /\ q.b = c.b /\ ~q.cleanup /\ q.ops = o
  BY <1>2, <1>3, <1>4 DEF Pass
<1>6. Decided(c) \in {r, Report(q), NoPass}
  BY DEF Decided, r, q, o, k, p
<1>. HIDE DEF q
<1>7. r \in Pass /\ r.pc = "ops" /\ r.b = c.b /\ ~r.cleanup /\ r.ops = o
  BY <1>5 DEF Pass
<1>8. \A v \in VMName : OpOK(n, r, r.ops[v])
  BY <1>2, <1>3, <1>7 DEF OpOK
<1>9. Report(q) \in Pass /\ Over(Report(q)) /\ NoPass \in Pass /\ Over(NoPass)
  BY <1>5, ReportIs, EmptyTyped, NoPassIs DEF Over
<1>. HIDE DEF r
<1>. QED
  BY <1>3, <1>6, <1>7, <1>8, <1>9

\* A pass decides for a binding that may have children, and from the copies.
LEMMA PassDecides ==
    ASSUME IInv, NEW n \in BName, NEW c \in Copy, c.b # None, NameOf[c.b] = n, Entitled(c.b),
           pass' = [pass EXCEPT ![n] = Decided(c)],
           UNCHANGED <<bind, bcache, child, ccache, worldVars, conflict, faults>>
    PROVE  IInv'
<1>1. PICK q \in Pass :
        /\ q = Decided(c)
        /\ \/ Over(q)
           \/ /\ q.pc = "ops" /\ q.b = c.b /\ ~q.cleanup
              /\ \A v \in VMName : OpOK(n, q, q.ops[v]) /\ q.ops[v].copy \in {NoChild, ccache[v]}
  BY DecidedIs
<1>2. pass' = [pass EXCEPT ![n] = q]
  BY <1>1
<1>3. /\ faults' \in 0 .. plan.faults /\ conflict' \in [Binding -> SUBSET VMName]
      /\ child' \in [VMName -> Child] /\ \A v \in VMName : ChildMoves(n, v)
      /\ UNCHANGED <<bind, bcache, ccache, vm, gone, sel, plan, edits>>
  BY DEF IInv, TypeOK, ChildMoves, worldVars
<1>4. CASE Over(q)
  BY <1>1, <1>2, <1>3, <1>4, PassFollows DEF Follows
<1>5. CASE /\ q.pc = "ops" /\ q.b = c.b /\ ~q.cleanup
           /\ \A v \in VMName : OpOK(n, q, q.ops[v]) /\ q.ops[v].copy \in {NoChild, ccache[v]}
  <2>1. c.b \in Binding
    BY DEF Copy
  <2>2. Entitled(c.b)'
    BY <1>3, <2>1, BindSame
  <2>3. PassOK(n, q)'
    BY <1>5, <2>2 DEF PassOK
  <2>4. \A v \in VMName : Sourced(v, q.ops[v].copy)
    BY <1>5, EmptyTyped DEF Sourced, Known
  <2>. QED
    BY <1>1, <1>2, <1>3, <1>5, <2>3, <2>4, PassSteps
<1>. QED
  BY <1>1, <1>4, <1>5

LEMMA applyAnsibleBindingOK == ASSUME IInv, NEW n \in BName, applyAnsibleBinding(n) PROVE IInv'
<1>. DEFINE c == bcache[n]
<1>1. /\ c.b # None /\ ~c.obj.deleting /\ c.obj.fin
      /\ pass' = [pass EXCEPT ![n] = Decided(c)]
      /\ UNCHANGED <<bind, bcache, child, ccache, worldVars, conflict, faults>>
  BY DEF applyAnsibleBinding
<1>2. c \in Copy /\ CopyOK(n)
  BY DEF IInv, TypeOK, Copy
<1>3. NameOf[c.b] = n /\ Entitled(c.b)
  BY <1>1, <1>2 DEF CopyOK
<1>4. PICK d \in Copy : d = c
  BY <1>2
<1>. HIDE DEF c
<1>. QED
  BY <1>1, <1>3, <1>4, PassDecides

\* The API server's copy of what holds a name.
LEMMA SnapshotIs ==
    ASSUME IInv, NEW n \in BName
    PROVE  /\ Snapshot(n) \in Copy
           /\ Holder(n) = None => Snapshot(n) = NoCopy /\ Held(n) = {}
           /\ Holder(n) # None => /\ Holder(n) \in Held(n) /\ Snapshot(n).b = Holder(n)
                                  /\ Snapshot(n).obj = bind[Holder(n)]
<1>1. /\ Holder(n) \in Binding \cup {None}
      /\ Holder(n) # None => Holder(n) \in Held(n)
      /\ \A b \in Held(n) : Holder(n) = b
  BY HolderIs DEF IInv
<1>2. bind \in [Binding -> BindObj] /\ None \notin Binding /\ Held(n) \subseteq Binding
  BY ClaimAssumption DEF IInv, TypeOK, Held
<1>3. NoCopy \in Copy
  BY EmptyTyped DEF NoCopy, Copy
<1>4. CASE Holder(n) = None
  BY <1>1, <1>2, <1>3, <1>4 DEF Snapshot
<1>5. CASE Holder(n) # None
  <2>1. Snapshot(n) = [b |-> Holder(n), obj |-> bind[Holder(n)]]
    BY <1>5 DEF Snapshot
  <2>2. Holder(n) \in Binding
    BY <1>1, <1>2, <1>5
  <2>3. bind[Holder(n)] \in BindObj
    BY <1>2, <2>2
  <2>. QED
    BY <1>1, <1>5, <2>1, <2>2, <2>3 DEF Copy
<1>. QED
  BY <1>4, <1>5

\* The pass that put the finalizer on goes on from what the API server has: the
\* same binding, or one under a name where a finalizer was taken off by hand.
LEMMA ProvisionHeldOK == ASSUME IInv, NEW n \in BName, ProvisionHeld(n) PROVE IInv'
<1>1. /\ pass[n].pc = "hold" /\ UNCHANGED <<bind, bcache, child, ccache, worldVars, conflict, faults>>
      /\ pass' = [pass EXCEPT ![n] = IF Holder(n) = None THEN NoPass ELSE Decided(Snapshot(n))]
  BY DEF ProvisionHeld
<1>2. CASE Holder(n) = None
  <2>1. /\ faults' \in 0 .. plan.faults /\ conflict' \in [Binding -> SUBSET VMName]
        /\ child' \in [VMName -> Child] /\ \A v \in VMName : ChildMoves(n, v)
    BY <1>1 DEF IInv, TypeOK, ChildMoves
  <2>2. Follows(pass[n], NoPass) /\ NoPass \in Pass
    BY EmptyTyped, NoPassIs DEF Follows, Over
  <2>. QED
    BY <1>1, <1>2, <2>1, <2>2, PassFollows
<1>3. CASE Holder(n) # None
  <2>1. PICK c \in Copy : c = Snapshot(n) /\ c.b = Holder(n) /\ Holder(n) \in Held(n)
    BY <1>3, SnapshotIs
  <2>2. NameOf[c.b] = n /\ bind[c.b].phase = "live" /\ c.b \in Binding
    BY <2>1 DEF Held
  <2>3. PassOK(n, pass[n]) /\ \A b \in Held(n) : Holder(n) = b
    BY HolderIs DEF IInv
  <2>4. Entitled(c.b)
    BY <1>1, <2>1, <2>2, <2>3 DEF Entitled, PassOK
  <2>. QED
    BY <1>1, <1>3, <2>1, <2>2, <2>4, PassDecides
<1>. QED
  BY <1>2, <1>3

-----------------------------------------------------------------------------
(* A pass finalizes *)

\* It means to delete the children of its name.
LEMMA DeletesIs ==
    ASSUME IInv, NEW n \in BName, NEW ch \in {child, ccache}, NEW v \in VMName
    PROVE  \/ /\ Deletes(n, ch)[v] = NoOp
              /\ Exists(ch[v]) => NameOf[ch[v].by] # n
           \/ /\ Deletes(n, ch)[v] \in Op /\ Deletes(n, ch)[v] # NoOp
              /\ Deletes(n, ch)[v].kind = "delete" /\ Deletes(n, ch)[v].copy = ch[v]
              /\ Exists(ch[v]) /\ ch[v].by # None /\ ch[v].vm # 0 /\ NameOf[ch[v].by] = n
<1>1. ch[v] \in Child /\ (Exists(ch[v]) => ch[v].by # None /\ ch[v].vm # 0)
  BY DEF IInv, TypeOK
<1>. DEFINE d == [NoOp EXCEPT !.kind = "delete", !.copy = ch[v]]
<1>2. d \in Op /\ d.kind = "delete" /\ d.copy = ch[v] /\ d # NoOp
  BY <1>1, EmptyTyped, NoPassIs DEF Op, NoOp
<1>3. Deletes(n, ch)[v] = IF Exists(ch[v]) /\ ch[v].by # None /\ NameOf[ch[v].by] = n THEN d ELSE NoOp
  BY DEF Deletes
<1>. HIDE DEF d
<1>. QED
  BY <1>1, <1>2, <1>3

\* A cleanup that finds children deletes them; one that finds none goes on.
LEMMA PassCleans ==
    ASSUME IInv, NEW n \in BName, NEW p \in Pass, p.cleanup, p.b # None, NameOf[p.b] = n,
           Ending(p.b), OnlyHeld(n, p.b), bcache[n].b = p.b => bcache[n].obj.deleting,
           \A v \in VMName : OpOK(n, p, p.ops[v]) /\ Sourced(v, p.ops[v].copy),
           NEW ch \in {child, ccache}, NEW then \in {"confirm", "release"},
           then = "release" => ch = child,
           pass' = [pass EXCEPT ![n] = CleanupPass(p, Deletes(n, ch), then)],
           UNCHANGED <<bind, bcache, child, ccache, worldVars, conflict, faults>>
    PROVE  IInv'
<1>1. p.b \in Binding
  BY DEF Pass
<1>2. /\ faults' \in 0 .. plan.faults /\ conflict' \in [Binding -> SUBSET VMName]
      /\ child' \in [VMName -> Child] /\ \A v \in VMName : ChildMoves(n, v)
      /\ UNCHANGED <<bind, bcache, ccache, vm, gone, sel, plan, edits>>
  BY DEF IInv, TypeOK, ChildMoves, worldVars
<1>3. Ending(p.b)' /\ OnlyHeld(n, p.b)'
  BY <1>1, <1>2, BindSame
<1>. DEFINE ops == Deletes(n, ch)
<1>4. CASE \A v \in VMName : ops[v] = NoOp
  <2>. DEFINE r == [p EXCEPT !.pc = then]
  <2>0. r \in Pass /\ r.pc = then /\ r.b = p.b /\ r.cleanup = p.cleanup /\ r.ops = p.ops
    BY DEF Pass
  <2>. HIDE DEF r
  <2>1. PICK q \in Pass : /\ q = r /\ q.pc = then /\ q.b = p.b
                          /\ q.cleanup = p.cleanup /\ q.ops = p.ops
    BY <2>0
  <2>2. pass' = [pass EXCEPT ![n] = q]
    BY <1>4, <2>1 DEF CleanupPass, r
  <2>3. then = "release" => \A v \in VMName : Exists(child'[v]) => NameOf[child'[v].by] # n
    BY <1>4, DeletesIs
  <2>4. PassOK(n, q)'
    BY <1>2, <1>3, <2>1, <2>3 DEF PassOK
  <2>5. \A v \in VMName : OpOK(n, q, q.ops[v]) /\ Sourced(v, q.ops[v].copy)
    BY <2>1 DEF OpOK
  <2>. QED
    BY <1>2, <2>2, <2>4, <2>5, PassSteps
<1>5. CASE \E v \in VMName : ops[v] # NoOp
  <2>1. ops \in [VMName -> Op]
    <3>. DEFINE d(v) == [NoOp EXCEPT !.kind = "delete", !.copy = ch[v]]
    <3>1. \A v \in VMName : ch[v] \in Child
      BY DEF IInv, TypeOK
    <3>2. \A v \in VMName : d(v) \in Op
      BY <3>1, EmptyTyped DEF Op
    <3>3. ops = [v \in VMName |->
                   IF Exists(ch[v]) /\ ch[v].by # None /\ NameOf[ch[v].by] = n THEN d(v) ELSE NoOp]
      BY Zenon DEF Deletes
    <3>. HIDE DEF d
    <3>. QED
      BY <3>2, <3>3, EmptyTyped
  <2>. HIDE DEF ops
  <2>. DEFINE r == [p EXCEPT !.pc = "ops", !.ops = ops]
  <2>0. r \in Pass /\ r.pc = "ops" /\ r.b = p.b /\ r.cleanup = p.cleanup /\ r.ops = ops
    BY <2>1 DEF Pass
  <2>. HIDE DEF r
  <2>2. PICK q \in Pass : /\ q = r /\ q.pc = "ops" /\ q.b = p.b
                          /\ q.cleanup = p.cleanup /\ q.ops = ops
    BY <2>0
  <2>3. pass' = [pass EXCEPT ![n] = q]
    BY <1>5, <2>2 DEF CleanupPass, ops, r
  <2>4. PassOK(n, q)'
    BY <1>2, <1>3, <2>2 DEF PassOK
  <2>5. ASSUME NEW v \in VMName PROVE OpOK(n, q, q.ops[v]) /\ Sourced(v, q.ops[v].copy)
    <3>1. ch[v] \in Known(v)
      BY DEF Known
    <3>2. q.ops[v] = Deletes(n, ch)[v]
      BY <2>2 DEF ops
    <3>. QED
      BY <2>2, <3>1, <3>2, DeletesIs, NoPassIs, EmptyTyped DEF OpOK, Sourced
  <2>. QED
    BY <1>2, <2>3, <2>4, <2>5, PassSteps
<1>. QED
  BY <1>4, <1>5

LEMMA cleanupAnsibleBindingOK == ASSUME IInv, NEW n \in BName, cleanupAnsibleBinding(n) PROVE IInv'
<1>. DEFINE c == bcache[n]
<1>1. c \in Copy /\ CopyOK(n) /\ c.b # None /\ c.obj.deleting
  BY DEF IInv, TypeOK, Copy, cleanupAnsibleBinding
<1>2. NameOf[c.b] = n /\ Ending(c.b) /\ OnlyHeld(n, c.b)
  BY <1>1 DEF CopyOK
<1>3. c.b \in Binding /\ c.obj.retain \in BOOLEAN
  BY <1>1 DEF Copy, BindObj
<1>. DEFINE r == [NoPass EXCEPT !.b = c.b, !.cleanup = TRUE, !.retain = c.obj.retain]
<1>0. r \in Pass /\ r.b = c.b /\ r.cleanup /\ r.ops = NoPass.ops
  BY <1>3, EmptyTyped DEF Pass
<1>. HIDE DEF r
<1>4. PICK p \in Pass : p = r /\ p.b = c.b /\ p.cleanup /\ p.ops = NoPass.ops
  BY <1>0
<1>5. \A v \in VMName : OpOK(n, p, p.ops[v]) /\ Sourced(v, p.ops[v].copy)
  BY <1>4, EmptyTyped, NoPassIs DEF OpOK, Sourced
<1>6. /\ pass' = [pass EXCEPT ![n] = CleanupPass(p, Deletes(n, ccache), "confirm")]
      /\ UNCHANGED <<bind, bcache, child, ccache, worldVars, conflict, faults>>
  BY <1>4 DEF cleanupAnsibleBinding, AfterEmptyCache, r
<1>. QED
  BY <1>1, <1>2, <1>4, <1>5, <1>6, PassCleans

LEMMA ConfirmChildrenGoneOK == ASSUME IInv, NEW n \in BName, ConfirmChildrenGone(n) PROVE IInv'
<1>1. PICK p \in Pass : p = pass[n]
  BY DEF IInv, TypeOK
<1>2. /\ p.pc = "confirm" /\ pass' = [pass EXCEPT ![n] = CleanupPass(p, Deletes(n, child), "release")]
      /\ UNCHANGED <<bind, bcache, child, ccache, worldVars, conflict, faults>>
  BY <1>1 DEF ConfirmChildrenGone, IInv, TypeOK
<1>3. PassOK(n, p) /\ \A v \in VMName : OpOK(n, p, p.ops[v])
  BY <1>1 DEF IInv
<1>4. \A v \in VMName : Sourced(v, p.ops[v].copy)
  BY <1>1 DEF Sourced, Known
<1>5. p.cleanup /\ p.b # None /\ NameOf[p.b] = n /\ Ending(p.b) /\ OnlyHeld(n, p.b)
      /\ (bcache[n].b = p.b => bcache[n].obj.deleting)
  BY <1>2, <1>3 DEF PassOK
<1>. QED
  BY <1>2, <1>3, <1>4, <1>5, PassCleans

-----------------------------------------------------------------------------
(* A pass acts *)

\* A step that changes no child.
LEMMA PassOnly ==
    ASSUME IInv, NEW n \in BName, NEW q \in Pass, pass' = [pass EXCEPT ![n] = q],
           UNCHANGED <<bind, bcache, child, ccache, worldVars>>, UNCHANGED faults \/ Fault,
           conflict' \in [Binding -> SUBSET VMName], Follows(pass[n], q)
    PROVE  IInv'
<1>1. faults' \in 0 .. plan.faults
  BY FaultCounted
<1>2. child' \in [VMName -> Child] /\ \A v \in VMName : ChildMoves(n, v)
  BY DEF IInv, TypeOK, ChildMoves
<1>. QED
  BY <1>1, <1>2, PassFollows

\* A step that changes one child.
LEMMA PassAndChild ==
    ASSUME IInv, NEW n \in BName, NEW q \in Pass, pass' = [pass EXCEPT ![n] = q],
           UNCHANGED <<bind, bcache, ccache, worldVars, conflict, faults>>, Follows(pass[n], q),
           NEW v \in VMName, NEW d \in Child, child' = [child EXCEPT ![v] = d], ChildMoves(n, v)
    PROVE  IInv'
<1>1. faults' \in 0 .. plan.faults /\ conflict' \in [Binding -> SUBSET VMName]
      /\ child \in [VMName -> Child]
  BY DEF IInv, TypeOK
<1>2. child' \in [VMName -> Child] /\ \A w \in VMName \ {v} : child'[w] = child[w]
  BY <1>1
<1>3. \A w \in VMName : ChildMoves(n, w)
  BY <1>2 DEF ChildMoves
<1>. QED
  BY <1>1, <1>2, <1>3, PassFollows

\* The one that creates first has the name.
LEMMA createBindingChildOK ==
    ASSUME IInv, NEW n \in BName, NEW v \in VMName, createBindingChild(n, v)
    PROVE  IInv'
<1>1. PICK p \in Pass : p = pass[n]
  BY DEF IInv, TypeOK
<1>0. Issuing(n, v, "create") /\ UNCHANGED <<bind, bcache, ccache, worldVars, conflict, faults>>
  BY Zenon DEF createBindingChild
<1>2. /\ p.pc = "ops" /\ p.ops[v].kind = "create"
      /\ UNCHANGED <<bind, bcache, ccache, worldVars, conflict, faults>>
  BY <1>0, <1>1 DEF Issuing
<1>3. child \in [VMName -> Child] /\ PassOK(n, p) /\ OpOK(n, p, p.ops[v])
      /\ conflict \in [Binding -> SUBSET VMName]
  BY <1>1 DEF IInv, TypeOK
<1>4. CASE Exists(child[v])
  <2>. DEFINE k == IF claimHeldBy(child[v], p.b) THEN p.conflict ELSE p.conflict \cup {v}
              r == [p EXCEPT !.conflict = k]
  <2>1. k \in SUBSET VMName
    BY DEF Pass
  <2>2. pass' = [pass EXCEPT ![n] = Did(r, v)] /\ UNCHANGED child
    BY <1>1, <1>4 DEF createBindingChild
  <2>. HIDE DEF k
  <2>3. r \in Pass /\ r.pc = "ops" /\ r.b = p.b /\ r.cleanup = p.cleanup /\ r.ops = p.ops
    BY <1>2, <2>1 DEF Pass
  <2>. HIDE DEF r
  <2>4. Did(r, v) \in Pass /\ Follows(r, Did(r, v))
    BY <2>3, DidIs
  <2>5. Follows(pass[n], Did(r, v))
    BY <1>1, <1>2, <2>3, <2>4 DEF Follows
  <2>. QED
    BY <1>2, <1>3, <2>2, <2>4, <2>5, PassOnly
<1>5. CASE ~Exists(child[v])
  <2>1. PICK uid \in 1 .. MaxUID :
              /\ FreshUID(uid)
              /\ child' = [child EXCEPT ![v] = [NoChild EXCEPT !.uid = uid,
                             !.by = childSpecFor(p).by, !.vm = p.ops[v].vm,
                             !.gen = p.gen, !.retain = p.retain]]
    BY <1>1, <1>5, Zenon DEF createBindingChild
  <2>2. pass' = [pass EXCEPT ![n] = Did(p, v)]
    BY <1>1, <1>5, Zenon DEF createBindingChild
  <2>. DEFINE d == [NoChild EXCEPT !.uid = uid, !.by = childSpecFor(p).by, !.vm = p.ops[v].vm,
                                   !.gen = p.gen, !.retain = p.retain]
  <2>3. uid \in Nat /\ uid # 0 /\ childSpecFor(p).by = p.b
    BY ClaimAssumption DEF childSpecFor
  <2>4. /\ p.b \in Binding \cup {None} /\ p.ops[v].vm \in Nat /\ p.gen \in Nat
        /\ p.retain \in BOOLEAN
    BY DEF Pass, Op
  <2>5. d \in Child /\ d.uid = uid /\ d.by = p.b /\ d.vm = p.ops[v].vm
    BY <2>3, <2>4, EmptyTyped DEF Child
  <2>6. ~p.cleanup /\ p.ops[v].vm # 0
    BY <1>2, <1>3 DEF OpOK
  <2>7. \A k \in Known(v) : k.uid # uid
    BY <2>1 DEF Known, FreshUID, KnownUID
  <2>8. child' = [child EXCEPT ![v] = d]
    BY <2>1
  <2>. HIDE DEF d
  <2>9. child'[v] = d
    BY <1>3, <2>8
  <2>10. ChildMoves(n, v)
    BY <1>1, <1>2, <1>5, <2>3, <2>5, <2>6, <2>7, <2>9 DEF ChildMoves, Exists
  <2>11. Did(p, v) \in Pass /\ Follows(p, Did(p, v))
    BY <1>2, DidIs
  <2>. QED
    BY <1>1, <1>2, <2>2, <2>5, <2>8, <2>10, <2>11, PassAndChild
<1>. QED
  BY <1>4, <1>5

LEMMA updateBindingChildSpecOK ==
    ASSUME IInv, NEW n \in BName, NEW v \in VMName, updateBindingChildSpec(n, v)
    PROVE  IInv'
<1>1. PICK p \in Pass : p = pass[n]
  BY DEF IInv, TypeOK
<1>2. /\ p.pc = "ops" /\ p.ops[v].kind = "update" /\ child[v] = p.ops[v].copy
      /\ UNCHANGED <<bind, bcache, ccache, worldVars, conflict, faults>>
      /\ pass' = [pass EXCEPT ![n] = Did(p, v)]
      /\ child' = [child EXCEPT ![v].gen = p.gen, ![v].retain = p.retain]
  BY <1>1 DEF updateBindingChildSpec, Issuing, PatchApplies, childSpecFor
<1>3. child \in [VMName -> Child] /\ child[v] \in Child /\ OpOK(n, p, p.ops[v])
  BY <1>1 DEF IInv, TypeOK
<1>. DEFINE d == [child[v] EXCEPT !.gen = p.gen, !.retain = p.retain]
<1>4. p.gen \in Nat /\ p.retain \in BOOLEAN
  BY DEF Pass
<1>5. d \in Child /\ d.uid = child[v].uid /\ d.by = child[v].by /\ d.vm = child[v].vm
  BY <1>3, <1>4 DEF Child
<1>6. child' = [child EXCEPT ![v] = d]
  BY <1>2, <1>3
<1>. HIDE DEF d
<1>7. child'[v] = d
  BY <1>3, <1>6
<1>8. Exists(child[v])
  BY <1>2, <1>3 DEF OpOK
<1>9. ChildMoves(n, v)
  BY <1>5, <1>7, <1>8 DEF ChildMoves
<1>10. Did(p, v) \in Pass /\ Follows(p, Did(p, v))
  BY <1>2, DidIs
<1>. QED
  BY <1>1, <1>2, <1>5, <1>6, <1>9, <1>10, PassAndChild

\* A deletion ends a child or only asks it to.
LEMMA DeletedIs ==
    ASSUME NEW c \in Child
    PROVE  /\ Deleted(c) \in Child
           /\ Deleted(c) = NoChild \/ (Deleted(c).uid = c.uid /\ Deleted(c).by = c.by
                                       /\ Deleted(c).vm = c.vm)
<1>1. CASE c.fin
  BY <1>1 DEF Deleted, Child
<1>2. CASE ~c.fin
  BY <1>2, EmptyTyped DEF Deleted
<1>. QED
  BY <1>1, <1>2

\* The policy goes down first and leaves the call to be made with what it wrote.
LEMMA deleteBindingChildOK ==
    ASSUME IInv, NEW n \in BName, NEW v \in VMName, deleteBindingChild(n, v)
    PROVE  IInv'
<1>1. PICK p \in Pass : p = pass[n]
  BY DEF IInv, TypeOK
<1>. DEFINE copy == p.ops[v].copy
            told == [child[v] EXCEPT !.retain = p.retain]
            gone1 == IF child[v].deleting THEN child[v] ELSE Deleted(child[v])
<1>2. /\ p.pc = "ops" /\ p.ops[v].kind = "delete"
      /\ UNCHANGED <<bind, bcache, ccache, worldVars, conflict, faults>>
  BY <1>1 DEF deleteBindingChild, Issuing
<1>3. child \in [VMName -> Child] /\ child[v] \in Child /\ OpOK(n, p, p.ops[v]) /\ PassOK(n, p)
      /\ conflict \in [Binding -> SUBSET VMName] /\ pass \in [BName -> Pass]
  BY <1>1 DEF IInv, TypeOK
<1>4. Did(p, v) \in Pass /\ Follows(p, Did(p, v))
  BY <1>2, DidIs
<1>5. \/ pass' = [pass EXCEPT ![n] = Did(p, v)] /\ UNCHANGED child
      \/ /\ Exists(child[v]) /\ child[v] = copy /\ child' = [child EXCEPT ![v] = told]
         /\ pass' = [pass EXCEPT ![n].ops[v].copy = told]
      \/ /\ Exists(child[v]) /\ child' = [child EXCEPT ![v] = gone1]
         /\ pass' = [pass EXCEPT ![n] = Did(p, v)]
  BY <1>1, <1>3 DEF deleteBindingChild, PatchApplies, DeleteApplies
<1>6. CASE pass' = [pass EXCEPT ![n] = Did(p, v)] /\ UNCHANGED child
  BY <1>1, <1>2, <1>3, <1>4, <1>6, PassOnly
<1>7. CASE /\ Exists(child[v]) /\ child' = [child EXCEPT ![v] = gone1]
           /\ pass' = [pass EXCEPT ![n] = Did(p, v)]
  <2>1. gone1 \in Child /\ (gone1 = NoChild \/ (gone1.uid = child[v].uid /\ gone1.by = child[v].by
                                               /\ gone1.vm = child[v].vm))
    BY <1>3, DeletedIs
  <2>. HIDE DEF gone1
  <2>2. child'[v] = gone1
    BY <1>3, <1>7
  <2>3. ChildMoves(n, v)
    BY <1>7, <2>1, <2>2 DEF ChildMoves
  <2>. QED
    BY <1>1, <1>2, <1>4, <1>7, <2>1, <2>3, PassAndChild
<1>8. CASE /\ Exists(child[v]) /\ child[v] = copy /\ child' = [child EXCEPT ![v] = told]
           /\ pass' = [pass EXCEPT ![n].ops[v].copy = told]
  <2>1. told \in Child /\ told.uid = child[v].uid /\ told.by = child[v].by /\ told.vm = child[v].vm
    BY <1>3 DEF Child, Pass
  <2>. HIDE DEF told
  <2>2. p.ops \in [VMName -> Op] /\ p.ops[v] \in Op /\ p.b \in Binding \cup {None}
    BY DEF Pass
  <2>. DEFINE o == [p.ops[v] EXCEPT !.copy = told]
              r == [p EXCEPT !.ops = [p.ops EXCEPT ![v] = o]]
  <2>3. o \in Op /\ o.kind = "delete" /\ o.copy = told
    BY <1>2, <2>1, <2>2 DEF Op
  <2>4. pass' = [pass EXCEPT ![n] = r]
    BY <1>1, <1>3, <1>8, <2>2
  <2>. HIDE DEF o
  <2>5. r \in Pass /\ r.pc = "ops" /\ r.b = p.b /\ r.cleanup = p.cleanup
        /\ r.ops = [p.ops EXCEPT ![v] = o]
    BY <1>2, <2>2, <2>3 DEF Pass
  <2>6. r.ops[v] = o /\ \A w \in VMName \ {v} : r.ops[w] = p.ops[w]
    BY <2>2, <2>5
  <2>. HIDE DEF r
  <2>7. PICK q \in Pass : q = r
    BY <2>5
  <2>8. PassOK(n, q)'
    <3>1. q.b # None /\ NameOf[q.b] = n /\ q.b \in Binding
      BY <1>2, <1>3, <2>2, <2>5, <2>7 DEF PassOK
    <3>2. /\ (Entitled(q.b)' <=> Entitled(q.b)) /\ (Ending(q.b)' <=> Ending(q.b))
          /\ OnlyHeld(n, q.b)' <=> OnlyHeld(n, q.b)
      BY <1>2, <3>1, BindSame
    <3>. QED
      BY <1>2, <1>3, <2>5, <2>7, <3>1, <3>2 DEF PassOK
  <2>9. ASSUME NEW w \in VMName PROVE OpOK(n, q, q.ops[w]) /\ Sourced(w, q.ops[w].copy)
    <3>1. CASE w = v
      <4>1. child[v] \in Known(v)
        BY DEF Known
      <4>2. OpOK(n, q, o)
        BY <1>2, <1>3, <1>8, <2>1, <2>3, <2>5, <2>7 DEF OpOK, Exists
      <4>. QED
        BY <2>1, <2>3, <2>6, <2>7, <3>1, <4>1, <4>2 DEF Sourced
    <3>2. CASE w # v
      <4>1. q.ops[w] = p.ops[w] /\ OpOK(n, p, p.ops[w]) /\ p.ops[w].copy \in Known(w)
        BY <1>1, <2>6, <2>7, <3>2 DEF IInv, Known
      <4>. QED
        BY <2>5, <2>7, <4>1 DEF OpOK, Sourced
    <3>. QED
      BY <3>1, <3>2
  <2>10. child'[v] = told /\ child' \in [VMName -> Child]
    BY <1>3, <1>8, <2>1
  <2>11. \A w \in VMName : ChildMoves(n, w)
    BY <1>3, <1>8, <2>1, <2>10 DEF ChildMoves
  <2>12. /\ faults' \in 0 .. plan.faults /\ conflict' \in [Binding -> SUBSET VMName]
         /\ UNCHANGED <<bind, bcache, ccache, vm, gone, sel, plan, edits>>
    BY <1>2 DEF IInv, TypeOK, worldVars
  <2>. QED
    BY <2>4, <2>7, <2>8, <2>9, <2>10, <2>11, <2>12, PassSteps
<1>. QED
  BY <1>5, <1>6, <1>7, <1>8

LEMMA RefusedOK == ASSUME IInv, NEW n \in BName, NEW v \in VMName, Refused(n, v) PROVE IInv'
<1>1. PICK p \in Pass : p = pass[n]
  BY DEF IInv, TypeOK
<1>2. /\ p.pc = "ops" /\ UNCHANGED <<bind, bcache, child, ccache, worldVars, conflict>>
      /\ UNCHANGED faults \/ Fault
      /\ pass' = [pass EXCEPT ![n] = IF p.cleanup THEN NoPass ELSE Did(p, v)]
  BY <1>1 DEF Refused
<1>3. Did(p, v) \in Pass /\ Follows(p, Did(p, v))
  BY <1>2, DidIs
<1>4. NoPass \in Pass /\ Follows(p, NoPass)
  BY EmptyTyped, NoPassIs DEF Follows, Over
<1>5. conflict' \in [Binding -> SUBSET VMName]
  BY <1>2 DEF IInv, TypeOK
<1>. QED
  BY <1>1, <1>2, <1>3, <1>4, <1>5, PassOnly

LEMMA writeAnsibleBindingDetailsOK ==
    ASSUME IInv, NEW n \in BName, writeAnsibleBindingDetails(n)
    PROVE  IInv'
<1>1. /\ UNCHANGED <<bind, bcache, child, ccache, worldVars, faults>>
      /\ pass' = [pass EXCEPT ![n] = NoPass]
      /\ conflict' = IF Holder(n) = None THEN conflict
                     ELSE [conflict EXCEPT ![Holder(n)] = pass[n].conflict]
  BY DEF writeAnsibleBindingDetails
<1>2. NoPass \in Pass /\ Follows(pass[n], NoPass)
  BY EmptyTyped, NoPassIs DEF Follows, Over
<1>3. conflict \in [Binding -> SUBSET VMName] /\ pass[n].conflict \in SUBSET VMName
  BY DEF IInv, TypeOK, Pass
<1>4. conflict' \in [Binding -> SUBSET VMName]
  BY <1>1, <1>3
<1>. QED
  BY <1>1, <1>2, <1>4, PassOnly

LEMMA CallFailsOK == ASSUME IInv, NEW n \in BName, CallFails(n) PROVE IInv'
<1>1. /\ UNCHANGED <<bind, bcache, child, ccache, worldVars, conflict>> /\ Fault
      /\ pass' = [pass EXCEPT ![n] = NoPass]
  BY DEF CallFails
<1>2. NoPass \in Pass /\ Follows(pass[n], NoPass)
  BY EmptyTyped, NoPassIs DEF Follows, Over
<1>3. conflict' \in [Binding -> SUBSET VMName]
  BY <1>1 DEF IInv, TypeOK
<1>. QED
  BY <1>1, <1>2, <1>3, PassOnly

-----------------------------------------------------------------------------
(* Bindings change *)

\* The bindings of a name change so that what copies and passes know of them
\* stays so.
Mild(m) ==
    /\ \A b \in Binding : NameOf[b] = m => (Entitled(b) => Entitled(b)') /\ (Ending(b) => Ending(b)')
    /\ Stripped(m) => Stripped(m)'
    /\ (\E b \in Held(m) : bind[b].fin) => Stripped(m)' \/ \E b \in Held(m)' : bind'[b].fin
    /\ \A b \in Held(m)' : bind'[b].fin => b \in Held(m) /\ bind[b].fin

LEMMA MildKeeps ==
    ASSUME IInv, NEW m \in BName, Mild(m), UNCHANGED <<bcache, child>>,
           NEW p \in Pass, PassOK(m, p)
    PROVE  CopyOK(m)' /\ PassOK(m, p)'
<1>1. ASSUME NEW b, OnlyHeld(m, b) PROVE OnlyHeld(m, b)'
  BY <1>1 DEF Mild, OnlyHeld
<1>2. CopyOK(m) /\ bcache[m].b \in Binding \cup {None} /\ p.b \in Binding \cup {None}
  BY DEF IInv, TypeOK, Pass
<1>3. CopyOK(m)'
  BY <1>1, <1>2 DEF CopyOK, Mild
<1>4. PassOK(m, p)'
  BY <1>1, <1>2 DEF PassOK, Mild
<1>. QED
  BY <1>3, <1>4

\* A change of bindings, and with it at most of one pass that has no call to make.
LEMMA BindStep ==
    ASSUME IInv, bind' \in [Binding -> BindObj], BindingsOK', ClaimsEntitled',
           UNCHANGED <<bcache, child, ccache, vm, gone, sel, plan, conflict, faults>>,
           DOMAIN edits' = DOMAIN plan.edits,
           \A k \in DOMAIN edits' : edits'[k] \in 0 .. plan.edits[k],
           pass' \in [BName -> Pass], \A m \in BName : CopyOK(m)' /\ PassOK(m, pass[m])',
           \A m \in BName : pass'[m] = pass[m] \/ \A v \in VMName : pass'[m].ops[v] = NoOp
    PROVE  IInv'
<1>1. TypeOK'
  BY DEF IInv, TypeOK
<1>2. \A m \in BName, v \in VMName : OpOK(m, pass'[m], pass'[m].ops[v])
  <2>1. \A m \in BName : OpOK(m, pass'[m], NoOp)
    BY NoPassIs DEF OpOK
  <2>. QED
    BY <2>1 DEF IInv
<1>3. ASSUME NEW v \in VMName PROVE OneOwner(Known(v)')
  <2>1. \A c \in Known(v)' : ~Exists(c) \/ c \in Known(v)
    BY NoPassIs, EmptyTyped DEF Known
  <2>2. OneOwner(Known(v))
    BY DEF IInv
  <2>. QED
    BY <2>1, <2>2, OwnersSame
<1>. QED
  BY <1>1, <1>2, <1>3 DEF IInv

\* The bindings of other names are as they were.
LEMMA OthersMild ==
    ASSUME IInv, NEW b \in Binding, NEW o \in BindObj, bind' = [bind EXCEPT ![b] = o],
           NEW m \in BName, m # NameOf[b]
    PROVE  Mild(m)
<1>1. \A a \in Binding : NameOf[a] = m => bind'[a] = bind[a]
  BY DEF IInv, TypeOK
<1>2. Held(m)' = Held(m) /\ (Stripped(m)' <=> Stripped(m))
  BY <1>1 DEF Held, Stripped
<1>3. \A a \in Binding : NameOf[a] = m => (Entitled(a)' <=> Entitled(a)) /\ (Ending(a)' <=> Ending(a))
  BY <1>1, <1>2 DEF Entitled, Ending
<1>. QED
  BY <1>1, <1>2, <1>3 DEF Mild, Held

\* One binding changes, and its name's copies and passes know no more than they
\* may.
LEMMA OneBindingMoves ==
    ASSUME IInv, NEW b \in Binding, NEW o \in BindObj, bind' = [bind EXCEPT ![b] = o],
           BindingsOK', Mild(NameOf[b]),
           UNCHANGED <<bcache, child, ccache, vm, gone, sel, plan, pass, conflict, faults>>,
           DOMAIN edits' = DOMAIN plan.edits,
           \A k \in DOMAIN edits' : edits'[k] \in 0 .. plan.edits[k]
    PROVE  IInv'
<1>1. bind' \in [Binding -> BindObj] /\ pass' \in [BName -> Pass]
  BY DEF IInv, TypeOK
<1>2. \A m \in BName : Mild(m)
  BY OthersMild
<1>3. \A m \in BName : CopyOK(m)' /\ PassOK(m, pass[m])'
  <2>. SUFFICES ASSUME NEW m \in BName PROVE CopyOK(m)' /\ PassOK(m, pass[m])'
    OBVIOUS
  <2>1. PICK p \in Pass : p = pass[m] /\ PassOK(m, p)
    BY DEF IInv, TypeOK
  <2>2. CopyOK(m)' /\ PassOK(m, p)'
    BY <1>2, <2>1, MildKeeps
  <2>. QED
    BY <2>1, <2>2 DEF PassOK
<1>4. ClaimsEntitled'
  <2>1. \A v \in VMName : Exists(child[v]) => child[v].by \in Binding /\ NameOf[child[v].by] \in BName
    BY ClaimAssumption DEF IInv, TypeOK, Child
  <2>. QED
    BY <1>2, <2>1 DEF IInv, ClaimsEntitled, Mild
<1>. QED
  BY <1>1, <1>3, <1>4, BindStep

\* Edits are counted, and no more of a kind than planned.
LEMMA EditCounted ==
    ASSUME IInv, NEW kind, MayEdit(kind)
    PROVE  DOMAIN edits' = DOMAIN plan.edits /\ \A k \in DOMAIN edits' : edits'[k] \in 0 .. plan.edits[k]
<1>1. /\ DOMAIN edits = DOMAIN plan.edits /\ \A k \in DOMAIN edits : edits[k] \in 0 .. plan.edits[k]
      /\ \A k \in DOMAIN plan.edits : plan.edits[k] \in Nat
  BY ClaimAssumption DEF IInv, TypeOK
<1>2. kind \in DOMAIN plan.edits /\ edits[kind] < plan.edits[kind]
      /\ edits' = [edits EXCEPT ![kind] = @ + 1]
  BY DEF MayEdit
<1>3. edits[kind] + 1 \in 0 .. plan.edits[kind]
  BY <1>1, <1>2
<1>. QED
  BY <1>1, <1>2, <1>3

\* A name is taken once at a time, and a new binding has no finalizer yet.
LEMMA CreateBindingOK == ASSUME IInv, NEW b \in Binding, CreateBinding(b) PROVE IInv'
<1>. DEFINE o == [NoBind EXCEPT !.phase = "live", !.gen = 1]
            n == NameOf[b]
<1>1. /\ bind[b].phase = "none" /\ Holder(n) = None /\ bind' = [bind EXCEPT ![b] = o]
      /\ UNCHANGED <<bcache, child, ccache, worldVars, pass, conflict, faults>>
  BY DEF CreateBinding
<1>2. o \in BindObj /\ o.phase = "live" /\ ~o.fin /\ ~o.deleting
  BY EmptyTyped DEF NoBind, BindObj
<1>. HIDE DEF o
<1>3. bind \in [Binding -> BindObj] /\ BindingsOK /\ n \in BName
  BY ClaimAssumption DEF IInv, TypeOK
<1>4. bind'[b] = o /\ \A a \in Binding \ {b} : bind'[a] = bind[a]
  BY <1>1, <1>3
<1>5. Held(n) = {}
  BY <1>1, <1>3, HolderIs, SnapshotIs
<1>6. BindingsOK'
  BY <1>2, <1>3, <1>4, <1>5 DEF BindingsOK, Held
<1>7. Stripped(n)' <=> Stripped(n)
  BY <1>1, <1>2, <1>4 DEF Stripped
<1>8. Mild(n)
  BY <1>1, <1>2, <1>3, <1>4, <1>5, <1>7 DEF Mild, Held, Entitled, Ending, BindingsOK
<1>9. /\ DOMAIN edits' = DOMAIN plan.edits /\ \A k \in DOMAIN edits' : edits'[k] \in 0 .. plan.edits[k]
      /\ UNCHANGED <<bcache, child, ccache, vm, gone, sel, plan, pass, conflict, faults>>
  BY <1>1 DEF worldVars, IInv, TypeOK
<1>. QED
  BY <1>1, <1>2, <1>6, <1>8, <1>9, OneBindingMoves

\* A binding with its finalizer waits; one without is gone, and has no child
\* unless a finalizer was taken off by hand under its name.
LEMMA DeleteBindingOK == ASSUME IInv, NEW b \in Binding, DeleteBinding(b) PROVE IInv'
<1>. DEFINE n == NameOf[b]
            end == IF Stripped(n) THEN "unheld" ELSE "gone"
            o == IF bind[b].fin THEN [bind[b] EXCEPT !.deleting = TRUE]
                 ELSE [NoBind EXCEPT !.phase = end]
<1>1. /\ bind[b].phase = "live" /\ ~bind[b].deleting
      /\ UNCHANGED <<bcache, child, ccache, vm, gone, sel, plan, pass, conflict, faults>>
      /\ MayEdit("delete")
  BY DEF DeleteBinding
<1>2. bind \in [Binding -> BindObj] /\ bind[b] \in BindObj /\ BindingsOK /\ n \in BName
  BY ClaimAssumption DEF IInv, TypeOK
<1>3. bind' = [bind EXCEPT ![b] = o]
  BY <1>2 DEF DeleteBinding
<1>4. /\ o \in BindObj
      /\ bind[b].fin => o.phase = "live" /\ o.fin /\ o.deleting
      /\ ~bind[b].fin => o.phase = end /\ ~o.fin /\ ~o.deleting
  BY <1>1, <1>2, EmptyTyped DEF NoBind, BindObj
<1>. HIDE DEF o
<1>5. bind'[b] = o /\ \A a \in Binding \ {b} : bind'[a] = bind[a]
  BY <1>2, <1>3
<1>6. BindingsOK'
  BY <1>1, <1>2, <1>4, <1>5 DEF BindingsOK
<1>7. Stripped(n)' <=> Stripped(n)
  BY <1>1, <1>4, <1>5 DEF Stripped
<1>8. Mild(n)
  BY <1>1, <1>4, <1>5, <1>7 DEF Mild, Held, Entitled, Ending
<1>. QED
  BY <1>1, <1>3, <1>4, <1>6, <1>8, EditCounted, OneBindingMoves

LEMMA EditBindingOK == ASSUME IInv, NEW b \in Binding, EditBinding(b) PROVE IInv'
<1>. DEFINE n == NameOf[b]
<1>1. /\ bind[b].phase = "live" /\ \E kind \in {"spec", "policy"} : MayEdit(kind)
      /\ UNCHANGED <<bcache, child, ccache, vm, gone, sel, plan, pass, conflict, faults>>
      /\ \/ bind' = [bind EXCEPT ![b].gen = @ + 1]
         \/ bind' = [bind EXCEPT ![b].gen = @ + 1, ![b].retain = ~@]
  BY DEF EditBinding
<1>2. bind \in [Binding -> BindObj] /\ bind[b] \in BindObj /\ BindingsOK /\ n \in BName
  BY ClaimAssumption DEF IInv, TypeOK
<1>3. PICK o \in BindObj : /\ bind' = [bind EXCEPT ![b] = o] /\ o.phase = bind[b].phase
                           /\ o.fin = bind[b].fin /\ o.deleting = bind[b].deleting
  <2>1. bind[b].gen + 1 \in Nat /\ (~bind[b].retain) \in BOOLEAN
    BY <1>2 DEF BindObj
  <2>. DEFINE o1 == [bind[b] EXCEPT !.gen = @ + 1]
              o2 == [bind[b] EXCEPT !.gen = @ + 1, !.retain = ~@]
  <2>2. o1 \in BindObj /\ o1.phase = bind[b].phase /\ o1.fin = bind[b].fin
        /\ o1.deleting = bind[b].deleting
    BY <1>2, <2>1 DEF BindObj
  <2>3. o2 \in BindObj /\ o2.phase = bind[b].phase /\ o2.fin = bind[b].fin
        /\ o2.deleting = bind[b].deleting
    BY <1>2, <2>1 DEF BindObj
  <2>4. bind' = [bind EXCEPT ![b] = o1] \/ bind' = [bind EXCEPT ![b] = o2]
    BY <1>1, <1>2
  <2>. HIDE DEF o1, o2
  <2>. QED
    BY <2>2, <2>3, <2>4
<1>4. bind'[b] = o /\ \A a \in Binding \ {b} : bind'[a] = bind[a]
  BY <1>2, <1>3
<1>5. BindingsOK'
  BY <1>2, <1>3, <1>4 DEF BindingsOK
<1>6. (Stripped(n)' <=> Stripped(n)) /\ Held(n)' = Held(n)
  BY <1>3, <1>4 DEF Stripped, Held
<1>7. Mild(n)
  BY <1>3, <1>4, <1>6 DEF Mild, Held, Entitled, Ending
<1>8. DOMAIN edits' = DOMAIN plan.edits /\ \A k \in DOMAIN edits' : edits'[k] \in 0 .. plan.edits[k]
  BY <1>1, EditCounted
<1>. QED
  BY <1>1, <1>3, <1>5, <1>7, <1>8, OneBindingMoves

LEMMA StripFinalizerOK == ASSUME IInv, NEW b \in Binding, StripFinalizer(b) PROVE IInv'
<1>. DEFINE n == NameOf[b]
            o == [NoBind EXCEPT !.phase = "stripped"]
<1>1. /\ bind[b].deleting /\ MayEdit("strip") /\ bind' = [bind EXCEPT ![b] = o]
      /\ UNCHANGED <<bcache, child, ccache, vm, gone, sel, plan, pass, conflict, faults>>
  BY DEF StripFinalizer
<1>2. bind \in [Binding -> BindObj] /\ BindingsOK /\ n \in BName
  BY ClaimAssumption DEF IInv, TypeOK
<1>3. o \in BindObj /\ o.phase = "stripped" /\ ~o.fin /\ ~o.deleting
  BY EmptyTyped DEF NoBind, BindObj
<1>. HIDE DEF o
<1>4. bind'[b] = o /\ \A a \in Binding \ {b} : bind'[a] = bind[a]
  BY <1>1, <1>2
<1>5. BindingsOK'
  BY <1>2, <1>3, <1>4 DEF BindingsOK
<1>6. Stripped(n)'
  BY <1>3, <1>4 DEF Stripped
<1>7. Mild(n)
  BY <1>3, <1>4, <1>6 DEF Mild, Held, Entitled, Ending
<1>. QED
  BY <1>1, <1>3, <1>5, <1>7, EditCounted, OneBindingMoves

\* The finalizer goes on a binding of a name that no finalization is about.
LEMMA HoldFinalizerOK == ASSUME IInv, NEW n \in BName, HoldFinalizer(n) PROVE IInv'
<1>. DEFINE h == Holder(n)
<1>1. /\ pass[n].pc = "idle" /\ bcache[n].b # None /\ ~bcache[n].obj.deleting
      /\ h # None /\ ~bind[h].deleting
      /\ UNCHANGED <<bcache, child, ccache, worldVars, conflict, faults>>
      /\ bind' = [bind EXCEPT ![h].fin = TRUE]
      /\ pass' = [pass EXCEPT ![n].pc = "hold"]
  BY DEF HoldFinalizer
<1>2. bind \in [Binding -> BindObj] /\ pass \in [BName -> Pass] /\ BindingsOK
  BY DEF IInv, TypeOK
<1>3. h \in Held(n) /\ h \in Binding /\ NameOf[h] = n /\ bind[h].phase = "live"
      /\ \A b \in Held(n) : b = h
  <2>1. h \in Held(n) /\ \A b \in Held(n) : b = h
    BY <1>1, <1>2, HolderIs
  <2>. QED
    BY <2>1 DEF Held
<1>. HIDE DEF h
<1>. DEFINE o == [bind[h] EXCEPT !.fin = TRUE]
            r == [pass[n] EXCEPT !.pc = "hold"]
<1>4. bind[h] \in BindObj /\ pass[n] \in Pass /\ pass[n] = NoPass
  BY <1>1, <1>2, <1>3 DEF IInv, PassOK
<1>5. o \in BindObj /\ o.phase = "live" /\ o.fin /\ ~o.deleting
  BY <1>1, <1>3, <1>4 DEF BindObj
<1>6. r \in Pass /\ r.pc = "hold" /\ ~r.cleanup /\ r.ops = NoPass.ops
  BY <1>4, NoPassIs DEF Pass
<1>7. bind' = [bind EXCEPT ![h] = o] /\ pass' = [pass EXCEPT ![n] = r]
  BY <1>1, <1>2, <1>3
<1>. HIDE DEF o, r
<1>8. /\ bind'[h] = o /\ \A a \in Binding \ {h} : bind'[a] = bind[a]
      /\ pass'[n] = r /\ \A m \in BName \ {n} : pass'[m] = pass[m]
      /\ bind' \in [Binding -> BindObj] /\ pass' \in [BName -> Pass]
  BY <1>2, <1>3, <1>5, <1>6, <1>7
<1>9. BindingsOK'
  BY <1>2, <1>3, <1>5, <1>8 DEF BindingsOK
<1>10. \A m \in BName : (Stripped(m)' <=> Stripped(m)) /\ Held(m)' = Held(m)
  BY <1>3, <1>5, <1>8 DEF Stripped, Held
<1>11. \A a \in Binding : (Entitled(a) => Entitled(a)') /\ (Ending(a) => Ending(a)')
  <2>1. \A a \in Binding : NameOf[a] \in BName
    BY ClaimAssumption
  <2>. QED
    BY <1>1, <1>3, <1>5, <1>8, <1>10, <2>1 DEF Entitled, Ending
<1>12. ASSUME NEW m \in BName PROVE CopyOK(m)' /\ PassOK(m, pass[m])'
  <2>1. CASE m = n
    <3>1. CopyOK(n) /\ bcache[n].b \in Binding
      BY <1>1 DEF IInv, TypeOK
    <3>2. CopyOK(n)'
      BY <1>1, <1>11, <3>1 DEF CopyOK
    <3>3. PassOK(n, pass[n])'
      BY <1>3, <1>5, <1>6, <1>8, <1>10 DEF PassOK
    <3>. QED
      BY <2>1, <3>2, <3>3
  <2>2. CASE m # n
    <3>1. PICK p \in Pass : p = pass[m] /\ PassOK(m, p)
      BY <1>2 DEF IInv
    <3>2. Mild(m)
      BY <1>3, <1>5, <1>7, <2>2, OthersMild
    <3>3. CopyOK(m)' /\ PassOK(m, p)'
      BY <1>1, <3>1, <3>2, MildKeeps
    <3>. QED
      BY <1>8, <2>2, <3>1, <3>3 DEF PassOK
  <2>. QED
    BY <2>1, <2>2
<1>13. ClaimsEntitled'
  <2>1. \A v \in VMName : Exists(child[v]) => child[v].by \in Binding
    BY DEF IInv, TypeOK, Child
  <2>. QED
    BY <1>1, <1>11, <2>1 DEF IInv, ClaimsEntitled
<1>14. /\ DOMAIN edits' = DOMAIN plan.edits /\ \A k \in DOMAIN edits' : edits'[k] \in 0 .. plan.edits[k]
       /\ UNCHANGED <<bcache, child, ccache, vm, gone, sel, plan, conflict, faults>>
  BY <1>1 DEF worldVars, IInv, TypeOK
<1>15. \A m \in BName : pass'[m] = pass[m] \/ \A v \in VMName : pass'[m].ops[v] = NoOp
  BY <1>6, <1>8, NoPassIs
<1>. QED
  BY <1>8, <1>9, <1>12, <1>13, <1>14, <1>15, BindStep

\* The release, by name, is of the binding the finalization was for or of none,
\* and that one has no child.
LEMMA ReleaseFinalizerOK == ASSUME IInv, NEW n \in BName, ReleaseFinalizer(n) PROVE IInv'
<1>. DEFINE h == Holder(n)
<1>1. /\ pass[n].pc = "release" /\ UNCHANGED <<bcache, child, ccache, worldVars, conflict, faults>>
      /\ pass' = [pass EXCEPT ![n] = NoPass]
      /\ bind' = IF h = None THEN bind
                 ELSE [bind EXCEPT ![h] = IF bind[h].deleting THEN [NoBind EXCEPT !.phase = "gone"]
                                          ELSE [bind[h] EXCEPT !.fin = FALSE]]
  BY DEF ReleaseFinalizer
<1>2. bind \in [Binding -> BindObj] /\ pass \in [BName -> Pass] /\ BindingsOK
  BY DEF IInv, TypeOK
<1>3. /\ pass[n].b # None /\ Ending(pass[n].b) /\ OnlyHeld(n, pass[n].b) /\ pass[n].b \in Binding
      /\ bcache[n].b = pass[n].b => bcache[n].obj.deleting
      /\ \A v \in VMName : Exists(child[v]) => NameOf[child[v].by] # n
  BY <1>1, <1>2 DEF IInv, PassOK, Pass
<1>4. h # None => /\ h \in Held(n) /\ h \in Binding /\ NameOf[h] = n /\ bind[h].phase = "live"
                  /\ bind[h].fin => h = pass[n].b /\ bind[h].deleting
  <2>1. h # None => h \in Held(n)
    BY <1>2, HolderIs
  <2>. QED
    BY <1>3, <2>1 DEF Held, OnlyHeld, Ending
<1>. HIDE DEF h
<1>5. CASE h = None \/ ~bind[h].deleting
  <2>1. bind' = bind
    <3>1. CASE h # None
      <4>1. [bind[h] EXCEPT !.fin = FALSE] = bind[h]
        BY <1>2, <1>4, <1>5, <3>1 DEF BindObj
      <4>. QED
        BY <1>1, <1>2, <1>4, <1>5, <3>1, <4>1
    <3>. QED
      BY <1>1, <3>1
  <2>2. NoPass \in Pass /\ Follows(pass[n], NoPass)
    BY EmptyTyped, NoPassIs DEF Follows, Over
  <2>3. conflict' \in [Binding -> SUBSET VMName]
    BY <1>1 DEF IInv, TypeOK
  <2>. QED
    BY <1>1, <2>1, <2>2, <2>3, PassOnly
<1>6. CASE h # None /\ bind[h].deleting
  <2>. DEFINE o == [NoBind EXCEPT !.phase = "gone"]
  <2>1. o \in BindObj /\ o.phase = "gone" /\ ~o.fin /\ ~o.deleting
    BY EmptyTyped DEF NoBind, BindObj
  <2>2. bind' = [bind EXCEPT ![h] = o]
    BY <1>1, <1>6
  <2>. HIDE DEF o
  <2>3. /\ bind'[h] = o /\ (\A a \in Binding \ {h} : bind'[a] = bind[a])
        /\ pass'[n] = NoPass /\ \A m \in BName \ {n} : pass'[m] = pass[m]
        /\ bind' \in [Binding -> BindObj] /\ pass' \in [BName -> Pass]
    BY <1>1, <1>2, <1>4, <1>6, <2>1, <2>2, EmptyTyped
  <2>4. h = pass[n].b
    BY <1>2, <1>4, <1>6 DEF BindingsOK
  <2>5. BindingsOK'
    BY <1>2, <1>4, <1>6, <2>1, <2>3 DEF BindingsOK
  <2>6. \A m \in BName : (Stripped(m)' <=> Stripped(m)) /\ Held(m)' \subseteq Held(m)
    BY <1>4, <1>6, <2>1, <2>3 DEF Stripped, Held
  <2>7. \A a \in Binding \ {h} : Entitled(a) => Entitled(a)'
    <3>1. \A a \in Binding : NameOf[a] \in BName
      BY ClaimAssumption
    <3>. QED
      BY <2>3, <2>6, <3>1 DEF Entitled
  <2>8. \A a \in Binding : Ending(a) => Ending(a)'
    BY <2>1, <2>3 DEF Ending
  <2>9. \A b : OnlyHeld(n, b) => OnlyHeld(n, b)'
    BY <1>4, <1>6, <2>1, <2>3, <2>6 DEF OnlyHeld, Held
  <2>10. ASSUME NEW m \in BName PROVE CopyOK(m)' /\ PassOK(m, pass[m])'
    <3>1. CASE m = n
      <4>1. CopyOK(n) /\ bcache[n].b \in Binding \cup {None}
        BY DEF IInv, TypeOK
      <4>2. CopyOK(n)'
        BY <1>1, <1>3, <2>4, <2>7, <2>8, <2>9, <4>1 DEF CopyOK
      <4>3. PassOK(n, pass[n])'
        BY <2>3, NoPassIs DEF PassOK
      <4>. QED
        BY <3>1, <4>2, <4>3
    <3>2. CASE m # n
      <4>1. PICK p \in Pass : p = pass[m] /\ PassOK(m, p)
        BY <1>2 DEF IInv
      <4>2. Mild(m)
        BY <1>4, <1>6, <2>1, <2>2, <3>2, OthersMild
      <4>3. CopyOK(m)' /\ PassOK(m, p)'
        BY <1>1, <4>1, <4>2, MildKeeps
      <4>. QED
        BY <2>3, <3>2, <4>1, <4>3 DEF PassOK
    <3>. QED
      BY <3>1, <3>2
  <2>11. ClaimsEntitled'
    <3>1. \A v \in VMName : Exists(child[v]) => child[v].by \in Binding \ {h}
      BY <1>3, <1>4, <1>6 DEF IInv, TypeOK, Child
    <3>. QED
      BY <1>1, <2>7, <3>1 DEF IInv, ClaimsEntitled
  <2>12. /\ DOMAIN edits' = DOMAIN plan.edits /\ \A k \in DOMAIN edits' : edits'[k] \in 0 .. plan.edits[k]
         /\ UNCHANGED <<bcache, child, ccache, vm, gone, sel, plan, conflict, faults>>
    BY <1>1 DEF worldVars, IInv, TypeOK
  <2>13. \A m \in BName : pass'[m] = pass[m] \/ \A v \in VMName : pass'[m].ops[v] = NoOp
    BY <2>3, NoPassIs
  <2>. QED
    BY <2>3, <2>5, <2>10, <2>11, <2>12, <2>13, BindStep
<1>. QED
  BY <1>5, <1>6

-----------------------------------------------------------------------------
(* The children, the garbage collector, the informers, the process, people *)

\* A copy just taken says no more than holds.
LEMMA FreshCopy ==
    ASSUME IInv, NEW n \in BName, NEW p \in Pass, PassOK(n, p), Snapshot(n).b # None
    PROVE  /\ NameOf[Snapshot(n).b] = n
           /\ Snapshot(n).obj.fin /\ ~Snapshot(n).obj.deleting => Entitled(Snapshot(n).b)
           /\ Snapshot(n).obj.deleting => Ending(Snapshot(n).b) /\ OnlyHeld(n, Snapshot(n).b)
           /\ p.cleanup /\ Snapshot(n).b = p.b => Snapshot(n).obj.deleting
<1>1. Holder(n) # None
  BY SnapshotIs DEF NoCopy
<1>2. /\ Holder(n) \in Held(n) /\ Snapshot(n).b = Holder(n) /\ Snapshot(n).obj = bind[Holder(n)]
      /\ \A b \in Held(n) : Holder(n) = b
  BY <1>1, SnapshotIs, HolderIs DEF IInv
<1>3. Holder(n) \in Binding /\ NameOf[Holder(n)] = n /\ bind[Holder(n)].phase = "live"
  BY <1>2 DEF Held
<1>4. Snapshot(n).obj.fin => Entitled(Snapshot(n).b)
  BY <1>2, <1>3 DEF Entitled
<1>5. Snapshot(n).obj.deleting => Ending(Snapshot(n).b) /\ OnlyHeld(n, Snapshot(n).b)
  BY <1>2, <1>3 DEF Ending, OnlyHeld
<1>6. p.cleanup /\ Snapshot(n).b = p.b => Snapshot(n).obj.deleting
  BY <1>2, <1>3 DEF PassOK, Ending
<1>. QED
  BY <1>2, <1>3, <1>4, <1>5, <1>6

\* A child changes but not its UID, owner and VM, or goes.
Keeps(v) ==
    \/ child'[v] = child[v] \/ child'[v] = NoChild
    \/ /\ Exists(child[v]) /\ child'[v].uid = child[v].uid
       /\ child'[v].by = child[v].by /\ child'[v].vm = child[v].vm

\* A step that changes no binding, makes no child and lets no pass go on.
LEMMA WorldStep ==
    ASSUME IInv, UNCHANGED <<bind, plan, conflict>>,
           child' \in [VMName -> Child], \A v \in VMName : Keeps(v),
           ccache' \in [VMName -> Child], \A v \in VMName : ccache'[v] \in {ccache[v], child[v]},
           bcache' \in [BName -> Copy], \A n \in BName : bcache'[n] \in {bcache[n], Snapshot(n)},
           pass' \in [BName -> Pass], \A n \in BName : pass'[n] \in {pass[n], NoPass},
           vm' \in [VMName -> 0 .. MaxVM], gone' \in [VMName -> 1 .. MaxVM],
           sel' \in [Binding -> SUBSET VMName], faults' \in 0 .. plan.faults,
           DOMAIN edits' = DOMAIN plan.edits,
           \A k \in DOMAIN edits' : edits'[k] \in 0 .. plan.edits[k]
    PROVE  IInv'
<1>1. /\ BindingsOK' /\ \A b \in Binding : (Entitled(b)' <=> Entitled(b)) /\ (Ending(b)' <=> Ending(b))
      /\ \A m \in BName : (Stripped(m)' <=> Stripped(m)) /\ Held(m)' = Held(m)
      /\ \A m \in BName : \A b : OnlyHeld(m, b)' <=> OnlyHeld(m, b)
  BY BindSame DEF IInv
<1>2. ASSUME NEW v \in VMName
      PROVE  /\ IF Exists(child'[v]) THEN child'[v].by # None /\ child'[v].vm # 0 ELSE child'[v] = NoChild
             /\ IF Exists(ccache'[v]) THEN ccache'[v].by # None /\ ccache'[v].vm # 0
                ELSE ccache'[v] = NoChild
             /\ Exists(child'[v]) => Exists(child[v]) /\ child'[v].by = child[v].by
                                     /\ child'[v].uid = child[v].uid
  <2>1. /\ IF Exists(child[v]) THEN child[v].by # None /\ child[v].vm # 0 ELSE child[v] = NoChild
        /\ IF Exists(ccache[v]) THEN ccache[v].by # None /\ ccache[v].vm # 0 ELSE ccache[v] = NoChild
    BY DEF IInv, TypeOK
  <2>. QED
    BY <2>1, EmptyTyped DEF Keeps, Exists
<1>3. TypeOK'
  BY <1>2 DEF IInv, TypeOK, Copy
<1>4. ClaimsEntitled'
  <2>1. \A v \in VMName : Exists(child'[v]) => child'[v].by \in Binding
    BY <1>2 DEF Child
  <2>. QED
    BY <1>1, <1>2, <2>1 DEF IInv, ClaimsEntitled
<1>5. ASSUME NEW n \in BName PROVE CopyOK(n)' /\ PassOK(n, pass[n])'
  <2>1. CopyOK(n) /\ bcache[n].b \in Binding \cup {None}
    BY DEF IInv, TypeOK
  <2>2. PICK p \in Pass : p = pass[n] /\ PassOK(n, p)
    BY DEF IInv, TypeOK
  <2>3. p.b \in Binding \cup {None}
    BY DEF Pass
  <2>4. Snapshot(n).b \in Binding \cup {None}
    BY SnapshotIs DEF Copy
  <2>5. CopyOK(n)'
    <3>1. CASE bcache'[n] = bcache[n]
      BY <1>1, <2>1, <3>1 DEF CopyOK
    <3>2. CASE bcache'[n] = Snapshot(n)
      BY <1>1, <2>2, <2>4, <3>2, FreshCopy DEF CopyOK
    <3>. QED
      BY <3>1, <3>2
  <2>6. CASE pass'[n] = NoPass
    BY <2>5, <2>6, NoPassIs DEF PassOK
  <2>7. CASE pass'[n] = pass[n]
    <3>1. p.cleanup => (bcache'[n].b = p.b => bcache'[n].obj.deleting)
      <4>1. CASE bcache'[n] = bcache[n]
        BY <2>2, <4>1 DEF PassOK
      <4>2. CASE bcache'[n] = Snapshot(n) /\ p.cleanup
        <5>1. p.b # None
          BY <2>2, <4>2 DEF PassOK
        <5>. QED
          BY <2>2, <4>2, <5>1, FreshCopy
      <4>. QED
        BY <4>1, <4>2
    <3>2. PassOK(n, p)'
      BY <1>1, <1>2, <2>2, <2>3, <3>1 DEF PassOK
    <3>. QED
      BY <2>2, <2>5, <2>7, <3>2 DEF PassOK
  <2>. QED
    BY <2>6, <2>7
<1>6. \A n \in BName, v \in VMName : OpOK(n, pass'[n], pass'[n].ops[v])
  <2>1. \A n \in BName : OpOK(n, NoPass, NoOp)
    BY NoPassIs DEF OpOK
  <2>. QED
    BY <2>1, NoPassIs DEF IInv
<1>7. ASSUME NEW v \in VMName PROVE OneOwner(Known(v)')
  <2>1. OneOwner(Known(v))
    BY DEF IInv
  <2>2. Known(v)' = {child'[v], ccache'[v]} \cup {pass'[n].ops[v].copy : n \in BName}
    BY DEF Known
  <2>3. child[v] \in Known(v) /\ ccache[v] \in Known(v)
        /\ \A n \in BName : pass[n].ops[v].copy \in Known(v)
    BY DEF Known
  <2>4. \A n \in BName : pass'[n].ops[v].copy \in Known(v) \/ ~Exists(pass'[n].ops[v].copy)
    BY <2>3, NoPassIs, EmptyTyped
  <2>5. \A c \in Known(v)' : ~Exists(c) \/ \E d \in Known(v) : d.uid = c.uid /\ d.by = c.by
    BY <1>2, <2>2, <2>3, <2>4
  <2>. QED
    BY <2>1, <2>5, OwnersSame
<1>. QED
  BY <1>1, <1>3, <1>4, <1>5, <1>6, <1>7 DEF IInv

\* What the types say of what such a step leaves alone.
LEMMA WorldTyped ==
    ASSUME IInv
    PROVE  /\ bind \in [Binding -> BindObj]
           /\ child \in [VMName -> Child] /\ ccache \in [VMName -> Child]
           /\ bcache \in [BName -> Copy] /\ pass \in [BName -> Pass]
           /\ vm \in [VMName -> 0 .. MaxVM] /\ gone \in [VMName -> 1 .. MaxVM]
           /\ sel \in [Binding -> SUBSET VMName] /\ faults \in 0 .. plan.faults
           /\ DOMAIN edits = DOMAIN plan.edits
           /\ \A k \in DOMAIN edits : edits[k] \in 0 .. plan.edits[k]
BY DEF IInv, TypeOK, Copy

\* Of those steps, the ones that change one child.
LEMMA OneChildMoves ==
    ASSUME IInv, NEW v \in VMName, NEW d \in Child, child' = [child EXCEPT ![v] = d],
           d = NoChild \/ (Exists(child[v]) /\ d.uid = child[v].uid /\ d.by = child[v].by
                           /\ d.vm = child[v].vm),
           UNCHANGED <<bind, bcache, ccache, worldVars, pass, conflict, faults>>
    PROVE  IInv'
<1>1. child' \in [VMName -> Child] /\ child'[v] = d /\ \A w \in VMName \ {v} : child'[w] = child[w]
  BY WorldTyped
<1>2. \A w \in VMName : Keeps(w)
  BY <1>1 DEF Keeps
<1>. QED
  BY <1>1, <1>2, WorldTyped, WorldStep DEF worldVars

LEMMA ChildStepOK == ASSUME IInv, NEW v \in VMName, ChildStep(v) PROVE IInv'
<1>1. child \in [VMName -> Child] /\ child[v] \in Child
  BY WorldTyped
<1>2. CASE ChildHolds(v)
  <2>. DEFINE d == [child[v] EXCEPT !.fin = TRUE]
  <2>1. d \in Child /\ d.uid = child[v].uid /\ d.by = child[v].by /\ d.vm = child[v].vm
    BY <1>1 DEF Child
  <2>2. Exists(child[v]) /\ child' = [child EXCEPT ![v] = d]
        /\ UNCHANGED <<bind, bcache, ccache, worldVars, pass, conflict, faults>>
    BY <1>1, <1>2 DEF ChildHolds
  <2>. HIDE DEF d
  <2>. QED
    BY <2>1, <2>2, OneChildMoves
<1>3. CASE ChildGone(v)
  BY <1>3, EmptyTyped, OneChildMoves DEF ChildGone
<1>4. CASE CollectGarbage(v)
  <2>1. Exists(child[v]) /\ child' = [child EXCEPT ![v] = Deleted(child[v])]
        /\ UNCHANGED <<bind, bcache, ccache, worldVars, pass, conflict, faults>>
    BY <1>1, <1>4 DEF CollectGarbage
  <2>. QED
    BY <1>1, <2>1, DeletedIs, OneChildMoves
<1>. QED
  BY <1>2, <1>3, <1>4 DEF ChildStep

LEMMA InformersOK ==
    ASSUME IInv, \/ \E v \in VMName : SyncChild(v)
                 \/ \E n \in BName : SyncBinding(n)
                 \/ Crash
    PROVE  IInv'
<1>1. \A n \in BName : Snapshot(n) \in Copy
  BY SnapshotIs
<1>2. CASE \E v \in VMName : SyncChild(v)
  <2>1. PICK v \in VMName : SyncChild(v)
    BY <1>2
  <2>2. /\ ccache' = [ccache EXCEPT ![v] = child[v]]
        /\ UNCHANGED <<bind, bcache, child, worldVars, pass, conflict, faults>>
    BY <2>1 DEF SyncChild
  <2>3. ccache' \in [VMName -> Child] /\ \A w \in VMName : ccache'[w] \in {ccache[w], child[w]}
    BY <2>2, WorldTyped
  <2>4. \A w \in VMName : Keeps(w)
    BY <2>2 DEF Keeps
  <2>. QED
    BY <2>2, <2>3, <2>4, WorldTyped, WorldStep DEF worldVars
<1>3. CASE \E n \in BName : SyncBinding(n)
  <2>1. PICK n \in BName : SyncBinding(n)
    BY <1>3
  <2>2. /\ bcache' = [bcache EXCEPT ![n] = Snapshot(n)]
        /\ UNCHANGED <<bind, child, ccache, worldVars, pass, conflict, faults>>
    BY <2>1 DEF SyncBinding
  <2>3. bcache' \in [BName -> Copy] /\ \A m \in BName : bcache'[m] \in {bcache[m], Snapshot(m)}
    BY <1>1, <2>2, WorldTyped
  <2>4. \A w \in VMName : Keeps(w)
    BY <2>2 DEF Keeps
  <2>. QED
    BY <2>2, <2>3, <2>4, WorldTyped, WorldStep DEF worldVars
<1>4. CASE Crash
  <2>2. /\ Fault /\ pass' = [n \in BName |-> NoPass] /\ ccache' = child
        /\ bcache' = [n \in BName |-> Snapshot(n)]
        /\ UNCHANGED <<bind, child, worldVars, conflict>>
    BY <1>4 DEF Crash
  <2>3. bcache' \in [BName -> Copy] /\ \A m \in BName : bcache'[m] \in {bcache[m], Snapshot(m)}
    BY <1>1, <2>2
  <2>4. pass' \in [BName -> Pass] /\ \A m \in BName : pass'[m] \in {pass[m], NoPass}
    BY <2>2, EmptyTyped
  <2>5. \A w \in VMName : Keeps(w)
    BY <2>2 DEF Keeps
  <2>. QED
    BY <2>2, <2>3, <2>4, <2>5, FaultCounted, WorldTyped, WorldStep DEF worldVars
<1>. QED
  BY <1>2, <1>3, <1>4

LEMMA RelabelOK == ASSUME IInv, NEW b \in Binding, NEW v \in VMName, Relabel(b, v) PROVE IInv'
<1>1. /\ MayEdit("label") /\ sel' = [sel EXCEPT ![b] = IF v \in @ THEN @ \ {v} ELSE @ \cup {v}]
      /\ UNCHANGED <<bind, bcache, child, ccache, vm, gone, plan, pass, conflict, faults>>
  BY DEF Relabel
<1>2. sel' \in [Binding -> SUBSET VMName]
  BY <1>1, WorldTyped
<1>3. \A w \in VMName : Keeps(w)
  BY <1>1 DEF Keeps
<1>. QED
  BY <1>1, <1>2, <1>3, EditCounted, WorldTyped, WorldStep

LEMMA ReplaceVMOK == ASSUME IInv, NEW v \in VMName, ReplaceVM(v) PROVE IInv'
<1>1. /\ MayEdit("vm")
      /\ UNCHANGED <<bind, bcache, child, ccache, sel, plan, pass, conflict, faults>>
      /\ \/ vm' = [vm EXCEPT ![v] = 0] /\ UNCHANGED gone
         \/ /\ gone[v] < MaxVM
            /\ vm' = [vm EXCEPT ![v] = gone[v] + 1] /\ gone' = [gone EXCEPT ![v] = @ + 1]
  BY DEF ReplaceVM
<1>2. vm' \in [VMName -> 0 .. MaxVM] /\ gone' \in [VMName -> 1 .. MaxVM]
  BY <1>1, WorldTyped, ClaimAssumption
<1>3. \A w \in VMName : Keeps(w)
  BY <1>1 DEF Keeps
<1>. QED
  BY <1>1, <1>2, <1>3, EditCounted, WorldTyped, WorldStep

-----------------------------------------------------------------------------
(* Every step *)

LEMMA InitOK == ASSUME Init PROVE IInv
<1>1. /\ bind = [b \in Binding |-> NoBind] /\ bcache = [n \in BName |-> NoCopy]
      /\ child = [v \in VMName |-> NoChild] /\ ccache = child
      /\ vm = [v \in VMName |-> 1] /\ gone = vm /\ sel = [b \in Binding |-> VMName]
      /\ plan \in Plans /\ pass = [n \in BName |-> NoPass]
      /\ conflict = [b \in Binding |-> {}]
      /\ edits = [k \in DOMAIN plan.edits |-> 0] /\ faults = 0
  BY DEF Init
<1>2. TypeOK
  <2>1. NoCopy \in [b : Binding \cup {None}, obj : BindObj]
    BY EmptyTyped DEF NoCopy
  <2>2. 1 \in 0 .. MaxVM /\ 1 \in 1 .. MaxVM /\ 0 \in 0 .. plan.faults
        /\ \A k \in DOMAIN plan.edits : 0 \in 0 .. plan.edits[k]
    BY <1>1, ClaimAssumption
  <2>. QED
    BY <1>1, <2>1, <2>2, EmptyTyped DEF TypeOK
<1>3. BindingsOK /\ ClaimsEntitled
  BY <1>1, EmptyTyped DEF BindingsOK, ClaimsEntitled, NoBind
<1>4. ASSUME NEW n \in BName
      PROVE  CopyOK(n) /\ PassOK(n, pass[n]) /\ \A v \in VMName : OpOK(n, pass[n], pass[n].ops[v])
  BY <1>1, NoPassIs DEF CopyOK, PassOK, OpOK, NoCopy
<1>5. \A v \in VMName : OneOwner(Known(v))
  BY <1>1, NoPassIs, EmptyTyped DEF OneOwner, Known
<1>. QED
  BY <1>2, <1>3, <1>4, <1>5 DEF IInv

LEMMA PassStepOK == ASSUME IInv, NEW n \in BName, PassStep(n) PROVE IInv'
BY applyAnsibleBindingOK, cleanupAnsibleBindingOK, ConfirmChildrenGoneOK, createBindingChildOK,
   updateBindingChildSpecOK, deleteBindingChildOK, RefusedOK, writeAnsibleBindingDetailsOK,
   HoldFinalizerOK, ProvisionHeldOK, ReleaseFinalizerOK, CallFailsOK, Zenon DEF PassStep

LEMMA StepOK == ASSUME IInv, [Next]_vars PROVE IInv'
<1>1. CASE UNCHANGED vars
  <2>1. UNCHANGED <<bind, bcache, child, ccache, vm, gone, sel, plan, pass, conflict, edits, faults>>
    BY <1>1 DEF vars
  <2>2. \A v \in VMName : Keeps(v)
    BY <2>1 DEF Keeps
  <2>. QED
    BY <2>1, <2>2, WorldTyped, WorldStep
<1>2. CASE Next
  BY <1>2, PassStepOK, ChildStepOK, InformersOK, RelabelOK, ReplaceVMOK, CreateBindingOK,
     DeleteBindingOK, EditBindingOK, StripFinalizerOK, Zenon DEF Next
<1>. QED
  BY <1>1, <1>2

\* The invariant holds all along.
LEMMA Invariance == Spec => []IInv
<1>1. Init => IInv
  BY InitOK
<1>2. IInv /\ [Next]_vars => IInv'
  BY StepOK
<1>. QED
  BY <1>1, <1>2, PTL DEF Spec

-----------------------------------------------------------------------------
(* Theorems *)

\* Every variable keeps its type, and every child, or copy of one, names a
\* binding and a VM (createBindingChild, childSpecFor).
THEOREM ClaimTyped == Spec => []TypeOK
<1>1. IInv => TypeOK
  BY DEF IInv
<1>. QED
  BY <1>1, Invariance, PTL

\* What one step of a pass may do to a child.
LEMMA OwnerStep ==
    ASSUME IInv, Next, NEW n \in BName, NEW v \in VMName, pass'[n] # pass[n],
           pass[n].pc = "ops", Exists(child[v]), child'[v] # child[v]
    PROVE  IF pass[n].cleanup THEN NameOf[child[v].by] = n ELSE child[v].by = pass[n].b
<1>1. PICK p \in Pass : p = pass[n]
  BY WorldTyped
<1>2. \A w \in VMName : OpOK(n, p, p.ops[w])
  BY <1>1 DEF IInv
<1>3. p.ops[v].copy \in Known(v) /\ child[v] \in Known(v) /\ OneOwner(Known(v))
  BY <1>1 DEF IInv, Known
<1>4. ASSUME NEW m \in BName, NEW w \in VMName, createBindingChild(m, w) PROVE FALSE
  <2>1. \/ UNCHANGED child
        \/ ~Exists(child[w]) /\ \E d : child' = [child EXCEPT ![w] = d]
    BY <1>4, Zenon DEF createBindingChild
  <2>. QED
    BY <2>1, WorldTyped
<1>5. ASSUME NEW m \in BName, NEW w \in VMName, updateBindingChildSpec(m, w)
      PROVE  IF p.cleanup THEN NameOf[child[v].by] = n ELSE child[v].by = p.b
  <2>1. /\ pass[m].ops[w].kind = "update" /\ child[w].by = pass[m].b
        /\ pass' = [pass EXCEPT ![m] = Did(pass[m], w)]
        /\ child' = [child EXCEPT ![w].gen = pass[m].gen, ![w].retain = pass[m].retain]
    BY <1>5 DEF updateBindingChildSpec, Issuing, childSpecFor
  <2>2. m = n /\ w = v
    BY <2>1, WorldTyped
  <2>. QED
    BY <1>1, <1>2, <2>1, <2>2 DEF OpOK
<1>6. ASSUME NEW m \in BName, NEW w \in VMName, deleteBindingChild(m, w)
      PROVE  IF p.cleanup THEN NameOf[child[v].by] = n ELSE child[v].by = p.b
  <2>1. pass[m].ops[w].kind = "delete" /\ \E q : pass' = [pass EXCEPT ![m] = q]
    <3>1. pass[m].ops[w].kind = "delete"
      BY <1>6 DEF deleteBindingChild, Issuing
    <3>2. \/ pass' = [pass EXCEPT ![m] = Did(pass[m], w)]
          \/ \E t : pass' = [pass EXCEPT ![m].ops[w].copy = t]
      BY <1>6, Zenon DEF deleteBindingChild
    <3>3. ASSUME NEW t, pass' = [pass EXCEPT ![m].ops[w].copy = t]
          PROVE  \E q : pass' = [pass EXCEPT ![m] = q]
      BY <3>3
    <3>. QED
      BY <3>1, <3>2, <3>3
  <2>2. m = n
    BY <2>1, WorldTyped
  <2>3. \/ UNCHANGED child
        \/ child[w] = pass[m].ops[w].copy /\ \E d : child' = [child EXCEPT ![w] = d]
        \/ child[w].uid = pass[m].ops[w].copy.uid /\ \E d : child' = [child EXCEPT ![w] = d]
    BY <1>6, Zenon DEF deleteBindingChild, PatchApplies, DeleteApplies
  <2>4. w = v
    BY <2>3, WorldTyped
  <2>5. child[v].by = p.ops[v].copy.by
    BY <1>1, <1>3, <2>2, <2>3, <2>4 DEF OneOwner
  <2>. QED
    BY <1>1, <1>2, <2>1, <2>2, <2>4, <2>5 DEF OpOK
<1>7. CASE \E m \in BName : PassStep(m)
  <2>1. PICK m \in BName : PassStep(m)
    BY <1>7
  <2>2. CASE \E w \in VMName : \/ createBindingChild(m, w) \/ updateBindingChildSpec(m, w)
                               \/ deleteBindingChild(m, w)
    BY <1>1, <1>4, <1>5, <1>6, <2>2
  <2>3. CASE \/ applyAnsibleBinding(m) \/ cleanupAnsibleBinding(m) \/ ConfirmChildrenGone(m)
             \/ writeAnsibleBindingDetails(m) \/ HoldFinalizer(m) \/ ProvisionHeld(m)
             \/ ReleaseFinalizer(m) \/ CallFails(m) \/ \E w \in VMName : Refused(m, w)
    <3>1. UNCHANGED child
      BY <2>3, Zenon DEF applyAnsibleBinding, cleanupAnsibleBinding, ConfirmChildrenGone,
           writeAnsibleBindingDetails, HoldFinalizer, ProvisionHeld, ReleaseFinalizer, CallFails,
           Refused
    <3>. QED
      BY <3>1
  <2>. QED
    BY <2>1, <2>2, <2>3, Zenon DEF PassStep
<1>8. CASE ~\E m \in BName : PassStep(m)
  <2>1. UNCHANGED child \/ UNCHANGED pass
    BY <1>8, Zenon DEF Next, SyncBinding, ChildStep, ChildHolds, ChildGone, CollectGarbage, SyncChild,
         ReplaceVM, CreateBinding, DeleteBinding, EditBinding, StripFinalizer, Relabel, Crash
  <2>. QED
    BY <2>1
<1>. QED
  BY <1>7, <1>8

\* A pass changes and deletes what is its binding's, or in a cleanup its
\* name's, whatever holds the VM's name by the time the call is made
\* (updateBindingChildSpec, deleteBindingChild).
THEOREM PassesKeepToTheirOwn == Spec => OwnerOnly
<1>. DEFINE P(n, v) == pass'[n] # pass[n] /\ pass[n].pc = "ops" /\ Exists(child[v]) /\ child'[v] # child[v] =>
                         IF pass[n].cleanup THEN NameOf[child[v].by] = n ELSE child[v].by = pass[n].b
<1>1. IInv /\ [Next]_vars => [\A n \in BName, v \in VMName : P(n, v)]_vars
  BY OwnerStep
<1>. QED
  BY <1>1, Invariance, PTL DEF Spec, OwnerOnly

-----------------------------------------------------------------------------
(* The claims implement VMOwnership *)

Gone == {b \in Binding : bind[b].phase = "gone"}

\* A step under which nobody's claim changes.
LEMMA NoClaimMoves ==
    ASSUME \A v \in VMName : child'[v].by = child[v].by, Gone' = Gone
    PROVE  [Ownership!Next]_<<[v \in VMName |-> child[v].by], Gone>>
OBVIOUS

\* A step that changes one child.
LEMMA ClaimMoves ==
    ASSUME IInv, bind' = bind, NEW v \in VMName, NEW d, child' = [child EXCEPT ![v] = d],
           \/ d.by = child[v].by
           \/ d.by = None
           \/ child[v] = NoChild /\ d.by \in Binding /\ Entitled(d.by)
    PROVE  [Ownership!Next]_<<[w \in VMName |-> child[w].by], Gone>>
<1>1. child'[v] = d /\ \A w \in VMName \ {v} : child'[w] = child[w]
  BY WorldTyped
<1>2. Gone' = Gone
  BY DEF Gone
<1>3. [w \in VMName |-> child'[w].by] = [[w \in VMName |-> child[w].by] EXCEPT ![v] = d.by]
  <2>1. \A w \in VMName : child'[w].by = IF w = v THEN d.by ELSE child[w].by
    BY <1>1
  <2>. QED
    BY <2>1, Zenon
<1>4. CASE d.by = child[v].by
  BY <1>1, <1>2, <1>4, NoClaimMoves
<1>5. CASE d.by = None /\ child[v].by # None
  <2>1. Ownership!Release(v)
    BY <1>2, <1>3, <1>5 DEF Ownership!Release, Gone
  <2>. QED
    BY <2>1 DEF Ownership!Next
<1>6. CASE child[v] = NoChild /\ d.by \in Binding /\ Entitled(d.by)
  <2>1. d.by \notin Gone
    BY <1>6 DEF Entitled, Gone
  <2>2. Ownership!Claim(v, d.by)
    BY <1>2, <1>3, <1>6, <2>1 DEF Ownership!Claim, Gone, NoChild
  <2>. QED
    BY <1>6, <2>2 DEF Ownership!Next
<1>. QED
  BY <1>4, <1>5, <1>6

\* A step that changes one binding.
LEMMA BindingLeaves ==
    ASSUME IInv, child' = child, NEW b \in Binding, NEW o, bind' = [bind EXCEPT ![b] = o],
           bind[b].phase # "gone", o.phase = "gone" => \A v \in VMName : child[v].by # b
    PROVE  [Ownership!Next]_<<[w \in VMName |-> child[w].by], Gone>>
<1>1. bind'[b] = o /\ \A a \in Binding \ {b} : bind'[a] = bind[a]
  BY WorldTyped
<1>2. CASE o.phase = "gone"
  <2>1. Gone' = Gone \cup {b}
    BY <1>1, <1>2 DEF Gone
  <2>2. Ownership!Leave(b)
    BY <1>2, <2>1 DEF Ownership!Leave, Gone
  <2>. QED
    BY <2>2 DEF Ownership!Next
<1>3. CASE o.phase # "gone"
  <2>1. Gone' = Gone
    BY <1>1, <1>3 DEF Gone
  <2>. QED
    BY <2>1, NoClaimMoves
<1>. QED
  BY <1>2, <1>3

\* A pass's calls: the create takes a free VM for a binding that is there, and
\* the others leave the VM with its owner or free it.
LEMMA CallMovesClaim ==
    ASSUME IInv, NEW n \in BName, NEW v \in VMName,
           \/ createBindingChild(n, v) \/ updateBindingChildSpec(n, v) \/ deleteBindingChild(n, v)
    PROVE  [Ownership!Next]_<<[w \in VMName |-> child[w].by], Gone>>
<1>1. child \in [VMName -> Child] /\ child[v] \in Child
  BY WorldTyped
<1>2. bind' = bind
  BY Zenon DEF createBindingChild, updateBindingChildSpec, deleteBindingChild
<1>3. CASE UNCHANGED child
  BY <1>2, <1>3, NoClaimMoves DEF Gone
<1>4. ASSUME createBindingChild(n, v), child' # child
      PROVE  \E d : child' = [child EXCEPT ![v] = d] /\ child[v] = NoChild
                    /\ d.by \in Binding /\ Entitled(d.by)
  <2>1. PICK p \in Pass : p = pass[n]
    BY WorldTyped
  <2>2. Issuing(n, v, "create") /\ ~Exists(child[v])
    BY <1>4, Zenon DEF createBindingChild
  <2>3. PICK uid \in 1 .. MaxUID :
              child' = [child EXCEPT ![v] = [NoChild EXCEPT !.uid = uid,
                             !.by = childSpecFor(p).by, !.vm = p.ops[v].vm,
                             !.gen = p.gen, !.retain = p.retain]]
    BY <1>4, <2>1, <2>2, Zenon DEF createBindingChild
  <2>. DEFINE d == [NoChild EXCEPT !.uid = uid, !.by = childSpecFor(p).by, !.vm = p.ops[v].vm,
                                   !.gen = p.gen, !.retain = p.retain]
  <2>4. d.by = p.b
    BY DEF NoChild, childSpecFor
  <2>5. PassOK(n, p) /\ OpOK(n, p, p.ops[v]) /\ p.pc = "ops" /\ p.ops[v].kind = "create"
    BY <2>1, <2>2 DEF IInv, Issuing
  <2>6. p.b \in Binding /\ Entitled(p.b)
    BY <2>5 DEF PassOK, OpOK, Pass
  <2>7. child[v] = NoChild
    BY <2>2 DEF IInv, TypeOK
  <2>8. child' = [child EXCEPT ![v] = d]
    BY <2>3
  <2>. HIDE DEF d
  <2>. QED
    BY <2>4, <2>6, <2>7, <2>8
<1>5. ASSUME updateBindingChildSpec(n, v)
      PROVE  \E d : child' = [child EXCEPT ![v] = d] /\ d.by = child[v].by
  <2>. DEFINE d == [child[v] EXCEPT !.gen = pass[n].gen, !.retain = pass[n].retain]
  <2>1. child' = [child EXCEPT ![v].gen = pass[n].gen, ![v].retain = pass[n].retain]
    BY <1>5 DEF updateBindingChildSpec, childSpecFor
  <2>2. child' = [child EXCEPT ![v] = d]
    BY <1>1, <2>1
  <2>3. d.by = child[v].by
    BY <1>1 DEF Child
  <2>. HIDE DEF d
  <2>. QED
    BY <2>2, <2>3
<1>6. ASSUME deleteBindingChild(n, v), child' # child
      PROVE  \E d : child' = [child EXCEPT ![v] = d] /\ d.by \in {child[v].by, None}
  <2>. DEFINE told == [child[v] EXCEPT !.retain = pass[n].retain]
              ended == IF child[v].deleting THEN child[v] ELSE Deleted(child[v])
  <2>1. child' = [child EXCEPT ![v] = told] \/ child' = [child EXCEPT ![v] = ended]
    BY <1>6 DEF deleteBindingChild
  <2>2. told.by = child[v].by
    BY <1>1 DEF Child
  <2>3. ended.by \in {child[v].by, None}
    BY <1>1, DeletedIs DEF NoChild
  <2>. HIDE DEF told, ended
  <2>. QED
    BY <2>1, <2>2, <2>3
<1>. QED
  BY <1>2, <1>3, <1>4, <1>5, <1>6, ClaimMoves

\* A child's own steps leave the VM with its owner or free it.
LEMMA ChildMovesClaim ==
    ASSUME IInv, NEW v \in VMName, ChildStep(v)
    PROVE  [Ownership!Next]_<<[w \in VMName |-> child[w].by], Gone>>
<1>1. child \in [VMName -> Child] /\ child[v] \in Child
  BY WorldTyped
<1>2. bind' = bind
  BY DEF ChildStep, ChildHolds, ChildGone, CollectGarbage
<1>3. CASE ChildHolds(v)
  <2>. DEFINE d == [child[v] EXCEPT !.fin = TRUE]
  <2>1. child' = [child EXCEPT ![v] = d]
    BY <1>1, <1>3 DEF ChildHolds
  <2>2. d.by = child[v].by
    BY <1>1 DEF Child
  <2>. HIDE DEF d
  <2>. QED
    BY <1>2, <2>1, <2>2, ClaimMoves
<1>4. CASE ChildGone(v)
  <2>1. NoChild.by = None
    BY DEF NoChild
  <2>. QED
    BY <1>2, <1>4, <2>1, ClaimMoves DEF ChildGone
<1>5. CASE CollectGarbage(v)
  <2>1. Deleted(child[v]).by \in {child[v].by, None}
    BY <1>1, DeletedIs DEF NoChild
  <2>2. child' = [child EXCEPT ![v] = Deleted(child[v])]
    BY <1>1, <1>5 DEF CollectGarbage
  <2>. QED
    BY <1>2, <2>1, <2>2, ClaimMoves
<1>. QED
  BY <1>3, <1>4, <1>5 DEF ChildStep

\* What happens to a binding, by its own passes or by people: it leaves only when
\* it has no child.
LEMMA BindingMovesClaim ==
    ASSUME IInv,
           \/ \E n \in BName : HoldFinalizer(n) \/ ReleaseFinalizer(n)
           \/ \E b \in Binding : \/ CreateBinding(b) \/ DeleteBinding(b) \/ EditBinding(b)
                                 \/ StripFinalizer(b)
    PROVE  [Ownership!Next]_<<[w \in VMName |-> child[w].by], Gone>>
<1>0. bind \in [Binding -> BindObj] /\ BindingsOK
  BY WorldTyped DEF IInv
<1>1. child' = child
  BY Zenon DEF HoldFinalizer, ReleaseFinalizer, CreateBinding, DeleteBinding, EditBinding,
               StripFinalizer
<1>2. \A v \in VMName : child[v].by # None => Entitled(child[v].by)
  BY DEF IInv, TypeOK, ClaimsEntitled, NoChild
<1>3. ASSUME NEW n \in BName, HoldFinalizer(n)
      PROVE  [Ownership!Next]_<<[w \in VMName |-> child[w].by], Gone>>
  <2>. DEFINE h == Holder(n)
              o == [bind[h] EXCEPT !.fin = TRUE]
  <2>1. h # None /\ h \in Held(n)
    BY <1>0, <1>3, HolderIs DEF HoldFinalizer
  <2>2. h \in Binding /\ bind[h].phase = "live"
    BY <2>1 DEF Held
  <2>. HIDE DEF h
  <2>3. bind' = [bind EXCEPT ![h] = o]
    BY <1>0, <1>3, <2>2 DEF HoldFinalizer, h
  <2>4. o.phase = "live"
    BY <1>0, <2>2 DEF BindObj
  <2>. HIDE DEF o
  <2>. QED
    BY <1>1, <2>2, <2>3, <2>4, BindingLeaves
<1>4. ASSUME NEW n \in BName, ReleaseFinalizer(n)
      PROVE  [Ownership!Next]_<<[w \in VMName |-> child[w].by], Gone>>
  <2>. DEFINE h == Holder(n)
              o == IF bind[h].deleting THEN [NoBind EXCEPT !.phase = "gone"]
                   ELSE [bind[h] EXCEPT !.fin = FALSE]
  <2>1. h # None => h \in Binding /\ NameOf[h] = n /\ bind[h].phase = "live"
    BY <1>0, HolderIs DEF Held
  <2>2. \A v \in VMName : child[v].by # None => NameOf[child[v].by] # n
    BY <1>4 DEF ReleaseFinalizer, IInv, PassOK, TypeOK, NoChild
  <2>3. bind' = IF h = None THEN bind ELSE [bind EXCEPT ![h] = o]
    BY <1>4 DEF ReleaseFinalizer
  <2>. HIDE DEF h, o
  <2>4. CASE h = None
    BY <1>1, <2>3, <2>4, NoClaimMoves DEF Gone
  <2>5. CASE h # None
    <3>1. \A v \in VMName : child[v].by # h
      BY <2>1, <2>2, <2>5
    <3>. QED
      BY <1>1, <2>1, <2>3, <2>5, <3>1, BindingLeaves
  <2>. QED
    BY <2>4, <2>5
<1>5. ASSUME NEW b \in Binding, CreateBinding(b)
      PROVE  [Ownership!Next]_<<[w \in VMName |-> child[w].by], Gone>>
  <2>. DEFINE o == [NoBind EXCEPT !.phase = "live", !.gen = 1]
  <2>1. bind' = [bind EXCEPT ![b] = o] /\ bind[b].phase = "none" /\ o.phase = "live"
    BY <1>5 DEF CreateBinding, NoBind
  <2>. HIDE DEF o
  <2>. QED
    BY <1>1, <2>1, BindingLeaves
<1>6. ASSUME NEW b \in Binding, DeleteBinding(b)
      PROVE  [Ownership!Next]_<<[w \in VMName |-> child[w].by], Gone>>
  <2>. DEFINE end == IF Stripped(NameOf[b]) THEN "unheld" ELSE "gone"
              o == IF bind[b].fin THEN [bind[b] EXCEPT !.deleting = TRUE]
                   ELSE [NoBind EXCEPT !.phase = end]
  <2>1. bind' = [bind EXCEPT ![b] = o] /\ bind[b].phase = "live"
    BY <1>0, <1>6 DEF DeleteBinding
  <2>2. bind[b] \in BindObj
    BY <1>0
  <2>3. o.phase = "gone" => ~bind[b].fin /\ ~Stripped(NameOf[b])
    BY <2>1, <2>2 DEF BindObj, NoBind
  <2>. HIDE DEF o
  <2>4. o.phase = "gone" => \A v \in VMName : child[v].by # b
    <3>1. b # None
      BY ClaimAssumption
    <3>. QED
      BY <1>2, <2>1, <2>3, <3>1 DEF Entitled
  <2>. QED
    BY <1>1, <2>1, <2>4, BindingLeaves
<1>7. ASSUME NEW b \in Binding, EditBinding(b)
      PROVE  [Ownership!Next]_<<[w \in VMName |-> child[w].by], Gone>>
  <2>. DEFINE o == [bind[b] EXCEPT !.gen = @ + 1]
              r == [bind[b] EXCEPT !.gen = @ + 1, !.retain = ~@]
  <2>1. bind' \in {[bind EXCEPT ![b] = o], [bind EXCEPT ![b] = r]} /\ bind[b].phase = "live"
    BY <1>0, <1>7 DEF EditBinding
  <2>2. o.phase = "live" /\ r.phase = "live"
    BY <1>0, <2>1 DEF BindObj
  <2>. HIDE DEF o, r
  <2>. QED
    BY <1>1, <2>1, <2>2, BindingLeaves
<1>8. ASSUME NEW b \in Binding, StripFinalizer(b)
      PROVE  [Ownership!Next]_<<[w \in VMName |-> child[w].by], Gone>>
  <2>. DEFINE o == [NoBind EXCEPT !.phase = "stripped"]
  <2>1. bind' = [bind EXCEPT ![b] = o] /\ bind[b].phase = "live" /\ o.phase = "stripped"
    BY <1>0, <1>8 DEF StripFinalizer, BindingsOK, NoBind
  <2>. HIDE DEF o
  <2>. QED
    BY <1>1, <2>1, BindingLeaves
<1>. QED
  BY <1>3, <1>4, <1>5, <1>6, <1>7, <1>8

\* Any other step leaves children and bindings alone.
LEMMA StepMovesClaim ==
    ASSUME IInv, [Next]_vars
    PROVE  [Ownership!Next]_<<[w \in VMName |-> child[w].by], Gone>>
<1>1. CASE UNCHANGED <<child, bind>>
  BY <1>1, NoClaimMoves DEF Gone
<1>2. CASE \E n \in BName : PassStep(n)
  <2>1. PICK n \in BName : PassStep(n)
    BY <1>2
  <2>2. \/ UNCHANGED <<child, bind>>
        \/ \E v \in VMName : \/ createBindingChild(n, v) \/ updateBindingChildSpec(n, v)
                             \/ deleteBindingChild(n, v)
        \/ HoldFinalizer(n) \/ ReleaseFinalizer(n)
    BY <2>1, Zenon DEF PassStep, applyAnsibleBinding, cleanupAnsibleBinding, ConfirmChildrenGone,
         writeAnsibleBindingDetails, ProvisionHeld, CallFails, Refused
  <2>. QED
    BY <1>1, <2>2, CallMovesClaim, BindingMovesClaim
<1>3. CASE \E v \in VMName : ChildStep(v)
  BY <1>3, ChildMovesClaim
<1>4. CASE \E b \in Binding : \/ CreateBinding(b) \/ DeleteBinding(b) \/ EditBinding(b)
                              \/ StripFinalizer(b)
  BY <1>4, BindingMovesClaim
<1>5. \/ UNCHANGED <<child, bind>>
      \/ \E n \in BName : PassStep(n)
      \/ \E v \in VMName : ChildStep(v)
      \/ \E b \in Binding : \/ CreateBinding(b) \/ DeleteBinding(b) \/ EditBinding(b)
                            \/ StripFinalizer(b)
  BY Zenon DEF Next, vars, SyncBinding, SyncChild, ReplaceVM, Relabel, Crash
<1>. QED
  BY <1>1, <1>2, <1>3, <1>4, <1>5

\* The claims implement VMOwnership: nobody is handed a VM another owns, and who
\* left by itself owns none, for any number of bindings, names and VMs.
THEOREM ClaimsImplementOwnership == Spec => Implements
<1>1. Init => Ownership!Init
  BY DEF Init, Ownership!Init, NoChild, NoBind
<1>2. IInv /\ [Next]_vars
        => [Ownership!Next]_<<[v \in VMName |-> child[v].by], {b \in Binding : bind[b].phase = "gone"}>>
  BY StepMovesClaim DEF Gone
<1>. QED
  BY <1>1, <1>2, Invariance, PTL DEF Spec, Implements, Ownership!Spec

=============================================================================
