------------------------------ MODULE MCVMClaim ------------------------------
(***************************************************************************)
(* Instances of VMClaim: two bindings that want the same VM, with a third  *)
(* created under the name of the first once that one is gone; and one      *)
(* binding alone, with VMs replaced, policies changed and AWX dead.        *)
(***************************************************************************)
EXTENDS VMClaim, TLC

CONSTANTS b1, b2, b3, n1, n2

Names == b1 :> n1 @@ b2 :> n2 @@ b3 :> n1

\* One name used twice, its finalizer taken off by hand in between, and the
\* second binding deleted too.
Recreate == [who |-> {b1, b3}, awx |-> TRUE, faults |-> 0, max |-> 3,
             edits |-> ("delete" :> 2 @@ "strip" :> 1)]

\* Two contenders, and the first one's name used again.
Contend == {Recreate, [who |-> {b1, b2, b3}, awx |-> TRUE, faults |-> 0, max |-> 2,
                       edits |-> ("label" :> 1 @@ "delete" :> 1 @@ "strip" :> 1)]}

\* The first of these by itself.
Again == {Recreate}

\* Two contenders of which one gives way; one binding alone through the rest.
GiveWay == [who |-> {b1, b2}, awx |-> TRUE, faults |-> 0, max |-> 1,
            edits |-> ("label" :> 1 @@ "delete" :> 1)]
Alone(a) == [who |-> {b1}, awx |-> a, faults |-> 1, max |-> 2,
             edits |-> ("vm" :> 1 @@ "spec" :> 1 @@ "policy" :> 1 @@ "delete" :> 1)]
Live == {GiveWay} \cup {Alone(a) : a \in BOOLEAN}
=============================================================================
