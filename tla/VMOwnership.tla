---------------------------- MODULE VMOwnership ----------------------------
(***************************************************************************)
(* What the claims promise: a VM's whole lifecycle belongs to one binding  *)
(* at a time.  A binding takes a VM that nobody owns, and only its own     *)
(* release, the end of the child's teardown, frees it again.  No step      *)
(* hands a VM from one owner to the next, and a binding that has let go of *)
(* everything and left never owns again.                                   *)
(***************************************************************************)
CONSTANTS Binding, VMName, None

VARIABLES owner,   \* the binding that owns each VM name
          left     \* the bindings that are gone

Init ==
    /\ owner = [v \in VMName |-> None]
    /\ left = {}

Claim(v, b) ==
    /\ owner[v] = None /\ b \notin left
    /\ owner' = [owner EXCEPT ![v] = b]
    /\ UNCHANGED left

Release(v) ==
    /\ owner[v] # None
    /\ owner' = [owner EXCEPT ![v] = None]
    /\ UNCHANGED left

Leave(b) ==
    /\ \A v \in VMName : owner[v] # b
    /\ left' = left \cup {b}
    /\ UNCHANGED owner

Next ==
    \/ \E v \in VMName, b \in Binding : Claim(v, b)
    \/ \E v \in VMName : Release(v)
    \/ \E b \in Binding : Leave(b)

Spec == Init /\ [][Next]_<<owner, left>>
=============================================================================
