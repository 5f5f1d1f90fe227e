-------------------------- MODULE MCDeprovisionHook --------------------------
(* Small instances of DeprovisionHook: one child, or a child and the one or    *)
(* two that replace it for the VMs that took its VM's name.                   *)
EXTENDS DeprovisionHook, TLC

CONSTANTS c1, c2, c3, v1, v2, v3, e1, e2

OneChild == {c1}
TwoChildren == {c1, c2}
ThreeChildren == {c1, c2, c3}
OneVM == {v1}
TwoVMs == {v1, v2}
ThreeVMs == {v1, v2, v3}
OwnVM == (c1 :> v1) @@ (c2 :> v2)
OwnOfThree == OwnVM @@ (c3 :> v3)
JustV1 == (c1 :> v1)
AllHooks == {"none", "ManagedHost", "Template"}
Managed == {"ManagedHost"}
Template == {"Template"}
TwoInstances == {e1, e2}
OneInstance == {e1}
=============================================================================
