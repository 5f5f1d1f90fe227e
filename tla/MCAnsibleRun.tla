---------------------------- MODULE MCAnsibleRun ----------------------------
(* Instances of AnsibleRun for TLC: runs that share one name, one after the  *)
(* other, or have a name each; every run targets every host.                 *)
EXTENDS AnsibleRun, TLC

CONSTANTS r1, r2, n1, n2, e1, e2, h1

OneName == [r \in Run |-> n1]
OwnNames == [r \in Run |-> IF r = r1 THEN n1 ELSE n2]
AllHosts == [r \in Run |-> Host]

\* AWX instances are interchangeable; nothing chooses one of them.
AnyEndpoint == Permutations({e1, e2})
=============================================================================
