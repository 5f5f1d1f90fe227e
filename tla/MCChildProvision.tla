-------------------------- MODULE MCChildProvision --------------------------
(* Small instances of ChildProvision: two requests for one VM. *)
EXTENDS ChildProvision

CONSTANTS e1, e2, a, b

OneInstance == {e1}
TwoInstances == {e1, e2}
Asks(n) == [name |-> n, wide |-> FALSE, retain |-> FALSE]

\* Another name.
Rename == <<Asks(a), Asks(b)>>

\* From the template's own scope to a host of its own, the old one to be kept.
Narrow == <<[Asks(a) EXCEPT !.wide = TRUE], [Asks(b) EXCEPT !.retain = TRUE]>>
=============================================================================
