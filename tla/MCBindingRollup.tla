--------------------------- MODULE MCBindingRollup ---------------------------
(***************************************************************************)
(* Instances of BindingRollup: a binding just created with a failure       *)
(* anywhere, one that is deleted, a settled one asked to run again, one    *)
(* whose selection changes, and one with two children refused, any two.    *)
(***************************************************************************)
EXTENDS BindingRollup

New == [first |-> {1}, taken |-> {}, broken |-> {}, settled |-> FALSE, edits |-> 0,
        faults |-> 0, kinds |-> {}]
Old == [New EXCEPT !.settled = TRUE, !.edits = 1]

Faulty == [New EXCEPT !.faults = 1, !.kinds = {"run"}]
Deleted == [New EXCEPT !.faults = 1, !.edits = 1, !.kinds = {"delete"}]
Rerun == [Old EXCEPT !.first = {1, 2}, !.kinds = {"run", "spec"}]
Failing == [Old EXCEPT !.kinds = {"run", "spec", "fail"}]
Relabelled == [Old EXCEPT !.taken = {2}, !.kinds = {"label"}]
Refused(b) == [New EXCEPT !.first = VM, !.broken = b]

Plan == {Faulty, Deleted, Rerun, Failing, Relabelled} \cup
        {Refused(b) : b \in {b \in SUBSET VM : Cardinality(b) = 2}}

\* The spec changes while the first run is on its way.
Edited == {[New EXCEPT !.edits = 1, !.kinds = {"run", "spec"}]}
=============================================================================
