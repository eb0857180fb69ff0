-------------------------------- MODULE MCSplit --------------------------------
(* The split of a case on two-page files of one document type.             *)
EXTENDS Split

Whole(label) == {[from |-> 1, to |-> 2, label |-> label]}
Halves(a, b) == {[from |-> 1, to |-> 1, label |-> a], [from |-> 2, to |-> 2, label |-> b]}

MCLayout == {{}, {[from |-> 1, to |-> 1, label |-> "contract"]}}
MCReview == {Whole("contract"), Halves("contract", Other)}
==============================================================================
