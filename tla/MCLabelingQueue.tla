-------------------------- MODULE MCLabelingQueue --------------------------
(***************************************************************************)
(* Instances of LabelingQueue for TLC.                                     *)
(***************************************************************************)
EXTENDS LabelingQueue

TwoItems == <<"i1", "i2">>
=============================================================================
