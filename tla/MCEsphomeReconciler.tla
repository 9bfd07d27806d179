------------------------ MODULE MCEsphomeReconciler ------------------------
(* Small instances of EsphomeReconciler.                                   *)
EXTENDS EsphomeReconciler

OneEach == [k \in Mishaps |-> 1]
=============================================================================
