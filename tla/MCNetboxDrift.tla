--------------------------- MODULE MCNetboxDrift ---------------------------
(* Small instances of NetboxDrift.                                         *)
EXTENDS NetboxDrift

AckDrift == {<<"omada", 1>>}
=============================================================================
