-------------------------- MODULE MCMedikeepIngest --------------------------
(* The sheets start with one row each in the first of two year tabs; a        *)
(* reading, of the same key or another, and two dose rows over three dates    *)
(* follow.                                                                    *)
EXTENDS MedikeepIngest

CONSTANTS k1, k2, blank

MCKeys == {k1, k2}
MCYear == <<1, 1, 2>>
MCAmounts == {100, 200}
MCFirstReadings == <<<<k1>>, <<>>>>
MCFirstDoses == <<<<[date |-> 1, mg |-> 100]>>, <<>>>>
=============================================================================
