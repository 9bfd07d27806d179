--------------------------- MODULE MCRagPipeline ---------------------------
(* Small instances of RagPipeline.                                         *)
EXTENDS RagPipeline

Two == {1, 2}

\* An indexed archive that has one document yet to come, and one that lost its
\* first.
FirstOfTwo == [d \in Two |-> IF d = 1 THEN 1 ELSE 0]
LastOfTwo == [d \in Two |-> IF d = 1 THEN 0 ELSE d]
=============================================================================
