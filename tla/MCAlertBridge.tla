--------------------------- MODULE MCAlertBridge ---------------------------
(* Three posts for two permits.  The storm group names three pods of two    *)
(* nodes, one of them twice, after a resolved alert; the caps are one pod   *)
(* and one node below it.                                                   *)
EXTENDS AlertBridge

CONSTANTS r1, r2, r3, n1, n2, p1, p2, p3, bad, list, none

MCRequests == {r1, r2, r3}

Alert(f, p, n) == [firing |-> f, pod |-> p, node |-> n]

Storm == << Alert(FALSE, p3, n1), Alert(TRUE, none, n2), Alert(TRUE, p1, n1), Alert(TRUE, p1, n2),
            Alert(TRUE, p2, none), Alert(TRUE, p3, n2), Alert(TRUE, p2, n1) >>
Resolved == << Alert(FALSE, p1, n1) >>

MCPayloads == {bad, list, Storm, Resolved}
MCNodes == {n1, n2}
=============================================================================
