--------------------------- MODULE MCDoerPipeline ---------------------------
(* A retention two proposals would raise, a limit that fits the node and not *)
(* the headroom and one that fits neither, a schedule the repository does    *)
(* not have, and an action the allowlist refuses.  People edit the retention *)
(* up or down once.                                                          *)
EXTENDS DoerPipeline

Change(a, t, v, w) == [action |-> a, target |-> t, value |-> v, wellFormed |-> w]

MCProposals == {
    Change("set_retain", "job", 2, TRUE), Change("set_retain", "job", 3, TRUE),
    Change("set_limit", "app", 2, TRUE), Change("set_limit", "app", 3, TRUE),
    Change("set_cron", "gone", 2, TRUE), Change("scale", "app", 1, TRUE),
    Change("set_retain", "job", 1, FALSE)}

MCTargets == {"job", "app", "gone"}
MCStarts == {[t \in MCTargets |-> 1]}
=============================================================================
