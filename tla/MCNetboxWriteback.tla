-------------------------- MODULE MCNetboxWriteback --------------------------
(* The operator upserts an address with its mask, deletes one by its bare     *)
(* form, renames a VLAN untagged and rehearses an upsert.                     *)
EXTENDS NetboxWriteback, TLC

CONSTANTS a1, a2, a3, v1, n1, n2, bad

Ask(verb, k, mask, n, apply, useTag) ==
    [verb |-> verb, key |-> k, mask |-> mask, name |-> n, apply |-> apply, tag |-> useTag]

MCCalls == {
    Ask("upsert", a1, "net", n1, TRUE, TRUE), Ask("upsert", a1, "any", n2, TRUE, FALSE),
    Ask("delete", a1, "any", NoName, TRUE, TRUE), Ask("upsert", v1, "net", n1, TRUE, FALSE),
    Ask("upsert", a2, "net", n1, FALSE, TRUE)}

World(z1, z2, z3, balanced, h) ==
    [zone |-> (a1 :> z1 @@ a2 :> z2 @@ a3 :> z3), lb |-> balanced, held |-> h]

\* Stale names beside one that NetBox refuses; load balancers without an object.
MCWorlds == {World({n1}, {bad}, {n1}, {}, {a1, a2, a3}),
             World({n2}, {n1}, {}, {a1, a2, a3}, {a2})}

MCAcked == {<<"lb", a2>>}
=============================================================================
