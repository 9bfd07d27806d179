-------------------------- MODULE MCAgentCallback --------------------------
(* Small instances of AgentCallback: two clicks; a token that expires while *)
(* the clock runs, one without a jti and one with a bad signature.          *)
EXTENDS AgentCallback

CONSTANTS c1, c2, approve, nojti, forged

MCRequests == {c1, c2}

MCTokens == {approve, nojti, forged}
MCGenuine == {approve, nojti}
MCHasJti == {approve, forged}
MCExp == [t \in MCTokens |-> 1]
=============================================================================
