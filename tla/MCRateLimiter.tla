--------------------------- MODULE MCRateLimiter ---------------------------
(* One tenant, two clients; a second has two ticks, so that the time left of *)
(* a window may be a fraction of one.                                        *)
EXTENDS RateLimiter, TLC

MCBurst == [tenant_api |-> 3, client_package |-> 2]

Symmetry == Permutations(Caller) \cup Permutations(Client)
=============================================================================
