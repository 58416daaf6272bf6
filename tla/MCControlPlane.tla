--------------------------- MODULE MCControlPlane ---------------------------
(* Two tenants, each with its own administrator, compete for one mount. *)
EXTENDS ControlPlane, TLC

CONSTANTS t1, t2, alice, bob

MCManages == alice :> {t1} @@ bob :> {t2}

Symmetry == Permutations(Call) \cup Permutations(Registry) \cup Permutations(Credential)

(* The audit trail is written and never read by these handlers. *)
View == <<registries, credentials, recent, store, calls, reloads>>
=============================================================================
