----------------------------- MODULE Overrides -----------------------------
(***************************************************************************)
(* The overrides table: requested, approved and denied through the control *)
(* plane API (services/aegiscudo-api/src/lib.rs), read and expired by the  *)
(* Triage Counter on every evaluation.                                     *)
(***************************************************************************)

CONSTANTS Version,      \* versions of the one package that is modelled
          NoVersion,    \* NULL: a coordinate or a scope without a version
          Override,     \* ids of overrides rows that may ever be inserted
          Environment   \* what may happen around the Triage Counter

AllEvents == {"override", "bypass", "observe", "advisory", "rebind",
              "analysis", "restart"}

ASSUME NoVersionAssumption == NoVersion \notin Version
ASSUME EnvironmentAssumption == Environment \subseteq AllEvents

VARIABLE overrides  \* the rows; due stands for expires_at <= now()

Coordinate == Version \cup {NoVersion}

Effect == {"allow", "emergency-bypass"}

NoOverride == [status |-> "none", effect |-> "allow", scope |-> NoVersion,
               due |-> FALSE]

OverrideRow ==
    [status: {"none", "pending", "approved", "denied", "expired"},
     effect: Effect,
     scope: Coordinate,
     due: BOOLEAN]

OverridesInit == overrides = [o \in Override |-> NoOverride]

Live(r) == r.status \in {"pending", "approved"}

\* expire_overrides, and the UPDATE at the head of load_override_signal_status.
Swept ==
    [o \in Override |->
        IF Live(overrides[o]) /\ overrides[o].due
        THEN [overrides[o] EXCEPT !.status = "expired"]
        ELSE overrides[o]]

-----------------------------------------------------------------------------

\* create_override: the expiry lies in the future (validate_override_expiry),
\* and the scope may name either effect (validate_override_scope).
CreateOverride(o, scope, effect) ==
    /\ "override" \in Environment
    /\ overrides[o].status = "none"
    /\ overrides' = [Swept EXCEPT ![o] = [status |-> "pending",
                                          effect |-> effect,
                                          scope |-> scope, due |-> FALSE]]

\* create_emergency_bypass: approved by the manager who asks for it.
CreateEmergencyBypass(o, scope) ==
    /\ "bypass" \in Environment
    /\ overrides[o].status = "none"
    /\ overrides' = [Swept EXCEPT ![o] = [status |-> "approved",
                                          effect |-> "emergency-bypass",
                                          scope |-> scope, due |-> FALSE]]

\* approve_override: WHERE status = 'pending' AND expires_at > now().
ApproveOverride(o) ==
    /\ overrides[o].status = "pending"
    /\ ~overrides[o].due
    /\ overrides' = [Swept EXCEPT ![o].status = "approved"]

\* deny_override: WHERE status = 'pending', after the sweep.
DenyOverride(o) ==
    /\ Swept[o].status = "pending"
    /\ overrides' = [Swept EXCEPT ![o].status = "denied"]

\* A call that is refused after expire_overrides: an expiry in the past, a
\* row that is not pending any more (NotFound).
RefusedOverrideCall ==
    /\ Swept # overrides
    /\ overrides' = Swept

\* The clock reaches expires_at.
OverrideFallsDue(o) ==
    /\ Live(overrides[o])
    /\ ~overrides[o].due
    /\ overrides' = [overrides EXCEPT ![o].due = TRUE]

OverridesNext ==
    \E o \in Override :
        \/ \E scope \in Coordinate, effect \in Effect : CreateOverride(o, scope, effect)
        \/ \E scope \in Coordinate : CreateEmergencyBypass(o, scope)
        \/ ApproveOverride(o)
        \/ DenyOverride(o)
        \/ OverrideFallsDue(o)
        \/ RefusedOverrideCall

-----------------------------------------------------------------------------

\* override_scope_matches: an absent key of the scope matches everything.
InScope(o, version) == overrides[o].scope \in {NoVersion, version}

\* override_signal_status_from_records, over the rows that are live and not due.
OverrideSignals(version) ==
    LET rows == {overrides[o] : o \in {x \in Override :
                     /\ Live(overrides[x]) /\ ~overrides[x].due
                     /\ InScope(x, version)}}
        Signalled(r) == IF r.status = "pending" THEN "hitl_required"
                        ELSE IF r.effect = "emergency-bypass"
                        THEN "emergency_bypass" ELSE "active_override"
    IN {Signalled(r) : r \in rows}

\* No override is in force any more, and none may come.
OverridesOver ==
    \A o \in Override :
        \/ overrides[o].status \in {"denied", "expired"}
        \/ Live(overrides[o]) /\ overrides[o].due

=============================================================================
