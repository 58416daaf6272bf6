------------------------------ MODULE OpenVex -------------------------------
(***************************************************************************)
(* OpenVEX documents: imported through the control plane, normalised into  *)
(* one row for each statement and product, and read by the Triage Counter, *)
(* where an active statement lifts the vulnerability it speaks of.         *)
(*                                                                         *)
(* An Option is the set of its values.  A point of time is a number.       *)
(***************************************************************************)
EXTENDS Sampling, Integers, Sequences, FiniteSets, SequencesExt

-----------------------------------------------------------------------------
(* Import.                                                                 *)

ValidateOpenVexExpiryPolicy(policy) ==
    IF policy.mode = "never" THEN policy.expires_at = {} ELSE policy.expires_at # {}

OpenVexStatuses == {"affected", "fixed", "not_affected", "under_investigation"}

(* Stands for the five justifications of the specification.                *)
Justifications == {"component_not_present", "vulnerable_code_not_present"}

ValidateOpenVexStatementRequirements(s) ==
    /\ s.status = "not_affected" => s.justification # {} \/ s.impact # {}
    /\ s.status = "affected" => s.action # {}

(* A text that is present must not be blank.                               *)
NonEmptyText(option) == "" \notin option

ValidStatement(s) ==
    /\ s.vulnerability # "" /\ s.status \in OpenVexStatuses
    /\ s.products # <<>> /\ "" \notin Range(s.products)
    /\ s.justification \subseteq Justifications
    /\ NonEmptyText(s.impact) /\ NonEmptyText(s.action)
    /\ ValidateOpenVexStatementRequirements(s)
    /\ IsInjective(s.products)

(* The rows of a valid request: one for each product of each statement.    *)
ValidateOpenVexRequest(request) ==
    IF /\ request.source # "" /\ ValidateOpenVexExpiryPolicy(request.policy)
       /\ request.document.id # "" /\ request.document.author # "" /\ request.document.version > 0
       /\ request.document.statements # <<>>
       /\ \A s \in Range(request.document.statements) : ValidStatement(s)
    THEN {UNION {{[index |-> i, vulnerability |-> request.document.statements[i].vulnerability,
                   status |-> request.document.statements[i].status, product |-> p] :
                    p \in Range(request.document.statements[i].products)} :
                      i \in DOMAIN request.document.statements}}
    ELSE {}

(* A role is one of a tenant, and an actor has any number of them.         *)
RoleCanManageControlPlane(role) ==
    role.name \in {"admin", "security-admin", "security-specialist", "platform-admin"}

(* Only who manages the tenant may import; the document, its statements    *)
(* and the audit event are one transaction.  The documents of an earlier   *)
(* import stay, whatever their id and version.                             *)
CreateOpenVexDocument(store, actor, request) ==
    IF ~\E role \in actor : role.tenant = request.tenant /\ RoleCanManageControlPlane(role) THEN store
    ELSE store \cup UNION {{[tenant |-> request.tenant, document |-> request.document.id,
                             mode |-> request.policy.mode, expires_at |-> request.policy.expires_at,
                             vulnerability |-> r.vulnerability, status |-> r.status, product |-> r.product] :
                               r \in rows} : rows \in ValidateOpenVexRequest(request)}

(* aedo vex import: a document without --expires-at never expires.         *)
CliOpenVexImport(tenant, source, document, expiresAt) ==
    [tenant |-> tenant, source |-> source, document |-> document,
     policy |-> [mode |-> IF expiresAt = {} THEN "never" ELSE "expires_at", expires_at |-> expiresAt]]

-----------------------------------------------------------------------------
(* Suppression.                                                            *)

SeverityRank == [low |-> 1, medium |-> 2, high |-> 3, critical |-> 4]

VulnerabilityMatchExceedsThreshold(m, threshold) ==
    \/ threshold.kev_override /\ m.kev
    \/ \E floor \in threshold.epss_floor, epss \in m.epss : epss >= floor
    \/ \E severity \in m.severity : SeverityRank[severity] >= SeverityRank[threshold.severity_floor]

Lifts(status) == status \in {"fixed", "not_affected"}

(* A plausible slip: a document keeps lifting after it has expired.        *)
ActiveWhateverExpiry(store, tenant, product, now) ==
    {s \in store : s.tenant = tenant /\ s.product = product}

ActiveOpenVex(store, tenant, product, now) ==
    {s \in store : /\ s.tenant = tenant /\ s.product = product
                   /\ s.mode = "never" \/ \E t \in s.expires_at : t > now}

(* The matches of the requested artifact, each under the statements that   *)
(* are active for it.                                                      *)
VulnerabilitySignalStatus(matches, active, threshold) ==
    LET About(m) == {s \in active : s.vulnerability = m.advisory}
        suppressed == {m \in matches : \E s \in About(m) : Lifts(s.status)}
        others == matches \ suppressed
    IN  [vulnerable_above_threshold |-> \E m \in others : VulnerabilityMatchExceedsThreshold(m, threshold),
         under_investigation |-> \E m \in others : \E s \in About(m) : s.status = "under_investigation",
         evidence_references |-> UNION {{s.document : s \in {t \in About(m) : Lifts(t.status)}} : m \in suppressed}]

(* The columns of audit_events, and those that are NOT NULL and have no    *)
(* default.                                                                *)
AuditEventColumns == {"id", "tenant_id", "actor", "action", "resource", "trace_id", "metadata", "occurred_at"}

RequiredColumns == {"tenant_id", "actor", "action", "resource", "trace_id"}

(* The columns the INSERT of vulnerability.suppressed_by_openvex names.    *)
SuppressionAudit == {"tenant_id", "actor", "action", "payload", "trace_id"}

(* Decision and audit event are one transaction; there is an event to      *)
(* write if the decision rests on a statement.                             *)
PersistEvaluatedDecision(status) ==
    \/ status.evidence_references = {}
    \/ SuppressionAudit \subseteq AuditEventColumns /\ RequiredColumns \subseteq SuppressionAudit

-----------------------------------------------------------------------------
(* Bounded inputs: two imports, valid and not, and an artifact with up to  *)
(* two matches that is asked for before or after a document expires.       *)

Statement(vulnerability, status, products, justification, action) ==
    [vulnerability |-> vulnerability, status |-> status, products |-> products,
     justification |-> justification, impact |-> {}, action |-> action]

Statements ==
    {Statement(v, s, p, j, a) : v \in {"cve-1"}, s \in OpenVexStatuses \cup {"unknown"},
        p \in {<<"pkg">>, <<"pkg", "pkg">>, <<"other">>},
        j \in {{}, {"component_not_present"}, {"because"}}, a \in {{}, {"upgrade"}}}

VexImports ==
    {[actor |-> actor,
      request |-> CliOpenVexImport(t, "src", [id |-> id, author |-> "me", version |-> 1, statements |-> <<s>>], e)] :
        actor \in {{[tenant |-> "t1", name |-> "admin"]}}, t \in {"t1", "t2"}, id \in {"doc"}, s \in Statements, e \in {{}, {1}}}

SecondImports ==
    {[actor |-> actor,
      request |-> CliOpenVexImport("t1", source, [id |-> id, author |-> "me", version |-> v,
                      statements |-> <<Statement("cve-2", "fixed", <<"pkg">>, {}, {}),
                                       Statement("cve-1", "affected", <<"pkg">>, {}, {"upgrade"})>>], {})] :
        actor \in {{[tenant |-> "t1", name |-> "security-admin"]},
                   {[tenant |-> "t1", name |-> "developer"], [tenant |-> "t2", name |-> "admin"]}},
        id \in {"doc-2"}, v \in {0, 1}, source \in {"src", ""}}

Match(advisory, severity, kev) == [advisory |-> advisory, severity |-> severity, kev |-> kev, epss |-> {}]

VexInputs ==
    {[first |-> f, second |-> s, matches |-> ms, now |-> now] :
        f \in VexImports, s \in SecondImports, now \in {0, 1},
        ms \in {{Match("cve-1", {"high"}, FALSE)}, {Match("cve-1", {}, TRUE), Match("cve-2", {"critical"}, FALSE)},
                {Match("cve-1", {"low"}, FALSE), Match("cve-2", {"medium"}, FALSE)}}}

(* The statements that were really made of a tenant: by who manages it, in *)
(* a document that says what it needs to.                                  *)
Made(import, tenant) ==
    IF \/ [tenant |-> "t1", name |-> "developer"] \in import.actor \/ import.request.tenant # tenant
       \/ import.request.source = "" \/ import.request.document.version = 0 THEN {}
    ELSE {s \in Range(import.request.document.statements) :
            /\ \/ s.status \in {"fixed", "under_investigation"}
               \/ s.status = "not_affected" /\ s.justification # {}
               \/ s.status = "affected" /\ s.action # {}
            /\ s.justification # {"because"} /\ s.products # <<"pkg", "pkg">>}

(* A vulnerability is lifted only by a statement of the package's own      *)
(* tenant, made by who manages it in a document that has not expired:      *)
(* such a statement lifts that vulnerability of that product and no other, *)
(* what is not lifted is held against the threshold as if there were no    *)
(* document, and the decision's evidence names exactly the documents that  *)
(* lifted something.  But no such decision is ever recorded: the INSERT of *)
(* its audit event does not fit the table, the transaction is rolled back  *)
(* and the evaluation fails; exactly where nothing is lifted it succeeds.  *)
LiftedByStatement ==
    Drawn("vex") =>
        LET x == sample.in
            threshold == [kev_override |-> TRUE, epss_floor |-> {}, severity_floor |-> "high"]
            store == CreateOpenVexDocument(CreateOpenVexDocument({}, x.first.actor, x.first.request),
                                           x.second.actor, x.second.request)
            status == VulnerabilitySignalStatus(x.matches, ActiveOpenVex(store, "t1", "pkg", x.now), threshold)
            imports == {i \in {x.first, x.second} : \A t \in i.request.policy.expires_at : t > x.now}
            Lifting(m) == {i \in imports : \E s \in Made(i, "t1") :
                              /\ s.vulnerability = m.advisory /\ s.products = <<"pkg">>
                              /\ s.status \in {"fixed", "not_affected"}}
        IN  /\ status.vulnerable_above_threshold
                 = \E m \in x.matches : Lifting(m) = {} /\ (m.kev \/ m.severity \cap {"high", "critical"} # {})
            /\ status.evidence_references
                 = {i.request.document.id : i \in UNION {Lifting(m) : m \in x.matches}}
            /\ status.under_investigation => \E m \in x.matches : Lifting(m) = {}
            /\ PersistEvaluatedDecision(status) <=> \A m \in x.matches : Lifting(m) = {}
=============================================================================
