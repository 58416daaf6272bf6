---------------------------- MODULE ControlPlane ----------------------------
(* The registry configuration and credential endpoints of the control plane *)
(* API, the tables they write and the proxy that loads them.  A handler is a *)
(* sequence of SQL statements on a connection pool, without a transaction:   *)
(* the steps of two handlers interleave between statements, and the answer   *)
(* comes after an audit statement and a synchronous reload of the proxy,     *)
(* either of which may fail when the change is already committed.            *)
EXTENDS Naturals, FiniteSets

CONSTANTS
    Tenant, Actor, Registry, Credential, Mount, Name,
    Call,            \* the requests made to the API, each handled once
    Manages,         \* the tenants in which an actor has a managing role
    Faults,          \* subset of {"audit", "notify", "restart"}
    MaxSeeded,       \* bound on the registries that exist at the start
    None

ASSUME ManagesAssumption == Manages \in [Actor -> SUBSET Tenant]

VARIABLES
    registries,      \* registry_configs, by id
    credentials,     \* integration_credentials, by id
    recent,          \* registries with a package request in the last minute
    audit,           \* audit_events, without their text
    store,           \* the configurations the proxy serves
    calls,           \* the handlers in progress
    reloads          \* the reload handlers of the proxy, by the call that started it

vars == <<registries, credentials, recent, audit, store, calls, reloads>>

-----------------------------------------------------------------------------
(* Rows and requests.  An upstream is known by its scheme; "padded" is an    *)
(* https address in white space that str::trim takes away and the URL parser *)
(* does not.  Names, descriptions, lifetimes and profiles have no further    *)
(* effect on these handlers.                                                 *)
Url == {"http", "https", "padded"}

Settings == [url: Url, auth: {"none", "basic"},
             credential: Credential \cup {None}, enabled: BOOLEAN]

Patch == [url: Url \cup {None}, auth: {"none", "basic", None},
          credential: Credential \cup {None, "null"}, enabled: BOOLEAN \cup {None}]

Row == [tenant: Tenant, mount: Mount, adapter: {"npm", "cargo"}, deleted: BOOLEAN,
        set: Settings]

ASSUME NoneAssumption == None \notin Row

Idle == [pc |-> "idle"]

NoReload == [pc |-> "idle", configs |-> {}]

Used(table) == {id \in DOMAIN table : table[id] # None}

Trimmed(url) == IF url = "padded" THEN "https" ELSE url

CredentialFits(s) == (s.auth = "none") <=> (s.credential = None)

(* What the API asks of settings: validate_upstream_url parses the trimmed   *)
(* address.                                                                  *)
ApiAccepts(s) ==
    /\ s.auth # "none" => Trimmed(s.url) = "https"
    /\ CredentialFits(s)

(* What the proxy asks of them: its validate_upstream_url parses the address *)
(* as it is stored.                                                          *)
ProxyAccepts(s) ==
    /\ s.url # "padded"
    /\ s.auth # "none" => s.url = "https"
    /\ CredentialFits(s)

(* Only the adapters of the first phase can be created or changed. *)
PhaseSupported(adapter) == adapter = "npm"

(* merge_registry_update: a field the request leaves out keeps its value.    *)
(* The request can set the credential to null.                               *)
Merge(s, p) ==
    [url |-> IF p.url = None THEN s.url ELSE p.url,
     auth |-> IF p.auth = None THEN s.auth ELSE p.auth,
     credential |-> CASE p.credential = None -> s.credential
                      [] p.credential = "null" -> None
                      [] OTHER -> p.credential,
     enabled |-> IF p.enabled = None THEN s.enabled ELSE p.enabled]

(* A plausible slip: the unique index of the mount lists the tenant too. *)
MountFreeInTenant(rows, t, m) ==
    \A g \in Used(rows) : ~(rows[g].mount = m /\ rows[g].tenant = t)

(* The constraints of registry_configs: a mount belongs to one row that is   *)
(* not deleted and, within a tenant, to one row even if it is deleted; a     *)
(* credential belongs to the tenant of the row.                              *)
MountFree(rows, t, m) ==
    \A g \in Used(rows) :
        rows[g].mount = m => rows[g].deleted /\ rows[g].tenant # t

ReferenceExists(t, s) ==
    s.credential # None =>
        credentials[s.credential] # None /\ credentials[s.credential].tenant = t

(* WHERE tenant_id = $1 AND id = $2 AND deleted_at IS NULL *)
Selects(t, g) ==
    /\ registries[g] # None
    /\ registries[g].tenant = t
    /\ ~registries[g].deleted

-----------------------------------------------------------------------------
(* The proxy: what the SELECT of load_enabled_configs returns and what       *)
(* validate_and_sort_configs asks of it.                                     *)
EnabledConfigs ==
    {[id |-> g, tenant |-> registries[g].tenant, mount |-> registries[g].mount,
      set |-> registries[g].set] :
        g \in {h \in Used(registries) : registries[h].set.enabled /\ ~registries[h].deleted}}

Loadable(configs) ==
    /\ \A c \in configs : ProxyAccepts(c.set)
    /\ \A c, d \in configs : c.mount = d.mount => c.id = d.id

-----------------------------------------------------------------------------
(* A plausible slip: a handler without the check. *)
StartsUnchecked(c, a, t) == calls[c] = Idle

(* Every handler first asks for an actor with a managing role in the tenant  *)
(* of the path.  A request that is refused changes nothing.                  *)
Starts(c, a, t) == calls[c] = Idle /\ t \in Manages[a]

Continue(c, kind, a, t, step, resource, more) ==
    calls' = [calls EXCEPT ![c] =
        [pc |-> step, kind |-> kind, actor |-> a, tenant |-> t, resource |-> resource,
         arg |-> more]]

Answer(c, status) ==
    calls' = [calls EXCEPT ![c] = [pc |-> status, kind |-> @.kind, actor |-> @.actor,
                                   tenant |-> @.tenant, resource |-> @.resource, arg |-> None]]

Refuse(c) ==
    /\ calls[c] = Idle
    /\ \E kind \in {"registry", "credential"}, a \in Actor, t \in Tenant :
        /\ t \notin Manages[a]
        /\ Continue(c, kind, a, t, "error", None, None)
    /\ UNCHANGED <<registries, credentials, recent, audit, store, reloads>>

(* create_registry_config: one INSERT of the trimmed address, a violated     *)
(* constraint is a conflict.                                                 *)
CreateRegistry(c) ==
    \E a \in Actor, t \in Tenant, g \in Registry, m \in Mount, s \in Settings :
        /\ Starts(c, a, t)
        /\ ApiAccepts(s)
        /\ registries[g] = None
        /\ IF MountFree(registries, t, m) /\ ReferenceExists(t, s)
           THEN /\ registries' = [registries EXCEPT ![g] =
                     [tenant |-> t, mount |-> m, adapter |-> "npm", deleted |-> FALSE,
                      set |-> [s EXCEPT !.url = Trimmed(@)]]]
                /\ Continue(c, "registry", a, t, "audit", g, None)
           ELSE /\ Continue(c, "registry", a, t, "error", g, None)
                /\ UNCHANGED registries
        /\ UNCHANGED <<credentials, recent, audit, store, reloads>>

(* update_registry_config: the row is read, the patch applied to what was    *)
(* read, and every column written back by a second statement, the address as *)
(* the request has it.                                                       *)
SelectRegistry(c) ==
    \E a \in Actor, t \in Tenant, g \in Registry, p \in Patch :
        /\ Starts(c, a, t)
        /\ Selects(t, g)
        /\ LET merged == Merge(registries[g].set, p)
           IN IF PhaseSupported(registries[g].adapter) /\ ApiAccepts(merged)
              THEN Continue(c, "registry", a, t, "update", g, merged)
              ELSE Continue(c, "registry", a, t, "error", g, None)
        /\ UNCHANGED <<registries, credentials, recent, audit, store, reloads>>

UpdateRegistry(c) ==
    /\ calls[c].pc = "update"
    /\ LET call == calls[c]
       IN IF Selects(call.tenant, call.resource) /\ ReferenceExists(call.tenant, call.arg)
          THEN /\ registries' = [registries EXCEPT ![call.resource].set = call.arg]
               /\ Continue(c, "registry", call.actor, call.tenant, "audit", call.resource, None)
          ELSE /\ Answer(c, "error")
               /\ UNCHANGED registries
    /\ UNCHANGED <<credentials, recent, audit, store, reloads>>

(* delete_registry_config: a registry that was used in the last minute is    *)
(* kept; the deletion itself is a mark on the row.                           *)
CheckRequests(c) ==
    \E a \in Actor, t \in Tenant, g \in Registry :
        /\ Starts(c, a, t)
        /\ LET used == g \in recent /\ registries[g].tenant = t
           IN Continue(c, "registry", a, t, IF used THEN "error" ELSE "delete", g, None)
        /\ UNCHANGED <<registries, credentials, recent, audit, store, reloads>>

DeleteRegistry(c) ==
    /\ calls[c].pc = "delete"
    /\ LET call == calls[c]
       IN IF Selects(call.tenant, call.resource)
          THEN /\ registries' = [registries EXCEPT ![call.resource].deleted = TRUE,
                                                   ![call.resource].set.enabled = FALSE]
               /\ Continue(c, "registry", call.actor, call.tenant, "audit", call.resource, None)
          ELSE /\ Answer(c, "error")
               /\ UNCHANGED registries
    /\ UNCHANGED <<credentials, recent, audit, store, reloads>>

(* create_credential: its name is unique in the tenant. *)
CreateCredential(c) ==
    \E a \in Actor, t \in Tenant, k \in Credential, n \in Name :
        /\ Starts(c, a, t)
        /\ credentials[k] = None
        /\ IF \A j \in Used(credentials) :
                ~(credentials[j].tenant = t /\ credentials[j].name = n)
           THEN /\ credentials' = [credentials EXCEPT ![k] = [tenant |-> t, name |-> n]]
                /\ Continue(c, "credential", a, t, "audit", k, None)
           ELSE /\ Continue(c, "credential", a, t, "error", k, None)
                /\ UNCHANGED credentials
        /\ UNCHANGED <<registries, recent, audit, store, reloads>>

(* rotate_credential replaces the secret and leaves the row where it is. *)
RotateCredential(c) ==
    \E a \in Actor, t \in Tenant, k \in Credential :
        /\ Starts(c, a, t)
        /\ LET found == credentials[k] # None /\ credentials[k].tenant = t
           IN Continue(c, "credential", a, t, IF found THEN "audit" ELSE "error", k, None)
        /\ UNCHANGED <<registries, credentials, recent, audit, store, reloads>>

(* delete_credential: the count asks only for rows that are not deleted, the *)
(* foreign key forbids the deletion while any row refers to the credential.  *)
CheckReferences(c) ==
    \E a \in Actor, t \in Tenant, k \in Credential :
        /\ Starts(c, a, t)
        /\ LET referred == \E g \in Registry : Selects(t, g) /\ registries[g].set.credential = k
           IN Continue(c, "credential", a, t, IF referred THEN "error" ELSE "drop", k, None)
        /\ UNCHANGED <<registries, credentials, recent, audit, store, reloads>>

(* A plausible slip: the table has no foreign key to the credentials. *)
ReferencedByNone(k) == FALSE

Referenced(k) == \E g \in Used(registries) : registries[g].set.credential = k

DeleteCredential(c) ==
    /\ calls[c].pc = "drop"
    /\ LET k == calls[c].resource
           t == calls[c].tenant
       IN IF credentials[k] # None /\ credentials[k].tenant = t /\ ~Referenced(k)
          THEN /\ credentials' = [credentials EXCEPT ![k] = None]
               /\ Continue(c, "credential", calls[c].actor, t, "audit", k, None)
          ELSE /\ Answer(c, "error")
               /\ UNCHANGED credentials
    /\ UNCHANGED <<registries, recent, audit, store, reloads>>

(* The change is committed when its audit event is written.  A credential    *)
(* handler then answers; a registry handler asks the proxy to reload.        *)
Audit(c) ==
    /\ calls[c].pc = "audit"
    /\ \/ /\ audit' = audit \cup {[actor |-> calls[c].actor, tenant |-> calls[c].tenant,
                              resource |-> calls[c].resource]}
          /\ calls' = [calls EXCEPT ![c].pc = IF calls[c].kind = "registry"
                                              THEN "notify" ELSE "ok"]
       \/ /\ "audit" \in Faults
          /\ Answer(c, "error")
          /\ UNCHANGED audit
    /\ UNCHANGED <<registries, credentials, recent, store, reloads>>

(* notify_reload posts to the proxy and waits for the answer, or for the     *)
(* time limit, after which the proxy may still be at it.                     *)
NotifyReload(c) ==
    /\ calls[c].pc = "notify"
    /\ \/ /\ calls' = [calls EXCEPT ![c].pc = "wait"]
          /\ reloads' = [reloads EXCEPT ![c].pc = "select"]
       \/ /\ "notify" \in Faults
          /\ Answer(c, "error")
          /\ UNCHANGED reloads
    /\ UNCHANGED <<registries, credentials, recent, audit, store>>

TimeOut(c) ==
    /\ "notify" \in Faults
    /\ calls[c].pc = "wait"
    /\ Answer(c, "error")
    /\ UNCHANGED <<registries, credentials, recent, audit, store, reloads>>

(* reload_registry_configs: the SELECT, then the replacement of the store    *)
(* under its lock if the set is valid.                                       *)
ReloadSelect(c) ==
    /\ reloads[c].pc = "select"
    /\ reloads' = [reloads EXCEPT ![c] = [pc |-> "replace", configs |-> EnabledConfigs]]
    /\ UNCHANGED <<registries, credentials, recent, audit, store, calls>>

ReloadReplace(c) ==
    /\ reloads[c].pc = "replace"
    /\ LET valid == Loadable(reloads[c].configs)
       IN /\ store' = IF valid THEN reloads[c].configs ELSE store
          /\ calls' = [calls EXCEPT ![c].pc =
                          IF @ # "wait" THEN @ ELSE IF valid THEN "ok" ELSE "error"]
    /\ reloads' = [reloads EXCEPT ![c] = NoReload]
    /\ UNCHANGED <<registries, credentials, recent, audit>>

(* The proxy starts with the enabled configurations or not at all. *)
ProxyRestart ==
    /\ "restart" \in Faults
    /\ Loadable(EnabledConfigs)
    /\ store' = EnabledConfigs
    /\ reloads' = [c \in Call |-> NoReload]
    /\ calls' = [c \in Call |-> IF calls[c].pc = "wait" THEN [calls[c] EXCEPT !.pc = "error"]
                                ELSE calls[c]]
    /\ UNCHANGED <<registries, credentials, recent, audit>>

(* Package requests come and age; one is recorded for a served registry. *)
Requested ==
    /\ \/ \E config \in store : recent' = recent \cup {config.id}
       \/ \E g \in recent : recent' = recent \ {g}
    /\ UNCHANGED <<registries, credentials, audit, store, calls, reloads>>

Next ==
    \/ \E c \in Call :
        \/ Refuse(c) \/ CreateRegistry(c) \/ SelectRegistry(c) \/ UpdateRegistry(c)
        \/ CheckRequests(c) \/ DeleteRegistry(c)
        \/ CreateCredential(c) \/ RotateCredential(c) \/ CheckReferences(c) \/ DeleteCredential(c)
        \/ Audit(c) \/ NotifyReload(c) \/ TimeOut(c) \/ ReloadSelect(c) \/ ReloadReplace(c)
    \/ ProxyRestart
    \/ Requested

(* A database earlier calls can have left behind and the proxy has loaded. *)
Seeded(rows, keys) ==
    /\ Cardinality(Used(rows)) <= MaxSeeded
    /\ \A g \in Used(rows) :
        LET row == rows[g]
        IN /\ ProxyAccepts(row.set)
           /\ row.set.credential # None =>
                keys[row.set.credential] # None /\ keys[row.set.credential].tenant = row.tenant
           /\ row.deleted => ~row.set.enabled
           /\ \A h \in Used(rows) \ {g} :
                rows[h].mount = row.mount =>
                    (row.deleted \/ rows[h].deleted) /\ rows[h].tenant # row.tenant
    /\ \A k, j \in Used(keys) : keys[k] = keys[j] => k = j

Init ==
    /\ registries \in [Registry -> Row \cup {None}]
    /\ credentials \in [Credential -> [tenant: Tenant, name: Name] \cup {None}]
    /\ Seeded(registries, credentials)
    /\ recent = {}
    /\ audit = {}
    /\ store = EnabledConfigs
    /\ calls = [c \in Call |-> Idle]
    /\ reloads = [c \in Call |-> NoReload]

Spec == Init /\ [][Next]_vars

-----------------------------------------------------------------------------
(* Properties *)

(* Rows, configurations of the proxy and the steps of the handlers have the  *)
(* types the code declares.                                                  *)
TypeOK ==
    /\ registries \in [Registry -> Row \cup {None}]
    /\ credentials \in [Credential -> [tenant: Tenant, name: Name] \cup {None}]
    /\ recent \subseteq Registry
    /\ audit \subseteq [actor: Actor, tenant: Tenant, resource: Registry \cup Credential]
    /\ store \subseteq [id: Registry, tenant: Tenant, mount: Mount, set: Settings]
    /\ \A c \in Call : calls[c].pc \in {"idle", "update", "delete", "drop", "audit", "notify",
                                        "wait", "ok", "error"}
    /\ \A c \in Call : /\ reloads[c].pc \in {"idle", "select", "replace"}
                       /\ reloads[c].configs \subseteq
                            [id: Registry, tenant: Tenant, mount: Mount, set: Settings]

(* No address has been stored untrimmed. *)
Tidy(configs) == \A d \in configs : d.set.url = Trimmed(d.set.url)

(* The configurations are those of rows that are still there, with the same  *)
(* tenant and mount; no two of them claim a mount; and only an untrimmed     *)
(* address can fail validate_and_sort_configs.                               *)
Serveable(configs) ==
    /\ \A d \in configs : /\ registries[d.id] # None
                          /\ registries[d.id].tenant = d.tenant
                          /\ registries[d.id].mount = d.mount
    /\ \A c, d \in configs : c.mount = d.mount => c.id = d.id
    /\ Tidy(configs) => Loadable(configs)

(* Whatever the handlers of all tenants commit, and in whatever order        *)
(* concurrent reloads select the rows and replace the store: what the proxy  *)
(* serves, however old, is a set it accepts, with one registry per mount,    *)
(* each under the tenant whose row it is; and what a reload finds is such a  *)
(* set but for addresses that an update has stored untrimmed.  Nothing else  *)
(* a tenant commits makes the reload fail for all of them.                   *)
ProxyServesRows ==
    /\ Serveable(store) /\ Loadable(store)
    /\ Serveable(EnabledConfigs)
    /\ \A c \in Call : Serveable(reloads[c].configs)

(* A row refers to a credential that exists and belongs to its tenant, even  *)
(* when delete_credential has counted the references before another handler  *)
(* writes one.                                                               *)
CredentialOfRegistry ==
    \A g \in Used(registries) : ReferenceExists(registries[g].tenant, registries[g].set)

(* The call takes a step for a tenant, on behalf of an actor with a managing *)
(* role there.                                                               *)
ActsFor(c, t) ==
    /\ calls'[c] # calls[c]
    /\ calls'[c].tenant = t
    /\ t \in Manages[calls'[c].actor]

(* A registry or a credential changes only in a step of a call for its       *)
(* tenant, on behalf of an actor who manages that tenant, although most      *)
(* handlers write several statements after they have asked.                  *)
TenantIsolation ==
    [][/\ \A g \in Registry : registries'[g] # registries[g] =>
            \E c \in Call : ActsFor(c, registries'[g].tenant)
       /\ \A k \in Credential : credentials'[k] # credentials[k] =>
            \E c \in Call : ActsFor(c, IF credentials[k] = None THEN credentials'[k].tenant
                                       ELSE credentials[k].tenant)]_vars

=============================================================================
