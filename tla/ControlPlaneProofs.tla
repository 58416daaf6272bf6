------------------------- MODULE ControlPlaneProofs -------------------------
(* What the tables and the handlers of the control plane keep, for any       *)
(* number of tenants, rows, credentials and concurrent calls: the proxy      *)
(* serves valid sets of rows, no reference dangles, and a row changes only   *)
(* for its tenant.                                                           *)
EXTENDS ControlPlane, TLAPS

(* What a handler holds between two of its statements. *)
Handling ==
    [pc: {"update", "delete", "drop", "audit", "notify", "wait", "ok", "error"},
     kind: {"registry", "credential"}, actor: Actor, tenant: Tenant,
     resource: Registry \cup Credential \cup {None}, arg: Settings \cup {None}]

LoadedConfig == [id: Registry, tenant: Tenant, mount: Mount, set: Settings]

ReloadState == [pc: {"idle", "select", "replace"}, configs: SUBSET LoadedConfig]

(* A handler that will still write knows what to write and where, and acts   *)
(* for an actor with a managing role in the tenant it writes for.            *)
Prepared(call) ==
    /\ call.pc \in {"update", "delete"} => call.resource \in Registry
    /\ call.pc = "drop" => call.resource \in Credential
    /\ call.pc = "audit" => call.resource \in Registry \cup Credential
    /\ call.pc = "update" => call.arg \in Settings /\ ApiAccepts(call.arg)
    /\ call.pc \in {"update", "delete", "drop"} => call.tenant \in Manages[call.actor]

CallsInv ==
    /\ calls \in [Call -> {Idle} \cup Handling]
    /\ \A c \in Call : Prepared(calls[c])

TypeInv ==
    /\ registries \in [Registry -> Row \cup {None}]
    /\ credentials \in [Credential -> [tenant: Tenant, name: Name] \cup {None}]
    /\ recent \subseteq Registry
    /\ audit \subseteq [actor: Actor, tenant: Tenant, resource: Registry \cup Credential]
    /\ store \subseteq LoadedConfig
    /\ CallsInv
    /\ reloads \in [Call -> ReloadState]

RowsValid == \A g \in Used(registries) : ApiAccepts(registries[g].set)

(* Two rows share a mount only across tenants, and one of them is deleted. *)
MountsDistinct ==
    \A g, h \in Used(registries) :
        g # h /\ registries[g].mount = registries[h].mount =>
            /\ registries[g].tenant # registries[h].tenant
            /\ registries[g].deleted \/ registries[h].deleted

RowsInv == RowsValid /\ MountsDistinct /\ CredentialOfRegistry

-----------------------------------------------------------------------------
(* The operators the actions are built from. *)

(* merge_registry_update gives settings whatever the request leaves out. *)
LEMMA MergeTyped ==
    ASSUME NEW s \in Settings, NEW p \in Patch
    PROVE  Merge(s, p) \in Settings
BY DEF Merge, Settings, Patch

(* create_registry_config stores what it has validated, trimmed. *)
LEMMA TrimmedTyped ==
    ASSUME NEW s \in Settings
    PROVE  LET stored == [s EXCEPT !.url = Trimmed(@)]
           IN  /\ stored \in Settings
               /\ stored.credential = s.credential
               /\ ApiAccepts(s) => ApiAccepts(stored)
BY DEF Settings, Url, Trimmed, ApiAccepts, CredentialFits

(* What the SELECT of load_enabled_configs returns are configurations. *)
LEMMA EnabledTyped ==
    ASSUME registries \in [Registry -> Row \cup {None}]
    PROVE  EnabledConfigs \subseteq LoadedConfig
<1> SUFFICES ASSUME NEW config \in EnabledConfigs PROVE config \in LoadedConfig
    OBVIOUS
<1>1. PICK g \in Used(registries) :
        config = [id |-> g, tenant |-> registries[g].tenant, mount |-> registries[g].mount,
                  set |-> registries[g].set]
    BY DEF EnabledConfigs
<1>2. g \in Registry /\ registries[g] \in Row
    BY DEF Used
<1> QED
    BY <1>1, <1>2 DEF Row, LoadedConfig

(* The row a deletion leaves: disabled, marked, and otherwise as it was. *)
LEMMA DeletedRow ==
    ASSUME registries \in [Registry -> Row \cup {None}], NEW g \in Registry,
           registries[g] # None,
           registries' = [registries EXCEPT ![g].deleted = TRUE, ![g].set.enabled = FALSE]
    PROVE  \E row \in Row :
                /\ registries' = [registries EXCEPT ![g] = row]
                /\ row.tenant = registries[g].tenant
                /\ row.mount = registries[g].mount
                /\ row.deleted
                /\ row.set.url = registries[g].set.url
                /\ row.set.auth = registries[g].set.auth
                /\ row.set.credential = registries[g].set.credential
                /\ row.set.enabled = FALSE
<1> DEFINE set == [registries[g].set EXCEPT !.enabled = FALSE]
           row == [[registries[g] EXCEPT !.deleted = TRUE] EXCEPT !.set = set]
<1>1. registries[g] \in Row
    OBVIOUS
<1>2. registries[g].set \in Settings
    BY <1>1 DEF Row
<1>3. /\ set \in Settings
      /\ set.url = registries[g].set.url /\ set.auth = registries[g].set.auth
      /\ set.credential = registries[g].set.credential /\ set.enabled = FALSE
    BY <1>2 DEF Settings
<1>4. [[registries[g] EXCEPT !.deleted = TRUE] EXCEPT !.set.enabled = FALSE] = row
    BY <1>1 DEF Row
<1>5. registries' = [registries EXCEPT ![g] = row]
    BY <1>4
<1> HIDE DEF set
<1>6. /\ row \in Row
      /\ row.tenant = registries[g].tenant /\ row.mount = registries[g].mount
      /\ row.deleted = TRUE /\ row.set = set
    BY <1>1, <1>3 DEF Row
<1> HIDE DEF row
<1> QED
    BY <1>3, <1>5, <1>6

(* A handler moves to a step it is prepared for. *)
LEMMA ContinueTyped ==
    ASSUME CallsInv, NEW c \in Call, NEW kind \in {"registry", "credential"},
           NEW a \in Actor, NEW t \in Tenant,
           NEW step \in {"update", "delete", "drop", "audit", "error"},
           NEW resource \in Registry \cup Credential \cup {None},
           NEW more \in Settings \cup {None},
           Continue(c, kind, a, t, step, resource, more),
           Prepared([pc |-> step, kind |-> kind, actor |-> a, tenant |-> t,
                     resource |-> resource, arg |-> more])
    PROVE  CallsInv'
<1> DEFINE next == [pc |-> step, kind |-> kind, actor |-> a, tenant |-> t,
                    resource |-> resource, arg |-> more]
<1>1. next \in Handling
    BY DEF Handling
<1>2. Prepared(next)
    OBVIOUS
<1>3. calls' = [calls EXCEPT ![c] = next]
    BY DEF Continue
<1> HIDE DEF next
<1>4. calls' \in [Call -> {Idle} \cup Handling]
    BY <1>1, <1>3 DEF CallsInv
<1>5. ASSUME NEW d \in Call PROVE Prepared(calls'[d])
    <2>1. CASE d = c
        BY <1>2, <1>3, <2>1 DEF CallsInv
    <2>2. CASE d # c
        BY <1>3, <2>2 DEF CallsInv
    <2> QED
        BY <2>1, <2>2
<1> QED
    BY <1>4, <1>5 DEF CallsInv, Prepared

(* A handler that has begun answers with an error. *)
LEMMA AnswerTyped ==
    ASSUME CallsInv, NEW c \in Call, calls[c].pc # "idle", Answer(c, "error")
    PROVE  CallsInv'
<1>1. calls[c] \in Handling
    BY DEF CallsInv, Idle
<1> DEFINE next == [pc |-> "error", kind |-> calls[c].kind, actor |-> calls[c].actor,
                    tenant |-> calls[c].tenant, resource |-> calls[c].resource, arg |-> None]
<1>2. next \in Handling /\ Prepared(next)
    BY <1>1 DEF Handling, Prepared
<1>3. calls' = [calls EXCEPT ![c] = next]
    BY DEF Answer, CallsInv
<1> HIDE DEF next
<1>4. calls' \in [Call -> {Idle} \cup Handling]
    BY <1>2, <1>3 DEF CallsInv
<1>5. ASSUME NEW d \in Call PROVE Prepared(calls'[d])
    <2>1. CASE d = c
        BY <1>2, <1>3, <2>1 DEF CallsInv
    <2>2. CASE d # c
        BY <1>3, <2>2 DEF CallsInv
    <2> QED
        BY <2>1, <2>2
<1> QED
    BY <1>4, <1>5 DEF CallsInv, Prepared

(* A handler that has written only moves on to steps that write nothing. *)
LEMMA MoveTyped ==
    ASSUME CallsInv, NEW c \in Call, calls[c].pc # "idle",
           NEW step \in {"notify", "wait", "ok", "error"},
           calls' = [calls EXCEPT ![c].pc = step]
    PROVE  CallsInv'
<1>1. calls[c] \in Handling
    BY DEF CallsInv, Idle
<1> DEFINE next == [calls[c] EXCEPT !.pc = step]
<1>2. next \in Handling /\ Prepared(next)
    BY <1>1 DEF Handling, Prepared
<1>3. calls' = [calls EXCEPT ![c] = next]
    OBVIOUS
<1> HIDE DEF next
<1>4. calls' \in [Call -> {Idle} \cup Handling]
    BY <1>2, <1>3 DEF CallsInv
<1>5. ASSUME NEW d \in Call PROVE Prepared(calls'[d])
    <2>1. CASE d = c
        BY <1>2, <1>3, <2>1 DEF CallsInv
    <2>2. CASE d # c
        BY <1>3, <2>2 DEF CallsInv
    <2> QED
        BY <2>1, <2>2
<1> QED
    BY <1>4, <1>5 DEF CallsInv, Prepared

-----------------------------------------------------------------------------
(* Types, and what the handlers hold. *)

(* The rows that are there before the first call are well typed. *)
LEMMA TypeInit == Init => TypeInv
<1> SUFFICES ASSUME Init PROVE TypeInv
    OBVIOUS
<1>1. registries \in [Registry -> Row \cup {None}]
    BY DEF Init
<1>2. store \subseteq LoadedConfig
    BY <1>1, EnabledTyped DEF Init
<1>3. CallsInv
    BY DEF Init, CallsInv, Idle, Prepared
<1>4. reloads \in [Call -> ReloadState]
    BY DEF Init, NoReload, ReloadState
<1> QED
    BY <1>1, <1>2, <1>3, <1>4 DEF Init, TypeInv

(* The endpoints of the registry configurations. *)
LEMMA RegistryTyped ==
    ASSUME TypeInv, NEW c \in Call,
           \/ CreateRegistry(c) \/ SelectRegistry(c) \/ UpdateRegistry(c)
           \/ CheckRequests(c) \/ DeleteRegistry(c)
    PROVE  TypeInv'
<1> USE DEF TypeInv
<1>1. CASE CreateRegistry(c)
    <2>1. PICK a \in Actor, t \in Tenant, g \in Registry, m \in Mount, s \in Settings :
            CreateRegistry(c)!(a, t, g, m, s)
        BY <1>1 DEF CreateRegistry
    <2>2. CASE MountFree(registries, t, m) /\ ReferenceExists(t, s)
        <3>1. [tenant |-> t, mount |-> m, adapter |-> "npm", deleted |-> FALSE,
               set |-> [s EXCEPT !.url = Trimmed(@)]] \in Row
            BY TrimmedTyped DEF Row
        <3>2. registries' \in [Registry -> Row \cup {None}]
            BY <2>1, <2>2, <3>1
        <3>3. CallsInv'
            BY <2>1, <2>2, ContinueTyped DEF Prepared
        <3> QED
            BY <2>1, <3>2, <3>3
    <2>3. CASE ~(MountFree(registries, t, m) /\ ReferenceExists(t, s))
        <3>1. CallsInv'
            BY <2>1, <2>3, ContinueTyped DEF Prepared
        <3> QED
            BY <2>1, <2>3, <3>1
    <2> QED
        BY <2>2, <2>3
<1>2. CASE SelectRegistry(c)
    <2>1. PICK a \in Actor, t \in Tenant, g \in Registry, p \in Patch :
            SelectRegistry(c)!(a, t, g, p)
        BY <1>2 DEF SelectRegistry
    <2> DEFINE merged == Merge(registries[g].set, p)
    <2>2. registries[g] \in Row
        BY <2>1 DEF Selects
    <2>3. merged \in Settings
        BY <2>2, MergeTyped DEF Row
    <2>4. t \in Manages[a]
        BY <2>1 DEF Starts
    <2>5. \/ ApiAccepts(merged) /\ Continue(c, "registry", a, t, "update", g, merged)
          \/ Continue(c, "registry", a, t, "error", g, None)
        BY <2>1
    <2> HIDE DEF merged
    <2>6. CASE ApiAccepts(merged) /\ Continue(c, "registry", a, t, "update", g, merged)
        <3>1. Prepared([pc |-> "update", kind |-> "registry", actor |-> a, tenant |-> t,
                        resource |-> g, arg |-> merged])
            BY <2>3, <2>4, <2>6 DEF Prepared
        <3>2. CallsInv'
            BY <2>3, <2>6, <3>1, ContinueTyped
        <3> QED
            BY <2>1, <3>2
    <2>7. CASE Continue(c, "registry", a, t, "error", g, None)
        <3>1. CallsInv'
            BY <2>7, ContinueTyped DEF Prepared
        <3> QED
            BY <2>1, <3>1
    <2> QED
        BY <2>5, <2>6, <2>7
<1>3. CASE UpdateRegistry(c)
    <2>1. calls[c] \in Handling /\ Prepared(calls[c]) /\ calls[c].pc = "update"
        BY <1>3 DEF UpdateRegistry, CallsInv, Idle
    <2>2. PICK g \in Registry, a \in Actor, t \in Tenant, s \in Settings :
            /\ g = calls[c].resource /\ a = calls[c].actor /\ t = calls[c].tenant
            /\ s = calls[c].arg
        BY <2>1 DEF Prepared, Handling
    <2>3. CASE Selects(t, g) /\ ReferenceExists(t, s)
        <3>1. registries' = [registries EXCEPT ![g].set = s]
              /\ Continue(c, "registry", a, t, "audit", g, None)
            BY <1>3, <2>2, <2>3 DEF UpdateRegistry
        <3>2. registries' \in [Registry -> Row \cup {None}]
            BY <2>3, <3>1 DEF Row, Selects
        <3>3. CallsInv'
            BY <3>1, ContinueTyped DEF Prepared
        <3> QED
            BY <1>3, <3>2, <3>3 DEF UpdateRegistry
    <2>4. CASE ~(Selects(t, g) /\ ReferenceExists(t, s))
        <3>1. Answer(c, "error") /\ UNCHANGED registries
            BY <1>3, <2>2, <2>4 DEF UpdateRegistry
        <3>2. CallsInv'
            BY <2>1, <3>1, AnswerTyped
        <3> QED
            BY <1>3, <3>1, <3>2 DEF UpdateRegistry
    <2> QED
        BY <2>3, <2>4
<1>4. CASE CheckRequests(c)
    <2>1. PICK a \in Actor, t \in Tenant, g \in Registry : CheckRequests(c)!(a, t, g)
        BY <1>4 DEF CheckRequests
    <2>2. t \in Manages[a]
        BY <2>1 DEF Starts
    <2>3. PICK step \in {"error", "delete"} : Continue(c, "registry", a, t, step, g, None)
        BY <2>1
    <2>4. Prepared([pc |-> step, kind |-> "registry", actor |-> a, tenant |-> t, resource |-> g,
                   arg |-> None])
        BY <2>2 DEF Prepared
    <2>5. CallsInv'
        BY <2>3, <2>4, ContinueTyped
    <2> QED
        BY <2>1, <2>5
<1>5. CASE DeleteRegistry(c)
    <2>1. calls[c] \in Handling /\ Prepared(calls[c]) /\ calls[c].pc = "delete"
        BY <1>5 DEF DeleteRegistry, CallsInv, Idle
    <2>2. PICK g \in Registry, a \in Actor, t \in Tenant :
            g = calls[c].resource /\ a = calls[c].actor /\ t = calls[c].tenant
        BY <2>1 DEF Prepared, Handling
    <2>3. CASE Selects(t, g)
        <3>1. registries' = [registries EXCEPT ![g].deleted = TRUE, ![g].set.enabled = FALSE]
              /\ Continue(c, "registry", a, t, "audit", g, None)
            BY <1>5, <2>2, <2>3 DEF DeleteRegistry
        <3>2. registries' \in [Registry -> Row \cup {None}]
            <4>1. registries[g] # None
                BY <2>3 DEF Selects
            <4>2. PICK row \in Row : registries' = [registries EXCEPT ![g] = row]
                BY <3>1, <4>1, DeletedRow
            <4> QED
                BY <4>2
        <3>3. CallsInv'
            BY <3>1, ContinueTyped DEF Prepared
        <3> QED
            BY <1>5, <3>2, <3>3 DEF DeleteRegistry
    <2>4. CASE ~Selects(t, g)
        <3>1. Answer(c, "error") /\ UNCHANGED registries
            BY <1>5, <2>2, <2>4 DEF DeleteRegistry
        <3>2. CallsInv'
            BY <2>1, <3>1, AnswerTyped
        <3> QED
            BY <1>5, <3>1, <3>2 DEF DeleteRegistry
    <2> QED
        BY <2>3, <2>4
<1> QED
    BY <1>1, <1>2, <1>3, <1>4, <1>5

(* The endpoints of the credentials. *)
LEMMA CredentialTyped ==
    ASSUME TypeInv, NEW c \in Call,
           \/ Refuse(c) \/ CreateCredential(c) \/ RotateCredential(c)
           \/ CheckReferences(c) \/ DeleteCredential(c)
    PROVE  TypeInv'
<1> USE DEF TypeInv
<1>1. CASE Refuse(c)
    <2>1. PICK kind \in {"registry", "credential"}, a \in Actor, t \in Tenant :
            Continue(c, kind, a, t, "error", None, None)
        BY <1>1 DEF Refuse
    <2>2. CallsInv'
        BY <2>1, ContinueTyped DEF Prepared
    <2> QED
        BY <1>1, <2>2 DEF Refuse
<1>2. CASE CreateCredential(c)
    <2>1. PICK a \in Actor, t \in Tenant, k \in Credential, n \in Name :
            CreateCredential(c)!(a, t, k, n)
        BY <1>2 DEF CreateCredential
    <2>2. credentials' \in [Credential -> [tenant: Tenant, name: Name] \cup {None}]
        BY <2>1
    <2>3. PICK step \in {"audit", "error"} : Continue(c, "credential", a, t, step, k, None)
        BY <2>1
    <2>4. CallsInv'
        BY <2>3, ContinueTyped DEF Prepared
    <2> QED
        BY <2>1, <2>2, <2>4
<1>3. CASE RotateCredential(c)
    <2>1. PICK a \in Actor, t \in Tenant, k \in Credential : RotateCredential(c)!(a, t, k)
        BY <1>3 DEF RotateCredential
    <2>2. PICK step \in {"audit", "error"} : Continue(c, "credential", a, t, step, k, None)
        BY <2>1
    <2>3. CallsInv'
        BY <2>2, ContinueTyped DEF Prepared
    <2> QED
        BY <2>1, <2>3
<1>4. CASE CheckReferences(c)
    <2>1. PICK a \in Actor, t \in Tenant, k \in Credential : CheckReferences(c)!(a, t, k)
        BY <1>4 DEF CheckReferences
    <2>2. PICK step \in {"error", "drop"} : Continue(c, "credential", a, t, step, k, None)
        BY <2>1
    <2>3. t \in Manages[a]
        BY <2>1 DEF Starts
    <2>4. Prepared([pc |-> step, kind |-> "credential", actor |-> a, tenant |-> t,
                    resource |-> k, arg |-> None])
        BY <2>3 DEF Prepared
    <2>5. CallsInv'
        BY <2>2, <2>4, ContinueTyped
    <2> QED
        BY <2>1, <2>5
<1>5. CASE DeleteCredential(c)
    <2>1. calls[c] \in Handling /\ Prepared(calls[c]) /\ calls[c].pc = "drop"
        BY <1>5 DEF DeleteCredential, CallsInv, Idle
    <2>2. PICK k \in Credential, a \in Actor, t \in Tenant :
            k = calls[c].resource /\ a = calls[c].actor /\ t = calls[c].tenant
        BY <2>1 DEF Prepared, Handling
    <2>3. credentials' \in [Credential -> [tenant: Tenant, name: Name] \cup {None}]
        BY <1>5, <2>2 DEF DeleteCredential
    <2>4. Continue(c, "credential", a, t, "audit", k, None) \/ Answer(c, "error")
        BY <1>5, <2>2 DEF DeleteCredential
    <2>5. CASE Continue(c, "credential", a, t, "audit", k, None)
        <3>1. CallsInv'
            BY <2>5, ContinueTyped DEF Prepared
        <3> QED
            BY <1>5, <2>3, <3>1 DEF DeleteCredential
    <2>6. CASE Answer(c, "error")
        <3>1. CallsInv'
            BY <2>1, <2>6, AnswerTyped
        <3> QED
            BY <1>5, <2>3, <3>1 DEF DeleteCredential
    <2> QED
        BY <2>4, <2>5, <2>6
<1> QED
    BY <1>1, <1>2, <1>3, <1>4, <1>5

(* The audit event, the call to the proxy, its reload and its restart. *)
LEMMA ReloadTyped ==
    ASSUME TypeInv,
           \/ \E c \in Call : \/ Audit(c) \/ NotifyReload(c) \/ TimeOut(c)
                              \/ ReloadSelect(c) \/ ReloadReplace(c)
           \/ ProxyRestart
    PROVE  TypeInv'
<1> USE DEF TypeInv
<1>1. ASSUME NEW c \in Call, Audit(c) PROVE TypeInv'
    <2>1. calls[c] \in Handling /\ Prepared(calls[c]) /\ calls[c].pc = "audit"
        BY <1>1 DEF Audit, CallsInv, Idle
    <2>2. /\ calls[c].actor \in Actor /\ calls[c].tenant \in Tenant
          /\ calls[c].resource \in Registry \cup Credential
        BY <2>1 DEF Handling, Prepared
    <2>3. audit' \subseteq [actor: Actor, tenant: Tenant, resource: Registry \cup Credential]
        BY <1>1, <2>2 DEF Audit
    <2>4. \/ \E step \in {"notify", "ok"} : calls' = [calls EXCEPT ![c].pc = step]
          \/ Answer(c, "error")
        BY <1>1 DEF Audit
    <2>5. CallsInv'
        BY <2>1, <2>4, MoveTyped, AnswerTyped
    <2> QED
        BY <1>1, <2>3, <2>5 DEF Audit
<1>2. ASSUME NEW c \in Call, NotifyReload(c) PROVE TypeInv'
    <2>1. calls[c].pc # "idle"
        BY <1>2 DEF NotifyReload
    <2>2. CallsInv'
        BY <1>2, <2>1, MoveTyped, AnswerTyped DEF NotifyReload
    <2>3. reloads' \in [Call -> ReloadState]
        BY <1>2 DEF NotifyReload, ReloadState
    <2> QED
        BY <1>2, <2>2, <2>3 DEF NotifyReload
<1>3. ASSUME NEW c \in Call, TimeOut(c) PROVE TypeInv'
    <2>1. CallsInv'
        BY <1>3, AnswerTyped DEF TimeOut
    <2> QED
        BY <1>3, <2>1 DEF TimeOut
<1>4. ASSUME NEW c \in Call, ReloadSelect(c) PROVE TypeInv'
    <2>1. [pc |-> "replace", configs |-> EnabledConfigs] \in ReloadState
        BY EnabledTyped DEF ReloadState
    <2>2. reloads' \in [Call -> ReloadState]
        BY <1>4, <2>1 DEF ReloadSelect
    <2>3. CallsInv'
        BY <1>4 DEF ReloadSelect, CallsInv, Prepared
    <2> QED
        BY <1>4, <2>2, <2>3 DEF ReloadSelect
<1>5. ASSUME NEW c \in Call, ReloadReplace(c) PROVE TypeInv'
    <2>1. store' \subseteq LoadedConfig
        BY <1>5 DEF ReloadReplace, ReloadState
    <2>2. reloads' \in [Call -> ReloadState]
        BY <1>5 DEF ReloadReplace, ReloadState, NoReload
    <2>3. CallsInv'
        <3>1. CASE calls[c].pc = "wait"
            <4>1. PICK step \in {"ok", "error"} : calls' = [calls EXCEPT ![c].pc = step]
                BY <1>5, <3>1 DEF ReloadReplace, CallsInv
            <4> QED
                BY <3>1, <4>1, MoveTyped
        <3>2. CASE calls[c].pc # "wait"
            <4>1. calls' = [calls EXCEPT ![c].pc = calls[c].pc]
                BY <1>5, <3>2 DEF ReloadReplace, CallsInv
            <4>2. [calls[c] EXCEPT !.pc = calls[c].pc] = calls[c]
                BY DEF CallsInv, Handling, Idle
            <4>3. calls' = calls
                BY <4>1, <4>2 DEF CallsInv
            <4> QED
                BY <4>3 DEF CallsInv, Prepared
        <3> QED
            BY <3>1, <3>2
    <2> QED
        BY <1>5, <2>1, <2>2, <2>3 DEF ReloadReplace
<1>6. CASE ProxyRestart
    <2>1. store' \subseteq LoadedConfig
        BY <1>6, EnabledTyped DEF ProxyRestart
    <2>2. reloads' \in [Call -> ReloadState]
        BY <1>6 DEF ProxyRestart, ReloadState, NoReload
    <2>3. ASSUME NEW c \in Call
          PROVE  calls'[c] \in {Idle} \cup Handling /\ Prepared(calls'[c])
        <3>1. CASE calls[c].pc = "wait"
            <4>1. calls[c] \in Handling
                BY <3>1 DEF CallsInv, Idle
            <4>2. calls'[c] = [calls[c] EXCEPT !.pc = "error"]
                BY <1>6, <3>1 DEF ProxyRestart
            <4> QED
                BY <4>1, <4>2 DEF Handling, Prepared
        <3>2. CASE calls[c].pc # "wait"
            BY <1>6, <3>2 DEF ProxyRestart, CallsInv
        <3> QED
            BY <3>1, <3>2
    <2>4. CallsInv'
        <3>1. DOMAIN calls' = Call /\ calls' = [c \in Call |-> calls'[c]]
            BY <1>6 DEF ProxyRestart
        <3>2. calls' \in [Call -> {Idle} \cup Handling]
            BY <2>3, <3>1
        <3> QED
            BY <2>3, <3>2 DEF CallsInv, Prepared
    <2> QED
        BY <1>6, <2>1, <2>2, <2>4 DEF ProxyRestart
<1> QED
    BY <1>1, <1>2, <1>3, <1>4, <1>5, <1>6

(* Every statement of every handler and every reload preserves the types. *)
LEMMA TypeStep == TypeInv /\ [Next]_vars => TypeInv'
<1> SUFFICES ASSUME TypeInv, [Next]_vars PROVE TypeInv'
    OBVIOUS
<1>1. CASE Requested
    <2>1. recent' \subseteq Registry
        BY <1>1 DEF Requested, TypeInv, LoadedConfig
    <2>2. CallsInv'
        BY <1>1 DEF Requested, TypeInv, CallsInv, Prepared
    <2> QED
        BY <1>1, <2>1, <2>2 DEF Requested, TypeInv
<1>2. CASE UNCHANGED vars
    <2>1. CallsInv'
        BY <1>2 DEF vars, TypeInv, CallsInv, Prepared
    <2> QED
        BY <1>2, <2>1 DEF vars, TypeInv
<1> QED
    BY <1>1, <1>2, RegistryTyped, CredentialTyped, ReloadTyped DEF Next

-----------------------------------------------------------------------------
(* The rows, whatever order the statements come in. *)

(* Of the rows that are enabled none is deleted, so that their mounts        *)
(* differ, and the proxy accepts them all when no address is untrimmed.      *)
LEMMA RowsLoad ==
    ASSUME TypeInv, RowsInv
    PROVE  /\ \A d, e \in EnabledConfigs : d.mount = e.mount => d.id = e.id
           /\ Tidy(EnabledConfigs) => Loadable(EnabledConfigs)
<1>1. ASSUME NEW d \in EnabledConfigs
      PROVE  \E g \in Used(registries) :
                /\ d.id = g /\ d.mount = registries[g].mount /\ d.set = registries[g].set
                /\ ~registries[g].deleted
    BY <1>1 DEF EnabledConfigs
<1>2. ASSUME NEW d \in EnabledConfigs, d.set.url = Trimmed(d.set.url)
      PROVE  ProxyAccepts(d.set)
    <2>1. ApiAccepts(d.set)
        BY <1>1 DEF RowsInv, RowsValid
    <2> QED
        BY <1>2, <2>1 DEF ApiAccepts, ProxyAccepts, Trimmed
<1>3. ASSUME NEW d \in EnabledConfigs, NEW e \in EnabledConfigs, d.mount = e.mount
      PROVE  d.id = e.id
    BY <1>1, <1>3 DEF RowsInv, MountsDistinct
<1> QED
    BY <1>2, <1>3 DEF Loadable, Tidy

(* The rows that are there before the first call satisfy the constraints. *)
LEMMA RowsInit == Init => RowsInv
<1> SUFFICES ASSUME Init PROVE RowsInv
    OBVIOUS
<1>1. Seeded(registries, credentials)
    BY DEF Init
<1>2. RowsValid
    BY <1>1 DEF Seeded, RowsValid, ApiAccepts, ProxyAccepts, Trimmed
<1>3. MountsDistinct
    BY <1>1 DEF Seeded, MountsDistinct
<1>4. CredentialOfRegistry
    BY <1>1 DEF Seeded, CredentialOfRegistry, ReferenceExists
<1> QED
    BY <1>2, <1>3, <1>4 DEF RowsInv

(* One row is written, either a new one whose mount is free or one that      *)
(* keeps its place.                                                          *)
LEMMA RowWritten ==
    ASSUME TypeInv, RowsInv, NEW g \in Registry, NEW row \in Row,
           registries' = [registries EXCEPT ![g] = row],
           UNCHANGED credentials,
           ApiAccepts(row.set),
           ReferenceExists(row.tenant, row.set),
           \/ MountFree(registries, row.tenant, row.mount)
           \/ /\ registries[g] # None
              /\ row.tenant = registries[g].tenant
              /\ row.mount = registries[g].mount
              /\ registries[g].deleted => row.deleted
    PROVE  RowsInv'
<1>1. registries'[g] = row /\ \A h \in Registry : h # g => registries'[h] = registries[h]
    BY DEF TypeInv
<1>2. Used(registries) \subseteq Registry /\ Used(registries') \subseteq Used(registries) \cup {g}
    BY DEF TypeInv, Used
<1>3. RowsValid'
    BY <1>1, <1>2 DEF RowsInv, RowsValid
<1>4. ASSUME NEW h \in Used(registries), h # g, registries[h].mount = row.mount
      PROVE  registries[h].tenant # row.tenant /\ (registries[h].deleted \/ row.deleted)
    <2>1. CASE MountFree(registries, row.tenant, row.mount)
        BY <1>4, <2>1 DEF MountFree
    <2>2. CASE /\ registries[g] # None
               /\ row.tenant = registries[g].tenant
               /\ row.mount = registries[g].mount
               /\ registries[g].deleted => row.deleted
        <3>1. g \in Used(registries)
            BY <2>2 DEF Used, TypeInv
        <3> QED
            BY <1>4, <2>2, <3>1 DEF RowsInv, MountsDistinct
    <2> QED
        BY <2>1, <2>2
<1>5. MountsDistinct'
    <2> SUFFICES ASSUME NEW h \in Used(registries'), NEW i \in Used(registries'), h # i,
                        registries'[h].mount = registries'[i].mount
                 PROVE  /\ registries'[h].tenant # registries'[i].tenant
                        /\ registries'[h].deleted \/ registries'[i].deleted
        BY DEF MountsDistinct
    <2>1. CASE h = g
        <3>1. i \in Used(registries) /\ i # g
            BY <1>2, <2>1
        <3> QED
            BY <1>1, <1>2, <1>4, <2>1, <3>1
    <2>2. CASE i = g
        <3>1. h \in Used(registries) /\ h # g
            BY <1>2, <2>2
        <3> QED
            BY <1>1, <1>2, <1>4, <2>2, <3>1
    <2>3. CASE h # g /\ i # g
        <3>1. h \in Used(registries) /\ i \in Used(registries)
            BY <1>2, <2>3
        <3> QED
            BY <1>1, <1>2, <2>3, <3>1 DEF RowsInv, MountsDistinct
    <2> QED
        BY <2>1, <2>2, <2>3
<1>6. CredentialOfRegistry'
    <2> SUFFICES ASSUME NEW h \in Used(registries'), registries'[h].set.credential # None
                 PROVE  /\ credentials'[registries'[h].set.credential] # None
                        /\ credentials'[registries'[h].set.credential].tenant
                                = registries'[h].tenant
        BY DEF CredentialOfRegistry, ReferenceExists
    <2>1. ReferenceExists(registries'[h].tenant, registries'[h].set)
        BY <1>1, <1>2 DEF RowsInv, CredentialOfRegistry
    <2> QED
        BY <2>1 DEF ReferenceExists
<1> QED
    BY <1>3, <1>5, <1>6 DEF RowsInv

(* Every statement of every handler preserves what the tables guarantee. *)
LEMMA RowsStep == TypeInv /\ RowsInv /\ [Next]_vars => RowsInv'
<1> SUFFICES ASSUME TypeInv, RowsInv, [Next]_vars PROVE RowsInv'
    OBVIOUS
<1>1. CASE UNCHANGED <<registries, credentials>>
    BY <1>1 DEF RowsInv, RowsValid, MountsDistinct, CredentialOfRegistry, ReferenceExists
<1>2. ASSUME NEW c \in Call, CreateRegistry(c) PROVE RowsInv'
    <2>1. PICK a \in Actor, t \in Tenant, g \in Registry, m \in Mount, s \in Settings :
            CreateRegistry(c)!(a, t, g, m, s)
        BY <1>2 DEF CreateRegistry
    <2>2. CASE MountFree(registries, t, m) /\ ReferenceExists(t, s)
        <3> DEFINE stored == [s EXCEPT !.url = Trimmed(@)]
                   row == [tenant |-> t, mount |-> m, adapter |-> "npm", deleted |-> FALSE,
                           set |-> stored]
        <3>1. registries' = [registries EXCEPT ![g] = row]
            BY <2>1, <2>2
        <3>2. /\ stored \in Settings /\ stored.credential = s.credential
              /\ ApiAccepts(stored)
            BY <2>1, TrimmedTyped
        <3> HIDE DEF stored
        <3>3. row \in Row /\ row.tenant = t /\ row.mount = m /\ row.set = stored
            BY <3>2 DEF Row
        <3> HIDE DEF row
        <3>4. ReferenceExists(row.tenant, row.set)
            BY <2>2, <3>2, <3>3 DEF ReferenceExists
        <3> QED
            BY <2>1, <2>2, <3>1, <3>2, <3>3, <3>4, RowWritten
    <2>3. CASE ~(MountFree(registries, t, m) /\ ReferenceExists(t, s))
        BY <1>1, <2>1, <2>3
    <2> QED
        BY <2>2, <2>3
<1>3. ASSUME NEW c \in Call, UpdateRegistry(c) PROVE RowsInv'
    <2>1. calls[c] \in Handling /\ Prepared(calls[c]) /\ calls[c].pc = "update"
        BY <1>3 DEF UpdateRegistry, TypeInv, CallsInv, Idle
    <2>2. PICK g \in Registry, t \in Tenant, s \in Settings :
            /\ g = calls[c].resource /\ t = calls[c].tenant /\ s = calls[c].arg
            /\ ApiAccepts(s)
        BY <2>1 DEF Prepared, Handling
    <2>3. CASE Selects(t, g) /\ ReferenceExists(t, s)
        <3> DEFINE row == [registries[g] EXCEPT !.set = s]
        <3>1. registries[g] \in Row /\ registries[g] # None /\ registries[g].tenant = t
            BY <2>3 DEF Selects, TypeInv
        <3>2. /\ row \in Row /\ row.tenant = t /\ row.mount = registries[g].mount
              /\ row.set = s /\ row.deleted = registries[g].deleted
            BY <3>1 DEF Row
        <3>3. registries' = [registries EXCEPT ![g] = row]
            BY <1>3, <2>2, <2>3 DEF UpdateRegistry
        <3>4. UNCHANGED credentials
            BY <1>3 DEF UpdateRegistry
        <3> HIDE DEF row
        <3> QED
            BY <2>2, <2>3, <3>1, <3>2, <3>3, <3>4, RowWritten
    <2>4. CASE ~(Selects(t, g) /\ ReferenceExists(t, s))
        BY <1>1, <1>3, <2>2, <2>4 DEF UpdateRegistry
    <2> QED
        BY <2>3, <2>4
<1>4. ASSUME NEW c \in Call, DeleteRegistry(c) PROVE RowsInv'
    <2>1. calls[c] \in Handling /\ Prepared(calls[c]) /\ calls[c].pc = "delete"
        BY <1>4 DEF DeleteRegistry, TypeInv, CallsInv, Idle
    <2>2. PICK g \in Registry, a \in Actor, t \in Tenant :
            g = calls[c].resource /\ a = calls[c].actor /\ t = calls[c].tenant
        BY <2>1 DEF Prepared, Handling
    <2>3. CASE Selects(t, g)
        <3>1. registries[g] # None /\ g \in Used(registries)
            BY <2>3 DEF Selects, Used, TypeInv
        <3>2. registries' = [registries EXCEPT ![g].deleted = TRUE, ![g].set.enabled = FALSE]
            BY <1>4, <2>2, <2>3 DEF DeleteRegistry
        <3>3. PICK row \in Row :
                /\ registries' = [registries EXCEPT ![g] = row]
                /\ row.tenant = registries[g].tenant
                /\ row.mount = registries[g].mount
                /\ row.deleted
                /\ row.set.url = registries[g].set.url
                /\ row.set.auth = registries[g].set.auth
                /\ row.set.credential = registries[g].set.credential
            BY <3>1, <3>2, DeletedRow DEF TypeInv
        <3>4. ApiAccepts(row.set)
            BY <3>1, <3>3 DEF RowsInv, RowsValid, ApiAccepts, CredentialFits
        <3>5. ReferenceExists(row.tenant, row.set)
            BY <3>1, <3>3 DEF RowsInv, CredentialOfRegistry, ReferenceExists
        <3>6. UNCHANGED credentials
            BY <1>4 DEF DeleteRegistry
        <3> QED
            BY <3>1, <3>3, <3>4, <3>5, <3>6, RowWritten
    <2>4. CASE ~Selects(t, g)
        BY <1>1, <1>4, <2>2, <2>4 DEF DeleteRegistry
    <2> QED
        BY <2>3, <2>4
<1>5. ASSUME NEW k \in Credential, NEW value, UNCHANGED registries,
             credentials' = [credentials EXCEPT ![k] = value],
             k = None \/ ~Referenced(k)
      PROVE  RowsInv'
    <2>1. RowsValid' /\ MountsDistinct'
        BY <1>5 DEF RowsInv, RowsValid, MountsDistinct
    <2>2. ASSUME NEW g \in Used(registries), registries[g].set.credential # None
          PROVE  credentials'[registries[g].set.credential]
                    = credentials[registries[g].set.credential]
        <3>1. registries[g].set.credential # k
            BY <1>5, <2>2 DEF Referenced
        <3>2. registries[g].set.credential \in Credential
            BY <2>2 DEF TypeInv, Used, Row, Settings
        <3> QED
            BY <1>5, <3>1, <3>2 DEF TypeInv
    <2>3. CredentialOfRegistry'
        BY <1>5, <2>2 DEF RowsInv, CredentialOfRegistry, ReferenceExists
    <2> QED
        BY <2>1, <2>3 DEF RowsInv
<1>6. ASSUME NEW c \in Call, CreateCredential(c) PROVE RowsInv'
    <2>1. PICK a \in Actor, t \in Tenant, k \in Credential, n \in Name :
            CreateCredential(c)!(a, t, k, n)
        BY <1>6 DEF CreateCredential
    <2>2. CASE credentials' = [credentials EXCEPT ![k] = [tenant |-> t, name |-> n]]
        <3>1. k = None \/ ~Referenced(k)
            BY <2>1 DEF Referenced, RowsInv, CredentialOfRegistry, ReferenceExists
        <3> QED
            BY <1>5, <2>1, <2>2, <3>1
    <2>3. CASE UNCHANGED credentials
        BY <1>1, <2>1, <2>3
    <2> QED
        BY <2>1, <2>2, <2>3
<1>7. ASSUME NEW c \in Call, DeleteCredential(c) PROVE RowsInv'
    <2>1. calls[c] \in Handling /\ Prepared(calls[c]) /\ calls[c].pc = "drop"
        BY <1>7 DEF DeleteCredential, TypeInv, CallsInv, Idle
    <2>2. PICK k \in Credential : k = calls[c].resource
        BY <2>1 DEF Prepared
    <2>3. \/ UNCHANGED credentials
          \/ ~Referenced(k) /\ credentials' = [credentials EXCEPT ![k] = None]
        BY <1>7, <2>2 DEF DeleteCredential
    <2>4. UNCHANGED registries
        BY <1>7 DEF DeleteCredential
    <2> QED
        BY <1>1, <1>5, <2>3, <2>4
<1>8. \/ UNCHANGED <<registries, credentials>>
      \/ \E c \in Call : \/ CreateRegistry(c) \/ UpdateRegistry(c) \/ DeleteRegistry(c)
                         \/ CreateCredential(c) \/ DeleteCredential(c)
    BY DEF Next, vars, Refuse, SelectRegistry, CheckRequests, RotateCredential, CheckReferences,
           Audit, NotifyReload, TimeOut, ReloadSelect, ReloadReplace, ProxyRestart, Requested
<1> QED
    BY <1>1, <1>2, <1>3, <1>4, <1>6, <1>7, <1>8

-----------------------------------------------------------------------------
(* Theorems *)

(* What handlers hold between their statements, and the rows of the tables,  *)
(* keep their types; a handler that is about to write was authorised.        *)
THEOREM TypeCorrect == Spec => [](TypeOK /\ CallsInv)
<1>1. TypeInv => TypeOK /\ CallsInv
    <2> SUFFICES ASSUME TypeInv PROVE TypeOK /\ CallsInv
        OBVIOUS
    <2>1. \A c \in Call : calls[c].pc \in {"idle", "update", "delete", "drop", "audit", "notify",
                                           "wait", "ok", "error"}
        BY DEF TypeInv, CallsInv, Handling, Idle
    <2>2. \A c \in Call : /\ reloads[c].pc \in {"idle", "select", "replace"}
                          /\ reloads[c].configs \subseteq LoadedConfig
        BY DEF TypeInv, ReloadState
    <2> QED
        BY <2>1, <2>2 DEF TypeInv, TypeOK, LoadedConfig
<1> QED
    BY <1>1, TypeInit, TypeStep, PTL DEF Spec

(* Rows are valid, share no live mount and refer to credentials of their     *)
(* tenant, between any two statements of any handlers.                       *)
THEOREM RowsInvariance == Spec => [](TypeInv /\ RowsInv)
BY TypeInit, TypeStep, RowsInit, RowsStep, PTL DEF Spec

(* delete_credential never leaves a row with a reference to nothing, and no  *)
(* row refers to a credential of another tenant.                             *)
THEOREM NoDanglingCredential == Spec => []CredentialOfRegistry
<1>1. RowsInv => CredentialOfRegistry
    BY DEF RowsInv
<1> QED
    BY <1>1, RowsInvariance, PTL

(* A step that changes a registry or a credential. *)
RowsOfTenant ==
    /\ \A g \in Registry : registries'[g] # registries[g] =>
            \E c \in Call : ActsFor(c, registries'[g].tenant)
    /\ \A k \in Credential : credentials'[k] # credentials[k] =>
            \E c \in Call : ActsFor(c, IF credentials[k] = None THEN credentials'[k].tenant
                                       ELSE credentials[k].tenant)

(* A handler goes from the statement that writes to its audit event for the  *)
(* actor and the tenant it has checked.                                      *)
LEMMA WriteActsFor ==
    ASSUME TypeInv, NEW c \in Call, NEW kind, NEW a \in Actor, NEW t \in Tenant, NEW resource,
           t \in Manages[a], calls[c].pc # "audit",
           Continue(c, kind, a, t, "audit", resource, None)
    PROVE  ActsFor(c, t)
<1>1. /\ calls'[c].pc = "audit" /\ calls'[c].tenant = t /\ calls'[c].actor = a
    BY DEF Continue, TypeInv, CallsInv
<1> QED
    BY <1>1 DEF ActsFor

(* A step that writes a row is a statement of a call for the row's tenant. *)
LEMMA IsolationStep == TypeInv /\ [Next]_vars => RowsOfTenant
<1> SUFFICES ASSUME TypeInv, [Next]_vars PROVE RowsOfTenant
    OBVIOUS
<1>1. CASE UNCHANGED <<registries, credentials>>
    BY <1>1 DEF RowsOfTenant
<1>2. ASSUME NEW c \in Call, NEW t \in Tenant, ActsFor(c, t),
             NEW g \in Registry, NEW row \in Row, row.tenant = t,
             registries' = [registries EXCEPT ![g] = row], UNCHANGED credentials
      PROVE  RowsOfTenant
    <2>1. \A h \in Registry : registries'[h] # registries[h] => registries'[h].tenant = t
        BY <1>2 DEF TypeInv
    <2> QED
        BY <1>2, <2>1 DEF RowsOfTenant
<1>3. ASSUME NEW c \in Call, CreateRegistry(c) PROVE RowsOfTenant
    <2>1. PICK a \in Actor, t \in Tenant, g \in Registry, m \in Mount, s \in Settings :
            CreateRegistry(c)!(a, t, g, m, s)
        BY <1>3 DEF CreateRegistry
    <2>2. t \in Manages[a] /\ calls[c].pc # "audit"
        BY <2>1 DEF Starts, Idle
    <2>3. CASE MountFree(registries, t, m) /\ ReferenceExists(t, s)
        <3> DEFINE row == [tenant |-> t, mount |-> m, adapter |-> "npm", deleted |-> FALSE,
                           set |-> [s EXCEPT !.url = Trimmed(@)]]
        <3>1. row \in Row /\ row.tenant = t
            BY TrimmedTyped DEF Row
        <3>2. /\ registries' = [registries EXCEPT ![g] = row] /\ UNCHANGED credentials
              /\ Continue(c, "registry", a, t, "audit", g, None)
            BY <2>1, <2>3
        <3> HIDE DEF row
        <3>3. ActsFor(c, t)
            BY <2>2, <3>2, WriteActsFor
        <3> QED
            BY <1>2, <3>1, <3>2, <3>3
    <2>4. CASE ~(MountFree(registries, t, m) /\ ReferenceExists(t, s))
        BY <1>1, <2>1, <2>4
    <2> QED
        BY <2>3, <2>4
<1>4. ASSUME NEW c \in Call, UpdateRegistry(c) PROVE RowsOfTenant
    <2>1. calls[c] \in Handling /\ Prepared(calls[c]) /\ calls[c].pc = "update"
        BY <1>4 DEF UpdateRegistry, TypeInv, CallsInv, Idle
    <2>2. PICK g \in Registry, a \in Actor, t \in Tenant, s \in Settings :
            /\ g = calls[c].resource /\ a = calls[c].actor /\ t = calls[c].tenant
            /\ s = calls[c].arg /\ t \in Manages[a]
        BY <2>1 DEF Prepared, Handling
    <2>3. CASE Selects(t, g) /\ ReferenceExists(t, s)
        <3> DEFINE row == [registries[g] EXCEPT !.set = s]
        <3>1. registries[g] \in Row /\ registries[g].tenant = t
            BY <2>3 DEF Selects, TypeInv
        <3>2. row \in Row /\ row.tenant = t
            BY <3>1 DEF Row
        <3>3. /\ registries' = [registries EXCEPT ![g] = row] /\ UNCHANGED credentials
              /\ Continue(c, "registry", a, t, "audit", g, None)
            BY <1>4, <2>2, <2>3 DEF UpdateRegistry
        <3> HIDE DEF row
        <3>4. ActsFor(c, t)
            BY <2>1, <2>2, <3>3, WriteActsFor
        <3> QED
            BY <1>2, <3>2, <3>3, <3>4
    <2>4. CASE ~(Selects(t, g) /\ ReferenceExists(t, s))
        BY <1>1, <1>4, <2>2, <2>4 DEF UpdateRegistry
    <2> QED
        BY <2>3, <2>4
<1>5. ASSUME NEW c \in Call, DeleteRegistry(c) PROVE RowsOfTenant
    <2>1. calls[c] \in Handling /\ Prepared(calls[c]) /\ calls[c].pc = "delete"
        BY <1>5 DEF DeleteRegistry, TypeInv, CallsInv, Idle
    <2>2. PICK g \in Registry, a \in Actor, t \in Tenant :
            /\ g = calls[c].resource /\ a = calls[c].actor /\ t = calls[c].tenant
            /\ t \in Manages[a]
        BY <2>1 DEF Prepared, Handling
    <2>3. CASE Selects(t, g)
        <3>1. registries[g] # None /\ registries[g].tenant = t
            BY <2>3 DEF Selects
        <3>2. /\ registries' = [registries EXCEPT ![g].deleted = TRUE, ![g].set.enabled = FALSE]
              /\ Continue(c, "registry", a, t, "audit", g, None) /\ UNCHANGED credentials
            BY <1>5, <2>2, <2>3 DEF DeleteRegistry
        <3>3. PICK row \in Row : /\ registries' = [registries EXCEPT ![g] = row]
                                 /\ row.tenant = registries[g].tenant
            BY <3>1, <3>2, DeletedRow DEF TypeInv
        <3>4. ActsFor(c, t)
            BY <2>1, <2>2, <3>2, WriteActsFor
        <3>5. row.tenant = t
            BY <3>1, <3>3
        <3> QED
            BY <1>2, <3>2, <3>3, <3>4, <3>5
    <2>4. CASE ~Selects(t, g)
        BY <1>1, <1>5, <2>2, <2>4 DEF DeleteRegistry
    <2> QED
        BY <2>3, <2>4
<1>6. ASSUME NEW c \in Call, NEW t \in Tenant, ActsFor(c, t),
             NEW k \in Credential, NEW value, UNCHANGED registries,
             credentials' = [credentials EXCEPT ![k] = value],
             \/ credentials[k] = None /\ value.tenant = t
             \/ credentials[k] # None /\ credentials[k].tenant = t
      PROVE  RowsOfTenant
    <2>1. /\ credentials'[k] = value
          /\ \A j \in Credential : j # k => credentials'[j] = credentials[j]
        BY <1>6 DEF TypeInv
    <2>2. ActsFor(c, IF credentials[k] = None THEN credentials'[k].tenant
                     ELSE credentials[k].tenant)
        BY <1>6, <2>1
    <2> QED
        BY <1>6, <2>1, <2>2 DEF RowsOfTenant
<1>7. ASSUME NEW c \in Call, CreateCredential(c) PROVE RowsOfTenant
    <2>1. PICK a \in Actor, t \in Tenant, k \in Credential, n \in Name :
            CreateCredential(c)!(a, t, k, n)
        BY <1>7 DEF CreateCredential
    <2>2. t \in Manages[a] /\ calls[c].pc # "audit" /\ credentials[k] = None
        BY <2>1 DEF Starts, Idle
    <2>3. CASE /\ credentials' = [credentials EXCEPT ![k] = [tenant |-> t, name |-> n]]
               /\ Continue(c, "credential", a, t, "audit", k, None)
        <3>1. ActsFor(c, t)
            BY <2>2, <2>3, WriteActsFor
        <3> QED
            BY <1>6, <2>1, <2>2, <2>3, <3>1
    <2>4. CASE UNCHANGED credentials
        BY <1>1, <2>1, <2>4
    <2> QED
        BY <2>1, <2>3, <2>4
<1>8. ASSUME NEW c \in Call, DeleteCredential(c) PROVE RowsOfTenant
    <2>1. calls[c] \in Handling /\ Prepared(calls[c]) /\ calls[c].pc = "drop"
        BY <1>8 DEF DeleteCredential, TypeInv, CallsInv, Idle
    <2>2. PICK k \in Credential, a \in Actor, t \in Tenant :
            /\ k = calls[c].resource /\ a = calls[c].actor /\ t = calls[c].tenant
            /\ t \in Manages[a]
        BY <2>1 DEF Prepared, Handling
    <2>3. CASE credentials[k] # None /\ credentials[k].tenant = t /\ ~Referenced(k)
        <3>1. /\ credentials' = [credentials EXCEPT ![k] = None] /\ UNCHANGED registries
              /\ Continue(c, "credential", a, t, "audit", k, None)
            BY <1>8, <2>2, <2>3 DEF DeleteCredential
        <3>2. ActsFor(c, t)
            BY <2>1, <2>2, <3>1, WriteActsFor
        <3> QED
            BY <1>6, <2>3, <3>1, <3>2
    <2>4. CASE ~(credentials[k] # None /\ credentials[k].tenant = t /\ ~Referenced(k))
        BY <1>1, <1>8, <2>2, <2>4 DEF DeleteCredential
    <2> QED
        BY <2>3, <2>4
<1>9. \/ UNCHANGED <<registries, credentials>>
      \/ \E c \in Call : \/ CreateRegistry(c) \/ UpdateRegistry(c) \/ DeleteRegistry(c)
                         \/ CreateCredential(c) \/ DeleteCredential(c)
    BY DEF Next, vars, Refuse, SelectRegistry, CheckRequests, RotateCredential, CheckReferences,
           Audit, NotifyReload, TimeOut, ReloadSelect, ReloadReplace, ProxyRestart, Requested
<1> QED
    BY <1>1, <1>3, <1>4, <1>5, <1>7, <1>8, <1>9

(* A registry or a credential is changed only by a call for its tenant, made *)
(* for an actor with a managing role in it, although the UPDATE and the      *)
(* DELETE run statements after the check of the role.                        *)
THEOREM TenantsIsolated == Spec => TenantIsolation
<1>1. TypeInv /\ [Next]_vars => [RowsOfTenant]_vars
    BY IsolationStep
<1>2. Spec => [][RowsOfTenant]_vars
    BY <1>1, RowsInvariance, PTL DEF Spec
<1> QED
    BY <1>2 DEF TenantIsolation, RowsOfTenant

-----------------------------------------------------------------------------
(* The life of a row, and what the proxy serves of it.                       *)

(* Once inserted, a row keeps its tenant, its mount and its adapter; once    *)
(* deleted, it does not change any more.                                     *)
RowLasts(row, next) ==
    row # None =>
        /\ next # None
        /\ next.tenant = row.tenant /\ next.mount = row.mount /\ next.adapter = row.adapter
        /\ row.deleted => next = row

RowsLast == \A g \in Registry : RowLasts(registries[g], registries'[g])

(* Neither an UPDATE whose row was read before the deletion nor a second     *)
(* DELETE finds a deleted row.                                               *)
LEMMA RowsLastStep ==
    ASSUME TypeInv, [Next]_vars
    PROVE  RowsLast
<1>1. CASE UNCHANGED registries
    BY <1>1 DEF RowsLast, RowLasts
<1>2. ASSUME NEW g \in Registry, NEW row \in Row, registries' = [registries EXCEPT ![g] = row],
             RowLasts(registries[g], row)
      PROVE  RowsLast
    <2>1. \A h \in Registry : registries'[h] = IF h = g THEN row ELSE registries[h]
        BY <1>2 DEF TypeInv
    <2> QED
        BY <1>2, <2>1 DEF RowsLast, RowLasts
<1>3. ASSUME NEW c \in Call, CreateRegistry(c) PROVE RowsLast
    <2>1. PICK a \in Actor, t \in Tenant, g \in Registry, m \in Mount, s \in Settings :
            CreateRegistry(c)!(a, t, g, m, s)
        BY <1>3 DEF CreateRegistry
    <2> DEFINE row == [tenant |-> t, mount |-> m, adapter |-> "npm", deleted |-> FALSE,
                       set |-> [s EXCEPT !.url = Trimmed(@)]]
    <2>2. UNCHANGED registries \/ registries' = [registries EXCEPT ![g] = row]
        BY <2>1
    <2>3. row \in Row /\ registries[g] = None
        BY <2>1, TrimmedTyped DEF Row
    <2> HIDE DEF row
    <2> QED
        BY <1>1, <1>2, <2>2, <2>3 DEF RowLasts
<1>4. ASSUME NEW c \in Call, UpdateRegistry(c) PROVE RowsLast
    <2>1. calls[c] \in Handling /\ Prepared(calls[c]) /\ calls[c].pc = "update"
        BY <1>4 DEF UpdateRegistry, TypeInv, CallsInv, Idle
    <2>2. PICK g \in Registry, a \in Actor, t \in Tenant, s \in Settings :
            /\ g = calls[c].resource /\ a = calls[c].actor /\ t = calls[c].tenant
            /\ s = calls[c].arg
        BY <2>1 DEF Prepared, Handling
    <2> DEFINE row == [registries[g] EXCEPT !.set = s]
    <2>3. CASE Selects(t, g) /\ ReferenceExists(t, s)
        <3>1. registries[g] \in Row /\ ~registries[g].deleted
            BY <2>3 DEF Selects, TypeInv
        <3>2. /\ row \in Row /\ row.tenant = registries[g].tenant
              /\ row.mount = registries[g].mount /\ row.adapter = registries[g].adapter
            BY <3>1 DEF Row
        <3>3. registries' = [registries EXCEPT ![g] = row]
            BY <1>4, <2>2, <2>3 DEF UpdateRegistry
        <3> HIDE DEF row
        <3>4. row # None
            BY <3>2, NoneAssumption
        <3>5. RowLasts(registries[g], row)
            BY <3>1, <3>2, <3>4 DEF RowLasts
        <3> QED
            BY <1>2, <3>2, <3>3, <3>5
    <2>4. CASE ~(Selects(t, g) /\ ReferenceExists(t, s))
        BY <1>1, <1>4, <2>2, <2>4 DEF UpdateRegistry
    <2> QED
        BY <2>3, <2>4
<1>5. ASSUME NEW c \in Call, DeleteRegistry(c) PROVE RowsLast
    <2>1. calls[c] \in Handling /\ Prepared(calls[c]) /\ calls[c].pc = "delete"
        BY <1>5 DEF DeleteRegistry, TypeInv, CallsInv, Idle
    <2>2. PICK g \in Registry, a \in Actor, t \in Tenant :
            g = calls[c].resource /\ a = calls[c].actor /\ t = calls[c].tenant
        BY <2>1 DEF Prepared, Handling
    <2>3. CASE Selects(t, g)
        <3>1. registries[g] # None /\ registries[g] \in Row /\ ~registries[g].deleted
            BY <2>3 DEF Selects, TypeInv
        <3>2. registries' = [registries EXCEPT ![g].deleted = TRUE, ![g].set.enabled = FALSE]
            BY <1>5, <2>2, <2>3 DEF DeleteRegistry
        <3> DEFINE set == [registries[g].set EXCEPT !.enabled = FALSE]
                   row == [[registries[g] EXCEPT !.deleted = TRUE] EXCEPT !.set = set]
        <3>3. set \in Settings
            BY <3>1 DEF Row, Settings
        <3>4. [[registries[g] EXCEPT !.deleted = TRUE] EXCEPT !.set.enabled = FALSE] = row
            BY <3>1 DEF Row
        <3>5. registries' = [registries EXCEPT ![g] = row]
            BY <3>2, <3>4
        <3> HIDE DEF set
        <3>6. /\ row \in Row /\ row.tenant = registries[g].tenant
              /\ row.mount = registries[g].mount /\ row.adapter = registries[g].adapter
            BY <3>1, <3>3 DEF Row
        <3> HIDE DEF row
        <3>7. row # None
            BY <3>6, NoneAssumption
        <3>8. RowLasts(registries[g], row)
            BY <3>1, <3>6, <3>7 DEF RowLasts
        <3> QED
            BY <1>2, <3>5, <3>6, <3>8
    <2>4. CASE ~Selects(t, g)
        BY <1>1, <1>5, <2>2, <2>4 DEF DeleteRegistry
    <2> QED
        BY <2>3, <2>4
<1>6. \/ UNCHANGED registries
      \/ \E c \in Call : CreateRegistry(c) \/ UpdateRegistry(c) \/ DeleteRegistry(c)
    BY DEF Next, vars, Refuse, SelectRegistry, CheckRequests, RotateCredential, CheckReferences,
           CreateCredential, DeleteCredential, Audit, NotifyReload, TimeOut, ReloadSelect,
           ReloadReplace, ProxyRestart, Requested
<1> QED
    BY <1>1, <1>3, <1>4, <1>5, <1>6

(* A row is written in place and never brought back: an update that has read *)
(* it before another call deleted it changes nothing.                        *)
THEOREM DeletedForGood == Spec => [][RowsLast]_vars
<1>1. TypeInv /\ [Next]_vars => [RowsLast]_vars
    BY RowsLastStep
<1> QED
    BY <1>1, RowsInvariance, PTL DEF Spec

(* What the proxy serves and what any reload holds, however old the rows are *)
(* that the reload has read.                                                 *)
StoresServeable ==
    /\ Serveable(store)
    /\ Loadable(store)
    /\ \A c \in Call : Serveable(reloads[c].configs)

(* What the SELECT returns can be served. *)
LEMMA EnabledServeable ==
    ASSUME TypeInv, RowsInv
    PROVE  Serveable(EnabledConfigs)
<1>1. /\ \A d, e \in EnabledConfigs : d.mount = e.mount => d.id = e.id
      /\ Tidy(EnabledConfigs) => Loadable(EnabledConfigs)
    BY RowsLoad
<1>2. ASSUME NEW d \in EnabledConfigs
      PROVE  /\ registries[d.id] # None
             /\ registries[d.id].tenant = d.tenant /\ registries[d.id].mount = d.mount
    BY DEF EnabledConfigs, Used
<1> QED
    BY <1>1, <1>2 DEF Serveable

(* Rows that last keep a set of configurations that can be served so. *)
LEMMA ServeableLasts ==
    ASSUME RowsLast, NEW configs \in SUBSET LoadedConfig, Serveable(configs)
    PROVE  Serveable(configs)'
<1>1. ASSUME NEW d \in configs
      PROVE  /\ registries'[d.id] # None
             /\ registries'[d.id].tenant = d.tenant /\ registries'[d.id].mount = d.mount
    BY DEF RowsLast, RowLasts, Serveable, LoadedConfig
<1>2. (\A c, d \in configs : c.mount = d.mount => c.id = d.id) /\ (Tidy(configs) => Loadable(configs))
    BY DEF Serveable
<1> QED
    BY <1>1, <1>2 DEF Serveable, Tidy, Loadable

(* Reloads select and replace in any order, and restarts come between. *)
LEMMA ServesStep ==
    ASSUME TypeInv, RowsInv, StoresServeable, [Next]_vars
    PROVE  StoresServeable'
<1>1. RowsLast
    BY RowsLastStep
<1>2. ASSUME NEW configs \in SUBSET LoadedConfig, Serveable(configs) PROVE Serveable(configs)'
    BY <1>1, <1>2, ServeableLasts
<1>3. /\ store \in SUBSET LoadedConfig
      /\ reloads \in [Call -> ReloadState]
      /\ \A c \in Call : reloads[c].configs \in SUBSET LoadedConfig
      /\ EnabledConfigs \in SUBSET LoadedConfig
    BY EnabledTyped DEF TypeInv, ReloadState
<1>4. Serveable({})'
    BY DEF Serveable, Loadable
<1>5. CASE UNCHANGED <<store, reloads>>
    BY <1>2, <1>3, <1>5 DEF StoresServeable, Serveable, Loadable
<1>6. ASSUME NEW c \in Call, NotifyReload(c) PROVE StoresServeable'
    <2>1. store' = store /\ \A d \in Call : reloads'[d].configs = reloads[d].configs
        BY <1>3, <1>6 DEF NotifyReload, ReloadState
    <2>2. Serveable(store)' /\ \A d \in Call : Serveable(reloads[d].configs)'
        BY <1>2, <1>3, <2>1 DEF StoresServeable, Serveable
    <2>3. Loadable(store)'
        BY <2>1 DEF StoresServeable, Loadable
    <2> QED
        BY <2>2, <2>3 DEF StoresServeable
<1>7. ASSUME NEW c \in Call, ReloadSelect(c) PROVE StoresServeable'
    <2>1. store' = store
          /\ \A d \in Call : reloads'[d].configs \in {reloads[d].configs, EnabledConfigs}
        BY <1>3, <1>7 DEF ReloadSelect
    <2>2. PICK E \in SUBSET LoadedConfig : E = EnabledConfigs
        BY <1>3
    <2>3. Serveable(E)
        BY <2>2, EnabledServeable
    <2>4. Serveable(E)'
        BY <1>2, <2>3
    <2>5. ASSUME NEW d \in Call PROVE Serveable(reloads[d].configs)'
        <3>1. PICK R \in SUBSET LoadedConfig : R = reloads[d].configs
            BY <1>3
        <3>2. Serveable(R)'
            BY <1>2, <3>1 DEF StoresServeable
        <3>3. reloads'[d].configs = R \/ reloads'[d].configs = E
            BY <2>1, <2>2, <3>1
        <3> QED
            BY <2>4, <3>2, <3>3 DEF Serveable
    <2>6. Serveable(store)'
        <3>1. PICK S \in SUBSET LoadedConfig : S = store
            BY <1>3
        <3>2. Serveable(S)'
            BY <1>2, <3>1 DEF StoresServeable
        <3> QED
            BY <2>1, <3>1, <3>2 DEF Serveable
    <2>7. Loadable(store)'
        BY <2>1 DEF StoresServeable, Loadable
    <2> QED
        BY <2>5, <2>6, <2>7 DEF StoresServeable
<1>8. ASSUME NEW c \in Call, ReloadReplace(c) PROVE StoresServeable'
    <2>1. store' = store \/ store' = reloads[c].configs
        BY <1>8 DEF ReloadReplace
    <2>2. \A d \in Call : reloads'[d].configs = IF d = c THEN {} ELSE reloads[d].configs
        BY <1>3, <1>8 DEF ReloadReplace, NoReload
    <2>3. PICK S \in SUBSET LoadedConfig, R \in SUBSET LoadedConfig :
            S = store /\ R = reloads[c].configs
        BY <1>3
    <2>4. Serveable(S)' /\ Serveable(R)'
        BY <1>2, <2>3 DEF StoresServeable
    <2>5. Serveable(store)'
        BY <2>1, <2>3, <2>4 DEF Serveable
    <2>6. ASSUME NEW d \in Call PROVE Serveable(reloads[d].configs)'
        <3>1. PICK D \in SUBSET LoadedConfig : D = reloads[d].configs
            BY <1>3
        <3>2. Serveable(D)'
            BY <1>2, <3>1 DEF StoresServeable
        <3> QED
            BY <1>4, <2>2, <3>1, <3>2 DEF Serveable
    <2>7. Loadable(store)'
        BY <1>8 DEF ReloadReplace, StoresServeable, Loadable
    <2> QED
        BY <2>5, <2>6, <2>7 DEF StoresServeable
<1>9. CASE ProxyRestart
    <2>1. store' = EnabledConfigs /\ \A d \in Call : reloads'[d].configs = {}
        BY <1>9 DEF ProxyRestart, NoReload
    <2>2. PICK E \in SUBSET LoadedConfig : E = EnabledConfigs
        BY <1>3
    <2>3. Serveable(E)'
        BY <1>2, <2>2, EnabledServeable
    <2> QED
        BY <1>4, <1>9, <2>1, <2>2, <2>3 DEF ProxyRestart, StoresServeable, Serveable, Loadable
<1>10. ASSUME NEW c \in Call,
              Refuse(c) \/ CreateRegistry(c) \/ SelectRegistry(c) \/ UpdateRegistry(c)
       PROVE  UNCHANGED <<store, reloads>>
    BY <1>10 DEF Refuse, CreateRegistry, SelectRegistry, UpdateRegistry
<1>11. ASSUME NEW c \in Call,
              CheckRequests(c) \/ DeleteRegistry(c) \/ RotateCredential(c) \/ CheckReferences(c)
       PROVE  UNCHANGED <<store, reloads>>
    BY <1>11 DEF CheckRequests, DeleteRegistry, RotateCredential, CheckReferences
<1>12. ASSUME NEW c \in Call,
              CreateCredential(c) \/ DeleteCredential(c) \/ Audit(c) \/ TimeOut(c)
       PROVE  UNCHANGED <<store, reloads>>
    BY <1>12 DEF CreateCredential, DeleteCredential, Audit, TimeOut
<1>13. CASE Requested \/ UNCHANGED vars
    BY <1>5, <1>13 DEF Requested, vars
<1> QED
    BY <1>5, <1>6, <1>7, <1>8, <1>9, <1>10, <1>11, <1>12, <1>13 DEF Next

(* Whatever order concurrent reloads select and replace in, and however late *)
(* one of them replaces the rows of another, the proxy serves a valid set    *)
(* with one registry per mount, and each under the tenant whose row it is;   *)
(* only an address that update_registry_config has stored untrimmed can keep *)
(* it from loading what all tenants have committed.                          *)
THEOREM ReloadsServeRows == Spec => []ProxyServesRows
<1>1. Init => StoresServeable
    <2> SUFFICES ASSUME Init PROVE StoresServeable
        OBVIOUS
    <2>1. Serveable(EnabledConfigs)
        BY TypeInit, RowsInit, EnabledServeable
    <2>2. \A c \in Call : reloads[c].configs = {}
        BY DEF Init, NoReload
    <2>3. Tidy(EnabledConfigs)
        BY DEF Init, Seeded, Tidy, EnabledConfigs, ProxyAccepts, Trimmed
    <2> QED
        BY <2>1, <2>2, <2>3 DEF Init, StoresServeable, Serveable, Loadable
<1>2. TypeInv /\ RowsInv /\ StoresServeable /\ [Next]_vars => StoresServeable'
    BY ServesStep
<1>3. TypeInv /\ RowsInv /\ StoresServeable => ProxyServesRows
    BY EnabledServeable DEF StoresServeable, ProxyServesRows
<1> QED
    BY <1>1, <1>2, <1>3, RowsInvariance, PTL DEF Spec

=============================================================================
