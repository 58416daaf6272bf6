SPECIFICATION Spec
CONSTANTS
    t1 = t1  t2 = t2  alice = alice  bob = bob
    Tenant = {t1, t2}
    Actor = {alice, bob}
    Registry = {g1, g2}
    Credential = {k1}
    Mount = {m}
    Name = {"token"}
    Call = {c1, c2}
    Manages <- MCManages
    Faults = {"audit", "notify", "restart"}
    MaxSeeded = 1
    None = None
SYMMETRY Symmetry
VIEW View
CHECK_DEADLOCK FALSE
INVARIANTS
    ProxyServesRows
    CredentialOfRegistry
PROPERTIES
    TenantIsolation
