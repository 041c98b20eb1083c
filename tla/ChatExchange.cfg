SPECIFICATION Spec
CONSTANTS
    alice = alice
    bob = bob
    carol = carol
    tenantA = tenantA
    tenantB = tenantB
    connA = connA
    kbA = kbA
    d1 = d1
    d2 = d2
    NoConv = NoConv
    NoUser = NoUser
    NoConn = NoConn
    NoKB = NoKB
    NoRow = NoRow
    Users <- MCUsers
    Tenants <- MCTenants
    TenantOf <- MCTenantOf
    Conns <- MCConns
    ConnTenant <- MCConnTenant
    KBs <- MCKBs
    KBTenant <- MCKBTenant
    Docs <- MCDocs
    DocKB <- MCDocKB
    Requests = {r1, r2, r3}
    Convs = {v1}
    MaxGeneration = 2
    MaxFaults = 1
SYMMETRY Symmetry
INVARIANTS
    TypeOK
    ExchangeIsWhole
    EvidenceNeverDangles
    QueriesAreOnRecord
    HybridExchangeIsAudited
    ConversationIsPrivate
    ListedAnswersAreCited
PROPERTIES
    ImplementsLedger
