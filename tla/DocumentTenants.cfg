SPECIFICATION Spec
CONSTANTS
    adminA = adminA
    memberA = memberA
    adminB = adminB
    tenantA = tenantA
    tenantB = tenantB
    kbA = kbA
    kbB = kbB
    good = good
    broken = broken
    garbled = garbled
    Unparsable = {garbled}
    NoDoc = NoDoc
    NoUser = NoUser
    NoRequest = NoRequest
    NoColumns = NoColumns
    Users <- MCUsers
    Admins <- MCAdmins
    Tenants <- MCTenants
    TenantOf <- MCTenantOf
    KBs <- MCKBs
    KBTenant <- MCKBTenant
    Contents <- MCContents
    ChunkTotal <- MCChunkTotal
    Requests = {r1, r2, r3}
    Docs = {d1, d2}
    ListChunksExecutes = FALSE
    MaxFaults = 1
SYMMETRY Symmetry
INVARIANTS
    TenantIsolation
    RowsAndObjectsAgree
