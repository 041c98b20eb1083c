SPECIFICATION Spec
CONSTANTS
    adminA = adminA
    memberA = memberA
    adminB = adminB
    tenantA = tenantA
    tenantB = tenantB
    kbA = kbA
    kbB = kbB
    good = good
    broken = broken
    garbled = garbled
    Unparsable = {garbled}
    NoDoc = NoDoc
    NoUser = NoUser
    NoRequest = NoRequest
    NoColumns = NoColumns
    Users <- OneUser
    Admins <- OneUser
    Tenants <- OneTenant
    TenantOf <- OneTenantOf
    KBs <- OneKB
    KBTenant <- OneKBTenant
    Contents <- TwoContents
    ChunkTotal <- TwoChunkTotal
    Requests = {r1, r2, r3}
    Docs = {d1}
    ListChunksExecutes = FALSE
    MaxFaults = 0
SYMMETRY Symmetry
INVARIANTS
    ServerErrorOnlyAfterFault
