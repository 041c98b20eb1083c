SPECIFICATION Spec
CONSTANTS
    adminA = adminA
    memberA = memberA
    adminB = adminB
    tenantA = tenantA
    tenantB = tenantB
    host1 = host1
    host2 = host2
    partial = partial
    mysql = mysql
    NoConn = NoConn
    NoUser = NoUser
    NoRequest = NoRequest
    NoOwner = NoOwner
    NoRow = NoRow
    Postgres = Postgres
    Users <- OneUser
    Admins <- OneUser
    Tenants <- OneTenant
    TenantOf <- OneTenantOf
    Requests = {r1, r2, r3, r4}
    Conns = {c1}
    Names = {n1}
    Params <- OneHost
    Complete <- OneHost
    Kinds <- OneKind
    MaxFaults = 0
SYMMETRY Symmetry
PROPERTIES
    ResyncKeepsPermissions
