SPECIFICATION Spec
CONSTANTS
    adminA = adminA
    memberA = memberA
    adminB = adminB
    tenantA = tenantA
    tenantB = tenantB
    host1 = host1
    host2 = host2
    partial = partial
    mysql = mysql
    NoConn = NoConn
    NoUser = NoUser
    NoRequest = NoRequest
    NoOwner = NoOwner
    NoRow = NoRow
    Postgres = Postgres
    Users <- MCUsers
    Admins <- MCAdmins
    Tenants <- MCTenants
    TenantOf <- MCTenantOf
    Requests = {r1, r2, r3}
    Conns = {c1, c2}
    Names = {n1, n2}
    Params <- OneHost
    Complete <- OneHost
    Kinds <- BothKinds
    MaxFaults = 1
SYMMETRY Symmetry
INVARIANTS
    NamesAreUnique
    SubjectsBelongToTenant
