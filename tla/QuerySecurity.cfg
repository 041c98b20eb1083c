SPECIFICATION Spec
CONSTANTS
    full = full
    partial = partial
    NoMask = NoMask
    NoName = NoName
    NoStatement = NoStatement
    Permissions = {p1, p2, p3}
    PermissionRows <- MCPermissionRows
    Identifiers = {"public", "archive", "pg_catalog", "orders", "clients",
                   "Clients", "id", "mail", "Mail", "contact", "o", "c"}
    Lower <- MCLower
    SystemSchemas = {"pg_catalog"}
    Tables <- MCTables
    SchemaName <- MCSchemaName
    TableName <- MCTableName
    Columns <- MCColumns
    ColumnTable <- MCColumnTable
    ColumnName <- MCColumnName
    Masks <- MCMasks
    Statements <- MCStatements
    Blocks = {"main", "sub", "cte"}
    CteBlocks = {"cte"}
    MaximumRows = 3
SYMMETRY MCSymmetry
INVARIANTS
    TypeOK
    SchemaIsOneSnapshot
    ExecutedIsPermitted
    RowFiltersAreInjected
    LimitIsBounded
    MaskedIfAnyGrantMasks
