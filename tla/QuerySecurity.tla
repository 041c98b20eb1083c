---------------------------- MODULE QuerySecurity ----------------------------
(***************************************************************************)
(* The way of one proposed statement to the remote database: the user's    *)
(* table permissions are merged into the schema that is allowed, the       *)
(* statement is validated, mandatory row filters are injected, the result  *)
(* is validated again, executed and masked.  The permissions are read in   *)
(* two statements, between which others may be granted or, by a            *)
(* synchronisation, deleted; rows of one table come in no fixed order.     *)
(*                                                                         *)
(* SQL is abstracted to what the checks look at: the table references with *)
(* their aliases, the column references with their qualifiers and uses, a  *)
(* star, the limit, the names of common table expressions and of the       *)
(* output columns.  Names are those the database sees, unquoted ones       *)
(* folded; the checks compare them in lower case, which is not what the    *)
(* database does, and know one dictionary of names for all query blocks.   *)
(***************************************************************************)
EXTENDS Naturals, FiniteSets

CONSTANTS
    Permissions,      \* table_permissions of the user and of the user's roles
    PermissionRows,   \* what such a row may say
    Identifiers,      \* names of schemas, tables, columns, aliases, outputs
    Lower,            \* name.lower()
    SystemSchemas,    \* SYSTEM_SCHEMAS
    Tables, SchemaName, TableName,           \* names as discovered
    Columns, ColumnTable, ColumnName,
    Masks, NoMask,
    Statements,       \* what may be proposed
    Blocks,           \* query blocks of a statement (each a SELECT)
    CteBlocks,        \* those inside a common table expression
    MaximumRows,      \* sql_default_row_limit
    NoName, NoStatement

\* read of a column is FALSE when there is no column_permissions row for it.
ColumnPermission == [read : BOOLEAN, filter : BOOLEAN, aggregate : BOOLEAN,
                     mask : Masks \cup {NoMask}]

\* rules: the columns the rules of the row filter are about; sound: operators
\* and values are such that the expressions can be built.
TablePermission == [table : Tables, read : BOOLEAN, rules : SUBSET Columns,
                    sound : BOOLEAN, cols : [Columns -> ColumnPermission]]

\* pos is the place of the reference in the order of find_all.
TableReference == [pos : Nat, block : Blocks, schema : Identifiers \cup {NoName},
                   name : Identifiers, alias : Identifiers \cup {NoName}]
ColumnReference == [name : Identifiers, qualifier : Identifiers \cup {NoName},
                    use : SUBSET {"filter", "aggregate"}]

\* form: "query" is one statement that parses, has no comment and only reads,
\* "refused" is any other that can be tokenized, "untokenized" one that cannot.
\* limit is 0 where there is none or it is not an integer literal.
Statement == [form : {"query", "refused", "untokenized"}, star : BOOLEAN,
              ctes : SUBSET Identifiers, refs : SUBSET TableReference,
              cols : SUBSET ColumnReference, outputs : SUBSET Identifiers,
              limit : Nat]

ASSUME ConstantsAssumption ==
    /\ Lower \in [Identifiers -> Identifiers]
    /\ \A n \in Identifiers : Lower[Lower[n]] = Lower[n]
    /\ NoName \notin Identifiers
    /\ SchemaName \in [Tables -> Identifiers]
    /\ TableName \in [Tables -> Identifiers]
    /\ \A t, u \in Tables :
           SchemaName[t] = SchemaName[u] /\ TableName[t] = TableName[u] => t = u
    /\ ColumnTable \in [Columns -> Tables]
    /\ ColumnName \in [Columns -> Identifiers]
    /\ \A c, d \in Columns :
           ColumnTable[c] = ColumnTable[d] /\ ColumnName[c] = ColumnName[d]
               => c = d
    /\ NoMask \notin Masks
    /\ PermissionRows \subseteq TablePermission
    /\ Statements \subseteq Statement
    /\ NoStatement \notin Statement
    /\ CteBlocks \subseteq Blocks
    /\ MaximumRows \in Nat \ {0}

VARIABLES
    granted,     \* table_permissions and their columns: the rows there are now
    perms,       \* what each row says, or would say
    rows,        \* the readable permission rows that were read
    columns,     \* those whose column permissions were read
    merged,      \* those the loop has gone through
    tables,      \* AllowedSchema.tables
    rowFilters,  \* AllowedTable.row_filters: the permissions they come from
    readable, filterable, aggregable, mask,  \* AllowedTable.columns
    proposed,    \* the statement as proposed
    stmt,        \* the statement as it is now
    injected,    \* the filters injected: reference, table and permission
    flag,        \* row_filters_applied
    masked,      \* the masks put on the output columns
    pc

schema == <<tables, rowFilters, readable, filterable, aggregable, mask>>
reading == <<rows, columns, merged>>
query == <<proposed, stmt, injected, flag, masked>>
vars == <<granted, perms, rows, columns, merged, tables, rowFilters, readable,
          filterable, aggregable, mask, proposed, stmt, injected, flag, masked,
          pc>>

TypeOK ==
    /\ granted \in SUBSET Permissions
    /\ perms \in [Permissions -> PermissionRows]
    /\ rows \in SUBSET Permissions
    /\ columns \in SUBSET rows
    /\ merged \in SUBSET rows
    /\ tables \in SUBSET Tables
    /\ rowFilters \in [Tables -> SUBSET Permissions]
    /\ readable \in SUBSET Columns
    /\ filterable \in SUBSET readable
    /\ aggregable \in SUBSET readable
    /\ mask \in [Columns -> Masks \cup {NoMask}]
    /\ proposed \in Statements \cup {NoStatement}
    /\ stmt \in Statement \cup {NoStatement}
    /\ injected \in SUBSET (TableReference \X Tables \X Permissions)
    /\ flag \in BOOLEAN
    /\ masked \in [Identifiers -> Masks \cup {NoMask}]
    /\ pc \in {"permissions", "columns", "merge", "initial", "inject",
               "final", "execute", "executed", "failed", "rejected", "raised"}

Init ==
    /\ granted \in SUBSET Permissions
    /\ perms \in [Permissions -> PermissionRows]
    /\ rows = {} /\ columns = {} /\ merged = {}
    /\ tables = {}
    /\ rowFilters = [t \in Tables |-> {}]
    /\ readable = {} /\ filterable = {} /\ aggregable = {}
    /\ mask = [c \in Columns |-> NoMask]
    /\ proposed = NoStatement /\ stmt = NoStatement
    /\ injected = {} /\ flag = FALSE
    /\ masked = [n \in Identifiers |-> NoMask]
    /\ pc = "permissions"

-----------------------------------------------------------------------------
(* build_permission_filtered_schema.                                       *)

ReadPermissions ==
    /\ pc = "permissions"
    /\ rows' = {p \in granted : perms[p].read}
    /\ pc' = "columns"
    /\ UNCHANGED <<granted, perms, columns, merged, schema, query>>

ReadColumns ==
    /\ pc = "columns"
    /\ columns' = rows \cap granted
    /\ pc' = "merge"
    /\ UNCHANGED <<granted, perms, rows, merged, schema, query>>

\* The columns a permission makes readable, as far as they were read.
ColumnsOf(p) ==
    IF p \in columns
    THEN {c \in Columns : ColumnTable[c] = perms[p].table
                              /\ perms[p].cols[c].read}
    ELSE {}

\* The flags are or-ed over the rows.  Mutant: columns that cannot be read are
\* not skipped.
MergeFilterHidden(p) ==
    filterable \cup {c \in Columns : ColumnTable[c] = perms[p].table
                                         /\ perms[p].cols[c].filter}

MergeFilter(p) ==
    filterable \cup {c \in ColumnsOf(p) : perms[p].cols[c].filter}

MergeAggregate(p) ==
    aggregable \cup {c \in ColumnsOf(p) : perms[p].cols[c].aggregate}

\* The first mask of a column stays.  Mutant: the last row has its way.
MergeMaskLast(p) ==
    [c \in Columns |-> IF c \in ColumnsOf(p) THEN perms[p].cols[c].mask
                                             ELSE mask[c]]

MergeMask(p) ==
    [c \in Columns |-> IF c \in ColumnsOf(p) /\ mask[c] = NoMask
                       THEN perms[p].cols[c].mask ELSE mask[c]]

\* merge_row_filter: a filter with rules is appended.
MergeRowFilter(p) ==
    [rowFilters EXCEPT ![perms[p].table] =
        IF perms[p].rules = {} THEN @ ELSE @ \cup {p}]

\* One turn of the loop over readable_permission_rows.
MergePermission(p) ==
    /\ pc = "merge"
    /\ p \in rows \ merged
    /\ merged' = merged \cup {p}
    /\ tables' = tables \cup {perms[p].table}
    /\ rowFilters' = MergeRowFilter(p)
    /\ readable' = readable \cup ColumnsOf(p)
    /\ filterable' = MergeFilter(p)
    /\ aggregable' = MergeAggregate(p)
    /\ mask' = MergeMask(p)
    /\ UNCHANGED <<granted, perms, rows, columns, query, pc>>

\* Tables without a readable column are dropped; prepare_validated_sql then
\* refuses to go on without any table.
DropEmptyTables(s) ==
    /\ pc = "merge"
    /\ merged = rows
    /\ tables' = {t \in tables : \E c \in readable : ColumnTable[c] = t}
    /\ proposed' = s
    /\ stmt' = s
    /\ pc' = IF tables' = {} THEN "rejected" ELSE "initial"
    /\ UNCHANGED <<granted, perms, reading, rowFilters, readable, filterable,
                   aggregable, mask, injected, flag, masked>>

-----------------------------------------------------------------------------
(* validate_sql.                                                           *)

CteNames(s) == {Lower[n] : n \in s.ctes}

\* resolve_allowed_table, and resolve_select_table of the row filters.
AllowedMatches(ref) ==
    IF ref.schema = NoName
    THEN {t \in tables : Lower[TableName[t]] = Lower[ref.name]}
    ELSE {t \in tables : /\ SchemaName[t] = Lower[ref.schema]
                         /\ TableName[t] = Lower[ref.name]}

\* A reference named like a common table expression is skipped, qualified or
\* not.
CheckedReferences(s) == {ref \in s.refs : Lower[ref.name] \notin CteNames(s)}

ReferencedTables(s) == UNION {AllowedMatches(ref) : ref \in CheckedReferences(s)}

TablesAllowed(s) ==
    /\ \A ref \in CheckedReferences(s) :
           /\ ref.schema # NoName => Lower[ref.schema] \notin SystemSchemas
           /\ Cardinality(AllowedMatches(ref)) = 1
    /\ ReferencedTables(s) # {}

\* The names a reference is entered under.
LookupNames(ref) == {Lower[n] : n \in {ref.name, ref.alias} \ {NoName}}

\* table_lookup[name]: of the references of all blocks entered under a name the
\* last one stays.
TableLookup(s, name) ==
    LET entered == {ref \in CheckedReferences(s) : name \in LookupNames(ref)}
        last == {ref \in entered : \A other \in entered : other.pos <= ref.pos}
    IN  UNION {AllowedMatches(ref) : ref \in last}

\* A qualified column belongs to the table its qualifier stands for, a bare one
\* to exactly one of the referenced tables, of whatever block.
ColumnMatches(s, col) ==
    {c \in readable :
        /\ ColumnName[c] = Lower[col.name]
        /\ ColumnTable[c] \in IF col.qualifier = NoName THEN ReferencedTables(s)
                              ELSE TableLookup(s, Lower[col.qualifier])}

ValidateColumnAccess(c, use) ==
    /\ "filter" \in use => c \in filterable
    /\ "aggregate" \in use => c \in aggregable

ColumnsAllowed(s) ==
    /\ ~s.star
    /\ s.cols # {}
    /\ \A col \in s.cols :
           /\ Cardinality(ColumnMatches(s, col)) = 1
           /\ \A c \in ColumnMatches(s, col) : ValidateColumnAccess(c, col.use)

Valid(s) == s.form = "query" /\ TablesAllowed(s) /\ ColumnsAllowed(s)

\* Mutant: the upper bound is not checked.
ApplyRowLimitUnbounded(limit) == IF limit >= 1 THEN limit ELSE MaximumRows

ApplyRowLimit(limit) == IF limit \in 1 .. MaximumRows THEN limit ELSE MaximumRows

\* Only ParseError is caught: a TokenError leaves the request.
Validate(next) ==
    \/ /\ Valid(stmt)
       /\ stmt' = [stmt EXCEPT !.limit = ApplyRowLimit(@)]
       /\ pc' = next
    \/ /\ ~Valid(stmt)
       /\ pc' = IF stmt.form = "untokenized" THEN "raised" ELSE "rejected"
       /\ UNCHANGED stmt

InitialValidation ==
    /\ pc = "initial"
    /\ Validate("inject")
    /\ UNCHANGED <<granted, perms, reading, schema, proposed, injected, flag,
                   masked>>

\* Mutant: the secured statement is taken as it is.
FinalValidationSkipped ==
    /\ pc = "final"
    /\ pc' = "execute"
    /\ UNCHANGED <<granted, perms, reading, schema, query>>

FinalValidation ==
    /\ pc = "final"
    /\ Validate("execute")
    /\ UNCHANGED <<granted, perms, reading, schema, proposed, injected, flag,
                   masked>>

-----------------------------------------------------------------------------
(* inject_mandatory_row_filters.                                           *)

\* Mutant: only references by the bare name are resolved.
FilteredReferencesBare(s) ==
    {ref \in s.refs : ref.block \notin CteBlocks /\ ref.schema = NoName}

\* References inside a common table expression are passed over.
FilteredReferences(s) == {ref \in s.refs : ref.block \notin CteBlocks}

\* What is injected: each filter of each table, where it is referenced.
MandatoryFilters(s) ==
    {f \in FilteredReferences(s) \X tables \X Permissions :
        f[2] \in AllowedMatches(f[1]) /\ f[3] \in rowFilters[f[2]]}

\* RowFilterError: a name with two matches, a rule on a column that is not
\* allowed, an operator or value that cannot be built.
InjectionFails(s) ==
    \/ \E ref \in FilteredReferences(s) : Cardinality(AllowedMatches(ref)) > 1
    \/ \E f \in MandatoryFilters(s) :
           \/ ~perms[f[3]].sound
           \/ \E c \in perms[f[3]].rules :
                  c \notin readable \/ ColumnTable[c] # f[2]

\* The column a rule is about, by the alias or the name of the reference;
\* exp.column does not quote, so the names are folded.
FilterColumn(ref, c) ==
    [name |-> Lower[ColumnName[c]],
     qualifier |-> Lower[IF ref.alias # NoName THEN ref.alias ELSE ref.name],
     use |-> {"filter"}]

FilterColumns(filters) ==
    UNION {{FilterColumn(f[1], c) : c \in perms[f[3]].rules} : f \in filters}

InjectRowFilters ==
    /\ pc = "inject"
    /\ flag' = \E t \in tables : rowFilters[t] # {}
    /\ \/ /\ InjectionFails(stmt)
          /\ pc' = "rejected"
          /\ UNCHANGED <<stmt, injected>>
       \/ /\ ~InjectionFails(stmt)
          /\ injected' = MandatoryFilters(stmt)
          /\ stmt' = [stmt EXCEPT !.cols = @ \cup FilterColumns(injected')]
          /\ pc' = "final"
    /\ UNCHANGED <<granted, perms, reading, schema, proposed, masked>>

-----------------------------------------------------------------------------
(* execute_secured_query.                                                  *)

\* get_column_masks: masks go by the name, over all tables that are allowed.
MasksOf(name) ==
    {mask[c] : c \in {x \in readable : /\ Lower[ColumnName[x]] = name
                                       /\ ColumnTable[x] \in tables}}
        \ {NoMask}

\* Where tables disagree, the one that comes last in the dictionary wins.
ColumnMasks ==
    {m \in [{n \in Identifiers : MasksOf(n) # {}} -> Masks] :
        \A n \in DOMAIN m : m[n] \in MasksOf(n)}

\* serialize_record looks the mask up by the name of the output column, which
\* is not the name of a column where there is an alias or an expression.
ExecuteQuery ==
    /\ pc = "execute"
    /\ \E m \in ColumnMasks :
           masked' = [n \in Identifiers |->
                          IF n \in stmt.outputs /\ Lower[n] \in DOMAIN m
                          THEN m[Lower[n]] ELSE NoMask]
    /\ pc' = "executed"
    /\ UNCHANGED <<granted, perms, reading, schema, proposed, stmt, injected,
                   flag>>

\* A timeout, an error of the remote database, or a result that is too large.
ExecuteQueryFails ==
    /\ pc = "execute"
    /\ pc' = "failed"
    /\ UNCHANGED <<granted, perms, reading, schema, query>>

-----------------------------------------------------------------------------
(* Other requests: a permission is created, always as a new row; a          *)
(* synchronisation deletes the tables of the connection and, by cascade,   *)
(* every permission on them.                                               *)

GrantPermission(p) ==
    /\ pc \in {"permissions", "columns"}
    /\ p \notin granted \cup rows
    /\ granted' = granted \cup {p}
    /\ UNCHANGED <<perms, reading, schema, query, pc>>

\* Mutant: the tables, and with them the permissions, go one at a time.
SynchroniseByTable ==
    /\ pc \in {"permissions", "columns"}
    /\ \E p \in granted : granted' = granted \ {p}
    /\ UNCHANGED <<perms, reading, schema, query, pc>>

Synchronise ==
    /\ pc \in {"permissions", "columns"}
    /\ granted # {}
    /\ granted' = {}
    /\ UNCHANGED <<perms, reading, schema, query, pc>>

Terminated ==
    /\ pc \in {"executed", "failed", "rejected", "raised"}
    /\ UNCHANGED vars

Next ==
    \/ ReadPermissions \/ ReadColumns
    \/ \E p \in Permissions : MergePermission(p) \/ GrantPermission(p)
    \/ \E s \in Statements : DropEmptyTables(s)
    \/ InitialValidation \/ InjectRowFilters \/ FinalValidation
    \/ ExecuteQuery \/ ExecuteQueryFails
    \/ Synchronise
    \/ Terminated

Spec == Init /\ [][Next]_vars

-----------------------------------------------------------------------------
Prepared == pc \in {"execute", "executed", "failed"}

\* The readable permission rows p that make column c readable.
Grants(p, c) ==
    /\ p \in rows
    /\ ColumnTable[c] = perms[p].table
    /\ perms[p].cols[c].read

\* Whatever is granted or synchronised away between the two statements that
\* read the permissions, and in whatever order the rows of a table come, the
\* schema a statement is validated against is the union of the rows the first
\* statement read, or there is no table in it (build_permission_filtered_schema).
SchemaIsOneSnapshot ==
    pc \notin {"permissions", "columns", "merge"} =>
        \/ tables = {}
        \/ /\ readable = {c \in Columns : \E p \in rows : Grants(p, c)}
           /\ tables = {ColumnTable[c] : c \in readable}
           /\ filterable = {c \in Columns : \E p \in rows :
                                Grants(p, c) /\ perms[p].cols[c].filter}
           /\ aggregable = {c \in Columns : \E p \in rows :
                                Grants(p, c) /\ perms[p].cols[c].aggregate}

\* What the remote database may take a reference or a column for.  The code
\* does not set the search path, so a bare table may be in any schema; a name
\* may differ from what it denotes in case only.
MayDenote(ref) ==
    {t \in Tables :
        /\ Lower[TableName[t]] = Lower[ref.name]
        /\ ref.schema # NoName => Lower[SchemaName[t]] = Lower[ref.schema]}

MayRead(s, col) ==
    {c \in Columns :
        /\ Lower[ColumnName[c]] = Lower[col.name]
        /\ \E ref \in s.refs :
               /\ ColumnTable[c] \in MayDenote(ref)
               /\ col.qualifier # NoName =>
                      Lower[col.qualifier] \in LookupNames(ref)}

\* A statement that reaches the remote database reads no table and no column
\* without a row that makes it readable, and filters or aggregates no column
\* without a row that allows it, injected filters included, wherever its names
\* have one reading: a table reference, not named like a common table
\* expression, that denotes one table; a column that by its name and qualifier
\* is one column of the tables named (prepare_validated_sql).  Of names with
\* several readings validator and database may choose different ones.
ExecutedIsPermitted ==
    Prepared =>
        /\ \A ref \in CheckedReferences(stmt), t \in Tables :
               MayDenote(ref) = {t} =>
                   \E p \in rows, c \in Columns : ColumnTable[c] = t /\ Grants(p, c)
        /\ \A col \in stmt.cols, c \in Columns :
               MayRead(stmt, col) = {c} =>
                   /\ \E p \in rows : Grants(p, c)
                   /\ "filter" \in col.use =>
                          \E p \in rows : Grants(p, c) /\ perms[p].cols[c].filter
                   /\ "aggregate" \in col.use =>
                          \E p \in rows : Grants(p, c) /\ perms[p].cols[c].aggregate

\* Wherever a statement that is executed references a table outside a common
\* table expression, and not by the name of one, the filters of all permission
\* rows of that table have been injected at that reference, and columns of
\* theirs that have one reading may be filtered by (inject_mandatory_row_filters,
\* twice validated).
RowFiltersAreInjected ==
    Prepared => \A ref \in CheckedReferences(proposed), p \in rows :
        /\ ref.block \notin CteBlocks
        /\ MayDenote(ref) = {perms[p].table}
        /\ perms[p].rules # {}
        => /\ <<ref, perms[p].table, p>> \in injected
           /\ flag
           /\ \A c \in perms[p].rules :
                  MayRead(stmt, FilterColumn(ref, c)) = {c} => c \in filterable

\* The statement that is executed has a limit within the bounds, the proposed
\* one if that is (apply_row_limit, applied twice).
LimitIsBounded ==
    Prepared =>
        /\ stmt.limit \in 1 .. MaximumRows
        /\ proposed.limit \in 1 .. MaximumRows => stmt.limit = proposed.limit

\* An output column that has the name of a column some permission row masks is
\* masked, with a mask some row gives a column of that name, in whatever order
\* the rows were merged (get_column_masks, serialize_record).  A masked column
\* that is output under another name, by an alias or in an expression, is not
\* masked.
MaskedIfAnyGrantMasks ==
    pc = "executed" => \A n \in stmt.outputs, c \in Columns :
        /\ Lower[ColumnName[c]] = Lower[n]
        /\ \E p \in rows : Grants(p, c) /\ perms[p].cols[c].mask # NoMask
        => /\ masked[n] # NoMask
           /\ \E p \in rows, d \in Columns :
                  /\ Grants(p, d)
                  /\ Lower[ColumnName[d]] = Lower[n]
                  /\ perms[p].cols[d].mask = masked[n]
=============================================================================
