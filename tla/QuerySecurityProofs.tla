------------------------- MODULE QuerySecurityProofs -------------------------
(***************************************************************************)
(* What QuerySecurity promises, for any permissions, tables, statements    *)
(* and bounds.  SecurityInv is the inductive invariant; each of its parts  *)
(* speaks of one stage.                                                    *)
(***************************************************************************)
EXTENDS QuerySecurity, FiniteSetTheorems, TLAPS

Reading == {"permissions", "columns"}
Stated == {"initial", "inject", "final", "execute", "executed", "failed"}
Limited == {"inject", "final", "execute", "executed", "failed"}
Injected == {"final", "execute", "executed", "failed"}
Ready == {"execute", "executed", "failed"}

\* The rows of the first statement are all there, or all gone, at the second.
SnapshotInv ==
    /\ pc = "columns" => rows \subseteq granted \/ rows \cap granted = {}
    /\ pc \in Reading => merged = {}
    /\ pc \notin Reading => columns = rows \/ columns = {}
    /\ pc \notin Reading \cup {"merge"} => merged = rows

\* The schema is the union of the rows merged so far.
FlagsInv ==
    /\ readable = {c \in Columns : \E p \in merged : c \in ColumnsOf(p)}
    /\ filterable = {c \in Columns : \E p \in merged :
                         c \in ColumnsOf(p) /\ perms[p].cols[c].filter}
    /\ aggregable = {c \in Columns : \E p \in merged :
                         c \in ColumnsOf(p) /\ perms[p].cols[c].aggregate}

FiltersInv ==
    /\ \A t \in Tables : rowFilters[t] =
           {p \in merged : perms[p].table = t /\ perms[p].rules # {}}
    /\ pc \in Reading \cup {"merge"} => tables = {perms[p].table : p \in merged}
    /\ pc \notin Reading \cup {"merge"} =>
           tables = {ColumnTable[c] : c \in readable}

MaskInv ==
    \A c \in Columns :
        /\ mask[c] = NoMask => \A p \in merged :
               c \in ColumnsOf(p) => perms[p].cols[c].mask = NoMask
        /\ mask[c] # NoMask => \E p \in merged :
               c \in ColumnsOf(p) /\ perms[p].cols[c].mask = mask[c]

\* The statement: what is known of it at each stage.
StatementInv ==
    /\ pc \in Stated => /\ stmt \in Statement
                        /\ proposed \in Statement
                        /\ stmt.refs = proposed.refs
                        /\ stmt.ctes = proposed.ctes
    /\ pc = "initial" => stmt = proposed
    /\ pc \in Limited =>
           /\ stmt.limit \in 1 .. MaximumRows
           /\ proposed.limit \in 1 .. MaximumRows => stmt.limit = proposed.limit

InjectionInv ==
    pc \in Injected =>
        /\ injected = MandatoryFilters(stmt)
        /\ FilterColumns(injected) \subseteq stmt.cols
        /\ \A f \in injected : \A c \in perms[f[3]].rules : ColumnTable[c] = f[2]
        /\ flag = \E t \in tables : rowFilters[t] # {}

ValidInv == pc \in Ready => TablesAllowed(stmt) /\ ColumnsAllowed(stmt)

MaskedInv ==
    pc = "executed" => \A n \in stmt.outputs :
        MasksOf(Lower[n]) # {} => masked[n] \in MasksOf(Lower[n])

-----------------------------------------------------------------------------
(* Types.                                                                  *)

TypeInv ==
    /\ TypeOK
    /\ pc = "permissions" => rows = {}
    /\ pc \in Stated => stmt \in Statement

\* What is injected are column references of the statement's own syntax.
LEMMA FilterColumnsType ==
    ASSUME TypeOK, NEW F \in SUBSET (TableReference \X Tables \X Permissions)
    PROVE  FilterColumns(F) \in SUBSET ColumnReference
<1> SUFFICES ASSUME NEW f \in F, NEW c \in perms[f[3]].rules
             PROVE  FilterColumn(f[1], c) \in ColumnReference
    BY DEF FilterColumns
<1>1. f[1] \in TableReference /\ f[3] \in Permissions
    OBVIOUS
<1>2. perms[f[3]] \in TablePermission
    BY <1>1, ConstantsAssumption DEF TypeOK
<1>3. c \in Columns
    BY <1>2 DEF TablePermission
<1>4. Lower[ColumnName[c]] \in Identifiers
    BY <1>3, ConstantsAssumption
<1>5. Lower[IF f[1].alias # NoName THEN f[1].alias ELSE f[1].name] \in Identifiers
    BY <1>1, ConstantsAssumption DEF TableReference
<1> QED
    BY <1>4, <1>5 DEF ColumnReference, FilterColumn

\* The columns of an injected filter are among those injection adds.
LEMMA FilterColumnsHas ==
    ASSUME NEW F, NEW f \in F, NEW c \in perms[f[3]].rules
    PROVE  FilterColumn(f[1], c) \in FilterColumns(F)
<1> DEFINE S(g) == {FilterColumn(g[1], x) : x \in perms[g[3]].rules}
<1>1. FilterColumn(f[1], c) \in S(f)
    OBVIOUS
<1>2. FilterColumns(F) = UNION {S(g) : g \in F}
    BY DEF FilterColumns
<1> HIDE DEF S
<1> QED
    BY <1>1, <1>2

\* The filters of a statement are injected at its own references.
LEMMA MandatoryFiltersType ==
    ASSUME TypeOK, stmt \in Statement
    PROVE  MandatoryFilters(stmt) \in SUBSET (TableReference \X Tables \X Permissions)
<1>1. stmt.refs \subseteq TableReference /\ tables \subseteq Tables
    BY DEF Statement, TypeOK
<1> QED
    BY <1>1 DEF MandatoryFilters, FilteredReferences

\* apply_row_limit yields a limit within the bounds and keeps one that is.
LEMMA RowLimit ==
    ASSUME NEW l \in Nat
    PROVE  /\ ApplyRowLimit(l) \in Nat
           /\ ApplyRowLimit(l) \in 1 .. MaximumRows
           /\ l \in 1 .. MaximumRows => ApplyRowLimit(l) = l
    BY ConstantsAssumption DEF ApplyRowLimit

\* validate_sql leaves everything but the limit alone.
LEMMA ValidateKeeps ==
    ASSUME stmt \in Statement, NEW next, Validate(next)
    PROVE  /\ stmt' \in Statement
           /\ stmt'.refs = stmt.refs /\ stmt'.cols = stmt.cols
           /\ stmt'.ctes = stmt.ctes /\ stmt'.star = stmt.star
           /\ stmt'.outputs = stmt.outputs
           /\ pc' = next \/ pc' \in {"rejected", "raised"}
           /\ pc' \notin {"rejected", "raised"} =>
                  /\ Valid(stmt)
                  /\ stmt'.limit = ApplyRowLimit(stmt.limit)
<1>1. stmt.limit \in Nat
    BY DEF Statement
<1>2. ApplyRowLimit(stmt.limit) \in Nat
    BY <1>1, RowLimit
<1> QED
    BY <1>2 DEF Validate, Statement

\* Before the permissions are read everything is well typed.
LEMMA TypeInit == Init => TypeInv
<1> SUFFICES ASSUME Init PROVE TypeInv
    OBVIOUS
<1>1. /\ pc = "permissions" /\ rows = {}
      /\ stmt = NoStatement /\ proposed = NoStatement
    BY DEF Init
<1>2. /\ granted \in SUBSET Permissions
      /\ perms \in [Permissions -> PermissionRows]
      /\ rows \in SUBSET Permissions /\ columns \in SUBSET rows
      /\ merged \in SUBSET rows
    BY DEF Init
<1>3. /\ tables \in SUBSET Tables
      /\ rowFilters \in [Tables -> SUBSET Permissions]
      /\ readable \in SUBSET Columns
      /\ filterable \in SUBSET readable /\ aggregable \in SUBSET readable
      /\ mask \in [Columns -> Masks \cup {NoMask}]
    BY DEF Init
<1>4. /\ injected \in SUBSET (TableReference \X Tables \X Permissions)
      /\ flag \in BOOLEAN
      /\ masked \in [Identifiers -> Masks \cup {NoMask}]
    BY DEF Init
<1> QED
    BY <1>1, <1>2, <1>3, <1>4 DEF TypeInv, TypeOK, Stated

\* Every stage keeps the types, and hands on a statement.
LEMMA TypeStep == TypeInv /\ [Next]_vars => TypeInv'
<1> SUFFICES ASSUME TypeInv, [Next]_vars PROVE TypeInv'
    OBVIOUS
<1> USE DEF TypeInv, TypeOK, Stated, schema, reading, query
<1>1. CASE ReadPermissions
    BY <1>1 DEF ReadPermissions
<1>2. CASE ReadColumns
    BY <1>2 DEF ReadColumns
<1>3. ASSUME NEW p \in Permissions, MergePermission(p) PROVE TypeInv'
  <2>1. perms[p] \in TablePermission
      BY ConstantsAssumption
  <2>2. ColumnsOf(p) \subseteq Columns
      BY DEF ColumnsOf
  <2>3. \A c \in Columns : perms[p].cols[c].mask \in Masks \cup {NoMask}
      BY <2>1 DEF TablePermission, ColumnPermission
  <2>4. mask' \in [Columns -> Masks \cup {NoMask}]
      BY <1>3, <2>3 DEF MergePermission, MergeMask
  <2>5. rowFilters' \in [Tables -> SUBSET Permissions]
      BY <1>3, <2>1 DEF MergePermission, MergeRowFilter, TablePermission
  <2>6. tables' \in SUBSET Tables /\ merged' \in SUBSET rows
      BY <1>3, <2>1 DEF MergePermission, TablePermission
  <2>7. /\ readable' \in SUBSET Columns
        /\ filterable' \in SUBSET readable'
        /\ aggregable' \in SUBSET readable'
      BY <1>3, <2>2 DEF MergePermission, MergeFilter, MergeAggregate
  <2> QED
      BY <1>3, <2>4, <2>5, <2>6, <2>7 DEF MergePermission
<1>4. ASSUME NEW s \in Statements, DropEmptyTables(s) PROVE TypeInv'
    BY <1>4, ConstantsAssumption DEF DropEmptyTables
<1>5. CASE InitialValidation
  <2>1. stmt \in Statement /\ Validate("inject")
      BY <1>5 DEF InitialValidation
  <2> QED
      BY <1>5, <2>1, ValidateKeeps DEF InitialValidation
<1>6. CASE FinalValidation
  <2>1. stmt \in Statement /\ Validate("execute")
      BY <1>6 DEF FinalValidation
  <2> QED
      BY <1>6, <2>1, ValidateKeeps DEF FinalValidation
<1>7. CASE InjectRowFilters
  <2>3. stmt \in Statement
      BY <1>7 DEF InjectRowFilters
  <2>1. MandatoryFilters(stmt) \in SUBSET (TableReference \X Tables \X Permissions)
      BY <2>3, MandatoryFiltersType
  <2>2. FilterColumns(MandatoryFilters(stmt)) \in SUBSET ColumnReference
      BY <2>1, FilterColumnsType
  <2>4. CASE InjectionFails(stmt)
      BY <1>7, <2>3, <2>4 DEF InjectRowFilters
  <2>5. CASE ~InjectionFails(stmt)
    <3>1. injected' = MandatoryFilters(stmt)
        BY <1>7, <2>5 DEF InjectRowFilters
    <3>2. stmt' = [stmt EXCEPT !.cols = stmt.cols \cup FilterColumns(injected')]
        BY <1>7, <2>5 DEF InjectRowFilters
    <3>3. stmt' \in Statement
        BY <2>2, <2>3, <3>1, <3>2 DEF Statement
    <3> QED
        BY <1>7, <2>1, <2>5, <3>1, <3>3 DEF InjectRowFilters
  <2> QED
      BY <2>4, <2>5
<1>8. CASE ExecuteQuery
  <2>1. PICK m \in ColumnMasks :
            masked' = [n \in Identifiers |->
                           IF n \in stmt.outputs /\ Lower[n] \in DOMAIN m
                           THEN m[Lower[n]] ELSE NoMask]
      BY <1>8 DEF ExecuteQuery
  <2>2. \A n \in DOMAIN m : m[n] \in Masks
      BY DEF ColumnMasks
  <2>3. masked' \in [Identifiers -> Masks \cup {NoMask}]
      BY <2>1, <2>2
  <2> QED
      BY <1>8, <2>3 DEF ExecuteQuery
<1>9. CASE ExecuteQueryFails
    BY <1>9 DEF ExecuteQueryFails
<1>10. ASSUME NEW p \in Permissions, GrantPermission(p) PROVE TypeInv'
    BY <1>10 DEF GrantPermission
<1>11. CASE Synchronise
    BY <1>11 DEF Synchronise
<1>12. CASE Terminated \/ UNCHANGED vars
    BY <1>12 DEF Terminated, vars
<1> QED
    BY <1>1, <1>2, <1>3, <1>4, <1>5, <1>6, <1>7, <1>8, <1>9, <1>10, <1>11,
       <1>12 DEF Next

\* The schema, the statement and the masks keep their types whatever rows are
\* merged and whatever filters are injected (build_permission_filtered_schema,
\* prepare_validated_sql).
THEOREM SecurityTypeCorrect == Spec => []TypeOK
<1>1. TypeInv => TypeOK
    BY DEF TypeInv
<1> QED
    BY <1>1, TypeInit, TypeStep, PTL DEF Spec

-----------------------------------------------------------------------------
(* One snapshot.                                                           *)

\* A step that is none of the reads and none of the merge leaves the schema
\* and what was read for it alone.
LEMMA LaterSteps ==
    ASSUME \/ InitialValidation \/ FinalValidation \/ InjectRowFilters
           \/ ExecuteQuery \/ ExecuteQueryFails
    PROVE  /\ UNCHANGED <<granted, perms, rows, columns, merged, tables,
                         rowFilters, readable, filterable, aggregable, mask,
                         proposed>>
           /\ pc \in {"initial", "inject", "final", "execute"}
           /\ pc' \in {"inject", "final", "execute", "executed", "failed",
                       "rejected", "raised"}
    BY DEF InitialValidation, FinalValidation, InjectRowFilters, Validate,
           ExecuteQuery, ExecuteQueryFails, schema, reading, query

\* Every step is one of these.
LEMMA Steps ==
    ASSUME [Next]_vars
    PROVE  \/ ReadPermissions
           \/ ReadColumns
           \/ \E p \in Permissions : MergePermission(p)
           \/ \E s \in Statements : DropEmptyTables(s)
           \/ InitialValidation \/ FinalValidation \/ InjectRowFilters
           \/ ExecuteQuery \/ ExecuteQueryFails
           \/ \E p \in Permissions : GrantPermission(p)
           \/ Synchronise
           \/ UNCHANGED vars
    BY DEF Next, Terminated

\* Grants and synchronisations between the two reads add new rows or delete
\* all of those that were read.
LEMMA SnapshotStep ==
    ASSUME TypeInv, SnapshotInv, [Next]_vars
    PROVE  SnapshotInv'
<1> USE DEF TypeInv, TypeOK, SnapshotInv, Reading, schema, reading, query
<1>1. CASE ReadPermissions
    BY <1>1 DEF ReadPermissions
<1>2. CASE ReadColumns
    BY <1>2 DEF ReadColumns
<1>3. ASSUME NEW p \in Permissions, MergePermission(p) PROVE SnapshotInv'
    BY <1>3 DEF MergePermission
<1>4. ASSUME NEW s \in Statements, DropEmptyTables(s) PROVE SnapshotInv'
    BY <1>4 DEF DropEmptyTables
<1>5. CASE \/ InitialValidation \/ FinalValidation \/ InjectRowFilters
           \/ ExecuteQuery \/ ExecuteQueryFails
    BY <1>5, LaterSteps
<1>6. ASSUME NEW p \in Permissions, GrantPermission(p) PROVE SnapshotInv'
    BY <1>6 DEF GrantPermission
<1>7. CASE Synchronise
    BY <1>7 DEF Synchronise
<1>8. CASE UNCHANGED vars
    BY <1>8 DEF vars
<1> QED
    BY <1>1, <1>2, <1>3, <1>4, <1>5, <1>6, <1>7, <1>8, Steps

\* What a permission contributes does not change once the columns are read.
LEMMA ColumnsKept ==
    ASSUME UNCHANGED <<perms, columns>>, NEW p
    PROVE  ColumnsOf(p)' = ColumnsOf(p)
    BY DEF ColumnsOf

\* A turn of the merge loop adds one row's flags, masks and filters, in any
\* order of the rows.
LEMMA SchemaStep ==
    ASSUME TypeInv, SnapshotInv, FlagsInv, FiltersInv, MaskInv, [Next]_vars
    PROVE  FlagsInv' /\ FiltersInv' /\ MaskInv'
<1> DEFINE SameSchema == UNCHANGED <<perms, merged, tables, rowFilters, readable,
                                     filterable, aggregable, mask>>
<1>a. ASSUME SameSchema, columns' = columns \/ merged = {},
             pc \notin Reading \cup {"merge"} <=> pc' \notin Reading \cup {"merge"}
      PROVE  FlagsInv' /\ FiltersInv' /\ MaskInv'
  <2>1. \A p \in merged : ColumnsOf(p)' = ColumnsOf(p)
      BY <1>a, ColumnsKept
  <2>2. FlagsInv'
      BY <1>a, <2>1 DEF FlagsInv
  <2>3. FiltersInv'
      BY <1>a DEF FiltersInv
  <2>4. MaskInv'
      BY <1>a, <2>1 DEF MaskInv
  <2> QED
      BY <2>2, <2>3, <2>4
<1> USE DEF schema, reading, query
<1>1. CASE ReadPermissions
    BY <1>1, <1>a DEF ReadPermissions, Reading
<1>2. CASE ReadColumns
    BY <1>2, <1>a DEF ReadColumns, SnapshotInv, Reading
<1>3. ASSUME NEW p \in Permissions, MergePermission(p)
      PROVE  FlagsInv' /\ FiltersInv' /\ MaskInv'
  <2>0. /\ merged' = merged \cup {p} /\ pc = "merge" /\ pc' = "merge"
        /\ UNCHANGED <<perms, columns>>
      BY <1>3 DEF MergePermission
  <2>1. \A q : ColumnsOf(q)' = ColumnsOf(q)
      BY <2>0, ColumnsKept
  <2>2. ColumnsOf(p) \subseteq Columns
      BY DEF ColumnsOf
  <2>3. FlagsInv'
    <3>1. readable' = readable \cup ColumnsOf(p)
        BY <1>3 DEF MergePermission
    <3>2. filterable' =
              filterable \cup {c \in ColumnsOf(p) : perms[p].cols[c].filter}
        BY <1>3 DEF MergePermission, MergeFilter
    <3>3. aggregable' =
              aggregable \cup {c \in ColumnsOf(p) : perms[p].cols[c].aggregate}
        BY <1>3 DEF MergePermission, MergeAggregate
    <3> QED
        BY <2>0, <2>1, <2>2, <3>1, <3>2, <3>3 DEF FlagsInv
  <2>4. FiltersInv'
    <3>1. perms[p].table \in Tables
        BY ConstantsAssumption DEF TypeInv, TypeOK, TablePermission
    <3>2. rowFilters' = [rowFilters EXCEPT ![perms[p].table] =
              IF perms[p].rules = {} THEN @ ELSE @ \cup {p}]
        BY <1>3 DEF MergePermission, MergeRowFilter
    <3>3. tables' = tables \cup {perms[p].table}
        BY <1>3 DEF MergePermission
    <3>4. rowFilters \in [Tables -> SUBSET Permissions]
        BY DEF TypeInv, TypeOK
    <3>5. \A t \in Tables : rowFilters'[t] =
              {q \in merged' : perms'[q].table = t /\ perms'[q].rules # {}}
        BY <2>0, <3>1, <3>2, <3>4 DEF FiltersInv
    <3>6. tables' = {perms'[q].table : q \in merged'}
        BY <2>0, <3>3 DEF FiltersInv, Reading
    <3> QED
        BY <2>0, <3>5, <3>6 DEF FiltersInv, Reading
  <2>5. MaskInv'
    <3>1. mask' = [c \in Columns |-> IF c \in ColumnsOf(p) /\ mask[c] = NoMask
                                     THEN perms[p].cols[c].mask ELSE mask[c]]
        BY <1>3 DEF MergePermission, MergeMask
    <3> SUFFICES ASSUME NEW c \in Columns
                 PROVE  /\ mask'[c] = NoMask => \A q \in merged' :
                               c \in ColumnsOf(q)' => perms'[q].cols[c].mask = NoMask
                        /\ mask'[c] # NoMask => \E q \in merged' :
                               c \in ColumnsOf(q)' /\ perms'[q].cols[c].mask = mask'[c]
        BY DEF MaskInv
    <3>2. CASE c \in ColumnsOf(p) /\ mask[c] = NoMask
        BY <2>0, <2>1, <3>1, <3>2 DEF MaskInv
    <3>3. CASE ~(c \in ColumnsOf(p) /\ mask[c] = NoMask)
        BY <2>0, <2>1, <3>1, <3>3 DEF MaskInv
    <3> QED
        BY <3>2, <3>3
  <2> QED
      BY <2>3, <2>4, <2>5
<1>4. ASSUME NEW s \in Statements, DropEmptyTables(s)
      PROVE  FlagsInv' /\ FiltersInv' /\ MaskInv'
  <2>1. UNCHANGED <<perms, merged, columns, rowFilters, readable, filterable,
                    aggregable, mask>>
      BY <1>4 DEF DropEmptyTables
  <2>2. \A p : ColumnsOf(p)' = ColumnsOf(p)
      BY <2>1, ColumnsKept
  <2>3. FlagsInv' /\ MaskInv'
      BY <2>1, <2>2 DEF FlagsInv, MaskInv
  <2>4. \A c \in readable : ColumnTable[c] \in tables
      BY <1>4 DEF FlagsInv, FiltersInv, ColumnsOf, DropEmptyTables
  <2>5. tables' = {ColumnTable[c] : c \in readable}
      BY <1>4, <2>4 DEF DropEmptyTables
  <2>6. pc' \in {"rejected", "initial"}
      BY <1>4 DEF DropEmptyTables
  <2>7. FiltersInv'
      BY <2>1, <2>5, <2>6 DEF FiltersInv, Reading
  <2> QED
      BY <2>3, <2>7
<1>5. CASE \/ InitialValidation \/ FinalValidation \/ InjectRowFilters
           \/ ExecuteQuery \/ ExecuteQueryFails
    BY <1>5, <1>a, LaterSteps DEF Reading
<1>6. ASSUME NEW p \in Permissions, GrantPermission(p)
      PROVE  FlagsInv' /\ FiltersInv' /\ MaskInv'
    BY <1>6, <1>a DEF GrantPermission
<1>7. CASE Synchronise
    BY <1>7, <1>a DEF Synchronise
<1>8. CASE UNCHANGED vars
    BY <1>8, <1>a DEF vars
<1> QED
    BY <1>1, <1>2, <1>3, <1>4, <1>5, <1>6, <1>7, <1>8, Steps

\* The schema starts empty, with no row merged.
LEMMA SchemaInit == Init => SnapshotInv /\ FlagsInv /\ FiltersInv /\ MaskInv
<1> SUFFICES ASSUME Init PROVE SnapshotInv /\ FlagsInv /\ FiltersInv /\ MaskInv
    OBVIOUS
<1>1. SnapshotInv
    BY DEF Init, SnapshotInv, Reading
<1>2. FlagsInv
    BY DEF Init, FlagsInv
<1>3. FiltersInv
    BY DEF Init, FiltersInv, Reading
<1>4. MaskInv
    BY DEF Init, MaskInv
<1> QED
    BY <1>1, <1>2, <1>3, <1>4

SchemaInv == TypeInv /\ SnapshotInv /\ FlagsInv /\ FiltersInv /\ MaskInv

\* At every moment the schema is what the rows merged so far make it.
LEMMA SchemaInvariant == Spec => []SchemaInv
<1>1. Init => SchemaInv
    BY TypeInit, SchemaInit DEF SchemaInv
<1>2. SchemaInv /\ [Next]_vars => SchemaInv'
    BY TypeStep, SnapshotStep, SchemaStep DEF SchemaInv
<1> QED
    BY <1>1, <1>2, PTL DEF Spec

\* Once the schema is built and has a table, its columns were read with its rows.
LEMMA SchemaIsTheUnion ==
    ASSUME SchemaInv, pc \notin Reading \cup {"merge"}, tables # {}
    PROVE  /\ merged = rows
           /\ \A p \in rows, c \in Columns : c \in ColumnsOf(p) <=> Grants(p, c)
           /\ readable = {c \in Columns : \E p \in rows : Grants(p, c)}
           /\ tables = {ColumnTable[c] : c \in readable}
           /\ filterable = {c \in Columns : \E p \in rows :
                                Grants(p, c) /\ perms[p].cols[c].filter}
           /\ aggregable = {c \in Columns : \E p \in rows :
                                Grants(p, c) /\ perms[p].cols[c].aggregate}
<1>1. merged = rows /\ (columns = rows \/ columns = {})
    BY DEF SchemaInv, SnapshotInv
<1>2. tables = {ColumnTable[c] : c \in readable}
    BY DEF SchemaInv, FiltersInv
<1>3. columns # {}
    BY <1>1, <1>2 DEF SchemaInv, FlagsInv, ColumnsOf
<1>4. \A p \in rows, c \in Columns : c \in ColumnsOf(p) <=> Grants(p, c)
    BY <1>1, <1>3 DEF ColumnsOf, Grants
<1>5. readable = {c \in Columns : \E p \in rows : Grants(p, c)}
    BY <1>1, <1>4 DEF SchemaInv, FlagsInv
<1>6. filterable = {c \in Columns : \E p \in rows :
                        Grants(p, c) /\ perms[p].cols[c].filter}
    BY <1>1, <1>4 DEF SchemaInv, FlagsInv
<1>7. aggregable = {c \in Columns : \E p \in rows :
                        Grants(p, c) /\ perms[p].cols[c].aggregate}
    BY <1>1, <1>4 DEF SchemaInv, FlagsInv
<1> QED
    BY <1>1, <1>2, <1>4, <1>5, <1>6, <1>7

\* The schema is the union of the rows the first statement read, or empty,
\* however grants, synchronisations and merge turns are interleaved
\* (build_permission_filtered_schema).
THEOREM OneSnapshot == Spec => []SchemaIsOneSnapshot
<1>1. SchemaInv => SchemaIsOneSnapshot
    BY SchemaIsTheUnion DEF SchemaIsOneSnapshot, Reading
<1> QED
    BY <1>1, SchemaInvariant, PTL

-----------------------------------------------------------------------------
(* The statement.                                                          *)

\* What is injected and what is allowed depend on the statement's references
\* and columns and on the schema, not on the limit.
LEMMA ChecksKept ==
    ASSUME UNCHANGED <<tables, rowFilters, readable, filterable, aggregable>>,
           stmt'.refs = stmt.refs
    PROVE  /\ MandatoryFilters(stmt)' = MandatoryFilters(stmt)
           /\ stmt'.ctes = stmt.ctes /\ stmt'.cols = stmt.cols
                  /\ stmt'.star = stmt.star /\ TablesAllowed(stmt)
                  /\ ColumnsAllowed(stmt)
              => TablesAllowed(stmt)' /\ ColumnsAllowed(stmt)'
<1>1. MandatoryFilters(stmt)' = MandatoryFilters(stmt)
    BY DEF MandatoryFilters, FilteredReferences, AllowedMatches
<1>2. ASSUME stmt'.ctes = stmt.ctes, stmt'.cols = stmt.cols,
             stmt'.star = stmt.star, TablesAllowed(stmt), ColumnsAllowed(stmt)
      PROVE  TablesAllowed(stmt)' /\ ColumnsAllowed(stmt)'
  <2>1. CheckedReferences(stmt)' = CheckedReferences(stmt)
      BY <1>2 DEF CheckedReferences, CteNames
  <2>2. \A ref : AllowedMatches(ref)' = AllowedMatches(ref)
      BY DEF AllowedMatches
  <2>3. ReferencedTables(stmt)' = ReferencedTables(stmt)
      BY <2>1, <2>2 DEF ReferencedTables
  <2>4. \A name : TableLookup(stmt, name)' = TableLookup(stmt, name)
      BY <2>1, <2>2 DEF TableLookup
  <2>5. \A col : ColumnMatches(stmt, col)' = ColumnMatches(stmt, col)
      BY <2>3, <2>4 DEF ColumnMatches
  <2>6. TablesAllowed(stmt)'
      BY <1>2, <2>1, <2>2, <2>3 DEF TablesAllowed
  <2>7. ColumnsAllowed(stmt)'
      BY <1>2, <2>5 DEF ColumnsAllowed, ValidateColumnAccess
  <2> QED
      BY <2>6, <2>7
<1> QED
    BY <1>1, <1>2

QueryInv == StatementInv /\ InjectionInv /\ ValidInv /\ MaskedInv

\* Injection adds the filters the references call for and nothing else.
LEMMA InjectStep ==
    ASSUME TypeInv, QueryInv, InjectRowFilters
    PROVE  QueryInv'
<1>1. /\ pc = "inject" /\ stmt \in Statement
      /\ UNCHANGED <<perms, tables, rowFilters, readable, filterable,
                     aggregable, proposed>>
    BY DEF InjectRowFilters, schema, TypeInv, Stated
<1>2. CASE InjectionFails(stmt)
    BY <1>2 DEF InjectRowFilters, QueryInv, StatementInv, InjectionInv,
                ValidInv, MaskedInv, Stated, Limited, Injected, Ready
<1>3. CASE ~InjectionFails(stmt)
  <2>1. /\ injected' = MandatoryFilters(stmt) /\ pc' = "final"
        /\ stmt' = [stmt EXCEPT !.cols = stmt.cols \cup FilterColumns(injected')]
        /\ flag' = \E t \in tables : rowFilters[t] # {}
      BY <1>3 DEF InjectRowFilters
  <2>2. FilterColumns(injected') \in SUBSET ColumnReference
      BY <1>1, <2>1, FilterColumnsType, MandatoryFiltersType DEF TypeInv
  <2>3. /\ stmt' \in Statement
        /\ stmt'.refs = stmt.refs /\ stmt'.ctes = stmt.ctes
        /\ stmt'.limit = stmt.limit
        /\ stmt'.cols = stmt.cols \cup FilterColumns(injected')
      BY <1>1, <2>1, <2>2 DEF Statement
  <2>4. StatementInv'
      BY <1>1, <2>1, <2>3 DEF QueryInv, StatementInv, Stated, Limited
  <2>5. InjectionInv'
    <3>1. injected' = MandatoryFilters(stmt)'
        BY <1>1, <2>1, <2>3, ChecksKept
    <3>2. FilterColumns(injected)' = FilterColumns(injected')
        BY <1>1 DEF FilterColumns
    <3>3. \A f \in injected' : \A c \in perms[f[3]].rules : ColumnTable[c] = f[2]
        BY <1>3, <2>1 DEF InjectionFails
    <3> QED
        BY <1>1, <2>1, <2>3, <3>1, <3>2, <3>3 DEF InjectionInv
  <2> QED
      BY <2>1, <2>4, <2>5 DEF QueryInv, ValidInv, MaskedInv, Ready
<1> QED
    BY <1>2, <1>3

\* A statement that passes a validation uses only what the schema allows.
LEMMA ValidationStep ==
    ASSUME TypeInv, QueryInv, InitialValidation \/ FinalValidation
    PROVE  QueryInv'
<1>0. PICK next \in {"inject", "execute"} :
        /\ Validate(next)
        /\ next = "execute" => pc = "final"
        /\ next = "inject" => pc = "initial"
    BY DEF InitialValidation, FinalValidation
<1>1. /\ stmt \in Statement
      /\ UNCHANGED <<perms, tables, rowFilters, readable, filterable,
                     aggregable, proposed, injected, flag>>
    BY DEF InitialValidation, FinalValidation, schema, TypeInv, Stated
<1>2. CASE pc' \in {"rejected", "raised"}
    BY <1>2 DEF QueryInv, StatementInv, InjectionInv, ValidInv, MaskedInv,
                Stated, Limited, Injected, Ready
<1>3. CASE pc' \notin {"rejected", "raised"}
  <2>1. /\ pc' = next /\ Valid(stmt)
        /\ stmt' \in Statement
        /\ stmt'.refs = stmt.refs /\ stmt'.cols = stmt.cols
        /\ stmt'.ctes = stmt.ctes /\ stmt'.star = stmt.star
        /\ stmt'.limit = ApplyRowLimit(stmt.limit)
      BY <1>0, <1>1, <1>3, ValidateKeeps
  <2>2. stmt.limit \in Nat
      BY <1>1 DEF Statement
  <2>3. StatementInv'
    <3>1. /\ stmt'.limit \in 1 .. MaximumRows
          /\ stmt.limit \in 1 .. MaximumRows => stmt'.limit = stmt.limit
        BY <2>1, <2>2, RowLimit
    <3>2. CASE next = "inject"
        BY <1>0, <1>1, <2>1, <3>1, <3>2 DEF QueryInv, StatementInv, Stated, Limited
    <3>3. CASE next = "execute"
        BY <1>0, <1>1, <2>1, <3>1, <3>3 DEF QueryInv, StatementInv, Stated, Limited
    <3> QED
        BY <3>2, <3>3
  <2>4. InjectionInv' /\ ValidInv'
    <3>1. CASE next = "inject"
        BY <2>1, <3>1 DEF InjectionInv, ValidInv, Injected, Ready
    <3>2. CASE next = "execute"
      <4>1. pc \in Injected
          BY <1>0, <3>2 DEF Injected
      <4>2. MandatoryFilters(stmt)' = MandatoryFilters(stmt)
          BY <1>1, <2>1, ChecksKept
      <4>3. FilterColumns(injected)' = FilterColumns(injected)
          BY <1>1 DEF FilterColumns
      <4>4. InjectionInv'
          BY <1>1, <2>1, <4>1, <4>2, <4>3 DEF QueryInv, InjectionInv
      <4>5. ValidInv'
          BY <1>1, <2>1, ChecksKept DEF ValidInv, Valid
      <4> QED
          BY <4>4, <4>5
    <3> QED
        BY <3>1, <3>2
  <2> QED
      BY <2>1, <2>3, <2>4 DEF QueryInv, MaskedInv
<1> QED
    BY <1>2, <1>3

\* Execution masks the result of the statement that passed.
LEMMA ExecuteStep ==
    ASSUME TypeInv, QueryInv, ExecuteQuery \/ ExecuteQueryFails
    PROVE  QueryInv'
<1>1. /\ pc = "execute" /\ pc' \in {"executed", "failed"}
      /\ UNCHANGED <<perms, tables, rowFilters, readable, filterable,
                     aggregable, mask, proposed, stmt, injected, flag>>
    BY DEF ExecuteQuery, ExecuteQueryFails, schema, query
<1>2. StatementInv'
    BY <1>1 DEF QueryInv, StatementInv, Stated, Limited
<1>3. InjectionInv'
  <2>1. MandatoryFilters(stmt)' = MandatoryFilters(stmt)
      BY <1>1, ChecksKept
  <2>2. FilterColumns(injected)' = FilterColumns(injected)
      BY <1>1 DEF FilterColumns
  <2> QED
      BY <1>1, <2>1, <2>2 DEF QueryInv, InjectionInv, Injected
<1>4. ValidInv'
    BY <1>1, ChecksKept DEF QueryInv, ValidInv, Ready
<1>5. MaskedInv'
  <2>1. CASE ExecuteQuery
    <3>1. PICK m \in ColumnMasks :
              masked' = [n \in Identifiers |->
                             IF n \in stmt.outputs /\ Lower[n] \in DOMAIN m
                             THEN m[Lower[n]] ELSE NoMask]
        BY <2>1 DEF ExecuteQuery
    <3>2. stmt.outputs \subseteq Identifiers
        BY <1>1 DEF TypeInv, Stated, Statement
    <3>3. ASSUME NEW n \in stmt.outputs, MasksOf(Lower[n]) # {}
          PROVE  masked'[n] \in MasksOf(Lower[n])
      <4>1. Lower[n] \in Identifiers
          BY <3>2, ConstantsAssumption
      <4>2. /\ DOMAIN m = {x \in Identifiers : MasksOf(x) # {}}
            /\ \A x \in DOMAIN m : m[x] \in MasksOf(x)
          BY DEF ColumnMasks
      <4>3. Lower[n] \in DOMAIN m
          BY <3>3, <4>1, <4>2
      <4> QED
          BY <3>1, <3>2, <4>2, <4>3
    <3>4. \A n : MasksOf(n)' = MasksOf(n)
        BY <1>1 DEF MasksOf
    <3> QED
        BY <1>1, <3>3, <3>4 DEF MaskedInv
  <2>2. CASE ExecuteQueryFails
      BY <2>2 DEF ExecuteQueryFails, MaskedInv
  <2> QED
      BY <2>1, <2>2
<1> QED
    BY <1>2, <1>3, <1>4, <1>5 DEF QueryInv

\* What is known of the statement at each stage is kept by every step.
LEMMA QueryStep ==
    ASSUME TypeInv, QueryInv, [Next]_vars
    PROVE  QueryInv'
<1> DEFINE Early == {"permissions", "columns", "merge", "rejected", "raised"}
<1>1. CASE pc' \in Early
    BY <1>1 DEF QueryInv, StatementInv, InjectionInv, ValidInv, MaskedInv,
                Stated, Limited, Injected, Ready
<1>2. ASSUME NEW s \in Statements, DropEmptyTables(s) PROVE QueryInv'
  <2>1. s \in Statement /\ stmt' = s /\ proposed' = s
        /\ pc' \in {"initial", "rejected"}
      BY <1>2, ConstantsAssumption DEF DropEmptyTables
  <2> QED
      BY <2>1 DEF QueryInv, StatementInv, InjectionInv, ValidInv, MaskedInv,
                  Stated, Limited, Injected, Ready
<1>3. CASE UNCHANGED vars
  <2>1. MandatoryFilters(stmt)' = MandatoryFilters(stmt)
      BY <1>3, ChecksKept DEF vars
  <2>2. FilterColumns(injected)' = FilterColumns(injected)
      BY <1>3 DEF FilterColumns, vars
  <2>3. \A n : MasksOf(n)' = MasksOf(n)
      BY <1>3 DEF MasksOf, vars
  <2>4. StatementInv' /\ MaskedInv'
      BY <1>3, <2>3 DEF QueryInv, StatementInv, MaskedInv, vars
  <2>5. InjectionInv'
      BY <1>3, <2>1, <2>2 DEF QueryInv, InjectionInv, vars
  <2>6. ValidInv'
      BY <1>3, ChecksKept DEF QueryInv, ValidInv, vars
  <2> QED
      BY <2>4, <2>5, <2>6 DEF QueryInv
<1>4. CASE ReadPermissions \/ ReadColumns \/ Synchronise
    BY <1>1, <1>4 DEF ReadPermissions, ReadColumns, Synchronise
<1>5. ASSUME NEW p \in Permissions, MergePermission(p) \/ GrantPermission(p)
      PROVE  QueryInv'
    BY <1>1, <1>5 DEF MergePermission, GrantPermission
<1> QED
    BY <1>2, <1>3, <1>4, <1>5, InjectStep, ValidationStep, ExecuteStep, Steps

SecurityInv == SchemaInv /\ QueryInv

\* Schema and statement keep their invariants at every stage.
LEMMA SecurityInvariant == Spec => []SecurityInv
<1>1. Init => SecurityInv
  <2>1. Init => QueryInv
      BY DEF Init, QueryInv, StatementInv, InjectionInv, ValidInv, MaskedInv,
             Stated, Limited, Injected, Ready
  <2> QED
      BY <2>1, TypeInit, SchemaInit DEF SecurityInv, SchemaInv
<1>2. SecurityInv /\ [Next]_vars => SecurityInv'
    BY TypeStep, SnapshotStep, SchemaStep, QueryStep DEF SecurityInv, SchemaInv
<1> QED
    BY <1>1, <1>2, PTL DEF Spec

-----------------------------------------------------------------------------
(* What reaches the remote database.                                       *)

\* However often apply_row_limit is applied, the limit executed is within the
\* bounds and a proposed limit within them is kept.
THEOREM LimitBounded == Spec => []LimitIsBounded
<1>1. SecurityInv => LimitIsBounded
    BY DEF SecurityInv, QueryInv, StatementInv, LimitIsBounded, Prepared, Limited
<1> QED
    BY <1>1, SecurityInvariant, PTL

\* A statement that passed the final validation names a table, so the schema
\* it passed is not the empty one.
LEMMA PreparedSchema ==
    ASSUME SecurityInv, Prepared
    PROVE  /\ tables # {} /\ pc \notin Reading \cup {"merge"}
           /\ pc \in Injected /\ pc \in Stated
           /\ TablesAllowed(stmt) /\ ColumnsAllowed(stmt)
<1>1. TablesAllowed(stmt) /\ ColumnsAllowed(stmt)
    BY DEF SecurityInv, QueryInv, ValidInv, Prepared, Ready
<1>2. tables # {}
    BY <1>1 DEF TablesAllowed, ReferencedTables, AllowedMatches
<1> QED
    BY <1>1, <1>2 DEF Prepared, Reading, Injected, Stated

\* What the validator takes a reference for is among what the database may take
\* it for.
LEMMA MatchesMayDenote ==
    ASSUME TypeOK, NEW ref \in TableReference
    PROVE  AllowedMatches(ref) \subseteq MayDenote(ref)
<1> SUFFICES ASSUME NEW t \in AllowedMatches(ref) PROVE t \in MayDenote(ref)
    OBVIOUS
<1>1. t \in Tables
    BY DEF AllowedMatches, TypeOK
<1>2. CASE ref.schema = NoName
    BY <1>1, <1>2 DEF AllowedMatches, MayDenote
<1>3. CASE ref.schema # NoName
  <2>1. SchemaName[t] = Lower[ref.schema] /\ TableName[t] = Lower[ref.name]
      BY <1>3 DEF AllowedMatches
  <2>2. ref.schema \in Identifiers /\ ref.name \in Identifiers
      BY <1>3 DEF TableReference
  <2>3. /\ Lower[SchemaName[t]] = Lower[ref.schema]
        /\ Lower[TableName[t]] = Lower[ref.name]
      BY <2>1, <2>2, ConstantsAssumption
  <2> QED
      BY <1>1, <2>3 DEF MayDenote
<1> QED
    BY <1>2, <1>3

\* The same of a column, bare or looked up by its qualifier.
LEMMA MatchesMayRead ==
    ASSUME TypeOK, stmt \in Statement, NEW col \in stmt.cols
    PROVE  ColumnMatches(stmt, col) \subseteq MayRead(stmt, col)
<1> SUFFICES ASSUME NEW c \in ColumnMatches(stmt, col)
             PROVE  c \in MayRead(stmt, col)
    OBVIOUS
<1>1. c \in Columns /\ ColumnName[c] = Lower[col.name]
    BY DEF ColumnMatches, TypeOK
<1>2. Lower[ColumnName[c]] = Lower[col.name]
  <2>1. col.name \in Identifiers
      BY DEF Statement, ColumnReference
  <2> QED
      BY <1>1, <2>1, ConstantsAssumption
<1>3. PICK ref \in stmt.refs :
          /\ ColumnTable[c] \in AllowedMatches(ref)
          /\ col.qualifier # NoName => Lower[col.qualifier] \in LookupNames(ref)
  <2>1. CASE col.qualifier = NoName
    <3>1. ColumnTable[c] \in ReferencedTables(stmt)
        BY <2>1 DEF ColumnMatches
    <3> QED
        BY <2>1, <3>1 DEF ReferencedTables, CheckedReferences
  <2>2. CASE col.qualifier # NoName
    <3>1. ColumnTable[c] \in TableLookup(stmt, Lower[col.qualifier])
        BY <2>2 DEF ColumnMatches
    <3>2. PICK ref \in CheckedReferences(stmt) :
              /\ Lower[col.qualifier] \in LookupNames(ref)
              /\ ColumnTable[c] \in AllowedMatches(ref)
        BY <3>1 DEF TableLookup
    <3> QED
        BY <3>2 DEF CheckedReferences
  <2> QED
      BY <2>1, <2>2
<1>4. ref \in TableReference
    BY DEF Statement
<1>5. ColumnTable[c] \in MayDenote(ref)
    BY <1>3, <1>4, MatchesMayDenote
<1> QED
    BY <1>1, <1>2, <1>3, <1>5 DEF MayRead

\* A column of a statement that passed, where it has one reading, is one that
\* may be used so.
LEMMA MatchedColumn ==
    ASSUME SecurityInv, Prepared, NEW col \in stmt.cols, NEW c \in Columns,
           MayRead(stmt, col) = {c}
    PROVE  /\ c \in readable
           /\ "filter" \in col.use => c \in filterable
           /\ "aggregate" \in col.use => c \in aggregable
<1>1. /\ Cardinality(ColumnMatches(stmt, col)) = 1
      /\ \A d \in ColumnMatches(stmt, col) : ValidateColumnAccess(d, col.use)
    BY PreparedSchema DEF ColumnsAllowed
<1>2. ColumnMatches(stmt, col) # {}
    BY <1>1, FS_EmptySet
<1>3. TypeOK /\ stmt \in Statement
    BY PreparedSchema DEF SecurityInv, SchemaInv, TypeInv
<1>4. c \in ColumnMatches(stmt, col)
    BY <1>2, <1>3, MatchesMayRead
<1> QED
    BY <1>1, <1>4 DEF ColumnMatches, ValidateColumnAccess

\* A table that is checked, where it has one reading, is the allowed one.
LEMMA MatchedTable ==
    ASSUME SecurityInv, Prepared, NEW ref \in CheckedReferences(stmt),
           NEW t \in Tables, MayDenote(ref) = {t}
    PROVE  t \in AllowedMatches(ref) /\ t \in tables
<1>1. Cardinality(AllowedMatches(ref)) = 1
    BY PreparedSchema DEF TablesAllowed
<1>2. AllowedMatches(ref) # {}
    BY <1>1, FS_EmptySet
<1>3. TypeOK /\ ref \in TableReference
    BY PreparedSchema DEF SecurityInv, SchemaInv, TypeInv, CheckedReferences,
                          Statement
<1>4. t \in AllowedMatches(ref)
    BY <1>2, <1>3, MatchesMayDenote
<1> QED
    BY <1>4 DEF AllowedMatches

\* Wherever names have one reading, only tables and columns that a row of one
\* snapshot makes readable, filterable or aggregable are read, filtered or
\* aggregated by a statement that is executed, for any statement, any
\* permissions and any catalogue of tables (prepare_validated_sql).
THEOREM ExecutedPermitted == Spec => []ExecutedIsPermitted
<1>1. ASSUME SecurityInv, Prepared PROVE ExecutedIsPermitted
  <2>1. /\ readable = {d \in Columns : \E p \in rows : Grants(p, d)}
        /\ tables = {ColumnTable[d] : d \in readable}
        /\ filterable = {d \in Columns : \E p \in rows :
                             Grants(p, d) /\ perms[p].cols[d].filter}
        /\ aggregable = {d \in Columns : \E p \in rows :
                             Grants(p, d) /\ perms[p].cols[d].aggregate}
      BY <1>1, PreparedSchema, SchemaIsTheUnion DEF SecurityInv
  <2>2. ASSUME NEW ref \in CheckedReferences(stmt), NEW t \in Tables,
               MayDenote(ref) = {t}
        PROVE  \E p \in rows, c \in Columns : ColumnTable[c] = t /\ Grants(p, c)
    <3>1. t \in tables
        BY <1>1, <2>2, MatchedTable
    <3> QED
        BY <2>1, <3>1
  <2>3. ASSUME NEW col \in stmt.cols, NEW c \in Columns, MayRead(stmt, col) = {c}
        PROVE  /\ \E p \in rows : Grants(p, c)
               /\ "filter" \in col.use =>
                      \E p \in rows : Grants(p, c) /\ perms[p].cols[c].filter
               /\ "aggregate" \in col.use =>
                      \E p \in rows : Grants(p, c) /\ perms[p].cols[c].aggregate
    <3>1. /\ c \in readable
          /\ "filter" \in col.use => c \in filterable
          /\ "aggregate" \in col.use => c \in aggregable
        BY <1>1, <2>3, MatchedColumn
    <3> QED
        BY <2>1, <3>1
  <2> QED
      BY <2>2, <2>3 DEF ExecutedIsPermitted
<1>2. SecurityInv => ExecutedIsPermitted
    BY <1>1 DEF ExecutedIsPermitted
<1> QED
    BY <1>2, SecurityInvariant, PTL

\* No row filter of a table that is referenced outside a common table
\* expression, and not by the name of one, is left out, whatever statement is
\* proposed, and its columns, where they have one reading, are among those the
\* user may filter by (inject_mandatory_row_filters).
THEOREM FiltersInjected == Spec => []RowFiltersAreInjected
<1>1. ASSUME SecurityInv PROVE RowFiltersAreInjected
  <2> SUFFICES ASSUME Prepared, NEW ref \in CheckedReferences(proposed),
                      NEW p \in rows, ref.block \notin CteBlocks,
                      MayDenote(ref) = {perms[p].table}, perms[p].rules # {}
               PROVE  /\ <<ref, perms[p].table, p>> \in injected
                      /\ flag
                      /\ \A c \in perms[p].rules :
                             MayRead(stmt, FilterColumn(ref, c)) = {c} =>
                                 c \in filterable
      BY DEF RowFiltersAreInjected
  <2> DEFINE f == <<ref, perms[p].table, p>>
  <2>1. p \in Permissions /\ perms[p] \in TablePermission
      BY <1>1, ConstantsAssumption DEF SecurityInv, SchemaInv, TypeInv, TypeOK
  <2>2. perms[p].table \in Tables /\ perms[p].rules \subseteq Columns
      BY <2>1 DEF TablePermission
  <2>3. stmt.refs = proposed.refs /\ stmt.ctes = proposed.ctes
      BY <1>1, PreparedSchema DEF SecurityInv, QueryInv, StatementInv
  <2>4. ref \in CheckedReferences(stmt) /\ ref \in stmt.refs
      BY <2>3 DEF CheckedReferences, CteNames
  <2>5. merged = rows
      BY <1>1, PreparedSchema, SchemaIsTheUnion DEF SecurityInv
  <2>6. p \in rowFilters[perms[p].table]
      BY <1>1, <2>2, <2>5 DEF SecurityInv, SchemaInv, FiltersInv
  <2>7. perms[p].table \in AllowedMatches(ref) /\ perms[p].table \in tables
      BY <1>1, <2>2, <2>4, MatchedTable
  <2>8. f \in MandatoryFilters(stmt)
      BY <2>1, <2>4, <2>6, <2>7 DEF MandatoryFilters, FilteredReferences
  <2>9. /\ injected = MandatoryFilters(stmt)
        /\ FilterColumns(injected) \subseteq stmt.cols
        /\ flag = \E t \in tables : rowFilters[t] # {}
      BY <1>1, PreparedSchema DEF SecurityInv, QueryInv, InjectionInv
  <2>10. f \in injected /\ f[1] = ref /\ f[3] = p
      BY <2>8, <2>9
  <2>11. flag
      BY <2>6, <2>7, <2>9
  <2>12. ASSUME NEW c \in perms[p].rules,
                MayRead(stmt, FilterColumn(ref, c)) = {c}
         PROVE  c \in filterable
    <3>1. FilterColumn(ref, c) \in FilterColumns(injected)
        BY <2>10, FilterColumnsHas
    <3>2. FilterColumn(ref, c) \in stmt.cols
        BY <2>9, <3>1
    <3>3. "filter" \in FilterColumn(ref, c).use
        BY DEF FilterColumn
    <3> QED
        BY <1>1, <2>2, <2>12, <3>2, <3>3, MatchedColumn
  <2> QED
      BY <2>10, <2>11, <2>12
<1> QED
    BY <1>1, SecurityInvariant, PTL

\* Whatever the order of the rows, an output column with the name of a column
\* that one of them masks comes back masked (merge of the masks,
\* get_column_masks, serialize_record).
THEOREM MaskedAlways == Spec => []MaskedIfAnyGrantMasks
<1>1. ASSUME SecurityInv PROVE MaskedIfAnyGrantMasks
  <2> SUFFICES ASSUME pc = "executed", NEW n \in stmt.outputs, NEW c \in Columns,
                      Lower[ColumnName[c]] = Lower[n], NEW p \in rows,
                      Grants(p, c), perms[p].cols[c].mask # NoMask
               PROVE  /\ masked[n] # NoMask
                      /\ \E q \in rows, d \in Columns :
                             /\ Grants(q, d)
                             /\ Lower[ColumnName[d]] = Lower[n]
                             /\ perms[q].cols[d].mask = masked[n]
      BY DEF MaskedIfAnyGrantMasks
  <2>1. Prepared
      BY DEF Prepared
  <2>2. /\ merged = rows
        /\ \A q \in rows, d \in Columns : d \in ColumnsOf(q) <=> Grants(q, d)
        /\ readable = {d \in Columns : \E q \in rows : Grants(q, d)}
        /\ tables = {ColumnTable[d] : d \in readable}
      BY <1>1, <2>1, PreparedSchema, SchemaIsTheUnion DEF SecurityInv
  <2>3. mask[c] # NoMask
      BY <1>1, <2>2 DEF SecurityInv, SchemaInv, MaskInv
  <2>4. mask[c] \in MasksOf(Lower[n])
      BY <2>2, <2>3 DEF MasksOf
  <2>5. masked[n] \in MasksOf(Lower[n])
      BY <1>1, <2>4 DEF SecurityInv, QueryInv, MaskedInv
  <2>6. PICK d \in readable : /\ Lower[ColumnName[d]] = Lower[n]
                              /\ masked[n] = mask[d]
                              /\ mask[d] # NoMask
      BY <2>5 DEF MasksOf
  <2>7. d \in Columns
      BY <2>2
  <2>8. PICK q \in rows : Grants(q, d) /\ perms[q].cols[d].mask = mask[d]
      BY <1>1, <2>2, <2>6, <2>7 DEF SecurityInv, SchemaInv, MaskInv
  <2> QED
      BY <2>6, <2>7, <2>8
<1> QED
    BY <1>1, SecurityInvariant, PTL
=============================================================================
