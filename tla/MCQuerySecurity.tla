-------------------------- MODULE MCQuerySecurity --------------------------
(* Orders and clients in one schema, and in another two tables clients and *)
(* "Clients", whose names differ in case only; up to three permissions     *)
(* (the user and two roles).                                               *)
EXTENDS QuerySecurity, TLC

CONSTANTS full, partial

MCLower ==
    ("Clients" :> "clients" @@ "Mail" :> "mail")
    @@ [n \in {"public", "archive", "pg_catalog", "orders", "clients", "id",
               "mail", "contact", "o", "c"} |-> n]

MCSchemaName ==
    "public.orders" :> "public" @@ "public.clients" :> "public"
    @@ "archive.clients" :> "archive" @@ "archive.Clients" :> "archive"
MCTables == DOMAIN MCSchemaName
MCTableName ==
    "public.orders" :> "orders" @@ "public.clients" :> "clients"
    @@ "archive.clients" :> "clients" @@ "archive.Clients" :> "Clients"
MCColumnTable ==
    "o.id" :> "public.orders" @@ "o.mail" :> "public.orders"
    @@ "c.id" :> "public.clients" @@ "c.mail" :> "public.clients"
    @@ "a.id" :> "archive.clients" @@ "a.Mail" :> "archive.clients"
    @@ "A.id" :> "archive.Clients"
MCColumns == DOMAIN MCColumnTable
MCColumnName == [c \in MCColumns |->
                     IF c = "a.Mail" THEN "Mail"
                     ELSE IF c \in {"o.mail", "c.mail"} THEN "mail" ELSE "id"]
MCMasks == {full, partial}

Hidden == [read |-> FALSE, filter |-> TRUE, aggregate |-> TRUE, mask |-> NoMask]
Shown == [Hidden EXCEPT !.read = TRUE]
Output == [Shown EXCEPT !.filter = FALSE, !.aggregate = FALSE]

Row(t, rules, cols) ==
    [table |-> t, read |-> TRUE, rules |-> rules, sound |-> TRUE,
     cols |-> cols @@ [c \in MCColumns |-> Hidden]]

AllOrders == Row("public.orders", {}, "o.id" :> Shown @@ "o.mail" :> [Shown EXCEPT !.mask = full])
OwnClients == Row("public.clients", {"c.id"}, "c.id" :> Shown @@ "c.mail" :> Output)
MCPermissionRows ==
    {AllOrders,
     Row("public.orders", {"o.id"},
         "o.id" :> Output @@ "o.mail" :> [Shown EXCEPT !.mask = partial]),
     Row("public.orders", {"o.id", "o.mail"}, "o.mail" :> [Shown EXCEPT !.aggregate = FALSE]),
     Row("public.orders", {"c.id"}, "o.id" :> Shown),
     [AllOrders EXCEPT !.read = FALSE],
     OwnClients,
     [OwnClients EXCEPT !.sound = FALSE],
     Row("public.clients", {}, <<>>),
     Row("archive.clients", {"a.Mail"}, "a.id" :> Shown @@ "a.Mail" :> Shown),
     Row("archive.Clients", {}, "A.id" :> Shown)}

Ref(pos, block, schemaName, name, alias) ==
    [pos |-> pos, block |-> block, schema |-> schemaName, name |-> name, alias |-> alias]
Col(q, name, use) == [name |-> name, qualifier |-> q, use |-> use]
Select(refs, cols, limit) ==
    [form |-> "query", star |-> FALSE, ctes |-> {}, refs |-> refs, cols |-> cols,
     outputs |-> {c.name : c \in cols}, limit |-> limit]

Orders == Ref(1, "main", NoName, "orders", "o")
OrderId(use) == Col(NoName, "id", use)
OrderMail(use) == Col("o", "mail", use)

MCStatements ==
    \* One table; limits around the bound.
    {Select({Orders}, {OrderId({}), OrderMail({})}, l) :
        l \in {0, 1, MaximumRows, MaximumRows + 1}}
    \* Every use, output under the name of the column, under that name in
    \* another case, and under another name.
    \cup {[Select({Orders}, {OrderMail(u)}, 1) EXCEPT !.outputs = {n}] :
             u \in SUBSET {"filter", "aggregate"}, n \in {"mail", "Mail", "contact"}}
    \* Names with and without a schema, in either case, and a system schema.
    \cup {Select({Ref(1, "main", sn, n, NoName)}, {OrderId({})}, 1) :
             sn \in {NoName, "public", "archive", "pg_catalog"}, n \in {"Clients", "clients"}}
    \* A join, with columns bare (ambiguous) and qualified.
    \cup {Select({Orders, Ref(2, "main", sn, "clients", "c")}, {Col(q, "id", {"filter"})}, 1) :
             sn \in {NoName, "public", "archive"}, q \in {NoName, "o", "c"}}
    \* A subquery, whose alias may be that of the outer table.
    \cup {Select({Orders, Ref(2, "sub", sn, "clients", a)}, {OrderMail({}), Col(a, "mail", {})}, 0) :
             sn \in {NoName, "public"}, a \in {"c", "o"}}
    \* A common table expression named like a table, which may be referenced
    \* with its schema.
    \cup {[Select({Ref(2, "cte", NoName, "orders", NoName), Ref(1, "main", sn, n, NoName)},
                  {OrderId({})}, 1) EXCEPT !.ctes = {n}] :
             sn \in {NoName, "public"}, n \in {"clients", "orders"}}
    \* Refused whatever the permissions are.
    \cup {[Select({Orders}, {OrderId({})}, 1) EXCEPT !.star = TRUE],
          [Select({Orders}, {OrderId({})}, 1) EXCEPT !.form = "refused"],
          [Select({Orders}, {OrderId({})}, 1) EXCEPT !.form = "untokenized"],
          Select({Orders}, {}, 1)}

MCSymmetry == Permutations(Permissions)
=============================================================================
