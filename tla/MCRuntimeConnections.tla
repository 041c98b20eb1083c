------------------------- MODULE MCRuntimeConnections -------------------------
(***************************************************************************)
(* A small instance of RuntimeConnections: an administrator, a member of   *)
(* the same tenant and an administrator of another one; two connection     *)
(* targets, of which one may be incomplete; a supported database type and  *)
(* one that is not.                                                        *)
(***************************************************************************)
EXTENDS RuntimeConnections, TLC

CONSTANTS adminA, memberA, adminB, tenantA, tenantB, host1, host2, partial,
          mysql

MCUsers == {adminA, memberA, adminB}
MCAdmins == {adminA, adminB}
MCTenants == {tenantA, tenantB}
MCTenantOf == adminA :> tenantA @@ memberA :> tenantA @@ adminB :> tenantB

\* One administrator: enough where callers do not matter.
OneUser == {adminA}
OneTenant == {tenantA}
OneTenantOf == adminA :> tenantA

TwoHosts == {host1, host2}
HostAndPartial == {host1, partial}
OneHost == {host1}
BothKinds == {Postgres, mysql}
OneKind == {Postgres}

\* Bound on histories in which requests have overlapped: four requests, and
\* three where one of them met a fault.  Without overlap there are five: it
\* takes five (create, test, synchronise, grant, query) to run a query.
OverlapBound ==
    LET arrived == Cardinality({r \in Requests : pc[r] # "idle"})
    IN  overlapped # {} => arrived <= IF faulted = {} THEN 4 ELSE 3

Symmetry == Permutations(Requests) \cup Permutations(Conns)
                \cup Permutations(Names)
=============================================================================
