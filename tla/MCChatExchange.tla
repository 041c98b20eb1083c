---------------------------- MODULE MCChatExchange ----------------------------
(***************************************************************************)
(* A small instance of ChatExchange: two users of one tenant and one of    *)
(* another; a connection and a knowledge base with two documents belong to *)
(* the first tenant.                                                       *)
(***************************************************************************)
EXTENDS ChatExchange, TLC

CONSTANTS alice, bob, carol, tenantA, tenantB, connA, kbA, d1, d2

MCUsers == {alice, bob, carol}
MCTenants == {tenantA, tenantB}
MCTenantOf == alice :> tenantA @@ bob :> tenantA @@ carol :> tenantB
MCConns == {connA}
MCConnTenant == connA :> tenantA
MCKBs == {kbA}
MCKBTenant == kbA :> tenantA
MCDocs == {d1, d2}
MCDocKB == d1 :> kbA @@ d2 :> kbA

\* Requests and documents are interchangeable.
Symmetry == Permutations(Requests) \cup Permutations(Docs)
=============================================================================
