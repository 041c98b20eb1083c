-------------------------- MODULE MCDocumentPipeline --------------------------
(***************************************************************************)
(* A small instance of DocumentPipeline: two tenants with a knowledge base *)
(* and an administrator each, a member who is not an administrator, a file *)
(* that yields two chunks, one from which no text can be extracted and one *)
(* on which the parser raises.                                             *)
(***************************************************************************)
EXTENDS DocumentPipeline, TLC

CONSTANTS adminA, memberA, adminB, tenantA, tenantB, kbA, kbB, good, broken, garbled

MCUsers == {adminA, memberA, adminB}
MCAdmins == {adminA, adminB}
MCTenants == {tenantA, tenantB}
MCTenantOf == adminA :> tenantA @@ memberA :> tenantA @@ adminB :> tenantB
MCKBs == {kbA, kbB}
MCKBTenant == kbA :> tenantA @@ kbB :> tenantB
MCContents == {good, broken, garbled}
MCChunkTotal == good :> 2 @@ broken :> 0 @@ garbled :> 0

\* Requests and documents are interchangeable.
Symmetry == Permutations(Requests) \cup Permutations(Docs)

\* One tenant: enough where callers do not matter.
OneUser == {adminA}
OneTenant == {tenantA}
OneTenantOf == adminA :> tenantA
OneKB == {kbA}
OneKBTenant == kbA :> tenantA
TwoContents == {good, garbled}
TwoChunkTotal == good :> 2 @@ garbled :> 0
=============================================================================
