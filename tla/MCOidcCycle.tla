---------------------------- MODULE MCOidcCycle ----------------------------
(* The key sets of a staged rotation, in which A is reissued with other      *)
(* material, from a bootstrapped or an absent trust file, with two slots of  *)
(* the scheduler and runs that outlive the lease.                            *)
EXTENDS OidcCycle

A == <<"A", 1>>
AReissued == <<"A", 2>>
B == <<"B", 1>>

MCKeySets == {{A}, {AReissued, B}, {B}}
MCInitialTrust == {{A}, None}
MCInitialAudit == {{A}, None}
MCInitialProvider == {{A}}
=============================================================================
