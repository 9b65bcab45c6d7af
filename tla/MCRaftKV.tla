------------------------------ MODULE MCRaftKV ------------------------------
(***************************************************************************)
(* RaftKV with one key, one value and one lease, and a workload that       *)
(* reaches every branch that changes data, revision, size or leases.       *)
(***************************************************************************)
EXTENDS RaftKV, TLC

CONSTANTS k, v, l

MCKeys == {k}
MCValues == {v}
MCLeaseIDs == {l}
MCSizeOf == (k :> 1) @@ (v :> 2)
MCWorkload == {PutCmd(k, v, l), DeleteCmd(k), GrantCmd(l, TRUE), RevokeCmd(l)}

NodeSymmetry == Permutations(Nodes)
=============================================================================
