---------------------------- MODULE MCKVClients ----------------------------
(***************************************************************************)
(* Two callers with every kind of request, on two usable keys and a        *)
(* malformed one, an empty, a middling and an oversized value, and a       *)
(* budget that two middling entries exceed.                                *)
(***************************************************************************)
EXTENDS KVClients, TLC

CONSTANTS k1, k2, bad, empty, small, large, l1

MCKeys == {k1, k2, bad}
MCValidKeys == {k1, k2}
MCValues == {empty, small, large}
MCLeaseIDs == {l1}
MCSizeOf == (k1 :> 1) @@ (k2 :> 1) @@ (bad :> 1)
            @@ (empty :> 0) @@ (small :> 2) @@ (large :> 6)

put(k, v) == PutCmd(k, v, NoLease)
MCRequests ==
    {Request("swap", <<put(k1, small)>>, 1), Request("swap", <<put(k1, small)>>, 0),
     Request("create", <<put(k1, small)>>, 0),
     Request("commit", <<put(k1, small), DeleteCmd(k2)>>, 0),
     Request("putkv", <<put(k1, small)>>, 0),
     Request("put", <<put(k1, small)>>, 0), Request("put", <<put(k2, empty)>>, 0),
     Request("delete", <<DeleteCmd(k1)>>, 0),
     Request("get", <<DeleteCmd(k1)>>, 0), Request("list", <<DeleteCmd(k1)>>, 0),
     Request("getkv", <<DeleteCmd(k1)>>, 0)}
MCRemote == {put(k1, small)}

CallerSymmetry == Permutations(Callers)
=============================================================================
