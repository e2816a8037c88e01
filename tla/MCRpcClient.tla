---------------------------- MODULE MCRpcClient ----------------------------
(* Small instances of RpcClient for TLC.                                   *)
EXTENDS RpcClient

CONSTANTS m, t1, f1, c1, c2, c3, c4

MainOnly == {m}
TwoCallers == {m, t1}
OneWorker == {f1}
ThreeConns == {c1, c2, c3}

(* Connections are interchangeable.  A run of a liveness property does not *)
(* use the symmetry.                                                       *)
ConnSymmetry == Permutations(Conns)
=============================================================================
