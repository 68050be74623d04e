----------------------------- MODULE MCRemoteOps -----------------------------
(* RemoteOps with two pages, one of which has two messages under way. *)
EXTENDS RemoteOps

CONSTANTS o1, o2, o3, c1, c2

MCOwner == [o \in Ops |-> IF o = o3 THEN c2 ELSE c1]
=============================================================================
