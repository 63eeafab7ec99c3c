---------------------------- MODULE MCAggregator ----------------------------
(***************************************************************************)
(* Aggregator for TLC: key 1 is in a key-value store, key 2 in a second    *)
(* one or in the file of initial configuration, key 3 is used by the local *)
(* client and by gRPC calls, which also touch 2.                           *)
(***************************************************************************)
EXTENDS Aggregator, TLC

kv(f) == [k \in Keys |-> IF k \in DOMAIN f THEN f[k] ELSE Nil]
MCContent == [w \in Watchers |-> IF w = "etcd" THEN kv(1 :> 1) ELSE kv(2 :> 1)]
MCChanges == [w \in Watchers |-> IF w = "etcd" THEN {<<1, 2>>, <<1, Nil>>, <<1, 9>>} ELSE {}]
MCSources == <<"datasync", "grpc", "localclient">>

update(f) == [src |-> "grpc", resync |-> FALSE, kvs |-> f]
MCRequests == {update(3 :> 2), update(2 :> 2), update(2 :> Nil),
               [src |-> "grpc", resync |-> TRUE, kvs |-> 2 :> 2]}
=============================================================================
