SPECIFICATION Spec
CONSTANTS
  Keys = {1, 2, 3}
  Values = {1, 2, 9}
  SourceOrder <- MCSources
  Callers = {"orch", "grpc1"}
  Impatient = {"grpc1"}
  Watchers = {"etcd", "file"}
  Once = {"file"}
  Content <- MCContent
  Changes <- MCChanges
  LocalKeys = {3}
  GrpcRequests <- MCRequests
  Undecodable = {9}
  MaxInputs = 2
  MaxResyncs = 2
INVARIANTS StoreApplied Converges
