CONSTANTS
  Params = {p1, p2}
  Files = 3
  Absent = Absent
  Garbled = Garbled
  Overridden = {p2}
  Names = {n1, n2, n3}
  ServiceName <- MCServiceName
  ClusterName <- MCClusterName
  InCluster = TRUE
  MaxEdits = 1
  p1 = p1
  p2 = p2
  n1 = n1
  n2 = n2
  n3 = n3
SPECIFICATION Spec
INVARIANTS TypeOK FilesOverride ClusterPreferred
