SPECIFICATION RegistrySpec
CONSTANTS
  Process = {p1, p2}
  Shared = worker
  Name = {worker}
  NameOf <- SharedName
  Interval = 1
  Timeout = 3
  Period = 3
  Latency = 1
  Losses = 1
SYMMETRY Replicas
INVARIANTS RegistryTypeOK LiveWorkersReappear GoneWorkersAreFound
PROPERTY SweepMarksStaleRows
