SPECIFICATION Spec
CONSTANTS
  Procs = {w1, w2}
  Models = {"m1", "m2"}
  ModelOrder <- MCModelOrder
  Latencies = {800}
  MaxFeedback = 2
  Profiles = {p1, p2}
  Storages = {"ENCRYPTED_DB", "VAULT"}
  Slots = {"GENERATE"}
  ExpertSlots = {"embedding"}
  Nobody = Nobody
  ModelOf <- MCModelOf
  GlobalKeys = {"m1"}
  MaxRequests = 4
  MaxFaults = 1
CHECK_DEADLOCK FALSE
INVARIANTS
  SecretsAccounted
  ServesLiveProfiles
  RoutingHolds
SYMMETRY Symmetry
