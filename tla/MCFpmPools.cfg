SPECIFICATION Spec
CONSTANTS
  PoolList <- TwoPools
  Pids = {p1, p2, p3}
  pm <- Mixed
  pm_max_children <- TwoAndOne
  pm_start_servers <- OneAndNone
  pm_min_spare_servers <- OneAndNone
  pm_max_spare_servers <- OneAndNone
  process_max = 2
  FPM_MAX_SPAWN_RATE = 2
  emergency_restart_threshold = 1
  max_requests = FALSE
  request_terminate_timeout = FALSE
  StartFails = TRUE
  Crashes = TRUE
  Catches = FALSE
  Operator = {}
  Backlog = 1
SYMMETRY PidSymmetry
INVARIANTS ChildrenKnown SlotsExact NoOrphans StageIsOwn MaxChildren TypeOK
