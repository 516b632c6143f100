SPECIFICATION FairSpec
CONSTANTS
  PoolList <- OnePool
  Pids = {p1, p2}
  pm <- Static
  pm_max_children <- Two
  pm_start_servers <- None
  pm_min_spare_servers <- None
  pm_max_spare_servers <- None
  process_max = 0
  FPM_MAX_SPAWN_RATE = 2
  emergency_restart_threshold = 0
  max_requests = TRUE
  request_terminate_timeout = TRUE
  StartFails = FALSE
  Crashes = FALSE
  Catches = TRUE
  Operator = {"T"}
  Backlog = 1
PROPERTIES TerminateFinishes ZombiesBuried StaticPoolFull
