SPECIFICATION ServingSpec
CONSTANTS
  PoolList <- OnePool
  Pids = {p1}
  pm <- Static
  pm_max_children <- One
  pm_start_servers <- None
  pm_min_spare_servers <- None
  pm_max_spare_servers <- None
  process_max = 0
  FPM_MAX_SPAWN_RATE = 2
  emergency_restart_threshold = 0
  max_requests = FALSE
  request_terminate_timeout = FALSE
  StartFails = FALSE
  Crashes = FALSE
  Catches = FALSE
  Operator = {"2"}
  Backlog = 1
PROPERTIES ReloadFinishes
