CONSTANT MaxRequests = 3
SPECIFICATION FairTimerSpec
INVARIANTS TimerTypeOK
PROPERTIES RequestFires StopTerminates CancelledStaysQuiet
CHECK_DEADLOCK FALSE
