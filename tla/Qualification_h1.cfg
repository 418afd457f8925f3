SPECIFICATION Spec
CONSTANT MaxDrift = 1
INVARIANTS ReadyWasTrue OfflineAndLiveAgree PassNeedsTheSequence RestoredOrHandedOver CheckpointsResume
CHECK_DEADLOCK FALSE
