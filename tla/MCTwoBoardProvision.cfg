CONSTANT Burst = 2
SPECIFICATION ProvisionSpec
INVARIANT RoleHeard
CHECK_DEADLOCK FALSE
