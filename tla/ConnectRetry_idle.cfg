\* One attempt; the tunnel carries no traffic.
CONSTANT Retries = 0
SPECIFICATION Spec
INVARIANTS TimeoutOnlyEstablishing
CHECK_DEADLOCK FALSE
