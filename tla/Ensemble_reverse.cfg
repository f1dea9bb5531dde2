\* SIGINT and SIGTERM: what the README says of the stop order.
CONSTANTS
    N = 3
    WithPorts = {2}
    Signal = {"SIGINT", "SIGTERM"}
SPECIFICATION EnsembleSpec
INVARIANTS ReverseOrder
CHECK_DEADLOCK FALSE
