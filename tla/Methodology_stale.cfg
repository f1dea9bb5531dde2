\* One token in AGENTS.md, one upgrade.
CONSTANTS
    MaxTokens = 1
    MaxUpgrades = 1
SPECIFICATION MethodologySpec
INVARIANTS NothingStale
CHECK_DEADLOCK FALSE
