\* The order of the versions the handler returns.
SPECIFICATION Spec
CONSTANTS
    TagNames <- MCTagNames
    MaxPushed <- MCMaxPushed
INVARIANTS
    VersionsByPushDate
CHECK_DEADLOCK FALSE
