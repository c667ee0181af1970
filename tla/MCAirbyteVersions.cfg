\* Every DockerHub content over the tags, with fetch errors on any page.
\* The handler answers once and stops, so deadlock is not checked.
SPECIFICATION Spec
CONSTANTS
    TagNames <- MCTagNames
    MaxPushed <- MCMaxPushed
INVARIANTS
    TypeOK
    VersionsComplete
CHECK_DEADLOCK FALSE
