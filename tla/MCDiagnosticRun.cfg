\* Two attempts over the inventory of the demonstration or an account of AWS,
\* one remediation, and syncs whose calls fail.
SPECIFICATION Spec
CONSTANTS
    Inventory <- MCInventory
    Descriptions <- MCDescriptions
    Order <- MCOrder
    Scopes <- MCScopes
    MaxAttempts = 2
    MaxFixes = 1
    Item <- MCItem
\* A job that is done stays done.
CHECK_DEADLOCK FALSE
CONSTRAINTS OutsideStays FixedOrRetried
INVARIANTS TypeOK ReportIsWhole GapsAreBreaks ChecksAreAttempts
INVARIANTS DemoReport FailuresAreSeen OnlyConfigurationIsFound
PROPERTIES RemediationHelps
