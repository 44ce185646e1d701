\* One attempt, one remediation.
SPECIFICATION Spec
CONSTANTS
    Inventory <- MCInventory
    Descriptions <- MCDescriptions
    Order <- MCOrder
    Scopes <- MCScopes
    MaxAttempts = 1
    MaxFixes = 1
    Item <- MCItem
\* A job that is done stays done.
CHECK_DEADLOCK FALSE
PROPERTY TagsAreAdded
