SPECIFICATION TreeSpec
CONSTANTS
    Key = {1, 2, 3, 4}
    Self = {3}
    Trees <- AllTrees
    Views <- SomeTrees
    MaxChanges = 1
INVARIANTS OrderFree HopsBounded CacheFresh
PROPERTIES Ends Delivered
CHECK_DEADLOCK FALSE
