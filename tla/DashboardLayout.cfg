SPECIFICATION Spec
CONSTANTS
    MaxId = 7
    NewTypes = {"COLUMN", "CHART", "TABS"}
    Columns = 3
    ChartWidth = 2
    SelfDrops = FALSE
    NestedTabsToRoot = FALSE
INVARIANTS
    LayoutIsTree
    ChildrenHaveValidTypes
    RowsFit
PROPERTY ContentOnlyDeleted
VIEW ShapeView
CHECK_DEADLOCK FALSE
