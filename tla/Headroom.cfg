SPECIFICATION Spec
CONSTANTS
    Grafts = {f1, f2, f3}
    Policies = {p1, p2}
    f1 = f1
    f2 = f2
    f3 = f3
    p1 = p1
    p2 = p2
    Sizes = {0, 1, 7, 8, 9}
    Bs = 4
    Slack = 40
    Round = 4
    MaxBlocks = 24
    Meta = 1
    Growth = 1
    ResizeMeta = 2
INVARIANTS NeverTruncates BudgetHolds
\* the tool ends
CHECK_DEADLOCK FALSE
