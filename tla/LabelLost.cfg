SPECIFICATION Spec
CONSTANTS
    Issues = {1}
    Requests = {1}
    NoIssue = 0
    Names = {"los"}
    Ids = {23, 24}
    Slug <- MCSlugApart
    MaxRuns = 3
INVARIANT LabelBuilds
