SPECIFICATION Spec
CONSTANTS
    Issues = {1, 2}
    Requests = {1, 2}
    NoIssue = 0
    Names = {"Evo X", "evo-x"}
    Ids = {24}
    Slug <- MCSlugFolded
    MaxRuns = 2
INVARIANT OneAssetPerBuild
