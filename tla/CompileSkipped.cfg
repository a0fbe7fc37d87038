SPECIFICATION Spec
CONSTANTS
    Pol <- MCPol
    Cil = "cil"
    Keys <- MCKeys
    Spacings = {"plain"}
    Plain = "plain"
    Types <- MCTypes
    Semicolon <- MCSemicolon
    Declares <- MCDeclares
    Uses <- MCUses
    MarkerText <- MCMarkerText
    Baseline <- MCBaseline
    PlumbingKey = ";plumbing"
    Plumbing <- MCPlumbing
    PropFile = "property_contexts"
    Malformed <- MCMalformed
    Repeatable <- MCRepeatable
    PropOf <- MCPropOf
    Partitions = {"system", "vendor", "product", "odm"}
    Needed <- MCNeeded
    Roms <- MCRoms
    Donors <- MCDonors
\* a job stops when it has ended
CHECK_DEADLOCK FALSE
INVARIANT PartialNeverRejects
