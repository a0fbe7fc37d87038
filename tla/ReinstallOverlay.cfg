SPECIFICATION Spec
CONSTANTS
    Seapp <- MCSeapp
    PropPath = "props"
    Keys <- MCKeys
    Vals = {"none", "all", "x"}
    Codeaurora = "codeaurora"
    LgeIms = "lge.ims"
    SeappStripped = {"lge.ims", "lgedataservice"}
    PropStripped = {"lge.p", "lge.q"}
    Levelled <- MCLevelled
    DataLine <- MCDataLine
    PropLines <- MCPropLines
    Builds <- MCBuilds
INVARIANT ReinstallFollowsRom
