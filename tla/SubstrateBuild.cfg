SPECIFICATION Spec
CONSTANTS
    Pol <- MCPol
    Cil = "cil"
    PolSeq <- MCPolSeq
    Keys <- MCKeys
    Spacings = {"plain", "wide"}
    Plain = "plain"
    Types <- MCTypes
    Semicolon <- MCSemicolon
    Declares <- MCDeclares
    Uses <- MCUses
    MarkerText <- MCMarkerText
    Baseline <- MCBaseline
    PlumbingKey = ";plumbing"
    Plumbing <- MCPlumbing
    Bin <- MCBin
    CertPaths <- MCCerts
    Required <- MCRequired
    Parent <- MCParent
    Root = "/"
    EtcIpsec = "/etc/ipsec"
    IpsecD = "/etc/ipsec/ipsec.d"
    Hash = "sha256"
    Labels = {"se", "exec"}
    NoLabel = "nolabel"
    BinMode <- MCBinMode
    FileMode = "0644"
    DirMode = "040755"
    RawMode = "raw"
    BaseImages <- MCBaseImages
    DonorImages <- MCDonorImages
    ListDir <- MCListDir
    NoImage = NoImage
    Silent <- MCSilent
    Heads <- MCHeads
    MaxShort = 1
INVARIANTS TypeOK GraftedUsable PolicyComplete PolicyNotDoubled NoSemicolonEntry
PROPERTIES KeepsPromise RunEnds
