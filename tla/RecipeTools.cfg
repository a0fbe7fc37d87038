SPECIFICATION MCSpec
CONSTANTS
    Span = 128
    Window = 5
    Header = 8
    GetService = "getService"
    PropertyGet = "property_get"
    CStr = "c_str"
    Binaries <- MCBinaries
    None = None
    Images <- MCImages
    BlobSeq <- MCBlobSeq
    Substrate = {"bin/ipsecd"}
    Ipsecd = "bin/ipsecd"
    Mac = "mac"
    Ims = {"jar"}
    Vow = {"native/ipsecd"}
    Jar = "jar"
    Source <- MCSource
    Classes <- MCClasses
    DumpFaults = {"nothing", "empty"}
    KeytoolFails = TRUE
    Files <- MCFiles
    Values <- MCValues
    Data = {0}
    Tag <- MCTag
    Astral = {9}
    MaxStrings = 4
    MaxChunks = 8
INVARIANTS RegularIsPatched PacIsEnough StaysWellFormed NoHalfJar
PROPERTIES EditsManifest ExtractionComplete BuiltIsStaged
CHECK_DEADLOCK FALSE
