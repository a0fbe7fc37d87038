SPECIFICATION MCSpec
CONSTANTS
    Apks = {a1, a2}
    a1 = a1
    a2 = a2
    None = None
    WlanKeys = {"qns"}
    Editable = "editable"
    ImsWait = 2
    VowWait = 1
    Tries = 2
    Donors <- MCDonors
    CIL_APPEND <- MCCilAppend
    VOWIFI_SEPOLICY <- MCVowifiSepolicy
    IMS_SEPOLICY_RULE <- MCImsSepolicyRule
    ImsLive <- MCImsLive
    VowLive <- MCVowLive
INVARIANTS RulesHold SurvivorIsLabelled
PROPERTIES ManifestCurrent SelfHeals ImsSelected ScriptsEnd IpsecdComesUp
