----------------------------- MODULE BootServices -----------------------------
(***************************************************************************)
(* What the scripts of the two modules do at every boot                    *)
(* (tools/build_consolidated_modules.py: VOWIFI_POST_FS_DATA, IMS_SERVICE, *)
(* VOWIFI_SERVICE), among a system that starts at its own pace, a user, a  *)
(* package watchdog, and a phone that may lose power or freeze at any      *)
(* point, which FINDINGS.md says a first boot does.                        *)
(*                                                                         *)
(* The commands that patch the loaded policy, label ipsecd and restart it  *)
(* leave nothing behind that these depend on: BootPolicy has them.  The    *)
(* fixes of a property and of the data server's directory are left out.    *)
(*                                                                         *)
(* External: PackageManager parses an APK at the start of the system       *)
(* unless its cache has the path with this size and time, and zipdir()     *)
(* gives every file the same time; `pm` works once the system is up, and   *)
(* may before; `cmd phone` works once the phone process is ready.          *)
(***************************************************************************)
EXTENDS Naturals

CONSTANTS
    Apks,         \* builds of QualifiedNetworksService.apk of one size
    None,         \* no APK, no stamp, no cache entry
    WlanKeys,     \* the CarrierConfig keys VOWIFI_SERVICE sets
    Editable,     \* editable_enhanced_4g_lte_bool
    ImsWait, VowWait, Tries      \* 90, 60 and 60

ASSUME BootAssumption ==
    /\ None \notin Apks /\ Editable \notin WlanKeys
    /\ ImsWait \in Nat /\ VowWait \in Nat /\ Tries \in Nat \ {0}

VARIABLES
    apk, staged,  \* the module's APK, and that of an update for the next boot
    stamp,        \* .qns_cache_stamp
    cache,        \* the APK PackageManager's cache entry was made from
    overrides,    \* the CarrierConfig keys that are persistently overridden
    enabled,      \* which of the two packages are enabled
    wfc,          \* the setting wfc_ims_enabled: "null", or who set it
    stage,        \* how far this boot is
    phone,        \* is the phone process ready?
    manifest,     \* the APK whose manifest this boot runs with
    selected,     \* is com.lge.ims the IMS service?
    post,         \* VOWIFI_POST_FS_DATA: its next command
    ims, waited, tried,       \* IMS_SERVICE: next command, its i and n
    vow, vowWaited            \* VOWIFI_SERVICE: next command, its i

disk == <<apk, staged, stamp, cache, overrides, enabled, wfc>>
system == <<stage, phone, manifest, selected>>
imsScript == <<ims, waited, tried>>
vowScript == <<vow, vowWaited>>
vars == <<disk, system, post, imsScript, vowScript>>

Packages == {"com.lge.ims", "product.lge.data.server"}

TypeOK ==
    /\ apk \in Apks /\ {staged, stamp, cache, manifest} \subseteq Apks \cup {None}
    /\ overrides \subseteq WlanKeys \cup {Editable}
    /\ enabled \subseteq Packages
    /\ wfc \in {"null", "user", "script"}
    /\ stage \in {"off", "post-fs-data", "starting", "up"}
    /\ phone \in BOOLEAN /\ selected \in BOOLEAN
    /\ post \in {"compare", "rm cache", "rm carrierconfig", "stamp", "end"}
    /\ ims \in {"wait", "enable data", "enable ims", "editable", "select", "end"}
    /\ waited \in 0 .. ImsWait /\ tried \in 0 .. Tries - 1
    /\ vow \in {"wait", "override", "get", "put", "end"}
    /\ vowWaited \in 0 .. VowWait

\* Nothing of a boot is left when the phone is off.
Off ==
    /\ stage' = "off" /\ phone' = FALSE /\ manifest' = None /\ selected' = FALSE
    /\ post' = "end"
    /\ ims' = "end" /\ waited' = 0 /\ tried' = 0
    /\ vow' = "end" /\ vowWaited' = 0

\* A phone on which the modules were just installed; an earlier installation
\* may have left its entry in the cache.
Init ==
    /\ apk \in Apks /\ staged = None /\ stamp = None
    /\ cache \in Apks \cup {None}
    /\ overrides = {} /\ enabled = {"com.lge.ims"} /\ wfc = "null"
    /\ stage = "off" /\ phone = FALSE /\ manifest = None /\ selected = FALSE
    /\ post = "end"
    /\ ims = "end" /\ waited = 0 /\ tried = 0
    /\ vow = "end" /\ vowWaited = 0

-----------------------------------------------------------------------------
(* External: the phone, its user and its system.                           *)

\* A staged update replaces the module's directory, the stamp with it.
Boot ==
    /\ stage = "off"
    /\ stage' = "post-fs-data" /\ post' = "compare"
    /\ IF staged # None
       THEN apk' = staged /\ stamp' = None /\ staged' = None
       ELSE UNCHANGED <<apk, stamp, staged>>
    /\ UNCHANGED <<cache, overrides, enabled, wfc, phone, manifest, selected,
                   imsScript, vowScript>>

\* PackageManager parses the APK, or takes its cache's word; the modules'
\* services start.
StartSystem ==
    /\ stage = "post-fs-data" /\ post = "end"
    /\ stage' = "starting"
    /\ manifest' = IF cache # None THEN cache ELSE apk
    /\ cache' = manifest'
    /\ ims' = "wait" /\ vow' = "wait"
    /\ UNCHANGED <<apk, staged, stamp, overrides, enabled, wfc, phone, selected, post,
                   waited, tried, vowWaited>>

PhoneReady ==
    /\ stage \in {"starting", "up"} /\ ~phone
    /\ phone' = TRUE
    /\ UNCHANGED <<disk, stage, manifest, selected, post, imsScript, vowScript>>

BootCompleted ==
    /\ stage = "starting"
    /\ stage' = "up"
    /\ UNCHANGED <<disk, phone, manifest, selected, post, imsScript, vowScript>>

\* A reboot, a power cut, a freeze: at any time.
PowerOff ==
    /\ stage # "off"
    /\ Off
    /\ UNCHANGED disk

\* The user installs another build of the module, or copies another APK into
\* its directory.
Update ==
    /\ stage = "up"
    /\ \E a \in Apks : \/ staged' = a /\ apk' = apk
                       \/ apk' = a /\ staged' = staged
    /\ UNCHANGED <<stamp, cache, overrides, enabled, wfc, system, post, imsScript, vowScript>>

UserChooses ==
    /\ stage = "up"
    /\ wfc' = "user"
    /\ UNCHANGED <<apk, staged, stamp, cache, overrides, enabled, system, post,
                   imsScript, vowScript>>

\* PackageWatchdog disables an app that crash-loops.
Watchdog ==
    /\ stage \in {"starting", "up"}
    /\ enabled' = enabled \ {"com.lge.ims"}
    /\ UNCHANGED <<apk, staged, stamp, cache, overrides, wfc, system, post,
                   imsScript, vowScript>>

-----------------------------------------------------------------------------
(* VOWIFI_POST_FS_DATA, which the boot waits for.                          *)

\* Mutant: the cache is busted once, not whenever the APK changes.
Changed_Once == stamp = None

Changed == apk # stamp

Compare ==
    /\ post = "compare"
    /\ post' = IF Changed THEN "rm cache" ELSE "end"
    /\ UNCHANGED <<disk, system, imsScript, vowScript>>

RmCache ==
    /\ post = "rm cache"
    /\ post' = "rm carrierconfig"
    /\ cache' = None
    /\ UNCHANGED <<apk, staged, stamp, overrides, enabled, wfc, system, imsScript, vowScript>>

\* carrierconfig-*.xml: the persistent overrides go with it.
RmCarrierConfig ==
    /\ post = "rm carrierconfig"
    /\ post' = "stamp"
    /\ overrides' = {}
    /\ UNCHANGED <<apk, staged, stamp, cache, enabled, wfc, system, imsScript, vowScript>>

WriteStamp ==
    /\ post = "stamp"
    /\ post' = "end"
    /\ stamp' = apk
    /\ UNCHANGED <<apk, staged, cache, overrides, enabled, wfc, system, imsScript, vowScript>>

-----------------------------------------------------------------------------
(* IMS_SERVICE, in the background.                                         *)

ImsWaits ==
    /\ ims = "wait"
    /\ IF stage = "up" \/ waited = ImsWait
       THEN ims' = "enable data" /\ waited' = waited
       ELSE waited' = waited + 1 /\ ims' = ims
    /\ UNCHANGED <<disk, system, post, tried, vowScript>>

\* `pm enable`, whose status nobody looks at.
PmEnable(package) ==
    \/ enabled' = enabled \cup {package}
    \/ stage # "up" /\ enabled' = enabled

EnableData ==
    /\ ims = "enable data"
    /\ ims' = "enable ims"
    /\ PmEnable("product.lge.data.server")
    /\ UNCHANGED <<apk, staged, stamp, cache, overrides, wfc, system, post, waited, tried, vowScript>>

\* Mutant: com.lge.ims is taken to be enabled.
EnableIms_Skipped ==
    /\ ims = "enable ims"
    /\ ims' = "editable"
    /\ UNCHANGED <<disk, system, post, waited, tried, vowScript>>

EnableIms ==
    /\ ims = "enable ims"
    /\ ims' = "editable"
    /\ PmEnable("com.lge.ims")
    /\ UNCHANGED <<apk, staged, stamp, cache, overrides, wfc, system, post, waited, tried, vowScript>>

\* Mutant: a loop that does not count.
TryAgain_ForEver(step) == UNCHANGED <<ims, tried>>

\* A failed attempt: the next one, or the next step.
TryAgain(step) ==
    IF tried + 1 < Tries THEN tried' = tried + 1 /\ ims' = ims
    ELSE tried' = 0 /\ ims' = step

\* Mutant: the first loop is left with `exit`, not with `break`.
SetEditable_Exits ==
    /\ ims = "editable"
    /\ IF phone
       THEN overrides' = overrides \cup {Editable} /\ ims' = "end" /\ tried' = 0
       ELSE overrides' = overrides /\ TryAgain("select")
    /\ UNCHANGED <<apk, staged, stamp, cache, enabled, wfc, system, post, waited, vowScript>>

SetEditable ==
    /\ ims = "editable"
    /\ IF phone
       THEN overrides' = overrides \cup {Editable} /\ ims' = "select" /\ tried' = 0
       ELSE overrides' = overrides /\ TryAgain("select")
    /\ UNCHANGED <<apk, staged, stamp, cache, enabled, wfc, system, post, waited, vowScript>>

SelectIms ==
    /\ ims = "select"
    /\ IF phone
       THEN selected' = TRUE /\ ims' = "end" /\ tried' = 0
       ELSE selected' = selected /\ TryAgain("end")
    /\ UNCHANGED <<disk, stage, phone, manifest, post, waited, vowScript>>

-----------------------------------------------------------------------------
(* VOWIFI_SERVICE, in the background.                                      *)

\* Without boot_completed in time the script exits.
VowWaits ==
    /\ vow = "wait"
    /\ IF stage = "up" THEN vow' = "override" /\ vowWaited' = vowWaited
       ELSE IF vowWaited = VowWait THEN vow' = "end" /\ vowWaited' = vowWaited
       ELSE vowWaited' = vowWaited + 1 /\ vow' = vow
    /\ UNCHANGED <<disk, system, post, imsScript>>

\* The whole file at once, or, if the phone was not ready, one key after the
\* other, of which those after it became ready take effect.
Override ==
    /\ vow = "override"
    /\ vow' = "get"
    /\ \E keys \in SUBSET WlanKeys :
          /\ phone => keys = WlanKeys
          /\ overrides' = overrides \cup keys
    /\ UNCHANGED <<apk, staged, stamp, cache, enabled, wfc, system, post, imsScript,
                   vowWaited>>

\* The user may choose between this look and the put.
GetSetting ==
    /\ vow = "get"
    /\ vow' = IF wfc = "null" THEN "put" ELSE "end"
    /\ UNCHANGED <<disk, system, post, imsScript, vowWaited>>

PutSetting ==
    /\ vow = "put"
    /\ vow' = "end"
    /\ wfc' = "script"
    /\ UNCHANGED <<apk, staged, stamp, cache, overrides, enabled, system, post, imsScript,
                   vowWaited>>

-----------------------------------------------------------------------------

PostFsData == Compare \/ RmCache \/ RmCarrierConfig \/ WriteStamp
ImsService == ImsWaits \/ EnableData \/ EnableIms \/ SetEditable \/ SelectIms
VowService == VowWaits \/ Override \/ GetSetting \/ PutSetting
System == Boot \/ StartSystem \/ PhoneReady \/ BootCompleted
People == PowerOff \/ Update \/ UserChooses \/ Watchdog

Next == System \/ PostFsData \/ ImsService \/ VowService \/ People

\* The scripts' processes run.  Nobody has to start the phone, and the system
\* may take for ever.
Spec == Init /\ [][Next]_vars
             /\ WF_vars(PostFsData) /\ WF_vars(ImsService) /\ WF_vars(VowService)

-----------------------------------------------------------------------------
(* Properties.                                                             *)

\* Whatever was updated or copied when, and wherever the power failed, the
\* system starts with the manifest of the APK it has: the stamp is written
\* after the cache is gone (the comment in VOWIFI_POST_FS_DATA).
ManifestCurrent ==
    [][stage = "post-fs-data" /\ stage' = "starting" => manifest' = apk]_vars

\* Every boot that completes before the script stops waiting re-enables both
\* packages ("so IMS self-heals"), whatever the watchdog does meanwhile.
SelfHeals ==
    stage = "up" /\ ims = "wait" ~> enabled = Packages \/ stage = "off"

\* A phone process that is ready while the script still tries gets its IMS
\* service.
ImsSelected ==
    phone /\ ims \in {"wait", "enable data", "enable ims", "editable", "select"}
        ~> selected \/ stage = "off"

\* No boot leaves a script behind that waits for ever.
ScriptsEnd ==
    stage = "starting" ~> (ims = "end" /\ vow = "end")
=============================================================================
