------------------------------ MODULE Boot_proofs ------------------------------
(***************************************************************************)
(* What the boot scripts never do, for every number of builds, every wait  *)
(* and count: boot with a manifest of another APK; and what they always    *)
(* do, for every list of rules: leave the daemons their grants and ipsecd  *)
(* its label.                                                              *)
(***************************************************************************)
EXTENDS BootServices, BootPolicy, TLAPS

-----------------------------------------------------------------------------
(* What the scripts leave on the phone.                                    *)

\* The cache was made from what the stamp names, or is gone.
CacheIsStamped == stamp # None => cache \in {None, stamp}

\* The script stamps only after it has removed the cache ...
RemovedFirst == post \in {"rm carrierconfig", "stamp"} => cache = None

\* ... before the system starts ...
BeforeSystem == post # "end" => stage = "post-fs-data"

\* ... and does not end before the stamp is that of the APK.
StampedAtEnd == stage = "post-fs-data" /\ post = "end" => stamp = apk

ScriptsInv ==
    /\ TypeOK
    /\ CacheIsStamped /\ RemovedFirst /\ BeforeSystem /\ StampedAtEnd

-----------------------------------------------------------------------------
(* The scripts' counters.                                                  *)

LEMMA Zeros == 0 \in 0 .. ImsWait /\ 0 \in 0 .. Tries - 1 /\ 0 \in 0 .. VowWait
BY BootAssumption

\* A counter that is not at its limit may go on.
LEMMA Counted ==
    ASSUME NEW n \in Nat, NEW i \in 0 .. n, i # n
    PROVE  i + 1 \in 0 .. n
OBVIOUS

LEMMA TryAgainCounts ==
    ASSUME tried \in 0 .. Tries - 1, NEW step, TryAgain(step)
    PROVE  tried' \in 0 .. Tries - 1 /\ ims' \in {ims, step}
<1>1. CASE tried + 1 < Tries
  <2>1. tried + 1 \in 0 .. Tries - 1
    BY <1>1, BootAssumption
  <2> QED  BY <1>1, <2>1 DEF TryAgain
<1>2. CASE ~(tried + 1 < Tries)
  BY <1>2, Zeros DEF TryAgain
<1> QED  BY <1>1, <1>2

-----------------------------------------------------------------------------

LEMMA InitScriptsInv == Init => ScriptsInv
<1> SUFFICES ASSUME Init PROVE ScriptsInv
  OBVIOUS
<1>1. waited \in 0 .. ImsWait /\ tried \in 0 .. Tries - 1 /\ vowWaited \in 0 .. VowWait
  BY Zeros DEF Init
<1>2. phone \in BOOLEAN /\ selected \in BOOLEAN
  BY DEF Init
<1>3. TypeOK
  BY <1>1, <1>2 DEF Init, TypeOK, Packages
<1> QED  BY <1>3 DEF Init, ScriptsInv, CacheIsStamped, RemovedFirst, BeforeSystem,
            StampedAtEnd

-----------------------------------------------------------------------------
(* One step per group of actions.                                          *)

LEMMA SystemKeeps == ASSUME ScriptsInv, System PROVE ScriptsInv'
<1> USE BootAssumption DEF ScriptsInv, TypeOK, Packages, CacheIsStamped, RemovedFirst,
        BeforeSystem, StampedAtEnd
<1>1. CASE Boot
  BY <1>1, ZenonT(60) DEF Boot, imsScript, vowScript
<1>2. CASE StartSystem
  <2>1. stamp = apk /\ apk # None /\ cache \in {None, apk}
    BY <1>2 DEF StartSystem
  <2>2. cache' = apk /\ manifest' = apk
    BY <1>2, <2>1 DEF StartSystem
  <2> QED  BY <1>2, <2>1, <2>2 DEF StartSystem
<1>3. CASE PhoneReady
  BY <1>3, ZenonT(60) DEF PhoneReady, disk, imsScript, vowScript
<1>4. CASE BootCompleted
  BY <1>4, ZenonT(60) DEF BootCompleted, disk, imsScript, vowScript
<1> QED  BY <1>1, <1>2, <1>3, <1>4 DEF System

LEMMA PeopleKeep == ASSUME ScriptsInv, People PROVE ScriptsInv'
<1> USE BootAssumption DEF ScriptsInv, TypeOK, Packages, CacheIsStamped, RemovedFirst,
        BeforeSystem, StampedAtEnd
<1>1. CASE PowerOff
  <2>1. waited' \in 0 .. ImsWait /\ tried' \in 0 .. Tries - 1 /\ vowWaited' \in 0 .. VowWait
    BY ONLY <1>1, Zeros DEF PowerOff, Off
  <2>2. phone' \in BOOLEAN /\ selected' \in BOOLEAN
    BY ONLY <1>1 DEF PowerOff, Off
  <2> QED  BY <1>1, <2>1, <2>2 DEF PowerOff, Off, disk
<1>2. CASE Update
  BY <1>2, ZenonT(60) DEF Update, system, imsScript, vowScript
<1>3. CASE UserChooses
  BY <1>3, ZenonT(60) DEF UserChooses, system, imsScript, vowScript
<1>4. CASE Watchdog
  BY <1>4, ZenonT(60) DEF Watchdog, system, imsScript, vowScript
<1> QED  BY <1>1, <1>2, <1>3, <1>4 DEF People

LEMMA PostFsDataKeeps == ASSUME ScriptsInv, PostFsData PROVE ScriptsInv'
<1> USE BootAssumption DEF ScriptsInv, TypeOK, Packages, CacheIsStamped, RemovedFirst,
        BeforeSystem, StampedAtEnd, system, imsScript, vowScript
<1>1. CASE Compare
  BY <1>1 DEF Compare, Changed, disk
<1>2. CASE RmCache
  BY <1>2 DEF RmCache
<1>3. CASE RmCarrierConfig
  BY <1>3 DEF RmCarrierConfig
<1>4. CASE WriteStamp
  BY <1>4 DEF WriteStamp
<1> QED  BY <1>1, <1>2, <1>3, <1>4 DEF PostFsData

LEMMA ImsServiceKeeps == ASSUME ScriptsInv, ImsService PROVE ScriptsInv'
<1> USE BootAssumption DEF ScriptsInv, TypeOK, Packages, CacheIsStamped, RemovedFirst,
        BeforeSystem, StampedAtEnd
<1>1. CASE ImsWaits
  <2>1. waited \in 0 .. ImsWait /\ ImsWait \in Nat
    OBVIOUS
  <2>2. waited' \in 0 .. ImsWait /\ ims' \in {"wait", "enable data"}
    BY ONLY <1>1, <2>1, Counted DEF ImsWaits
  <2> QED  BY <1>1, <2>2, ZenonT(60) DEF ImsWaits, disk, system, vowScript
<1>2. CASE EnableData
  BY <1>2, ZenonT(60) DEF EnableData, PmEnable, system, vowScript
<1>3. CASE EnableIms
  BY <1>3, ZenonT(60) DEF EnableIms, PmEnable, system, vowScript
<1>4. CASE SetEditable
  <2>0. tried \in 0 .. Tries - 1
    OBVIOUS
  <2>1. tried' \in 0 .. Tries - 1 /\ ims' \in {"editable", "select"}
    BY ONLY <1>4, <2>0, Zeros, TryAgainCounts DEF SetEditable
  <2>2. overrides' \subseteq WlanKeys \cup {Editable}
    BY <1>4 DEF SetEditable
  <2> QED  BY <1>4, <2>1, <2>2, ZenonT(60) DEF SetEditable, system, vowScript
<1>5. CASE SelectIms
  <2>0. tried \in 0 .. Tries - 1
    OBVIOUS
  <2>1. tried' \in 0 .. Tries - 1 /\ ims' \in {"select", "end"}
    BY ONLY <1>5, <2>0, Zeros, TryAgainCounts DEF SelectIms
  <2>2. selected' \in BOOLEAN
    BY <1>5 DEF SelectIms
  <2> QED  BY <1>5, <2>1, <2>2, ZenonT(60) DEF SelectIms, disk, vowScript
<1> QED  BY <1>1, <1>2, <1>3, <1>4, <1>5 DEF ImsService

LEMMA VowServiceKeeps == ASSUME ScriptsInv, VowService PROVE ScriptsInv'
<1> USE BootAssumption DEF ScriptsInv, TypeOK, Packages, CacheIsStamped, RemovedFirst,
        BeforeSystem, StampedAtEnd, system, imsScript
<1>1. CASE VowWaits
  <2>1. vowWaited \in 0 .. VowWait /\ VowWait \in Nat
    OBVIOUS
  <2>2. vowWaited' \in 0 .. VowWait /\ vow' \in {"wait", "override", "end"}
    BY ONLY <1>1, <2>1, Counted DEF VowWaits
  <2>3. UNCHANGED <<disk, system, post, imsScript>>
    BY ONLY <1>1 DEF VowWaits
  <2>4. /\ apk' = apk /\ staged' = staged /\ stamp' = stamp /\ cache' = cache
        /\ overrides' = overrides /\ enabled' = enabled /\ wfc' = wfc
        /\ stage' = stage /\ phone' = phone /\ manifest' = manifest /\ selected' = selected
        /\ post' = post /\ ims' = ims /\ waited' = waited /\ tried' = tried
    BY ONLY <2>3 DEF disk, system, imsScript
  <2>5. TypeOK'
    BY <2>2, <2>4
  <2>6. CacheIsStamped' /\ RemovedFirst' /\ BeforeSystem' /\ StampedAtEnd'
    BY <2>2, <2>4
  <2> QED  BY ONLY <2>5, <2>6 DEF ScriptsInv
<1>2. CASE Override
  BY <1>2, ZenonT(60) DEF Override
<1>3. CASE GetSetting
  BY <1>3, ZenonT(60) DEF GetSetting, disk
<1>4. CASE PutSetting
  BY <1>4, ZenonT(60) DEF PutSetting
<1> QED  BY <1>1, <1>2, <1>3, <1>4 DEF VowService

LEMMA AlwaysScriptsInv == Spec => []ScriptsInv
<1>1. ASSUME ScriptsInv, UNCHANGED vars PROVE ScriptsInv'
  <2> USE <1>1 DEF ScriptsInv, vars, disk, system, imsScript, vowScript
  <2>1. TypeOK'
    BY ZenonT(60) DEF TypeOK
  <2>2. CacheIsStamped' /\ RemovedFirst' /\ BeforeSystem' /\ StampedAtEnd'
    BY DEF CacheIsStamped, RemovedFirst, BeforeSystem, StampedAtEnd
  <2> QED  BY <2>1, <2>2
<1>2. ScriptsInv /\ [Next]_vars => ScriptsInv'
  BY <1>1, SystemKeeps, PeopleKeep, PostFsDataKeeps, ImsServiceKeeps, VowServiceKeeps DEF Next
<1> QED  BY InitScriptsInv, <1>2, PTL DEF Spec

-----------------------------------------------------------------------------

\* The state of the phone and of its scripts has the type TypeOK says, whatever
\* the waits and counts are.
THEOREM BootTypeCorrect == Spec => []TypeOK
<1>1. ScriptsInv => TypeOK
  BY DEF ScriptsInv
<1> QED  BY <1>1, AlwaysScriptsInv, PTL

\* However many builds of the APK there are, and wherever the power fails in
\* the script, the system starts with the manifest of the APK it has.
THEOREM ManifestAlwaysCurrent == Spec => ManifestCurrent
<1>1. ASSUME ScriptsInv, [Next]_vars, stage = "post-fs-data", stage' = "starting"
      PROVE  manifest' = apk
  <2>1. StartSystem
    BY <1>1 DEF Next, System, People, PostFsData, ImsService, VowService, Boot,
        PhoneReady, BootCompleted, PowerOff, Off, Update, UserChooses, Watchdog,
        Compare, RmCache, RmCarrierConfig, WriteStamp, ImsWaits, EnableData,
        EnableIms, SetEditable, SelectIms, VowWaits, Override, GetSetting,
        PutSetting, vars, system
  <2>2. stamp = apk /\ apk # None
    BY <1>1, <2>1, BootAssumption DEF StartSystem, ScriptsInv, StampedAtEnd, TypeOK
  <2>3. cache \in {None, apk}
    BY <1>1, <2>2 DEF ScriptsInv, CacheIsStamped
  <2> QED  BY <2>1, <2>3 DEF StartSystem
<1>2. ScriptsInv /\ [Next]_vars =>
        [stage = "post-fs-data" /\ stage' = "starting" => manifest' = apk]_vars
  BY <1>1
<1> QED  BY <1>2, AlwaysScriptsInv, PTL DEF Spec, ManifestCurrent

-----------------------------------------------------------------------------
(* The rules and the ipsecd of a boot.                                     *)

Rules == Range(ImsLive) \cup Range(VowLive)

\* The commands of a boot.
LiveOf(r) == [do |-> "live", rule |-> r]
Start == Do("start ipsecd")[1]
Chcon == Do("chcon")[1]
Restart == Do("restart ipsecd")[1]
Done == Do("post-fs-data done")[1]
Commands == {Start, Chcon, Restart, Done} \cup {LiveOf(r) : r \in Rules}

\* The command is still to come, and the mark after it.
Due(c, mark) ==
    \E j, m \in DOMAIN todo : j < m /\ todo[j] = c /\ todo[m] = mark

\* A rule is granted when the mark is reached.
GrantedBy(rules, mark) ==
    \A k \in DOMAIN rules : Grants(rules[k]) \subseteq policy \/ Due(LiveOf(rules[k]), mark)

\* The command is still to come.
Comes(what) == \E j \in DOMAIN todo : todo[j] = what

\* ipsecd's file is labelled when the mark is reached.
LabelledBy(mark) == label \/ Due(Chcon, mark)

\* The restart comes before the end of post-fs-data.
RestartFirst ==
    \A j \in DOMAIN todo : todo[j] = Restart =>
        \E m \in DOMAIN todo : j < m /\ todo[m] = Done

\* What ipsecd was started with.
Fit == ipsecd.label /\ VowifiGrants \subseteq ipsecd.policy

PolicyInv ==
    /\ todo \in Seq(Commands) /\ vowifi \in BOOLEAN /\ label \in BOOLEAN /\ pending \in BOOLEAN
    /\ AllOf(CIL_APPEND) \subseteq policy
    /\ GrantedBy(ImsLive, Done)
    /\ vowifi => /\ GrantedBy(VowLive, Restart)
                 /\ LabelledBy(Restart)
                 /\ RestartFirst
                 /\ ~Comes(Restart) => pending \/ ipsecd.is = "none" \/ Fit

-----------------------------------------------------------------------------

\* Grants rule by rule are grants of the whole list.
LEMMA GrantedAll ==
    ASSUME NEW rules, NEW p, \A k \in DOMAIN rules : Grants(rules[k]) \subseteq p
    PROVE  AllOf(rules) \subseteq p
BY DEF AllOf

\* Without a restart to come the policy and the label are complete.
LEMMA Everything ==
    ASSUME PolicyInv, vowifi, ~Comes(Restart)
    PROVE  VowifiGrants \subseteq policy /\ label
<1>1. \A c : ~Due(c, Restart)
  BY DEF Due, Comes
<1>2. AllOf(VowLive) \subseteq policy
  BY <1>1, GrantedAll DEF PolicyInv, GrantedBy
<1>3. label
  BY <1>1 DEF PolicyInv, LabelledBy
<1> QED  BY <1>2, <1>3, RulesAssumption DEF PolicyInv, VowifiGrants

LEMMA CommandsAre ==
    /\ ImsPostFsData = <<Start>> \o Live(ImsLive)
    /\ VowifiPostFsData = (<<Chcon>> \o Live(VowLive)) \o <<Restart>>
    /\ VowifiService = Live(VowLive) /\ Do("post-fs-data done") = <<Done>>
BY DEF ImsPostFsData, VowifiPostFsData, VowifiService, Do, Start, Chcon, Restart,
       Done

LEMMA ConcatIs ==
    ASSUME NEW S, NEW a \in Seq(S), NEW b \in Seq(S), NEW c, c = a \o b
    PROVE  /\ c \in Seq(S) /\ Len(c) = Len(a) + Len(b)
           /\ \A k \in 1 .. Len(a) : c[k] = a[k]
           /\ \A k \in 1 .. Len(b) : c[Len(a) + k] = b[k]
OBVIOUS

\* The boot's list of commands, position by position.
LEMMA InitPolicyInv == ASSUME PolicyInit PROVE PolicyInv
<1> DEFINE imsLive == Live(ImsLive)
           vowLive == Live(VowLive)
<1>1. {Start, Chcon, Restart, Done} \subseteq Commands
      /\ Restart # Done /\ \A r \in Rules : LiveOf(r) # Restart
  BY DEF Commands, Restart, Done, Do, LiveOf
<1>2. /\ imsLive \in Seq(Commands) /\ Len(imsLive) = Len(ImsLive)
      /\ \A k \in 1 .. Len(ImsLive) : imsLive[k] = LiveOf(ImsLive[k])
      /\ Len(ImsLive) \in Nat /\ DOMAIN ImsLive = 1 .. Len(ImsLive)
  BY RulesAssumption DEF Live, LiveOf, Commands, Rules, Range
<1>3. /\ vowLive \in Seq(Commands) /\ Len(vowLive) = Len(VowLive)
      /\ \A k \in 1 .. Len(VowLive) : vowLive[k] = LiveOf(VowLive[k])
      /\ Len(VowLive) \in Nat /\ DOMAIN VowLive = 1 .. Len(VowLive)
  BY RulesAssumption DEF Live, LiveOf, Commands, Rules, Range
<1>4. AllOf(CIL_APPEND) \subseteq policy
  BY DEF PolicyInit, Loaded, Substrate
<1>5. vowifi \in BOOLEAN /\ label = FALSE /\ pending = FALSE /\ ipsecd.is = "none"
  <2>1. vowifi \in BOOLEAN /\ label = FALSE /\ pending = FALSE /\ ipsecd = [is |-> "none"]
    BY DEF PolicyInit
  <2> QED  BY <2>1
<1> HIDE DEF imsLive, vowLive
<1> DEFINE n == Len(ImsLive)
           v == Len(VowLive)
<1>6. CASE ~vowifi
  <2> DEFINE s == (<<Start>> \o imsLive) \o <<Done>>
  <2>1. todo = s
    BY <1>6, CommandsAre DEF PolicyInit, imsLive
  <2>2. /\ s \in Seq(Commands) /\ Len(s) = n + 2
        /\ \A k \in 1 .. n : s[1 + k] = LiveOf(ImsLive[k])
        /\ s[n + 2] = Done
    BY <1>1, <1>2
  <2> HIDE DEF s
  <2>3. GrantedBy(ImsLive, Done)
    <3> SUFFICES ASSUME NEW k \in DOMAIN ImsLive
                 PROVE  Due(LiveOf(ImsLive[k]), Done)
      BY DEF GrantedBy
    <3>1. 1 + k \in DOMAIN todo /\ n + 2 \in DOMAIN todo /\ 1 + k < n + 2
      BY <2>1, <2>2, <1>2
    <3> QED  BY <3>1, <2>1, <2>2, <1>2 DEF Due
  <2> QED  BY <1>4, <1>5, <1>6, <2>1, <2>2, <2>3 DEF PolicyInv
<1>7. CASE vowifi
  <2> DEFINE s == (<<Start>> \o imsLive) \o
                  ((((<<Chcon>> \o vowLive) \o <<Restart>>) \o <<Done>>) \o vowLive)
             a == <<Start>> \o imsLive
             b == (<<Chcon>> \o vowLive) \o <<Restart>>
  <2>1. todo = s
    BY <1>7, CommandsAre DEF PolicyInit, imsLive, vowLive
  <2>2. /\ a \in Seq(Commands) /\ Len(a) = n + 1
        /\ \A k \in 1 .. n : a[1 + k] = LiveOf(ImsLive[k])
        /\ a[1] = Start
    BY <1>1, <1>2
  <2>3. /\ b \in Seq(Commands) /\ Len(b) = v + 2
        /\ b[1] = Chcon /\ b[v + 2] = Restart
        /\ \A k \in 1 .. v : b[1 + k] = LiveOf(VowLive[k])
    BY <1>1, <1>3
  <2>4. s = a \o ((b \o <<Done>>) \o vowLive)
    OBVIOUS
  <2> HIDE DEF s, a, b
  <2> DEFINE c == (b \o <<Done>>) \o vowLive
  <2>5. /\ c \in Seq(Commands) /\ Len(c) = 2 * v + 3
        /\ c[1] = Chcon /\ c[v + 2] = Restart
        /\ c[v + 3] = Done
        /\ \A k \in 1 .. v : c[1 + k] = LiveOf(VowLive[k])
        /\ \A k \in 1 .. v : c[v + 3 + k] = LiveOf(VowLive[k])
    <3> DEFINE d == b \o <<Done>>
    <3>1. /\ d \in Seq(Commands) /\ Len(d) = v + 3
          /\ \A k \in 1 .. v + 2 : d[k] = b[k]
          /\ d[v + 3] = Done
      BY <2>3, <1>1, <1>3
    <3>2. c = d \o vowLive
      OBVIOUS
    <3> HIDE DEF d, c
    <3>3. /\ c \in Seq(Commands) /\ Len(c) = 2 * v + 3
          /\ \A k \in 1 .. v + 3 : c[k] = d[k]
          /\ \A k \in 1 .. v : c[v + 3 + k] = vowLive[k]
      <4>1. /\ c \in Seq(Commands) /\ Len(c) = Len(d) + Len(vowLive)
            /\ \A k \in 1 .. Len(d) : c[k] = d[k]
            /\ \A k \in 1 .. Len(vowLive) : c[Len(d) + k] = vowLive[k]
        <5>1. d \in Seq(Commands) /\ vowLive \in Seq(Commands)
          BY <3>1, <1>3
        <5> QED  BY ONLY <5>1, <3>2, ConcatIs
      <4>2. Len(d) + Len(vowLive) = 2 * v + 3
        BY <3>1, <1>3
      <4> QED  BY <4>1, <4>2, <3>1, <1>3
    <3>4. 1 \in 1 .. v + 2 /\ v + 2 \in 1 .. v + 2 /\ v + 3 \in 1 .. v + 3
          /\ 1 \in 1 .. v + 3 /\ v + 2 \in 1 .. v + 3
          /\ \A k \in 1 .. v : 1 + k \in 1 .. v + 2 /\ 1 + k \in 1 .. v + 3
      BY <1>3
    <3> HIDE DEF v
    <3>5. \A k \in 1 .. v : c[1 + k] = LiveOf(VowLive[k])
      BY <3>1, <3>3, <3>4, <2>3
    <3>6. \A k \in 1 .. v : c[v + 3 + k] = LiveOf(VowLive[k])
      BY <3>3, <1>3 DEF v
    <3>7. c[1] = Chcon /\ c[v + 2] = Restart /\ c[v + 3] = Done
      BY <3>1, <3>3, <3>4, <2>3
    <3> QED  BY <3>3, <3>5, <3>6, <3>7
  <2> HIDE DEF c
  <2>6. s = a \o c
    BY <2>4 DEF c
  <2>7. /\ s \in Seq(Commands) /\ Len(s) = n + 2 * v + 4
        /\ s[n + 2] = Chcon /\ s[n + v + 3] = Restart
        /\ s[n + v + 4] = Done
        /\ s[1] = Start
        /\ \A k \in 1 .. n : s[1 + k] = LiveOf(ImsLive[k])
        /\ \A k \in 1 .. v : s[n + 2 + k] = LiveOf(VowLive[k])
        /\ \A k \in 1 .. v : s[n + v + 4 + k] = LiveOf(VowLive[k])
    <3>1. /\ s \in Seq(Commands) /\ Len(s) = n + 2 * v + 4
          /\ \A k \in 1 .. n + 1 : s[k] = a[k]
          /\ \A k \in 1 .. 2 * v + 3 : s[n + 1 + k] = c[k]
      <4>1. /\ s \in Seq(Commands) /\ Len(s) = Len(a) + Len(c)
            /\ \A k \in 1 .. Len(a) : s[k] = a[k]
            /\ \A k \in 1 .. Len(c) : s[Len(a) + k] = c[k]
        <5>1. a \in Seq(Commands) /\ c \in Seq(Commands)
          BY <2>2, <2>5
        <5> QED  BY ONLY <5>1, <2>6, ConcatIs
      <4>2. n + 1 + (2 * v + 3) = n + 2 * v + 4
        BY <1>2, <1>3
      <4> QED  BY <4>1, <4>2, <2>2, <2>5
    <3>2. s[n + 1 + 1] = c[1] /\ s[n + 1 + (v + 2)] = c[v + 2] /\ s[n + 1 + (v + 3)] = c[v + 3]
      <4>1. 1 \in 1 .. 2 * v + 3 /\ v + 2 \in 1 .. 2 * v + 3 /\ v + 3 \in 1 .. 2 * v + 3
        BY <1>3
      <4> QED  BY <3>1, <4>1
    <3>3. /\ \A k \in 1 .. v : s[n + 1 + (1 + k)] = c[1 + k]
          /\ \A k \in 1 .. v : s[n + 1 + (v + 3 + k)] = c[v + 3 + k]
      BY <3>1, <1>3
    <3>4. s[1] = Start /\ \A k \in 1 .. n : s[1 + k] = LiveOf(ImsLive[k])
      BY <3>1, <2>2, <1>2
    <3>5. n \in Int /\ v \in Int /\ \A k \in 1 .. v : k \in Int
      BY <1>2, <1>3
    <3> HIDE DEF n, v
    <3>6. /\ n + 1 + 1 = n + 2 /\ n + 1 + (v + 2) = n + v + 3 /\ n + 1 + (v + 3) = n + v + 4
          /\ \A k \in Int : /\ n + 1 + (1 + k) = n + 2 + k
                            /\ n + 1 + (v + 3 + k) = n + v + 4 + k
      BY <3>5
    <3> QED  BY <3>1, <3>2, <3>3, <3>4, <3>5, <3>6, <2>5
  <2>8. DOMAIN s = 1 .. n + 2 * v + 4
    BY <2>7
  <2>9. GrantedBy(ImsLive, Done)
    <3> SUFFICES ASSUME NEW k \in DOMAIN ImsLive
                 PROVE  Due(LiveOf(ImsLive[k]), Done)
      BY DEF GrantedBy
    <3>1. 1 + k \in DOMAIN todo /\ n + v + 4 \in DOMAIN todo /\ 1 + k < n + v + 4
      BY <2>1, <2>8, <1>2, <1>3
    <3> QED  BY <3>1, <2>1, <2>7, <1>2 DEF Due
  <2>10. GrantedBy(VowLive, Restart)
    <3> SUFFICES ASSUME NEW k \in DOMAIN VowLive
                 PROVE  Due(LiveOf(VowLive[k]), Restart)
      BY DEF GrantedBy
    <3>1. n + 2 + k \in DOMAIN todo /\ n + v + 3 \in DOMAIN todo /\ n + 2 + k < n + v + 3
      BY <2>1, <2>8, <1>2, <1>3
    <3> QED  BY <3>1, <2>1, <2>7, <1>3 DEF Due
  <2>11. n + 2 \in DOMAIN todo /\ n + v + 3 \in DOMAIN todo /\ n + 2 < n + v + 3
    BY <2>1, <2>8, <1>2, <1>3
  <2>12. LabelledBy(Restart)
    BY <2>1, <2>7, <2>11 DEF LabelledBy, Due
  <2>13. Comes(Restart)
    BY <2>1, <2>7, <2>11 DEF Comes
  <2>14. RestartFirst
    <3> SUFFICES ASSUME NEW j \in DOMAIN todo, todo[j] = Restart
                 PROVE  j < n + v + 4
      <4>1. n + v + 4 \in DOMAIN todo /\ todo[n + v + 4] = Done
        BY <2>1, <2>7, <2>8, <1>2, <1>3
      <4> QED  BY <4>1 DEF RestartFirst
    <3>1. s[n + v + 4] # Restart
      BY <2>7, <1>1
    <3>2. \A k \in 1 .. v : s[n + v + 4 + k] # Restart
      BY <2>7, <1>1, <1>3 DEF Rules, Range
    <3>3. ASSUME j > n + v + 4 PROVE FALSE
      <4>1. j - (n + v + 4) \in 1 .. v /\ j = n + v + 4 + (j - (n + v + 4))
        BY <3>3, <2>1, <2>8, <1>2, <1>3
      <4> QED  BY <4>1, <3>2, <2>1
    <3>4. j \in Int /\ n + v + 4 \in Int
      BY <2>1, <2>8, <1>2, <1>3
    <3> QED  BY <3>1, <3>3, <3>4, <2>1
  <2> QED  BY <1>4, <1>5, <1>7, <2>1, <2>7, <2>9, <2>10, <2>12, <2>13, <2>14 DEF PolicyInv
<1> QED  BY <1>5, <1>6, <1>7

-----------------------------------------------------------------------------
(* A step.                                                                 *)

\* What is due stays due, or is done.
LEMMA DueStays ==
    ASSUME todo \in Seq(Commands), todo # << >>, todo' = Tail(todo), NEW c, NEW mark,
           Due(c, mark), Head(todo) # c
    PROVE  Due(c, mark)'
<1>1. PICK j, m \in DOMAIN todo : j < m /\ todo[j] = c /\ todo[m] = mark
  BY DEF Due
<1>2. j # 1
  BY <1>1
<1>3. /\ j - 1 \in DOMAIN todo' /\ m - 1 \in DOMAIN todo' /\ j - 1 < m - 1
      /\ todo'[j - 1] = todo[j] /\ todo'[m - 1] = todo[m]
  BY <1>1, <1>2
<1> QED  BY <1>1, <1>3 DEF Due

LEMMA LiveDo == \A r : LiveOf(r).do = "live" /\ LiveOf(r).rule = r
BY DEF LiveOf

\* A rule that the next command does not grant is still due, or granted.
LEMMA GrantedStays ==
    ASSUME todo \in Seq(Commands), Script, NEW rules, NEW mark, GrantedBy(rules, mark)
    PROVE  GrantedBy(rules, mark)'
<1>1. policy \subseteq policy' /\ todo # << >> /\ todo' = Tail(todo)
  BY DEF Script
<1>2. ASSUME NEW k \in DOMAIN rules
      PROVE  Grants(rules[k]) \subseteq policy' \/ Due(LiveOf(rules[k]), mark)'
  <2>1. CASE Grants(rules[k]) \subseteq policy
    BY <2>1, <1>1
  <2>2. CASE Due(LiveOf(rules[k]), mark) /\ Head(todo) = LiveOf(rules[k])
    <3>1. Head(todo).do = "live" /\ Head(todo).rule = rules[k]
      BY <2>2, LiveDo
    <3> QED  BY <3>1 DEF Script
  <2>3. CASE Due(LiveOf(rules[k]), mark) /\ Head(todo) # LiveOf(rules[k])
    BY <2>3, <1>1, DueStays
  <2> QED  BY <2>1, <2>2, <2>3, <1>2 DEF GrantedBy
<1> QED  BY <1>2 DEF GrantedBy

LEMMA Dos ==
    /\ Start.do = "start ipsecd" /\ Chcon.do = "chcon" /\ Restart.do = "restart ipsecd"
    /\ Done.do = "post-fs-data done"
BY DEF Start, Chcon, Restart, Done, Do

LEMMA ScriptKeeps == ASSUME PolicyInv, Script PROVE PolicyInv'
<1>1. /\ todo \in Seq(Commands) /\ todo # << >> /\ todo' = Tail(todo) /\ vowifi' = vowifi
      /\ policy \subseteq policy'
  BY DEF PolicyInv, Script
<1>2. label' = (label \/ Head(todo).do = "chcon")
      /\ pending' = (pending \/ Head(todo).do = "restart ipsecd")
      /\ ipsecd' \in {ipsecd, Started} /\ (ipsecd' # ipsecd => ipsecd.is = "none")
  BY DEF Script
<1>3. /\ todo' \in Seq(Commands) /\ vowifi' \in BOOLEAN
      /\ label' \in BOOLEAN /\ pending' \in BOOLEAN
  <2>1. todo' \in Seq(Commands)
    BY <1>1
  <2>2. label \in BOOLEAN /\ pending \in BOOLEAN /\ vowifi \in BOOLEAN
    BY DEF PolicyInv
  <2>3. label' \in BOOLEAN /\ pending' \in BOOLEAN
    BY ONLY <1>2, <2>2, Zenon
  <2> QED  BY <1>1, <2>1, <2>2, <2>3
<1>4. AllOf(CIL_APPEND) \subseteq policy' /\ GrantedBy(ImsLive, Done)'
  BY <1>1, GrantedStays DEF PolicyInv
<1>5. ASSUME vowifi
      PROVE  /\ GrantedBy(VowLive, Restart)'
             /\ LabelledBy(Restart)'
             /\ RestartFirst'
             /\ ~Comes(Restart)' => pending' \/ ipsecd'.is = "none" \/ Fit'
  <2>1. GrantedBy(VowLive, Restart)'
    BY <1>1, <1>5, GrantedStays DEF PolicyInv
  <2>2. LabelledBy(Restart)'
    <3>1. CASE label \/ Head(todo) = Chcon
      BY <3>1, <1>2, Dos DEF LabelledBy
    <3>2. CASE Due(Chcon, Restart) /\ Head(todo) # Chcon
      BY <3>2, <1>1, DueStays DEF LabelledBy
    <3> QED  BY <3>1, <3>2, <1>5 DEF PolicyInv, LabelledBy
  <2>3. RestartFirst'
    <3> SUFFICES ASSUME NEW j \in DOMAIN todo', todo'[j] = Restart
                 PROVE  \E m \in DOMAIN todo' : j < m /\ todo'[m] = Done
      BY DEF RestartFirst
    <3>1. j + 1 \in DOMAIN todo /\ todo[j + 1] = Restart
      BY <1>1
    <3>2. PICK m \in DOMAIN todo : j + 1 < m /\ todo[m] = Done
      BY <3>1, <1>5 DEF PolicyInv, RestartFirst
    <3>3. m - 1 \in DOMAIN todo' /\ j < m - 1 /\ todo'[m - 1] = Done
      BY <3>2, <1>1
    <3> QED  BY <3>3
  <2>4. ASSUME ~Comes(Restart)' PROVE pending' \/ ipsecd'.is = "none" \/ Fit'
    <3>1. CASE Head(todo) = Restart
      BY <3>1, <1>2, Dos
    <3>2. CASE Head(todo) # Restart
      <4>1. ~Comes(Restart)
        <5> SUFFICES ASSUME NEW j \in DOMAIN todo, todo[j] = Restart PROVE FALSE
          BY DEF Comes
        <5>1. j # 1
          BY <3>2, <1>1
        <5>2. j - 1 \in DOMAIN todo' /\ todo'[j - 1] = Restart
          BY <5>1, <1>1
        <5> QED  BY <5>2, <2>4 DEF Comes
      <4>2. VowifiGrants \subseteq policy /\ label
        BY <4>1, <1>5, Everything
      <4>3. CASE ipsecd' = Started
        BY <4>2, <4>3 DEF Started, Fit
      <4>4. CASE ipsecd' = ipsecd
        <5>1. pending \/ ipsecd.is = "none" \/ Fit
          BY <4>1, <1>5 DEF PolicyInv
        <5> QED  BY <5>1, <4>4, <1>2 DEF Fit
      <4> QED  BY <4>3, <4>4, <1>2
    <3> QED  BY <3>1, <3>2
  <2> QED  BY <2>1, <2>2, <2>3, <2>4
<1> QED  BY <1>1, <1>3, <1>4, <1>5 DEF PolicyInv

\* What init and the daemon do leaves the policy and the scripts alone.
LEMMA InitKeeps ==
    ASSUME PolicyInv, InitStarts \/ InitRestarts \/ Crash
    PROVE  PolicyInv'
<1>1. /\ vowifi' = vowifi /\ policy' = policy /\ todo' = todo /\ label' = label
      /\ pending' \in BOOLEAN
      /\ ipsecd' = Started \/ ipsecd'.is = "none"
  <2>1. CASE InitStarts
    BY <2>1 DEF InitStarts, PolicyInv
  <2>2. CASE InitRestarts
    BY <2>2 DEF InitRestarts
  <2>3. CASE Crash
    <3>1. ipsecd' = [is |-> "none"]
      BY <2>3 DEF Crash
    <3> QED  BY <2>3, <3>1 DEF Crash, PolicyInv
  <2> QED  BY <2>1, <2>2, <2>3
<1>2. /\ GrantedBy(ImsLive, Done)' <=> GrantedBy(ImsLive, Done)
      /\ GrantedBy(VowLive, Restart)' <=> GrantedBy(VowLive, Restart)
      /\ LabelledBy(Restart)' <=> LabelledBy(Restart)
      /\ RestartFirst' <=> RestartFirst
      /\ Comes(Restart)' <=> Comes(Restart)
  BY <1>1 DEF GrantedBy, LabelledBy, RestartFirst, Comes, Due
<1>3. vowifi /\ ~Comes(Restart) => ipsecd'.is = "none" \/ Fit'
  <2>1. CASE ipsecd' = Started
    BY <2>1, Everything DEF Started, Fit
  <2> QED  BY <2>1, <1>1
<1> QED  BY <1>1, <1>2, <1>3 DEF PolicyInv

\* The commands left of the boot will grant what the live policy lacks, before
\* the mark that matters: a restart of ipsecd for VowLive, the end of
\* post-fs-data for ImsLive; after the last restart, ipsecd is fit or dies.
THEOREM PolicyInvariant == PolicySpec => []PolicyInv
<1>1. PolicyInit => PolicyInv
  BY InitPolicyInv
<1>2. PolicyInv /\ [PolicyNext]_policyVars => PolicyInv'
  <2>1. ASSUME PolicyInv, UNCHANGED policyVars PROVE PolicyInv'
    <3>1. /\ vowifi' = vowifi /\ policy' = policy /\ todo' = todo /\ label' = label
          /\ pending' = pending /\ ipsecd' = ipsecd
      BY <2>1 DEF policyVars
    <3> QED  BY <2>1, <3>1 DEF PolicyInv, GrantedBy, LabelledBy, RestartFirst, Comes, Due, Fit
  <2> QED  BY <2>1, ScriptKeeps, InitKeeps DEF PolicyNext
<1> QED  BY <1>1, <1>2, PTL DEF PolicySpec

\* Once post-fs-data is done no restart is to come.
LEMMA NothingLeft ==
    ASSUME PolicyInv, PostFsDataDone, vowifi
    PROVE  ~Comes(Restart)
BY Dos DEF PolicyInv, PostFsDataDone, Comes, RestartFirst

\* Whatever LG's closure grants and however much of sepolicy.rule the loader
\* drops, the rules that imsipsecclient and ipsecd need hold once post-fs-data
\* is done, for every list of live rules that covers VOWIFI_SEPOLICY.
THEOREM RulesAlwaysHold == PolicySpec => []RulesHold
<1>1. ASSUME PolicyInv, PostFsDataDone PROVE AllOf(ImsLive) \subseteq policy
  <2>1. \A c : ~Due(c, Done)
    BY <1>1, Dos DEF PostFsDataDone, Due
  <2> QED  BY <1>1, <2>1, GrantedAll DEF PolicyInv, GrantedBy
<1>2. PolicyInv => RulesHold
  BY <1>1, NothingLeft, Everything DEF RulesHold
<1> QED  BY <1>2, PolicyInvariant, PTL

\* However init's restart, the crashes of the daemon and the scripts interleave,
\* the ipsecd that stays was started from the labelled file with every grant.
THEOREM SurvivorAlwaysLabelled == PolicySpec => []SurvivorIsLabelled
<1>1. PolicyInv => SurvivorIsLabelled
  BY NothingLeft DEF SurvivorIsLabelled, PolicyInv, Fit
<1> QED  BY <1>1, PolicyInvariant, PTL
=============================================================================
