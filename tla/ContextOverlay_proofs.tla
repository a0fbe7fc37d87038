------------------------ MODULE ContextOverlay_proofs ------------------------
(***************************************************************************)
(* That the overlay files stay free of double entries and keep mapping     *)
(* com.lge.ims, whatever ROMs, reinstalls and reboots there are.           *)
(***************************************************************************)
EXTENDS ContextOverlay, TLAPS

\* Two lines for one name are the ROM's own.
Single(f) == \A l, m \in f : l # m /\ l.key = m.key => l.by = "rom" /\ m.by = "rom"

Mapped(o) ==
    \E p \in DOMAIN o \ {PropPath} : \E l, m \in o[p] :
        l.key = LgeIms /\ m.key = Codeaurora /\ l.val = Levelled[m.val]

\* What holds of every set of overlay files, staged, active or mounted.
Sound(o) ==
    /\ DOMAIN o \subseteq Paths
    /\ \A p \in DOMAIN o : o[p] \subseteq Line /\ Single(o[p])
    /\ o # NoFiles => Mapped(o)

\* A module installed with no overlay mounted has every line of its ROM's
\* files but for those it replaces.
Follows(m) ==
    ~m.over => \A p \in DOMAIN m.on \cap DOMAIN m.files : \A l \in m.on[p] :
                  l \in m.files[p] \/ l.key \in SeappStripped \cup PropStripped

SoundModule(m) ==
    /\ Sound(m.files) /\ Follows(m)
    /\ m.on \in Builds \cup {NoFiles} /\ m.over \in BOOLEAN

IInv ==
    /\ rom \in Builds /\ next \in Builds /\ disabled \in BOOLEAN
    /\ SoundModule(active) /\ SoundModule(staged)
    /\ Sound(mounted) /\ mounted \in {NoFiles, active.files}

-----------------------------------------------------------------------------

LEMMA NoFilesSound == Sound(NoFiles)
<1>1. DOMAIN NoFiles = {}
  BY DEF NoFiles
<1> QED BY <1>1 DEF Sound

\* A file a process sees has lines, doubled by the ROM at most.
LEMMA LiveSingle ==
    ASSUME rom \in Builds, Sound(mounted),
           NEW p \in DOMAIN Live
    PROVE  Live[p] \subseteq Line /\ Single(Live[p])
<1>1. CASE p \in DOMAIN mounted
  BY <1>1 DEF Live, Sound
<1>2. CASE p \notin DOMAIN mounted
  <2>1. p \in DOMAIN rom /\ Live[p] = rom[p]
    BY <1>2 DEF Live
  <2>2. rom[p] \subseteq {l \in Line : l.by = "rom"}
    BY <2>1, OverlayAssumption
  <2> QED BY <2>1, <2>2 DEF Single
<1> QED BY <1>1, <1>2

LEMMA PropTextSingle ==
    ASSUME NEW f \in SUBSET Line, Single(f)
    PROVE  PropText(f) \subseteq Line /\ Single(PropText(f))
<1>1. PropLines \subseteq Line /\ \A l \in PropLines : l.key \in PropStripped
  BY OverlayAssumption
<1>2. \A l, m \in PropLines : l.key = m.key => l = m
  BY OverlayAssumption
<1>3. \A l \in PropText(f) : l \in PropLines \/ (l \in f /\ l.key \notin PropStripped)
  BY DEF PropText
<1> QED BY <1>1, <1>2, <1>3 DEF Single, PropText

LEMMA SeappTextSingle ==
    ASSUME NEW f \in SUBSET Line, Single(f),
           NEW l \in Mappings(f)
    PROVE  /\ SeappText(f, l) \subseteq Line /\ Single(SeappText(f, l))
           /\ \E x, y \in SeappText(f, l) :
                 x.key = LgeIms /\ y.key = Codeaurora /\ x.val = Levelled[y.val]
<1> DEFINE lge == [key |-> LgeIms, val |-> Levelled[l.val], by |-> "module"]
<1>1. l \in f /\ l \in Line /\ l.key = Codeaurora /\ l.val \in Vals
  BY DEF Mappings, Line
<1>2. LgeIms \in SeappStripped /\ LgeIms \in Keys /\ Codeaurora \notin SeappStripped
  BY OverlayAssumption
<1>3. lge \in Line /\ lge.key = LgeIms
  BY <1>1, <1>2, OverlayAssumption DEF Line
<1>4. DataLine \in Line /\ DataLine.key \in SeappStripped /\ DataLine.key # LgeIms
  BY OverlayAssumption
<1>5. \A x \in SeappText(f, l) :
         x = lge \/ x = DataLine \/ (x \in f /\ x.key \notin SeappStripped)
  BY DEF SeappText
<1>6. Single(SeappText(f, l))
  <2> SUFFICES ASSUME NEW x \in SeappText(f, l), NEW y \in SeappText(f, l),
                      x # y, x.key = y.key
               PROVE  x.by = "rom" /\ y.by = "rom"
    BY DEF Single
  <2>1. x \in f /\ y \in f
    BY <1>2, <1>3, <1>4, <1>5
  <2> QED BY <2>1 DEF Single
<1>7. lge \in SeappText(f, l) /\ l \in SeappText(f, l)
  BY <1>1, <1>2 DEF SeappText
<1>8. SeappText(f, l) \subseteq Line
  BY <1>3, <1>4, <1>5
<1>9. lge.val = Levelled[l.val]
  OBVIOUS
<1> QED BY <1>1, <1>3, <1>6, <1>7, <1>8, <1>9

\* What customize.sh makes of a live system is sound.
LEMMA InstalledSound ==
    ASSUME rom \in Builds, Sound(mounted),
           Found(Live), NEW o \in Overlays(Live)
    PROVE  Sound(o)
<1>0. PICK src \in (DOMAIN Seapp) \X Line :
         /\ IsSource(Live, src[1])
         /\ src[2] \in Mappings(Live[Seapp[src[1]]])
         /\ o = [p \in {Seapp[src[1]], PropPath} |->
                    IF p = PropPath THEN PropText(Live[p])
                    ELSE SeappText(Live[p], src[2])]
  BY DEF Overlays
<1>1. PICK k \in DOMAIN Seapp, l \in Line :
         /\ IsSource(Live, k) /\ l \in Mappings(Live[Seapp[k]])
         /\ o = [p \in {Seapp[k], PropPath} |->
                    IF p = PropPath THEN PropText(Live[p]) ELSE SeappText(Live[p], l)]
  BY <1>0
<1>2. Seapp[k] \in DOMAIN Live /\ PropPath \in DOMAIN Live
  BY <1>1 DEF IsSource, Candidates, Found
<1>3. Seapp[k] # PropPath /\ Seapp[k] \in Paths /\ PropPath \in Paths
  BY OverlayAssumption DEF Paths
<1>4. Live[Seapp[k]] \in SUBSET Line /\ Single(Live[Seapp[k]])
  BY <1>2, LiveSingle
<1>5. Live[PropPath] \in SUBSET Line /\ Single(Live[PropPath])
  BY <1>2, LiveSingle
<1>6. /\ DOMAIN o = {Seapp[k], PropPath}
      /\ o[PropPath] = PropText(Live[PropPath])
      /\ o[Seapp[k]] = SeappText(Live[Seapp[k]], l)
  BY <1>1, <1>3
<1>7. o[PropPath] \subseteq Line /\ Single(o[PropPath])
  BY <1>5, <1>6, PropTextSingle
<1>8. /\ o[Seapp[k]] \subseteq Line /\ Single(o[Seapp[k]])
      /\ \E x, y \in o[Seapp[k]] :
            x.key = LgeIms /\ y.key = Codeaurora /\ x.val = Levelled[y.val]
  BY <1>1, <1>4, <1>6, SeappTextSingle
<1>9. Mapped(o)
  BY <1>3, <1>6, <1>8 DEF Mapped
<1> QED BY <1>3, <1>6, <1>7, <1>8, <1>9 DEF Sound

\* Without an overlay the live system is the ROM, and what customize.sh makes
\* of it keeps the ROM's lines.
LEMMA InstalledFollows ==
    ASSUME NEW o \in Overlays(Live)
    PROVE  Follows(Installed(o))
<1> SUFFICES ASSUME mounted = NoFiles, NEW p \in DOMAIN rom, p \in DOMAIN o, NEW l \in rom[p]
             PROVE  l \in o[p] \/ l.key \in SeappStripped \cup PropStripped
  BY DEF Follows, Installed
<1>1. Live[p] = rom[p]
  <2>1. p \notin DOMAIN mounted
    BY DEF NoFiles
  <2> QED BY <2>1 DEF Live
<1>2. PICK k \in DOMAIN Seapp, m \in Line :
         o = [q \in {Seapp[k], PropPath} |->
                 IF q = PropPath THEN PropText(Live[q]) ELSE SeappText(Live[q], m)]
  BY DEF Overlays
<1>3. o[p] = IF p = PropPath THEN PropText(rom[p]) ELSE SeappText(rom[p], m)
  BY <1>1, <1>2
<1> QED BY <1>3 DEF PropText, SeappText

-----------------------------------------------------------------------------

LEMMA InitIInv == Init => IInv
<1> SUFFICES ASSUME Init PROVE IInv
  OBVIOUS
<1>1. SoundModule(NoModule)
  BY NoFilesSound DEF SoundModule, NoModule, Follows, NoFiles
<1> QED BY <1>1, NoFilesSound DEF Init, IInv

LEMMA StepIInv ==
    ASSUME IInv, [Next]_vars
    PROVE  IInv'
<1> USE DEF IInv
<1>1. CASE Install
  <2>1. PICK o \in Overlays(Live) : staged' = Installed(o)
    BY <1>1 DEF Install
  <2>2. Sound(o)
    BY <1>1, <2>1, InstalledSound DEF Install
  <2>3. SoundModule(staged')
    <3>1. Follows(staged')
      BY <2>1, InstalledFollows
    <3> QED BY <2>1, <2>2, <3>1 DEF SoundModule, Installed
  <2> QED BY <1>1, <2>3 DEF Install, SoundModule
<1>2. CASE InstallAborts
  BY <1>2 DEF InstallAborts, SoundModule
<1>3. CASE Ota
  BY <1>3 DEF Ota, SoundModule
<1>4. CASE Disable \/ Enable
  BY <1>4 DEF Disable, Enable, SoundModule
<1>5. CASE Remove
  <2>1. SoundModule(NoModule)
    BY NoFilesSound DEF SoundModule, NoModule, Follows, NoFiles
  <2> QED BY <1>5, <2>1 DEF Remove, SoundModule
<1>6. CASE Reboot
  <2>1. Sound(mounted') /\ mounted' \in {NoFiles, active'.files}
    BY <1>6, NoFilesSound DEF Reboot, SoundModule
  <2> QED BY <1>6, <2>1 DEF Reboot, SoundModule
<1>7. CASE UNCHANGED vars
  BY <1>7 DEF vars, SoundModule
<1> QED BY <1>1, <1>2, <1>3, <1>4, <1>5, <1>6, <1>7 DEF Next

LEMMA AlwaysIInv == Spec => []IInv
<1>1. IInv /\ [Next]_vars => IInv'
  BY StepIInv
<1> QED BY <1>1, InitIInv, PTL DEF Spec

\* The state has the type the module says.
THEOREM OverlayTypeCorrect == Spec => []TypeOK
<1>1. IInv => TypeOK
  BY DEF IInv, TypeOK, SoundModule, Sound
<1> QED BY <1>1, AlwaysIInv, PTL

\* For every set of ROMs and entries: reinstalling over a mounted overlay, on
\* any ROM, never gives the device a file with a doubled entry of its making.
THEOREM NeverDoubleEntry == Spec => []NoDoubleEntry
<1>1. IInv => NoDoubleEntry
  BY DEF IInv, NoDoubleEntry, Sound, Single
<1> QED BY <1>1, AlwaysIInv, PTL

\* For every set of ROMs: a mounted module maps com.lge.ims the way its file
\* maps org.codeaurora.ims.
THEOREM AlwaysImsMapped == Spec => []ImsMapped
<1>1. IInv => ImsMapped
  BY DEF IInv, ImsMapped, Sound, Mapped
<1> QED BY <1>1, AlwaysIInv, PTL

\* For every set of ROMs: a mounted module that was installed with no overlay
\* in front of the ROM it runs on hides no line of that ROM but LG's own.
THEOREM CleanInstallAlwaysFollows == Spec => []CleanInstallFollowsRom
<1>1. IInv => CleanInstallFollowsRom
  <2> SUFFICES ASSUME IInv, mounted # NoFiles, active.on = rom, ~active.over,
                      NEW p \in DOMAIN rom, NEW l \in rom[p]
               PROVE  l \in Live[p] \/ l.key \in SeappStripped \cup PropStripped
    BY DEF CleanInstallFollowsRom, RomIsLive
  <2>1. mounted = active.files
    BY DEF IInv
  <2>2. CASE p \in DOMAIN mounted
    BY <2>1, <2>2 DEF IInv, SoundModule, Follows, Live
  <2>3. CASE p \notin DOMAIN mounted
    BY <2>3 DEF Live
  <2> QED BY <2>2, <2>3
<1> QED BY <1>1, AlwaysIInv, PTL
=============================================================================
