---------------------------- MODULE ContextOverlay ----------------------------
(***************************************************************************)
(* The contexts files of the v60_ims_volte module: customize.sh            *)
(* (IMS_CUSTOMIZE of tools/build_consolidated_modules.py) derives a seapp  *)
(* and a property overlay from the files it finds on the running system.   *)
(* That system has the previous overlay mounted as soon as the module is   *)
(* active, so installing, rebooting, updating the ROM and disabling the    *)
(* module meet here.                                                       *)
(*                                                                         *)
(* External, as the module relies on it: the root manager stages an        *)
(* installed module, activates it at the next boot, mounts its files over  *)
(* the ROM's unless it is disabled, and drops what an aborted install left.*)
(***************************************************************************)
EXTENDS Naturals, Sequences, FiniteSets

CONSTANTS
    Seapp,        \* the seapp_contexts candidates in the script's order
    PropPath,     \* PSRC
    Keys, Vals,   \* what a line is about, and what it says
    Codeaurora, LgeIms,          \* name=org.codeaurora.ims, name=com.lge.ims
    SeappStripped, PropStripped, \* the keys the two sed commands delete
    Levelled,     \* val -> the same with levelFrom=none made all
    DataLine,     \* the line for .lgedataservice
    PropLines,    \* the here-document
    Builds        \* the ROMs, each a function from its files to their lines

Paths == {Seapp[k] : k \in DOMAIN Seapp} \cup {PropPath}
Line == [key : Keys, val : Vals, by : {"rom", "module"}]
Text == SUBSET Line
Files == UNION {[P -> Text] : P \in SUBSET Paths}

ASSUME OverlayAssumption ==
    /\ Seapp \in Seq(Paths) /\ PropPath \notin {Seapp[k] : k \in DOMAIN Seapp}
    /\ Codeaurora \in Keys \ SeappStripped /\ LgeIms \in SeappStripped
    /\ SeappStripped \subseteq Keys /\ PropStripped \subseteq Keys
    /\ Levelled \in [Vals -> Vals]
    /\ DataLine \in Line /\ DataLine.key \in SeappStripped \ {LgeIms}
    /\ PropLines \subseteq Line /\ \A l \in PropLines : l.key \in PropStripped
    /\ DataLine.by = "module" /\ \A l \in PropLines : l.by = "module"
    /\ \A l, m \in PropLines : l.key = m.key => l = m
    /\ \A b \in Builds : /\ DOMAIN b \subseteq Paths
                         /\ \A p \in DOMAIN b : b[p] \subseteq {l \in Line : l.by = "rom"}

VARIABLES
    rom, next,    \* the running ROM, and the one the next boot starts
    active, staged,  \* the module as it is, and as the next boot finds it
    disabled,     \* the root manager's flag
    mounted       \* the overlay files of this boot
vars == <<rom, next, active, staged, disabled, mounted>>

NoFiles == << >>
\* A module: its files, the ROM it was installed on, and whether an overlay
\* was mounted then.
NoModule == [files |-> NoFiles, on |-> NoFiles, over |-> FALSE]

\* What a process sees: the overlay in front of the ROM.
Live == [p \in DOMAIN rom \cup DOMAIN mounted |->
            IF p \in DOMAIN mounted THEN mounted[p] ELSE rom[p]]

TypeOK ==
    /\ rom \in Builds /\ next \in Builds
    /\ \A m \in {active, staged} :
          /\ DOMAIN m.files \subseteq Paths
          /\ \A p \in DOMAIN m.files : m.files[p] \subseteq Line
          /\ m.on \in Builds \cup {NoFiles} /\ m.over \in BOOLEAN
    /\ disabled \in BOOLEAN
    /\ mounted \in {NoFiles, active.files}

Init ==
    /\ rom \in Builds /\ next = rom
    /\ active = NoModule /\ staged = NoModule
    /\ disabled = FALSE
    /\ mounted = NoFiles

-----------------------------------------------------------------------------
(* customize.sh                                                            *)

Mappings(f) == {l \in f : l.key = Codeaurora}

\* The candidates with a mapping; the first of them is SEAPP.
Candidates(files) ==
    {k \in DOMAIN Seapp : Seapp[k] \in DOMAIN files /\ Mappings(files[Seapp[k]]) # {}}
IsSource(files, k) == k \in Candidates(files) /\ \A j \in Candidates(files) : k <= j

\* Mutant: the mapping is renamed where it stands, not copied.
SeappText_Renamed(f, l) ==
    {m \in f : m.key \notin SeappStripped /\ m # l}
        \cup {[key |-> LgeIms, val |-> Levelled[l.val], by |-> "module"], DataLine}

\* The file without LG's lines, the mapping l for com.lge.ims, and DataLine.
SeappText(f, l) ==
    {m \in f : m.key \notin SeappStripped}
        \cup {[key |-> LgeIms, val |-> Levelled[l.val], by |-> "module"], DataLine}

\* Mutant: the here-document goes under whatever the file has.
PropText_Kept(f) == f \cup PropLines

PropText(f) == {m \in f : m.key \notin PropStripped} \cup PropLines

\* Neither of the two `abort`s.
Found(files) == Candidates(files) # {} /\ PropPath \in DOMAIN files

\* What the script makes of the files it sees, in MODPATH.
Overlays(files) ==
    {[p \in {Seapp[x[1]], PropPath} |->
        IF p = PropPath THEN PropText(files[p]) ELSE SeappText(files[p], x[2])] :
     x \in {y \in (DOMAIN Seapp) \X Line :
             IsSource(files, y[1]) /\ y[2] \in Mappings(files[Seapp[y[1]]])}}

Installed(o) == [files |-> o, on |-> rom, over |-> mounted # NoFiles]

\* Mutant: the script writes to the active module, not to the staged one.
Install_InPlace ==
    /\ Found(Live)
    /\ \E o \in Overlays(Live) : active' = Installed(o) /\ staged' = active'
    /\ disabled' = FALSE
    /\ UNCHANGED <<rom, next, mounted>>

\* The module is installed from the running system.
Install ==
    /\ Found(Live)
    /\ \E o \in Overlays(Live) : staged' = Installed(o)
    /\ disabled' = FALSE
    /\ UNCHANGED <<rom, next, active, mounted>>

InstallAborts ==
    /\ ~Found(Live)
    /\ staged' = active
    /\ UNCHANGED <<rom, next, active, disabled, mounted>>

-----------------------------------------------------------------------------
(* External: the root manager and the ROM's updater.                       *)

\* A ROM update, to be booted next.
Ota ==
    /\ next' \in Builds
    /\ UNCHANGED <<rom, active, staged, disabled, mounted>>

\* The user, or RescueParty after a crash loop.
Disable ==
    /\ disabled' = TRUE
    /\ UNCHANGED <<rom, next, active, staged, mounted>>

Enable ==
    /\ disabled' = FALSE
    /\ UNCHANGED <<rom, next, active, staged, mounted>>

Remove ==
    /\ staged' = NoModule
    /\ UNCHANGED <<rom, next, active, disabled, mounted>>

Reboot ==
    /\ rom' = next
    /\ active' = staged
    /\ mounted' = IF disabled THEN NoFiles ELSE staged.files
    /\ UNCHANGED <<next, staged, disabled>>

Next == Install \/ InstallAborts \/ Ota \/ Disable \/ Enable \/ Remove \/ Reboot
Spec == Init /\ [][Next]_vars

-----------------------------------------------------------------------------
(* Properties.                                                             *)

\* No file the device boots with has two entries for one name, unless the ROM
\* itself has them: reinstalls read the previous overlay back, and a
\* substrate brings LG's entries already (the sed commands of customize.sh;
\* a double entry breaks the property trie).
NoDoubleEntry ==
    \A p \in DOMAIN mounted : \A l, m \in mounted[p] :
        l # m /\ l.key = m.key => l.by = "rom" /\ m.by = "rom"

\* However often it is reinstalled and whatever ROM it ends up on, a mounted
\* module maps com.lge.ims as its file maps org.codeaurora.ims.
ImsMapped ==
    mounted # NoFiles =>
        \E p \in DOMAIN mounted \ {PropPath} :
            \E l, m \in mounted[p] :
                l.key = LgeIms /\ m.key = Codeaurora /\ l.val = Levelled[m.val]

\* Is every line of the running ROM live, but for those the module replaces?
RomIsLive ==
    \A p \in DOMAIN rom : \A l \in rom[p] :
        l \in Live[p] \/ l.key \in SeappStripped \cup PropStripped

\* A module that was installed with no overlay mounted hides nothing of the
\* ROM it was installed on.
CleanInstallFollowsRom ==
    mounted # NoFiles /\ active.on = rom /\ ~active.over => RomIsLive

\* tools/build_consolidated_modules.py:124-125: customize.sh rebuilds the
\* overlays "from the ROM's *live* files (so this stays correct across
\* LineageOS updates ...)".  So after an update, a reinstall and a reboot
\* the new ROM's lines are live.
ReinstallFollowsRom ==
    mounted # NoFiles /\ active.on = rom => RomIsLive
=============================================================================
