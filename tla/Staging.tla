-------------------------------- MODULE Staging --------------------------------
(***************************************************************************)
(* From LG's firmware to the two modules: tools/extract_blobs.py fills the *)
(* staging directory, the maintainer's recipes and                         *)
(* tools/build_incoming_reject_fix.py add patched files to it, and         *)
(* tools/build_consolidated_modules.py packs it.  A tool may be killed     *)
(* between any two steps and started again, on other inputs.               *)
(***************************************************************************)
EXTENDS Naturals, Sequences, FiniteSets, SequencesExt

CONSTANTS
    Images,       \* [fw, readable, paths]: candidates for --lg-system-ext
    BlobSeq,      \* LG_APP, in its order
    Substrate,    \* LG_SUBSTRATE_REQUIRED
    Ipsecd,       \* staging/lg-src/ipsecd, /bin/ipsecd of the image
    Mac,          \* etc/selinux/plat_mac_permissions.xml
    Ims, Vow,     \* patched and native files of the two modules
    Jar,          \* patched/telephony-common.jar, one of Ims
    Source,       \* patched file -> the staged file it is made of, or None
    Classes,      \* the class in the jars to patch: site -> what is there
    DumpFaults,   \* what dump may do silently: "nothing", "empty", "cut"
    KeytoolFails, \* may keytool fail?
    None

Blobs == ToSet(BlobSeq)
Staged == Blobs \cup {Ipsecd} \cup Ims \cup Vow
Firmware == {i.fw : i \in Images}
Content == [fw : Firmware \cup {None}, is : {"whole", "half", "cut", "empty"}]
Whole(fw) == [fw |-> fw, is |-> "whole"]
Cert == {"certificate", "error"}

\* A tool under way: its next statement, its input, the blobs that are to come,
\* whether it found none of them, and the certificate it has read.
Runs == [tool : {"extract", "build"},
         at : {"ipsecd", "paths", "blobs", "ims", "ims_zip", "vowifi", "vowifi_zip"},
         image : Images \cup {None}, todo : Seq(Blobs), fresh : BOOLEAN, cert : Cert \cup {None}]

\* The tools keep their files apart, and the patched jar is no input of theirs.
ASSUME StagingAssumption ==
    /\ None \notin Staged /\ None \notin Runs
    /\ \A i \in Images : i.readable \in BOOLEAN
    /\ BlobSeq \in Seq(Blobs) /\ Mac \in Blobs /\ Ipsecd \notin Blobs
    /\ Jar \in Ims \ (Blobs \cup {Ipsecd})
    /\ Source \in [Ims \cup Vow -> Staged \cup {None}]
    /\ Classes \subseteq [{"reject", "mo_a", "mo_b", "mo_c"} -> {"stock", "patched", "twice", "absent"}]
    /\ DumpFaults \subseteq {"nothing", "empty", "cut"} /\ KeytoolFails \in BOOLEAN

VARIABLES
    stage,    \* staging/: path -> content or None
    paths,    \* the firmware that paths.json names
    zips,     \* out/: zip -> what is in it, or None
    run,      \* the tool under way: [tool, at, image, todo, fresh, cert]
    ended     \* "running", or how the last tool ended
stageVars == <<stage, paths, zips, run, ended>>

ModuleZip == [is : {"torn", "whole"}, files : [Staged -> Content \cup {None}], cert : Cert \cup {None}]
StageTypeOK ==
    /\ stage \in [Staged -> Content \cup {None}]
    /\ paths \in Firmware \cup {None}
    /\ DOMAIN zips = {"ims", "vowifi"}
    /\ \A z \in DOMAIN zips : zips[z] \in ModuleZip \cup {None}
    /\ run \in Runs \cup {None}
    /\ ended \in {"running", "extracted", "built", "patched", "failed", "killed"}
    /\ (run = None) <=> ended # "running"

StageInit ==
    /\ stage = [p \in Staged |-> None] /\ paths = None
    /\ zips = [z \in {"ims", "vowifi"} |-> None] /\ run = None /\ ended = "killed"

Idle == run = None
Starts(tool, at, image, todo, fresh, cert) ==
    /\ run' = [tool |-> tool, at |-> at, image |-> image, todo |-> todo,
               fresh |-> fresh, cert |-> cert]
    /\ ended' = "running"
Goes(at) == run' = [run EXCEPT !.at = at] /\ UNCHANGED ended
Ends(s) == run' = None /\ ended' = s
At(tool, at) == ~Idle /\ run.tool = tool /\ run.at = at

-----------------------------------------------------------------------------
(* extract_blobs.py                                                        *)

\* exists: debugfs did not say "File not found".
Exists(image, p) == ~image.readable \/ p \in image.paths

\* debugfs dump: the file, or what a fault makes of the one that was there.
Dumped(image, p) ==
    IF ~image.readable \/ p \notin image.paths THEN {stage[p]}
    ELSE {Whole(image.fw)}
         \cup {[fw |-> image.fw, is |-> f] : f \in DumpFaults \ {"nothing"}}
         \cup (IF "nothing" \in DumpFaults THEN {stage[p]} ELSE {})

Extract(image) ==
    /\ Idle
    /\ IF \A p \in Substrate : Exists(image, p)
       THEN Starts("extract", "ipsecd", image, BlobSeq, \A p \in Blobs : stage[p] = None, None)
       ELSE Ends("failed")
    /\ UNCHANGED <<stage, paths, zips>>

\* Nobody looks at this dump.
DumpIpsecd ==
    /\ At("extract", "ipsecd")
    /\ \E c \in Dumped(run.image, Ipsecd) : stage' = [stage EXCEPT ![Ipsecd] = c]
    /\ Goes("paths") /\ UNCHANGED <<paths, zips>>

WritePaths ==
    /\ At("extract", "paths")
    /\ paths' = run.image.fw /\ Goes("blobs") /\ UNCHANGED <<stage, zips>>

\* Mutant: an empty file will do.
Extracted_Exists(c) == c # None
Extracted(c) == c # None /\ c.is # "empty"

NextBlob ==
    /\ At("extract", "blobs")
    /\ UNCHANGED <<paths, zips>>
    /\ \/ run.todo = << >> /\ Ends("extracted") /\ UNCHANGED stage
       \/ /\ run.todo # << >>
          /\ LET p == Head(run.todo)
                 on == run' = [run EXCEPT !.todo = Tail(@)] /\ UNCHANGED ended
             IN IF ~Exists(run.image, p) THEN on /\ UNCHANGED stage
                ELSE \E c \in Dumped(run.image, p) :
                        /\ stage' = [stage EXCEPT ![p] = c]
                        /\ IF Extracted(c) THEN on ELSE Ends("failed")

-----------------------------------------------------------------------------
(* The recipes, and build_incoming_reject_fix.py.                          *)

\* External: a recipe makes a patched file of a staged one, or of AOSP.
Recipe(p) ==
    /\ Idle /\ p # Jar
    /\ IF Source[p] = None THEN stage' = [stage EXCEPT ![p] = Whole(None)]
       ELSE stage[Source[p]] # None /\ stage' = [stage EXCEPT ![p] = stage[Source[p]]]
    /\ UNCHANGED <<paths, zips, run, ended>>

\* The places of the class where code is inserted: the reject cleanup, whose
\* insertion ends with its own marker, and the three of the MO fallback.
Sites == {"reject", "mo_a", "mo_b", "mo_c"}
MarkerCount(site, s) ==
    CASE s = "stock" -> 1 [] s = "twice" -> 2 [] s = "absent" -> 0
      [] s = "patched" -> IF site = "reject" THEN 1 ELSE 0

\* Mutant: the fallback's markers are not counted.
Patches_RejectOnly(class) == MarkerCount("reject", class["reject"]) = 1
\* replace_once, and smali, which takes no label twice.
Patches(class) ==
    /\ \A s \in Sites : MarkerCount(s, class[s]) = 1
    /\ class["reject"] # "patched"

\* main: the class is in the jar if every step ran; the old jar stays else.
PatchJar(class) ==
    /\ Idle
    /\ IF Patches(class)
       THEN /\ stage' = [stage EXCEPT ![Jar] =
                  [fw |-> None, is |-> IF \A s \in Sites : class[s] = "stock" THEN "whole" ELSE "half"]]
            /\ Ends("patched")
       ELSE Ends("failed") /\ UNCHANGED stage
    /\ UNCHANGED <<paths, zips>>

-----------------------------------------------------------------------------
(* build_consolidated_modules.py                                           *)

\* cert_der_hex: the second call's output is taken for DER, whatever it says.
CertDerHex == {"certificate"} \cup (IF KeytoolFails THEN {"error"} ELSE {})

Build ==
    /\ Idle
    /\ \E der \in CertDerHex : Starts("build", "ims", None, << >>, FALSE, der)
    /\ UNCHANGED <<stage, paths, zips>>

\* Mutant: a file that is missing is left out.
Need_Skips(files) == TRUE
\* need().
Need(files) == \A p \in files : stage[p] # None

\* The module's tree: what the recipes left and every LG blob that is there.
Packed(files) == [p \in Staged |-> IF p \in files THEN stage[p] ELSE None]
Modules == [ims |-> [needs |-> Ims \cup {Mac}, takes |-> Ims \cup Blobs],
            vowifi |-> [needs |-> Vow, takes |-> Vow]]

Zipping == [ims |-> "ims_zip", vowifi |-> "vowifi_zip"]

\* zipdir: the old zip is unlinked, and the new one written file by file.
OpenZip(z) ==
    /\ At("build", z)
    /\ IF Need(Modules[z].needs)
       THEN zips' = [zips EXCEPT ![z] = [is |-> "torn", files |-> Packed({}), cert |-> None]] /\ Goes(Zipping[z])
       ELSE Ends("failed") /\ UNCHANGED zips
    /\ UNCHANGED <<stage, paths>>

CloseZip(z) ==
    /\ At("build", Zipping[z])
    /\ zips' = [zips EXCEPT ![z] =
            [is |-> "whole", files |-> Packed(Modules[z].takes), cert |-> IF z = "ims" THEN run.cert ELSE None]]
    /\ IF z = "ims" THEN Goes("vowifi") ELSE Ends("built")
    /\ UNCHANGED <<stage, paths>>

\* A tool is killed (external).
Kill == ~Idle /\ Ends("killed") /\ UNCHANGED <<stage, paths, zips>>

Tools == \/ DumpIpsecd \/ WritePaths \/ NextBlob
         \/ \E z \in {"ims", "vowifi"} : OpenZip(z) \/ CloseZip(z)
StageNext ==
    \/ Tools \/ Kill
    \/ \E image \in Images : Extract(image)
    \/ \E p \in Ims \cup Vow : Recipe(p)
    \/ \E class \in Classes : PatchJar(class)
    \/ Build

StageSpec == StageInit /\ [][StageNext]_stageVars

-----------------------------------------------------------------------------
(* Properties.                                                             *)

\* An extraction into an empty directory that ends with 0 has every blob that
\* the image has, whole, and no other (tools/extract_blobs.py:117-128), though
\* no debugfs command's status is looked at: the check of line 125 finds a dump
\* that gave nothing or an empty file.  A dump that was cut short it lets pass,
\* so the property holds with "cut" not among DumpFaults.
ExtractionComplete ==
    [][run # None /\ ended' = "extracted" /\ run.fresh =>
        \A p \in Blobs : stage'[p] =
            IF p \in run.image.paths THEN Whole(run.image.fw) ELSE None]_stageVars

\* The jar in staging/patched has both fixes or is not there
\* (tools/build_incoming_reject_fix.py:190-196, 231-238).
NoHalfJar == stage[Jar] # None => stage[Jar].is = "whole"

\* A build that ends with 0 leaves two whole zips of one staging, with every
\* file that a module cannot do without, whatever the last one left in out/
\* (tools/build_consolidated_modules.py:303-394).
BuiltIsStaged ==
    [][run # None /\ ended' = "built" =>
        \A z \in DOMAIN zips :
            /\ zips'[z].is = "whole" /\ zips'[z].files = Packed(Modules[z].takes)
            /\ \A p \in Modules[z].needs : zips'[z].files[p] # None]_stageVars
=============================================================================
