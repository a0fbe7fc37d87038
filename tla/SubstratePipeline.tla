--------------------------- MODULE SubstratePipeline ---------------------------
(***************************************************************************)
(* The steps a substrate request goes through in                           *)
(* .github/workflows/build-substrate.yml, from the ROM zip to the release: *)
(* extract system_ext, extract what can be found of the other partitions'  *)
(* policy, fetch the donor image, build, validate, publish.  A step that   *)
(* fails ends the job.  The build is the one of SubstrateBuild, of which   *)
(* only the policy files and the hash matter here.                         *)
(***************************************************************************)
EXTENDS Validate

CONSTANTS
    Roms,         \* the zips people ask for
    Donors        \* the policies the donor image can hold

\* kind: what extract_system_ext.sh makes of the zip's system_ext: a "stock"
\* V60 ext4 image, "erofs", another device's, or one with LG's ipsecd in it.
\* se is its policy ({} for a file it lacks), parts the other partitions' and
\* modern says whether the pinned secilc can compile this ROM's policy.
Rom == [kind : {"stock", "erofs", "other", "grafted", "none"},
        se : [Pol -> Text],
        parts : UNION {[P -> Policies] : P \in SUBSET Partitions},
        modern : BOOLEAN]

ASSUME PipelineAssumption ==
    /\ \A r \in Roms :
          /\ r.kind \in {"stock", "erofs", "other", "grafted", "none"}
          /\ r.se \in [Pol -> Text]
          /\ Needed \subseteq DOMAIN r.parts /\ DOMAIN r.parts \subseteq Partitions
          /\ \A q \in DOMAIN r.parts : r.parts[q] \in Policies
          /\ r.modern \in BOOLEAN
          \* the ROM boots as its maker ships it, and the build tool's marker
          \* is only in what that tool made, which has LG's ipsecd
          /\ Boots(r.parts, r.se, r.se)
          /\ r.kind = "stock" => \A p \in Pol : ~AlreadyMerged(p, r.se[p])
    /\ Donors \subseteq [Pol -> Text]
    /\ \A d \in Donors : \A p \in Pol : d[p] # {}

VARIABLES
    step,         \* the workflow step about to run, or how the job ended
    rom, donor,   \* the request's ROM, the donor image of the day
    pol,          \* policy/: the partitions that could be extracted
    sub, hash     \* policy files of out/lg_substrate.img; is its hash file there?
vars == <<step, rom, donor, pol, sub, hash>>

JobSteps == {"extract", "policy", "fetch", "build", "validate", "publish"}
JobEnds == {"published", "rejected", "failed"}

TypeOK ==
    /\ step \in JobSteps \cup JobEnds
    /\ rom \in Roms /\ donor \in Donors
    /\ \A q \in DOMAIN pol : q \in DOMAIN rom.parts /\ pol[q] = rom.parts[q]
    /\ sub \in [Pol -> Text]
    /\ hash \in BOOLEAN

Init ==
    /\ step = "extract"
    /\ rom \in Roms /\ donor \in Donors
    /\ pol = << >>
    /\ sub = rom.se
    /\ hash = TRUE

-----------------------------------------------------------------------------

\* Mutant: a ROM that carries a graft is not recognised.
Refused_Regraft(kind) == kind \in {"erofs", "other", "none"}

\* The exit codes 2 (no image), 3, 5 and 4 of extract_system_ext.sh.
Refused(kind) == kind # "stock"

ExtractSystemExt ==
    /\ step = "extract"
    /\ step' = IF Refused(rom.kind) THEN "failed" ELSE "policy"
    /\ UNCHANGED <<rom, donor, pol, sub, hash>>

\* Mutant: the policy directory still holds another ROM's partitions.
Found_Stale(parts) ==
    UNION {{[q \in found |-> r.parts[q]] : found \in SUBSET DOMAIN r.parts} : r \in Roms}

\* What extract_policy_inputs.sh may find and be able to read.
Found(parts) == {[q \in found |-> parts[q]] : found \in SUBSET DOMAIN parts}

ExtractPolicy ==
    /\ step = "policy"
    /\ step' = "fetch"
    /\ pol' \in Found(rom.parts)
    /\ UNCHANGED <<rom, donor, sub, hash>>

FetchDonor ==
    /\ step = "fetch"
    /\ step' = "build"
    /\ UNCHANGED <<rom, donor, pol, sub, hash>>

\* The text a policy file has after merge_policy and append_cil.
Built(p, d, t) ==
    LET m == IF t = {} THEN d ELSE Merged(p, d, t)
    IN  IF p = Cil THEN Appended(m) ELSE m

\* The run ends with status 0 and the intended policy, but the rm of the hash
\* may have failed unnoticed.
Build ==
    /\ step = "build"
    /\ step' = "validate"
    /\ sub' = [p \in Pol |-> Built(p, donor[p], rom.se[p])]
    /\ hash' \in BOOLEAN
    /\ UNCHANGED <<rom, donor, pol>>

ValidateStep ==
    /\ step = "validate"
    /\ step' = IF Accepts(pol, rom.se, sub, hash, rom.modern)
               THEN "publish" ELSE "rejected"
    /\ UNCHANGED <<rom, donor, pol, sub, hash>>

Publish ==
    /\ step = "publish"
    /\ step' = "published"
    /\ UNCHANGED <<rom, donor, pol, sub, hash>>

\* Any step may fail of itself: a download, a full disk, a missing release,
\* the tool's own SystemExit.
StepFails ==
    /\ step \in JobSteps
    /\ step' = "failed"
    /\ UNCHANGED <<rom, donor, pol, sub, hash>>

Next ==
    \/ ExtractSystemExt \/ ExtractPolicy \/ FetchDonor \/ Build
    \/ ValidateStep \/ Publish \/ StepFails

Spec == Init /\ [][Next]_vars

-----------------------------------------------------------------------------
(* Properties.                                                             *)

\* Every partition's policy was extracted and this secilc can compile it.
Complete == pol = rom.parts /\ rom.modern

\* What is published boots, and boots LG's policy, if the checks had all the
\* ROM's policy to work on: the job never ships a bootloop it could foresee.
PublishedBoots ==
    step = "published" /\ Complete => Boots(rom.parts, rom.se, sub) /\ ~hash

\* Even with nothing extracted, what is published has no contexts entry the
\* parsers choke on but the ROM's own, and forces the recompile.
PublishedParses ==
    step = "published" =>
        /\ ~hash
        /\ \A p \in Contexts : \A l \in sub[p] :
              l.key \in Malformed[p] => l.key \in KeysOf(rom.se[p])

\* secilc has no say: it is too old for this ROM, what it needs could not be
\* extracted, or not even the stock policy compiles with what could.
Uncompiled ==
    ~rom.modern \/ ~(Needed \subseteq DOMAIN pol) \/ ~Compiles(Args(pol, rom.se))

\* A rejection is right: with the ROM's whole policy at hand, and with any part
\* of it if that part cannot be compiled, only a substrate that would not boot,
\* or would boot the stock policy, is held back (check_compile's warnings).
RejectedForCause ==
    step = "rejected" /\ (pol = rom.parts \/ Uncompiled) =>
        hash \/ ~Boots(rom.parts, rom.se, sub)

\* What is published carries the policy of the donor of the day: a graft is
\* never put on top of an older one, whose marker would make it a no-op.
PublishedCurrent ==
    step = "published" =>
        \A p \in Pol : \A l \in donor[p] :
            \/ l.key \in KeysOf(sub[p]) \cup Semicolon \cup KeysOf(Baseline[p])
            \/ p = Cil /\ Declares[l.key] \cap TypesOf(rom.se[p]) # {}

\* tools/ci/extract_policy_inputs.sh:7-8: "a partition that can't be found is
\* skipped, and the validator then skips the compile check instead of failing
\* the build".  So while one is missing, nothing but a contexts, property or
\* hash failure rejects a substrate.
PartialNeverRejects ==
    step = "rejected" /\ pol # rom.parts =>
        ~(ContextsOk(rom.se, sub) /\ PropertiesOk(pol, sub) /\ ~hash)
=============================================================================
