----------------------- MODULE SubstratePipeline_proofs -----------------------
(***************************************************************************)
(* What a request's job publishes and rejects, for every ROM, every donor  *)
(* and every part of the ROM's policy that could be extracted.             *)
(***************************************************************************)
EXTENDS SubstratePipeline, SystemExt, TLAPS

\* The substrate's policy once it is built.
Substrate == [p \in Pol |-> Built(p, donor[p], rom.se[p])]

\* From the build on the policy is what the build makes of a ROM that was not
\* refused ...
BuiltFromStock ==
    step \in {"validate", "publish", "published", "rejected"} =>
        rom.kind = "stock" /\ sub = Substrate

NotRefused ==
    step \in {"policy", "fetch", "build"} => rom.kind = "stock"

\* ... and the validator has judged this very substrate, and nothing since.
Judged ==
    /\ step \in {"publish", "published"} => Accepts(pol, rom.se, sub, hash, rom.modern)
    /\ step = "rejected" => ~Accepts(pol, rom.se, sub, hash, rom.modern)

IInv == TypeOK /\ NotRefused /\ BuiltFromStock /\ Judged

-----------------------------------------------------------------------------
(* What the build makes of a policy file.                                  *)

LEMMA BuiltIsText ==
    ASSUME NEW p \in Pol, NEW d \in Text, NEW t \in Text
    PROVE  Built(p, d, t) \in Text
<1>1. MarkerLine(p) \in Line
  <2>1. MarkerKey(p) \in Keys
    BY MarkerAssumption DEF MarkerKey
  <2> QED  BY <2>1, PolicyAssumption DEF MarkerLine, Line, Origins
<1>2. Merged(p, d, t) \in Text
  BY <1>1 DEF Merged, Delta, Text
<1> QED  BY <1>2, PlumbingAssumption DEF Built, Appended, Text

\* A statement of the ROM's is in a contexts file as the ROM has it, never in
\* another spelling of the donor's: the validator passes over it.
LEMMA BuiltKeepsSpelling ==
    ASSUME NEW p \in Contexts, NEW d, NEW t,
           NEW l \in Built(p, d, t), l.key \in KeysOf(t)
    PROVE  l \in t
<1>1. p \in Pol /\ p # Cil
  BY DEF Contexts
<1>2. t # {}
  BY DEF KeysOf
<1>3. l \in Merged(p, d, t)
  BY <1>1, <1>2 DEF Built
<1>4. ASSUME l = MarkerLine(p), l \notin t PROVE FALSE
  <2>1. AlreadyMerged(p, t)
    BY <1>4 DEF AlreadyMerged, MarkerLine
  <2> QED  BY <1>3, <1>4, <2>1 DEF Merged
<1> QED  BY <1>3, <1>4 DEF Merged, Delta

\* The donor's policy is complete in what is built over a ROM without a graft.
LEMMA BuiltComplete ==
    ASSUME NEW p \in Pol, NEW d, NEW t, ~AlreadyMerged(p, t), NEW l \in d
    PROVE  \/ l.key \in KeysOf(Built(p, d, t)) \cup Semicolon \cup KeysOf(Baseline[p])
           \/ p = Cil /\ Declares[l.key] \cap TypesOf(t) # {}
<1> DEFINE m == IF t = {} THEN d ELSE Merged(p, d, t)
<1>1. m \subseteq Built(p, d, t)
  BY DEF Built, Appended
<1>2. \/ l.key \in KeysOf(m) \cup Semicolon \cup KeysOf(Baseline[p])
      \/ p = Cil /\ Declares[l.key] \cap TypesOf(t) # {}
  <2>1. CASE t = {}
    BY <2>1 DEF KeysOf
  <2>2. CASE t # {}
    BY <2>2 DEF Merged, Delta, Redeclares, KeysOf
  <2> QED  BY <2>1, <2>2
<1>3. KeysOf(m) \subseteq KeysOf(Built(p, d, t))
  BY <1>1 DEF KeysOf
<1> QED  BY <1>2, <1>3

-----------------------------------------------------------------------------

LEMMA InitIInv == Init => IInv
<1> SUFFICES ASSUME Init PROVE IInv
  OBVIOUS
<1>1. DOMAIN pol = {}
  BY DEF Init
<1>2. rom.se \in [Pol -> Text]
  BY PipelineAssumption DEF Init
<1>3. TypeOK
  BY <1>1, <1>2 DEF Init, TypeOK, JobSteps
<1> QED  BY <1>3 DEF Init, IInv, NotRefused, BuiltFromStock, Judged

LEMMA BuildKeeps == ASSUME IInv, Build PROVE IInv'
<1>1. sub' = Substrate' /\ rom' = rom /\ donor' = donor /\ pol' = pol
  BY DEF Build, Substrate
<1>2. \A p \in Pol : Built(p, donor[p], rom.se[p]) \in Text
  <2>1. donor \in [Pol -> Text] /\ rom.se \in [Pol -> Text]
    BY PipelineAssumption DEF IInv, TypeOK
  <2> QED  BY <2>1, BuiltIsText
<1>3. sub' \in [Pol -> Text]
  BY <1>2 DEF Build
<1>4. step' = "validate" /\ step = "build" /\ hash' \in BOOLEAN
  BY DEF Build
<1>5. TypeOK'
  BY <1>1, <1>3, <1>4 DEF IInv, TypeOK, JobSteps
<1> QED  BY <1>1, <1>4, <1>5 DEF IInv, NotRefused, BuiltFromStock, Judged

LEMMA PolicyKeeps == ASSUME IInv, ExtractPolicy PROVE IInv'
<1>1. PICK found \in SUBSET DOMAIN rom.parts : pol' = [q \in found |-> rom.parts[q]]
  BY DEF ExtractPolicy, Found
<1>2. \A q \in DOMAIN pol' : q \in DOMAIN rom.parts /\ pol'[q] = rom.parts[q]
  BY <1>1
<1>3. step' = "fetch" /\ step = "policy" /\ UNCHANGED <<rom, donor, sub, hash>>
  BY DEF ExtractPolicy
<1>4. TypeOK'
  BY <1>2, <1>3 DEF IInv, TypeOK, JobSteps
<1> QED  BY <1>3, <1>4 DEF IInv, NotRefused, BuiltFromStock, Judged

\* The other steps change nothing but where the job is.
LEMMA OthersKeep ==
    ASSUME IInv, UNCHANGED <<rom, donor, pol, sub, hash>>,
           \/ ExtractSystemExt \/ FetchDonor \/ ValidateStep \/ Publish \/ StepFails
           \/ UNCHANGED step
    PROVE  IInv'
<1>1. Substrate' = Substrate
  BY DEF Substrate
<1>2. Accepts(pol, rom.se, sub, hash, rom.modern)' = Accepts(pol, rom.se, sub, hash, rom.modern)
  BY DEF Accepts, ContextsOk, PropertiesOk, CompileOk, CompileRuns, HasArgs, Args
<1>3. step' \in JobSteps \cup JobEnds
  BY DEF IInv, TypeOK, ExtractSystemExt, FetchDonor, ValidateStep, Publish, StepFails,
         JobSteps, JobEnds
<1>4. TypeOK'
  BY <1>3 DEF IInv, TypeOK
<1>5. NotRefused'
  BY DEF IInv, NotRefused, ExtractSystemExt, FetchDonor, ValidateStep, Publish, StepFails,
         Refused
<1>6. BuiltFromStock'
  BY <1>1 DEF IInv, BuiltFromStock, ExtractSystemExt, FetchDonor, ValidateStep, Publish,
         StepFails
<1>7. Judged'
  BY <1>2 DEF IInv, Judged, ExtractSystemExt, FetchDonor, ValidateStep, Publish, StepFails
<1> QED  BY <1>4, <1>5, <1>6, <1>7 DEF IInv

LEMMA AlwaysIInv == Spec => []IInv
<1>1. IInv /\ [Next]_vars => IInv'
  <2> SUFFICES ASSUME IInv, [Next]_vars PROVE IInv'
    OBVIOUS
  <2>1. CASE ExtractPolicy
    BY <2>1, PolicyKeeps
  <2>2. CASE Build
    BY <2>2, BuildKeeps
  <2>3. CASE ExtractSystemExt \/ FetchDonor \/ ValidateStep \/ Publish \/ StepFails
    BY <2>3, OthersKeep DEF ExtractSystemExt, FetchDonor, ValidateStep, Publish, StepFails
  <2>4. CASE UNCHANGED vars
    BY <2>4, OthersKeep DEF vars
  <2> QED  BY <2>1, <2>2, <2>3, <2>4 DEF Next
<1> QED  BY InitIInv, <1>1, PTL DEF Spec

-----------------------------------------------------------------------------

\* The job's files have the type TypeOK says; in particular the policy
\* directory holds this ROM's partitions and no other's.
THEOREM PipelineTypeCorrect == Spec => []TypeOK
<1>1. IInv => TypeOK
  BY DEF IInv
<1> QED  BY <1>1, AlwaysIInv, PTL

\* Whatever could be extracted of the ROM and whatever the donor holds, no
\* contexts entry that the parsers choke on is published but the ROM's own, and
\* no policy hash.
THEOREM PublishedAlwaysParses == Spec => []PublishedParses
<1>1. ASSUME IInv, step = "published"
      PROVE  /\ ~hash
             /\ \A p \in Contexts : \A l \in sub[p] :
                  l.key \in Malformed[p] => l.key \in KeysOf(rom.se[p])
  <2>1. ~hash /\ ContextsOk(rom.se, sub)
    BY <1>1 DEF IInv, Judged, Accepts
  <2> QED  BY <2>1 DEF ContextsOk, Written, KeysOf
<1> QED  BY <1>1, AlwaysIInv, PTL DEF PublishedParses

\* With the ROM's whole policy at hand, what is published boots and compiles
\* LG's policy at boot.
THEOREM PublishedAlwaysBoots == Spec => []PublishedBoots
<1>1. ASSUME IInv, step = "published", pol = rom.parts, rom.modern
      PROVE  Boots(rom.parts, rom.se, sub) /\ ~hash
  <2>1. Accepts(rom.parts, rom.se, sub, hash, rom.modern)
    BY <1>1 DEF IInv, Judged
  <2>2. \A p \in Contexts : \A l \in sub[p] :
            l.key \in KeysOf(rom.se[p]) \/ l.key \notin Malformed[p]
    BY <2>1 DEF Accepts, ContextsOk, Written, KeysOf
  <2>3. TrieBuilds(WithSystemExt(rom.parts, PropsOf, sub[PropFile]))
    BY <2>1 DEF Accepts, PropertiesOk
  <2>4. rom \in Roms
    BY <1>1 DEF IInv, TypeOK
  <2>5. HasArgs(rom.parts) /\ Compiles(Args(rom.parts, rom.se))
    BY <2>4, PipelineAssumption DEF HasArgs, Args, Boots
  <2>6. Compiles(WithSystemExt(rom.parts, CilOf, sub[Cil]))
    BY <1>1, <2>1, <2>5 DEF Accepts, CompileOk, CompileRuns, Args
  <2> QED  BY <2>1, <2>2, <2>3, <2>6 DEF Boots, Accepts
<1> QED  BY <1>1, AlwaysIInv, PTL DEF PublishedBoots, Complete

\* With the ROM's whole policy at hand, or with any part of it that secilc cannot
\* compile, no substrate is held back that would boot with LG's policy.
THEOREM AlwaysRejectedForCause == Spec => []RejectedForCause
<1>1. ASSUME IInv, step = "rejected", pol = rom.parts \/ Uncompiled,
             ~hash, Boots(rom.parts, rom.se, sub)
      PROVE  FALSE
  <2>1. ~Accepts(pol, rom.se, sub, hash, rom.modern) /\ sub = Substrate
    BY <1>1 DEF IInv, Judged, BuiltFromStock
  <2>2. ContextsOk(rom.se, sub)
    <3> SUFFICES ASSUME NEW p \in Contexts, NEW l \in sub[p], l.key \in KeysOf(rom.se[p])
                 PROVE  Written(l) \in {Written(m) : m \in rom.se[p]}
      BY <1>1 DEF ContextsOk, Boots
    <3>1. l \in rom.se[p]
      BY <2>1, BuiltKeepsSpelling DEF Substrate, Contexts
    <3> QED  BY <3>1
  <2>3. PropertiesOk(pol, sub)
    <3> DEFINE some == WithSystemExt(pol, PropsOf, sub[PropFile])
               all == WithSystemExt(rom.parts, PropsOf, sub[PropFile])
    <3>1. \A q \in DOMAIN some : q \in DOMAIN all /\ some[q] = all[q]
      BY <1>1 DEF IInv, TypeOK, WithSystemExt, PropsOf
    <3>2. TrieBuilds(all)
      BY <1>1 DEF Boots
    <3> HIDE DEF some, all
    <3>3. Lines(some) \subseteq Lines(all)
      BY <3>1 DEF Lines
    <3>4. TrieBuilds(some)
      BY <3>2, <3>3 DEF TrieBuilds
    <3> QED  BY <3>4 DEF PropertiesOk, some
  <2>4. CompileOk(pol, rom.se, sub, rom.modern)
    <3>1. CASE pol = rom.parts
      BY <1>1, <3>1 DEF CompileOk, Args, Boots
    <3>2. CASE Uncompiled
      BY <3>2 DEF CompileOk, CompileRuns, HasArgs, Uncompiled
    <3> QED  BY <1>1, <3>1, <3>2
  <2> QED  BY <1>1, <2>1, <2>2, <2>3, <2>4 DEF Accepts
<1>2. IInv => RejectedForCause
  BY <1>1 DEF RejectedForCause
<1> QED  BY <1>2, AlwaysIInv, PTL

\* What is published carries the policy of the donor of the day, whatever the
\* ROM has of it already: no graft is put on top of an older one.
THEOREM PublishedAlwaysCurrent == Spec => []PublishedCurrent
<1>1. ASSUME IInv, step = "published", NEW p \in Pol, NEW l \in donor[p]
      PROVE  \/ l.key \in KeysOf(sub[p]) \cup Semicolon \cup KeysOf(Baseline[p])
             \/ p = Cil /\ Declares[l.key] \cap TypesOf(rom.se[p]) # {}
  <2>1. rom.kind = "stock" /\ sub[p] = Built(p, donor[p], rom.se[p])
    BY <1>1 DEF IInv, BuiltFromStock, Substrate
  <2>2. ~AlreadyMerged(p, rom.se[p])
    BY <1>1, <2>1, PipelineAssumption DEF IInv, TypeOK
  <2> QED  BY <2>1, <2>2, BuiltComplete
<1>2. IInv => PublishedCurrent
  BY <1>1 DEF PublishedCurrent
<1> QED  BY <1>2, AlwaysIInv, PTL

-----------------------------------------------------------------------------
(* The job's build is the build tool's.                                    *)

\* The policy of an image: what the files have, and nothing for a file it lacks.
PolicyTexts(img) == [p \in Pol |-> img[p].content.text]

\* What the job's Build makes of a ROM is, in each policy file, what SubstrateBuild
\* promises of status 0 for any image with that ROM's policy and any donor's with
\* a whole one: what is proved here is about the substrate the tool writes.
THEOREM BuildIsTheTools ==
    ASSUME Build, NEW b \in BaseImages, NEW d \in DonorImages,
           rom.se = PolicyTexts(b), donor = PolicyTexts(d),
           \A p \in Pol : d[p].content.text # {}
    PROVE  \A p \in Pol : Intended(b, d)[p] = File(sub'[p])
<1> SUFFICES ASSUME NEW p \in Pol PROVE Intended(b, d)[p] = File(sub'[p])
  OBVIOUS
<1>1. sub'[p] = Built(p, donor[p], rom.se[p])
  BY DEF Build
<1>2. donor[p] = d[p].content.text /\ rom.se[p] = b[p].content.text
  BY DEF PolicyTexts
<1>3. d[p].content = File(donor[p])
  <2>1. d \in Image /\ p \in Paths \ Dirs
    BY InputAssumption, PathAssumption DEF Wellformed, Paths
  <2>2. d[p].content \in Contents /\ (d[p].content = Missing \/ d[p].content.is = "file")
    BY <2>1, InputAssumption DEF Wellformed, Image, Slot
  <2>3. d[p].content.is = "file"
    BY <2>2 DEF Missing
  <2>4. PICK x \in {"none", "file", "dir"}, y \in Text : d[p].content = [is |-> x, text |-> y]
    BY <2>2 DEF Contents
  <2> QED  BY <1>2, <2>3, <2>4 DEF File
<1>4. PolicyOf(p, b, d) = File(IF rom.se[p] = {} THEN donor[p] ELSE Merged(p, donor[p], rom.se[p]))
  BY <1>2, <1>3 DEF PolicyOf, NoText
<1>5. PolicyOf(p, b, d).text = IF rom.se[p] = {} THEN donor[p] ELSE Merged(p, donor[p], rom.se[p])
  BY <1>4 DEF File
<1>6. Intended(b, d)[p] = IF p = Cil THEN File(Appended(PolicyOf(p, b, d).text)) ELSE PolicyOf(p, b, d)
  BY DEF Intended, Files
<1> QED  BY <1>1, <1>4, <1>5, <1>6 DEF Built
=============================================================================
