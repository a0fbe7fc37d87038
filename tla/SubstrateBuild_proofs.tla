------------------------- MODULE SubstrateBuild_proofs -------------------------
(***************************************************************************)
(* What merge_policy and append_cil guarantee for every policy file, donor *)
(* and target; and that a run of build_lg_substrate_image.py that exits    *)
(* with 0 has built the intended image, for every BIN and POL, every stock *)
(* and donor image and every set of debugfs commands that fail in silence, *)
(* in every file of which no read came back short.                         *)
(***************************************************************************)
EXTENDS SubstrateBuild, TLAPS

-----------------------------------------------------------------------------
(* The merge.                                                              *)

\* merge_policy only appends: no line of the ROM's own policy is lost or
\* changed, whatever the donor holds.
THEOREM MergeKeepsTarget ==
    ASSUME NEW p, NEW donor, NEW tgt
    PROVE  tgt \subseteq Merged(p, donor, tgt)
BY DEF Merged

\* The merged texts are texts again.
LEMMA MarkerMeaning ==
    ASSUME NEW p \in Pol
    PROVE  /\ MarkerLine(p) \in Line
           /\ MarkerLine(p).key \in Semicolon <=> p = Cil
           /\ Declares[MarkerLine(p).key] = {} /\ Uses[MarkerLine(p).key] = {}
<1>1. MarkerKey(p) \in Keys
    BY MarkerAssumption DEF MarkerKey
<1>2. MarkerKey(p) \in Semicolon <=> p = Cil
    BY MarkerAssumption DEF MarkerKey
<1>3. Declares[MarkerKey(p)] = {} /\ Uses[MarkerKey(p)] = {}
    BY MarkerAssumption, PolicyAssumption DEF MarkerKey
<1> QED
    BY <1>1, <1>2, <1>3, PolicyAssumption DEF MarkerLine, Line, Origins

LEMMA MergedIsText ==
    ASSUME NEW p \in Pol, NEW donor \in Text, NEW tgt \in Text
    PROVE  Merged(p, donor, tgt) \in Text
<1>1. MarkerLine(p) \in Line
    BY MarkerMeaning
<1>2. Delta(p, donor, tgt) \subseteq donor
    BY DEF Delta
<1> QED
    BY <1>1, <1>2 DEF Merged, Text

LEMMA AppendedIsText ==
    ASSUME NEW f \in Text
    PROVE  Appended(f) \in Text
BY PlumbingAssumption DEF Appended, Text

\* What merge_policy adds is its marker and statements of the donor whose
\* normalised text neither the baseline nor the target has: no statement of
\* the ROM is repeated, and nothing else enters the file.
THEOREM MergeAddsOnlyLg ==
    ASSUME NEW p, NEW donor, NEW tgt,
           NEW l \in Merged(p, donor, tgt), l \notin tgt
    PROVE  \/ l = MarkerLine(p)
           \/ /\ l \in donor /\ l.key \notin Semicolon
              /\ l.key \notin KeysOf(Baseline[p]) /\ l.key \notin KeysOf(tgt)
BY DEF Merged, Delta

\* A contexts file never gains a line that starts with ';'.  Such a line is
\* an entry there: the whole handle fails to load and the device bootloops.
THEOREM ContextsGainNoSemicolon ==
    ASSUME NEW p \in Pol \ {Cil}, NEW donor, NEW tgt,
           NEW l \in Merged(p, donor, tgt), l.key \in Semicolon
    PROVE  l \in tgt
<1> SUFFICES ASSUME l \notin tgt PROVE FALSE
    OBVIOUS
<1>1. l = MarkerLine(p)
    BY MergeAddsOnlyLg
<1> QED
    BY <1>1, MarkerMeaning

\* No line the merge adds to the CIL declares, in the spelling the tool
\* recognises, a type the target declares: secilc refuses one as a type and an
\* alias.
THEOREM MergeRedeclaresNothing ==
    ASSUME NEW donor, NEW tgt,
           NEW l \in Merged(Cil, donor, tgt), l \notin tgt, l.sp = Plain
    PROVE  Declares[l.key] \cap TypesOf(tgt) = {}
<1>1. CASE l = MarkerLine(Cil)
    BY <1>1, MarkerMeaning, PolicyAssumption
<1>2. CASE l # MarkerLine(Cil)
    BY <1>2 DEF Merged, Delta, Redeclares
<1> QED
    BY <1>1, <1>2

\* Nothing of the donor is left behind: a statement that is not in the merged
\* file is stock, or declares a type the target declares already.
THEOREM MergeComplete ==
    ASSUME NEW p, NEW donor, NEW tgt, ~AlreadyMerged(p, tgt),
           NEW l \in donor, l.key \notin Semicolon
    PROVE  \/ l.key \in KeysOf(Merged(p, donor, tgt))
           \/ l.key \in KeysOf(Baseline[p])
           \/ Redeclares(p, l, tgt)
<1> SUFFICES ASSUME l.key \notin KeysOf(Baseline[p]), ~Redeclares(p, l, tgt)
             PROVE  l.key \in KeysOf(Merged(p, donor, tgt))
    OBVIOUS
<1>1. CASE l.key \in KeysOf(tgt)
    BY <1>1, MergeKeepsTarget DEF KeysOf
<1>2. CASE l.key \notin KeysOf(tgt)
    <2>1. l \in Delta(p, donor, tgt)
        BY <1>2 DEF Delta
    <2>2. l \in Merged(p, donor, tgt)
        BY <2>1 DEF Merged
    <2> QED
        BY <2>2 DEF KeysOf
<1> QED
    BY <1>1, <1>2

\* A second graft with the same donor changes nothing: rerunning the tool on
\* a substrate, or on a partly merged file, does not grow it.
THEOREM MergeIdempotent ==
    ASSUME NEW p, NEW donor, NEW tgt
    PROVE  LET m == Merged(p, donor, tgt)
           IN  Merged(p, donor, m) = m
<1> DEFINE m == Merged(p, donor, tgt)
<1>1. CASE AlreadyMerged(p, tgt) \/ Delta(p, donor, tgt) = {}
    BY <1>1 DEF Merged
<1>2. CASE ~(AlreadyMerged(p, tgt) \/ Delta(p, donor, tgt) = {})
    <2>1. MarkerLine(p) \in m
        BY <1>2 DEF Merged
    <2>2. MarkerKey(p) \in KeysOf(m)
        BY <2>1 DEF KeysOf, MarkerLine
    <2> QED
        BY <2>2 DEF Merged, AlreadyMerged
<1> QED
    BY <1>1, <1>2

\* The appended plumbing rules are appended once.
THEOREM AppendIdempotent ==
    ASSUME NEW f
    PROVE  Appended(Appended(f)) = Appended(f)
BY PlumbingAssumption DEF Appended, KeysOf

\* If LG's policy is closed, the platform declares what the baseline does, and
\* the target's policy is closed, the merged policy is closed: no statement
\* refers to a type that the compile at boot would not find.
THEOREM MergeKeepsClosed ==
    ASSUME NEW p \in Pol, NEW donor \in Text, NEW tgt \in Text, NEW platform,
           Closed(donor, platform), Closed(tgt, platform),
           \A l \in Baseline[p] : Declares[l.key] \subseteq platform,
           ~AlreadyMerged(p, tgt)
    PROVE  Closed(Merged(p, donor, tgt), platform)
<1> DEFINE m == Merged(p, donor, tgt)
           Declared(f) == UNION {Declares[l.key] : l \in f}
<1> SUFFICES ASSUME NEW l \in m, NEW t \in Uses[l.key], t \notin platform
             PROVE  t \in Declared(m)
    BY DEF Closed
<1>0. tgt \subseteq m
    BY MergeKeepsTarget
<1>1. CASE l \in tgt
    <2>1. t \in Declared(tgt)
        BY <1>1 DEF Closed
    <2> QED
        BY <2>1, <1>0
<1>2. CASE l = MarkerLine(p)
    BY <1>2, MarkerMeaning
<1>3. CASE l \in donor
    <2>1. PICK d \in donor : t \in Declares[d.key]
        BY <1>3 DEF Closed
    <2>2. d.key \in Keys /\ d.key \notin Semicolon
        BY <2>1, PolicyAssumption DEF Text, Line
    <2>3. CASE d.key \in KeysOf(m)
        <3>1. PICK e \in m : e.key = d.key
            BY <2>3 DEF KeysOf
        <3> QED
            BY <3>1, <2>1
    <2>4. CASE d.key \in KeysOf(Baseline[p])
        BY <2>4, <2>1 DEF KeysOf
    <2>5. CASE Redeclares(p, d, tgt)
        \* a line declares one type, so the one in the target is t
        <3>1. PICK u \in Declares[d.key] : u \in TypesOf(tgt)
            BY <2>5 DEF Redeclares
        <3>2. u = t
            BY <3>1, <2>1, <2>2, PolicyAssumption
        <3>3. PICK e \in tgt : u \in Declares[e.key]
            BY <3>1 DEF TypesOf
        <3> QED
            BY <3>2, <3>3, <1>0
    <2> QED
        BY <2>2, <2>3, <2>4, <2>5, MergeComplete
<1> QED
    BY <1>1, <1>2, <1>3, MergeAddsOnlyLg
-----------------------------------------------------------------------------
(* The run.                                                                *)

\* The paths whose graft, or merge, is behind the run.
GraftedSoFar ==
    CASE pc = "graft" -> {Bin[k] : k \in 1 .. (i - 1)}
      [] pc = "list" -> BinPaths
      [] pc = "certs" -> BinPaths \cup {certs[k] : k \in 1 .. (i - 1)}
      [] pc \in {"merge", "append", "ok"} -> Grafted(lg)
      [] OTHER -> {}
MergedSoFar ==
    CASE pc = "merge" -> {PolSeq[k] : k \in 1 .. (i - 1)}
      [] pc \in {"append", "ok"} -> Pol
      [] OTHER -> {}

Expected(p) ==
    CASE pc = "ok" -> Intended(los, lg)[p]
      [] pc # "ok" /\ p \in MergedSoFar -> PolicyOf(p, los, lg)
      [] pc # "ok" /\ p \notin MergedSoFar /\ p \in GraftedSoFar -> lg[p].content
      [] OTHER -> los[p].content

AsExpected ==
    pc \in (Steps \ {"input"}) \cup {"ok"} =>
        \A p \in Files \ unread : out[p].content = Expected(p)

\* The position is inside the list the step goes through.
InRange ==
    /\ pc = "mkdir" => i \in 1 .. 2
    /\ pc = "graft" => i \in 1 .. Len(Bin)
    /\ pc = "certs" => i \in 1 .. Len(certs)
    /\ pc = "merge" => i \in 1 .. Len(PolSeq)

\* A certificate that was not listed counts as not read.
CertsListed ==
    pc = "certs" =>
        /\ NamesIn(certs) \subseteq NamesIn(ListDir[lg])
        /\ NamesIn(ListDir[lg]) \subseteq NamesIn(certs) \cup unread

\* A merged policy file is a whole file.
MergedWhole ==
    \A p \in MergedSoFar : PolicyOf(p, los, lg).is = "file"

\* A policy file whose merge is to come is as the ROM has it.
Unmerged ==
    pc \in Steps \ {"input"} => \A p \in Pol \ MergedSoFar : out[p] = los[p]

\* No grafted binary or library is empty.
NotEmpty ==
    \A p \in Required \cap GraftedSoFar : ~NoText(out[p].content)

\* debugfs sets the fields and labels it is told to, or says so.
FieldsAreSet == Silent \cap {"set_inode_field", "ea_set"} = {}

\* Whose label a policy file has.
From(p) == IF NoText(los[p].content) THEN lg ELSE los

\* Modes and labels, which no read-back checks.
Usable ==
    /\ \A p \in GraftedSoFar \ unread :
          /\ out[p].mode = ModeOf(p)
          /\ p \in unlabelled \/ lg[p].label \in {NoLabel, out[p].label}
    /\ \A p \in MergedSoFar \ (unread \cup unlabelled) :
          From(p)[p].label \in {NoLabel, out[p].label}

SoFar == AsExpected /\ MergedWhole /\ NotEmpty /\ (FieldsAreSet => Usable)
Position == InRange /\ CertsListed /\ Unmerged
IInv == TypeOK /\ Position /\ SoFar

-----------------------------------------------------------------------------
(* Images and slots.                                                       *)

LEMMA InputsAreImages ==
    /\ \A b \in BaseImages : b \in Image
    /\ \A d \in DonorImages : d \in Image
BY InputAssumption DEF Wellformed

LEMMA WholeFile ==
    ASSUME NEW c \in Contents, c.is = "file"
    PROVE  c = File(c.text)
BY DEF Contents, File

LEMMA TextMeansFile ==
    ASSUME NEW img, Wellformed(img), NEW p \in Pol, ~NoText(img[p].content)
    PROVE  img[p].content.is = "file"
<1>1. p \in Paths \ Dirs
    BY PathAssumption DEF Paths
<1> QED
    BY <1>1 DEF Wellformed, NoText, Missing

LEMMA ModeTypes ==
    /\ FileMode \in Modes /\ DirMode \in Modes /\ RawMode \in Modes
    /\ \A p \in BinPaths \cup CertPaths \cup Pol : ModeOf(p) \in Modes
BY DEF Modes, ModeOf

\* A read or a write that stops early leaves a content, and nothing that was
\* not there.
LEMMA CutTypes ==
    ASSUME NEW c \in Contents
    PROVE  /\ CutShort(c) \subseteq Contents
           /\ \A v \in CutShort(c) : v.text \subseteq c.text
           /\ Dumped(c) \subseteq Contents
           /\ \A v \in Dumped(c) : v.text \subseteq c.text
<1>1. c.text \in Text
    BY DEF Contents
<1>2. \A h : File(c.text \cap h) \in Contents /\ File(c.text \cap h).text \subseteq c.text
    BY <1>1 DEF File, Contents, Text
<1>3. CutShort(c) \subseteq Contents /\ \A v \in CutShort(c) : v.text \subseteq c.text
    BY <1>2 DEF CutShort
<1>4. Missing \in Contents /\ Missing.text = {}
    BY DEF Missing, Contents, Text
<1> QED
    BY <1>3, <1>4 DEF Dumped

LEMMA LabelTypes ==
    ASSUME NEW label \in Labels \cup {NoLabel}
    PROVE  LabelRead(label) \subseteq Labels \cup {NoLabel}
BY DEF LabelRead

LEMMA SlotTypes ==
    ASSUME NEW s \in Slot, NEW p \in Paths, NEW c \in Contents,
           NEW m \in Modes, NEW lb \in Labels \cup {NoLabel}
    PROVE  /\ Removed(s) \subseteq Slot
           /\ Written(p, s, c) \subseteq Slot
           /\ FieldsSet(s, m) \subseteq Slot
           /\ Labelled(s, lb) \subseteq Slot
<1>1. Absent \in Slot
    BY ModeTypes DEF Absent, Slot, Contents, Missing, Text
<1>2. \A x \in Contents :
          [content |-> x, mode |-> RawMode, label |-> NoLabel] \in Slot
    BY ModeTypes DEF Slot
<1>3. CutShort(c) \subseteq Contents
    BY CutTypes
<1>4. [s EXCEPT !.mode = m] \in Slot /\ [s EXCEPT !.label = lb] \in Slot
    BY DEF Slot
<1>5. \A cmd : OrSilently(cmd, s) \subseteq {s}
    BY DEF OrSilently
<1>6. Removed(s) \subseteq Slot
    BY <1>1, <1>5 DEF Removed
<1>7. Written(p, s, c) \subseteq Slot
    BY <1>2, <1>3 DEF Written, OrSilently
<1>8. FieldsSet(s, m) \subseteq Slot
    BY <1>4, <1>5 DEF FieldsSet
<1>9. Labelled(s, lb) \subseteq Slot
    BY <1>4, <1>5 DEF Labelled
<1> QED
    BY <1>6, <1>7, <1>8, <1>9

LEMMA RewriteTypes ==
    ASSUME TypeOK, NEW p \in Paths, NEW c \in Contents,
           NEW m \in Modes, NEW lb \in Labels \cup {NoLabel}
    PROVE  Rewrites(p, c, m, lb) \subseteq Slot
<1>1. out[p] \in Slot
    BY DEF TypeOK, Image
<1> SUFFICES ASSUME NEW x \in Rewrites(p, c, m, lb) PROVE x \in Slot
    OBVIOUS
<1>2. PICK u \in Removed(out[p]) : \E t \in Written(p, u, c) :
          \E s \in FieldsSet(t, m) : x \in Labelled(s, lb)
    BY DEF Rewrites
<1>3. u \in Slot
    BY <1>1, <1>2, SlotTypes
<1>4. PICK t \in Written(p, u, c) : \E s \in FieldsSet(t, m) : x \in Labelled(s, lb)
    BY <1>2
<1>5. t \in Slot
    BY <1>3, <1>4, SlotTypes
<1>6. PICK s \in FieldsSet(t, m) : x \in Labelled(s, lb)
    BY <1>4
<1>7. s \in Slot
    BY <1>5, <1>6, SlotTypes
<1> QED
    BY <1>6, <1>7, SlotTypes

\* A path of the intended content then has the mode and label it was given.
LEMMA RewriteFields ==
    ASSUME FieldsAreSet, TypeOK, NEW p \in Paths, NEW c \in Contents,
           NEW m \in Modes, NEW lb \in Labels \cup {NoLabel},
           NEW x \in Rewrites(p, c, m, lb), x.content = c, c # Missing
    PROVE  x.mode = m /\ lb \in {NoLabel, x.label}
<1>1. out[p] \in Slot
    BY DEF TypeOK, Image
<1>2. PICK u \in Removed(out[p]) : \E t \in Written(p, u, c) :
          \E s \in FieldsSet(t, m) : x \in Labelled(s, lb)
    BY DEF Rewrites
<1>3. u \in Slot
    BY <1>1, <1>2, SlotTypes
<1>4. PICK t \in Written(p, u, c) : \E s \in FieldsSet(t, m) : x \in Labelled(s, lb)
    BY <1>2
<1>5. t \in Slot
    BY <1>3, <1>4, SlotTypes
<1>6. PICK s \in FieldsSet(t, m) : x \in Labelled(s, lb)
    BY <1>4
<1>7. s \in Slot
    BY <1>5, <1>6, SlotTypes
<1>8. x.content = s.content /\ s.content = t.content
    BY <1>5, <1>6, <1>7 DEF Labelled, FieldsSet, OrSilently, Slot
<1>9. s = [t EXCEPT !.mode = m]
    BY <1>6, <1>8 DEF FieldsSet, OrSilently, FieldsAreSet
<1>10. lb = NoLabel \/ x = [s EXCEPT !.label = lb]
    BY <1>6, <1>8 DEF Labelled, OrSilently, FieldsAreSet
<1> QED
    BY <1>5, <1>6, <1>7, <1>8, <1>9, <1>10 DEF Labelled, Slot

\* What is left of path p, and of the history, when graft or a rewrite of p
\* is over.
Touched(p) ==
    /\ out' \in Image
    /\ \A q \in Paths \ {p} : out'[q] = out[q]
    /\ unread \subseteq unread' /\ unread' \subseteq unread \cup {p}
    /\ unlabelled \subseteq unlabelled' /\ unlabelled' \subseteq unlabelled \cup {p}

\* Path p has content c, mode m and the label it is to have, as far as the
\* reads allow to say so.
Settled(p, c, m, label) ==
    p \notin unread' =>
        /\ out'[p].content = c
        /\ FieldsAreSet => /\ out'[p].mode = m
                           /\ p \in unlabelled' \/ label \in {NoLabel, out'[p].label}

\* Rewriting a path touches no other, and lets the run go on only if the
\* content read back is the one intended.
LEMMA RewriteStep ==
    ASSUME TypeOK, NEW p \in Paths, NEW c \in Contents,
           NEW m \in Modes, NEW label \in Labels \cup {NoLabel},
           NEW whole, NEW length, NEW step,
           RewriteAndVerify(p, c, m, label, whole, length, step)
    PROVE  /\ Touched(p)
           /\ \/ Fail
              \/ /\ Advance(length, step)
                 /\ c.text \subseteq out'[p].content.text
                 /\ p \notin unread' => whole
                 /\ Settled(p, c, m, label)
<1> DEFINE Done(lb, s, v) ==
              /\ out' = [out EXCEPT ![p] = s]
              /\ Noted(p, whole /\ v = s.content, lb = label)
              /\ IF c # Missing /\ v = c THEN Advance(length, step) ELSE Fail
<1>1. PICK lb \in LabelRead(label) : \E s \in Rewrites(p, c, m, lb) :
          \E v \in Dumped(s.content) : Done(lb, s, v)
    BY DEF RewriteAndVerify
<1>2. lb \in Labels \cup {NoLabel}
    BY LabelTypes
<1>3. PICK s \in Rewrites(p, c, m, lb) : \E v \in Dumped(s.content) : Done(lb, s, v)
    BY <1>1
<1>4. PICK v \in Dumped(s.content) : Done(lb, s, v)
    BY <1>3
<1>5. s \in Slot
    BY <1>2, RewriteTypes
<1>6. out \in [Paths -> Slot] /\ out' \in [Paths -> Slot] /\ out'[p] = s
    BY <1>4, <1>5 DEF TypeOK, Image
<1>7. Touched(p)
    BY <1>4, <1>6 DEF Touched, Noted, Image
<1>8. v.text \subseteq s.content.text
    BY <1>5, CutTypes DEF Slot
<1>9. p \notin unread' => whole /\ v = s.content
    BY <1>4 DEF Noted
<1>10. p \in unlabelled' \/ lb = label
    BY <1>4 DEF Noted
<1>11. ASSUME c # Missing, v = c
      PROVE  Settled(p, c, m, label)
    <2> SUFFICES ASSUME p \notin unread'
                 PROVE  /\ s.content = c
                        /\ FieldsAreSet => s.mode = m /\ lb \in {NoLabel, s.label}
        BY <1>10, <1>6 DEF Settled
    <2>1. s.content = c
        BY <1>9, <1>11
    <2> QED
        BY <1>2, <1>11, <2>1, RewriteFields
<1> QED
    BY <1>4, <1>7, <1>8, <1>9, <1>11, <1>6

LEMMA InputSlots ==
    ASSUME NEW img \in Image, NEW p \in Paths
    PROVE  img[p] \in Slot /\ img[p].content \in Contents
           /\ img[p].mode \in Modes /\ img[p].label \in Labels \cup {NoLabel}
BY DEF Image, Slot

\* A graft that lets the run go on has put the donor's file there, and a
\* binary or library that is not empty.
LEMMA GraftStep ==
    ASSUME TypeOK, NEW p \in BinPaths \cup CertPaths \cup Pol, p \in Paths,
           NEW whole, NEW length, NEW step, GraftPath(p, whole, length, step)
    PROVE  /\ Touched(p)
           /\ \/ Fail
              \/ /\ Advance(length, step)
                 /\ p \in Required => ~NoText(out'[p].content)
                 /\ p \notin unread' => whole
                 /\ Settled(p, lg[p].content, ModeOf(p), lg[p].label)
<1>1. lg \in Image /\ out \in Image
    BY InputsAreImages DEF TypeOK
<1>2. lg[p].content \in Contents /\ lg[p].label \in Labels \cup {NoLabel}
    BY <1>1, InputSlots
<1>3. PICK c \in Dumped(lg[p].content) :
          LET all == whole /\ c = lg[p].content
          IN  IF p \in Required /\ NoText(c)
              THEN Fail /\ out' = out /\ Noted(p, all, TRUE)
              ELSE RewriteAndVerify(p, c, ModeOf(p), lg[p].label, all, length, step)
    BY DEF GraftPath
<1> DEFINE all == whole /\ c = lg[p].content
<1>4. c \in Contents
    BY <1>2, CutTypes
<1>5. CASE Fail /\ out' = out /\ Noted(p, all, TRUE)
    BY <1>1, <1>5 DEF Touched, Noted
<1>6. CASE /\ ~(p \in Required /\ NoText(c))
           /\ RewriteAndVerify(p, c, ModeOf(p), lg[p].label, all, length, step)
    <2>1. ModeOf(p) \in Modes
        BY ModeTypes
    <2> HIDE DEF all
    <2>2. /\ Touched(p)
          /\ \/ Fail
             \/ /\ Advance(length, step)
                /\ c.text \subseteq out'[p].content.text
                /\ p \notin unread' => all
                /\ Settled(p, c, ModeOf(p), lg[p].label)
        BY <1>2, <1>4, <1>6, <2>1, RewriteStep
    <2>3. p \in Required /\ c.text \subseteq out'[p].content.text => ~NoText(out'[p].content)
        BY <1>6 DEF NoText
    <2>4. all => c = lg[p].content /\ whole
        BY DEF all
    <2> QED
        BY <2>2, <2>3, <2>4 DEF Settled
<1> QED
    BY <1>3, <1>5, <1>6

-----------------------------------------------------------------------------
(* The lists the run goes through.                                         *)

LEMMA BinType ==
    /\ Len(Bin) \in Nat \ {0}
    /\ BinPaths = {Bin[k] : k \in 1 .. Len(Bin)}
<1>1. Bin \in Seq(BinPaths) /\ Bin # << >>
    BY PathAssumption
<1>2. DOMAIN Bin = 1 .. Len(Bin) /\ Len(Bin) \in Nat /\ Len(Bin) # 0
    BY <1>1
<1> QED
    BY <1>2 DEF BinPaths

LEMMA CertsType ==
    ASSUME NEW names \in Seq(CertPaths)
    PROVE  /\ Len(names) \in Nat /\ (names # << >> => Len(names) # 0)
           /\ NamesIn(names) = {names[k] : k \in 1 .. Len(names)}
           /\ NamesIn(names) \subseteq CertPaths
BY DEF NamesIn

\* What is grafted are BIN and the donor's certificates.
LEMMA GraftedAre ==
    ASSUME NEW d \in DonorImages
    PROVE  Grafted(d) = BinPaths \cup NamesIn(ListDir[d])
<1> DEFINE B == Bin
           L == ListDir[d]
           J == Jobs(d)
<1>1. B \in Seq(BinPaths \cup CertPaths) /\ L \in Seq(BinPaths \cup CertPaths)
    BY PathAssumption, InputAssumption
<1>2. J = B \o L
    BY DEF Jobs
<1> HIDE DEF B, L, J
<1>3. /\ DOMAIN J = 1 .. Len(B) + Len(L) /\ DOMAIN B = 1 .. Len(B) /\ DOMAIN L = 1 .. Len(L)
      /\ Len(B) \in Nat /\ Len(L) \in Nat
      /\ \A k \in 1 .. Len(B) : J[k] = B[k]
      /\ \A k \in 1 .. Len(L) : J[Len(B) + k] = L[k]
    BY <1>1, <1>2
<1>4. {J[k] : k \in DOMAIN J} = {B[k] : k \in DOMAIN B} \cup {L[k] : k \in DOMAIN L}
    <2>1. PICK b \in Nat : b = Len(B)
        BY <1>3
    <2>2. PICK l \in Nat : l = Len(L)
        BY <1>3
    <2>3. ASSUME NEW k \in DOMAIN J
          PROVE  J[k] \in {B[j] : j \in DOMAIN B} \cup {L[j] : j \in DOMAIN L}
        <3>1. k \in 1 .. b + l
            BY <1>3, <2>1, <2>2, <2>3
        <3>2. k \in 1 .. b \/ (k - b \in 1 .. l /\ k = b + (k - b))
            BY <3>1
        <3> QED
            BY <1>3, <2>1, <2>2, <3>2
    <2>4. \A k \in DOMAIN B : k \in DOMAIN J /\ J[k] = B[k]
        BY <1>3, <2>1, <2>2
    <2>5. \A k \in DOMAIN L : b + k \in DOMAIN J /\ J[b + k] = L[k]
        BY <1>3, <2>1, <2>2
    <2> QED
        BY <2>3, <2>4, <2>5
<1> QED
    BY <1>4 DEF Grafted, BinPaths, NamesIn, B, L, J

LEMMA PathsApart ==
    /\ BinPaths \cup CertPaths \subseteq Paths \ (Pol \cup Dirs \cup {Hash})
    /\ BinPaths \cap CertPaths = {}
    /\ Pol \subseteq Paths \ (Dirs \cup {Hash})
    /\ Dirs \cup {Hash} \subseteq Paths \ Files
    /\ Files \subseteq Paths
    /\ \A d \in DonorImages : Grafted(d) \subseteq BinPaths \cup CertPaths
<1>1. \A d \in DonorImages : Grafted(d) \subseteq BinPaths \cup CertPaths
    BY GraftedAre, CertsType, InputAssumption
<1> QED
    BY <1>1, PathAssumption DEF Paths, Files, Dirs

LEMMA PolSeqType ==
    /\ Len(PolSeq) \in Nat \ {0}
    /\ \A k \in 1 .. Len(PolSeq) : PolSeq[k] \in Pol
    /\ Pol = {PolSeq[k] : k \in 1 .. Len(PolSeq)}
    /\ \A j, k \in 1 .. Len(PolSeq) : PolSeq[j] = PolSeq[k] => j = k
<1>1. PolSeq \in Seq(Pol) /\ DOMAIN PolSeq = 1 .. Len(PolSeq) /\ Len(PolSeq) \in Nat
    BY PathAssumption
<1>2. \E k \in 1 .. Len(PolSeq) : PolSeq[k] = Cil
    BY <1>1, PathAssumption, PolicyAssumption
<1>3. Len(PolSeq) # 0
    BY <1>1, <1>2
<1>4. \A k \in 1 .. Len(PolSeq) : PolSeq[k] \in Pol
    BY <1>1
<1>5. Pol \subseteq {PolSeq[k] : k \in 1 .. Len(PolSeq)}
    BY <1>1, PathAssumption
<1>6. \A j, k \in 1 .. Len(PolSeq) : PolSeq[j] = PolSeq[k] => j = k
    BY <1>1, PathAssumption
<1> QED
    BY <1>1, <1>3, <1>4, <1>5, <1>6

-----------------------------------------------------------------------------
(* Type correctness.                                                       *)

\* Where an action leaves the run, and its image and history.
Placed == pc' \in Steps \cup Ends /\ i' \in Nat \ {0}

LEMMA Moves ==
    ASSUME TypeOK, NEW step \in Steps \cup Ends, NEW length,
           \/ Fail
           \/ Goto(step)
           \/ Advance(length, step)
    PROVE  Placed
BY DEF TypeOK, Placed, Advance, Fail, Goto, Ends

LEMMA TouchedTypes ==
    ASSUME TypeOK, NEW p \in Paths, Touched(p)
    PROVE  out' \in Image /\ unread' \subseteq Paths /\ unlabelled' \subseteq Paths
BY DEF TypeOK, Touched

LEMMA NotedTypes ==
    ASSUME TypeOK, NEW p \in Paths, NEW whole, NEW label,
           out' = out, Noted(p, whole, label)
    PROVE  Touched(p)
BY DEF TypeOK, Touched, Noted

\* What each step of the three lists does to its path.
LEMMA GraftBinStep ==
    ASSUME TypeOK, InRange, GraftBin
    PROVE  /\ Bin[i] \in BinPaths /\ Bin[i] \in Paths /\ Touched(Bin[i])
           /\ \/ Fail
              \/ /\ Advance(Len(Bin), "list")
                 /\ Bin[i] \in Required => ~NoText(out'[Bin[i]].content)
                 /\ Settled(Bin[i], lg[Bin[i]].content, ModeOf(Bin[i]), lg[Bin[i]].label)
<1> DEFINE p == Bin[i]
           n == Len(Bin)
<1>1. p \in BinPaths /\ p \in Paths
    BY BinType, PathsApart DEF GraftBin, InRange
<1>2. GraftPath(p, TRUE, n, "list")
    BY DEF GraftBin
<1> HIDE DEF p, n
<1>3. p \in BinPaths \cup CertPaths \cup Pol
    BY <1>1
<1>4. /\ Touched(p)
      /\ \/ Fail
         \/ /\ Advance(n, "list")
            /\ p \in Required => ~NoText(out'[p].content)
            /\ Settled(p, lg[p].content, ModeOf(p), lg[p].label)
    BY <1>1, <1>2, <1>3, GraftStep
<1> QED
    BY <1>1, <1>4 DEF p, n

LEMMA GraftCertStep ==
    ASSUME TypeOK, InRange, GraftCert
    PROVE  /\ certs[i] \in CertPaths /\ certs[i] \in Paths /\ Touched(certs[i])
           /\ \/ Fail
              \/ /\ Advance(Len(certs), "merge")
                 /\ Settled(certs[i], lg[certs[i]].content, ModeOf(certs[i]), lg[certs[i]].label)
<1> DEFINE p == certs[i]
           n == Len(certs)
<1>1. p \in CertPaths /\ p \in Paths
    BY CertsType, PathsApart DEF GraftCert, InRange, TypeOK
<1>2. GraftPath(p, TRUE, n, "merge")
    BY DEF GraftCert
<1> HIDE DEF p, n
<1>3. p \in BinPaths \cup CertPaths \cup Pol
    BY <1>1
<1>4. /\ Touched(p)
      /\ \/ Fail
         \/ /\ Advance(n, "merge")
            /\ Settled(p, lg[p].content, ModeOf(p), lg[p].label)
    BY <1>1, <1>2, <1>3, GraftStep
<1> QED
    BY <1>1, <1>4 DEF p, n

\* The merge under way is the first of its file.
LEMMA NextIsUnmerged ==
    ASSUME InRange, Unmerged, pc = "merge"
    PROVE  /\ MergedSoFar = {PolSeq[k] : k \in 1 .. (i - 1)}
           /\ PolSeq[i] \in Pol /\ PolSeq[i] \notin MergedSoFar
           /\ out[PolSeq[i]] = los[PolSeq[i]]
<1>1. i \in 1 .. Len(PolSeq) /\ Len(PolSeq) \in Nat
    BY PolSeqType DEF InRange
<1>2. MergedSoFar = {PolSeq[k] : k \in 1 .. (i - 1)}
    BY DEF MergedSoFar
<1>3. \A k \in 1 .. (i - 1) : k \in 1 .. Len(PolSeq) /\ k # i
    BY <1>1
<1>4. PolSeq[i] \in Pol /\ PolSeq[i] \notin MergedSoFar
    BY <1>1, <1>2, <1>3, PolSeqType
<1> QED
    BY <1>2, <1>4 DEF Unmerged, Steps

\* A policy file that still is the ROM's has its merge, and the label of the
\* ROM's or the donor's file, if both were read to their end.
LEMMA MergeStep ==
    ASSUME TypeOK, InRange, Merge, out[PolSeq[i]] = los[PolSeq[i]]
    PROVE  LET p == PolSeq[i]
               from == From(p)
           IN  /\ p \in Pol /\ p \in Paths /\ Touched(p)
               /\ \/ Fail
                  \/ /\ Advance(Len(PolSeq), "append")
                     /\ PolicyOf(p, los, lg).is = "file"
                     /\ p \notin unread' =>
                           /\ out'[p].content = PolicyOf(p, los, lg)
                           /\ FieldsAreSet => \/ p \in unlabelled'
                                              \/ from[p].label \in {NoLabel, out'[p].label}
<1> DEFINE p == PolSeq[i]
           n == Len(PolSeq)
           from == From(p)
           c == PolicyOf(p, los, lg)
<1>1. p \in Pol /\ p \in Paths /\ p \in BinPaths \cup CertPaths \cup Pol
    BY PolSeqType, PathsApart DEF Merge, InRange
<1>2. /\ lg \in Image /\ out \in Image /\ Wellformed(lg) /\ Wellformed(los)
      /\ lg[p].content \in Contents /\ out[p].content \in Contents
      /\ out[p].label \in Labels \cup {NoLabel}
    BY <1>1, InputAssumption, InputSlots, InputsAreImages DEF TypeOK
<1> DEFINE Merges(tgt, donor) ==
              LET whole == tgt = out[p].content /\ donor = lg[p].content
                  new == Merged(p, donor.text, tgt.text)
              IN  IF p \notin DOMAIN Baseline \/ NoText(donor)
                  THEN Fail /\ out' = out /\ Noted(p, whole, TRUE)
                  ELSE IF NoText(tgt)
                  THEN GraftPath(p, whole, n, "append")
                  ELSE IF new = tgt.text
                  THEN Advance(n, "append") /\ out' = out /\ Noted(p, whole, TRUE)
                  ELSE RewriteAndVerify(p, File(new), FileMode, out[p].label, whole,
                                        n, "append")
<1>3. PICK tgt \in Dumped(out[p].content), donor \in Dumped(lg[p].content) :
          Merges(tgt, donor)
    BY DEF Merge
<1> DEFINE whole == tgt = out[p].content /\ donor = lg[p].content
           new == Merged(p, donor.text, tgt.text)
<1>4. out[p] = los[p]
    OBVIOUS
<1>5. /\ tgt \in Contents /\ donor \in Contents
      /\ tgt.text \subseteq out[p].content.text /\ donor.text \subseteq lg[p].content.text
    BY <1>2, CutTypes
<1>6. ~NoText(donor) => c.is = "file"
    BY <1>1, <1>2, <1>5, TextMeansFile DEF PolicyOf, NoText, File
<1>7. CASE Fail /\ out' = out /\ Noted(p, whole, TRUE)
    BY <1>1, <1>7, NotedTypes
<1>8. CASE ~NoText(donor) /\ NoText(tgt) /\ GraftPath(p, whole, n, "append")
    <2> HIDE DEF p, n, whole
    <2>1. /\ Touched(p)
          /\ \/ Fail
             \/ /\ Advance(n, "append")
                /\ p \notin unread' => whole
                /\ Settled(p, lg[p].content, ModeOf(p), lg[p].label)
        BY <1>1, <1>8, GraftStep
    <2>2. whole => NoText(los[p].content)
        BY <1>4, <1>8 DEF whole, NoText
    <2>3. NoText(los[p].content) => c = lg[p].content /\ from = lg
        BY DEF PolicyOf, From
    <2>4. c.is = "file"
        BY <1>6, <1>8
    <2>5. \/ Fail
          \/ /\ Advance(n, "append")
             /\ p \notin unread' =>
                   /\ out'[p].content = c
                   /\ FieldsAreSet => \/ p \in unlabelled'
                                      \/ from[p].label \in {NoLabel, out'[p].label}
        <3> HIDE DEF c, from
        <3> QED
            BY <2>1, <2>2, <2>3 DEF Settled
    <2> QED
        BY <1>1, <2>1, <2>4, <2>5 DEF p, n
<1>9. ASSUME ~NoText(donor), ~NoText(tgt), whole
      PROVE  c = File(new) /\ from = los /\ out[p].content = File(tgt.text)
    <2>1. ~NoText(los[p].content) /\ tgt = los[p].content /\ donor = lg[p].content
        BY <1>4, <1>9 DEF NoText
    <2>2. tgt = File(tgt.text)
        BY <1>1, <1>2, <1>5, <2>1, TextMeansFile, WholeFile
    <2> QED
        BY <1>4, <2>1, <2>2 DEF PolicyOf, From
<1>10. CASE /\ ~NoText(donor) /\ ~NoText(tgt) /\ new = tgt.text
            /\ Advance(n, "append") /\ out' = out /\ Noted(p, whole, TRUE)
    <2> HIDE DEF p, n, new, whole, from, c
    <2>1. p \notin unread' => whole
        BY <1>10 DEF Noted
    <2>2. whole => out'[p].content = c /\ from[p].label = out'[p].label
        BY <1>4, <1>9, <1>10
    <2>3. Touched(p)
        BY <1>1, <1>10, NotedTypes
    <2>4. c.is = "file"
        BY <1>6, <1>10
    <2> QED
        BY <1>1, <1>10, <2>1, <2>2, <2>3, <2>4 DEF p, n, from, c
<1>11. CASE /\ ~NoText(donor) /\ ~NoText(tgt)
            /\ RewriteAndVerify(p, File(new), FileMode, out[p].label, whole, n, "append")
    <2>1. File(new) \in Contents /\ FileMode \in Modes
        BY <1>1, <1>5, MergedIsText, ModeTypes DEF Contents, File
    <2> HIDE DEF p, n, new, whole, from, c
    <2>2. /\ Touched(p)
          /\ \/ Fail
             \/ /\ Advance(n, "append")
                /\ p \notin unread' => whole
                /\ Settled(p, File(new), FileMode, out[p].label)
        BY <1>1, <1>2, <1>11, <2>1, RewriteStep
    <2>3. whole => c = File(new) /\ from = los
        BY <1>9, <1>11
    <2>4. c.is = "file"
        BY <1>6, <1>11
    <2> QED
        BY <1>1, <1>4, <2>2, <2>3, <2>4 DEF Settled, p, n, from, c
<1> QED
    BY <1>3, <1>7, <1>8, <1>10, <1>11

\* The last file of the run, and the end of it.
LEMMA AppendStep ==
    ASSUME TypeOK, AppendCil
    PROVE  LET after == File(Appended(out[Cil].content.text))
           IN  /\ Cil \in Pol /\ Cil \in Paths /\ Touched(Cil)
               /\ \/ Fail
                  \/ /\ Goto("ok")
                     /\ Cil \notin unread' =>
                           /\ out[Cil].content.is = "file" => out'[Cil].content = after
                           /\ FieldsAreSet => \/ Cil \in unlabelled'
                                              \/ out[Cil].label \in {NoLabel, out'[Cil].label}
<1>1. Cil \in Pol /\ Cil \in Paths
    BY PolicyAssumption, PathsApart
<1>2. out[Cil].content \in Contents /\ out[Cil].label \in Labels \cup {NoLabel}
    BY <1>1, InputSlots DEF TypeOK
<1> DEFINE text == out[Cil].content.text
           goal(l) == File(Appended(l))
<1>3. PICK before \in Dumped(out[Cil].content) :
        LET whole == before = out[Cil].content
            after == File(Appended(before.text))
        IN  IF before = Missing
            THEN Fail /\ out' = out /\ Noted(Cil, whole, TRUE)
            ELSE IF PlumbingKey \in KeysOf(before.text)
            THEN Goto("ok") /\ out' = out /\ Noted(Cil, whole, TRUE)
            ELSE \/ RewriteAndVerify(Cil, after, FileMode, out[Cil].label, whole, 1, "ok")
                 \/ /\ FallsShort("ea_get")
                    /\ \E s \in Rewrites(Cil, after, FileMode, NoLabel) :
                          out' = [out EXCEPT ![Cil] = s]
                    /\ Fail /\ Noted(Cil, whole, FALSE)
    BY DEF AppendCil
<1> DEFINE whole == before = out[Cil].content
           after == File(Appended(before.text))
<1>4. before \in Contents
    BY <1>2, CutTypes
<1>5. after \in Contents /\ FileMode \in Modes
    BY <1>4, AppendedIsText, ModeTypes DEF Contents, File
<1>6. CASE Fail /\ out' = out /\ Noted(Cil, whole, TRUE)
    BY <1>1, <1>6, NotedTypes
<1>7. CASE /\ PlumbingKey \in KeysOf(before.text)
           /\ Goto("ok") /\ out' = out /\ Noted(Cil, whole, TRUE)
    <2>1. Touched(Cil)
        BY <1>1, <1>7, NotedTypes
    <2>2. Cil \notin unread' => whole
        BY <1>7 DEF Noted
    <2>3. whole /\ out[Cil].content.is = "file" => out[Cil].content = File(Appended(text))
        BY <1>2, <1>7, WholeFile DEF Appended
    <2> QED
        BY <1>1, <1>7, <2>1, <2>2, <2>3
<1>8. CASE RewriteAndVerify(Cil, after, FileMode, out[Cil].label, whole, 1, "ok")
    <2>1. whole => after = File(Appended(text))
        OBVIOUS
    <2> HIDE DEF after, whole
    <2>2. /\ Touched(Cil)
          /\ \/ Fail
             \/ /\ Advance(1, "ok")
                /\ Cil \notin unread' => whole
                /\ Settled(Cil, after, FileMode, out[Cil].label)
        BY <1>1, <1>2, <1>5, <1>8, RewriteStep
    <2>3. Advance(1, "ok") => Goto("ok")
        BY DEF TypeOK, Advance
    <2> QED
        BY <1>1, <2>1, <2>2, <2>3 DEF Settled
<1>9. CASE /\ \E s \in Rewrites(Cil, after, FileMode, NoLabel) :
                 out' = [out EXCEPT ![Cil] = s]
           /\ Fail /\ Noted(Cil, whole, FALSE)
    <2>1. PICK s \in Rewrites(Cil, after, FileMode, NoLabel) : out' = [out EXCEPT ![Cil] = s]
        BY <1>9
    <2>2. s \in Slot
        BY <1>1, <1>5, RewriteTypes
    <2>3. Touched(Cil)
        BY <1>1, <1>9, <2>1, <2>2 DEF Touched, Noted, TypeOK, Image
    <2> QED
        BY <1>1, <1>9, <2>3
<1> QED
    BY <1>3, <1>6, <1>7, <1>8, <1>9

LEMMA TypeStep ==
    ASSUME IInv, [Next]_vars
    PROVE  TypeOK'
<1> USE DEF TypeOK, IInv, Position
<1>1. TypeOK
    OBVIOUS
<1>2. ASSUME NEW p \in Paths, Touched(p)
      PROVE  out' \in Image /\ unread' \subseteq Paths /\ unlabelled' \subseteq Paths
    BY <1>1, <1>2, TouchedTypes
<1>3. CASE Start
    BY <1>3 DEF Start, Goto, Steps
<1>4. CASE MissingInput
    BY <1>4 DEF MissingInput, Fail, Goto, Ends, inputs, reads
<1>5. CASE CopyBase
    BY <1>5, InputsAreImages DEF CopyBase, Goto, Steps, inputs, reads
<1>6. CASE EnsureHeadroom
    BY <1>6 DEF EnsureHeadroom, Fail, Goto, Steps, Ends, inputs, reads
<1>7. CASE RemoveHash
    <2>1. Hash \in Paths
        BY PathsApart
    <2>2. Removed(out[Hash]) \subseteq Slot
        <3>1. out[Hash] \in Slot
            BY <2>1, InputSlots
        <3> QED
            BY <3>1, ModeTypes DEF Removed, OrSilently, Absent, Slot, Contents, Missing, Text
    <2> QED
        BY <1>7, <2>1, <2>2 DEF RemoveHash, Goto, Steps, Image, inputs, reads
<1>8. CASE MkdirLike
    <2>1. DirSeq[i] \in Dirs /\ DirSeq[i] \in Paths
        BY <1>8, PathsApart DEF MkdirLike, InRange, DirSeq, Dirs
    <2>2. out[DirSeq[i]] \in Slot /\ LabelRead(lg[DirSeq[i]].label) \subseteq Labels \cup {NoLabel}
        BY <2>1, InputSlots, InputsAreImages, LabelTypes
    <2>3. [content |-> Directory, mode |-> RawMode, label |-> NoLabel] \in Slot
        BY ModeTypes DEF Slot, Contents, Directory, Text
    <2>4. MkdirSlots(DirSeq[i]) \subseteq Slot
        <3>1. ASSUME NEW t \in Slot, NEW s \in FieldsSet(t, DirMode),
                     NEW lb \in Labels \cup {NoLabel}, NEW x \in Labelled(s, lb)
              PROVE  x \in Slot
            <4>1. s \in Slot
                BY <3>1, ModeTypes DEF FieldsSet, OrSilently, Slot
            <4> QED
                BY <3>1, <4>1 DEF Labelled, OrSilently, Slot
        <3> QED
            BY <3>1, <2>2, <2>3 DEF MkdirSlots, OrSilently
    <2>5. out' \in Image
        BY <1>8, <2>1, <2>4 DEF MkdirLike, Image
    <2>6. Placed
        BY <1>1, <1>8, Moves DEF MkdirLike, Steps
    <2> QED
        BY <1>8, <2>5, <2>6 DEF MkdirLike, Placed, inputs, reads
<1>9. CASE GraftBin
    <2>1. Bin[i] \in Paths /\ Touched(Bin[i]) /\ (Fail \/ Advance(Len(Bin), "list"))
        BY <1>1, <1>9, GraftBinStep
    <2>2. Placed
        BY <1>1, <2>1, Moves DEF Steps
    <2> QED
        BY <1>2, <1>9, <2>1, <2>2 DEF GraftBin, Placed, inputs
<1>10. CASE ListCerts
    <2>1. PICK names \in Listed(ListDir[lg]) :
              /\ certs' = names
              /\ unread' = unread \cup (NamesIn(ListDir[lg]) \ NamesIn(names))
              /\ Goto(IF names = << >> THEN "merge" ELSE "certs")
        BY <1>10 DEF ListCerts
    <2>2. ListDir[lg] \in Seq(CertPaths)
        BY InputAssumption
    <2>3. names \in Seq(CertPaths)
        BY <2>2 DEF Listed
    <2>4. NamesIn(ListDir[lg]) \subseteq Paths
        BY <2>2, CertsType, PathsApart
    <2> QED
        BY <1>10, <2>1, <2>3, <2>4 DEF ListCerts, Goto, Steps, inputs
<1>11. CASE GraftCert
    <2>1. certs[i] \in Paths /\ Touched(certs[i]) /\ (Fail \/ Advance(Len(certs), "merge"))
        BY <1>1, <1>11, GraftCertStep
    <2>2. Placed
        BY <1>1, <2>1, Moves DEF Steps
    <2> QED
        BY <1>2, <1>11, <2>1, <2>2 DEF GraftCert, Placed, inputs
<1>12. CASE Merge
    <2>1. /\ PolSeq[i] \in Paths /\ Touched(PolSeq[i])
          /\ Fail \/ Advance(Len(PolSeq), "append")
        <3>1. out[PolSeq[i]] = los[PolSeq[i]]
            BY <1>12, NextIsUnmerged DEF Merge
        <3> QED
            BY <1>1, <1>12, <3>1, MergeStep
    <2>2. Placed
        BY <1>1, <2>1, Moves DEF Steps
    <2> QED
        BY <1>2, <1>12, <2>1, <2>2 DEF Merge, Placed, inputs
<1>13. CASE AppendCil
    <2>1. Cil \in Paths /\ Touched(Cil) /\ (Fail \/ Goto("ok"))
        BY <1>1, <1>13, AppendStep
    <2>2. Placed
        BY <1>1, <2>1, Moves DEF Ends
    <2> QED
        BY <1>2, <1>13, <2>1, <2>2 DEF AppendCil, Placed, inputs
<1>14. CASE Kill
    BY <1>14 DEF Kill, Fail, Goto, Ends, inputs, reads
<1>15. CASE UNCHANGED vars
    BY <1>15 DEF vars
<1> QED
    BY <1>3, <1>4, <1>5, <1>6, <1>7, <1>8, <1>9, <1>10, <1>11, <1>12, <1>13, <1>14, <1>15
    DEF Next, Step

-----------------------------------------------------------------------------
(* The inductive invariant.                                                *)

LEMMA InitIInv == Init => IInv
<1> SUFFICES ASSUME Init PROVE IInv
    OBVIOUS
<1>1. TypeOK
    BY InputsAreImages DEF Init, TypeOK, Ends
<1>2. GraftedSoFar = {} /\ MergedSoFar = {}
    BY DEF Init, GraftedSoFar, MergedSoFar
<1> QED
    BY <1>1, <1>2 DEF Init, IInv, Position, SoFar, AsExpected, InRange, CertsListed,
       MergedWhole, Unmerged, NotEmpty, Usable, Steps

\* A run that has ended, or not copied its base yet, is bound to nothing.
LEMMA NothingExpected ==
    ASSUME pc' \in {"failed", "input", "idle"}
    PROVE  (Position /\ SoFar)'
<1>1. GraftedSoFar' = {} /\ MergedSoFar' = {}
    BY DEF GraftedSoFar, MergedSoFar
<1> QED
    BY <1>1 DEF Position, SoFar, AsExpected, InRange, CertsListed, MergedWhole, Unmerged,
       NotEmpty, Usable, Steps

\* Before the first graft every file still is the base's.
LEMMA BeforeGraft ==
    ASSUME IInv, pc \in {"headroom", "hash", "mkdir"}
    PROVE  /\ \A p \in Files \ unread : out[p].content = los[p].content
           /\ \A p \in Pol : out[p] = los[p]
<1>1. GraftedSoFar = {} /\ MergedSoFar = {} /\ pc # "ok"
    BY DEF GraftedSoFar, MergedSoFar
<1> QED
    BY <1>1 DEF IInv, Position, SoFar, AsExpected, Unmerged, Expected, Steps

LEMMA BeforeGraftNext ==
    ASSUME \/ pc' \in {"headroom", "hash"}
           \/ pc' = "mkdir" /\ i' \in 1 .. 2
           \/ pc' = "graft" /\ i' = 1,
           \A p \in Files \ unread' : out'[p].content = los'[p].content,
           \A p \in Pol : out'[p] = los'[p]
    PROVE  (Position /\ SoFar)'
<1>1. GraftedSoFar' = {} /\ MergedSoFar' = {} /\ pc' # "ok"
    BY DEF GraftedSoFar, MergedSoFar
<1>2. AsExpected' /\ Unmerged'
    BY <1>1 DEF AsExpected, Expected, Unmerged
<1>3. InRange' /\ CertsListed'
    BY BinType DEF InRange, CertsListed
<1>4. MergedWhole' /\ NotEmpty' /\ Usable'
    BY <1>1 DEF MergedWhole, NotEmpty, Usable
<1> QED
    BY <1>2, <1>3, <1>4 DEF Position, SoFar

\* One more path is grafted: what the invariant says before the policy is
\* merged.
GraftsOne(p) ==
    /\ pc \in {"graft", "certs"} /\ pc' \in {"graft", "list", "certs", "merge"}
    /\ pc' = "merge" => i' = 1
    /\ p \in BinPaths \cup CertPaths /\ Touched(p)
    /\ p \in Required => ~NoText(out'[p].content)
    /\ Settled(p, lg[p].content, ModeOf(p), lg[p].label)
    /\ los' = los /\ lg' = lg
    /\ GraftedSoFar' \subseteq BinPaths \cup CertPaths
    /\ \A q \in Files \ unread' : q \in GraftedSoFar' <=> q \in GraftedSoFar \cup {p}
    /\ Required \cap GraftedSoFar' \subseteq GraftedSoFar \cup {p}

LEMMA GraftKeeps ==
    ASSUME IInv, NEW p, GraftsOne(p)
    PROVE  SoFar' /\ Unmerged'
<1> USE DEF GraftsOne
<1>1. MergedSoFar = {} /\ MergedSoFar' = {}
    <2>1. MergedSoFar = {}
        BY DEF MergedSoFar
    <2>2. CASE pc' = "merge"
        BY <2>2 DEF MergedSoFar
    <2>3. CASE pc' # "merge"
        BY <2>3 DEF MergedSoFar
    <2> QED
        BY <2>1, <2>2, <2>3
<1>2. p \in Paths /\ p \notin Pol /\ Files \subseteq Paths /\ Pol \subseteq Paths
    BY PathsApart
<1>3. /\ \A q \in Files \ {p} : out'[q] = out[q]
      /\ unread \subseteq unread' /\ unlabelled \subseteq unlabelled'
    BY <1>2 DEF Touched
<1>4. GraftedSoFar' \subseteq Files
    BY DEF Files
<1>5. AsExpected'
    <2>1. \A q \in Files \ unread : out[q].content =
              IF q \in GraftedSoFar THEN lg[q].content ELSE los[q].content
        BY <1>1 DEF IInv, SoFar, AsExpected, Expected, Steps
    <2>2. ASSUME NEW q \in Files \ unread'
          PROVE  out'[q].content = Expected(q)'
        <3>1. Expected(q)' = IF q \in GraftedSoFar' THEN lg[q].content ELSE los[q].content
            BY <1>1 DEF Expected
        <3> QED
            BY <1>3, <2>1, <3>1 DEF Settled
    <2> QED
        BY <2>2 DEF AsExpected
<1>6. Unmerged'
    BY <1>1, <1>2, <1>3 DEF IInv, Position, Unmerged, Touched, Steps
<1>7. NotEmpty'
    BY <1>1, <1>2, PathsApart, PathAssumption DEF IInv, SoFar, NotEmpty, Touched
<1>8. ASSUME FieldsAreSet
      PROVE  Usable'
    BY <1>1, <1>2, <1>3, <1>4, <1>8 DEF IInv, SoFar, Usable, Settled
<1>9. MergedWhole'
    BY <1>1 DEF MergedWhole
<1> QED
    BY <1>5, <1>6, <1>7, <1>8, <1>9 DEF SoFar, FieldsAreSet

LEMMA GraftBinInv ==
    ASSUME IInv, GraftBin
    PROVE  (Position /\ SoFar)'
<1> DEFINE p == Bin[i]
           n == Len(Bin)
<1>1. TypeOK /\ InRange /\ lg \in DonorImages
    BY DEF IInv, Position, TypeOK
<1>2. /\ p \in BinPaths /\ Touched(p)
      /\ \/ Fail
         \/ /\ Advance(n, "list")
            /\ p \in Required => ~NoText(out'[p].content)
            /\ Settled(p, lg[p].content, ModeOf(p), lg[p].label)
    BY <1>1, GraftBinStep
<1>3. pc = "graft" /\ los' = los /\ lg' = lg /\ certs' = certs /\ i \in 1 .. n
    BY <1>1 DEF GraftBin, inputs, InRange
<1>4. CASE Fail
    BY <1>4, NothingExpected DEF Fail, Goto
<1>5. CASE Advance(n, "list")
    <2>1. GraftedSoFar = {Bin[k] : k \in 1 .. (i - 1)}
        BY <1>3 DEF GraftedSoFar
    <2>2. GraftedSoFar' = GraftedSoFar \cup {p}
        <3>1. CASE i < n
            <4>1. pc' = "graft" /\ i' = i + 1
                BY <1>3, <1>5, <3>1 DEF Advance
            <4> QED
                BY <1>3, <2>1, <4>1 DEF GraftedSoFar
        <3>2. CASE ~(i < n)
            <4>1. pc' = "list"
                BY <1>5, <3>2 DEF Advance, Goto
            <4>2. i = n
                <5>1. n \in Nat
                    BY BinType
                <5> HIDE DEF n
                <5> QED
                    BY <1>3, <3>2, <5>1
            <4> QED
                BY <1>3, <2>1, <4>1, <4>2, BinType DEF GraftedSoFar
        <3> QED
            BY <3>1, <3>2
    <2>3. pc' \in {"graft", "list"} /\ InRange' /\ CertsListed'
        <3>1. CASE i < n
            BY <1>3, <1>5, <3>1, BinType DEF Advance, InRange, CertsListed
        <3>2. CASE ~(i < n)
            BY <1>3, <1>5, <3>2 DEF Advance, Goto, InRange, CertsListed
        <3> QED
            BY <3>1, <3>2
    <2>4. GraftedSoFar' \subseteq BinPaths
        BY <1>2, <1>3, <2>1, <2>2, BinType
    <2>5. CASE Fail
        BY <1>4, <2>5
    <2>6. CASE ~Fail
        <3>1. GraftsOne(p)
            BY <1>2, <1>3, <2>2, <2>3, <2>4, <2>6 DEF GraftsOne
        <3> QED
            BY <2>3, <3>1, GraftKeeps DEF Position
    <2> QED
        BY <2>5, <2>6
<1> QED
    BY <1>2, <1>4, <1>5

LEMMA GraftCertInv ==
    ASSUME IInv, GraftCert
    PROVE  (Position /\ SoFar)'
<1> DEFINE p == certs[i]
           n == Len(certs)
<1>1. TypeOK /\ InRange /\ lg \in DonorImages /\ certs \in Seq(CertPaths)
    BY DEF IInv, Position, TypeOK
<1>2. /\ p \in CertPaths /\ Touched(p)
      /\ \/ Fail
         \/ /\ Advance(n, "merge")
            /\ Settled(p, lg[p].content, ModeOf(p), lg[p].label)
    BY <1>1, GraftCertStep
<1>3. pc = "certs" /\ los' = los /\ lg' = lg /\ certs' = certs /\ i \in 1 .. n
    BY <1>1 DEF GraftCert, inputs, InRange
<1>4. CASE Fail
    BY <1>4, NothingExpected DEF Fail, Goto
<1>5. CASE Advance(n, "merge") /\ ~Fail
    <2>1. GraftedSoFar = BinPaths \cup {certs[k] : k \in 1 .. (i - 1)}
        BY <1>3 DEF GraftedSoFar
    <2>2. n \in Nat /\ NamesIn(certs) = {certs[k] : k \in 1 .. n}
        BY <1>1, CertsType
    <2>3. /\ NamesIn(certs) \subseteq NamesIn(ListDir[lg])
          /\ NamesIn(ListDir[lg]) \subseteq NamesIn(certs) \cup unread
          /\ Grafted(lg) = BinPaths \cup NamesIn(ListDir[lg])
        BY <1>1, <1>3, GraftedAre DEF IInv, Position, CertsListed
    <2>4. unread \subseteq unread'
        BY <1>2 DEF Touched
    <2>5. /\ GraftedSoFar \cup {p} \subseteq GraftedSoFar'
          /\ GraftedSoFar' \subseteq GraftedSoFar \cup {p} \cup unread
          /\ GraftedSoFar' \subseteq BinPaths \cup CertPaths
        <3>1. CASE i < n
            <4>1. pc' = "certs" /\ i' = i + 1
                BY <1>3, <1>5, <3>1 DEF Advance
            <4>2. GraftedSoFar' = BinPaths \cup {certs[k] : k \in 1 .. ((i + 1) - 1)}
                BY <1>3, <4>1 DEF GraftedSoFar
            <4>3. {certs[k] : k \in 1 .. ((i + 1) - 1)} = {certs[k] : k \in 1 .. (i - 1)} \cup {p}
                BY <1>3
            <4>4. {certs[k] : k \in 1 .. (i - 1)} \subseteq CertPaths
                BY <1>1, <1>3
            <4> HIDE DEF p
            <4> QED
                BY <1>2, <2>1, <4>2, <4>3, <4>4
        <3>2. CASE ~(i < n)
            <4>1. pc' = "merge"
                BY <1>5, <3>2 DEF Advance, Goto
            <4>2. i = n
                <5> HIDE DEF n
                <5> QED
                    BY <1>3, <2>2, <3>2
            <4>3. GraftedSoFar' = Grafted(lg)
                BY <1>3, <4>1 DEF GraftedSoFar
            <4>4. NamesIn(certs) = {certs[k] : k \in 1 .. (i - 1)} \cup {p}
                BY <1>3, <2>2, <4>2
            <4>5. Grafted(lg) \subseteq BinPaths \cup CertPaths
                BY <1>1, PathsApart
            <4> HIDE DEF p
            <4> QED
                BY <2>1, <2>3, <4>3, <4>4, <4>5
        <3> QED
            BY <3>1, <3>2
    <2>6. pc' \in {"certs", "merge"} /\ InRange' /\ (pc' = "merge" => i' = 1)
        <3>1. CASE i < n
            BY <1>3, <1>5, <2>2, <3>1 DEF Advance, InRange
        <3>2. CASE ~(i < n)
            BY <1>3, <1>5, <3>2, PolSeqType DEF Advance, Goto, InRange
        <3> QED
            BY <3>1, <3>2
    <2>7. CertsListed'
        BY <1>3, <2>3, <2>4 DEF CertsListed
    <2>8. p \notin Required /\ Required \subseteq BinPaths /\ BinPaths \subseteq GraftedSoFar
        BY <1>2, <2>1, PathsApart, PathAssumption
    <2>9. GraftsOne(p)
        <3> HIDE DEF p, n
        <3> QED
            BY <1>2, <1>3, <1>5, <2>4, <2>5, <2>6, <2>8 DEF GraftsOne
    <2> QED
        BY <2>6, <2>7, <2>9, GraftKeeps DEF Position
<1> QED
    BY <1>2, <1>4, <1>5

\* Listing the certificates grafts nothing, and forgets none that it does not
\* note.
LEMMA ListInv ==
    ASSUME IInv, ListCerts
    PROVE  (Position /\ SoFar)'
<1> DEFINE all == ListDir[lg]
<1>1. /\ pc = "list" /\ los' = los /\ lg' = lg /\ out' = out /\ unlabelled' = unlabelled
      /\ lg \in DonorImages /\ all \in Seq(CertPaths)
    BY InputAssumption DEF ListCerts, inputs, IInv, TypeOK
<1>2. PICK names \in Listed(all) :
          /\ certs' = names
          /\ unread' = unread \cup (NamesIn(all) \ NamesIn(names))
          /\ Goto(IF names = << >> THEN "merge" ELSE "certs")
    BY DEF ListCerts
<1>3. names \in Seq(CertPaths) /\ NamesIn(names) \subseteq NamesIn(all)
    <2>1. Len(all) \in Nat /\ DOMAIN all = 1 .. Len(all)
        BY <1>1
    <2>2. ASSUME NEW k \in 0 .. Len(all)
          PROVE  /\ SubSeq(all, 1, k) \in Seq(CertPaths)
                 /\ NamesIn(SubSeq(all, 1, k)) \subseteq NamesIn(all)
        BY <1>1, <2>1, <2>2 DEF NamesIn
    <2> QED
        BY <1>1, <2>2 DEF Listed
<1>4. GraftedSoFar = BinPaths /\ MergedSoFar = {}
    BY <1>1 DEF GraftedSoFar, MergedSoFar
<1>5. /\ BinPaths \subseteq GraftedSoFar' /\ GraftedSoFar' \subseteq BinPaths \cup CertPaths
      /\ GraftedSoFar' \subseteq BinPaths \cup unread'
      /\ MergedSoFar' = {}
    <2>1. CASE names = << >>
        <3>1. NamesIn(names) = {}
            BY <2>1 DEF NamesIn
        <3>2. pc' = "merge" /\ i' = 1
            BY <1>2, <2>1 DEF Goto
        <3>3. GraftedSoFar' = BinPaths \cup NamesIn(all) /\ NamesIn(all) \subseteq CertPaths
            BY <1>1, <3>2, GraftedAre, CertsType DEF GraftedSoFar
        <3>4. MergedSoFar' = {}
            BY <3>2 DEF MergedSoFar
        <3> QED
            BY <1>2, <3>1, <3>3, <3>4
    <2>2. CASE names # << >>
        <3>1. pc' = "certs" /\ i' = 1
            BY <1>2, <2>2 DEF Goto
        <3>2. GraftedSoFar' = BinPaths
            BY <3>1 DEF GraftedSoFar
        <3>3. MergedSoFar' = {}
            BY <3>1 DEF MergedSoFar
        <3> QED
            BY <3>2, <3>3
    <2> QED
        BY <2>1, <2>2
<1>6. unread \subseteq unread' /\ pc' \in {"certs", "merge"} /\ i' = 1
    BY <1>2 DEF Goto
<1>7. AsExpected'
    <2>1. \A q \in Files \ unread : out[q].content =
              IF q \in BinPaths THEN lg[q].content ELSE los[q].content
        BY <1>1, <1>4 DEF IInv, SoFar, AsExpected, Expected, Steps
    <2>2. ASSUME NEW q \in Files \ unread'
          PROVE  out'[q].content = Expected(q)'
        <3>1. Expected(q)' = IF q \in GraftedSoFar' THEN lg[q].content ELSE los[q].content
            BY <1>1, <1>5, <1>6 DEF Expected
        <3> QED
            BY <1>1, <1>5, <1>6, <2>1, <3>1
    <2> QED
        BY <2>2 DEF AsExpected
<1>8. InRange' /\ CertsListed'
    <2>1. pc' = "certs" => Len(certs') \in Nat \ {0}
        BY <1>2, <1>3, CertsType DEF Goto
    <2> QED
        BY <1>1, <1>2, <1>3, <1>6, <2>1, PolSeqType DEF InRange, CertsListed
<1>9. Unmerged' /\ NotEmpty' /\ MergedWhole'
    BY <1>1, <1>4, <1>5, PathsApart, PathAssumption
    DEF IInv, Position, SoFar, Unmerged, NotEmpty, MergedWhole, Steps
<1>10. ASSUME FieldsAreSet
       PROVE  Usable'
    BY <1>1, <1>4, <1>5, <1>6, <1>10 DEF IInv, SoFar, Usable
<1> QED
    BY <1>7, <1>8, <1>9, <1>10 DEF Position, SoFar, FieldsAreSet

LEMMA MergeInv ==
    ASSUME IInv, Merge
    PROVE  (Position /\ SoFar)'
<1> DEFINE p == PolSeq[i]
           n == Len(PolSeq)
           c == PolicyOf(p, los, lg)
<1>1. /\ TypeOK /\ InRange /\ Unmerged /\ pc = "merge" /\ los' = los /\ lg' = lg
      /\ i \in 1 .. n /\ n \in Nat \ {0} /\ lg \in DonorImages
    BY PolSeqType DEF IInv, Position, TypeOK, InRange, Merge, inputs
<1>2. /\ MergedSoFar = {PolSeq[k] : k \in 1 .. (i - 1)} /\ GraftedSoFar = Grafted(lg)
      /\ p \notin MergedSoFar /\ out[p] = los[p]
    BY <1>1, NextIsUnmerged DEF GraftedSoFar
<1>3. /\ p \in Pol /\ p \in Paths /\ Touched(p)
      /\ \/ Fail
         \/ /\ Advance(n, "append")
            /\ c.is = "file"
            /\ p \notin unread' =>
                  /\ out'[p].content = c
                  /\ FieldsAreSet => \/ p \in unlabelled'
                                     \/ From(p)[p].label \in {NoLabel, out'[p].label}
    BY <1>1, <1>2, MergeStep
<1>4. CASE Fail
    BY <1>4, NothingExpected DEF Fail, Goto
<1>5. CASE Advance(n, "append") /\ ~Fail
    <2>1. MergedSoFar' = MergedSoFar \cup {p}
        <3>1. CASE i < n
            <4>1. pc' = "merge" /\ i' = i + 1
                BY <1>1, <1>5, <3>1 DEF Advance
            <4> QED
                BY <1>1, <1>2, <4>1 DEF MergedSoFar
        <3>2. CASE ~(i < n)
            <4>1. pc' = "append"
                BY <1>5, <3>2 DEF Advance, Goto
            <4>2. i = n
                <5> HIDE DEF n
                <5> QED
                    BY <1>1, <3>2
            <4>3. MergedSoFar' = Pol
                BY <4>1 DEF MergedSoFar
            <4>4. Pol = {PolSeq[k] : k \in 1 .. i}
                BY <4>2, PolSeqType
            <4>5. {PolSeq[k] : k \in 1 .. i} = {PolSeq[k] : k \in 1 .. (i - 1)} \cup {PolSeq[i]}
                BY <1>1
            <4> QED
                BY <1>2, <4>3, <4>4, <4>5
        <3> QED
            BY <3>1, <3>2
    <2>2. pc' \in {"merge", "append"} /\ InRange' /\ CertsListed'
        BY <1>1, <1>5 DEF Advance, Goto, InRange, CertsListed
    <2>3. GraftedSoFar' = Grafted(lg)
        BY <1>1, <2>2 DEF GraftedSoFar
    <2>4. /\ Grafted(lg) \subseteq Files /\ p \notin Grafted(lg) /\ p \in Files
          /\ Files \subseteq Paths /\ Pol \subseteq Paths
        BY <1>1, <1>3, PathsApart DEF Files
    <2>5. /\ \A q \in Paths \ {p} : out'[q] = out[q]
          /\ unread \subseteq unread' /\ unlabelled \subseteq unlabelled'
        BY <1>3 DEF Touched
    <2>6. AsExpected'
        <3>1. \A q \in Files \ unread : out[q].content =
                  IF q \in MergedSoFar THEN PolicyOf(q, los, lg)
                  ELSE IF q \in Grafted(lg) THEN lg[q].content ELSE los[q].content
            BY <1>1, <1>2 DEF IInv, SoFar, AsExpected, Expected, Steps
        <3>2. ASSUME NEW q \in Files \ unread'
              PROVE  out'[q].content = Expected(q)'
            <4>1. Expected(q)' = IF q \in MergedSoFar' THEN PolicyOf(q, los, lg)
                                 ELSE IF q \in Grafted(lg) THEN lg[q].content ELSE los[q].content
                BY <1>1, <2>2, <2>3 DEF Expected
            <4> QED
                BY <1>3, <1>5, <2>1, <2>4, <2>5, <3>1, <4>1
        <3> QED
            BY <3>2 DEF AsExpected
    <2>7. Unmerged'
        BY <1>1, <2>1, <2>4, <2>5 DEF Unmerged, Steps
    <2>8. MergedWhole'
        BY <1>1, <1>3, <1>5, <2>1 DEF IInv, SoFar, MergedWhole
    <2>9. NotEmpty'
        BY <1>2, <2>3, <2>4, <2>5 DEF IInv, SoFar, NotEmpty
    <2>10. ASSUME FieldsAreSet
           PROVE  Usable'
        <3>1. Usable /\ \A q : From(q)' = From(q)
            BY <1>1, <2>10 DEF IInv, SoFar, From
        <3>2. MergedSoFar \subseteq Paths
            <4>1. \A k \in 1 .. (i - 1) : k \in 1 .. n
                BY <1>1
            <4> QED
                BY <1>2, <2>4, <4>1, PolSeqType
        <3>3. \A q \in GraftedSoFar' \ unread' :
                 /\ out'[q].mode = ModeOf(q)
                 /\ q \in unlabelled' \/ lg[q].label \in {NoLabel, out'[q].label}
            BY <1>2, <2>3, <2>4, <2>5, <3>1 DEF Usable
        <3>4. \A q \in MergedSoFar' \ (unread' \cup unlabelled') :
                 From(q)[q].label \in {NoLabel, out'[q].label}
            BY <1>3, <1>5, <2>1, <2>5, <2>10, <3>1, <3>2 DEF Usable
        <3> QED
            BY <1>1, <3>1, <3>3, <3>4 DEF Usable
    <2> QED
        BY <2>2, <2>6, <2>7, <2>8, <2>9, <2>10 DEF Position, SoFar, FieldsAreSet
<1> QED
    BY <1>3, <1>4, <1>5

LEMMA AppendInv ==
    ASSUME IInv, AppendCil
    PROVE  (Position /\ SoFar)'
<1> DEFINE after == File(Appended(out[Cil].content.text))
<1>1. TypeOK /\ pc = "append" /\ los' = los /\ lg' = lg /\ lg \in DonorImages
    BY DEF IInv, TypeOK, AppendCil, inputs
<1>2. MergedSoFar = Pol /\ GraftedSoFar = Grafted(lg)
    BY <1>1 DEF MergedSoFar, GraftedSoFar
<1>3. /\ Cil \in Pol /\ Cil \in Paths /\ Touched(Cil)
      /\ \/ Fail
         \/ /\ Goto("ok")
            /\ Cil \notin unread' =>
                  /\ out[Cil].content.is = "file" => out'[Cil].content = after
                  /\ FieldsAreSet => \/ Cil \in unlabelled'
                                     \/ out[Cil].label \in {NoLabel, out'[Cil].label}
    BY <1>1, AppendStep
<1>4. CASE Fail
    BY <1>4, NothingExpected DEF Fail, Goto
<1>5. CASE Goto("ok") /\ ~Fail
    <2>1. pc' = "ok"
        BY <1>5 DEF Goto
    <2>2. MergedSoFar' = Pol /\ GraftedSoFar' = Grafted(lg)
        BY <1>1, <2>1 DEF MergedSoFar, GraftedSoFar
    <2>3. /\ Grafted(lg) \subseteq Files /\ Cil \notin Grafted(lg)
          /\ Files \subseteq Paths /\ Pol \subseteq Files
        BY <1>1, <1>3, PathsApart DEF Files
    <2>4. /\ \A q \in Paths \ {Cil} : out'[q] = out[q]
          /\ unread \subseteq unread' /\ unlabelled \subseteq unlabelled'
        BY <1>3 DEF Touched
    <2>5. AsExpected'
        <3>1. \A q \in Files \ unread : out[q].content =
                  IF q \in Pol THEN PolicyOf(q, los, lg)
                  ELSE IF q \in Grafted(lg) THEN lg[q].content ELSE los[q].content
            BY <1>1, <1>2 DEF IInv, SoFar, AsExpected, Expected, Steps
        <3>2. ASSUME NEW q \in Files \ unread'
              PROVE  out'[q].content = Intended(los, lg)[q]
            <4>1. CASE q = Cil
                <5>1. out[Cil].content = PolicyOf(Cil, los, lg)
                    BY <1>3, <2>3, <2>4, <3>1, <3>2, <4>1
                <5>2. PolicyOf(Cil, los, lg).is = "file"
                    BY <1>2, <1>3 DEF IInv, SoFar, MergedWhole
                <5>3. out'[Cil].content = after
                    BY <1>3, <1>5, <3>2, <4>1, <5>1, <5>2
                <5> QED
                    BY <1>3, <3>2, <4>1, <5>1, <5>3 DEF Intended
            <4>2. CASE q # Cil
                BY <2>3, <2>4, <3>1, <3>2, <4>2 DEF Intended
            <4> QED
                BY <4>1, <4>2
        <3> QED
            BY <1>1, <2>1, <3>2 DEF AsExpected, Expected
    <2>6. InRange' /\ CertsListed' /\ Unmerged'
        BY <2>1 DEF InRange, CertsListed, Unmerged, Steps
    <2>7. MergedWhole'
        BY <1>1, <1>2, <2>2 DEF IInv, SoFar, MergedWhole
    <2>8. NotEmpty'
        BY <1>2, <2>2, <2>3, <2>4 DEF IInv, SoFar, NotEmpty
    <2>9. ASSUME FieldsAreSet
          PROVE  Usable'
        <3>1. Usable /\ \A q : From(q)' = From(q)
            BY <1>1, <2>9 DEF IInv, SoFar, From
        <3>2. \A q \in GraftedSoFar' \ unread' :
                 /\ out'[q].mode = ModeOf(q)
                 /\ q \in unlabelled' \/ lg[q].label \in {NoLabel, out'[q].label}
            BY <1>2, <2>2, <2>3, <2>4, <3>1 DEF Usable
        <3>3. \A q \in Pol \ (unread' \cup unlabelled') :
                 From(q)[q].label \in {NoLabel, out'[q].label}
            <4>1. \A q \in Pol \ (unread' \cup unlabelled') :
                     From(q)[q].label \in {NoLabel, out[q].label}
                BY <1>2, <2>4, <3>1 DEF Usable
            <4>2. \A q \in Pol \ {Cil} : out'[q] = out[q]
                BY <2>3, <2>4
            <4>3. CASE Cil \in unread' \cup unlabelled'
                BY <4>1, <4>2, <4>3
            <4>4. CASE Cil \notin unread' \cup unlabelled'
                BY <1>3, <1>5, <2>9, <4>1, <4>2, <4>4
            <4> QED
                BY <4>3, <4>4
        <3> QED
            BY <1>1, <2>2, <3>1, <3>2, <3>3 DEF Usable
    <2> QED
        BY <2>5, <2>6, <2>7, <2>8, <2>9 DEF Position, SoFar, FieldsAreSet
<1> QED
    BY <1>3, <1>4, <1>5

LEMMA StepIInv == IInv /\ [Next]_vars => IInv'
<1> SUFFICES ASSUME IInv, [Next]_vars PROVE (Position /\ SoFar)'
    BY TypeStep DEF IInv
<1>1. TypeOK
    BY DEF IInv
<1>2. CASE Start
    BY <1>2, NothingExpected DEF Start, Goto
<1>3. CASE MissingInput \/ Kill
    BY <1>3, NothingExpected DEF MissingInput, Kill, Fail, Goto
<1>4. CASE CopyBase
    BY <1>4, BeforeGraftNext DEF CopyBase, Goto, inputs
<1>5. CASE EnsureHeadroom
    BY <1>5, BeforeGraft, BeforeGraftNext, NothingExpected
    DEF EnsureHeadroom, Fail, Goto, inputs, reads
<1>6. CASE RemoveHash
    <2>1. \A p \in Files \cup Pol : out'[p] = out[p]
        BY <1>1, <1>6, PathsApart DEF RemoveHash, TypeOK, Image
    <2> QED
        BY <1>6, <2>1, BeforeGraft, BeforeGraftNext DEF RemoveHash, Goto, inputs, reads
<1>7. CASE MkdirLike
    <2>1. DirSeq[i] \in Dirs
        BY <1>7 DEF MkdirLike, IInv, Position, InRange, DirSeq, Dirs
    <2>2. \A p \in Files \cup Pol : out'[p] = out[p]
        BY <1>1, <1>7, <2>1, PathsApart DEF MkdirLike, TypeOK, Image
    <2>3. \/ pc' = "mkdir" /\ i' \in 1 .. 2
          \/ pc' = "graft" /\ i' = 1
        BY <1>7 DEF MkdirLike, Advance, Goto, DirSeq, IInv, Position, InRange
    <2> QED
        BY <1>7, <2>2, <2>3, BeforeGraft, BeforeGraftNext DEF MkdirLike, inputs, reads
<1>8. CASE GraftBin
    BY <1>8, GraftBinInv
<1>9. CASE ListCerts
    BY <1>9, ListInv
<1>10. CASE GraftCert
    BY <1>10, GraftCertInv
<1>11. CASE Merge
    BY <1>11, MergeInv
<1>12. CASE AppendCil
    BY <1>12, AppendInv
<1>13. CASE UNCHANGED vars
    BY <1>13 DEF IInv, vars, Position, SoFar, AsExpected, InRange, CertsListed, Unmerged,
       MergedWhole, NotEmpty, Usable, Expected, From, MergedSoFar, GraftedSoFar
<1> QED
    BY <1>2, <1>3, <1>4, <1>5, <1>6, <1>7, <1>8, <1>9, <1>10, <1>11, <1>12, <1>13
    DEF Next, Step

LEMMA AlwaysIInv == Spec => []IInv
<1> QED
    BY InitIInv, StepIInv, PTL DEF Spec

\* The state of a run and its image stay in their types.
THEOREM TypeCorrect == Spec => []TypeOK
<1>1. IInv => TypeOK
    BY DEF IInv
<1> QED
    BY <1>1, AlwaysIInv, PTL

-----------------------------------------------------------------------------
(* What a successful run has built.                                        *)

LEMMA OkIntended ==
    ASSUME IInv, pc = "ok"
    PROVE  \A p \in Files \ unread : out[p].content = Intended(los, lg)[p]
BY DEF IInv, SoFar, AsExpected, Expected

\* The instance of the abstract specification means the same image.
LEMMA SameIntended ==
    ASSUME NEW b, NEW d
    PROVE  Promise!Intended(b, d) = Intended(b, d) /\ Promise!Files = Files
BY DEF Intended, Files, BinPaths, Grafted, Jobs, PolicyOf, NoText, File,
       Merged, AlreadyMerged, Delta, Redeclares, TypesOf, KeysOf,
       MarkerLine, MarkerKey, Appended, Promise!Intended, Promise!Files,
       Promise!BinPaths, Promise!Grafted, Promise!Jobs, Promise!PolicyOf,
       Promise!NoText, Promise!File, Promise!Merged,
       Promise!AlreadyMerged, Promise!Delta, Promise!Redeclares,
       Promise!TypesOf, Promise!KeysOf, Promise!MarkerLine,
       Promise!MarkerKey, Promise!Appended

\* A step of the tool forgets no short read and changes no input.
LEMMA StepReads ==
    ASSUME IInv, Step \/ Kill
    PROVE  UNCHANGED inputs /\ unread \subseteq unread' /\ pc \in Steps
<1> USE DEF inputs, reads, Steps
<1>1. TypeOK /\ InRange /\ Unmerged
    BY DEF IInv, Position
<1>2. CASE MissingInput \/ CopyBase \/ EnsureHeadroom \/ RemoveHash \/ MkdirLike \/ Kill
    BY <1>2 DEF MissingInput, CopyBase, EnsureHeadroom, RemoveHash, MkdirLike, Kill
<1>3. CASE GraftBin
    BY <1>1, <1>3, GraftBinStep DEF GraftBin, Touched
<1>4. CASE ListCerts
    BY <1>4 DEF ListCerts
<1>5. CASE GraftCert
    BY <1>1, <1>5, GraftCertStep DEF GraftCert, Touched
<1>6. CASE Merge
    <2>1. out[PolSeq[i]] = los[PolSeq[i]]
        BY <1>1, <1>6, NextIsUnmerged DEF Merge
    <2> QED
        BY <1>1, <1>6, <2>1, MergeStep DEF Merge, Touched
<1>7. CASE AppendCil
    BY <1>1, <1>7, AppendStep DEF AppendCil, Touched
<1> QED
    BY <1>2, <1>3, <1>4, <1>5, <1>6, <1>7 DEF Step

\* Where a step can lead: success is the end of append_cil only.
LEMMA StepEnds ==
    ASSUME IInv, Step \/ Kill
    PROVE  pc' \in Steps \cup {"failed", "ok"}
<1> USE DEF Steps, Advance, Fail, Goto
<1>1. TypeOK /\ InRange /\ Unmerged
    BY DEF IInv, Position
<1>2. CASE MissingInput \/ CopyBase \/ EnsureHeadroom \/ RemoveHash \/ MkdirLike \/ Kill
    BY <1>2 DEF MissingInput, CopyBase, EnsureHeadroom, RemoveHash, MkdirLike, Kill
<1>3. CASE GraftBin
    BY <1>1, <1>3, GraftBinStep DEF GraftBin
<1>4. CASE ListCerts
    BY <1>4 DEF ListCerts
<1>5. CASE GraftCert
    BY <1>1, <1>5, GraftCertStep DEF GraftCert
<1>6. CASE Merge
    <2>1. out[PolSeq[i]] = los[PolSeq[i]]
        BY <1>1, <1>6, NextIsUnmerged DEF Merge
    <2> QED
        BY <1>1, <1>6, <2>1, MergeStep DEF Merge
<1>7. CASE AppendCil
    BY <1>1, <1>7, AppendStep
<1> QED
    BY <1>2, <1>3, <1>4, <1>5, <1>6, <1>7 DEF Step

\* Whatever debugfs commands fail unnoticed, the reads included, exit status 0
\* means that every file of the image of which no read came back short is the
\* intended one: a run implements GraftSpec.
THEOREM BuildImplementsPromise == Spec => KeepsPromise
<1>1. Init => Promise!Init
    BY DEF Init, Promise!Init, Steps
<1>2. IInv /\ IInv' /\ [Next]_vars => [Promise!Next]_(Promise!gvars)
    <2> SUFFICES ASSUME IInv, IInv', [Next]_vars
                 PROVE  [Promise!Next]_(Promise!gvars)
        OBVIOUS
    <2> USE DEF Promise!gvars
    <2>1. los \in BaseImages /\ lg \in DonorImages /\ los' \in BaseImages /\ lg' \in DonorImages
        BY DEF IInv, TypeOK
    <2>2. CASE Start
        BY <2>1, <2>2 DEF Start, Goto, Ends, Steps, Promise!Next, Promise!Begin
    <2>3. CASE Step \/ Kill
        <3>1. los' = los /\ lg' = lg /\ unread \subseteq unread' /\ pc \in Steps
            BY <2>3, StepReads DEF inputs
        <3>2. /\ unread \cap Files \subseteq unread' \cap Files
              /\ unread' \cap Files \subseteq Promise!Files
            BY <3>1, SameIntended
        <3>3. CASE pc' \in Steps
            BY <3>1, <3>2, <3>3 DEF Steps, Promise!Next, Promise!Work, Promise!ReadShort
        <3>4. CASE pc' = "failed"
            BY <3>1, <3>2, <3>4 DEF Steps, Promise!Next, Promise!Abort, Promise!ReadShort
        <3>5. CASE pc' = "ok"
            <4>1. \A p \in Files \ unread' : out'[p].content = Intended(los, lg)[p]
                BY <3>1, <3>5 DEF IInv, SoFar, AsExpected, Expected
            <4>2. /\ DOMAIN ContentsOf(out)' = Files
                  /\ \A p \in Files \ (unread' \cap Files) :
                        ContentsOf(out)'[p] = Intended(los, lg)[p]
                BY <4>1 DEF ContentsOf
            <4>3. Promise!Intended(los, lg) = Intended(los, lg) /\ Promise!Files = Files
                BY SameIntended
            <4> HIDE DEF ContentsOf
            <4> QED
                BY <3>1, <3>2, <3>5, <4>2, <4>3
                DEF Steps, Promise!Next, Promise!Succeed, Promise!ReadShort
        <3> QED
            BY <2>3, <3>3, <3>4, <3>5, StepEnds
    <2>4. CASE UNCHANGED vars
        BY <2>4 DEF vars, ContentsOf
    <2> QED
        BY <2>2, <2>3, <2>4 DEF Next
<1> QED
    BY <1>1, <1>2, AlwaysIInv, PTL DEF Spec, KeepsPromise, Promise!Spec

\* The ROM's own policy survives every successful graft, and LG's is complete
\* after it, in every file that was read to its end: a short read of one file
\* harms no other.
THEOREM PolicyAlwaysComplete == Spec => []PolicyComplete
<1>1. IInv => PolicyComplete
    <2> SUFFICES ASSUME IInv, pc = "ok", NEW p \in Pol \ unread
                 PROVE  LET f == out[p].content.text
                            b == los[p].content.text
                            d == lg[p].content.text
                        IN  /\ b \subseteq f
                            /\ \/ AlreadyMerged(p, b)
                               \/ \A l \in d :
                                    \/ l.key \in KeysOf(f) \cup Semicolon \cup KeysOf(Baseline[p])
                                    \/ p = Cil /\ Declares[l.key] \cap TypesOf(b) # {}
        BY DEF PolicyComplete
    <2> DEFINE f == out[p].content.text
               b == los[p].content.text
               d == lg[p].content.text
               m == PolicyOf(p, los, lg).text
    <2>1. m \subseteq f
        <3>1. out[p].content = Intended(los, lg)[p] /\ p \in Files
            BY OkIntended DEF Files
        <3>2. \/ out[p].content = PolicyOf(p, los, lg)
              \/ out[p].content = File(Appended(m))
            BY <3>1 DEF Intended
        <3>3. m \subseteq Appended(m)
            BY DEF Appended
        <3> QED
            BY <3>2, <3>3 DEF File
    <2>2. CASE NoText(los[p].content)
        <3>1. b = {} /\ m = d
            BY <2>2 DEF NoText, PolicyOf
        <3> QED
            BY <2>1, <3>1 DEF KeysOf
    <2>3. CASE ~NoText(los[p].content)
        <3>1. m = Merged(p, d, b)
            BY <2>3 DEF PolicyOf, File
        <3>2. b \subseteq m
            BY <3>1, MergeKeepsTarget
        <3>3. ASSUME ~AlreadyMerged(p, b), NEW l \in d, l.key \notin Semicolon
              PROVE  \/ l.key \in KeysOf(m) \/ l.key \in KeysOf(Baseline[p])
                     \/ Redeclares(p, l, b)
            BY <3>1, <3>3, MergeComplete
        <3> QED
            BY <2>1, <3>2, <3>3 DEF KeysOf, Redeclares
    <2> QED
        BY <2>2, <2>3
<1> QED
    BY <1>1, AlwaysIInv, PTL

\* No successful graft puts a ';' line into a contexts file that was read to
\* its end.
THEOREM NeverSemicolonEntry == Spec => []NoSemicolonEntry
<1>1. IInv => NoSemicolonEntry
    <2> SUFFICES ASSUME IInv, pc = "ok", NEW p \in Pol \ ({Cil} \cup unread),
                        NEW l \in out[p].content.text, l.key \in Semicolon
                 PROVE  \/ l \in los[p].content.text
                        \/ NoText(los[p].content) /\ l \in lg[p].content.text
        BY DEF NoSemicolonEntry
    <2>1. out[p].content = PolicyOf(p, los, lg)
        BY OkIntended DEF Files, Intended
    <2>2. CASE NoText(los[p].content)
        BY <2>1, <2>2 DEF PolicyOf
    <2>3. CASE ~NoText(los[p].content)
        <3>1. l \in Merged(p, lg[p].content.text, los[p].content.text)
            BY <2>1, <2>3 DEF PolicyOf, File
        <3> QED
            BY <3>1, ContextsGainNoSemicolon
    <2> QED
        BY <2>2, <2>3
<1> QED
    BY <1>1, AlwaysIInv, PTL


\* Exit status 0 means files that init and the services can use, if debugfs
\* sets the fields and the labels it is told to, as far as it let the tool
\* read them: the content of a file is read back, its mode and label are not.
\* No binary and no library is empty then, whatever was read.
THEOREM GraftAlwaysUsable == Spec => [](FieldsAreSet => GraftedUsable)
<1>1. IInv => (FieldsAreSet => GraftedUsable)
    <2> SUFFICES ASSUME IInv, FieldsAreSet, pc = "ok"
                 PROVE  GraftedUsable
        BY DEF GraftedUsable
    <2>1. GraftedSoFar = Grafted(lg) /\ MergedSoFar = Pol
        BY DEF GraftedSoFar, MergedSoFar
    <2>2. Usable /\ NotEmpty
        BY DEF IInv, SoFar
    <2>3. Required \subseteq Grafted(lg)
        BY GraftedAre, PathAssumption DEF IInv, TypeOK
    <2> QED
        BY <2>1, <2>2, <2>3 DEF Usable, NotEmpty, GraftedUsable, From, ModeOf
<1> QED
    BY <1>1, AlwaysIInv, PTL

-----------------------------------------------------------------------------
(* Doubled statements.                                                     *)

\* What the parsers of file p refuse: two entries for one key, two
\* declarations of one type.
Doubles(p, l, m) ==
    /\ l # m
    /\ \/ p # Cil /\ l.key = m.key
       \/ p = Cil /\ Declares[l.key] \cap Declares[m.key] # {}

\* Types are declared in the spelling that merge_policy looks for.
PlainlyDeclared(f) == \A l \in f : Declares[l.key] # {} => l.sp = Plain

\* The inputs are what the makers of the donor and of the ROM ship: LG's policy
\* has no double and no graft in it, and both declare types plainly.
CleanInputs ==
    /\ \A d \in DonorImages : \A p \in Pol :
          LET f == d[p].content.text
          IN  /\ ~AlreadyMerged(p, f)
              /\ \A l, m \in f : ~Doubles(p, l, m)
              /\ PlainlyDeclared(f)
    /\ \A b \in BaseImages : PlainlyDeclared(b[Cil].content.text)

\* Two lines of which one is new double nothing.
LEMMA MergeDoublesNothing ==
    ASSUME NEW p \in Pol, NEW d, NEW t,
           ~AlreadyMerged(p, d), \A l, m \in d : ~Doubles(p, l, m),
           p = Cil => PlainlyDeclared(d) /\ PlainlyDeclared(t),
           NEW l \in Merged(p, d, t), NEW m \in Merged(p, d, t), Doubles(p, l, m)
    PROVE  l \in t /\ m \in t
<1>1. ASSUME NEW x \in Merged(p, d, t), x \notin t,
             NEW y \in Merged(p, d, t), Doubles(p, x, y)
      PROVE  FALSE
    <2>1. Declares[MarkerLine(p).key] = {} /\ MarkerLine(p).key = MarkerKey(p)
        BY MarkerMeaning DEF MarkerLine
    <2>2. CASE x = MarkerLine(p)
        <3>1. p # Cil /\ y.key = MarkerKey(p) /\ y # x
            BY <1>1, <2>1, <2>2 DEF Doubles
        <3>2. y \in t
            BY <3>1, <1>1, <2>2, MergeAddsOnlyLg DEF AlreadyMerged, KeysOf
        <3>3. AlreadyMerged(p, t)
            BY <3>1, <3>2 DEF AlreadyMerged, KeysOf
        <3> QED
            BY <1>1, <3>3 DEF Merged
    <2>3. CASE x # MarkerLine(p)
        <3>1. x \in Delta(p, d, t) /\ x \in d
            BY <1>1, <2>3 DEF Merged, Delta
        <3>2. CASE y \in t
            <4>1. p = Cil
                BY <1>1, <3>1, <3>2 DEF Doubles, Delta, KeysOf
            <4>2. x.sp = Plain /\ y.sp = Plain
                BY <1>1, <3>1, <3>2, <4>1 DEF Doubles, PlainlyDeclared
            <4>3. Redeclares(p, x, t)
                BY <1>1, <3>2, <4>1, <4>2 DEF Doubles, Redeclares, TypesOf
            <4> QED
                BY <3>1, <4>3 DEF Delta
        <3>3. CASE y = MarkerLine(p)
            <4>1. p # Cil /\ x.key = MarkerKey(p)
                BY <1>1, <2>1, <3>3 DEF Doubles
            <4> QED
                BY <3>1, <4>1 DEF AlreadyMerged, KeysOf
        <3>4. CASE y \notin t /\ y # MarkerLine(p)
            BY <1>1, <3>1, <3>4, MergeAddsOnlyLg
        <3> QED
            BY <3>2, <3>3, <3>4
    <2> QED
        BY <2>2, <2>3
<1>2. Doubles(p, m, l)
    BY DEF Doubles
<1> QED
    BY <1>1, <1>2

\* No successful graft gives a contexts file two entries for one name, or the
\* CIL two declarations of one type, that the ROM did not have itself, if both
\* files were read to their end.
THEOREM PolicyNeverDoubled == Spec => [](CleanInputs => PolicyNotDoubled)
<1>1. ASSUME CleanInputs, IInv, pc = "ok", NEW p \in Pol \ unread,
             NEW l \in out[p].content.text, NEW m \in out[p].content.text, Doubles(p, l, m)
      PROVE  {l, m} \subseteq los[p].content.text
    <2> DEFINE b == los[p].content.text
               d == lg[p].content.text
               f == PolicyOf(p, los, lg).text
    <2>1. /\ ~AlreadyMerged(p, d) /\ \A x, y \in d : ~Doubles(p, x, y)
          /\ p = Cil => PlainlyDeclared(d) /\ PlainlyDeclared(b)
        BY <1>1 DEF CleanInputs, IInv, TypeOK
    <2>2. out[p].content = Intended(los, lg)[p]
        BY <1>1, OkIntended DEF Files
    <2>3. out[p].content.text = IF p = Cil THEN Appended(f) ELSE f
        BY <2>2 DEF Intended, Files, File
    <2>4. l \in f /\ m \in f
        <3>1. CASE p # Cil
            BY <1>1, <2>3, <3>1
        <3>2. CASE p = Cil
            BY <1>1, <2>3, <3>2, PlumbingAssumption DEF Appended, Doubles
        <3> QED
            BY <3>1, <3>2
    <2>5. CASE NoText(los[p].content)
        BY <1>1, <2>1, <2>4, <2>5 DEF PolicyOf
    <2>6. CASE ~NoText(los[p].content)
        <3>1. f = Merged(p, d, b)
            BY <2>6 DEF PolicyOf, File
        <3> HIDE DEF f, d, b
        <3>2. l \in b /\ m \in b
            BY <1>1, <2>1, <2>4, <3>1, MergeDoublesNothing
        <3> QED
            BY <3>2 DEF b
    <2> QED
        BY <2>5, <2>6
<1>2. IInv => (CleanInputs => PolicyNotDoubled)
    BY <1>1 DEF PolicyNotDoubled, Doubles
<1> QED
    BY <1>2, AlwaysIInv, PTL
=============================================================================
