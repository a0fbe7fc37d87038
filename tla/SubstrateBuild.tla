--------------------------- MODULE SubstrateBuild ---------------------------
(***************************************************************************)
(* The run of tools/build_lg_substrate_image.py, one action per step of    *)
(* main().  The tool edits and reads the images through debugfs, whose     *)
(* exit status and messages it never looks at (dfs returns the text and    *)
(* the callers drop it, or search it), so every command may silently do    *)
(* nothing or only part of its work: a write may leave the image as it     *)
(* was or a file cut short, a read may give nothing or less than there is. *)
(* Silent is the set of commands that may.  Rerunning the tool, on any     *)
(* inputs and after any end of the previous run, is part of the model.     *)
(* unread and unlabelled are history: nothing of the tool looks at them.   *)
(***************************************************************************)
EXTENDS SystemExt, FiniteSets

CONSTANTS
    Silent,       \* the debugfs commands that may fail without a trace
    MaxShort,     \* bound: no read falls short once this many paths had one
    NoImage       \* the result of a run that has not succeeded

Commands == {"rm", "write", "mkdir", "set_inode_field", "ea_set",
             "dump", "ea_get", "stat", "ls"}
ASSUME SilentAssumption == Silent \subseteq Commands /\ MaxShort \in Nat

VARIABLES
    pc,           \* the step of main() under way
    i,            \* the position in the list that step goes through
    los, lg,      \* the two inputs
    out,          \* the image under construction, on disk
    certs,        \* the donor's certificates, as list_dir found them
    unread,       \* the paths this run did not read, or find, to the end
    unlabelled    \* the paths whose label it did not get
vars == <<pc, i, los, lg, out, certs, unread, unlabelled>>
inputs == <<los, lg>>
reads == <<unread, unlabelled>>

Steps == {"input", "headroom", "hash", "mkdir", "graft", "list", "certs",
          "merge", "append"}
Ends == {"idle", "ok", "failed"}
DirSeq == <<EtcIpsec, IpsecD>>

TypeOK ==
    /\ pc \in Steps \cup Ends
    /\ i \in Nat \ {0}
    /\ los \in BaseImages
    /\ lg \in DonorImages
    /\ out \in Image
    /\ certs \in Seq(CertPaths)
    /\ unread \subseteq Paths /\ unlabelled \subseteq Paths

Init ==
    /\ pc = "idle" /\ i = 1
    /\ los \in BaseImages /\ lg \in DonorImages
    /\ out = los
    /\ certs = << >> /\ unread = {} /\ unlabelled = {}

-----------------------------------------------------------------------------
(* debugfs commands that write: the slots a command may leave behind.      *)

OrSilently(cmd, s) == IF cmd \in Silent THEN {s} ELSE {}

Removed(s) == {Absent} \cup OrSilently("rm", s)

\* `write` refuses to replace a file, needs the directory to exist and a
\* file to read from; a full filesystem cuts it short.
Written(p, s, c) ==
    IF \/ s.content # Missing \/ c = Missing
       \/ Parent[p] # Root /\ out[Parent[p]].content = Missing
    THEN {s}
    ELSE LET New(x) == [content |-> x, mode |-> RawMode, label |-> NoLabel]
         IN  {New(c)} \cup OrSilently("write", s)
                      \cup UNION {OrSilently("write", New(x)) : x \in CutShort(c)}

FieldsSet(s, m) ==
    IF s.content = Missing THEN {s}
    ELSE {[s EXCEPT !.mode = m]} \cup OrSilently("set_inode_field", s)

Labelled(s, lb) ==
    IF s.content = Missing \/ lb = NoLabel THEN {s}
    ELSE {[s EXCEPT !.label = lb]} \cup OrSilently("ea_set", s)

\* Mutant: the label is set on the inode that rm then throws away.
Rewrites_LabelFirst(p, c, m, lb) ==
    UNION {FieldsSet(t, m) : t \in UNION {Written(p, u, c) : u \in
        UNION {Removed(v) : v \in Labelled(out[p], lb)}}}

\* rm, write, set_inode_field and ea_set on path p, as graft, merge_policy
\* and append_cil all run them.
Rewrites(p, c, m, lb) ==
    UNION {Labelled(s, lb) :
        s \in UNION {FieldsSet(t, m) :
            t \in UNION {Written(p, u, c) : u \in Removed(out[p])}}}

-----------------------------------------------------------------------------
(* debugfs commands that read: what may come of reading a content, a label *)
(* or the names of a directory.                                            *)

FallsShort(cmd) == cmd \in Silent /\ Cardinality(unread \cup unlabelled) < MaxShort

\* No file, or one that ends early: empty, or at the end of some line.
Dumped(c) ==
    {c} \cup IF FallsShort("dump") /\ c # Missing
             THEN {Missing} \cup CutShort(c) ELSE {}

LabelRead(lb) == {lb} \cup IF FallsShort("ea_get") THEN {NoLabel} ELSE {}

\* Mutant: "." and ".." are taken for certificates.
Listed_WithDots(names) == {<<".", "..">> \o names}

\* list_dir: the names that `ls -l` printed before it stopped.
Listed(names) ==
    {names} \cup IF FallsShort("ls")
                 THEN {SubSeq(names, 1, n) : n \in 0 .. Len(names)} ELSE {}

\* Was the content of p read as it is, and its label?
Noted(p, whole, label) ==
    /\ unread' = IF whole THEN unread ELSE unread \cup {p}
    /\ unlabelled' = IF label THEN unlabelled ELSE unlabelled \cup {p}

-----------------------------------------------------------------------------

Goto(step) == pc' = step /\ i' = 1
Fail == Goto("failed")

NamesIn(names) == {names[k] : k \in DOMAIN names}

\* The next element of the list this step goes through, or the next step.
Advance(length, step) ==
    IF i < length THEN i' = i + 1 /\ pc' = pc ELSE Goto(step)

\* Someone (a maintainer, the CI job) runs the tool.
Start ==
    /\ pc \in Ends
    /\ Goto("input")
    /\ los' \in BaseImages /\ lg' \in DonorImages
    /\ certs' = << >> /\ unread' = {} /\ unlabelled' = {}
    /\ out' = out

\* A path in paths.json names no file: the previous output is left alone.
MissingInput ==
    /\ pc = "input"
    /\ Fail
    /\ UNCHANGED <<inputs, out, certs, reads>>

\* shutil.copy over whatever the last run left, and e2fsck -fy.
CopyBase ==
    /\ pc = "input"
    /\ out' = los
    /\ Goto("headroom")
    /\ UNCHANGED <<inputs, certs, reads>>

\* resize2fs fails, or the image has or gets the room that the sizes it was
\* told call for; a write it has no room for is one that is cut short.
EnsureHeadroom ==
    /\ pc = "headroom"
    /\ Fail \/ Goto("hash")
    /\ UNCHANGED <<inputs, out, certs, reads>>

RemoveHash ==
    /\ pc = "hash"
    /\ \E s \in Removed(out[Hash]) : out' = [out EXCEPT ![Hash] = s]
    /\ Goto("mkdir")
    /\ UNCHANGED <<inputs, certs, reads>>

\* mkdir_like: nothing when the directory exists, or when stat does not say
\* that it is not found.
MkdirSlots(d) ==
    IF out[d].content # Missing THEN {out[d]}
    ELSE LET Made == {[content |-> Directory, mode |-> RawMode, label |-> NoLabel]}
             Base == IF d = IpsecD /\ out[EtcIpsec].content = Missing
                     THEN {out[d]} ELSE Made \cup OrSilently("mkdir", out[d])
         IN  OrSilently("stat", out[d]) \cup
             UNION {Labelled(s, lb) :
                 s \in UNION {FieldsSet(t, DirMode) : t \in Base},
                 lb \in LabelRead(lg[d].label)}

MkdirLike ==
    /\ pc = "mkdir"
    /\ \E s \in MkdirSlots(DirSeq[i]) : out' = [out EXCEPT ![DirSeq[i]] = s]
    /\ Advance(Len(DirSeq), "graft")
    /\ UNCHANGED <<inputs, certs, reads>>

\* Mutant: no read-back.
RewriteAndVerify_Blind(p, c, m, label, whole, length, step) ==
    \E lb \in LabelRead(label) : \E s \in Rewrites(p, c, m, lb) :
        /\ out' = [out EXCEPT ![p] = s]
        /\ Noted(p, whole, lb = label)
        /\ Advance(length, step)

\* Mutant: a mismatch is retried for ever.
RewriteAndVerify_Retry(p, c, m, label, whole, length, step) ==
    \E lb \in LabelRead(label) : \E s \in Rewrites(p, c, m, lb) :
        \E v \in Dumped(s.content) :
            /\ out' = [out EXCEPT ![p] = s]
            /\ Noted(p, whole /\ v = s.content, lb = label)
            /\ IF c # Missing /\ v = c THEN Advance(length, step)
               ELSE UNCHANGED <<pc, i>>

\* Get the label that path p is to have, rewrite p with content c and read it
\* back: "content mismatch" and the exception of reading a dump that is not
\* there both end the run.
RewriteAndVerify(p, c, m, label, whole, length, step) ==
    \E lb \in LabelRead(label) : \E s \in Rewrites(p, c, m, lb) :
        \E v \in Dumped(s.content) :
            /\ out' = [out EXCEPT ![p] = s]
            /\ Noted(p, whole /\ v = s.content, lb = label)
            /\ IF c # Missing /\ v = c THEN Advance(length, step) ELSE Fail

\* graft() of path p.
GraftPath(p, whole, length, step) ==
    \E c \in Dumped(lg[p].content) :
        LET all == whole /\ c = lg[p].content
        IN  IF p \in Required /\ NoText(c)
            THEN Fail /\ out' = out /\ Noted(p, all, TRUE)
            ELSE RewriteAndVerify(p, c, ModeOf(p), lg[p].label, all, length, step)

\* The next path of BIN.
GraftBin ==
    /\ pc = "graft"
    /\ GraftPath(Bin[i], TRUE, Len(Bin), "list")
    /\ UNCHANGED <<inputs, certs>>

\* list_dir of the donor's certificates.
ListCerts ==
    /\ pc = "list"
    /\ \E names \in Listed(ListDir[lg]) :
        /\ certs' = names
        /\ unread' = unread \cup (NamesIn(ListDir[lg]) \ NamesIn(names))
        /\ Goto(IF names = << >> THEN "merge" ELSE "certs")
    /\ UNCHANGED <<inputs, out, unlabelled>>

GraftCert ==
    /\ pc = "certs"
    /\ GraftPath(certs[i], TRUE, Len(certs), "merge")
    /\ UNCHANGED <<inputs, certs>>

\* merge_policy() of the next path of POL.  A target whose dump gives nothing
\* is taken for one that the ROM does not ship.
Merge ==
    /\ pc = "merge"
    /\ LET p == PolSeq[i]
       IN  \E tgt \in Dumped(out[p].content), donor \in Dumped(lg[p].content) :
           LET whole == tgt = out[p].content /\ donor = lg[p].content
               new == Merged(p, donor.text, tgt.text)
           IN  IF p \notin DOMAIN Baseline \/ NoText(donor)
               THEN Fail /\ out' = out /\ Noted(p, whole, TRUE)
               ELSE IF NoText(tgt)
               THEN GraftPath(p, whole, Len(PolSeq), "append")
               ELSE IF new = tgt.text
               THEN Advance(Len(PolSeq), "append") /\ out' = out /\ Noted(p, whole, TRUE)
               ELSE RewriteAndVerify(p, File(new), FileMode, out[p].label, whole,
                                     Len(PolSeq), "append")
    /\ UNCHANGED <<inputs, certs>>

\* append_cil(), the last step of main() that can fail.  A CIL that dump does
\* not give is an exception, and so is a label that ea_get leaves no file of.
AppendCil ==
    /\ pc = "append"
    /\ \E before \in Dumped(out[Cil].content) :
        LET whole == before = out[Cil].content
            after == File(Appended(before.text))
        IN  IF before = Missing
            THEN Fail /\ out' = out /\ Noted(Cil, whole, TRUE)
            ELSE IF PlumbingKey \in KeysOf(before.text)
            THEN Goto("ok") /\ out' = out /\ Noted(Cil, whole, TRUE)
            ELSE \/ RewriteAndVerify(Cil, after, FileMode, out[Cil].label, whole, 1, "ok")
                 \/ /\ FallsShort("ea_get")
                    /\ \E s \in Rewrites(Cil, after, FileMode, NoLabel) :
                          out' = [out EXCEPT ![Cil] = s]
                    /\ Fail /\ Noted(Cil, whole, FALSE)
    /\ UNCHANGED <<inputs, certs>>

\* The process is killed: a cancelled or timed-out job, a closed terminal.
Kill ==
    /\ pc \in Steps
    /\ Fail
    /\ UNCHANGED <<inputs, out, certs, reads>>

Step ==
    \/ MissingInput \/ CopyBase \/ EnsureHeadroom \/ RemoveHash
    \/ MkdirLike \/ GraftBin \/ ListCerts \/ GraftCert \/ Merge \/ AppendCil

Next == Start \/ Step \/ Kill
Spec == Init /\ [][Next]_vars /\ WF_vars(Step)

-----------------------------------------------------------------------------
(* Properties.                                                             *)

\* A run of the tool keeps the promise of GraftSpec: whatever debugfs does
\* silently, writing or reading, exit status 0 means that every file has its
\* intended content of which no read came back short (main, with the
\* read-back checks of graft, merge_policy and append_cil).  A short read
\* harms the file it is of and no other.
Promise == INSTANCE GraftSpec WITH
    phase <- CASE pc = "idle" -> "idle"
               [] pc \in Steps -> "running"
               [] pc = "ok" -> "ok"
               [] OTHER -> "failed",
    base <- los,
    donor <- lg,
    result <- IF pc = "ok" THEN ContentsOf(out) ELSE NoImage,
    unread <- unread \cap Files
KeepsPromise == Promise!Spec

\* Exit status 0 means the grafted files carry the donor's label and BIN's
\* mode and the policy files a label of the ROM or the donor, as far as they
\* were read: init and the services cannot use them otherwise, and the tool
\* never reads these back.  Whatever was read short, no binary and no library
\* is empty (line 99).
GraftedUsable ==
    pc = "ok" =>
        /\ \A p \in Grafted(lg) \ unread :
            /\ out[p].mode = IF p \in BinPaths THEN BinMode[p] ELSE FileMode
            /\ p \in unlabelled \/ lg[p].label \in {NoLabel, out[p].label}
        /\ \A p \in Pol \ (unread \cup unlabelled) :
            LET from == IF NoText(los[p].content) THEN lg ELSE los
            IN  from[p].label \in {NoLabel, out[p].label}
        /\ \A p \in Required : ~NoText(out[p].content)

\* A ROM's own policy survives the graft, and LG's is complete after it, in
\* every file that was read to its end: a statement of the donor is in the
\* image unless the baseline has it, the ROM declares its type already, or an
\* earlier graft was recognised.
PolicyComplete ==
    pc = "ok" =>
        \A p \in Pol \ unread :
            LET f == out[p].content.text
                b == los[p].content.text
                d == lg[p].content.text
            IN  /\ b \subseteq f
                /\ \/ AlreadyMerged(p, b)
                   \/ \A l \in d :
                        \/ l.key \in KeysOf(f) \cup Semicolon \cup KeysOf(Baseline[p])
                        \/ p = Cil /\ Declares[l.key] \cap TypesOf(b) # {}

\* A contexts entry occurs twice, or a type is declared twice, only where the
\* ROM did that itself: the boot-time parsers refuse duplicates, and so does
\* secilc but for a repeated (type X) (the filters of merge_policy).  Of the
\* files that were read to their end.
PolicyNotDoubled ==
    pc = "ok" =>
        \A p \in Pol \ unread : \A l, m \in out[p].content.text :
            /\ l # m
            /\ \/ p # Cil /\ l.key = m.key
               \/ p = Cil /\ Declares[l.key] \cap Declares[m.key] # {}
            => {l, m} \subseteq los[p].content.text

\* No contexts file that was read to its end gains a line that starts with
\* ';': only '#' is a comment there, and init cannot label anything with a
\* file_contexts that has one (the choice of the marker in merge_policy).  A
\* file the ROM lacks is taken from the donor as it is.
NoSemicolonEntry ==
    pc = "ok" =>
        \A p \in Pol \ ({Cil} \cup unread) : \A l \in out[p].content.text :
            l.key \in Semicolon =>
                \/ l \in los[p].content.text
                \/ NoText(los[p].content) /\ l \in lg[p].content.text

\* No run is stuck: the tool ends, with one status or the other.
RunEnds == pc \in Steps ~> pc \in Ends
=============================================================================
