------------------------------ MODULE SystemExt ------------------------------
(***************************************************************************)
(* system_ext images as tools/build_lg_substrate_image.py sees them, and   *)
(* the image it is meant to produce: the stock image with LG's files and   *)
(* LG's policy delta grafted onto it.                                      *)
(*                                                                         *)
(* An image maps every path the tool touches to a slot: the content found  *)
(* there, its mode (with uid and gid, which are always set together with   *)
(* it) and its SELinux label.  The bytes of a grafted file are a text like *)
(* any other, whose lines mean nothing here.                               *)
(***************************************************************************)
EXTENDS PolicyMerge, Integers, Sequences

CONSTANTS
    Bin,          \* the paths of BIN in their order
    CertPaths,    \* the paths that can occur under IPSEC_D
    Required,     \* the grafted paths with /bin/ or /lib64/ in them
    Parent,       \* grafted path -> the created directory it lives in, or Root
    Root,         \* stands for a directory every image has
    EtcIpsec, IpsecD, Hash,          \* the other paths the tool touches
    PolSeq,       \* POL in its order
    Labels, NoLabel,                 \* SELinux labels, and a missing one
    BinMode,      \* path -> the mode BIN gives it
    FileMode, DirMode, RawMode,      \* 0100644, 040755, what `write` leaves
    BaseImages, DonorImages,         \* the inputs
    Heads,        \* where a file may be cut short: what is left are the
                  \* lines that are in one of these texts
    ListDir       \* donor image -> its list_dir(IPSEC_D)

BinPaths == {Bin[k] : k \in DOMAIN Bin}
Dirs == {EtcIpsec, IpsecD}
Paths == BinPaths \cup CertPaths \cup Pol \cup Dirs \cup {Hash}

Modes == {BinMode[p] : p \in BinPaths} \cup {FileMode, DirMode, RawMode}

\* Nothing at the path, a file, a directory.
File(f) == [is |-> "file", text |-> f]
Missing == [is |-> "none", text |-> {}]
Directory == [is |-> "dir", text |-> {}]
Contents == [is : {"none", "file", "dir"}, text : Text]

\* A file of content c after a write, or a read, that stopped early.
CutShort(c) == {File(c.text \cap h) : h \in Heads}

Slot == [content : Contents, mode : Modes, label : Labels \cup {NoLabel}]
Image == [Paths -> Slot]
Absent == [content |-> Missing, mode |-> RawMode, label |-> NoLabel]

ASSUME PathAssumption ==
    /\ Bin \in Seq(BinPaths) /\ Bin # <<>>
    /\ \A j, k \in DOMAIN Bin : Bin[j] = Bin[k] => j = k
    /\ PolSeq \in Seq(Pol)
    /\ \A p \in Pol : \E k \in DOMAIN PolSeq : PolSeq[k] = p
    /\ \A j, k \in DOMAIN PolSeq : PolSeq[j] = PolSeq[k] => j = k
    /\ BinPaths \cap (CertPaths \cup Pol \cup Dirs \cup {Hash}) = {}
    /\ CertPaths \cap (Pol \cup Dirs \cup {Hash}) = {}
    /\ Pol \cap (Dirs \cup {Hash}) = {}
    /\ Hash \notin Dirs /\ Root \notin Paths /\ EtcIpsec # IpsecD
    /\ Required \subseteq BinPaths
    /\ Parent \in [BinPaths \cup CertPaths \cup Pol -> Dirs \cup {Root}]

ASSUME LabelAssumption == NoLabel \notin Labels

\* What an input image can hold: no path is damaged, directories and files
\* are where they belong.
Wellformed(img) ==
    /\ img \in Image
    /\ \A p \in Dirs : img[p].content \in {Directory, Missing}
    /\ \A p \in Paths \ Dirs :
          img[p].content = Missing \/ img[p].content.is = "file"

ASSUME InputAssumption ==
    /\ \A b \in BaseImages : Wellformed(b)
    /\ \A d \in DonorImages : Wellformed(d)
    /\ ListDir \in [DonorImages -> Seq(CertPaths)]
    /\ \A d \in DonorImages : \A j, k \in DOMAIN ListDir[d] :
          ListDir[d][j] = ListDir[d][k] => j = k
    /\ \A d \in DonorImages : \A p \in CertPaths :
          (d[p].content # Missing) <=> \E k \in DOMAIN ListDir[d] : ListDir[d][k] = p

-----------------------------------------------------------------------------

\* What the tool grafts from donor d, in order: BIN, then d's certificates.
Jobs(d) == Bin \o ListDir[d]
Grafted(d) == {Jobs(d)[k] : k \in DOMAIN Jobs(d)}

ModeOf(p) == IF p \in BinPaths THEN BinMode[p] ELSE FileMode

\* dump gives no file, or one of size 0
NoText(c) == c.text = {}

\* The content a policy file has after merge_policy.
PolicyOf(p, base, donor) ==
    IF NoText(base[p].content)
    THEN donor[p].content
    ELSE File(Merged(p, donor[p].content.text, base[p].content.text))

\* The file contents of the substrate of base b with donor d.
Files == BinPaths \cup CertPaths \cup Pol
Intended(b, d) ==
    [p \in Files |->
        IF p \in Pol
        THEN IF p = Cil THEN File(Appended(PolicyOf(p, b, d).text)) ELSE PolicyOf(p, b, d)
        ELSE IF p \in Grafted(d) THEN d[p].content ELSE b[p].content]

ContentsOf(img) == [p \in Files |-> img[p].content]
=============================================================================
