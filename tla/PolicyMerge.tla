----------------------------- MODULE PolicyMerge -----------------------------
(***************************************************************************)
(* The pure part of tools/build_lg_substrate_image.py: what merge_policy   *)
(* and append_cil compute from the donor's, the target's and the           *)
(* baseline's copy of one SELinux policy file of system_ext.               *)
(*                                                                         *)
(* A policy file is the set of its lines that are not blank.  No consumer  *)
(* of these files depends on the order of the lines (secilc and the        *)
(* contexts parsers collect entries), and merge_policy itself only asks    *)
(* whether a line occurs.  A line is its whitespace-normalised text (key), *)
(* the spacing it was written with (sp) and who wrote it (by), which tells *)
(* two copies of one statement apart; all that a line means depends on its *)
(* key, so Declares and Uses are functions of keys.                        *)
(***************************************************************************)

CONSTANTS
    Pol,          \* the merged policy files (POL in the code)
    Cil,          \* the one of them whose name ends in .cil
    Keys,         \* normalised texts of lines
    Spacings,     \* ways of spacing the same text
    Plain,        \* the spacing that writes single blanks between words
    Types,        \* SELinux types
    Semicolon,    \* the keys that start with ';'
    Declares,     \* key -> the types a (type X) or (typealias X) declares
    Uses,         \* key -> the types a statement needs declared
    MarkerText,   \* <<comment character, policy file>> -> the marker's text
    Baseline,     \* policy file -> its stock LineageOS lines; the files that
                  \* tools/sepolicy-baseline lacks are outside the domain
    PlumbingKey,  \* the comment append_cil recognises its own block by
    Plumbing      \* the lines of CIL_APPEND

Origins == {"rom", "lg", "tool"}
Line == [key : Keys, sp : Spacings, by : Origins]
Text == SUBSET Line

ASSUME PolicyAssumption ==
    /\ Cil \in Pol
    /\ Plain \in Spacings
    /\ Semicolon \subseteq Keys
    /\ Declares \in [Keys -> SUBSET Types]
    /\ Uses \in [Keys -> SUBSET Types]
    /\ \A k \in Keys : \A s, t \in Declares[k] : s = t
    /\ \A k \in Semicolon : Declares[k] = {} /\ Uses[k] = {}
    /\ DOMAIN Baseline \subseteq Pol
    /\ \A p \in DOMAIN Baseline : Baseline[p] \in Text

ASSUME MarkerAssumption ==
    /\ MarkerText \in [{";", "#"} \X Pol -> Keys]
    /\ \A p \in Pol : /\ MarkerText[<<";", p>>] \in Semicolon
                     /\ MarkerText[<<"#", p>>] \notin Semicolon
                     /\ Declares[MarkerText[<<"#", p>>]] = {}
                     /\ Uses[MarkerText[<<"#", p>>]] = {}

ASSUME PlumbingAssumption ==
    /\ PlumbingKey \in Semicolon
    /\ Plumbing \in Text
    /\ \E l \in Plumbing : l.key = PlumbingKey
    /\ \A l \in Plumbing : Declares[l.key] = {}    \* allow rules only

-----------------------------------------------------------------------------

\* { _norm(ln) for ln in f }
KeysOf(f) == {l.key : l \in f}

\* The types f declares in the form re.match accepts: a (type X) or a
\* (typealias X) written with single blanks.
TypesOf(f) == UNION {Declares[l.key] : l \in {m \in f : m.sp = Plain}}

\* Mutant: every file gets the CIL comment, as before the bootloop was found.
MarkerKey_Semicolon(p) == MarkerText[<<";", p>>]

\* The line the delta is put under: ';' opens a comment in CIL, '#' in the
\* contexts files.
MarkerKey(p) == MarkerText[<<IF p = Cil THEN ";" ELSE "#", p>>]

MarkerLine(p) == [key |-> MarkerKey(p), sp |-> Plain, by |-> "tool"]

AlreadyMerged(p, tgt) == MarkerKey(p) \in KeysOf(tgt)

\* The donor declares a type that the target declares already.
Redeclares(p, l, tgt) ==
    p = Cil /\ l.sp = Plain /\ Declares[l.key] \cap TypesOf(tgt) # {}

\* Mutant: lines compared as they are written, not normalised.
Delta_Verbatim(p, donor, tgt) ==
    {l \in donor :
        /\ l.key \notin Semicolon
        /\ l \notin Baseline[p] \cup tgt
        /\ ~Redeclares(p, l, tgt)}

\* The donor's lines that are neither comments, nor stock, nor in the target.
Delta(p, donor, tgt) ==
    {l \in donor :
        /\ l.key \notin Semicolon
        /\ l.key \notin KeysOf(Baseline[p]) \cup KeysOf(tgt)
        /\ ~Redeclares(p, l, tgt)}

\* Mutant: the donor's file replaces the target's, as before merge_policy.
Merged_Overwrite(p, donor, tgt) == donor

\* The target's text after merge_policy, for a target that ships the file.
Merged(p, donor, tgt) ==
    IF AlreadyMerged(p, tgt) \/ Delta(p, donor, tgt) = {}
    THEN tgt
    ELSE tgt \cup {MarkerLine(p)} \cup Delta(p, donor, tgt)

\* The CIL file after append_cil.
Appended(f) == IF PlumbingKey \in KeysOf(f) THEN f ELSE f \cup Plumbing

\* Every type the statements of f need is declared in f or by the platform.
Closed(f, platform) ==
    \A l \in f : Uses[l.key] \subseteq
        platform \cup UNION {Declares[m.key] : m \in f}
=============================================================================
