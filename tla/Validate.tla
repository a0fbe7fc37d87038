------------------------------- MODULE Validate -------------------------------
(***************************************************************************)
(* tools/validate_substrate.py: the checks a built substrate has to pass   *)
(* before it is published, and, as the external reference they mirror,     *)
(* what init does with the same files when the device boots.               *)
(***************************************************************************)
EXTENDS PolicyMerge, FiniteSets

CONSTANTS
    PropFile,     \* system_ext_property_contexts, one of Pol
    Repeatable,   \* the keys of the declarations secilc -m takes twice, (type X)
    Malformed,    \* contexts file -> the keys bad_context_line complains of
    PropOf,       \* key -> the <<name, exact>> pair that property_entries and
                  \* init read from it, in a set; {} if they pass over it
    Partitions,   \* system, vendor, product, odm
    Needed        \* the partitions in secilc_args' `need`

Contexts == Pol \ {Cil}
SystemExtPart == "system_ext"

\* A partition's policy is its CIL and its property_contexts.
Policies == [cil : Text, prop : Text]

ASSUME ValidateAssumption ==
    /\ PropFile \in Contexts
    /\ Repeatable \subseteq Keys
    /\ Malformed \in [Contexts -> SUBSET Keys]
    /\ \A p \in Contexts : Semicolon \subseteq Malformed[p]
    /\ DOMAIN PropOf = Keys
    /\ Needed \subseteq Partitions
    /\ SystemExtPart \notin Partitions

-----------------------------------------------------------------------------
(* External: secilc and init.                                              *)

\* The lines of several files, each with the partition it comes from.
Lines(files) == UNION {{<<q, l>> : l \in files[q]} : q \in DOMAIN files}

\* secilc -m: every type is declared, and none is declared twice but by
\* statements of the kind that may be repeated.
Compiles(cils) ==
    /\ \A x \in Lines(cils) : \A t \in Uses[x[2].key] :
          \E y \in Lines(cils) : t \in Declares[y[2].key]
    /\ \A x, y \in Lines(cils) :
          x # y /\ Declares[x[2].key] \cap Declares[y[2].key] # {} =>
              {x[2].key, y[2].key} \subseteq Repeatable

\* init's property trie: no name is defined twice in one manner of matching.
TrieBuilds(props) ==
    \A x, y \in Lines(props) : x # y => PropOf[x[2].key] \cap PropOf[y[2].key] = {}

WithSystemExt(parts, field(_), se) ==
    [q \in DOMAIN parts \cup {SystemExtPart} |->
        IF q = SystemExtPart THEN se ELSE field(parts[q])]

CilOf(part) == part.cil
PropsOf(part) == part.prop

\* Does a device with these partitions boot a system_ext with policy se, stock
\* being what it shipped with?  A line of the ROM's own is fine by definition.
Boots(parts, stock, se) ==
    /\ \A p \in Contexts : \A l \in se[p] :
          l.key \in KeysOf(stock[p]) \/ l.key \notin Malformed[p]
    /\ TrieBuilds(WithSystemExt(parts, PropsOf, se[PropFile]))
    /\ Compiles(WithSystemExt(parts, CilOf, se[Cil]))

-----------------------------------------------------------------------------
(* The checks.  pol is what extract_policy_inputs.sh found of the ROM.     *)

Written(l) == <<l.key, l.sp>>

\* check_contexts: a stripped line that the stock file has too is not judged.
ContextsOk(stock, sub) ==
    \A p \in Contexts : \A l \in sub[p] :
        Written(l) \in {Written(m) : m \in stock[p]} \/ l.key \notin Malformed[p]

\* Mutant: only the substrate's own file is looked at.
PropertiesOk_SystemExtOnly(pol, sub) ==
    TrieBuilds([q \in {SystemExtPart} |-> sub[PropFile]])

\* check_properties
PropertiesOk(pol, sub) == TrieBuilds(WithSystemExt(pol, PropsOf, sub[PropFile]))

\* secilc_args: None without the plat and vendor policy; product and odm are
\* passed if they are there.
HasArgs(pol) == Needed \subseteq DOMAIN pol
Args(pol, se) == WithSystemExt(pol, CilOf, se[Cil])

\* check_compile: is the check done, or skipped with a warning?  usable: this
\* secilc understands the ROM's policy at all.
CompileRuns(pol, stock, usable) ==
    HasArgs(pol) /\ usable /\ Compiles(Args(pol, stock))

\* Mutant: the stock policy is not compiled first.
CompileOk_SubstrateOnly(pol, stock, sub, usable) ==
    HasArgs(pol) => usable /\ Compiles(Args(pol, sub))

CompileOk(pol, stock, sub, usable) ==
    CompileRuns(pol, stock, usable) => Compiles(Args(pol, sub))

\* Mutant: the hash file is not looked for.
Accepts_AnyHash(pol, stock, sub, hash, usable) ==
    /\ ContextsOk(stock, sub)
    /\ PropertiesOk(pol, sub)
    /\ CompileOk(pol, stock, sub, usable)

\* main: exit status 0.
Accepts(pol, stock, sub, hash, usable) ==
    /\ ContextsOk(stock, sub)
    /\ PropertiesOk(pol, sub)
    /\ ~hash
    /\ CompileOk(pol, stock, sub, usable)
=============================================================================
