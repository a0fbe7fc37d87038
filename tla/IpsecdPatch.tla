------------------------------ MODULE IpsecdPatch ------------------------------
(***************************************************************************)
(* tools/patch_ipsecd.py: how the getter and the setter of LG's property   *)
(* HAL are found in ipsecd, and what is written over them.                 *)
(*                                                                         *)
(* Addresses count instructions; .text starts at address 1.  What the      *)
(* linker knew of a binary (starts, calls, stubs) only the properties see. *)
(***************************************************************************)
EXTENDS Integers, Sequences, FiniteSets, Functions

CONSTANTS
    Span,        \* the values of a branch's immediate: 2^26 on arm64
    Window,      \* 0x800 bytes, in instructions
    Header,      \* 0x20 bytes, in instructions
    GetService, PropertyGet, CStr,   \* imports
    Binaries     \* the files somebody may patch

Plain == {"ins", "paciasp", "ret", "mov x0, x2", "mov x2, xzr"}
Branches == [op : {"bl", "b"}, imm : 0 .. Span - 1]
Words == [op : Plain, imm : {0}] \cup Branches
Word(op) == [op |-> op, imm |-> 0]

\* plt_targets: the PLT is a header and one stub per import, in order.
Stub(b) == (b.size - Header) \div (IF b.names = << >> THEN 1 ELSE Len(b.names))
PltTarget(b, n) ==
    LET i == CHOOSE k \in DOMAIN b.names : b.names[k] = n
    IN b.plt + Header + (i - 1) * Stub(b)

\* Imports have stubs of their own.
ASSUME IpsecdAssumption ==
    /\ Span \in Nat \ {0} /\ Span % 2 = 0 /\ Window \in Nat \ {0} /\ Header \in Nat
    /\ \A b \in Binaries :
        /\ b.text \in Seq(Words) /\ b.starts \subseteq DOMAIN b.text
        /\ \A n \in {PropertyGet, CStr} : {n, GetService} \subseteq Range(b.names) =>
              PltTarget(b, n) \in Int /\ PltTarget(b, n) # PltTarget(b, GetService)

VARIABLES
    bin,       \* the input of this run
    text,      \* the instructions of the output
    status,    \* "new", "patched" or "refused"
    again      \* was the input itself an output?
vars == <<bin, text, status, again>>

TypeOK ==
    /\ bin.text \in Seq(Words) /\ bin.starts \subseteq DOMAIN bin.text
    /\ text \in Seq(Words) /\ Len(text) = Len(bin.text)
    /\ status \in {"new", "patched", "refused"} /\ again \in BOOLEAN

Init == /\ bin \in Binaries /\ text = bin.text
        /\ status = "new" /\ again = FALSE

-----------------------------------------------------------------------------
(* The parts of main().                                                    *)

\* Mutant: the immediate is unsigned.
Signed_Not(imm) == imm
Signed(imm) == IF imm >= Span \div 2 THEN imm - Span ELSE imm

Imports(n) == n \in Range(bin.names)

\* The instruction at o is a call of address a.
CallTo(o, a) == bin.text[o].op = "bl" /\ o + Signed(bin.text[o].imm) = a

Calls == {o \in DOMAIN bin.text : CallTo(o, PltTarget(bin, GetService))}

Prologues == {p \in DOMAIN bin.text : bin.text[p].op = "paciasp"}

\* Mutant: the instruction above the call is skipped.
PrologueBefore_SkipsOne(o) ==
    {p \in Prologues : p < o - 1 /\ \A q \in Prologues : q < o - 1 => q <= p}

\* prologue_before: the nearest paciasp above, if there is one.
PrologueBefore(o) == {p \in Prologues : p < o /\ \A q \in Prologues : q < o => q <= p}

\* is_getter: it calls property_get or c_str() before the next paciasp.
IsGetter(f) ==
    \E o \in f .. (f + Window - 1) :
        /\ o \in DOMAIN bin.text
        /\ \A p \in Prologues : ~ (f < p /\ p <= o)
        /\ \E n \in {PropertyGet, CStr} : Imports(n) /\ CallTo(o, PltTarget(bin, n))

Fns == UNION {PrologueBefore(c) : c \in Calls}

Refuses ==
    \/ ~ Imports(GetService) \/ ~ Imports(PropertyGet)
    \/ Cardinality(Calls) # 2
    \/ \E c \in Calls : PrologueBefore(c) = {}
    \/ Cardinality(Fns) # 2
    \/ \A f \in Fns : ~ IsGetter(f)

\* b property_get@plt, the getter's third instruction.
Branch(getter) == [op |-> "b", imm |-> (PltTarget(bin, PropertyGet) - (getter + 2)) % Span]

Written(getter, setter) ==
    [bin.text EXCEPT ![setter] = Word("ret"), ![getter] = Word("mov x0, x2"),
                     ![getter + 1] = Word("mov x2, xzr"), ![getter + 2] = Branch(getter)]

\* If both functions look like a getter, a set's order decides.
Patch ==
    /\ status = "new"
    /\ \/ Refuses /\ status' = "refused" /\ UNCHANGED text
       \/ /\ ~ Refuses
          /\ \E getter \in Fns : \E setter \in Fns \ {getter} :
                IsGetter(getter) /\ text' = Written(getter, setter)
          /\ status' = "patched"
    /\ UNCHANGED <<bin, again>>

\* The output is patched once more.
Rerun ==
    /\ status = "patched" /\ ~again
    /\ bin' = [bin EXCEPT !.text = text]
    /\ status' = "new" /\ again' = TRUE /\ UNCHANGED text

Next == Patch \/ Rerun
Spec == Init /\ [][Next]_vars

-----------------------------------------------------------------------------
(* Properties.                                                             *)

\* The function that an instruction belongs to, by its start.
Owner(o) == CHOOSE f \in bin.starts : f <= o /\ \A g \in bin.starts : g <= o => g <= f
Callers == {Owner(c) : c \in Calls}

\* Every function starts with a paciasp, and nothing else does.
PacAtStarts == Prologues = bin.starts /\ 1 \in bin.starts

\* The binary that the tool was written for, by the calls that the linker made:
\* g is its getter and s its setter.
Regular(g, s) ==
    LET Called(n) == {o \in DOMAIN bin.calls : bin.calls[o] = n}
        marked(f) == \E c \in Called(PropertyGet) \cup Called(CStr) : Owner(c) = f /\ c < f + Window
    IN /\ PacAtStarts /\ Imports(PropertyGet) /\ g # s
       /\ {g, s} = {Owner(c) : c \in Called(GetService)} /\ Cardinality(Called(GetService)) = 2
       /\ marked(g) /\ ~marked(s)

\* What a linker makes of any binary: a header and stubs of one size in the PLT;
\* and a call's immediate leads to its import's stub, which is in reach and has
\* an address of its own in Span.
Linked(b) ==
    /\ \E stub \in 0 .. b.size :
        LET at(k) == b.plt + Header + (k - 1) * stub
        IN /\ b.size = Header + stub * Len(b.names)
           /\ b.stubs = {<<at(k) % Span, b.names[k]>> : k \in DOMAIN b.names}
           /\ \A o \in DOMAIN b.text, k \in DOMAIN b.names :
                  2 * (at(k) - o) \in -Span .. Span - 1
    /\ b.plt \in Int /\ b.names \in Seq(Range(b.names))
    /\ \A j, k \in DOMAIN b.names : b.names[j] = b.names[k] => j = k
    /\ \A s, r \in b.stubs : s[1] = r[1] => s = r
    /\ DOMAIN b.calls = DOMAIN b.text
    /\ \A o \in DOMAIN b.text, n \in {GetService, PropertyGet, CStr} :
          b.calls[o] = n <=> /\ b.text[o].op = "bl"
                             /\ <<(o + b.text[o].imm) % Span, n>> \in b.stubs

\* A regular binary is patched, wherever its functions and its PLT are: the
\* setter returns, the getter goes on in property_get, and every other
\* instruction is kept (tools/patch_ipsecd.py:9-12).
RegularIsPatched ==
    status # "new" => \A g, s \in bin.starts : Regular(g, s) =>
        /\ status = "patched"
        /\ text[s].op = "ret"
        /\ text[g].op = "mov x0, x2" /\ text[g + 1].op = "mov x2, xzr"
        /\ text[g + 2].op = "b"
        /\ <<(g + 2 + text[g + 2].imm) % Span, PropertyGet>> \in bin.stubs
        /\ \A o \in DOMAIN text \ {s, g, g + 1, g + 2} : text[o] = bin.text[o]

\* Nothing but the functions that call getService is changed.
OnlyCallers == status = "patched" =>
    \A o \in DOMAIN text : text[o] # bin.text[o] => Owner(o) \in Callers

\* With a paciasp at every function the tool never mistakes one for another,
\* however many there are and whoever calls what (prologue_before, is_getter,
\* tools/patch_ipsecd.py:120-151).
PacIsEnough == PacAtStarts => OnlyCallers
=============================================================================
