------------------------------- MODULE Headroom -------------------------------
(***************************************************************************)
(* The block budget of a graft: ensure_headroom of                         *)
(* tools/build_lg_substrate_image.py grows the image before anything is    *)
(* written, because debugfs `write` truncates silently when the filesystem *)
(* is full.  Sizes are bytes, the rest counts filesystem blocks.           *)
(***************************************************************************)
EXTENDS Integers, FiniteSets, FiniteSetsExt

CONSTANTS
    Grafts,       \* the files of BIN and the donor's certificates
    Policies,     \* the files of POL, and the CIL a second time for append_cil
    Sizes,        \* the sizes a donor's file can have
    Bs,           \* block size
    Slack,        \* 16 * 1024 * 1024
    Round,        \* 1024, the blocks an image grows by
    MaxBlocks,    \* bound on the blocks of an image
    Meta,         \* blocks for inode, directory and extents a write may cost
    Growth,       \* blocks a policy file may grow by
    ResizeMeta    \* blocks resize2fs may keep for its own tables

ASSUME HeadroomAssumption ==
    /\ Bs \in Nat \ {0} /\ Round \in Nat \ {0}
    /\ Slack \in Nat /\ MaxBlocks \in Nat
    /\ Meta \in Nat /\ Growth \in Nat /\ ResizeMeta \in Nat
    /\ Sizes \subseteq Nat
    /\ IsFiniteSet(Grafts) /\ IsFiniteSet(Policies)

\* What the slack is for: the last, partly filled block and the metadata of
\* every file, the policy files, and the tables of the grown filesystem.
ASSUME SlackCovers ==
    Slack >= Bs * ( Cardinality(Grafts) * (1 + Meta)
                  + Cardinality(Policies) * Growth + ResizeMeta )

VARIABLES
    pc,           \* "headroom", "write" or "failed"
    size,         \* the donor's files
    count, free,  \* blocks of the image, and the free ones
    todo,         \* what is still to be written
    cut           \* has a write been cut short?
vars == <<pc, size, count, free, todo, cut>>

Init ==
    /\ pc = "headroom"
    /\ size \in [Grafts -> Sizes]
    /\ count \in 1 .. MaxBlocks /\ free \in 0 .. count
    /\ todo = Grafts \cup Policies
    /\ cut = FALSE

-----------------------------------------------------------------------------

\* -(-a // b)
Ceil(a, b) == -((-a) \div b)

Bytes(files) == MapThenSumSet(LAMBDA f : size[f], files)

\* Mutant: only the donor's files are counted.
Need_NoSlack == Bytes(Grafts)

Need == Bytes(Grafts) + Slack

\* Mutant: the new size is rounded down.
NewCount_RoundDown(c, fr, need) ==
    LET grow == Ceil(need - fr * Bs, Bs)
    IN  ((c + grow) \div Round) * Round

\* The block count asked of resize2fs for an image of c blocks, fr of them
\* free, that has to hold need bytes.
NewCount(c, fr, need) ==
    LET grow == Ceil(need - fr * Bs, Bs)
    IN  Ceil(c + grow, Round) * Round

EnsureHeadroom ==
    /\ pc = "headroom"
    /\ pc' = "write"
    /\ IF free * Bs >= Need
       THEN UNCHANGED <<count, free>>
       ELSE /\ count' = NewCount(count, free, Need)
            /\ \E m \in 0 .. ResizeMeta : free' = free + (count' - count) - m
    /\ UNCHANGED <<size, todo, cut>>

\* resize2fs fails: SystemExit.
ResizeFails ==
    /\ pc = "headroom" /\ free * Bs < Need
    /\ pc' = "failed"
    /\ UNCHANGED <<size, count, free, todo, cut>>

\* External: the blocks a file of n bytes occupies.
Blocks(n) == (n + Bs - 1) \div Bs

\* Taking n blocks for path p; a filesystem that has fewer gives what it has.
Take(p, n) ==
    /\ todo' = todo \ {p}
    /\ IF n <= free
       THEN free' = free - n /\ cut' = cut
       ELSE free' = 0 /\ cut' = TRUE
    /\ UNCHANGED <<pc, size, count>>

\* graft() writes a file of the donor.
WriteGraft ==
    /\ pc = "write"
    /\ \E f \in todo \cap Grafts, m \in 0 .. Meta :
          Take(f, Blocks(size[f]) + m)

\* merge_policy() or append_cil() replaces a file by a longer one, once the
\* grafts are done.
WritePolicy ==
    /\ pc = "write" /\ todo \cap Grafts = {}
    /\ \E p \in todo, g \in 0 .. Growth : Take(p, g)

Next == EnsureHeadroom \/ ResizeFails \/ WriteGraft \/ WritePolicy
Spec == Init /\ [][Next]_vars

-----------------------------------------------------------------------------

TypeOK ==
    /\ pc \in {"headroom", "write", "failed"}
    /\ size \in [Grafts -> Sizes]
    /\ count \in Nat /\ free \in Nat
    /\ todo \subseteq Grafts \cup Policies
    /\ cut \in BOOLEAN

\* With its one look at the superblock before the first write, the tool never
\* runs out of blocks during the graft: no write is ever cut short.
NeverTruncates == ~cut

\* The blocks left are always enough for what is still to be written, the
\* bytes the tool counted and those it allows for.
BudgetHolds ==
    pc = "write" => free * Bs >= Bytes(todo \cap Grafts)
=============================================================================
