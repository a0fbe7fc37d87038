---------------------------- MODULE MCRecipeTools ----------------------------
(***************************************************************************)
(* The tools of docs/PATCH-RECIPES.md: the ipsecd patcher on one binary,   *)
(* the manifest patcher on one manifest, or the staging directory with the *)
(* tools that fill and pack it.  They share nothing, and one is at work.   *)
(***************************************************************************)
EXTENDS MCIpsecdPatch, MCManifests, Staging, AxmlPatch

VARIABLE atWork    \* "ipsecd", "manifest" or "staging"

-----------------------------------------------------------------------------
(* A small instance of Staging.                                            *)

MCImages == {
    [fw |-> "V60 30c", readable |-> TRUE, paths |-> {"bin/ipsecd", "lib", "mac"}],
    [fw |-> "V60 30f", readable |-> TRUE, paths |-> {"bin/ipsecd", "mac"}],
    [fw |-> "stock", readable |-> TRUE, paths |-> {"mac"}],
    [fw |-> "sparse", readable |-> FALSE, paths |-> {}] }
MCSource == [p \in {"jar", "native/ipsecd"} |-> IF p = "jar" THEN None ELSE "bin/ipsecd"]

\* A stock jar; one that has both fixes, or the first only; a build with other
\* line numbers; one with a bailout more.
AllSites(s) == [x \in {"reject", "mo_a", "mo_b", "mo_c"} |-> s]
MCClasses == {AllSites("stock"), AllSites("patched"),
              [AllSites("stock") EXCEPT !["reject"] = "patched"],
              [AllSites("stock") EXCEPT !["reject"] = "absent"],
              [AllSites("stock") EXCEPT !["mo_a"] = "twice"]}

MCBlobSeq == <<"lib", "mac">>

-----------------------------------------------------------------------------

allVars == <<atWork, vars, axmlVars, stageVars>>

\* No tool reads it.
MCIdleFile == FileOf(<< >>, <<ResourceMap>>)

NoBinary == [text |-> << >>, starts |-> {}, calls |-> << >>, stubs |-> {}, names |-> << >>, plt |-> 0, size |-> 0]

MCInit ==
    /\ atWork \in {"ipsecd", "manifest", "staging"}
    /\ IF atWork = "ipsecd" THEN Init
       ELSE bin = NoBinary /\ text = << >> /\ status = "new" /\ again = FALSE
    /\ IF atWork = "manifest" THEN AxmlInit
       ELSE data = MCIdleFile /\ pool = ParseStringPool(MCIdleFile)
    /\ StageInit

MCNext ==
    \/ atWork = "ipsecd" /\ Next /\ UNCHANGED <<atWork, axmlVars, stageVars>>
    \/ atWork = "manifest" /\ AxmlNext /\ UNCHANGED <<atWork, vars, stageVars>>
    \/ atWork = "staging" /\ StageNext /\ UNCHANGED <<atWork, vars, axmlVars>>

MCSpec == MCInit /\ [][MCNext]_allVars

=============================================================================
