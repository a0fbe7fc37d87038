--------------------------- MODULE MCContextOverlay ---------------------------
(* ROMs for ContextOverlay.                                                *)
EXTENDS ContextOverlay

MCSeapp == <<"plat", "system_ext", "vendor">>
MCKeys == {"codeaurora", "lge.ims", "lgedataservice", "other", "rom.p", "lge.p", "lge.q"}
MCLevelled == [v \in {"none", "all", "x"} |-> IF v = "none" THEN "all" ELSE v]
L(k, v, b) == [key |-> k, val |-> v, by |-> b]
MCDataLine == L("lgedataservice", "all", "module")
MCPropLines == {L("lge.p", "x", "module"), L("lge.q", "x", "module")}

\* A ROM with the mapping in vendor; one that has it in system_ext and is on
\* a substrate that brings LG's own entries; an update with a new entry in
\* each file and a doubled mapping; one without the mapping; one without
\* property_contexts.
RomA == [p \in {"plat", "vendor", "props"} |->
    CASE p = "plat" -> {L("other", "none", "rom")}
      [] p = "vendor" -> {L("codeaurora", "none", "rom")}
      [] OTHER -> {L("rom.p", "x", "rom")}]
RomB == [p \in {"plat", "system_ext", "props"} |->
    CASE p = "plat" -> {}
      [] p = "system_ext" -> {L("codeaurora", "x", "rom"), L("lge.ims", "none", "rom"),
                              L("lgedataservice", "x", "rom")}
      [] OTHER -> {L("lge.p", "x", "rom"), L("lge.q", "none", "rom")}]
RomC == [RomA EXCEPT !["vendor"] = {L("codeaurora", "x", "rom"), L("codeaurora", "all", "rom"),
                                    L("other", "x", "rom")},
                     !["props"] = @ \cup {L("other", "x", "rom"), L("lge.p", "x", "rom")}]
RomD == [RomA EXCEPT !["vendor"] = {}]
RomE == [p \in {"vendor"} |-> RomA[p]]
MCBuilds == {RomA, RomB, RomC, RomD, RomE}
=============================================================================
