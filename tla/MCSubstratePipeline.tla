------------------------- MODULE MCSubstratePipeline -------------------------
(* ROMs, donors and partitions for SubstratePipeline.                      *)
EXTENDS SubstratePipeline

MCPol == {"cil", "file_contexts", "property_contexts"}
MCMarkerText == [x \in {";", "#"} \X MCPol |->
    IF x[1] = ";" THEN ";delta" ELSE "#delta"]
MCSemicolon == {";delta", ";plumbing", ";comment"}
MCKeys == MCSemicolon \cup
    {"#delta", "type plat", "type vnd", "type rom", "type ipsecd", "typealias ipsecd",
     "type prod", "allow rom", "allow ipsecd", "allow plumbing", "allow prod",
     "/rom", "/bin/ipsecd", "/bad", "rom.p", "lge.p", "lge.p other"}
MCTypes == {"plat", "vnd", "rom", "ipsecd", "prod"}
MCDeclares == [k \in MCKeys |->
    CASE k = "type plat" -> {"plat"}
      [] k = "type vnd" -> {"vnd"}
      [] k = "type rom" -> {"rom"}
      [] k = "type prod" -> {"prod"}
      [] k \in {"type ipsecd", "typealias ipsecd"} -> {"ipsecd"}
      [] OTHER -> {}]
MCUses == [k \in MCKeys |->
    CASE k = "allow rom" -> {"rom", "plat"}
      [] k = "allow ipsecd" -> {"ipsecd", "rom"}
      [] k = "allow plumbing" -> {"ipsecd", "vnd"}
      [] k = "allow prod" -> {"ipsecd", "prod"}
      [] OTHER -> {}]
MCRepeatable == {"type plat", "type vnd", "type rom", "type ipsecd", "type prod"}
MCMalformed == [p \in MCPol \ {"cil"} |-> MCSemicolon \cup {"/bad"}]
MCPropOf == [k \in MCKeys |->
    CASE k = "rom.p" -> {<<"rom.p", FALSE>>}
      [] k \in {"lge.p", "lge.p other"} -> {<<"lge.p", FALSE>>}
      [] OTHER -> {}]
MCNeeded == {"system", "vendor"}

By(o, keys) == [key : keys, sp : {"plain"}, by : {o}]
MCPlumbing == By("tool", {";plumbing", "allow plumbing"})
File3(o, cil, fc, pc) ==
    [p \in MCPol |-> CASE p = "cil" -> By(o, cil)
                       [] p = "file_contexts" -> By(o, fc)
                       [] OTHER -> By(o, pc)]
MCBaseline == File3("rom", {"type rom", "allow rom"}, {"/rom"}, {"rom.p"})

DonorA == File3("lg", {"type rom", "allow rom", "type ipsecd", "allow ipsecd", ";comment"},
                {"/rom", "/bin/ipsecd"}, {"rom.p", "lge.p"})
\* A donor whose policy leans on the product partition.
DonorB == [DonorA EXCEPT !["cil"] = @ \cup By("lg", {"allow prod"})]
\* A donor with an entry the parsers refuse.
DonorC == [DonorA EXCEPT !["file_contexts"] = @ \cup By("lg", {"/bad"})]
MCDonors == {DonorA, DonorB, DonorC}

Part(cil, props) == [cil |-> By("rom", cil), prop |-> By("rom", props)]
Usual == [q \in {"system", "vendor"} |->
    IF q = "system" THEN Part({"type plat"}, {}) ELSE Part({"type vnd"}, {})]
WithProduct(cil) == [q \in {"system", "vendor", "product"} |->
    IF q = "product" THEN Part(cil, {}) ELSE Usual[q]]

StockRom == [kind |-> "stock", se |-> MCBaseline, parts |-> Usual, modern |-> TRUE]
MCRoms == {
    StockRom,
    [StockRom EXCEPT !.modern = FALSE],
    [StockRom EXCEPT !.kind = "erofs"],
    \* the product partition declares a type LG's policy needs, or one LG's
    \* policy declares too, which secilc takes or, as an alias, does not
    [StockRom EXCEPT !.parts = WithProduct({"type prod"})],
    [StockRom EXCEPT !.parts = WithProduct({"type ipsecd", "type prod"})],
    [StockRom EXCEPT !.parts = WithProduct({"typealias ipsecd", "type prod"})],
    \* no such vendor type; the vendor defines LG's property
    [StockRom EXCEPT !.parts["vendor"] = Part({}, {})],
    [StockRom EXCEPT !.parts["vendor"] = Part({"type vnd"}, {"lge.p other"})],
    \* derivatives: an odd entry of its own and no property_contexts, a type
    \* of the baseline dropped, LG's type declared, LG's property defined
    [StockRom EXCEPT !.se = File3("rom", {"type rom", "allow rom"}, {"/rom", "/bad"}, {})],
    [StockRom EXCEPT !.se = File3("rom", {}, {"/rom"}, {"rom.p"})],
    [StockRom EXCEPT !.se = File3("rom", {"type rom", "typealias ipsecd"}, {}, {"rom.p"})],
    [StockRom EXCEPT !.se = File3("rom", {"type rom"}, {"/rom"}, {"lge.p other"})],
    \* somebody else's substrate, of an older donor
    [StockRom EXCEPT !.kind = "grafted",
        !.se = File3("rom", {"type rom", "type ipsecd", ";delta"}, {"/rom", "#delta"}, {"rom.p", "#delta"})]
    }
=============================================================================
