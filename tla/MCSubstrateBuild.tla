-------------------------- MODULE MCSubstrateBuild --------------------------
(* Small instances of SubstrateBuild.                                      *)
EXTENDS SubstrateBuild

MCPol == {"cil", "file_contexts"}
MCPolSeq == <<"cil", "file_contexts">>

MCMarkerText == [x \in {";", "#"} \X MCPol |->
    IF x[1] = ";" THEN ";delta" ELSE "#delta"]
MCSemicolon == {";delta", ";plumbing", ";comment"}
MCKeys == MCSemicolon \cup
    {"#delta", "type rom", "type ipsecd", "typealias ipsecd", "allow rom",
     "allow ipsecd", "allow plumbing", "/rom", "/bin/ipsecd", "bytes", "bytes2", "more"}
MCTypes == {"rom", "ipsecd"}
MCDeclares == [k \in MCKeys |->
    CASE k = "type rom" -> {"rom"}
      [] k \in {"type ipsecd", "typealias ipsecd"} -> {"ipsecd"}
      [] OTHER -> {}]
MCUses == [k \in MCKeys |->
    CASE k \in {"allow rom", "/rom"} -> {"rom"}
      [] k \in {"allow ipsecd", "allow plumbing", "/bin/ipsecd"} -> {"ipsecd"}
      [] OTHER -> {}]

Rom(keys) == [key : keys, sp : {"plain"}, by : {"rom"}]
Lg(keys) == [key : keys, sp : {"plain"}, by : {"lg"}]
Wide(keys) == [key : keys, sp : {"wide"}, by : {"lg"}]

MCBaseline == [p \in MCPol |-> IF p = "cil" THEN Rom({"type rom"}) ELSE Rom({"/rom"})]
MCPlumbing == [key : {";plumbing", "allow plumbing"}, sp : {"plain"}, by : {"tool"}]

MCBin == <<"/bin/ipsecd", "/etc/ipsec/updown_script">>
MCCerts == {"/etc/ipsec/ipsec.d/ca"}
MCRequired == {"/bin/ipsecd"}
MCBinMode == [p \in {"/bin/ipsecd", "/etc/ipsec/updown_script"} |->
    IF p = "/bin/ipsecd" THEN "0755" ELSE "0744"]
MCParent == [p \in {"/bin/ipsecd", "/etc/ipsec/updown_script", "/etc/ipsec/ipsec.d/ca"} \cup MCPol |->
    CASE p = "/etc/ipsec/updown_script" -> EtcIpsec
      [] p \in MCCerts -> IpsecD
      [] OTHER -> Root]

S(c, m, lb) == [content |-> c, mode |-> m, label |-> lb]
\* A binary of two blocks, so that it may be cut between them.
Bytes == File(Lg({"bytes", "more"}))
Bytes2 == File(Lg({"bytes2", "more"}))
Policy(f) == S(File(f), FileMode, "se")
Dir == S(Directory, DirMode, "se")

\* An image from its policy files; other paths as the function rest says.
Img(cil, fc, rest) ==
    [p \in Paths |->
        CASE p = "cil" -> Policy(cil)
          [] p = "file_contexts" -> IF fc = {} THEN Absent ELSE Policy(fc)
          [] OTHER -> IF p \in DOMAIN rest THEN rest[p] ELSE Absent]

HashOnly == [p \in {Hash} |-> S(Bytes, FileMode, "se")]

\* Stock LineageOS; a derivative with its own ipsecd alias and no
\* file_contexts; a substrate built earlier from stock and DonorA.
Stock == Img(Rom({"type rom", "allow rom"}), Rom({"/rom"}), HashOnly)
Derivative == Img(Rom({"type rom", "typealias ipsecd"}), {}, HashOnly)

DonorRest == [p \in {"/bin/ipsecd", "/etc/ipsec/updown_script", "/etc/ipsec/ipsec.d/ca", EtcIpsec, IpsecD} |->
    CASE p = "/bin/ipsecd" -> S(Bytes, "0755", "exec")
      [] p = "/etc/ipsec/updown_script" -> S(File({}), "0744", "se")
      [] p \in MCCerts -> S(Bytes, FileMode, NoLabel)
      [] OTHER -> Dir]
DonorA == [Img(Lg({"type rom", "type ipsecd", "allow ipsecd", ";comment"}),
               Lg({"/rom", "/bin/ipsecd"}), DonorRest)
           EXCEPT !["cil"].content.text = @ \cup Wide({"allow rom"})]
\* An older vendor image: no certificate, another ipsecd.
DonorB == [DonorA EXCEPT !["/etc/ipsec/ipsec.d/ca"] = Absent,
                         !["/bin/ipsecd"].content = Bytes2]
\* A newer one, with other files and one more statement.
DonorC == [DonorA EXCEPT !["/bin/ipsecd"].content = Bytes2,
                         !["/etc/ipsec/updown_script"].content = Bytes2,
                         !["cil"].content.text = @ \cup Lg({"allow plumbing"}),
                         !["file_contexts"].content.text = @ \cup Lg({";comment"})]

\* Unusable donors: no policy file to merge, no updown_script.  One without
\* an ipsecd is what a dump that gives nothing makes of each of them.
DonorD == [DonorA EXCEPT !["file_contexts"] = Absent]
DonorE == [DonorA EXCEPT !["/etc/ipsec/updown_script"] = Absent]

MCDonorImages == {DonorA, DonorB, DonorC, DonorD, DonorE}
MCListDir == [d \in MCDonorImages |->
    IF d = DonorB THEN << >> ELSE <<"/etc/ipsec/ipsec.d/ca">>]

Substrate ==
    [p \in Paths |->
        CASE p = Hash -> Absent
          [] p \in Dirs -> Dir
          [] p \in BinPaths \cup MCCerts -> DonorA[p]
          [] OTHER -> S(Intended(Stock, DonorA)[p], FileMode, "se")]

MCBaseImages == {Stock, Derivative, Substrate}
MCSilent == {"rm", "write", "mkdir", "dump", "ea_get", "stat", "ls"}

\* A file is cut to nothing, or loses what follows its first lines.
MCHeads == {{}, Rom({"type rom", "/rom"}) \cup Lg({"type rom", "type ipsecd", "/rom", "bytes", "bytes2"})}
=============================================================================
