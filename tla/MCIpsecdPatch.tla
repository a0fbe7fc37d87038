---------------------------- MODULE MCIpsecdPatch ----------------------------
(* Small instances of IpsecdPatch: every sequence of up to four functions, *)
(* in front of the PLT or after it, with both sizes of a stub.             *)
EXTENDS IpsecdPatch, SequencesExt

MCPac == "paciasp"

\* What a function does; a name is a call of that import.
Bodies == {
    <<MCPac, "ins", "ins", GetService, CStr>>,       \* a getter
    <<MCPac, GetService, PropertyGet>>,              \* one with a fallback
    <<MCPac, GetService, "ins">>,                    \* a setter
    <<MCPac, GetService, "ins", "ins", "ins", PropertyGet>>,   \* its mark is far away
    <<"ins", GetService, "ret">>,                    \* no prologue
    <<MCPac, PropertyGet>>,                          \* calls property_get only
    <<MCPac, "ret">>,
    <<"ins">> }

MCNames == {<<GetService, PropertyGet, CStr>>, <<CStr, PropertyGet, GetService>>}

Layouts == UNION {[1 .. n -> Bodies] : n \in 2 .. 4}

StartOf(l, i) == 1 + Len(FlattenSeq(SubSeq(l, 1, i - 1)))

Place(l, names, stub, plt) ==
    LET flat == FlattenSeq(l)
        at(n) == plt + Header + stub * ((CHOOSE k \in DOMAIN names : names[k] = n) - 1)
    IN [text |-> [o \in DOMAIN flat |->
                    IF \E k \in DOMAIN names : names[k] = flat[o]
                    THEN [op |-> "bl", imm |-> (at(flat[o]) - o) % Span]
                    ELSE Word(flat[o])],
        starts |-> {StartOf(l, i) : i \in DOMAIN l},
        calls |-> flat,
        stubs |-> {<<at(n) % Span, n>> : n \in Range(names)},
        names |-> names, plt |-> plt, size |-> Header + stub * Len(names)]

MCBinaries ==
    {Place(l, <<GetService, PropertyGet, CStr>>, 4, 20) : l \in Layouts}
    \cup {Place(l, names, stub, plt) : l \in {k \in Layouts : Len(k) < 4},
          names \in MCNames, stub \in {4, 6}, plt \in {-30, 20}}
    \cup {Place(l, <<GetService, "puts">>, 4, 20) :
          l \in {<< <<MCPac, GetService>>, <<MCPac, GetService>> >>}}

ASSUME BinariesAreLinked == \A b \in MCBinaries : Linked(b)
=============================================================================
