----------------------------- MODULE MCManifests -----------------------------
(* Small manifests, as aapt writes them, for AxmlPatch.                    *)
EXTENDS Naturals, Sequences, SequencesExt

Words32(s) == FlattenSeq([k \in DOMAIN s |-> <<s[k], 0>>])

PoolOf(strs) ==
    LET recs == [k \in DOMAIN strs |-> <<Len(strs[k])>> \o strs[k] \o <<0>>]
        offs == [k \in DOMAIN strs |-> Len(FlattenSeq(SubSeq(recs, 1, k - 1)))]
        body == FlattenSeq(recs)
        padded == body \o [k \in 1 .. Len(body) % 2 |-> 0]
        start == 14 + 2 * Len(strs)
    IN <<1, 14>> \o Words32(<<start + Len(padded), Len(strs), 0, 0, start, 0>>)
       \o Words32(offs) \o padded

StartOfElement(name, values) ==
    <<258, 8>> \o Words32(<<18 + 10 * Len(values), 1, 0, 0, name>>)
    \o <<10, 10, Len(values), 0, 0, 0>>
    \o FlattenSeq([k \in DOMAIN values |-> Words32(<<0, 0, values[k], 3, values[k]>>)])
EndOfElement(name) == <<259, 8>> \o Words32(<<12, 1, 0, 0, name>>)

FileOf(strs, chunks) ==
    LET rest == PoolOf(strs) \o FlattenSeq(chunks)
    IN <<3, 4, Len(rest) + 4, 0>> \o rest

MCTag == <<1, 1>>
ResourceMap == <<384, 4, 6, 0, 5, 0>>

\* <manifest><uses-permission/></manifest>
MCSmallFile == FileOf(<<MCTag, <<2>> >>,
    <<StartOfElement(1, << >>), StartOfElement(0, <<1>>), EndOfElement(0), EndOfElement(1)>>)

\* The first uses-permission has a child, of two attributes, which a new name
\* makes a uses-permission too; strings of even and odd length.
MCNestedFile == FileOf(<< <<2, 2>>, MCTag, <<1>> >>,
    <<ResourceMap, StartOfElement(1, <<2>>), StartOfElement(0, <<2, 1>>),
      EndOfElement(0), EndOfElement(1), StartOfElement(1, <<2>>), EndOfElement(1)>>)

MCFiles == {MCSmallFile, MCNestedFile}
MCValues == { <<1>>, MCTag }
=============================================================================
