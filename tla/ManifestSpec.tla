----------------------------- MODULE ManifestSpec -----------------------------
(***************************************************************************)
(* What tools/axml_patch.py offers to the recipes: edits of a manifest,    *)
(* seen as a list of strings and a list of nodes that name them by index.  *)
(***************************************************************************)
EXTENDS Naturals, Sequences, SequencesExt

CONSTANTS Values, Tag, Data, Encode(_)
VARIABLES strings,   \* the strings, each a sequence of UTF-16 units
          nodes      \* [kind, name, attrs], attrs a sequence of [raw, data]
vars == <<strings, nodes>>

AppendString(v) == strings' = Append(strings, Encode(v)) /\ UNCHANGED nodes

Overwrite(i, v) ==
    /\ Len(Encode(v)) = Len(strings[i])
    /\ strings' = [strings EXCEPT ![i] = Encode(v)] /\ UNCHANGED nodes

\* A leaf <uses-permission>, of which the first is copied.
Leaf(k) ==
    /\ nodes[k].kind = "start" /\ strings[nodes[k].name] = Encode(Tag)
    /\ k < Len(nodes) /\ nodes[k + 1].kind = "end"

Duplicate(i) ==
    \E k \in DOMAIN nodes :
        /\ Leaf(k) /\ \A j \in 1 .. k - 1 : ~Leaf(j)
        /\ Len(nodes[k].attrs) = 1
        /\ nodes' = SubSeq(nodes, 1, k + 1)
                    \o << [nodes[k] EXCEPT !.attrs = << [raw |-> i, data |-> i] >>],
                          nodes[k + 1] >>
                    \o SubSeq(nodes, k + 2, Len(nodes))
        /\ UNCHANGED strings

SetAttr(k, a, v) ==
    /\ nodes[k].kind = "start" /\ a \in DOMAIN nodes[k].attrs
    /\ nodes' = [nodes EXCEPT ![k].attrs[a].data = v] /\ UNCHANGED strings

Next ==
    \/ \E v \in Values : AppendString(v) \/ \E i \in DOMAIN strings : Overwrite(i, v)
    \/ \E i \in DOMAIN strings : Duplicate(i)
    \/ \E k \in DOMAIN nodes : \E a \in DOMAIN nodes[k].attrs, v \in Data : SetAttr(k, a, v)

Spec == [][Next]_vars
=============================================================================
