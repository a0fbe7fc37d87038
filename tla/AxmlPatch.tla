------------------------------ MODULE AxmlPatch ------------------------------
(***************************************************************************)
(* tools/axml_patch.py on the cells of a binary AndroidManifest.xml.       *)
(*                                                                         *)
(* A cell is two bytes, and sizes and offsets count cells; a u32 is two    *)
(* cells of which the upper one is 0.  Strings are sequences of code       *)
(* points; an astral one has two UTF-16 units.                             *)
(***************************************************************************)
EXTENDS Naturals, Sequences, SequencesExt

CONSTANTS
    Files,      \* manifests that aapt wrote
    Values,     \* strings somebody may put in
    Data,       \* integers for attributes
    Tag,        \* "uses-permission"
    Astral,     \* the code points of two units
    MaxStrings, MaxChunks   \* bounds: a file that has them grows no more

PoolType == 1
StartType == 258
EndType == 259

VARIABLES
    data,    \* self.data
    pool     \* the other attributes of the AXML object
axmlVars == <<data, pool>>

Cell(d, o) == d[o + 1]
Put(d, o, v) == [d EXCEPT ![o + 1] = v]
Splice(d, o, x) == SubSeq(d, 1, o) \o x \o SubSeq(d, o + 1, Len(d))

\* encode("utf-16-le").
Encode(v) == FlattenSeq([k \in DOMAIN v |-> IF v[k] \in Astral THEN <<v[k], v[k]>> ELSE <<v[k]>>])

-----------------------------------------------------------------------------
(* Reading.                                                                *)

PoolOff == 4

\* _parse_string_pool.
ParseStringPool(d) ==
    [count |-> Cell(d, PoolOff + 4),
     offsets |-> PoolOff + Cell(d, PoolOff + 1),
     start |-> PoolOff + Cell(d, PoolOff + 10),
     next |-> PoolOff + Cell(d, PoolOff + 2)]

\* get_string_offsets and read_utf16_string.
StringAt(d, p, i) == p.start + Cell(d, p.offsets + 2 * i)
ReadString(d, p, i) ==
    LET base == StringAt(d, p, i) IN SubSeq(d, base + 2, base + 1 + Cell(d, base))

\* The offsets of the chunks behind the pool.
Chunks(d, p) ==
    LET from[o \in 0 .. Len(d)] ==
            LET size == Cell(d, o + 2)
            IN IF o + 2 >= Len(d) \/ size = 0 THEN << >>
               ELSE <<o>> \o (IF o + size <= Len(d) THEN from[o + size] ELSE << >>)
    IN from[p.next]

\* iter_start_elements and get_attr, for every chunk.
Ext(o) == o + 8
AttrRec(d, o, a) == Ext(o) + Cell(d, Ext(o) + 4) + (a - 1) * Cell(d, Ext(o) + 5)
Node(d, o) ==
    CASE Cell(d, o) = StartType ->
           [kind |-> "start", name |-> Cell(d, Ext(o) + 2) + 1,
            attrs |-> [a \in 1 .. Cell(d, Ext(o) + 6) |->
                [raw |-> Cell(d, AttrRec(d, o, a) + 4) + 1, data |-> Cell(d, AttrRec(d, o, a) + 8) + 1]]]
      [] Cell(d, o) = EndType -> [kind |-> "end", name |-> Cell(d, Ext(o) + 2) + 1, attrs |-> << >>]
      [] OTHER -> [kind |-> "other", name |-> 0, attrs |-> << >>]

-----------------------------------------------------------------------------
(* What aapt writes (external), and the tool takes for granted.            *)

StringEnd(d, p, i) == StringAt(d, p, i) + Cell(d, StringAt(d, p, i)) + 1

\* One pool of whole words, with a header of 28 bytes and no styles: the table
\* of offsets, and behind it the strings, each in cells of its own, up to a 0.
PoolAsWritten(d, p) ==
    /\ Cell(d, PoolOff) = PoolType
    /\ p.offsets >= PoolOff + 14 /\ p.offsets + 2 * p.count = p.start
    /\ p.start <= p.next /\ p.next % 2 = 0
    /\ \A i \in 0 .. p.count - 1 :
        StringAt(d, p, i) < p.next /\ StringEnd(d, p, i) < p.next /\ Cell(d, StringEnd(d, p, i)) = 0
    /\ \A i, j \in 0 .. p.count - 1 :
        i < j => \/ StringEnd(d, p, i) < StringAt(d, p, j)
                 \/ StringEnd(d, p, j) < StringAt(d, p, i)

\* Chunks, each up to the next and the last one up to the end.
ChunksFollow(d, p, c) ==
    /\ c \in Seq(0 .. Len(d) - 4) /\ c # << >> /\ c[1] = p.next
    /\ \A k \in DOMAIN c :
        /\ Cell(d, c[k] + 2) >= 4
        /\ c[k] + Cell(d, c[k] + 2) = IF k = Len(c) THEN Len(d) ELSE c[k + 1]

\* The chunk of an element: its name is a string of the pool, and the records
\* of its attributes, 20 bytes or more, follow its own fields inside of it.
NodeAsWritten(d, p, o) ==
    /\ Cell(d, o) \in {StartType, EndType} =>
        Cell(d, o + 2) >= 12 /\ Cell(d, Ext(o) + 2) < p.count
    /\ Cell(d, o) = StartType =>
        /\ Cell(d, o + 2) >= 18 /\ Cell(d, Ext(o) + 4) >= 10 /\ Cell(d, Ext(o) + 5) >= 10
        /\ \A a \in 1 .. Cell(d, Ext(o) + 6) : AttrRec(d, o, a) + 10 <= o + Cell(d, o + 2)

AsWritten(d) ==
    LET p == ParseStringPool(d)
        c == Chunks(d, p)
    IN /\ d \in Seq(Nat) /\ Len(d) > PoolOff + 14 /\ Cell(d, 2) = Len(d)
       /\ PoolAsWritten(d, p) /\ ChunksFollow(d, p, c)
       /\ \A k \in DOMAIN c : NodeAsWritten(d, p, c[k])
       /\ Cell(d, Last(c)) # StartType

ASSUME AxmlAssumption ==
    /\ \A d \in Files : AsWritten(d)
    /\ Values \subseteq Seq(Nat) /\ Data \subseteq Nat

-----------------------------------------------------------------------------
(* The operations.                                                         *)

AxmlInit == data \in Files /\ pool = ParseStringPool(data)

Resized(d, by) == Put(d, 2, Cell(d, 2) + by)     \* _set_outer_size

\* Mutant: the pool is padded only if the string is.
Pad_Half(added) == << >>
Pad(added) == [k \in 1 .. added % 2 |-> 0]

\* Mutant: stringsStart does not follow the offset table.
PoolHeader_KeepsStart(d, added) ==
    Put(Put(d, PoolOff + 4, pool.count + 1), PoolOff + 2, Cell(d, PoolOff + 2) + added)
PoolHeader(d, added) ==
    Put(Put(Put(d, PoolOff + 4, pool.count + 1), PoolOff + 2, Cell(d, PoolOff + 2) + added),
        PoolOff + 10, Cell(d, PoolOff + 10) + 2)

\* append_string: an offset at the end of the table, the string at the end of
\* the pool, the header, and the pool is parsed again.
AppendString(v) ==
    LET entry == <<pool.next - pool.start, 0>>
        chars == <<Len(v)>> \o Encode(v) \o <<0>>
        pad == Pad(Len(entry) + Len(chars))
        added == Len(entry) + Len(chars) + Len(pad)
        spliced == Splice(Splice(data, pool.start, entry),
                          pool.next + Len(entry), chars \o pad)
    IN /\ data' = Resized(PoolHeader(spliced, added), added)
       /\ pool' = ParseStringPool(data')

\* Mutant: any length.
SameLength_Any(i, v) == TRUE
SameLength(i, v) == Len(v) = Len(ReadString(data, pool, i))

\* overwrite_utf16_string_inplace, which raises if the length differs.
Overwrite(i, v) ==
    /\ SameLength(i, v)
    /\ LET base == StringAt(data, pool, i) + 1
           enc == Encode(v)
       IN data' = [k \in DOMAIN data |->
                    IF k - 1 \in base .. base + Len(enc) - 1 THEN enc[k - base] ELSE data[k]]
    /\ UNCHANGED pool

\* find_start_element: the first start chunk of that name which an end follows.
IsLeaf(o, tag) ==
    /\ Cell(data, o) = StartType /\ ReadString(data, pool, Cell(data, Ext(o) + 2)) = Encode(tag)
    /\ Cell(data, o + Cell(data, o + 2)) = EndType
FindStartElement(tag) ==
    LET c == Chunks(data, pool)
    IN {c[k] : k \in {k \in DOMAIN c : IsLeaf(c[k], tag) /\ \A j \in 1 .. k - 1 : ~ IsLeaf(c[j], tag)}}

\* duplicate_uses_permission, which raises unless there is one attribute.
Duplicate(i) ==
    \E o \in FindStartElement(Tag) :
        LET end == o + Cell(data, o + 2)
            after == end + Cell(data, end + 2)
            rec == AttrRec(data, o, 1) - o
            elem == Put(Put(SubSeq(data, o + 1, after), rec + 4, i), rec + 8, i)
        IN /\ Cell(data, Ext(o) + 6) = 1
           /\ data' = Resized(Splice(data, after, elem), Len(elem))
           /\ UNCHANGED pool

\* An attribute is located (iter_start_elements, get_attr) and set at once
\* (set_attr_int_data).
SetAttr(o, a, v) ==
    /\ Cell(data, o) = StartType /\ a <= Cell(data, Ext(o) + 6)
    /\ data' = Put(data, AttrRec(data, o, a) + 8, v)
    /\ UNCHANGED pool

Indices == 0 .. pool.count - 1
AxmlNext ==
    \/ \E v \in Values : \/ pool.count < MaxStrings /\ AppendString(v)
                        \/ \E i \in Indices : Overwrite(i, v)
    \/ Len(Chunks(data, pool)) < MaxChunks /\ \E i \in Indices : Duplicate(i)
    \/ \E o \in ToSet(Chunks(data, pool)) : \E a \in 1 .. 2, v \in Data : SetAttr(o, a, v)

AxmlSpec == AxmlInit /\ [][AxmlNext]_axmlVars

-----------------------------------------------------------------------------
(* Properties.                                                             *)

\* What Android's parser asks of a file: sizes that add up, a pool of whole
\* words, and strings that end with a 0 inside it (external).
WellFormed ==
    LET p == ParseStringPool(data)
        chunks == Chunks(data, p)
    IN /\ Cell(data, 2) = Len(data)
       /\ p.next % 2 = 0 /\ p.offsets + 2 * p.count <= p.start
       /\ \A i \in 0 .. p.count - 1 :
            LET base == StringAt(data, p, i)
            IN /\ base + Cell(data, base) + 1 < p.next
               /\ Cell(data, base + Cell(data, base) + 1) = 0
       /\ chunks # << >> /\ Last(chunks) + Cell(data, Last(chunks) + 2) = Len(data)

\* Every operation, in any order and number, leaves a file that Android reads
\* (tools/axml_patch.py:129-176, 196-222).
StaysWellFormed == WellFormed

\* ... and does to its strings and nodes what its name says, and nothing else:
\* no string, element or attribute moves under another one's index.
Strings == [i \in 1 .. pool.count |-> ReadString(data, pool, i - 1)]
Nodes == LET c == Chunks(data, pool) IN [k \in DOMAIN c |-> Node(data, c[k])]
Manifest == INSTANCE ManifestSpec WITH
    strings <- Strings, nodes <- Nodes, Data <- {v + 1 : v \in Data}
EditsManifest == [][[Manifest!Next]_(Manifest!vars)]_axmlVars
=============================================================================
