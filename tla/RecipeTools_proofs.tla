-------------------------- MODULE RecipeTools_proofs --------------------------
(***************************************************************************)
(* What patch_ipsecd.py does to every binary, of any size and layout, what *)
(* the tools that share the staging directory leave in it, and what        *)
(* axml_patch.py does to every manifest that aapt wrote.                   *)
(***************************************************************************)
EXTENDS IpsecdPatch, Staging, AxmlPatch, FiniteSetTheorems, SequenceTheorems,
        WellFoundedInduction, TLAPS

\* Patching changes instructions, never the PLT.
StubsApart ==
    \A n \in {PropertyGet, CStr} : {n, GetService} \subseteq Range(bin.names) =>
        PltTarget(bin, n) \in Int /\ PltTarget(bin, n) # PltTarget(bin, GetService)

IInv == TypeOK /\ StubsApart /\ PacIsEnough /\ (Linked(bin) => RegularIsPatched)

-----------------------------------------------------------------------------
(* Arithmetic in Span.                                                     *)

LEMMA Division ==
    ASSUME NEW S \in Nat \ {0}, NEW a \in Int
    PROVE  a % S \in 0 .. S - 1 /\ \E q \in Int : a = S * q + (a % S)
<1> DEFINE q == a \div S
           r == a % S
<1>1. q \in Int /\ a = q * S + r /\ r \in 0 .. (S - 1)
  OBVIOUS
<1> HIDE DEF q, r
<1>2. \E k \in Int : a = S * k + r
  BY <1>1
<1> QED BY <1>1, <1>2 DEF r

LEMMA Residue ==
    ASSUME NEW S \in Nat \ {0}, NEW q \in Int, NEW r \in 0 .. S - 1
    PROVE  (S * q + r) % S = r
OBVIOUS

LEMMA ResidueOfSum ==
    ASSUME NEW S \in Nat \ {0}, NEW a \in Int, NEW b \in Int
    PROVE  (a + (b % S)) % S = (a + b) % S
<1> DEFINE r == b % S
           y == (a + r) % S
<1>1. r \in 0 .. S - 1 /\ \E q \in Int : b = S * q + r
  BY Division
<1>2. y \in 0 .. S - 1 /\ \E x \in Int : a + r = S * x + y
  <2>1. a + r \in Int
    BY <1>1
  <2> HIDE DEF r
  <2> QED BY <2>1, Division
<1>3. PICK q \in Int, x \in Int : b = S * q + r /\ a + r = S * x + y
  BY <1>1, <1>2
<1> HIDE DEF r, y
<1>4. a + b = S * (x + q) + y /\ x + q \in Int
  BY <1>1, <1>2, <1>3
<1>5. (a + b) % S = y
  BY <1>2, <1>4, Residue
<1> QED BY <1>5 DEF y, r

LEMMA SameResidue ==
    ASSUME NEW S \in Nat \ {0}, NEW a \in Int, NEW b \in Int,
           a % S = b % S, a - b < S, b - a < S
    PROVE  a = b
<1> DEFINE r == a % S
<1>0. r = b % S
  OBVIOUS
<1>1. r \in 0 .. S - 1 /\ \E x \in Int : a = S * x + r
  BY Division
<1>2. \E y \in Int : b = S * y + r
  BY <1>0, Division
<1> HIDE DEF r
<1>3. PICK x \in Int, y \in Int : a = S * x + r /\ b = S * y + r
  BY <1>1, <1>2
<1>4. S * (x - y) < S /\ S * (y - x) < S
  BY <1>1, <1>3
<1>5. \A k \in Int : S * k < S => k <= 0
  OBVIOUS
<1>6. x - y <= 0 /\ y - x <= 0
  BY <1>4, <1>5
<1>7. x = y
  BY <1>6
<1> QED BY <1>3, <1>7

\* An immediate and the number it stands for lead to one address.
LEMMA SignedOf ==
    ASSUME NEW imm \in 0 .. Span - 1, NEW o \in Int
    PROVE  /\ Signed(imm) \in Int /\ 2 * Signed(imm) \in -Span .. Span - 1
           /\ (o + Signed(imm)) % Span = (o + imm) % Span
<1>1. Span \in Nat \ {0} /\ Span % 2 = 0
  BY IpsecdAssumption
<1>2. Span \div 2 \in Int /\ Span = 2 * (Span \div 2)
  BY <1>1
<1>3. CASE imm >= Span \div 2
  <2>1. Signed(imm) = imm - Span
    BY <1>3 DEF Signed
  <2> DEFINE r == (o + imm) % Span
  <2>0. r \in 0 .. Span - 1 /\ \E q \in Int : o + imm = Span * q + r
    <3>1. o + imm \in Int
      BY <1>1
    <3> QED BY <1>1, <3>1, Division
  <2> HIDE DEF r
  <2>2. PICK q \in Int : o + imm = Span * q + r
    BY <2>0
  <2>3. o + (imm - Span) = Span * (q - 1) + r /\ q - 1 \in Int
    BY <1>1, <2>0, <2>2
  <2>4. (o + (imm - Span)) % Span = r
    BY <1>1, <2>0, <2>3, Residue
  <2> QED BY <1>1, <1>2, <1>3, <2>1, <2>4 DEF r
<1>4. CASE ~(imm >= Span \div 2)
  BY <1>1, <1>2, <1>4 DEF Signed
<1> QED BY <1>3, <1>4

-----------------------------------------------------------------------------
(* A finite set of integers has a last one: of the sets of what is above   *)
(* each of its members, one has none of the others within it.              *)

LEMMA LastExists ==
    ASSUME NEW S \in SUBSET Int, IsFiniteSet(S), S # {}
    PROVE  \E m \in S : \A x \in S : x <= m
<1> DEFINE above(x) == {y \in S : y > x}
           T == {above(x) : x \in S}
<1>1. IsWellFoundedOn(StrictSubsetOrdering(S), FiniteSubsetsOf(S))
  BY FS_StrictSubsetOrderingWellFounded
<1>2. FiniteSubsetsOf(S) = SUBSET S
  BY FS_FiniteSubsetsOfFinite
<1>3. T \subseteq SUBSET S /\ T # {}
  OBVIOUS
<1>4. PICK t \in T : \A r \in T : <<r, t>> \notin StrictSubsetOrdering(S)
  <2> HIDE DEF T
  <2>1. T \subseteq FiniteSubsetsOf(S)
    BY <1>2, <1>3
  <2> QED BY <1>1, <1>3, <2>1, WFMin
<1>5. PICK m \in S : t = above(m)
  OBVIOUS
<1>6. ASSUME NEW x \in S, x > m
      PROVE  FALSE
  <2>1. above(x) \subseteq above(m) /\ x \in above(m) /\ x \notin above(x)
    <3>1. x \in Int /\ m \in Int
      OBVIOUS
    <3>2. ASSUME NEW y \in S, y > x
          PROVE  y > m
      BY <1>6, <3>1, <3>2
    <3>3. above(x) \subseteq above(m)
      BY <3>2
    <3>4. x \in above(m)
      BY <1>6
    <3>5. x \notin above(x)
      BY <3>1
    <3> QED BY <3>3, <3>4, <3>5
  <2>2. <<above(x), above(m)>> \in StrictSubsetOrdering(S)
    <3>1. above(x) # above(m) /\ above(x) \in SUBSET S /\ above(m) \in SUBSET S
      BY <2>1
    <3> HIDE DEF above
    <3> QED BY <2>1, <3>1 DEF StrictSubsetOrdering
  <2>3. above(x) \in T
    BY <1>6
  <2> QED BY <1>4, <1>5, <2>2, <2>3
<1> QED BY <1>6

-----------------------------------------------------------------------------

\* A word keeps being one: what Written writes are instructions.
LEMMA WrittenType ==
    ASSUME TypeOK, NEW getter \in Int, NEW setter \in Int, PltTarget(bin, PropertyGet) \in Int
    PROVE  Written(getter, setter) \in Seq(Words) /\ Len(Written(getter, setter)) = Len(bin.text)
PROOF
<1> DEFINE n == Len(bin.text)
           w == Written(getter, setter)
<1>1. n \in Nat /\ DOMAIN bin.text = 1 .. n /\ \A o \in 1 .. n : bin.text[o] \in Words
  BY DEF TypeOK
<1>2. Branch(getter) \in Words
  <2>1. (PltTarget(bin, PropertyGet) - (getter + 2)) % Span \in 0 .. Span - 1
    BY IpsecdAssumption
  <2>2. Branch(getter) \in Branches
    BY <2>1 DEF Branch, Branches
  <2> QED  BY <2>2 DEF Words
<1>3. \A op \in Plain : Word(op) \in Words
  BY DEF Word, Words
<1>4. w \in [1 .. n -> Words]
  BY <1>1, <1>2, <1>3 DEF Written, Plain
<1> QED  BY <1>1, <1>4

\* The owner of an instruction is the last start up to it.
LEMMA OwnerIs ==
    ASSUME bin.starts \subseteq Int, NEW f \in bin.starts, NEW o \in Int, f <= o,
           \A g \in bin.starts : g <= o => g <= f
    PROVE  Owner(o) = f
PROOF
<1>1. Owner(o) \in bin.starts /\ Owner(o) <= o /\ \A g \in bin.starts : g <= o => g <= Owner(o)
  BY DEF Owner
<1> QED  BY <1>1

\* A getter that prologue_before found holds two calls behind its paciasp, so
\* the three instructions written there are its own.
LEMMA GetterIsOwn ==
    ASSUME TypeOK, StubsApart, PacAtStarts, Imports(GetService),
           NEW c \in Calls, NEW g \in PrologueBefore(c), IsGetter(g)
    PROVE  /\ \A o \in g .. g + 2 : Owner(o) = Owner(c)
           /\ g + 2 \in DOMAIN bin.text
PROOF
<1>1. bin.starts = Prologues /\ bin.starts \subseteq Int /\ DOMAIN bin.text \subseteq Int
  BY DEF TypeOK, PacAtStarts, Prologues
<1>2. g \in bin.starts /\ g < c /\ c \in Int /\ bin.text[g].op = "paciasp"
         /\ \A q \in bin.starts : q < c => q <= g
  BY <1>1 DEF PrologueBefore, Prologues, Calls
<1>3. bin.text[c].op = "bl" /\ CallTo(c, PltTarget(bin, GetService))
  BY DEF Calls, CallTo
<1>4. PICK m \in g .. (g + Window - 1) :
        /\ m \in DOMAIN bin.text
        /\ \A p \in Prologues : ~ (g < p /\ p <= m)
        /\ \E n \in {PropertyGet, CStr} : Imports(n) /\ CallTo(m, PltTarget(bin, n))
  BY DEF IsGetter
<1>5. m # c
  <2>1. PICK n \in {PropertyGet, CStr} : Imports(n) /\ CallTo(m, PltTarget(bin, n))
    BY <1>4
  <2>2. PltTarget(bin, n) # PltTarget(bin, GetService)
    BY <2>1 DEF Imports, StubsApart
  <2> QED  BY <1>3, <2>1, <2>2 DEF CallTo
<1>6. m > g /\ m \in Int
  <2>1. bin.text[m].op = "bl"
    BY <1>4 DEF CallTo
  <2> QED  BY <2>1, <1>1, <1>2, <1>4
<1>7. c \notin bin.starts
  BY <1>1, <1>3 DEF Prologues
<1>8. Owner(c) = g
  BY <1>1, <1>2, <1>7, OwnerIs
<1>9. g + 2 <= m \/ g + 2 <= c
  BY <1>2, <1>5, <1>6, <1>1
<1>10. ASSUME NEW o \in g .. g + 2  PROVE Owner(o) = g
  <2>1. \A q \in bin.starts : q <= o => q <= g
    BY <1>1, <1>2, <1>4, <1>6, <1>7, <1>9
  <2> QED  BY <2>1, <1>1, <1>2, OwnerIs
<1>11. g + 2 \in DOMAIN bin.text
  <2>1. DOMAIN bin.text = 1 .. Len(bin.text) /\ Len(bin.text) \in Nat
    BY DEF TypeOK
  <2>2. c \in DOMAIN bin.text /\ g \in DOMAIN bin.text
    BY DEF Calls, PrologueBefore, Prologues
  <2> QED  BY <1>4, <1>9, <2>1, <2>2
<1> QED  BY <1>8, <1>10, <1>11

\* The setter's paciasp is its own.
LEMMA SetterIsOwn ==
    ASSUME TypeOK, PacAtStarts, NEW c \in Calls, NEW s \in PrologueBefore(c)
    PROVE  Owner(s) = Owner(c) /\ s \in bin.starts
PROOF
<1>1. bin.starts = Prologues /\ bin.starts \subseteq Int
  BY DEF TypeOK, PacAtStarts, Prologues
<1>2. s \in bin.starts /\ s < c /\ c \in Int /\ \A q \in bin.starts : q < c => q <= s
  BY <1>1 DEF PrologueBefore, Prologues, Calls, TypeOK
<1>3. c \notin bin.starts
  BY <1>1 DEF Prologues, Calls, CallTo
<1>4. Owner(c) = s
  BY <1>1, <1>2, <1>3, OwnerIs
<1>5. Owner(s) = s
  BY <1>1, <1>2, OwnerIs
<1> QED  BY <1>2, <1>4, <1>5

-----------------------------------------------------------------------------
(* What the patcher makes out of a linked binary.                          *)

\* plt_targets finds every import's stub.
LEMMA StubOf ==
    ASSUME Linked(bin), NEW n, Imports(n)
    PROVE  /\ PltTarget(bin, n) \in Int
           /\ <<PltTarget(bin, n) % Span, n>> \in bin.stubs
           /\ \A a : <<a, n>> \in bin.stubs => a = PltTarget(bin, n) % Span
           /\ \A o \in DOMAIN bin.text : 2 * (PltTarget(bin, n) - o) \in -Span .. Span - 1
PROOF
<1>1. PICK stub \in 0 .. bin.size :
         /\ bin.size = Header + stub * Len(bin.names)
         /\ bin.stubs = {<<(bin.plt + Header + (k - 1) * stub) % Span, bin.names[k]>> :
                             k \in DOMAIN bin.names}
         /\ \A o \in DOMAIN bin.text, k \in DOMAIN bin.names :
               2 * ((bin.plt + Header + (k - 1) * stub) - o) \in -Span .. Span - 1
  BY DEF Linked
<1>2. /\ bin.plt \in Int /\ Header \in Nat /\ bin.names \in Seq(Range(bin.names))
      /\ \A j, k \in DOMAIN bin.names : bin.names[j] = bin.names[k] => j = k
  BY IpsecdAssumption DEF Linked
<1>3. PICK k \in DOMAIN bin.names : bin.names[k] = n
  BY DEF Imports, Range
<1>4. Len(bin.names) \in Nat \ {0} /\ k \in Int /\ bin.names # << >>
  BY <1>2, <1>3
<1>5. stub \in Int
  OBVIOUS
<1>6. Stub(bin) = stub
  <2>1. bin.size - Header = stub * Len(bin.names)
    BY <1>1, <1>2, <1>4, <1>5
  <2>2. \A S \in Nat \ {0}, q \in Int : (q * S) \div S = q
    OBVIOUS
  <2> QED  BY <1>4, <1>5, <2>1, <2>2 DEF Stub
<1>7. (CHOOSE j \in DOMAIN bin.names : bin.names[j] = n) = k
  BY <1>2, <1>3
<1>8. PltTarget(bin, n) = bin.plt + Header + (k - 1) * stub
  BY <1>6, <1>7 DEF PltTarget
<1>9. PltTarget(bin, n) \in Int
  BY <1>2, <1>4, <1>5, <1>8
<1>10. <<PltTarget(bin, n) % Span, n>> \in bin.stubs
  BY <1>1, <1>3, <1>8
<1>11. ASSUME NEW a, <<a, n>> \in bin.stubs
       PROVE  a = PltTarget(bin, n) % Span
  <2>1. PICK j \in DOMAIN bin.names :
           <<a, n>> = <<(bin.plt + Header + (j - 1) * stub) % Span, bin.names[j]>>
    BY <1>1, <1>11
  <2> QED  BY <1>2, <1>3, <1>8, <2>1
<1> QED  BY <1>1, <1>8, <1>9, <1>10, <1>11

\* An instruction is a call of an import for the patcher if it is one.
LEMMA CallIs ==
    ASSUME TypeOK, Linked(bin), NEW n \in {GetService, PropertyGet, CStr}, Imports(n),
           NEW o \in DOMAIN bin.text
    PROVE  CallTo(o, PltTarget(bin, n)) <=> bin.calls[o] = n
PROOF
<1> DEFINE P == PltTarget(bin, n)
           imm == bin.text[o].imm
<1>1. /\ P \in Int /\ <<P % Span, n>> \in bin.stubs
      /\ \A a : <<a, n>> \in bin.stubs => a = P % Span
      /\ 2 * (P - o) \in -Span .. Span - 1
  BY StubOf
<1>2. bin.calls[o] = n <=> bin.text[o].op = "bl" /\ <<(o + imm) % Span, n>> \in bin.stubs
  BY DEF Linked
<1>3. Span \in Nat \ {0} /\ o \in Int /\ bin.text[o] \in Words
  BY IpsecdAssumption DEF TypeOK
<1>4. bin.text[o].op = "bl" => imm \in 0 .. Span - 1
  BY <1>3 DEF Words, Plain, Branches
<1> HIDE DEF P, imm
<1>5. ASSUME bin.text[o].op = "bl"
      PROVE  o + Signed(imm) = P <=> (o + imm) % Span = P % Span
  <2>1. /\ Signed(imm) \in Int /\ 2 * Signed(imm) \in -Span .. Span - 1
        /\ (o + Signed(imm)) % Span = (o + imm) % Span
    BY <1>3, <1>4, <1>5, SignedOf
  <2>2. ASSUME (o + imm) % Span = P % Span
        PROVE  o + Signed(imm) = P
    <3> DEFINE x == o + Signed(imm)
    <3>1. x \in Int /\ x % Span = P % Span
      BY <1>3, <2>1, <2>2
    <3>2. x - P < Span /\ P - x < Span
      <4>1. P - o \in Int /\ 2 * (P - o) >= -Span /\ 2 * (P - o) < Span
        BY <1>1, <1>3
      <4>2. 2 * Signed(imm) >= -Span /\ 2 * Signed(imm) < Span
        BY <1>3, <2>1
      <4>3. x - P = Signed(imm) - (P - o) /\ P - x = (P - o) - Signed(imm)
        <5>1. \A a, b, c \in Int : (b + c) - a = c - (a - b) /\ a - (b + c) = (a - b) - c
          OBVIOUS
        <5> QED  BY <1>1, <1>3, <2>1, <5>1, ZenonT(60)
      <4>4. \A S, u, v \in Int : 2 * u >= -S /\ 2 * u < S /\ 2 * v >= -S /\ 2 * v < S
                                   => u - v < S /\ v - u < S
        OBVIOUS
      <4>5. Signed(imm) - (P - o) < Span /\ (P - o) - Signed(imm) < Span
        BY <1>3, <2>1, <4>1, <4>2, <4>4
      <4> QED  BY <4>3, <4>5
    <3> HIDE DEF x
    <3>3. x = P
      BY <1>1, <1>3, <3>1, <3>2, SameResidue
    <3> QED  BY <3>3 DEF x
  <2> QED  BY <2>1, <2>2
<1>6. CallTo(o, P) <=> bin.text[o].op = "bl" /\ o + Signed(imm) = P
  BY DEF CallTo, imm
<1>7. <<(o + imm) % Span, n>> \in bin.stubs <=> (o + imm) % Span = P % Span
  BY <1>1
<1> QED  BY <1>2, <1>5, <1>6, <1>7 DEF P

\* With a paciasp at the first instruction, every instruction has an owner.
LEMMA OwnerExists ==
    ASSUME TypeOK, PacAtStarts, NEW o \in DOMAIN bin.text
    PROVE  /\ Owner(o) \in Prologues /\ Owner(o) <= o
           /\ \A g \in Prologues : g <= o => g <= Owner(o)
PROOF
<1> DEFINE S == {f \in bin.starts : f <= o}
<1>1. /\ Prologues = bin.starts /\ 1 \in bin.starts
      /\ DOMAIN bin.text = 1 .. Len(bin.text) /\ Len(bin.text) \in Nat
      /\ bin.starts \subseteq DOMAIN bin.text
  BY DEF PacAtStarts, TypeOK
<1>2. S \subseteq 1 .. Len(bin.text) /\ 1 \in S /\ S \in SUBSET Int
  BY <1>1
<1>3. IsFiniteSet(S)
  <2>1. IsFiniteSet(1 .. Len(bin.text))
    BY <1>1, FS_Interval
  <2> QED  BY <1>2, <2>1, FS_Subset
<1>4. PICK m \in S : \A x \in S : x <= m
  <2> HIDE DEF S
  <2> QED  BY <1>2, <1>3, LastExists
<1>5. Owner(o) = m
  BY <1>1, <1>4, OwnerIs
<1> QED  BY <1>1, <1>4, <1>5

\* prologue_before finds a call's function.
LEMMA PrologueIsOwner ==
    ASSUME TypeOK, PacAtStarts, NEW c \in Calls
    PROVE  PrologueBefore(c) = {Owner(c)}
PROOF
<1>1. c \in DOMAIN bin.text /\ c \notin Prologues /\ c \in Int /\ Prologues \subseteq Int
  BY DEF Calls, CallTo, Prologues, TypeOK
<1>2. Owner(c) \in Prologues /\ Owner(c) <= c /\ \A g \in Prologues : g <= c => g <= Owner(c)
  BY <1>1, OwnerExists
<1>3. Owner(c) < c /\ Owner(c) \in Int
  <2>1. Owner(c) \in Int /\ Owner(c) # c
    BY <1>1, <1>2
  <2> QED  BY <1>1, <1>2, <2>1
<1>4. \A q \in Prologues : q < c => q <= Owner(c)
  BY <1>1, <1>2
<1>5. Owner(c) \in PrologueBefore(c)
  BY <1>2, <1>3, <1>4 DEF PrologueBefore
<1>6. ASSUME NEW p \in PrologueBefore(c)
      PROVE  p = Owner(c)
  <2>1. p \in Prologues /\ p \in Int /\ p < c /\ \A q \in Prologues : q < c => q <= p
    BY <1>1 DEF PrologueBefore
  <2>2. p <= Owner(c) /\ Owner(c) <= p
    BY <1>2, <1>3, <1>4, <2>1
  <2> QED  BY <1>3, <2>1, <2>2
<1> QED  BY <1>5, <1>6

CallsOf(n) == {o \in DOMAIN bin.calls : bin.calls[o] = n}

\* A function holds a call that tells a getter, in the window.
Marked(f) == \E c \in CallsOf(PropertyGet) \cup CallsOf(CStr) : Owner(c) = f /\ c < f + Window

\* What is called is imported.
LEMMA CalledIsImported ==
    ASSUME Linked(bin), NEW n \in {GetService, PropertyGet, CStr}, NEW o \in CallsOf(n)
    PROVE  Imports(n) /\ o \in DOMAIN bin.text
PROOF
<1>1. o \in DOMAIN bin.text /\ <<(o + bin.text[o].imm) % Span, n>> \in bin.stubs
  BY DEF Linked, CallsOf
<1>2. \A x \in bin.stubs : \E k \in DOMAIN bin.names : x[2] = bin.names[k]
  BY DEF Linked
<1>3. \E k \in DOMAIN bin.names : n = bin.names[k]
  BY <1>1, <1>2
<1> QED  BY <1>1, <1>3 DEF Imports, Range

\* is_getter sees a function's marks, and no other function's.
LEMMA GetterIsMarked ==
    ASSUME TypeOK, PacAtStarts, Linked(bin), NEW f \in bin.starts
    PROVE  IsGetter(f) <=> Marked(f)
PROOF
<1>0. /\ f \in Prologues /\ f \in Int /\ Window \in Nat \ {0} /\ Prologues \subseteq Int
      /\ DOMAIN bin.text \subseteq Int
  BY IpsecdAssumption DEF PacAtStarts, Prologues, TypeOK
<1>1. ASSUME NEW o \in DOMAIN bin.text
      PROVE  Owner(o) = f <=> f <= o /\ \A p \in Prologues : ~ (f < p /\ p <= o)
  <2>1. /\ Owner(o) \in Prologues /\ Owner(o) <= o /\ Owner(o) \in Int /\ o \in Int
        /\ \A g \in Prologues : g <= o => g <= Owner(o)
    BY <1>0, <1>1, OwnerExists
  <2>2. ASSUME Owner(o) = f
        PROVE  f <= o /\ \A p \in Prologues : ~ (f < p /\ p <= o)
    <3>1. f <= o
      BY <2>1, <2>2
    <3>2. ASSUME NEW p \in Prologues PROVE ~ (f < p /\ p <= o)
      <4>1. p \in Int /\ f \in Int
        BY <1>0
      <4>2. p <= o => p <= f
        BY <2>1, <2>2
      <4> QED  BY <4>1, <4>2
    <3> QED  BY <3>1, <3>2
  <2>3. ASSUME f <= o, \A p \in Prologues : ~ (f < p /\ p <= o)
        PROVE  Owner(o) = f
    <3>1. f <= Owner(o) /\ ~ (f < Owner(o))
      BY <1>0, <2>1, <2>3
    <3> QED  BY <1>0, <2>1, <3>1
  <2> QED  BY <2>2, <2>3
<1>2. ASSUME IsGetter(f) PROVE Marked(f)
  <2>1. PICK o \in f .. (f + Window - 1) :
          /\ o \in DOMAIN bin.text
          /\ \A p \in Prologues : ~ (f < p /\ p <= o)
          /\ \E n \in {PropertyGet, CStr} : Imports(n) /\ CallTo(o, PltTarget(bin, n))
    BY <1>2 DEF IsGetter
  <2>2. PICK n \in {PropertyGet, CStr} : Imports(n) /\ CallTo(o, PltTarget(bin, n))
    BY <2>1
  <2>3. bin.calls[o] = n /\ DOMAIN bin.calls = DOMAIN bin.text
    BY <2>1, <2>2, CallIs DEF Linked
  <2>4. o \in CallsOf(PropertyGet) \cup CallsOf(CStr)
    BY <2>1, <2>2, <2>3 DEF CallsOf
  <2>5. f <= o /\ o < f + Window
    BY <1>0, <2>1
  <2> QED  BY <1>1, <2>1, <2>4, <2>5 DEF Marked
<1>3. ASSUME Marked(f) PROVE IsGetter(f)
  <2>1. PICK o \in CallsOf(PropertyGet) \cup CallsOf(CStr) : Owner(o) = f /\ o < f + Window
    BY <1>3 DEF Marked
  <2>2. PICK n \in {PropertyGet, CStr} : o \in CallsOf(n)
    BY <2>1
  <2>3. Imports(n) /\ o \in DOMAIN bin.text
    BY <2>2, CalledIsImported
  <2>4. CallTo(o, PltTarget(bin, n))
    BY <2>2, <2>3, CallIs DEF CallsOf
  <2>5. f <= o /\ \A p \in Prologues : ~ (f < p /\ p <= o)
    BY <1>1, <2>1, <2>3
  <2>6. o \in f .. (f + Window - 1)
    BY <1>0, <2>1, <2>3, <2>5
  <2> QED  BY <2>3, <2>4, <2>5, <2>6 DEF IsGetter
<1> QED  BY <1>2, <1>3

\* In a regular binary the two functions are found and told apart.
LEMMA RegularIsFound ==
    ASSUME TypeOK, Linked(bin), NEW g \in bin.starts, NEW s \in bin.starts, Regular(g, s)
    PROVE  /\ PacAtStarts /\ g # s /\ ~Refuses /\ Fns = {g, s}
           /\ IsGetter(g) /\ ~IsGetter(s)
           /\ Imports(GetService) /\ Imports(PropertyGet)
PROOF
<1>1. /\ PacAtStarts /\ Imports(PropertyGet) /\ g # s
      /\ {g, s} = {Owner(c) : c \in CallsOf(GetService)}
      /\ Cardinality(CallsOf(GetService)) = 2
      /\ Marked(g) /\ ~Marked(s)
  BY DEF Regular, CallsOf, Marked
<1>2. Imports(GetService)
  <2>1. PICK c \in CallsOf(GetService) : g = Owner(c)
    BY <1>1
  <2> QED  BY <2>1, CalledIsImported
<1>3. Calls = CallsOf(GetService)
  <2>1. DOMAIN bin.calls = DOMAIN bin.text
    BY DEF Linked
  <2>2. \A o \in DOMAIN bin.text : CallTo(o, PltTarget(bin, GetService)) <=> bin.calls[o] = GetService
    BY <1>2, CallIs
  <2> QED  BY <2>1, <2>2 DEF Calls, CallsOf
<1>4. \A c \in Calls : PrologueBefore(c) = {Owner(c)}
  BY <1>1, PrologueIsOwner
<1>5. Fns = {g, s}
  BY <1>1, <1>3, <1>4 DEF Fns
<1>6. Cardinality({g, s}) = 2
  <2>1. IsFiniteSet({g}) /\ Cardinality({g}) = 1
    BY FS_Singleton
  <2>2. Cardinality({g} \cup {s}) = 1 + 1
    BY <1>1, <2>1, FS_AddElement
  <2>3. {g} \cup {s} = {g, s}
    OBVIOUS
  <2> QED  BY <2>2, <2>3
<1>7. IsGetter(g) /\ ~IsGetter(s)
  BY <1>1, GetterIsMarked
<1>8. ~Refuses
  BY <1>1, <1>2, <1>3, <1>4, <1>5, <1>6, <1>7 DEF Refuses
<1> QED  BY <1>1, <1>2, <1>5, <1>7, <1>8

\* What Written leaves in a regular binary.
LEMMA RegularIsWritten ==
    ASSUME TypeOK, StubsApart, Linked(bin), NEW g \in bin.starts, NEW s \in bin.starts,
           Regular(g, s)
    PROVE  /\ Written(g, s)[s].op = "ret"
           /\ Written(g, s)[g].op = "mov x0, x2" /\ Written(g, s)[g + 1].op = "mov x2, xzr"
           /\ Written(g, s)[g + 2].op = "b"
           /\ <<(g + 2 + Written(g, s)[g + 2].imm) % Span, PropertyGet>> \in bin.stubs
           /\ DOMAIN Written(g, s) = DOMAIN bin.text
           /\ \A o \in DOMAIN bin.text \ {s, g, g + 1, g + 2} : Written(g, s)[o] = bin.text[o]
PROOF
<1>1. /\ PacAtStarts /\ g # s /\ ~Refuses /\ Fns = {g, s}
      /\ IsGetter(g) /\ Imports(GetService) /\ Imports(PropertyGet)
  BY RegularIsFound
<1>2. PICK c \in Calls : g \in PrologueBefore(c)
  BY <1>1 DEF Fns
<1>3. PICK d \in Calls : s \in PrologueBefore(d)
  BY <1>1 DEF Fns
<1>4. (\A o \in g .. g + 2 : Owner(o) = Owner(c)) /\ g + 2 \in DOMAIN bin.text
  BY <1>1, <1>2, GetterIsOwn
<1>5. g \in Int /\ s \in Int /\ {g, s} \subseteq DOMAIN bin.text
      /\ DOMAIN bin.text = 1 .. Len(bin.text) /\ Len(bin.text) \in Nat
  BY DEF TypeOK
<1>6. g + 1 \in DOMAIN bin.text
  BY <1>4, <1>5
<1>7. \A f \in bin.starts : Owner(f) = f
  <2>1. bin.starts \subseteq Int
    BY DEF TypeOK
  <2> QED  BY <2>1, OwnerIs
<1>8. s # g + 1 /\ s # g + 2
  <2>1. Owner(g) = g /\ Owner(s) = s
    BY <1>7
  <2>2. Owner(g) = Owner(g + 1) /\ Owner(g) = Owner(g + 2)
    BY <1>4, <1>5
  <2> QED  BY <1>1, <2>1, <2>2
<1> DEFINE w == Written(g, s)
<1>9. /\ DOMAIN w = DOMAIN bin.text
      /\ w[s] = Word("ret") /\ w[g] = Word("mov x0, x2") /\ w[g + 1] = Word("mov x2, xzr")
      /\ w[g + 2] = Branch(g)
      /\ \A o \in DOMAIN bin.text \ {s, g, g + 1, g + 2} : w[o] = bin.text[o]
  <2>1. bin.text \in [DOMAIN bin.text -> Words]
    BY <1>5 DEF TypeOK
  <2>2. g # g + 1 /\ g # g + 2 /\ g + 1 # g + 2
    BY <1>5
  <2>3. {s, g, g + 1, g + 2} \subseteq DOMAIN bin.text
    BY <1>4, <1>5, <1>6
  <2> QED  BY <1>1, <1>8, <2>1, <2>2, <2>3 DEF Written
<1>10. <<(g + 2 + Branch(g).imm) % Span, PropertyGet>> \in bin.stubs
  <2> DEFINE P == PltTarget(bin, PropertyGet)
  <2>1. P \in Int /\ <<P % Span, PropertyGet>> \in bin.stubs
    BY <1>1, StubOf
  <2>2. Branch(g).imm = (P - (g + 2)) % Span
    BY DEF Branch
  <2> HIDE DEF P
  <2>3. Span \in Nat \ {0} /\ g + 2 \in Int /\ P - (g + 2) \in Int
    BY <1>5, <2>1, IpsecdAssumption
  <2>4. ((g + 2) + ((P - (g + 2)) % Span)) % Span = ((g + 2) + (P - (g + 2))) % Span
    BY <2>3, ResidueOfSum
  <2>5. (g + 2) + (P - (g + 2)) = P
    BY <2>1, <2>3
  <2> QED  BY <2>1, <2>2, <2>4, <2>5
<1>11. /\ Word("ret").op = "ret" /\ Word("mov x0, x2").op = "mov x0, x2"
       /\ Word("mov x2, xzr").op = "mov x2, xzr" /\ Branch(g).op = "b"
  BY DEF Word, Branch
<1> HIDE DEF w
<1>12. /\ w[s].op = "ret"
       /\ w[g].op = "mov x0, x2" /\ w[g + 1].op = "mov x2, xzr"
       /\ w[g + 2].op = "b"
       /\ <<(g + 2 + w[g + 2].imm) % Span, PropertyGet>> \in bin.stubs
       /\ DOMAIN w = DOMAIN bin.text
       /\ \A o \in DOMAIN w \ {s, g, g + 1, g + 2} : w[o] = bin.text[o]
  BY <1>9, <1>10, <1>11
<1> QED  BY <1>12 DEF w

\* A run on a regular binary keeps the promise.
LEMMA PatchIsPromised ==
    ASSUME TypeOK, StubsApart, Linked(bin), Patch
    PROVE  RegularIsPatched'
PROOF
<1>1. bin' = bin
  BY DEF Patch
<1>2. \A g, s : Regular(g, s)' <=> Regular(g, s)
  BY <1>1 DEF Regular, PacAtStarts, Prologues, Imports, Owner
<1>3. ASSUME NEW g \in bin.starts, NEW s \in bin.starts, Regular(g, s)
      PROVE  status' = "patched" /\ text' = Written(g, s)
  <2>1. /\ g # s /\ ~Refuses /\ Fns = {g, s} /\ IsGetter(g) /\ ~IsGetter(s)
    BY <1>3, RegularIsFound
  <2>2. PICK getter \in Fns, setter \in Fns :
          /\ getter # setter /\ IsGetter(getter)
          /\ text' = Written(getter, setter) /\ status' = "patched"
    BY <2>1 DEF Patch
  <2>3. getter = g /\ setter = s
    BY <2>1, <2>2
  <2> QED  BY <2>2, <2>3
<1>4. ASSUME NEW g \in bin.starts, NEW s \in bin.starts, Regular(g, s)
      PROVE  /\ status' = "patched"
             /\ text'[s].op = "ret"
             /\ text'[g].op = "mov x0, x2" /\ text'[g + 1].op = "mov x2, xzr"
             /\ text'[g + 2].op = "b"
             /\ <<(g + 2 + text'[g + 2].imm) % Span, PropertyGet>> \in bin.stubs
             /\ \A o \in DOMAIN text' \ {s, g, g + 1, g + 2} : text'[o] = bin.text[o]
  <2>1. /\ Written(g, s)[s].op = "ret"
        /\ Written(g, s)[g].op = "mov x0, x2" /\ Written(g, s)[g + 1].op = "mov x2, xzr"
        /\ Written(g, s)[g + 2].op = "b"
        /\ <<(g + 2 + Written(g, s)[g + 2].imm) % Span, PropertyGet>> \in bin.stubs
        /\ DOMAIN Written(g, s) = DOMAIN bin.text
        /\ \A o \in DOMAIN bin.text \ {s, g, g + 1, g + 2} : Written(g, s)[o] = bin.text[o]
    BY <1>4, RegularIsWritten, ZenonT(60)
  <2>2. status' = "patched" /\ text' = Written(g, s)
    BY <1>3, <1>4
  <2> QED  BY <2>1, <2>2
<1>5. ASSUME NEW g \in bin'.starts, NEW s \in bin'.starts, Regular(g, s)'
      PROVE  /\ status' = "patched"
             /\ text'[s].op = "ret"
             /\ text'[g].op = "mov x0, x2" /\ text'[g + 1].op = "mov x2, xzr"
             /\ text'[g + 2].op = "b"
             /\ <<(g + 2 + text'[g + 2].imm) % Span, PropertyGet>> \in bin'.stubs
             /\ \A o \in DOMAIN text' \ {s, g, g + 1, g + 2} : text'[o] = bin'.text[o]
  <2>1. g \in bin.starts /\ s \in bin.starts /\ Regular(g, s)
    BY <1>1, <1>2, <1>5
  <2> QED  BY <1>1, <1>4, <2>1
<1> QED  BY <1>5 DEF RegularIsPatched

LEMMA PatchKeeps == ASSUME IInv, Patch PROVE IInv'
PROOF
<1> USE DEF IInv
<1>0. /\ status = "new" /\ bin' = bin /\ again' = again
      /\ PacAtStarts' = PacAtStarts /\ StubsApart'
  BY DEF Patch, PacAtStarts, Prologues, StubsApart, PltTarget, Stub
<1>1. CASE Refuses /\ status' = "refused" /\ UNCHANGED text
  BY <1>0, <1>1, PatchIsPromised DEF TypeOK, PacIsEnough, OnlyCallers
<1>2. CASE ~Refuses /\ status' = "patched"
           /\ \E getter \in Fns : \E setter \in Fns \ {getter} :
                IsGetter(getter) /\ text' = Written(getter, setter)
  <2>1. PICK getter \in Fns, setter \in Fns :
            getter # setter /\ IsGetter(getter) /\ text' = Written(getter, setter)
    BY <1>2
  <2>2. PICK c \in Calls : getter \in PrologueBefore(c)
    BY <2>1 DEF Fns
  <2>3. PICK d \in Calls : setter \in PrologueBefore(d)
    BY <2>1 DEF Fns
  <2>4. getter \in Int /\ setter \in Int /\ getter \in DOMAIN bin.text
    BY <2>2, <2>3 DEF PrologueBefore, Prologues, TypeOK
  <2>5. PltTarget(bin, PropertyGet) \in Int
    BY <1>2 DEF Refuses, Imports, StubsApart
  <2>6. TypeOK'
    BY <1>0, <1>2, <2>1, <2>4, <2>5, WrittenType DEF TypeOK
  <2>7. ASSUME PacAtStarts
        PROVE  OnlyCallers'
    <3>1. Imports(GetService)
      BY <1>2 DEF Refuses
    <3>2. \A o \in getter .. getter + 2 : Owner(o) = Owner(c)
      BY <3>1, <2>1, <2>2, <2>7, GetterIsOwn
    <3>3. Owner(setter) = Owner(d)
      BY <2>3, <2>7, SetterIsOwn
    <3>4. Callers' = Callers /\ \A o : Owner(o)' = Owner(o)
      BY <1>0 DEF Callers, Calls, CallTo, Owner, PltTarget, Stub, Signed
    <3>5. ASSUME NEW o \in DOMAIN bin.text, Written(getter, setter)[o] # bin.text[o]
          PROVE  o \in getter .. getter + 2 \/ o = setter
      <4>1. o \in {setter, getter, getter + 1, getter + 2}
        BY <3>5 DEF Written
      <4> QED  BY <4>1, <2>4
    <3>6. Owner(c) \in Callers /\ Owner(d) \in Callers
      BY DEF Callers
    <3>7. \A o \in DOMAIN bin.text :
            Written(getter, setter)[o] # bin.text[o] => Owner(o) \in Callers
      BY <3>2, <3>3, <3>5, <3>6
    <3>8. DOMAIN text' = DOMAIN bin.text
      BY <2>1 DEF Written
    <3> QED  BY <1>0, <2>1, <3>4, <3>7, <3>8 DEF OnlyCallers
  <2>8. PacIsEnough'
    BY <1>0, <2>7 DEF PacIsEnough
  <2>9. Linked(bin)' => RegularIsPatched'
    BY <1>0, PatchIsPromised
  <2> QED  BY <1>0, <2>6, <2>8, <2>9
<1> QED  BY <1>1, <1>2 DEF Patch

LEMMA RerunKeeps == ASSUME IInv, Rerun PROVE IInv'
PROOF
<1> USE DEF IInv
<1>1. /\ bin' = [bin EXCEPT !.text = text] /\ status' = "new" /\ again' = TRUE
      /\ text' = text
  BY DEF Rerun
<1>2. bin'.text = text /\ bin'.starts = bin.starts /\ bin'.names = bin.names
      /\ bin'.plt = bin.plt /\ bin'.size = bin.size
  BY <1>1 DEF TypeOK
<1>3. \A n : PltTarget(bin, n)' = PltTarget(bin, n)
  BY <1>2 DEF PltTarget, Stub
<1>4. StubsApart'
  BY <1>2, <1>3 DEF StubsApart
<1>5. TypeOK'
  BY <1>1, <1>2 DEF TypeOK
<1>6. PacIsEnough' /\ RegularIsPatched'
  BY <1>1 DEF PacIsEnough, OnlyCallers, RegularIsPatched
<1> QED  BY <1>4, <1>5, <1>6

THEOREM IpsecdInvariant == Spec => []IInv
PROOF
<1>1. Init => IInv
  BY IpsecdAssumption DEF Init, IInv, TypeOK, StubsApart, PacIsEnough, OnlyCallers, RegularIsPatched
<1>2. IInv /\ [Next]_vars => IInv'
  <2>1. ASSUME IInv, UNCHANGED vars PROVE IInv'
    <3>1. bin' = bin /\ text' = text /\ status' = status /\ again' = again
      BY <2>1 DEF vars
    <3>2. TypeOK' /\ StubsApart'
      BY <2>1, <3>1 DEF IInv, TypeOK, StubsApart, PltTarget, Stub
    <3>3. PacAtStarts' = PacAtStarts /\ Callers' = Callers /\ \A o : Owner(o)' = Owner(o)
      BY <3>1 DEF PacAtStarts, Prologues, Owner, Callers, Calls, CallTo, Signed, PltTarget, Stub
    <3>4. PacIsEnough'
      BY <2>1, <3>1, <3>3 DEF IInv, PacIsEnough, OnlyCallers
    <3>5. RegularIsPatched' <=> RegularIsPatched
      BY <3>1 DEF RegularIsPatched, Regular, PacAtStarts, Prologues, Imports, Owner
    <3>6. Linked(bin)' <=> Linked(bin)
      BY <3>1
    <3> QED  BY <2>1, <3>2, <3>4, <3>5, <3>6 DEF IInv
  <2> QED  BY <2>1, PatchKeeps, RerunKeeps DEF Next
<1> QED  BY <1>1, <1>2, PTL DEF Spec

\* The type invariant holds, whatever binary is patched.
THEOREM IpsecdTypeCorrect == Spec => []TypeOK
PROOF BY IpsecdInvariant, PTL DEF IInv

\* With a paciasp at every function, only functions that call getService are
\* ever changed, whatever else the binary holds and however often the tool is
\* run on it.
THEOREM OnlyCallersPatched == Spec => []PacIsEnough
PROOF BY IpsecdInvariant, PTL DEF IInv

\* Every linked binary with a paciasp at each function, two callers of
\* getService and a mark in one of them is patched as promised, of whatever
\* size, wherever its PLT is and whatever else it holds.
THEOREM RegularAlwaysPatched == Spec => [](Linked(bin) => RegularIsPatched)
PROOF BY IpsecdInvariant, PTL DEF IInv

-----------------------------------------------------------------------------
(* The staging directory.                                                  *)

\* No dump is cut short behind debugfs' back: an empty or a missing one is seen.
NeverCut == "cut" \notin DumpFaults

\* What staging has of a blob when the tool is past it.
Promised(p) == IF p \in run.image.paths THEN Whole(run.image.fw) ELSE None

\* An extraction into an empty directory has made what it is past, and nothing
\* is there but what this image gave.
ExtractedSoFar ==
    run # None /\ run.tool = "extract" =>
        /\ run.image \in Images
        /\ run.at \in {"ipsecd", "paths"} => run.todo = BlobSeq
        /\ NeverCut /\ run.fresh =>
             \A p \in Blobs :
                /\ stage[p] # None => run.image.readable /\ stage[p] = Promised(p)
                /\ p \notin ToSet(run.todo) => stage[p] = Promised(p)

\* The first zip is that of the staging the second one is made of.
ImsStaged ==
    /\ zips["ims"].is = "whole"
    /\ zips["ims"].files = Packed(Ims \cup Blobs)
    /\ \A p \in Ims \cup {Mac} : stage[p] # None

BuiltSoFar ==
    run # None /\ run.tool = "build" =>
        /\ run.at = "ims_zip" => \A p \in Ims \cup {Mac} : stage[p] # None
        /\ run.at \in {"vowifi", "vowifi_zip"} => ImsStaged
        /\ run.at = "vowifi_zip" => \A p \in Vow : stage[p] # None

StageInv == StageTypeOK /\ ExtractedSoFar /\ BuiltSoFar /\ NoHalfJar

LEMMA BlobsType == \A p \in Blobs : p \in Staged /\ p # Jar /\ p # Ipsecd
BY StagingAssumption DEF Staged

\* What debugfs makes of a file is one of ours or is not there.
LEMMA DumpedType ==
    ASSUME StageTypeOK, NEW image \in Images, NEW p \in Staged, NEW c \in Dumped(image, p)
    PROVE  c \in Content \cup {None}
<1>1. stage[p] \in Content \cup {None}
  BY DEF StageTypeOK
<1>2. Whole(image.fw) \in Content
  BY DEF Whole, Content, Firmware
<1>3. \A f \in DumpFaults \ {"nothing"} : [fw |-> image.fw, is |-> f] \in Content
  BY StagingAssumption DEF Content, Firmware
<1> QED  BY <1>1, <1>2, <1>3 DEF Dumped

\* A blob that passes for extracted is the image's, if it was none before.
LEMMA DumpedBlob ==
    ASSUME NeverCut, NEW image \in Images, NEW p, NEW c \in Dumped(image, p),
           Exists(image, p), Extracted(c),
           stage[p] # None =>
               image.readable /\ stage[p] = IF p \in image.paths THEN Whole(image.fw) ELSE None
    PROVE  image.readable /\ p \in image.paths /\ c = Whole(image.fw)
<1>1. c # None /\ c.is # "empty"
  BY DEF Extracted
<1>2. CASE ~image.readable \/ p \notin image.paths
  <2>1. c = stage[p]
    BY <1>2 DEF Dumped
  <2> QED  BY <1>1, <1>2, <2>1 DEF Exists
<1>3. CASE image.readable /\ p \in image.paths
  <2>1. \/ c = Whole(image.fw)
        \/ \E f \in DumpFaults \ {"nothing"} : c = [fw |-> image.fw, is |-> f]
        \/ c = stage[p]
    BY <1>3 DEF Dumped
  <2>2. ASSUME NEW f \in DumpFaults \ {"nothing"}, c = [fw |-> image.fw, is |-> f] PROVE FALSE
    <3>1. f = "empty"
      BY StagingAssumption DEF NeverCut
    <3> QED  BY <1>1, <2>2, <3>1
  <2> QED  BY <1>1, <1>3, <2>1, <2>2
<1> QED  BY <1>2, <1>3

\* While no tool is under way, nothing is asked but of the jar.
LEMMA IdleKeeps ==
    ASSUME StageInv, StageTypeOK', run' = None, stage'[Jar] = stage[Jar]
    PROVE  StageInv'
BY DEF StageInv, ExtractedSoFar, BuiltSoFar, NoHalfJar

LEMMA ExtractKeeps == ASSUME StageInv, NEW image \in Images, Extract(image) PROVE StageInv'
<1>1. CASE ~ \A p \in Substrate : Exists(image, p)
  <2>1. run' = None /\ ended' = "failed" /\ UNCHANGED <<stage, paths, zips>>
    BY <1>1 DEF Extract, Ends
  <2>2. StageTypeOK'
    BY <2>1 DEF StageInv, StageTypeOK
  <2> QED  BY <2>1, <2>2, IdleKeeps
<1>2. CASE \A p \in Substrate : Exists(image, p)
  <2> DEFINE fresh == \A p \in Blobs : stage[p] = None
  <2>1. /\ run' = [tool |-> "extract", at |-> "ipsecd", image |-> image,
                   todo |-> BlobSeq, fresh |-> fresh, cert |-> None]
        /\ ended' = "running" /\ UNCHANGED <<stage, paths, zips>>
    BY <1>2 DEF Extract, Starts
  <2>2. run' \in Runs
    BY <2>1, StagingAssumption DEF Runs
  <2>3. StageTypeOK'
    BY <2>1, <2>2, StagingAssumption DEF StageInv, StageTypeOK
  <2>4. \A p \in Blobs : p \in ToSet(BlobSeq)
    BY DEF Blobs
  <2>5. ExtractedSoFar'
    <3>1. run'.image = image /\ run'.todo = BlobSeq /\ run'.fresh = fresh
      BY <2>1
    <3> QED  BY <2>1, <2>4, <3>1 DEF ExtractedSoFar
  <2>6. BuiltSoFar'
    BY <2>1 DEF BuiltSoFar
  <2>7. NoHalfJar'
    BY <2>1 DEF StageInv, NoHalfJar
  <2> QED  BY <2>3, <2>5, <2>6, <2>7 DEF StageInv
<1> QED  BY <1>1, <1>2

LEMMA DumpIpsecdKeeps == ASSUME StageInv, DumpIpsecd PROVE StageInv'
<1>1. run # None /\ run.tool = "extract" /\ run.at = "ipsecd" /\ run \in Runs
      /\ run.image \in Images /\ run.todo = BlobSeq
  BY DEF DumpIpsecd, At, Idle, StageInv, StageTypeOK, ExtractedSoFar
<1>2. PICK c \in Dumped(run.image, Ipsecd) : stage' = [stage EXCEPT ![Ipsecd] = c]
  BY DEF DumpIpsecd
<1>3. Ipsecd \in Staged /\ Ipsecd # Jar
  BY StagingAssumption DEF Staged
<1>4. /\ run' = [run EXCEPT !.at = "paths"]
      /\ UNCHANGED <<ended, paths, zips>>
  BY DEF DumpIpsecd, Goes
<1>5. /\ run' \in Runs /\ run'.tool = "extract" /\ run'.at = "paths" /\ run'.image = run.image
      /\ run'.todo = run.todo /\ run'.fresh = run.fresh
  BY <1>1, <1>4 DEF Runs
<1>6. c \in Content \cup {None}
  BY <1>1, <1>2, <1>3, DumpedType DEF StageInv
<1>7. StageTypeOK'
  <2>1. stage' \in [Staged -> Content \cup {None}]
    BY <1>2, <1>3, <1>6 DEF StageInv, StageTypeOK
  <2>2. run' # None /\ ended' = "running"
    BY <1>1, <1>4, <1>5, StagingAssumption DEF StageInv, StageTypeOK
  <2> QED  BY <1>4, <1>5, <2>1, <2>2 DEF StageInv, StageTypeOK
<1>8. \A p \in Staged \ {Ipsecd} : stage'[p] = stage[p]
  BY <1>2 DEF StageInv, StageTypeOK
<1>9. ExtractedSoFar'
  <2>1. \A p \in Blobs : stage'[p] = stage[p] /\ Promised(p)' = Promised(p)
    BY <1>5, <1>8, BlobsType DEF Promised
  <2> QED  BY <1>1, <1>5, <2>1 DEF StageInv, ExtractedSoFar
<1>10. BuiltSoFar'
  BY <1>5 DEF BuiltSoFar
<1>11. NoHalfJar'
  <2>1. Jar \in Staged \ {Ipsecd}
    BY <1>3, StagingAssumption DEF Staged
  <2> QED  BY <1>8, <2>1 DEF StageInv, NoHalfJar
<1> QED  BY <1>7, <1>9, <1>10, <1>11 DEF StageInv

LEMMA WritePathsKeeps == ASSUME StageInv, WritePaths PROVE StageInv'
<1>1. run # None /\ run.tool = "extract" /\ run.at = "paths" /\ run \in Runs
      /\ run.image \in Images /\ run.todo = BlobSeq
  BY DEF WritePaths, At, Idle, StageInv, StageTypeOK, ExtractedSoFar
<1>2. /\ run' = [run EXCEPT !.at = "blobs"] /\ paths' = run.image.fw
      /\ UNCHANGED <<ended, stage, zips>>
  BY DEF WritePaths, Goes
<1>3. /\ run' \in Runs /\ run'.tool = "extract" /\ run'.at = "blobs" /\ run'.image = run.image
      /\ run'.todo = run.todo /\ run'.fresh = run.fresh
  BY <1>1, <1>2 DEF Runs
<1>4. StageTypeOK'
  <2>1. run' # None /\ ended' = "running"
    BY <1>1, <1>2, <1>3, StagingAssumption DEF StageInv, StageTypeOK
  <2>2. paths' \in Firmware
    BY <1>1, <1>2 DEF Firmware
  <2> QED  BY <1>2, <1>3, <2>1, <2>2 DEF StageInv, StageTypeOK
<1>5. ExtractedSoFar'
  <2>1. \A p : Promised(p)' = Promised(p)
    BY <1>3 DEF Promised
  <2> QED  BY <1>1, <1>2, <1>3, <2>1 DEF StageInv, ExtractedSoFar
<1>6. BuiltSoFar'
  BY <1>3 DEF BuiltSoFar
<1>7. NoHalfJar'
  BY <1>2 DEF StageInv, NoHalfJar
<1> QED  BY <1>4, <1>5, <1>6, <1>7 DEF StageInv

\* What is left to extract, without its first blob.
LEMMA TodoShrinks ==
    ASSUME NEW todo \in Seq(Blobs), todo # << >>
    PROVE  /\ Head(todo) \in Blobs /\ Tail(todo) \in Seq(Blobs)
           /\ ToSet(todo) = {Head(todo)} \cup ToSet(Tail(todo))
<1>1. Len(todo) \in Nat /\ Len(todo) > 0 /\ Head(todo) = todo[1]
  OBVIOUS
<1>2. /\ Tail(todo) \in Seq(Blobs) /\ Len(Tail(todo)) = Len(todo) - 1
      /\ \A k \in 1 .. Len(todo) - 1 : Tail(todo)[k] = todo[k + 1]
  OBVIOUS
<1>3. ASSUME NEW k \in DOMAIN todo, k # 1 PROVE todo[k] \in ToSet(Tail(todo))
  <2>1. k - 1 \in 1 .. Len(todo) - 1 /\ (k - 1) + 1 = k
    BY <1>1, <1>3
  <2>2. k - 1 \in DOMAIN Tail(todo) /\ Tail(todo)[k - 1] = todo[k]
    BY <1>2, <2>1
  <2> QED  BY <2>2 DEF ToSet
<1>4. ASSUME NEW k \in DOMAIN Tail(todo) PROVE Tail(todo)[k] \in ToSet(todo)
  <2>1. k \in 1 .. Len(todo) - 1 /\ k + 1 \in DOMAIN todo
    BY <1>1, <1>2
  <2> QED  BY <1>2, <2>1 DEF ToSet
<1>5. Head(todo) \in ToSet(todo)
  BY <1>1 DEF ToSet
<1>6. ToSet(todo) \subseteq {Head(todo)} \cup ToSet(Tail(todo))
  BY <1>1, <1>3 DEF ToSet
<1>7. ToSet(Tail(todo)) \subseteq ToSet(todo)
  BY <1>4 DEF ToSet
<1>8. Head(todo) \in Blobs
  BY <1>1
<1> QED  BY <1>2, <1>5, <1>6, <1>7, <1>8

LEMMA NextBlobKeeps == ASSUME StageInv, NextBlob PROVE StageInv'
<1>1. run # None /\ run.tool = "extract" /\ run.at = "blobs" /\ run \in Runs
      /\ run.image \in Images /\ run.todo \in Seq(Blobs) /\ ended = "running"
  BY DEF NextBlob, At, Idle, StageInv, StageTypeOK, ExtractedSoFar, Runs
<1>2. CASE run.todo = << >> /\ Ends("extracted") /\ UNCHANGED <<stage, paths, zips>>
  <2>1. run' = None /\ ended' = "extracted" /\ UNCHANGED <<stage, paths, zips>>
    BY <1>2 DEF Ends
  <2>2. StageTypeOK'
    BY <2>1 DEF StageInv, StageTypeOK
  <2> QED  BY <2>1, <2>2, IdleKeeps
<1>3. CASE run.todo # << >> /\ UNCHANGED <<paths, zips>>
  <2> DEFINE b == Head(run.todo)
  <2>1. /\ b \in Blobs /\ Tail(run.todo) \in Seq(Blobs)
        /\ ToSet(run.todo) = {b} \cup ToSet(Tail(run.todo))
    BY <1>1, <1>3, TodoShrinks
  <2>2. b \in Staged /\ b # Jar
    BY <2>1, BlobsType
  <2> HIDE DEF b
  <2>3. ASSUME NEW c \in Content \cup {None}, stage' = [stage EXCEPT ![b] = c],
               run' = [run EXCEPT !.todo = Tail(@)], UNCHANGED ended,
               NeverCut /\ run.fresh =>
                   /\ c # None => run.image.readable
                   /\ c = Promised(b)
        PROVE  StageInv'
    <3>1. /\ run' \in Runs /\ run'.tool = "extract" /\ run'.at = "blobs"
          /\ run'.image = run.image /\ run'.todo = Tail(run.todo) /\ run'.fresh = run.fresh
      BY <1>1, <2>1, <2>3 DEF Runs
    <3>2. StageTypeOK'
      <4>1. stage' \in [Staged -> Content \cup {None}]
        BY <2>2, <2>3 DEF StageInv, StageTypeOK
      <4>2. run' # None /\ ended' = "running"
        BY <1>1, <2>3, <3>1, StagingAssumption
      <4> QED  BY <1>3, <2>3, <3>1, <4>1, <4>2 DEF StageInv, StageTypeOK
    <3>3. stage'[b] = c /\ \A p \in Staged \ {b} : stage'[p] = stage[p]
      BY <2>2, <2>3 DEF StageInv, StageTypeOK
    <3>4. \A p : Promised(p)' = Promised(p)
      BY <3>1 DEF Promised
    <3>5. ExtractedSoFar'
      <4>1. ASSUME NeverCut, run.fresh, NEW p \in Blobs
            PROVE  /\ stage'[p] # None => run.image.readable /\ stage'[p] = Promised(p)
                   /\ p \notin ToSet(Tail(run.todo)) => stage'[p] = Promised(p)
        <5>1. CASE p = b
          BY <2>3, <3>3, <4>1, <5>1
        <5>2. CASE p # b
          <6>1. stage'[p] = stage[p]
            BY <3>3, <5>2, BlobsType
          <6>2. p \notin ToSet(Tail(run.todo)) => p \notin ToSet(run.todo)
            BY <2>1, <5>2
          <6> QED  BY <1>1, <4>1, <6>1, <6>2 DEF StageInv, ExtractedSoFar
        <5> QED  BY <5>1, <5>2
      <4> QED  BY <1>1, <3>1, <3>4, <4>1 DEF ExtractedSoFar
    <3>6. BuiltSoFar'
      BY <3>1 DEF BuiltSoFar
    <3>7. NoHalfJar'
      <4>1. Jar \in Staged \ {b}
        BY <2>2, StagingAssumption DEF Staged
      <4> QED  BY <3>3, <4>1 DEF StageInv, NoHalfJar
    <3> QED  BY <3>2, <3>5, <3>6, <3>7 DEF StageInv
  <2>4. CASE ~Exists(run.image, b)
    <3>1. run' = [run EXCEPT !.todo = Tail(@)] /\ UNCHANGED <<ended, stage>>
      BY <1>3, <2>4 DEF NextBlob, b
    <3>2. stage[b] \in Content \cup {None} /\ stage' = [stage EXCEPT ![b] = stage[b]]
      BY <2>2, <3>1 DEF StageInv, StageTypeOK
    <3>3. Promised(b) = None
      BY <2>4 DEF Exists, Promised
    <3>4. NeverCut /\ run.fresh => stage[b] = Promised(b)
      BY <1>1, <2>1, <3>3 DEF StageInv, ExtractedSoFar
    <3> QED  BY <2>3, <3>1, <3>2, <3>3, <3>4
  <2>5. CASE Exists(run.image, b)
    <3>1. PICK c \in Dumped(run.image, b) :
             /\ stage' = [stage EXCEPT ![b] = c]
             /\ IF Extracted(c) THEN run' = [run EXCEPT !.todo = Tail(@)] /\ UNCHANGED ended
                ELSE Ends("failed")
      BY <1>3, <2>5 DEF NextBlob, b
    <3>2. c \in Content \cup {None}
      BY <1>1, <2>2, DumpedType DEF StageInv
    <3>3. CASE Extracted(c)
      <4>1. ASSUME NeverCut, run.fresh PROVE run.image.readable /\ c = Promised(b)
        <5>1. stage[b] # None => run.image.readable /\ stage[b] = Promised(b)
          BY <1>1, <2>1, <4>1 DEF StageInv, ExtractedSoFar
        <5>2. run.image.readable /\ b \in run.image.paths /\ c = Whole(run.image.fw)
          BY <1>1, <2>5, <3>3, <4>1, <5>1, DumpedBlob DEF Promised
        <5> QED  BY <5>2 DEF Promised
      <4> QED  BY <2>3, <3>1, <3>2, <3>3, <4>1
    <3>4. CASE ~Extracted(c)
      <4>1. run' = None /\ ended' = "failed"
        BY <3>1, <3>4 DEF Ends
      <4>2. StageTypeOK'
        BY <1>3, <2>2, <3>1, <3>2, <4>1 DEF StageInv, StageTypeOK
      <4>3. stage'[Jar] = stage[Jar]
        BY <2>2, <3>1, StagingAssumption DEF StageInv, StageTypeOK, Staged
      <4> QED  BY <4>1, <4>2, <4>3, IdleKeeps
    <3> QED  BY <3>3, <3>4
  <2> QED  BY <2>4, <2>5
<1> QED  BY <1>2, <1>3 DEF NextBlob

LEMMA RecipeKeeps == ASSUME StageInv, NEW p \in Ims \cup Vow, Recipe(p) PROVE StageInv'
<1>1. run = None /\ p # Jar /\ p \in Staged /\ UNCHANGED <<paths, zips, run, ended>>
  BY DEF Recipe, Idle, Staged
<1>2. PICK c \in Content \cup {None} : stage' = [stage EXCEPT ![p] = c]
  <2>1. CASE Source[p] = None
    <3>1. Whole(None) \in Content
      BY DEF Whole, Content
    <3> QED  BY <2>1, <3>1 DEF Recipe
  <2>2. CASE Source[p] # None
    <3>1. stage[Source[p]] \in Content \cup {None}
      BY <2>2, StagingAssumption DEF StageInv, StageTypeOK
    <3> QED  BY <2>2, <3>1 DEF Recipe
  <2> QED  BY <2>1, <2>2
<1>3. StageTypeOK'
  BY <1>1, <1>2 DEF StageInv, StageTypeOK
<1>4. stage'[Jar] = stage[Jar]
  BY <1>1, <1>2, StagingAssumption DEF StageInv, StageTypeOK, Staged
<1> QED  BY <1>1, <1>3, <1>4, IdleKeeps

\* All four markers are there, so the class is stock in all four places.
LEMMA PatchesStock ==
    ASSUME NEW class \in Classes, Patches(class) PROVE \A s \in Sites : class[s] = "stock"
<1> SUFFICES ASSUME NEW s \in Sites PROVE class[s] = "stock"
  OBVIOUS
<1>1. MarkerCount(s, class[s]) = 1 /\ class["reject"] # "patched"
  BY DEF Patches
<1>2. class[s] \in {"stock", "patched", "twice", "absent"}
  BY StagingAssumption DEF Sites
<1> QED  BY <1>1, <1>2 DEF MarkerCount

LEMMA PatchJarKeeps == ASSUME StageInv, NEW class \in Classes, PatchJar(class) PROVE StageInv'
<1>1. Jar \in Staged
  BY StagingAssumption DEF Staged
<1>2. run' = None /\ UNCHANGED <<paths, zips>>
  BY DEF PatchJar, Ends
<1>3. CASE Patches(class)
  <2>1. stage' = [stage EXCEPT ![Jar] = Whole(None)] /\ ended' = "patched"
    BY <1>3, PatchesStock DEF PatchJar, Ends, Whole
  <2>2. Whole(None) \in Content
    BY DEF Whole, Content
  <2>3. StageTypeOK'
    BY <1>1, <1>2, <2>1, <2>2 DEF StageInv, StageTypeOK
  <2>4. stage'[Jar] = Whole(None)
    BY <1>1, <2>1 DEF StageInv, StageTypeOK
  <2> QED  BY <1>2, <2>3, <2>4 DEF StageInv, ExtractedSoFar, BuiltSoFar, NoHalfJar, Whole
<1>4. CASE ~Patches(class)
  <2>1. UNCHANGED stage /\ ended' = "failed"
    BY <1>4 DEF PatchJar, Ends
  <2>2. StageTypeOK'
    BY <1>2, <2>1 DEF StageInv, StageTypeOK
  <2> QED  BY <1>2, <2>1, <2>2, IdleKeeps
<1> QED  BY <1>3, <1>4

LEMMA BuildKeeps == ASSUME StageInv, Build PROVE StageInv'
<1>1. PICK der \in CertDerHex :
         Starts("build", "ims", None, << >>, FALSE, der) /\ UNCHANGED <<stage, paths, zips>>
  BY DEF Build
<1>2. der \in Cert
  BY DEF CertDerHex, Cert
<1>3. /\ run' = [tool |-> "build", at |-> "ims", image |-> None,
                 todo |-> << >>, fresh |-> FALSE, cert |-> der]
      /\ ended' = "running" /\ UNCHANGED <<stage, paths, zips>>
  BY <1>1 DEF Starts
<1>4. run' \in Runs /\ run'.tool = "build" /\ run'.at = "ims"
  <2>1. << >> \in Seq(Blobs)
    OBVIOUS
  <2> QED  BY <1>2, <1>3, <2>1 DEF Runs
<1>5. StageTypeOK'
  BY <1>3, <1>4, StagingAssumption DEF StageInv, StageTypeOK
<1> QED  BY <1>3, <1>4, <1>5 DEF StageInv, ExtractedSoFar, BuiltSoFar, NoHalfJar

\* The files that a module is packed of.
LEMMA PackedType == ASSUME StageTypeOK, NEW files PROVE Packed(files) \in [Staged -> Content \cup {None}]
BY DEF Packed, StageTypeOK

LEMMA ModulesAre ==
    /\ Modules["ims"].needs = Ims \cup {Mac} /\ Modules["ims"].takes = Ims \cup Blobs
    /\ Modules["vowifi"].needs = Vow /\ Modules["vowifi"].takes = Vow
BY DEF Modules

\* What a step of the build does to the list of what is under way.
LEMMA BuildGoes ==
    ASSUME StageTypeOK, run # None, run.tool = "build",
           NEW at \in {"ims_zip", "vowifi", "vowifi_zip"}, Goes(at),
           UNCHANGED <<stage, paths>>, DOMAIN zips' = {"ims", "vowifi"},
           \A z \in DOMAIN zips' : zips'[z] \in ModuleZip \cup {None}
    PROVE  StageTypeOK' /\ run' # None /\ run'.tool = "build" /\ run'.at = at
<1>1. run \in Runs /\ ended = "running" /\ ended' = "running" /\ run' = [run EXCEPT !.at = at]
  BY DEF StageTypeOK, Goes
<1>2. run' \in Runs /\ run'.tool = "build" /\ run'.at = at
  BY <1>1 DEF Runs
<1>3. run' # None
  BY <1>2, StagingAssumption
<1> QED  BY <1>1, <1>2, <1>3 DEF StageTypeOK

LEMMA OpenZipKeeps ==
    ASSUME StageInv, NEW z \in {"ims", "vowifi"}, OpenZip(z) PROVE StageInv'
<1>1. run # None /\ run.tool = "build" /\ run.at = z /\ UNCHANGED <<stage, paths>>
  BY DEF OpenZip, At, Idle
<1>2. CASE ~Need(Modules[z].needs)
  <2>1. run' = None /\ ended' = "failed" /\ UNCHANGED zips
    BY <1>2 DEF OpenZip, Ends
  <2>2. StageTypeOK'
    BY <1>1, <2>1 DEF StageInv, StageTypeOK
  <2> QED  BY <1>1, <2>1, <2>2, IdleKeeps
<1>3. CASE Need(Modules[z].needs)
  <2> DEFINE torn == [is |-> "torn", files |-> Packed({}), cert |-> None]
  <2>1. zips' = [zips EXCEPT ![z] = torn] /\ Goes(Zipping[z])
    BY <1>3 DEF OpenZip
  <2>2. torn \in ModuleZip
    BY PackedType DEF ModuleZip, StageInv
  <2> HIDE DEF torn
  <2>3. DOMAIN zips' = {"ims", "vowifi"} /\ \A y \in DOMAIN zips' : zips'[y] \in ModuleZip \cup {None}
    BY <2>1, <2>2 DEF StageInv, StageTypeOK
  <2>4. CASE z = "ims"
    <3>1. Zipping[z] = "ims_zip" /\ Modules[z].needs = Ims \cup {Mac}
      BY <2>4, ModulesAre DEF Zipping
    <3>2. Goes("ims_zip")
      BY <2>1, <3>1
    <3>3. StageTypeOK' /\ run' # None /\ run'.tool = "build" /\ run'.at = "ims_zip"
      BY <1>1, <2>3, <3>2, BuildGoes DEF StageInv
    <3>4. \A p \in Ims \cup {Mac} : stage'[p] # None
      BY <1>1, <1>3, <3>1 DEF Need
    <3> QED  BY <1>1, <3>3, <3>4 DEF StageInv, ExtractedSoFar, BuiltSoFar, NoHalfJar
  <2>5. CASE z = "vowifi"
    <3>1. Zipping[z] = "vowifi_zip" /\ Modules[z].needs = Vow
      BY <2>5, ModulesAre DEF Zipping
    <3>2. Goes("vowifi_zip")
      BY <2>1, <3>1
    <3>3. StageTypeOK' /\ run' # None /\ run'.tool = "build" /\ run'.at = "vowifi_zip"
      BY <1>1, <2>3, <3>2, BuildGoes DEF StageInv
    <3>4. \A p \in Vow : stage'[p] # None
      BY <1>1, <1>3, <3>1 DEF Need
    <3>5. zips'["ims"] = zips["ims"]
      BY <2>1, <2>5 DEF StageInv, StageTypeOK
    <3>6. ImsStaged
      BY <1>1, <2>5 DEF StageInv, BuiltSoFar
    <3>7. Packed(Ims \cup Blobs)' = Packed(Ims \cup Blobs)
      BY <1>1 DEF Packed
    <3>8. ImsStaged'
      BY <1>1, <3>5, <3>6, <3>7 DEF ImsStaged
    <3> QED  BY <1>1, <3>3, <3>4, <3>8 DEF StageInv, ExtractedSoFar, BuiltSoFar, NoHalfJar
  <2> QED  BY <2>4, <2>5
<1> QED  BY <1>2, <1>3

LEMMA CloseZipKeeps ==
    ASSUME StageInv, NEW z \in {"ims", "vowifi"}, CloseZip(z) PROVE StageInv'
<1>1. run # None /\ run.tool = "build" /\ run.at = Zipping[z] /\ UNCHANGED <<stage, paths>>
  BY DEF CloseZip, At, Idle
<1> DEFINE zip == [is |-> "whole", files |-> Packed(Modules[z].takes),
                   cert |-> IF z = "ims" THEN run.cert ELSE None]
<1>2. /\ zips' = [zips EXCEPT ![z] = zip]
      /\ IF z = "ims" THEN Goes("vowifi") ELSE Ends("built")
  BY DEF CloseZip
<1>3. zip \in ModuleZip
  <2>1. run \in Runs
    BY <1>1 DEF StageInv, StageTypeOK
  <2>2. (IF z = "ims" THEN run.cert ELSE None) \in Cert \cup {None}
    BY <2>1 DEF Runs
  <2> QED  BY <2>2, PackedType DEF ModuleZip, StageInv
<1>4. zip.is = "whole" /\ zip.files = Packed(Modules[z].takes)
  OBVIOUS
<1> HIDE DEF zip
<1>5. /\ DOMAIN zips' = {"ims", "vowifi"} /\ zips'[z] = zip
      /\ \A y \in DOMAIN zips' : zips'[y] \in ModuleZip \cup {None}
  BY <1>2, <1>3 DEF StageInv, StageTypeOK
<1>6. CASE z = "ims"
  <2>1. Goes("vowifi") /\ run.at = "ims_zip"
    BY <1>1, <1>2, <1>6 DEF Zipping
  <2>2. StageTypeOK' /\ run' # None /\ run'.tool = "build" /\ run'.at = "vowifi"
    BY <1>1, <1>5, <2>1, BuildGoes DEF StageInv
  <2>3. \A p \in Ims \cup {Mac} : stage[p] # None
    BY <1>1, <2>1 DEF StageInv, BuiltSoFar
  <2>4. zips'["ims"].is = "whole" /\ zips'["ims"].files = Packed(Ims \cup Blobs)
    BY <1>4, <1>5, <1>6, ModulesAre
  <2>5. Packed(Ims \cup Blobs)' = Packed(Ims \cup Blobs)
    BY <1>1 DEF Packed
  <2>6. ImsStaged'
    BY <1>1, <2>3, <2>4, <2>5 DEF ImsStaged
  <2> QED  BY <1>1, <2>2, <2>6 DEF StageInv, ExtractedSoFar, BuiltSoFar, NoHalfJar
<1>7. CASE z = "vowifi"
  <2>1. run' = None /\ ended' = "built"
    BY <1>2, <1>7 DEF Ends
  <2>2. StageTypeOK'
    BY <1>1, <1>5, <2>1 DEF StageInv, StageTypeOK
  <2> QED  BY <1>1, <2>1, <2>2, IdleKeeps
<1> QED  BY <1>6, <1>7

LEMMA KillKeeps == ASSUME StageInv, Kill PROVE StageInv'
<1>1. run' = None /\ ended' = "killed" /\ UNCHANGED <<stage, paths, zips>>
  BY DEF Kill, Ends
<1>2. StageTypeOK'
  BY <1>1 DEF StageInv, StageTypeOK
<1> QED  BY <1>1, <1>2, IdleKeeps

THEOREM StageInvariant == StageSpec => []StageInv
<1>1. StageInit => StageInv
  <2> SUFFICES ASSUME StageInit PROVE StageInv
    OBVIOUS
  <2>1. run = None /\ stage = [p \in Staged |-> None]
    BY DEF StageInit
  <2>2. DOMAIN zips = {"ims", "vowifi"} /\ \A z \in DOMAIN zips : zips[z] = None
    BY DEF StageInit
  <2>3. paths = None /\ ended = "killed"
    BY DEF StageInit
  <2>4. StageTypeOK
    BY <2>1, <2>2, <2>3 DEF StageTypeOK
  <2>5. NoHalfJar
    BY <2>1, StagingAssumption DEF NoHalfJar, Staged
  <2> QED  BY <2>1, <2>4, <2>5 DEF StageInv, ExtractedSoFar, BuiltSoFar
<1>2. StageInv /\ [StageNext]_stageVars => StageInv'
  <2> SUFFICES ASSUME StageInv, [StageNext]_stageVars PROVE StageInv'
    OBVIOUS
  <2>1. CASE Tools
    BY <2>1, DumpIpsecdKeeps, WritePathsKeeps, NextBlobKeeps, OpenZipKeeps, CloseZipKeeps DEF Tools
  <2>2. CASE Kill
    BY <2>2, KillKeeps
  <2>3. CASE \E image \in Images : Extract(image)
    BY <2>3, ExtractKeeps
  <2>4. CASE \E p \in Ims \cup Vow : Recipe(p)
    BY <2>4, RecipeKeeps
  <2>5. CASE \E class \in Classes : PatchJar(class)
    BY <2>5, PatchJarKeeps
  <2>6. CASE Build
    BY <2>6, BuildKeeps
  <2>7. CASE UNCHANGED stageVars
    <3>1. \A p : Promised(p)' = Promised(p)
      BY <2>7 DEF stageVars, Promised
    <3>2. Packed(Ims \cup Blobs)' = Packed(Ims \cup Blobs)
      BY <2>7 DEF stageVars, Packed
    <3>3. StageTypeOK'
      BY <2>7 DEF stageVars, StageInv, StageTypeOK
    <3>4. ExtractedSoFar'
      BY <2>7, <3>1 DEF stageVars, StageInv, ExtractedSoFar
    <3>5. BuiltSoFar'
      BY <2>7, <3>2 DEF stageVars, StageInv, BuiltSoFar, ImsStaged
    <3> QED  BY <2>7, <3>3, <3>4, <3>5 DEF stageVars, StageInv, NoHalfJar
  <2> QED  BY <2>1, <2>2, <2>3, <2>4, <2>5, <2>6, <2>7 DEF StageNext
<1> QED  BY <1>1, <1>2, PTL DEF StageSpec

\* The staging directory and the zips hold what they should, and a tool is under
\* way exactly when it says so.
THEOREM StageTypeCorrect == StageSpec => []StageTypeOK
<1>1. StageInv => StageTypeOK
  BY DEF StageInv
<1> QED  BY <1>1, StageInvariant, PTL

\* Whatever jars the patcher is given and however often, the jar that is packed
\* has both fixes or is not there.
THEOREM NeverHalfJar == StageSpec => []NoHalfJar
<1>1. StageInv => NoHalfJar
  BY DEF StageInv
<1> QED  BY <1>1, StageInvariant, PTL

\* For every list of blobs and every image: an extraction into an empty directory
\* that ends with 0 has each blob of its image and no other, as long as no dump
\* is cut short unnoticed.
THEOREM ExtractionAlwaysComplete == ASSUME NeverCut PROVE StageSpec => ExtractionComplete
<1>1. ASSUME StageInv, [StageNext]_stageVars,
             run # None, ended' = "extracted", run.fresh, NEW p \in Blobs
      PROVE  stage'[p] = IF p \in run.image.paths THEN Whole(run.image.fw) ELSE None
  <2>1. ended = "running"
    BY <1>1 DEF StageInv, StageTypeOK
  <2>2. NextBlob
    BY <1>1, <2>1 DEF StageNext, Tools, Kill, Ends, DumpIpsecd, WritePaths, Goes, OpenZip, CloseZip,
          Extract, Starts, Recipe, PatchJar, Build, stageVars, Idle
  <2>3. run.tool = "extract"
    BY <2>2 DEF NextBlob, At
  <2>4. CASE run.todo = << >> /\ UNCHANGED stage
    <3>1. p \notin ToSet(run.todo)
      BY <2>4 DEF ToSet
    <3>2. stage[p] = Promised(p)
      BY <1>1, <2>3, <3>1 DEF StageInv, ExtractedSoFar
    <3> QED  BY <2>4, <3>2 DEF Promised
  <2>5. CASE run.todo # << >>
    BY <1>1, <2>1, <2>2, <2>5 DEF NextBlob, Ends
  <2> QED  BY <2>2, <2>4, <2>5 DEF NextBlob
<1>2. StageInv /\ [StageNext]_stageVars =>
        [run # None /\ ended' = "extracted" /\ run.fresh =>
            \A p \in Blobs : stage'[p] =
                IF p \in run.image.paths THEN Whole(run.image.fw) ELSE None]_stageVars
  BY <1>1
<1> QED  BY <1>2, StageInvariant, PTL DEF StageSpec, ExtractionComplete

\* Whatever an earlier build left, one that ends with 0 leaves two whole zips, of
\* one staging, with every file that a module needs.
THEOREM BuiltIsAlwaysStaged == StageSpec => BuiltIsStaged
<1>1. ASSUME StageInv, [StageNext]_stageVars, run # None, ended' = "built",
             NEW z \in DOMAIN zips
      PROVE  /\ zips'[z].is = "whole" /\ zips'[z].files = Packed(Modules[z].takes)
             /\ \A p \in Modules[z].needs : zips'[z].files[p] # None
  <2>1. ended = "running" /\ DOMAIN zips = {"ims", "vowifi"}
    BY <1>1 DEF StageInv, StageTypeOK
  <2>2. PICK y \in {"ims", "vowifi"} : CloseZip(y)
    BY <1>1, <2>1 DEF StageNext, Tools, Kill, Ends, DumpIpsecd, WritePaths, Goes, OpenZip, NextBlob,
          Extract, Starts, Recipe, PatchJar, Build, stageVars, Idle
  <2>3. CloseZip("vowifi")
    BY <1>1, <2>1, <2>2 DEF CloseZip, Goes
  <2>4. run.tool = "build" /\ run.at = "vowifi_zip"
    BY <2>3 DEF CloseZip, At, Zipping
  <2>5. /\ zips'["ims"] = zips["ims"]
        /\ zips'["vowifi"].is = "whole" /\ zips'["vowifi"].files = Packed(Vow)
    BY <2>1, <2>3, ModulesAre DEF CloseZip
  <2>6. ImsStaged /\ \A p \in Vow : stage[p] # None
    BY <1>1, <2>4 DEF StageInv, BuiltSoFar
  <2>7. \A p \in Ims \cup {Mac} : Packed(Ims \cup Blobs)[p] # None
    <3>1. \A p \in Ims \cup {Mac} : p \in Staged /\ p \in Ims \cup Blobs
      BY StagingAssumption DEF Staged
    <3> QED  BY <2>6, <3>1 DEF ImsStaged, Packed
  <2>8. \A p \in Vow : Packed(Vow)[p] # None
    BY <2>6 DEF Packed, Staged
  <2>9. CASE z = "ims"
    BY <2>5, <2>6, <2>7, <2>9, ModulesAre DEF ImsStaged
  <2>10. CASE z = "vowifi"
    BY <2>5, <2>8, <2>10, ModulesAre
  <2> QED  BY <2>1, <2>9, <2>10
<1>2. StageInv /\ [StageNext]_stageVars =>
        [run # None /\ ended' = "built" =>
            \A z \in DOMAIN zips :
                /\ zips'[z].is = "whole" /\ zips'[z].files = Packed(Modules[z].takes)
                /\ \A p \in Modules[z].needs : zips'[z].files[p] # None]_stageVars
  BY <1>1
<1> QED  BY <1>2, StageInvariant, PTL DEF StageSpec, BuiltIsStaged

-----------------------------------------------------------------------------
(* The binary manifest: sequences.                                         *)

\* A set of integers between two others has a last one.
LEMMA LastIn ==
    ASSUME NEW a \in Int, NEW b \in Int, NEW S, S \subseteq a .. b, S # {}
    PROVE  \E m \in S : \A x \in S : x <= m
<1>1. IsFiniteSet(a .. b)
  BY FS_Interval
<1>2. S \in SUBSET Int
  OBVIOUS
<1>3. IsFiniteSet(S)
  BY <1>1, FS_Subset
<1> QED BY <1>2, <1>3, LastExists

\* Where the items of a concatenation come from.
LEMMA Joined ==
    ASSUME NEW s \in Seq(Nat), NEW t \in Seq(Nat)
    PROVE  /\ s \o t \in Seq(Nat) /\ Len(s \o t) = Len(s) + Len(t)
           /\ \A q \in 1 .. Len(s) : (s \o t)[q] = s[q]
           /\ \A q \in 1 .. Len(t) : (s \o t)[Len(s) + q] = t[q]
<1>1. Len(s) \in Nat /\ Len(t) \in Nat
  BY LenProperties
<1>2. /\ s \o t \in Seq(Nat) /\ Len(s \o t) = Len(s) + Len(t)
      /\ \A q \in 1 .. Len(s) + Len(t) : (s \o t)[q] = IF q <= Len(s) THEN s[q] ELSE t[q - Len(s)]
  BY ConcatProperties
<1>3. ASSUME NEW q \in 1 .. Len(s) PROVE (s \o t)[q] = s[q]
  <2>1. q \in 1 .. Len(s) + Len(t) /\ q <= Len(s)
    BY <1>1
  <2> QED BY <1>2, <2>1
<1>4. ASSUME NEW q \in 1 .. Len(t) PROVE (s \o t)[Len(s) + q] = t[q]
  <2>1. Len(s) + q \in 1 .. Len(s) + Len(t) /\ ~ (Len(s) + q <= Len(s)) /\ Len(s) + q - Len(s) = q
    BY <1>1
  <2> QED BY <1>2, <2>1
<1> QED BY <1>2, <1>3, <1>4

-----------------------------------------------------------------------------
(* Cells.                                                                  *)

\* A cell is written.
LEMMA PutIs ==
    ASSUME NEW d \in Seq(Nat), NEW o \in 0 .. Len(d) - 1, NEW v \in Nat
    PROVE  /\ Put(d, o, v) \in Seq(Nat) /\ Len(Put(d, o, v)) = Len(d)
           /\ \A q \in 0 .. Len(d) - 1 : Cell(Put(d, o, v), q) = IF q = o THEN v ELSE Cell(d, q)
<1>1. o + 1 \in 1 .. Len(d)
  OBVIOUS
<1> QED BY <1>1, ExceptSeq DEF Put, Cell

LEMMA CellIs == ASSUME NEW d \in Seq(Nat), NEW q \in 0 .. Len(d) - 1 PROVE Cell(d, q) \in Nat
<1>1. q + 1 \in 1 .. Len(d)
  OBVIOUS
<1> QED BY <1>1, ElementOfSeq DEF Cell

\* A part of a file.
LEMMA CutIs ==
    ASSUME NEW d \in Seq(Nat), NEW m \in 0 .. Len(d), NEW n \in 0 .. Len(d), m <= n
    PROVE  /\ SubSeq(d, m + 1, n) \in Seq(Nat) /\ Len(SubSeq(d, m + 1, n)) = n - m
           /\ \A q \in 1 .. n - m : SubSeq(d, m + 1, n)[q] = Cell(d, m + q - 1)
<1>1. \A i \in m + 1 .. n : d[i] \in Nat
  <2> TAKE i \in m + 1 .. n
  <2>1. i \in 1 .. Len(d)
    OBVIOUS
  <2> QED BY <2>1, ElementOfSeq
<1>2. \A q \in 1 .. n - (m + 1) + 1 : SubSeq(d, m + 1, n)[q] = d[m + 1 + q - 1]
  BY <1>1, SubSeqProperties
<1>3. SubSeq(d, m + 1, n) \in Seq(Nat) /\ Len(SubSeq(d, m + 1, n)) = IF m + 1 <= n THEN n - (m + 1) + 1 ELSE 0
  BY <1>1, SubSeqProperties
<1>4. \A q \in 1 .. n - m : m + q - 1 + 1 = m + 1 + q - 1
  OBVIOUS
<1>5. n - (m + 1) + 1 = n - m
  OBVIOUS
<1>6. \A q \in 1 .. n - m : SubSeq(d, m + 1, n)[q] = Cell(d, m + q - 1)
  BY <1>2, <1>4, <1>5 DEF Cell
<1>7. m + 1 <= n <=> m # n
  OBVIOUS
<1>8. Len(SubSeq(d, m + 1, n)) = n - m
  BY <1>3, <1>5, <1>7
<1> QED BY <1>3, <1>6, <1>8

\* Cells are spliced in at o: those in front stay, those behind move up.
LEMMA SpliceIs ==
    ASSUME NEW d \in Seq(Nat), NEW x \in Seq(Nat), NEW o \in 0 .. Len(d)
    PROVE  /\ Splice(d, o, x) \in Seq(Nat) /\ Len(Splice(d, o, x)) = Len(d) + Len(x)
           /\ \A q \in 0 .. o - 1 : Cell(Splice(d, o, x), q) = Cell(d, q)
           /\ \A q \in 1 .. Len(x) : Cell(Splice(d, o, x), o + q - 1) = x[q]
           /\ \A q \in o .. Len(d) - 1 : Cell(Splice(d, o, x), q + Len(x)) = Cell(d, q)
<1> DEFINE a == SubSeq(d, 1, o)
           b == SubSeq(d, o + 1, Len(d))
           s == (a \o x) \o b
<1>0. s = Splice(d, o, x) /\ Len(d) \in Nat /\ Len(x) \in Nat
  BY DEF Splice
<1>1. a \in Seq(Nat) /\ Len(a) = o /\ \A q \in 1 .. o : a[q] = Cell(d, q - 1)
  <2>1. 0 \in 0 .. Len(d) /\ 0 <= o /\ 0 + 1 = 1 /\ o - 0 = o
    OBVIOUS
  <2>2. SubSeq(d, 0 + 1, o) \in Seq(Nat) /\ Len(SubSeq(d, 0 + 1, o)) = o - 0
           /\ \A q \in 1 .. o - 0 : SubSeq(d, 0 + 1, o)[q] = Cell(d, 0 + q - 1)
    BY <2>1, CutIs
  <2>3. \A q \in 1 .. o : 0 + q - 1 = q - 1
    OBVIOUS
  <2> QED BY <2>1, <2>2, <2>3
<1>2. b \in Seq(Nat) /\ Len(b) = Len(d) - o /\ \A q \in 1 .. Len(d) - o : b[q] = Cell(d, o + q - 1)
  <2>1. Len(d) \in 0 .. Len(d) /\ o <= Len(d)
    OBVIOUS
  <2> QED BY <2>1, CutIs
<1> HIDE DEF a, b
<1>3. /\ a \o x \in Seq(Nat) /\ Len(a \o x) = o + Len(x)
      /\ \A q \in 1 .. o : (a \o x)[q] = a[q]
      /\ \A q \in 1 .. Len(x) : (a \o x)[o + q] = x[q]
  BY <1>0, <1>1, Joined
<1>4. /\ s \in Seq(Nat) /\ Len(s) = Len(d) + Len(x)
      /\ \A q \in 1 .. o + Len(x) : s[q] = (a \o x)[q]
      /\ \A q \in 1 .. Len(d) - o : s[o + Len(x) + q] = b[q]
  <2> DEFINE u == a \o x
             m == o + Len(x)
             n == Len(d) - o
  <2>1. m \in Nat /\ n \in Nat /\ m + n = Len(d) + Len(x)
    BY <1>0
  <2>2. u \in Seq(Nat) /\ Len(u) = m /\ b \in Seq(Nat) /\ Len(b) = n
    BY <1>2, <1>3
  <2>0. s = u \o b
    OBVIOUS
  <2> HIDE DEF u, m, n, s
  <2>3. /\ s \in Seq(Nat) /\ Len(s) = m + n
        /\ \A q \in 1 .. m : s[q] = u[q]
        /\ \A q \in 1 .. n : s[m + q] = b[q]
    BY <2>0, <2>1, <2>2, Joined, ZenonT(40)
  <2> QED BY <2>1, <2>3 DEF u, m, n
<1> HIDE DEF s
<1>5. ASSUME NEW q \in 0 .. o - 1 PROVE Cell(s, q) = Cell(d, q)
  <2>1. q + 1 \in 1 .. o /\ q + 1 \in 1 .. o + Len(x) /\ (q + 1) - 1 = q
    BY <1>0
  <2> QED BY <2>1, <1>1, <1>3, <1>4, SMTT(40) DEF Cell
<1>6. ASSUME NEW q \in 1 .. Len(x) PROVE Cell(s, o + q - 1) = x[q]
  <2>1. o + q - 1 + 1 = o + q /\ o + q \in 1 .. o + Len(x)
    BY <1>0
  <2> QED BY <2>1, <1>3, <1>4 DEF Cell
<1>7. ASSUME NEW q \in o .. Len(d) - 1 PROVE Cell(s, q + Len(x)) = Cell(d, q)
  <2>1. q - o + 1 \in 1 .. Len(d) - o /\ o + Len(x) + (q - o + 1) = q + Len(x) + 1
        /\ o + (q - o + 1) - 1 = q
    BY <1>0
  <2>2. s[o + Len(x) + (q - o + 1)] = b[q - o + 1] /\ b[q - o + 1] = Cell(d, o + (q - o + 1) - 1)
    BY <2>1, <1>2, <1>4
  <2>3. s[q + Len(x) + 1] = Cell(d, q)
    BY <2>1, <2>2
  <2> QED BY <2>3 DEF Cell
<1> QED BY <1>0, <1>4, <1>5, <1>6, <1>7

-----------------------------------------------------------------------------
(* The walk over the chunks ends, and finds those that follow one another. *)

IsFrom(d, f, m) ==
    f = [o \in m .. Len(d) |->
            IF o + 2 >= Len(d) \/ Cell(d, o + 2) = 0 THEN << >>
            ELSE <<o>> \o (IF o + Cell(d, o + 2) <= Len(d) THEN f[o + Cell(d, o + 2)] ELSE << >>)]

LEMMA ChunksDef == \A d, p : Chunks(d, p) = (CHOOSE f : IsFrom(d, f, 0))[p.next]
BY DEF Chunks, IsFrom

\* The walk over the chunks is defined, for every file, whatever its sizes.
LEMMA FromExists == ASSUME NEW d \in Seq(Nat) PROVE \E f : IsFrom(d, f, 0)
<1> DEFINE S == {m \in 0 .. Len(d) : ~ \E f : IsFrom(d, f, m)}
<1>0. Len(d) \in Nat
  OBVIOUS
<1>1. SUFFICES ASSUME S # {} PROVE FALSE
  <2>1. 0 \notin S
    BY <1>1
  <2> QED BY <1>0, <2>1
<1>2. PICK m \in S : \A k \in S : k <= m
  <2>1. S \subseteq 0 .. Len(d) /\ 0 \in Int /\ Len(d) \in Int
    OBVIOUS
  <2> HIDE DEF S
  <2> QED BY <1>0, <1>1, <2>1, LastIn
<1>3. m \in 0 .. Len(d) /\ ~ \E f : IsFrom(d, f, m)
  OBVIOUS
<1>4. PICK f : m = Len(d) \/ IsFrom(d, f, m + 1)
  <2>1. CASE m # Len(d)
    <3>1. m + 1 \in 0 .. Len(d) /\ ~ (m + 1 <= m)
      BY <2>1, <1>0, <1>3
    <3>2. m + 1 \notin S
      BY <1>2, <3>1
    <3> QED BY <3>1, <3>2
  <2> QED BY <2>1
<1> DEFINE Step(g, o) ==
              IF o + 2 >= Len(d) \/ Cell(d, o + 2) = 0 THEN << >>
              ELSE <<o>> \o (IF o + Cell(d, o + 2) <= Len(d) THEN g[o + Cell(d, o + 2)] ELSE << >>)
           g == [o \in m .. Len(d) |-> IF o = m THEN Step(f, m) ELSE f[o]]
<1>5. ASSUME NEW o \in m .. Len(d), ~ (o + 2 >= Len(d) \/ Cell(d, o + 2) = 0), o + Cell(d, o + 2) <= Len(d)
      PROVE  o + Cell(d, o + 2) \in m + 1 .. Len(d)
  <2>1. Cell(d, o + 2) \in Nat
    BY <1>0, <1>3, <1>5, CellIs
  <2> QED BY <1>0, <1>3, <1>5, <2>1
<1>6. ASSUME NEW o \in m .. Len(d) PROVE g[o] = Step(g, o)
  <2>1. Step(f, o) = Step(g, o)
    <3>1. ASSUME NEW q \in m + 1 .. Len(d) PROVE g[q] = f[q]
      BY <1>3, <3>1
    <3> HIDE DEF g
    <3> QED BY <1>5, <3>1
  <2>2. CASE o = m
    BY <2>1, <2>2
  <2>3. CASE o # m
    <3>1. IsFrom(d, f, m + 1) /\ o \in m + 1 .. Len(d)
      BY <2>3, <1>0, <1>3, <1>4
    <3>2. f[o] = Step(f, o)
      BY <3>1 DEF IsFrom
    <3> QED BY <2>1, <2>3, <3>2
  <2> QED BY <2>2, <2>3
<1>7. IsFrom(d, g, m)
  <2>1. g = [o \in m .. Len(d) |-> Step(g, o)]
    <3>1. g = [o \in m .. Len(d) |-> g[o]]
      OBVIOUS
    <3> HIDE DEF g, Step
    <3> QED BY <1>6, <3>1
  <2> QED BY <2>1 DEF IsFrom
<1> QED BY <1>3, <1>7

\* One chunk of a chain.
LEMMA ChunkIs ==
    ASSUME NEW d \in Seq(Nat), NEW p, NEW c, ChunksFollow(d, p, c), NEW k \in 1 .. Len(c)
    PROVE  /\ c[k] \in 0 .. Len(d) - 4 /\ Cell(d, c[k] + 2) \in Nat /\ Cell(d, c[k] + 2) >= 4
           /\ c[k] + Cell(d, c[k] + 2) = IF k = Len(c) THEN Len(d) ELSE c[k + 1]
           /\ k < Len(c) => c[k + 1] \in 0 .. Len(d) - 4
<1>1. c \in Seq(0 .. Len(d) - 4) /\ Len(d) \in Nat /\ Len(c) \in Nat /\ DOMAIN c = 1 .. Len(c)
  BY LenProperties DEF ChunksFollow
<1>2. \A j \in 1 .. Len(c) : c[j] \in 0 .. Len(d) - 4
  BY <1>1, ElementOfSeq
<1>3. c[k] + 2 \in 0 .. Len(d) - 1
  BY <1>1, <1>2
<1>4. Cell(d, c[k] + 2) \in Nat
  BY <1>3, CellIs
<1>5. k < Len(c) => k + 1 \in 1 .. Len(c)
  BY <1>1
<1>6. Cell(d, c[k] + 2) >= 4 /\ c[k] + Cell(d, c[k] + 2) = IF k = Len(c) THEN Len(d) ELSE c[k + 1]
  BY <1>1 DEF ChunksFollow
<1> QED BY <1>2, <1>4, <1>5, <1>6

\* The walk finds a chain of chunks that lead from the pool to the end.
LEMMA ChunksAre ==
    ASSUME NEW d \in Seq(Nat), NEW p, NEW c, ChunksFollow(d, p, c)
    PROVE  Chunks(d, p) = c
<1> DEFINE f == CHOOSE f : IsFrom(d, f, 0)
           Z == Len(c)
           S == {k \in 1 .. Z : f[c[k]] # SubSeq(c, k, Z)}
<1>1. f = [o \in 0 .. Len(d) |->
            IF o + 2 >= Len(d) \/ Cell(d, o + 2) = 0 THEN << >>
            ELSE <<o>> \o (IF o + Cell(d, o + 2) <= Len(d) THEN f[o + Cell(d, o + 2)] ELSE << >>)]
  <2>1. IsFrom(d, f, 0)
    BY FromExists
  <2> HIDE DEF f
  <2> QED BY <2>1 DEF IsFrom
<1>2. Chunks(d, p) = f[p.next]
  BY ChunksDef
<1> HIDE DEF f
<1>3. Len(d) \in Nat /\ Z \in Nat \ {0} /\ c \in Seq(Nat) /\ c[1] = p.next
  <2>1. c \in Seq(0 .. Len(d) - 4) /\ c # << >> /\ c[1] = p.next /\ Len(d) \in Nat
    BY DEF ChunksFollow
  <2>2. 0 .. Len(d) - 4 \subseteq Nat
    BY <2>1
  <2> QED BY <2>1, <2>2, SeqMonotonic, EmptySeq
<1>4. ASSUME S # {} PROVE FALSE
  <2>1. PICK k \in S : \A j \in S : j <= k
    <3>1. S \subseteq 1 .. Z /\ 1 \in Int /\ Z \in Int
      OBVIOUS
    <3> HIDE DEF S
    <3> QED BY <1>3, <1>4, <3>1, LastIn
  <2>2. k \in 1 .. Z /\ f[c[k]] # SubSeq(c, k, Z)
    OBVIOUS
  <2>3. /\ c[k] \in 0 .. Len(d) - 4 /\ Cell(d, c[k] + 2) \in Nat /\ Cell(d, c[k] + 2) >= 4
        /\ c[k] + Cell(d, c[k] + 2) = IF k = Z THEN Len(d) ELSE c[k + 1]
        /\ k < Z => c[k + 1] \in 0 .. Len(d) - 4
    BY <1>3, <2>2, ChunkIs
  <2> DEFINE o == c[k]
             size == Cell(d, o + 2)
  <2> HIDE DEF o, size
  <2>4. f[o] = <<o>> \o (IF o + size <= Len(d) THEN f[o + size] ELSE << >>)
    <3>1. o \in 0 .. Len(d) /\ ~ (o + 2 >= Len(d) \/ size = 0)
      <4>1. o \in 0 .. Len(d) - 4 /\ size \in Nat /\ size >= 4
        BY <2>3 DEF o, size
      <4> QED BY <1>3, <4>1
    <3> QED BY <1>1, <3>1 DEF size
  <2>5. CASE k = Z
    <3>1. f[Len(d)] = << >> /\ o + size = Len(d) /\ Len(d) <= Len(d)
      BY <1>1, <1>3, <2>3, <2>5 DEF o, size
    <3>2. f[o] = <<o>> \o << >>
      BY <2>4, <3>1
    <3>3. SubSeq(c, Z, Z) = <<c[Z]>> \o SubSeq(c, Z + 1, Z) /\ SubSeq(c, Z + 1, Z) = << >>
      BY <1>3, SubSeqRecursiveFirst, SubSeqEmpty
    <3> QED BY <2>2, <2>5, <3>2, <3>3 DEF o
  <2>6. CASE k # Z
    <3>1. k + 1 \in 1 .. Z /\ ~ (k + 1 <= k) /\ k < Z
      BY <1>3, <2>2, <2>6
    <3>2. f[c[k + 1]] = SubSeq(c, k + 1, Z)
      BY <2>1, <3>1
    <3>3. f[o] = <<o>> \o SubSeq(c, k + 1, Z)
      <4>1. o + size = c[k + 1] /\ c[k + 1] <= Len(d)
        BY <1>3, <2>3, <2>6, <3>1 DEF o, size
      <4> QED BY <2>4, <3>2, <4>1
    <3>4. SubSeq(c, k, Z) = <<c[k]>> \o SubSeq(c, k + 1, Z)
      <4>1. k \in 1 .. Len(c) /\ Z \in k .. Len(c)
        BY <1>3, <2>2
      <4> QED BY <1>3, <4>1, SubSeqRecursiveFirst
    <3> QED BY <2>2, <3>3, <3>4 DEF o
  <2> QED BY <2>5, <2>6
<1>5. f[c[1]] = SubSeq(c, 1, Z)
  <2>1. 1 \in 1 .. Z
    BY <1>3
  <2>2. 1 \notin S
    <3> HIDE DEF S
    <3> QED BY <1>4
  <2> QED BY <2>1, <2>2
<1> QED BY <1>2, <1>3, <1>5, SubSeqFull

\* The chunks lie in the file, one behind the other.
LEMMA ChainOrder ==
    ASSUME NEW d \in Seq(Nat), NEW p, NEW c, ChunksFollow(d, p, c)
    PROVE  /\ \A k \in 1 .. Len(c) : c[k] + Cell(d, c[k] + 2) <= Len(d)
           /\ \A j, k \in 1 .. Len(c) : j < k => c[j] + Cell(d, c[j] + 2) <= c[k]
<1> DEFINE Z == Len(c)
           End(k) == c[k] + Cell(d, c[k] + 2)
<1>0. Len(d) \in Nat /\ Z \in Nat
  BY LenProperties DEF ChunksFollow
<1>1. \A k \in 1 .. Z :
        /\ c[k] \in Nat /\ c[k] <= Len(d) - 4 /\ c[k] <= End(k) /\ End(k) \in Nat
        /\ End(k) = IF k = Z THEN Len(d) ELSE c[k + 1]
  <2> TAKE k \in 1 .. Z
  <2>1. /\ c[k] \in 0 .. Len(d) - 4 /\ Cell(d, c[k] + 2) \in Nat
        /\ c[k] + Cell(d, c[k] + 2) = IF k = Len(c) THEN Len(d) ELSE c[k + 1]
    BY ChunkIs
  <2> QED BY <1>0, <2>1
<1> HIDE DEF End
<1>2. \A k \in 1 .. Z : End(k) <= Len(d)
  <2> TAKE k \in 1 .. Z
  <2>1. CASE k = Z
    BY <1>0, <1>1, <2>1
  <2>2. CASE k # Z
    <3>1. k + 1 \in 1 .. Z
      BY <1>0, <2>2
    <3>2. c[k + 1] \in Nat /\ c[k + 1] <= Len(d) - 4 /\ End(k) = c[k + 1]
      BY <1>1, <2>2, <3>1
    <3> QED BY <1>0, <3>2
  <2> QED BY <2>1, <2>2
<1>3. ASSUME NEW k \in 1 .. Z PROVE \A j \in 1 .. Z : j < k => End(j) <= c[k]
  <2> DEFINE S == {j \in 1 .. k - 1 : ~ (End(j) <= c[k])}
  <2>1. SUFFICES ASSUME S # {} PROVE FALSE
    <3>1. ASSUME NEW j \in 1 .. Z, j < k PROVE j \in 1 .. k - 1
      BY <1>0, <3>1
    <3> QED BY <2>1, <3>1
  <2>2. PICK j \in S : \A i \in S : i <= j
    <3>1. S \subseteq 1 .. k - 1 /\ k - 1 \in Int /\ 1 \in Int
      BY <1>0
    <3> HIDE DEF S
    <3> QED BY <2>1, <3>1, LastIn
  <2>3. j \in 1 .. k - 1 /\ ~ (End(j) <= c[k])
    OBVIOUS
  <2>4. j \in 1 .. Z /\ j # Z /\ j + 1 \in 1 .. Z /\ k \in Nat
    BY <1>0, <2>3
  <2>5. End(j) = c[j + 1] /\ c[k] \in Nat /\ c[j + 1] \in Nat /\ End(j + 1) \in Nat /\ c[j + 1] <= End(j + 1)
    BY <1>1, <2>4
  <2>6. CASE j + 1 = k
    BY <2>3, <2>5, <2>6
  <2>7. CASE j + 1 # k
    <3>1. j + 1 \in 1 .. k - 1 /\ ~ (j + 1 <= j)
      BY <1>0, <2>3, <2>4, <2>7
    <3>2. End(j + 1) <= c[k]
      BY <2>2, <3>1
    <3> HIDE DEF S
    <3> QED BY <2>3, <2>5, <3>2
  <2> QED BY <2>6, <2>7
<1> QED BY <1>2, <1>3 DEF End

-----------------------------------------------------------------------------
(* The parts of a file that aapt wrote, with c for its chunks.             *)

Tidy(d, p, c) ==
    /\ d \in Seq(Nat) /\ Len(d) > 18 /\ Cell(d, 2) = Len(d) /\ p = ParseStringPool(d)
    /\ PoolAsWritten(d, p) /\ ChunksFollow(d, p, c)
    /\ \A k \in 1 .. Len(c) : NodeAsWritten(d, p, c[k])
    /\ Cell(d, c[Len(c)]) # StartType

\* A file that aapt could have written is one whose parts are tidy, and the
\* walk over its chunks finds c.
LEMMA TidyIs ==
    ASSUME NEW d
    PROVE  /\ AsWritten(d) => Tidy(d, ParseStringPool(d), Chunks(d, ParseStringPool(d)))
           /\ \A p, c : Tidy(d, p, c) => AsWritten(d) /\ Chunks(d, p) = c
<1>1. ASSUME AsWritten(d)
      PROVE  Tidy(d, ParseStringPool(d), Chunks(d, ParseStringPool(d)))
  <2> DEFINE p == ParseStringPool(d)
             c == Chunks(d, p)
  <2>1. /\ d \in Seq(Nat) /\ Len(d) > 18 /\ Cell(d, 2) = Len(d) /\ PoolAsWritten(d, p)
        /\ ChunksFollow(d, p, c) /\ \A k \in DOMAIN c : NodeAsWritten(d, p, c[k])
        /\ Cell(d, Last(c)) # StartType
    BY <1>1 DEF AsWritten, PoolOff
  <2>2. DOMAIN c = 1 .. Len(c)
    BY <2>1, LenProperties DEF ChunksFollow
  <2> HIDE DEF p, c
  <2>3. Tidy(d, p, c) <=> p = ParseStringPool(d)
    BY <2>1, <2>2 DEF Tidy, Last
  <2> QED BY <2>3 DEF p, c
<1>2. ASSUME NEW p, NEW c, Tidy(d, p, c)
      PROVE  AsWritten(d) /\ Chunks(d, p) = c
  <2>1. Chunks(d, p) = c
    BY <1>2, ChunksAre DEF Tidy
  <2>2. DOMAIN c = 1 .. Len(c)
    BY <1>2, LenProperties DEF Tidy, ChunksFollow
  <2> QED BY <1>2, <2>1, <2>2 DEF Tidy, AsWritten, Last, PoolOff
<1> QED BY <1>1, <1>2

LEMMA PoolIs ==
    ASSUME NEW d \in Seq(Nat), Len(d) > 18, NEW p, p = ParseStringPool(d)
    PROVE  /\ p.count \in Nat /\ p.offsets \in Nat /\ p.start \in Nat /\ p.next \in Nat
           /\ p.count = Cell(d, 8) /\ p.offsets = 4 + Cell(d, 5)
           /\ p.start = 4 + Cell(d, 14) /\ p.next = 4 + Cell(d, 6)
<1>1. Len(d) \in Nat
  OBVIOUS
<1>2. Cell(d, 8) \in Nat /\ Cell(d, 5) \in Nat /\ Cell(d, 14) \in Nat /\ Cell(d, 6) \in Nat
  BY <1>1, CellIs
<1>3. /\ p.count = Cell(d, 4 + 4) /\ p.offsets = 4 + Cell(d, 4 + 1)
      /\ p.start = 4 + Cell(d, 4 + 10) /\ p.next = 4 + Cell(d, 4 + 2)
  BY DEF ParseStringPool, PoolOff
<1>4. 4 + 4 = 8 /\ 4 + 1 = 5 /\ 4 + 10 = 14 /\ 4 + 2 = 6
  OBVIOUS
<1>5. /\ p.count = Cell(d, 8) /\ p.offsets = 4 + Cell(d, 5)
      /\ p.start = 4 + Cell(d, 14) /\ p.next = 4 + Cell(d, 6)
  BY <1>3, <1>4
<1>6. 4 + Cell(d, 5) \in Nat /\ 4 + Cell(d, 14) \in Nat /\ 4 + Cell(d, 6) \in Nat
  BY ONLY <1>2
<1> QED BY ONLY <1>2, <1>5, <1>6

\* Where the pool's parts lie.
LEMMA PoolBounds ==
    ASSUME NEW d, NEW p, NEW c, Tidy(d, p, c)
    PROVE  /\ d \in Seq(Nat) /\ Len(d) \in Nat /\ Len(c) \in Nat \ {0} /\ c \in Seq(Nat)
           /\ p.count \in Nat /\ p.offsets \in Nat /\ p.start \in Nat /\ p.next \in Nat
           /\ p.offsets >= 18 /\ p.start = p.offsets + 2 * p.count
           /\ p.start <= p.next /\ p.next + 4 <= Len(d)
           /\ c[1] = p.next
           /\ \A k \in 1 .. Len(c) : p.next <= c[k] /\ c[k] \in Nat /\ c[k] + 4 <= Len(d)
<1>1. d \in Seq(Nat) /\ Len(d) > 18 /\ p = ParseStringPool(d) /\ Len(d) \in Nat
  BY DEF Tidy
<1>2. p.count \in Nat /\ p.offsets \in Nat /\ p.start \in Nat /\ p.next \in Nat
  BY <1>1, PoolIs
<1>3. p.offsets >= 18 /\ p.start = p.offsets + 2 * p.count /\ p.start <= p.next
  BY DEF Tidy, PoolAsWritten, PoolOff
<1>4. ChunksFollow(d, p, c)
  BY DEF Tidy
<1>5. c \in Seq(0 .. Len(d) - 4) /\ c # << >> /\ c[1] = p.next
  BY <1>4 DEF ChunksFollow
<1>6. Len(c) \in Nat \ {0} /\ c \in Seq(Nat)
  <2>1. 0 .. Len(d) - 4 \subseteq Nat
    BY <1>1
  <2> QED BY <1>5, <2>1, SeqMonotonic, EmptySeq
<1>7. \A k \in 1 .. Len(c) : c[k] \in Nat /\ c[k] + 4 <= Len(d)
  <2>1. \A k \in 1 .. Len(c) : c[k] \in 0 .. Len(d) - 4
    BY <1>5, ElementOfSeq
  <2> QED BY <1>1, <2>1
<1>8. ASSUME NEW k \in 1 .. Len(c) PROVE p.next <= c[k]
  <2>1. CASE k = 1
    BY <2>1, <1>2, <1>5
  <2>2. CASE k # 1
    <3>1. 1 \in 1 .. Len(c) /\ 1 < k
      BY <1>6, <2>2
    <3>2. c[1] + Cell(d, c[1] + 2) <= c[k]
      BY <1>1, <1>4, <3>1, ChainOrder
    <3>3. Cell(d, c[1] + 2) \in Nat
      BY <1>1, <1>4, <3>1, ChunkIs
    <3> QED BY <1>2, <1>5, <1>7, <3>2, <3>3, SMTT(40)
  <2> QED BY <2>1, <2>2
<1>9. p.next + 4 <= Len(d)
  BY <1>5, <1>6, <1>7
<1> QED BY <1>1, <1>2, <1>3, <1>5, <1>6, <1>7, <1>8, <1>9

\* A string of the pool, its length and its end, and the others apart from it.
LEMMA StringIs ==
    ASSUME NEW d, NEW p, NEW c, Tidy(d, p, c), NEW i \in 0 .. p.count - 1
    PROVE  /\ p.offsets + 2 * i \in Nat /\ p.offsets + 2 * i + 2 <= p.start
           /\ StringAt(d, p, i) \in Nat /\ StringAt(d, p, i) = p.start + Cell(d, p.offsets + 2 * i)
           /\ p.start <= StringAt(d, p, i)
           /\ Cell(d, StringAt(d, p, i)) \in Nat
           /\ StringEnd(d, p, i) = StringAt(d, p, i) + Cell(d, StringAt(d, p, i)) + 1
           /\ StringEnd(d, p, i) \in Nat
           /\ StringEnd(d, p, i) < p.next /\ Cell(d, StringEnd(d, p, i)) = 0
           /\ \A j \in 0 .. p.count - 1 :
                i # j => \/ StringEnd(d, p, i) < StringAt(d, p, j)
                         \/ StringEnd(d, p, j) < StringAt(d, p, i)
<1> DEFINE b == StringAt(d, p, i)
<1>0. d \in Seq(Nat) /\ Len(d) \in Nat /\ p.next + 4 <= Len(d)
  BY PoolBounds
<1>1. /\ p.count \in Nat /\ p.offsets \in Nat /\ p.start \in Nat /\ p.next \in Nat
      /\ p.offsets >= 18 /\ p.start = p.offsets + 2 * p.count
      /\ p.start <= p.next
  BY PoolBounds
<1>2. p.offsets + 2 * i \in Nat /\ p.offsets + 2 * i + 2 <= p.start
  <2>1. i \in Nat /\ i + 1 <= p.count
    BY <1>1
  <2> QED BY ONLY <1>1, <2>1
<1>3. Cell(d, p.offsets + 2 * i) \in Nat
  <2>1. p.offsets + 2 * i \in 0 .. Len(d) - 1
    BY <1>0, <1>1, <1>2
  <2> QED BY <1>0, <2>1, CellIs
<1>4. b = p.start + Cell(d, p.offsets + 2 * i)
  BY DEF StringAt
<1> HIDE DEF b
<1>5. b \in Nat /\ p.start <= b
  BY ONLY <1>1, <1>3, <1>4
<1>6. b < p.next /\ StringEnd(d, p, i) < p.next /\ Cell(d, StringEnd(d, p, i)) = 0
  BY DEF Tidy, PoolAsWritten, b
<1>7. StringEnd(d, p, i) = b + Cell(d, b) + 1
  BY DEF StringEnd, b
<1>8. Cell(d, b) \in Nat
  <2>1. b \in 0 .. Len(d) - 1
    BY <1>0, <1>1, <1>5, <1>6
  <2> QED BY <1>0, <2>1, CellIs
<1>9. StringEnd(d, p, i) \in Nat
  BY <1>5, <1>7, <1>8
<1>10. ASSUME NEW j \in 0 .. p.count - 1, i # j
       PROVE  \/ StringEnd(d, p, i) < StringAt(d, p, j)
              \/ StringEnd(d, p, j) < StringAt(d, p, i)
  <2>1. i < j \/ j < i
    BY <1>1, <1>10
  <2> QED BY <2>1 DEF Tidy, PoolAsWritten
<1> QED BY <1>2, <1>4, <1>5, <1>6, <1>7, <1>8, <1>9, <1>10 DEF b

\* The text of a string whose length is in cell b.
TextAt(d, b) == SubSeq(d, b + 2, b + 1 + Cell(d, b))
LEMMA ReadIs == \A d, p, i : ReadString(d, p, i) = TextAt(d, StringAt(d, p, i))
BY DEF ReadString, TextAt

\* The cells of a text.
LEMMA TextIs ==
    ASSUME NEW d \in Seq(Nat), NEW b \in Nat, NEW n \in Nat, Cell(d, b) = n, b + n + 1 < Len(d)
    PROVE  /\ TextAt(d, b) \in Seq(Nat) /\ Len(TextAt(d, b)) = n
           /\ \A j \in 1 .. n : TextAt(d, b)[j] = Cell(d, b + j)
<1>1. Len(d) \in Nat
  OBVIOUS
<1>2. b + 1 \in 0 .. Len(d) /\ b + 1 + n \in 0 .. Len(d) /\ b + 1 <= b + 1 + n
  BY <1>1
<1>3. /\ SubSeq(d, (b + 1) + 1, b + 1 + n) \in Seq(Nat)
      /\ Len(SubSeq(d, (b + 1) + 1, b + 1 + n)) = (b + 1 + n) - (b + 1)
      /\ \A q \in 1 .. (b + 1 + n) - (b + 1) :
            SubSeq(d, (b + 1) + 1, b + 1 + n)[q] = Cell(d, (b + 1) + q - 1)
  BY <1>2, CutIs
<1>4. (b + 1) + 1 = b + 2 /\ (b + 1 + n) - (b + 1) = n /\ \A q \in 1 .. n : (b + 1) + q - 1 = b + q
  OBVIOUS
<1> QED BY <1>3, <1>4 DEF TextAt

TwoTexts(d, e, b, x, n) ==
    /\ d \in Seq(Nat) /\ e \in Seq(Nat) /\ b \in Nat /\ x \in Nat /\ n \in Nat
    /\ Cell(d, b) = n /\ b + n + 1 < Len(d) /\ x + n + 1 < Len(e)
    /\ \A j \in 0 .. n : Cell(e, x + j) = Cell(d, b + j)

\* A text that was moved cell by cell reads the same.
LEMMA TextMoved ==
    ASSUME NEW d, NEW e, NEW b, NEW x, NEW n, TwoTexts(d, e, b, x, n)
    PROVE  TextAt(e, x) = TextAt(d, b)
<1>0. /\ d \in Seq(Nat) /\ e \in Seq(Nat) /\ b \in Nat /\ x \in Nat /\ n \in Nat
      /\ Cell(d, b) = n /\ b + n + 1 < Len(d) /\ x + n + 1 < Len(e)
      /\ \A j \in 0 .. n : Cell(e, x + j) = Cell(d, b + j)
  BY DEF TwoTexts
<1> USE <1>0
<1>1. Cell(e, x) = n
  <2>1. 0 \in 0 .. n /\ x + 0 = x /\ b + 0 = b
    OBVIOUS
  <2> QED BY <2>1
<1>2. /\ TextAt(d, b) \in Seq(Nat) /\ Len(TextAt(d, b)) = n
      /\ \A j \in 1 .. n : TextAt(d, b)[j] = Cell(d, b + j)
  BY TextIs
<1>3. /\ TextAt(e, x) \in Seq(Nat) /\ Len(TextAt(e, x)) = n
      /\ \A j \in 1 .. n : TextAt(e, x)[j] = Cell(e, x + j)
  BY <1>1, TextIs
<1>4. \A j \in 1 .. n : TextAt(e, x)[j] = TextAt(d, b)[j]
  <2> TAKE j \in 1 .. n
  <2>1. j \in 0 .. n
    OBVIOUS
  <2> QED BY <1>2, <1>3, <2>1
<1> QED BY <1>2, <1>3, <1>4, SeqEqual

-----------------------------------------------------------------------------
(* Elements and their attributes.                                          *)

LEMMA TimesNat == ASSUME NEW m \in Nat, NEW n \in Nat PROVE m * n \in Nat
OBVIOUS

LEMMA TimesAbove ==
    ASSUME NEW a \in Nat, NEW b \in Nat, NEW w \in Nat, a < b
    PROVE  (a - 1) * w + w <= (b - 1) * w
<1>1. a * w <= (b - 1) * w
  <2>1. PICK k \in Nat : b - 1 = a + k
    <3>1. b - 1 - a \in Nat /\ b - 1 = a + (b - 1 - a)
      OBVIOUS
    <3> QED BY <3>1
  <2>2. k * w \in Nat /\ a * w \in Nat
    BY TimesNat
  <2>3. (a + k) * w = a * w + k * w
    OBVIOUS
  <2> QED BY <2>1, <2>2, <2>3
<1>2. (a - 1) * w + w = a * w
  OBVIOUS
<1> QED BY <1>1, <1>2

LEMMA RecordAt ==
    ASSUME NEW x \in Nat, NEW s \in Nat, NEW w \in Nat, NEW a \in Nat \ {0}
    PROVE  (a - 1) * w \in Nat /\ x + s + (a - 1) * w \in Nat /\ x + s + (a - 1) * w >= x + s
<1>1. a - 1 \in Nat
  OBVIOUS
<1>2. (a - 1) * w \in Nat
  BY <1>1, TimesNat
<1> DEFINE t == (a - 1) * w
<1> HIDE DEF t
<1>3. t \in Nat => x + s + t \in Nat /\ x + s + t >= x + s
  OBVIOUS
<1> QED BY <1>2, <1>3 DEF t

\* The fields of a start element, and its attribute records.
LEMMA StartIs ==
    ASSUME NEW d \in Seq(Nat), NEW p, NEW o \in Nat, NEW n \in Nat, n = Cell(d, o + 2), o + n <= Len(d),
           NodeAsWritten(d, p, o), Cell(d, o) = StartType
    PROVE  /\ n >= 18 /\ Ext(o) = o + 8
           /\ Cell(d, Ext(o) + 2) \in Nat /\ Cell(d, Ext(o) + 2) < p.count
           /\ Cell(d, Ext(o) + 4) \in Nat /\ Cell(d, Ext(o) + 4) >= 10
           /\ Cell(d, Ext(o) + 5) \in Nat /\ Cell(d, Ext(o) + 5) >= 10
           /\ Cell(d, Ext(o) + 6) \in Nat
           /\ \A a \in 1 .. Cell(d, Ext(o) + 6) :
                AttrRec(d, o, a) \in Nat /\ AttrRec(d, o, a) >= o + 18 /\ AttrRec(d, o, a) + 10 <= o + n
           /\ \A a, b \in 1 .. Cell(d, Ext(o) + 6) :
                a # b => \/ AttrRec(d, o, a) + 10 <= AttrRec(d, o, b)
                         \/ AttrRec(d, o, b) + 10 <= AttrRec(d, o, a)
<1>1. n >= 18 /\ Cell(d, Ext(o) + 4) >= 10 /\ Cell(d, Ext(o) + 5) >= 10 /\ Cell(d, Ext(o) + 2) < p.count
  BY DEF NodeAsWritten, StartType, EndType
<1>2. Ext(o) = o + 8 /\ Ext(o) \in Nat /\ Ext(o) + 7 <= o + n
  BY <1>1 DEF Ext
<1>3. \A j \in 0 .. 6 : Ext(o) + j \in 0 .. Len(d) - 1
  <2>1. Len(d) \in Nat
    OBVIOUS
  <2> QED BY <2>1, <1>2
<1>4. \A j \in 0 .. 6 : Cell(d, Ext(o) + j) \in Nat
  BY <1>3, CellIs
<1> DEFINE x == Ext(o)
           s == Cell(d, Ext(o) + 4)
           w == Cell(d, Ext(o) + 5)
<1>5. x \in Nat /\ s \in Nat /\ w \in Nat /\ s >= 10 /\ w >= 10 /\ x = o + 8
  BY <1>1, <1>2, <1>4
<1>6. \A a : AttrRec(d, o, a) = x + s + (a - 1) * w
  BY DEF AttrRec
<1> HIDE DEF x, s, w
<1>7. ASSUME NEW a \in 1 .. Cell(d, Ext(o) + 6)
      PROVE  AttrRec(d, o, a) \in Nat /\ AttrRec(d, o, a) >= o + 18 /\ AttrRec(d, o, a) + 10 <= o + n
  <2>1. AttrRec(d, o, a) + 10 <= o + n
    BY DEF NodeAsWritten, StartType, EndType
  <2>2. a \in Nat \ {0}
    BY <1>4
  <2>3. AttrRec(d, o, a) \in Nat /\ AttrRec(d, o, a) >= x + s
    <3> DEFINE t == (a - 1) * w
    <3>1. t \in Nat /\ AttrRec(d, o, a) = x + s + t
      BY <1>5, <1>6, <2>2, RecordAt
    <3> HIDE DEF t
    <3> QED BY ONLY <1>5, <3>1
  <2> QED BY <1>5, <2>1, <2>3
<1>8. /\ Cell(d, Ext(o) + 2) \in Nat /\ Cell(d, Ext(o) + 4) \in Nat
       /\ Cell(d, Ext(o) + 5) \in Nat /\ Cell(d, Ext(o) + 6) \in Nat
  BY <1>4
<1>9. ASSUME NEW a \in 1 .. Cell(d, Ext(o) + 6), NEW b \in 1 .. Cell(d, Ext(o) + 6), a < b
      PROVE  AttrRec(d, o, a) + 10 <= AttrRec(d, o, b)
  <2>1. a \in Nat \ {0} /\ b \in Nat \ {0}
    BY <1>8, SMTT(40)
  <2>2. (a - 1) * w + w <= (b - 1) * w
    BY <1>5, <1>9, <2>1, TimesAbove
  <2>3. (a - 1) * w \in Nat /\ (b - 1) * w \in Nat
    BY <1>5, <2>1, RecordAt
  <2> DEFINE t == (a - 1) * w
             u == (b - 1) * w
  <2>4. t \in Nat /\ u \in Nat /\ t + w <= u /\ AttrRec(d, o, a) = x + s + t /\ AttrRec(d, o, b) = x + s + u
    BY <1>6, <2>2, <2>3
  <2> HIDE DEF t, u
  <2> QED BY ONLY <1>5, <2>4
<1>10. ASSUME NEW a \in 1 .. Cell(d, Ext(o) + 6), NEW b \in 1 .. Cell(d, Ext(o) + 6), a # b
      PROVE  \/ AttrRec(d, o, a) + 10 <= AttrRec(d, o, b)
             \/ AttrRec(d, o, b) + 10 <= AttrRec(d, o, a)
  <2>1. a < b \/ b < a
    BY <1>8, <1>10
  <2> QED BY <2>1, <1>9
<1> QED BY <1>1, <1>2, <1>7, <1>8, <1>10

LEMMA StartNode ==
    ASSUME NEW d, NEW o, Cell(d, o) = StartType
    PROVE  Node(d, o) =
             [kind |-> "start", name |-> Cell(d, Ext(o) + 2) + 1,
              attrs |-> [a \in 1 .. Cell(d, Ext(o) + 6) |->
                [raw |-> Cell(d, AttrRec(d, o, a) + 4) + 1, data |-> Cell(d, AttrRec(d, o, a) + 8) + 1]]]
BY DEF Node, StartType, EndType

\* Chunks of n cells, at o and at x.
TwoChunks(d, e, o, x, n) ==
    /\ d \in Seq(Nat) /\ e \in Seq(Nat) /\ o \in Nat /\ x \in Nat /\ n \in Nat
    /\ n >= 4 /\ n = Cell(d, o + 2) /\ o + n <= Len(d) /\ x + n <= Len(e)
Alike(d, e, o, x, n) ==
    TwoChunks(d, e, o, x, n) /\ \A j \in 0 .. n - 1 : j < 18 => Cell(e, x + j) = Cell(d, o + j)
Copied(d, e, o, x, n) ==
    TwoChunks(d, e, o, x, n) /\ \A j \in 0 .. n - 1 : Cell(e, x + j) = Cell(d, o + j)
MayGrow(p, r) == p.count \in Nat /\ r.count \in Nat /\ p.count <= r.count
OtherLike(d, e, o, x) == Cell(d, o) # StartType => Node(e, x) = Node(d, o)
StartLike(d, e, o, x) ==
    Cell(d, o) = StartType =>
        /\ \A a \in 1 .. Cell(d, Ext(o) + 6) :
                AttrRec(e, x, a) \in Nat /\ AttrRec(e, x, a) + o = AttrRec(d, o, a) + x
        /\ Node(e, x) =
             [kind |-> "start", name |-> Cell(d, Ext(o) + 2) + 1,
              attrs |-> [a \in 1 .. Cell(d, Ext(o) + 6) |->
                [raw |-> Cell(e, AttrRec(e, x, a) + 4) + 1, data |-> Cell(e, AttrRec(e, x, a) + 8) + 1]]]

\* A chunk whose first 18 cells are those of another one is a node of the same
\* kind, name and number of attributes.
LEMMA NodeLike ==
    ASSUME NEW d, NEW e, NEW o, NEW x, NEW n, NEW p, NEW r,
           Alike(d, e, o, x, n), MayGrow(p, r), NodeAsWritten(d, p, o)
    PROVE  /\ Cell(e, x) = Cell(d, o) /\ Cell(e, x + 2) = n
           /\ NodeAsWritten(e, r, x)
           /\ OtherLike(d, e, o, x) /\ StartLike(d, e, o, x)
<1>0. /\ d \in Seq(Nat) /\ e \in Seq(Nat) /\ o \in Nat /\ x \in Nat /\ n \in Nat
      /\ n >= 4 /\ n = Cell(d, o + 2) /\ o + n <= Len(d) /\ x + n <= Len(e)
      /\ \A j \in 0 .. n - 1 : j < 18 => Cell(e, x + j) = Cell(d, o + j)
      /\ p.count \in Nat /\ r.count \in Nat /\ p.count <= r.count
  BY DEF Alike, TwoChunks, MayGrow
<1> USE <1>0
<1>1. Cell(e, x) = Cell(d, o) /\ Cell(e, x + 2) = n
  <2>1. 0 \in 0 .. n - 1 /\ 2 \in 0 .. n - 1 /\ 0 < 18 /\ 2 < 18 /\ x + 0 = x /\ o + 0 = o
    BY ONLY n \in Nat, n >= 4, x \in Nat, o \in Nat
  <2> QED BY <2>1
<1>2. CASE Cell(d, o) = StartType
  <2>1. /\ n >= 18 /\ Ext(o) = o + 8
        /\ Cell(d, Ext(o) + 2) \in Nat /\ Cell(d, Ext(o) + 2) < p.count
        /\ Cell(d, Ext(o) + 4) \in Nat /\ Cell(d, Ext(o) + 4) >= 10
        /\ Cell(d, Ext(o) + 5) \in Nat /\ Cell(d, Ext(o) + 5) >= 10
        /\ Cell(d, Ext(o) + 6) \in Nat
        /\ \A a \in 1 .. Cell(d, Ext(o) + 6) :
             AttrRec(d, o, a) \in Nat /\ AttrRec(d, o, a) >= o + 18 /\ AttrRec(d, o, a) + 10 <= o + n
    BY <1>2, StartIs
  <2>2. \A j \in 0 .. 6 : Cell(e, Ext(x) + j) = Cell(d, Ext(o) + j)
    <3> TAKE j \in 0 .. 6
    <3>1. j + 8 \in 0 .. n - 1 /\ j + 8 < 18 /\ x + (j + 8) = x + 8 + j /\ o + (j + 8) = o + 8 + j
      BY ONLY <2>1, n \in Nat, x \in Nat, o \in Nat, j \in 0 .. 6
    <3> QED BY <3>1 DEF Ext
  <2>3. /\ Cell(e, Ext(x) + 2) = Cell(d, Ext(o) + 2) /\ Cell(e, Ext(x) + 4) = Cell(d, Ext(o) + 4)
        /\ Cell(e, Ext(x) + 5) = Cell(d, Ext(o) + 5) /\ Cell(e, Ext(x) + 6) = Cell(d, Ext(o) + 6)
    BY <2>2
  <2>4. ASSUME NEW a \in 1 .. Cell(d, Ext(o) + 6)
        PROVE  /\ AttrRec(e, x, a) + 10 <= x + n /\ AttrRec(e, x, a) \in Nat
               /\ AttrRec(e, x, a) + o = AttrRec(d, o, a) + x
    <3> DEFINE s == Cell(d, Ext(o) + 4)
               w == Cell(d, Ext(o) + 5)
               t == (a - 1) * w
               u == AttrRec(d, o, a)
               v == AttrRec(e, x, a)
    <3>1. s \in Nat /\ t \in Nat
      <4>1. a \in Nat \ {0} /\ w \in Nat /\ s \in Nat /\ x \in Nat
        BY <2>1
      <4> HIDE DEF s, w
      <4> QED BY <4>1, RecordAt
    <3>2. v = Ext(x) + s + t /\ u = Ext(o) + s + t /\ Ext(o) = o + 8 /\ Ext(x) = x + 8
      BY <2>3 DEF AttrRec, Ext
    <3>3. u + 10 <= o + n /\ u \in Nat
      BY <2>1
    <3> HIDE DEF s, w, t, u, v
    <3>4. v + 10 <= x + n /\ v \in Nat /\ v + o = u + x
      BY ONLY o \in Nat, x \in Nat, n \in Nat, <3>1, <3>2, <3>3
    <3> QED BY <3>4 DEF u, v
  <2>5. Node(e, x) =
           [kind |-> "start", name |-> Cell(d, Ext(o) + 2) + 1,
            attrs |-> [a \in 1 .. Cell(d, Ext(o) + 6) |->
                [raw |-> Cell(e, AttrRec(e, x, a) + 4) + 1, data |-> Cell(e, AttrRec(e, x, a) + 8) + 1]]]
    <3>1. Cell(e, x) = StartType
      BY <1>1, <1>2
    <3>2. Node(e, x) =
             [kind |-> "start", name |-> Cell(e, Ext(x) + 2) + 1,
              attrs |-> [a \in 1 .. Cell(e, Ext(x) + 6) |->
                [raw |-> Cell(e, AttrRec(e, x, a) + 4) + 1, data |-> Cell(e, AttrRec(e, x, a) + 8) + 1]]]
      BY <3>1, StartNode
    <3> QED BY <2>3, <3>2
  <2>6. NodeAsWritten(e, r, x)
    <3>1. Cell(e, x) = StartType /\ Cell(e, Ext(x) + 2) < r.count
      <4>1. Cell(e, Ext(x) + 2) < p.count /\ Cell(e, Ext(x) + 2) \in Nat
        BY <2>1, <2>3
      <4>2. Cell(e, Ext(x) + 2) < r.count
        BY ONLY <4>1, p.count \in Nat, r.count \in Nat, p.count <= r.count
      <4> QED BY <1>1, <1>2, <4>2
    <3>2. \A a \in 1 .. Cell(e, Ext(x) + 6) : AttrRec(e, x, a) + 10 <= x + n
      BY <2>3, <2>4
    <3>3. n >= 12
      BY <2>1
    <3> QED BY <1>1, <2>1, <2>3, <3>1, <3>2, <3>3 DEF NodeAsWritten
  <2>7. StartLike(d, e, o, x)
    BY <1>2, <2>4, <2>5 DEF StartLike
  <2>8. OtherLike(d, e, o, x)
    BY <1>2 DEF OtherLike
  <2> QED BY <1>1, <2>6, <2>7, <2>8
<1>3. CASE Cell(d, o) = EndType
  <2>1. n >= 12 /\ Cell(d, Ext(o) + 2) < p.count /\ StartType # EndType
    BY <1>3 DEF NodeAsWritten, StartType, EndType
  <2>2. Cell(e, Ext(x) + 2) = Cell(d, Ext(o) + 2) /\ Cell(d, Ext(o) + 2) \in Nat
    <3>1. 10 \in 0 .. n - 1 /\ 10 < 18 /\ x + 10 = x + 8 + 2 /\ o + 10 = o + 8 + 2
      BY <2>1
    <3>2. o + 10 \in 0 .. Len(d) - 1
      <4>1. Len(d) \in Nat
        OBVIOUS
      <4> QED BY <2>1, <4>1
    <3>3. Cell(d, o + 10) \in Nat
      BY <3>2, CellIs
    <3> QED BY <3>1, <3>3 DEF Ext
  <2>3. Cell(e, Ext(x) + 2) < r.count
    <3>1. Cell(e, Ext(x) + 2) < p.count /\ Cell(e, Ext(x) + 2) \in Nat
      BY <2>1, <2>2
    <3> QED BY ONLY <3>1, p.count \in Nat, r.count \in Nat, p.count <= r.count
  <2>4. NodeAsWritten(e, r, x)
    BY <1>1, <1>3, <2>1, <2>3 DEF NodeAsWritten
  <2>5. Node(e, x) = Node(d, o)
    BY <1>1, <1>3, <2>1, <2>2 DEF Node
  <2>6. OtherLike(d, e, o, x) /\ StartLike(d, e, o, x)
    BY <1>3, <2>1, <2>5 DEF OtherLike, StartLike
  <2> QED BY <1>1, <2>4, <2>6
<1>4. CASE Cell(d, o) \notin {StartType, EndType}
  <2>1. Node(e, x) = Node(d, o)
    BY <1>1, <1>4 DEF Node
  <2>2. NodeAsWritten(e, r, x)
    BY <1>1, <1>4 DEF NodeAsWritten
  <2>3. OtherLike(d, e, o, x) /\ StartLike(d, e, o, x)
    BY <1>4, <2>1 DEF OtherLike, StartLike
  <2> QED BY <1>1, <2>2, <2>3
<1> QED BY <1>2, <1>3, <1>4

\* A chunk that is elsewhere, cell by cell, is the same node.
LEMMA NodeMoved ==
    ASSUME NEW d, NEW e, NEW o, NEW x, NEW n, NEW p, NEW r,
           Copied(d, e, o, x, n), MayGrow(p, r), NodeAsWritten(d, p, o)
    PROVE  /\ Cell(e, x) = Cell(d, o) /\ Cell(e, x + 2) = n
           /\ NodeAsWritten(e, r, x) /\ Node(e, x) = Node(d, o)
<1>3. Alike(d, e, o, x, n)
  BY DEF Alike, Copied
<1>1. /\ Cell(e, x) = Cell(d, o) /\ Cell(e, x + 2) = n /\ NodeAsWritten(e, r, x)
      /\ OtherLike(d, e, o, x) /\ StartLike(d, e, o, x)
  BY <1>3, NodeLike
<1>0. /\ d \in Seq(Nat) /\ e \in Seq(Nat) /\ o \in Nat /\ x \in Nat /\ n \in Nat
      /\ n >= 4 /\ n = Cell(d, o + 2) /\ o + n <= Len(d) /\ x + n <= Len(e)
      /\ \A j \in 0 .. n - 1 : Cell(e, x + j) = Cell(d, o + j)
      /\ p.count \in Nat /\ r.count \in Nat /\ p.count <= r.count
  BY DEF Copied, TwoChunks, MayGrow
<1> USE <1>0
<1>2. CASE Cell(d, o) = StartType
  <2>1. /\ \A a \in 1 .. Cell(d, Ext(o) + 6) :
                AttrRec(e, x, a) \in Nat /\ AttrRec(e, x, a) + o = AttrRec(d, o, a) + x
        /\ Node(e, x) =
             [kind |-> "start", name |-> Cell(d, Ext(o) + 2) + 1,
              attrs |-> [a \in 1 .. Cell(d, Ext(o) + 6) |->
                [raw |-> Cell(e, AttrRec(e, x, a) + 4) + 1, data |-> Cell(e, AttrRec(e, x, a) + 8) + 1]]]
    BY <1>1, <1>2 DEF StartLike
  <2>2. ASSUME NEW a \in 1 .. Cell(d, Ext(o) + 6)
        PROVE  /\ Cell(e, AttrRec(e, x, a) + 4) = Cell(d, AttrRec(d, o, a) + 4)
               /\ Cell(e, AttrRec(e, x, a) + 8) = Cell(d, AttrRec(d, o, a) + 8)
    <3> DEFINE u == AttrRec(d, o, a)
               v == AttrRec(e, x, a)
               j == u - o + 4
               k == u - o + 8
    <3>1. u \in Nat /\ u >= o + 18 /\ u + 10 <= o + n
      BY <1>2, StartIs
    <3>2. v \in Nat /\ v + o = u + x
      BY <2>1
    <3> HIDE DEF u, v
    <3>3. /\ j \in 0 .. n - 1 /\ x + j = v + 4 /\ o + j = u + 4
          /\ k \in 0 .. n - 1 /\ x + k = v + 8 /\ o + k = u + 8
      BY ONLY o \in Nat, x \in Nat, n \in Nat, <3>1, <3>2
    <3> HIDE DEF j, k
    <3>4. Cell(e, v + 4) = Cell(d, u + 4) /\ Cell(e, v + 8) = Cell(d, u + 8)
      BY <3>3
    <3> QED BY <3>4 DEF u, v
  <2> QED BY <1>1, <1>2, <2>1, <2>2, StartNode
<1>4. CASE Cell(d, o) # StartType
  BY <1>1, <1>4 DEF OtherLike
<1> QED BY <1>1, <1>2, <1>4

-----------------------------------------------------------------------------
(* An edit behind the pool leaves the strings as they are.                 *)

KeepsPool(d, e, p) ==
    /\ e \in Seq(Nat) /\ Len(d) <= Len(e)
    /\ \A q \in 0 .. p.next - 1 : q # 2 => Cell(e, q) = Cell(d, q)
SameStrings(d, e, p) == \A i \in 0 .. p.count - 1 : ReadString(e, p, i) = ReadString(d, p, i)

\* The pool is where it was if its header is what it was.
LEMMA HeaderKept ==
    ASSUME NEW d, NEW p, NEW c, Tidy(d, p, c), NEW e,
           \A q \in 4 .. 14 : Cell(e, q) = Cell(d, q)
    PROVE  ParseStringPool(e) = p /\ Cell(e, PoolOff) = PoolType
<1>1. p = ParseStringPool(d) /\ Cell(d, PoolOff) = PoolType
  BY DEF Tidy, PoolAsWritten
<1>2. /\ Cell(e, PoolOff) = Cell(d, PoolOff) /\ Cell(e, PoolOff + 4) = Cell(d, PoolOff + 4)
      /\ Cell(e, PoolOff + 1) = Cell(d, PoolOff + 1) /\ Cell(e, PoolOff + 10) = Cell(d, PoolOff + 10)
      /\ Cell(e, PoolOff + 2) = Cell(d, PoolOff + 2)
  BY DEF PoolOff
<1> QED BY <1>1, <1>2 DEF ParseStringPool

\* Strings stay what they are if the cells in front of the chunks do.
LEMMA PoolKept ==
    ASSUME NEW d, NEW p, NEW c, Tidy(d, p, c), NEW e, KeepsPool(d, e, p)
    PROVE  ParseStringPool(e) = p /\ PoolAsWritten(e, p) /\ SameStrings(d, e, p)
<1>0. e \in Seq(Nat) /\ d \in Seq(Nat) /\ Len(d) <= Len(e) /\ Len(d) \in Nat /\ Len(e) \in Nat
  BY PoolBounds DEF KeepsPool
<1>0a. Len(d) <= Len(e) /\ Len(d) \in Nat /\ Len(e) \in Nat /\ p.next \in Nat
  BY <1>0, PoolBounds
<1>1. /\ p.count \in Nat /\ p.offsets \in Nat /\ p.start \in Nat /\ p.next \in Nat
      /\ p.offsets >= 18 /\ p.start = p.offsets + 2 * p.count
      /\ p.start <= p.next
  BY PoolBounds
<1>2. p.next + 4 <= Len(d)
  BY PoolBounds
<1>3. \A q \in 0 .. p.next - 1 : q # 2 => Cell(e, q) = Cell(d, q)
  BY DEF KeepsPool
<1>4. \A q \in 3 .. p.next - 1 : Cell(e, q) = Cell(d, q)
  <2>1. ASSUME NEW q \in 3 .. p.next - 1 PROVE q \in 0 .. p.next - 1 /\ q # 2
    BY ONLY <1>1, q \in 3 .. p.next - 1
  <2> QED BY <1>3, <2>1
<1>5. ParseStringPool(e) = p /\ Cell(e, PoolOff) = PoolType
  <2>1. \A q \in 4 .. 14 : q \in 3 .. p.next - 1
    BY ONLY <1>1
  <2> QED BY <1>4, <2>1, HeaderKept
<1>6. ASSUME NEW i \in 0 .. p.count - 1
      PROVE  /\ StringAt(e, p, i) = StringAt(d, p, i) /\ StringEnd(e, p, i) = StringEnd(d, p, i)
             /\ Cell(e, StringEnd(e, p, i)) = 0 /\ ReadString(e, p, i) = ReadString(d, p, i)
             /\ StringAt(d, p, i) < p.next /\ StringEnd(d, p, i) < p.next
  <2> DEFINE b == StringAt(d, p, i)
             n == Cell(d, b)
  <2>1. /\ p.offsets + 2 * i \in Nat /\ p.offsets + 2 * i + 2 <= p.start
        /\ b \in Nat /\ p.start <= b /\ n \in Nat
    BY StringIs
  <2>2. StringEnd(d, p, i) = b + n + 1 /\ StringEnd(d, p, i) < p.next /\ Cell(d, StringEnd(d, p, i)) = 0
    BY StringIs
  <2>3. StringAt(e, p, i) = b
    <3>1. p.offsets + 2 * i \in 3 .. p.next - 1
      BY ONLY <1>1, <2>1
    <3>2. Cell(e, p.offsets + 2 * i) = Cell(d, p.offsets + 2 * i)
      BY <1>4, <3>1
    <3> QED BY <3>2 DEF StringAt
  <2> HIDE DEF b, n
  <2>4. b + n + 1 < p.next
    BY <2>2
  <2>5. \A j \in 0 .. n + 1 : b + j \in 3 .. p.next - 1
    <3> TAKE j \in 0 .. n + 1
    <3> QED BY ONLY <1>1, <2>1, <2>4, j \in 0 .. n + 1
  <2>6. \A j \in 0 .. n + 1 : Cell(e, b + j) = Cell(d, b + j)
    BY <1>4, <2>5
  <2>7. Cell(e, b) = n
    <3>1. 0 \in 0 .. n + 1 /\ b + 0 = b
      BY ONLY <2>1
    <3> QED BY <2>6, <3>1 DEF n
  <2>8. StringEnd(e, p, i) = b + n + 1
    BY <2>3, <2>7 DEF StringEnd
  <2>9. Cell(e, b + n + 1) = 0
    <3>1. n + 1 \in 0 .. n + 1 /\ b + (n + 1) = b + n + 1
      BY ONLY <2>1
    <3> QED BY <2>2, <2>6, <3>1
  <2>10. TextAt(e, b) = TextAt(d, b)
    <3>1. \A j \in 0 .. n : Cell(e, b + j) = Cell(d, b + j)
      <4>1. \A j \in 0 .. n : j \in 0 .. n + 1
        BY ONLY <2>1
      <4> QED BY <2>6, <4>1
    <3>2. b + n + 1 < Len(d) /\ b + n + 1 < Len(e)
      BY ONLY <1>0a, <1>2, <2>1, <2>4
    <3>3. Cell(d, b) = n
      BY DEF n
    <3>4. TwoTexts(d, e, b, b, n)
      BY <1>0, <2>1, <3>1, <3>2, <3>3 DEF TwoTexts
    <3> QED BY <3>4, TextMoved
  <2>11. b < p.next
    BY ONLY <1>1, <2>1, <2>4
  <2> QED BY <2>2, <2>3, <2>8, <2>9, <2>10, <2>11, ReadIs DEF b
<1>7. SameStrings(d, e, p)
  BY <1>6 DEF SameStrings
<1>8. PoolAsWritten(e, p)
  BY <1>5, <1>6 DEF Tidy, PoolAsWritten
<1> QED BY <1>5, <1>7, <1>8

\* The chunks stay where they are if their sizes stay what they are.
LEMMA ChunksStay ==
    ASSUME NEW d, NEW p, NEW c, Tidy(d, p, c), NEW e, Len(e) = Len(d),
           \A k \in 1 .. Len(c) : Cell(e, c[k] + 2) = Cell(d, c[k] + 2)
    PROVE  ChunksFollow(e, p, c)
<1>1. ChunksFollow(d, p, c) /\ DOMAIN c = 1 .. Len(c)
  BY PoolBounds, LenProperties DEF Tidy
<1> QED BY <1>1 DEF ChunksFollow

\* Where a chunk lies.
LEMMA ChunkBounds ==
    ASSUME NEW d, NEW p, NEW c, Tidy(d, p, c), NEW k \in 1 .. Len(c), NEW n, n = Cell(d, c[k] + 2)
    PROVE  /\ c[k] \in Nat /\ n \in Nat /\ n >= 4 /\ p.next <= c[k] /\ c[k] + n <= Len(d)
           /\ c[k] + n = IF k = Len(c) THEN Len(d) ELSE c[k + 1]
           /\ TwoChunks(d, d, c[k], c[k], n) /\ NodeAsWritten(d, p, c[k])
           /\ \A j \in 1 .. Len(c) : j < k => c[j] + Cell(d, c[j] + 2) <= c[k]
<1>1. d \in Seq(Nat) /\ ChunksFollow(d, p, c) /\ NodeAsWritten(d, p, c[k])
  BY DEF Tidy
<1>2. c[k] \in Nat /\ p.next <= c[k]
  BY PoolBounds
<1>3. n \in Nat /\ n >= 4 /\ c[k] + n = IF k = Len(c) THEN Len(d) ELSE c[k + 1]
  BY <1>1, ChunkIs
<1>4. c[k] + n <= Len(d) /\ \A j \in 1 .. Len(c) : j < k => c[j] + Cell(d, c[j] + 2) <= c[k]
  BY <1>1, ChainOrder
<1>5. TwoChunks(d, d, c[k], c[k], n)
  BY <1>1, <1>2, <1>3, <1>4 DEF TwoChunks
<1> QED BY <1>1, <1>2, <1>3, <1>4, <1>5

-----------------------------------------------------------------------------
(* An attribute is set.                                                    *)

SameNodes(d, e, c, k) == \A j \in 1 .. Len(c) : j # k => Node(e, c[j]) = Node(d, c[j])

\* What is written into the chunk k behind its first 18 cells.
WritesIn(d, e, c, k) ==
    /\ e \in Seq(Nat) /\ Len(e) = Len(d)
    /\ \A q \in 0 .. Len(d) - 1 :
        ~ (c[k] + 18 <= q /\ q < c[k] + Cell(d, c[k] + 2)) => Cell(e, q) = Cell(d, q)

\* Writing into the attributes of an element leaves a tidy file, its strings and
\* the other nodes.
LEMMA WriteKeeps ==
    ASSUME NEW d, NEW p, NEW c, Tidy(d, p, c), NEW k \in 1 .. Len(c), NEW e, WritesIn(d, e, c, k)
    PROVE  /\ Tidy(e, p, c) /\ SameStrings(d, e, p) /\ SameNodes(d, e, c, k)
           /\ OtherLike(d, e, c[k], c[k]) /\ StartLike(d, e, c[k], c[k])
<1> DEFINE n == Cell(d, c[k] + 2)
           N == Len(d)
<1>0. d \in Seq(Nat) /\ e \in Seq(Nat) /\ Len(e) = N
  BY PoolBounds DEF WritesIn
<1>1. N \in Nat /\ p.next \in Nat /\ p.next + 4 <= N /\ Len(c) \in Nat \ {0} /\ p.next >= 18
  <2>1. N \in Nat /\ p.next + 4 <= N /\ Len(c) \in Nat \ {0}
    BY PoolBounds
  <2>2. p.start \in Nat /\ p.offsets \in Nat /\ p.next \in Nat /\ p.offsets >= 18
        /\ p.count \in Nat /\ p.start = p.offsets + 2 * p.count /\ p.start <= p.next
    BY PoolBounds
  <2>3. p.next >= 18
    BY ONLY <2>2
  <2> QED BY <2>1, <2>2, <2>3
<1>2. c[k] \in Nat /\ n \in Nat /\ n >= 4 /\ p.next <= c[k] /\ c[k] + n <= N
  BY ChunkBounds
<1>3. \A q \in 0 .. N - 1 : ~ (c[k] + 18 <= q /\ q < c[k] + n) => Cell(e, q) = Cell(d, q)
  BY DEF WritesIn
<1>4. ASSUME NEW j \in 1 .. Len(c), j # k
      PROVE  Copied(d, e, c[j], c[j], Cell(d, c[j] + 2))
  <2> DEFINE m == Cell(d, c[j] + 2)
  <2>1. c[j] \in Nat /\ m \in Nat /\ m >= 4 /\ c[j] + m <= N
    BY ChunkBounds
  <2>2. c[j] + m <= c[k] \/ c[k] + n <= c[j]
    <3>1. j < k \/ k < j
      BY <1>1, <1>4
    <3> QED BY <3>1, ChunkBounds
  <2> HIDE DEF N
  <2>3. ASSUME NEW i \in 0 .. m - 1 PROVE Cell(e, c[j] + i) = Cell(d, c[j] + i)
    <3> HIDE DEF m, n
    <3>1. c[j] + i \in 0 .. N - 1 /\ ~ (c[k] + 18 <= c[j] + i /\ c[j] + i < c[k] + n)
      <4>1. N \in Nat
        BY <1>1
      <4>2. c[j] + i \in 0 .. N - 1 /\ c[j] <= c[j] + i /\ c[j] + i < c[j] + m /\ c[j] + i \in Nat
        BY ONLY <4>1, <2>1, i \in 0 .. m - 1
      <4>3. CASE c[j] + m <= c[k]
        BY ONLY <1>2, <2>1, <4>2, <4>3
      <4>4. CASE c[k] + n <= c[j]
        BY ONLY <1>2, <2>1, <4>2, <4>4, SMTT(40)
      <4> QED BY <2>2, <4>3, <4>4
    <3> QED BY <1>3, <3>1
  <2> QED BY <1>0, <2>1, <2>3 DEF Copied, TwoChunks, N
<1>5. MayGrow(p, p)
  <2>1. p.count \in Nat
    BY PoolBounds
  <2>2. p.count <= p.count
    BY ONLY <2>1
  <2> QED BY <2>1, <2>2 DEF MayGrow
<1>6. ASSUME NEW j \in 1 .. Len(c), j # k
      PROVE  /\ Cell(e, c[j]) = Cell(d, c[j]) /\ Cell(e, c[j] + 2) = Cell(d, c[j] + 2)
             /\ NodeAsWritten(e, p, c[j]) /\ Node(e, c[j]) = Node(d, c[j])
  <2>1. Copied(d, e, c[j], c[j], Cell(d, c[j] + 2)) /\ NodeAsWritten(d, p, c[j])
    BY <1>4, <1>6, ChunkBounds
  <2> QED BY <1>5, <2>1, NodeMoved
<1>7. Alike(d, e, c[k], c[k], n)
  <2> HIDE DEF N
  <2>1. ASSUME NEW i \in 0 .. n - 1, i < 18 PROVE Cell(e, c[k] + i) = Cell(d, c[k] + i)
    <3> HIDE DEF n
    <3>1. c[k] + i \in 0 .. N - 1 /\ ~ (c[k] + 18 <= c[k] + i /\ c[k] + i < c[k] + n)
      BY ONLY <1>1, <1>2, i \in 0 .. n - 1, i < 18
    <3> QED BY <1>3, <3>1
  <2> QED BY <1>0, <1>2, <2>1 DEF Alike, TwoChunks, N
<1>8. /\ Cell(e, c[k]) = Cell(d, c[k]) /\ Cell(e, c[k] + 2) = n
      /\ NodeAsWritten(e, p, c[k]) /\ OtherLike(d, e, c[k], c[k]) /\ StartLike(d, e, c[k], c[k])
  <2>1. NodeAsWritten(d, p, c[k])
    BY ChunkBounds
  <2> HIDE DEF n
  <2> QED BY <1>5, <1>7, <2>1, NodeLike
<1>9. KeepsPool(d, e, p) /\ Cell(e, 2) = Len(e)
  <2> HIDE DEF n
  <2>1. ASSUME NEW q \in 0 .. p.next - 1 PROVE Cell(e, q) = Cell(d, q)
    <3> HIDE DEF N
    <3>1. q \in 0 .. N - 1 /\ ~ (c[k] + 18 <= q /\ q < c[k] + n)
      BY ONLY <1>1, <1>2, q \in 0 .. p.next - 1
    <3> QED BY <1>3, <3>1
  <2>2. 2 \in 0 .. p.next - 1
    BY ONLY <1>1
  <2>3. Cell(d, 2) = Len(d)
    BY DEF Tidy
  <2> QED BY <1>0, <1>1, <2>1, <2>2, <2>3 DEF KeepsPool
<1>10. ParseStringPool(e) = p /\ PoolAsWritten(e, p) /\ SameStrings(d, e, p)
  BY <1>9, PoolKept
<1>11. ChunksFollow(e, p, c)
  <2>1. \A j \in 1 .. Len(c) : Cell(e, c[j] + 2) = Cell(d, c[j] + 2)
    BY <1>6, <1>8
  <2> QED BY <1>0, <2>1, ChunksStay
<1>12. SameNodes(d, e, c, k)
  BY <1>6 DEF SameNodes
<1>13. Tidy(e, p, c)
  <2>1. \A j \in 1 .. Len(c) : NodeAsWritten(e, p, c[j]) /\ Cell(e, c[j]) = Cell(d, c[j])
    BY <1>6, <1>8
  <2>2. Len(c) \in 1 .. Len(c)
    BY ONLY <1>1
  <2>3. Cell(d, c[Len(c)]) # StartType /\ Len(d) > 18
    BY DEF Tidy
  <2>4. Cell(e, c[Len(c)]) # StartType
    BY <2>1, <2>2, <2>3
  <2> QED BY <1>0, <1>9, <1>10, <1>11, <2>1, <2>3, <2>4 DEF Tidy
<1> QED BY <1>8, <1>10, <1>12, <1>13

AttrSetting(d, p, c, k, a, v, e) ==
    /\ Tidy(d, p, c) /\ k \in 1 .. Len(c) /\ Cell(d, c[k]) = StartType
    /\ a \in 1 .. Cell(d, Ext(c[k]) + 6) /\ v \in Nat
    /\ e = Put(d, AttrRec(d, c[k], a) + 8, v)
\* One node has another value in an attribute, and the others are the same.
OneSet(d, e, c, k, a, v) ==
    /\ DOMAIN c = 1 .. Len(c) /\ k \in 1 .. Len(c) /\ SameNodes(d, e, c, k)
    /\ Node(e, c[k]) = [Node(d, c[k]) EXCEPT !.attrs[a].data = v]

\* set_attr_int_data changes the value of that attribute alone.
LEMMA AttrSet ==
    ASSUME NEW d, NEW p, NEW c, NEW k, NEW a, NEW v, NEW e, AttrSetting(d, p, c, k, a, v, e)
    PROVE  Tidy(e, p, c) /\ SameStrings(d, e, p) /\ OneSet(d, e, c, k, a, v + 1)
<1>h. /\ Tidy(d, p, c) /\ k \in 1 .. Len(c) /\ Cell(d, c[k]) = StartType
      /\ a \in 1 .. Cell(d, Ext(c[k]) + 6) /\ v \in Nat
      /\ e = Put(d, AttrRec(d, c[k], a) + 8, v)
  BY DEF AttrSetting
<1> USE <1>h
<1> DEFINE o == c[k]
           n == Cell(d, o + 2)
           N == Len(d)
           cnt == Cell(d, Ext(o) + 6)
           u == AttrRec(d, o, a)
<1>0. d \in Seq(Nat) /\ N \in Nat
  BY PoolBounds
<1>1. o \in Nat /\ n \in Nat /\ n >= 4 /\ o + n <= N /\ NodeAsWritten(d, p, o)
  BY ChunkBounds
<1>2. /\ cnt \in Nat
      /\ \A b \in 1 .. cnt : AttrRec(d, o, b) \in Nat /\ AttrRec(d, o, b) >= o + 18 /\ AttrRec(d, o, b) + 10 <= o + n
      /\ \A b, f \in 1 .. cnt :
            b # f => \/ AttrRec(d, o, b) + 10 <= AttrRec(d, o, f)
                     \/ AttrRec(d, o, f) + 10 <= AttrRec(d, o, b)
  <2> HIDE DEF o
  <2>1. Cell(d, o) = StartType
    BY DEF o
  <2> QED BY <1>0, <1>1, <2>1, StartIs
<1>3. u \in Nat /\ u >= o + 18 /\ u + 10 <= o + n
  BY <1>2
<1> HIDE DEF u
<1>4. /\ e \in Seq(Nat) /\ Len(e) = N
      /\ \A q \in 0 .. N - 1 : Cell(e, q) = IF q = u + 8 THEN v ELSE Cell(d, q)
  <2>1. u + 8 \in 0 .. N - 1
    <3> HIDE DEF o, n, N
    <3> QED BY ONLY <1>0, <1>1, <1>3
  <2>2. e = Put(d, u + 8, v)
    BY DEF u
  <2> QED BY <1>0, <2>1, <2>2, PutIs, SMTT(40)
<1>5. WritesIn(d, e, c, k)
  <2>1. ASSUME NEW q \in 0 .. N - 1, ~ (o + 18 <= q /\ q < o + n) PROVE Cell(e, q) = Cell(d, q)
    <3>1. q # u + 8
      <4> HIDE DEF o, n, N
      <4> QED BY ONLY <1>0, <1>1, <1>3, <2>1, q \in 0 .. N - 1
    <3> QED BY <1>4, <3>1
  <2> QED BY <1>4, <2>1 DEF WritesIn
<1>6. Tidy(e, p, c) /\ SameStrings(d, e, p) /\ SameNodes(d, e, c, k) /\ StartLike(d, e, o, o)
  BY <1>5, WriteKeeps
<1>7. /\ \A b \in 1 .. cnt : AttrRec(e, o, b) \in Nat /\ AttrRec(e, o, b) + o = AttrRec(d, o, b) + o
      /\ Node(e, o) =
             [kind |-> "start", name |-> Cell(d, Ext(o) + 2) + 1,
              attrs |-> [b \in 1 .. cnt |->
                [raw |-> Cell(e, AttrRec(e, o, b) + 4) + 1, data |-> Cell(e, AttrRec(e, o, b) + 8) + 1]]]
  BY <1>6 DEF StartLike
<1>8. ASSUME NEW b \in 1 .. cnt
      PROVE  /\ Cell(e, AttrRec(e, o, b) + 4) = Cell(d, AttrRec(d, o, b) + 4)
             /\ Cell(e, AttrRec(e, o, b) + 8) = IF b = a THEN v ELSE Cell(d, AttrRec(d, o, b) + 8)
  <2> DEFINE w == AttrRec(d, o, b)
             y == AttrRec(e, o, b)
  <2>1. /\ w \in Nat /\ w >= o + 18 /\ w + 10 <= o + n
        /\ y \in Nat /\ y + o = w + o
    BY <1>2, <1>7
  <2>2. b # a => w + 10 <= u \/ u + 10 <= w
    BY <1>2 DEF u
  <2>3. b = a => w = u
    BY DEF u
  <2> HIDE DEF w, y, o, n, N
  <2>4. y = w /\ w + 4 \in 0 .. N - 1 /\ w + 8 \in 0 .. N - 1 /\ w + 4 # u + 8 /\ (w + 8 = u + 8 <=> b = a)
    <3>1. y = w /\ w + 4 \in 0 .. N - 1 /\ w + 8 \in 0 .. N - 1
      BY ONLY <1>0, <1>1, <2>1
    <3>2. CASE b = a
      BY ONLY <1>3, <2>1, <2>3, <3>1, <3>2
    <3>3. CASE b # a
      BY ONLY <1>3, <2>1, <2>2, <3>1, <3>3
    <3> QED BY <3>1, <3>2, <3>3
  <2> QED BY <1>4, <2>4 DEF w, y
<1>9. Node(d, o) =
             [kind |-> "start", name |-> Cell(d, Ext(o) + 2) + 1,
              attrs |-> [b \in 1 .. cnt |->
                [raw |-> Cell(d, AttrRec(d, o, b) + 4) + 1, data |-> Cell(d, AttrRec(d, o, b) + 8) + 1]]]
  BY StartNode
<1>10. Node(e, o) = [Node(d, o) EXCEPT !.attrs[a].data = v + 1]
  <2> DEFINE R(b) == Cell(d, AttrRec(d, o, b) + 4) + 1
             D(b) == Cell(d, AttrRec(d, o, b) + 8) + 1
             F == [b \in 1 .. cnt |-> [raw |-> R(b), data |-> D(b)]]
             G == [b \in 1 .. cnt |-> [raw |-> R(b), data |-> IF b = a THEN v + 1 ELSE D(b)]]
             nm == Cell(d, Ext(o) + 2) + 1
  <2>1. Node(e, o) = [kind |-> "start", name |-> nm, attrs |-> G]
    <3>1. \A b \in 1 .. cnt : /\ Cell(e, AttrRec(e, o, b) + 4) + 1 = R(b)
                              /\ Cell(e, AttrRec(e, o, b) + 8) + 1 = IF b = a THEN v + 1 ELSE D(b)
      BY <1>8
    <3> HIDE DEF R, D
    <3> QED BY <1>7, <3>1
  <2>2. Node(d, o) = [kind |-> "start", name |-> nm, attrs |-> F]
    BY <1>9
  <2> HIDE DEF R, D, nm, cnt
  <2>3. G = [F EXCEPT ![a].data = v + 1]
    BY DEF cnt
  <2> HIDE DEF F, G
  <2> QED BY <2>1, <2>2, <2>3
<1>11. DOMAIN c = 1 .. Len(c)
  BY PoolBounds, LenProperties
<1> QED BY <1>6, <1>10, <1>11 DEF OneSet

-----------------------------------------------------------------------------
(* A string is overwritten.                                                *)

LEMMA Numbers ==
    ASSUME NEW d, NEW p, NEW c, Tidy(d, p, c)
    PROVE  /\ p.count \in Nat /\ p.offsets \in Nat /\ p.start \in Nat /\ p.next \in Nat
           /\ p.offsets >= 18 /\ p.start = p.offsets + 2 * p.count
           /\ p.start <= p.next /\ p.start >= 18 /\ p.next >= 18
<1>1. /\ p.count \in Nat /\ p.offsets \in Nat /\ p.start \in Nat /\ p.next \in Nat
      /\ p.offsets >= 18 /\ p.start = p.offsets + 2 * p.count
      /\ p.start <= p.next
  BY PoolBounds
<1>2. p.start >= 18 /\ p.next >= 18
  BY ONLY <1>1
<1> QED BY <1>1, <1>2

\* Chunks are nodes as before if no cell behind the pool has changed.
KeepsRest(d, e, p) ==
    /\ e \in Seq(Nat) /\ Len(e) = Len(d)
    /\ \A q \in p.next .. Len(d) - 1 : Cell(e, q) = Cell(d, q)

LEMMA RestKept ==
    ASSUME NEW d, NEW p, NEW c, Tidy(d, p, c), NEW e, KeepsRest(d, e, p)
    PROVE  /\ ChunksFollow(e, p, c)
           /\ \A k \in 1 .. Len(c) : /\ Cell(e, c[k]) = Cell(d, c[k])
                                     /\ NodeAsWritten(e, p, c[k]) /\ Node(e, c[k]) = Node(d, c[k])
<1> DEFINE N == Len(d)
<1>0. d \in Seq(Nat) /\ e \in Seq(Nat) /\ N \in Nat /\ Len(e) = N
  BY PoolBounds DEF KeepsRest
<1>1. p.next \in Nat /\ N \in Nat
  BY PoolBounds
<1>2. MayGrow(p, p)
  <2>1. p.count \in Nat
    BY PoolBounds
  <2>2. p.count <= p.count
    BY ONLY <2>1
  <2> QED BY <2>1, <2>2 DEF MayGrow
<1>3. ASSUME NEW k \in 1 .. Len(c)
      PROVE  /\ Cell(e, c[k]) = Cell(d, c[k]) /\ Cell(e, c[k] + 2) = Cell(d, c[k] + 2)
             /\ NodeAsWritten(e, p, c[k]) /\ Node(e, c[k]) = Node(d, c[k])
  <2> DEFINE n == Cell(d, c[k] + 2)
  <2>1. c[k] \in Nat /\ n \in Nat /\ n >= 4 /\ p.next <= c[k] /\ c[k] + n <= N
    BY ChunkBounds
  <2>2. ASSUME NEW i \in 0 .. n - 1 PROVE Cell(e, c[k] + i) = Cell(d, c[k] + i)
    <3>1. c[k] + i \in p.next .. N - 1
      <4> HIDE DEF n, N
      <4> QED BY ONLY <1>1, <2>1, i \in 0 .. n - 1
    <3> QED BY <3>1 DEF KeepsRest
  <2>3. Copied(d, e, c[k], c[k], n)
    BY <1>0, <2>1, <2>2 DEF Copied, TwoChunks
  <2>4. NodeAsWritten(d, p, c[k])
    BY ChunkBounds
  <2> HIDE DEF n
  <2>5. /\ Cell(e, c[k]) = Cell(d, c[k]) /\ Cell(e, c[k] + 2) = n
        /\ NodeAsWritten(e, p, c[k]) /\ Node(e, c[k]) = Node(d, c[k])
    BY <1>2, <2>3, <2>4, NodeMoved
  <2> QED BY <2>5 DEF n
<1>4. ChunksFollow(e, p, c)
  BY <1>0, <1>3, ChunksStay
<1> QED BY <1>3, <1>4

Overwriting(d, p, c, i, v, b, e) ==
    /\ Tidy(d, p, c) /\ i \in 0 .. p.count - 1 /\ v \in Seq(Nat)
    /\ b = StringAt(d, p, i) /\ Len(v) = Cell(d, b)
    /\ e = [k \in DOMAIN d |-> IF k - 1 \in b + 1 .. b + 1 + Len(v) - 1 THEN v[k - (b + 1)] ELSE d[k]]
\* One string has become v.
OneString(d, e, p, i, v) ==
    /\ ReadString(e, p, i) = v
    /\ \A j \in 0 .. p.count - 1 : j # i => ReadString(e, p, j) = ReadString(d, p, j)

\* overwrite_utf16_string_inplace changes that string alone.
LEMMA Overwritten ==
    ASSUME NEW d, NEW p, NEW c, NEW i, NEW v, NEW b, NEW e, Overwriting(d, p, c, i, v, b, e)
    PROVE  /\ Tidy(e, p, c) /\ OneString(d, e, p, i, v)
           /\ \A k \in 1 .. Len(c) : Node(e, c[k]) = Node(d, c[k])
<1>h. /\ Tidy(d, p, c) /\ i \in 0 .. p.count - 1 /\ v \in Seq(Nat)
      /\ b = StringAt(d, p, i) /\ Len(v) = Cell(d, b)
      /\ e = [k \in DOMAIN d |-> IF k - 1 \in b + 1 .. b + 1 + Len(v) - 1 THEN v[k - (b + 1)] ELSE d[k]]
  BY DEF Overwriting
<1> USE <1>h
<1> DEFINE N == Len(d)
           n == Len(v)
<1>0. d \in Seq(Nat) /\ DOMAIN d = 1 .. N /\ v \in [1 .. n -> Nat]
  BY PoolBounds, LenProperties
<1>1. /\ p.count \in Nat /\ p.offsets \in Nat /\ p.start \in Nat /\ p.next \in Nat
      /\ p.offsets >= 18 /\ p.start = p.offsets + 2 * p.count
      /\ p.start <= p.next /\ p.start >= 18
  BY Numbers
<1>2. N \in Nat /\ p.next + 4 <= N
  BY PoolBounds
<1>3. b \in Nat /\ p.start <= b /\ n \in Nat /\ n = Cell(d, b) /\ b + n + 1 < p.next /\ Cell(d, b + n + 1) = 0
  <2>1. /\ b \in Nat /\ p.start <= b /\ StringEnd(d, p, i) = b + n + 1
        /\ StringEnd(d, p, i) < p.next /\ Cell(d, StringEnd(d, p, i)) = 0
    BY StringIs
  <2> QED BY <2>1
<1> HIDE DEF N, n
<1>b. b \in Nat /\ n \in Nat /\ N \in Nat /\ b + n + 1 < N
  <2>1. b \in Nat /\ n \in Nat /\ b + n + 1 < p.next
    BY <1>3
  <2> QED BY ONLY <1>1, <1>2, <2>1
<1>4. /\ e \in Seq(Nat) /\ Len(e) = N
      /\ \A q \in 0 .. N - 1 : ~ (b < q /\ q <= b + n) => Cell(e, q) = Cell(d, q)
      /\ \A j \in 1 .. n : Cell(e, b + j) = v[j]
  <2>1. \A k \in 1 .. N : d[k] \in Nat
    BY <1>0, ElementOfSeq DEF N
  <2>2. e = [k \in 1 .. N |-> IF k - 1 \in b + 1 .. b + 1 + n - 1 THEN v[k - (b + 1)] ELSE d[k]]
    BY <1>0 DEF n
  <2>3. ASSUME NEW k \in 1 .. N PROVE k - 1 \in b + 1 .. b + 1 + n - 1 => k - (b + 1) \in 1 .. n
    BY ONLY <1>2, <1>3, k \in 1 .. N
  <2>4. e \in [1 .. N -> Nat]
    BY <1>0, <2>1, <2>2, <2>3
  <2>5. e \in Seq(Nat) /\ Len(e) = N
    BY <1>2, <2>4
  <2>6. ASSUME NEW q \in 0 .. N - 1, ~ (b < q /\ q <= b + n) PROVE Cell(e, q) = Cell(d, q)
    <3>1. q + 1 \in 1 .. N /\ q + 1 - 1 \notin b + 1 .. b + 1 + n - 1
      <4>1. q \in Nat /\ q < N /\ q + 1 - 1 = q
        BY ONLY <1>b, q \in 0 .. N - 1
      <4>2. q + 1 \in 1 .. N
        BY ONLY <1>b, <4>1
      <4>3. q \notin b + 1 .. b + 1 + n - 1
        BY ONLY <1>b, <2>6, <4>1
      <4> QED BY <4>1, <4>2, <4>3
    <3>2. e[q + 1] = d[q + 1]
      BY ONLY <2>2, <3>1
    <3> QED BY <3>2 DEF Cell
  <2>7. ASSUME NEW j \in 1 .. n PROVE Cell(e, b + j) = v[j]
    <3>1. j \in Nat /\ 1 <= j /\ j <= n
      BY ONLY <1>b, j \in 1 .. n
    <3>2. PICK k : k = b + j + 1
      OBVIOUS
    <3>3. k \in 1 .. N /\ k - 1 \in b + 1 .. b + 1 + n - 1 /\ k - (b + 1) = j
      BY ONLY <1>b, <3>1, <3>2
    <3>4. e[k] = v[j]
      <4>1. e[k] = v[k - (b + 1)]
        BY ONLY <2>2, <3>3
      <4> QED BY ONLY <3>3, <4>1
    <3> QED BY <3>2, <3>4 DEF Cell
  <2> QED BY <2>5, <2>6, <2>7
<1>5. \A q \in 0 .. b : Cell(e, q) = Cell(d, q)
  <2> TAKE q \in 0 .. b
  <2>1. q \in 0 .. N - 1 /\ ~ (b < q /\ q <= b + n)
    BY ONLY <1>1, <1>2, <1>3, q \in 0 .. b
  <2> QED BY <1>4, <2>1
<1>6. ParseStringPool(e) = p /\ Cell(e, PoolOff) = PoolType /\ Cell(e, 2) = Len(e) /\ Cell(e, b) = n
  <2>1. (\A q \in 4 .. 14 : q \in 0 .. b) /\ 2 \in 0 .. b /\ b \in 0 .. b
    BY ONLY <1>1, <1>3
  <2>2. ParseStringPool(e) = p /\ Cell(e, PoolOff) = PoolType
    <3>1. \A q \in 4 .. 14 : Cell(e, q) = Cell(d, q)
      BY <1>5, <2>1
    <3> QED BY <3>1, HeaderKept
  <2>3. Cell(d, 2) = N
    BY DEF Tidy, N
  <2> QED BY <1>3, <1>4, <1>5, <2>1, <2>2, <2>3
<1>7. \A j \in 0 .. p.count - 1 : StringAt(e, p, j) = StringAt(d, p, j)
  <2> TAKE j \in 0 .. p.count - 1
  <2>1. p.offsets + 2 * j \in Nat /\ p.offsets + 2 * j + 2 <= p.start
    BY StringIs
  <2>2. p.offsets + 2 * j \in 0 .. b
    BY ONLY <1>1, <1>3, <2>1
  <2> QED BY <1>5, <2>2 DEF StringAt
<1>8. /\ ReadString(e, p, i) = v /\ StringEnd(e, p, i) = StringEnd(d, p, i)
      /\ Cell(e, StringEnd(e, p, i)) = 0
  <2>1. StringEnd(e, p, i) = b + n + 1 /\ StringEnd(d, p, i) = b + n + 1
    BY <1>3, <1>6, <1>7 DEF StringEnd
  <2>2. Cell(e, b + n + 1) = 0
    <3>1. b + n + 1 \in 0 .. N - 1 /\ ~ (b < b + n + 1 /\ b + n + 1 <= b + n)
      BY ONLY <1>b
    <3> QED BY <1>3, <1>4, <3>1
  <2>3. b + n + 1 < N
    BY ONLY <1>1, <1>2, <1>3
  <2>4. /\ TextAt(e, b) \in Seq(Nat) /\ Len(TextAt(e, b)) = n
        /\ \A j \in 1 .. n : TextAt(e, b)[j] = Cell(e, b + j)
    BY <1>3, <1>4, <1>6, <2>3, TextIs
  <2>5. TextAt(e, b) = v
    BY <1>4, <2>4, SeqEqual DEF n
  <2> QED BY <1>7, <2>1, <2>2, <2>5, ReadIs
<1>9. ASSUME NEW j \in 0 .. p.count - 1, j # i
      PROVE  /\ ReadString(e, p, j) = ReadString(d, p, j) /\ StringEnd(e, p, j) = StringEnd(d, p, j)
             /\ Cell(e, StringEnd(e, p, j)) = 0
  <2> DEFINE x == StringAt(d, p, j)
             m == Cell(d, x)
  <2>1. /\ x \in Nat /\ m \in Nat /\ StringEnd(d, p, j) = x + m + 1 /\ StringEnd(d, p, j) < p.next
        /\ Cell(d, StringEnd(d, p, j)) = 0
        /\ StringEnd(d, p, i) < x \/ StringEnd(d, p, j) < b
    BY <1>9, StringIs
  <2>2. StringEnd(d, p, i) = b + n + 1
    BY <1>3 DEF StringEnd
  <2> HIDE DEF x, m
  <2>3. x + m + 1 < p.next /\ (b + n + 1 < x \/ x + m + 1 < b) /\ Cell(d, x + m + 1) = 0
    BY <2>1, <2>2
  <2>4. \A t \in 0 .. m + 1 : Cell(e, x + t) = Cell(d, x + t)
    <3> TAKE t \in 0 .. m + 1
    <3>1. x + t \in Nat /\ x <= x + t /\ x + t <= x + m + 1
      BY ONLY <2>1, t \in 0 .. m + 1
    <3>2. x + t \in 0 .. N - 1
      BY ONLY <1>1, <1>2, <2>1, <2>3, <3>1
    <3>3. ~ (b < x + t /\ x + t <= b + n)
      BY ONLY <1>3, <2>1, <2>3, <3>1
    <3> QED BY <1>4, <3>2, <3>3
  <2>5. \A t \in 0 .. m : t \in 0 .. m + 1
    BY ONLY <2>1
  <2>6. 0 \in 0 .. m + 1 /\ x + 0 = x /\ m + 1 \in 0 .. m + 1 /\ x + (m + 1) = x + m + 1
    BY ONLY <2>1
  <2>7. Cell(e, x) = m /\ Cell(e, x + m + 1) = 0 /\ Cell(d, x) = m
    BY <2>3, <2>4, <2>6 DEF m
  <2>8. x + m + 1 < N
    BY ONLY <1>1, <1>2, <2>1, <2>3
  <2>9. TwoTexts(d, e, x, x, m)
    BY <1>0, <1>4, <2>1, <2>4, <2>5, <2>7, <2>8 DEF TwoTexts, N
  <2>10. StringEnd(e, p, j) = x + m + 1 /\ StringEnd(d, p, j) = x + m + 1
    BY <1>7, <2>7 DEF StringEnd, x
  <2>11. ReadString(e, p, j) = ReadString(d, p, j)
    BY <1>7, <2>9, TextMoved, ReadIs DEF x
  <2> QED BY <2>7, <2>10, <2>11
<1>10. PoolAsWritten(e, p)
  <2>1. \A j \in 0 .. p.count - 1 :
            /\ StringAt(e, p, j) = StringAt(d, p, j) /\ StringEnd(e, p, j) = StringEnd(d, p, j)
            /\ Cell(e, StringEnd(e, p, j)) = 0
    BY <1>7, <1>8, <1>9
  <2> QED BY <1>6, <2>1, ZenonT(40) DEF Tidy, PoolAsWritten
<1>11. KeepsRest(d, e, p)
  <2>1. ASSUME NEW q \in p.next .. N - 1 PROVE Cell(e, q) = Cell(d, q)
    <3>1. q \in 0 .. N - 1 /\ ~ (b < q /\ q <= b + n)
      BY ONLY <1>1, <1>2, <1>3, q \in p.next .. N - 1
    <3> QED BY <1>4, <3>1
  <2> QED BY <1>4, <2>1 DEF KeepsRest, N
<1>12. /\ ChunksFollow(e, p, c)
       /\ \A k \in 1 .. Len(c) : /\ Cell(e, c[k]) = Cell(d, c[k])
                                 /\ NodeAsWritten(e, p, c[k]) /\ Node(e, c[k]) = Node(d, c[k])
  BY <1>11, RestKept
<1>13. Tidy(e, p, c)
  <2>1. Len(c) \in Nat \ {0}
    BY PoolBounds
  <2>2. Len(c) \in 1 .. Len(c)
    BY ONLY <2>1
  <2>3. Cell(d, c[Len(c)]) # StartType /\ N > 18
    BY DEF Tidy, N
  <2>4. Cell(e, c[Len(c)]) # StartType
    BY <1>12, <2>2, <2>3
  <2> QED BY <1>4, <1>6, <1>10, <1>12, <2>3, <2>4 DEF Tidy
<1> QED BY <1>8, <1>9, <1>12, <1>13 DEF OneString

-----------------------------------------------------------------------------
(* A cell, a part and a longer file again, for files of N cells.           *)

PutOf(d, N, o, v, e) == d \in Seq(Nat) /\ N = Len(d) /\ o \in 0 .. N - 1 /\ v \in Nat /\ e = Put(d, o, v)
PutGives(d, N, o, v, e) ==
    /\ e \in Seq(Nat) /\ Len(e) = N
    /\ \A q \in 0 .. N - 1 : Cell(e, q) = IF q = o THEN v ELSE Cell(d, q)
LEMMA PutFacts == ASSUME NEW d, NEW N, NEW o, NEW v, NEW e, PutOf(d, N, o, v, e) PROVE PutGives(d, N, o, v, e)
<1>1. /\ Put(d, o, v) \in Seq(Nat) /\ Len(Put(d, o, v)) = Len(d)
      /\ \A q \in 0 .. Len(d) - 1 : Cell(Put(d, o, v), q) = IF q = o THEN v ELSE Cell(d, q)
  BY PutIs DEF PutOf
<1> QED BY <1>1 DEF PutOf, PutGives

CutOf(d, N, m, t, u) ==
    d \in Seq(Nat) /\ N = Len(d) /\ m \in 0 .. N /\ t \in 0 .. N /\ m <= t /\ u = SubSeq(d, m + 1, t)
CutGives(d, m, t, u) ==
    u \in Seq(Nat) /\ Len(u) = t - m /\ \A q \in 1 .. t - m : u[q] = Cell(d, m + q - 1)
LEMMA CutFacts == ASSUME NEW d, NEW N, NEW m, NEW t, NEW u, CutOf(d, N, m, t, u) PROVE CutGives(d, m, t, u)
<1>1. /\ SubSeq(d, m + 1, t) \in Seq(Nat) /\ Len(SubSeq(d, m + 1, t)) = t - m
      /\ \A q \in 1 .. t - m : SubSeq(d, m + 1, t)[q] = Cell(d, m + q - 1)
  BY CutIs DEF CutOf
<1> QED BY <1>1 DEF CutOf, CutGives

SpliceOf(d, N, o, x, L, s) ==
    /\ d \in Seq(Nat) /\ N = Len(d) /\ x \in Seq(Nat) /\ L = Len(x) /\ o \in 0 .. N
    /\ s = Splice(d, o, x)
SpliceGives(d, N, o, x, L, s) ==
    /\ s \in Seq(Nat) /\ Len(s) = N + L
    /\ \A q \in 0 .. o - 1 : Cell(s, q) = Cell(d, q)
    /\ \A q \in 1 .. L : Cell(s, o + q - 1) = x[q]
    /\ \A q \in o .. N - 1 : Cell(s, q + L) = Cell(d, q)
LEMMA SpliceFacts ==
    ASSUME NEW d, NEW N, NEW o, NEW x, NEW L, NEW s, SpliceOf(d, N, o, x, L, s)
    PROVE  SpliceGives(d, N, o, x, L, s)
<1>1. /\ Splice(d, o, x) \in Seq(Nat) /\ Len(Splice(d, o, x)) = Len(d) + Len(x)
      /\ \A q \in 0 .. o - 1 : Cell(Splice(d, o, x), q) = Cell(d, q)
      /\ \A q \in 1 .. Len(x) : Cell(Splice(d, o, x), o + q - 1) = x[q]
      /\ \A q \in o .. Len(d) - 1 : Cell(Splice(d, o, x), q + Len(x)) = Cell(d, q)
  BY SpliceIs DEF SpliceOf
<1> QED BY <1>1 DEF SpliceOf, SpliceGives
-----------------------------------------------------------------------------
(* An element is copied.                                                   *)

\* The chunks k and k + 1 have n and m cells, and the record of the attribute
\* of chunk k begins r cells into it.
Twins(d, p, c, k, n, m, r) ==
    /\ d \in Seq(Nat) /\ Len(d) \in Nat /\ Cell(d, 2) = Len(d)
    /\ c[k] \in Nat /\ n \in Nat /\ m \in Nat /\ r \in Nat /\ p.next \in Nat
    /\ n >= 18 /\ m >= 4 /\ r >= 18 /\ r + 10 <= n /\ p.next >= 18 /\ p.next <= c[k]
    /\ c[k + 1] = c[k] + n /\ c[k] + (n + m) <= Len(d)

\* The two chunks of an element with one attribute, whose record is at r.
LEMMA TwinsAre ==
    ASSUME NEW d, NEW p, NEW c, Tidy(d, p, c), NEW k \in 1 .. Len(c), k < Len(c),
           Cell(d, c[k]) = StartType, Cell(d, Ext(c[k]) + 6) = 1,
           NEW n, n = Cell(d, c[k] + 2), NEW m, m = Cell(d, c[k + 1] + 2),
           NEW r, r = AttrRec(d, c[k], 1) - c[k]
    PROVE  Twins(d, p, c, k, n, m, r)
<1>1. /\ d \in Seq(Nat) /\ Len(d) \in Nat /\ Len(c) \in Nat
  BY PoolBounds
<1>2. p.next \in Nat /\ p.next >= 18
  BY Numbers
<1>3. k \in 1 .. Len(c) /\ k + 1 \in 1 .. Len(c) /\ k # Len(c)
  BY ONLY <1>1, k \in 1 .. Len(c), k < Len(c)
<1>4. /\ c[k] \in Nat /\ n \in Nat /\ p.next <= c[k] /\ c[k] + n <= Len(d) /\ c[k] + n = c[k + 1]
      /\ NodeAsWritten(d, p, c[k])
  BY <1>3, ChunkBounds
<1>5. m \in Nat /\ m >= 4 /\ c[k + 1] + m <= Len(d)
  BY <1>3, ChunkBounds
<1>6. /\ n >= 18
      /\ \A a \in 1 .. 1 : AttrRec(d, c[k], a) \in Nat /\ AttrRec(d, c[k], a) >= c[k] + 18 /\ AttrRec(d, c[k], a) + 10 <= c[k] + n
  BY <1>1, <1>4, StartIs
<1>7. r \in Nat /\ r >= 18 /\ r + 10 <= n
  <2>1. AttrRec(d, c[k], 1) \in Nat /\ AttrRec(d, c[k], 1) >= c[k] + 18 /\ AttrRec(d, c[k], 1) + 10 <= c[k] + n
    BY <1>6
  <2> DEFINE x == AttrRec(d, c[k], 1)
             o == c[k]
  <2>2. r = x - o /\ o \in Nat
    BY <1>4
  <2> HIDE DEF x, o
  <2>3. x \in Nat /\ x >= o + 18 /\ x + 10 <= o + n
    BY <2>1 DEF x, o
  <2> QED BY ONLY <1>4, <2>2, <2>3
<1>8. c[k] + (n + m) <= Len(d)
  <2> DEFINE o == c[k]
             N == Len(d)
  <2>1. o + n + m <= N /\ o \in Nat /\ N \in Nat
    BY <1>1, <1>4, <1>5
  <2> HIDE DEF o, N
  <2>2. o + (n + m) <= N
    BY ONLY <1>4, <1>5, <2>1
  <2> QED BY <2>2 DEF o, N
<1>9. Cell(d, 2) = Len(d)
  BY DEF Tidy
<1> QED BY <1>1, <1>2, <1>4, <1>5, <1>6, <1>7, <1>8, <1>9 DEF Twins

CopyOf(d, o, after, r, i) == Put(Put(SubSeq(d, o + 1, after), r + 4, i), r + 8, i)

\* e is d with the L cells from o on twice, and two cells of the second ones are i.
Doubled(d, e, o, L, r, i) ==
    /\ e \in Seq(Nat) /\ Len(e) = Len(d) + L /\ Cell(e, 2) = Len(e)
    /\ \A q \in 0 .. (o + L) - 1 : q # 2 => Cell(e, q) = Cell(d, q)
    /\ \A q \in o .. Len(d) - 1 : q # o + r + 4 /\ q # o + r + 8 => Cell(e, q + L) = Cell(d, q)
    /\ Cell(e, o + L + (r + 4)) = i /\ Cell(e, o + L + (r + 8)) = i

Copies(d, N, o, L, r, i, x) ==
    /\ d \in Seq(Nat) /\ N = Len(d) /\ N \in Nat /\ o \in Nat /\ L \in Nat /\ r \in Nat /\ i \in Nat
    /\ r + 10 <= L /\ o + L <= N /\ x = CopyOf(d, o, o + L, r, i)
CopyGives(d, o, L, r, i, x) ==
    /\ x \in Seq(Nat) /\ Len(x) = L /\ x[r + 4 + 1] = i /\ x[r + 8 + 1] = i
    /\ \A q \in 1 .. L : q # r + 4 + 1 /\ q # r + 8 + 1 => x[q] = Cell(d, o + q - 1)

\* The copy differs from the element in the two cells of the attribute.
LEMMA CopyIs ==
    ASSUME NEW d, NEW N, NEW o, NEW L, NEW r, NEW i, NEW x, Copies(d, N, o, L, r, i, x)
    PROVE  CopyGives(d, o, L, r, i, x)
<1> DEFINE u == SubSeq(d, o + 1, o + L)
           w == Put(u, r + 4, i)
<1>0. /\ d \in Seq(Nat) /\ N = Len(d) /\ N \in Nat /\ o \in Nat /\ L \in Nat /\ r \in Nat /\ i \in Nat
      /\ r + 10 <= L /\ o + L <= N
  BY DEF Copies
<1>n. o \in 0 .. N /\ o + L \in 0 .. N /\ o <= o + L /\ (o + L) - o = L
  BY ONLY <1>0
<1>1. u \in Seq(Nat) /\ Len(u) = L /\ \A q \in 1 .. L : u[q] = Cell(d, o + q - 1)
  <2>1. CutOf(d, N, o, o + L, u)
    BY <1>0, <1>n DEF CutOf
  <2>2. CutGives(d, o, o + L, u)
    BY <2>1, CutFacts
  <2> QED BY <1>n, <2>2 DEF CutGives
<1> HIDE DEF u
<1>2. r + 4 \in 0 .. L - 1 /\ r + 8 \in 0 .. L - 1
  BY ONLY <1>0
<1>3. PutGives(u, L, r + 4, i, w)
  <2>1. PutOf(u, L, r + 4, i, w)
    BY <1>0, <1>1, <1>2 DEF PutOf
  <2> HIDE DEF w
  <2> QED BY <2>1, PutFacts
<1> HIDE DEF w
<1>4. PutGives(w, L, r + 8, i, x)
  <2>1. PutOf(w, L, r + 8, i, x)
    BY <1>0, <1>2, <1>3 DEF PutOf, PutGives, Copies, CopyOf, w, u
  <2> QED BY <2>1, PutFacts
<1>5. /\ x \in Seq(Nat) /\ Len(x) = L
      /\ \A q \in 0 .. L - 1 : Cell(x, q) = IF q = r + 8 THEN i ELSE Cell(w, q)
      /\ \A q \in 0 .. L - 1 : Cell(w, q) = IF q = r + 4 THEN i ELSE Cell(u, q)
  BY <1>3, <1>4 DEF PutGives
<1>6. Cell(x, r + 4) = i /\ Cell(x, r + 8) = i
  <2>1. r + 4 # r + 8
    BY ONLY <1>0
  <2> QED BY <1>2, <1>5, <2>1
<1>7. ASSUME NEW q \in 1 .. L, q # r + 4 + 1, q # r + 8 + 1 PROVE x[q] = Cell(d, o + q - 1)
  <2>1. q - 1 \in 0 .. L - 1 /\ q - 1 # r + 4 /\ q - 1 # r + 8 /\ q - 1 + 1 = q
    BY ONLY <1>0, <1>7, q \in 1 .. L
  <2>2. Cell(x, q - 1) = Cell(u, q - 1)
    BY <1>5, <2>1
  <2>3. x[q] = u[q]
    BY <2>1, <2>2 DEF Cell
  <2> QED BY <1>1, <2>3
<1> QED BY <1>5, <1>6, <1>7 DEF Cell, CopyGives

\* The element, the copy behind it, and what followed moved up.
LEMMA Doubles ==
    ASSUME NEW d, NEW p, NEW c, NEW k, NEW n, NEW m, NEW r, Twins(d, p, c, k, n, m, r), NEW i \in Nat,
           NEW x, x = CopyOf(d, c[k], c[k] + (n + m), r, i),
           NEW e, e = Resized(Splice(d, c[k] + (n + m), x), Len(x))
    PROVE  Doubled(d, e, c[k], n + m, r, i)
<1> DEFINE L == n + m
           o == c[k]
           N == Len(d)
           s == Splice(d, o + L, x)
<1>0. d \in Seq(Nat) /\ N \in Nat /\ Cell(d, 2) = N
  BY DEF Twins
<1>1. L \in Nat /\ o \in Nat /\ r \in Nat /\ r + 10 <= L /\ o + L <= N /\ 18 <= o
  <2>1. n \in Nat /\ m \in Nat /\ r \in Nat /\ r + 10 <= n
    BY DEF Twins
  <2>2. o \in Nat /\ p.next \in Nat /\ p.next >= 18 /\ p.next <= o /\ o + L <= N
    BY DEF Twins
  <2>3. L \in Nat /\ r + 10 <= L
    BY ONLY <2>1
  <2> HIDE DEF o
  <2>4. 18 <= o
    BY ONLY <2>2
  <2> QED BY <2>1, <2>2, <2>3, <2>4
<1>2. x = CopyOf(d, o, o + L, r, i) /\ e = Resized(s, Len(x))
  OBVIOUS
<1> HIDE DEF L, o, N
<1>3. /\ x \in Seq(Nat) /\ Len(x) = L /\ x[r + 4 + 1] = i /\ x[r + 8 + 1] = i
      /\ \A q \in 1 .. L : q # r + 4 + 1 /\ q # r + 8 + 1 => x[q] = Cell(d, o + q - 1)
  <2>1. Copies(d, N, o, L, r, i, x)
    BY <1>0, <1>1, <1>2 DEF Copies, N
  <2>2. CopyGives(d, o, L, r, i, x)
    BY <2>1, CopyIs
  <2> QED BY <2>2 DEF CopyGives
<1>4. /\ s \in Seq(Nat) /\ Len(s) = N + L
      /\ \A q \in 0 .. (o + L) - 1 : Cell(s, q) = Cell(d, q)
      /\ \A q \in 1 .. L : Cell(s, o + L + q - 1) = x[q]
      /\ \A q \in o + L .. N - 1 : Cell(s, q + L) = Cell(d, q)
  <2>1. o + L \in 0 .. N
    BY ONLY <1>0, <1>1
  <2>2. SpliceOf(d, N, o + L, x, L, s)
    BY <1>0, <1>3, <2>1 DEF SpliceOf, N
  <2> HIDE DEF s
  <2>3. SpliceGives(d, N, o + L, x, L, s)
    BY <2>2, SpliceFacts
  <2> QED BY <2>3 DEF SpliceGives
<1> HIDE DEF s
<1>5. Cell(s, 2) = N
  <2>1. 2 \in 0 .. (o + L) - 1
    BY ONLY <1>1
  <2> QED BY <1>0, <1>4, <2>1
<1>6. /\ e \in Seq(Nat) /\ Len(e) = N + L
      /\ \A q \in 0 .. (N + L) - 1 : Cell(e, q) = IF q = 2 THEN N + L ELSE Cell(s, q)
  <2>1. e = Put(s, 2, N + L)
    BY <1>2, <1>3, <1>5 DEF Resized
  <2>2. 2 \in 0 .. (N + L) - 1 /\ N + L \in Nat
    BY ONLY <1>0, <1>1
  <2>3. PutOf(s, N + L, 2, N + L, e)
    BY <1>4, <2>1, <2>2 DEF PutOf
  <2>4. PutGives(s, N + L, 2, N + L, e)
    BY <2>3, PutFacts
  <2> QED BY <2>4 DEF PutGives
<1>7. Cell(e, 2) = Len(e)
  <2>1. 2 \in 0 .. (N + L) - 1
    BY ONLY <1>0, <1>1
  <2> QED BY <1>6, <2>1
<1>8. ASSUME NEW q \in 0 .. (o + L) - 1, q # 2 PROVE Cell(e, q) = Cell(d, q)
  <2>1. q \in 0 .. (N + L) - 1
    BY ONLY <1>0, <1>1, q \in 0 .. (o + L) - 1
  <2> QED BY <1>4, <1>6, <1>8, <2>1
<1>9. ASSUME NEW j \in 0 .. L - 1 PROVE Cell(e, o + L + j) = x[j + 1]
  <2>1. o + L + j \in 0 .. (N + L) - 1 /\ o + L + j # 2 /\ j + 1 \in 1 .. L
    BY ONLY <1>0, <1>1, j \in 0 .. L - 1
  <2>2. o + L + (j + 1) - 1 = o + L + j
    BY ONLY <1>1, j \in 0 .. L - 1
  <2>3. Cell(e, o + L + j) = Cell(s, o + L + j)
    BY <1>6, <2>1
  <2>4. Cell(s, o + L + (j + 1) - 1) = x[j + 1]
    BY <1>4, <2>1
  <2> QED BY <2>2, <2>3, <2>4
<1>10. Cell(e, o + L + (r + 4)) = i /\ Cell(e, o + L + (r + 8)) = i
  <2>1. r + 4 \in 0 .. L - 1 /\ r + 8 \in 0 .. L - 1
    BY ONLY <1>1
  <2> QED BY <1>3, <1>9, <2>1
<1>11. ASSUME NEW q \in o .. N - 1, q # o + r + 4, q # o + r + 8 PROVE Cell(e, q + L) = Cell(d, q)
  <2>1. CASE q < o + L
    <3> DEFINE j == q - o
    <3>1. /\ j \in 0 .. L - 1 /\ j + 1 \in 1 .. L /\ j + 1 # r + 4 + 1 /\ j + 1 # r + 8 + 1
          /\ o + L + j = q + L /\ o + (j + 1) - 1 = q
      BY ONLY <1>0, <1>1, <1>11, <2>1, q \in o .. N - 1
    <3> HIDE DEF j
    <3>2. Cell(e, o + L + j) = x[j + 1] /\ x[j + 1] = Cell(d, o + (j + 1) - 1)
      BY <1>3, <1>9, <3>1
    <3> QED BY <3>1, <3>2
  <2>2. CASE ~ q < o + L
    <3>1. q \in o + L .. N - 1 /\ q + L \in 0 .. (N + L) - 1 /\ q + L # 2
      BY ONLY <1>0, <1>1, <2>2, q \in o .. N - 1
    <3> QED BY <1>4, <1>6, <3>1
  <2> QED BY <2>1, <2>2
<1> QED BY <1>6, <1>7, <1>8, <1>10, <1>11 DEF Doubled, L, o, N

\* The element of chunks k and k + 1 is copied: e has all chunks of d, and L
\* cells on, those from k on a second time.
Copying(d, p, c, k, n, m, r, i, e) ==
    /\ Tidy(d, p, c) /\ k \in 1 .. Len(c) /\ k < Len(c) /\ i \in Nat
    /\ Cell(d, c[k]) = StartType /\ Cell(d, c[k + 1]) = EndType /\ Cell(d, Ext(c[k]) + 6) = 1
    /\ n = Cell(d, c[k] + 2) /\ m = Cell(d, c[k + 1] + 2) /\ r = AttrRec(d, c[k], 1) - c[k]
    /\ LET x == CopyOf(d, c[k], c[k] + (n + m), r, i)
       IN e = Resized(Splice(d, c[k] + (n + m), x), Len(x))
Longer(c, k, L) == [j \in 1 .. Len(c) + 2 |-> IF j <= k + 1 THEN c[j] ELSE c[j - 2] + L]

LEMMA CopyingIs ==
    ASSUME NEW d, NEW p, NEW c, NEW k, NEW n, NEW m, NEW r, NEW i, NEW e,
           Copying(d, p, c, k, n, m, r, i, e)
    PROVE  Twins(d, p, c, k, n, m, r) /\ Doubled(d, e, c[k], n + m, r, i)
<1>1. Twins(d, p, c, k, n, m, r)
  BY TwinsAre DEF Copying
<1>2. PICK x : x = CopyOf(d, c[k], c[k] + (n + m), r, i)
  OBVIOUS
<1>3. i \in Nat /\ e = Resized(Splice(d, c[k] + (n + m), x), Len(x))
  BY <1>2 DEF Copying
<1> QED BY <1>1, <1>2, <1>3, Doubles

\* Every chunk of d is in e where it was, or moved up, or both.
LEMMA CopyChunks ==
    ASSUME NEW d, NEW p, NEW c, NEW k, NEW n, NEW m, NEW r, NEW i, NEW e,
           Copying(d, p, c, k, n, m, r, i, e), NEW j \in 1 .. Len(c), NEW t, t = Cell(d, c[j] + 2)
    PROVE  /\ j <= k + 1 => Copied(d, e, c[j], c[j], t)
           /\ j = k => Alike(d, e, c[j], c[j] + (n + m), t)
           /\ j > k => Copied(d, e, c[j], c[j] + (n + m), t)
<1> DEFINE L == n + m
           o == c[k]
           N == Len(d)
           x == c[j]
<1>t. Tidy(d, p, c) /\ k \in 1 .. Len(c) /\ k < Len(c) /\ t = Cell(d, x + 2) /\ n = Cell(d, o + 2)
  BY DEF Copying
<1>0. /\ d \in Seq(Nat) /\ N \in Nat /\ Len(c) \in Nat /\ j \in Nat /\ k \in Nat
  BY <1>t, PoolBounds
<1>1. /\ o \in Nat /\ n \in Nat /\ m \in Nat /\ r \in Nat /\ p.next \in Nat /\ L = n + m
      /\ n >= 18 /\ m >= 4 /\ r >= 18 /\ r + 10 <= n /\ p.next >= 18 /\ p.next <= o
      /\ c[k + 1] = o + n /\ o + L <= N
  BY CopyingIs DEF Twins
<1>2. /\ e \in Seq(Nat) /\ Len(e) = N + L
      /\ \A q \in 0 .. (o + L) - 1 : q # 2 => Cell(e, q) = Cell(d, q)
      /\ \A q \in o .. N - 1 : q # o + r + 4 /\ q # o + r + 8 => Cell(e, q + L) = Cell(d, q)
  BY CopyingIs DEF Doubled
<1>3. x \in Nat /\ t \in Nat /\ t >= 4 /\ p.next <= x /\ x + t <= N
  BY <1>t, ChunkBounds
<1>4. /\ j < k => x + t <= o
      /\ k < j => o + n <= x
      /\ j = k => x = o /\ t = n
      /\ j = k + 1 => x = o + n /\ t = m
  <2>1. j < k => x + t <= o
    BY <1>t, ChunkBounds
  <2>2. k < j => o + n <= x
    BY <1>t, ChunkBounds
  <2>3. j = k + 1 => x = o + n /\ t = m
    BY <1>1 DEF Copying
  <2> QED BY <1>t, <2>1, <2>2, <2>3
<1> HIDE DEF L, o, N, x
<1>5. ASSUME j <= k + 1 PROVE Copied(d, e, x, x, t)
  <2>1. x + t <= o + L
    <3>1. j < k \/ j = k \/ j = k + 1
      BY ONLY <1>0, <1>5
    <3>2. CASE j < k
      <4>1. x + t <= o
        BY <1>4, <3>2
      <4> QED BY ONLY <1>1, <1>3, <4>1
    <3>3. CASE j = k
      <4>1. x = o /\ t = n
        BY <1>4, <3>3
      <4> QED BY ONLY <1>1, <4>1
    <3>4. CASE j = k + 1
      <4>1. x = o + n /\ t = m
        BY <1>4, <3>4
      <4> QED BY ONLY <1>1, <4>1
    <3> QED BY <3>1, <3>2, <3>3, <3>4
  <2>2. ASSUME NEW q \in 0 .. t - 1 PROVE Cell(e, x + q) = Cell(d, x + q)
    <3>1. x + q \in 0 .. (o + L) - 1 /\ x + q # 2
      BY ONLY <1>1, <1>3, <2>1, q \in 0 .. t - 1
    <3> QED BY <1>2, <3>1
  <2>3. x + t <= Len(e)
    <3>1. x + t <= N + L
      BY ONLY <1>0, <1>1, <1>3
    <3> QED BY <1>2, <3>1
  <2> QED BY <1>t, <1>0, <1>2, <1>3, <2>2, <2>3 DEF Copied, TwoChunks, N
<1>6. ASSUME k <= j PROVE TwoChunks(d, e, x, x + L, t)
  <2>1. x + L \in Nat /\ x + L + t <= N + L
    BY ONLY <1>0, <1>1, <1>3
  <2> QED BY <1>t, <1>0, <1>2, <1>3, <2>1 DEF TwoChunks, N
<1>7. ASSUME j = k PROVE Alike(d, e, x, x + L, t)
  <2>1. x = o /\ t = n
    BY <1>4, <1>7
  <2>2. ASSUME NEW q \in 0 .. t - 1, q < 18 PROVE Cell(e, x + L + q) = Cell(d, x + q)
    <3>1. x + q \in o .. N - 1 /\ x + q # o + r + 4 /\ x + q # o + r + 8 /\ x + q + L = x + L + q
      BY ONLY <1>0, <1>1, <1>3, <2>1, <2>2, q \in 0 .. t - 1
    <3>2. Cell(e, x + q + L) = Cell(d, x + q)
      BY <1>2, <3>1
    <3> QED BY <3>1, <3>2
  <2>3. k <= j
    BY ONLY <1>0, <1>7
  <2> QED BY <1>6, <2>2, <2>3 DEF Alike
<1>8. ASSUME j > k PROVE Copied(d, e, x, x + L, t)
  <2>1. o + n <= x
    BY <1>4, <1>8
  <2>2. ASSUME NEW q \in 0 .. t - 1 PROVE Cell(e, x + L + q) = Cell(d, x + q)
    <3>1. x + q \in o .. N - 1 /\ x + q # o + r + 4 /\ x + q # o + r + 8 /\ x + q + L = x + L + q
      BY ONLY <1>0, <1>1, <1>3, <2>1, q \in 0 .. t - 1
    <3>2. Cell(e, x + q + L) = Cell(d, x + q)
      BY <1>2, <3>1
    <3> QED BY <3>1, <3>2
  <2>3. k <= j
    BY ONLY <1>0, <1>8
  <2> QED BY <1>6, <2>2, <2>3 DEF Copied
<1> QED BY <1>5, <1>7, <1>8 DEF x, L

\* What a chunk of e is.
LEMMA CopyNodes ==
    ASSUME NEW d, NEW p, NEW c, NEW k, NEW n, NEW m, NEW r, NEW i, NEW e,
           Copying(d, p, c, k, n, m, r, i, e), NEW j \in 1 .. Len(c)
    PROVE  /\ j <= k + 1 =>
                /\ Cell(e, c[j]) = Cell(d, c[j]) /\ Cell(e, c[j] + 2) = Cell(d, c[j] + 2)
                /\ NodeAsWritten(e, p, c[j]) /\ Node(e, c[j]) = Node(d, c[j])
           /\ k <= j =>
                /\ Cell(e, c[j] + (n + m)) = Cell(d, c[j]) /\ Cell(e, c[j] + (n + m) + 2) = Cell(d, c[j] + 2)
                /\ NodeAsWritten(e, p, c[j] + (n + m))
           /\ k < j => Node(e, c[j] + (n + m)) = Node(d, c[j])
           /\ j = k => StartLike(d, e, c[j], c[j] + (n + m))
<1>1. Tidy(d, p, c) /\ k \in 1 .. Len(c)
  BY DEF Copying
<1>2. j \in Nat /\ k \in Nat /\ p.count \in Nat /\ p.count <= p.count
  BY <1>1, PoolBounds
<1>3. MayGrow(p, p) /\ NodeAsWritten(d, p, c[j])
  BY <1>1, <1>2, ChunkBounds DEF MayGrow
<1>4. PICK t : t = Cell(d, c[j] + 2)
  OBVIOUS
<1>5. ASSUME j <= k + 1
      PROVE  /\ Cell(e, c[j]) = Cell(d, c[j]) /\ Cell(e, c[j] + 2) = t
             /\ NodeAsWritten(e, p, c[j]) /\ Node(e, c[j]) = Node(d, c[j])
  BY <1>3, <1>4, <1>5, CopyChunks, NodeMoved
<1>6. ASSUME j > k
      PROVE  /\ Cell(e, c[j] + (n + m)) = Cell(d, c[j]) /\ Cell(e, c[j] + (n + m) + 2) = t
             /\ NodeAsWritten(e, p, c[j] + (n + m)) /\ Node(e, c[j] + (n + m)) = Node(d, c[j])
  BY <1>3, <1>4, <1>6, CopyChunks, NodeMoved
<1>7. ASSUME j = k
      PROVE  /\ Cell(e, c[j] + (n + m)) = Cell(d, c[j]) /\ Cell(e, c[j] + (n + m) + 2) = t
             /\ NodeAsWritten(e, p, c[j] + (n + m)) /\ StartLike(d, e, c[j], c[j] + (n + m))
  BY <1>3, <1>4, <1>7, CopyChunks, NodeLike
<1>8. (k <= j <=> (j = k \/ j > k)) /\ (k < j <=> j > k)
  BY ONLY <1>2
<1> QED BY <1>4, <1>5, <1>6, <1>7, <1>8

LongerGives(c, k, L, Z, cc) ==
    /\ DOMAIN cc = 1 .. Z + 2
    /\ \A j \in 1 .. Z : (j <= k + 1 => cc[j] = c[j]) /\ (k <= j => cc[j + 2] = c[j] + L)

\* The offsets of the chunks, those of the copy among them.
LEMMA LongerIs ==
    ASSUME NEW c, NEW Z \in Nat, Len(c) = Z, NEW k \in 1 .. Z, k < Z, NEW L
    PROVE  LongerGives(c, k, L, Z, Longer(c, k, L))
<1>1. ASSUME NEW j \in 1 .. Z, j <= k + 1 PROVE Longer(c, k, L)[j] = c[j]
  <2>1. j \in 1 .. Z + 2
    BY ONLY Z \in Nat, j \in 1 .. Z
  <2> QED BY <1>1, <2>1 DEF Longer
<1>2. ASSUME NEW j \in 1 .. Z, k <= j PROVE Longer(c, k, L)[j + 2] = c[j] + L
  <2>1. j + 2 \in 1 .. Z + 2 /\ ~ (j + 2 <= k + 1) /\ j + 2 - 2 = j
    BY ONLY Z \in Nat, j \in 1 .. Z, k \in 1 .. Z, <1>2
  <2>2. Longer(c, k, L)[j + 2] = c[j + 2 - 2] + L
    BY <2>1 DEF Longer
  <2> QED BY <2>1, <2>2
<1>3. DOMAIN Longer(c, k, L) = 1 .. Z + 2
  BY DEF Longer
<1> QED BY <1>1, <1>2, <1>3 DEF LongerGives

\* The chunks of e follow one another up to its end.
LEMMA CopyFollows ==
    ASSUME NEW d, NEW p, NEW c, NEW k, NEW n, NEW m, NEW r, NEW i, NEW e,
           Copying(d, p, c, k, n, m, r, i, e), NEW cc, cc = Longer(c, k, n + m)
    PROVE  ChunksFollow(e, p, cc)
<1> DEFINE L == n + m
           Z == Len(c)
           N == Len(d)
<1>0. /\ Tidy(d, p, c) /\ Z \in Nat /\ N \in Nat /\ k \in 1 .. Z /\ k < Z /\ Len(e) = N + L
      /\ c[k + 1] = c[k] + n /\ m = Cell(d, c[k + 1] + 2)
      /\ c[k] \in Nat /\ n \in Nat /\ m \in Nat /\ c[1] = p.next /\ L \in Nat
  <2>1. Tidy(d, p, c) /\ k \in 1 .. Z /\ k < Z /\ m = Cell(d, c[k + 1] + 2)
    BY DEF Copying
  <2>2. c[k + 1] = c[k] + n /\ c[k] \in Nat /\ n \in Nat /\ m \in Nat
    BY CopyingIs DEF Twins
  <2>3. Len(e) = N + L
    BY CopyingIs DEF Doubled
  <2>4. Z \in Nat /\ N \in Nat /\ c[1] = p.next
    BY <2>1, PoolBounds
  <2> QED BY <2>1, <2>2, <2>3, <2>4, SMTT(40)
<1> DEFINE T(j) == Cell(d, c[j] + 2)
<1>1. ASSUME NEW j \in 1 .. Z
      PROVE  /\ c[j] \in Nat /\ T(j) \in Nat /\ T(j) >= 4 /\ c[j] + 4 <= N
             /\ c[j] + T(j) = IF j = Z THEN N ELSE c[j + 1]
             /\ j <= k + 1 => Cell(e, c[j] + 2) = T(j)
             /\ k <= j => Cell(e, c[j] + L + 2) = T(j)
  <2>1. /\ c[j] \in Nat /\ T(j) \in Nat /\ T(j) >= 4 /\ c[j] + T(j) <= N
        /\ c[j] + T(j) = IF j = Z THEN N ELSE c[j + 1]
    <3>1. PICK t : t = Cell(d, c[j] + 2)
      OBVIOUS
    <3>2. c[j] \in Nat /\ t \in Nat /\ t >= 4 /\ c[j] + t <= N /\ c[j] + t = IF j = Z THEN N ELSE c[j + 1]
      BY <1>0, <3>1, ChunkBounds, SMTT(40)
    <3> QED BY <3>1, <3>2
  <2>2. /\ j <= k + 1 => Cell(e, c[j] + 2) = T(j)
        /\ k <= j => Cell(e, c[j] + L + 2) = T(j)
    BY CopyNodes
  <2> HIDE DEF T, N, Z
  <2>3. c[j] + 4 <= N
    <3> DEFINE x == c[j]
               y == T(j)
    <3>1. x \in Nat /\ y \in Nat /\ y >= 4 /\ x + y <= N
      BY <2>1
    <3> HIDE DEF x, y
    <3>2. x + 4 <= N
      BY ONLY <3>1, <1>0
    <3> QED BY <3>2 DEF x
  <2> QED BY <2>1, <2>2, <2>3
<1>2. /\ DOMAIN cc = 1 .. Z + 2
      /\ \A j \in 1 .. Z : (j <= k + 1 => cc[j] = c[j]) /\ (k <= j => cc[j + 2] = c[j] + L)
  <2> HIDE DEF L
  <2>1. cc = Longer(c, k, L)
    BY DEF L
  <2>2. LongerGives(c, k, L, Z, cc)
    BY <1>0, <2>1, LongerIs
  <2> QED BY <2>2 DEF LongerGives
<1> HIDE DEF L, Z, N, T
<1>3. ASSUME NEW h \in 1 .. Z + 2 PROVE \/ h \in 1 .. Z /\ h <= k + 1
                                        \/ h - 2 \in 1 .. Z /\ k <= h - 2 /\ (h - 2) + 2 = h
  BY ONLY <1>0, h \in 1 .. Z + 2
<1>4. ASSUME NEW h \in 1 .. Z + 2
      PROVE  /\ cc[h] \in 0 .. (N + L) - 4 /\ Cell(e, cc[h] + 2) >= 4
             /\ cc[h] + Cell(e, cc[h] + 2) = IF h = Z + 2 THEN N + L ELSE cc[h + 1]
  <2>1. CASE h \in 1 .. Z /\ h <= k + 1
    <3> DEFINE x == c[h]
               y == T(h)
    <3>1. cc[h] = x /\ Cell(e, x + 2) = y /\ x \in Nat /\ y \in Nat /\ y >= 4 /\ x + 4 <= N
      BY <1>1, <1>2, <2>1
    <3>2. x + y = IF h = Z THEN N ELSE c[h + 1]
      BY <1>1, <2>1
    <3>3. h # Z + 2
      BY ONLY <1>0, <2>1
    <3>4. x + y = cc[h + 1]
      <4>1. CASE h <= k
        <5>1. h # Z /\ h + 1 \in 1 .. Z /\ h + 1 <= k + 1
          BY ONLY <1>0, <2>1, <4>1
        <5> QED BY <1>2, <3>2, <5>1
      <4>2. CASE h = k + 1
        <5>1. k <= k /\ k \in 1 .. Z /\ k + 2 = h + 1
          BY ONLY <1>0, <4>2
        <5>2. cc[h + 1] = c[k] + L
          BY <1>2, <5>1
        <5>3. x = c[k] + n /\ y = m
          BY <1>0, <4>2 DEF T
        <5> DEFINE o == c[k]
        <5>4. o \in Nat
          BY <1>0
        <5> HIDE DEF o, x, y
        <5>5. o + n + m = o + L
          BY ONLY <1>0, <5>4 DEF L
        <5>6. cc[h + 1] = o + L /\ x = o + n
          BY <5>2, <5>3 DEF o
        <5> QED BY <5>3, <5>5, <5>6
      <4>3. h <= k \/ h = k + 1
        BY ONLY <1>0, <2>1
      <4> QED BY <4>1, <4>2, <4>3
    <3> HIDE DEF x, y
    <3>5. x \in 0 .. (N + L) - 4
      <4>1. x \in Nat /\ x + 4 <= N
        BY <3>1
      <4> QED BY ONLY <1>0, <4>1
    <3> QED BY <3>1, <3>3, <3>4, <3>5
  <2>2. CASE h - 2 \in 1 .. Z /\ k <= h - 2 /\ (h - 2) + 2 = h
    <3>1. PICK j : j = h - 2
      OBVIOUS
    <3>2. j \in 1 .. Z /\ k <= j /\ j + 2 = h
      BY <2>2, <3>1
    <3> DEFINE x == c[j]
               y == T(j)
    <3>3. /\ cc[h] = x + L /\ Cell(e, x + L + 2) = y /\ x \in Nat /\ y \in Nat /\ y >= 4 /\ x + 4 <= N
          /\ x + y = IF j = Z THEN N ELSE c[j + 1]
      BY <1>1, <1>2, <3>2
    <3> HIDE DEF x, y
    <3>4. x + L + y = IF h = Z + 2 THEN N + L ELSE cc[h + 1]
      <4>1. CASE j = Z
        <5>1. h = Z + 2
          BY ONLY <1>0, <3>2, <4>1
        <5>2. x \in Nat /\ y \in Nat /\ x + y = N
          BY <3>3, <4>1
        <5>3. x + L + y = N + L
          BY ONLY <1>0, <5>2
        <5> QED BY <5>1, <5>3
      <4>2. CASE j # Z
        <5>1. h # Z + 2 /\ j + 1 \in 1 .. Z /\ k <= j + 1 /\ (j + 1) + 2 = h + 1
          BY ONLY <1>0, <3>2, <4>2
        <5>2. cc[h + 1] = c[j + 1] + L
          BY <1>2, <5>1
        <5>3. x \in Nat /\ y \in Nat /\ x + y = c[j + 1]
          BY <3>3, <4>2
        <5> DEFINE z == c[j + 1]
        <5> HIDE DEF z
        <5>4. x \in Nat /\ y \in Nat /\ x + y = z
          BY <5>3 DEF z
        <5>5. x + L + y = z + L
          BY ONLY <1>0, <5>4
        <5> QED BY <5>1, <5>2, <5>5 DEF z
      <4> QED BY <4>1, <4>2
    <3>5. x + L \in 0 .. (N + L) - 4
      <4>1. x \in Nat /\ x + 4 <= N
        BY <3>3
      <4> QED BY ONLY <1>0, <4>1
    <3> QED BY <3>3, <3>4, <3>5
  <2> QED BY <1>3, <2>1, <2>2
<1>5. /\ cc \in Seq(0 .. (N + L) - 4) /\ Len(cc) = Z + 2
  <2>1. cc = [h \in 1 .. Z + 2 |-> cc[h]]
    BY DEF Longer, Z
  <2>2. cc \in [1 .. Z + 2 -> 0 .. (N + L) - 4]
    BY <1>4, <2>1
  <2>3. Z + 2 \in Nat
    BY <1>0
  <2>4. PICK g, S : g = Z + 2 /\ S = 0 .. (N + L) - 4
    OBVIOUS
  <2>5. g \in Nat /\ cc \in [1 .. g -> S]
    BY <2>2, <2>3, <2>4
  <2>6. cc \in Seq(S) /\ Len(cc) = g
    BY ONLY <2>5
  <2> QED BY <2>4, <2>6
<1>6. cc # << >> /\ cc[1] = p.next
  <2>1. Z + 2 # 0 /\ 1 \in 1 .. Z /\ 1 <= k + 1
    BY ONLY <1>0
  <2>2. cc[1] = p.next
    BY <1>0, <1>2, <2>1
  <2>3. cc # << >>
    BY <1>5, <2>1
  <2> QED BY <2>2, <2>3
<1> QED BY <1>0, <1>2, <1>4, <1>5, <1>6, ZenonT(40) DEF ChunksFollow

\* duplicate_uses_permission leaves a tidy file and its strings.
LEMMA CopyTidy ==
    ASSUME NEW d, NEW p, NEW c, NEW k, NEW n, NEW m, NEW r, NEW i, NEW e,
           Copying(d, p, c, k, n, m, r, i, e), NEW cc, cc = Longer(c, k, n + m)
    PROVE  Tidy(e, p, cc) /\ SameStrings(d, e, p)
<1> DEFINE L == n + m
           Z == Len(c)
           N == Len(d)
           o == c[k]
<1>1. Tidy(d, p, c) /\ k \in 1 .. Z /\ k < Z
  BY DEF Copying
<1>2. o \in Nat /\ p.next \in Nat /\ p.next <= o /\ n \in Nat /\ m \in Nat
  BY CopyingIs DEF Twins
<1>3. /\ e \in Seq(Nat) /\ Len(e) = N + L /\ Cell(e, 2) = Len(e)
      /\ \A q \in 0 .. (o + L) - 1 : q # 2 => Cell(e, q) = Cell(d, q)
  BY CopyingIs DEF Doubled
<1>4. Z \in Nat /\ N \in Nat /\ N > 18 /\ Cell(d, c[Z]) # StartType
  BY <1>1, PoolBounds DEF Tidy
<1>5. L \in Nat /\ N <= N + L /\ N + L > 18
  <2> HIDE DEF N
  <2> QED BY ONLY <1>2, <1>4
<1> HIDE DEF L, N, o
<1>6. KeepsPool(d, e, p)
  <2>1. ASSUME NEW q \in 0 .. p.next - 1, q # 2 PROVE Cell(e, q) = Cell(d, q)
    <3>1. q \in 0 .. (o + L) - 1
      BY ONLY <1>2, <1>5, q \in 0 .. p.next - 1
    <3> QED BY <1>3, <2>1, <3>1
  <2> QED BY <1>3, <1>5, <2>1 DEF KeepsPool, N
<1>7. p = ParseStringPool(e) /\ PoolAsWritten(e, p) /\ SameStrings(d, e, p)
  BY <1>1, <1>6, PoolKept
<1>8. ChunksFollow(e, p, cc)
  BY CopyFollows
<1>9. /\ DOMAIN cc = 1 .. Z + 2
      /\ \A j \in 1 .. Z : (j <= k + 1 => cc[j] = c[j]) /\ (k <= j => cc[j + 2] = c[j] + L)
  <2>1. LongerGives(c, k, L, Z, Longer(c, k, L))
    BY <1>1, <1>4, LongerIs
  <2> QED BY <2>1 DEF LongerGives, L
<1>10. Len(cc) = Z + 2
  <2>1. cc \in Seq(0 .. Len(e) - 4)
    BY <1>8 DEF ChunksFollow
  <2>2. DOMAIN cc = 1 .. Len(cc) /\ Len(cc) \in Nat
    BY ONLY <2>1, LenProperties
  <2> HIDE DEF Z
  <2>3. Z + 2 \in Nat
    BY <1>4
  <2> QED BY ONLY <1>9, <2>2, <2>3
<1>11. ASSUME NEW h \in 1 .. Z + 2 PROVE NodeAsWritten(e, p, cc[h])
  <2>1. \/ h \in 1 .. Z /\ h <= k + 1
        \/ h - 2 \in 1 .. Z /\ k <= h - 2 /\ (h - 2) + 2 = h
    <3> HIDE DEF Z
    <3> QED BY ONLY <1>1, <1>4, h \in 1 .. Z + 2
  <2>2. CASE h \in 1 .. Z /\ h <= k + 1
    BY <1>9, <2>2, CopyNodes
  <2>3. CASE h - 2 \in 1 .. Z /\ k <= h - 2 /\ (h - 2) + 2 = h
    <3>1. PICK j \in 1 .. Z : k <= j /\ j + 2 = h
      BY <2>3
    <3>2. cc[h] = c[j] + L
      BY <1>9, <3>1
    <3> QED BY <3>1, <3>2, CopyNodes DEF L
  <2> QED BY <2>1, <2>2, <2>3
<1>12. Cell(e, cc[Z + 2]) # StartType
  <2>1. Z \in 1 .. Z /\ k <= Z
    <3> HIDE DEF Z
    <3> QED BY ONLY <1>1, <1>4
  <2>2. cc[Z + 2] = c[Z] + L
    BY <1>9, <2>1
  <2>3. Cell(e, c[Z] + (n + m)) = Cell(d, c[Z])
    BY <2>1, CopyNodes
  <2> QED BY <1>4, <2>2, <2>3 DEF L
<1> QED BY <1>3, <1>5, <1>7, <1>8, <1>10, <1>11, <1>12 DEF Tidy

\* A list of Z nodes with a and the one behind k once more behind k + 1.
CopyIn(s, k, a) == SubSeq(s, 1, k + 1) \o << a, s[k + 1] >> \o SubSeq(s, k + 2, Len(s))
CopiedIn(S, s, Z, k, a, t) ==
    /\ s \in Seq(S) /\ Len(s) = Z /\ Z \in Nat /\ k \in 1 .. Z /\ k < Z /\ a \in S
    /\ t \in Seq(S) /\ Len(t) = Z + 2 /\ t[k + 2] = a
    /\ \A j \in 1 .. Z : (j <= k + 1 => t[j] = s[j]) /\ (k < j => t[j + 2] = s[j])

\* The list of nodes that the abstract duplication makes, index by index.
LEMMA CopyInIs ==
    ASSUME NEW S, NEW s, NEW Z, NEW k, NEW a, NEW t, CopiedIn(S, s, Z, k, a, t)
    PROVE  t = CopyIn(s, k, a)
<1> DEFINE u == SubSeq(s, 1, k + 1)
           v == << a, s[k + 1] >>
           w == SubSeq(s, k + 2, Z)
<1>0. /\ s \in Seq(S) /\ Len(s) = Z /\ Z \in Nat /\ k \in 1 .. Z /\ k < Z /\ a \in S
      /\ t \in Seq(S) /\ Len(t) = Z + 2 /\ t[k + 2] = a
      /\ \A j \in 1 .. Z : (j <= k + 1 => t[j] = s[j]) /\ (k < j => t[j + 2] = s[j])
  BY DEF CopiedIn
<1>1. \A j \in 1 .. Z : s[j] \in S
  BY <1>0, ElementOfSeq
<1>2. PICK g \in Nat : g = k + 1
  <2>1. k + 1 \in Nat
    BY ONLY <1>0
  <2> QED BY <2>1
<1>n. g \in 1 .. Z /\ k + 2 = g + 1 /\ k + 1 = g /\ Z - g \in Nat /\ k \in Nat
  BY ONLY <1>0, <1>2
<1>3. u \in Seq(S) /\ Len(u) = g /\ \A q \in 1 .. g : u[q] = s[q]
  <2>1. \A q \in 1 .. g : s[q] \in S
    <3>1. \A q \in 1 .. g : q \in 1 .. Z
      BY ONLY <1>0, <1>n
    <3> QED BY <1>1, <3>1
  <2>2. /\ SubSeq(s, 1, g) \in Seq(S)
        /\ Len(SubSeq(s, 1, g)) = IF 1 <= g THEN g - 1 + 1 ELSE 0
        /\ \A q \in 1 .. g - 1 + 1 : SubSeq(s, 1, g)[q] = s[1 + q - 1]
    BY <1>2, <2>1, SubSeqProperties
  <2>3. 1 <= g /\ g - 1 + 1 = g /\ \A q \in 1 .. g : 1 + q - 1 = q
    BY ONLY <1>n, g \in Nat
  <2> QED BY <1>2, <2>2, <2>3
<1>4. w \in Seq(S) /\ Len(w) = Z - g /\ \A q \in 1 .. Z - g : w[q] = s[g + q]
  <2>1. \A q \in g + 1 .. Z : s[q] \in S
    <3>1. \A q \in g + 1 .. Z : q \in 1 .. Z
      BY ONLY <1>0, <1>n
    <3> QED BY <1>1, <3>1
  <2>2. /\ SubSeq(s, g + 1, Z) \in Seq(S)
        /\ Len(SubSeq(s, g + 1, Z)) = IF g + 1 <= Z THEN Z - (g + 1) + 1 ELSE 0
        /\ \A q \in 1 .. Z - (g + 1) + 1 : SubSeq(s, g + 1, Z)[q] = s[g + 1 + q - 1]
    <3>1. g + 1 \in Int /\ Z \in Int
      BY ONLY <1>0, g \in Nat
    <3> QED BY <2>1, <3>1, SubSeqProperties
  <2>3. /\ Z - (g + 1) + 1 = Z - g /\ (~ (g + 1 <= Z) => Z - g = 0)
        /\ \A q \in 1 .. Z - g : g + 1 + q - 1 = g + q
    BY ONLY <1>0, <1>n, g \in Nat
  <2> QED BY <1>n, <2>2, <2>3
<1>5. v \in Seq(S) /\ Len(v) = 2 /\ v[1] = a /\ v[2] = s[g]
  BY <1>0, <1>1, <1>n
<1>6. CopyIn(s, k, a) = u \o v \o w
  BY <1>0 DEF CopyIn
<1> HIDE DEF u, v, w
<1>7. /\ u \o v \in Seq(S) /\ Len(u \o v) = g + 2
      /\ \A q \in 1 .. g + 2 : (u \o v)[q] = IF q <= g THEN u[q] ELSE v[q - g]
  <2>1. /\ u \o v \in Seq(S) /\ Len(u \o v) = Len(u) + Len(v)
        /\ \A q \in 1 .. Len(u) + Len(v) : (u \o v)[q] = IF q <= Len(u) THEN u[q] ELSE v[q - Len(u)]
    BY ONLY <1>3, <1>5, ConcatProperties
  <2> QED BY <1>3, <1>5, <2>1
<1>8. /\ u \o v \o w \in Seq(S) /\ Len(u \o v \o w) = g + 2 + (Z - g)
      /\ \A q \in 1 .. g + 2 + (Z - g) :
            (u \o v \o w)[q] = IF q <= g + 2 THEN (u \o v)[q] ELSE w[q - (g + 2)]
  <2> DEFINE x == u \o v
  <2>0. x \in Seq(S) /\ Len(x) = g + 2
    BY <1>7
  <2> HIDE DEF x
  <2>1. /\ x \o w \in Seq(S) /\ Len(x \o w) = Len(x) + Len(w)
        /\ \A q \in 1 .. Len(x) + Len(w) : (x \o w)[q] = IF q <= Len(x) THEN x[q] ELSE w[q - Len(x)]
    BY ONLY <1>4, <2>0, ConcatProperties
  <2> QED BY <1>4, <2>0, <2>1 DEF x
<1>9. g + 2 + (Z - g) = Z + 2
  BY ONLY <1>0, <1>n
<1>10. ASSUME NEW h \in 1 .. Z + 2 PROVE (u \o v \o w)[h] = t[h]
  <2>1. (u \o v \o w)[h] = IF h <= g + 2 THEN (u \o v)[h] ELSE w[h - (g + 2)]
    BY <1>8, <1>9
  <2>2. h <= g \/ h = g + 1 \/ h = g + 2 \/ h > g + 2
    BY ONLY <1>n, <1>0, h \in 1 .. Z + 2
  <2>3. CASE h <= g
    <3>1. h <= g + 2 /\ h \in 1 .. g + 2 /\ h \in 1 .. g /\ h \in 1 .. Z /\ h <= k + 1
      BY ONLY <1>n, <1>0, <2>3, h \in 1 .. Z + 2
    <3> QED BY <1>0, <1>3, <1>7, <2>1, <2>3, <3>1
  <2>4. CASE h = g + 1
    <3>1. h <= g + 2 /\ h \in 1 .. g + 2 /\ ~ (h <= g) /\ h - g = 1 /\ h = k + 2
      BY ONLY <1>n, <1>0, <2>4, h \in 1 .. Z + 2
    <3> QED BY <1>0, <1>5, <1>7, <2>1, <3>1
  <2>5. CASE h = g + 2
    <3>1. h <= g + 2 /\ h \in 1 .. g + 2 /\ ~ (h <= g) /\ h - g = 2 /\ g \in 1 .. Z /\ k < g
      BY ONLY <1>n, <1>0, <2>5, h \in 1 .. Z + 2
    <3> QED BY <1>0, <1>5, <1>7, <2>1, <2>5, <3>1
  <2>6. CASE h > g + 2
    <3>1. PICK q \in Nat : q = h - (g + 2)
      <4>1. h - (g + 2) \in Nat
        BY ONLY <1>n, <1>0, <2>6, h \in 1 .. Z + 2
      <4> QED BY <4>1
    <3>2. ~ (h <= g + 2) /\ q \in 1 .. Z - g /\ g + q \in 1 .. Z /\ k < g + q /\ g + q + 2 = h
      BY ONLY <1>n, <1>0, <2>6, <3>1, h \in 1 .. Z + 2
    <3> QED BY <1>0, <1>4, <2>1, <3>1, <3>2
  <2> QED BY <2>2, <2>3, <2>4, <2>5, <2>6
<1>11. t = u \o v \o w
  <2>1. Len(u \o v \o w) = Z + 2 /\ Len(t) = Z + 2
    BY <1>0, <1>8, <1>9
  <2> QED BY <1>0, <1>8, <1>10, <2>1, SeqEqual
<1> QED BY <1>6, <1>11

NodesOf(d, c) == [j \in DOMAIN c |-> Node(d, c[j])]
WithValue(node, v) == [node EXCEPT !.attrs = << [raw |-> v, data |-> v] >>]

\* The copy is the element with the new value ...
LEMMA CopyNode ==
    ASSUME NEW d, NEW p, NEW c, NEW k, NEW n, NEW m, NEW r, NEW i, NEW e,
           Copying(d, p, c, k, n, m, r, i, e)
    PROVE  Node(e, c[k] + (n + m)) = WithValue(Node(d, c[k]), i + 1)
<1> DEFINE o == c[k]
           x == o + (n + m)
<1>1. /\ k \in 1 .. Len(c) /\ i \in Nat
      /\ Cell(d, o) = StartType /\ Cell(d, Ext(o) + 6) = 1 /\ r = AttrRec(d, o, 1) - o
  BY DEF Copying
<1>2. o \in Nat /\ n \in Nat /\ m \in Nat /\ r \in Nat
  BY CopyingIs DEF Twins
<1>3. Cell(e, x + (r + 4)) = i /\ Cell(e, x + (r + 8)) = i
  BY CopyingIs DEF Doubled
<1>4. StartLike(d, e, o, x)
  BY <1>1, CopyNodes
<1> HIDE DEF o, x
<1>5. /\ AttrRec(e, x, 1) \in Nat /\ AttrRec(e, x, 1) + o = AttrRec(d, o, 1) + x
      /\ Node(e, x) =
             [kind |-> "start", name |-> Cell(d, Ext(o) + 2) + 1,
              attrs |-> [a \in 1 .. 1 |->
                [raw |-> Cell(e, AttrRec(e, x, a) + 4) + 1, data |-> Cell(e, AttrRec(e, x, a) + 8) + 1]]]
  <2>1. 1 \in 1 .. 1
    OBVIOUS
  <2> QED BY <1>1, <1>4, <2>1 DEF StartLike
<1>6. AttrRec(e, x, 1) + 4 = x + (r + 4) /\ AttrRec(e, x, 1) + 8 = x + (r + 8)
  <2> DEFINE u == AttrRec(e, x, 1)
             w == AttrRec(d, o, 1)
  <2>1. w \in Nat
    <3>1. /\ d \in Seq(Nat) /\ o + n <= Len(d) /\ n = Cell(d, o + 2) /\ NodeAsWritten(d, p, o)
      BY <1>1, ChunkBounds, PoolBounds DEF Copying, o
    <3>2. \A a \in 1 .. Cell(d, Ext(o) + 6) : AttrRec(d, o, a) \in Nat
      BY <1>1, <1>2, <3>1, StartIs
    <3> QED BY <1>1, <3>2
  <2>2. u \in Nat /\ u + o = w + x /\ r = w - o /\ x = o + (n + m)
    BY <1>1, <1>5 DEF x
  <2> HIDE DEF u, w
  <2>3. u + 4 = x + (r + 4) /\ u + 8 = x + (r + 8)
    BY ONLY <1>2, <2>1, <2>2
  <2> QED BY <2>3 DEF u
<1>7. [a \in 1 .. 1 |-> [raw |-> Cell(e, AttrRec(e, x, a) + 4) + 1, data |-> Cell(e, AttrRec(e, x, a) + 8) + 1]]
        = << [raw |-> i + 1, data |-> i + 1] >>
  <2>1. \A a \in 1 .. 1 : a = 1
    OBVIOUS
  <2>2. [a \in 1 .. 1 |-> [raw |-> Cell(e, AttrRec(e, x, a) + 4) + 1, data |-> Cell(e, AttrRec(e, x, a) + 8) + 1]]
          = [a \in 1 .. 1 |-> [raw |-> i + 1, data |-> i + 1]]
    BY <1>3, <1>6, <2>1
  <2> QED BY <2>2
<1>8. Node(d, o) =
             [kind |-> "start", name |-> Cell(d, Ext(o) + 2) + 1,
              attrs |-> [a \in 1 .. Cell(d, Ext(o) + 6) |->
                [raw |-> Cell(d, AttrRec(d, o, a) + 4) + 1, data |-> Cell(d, AttrRec(d, o, a) + 8) + 1]]]
  BY <1>1, StartNode
<1>9. Node(e, x) = WithValue(Node(d, o), i + 1)
  BY <1>5, <1>7, <1>8 DEF WithValue
<1> QED BY <1>9 DEF x, o

\* ... and stands behind it; no other node has changed.
LEMMA CopyList ==
    ASSUME NEW d, NEW p, NEW c, NEW k, NEW n, NEW m, NEW r, NEW i, NEW e,
           Copying(d, p, c, k, n, m, r, i, e), NEW cc, cc = Longer(c, k, n + m)
    PROVE  NodesOf(e, cc) = CopyIn(NodesOf(d, c), k, WithValue(NodesOf(d, c)[k], i + 1))
<1> DEFINE s == NodesOf(d, c)
           t == NodesOf(e, cc)
           Z == Len(c)
           a == WithValue(s[k], i + 1)
           S == {s[j] : j \in 1 .. Z} \cup {t[j] : j \in 1 .. Z + 2} \cup {a}
           L == n + m
<1>1. Tidy(d, p, c) /\ k \in 1 .. Z /\ k < Z
  BY DEF Copying
<1>2. Z \in Nat /\ c \in Seq(Nat)
  BY <1>1, PoolBounds
<1>3. DOMAIN c = 1 .. Z
  BY <1>2, LenProperties
<1>4. /\ DOMAIN cc = 1 .. Z + 2
      /\ \A j \in 1 .. Z : (j <= k + 1 => cc[j] = c[j]) /\ (k <= j => cc[j + 2] = c[j] + L)
  <2>1. LongerGives(c, k, L, Z, Longer(c, k, L))
    BY <1>1, <1>2, LongerIs
  <2> QED BY <2>1 DEF LongerGives
<1>5. \A j \in 1 .. Z : s[j] = Node(d, c[j])
  BY <1>3 DEF NodesOf
<1>6. \A j \in 1 .. Z + 2 : t[j] = Node(e, cc[j])
  BY <1>4 DEF NodesOf
<1>7. s \in [1 .. Z -> S] /\ t \in [1 .. Z + 2 -> S]
  <2>1. s = [j \in 1 .. Z |-> s[j]]
    BY <1>3 DEF NodesOf
  <2>2. t = [j \in 1 .. Z + 2 |-> t[j]]
    BY <1>4 DEF NodesOf
  <2> HIDE DEF s, t, a
  <2> QED BY <2>1, <2>2
<1>8. a \in S
  OBVIOUS
<1> HIDE DEF S, Z, L, s, t
<1>9. s \in Seq(S) /\ Len(s) = Z
  BY <1>2, <1>7
<1>10. t \in Seq(S) /\ Len(t) = Z + 2
  <2>1. PICK g : g = Z + 2
    OBVIOUS
  <2>2. g \in Nat
    BY ONLY <1>2, <2>1
  <2>3. t \in [1 .. g -> S]
    BY <1>7, <2>1
  <2> QED BY <2>1, <2>2, <2>3
<1>n. k <= k /\ k + 2 \in 1 .. Z + 2
  BY ONLY <1>1, <1>2
<1>11. t[k + 2] = a
  <2>1. t[k + 2] = Node(e, c[k] + L)
    BY <1>1, <1>4, <1>6, <1>n
  <2>2. Node(e, c[k] + L) = WithValue(Node(d, c[k]), i + 1)
    BY CopyNode DEF L
  <2> QED BY <1>1, <1>5, <2>1, <2>2
<1>12. ASSUME NEW j \in 1 .. Z PROVE (j <= k + 1 => t[j] = s[j]) /\ (k < j => t[j + 2] = s[j])
  <2>1. j \in 1 .. Z + 2 /\ j + 2 \in 1 .. Z + 2 /\ (k < j => k <= j)
    BY ONLY <1>1, <1>2, j \in 1 .. Z
  <2>2. j \in 1 .. Len(c)
    BY DEF Z
  <2>3. ASSUME j <= k + 1 PROVE t[j] = s[j]
    <3>1. Node(e, c[j]) = Node(d, c[j])
      BY <2>2, <2>3, CopyNodes
    <3> QED BY <1>4, <1>5, <1>6, <2>1, <2>3, <3>1
  <2>4. ASSUME k < j PROVE t[j + 2] = s[j]
    <3>1. Node(e, c[j] + L) = Node(d, c[j])
      BY <2>2, <2>4, CopyNodes DEF L
    <3> QED BY <1>4, <1>5, <1>6, <2>1, <2>4, <3>1
  <2> QED BY <2>3, <2>4
<1> HIDE DEF a
<1>13. CopiedIn(S, s, Z, k, a, t)
  BY <1>1, <1>2, <1>8, <1>9, <1>10, <1>11, <1>12 DEF CopiedIn
<1>14. t = CopyIn(s, k, a)
  BY <1>13, CopyInIs
<1> QED BY <1>14 DEF s, t, a

-----------------------------------------------------------------------------
(* A string is appended.                                                   *)

\* Padding makes a length even.
LEMMA PadIs ==
    ASSUME NEW b \in Nat
    PROVE  Pad(b) \in Seq(Nat) /\ Len(Pad(b)) = b % 2 /\ (b + Len(Pad(b))) % 2 = 0
<1>1. PICK m : m = b % 2
  OBVIOUS
<1>2. m \in Nat /\ (b + m) % 2 = 0
  BY ONLY <1>1, b \in Nat
<1>3. Pad(b) = [k \in 1 .. m |-> 0]
  BY <1>1 DEF Pad
<1>4. Pad(b) \in [1 .. m -> Nat]
  BY <1>3
<1>5. Pad(b) \in Seq(Nat) /\ Len(Pad(b)) = m
  BY ONLY <1>2, <1>4
<1> QED BY <1>1, <1>2, <1>5

\* The length of v, v and a 0, and cells of padding.
CharsOf(v, z, x) == v \in Seq(Nat) /\ z \in Seq(Nat) /\ x = <<Len(v)>> \o v \o << 0 >> \o z
CharsGive(v, g, z, x) ==
    /\ x \in Seq(Nat) /\ Len(x) = g + 2 + Len(z) /\ x[1] = g /\ x[g + 2] = 0
    /\ \A j \in 1 .. g : x[j + 1] = v[j]

LEMMA CharsAre ==
    ASSUME NEW v, NEW z, NEW x, CharsOf(v, z, x), NEW g, g = Len(v)
    PROVE  CharsGive(v, g, z, x)
<1> DEFINE a == <<g>>
           b == a \o v
           f == b \o << 0 >>
<1>1. v \in Seq(Nat) /\ z \in Seq(Nat) /\ x = f \o z
  BY DEF CharsOf
<1>2. g \in Nat
  BY <1>1, LenProperties
<1>3. a \in Seq(Nat) /\ Len(a) = 1 /\ a[1] = g
  BY <1>2
<1> HIDE DEF a
<1>4. b \in Seq(Nat) /\ Len(b) = 1 + g /\ b[1] = g /\ \A j \in 1 .. g : b[1 + j] = v[j]
  <2>1. /\ a \o v \in Seq(Nat) /\ Len(a \o v) = Len(a) + Len(v)
        /\ \A q \in 1 .. Len(a) : (a \o v)[q] = a[q]
        /\ \A q \in 1 .. Len(v) : (a \o v)[Len(a) + q] = v[q]
    BY <1>1, <1>3, Joined
  <2> QED BY <1>3, <2>1
<1> HIDE DEF b
<1>5. /\ f \in Seq(Nat) /\ Len(f) = g + 2 /\ f[1] = g /\ f[g + 2] = 0
      /\ \A j \in 1 .. g : f[1 + j] = v[j]
  <2>0. << 0 >> \in Seq(Nat) /\ Len(<< 0 >>) = 1 /\ << 0 >>[1] = 0
    OBVIOUS
  <2>1. /\ b \o << 0 >> \in Seq(Nat) /\ Len(b \o << 0 >>) = Len(b) + Len(<< 0 >>)
        /\ \A q \in 1 .. Len(b) : (b \o << 0 >>)[q] = b[q]
        /\ \A q \in 1 .. Len(<< 0 >>) : (b \o << 0 >>)[Len(b) + q] = << 0 >>[q]
    BY <1>4, <2>0, Joined
  <2>2. 1 \in 1 .. 1 + g /\ 1 + g + 1 = g + 2 /\ 1 \in 1 .. 1 /\ \A j \in 1 .. g : 1 + j \in 1 .. 1 + g
    BY ONLY <1>2
  <2> QED BY <1>4, <2>0, <2>1, <2>2
<1> HIDE DEF f
<1>6. /\ x \in Seq(Nat) /\ Len(x) = g + 2 + Len(z)
      /\ \A q \in 1 .. g + 2 : x[q] = f[q]
  <2>1. /\ f \o z \in Seq(Nat) /\ Len(f \o z) = Len(f) + Len(z)
        /\ \A q \in 1 .. Len(f) : (f \o z)[q] = f[q]
    BY <1>1, <1>5, Joined
  <2> QED BY <1>1, <1>5, <2>1
<1>7. 1 \in 1 .. g + 2 /\ g + 2 \in 1 .. g + 2 /\ \A j \in 1 .. g : 1 + j \in 1 .. g + 2 /\ 1 + j = j + 1
  BY ONLY <1>2
<1> QED BY <1>5, <1>6, <1>7 DEF CharsGive

\* The file with an offset w for the string, the string x and the new header.
Appended(d, p, w, x) ==
    LET A == Len(x) + 2
        s == Splice(Splice(d, p.start, <<w, 0>>), p.next + 2, x)
        h == Put(Put(Put(s, 8, p.count + 1), 6, Cell(s, 6) + A), 14, Cell(s, 14) + 2)
    IN Resized(h, A)
Appending(d, N, p, w, x, A, e) ==
    /\ d \in Seq(Nat) /\ N = Len(d) /\ N \in Nat /\ p.start \in Nat /\ p.next \in Nat /\ p.count \in Nat
    /\ 18 <= p.start /\ p.start <= p.next /\ p.next + 4 <= N
    /\ w \in Nat /\ x \in Seq(Nat) /\ A = Len(x) + 2 /\ A \in Nat /\ 2 <= A /\ Cell(d, 2) = N
    /\ e = Appended(d, p, w, x)
Grown(d, N, p, w, x, A, e) ==
    /\ e \in Seq(Nat) /\ Len(e) = N + A
    /\ Cell(e, 2) = N + A /\ Cell(e, 6) = Cell(d, 6) + A /\ Cell(e, 8) = p.count + 1
    /\ Cell(e, 14) = Cell(d, 14) + 2
    /\ \A q \in 0 .. p.start - 1 : q \notin {2, 6, 8, 14} => Cell(e, q) = Cell(d, q)
    /\ Cell(e, p.start) = w
    /\ \A q \in p.start .. p.next - 1 : Cell(e, q + 2) = Cell(d, q)
    /\ \A j \in 1 .. A - 2 : Cell(e, p.next + 1 + j) = x[j]
    /\ \A q \in p.next .. N - 1 : Cell(e, q + A) = Cell(d, q)

\* What append_string has put where.
LEMMA Grows ==
    ASSUME NEW d, NEW N, NEW p, NEW w, NEW x, NEW A, NEW e, Appending(d, N, p, w, x, A, e)
    PROVE  Grown(d, N, p, w, x, A, e)
<1> DEFINE b == p.start
           t == p.next
           y == <<w, 0>>
           s1 == Splice(d, b, y)
           s == Splice(s1, t + 2, x)
           h1 == Put(s, 8, p.count + 1)
           h2 == Put(h1, 6, Cell(s, 6) + A)
           h3 == Put(h2, 14, Cell(s, 14) + 2)
<1>0. /\ N \in Nat /\ b \in Nat /\ t \in Nat /\ A \in Nat /\ 2 <= A
      /\ 18 <= b /\ b <= t /\ t + 4 <= N
  BY DEF Appending
<1>1. d \in Seq(Nat) /\ N = Len(d) /\ p.count + 1 \in Nat /\ w \in Nat /\ x \in Seq(Nat)
      /\ Cell(d, 2) = N
  BY SMTT(40) DEF Appending
<1>2. e = Resized(h3, A)
  BY DEF Appending, Appended
<1>3. Len(x) = A - 2 /\ A - 2 \in Nat
  <2>1. PICK g : g = Len(x)
    OBVIOUS
  <2>2. A = g + 2 /\ A \in Nat /\ 2 <= A /\ g \in Nat
    BY <1>1, <2>1, LenProperties DEF Appending
  <2>3. g = A - 2 /\ A - 2 \in Nat
    BY ONLY <2>2
  <2> QED BY <2>1, <2>3
<1>4. y \in Seq(Nat) /\ Len(y) = 2 /\ y[1] = w
  BY <1>1
<1> HIDE DEF b, t, y, s1
<1>5. SpliceGives(d, N, b, y, 2, s1)
  <2>1. b \in 0 .. N
    BY ONLY <1>0
  <2>2. SpliceOf(d, N, b, y, 2, s1)
    BY <1>1, <1>4, <2>1 DEF SpliceOf, s1
  <2> QED BY <2>2, SpliceFacts
<1>6. SpliceGives(s1, N + 2, t + 2, x, A - 2, s)
  <2>1. t + 2 \in 0 .. N + 2
    BY ONLY <1>0
  <2>2. SpliceOf(s1, N + 2, t + 2, x, A - 2, s)
    BY <1>1, <1>3, <1>5, <2>1 DEF SpliceOf, SpliceGives
  <2> HIDE DEF s
  <2> QED BY <2>2, SpliceFacts
<1> HIDE DEF s
<1>7. /\ s \in Seq(Nat) /\ Len(s) = N + A
      /\ \A q \in 0 .. b - 1 : Cell(s, q) = Cell(d, q)
      /\ Cell(s, b) = w
      /\ \A q \in b .. t - 1 : Cell(s, q + 2) = Cell(d, q)
      /\ \A j \in 1 .. A - 2 : Cell(s, t + 1 + j) = x[j]
      /\ \A q \in t .. N - 1 : Cell(s, q + A) = Cell(d, q)
  <2>1. /\ s1 \in Seq(Nat) /\ Len(s1) = N + 2
        /\ \A q \in 0 .. b - 1 : Cell(s1, q) = Cell(d, q)
        /\ \A q \in 1 .. 2 : Cell(s1, b + q - 1) = y[q]
        /\ \A q \in b .. N - 1 : Cell(s1, q + 2) = Cell(d, q)
    BY <1>5 DEF SpliceGives
  <2>2. /\ s \in Seq(Nat) /\ Len(s) = (N + 2) + (A - 2)
        /\ \A q \in 0 .. (t + 2) - 1 : Cell(s, q) = Cell(s1, q)
        /\ \A q \in 1 .. A - 2 : Cell(s, (t + 2) + q - 1) = x[q]
        /\ \A q \in t + 2 .. (N + 2) - 1 : Cell(s, q + (A - 2)) = Cell(s1, q)
    BY <1>6 DEF SpliceGives
  <2>3. (N + 2) + (A - 2) = N + A
    BY ONLY <1>0
  <2>4. ASSUME NEW q \in 0 .. b - 1 PROVE Cell(s, q) = Cell(d, q)
    <3>1. q \in 0 .. (t + 2) - 1
      BY ONLY <1>0, q \in 0 .. b - 1
    <3> QED BY <2>1, <2>2, <3>1
  <2>5. Cell(s, b) = w
    <3>1. b \in 0 .. (t + 2) - 1 /\ 1 \in 1 .. 2 /\ b + 1 - 1 = b
      BY ONLY <1>0
    <3>2. Cell(s1, b + 1 - 1) = y[1]
      BY <2>1, <3>1
    <3> QED BY <1>4, <2>2, <3>1, <3>2
  <2>6. ASSUME NEW q \in b .. t - 1 PROVE Cell(s, q + 2) = Cell(d, q)
    <3>1. q + 2 \in 0 .. (t + 2) - 1 /\ q \in b .. N - 1
      BY ONLY <1>0, q \in b .. t - 1
    <3> QED BY <2>1, <2>2, <3>1
  <2>7. ASSUME NEW j \in 1 .. A - 2 PROVE Cell(s, t + 1 + j) = x[j]
    <3>1. (t + 2) + j - 1 = t + 1 + j
      BY ONLY <1>0, j \in 1 .. A - 2
    <3> QED BY <2>2, <3>1
  <2>8. ASSUME NEW q \in t .. N - 1 PROVE Cell(s, q + A) = Cell(d, q)
    <3>1. PICK g : g = q + 2
      OBVIOUS
    <3>2. g \in t + 2 .. (N + 2) - 1 /\ q \in b .. N - 1 /\ g + (A - 2) = q + A
      BY ONLY <1>0, <3>1, q \in t .. N - 1
    <3>3. Cell(s, g + (A - 2)) = Cell(s1, g)
      BY <2>2, <3>2
    <3>4. Cell(s1, q + 2) = Cell(d, q)
      BY <2>1, <3>2
    <3> QED BY <3>1, <3>2, <3>3, <3>4
  <2> QED BY <2>2, <2>3, <2>4, <2>5, <2>6, <2>7, <2>8
<1>8. PICK M : M = N + A
  OBVIOUS
<1>9. /\ M \in Nat /\ 2 \in 0 .. M - 1 /\ 6 \in 0 .. M - 1 /\ 8 \in 0 .. M - 1 /\ 14 \in 0 .. M - 1
      /\ 2 \in 0 .. b - 1 /\ 6 \in 0 .. b - 1 /\ 14 \in 0 .. b - 1
  BY ONLY <1>0, <1>8
<1>10. /\ Cell(s, 2) = N /\ Cell(s, 6) = Cell(d, 6) /\ Cell(s, 14) = Cell(d, 14)
       /\ Cell(s, 6) + A \in Nat /\ Cell(s, 14) + 2 \in Nat
  <2>1. Cell(s, 2) = N /\ Cell(s, 6) = Cell(d, 6) /\ Cell(s, 14) = Cell(d, 14)
    BY <1>1, <1>7, <1>9
  <2>2. s \in Seq(Nat) /\ Len(s) = M
    BY <1>7, <1>8
  <2>3. Cell(s, 6) \in Nat /\ Cell(s, 14) \in Nat
    BY <1>9, <2>2, CellIs
  <2> QED BY <1>0, <2>1, <2>3
<1>11. PutGives(s, M, 8, p.count + 1, h1)
  <2>1. PutOf(s, M, 8, p.count + 1, h1)
    BY <1>1, <1>7, <1>8, <1>9 DEF PutOf
  <2> HIDE DEF h1
  <2> QED BY <2>1, PutFacts
<1> HIDE DEF h1
<1>12. PutGives(h1, M, 6, Cell(s, 6) + A, h2)
  <2>1. PutOf(h1, M, 6, Cell(s, 6) + A, h2)
    BY <1>9, <1>10, <1>11 DEF PutOf, PutGives
  <2> HIDE DEF h2
  <2> QED BY <2>1, PutFacts
<1> HIDE DEF h2
<1>13. PutGives(h2, M, 14, Cell(s, 14) + 2, h3)
  <2>1. PutOf(h2, M, 14, Cell(s, 14) + 2, h3)
    BY <1>9, <1>10, <1>12 DEF PutOf, PutGives
  <2> HIDE DEF h3
  <2> QED BY <2>1, PutFacts
<1> HIDE DEF h3
<1>14. /\ \A q \in 0 .. M - 1 : Cell(h1, q) = IF q = 8 THEN p.count + 1 ELSE Cell(s, q)
       /\ \A q \in 0 .. M - 1 : Cell(h2, q) = IF q = 6 THEN Cell(s, 6) + A ELSE Cell(h1, q)
       /\ \A q \in 0 .. M - 1 : Cell(h3, q) = IF q = 14 THEN Cell(s, 14) + 2 ELSE Cell(h2, q)
       /\ h3 \in Seq(Nat) /\ Len(h3) = M
  BY <1>11, <1>12, <1>13 DEF PutGives
<1>15. Cell(h3, 2) = N
  BY <1>9, <1>10, <1>14
<1>16. PutGives(h3, M, 2, M, e)
  <2>1. PutOf(h3, M, 2, M, e)
    BY <1>2, <1>8, <1>9, <1>14, <1>15 DEF PutOf, Resized
  <2> QED BY <2>1, PutFacts
<1>17. /\ e \in Seq(Nat) /\ Len(e) = M
       /\ \A q \in 0 .. M - 1 : Cell(e, q) = IF q = 2 THEN M ELSE Cell(h3, q)
  BY <1>16 DEF PutGives
<1>18. ASSUME NEW q \in 0 .. M - 1, q \notin {2, 6, 8, 14} PROVE Cell(e, q) = Cell(s, q)
  BY <1>14, <1>17, <1>18
<1>19. /\ Cell(e, 2) = M /\ Cell(e, 6) = Cell(d, 6) + A /\ Cell(e, 8) = p.count + 1
       /\ Cell(e, 14) = Cell(d, 14) + 2
  BY <1>9, <1>10, <1>14, <1>17, SMTT(40)
<1>20. ASSUME NEW q \in 0 .. b - 1, q \notin {2, 6, 8, 14} PROVE Cell(e, q) = Cell(d, q)
  <2>1. q \in 0 .. M - 1
    BY ONLY <1>0, <1>8, q \in 0 .. b - 1
  <2> QED BY <1>7, <1>18, <1>20, <2>1
<1>21. Cell(e, b) = w
  <2>1. b \in 0 .. M - 1 /\ b \notin {2, 6, 8, 14}
    BY ONLY <1>0, <1>8
  <2> QED BY <1>7, <1>18, <2>1
<1>22. ASSUME NEW q \in b .. t - 1 PROVE Cell(e, q + 2) = Cell(d, q)
  <2>1. q + 2 \in 0 .. M - 1 /\ q + 2 \notin {2, 6, 8, 14}
    BY ONLY <1>0, <1>8, q \in b .. t - 1
  <2> QED BY <1>7, <1>18, <2>1
<1>23. ASSUME NEW j \in 1 .. A - 2 PROVE Cell(e, t + 1 + j) = x[j]
  <2>1. t + 1 + j \in 0 .. M - 1 /\ t + 1 + j \notin {2, 6, 8, 14}
    BY ONLY <1>0, <1>8, j \in 1 .. A - 2
  <2> QED BY <1>7, <1>18, <2>1
<1>24. ASSUME NEW q \in t .. N - 1 PROVE Cell(e, q + A) = Cell(d, q)
  <2>1. q + A \in 0 .. M - 1 /\ q + A \notin {2, 6, 8, 14}
    BY ONLY <1>0, <1>8, q \in t .. N - 1
  <2> QED BY <1>7, <1>18, <2>1
<1> QED BY <1>8, <1>17, <1>19, <1>20, <1>21, <1>22, <1>23, <1>24 DEF Grown, b, t

\* e is d with v at the end of its strings, and A cells longer.
Growing(d, p, c, v, A, e) ==
    /\ Tidy(d, p, c) /\ v \in Seq(Nat) /\ A \in Nat /\ A % 2 = 0 /\ Len(v) + 4 <= A
    /\ \E x : /\ Grown(d, Len(d), p, p.next - p.start, x, A, e)
              /\ x[1] = Len(v) /\ x[Len(v) + 2] = 0 /\ \A j \in 1 .. Len(v) : x[j + 1] = v[j]
Newer(p, A) == [count |-> p.count + 1, offsets |-> p.offsets, start |-> p.start + 2, next |-> p.next + A]
Moved(c, A) == [k \in DOMAIN c |-> c[k] + A]

\* The file that append_string leaves is a grown one.
LEMMA GrowingIs ==
    ASSUME NEW d, NEW p, NEW c, Tidy(d, p, c), NEW v \in Seq(Nat),
           NEW z, z = Pad(2 + Len(<<Len(v)>> \o v \o << 0 >>)),
           NEW x, x = <<Len(v)>> \o v \o << 0 >> \o z,
           NEW e, e = Appended(d, p, p.next - p.start, x)
    PROVE  Growing(d, p, c, v, Len(x) + 2, e)
<1>1. PICK g : g = Len(v)
  OBVIOUS
<1>2. g \in Nat
  BY <1>1, LenProperties
<1>3. Len(<<Len(v)>> \o v \o << 0 >>) = g + 2
  <2>1. CharsOf(v, << >>, <<Len(v)>> \o v \o << 0 >> \o << >>)
    BY DEF CharsOf
  <2>2. CharsGive(v, g, << >>, <<Len(v)>> \o v \o << 0 >> \o << >>)
    BY <1>1, <2>1, CharsAre
  <2>3. <<Len(v)>> \o v \o << 0 >> \in Seq(Nat)
    <3>1. Len(v) \in Nat
      BY <1>1, <1>2
    <3> QED BY <3>1
  <2>4. <<Len(v)>> \o v \o << 0 >> \o << >> = <<Len(v)>> \o v \o << 0 >>
    BY <2>3, ConcatEmptySeq
  <2>5. Len(<< >>) = 0
    OBVIOUS
  <2>6. Len(<<Len(v)>> \o v \o << 0 >> \o << >>) = g + 2 + 0
    BY <2>2, <2>5 DEF CharsGive
  <2>7. g + 2 + 0 = g + 2
    BY ONLY <1>2
  <2> QED BY <2>4, <2>6, <2>7
<1>4. z \in Seq(Nat) /\ Len(z) \in Nat /\ (2 + (g + 2) + Len(z)) % 2 = 0
  <2>1. 2 + (g + 2) \in Nat
    BY ONLY <1>2
  <2>2. z = Pad(2 + (g + 2))
    BY <1>3
  <2>3. z \in Seq(Nat) /\ ((2 + (g + 2)) + Len(z)) % 2 = 0
    BY <2>1, <2>2, PadIs
  <2> QED BY <2>3, LenProperties
<1>5. CharsGive(v, g, z, x)
  <2>1. CharsOf(v, z, x)
    BY <1>4 DEF CharsOf
  <2> QED BY <1>1, <2>1, CharsAre
<1>6. PICK A : A = Len(x) + 2
  OBVIOUS
<1>7. A \in Nat /\ A % 2 = 0 /\ g + 4 <= A
  <2>1. PICK m : m = Len(z)
    OBVIOUS
  <2>2. m \in Nat /\ (2 + (g + 2) + m) % 2 = 0 /\ A = g + 2 + m + 2
    BY <1>4, <1>5, <1>6, <2>1 DEF CharsGive
  <2>3. A = 2 + (g + 2) + m /\ A \in Nat /\ g + 4 <= A
    BY ONLY <1>2, <2>2
  <2> QED BY <2>2, <2>3
<1>8. Appending(d, Len(d), p, p.next - p.start, x, A, e)
  <2>1. /\ d \in Seq(Nat) /\ Len(d) \in Nat /\ p.start \in Nat /\ p.next \in Nat /\ p.count \in Nat
        /\ p.start <= p.next /\ p.next + 4 <= Len(d)
    BY PoolBounds
  <2>2. 18 <= p.start
    <3>1. p.start \in Nat /\ p.start >= 18
      BY Numbers
    <3> QED BY ONLY <3>1
  <2>3. p.next - p.start \in Nat
    <3>1. p.start \in Nat /\ p.next \in Nat /\ p.start <= p.next
      BY <2>1
    <3> QED BY ONLY <3>1
  <2>4. 2 <= A
    BY ONLY <1>2, <1>7
  <2>5. Cell(d, 2) = Len(d)
    BY DEF Tidy
  <2> QED BY <1>5, <1>6, <1>7, <2>1, <2>2, <2>3, <2>4, <2>5 DEF Appending, CharsGive
<1>9. Grown(d, Len(d), p, p.next - p.start, x, A, e)
  BY <1>8, Grows
<1>10. x[1] = Len(v) /\ x[Len(v) + 2] = 0 /\ \A j \in 1 .. Len(v) : x[j + 1] = v[j]
  BY <1>1, <1>5 DEF CharsGive
<1> QED BY <1>1, <1>6, <1>7, <1>9, <1>10 DEF Growing

\* Its header describes the longer table, and strings that start behind it.
LEMMA NewPool ==
    ASSUME NEW d, NEW p, NEW c, NEW v, NEW A, NEW e, Growing(d, p, c, v, A, e)
    PROVE  ParseStringPool(e) = Newer(p, A) /\ Cell(e, PoolOff) = PoolType
<1>1. Tidy(d, p, c)
  BY DEF Growing
<1>2. PICK x : Grown(d, Len(d), p, p.next - p.start, x, A, e)
  BY DEF Growing
<1>3. p.start \in Nat /\ p.start >= 18
  BY <1>1, Numbers
<1>4. 4 \in 0 .. p.start - 1 /\ 5 \in 0 .. p.start - 1
  BY ONLY <1>3
<1>5. Cell(e, 4) = Cell(d, 4) /\ Cell(e, 5) = Cell(d, 5)
  BY <1>2, <1>4 DEF Grown
<1>6. Cell(e, 6) = Cell(d, 6) + A /\ Cell(e, 8) = p.count + 1 /\ Cell(e, 14) = Cell(d, 14) + 2
  BY <1>2 DEF Grown
<1>7. /\ d \in Seq(Nat) /\ Len(d) > 18 /\ p = ParseStringPool(d) /\ Cell(d, PoolOff) = PoolType
  BY <1>1 DEF Tidy, PoolAsWritten
<1>8. /\ p.offsets = 4 + Cell(d, 5) /\ p.start = 4 + Cell(d, 14) /\ p.next = 4 + Cell(d, 6)
  BY <1>7, PoolIs
<1>9. Cell(d, 6) \in Nat /\ Cell(d, 14) \in Nat /\ A \in Nat
  <2>1. 6 \in 0 .. Len(d) - 1 /\ 14 \in 0 .. Len(d) - 1
    BY <1>7
  <2>2. A \in Nat
    BY DEF Growing
  <2> QED BY <1>7, <2>1, <2>2, CellIs
<1>10. 4 + Cell(e, 14) = p.start + 2 /\ 4 + Cell(e, 6) = p.next + A
  BY <1>6, <1>8, <1>9
<1>11. 4 + 4 = 8 /\ 4 + 1 = 5 /\ 4 + 10 = 14 /\ 4 + 2 = 6
  OBVIOUS
<1>12. Cell(e, PoolOff) = PoolType
  BY <1>5, <1>7 DEF PoolOff
<1>13. ParseStringPool(e) = [count |-> Cell(e, 8), offsets |-> 4 + Cell(e, 5), start |-> 4 + Cell(e, 14), next |-> 4 + Cell(e, 6)]
  BY <1>11 DEF ParseStringPool, PoolOff
<1> QED BY <1>5, <1>6, <1>8, <1>10, <1>12, <1>13 DEF Newer

\* Every string of the pool is read as before, under its index ...
LEMMA OldStrings ==
    ASSUME NEW d, NEW p, NEW c, NEW v, NEW A, NEW e, Growing(d, p, c, v, A, e),
           NEW i \in 0 .. p.count - 1, NEW r, r = Newer(p, A)
    PROVE  /\ StringAt(e, r, i) = StringAt(d, p, i) + 2 /\ StringEnd(e, r, i) = StringEnd(d, p, i) + 2
           /\ Cell(e, StringEnd(e, r, i)) = 0 /\ ReadString(e, r, i) = ReadString(d, p, i)
<1> DEFINE b == StringAt(d, p, i)
           n == Cell(d, b)
           N == Len(d)
<1>1. Tidy(d, p, c) /\ A \in Nat
  BY DEF Growing
<1>2. PICK x : Grown(d, N, p, p.next - p.start, x, A, e)
  BY DEF Growing
<1>3. /\ e \in Seq(Nat) /\ Len(e) = N + A
      /\ \A q \in 0 .. p.start - 1 : q \notin {2, 6, 8, 14} => Cell(e, q) = Cell(d, q)
      /\ \A q \in p.start .. p.next - 1 : Cell(e, q + 2) = Cell(d, q)
  BY <1>2 DEF Grown
<1>4. /\ d \in Seq(Nat) /\ N \in Nat /\ p.next + 4 <= N
      /\ p.count \in Nat /\ p.offsets \in Nat /\ p.start \in Nat /\ p.next \in Nat
      /\ p.offsets >= 18 /\ p.start <= p.next
  BY <1>1, PoolBounds
<1>5. /\ p.offsets + 2 * i \in Nat /\ p.offsets + 2 * i + 2 <= p.start
      /\ b \in Nat /\ b = p.start + Cell(d, p.offsets + 2 * i) /\ p.start <= b /\ n \in Nat
      /\ StringEnd(d, p, i) = b + n + 1 /\ StringEnd(d, p, i) < p.next /\ Cell(d, StringEnd(d, p, i)) = 0
  BY <1>1, StringIs
<1>6. r.offsets = p.offsets /\ r.start = p.start + 2
  BY DEF Newer
<1>7. StringAt(e, r, i) = b + 2
  <2>0. i \in Nat
    BY <1>4
  <2>1. PICK q : q = p.offsets + 2 * i
    OBVIOUS
  <2>2. q \in Nat /\ q + 2 <= p.start /\ q >= 18
    <3>1. q \in Nat /\ q + 2 <= p.start
      BY <1>5, <2>1
    <3>2. q >= 18
      BY ONLY <1>4, <2>0, <2>1
    <3> QED BY <3>1, <3>2
  <2>3. q \in 0 .. p.start - 1 /\ q \notin {2, 6, 8, 14}
    <3>1. p.start \in Nat
      BY <1>4
    <3> QED BY ONLY <2>2, <3>1
  <2>4. Cell(e, q) = Cell(d, q)
    BY <1>3, <2>3
  <2>5. Cell(d, q) \in Nat
    <3>1. q \in 0 .. N - 1
      <4>1. N \in Nat /\ p.start \in Nat /\ p.next \in Nat /\ p.start <= p.next /\ p.next + 4 <= N
        BY <1>4
      <4> HIDE DEF N
      <4> QED BY ONLY <2>2, <4>1
    <3> QED BY <1>4, <3>1, CellIs
  <2>6. StringAt(e, r, i) = p.start + 2 + Cell(d, q)
    BY <1>6, <2>1, <2>4 DEF StringAt
  <2>7. b = p.start + Cell(d, q)
    BY <1>5, <2>1
  <2>8. PICK y : y = Cell(d, q)
    OBVIOUS
  <2>9. p.start + 2 + y = p.start + y + 2
    <3>1. y \in Nat /\ p.start \in Nat
      BY <1>4, <2>5, <2>8
    <3> QED BY ONLY <3>1
  <2> QED BY <2>6, <2>7, <2>8, <2>9
<1> HIDE DEF b, n, N
<1>8. b + n + 1 < p.next /\ Cell(d, b + n + 1) = 0 /\ Cell(d, b) = n
  BY <1>5 DEF n
<1>9. \A j \in 0 .. n + 1 : Cell(e, (b + 2) + j) = Cell(d, b + j)
  <2> TAKE j \in 0 .. n + 1
  <2>1. b \in Nat /\ n \in Nat /\ p.start <= b
    BY <1>5
  <2>2. b + n + 1 < p.next
    BY <1>8
  <2>3. b + j \in p.start .. p.next - 1 /\ (b + 2) + j = b + j + 2
    BY ONLY <1>4, <2>1, <2>2, j \in 0 .. n + 1, SMTT(40)
  <2> QED BY <1>3, <2>3
<1>n. b \in Nat /\ n \in Nat
  BY <1>5
<1>10. 0 \in 0 .. n + 1 /\ b + 0 = b /\ (b + 2) + 0 = b + 2 /\ n + 1 \in 0 .. n + 1 /\ (b + 2) + (n + 1) = b + 2 + n + 1 /\ b + (n + 1) = b + n + 1
  BY ONLY <1>n
<1>11. Cell(e, b + 2) = n /\ Cell(e, b + 2 + n + 1) = 0
  BY <1>8, <1>9, <1>10
<1>12. StringEnd(e, r, i) = b + 2 + n + 1
  BY <1>7, <1>11 DEF StringEnd
<1>13. StringEnd(e, r, i) = StringEnd(d, p, i) + 2
  <2>1. b + 2 + n + 1 = b + n + 1 + 2
    BY ONLY <1>n
  <2> QED BY <1>5, <1>12, <2>1
<1>14. TextAt(e, b + 2) = TextAt(d, b)
  <2>1. \A j \in 0 .. n : Cell(e, (b + 2) + j) = Cell(d, b + j)
    <3>1. \A j \in 0 .. n : j \in 0 .. n + 1
      BY ONLY <1>n
    <3> QED BY <1>9, <3>1
  <2>2. b + n + 1 < p.next
    BY <1>8
  <2>3. b + n + 1 < N /\ b + 2 + n + 1 < N + A /\ b + 2 \in Nat
    BY ONLY <1>1, <1>4, <1>n, <2>2
  <2>4. TwoTexts(d, e, b, b + 2, n)
    BY <1>3, <1>4, <1>8, <1>n, <2>1, <2>3 DEF TwoTexts, N
  <2> QED BY <2>4, TextMoved
<1> QED BY <1>7, <1>11, <1>12, <1>13, <1>14, ReadIs DEF b

\* ... and the next index reads the new one.
LEMMA NewString ==
    ASSUME NEW d, NEW p, NEW c, NEW v, NEW A, NEW e, Growing(d, p, c, v, A, e), NEW r, r = Newer(p, A)
    PROVE  /\ StringAt(e, r, p.count) = p.next + 2 /\ StringEnd(e, r, p.count) = p.next + 2 + Len(v) + 1
           /\ Cell(e, StringEnd(e, r, p.count)) = 0 /\ ReadString(e, r, p.count) = v
<1> DEFINE N == Len(d)
           g == Len(v)
           t == p.next
<1>1. Tidy(d, p, c) /\ v \in Seq(Nat) /\ A \in Nat /\ g + 4 <= A
  BY DEF Growing
<1>2. PICK x : /\ Grown(d, N, p, p.next - p.start, x, A, e)
               /\ x[1] = g /\ x[g + 2] = 0 /\ \A j \in 1 .. g : x[j + 1] = v[j]
  BY DEF Growing
<1>3. /\ e \in Seq(Nat) /\ Len(e) = N + A /\ Cell(e, p.start) = t - p.start
      /\ \A j \in 1 .. A - 2 : Cell(e, t + 1 + j) = x[j]
  BY <1>2 DEF Grown
<1>4. /\ d \in Seq(Nat) /\ N \in Nat /\ t + 4 <= N
      /\ p.count \in Nat /\ p.start \in Nat /\ t \in Nat
      /\ p.start = p.offsets + 2 * p.count /\ p.start <= t
  BY <1>1, PoolBounds
<1>5. g \in Nat
  BY <1>1, LenProperties
<1> HIDE DEF N, g, t
<1>n. A \in Nat /\ g \in Nat /\ g + 4 <= A /\ t \in Nat /\ p.start \in Nat /\ p.start <= t /\ N \in Nat /\ t + 4 <= N
  BY <1>1, <1>4, <1>5
<1>6. r.offsets = p.offsets /\ r.start = p.start + 2
  BY DEF Newer
<1>7. StringAt(e, r, p.count) = t + 2
  <2>1. StringAt(e, r, p.count) = p.start + 2 + (t - p.start)
    BY <1>3, <1>4, <1>6 DEF StringAt
  <2>2. p.start + 2 + (t - p.start) = t + 2
    BY ONLY <1>n
  <2> QED BY <2>1, <2>2
<1>8. Cell(e, t + 2) = g
  <2>1. 1 \in 1 .. A - 2 /\ t + 1 + 1 = t + 2
    BY ONLY <1>n
  <2> QED BY <1>2, <1>3, <2>1
<1>9. \A j \in 1 .. g : Cell(e, (t + 2) + j) = v[j]
  <2> TAKE j \in 1 .. g
  <2>1. j + 1 \in 1 .. A - 2 /\ t + 1 + (j + 1) = (t + 2) + j
    BY ONLY <1>n, j \in 1 .. g
  <2>2. Cell(e, t + 1 + (j + 1)) = x[j + 1]
    BY <1>3, <2>1
  <2> QED BY <1>2, <2>1, <2>2
<1>10. Cell(e, t + 2 + g + 1) = 0
  <2>1. g + 2 \in 1 .. A - 2 /\ t + 1 + (g + 2) = t + 2 + g + 1
    BY ONLY <1>n
  <2> QED BY <1>2, <1>3, <2>1
<1>11. StringEnd(e, r, p.count) = t + 2 + g + 1
  BY <1>7, <1>8 DEF StringEnd
<1>12. TextAt(e, t + 2) = v
  <2>0. t + 2 \in Nat /\ (t + 2) + g + 1 < N + A
    BY ONLY <1>n
  <2>1. t + 2 \in Nat /\ (t + 2) + g + 1 < Len(e)
    BY <1>3, <2>0
  <2>2. /\ TextAt(e, t + 2) \in Seq(Nat) /\ Len(TextAt(e, t + 2)) = g
        /\ \A j \in 1 .. g : TextAt(e, t + 2)[j] = Cell(e, (t + 2) + j)
    <3>1. PICK b : b = t + 2
      OBVIOUS
    <3>2. /\ TextAt(e, b) \in Seq(Nat) /\ Len(TextAt(e, b)) = g
          /\ \A j \in 1 .. g : TextAt(e, b)[j] = Cell(e, b + j)
      BY <1>3, <1>5, <1>8, <2>1, <3>1, TextIs
    <3> QED BY <3>1, <3>2
  <2>3. Len(v) = g
    BY DEF g
  <2> QED BY <1>1, <1>9, <2>2, <2>3, SeqEqual
<1> QED BY <1>7, <1>10, <1>11, <1>12, ReadIs DEF t, g

LEMMA EvenAgain == ASSUME NEW t \in Nat, NEW A \in Nat, t % 2 = 0, A % 2 = 0 PROVE (t + A) % 2 = 0
OBVIOUS

\* The grown pool is one that aapt could have written.
LEMMA GrownPool ==
    ASSUME NEW d, NEW p, NEW c, NEW v, NEW A, NEW e, Growing(d, p, c, v, A, e), NEW r, r = Newer(p, A)
    PROVE  PoolAsWritten(e, r)
<1>1. Tidy(d, p, c) /\ v \in Seq(Nat) /\ A \in Nat /\ A % 2 = 0 /\ Len(v) + 4 <= A
  BY DEF Growing
<1>2. PICK g : g = Len(v)
  OBVIOUS
<1>3. g \in Nat /\ A \in Nat /\ g + 4 <= A
  BY <1>1, <1>2, LenProperties
<1>4. /\ p.count \in Nat /\ p.offsets \in Nat /\ p.start \in Nat /\ p.next \in Nat
      /\ p.offsets >= 18 /\ p.start = p.offsets + 2 * p.count /\ p.start <= p.next
  BY <1>1, PoolBounds
<1>5. p.next % 2 = 0 /\ p.offsets >= PoolOff + 14
  BY <1>1 DEF Tidy, PoolAsWritten
<1>6. r.count = p.count + 1 /\ r.offsets = p.offsets /\ r.start = p.start + 2 /\ r.next = p.next + A
  BY DEF Newer
<1>7. r.offsets + 2 * r.count = r.start /\ r.start <= r.next /\ r.next % 2 = 0
  <2>1. p.offsets + 2 * (p.count + 1) = p.start + 2 /\ p.start + 2 <= p.next + A
    BY ONLY <1>3, <1>4
  <2>2. (p.next + A) % 2 = 0
    BY <1>1, <1>4, <1>5, EvenAgain
  <2> QED BY <1>6, <2>1, <2>2
<1>8. ASSUME NEW i \in 0 .. r.count - 1
      PROVE  i \in 0 .. p.count - 1 \/ i = p.count
  <2>1. i \in 0 .. (p.count + 1) - 1
    BY <1>6
  <2> QED BY ONLY <1>4, <2>1
<1>9. ASSUME NEW i \in 0 .. p.count - 1
      PROVE  /\ StringAt(e, r, i) \in Nat /\ StringEnd(e, r, i) \in Nat
             /\ StringEnd(e, r, i) < p.next + 2 /\ StringAt(e, r, i) < p.next + 2
             /\ Cell(e, StringEnd(e, r, i)) = 0
  <2>1. PICK b, z : b = StringAt(d, p, i) /\ z = StringEnd(d, p, i)
    OBVIOUS
  <2>2. b \in Nat /\ z \in Nat /\ z < p.next /\ b < p.next
    <3>1. b \in Nat /\ z \in Nat /\ z < p.next
      BY <1>1, <2>1, StringIs
    <3>2. b < p.next
      BY <1>1, <2>1 DEF Tidy, PoolAsWritten
    <3> QED BY <3>1, <3>2
  <2>3. StringAt(e, r, i) = b + 2 /\ StringEnd(e, r, i) = z + 2 /\ Cell(e, StringEnd(e, r, i)) = 0
    BY <2>1, OldStrings
  <2>4. b + 2 \in Nat /\ z + 2 \in Nat /\ z + 2 < p.next + 2 /\ b + 2 < p.next + 2
    BY ONLY <1>4, <2>2
  <2> QED BY <2>3, <2>4
<1>10. /\ StringAt(e, r, p.count) = p.next + 2 /\ StringEnd(e, r, p.count) = p.next + 2 + g + 1
       /\ Cell(e, StringEnd(e, r, p.count)) = 0
  BY <1>2, NewString
<1>n. p.next + 2 < p.next + A /\ p.next + 2 + g + 1 < p.next + A
  BY ONLY <1>3, <1>4
<1>11. ASSUME NEW i \in 0 .. r.count - 1
       PROVE  /\ StringAt(e, r, i) < r.next /\ StringEnd(e, r, i) < r.next
              /\ Cell(e, StringEnd(e, r, i)) = 0
  <2>1. CASE i \in 0 .. p.count - 1
    <3>1. PICK b, z : b = StringAt(e, r, i) /\ z = StringEnd(e, r, i)
      OBVIOUS
    <3>2. b \in Nat /\ z \in Nat /\ z < p.next + 2 /\ b < p.next + 2 /\ Cell(e, z) = 0
      BY <1>9, <2>1, <3>1
    <3>3. b \in Nat /\ z \in Nat /\ z < p.next + 2 /\ b < p.next + 2
      BY <3>2
    <3>4. b < p.next + A /\ z < p.next + A
      BY ONLY <1>n, <1>3, <1>4, <3>3
    <3> QED BY <1>6, <3>1, <3>2, <3>4
  <2>2. CASE i = p.count
    BY <1>6, <1>10, <1>n, <2>2
  <2> QED BY <1>8, <2>1, <2>2
<1>12. ASSUME NEW i \in 0 .. r.count - 1, NEW j \in 0 .. r.count - 1, i < j
       PROVE  \/ StringEnd(e, r, i) < StringAt(e, r, j)
              \/ StringEnd(e, r, j) < StringAt(e, r, i)
  <2>1. i \in 0 .. p.count - 1 /\ (j \in 0 .. p.count - 1 \/ j = p.count)
    <3>1. i \in 0 .. (p.count + 1) - 1 /\ j \in 0 .. (p.count + 1) - 1
      BY <1>6
    <3> QED BY ONLY <1>4, <1>12, <3>1
  <2>2. CASE j = p.count
    BY <1>9, <1>10, <2>1, <2>2
  <2>3. CASE j \in 0 .. p.count - 1
    <3>1. PICK b, z, bb, zz : /\ b = StringAt(d, p, i) /\ z = StringEnd(d, p, i)
                              /\ bb = StringAt(d, p, j) /\ zz = StringEnd(d, p, j)
      OBVIOUS
    <3>2. /\ b \in Nat /\ z \in Nat /\ bb \in Nat /\ zz \in Nat
          /\ (z < bb \/ zz < b)
      <4>1. i # j
        BY ONLY <1>4, <1>12, <2>1, <2>3
      <4> QED BY <1>1, <2>1, <2>3, <3>1, <4>1, StringIs
    <3>3. /\ StringAt(e, r, i) = b + 2 /\ StringEnd(e, r, i) = z + 2
          /\ StringAt(e, r, j) = bb + 2 /\ StringEnd(e, r, j) = zz + 2
      BY <2>1, <2>3, <3>1, OldStrings
    <3>4. z + 2 < bb + 2 \/ zz + 2 < b + 2
      BY ONLY <3>2
    <3> QED BY <3>3, <3>4
  <2> QED BY <2>1, <2>2, <2>3
<1>13. Cell(e, PoolOff) = PoolType
  BY NewPool
<1> QED BY <1>5, <1>6, <1>7, <1>11, <1>12, <1>13 DEF PoolAsWritten

\* Every chunk has moved by what was added.
LEMMA GrownChunks ==
    ASSUME NEW d, NEW p, NEW c, NEW v, NEW A, NEW e, Growing(d, p, c, v, A, e), NEW r, r = Newer(p, A),
           NEW k \in 1 .. Len(c)
    PROVE  /\ Cell(e, c[k] + A) = Cell(d, c[k]) /\ Cell(e, c[k] + A + 2) = Cell(d, c[k] + 2)
           /\ NodeAsWritten(e, r, c[k] + A) /\ Node(e, c[k] + A) = Node(d, c[k])
<1> DEFINE N == Len(d)
           o == c[k]
<1>1. Tidy(d, p, c) /\ A \in Nat
  BY DEF Growing
<1>2. PICK x : Grown(d, N, p, p.next - p.start, x, A, e)
  BY DEF Growing
<1>3. /\ e \in Seq(Nat) /\ Len(e) = N + A /\ \A q \in p.next .. N - 1 : Cell(e, q + A) = Cell(d, q)
  BY <1>2 DEF Grown
<1>4. d \in Seq(Nat) /\ N \in Nat /\ p.next \in Nat /\ p.count \in Nat
  BY <1>1, PoolBounds
<1>5. PICK n : n = Cell(d, o + 2)
  OBVIOUS
<1>6. /\ o \in Nat /\ n \in Nat /\ n >= 4 /\ p.next <= o /\ o + n <= N /\ NodeAsWritten(d, p, o)
  BY <1>1, <1>5, ChunkBounds
<1> HIDE DEF N, o
<1>n. o \in Nat /\ n \in Nat /\ n >= 4 /\ p.next <= o /\ o + n <= N /\ N \in Nat /\ p.next \in Nat /\ A \in Nat
  BY <1>1, <1>4, <1>6
<1>7. ASSUME NEW q \in 0 .. n - 1 PROVE Cell(e, (o + A) + q) = Cell(d, o + q)
  <2>1. o + q \in p.next .. N - 1 /\ o + q + A = (o + A) + q
    BY ONLY <1>n, q \in 0 .. n - 1
  <2> QED BY <1>3, <2>1
<1>8. o + A \in Nat /\ (o + A) + n <= N + A
  BY ONLY <1>n
<1>9. Copied(d, e, o, o + A, n)
  BY <1>3, <1>4, <1>5, <1>6, <1>7, <1>8 DEF Copied, TwoChunks, N
<1>10. MayGrow(p, r)
  <2>1. r.count = p.count + 1
    BY DEF Newer
  <2> QED BY <1>4, <2>1 DEF MayGrow
<1>11. PICK y : y = o + A
  OBVIOUS
<1>12. Copied(d, e, o, y, n)
  BY <1>9, <1>11
<1>13. /\ Cell(e, y) = Cell(d, o) /\ Cell(e, y + 2) = n
       /\ NodeAsWritten(e, r, y) /\ Node(e, y) = Node(d, o)
  <2>1. NodeAsWritten(d, p, o)
    BY <1>6
  <2> QED BY ONLY <1>10, <1>12, <2>1, NodeMoved
<1> QED BY <1>5, <1>11, <1>13 DEF o

\* append_string leaves a tidy file and its nodes.
LEMMA GrownTidy ==
    ASSUME NEW d, NEW p, NEW c, NEW v, NEW A, NEW e, Growing(d, p, c, v, A, e), NEW r, r = Newer(p, A),
           NEW cc, cc = Moved(c, A)
    PROVE  Tidy(e, r, cc) /\ NodesOf(e, cc) = NodesOf(d, c)
<1> DEFINE N == Len(d)
           Z == Len(c)
<1>1. Tidy(d, p, c) /\ A \in Nat
  BY DEF Growing
<1>2. PICK x : Grown(d, N, p, p.next - p.start, x, A, e)
  BY DEF Growing
<1>3. e \in Seq(Nat) /\ Len(e) = N + A /\ Cell(e, 2) = N + A
  BY <1>2 DEF Grown
<1>4. /\ N \in Nat /\ p.next \in Nat /\ Z \in Nat \ {0} /\ c \in Seq(Nat) /\ c[1] = p.next
      /\ N > 18 /\ Cell(d, c[Z]) # StartType
  BY <1>1, PoolBounds DEF Tidy
<1>5. DOMAIN c = 1 .. Z
  BY <1>4, LenProperties
<1>6. DOMAIN cc = 1 .. Z /\ cc = [k \in 1 .. Z |-> c[k] + A] /\ \A k \in 1 .. Z : cc[k] = c[k] + A
  BY <1>5 DEF Moved
<1>7. ASSUME NEW k \in 1 .. Z
      PROVE  /\ cc[k] \in 0 .. (N + A) - 4 /\ Cell(e, cc[k] + 2) >= 4
             /\ cc[k] + Cell(e, cc[k] + 2) = IF k = Z THEN N + A ELSE cc[k + 1]
  <2>1. PICK t, o : t = Cell(d, c[k] + 2) /\ o = c[k]
    OBVIOUS
  <2>2. /\ o \in Nat /\ t \in Nat /\ t >= 4 /\ o + t <= N
        /\ o + t = IF k = Z THEN N ELSE c[k + 1]
    BY <1>1, <2>1, ChunkBounds
  <2>3. cc[k] = o + A /\ Cell(e, o + A + 2) = t
    BY <1>6, <2>1, GrownChunks
  <2>4. o \in Nat /\ t \in Nat /\ t >= 4 /\ o + t <= N /\ A \in Nat /\ N \in Nat /\ Z \in Nat
    BY <1>1, <1>4, <2>2
  <2> HIDE DEF N, Z
  <2>5. o + A \in 0 .. (N + A) - 4 /\ o + A + t = o + t + A
    BY ONLY <2>4
  <2>6. o + A + t = IF k = Z THEN N + A ELSE cc[k + 1]
    <3>1. CASE k = Z
      BY <2>2, <2>5, <3>1
    <3>2. CASE k # Z
      <4>1. k + 1 \in 1 .. Z
        BY ONLY <2>4, <3>2, k \in 1 .. Z
      <4> QED BY <1>6, <2>2, <2>5, <3>2, <4>1
    <3> QED BY <3>1, <3>2
  <2> QED BY <2>2, <2>3, <2>5, <2>6
<1> HIDE DEF N, Z
<1>8. cc \in Seq(0 .. (N + A) - 4) /\ Len(cc) = Z
  <2>1. PICK S : S = 0 .. (N + A) - 4
    OBVIOUS
  <2>2. cc = [k \in 1 .. Z |-> cc[k]] /\ \A k \in 1 .. Z : cc[k] \in S
    BY <1>6, <1>7, <2>1
  <2>3. cc \in [1 .. Z -> S] /\ Z \in Nat
    BY ONLY <1>4, <2>2
  <2>4. cc \in Seq(S) /\ Len(cc) = Z
    BY ONLY <2>3
  <2> QED BY <2>1, <2>4
<1>n. 1 \in 1 .. Z /\ Z \in 1 .. Z
  BY <1>4
<1>9. ChunksFollow(e, r, cc)
  <2>1. cc # << >>
    BY <1>4, <1>8
  <2>2. cc[1] = r.next
    <3>1. cc[1] = p.next + A
      BY <1>4, <1>6, <1>n
    <3> QED BY <3>1 DEF Newer
  <2> QED BY <1>3, <1>6, <1>7, <1>8, <2>1, <2>2 DEF ChunksFollow
<1>10. ASSUME NEW k \in 1 .. Z PROVE /\ NodeAsWritten(e, r, cc[k]) /\ Node(e, cc[k]) = Node(d, c[k])
                                     /\ Cell(e, cc[k]) = Cell(d, c[k])
  BY <1>6, GrownChunks DEF Z
<1>11. Cell(e, cc[Z]) # StartType
  BY <1>4, <1>10, <1>n
<1>12. N + A > 18
  BY ONLY <1>1, <1>4
<1>13. r = ParseStringPool(e) /\ PoolAsWritten(e, r)
  BY NewPool, GrownPool
<1>14. Tidy(e, r, cc)
  BY <1>3, <1>8, <1>9, <1>10, <1>11, <1>12, <1>13 DEF Tidy
<1>15. NodesOf(e, cc) = NodesOf(d, c)
  BY <1>5, <1>6, <1>10 DEF NodesOf
<1> QED BY <1>14, <1>15

-----------------------------------------------------------------------------
(* The encoding of a string without astral code points.                    *)

\* The first i items of a sequence.
LEMMA PrefixIs ==
    ASSUME NEW v \in Seq(Nat), NEW i \in 1 .. Len(v)
    PROVE  SubSeq(v, 1, i) \in Seq(Nat) /\ Len(SubSeq(v, 1, i)) = i /\ \A q \in 1 .. i : SubSeq(v, 1, i)[q] = v[q]
<1>1. Len(v) \in Nat
  BY LenProperties
<1>2. PICK g : g = Len(v)
  OBVIOUS
<1>3. g \in Nat /\ i \in 1 .. g
  BY <1>1, <1>2
<1>4. \A q \in 1 .. i : v[q] \in Nat
  <2>1. \A q \in 1 .. i : q \in 1 .. g
    BY ONLY <1>3
  <2> QED BY <1>2, <2>1, ElementOfSeq
<1>5. i \in Int /\ 1 <= i /\ i - 1 + 1 = i /\ \A q \in 1 .. i : 1 + q - 1 = q
  BY ONLY <1>3
<1>6. /\ SubSeq(v, 1, i) \in Seq(Nat)
      /\ Len(SubSeq(v, 1, i)) = IF 1 <= i THEN i - 1 + 1 ELSE 0
      /\ \A q \in 1 .. i - 1 + 1 : SubSeq(v, 1, i)[q] = v[1 + q - 1]
  BY <1>4, <1>5, SubSeqProperties
<1> QED BY <1>5, <1>6

LEMMA PrefixNext ==
    ASSUME NEW v \in Seq(Nat), NEW i \in 1 .. Len(v), i # 1
    PROVE  SubSeq(v, 1, i) = SubSeq(v, 1, i - 1) \o <<v[i]>>
<1>1. 1 \in 1 .. Len(v) /\ i \in 1 .. Len(v)
  <2>1. Len(v) \in Nat
    BY LenProperties
  <2> QED BY <2>1
<1> QED BY <1>1, SubSeqRecursiveSecond

IsFlat(f, s, g) == f = [i \in 1 .. g |-> IF i = 1 THEN s[i] ELSE f[i - 1] \o s[i]]
LEMMA FlattenDef == \A s : Len(s) # 0 => FlattenSeq(s) = (CHOOSE f : IsFlat(f, s, Len(s)))[Len(s)]
BY DEF FlattenSeq, IsFlat
LEMMA FlattenNone == \A s : Len(s) = 0 => FlattenSeq(s) = s
BY DEF FlattenSeq

Singly(v, s, g) == v \in Seq(Nat) /\ g = Len(v) /\ s = [k \in 1 .. g |-> <<v[k]>>]

\* Flattening sequences of one item each is defined, and gives the items back.
LEMMA FlatExists ==
    ASSUME NEW v, NEW s, NEW g, Singly(v, s, g)
    PROVE  \E f : IsFlat(f, s, g)
<1> DEFINE f == [i \in 1 .. g |-> SubSeq(v, 1, i)]
<1>1. v \in Seq(Nat) /\ g = Len(v) /\ s = [k \in 1 .. g |-> <<v[k]>>] /\ g \in Nat
  BY LenProperties DEF Singly
<1>2. ASSUME NEW i \in 1 .. g PROVE f[i] = IF i = 1 THEN s[i] ELSE f[i - 1] \o s[i]
  <2>1. CASE i = 1
    <3>1. SubSeq(v, 1, 1) \in Seq(Nat) /\ Len(SubSeq(v, 1, 1)) = 1 /\ \A q \in 1 .. 1 : SubSeq(v, 1, 1)[q] = v[q]
      BY <1>1, <2>1, PrefixIs
    <3>2. <<v[1]>> \in Seq(Nat) /\ Len(<<v[1]>>) = 1 /\ \A q \in 1 .. 1 : <<v[1]>>[q] = v[q]
      <4>1. v[1] \in Nat
        BY <1>1, <2>1, ElementOfSeq
      <4> QED BY <4>1
    <3>3. SubSeq(v, 1, 1) = <<v[1]>>
      BY <3>1, <3>2, SeqEqual
    <3> QED BY <1>1, <2>1, <3>3
  <2>2. CASE i # 1
    <3>1. i - 1 \in 1 .. g
      BY ONLY <1>1, <2>2, i \in 1 .. g
    <3>2. SubSeq(v, 1, i) = SubSeq(v, 1, i - 1) \o <<v[i]>>
      BY <1>1, <2>2, PrefixNext
    <3> QED BY <1>1, <2>2, <3>1, <3>2
  <2> QED BY <2>1, <2>2
<1>3. f = [i \in 1 .. g |-> f[i]]
  OBVIOUS
<1> HIDE DEF f
<1>4. IsFlat(f, s, g)
  BY <1>2, <1>3 DEF IsFlat
<1> QED BY <1>4

LEMMA FlatIs ==
    ASSUME NEW v, NEW s, NEW g, Singly(v, s, g), NEW f, IsFlat(f, s, g), NEW i \in 1 .. g
    PROVE  f[i] = SubSeq(v, 1, i)
<1> DEFINE S == {j \in 0 .. g : g - j \in 1 .. g /\ f[g - j] # SubSeq(v, 1, g - j)}
<1>0. v \in Seq(Nat) /\ g = Len(v) /\ s = [k \in 1 .. g |-> <<v[k]>>] /\ g \in Nat
  BY LenProperties DEF Singly
<1>1. SUFFICES ASSUME S # {} PROVE FALSE
  <2>1. g - i \in 0 .. g /\ g - (g - i) = i
    BY ONLY <1>0, i \in 1 .. g
  <2>2. g - i \notin S
    BY <1>1
  <2> QED BY <2>1, <2>2
<1>2. PICK j \in S : \A y \in S : y <= j
  <2>1. S \subseteq 0 .. g /\ 0 \in Int /\ g \in Int
    BY <1>0
  <2> HIDE DEF S
  <2> QED BY <1>1, <2>1, LastIn
<1>3. PICK h : h = g - j
  OBVIOUS
<1>4. j \in 0 .. g /\ h \in 1 .. g /\ f[h] # SubSeq(v, 1, h)
  BY <1>3
<1>5. f[h] = IF h = 1 THEN <<v[h]>> ELSE f[h - 1] \o <<v[h]>>
  BY <1>0, <1>4 DEF IsFlat
<1>6. PICK e : IsFlat(e, s, g)
  BY FlatExists
<1>7. CASE h = 1
  <2>1. SubSeq(v, 1, 1) \in Seq(Nat) /\ Len(SubSeq(v, 1, 1)) = 1 /\ \A q \in 1 .. 1 : SubSeq(v, 1, 1)[q] = v[q]
    BY <1>0, <1>4, <1>7, PrefixIs
  <2>2. <<v[1]>> \in Seq(Nat) /\ Len(<<v[1]>>) = 1 /\ \A q \in 1 .. 1 : <<v[1]>>[q] = v[q]
    <3>1. v[1] \in Nat
      BY <1>0, <1>4, <1>7, ElementOfSeq
    <3> QED BY <3>1
  <2>3. SubSeq(v, 1, 1) = <<v[1]>>
    BY <2>1, <2>2, SeqEqual
  <2> QED BY <1>4, <1>5, <1>7, <2>3
<1>8. CASE h # 1
  <2>1. h - 1 \in 1 .. g /\ j + 1 \in 0 .. g /\ g - (j + 1) = h - 1 /\ ~ (j + 1 <= j)
    BY ONLY <1>0, <1>3, <1>4, <1>8
  <2>2. j + 1 \notin S
    BY <1>2, <2>1
  <2>3. f[h - 1] = SubSeq(v, 1, h - 1)
    BY <2>1, <2>2
  <2>4. SubSeq(v, 1, h) = SubSeq(v, 1, h - 1) \o <<v[h]>>
    BY <1>0, <1>4, <1>8, PrefixNext
  <2> QED BY <1>4, <1>5, <1>8, <2>3, <2>4
<1> QED BY <1>7, <1>8

LEMMA FlattenSingles ==
    ASSUME NEW v, NEW s, NEW g, Singly(v, s, g)
    PROVE  FlattenSeq(s) = v
<1>1. v \in Seq(Nat) /\ g = Len(v) /\ s = [k \in 1 .. g |-> <<v[k]>>] /\ g \in Nat
  BY LenProperties DEF Singly
<1>2. Len(s) = g
  BY <1>1
<1>3. CASE g = 0
  <2>1. v = << >> /\ s = << >>
    <3>1. Len(v) = 0 /\ s \in Seq(Seq(Nat)) /\ Len(s) = 0
      BY <1>1, <1>2, <1>3
    <3> QED BY <1>1, <3>1, EmptySeq
  <2> QED BY <1>2, <1>3, <2>1, FlattenNone
<1>4. CASE g # 0
  <2> DEFINE f == CHOOSE f : IsFlat(f, s, g)
  <2>1. IsFlat(f, s, g)
    BY FlatExists
  <2>2. FlattenSeq(s) = f[g]
    BY <1>2, <1>4, FlattenDef
  <2> HIDE DEF f
  <2>3. g \in 1 .. g
    BY ONLY <1>1, <1>4
  <2>4. f[g] = SubSeq(v, 1, g)
    BY <2>1, <2>3, FlatIs
  <2>5. SubSeq(v, 1, g) = v
    BY <1>1, SubSeqFull
  <2> QED BY <2>2, <2>4, <2>5
<1> QED BY <1>3, <1>4

\* No string that is put in has a code point of two units; the hypothesis of the
\* theorems.  Those of docs/PATCH-RECIPES.md are ASCII.
NoAstral == \A v \in Values : \A k \in DOMAIN v : v[k] \notin Astral

\* A string without code points of two units is encoded as it is.
LEMMA EncodeIs == ASSUME NoAstral, NEW v \in Values PROVE v \in Seq(Nat) /\ Encode(v) = v
<1>1. v \in Seq(Nat)
  BY AxmlAssumption
<1> DEFINE s == [k \in DOMAIN v |-> IF v[k] \in Astral THEN <<v[k], v[k]>> ELSE <<v[k]>>]
<1>2. PICK g : g = Len(v)
  OBVIOUS
<1>3. s = [k \in 1 .. g |-> <<v[k]>>]
  <2>1. DOMAIN v = 1 .. g
    BY <1>1, <1>2, LenProperties
  <2>2. \A k \in 1 .. g : v[k] \notin Astral
    BY <2>1 DEF NoAstral
  <2> QED BY <2>1, <2>2
<1>4. Encode(v) = FlattenSeq(s)
  BY DEF Encode
<1> HIDE DEF s
<1>5. Singly(v, s, g)
  BY <1>1, <1>2, <1>3 DEF Singly
<1> QED BY <1>1, <1>4, <1>5, FlattenSingles

-----------------------------------------------------------------------------
(* The lists of strings and nodes.                                         *)

StringsOf(d, p) == [i \in 1 .. p.count |-> ReadString(d, p, i - 1)]

LEMMA IndexIs == ASSUME NEW n \in Nat, NEW i \in 1 .. n PROVE i - 1 \in 0 .. n - 1 /\ (i - 1) + 1 = i
OBVIOUS

\* A string is as long as its length cell says.
LEMMA StringType ==
    ASSUME NEW d, NEW p, NEW c, Tidy(d, p, c), NEW i \in 0 .. p.count - 1
    PROVE  /\ ReadString(d, p, i) \in Seq(Nat) /\ Len(ReadString(d, p, i)) = Cell(d, StringAt(d, p, i))
<1>1. PICK b, n : b = StringAt(d, p, i) /\ n = Cell(d, b)
  OBVIOUS
<1>2. b \in Nat /\ n \in Nat /\ StringEnd(d, p, i) = b + n + 1 /\ StringEnd(d, p, i) < p.next
  BY <1>1, StringIs
<1>3. d \in Seq(Nat) /\ Len(d) \in Nat /\ p.next \in Nat /\ p.next + 4 <= Len(d)
  BY PoolBounds
<1>4. b + n + 1 < Len(d)
  <2>1. PICK N : N = Len(d)
    OBVIOUS
  <2>2. b \in Nat /\ n \in Nat /\ N \in Nat /\ p.next \in Nat /\ b + n + 1 < p.next /\ p.next + 4 <= N
    BY <1>2, <1>3, <2>1
  <2>3. b + n + 1 < N
    BY ONLY <2>2
  <2> QED BY <2>1, <2>3
<1>5. TextAt(d, b) \in Seq(Nat) /\ Len(TextAt(d, b)) = n
  BY <1>1, <1>2, <1>3, <1>4, TextIs
<1> QED BY <1>1, <1>5, ReadIs

\* The list of strings after a step that has changed none, one, or added one.
LEMMA StringsSame ==
    ASSUME NEW d, NEW p, NEW e, p.count \in Nat, SameStrings(d, e, p)
    PROVE  StringsOf(e, p) = StringsOf(d, p)
<1>1. \A i \in 1 .. p.count : i - 1 \in 0 .. p.count - 1
  BY IndexIs
<1>2. \A i \in 1 .. p.count : ReadString(e, p, i - 1) = ReadString(d, p, i - 1)
  BY <1>1 DEF SameStrings
<1> QED BY <1>2 DEF StringsOf

LEMMA StringsOneNew ==
    ASSUME NEW d, NEW p, NEW e, p.count \in Nat, NEW i \in 0 .. p.count - 1, NEW v, OneString(d, e, p, i, v)
    PROVE  StringsOf(e, p) = [StringsOf(d, p) EXCEPT ![i + 1] = v]
<1>1. \A j \in 1 .. p.count : j - 1 \in 0 .. p.count - 1 /\ (j # i + 1 => j - 1 # i) /\ (j = i + 1 => j - 1 = i)
  <2> TAKE j \in 1 .. p.count
  <2>1. i \in Nat
    BY ONLY p.count \in Nat, i \in 0 .. p.count - 1
  <2> QED BY ONLY <2>1, p.count \in Nat, j \in 1 .. p.count
<1>2. ASSUME NEW j \in 1 .. p.count
      PROVE  ReadString(e, p, j - 1) = IF j = i + 1 THEN v ELSE ReadString(d, p, j - 1)
  BY <1>1 DEF OneString
<1> QED BY <1>2 DEF StringsOf

LEMMA StringsGrown ==
    ASSUME NEW d, NEW p, NEW c, NEW v, NEW A, NEW e, Growing(d, p, c, v, A, e), NEW r, r = Newer(p, A)
    PROVE  StringsOf(e, r) = Append(StringsOf(d, p), v)
<1> DEFINE s == StringsOf(d, p)
           t == StringsOf(e, r)
           n == p.count
<1>1. Tidy(d, p, c) /\ v \in Seq(Nat)
  BY DEF Growing
<1>2. n \in Nat
  BY <1>1, PoolBounds
<1>3. r.count = n + 1
  BY DEF Newer
<1>4. ASSUME NEW i \in 1 .. n PROVE s[i] \in Seq(Nat) /\ t[i] = s[i] /\ i \in 1 .. n + 1
  <2>1. i - 1 \in 0 .. n - 1 /\ i \in 1 .. n + 1
    BY ONLY <1>2, i \in 1 .. n
  <2>2. ReadString(d, p, i - 1) \in Seq(Nat)
    BY <1>1, <2>1, StringType
  <2>3. ReadString(e, r, i - 1) = ReadString(d, p, i - 1)
    BY <2>1, OldStrings
  <2> QED BY <1>3, <2>1, <2>2, <2>3 DEF StringsOf
<1>5. t[n + 1] = v
  <2>1. n + 1 \in 1 .. n + 1 /\ (n + 1) - 1 = n
    BY ONLY <1>2
  <2>2. ReadString(e, r, n) = v
    BY NewString
  <2> QED BY <1>3, <2>1, <2>2 DEF StringsOf
<1>6. s = [i \in 1 .. n |-> s[i]] /\ t = [i \in 1 .. n + 1 |-> t[i]]
  BY <1>3 DEF StringsOf
<1> HIDE DEF s, t, n
<1>7. s \in Seq(Seq(Nat)) /\ Len(s) = n
  <2>1. s \in [1 .. n -> Seq(Nat)]
    BY <1>4, <1>6
  <2> QED BY ONLY <1>2, <2>1
<1>9. PICK g : g = n + 1
  OBVIOUS
<1>10. g \in Nat
  BY ONLY <1>2, <1>9
<1>11. t \in Seq(Seq(Nat)) /\ Len(t) = g
  <2>1. \A i \in 1 .. g : t[i] \in Seq(Nat)
    <3> TAKE i \in 1 .. g
    <3>1. i \in 1 .. n \/ i = n + 1
      BY ONLY <1>2, <1>9, i \in 1 .. g
    <3> QED BY <1>1, <1>4, <1>5, <3>1
  <2>2. t \in [1 .. g -> Seq(Nat)]
    BY <1>6, <1>9, <2>1
  <2> QED BY <1>10, <2>2
<1>12. /\ Append(s, v) \in Seq(Seq(Nat)) /\ Len(Append(s, v)) = g
       /\ \A i \in 1 .. n : Append(s, v)[i] = s[i]
       /\ Append(s, v)[n + 1] = v
  BY <1>1, <1>7, <1>9, AppendProperties
<1>13. ASSUME NEW i \in 1 .. g PROVE t[i] = Append(s, v)[i]
  <2>1. i \in 1 .. n \/ i = n + 1
    BY ONLY <1>2, <1>9, i \in 1 .. g
  <2> QED BY <1>4, <1>5, <1>12, <2>1
<1>14. t = Append(s, v)
  BY <1>11, <1>12, <1>13, SeqEqual
<1> QED BY <1>14 DEF s, t

\* The list of nodes after one attribute was set.
LEMMA NodesOneSet ==
    ASSUME NEW d, NEW c, NEW e, NEW k, NEW a, NEW v, OneSet(d, e, c, k, a, v)
    PROVE  NodesOf(e, c) = [NodesOf(d, c) EXCEPT ![k].attrs[a].data = v]
<1>1. ASSUME NEW j \in 1 .. Len(c)
      PROVE  Node(e, c[j]) = IF j = k THEN [Node(d, c[k]) EXCEPT !.attrs[a].data = v] ELSE Node(d, c[j])
  BY DEF SameNodes, OneSet
<1>2. DOMAIN c = 1 .. Len(c) /\ k \in 1 .. Len(c)
  BY DEF OneSet
<1> QED BY <1>1, <1>2 DEF NodesOf

-----------------------------------------------------------------------------
(* The steps.                                                              *)

AxmlIInv == AsWritten(data) /\ pool = ParseStringPool(data)

LEMMA InvTidy == AxmlIInv => Tidy(data, pool, Chunks(data, pool))
BY TidyIs DEF AxmlIInv

LEMMA ListsAre == Strings = StringsOf(data, pool) /\ Nodes = NodesOf(data, Chunks(data, pool))
BY DEF Strings, Nodes, StringsOf, NodesOf

\* Whatever chunks a tidy file has, they are those that the next operation finds.
LEMMA TidyInv ==
    ASSUME NEW c, Tidy(data', pool', c)
    PROVE  AxmlIInv' /\ Strings' = StringsOf(data', pool') /\ Nodes' = NodesOf(data', c)
<1>1. AsWritten(data') /\ Chunks(data', pool') = c
  BY TidyIs
<1>2. pool' = ParseStringPool(data')
  BY DEF Tidy
<1>3. Strings' = StringsOf(data', pool') /\ Nodes' = NodesOf(data', Chunks(data', pool'))
  BY DEF Strings, Nodes, StringsOf, NodesOf
<1> QED BY <1>1, <1>2, <1>3 DEF AxmlIInv

LEMMA InitInv == AxmlInit => AxmlIInv
BY AxmlAssumption DEF AxmlInit, AxmlIInv

\* append_string, one step of the tool.
LEMMA AppendIs ==
    ASSUME NoAstral, NEW v \in Values, AppendString(v), AxmlIInv, NEW c, c = Chunks(data, pool)
    PROVE  \E A : Growing(data, pool, c, v, A, data') /\ pool' = Newer(pool, A)
<1>1. v \in Seq(Nat) /\ Encode(v) = v
  BY EncodeIs
<1>2. Tidy(data, pool, c)
  BY InvTidy
<1>3. PICK f : f = <<Len(v)>> \o v \o << 0 >>
  OBVIOUS
<1>4. PICK z : z = Pad(2 + Len(f))
  OBVIOUS
<1>5. PICK x : x = f \o z
  OBVIOUS
<1>6. PICK w : w = pool.next - pool.start
  OBVIOUS
<1>7. Len(<<w, 0>>) = 2
  OBVIOUS
<1>8. PICK A : A = 2 + Len(f) + Len(z)
  OBVIOUS
<1>9. /\ data' = Resized(PoolHeader(Splice(Splice(data, pool.start, <<w, 0>>), pool.next + 2, x), A), A)
      /\ pool' = ParseStringPool(data')
  BY <1>1, <1>3, <1>4, <1>5, <1>6, <1>7, <1>8 DEF AppendString
<1>10. A = Len(x) + 2
  <2>1. Len(v) \in Nat
    BY <1>1, LenProperties
  <2>2. f \in Seq(Nat)
    BY <1>1, <1>3, <2>1
  <2>3. Len(f) \in Nat
    BY <2>2, LenProperties
  <2>4. PICK m : m = 2 + Len(f)
    OBVIOUS
  <2>5. m \in Nat
    BY ONLY <2>3, <2>4
  <2>6. z \in Seq(Nat)
    BY <1>4, <2>4, <2>5, PadIs
  <2>7. Len(x) = Len(f) + Len(z) /\ Len(z) \in Nat
    BY <1>5, <2>2, <2>6, Joined, LenProperties
  <2>8. PICK a, b : a = Len(f) /\ b = Len(z)
    OBVIOUS
  <2>9. a \in Nat /\ b \in Nat /\ A = 2 + a + b /\ Len(x) = a + b
    BY <1>8, <2>3, <2>7, <2>8
  <2>10. 2 + a + b = a + b + 2
    BY ONLY <2>9
  <2> QED BY <2>9, <2>10
<1>11. data' = Appended(data, pool, w, x)
  <2>1. 4 + 4 = 8 /\ 4 + 2 = 6 /\ 4 + 10 = 14
    OBVIOUS
  <2> QED BY <1>9, <1>10, <2>1 DEF Appended, PoolHeader, PoolOff
<1>12. Growing(data, pool, c, v, A, data')
  BY <1>1, <1>2, <1>3, <1>4, <1>5, <1>6, <1>10, <1>11, GrowingIs
<1>13. pool' = Newer(pool, A)
  BY <1>9, <1>12, NewPool
<1> QED BY <1>12, <1>13

\* Every operation keeps the invariant and is the edit that its name says.
LEMMA AppendStep ==
    ASSUME NoAstral, NEW v \in Values, AppendString(v), AxmlIInv
    PROVE  AxmlIInv' /\ Manifest!AppendString(v)
<1>1. PICK c : c = Chunks(data, pool)
  OBVIOUS
<1>2. PICK A : Growing(data, pool, c, v, A, data') /\ pool' = Newer(pool, A)
  BY <1>1, AppendIs
<1>3. PICK cc : cc = Moved(c, A)
  OBVIOUS
<1>4. Tidy(data', pool', cc) /\ NodesOf(data', cc) = NodesOf(data, c)
  BY <1>2, <1>3, GrownTidy
<1>5. StringsOf(data', pool') = Append(StringsOf(data, pool), v)
  BY <1>2, StringsGrown
<1>6. AxmlIInv' /\ Strings' = StringsOf(data', pool') /\ Nodes' = NodesOf(data', cc)
  BY <1>4, TidyInv
<1>7. Strings = StringsOf(data, pool) /\ Nodes = NodesOf(data, c)
  BY <1>1, ListsAre
<1>8. Strings' = Append(Strings, Encode(v)) /\ Nodes' = Nodes
  BY <1>4, <1>5, <1>6, <1>7, EncodeIs
<1> QED BY <1>6, <1>8 DEF Manifest!AppendString

LEMMA OverwriteStep ==
    ASSUME NoAstral, NEW v \in Values, NEW i \in Indices, Overwrite(i, v), AxmlIInv
    PROVE  AxmlIInv' /\ i + 1 \in DOMAIN Strings /\ Manifest!Overwrite(i + 1, v)
<1>1. PICK c : c = Chunks(data, pool)
  OBVIOUS
<1>2. v \in Seq(Nat) /\ Encode(v) = v
  BY EncodeIs
<1>3. Tidy(data, pool, c) /\ i \in 0 .. pool.count - 1
  BY <1>1, InvTidy DEF Indices
<1>4. pool.count \in Nat
  BY <1>3, PoolBounds
<1>5. PICK b : b = StringAt(data, pool, i)
  OBVIOUS
<1>6. Len(v) = Len(ReadString(data, pool, i)) /\ Len(v) = Cell(data, b)
  BY <1>3, <1>5, StringType DEF Overwrite, SameLength
<1>7. data' = [k \in DOMAIN data |-> IF k - 1 \in b + 1 .. b + 1 + Len(v) - 1 THEN v[k - (b + 1)] ELSE data[k]]
  BY <1>2, <1>5 DEF Overwrite
<1>8. pool' = pool
  BY DEF Overwrite
<1>9. /\ Tidy(data', pool, c) /\ OneString(data, data', pool, i, v)
      /\ \A k \in 1 .. Len(c) : Node(data', c[k]) = Node(data, c[k])
  <2>1. Overwriting(data, pool, c, i, v, b, data')
    BY <1>2, <1>3, <1>5, <1>6, <1>7 DEF Overwriting
  <2> QED BY <2>1, Overwritten
<1>10. AxmlIInv' /\ Strings' = StringsOf(data', pool) /\ Nodes' = NodesOf(data', c)
  BY <1>8, <1>9, TidyInv
<1>11. StringsOf(data', pool) = [StringsOf(data, pool) EXCEPT ![i + 1] = v]
  BY <1>3, <1>4, <1>9, StringsOneNew
<1>12. NodesOf(data', c) = NodesOf(data, c)
  <2>1. DOMAIN c = 1 .. Len(c)
    BY <1>3, PoolBounds, LenProperties
  <2> QED BY <1>9, <2>1 DEF NodesOf
<1>13. Strings = StringsOf(data, pool) /\ Nodes = NodesOf(data, c)
  BY <1>1, ListsAre
<1>14. i + 1 \in 1 .. pool.count /\ (i + 1) - 1 = i
  BY ONLY <1>3, <1>4
<1>15. DOMAIN Strings = 1 .. pool.count /\ Strings[i + 1] = ReadString(data, pool, i)
  BY <1>13, <1>14 DEF StringsOf
<1>16. /\ Len(Encode(v)) = Len(Strings[i + 1])
       /\ Strings' = [Strings EXCEPT ![i + 1] = Encode(v)] /\ Nodes' = Nodes
  BY <1>2, <1>6, <1>10, <1>11, <1>12, <1>13, <1>15
<1> QED BY <1>10, <1>14, <1>15, <1>16 DEF Manifest!Overwrite

LEMMA SetAttrStep ==
    ASSUME NEW o \in ToSet(Chunks(data, pool)), NEW a \in 1 .. 2, NEW v \in Data, SetAttr(o, a, v), AxmlIInv
    PROVE  /\ AxmlIInv'
           /\ \E k \in DOMAIN Nodes : a \in DOMAIN Nodes[k].attrs /\ Manifest!SetAttr(k, a, v + 1)
<1>1. PICK c : c = Chunks(data, pool)
  OBVIOUS
<1>2. Tidy(data, pool, c)
  BY <1>1, InvTidy
<1>3. c \in Seq(Nat) /\ DOMAIN c = 1 .. Len(c)
  BY <1>2, PoolBounds, LenProperties
<1>4. PICK k \in 1 .. Len(c) : o = c[k]
  BY <1>1, <1>3 DEF ToSet
<1>5. v \in Nat
  BY AxmlAssumption
<1>6. Cell(data, c[k]) = StartType
  BY <1>4 DEF SetAttr
<1>7. a \in 1 .. Cell(data, Ext(c[k]) + 6)
  <2>1. a <= Cell(data, Ext(c[k]) + 6)
    BY <1>4 DEF SetAttr
  <2>2. Cell(data, Ext(c[k]) + 6) \in Nat
    <3>1. PICK n : n = Cell(data, c[k] + 2)
      OBVIOUS
    <3>2. data \in Seq(Nat) /\ c[k] \in Nat /\ n \in Nat /\ c[k] + n <= Len(data) /\ NodeAsWritten(data, pool, c[k])
      BY <1>2, <3>1, ChunkBounds, PoolBounds
    <3> QED BY <1>6, <3>1, <3>2, StartIs
  <2>3. PICK m : m = Cell(data, Ext(c[k]) + 6)
    OBVIOUS
  <2>4. a <= m /\ m \in Nat
    BY <2>1, <2>2, <2>3
  <2>5. a \in 1 .. m
    BY ONLY <2>4, a \in 1 .. 2
  <2> QED BY <2>3, <2>5
<1>8. data' = Put(data, AttrRec(data, c[k], a) + 8, v) /\ pool' = pool
  BY <1>4 DEF SetAttr
<1>9. /\ Tidy(data', pool, c) /\ SameStrings(data, data', pool)
      /\ NodesOf(data', c) = [NodesOf(data, c) EXCEPT ![k].attrs[a].data = v + 1]
  <2>1. AttrSetting(data, pool, c, k, a, v, data')
    BY <1>2, <1>5, <1>6, <1>7, <1>8 DEF AttrSetting
  <2>2. Tidy(data', pool, c) /\ SameStrings(data, data', pool) /\ OneSet(data, data', c, k, a, v + 1)
    BY <2>1, AttrSet
  <2>3. NodesOf(data', c) = [NodesOf(data, c) EXCEPT ![k].attrs[a].data = v + 1]
    BY <2>2, NodesOneSet
  <2> QED BY <2>2, <2>3
<1>10. AxmlIInv' /\ Strings' = StringsOf(data', pool) /\ Nodes' = NodesOf(data', c)
  BY <1>8, <1>9, TidyInv
<1>11. Strings = StringsOf(data, pool) /\ Nodes = NodesOf(data, c)
  BY <1>1, ListsAre
<1>12. StringsOf(data', pool) = StringsOf(data, pool)
  <2>1. pool.count \in Nat
    BY <1>2, PoolBounds
  <2> QED BY <1>9, <2>1, StringsSame
<1>14. /\ k \in DOMAIN Nodes /\ Nodes[k].kind = "start" /\ a \in DOMAIN Nodes[k].attrs
  <2>1. k \in DOMAIN Nodes /\ Nodes[k] = Node(data, c[k])
    BY <1>3, <1>11 DEF NodesOf
  <2>2. Node(data, c[k]) =
             [kind |-> "start", name |-> Cell(data, Ext(c[k]) + 2) + 1,
              attrs |-> [b \in 1 .. Cell(data, Ext(c[k]) + 6) |->
                [raw |-> Cell(data, AttrRec(data, c[k], b) + 4) + 1, data |-> Cell(data, AttrRec(data, c[k], b) + 8) + 1]]]
    BY <1>6, StartNode
  <2> QED BY <1>7, <2>1, <2>2
<1>15. Manifest!SetAttr(k, a, v + 1)
  BY <1>9, <1>10, <1>11, <1>12, <1>14 DEF Manifest!SetAttr
<1> QED BY <1>10, <1>14, <1>15

LEMMA KindIs ==
    ASSUME NEW d, NEW o
    PROVE  /\ Node(d, o).kind = "start" <=> Cell(d, o) = StartType
           /\ Node(d, o).kind = "end" <=> Cell(d, o) = EndType
           /\ Cell(d, o) = StartType => Node(d, o).name = Cell(d, Ext(o) + 2) + 1
<1>1. StartType # EndType
  BY DEF StartType, EndType
<1> QED BY <1>1 DEF Node

\* The element that find_start_element takes is the leaf of that name, and there
\* is no leaf of that name in front of it.
LEMMA LeafIs ==
    ASSUME AxmlIInv, NEW c, c = Chunks(data, pool), NEW k \in 1 .. Len(c)
    PROVE  IsLeaf(c[k], Tag) <=> Manifest!Leaf(k)
<1>1. Tidy(data, pool, c)
  BY InvTidy
<1>2. /\ c \in Seq(Nat) /\ DOMAIN c = 1 .. Len(c) /\ Len(c) \in Nat /\ pool.count \in Nat
      /\ data \in Seq(Nat) /\ Cell(data, c[Len(c)]) # StartType
  BY <1>1, PoolBounds, LenProperties DEF Tidy
<1>3. Strings = StringsOf(data, pool) /\ Nodes = NodesOf(data, c)
  BY ListsAre
<1>4. Len(Nodes) = Len(c) /\ \A j \in 1 .. Len(c) : Nodes[j] = Node(data, c[j])
  <2>1. Nodes = [j \in 1 .. Len(c) |-> Node(data, c[j])]
    BY <1>2, <1>3 DEF NodesOf
  <2>2. PICK Z : Z = Len(c)
    OBVIOUS
  <2>3. Len(Nodes) = Z
    BY <1>2, <2>1, <2>2
  <2> QED BY <2>1, <2>2, <2>3
<1>5. CASE Cell(data, c[k]) # StartType
  <2>1. Nodes[k].kind # "start"
    BY <1>4, <1>5, KindIs
  <2> QED BY <1>5, <2>1 DEF IsLeaf, Manifest!Leaf
<1>6. CASE Cell(data, c[k]) = StartType
  <2>1. Nodes[k].kind = "start" /\ Nodes[k].name = Cell(data, Ext(c[k]) + 2) + 1
    BY <1>4, <1>6, KindIs
  <2>2. k # Len(c)
    BY <1>2, <1>6
  <2>3. k < Len(c) /\ k + 1 \in 1 .. Len(c)
    <3>1. PICK Z : Z = Len(c)
      OBVIOUS
    <3>2. Z \in Nat /\ k \in 1 .. Z /\ k # Z
      BY <1>2, <2>2, <3>1
    <3>3. k < Z /\ k + 1 \in 1 .. Z
      BY ONLY <3>2
    <3> QED BY <3>1, <3>3
  <2>4. PICK n : n = Cell(data, c[k] + 2)
    OBVIOUS
  <2>5. /\ c[k] \in Nat /\ n \in Nat /\ c[k] + n <= Len(data) /\ c[k] + n = c[k + 1]
        /\ NodeAsWritten(data, pool, c[k])
    BY <1>1, <2>2, <2>4, ChunkBounds
  <2>6. Cell(data, Ext(c[k]) + 2) \in Nat /\ Cell(data, Ext(c[k]) + 2) < pool.count
    BY <1>2, <1>6, <2>4, <2>5, StartIs
  <2>7. Strings[Nodes[k].name] = ReadString(data, pool, Cell(data, Ext(c[k]) + 2))
    <3>1. PICK i : i = Cell(data, Ext(c[k]) + 2)
      OBVIOUS
    <3>2. i \in Nat /\ i < pool.count
      BY <2>6, <3>1
    <3>3. i + 1 \in 1 .. pool.count /\ (i + 1) - 1 = i
      BY ONLY <1>2, <3>2
    <3> QED BY <1>3, <2>1, <3>1, <3>3 DEF StringsOf
  <2>8. Nodes[k + 1].kind = "end" <=> Cell(data, c[k + 1]) = EndType
    BY <1>4, <2>3, KindIs
  <2>9. Cell(data, c[k] + Cell(data, c[k] + 2)) = Cell(data, c[k + 1])
    BY <2>4, <2>5
  <2> QED BY <1>4, <1>6, <2>1, <2>3, <2>7, <2>8, <2>9 DEF IsLeaf, Manifest!Leaf
<1> QED BY <1>5, <1>6

\* duplicate_uses_permission, one step of the tool.
LEMMA DuplicateIs ==
    ASSUME NEW i \in Indices, Duplicate(i), AxmlIInv, NEW c, c = Chunks(data, pool)
    PROVE  \E k \in 1 .. Len(c) :
                /\ \E n, m, r : Copying(data, pool, c, k, n, m, r, i, data')
                /\ pool' = pool
                /\ IsLeaf(c[k], Tag) /\ \A j \in 1 .. k - 1 : ~ IsLeaf(c[j], Tag)
<1>1. Tidy(data, pool, c)
  BY InvTidy
<1>2. /\ c \in Seq(Nat) /\ DOMAIN c = 1 .. Len(c) /\ Len(c) \in Nat /\ pool.count \in Nat
      /\ Cell(data, c[Len(c)]) # StartType
  BY <1>1, PoolBounds, LenProperties DEF Tidy
<1>3. i \in Nat
  BY <1>2 DEF Indices
<1>4. PICK o \in FindStartElement(Tag) :
        LET end == o + Cell(data, o + 2)
            after == end + Cell(data, end + 2)
            rec == AttrRec(data, o, 1) - o
            elem == Put(Put(SubSeq(data, o + 1, after), rec + 4, i), rec + 8, i)
        IN /\ Cell(data, Ext(o) + 6) = 1
           /\ data' = Resized(Splice(data, after, elem), Len(elem))
           /\ UNCHANGED pool
  BY DEF Duplicate
<1>5. PICK k \in 1 .. Len(c) : o = c[k] /\ IsLeaf(c[k], Tag) /\ \A j \in 1 .. k - 1 : ~ IsLeaf(c[j], Tag)
  BY <1>2, <1>4 DEF FindStartElement
<1>6. /\ Cell(data, c[k]) = StartType /\ Cell(data, c[k] + Cell(data, c[k] + 2)) = EndType
  BY <1>5 DEF IsLeaf
<1>7. k # Len(c)
  BY <1>2, <1>6
<1>8. k < Len(c) /\ k + 1 \in 1 .. Len(c)
  <2>1. PICK Z : Z = Len(c)
    OBVIOUS
  <2>2. Z \in Nat /\ k \in 1 .. Z /\ k # Z
    BY <1>2, <1>7, <2>1
  <2>3. k < Z /\ k + 1 \in 1 .. Z
    BY ONLY <2>2
  <2> QED BY <2>1, <2>3
<1>9. PICK n : n = Cell(data, c[k] + 2)
  OBVIOUS
<1>10. PICK m : m = Cell(data, c[k + 1] + 2)
  OBVIOUS
<1>11. PICK r : r = AttrRec(data, c[k], 1) - c[k]
  OBVIOUS
<1>12. c[k] \in Nat /\ n \in Nat /\ c[k] + n = c[k + 1]
  BY <1>1, <1>7, <1>9, ChunkBounds
<1>13. m \in Nat
  BY <1>1, <1>8, <1>10, ChunkBounds
<1>14. PICK after : after = c[k] + (n + m)
  OBVIOUS
<1>15. c[k + 1] + Cell(data, c[k + 1] + 2) = after
  <2>1. PICK x : x = c[k]
    OBVIOUS
  <2>2. x \in Nat /\ n \in Nat /\ m \in Nat /\ after = x + (n + m)
    BY <1>12, <1>13, <1>14, <2>1
  <2>3. x + n + m = after
    BY ONLY <2>2
  <2> QED BY <1>10, <1>12, <2>1, <2>3
<1>16. PICK x : x = CopyOf(data, c[k], after, r, i)
  OBVIOUS
<1>17. /\ Cell(data, Ext(c[k]) + 6) = 1
       /\ data' = Resized(Splice(data, after, x), Len(x)) /\ pool' = pool
  BY <1>4, <1>5, <1>9, <1>11, <1>12, <1>15, <1>16 DEF CopyOf
<1>18. Cell(data, c[k + 1]) = EndType
  BY <1>6, <1>9, <1>12
<1>19. Copying(data, pool, c, k, n, m, r, i, data')
  BY <1>1, <1>3, <1>6, <1>8, <1>9, <1>10, <1>11, <1>14, <1>16, <1>17, <1>18 DEF Copying
<1> QED BY <1>5, <1>17, <1>19

LEMMA DuplicateStep ==
    ASSUME NEW i \in Indices, Duplicate(i), AxmlIInv
    PROVE  AxmlIInv' /\ i + 1 \in DOMAIN Strings /\ Manifest!Duplicate(i + 1)
<1>1. PICK c : c = Chunks(data, pool)
  OBVIOUS
<1>2. Tidy(data, pool, c)
  BY <1>1, InvTidy
<1>3. /\ c \in Seq(Nat) /\ DOMAIN c = 1 .. Len(c) /\ Len(c) \in Nat /\ pool.count \in Nat
  BY <1>2, PoolBounds, LenProperties
<1>4a. PICK k \in 1 .. Len(c) :
                /\ \E n, m, r : Copying(data, pool, c, k, n, m, r, i, data')
                /\ pool' = pool
                /\ IsLeaf(c[k], Tag) /\ \A j \in 1 .. k - 1 : ~ IsLeaf(c[j], Tag)
  BY <1>1, DuplicateIs
<1>4b. PICK n, m, r : Copying(data, pool, c, k, n, m, r, i, data')
  BY <1>4a
<1>4. /\ Copying(data, pool, c, k, n, m, r, i, data') /\ pool' = pool
      /\ IsLeaf(c[k], Tag) /\ \A j \in 1 .. k - 1 : ~ IsLeaf(c[j], Tag)
  BY <1>4a, <1>4b
<1>5. PICK cc : cc = Longer(c, k, n + m)
  OBVIOUS
<1>6. Tidy(data', pool, cc) /\ SameStrings(data, data', pool)
  BY <1>4, <1>5, CopyTidy
<1>7. NodesOf(data', cc) = CopyIn(NodesOf(data, c), k, WithValue(NodesOf(data, c)[k], i + 1))
  BY <1>4, <1>5, CopyList
<1>8. AxmlIInv' /\ Strings' = StringsOf(data', pool) /\ Nodes' = NodesOf(data', cc)
  BY <1>4, <1>6, TidyInv
<1>9. Strings = StringsOf(data, pool) /\ Nodes = NodesOf(data, c)
  BY <1>1, ListsAre
<1>10. Strings' = Strings
  BY <1>3, <1>6, <1>8, <1>9, StringsSame
<1>11. Nodes' = CopyIn(Nodes, k, WithValue(Nodes[k], i + 1))
  BY <1>7, <1>8, <1>9
<1>12. k \in DOMAIN Nodes /\ Nodes[k] = Node(data, c[k])
  BY <1>3, <1>9 DEF NodesOf
<1>13. Manifest!Leaf(k)
  BY <1>1, <1>4, LeafIs
<1>14. ASSUME NEW j \in 1 .. k - 1 PROVE ~ Manifest!Leaf(j)
  <2>1. j \in 1 .. Len(c)
    BY ONLY <1>3, k \in 1 .. Len(c), j \in 1 .. k - 1
  <2> QED BY <1>1, <1>4, <2>1, LeafIs
<1>15. Len(Nodes[k].attrs) = 1
  <2>1. Cell(data, c[k]) = StartType /\ Cell(data, Ext(c[k]) + 6) = 1
    BY <1>4 DEF Copying
  <2>2. Nodes[k].attrs = [a \in 1 .. 1 |->
            [raw |-> Cell(data, AttrRec(data, c[k], a) + 4) + 1, data |-> Cell(data, AttrRec(data, c[k], a) + 8) + 1]]
    BY <1>12, <2>1, StartNode
  <2> QED BY <2>2
<1>16. i + 1 \in DOMAIN Strings
  <2>1. i \in 0 .. pool.count - 1
    BY DEF Indices
  <2>2. i + 1 \in 1 .. pool.count
    BY ONLY <1>3, <2>1
  <2> QED BY <1>9, <2>2 DEF StringsOf
<1>17. Manifest!Duplicate(i + 1)
  BY <1>10, <1>11, <1>12, <1>13, <1>14, <1>15 DEF Manifest!Duplicate, CopyIn, WithValue
<1> QED BY <1>8, <1>16, <1>17

-----------------------------------------------------------------------------
(* The theorems.                                                           *)

\* Together: every step keeps the invariant and is an edit of the manifest, or
\* changes nothing.
LEMMA AxmlStep ==
    ASSUME NoAstral
    PROVE  AxmlIInv /\ [AxmlNext]_axmlVars => AxmlIInv' /\ [Manifest!Next]_(Manifest!vars)
<1> SUFFICES ASSUME AxmlIInv, [AxmlNext]_axmlVars
             PROVE  AxmlIInv' /\ [Manifest!Next]_(Manifest!vars)
  OBVIOUS
<1>1. ASSUME NEW v \in Values, AppendString(v) PROVE AxmlIInv' /\ Manifest!Next
  BY <1>1, AppendStep DEF Manifest!Next
<1>2. ASSUME NEW v \in Values, NEW i \in Indices, Overwrite(i, v) PROVE AxmlIInv' /\ Manifest!Next
  BY <1>2, OverwriteStep DEF Manifest!Next
<1>3. ASSUME NEW i \in Indices, Duplicate(i) PROVE AxmlIInv' /\ Manifest!Next
  BY <1>3, DuplicateStep DEF Manifest!Next
<1>4. ASSUME NEW o \in ToSet(Chunks(data, pool)), NEW a \in 1 .. 2, NEW v \in Data, SetAttr(o, a, v)
      PROVE  AxmlIInv' /\ Manifest!Next
  BY <1>4, SetAttrStep DEF Manifest!Next
<1>5. CASE UNCHANGED axmlVars
  <2>1. data' = data /\ pool' = pool
    BY <1>5 DEF axmlVars
  <2>2. AxmlIInv'
    BY <2>1 DEF AxmlIInv
  <2>3. Strings' = Strings /\ Nodes' = Nodes
    BY <2>1 DEF Strings, Nodes
  <2> QED BY <2>2, <2>3 DEF Manifest!vars
<1> QED BY <1>1, <1>2, <1>3, <1>4, <1>5 DEF AxmlNext

LEMMA InvWellFormed == AxmlIInv => StaysWellFormed
<1> SUFFICES ASSUME AxmlIInv PROVE StaysWellFormed
  OBVIOUS
<1>1. PICK p, c : p = ParseStringPool(data) /\ c = Chunks(data, p)
  OBVIOUS
<1>2. Tidy(data, p, c)
  BY <1>1, InvTidy DEF AxmlIInv
<1>3. /\ Cell(data, 2) = Len(data) /\ p.next % 2 = 0 /\ ChunksFollow(data, p, c)
  BY <1>2 DEF Tidy, PoolAsWritten
<1>4. /\ p.count \in Nat /\ p.offsets \in Nat /\ p.start = p.offsets + 2 * p.count /\ Len(c) \in Nat \ {0}
  BY <1>2, PoolBounds
<1>5. p.offsets + 2 * p.count <= p.start
  <2>1. p.offsets + 2 * p.count \in Nat
    BY ONLY <1>4
  <2> QED BY ONLY <1>4, <2>1
<1>6. ASSUME NEW i \in 0 .. p.count - 1
      PROVE  LET b == StringAt(data, p, i)
             IN b + Cell(data, b) + 1 < p.next /\ Cell(data, b + Cell(data, b) + 1) = 0
  BY <1>2, StringIs
<1>7. c # << >> /\ Last(c) + Cell(data, Last(c) + 2) = Len(data)
  <2>1. Last(c) = c[Len(c)] /\ c # << >>
    BY <1>3 DEF Last, ChunksFollow
  <2>2. Len(c) \in 1 .. Len(c)
    BY ONLY <1>4
  <2>3. c[Len(c)] + Cell(data, c[Len(c)] + 2) = Len(data)
    BY <1>2, <2>2, ChunkBounds
  <2> QED BY <2>1, <2>3
<1> QED BY <1>1, <1>3, <1>5, <1>6, <1>7 DEF StaysWellFormed, WellFormed

\* A file stays one that aapt could have written (tools/axml_patch.py:129-222).
LEMMA AlwaysAsWritten == ASSUME NoAstral PROVE AxmlSpec => []AxmlIInv
<1>1. AxmlIInv /\ [AxmlNext]_axmlVars => AxmlIInv'
  BY AxmlStep
<1> QED BY <1>1, InitInv, PTL DEF AxmlSpec

\* Strings are appended and overwritten, permissions duplicated and attributes
\* set, in any order and number: Android's parser accepts the manifest, its sizes
\* add up and its strings end where they should (tools/axml_patch.py:129-222).
THEOREM ManifestAlwaysWellFormed == ASSUME NoAstral PROVE AxmlSpec => []StaysWellFormed
BY AlwaysAsWritten, InvWellFormed, PTL

\* ... and each of those operations does to the strings and nodes what its name
\* says and nothing else: the offsets that it moves by hand leave no string under
\* another index, and no element with the value of another one
\* (tools/axml_patch.py:129-222).
THEOREM ManifestEditsAreEdits == ASSUME NoAstral PROVE AxmlSpec => EditsManifest
<1>1. AxmlIInv /\ [AxmlNext]_axmlVars => [[Manifest!Next]_(Manifest!vars)]_axmlVars
  BY AxmlStep
<1> QED BY <1>1, AlwaysAsWritten, PTL DEF AxmlSpec, EditsManifest
=============================================================================
