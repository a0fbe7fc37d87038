-------------------------- MODULE CallCleanup_proofs --------------------------
(***************************************************************************)
(* Which connection the cleanup of one call can take from another, for     *)
(* every number of calls, every interleaving of the user, the network and  *)
(* the callbacks, and every order of their delivery.                       *)
(*                                                                         *)
(* The argument is one of accounts.  A start-failed callback whose own     *)
(* call is no longer in mRingingCall (Foreign) takes whatever rings first. *)
(* Such a call was taken there by the fallback of another one, which       *)
(* rings on without a callback (Stuck); each foreign callback has a stuck  *)
(* connection of its own, so that where one arrives, one is left.          *)
(***************************************************************************)
EXTENDS CallCleanup, TLAPS

-----------------------------------------------------------------------------
(* Lists.                                                                  *)

In(c, s) == \E k \in DOMAIN s : s[k] = c
OneEach(s) == \A j, k \in DOMAIN s : s[j] = s[k] => j = k

\* The positions of a concatenation.
LEMMA ConcatIs ==
    ASSUME NEW S, NEW a \in Seq(S), NEW b \in Seq(S), NEW c, c = a \o b
    PROVE  /\ c \in Seq(S) /\ Len(c) = Len(a) + Len(b)
           /\ \A k \in 1 .. Len(a) : c[k] = a[k]
           /\ \A k \in 1 .. Len(b) : c[Len(a) + k] = b[k]
OBVIOUS

\* What RemoveAt leaves.
LEMMA RemoveAtIs ==
    ASSUME NEW S, NEW s \in Seq(S), NEW m \in DOMAIN s, NEW t, t = RemoveAt(s, m)
    PROVE  /\ t \in Seq(S) /\ Len(t) = Len(s) - 1
           /\ \A k \in DOMAIN t : t[k] = IF k < m THEN s[k] ELSE s[k + 1]
<1>1. m \in 1 .. Len(s) /\ Len(s) \in Nat
  OBVIOUS
<1> DEFINE a == SubSeq(s, 1, m - 1)
           b == SubSeq(s, m + 1, Len(s))
<1>2. a \in Seq(S) /\ Len(a) = m - 1 /\ \A k \in 1 .. m - 1 : a[k] = s[k]
  BY <1>1
<1>3. b \in Seq(S) /\ Len(b) = Len(s) - m /\ \A k \in 1 .. Len(s) - m : b[k] = s[m + k]
  BY <1>1
<1>4. t = a \o b
  BY DEF RemoveAt
<1> HIDE DEF a, b
<1>5. /\ t \in Seq(S) /\ Len(t) = (m - 1) + (Len(s) - m)
      /\ \A k \in 1 .. m - 1 : t[k] = a[k]
      /\ \A k \in 1 .. Len(s) - m : t[m - 1 + k] = b[k]
  <2>1. a \in Seq(S) /\ b \in Seq(S)
    BY <1>2, <1>3
  <2>2. /\ t \in Seq(S) /\ Len(t) = Len(a) + Len(b)
        /\ \A k \in 1 .. Len(a) : t[k] = a[k]
        /\ \A k \in 1 .. Len(b) : t[Len(a) + k] = b[k]
    BY ONLY <2>1, <1>4, ConcatIs
  <2> QED  BY <2>2, <1>2, <1>3
<1>6. ASSUME NEW k \in DOMAIN t PROVE t[k] = IF k < m THEN s[k] ELSE s[k + 1]
  <2>1. k \in 1 .. Len(s) - 1
    BY <1>1, <1>5
  <2>2. CASE k < m
    <3>1. k \in 1 .. m - 1
      BY <1>1, <2>1, <2>2
    <3> QED  BY ONLY <1>2, <1>5, <2>2, <3>1
  <2>3. CASE ~(k < m)
    <3>1. /\ k - (m - 1) \in 1 .. Len(s) - m
          /\ m - 1 + (k - (m - 1)) = k /\ m + (k - (m - 1)) = k + 1
      BY <1>1, <2>1, <2>3
    <3> QED  BY <1>3, <1>5, <2>3, <3>1
  <2> QED  BY <2>2, <2>3
<1> QED  BY <1>1, <1>5, <1>6

\* Removing an element of a list without repetitions.
LEMMA RemoveFirstIs ==
    ASSUME NEW S, NEW s \in Seq(S), OneEach(s), NEW e
    PROVE  \/ ~In(e, s) /\ RemoveFirst(s, e) = s
           \/ \E m \in DOMAIN s : s[m] = e /\ RemoveFirst(s, e) = RemoveAt(s, m)
<1>0. DOMAIN s = 1 .. Len(s)
  OBVIOUS
<1>1. CASE ~In(e, s)
  BY <1>0, <1>1 DEF In, RemoveFirst, SelectInSeq
<1>2. CASE In(e, s)
  <2>1. PICK m \in DOMAIN s : s[m] = e
    BY <1>2 DEF In
  <2>2. {i \in 1 .. Len(s) : s[i] = e} = {m}
    BY <2>1, <1>0 DEF OneEach
  <2>3. Min({m}) = m
    BY <2>1, <1>0 DEF Min
  <2>4. RemoveFirst(s, e) = RemoveAt(s, Min({m}))
    BY <2>1, <2>2, <1>0 DEF RemoveFirst, SelectInSeq
  <2> QED  BY <2>1, <2>3, <2>4
<1> QED  BY <1>1, <1>2

\* What is left of a list without repetitions.
LEMMA WithoutIs ==
    ASSUME NEW S, NEW s \in Seq(S), OneEach(s), NEW e, NEW t, t = RemoveFirst(s, e)
    PROVE  /\ t \in Seq(S) /\ OneEach(t)
           /\ \A c : In(c, t) <=> In(c, s) /\ c # e
<1>1. CASE ~In(e, s) /\ t = s
  BY <1>1 DEF In
<1>2. ASSUME NEW m \in DOMAIN s, s[m] = e, t = RemoveAt(s, m)
      PROVE  /\ t \in Seq(S) /\ OneEach(t)
             /\ \A c : In(c, t) <=> In(c, s) /\ c # e
  <2>1. /\ t \in Seq(S) /\ Len(t) = Len(s) - 1
        /\ \A k \in DOMAIN t : t[k] = IF k < m THEN s[k] ELSE s[k + 1]
    BY <1>2, RemoveAtIs
  <2>2. /\ m \in 1 .. Len(s) /\ Len(s) \in Nat
        /\ DOMAIN s = 1 .. Len(s) /\ DOMAIN t = 1 .. Len(s) - 1
    BY <2>1
  <2> DEFINE from(k) == IF k < m THEN k ELSE k + 1
             to(k) == IF k < m THEN k ELSE k - 1
  <2>3. \A k \in DOMAIN t : /\ from(k) \in DOMAIN s /\ from(k) # m /\ t[k] = s[from(k)]
    BY <2>1, <2>2
  <2>4. \A j, k \in DOMAIN t : from(j) = from(k) => j = k
    BY <2>2
  <2>5. \A k \in DOMAIN s \ {m} : to(k) \in DOMAIN t /\ from(to(k)) = k
    BY <2>2
  <2> HIDE DEF from, to
  <2>6. OneEach(t)
    BY <2>3, <2>4 DEF OneEach
  <2>7. ASSUME NEW c PROVE In(c, t) <=> In(c, s) /\ c # e
    BY <1>2, <2>3, <2>5 DEF In, OneEach
  <2> QED  BY <2>1, <2>6, <2>7
<1> QED  BY <1>1, <1>2, RemoveFirstIs

\* A call that is appended.
LEMMA AppendedIs ==
    ASSUME NEW S, NEW s \in Seq(S), OneEach(s), NEW e \in S, ~In(e, s), NEW t, t = Append(s, e)
    PROVE  /\ t \in Seq(S) /\ OneEach(t)
           /\ \A c : In(c, t) <=> In(c, s) \/ c = e
<1>1. /\ t \in Seq(S) /\ DOMAIN s = 1 .. Len(s) /\ DOMAIN t = 1 .. Len(s) + 1 /\ Len(s) \in Nat
      /\ t[Len(s) + 1] = e /\ \A k \in 1 .. Len(s) : t[k] = s[k]
  OBVIOUS
<1>2. \A k \in DOMAIN t : k = Len(s) + 1 \/ k \in DOMAIN s
  BY <1>1
<1>3. OneEach(t)
  BY <1>1, <1>2 DEF OneEach, In
<1>4. \A c : In(c, t) <=> In(c, s) \/ c = e
  BY <1>1, <1>2 DEF In
<1> QED  BY <1>1, <1>3, <1>4

-----------------------------------------------------------------------------
(* Accounts: every element of D has one of S of its own.                   *)

OneToOne(f, D, S) ==
    /\ f \in [D -> S]
    /\ \A x, y \in D : f[x] = f[y] => x = y
Covered(D, S) == \E f : OneToOne(f, D, S)

\* Fewer debts, more to cover them.
LEMMA Cover ==
    ASSUME NEW D, NEW S, Covered(D, S), NEW D2 \in SUBSET D, NEW S2, S \subseteq S2
    PROVE  Covered(D2, S2)
<1>1. PICK f : OneToOne(f, D, S)
  BY DEF Covered
<1> DEFINE g == [x \in D2 |-> f[x]]
<1>2. OneToOne(g, D2, S2)
  BY <1>1 DEF OneToOne
<1> QED  BY <1>2 DEF Covered

\* A debt more, and one more to cover it.
LEMMA CoverMore ==
    ASSUME NEW D, NEW S, Covered(D, S), NEW d, NEW c, c \notin S
    PROVE  Covered(D \cup {d}, S \cup {c})
<1>1. PICK f : OneToOne(f, D, S)
  BY DEF Covered
<1> DEFINE g == [x \in D \cup {d} |-> IF x \in D THEN f[x] ELSE c]
<1>2. OneToOne(g, D \cup {d}, S \cup {c})
  BY <1>1 DEF OneToOne
<1> QED  BY <1>2 DEF Covered

\* A debt is paid with whatever covers another.
LEMMA CoverLess ==
    ASSUME NEW D, NEW S, Covered(D, S), NEW d \in D, NEW c
    PROVE  Covered(D \ {d}, S \ {c})
<1>1. PICK f : OneToOne(f, D, S)
  BY DEF Covered
<1> DEFINE g == [x \in D \ {d} |-> IF f[x] = c THEN f[d] ELSE f[x]]
<1>2. g \in [D \ {d} -> S \ {c}]
  BY <1>1 DEF OneToOne
<1>3. \A x, y \in D \ {d} : g[x] = g[y] => x = y
  BY <1>1 DEF OneToOne
<1> QED  BY <1>2, <1>3 DEF Covered, OneToOne

\* What covers a debt is replaced.
LEMMA CoverSwap ==
    ASSUME NEW D, NEW S, Covered(D, S), NEW h, NEW c, c \notin S
    PROVE  Covered(D, (S \ {h}) \cup {c})
<1>1. PICK f : OneToOne(f, D, S)
  BY DEF Covered
<1> DEFINE g == [x \in D |-> IF f[x] = h THEN c ELSE f[x]]
<1>2. g \in [D -> (S \ {h}) \cup {c}]
  BY <1>1 DEF OneToOne
<1>3. \A x, y \in D : g[x] = g[y] => x = y
  BY <1>1 DEF OneToOne
<1> QED  BY <1>2, <1>3 DEF Covered, OneToOne

\* A debt takes the place of another.
LEMMA CoverTurn ==
    ASSUME NEW D, NEW S, Covered(D, S), NEW d \in D, NEW h
    PROVE  Covered((D \ {d}) \cup {h}, S)
<1>1. PICK f : OneToOne(f, D, S)
  BY DEF Covered
<1> DEFINE g == [x \in (D \ {d}) \cup {h} |-> IF x \in D \ {d} THEN f[x] ELSE f[d]]
<1>2. g \in [(D \ {d}) \cup {h} -> S]
  BY <1>1 DEF OneToOne
<1>3. \A x, y \in (D \ {d}) \cup {h} : g[x] = g[y] => x = y
  BY <1>1 DEF OneToOne
<1>4. OneToOne(g, (D \ {d}) \cup {h}, S)
  BY <1>2, <1>3 DEF OneToOne
<1> QED  BY <1>4 DEF Covered

-----------------------------------------------------------------------------
(* The invariant.                                                          *)

\* What IMS made of a call, and what the tracker did.
States ==
    \A c \in Calls :
        /\ ims[c] = "none" <=> conn[c] = "none"
        /\ ims[c] = "live" => conn[c] # "disconnecting"
        /\ conn[c] = "gone" /\ ims[c] = "live" => c \in Incoming
        /\ conn[c] \in {"dialing", "alerting"} => c \in Outgoing

\* mRingingCall has what rings and what was rejected.
RingingCall ==
    /\ OneEach(ringing)
    /\ \A c : In(c, ringing) => c \in Incoming /\ conn[c] \in {"ringing", "disconnecting"}
    /\ \A c \in Calls : conn[c] = "ringing" => In(c, ringing)
    /\ \A c, d : In(c, ringing) /\ In(d, ringing) /\ c # d => c \in together

Announced(c) == \E cb \in callbacks : cb[2] = c

\* One callback of a call that is over, and none else; that of an outgoing call
\* finds its connection, one that carries another object is that of an incoming
\* call which is in mRingingCall as long as it is tracked.
Callbacks ==
    /\ \A cb \in callbacks : ims[cb[2]] = "over"
    /\ \A cb, d \in callbacks : cb[2] = d[2] => cb = d
    /\ \A cb \in callbacks : cb[2] \in Outgoing => Tracked(cb[2])
    /\ \A cb \in callbacks : cb[3] = FALSE =>
           /\ cb[1] # "terminated" /\ cb[2] \in Detached
           /\ Tracked(cb[2]) => In(cb[2], ringing)
    /\ \A c \in Calls : ims[c] = "over" /\ Tracked(c) /\ ~Announced(c) => In(c, ringing)

\* Incoming calls that left mRingingCall and have a start-failed callback to come.
Foreign ==
    {c \in Incoming : ~In(c, ringing) /\ \E cb \in callbacks : cb[2] = c /\ cb[1] # "terminated"}

\* Calls of mRingingCall whose callback has come.
Stuck == {c \in Incoming : In(c, ringing) /\ ims[c] = "over" /\ ~Announced(c)}

Accounts ==
    /\ Covered(Foreign, Stuck)
    /\ Stuck \subseteq Detached \cap together

IInv == TypeOK /\ States /\ RingingCall /\ Callbacks /\ Accounts

\* TypeOK, without the numbers of calls.
Typed ==
    /\ conn \in [Calls -> {"none", "dialing", "alerting", "ringing", "active",
                           "disconnecting", "gone"}]
    /\ ims \in [Calls -> {"none", "live", "over"}]
    /\ ringing \in Seq(Incoming)
    /\ \A cb \in callbacks : cb[1] \in Ends /\ cb[2] \in Calls /\ cb[3] \in BOOLEAN

LEMMA IsTyped == ASSUME TypeOK PROVE Typed
BY DEF TypeOK, Typed

LEMMA InitIInv == ASSUME Init PROVE IInv
<1>1. TypeOK
  BY DEF Init, TypeOK
<1>2. callbacks = {} /\ DOMAIN ringing = {}
  BY DEF Init
<1>3. States /\ RingingCall /\ Callbacks
  BY <1>2 DEF Init, States, RingingCall, Callbacks, In, OneEach, Tracked
<1>4. Foreign = {} /\ Stuck = {}
  BY <1>2 DEF Foreign, Stuck, In
<1>5. OneToOne([x \in {} |-> x], {}, {})
  BY DEF OneToOne
<1> QED  BY <1>1, <1>3, <1>4, <1>5 DEF IInv, Accounts, Covered

-----------------------------------------------------------------------------
(* The steps that deliver nothing.                                         *)

\* While no call ends and no callback comes, what is over stays where it was.
LEMMA NothingEnds ==
    ASSUME IInv, callbacks' = callbacks, together \subseteq together',
           \A c \in Calls : ims'[c] = "over" <=> ims[c] = "over",
           \A c \in Calls : ims[c] = "over" => /\ In(c, ringing') <=> In(c, ringing)
                                               /\ Tracked(c)' <=> Tracked(c)
    PROVE  Callbacks' /\ Accounts'
<1>1. \A cb \in callbacks : cb[2] \in Calls /\ ims[cb[2]] = "over"
  BY IsTyped DEF IInv, Typed, Callbacks
<1>2. \A c \in Calls : ims[c] = "over" => (In(c, ringing)' <=> In(c, ringing))
  BY DEF In
<1>3. \A c : Announced(c)' <=> Announced(c)
  BY DEF Announced
<1>4. Callbacks'
  BY <1>1, <1>2, <1>3 DEF IInv, Callbacks
<1>5. Foreign' = Foreign /\ Stuck' = Stuck
  BY <1>1, <1>2, <1>3 DEF Foreign, Stuck, Calls
<1>6. Accounts'
  BY <1>5 DEF IInv, Accounts
<1> QED  BY <1>4, <1>6

LEMMA DialKeeps == ASSUME IInv, NEW o \in Outgoing, Dial(o) PROVE IInv'
<1>1. /\ ims[o] = "none" /\ conn[o] = "none" /\ o \in Calls /\ o \notin Incoming
      /\ conn' = [conn EXCEPT ![o] = "dialing"] /\ ims' = [ims EXCEPT ![o] = "live"]
      /\ pendingMO' = o /\ ringing' = ringing /\ callbacks' = callbacks
      /\ together' = together
  BY CallAssumption DEF Dial, Becomes, IInv, States, Calls
<1>2. Typed
  BY IsTyped DEF IInv
<1>3. TypeOK'
  BY <1>1 DEF IInv, TypeOK
<1>4. States'
  BY <1>1, <1>2 DEF IInv, States, Typed
<1>5. RingingCall'
  BY <1>1, <1>2 DEF IInv, RingingCall, In, OneEach, Typed
<1>6. Callbacks' /\ Accounts'
  BY <1>1, <1>2, NothingEnds DEF Typed, Tracked
<1> QED  BY <1>3, <1>4, <1>5, <1>6 DEF IInv

LEMMA AlertingKeeps == ASSUME IInv, NEW o \in Outgoing, Alerting(o) PROVE IInv'
<1>1. /\ ims[o] = "live" /\ conn[o] = "dialing" /\ o \in Calls /\ o \notin Incoming
      /\ conn' = [conn EXCEPT ![o] = "alerting"] /\ ims' = ims
      /\ pendingMO' \in {pendingMO, None} /\ ringing' = ringing /\ callbacks' = callbacks
      /\ together' = together
  BY CallAssumption DEF Alerting, Becomes, Calls
<1>2. Typed
  BY IsTyped DEF IInv
<1>3. TypeOK'
  BY <1>1 DEF IInv, TypeOK
<1>4. States'
  BY <1>1, <1>2 DEF IInv, States, Typed
<1>5. RingingCall'
  BY <1>1, <1>2 DEF IInv, RingingCall, In, OneEach, Typed
<1>6. Callbacks' /\ Accounts'
  BY <1>1, <1>2, NothingEnds DEF Typed, Tracked
<1> QED  BY <1>3, <1>4, <1>5, <1>6 DEF IInv

LEMMA RingKeeps == ASSUME IInv, NEW i \in Incoming, Ring(i) PROVE IInv'
<1>1. /\ ims[i] = "none" /\ conn[i] = "none" /\ i \in Calls /\ i \notin Outgoing
      /\ conn' = [conn EXCEPT ![i] = "ringing"] /\ ims' = [ims EXCEPT ![i] = "live"]
      /\ pendingMO' = pendingMO /\ ringing' = Append(ringing, i) /\ callbacks' = callbacks
      /\ together' = together \cup IF ringing = << >> THEN {} ELSE ToSet(ringing')
  BY CallAssumption DEF Ring, Becomes, IInv, States, Calls
<1>2. Typed
  BY IsTyped DEF IInv
<1>3. ringing \in Seq(Incoming) /\ OneEach(ringing) /\ ~In(i, ringing)
  BY <1>1, <1>2 DEF IInv, Typed, RingingCall
<1>4. /\ ringing' \in Seq(Incoming) /\ OneEach(ringing')
      /\ \A c : In(c, ringing') <=> In(c, ringing) \/ c = i
  <2>1. i \in Incoming /\ ringing' = Append(ringing, i)
    BY <1>1
  <2> QED  BY ONLY <2>1, <1>3, AppendedIs
<1>5. \A c : In(c, ringing') => c \in Incoming
  BY <1>4 DEF In
<1>6. ringing # << >> => \A c : In(c, ringing') => c \in together'
  BY <1>1, <1>4 DEF In, ToSet
<1>7. ringing = << >> => \A c : ~In(c, ringing)
  BY DEF In
<1>8. together' \subseteq Incoming
  BY <1>1, <1>4 DEF IInv, TypeOK, ToSet
<1>9. TypeOK'
  BY <1>1, <1>4, <1>8 DEF IInv, TypeOK
<1>10. States'
  BY <1>1, <1>2 DEF IInv, States, Typed
<1>11. RingingCall'
  <2>1. OneEach(ringing)'
    BY <1>4 DEF OneEach
  <2>2. \A c : In(c, ringing)' <=> In(c, ringing) \/ c = i
    BY <1>4 DEF In
  <2>3. \A c : In(c, ringing)' => c \in Incoming /\ conn'[c] \in {"ringing", "disconnecting"}
    BY <2>2, <1>1, <1>2 DEF IInv, RingingCall, Typed, Calls
  <2>4. \A c \in Calls : conn'[c] = "ringing" => In(c, ringing)'
    BY <2>2, <1>1, <1>2 DEF IInv, RingingCall, Typed
  <2>5. \A c, d : In(c, ringing)' /\ In(d, ringing)' /\ c # d => c \in together'
    BY <2>2, <1>4, <1>6, <1>7
  <2> QED  BY <2>1, <2>3, <2>4, <2>5 DEF RingingCall
<1>12. Callbacks' /\ Accounts'
  <2>1. together \subseteq together'
    BY <1>1
  <2>2. \A c \in Calls : ims'[c] = "over" <=> ims[c] = "over"
    BY <1>1, <1>2 DEF Typed
  <2>3. \A c \in Calls : ims[c] = "over" => /\ In(c, ringing') <=> In(c, ringing)
                                            /\ Tracked(c)' <=> Tracked(c)
    BY <1>1, <1>2, <1>4 DEF Typed, Tracked
  <2> QED  BY <1>1, <2>1, <2>2, <2>3, NothingEnds
<1> QED  BY <1>9, <1>10, <1>11, <1>12 DEF IInv

LEMMA AnswerKeeps == ASSUME IInv, NEW x \in Calls, Answer(x) PROVE IInv'
<1>1. /\ ims[x] = "live" /\ conn[x] \in {"alerting", "ringing"}
      /\ conn' = [conn EXCEPT ![x] = "active"] /\ ims' = ims
      /\ pendingMO' = pendingMO /\ ringing' = RemoveFirst(ringing, x) /\ callbacks' = callbacks
      /\ together' = together
  BY DEF Answer, Becomes
<1>2. Typed
  BY IsTyped DEF IInv
<1>3. ringing \in Seq(Incoming) /\ OneEach(ringing)
  BY <1>2 DEF IInv, Typed, RingingCall
<1>4. /\ ringing' \in Seq(Incoming) /\ OneEach(ringing')
      /\ \A c : In(c, ringing') <=> In(c, ringing) /\ c # x
  BY <1>1, <1>3, WithoutIs
<1>5. TypeOK'
  BY <1>1, <1>4 DEF IInv, TypeOK
<1>6. States'
  BY <1>1, <1>2 DEF IInv, States, Typed
<1>7. RingingCall'
  <2>1. OneEach(ringing)'
    BY <1>4 DEF OneEach
  <2>2. \A c : In(c, ringing)' <=> In(c, ringing) /\ c # x
    BY <1>4 DEF In
  <2> QED  BY <1>1, <1>2, <2>1, <2>2 DEF IInv, RingingCall, Typed, Calls
<1>8. Callbacks' /\ Accounts'
  <2>1. \A c \in Calls : ims[c] = "over" => /\ In(c, ringing') <=> In(c, ringing)
                                            /\ Tracked(c)' <=> Tracked(c)
    BY <1>1, <1>2, <1>4 DEF Typed, Tracked
  <2> QED  BY <1>1, <2>1, NothingEnds
<1> QED  BY <1>5, <1>6, <1>7, <1>8 DEF IInv

\* A live call ends, and its callback is sent.
LEMMA EndKeeps ==
    ASSUME IInv, NEW x \in Calls, ims[x] = "live", ims' = [ims EXCEPT ![x] = "over"],
           conn' = conn \/ (Tracked(x) /\ conn' = [conn EXCEPT ![x] = "disconnecting"]),
           ringing' = ringing, pendingMO' = pendingMO, together' = together,
           NEW end \in Ends, NEW own \in BOOLEAN,
           callbacks' = callbacks \cup {<<end, x, own>>},
           own = FALSE => end # "terminated" /\ x \in Detached,
           end # "terminated" /\ x \in Incoming => In(x, ringing)
    PROVE  IInv'
<1>1. Typed
  BY IsTyped DEF IInv
<1>2. /\ ~Announced(x)
      /\ x \in Outgoing => x \notin Incoming /\ Tracked(x)
  BY CallAssumption DEF IInv, Callbacks, Announced, States, Tracked
<1>3. \A c \in Calls : Tracked(c)' <=> Tracked(c)
  BY <1>1 DEF Typed, Tracked
<1>4. /\ \A c \in Calls : In(c, ringing)' <=> In(c, ringing)
      /\ \A c : Announced(c)' <=> Announced(c) \/ c = x
      /\ \A c \in Calls : ims'[c] = IF c = x THEN "over" ELSE ims[c]
  <2>1. \A c \in Calls : In(c, ringing)' <=> In(c, ringing)
    BY DEF In
  <2>2. ASSUME NEW c PROVE Announced(c)' <=> Announced(c) \/ c = x
    <3> DEFINE new == <<end, x, own>>
    <3>1. callbacks' = callbacks \cup {new} /\ new[2] = x
      OBVIOUS
    <3> HIDE DEF new
    <3>2. (\E cb \in callbacks' : cb[2] = c) <=> (\E cb \in callbacks : cb[2] = c) \/ c = x
      BY <3>1
    <3> QED  BY <3>2 DEF Announced
  <2>3. \A c \in Calls : ims'[c] = IF c = x THEN "over" ELSE ims[c]
    BY <1>1 DEF Typed
  <2> QED  BY <2>1, <2>2, <2>3
<1>5. TypeOK'
  BY <1>1 DEF IInv, TypeOK, Typed
<1>6. States'
  BY <1>1 DEF IInv, States, Typed, Tracked
<1>7. RingingCall'
  <2>1. OneEach(ringing)' /\ \A c : In(c, ringing)' <=> In(c, ringing)
    BY DEF IInv, RingingCall, OneEach, In
  <2>2. \A c \in Calls :
          \/ conn'[c] = conn[c]
          \/ conn[c] \notin {"none", "gone"} /\ conn'[c] = "disconnecting" /\ c = x
    BY <1>1 DEF Typed, Tracked
  <2>3. \A c : In(c, ringing) => c \in Calls
    BY DEF IInv, RingingCall, Calls
  <2> QED  BY <2>1, <2>2, <2>3 DEF IInv, RingingCall
<1>8. Callbacks'
  <2>1. \A cb \in callbacks' : cb \in callbacks \/ cb = <<end, x, own>>
    OBVIOUS
  <2>2. \A cb \in callbacks : cb[2] \in Calls /\ cb[2] # x
    BY <1>1, <1>2 DEF Typed, Announced
  <2>3. \A cb \in callbacks' : ims'[cb[2]] = "over"
    BY <2>1, <2>2, <1>4 DEF IInv, Callbacks
  <2>4. \A cb, d \in callbacks' : cb[2] = d[2] => cb = d
    BY <2>1, <2>2 DEF IInv, Callbacks
  <2>5. \A cb \in callbacks' : cb[2] \in Outgoing => Tracked(cb[2])'
    BY <2>1, <2>2, <1>2, <1>3 DEF IInv, Callbacks
  <2>6. \A cb \in callbacks' : cb[3] = FALSE =>
           /\ cb[1] # "terminated" /\ cb[2] \in Detached
           /\ Tracked(cb[2])' => In(cb[2], ringing)'
    <3>1. own = FALSE => x \in Incoming
      BY CallAssumption
    <3> QED  BY <2>1, <2>2, <1>3, <1>4, <3>1 DEF IInv, Callbacks
  <2>7. \A c \in Calls : ims'[c] = "over" /\ Tracked(c)' /\ ~Announced(c)' => In(c, ringing)'
    BY <1>3, <1>4 DEF IInv, Callbacks
  <2> QED  BY <2>3, <2>4, <2>5, <2>6, <2>7 DEF Callbacks
<1>9. Accounts'
  <2>1. \A c \in Incoming : c \in Calls
    BY DEF Calls
  <2>2. Stuck' = Stuck
    BY <2>1, <1>4 DEF Stuck
  <2>3. Foreign' = Foreign
    BY <2>1, <1>2, <1>4 DEF Foreign, Announced
  <2> QED  BY <2>2, <2>3 DEF IInv, Accounts
<1> QED  BY <1>5, <1>6, <1>7, <1>8, <1>9 DEF IInv

LEMMA HangUpKeeps == ASSUME IInv, NEW x \in Calls, HangUp(x) PROVE IInv'
<1>1. /\ conn[x] \in {"dialing", "alerting", "ringing", "active"}
      /\ conn' = [conn EXCEPT ![x] = "disconnecting"]
      /\ ringing' = ringing /\ pendingMO' = pendingMO /\ together' = together
  BY DEF HangUp, Becomes
<1>2. Typed
  BY IsTyped DEF IInv
<1>3. CASE ims[x] = "over"
  <2>1. ims' = ims /\ callbacks' = callbacks
    BY <1>3 DEF HangUp
  <2>2. TypeOK'
    BY <1>1, <1>2, <2>1 DEF IInv, TypeOK
  <2>3. States'
    BY <1>1, <1>2, <1>3, <2>1 DEF IInv, States, Typed
  <2>4. RingingCall'
    BY <1>1, <1>2 DEF IInv, RingingCall, In, OneEach, Typed
  <2>5. Callbacks' /\ Accounts'
    BY <1>1, <1>2, <2>1, NothingEnds DEF Typed, Tracked
  <2> QED  BY <2>2, <2>3, <2>4, <2>5 DEF IInv
<1>4. CASE ims[x] # "over"
  <2>1. PICK kinds : /\ End(x, kinds)
                     /\ kinds = IF conn[x] = "active" THEN {"terminated"} ELSE {"failed"}
    BY <1>4 DEF HangUp
  <2>2. PICK end \in kinds, own \in BOOLEAN :
          /\ own \/ (end # "terminated" /\ x \in Detached)
          /\ callbacks' = callbacks \cup {<<end, x, own>>}
    BY <2>1 DEF End
  <2>3. ims[x] = "live" /\ ims' = [ims EXCEPT ![x] = "over"] /\ end \in Ends
    BY <2>1, <2>2 DEF End, Ends
  <2>4. end # "terminated" /\ x \in Incoming => In(x, ringing)
    BY <1>1, <2>1, CallAssumption DEF IInv, States, RingingCall
  <2>5. own = FALSE => end # "terminated" /\ x \in Detached
    BY <2>2
  <2>6. Tracked(x)
    BY <1>1 DEF Tracked
  <2> QED  BY <1>1, <2>2, <2>3, <2>4, <2>5, <2>6, EndKeeps
<1> QED  BY <1>3, <1>4

LEMMA RemoteEndKeeps == ASSUME IInv, NEW x \in Calls, RemoteEnd(x) PROVE IInv'
<1>1. PICK kinds : /\ End(x, kinds)
                   /\ kinds = IF conn[x] \in {"dialing", "alerting"} THEN {"failed", "redial"}
                              ELSE {"terminated"}
  BY DEF RemoteEnd
<1>2. PICK end \in kinds, own \in BOOLEAN :
        /\ own \/ (end # "terminated" /\ x \in Detached)
        /\ callbacks' = callbacks \cup {<<end, x, own>>}
  BY <1>1 DEF End
<1>3. ims[x] = "live" /\ ims' = [ims EXCEPT ![x] = "over"] /\ end \in Ends
  BY <1>1, <1>2 DEF End, Ends
<1>4. end # "terminated" => x \notin Incoming
  BY <1>1, <1>2, CallAssumption DEF IInv, States
<1>5. own = FALSE => end # "terminated" /\ x \in Detached
  BY <1>2
<1>6. conn' = conn /\ ringing' = ringing /\ pendingMO' = pendingMO /\ together' = together
  BY DEF RemoteEnd
<1> QED  BY <1>2, <1>3, <1>4, <1>5, <1>6, EndKeeps

-----------------------------------------------------------------------------
(* A delivery.                                                             *)

\* The callback is that of the connection it removes, or of one that is gone.
Finds(cb) ==
    \/ Removed(cb[2])
    \/ ~Tracked(cb[2]) /\ UNCHANGED <<conn, ringing>>

\* The fallback takes another one.
Takes(cb, h) ==
    /\ cb[1] # "terminated" /\ (Tracked(cb[2]) => cb[3] = FALSE)
    /\ In(h, ringing) /\ h # cb[2] /\ Removed(h)

LEMMA DeliverDoes ==
    ASSUME IInv, Deliver
    PROVE  \E cb \in callbacks :
               /\ Finds(cb) \/ \E h : Takes(cb, h)
               /\ callbacks' = callbacks \ {cb}
               /\ ims' = ims /\ together' = together /\ pendingMO' \in {pendingMO, None}
<1>1. PICK cb \in callbacks :
        /\ IF cb[1] = "terminated" THEN OnCallTerminated(cb[2])
           ELSE OnCallStartFailed(cb[1], cb[2], cb[3])
        /\ callbacks' = callbacks \ {cb}
        /\ ims' = ims /\ together' = together
  BY DEF Deliver
<1> DEFINE c == cb[2]
<1>2. c \in Calls /\ cb[3] \in BOOLEAN /\ c # None /\ ringing \in Seq(Incoming)
  BY IsTyped, CallAssumption DEF IInv, Typed, Calls
<1>3. /\ cb[3] = FALSE /\ Tracked(c) => In(c, ringing)
      /\ c \in Outgoing => Tracked(c) /\ cb[3] = TRUE
  BY <1>2, CallAssumption DEF IInv, Callbacks
<1>4. CASE cb[1] = "terminated"
  <2>1. Finds(cb) /\ pendingMO' = pendingMO
    BY <1>1, <1>4 DEF OnCallTerminated, Finds
  <2> QED  BY <1>1, <2>1
<1>5. CASE cb[1] # "terminated" /\ Tracked(c) /\ cb[3] = TRUE
  <2>1. FindConnection(c, cb[3]) = c
    BY <1>5 DEF FindConnection
  <2>2. RejectTarget(c) = IF c \in Incoming THEN c ELSE None
    BY <1>2 DEF RejectTarget
  <2>3. CASE c \in Incoming
    <3>1. RejectCleanup(c)
      BY <1>1, <1>2, <1>5, <2>1, <2>2, <2>3 DEF OnCallStartFailed
    <3> QED  BY <1>1, <3>1 DEF RejectCleanup, Finds
  <2>4. CASE c \notin Incoming
    <3>1. StartFailedAosp(cb[1], c)
      BY <1>1, <1>5, <2>1, <2>2, <2>4 DEF OnCallStartFailed
    <3>2. Removed(c) /\ pendingMO' \in {pendingMO, None}
      BY <3>1, <1>2 DEF StartFailedAosp, SendCallStartFailedDisconnect, MoCancelled
    <3> QED  BY <1>1, <3>2 DEF Finds
  <2> QED  BY <2>3, <2>4
<1>6. CASE cb[1] # "terminated" /\ ~(Tracked(c) /\ cb[3] = TRUE)
  <2>1. FindConnection(c, cb[3]) = None
    BY <1>2, <1>6 DEF FindConnection
  <2>2. CASE ringing = << >>
    <3>1. ~Tracked(c)
      BY <1>2, <1>3, <1>6, <2>2 DEF In
    <3>2. RejectTarget(None) = None
      BY <2>2 DEF RejectTarget
    <3>3. StartFailedAosp(cb[1], None)
      BY <1>1, <1>6, <2>1, <3>2 DEF OnCallStartFailed
    <3>4. UNCHANGED <<conn, ringing>> /\ pendingMO' \in {pendingMO, None}
      BY <3>3 DEF StartFailedAosp, SendCallStartFailedDisconnect, MoCancelled
    <3> QED  BY <1>1, <3>1, <3>4 DEF Finds
  <2>3. CASE ringing # << >>
    <3> DEFINE h == Head(ringing)
    <3>1. In(h, ringing) /\ h \in Incoming
      BY <1>2, <2>3 DEF In
    <3>2. RejectTarget(None) = h /\ h # None
      BY <2>3, <3>1, CallAssumption DEF RejectTarget
    <3>3. RejectCleanup(h)
      BY <1>1, <1>6, <2>1, <3>2 DEF OnCallStartFailed
    <3>4. Removed(h) /\ pendingMO' = pendingMO
      BY <3>3 DEF RejectCleanup
    <3> HIDE DEF h
    <3>5. h = c \/ Takes(cb, h)
      BY <1>2, <1>6, <3>1, <3>4 DEF Takes
    <3>6. Finds(cb) \/ Takes(cb, h)
      BY <3>4, <3>5 DEF Finds
    <3> QED  BY <1>1, <3>4, <3>6
  <2> QED  BY <2>2, <2>3
<1> QED  BY <1>2, <1>4, <1>5, <1>6

\* A connection leaves, and mRingingCall with it.
LEMMA RemovedIs ==
    ASSUME IInv, NEW h \in Calls, Removed(h)
    PROVE  /\ ringing' \in Seq(Incoming) /\ OneEach(ringing)'
           /\ \A c : In(c, ringing)' <=> In(c, ringing) /\ c # h
           /\ \A c \in Calls : conn'[c] = IF c = h THEN "gone" ELSE conn[c]
           /\ \A c \in Calls : Tracked(c)' <=> Tracked(c) /\ c # h
<1>1. Typed /\ conn' = [conn EXCEPT ![h] = "gone"] /\ ringing' = RemoveFirst(ringing, h)
  BY IsTyped DEF IInv, Removed
<1>2. ringing \in Seq(Incoming) /\ OneEach(ringing)
  BY <1>1 DEF IInv, Typed, RingingCall
<1>3. /\ ringing' \in Seq(Incoming) /\ OneEach(ringing')
      /\ \A c : In(c, ringing') <=> In(c, ringing) /\ c # h
  BY <1>1, <1>2, WithoutIs
<1>4. OneEach(ringing)' /\ \A c : In(c, ringing)' <=> In(c, ringing')
  BY <1>3 DEF OneEach, In
<1>5. \A c \in Calls : conn'[c] = IF c = h THEN "gone" ELSE conn[c]
  BY <1>1 DEF Typed
<1> QED  BY <1>3, <1>4, <1>5 DEF Tracked

\* What every removal keeps: that of a live call, if it is an incoming one.
LEMMA RemovedKeeps ==
    ASSUME IInv, NEW h \in Calls, Removed(h), ims[h] = "over" \/ In(h, ringing),
           callbacks' \in SUBSET callbacks, ims' = ims, together' = together,
           pendingMO' \in {pendingMO, None}
    PROVE  TypeOK' /\ States' /\ RingingCall'
<1>1. Typed
  BY IsTyped DEF IInv
<1>2. /\ ringing' \in Seq(Incoming) /\ OneEach(ringing)'
      /\ \A c : In(c, ringing)' <=> In(c, ringing) /\ c # h
      /\ \A c \in Calls : conn'[c] = IF c = h THEN "gone" ELSE conn[c]
  BY RemovedIs
<1>3. TypeOK'
  <2>1. conn' \in [Calls -> {"none", "dialing", "alerting", "ringing", "active",
                             "disconnecting", "gone"}]
    BY <1>1 DEF Removed, Typed
  <2> QED  BY <1>2, <2>1 DEF IInv, TypeOK
<1>4. h \in Incoming \/ ims[h] = "over"
  BY DEF IInv, RingingCall
<1>5. conn[h] # "none"
  BY DEF IInv, RingingCall, States
<1>6. States'
  BY <1>2, <1>4, <1>5 DEF IInv, States
<1>7. RingingCall'
  BY <1>2 DEF IInv, RingingCall, Calls
<1> QED  BY <1>3, <1>6, <1>7

\* Each callback has its call to itself.
LEMMA OneLess ==
    ASSUME IInv, NEW cb \in callbacks, callbacks' = callbacks \ {cb}
    PROVE  /\ \A c : Announced(c)' <=> Announced(c) /\ c # cb[2]
           /\ \A d \in callbacks' : d \in callbacks /\ d[2] # cb[2]
<1>1. \A d \in callbacks' : d \in callbacks /\ d[2] # cb[2]
  BY DEF IInv, Callbacks
<1>2. \A d \in callbacks : d[2] # cb[2] => d \in callbacks'
  OBVIOUS
<1> QED  BY <1>1, <1>2 DEF Announced

LEMMA FindsKeeps ==
    ASSUME IInv, NEW cb \in callbacks, Finds(cb), callbacks' = callbacks \ {cb},
           ims' = ims, together' = together, pendingMO' \in {pendingMO, None}
    PROVE  IInv'
<1> DEFINE x == cb[2]
<1>1. Typed /\ x \in Calls /\ ims[x] = "over"
  BY IsTyped DEF IInv, Typed, Callbacks
<1>2. /\ \A c : In(c, ringing)' <=> In(c, ringing) /\ c # x
      /\ \A c \in Calls : Tracked(c)' <=> Tracked(c) /\ c # x
      /\ TypeOK' /\ States' /\ RingingCall'
  <2>1. CASE Removed(x)
    <3>1. callbacks' \in SUBSET callbacks
      OBVIOUS
    <3> QED  BY <1>1, <2>1, <3>1, RemovedIs, RemovedKeeps
  <2>2. CASE ~Tracked(x) /\ UNCHANGED <<conn, ringing>>
    <3>1. ~In(x, ringing)
      BY <1>1, <2>2 DEF IInv, RingingCall, Tracked
    <3>2. \A c : In(c, ringing)' <=> In(c, ringing)
      BY <2>2 DEF In
    <3>3. \A c : Tracked(c)' <=> Tracked(c)
      BY <2>2 DEF Tracked
    <3>4. TypeOK'
      BY <2>2 DEF IInv, TypeOK
    <3>5. States'
      BY <2>2 DEF IInv, States
    <3>6. RingingCall'
      BY <2>2, <3>2 DEF IInv, RingingCall, OneEach
    <3> QED  BY <2>2, <3>1, <3>2, <3>3, <3>4, <3>5, <3>6
  <2> QED  BY <2>1, <2>2 DEF Finds
<1>3. /\ \A c : Announced(c)' <=> Announced(c) /\ c # x
      /\ \A d \in callbacks' : d \in callbacks /\ d[2] # x
  BY OneLess
<1>4. Announced(x)
  BY DEF Announced
<1>5. \A d \in callbacks : d[2] \in Calls
  BY <1>1 DEF Typed
<1> HIDE DEF x
<1>6. Callbacks'
  BY <1>2, <1>3, <1>5 DEF IInv, Callbacks
<1>7. \A c \in Incoming : c \in Calls
  BY DEF Calls
<1>8. Stuck' = Stuck
  BY <1>2, <1>3, <1>4, <1>7 DEF Stuck
<1>9. Foreign' \subseteq Foreign
  BY <1>2, <1>3 DEF Foreign
<1>10. Accounts'
  BY <1>8, <1>9, Cover DEF IInv, Accounts
<1> QED  BY <1>2, <1>6, <1>10 DEF IInv

\* The accounts where call x's callback takes connection h.
LEMMA TakesAccounts ==
    ASSUME IInv, NEW cb \in callbacks, NEW h, Takes(cb, h), callbacks' = callbacks \ {cb},
           ims' = ims, together' = together
    PROVE  Accounts'
<1> DEFINE x == cb[2]
<1>1. /\ Typed /\ x \in Calls /\ ims[x] = "over" /\ In(h, ringing) /\ h # x
      /\ cb[1] # "terminated"
      /\ Tracked(x) => cb[3] = FALSE
      /\ Removed(h) /\ h \in Incoming /\ h \in Calls
  BY IsTyped DEF IInv, Typed, Callbacks, Takes, RingingCall, Calls
<1>2. \A c : In(c, ringing)' <=> In(c, ringing) /\ c # h
  BY <1>1, RemovedIs
<1>3. /\ \A c : Announced(c)' <=> Announced(c) /\ c # x
      /\ \A d \in callbacks' : d \in callbacks /\ d[2] # x
  BY OneLess
<1>4. Announced(x) /\ x \notin Stuck
  BY DEF Announced, Stuck
<1>5. Covered(Foreign, Stuck) /\ Stuck \subseteq Detached \cap together
  BY DEF IInv, Accounts
<1>6. \A c \in Incoming : c \in Calls
  BY DEF Calls
<1>7. \A c : In(c, ringing) => Tracked(c)
  BY DEF IInv, RingingCall, Tracked
<1>8. CASE Tracked(x)
  <2>1. x \in Detached /\ In(x, ringing) /\ x \in Incoming
    BY <1>1, <1>8, CallAssumption DEF IInv, Callbacks
  <2>2. x \in together
    BY <1>1, <2>1 DEF IInv, RingingCall
  <2>3. Stuck' = (Stuck \ {h}) \cup {x}
    BY <1>1, <1>2, <1>3, <2>1 DEF Stuck
  <2>4. Foreign' \subseteq Foreign \cup {h}
    BY <1>2, <1>3 DEF Foreign
  <2>5. CASE h \in Stuck
    <3>1. h \notin Foreign'
      BY <2>5, <1>3 DEF Stuck, Foreign, Announced
    <3>2. Covered(Foreign, (Stuck \ {h}) \cup {x})
      BY <1>4, <1>5, CoverSwap
    <3>3. Foreign' \in SUBSET Foreign
      BY <2>4, <3>1
    <3>4. Covered(Foreign', Stuck')
      BY <3>2, <3>3, <2>3, Cover
    <3> QED  BY <1>5, <2>1, <2>2, <2>3, <3>4 DEF Accounts
  <2>6. CASE h \notin Stuck
    <3>1. Covered(Foreign \cup {h}, Stuck \cup {x})
      BY <1>4, <1>5, CoverMore
    <3>2. Stuck' = Stuck \cup {x}
      BY <2>3, <2>6
    <3>3. Foreign' \in SUBSET (Foreign \cup {h})
      BY <2>4
    <3>4. Covered(Foreign', Stuck')
      BY <3>1, <3>2, <3>3, Cover
    <3> QED  BY <1>5, <2>1, <2>2, <3>2, <3>4 DEF Accounts
  <2> QED  BY <2>5, <2>6
<1>9. CASE ~Tracked(x)
  <2>1. ~In(x, ringing)
    BY <1>7, <1>9
  <2>2. x \in Incoming
    BY <1>1, <1>9 DEF IInv, Callbacks, Calls
  <2>3. x \in Foreign
    BY <1>1, <2>1, <2>2 DEF Foreign
  <2>4. Stuck' = Stuck \ {h}
    BY <1>2, <1>3, <2>1 DEF Stuck
  <2>5. Foreign' \subseteq (Foreign \ {x}) \cup {h}
    BY <1>2, <1>3 DEF Foreign
  <2>6. CASE h \in Stuck
    <3>1. h \notin Foreign'
      BY <2>6, <1>3 DEF Stuck, Foreign, Announced
    <3>2. Covered(Foreign \ {x}, Stuck \ {h})
      BY <1>5, <2>3, CoverLess
    <3>3. Foreign' \in SUBSET (Foreign \ {x})
      BY <2>5, <3>1
    <3>4. Covered(Foreign', Stuck')
      BY <3>2, <3>3, <2>4, Cover
    <3> QED  BY <1>5, <2>4, <3>4 DEF Accounts
  <2>7. CASE h \notin Stuck
    <3>1. Covered((Foreign \ {x}) \cup {h}, Stuck)
      BY <1>5, <2>3, CoverTurn
    <3>2. Stuck' = Stuck
      BY <2>4, <2>7
    <3>3. Foreign' \in SUBSET ((Foreign \ {x}) \cup {h})
      BY <2>5
    <3>4. Covered(Foreign', Stuck')
      BY <3>1, <3>2, <3>3, Cover
    <3> QED  BY <1>5, <3>2, <3>4 DEF Accounts
  <2> QED  BY <2>6, <2>7
<1> QED  BY <1>8, <1>9

LEMMA TakesKeeps ==
    ASSUME IInv, NEW cb \in callbacks, NEW h, Takes(cb, h), callbacks' = callbacks \ {cb},
           ims' = ims, together' = together, pendingMO' \in {pendingMO, None}
    PROVE  IInv'
<1> DEFINE x == cb[2]
<1>1. /\ Typed /\ x \in Calls /\ In(h, ringing) /\ h # x
      /\ Tracked(x) => cb[3] = FALSE
      /\ Removed(h) /\ h \in Incoming /\ h \in Calls
  BY IsTyped DEF IInv, Typed, Takes, RingingCall, Calls
<1>2. TypeOK' /\ States' /\ RingingCall'
  <2>1. callbacks' \in SUBSET callbacks
    OBVIOUS
  <2> QED  BY <1>1, <2>1, RemovedKeeps
<1>3. /\ \A c : In(c, ringing)' <=> In(c, ringing) /\ c # h
      /\ \A c \in Calls : Tracked(c)' <=> Tracked(c) /\ c # h
  BY <1>1, RemovedIs
<1>4. /\ \A c : Announced(c)' <=> Announced(c) /\ c # x
      /\ \A d \in callbacks' : d \in callbacks /\ d[2] # x
  BY OneLess
<1>5. /\ \A d \in callbacks : d[2] \in Calls
      /\ Tracked(x) => In(x, ringing)
      /\ h \notin Outgoing
  BY <1>1, CallAssumption DEF IInv, Typed, Callbacks
<1> HIDE DEF x
<1>6. Callbacks'
  BY <1>1, <1>3, <1>4, <1>5 DEF IInv, Callbacks
<1> QED  BY <1>2, <1>6, TakesAccounts DEF IInv

LEMMA DeliverKeeps == ASSUME IInv, Deliver PROVE IInv'
BY DeliverDoes, FindsKeeps, TakesKeeps

-----------------------------------------------------------------------------

LEMMA AlwaysIInv == Spec => []IInv
<1>1. Init => IInv
  BY InitIInv
<1>2. IInv /\ [Next]_vars => IInv'
  <2>1. ASSUME IInv, UNCHANGED vars PROVE IInv'
    <3>1. /\ conn' = conn /\ ringing' = ringing /\ pendingMO' = pendingMO
          /\ ims' = ims /\ callbacks' = callbacks /\ together' = together
      BY <2>1 DEF vars
    <3>2. TypeOK' /\ States' /\ RingingCall'
      BY <2>1, <3>1 DEF IInv, TypeOK, States, RingingCall, In, OneEach
    <3>3. Callbacks' /\ Accounts'
      BY <2>1, <3>1, NothingEnds DEF Tracked
    <3> QED  BY <3>2, <3>3 DEF IInv
  <2> QED  BY <2>1, DialKeeps, AlertingKeeps, RingKeeps, AnswerKeeps, HangUpKeeps,
              RemoteEndKeeps, DeliverKeeps DEF Next, UserOrNetwork
<1> QED  BY <1>1, <1>2, PTL DEF Spec

\* The tracker's and IMS's states have the types the module says.
THEOREM CallTypeCorrect == Spec => []TypeOK
<1>1. IInv => TypeOK
  BY DEF IInv
<1> QED  BY <1>1, AlwaysIInv, PTL

\* Whatever calls ring, come and go, and in whatever order their callbacks are
\* delivered, a connection whose call is over still has its own callback to
\* come, or it is one whose callback may have lost its object and that shared
\* mRingingCall with another call.
THEOREM NoCallStuck == Spec => []NoStuckCall
<1>1. ASSUME IInv, NEW c \in Calls \ (Detached \cap together), Tracked(c), ims[c] = "over",
             ~Announced(c)
      PROVE  FALSE
  <2>1. In(c, ringing)
    BY <1>1 DEF IInv, Callbacks
  <2>2. c \in Incoming
    BY <1>1, <2>1 DEF IInv, RingingCall
  <2>3. c \in Stuck
    BY <1>1, <2>1, <2>2 DEF Stuck
  <2> QED  BY <1>1, <2>3 DEF IInv, Accounts
<1>2. IInv => NoStuckCall
  BY <1>1 DEF NoStuckCall, Announced
<1> QED  BY <1>2, AlwaysIInv, PTL

\* mRingingCall never holds a connection that the cleanup has removed.
THEOREM RingingAlwaysTracked == Spec => []RingingTracked
<1>1. IInv => RingingTracked
  BY DEF IInv, RingingCall, In, RingingTracked, Tracked
<1> QED  BY <1>1, AlwaysIInv, PTL

\* A call leaves the tracker by its own callback, or it is over, or it rings
\* beside a rejected call.
LEMMA LiveStaysStep ==
    ASSUME IInv, [Next]_vars, NEW c \in Calls, ims[c] = "live", Tracked(c), ~Tracked(c)'
    PROVE  BesideRejected(c)
<1>1. Typed
  BY IsTyped DEF IInv
<1>2. CASE Deliver
  <2>1. PICK cb \in callbacks : /\ Finds(cb) \/ \E h : Takes(cb, h)
                                /\ callbacks' = callbacks \ {cb}
    BY <1>2, DeliverDoes
  <2>2. cb[2] \in Calls /\ ims[cb[2]] = "over"
    BY <1>1, <2>1 DEF Typed, IInv, Callbacks
  <2>3. ~Finds(cb)
    <3>1. CASE Removed(cb[2])
      BY <2>2, <3>1, RemovedIs
    <3>2. CASE UNCHANGED <<conn, ringing>>
      BY <3>2 DEF Tracked
    <3> QED  BY <3>1, <3>2 DEF Finds
  <2>4. PICK h : Takes(cb, h)
    BY <2>1, <2>3
  <2>5. In(h, ringing) /\ h # cb[2] /\ Removed(h) /\ h \in Calls
    BY <2>4 DEF Takes, IInv, RingingCall, Calls
  <2>6. c = h
    BY <2>5, RemovedIs
  <2>7. conn[c] = "ringing"
    BY <2>5, <2>6 DEF IInv, RingingCall, States
  <2>8. \E d \in Detached : In(d, ringing) /\ d # c /\ ims[d] = "over"
    <3>1. CASE Tracked(cb[2])
      BY <2>2, <2>4, <2>5, <2>6, <3>1 DEF Takes, IInv, Callbacks
    <3>2. CASE ~Tracked(cb[2])
      <4>1. cb[2] \in Foreign
        <5>1. cb[2] \in Incoming
          BY <2>2, <3>2 DEF IInv, Callbacks, Calls
        <5>2. ~In(cb[2], ringing)
          BY <3>2 DEF IInv, RingingCall, Tracked
        <5>3. cb[1] # "terminated"
          BY <2>4 DEF Takes
        <5> QED  BY <5>1, <5>2, <5>3 DEF Foreign
      <4>2. PICK d : d \in Stuck
        BY <4>1 DEF IInv, Accounts, Covered, OneToOne
      <4> QED  BY <4>2 DEF Stuck, IInv, Accounts
    <3> QED  BY <3>1, <3>2
  <2> QED  BY <2>7, <2>8 DEF BesideRejected, In, ToSet
<1>3. CASE UNCHANGED vars
  BY <1>3 DEF vars, Tracked
<1>4. CASE UserOrNetwork
  <2>1. \E x \in Calls, s \in {"dialing", "alerting", "ringing", "active", "disconnecting"} :
          conn' = conn \/ conn' = [conn EXCEPT ![x] = s]
    BY <1>4 DEF UserOrNetwork, Dial, Alerting, Ring, Answer, HangUp, RemoteEnd, Becomes, Calls
  <2> QED  BY <1>1, <2>1 DEF Typed, Tracked
<1> QED  BY <1>2, <1>3, <1>4 DEF Next

\* The cleanup that follows a callback never removes a call that is still live,
\* but one that rings beside a rejected one: however many calls ring, and in
\* whatever order their callbacks come, answered and outgoing calls stay, and so
\* does a call that rings with none rejected.
THEOREM LiveAlwaysStays == Spec => LiveStays
<1>1. IInv /\ [Next]_vars =>
        [\A c \in Calls : ims[c] = "live" /\ Tracked(c) /\ ~BesideRejected(c) => Tracked(c)']_vars
  BY LiveStaysStep
<1> QED  BY <1>1, AlwaysIInv, PTL DEF Spec, LiveStays
=============================================================================
