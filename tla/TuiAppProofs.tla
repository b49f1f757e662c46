---------------------------- MODULE TuiAppProofs ----------------------------
(***************************************************************************)
(* Proofs about the list application (TuiApp), for every set of names,     *)
(* every configuration on disk and every number of saves, faults, shells   *)
(* and departures: the indices kept by the list, a form, a dialog or the   *)
(* mux screen denote the entry that was highlighted when it was opened;    *)
(* what is drawn is what a key does; a connection never outlives its       *)
(* screen; a password stays under its bookmark's name.                     *)
(***************************************************************************)
EXTENDS TuiApp, FiniteSetTheorems, SequenceTheorems, WellFoundedInduction, TLAPS

-----------------------------------------------------------------------------
(* Sequences.                                                              *)

\* One element is taken out, or one is put in.
LEMMA Removed ==
  ASSUME NEW S, NEW q \in Seq(S), NEW k \in 1 .. Len(q)
  PROVE  RemoveAt(q, k) \in Seq(S) /\ Len(RemoveAt(q, k)) = Len(q) - 1
<1> DEFINE a == SubSeq(q, 1, k - 1)
           b == SubSeq(q, k + 1, Len(q))
<1>1. Len(q) \in Nat /\ k \in Nat /\ 1 <= k /\ k <= Len(q)
  OBVIOUS
<1>2. a \in Seq(S) /\ Len(a) = k - 1
  BY <1>1, SubSeqProperties
<1>3. b \in Seq(S) /\ Len(b) = Len(q) - k
  BY <1>1, SubSeqProperties
<1> HIDE DEF a, b
<1>4. a \o b \in Seq(S) /\ Len(a \o b) = Len(a) + Len(b)
  BY ONLY <1>2, <1>3, ConcatProperties
<1>5. RemoveAt(q, k) = a \o b
  BY DEF RemoveAt, a, b
<1>6. Len(q) - 1 = Len(a) + Len(b)
  BY <1>1, <1>2, <1>3
<1> QED BY ONLY <1>4, <1>5, <1>6

LEMMA Inserted ==
  ASSUME NEW S, NEW q \in Seq(S), NEW k \in 1 .. Len(q) + 1, NEW e \in S
  PROVE  InsertAt(q, k, e) \in Seq(S) /\ Len(InsertAt(q, k, e)) = Len(q) + 1
<1> DEFINE a == SubSeq(q, 1, k - 1)
           m == <<e>>
           b == SubSeq(q, k, Len(q))
<1>1. Len(q) \in Nat /\ k \in Nat /\ 1 <= k /\ k <= Len(q) + 1
  OBVIOUS
<1>2. a \in Seq(S) /\ Len(a) = k - 1
  BY <1>1, SubSeqProperties
<1>3. b \in Seq(S) /\ Len(b) = Len(q) - k + 1
  BY <1>1, SubSeqProperties
<1>4. m \in Seq(S) /\ Len(m) = 1
  OBVIOUS
<1> HIDE DEF a, b, m
<1>5. a \o m \in Seq(S) /\ Len(a \o m) = Len(a) + Len(m)
  BY ONLY <1>2, <1>4, ConcatProperties
<1>6. (a \o m) \o b \in Seq(S) /\ Len((a \o m) \o b) = Len(a \o m) + Len(b)
  BY ONLY <1>3, <1>5, ConcatProperties
<1>7. InsertAt(q, k, e) = (a \o m) \o b
  BY DEF InsertAt, a, b, m
<1>8. Len(q) + 1 = Len(a) + Len(m) + Len(b)
  BY <1>1, <1>2, <1>3, <1>4
<1> QED BY ONLY <1>5, <1>6, <1>7, <1>8

\* A set of numbers that is not empty has a first one.
LEMMA FirstOf ==
  ASSUME NEW A, A \subseteq Nat, A # {}
  PROVE  \E i \in A : \A j \in A : i <= j
<1>1. PICK x \in A : \A y \in A : ~(<<y, x>> \in OpToRel(<, Nat))
  BY NatLessThanWellFounded, WFMin
<1>2. ASSUME NEW y \in A
      PROVE  x <= y
  <2>1. x \in Nat /\ y \in Nat
    OBVIOUS
  <2>2. ~(<<y, x>> \in OpToRel(<, Nat))
    BY <1>1, Zenon
  <2>3. <<y, x>> \in Nat \X Nat
    BY <2>1
  <2>4. ~(y < x)
    BY <2>2, <2>3, Zenon DEF OpToRel
  <2> QED BY <2>1, <2>4
<1> QED BY <1>2

\* The rows of a table are indices of its entries.  Both that the function upTo
\* exists and what it holds follow from its first place where that fails.
LEMMA IndicesAreRows ==
  ASSUME NEW S, NEW seq \in Seq(S), NEW base \in Nat, NEW query, NEW env
  PROVE  Indices(seq, base, query, env) \in Seq(base + 1 .. base + Len(seq))
<1> DEFINE R == base + 1 .. base + Len(seq)
           Row(n, before) ==
             IF Shows(seq[n], query, env) THEN Append(before, base + n) ELSE before
           Table(g, k) == g = [n \in 0 .. k |-> IF n = 0 THEN <<>> ELSE Row(n, g[n - 1])]
           upTo == CHOOSE g : Table(g, Len(seq))
<1>1. Indices(seq, base, query, env) = upTo[Len(seq)]
  BY DEF Indices
<1> HIDE DEF upTo
<1>2. Len(seq) \in Nat
  OBVIOUS
<1>3. \E g : Table(g, Len(seq))
  <2> DEFINE Bad == {k \in 0 .. Len(seq) : ~\E g : Table(g, k)}
  <2> SUFFICES ASSUME ~\E g : Table(g, Len(seq))
               PROVE  FALSE
    OBVIOUS
  <2>1. Bad \subseteq Nat /\ Len(seq) \in Bad
    BY <1>2
  <2>2. PICK k \in Bad : \A j \in Bad : k <= j
    <3> HIDE DEF Bad
    <3> QED BY <2>1, FirstOf
  <2>3. k \in 0 .. Len(seq) /\ ~\E g : Table(g, k)
    BY <2>2
  <2>4. CASE k = 0
    <3>1. Table([n \in 0 .. 0 |-> <<>>], 0)
      OBVIOUS
    <3> QED BY <2>3, <2>4, <3>1
  <2>5. CASE k # 0
    <3>1. k - 1 \in 0 .. Len(seq) /\ k - 1 \notin Bad
      <4>1. k \in 0 .. Len(seq) /\ k - 1 < k
        BY <2>3, <1>2
      <4> HIDE DEF Bad
      <4> QED BY <4>1, <2>1, <2>2, <2>5, <1>2
    <3>2. PICK g : Table(g, k - 1)
      BY <3>1
    <3> HIDE DEF Row
    <3> DEFINE g2 == [n \in 0 .. k |-> IF n = k THEN Row(k, g[k - 1]) ELSE g[n]]
    <3>3. ASSUME NEW n \in 0 .. k
          PROVE  g2[n] = IF n = 0 THEN <<>> ELSE Row(n, g2[n - 1])
      <4>1. CASE n = k
        <5>1. g2[n - 1] = g[k - 1] /\ n # 0
          BY <2>3, <2>5, <4>1, <1>2
        <5> QED BY <5>1, <4>1
      <4>2. CASE n # k
        <5>1. n \in 0 .. k - 1 /\ g2[n] = g[n] /\ (n # 0 => g2[n - 1] = g[n - 1])
          BY <2>3, <2>5, <4>2, <1>2
        <5> QED BY <5>1, <3>2
      <4> QED BY <4>1, <4>2
    <3>4. Table(g2, k)
      BY <3>3
    <3> QED BY <3>4, <2>3
  <2> QED BY <2>4, <2>5
<1>4. Table(upTo, Len(seq))
  BY <1>3 DEF upTo
<1>5. upTo[Len(seq)] \in Seq(R)
  <2> DEFINE Bad == {k \in 0 .. Len(seq) : upTo[k] \notin Seq(R)}
  <2> SUFFICES ASSUME upTo[Len(seq)] \notin Seq(R)
               PROVE  FALSE
    OBVIOUS
  <2>1. Bad \subseteq Nat /\ Len(seq) \in Bad
    BY <1>2
  <2>2. PICK k \in Bad : \A j \in Bad : k <= j
    <3> HIDE DEF Bad
    <3> QED BY <2>1, FirstOf
  <2>3. k \in 0 .. Len(seq) /\ upTo[k] \notin Seq(R)
    BY <2>2
  <2>4. CASE k = 0
    <3>1. upTo[k] = <<>>
      BY <1>4, <2>3, <2>4
    <3> QED BY <3>1, <2>3
  <2>5. CASE k # 0
    <3>1. k - 1 \in 0 .. Len(seq) /\ k - 1 \notin Bad
      <4>1. k \in 0 .. Len(seq) /\ k - 1 < k
        BY <2>3, <1>2
      <4> HIDE DEF Bad
      <4> QED BY <4>1, <2>1, <2>2, <2>5, <1>2
    <3>2. upTo[k - 1] \in Seq(R)
      BY <3>1
    <3>3. upTo[k] = Row(k, upTo[k - 1])
      BY <1>4, <2>3, <2>5
    <3>4. base + k \in R
      BY <2>3, <2>5, <1>2
    <3>5. Append(upTo[k - 1], base + k) \in Seq(R)
      BY <3>2, <3>4
    <3>6. upTo[k] = Append(upTo[k - 1], base + k) \/ upTo[k] = upTo[k - 1]
      BY <3>3
    <3> QED BY <3>2, <3>5, <3>6, <2>3
  <2> QED BY <2>4, <2>5
<1> QED BY <1>1, <1>5

-----------------------------------------------------------------------------
(* The form.                                                               *)

\* A form: of an entry with session lines the cursor stands on one of them and
\* they are shown.
FormSet ==
  [open : {TRUE}, target : {"add", "bookmark", "group"}, idx : Nat,
   orig : Text, name : Text, env : Envs, pw : Text,
   modified : BOOLEAN, stored : BOOLEAN, sessions : Seq(Text),
   cur : Nat, collapsed : BOOLEAN, focused : 1 .. 5]
OnLine(f) ==
  IF f.sessions = <<>> THEN f.cur = 0 ELSE ~f.collapsed /\ f.cur < Len(f.sessions)
IsForm(f) == f \in FormSet /\ OnLine(f)

\* A key keeps the form, and what it is the form of.
SameForm(f, g) == IsForm(g) /\ g.target = f.target /\ g.idx = f.idx

LEMMA Counts == FieldCount = 3 /\ SessionName = 4 /\ SessionCmd = 5
  BY DEF FieldCount, Fields, SessionName, SessionCmd

LEMMA Places ==
  /\ 1 \in 1 .. 5 /\ 2 \in 1 .. 5 /\ 3 \in 1 .. 5 /\ 4 \in 1 .. 5 /\ 5 \in 1 .. 5
  /\ 0 \in Nat
  OBVIOUS

\* Texts there are.
LEMMA TextsAre ==
  /\ "" \in Text /\ "secret" \in Text /\ TempName \in Text
  /\ Names \subseteq Text /\ SNames \subseteq Text
  BY DEF Text

LEMMA EnvsAre ==
  /\ Envs = {"", "production"} /\ "" \in Envs
  /\ DOMAIN EnvOptions = 1 .. 2 /\ Len(EnvOptions) = 2
<1>1. DOMAIN EnvOptions = 1 .. 2 /\ Len(EnvOptions) = 2
      /\ EnvOptions[1] = "" /\ EnvOptions[2] = "production" /\ 1 .. 2 = {1, 2}
  BY DEF EnvOptions
<1> QED BY <1>1 DEF Envs

\* Any other focus will do, and any line there is.
LEMMA Focus ==
  ASSUME NEW f, IsForm(f), NEW k \in 1 .. 5
  PROVE  SameForm(f, [f EXCEPT !.focused = k])
  BY DEF IsForm, FormSet, OnLine, SameForm

LEMMA Line ==
  ASSUME NEW f, IsForm(f), NEW k \in 1 .. 5, NEW c \in Nat,
         f.sessions # <<>>, c < Len(f.sessions)
  PROVE  SameForm(f, [f EXCEPT !.cur = c, !.focused = k])
  BY DEF IsForm, FormSet, OnLine, SameForm

\* Tab and the like.
LEMMA NextKeeps ==
  ASSUME NEW f, IsForm(f)
  PROVE  SameForm(f, NextField(f))
<1>1. /\ f.cur \in Nat /\ Len(f.sessions) \in Nat /\ f.focused \in 1 .. 5
      /\ IsGroup(f) => f.cur < Len(f.sessions) /\ f.sessions # <<>>
  BY DEF IsForm, FormSet, OnLine, IsGroup
<1>2. SameForm(f, f)
  BY DEF SameForm
<1>3. CASE ShowsSessions(f) /\ f.focused = 3
  <2>1. NextField(f) = [f EXCEPT !.cur = 0, !.focused = 4]
    BY <1>3, Counts DEF NextField
  <2>2. 0 < Len(f.sessions) /\ f.sessions # <<>>
    BY <1>1, <1>3 DEF ShowsSessions
  <2>3. SameForm(f, [f EXCEPT !.cur = 0, !.focused = 4])
    BY <2>2, Line, Places
  <2> QED BY <2>1, <2>3
<1>4. CASE ShowsSessions(f) /\ f.focused = 4
  <2>1. NextField(f) = [f EXCEPT !.focused = 5]
    BY <1>4, Counts DEF NextField
  <2>2. SameForm(f, [f EXCEPT !.focused = 5])
    BY Focus, Places
  <2> QED BY <2>1, <2>2
<1>5. CASE ShowsSessions(f) /\ f.focused = 5
  <2>1. NextField(f) = IF f.cur < Len(f.sessions) - 1
                       THEN [f EXCEPT !.cur = f.cur + 1, !.focused = 4]
                       ELSE [f EXCEPT !.cur = 0, !.focused = 1]
    BY <1>5, Counts DEF NextField
  <2>2. 0 < Len(f.sessions) /\ f.sessions # <<>>
    BY <1>1, <1>5 DEF ShowsSessions
  <2>3. CASE f.cur < Len(f.sessions) - 1
    <3>1. f.cur + 1 \in Nat /\ f.cur + 1 < Len(f.sessions)
      BY <1>1, <2>3
    <3>2. SameForm(f, [f EXCEPT !.cur = f.cur + 1, !.focused = 4])
      BY <2>2, <3>1, Line, Places
    <3> QED BY <2>1, <2>3, <3>2
  <2>4. CASE ~(f.cur < Len(f.sessions) - 1)
    <3>1. SameForm(f, [f EXCEPT !.cur = 0, !.focused = 1])
      BY <2>2, Line, Places
    <3> QED BY <2>1, <2>4, <3>1
  <2> QED BY <2>3, <2>4
<1>6. CASE ~(ShowsSessions(f) /\ f.focused \in {3, 4, 5})
  <2>1. NextField(f) = IF f.focused < 3 THEN [f EXCEPT !.focused = f.focused + 1] ELSE f
    BY <1>6, Counts DEF NextField
  <2>2. CASE f.focused < 3
    <3>1. f.focused + 1 \in 1 .. 5
      BY <1>1, <2>2
    <3> QED BY <2>1, <2>2, <3>1, Focus
  <2>3. CASE ~(f.focused < 3)
    BY <1>2, <2>1, <2>3
  <2> QED BY <2>2, <2>3
<1> QED BY <1>3, <1>4, <1>5, <1>6

LEMMA PrevKeeps ==
  ASSUME NEW f, IsForm(f)
  PROVE  SameForm(f, PrevField(f))
<1>1. /\ f.cur \in Nat /\ Len(f.sessions) \in Nat /\ f.focused \in 1 .. 5
      /\ IsGroup(f) => f.cur < Len(f.sessions) /\ f.sessions # <<>>
  BY DEF IsForm, FormSet, OnLine, IsGroup
<1>2. SameForm(f, f)
  BY DEF SameForm
<1>3. CASE ShowsSessions(f) /\ f.focused = 5
  <2>1. PrevField(f) = [f EXCEPT !.focused = 4]
    BY <1>3, Counts DEF PrevField
  <2>2. SameForm(f, [f EXCEPT !.focused = 4])
    BY Focus, Places
  <2> QED BY <2>1, <2>2
<1>4. CASE ShowsSessions(f) /\ f.focused = 4
  <2>1. PrevField(f) = IF f.cur > 0 THEN [f EXCEPT !.cur = f.cur - 1, !.focused = 5]
                       ELSE [f EXCEPT !.focused = 3]
    BY <1>4, Counts DEF PrevField
  <2>2. CASE f.cur > 0
    <3>1. f.cur - 1 \in Nat /\ f.cur - 1 < Len(f.sessions) /\ f.sessions # <<>>
      BY <1>1, <1>4, <2>2 DEF ShowsSessions
    <3>2. SameForm(f, [f EXCEPT !.cur = f.cur - 1, !.focused = 5])
      BY <3>1, Line, Places
    <3> QED BY <2>1, <2>2, <3>2
  <2>3. CASE ~(f.cur > 0)
    <3>1. SameForm(f, [f EXCEPT !.focused = 3])
      BY Focus, Places
    <3> QED BY <2>1, <2>3, <3>1
  <2> QED BY <2>2, <2>3
<1>5. CASE ShowsSessions(f) /\ f.focused = 1
  <2>1. PrevField(f) = [f EXCEPT !.cur = Len(f.sessions) - 1, !.focused = 5]
    BY <1>5, Counts DEF PrevField
  <2>2. Len(f.sessions) - 1 \in Nat /\ Len(f.sessions) - 1 < Len(f.sessions) /\ f.sessions # <<>>
    BY <1>1, <1>5 DEF ShowsSessions
  <2>3. SameForm(f, [f EXCEPT !.cur = Len(f.sessions) - 1, !.focused = 5])
    BY <2>2, Line, Places
  <2> QED BY <2>1, <2>3
<1>6. CASE ~(ShowsSessions(f) /\ f.focused \in {1, 4, 5})
  <2>1. PrevField(f) = IF f.focused > 1 THEN [f EXCEPT !.focused = f.focused - 1] ELSE f
    BY <1>6, Counts DEF PrevField
  <2>2. CASE f.focused > 1
    <3>1. f.focused - 1 \in 1 .. 5
      BY <1>1, <2>2
    <3> QED BY <2>1, <2>2, <3>1, Focus
  <2>3. CASE ~(f.focused > 1)
    BY <1>2, <2>1, <2>3
  <2> QED BY <2>2, <2>3
<1> QED BY <1>3, <1>4, <1>5, <1>6

LEMMA CycleKeeps ==
  ASSUME NEW f, IsForm(f)
  PROVE  SameForm(f, CycleEnv(f))
<1> DEFINE i == CHOOSE j \in DOMAIN EnvOptions : EnvOptions[j] = f.env
           e == EnvOptions[(i % Len(EnvOptions)) + 1]
<1>1. e \in Envs
  <2>1. \E j \in DOMAIN EnvOptions : EnvOptions[j] = f.env
    BY DEF IsForm, FormSet, Envs
  <2>2. i \in DOMAIN EnvOptions
    BY <2>1
  <2>3. DOMAIN EnvOptions = 1 .. 2 /\ Len(EnvOptions) = 2
    BY EnvsAre
  <2> HIDE DEF i
  <2>4. (i % Len(EnvOptions)) + 1 \in 1 .. 2
    BY <2>2, <2>3
  <2> QED BY <2>3, <2>4 DEF Envs
<1>2. CycleEnv(f) = [f EXCEPT !.env = e]
  BY DEF CycleEnv
<1> HIDE DEF e
<1> QED BY <1>1, <1>2 DEF IsForm, FormSet, OnLine, SameForm

LEMMA NameTexts ==
  ASSUME NEW f, f.focused = 1
  PROVE  Texts(f) = Names \cup {""}
<1>1. SessionName = 4
  BY Counts
<1> QED BY <1>1 DEF Texts

LEMMA RetypeKeeps ==
  ASSUME NEW f, IsForm(f), NEW t \in Texts(f)
  PROVE  SameForm(f, Retype(f, t))
<1>1. /\ f.cur \in Nat /\ Len(f.sessions) \in Nat /\ f.focused \in 1 .. 5
      /\ f.sessions \in Seq(Text)
  BY DEF IsForm, FormSet
<1>2. SameForm(f, f)
  BY DEF SameForm
<1>3. CASE f.focused > 3 /\ f.cur \notin 0 .. (Len(f.sessions) - 1)
  <2>1. Retype(f, t) = f
    BY <1>1, <1>3, Counts DEF Retype
  <2> QED BY <1>2, <2>1
<1>4. CASE f.focused = 4 /\ f.cur \in 0 .. (Len(f.sessions) - 1)
  <2>1. Retype(f, t) = [f EXCEPT !.sessions = [f.sessions EXCEPT ![f.cur + 1] = t]]
    BY <1>1, <1>4, Counts DEF Retype
  <2>2. t \in Text
    BY <1>4, Counts, FormAssumption, TextsAre DEF Texts
  <2> DEFINE q == [f.sessions EXCEPT ![f.cur + 1] = t]
  <2>3. q \in Seq(Text) /\ Len(q) = Len(f.sessions) /\ q # <<>>
    BY <1>1, <1>4, <2>2
  <2> HIDE DEF q
  <2>4. OnLine([f EXCEPT !.sessions = q])
    BY <1>4, <2>3 DEF IsForm, FormSet, OnLine
  <2> QED BY <2>1, <2>3, <2>4 DEF q, IsForm, FormSet, SameForm
<1>5. CASE f.focused = 5 /\ f.cur \in 0 .. (Len(f.sessions) - 1)
  BY <1>2, <1>5, Counts DEF Retype
<1>6. CASE f.focused = 1
  <2>1. Retype(f, t) = [f EXCEPT !.name = t, !.env = Detect[t]]
    BY <1>6, Counts DEF Retype
  <2>2. t \in Names \cup {""}
    BY <1>6, NameTexts
  <2>3. t \in Text /\ Detect[t] \in Envs
    BY <2>2, FormAssumption, TextsAre
  <2> QED BY <2>1, <2>3 DEF IsForm, FormSet, OnLine, SameForm
<1>7. CASE f.focused = 3
  <2>1. Retype(f, t) = [f EXCEPT !.pw = t, !.modified = TRUE]
    BY <1>7, Counts DEF Retype
  <2>2. t \in Text
    BY <1>7, Counts, TextsAre DEF Texts
  <2> QED BY <2>1, <2>2 DEF IsForm, FormSet, OnLine, SameForm
<1>8. CASE f.focused \notin {1, 3, 4, 5}
  BY <1>2, <1>8, Counts DEF Retype
<1> QED BY <1>1, <1>3, <1>4, <1>5, <1>6, <1>7, <1>8

LEMMA AddLineKeeps ==
  ASSUME NEW f, IsForm(f)
  PROVE  SameForm(f, AddSessionLine(f))
<1> DEFINE len == Len(f.sessions)
           at == IF f.cur + 1 < len THEN f.cur + 1 ELSE len
           q == InsertAt(f.sessions, at + 1, "")
           c == IF f.cur + 1 < len + 1 THEN f.cur + 1 ELSE len
<1>1. f.cur \in Nat /\ len \in Nat /\ f.sessions \in Seq(Text)
  BY DEF IsForm, FormSet
<1>2. q \in Seq(Text) /\ Len(q) = len + 1
  <2>1. at + 1 \in 1 .. Len(f.sessions) + 1
    BY <1>1
  <2> HIDE DEF at
  <2> QED BY <1>1, <2>1, Inserted, TextsAre
<1>3. c \in Nat /\ c < len + 1
  BY <1>1
<1>4. AddSessionLine(f) = [f EXCEPT !.sessions = q, !.cur = c, !.collapsed = FALSE]
  BY DEF AddSessionLine
<1> HIDE DEF q, c, len
<1>5. q # <<>>
  BY <1>1, <1>2
<1> QED BY <1>1, <1>2, <1>3, <1>4, <1>5 DEF IsForm, FormSet, OnLine, SameForm

LEMMA RemoveLineKeeps ==
  ASSUME NEW f, IsForm(f)
  PROVE  SameForm(f, RemoveSessionLine(f))
<1>1. f.cur \in Nat /\ Len(f.sessions) \in Nat /\ f.sessions \in Seq(Text)
  BY DEF IsForm, FormSet
<1>2. CASE f.sessions = <<>>
  BY <1>2 DEF RemoveSessionLine, SameForm
<1>3. CASE f.sessions # <<>>
  <2> DEFINE left == RemoveAt(f.sessions, f.cur + 1)
             c == IF f.cur < Len(left) THEN f.cur
                  ELSE IF left = <<>> THEN 0 ELSE Len(left) - 1
  <2>1. f.cur + 1 \in 1 .. Len(f.sessions)
    BY <1>1, <1>3 DEF IsForm, OnLine
  <2>2. left \in Seq(Text)
    BY <1>1, <2>1, Removed
  <2>3. RemoveSessionLine(f) =
          [f EXCEPT !.sessions = left, !.cur = c, !.collapsed = f.collapsed \/ left = <<>>]
    BY <1>3 DEF RemoveSessionLine
  <2> HIDE DEF left
  <2>4. Len(left) \in Nat /\ (left = <<>> <=> Len(left) = 0)
    BY <2>2
  <2>5. c \in Nat /\ (IF left = <<>> THEN c = 0 ELSE c < Len(left))
    BY <1>1, <2>4
  <2> HIDE DEF c
  <2>6. ~f.collapsed
    BY <1>3 DEF IsForm, OnLine
  <2> QED BY <2>2, <2>3, <2>5, <2>6 DEF IsForm, FormSet, OnLine, SameForm
<1> QED BY <1>2, <1>3

\* What a form for an existing entry takes from it.
FormFields == {"open", "target", "idx", "orig", "name", "env", "pw", "modified", "stored",
               "sessions", "cur", "collapsed", "focused"}
LEMMA EditForms ==
  ASSUME NEW e, NEW i, NEW has
  PROVE  /\ LET f == NewEditBookmark(e, i, has)
            IN  /\ f.target = "bookmark" /\ f.idx = i /\ f.orig = e.name /\ f.name = e.name
                /\ f.env = e.env /\ f.stored = has
         /\ LET f == NewEditGroup(e, i)
            IN  /\ f.target = "group" /\ f.idx = i /\ f.orig = e.name /\ f.name = e.name
                /\ f.env = e.env /\ ~f.collapsed
<1>1. DOMAIN NewAdd = FormFields
  BY DEF NewAdd, FormFields
<1> DEFINE f == NewEditBookmark(e, i, has)
           g == NewEditGroup(e, i)
<1>2. f.target = "bookmark" /\ f.idx = i
  BY <1>1 DEF NewEditBookmark, FormFields
<1>3. f.orig = e.name /\ f.name = e.name
  BY <1>1 DEF NewEditBookmark, FormFields
<1>4. f.env = e.env /\ f.stored = has
  BY <1>1 DEF NewEditBookmark, FormFields
<1>5. g.target = "group" /\ g.idx = i
  BY <1>1 DEF NewEditGroup, FormFields
<1>6. g.orig = e.name /\ g.name = e.name
  BY <1>1 DEF NewEditGroup, FormFields
<1>7. g.env = e.env /\ ~g.collapsed
  BY <1>1 DEF NewEditGroup, FormFields
<1> HIDE DEF f, g
<1> QED BY <1>2, <1>3, <1>4, <1>5, <1>6, <1>7 DEF f, g

LEMMA One ==
  ASSUME NEW S, NEW e \in S
  PROVE  <<e>> \in Seq(S) /\ <<e>> # <<>> /\ Len(<<e>>) \in Nat /\ 0 < Len(<<e>>)
  OBVIOUS

\* The forms the list opens.
LEMMA NewForms ==
  /\ IsForm(NewAdd) /\ NewAdd.target = "add"
  /\ \A b \in EntrySet, i \in Nat, has \in BOOLEAN :
       LET f == NewEditBookmark(b, i, has)
       IN  IsForm(f) /\ f.target = "bookmark" /\ f.idx = i
  /\ \A g \in EntrySet, i \in Nat :
       LET f == NewEditGroup(g, i)
       IN  IsForm(f) /\ f.target = "group" /\ f.idx = i
<1>1. IsForm(NewAdd) /\ NewAdd.target = "add"
  <2>1. NewAdd \in FormSet
    BY EnvsAre, Places, TextsAre, EmptySeq DEF FormSet, NewAdd
  <2> QED BY <2>1 DEF IsForm, OnLine, NewAdd
<1>2. ASSUME NEW b \in EntrySet, NEW i \in Nat, NEW has \in BOOLEAN
      PROVE  LET f == NewEditBookmark(b, i, has)
             IN  IsForm(f) /\ f.target = "bookmark" /\ f.idx = i
  <2> DEFINE f == NewEditBookmark(b, i, has)
  <2>1. f \in FormSet /\ f.target = "bookmark" /\ f.idx = i /\ f.sessions = <<>> /\ f.cur = 0
    BY EnvsAre, Places, TextsAre, EmptySeq DEF FormSet, NewAdd, NewEditBookmark, EntrySet
  <2> QED BY <2>1 DEF IsForm, OnLine
<1>3. ASSUME NEW g \in EntrySet, NEW i \in Nat
      PROVE  LET f == NewEditGroup(g, i)
             IN  IsForm(f) /\ f.target = "group" /\ f.idx = i
  <2> DEFINE q == IF g.sessions = <<>> THEN <<"">> ELSE g.sessions
  <2>1. q \in Seq(Text) /\ q # <<>> /\ Len(q) \in Nat /\ 0 < Len(q)
    <3>1. g.sessions \in Seq(Text)
      BY DEF EntrySet
    <3>2. CASE g.sessions = <<>>
      <4>1. q = <<"">>
        BY <3>2
      <4>2. <<"">> \in Seq(Text) /\ <<"">> # <<>> /\ Len(<<"">>) \in Nat /\ 0 < Len(<<"">>)
        BY TextsAre, One
      <4> HIDE DEF q
      <4> QED BY <4>1, <4>2
    <3>3. CASE g.sessions # <<>>
      BY <3>1, <3>3
    <3> QED BY <3>2, <3>3
  <2> HIDE DEF q
  <2>2. NewEditGroup(g, i) =
          [NewAdd EXCEPT !.target = "group", !.idx = i, !.orig = g.name, !.name = g.name,
                         !.env = g.env, !.sessions = q, !.collapsed = FALSE]
    BY DEF NewEditGroup, q
  <2> DEFINE f == NewEditGroup(g, i)
  <2>3. f.target = "group" /\ f.idx = i /\ ~f.collapsed
    BY EditForms
  <2>4. NewAdd \in FormSet /\ NewAdd.cur = 0
    BY <1>1 DEF IsForm, NewAdd
  <2>5. g.name \in Text /\ g.env \in Envs
    BY TextsAre DEF EntrySet
  <2>6. f \in FormSet
    BY <2>1, <2>2, <2>4, <2>5 DEF FormSet
  <2>7. f.sessions = q /\ f.cur = 0
    BY <2>2, <2>4 DEF FormSet
  <2> QED BY <2>1, <2>3, <2>6, <2>7 DEF IsForm, OnLine
<1> QED BY <1>1, <1>2, <1>3

-----------------------------------------------------------------------------
(* The inductive invariant.                                                *)

\* The rows a list may hold, and the shapes of screens, dialogs and connections.
Rows(c) == 1 .. Len(c.bms) \cup {Marker + j : j \in 1 .. Len(c.grps)}
ScreenSet == [at : {"list", "add", "edit", "delete", "help", "mux"}, idx : Nat]
IsUi(u) ==
  /\ DOMAIN u = {"screen", "form", "confirm", "query", "searching", "env", "help",
                 "filtered", "selected", "request", "back", "session"}
  /\ u.screen \in ScreenSet /\ u.help \in ScreenSet
  /\ u.filtered \in Seq(Nat) /\ u.selected \in Nat \ {0}
  /\ u.session \in Nat /\ u.back \in Nat
IsConfirm(s) == DOMAIN s = {"open", "group", "name", "production", "typed"}
ConnSet == [st : {"none", "connecting", "ready", "running", "error"}, chan : Nat, n : Nat]
TaskSet ==
  [n : Nat, g : GroupIdx, gid : Nat, st : {"opening", "sending", "open", "sent", "failed"}]

\* The lists stay below the marker: an entry was there at the start, was added or
\* stands for the session of a departure.
Sized ==
  /\ cfg \in ConfigSet /\ disk \in ConfigSet
  /\ DOMAIN count = {"ids", "faults", "opens", "leaves", "saves"}
  /\ count.opens \in Nat /\ count.ids \in 0 .. MaxId /\ count.leaves \in 0 .. MaxLeaves
  /\ Size(cfg) <= count.ids + count.leaves /\ Size(disk) <= count.ids + count.leaves
  /\ life = "away" => Size(cfg) + 1 <= count.ids + count.leaves

\* The list shows rows of the configuration, and one of them is selected.
Listed(u, c) ==
  /\ \A k \in 1 .. Len(u.filtered) : u.filtered[k] \in Rows(c)
  /\ u.filtered # <<>> => u.selected <= Len(u.filtered)

\* The screen worked on is about the entry it was opened for.
Work(u) == IF u.screen.at = "help" THEN u.help ELSE u.screen
Editing(u, c, o) ==
  /\ u.form.target \in {"bookmark", "group"}
  /\ IF u.form.target = "bookmark"
     THEN Work(u).idx \in 1 .. Len(c.bms) /\ o = c.bms[Work(u).idx].id
     ELSE Work(u).idx \in 1 .. Len(c.grps) /\ o = c.grps[Work(u).idx].id
Deleting(u, c, o) ==
  /\ IsConfirm(u.confirm)
  /\ ~u.confirm.group =>
       /\ Work(u).idx \in 1 .. Len(c.bms)
       /\ LET b == c.bms[Work(u).idx]
          IN  /\ o = b.id /\ u.confirm.name = b.name
              /\ u.confirm.production = (b.env = "production")
Connecting(u, c, o) ==
  /\ Work(u).idx \in 1 .. Len(c.grps) /\ o = c.grps[Work(u).idx].id
  /\ LET n == Len(c.grps[Work(u).idx].sessions) IN n > 0 => u.session \in 1 .. n
OnScreen(u, c, o) ==
  /\ u.screen.at = "help" => u.help.at \in {"list", "add", "edit", "delete"}
  /\ Work(u).at \in {"add", "edit"} => IsForm(u.form)
  /\ Work(u).at = "add" => u.form.target = "add"
  /\ Work(u).at = "edit" => Editing(u, c, o)
  /\ Work(u).at = "delete" => Deleting(u, c, o)
  /\ Work(u).at = "mux" => Connecting(u, c, o)

\* Whoever is away left from the list, or from the group to come back to, for an
\* entry there is.
Departed(u, c, l) ==
  /\ u.back \in 0 .. Len(c.grps)
  /\ l = "running" => u.back = 0
  /\ l = "away" =>
       /\ u.back = 0 => u.screen.at = "list"
       /\ IsGroupItem(u.request) => u.request - Marker \in 1 .. Len(c.grps)

\* A connection that only got results of its own opening leads to its group, and
\* waits for a task that is under way.
Own(g, cs, ts, c) ==
  /\ cs[g].st \in {"ready", "running"} => cs[g].chan = c.grps[g].id
  /\ cs[g].st \in {"connecting", "running"} => \E t \in ts : t.n = cs[g].n
  /\ \A t \in ts : t.n = cs[g].n =>
       /\ t.g = g
       /\ \/ /\ cs[g].st = "connecting" /\ t.st \in {"opening", "open", "failed"}
             /\ t.gid = c.grps[g].id
          \/ cs[g].st = "running" /\ t.st \in {"sending", "sent", "failed"}
Linked(cs, ts, c, opens) ==
  /\ cs \in [GroupIdx -> ConnSet] /\ ts \subseteq TaskSet
  /\ \A t \in ts : t.n <= opens
  /\ \A t, u \in ts : t.n = u.n /\ t.n # 0 => t = u
  /\ \A g \in GroupIdx :
       /\ cs[g].n <= opens
       /\ cs[g].st = "none" => cs[g].n = 0
       /\ cs[g].n # 0 => Own(g, cs, ts, c)

\* Only the group on the mux screen has a connection.
Home(l, u, cs) ==
  \A g \in GroupIdx :
    cs[g].st # "none" => l = "running" /\ u.screen.at = "mux" /\ u.screen.idx = g

TInv ==
  /\ Sized /\ IsUi(ui) /\ Listed(ui, cfg) /\ OnScreen(ui, cfg, opened)
  /\ Departed(ui, cfg, life) /\ Linked(conns, tasks, cfg, count.opens)
  /\ Home(life, ui, conns)

-----------------------------------------------------------------------------
(* The list.                                                               *)

LEMMA Wider ==
  ASSUME NEW S, NEW T, S \subseteq T, NEW q \in Seq(S)
  PROVE  q \in Seq(T)
<1>1. Len(q) \in Nat /\ q \in [1 .. Len(q) -> S]
  BY LenProperties
<1>2. q \in [1 .. Len(q) -> T]
  BY <1>1
<1> QED BY <1>1, <1>2, SeqDef

\* What does not change when only the list does.
SameScreen(u, v) ==
  /\ v.screen = u.screen /\ v.help = u.help /\ v.form = u.form
  /\ v.confirm = u.confirm /\ v.session = u.session /\ v.back = u.back
  /\ v.request = u.request

LEMMA SameScreenKeeps ==
  ASSUME NEW u, NEW v, NEW c, NEW o, NEW l, SameScreen(u, v)
  PROVE  (OnScreen(u, c, o) => OnScreen(v, c, o)) /\ (Departed(u, c, l) => Departed(v, c, l))
  BY DEF SameScreen, OnScreen, Departed, Work, Editing, Deleting, Connecting

\* A row is a bookmark's or a group's.
LEMMA RowMeans ==
  ASSUME NEW c \in ConfigSet, Size(c) < Marker, NEW i \in Rows(c)
  PROVE  \/ i \in 1 .. Len(c.bms) /\ IsBookmark(i) /\ ~IsGroupItem(i)
         \/ i - Marker \in 1 .. Len(c.grps) /\ IsGroupItem(i) /\ ~IsBookmark(i)
<1> DEFINE a == Len(c.bms)
           b == Len(c.grps)
           m == Marker
<1>1. a \in Nat /\ b \in Nat /\ m \in Nat /\ a + b < m
  BY DEF ConfigSet, Marker, Size
<1>2. i \in 1 .. a \/ \E j \in 1 .. b : i = m + j
  BY DEF Rows
<1> HIDE DEF a, b, m
<1>3. CASE i \in 1 .. a
  <2>1. i \in 1 .. m - 1 /\ ~(i > m)
    BY ONLY <1>1, <1>3
  <2> QED BY <1>3, <2>1 DEF IsBookmark, IsGroupItem, a, m
<1>4. CASE \E j \in 1 .. b : i = m + j
  <2>1. i - m \in 1 .. b /\ i > m /\ i \notin 1 .. m - 1
    BY ONLY <1>1, <1>4
  <2> QED BY <2>1 DEF IsBookmark, IsGroupItem, b, m
<1> QED BY <1>2, <1>3, <1>4

\* refilter: rows of the configuration, one of them selected, the screens untouched.
LEMMA RefilterKeeps ==
  ASSUME NEW u, NEW c \in ConfigSet, IsUi(u)
  PROVE  LET v == Refilter(u, c) IN IsUi(v) /\ Listed(v, c) /\ SameScreen(u, v)
<1> DEFINE a == Indices(c.bms, 0, u.query, u.env)
           b == Indices(c.grps, Marker, u.query, u.env)
           all == a \o b
           sel == Clamp(u.selected, Len(all))
<1>1. c.bms \in Seq(EntrySet) /\ c.grps \in Seq(EntrySet) /\ Marker \in Nat
  BY DEF ConfigSet, Marker
<1>2. a \in Seq(0 + 1 .. 0 + Len(c.bms)) /\ b \in Seq(Marker + 1 .. Marker + Len(c.grps))
  BY <1>1, IndicesAreRows, 0 \in Nat
<1>3. /\ 0 + 1 .. 0 + Len(c.bms) \subseteq Rows(c)
      /\ Marker + 1 .. Marker + Len(c.grps) \subseteq Rows(c)
      /\ Rows(c) \subseteq Nat
  <2>1. Len(c.bms) \in Nat /\ Len(c.grps) \in Nat
    BY <1>1
  <2>2. ASSUME NEW i \in Marker + 1 .. Marker + Len(c.grps)
        PROVE  i \in Rows(c)
    <3>1. i - Marker \in 1 .. Len(c.grps) /\ i = Marker + (i - Marker)
      BY <1>1, <2>1
    <3> QED BY <3>1 DEF Rows
  <2> QED BY <1>1, <2>1, <2>2 DEF Rows
<1> HIDE DEF a, b
<1>4. a \in Seq(Rows(c)) /\ b \in Seq(Rows(c))
  BY <1>2, <1>3, Wider
<1>5. all \in Seq(Rows(c))
  BY <1>4, ConcatProperties
<1> HIDE DEF all
<1>6. /\ all \in Seq(Nat) /\ Len(all) \in Nat
      /\ \A k \in 1 .. Len(all) : all[k] \in Rows(c)
      /\ all # <<>> => Len(all) > 0
  BY <1>3, <1>5, Wider, ElementOfSeq, LenProperties, EmptySeq
<1>7. sel \in Nat \ {0} /\ (all # <<>> => sel <= Len(all))
  BY <1>6 DEF Clamp, IsUi
<1>8. Refilter(u, c) = [u EXCEPT !.filtered = all, !.selected = sel]
  BY DEF Refilter, all, a, b
<1> HIDE DEF sel
<1> QED BY <1>6, <1>7, <1>8 DEF IsUi, Listed, SameScreen

\* What the selected row shows, and that it is below the marker.
LEMMA Bounded ==
  ASSUME Sized
  PROVE  Size(cfg) < Marker /\ Size(disk) < Marker /\ Len(cfg.grps) <= MaxId + MaxLeaves
<1> DEFINE a == Len(cfg.bms)
           b == Len(cfg.grps)
           d == Size(disk)
           ids == count.ids
           leaves == count.leaves
           m == Marker
<1>1. MaxId \in Nat /\ MaxLeaves \in Nat /\ MaxId + MaxLeaves < m
  BY TuiAssumption
<1>2. a \in Nat /\ b \in Nat /\ d \in Nat /\ m \in Nat
  BY DEF Sized, ConfigSet, Size, Marker
<1>3. ids \in 0 .. MaxId /\ leaves \in 0 .. MaxLeaves
  BY DEF Sized
<1>4. Size(cfg) = a + b /\ a + b <= ids + leaves /\ d <= ids + leaves
  BY DEF Sized, Size
<1> HIDE DEF a, b, d, ids, leaves, m
<1>5. a + b < m /\ d < m /\ b <= MaxId + MaxLeaves
  BY ONLY <1>1, <1>2, <1>3, <1>4
<1> QED BY <1>4, <1>5 DEF a, b, d, m

LEMMA Selected ==
  ASSUME TInv, SelectedItem(ui) # 0
  PROVE  LET i == SelectedItem(ui)
         IN  /\ Highlighted(ui, cfg) = Entry(cfg, i)
             /\ \/ /\ i \in 1 .. Len(cfg.bms) /\ IsBookmark(i) /\ ~IsGroupItem(i)
                   /\ Entry(cfg, i) = cfg.bms[i]
                \/ /\ i - Marker \in 1 .. Len(cfg.grps) /\ IsGroupItem(i) /\ ~IsBookmark(i)
                   /\ Entry(cfg, i) = cfg.grps[i - Marker]
<1> DEFINE i == SelectedItem(ui)
<1>1. ui.filtered # <<>> /\ i = ui.filtered[ui.selected]
  BY DEF SelectedItem
<1>2. ui.filtered \in Seq(Nat) /\ ui.selected \in 1 .. Len(ui.filtered)
  BY <1>1 DEF TInv, IsUi, Listed
<1>3. i \in Rows(cfg)
  BY <1>1, <1>2 DEF TInv, Listed
<1>4. Highlighted(ui, cfg) = Entry(cfg, i)
  <2>1. ui.selected \in DOMAIN ui.filtered
    BY <1>2
  <2> QED BY <1>1, <2>1 DEF Highlighted, DrawnRows
<1>5. cfg \in ConfigSet /\ Size(cfg) < Marker
  BY Bounded DEF TInv, Sized
<1> HIDE DEF i
<1>6. \/ i \in 1 .. Len(cfg.bms) /\ IsBookmark(i) /\ ~IsGroupItem(i)
      \/ i - Marker \in 1 .. Len(cfg.grps) /\ IsGroupItem(i) /\ ~IsBookmark(i)
  BY <1>3, <1>5, RowMeans
<1>7. Entry(cfg, i) = IF IsGroupItem(i) THEN cfg.grps[i - Marker] ELSE cfg.bms[i]
  BY DEF Entry, IsGroupItem
<1> QED BY <1>4, <1>6, <1>7 DEF i

-----------------------------------------------------------------------------
(* The first state, and steps away from the mux screen.                    *)

\* The screen the application opens with.
LEMMA NewUiKeeps ==
  ASSUME NEW c \in ConfigSet
  PROVE  LET u == NewUi(c)
         IN  /\ IsUi(u) /\ Listed(u, c) /\ u.screen = List /\ u.back = 0
             /\ \A o : OnScreen(u, c, o)
<1> DEFINE u == [screen |-> List, form |-> NoForm, confirm |-> NoConfirm,
                 query |-> "", searching |-> FALSE, env |-> "", help |-> List,
                 filtered |-> <<>>, selected |-> 1, request |-> 0, back |-> 0,
                 session |-> 0]
           v == Refilter(u, c)
<1>1. List \in ScreenSet /\ List.at = "list"
  BY DEF List, ScreenSet
<1>2. <<>> \in Seq(Nat) /\ 1 \in Nat \ {0} /\ 0 \in Nat
  BY EmptySeq
<1>3. IsUi(u)
  BY <1>1, <1>2 DEF IsUi
<1>4. u.screen = List /\ u.back = 0
  OBVIOUS
<1>5. NewUi(c) = v
  BY DEF NewUi
<1> HIDE DEF u
<1>6. IsUi(v) /\ Listed(v, c) /\ SameScreen(u, v)
  BY <1>3, RefilterKeeps
<1>7. v.screen = List /\ v.back = 0
  BY <1>4, <1>6 DEF SameScreen
<1> HIDE DEF v
<1>8. ASSUME NEW o
      PROVE  OnScreen(v, c, o)
  BY <1>1, <1>7 DEF OnScreen, Work
<1> QED BY <1>5, <1>6, <1>7, <1>8

\* No connections and no tasks.
LEMMA NoLinks ==
  ASSUME NEW c, NEW opens \in Nat
  PROVE  LET none == [g \in GroupIdx |-> NoConn]
         IN  Linked(none, {}, c, opens) /\ \A l, u : Home(l, u, none)
<1> DEFINE none == [g \in GroupIdx |-> NoConn]
<1>1. NoConn \in ConnSet /\ NoConn.st = "none" /\ NoConn.n = 0
  BY DEF NoConn, ConnSet
<1>2. ASSUME NEW g \in GroupIdx
      PROVE  none[g].n = 0 /\ none[g].st = "none"
  BY <1>1
<1>3. none \in [GroupIdx -> ConnSet]
  BY <1>1
<1> HIDE DEF none
<1>4. Linked(none, {}, c, opens)
  BY <1>2, <1>3 DEF Linked
<1>5. \A l, u : Home(l, u, none)
  BY <1>2 DEF Home
<1> QED BY <1>4, <1>5 DEF none

\* Away from the mux screen no connection is open, whatever the lists become.
LEMMA QuietAway ==
  ASSUME TInv, ~At("mux")
  PROVE  \A c, l, u : Linked(conns, tasks, c, count.opens) /\ Home(l, u, conns)
<1>1. \A g \in GroupIdx : conns[g].st = "none"
  BY DEF TInv, Home, At
<1>2. \A g \in GroupIdx : conns[g].n = 0
  BY <1>1 DEF TInv, Linked
<1>3. \A c : Linked(conns, tasks, c, count.opens)
  BY <1>2 DEF TInv, Linked
<1> QED BY <1>1, <1>3 DEF Home

\* A screen that is the list is about no entry.
LEMMA ListScreen ==
  ASSUME NEW u, NEW c, NEW o, u.screen.at = "list"
  PROVE  OnScreen(u, c, o)
  BY DEF OnScreen, Work

LEMMA InitTInv ==
  ASSUME Init
  PROVE  TInv
<1>1. /\ disk \in ConfigSet /\ cfg = disk /\ ui = NewUi(disk) /\ life = "running"
      /\ Size(disk) = Cardinality(Entries(disk)) /\ Size(disk) <= MaxId
      /\ Size(disk) \in Nat
  <2>1. disk \in InitConfigs
    BY DEF Init
  <2>2. disk \in ConfigSet
    BY <2>1, TuiAssumption
  <2>3. Size(disk) \in Nat
    BY <2>2 DEF ConfigSet, Size
  <2> QED BY <2>1, <2>2, <2>3, TuiAssumption DEF Init
<1> DEFINE n == Size(disk)
<1>2. /\ DOMAIN count = {"ids", "faults", "opens", "leaves", "saves"}
      /\ count.opens = 0 /\ count.leaves = 0 /\ count.ids = n
  BY <1>1 DEF Init
<1> HIDE DEF n
<1>3. MaxId \in Nat /\ MaxLeaves \in Nat /\ n \in Nat /\ n <= MaxId
  BY <1>1, TuiAssumption DEF n
<1>4. n \in 0 .. MaxId /\ 0 \in 0 .. MaxLeaves /\ n <= n + 0
  BY ONLY <1>3
<1>5. Sized
  BY <1>1, <1>2, <1>4 DEF Sized, n
<1>6. /\ IsUi(ui) /\ Listed(ui, cfg) /\ ui.screen = List /\ ui.back = 0
      /\ OnScreen(ui, cfg, opened)
  BY <1>1, NewUiKeeps
<1>7. Departed(ui, cfg, life)
  <2>1. Len(cfg.grps) \in Nat
    BY <1>1 DEF ConfigSet
  <2> QED BY <1>1, <1>6, <2>1 DEF Departed
<1>8. Linked(conns, tasks, cfg, count.opens) /\ Home(life, ui, conns)
  BY <1>2, NoLinks DEF Init
<1> QED BY <1>5, <1>6, <1>7, <1>8 DEF TInv

\* The end of the process, and the next start.
LEMMA ExitStep ==
  ASSUME TInv, NEW how \in {"quit", "panicked"}, Exit(how)
  PROVE  TInv'
<1>1. Gone \in ConfigSet /\ Size(Gone) = 0 /\ Len(Gone.grps) = 0
  BY EmptySeq DEF Gone, ConfigSet, Size
<1>2. /\ cfg' = Gone /\ ui' = NewUi(Gone) /\ life' = how /\ disk' = disk /\ count' = count
      /\ conns' = [g \in GroupIdx |-> NoConn] /\ tasks' = {}
  BY DEF Exit
<1>3. Sized'
  <2>1. count.ids \in Nat /\ count.leaves \in Nat
    BY TuiAssumption DEF TInv, Sized
  <2> DEFINE a == count.ids
             b == count.leaves
  <2> HIDE DEF a, b
  <2>2. 0 <= a + b
    BY <2>1 DEF a, b
  <2> QED BY <1>1, <1>2, <2>2 DEF TInv, Sized, a, b
<1>4. /\ IsUi(ui') /\ Listed(ui', cfg') /\ ui'.screen = List /\ ui'.back = 0
      /\ OnScreen(ui', cfg', opened')
  BY <1>1, <1>2, NewUiKeeps
<1>5. Departed(ui', cfg', life')
  BY <1>1, <1>2, <1>4 DEF Departed
<1>6. Linked(conns', tasks', cfg', count'.opens) /\ Home(life', ui', conns')
  BY <1>2, NoLinks DEF TInv, Sized
<1> QED BY <1>3, <1>4, <1>5, <1>6 DEF TInv

LEMMA StartStep ==
  ASSUME TInv, Start
  PROVE  TInv'
<1>1. /\ cfg' = disk /\ ui' = NewUi(disk) /\ life' = "running" /\ disk' = disk
      /\ count' = count /\ conns' = conns /\ tasks' = tasks /\ ~At("mux")
  BY DEF Start, mux, At
<1>2. disk \in ConfigSet /\ Len(disk.grps) \in Nat
  BY DEF TInv, Sized, ConfigSet
<1>3. Sized'
  BY <1>1 DEF TInv, Sized
<1>4. /\ IsUi(ui') /\ Listed(ui', cfg') /\ ui'.screen = List /\ ui'.back = 0
      /\ OnScreen(ui', cfg', opened')
  BY <1>1, <1>2, NewUiKeeps
<1>5. Departed(ui', cfg', life')
  BY <1>1, <1>2, <1>4 DEF Departed
<1>6. Linked(conns', tasks', cfg', count'.opens) /\ Home(life', ui', conns')
  BY <1>1, QuietAway
<1> QED BY <1>3, <1>4, <1>5, <1>6 DEF TInv

-----------------------------------------------------------------------------
(* Keys of the list, of the prompts and of the form.                       *)

\* A key that changes the screen only.
LEMMA UiStep ==
  ASSUME TInv, ~At("mux"), UNCHANGED <<life, store, mux, count>>,
         IsUi(ui'), Listed(ui', cfg), OnScreen(ui', cfg, opened'), Departed(ui', cfg, life)
  PROVE  TInv'
<1>1. /\ life' = life /\ cfg' = cfg /\ disk' = disk /\ conns' = conns /\ tasks' = tasks
      /\ count' = count
  BY DEF store, mux
<1>2. Sized'
  BY <1>1 DEF TInv, Sized
<1>3. Linked(conns', tasks', cfg', count'.opens) /\ Home(life', ui', conns')
  BY <1>1, QuietAway
<1> QED BY <1>1, <1>2, <1>3 DEF TInv

LEMMA MoveStep ==
  ASSUME TInv, Move
  PROVE  TInv'
<1>1. PICK d \in {-1, 1} \cup (IF ui.searching THEN {} ELSE {-10, 10}) :
        LET to == ui.selected + d
            len == Len(ui.filtered)
        IN  /\ len > 0
            /\ ui' = [ui EXCEPT !.selected = IF to < 1 THEN 1 ELSE Clamp(to, len)]
  BY DEF Move
<1> DEFINE to == ui.selected + d
           len == Len(ui.filtered)
           sel == IF to < 1 THEN 1 ELSE Clamp(to, len)
<1>2. ui' = [ui EXCEPT !.selected = sel] /\ len > 0
  BY <1>1
<1>3. to \in Int /\ len \in Nat
  BY DEF TInv, IsUi
<1> HIDE DEF to, len
<1>4. sel \in Nat \ {0} /\ sel <= len
  BY <1>2, <1>3 DEF Clamp
<1> HIDE DEF sel
<1>5. IsUi(ui') /\ Listed(ui', cfg) /\ SameScreen(ui, ui')
  BY <1>2, <1>4 DEF TInv, IsUi, Listed, SameScreen, len
<1>6. UNCHANGED <<life, store, mux, opened, count>> /\ ~At("mux")
  BY DEF Move, At
<1> QED BY <1>5, <1>6, SameScreenKeeps, UiStep DEF TInv

\* Keys after which the list is filtered anew.
LEMMA RefilterStep ==
  ASSUME TInv, ~At("mux"), UNCHANGED <<life, store, mux, opened, count>>,
         NEW u, IsUi(u), SameScreen(ui, u),
         ui' = Refilter(u, cfg)
  PROVE  TInv'
<1>1. cfg \in ConfigSet
  BY DEF TInv, Sized
<1>2. IsUi(ui') /\ Listed(ui', cfg) /\ SameScreen(u, ui')
  BY <1>1, RefilterKeeps
<1>3. SameScreen(ui, ui')
  BY <1>2 DEF SameScreen
<1> QED BY <1>2, <1>3, SameScreenKeeps, UiStep DEF TInv

LEMMA SearchStep ==
  ASSUME TInv, Search \/ FilterEnv
  PROVE  TInv'
<1>1. UNCHANGED <<life, store, mux, opened, count>> /\ ~At("mux")
  BY DEF Search, FilterEnv, Listing, At
<1>2. CASE \E b \in BOOLEAN : ui' = [ui EXCEPT !.searching = b]
  <2>1. IsUi(ui') /\ Listed(ui', cfg) /\ SameScreen(ui, ui')
    BY <1>2 DEF TInv, IsUi, Listed, SameScreen
  <2> QED BY <1>1, <2>1, SameScreenKeeps, UiStep DEF TInv
<1>3. CASE \E u : IsUi(u) /\ SameScreen(ui, u) /\ ui' = Refilter(u, cfg)
  BY <1>1, <1>3, RefilterStep
<1>4. CASE Search
  <2>1. CASE \E b \in BOOLEAN : ui' = [ui EXCEPT !.searching = b]
    BY <1>2, <2>1
  <2>2. CASE ui' = Refilter([ui EXCEPT !.searching = FALSE, !.query = ""], cfg)
    <3> DEFINE u == [ui EXCEPT !.searching = FALSE, !.query = ""]
    <3>1. IsUi(u) /\ SameScreen(ui, u)
      BY DEF TInv, IsUi, SameScreen
    <3> QED BY <1>3, <2>2, <3>1
  <2>3. CASE \E q \in Queries : ui' = Refilter([ui EXCEPT !.query = q], cfg)
    <3>1. PICK q \in Queries : ui' = Refilter([ui EXCEPT !.query = q], cfg)
      BY <2>3
    <3> DEFINE u == [ui EXCEPT !.query = q]
    <3>2. IsUi(u) /\ SameScreen(ui, u)
      BY DEF TInv, IsUi, SameScreen
    <3> QED BY <1>3, <3>1, <3>2
  <2> QED BY <1>4, <2>1, <2>2, <2>3 DEF Search
<1>5. CASE FilterEnv
  <2>1. PICK e \in Envs :
          ui' = Refilter([ui EXCEPT !.env = e, !.query = "", !.searching = FALSE], cfg)
    BY <1>5 DEF FilterEnv
  <2> DEFINE u == [ui EXCEPT !.env = e, !.query = "", !.searching = FALSE]
  <2>2. IsUi(u) /\ SameScreen(ui, u)
    BY DEF TInv, IsUi, SameScreen
  <2> QED BY <1>3, <2>1, <2>2
<1> QED BY <1>4, <1>5

LEMMA HelpStep ==
  ASSUME TInv, OpenHelp \/ CloseHelp
  PROVE  TInv'
<1>1. UNCHANGED <<life, store, mux, opened, count>> /\ ~At("mux") /\ life = "running"
  BY DEF OpenHelp, CloseHelp, At
<1>2. /\ IsUi(ui) /\ Listed(ui, cfg) /\ OnScreen(ui, cfg, opened) /\ Departed(ui, cfg, life)
  BY DEF TInv
<1>3. CASE OpenHelp
  <2> DEFINE s == [at |-> "help", idx |-> 0]
  <2>1. s \in ScreenSet /\ s.at = "help"
    BY DEF ScreenSet
  <2> HIDE DEF s
  <2>2. /\ ui' = [ui EXCEPT !.screen = s, !.help = ui.screen]
        /\ ui.screen.at \in {"list", "add", "edit", "delete"}
    BY <1>3 DEF OpenHelp, s
  <2>3. IsUi(ui') /\ Listed(ui', cfg) /\ Departed(ui', cfg, life)
    BY <1>1, <1>2, <2>1, <2>2 DEF IsUi, Listed, Departed
  <2>4. Work(ui') = Work(ui) /\ ui'.screen = s /\ ui'.help = ui.screen /\ ui'.form = ui.form
        /\ ui'.confirm = ui.confirm /\ ui'.session = ui.session
    BY <1>2, <2>1, <2>2 DEF Work, IsUi
  <2>5. OnScreen(ui', cfg, opened)
    BY <1>2, <2>1, <2>2, <2>4 DEF OnScreen, Editing, Deleting, Connecting
  <2> QED BY <1>1, <2>3, <2>5, UiStep
<1>4. CASE CloseHelp
  <2>1. List \in ScreenSet
    BY DEF List, ScreenSet
  <2>2. /\ ui' = [ui EXCEPT !.screen = ui.help, !.help = List]
        /\ ui.screen.at = "help" /\ ui.help.at \in {"list", "add", "edit", "delete"}
    BY <1>2, <1>4 DEF CloseHelp, At, OnScreen
  <2>3. IsUi(ui') /\ Listed(ui', cfg) /\ Departed(ui', cfg, life)
    BY <1>1, <1>2, <2>1, <2>2 DEF IsUi, Listed, Departed
  <2>4. Work(ui') = Work(ui) /\ ui'.screen = ui.help /\ ui'.form = ui.form
        /\ ui'.confirm = ui.confirm /\ ui'.session = ui.session
    BY <1>2, <2>2 DEF Work, IsUi
  <2>5. OnScreen(ui', cfg, opened)
    BY <1>2, <2>2, <2>4 DEF OnScreen, Editing, Deleting, Connecting
  <2> QED BY <1>1, <2>3, <2>5, UiStep
<1> QED BY <1>3, <1>4

LEMMA OpenAddStep ==
  ASSUME TInv, OpenAdd
  PROVE  TInv'
<1>1. UNCHANGED <<life, store, mux, count>> /\ ~At("mux") /\ life = "running"
  BY DEF OpenAdd, Listing, At
<1>2. IsUi(ui) /\ Listed(ui, cfg) /\ Departed(ui, cfg, life)
  BY DEF TInv
<1> DEFINE s == [at |-> "add", idx |-> 0]
<1>3. s \in ScreenSet /\ s.at = "add"
  BY DEF ScreenSet
<1> HIDE DEF s
<1>4. PICK f \in {NewAdd, AddSessionLine(NewAdd)} : ui' = [ui EXCEPT !.screen = s, !.form = f]
  BY DEF OpenAdd, s
<1>5. IsForm(f) /\ f.target = "add"
  BY NewForms, AddLineKeeps DEF SameForm
<1>6. IsUi(ui') /\ Listed(ui', cfg) /\ Departed(ui', cfg, life)
  BY <1>1, <1>2, <1>3, <1>4 DEF IsUi, Listed, Departed
<1>7. ui'.screen = s /\ ui'.form = f /\ Work(ui') = s
  BY <1>2, <1>3, <1>4 DEF IsUi, Work
<1>8. OnScreen(ui', cfg, opened')
  BY <1>3, <1>5, <1>7 DEF OnScreen
<1> QED BY <1>1, <1>6, <1>8, UiStep

\* e: the form is about the highlighted entry.
LEMMA OpenEditStep ==
  ASSUME TInv, OpenEdit
  PROVE  TInv'
<1>1. UNCHANGED <<life, store, mux, count>> /\ ~At("mux") /\ life = "running"
  BY DEF OpenEdit, Listing, At
<1>2. IsUi(ui) /\ Listed(ui, cfg) /\ Departed(ui, cfg, life) /\ cfg \in ConfigSet
  BY DEF TInv, Sized
<1> DEFINE i == SelectedItem(ui)
           f == IF IsBookmark(i)
                THEN NewEditBookmark(cfg.bms[i], i, kc[cfg.bms[i].name] # 0)
                ELSE NewEditGroup(cfg.grps[i - Marker], i - Marker)
           s == [at |-> "edit", idx |-> f.idx]
<1>3. /\ i # 0 /\ ui' = [ui EXCEPT !.screen = s, !.form = f]
      /\ opened' = Highlighted(ui, cfg).id
  BY DEF OpenEdit
<1>4. /\ Highlighted(ui, cfg) = Entry(cfg, i)
      /\ \/ i \in 1 .. Len(cfg.bms) /\ IsBookmark(i) /\ Entry(cfg, i) = cfg.bms[i]
         \/ /\ i - Marker \in 1 .. Len(cfg.grps) /\ ~IsBookmark(i)
            /\ Entry(cfg, i) = cfg.grps[i - Marker]
  BY <1>3, Selected
<1> HIDE DEF i
<1>5. /\ IsForm(f) /\ f.target \in {"bookmark", "group"} /\ f.idx \in Nat
      /\ IF f.target = "bookmark"
         THEN f.idx \in 1 .. Len(cfg.bms) /\ opened' = cfg.bms[f.idx].id
         ELSE f.idx \in 1 .. Len(cfg.grps) /\ opened' = cfg.grps[f.idx].id
  <2>1. CASE IsBookmark(i)
    <3>1. i \in 1 .. Len(cfg.bms) /\ Entry(cfg, i) = cfg.bms[i]
      BY <1>4, <2>1
    <3>2. i \in Nat /\ cfg.bms[i] \in EntrySet
      BY <1>2, <3>1 DEF ConfigSet
    <3>3. f = NewEditBookmark(cfg.bms[i], i, kc[cfg.bms[i].name] # 0)
      BY <2>1
    <3> HIDE DEF f
    <3>4. IsForm(f) /\ f.target = "bookmark" /\ f.idx = i
      BY <3>2, <3>3, NewForms
    <3> QED BY <1>3, <1>4, <3>1, <3>2, <3>4
  <2>2. CASE ~IsBookmark(i)
    <3> DEFINE j == i - Marker
    <3>1. j \in 1 .. Len(cfg.grps) /\ Entry(cfg, i) = cfg.grps[j]
      BY <1>4, <2>2
    <3>2. f = NewEditGroup(cfg.grps[j], j)
      BY <2>2
    <3> HIDE DEF f, j
    <3>3. j \in Nat /\ cfg.grps[j] \in EntrySet
      BY <1>2, <3>1 DEF ConfigSet
    <3>4. IsForm(f) /\ f.target = "group" /\ f.idx = j
      BY <3>2, <3>3, NewForms
    <3> QED BY <1>3, <1>4, <3>1, <3>3, <3>4
  <2> QED BY <2>1, <2>2
<1> HIDE DEF f
<1>6. s \in ScreenSet /\ s.at = "edit" /\ s.idx = f.idx
  BY <1>5 DEF ScreenSet
<1> HIDE DEF s
<1>7. IsUi(ui') /\ Listed(ui', cfg) /\ Departed(ui', cfg, life)
  BY <1>1, <1>2, <1>3, <1>6 DEF IsUi, Listed, Departed
<1>8. ui'.screen = s /\ ui'.form = f /\ Work(ui') = s
  BY <1>2, <1>3, <1>6 DEF IsUi, Work
<1>9. OnScreen(ui', cfg, opened')
  BY <1>5, <1>6, <1>8 DEF OnScreen, Editing
<1> QED BY <1>1, <1>7, <1>9, UiStep

\* d: the confirmation of a bookmark names the highlighted one.
LEMMA OpenDeleteStep ==
  ASSUME TInv, OpenDelete
  PROVE  TInv'
<1>1. UNCHANGED <<life, store, mux, count>> /\ ~At("mux") /\ life = "running"
  BY DEF OpenDelete, Listing, At
<1>2. IsUi(ui) /\ Listed(ui, cfg) /\ Departed(ui, cfg, life) /\ cfg \in ConfigSet
  BY DEF TInv, Sized
<1> DEFINE i == SelectedItem(ui)
           e == IF IsBookmark(i) THEN cfg.bms[i] ELSE cfg.grps[i - Marker]
           d == [open |-> TRUE, group |-> IsGroupItem(i), name |-> e.name,
                 production |-> e.env = "production", typed |-> ""]
           s == [at |-> "delete", idx |-> i]
<1>3. /\ i # 0 /\ ui' = [ui EXCEPT !.screen = s, !.confirm = d]
      /\ opened' = Highlighted(ui, cfg).id
  BY DEF OpenDelete
<1>4. /\ Highlighted(ui, cfg) = Entry(cfg, i)
      /\ \/ i \in 1 .. Len(cfg.bms) /\ IsBookmark(i) /\ Entry(cfg, i) = cfg.bms[i]
         \/ IsGroupItem(i)
      /\ i \in Nat
  <2>1. i \in Nat
    BY <1>2, <1>3 DEF SelectedItem, IsUi, Listed
  <2> QED BY <1>3, <2>1, Selected
<1> HIDE DEF i
<1>5. /\ IsConfirm(d) /\ d.group = IsGroupItem(i) /\ d.name = e.name
      /\ d.production = (e.env = "production")
  BY DEF IsConfirm
<1>6. ~IsGroupItem(i) => i \in 1 .. Len(cfg.bms) /\ e = cfg.bms[i] /\ opened' = e.id
  BY <1>3, <1>4
<1> HIDE DEF d, e
<1>7. s \in ScreenSet /\ s.at = "delete" /\ s.idx = i
  BY <1>4 DEF ScreenSet
<1> HIDE DEF s
<1>8. IsUi(ui') /\ Listed(ui', cfg) /\ Departed(ui', cfg, life)
  BY <1>1, <1>2, <1>3, <1>7 DEF IsUi, Listed, Departed
<1>9. ui'.screen = s /\ ui'.confirm = d /\ Work(ui') = s
  BY <1>2, <1>3, <1>7 DEF IsUi, Work
<1>10. Deleting(ui', cfg, opened')
  BY <1>5, <1>6, <1>7, <1>9 DEF Deleting
<1>11. OnScreen(ui', cfg, opened')
  BY <1>7, <1>9, <1>10 DEF OnScreen
<1> QED BY <1>1, <1>8, <1>11, UiStep

\* Enter on a group: its mux screen.
LEMMA OpenMuxStep ==
  ASSUME TInv, OpenMux
  PROVE  TInv'
<1>1. /\ UNCHANGED <<life, store, mux, count>> /\ ~At("mux") /\ life = "running"
      /\ IsGroupItem(SelectedItem(ui)) /\ opened' = Highlighted(ui, cfg).id
  BY DEF OpenMux, Listing, At
<1>2. IsUi(ui) /\ Listed(ui, cfg) /\ Departed(ui, cfg, life) /\ cfg \in ConfigSet
  BY DEF TInv, Sized
<1> DEFINE i == SelectedItem(ui)
           j == i - Marker
           s == [at |-> "mux", idx |-> j]
<1>3. ui' = [ui EXCEPT !.screen = s, !.session = 1]
  BY DEF OpenMux
<1>4. j \in 1 .. Len(cfg.grps) /\ opened' = cfg.grps[j].id
  <2>1. i # 0
    BY <1>1 DEF IsGroupItem, Marker
  <2> QED BY <1>1, <2>1, Selected
<1> HIDE DEF j
<1>5. s \in ScreenSet /\ s.at = "mux" /\ s.idx = j
  BY <1>2, <1>4 DEF ScreenSet, ConfigSet
<1> HIDE DEF s
<1>6. IsUi(ui') /\ Listed(ui', cfg) /\ Departed(ui', cfg, life)
  BY <1>1, <1>2, <1>3, <1>5 DEF IsUi, Listed, Departed
<1>7. ui'.screen = s /\ ui'.session = 1 /\ Work(ui') = s
  BY <1>2, <1>3, <1>5 DEF IsUi, Work
<1>8. OnScreen(ui', cfg, opened')
  <2>1. Len(cfg.grps[j].sessions) \in Nat
    BY <1>2, <1>4 DEF ConfigSet, EntrySet
  <2>2. Connecting(ui', cfg, opened')
    BY <1>4, <1>5, <1>7, <2>1 DEF Connecting
  <2> QED BY <1>5, <1>7, <2>2 DEF OnScreen
<1> QED BY <1>1, <1>6, <1>8, UiStep

\* Keys of the form, and Esc in it.
LEMMA FormKeyStep ==
  ASSUME TInv, FormKey
  PROVE  TInv'
<1>1. /\ UNCHANGED <<life, store, mux, opened, count>> /\ ~At("mux") /\ life = "running"
      /\ ui.screen.at \in {"add", "edit"}
  BY DEF FormKey, InForm, At
<1>2. IsUi(ui) /\ Listed(ui, cfg) /\ OnScreen(ui, cfg, opened) /\ Departed(ui, cfg, life)
  BY DEF TInv
<1>3. Work(ui) = ui.screen /\ IsForm(ui.form)
  BY <1>1, <1>2 DEF Work, OnScreen
<1>4. PICK f \in {NextField(ui.form), PrevField(ui.form)} \cup
              (IF ui.form.focused = 2 THEN {CycleEnv(ui.form)} ELSE {}) \cup
              {Retype(ui.form, t) : t \in Texts(ui.form)} \cup
              (IF Len(ui.form.sessions) < MaxSess THEN {AddSessionLine(ui.form)}
               ELSE {}) \cup
              (IF ui.form.focused > FieldCount THEN {RemoveSessionLine(ui.form)}
               ELSE {}) :
       ui' = [ui EXCEPT !.form = f]
  BY DEF FormKey
<1>5. SameForm(ui.form, f)
  BY <1>3, NextKeeps, PrevKeeps, CycleKeeps, RetypeKeeps, AddLineKeeps, RemoveLineKeeps
<1>6. IsUi(ui') /\ Listed(ui', cfg) /\ Departed(ui', cfg, life)
  BY <1>2, <1>4 DEF IsUi, Listed, Departed
<1>7. ui'.form = f /\ ui'.screen = ui.screen /\ Work(ui') = ui.screen
  BY <1>1, <1>2, <1>4 DEF IsUi, Work
<1>8. OnScreen(ui', cfg, opened)
  BY <1>1, <1>2, <1>3, <1>5, <1>7 DEF OnScreen, Editing, SameForm
<1> QED BY <1>1, <1>6, <1>8, UiStep

LEMMA ToListKeeps ==
  ASSUME NEW u, IsUi(u), NEW c, NEW o, NEW l, Listed(u, c), Departed(u, c, l)
  PROVE  LET v == ToList(u)
         IN  IsUi(v) /\ Listed(v, c) /\ OnScreen(v, c, o) /\ Departed(v, c, l)
<1> DEFINE v == ToList(u)
<1>1. List \in ScreenSet /\ List.at = "list"
  BY DEF List, ScreenSet
<1>2. v = [u EXCEPT !.screen = List]
  BY DEF ToList
<1>3. IsUi(v) /\ Listed(v, c) /\ Departed(v, c, l) /\ v.screen = List
  BY <1>1, <1>2 DEF IsUi, Listed, Departed
<1> QED BY <1>1, <1>3, ListScreen

LEMMA CancelStep ==
  ASSUME TInv, CancelForm \/ CancelConfirm
  PROVE  TInv'
<1>1. UNCHANGED <<life, store, mux, count>> /\ ~At("mux")
  BY DEF CancelForm, CancelConfirm, InForm, InConfirm, At
<1>2. IsUi(ui) /\ Listed(ui, cfg) /\ Departed(ui, cfg, life)
  BY DEF TInv
<1>3. PICK u \in {[ui EXCEPT !.form = NoForm], [ui EXCEPT !.confirm = NoConfirm]} :
        ui' = ToList(u)
  BY DEF CancelForm, CancelConfirm
<1>4. IsUi(u) /\ Listed(u, cfg) /\ Departed(u, cfg, life)
  BY <1>2, <1>3 DEF IsUi, Listed, Departed
<1> QED BY <1>1, <1>3, <1>4, ToListKeeps, UiStep

LEMMA TypeConfirmStep ==
  ASSUME TInv, TypeConfirm
  PROVE  TInv'
<1>1. /\ UNCHANGED <<life, store, mux, opened, count>> /\ ~At("mux") /\ life = "running"
      /\ ui.screen.at = "delete"
  BY DEF TypeConfirm, InConfirm, At
<1>2. IsUi(ui) /\ Listed(ui, cfg) /\ OnScreen(ui, cfg, opened) /\ Departed(ui, cfg, life)
  BY DEF TInv
<1>3. Deleting(ui, cfg, opened)
  BY <1>1, <1>2 DEF OnScreen, Work
<1>4. PICK t \in {"", "yes"} : ui' = [ui EXCEPT !.confirm = [ui.confirm EXCEPT !.typed = t]]
  BY DEF TypeConfirm
<1> DEFINE d == [ui.confirm EXCEPT !.typed = t]
<1>5. /\ IsConfirm(d) /\ d.group = ui.confirm.group /\ d.name = ui.confirm.name
      /\ d.production = ui.confirm.production
  BY <1>3 DEF Deleting, IsConfirm
<1> HIDE DEF d
<1>6. ui' = [ui EXCEPT !.confirm = d]
  BY <1>4 DEF d
<1>7. IsUi(ui') /\ Listed(ui', cfg) /\ Departed(ui', cfg, life)
  BY <1>2, <1>6 DEF IsUi, Listed, Departed
<1>8. ui'.confirm = d /\ ui'.screen = ui.screen /\ Work(ui') = ui.screen /\ Work(ui) = ui.screen
  BY <1>1, <1>2, <1>6 DEF IsUi, Work
<1>9. OnScreen(ui', cfg, opened)
  BY <1>1, <1>3, <1>5, <1>8 DEF OnScreen, Deleting
<1> QED BY <1>1, <1>7, <1>9, UiStep

-----------------------------------------------------------------------------
(* Saving and deleting.                                                    *)

\* An entry goes to the end of a list, takes the place of another, or leaves.
LEMMA Longer ==
  ASSUME NEW S, NEW q \in Seq(S), NEW e \in S
  PROVE  Append(q, e) \in Seq(S) /\ Len(Append(q, e)) = Len(q) + 1
  OBVIOUS

LEMMA Replaced ==
  ASSUME NEW S, NEW q \in Seq(S), NEW k \in 1 .. Len(q), NEW e \in S
  PROVE  [q EXCEPT ![k] = e] \in Seq(S) /\ Len([q EXCEPT ![k] = e]) = Len(q)
  OBVIOUS

\* Both lists of a configuration replaced, in either order of the updates.
BothLists(c, x, y) == [c EXCEPT !.bms = x, !.grps = y]
ListsBoth(c, x, y) == [c EXCEPT !.grps = y, !.bms = x]

\* Either list may be exchanged.
LEMMA Exchanged ==
  ASSUME NEW c \in ConfigSet, NEW x, NEW y
  PROVE  /\ [c EXCEPT !.bms = x] = [bms |-> x, grps |-> c.grps]
         /\ [c EXCEPT !.grps = y] = [bms |-> c.bms, grps |-> y]
  BY DEF ConfigSet

\* Both may be exchanged.
LEMMA BothExchanged ==
  ASSUME NEW c \in ConfigSet, NEW x, NEW y
  PROVE  BothLists(c, x, y) = [bms |-> x, grps |-> y]
<1> DEFINE d == [c EXCEPT !.bms = x]
<1>1. d = [bms |-> x, grps |-> c.grps]
  BY DEF ConfigSet
<1> HIDE DEF d
<1>2. [d EXCEPT !.grps = y] = [bms |-> x, grps |-> y]
  BY <1>1
<1> QED BY <1>2 DEF d, BothLists

LEMMA ExchangedBoth ==
  ASSUME NEW c \in ConfigSet, NEW x, NEW y
  PROVE  ListsBoth(c, x, y) = [bms |-> x, grps |-> y]
<1> DEFINE d == [c EXCEPT !.grps = y]
<1>1. d = [bms |-> c.bms, grps |-> y]
  BY DEF ConfigSet
<1> HIDE DEF d
<1>2. [d EXCEPT !.bms = x] = [bms |-> x, grps |-> y]
  BY <1>1
<1> QED BY <1>2 DEF d, ListsBoth

\* A configuration with so many entries.
Fits(x, n) ==
  \E p, q \in Seq(EntrySet) : x = [bms |-> p, grps |-> q] /\ Len(p) + Len(q) = n

LEMMA FitsAre ==
  /\ \A p, q \in Seq(EntrySet) : \A n : Len(p) + Len(q) = n => Fits([bms |-> p, grps |-> q], n)
  /\ \A x, n : Fits(x, n) => x \in ConfigSet /\ Size(x) = n
<1>1. ASSUME NEW p \in Seq(EntrySet), NEW q \in Seq(EntrySet), NEW n, Len(p) + Len(q) = n
      PROVE  Fits([bms |-> p, grps |-> q], n)
  BY <1>1 DEF Fits
<1>2. ASSUME NEW x, NEW n, Fits(x, n)
      PROVE  x \in ConfigSet /\ Size(x) = n
  BY <1>2 DEF Fits, ConfigSet, Size
<1> QED BY <1>1, <1>2

\* Only a new entry makes the lists longer.
LEMMA PlacedKeeps ==
  ASSUME NEW c \in ConfigSet, NEW f, NEW idx \in Nat, NEW e \in EntrySet,
         f.target \in {"add", "bookmark", "group"},
         f.target = "bookmark" => idx \in 1 .. Len(c.bms),
         f.target = "group" => idx \in 1 .. Len(c.grps)
  PROVE  LET new == Placed(c, f, idx, e)
         IN  /\ new \in ConfigSet
             /\ Size(new) = IF f.target = "add" THEN Size(c) + 1 ELSE Size(c)
<1> DEFINE bs == c.bms
           gs == c.grps
           b == Len(bs)
           g == Len(gs)
           addB == Append(c.bms, e)
           addG == Append(c.grps, e)
           putB == [c.bms EXCEPT ![idx] = e]
           putG == [c.grps EXCEPT ![idx] = e]
           cutB == RemoveAt(c.bms, idx)
           cutG == RemoveAt(c.grps, idx)
           new == Placed(c, f, idx, e)
<1>1. /\ bs \in Seq(EntrySet) /\ gs \in Seq(EntrySet) /\ b \in Nat /\ g \in Nat
      /\ Size(c) = b + g
  BY DEF ConfigSet, Size
<1>2. new = CASE f.target = "add" /\ IsGroup(f) -> [c EXCEPT !.grps = addG]
              [] f.target = "add" /\ ~IsGroup(f) -> [c EXCEPT !.bms = addB]
              [] f.target = "group" /\ IsGroup(f) -> [c EXCEPT !.grps = putG]
              [] f.target = "bookmark" /\ ~IsGroup(f) -> [c EXCEPT !.bms = putB]
              [] f.target = "bookmark" /\ IsGroup(f) -> [c EXCEPT !.bms = cutB, !.grps = addG]
              [] OTHER -> [c EXCEPT !.grps = cutG, !.bms = addB]
  BY DEF Placed
<1>3. /\ addG \in Seq(EntrySet) /\ Len(addG) = g + 1
      /\ addB \in Seq(EntrySet) /\ Len(addB) = b + 1
  BY <1>1, Longer
<1>4. ASSUME f.target = "group"
      PROVE  /\ putG \in Seq(EntrySet) /\ Len(putG) = g
             /\ cutG \in Seq(EntrySet) /\ Len(cutG) = g - 1
  <2>1. idx \in 1 .. Len(c.grps) /\ c.grps \in Seq(EntrySet)
    BY <1>1, <1>4
  <2>2. putG \in Seq(EntrySet) /\ Len(putG) = g
    BY <2>1, Replaced
  <2>3. cutG \in Seq(EntrySet) /\ Len(cutG) = g - 1
    BY <2>1, Removed
  <2> QED BY <2>2, <2>3
<1>5. ASSUME f.target = "bookmark"
      PROVE  /\ putB \in Seq(EntrySet) /\ Len(putB) = b
             /\ cutB \in Seq(EntrySet) /\ Len(cutB) = b - 1
  <2>1. idx \in 1 .. Len(c.bms) /\ c.bms \in Seq(EntrySet)
    BY <1>1, <1>5
  <2>2. putB \in Seq(EntrySet) /\ Len(putB) = b
    BY <2>1, Replaced
  <2>3. cutB \in Seq(EntrySet) /\ Len(cutB) = b - 1
    BY <2>1, Removed
  <2> QED BY <2>2, <2>3
<1> HIDE DEF addB, addG, putB, putG, cutB, cutG
<1>6. /\ [c EXCEPT !.grps = addG] = [bms |-> bs, grps |-> addG]
      /\ [c EXCEPT !.bms = addB] = [bms |-> addB, grps |-> gs]
      /\ [c EXCEPT !.grps = putG] = [bms |-> bs, grps |-> putG]
      /\ [c EXCEPT !.bms = putB] = [bms |-> putB, grps |-> gs]
      /\ [c EXCEPT !.bms = cutB, !.grps = addG] = [bms |-> cutB, grps |-> addG]
      /\ [c EXCEPT !.grps = cutG, !.bms = addB] = [bms |-> addB, grps |-> cutG]
  <2>1. ASSUME NEW x, NEW y
        PROVE  /\ [c EXCEPT !.bms = x] = [bms |-> x, grps |-> gs]
               /\ [c EXCEPT !.grps = y] = [bms |-> bs, grps |-> y]
               /\ [c EXCEPT !.bms = x, !.grps = y] = [bms |-> x, grps |-> y]
               /\ [c EXCEPT !.grps = y, !.bms = x] = [bms |-> x, grps |-> y]
    <3>1. [c EXCEPT !.bms = x] = [bms |-> x, grps |-> c.grps]
      BY ONLY c \in ConfigSet, Exchanged
    <3>2. [c EXCEPT !.grps = y] = [bms |-> c.bms, grps |-> y]
      BY ONLY c \in ConfigSet, Exchanged
    <3>3. [c EXCEPT !.bms = x, !.grps = y] = [bms |-> x, grps |-> y]
      <4>1. BothLists(c, x, y) = [bms |-> x, grps |-> y]
        BY ONLY c \in ConfigSet, BothExchanged
      <4> QED BY ONLY <4>1 DEF BothLists
    <3>4. [c EXCEPT !.grps = y, !.bms = x] = [bms |-> x, grps |-> y]
      <4>1. ListsBoth(c, x, y) = [bms |-> x, grps |-> y]
        BY ONLY c \in ConfigSet, ExchangedBoth
      <4> QED BY ONLY <4>1 DEF ListsBoth
    <3> QED BY ONLY <3>1, <3>2, <3>3, <3>4
  <2>2. /\ [c EXCEPT !.grps = addG] = [bms |-> bs, grps |-> addG]
        /\ [c EXCEPT !.bms = addB] = [bms |-> addB, grps |-> gs]
    BY <2>1
  <2>3. /\ [c EXCEPT !.grps = putG] = [bms |-> bs, grps |-> putG]
        /\ [c EXCEPT !.bms = putB] = [bms |-> putB, grps |-> gs]
    BY <2>1
  <2>4. [c EXCEPT !.bms = cutB, !.grps = addG] = [bms |-> cutB, grps |-> addG]
    BY <2>1
  <2>5. [c EXCEPT !.grps = cutG, !.bms = addB] = [bms |-> addB, grps |-> cutG]
    BY <2>1
  <2> QED BY <2>2, <2>3, <2>4, <2>5
<1>7. Len(bs) = b /\ Len(gs) = g
  OBVIOUS
<1> HIDE DEF bs, gs, b, g, new
<1>8. CASE f.target = "add"
  <2>1. Len(bs) + Len(addG) = b + g + 1 /\ Len(addB) + Len(gs) = b + g + 1
    BY ONLY <1>1, <1>3, <1>7
  <2>2. new \in {[bms |-> bs, grps |-> addG], [bms |-> addB, grps |-> gs]}
    BY <1>2, <1>6, <1>8
  <2>3. Fits([bms |-> bs, grps |-> addG], b + g + 1) /\ Fits([bms |-> addB, grps |-> gs], b + g + 1)
    BY ONLY <1>1, <1>3, <2>1, FitsAre, Zenon
  <2>4. new \in ConfigSet /\ Size(new) = b + g + 1
    BY ONLY <2>2, <2>3, FitsAre
  <2> QED BY <1>1, <1>8, <2>4 DEF new
<1>9. CASE f.target = "group"
  <2>1. /\ putG \in Seq(EntrySet) /\ Len(putG) = g
        /\ cutG \in Seq(EntrySet) /\ Len(cutG) = g - 1
    BY <1>4, <1>9
  <2>2. Len(bs) + Len(putG) = b + g /\ Len(addB) + Len(cutG) = b + g
    BY ONLY <1>1, <1>3, <1>7, <2>1
  <2>3. new \in {[bms |-> bs, grps |-> putG], [bms |-> addB, grps |-> cutG]}
    BY <1>2, <1>6, <1>9
  <2>4. Fits([bms |-> bs, grps |-> putG], b + g) /\ Fits([bms |-> addB, grps |-> cutG], b + g)
    BY ONLY <1>1, <1>3, <2>1, <2>2, FitsAre, Zenon
  <2>5. new \in ConfigSet /\ Size(new) = b + g
    BY ONLY <2>3, <2>4, FitsAre
  <2> QED BY <1>1, <1>9, <2>5 DEF new
<1>10. CASE f.target = "bookmark"
  <2>1. /\ putB \in Seq(EntrySet) /\ Len(putB) = b
        /\ cutB \in Seq(EntrySet) /\ Len(cutB) = b - 1
    BY <1>5, <1>10
  <2>2. Len(putB) + Len(gs) = b + g /\ Len(cutB) + Len(addG) = b + g
    BY ONLY <1>1, <1>3, <1>7, <2>1
  <2>3. new \in {[bms |-> putB, grps |-> gs], [bms |-> cutB, grps |-> addG]}
    BY <1>2, <1>6, <1>10
  <2>4. Fits([bms |-> putB, grps |-> gs], b + g) /\ Fits([bms |-> cutB, grps |-> addG], b + g)
    BY ONLY <1>1, <1>3, <2>1, <2>2, FitsAre, Zenon
  <2>5. new \in ConfigSet /\ Size(new) = b + g
    BY ONLY <2>3, <2>4, FitsAre
  <2> QED BY <1>1, <1>10, <2>5 DEF new
<1> QED BY <1>8, <1>9, <1>10

\* The dialog is closed and the list filtered anew.
LEMMA Reopened ==
  ASSUME NEW u, IsUi(u), u.back = 0, NEW new \in ConfigSet, NEW l \in {"running"}, NEW o
  PROVE  LET v == ToList(Refilter(u, new))
         IN  IsUi(v) /\ Listed(v, new) /\ OnScreen(v, new, o) /\ Departed(v, new, l)
<1> DEFINE w == Refilter(u, new)
<1>1. IsUi(w) /\ Listed(w, new) /\ SameScreen(u, w)
  BY RefilterKeeps
<1> HIDE DEF w
<1>2. Departed(w, new, l)
  <2>1. Len(new.grps) \in Nat
    BY DEF ConfigSet
  <2> QED BY <1>1, <2>1 DEF SameScreen, Departed
<1> QED BY <1>1, <1>2, ToListKeeps DEF w

\* Return in the form.
LEMMA SaveStep ==
  ASSUME TInv, SaveForm
  PROVE  TInv'
<1> DEFINE f == ui.form
           idx == ui.screen.idx
           id == IF f.target = "add" THEN count.ids + 1
                 ELSE IF f.target = "bookmark" THEN cfg.bms[idx].id
                 ELSE cfg.grps[idx].id
<1>1. /\ life = "running" /\ life' = life /\ ~At("mux") /\ conns' = conns /\ tasks' = tasks
      /\ ui.screen.at \in {"add", "edit"} /\ (f.target = "add" => count.ids < MaxId)
  BY DEF SaveForm, InForm, At, mux
<1>2. PICK failed \in SUBSET Calls :
        LET new == Placed(cfg, f, idx, Built(f, id))
        IN  /\ cfg' = new /\ disk' = Saved(new, failed)
            /\ count' = [count EXCEPT !.faults = @ + Cardinality(failed),
                           !.saves = @ + 1,
                           !.ids = IF f.target = "add" THEN @ + 1 ELSE @]
            /\ ui' = ToList(Refilter([ui EXCEPT !.form = NoForm], new))
  BY DEF SaveForm
<1> DEFINE new == Placed(cfg, f, idx, Built(f, id))
           u == [ui EXCEPT !.form = NoForm]
<1>3. /\ IsUi(ui) /\ OnScreen(ui, cfg, opened) /\ Departed(ui, cfg, life)
      /\ cfg \in ConfigSet /\ disk \in ConfigSet
  BY DEF TInv, Sized
<1>4. /\ IsForm(f) /\ idx \in Nat
      /\ f.target \in {"add", "bookmark", "group"}
      /\ f.target = "bookmark" => idx \in 1 .. Len(cfg.bms)
      /\ f.target = "group" => idx \in 1 .. Len(cfg.grps)
  <2>1. Work(ui) = ui.screen /\ idx \in Nat
    BY <1>1, <1>3 DEF Work, IsUi, ScreenSet
  <2>2. IsForm(f) /\ (ui.screen.at = "add" => f.target = "add")
        /\ (ui.screen.at = "edit" => Editing(ui, cfg, opened))
    BY <1>1, <1>3, <2>1 DEF OnScreen
  <2> QED BY <1>1, <2>1, <2>2 DEF Editing
<1>5. Built(f, id) \in EntrySet
  <2>1. id \in Nat \ {0}
    <3>1. count.ids \in Nat
      BY TuiAssumption DEF TInv, Sized
    <3>2. CASE f.target = "bookmark"
      <4>1. cfg.bms[idx] \in EntrySet
        BY <1>3, <1>4, <3>2 DEF ConfigSet
      <4> QED BY <3>2, <4>1 DEF EntrySet
    <3>3. CASE f.target = "group"
      <4>1. cfg.grps[idx] \in EntrySet
        BY <1>3, <1>4, <3>3 DEF ConfigSet
      <4> QED BY <3>3, <4>1 DEF EntrySet
    <3> QED BY <1>4, <3>1, <3>2, <3>3
  <2> HIDE DEF id
  <2> QED BY <1>4, <2>1 DEF Built, EntrySet, IsForm, FormSet
<1>6. /\ new \in ConfigSet
      /\ Size(new) = IF f.target = "add" THEN Size(cfg) + 1 ELSE Size(cfg)
  <2> HIDE DEF id
  <2> QED BY <1>3, <1>4, <1>5, PlacedKeeps
<1>7. IsUi(u) /\ u.back = 0
  BY <1>1, <1>3 DEF IsUi, Departed
<1>8. ui' = ToList(Refilter(u, new)) /\ cfg' = new /\ (disk' = new \/ disk' = disk)
  BY <1>2 DEF Saved
<1>9. /\ DOMAIN count' = {"ids", "faults", "opens", "leaves", "saves"}
      /\ count'.opens = count.opens /\ count'.leaves = count.leaves
      /\ count'.ids = IF f.target = "add" THEN count.ids + 1 ELSE count.ids
  BY <1>2 DEF TInv, Sized
<1> HIDE DEF new, u, f, id, idx
<1>10. Sized'
  <2> DEFINE n == count.ids
             k == count.leaves
             s == Size(cfg)
             d == Size(disk)
  <2>1. /\ n \in 0 .. MaxId /\ k \in 0 .. MaxLeaves /\ s <= n + k /\ d <= n + k
        /\ MaxId \in Nat /\ MaxLeaves \in Nat /\ s \in Nat /\ d \in Nat
    BY <1>3, TuiAssumption DEF TInv, Sized, ConfigSet, Size
  <2> HIDE DEF n, k, s, d
  <2>2. CASE f.target = "add"
    <3>1. n < MaxId /\ count'.ids = n + 1 /\ Size(new) = s + 1
      BY <1>1, <1>6, <1>9, <2>2 DEF n, s
    <3>2. n + 1 \in 0 .. MaxId /\ s + 1 <= n + 1 + k /\ d <= n + 1 + k
      BY ONLY <2>1, <3>1
    <3> QED BY <1>1, <1>3, <1>6, <1>8, <1>9, <2>1, <3>1, <3>2 DEF TInv, Sized, n, k, s, d
  <2>3. CASE f.target # "add"
    BY <1>1, <1>3, <1>6, <1>8, <1>9, <2>1, <2>3 DEF TInv, Sized, n, k, s, d
  <2> QED BY <2>2, <2>3
<1>11. IsUi(ui') /\ Listed(ui', cfg') /\ OnScreen(ui', cfg', opened') /\ Departed(ui', cfg', life')
  BY <1>1, <1>6, <1>7, <1>8, Reopened
<1>12. Linked(conns', tasks', cfg', count'.opens) /\ Home(life', ui', conns')
  BY <1>1, <1>9, QuietAway
<1> QED BY <1>10, <1>11, <1>12 DEF TInv

\* Return in the confirmation.
LEMMA DeleteStep ==
  ASSUME TInv, Delete
  PROVE  TInv'
<1> DEFINE idx == ui.screen.idx
           new == IF ui.confirm.group THEN [cfg EXCEPT !.grps = RemoveAt(@, idx)]
                  ELSE [cfg EXCEPT !.bms = RemoveAt(@, idx)]
           u == [ui EXCEPT !.confirm = NoConfirm]
<1>1. /\ life = "running" /\ life' = life /\ ~At("mux") /\ conns' = conns /\ tasks' = tasks
      /\ ~OutOfRange(ui.confirm, idx)
  BY DEF Delete, InConfirm, At, mux
<1>2. PICK failed \in SUBSET {"save", "delete"} :
        /\ cfg' = new /\ disk' = Saved(new, failed)
        /\ count' = [count EXCEPT !.faults = @ + Cardinality(failed)]
        /\ ui' = ToList(Refilter(u, new))
  BY DEF Delete
<1>3. /\ IsUi(ui) /\ Departed(ui, cfg, life) /\ cfg \in ConfigSet /\ disk \in ConfigSet
  BY DEF TInv, Sized
<1>4. new \in ConfigSet /\ Size(new) = Size(cfg) - 1
  <2> DEFINE bs == cfg.bms
             gs == cfg.grps
  <2>1. /\ bs \in Seq(EntrySet) /\ gs \in Seq(EntrySet) /\ Len(bs) \in Nat /\ Len(gs) \in Nat
        /\ cfg = [bms |-> bs, grps |-> gs] /\ Size(cfg) = Len(bs) + Len(gs)
    BY <1>3 DEF ConfigSet, Size
  <2>2. idx \in IF ui.confirm.group THEN 1 .. Len(gs) ELSE 1 .. Len(bs)
    BY <1>1, <2>1 DEF OutOfRange
  <2> HIDE DEF bs, gs, idx
  <2>3. Fits(new, Len(bs) + Len(gs) - 1)
    <3>1. CASE ui.confirm.group
      <4>1. RemoveAt(gs, idx) \in Seq(EntrySet) /\ Len(RemoveAt(gs, idx)) = Len(gs) - 1
        BY <2>1, <2>2, <3>1, Removed
      <4>2. new = [bms |-> bs, grps |-> RemoveAt(gs, idx)]
        BY <2>1, <3>1, Exchanged
      <4>3. Len(bs) + Len(RemoveAt(gs, idx)) = Len(bs) + Len(gs) - 1
        BY <2>1, <4>1
      <4> HIDE DEF new
      <4> QED BY <2>1, <4>1, <4>2, <4>3, FitsAre
    <3>2. CASE ~ui.confirm.group
      <4>1. RemoveAt(bs, idx) \in Seq(EntrySet) /\ Len(RemoveAt(bs, idx)) = Len(bs) - 1
        BY <2>1, <2>2, <3>2, Removed
      <4>2. new = [bms |-> RemoveAt(bs, idx), grps |-> gs]
        BY <2>1, <3>2, Exchanged
      <4>3. Len(RemoveAt(bs, idx)) + Len(gs) = Len(bs) + Len(gs) - 1
        BY <2>1, <4>1
      <4> HIDE DEF new
      <4> QED BY <2>1, <4>1, <4>2, <4>3, FitsAre
    <3> QED BY <3>1, <3>2
  <2> HIDE DEF new
  <2> QED BY <2>1, <2>3, FitsAre
<1>5. IsUi(u) /\ u.back = 0
  BY <1>1, <1>3 DEF IsUi, Departed
<1>6. ui' = ToList(Refilter(u, new)) /\ cfg' = new /\ (disk' = new \/ disk' = disk)
  BY <1>2 DEF Saved
<1>7. /\ DOMAIN count' = {"ids", "faults", "opens", "leaves", "saves"}
      /\ count'.opens = count.opens /\ count'.leaves = count.leaves /\ count'.ids = count.ids
  BY <1>2 DEF TInv, Sized
<1> HIDE DEF new, u, idx
<1>8. Sized'
  <2> DEFINE n == count.ids
             k == count.leaves
             s == Size(cfg)
  <2>1. n \in Nat /\ k \in Nat /\ s <= n + k /\ s \in Nat
    BY <1>3, TuiAssumption DEF TInv, Sized, ConfigSet, Size
  <2>2. Size(new) = s - 1
    BY <1>4
  <2> HIDE DEF n, k, s
  <2>3. s - 1 <= n + k
    BY ONLY <2>1
  <2> QED BY <1>1, <1>4, <1>6, <1>7, <2>2, <2>3 DEF TInv, Sized, n, k
<1>9. IsUi(ui') /\ Listed(ui', cfg') /\ OnScreen(ui', cfg', opened') /\ Departed(ui', cfg', life')
  BY <1>1, <1>4, <1>5, <1>6, Reopened
<1>10. Linked(conns', tasks', cfg', count'.opens) /\ Home(life', ui', conns')
  BY <1>1, <1>7, QuietAway
<1> QED BY <1>8, <1>9, <1>10 DEF TInv

-----------------------------------------------------------------------------
(* Leaving, coming back and the mux screen.                                *)

\* A departure allows for one more entry on disk.
LEMMA OneMoreLeft ==
  ASSUME TInv, cfg' = cfg, disk' = disk, count.leaves < MaxLeaves,
         count' = [count EXCEPT !.leaves = @ + 1]
  PROVE  Sized' /\ count'.opens = count.opens
<1> DEFINE n == count.ids
           k == count.leaves
           s == Size(cfg)
           d == Size(disk)
<1>1. /\ n \in 0 .. MaxId /\ k \in 0 .. MaxLeaves /\ s <= n + k /\ d <= n + k
      /\ MaxId \in Nat /\ MaxLeaves \in Nat /\ s \in Nat /\ d \in Nat /\ k < MaxLeaves
  BY TuiAssumption DEF TInv, Sized, ConfigSet, Size
<1>2. /\ DOMAIN count' = {"ids", "faults", "opens", "leaves", "saves"}
      /\ count'.opens = count.opens /\ count'.leaves = k + 1 /\ count'.ids = n
  BY DEF TInv, Sized
<1> HIDE DEF n, k, s, d
<1>3. k + 1 \in 0 .. MaxLeaves /\ s <= n + (k + 1) /\ d <= n + (k + 1) /\ s + 1 <= n + (k + 1)
  BY ONLY <1>1
<1> QED BY <1>1, <1>2, <1>3 DEF TInv, Sized, n, s, d

\* Enter or f on a bookmark.
LEMMA LeaveStep ==
  ASSUME TInv, EnterBookmark \/ Browse
  PROVE  TInv'
<1>1. /\ ui.screen.at = "list" /\ ~At("mux") /\ life = "running" /\ life' = "away"
      /\ cfg' = cfg /\ disk' = disk /\ conns' = conns /\ tasks' = tasks
      /\ count' = [count EXCEPT !.leaves = @ + 1] /\ count.leaves < MaxLeaves
  BY DEF EnterBookmark, Browse, Listing, At, Leave, store, mux
<1>2. PICK item : /\ IsBookmark(item) \/ item = 0
                  /\ ui' = [ui EXCEPT !.request = item, !.session = 0]
  BY DEF EnterBookmark, Browse, Leave
<1>3. /\ IsUi(ui) /\ Listed(ui, cfg) /\ Departed(ui, cfg, life)
      /\ cfg \in ConfigSet /\ disk \in ConfigSet
  BY DEF TInv, Sized
<1>4. ~IsGroupItem(item)
  BY <1>2 DEF IsBookmark, IsGroupItem, Marker
<1>5. IsUi(ui') /\ Listed(ui', cfg) /\ ui'.screen = ui.screen /\ ui'.back = ui.back
      /\ ui'.request = item
  BY <1>2, <1>3 DEF IsUi, Listed
<1>6. Departed(ui', cfg, life')
  BY <1>1, <1>3, <1>4, <1>5 DEF Departed
<1>7. OnScreen(ui', cfg, opened')
  BY <1>1, <1>5, ListScreen
<1>8. Sized' /\ count'.opens = count.opens
  BY <1>1, OneMoreLeft
<1>9. Linked(conns', tasks', cfg', count'.opens) /\ Home(life', ui', conns')
  BY <1>1, <1>8, QuietAway
<1> QED BY <1>1, <1>5, <1>6, <1>7, <1>8, <1>9 DEF TInv

\* The end of the session: the temporary bookmark may be in the file.
LEMMA ComeBackStep ==
  ASSUME TInv, ComeBack
  PROVE  TInv'
<1> DEFINE item == ui.request
           e == Synthetic(cfg.grps[item - Marker])
           during == IF IsGroupItem(item) THEN [cfg EXCEPT !.bms = Append(@, e)] ELSE cfg
           s == [at |-> "mux", idx |-> ui.back]
<1>1. /\ life = "away" /\ life' = "running" /\ ~At("mux") /\ disk' \in {disk, during}
      /\ cfg' = cfg /\ conns' = conns /\ tasks' = tasks /\ count' = count
      /\ ui' = [ui EXCEPT !.request = 0, !.back = 0,
                  !.session = IF ui.back # 0 THEN 1 ELSE 0,
                  !.screen = IF ui.back # 0 THEN s ELSE @]
      /\ opened' = IF ui.back # 0 THEN cfg.grps[ui.back].id ELSE 0
  BY DEF ComeBack, At, mux
<1>2. /\ IsUi(ui) /\ Listed(ui, cfg) /\ Departed(ui, cfg, life)
      /\ cfg \in ConfigSet /\ disk \in ConfigSet
  BY DEF TInv, Sized
<1>3. during \in ConfigSet /\ Size(during) <= Size(cfg) + 1
  <2>1. Size(cfg) \in Nat
    BY <1>2 DEF ConfigSet, Size
  <2>2. CASE ~IsGroupItem(item)
    BY <1>2, <2>1, <2>2
  <2>3. CASE IsGroupItem(item)
    <3> DEFINE j == item - Marker
    <3>1. j \in 1 .. Len(cfg.grps) /\ cfg.grps \in Seq(EntrySet) /\ cfg.bms \in Seq(EntrySet)
      BY <1>1, <1>2, <2>3 DEF Departed, ConfigSet
    <3> HIDE DEF j
    <3>2. cfg.grps[j] \in EntrySet
      BY <3>1
    <3>3. e \in EntrySet
      <4>1. TempId \in Nat \ {0}
        BY TuiAssumption DEF TempId
      <4>2. cfg.grps[j].env \in Envs
        BY <3>2 DEF EntrySet
      <4> QED BY <4>1, <4>2, TextsAre, EmptySeq DEF Synthetic, EntrySet, j
    <3> HIDE DEF e
    <3> DEFINE q == Append(cfg.bms, e)
    <3>4. q \in Seq(EntrySet) /\ Len(q) = Len(cfg.bms) + 1
      BY <3>1, <3>3, Longer
    <3>5. during = [cfg EXCEPT !.bms = q]
      BY <2>3
    <3> HIDE DEF q, during
    <3>6. during = [bms |-> q, grps |-> cfg.grps]
      BY <1>2, <3>5, Exchanged
    <3>7. Len(q) + Len(cfg.grps) = Size(cfg) + 1
      <4> DEFINE a == Len(cfg.bms)
                 b == Len(cfg.grps)
      <4>1. a \in Nat /\ b \in Nat /\ Len(q) = a + 1 /\ Size(cfg) = a + b
        BY <3>1, <3>4 DEF Size
      <4> HIDE DEF a, b
      <4>2. Len(q) + b = Size(cfg) + 1
        BY ONLY <4>1
      <4> QED BY <4>2 DEF b
    <3>8. Fits(during, Size(cfg) + 1)
      BY <3>1, <3>4, <3>6, <3>7, FitsAre, Zenon
    <3> QED BY <2>1, <3>8, FitsAre
  <2> QED BY <2>2, <2>3
<1> HIDE DEF during
<1>4. Sized'
  <2> DEFINE n == count.ids + count.leaves
             c == Size(cfg)
             d == Size(during)
  <2>1. c + 1 <= n /\ d <= c + 1
    BY <1>1, <1>3 DEF TInv, Sized
  <2>2. c \in Nat /\ d \in Nat /\ n \in Nat
    <3>1. count.ids \in Nat /\ count.leaves \in Nat
      BY TuiAssumption DEF TInv, Sized
    <3> QED BY <1>2, <1>3, <3>1 DEF ConfigSet, Size
  <2> HIDE DEF c, d, n
  <2>3. d <= n
    BY ONLY <2>1, <2>2
  <2> QED BY <1>1, <1>3, <2>3 DEF TInv, Sized, d, n
<1>5. CASE ui.back = 0
  <2>1. ui' = [ui EXCEPT !.request = 0, !.back = 0, !.session = 0, !.screen = ui.screen]
    BY <1>1, <1>5
  <2>2. IsUi(ui') /\ Listed(ui', cfg') /\ ui'.screen.at = "list" /\ Departed(ui', cfg', life')
    BY <1>1, <1>2, <1>5, <2>1 DEF IsUi, Listed, Departed
  <2>3. OnScreen(ui', cfg', opened')
    BY <2>2, ListScreen
  <2>4. Linked(conns', tasks', cfg', count'.opens) /\ Home(life', ui', conns')
    BY <1>1, QuietAway
  <2> QED BY <1>4, <2>2, <2>3, <2>4 DEF TInv
<1>6. CASE ui.back # 0
  <2>1. ui.back \in 1 .. Len(cfg.grps) /\ opened' = cfg.grps[ui.back].id
    <3>1. Len(cfg.grps) \in Nat /\ ui.back \in 0 .. Len(cfg.grps)
      BY <1>2 DEF ConfigSet, Departed
    <3> QED BY <1>1, <1>6, <3>1
  <2>2. s \in ScreenSet /\ s.at = "mux" /\ s.idx = ui.back
    BY <1>2 DEF ScreenSet, IsUi
  <2>3. ui' = [ui EXCEPT !.request = 0, !.back = 0, !.session = 1, !.screen = s]
    BY <1>1, <1>6
  <2> HIDE DEF s
  <2>4. /\ IsUi(ui') /\ Listed(ui', cfg') /\ Departed(ui', cfg', life')
        /\ ui'.screen = s /\ ui'.session = 1
    <3>1. Len(cfg.grps) \in Nat
      BY <1>2 DEF ConfigSet
    <3>2. /\ ui'.screen = s /\ ui'.session = 1 /\ ui'.back = 0 /\ ui'.help = ui.help
          /\ ui'.filtered = ui.filtered /\ ui'.selected = ui.selected /\ DOMAIN ui' = DOMAIN ui
      BY <1>2, <2>3 DEF IsUi
    <3>3. IsUi(ui')
      BY <1>2, <2>2, <3>2, Places DEF IsUi
    <3>4. Listed(ui', cfg') /\ Departed(ui', cfg', life')
      BY <1>1, <1>2, <3>1, <3>2 DEF Listed, Departed
    <3> QED BY <3>2, <3>3, <3>4
  <2>5. Work(ui') = s
    BY <2>2, <2>4 DEF Work
  <2>6. Connecting(ui', cfg', opened')
    <3>1. Len(cfg.grps[ui.back].sessions) \in Nat
      BY <1>2, <2>1 DEF ConfigSet, EntrySet
    <3> QED BY <1>1, <2>1, <2>2, <2>4, <2>5, <3>1 DEF Connecting
  <2>7. OnScreen(ui', cfg', opened')
    BY <2>2, <2>4, <2>5, <2>6 DEF OnScreen
  <2>8. Linked(conns', tasks', cfg', count'.opens) /\ Home(life', ui', conns')
    BY <1>1, QuietAway
  <2> QED BY <1>4, <2>4, <2>7, <2>8 DEF TInv
<1> QED BY <1>5, <1>6

\* The group on the mux screen, and its connection alone.
LEMMA OnMux ==
  ASSUME TInv, At("mux")
  PROVE  /\ Here \in 1 .. Len(cfg.grps) /\ Here \in GroupIdx /\ Here \in Nat
         /\ opened = cfg.grps[Here].id /\ cfg.grps[Here] \in EntrySet
         /\ Sessions \in Nat /\ (Sessions > 0 => ui.session \in 1 .. Sessions)
         /\ Work(ui) = ui.screen /\ life = "running" /\ ui.back = 0
         /\ \A g \in GroupIdx : g # Here => conns[g].st = "none" /\ conns[g].n = 0
<1>1. /\ IsUi(ui) /\ OnScreen(ui, cfg, opened) /\ Departed(ui, cfg, life) /\ cfg \in ConfigSet
      /\ life = "running" /\ ui.screen.at = "mux"
  BY DEF TInv, Sized, At
<1>2. Work(ui) = ui.screen /\ ui.back = 0
  BY <1>1 DEF Work, Departed
<1>3. Connecting(ui, cfg, opened)
  BY <1>1, <1>2 DEF OnScreen
<1>4. Here \in 1 .. Len(cfg.grps) /\ opened = cfg.grps[Here].id
  BY <1>2, <1>3 DEF Connecting, Here
<1>5. cfg.grps[Here] \in EntrySet
  BY <1>1, <1>4 DEF ConfigSet
<1>6. Sessions \in Nat /\ (Sessions > 0 => ui.session \in 1 .. Sessions)
  <2>1. Sessions \in Nat
    BY <1>5 DEF Sessions, EntrySet
  <2> QED BY <1>2, <1>3, <2>1 DEF Connecting, Sessions, Here
<1>7. Here \in GroupIdx /\ Here \in Nat
  <2> DEFINE n == Len(cfg.grps)
             m == MaxId + MaxLeaves
  <2>1. n \in Nat /\ m \in Nat /\ n <= m /\ Here \in 1 .. n
    BY <1>1, <1>4, Bounded, TuiAssumption DEF TInv, ConfigSet
  <2> HIDE DEF n, m
  <2>2. Here \in 1 .. m /\ Here \in Nat
    BY ONLY <2>1
  <2> QED BY <2>2 DEF GroupIdx, m
<1>8. \A g \in GroupIdx : g # Here => conns[g].st = "none" /\ conns[g].n = 0
  BY DEF TInv, Home, Linked, Here
<1> QED BY <1>1, <1>2, <1>4, <1>5, <1>6, <1>7, <1>8

LEMMA MuxMoveStep ==
  ASSUME TInv, MuxMove
  PROVE  TInv'
<1>1. /\ At("mux") /\ Sessions > 0 /\ life' = life /\ cfg' = cfg /\ disk' = disk
      /\ conns' = conns /\ tasks' = tasks /\ opened' = opened /\ count' = count
  BY DEF MuxMove, store, mux
<1>2. PICK s \in {IF ui.session = 1 THEN Sessions ELSE ui.session - 1,
                  IF ui.session >= Sessions THEN 1 ELSE ui.session + 1} :
        ui' = [ui EXCEPT !.session = s]
  BY DEF MuxMove
<1>3. s \in 1 .. Sessions /\ s \in Nat
  <2>1. Sessions \in Nat /\ ui.session \in 1 .. Sessions
    BY <1>1, OnMux
  <2> QED BY <1>2, <2>1
<1>4. IsUi(ui) /\ Listed(ui, cfg) /\ OnScreen(ui, cfg, opened) /\ Departed(ui, cfg, life)
  BY DEF TInv
<1>5. IsUi(ui') /\ Listed(ui', cfg) /\ Departed(ui', cfg, life) /\ ui'.screen = ui.screen
      /\ ui'.session = s
  BY <1>2, <1>3, <1>4 DEF IsUi, Listed, Departed
<1>6. ui.screen.at = "mux" /\ Work(ui') = ui.screen /\ Work(ui) = ui.screen
  BY <1>1, <1>5 DEF At, Work
<1>7. Connecting(ui', cfg, opened)
  BY <1>3, <1>4, <1>5, <1>6 DEF OnScreen, Connecting, Sessions, Here
<1>8. OnScreen(ui', cfg, opened)
  BY <1>5, <1>6, <1>7 DEF OnScreen
<1>9. Sized' /\ Linked(conns', tasks', cfg', count'.opens) /\ Home(life', ui', conns')
  BY <1>1, <1>5 DEF TInv, Sized, Home
<1> QED BY <1>1, <1>5, <1>8, <1>9 DEF TInv

\* Without its connection the group leaves none.
LEMMA ClosedIsQuiet ==
  ASSUME TInv, At("mux")
  PROVE  \A c, l, u : /\ Linked(Closed(conns, Here), tasks, c, count.opens)
                      /\ Home(l, u, Closed(conns, Here))
<1> DEFINE cs == Closed(conns, Here)
<1>1. NoConn \in ConnSet /\ NoConn.st = "none" /\ NoConn.n = 0
  BY DEF NoConn, ConnSet
<1>2. conns \in [GroupIdx -> ConnSet] /\ count.opens \in Nat
  BY DEF TInv, Linked, Sized
<1>3. cs \in [GroupIdx -> ConnSet]
  BY <1>1, <1>2 DEF Closed
<1>4. ASSUME NEW g \in GroupIdx
      PROVE  cs[g].st = "none" /\ cs[g].n = 0
  <2>1. g # Here => conns[g].st = "none" /\ conns[g].n = 0
    BY OnMux
  <2>2. cs[g] = IF g = Here THEN NoConn ELSE conns[g]
    BY <1>2 DEF Closed
  <2> QED BY <1>1, <2>1, <2>2
<1> HIDE DEF cs
<1>5. \A c : Linked(cs, tasks, c, count.opens)
  BY <1>2, <1>3, <1>4 DEF TInv, Linked
<1>6. \A l, u : Home(l, u, cs)
  BY <1>4 DEF Home
<1> QED BY <1>5, <1>6 DEF cs

LEMMA LeaveMuxStep ==
  ASSUME TInv, LeaveMux
  PROVE  TInv'
<1>1. /\ At("mux") /\ life' = life /\ cfg' = cfg /\ disk' = disk /\ tasks' = tasks
      /\ conns' = Closed(conns, Here) /\ count' = count /\ ui' = [ToList(ui) EXCEPT !.session = 0]
  BY DEF LeaveMux, store
<1>2. IsUi(ui) /\ Listed(ui, cfg) /\ Departed(ui, cfg, life)
  BY DEF TInv
<1> DEFINE v == ToList(ui)
<1>3. IsUi(v) /\ Listed(v, cfg) /\ Departed(v, cfg, life) /\ v.screen = List
  BY <1>2, ToListKeeps DEF ToList, IsUi
<1>4. ui' = [v EXCEPT !.session = 0]
  BY <1>1
<1> HIDE DEF v
<1>5. IsUi(ui') /\ Listed(ui', cfg) /\ Departed(ui', cfg, life) /\ ui'.screen = List
  BY <1>3, <1>4 DEF IsUi, Listed, Departed
<1>6. OnScreen(ui', cfg, opened')
  BY <1>5, ListScreen DEF List
<1>7. Linked(conns', tasks', cfg', count'.opens) /\ Home(life', ui', conns')
  BY <1>1, ClosedIsQuiet
<1>8. Sized'
  BY <1>1 DEF TInv, Sized
<1> QED BY <1>1, <1>5, <1>6, <1>7, <1>8 DEF TInv

LEMMA MuxFallbackStep ==
  ASSUME TInv, MuxFallback
  PROVE  TInv'
<1>1. /\ At("mux") /\ life' = "away" /\ cfg' = cfg /\ disk' = disk /\ tasks' = tasks
      /\ conns' = Closed(conns, Here) /\ opened' = opened
      /\ count' = [count EXCEPT !.leaves = @ + 1] /\ count.leaves < MaxLeaves
      /\ ui' = [ui EXCEPT !.request = Marker + Here, !.back = Here]
  BY DEF MuxFallback, store
<1>2. IsUi(ui) /\ Listed(ui, cfg) /\ OnScreen(ui, cfg, opened)
  BY DEF TInv
<1>3. /\ Here \in 1 .. Len(cfg.grps) /\ Here \in Nat /\ Here # 0 /\ Work(ui) = ui.screen
      /\ Len(cfg.grps) \in Nat
  BY <1>1, OnMux DEF TInv, Sized, ConfigSet
<1>4. IsUi(ui') /\ Listed(ui', cfg) /\ ui'.screen = ui.screen /\ ui'.session = ui.session
      /\ ui'.request = Marker + Here /\ ui'.back = Here
  BY <1>1, <1>2, <1>3 DEF IsUi, Listed
<1>5. ui.screen.at = "mux" /\ Work(ui') = ui.screen
  BY <1>1, <1>4 DEF At, Work
<1>6. OnScreen(ui', cfg, opened)
  BY <1>2, <1>3, <1>4, <1>5 DEF OnScreen, Connecting
<1>7. Departed(ui', cfg, life')
  <2> DEFINE h == Here
  <2>1. h \in Nat /\ Marker \in Nat
    BY <1>3 DEF Marker
  <2> HIDE DEF h
  <2>2. (Marker + h) - Marker = h
    BY ONLY <2>1
  <2>3. ui'.request - Marker = Here
    BY <1>4, <2>2 DEF h
  <2> QED BY <1>1, <1>3, <1>4, <2>3 DEF Departed
<1>8. Sized' /\ count'.opens = count.opens
  BY <1>1, OneMoreLeft
<1>9. Linked(conns', tasks', cfg', count'.opens) /\ Home(life', ui', conns')
  BY <1>1, <1>8, ClosedIsQuiet
<1> QED BY <1>1, <1>4, <1>6, <1>7, <1>8, <1>9 DEF TInv

\* Steps that change connections and tasks only.
LEMMA MuxStep ==
  ASSUME TInv, life' = life, cfg' = cfg, disk' = disk, ui' = ui, opened' = opened,
         DOMAIN count' = DOMAIN count, count'.ids = count.ids, count'.leaves = count.leaves,
         count'.opens \in Nat,
         Linked(conns', tasks', cfg, count'.opens), Home(life, ui, conns')
  PROVE  TInv'
<1>1. Sized'
  BY DEF TInv, Sized
<1> QED BY <1>1 DEF TInv

\* Enter opens a shell: an opening of a new number, and the only task of that number.
LEMMA MuxConnectStep ==
  ASSUME TInv, MuxConnect
  PROVE  TInv'
<1> DEFINE n == count.opens + 1
           link == [st |-> "connecting", chan |-> 0, n |-> n]
           job == [n |-> n, g |-> Here, gid |-> cfg.grps[Here].id, st |-> "opening"]
<1>1. /\ At("mux") /\ life' = life /\ cfg' = cfg /\ disk' = disk /\ ui' = ui /\ opened' = opened
      /\ conns' = [conns EXCEPT ![Here] = link] /\ tasks' = tasks \cup {job}
      /\ count' = [count EXCEPT !.opens = @ + 1]
  BY DEF MuxConnect, store
<1>2. /\ conns \in [GroupIdx -> ConnSet] /\ tasks \subseteq TaskSet /\ count.opens \in Nat
      /\ Linked(conns, tasks, cfg, count.opens)
  BY DEF TInv, Linked, Sized
<1>3. /\ DOMAIN count' = DOMAIN count /\ count'.ids = count.ids /\ count'.leaves = count.leaves
      /\ count'.opens = n
  BY <1>1 DEF TInv, Sized
<1>4. /\ Here \in GroupIdx /\ cfg.grps[Here].id \in Nat /\ life = "running"
      /\ \A g \in GroupIdx : g # Here => conns[g].st = "none" /\ conns[g].n = 0
  BY <1>1, OnMux DEF EntrySet
<1>5. n \in Nat /\ n # 0 /\ count.opens < n
  BY <1>2
<1> HIDE DEF n
<1>6. link \in ConnSet /\ link.st = "connecting" /\ link.n = n
  BY <1>5, Places DEF ConnSet
<1>7. /\ job \in TaskSet /\ job.n = n /\ job.g = Here /\ job.st = "opening"
      /\ job.gid = cfg.grps[Here].id
  BY <1>4, <1>5 DEF TaskSet
<1> HIDE DEF link, job
<1>8. conns' \in [GroupIdx -> ConnSet] /\ tasks' \subseteq TaskSet
  BY <1>1, <1>2, <1>6, <1>7
<1>9. ASSUME NEW g \in GroupIdx
      PROVE  conns'[g] = IF g = Here THEN link ELSE conns[g]
  BY <1>1, <1>2
<1>10. \A t \in tasks : t.n < n /\ t.n <= n /\ t.n # n
  <2> SUFFICES ASSUME NEW t \in tasks
               PROVE  t.n < n /\ t.n <= n /\ t.n # n
    OBVIOUS
  <2>1. t.n \in Nat /\ t.n <= count.opens
    BY <1>2 DEF Linked, TaskSet
  <2> QED BY <1>2, <1>5, <2>1
<1>11. Linked(conns', tasks', cfg, n)
  <2>1. \A t \in tasks' : t.n <= n
    BY <1>1, <1>5, <1>7, <1>10
  <2>2. \A t, u \in tasks' : t.n = u.n /\ t.n # 0 => t = u
    BY <1>1, <1>2, <1>7, <1>10 DEF Linked
  <2>3. Own(Here, conns', tasks', cfg)
    BY <1>1, <1>4, <1>6, <1>7, <1>9, <1>10 DEF Own
  <2>4. ASSUME NEW g \in GroupIdx
        PROVE  /\ conns'[g].n <= n
               /\ conns'[g].st = "none" => conns'[g].n = 0
               /\ conns'[g].n # 0 => Own(g, conns', tasks', cfg)
    BY <1>4, <1>5, <1>6, <1>9, <2>3
  <2> QED BY <1>8, <2>1, <2>2, <2>4 DEF Linked
<1>12. Home(life, ui, conns')
  BY <1>1, <1>4, <1>9 DEF Home, At, Here
<1> QED BY <1>1, <1>3, <1>5, <1>11, <1>12, MuxStep

\* Enter on a ready connection: an own one has a channel and no task.
LEMMA MuxSendStep ==
  ASSUME TInv, MuxSend
  PROVE  TInv'
<1> DEFINE old == conns[Here]
           link == [old EXCEPT !.st = "running"]
           job == [n |-> old.n, g |-> Here, gid |-> 0, st |-> "sending"]
           more == IF old.chan = 0 THEN {} ELSE {job}
<1>1. /\ At("mux") /\ life' = life /\ cfg' = cfg /\ disk' = disk /\ ui' = ui /\ opened' = opened
      /\ old.st = "ready" /\ count' = count
      /\ conns' = [conns EXCEPT ![Here] = link] /\ tasks' = tasks \cup more
  BY DEF MuxSend, store
<1>2. /\ conns \in [GroupIdx -> ConnSet] /\ tasks \subseteq TaskSet /\ count.opens \in Nat
      /\ Linked(conns, tasks, cfg, count.opens)
  BY DEF TInv, Linked, Sized
<1>3. /\ Here \in GroupIdx /\ cfg.grps[Here].id \in Nat \ {0} /\ life = "running"
      /\ \A g \in GroupIdx : g # Here => conns[g].st = "none" /\ conns[g].n = 0
  BY <1>1, OnMux DEF EntrySet
<1>4. old \in ConnSet /\ old.n <= count.opens /\ (old.n # 0 => Own(Here, conns, tasks, cfg))
  BY <1>2, <1>3 DEF Linked
<1>5. old.n # 0 => old.chan = cfg.grps[Here].id /\ \A t \in tasks : t.n # old.n
  BY <1>1, <1>4 DEF Own
<1>6. link \in ConnSet /\ link.st = "running" /\ link.n = old.n /\ link.chan = old.chan
  BY <1>4 DEF ConnSet
<1>7. job \in TaskSet /\ job.n = old.n /\ job.g = Here /\ job.st = "sending"
  BY <1>3, <1>4, Places DEF TaskSet, ConnSet
<1>8. old.n # 0 => more = {job}
  BY <1>3, <1>5
<1>9. more \subseteq {job}
  OBVIOUS
<1> HIDE DEF old, link, job, more
<1>10. conns' \in [GroupIdx -> ConnSet] /\ tasks' \subseteq TaskSet
  BY <1>1, <1>2, <1>6, <1>7, <1>9
<1>11. ASSUME NEW g \in GroupIdx
       PROVE  conns'[g] = IF g = Here THEN link ELSE conns[g]
  BY <1>1, <1>2
<1>12. Linked(conns', tasks', cfg, count.opens)
  <2>1. \A t \in tasks' : t.n <= count.opens
    BY <1>1, <1>2, <1>4, <1>7, <1>9 DEF Linked
  <2>2. \A t, u \in tasks' : t.n = u.n /\ t.n # 0 => t = u
    <3>1. \A t, u \in tasks : t.n = u.n /\ t.n # 0 => t = u
      BY <1>2 DEF Linked
    <3> QED BY <1>1, <1>5, <1>7, <1>9, <3>1
  <2>3. old.n # 0 => Own(Here, conns', tasks', cfg)
    BY <1>1, <1>3, <1>5, <1>6, <1>7, <1>8, <1>11 DEF Own
  <2>4. ASSUME NEW g \in GroupIdx
        PROVE  /\ conns'[g].n <= count.opens
               /\ conns'[g].st = "none" => conns'[g].n = 0
               /\ conns'[g].n # 0 => Own(g, conns', tasks', cfg)
    <3>1. CASE g = Here
      BY <1>4, <1>6, <1>11, <2>3, <3>1
    <3>2. CASE g # Here
      BY <1>2, <1>3, <1>11, <3>2 DEF Linked
    <3> QED BY <3>1, <3>2
  <2> QED BY <1>10, <2>1, <2>2, <2>4 DEF Linked
<1>13. Home(life, ui, conns')
  BY <1>1, <1>3, <1>11 DEF Home, At, Here
<1> QED BY <1>1, <1>2, <1>12, <1>13, MuxStep

\* A task ends and becomes its result.
LEMMA TaskEndsStep ==
  ASSUME TInv, TaskEnds
  PROVE  TInv'
<1>1. /\ life' = life /\ cfg' = cfg /\ disk' = disk /\ ui' = ui /\ opened' = opened
      /\ conns' = conns /\ count' = count
  BY DEF TaskEnds, store
<1>2. PICK t \in tasks, ok \in BOOLEAN :
        /\ t.st \in {"opening", "sending"}
        /\ tasks' = (tasks \ {t}) \cup
             {[t EXCEPT !.st = CASE ok /\ t.st = "opening" -> "open"
                                 [] ok /\ t.st = "sending" -> "sent"
                                 [] OTHER -> "failed"]}
  BY DEF TaskEnds
<1> DEFINE s == CASE ok /\ t.st = "opening" -> "open"
                  [] ok /\ t.st = "sending" -> "sent"
                  [] OTHER -> "failed"
<1>3. /\ tasks' = (tasks \ {t}) \cup {[t EXCEPT !.st = s]}
      /\ s \in {"open", "sent", "failed"}
      /\ t.st = "opening" => s # "sent"
      /\ t.st = "sending" => s # "open"
  <2>1. tasks' = (tasks \ {t}) \cup {[t EXCEPT !.st = s]}
    BY <1>2, Zenon
  <2>2. /\ s \in {"open", "sent", "failed"}
        /\ t.st = "opening" => s # "sent"
        /\ t.st = "sending" => s # "open"
    <3>1. CASE ok /\ t.st = "opening"
      BY <3>1
    <3>2. CASE ok /\ t.st = "sending"
      BY <3>2
    <3>3. CASE ~ok
      BY <3>3
    <3> QED BY <1>2, <3>1, <3>2, <3>3
  <2> QED BY <2>1, <2>2
<1> HIDE DEF s
<1> DEFINE job == [t EXCEPT !.st = s]
<1>4. /\ conns \in [GroupIdx -> ConnSet] /\ tasks \subseteq TaskSet /\ count.opens \in Nat
      /\ Linked(conns, tasks, cfg, count.opens)
  BY DEF TInv, Linked, Sized
<1>5. job \in TaskSet /\ job.n = t.n /\ job.g = t.g /\ job.gid = t.gid /\ job.st = s
  <2>1. t \in TaskSet
    BY <1>4
  <2> QED BY <1>3, <2>1 DEF TaskSet
<1> HIDE DEF job
<1>6. tasks' = (tasks \ {t}) \cup {job}
  BY <1>3 DEF job
<1>7. /\ \A x \in tasks : x.n <= count.opens
      /\ \A x, y \in tasks : x.n = y.n /\ x.n # 0 => x = y
  BY <1>4 DEF Linked
<1>8. tasks' \subseteq TaskSet /\ \A x \in tasks' : x.n <= count.opens
  BY <1>4, <1>5, <1>6, <1>7
<1>9. \A x, y \in tasks' : x.n = y.n /\ x.n # 0 => x = y
  BY <1>5, <1>6, <1>7
<1>10. ASSUME NEW g \in GroupIdx, conns[g].n # 0
       PROVE  Own(g, conns, tasks', cfg)
  <2>1. Own(g, conns, tasks, cfg)
    BY <1>4, <1>10 DEF Linked
  <2>2. ASSUME NEW x \in tasks, x.n = conns[g].n
        PROVE  \E y \in tasks' : y.n = conns[g].n
    BY <1>5, <1>6, <2>2
  <2>3. ASSUME NEW x \in tasks', x.n = conns[g].n
        PROVE  /\ x.g = g
               /\ \/ /\ conns[g].st = "connecting" /\ x.st \in {"opening", "open", "failed"}
                     /\ x.gid = cfg.grps[g].id
                  \/ conns[g].st = "running" /\ x.st \in {"sending", "sent", "failed"}
    <3>1. CASE x \in tasks
      BY <2>1, <2>3, <3>1 DEF Own
    <3>2. CASE x = job
      <4>1. /\ t.g = g
            /\ \/ /\ conns[g].st = "connecting" /\ t.st \in {"opening", "open", "failed"}
                  /\ t.gid = cfg.grps[g].id
               \/ conns[g].st = "running" /\ t.st \in {"sending", "sent", "failed"}
        BY <1>5, <2>1, <2>3, <3>2 DEF Own
      <4> QED BY <1>2, <1>3, <1>5, <3>2, <4>1
    <3> QED BY <1>6, <2>3, <3>1, <3>2
  <2> QED BY <2>1, <2>2, <2>3 DEF Own
<1>11. Linked(conns, tasks', cfg, count.opens)
  BY <1>4, <1>8, <1>9, <1>10 DEF Linked
<1> QED BY <1>1, <1>4, <1>11, MuxStep DEF TInv

\* A result is applied to the connection its index has now: to its own, or to one
\* that is nobody's from then on.
LEMMA ApplyResultStep ==
  ASSUME TInv, ApplyResult
  PROVE  TInv'
<1>1. /\ life' = life /\ cfg' = cfg /\ disk' = disk /\ ui' = ui /\ opened' = opened
      /\ count' = count
  BY DEF ApplyResult, store
<1>2. PICK t \in tasks :
       /\ t.st \in {"open", "sent", "failed"}
       /\ tasks' = tasks \ {t}
       /\ conns' =
            IF conns[t.g].st = "none" THEN conns
            ELSE [conns EXCEPT ![t.g] =
                    [st |-> IF t.st = "failed" THEN "error" ELSE "ready",
                     chan |-> IF t.st = "open" THEN t.gid ELSE @.chan,
                     n |-> IF t.n = @.n THEN t.n ELSE 0]]
  BY DEF ApplyResult
<1> DEFINE h == t.g
           old == conns[h]
           link == [st |-> IF t.st = "failed" THEN "error" ELSE "ready",
                    chan |-> IF t.st = "open" THEN t.gid ELSE old.chan,
                    n |-> IF t.n = old.n THEN t.n ELSE 0]
<1>3. /\ conns \in [GroupIdx -> ConnSet] /\ tasks \subseteq TaskSet /\ count.opens \in Nat
      /\ Linked(conns, tasks, cfg, count.opens)
  BY DEF TInv, Linked, Sized
<1>4. h \in GroupIdx /\ t.gid \in Nat /\ t.n \in Nat
  BY <1>3 DEF TaskSet
<1>5. old \in ConnSet /\ old.n <= count.opens
  BY <1>3, <1>4 DEF Linked
<1>6. /\ link \in ConnSet /\ link.st # "none"
      /\ link.n # 0 => link.n = old.n /\ t.n = old.n
      /\ link.n \in {0, old.n}
      /\ link.st = IF t.st = "failed" THEN "error" ELSE "ready"
      /\ link.chan = IF t.st = "open" THEN t.gid ELSE old.chan
  BY <1>4, <1>5, Places DEF ConnSet
<1>7. conns' = IF old.st = "none" THEN conns ELSE [conns EXCEPT ![h] = link]
  BY <1>2
<1> HIDE DEF link, old, h
<1>8. ASSUME NEW g \in GroupIdx
      PROVE  conns'[g] = IF g = h /\ old.st # "none" THEN link ELSE conns[g]
  BY <1>3, <1>7
<1>9. conns' \in [GroupIdx -> ConnSet]
  BY <1>3, <1>6, <1>7
<1>10. /\ \A x \in tasks : x.n <= count.opens
       /\ \A x, y \in tasks : x.n = y.n /\ x.n # 0 => x = y
  BY <1>3 DEF Linked
<1>11. ASSUME NEW g \in GroupIdx, conns[g].n # 0, ~(g = h /\ old.st # "none")
       PROVE  Own(g, conns', tasks', cfg)
  <2>1. Own(g, conns, tasks, cfg) /\ conns[g].st # "none" /\ conns'[g] = conns[g]
    BY <1>3, <1>8, <1>11 DEF Linked
  <2>2. t.n # conns[g].n
    BY <1>11, <2>1 DEF Own, h, old
  <2> QED BY <1>2, <2>1, <2>2 DEF Own
<1>12. ASSUME old.st # "none", link.n # 0
       PROVE  Own(h, conns', tasks', cfg)
  <2>1. conns'[h] = link /\ link.n = old.n /\ t.n = old.n /\ t.n # 0
    BY <1>4, <1>6, <1>8, <1>12
  <2>2. Own(h, conns, tasks, cfg)
    BY <1>3, <1>4, <2>1 DEF Linked, old
  <2>3. \A x \in tasks' : x.n # link.n
    BY <1>2, <1>10, <2>1
  <2>4. link.st = "ready" => link.chan = cfg.grps[h].id
    <3>1. \/ t.st \in {"opening", "open", "failed"} /\ t.gid = cfg.grps[h].id
          \/ t.st \in {"sending", "sent", "failed"} /\ old.st = "running"
      BY <2>1, <2>2 DEF Own, old
    <3>2. old.st = "running" => old.chan = cfg.grps[h].id
      BY <2>2 DEF Own, old
    <3> QED BY <1>2, <1>6, <3>1, <3>2
  <2>5. link.st \in {"ready", "error"}
    BY <1>6
  <2> QED BY <2>1, <2>3, <2>4, <2>5 DEF Own
<1>13. ASSUME NEW g \in GroupIdx
       PROVE  /\ conns'[g].n <= count.opens
              /\ conns'[g].st = "none" => conns'[g].n = 0
              /\ conns'[g].n # 0 => Own(g, conns', tasks', cfg)
  <2>1. CASE g = h /\ old.st # "none"
    <3>1. conns'[g] = link
      BY <1>8, <2>1
    <3>2. link.n <= count.opens
      BY <1>3, <1>5, <1>6
    <3> QED BY <1>6, <1>12, <2>1, <3>1, <3>2
  <2>2. CASE ~(g = h /\ old.st # "none")
    <3>1. conns'[g] = conns[g]
      BY <1>8, <2>2
    <3> QED BY <1>3, <1>11, <2>2, <3>1 DEF Linked
  <2> QED BY <2>1, <2>2
<1>14. Linked(conns', tasks', cfg, count.opens)
  BY <1>2, <1>3, <1>9, <1>10, <1>13 DEF Linked
<1>15. Home(life, ui, conns')
  <2> SUFFICES ASSUME NEW g \in GroupIdx, conns'[g].st # "none"
               PROVE  life = "running" /\ ui.screen.at = "mux" /\ ui.screen.idx = g
    BY DEF Home
  <2>1. conns[g].st # "none"
    BY <1>8 DEF old
  <2> QED BY <2>1 DEF TInv, Home
<1> QED BY <1>1, <1>3, <1>14, <1>15, MuxStep

-----------------------------------------------------------------------------
(* The theorems.                                                           *)

LEMMA StepTInv ==
  ASSUME TInv, [Next]_vars
  PROVE  TInv'
<1>1. CASE Quit
  BY <1>1, ExitStep DEF Quit
<1>2. CASE Start
  BY <1>2, StartStep
<1>3. CASE Move \/ Search \/ FilterEnv \/ OpenHelp \/ CloseHelp
  BY <1>3, MoveStep, SearchStep, HelpStep
<1>4. CASE OpenAdd \/ OpenEdit \/ FormKey \/ CancelForm \/ SaveForm
  BY <1>4, OpenAddStep, OpenEditStep, FormKeyStep, CancelStep, SaveStep
<1>5. CASE OpenDelete \/ TypeConfirm \/ CancelConfirm \/ Delete
  BY <1>5, OpenDeleteStep, TypeConfirmStep, CancelStep, DeleteStep
<1>6. CASE DeletePanics \/ BrowsePanics
  BY <1>6, ExitStep DEF DeletePanics, BrowsePanics
<1>7. CASE EnterBookmark \/ Browse \/ ComeBack
  BY <1>7, LeaveStep, ComeBackStep
<1>8. CASE OpenMux \/ MuxMove \/ LeaveMux \/ MuxFallback
  BY <1>8, OpenMuxStep, MuxMoveStep, LeaveMuxStep, MuxFallbackStep
<1>9. CASE MuxConnect \/ MuxSend \/ TaskEnds \/ ApplyResult
  BY <1>9, MuxConnectStep, MuxSendStep, TaskEndsStep, ApplyResultStep
<1>10. CASE UNCHANGED vars
  <2>1. /\ life' = life /\ cfg' = cfg /\ disk' = disk /\ ui' = ui /\ opened' = opened
        /\ conns' = conns /\ tasks' = tasks /\ count' = count
    BY <1>10 DEF vars
  <2>2. Sized' /\ Linked(conns', tasks', cfg', count'.opens) /\ Home(life', ui', conns')
    BY <2>1 DEF TInv, Sized
  <2> QED BY <2>1, <2>2 DEF TInv
<1> QED
  BY <1>1, <1>2, <1>3, <1>4, <1>5, <1>6, <1>7, <1>8, <1>9, <1>10 DEF Next

\* The invariant holds in every state of every behaviour.
THEOREM InductiveInvariant == Spec => []TInv
<1>1. Init => TInv
  BY InitTInv
<1>2. TInv /\ [Next]_vars => TInv'
  BY StepTInv
<1> QED BY <1>1, <1>2, PTL DEF Spec

\* The form, the confirmation of a bookmark and the mux screen act on the entry
\* that was highlighted when they were opened, whatever was edited, filtered or
\* overlaid in between (filtered_indices and Screen's indices, tui/mod.rs:181).
THEOREM IndicesMeanEntries == Spec => []IndexMeansEntry
<1>1. ASSUME TInv
      PROVE  IndexMeansEntry
  <2> SUFFICES ASSUME life = "running"
               PROVE  IndexMeansEntry
    BY DEF IndexMeansEntry
  <2>1. /\ IsUi(ui) /\ Listed(ui, cfg) /\ OnScreen(ui, cfg, opened)
        /\ cfg \in ConfigSet /\ Size(cfg) < Marker
    BY <1>1, Bounded DEF TInv, Sized
  <2>2. Working = Work(ui)
    BY DEF Working, Work
  <2>3. ASSUME NEW k \in DOMAIN ui.filtered
        PROVE  IF IsGroupItem(ui.filtered[k])
               THEN ui.filtered[k] - Marker \in DOMAIN cfg.grps
               ELSE ui.filtered[k] \in DOMAIN cfg.bms
    <3> DEFINE i == ui.filtered[k]
    <3>1. i \in Rows(cfg)
      BY <2>1 DEF IsUi, Listed
    <3> HIDE DEF i
    <3>2. \/ i \in 1 .. Len(cfg.bms) /\ ~IsGroupItem(i)
          \/ i - Marker \in 1 .. Len(cfg.grps) /\ IsGroupItem(i)
      BY <2>1, <3>1, RowMeans
    <3>3. DOMAIN cfg.bms = 1 .. Len(cfg.bms) /\ DOMAIN cfg.grps = 1 .. Len(cfg.grps)
      BY <2>1 DEF ConfigSet
    <3> QED BY <3>2, <3>3 DEF i
  <2>4. ui.filtered # <<>> => ui.selected \in DOMAIN ui.filtered
    BY <2>1 DEF IsUi, Listed
  <2>5. Working.at = "edit" =>
          opened = (IF ui.form.target = "bookmark" THEN cfg.bms[Working.idx]
                    ELSE cfg.grps[Working.idx]).id
    BY <2>1, <2>2 DEF OnScreen, Editing
  <2>6. Working.at = "delete" /\ ~ui.confirm.group => opened = cfg.bms[Working.idx].id
    BY <2>1, <2>2 DEF OnScreen, Deleting
  <2>7. Working.at = "mux" =>
          /\ opened = cfg.grps[Working.idx].id
          /\ Sessions > 0 => ui.session \in 1 .. Sessions
    <3> SUFFICES ASSUME Working.at = "mux"
                 PROVE  /\ opened = cfg.grps[Working.idx].id
                        /\ Sessions > 0 => ui.session \in 1 .. Sessions
      OBVIOUS
    <3>1. At("mux") /\ Working = ui.screen
      BY <2>1, <2>2 DEF At, Work, OnScreen
    <3> QED BY <1>1, <3>1, OnMux DEF Here
  <2> QED BY <2>3, <2>4, <2>5, <2>6, <2>7 DEF IndexMeansEntry
<1> QED BY <1>1, InductiveInvariant, PTL

\* What the confirmation names is what Enter removes, what the mux screen shows is
\* what Enter does there, and the form's cursor is drawn in the field the keys edit
\* (render_confirm, render_mux_terminal_pane, render_unified_form).
THEOREM ScreensMeanWhatTheyDraw == Spec => []DrawnIsMeant
<1>1. ASSUME TInv
      PROVE  DrawnIsMeant
  <2>1. OnScreen(ui, cfg, opened) /\ Linked(conns, tasks, cfg, count.opens)
    BY <1>1 DEF TInv
  <2>2. ASSUME At("delete"), ~ui.confirm.group
        PROVE  LET b == cfg.bms[ui.screen.idx]
               IN  DrawnConfirm = [name |-> b.name, asks |-> b.env = "production"]
    <3>1. Work(ui) = ui.screen /\ ui.screen.at = "delete"
      BY <2>2 DEF At, Work
    <3>2. Deleting(ui, cfg, opened)
      BY <2>1, <3>1 DEF OnScreen
    <3> QED BY <2>2, <3>1, <3>2 DEF Deleting, DrawnConfirm
  <2>3. ASSUME At("mux"), Sessions > 0
        PROVE  DrawnSessions.highlight = ui.session
    <3>1. Sessions \in Nat /\ ui.session \in 1 .. Sessions
      BY <1>1, <2>3, OnMux
    <3>2. DrawnSessions.highlight = IF ui.session > Sessions THEN Sessions ELSE ui.session
      BY DEF DrawnSessions, Sessions
    <3> QED BY <3>1, <3>2
  <2>4. ASSUME At("mux"), conns[Here].n # 0
        PROVE  /\ DrawnPane \in {"press Enter to send command", "running"} =>
                    conns[Here].chan = cfg.grps[Here].id
               /\ DrawnPane \in {"connecting", "running"} =>
                    \E t \in tasks : t.n = conns[Here].n
    <3>1. Here \in GroupIdx
      BY <1>1, <2>4, OnMux
    <3>2. Own(Here, conns, tasks, cfg)
      BY <2>1, <2>4, <3>1 DEF Linked
    <3>3. conns[Here].st \in {"none", "connecting", "ready", "running", "error"}
      BY <2>1, <3>1 DEF Linked, ConnSet
    <3>4. /\ DrawnPane = "press Enter to send command" => conns[Here].st = "ready"
          /\ DrawnPane = "running" => conns[Here].st = "running"
          /\ DrawnPane = "connecting" => conns[Here].st = "connecting"
      BY <3>3 DEF DrawnPane
    <3> QED BY <3>2, <3>4 DEF Own
  <2>5. ASSUME InForm, ui.form.sessions # <<>>
        PROVE  DrawnForm(ui.form).cursor # 0
    <3> DEFINE f == ui.form
    <3>1. IsForm(f)
      BY <2>1, <2>5 DEF InForm, OnScreen, Work
    <3> HIDE DEF f
    <3>2. f.focused \in 1 .. 5 /\ f.sessions # <<>> /\ ~f.collapsed /\ f.cur < Len(f.sessions)
      BY <2>5, <3>1 DEF IsForm, FormSet, OnLine, f
    <3>3. DrawnForm(f).cursor = f.focused
      BY <3>2 DEF DrawnForm, ShowsSessions, IsGroup
    <3> QED BY <3>2, <3>3 DEF f
  <2> QED BY <2>2, <2>3, <2>4, <2>5 DEF DrawnIsMeant
<1> QED BY <1>1, InductiveInvariant, PTL

\* Leaving the mux screen, failing over to a session and quitting close its
\* connection, so edits that renumber groups never move one (tui/mod.rs:839).
THEOREM ConnectionsAreClosed == Spec => []ConnectionsStayHome
<1>1. ASSUME TInv
      PROVE  ConnectionsStayHome
  BY <1>1 DEF TInv, Home, ConnectionsStayHome, At, Here
<1> QED BY <1>1, InductiveInvariant, PTL

-----------------------------------------------------------------------------
(* Whose password is under whose name.                                     *)

\* Two places of the lists hold entries that id and name tell apart, except for
\* what sessions of groups left behind.
Differ(e, f) ==
  /\ e.id # f.id \/ e.id = TempId
  /\ e.name # f.name \/ e.name = TempName
Apart(c) ==
  /\ \A i, j \in DOMAIN c.bms : i # j => Differ(c.bms[i], c.bms[j])
  /\ \A i, j \in DOMAIN c.grps : i # j => Differ(c.grps[i], c.grps[j])
  /\ \A i \in DOMAIN c.bms, j \in DOMAIN c.grps : Differ(c.bms[i], c.grps[j])

\* An entry was numbered when it came, and only one left by a session bears the
\* name of a session.
Known(e, n) ==
  /\ e.id \in 1 .. n \/ e.id = TempId
  /\ e.name \in Names \/ (e.name = TempName /\ e.id = TempId)
AllKnown(c, n) ==
  /\ \A i \in DOMAIN c.bms : Known(c.bms[i], n)
  /\ \A i \in DOMAIN c.grps : Known(c.grps[i], n)
Grouped(c, were) == \A i \in DOMAIN c.grps : c.grps[i].id \in were

\* A password given is under its bookmark's name; a password found is that of a
\* bookmark of the name, or of an entry that was a group.
Kept(c, k, given, were) ==
  /\ \A i \in DOMAIN c.bms :
       c.bms[i].id \in given \ were /\ c.bms[i].id # TempId =>
         k[c.bms[i].name] = c.bms[i].id
  /\ \A n \in KeyNames :
       \/ k[n] \in {0} \cup were
       \/ \E i \in DOMAIN c.bms : c.bms[i].name = n /\ c.bms[i].id = k[n]

\* A form knows the name its entry has in the lists.
Named(u, c) ==
  Work(u).at \in {"add", "edit"} =>
    /\ u.form.name \in Names \cup {"", u.form.orig}
    /\ u.form.target = "add" => u.form.orig = ""
    /\ u.form.target = "bookmark" => u.form.orig = c.bms[Work(u).idx].name
    /\ u.form.target = "group" => u.form.orig = c.grps[Work(u).idx].name

PInv ==
  /\ count.faults \in Nat /\ kc \in [KeyNames -> Nat]
  /\ \A id \in gave : id \in 1 .. count.ids \/ id = TempId
  /\ Apart(cfg) /\ AllKnown(cfg, count.ids) /\ Grouped(cfg, wasGroup)
  /\ Apart(disk) /\ AllKnown(disk, count.ids) /\ Grouped(disk, wasGroup)
  /\ Named(ui, cfg)
  /\ count.faults = 0 =>
       /\ Kept(disk, kc, gave, wasGroup)
       /\ life \in {"running", "away"} => Kept(cfg, kc, gave, wasGroup)

\* The first start: entries are numbered, no two have one name, none has the name
\* of a session, and the passwords stored are theirs.
DistinctStart ==
  /\ TempName \notin Names
  /\ \A c \in InitConfigs :
       /\ Apart(c) /\ AllKnown(c, Size(c))
       /\ InitStored \subseteq 1 .. Size(c)

\* t is s without place w, and with the entries of x (one at most) at new places.
Renewed(s, t, w, x) ==
  \E m \in [DOMAIN t -> Nat] :
    /\ \A i \in DOMAIN t :
         \/ m[i] = 0 /\ t[i] \in x
         \/ m[i] \in DOMAIN s /\ m[i] # w /\ t[i] = s[m[i]]
    /\ \A i, j \in DOMAIN t : i # j => m[i] # m[j]
    /\ \A j \in DOMAIN s : j # w => \E i \in DOMAIN t : m[i] = j
    /\ \A e \in x : \E i \in DOMAIN t : t[i] = e

LEMMA LeftOver ==
  ASSUME NEW S, NEW q \in Seq(S), NEW k \in 1 .. Len(q),
         NEW i \in 1 .. Len(q) - 1
  PROVE  RemoveAt(q, k)[i] = IF i < k THEN q[i] ELSE q[i + 1]
<1> DEFINE a == SubSeq(q, 1, k - 1)
           b == SubSeq(q, k + 1, Len(q))
<1>1. Len(q) \in Nat /\ k \in Nat /\ 1 <= k /\ k <= Len(q) /\ i \in Nat /\ 1 <= i
      /\ i <= Len(q) - 1
  OBVIOUS
<1>2. a \in Seq(S) /\ Len(a) = k - 1 /\ \A n \in 1 .. k - 1 : a[n] = q[n]
  BY <1>1, SubSeqProperties
<1>3. b \in Seq(S) /\ Len(b) = Len(q) - k /\ \A n \in 1 .. Len(q) - k : b[n] = q[k + n]
  BY <1>1, SubSeqProperties
<1>4. RemoveAt(q, k) = a \o b
  BY DEF RemoveAt, a, b
<1> HIDE DEF a, b
<1>5. i \in 1 .. Len(a) + Len(b)
  BY <1>1, <1>2, <1>3
<1>6. (a \o b)[i] = IF i <= Len(a) THEN a[i] ELSE b[i - Len(a)]
  BY ONLY <1>2, <1>3, <1>5, ConcatProperties
<1>7. CASE i < k
  BY <1>1, <1>2, <1>4, <1>6, <1>7
<1>8. CASE ~(i < k)
  <2>1. i - Len(a) \in 1 .. Len(q) - k /\ ~(i <= Len(a)) /\ k + (i - Len(a)) = i + 1
    BY <1>1, <1>2, <1>8
  <2>2. b[i - Len(a)] = q[k + (i - Len(a))]
    BY <1>3, <2>1
  <2> QED BY <1>4, <1>6, <1>8, <2>1, <2>2
<1> QED BY <1>7, <1>8

LEMMA RenewedSame ==
  ASSUME NEW S, NEW s \in Seq(S)
  PROVE  Renewed(s, s, 0, {})
<1> DEFINE m == [i \in DOMAIN s |-> i]
<1>1. DOMAIN s = 1 .. Len(s) /\ Len(s) \in Nat
  OBVIOUS
<1>2. m \in [DOMAIN s -> Nat] /\ \A i \in DOMAIN s : m[i] = i /\ i # 0
  BY <1>1
<1> HIDE DEF m
<1> QED BY <1>2 DEF Renewed

LEMMA RenewedAppend ==
  ASSUME NEW S, NEW s \in Seq(S), NEW e \in S
  PROVE  Renewed(s, Append(s, e), 0, {e})
<1> DEFINE t == Append(s, e)
           n == Len(s)
           m == [i \in DOMAIN t |-> IF i = n + 1 THEN 0 ELSE i]
<1>1. /\ DOMAIN s = 1 .. n /\ n \in Nat /\ DOMAIN t = 1 .. n + 1
      /\ t[n + 1] = e /\ \A i \in 1 .. n : t[i] = s[i]
  BY AppendProperties
<1> HIDE DEF t, n
<1>2. m \in [DOMAIN t -> Nat] /\ \A i \in DOMAIN t : m[i] = IF i = n + 1 THEN 0 ELSE i
  BY <1>1
<1> HIDE DEF m
<1>3. \A i \in DOMAIN t :
        \/ m[i] = 0 /\ t[i] \in {e}
        \/ m[i] \in DOMAIN s /\ m[i] # 0 /\ t[i] = s[m[i]]
  BY <1>1, <1>2
<1>4. \A i, j \in DOMAIN t : i # j => m[i] # m[j]
  BY <1>1, <1>2
<1>5. \A j \in DOMAIN s : j # 0 => \E i \in DOMAIN t : m[i] = j
  BY <1>1, <1>2
<1>6. \A x \in {e} : \E i \in DOMAIN t : t[i] = x
  BY <1>1
<1> QED BY <1>2, <1>3, <1>4, <1>5, <1>6 DEF Renewed, t

LEMMA RenewedPut ==
  ASSUME NEW S, NEW s \in Seq(S), NEW e \in S, NEW w \in 1 .. Len(s)
  PROVE  Renewed(s, [s EXCEPT ![w] = e], w, {e})
<1> DEFINE t == [s EXCEPT ![w] = e]
           m == [i \in DOMAIN t |-> IF i = w THEN 0 ELSE i]
<1>1. /\ DOMAIN s = 1 .. Len(s) /\ Len(s) \in Nat /\ DOMAIN t = DOMAIN s
      /\ t[w] = e /\ \A i \in DOMAIN s : i # w => t[i] = s[i]
  OBVIOUS
<1> HIDE DEF t
<1>2. m \in [DOMAIN t -> Nat] /\ \A i \in DOMAIN t : m[i] = IF i = w THEN 0 ELSE i
  BY <1>1
<1> HIDE DEF m
<1>3. \A i \in DOMAIN t :
        \/ m[i] = 0 /\ t[i] \in {e}
        \/ m[i] \in DOMAIN s /\ m[i] # w /\ t[i] = s[m[i]]
  BY <1>1, <1>2
<1>4. \A i, j \in DOMAIN t : i # j => m[i] # m[j]
  BY <1>1, <1>2
<1>5. \A j \in DOMAIN s : j # w => \E i \in DOMAIN t : m[i] = j
  BY <1>1, <1>2
<1>6. \A x \in {e} : \E i \in DOMAIN t : t[i] = x
  BY <1>1
<1> QED BY <1>2, <1>3, <1>4, <1>5, <1>6 DEF Renewed, t

LEMMA RenewedCut ==
  ASSUME NEW S, NEW s \in Seq(S), NEW w \in 1 .. Len(s)
  PROVE  Renewed(s, RemoveAt(s, w), w, {})
<1> DEFINE t == RemoveAt(s, w)
           n == Len(s)
           m == [i \in DOMAIN t |-> IF i < w THEN i ELSE i + 1]
<1>1. t \in Seq(S) /\ Len(t) = n - 1
  BY Removed
<1>2. DOMAIN s = 1 .. n /\ n \in Nat /\ w \in 1 .. n /\ DOMAIN t = 1 .. n - 1
  BY <1>1
<1>3. \A i \in 1 .. n - 1 : t[i] = IF i < w THEN s[i] ELSE s[i + 1]
  BY LeftOver
<1> HIDE DEF t, n
<1>4. m \in [DOMAIN t -> Nat] /\ \A i \in DOMAIN t : m[i] = IF i < w THEN i ELSE i + 1
  BY <1>2
<1> HIDE DEF m
<1>5. \A i \in DOMAIN t : m[i] \in DOMAIN s /\ m[i] # w /\ t[i] = s[m[i]]
  <2> TAKE i \in DOMAIN t
  <2>1. i \in 1 .. n - 1 /\ m[i] = (IF i < w THEN i ELSE i + 1)
        /\ t[i] = (IF i < w THEN s[i] ELSE s[i + 1])
    BY <1>2, <1>3, <1>4
  <2> QED BY <1>2, <2>1
<1>6. \A i, j \in DOMAIN t : i # j => m[i] # m[j]
  BY <1>2, <1>4
<1>7. \A j \in DOMAIN s : j # w => \E i \in DOMAIN t : m[i] = j
  <2> TAKE j \in DOMAIN s
  <2> HAVE j # w
  <2>1. CASE j < w
    <3>1. j \in DOMAIN t
      BY <1>2, <2>1
    <3> QED BY <1>4, <2>1, <3>1
  <2>2. CASE ~(j < w)
    <3>1. j - 1 \in DOMAIN t /\ ~(j - 1 < w) /\ (j - 1) + 1 = j
      BY <1>2, <2>2
    <3>2. m[j - 1] = (j - 1) + 1
      BY <1>4, <3>1
    <3> QED BY <3>1, <3>2
  <2> QED BY <2>1, <2>2
<1> QED BY <1>4, <1>5, <1>6, <1>7 DEF Renewed, t

\* d is c without the bookmark wb and the group wg, with e among the bookmarks, among
\* the groups, or not at all.
Changed(c, d, wb, wg, nb, ng, e) ==
  /\ Renewed(c.bms, d.bms, wb, nb) /\ Renewed(c.grps, d.grps, wg, ng)
  /\ (nb = {} /\ ng \subseteq {e}) \/ (ng = {} /\ nb \subseteq {e})

LEMMA DifferBack ==
  ASSUME NEW e, NEW f, Differ(e, f)
  PROVE  Differ(f, e)
  BY DEF Differ

\* One entry that differs from those it does not replace leaves the lists apart.
LEMMA ApartKept ==
  ASSUME NEW c, NEW d, NEW wb, NEW wg, NEW nb, NEW ng, NEW e,
         Apart(c), Changed(c, d, wb, wg, nb, ng, e),
         \A i \in DOMAIN c.bms : i # wb => Differ(c.bms[i], e),
         \A i \in DOMAIN c.grps : i # wg => Differ(c.grps[i], e)
  PROVE  Apart(d)
<1>1. PICK m \in [DOMAIN d.bms -> Nat] :
        /\ \A i \in DOMAIN d.bms :
             \/ m[i] = 0 /\ d.bms[i] \in nb
             \/ m[i] \in DOMAIN c.bms /\ m[i] # wb /\ d.bms[i] = c.bms[m[i]]
        /\ \A i, j \in DOMAIN d.bms : i # j => m[i] # m[j]
  BY DEF Changed, Renewed
<1>2. PICK k \in [DOMAIN d.grps -> Nat] :
        /\ \A i \in DOMAIN d.grps :
             \/ k[i] = 0 /\ d.grps[i] \in ng
             \/ k[i] \in DOMAIN c.grps /\ k[i] # wg /\ d.grps[i] = c.grps[k[i]]
        /\ \A i, j \in DOMAIN d.grps : i # j => k[i] # k[j]
  BY DEF Changed, Renewed
<1>3. (nb = {} /\ ng \subseteq {e}) \/ (ng = {} /\ nb \subseteq {e})
  BY DEF Changed
<1>4. /\ \A i, j \in DOMAIN c.bms : i # j => Differ(c.bms[i], c.bms[j])
      /\ \A i, j \in DOMAIN c.grps : i # j => Differ(c.grps[i], c.grps[j])
      /\ \A i \in DOMAIN c.bms, j \in DOMAIN c.grps : Differ(c.bms[i], c.grps[j])
  BY DEF Apart
<1>5. ASSUME NEW i \in DOMAIN d.bms, NEW j \in DOMAIN d.bms, i # j
      PROVE  Differ(d.bms[i], d.bms[j])
  <2>1. m[i] # m[j]
    BY <1>1, <1>5
  <2>2. \/ m[i] = 0 /\ d.bms[i] = e
        \/ m[i] \in DOMAIN c.bms /\ m[i] # wb /\ d.bms[i] = c.bms[m[i]]
    BY <1>1, <1>3
  <2>3. \/ m[j] = 0 /\ d.bms[j] = e
        \/ m[j] \in DOMAIN c.bms /\ m[j] # wb /\ d.bms[j] = c.bms[m[j]]
    BY <1>1, <1>3
  <2> QED BY <1>4, <2>1, <2>2, <2>3, DifferBack
<1>6. ASSUME NEW i \in DOMAIN d.grps, NEW j \in DOMAIN d.grps, i # j
      PROVE  Differ(d.grps[i], d.grps[j])
  <2>1. k[i] # k[j]
    BY <1>2, <1>6
  <2>2. \/ k[i] = 0 /\ d.grps[i] = e
        \/ k[i] \in DOMAIN c.grps /\ k[i] # wg /\ d.grps[i] = c.grps[k[i]]
    BY <1>2, <1>3
  <2>3. \/ k[j] = 0 /\ d.grps[j] = e
        \/ k[j] \in DOMAIN c.grps /\ k[j] # wg /\ d.grps[j] = c.grps[k[j]]
    BY <1>2, <1>3
  <2> QED BY <1>4, <2>1, <2>2, <2>3, DifferBack
<1>7. ASSUME NEW i \in DOMAIN d.bms, NEW j \in DOMAIN d.grps
      PROVE  Differ(d.bms[i], d.grps[j])
  <2>1. \/ d.bms[i] = e /\ nb # {}
        \/ m[i] \in DOMAIN c.bms /\ m[i] # wb /\ d.bms[i] = c.bms[m[i]]
    BY <1>1, <1>3
  <2>2. \/ d.grps[j] = e /\ ng # {}
        \/ k[j] \in DOMAIN c.grps /\ k[j] # wg /\ d.grps[j] = c.grps[k[j]]
    BY <1>2, <1>3
  <2> QED BY <1>3, <1>4, <2>1, <2>2, DifferBack
<1> QED BY <1>5, <1>6, <1>7 DEF Apart

LEMMA EntriesKept ==
  ASSUME NEW c, NEW d, NEW wb, NEW wg, NEW nb, NEW ng, NEW e,
         Changed(c, d, wb, wg, nb, ng, e), NEW n, NEW were,
         AllKnown(c, n), Grouped(c, were),
         nb \cup ng # {} => Known(e, n), ng # {} => e.id \in were
  PROVE  AllKnown(d, n) /\ Grouped(d, were)
<1>1. \A i \in DOMAIN d.bms :
        (d.bms[i] = e /\ nb # {}) \/ (\E j \in DOMAIN c.bms : d.bms[i] = c.bms[j])
  BY DEF Changed, Renewed
<1>2. \A i \in DOMAIN d.grps :
        (d.grps[i] = e /\ ng # {}) \/ (\E j \in DOMAIN c.grps : d.grps[i] = c.grps[j])
  BY DEF Changed, Renewed
<1> QED BY <1>1, <1>2 DEF AllKnown, Grouped

LEMMA KnownLonger ==
  ASSUME NEW c, NEW n \in Nat, NEW n2 \in Nat, n <= n2, AllKnown(c, n),
         NEW w, NEW w2, w \subseteq w2, Grouped(c, w)
  PROVE  AllKnown(c, n2) /\ Grouped(c, w2)
<1>1. \A e : Known(e, n) => Known(e, n2)
  BY DEF Known
<1> QED BY <1>1 DEF AllKnown, Grouped

\* What try_save_unified_form does to the lists.
LEMMA PlacedChanges ==
  ASSUME NEW c \in ConfigSet, NEW f, NEW idx \in Nat, NEW e \in EntrySet,
         f.target \in {"add", "bookmark", "group"},
         f.target = "bookmark" => idx \in 1 .. Len(c.bms),
         f.target = "group" => idx \in 1 .. Len(c.grps)
  PROVE  Changed(c, Placed(c, f, idx, e),
                 IF f.target = "bookmark" THEN idx ELSE 0,
                 IF f.target = "group" THEN idx ELSE 0,
                 IF IsGroup(f) THEN {} ELSE {e}, IF IsGroup(f) THEN {e} ELSE {}, e)
<1> DEFINE bs == c.bms
           gs == c.grps
           d == Placed(c, f, idx, e)
           addB == Append(c.bms, e)
           addG == Append(c.grps, e)
           putB == [c.bms EXCEPT ![idx] = e]
           putG == [c.grps EXCEPT ![idx] = e]
           cutB == RemoveAt(c.bms, idx)
           cutG == RemoveAt(c.grps, idx)
<1>1. bs \in Seq(EntrySet) /\ gs \in Seq(EntrySet)
  BY DEF ConfigSet
<1>2. d = CASE f.target = "add" /\ IsGroup(f) -> [c EXCEPT !.grps = addG]
            [] f.target = "add" /\ ~IsGroup(f) -> [c EXCEPT !.bms = addB]
            [] f.target = "group" /\ IsGroup(f) -> [c EXCEPT !.grps = putG]
            [] f.target = "bookmark" /\ ~IsGroup(f) -> [c EXCEPT !.bms = putB]
            [] f.target = "bookmark" /\ IsGroup(f) -> [c EXCEPT !.bms = cutB, !.grps = addG]
            [] OTHER -> [c EXCEPT !.grps = cutG, !.bms = addB]
  BY DEF Placed
<1>3. /\ Renewed(bs, bs, 0, {}) /\ Renewed(gs, gs, 0, {})
      /\ Renewed(bs, addB, 0, {e}) /\ Renewed(gs, addG, 0, {e})
  BY <1>1, RenewedSame, RenewedAppend
<1>4. f.target = "bookmark" => Renewed(bs, putB, idx, {e}) /\ Renewed(bs, cutB, idx, {})
  BY <1>1, RenewedPut, RenewedCut
<1>5. f.target = "group" => Renewed(gs, putG, idx, {e}) /\ Renewed(gs, cutG, idx, {})
  BY <1>1, RenewedPut, RenewedCut
<1> HIDE DEF addB, addG, putB, putG, cutB, cutG
<1>6. /\ [c EXCEPT !.grps = addG] = [bms |-> bs, grps |-> addG]
      /\ [c EXCEPT !.bms = addB] = [bms |-> addB, grps |-> gs]
      /\ [c EXCEPT !.grps = putG] = [bms |-> bs, grps |-> putG]
      /\ [c EXCEPT !.bms = putB] = [bms |-> putB, grps |-> gs]
      /\ [c EXCEPT !.bms = cutB, !.grps = addG] = [bms |-> cutB, grps |-> addG]
      /\ [c EXCEPT !.grps = cutG, !.bms = addB] = [bms |-> addB, grps |-> cutG]
  <2>1. ASSUME NEW x, NEW y
        PROVE  /\ [c EXCEPT !.bms = x] = [bms |-> x, grps |-> gs]
               /\ [c EXCEPT !.grps = y] = [bms |-> bs, grps |-> y]
               /\ [c EXCEPT !.bms = x, !.grps = y] = [bms |-> x, grps |-> y]
               /\ [c EXCEPT !.grps = y, !.bms = x] = [bms |-> x, grps |-> y]
    <3>1. [c EXCEPT !.bms = x] = [bms |-> x, grps |-> c.grps]
      BY ONLY c \in ConfigSet, Exchanged
    <3>2. [c EXCEPT !.grps = y] = [bms |-> c.bms, grps |-> y]
      BY ONLY c \in ConfigSet, Exchanged
    <3>3. [c EXCEPT !.bms = x, !.grps = y] = [bms |-> x, grps |-> y]
      <4>1. BothLists(c, x, y) = [bms |-> x, grps |-> y]
        BY ONLY c \in ConfigSet, BothExchanged
      <4> QED BY ONLY <4>1 DEF BothLists
    <3>4. [c EXCEPT !.grps = y, !.bms = x] = [bms |-> x, grps |-> y]
      <4>1. ListsBoth(c, x, y) = [bms |-> x, grps |-> y]
        BY ONLY c \in ConfigSet, ExchangedBoth
      <4> QED BY ONLY <4>1 DEF ListsBoth
    <3> QED BY ONLY <3>1, <3>2, <3>3, <3>4
  <2>2. /\ [c EXCEPT !.grps = addG] = [bms |-> bs, grps |-> addG]
        /\ [c EXCEPT !.bms = addB] = [bms |-> addB, grps |-> gs]
    BY <2>1
  <2>3. /\ [c EXCEPT !.grps = putG] = [bms |-> bs, grps |-> putG]
        /\ [c EXCEPT !.bms = putB] = [bms |-> putB, grps |-> gs]
    BY <2>1
  <2>4. [c EXCEPT !.bms = cutB, !.grps = addG] = [bms |-> cutB, grps |-> addG]
    BY <2>1
  <2>5. [c EXCEPT !.grps = cutG, !.bms = addB] = [bms |-> addB, grps |-> cutG]
    BY <2>1
  <2> QED BY <2>2, <2>3, <2>4, <2>5
<1>7. /\ f.target = "add" =>
           d = IF IsGroup(f) THEN [bms |-> bs, grps |-> addG] ELSE [bms |-> addB, grps |-> gs]
      /\ f.target = "group" =>
           d = IF IsGroup(f) THEN [bms |-> bs, grps |-> putG] ELSE [bms |-> addB, grps |-> cutG]
      /\ f.target = "bookmark" =>
           d = IF IsGroup(f) THEN [bms |-> cutB, grps |-> addG] ELSE [bms |-> putB, grps |-> gs]
  BY <1>2, <1>6
<1> HIDE DEF d, bs, gs
<1>8. /\ bs = c.bms /\ gs = c.grps
      /\ \A p, q : [bms |-> p, grps |-> q].bms = p /\ [bms |-> p, grps |-> q].grps = q
  BY DEF bs, gs
<1>9. CASE f.target = "add"
  BY <1>3, <1>7, <1>8, <1>9 DEF Changed, d
<1>10. CASE f.target = "group"
  BY <1>3, <1>5, <1>7, <1>8, <1>10 DEF Changed, d
<1>11. CASE f.target = "bookmark"
  BY <1>3, <1>4, <1>7, <1>8, <1>11 DEF Changed, d
<1> QED BY <1>9, <1>10, <1>11

\* A successful save without a failing call: the entry e the form f builds is put
\* where it belongs, its password moves and changes with it.
Saves(c, f, idx, e, n) ==
  /\ c \in ConfigSet /\ n \in Nat /\ idx \in Nat
  /\ Apart(c) /\ AllKnown(c, n)
  /\ f.target \in {"add", "bookmark", "group"} /\ f.modified \in BOOLEAN
  /\ e.name = f.name /\ f.name \in KeyNames /\ e.id \in Nat \ {0}
  /\ f.target = "add" => e.id = n + 1 /\ e.id # TempId
  /\ f.target = "bookmark" =>
       /\ idx \in DOMAIN c.bms /\ f.orig = c.bms[idx].name /\ e.id = c.bms[idx].id
  /\ f.target = "group" =>
       /\ idx \in DOMAIN c.grps /\ f.orig = c.grps[idx].name /\ e.id = c.grps[idx].id
  /\ \A i \in DOMAIN c.bms :
       i # (IF f.target = "bookmark" THEN idx ELSE 0) => Differ(c.bms[i], e)
  /\ \A i \in DOMAIN c.grps :
       i # (IF f.target = "group" THEN idx ELSE 0) => Differ(c.grps[i], e)

\* The keychain with the moved password.
MovedTo(k, f) == IF Moves(f) THEN Migrated(k, f.orig, f.name, {}) ELSE k

LEMMA MovedIs ==
  ASSUME NEW k \in [KeyNames -> Nat], NEW f, f.name \in KeyNames,
         Moves(f) => f.orig \in KeyNames
  PROVE  /\ MovedTo(k, f) \in [KeyNames -> Nat]
         /\ (~Moves(f) \/ k[f.orig] = 0) => MovedTo(k, f) = k
         /\ Moves(f) /\ k[f.orig] # 0 =>
              /\ f.orig # f.name
              /\ MovedTo(k, f)[f.orig] = 0 /\ MovedTo(k, f)[f.name] = k[f.orig]
              /\ \A n \in KeyNames \ {f.orig, f.name} : MovedTo(k, f)[n] = k[n]
<1>1. CASE ~Moves(f) \/ k[f.orig] = 0
  <2>1. MovedTo(k, f) = k
    BY <1>1 DEF MovedTo, Migrated
  <2> QED BY <1>1, <2>1
<1>2. CASE Moves(f) /\ k[f.orig] # 0
  <2> DEFINE old == f.orig
             new == f.name
             r == [n \in KeyNames |->
                     CASE n = old -> 0
                       [] n = new /\ n # old -> k[old]
                       [] OTHER -> k[n]]
  <2>1. MovedTo(k, f) = r
    BY <1>2 DEF MovedTo, Migrated
  <2>2. old # new /\ old \in KeyNames /\ new \in KeyNames
    BY <1>2 DEF Moves
  <2> HIDE DEF old, new
  <2>3. \A n \in KeyNames :
          r[n] = CASE n = old -> 0
                   [] n = new /\ n # old -> k[old]
                   [] OTHER -> k[n]
    OBVIOUS
  <2>4. r[old] = 0 /\ r[new] = k[old] /\ \A n \in KeyNames \ {old, new} : r[n] = k[n]
    BY <2>2, <2>3
  <2>5. r \in [KeyNames -> Nat]
    <3>1. \A n \in KeyNames : r[n] \in Nat
      BY <2>2, <2>3
    <3>2. r = [n \in KeyNames |-> r[n]]
      OBVIOUS
    <3> HIDE DEF r
    <3> QED BY <3>1, <3>2
  <2> HIDE DEF r
  <2> QED BY <1>2, <2>1, <2>2, <2>4, <2>5 DEF old, new
<1> QED BY <1>1, <1>2

\* The password field was left alone, or only the entry under the form's name is new.
FieldApplied(k, f, id, r) ==
  /\ r \in [KeyNames -> Nat]
  /\ \A n \in KeyNames \ {f.name} : r[n] = k[n]
  /\ r[f.name] \in {0, id, k[f.name]}
  /\ f.modified = FALSE => r = k
  /\ f.modified = TRUE /\ f.pw # "" => r[f.name] = id

LEMMA PasswordIs ==
  ASSUME NEW k \in [KeyNames -> Nat], NEW f, f.name \in KeyNames, NEW id \in Nat
  PROVE  FieldApplied(k, f, id, WithPassword(k, f, id, {}))
<1> DEFINE r == WithPassword(k, f, id, {})
           set == [k EXCEPT ![f.name] = id]
           cut == [k EXCEPT ![f.name] = 0]
<1>1. /\ set \in [KeyNames -> Nat] /\ set[f.name] = id
      /\ cut \in [KeyNames -> Nat] /\ cut[f.name] = 0
      /\ \A n \in KeyNames \ {f.name} : set[n] = k[n] /\ cut[n] = k[n]
  OBVIOUS
<1>2. r = CASE ~f.modified -> k
            [] f.modified /\ f.pw # "" -> set
            [] f.modified /\ f.pw = "" /\ f.stored -> cut
            [] OTHER -> k
  BY DEF WithPassword
<1> HIDE DEF set, cut, r
<1> SUFFICES FieldApplied(k, f, id, r)
  BY DEF r
<1>3. CASE ~f.modified
  <2>1. r = k
    BY <1>2, <1>3
  <2> QED BY <1>3, <2>1 DEF FieldApplied
<1>4. CASE f.modified /\ f.pw # ""
  <2>1. r = set
    BY <1>2, <1>4
  <2> QED BY <1>1, <1>4, <2>1 DEF FieldApplied
<1>5. CASE f.modified /\ f.pw = ""
  <2>1. r = cut \/ r = k
    BY <1>2, <1>5
  <2> QED BY <1>1, <1>5, <2>1 DEF FieldApplied
<1> QED BY <1>3, <1>4, <1>5

\* A bookmark that the form is not about keeps its password, and gets no other's.
LEMMA OthersKeep ==
  ASSUME TempName \notin Names, NEW c, NEW f, NEW idx, NEW e, NEW n, Saves(c, f, idx, e, n),
         NEW i \in DOMAIN c.bms, ~(f.target = "bookmark" /\ i = idx)
  PROVE  c.bms[i].id # TempId =>
           /\ c.bms[i].id # e.id /\ c.bms[i].name # f.name
           /\ f.target # "add" => c.bms[i].name # f.orig
<1> DEFINE b == c.bms[i]
<1> SUFFICES ASSUME b.id # TempId
             PROVE  /\ b.id # e.id /\ b.name # f.name
                    /\ f.target # "add" => b.name # f.orig
  OBVIOUS
<1>1. b.name # TempName
  BY DEF Saves, AllKnown, Known
<1>2. idx \in Nat /\ i \in Nat \ {0}
  <2>1. c.bms \in Seq(EntrySet)
    BY DEF Saves, ConfigSet
  <2> QED BY <2>1 DEF Saves
<1>3. Differ(b, e) /\ e.name = f.name
  BY <1>2 DEF Saves
<1>4. CASE f.target = "bookmark"
  <2>1. Differ(b, c.bms[idx]) /\ f.orig = c.bms[idx].name
    BY <1>4 DEF Saves, Apart
  <2> QED BY <1>1, <1>3, <2>1 DEF Differ
<1>5. CASE f.target = "group"
  <2>1. Differ(b, c.grps[idx]) /\ f.orig = c.grps[idx].name
    BY <1>5 DEF Saves, Apart
  <2> QED BY <1>1, <1>3, <2>1 DEF Differ
<1>6. CASE f.target = "add"
  BY <1>1, <1>3, <1>6 DEF Differ
<1> QED BY <1>4, <1>5, <1>6 DEF Saves

\* After the move every password is that of another bookmark of its name, of what
\* was a group, or of the entry, under its name.
LEMMA MovedKeeps ==
  ASSUME TempName \notin Names, NEW c, NEW f, NEW idx, NEW e, NEW n, Saves(c, f, idx, e, n),
         NEW k \in [KeyNames -> Nat], NEW given, NEW were, Grouped(c, were),
         Kept(c, k, given, were), Moves(f) => f.orig \in KeyNames,
         NEW x \in KeyNames
  PROVE  LET K == MovedTo(k, f)
         IN  \/ K[x] \in {0} \cup were
             \/ \E i \in DOMAIN c.bms :
                  /\ ~(f.target = "bookmark" /\ i = idx)
                  /\ c.bms[i].name = x /\ c.bms[i].id = K[x]
             \/ f.target = "bookmark" /\ x = f.name /\ K[x] = e.id
<1> DEFINE K == MovedTo(k, f)
<1> SUFFICES ASSUME K[x] \notin {0} \cup were
             PROVE  \/ \E i \in DOMAIN c.bms :
                         /\ ~(f.target = "bookmark" /\ i = idx)
                         /\ c.bms[i].name = x /\ c.bms[i].id = K[x]
                    \/ f.target = "bookmark" /\ x = f.name /\ K[x] = e.id
  OBVIOUS
<1>1. f.name \in KeyNames
  BY DEF Saves
<1>2. /\ (~Moves(f) \/ k[f.orig] = 0) => K = k
      /\ Moves(f) /\ k[f.orig] # 0 =>
           /\ K[f.orig] = 0 /\ K[f.name] = k[f.orig]
           /\ \A y \in KeyNames \ {f.orig, f.name} : K[y] = k[y]
  BY <1>1, MovedIs
<1> HIDE DEF K
<1>3. \A y \in KeyNames :
        \/ k[y] \in {0} \cup were
        \/ \E i \in DOMAIN c.bms : c.bms[i].name = y /\ c.bms[i].id = k[y]
  BY DEF Kept
<1>4. \A i \in DOMAIN c.bms : c.bms[i].name = TempName => c.bms[i].id = TempId
  BY DEF Saves, AllKnown, Known
<1>5. f.target = "bookmark" =>
        /\ idx \in DOMAIN c.bms /\ f.orig = c.bms[idx].name /\ e.id = c.bms[idx].id
  BY DEF Saves
<1>6. f.target = "group" =>
        /\ idx \in DOMAIN c.grps /\ f.orig = c.grps[idx].name /\ e.id = c.grps[idx].id
        /\ e.id \in were
  BY DEF Saves, Grouped
<1>7. CASE ~Moves(f) \/ k[f.orig] = 0
  <2>1. K[x] = k[x]
    BY <1>2, <1>7
  <2>2. PICK i \in DOMAIN c.bms : c.bms[i].name = x /\ c.bms[i].id = k[x]
    BY <1>3, <2>1
  <2>3. CASE f.target = "bookmark" /\ i = idx
    <3>1. x = f.orig /\ k[x] = e.id /\ k[f.orig] # 0
      BY <1>5, <2>1, <2>2, <2>3
    <3>2. f.orig = f.name
      BY <1>7, <2>3, <3>1 DEF Moves
    <3> QED BY <2>1, <2>3, <3>1, <3>2
  <2>4. CASE ~(f.target = "bookmark" /\ i = idx)
    BY <2>1, <2>2, <2>4
  <2> QED BY <2>3, <2>4
<1>8. CASE Moves(f) /\ k[f.orig] # 0
  <2>1. x # f.orig
    BY <1>2, <1>8
  <2>2. CASE x = f.name
    <3>1. K[x] = k[f.orig] /\ f.orig \in KeyNames
      BY <1>2, <1>8, <2>2
    <3>2. PICK i \in DOMAIN c.bms : c.bms[i].name = f.orig /\ c.bms[i].id = k[f.orig]
      BY <1>3, <3>1
    <3>3. CASE f.target = "bookmark"
      <4>1. i = idx \/ Differ(c.bms[i], c.bms[idx])
        BY <1>5, <3>3 DEF Saves, Apart
      <4>2. c.bms[i].id = e.id
        BY <1>4, <1>5, <3>2, <3>3, <4>1 DEF Differ
      <4> QED BY <2>2, <3>1, <3>2, <3>3, <4>2
    <3>4. CASE f.target = "group"
      <4>1. Differ(c.bms[i], c.grps[idx])
        BY <1>6, <3>4 DEF Saves, Apart
      <4>2. c.grps[idx].name = TempName => c.grps[idx].id = TempId
        BY <1>6, <3>4 DEF Saves, AllKnown, Known
      <4>3. c.bms[i].id = e.id
        BY <1>4, <1>6, <3>2, <3>4, <4>1, <4>2 DEF Differ
      <4> QED BY <1>6, <3>1, <3>2, <3>4, <4>3
    <3>5. f.target # "add"
      BY <1>8 DEF Moves
    <3> QED BY <3>3, <3>4, <3>5 DEF Saves
  <2>3. CASE x # f.name
    <3>1. K[x] = k[x]
      BY <1>2, <1>8, <2>1, <2>3
    <3>2. PICK i \in DOMAIN c.bms : c.bms[i].name = x /\ c.bms[i].id = k[x]
      BY <1>3, <3>1
    <3>3. ~(f.target = "bookmark" /\ i = idx)
      BY <1>5, <2>1, <3>2
    <3> QED BY <3>1, <3>2, <3>3
  <2> QED BY <2>2, <2>3
<1> QED BY <1>7, <1>8

\* The lists and the keychain after a save agree again.
LEMMA SaveKept ==
  ASSUME TempName \notin Names, NEW c, NEW f, NEW idx, NEW e, NEW n, Saves(c, f, idx, e, n),
         NEW d, Changed(c, d, IF f.target = "bookmark" THEN idx ELSE 0,
                              IF f.target = "group" THEN idx ELSE 0,
                              IF IsGroup(f) THEN {} ELSE {e},
                              IF IsGroup(f) THEN {e} ELSE {}, e),
         NEW k \in [KeyNames -> Nat], NEW given, NEW were, Grouped(c, were),
         \A id \in given : id \in 1 .. n \/ id = TempId,
         Kept(c, k, given, were), Moves(f) => f.orig \in KeyNames
  PROVE  LET moved == MovedTo(k, f)
         IN  Kept(d, IF IsGroup(f) THEN moved ELSE WithPassword(moved, f, e.id, {}),
                  IF IsGroup(f) \/ ~f.modified THEN given
                  ELSE IF f.pw # "" THEN given \cup {e.id} ELSE given \ {e.id},
                  IF IsGroup(f) THEN were \cup {e.id} ELSE were)
<1> DEFINE moved == MovedTo(k, f)
           K == IF IsGroup(f) THEN moved ELSE WithPassword(moved, f, e.id, {})
           gv == IF IsGroup(f) \/ ~f.modified THEN given
                 ELSE IF f.pw # "" THEN given \cup {e.id} ELSE given \ {e.id}
           wr == IF IsGroup(f) THEN were \cup {e.id} ELSE were
           w == IF f.target = "bookmark" THEN idx ELSE 0
           x == IF IsGroup(f) THEN {} ELSE {e}
<1>1. /\ f.name \in KeyNames /\ e.name = f.name /\ e.id \in Nat \ {0}
      /\ f.modified \in BOOLEAN /\ f.target \in {"add", "bookmark", "group"}
      /\ n \in Nat /\ idx \in Nat
  BY DEF Saves
<1>2. /\ moved \in [KeyNames -> Nat]
      /\ (~Moves(f) \/ k[f.orig] = 0) => moved = k
      /\ Moves(f) /\ k[f.orig] # 0 =>
           /\ moved[f.orig] = 0 /\ moved[f.name] = k[f.orig]
           /\ \A y \in KeyNames \ {f.orig, f.name} : moved[y] = k[y]
  BY <1>1, MovedIs
<1>3. \A y \in KeyNames :
        \/ moved[y] \in {0} \cup were
        \/ \E i \in DOMAIN c.bms :
             /\ ~(f.target = "bookmark" /\ i = idx)
             /\ c.bms[i].name = y /\ c.bms[i].id = moved[y]
        \/ f.target = "bookmark" /\ y = f.name /\ moved[y] = e.id
  BY MovedKeeps
<1> HIDE DEF moved
<1>4. /\ ~IsGroup(f) =>
           /\ \A y \in KeyNames \ {f.name} : K[y] = moved[y]
           /\ K[f.name] \in {0, e.id, moved[f.name]}
           /\ ~f.modified => K = moved
           /\ f.modified /\ f.pw # "" => K[f.name] = e.id
      /\ IsGroup(f) => K = moved
  <2>1. CASE IsGroup(f)
    BY <2>1
  <2>2. CASE ~IsGroup(f)
    <3> DEFINE r == WithPassword(moved, f, e.id, {})
    <3>1. FieldApplied(moved, f, e.id, r)
      BY <1>1, <1>2, PasswordIs
    <3>2. K = r
      BY <2>2
    <3> HIDE DEF r, K
    <3> QED BY <1>1, <2>2, <3>1, <3>2 DEF FieldApplied
  <2> QED BY <2>1, <2>2
<1>5. /\ IsGroup(f) => gv = given /\ wr = were \cup {e.id} /\ x = {}
      /\ ~IsGroup(f) => wr = were /\ x = {e}
      /\ gv \subseteq given \cup {e.id} /\ were \subseteq wr
      /\ ~IsGroup(f) /\ ~f.modified => gv = given
      /\ ~IsGroup(f) /\ f.modified /\ f.pw = "" => e.id \notin gv
  BY <1>1
<1>6. w = (IF f.target = "bookmark" THEN idx ELSE 0) /\ Renewed(c.bms, d.bms, w, x)
  BY DEF Changed
<1>7. \A i \in DOMAIN c.bms : i # 0
  <2>1. c.bms \in Seq(EntrySet)
    BY DEF Saves, ConfigSet
  <2> QED BY <2>1
<1>8. \A i \in DOMAIN c.bms : i # w <=> ~(f.target = "bookmark" /\ i = idx)
  BY <1>6, <1>7
<1> HIDE DEF K, gv, wr, w, x
<1>9. /\ \A i \in DOMAIN d.bms :
           \/ d.bms[i] \in x
           \/ \E j \in DOMAIN c.bms : j # w /\ d.bms[i] = c.bms[j]
      /\ \A j \in DOMAIN c.bms : j # w => \E i \in DOMAIN d.bms : d.bms[i] = c.bms[j]
      /\ \A y \in x : \E i \in DOMAIN d.bms : d.bms[i] = y
  <2>1. PICK m \in [DOMAIN d.bms -> Nat] :
          /\ \A i \in DOMAIN d.bms :
               \/ m[i] = 0 /\ d.bms[i] \in x
               \/ m[i] \in DOMAIN c.bms /\ m[i] # w /\ d.bms[i] = c.bms[m[i]]
          /\ \A j \in DOMAIN c.bms : j # w => \E i \in DOMAIN d.bms : m[i] = j
          /\ \A y \in x : \E i \in DOMAIN d.bms : d.bms[i] = y
    BY <1>6 DEF Renewed
  <2>2. ASSUME NEW j \in DOMAIN c.bms, j # w
        PROVE  \E i \in DOMAIN d.bms : d.bms[i] = c.bms[j]
    <3>1. PICK i \in DOMAIN d.bms : m[i] = j
      BY <2>1, <2>2
    <3> QED BY <1>7, <2>1, <3>1
  <2> QED BY <2>1, <2>2
<1>10. ASSUME NEW i \in DOMAIN d.bms, d.bms[i].id \in gv \ wr, d.bms[i].id # TempId
       PROVE  K[d.bms[i].name] = d.bms[i].id
  <2> DEFINE b == d.bms[i]
  <2>1. CASE b \in x
    <3>1. b = e /\ ~IsGroup(f) /\ x = {e}
      BY <1>5, <2>1
    <3>2. CASE f.modified
      BY <1>1, <1>4, <1>5, <1>10, <3>1, <3>2
    <3>3. CASE ~f.modified
      <4>1. K = moved /\ e.id \in given /\ e.id \notin were /\ e.id # TempId
        BY <1>4, <1>5, <1>10, <3>1, <3>3
      <4>2. f.target # "add"
        <5>1. n + 1 \notin 1 .. n
          BY <1>1
        <5> QED BY <4>1, <5>1 DEF Saves
      <4>3. f.target # "group"
        BY <4>1 DEF Saves, Grouped
      <4>4. /\ f.target = "bookmark" /\ idx \in DOMAIN c.bms
            /\ f.orig = c.bms[idx].name /\ e.id = c.bms[idx].id
        BY <1>1, <4>2, <4>3 DEF Saves
      <4>5. k[f.orig] = e.id /\ e.id # 0
        BY <1>1, <4>1, <4>4 DEF Kept
      <4>6. CASE Moves(f)
        BY <1>1, <1>2, <3>1, <4>1, <4>5, <4>6
      <4>7. CASE ~Moves(f)
        <5>1. f.orig = f.name
          BY <4>2, <4>3, <4>7 DEF Moves
        <5> QED BY <1>1, <1>2, <3>1, <4>1, <4>5, <4>7, <5>1
      <4> QED BY <4>6, <4>7
    <3> QED BY <1>1, <3>2, <3>3
  <2>2. CASE \E j \in DOMAIN c.bms : j # w /\ b = c.bms[j]
    <3>1. PICK j \in DOMAIN c.bms : j # w /\ b = c.bms[j]
      BY <2>2
    <3>2. ~(f.target = "bookmark" /\ j = idx)
      BY <1>8, <3>1
    <3>3. /\ b.id # e.id /\ b.name # f.name
          /\ f.target # "add" => b.name # f.orig
      BY <1>10, <3>1, <3>2, OthersKeep
    <3>4. b.id \in given /\ b.id \notin were
      BY <1>5, <1>10, <3>3
    <3>5. k[b.name] = b.id
      BY <1>10, <3>1, <3>4 DEF Kept
    <3>6. b.name \in KeyNames
      BY <3>1 DEF Saves, AllKnown, Known, KeyNames
    <3>7. moved[b.name] = k[b.name]
      BY <1>2, <3>3, <3>6 DEF Moves
    <3>8. K[b.name] = moved[b.name]
      BY <1>4, <3>3, <3>6
    <3> QED BY <3>5, <3>7, <3>8
  <2> QED BY <1>9, <2>1, <2>2
<1>11. ASSUME NEW y \in KeyNames
       PROVE  \/ K[y] \in {0} \cup wr
              \/ \E i \in DOMAIN d.bms : d.bms[i].name = y /\ d.bms[i].id = K[y]
  <2>1. CASE K[y] = moved[y]
    <3>1. CASE moved[y] \in {0} \cup were
      BY <1>5, <2>1, <3>1
    <3>2. CASE \E i \in DOMAIN c.bms :
                 /\ ~(f.target = "bookmark" /\ i = idx)
                 /\ c.bms[i].name = y /\ c.bms[i].id = moved[y]
      <4>1. PICK i \in DOMAIN c.bms :
                 /\ ~(f.target = "bookmark" /\ i = idx)
                 /\ c.bms[i].name = y /\ c.bms[i].id = moved[y]
        BY <3>2
      <4>2. PICK j \in DOMAIN d.bms : d.bms[j] = c.bms[i]
        BY <1>8, <1>9, <4>1
      <4> QED BY <2>1, <4>1, <4>2
    <3>3. CASE y = f.name /\ moved[y] = e.id
      <4>1. CASE IsGroup(f)
        BY <1>5, <2>1, <3>3, <4>1
      <4>2. CASE ~IsGroup(f)
        <5>1. PICK j \in DOMAIN d.bms : d.bms[j] = e
          BY <1>5, <1>9, <4>2
        <5> QED BY <1>1, <2>1, <3>3, <5>1
      <4> QED BY <4>1, <4>2
    <3> QED BY <1>3, <3>1, <3>2, <3>3
  <2>2. CASE K[y] # moved[y]
    <3>1. ~IsGroup(f) /\ y = f.name /\ K[y] \in {0, e.id}
      BY <1>4, <2>2
    <3>2. PICK j \in DOMAIN d.bms : d.bms[j] = e
      BY <1>5, <1>9, <3>1
    <3> QED BY <1>1, <3>1, <3>2
  <2> QED BY <2>1, <2>2
<1>12. Kept(d, K, gv, wr)
  BY <1>10, <1>11 DEF Kept
<1> QED BY <1>12 DEF K, gv, wr, moved

\* Taking a bookmark or a group out, with a bookmark's password.
LEMMA DeleteKept ==
  ASSUME TempName \notin Names, NEW c \in ConfigSet, NEW n, Apart(c), AllKnown(c, n),
         NEW k \in [KeyNames -> Nat], NEW given, NEW were, Kept(c, k, given, were),
         NEW w \in DOMAIN c.bms
  PROVE  Kept([c EXCEPT !.bms = RemoveAt(@, w)], [k EXCEPT ![c.bms[w].name] = 0],
              given, were)
<1> DEFINE bs == c.bms
           cut == RemoveAt(c.bms, w)
           d == [c EXCEPT !.bms = RemoveAt(@, w)]
           gone == c.bms[w].name
           K == [k EXCEPT ![gone] = 0]
<1>1. bs \in Seq(EntrySet) /\ w \in 1 .. Len(bs)
  BY DEF ConfigSet
<1>2. Renewed(bs, cut, w, {})
  BY <1>1, RenewedCut
<1>3. d.bms = cut
  BY DEF ConfigSet
<1>4. \A x \in KeyNames : K[x] = IF x = gone THEN 0 ELSE k[x]
  OBVIOUS
<1>5. \A i \in DOMAIN bs : bs[i].name \in KeyNames
  BY DEF AllKnown, Known, KeyNames
<1>6. \A i \in DOMAIN bs : i # w => bs[i].name # gone \/ bs[i].id = TempId
  BY DEF Apart, Differ, AllKnown, Known
<1>7. /\ \A i \in DOMAIN bs :
           bs[i].id \in given \ were /\ bs[i].id # TempId => k[bs[i].name] = bs[i].id
      /\ \A x \in KeyNames :
           \/ k[x] \in {0} \cup were
           \/ \E i \in DOMAIN bs : bs[i].name = x /\ bs[i].id = k[x]
  BY DEF Kept
<1> HIDE DEF bs, cut, d, K
<1>8. PICK m \in [DOMAIN cut -> Nat] :
        /\ \A i \in DOMAIN cut : m[i] \in DOMAIN bs /\ m[i] # w /\ cut[i] = bs[m[i]]
        /\ \A j \in DOMAIN bs : j # w => \E i \in DOMAIN cut : m[i] = j
  BY <1>2 DEF Renewed
<1>9. ASSUME NEW i \in DOMAIN cut, cut[i].id \in given \ were, cut[i].id # TempId
      PROVE  K[cut[i].name] = cut[i].id
  <2>1. m[i] \in DOMAIN bs /\ m[i] # w /\ cut[i] = bs[m[i]]
    BY <1>8
  <2> QED BY <1>4, <1>5, <1>6, <1>7, <1>9, <2>1
<1>10. ASSUME NEW x \in KeyNames
       PROVE  \/ K[x] \in {0} \cup were
              \/ \E i \in DOMAIN cut : cut[i].name = x /\ cut[i].id = K[x]
  <2> SUFFICES ASSUME K[x] \notin {0} \cup were
               PROVE  \E i \in DOMAIN cut : cut[i].name = x /\ cut[i].id = K[x]
    OBVIOUS
  <2>1. x # gone /\ K[x] = k[x]
    BY <1>4
  <2>2. PICK j \in DOMAIN bs : bs[j].name = x /\ bs[j].id = k[x]
    BY <1>7, <2>1
  <2>3. j # w
    BY <2>1, <2>2 DEF bs
  <2>4. PICK i \in DOMAIN cut : m[i] = j
    BY <1>8, <2>3
  <2> QED BY <1>8, <2>1, <2>2, <2>4
<1>11. Kept(d, K, given, were)
  BY <1>3, <1>9, <1>10 DEF Kept
<1> QED BY <1>11 DEF d, K

\* One bookmark more that no one stored a password for keeps the others' passwords.
LEMMA LongerKept ==
  ASSUME NEW c \in ConfigSet, NEW e \in EntrySet, e.id = TempId,
         NEW k, NEW given, NEW were, Kept(c, k, given, were)
  PROVE  Kept([c EXCEPT !.bms = Append(@, e)], k, given, were)
<1> DEFINE bs == c.bms
           t == Append(c.bms, e)
           d == [c EXCEPT !.bms = Append(@, e)]
<1>1. bs \in Seq(EntrySet) /\ d.bms = t
  BY DEF ConfigSet
<1>2. Renewed(bs, t, 0, {e})
  BY <1>1, RenewedAppend
<1>3. /\ \A i \in DOMAIN bs :
           bs[i].id \in given \ were /\ bs[i].id # TempId => k[bs[i].name] = bs[i].id
      /\ \A x \in KeyNames :
           \/ k[x] \in {0} \cup were
           \/ \E i \in DOMAIN bs : bs[i].name = x /\ bs[i].id = k[x]
  BY DEF Kept
<1>4. DOMAIN bs = 1 .. Len(bs) /\ Len(bs) \in Nat
  BY <1>1
<1> HIDE DEF bs, t, d
<1>5. PICK m \in [DOMAIN t -> Nat] :
        /\ \A i \in DOMAIN t :
             \/ t[i] = e
             \/ m[i] \in DOMAIN bs /\ t[i] = bs[m[i]]
        /\ \A i \in DOMAIN t : m[i] # 0 => m[i] \in DOMAIN bs /\ t[i] = bs[m[i]]
        /\ \A j \in DOMAIN bs : j # 0 => \E i \in DOMAIN t : m[i] = j
  BY <1>2 DEF Renewed
<1>6. \A i \in DOMAIN t :
        t[i].id \in given \ were /\ t[i].id # TempId => k[t[i].name] = t[i].id
  BY <1>3, <1>5
<1>7. ASSUME NEW x \in KeyNames, NEW j \in DOMAIN bs, bs[j].name = x, bs[j].id = k[x]
      PROVE  \E i \in DOMAIN t : t[i].name = x /\ t[i].id = k[x]
  <2>1. j # 0
    BY <1>4
  <2>2. PICK i \in DOMAIN t : m[i] = j
    BY <1>5, <2>1
  <2> QED BY <1>5, <1>7, <2>1, <2>2
<1>8. Kept(d, k, given, were)
  BY <1>1, <1>3, <1>6, <1>7 DEF Kept
<1> QED BY <1>8 DEF d

-----------------------------------------------------------------------------
(* The name a form was opened with.                                        *)

\* Keys change the name, never what it was.
LEMMA KeysKeepNames ==
  ASSUME NEW f, IsForm(f)
  PROVE  \A g \in {NextField(f), PrevField(f), CycleEnv(f), AddSessionLine(f),
                   RemoveSessionLine(f)} \cup {Retype(f, t) : t \in Texts(f)} :
           g.orig = f.orig /\ g.name \in {f.name, ""} \cup Names
<1>1. f \in FormSet
  BY DEF IsForm
<1>2. NextField(f).orig = f.orig /\ NextField(f).name = f.name
  BY <1>1 DEF FormSet, NextField
<1>3. PrevField(f).orig = f.orig /\ PrevField(f).name = f.name
  BY <1>1 DEF FormSet, PrevField
<1>4. CycleEnv(f).orig = f.orig /\ CycleEnv(f).name = f.name
  BY <1>1 DEF FormSet, CycleEnv
<1>5. AddSessionLine(f).orig = f.orig /\ AddSessionLine(f).name = f.name
  BY <1>1 DEF FormSet, AddSessionLine
<1>6. RemoveSessionLine(f).orig = f.orig /\ RemoveSessionLine(f).name = f.name
  BY <1>1 DEF FormSet, RemoveSessionLine
<1>7. ASSUME NEW t \in Texts(f)
      PROVE  Retype(f, t).orig = f.orig /\ Retype(f, t).name \in {f.name, ""} \cup Names
  <2> DEFINE g == Retype(f, t)
  <2>1. \/ g = f
        \/ g = [f EXCEPT !.sessions[f.cur + 1] = t]
        \/ f.focused = 1 /\ g = [f EXCEPT !.name = t, !.env = Detect[t]]
        \/ g = [f EXCEPT !.pw = t, !.modified = TRUE]
    <3>1. SessionName = 4 /\ SessionCmd = 5
      BY Counts
    <3> QED BY <3>1 DEF Retype
  <2> HIDE DEF g
  <2>2. CASE f.focused = 1 /\ g = [f EXCEPT !.name = t, !.env = Detect[t]]
    <3>1. t \in Names \cup {""}
      BY <2>2, NameTexts
    <3> QED BY <1>1, <2>2, <3>1 DEF FormSet, g
  <2>3. CASE g = f \/ g = [f EXCEPT !.sessions[f.cur + 1] = t]
             \/ g = [f EXCEPT !.pw = t, !.modified = TRUE]
    <3>1. g.orig = f.orig /\ g.name = f.name
      BY <1>1, <2>3 DEF FormSet
    <3> QED BY <3>1 DEF g
  <2> QED BY <2>1, <2>2, <2>3
<1> QED BY <1>2, <1>3, <1>4, <1>5, <1>6, <1>7

LEMMA SameNamed ==
  ASSUME NEW u, NEW v, NEW c, Named(u, c),
         v.screen = u.screen, v.help = u.help, v.form = u.form
  PROVE  Named(v, c)
  BY DEF Named, Work

LEMMA NoFormNamed ==
  ASSUME NEW u, NEW c, u.screen.at \in {"list", "delete", "mux"}
  PROVE  Named(u, c)
  BY DEF Named, Work

\* A step that leaves lists, file and keychain alone.
LEMMA QuietStep ==
  ASSUME PInv, UNCHANGED store, count'.ids = count.ids, count'.faults = count.faults,
         life' \in {"running", "away"} => life \in {"running", "away"},
         Named(ui', cfg)
  PROVE  PInv'
<1>1. /\ cfg' = cfg /\ disk' = disk /\ kc' = kc /\ gave' = gave /\ wasGroup' = wasGroup
      /\ Named(ui', cfg')
  BY DEF store
<1> QED BY <1>1 DEF PInv

\* Keys that stay on the screen, or leave it for one without a form.
LEMMA StayStep ==
  ASSUME TInv, PInv,
         \/ Move \/ Search \/ FilterEnv \/ TypeConfirm \/ EnterBookmark \/ Browse
         \/ MuxConnect \/ MuxSend \/ MuxFallback \/ MuxMove \/ TaskEnds \/ ApplyResult
  PROVE  PInv'
<1>1. UNCHANGED store /\ (life' \in {"running", "away"} => life \in {"running", "away"})
  BY DEF Move, Search, FilterEnv, TypeConfirm, EnterBookmark, Browse, MuxConnect, MuxSend,
         MuxFallback, MuxMove, TaskEnds, ApplyResult, Listing, InConfirm, At, Leave
<1>2. IsUi(ui) /\ Named(ui, cfg) /\ cfg \in ConfigSet
      /\ DOMAIN count = {"ids", "faults", "opens", "leaves", "saves"}
  BY DEF TInv, PInv, Sized
<1>3. count'.ids = count.ids /\ count'.faults = count.faults
  <2>1. CASE Move \/ Search \/ FilterEnv \/ TypeConfirm \/ MuxSend \/ MuxMove \/ TaskEnds
             \/ ApplyResult
    BY <2>1 DEF Move, Search, FilterEnv, TypeConfirm, MuxSend, MuxMove, TaskEnds, ApplyResult
  <2>2. CASE EnterBookmark \/ Browse \/ MuxFallback
    BY <1>2, <2>2 DEF EnterBookmark, Browse, MuxFallback, Leave
  <2>3. CASE MuxConnect
    BY <1>2, <2>3 DEF MuxConnect
  <2> QED BY <2>1, <2>2, <2>3
<1>4. ui'.screen = ui.screen /\ ui'.help = ui.help /\ ui'.form = ui.form
  <2>1. CASE MuxConnect \/ MuxSend \/ TaskEnds \/ ApplyResult
    BY <2>1 DEF MuxConnect, MuxSend, TaskEnds, ApplyResult
  <2>2. CASE Move
    <3>1. PICK sel : ui' = [ui EXCEPT !.selected = sel]
      BY <2>2 DEF Move
    <3> QED BY <1>2, <3>1 DEF IsUi
  <2>3. CASE TypeConfirm
    <3>1. PICK t : ui' = [ui EXCEPT !.confirm.typed = t]
      BY <2>3 DEF TypeConfirm
    <3> QED BY <1>2, <3>1 DEF IsUi
  <2>4. CASE EnterBookmark \/ Browse
    BY <1>2, <2>4 DEF EnterBookmark, Browse, Leave, IsUi
  <2>5. CASE MuxFallback
    BY <1>2, <2>5 DEF MuxFallback, IsUi
  <2>6. CASE MuxMove
    <3>1. PICK s : ui' = [ui EXCEPT !.session = s]
      BY <2>6 DEF MuxMove
    <3> QED BY <1>2, <3>1 DEF IsUi
  <2>7. ASSUME NEW u, IsUi(u), SameScreen(ui, u), ui' = Refilter(u, cfg)
        PROVE  ui'.screen = ui.screen /\ ui'.help = ui.help /\ ui'.form = ui.form
    <3>1. SameScreen(u, ui')
      BY <1>2, <2>7, RefilterKeeps
    <3> QED BY <2>7, <3>1 DEF SameScreen
  <2>8. CASE Search
    <3>1. CASE \E b \in BOOLEAN : ui' = [ui EXCEPT !.searching = b]
      BY <1>2, <3>1 DEF IsUi
    <3>2. CASE ui' = Refilter([ui EXCEPT !.searching = FALSE, !.query = ""], cfg)
      <4> DEFINE u == [ui EXCEPT !.searching = FALSE, !.query = ""]
      <4>1. IsUi(u) /\ SameScreen(ui, u)
        BY <1>2 DEF IsUi, SameScreen
      <4> QED BY <2>7, <3>2, <4>1
    <3>3. CASE \E q \in Queries : ui' = Refilter([ui EXCEPT !.query = q], cfg)
      <4>1. PICK q \in Queries : ui' = Refilter([ui EXCEPT !.query = q], cfg)
        BY <3>3
      <4> DEFINE u == [ui EXCEPT !.query = q]
      <4>2. IsUi(u) /\ SameScreen(ui, u)
        BY <1>2 DEF IsUi, SameScreen
      <4> QED BY <2>7, <4>1, <4>2
    <3> QED BY <2>8, <3>1, <3>2, <3>3 DEF Search
  <2>9. CASE FilterEnv
    <3>1. PICK e \in Envs :
            ui' = Refilter([ui EXCEPT !.env = e, !.query = "", !.searching = FALSE], cfg)
      BY <2>9 DEF FilterEnv
    <3> DEFINE u == [ui EXCEPT !.env = e, !.query = "", !.searching = FALSE]
    <3>2. IsUi(u) /\ SameScreen(ui, u)
      BY <1>2 DEF IsUi, SameScreen
    <3> QED BY <2>7, <3>1, <3>2
  <2> QED BY <2>1, <2>2, <2>3, <2>4, <2>5, <2>6, <2>8, <2>9
<1>5. Named(ui', cfg)
  BY <1>2, <1>4, SameNamed
<1> QED BY <1>1, <1>3, <1>5, QuietStep

LEMMA LeaveFormStep ==
  ASSUME TInv, PInv,
         OpenDelete \/ OpenMux \/ CancelForm \/ CancelConfirm \/ LeaveMux
  PROVE  PInv'
<1>1. UNCHANGED <<life, store, count>>
  BY DEF OpenDelete, OpenMux, CancelForm, CancelConfirm, LeaveMux
<1>2. IsUi(ui)
  BY DEF TInv
<1>3. ui'.screen.at \in {"list", "delete", "mux"}
  <2>1. CASE OpenDelete
    <3>1. PICK i, q : ui' = [ui EXCEPT !.screen = [at |-> "delete", idx |-> i], !.confirm = q]
      BY <2>1 DEF OpenDelete
    <3> QED BY <1>2, <3>1 DEF IsUi
  <2>2. CASE OpenMux
    BY <1>2, <2>2 DEF OpenMux, IsUi
  <2>3. CASE CancelForm \/ CancelConfirm \/ LeaveMux
    <3>1. \/ ui' = [[ui EXCEPT !.form = NoForm] EXCEPT !.screen = List]
          \/ ui' = [[ui EXCEPT !.confirm = NoConfirm] EXCEPT !.screen = List]
          \/ ui' = [[ui EXCEPT !.screen = List] EXCEPT !.session = 0]
      BY <2>3 DEF CancelForm, CancelConfirm, LeaveMux, ToList
    <3>2. ui'.screen = List
      BY <1>2, <3>1 DEF IsUi
    <3> QED BY <3>2 DEF List
  <2> QED BY <2>1, <2>2, <2>3
<1>4. Named(ui', cfg)
  BY <1>3, NoFormNamed
<1> QED BY <1>1, <1>4, QuietStep

LEMMA HelpNames ==
  ASSUME TInv, PInv, OpenHelp \/ CloseHelp
  PROVE  PInv'
<1>1. UNCHANGED <<life, store, count>>
  BY DEF OpenHelp, CloseHelp
<1>2. IsUi(ui) /\ OnScreen(ui, cfg, opened) /\ Named(ui, cfg)
  BY DEF TInv, PInv
<1>3. Work(ui') = Work(ui) /\ ui'.form = ui.form
  <2>1. CASE OpenHelp
    BY <1>2, <2>1 DEF OpenHelp, Work, IsUi
  <2>2. CASE CloseHelp
    <3>1. /\ ui' = [ui EXCEPT !.screen = ui.help, !.help = List]
          /\ ui.screen.at = "help" /\ ui.help.at \in {"list", "add", "edit", "delete"}
      BY <1>2, <2>2 DEF CloseHelp, At, OnScreen
    <3> QED BY <1>2, <3>1 DEF Work, IsUi
  <2> QED BY <2>1, <2>2
<1>4. Named(ui', cfg)
  BY <1>2, <1>3 DEF Named
<1> QED BY <1>1, <1>4, QuietStep

\* a, and Ctrl+A in the list.
LEMMA AddNames ==
  ASSUME TInv, PInv, OpenAdd
  PROVE  PInv'
<1>1. UNCHANGED <<life, store, count>>
  BY DEF OpenAdd
<1> DEFINE s == [at |-> "add", idx |-> 0]
<1>2. PICK f \in {NewAdd, AddSessionLine(NewAdd)} : ui' = [ui EXCEPT !.screen = s, !.form = f]
  BY DEF OpenAdd
<1>3. /\ f.target = "add" /\ f.orig = "" /\ f.name \in {""} \cup Names
  <2>1. IsForm(NewAdd) /\ NewAdd.target = "add" /\ NewAdd.orig = "" /\ NewAdd.name = ""
    BY NewForms DEF NewAdd
  <2>2. f.orig = "" /\ f.name \in {""} \cup Names
    BY <2>1, KeysKeepNames
  <2>3. f.target = "add"
    BY <2>1, AddLineKeeps DEF SameForm
  <2> QED BY <2>2, <2>3
<1>4. ui'.screen = s /\ ui'.form = f /\ s.at = "add"
  BY <1>2 DEF TInv, IsUi
<1>5. Named(ui', cfg)
  BY <1>3, <1>4 DEF Named, Work
<1> QED BY <1>1, <1>5, QuietStep

\* e: the form gets the name of the entry it is opened for.
LEMMA EditNames ==
  ASSUME TInv, PInv, OpenEdit
  PROVE  PInv'
<1> DEFINE item == SelectedItem(ui)
           f == IF IsBookmark(item)
                THEN NewEditBookmark(cfg.bms[item], item, kc[cfg.bms[item].name] # 0)
                ELSE NewEditGroup(cfg.grps[item - Marker], item - Marker)
           s == [at |-> "edit", idx |-> f.idx]
<1>1. UNCHANGED <<life, store, count>> /\ ui' = [ui EXCEPT !.screen = s, !.form = f]
  BY DEF OpenEdit
<1>2. CASE IsBookmark(item)
  <2>1. f = NewEditBookmark(cfg.bms[item], item, kc[cfg.bms[item].name] # 0)
    BY <1>2
  <2>2. /\ f.target = "bookmark" /\ f.idx = item
        /\ f.orig = cfg.bms[item].name /\ f.name = cfg.bms[item].name
    BY <2>1, EditForms
  <2> HIDE DEF f
  <2>3. ui'.screen = s /\ ui'.form = f /\ s.at = "edit" /\ s.idx = item
    BY <1>1, <2>2 DEF TInv, IsUi
  <2>4. Named(ui', cfg)
    BY <2>2, <2>3 DEF Named, Work
  <2> QED BY <1>1, <2>4, QuietStep
<1>3. CASE ~IsBookmark(item)
  <2>1. f = NewEditGroup(cfg.grps[item - Marker], item - Marker)
    BY <1>3
  <2>2. /\ f.target = "group" /\ f.idx = item - Marker
        /\ f.orig = cfg.grps[item - Marker].name /\ f.name = cfg.grps[item - Marker].name
    <3> HIDE DEF f, item
    <3> QED BY <2>1, EditForms
  <2> HIDE DEF f
  <2>3. ui'.screen = s /\ ui'.form = f /\ s.at = "edit" /\ s.idx = item - Marker
    BY <1>1, <2>2 DEF TInv, IsUi
  <2>4. Named(ui', cfg)
    BY <2>2, <2>3 DEF Named, Work
  <2> QED BY <1>1, <2>4, QuietStep
<1> QED BY <1>2, <1>3

LEMMA KeyNamesStep ==
  ASSUME TInv, PInv, FormKey
  PROVE  PInv'
<1>1. /\ UNCHANGED <<life, store, count>>
      /\ ui.screen.at \in {"add", "edit"}
  BY DEF FormKey, InForm
<1>2. IsUi(ui) /\ OnScreen(ui, cfg, opened) /\ Named(ui, cfg)
  BY DEF TInv, PInv
<1>3. Work(ui) = ui.screen /\ IsForm(ui.form)
  BY <1>1, <1>2 DEF Work, OnScreen
<1>4. PICK f \in {NextField(ui.form), PrevField(ui.form)} \cup
              (IF ui.form.focused = 2 THEN {CycleEnv(ui.form)} ELSE {}) \cup
              {Retype(ui.form, t) : t \in Texts(ui.form)} \cup
              (IF Len(ui.form.sessions) < MaxSess THEN {AddSessionLine(ui.form)}
               ELSE {}) \cup
              (IF ui.form.focused > FieldCount THEN {RemoveSessionLine(ui.form)}
               ELSE {}) :
       ui' = [ui EXCEPT !.form = f]
  BY DEF FormKey
<1>5. SameForm(ui.form, f)
  BY <1>3, NextKeeps, PrevKeeps, CycleKeeps, RetypeKeeps, AddLineKeeps, RemoveLineKeeps
<1>6. f.orig = ui.form.orig /\ f.name \in {ui.form.name, ""} \cup Names
  BY <1>3, KeysKeepNames
<1>7. ui'.form = f /\ ui'.screen = ui.screen /\ Work(ui') = ui.screen
  BY <1>1, <1>2, <1>4 DEF IsUi, Work
<1>8. Named(ui', cfg)
  BY <1>1, <1>2, <1>3, <1>5, <1>6, <1>7 DEF Named, SameForm
<1> QED BY <1>1, <1>8, QuietStep

-----------------------------------------------------------------------------
(* Steps that change the lists, the file or the keychain.                  *)

LEMMA FaultsCounted ==
  ASSUME NEW S \in SUBSET Calls
  PROVE  Cardinality(S) \in Nat /\ (Cardinality(S) = 0 => S = {})
<1> DEFINE a == {"save"} \cup {"get"}
           b == {"set"} \cup {"delete"}
           c == {"setpw"} \cup {"delpw"}
<1>1. IsFiniteSet(a) /\ IsFiniteSet(b) /\ IsFiniteSet(c)
  BY FS_Singleton, FS_Union
<1> HIDE DEF a, b, c
<1>2. IsFiniteSet(a \cup b)
  BY <1>1, FS_Union
<1>3. IsFiniteSet((a \cup b) \cup c)
  BY <1>1, <1>2, FS_Union
<1>4. Calls = (a \cup b) \cup c
  BY DEF Calls, a, b, c
<1>5. IsFiniteSet(S)
  BY <1>3, <1>4, FS_Subset
<1> QED BY <1>5, FS_CardinalityType, FS_EmptySet

LEMMA InitPInv ==
  ASSUME DistinctStart, Init
  PROVE  PInv
<1>1. /\ disk \in InitConfigs /\ disk \in ConfigSet /\ cfg = disk /\ ui = NewUi(disk)
      /\ Apart(disk) /\ AllKnown(disk, Size(disk)) /\ InitStored \subseteq 1 .. Size(disk)
      /\ count.ids = Size(disk) /\ count.faults = 0 /\ gave = InitStored
      /\ wasGroup = {disk.grps[i].id : i \in DOMAIN disk.grps}
  <2>1. disk \in InitConfigs /\ count.ids = Cardinality(Entries(disk))
    BY DEF Init
  <2>2. disk \in ConfigSet /\ Size(disk) = Cardinality(Entries(disk))
    BY <2>1, TuiAssumption
  <2> QED BY <2>1, <2>2 DEF Init, DistinctStart
<1> DEFINE has(n) == \E e \in Entries(disk) : e.name = n /\ e.id \in InitStored
           who(n) == CHOOSE e \in Entries(disk) : e.name = n
<1>2. /\ kc = [n \in KeyNames |-> IF has(n) THEN who(n).id ELSE 0]
  BY DEF Init
<1>3. \A n \in KeyNames : has(n) => who(n) \in Entries(disk) /\ who(n).name = n
  OBVIOUS
<1> HIDE DEF has, who
<1>4. \A n \in KeyNames : kc[n] = IF has(n) THEN who(n).id ELSE 0
  BY <1>2
<1>5. Entries(disk) \subseteq EntrySet
  BY <1>1 DEF Entries, ConfigSet
<1>6. kc \in [KeyNames -> Nat]
  <2>1. \A n \in KeyNames : (IF has(n) THEN who(n).id ELSE 0) \in Nat
    BY <1>3, <1>5 DEF EntrySet
  <2> QED BY <1>2, <2>1
<1>7. Kept(disk, kc, gave, wasGroup)
  <2>1. ASSUME NEW i \in DOMAIN disk.bms, disk.bms[i].id \in gave, disk.bms[i].id # TempId
        PROVE  kc[disk.bms[i].name] = disk.bms[i].id
    <3> DEFINE b == disk.bms[i]
               n == b.name
    <3>1. b \in Entries(disk) /\ n \in KeyNames
      BY <1>1 DEF Entries, AllKnown, Known, KeyNames
    <3>2. has(n)
      BY <1>1, <2>1, <3>1 DEF has
    <3>3. n # TempName
      BY <1>1, <2>1 DEF DistinctStart, AllKnown, Known
    <3>4. who(n) \in Entries(disk) /\ who(n).name = n
      BY <1>3, <3>1, <3>2
    <3>5. CASE \E j \in DOMAIN disk.bms : who(n) = disk.bms[j]
      <4>1. PICK j \in DOMAIN disk.bms : who(n) = disk.bms[j]
        BY <3>5
      <4>2. j = i
        BY <1>1, <3>3, <3>4, <4>1 DEF Apart, Differ
      <4> QED BY <1>4, <3>1, <3>2, <4>1, <4>2
    <3>6. CASE \E j \in DOMAIN disk.grps : who(n) = disk.grps[j]
      BY <1>1, <3>3, <3>4, <3>6 DEF Apart, Differ
    <3> QED BY <3>4, <3>5, <3>6 DEF Entries
  <2>2. ASSUME NEW n \in KeyNames
        PROVE  \/ kc[n] \in {0} \cup wasGroup
               \/ \E i \in DOMAIN disk.bms : disk.bms[i].name = n /\ disk.bms[i].id = kc[n]
    <3>1. CASE ~has(n)
      BY <1>4, <3>1
    <3>2. CASE has(n)
      <4>1. kc[n] = who(n).id /\ who(n) \in Entries(disk) /\ who(n).name = n
        BY <1>3, <1>4, <3>2
      <4>2. CASE \E j \in DOMAIN disk.bms : who(n) = disk.bms[j]
        BY <4>1, <4>2
      <4>3. CASE \E j \in DOMAIN disk.grps : who(n) = disk.grps[j]
        BY <1>1, <4>1, <4>3
      <4> QED BY <4>1, <4>2, <4>3 DEF Entries
    <3> QED BY <3>1, <3>2
  <2> QED BY <2>1, <2>2 DEF Kept
<1>8. Named(ui, cfg)
  <2>1. ui.screen = List
    BY <1>1, NewUiKeeps
  <2> QED BY <2>1, NoFormNamed DEF List
<1>9. Grouped(disk, wasGroup)
  BY <1>1 DEF Grouped
<1>10. \A id \in gave : id \in 1 .. count.ids \/ id = TempId
  BY <1>1
<1> QED BY <1>1, <1>6, <1>7, <1>8, <1>9, <1>10 DEF PInv

LEMMA ExitNames ==
  ASSUME PInv, NEW how \in {"quit", "panicked"}, Exit(how)
  PROVE  PInv'
<1>1. /\ cfg' = Gone /\ ui' = NewUi(Gone) /\ life' = how
      /\ disk' = disk /\ kc' = kc /\ gave' = gave /\ wasGroup' = wasGroup /\ count' = count
  BY DEF Exit
<1>2. Gone \in ConfigSet /\ DOMAIN Gone.bms = {} /\ DOMAIN Gone.grps = {}
  BY EmptySeq DEF Gone, ConfigSet
<1>3. Apart(Gone) /\ AllKnown(Gone, count.ids) /\ Grouped(Gone, wasGroup)
  BY <1>2 DEF Apart, AllKnown, Grouped
<1>4. Named(ui', cfg')
  <2>1. ui'.screen = List
    BY <1>1, <1>2, NewUiKeeps
  <2> QED BY <2>1, NoFormNamed DEF List
<1> QED BY <1>1, <1>3, <1>4 DEF PInv

LEMMA StartNames ==
  ASSUME TInv, PInv, Start
  PROVE  PInv'
<1>1. /\ cfg' = disk /\ ui' = NewUi(disk) /\ disk' = disk /\ kc' = kc
      /\ gave' = gave /\ wasGroup' = wasGroup /\ count' = count
  BY DEF Start
<1>2. Named(ui', cfg')
  <2>1. disk \in ConfigSet
    BY DEF TInv, Sized
  <2>2. ui'.screen = List
    BY <1>1, <2>1, NewUiKeeps
  <2> QED BY <2>2, NoFormNamed DEF List
<1> QED BY <1>1, <1>2 DEF PInv

\* The entry a session left in the file.
LEMMA SessionLeft ==
  ASSUME NEW c \in ConfigSet, NEW e \in EntrySet, e.id = TempId, e.name = TempName,
         NEW n, NEW were, Apart(c), AllKnown(c, n), Grouped(c, were)
  PROVE  LET d == [c EXCEPT !.bms = Append(@, e)]
         IN  Apart(d) /\ AllKnown(d, n) /\ Grouped(d, were)
<1> DEFINE d == [c EXCEPT !.bms = Append(@, e)]
<1>1. c.bms \in Seq(EntrySet) /\ c.grps \in Seq(EntrySet)
      /\ d.bms = Append(c.bms, e) /\ d.grps = c.grps
  BY DEF ConfigSet
<1> HIDE DEF d
<1>2. Changed(c, d, 0, 0, {e}, {}, e)
  BY <1>1, RenewedSame, RenewedAppend DEF Changed
<1>3. \A x : Differ(x, e)
  BY DEF Differ
<1>4. Apart(d)
  BY <1>2, <1>3, ApartKept
<1>5. Known(e, n)
  BY DEF Known
<1>6. AllKnown(d, n) /\ Grouped(d, were)
  BY <1>2, <1>5, EntriesKept
<1> QED BY <1>4, <1>6 DEF d

LEMMA ComeBackNames ==
  ASSUME TInv, PInv, ComeBack
  PROVE  PInv'
<1> DEFINE item == ui.request
           e == Synthetic(cfg.grps[item - Marker])
           longer == [cfg EXCEPT !.bms = Append(@, e)]
<1>1. /\ life = "away" /\ life' = "running" /\ cfg' = cfg /\ kc' = kc /\ gave' = gave
      /\ wasGroup' = wasGroup /\ count' = count
      /\ disk' \in {disk, IF IsGroupItem(item) THEN longer ELSE cfg}
      /\ ui' = [ui EXCEPT !.request = 0, !.back = 0,
                  !.session = IF ui.back # 0 THEN 1 ELSE 0,
                  !.screen = IF ui.back # 0 THEN [at |-> "mux", idx |-> ui.back] ELSE @]
  BY DEF ComeBack
<1>2. IsUi(ui) /\ Departed(ui, cfg, life) /\ cfg \in ConfigSet
  BY DEF TInv, Sized
<1>3. /\ Apart(cfg) /\ AllKnown(cfg, count.ids) /\ Grouped(cfg, wasGroup)
      /\ count.faults = 0 => Kept(cfg, kc, gave, wasGroup)
  BY <1>1 DEF PInv
<1>4. ASSUME IsGroupItem(item)
      PROVE  /\ Apart(longer) /\ AllKnown(longer, count.ids) /\ Grouped(longer, wasGroup)
             /\ count.faults = 0 => Kept(longer, kc, gave, wasGroup)
  <2> DEFINE j == item - Marker
  <2>1. j \in 1 .. Len(cfg.grps) /\ cfg.grps \in Seq(EntrySet)
    BY <1>1, <1>2, <1>4 DEF Departed, ConfigSet
  <2> HIDE DEF j
  <2>2. e \in EntrySet /\ e.id = TempId /\ e.name = TempName
    <3>1. TempId \in Nat \ {0}
      BY TuiAssumption DEF TempId
    <3>2. cfg.grps[j] \in EntrySet
      BY <2>1
    <3>3. cfg.grps[j].env \in Envs
      BY <3>2 DEF EntrySet
    <3> QED BY <3>1, <3>3, TextsAre, EmptySeq DEF Synthetic, EntrySet, j
  <2> HIDE DEF e
  <2> QED BY <1>2, <1>3, <2>2, SessionLeft, LongerKept
<1>5. /\ Apart(disk') /\ AllKnown(disk', count.ids) /\ Grouped(disk', wasGroup)
      /\ count.faults = 0 => Kept(disk', kc, gave, wasGroup)
  <2> HIDE DEF longer
  <2> QED BY <1>1, <1>3, <1>4 DEF PInv
<1>6. Named(ui', cfg)
  <2>1. CASE ui.back = 0
    <3>1. ui'.screen.at = "list"
      BY <1>1, <1>2, <2>1 DEF IsUi, Departed
    <3> QED BY <3>1, NoFormNamed
  <2>2. CASE ui.back # 0
    <3>1. ui'.screen.at = "mux"
      BY <1>1, <1>2, <2>2 DEF IsUi
    <3> QED BY <3>1, NoFormNamed
  <2> QED BY <2>1, <2>2
<1> QED BY <1>1, <1>3, <1>5, <1>6 DEF PInv

\* Return in the confirmation: the removed entry was unlike all others.
LEMMA DeletedNames ==
  ASSUME NEW c \in ConfigSet, NEW n, NEW were, NEW group \in BOOLEAN, NEW idx \in Nat,
         Apart(c), AllKnown(c, n), Grouped(c, were),
         idx \in DOMAIN (IF group THEN c.grps ELSE c.bms)
  PROVE  LET d == IF group THEN [c EXCEPT !.grps = RemoveAt(@, idx)]
                  ELSE [c EXCEPT !.bms = RemoveAt(@, idx)]
         IN  Apart(d) /\ AllKnown(d, n) /\ Grouped(d, were) /\ (group => d.bms = c.bms)
<1> DEFINE cutB == RemoveAt(c.bms, idx)
           cutG == RemoveAt(c.grps, idx)
           d == IF group THEN [c EXCEPT !.grps = cutG] ELSE [c EXCEPT !.bms = cutB]
           wb == IF group THEN 0 ELSE idx
           wg == IF group THEN idx ELSE 0
           e == IF group THEN c.grps[idx] ELSE c.bms[idx]
<1>1. /\ c.bms \in Seq(EntrySet) /\ c.grps \in Seq(EntrySet)
      /\ group => idx \in 1 .. Len(c.grps)
      /\ ~group => idx \in 1 .. Len(c.bms)
  BY DEF ConfigSet
<1>2. /\ group => d.bms = c.bms /\ d.grps = cutG
      /\ ~group => d.bms = cutB /\ d.grps = c.grps
  BY DEF ConfigSet
<1>3. /\ group => Renewed(c.grps, cutG, idx, {})
      /\ ~group => Renewed(c.bms, cutB, idx, {})
      /\ Renewed(c.bms, c.bms, 0, {}) /\ Renewed(c.grps, c.grps, 0, {})
  BY <1>1, RenewedCut, RenewedSame
<1> HIDE DEF cutB, cutG, d
<1>4. Changed(c, d, wb, wg, {}, {}, e)
  <2>1. Renewed(c.bms, d.bms, wb, {}) /\ Renewed(c.grps, d.grps, wg, {})
    BY <1>2, <1>3
  <2> HIDE DEF e, wb, wg
  <2> QED BY <2>1 DEF Changed
<1>5. /\ \A i \in DOMAIN c.bms : i # wb => Differ(c.bms[i], e)
      /\ \A i \in DOMAIN c.grps : i # wg => Differ(c.grps[i], e)
  <2>1. 0 \notin DOMAIN c.bms /\ 0 \notin DOMAIN c.grps
    BY <1>1
  <2> QED BY <1>1, <2>1, DifferBack DEF Apart
<1> HIDE DEF e, wb, wg
<1>6. Apart(d)
  BY <1>4, <1>5, ApartKept
<1>7. AllKnown(d, n) /\ Grouped(d, were)
  BY <1>4, EntriesKept
<1> QED BY <1>2, <1>6, <1>7 DEF d, cutB, cutG

LEMMA DeleteNames ==
  ASSUME TempName \notin Names, TInv, PInv, Delete
  PROVE  PInv'
<1> DEFINE idx == ui.screen.idx
           group == ui.confirm.group = TRUE
           new == IF group THEN [cfg EXCEPT !.grps = RemoveAt(@, idx)]
                  ELSE [cfg EXCEPT !.bms = RemoveAt(@, idx)]
           u == [ui EXCEPT !.confirm = NoConfirm]
           name == cfg.bms[idx].name
<1>1. /\ life = "running" /\ life' = life /\ gave' = gave /\ wasGroup' = wasGroup
      /\ ~OutOfRange(ui.confirm, idx)
  BY DEF Delete, InConfirm, At
<1>2. PICK failed \in SUBSET {"save", "delete"} :
        /\ cfg' = new /\ disk' = Saved(new, failed)
        /\ kc' = IF group \/ "delete" \in failed THEN kc ELSE [kc EXCEPT ![name] = 0]
        /\ count' = [count EXCEPT !.faults = @ + Cardinality(failed)]
        /\ ui' = ToList(Refilter(u, new))
  BY DEF Delete
<1>3. IsUi(ui) /\ cfg \in ConfigSet /\ idx \in Nat
  BY DEF TInv, Sized, IsUi, ScreenSet
<1>4. idx \in DOMAIN (IF group THEN cfg.grps ELSE cfg.bms)
  BY <1>1 DEF OutOfRange
<1>5. /\ Apart(cfg) /\ AllKnown(cfg, count.ids) /\ Grouped(cfg, wasGroup)
      /\ Apart(disk) /\ AllKnown(disk, count.ids) /\ Grouped(disk, wasGroup)
      /\ kc \in [KeyNames -> Nat] /\ count.faults \in Nat
      /\ \A id \in gave : id \in 1 .. count.ids \/ id = TempId
      /\ count.faults = 0 => Kept(cfg, kc, gave, wasGroup)
  BY <1>1 DEF PInv
<1>6. /\ Apart(new) /\ AllKnown(new, count.ids) /\ Grouped(new, wasGroup)
      /\ group => new.bms = cfg.bms
  <2> HIDE DEF group, idx
  <2>1. group \in BOOLEAN
    BY DEF group
  <2> QED BY <1>3, <1>4, <1>5, <2>1, DeletedNames
<1>7. /\ Cardinality(failed) \in Nat /\ (Cardinality(failed) = 0 => failed = {})
      /\ count'.ids = count.ids /\ count'.faults = count.faults + Cardinality(failed)
  <2>1. failed \in SUBSET Calls
    BY DEF Calls
  <2>2. DOMAIN count = {"ids", "faults", "opens", "leaves", "saves"}
    BY DEF TInv, Sized
  <2> QED BY <1>2, <2>1, <2>2, FaultsCounted
<1>8. kc' \in [KeyNames -> Nat]
  <2>1. [kc EXCEPT ![name] = 0] \in [KeyNames -> Nat]
    BY <1>5
  <2> HIDE DEF name, group
  <2> QED BY <1>2, <1>5, <2>1
<1>9. ASSUME count'.faults = 0
      PROVE  disk' = new /\ Kept(new, kc', gave, wasGroup)
  <2>1. failed = {} /\ count.faults = 0
    BY <1>5, <1>7, <1>9
  <2>2. disk' = new
    BY <1>2, <2>1 DEF Saved
  <2>3. Kept(cfg, kc, gave, wasGroup)
    BY <1>5, <2>1
  <2>4. CASE group
    <3>1. kc' = kc /\ new.bms = cfg.bms
      BY <1>2, <1>6, <2>4
    <3> HIDE DEF new
    <3> QED BY <2>2, <2>3, <3>1 DEF Kept
  <2>5. CASE ~group
    <3>1. kc' = [kc EXCEPT ![name] = 0] /\ idx \in DOMAIN cfg.bms
      BY <1>2, <1>4, <2>1, <2>5
    <3>2. new = [cfg EXCEPT !.bms = RemoveAt(@, idx)]
      BY <2>5
    <3> HIDE DEF new, idx
    <3> QED BY <1>3, <1>5, <2>2, <2>3, <3>1, <3>2, DeleteKept DEF name
  <2> QED BY <2>4, <2>5
<1>10. Named(ui', cfg')
  <2>1. IsUi(Refilter(u, new))
    <3>1. IsUi(u)
      BY <1>3 DEF IsUi
    <3>2. new \in ConfigSet
      BY DeleteStep, <1>2 DEF TInv, Sized
    <3> HIDE DEF u, new
    <3> QED BY <3>1, <3>2, RefilterKeeps
  <2> HIDE DEF u, new
  <2>2. ui'.screen = List
    BY <1>2, <2>1 DEF ToList, IsUi
  <2> QED BY <2>2, NoFormNamed DEF List
<1>11. cfg' = new /\ (disk' = new \/ disk' = disk)
  BY <1>2 DEF Saved
<1> HIDE DEF new
<1> QED BY <1>1, <1>5, <1>6, <1>7, <1>8, <1>9, <1>10, <1>11 DEF PInv

\* Whatever keychain calls fail, the keychain holds ids under names.
LEMMA KeychainTyped ==
  ASSUME NEW k \in [KeyNames -> Nat], NEW f, f.name \in KeyNames, NEW id \in Nat,
         NEW failed, Moves(f) => f.orig \in KeyNames
  PROVE  LET moved == IF Moves(f) THEN Migrated(k, f.orig, f.name, failed) ELSE k
         IN  (IF IsGroup(f) THEN moved ELSE WithPassword(moved, f, id, failed))
               \in [KeyNames -> Nat]
<1> DEFINE moved == IF Moves(f) THEN Migrated(k, f.orig, f.name, failed) ELSE k
<1>1. moved \in [KeyNames -> Nat]
  <2>1. CASE moved = k
    BY <2>1
  <2>2. CASE Moves(f) /\ moved # k
    <3> DEFINE old == f.orig
               to == f.name
               val(n) == CASE n = old -> IF "delete" \in failed THEN k[n] ELSE 0
                           [] n = to /\ n # old -> IF "set" \in failed THEN k[n] ELSE k[old]
                           [] OTHER -> k[n]
    <3>1. moved = [n \in KeyNames |-> val(n)]
      BY <2>2 DEF Migrated
    <3>2. old \in KeyNames
      BY <2>2
    <3> HIDE DEF old, to
    <3>3. \A n \in KeyNames : val(n) \in Nat
      BY <3>2
    <3> HIDE DEF val, moved
    <3> QED BY <3>1, <3>3
  <2> QED BY <2>1, <2>2
<1> DEFINE set == [moved EXCEPT ![f.name] = id]
           cut == [moved EXCEPT ![f.name] = 0]
<1>2. set \in [KeyNames -> Nat] /\ cut \in [KeyNames -> Nat]
  <2> HIDE DEF moved
  <2> QED BY <1>1
<1> HIDE DEF moved
<1>3. WithPassword(moved, f, id, failed) \in {moved, set, cut}
  BY DEF WithPassword
<1> HIDE DEF set, cut
<1>4. (IF IsGroup(f) THEN moved ELSE WithPassword(moved, f, id, failed)) \in {moved, set, cut}
  BY <1>3
<1> QED BY <1>1, <1>2, <1>4 DEF moved

\* The entry that the form on the screen builds, as SaveForm numbers it.
FormId ==
  IF ui.form.target = "add" THEN count.ids + 1
  ELSE IF ui.form.target = "bookmark" THEN cfg.bms[ui.screen.idx].id
  ELSE cfg.grps[ui.screen.idx].id
FormEntry == Built(ui.form, FormId)

\* validate_and_build lets only an entry pass that is unlike the others.
LEMMA FormSaves ==
  ASSUME TempName \notin Names, TInv, PInv, SaveForm
  PROVE  /\ Saves(cfg, ui.form, ui.screen.idx, FormEntry, count.ids)
         /\ FormEntry \in EntrySet /\ FormEntry.id = FormId
         /\ ui.form.target = "bookmark" => ui.screen.idx \in 1 .. Len(cfg.bms)
         /\ ui.form.target = "group" => ui.screen.idx \in 1 .. Len(cfg.grps)
         /\ Known(FormEntry, IF ui.form.target = "add" THEN count.ids + 1 ELSE count.ids)
         /\ Moves(ui.form) => ui.form.orig \in KeyNames
<1> DEFINE f == ui.form
           idx == ui.screen.idx
           n == count.ids
           e == FormEntry
<1>1. /\ ui.screen.at \in {"add", "edit"} /\ (f.target = "add" => n < MaxId)
      /\ Builds(f, cfg.bms, cfg.grps, TRUE) /\ life = "running"
  BY DEF SaveForm, InForm
<1>2. /\ IsUi(ui) /\ OnScreen(ui, cfg, opened) /\ Named(ui, cfg)
      /\ cfg \in ConfigSet /\ n \in Nat /\ MaxId \in Nat
      /\ Apart(cfg) /\ AllKnown(cfg, n)
  BY TuiAssumption DEF TInv, PInv, Sized
<1>3. Work(ui) = ui.screen /\ idx \in Nat
  BY <1>1, <1>2 DEF Work, IsUi, ScreenSet
<1>4. /\ IsForm(f) /\ f.target \in {"add", "bookmark", "group"} /\ f.modified \in BOOLEAN
      /\ f.target = "bookmark" => idx \in 1 .. Len(cfg.bms)
      /\ f.target = "group" => idx \in 1 .. Len(cfg.grps)
  <2>1. IsForm(f) /\ (ui.screen.at = "add" => f.target = "add")
        /\ (ui.screen.at = "edit" => Editing(ui, cfg, opened))
    BY <1>1, <1>2, <1>3 DEF OnScreen
  <2>2. f.modified \in BOOLEAN
    BY <2>1 DEF IsForm, FormSet
  <2> QED BY <1>1, <1>3, <2>1, <2>2 DEF Editing
<1>5. /\ f.name \in Names \cup {"", f.orig}
      /\ f.target = "add" => f.orig = ""
      /\ f.target = "bookmark" => f.orig = cfg.bms[idx].name
      /\ f.target = "group" => f.orig = cfg.grps[idx].name
  BY <1>1, <1>2, <1>3 DEF Named
<1>6. /\ cfg.bms \in Seq(EntrySet) /\ cfg.grps \in Seq(EntrySet)
      /\ DOMAIN cfg.bms = 1 .. Len(cfg.bms) /\ DOMAIN cfg.grps = 1 .. Len(cfg.grps)
  BY <1>2 DEF ConfigSet
<1>7. /\ f.name # ""
      /\ f.target = "add" \/ f.orig # f.name =>
           /\ \A i \in DOMAIN cfg.bms : cfg.bms[i].name # f.name
           /\ \A i \in DOMAIN cfg.grps : cfg.grps[i].name # f.name
  BY <1>1 DEF Builds
<1>8. /\ e.id = FormId /\ e.name = f.name /\ e.env = f.env /\ e.sessions = f.sessions
      /\ e = [id |-> FormId, name |-> f.name, env |-> f.env, sessions |-> f.sessions]
  BY DEF FormEntry, Built
<1>9. /\ f.target = "add" => FormId = n + 1
      /\ f.target = "bookmark" => FormId = cfg.bms[idx].id
      /\ f.target = "group" => FormId = cfg.grps[idx].id
  BY DEF FormId
<1>10. /\ f.target = "add" => FormId \in Nat \ {0} /\ FormId # TempId
       /\ FormId \in Nat \ {0}
  <2>1. f.target = "add" => n + 1 \in Nat \ {0} /\ n + 1 # TempId
    BY <1>1, <1>2 DEF TempId
  <2>2. ASSUME f.target = "bookmark"
        PROVE  cfg.bms[idx].id \in Nat \ {0}
    <3>1. cfg.bms[idx] \in EntrySet
      BY <1>4, <1>6, <2>2
    <3> QED BY <3>1 DEF EntrySet
  <2>3. ASSUME f.target = "group"
        PROVE  cfg.grps[idx].id \in Nat \ {0}
    <3>1. cfg.grps[idx] \in EntrySet
      BY <1>4, <1>6, <2>3
    <3> QED BY <3>1 DEF EntrySet
  <2> QED BY <1>4, <1>9, <2>1, <2>2, <2>3
<1>11. e \in EntrySet
  <2>1. f.name \in Text /\ f.env \in Envs /\ f.sessions \in Seq(Text)
    BY <1>4 DEF IsForm, FormSet
  <2> QED BY <1>8, <1>10, <2>1 DEF EntrySet
<1> HIDE DEF f, idx, n, e
<1>12. /\ f.target = "bookmark" => Known(cfg.bms[idx], n)
       /\ f.target = "group" => Known(cfg.grps[idx], n)
  BY <1>2, <1>4, <1>6 DEF AllKnown
<1>13. f.name \in KeyNames /\ (f.target # "add" => f.orig \in KeyNames)
  <2>1. f.target # "add" => f.orig \in KeyNames
    BY <1>4, <1>5, <1>12 DEF Known, KeyNames
  <2> QED BY <1>4, <1>5, <1>7, <2>1 DEF KeyNames
<1>14. Known(e, IF f.target = "add" THEN n + 1 ELSE n)
  <2>1. CASE f.target = "add"
    <3>1. n + 1 \in 1 .. n + 1
      BY <1>2
    <3>2. f.name \in Names
      BY <1>5, <1>7, <2>1
    <3> QED BY <1>8, <1>9, <2>1, <3>1, <3>2 DEF Known
  <2>2. CASE f.target = "bookmark"
    BY <1>5, <1>7, <1>8, <1>9, <1>12, <2>2 DEF Known
  <2>3. CASE f.target = "group"
    BY <1>5, <1>7, <1>8, <1>9, <1>12, <2>3 DEF Known
  <2> QED BY <1>4, <2>1, <2>2, <2>3
<1>15. /\ \A i \in DOMAIN cfg.bms :
            i # (IF f.target = "bookmark" THEN idx ELSE 0) => Differ(cfg.bms[i], e)
       /\ \A i \in DOMAIN cfg.grps :
            i # (IF f.target = "group" THEN idx ELSE 0) => Differ(cfg.grps[i], e)
  <2>1. CASE f.target = "add"
    <3>1. n + 1 \notin 1 .. n
      BY <1>2
    <3>2. /\ \A i \in DOMAIN cfg.bms : cfg.bms[i].id # n + 1 \/ cfg.bms[i].id = TempId
          /\ \A i \in DOMAIN cfg.grps : cfg.grps[i].id # n + 1 \/ cfg.grps[i].id = TempId
      BY <1>2, <3>1 DEF AllKnown, Known
    <3> QED BY <1>7, <1>8, <1>9, <2>1, <3>2 DEF Differ
  <2>2. CASE f.target = "bookmark"
    <3>1. idx \in DOMAIN cfg.bms
      BY <1>4, <1>6, <2>2
    <3>2. /\ \A i \in DOMAIN cfg.bms : i # idx => Differ(cfg.bms[i], cfg.bms[idx])
          /\ \A i \in DOMAIN cfg.grps : Differ(cfg.grps[i], cfg.bms[idx])
      BY <1>2, <3>1, DifferBack DEF Apart
    <3> QED BY <1>5, <1>7, <1>8, <1>9, <2>2, <3>2 DEF Differ
  <2>3. CASE f.target = "group"
    <3>1. idx \in DOMAIN cfg.grps
      BY <1>4, <1>6, <2>3
    <3>2. /\ \A i \in DOMAIN cfg.grps : i # idx => Differ(cfg.grps[i], cfg.grps[idx])
          /\ \A i \in DOMAIN cfg.bms : Differ(cfg.bms[i], cfg.grps[idx])
      BY <1>2, <3>1 DEF Apart
    <3> QED BY <1>5, <1>7, <1>8, <1>9, <2>3, <3>2 DEF Differ
  <2> QED BY <1>4, <2>1, <2>2, <2>3
<1>16. Saves(cfg, f, idx, e, n)
  BY <1>2, <1>3, <1>4, <1>5, <1>6, <1>8, <1>9, <1>10, <1>13, <1>15 DEF Saves, idx
<1>17. Moves(f) => f.orig \in KeyNames
  BY <1>13 DEF Moves
<1> QED BY <1>4, <1>8, <1>11, <1>14, <1>16, <1>17 DEF f, idx, n, e

\* Return in the form (try_save_unified_form).
LEMMA SaveNames ==
  ASSUME TempName \notin Names, TInv, PInv, SaveForm
  PROVE  PInv'
<1> DEFINE f == ui.form
           idx == ui.screen.idx
           id == FormId
           e == FormEntry
           n == count.ids
           n2 == IF f.target = "add" THEN n + 1 ELSE n
           new == Placed(cfg, f, idx, e)
           u == [ui EXCEPT !.form = NoForm]
           moved(failed) == IF Moves(f) THEN Migrated(kc, f.orig, f.name, failed) ELSE kc
           keys(failed) == IF IsGroup(f) THEN moved(failed)
                           ELSE WithPassword(moved(failed), f, id, failed)
<1>1. /\ life = "running" /\ life' = life
      /\ gave' = IF IsGroup(f) \/ ~f.modified THEN gave
                 ELSE IF f.pw # "" THEN gave \cup {id} ELSE gave \ {id}
      /\ wasGroup' = IF IsGroup(f) THEN wasGroup \cup {id} ELSE wasGroup
  BY DEF SaveForm, InForm, FormId
<1>2. PICK failed \in SUBSET Calls :
        /\ cfg' = new /\ disk' = Saved(new, failed) /\ kc' = keys(failed)
        /\ count' = [count EXCEPT !.faults = @ + Cardinality(failed),
                       !.saves = @ + 1,
                       !.ids = IF f.target = "add" THEN @ + 1 ELSE @]
        /\ ui' = ToList(Refilter(u, new))
  BY DEF SaveForm, FormId, FormEntry
<1>3. /\ IsUi(ui) /\ cfg \in ConfigSet /\ n \in Nat /\ n2 \in Nat /\ n <= n2
      /\ idx \in Nat /\ DOMAIN count = {"ids", "faults", "opens", "leaves", "saves"}
  BY TuiAssumption DEF TInv, Sized, IsUi, ScreenSet
<1>4. /\ Apart(cfg) /\ AllKnown(cfg, n) /\ Grouped(cfg, wasGroup)
      /\ Apart(disk) /\ AllKnown(disk, n) /\ Grouped(disk, wasGroup)
      /\ kc \in [KeyNames -> Nat] /\ count.faults \in Nat
      /\ \A x \in gave : x \in 1 .. n \/ x = TempId
      /\ count.faults = 0 => Kept(cfg, kc, gave, wasGroup)
  BY <1>1 DEF PInv
<1>5. /\ Saves(cfg, f, idx, e, n) /\ e \in EntrySet /\ e.id = id
      /\ f.target = "bookmark" => idx \in 1 .. Len(cfg.bms)
      /\ f.target = "group" => idx \in 1 .. Len(cfg.grps)
      /\ Known(e, n2) /\ (Moves(f) => f.orig \in KeyNames)
  BY FormSaves
<1>6. /\ Cardinality(failed) \in Nat /\ (Cardinality(failed) = 0 => failed = {})
      /\ count'.ids = n2 /\ count'.faults = count.faults + Cardinality(failed)
  BY <1>2, <1>3, FaultsCounted
<1>7. cfg' = new /\ (disk' = new \/ disk' = disk) /\ (failed = {} => disk' = new)
  BY <1>2 DEF Saved
<1>8. new \in ConfigSet
  BY <1>7, SaveStep DEF TInv, Sized
<1>9. Named(ui', new)
  <2>1. IsUi(Refilter(u, new))
    <3>1. IsUi(u)
      BY <1>3 DEF IsUi
    <3> HIDE DEF u, new
    <3> QED BY <1>8, <3>1, RefilterKeeps
  <2> HIDE DEF u, new
  <2>2. ui'.screen = List
    BY <1>2, <2>1 DEF ToList, IsUi
  <2> QED BY <2>2, NoFormNamed DEF List
<1> HIDE DEF f, idx, id, e, n
<1>10. Changed(cfg, new, IF f.target = "bookmark" THEN idx ELSE 0,
                         IF f.target = "group" THEN idx ELSE 0,
                         IF IsGroup(f) THEN {} ELSE {e}, IF IsGroup(f) THEN {e} ELSE {}, e)
  BY <1>3, <1>5, PlacedChanges DEF Saves
<1> HIDE DEF new, u
<1>11. Apart(new)
  BY <1>4, <1>5, <1>10, ApartKept DEF Saves
<1>12. wasGroup \subseteq wasGroup' /\ (IsGroup(f) => e.id \in wasGroup')
  BY <1>1, <1>5
<1>13. /\ AllKnown(cfg, n2) /\ Grouped(cfg, wasGroup')
       /\ AllKnown(disk, n2) /\ Grouped(disk, wasGroup')
  <2> HIDE DEF n2
  <2> QED BY <1>3, <1>4, <1>12, KnownLonger
<1>14. AllKnown(new, n2) /\ Grouped(new, wasGroup')
  <2> HIDE DEF n2
  <2>1. (IF IsGroup(f) THEN {e} ELSE {}) # {} => e.id \in wasGroup'
    BY <1>12
  <2> QED BY <1>5, <1>10, <1>13, <2>1, EntriesKept
<1>15. \A x \in gave' : x \in 1 .. n2 \/ x = TempId
  <2>1. id \in 1 .. n2 \/ id = TempId
    BY <1>5 DEF Known
  <2>2. \A x \in gave' : x \in gave \/ x = id
    BY <1>1
  <2> QED BY <1>3, <1>4, <2>1, <2>2
<1>16. f.name \in KeyNames /\ id \in Nat
  BY <1>5 DEF Saves
<1>17. kc' \in [KeyNames -> Nat]
  <2>1. keys(failed) \in [KeyNames -> Nat]
    BY <1>4, <1>5, <1>16, KeychainTyped
  <2> QED BY <1>2, <2>1
<1>18. ASSUME count'.faults = 0
       PROVE  disk' = new /\ Kept(new, kc', gave', wasGroup')
  <2>1. failed = {} /\ count.faults = 0
    BY <1>4, <1>6, <1>18
  <2>2. disk' = new /\ Kept(cfg, kc, gave, wasGroup)
    BY <1>4, <1>7, <2>1
  <2>3. kc' = IF IsGroup(f) THEN MovedTo(kc, f) ELSE WithPassword(MovedTo(kc, f), f, e.id, {})
    BY <1>2, <1>5, <2>1 DEF MovedTo
  <2>4. /\ gave' = IF IsGroup(f) \/ ~f.modified THEN gave
                   ELSE IF f.pw # "" THEN gave \cup {e.id} ELSE gave \ {e.id}
        /\ wasGroup' = IF IsGroup(f) THEN wasGroup \cup {e.id} ELSE wasGroup
    BY <1>1, <1>5
  <2>5. Kept(new, IF IsGroup(f) THEN MovedTo(kc, f)
                  ELSE WithPassword(MovedTo(kc, f), f, e.id, {}),
             IF IsGroup(f) \/ ~f.modified THEN gave
             ELSE IF f.pw # "" THEN gave \cup {e.id} ELSE gave \ {e.id},
             IF IsGroup(f) THEN wasGroup \cup {e.id} ELSE wasGroup)
    BY <1>4, <1>5, <1>10, <2>2, SaveKept
  <2> QED BY <2>2, <2>3, <2>4, <2>5
<1> HIDE DEF keys, moved
<1>19. /\ Apart(cfg') /\ AllKnown(cfg', count'.ids) /\ Grouped(cfg', wasGroup')
       /\ Apart(disk') /\ AllKnown(disk', count'.ids) /\ Grouped(disk', wasGroup')
  BY <1>4, <1>6, <1>7, <1>11, <1>13, <1>14
<1>20. count'.faults \in Nat /\ Named(ui', cfg')
       /\ \A x \in gave' : x \in 1 .. count'.ids \/ x = TempId
  BY <1>4, <1>6, <1>7, <1>9, <1>15
<1>21. count'.faults = 0 =>
         Kept(disk', kc', gave', wasGroup') /\ Kept(cfg', kc', gave', wasGroup')
  BY <1>7, <1>18
<1> QED BY <1>17, <1>19, <1>20, <1>21 DEF PInv

-----------------------------------------------------------------------------
LEMMA StepPInv ==
  ASSUME TempName \notin Names, TInv, PInv, [Next]_vars
  PROVE  PInv'
<1>1. CASE Quit \/ DeletePanics \/ BrowsePanics
  BY <1>1, ExitNames DEF Quit, DeletePanics, BrowsePanics
<1>2. CASE Start \/ ComeBack
  BY <1>2, StartNames, ComeBackNames
<1>3. CASE Move \/ Search \/ FilterEnv \/ TypeConfirm \/ EnterBookmark \/ Browse
           \/ MuxConnect \/ MuxSend \/ MuxFallback \/ MuxMove \/ TaskEnds \/ ApplyResult
  BY <1>3, StayStep
<1>4. CASE OpenDelete \/ OpenMux \/ CancelForm \/ CancelConfirm \/ LeaveMux
  BY <1>4, LeaveFormStep
<1>5. CASE OpenHelp \/ CloseHelp \/ OpenAdd \/ OpenEdit \/ FormKey
  BY <1>5, HelpNames, AddNames, EditNames, KeyNamesStep
<1>6. CASE SaveForm \/ Delete
  BY <1>6, SaveNames, DeleteNames
<1>7. CASE UNCHANGED vars
  <2>1. UNCHANGED store /\ count' = count /\ life' = life /\ ui' = ui
    BY <1>7 DEF vars, store
  <2> QED BY <2>1, QuietStep DEF PInv
<1> QED BY <1>1, <1>2, <1>3, <1>4, <1>5, <1>6, <1>7 DEF Next

\* With every call to the keychain and the file answered, a password stored for a
\* bookmark stays under its name through renames, conversions, deletions, restarts and
\* sessions, and none is found by another bookmark (tui/mod.rs:1843-1868, 1925).  It is
\* so for lists that start with distinct names, none of them the name of a session:
\* the form keeps them distinct, a file edited by hand need not.
THEOREM PasswordsFollow ==
  ASSUME DistinctStart
  PROVE  Spec => []PasswordFollows
<1>1. Init => PInv
  BY InitPInv
<1>2. TInv /\ PInv /\ [Next]_vars => PInv'
  BY StepPInv DEF DistinctStart
<1>3. PInv => PasswordFollows
  <2> SUFFICES ASSUME PInv, life = "running", count.faults = 0,
                      NEW i \in DOMAIN cfg.bms
               PROVE  LET b == cfg.bms[i]
                      IN  /\ b.id \in gave \ wasGroup /\ b.id # TempId => kc[b.name] = b.id
                          /\ kc[b.name] \in {0, b.id} \cup wasGroup
    BY DEF PasswordFollows
  <2> DEFINE b == cfg.bms[i]
  <2>1. TempName \notin Names /\ Apart(cfg) /\ AllKnown(cfg, count.ids)
        /\ Kept(cfg, kc, gave, wasGroup)
    BY DEF DistinctStart, PInv
  <2>2. b.name \in KeyNames
    BY <2>1 DEF AllKnown, Known, KeyNames
  <2>3. \A j \in DOMAIN cfg.bms : cfg.bms[j].name = b.name => cfg.bms[j].id = b.id
    BY <2>1 DEF Apart, Differ, AllKnown, Known
  <2>4. kc[b.name] \in {0, b.id} \cup wasGroup
    BY <2>1, <2>2, <2>3 DEF Kept
  <2> QED BY <2>1, <2>4 DEF Kept
<1>4. Spec => []PInv
  BY <1>1, <1>2, InductiveInvariant, PTL DEF Spec
<1> QED BY <1>3, <1>4, PTL
=============================================================================
