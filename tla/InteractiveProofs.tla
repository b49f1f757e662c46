--------------------------- MODULE InteractiveProofs ---------------------------
(***************************************************************************)
(* Proofs about the two components a user types at: the file browser       *)
(* (Browser) and the session proxy (SessionProxy).                         *)
(*                                                                         *)
(* The browser, for every number of transfers, queries and entries: the    *)
(* screen is never behind when a key is read, a delete or rename dialog    *)
(* removes only what it listed where it listed it, and no worker's         *)
(* overwrite query is lost.  The proxy, for every password, prompt,        *)
(* keystroke and way of cutting the output into chunks: a captured         *)
(* password that was asked for again is never saved; and for all triggers  *)
(* of two keys with a common first one, as the default ones are: the       *)
(* cascade of trigger detectors keeps every key, in its place.             *)
(***************************************************************************)
EXTENDS Browser, SessionProxy, SequenceTheorems, WellFoundedInduction, TLAPS

\* The shapes of a pane and of a listed transfer.
IsPane(p) == DOMAIN p = {"cwd", "all", "entries", "selected", "marked"}
IsTransfer(t) ==
  /\ DOMAIN t = {"id", "side", "dir", "dst", "targets", "move", "cancel", "queue", "blocked", "done"}
  /\ t.id \in Nat \ {0} /\ t.queue \in Nat /\ t.blocked \in Nat
ArePanes(ps) == DOMAIN ps = Sides /\ \A s \in Sides : IsPane(ps[s])
IsList(q)    == q \in Seq({q[i] : i \in 1 .. Len(q)}) /\ \A i \in 1 .. Len(q) : IsTransfer(q[i])

\* The state is made of these.
Shape ==
  /\ pc \in {"poll", "keys"} /\ active \in Sides
  /\ ArePanes(panes) /\ IsList(bg) /\ started \in Nat /\ asking \in Nat
  /\ popupIndex \in Nat \ {0}
  /\ DOMAIN disk = Sides /\ \A s \in Sides : DOMAIN disk[s] = {"top", "sub"}

\* What changed since the last draw is drawn by the next round: a redraw is
\* asked for, or a transfer is listed and the loop draws anyway.
Drawn ==
  /\ pc = "keys" => ~stale
  /\ stale => redraw \/ bg # <<>>

\* A delete or rename dialog is open over the pane it was opened for.
OverItsPane ==
  mode.kind \in {"delete", "rename"} => mode.side = active /\ mode.dir = panes[active].cwd

\* Transfers are numbered in the order they start, and one that ended has
\* nobody waiting.
Numbered(q, n) ==
  /\ \A i \in 1 .. Len(q) : q[i].id <= n /\ (q[i].done # "run" => q[i].blocked = 0)
  /\ \A i, j \in 1 .. Len(q) : q[i].id = q[j].id => i = j

\* Whoever waits has its query in the channel, or is transfer a on the screen.
Waits(q, a) ==
  /\ a # 0 => \E i \in 1 .. Len(q) : q[i].id = a
  /\ \A i \in 1 .. Len(q) : q[i].blocked = q[i].queue + (IF q[i].id = a THEN 1 ELSE 0)
Asked == (mode.kind = "overwrite") <=> (asking # 0)

BInv == Shape /\ Drawn /\ OverItsPane /\ Numbered(bg, started) /\ Waits(bg, asking) /\ Asked

-----------------------------------------------------------------------------
(* Sequences and panes.                                                    *)

\* What is left when one element of a sequence is taken out.
LEMMA Removed ==
  ASSUME NEW S, NEW q \in Seq(S), NEW k \in 1 .. Len(q)
  PROVE  /\ RemoveAt(q, k) \in Seq(S) /\ Len(RemoveAt(q, k)) = Len(q) - 1
         /\ \A i \in 1 .. Len(q) - 1 : RemoveAt(q, k)[i] = q[IF i < k THEN i ELSE i + 1]
<1> DEFINE a == SubSeq(q, 1, k - 1)
           b == SubSeq(q, k + 1, Len(q))
<1>1. Len(q) \in Nat /\ k \in Nat /\ 1 <= k /\ k <= Len(q)
  OBVIOUS
<1>2. /\ a \in Seq(S) /\ Len(a) = k - 1
      /\ \A i \in 1 .. k - 1 : a[i] = q[i]
  BY <1>1, SubSeqProperties
<1>3. /\ b \in Seq(S) /\ Len(b) = Len(q) - k
      /\ \A i \in 1 .. Len(q) - k : b[i] = q[k + i]
  BY <1>1, SubSeqProperties
<1> HIDE DEF a, b
<1>4. /\ a \o b \in Seq(S) /\ Len(a \o b) = Len(q) - 1
      /\ \A i \in 1 .. Len(q) - 1 : (a \o b)[i] = IF i <= Len(a) THEN a[i] ELSE b[i - Len(a)]
  <2>1. Len(a) + Len(b) = Len(q) - 1
    BY <1>1, <1>2, <1>3
  <2>2. /\ a \o b \in Seq(S) /\ Len(a \o b) = Len(a) + Len(b)
        /\ \A i \in 1 .. Len(a) + Len(b) :
             (a \o b)[i] = IF i <= Len(a) THEN a[i] ELSE b[i - Len(a)]
    <3>1. a \in Seq(S) /\ b \in Seq(S)
      BY <1>2, <1>3
    <3> QED BY ONLY <3>1, ConcatProperties
  <2> QED BY ONLY <2>1, <2>2
<1>5. ASSUME NEW i \in 1 .. Len(q) - 1
      PROVE  (a \o b)[i] = q[IF i < k THEN i ELSE i + 1]
  <2>1. CASE i < k
    <3>1. i \in 1 .. k - 1
      BY <1>1, <2>1
    <3> QED BY <1>1, <1>2, <1>4, <2>1, <3>1
  <2>2. CASE ~(i < k)
    <3>1. i - (k - 1) \in 1 .. Len(q) - k /\ k + (i - (k - 1)) = i + 1
      BY <1>1, <2>2
    <3> QED BY <1>1, <1>2, <1>3, <1>4, <2>2, <3>1
  <2> QED BY <2>1, <2>2
<1>6. RemoveAt(q, k) = a \o b
  BY DEF RemoveAt, a, b
<1> QED BY <1>4, <1>5, <1>6

\* A non-empty set of places in a list has a first one.
LEMMA FirstOf ==
  ASSUME NEW n \in Nat, NEW A, A \subseteq 1 .. n, A # {}
  PROVE  \E i \in A : \A j \in A : i <= j
<1>1. PICK x \in A : \A y \in A : ~(<<y, x>> \in OpToRel(<, Nat))
  <2>1. A \subseteq Nat
    OBVIOUS
  <2> QED BY <2>1, NatLessThanWellFounded, WFMin
<1>2. ASSUME NEW y \in A
      PROVE  x <= y
  <2>1. x \in Nat /\ y \in Nat
    OBVIOUS
  <2>2. ~(<<y, x>> \in OpToRel(<, Nat))
    BY <1>1, Zenon
  <2>3. <<y, x>> \in Nat \X Nat
    BY <2>1
  <2>4. ~(y < x)
    BY <2>2, <2>3, Zenon DEF OpToRel
  <2> QED BY <2>1, <2>4
<1> QED BY <1>2

\* Refreshing a pane and filtering it keep its directory.
LEMMA RefreshKeeps ==
  ASSUME NEW p, IsPane(p), NEW s, NEW d, NEW o
  PROVE  IsPane(Refreshed(p, s, d, o)) /\ Refreshed(p, s, d, o).cwd = p.cwd
  BY DEF Refreshed, IsPane
LEMMA RefilterKeeps ==
  ASSUME NEW p, IsPane(p), NEW f
  PROVE  IsPane(Refiltered(p, f)) /\ Refiltered(p, f).cwd = p.cwd
  BY DEF Refiltered, IsPane

LEMMA BothKeep ==
  ASSUME NEW ps, ArePanes(ps), NEW d, NEW o
  PROVE  ArePanes(Both(ps, d, o)) /\ \A s \in Sides : Both(ps, d, o)[s].cwd = ps[s].cwd
  BY RefreshKeeps DEF Both, ArePanes

\* Going to a directory changes only the active pane.
LEMMA GoesKeeps ==
  ASSUME ArePanes(panes), active \in Sides, NEW dir, Goes(dir)
  PROVE  ArePanes(panes')
<1> DEFINE q == [Pane EXCEPT !.cwd = dir, !.selected = 1]
           p == Refreshed(q, active, disk, [opts EXCEPT !.filter = NoFilter])
<1>1. IsPane(q)
  BY DEF IsPane, ArePanes, Pane
<1>2. IsPane(p)
  BY <1>1, RefreshKeeps
<1>3. PICK n : SetPane(p) \/ SetPane([p EXCEPT !.selected = n])
  BY DEF Goes
<1> HIDE DEF p
<1>4. IsPane([p EXCEPT !.selected = n])
  BY <1>2 DEF IsPane
<1> QED BY <1>2, <1>3, <1>4 DEF ArePanes, SetPane, SetPanes

\* Putting a pane in the place of the active one.
LEMMA PanePut ==
  ASSUME ArePanes(panes), active \in Sides, NEW p, IsPane(p), SetPane(p)
  PROVE  ArePanes(panes')
  BY DEF ArePanes, SetPane, SetPanes

-----------------------------------------------------------------------------
(* Lists of transfers.                                                     *)

\* A function on 1 .. n is a sequence of its values.
LEMMA OfItsElements ==
  ASSUME NEW n \in Nat, NEW q, q = [i \in 1 .. n |-> q[i]]
  PROVE  Len(q) = n /\ q \in Seq({q[i] : i \in 1 .. Len(q)})
<1> DEFINE S == {q[i] : i \in 1 .. n}
<1>1. \A i \in 1 .. n : q[i] \in S
  OBVIOUS
<1> HIDE DEF S
<1>2. q \in [1 .. n -> S]
  BY <1>1
<1>3. q \in Seq(S) /\ Len(q) = n
  BY <1>2
<1> QED BY <1>3 DEF S

\* Changing the transfers in place.
LEMMA ChangedList ==
  ASSUME NEW l, IsList(l), NEW q, q = [i \in DOMAIN l |-> q[i]],
         \A i \in 1 .. Len(l) : IsTransfer(q[i])
  PROVE  IsList(q) /\ Len(q) = Len(l)
<1>1. Len(l) \in Nat /\ DOMAIN l = 1 .. Len(l)
  BY DEF IsList
<1>2. Len(q) = Len(l) /\ q \in Seq({q[i] : i \in 1 .. Len(q)})
  BY <1>1, OfItsElements
<1> QED BY <1>2 DEF IsList

\* A list that is not empty has a length.
LEMMA NotEmpty ==
  ASSUME NEW l, IsList(l), l # <<>>
  PROVE  Len(l) \in Nat \ {0}
  BY DEF IsList

\* Appending a transfer.
LEMMA GrownList ==
  ASSUME NEW l, IsList(l), NEW t, IsTransfer(t)
  PROVE  LET q == Append(l, t)
         IN /\ IsList(q) /\ Len(q) = Len(l) + 1 /\ q # <<>> /\ Len(l) \in Nat
            /\ q[Len(l) + 1] = t /\ \A i \in 1 .. Len(l) : q[i] = l[i]
<1> DEFINE q == Append(l, t)
           S == {l[i] : i \in 1 .. Len(l)}
<1>1. l \in Seq(S)
  BY DEF IsList
<1> HIDE DEF S
<1>2. l \in Seq(S \cup {t}) /\ t \in S \cup {t} /\ Len(l) \in Nat
  BY <1>1
<1>3. /\ q \in Seq(S \cup {t}) /\ Len(q) = Len(l) + 1
      /\ q[Len(l) + 1] = t /\ \A i \in 1 .. Len(l) : q[i] = l[i]
  BY <1>2
<1> HIDE DEF q
<1>4. q = [i \in 1 .. Len(l) + 1 |-> q[i]]
  BY <1>2, <1>3
<1>5. Len(l) + 1 \in Nat
  BY <1>2
<1>6. q \in Seq({q[i] : i \in 1 .. Len(q)})
  BY <1>4, <1>5, OfItsElements
<1>7. \A i \in 1 .. Len(q) : IsTransfer(q[i])
  BY <1>2, <1>3 DEF IsList
<1>8. q # <<>>
  BY <1>2, <1>3
<1> QED BY <1>2, <1>3, <1>6, <1>7, <1>8 DEF IsList, q

\* Taking one out; what is left kept its order.
LEMMA ShrunkList ==
  ASSUME NEW l, IsList(l), NEW k \in 1 .. Len(l)
  PROVE  LET q == RemoveAt(l, k)
         IN /\ IsList(q) /\ Len(q) = Len(l) - 1 /\ Len(l) \in Nat
            /\ \A i \in 1 .. Len(q) : q[i] = l[IF i < k THEN i ELSE i + 1]
<1> DEFINE q == RemoveAt(l, k)
           S == {l[i] : i \in 1 .. Len(l)}
<1>1. l \in Seq(S)
  BY DEF IsList
<1> HIDE DEF S
<1>2. /\ q \in Seq(S) /\ Len(q) = Len(l) - 1
      /\ \A i \in 1 .. Len(q) : q[i] = l[IF i < k THEN i ELSE i + 1]
  BY <1>1, Removed
<1> HIDE DEF q
<1>3. Len(l) \in Nat /\ Len(q) \in Nat
  BY <1>1, <1>2
<1>4. q = [i \in 1 .. Len(q) |-> q[i]]
  BY <1>2
<1>5. q \in Seq({q[i] : i \in 1 .. Len(q)})
  BY <1>3, <1>4, OfItsElements
<1>6. ASSUME NEW i \in 1 .. Len(q)
      PROVE  IsTransfer(q[i])
  <2>1. (IF i < k THEN i ELSE i + 1) \in 1 .. Len(l)
    BY <1>2, <1>3
  <2> QED BY <1>2, <2>1 DEF IsList
<1> QED BY <1>2, <1>3, <1>5, <1>6 DEF IsList, q

\* A worker that waits is on a transfer that still runs and, if no prompt is
\* open, has its query in the channel; so taking out a transfer nobody asks
\* about loses no query.
LEMMA ShrunkWaits ==
  ASSUME NEW l, IsList(l), NEW k \in 1 .. Len(l), NEW n, NEW a,
         Numbered(l, n), Waits(l, a), l[k].id # a
  PROVE  Numbered(RemoveAt(l, k), n) /\ Waits(RemoveAt(l, k), a)
<1> DEFINE q == RemoveAt(l, k)
           o(i) == IF i < k THEN i ELSE i + 1
<1>1. /\ IsList(q) /\ Len(q) = Len(l) - 1 /\ Len(l) \in Nat
      /\ \A i \in 1 .. Len(q) : q[i] = l[o(i)]
  BY ShrunkList
<1> HIDE DEF q
<1>2. /\ \A i \in 1 .. Len(q) : o(i) \in 1 .. Len(l)
      /\ \A i, j \in 1 .. Len(q) : o(i) = o(j) => i = j
      /\ \A m \in 1 .. Len(l) : m # k => \E i \in 1 .. Len(q) : o(i) = m
  <2>1. \A m \in 1 .. Len(l) : m < k => m \in 1 .. Len(q) /\ o(m) = m
    BY <1>1
  <2>2. \A m \in 1 .. Len(l) : m > k => m - 1 \in 1 .. Len(q) /\ o(m - 1) = m
    BY <1>1
  <2>3. \A m \in 1 .. Len(l) : m # k => \E i \in 1 .. Len(q) : o(i) = m
    <3>1. \A m \in 1 .. Len(l) : m # k => m < k \/ m > k
      BY <1>1
    <3> QED BY <2>1, <2>2, <3>1
  <2> QED BY <1>1, <2>3
<1> HIDE DEF o
<1>3. Numbered(q, n)
  <2>1. ASSUME NEW i \in 1 .. Len(q)
        PROVE  q[i].id <= n /\ (q[i].done # "run" => q[i].blocked = 0)
    <3>1. q[i] = l[o(i)] /\ o(i) \in 1 .. Len(l)
      BY <1>1, <1>2
    <3> QED BY <3>1 DEF Numbered
  <2>2. ASSUME NEW i \in 1 .. Len(q), NEW j \in 1 .. Len(q), q[i].id = q[j].id
        PROVE  i = j
    <3>1. q[i] = l[o(i)] /\ o(i) \in 1 .. Len(l) /\ q[j] = l[o(j)] /\ o(j) \in 1 .. Len(l)
      BY <1>1, <1>2
    <3>2. o(i) = o(j)
      BY <2>2, <3>1 DEF Numbered
    <3> QED BY <1>2, <3>2
  <2> QED BY <2>1, <2>2 DEF Numbered
<1>4. Waits(q, a)
  <2>1. a # 0 => \E i \in 1 .. Len(q) : q[i].id = a
    <3>1. SUFFICES ASSUME a # 0
                   PROVE  \E i \in 1 .. Len(q) : q[i].id = a
      OBVIOUS
    <3>2. PICK m \in 1 .. Len(l) : l[m].id = a
      BY <3>1 DEF Waits
    <3>3. PICK i \in 1 .. Len(q) : o(i) = m
      BY <1>2, <3>2
    <3> QED BY <1>1, <3>2, <3>3
  <2>2. ASSUME NEW i \in 1 .. Len(q)
        PROVE  q[i].blocked = q[i].queue + (IF q[i].id = a THEN 1 ELSE 0)
    <3>1. q[i] = l[o(i)] /\ o(i) \in 1 .. Len(l)
      BY <1>1, <1>2
    <3> QED BY <3>1 DEF Waits
  <2> QED BY <2>1, <2>2 DEF Waits
<1> QED BY <1>3, <1>4 DEF q

-----------------------------------------------------------------------------
(* The steps.                                                              *)

\* The disks still have their directories.
DisksStand == DOMAIN disk' = Sides /\ \A s \in Sides : DOMAIN disk'[s] = {"top", "sub"}

LEMMA InitInv == Init => BInv
<1> SUFFICES ASSUME Init PROVE BInv
  OBVIOUS
<1>1. /\ pc = "poll" /\ active = "left" /\ bg = <<>> /\ started = 0 /\ asking = 0
      /\ redraw = TRUE /\ mode.kind = "normal" /\ popupIndex = 1
      /\ disk = [s \in Sides |-> [top |-> IF s = "left" THEN LeftTop ELSE RightTop, sub |-> SubFiles]]
  BY DEF Init, Normal, Plain
<1>2. ArePanes(panes)
  BY DEF Init, ArePanes, IsPane
<1>3. IsList(bg) /\ Len(bg) = 0
  BY <1>1 DEF IsList
<1>4. DOMAIN disk = Sides /\ \A s \in Sides : DOMAIN disk[s] = {"top", "sub"}
  BY <1>1
<1>5. Shape
  BY <1>1, <1>2, <1>3, <1>4 DEF Shape, Sides
<1>6. Drawn /\ OverItsPane /\ Numbered(bg, started) /\ Waits(bg, asking) /\ Asked
  BY <1>1, <1>3 DEF Drawn, OverItsPane, Numbered, Waits, Asked
<1> QED BY <1>5, <1>6 DEF BInv

\* When run() returns, everything but the disks is dropped.
LEMMA DroppedStep ==
  ASSUME BInv, Dropped, bg' = <<>>, DisksStand
  PROVE  BInv'
<1>1. /\ pc' = "poll" /\ active' = "left" /\ started' = 0 /\ asking' = 0 /\ popupIndex' = 1
      /\ stale' = FALSE /\ mode'.kind = "normal" /\ panes' = [s \in Sides |-> NoPane]
  BY DEF Dropped, Normal, Plain
<1>2. ArePanes(panes')
  BY <1>1 DEF ArePanes, IsPane, NoPane
<1>3. IsList(bg') /\ Len(bg') = 0
  BY DEF IsList
<1>4. Shape'
  BY <1>1, <1>2, <1>3 DEF Shape, DisksStand, Sides
<1>5. Drawn' /\ OverItsPane' /\ Numbered(bg', started') /\ Waits(bg', asking') /\ Asked'
  BY <1>1, <1>3 DEF Drawn, OverItsPane, Numbered, Waits, Asked
<1> QED BY <1>4, <1>5 DEF BInv

\* A key outside the prompt that leaves the transfers alone.
LEMMA QuietKey ==
  ASSUME BInv, NEW k, Key(k), k # "overwrite", NoTransfers,
         active' \in Sides, ArePanes(panes'), DisksStand, mode'.kind # "overwrite", OverItsPane'
  PROVE  BInv'
<1>1. pc' = "poll" /\ redraw' = TRUE /\ mode.kind # "overwrite" /\ UNCHANGED <<bg, asking, started, popupIndex>>
  BY DEF Key, NoTransfers
<1>2. Shape'
  BY <1>1 DEF BInv, Shape, DisksStand
<1>3. Drawn'
  BY <1>1 DEF Drawn
<1>4. Numbered(bg', started') /\ Waits(bg', asking') /\ Asked'
  BY <1>1 DEF BInv, Asked
<1> QED BY <1>2, <1>3, <1>4 DEF BInv

\* The common case: the dialog is closed, or none was open and none opens.
LEMMA PlainKey ==
  ASSUME BInv, NEW k, Key(k), k # "overwrite", NoTransfers,
         active' \in Sides, ArePanes(panes'), DisksStand,
         mode'.kind \notin {"overwrite", "delete", "rename"}
  PROVE  BInv'
<1>1. OverItsPane'
  BY DEF OverItsPane
<1> QED BY <1>1, QuietKey

\* The keys of the normal mode.
LEMMA NormalKeyStep ==
  ASSUME BInv, NormalKey
  PROVE  BInv'
<1> USE DEF Sides
<1>0. /\ active \in Sides /\ ArePanes(panes) /\ IsPane(Pane)
      /\ UNCHANGED disk => DisksStand
      /\ Normal.kind = "normal" /\ \A k \in Kinds : Plain(k).kind = k
  BY DEF BInv, Shape, ArePanes, Pane, DisksStand, Normal, Plain
<1>1. CASE Quit
  BY <1>0, <1>1, DroppedStep DEF Quit
<1>2. CASE CancelKey
  <2>1. /\ pc' = "poll" /\ redraw' = TRUE /\ mode.kind = "normal" /\ bg' = CancelAll
        /\ UNCHANGED <<disk, panes, active, mode, asking, started, popupIndex>>
    BY <1>2 DEF CancelKey, Key
  <2>2. /\ Len(bg) \in Nat /\ DOMAIN bg = 1 .. Len(bg)
        /\ \A i \in 1 .. Len(bg) : IsTransfer(bg[i])
    BY DEF BInv, Shape, IsList
  <2>3. ASSUME NEW i \in 1 .. Len(bg)
        PROVE  /\ IsTransfer(bg'[i]) /\ bg'[i].id = bg[i].id /\ bg'[i].queue = bg[i].queue
               /\ bg'[i].blocked = bg[i].blocked /\ bg'[i].done = bg[i].done
    BY <2>1, <2>2 DEF CancelAll, IsTransfer
  <2>4. bg' = [i \in DOMAIN bg |-> bg'[i]]
    BY <2>1 DEF CancelAll
  <2>5. IsList(bg') /\ Len(bg') = Len(bg)
    BY <2>3, <2>4, ChangedList DEF BInv, Shape
  <2>6. Shape' /\ Drawn' /\ OverItsPane' /\ Asked'
    BY <2>1, <2>5 DEF BInv, Shape, Drawn, OverItsPane, Asked
  <2>7. Numbered(bg', started') /\ Waits(bg', asking')
    BY <2>1, <2>3, <2>5 DEF BInv, Numbered, Waits
  <2> QED BY <2>6, <2>7 DEF BInv
<1>3. CASE ClearFilter
  <2>1. Key("normal") /\ NoTransfers /\ UNCHANGED <<disk, active, mode>> /\ SetPane(Refiltered(Pane, NoFilter))
    BY <1>3 DEF ClearFilter
  <2>2. ArePanes(panes')
    BY <1>0, <2>1, PanePut, RefilterKeeps
  <2> QED BY <1>0, <2>1, <2>2, PlainKey DEF Key
<1>4. CASE ShowPopup
  <2>1. /\ pc' = "poll" /\ redraw' = TRUE /\ mode.kind = "normal" /\ mode'.kind = "popup"
        /\ UNCHANGED <<disk, panes, active, bg, asking, started>>
        /\ bg # <<>> /\ popupIndex' = Len(bg)
    BY <1>4 DEF ShowPopup, Key, Plain
  <2>2. popupIndex' \in Nat \ {0}
    BY <2>1, NotEmpty DEF BInv, Shape
  <2> QED BY <2>1, <2>2 DEF BInv, Shape, Drawn, OverItsPane, Asked
<1>5. CASE SwitchPane
  <2>1. /\ Key("normal") /\ NoTransfers /\ UNCHANGED <<disk, panes, mode>> /\ active' \in Sides
    BY <1>0, <1>5 DEF SwitchPane, Other
  <2> QED BY <1>0, <2>1, PlainKey DEF Key
<1>6. CASE MoveCursor
  <2>1. Key("normal") /\ NoTransfers /\ UNCHANGED <<disk, active, mode>>
    BY <1>6 DEF MoveCursor
  <2>2. PICK i : SetPane([Pane EXCEPT !.selected = i])
    BY <1>6 DEF MoveCursor
  <2>3. IsPane([Pane EXCEPT !.selected = i])
    BY <1>0 DEF IsPane
  <2>4. ArePanes(panes')
    BY <1>0, <2>2, <2>3, PanePut
  <2> QED BY <1>0, <2>1, <2>4, PlainKey DEF Key
<1>7. CASE ToggleMark
  <2>1. Key("normal") /\ NoTransfers /\ UNCHANGED <<disk, active, mode>>
    BY <1>7 DEF ToggleMark
  <2>2. PICK m, n : panes' = [panes EXCEPT ![active] = [@ EXCEPT !.marked = m, !.selected = n]]
    BY <1>7 DEF ToggleMark
  <2>3. ArePanes(panes')
    BY <1>0, <2>2 DEF ArePanes, IsPane
  <2> QED BY <1>0, <2>1, <2>3, PlainKey DEF Key
<1>8. CASE SortKey
  <2>1. Key("normal") /\ NoTransfers /\ UNCHANGED <<disk, active, mode>>
    BY <1>8 DEF SortKey
  <2>2. PICK e : panes' = [panes EXCEPT ![active].entries = e]
    BY <1>8 DEF SortKey
  <2>3. ArePanes(panes')
    BY <1>0, <2>2 DEF ArePanes, IsPane
  <2> QED BY <1>0, <2>1, <2>3, PlainKey DEF Key
<1>9. CASE RefreshKey
  <2>1. Key("normal") /\ NoTransfers /\ UNCHANGED <<disk, active, mode>>
    BY <1>9 DEF RefreshKey
  <2>2. PICK o : SetPanes(Both(panes, disk, o))
    BY <1>9 DEF RefreshKey
  <2>3. ArePanes(panes')
    BY <1>0, <2>2, BothKeep DEF SetPanes
  <2> QED BY <1>0, <2>1, <2>3, PlainKey DEF Key
<1>10. CASE EnterDir
  <2>1. Key("normal") /\ NoTransfers /\ UNCHANGED <<disk, active, mode>>
    BY <1>10 DEF EnterDir
  <2>2. PICK dir : Goes(dir)
    BY <1>10 DEF EnterDir
  <2>3. ArePanes(panes')
    BY <1>0, <2>2, GoesKeeps
  <2> QED BY <1>0, <2>1, <2>3, PlainKey DEF Key
<1>11. CASE ViewFile
  <2>1. Key("normal") /\ NoTransfers /\ UNCHANGED <<disk, panes, active, mode>>
    BY <1>11 DEF ViewFile
  <2> QED BY <1>0, <2>1, PlainKey DEF Key
<1>12. CASE OpenDialog
  <2>1. Key("normal") /\ NoTransfers /\ UNCHANGED <<disk, panes, active>>
    BY <1>12 DEF OpenDialog
  <2>2. \/ \E k \in {"mkdir", "select", "goto", "filter", "help"} : mode' = Plain(k)
        \/ \E k \in {"copy", "delete", "rename"} : \E t, move : mode' = Dialog(k, t, move)
    BY <1>12 DEF OpenDialog, Open
  <2>3. mode'.kind # "overwrite" /\ OverItsPane'
    <3>1. CASE \E k \in {"mkdir", "select", "goto", "filter", "help"} : mode' = Plain(k)
      BY <3>1 DEF Plain, OverItsPane
    <3>2. CASE \E k \in {"copy", "delete", "rename"} : \E t, move : mode' = Dialog(k, t, move)
      BY <2>1, <3>2 DEF Dialog, OverItsPane, Pane
    <3> QED BY <2>2, <3>1, <3>2
  <2> QED BY <1>0, <2>1, <2>3, QuietKey
<1> QED BY <1>1, <1>2, <1>3, <1>4, <1>5, <1>6, <1>7, <1>8, <1>9, <1>10, <1>11, <1>12 DEF NormalKey

\* start_copy_transfer() from a dialog: nothing started, or one more transfer
\* with a number of its own, on which nobody waits.
LEMMA StartCopyStep ==
  ASSUME BInv, NEW k, Key(k), k # "overwrite", NEW background, StartCopy(mode, background),
         UNCHANGED <<disk, active, asking>>
  PROVE  BInv'
<1>1. /\ pc' = "poll" /\ redraw' = TRUE /\ asking = 0 /\ asking' = 0
      /\ active \in Sides /\ ArePanes(panes) /\ IsList(bg) /\ started \in Nat /\ DisksStand
      /\ Numbered(bg, started) /\ Waits(bg, 0)
  BY DEF Key, BInv, Shape, Asked, DisksStand
<1>2. CASE mode' = Normal /\ UNCHANGED <<bg, started, popupIndex, panes>>
  <2>1. mode'.kind = "normal"
    BY <1>2 DEF Normal, Plain
  <2> QED BY <1>1, <1>2, <2>1 DEF BInv, Shape, DisksStand, Drawn, OverItsPane, Asked
<1>3. CASE /\ started' = started + 1
           /\ bg' = Append(bg, [id |-> started + 1, side |-> mode.side, dir |-> mode.dir, dst |-> mode.dst,
                                targets |-> mode.targets, move |-> mode.move, cancel |-> FALSE,
                                queue |-> 0, blocked |-> 0, done |-> "run"])
           /\ popupIndex' = Len(bg) + 1
           /\ SetPanes([panes EXCEPT ![mode.side].marked = {}])
           /\ mode' = IF background THEN Normal ELSE Plain("popup")
  <2> DEFINE t == [id |-> started + 1, side |-> mode.side, dir |-> mode.dir, dst |-> mode.dst,
                   targets |-> mode.targets, move |-> mode.move, cancel |-> FALSE,
                   queue |-> 0, blocked |-> 0, done |-> "run"]
  <2>1. IsTransfer(t) /\ t.id = started + 1 /\ t.queue = 0 /\ t.blocked = 0
    BY <1>1 DEF IsTransfer
  <2>2. bg' = Append(bg, t)
    BY <1>3
  <2> HIDE DEF t
  <2>3. /\ IsList(bg') /\ Len(bg') = Len(bg) + 1 /\ bg' # <<>> /\ Len(bg) \in Nat
        /\ bg'[Len(bg) + 1] = t /\ \A i \in 1 .. Len(bg) : bg'[i] = bg[i]
    BY <1>1, <2>1, <2>2, GrownList
  <2>4. \A i \in 1 .. Len(bg') : i \in 1 .. Len(bg) \/ i = Len(bg) + 1
    BY <2>3
  <2>5. mode'.kind \in {"normal", "popup"}
    BY <1>3 DEF Normal, Plain
  <2>6. ArePanes(panes')
    BY <1>1, <1>3 DEF ArePanes, IsPane, SetPanes
  <2>7. Shape' /\ Drawn' /\ OverItsPane' /\ Asked'
    BY <1>1, <1>3, <2>3, <2>5, <2>6 DEF Shape, DisksStand, Drawn, OverItsPane, Asked
  <2>8. Numbered(bg', started')
    <3>1. \A i \in 1 .. Len(bg) : bg[i].id \in Nat /\ bg[i].id <= started
      BY <1>1 DEF Numbered, IsList, IsTransfer
    <3>2. ASSUME NEW i \in 1 .. Len(bg')
          PROVE  bg'[i].id <= started' /\ (bg'[i].done # "run" => bg'[i].blocked = 0)
      BY <1>1, <1>3, <2>1, <2>3, <2>4, <3>1 DEF Numbered
    <3>3. ASSUME NEW i \in 1 .. Len(bg'), NEW j \in 1 .. Len(bg'), bg'[i].id = bg'[j].id
          PROVE  i = j
      <4>1. CASE i \in 1 .. Len(bg) /\ j \in 1 .. Len(bg)
        BY <1>1, <2>3, <3>3, <4>1 DEF Numbered
      <4>2. CASE i \in 1 .. Len(bg) /\ j = Len(bg) + 1
        BY <1>1, <2>1, <2>3, <3>1, <3>3, <4>2
      <4>3. CASE i = Len(bg) + 1 /\ j \in 1 .. Len(bg)
        BY <1>1, <2>1, <2>3, <3>1, <3>3, <4>3
      <4> QED BY <2>4, <4>1, <4>2, <4>3
    <3> QED BY <3>2, <3>3 DEF Numbered
  <2>9. Waits(bg', asking')
    BY <1>1, <2>1, <2>3, <2>4 DEF Waits
  <2> QED BY <2>7, <2>8, <2>9 DEF BInv
<1> QED BY <1>2, <1>3 DEF StartCopy

\* Esc in the progress popup: no prompt is open, so the transfer that leaves
\* the list is not the one that asked.
LEMMA PopupCancelStep ==
  ASSUME BInv, PopupCancel
  PROVE  BInv'
<1>1. /\ pc' = "poll" /\ redraw' = TRUE /\ mode.kind = "popup" /\ bg # <<>> /\ bg' = RemoveAt(bg, PopupAt)
      /\ mode' = (IF bg' = <<>> THEN Normal ELSE mode)
      /\ popupIndex' = (IF popupIndex > Len(bg') /\ bg' # <<>> THEN Len(bg') ELSE popupIndex)
      /\ UNCHANGED <<active, asking, started>>
  BY DEF PopupCancel, Key
<1>2. PICK d, e : disk' = d /\ SetPanes(Both(panes, d, opts)) /\ d = [disk EXCEPT ![Other(bg[PopupAt].side)][bg[PopupAt].dst] = e]
  BY DEF PopupCancel
<1>3. asking = 0 /\ IsList(bg) /\ Numbered(bg, started) /\ Waits(bg, 0) /\ ArePanes(panes)
  BY <1>1 DEF BInv, Shape, Asked
<1>4. DisksStand /\ ArePanes(panes')
  <2>1. ArePanes(Both(panes, d, opts))
    BY <1>3, BothKeep
  <2> QED BY <1>2, <2>1 DEF DisksStand, SetPanes, BInv, Shape
<1>5. PopupAt \in 1 .. Len(bg)
  BY <1>1, <1>3, NotEmpty DEF PopupAt, Least, BInv, Shape
<1>6. bg[PopupAt].id # 0
  BY <1>3, <1>5 DEF IsList, IsTransfer
<1>7. IsList(bg') /\ Numbered(bg', started') /\ Waits(bg', asking')
  BY <1>1, <1>3, <1>5, <1>6, ShrunkList, ShrunkWaits
<1>8. mode'.kind \in {"normal", "popup"}
  BY <1>1 DEF Normal, Plain
<1>9. popupIndex' \in Nat \ {0}
  BY <1>1, <1>7, NotEmpty DEF BInv, Shape
<1>10. Shape' /\ Drawn' /\ OverItsPane' /\ Asked'
  BY <1>1, <1>3, <1>4, <1>7, <1>8, <1>9 DEF BInv, Shape, DisksStand, Drawn, OverItsPane, Asked
<1> QED BY <1>7, <1>10 DEF BInv

\* Answering n of the queries of a transfer, and all that are in its channel.
LEMMA AnsweredKeeps ==
  ASSUME NEW t, IsTransfer(t), NEW n \in Nat, n <= t.blocked
  PROVE  LET u == Answered(t, n)
         IN /\ IsTransfer(u) /\ u.id = t.id /\ u.queue = t.queue /\ u.done = t.done
            /\ u.blocked = t.blocked - n
  BY DEF IsTransfer, Answered
LEMMA DrainedKeeps ==
  ASSUME NEW t, IsTransfer(t), t.queue <= t.blocked
  PROVE  LET u == Drained(t)
         IN /\ IsTransfer(u) /\ u.id = t.id /\ u.queue = 0 /\ u.done = t.done
            /\ u.blocked = t.blocked - t.queue
  BY DEF IsTransfer, Answered, Drained

\* Changing transfers in place, numbers and all: who has nobody waiting still
\* has nobody waiting.
LEMMA ChangedNumbers ==
  ASSUME NEW l, NEW q, NEW n, Len(q) = Len(l), Numbered(l, n),
         \A i \in 1 .. Len(l) : q[i].id = l[i].id /\ (q[i].done # "run" => q[i].blocked = 0)
  PROVE  Numbered(q, n)
  BY DEF Numbered

\* Answering the query on the screen, and by an "all" answer every other one.
LEMMA OverwriteStep ==
  ASSUME BInv, Overwrite
  PROVE  BInv'
<1>1. /\ pc' = "poll" /\ redraw' = TRUE /\ mode.kind = "overwrite" /\ asking # 0 /\ asking' = 0
      /\ UNCHANGED <<disk, panes, active, popupIndex, started>>
      /\ mode'.kind \in {"popup", "normal"}
  <2>1. /\ Key("overwrite") /\ asking' = 0 /\ mode' \in {Plain("popup"), Normal}
        /\ UNCHANGED <<disk, panes, active, popupIndex, started>>
    BY DEF Overwrite
  <2>2. mode'.kind \in {"popup", "normal"}
    BY <2>1 DEF Normal, Plain
  <2> QED BY <2>1, <2>2 DEF Key, BInv, Asked
<1>2. /\ IsList(bg) /\ Len(bg) \in Nat /\ DOMAIN bg = 1 .. Len(bg)
      /\ Numbered(bg, started) /\ Waits(bg, asking)
  BY DEF BInv, Shape, IsList
<1>3. ASSUME NEW i \in 1 .. Len(bg)
      PROVE  /\ IsTransfer(bg[i])
             /\ bg[i].blocked = bg[i].queue + (IF bg[i].id = asking THEN 1 ELSE 0)
             /\ bg[i].done # "run" => bg[i].blocked = 0
  BY <1>2 DEF IsList, Waits, Numbered
<1>4. /\ bg' = [i \in DOMAIN bg |-> bg'[i]]
      /\ \A i \in 1 .. Len(bg) :
           /\ IsTransfer(bg'[i]) /\ bg'[i].id = bg[i].id /\ bg'[i].blocked = bg'[i].queue
           /\ bg'[i].done # "run" => bg'[i].blocked = 0
  <2>1. CASE bg' = AnswerOne([i \in DOMAIN bg |-> Drained(bg[i])])
    <3> DEFINE l == [i \in DOMAIN bg |-> Drained(bg[i])]
    <3>1. bg' = [i \in DOMAIN bg |-> IF l[i].id = asking THEN Answered(l[i], 1) ELSE l[i]]
      BY <2>1 DEF AnswerOne
    <3>2. ASSUME NEW i \in 1 .. Len(bg)
          PROVE  /\ IsTransfer(bg'[i]) /\ bg'[i].id = bg[i].id /\ bg'[i].blocked = bg'[i].queue
                 /\ bg'[i].done # "run" => bg'[i].blocked = 0
      <4>1. bg[i].queue <= bg[i].blocked
        BY <1>3 DEF IsTransfer
      <4>2. /\ IsTransfer(l[i]) /\ l[i].id = bg[i].id /\ l[i].queue = 0 /\ l[i].done = bg[i].done
            /\ l[i].blocked = bg[i].blocked - bg[i].queue
        BY <1>2, <1>3, <4>1, DrainedKeeps
      <4> HIDE DEF l
      <4>3. CASE bg[i].id = asking
        <5>1. l[i].blocked = 1
          BY <1>3, <4>2, <4>3 DEF IsTransfer
        <5> QED BY <1>2, <1>3, <3>1, <4>2, <4>3, <5>1, AnsweredKeeps
      <4>4. CASE bg[i].id # asking
        <5>1. l[i].blocked = 0
          BY <1>3, <4>2, <4>4 DEF IsTransfer
        <5> QED BY <1>2, <1>3, <3>1, <4>2, <4>4, <5>1
      <4> QED BY <4>3, <4>4
    <3> QED BY <3>1, <3>2
  <2>2. CASE bg' = AnswerOne(bg)
    <3>1. bg' = [i \in DOMAIN bg |-> IF bg[i].id = asking THEN Answered(bg[i], 1) ELSE bg[i]]
      BY <2>2 DEF AnswerOne
    <3>2. ASSUME NEW i \in 1 .. Len(bg)
          PROVE  /\ IsTransfer(bg'[i]) /\ bg'[i].id = bg[i].id /\ bg'[i].blocked = bg'[i].queue
                 /\ bg'[i].done # "run" => bg'[i].blocked = 0
      <4>1. CASE bg[i].id = asking
        <5> DEFINE u == Answered(bg[i], 1)
        <5>1. bg[i].blocked = bg[i].queue + 1 /\ 1 <= bg[i].blocked /\ bg[i].queue \in Nat
          BY <1>3, <4>1 DEF IsTransfer
        <5>2. bg'[i] = u
          BY <1>2, <3>1, <4>1
        <5>3. /\ IsTransfer(u) /\ u.id = bg[i].id /\ u.queue = bg[i].queue /\ u.done = bg[i].done
              /\ u.blocked = bg[i].blocked - 1
          BY <1>3, <5>1, AnsweredKeeps
        <5> HIDE DEF u
        <5>4. u.blocked = u.queue /\ bg[i].done = "run"
          BY <1>3, <5>1, <5>3
        <5> QED BY <5>2, <5>3, <5>4
      <4>2. CASE bg[i].id # asking
        BY <1>2, <1>3, <3>1, <4>2 DEF IsTransfer
      <4> QED BY <4>1, <4>2
    <3> QED BY <3>1, <3>2
  <2>3. CASE bg' = [i \in DOMAIN bg |-> IF bg[i].id = asking
                                        THEN [Answered(bg[i], 1) EXCEPT !.cancel = TRUE] ELSE bg[i]]
    <3>1. ASSUME NEW i \in 1 .. Len(bg)
          PROVE  /\ IsTransfer(bg'[i]) /\ bg'[i].id = bg[i].id /\ bg'[i].blocked = bg'[i].queue
                 /\ bg'[i].done # "run" => bg'[i].blocked = 0
      <4>1. CASE bg[i].id = asking
        <5> DEFINE u == Answered(bg[i], 1)
        <5>1. bg[i].blocked = bg[i].queue + 1 /\ 1 <= bg[i].blocked /\ bg[i].queue \in Nat
          BY <1>3, <4>1 DEF IsTransfer
        <5>2. bg'[i] = [u EXCEPT !.cancel = TRUE]
          BY <1>2, <2>3, <4>1
        <5>3. /\ IsTransfer(u) /\ u.id = bg[i].id /\ u.queue = bg[i].queue /\ u.done = bg[i].done
              /\ u.blocked = bg[i].blocked - 1
          BY <1>3, <5>1, AnsweredKeeps
        <5> HIDE DEF u
        <5>4. u.blocked = u.queue /\ bg[i].done = "run"
          BY <1>3, <5>1, <5>3
        <5>5. /\ IsTransfer(bg'[i]) /\ bg'[i].id = u.id /\ bg'[i].queue = u.queue
              /\ bg'[i].done = u.done /\ bg'[i].blocked = u.blocked
          BY <5>2, <5>3 DEF IsTransfer
        <5> QED BY <5>3, <5>4, <5>5
      <4>2. CASE bg[i].id # asking
        BY <1>2, <1>3, <2>3, <4>2 DEF IsTransfer
      <4> QED BY <4>1, <4>2
    <3> QED BY <2>3, <3>1
  <2> QED BY <2>1, <2>2, <2>3 DEF Overwrite
<1>5. IsList(bg') /\ Len(bg') = Len(bg)
  BY <1>2, <1>4, ChangedList
<1>6. Numbered(bg', started')
  BY <1>1, <1>2, <1>4, <1>5, ChangedNumbers
<1>7. Waits(bg', asking')
  <2>1. ASSUME NEW i \in 1 .. Len(bg')
        PROVE  bg'[i].blocked = bg'[i].queue + (IF bg'[i].id = 0 THEN 1 ELSE 0)
    <3>1. bg'[i].id # 0 /\ bg'[i].queue \in Nat /\ bg'[i].blocked = bg'[i].queue
      BY <1>4, <1>5 DEF IsTransfer
    <3> QED BY <3>1
  <2> QED BY <1>1, <2>1 DEF Waits
<1>8. Shape' /\ Drawn' /\ OverItsPane' /\ Asked'
  BY <1>1, <1>5 DEF BInv, Shape, Drawn, OverItsPane, Asked
<1> QED BY <1>6, <1>7, <1>8 DEF BInv

\* The dialogs that close, or stay as they are, and start nothing.
LEMMA OtherDialogStep ==
  ASSUME BInv,
         \/ CloseHelp \/ DismissResult \/ PopupHide \/ DeleteDialog \/ MkdirDialog
         \/ RenameDialog \/ GotoDialog \/ SelectDialog \/ FilterDialog \/ EscDialog
  PROVE  BInv'
<1>0. /\ active \in Sides /\ ArePanes(panes) /\ IsPane(Pane)
      /\ DOMAIN disk = Sides /\ \A s \in Sides : DOMAIN disk[s] = {"top", "sub"}
  BY DEF BInv, Shape, ArePanes, Pane
<1>1. /\ \E k \in {"help", "complete", "retry", "popup", "delete", "mkdir", "rename", "goto",
                   "select", "filter"} : Key(k)
      /\ NoTransfers /\ UNCHANGED active
  BY DEF CloseHelp, DismissResult, PopupHide, DeleteDialog, MkdirDialog, RenameDialog,
         GotoDialog, SelectDialog, FilterDialog, EscDialog
<1>2. mode' = Normal \/ (mode' = mode /\ mode.kind = "filter")
  BY DEF CloseHelp, DismissResult, PopupHide, DeleteDialog, MkdirDialog, RenameDialog,
         GotoDialog, SelectDialog, FilterDialog, EscDialog, Close, Key
<1>3. mode'.kind \notin {"overwrite", "delete", "rename"}
  BY <1>2 DEF Normal, Plain
<1>4. UNCHANGED disk \/ \E x, e : disk' = [disk EXCEPT ![active][x] = e]
  <2>1. CASE CloseHelp \/ DismissResult \/ PopupHide \/ GotoDialog \/ SelectDialog \/ FilterDialog \/ EscDialog
    BY <2>1 DEF CloseHelp, DismissResult, PopupHide, GotoDialog, SelectDialog, FilterDialog, EscDialog
  <2>2. CASE DeleteDialog
    BY <2>2 DEF DeleteDialog
  <2>3. CASE MkdirDialog
    BY <2>3 DEF MkdirDialog
  <2>4. CASE RenameDialog
    BY <2>4 DEF RenameDialog
  <2> QED BY <2>1, <2>2, <2>3, <2>4
<1>5. DisksStand
  BY <1>0, <1>4 DEF DisksStand
<1>6. ArePanes(panes')
  <2>1. CASE CloseHelp \/ EscDialog
    BY <1>0, <2>1 DEF CloseHelp, EscDialog
  <2>2. CASE DismissResult \/ PopupHide
    BY <1>0, <2>2, BothKeep DEF DismissResult, PopupHide, SetPanes
  <2>3. CASE DeleteDialog \/ MkdirDialog \/ RenameDialog
    <3>1. UNCHANGED panes \/ \E d : SetPane(Refreshed(Pane, active, d, opts))
      BY <2>3 DEF DeleteDialog, MkdirDialog, RenameDialog
    <3> QED BY <1>0, <3>1, PanePut, RefreshKeeps
  <2>4. CASE GotoDialog
    <3>1. UNCHANGED panes \/ \E dir : Goes(dir)
      BY <2>4 DEF GotoDialog
    <3> QED BY <1>0, <3>1, GoesKeeps
  <2>5. CASE SelectDialog
    <3>1. UNCHANGED panes \/ \E m : panes' = [panes EXCEPT ![active].marked = m]
      BY <2>5 DEF SelectDialog
    <3> QED BY <1>0, <3>1 DEF ArePanes, IsPane
  <2>6. CASE FilterDialog
    <3>1. UNCHANGED panes \/ \E f : SetPane(Refiltered(Pane, f))
      BY <2>6 DEF FilterDialog
    <3> QED BY <1>0, <3>1, PanePut, RefilterKeeps
  <2> QED BY <2>1, <2>2, <2>3, <2>4, <2>5, <2>6
<1>7. PICK k \in {"help", "complete", "retry", "popup", "delete", "mkdir", "rename", "goto",
                  "select", "filter"} : Key(k)
  BY <1>1
<1> QED BY <1>0, <1>1, <1>3, <1>5, <1>6, <1>7, PlainKey

\* All dialogs.
LEMMA DialogKeyStep ==
  ASSUME BInv, DialogKey
  PROVE  BInv'
<1>1. CASE MoveFocus
  <2>1. pc' = "poll" /\ redraw' = TRUE /\ UNCHANGED <<disk, panes, active, mode, bg, asking, started, popupIndex>>
    BY <1>1 DEF MoveFocus, Key, NoTransfers
  <2> QED BY <2>1 DEF BInv, Shape, Drawn, OverItsPane, Asked
<1>2. CASE Retry
  BY <1>2, StartCopyStep DEF Retry
<1>3. CASE PopupNext
  <2>1. /\ pc' = "poll" /\ redraw' = TRUE /\ UNCHANGED <<disk, panes, active, mode, bg, asking, started>>
        /\ popupIndex' = (popupIndex % Len(bg)) + 1 /\ Len(bg) > 1
    BY <1>3 DEF PopupNext, Key
  <2>2. popupIndex' \in Nat \ {0}
    <3>1. Len(bg) \in Nat
      BY DEF BInv, Shape, IsList
    <3>2. popupIndex \in Nat
      BY DEF BInv, Shape
    <3>3. popupIndex % Len(bg) \in Nat
      BY <2>1, <3>1, <3>2
    <3> QED BY <2>1, <3>3
  <2> QED BY <2>1, <2>2 DEF BInv, Shape, Drawn, OverItsPane, Asked
<1>4. CASE PopupCancel
  BY <1>4, PopupCancelStep
<1>5. CASE Overwrite
  BY <1>5, OverwriteStep
<1>6. CASE CopyDialog
  <2>1. Key("copy") /\ UNCHANGED <<disk, active, asking>>
    BY <1>6 DEF CopyDialog
  <2>2. CASE \E b \in BOOLEAN : StartCopy(mode, b)
    BY <2>1, <2>2, StartCopyStep
  <2>3. CASE Close /\ UNCHANGED <<bg, started, popupIndex, panes>>
    <3>1. mode'.kind = "normal"
      BY <2>3 DEF Close, Normal, Plain
    <3>2. pc' = "poll" /\ redraw' = TRUE /\ mode.kind = "copy"
      BY <2>1 DEF Key
    <3> QED BY <2>1, <2>3, <3>1, <3>2 DEF BInv, Shape, Drawn, OverItsPane, Asked
  <2> QED BY <1>6, <2>2, <2>3 DEF CopyDialog
<1>7. CASE DeleteFails
  <2>1. \E x, e : disk' = [disk EXCEPT ![active][x] = e]
    BY <1>7 DEF DeleteFails
  <2>2. DisksStand
    BY <2>1 DEF DisksStand, BInv, Shape
  <2> QED BY <1>7, <2>2, DroppedStep DEF DeleteFails
<1> QED BY <1>1, <1>2, <1>3, <1>4, <1>5, <1>6, <1>7, OtherDialogStep DEF DialogKey

\* A worker asks: one more waits, with its query in the channel.
LEMMA AsksStep ==
  ASSUME BInv, NEW k, Asks(k)
  PROVE  BInv'
<1>1. /\ k \in DOMAIN bg /\ bg[k].done = "run"
      /\ bg' = [bg EXCEPT ![k].queue = @ + 1, ![k].blocked = @ + 1]
      /\ UNCHANGED <<disk, panes, active, mode, popupIndex, asking, started, pc, redraw, stale>>
  BY DEF Asks, Frozen
<1>2. /\ IsList(bg) /\ Len(bg) \in Nat \ {0} /\ DOMAIN bg = 1 .. Len(bg)
      /\ Numbered(bg, started) /\ Waits(bg, asking)
  <2>1. IsList(bg) /\ Len(bg) \in Nat /\ DOMAIN bg = 1 .. Len(bg)
    BY DEF BInv, Shape, IsList
  <2> QED BY <1>1, <2>1 DEF BInv
<1>3. ASSUME NEW i \in 1 .. Len(bg)
      PROVE  /\ IsTransfer(bg'[i]) /\ bg'[i].id = bg[i].id /\ bg'[i].done = bg[i].done
             /\ i # k => bg'[i] = bg[i]
             /\ i = k => bg'[i].queue = bg[i].queue + 1 /\ bg'[i].blocked = bg[i].blocked + 1
  <2>1. IsTransfer(bg[i])
    BY <1>2 DEF IsList
  <2>2. CASE i # k
    BY <1>1, <1>2, <2>1, <2>2
  <2>3. CASE i = k
    <3>1. bg'[k] = [bg[k] EXCEPT !.queue = @ + 1, !.blocked = @ + 1]
      BY <1>1, <1>2
    <3> QED BY <2>1, <2>3, <3>1 DEF IsTransfer
  <2> QED BY <2>2, <2>3
<1>4. bg' = [i \in DOMAIN bg |-> bg'[i]]
  BY <1>1, <1>2
<1>5. IsList(bg') /\ Len(bg') = Len(bg)
  BY <1>2, <1>3, <1>4, ChangedList
<1>6. Numbered(bg', started')
  BY <1>1, <1>2, <1>3, <1>5 DEF Numbered
<1>7. Waits(bg', asking')
  <2>1. ASSUME NEW i \in 1 .. Len(bg')
        PROVE  bg'[i].blocked = bg'[i].queue + (IF bg'[i].id = asking THEN 1 ELSE 0)
    <3>1. bg[i].blocked = bg[i].queue + (IF bg[i].id = asking THEN 1 ELSE 0) /\ bg[i].queue \in Nat
      BY <1>2, <1>5 DEF Waits, IsList, IsTransfer
    <3> QED BY <1>3, <1>5, <3>1
  <2>2. asking # 0 => \E i \in 1 .. Len(bg') : bg'[i].id = asking
    BY <1>2, <1>3, <1>5 DEF Waits
  <2> QED BY <1>1, <2>1, <2>2 DEF Waits
<1>8. bg' # <<>>
  BY <1>2, <1>5
<1>9. Shape' /\ Drawn' /\ OverItsPane' /\ Asked'
  BY <1>1, <1>5, <1>8 DEF BInv, Shape, Drawn, OverItsPane, Asked
<1> QED BY <1>6, <1>7, <1>9 DEF BInv

\* A transfer ends when nobody of it waits.
LEMMA EndsStep ==
  ASSUME BInv, NEW k, Ends(k)
  PROVE  BInv'
<1>1. PICK got \in SUBSET bg[k].targets, outcome \in {"ok", "error"} :
        /\ bg' = [bg EXCEPT ![k].done = outcome]
        /\ disk' = [disk EXCEPT ![Other(bg[k].side)][bg[k].dst] = @ \cup got,
                                ![bg[k].side][bg[k].dir] = IF bg[k].move THEN @ \ (got \ {SubDir}) ELSE @]
  BY DEF Ends
<1>2. /\ k \in DOMAIN bg /\ bg[k].blocked = 0
      /\ UNCHANGED <<panes, active, mode, popupIndex, asking, started, pc, redraw, stale>>
  BY DEF Ends, Frozen
<1>3. /\ IsList(bg) /\ Len(bg) \in Nat \ {0} /\ DOMAIN bg = 1 .. Len(bg)
      /\ Numbered(bg, started) /\ Waits(bg, asking)
  <2>1. IsList(bg) /\ Len(bg) \in Nat /\ DOMAIN bg = 1 .. Len(bg)
    BY DEF BInv, Shape, IsList
  <2> QED BY <1>2, <2>1 DEF BInv
<1>4. ASSUME NEW i \in 1 .. Len(bg)
      PROVE  /\ IsTransfer(bg'[i]) /\ bg'[i].id = bg[i].id /\ bg'[i].queue = bg[i].queue
             /\ bg'[i].blocked = bg[i].blocked
             /\ bg'[i].done # "run" => bg'[i].blocked = 0
  <2>1. IsTransfer(bg[i]) /\ (bg[i].done # "run" => bg[i].blocked = 0)
    BY <1>3 DEF IsList, Numbered
  <2>2. CASE i # k
    BY <1>1, <1>3, <2>1, <2>2
  <2>3. CASE i = k
    <3>1. bg'[k] = [bg[k] EXCEPT !.done = outcome]
      BY <1>1, <1>2
    <3> QED BY <1>2, <2>1, <2>3, <3>1 DEF IsTransfer
  <2> QED BY <2>2, <2>3
<1>5. bg' = [i \in DOMAIN bg |-> bg'[i]]
  BY <1>1, <1>3
<1>6. IsList(bg') /\ Len(bg') = Len(bg) /\ bg' # <<>>
  <2>1. IsList(bg') /\ Len(bg') = Len(bg)
    BY <1>3, <1>4, <1>5, ChangedList
  <2> QED BY <1>3, <2>1
<1>7. Numbered(bg', started')
  BY <1>2, <1>3, <1>4, <1>6, ChangedNumbers
<1>8. Waits(bg', asking')
  BY <1>2, <1>3, <1>4, <1>6 DEF Waits
<1>9. DisksStand
  BY <1>1 DEF DisksStand, BInv, Shape
<1>10. Shape' /\ Drawn' /\ OverItsPane' /\ Asked'
  BY <1>2, <1>6, <1>9 DEF BInv, Shape, DisksStand, Drawn, OverItsPane, Asked
<1> QED BY <1>7, <1>8, <1>10 DEF BInv

\* The local pane is listed again.
LEMMA AutoRefreshStep ==
  ASSUME BInv, AutoRefresh
  PROVE  BInv'
<1>1. /\ redraw' = TRUE /\ pc = "poll" /\ panes' = [panes EXCEPT !["left"] = Refreshed(@, "left", disk, opts)]
      /\ UNCHANGED <<disk, active, mode, popupIndex, bg, asking, started, pc>>
  BY DEF AutoRefresh, Round, SetPanes
<1>2. ArePanes(panes') /\ \A s \in Sides : panes'[s].cwd = panes[s].cwd
  <2>1. ArePanes(panes) /\ \A s \in Sides : IsPane(panes[s])
    BY DEF BInv, Shape, ArePanes
  <2>2. IsPane(Refreshed(panes["left"], "left", disk, opts))
        /\ Refreshed(panes["left"], "left", disk, opts).cwd = panes["left"].cwd
    BY <2>1, RefreshKeeps DEF Sides
  <2> QED BY <1>1, <2>1, <2>2 DEF ArePanes
<1> QED BY <1>1, <1>2 DEF BInv, Shape, Drawn, OverItsPane, Asked

\* A transfer that ended leaves the list: nobody of it waits, so no prompt is its.
LEMMA CollectStep ==
  ASSUME BInv, Collect
  PROVE  BInv'
<1>1. /\ pc = "poll" /\ bg' = RemoveAt(bg, FirstDone)
      /\ redraw' = Completion(bg[FirstDone], bg')
      /\ popupIndex' = (IF popupIndex > Len(bg') /\ bg' # <<>> THEN Len(bg') ELSE popupIndex)
      /\ UNCHANGED <<active, asking, started, pc>>
      /\ \E i \in DOMAIN bg : bg[i].done # "run"
  BY DEF Collect, Round
<1>2. mode' = mode \/ (mode.kind = "popup" /\ mode' = ResultMode(bg[FirstDone]))
  BY DEF Collect, Open
<1>3. \E seen, d : SetPanes([s \in Sides |-> IF s \in seen THEN Refreshed(panes[s], s, d, opts) ELSE panes[s]])
  BY DEF Collect
<1>4. UNCHANGED disk \/ \E x, y, e : disk' = [disk EXCEPT ![x][y] = e]
  BY DEF Collect
<1>5. IsList(bg) /\ DOMAIN bg = 1 .. Len(bg) /\ Len(bg) \in Nat /\ Numbered(bg, started) /\ Waits(bg, asking)
  BY DEF BInv, Shape, IsList
<1>6. FirstDone \in 1 .. Len(bg) /\ bg[FirstDone].done # "run"
  <2> DEFINE A == {i \in 1 .. Len(bg) : bg[i].done # "run"}
  <2>1. \E i \in A : \A j \in A : i <= j
    BY <1>1, <1>5, FirstOf
  <2>2. \E i \in DOMAIN bg : bg[i].done # "run" /\ \A j \in DOMAIN bg : bg[j].done # "run" => i <= j
    BY <1>5, <2>1
  <2> QED BY <1>5, <2>2 DEF FirstDone
<1>7. bg[FirstDone].id # asking
  <2>1. /\ IsTransfer(bg[FirstDone]) /\ bg[FirstDone].blocked = 0
        /\ bg[FirstDone].blocked = bg[FirstDone].queue + (IF bg[FirstDone].id = asking THEN 1 ELSE 0)
    BY <1>5, <1>6 DEF IsList, Numbered, Waits
  <2> QED BY <2>1 DEF IsTransfer
<1>8. IsList(bg') /\ Numbered(bg', started') /\ Waits(bg', asking')
  BY <1>1, <1>5, <1>6, <1>7, ShrunkList, ShrunkWaits
<1>9. popupIndex' \in Nat \ {0}
  BY <1>1, <1>8, NotEmpty DEF BInv, Shape
<1>10. ArePanes(panes') /\ \A s \in Sides : panes'[s].cwd = panes[s].cwd
  <2>1. ArePanes(panes) /\ \A s \in Sides : IsPane(panes[s])
    BY DEF BInv, Shape, ArePanes
  <2>2. PICK seen, d : panes' = [s \in Sides |-> IF s \in seen THEN Refreshed(panes[s], s, d, opts) ELSE panes[s]]
    BY <1>3 DEF SetPanes
  <2>3. ASSUME NEW s \in Sides
        PROVE  IsPane(panes'[s]) /\ panes'[s].cwd = panes[s].cwd
    <3>1. CASE s \in seen
      BY <2>1, <2>2, <3>1, RefreshKeeps
    <3>2. CASE s \notin seen
      BY <2>1, <2>2, <3>2
    <3> QED BY <3>1, <3>2
  <2> QED BY <2>2, <2>3 DEF ArePanes
<1>11. DisksStand
  BY <1>4 DEF DisksStand, BInv, Shape
<1>12. Shape' /\ Drawn'
  BY <1>1, <1>8, <1>9, <1>10, <1>11 DEF BInv, Shape, DisksStand, Drawn, Completion
<1>13. OverItsPane' /\ Asked'
  <2>1. CASE mode' = mode
    BY <1>1, <1>10, <2>1 DEF BInv, Shape, OverItsPane, Asked
  <2>2. CASE mode.kind = "popup" /\ mode' = ResultMode(bg[FirstDone])
    <3>1. mode'.kind \in {"retry", "complete"}
      BY <2>2 DEF ResultMode
    <3> QED BY <1>1, <2>2, <3>1 DEF BInv, OverItsPane, Asked
  <2> QED BY <1>2, <2>1, <2>2
<1> QED BY <1>8, <1>12, <1>13 DEF BInv

\* Queries are answered by the policy up to the first that needs the user; that
\* one is put on the screen, and everything that changed is drawn.
LEMMA AskAndDrawStep ==
  ASSUME BInv, AskAndDraw
  PROVE  BInv'
<1>1. /\ pc' = "keys" /\ redraw' = FALSE /\ stale' = (~(redraw \/ bg # <<>>) /\ stale)
      /\ UNCHANGED <<disk, panes, active, popupIndex, started>>
      /\ \A i \in DOMAIN bg : bg[i].done = "run"
  BY DEF AskAndDraw
<1>2. ~stale'
  BY <1>1 DEF BInv, Drawn
<1>3. IsList(bg) /\ DOMAIN bg = 1 .. Len(bg) /\ Len(bg) \in Nat /\ Numbered(bg, started) /\ Waits(bg, asking)
  BY DEF BInv, Shape, IsList
<1>4. CASE mode.kind = "overwrite"
  <2>1. UNCHANGED <<bg, asking, mode>>
    BY <1>4 DEF AskAndDraw, MayAsk
  <2> QED BY <1>1, <1>2, <2>1 DEF BInv, Shape, Drawn, OverItsPane, Asked
<1>5. CASE mode.kind # "overwrite"
  <2> DEFINE open  == {i \in DOMAIN bg : ~bg[i].cancel /\ policy = 0 /\ bg[i].queue > 0}
             first == CHOOSE i \in open : \A j \in open : i <= j
             upTo  == IF open = {} THEN Len(bg) ELSE first - 1
  <2>1. /\ bg' = [i \in DOMAIN bg |-> IF i <= upTo THEN Drained(bg[i])
                                      ELSE IF i = upTo + 1 THEN [bg[i] EXCEPT !.queue = @ - 1]
                                      ELSE bg[i]]
        /\ open = {} => UNCHANGED <<asking, mode>>
        /\ open # {} => asking' = bg[first].id /\ mode' = Plain("overwrite")
    BY <1>5 DEF AskAndDraw, MayAsk, Open
  <2>2. asking = 0
    BY <1>5 DEF BInv, Asked
  <2>3. ASSUME NEW i \in 1 .. Len(bg)
        PROVE  IsTransfer(bg[i]) /\ bg[i].blocked = bg[i].queue
    <3>1. IsTransfer(bg[i]) /\ bg[i].blocked = bg[i].queue + (IF bg[i].id = 0 THEN 1 ELSE 0)
      BY <1>3, <2>2 DEF IsList, Waits
    <3> QED BY <3>1 DEF IsTransfer
  <2>4. open # {} => first \in open
    <3>1. open \subseteq 1 .. Len(bg)
      BY <1>3
    <3> HIDE DEF open
    <3>2. open # {} => \E i \in open : \A j \in open : i <= j
      BY <1>3, <3>1, FirstOf
    <3> QED BY <3>2
  <2>5. open # {} => first \in 1 .. Len(bg) /\ bg[first].queue > 0
    BY <1>3, <2>4
  <2> HIDE DEF open, first
  <2>6. ASSUME NEW i \in 1 .. Len(bg)
        PROVE  /\ IsTransfer(bg'[i]) /\ bg'[i].id = bg[i].id /\ bg'[i].done = bg[i].done
               /\ bg'[i].blocked = bg'[i].queue + (IF open # {} /\ i = first THEN 1 ELSE 0)
    <3>1. CASE i <= upTo
      <4>1. bg'[i] = Drained(bg[i])
        BY <1>3, <2>1, <3>1
      <4>2. ~(open # {} /\ i = first)
        BY <2>5, <3>1
      <4>3. bg[i].queue <= bg[i].blocked /\ bg[i].blocked - bg[i].queue = 0
        BY <2>3 DEF IsTransfer
      <4>4. /\ IsTransfer(bg'[i]) /\ bg'[i].id = bg[i].id /\ bg'[i].queue = 0
            /\ bg'[i].done = bg[i].done /\ bg'[i].blocked = bg[i].blocked - bg[i].queue
        BY <2>3, <4>1, <4>3, DrainedKeeps
      <4> QED BY <4>2, <4>3, <4>4
    <3>2. CASE i = upTo + 1
      <4>1. open # {} /\ i = first
        BY <1>3, <2>5, <3>2
      <4>2. ~(i <= upTo)
        BY <2>5, <4>1
      <4>3. bg'[i] = [bg[i] EXCEPT !.queue = @ - 1]
        BY <1>3, <2>1, <3>2, <4>2
      <4>4. bg[i].queue - 1 \in Nat /\ bg[i].blocked = (bg[i].queue - 1) + 1
        BY <2>3, <2>5, <4>1 DEF IsTransfer
      <4> QED BY <2>3, <4>1, <4>3, <4>4 DEF IsTransfer
    <3>3. CASE ~(i <= upTo) /\ i # upTo + 1
      <4>1. bg'[i] = bg[i]
        BY <1>3, <2>1, <3>3
      <4>2. ~(open # {} /\ i = first)
        BY <2>5, <3>3
      <4> QED BY <2>3, <4>1, <4>2 DEF IsTransfer
    <3> QED BY <3>1, <3>2, <3>3
  <2>7. bg' = [i \in DOMAIN bg |-> bg'[i]]
    BY <2>1
  <2>8. IsList(bg') /\ Len(bg') = Len(bg)
    BY <1>3, <2>6, <2>7, ChangedList
  <2>9. Numbered(bg', started')
    BY <1>1, <1>3, <2>6, <2>8 DEF Numbered
  <2>10. CASE open = {}
    <3>1. Waits(bg', asking')
      <4>1. ASSUME NEW i \in 1 .. Len(bg')
            PROVE  bg'[i].blocked = bg'[i].queue + (IF bg'[i].id = 0 THEN 1 ELSE 0)
        <5>1. bg'[i].id # 0 /\ bg'[i].blocked = bg'[i].queue + 0
          BY <2>6, <2>8, <2>10 DEF IsTransfer
        <5> QED BY <5>1
      <4> QED BY <2>1, <2>2, <2>10, <4>1 DEF Waits
    <3> QED BY <1>1, <1>2, <2>1, <2>8, <2>9, <2>10, <3>1 DEF BInv, Shape, Drawn, OverItsPane, Asked
  <2>11. CASE open # {}
    <3>1. bg'[first].id = asking' /\ first \in 1 .. Len(bg') /\ asking' \in Nat \ {0}
      <4>1. first \in 1 .. Len(bg) /\ first \in 1 .. Len(bg') /\ asking' = bg[first].id
        BY <2>1, <2>5, <2>8, <2>11
      <4>2. bg'[first].id = bg[first].id /\ IsTransfer(bg'[first])
        BY <2>6, <4>1
      <4>3. bg'[first].id \in Nat \ {0}
        BY <4>2 DEF IsTransfer
      <4> QED BY <4>1, <4>2, <4>3
    <3>2. ASSUME NEW i \in 1 .. Len(bg')
          PROVE  (bg'[i].id = asking') <=> (i = first)
      BY <2>9, <3>1 DEF Numbered
    <3>3. Waits(bg', asking')
      BY <2>6, <2>8, <2>11, <3>1, <3>2 DEF Waits
    <3>4. mode'.kind = "overwrite"
      BY <2>1, <2>11 DEF Plain
    <3> QED BY <1>1, <1>2, <2>8, <2>9, <3>1, <3>3, <3>4 DEF BInv, Shape, Drawn, OverItsPane, Asked
  <2> QED BY <2>10, <2>11
<1> QED BY <1>4, <1>5

\* All steps together.
LEMMA StepInv ==
  ASSUME BInv, [Next]_vars
  PROVE  BInv'
<1>1. CASE NormalKey
  BY <1>1, NormalKeyStep
<1>2. CASE DialogKey
  BY <1>2, DialogKeyStep
<1>3. CASE Fails
  <2>1. DisksStand
    BY <1>3 DEF Fails, DisksStand, BInv, Shape
  <2> QED BY <1>3, <2>1, DroppedStep DEF Fails
<1>4. CASE \E i \in 1 .. MaxTransfers : Asks(i) \/ Ends(i)
  BY <1>4, AsksStep, EndsStep
<1>5. CASE AutoRefresh
  BY <1>5, AutoRefreshStep
<1>6. CASE Collect
  BY <1>6, CollectStep
<1>7. CASE AskAndDraw
  BY <1>7, AskAndDrawStep
<1>8. CASE Timeout
  <2>1. /\ pc = "keys" /\ pc' = "poll"
        /\ UNCHANGED <<disk, panes, active, mode, popupIndex, bg, asking, started, redraw, stale>>
    BY <1>8 DEF Timeout
  <2> QED BY <2>1 DEF BInv, Shape, Drawn, OverItsPane, Asked
<1>9. CASE Over \/ UNCHANGED vars
  <2>1. UNCHANGED vars
    BY <1>9 DEF Over
  <2> QED BY <2>1 DEF vars, BInv, Shape, Drawn, OverItsPane, Asked
<1> QED BY <1>1, <1>2, <1>3, <1>4, <1>5, <1>6, <1>7, <1>8, <1>9 DEF Next

\* The inductive invariant of the browser: what the list of transfers, the prompt
\* and the redraw flag of the loop have to do with each other.
THEOREM InductiveInvariant == Spec => []BInv
<1>1. BInv /\ [Next]_vars => BInv'
  BY StepInv
<1> QED BY InitInv, <1>1, PTL DEF Spec

\* For every number of transfers and workers: each worker that waits for an
\* overwrite answer has its query in its channel or on the screen, and the prompt
\* on the screen is of a listed transfer (overwrite_response_tx and the query receivers of the main loop).
THEOREM QueriesAreKept == Spec => []NoQueryLost
<1>1. BInv => NoQueryLost
  <2> SUFFICES ASSUME BInv PROVE NoQueryLost
    OBVIOUS
  <2>1. DOMAIN bg = 1 .. Len(bg)
    BY DEF BInv, Shape, IsList
  <2> QED BY <2>1 DEF BInv, Waits, Asked, NoQueryLost
<1> QED BY <1>1, InductiveInvariant, PTL

\* A key is only read with the screen up to date: needs_redraw is set by every
\* change, or a transfer is listed and each round draws.
THEOREM ScreenIsCurrent == Spec => []KeysSeeTheScreen
<1>1. BInv => KeysSeeTheScreen
  BY DEF BInv, Drawn, KeysSeeTheScreen
<1> QED BY <1>1, InductiveInvariant, PTL

\* What a step of the loop, waiting for a key, takes out of a directory.
RemovedAsListed(s, d) ==
  pc = "keys" /\ disk'[s][d] # disk[s][d] /\ ~(disk[s][d] \subseteq disk'[s][d])
    => \/ /\ mode.kind \in {"delete", "rename"} /\ s = mode.side /\ d = mode.dir
          /\ disk[s][d] \ disk'[s][d] \subseteq mode.targets
       \/ \E i \in DOMAIN bg : i \in DOMAIN bg' /\ bg'[i].done # bg[i].done

\* The confirmed dialogs take out targets of theirs, under the pane they are over.
LEMMA DialogRemoves ==
  ASSUME BInv, DeleteDialog \/ DeleteFails \/ RenameDialog, NEW s \in Sides, NEW d \in {"top", "sub"}
  PROVE  RemovedAsListed(s, d)
<1>1. mode.kind \in {"delete", "rename"} /\ mode.side = active /\ mode.dir = Pane.cwd
  BY DEF DeleteDialog, DeleteFails, RenameDialog, Key, BInv, OverItsPane, Pane
<1>2. DOMAIN disk = Sides /\ \A x \in Sides : DOMAIN disk[x] = {"top", "sub"}
  BY DEF BInv, Shape
<1>3. UNCHANGED disk \/ \E gone, new : gone \subseteq mode.targets
                                       /\ disk' = [disk EXCEPT ![active][Pane.cwd] = (@ \ gone) \cup new]
  <2>1. CASE DeleteDialog
    <3>1. UNCHANGED disk \/ disk' = [disk EXCEPT ![active][Pane.cwd] = @ \ mode.targets]
      BY <2>1 DEF DeleteDialog, DeleteTargets
    <3>2. CASE disk' = [disk EXCEPT ![active][Pane.cwd] = @ \ mode.targets]
      <4>1. disk' = [disk EXCEPT ![active][Pane.cwd] = (@ \ mode.targets) \cup {}]
        BY <3>2
      <4> QED BY <4>1
    <3> QED BY <3>1, <3>2
  <2>2. CASE DeleteFails
    <3>1. PICK gone \in SUBSET mode.targets : disk' = [disk EXCEPT ![active][Pane.cwd] = @ \ gone]
      BY <2>2 DEF DeleteFails, DeleteTargets
    <3>2. disk' = [disk EXCEPT ![active][Pane.cwd] = (@ \ gone) \cup {}]
      BY <3>1
    <3> QED BY <3>2
  <2>3. CASE RenameDialog
    <3>1. UNCHANGED disk \/ \E n : disk' = [disk EXCEPT ![active][Pane.cwd] = (@ \ mode.targets) \cup {n}]
      BY <2>3 DEF RenameDialog
    <3> QED BY <3>1
  <2> QED BY <2>1, <2>2, <2>3
<1>4. CASE UNCHANGED disk
  BY <1>4 DEF RemovedAsListed
<1>5. CASE ~UNCHANGED disk
  <2>1. PICK gone, new : gone \subseteq mode.targets
                         /\ disk' = [disk EXCEPT ![active][Pane.cwd] = (@ \ gone) \cup new]
    BY <1>3, <1>5
  <2>2. CASE s = active /\ d = Pane.cwd
    <3>1. disk'[s][d] = (disk[s][d] \ gone) \cup new
      BY <1>2, <2>1, <2>2
    <3> QED BY <1>1, <2>1, <2>2, <3>1 DEF RemovedAsListed
  <2>3. CASE ~(s = active /\ d = Pane.cwd)
    <3>1. disk'[s][d] = disk[s][d]
      BY <1>2, <2>1, <2>3
    <3> QED BY <3>1 DEF RemovedAsListed
  <2> QED BY <2>2, <2>3
<1> QED BY <1>4, <1>5

\* Cancelling a transfer in the popup and making a directory only add; a transfer
\* that ends is the other one that may remove (a move takes its source away).
LEMMA StepRemoves ==
  ASSUME BInv, Next, NEW s \in Sides, NEW d \in {"top", "sub"}
  PROVE  RemovedAsListed(s, d)
<1>0. DOMAIN disk = Sides /\ \A x \in Sides : DOMAIN disk[x] = {"top", "sub"}
  BY DEF BInv, Shape
<1>1. CASE UNCHANGED disk
  BY <1>1 DEF RemovedAsListed
<1>2. CASE pc # "keys"
  BY <1>2 DEF RemovedAsListed
<1>3. CASE \E x, y, e : disk' = [disk EXCEPT ![x][y] = @ \cup e]
  <2>1. disk[s][d] \subseteq disk'[s][d]
    BY <1>0, <1>3
  <2> QED BY <2>1 DEF RemovedAsListed
<1>4. CASE NormalKey
  <2>1. UNCHANGED disk
    BY <1>4 DEF NormalKey, Quit, CancelKey, ClearFilter, ShowPopup, SwitchPane, MoveCursor,
                ToggleMark, SortKey, RefreshKey, EnterDir, ViewFile, OpenDialog
  <2> QED BY <1>1, <2>1
<1>5. CASE DialogKey
  <2>1. CASE DeleteDialog \/ DeleteFails \/ RenameDialog
    BY <2>1, DialogRemoves
  <2>2. CASE PopupCancel
    <3>1. PICK got : disk' = [disk EXCEPT ![Other(bg[PopupAt].side)][bg[PopupAt].dst] = @ \cup got]
      BY <2>2 DEF PopupCancel
    <3> QED BY <1>3, <3>1
  <2>3. CASE MkdirDialog
    <3>1. UNCHANGED disk \/ disk' = [disk EXCEPT ![active]["top"] = @ \cup {SubDir}]
      BY <2>3 DEF MkdirDialog
    <3> QED BY <1>1, <1>3, <3>1
  <2>4. CASE \/ MoveFocus \/ CloseHelp \/ DismissResult \/ Retry \/ PopupNext \/ PopupHide
             \/ Overwrite \/ CopyDialog \/ GotoDialog \/ SelectDialog \/ FilterDialog \/ EscDialog
    <3>1. UNCHANGED disk
      BY <2>4 DEF MoveFocus, CloseHelp, DismissResult, Retry, PopupNext, PopupHide, Overwrite,
                  CopyDialog, GotoDialog, SelectDialog, FilterDialog, EscDialog
    <3> QED BY <1>1, <3>1
  <2> QED BY <1>5, <2>1, <2>2, <2>3, <2>4 DEF DialogKey
<1>6. CASE Fails \/ AskAndDraw \/ Timeout \/ Over \/ AutoRefresh
  <2>1. UNCHANGED disk
    BY <1>6 DEF Fails, AskAndDraw, Timeout, Over, vars, AutoRefresh
  <2> QED BY <1>1, <2>1
<1>7. CASE Collect
  BY <1>2, <1>7 DEF Collect, Round
<1>8. CASE \E i \in 1 .. MaxTransfers : Asks(i)
  BY <1>1, <1>8 DEF Asks
<1>9. CASE \E i \in 1 .. MaxTransfers : Ends(i)
  <2>1. PICK i : Ends(i)
    BY <1>9
  <2>2. PICK outcome \in {"ok", "error"} : bg' = [bg EXCEPT ![i].done = outcome]
    BY <2>1 DEF Ends
  <2>3. i \in DOMAIN bg /\ bg[i].done = "run" /\ IsTransfer(bg[i])
    BY <2>1 DEF Ends, BInv, Shape, IsList
  <2>4. bg'[i] = [bg[i] EXCEPT !.done = outcome] /\ i \in DOMAIN bg'
    BY <2>2, <2>3
  <2>5. bg'[i].done = outcome
    BY <2>3, <2>4 DEF IsTransfer
  <2> QED BY <2>3, <2>4, <2>5 DEF RemovedAsListed
<1> QED BY <1>4, <1>5, <1>6, <1>7, <1>8, <1>9 DEF Next

\* For every listing and whatever was refreshed between opening the dialog and
\* confirming it: a key removes only entries its dialog listed, on the side and in the
\* directory it listed them (ConfirmDelete and RenamePrompt of handle_input_mode).
THEOREM OnlyListedIsRemoved == Spec => RemovesOnlyListed
<1>1. BInv /\ [Next]_vars =>
        [\A s \in Sides, d \in {"top", "sub"} : RemovedAsListed(s, d)]_vars
  BY StepRemoves
<1>2. BInv /\ [Next]_vars =>
        [\A s \in Sides, d \in {"top", "sub"} :
           pc = "keys" /\ disk'[s][d] # disk[s][d] /\ ~(disk[s][d] \subseteq disk'[s][d])
             => \/ /\ mode.kind \in {"delete", "rename"} /\ s = mode.side /\ d = mode.dir
                   /\ disk[s][d] \ disk'[s][d] \subseteq mode.targets
                \/ \E i \in DOMAIN bg : i \in DOMAIN bg' /\ bg'[i].done # bg[i].done]_vars
  BY <1>1 DEF RemovedAsListed
<1> QED BY InductiveInvariant, <1>2, PTL DEF Spec, RemovesOnlyListed

-----------------------------------------------------------------------------
(* The session proxy.                                                      *)

\* A captured password that waits to be saved was not asked for again.
SessionInv ==
  /\ reprompted \in BOOLEAN
  /\ pending # None => ~reprompted

\* What a step may write to the keychain.
SavesAccepted == kc' # kc /\ kc' # None => ~reprompted

\* Steps that touch neither the captured password nor the keychain.
SessionIdle == UNCHANGED <<pending, reprompted, kc>>

\* Initially no password waits to be saved.
LEMMA SessionBegins == SessionInit => SessionInv
  BY DEF SessionInit, SessionInv

\* They keep the invariant, and save nothing.
LEMMA SessionIdleStep ==
  ASSUME SessionInv, SessionIdle
  PROVE  SessionInv' /\ SavesAccepted
  BY DEF SessionInv, SessionIdle, SavesAccepted

\* The timer and the end of the session save a password nobody asked for again.
LEMMA SaveStep ==
  ASSUME SessionInv, pending # None, SavePending, reprompted' = reprompted
  PROVE  SessionInv' /\ SavesAccepted
  BY DEF SessionInv, SavePending, SavesAccepted

\* Output: another sudo prompt drops the pending password in the step that notes it.
LEMMA DataStep ==
  ASSUME SessionInv, ChannelData
  PROVE  SessionInv' /\ SavesAccepted
<1>1. PICK n \in 1..Len(remote.out) :
        LET t == FeedDetector(tail, SubSeq(remote.out, 1, n))
        IN IF awaiting \/ capturing # None
           THEN UNCHANGED assist
           ELSE /\ IF pending # None
                   THEN Rejected(t) \/ StillPending(t)
                   ELSE \/ Detected(t) /\ (StoredRejected(t) \/ OfferAutofill(t) \/ StartCapture(t))
                        \/ ~Detected(t) /\ PlainOutput(t)
                /\ reprompted' = (reprompted \/ (pending # None /\ t = "sudo"))
  BY DEF ChannelData
<1> DEFINE t == FeedDetector(tail, SubSeq(remote.out, 1, n))
<1>2. CASE awaiting \/ capturing # None
  <2>1. SessionIdle
    BY <1>1, <1>2 DEF assist, SessionIdle
  <2> QED BY <2>1, SessionIdleStep
<1>3. CASE ~(awaiting \/ capturing # None) /\ pending # None
  <2>1. /\ Rejected(t) \/ StillPending(t)
        /\ reprompted' = (reprompted \/ t = "sudo")
    BY <1>1, <1>3
  <2> HIDE DEF t
  <2>2. CASE Rejected(t)
    BY <2>1, <2>2 DEF Rejected, SessionInv, SavesAccepted
  <2>3. CASE StillPending(t)
    BY <2>1, <2>3 DEF StillPending, SessionInv, SavesAccepted
  <2> QED BY <2>1, <2>2, <2>3
<1>4. CASE ~(awaiting \/ capturing # None) /\ pending = None
  <2>1. /\ StoredRejected(t) \/ OfferAutofill(t) \/ StartCapture(t) \/ PlainOutput(t)
        /\ reprompted' = reprompted
    BY <1>1, <1>4 DEF SessionInv
  <2> HIDE DEF t
  <2>2. pending' = pending /\ (kc' = kc \/ kc' = None)
    BY <2>1 DEF StoredRejected, OfferAutofill, StartCapture, PlainOutput
  <2> QED BY <2>1, <2>2 DEF SessionInv, SavesAccepted
<1> QED BY <1>2, <1>3, <1>4

\* Keys: only the Enter that ends a capture makes a password pending, and it is new.
LEMMA KeysStep ==
  ASSUME SessionInv, StdinData
  PROVE  SessionInv' /\ SavesAccepted
<1>1. CASE ConfirmKey(Head(queue))
  BY <1>1, SessionIdleStep DEF ConfirmKey, SessionIdle
<1>2. CASE CaptureKeys(Head(queue))
  <2>1. kc' = kc /\ (UNCHANGED <<pending, reprompted>> \/ reprompted' = FALSE)
    BY <1>2 DEF CaptureKeys
  <2>2. CASE UNCHANGED <<pending, reprompted>>
    BY <2>1, <2>2, SessionIdleStep DEF SessionIdle
  <2>3. CASE reprompted' = FALSE
    BY <2>1, <2>3 DEF SessionInv, SavesAccepted
  <2> QED BY <2>1, <2>2, <2>3
<1>3. CASE PendingKeys(Head(queue))
  BY <1>3, SessionIdleStep DEF PendingKeys, SessionIdle, assist
<1>4. CASE UNCHANGED assist
  BY <1>4, SessionIdleStep DEF SessionIdle, assist
<1> QED BY <1>1, <1>2, <1>3, <1>4 DEF StdinData

\* All steps together.
LEMMA SessionStep ==
  ASSUME SessionInv, [SessionNext]_sessionVars
  PROVE  SessionInv' /\ SavesAccepted
<1>1. CASE Reader
  <2>1. SessionIdle
    BY <1>1 DEF Reader, ReadStdin, SendChunk, ReaderWoken, StdinEnds, ReaderLeaves, assist, SessionIdle
  <2> QED BY <2>1, SessionIdleStep
<1>2. CASE Remote
  <2>1. SessionIdle
    BY <1>2 DEF Remote, RemoteAsks, RemoteReads, RemoteEnds, assist, SessionIdle
  <2> QED BY <2>1, SessionIdleStep
<1>3. CASE Main
  <2>1. CASE TimerFires
    BY <2>1, SaveStep DEF TimerFires
  <2>2. CASE ChannelData
    BY <2>2, DataStep
  <2>3. CASE StdinData
    BY <2>3, KeysStep
  <2>4. CASE ChannelEnds \/ StdinClosed \/ DropReceiver \/ JoinReader \/ BrowserReturns
    <3>1. SessionIdle
      BY <2>4 DEF ChannelEnds, StdinClosed, DropReceiver, JoinReader, BrowserReturns, assist, SessionIdle
    <3> QED BY <3>1, SessionIdleStep
  <2>5. CASE FeedByte
    <3>1. UNCHANGED assist
      BY <2>5 DEF FeedByte
    <3> QED BY <3>1, SessionIdleStep DEF assist, SessionIdle
  <2>6. CASE ChunkDone \/ PickerKey \/ FormKey
    <3>1. UNCHANGED assist
      BY <2>6 DEF ChunkDone, PickerKey, FormKey
    <3> QED BY <3>1, SessionIdleStep DEF assist, SessionIdle
  <2>7. CASE EndOrBrowse
    <3>1. CASE pending # None
      BY <2>7, <3>1, SaveStep DEF EndOrBrowse
    <3>2. CASE pending = None
      BY <2>7, <3>2, SessionIdleStep DEF EndOrBrowse, SessionIdle
    <3> QED BY <3>1, <3>2
  <2> QED BY <1>3, <2>1, <2>2, <2>3, <2>4, <2>5, <2>6, <2>7 DEF Main
<1>4. CASE Ended \/ UNCHANGED sessionVars
  <2>1. SessionIdle
    BY <1>4 DEF Ended, sessionVars, assist, SessionIdle
  <2> QED BY <2>1, SessionIdleStep
<1> QED BY <1>1, <1>2, <1>3, <1>4 DEF SessionNext

\* In every reachable state a password that waits to be saved is one the remote has not
\* asked for again since it was typed (pending_save_pw of the proxy loop).
THEOREM SessionInvariant == SessionSpec => []SessionInv
<1>1. SessionInv /\ [SessionNext]_sessionVars => SessionInv'
  BY SessionStep
<1> QED BY SessionBegins, <1>1, PTL DEF SessionSpec

\* A captured password that another sudo prompt rejected before it was saved never
\* reaches the keychain: neither the grace timer nor the end of the session saves it.
THEOREM RejectedIsNeverSaved == SessionSpec => RejectedNeverSaved
<1>1. SessionInv /\ [SessionNext]_sessionVars => [kc' # kc /\ kc' # None => ~reprompted]_sessionVars
  BY SessionStep DEF SavesAccepted
<1> QED BY SessionInvariant, <1>1, PTL DEF SessionSpec, RejectedNeverSaved

-----------------------------------------------------------------------------
(* The trigger cascade.                                                    *)

\* A flushed run has one byte or two.  Pass is one turn of Cascade's fold.
Pass(acc, trigger, b) ==
  IF acc.act = "trigger" THEN acc
  ELSE LET r == FeedUntimed(acc.n, trigger, b)
       IN  Res(r.n, IF r.act = "trigger" THEN "trigger" ELSE "forward", acc.bytes \o r.bytes)

\* One turn for a run of one byte (feed_untimed() in feed_with_time(), snippet.rs).
LEMMA CascadeOne ==
  ASSUME NEW n, NEW T, NEW c
  PROVE  Cascade(n, T, <<c>>) = Pass(Res(n, "forward", <<>>), T, c)
<1> DEFINE base == Res(n, "forward", <<>>)
           S == {1}
           Iter(g) == g = [s \in SUBSET S |->
                         IF s = {} THEN base
                         ELSE LET x == Max(s) IN Pass(g[s \ {x}], T, <<c>>[x])]
           iter == CHOOSE g : Iter(g)
           end == Pass(base, T, c)
<1>1. Cascade(n, T, <<c>>) = iter[S]
  <2>1. DOMAIN <<c>> = {1}
    OBVIOUS
  <2> QED BY <2>1 DEF Cascade, FoldLeft, MapThenFoldSet, Pass
<1>2. Max({1}) = 1
  BY DEF Max
<1>3. /\ \A s \in SUBSET S : s = {} \/ s = {1}
      /\ {} \in SUBSET S /\ {1} \in SUBSET S /\ {1} \ {1} = {} /\ <<c>>[1] = c
  OBVIOUS
<1> HIDE DEF base, end, S
<1>4. \E g : Iter(g)
  <2> DEFINE w == [s \in SUBSET S |-> IF s = {} THEN base ELSE end]
  <2>1. w[{}] = base
    BY <1>3
  <2>2. \A s \in SUBSET S :
          w[s] = IF s = {} THEN base ELSE LET x == Max(s) IN Pass(w[s \ {x}], T, <<c>>[x])
    BY <1>2, <1>3, <2>1 DEF end
  <2>3. w = [s \in SUBSET S |->
              IF s = {} THEN base ELSE LET x == Max(s) IN Pass(w[s \ {x}], T, <<c>>[x])]
    <3>1. w = [s \in SUBSET S |-> w[s]]
      OBVIOUS
    <3> HIDE DEF w
    <3> QED BY <2>2, <3>1, Zenon
  <2> HIDE DEF w
  <2> QED BY <2>3
<1>5. Iter(iter)
  BY <1>4
<1> HIDE DEF iter
<1>6. iter[{}] = base
  BY <1>3, <1>5
<1>7. iter[{1}] = Pass(iter[{}], T, c)
  BY <1>2, <1>3, <1>5
<1> QED BY <1>1, <1>6, <1>7 DEF base, S

\* Two turns for a run of two.
LEMMA CascadeTwo ==
  ASSUME NEW n, NEW T, NEW c, NEW d
  PROVE  Cascade(n, T, <<c, d>>) = Pass(Pass(Res(n, "forward", <<>>), T, c), T, d)
<1> DEFINE base == Res(n, "forward", <<>>)
           S == {1, 2}
           cd == <<c, d>>
           Iter(g) == g = [s \in SUBSET S |->
                         IF s = {} THEN base
                         ELSE LET x == Max(s) IN Pass(g[s \ {x}], T, cd[x])]
           iter == CHOOSE g : Iter(g)
           mid == Pass(base, T, c)
           end == Pass(mid, T, d)
           first == Pass(base, T, d)
<1>1. Cascade(n, T, cd) = iter[S]
  <2>1. DOMAIN <<c, d>> = {1, 2}
    OBVIOUS
  <2> QED BY <2>1 DEF Cascade, FoldLeft, MapThenFoldSet, Pass
<1>2. Max({1}) = 1 /\ Max({2}) = 2 /\ Max({1, 2}) = 2
  BY DEF Max
<1>3. /\ \A s \in SUBSET S : s = {} \/ s = {1} \/ s = {2} \/ s = {1, 2}
      /\ {} \in SUBSET S /\ {1} \in SUBSET S /\ {2} \in SUBSET S /\ {1, 2} \in SUBSET S
      /\ {1} \ {1} = {} /\ {2} \ {2} = {} /\ {1, 2} \ {2} = {1}
      /\ {1} # {2} /\ {1} # {1, 2} /\ {2} # {1, 2} /\ {1} # {} /\ {2} # {} /\ {1, 2} # {}
  <2>1. \A s \in SUBSET S : s = {} \/ s = {1} \/ s = {2} \/ s = {1, 2}
    <3> TAKE s \in SUBSET S
    <3>1. \A x \in s : x = 1 \/ x = 2
      OBVIOUS
    <3>2. CASE 1 \in s /\ 2 \in s
      BY <3>1, <3>2
    <3>3. CASE 1 \in s /\ 2 \notin s
      BY <3>1, <3>3
    <3>4. CASE 1 \notin s /\ 2 \in s
      BY <3>1, <3>4
    <3>5. CASE 1 \notin s /\ 2 \notin s
      BY <3>1, <3>5
    <3> QED BY <3>2, <3>3, <3>4, <3>5
  <2>2. {} \in SUBSET S /\ {1} \in SUBSET S /\ {2} \in SUBSET S /\ {1, 2} \in SUBSET S
    OBVIOUS
  <2>3. {1} \ {1} = {} /\ {2} \ {2} = {} /\ {1, 2} \ {2} = {1}
    OBVIOUS
  <2>4. {1} # {2} /\ {1} # {1, 2} /\ {2} # {1, 2} /\ {1} # {} /\ {2} # {} /\ {1, 2} # {}
    OBVIOUS
  <2> QED BY <2>1, <2>2, <2>3, <2>4
<1>4. cd[1] = c /\ cd[2] = d
  OBVIOUS
<1> HIDE DEF base, mid, end, first, S, cd
<1>5. \E g : Iter(g)
  <2> DEFINE w == [s \in SUBSET S |-> IF s = {} THEN base
                                      ELSE IF s = {1} THEN mid
                                      ELSE IF s = {2} THEN first ELSE end]
  <2>1. w[{}] = base /\ w[{1}] = mid /\ w[{2}] = first /\ w[{1, 2}] = end
    BY <1>3
  <2> HIDE DEF w
  <2>2. \A s \in SUBSET S :
          w[s] = IF s = {} THEN base ELSE LET x == Max(s) IN Pass(w[s \ {x}], T, cd[x])
    <3> TAKE s \in SUBSET S
    <3>1. CASE s = {}
      BY <2>1, <3>1
    <3>2. CASE s = {1}
      BY <1>2, <1>3, <1>4, <2>1, <3>2 DEF mid
    <3>3. CASE s = {2}
      BY <1>2, <1>3, <1>4, <2>1, <3>3 DEF first
    <3>4. CASE s = {1, 2}
      BY <1>2, <1>3, <1>4, <2>1, <3>4 DEF end
    <3> QED BY <1>3, <3>1, <3>2, <3>3, <3>4
  <2>3. w = [s \in SUBSET S |->
              IF s = {} THEN base ELSE LET x == Max(s) IN Pass(w[s \ {x}], T, cd[x])]
    <3>1. w = [s \in SUBSET S |-> w[s]]
      BY DEF w
    <3> QED BY <2>2, <3>1, Zenon
  <2> QED BY <2>3
<1>6. Iter(iter)
  BY <1>5
<1> HIDE DEF iter
<1>7. \A s \in SUBSET S :
        iter[s] = IF s = {} THEN base ELSE LET x == Max(s) IN Pass(iter[s \ {x}], T, cd[x])
  BY <1>6, Zenon
<1>8. iter[{}] = base
  BY <1>3, <1>7
<1>9. iter[{1}] = Pass(iter[{}], T, c)
  <2>1. iter[{1}] = LET x == Max({1}) IN Pass(iter[{1} \ {x}], T, cd[x])
    BY <1>3, <1>7, Zenon
  <2> QED BY <1>2, <1>3, <1>4, <2>1
<1>10. iter[{1, 2}] = Pass(iter[{1}], T, d)
  BY <1>2, <1>3, <1>4, <1>7
<1> QED BY <1>1, <1>8, <1>9, <1>10 DEF base, S, cd

\* An empty run leaves the detector as it is.
LEMMA CascadeNone ==
  ASSUME NEW n, NEW T
  PROVE  Cascade(n, T, <<>>) = Res(n, "forward", <<>>)
<1> DEFINE base == Res(n, "forward", <<>>)
           S == {}
           Iter(g) == g = [s \in SUBSET S |->
                         IF s = {} THEN base
                         ELSE LET x == Max(s) IN Pass(g[s \ {x}], T, <<>>[x])]
           iter == CHOOSE g : Iter(g)
<1>1. Cascade(n, T, <<>>) = iter[S]
  <2>1. DOMAIN <<>> = {}
    OBVIOUS
  <2> QED BY <2>1 DEF Cascade, FoldLeft, MapThenFoldSet, Pass
<1> HIDE DEF base
<1>2. \E g : Iter(g)
  <2> DEFINE w == [s \in SUBSET S |-> base]
  <2>1. \A s \in SUBSET S :
          w[s] = IF s = {} THEN base ELSE LET x == Max(s) IN Pass(w[s \ {x}], T, <<>>[x])
    OBVIOUS
  <2>2. w = [s \in SUBSET S |-> w[s]]
    OBVIOUS
  <2> HIDE DEF w
  <2>3. w = [s \in SUBSET S |->
              IF s = {} THEN base ELSE LET x == Max(s) IN Pass(w[s \ {x}], T, <<>>[x])]
    BY <2>1, <2>2, Zenon
  <2> QED BY <2>3
<1>3. Iter(iter)
  BY <1>2
<1> HIDE DEF iter
<1>4. iter[S] = base
  BY <1>3
<1> QED BY <1>1, <1>4 DEF base

\* The triggers as the default configuration has them: each is empty, which disables
\* it, or of two keys of which the first is the same for all (config/model.rs:724-732).
TwoKeys ==
  LET triggers == {SnippetTrigger, BookmarkTrigger, BrowserTrigger}
  IN  /\ \A t \in triggers : t = <<>> \/ t = <<t[1], t[2]>>
      /\ \A t, u \in triggers : t # <<>> /\ u # <<>> => t[1] = u[1]

\* What short runs become when they are joined.
LEMMA Joined ==
  ASSUME NEW p, NEW c
  PROVE  /\ <<>> \o <<>> = <<>> /\ <<>> \o <<c>> = <<c>> /\ <<p>> \o <<c>> = <<p, c>>
         /\ <<>> \o <<p, c>> = <<p, c>>
         /\ Append(<<>>, c) = <<c>> /\ Append(<<p>>, c) = <<p, c>>
<1> DEFINE S == {p, c}
<1>1. <<>> \in Seq(S) /\ <<p>> \in Seq(S) /\ <<c>> \in Seq(S) /\ <<p, c>> \in Seq(S)
  OBVIOUS
<1>2. <<>> \o <<>> = <<>> /\ <<>> \o <<c>> = <<c>> /\ <<>> \o <<p, c>> = <<p, c>>
  BY <1>1
<1>3. <<p>> \o <<c>> = <<p, c>>
  <2> DEFINE u == <<p>> \o <<c>>
             v == <<p, c>>
  <2>1. u \in Seq(S) /\ Len(u) = 2 /\ u[1] = p /\ u[2] = c
    BY <1>1, ConcatProperties
  <2>2. v \in Seq(S) /\ Len(v) = 2 /\ v[1] = p /\ v[2] = c
    BY <1>1
  <2> HIDE DEF u, v
  <2>3. \A i \in 1..Len(u) : u[i] = v[i]
    BY <2>1, <2>2
  <2> QED BY <2>1, <2>2, <2>3, SeqEqual DEF u, v
<1>4. Append(<<>>, c) = <<c>> 
  BY <1>1
<1>5. Append(<<p>>, c) = <<p, c>>
  BY <1>1, <1>3, AppendIsConcat
<1> QED BY <1>2, <1>3, <1>4, <1>5

\* The beginnings of a trigger of two keys, which is all a detector can hold.
LEMMA Parts ==
  ASSUME NEW p, NEW x
  PROVE  LET T == <<p, x>> IN
         /\ T[1] = p /\ T[2] = x /\ Len(T) = 2 /\ T # <<>>
         /\ SubSeq(T, 1, 0) = <<>> /\ SubSeq(T, 1, 1) = <<p>> /\ SubSeq(T, 1, 2) = T
<1> DEFINE S == {p, x}
           T == <<p, x>>
<1>1. T \in Seq(S)
  OBVIOUS
<1>2. T[1] = p /\ T[2] = x /\ Len(T) = 2 /\ T # <<>>
  OBVIOUS
<1> HIDE DEF T
<1>3. SubSeq(T, 1, 0) = <<>>
  BY <1>1, <1>2
<1>4. SubSeq(T, 1, 1) = <<p>> 
  <2> DEFINE u == SubSeq(T, 1, 1)
  <2>1. u \in Seq(S) /\ Len(u) = 1 /\ u[1] = p
    BY <1>1, <1>2, SubSeqProperties
  <2>2. <<p>> \in Seq(S) /\ Len(<<p>>) = 1 /\ <<p>>[1] = p
    OBVIOUS
  <2> HIDE DEF u
  <2>3. \A i \in 1..Len(u) : u[i] = <<p>>[i]
    BY <2>1, <2>2
  <2>4. <<p>> \in Seq(S) /\ Len(u) = Len(<<p>>)
    BY <2>1, <2>2
  <2>5. u = <<p>>
    BY <2>1, <2>3, <2>4, SeqEqual
  <2> QED BY <2>5 DEF u
<1>5. SubSeq(T, 1, 2) = T
  <2> DEFINE u == SubSeq(T, 1, 2)
  <2>1. u \in Seq(S) /\ Len(u) = 2 /\ u[1] = p /\ u[2] = x
    BY <1>1, <1>2, SubSeqProperties
  <2> QED BY <1>1, <1>2, <2>1, SeqEqual
<1> QED BY <1>2, <1>3, <1>4, <1>5 DEF T

\* A detector with a trigger of two keys, given the byte c: it holds the first of
\* them, or lets go of what it held.
LEMMA OneByte ==
  ASSUME NEW p, NEW x, NEW c
  PROVE  /\ FeedUntimed(0, <<p, x>>, c) = IF c = p THEN Res(1, "buffer", <<>>) ELSE Res(0, "forward", <<c>>)
         /\ FeedUntimed(1, <<p, x>>, c) = IF c = x THEN Res(0, "trigger", <<>>) ELSE Res(0, "forward", <<p, c>>)
<1> DEFINE T == <<p, x>>
<1>1. /\ T[1] = p /\ T[2] = x /\ Len(T) = 2 /\ SubSeq(T, 1, 0) = <<>> /\ SubSeq(T, 1, 1) = <<p>>
      /\ <<>> \o <<c>> = <<c>> /\ <<p>> \o <<c>> = <<p, c>> /\ T # <<>>
  BY Joined, Parts
<1> HIDE DEF T
<1>2. FeedUntimed(0, T, c) = IF c = p THEN Res(1, "buffer", <<>>) ELSE Res(0, "forward", <<c>>)
  <2>1. FeedUntimed(0, T, c) =
          IF c # T[1] THEN Res(0, "forward", SubSeq(T, 1, 0) \o <<c>>) ELSE Res(1, "buffer", <<>>)
    BY <1>1 DEF FeedUntimed, FeedWithTime
  <2> QED BY <1>1, <2>1
<1>3. FeedUntimed(1, T, c) = IF c = x THEN Res(0, "trigger", <<>>) ELSE Res(0, "forward", <<p, c>>)
  <2>1. FeedUntimed(1, T, c) =
          IF c # T[2] THEN Res(0, "forward", SubSeq(T, 1, 1) \o <<c>>) ELSE Res(0, "trigger", <<>>)
    BY <1>1 DEF FeedUntimed, FeedWithTime
  <2> QED BY <1>1, <2>1
<1> QED BY <1>2, <1>3 DEF T

\* The same where the paste guard looks at the time: a match that comes too fast is none.
LEMMA OneByteTimed ==
  ASSUME NEW p, NEW x, NEW c, NEW fast \in BOOLEAN
  PROVE  /\ FeedWithTime(0, <<p, x>>, c, fast) =
              IF c = p THEN Res(1, "buffer", <<>>) ELSE Res(0, "forward", <<c>>)
         /\ FeedWithTime(1, <<p, x>>, c, fast) =
              IF c = x /\ ~fast THEN Res(0, "trigger", <<>>) ELSE Res(0, "forward", <<p, c>>)
<1> DEFINE T == <<p, x>>
<1>1. /\ T[1] = p /\ T[2] = x /\ Len(T) = 2 /\ SubSeq(T, 1, 0) = <<>> /\ SubSeq(T, 1, 1) = <<p>>
      /\ <<>> \o <<c>> = <<c>> /\ <<p>> \o <<c>> = <<p, c>> /\ T # <<>>
  BY Joined, Parts
<1> HIDE DEF T
<1>2. FeedWithTime(0, T, c, fast) = IF c = p THEN Res(1, "buffer", <<>>) ELSE Res(0, "forward", <<c>>)
  <2>1. FeedWithTime(0, T, c, fast) =
          IF c # T[1] THEN Res(0, "forward", SubSeq(T, 1, 0) \o <<c>>) ELSE Res(1, "buffer", <<>>)
    BY <1>1 DEF FeedWithTime
  <2> QED BY <1>1, <2>1
<1>3. FeedWithTime(1, T, c, fast) =
        IF c = x /\ ~fast THEN Res(0, "trigger", <<>>) ELSE Res(0, "forward", <<p, c>>)
  <2>1. FeedWithTime(1, T, c, fast) =
          IF c # T[2] \/ fast THEN Res(0, "forward", SubSeq(T, 1, 1) \o <<c>>) ELSE Res(0, "trigger", <<>>)
    BY <1>1 DEF FeedWithTime
  <2> QED BY <1>1, <2>1
<1> QED BY <1>2, <1>3 DEF T

\* What the runs that occur become behind a trigger of two keys.
LEMMA Stage ==
  ASSUME NEW p, NEW x, NEW c
  PROVE  LET T == <<p, x>> IN
         /\ \A n : Cascade(n, T, <<>>) = Res(n, "forward", <<>>)
         /\ Cascade(0, T, <<c>>) = IF c = p THEN Res(1, "forward", <<>>) ELSE Res(0, "forward", <<c>>)
         /\ Cascade(1, T, <<c>>) = IF c = x THEN Res(0, "trigger", <<>>) ELSE Res(0, "forward", <<p, c>>)
         /\ Cascade(0, T, <<p, c>>) = IF c = x THEN Res(0, "trigger", <<>>) ELSE Res(0, "forward", <<p, c>>)
<1>0. ASSUME NEW d
      PROVE  /\ FeedUntimed(0, <<p, x>>, d) = IF d = p THEN Res(1, "buffer", <<>>) ELSE Res(0, "forward", <<d>>)
             /\ FeedUntimed(1, <<p, x>>, d) = IF d = x THEN Res(0, "trigger", <<>>) ELSE Res(0, "forward", <<p, d>>)
  BY OneByte
<1> DEFINE T == <<p, x>>
<1>1. <<>> \o <<>> = <<>> /\ <<>> \o <<c>> = <<c>> /\ <<>> \o <<p, c>> = <<p, c>>
  BY Joined
<1>2. \A n : Cascade(n, T, <<>>) = Res(n, "forward", <<>>)
  BY CascadeNone
<1>3. Cascade(0, T, <<c>>) = IF c = p THEN Res(1, "forward", <<>>) ELSE Res(0, "forward", <<c>>)
  <2>1. Cascade(0, T, <<c>>) = Pass(Res(0, "forward", <<>>), T, c)
    BY CascadeOne
  <2>2. FeedUntimed(0, T, c) = IF c = p THEN Res(1, "buffer", <<>>) ELSE Res(0, "forward", <<c>>)
    BY <1>0
  <2> HIDE DEF T
  <2> QED BY <1>1, <2>1, <2>2 DEF Pass, Res
<1>4. Cascade(1, T, <<c>>) = IF c = x THEN Res(0, "trigger", <<>>) ELSE Res(0, "forward", <<p, c>>)
  <2>1. Cascade(1, T, <<c>>) = Pass(Res(1, "forward", <<>>), T, c)
    BY CascadeOne
  <2>2. FeedUntimed(1, T, c) = IF c = x THEN Res(0, "trigger", <<>>) ELSE Res(0, "forward", <<p, c>>)
    BY <1>0
  <2> HIDE DEF T
  <2> QED BY <1>1, <2>1, <2>2 DEF Pass, Res
<1>5. Cascade(0, T, <<p, c>>) = IF c = x THEN Res(0, "trigger", <<>>) ELSE Res(0, "forward", <<p, c>>)
  <2>1. Cascade(0, T, <<p, c>>) = Pass(Pass(Res(0, "forward", <<>>), T, p), T, c)
    BY CascadeTwo
  <2>2. FeedUntimed(0, T, p) = Res(1, "buffer", <<>>)
    BY <1>0
  <2>3. FeedUntimed(1, T, c) = IF c = x THEN Res(0, "trigger", <<>>) ELSE Res(0, "forward", <<p, c>>)
    BY <1>0
  <2> HIDE DEF T
  <2>4. Pass(Res(0, "forward", <<>>), T, p) = Res(1, "forward", <<>>)
    BY <1>1, <2>2 DEF Pass, Res
  <2>5. Cascade(0, T, <<p, c>>) = Pass(Res(1, "forward", <<>>), T, c)
    BY <2>1, <2>4
  <2> QED BY <1>1, <2>3, <2>5 DEF Pass, Res
<1> QED BY <1>2, <1>3, <1>4, <1>5

\* A disabled detector lets every run through.
LEMMA Disabled ==
  ASSUME NEW p, NEW c
  PROVE  /\ Cascade(0, <<>>, <<>>) = Res(0, "forward", <<>>)
         /\ Cascade(0, <<>>, <<c>>) = Res(0, "forward", <<c>>)
         /\ Cascade(0, <<>>, <<p, c>>) = Res(0, "forward", <<p, c>>)
<1>1. <<>> \o <<c>> = <<c>> /\ <<>> \o <<p>> = <<p>> /\ <<p>> \o <<c>> = <<p, c>>
  BY Joined
<1>2. /\ FeedUntimed(0, <<>>, c) = Res(0, "forward", <<c>>)
      /\ FeedUntimed(0, <<>>, p) = Res(0, "forward", <<p>>)
  BY DEF FeedUntimed, FeedWithTime
<1>3. Cascade(0, <<>>, <<c>>) = Res(0, "forward", <<c>>)
  <2>1. Cascade(0, <<>>, <<c>>) = Pass(Res(0, "forward", <<>>), <<>>, c)
    BY CascadeOne
  <2> QED BY <1>1, <1>2, <2>1 DEF Pass, Res
<1>4. Cascade(0, <<>>, <<p, c>>) = Res(0, "forward", <<p, c>>)
  <2>1. Cascade(0, <<>>, <<p, c>>) = Pass(Pass(Res(0, "forward", <<>>), <<>>, p), <<>>, c)
    BY CascadeTwo
  <2>2. Pass(Res(0, "forward", <<>>), <<>>, p) = Res(0, "forward", <<p>>)
    BY <1>1, <1>2 DEF Pass, Res
  <2>3. Cascade(0, <<>>, <<p, c>>) = Pass(Res(0, "forward", <<p>>), <<>>, c)
    BY <2>1, <2>2
  <2> QED BY <1>1, <1>2, <2>3 DEF Pass, Res
<1> QED BY <1>3, <1>4, CascadeNone

\* A trigger that starts with p, if there is one.
Enabled(t, p) == \E x : t = <<p, x>>

\* A detector that holds nothing and gets a run that does not end in the byte it waits
\* for lets the run through, or takes all of it as its trigger.
LEMMA Passive ==
  ASSUME NEW p, NEW c, NEW T, NEW u,
         T = <<>> \/ Enabled(T, p),
         u \in {<<>>, <<p, c>>} \/ (u = <<c>> /\ c # p)
  PROVE  \/ Cascade(0, T, u) = Res(0, "forward", u)
         \/ T # <<>> /\ u = <<p, c>> /\ Cascade(0, T, u) = Res(0, "trigger", <<>>)
<1>1. CASE T = <<>>
  BY <1>1, Disabled
<1>2. CASE Enabled(T, p)
  <2>1. PICK x : T = <<p, x>>
    BY <1>2 DEF Enabled
  <2>2. T # <<>>
    BY <2>1
  <2>3. /\ Cascade(0, T, <<>>) = Res(0, "forward", <<>>)
        /\ Cascade(0, T, <<c>>) = IF c = p THEN Res(1, "forward", <<>>) ELSE Res(0, "forward", <<c>>)
        /\ Cascade(0, T, <<p, c>>) = IF c = x THEN Res(0, "trigger", <<>>) ELSE Res(0, "forward", <<p, c>>)
    BY <2>1, Stage
  <2>4. CASE u = <<>>
    BY <2>3, <2>4
  <2>5. CASE u = <<c>> /\ c # p
    BY <2>3, <2>5
  <2>6. CASE u = <<p, c>>
    <3>1. CASE c = x
      BY <2>2, <2>3, <2>6, <3>1
    <3>2. CASE c # x
      BY <2>3, <2>6, <3>2
    <3> QED BY <3>1, <3>2
  <2> QED BY <2>4, <2>5, <2>6
<1> QED BY <1>1, <1>2

\* A detector holds at most the first key of its trigger, and at most one of the three
\* holds one: a later one sees only what the earlier ones let through.
Steady(g) ==
  /\ g.snip \in {0, 1} /\ g.book \in {0, 1} /\ g.brow \in {0, 1}
  /\ g.snip = 1 => SnippetTrigger # <<>>
  /\ g.book = 1 => SnippetTrigger = <<>> /\ BookmarkTrigger # <<>>
  /\ g.brow = 1 => SnippetTrigger = <<>> /\ BookmarkTrigger = <<>> /\ BrowserTrigger # <<>>

HoldsNone(g) == g.snip = 0 /\ g.book = 0 /\ g.brow = 0

\* The first key that the triggers share.
LEMMA SharedKey ==
  ASSUME TwoKeys
  PROVE  \E p : /\ SnippetTrigger  = <<>> \/ Enabled(SnippetTrigger, p)
                /\ BookmarkTrigger = <<>> \/ Enabled(BookmarkTrigger, p)
                /\ BrowserTrigger  = <<>> \/ Enabled(BrowserTrigger, p)
<1> DEFINE triggers == {SnippetTrigger, BookmarkTrigger, BrowserTrigger}
<1>1. /\ \A t \in triggers : t = <<>> \/ t = <<t[1], t[2]>>
      /\ \A t, u \in triggers : t # <<>> /\ u # <<>> => t[1] = u[1]
  BY DEF TwoKeys
<1>2. CASE \A t \in triggers : t = <<>>
  BY <1>2
<1>3. ASSUME NEW t \in triggers, t # <<>>
      PROVE  \A u \in triggers : u = <<>> \/ Enabled(u, t[1])
  <2> TAKE u \in triggers
  <2>1. u = <<>> \/ (u = <<u[1], u[2]>> /\ u[1] = t[1])
    BY <1>1, <1>3
  <2>2. u = <<>> \/ u = <<t[1], u[2]>>
    BY <2>1
  <2> QED BY <2>2 DEF Enabled
<1>4. CASE \E t \in triggers : t # <<>>
  BY <1>3, <1>4
<1> QED BY <1>2, <1>4

\* What the detectors hold is nothing, or the shared key.
LEMMA HeldIs ==
  ASSUME NEW p, NEW g, Steady(g),
         SnippetTrigger  = <<>> \/ Enabled(SnippetTrigger, p),
         BookmarkTrigger = <<>> \/ Enabled(BookmarkTrigger, p),
         BrowserTrigger  = <<>> \/ Enabled(BrowserTrigger, p)
  PROVE  Held(g) = IF HoldsNone(g) THEN <<>> ELSE <<p>>
<1>1. ASSUME NEW T, T = <<>> \/ Enabled(T, p)
      PROVE  SubSeq(T, 1, 0) = <<>> /\ (T # <<>> => SubSeq(T, 1, 1) = <<p>>)
  <2>1. CASE T = <<>>
    BY <2>1, SubSeqEmpty
  <2>2. CASE Enabled(T, p)
    BY <2>2, Parts DEF Enabled
  <2> QED BY <1>1, <2>1, <2>2
<1>2. /\ SubSeq(BrowserTrigger, 1, 0) = <<>>
      /\ SubSeq(BookmarkTrigger, 1, 0) = <<>>
      /\ SubSeq(SnippetTrigger, 1, 0) = <<>>
      /\ BrowserTrigger # <<>> => SubSeq(BrowserTrigger, 1, 1) = <<p>>
      /\ BookmarkTrigger # <<>> => SubSeq(BookmarkTrigger, 1, 1) = <<p>>
      /\ SnippetTrigger # <<>> => SubSeq(SnippetTrigger, 1, 1) = <<p>>
  BY <1>1
<1>3. <<>> \o <<>> = <<>> /\ <<>> \o <<p>> = <<p>> /\ <<p>> \o <<>> = <<p>>
  OBVIOUS
<1>4. Held(g) = SubSeq(BrowserTrigger, 1, g.brow) \o SubSeq(BookmarkTrigger, 1, g.book)
                  \o SubSeq(SnippetTrigger, 1, g.snip)
  BY DEF Held
<1>5. CASE HoldsNone(g)
  BY <1>2, <1>3, <1>4, <1>5 DEF HoldsNone
<1>6. CASE g.snip = 1
  <2>1. g.book = 0 /\ g.brow = 0 /\ SnippetTrigger # <<>>
    BY <1>6 DEF Steady
  <2> QED BY <1>2, <1>3, <1>4, <1>6, <2>1 DEF HoldsNone
<1>7. CASE g.book = 1
  <2>1. g.snip = 0 /\ g.brow = 0 /\ BookmarkTrigger # <<>>
    BY <1>7 DEF Steady
  <2> QED BY <1>2, <1>3, <1>4, <1>7, <2>1 DEF HoldsNone
<1>8. CASE g.brow = 1
  <2>1. g.snip = 0 /\ g.book = 0 /\ BrowserTrigger # <<>>
    BY <1>8 DEF Steady
  <2> QED BY <1>2, <1>3, <1>4, <1>8, <2>1 DEF HoldsNone
<1> QED BY <1>5, <1>6, <1>7, <1>8 DEF Steady, HoldsNone

\* A trigger is as long as what is dropped when it is complete.
LEMMA TriggerLength ==
  ASSUME NEW p, NEW T, Enabled(T, p)
  PROVE  Len(T) = 2
BY Parts DEF Enabled

\* What a key that belongs to no terminal sequence does: it is held where nothing was,
\* or everything is let go, or a trigger takes all of it.
Outcome(g, b, p, r) ==
  \/ /\ r.act = "forward" /\ r.bytes = <<>> /\ b = p /\ HoldsNone(g)
     /\ Steady(r.h) /\ ~HoldsNone(r.h)
  \/ /\ r.act = "forward" /\ HoldsNone(r.h)
     /\ r.bytes = IF HoldsNone(g) THEN <<b>> ELSE <<p, b>>
  \/ /\ r.act \in {"snippets", "bookmark", "browser"} /\ HoldsNone(r.h) /\ ~HoldsNone(g)
     /\ r.bytes = <<>> /\ Enabled(TriggerOf(r.act), p)

\* A run that the snippet detector lets through reaches the other two, which hold nothing.
LEMMA ThroughBoth ==
  ASSUME NEW p, NEW b, NEW u, (u = <<b>> /\ b # p) \/ u = <<p, b>>,
         BookmarkTrigger = <<>> \/ Enabled(BookmarkTrigger, p),
         BrowserTrigger  = <<>> \/ Enabled(BrowserTrigger, p)
  PROVE  LET k == Cascade(0, BookmarkTrigger, u)
             f == Cascade(0, BrowserTrigger, k.bytes)
         IN  \/ k = Res(0, "forward", u) /\ f = Res(0, "forward", u)
             \/ k = Res(0, "trigger", <<>>) /\ u = <<p, b>> /\ Enabled(BookmarkTrigger, p)
             \/ k = Res(0, "forward", u) /\ f = Res(0, "trigger", <<>>) /\ u = <<p, b>>
                  /\ Enabled(BrowserTrigger, p)
<1> DEFINE k == Cascade(0, BookmarkTrigger, u)
<1>0. u \in {<<>>, <<p, b>>} \/ (u = <<b>> /\ b # p)
  OBVIOUS
<1>1. ASSUME NEW T, T = <<>> \/ Enabled(T, p)
      PROVE  \/ Cascade(0, T, u) = Res(0, "forward", u)
             \/ Enabled(T, p) /\ u = <<p, b>> /\ Cascade(0, T, u) = Res(0, "trigger", <<>>)
  <2>1. \/ Cascade(0, T, u) = Res(0, "forward", u)
        \/ T # <<>> /\ u = <<p, b>> /\ Cascade(0, T, u) = Res(0, "trigger", <<>>)
    BY <1>0, <1>1, Passive
  <2> QED BY <1>1, <2>1
<1>2. /\ \/ Cascade(0, BrowserTrigger, u) = Res(0, "forward", u)
         \/ Enabled(BrowserTrigger, p) /\ u = <<p, b>> /\ Cascade(0, BrowserTrigger, u) = Res(0, "trigger", <<>>)
      /\ \/ k = Res(0, "forward", u)
         \/ Enabled(BookmarkTrigger, p) /\ u = <<p, b>> /\ k = Res(0, "trigger", <<>>)
  BY <1>1
<1>3. k = Res(0, "forward", u) => k.bytes = u
  BY DEF Res
<1> HIDE DEF k
<1>4. CASE k = Res(0, "forward", u)
  <2>1. Cascade(0, BrowserTrigger, k.bytes) = Cascade(0, BrowserTrigger, u)
    BY <1>3, <1>4
  <2> QED BY <1>2, <1>4, <2>1 DEF k
<1>5. CASE k # Res(0, "forward", u)
  BY <1>2, <1>5 DEF k
<1> QED BY <1>4, <1>5

\* The handler outside of terminal sequences, from what its three stages answer.
LEMMA FromStages ==
  ASSUME NEW g, NEW b, NEW fast, g.term = "normal", TermSeq(g.term, b) = "normal",
         NEW s, s = FeedWithTime(g.snip, SnippetTrigger, b, fast),
         NEW k, k = Cascade(g.book, BookmarkTrigger, s.bytes),
         NEW f, f = Cascade(g.brow, BrowserTrigger, k.bytes)
  PROVE  LET r == HandlerFeed(g, b, fast)
             to(sn, bk, br) == [term |-> "normal", snip |-> sn, book |-> bk, brow |-> br]
         IN  /\ s.act = "trigger" =>
                  r = [h |-> to(s.n, g.book, g.brow), act |-> "snippets", bytes |-> <<>>]
             /\ s.act = "buffer" =>
                  r = [h |-> to(s.n, g.book, g.brow), act |-> "forward", bytes |-> <<>>]
             /\ s.act = "forward" /\ k.act = "trigger" =>
                  r = [h |-> to(s.n, k.n, g.brow), act |-> "bookmark", bytes |-> <<>>]
             /\ s.act = "forward" /\ k.act = "forward" /\ f.act = "trigger" =>
                  r = [h |-> to(s.n, k.n, f.n), act |-> "browser", bytes |-> <<>>]
             /\ s.act = "forward" /\ k.act = "forward" /\ f.act = "forward" =>
                  r = [h |-> to(s.n, k.n, f.n), act |-> "forward", bytes |-> f.bytes]
<1> DEFINE r == HandlerFeed(g, b, fast)
           to(sn, bk, br, act, bytes) ==
             [h |-> [term |-> "normal", snip |-> sn, book |-> bk, brow |-> br], act |-> act, bytes |-> bytes]
<1>1. r = IF s.act = "trigger" THEN to(s.n, g.book, g.brow, "snippets", <<>>)
          ELSE IF s.act = "buffer"  THEN to(s.n, g.book, g.brow, "forward", <<>>)
          ELSE IF k.act = "trigger" THEN to(s.n, k.n, g.brow, "bookmark", <<>>)
          ELSE IF f.act = "trigger" THEN to(s.n, k.n, f.n, "browser", <<>>)
          ELSE to(s.n, k.n, f.n, "forward", f.bytes)
  BY DEF HandlerFeed
<1> HIDE DEF r
<1>2. /\ s.act = "trigger" => r = to(s.n, g.book, g.brow, "snippets", <<>>)
      /\ s.act = "buffer" => r = to(s.n, g.book, g.brow, "forward", <<>>)
      /\ s.act = "forward" /\ k.act = "trigger" => r = to(s.n, k.n, g.brow, "bookmark", <<>>)
      /\ s.act = "forward" /\ k.act = "forward" /\ f.act = "trigger" =>
           r = to(s.n, k.n, f.n, "browser", <<>>)
      /\ s.act = "forward" /\ k.act = "forward" /\ f.act = "forward" =>
           r = to(s.n, k.n, f.n, "forward", f.bytes)
  <2> HIDE DEF to
  <2> QED BY <1>1
<1> QED BY <1>2 DEF r

\* The snippet detector has a trigger, so the other two hold nothing.
LEMMA SnippetFirst ==
  ASSUME NEW p, NEW g, NEW b, NEW fast \in BOOLEAN, Steady(g),
         g.term = "normal", TermSeq(g.term, b) = "normal",
         Enabled(SnippetTrigger, p),
         BookmarkTrigger = <<>> \/ Enabled(BookmarkTrigger, p),
         BrowserTrigger  = <<>> \/ Enabled(BrowserTrigger, p)
  PROVE  Outcome(g, b, p, HandlerFeed(g, b, fast))
<1> DEFINE s == FeedWithTime(g.snip, SnippetTrigger, b, fast)
           k == Cascade(g.book, BookmarkTrigger, s.bytes)
           f == Cascade(g.brow, BrowserTrigger, k.bytes)
           r == HandlerFeed(g, b, fast)
           to(sn, bk, br) == [term |-> "normal", snip |-> sn, book |-> bk, brow |-> br]
<1>1. /\ s.act = "trigger" => r = [h |-> to(s.n, g.book, g.brow), act |-> "snippets", bytes |-> <<>>]
      /\ s.act = "buffer" => r = [h |-> to(s.n, g.book, g.brow), act |-> "forward", bytes |-> <<>>]
      /\ s.act = "forward" /\ k.act = "trigger" =>
           r = [h |-> to(s.n, k.n, g.brow), act |-> "bookmark", bytes |-> <<>>]
      /\ s.act = "forward" /\ k.act = "forward" /\ f.act = "trigger" =>
           r = [h |-> to(s.n, k.n, f.n), act |-> "browser", bytes |-> <<>>]
      /\ s.act = "forward" /\ k.act = "forward" /\ f.act = "forward" =>
           r = [h |-> to(s.n, k.n, f.n), act |-> "forward", bytes |-> f.bytes]
  BY FromStages
<1>2. PICK x : SnippetTrigger = <<p, x>>
  BY DEF Enabled
<1>3. SnippetTrigger # <<>>
  BY <1>2
<1>4. g.book = 0 /\ g.brow = 0 /\ g.snip \in {0, 1}
  BY <1>3 DEF Steady
<1>5. /\ g.snip = 0 => s = IF b = p THEN Res(1, "buffer", <<>>) ELSE Res(0, "forward", <<b>>)
      /\ g.snip = 1 => s = IF b = x /\ ~fast THEN Res(0, "trigger", <<>>) ELSE Res(0, "forward", <<p, b>>)
  <2>1. /\ FeedWithTime(0, <<p, x>>, b, fast) =
             IF b = p THEN Res(1, "buffer", <<>>) ELSE Res(0, "forward", <<b>>)
        /\ FeedWithTime(1, <<p, x>>, b, fast) =
             IF b = x /\ ~fast THEN Res(0, "trigger", <<>>) ELSE Res(0, "forward", <<p, b>>)
    BY OneByteTimed
  <2>2. s = FeedWithTime(g.snip, <<p, x>>, b, fast)
    BY <1>2
  <2> HIDE DEF s
  <2> QED BY <1>4, <2>1, <2>2
<1>6. ASSUME NEW u, s = Res(0, "forward", u), (u = <<b>> /\ b # p) \/ u = <<p, b>>
      PROVE  \/ k = Res(0, "forward", u) /\ f = Res(0, "forward", u)
             \/ k = Res(0, "trigger", <<>>) /\ u = <<p, b>> /\ Enabled(BookmarkTrigger, p)
             \/ k = Res(0, "forward", u) /\ f = Res(0, "trigger", <<>>) /\ u = <<p, b>>
                  /\ Enabled(BrowserTrigger, p)
  <2>1. s.bytes = u
    BY <1>6 DEF Res
  <2>2. k = Cascade(0, BookmarkTrigger, u) /\ f = Cascade(0, BrowserTrigger, k.bytes)
    BY <1>4, <2>1
  <2>3. LET k0 == Cascade(0, BookmarkTrigger, u)
            f0 == Cascade(0, BrowserTrigger, k0.bytes)
        IN  \/ k0 = Res(0, "forward", u) /\ f0 = Res(0, "forward", u)
            \/ k0 = Res(0, "trigger", <<>>) /\ u = <<p, b>> /\ Enabled(BookmarkTrigger, p)
            \/ k0 = Res(0, "forward", u) /\ f0 = Res(0, "trigger", <<>>) /\ u = <<p, b>>
                 /\ Enabled(BrowserTrigger, p)
    BY <1>6, ThroughBoth
  <2> QED BY <2>2, <2>3
<1> HIDE DEF s, k, f, r
<1>7. TriggerOf("snippets") = SnippetTrigger /\ TriggerOf("bookmark") = BookmarkTrigger
        /\ TriggerOf("browser") = BrowserTrigger
  BY DEF TriggerOf
<1>8. CASE s = Res(1, "buffer", <<>>) /\ g.snip = 0 /\ b = p
  <2>1. r = [h |-> to(1, 0, 0), act |-> "forward", bytes |-> <<>>]
    BY <1>1, <1>4, <1>8 DEF Res
  <2> QED BY <1>3, <1>4, <1>8, <2>1 DEF Outcome, Steady, HoldsNone, r
<1>9. CASE s = Res(0, "trigger", <<>>) /\ g.snip = 1
  <2>1. r = [h |-> to(0, 0, 0), act |-> "snippets", bytes |-> <<>>]
    BY <1>1, <1>4, <1>9 DEF Res
  <2> QED BY <1>7, <1>9, <2>1 DEF Outcome, HoldsNone, r
<1>10. ASSUME NEW u, s = Res(0, "forward", u),
              (u = <<b>> /\ b # p /\ g.snip = 0) \/ (u = <<p, b>> /\ g.snip = 1)
       PROVE  Outcome(g, b, p, r)
  <2>1. CASE k = Res(0, "forward", u) /\ f = Res(0, "forward", u)
    <3>1. r = [h |-> to(0, 0, 0), act |-> "forward", bytes |-> u]
      BY <1>1, <1>10, <2>1 DEF Res
    <3> QED BY <1>4, <1>10, <3>1 DEF Outcome, HoldsNone
  <2>2. CASE k = Res(0, "trigger", <<>>) /\ u = <<p, b>> /\ Enabled(BookmarkTrigger, p)
    <3>1. r = [h |-> to(0, 0, 0), act |-> "bookmark", bytes |-> <<>>]
      BY <1>1, <1>4, <1>10, <2>2 DEF Res
    <3>2. g.snip = 1
      BY <1>10, <2>2
    <3> QED BY <1>7, <2>2, <3>1, <3>2 DEF Outcome, HoldsNone
  <2>3. CASE k = Res(0, "forward", u) /\ f = Res(0, "trigger", <<>>) /\ u = <<p, b>>
               /\ Enabled(BrowserTrigger, p)
    <3>1. r = [h |-> to(0, 0, 0), act |-> "browser", bytes |-> <<>>]
      BY <1>1, <1>10, <2>3 DEF Res
    <3>2. g.snip = 1
      BY <1>10, <2>3
    <3> QED BY <1>7, <2>3, <3>1, <3>2 DEF Outcome, HoldsNone
  <2> QED BY <1>6, <1>10, <2>1, <2>2, <2>3
<1>11. CASE g.snip = 0
  <2>1. CASE b = p
    BY <1>5, <1>8, <1>11, <2>1 DEF r
  <2>2. CASE b # p
    BY <1>5, <1>10, <1>11, <2>2 DEF r
  <2> QED BY <2>1, <2>2
<1>12. CASE g.snip = 1
  <2>1. CASE b = x /\ ~fast
    BY <1>5, <1>9, <1>12, <2>1 DEF r
  <2>2. CASE ~(b = x /\ ~fast)
    BY <1>5, <1>10, <1>12, <2>2 DEF r
  <2> QED BY <2>1, <2>2
<1> QED BY <1>4, <1>11, <1>12

\* Without a snippet trigger the bookmark detector is the first.
LEMMA BookmarkFirst ==
  ASSUME NEW p, NEW g, NEW b, NEW fast \in BOOLEAN, Steady(g),
         g.term = "normal", TermSeq(g.term, b) = "normal",
         SnippetTrigger = <<>>, Enabled(BookmarkTrigger, p),
         BrowserTrigger  = <<>> \/ Enabled(BrowserTrigger, p)
  PROVE  Outcome(g, b, p, HandlerFeed(g, b, fast))
<1> DEFINE s == FeedWithTime(g.snip, SnippetTrigger, b, fast)
           k == Cascade(g.book, BookmarkTrigger, s.bytes)
           f == Cascade(g.brow, BrowserTrigger, k.bytes)
           r == HandlerFeed(g, b, fast)
           to(sn, bk, br) == [term |-> "normal", snip |-> sn, book |-> bk, brow |-> br]
<1>1. /\ s.act = "trigger" => r = [h |-> to(s.n, g.book, g.brow), act |-> "snippets", bytes |-> <<>>]
      /\ s.act = "buffer" => r = [h |-> to(s.n, g.book, g.brow), act |-> "forward", bytes |-> <<>>]
      /\ s.act = "forward" /\ k.act = "trigger" =>
           r = [h |-> to(s.n, k.n, g.brow), act |-> "bookmark", bytes |-> <<>>]
      /\ s.act = "forward" /\ k.act = "forward" /\ f.act = "trigger" =>
           r = [h |-> to(s.n, k.n, f.n), act |-> "browser", bytes |-> <<>>]
      /\ s.act = "forward" /\ k.act = "forward" /\ f.act = "forward" =>
           r = [h |-> to(s.n, k.n, f.n), act |-> "forward", bytes |-> f.bytes]
  BY FromStages
<1>2. g.snip = 0
  BY DEF Steady
<1>3. s = Res(0, "forward", <<b>>)
  BY <1>2 DEF FeedWithTime
<1>4. s.bytes = <<b>>
  BY <1>3 DEF Res
<1>5. PICK x : BookmarkTrigger = <<p, x>>
  BY DEF Enabled
<1>6. BookmarkTrigger # <<>>
  BY <1>5
<1>7. g.brow = 0 /\ g.book \in {0, 1}
  BY <1>6 DEF Steady
<1>8. /\ g.book = 0 => k = IF b = p THEN Res(1, "forward", <<>>) ELSE Res(0, "forward", <<b>>)
      /\ g.book = 1 => k = IF b = x THEN Res(0, "trigger", <<>>) ELSE Res(0, "forward", <<p, b>>)
  <2>1. /\ Cascade(0, <<p, x>>, <<b>>) = IF b = p THEN Res(1, "forward", <<>>) ELSE Res(0, "forward", <<b>>)
        /\ Cascade(1, <<p, x>>, <<b>>) = IF b = x THEN Res(0, "trigger", <<>>) ELSE Res(0, "forward", <<p, b>>)
    BY Stage
  <2>2. k = Cascade(g.book, <<p, x>>, <<b>>)
    BY <1>4, <1>5
  <2> HIDE DEF s, k
  <2> QED BY <1>7, <2>1, <2>2
<1>9. ASSUME NEW u, k.bytes = u, u \in {<<>>, <<p, b>>} \/ (u = <<b>> /\ b # p)
      PROVE  \/ f = Res(0, "forward", u)
             \/ f = Res(0, "trigger", <<>>) /\ u = <<p, b>> /\ Enabled(BrowserTrigger, p)
  <2>1. f = Cascade(0, BrowserTrigger, u)
    BY <1>7, <1>9
  <2>2. \/ Cascade(0, BrowserTrigger, u) = Res(0, "forward", u)
        \/ BrowserTrigger # <<>> /\ u = <<p, b>> /\ Cascade(0, BrowserTrigger, u) = Res(0, "trigger", <<>>)
    <3>1. u \in {<<>>, <<p, b>>} \/ (u = <<b>> /\ b # p)
      BY <1>9
    <3> QED BY <3>1, Passive
  <2> HIDE DEF s, k, f
  <2> QED BY <2>1, <2>2
<1> HIDE DEF s, k, f, r
<1>10. TriggerOf("bookmark") = BookmarkTrigger /\ TriggerOf("browser") = BrowserTrigger
  BY DEF TriggerOf
<1>11. CASE g.book = 0 /\ b = p
  <2>1. k = Res(1, "forward", <<>>)
    BY <1>8, <1>11
  <2>2. k.bytes = <<>>
    BY <2>1 DEF Res
  <2>3. f = Res(0, "forward", <<>>)
    BY <1>9, <2>2
  <2>4. r = [h |-> to(0, 1, 0), act |-> "forward", bytes |-> <<>>]
    BY <1>1, <1>3, <2>1, <2>3 DEF Res
  <2> QED BY <1>2, <1>6, <1>7, <1>11, <2>4 DEF Outcome, Steady, HoldsNone, r
<1>12. CASE g.book = 0 /\ b # p
  <2>1. k = Res(0, "forward", <<b>>)
    BY <1>8, <1>12
  <2>2. k.bytes = <<b>>
    BY <2>1 DEF Res
  <2>3. <<b>> # <<p, b>>
    OBVIOUS
  <2>4. f = Res(0, "forward", <<b>>)
    BY <1>9, <1>12, <2>2, <2>3
  <2>5. r = [h |-> to(0, 0, 0), act |-> "forward", bytes |-> <<b>>]
    BY <1>1, <1>3, <2>1, <2>4 DEF Res
  <2> QED BY <1>2, <1>7, <1>12, <2>5 DEF Outcome, HoldsNone, r
<1>13. CASE g.book = 1 /\ b = x
  <2>1. k = Res(0, "trigger", <<>>)
    BY <1>8, <1>13
  <2>2. r = [h |-> to(0, 0, 0), act |-> "bookmark", bytes |-> <<>>]
    BY <1>1, <1>3, <1>7, <2>1 DEF Res
  <2> QED BY <1>10, <1>13, <2>2 DEF Outcome, HoldsNone, r
<1>14. CASE g.book = 1 /\ b # x
  <2>1. k = Res(0, "forward", <<p, b>>)
    BY <1>8, <1>14
  <2>2. k.bytes = <<p, b>>
    BY <2>1 DEF Res
  <2>3. CASE f = Res(0, "forward", <<p, b>>)
    <3>1. r = [h |-> to(0, 0, 0), act |-> "forward", bytes |-> <<p, b>>]
      BY <1>1, <1>3, <2>1, <2>3 DEF Res
    <3> QED BY <1>14, <3>1 DEF Outcome, HoldsNone, r
  <2>4. CASE f = Res(0, "trigger", <<>>) /\ Enabled(BrowserTrigger, p)
    <3>1. r = [h |-> to(0, 0, 0), act |-> "browser", bytes |-> <<>>]
      BY <1>1, <1>3, <2>1, <2>4 DEF Res
    <3> QED BY <1>10, <1>14, <2>4, <3>1 DEF Outcome, HoldsNone, r
  <2> QED BY <1>9, <2>2, <2>3, <2>4
<1> QED BY <1>7, <1>11, <1>12, <1>13, <1>14 DEF r

\* Without both, the browser detector is the only one, if it is one.
LEMMA BrowserOnly ==
  ASSUME NEW p, NEW g, NEW b, NEW fast \in BOOLEAN, Steady(g),
         g.term = "normal", TermSeq(g.term, b) = "normal",
         SnippetTrigger = <<>>, BookmarkTrigger = <<>>,
         BrowserTrigger  = <<>> \/ Enabled(BrowserTrigger, p)
  PROVE  Outcome(g, b, p, HandlerFeed(g, b, fast))
<1> DEFINE s == FeedWithTime(g.snip, SnippetTrigger, b, fast)
           k == Cascade(g.book, BookmarkTrigger, s.bytes)
           f == Cascade(g.brow, BrowserTrigger, k.bytes)
           r == HandlerFeed(g, b, fast)
           to(sn, bk, br) == [term |-> "normal", snip |-> sn, book |-> bk, brow |-> br]
<1>1. /\ s.act = "trigger" => r = [h |-> to(s.n, g.book, g.brow), act |-> "snippets", bytes |-> <<>>]
      /\ s.act = "buffer" => r = [h |-> to(s.n, g.book, g.brow), act |-> "forward", bytes |-> <<>>]
      /\ s.act = "forward" /\ k.act = "trigger" =>
           r = [h |-> to(s.n, k.n, g.brow), act |-> "bookmark", bytes |-> <<>>]
      /\ s.act = "forward" /\ k.act = "forward" /\ f.act = "trigger" =>
           r = [h |-> to(s.n, k.n, f.n), act |-> "browser", bytes |-> <<>>]
      /\ s.act = "forward" /\ k.act = "forward" /\ f.act = "forward" =>
           r = [h |-> to(s.n, k.n, f.n), act |-> "forward", bytes |-> f.bytes]
  BY FromStages
<1>2. g.snip = 0
  BY DEF Steady
<1>3. s = Res(0, "forward", <<b>>)
  BY <1>2 DEF FeedWithTime
<1>4. s.bytes = <<b>>
  BY <1>3 DEF Res
<1>5. g.book = 0 /\ g.brow \in {0, 1} /\ (BrowserTrigger = <<>> => g.brow = 0)
  BY DEF Steady
<1>6. k = Res(0, "forward", <<b>>)
  <2>1. k = Cascade(0, <<>>, <<b>>)
    BY <1>4, <1>5
  <2> QED BY <2>1, Disabled
<1>7. k.bytes = <<b>>
  BY <1>6 DEF Res
<1>8. \A x : BrowserTrigger = <<p, x>> =>
        /\ g.brow = 0 => f = IF b = p THEN Res(1, "forward", <<>>) ELSE Res(0, "forward", <<b>>)
        /\ g.brow = 1 => f = IF b = x THEN Res(0, "trigger", <<>>) ELSE Res(0, "forward", <<p, b>>)
  <2> SUFFICES ASSUME NEW x, BrowserTrigger = <<p, x>>
               PROVE  /\ g.brow = 0 => f = IF b = p THEN Res(1, "forward", <<>>) ELSE Res(0, "forward", <<b>>)
                      /\ g.brow = 1 => f = IF b = x THEN Res(0, "trigger", <<>>) ELSE Res(0, "forward", <<p, b>>)
    OBVIOUS
  <2>1. /\ Cascade(0, <<p, x>>, <<b>>) = IF b = p THEN Res(1, "forward", <<>>) ELSE Res(0, "forward", <<b>>)
        /\ Cascade(1, <<p, x>>, <<b>>) = IF b = x THEN Res(0, "trigger", <<>>) ELSE Res(0, "forward", <<p, b>>)
    BY Stage
  <2>2. f = Cascade(g.brow, <<p, x>>, <<b>>)
    BY <1>7
  <2> HIDE DEF s, k, f
  <2> QED BY <1>5, <2>1, <2>2
<1>9. BrowserTrigger = <<>> => f = Res(0, "forward", <<b>>)
  <2> SUFFICES ASSUME BrowserTrigger = <<>> PROVE f = Res(0, "forward", <<b>>)
    OBVIOUS
  <2>1. f = Cascade(0, <<>>, <<b>>)
    BY <1>5, <1>7
  <2> QED BY <2>1, Disabled
<1> HIDE DEF s, k, f, r
<1>10. TriggerOf("browser") = BrowserTrigger
  BY DEF TriggerOf
<1>11. CASE f = Res(0, "forward", IF HoldsNone(g) THEN <<b>> ELSE <<p, b>>)
  <2>1. r = [h |-> to(0, 0, 0), act |-> "forward", bytes |-> IF HoldsNone(g) THEN <<b>> ELSE <<p, b>>]
    BY <1>1, <1>3, <1>6, <1>11 DEF Res
  <2> QED BY <2>1 DEF Outcome, HoldsNone, r
<1>12. CASE f = Res(1, "forward", <<>>) /\ g.brow = 0 /\ b = p /\ BrowserTrigger # <<>>
  <2>1. r = [h |-> to(0, 0, 1), act |-> "forward", bytes |-> <<>>]
    BY <1>1, <1>3, <1>6, <1>12 DEF Res
  <2> QED BY <1>2, <1>5, <1>12, <2>1 DEF Outcome, Steady, HoldsNone, r
<1>13. CASE f = Res(0, "trigger", <<>>) /\ g.brow = 1 /\ Enabled(BrowserTrigger, p)
  <2>1. r = [h |-> to(0, 0, 0), act |-> "browser", bytes |-> <<>>]
    BY <1>1, <1>3, <1>6, <1>13 DEF Res
  <2> QED BY <1>10, <1>13, <2>1 DEF Outcome, HoldsNone, r
<1>14. CASE BrowserTrigger = <<>>
  <2>1. HoldsNone(g)
    BY <1>2, <1>5, <1>14 DEF HoldsNone
  <2> QED BY <1>9, <1>11, <1>14, <2>1 DEF r
<1>15. CASE Enabled(BrowserTrigger, p)
  <2>1. PICK x : BrowserTrigger = <<p, x>>
    BY <1>15 DEF Enabled
  <2>2. /\ g.brow = 0 => f = IF b = p THEN Res(1, "forward", <<>>) ELSE Res(0, "forward", <<b>>)
        /\ g.brow = 1 => f = IF b = x THEN Res(0, "trigger", <<>>) ELSE Res(0, "forward", <<p, b>>)
    BY <1>8, <2>1
  <2>3. BrowserTrigger # <<>>
    BY <2>1
  <2>4. CASE g.brow = 0
    <3>1. HoldsNone(g)
      BY <1>2, <1>5, <2>4 DEF HoldsNone
    <3> QED BY <1>11, <1>12, <2>2, <2>3, <2>4, <3>1 DEF r
  <2>5. CASE g.brow = 1
    <3>1. ~HoldsNone(g)
      BY <2>5 DEF HoldsNone
    <3> QED BY <1>11, <1>13, <1>15, <2>2, <2>5, <3>1 DEF r
  <2> QED BY <1>5, <2>4, <2>5
<1> QED BY <1>14, <1>15 DEF r

\* The invariant of the cascade: what is owed, and why it is in one detector.
CascadeInv == Steady(h) /\ KeysInOrder

\* A byte of a terminal sequence passes the detectors by.
LEMMA SequenceByte ==
  ASSUME NEW g, NEW b, NEW fast, g.term # "normal" \/ TermSeq(g.term, b) # "normal", Steady(g)
  PROVE  LET r == HandlerFeed(g, b, fast)
         IN  r.act = "sequence" /\ Steady(r.h) /\ Held(r.h) = Held(g)
<1> DEFINE r == HandlerFeed(g, b, fast)
<1>1. r = [h |-> [term |-> TermSeq(g.term, b), snip |-> g.snip, book |-> g.book, brow |-> g.brow],
           act |-> "sequence", bytes |-> <<b>>]
  BY DEF HandlerFeed
<1> HIDE DEF r
<1>2. r.act = "sequence" /\ r.h.snip = g.snip /\ r.h.book = g.book /\ r.h.brow = g.brow
  BY <1>1
<1> QED BY <1>2 DEF Steady, Held, r

\* FeedByte, the only step that changes the detectors, keeps the invariant.
LEMMA FeedByteKeeps ==
  ASSUME TwoKeys, CascadeInv, FeedByte
  PROVE  CascadeInv'
<1>1. PICK p : /\ SnippetTrigger  = <<>> \/ Enabled(SnippetTrigger, p)
               /\ BookmarkTrigger = <<>> \/ Enabled(BookmarkTrigger, p)
               /\ BrowserTrigger  = <<>> \/ Enabled(BrowserTrigger, p)
  BY SharedKey
<1> DEFINE b == Head(rest)
           all == Append(owed, b)
           due(r) == CASE r.act = "sequence" -> owed
                       [] r.act = "forward"  -> all
                       [] OTHER              -> DropLast(all, Len(TriggerOf(r.act)))
<1>2. PICK fast \in BOOLEAN :
        LET r == HandlerFeed(h, b, fast)
        IN  /\ h' = r.h
            /\ garbled' = (garbled \/ (r.act # "sequence" /\ ~IsPrefix(r.bytes, due(r))))
            /\ owed' = IF r.act = "sequence" \/ ~IsPrefix(r.bytes, due(r)) THEN due(r)
                       ELSE SubSeq(due(r), Len(r.bytes) + 1, Len(due(r)))
  BY DEF FeedByte
<1> DEFINE r == HandlerFeed(h, b, fast)
<1>3. /\ h' = r.h
      /\ garbled' = (garbled \/ (r.act # "sequence" /\ ~IsPrefix(r.bytes, due(r))))
      /\ owed' = IF r.act = "sequence" \/ ~IsPrefix(r.bytes, due(r)) THEN due(r)
                 ELSE SubSeq(due(r), Len(r.bytes) + 1, Len(due(r)))
  BY <1>2
<1>4. Steady(h) /\ ~garbled /\ owed = Held(h)
  BY DEF CascadeInv, KeysInOrder
<1>5. SUFFICES Steady(r.h) /\ ~garbled' /\ owed' = Held(r.h)
  BY <1>3 DEF CascadeInv, KeysInOrder
<1>6. CASE h.term # "normal" \/ TermSeq(h.term, b) # "normal"
  <2>1. r.act = "sequence" /\ Steady(r.h) /\ Held(r.h) = Held(h)
    BY <1>4, <1>6, SequenceByte
  <2> HIDE DEF r
  <2> QED BY <1>3, <1>4, <2>1
<1>7. CASE h.term = "normal" /\ TermSeq(h.term, b) = "normal"
  <2>1. Outcome(h, b, p, r)
    <3>1. CASE Enabled(SnippetTrigger, p)
      BY <1>1, <1>4, <1>7, <3>1, SnippetFirst
    <3>2. CASE SnippetTrigger = <<>> /\ Enabled(BookmarkTrigger, p)
      BY <1>1, <1>4, <1>7, <3>2, BookmarkFirst
    <3>3. CASE SnippetTrigger = <<>> /\ BookmarkTrigger = <<>>
      BY <1>1, <1>4, <1>7, <3>3, BrowserOnly
    <3> QED BY <1>1, <3>1, <3>2, <3>3
  <2>2. all = IF HoldsNone(h) THEN <<b>> ELSE <<p, b>>
    <3>1. owed = IF HoldsNone(h) THEN <<>> ELSE <<p>>
      BY <1>1, <1>4, HeldIs
    <3> HIDE DEF b
    <3>2. Append(<<>>, b) = <<b>> /\ Append(<<p>>, b) = <<p, b>>
      BY Joined
    <3> QED BY <3>1, <3>2
  <2> HIDE DEF r, b, all, due
  <2>3. Steady(r.h)
    BY <2>1 DEF Outcome, Steady, HoldsNone
  <2>4. Held(r.h) = IF HoldsNone(r.h) THEN <<>> ELSE <<p>>
    BY <1>1, <2>3, HeldIs
  <2>5. ASSUME NEW q, q \in {<<>>, <<b>>, <<p, b>>}
        PROVE  /\ IsPrefix(<<>>, q) /\ IsPrefix(q, q)
               /\ SubSeq(q, Len(q) + 1, Len(q)) = <<>>
               /\ SubSeq(q, Len(<<>>) + 1, Len(q)) = q
    <3> DEFINE S == {p, b}
    <3>1. q \in Seq(S) /\ Len(q) \in Nat
      <4>1. <<>> \in Seq(S) /\ <<b>> \in Seq(S) /\ <<p, b>> \in Seq(S)
        OBVIOUS
      <4>2. q \in Seq(S)
        BY <2>5, <4>1
      <4> HIDE DEF S
      <4> QED BY <4>2
    <3>2. SubSeq(q, 1, 0) = <<>> /\ SubSeq(<<>>, 1, 0) = <<>> /\ SubSeq(q, Len(q) + 1, Len(q)) = <<>>
      BY <3>1, SubSeqEmpty
    <3>3. SubSeq(q, 1, Len(q)) = q
      BY <3>1
    <3> QED BY <3>1, <3>2, <3>3 DEF IsPrefix
  <2>6. CASE r.act = "forward" /\ r.bytes = <<>> /\ b = p /\ HoldsNone(h) /\ ~HoldsNone(r.h)
    <3>1. due(r) = <<b>>
      BY <2>2, <2>6 DEF due
    <3>2. IsPrefix(r.bytes, due(r)) /\ SubSeq(due(r), Len(r.bytes) + 1, Len(due(r))) = <<b>>
      BY <2>5, <2>6, <3>1
    <3> QED BY <1>3, <1>4, <2>3, <2>4, <2>6, <3>2
  <2>7. CASE r.act = "forward" /\ HoldsNone(r.h)
               /\ r.bytes = IF HoldsNone(h) THEN <<b>> ELSE <<p, b>>
    <3>1. due(r) = r.bytes /\ due(r) \in {<<b>>, <<p, b>>}
      BY <2>2, <2>7 DEF due
    <3>2. IsPrefix(r.bytes, due(r)) /\ SubSeq(due(r), Len(r.bytes) + 1, Len(due(r))) = <<>>
      BY <2>5, <3>1
    <3> QED BY <1>3, <1>4, <2>3, <2>4, <2>7, <3>2
  <2>8. CASE r.act \in {"snippets", "bookmark", "browser"} /\ HoldsNone(r.h) /\ ~HoldsNone(h)
               /\ r.bytes = <<>> /\ Enabled(TriggerOf(r.act), p)
    <3>1. Len(TriggerOf(r.act)) = 2
      BY <2>8, TriggerLength
    <3>2. all = <<p, b>>
      BY <2>2, <2>8
    <3>3. DropLast(all, 2) = <<>>
      <4>1. Len(<<p, b>>) = 2 /\ SubSeq(<<p, b>>, 1, 0) = <<>>
        BY Parts
      <4> QED BY <3>2, <4>1 DEF DropLast
    <3>4. due(r) = <<>>
      BY <2>8, <3>1, <3>3 DEF due
    <3>5. IsPrefix(r.bytes, due(r)) /\ SubSeq(due(r), Len(r.bytes) + 1, Len(due(r))) = <<>>
      BY <2>5, <2>8, <3>4
    <3> QED BY <1>3, <1>4, <2>3, <2>4, <2>8, <3>5
  <2> QED BY <2>1, <2>6, <2>7, <2>8 DEF Outcome
<1> QED BY <1>6, <1>7

\* No other step touches the detectors or the history of their bytes.
LEMMA CascadeStep ==
  ASSUME TwoKeys, CascadeInv, [SessionNext]_sessionVars
  PROVE  CascadeInv'
<1>1. CASE FeedByte
  BY <1>1, FeedByteKeeps
<1>2. CASE UNCHANGED keys
  BY <1>2 DEF CascadeInv, KeysInOrder, keys, Steady, Held
<1>3. CASE Reader \/ Remote
  <2>1. UNCHANGED keys
    BY <1>3 DEF Reader, ReadStdin, SendChunk, ReaderWoken, StdinEnds, ReaderLeaves,
                Remote, RemoteAsks, RemoteReads, RemoteEnds
  <2> QED BY <1>2, <2>1
<1>4. CASE Main /\ ~FeedByte
  <2>1. UNCHANGED keys
    BY <1>4 DEF Main, TimerFires, ChannelData, ChannelEnds, StdinClosed, StdinData, ChunkDone, PickerKey,
                FormKey, DropReceiver, JoinReader, EndOrBrowse, BrowserReturns
  <2> QED BY <1>2, <2>1
<1>5. CASE Ended \/ UNCHANGED sessionVars
  BY <1>2, <1>5 DEF Ended, sessionVars
<1> QED BY <1>1, <1>3, <1>4, <1>5 DEF SessionNext

\* Initially nothing is held and nothing is owed.
LEMMA CascadeBegins == TwoKeys /\ SessionInit => CascadeInv
<1> SUFFICES ASSUME TwoKeys, SessionInit PROVE CascadeInv
  OBVIOUS
<1>1. h = Quiet /\ owed = <<>> /\ garbled = FALSE
  BY DEF SessionInit
<1>2. Steady(h) /\ HoldsNone(h)
  BY <1>1 DEF Quiet, Steady, HoldsNone
<1>3. Held(h) = <<>>
  BY <1>2, SharedKey, HeldIs
<1> QED BY <1>1, <1>2, <1>3 DEF CascadeInv, KeysInOrder

\* Whatever is typed, however it is read and timed: the trigger detection of an
\* interactive session (SessionEscapeHandler::feed_with_time(), ssh/snippet.rs:341)
\* neither loses, doubles nor reorders keys that are not part of an escape sequence,
\* if the triggers are like the default ones or disabled.
THEOREM KeysStayInOrder ==
  ASSUME TwoKeys
  PROVE  SessionSpec => []KeysInOrder
<1>1. TwoKeys
  OBVIOUS
<1>2. SessionInit => CascadeInv
  BY <1>1, CascadeBegins
<1>3. CascadeInv /\ [SessionNext]_sessionVars => CascadeInv'
  BY <1>1, CascadeStep
<1>4. CascadeInv => KeysInOrder
  BY DEF CascadeInv
<1> QED BY <1>2, <1>3, <1>4, PTL DEF SessionSpec

================================================================================
