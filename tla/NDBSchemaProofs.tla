------------------------- MODULE NDBSchemaProofs -------------------------
(***************************************************************************)
(* Lemmas about the loading of rows in NDBSchema: what a queue of events   *)
(* makes of a database, and how a change of the system, the event that     *)
(* tells of it and the dumps go together.                                  *)
(***************************************************************************)
EXTENDS NDBSchema, TLAPS, WellFoundedInduction

-----------------------------------------------------------------------------
(* Induction over the naturals and along sequences, stated for sets and      *)
(* functions: for the loops that the recursive functions model.              *)

\* Only the empty sequence has no element.
LEMMA NoElement == ASSUME NEW S, NEW s \in Seq(S), Len(s) = 0 PROVE s = <<>>
  OBVIOUS

\* The elements of two sequences that were joined.
LEMMA JoinedElements ==
    ASSUME NEW S, NEW s \in Seq(S), NEW t \in Seq(S)
    PROVE  /\ s \o t \in Seq(S) /\ Len(s \o t) = Len(s) + Len(t)
           /\ \A i \in 1..Len(s) : (s \o t)[i] = s[i]
           /\ \A i \in 1..Len(t) : (s \o t)[Len(s) + i] = t[i]
  OBVIOUS

\* The elements of the rest of a sequence.
LEMMA RestElements ==
    ASSUME NEW S, NEW s \in Seq(S), NEW m \in 1..(Len(s) + 1)
    PROVE  /\ SubSeq(s, m, Len(s)) \in Seq(S)
           /\ Len(SubSeq(s, m, Len(s))) = Len(s) - m + 1
           /\ \A i \in 1..(Len(s) - m + 1) : SubSeq(s, m, Len(s))[i] = s[m + i - 1]
<1>1. CASE m <= Len(s)
  BY <1>1
<1>2. CASE m = Len(s) + 1
  BY <1>2
<1>. QED
  BY <1>1, <1>2

\* A set of naturals has a least element.
LEMMA LeastNat ==
    ASSUME NEW T, T \subseteq Nat, T # {}
    PROVE  \E x \in T : \A y \in T : x <= y
<1>. DEFINE R == OpToRel(<, Nat)
<1>1. IsWellFoundedOn(R, Nat)
  BY NatLessThanWellFounded, Zenon
<1>2. \E x \in T : \A y \in T : ~(<<y, x>> \in R)
  BY <1>1, WFMin, Zenon
<1>3. \A x, y \in Nat : y < x => <<y, x>> \in R
  BY DEF OpToRel
<1>4. \E x \in T : \A y \in T : ~(y < x)
  BY <1>2, <1>3, Zenon
<1>. QED
  BY <1>4

\* Induction, for a set.
LEMMA NatSetInduction ==
    ASSUME NEW P, 0 \in P, \A n \in Nat : n \in P => n + 1 \in P
    PROVE  Nat \subseteq P
<1>. SUFFICES ASSUME Nat \ P # {} PROVE FALSE
  OBVIOUS
<1>1. PICK x \in Nat \ P : \A y \in Nat \ P : x <= y
  BY LeastNat, Zenon
<1>2. x - 1 \in Nat /\ x - 1 \notin Nat \ P
  BY <1>1
<1>. QED
  BY <1>2, x - 1 + 1 = x

\* f is the loop over list that begins with s0 and whose body is G.
Loops(f, G, s0, list) ==
    /\ f[0] = s0
    /\ \A i \in 1..Len(list) : f[i] = G[<<f[i - 1], list[i]>>]

\* A loop over a sequence has an outcome.
LEMMA FoldExists ==
    ASSUME NEW S, NEW E, NEW G \in [S \X E -> S], NEW s0 \in S, NEW list \in Seq(E)
    PROVE  \E f \in [0..Len(list) -> S] : Loops(f, G, s0, list)
<1>. DEFINE Sol(n, f) == f[0] = s0 /\ \A i \in 1..n : f[i] = G[<<f[i - 1], list[i]>>]
            P == {n \in Nat : n <= Len(list) => \E f \in [0..n -> S] : Sol(n, f)}
<1>1. 0 \in P
  <2>1. [i \in 0..0 |-> s0] \in [0..0 -> S] /\ Sol(0, [i \in 0..0 |-> s0])
    OBVIOUS
  <2>. QED
    BY <2>1, Zenon
<1>2. ASSUME NEW n \in Nat, n \in P PROVE n + 1 \in P
  <2>. SUFFICES ASSUME n + 1 <= Len(list) PROVE \E f \in [0..(n+1) -> S] : Sol(n + 1, f)
    OBVIOUS
  <2>1. PICK g \in [0..n -> S] : Sol(n, g)
    BY <1>2
  <2>. DEFINE h == [i \in 0..(n+1) |-> IF i <= n THEN g[i] ELSE G[<<g[n], list[n + 1]>>]]
  <2>2. list[n + 1] \in E /\ g[n] \in S
    OBVIOUS
  <2>3. G[<<g[n], list[n + 1]>>] \in S
    BY <2>2
  <2>4. h \in [0..(n+1) -> S]
    BY <2>3
  <2>5. Sol(n + 1, h)
    <3>1. h[0] = s0
      BY <2>1
    <3>2. ASSUME NEW i \in 1..(n+1) PROVE h[i] = G[<<h[i - 1], list[i]>>]
      <4>1. CASE i <= n
        BY <2>1, <4>1
      <4>2. CASE i = n + 1
        <5>1. h[i] = G[<<g[n], list[n + 1]>>] /\ h[n] = g[n] /\ i - 1 = n
          BY <4>2
        <5>. QED
          BY <4>2, <5>1, Zenon
      <4>. QED
        BY <4>1, <4>2
    <3>. QED
      BY <3>1, <3>2, Zenon
  <2>. QED
    BY <2>4, <2>5, Zenon
<1>. HIDE DEF P
<1>3. Len(list) \in P
  BY <1>1, <1>2, NatSetInduction
<1>. QED
  BY <1>3 DEF P, Loops

\* ... and only one.
LEMMA LoopsAgree ==
    ASSUME NEW E, NEW list \in Seq(E), NEW G, NEW s0, NEW f, NEW g,
           Loops(f, G, s0, list), Loops(g, G, s0, list)
    PROVE  \A i \in 0..Len(list) : f[i] = g[i]
<1>. DEFINE P == {n \in Nat : n <= Len(list) => f[n] = g[n]}
<1>1. 0 \in P
  BY DEF Loops
<1>2. ASSUME NEW n \in Nat, n \in P PROVE n + 1 \in P
  <2>. SUFFICES ASSUME n + 1 <= Len(list) PROVE f[n + 1] = g[n + 1]
    OBVIOUS
  <2>1. n + 1 \in 1..Len(list) /\ n + 1 - 1 = n /\ f[n] = g[n]
    BY <1>2
  <2>2. f[n + 1] = G[<<f[n], list[n + 1]>>] /\ g[n + 1] = G[<<g[n], list[n + 1]>>]
    BY <2>1 DEF Loops
  <2>. QED
    BY <2>1, <2>2
<1>. HIDE DEF P
<1>3. Nat \subseteq P
  BY <1>1, <1>2, NatSetInduction
<1>. QED
  BY <1>3 DEF P

\* The last round of a loop.
LEMMA LoopsLast ==
    ASSUME NEW E, NEW list \in Seq(E), NEW e \in E, NEW G, NEW s0, NEW f,
           Loops(f, G, s0, Append(list, e))
    PROVE  /\ Loops(f, G, s0, list)
           /\ f[Len(Append(list, e))] = G[<<f[Len(list)], e>>]
<1>1. /\ Len(Append(list, e)) = Len(list) + 1 /\ Append(list, e)[Len(list) + 1] = e
      /\ \A i \in 1..Len(list) : Append(list, e)[i] = list[i]
  OBVIOUS
<1>2. ASSUME NEW i \in 1..Len(list) PROVE f[i] = G[<<f[i - 1], list[i]>>]
  BY <1>1 DEF Loops
<1>3. f[Len(list) + 1] = G[<<f[Len(list) + 1 - 1], e>>] /\ Len(list) + 1 - 1 = Len(list)
  BY <1>1 DEF Loops
<1>. QED
  BY <1>1, <1>2, <1>3 DEF Loops

\* Induction over sequences, for a set.
LEMMA SeqInduction ==
    ASSUME NEW E, NEW P, <<>> \in P,
           \A s \in Seq(E) : \A e \in E : s \in P => Append(s, e) \in P
    PROVE  Seq(E) \subseteq P
<1>. DEFINE Q == {n \in Nat : \A s \in Seq(E) : Len(s) = n => s \in P}
<1>1. 0 \in Q
  BY NoElement
<1>2. ASSUME NEW n \in Nat, n \in Q PROVE n + 1 \in Q
  <2>. SUFFICES ASSUME NEW s \in Seq(E), Len(s) = n + 1 PROVE s \in P
    OBVIOUS
  <2>. DEFINE t == SubSeq(s, 1, n)
  <2>1. t \in Seq(E) /\ Len(t) = n /\ s[n + 1] \in E
    OBVIOUS
  <2>2. s = Append(t, s[n + 1])
    OBVIOUS
  <2>3. t \in P
    BY <1>2, <2>1, Zenon
  <2>. HIDE DEF t
  <2>. QED
    BY <2>1, <2>2, <2>3, Zenon
<1>. HIDE DEF Q
<1>3. Nat \subseteq Q
  BY <1>1, <1>2, NatSetInduction
<1>. QED
  BY <1>3 DEF Q

-----------------------------------------------------------------------------
(* What the database is to be, and what is still to be loaded. *)

Rec == Rows \X Values
Ev == Rec \cup {Marker}
Db == [Rows -> Values]

\* What the database is to be when the objects of the system are k.
View(k) == [k EXCEPT ![Zero] = 1]
Consistent(k) ==
    /\ k \in Db /\ k[Zero] = Absent
    /\ \A c \in Children : k[c] # Absent => View(k)[Parent[c]] # Absent

ZeroOnly == [Empty EXCEPT ![Zero] = 1]

\* The children of k, as far as their parents are in d.
WithChildren(k, d) ==
    [r \in Rows |-> IF r \notin Children THEN d[r]
                    ELSE IF d[Parent[r]] = Absent THEN Absent ELSE k[r]]

\* The last events about the children of a link that is gone remove them.
Orphaned(k, es) ==
    \A c \in Children : k[c] = Absent /\ View(k)[Parent[c]] = Absent =>
        \A d \in Db : d[c] = Absent => Replay(d, es)[c] = Absent

\* Before the links are dumped, between the dumps, and after them: es are the
\* events since bind(), d is the database with its queue and the dump loaded.
Undumped(k, es) == Replay(View(k), es) = View(k) /\ Orphaned(k, es)
LinksDumped(k, es, d) ==
    /\ d \in Db /\ \A c \in Children : d[c] = Absent
    /\ Replay(WithChildren(k, d), es) = View(k)
Dumped(k, es, d) == d \in Db /\ Replay(d, es) = View(k)

-----------------------------------------------------------------------------
(* Loading a sequence of events. *)

\* The fake interface, the interfaces and what refers to them are apart.
LEMMA RowsFacts ==
    /\ Zero \in Rows /\ Links \subseteq Rows /\ Children \subseteq Rows
    /\ Zero \notin Children /\ Zero \notin Links
    /\ \A c \in Children : c \notin Links /\ Parent[c] \in Rows /\ Parent[c] \notin Children
    /\ 0 \in Values /\ 1 \in Values /\ Absent = 0 /\ Absent # 1
  BY SchemaAssumption DEF Rows, Objs, Values, Absent

\* A record of netlink is not the marker of set_ready().
LEMMA RecIsNoMarker ==
    ASSUME NEW e \in Rec
    PROVE  /\ e # Marker /\ e[1] \in Rows /\ e[2] \in Values
           /\ e = <<e[1], e[2]>> /\ e \in Ev
<1>1. PICK o \in Rows, v \in Values : e = <<o, v>>
  BY DEF Rec
<1>2. Len(<<o, v>>) = 2 /\ Len(Marker) = 1
  BY DEF Marker
<1>. QED
  BY <1>1, <1>2 DEF Ev

\* load_netlink() leaves a database.
LEMMA LoadNetlinkType ==
    ASSUME NEW d \in Db, NEW o \in Rows, NEW v \in Values
    PROVE  load_netlink(d, o, v) \in Db
  BY RowsFacts DEF load_netlink, Db, Absent

\* So does whatever the manager takes from its queue.
LEMMA LoadType ==
    ASSUME NEW d \in Db, NEW e \in Ev
    PROVE  Load(d, e) \in Db
<1>1. CASE e = Marker
  BY <1>1 DEF Load
<1>2. CASE e \in Rec
  BY <1>2, RecIsNoMarker, LoadNetlinkType DEF Load
<1>. QED
  BY <1>1, <1>2 DEF Ev

LoadFn == [x \in Db \X Ev |-> Load(x[1], x[2])]

\* Load as a function, for FoldExists.
LEMMA LoadFnType ==
    /\ LoadFn \in [Db \X Ev -> Db]
    /\ \A d \in Db, e \in Ev : LoadFn[<<d, e>>] = Load(d, e)
<1>1. ASSUME NEW x \in Db \X Ev PROVE Load(x[1], x[2]) \in Db
  BY LoadType
<1>2. ASSUME NEW d \in Db, NEW e \in Ev PROVE LoadFn[<<d, e>>] = Load(d, e)
  <2>1. <<d, e>> \in Db \X Ev
    OBVIOUS
  <2>. QED
    BY <2>1 DEF LoadFn
<1>3. LoadFn \in [Db \X Ev -> Db]
  BY <1>1 DEF LoadFn
<1>. QED
  BY <1>2, <1>3

\* Replay is the loop of the manager over its queue.
LEMMA ReplayLoop ==
    ASSUME NEW d \in Db, NEW es \in Seq(Ev)
    PROVE  \E f \in [0..Len(es) -> Db] : Loops(f, LoadFn, d, es) /\ Replay(d, es) = f[Len(es)]
<1>. DEFINE Round(f) == [i \in 0..Len(es) |-> IF i = 0 THEN d ELSE Load(f[i - 1], es[i])]
            loaded == CHOOSE f : f = Round(f)
<1>1. PICK f \in [0..Len(es) -> Db] : Loops(f, LoadFn, d, es)
  BY LoadFnType, FoldExists, Zenon
<1>2. \A i \in 1..Len(es) : f[i] = Load(f[i - 1], es[i])
  <2>. SUFFICES ASSUME NEW i \in 1..Len(es) PROVE f[i] = Load(f[i - 1], es[i])
    OBVIOUS
  <2>1. f[i - 1] \in Db /\ es[i] \in Ev
    OBVIOUS
  <2>2. f[i] = LoadFn[<<f[i - 1], es[i]>>]
    BY <1>1 DEF Loops
  <2>. QED
    BY <2>1, <2>2, LoadFnType
<1>3. f = Round(f)
  BY <1>1, <1>2 DEF Loops
<1>4. loaded = Round(loaded)
  BY <1>3
<1>5. Replay(d, es) = loaded[Len(es)]
  BY DEF Replay
<1>. HIDE DEF loaded
<1>6. loaded[0] = d /\ \A i \in 1..Len(es) : loaded[i] = Load(loaded[i - 1], es[i])
  <2>1. \A i \in 0..Len(es) : loaded[i] = Round(loaded)[i]
    BY <1>4, Zenon
  <2>2. Round(loaded)[0] = d
    OBVIOUS
  <2>3. \A i \in 1..Len(es) : Round(loaded)[i] = Load(loaded[i - 1], es[i])
    OBVIOUS
  <2>. HIDE DEF Round
  <2>. QED
    BY <2>1, <2>2, <2>3
<1>7. \A n \in 0..Len(es) : loaded[n] \in Db
  <2>. DEFINE P == {n \in Nat : n <= Len(es) => loaded[n] \in Db}
  <2>1. 0 \in P
    BY <1>6
  <2>2. ASSUME NEW n \in Nat, n \in P PROVE n + 1 \in P
    <3>. SUFFICES ASSUME n + 1 <= Len(es) PROVE loaded[n + 1] \in Db
      OBVIOUS
    <3>1. loaded[n + 1] = Load(loaded[n + 1 - 1], es[n + 1]) /\ n + 1 - 1 = n
      BY <1>6
    <3>2. loaded[n] \in Db /\ es[n + 1] \in Ev
      BY <2>2
    <3>. QED
      BY <3>1, <3>2, LoadType
  <2>. HIDE DEF P
  <2>3. Nat \subseteq P
    BY <2>1, <2>2, NatSetInduction
  <2>. QED
    BY <2>3 DEF P
<1>8. loaded \in [0..Len(es) -> Db]
  BY <1>4, <1>7
<1>9. Loops(loaded, LoadFn, d, es)
  <2>1. ASSUME NEW i \in 1..Len(es) PROVE loaded[i] = LoadFn[<<loaded[i - 1], es[i]>>]
    <3>1. loaded[i - 1] \in Db /\ es[i] \in Ev
      BY <1>7
    <3>. QED
      BY <1>6, <3>1, LoadFnType
  <2>. QED
    BY <1>6, <2>1 DEF Loops
<1>. QED
  BY <1>5, <1>8, <1>9

\* An empty queue changes nothing.
LEMMA ReplayEmpty == ASSUME NEW d \in Db PROVE Replay(d, <<>>) = d
<1>1. <<>> \in Seq(Ev) /\ Len(<<>>) = 0
  OBVIOUS
<1>2. PICK f \in [0..0 -> Db] : Loops(f, LoadFn, d, <<>>) /\ Replay(d, <<>>) = f[0]
  BY <1>1, ReplayLoop, Zenon
<1>. QED
  BY <1>2 DEF Loops

\* A queue of events leaves a database.
LEMMA ReplayType ==
    ASSUME NEW d \in Db, NEW es \in Seq(Ev)
    PROVE  Replay(d, es) \in Db
  BY ReplayLoop

\* The last event of a queue is loaded last.
LEMMA ReplayAppend ==
    ASSUME NEW d \in Db, NEW es \in Seq(Ev), NEW e \in Ev
    PROVE  Replay(d, Append(es, e)) = Load(Replay(d, es), e)
<1>1. Append(es, e) \in Seq(Ev)
  OBVIOUS
<1>2. PICK f \in [0..Len(Append(es, e)) -> Db] :
         /\ Loops(f, LoadFn, d, Append(es, e))
         /\ Replay(d, Append(es, e)) = f[Len(Append(es, e))]
  BY <1>1, ReplayLoop
<1>3. PICK g \in [0..Len(es) -> Db] : Loops(g, LoadFn, d, es) /\ Replay(d, es) = g[Len(es)]
  BY ReplayLoop
<1>4. Loops(f, LoadFn, d, es) /\ f[Len(Append(es, e))] = LoadFn[<<f[Len(es)], e>>]
  <2>1. Loops(f, LoadFn, d, Append(es, e))
    BY <1>2
  <2>2. Loops(f, LoadFn, d, es)
    BY <2>1, LoopsLast, Zenon
  <2>3. f[Len(Append(es, e))] = LoadFn[<<f[Len(es)], e>>]
    BY <2>1, LoopsLast
  <2>. QED
    BY <2>2, <2>3
<1>5. f[Len(es)] = g[Len(es)]
  <2>1. \A i \in 0..Len(es) : f[i] = g[i]
    BY <1>3, <1>4, LoopsAgree
  <2>. QED
    BY <2>1
<1>6. g[Len(es)] \in Db
  BY <1>3
<1>. QED
  BY <1>2, <1>3, <1>4, <1>5, <1>6, LoadFnType

\* A queue may be loaded in two parts.
LEMMA ReplayConcat ==
    ASSUME NEW d \in Db, NEW es \in Seq(Ev), NEW fs \in Seq(Ev)
    PROVE  Replay(d, es \o fs) = Replay(Replay(d, es), fs)
<1>. DEFINE P == {s \in Seq(Ev) : Replay(d, es \o s) = Replay(Replay(d, es), s)}
<1>1. <<>> \in P
  <2>1. es \o <<>> = es /\ Replay(d, es) \in Db /\ <<>> \in Seq(Ev)
    BY ReplayType
  <2>. QED
    BY <2>1, ReplayEmpty
<1>2. ASSUME NEW s \in Seq(Ev), NEW e \in Ev, s \in P PROVE Append(s, e) \in P
  <2>1. es \o Append(s, e) = Append(es \o s, e) /\ es \o s \in Seq(Ev) /\ Append(s, e) \in Seq(Ev)
    OBVIOUS
  <2>2. Replay(d, Append(es \o s, e)) = Load(Replay(d, es \o s), e)
    BY <2>1, ReplayAppend, Zenon
  <2>3. Replay(Replay(d, es), Append(s, e)) = Load(Replay(Replay(d, es), s), e)
    BY ReplayType, ReplayAppend
  <2>. QED
    BY <1>2, <2>1, <2>2, <2>3, Zenon
<1>. HIDE DEF P
<1>3. Seq(Ev) \subseteq P
  BY <1>1, <1>2, SeqInduction
<1>. QED
  BY <1>3 DEF P

-----------------------------------------------------------------------------
(* Two databases that differ on X only still do when both load the same      *)
(* events, if X has the children of its members.                             *)

Closed(X) == \A c \in Children : Parent[c] \in X => c \in X
AgreeBut(X, d, b) == \A r \in Rows \ X : d[r] = b[r]

\* Databases that agree outside of some rows and of what refers to them still do
\* so after an event.
LEMMA LoadLocal ==
    ASSUME NEW X, Closed(X), NEW d \in Db, NEW b \in Db, NEW e \in Ev, AgreeBut(X, d, b)
    PROVE  AgreeBut(X, Load(d, e), Load(b, e))
<1>1. CASE e = Marker
  BY <1>1 DEF Load
<1>2. CASE e \in Rec
  <2>. DEFINE o == e[1]  v == e[2]
  <2>0. e # Marker /\ o \in Rows /\ v \in Values
    BY <1>2, RecIsNoMarker
  <2>. HIDE DEF o, v
  <2>1. Load(d, e) = load_netlink(d, o, v) /\ Load(b, e) = load_netlink(b, o, v)
    BY <2>0 DEF Load, o, v
  <2>. SUFFICES ASSUME NEW r \in Rows \ X PROVE load_netlink(d, o, v)[r] = load_netlink(b, o, v)[r]
    BY <2>1 DEF AgreeBut
  <2>2. d[r] = b[r]
    BY DEF AgreeBut
  <2>3. CASE v = Absent
    BY <2>2, <2>3 DEF load_netlink
  <2>4. CASE v # Absent /\ r # o
    BY <2>2, <2>4 DEF load_netlink, Db
  <2>5. CASE v # Absent /\ r = o
    <3>1. o \in Children => d[Parent[o]] = b[Parent[o]]
      BY <2>5, RowsFacts DEF AgreeBut, Closed
    <3>. QED
      BY <2>2, <2>5, <3>1 DEF load_netlink, Db
  <2>. QED
    BY <2>3, <2>4, <2>5
<1>. QED
  BY <1>1, <1>2 DEF Ev

\* ... and after a queue of events.
LEMMA ReplayLocal ==
    ASSUME NEW X, Closed(X), NEW d \in Db, NEW b \in Db, NEW es \in Seq(Ev), AgreeBut(X, d, b)
    PROVE  AgreeBut(X, Replay(d, es), Replay(b, es))
<1>. DEFINE P == {s \in Seq(Ev) : AgreeBut(X, Replay(d, s), Replay(b, s))}
<1>1. <<>> \in P
  BY ReplayEmpty
<1>2. ASSUME NEW s \in Seq(Ev), NEW e \in Ev, s \in P PROVE Append(s, e) \in P
  <2>1. Replay(d, s) \in Db /\ Replay(b, s) \in Db /\ AgreeBut(X, Replay(d, s), Replay(b, s))
    BY <1>2, ReplayType
  <2>2. AgreeBut(X, Load(Replay(d, s), e), Load(Replay(b, s), e))
    BY <2>1, LoadLocal
  <2>3. Replay(d, Append(s, e)) = Load(Replay(d, s), e)
    BY ReplayAppend
  <2>4. Replay(b, Append(s, e)) = Load(Replay(b, s), e)
    BY ReplayAppend
  <2>5. Append(s, e) \in Seq(Ev)
    OBVIOUS
  <2>. QED
    BY <2>2, <2>3, <2>4, <2>5
<1>. HIDE DEF P
<1>3. Seq(Ev) \subseteq P
  BY <1>1, <1>2, SeqInduction
<1>. QED
  BY <1>3 DEF P

\* The same for one row that is present in both, or absent.
AlikeBut(o, d, b) == AgreeBut({o}, d, b) /\ (d[o] = Absent <=> b[o] = Absent)

\* Databases that differ at most in the value of one interface, which both have
\* or neither has, still do so after an event.
LEMMA LoadAlike ==
    ASSUME NEW o \in Rows, o \notin Children, NEW d \in Db, NEW b \in Db, NEW e \in Ev,
           AlikeBut(o, d, b)
    PROVE  AlikeBut(o, Load(d, e), Load(b, e))
<1>1. CASE e = Marker
  BY <1>1 DEF Load
<1>2. CASE e \in Rec
  <2>. DEFINE p == e[1]  v == e[2]
  <2>0. e # Marker /\ p \in Rows /\ v \in Values
    BY <1>2, RecIsNoMarker
  <2>. HIDE DEF p, v
  <2>1. Load(d, e) = load_netlink(d, p, v) /\ Load(b, e) = load_netlink(b, p, v)
    BY <2>0 DEF Load, p, v
  <2>2. \A r \in Rows : d[r] = Absent <=> b[r] = Absent
    BY DEF AlikeBut, AgreeBut
  <2>3. CASE v = Absent
    BY <2>0, <2>1, <2>3 DEF load_netlink, AlikeBut, AgreeBut
  <2>4. CASE v # Absent /\ p \in Children /\ d[Parent[p]] = Absent
    <3>1. Load(d, e) = d /\ Load(b, e) = b
      BY <2>1, <2>2, <2>4, RowsFacts DEF load_netlink
    <3>. QED
      BY <3>1
  <2>5. CASE v # Absent /\ ~(p \in Children /\ d[Parent[p]] = Absent)
    <3>1. Load(d, e) = [d EXCEPT ![p] = v] /\ Load(b, e) = [b EXCEPT ![p] = v]
      BY <2>1, <2>2, <2>5, RowsFacts DEF load_netlink
    <3>. QED
      BY <2>0, <3>1 DEF AlikeBut, AgreeBut, Db
  <2>. QED
    BY <2>3, <2>4, <2>5
<1>. QED
  BY <1>1, <1>2 DEF Ev

\* ... and after a queue of events.
LEMMA ReplayAlike ==
    ASSUME NEW o \in Rows, o \notin Children, NEW d \in Db, NEW b \in Db, NEW es \in Seq(Ev),
           AlikeBut(o, d, b)
    PROVE  AlikeBut(o, Replay(d, es), Replay(b, es))
<1>. DEFINE P == {s \in Seq(Ev) : AlikeBut(o, Replay(d, s), Replay(b, s))}
<1>1. <<>> \in P
  BY ReplayEmpty
<1>2. ASSUME NEW s \in Seq(Ev), NEW e \in Ev, s \in P PROVE Append(s, e) \in P
  <2>1. Replay(d, s) \in Db /\ Replay(b, s) \in Db /\ AlikeBut(o, Replay(d, s), Replay(b, s))
    BY <1>2, ReplayType
  <2>2. AlikeBut(o, Load(Replay(d, s), e), Load(Replay(b, s), e))
    BY <2>1, LoadAlike
  <2>3. Replay(d, Append(s, e)) = Load(Replay(d, s), e)
    BY ReplayAppend
  <2>4. Replay(b, Append(s, e)) = Load(Replay(b, s), e)
    BY ReplayAppend
  <2>5. Append(s, e) \in Seq(Ev)
    OBVIOUS
  <2>. QED
    BY <2>2, <2>3, <2>4, <2>5
<1>. HIDE DEF P
<1>3. Seq(Ev) \subseteq P
  BY <1>1, <1>2, SeqInduction
<1>. QED
  BY <1>3 DEF P

-----------------------------------------------------------------------------
(* The system changes and says so: what relates the database to it stays.    *)

\* A change the kernel may make, see May.
Allowed(k, o, v) == v # Absent /\ o \in Children => Parent[o] = Zero \/ k[Parent[o]] # Absent

\* The view of the system has the fake interface and else what the system has.
LEMMA ViewRows ==
    ASSUME NEW k \in Db
    PROVE  View(k) \in Db /\ View(k)[Zero] = 1 /\ \A r \in Rows : r # Zero => View(k)[r] = k[r]
  BY RowsFacts DEF View, Db

\* A change of the system, row by row: an interface takes what refers to it
\* along.
LEMMA PutRows ==
    ASSUME NEW k \in Db, NEW o \in Objs, NEW v \in Values
    PROVE  /\ Put(k, o, v) \in Db
           /\ \A r \in Rows : Put(k, o, v)[r] =
                IF r = o THEN v
                ELSE IF v = Absent /\ r \in Children /\ Parent[r] = o THEN Absent ELSE k[r]
  BY RowsFacts DEF Put, Db, Absent

\* An object of the system is an interface or refers to one.
LEMMA ObjFacts ==
    ASSUME NEW o \in Objs
    PROVE  o \in Rows /\ o # Zero /\ (o \in Links \/ o \in Children)
  BY RowsFacts DEF Objs, Rows

\* The system never has an object whose interface is gone.
LEMMA ConsistentStep ==
    ASSUME NEW k, Consistent(k), NEW o \in Objs, NEW v \in Values, Allowed(k, o, v)
    PROVE  Consistent(Put(k, o, v))
<1>. DEFINE n == Put(k, o, v)
<1>0. k \in Db /\ k[Zero] = Absent
  BY DEF Consistent
<1>1. n \in Db /\ n[Zero] = Absent
  BY <1>0, PutRows, ObjFacts, RowsFacts
<1>2. ASSUME NEW c \in Children, n[c] # Absent PROVE View(n)[Parent[c]] # Absent
  <2>1. CASE Parent[c] = Zero
    BY <1>1, <2>1, ViewRows, RowsFacts
  <2>2. CASE Parent[c] # Zero
    <3>1. View(n)[Parent[c]] = n[Parent[c]] /\ View(k)[Parent[c]] = k[Parent[c]]
      BY <1>0, <1>1, <2>2, ViewRows, RowsFacts
    <3>2. c \in Rows /\ Parent[c] \in Rows /\ Parent[c] \notin Children
      BY RowsFacts
    <3>3. CASE c = o
      <4>1. v # Absent /\ k[Parent[c]] # Absent
        BY <1>0, <1>2, <2>2, <3>2, <3>3, PutRows DEF Allowed
      <4>2. n[Parent[c]] = k[Parent[c]]
        BY <1>0, <3>2, <3>3, <4>1, PutRows
      <4>. QED
        BY <3>1, <4>1, <4>2
    <3>4. CASE c # o
      <4>1. n[c] = k[c] /\ ~(v = Absent /\ Parent[c] = o)
        BY <1>0, <1>2, <3>2, <3>4, PutRows
      <4>2. k[Parent[c]] # Absent
        BY <1>2, <3>1, <4>1 DEF Consistent
      <4>3. n[Parent[c]] # Absent
        BY <1>0, <3>2, <4>1, <4>2, PutRows
      <4>. QED
        BY <3>1, <4>3
    <3>. QED
      BY <3>3, <3>4
  <2>. QED
    BY <2>1, <2>2
<1>. QED
  BY <1>1, <1>2 DEF Consistent

\* What loading an event does to each row: cascades, and rows refused for want
\* of an interface.
LEMMA LoadRows ==
    ASSUME NEW d \in Db, NEW o \in Rows, NEW v \in Values, NEW r \in Rows
    PROVE  /\ <<o, v>> \in Rec /\ <<o, v>> \in Ev
           /\ v = Absent => Load(d, <<o, v>>)[r] =
                               IF r = o \/ (r \in Children /\ Parent[r] = o) THEN Absent ELSE d[r]
           /\ v # Absent => Load(d, <<o, v>>)[r] =
                               IF r = o /\ ~(o \in Children /\ d[Parent[o]] = Absent) THEN v ELSE d[r]
<1>1. <<o, v>> \in Rec /\ <<o, v>> \in Ev /\ <<o, v>>[1] = o /\ <<o, v>>[2] = v
  BY DEF Rec, Ev
<1>2. Load(d, <<o, v>>) = load_netlink(d, o, v)
  BY <1>1, RecIsNoMarker DEF Load
<1>. QED
  BY <1>1, <1>2, Zenon DEF load_netlink, Db

\* Databases with the same rows are equal.
LEMMA DbEqual ==
    ASSUME NEW d \in Db, NEW b \in Db, \A r \in Rows : d[r] = b[r]
    PROVE  d = b
  BY DEF Db

\* What is equal to the view but on the rows that the change sets is made equal
\* to the new view by its event.
LEMMA LoadChange ==
    ASSUME NEW k, Consistent(k), NEW o \in Objs, NEW v \in Values, Allowed(k, o, v),
           NEW X, AgreeBut(X, View(k), View(Put(k, o, v))), NEW d \in Db, AgreeBut(X, d, View(k)),
           \A r \in X : \/ r = o
                        \/ v = Absent /\ r \in Children /\ Parent[r] = o
                        \/ d[r] = View(Put(k, o, v))[r]
    PROVE  Load(d, <<o, v>>) = View(Put(k, o, v))
<1>. DEFINE n == Put(k, o, v)
<1>0. k \in Db /\ n \in Db /\ View(k) \in Db /\ View(n) \in Db /\ o \in Rows /\ o # Zero
  BY PutRows, ViewRows, ObjFacts DEF Consistent
<1>1. Load(d, <<o, v>>) \in Db
  BY <1>0, LoadRows, LoadType
<1>2. \A r \in Rows : r # Zero => View(n)[r] = n[r] /\ View(k)[r] = k[r]
  BY <1>0, ViewRows
<1>3. ASSUME NEW r \in Rows PROVE Load(d, <<o, v>>)[r] = View(n)[r]
  <2>1. CASE r = o
    <3>1. View(n)[r] = v
      BY <1>0, <1>2, <2>1, PutRows
    <3>2. CASE v = Absent
      BY <1>0, <2>1, <3>1, <3>2, LoadRows
    <3>3. CASE v # Absent
      <4>1. o \in Children => d[Parent[o]] # Absent
        <5>. SUFFICES ASSUME o \in Children PROVE d[Parent[o]] # Absent
          OBVIOUS
        <5>1. Parent[o] \in Rows /\ Parent[o] \notin Children /\ Parent[o] # o
          BY RowsFacts
        <5>2. View(k)[Parent[o]] # Absent
          <6>1. CASE Parent[o] = Zero
            BY <1>0, <6>1, ViewRows, RowsFacts
          <6>2. CASE Parent[o] # Zero
            BY <1>2, <3>3, <5>1, <6>2 DEF Allowed
          <6>. QED
            BY <6>1, <6>2
        <5>3. CASE Parent[o] \notin X
          BY <5>1, <5>2, <5>3 DEF AgreeBut
        <5>4. CASE Parent[o] \in X
          <6>1. d[Parent[o]] = View(n)[Parent[o]]
            BY <3>3, <5>1, <5>4
          <6>2. Parent[o] # Zero => View(n)[Parent[o]] = View(k)[Parent[o]]
            BY <1>0, <1>2, <3>3, <5>1, PutRows
          <6>3. View(n)[Zero] = View(k)[Zero]
            BY <1>0, ViewRows
          <6>. QED
            BY <5>2, <6>1, <6>2, <6>3
        <5>. QED
          BY <5>3, <5>4
      <4>. QED
        BY <1>0, <2>1, <3>1, <3>3, <4>1, LoadRows
    <3>. QED
      BY <3>2, <3>3
  <2>2. CASE r # o /\ v = Absent /\ r \in Children /\ Parent[r] = o
    <3>1. View(n)[r] = Absent
      BY <1>0, <1>2, <2>2, PutRows, RowsFacts
    <3>. QED
      BY <1>0, <2>2, <3>1, LoadRows
  <2>3. CASE r # o /\ ~(v = Absent /\ r \in Children /\ Parent[r] = o)
    <3>1. Load(d, <<o, v>>)[r] = d[r]
      BY <1>0, <2>3, LoadRows
    <3>2. d[r] = View(n)[r]
      <4>1. CASE r \in X
        BY <2>3, <4>1
      <4>2. CASE r \notin X
        BY <4>2 DEF AgreeBut
      <4>. QED
        BY <4>1, <4>2
    <3>. QED
      BY <3>1, <3>2
  <2>. QED
    BY <2>1, <2>2, <2>3
<1>. QED
  BY <1>0, <1>1, <1>3, DbEqual

\* The rows a change sets: the object, and its children when it goes.
Touched(o, v) == {r \in Rows : r = o \/ (v = Absent /\ r \in Children /\ Parent[r] = o)}

\* A change of the system changes the view where the event touches it.
LEMMA ViewStep ==
    ASSUME NEW k, Consistent(k), NEW o \in Objs, NEW v \in Values
    PROVE  AgreeBut(Touched(o, v), View(k), View(Put(k, o, v)))
<1>0. k \in Db /\ Put(k, o, v) \in Db /\ o \in Rows
  BY PutRows, ObjFacts DEF Consistent
<1>. SUFFICES ASSUME NEW r \in Rows \ Touched(o, v) PROVE View(k)[r] = View(Put(k, o, v))[r]
  BY DEF AgreeBut
<1>1. Put(k, o, v)[r] = k[r]
  BY <1>0, PutRows DEF Touched
<1>. QED
  BY <1>0, <1>1, ViewRows

\* After the dumps, a change and its event keep the queue exact.
LEMMA DumpedStep ==
    ASSUME NEW k, Consistent(k), NEW o \in Objs, NEW v \in Values, Allowed(k, o, v),
           NEW es \in Seq(Ev), NEW d, Dumped(k, es, d)
    PROVE  Dumped(Put(k, o, v), Append(es, <<o, v>>), d)
<1>1. d \in Db /\ Replay(d, es) = View(k) /\ k \in Db /\ View(k) \in Db
  BY ViewRows DEF Dumped, Consistent
<1>2. <<o, v>> \in Ev
  BY <1>1, ObjFacts, LoadRows
<1>3. Replay(d, Append(es, <<o, v>>)) = Load(View(k), <<o, v>>)
  BY <1>1, <1>2, ReplayAppend
<1>4. AgreeBut(Touched(o, v), View(k), View(k))
  BY DEF AgreeBut
<1>5. AgreeBut(Touched(o, v), View(k), View(Put(k, o, v)))
  BY ViewStep
<1>6. Load(View(k), <<o, v>>) = View(Put(k, o, v))
  <2>1. \A r \in Touched(o, v) : r = o \/ (v = Absent /\ r \in Children /\ Parent[r] = o)
    BY DEF Touched
  <2>. QED
    BY <1>1, <1>4, <1>5, <2>1, LoadChange
<1>. QED
  BY <1>1, <1>3, <1>6 DEF Dumped

\* What refers to a row that is removed is removed with it.
LEMMA TouchedClosed ==
    ASSUME NEW o \in Objs, NEW v \in Values, o \in Children \/ v = Absent
    PROVE  Closed(Touched(o, v))
  BY ObjFacts, RowsFacts DEF Closed, Touched

\* The database before the events: one that agrees with d but on what the
\* change touches ends as the new view.
LEMMA TouchedReplay ==
    ASSUME NEW k, Consistent(k), NEW o \in Objs, NEW v \in Values, Allowed(k, o, v),
           o \in Children \/ v = Absent,
           NEW es \in Seq(Ev), NEW d \in Db, Replay(d, es) = View(k),
           NEW b \in Db, AgreeBut(Touched(o, v), b, d)
    PROVE  Replay(b, Append(es, <<o, v>>)) = View(Put(k, o, v))
<1>0. k \in Db
  BY DEF Consistent
<1>1. <<o, v>> \in Ev
  BY <1>0, ObjFacts, LoadRows
<1>2. Replay(b, Append(es, <<o, v>>)) = Load(Replay(b, es), <<o, v>>)
  BY <1>1, ReplayAppend
<1>3. AgreeBut(Touched(o, v), Replay(b, es), View(k))
  BY TouchedClosed, ReplayLocal
<1>4. Replay(b, es) \in Db
  BY ReplayType
<1>5. AgreeBut(Touched(o, v), View(k), View(Put(k, o, v)))
  BY ViewStep
<1>6. \A r \in Touched(o, v) : r = o \/ (v = Absent /\ r \in Children /\ Parent[r] = o)
  BY DEF Touched
<1>. QED
  BY <1>2, <1>3, <1>4, <1>5, <1>6, LoadChange

\* The system's objects whose interface was dumped are a database.
LEMMA WithChildrenType ==
    ASSUME NEW k \in Db, NEW d \in Db
    PROVE  WithChildren(k, d) \in Db
  BY RowsFacts DEF WithChildren, Db, Absent

\* Between the dumps, a change and its event keep the queue exact but for the
\* objects still to be dumped.
LEMMA LinksDumpedStep ==
    ASSUME NEW k, Consistent(k), NEW o \in Objs, NEW v \in Values, Allowed(k, o, v),
           NEW es \in Seq(Ev), NEW d, LinksDumped(k, es, d)
    PROVE  LinksDumped(Put(k, o, v), Append(es, <<o, v>>), d)
<1>. DEFINE n == Put(k, o, v)
<1>1. d \in Db /\ k \in Db /\ n \in Db /\ Replay(WithChildren(k, d), es) = View(k)
  BY PutRows DEF LinksDumped, Consistent
<1>2. WithChildren(k, d) \in Db /\ WithChildren(n, d) \in Db
  BY <1>1, WithChildrenType
<1>3. Replay(WithChildren(n, d), Append(es, <<o, v>>)) = View(n)
  <2>1. CASE o \in Children \/ v = Absent
    <3>1. AgreeBut(Touched(o, v), WithChildren(n, d), WithChildren(k, d))
      <4>. SUFFICES ASSUME NEW r \in Rows \ Touched(o, v)
                    PROVE WithChildren(n, d)[r] = WithChildren(k, d)[r]
        BY DEF AgreeBut
      <4>1. n[r] = k[r]
        BY <1>1, PutRows DEF Touched
      <4>. QED
        BY <4>1 DEF WithChildren
    <3>. QED
      BY <1>1, <1>2, <2>1, <3>1, TouchedReplay
  <2>2. CASE o \notin Children /\ v # Absent
    <3>1. \A c \in Children : n[c] = k[c]
      BY <1>1, <2>2, PutRows, RowsFacts
    <3>2. WithChildren(n, d) = WithChildren(k, d)
      BY <3>1 DEF WithChildren
    <3>3. Dumped(k, es, WithChildren(k, d))
      BY <1>1, <1>2 DEF Dumped
    <3>4. Dumped(n, Append(es, <<o, v>>), WithChildren(k, d))
      BY <3>3, DumpedStep
    <3>. QED
      BY <3>2, <3>4 DEF Dumped
  <2>. QED
    BY <2>1, <2>2
<1>. QED
  BY <1>1, <1>3 DEF LinksDumped

\* The event that removed an interface outlives what was said about its objects
\* before.
LEMMA OrphanedStep ==
    ASSUME NEW k, Consistent(k), NEW o \in Objs, NEW v \in Values, Allowed(k, o, v),
           NEW es \in Seq(Ev), Orphaned(k, es)
    PROVE  Orphaned(Put(k, o, v), Append(es, <<o, v>>))
<1>. DEFINE n == Put(k, o, v)
<1>0. k \in Db /\ n \in Db /\ o \in Rows /\ o # Zero /\ <<o, v>> \in Ev
  BY PutRows, ObjFacts, LoadRows DEF Consistent
<1>. SUFFICES ASSUME NEW c \in Children, n[c] = Absent, View(n)[Parent[c]] = Absent,
                     NEW d \in Db, d[c] = Absent
              PROVE  Replay(d, Append(es, <<o, v>>))[c] = Absent
  BY DEF Orphaned
<1>1. Replay(d, Append(es, <<o, v>>)) = Load(Replay(d, es), <<o, v>>) /\ Replay(d, es) \in Db
  BY <1>0, ReplayAppend, ReplayType
<1>2. c \in Rows /\ Parent[c] \in Rows /\ Parent[c] \notin Children
  BY RowsFacts
<1>3. Parent[c] # Zero /\ n[Parent[c]] = Absent /\ View(k)[Parent[c]] = k[Parent[c]]
  BY <1>0, <1>2, ViewRows, RowsFacts
<1>4. CASE Parent[c] = o
  <2>1. v = Absent
    BY <1>0, <1>3, <1>4, PutRows
  <2>. QED
    BY <1>0, <1>1, <1>2, <1>4, <2>1, LoadRows
<1>5. CASE Parent[c] # o
  <2>1. k[Parent[c]] = Absent
    BY <1>0, <1>2, <1>3, <1>5, PutRows
  <2>2. k[c] = Absent
    BY <1>3, <2>1 DEF Consistent
  <2>3. Replay(d, es)[c] = Absent
    BY <1>3, <2>1, <2>2 DEF Orphaned
  <2>4. c = o => v = Absent
    BY <1>0, PutRows
  <2>. QED
    BY <1>0, <1>1, <1>2, <2>3, <2>4, LoadRows
<1>. QED
  BY <1>4, <1>5

\* Between bind() and the dump of interfaces, events replayed over the system
\* as it is change nothing.
LEMMA UndumpedStep ==
    ASSUME NEW k, Consistent(k), NEW o \in Objs, NEW v \in Values, Allowed(k, o, v),
           NEW es \in Seq(Ev), Undumped(k, es)
    PROVE  Undumped(Put(k, o, v), Append(es, <<o, v>>))
<1>. DEFINE n == Put(k, o, v)
<1>0. /\ k \in Db /\ n \in Db /\ View(k) \in Db /\ View(n) \in Db
      /\ o \in Rows /\ o # Zero /\ <<o, v>> \in Ev
  BY PutRows, ObjFacts, LoadRows, ViewRows DEF Consistent
<1>1. Replay(View(k), es) = View(k) /\ Orphaned(k, es)
  BY DEF Undumped
<1>2. Orphaned(n, Append(es, <<o, v>>))
  BY <1>1, OrphanedStep
<1>3. AgreeBut(Touched(o, v), View(k), View(n))
  BY ViewStep
<1>4. AgreeBut(Touched(o, v), View(n), View(k))
  BY <1>3 DEF AgreeBut
<1>5. Replay(View(n), Append(es, <<o, v>>)) = View(n)
  <2>1. CASE o \in Children \/ v = Absent
    BY <1>0, <1>1, <1>4, <2>1, TouchedReplay
  <2>2. CASE o \notin Children /\ v # Absent
    <3>1. Touched(o, v) = {o}
      BY <1>0, <2>2 DEF Touched
    <3>2. Replay(View(n), Append(es, <<o, v>>)) = Load(Replay(View(n), es), <<o, v>>)
      BY <1>0, ReplayAppend
    <3>3. Replay(View(n), es) \in Db
      BY <1>0, ReplayType
    <3>4. View(k)[o] = k[o] /\ View(n)[o] = v
      BY <1>0, ViewRows, PutRows
    <3>5. CASE k[o] # Absent
      <4>1. AlikeBut(o, View(n), View(k))
        BY <1>4, <2>2, <3>1, <3>4, <3>5 DEF AlikeBut
      <4>2. AlikeBut(o, Replay(View(n), es), Replay(View(k), es))
        BY <1>0, <2>2, <4>1, ReplayAlike
      <4>3. AgreeBut({o}, Replay(View(n), es), View(k))
        BY <1>1, <4>2 DEF AlikeBut
      <4>4. AgreeBut({o}, View(k), View(n))
        BY <1>3, <3>1
      <4>5. \A r \in {o} : r = o
        OBVIOUS
      <4>. QED
        BY <3>2, <3>3, <4>3, <4>4, <4>5, LoadChange
    <3>6. CASE k[o] = Absent
      <4>. DEFINE X == Touched(o, Absent)
      <4>1. Closed(X) /\ Absent \in Values
        BY TouchedClosed, RowsFacts
      <4>2. AgreeBut(X, View(n), View(k)) /\ AgreeBut(X, View(k), View(n))
        BY <1>3, <1>4, <3>1 DEF AgreeBut, Touched
      <4>3. AgreeBut(X, Replay(View(n), es), Replay(View(k), es))
        BY <1>0, <4>1, <4>2, ReplayLocal
      <4>4. ASSUME NEW r \in X, r # o PROVE Replay(View(n), es)[r] = View(n)[r]
        <5>1. r \in Children /\ Parent[r] = o /\ r \in Rows /\ r # Zero
          BY <4>4, RowsFacts DEF Touched
        <5>2. k[r] = Absent
          BY <3>4, <3>6, <5>1 DEF Consistent
        <5>3. View(n)[r] = Absent
          BY <1>0, <4>4, <5>1, <5>2, ViewRows, PutRows
        <5>4. Replay(View(n), es)[r] = Absent
          BY <1>0, <1>1, <3>4, <3>6, <5>1, <5>2, <5>3 DEF Orphaned
        <5>. QED
          BY <5>3, <5>4
      <4>5. \A r \in X : r = o \/ Replay(View(n), es)[r] = View(n)[r]
        BY <4>4
      <4>6. AgreeBut(X, Replay(View(n), es), View(k))
        BY <1>1, <4>3
      <4>. HIDE DEF X
      <4>. QED
        BY <3>2, <3>3, <4>2, <4>5, <4>6, LoadChange
    <3>. QED
      BY <3>5, <3>6
  <2>. QED
    BY <2>1, <2>2
<1>. QED
  BY <1>2, <1>5 DEF Undumped

-----------------------------------------------------------------------------
(* What a dump loads. *)

\* rs are objects of S that are in k, or all of them.
TakenFrom(rs, k, S) ==
    \A i \in DOMAIN rs : rs[i][1] \in S /\ rs[i][2] = k[rs[i][1]] /\ rs[i][2] # Absent
Listed(rs, x) == \E i \in DOMAIN rs : rs[i][1] = x
DumpOf(rs, k, S) ==
    /\ rs \in Seq(Rec) /\ TakenFrom(rs, k, S)
    /\ \A x \in S : k[x] # Absent => Listed(rs, x)

\* A dump lists the objects it was taken from only.
LEMMA ListedTaken ==
    ASSUME NEW rs, NEW k, NEW S, TakenFrom(rs, k, S), NEW x, Listed(rs, x)
    PROVE  x \in S
  BY DEF Listed, TakenFrom

\* A round of the loop over the objects.
LEMMA RecordFacts ==
    ASSUME NEW k \in Db, NEW S, NEW rs \in Seq(Rec), TakenFrom(rs, k, S), NEW o \in Objs
    PROVE  /\ Record(k, S, rs, o) \in Seq(Rec) /\ TakenFrom(Record(k, S, rs, o), k, S)
           /\ \A x : Listed(rs, x) => Listed(Record(k, S, rs, o), x)
           /\ o \in S /\ k[o] # Absent => Listed(Record(k, S, rs, o), o)
<1>1. CASE o \in S /\ k[o] # Absent
  <2>. DEFINE r == <<o, k[o]>>
              ss == Append(rs, r)
  <2>1. Record(k, S, rs, o) = ss
    BY <1>1 DEF Record
  <2>2. r \in Rec /\ r[1] = o /\ r[2] = k[o]
    BY DEF Rec, Db, Rows
  <2>. HIDE DEF r
  <2>3. /\ ss \in Seq(Rec) /\ DOMAIN ss = 1..(Len(rs) + 1) /\ ss[Len(rs) + 1] = r
        /\ DOMAIN rs = 1..Len(rs) /\ Len(rs) \in Nat
        /\ \A i \in 1..Len(rs) : ss[i] = rs[i]
    BY <2>2
  <2>. HIDE DEF ss
  <2>4. TakenFrom(ss, k, S)
    <3>. SUFFICES ASSUME NEW i \in 1..(Len(rs) + 1)
                  PROVE  ss[i][1] \in S /\ ss[i][2] = k[ss[i][1]] /\ ss[i][2] # Absent
      BY <2>3 DEF TakenFrom
    <3>1. CASE i = Len(rs) + 1
      BY <1>1, <2>2, <2>3, <3>1
    <3>2. CASE i \in 1..Len(rs)
      BY <2>3, <3>2 DEF TakenFrom
    <3>. QED
      BY <2>3, <3>1, <3>2
  <2>5. ASSUME NEW x, Listed(rs, x) PROVE Listed(ss, x)
    <3>1. PICK i \in 1..Len(rs) : rs[i][1] = x
      BY <2>3, <2>5 DEF Listed
    <3>2. i \in DOMAIN ss /\ ss[i][1] = x
      BY <2>3, <3>1
    <3>. QED
      BY <3>2 DEF Listed
  <2>6. Listed(ss, o)
    <3>1. Len(rs) + 1 \in DOMAIN ss /\ ss[Len(rs) + 1][1] = o
      BY <2>2, <2>3
    <3>. QED
      BY <3>1 DEF Listed
  <2>. QED
    BY <2>1, <2>3, <2>4, <2>5, <2>6
<1>2. CASE ~(o \in S /\ k[o] # Absent)
  <2>1. Record(k, S, rs, o) = rs
    BY <1>2 DEF Record
  <2>. QED
    BY <1>2, <2>1
<1>. QED
  BY <1>1, <1>2

\* The records of a dump are those of the system at the time of the answer.
LEMMA RecordsFacts ==
    ASSUME NEW k \in Db, NEW S, S \subseteq Objs
    PROVE  DumpOf(Records(k, S), k, S)
<1>. DEFINE Taken == {rs \in Seq(Rec) : TakenFrom(rs, k, S)}
            RecordFn == [x \in Taken \X Objs |-> Record(k, S, x[1], x[2])]
            Round(f) == [i \in 0..Len(Order) |->
                            IF i = 0 THEN <<>> ELSE Record(k, S, f[i - 1], Order[i])]
            all == CHOOSE f : f = Round(f)
<1>1. Order \in Seq(Objs) /\ Len(Order) \in Nat /\ <<>> \in Taken
  BY SchemaAssumption DEF TakenFrom
<1>2. RecordFn \in [Taken \X Objs -> Taken]
  BY RecordFacts
<1>. HIDE DEF RecordFn
<1>3. PICK f \in [0..Len(Order) -> Taken] : Loops(f, RecordFn, <<>>, Order)
  BY <1>1, <1>2, FoldExists, Zenon
<1>4. ASSUME NEW i \in 1..Len(Order) PROVE f[i] = Record(k, S, f[i - 1], Order[i])
  <2>1. f[i - 1] \in Taken /\ Order[i] \in Objs
    BY <1>1
  <2>2. f[i] = RecordFn[<<f[i - 1], Order[i]>>]
    BY <1>3 DEF Loops
  <2>. QED
    BY <2>1, <2>2 DEF RecordFn
<1>5. f = Round(f)
  BY <1>3, <1>4 DEF Loops
<1>6. all = Round(all)
  BY <1>5, Zenon
<1>7. Records(k, S) = all[Len(Order)]
  BY DEF Records
<1>. HIDE DEF all
<1>8. /\ all[0] = <<>>
      /\ \A i \in 1..Len(Order) : all[i] = Record(k, S, all[i - 1], Order[i])
  <2>1. \A i \in 0..Len(Order) : all[i] = Round(all)[i]
    BY <1>6, Zenon
  <2>2. Round(all)[0] = <<>>
    BY <1>1
  <2>3. \A i \in 1..Len(Order) : Round(all)[i] = Record(k, S, all[i - 1], Order[i])
    BY <1>1
  <2>. HIDE DEF Round
  <2>. QED
    BY <1>1, <2>1, <2>2, <2>3
<1>. DEFINE Due(n) == \A j \in 1..n : Order[j] \in S /\ k[Order[j]] # Absent => Listed(all[n], Order[j])
            P == {n \in Nat : n <= Len(Order) => all[n] \in Taken /\ Due(n)}
<1>9. 0 \in P
  <2>1. all[0] \in Taken
    BY <1>1, <1>8
  <2>2. Due(0)
    OBVIOUS
  <2>. HIDE DEF Due, Taken
  <2>. QED
    BY <2>1, <2>2
<1>10. ASSUME NEW n \in Nat, n \in P PROVE n + 1 \in P
  <2>. SUFFICES ASSUME n + 1 <= Len(Order) PROVE all[n + 1] \in Taken /\ Due(n + 1)
    OBVIOUS
  <2>1. n + 1 \in 1..Len(Order) /\ n + 1 - 1 = n /\ Order[n + 1] \in Objs
    BY <1>1
  <2>2. all[n + 1] = Record(k, S, all[n], Order[n + 1])
    BY <1>8, <2>1
  <2>3. all[n] \in Taken /\ Due(n)
    BY <1>1, <1>10
  <2>4. all[n] \in Seq(Rec) /\ TakenFrom(all[n], k, S)
    BY <2>3
  <2>. HIDE DEF Due
  <2>5. all[n + 1] \in Taken
    BY <2>1, <2>2, <2>4, RecordFacts
  <2>6. ASSUME NEW j \in 1..(n + 1), Order[j] \in S, k[Order[j]] # Absent
        PROVE  Listed(all[n + 1], Order[j])
    <3>1. CASE j = n + 1
      BY <2>1, <2>2, <2>4, <2>6, <3>1, RecordFacts
    <3>2. CASE j \in 1..n
      <4>1. Listed(all[n], Order[j])
        BY <2>3, <2>6, <3>2 DEF Due
      <4>. QED
        BY <2>1, <2>2, <2>4, <4>1, RecordFacts
    <3>. QED
      BY <3>1, <3>2
  <2>7. Due(n + 1)
    BY <2>6 DEF Due
  <2>. QED
    BY <2>5, <2>7
<1>. HIDE DEF P
<1>11. Len(Order) \in P
  BY <1>1, <1>9, <1>10, NatSetInduction
<1>12. all[Len(Order)] \in Taken /\ Due(Len(Order))
  BY <1>1, <1>11 DEF P
<1>13. ASSUME NEW x \in S, k[x] # Absent PROVE Listed(all[Len(Order)], x)
  <2>1. PICK j \in 1..Len(Order) : Order[j] = x
    BY <1>1, SchemaAssumption
  <2>. QED
    BY <1>12, <1>13, <2>1
<1>. HIDE DEF Due
<1>. QED
  BY <1>7, <1>12, <1>13 DEF DumpOf

\* Records are events.
LEMMA RecSeqIsEvSeq == ASSUME NEW s \in Seq(Rec) PROVE s \in Seq(Ev)
  BY DEF Ev

\* No object of S refers to one of S.
Flat(S) == \A c \in Children : c \in S => Parent[c] \notin S

\* Objects that are not each other's parents are loaded independently.
LEMMA ReplayRecords ==
    ASSUME NEW k \in Db, NEW d \in Db, NEW S, S \subseteq Rows,
           Flat(S),
           NEW rs \in Seq(Rec), TakenFrom(rs, k, S),
           NEW r \in Rows
    PROVE  Replay(d, rs)[r] =
             IF Listed(rs, r) /\ (r \in Children => d[Parent[r]] # Absent)
             THEN k[r] ELSE d[r]
<1>. DEFINE In(s, x) == Listed(s, x) /\ (x \in Children => d[Parent[x]] # Absent)
            Right(s) == \A x \in Rows : Replay(d, s)[x] = IF In(s, x) THEN k[x] ELSE d[x]
            P == {s \in Seq(Rec) : TakenFrom(s, k, S) => Right(s)}
<1>1. <<>> \in P
  BY ReplayEmpty DEF Listed
<1>2. ASSUME NEW s \in Seq(Rec), NEW e \in Rec, s \in P PROVE Append(s, e) \in P
  <2>. DEFINE t == Append(s, e)
              o == e[1]
              v == e[2]
  <2>0. /\ t \in Seq(Rec) /\ DOMAIN t = 1..(Len(s) + 1) /\ t[Len(s) + 1] = e
        /\ Len(s) \in Nat /\ DOMAIN s = 1..Len(s) /\ \A i \in 1..Len(s) : t[i] = s[i]
    OBVIOUS
  <2>. SUFFICES ASSUME TakenFrom(t, k, S) PROVE Right(t)
    BY <2>0
  <2>1. TakenFrom(s, k, S)
    BY <2>0 DEF TakenFrom
  <2>2. o \in S /\ v = k[o] /\ v # Absent /\ o \in Rows /\ v \in Values /\ e = <<o, v>>
    <3>1. Len(s) + 1 \in DOMAIN t
      BY <2>0
    <3>2. o \in S /\ v = k[o] /\ v # Absent
      BY <2>0, <3>1 DEF TakenFrom
    <3>. QED
      BY <3>2, RecIsNoMarker
  <2>3. Right(s)
    BY <1>2, <2>1
  <2>4. Replay(d, t) = Load(Replay(d, s), <<o, v>>) /\ Replay(d, s) \in Db
    <3>1. s \in Seq(Ev) /\ e \in Ev
      BY RecIsNoMarker, RecSeqIsEvSeq
    <3>2. Replay(d, t) = Load(Replay(d, s), e) /\ Replay(d, s) \in Db
      BY <3>1, ReplayAppend, ReplayType
    <3>. QED
      BY <2>2, <3>2
  <2>5. \A x : In(t, x) <=> In(s, x) \/ (x = o /\ (x \in Children => d[Parent[x]] # Absent))
    <3>1. \A x : Listed(t, x) <=> Listed(s, x) \/ x = o
      BY <2>0 DEF Listed
    <3>. QED
      BY <3>1
  <2>. HIDE DEF o, v, t
  <2>6. o \in Children => Replay(d, s)[Parent[o]] = d[Parent[o]]
    <3>. SUFFICES ASSUME o \in Children PROVE Replay(d, s)[Parent[o]] = d[Parent[o]]
      OBVIOUS
    <3>1. Parent[o] \in Rows /\ Parent[o] \notin S
      BY <2>2, RowsFacts DEF Flat
    <3>2. ~In(s, Parent[o])
      BY <2>1, <3>1 DEF TakenFrom, Listed
    <3>. QED
      BY <2>3, <3>1, <3>2
  <2>7. ASSUME NEW x \in Rows PROVE Replay(d, t)[x] = IF In(t, x) THEN k[x] ELSE d[x]
    <3>. HIDE DEF In
    <3>1. Replay(d, s)[x] = IF In(s, x) THEN k[x] ELSE d[x]
      BY <2>3
    <3>2. Replay(d, t)[x] = IF x = o /\ ~(o \in Children /\ Replay(d, s)[Parent[o]] = Absent)
                            THEN v ELSE Replay(d, s)[x]
      BY <2>2, <2>4, LoadRows
    <3>. QED
      BY <2>2, <2>5, <2>6, <3>1, <3>2
  <2>. QED
    BY <2>7
<1>. HIDE DEF P
<1>3. Seq(Rec) \subseteq P
  BY <1>1, <1>2, SeqInduction
<1>4. Right(rs)
  BY <1>3 DEF P
<1>. QED
  BY <1>4

\* Loading the dump of interfaces over the flushed database leads from Undumped
\* to LinksDumped.
LEMMA DumpLinks ==
    ASSUME NEW k, Consistent(k), NEW rs, DumpOf(rs, k, Links), NEW es \in Seq(Ev), Undumped(k, es)
    PROVE  LinksDumped(k, es, Replay(ZeroOnly, rs))
<1>. DEFINE d == Replay(ZeroOnly, rs)
<1>0. k \in Db /\ rs \in Seq(Rec) /\ rs \in Seq(Ev) /\ View(k) \in Db
  BY RecSeqIsEvSeq, ViewRows DEF Consistent, DumpOf
<1>1. ZeroOnly \in Db /\ \A r \in Rows : ZeroOnly[r] = IF r = Zero THEN 1 ELSE Absent
  BY RowsFacts DEF ZeroOnly, Empty, Db, Absent
<1>2. d \in Db
  BY <1>0, <1>1, ReplayType
<1>3. \A r \in Rows : d[r] = IF Listed(rs, r)
                                 /\ (r \in Children => ZeroOnly[Parent[r]] # Absent)
                             THEN k[r] ELSE ZeroOnly[r]
  <2>1. Links \subseteq Rows /\ Flat(Links)
    BY RowsFacts DEF Flat
  <2>2. TakenFrom(rs, k, Links)
    BY DEF DumpOf
  <2>. QED
    BY <1>0, <1>1, <2>1, <2>2, ReplayRecords
<1>. HIDE DEF d
<1>4. \A c \in Children : d[c] = Absent
  <2>. SUFFICES ASSUME NEW c \in Children PROVE d[c] = Absent
    OBVIOUS
  <2>1. c \in Rows /\ c # Zero /\ c \notin Links
    BY RowsFacts
  <2>2. ~Listed(rs, c)
    BY <2>1, ListedTaken DEF DumpOf
  <2>. QED
    BY <1>1, <1>3, <2>1, <2>2
<1>5. \A r \in Rows \ Children : d[r] = View(k)[r]
  <2>. SUFFICES ASSUME NEW r \in Rows, r \notin Children PROVE d[r] = View(k)[r]
    OBVIOUS
  <2>1. CASE r = Zero
    <3>1. View(k)[r] = 1 /\ ZeroOnly[r] = 1
      BY <1>0, <1>1, <2>1, ViewRows, RowsFacts
    <3>2. ~Listed(rs, r)
      BY <2>1, ListedTaken, RowsFacts DEF DumpOf
    <3>. QED
      BY <1>3, <3>1, <3>2
  <2>2. CASE r \in Links
    <3>1. View(k)[r] = k[r] /\ ZeroOnly[r] = Absent
      BY <1>0, <1>1, <2>2, ViewRows, RowsFacts
    <3>2. k[r] # Absent => Listed(rs, r)
      BY <2>2 DEF DumpOf
    <3>. QED
      BY <1>3, <3>1, <3>2
  <2>. QED
    BY <2>1, <2>2 DEF Rows, Objs
<1>6. WithChildren(k, d) = View(k)
  <2>1. ASSUME NEW r \in Rows PROVE WithChildren(k, d)[r] = View(k)[r]
    <3>1. CASE r \notin Children
      BY <1>5, <3>1 DEF WithChildren
    <3>2. CASE r \in Children
      <4>1. d[Parent[r]] = View(k)[Parent[r]]
        BY <1>5, <3>2, RowsFacts
      <4>2. View(k)[r] = k[r]
        BY <1>0, <3>2, ViewRows, RowsFacts
      <4>3. k[r] # Absent => View(k)[Parent[r]] # Absent
        BY <3>2 DEF Consistent
      <4>. QED
        BY <3>2, <4>1, <4>2, <4>3 DEF WithChildren
    <3>. QED
      BY <3>1, <3>2
  <2>. QED
    BY <1>0, <1>2, <2>1, WithChildrenType, DbEqual
<1>7. Replay(View(k), es) = View(k)
  BY DEF Undumped
<1>. QED
  BY <1>2, <1>4, <1>6, <1>7 DEF LinksDumped, d

\* Loading the dump of what refers to them leads from LinksDumped to Dumped.
LEMMA DumpChildren ==
    ASSUME NEW k \in Db, NEW rs, DumpOf(rs, k, Children), NEW es \in Seq(Ev),
           NEW d, LinksDumped(k, es, d)
    PROVE  Dumped(k, es, Replay(d, rs))
<1>0. rs \in Seq(Rec) /\ rs \in Seq(Ev) /\ d \in Db
  BY RecSeqIsEvSeq DEF DumpOf, LinksDumped
<1>1. \A r \in Rows : Replay(d, rs)[r] =
          IF Listed(rs, r) /\ (r \in Children => d[Parent[r]] # Absent)
          THEN k[r] ELSE d[r]
  <2>1. Children \subseteq Rows /\ Flat(Children)
    BY RowsFacts DEF Flat
  <2>2. TakenFrom(rs, k, Children)
    BY DEF DumpOf
  <2>3. ASSUME NEW r \in Rows
        PROVE  Replay(d, rs)[r] =
                 IF Listed(rs, r) /\ (r \in Children => d[Parent[r]] # Absent)
                 THEN k[r] ELSE d[r]
    BY <1>0, <2>1, <2>2, ReplayRecords
  <2>. QED
    BY <2>3, Zenon
<1>2. ASSUME NEW r \in Rows PROVE Replay(d, rs)[r] = WithChildren(k, d)[r]
  <2>1. CASE r \notin Children
    <3>1. ~Listed(rs, r)
      BY <2>1, ListedTaken DEF DumpOf
    <3>. QED
      BY <1>1, <2>1, <3>1 DEF WithChildren
  <2>2. CASE r \in Children
    <3>1. d[r] = Absent /\ (k[r] # Absent => Listed(rs, r))
      BY <2>2 DEF DumpOf, LinksDumped
    <3>. QED
      BY <1>1, <2>2, <3>1 DEF WithChildren
  <2>. QED
    BY <2>1, <2>2
<1>3. Replay(d, rs) = WithChildren(k, d)
  BY <1>0, <1>2, ReplayType, WithChildrenType, DbEqual
<1>. QED
  BY <1>0, <1>3, WithChildrenType DEF Dumped, LinksDumped

\* After bind() and flush() nothing has arrived, and the database has only the
\* fake interface.
LEMMA BindUndumped ==
    ASSUME NEW k, Consistent(k)
    PROVE  Undumped(k, <<>>) /\ Empty \in Db /\ Replay(Empty, <<<<Zero, 1>>>>) = ZeroOnly
<1>1. Undumped(k, <<>>)
  BY ReplayEmpty, ViewRows DEF Undumped, Orphaned, Consistent
<1>2. Empty \in Db /\ Zero \in Rows /\ 1 \in Values /\ Absent # 1 /\ Zero \notin Children
  BY RowsFacts DEF Empty, Db, Absent
<1>3. <<<<Zero, 1>>>> = Append(<<>>, <<Zero, 1>>) /\ <<Zero, 1>> \in Ev /\ <<>> \in Seq(Ev)
  BY <1>2 DEF Ev, Rec
<1>4. Replay(Empty, <<<<Zero, 1>>>>) = Load(Empty, <<Zero, 1>>)
  BY <1>2, <1>3, ReplayAppend, ReplayEmpty, Zenon
<1>5. Load(Empty, <<Zero, 1>>) \in Db /\ ZeroOnly \in Db
  BY <1>2, <1>3, LoadType DEF ZeroOnly, Db
<1>6. ASSUME NEW r \in Rows PROVE Load(Empty, <<Zero, 1>>)[r] = ZeroOnly[r]
  BY <1>2, LoadRows DEF ZeroOnly, Empty
<1>. QED
  BY <1>1, <1>2, <1>4, <1>5, <1>6, DbEqual

-----------------------------------------------------------------------------
(* The items of queues. *)

\* What a queue holds.
Items(s) == {s[i] : i \in DOMAIN s}

\* What two queues hold, one behind the other.
LEMMA ItemsConcat ==
    ASSUME NEW S, NEW s \in Seq(S), NEW t \in Seq(S)
    PROVE  Items(s \o t) = Items(s) \cup Items(t)
<1>1. /\ DOMAIN (s \o t) = 1..(Len(s) + Len(t)) /\ DOMAIN s = 1..Len(s) /\ DOMAIN t = 1..Len(t)
      /\ Len(s) \in Nat /\ Len(t) \in Nat
      /\ \A i \in 1..Len(s) : (s \o t)[i] = s[i]
      /\ \A i \in 1..Len(t) : (s \o t)[Len(s) + i] = t[i]
  OBVIOUS
<1>. DEFINE u == s \o t
            m == Len(s)
            n == Len(t)
<1>. HIDE DEF u, m, n
<1>2. /\ DOMAIN u = 1..(m + n) /\ DOMAIN s = 1..m /\ DOMAIN t = 1..n /\ m \in Nat /\ n \in Nat
      /\ (\A i \in 1..m : u[i] = s[i]) /\ (\A i \in 1..n : u[m + i] = t[i])
  BY <1>1 DEF u, m, n
<1>3. ASSUME NEW i \in 1..(m + n) PROVE u[i] \in Items(s) \cup Items(t)
  <2>1. CASE i \in 1..m
    BY <1>2, <2>1, Zenon DEF Items
  <2>2. CASE i \notin 1..m
    <3>1. i - m \in 1..n /\ m + (i - m) = i
      BY <1>2, <2>2
    <3>2. u[m + (i - m)] = t[i - m]
      BY <1>2, <3>1
    <3>. QED
      BY <1>2, <3>1, <3>2, Zenon DEF Items
  <2>. QED
    BY <2>1, <2>2
<1>4. ASSUME NEW i \in 1..m PROVE s[i] \in Items(u)
  <2>1. i \in 1..(m + n)
    BY <1>2
  <2>. QED
    BY <1>2, <2>1 DEF Items
<1>5. ASSUME NEW i \in 1..n PROVE t[i] \in Items(u)
  <2>1. m + i \in 1..(m + n)
    BY <1>2
  <2>. QED
    BY <1>2, <2>1, Zenon DEF Items
<1>6. Items(u) \subseteq Items(s) \cup Items(t)
  BY <1>2, <1>3, Zenon DEF Items
<1>7. Items(s) \subseteq Items(u) /\ Items(t) \subseteq Items(u)
  BY <1>2, <1>4, <1>5 DEF Items
<1>. QED
  BY <1>6, <1>7 DEF u

\* What a queue holds to which something is put.
LEMMA ItemsAppend ==
    ASSUME NEW S, NEW s \in Seq(S), NEW x \in S
    PROVE  Items(Append(s, x)) = Items(s) \cup {x}
<1>1. <<x>> \in Seq(S) /\ Append(s, x) = s \o <<x>>
  OBVIOUS
<1>2. Items(<<x>>) = {x}
  BY DEF Items
<1>. DEFINE t == <<x>>
<1>3. t \in Seq(S) /\ Append(s, x) = s \o t /\ Items(t) = {x}
  BY <1>1, <1>2
<1>. HIDE DEF t
<1>4. Items(s \o t) = Items(s) \cup Items(t)
  BY <1>3, ItemsConcat
<1>. QED
  BY <1>3, <1>4

\* An empty queue, and a queue of records, hold no marker.
LEMMA ItemsOfRecs ==
    /\ Items(<<>>) = {}
    /\ \A s \in Seq(Rec) : Marker \notin Items(s) /\ Items(s) \subseteq Rec
<1>1. Items(<<>>) = {}
  BY DEF Items
<1>2. ASSUME NEW s \in Seq(Rec) PROVE Marker \notin Items(s) /\ Items(s) \subseteq Rec
  <2>1. Items(s) \subseteq Rec
    BY DEF Items
  <2>. QED
    BY <2>1, RecIsNoMarker
<1>. QED
  BY <1>1, <1>2

\* Records behind a queue leave the marker as it was.
LEMMA MarkerKept ==
    ASSUME NEW s \in Seq(Ev), NEW t \in Seq(Rec)
    PROVE  s \o t \in Seq(Ev) /\ (Marker \in Items(s \o t) <=> Marker \in Items(s))
<1>1. t \in Seq(Ev)
  BY RecSeqIsEvSeq
<1>2. Items(s \o t) = Items(s) \cup Items(t)
  BY <1>1, ItemsConcat
<1>3. Marker \notin Items(t)
  BY ItemsOfRecs
<1>4. s \o t \in Seq(Ev)
  BY <1>1
<1>. QED
  BY <1>2, <1>3, <1>4

-----------------------------------------------------------------------------
(* What events make of a row. *)

\* An event about the objects k that leaves alone the present ones of S, one that
\* is not about S at all, and one that has the value of an object of S.
Spares(e, k, S) ==
    e[2] = Absent => \A c \in Children : c \in S /\ Parent[c] = e[1] => k[c] = Absent
Silent(e, k, S) == e = Marker \/ (e[1] \notin S /\ Spares(e, k, S))
Right(e, k, S) == e = Marker \/ ((e[1] \in S => e[2] = k[e[1]]) /\ Spares(e, k, S))
AllSilent(s, k, S) == \A e \in Items(s) : Silent(e, k, S)
AllRight(s, k, S) == \A e \in Items(s) : Right(e, k, S)
NoStale(d, k, S) == \A o \in S : k[o] = Absent => d[o] = Absent

\* An event that leaves the value x of the row o.
Keeps(o, x, e) ==
    \/ e = Marker
    \/ /\ e[1] = o => e[2] = x
       /\ e[2] = Absent /\ o \in Children /\ Parent[o] = e[1] => x = Absent

\* A row keeps its value when an event has that value or is about another row.
LEMMA LoadKeeps ==
    ASSUME NEW d \in Db, NEW e \in Ev, NEW o \in Rows, Keeps(o, d[o], e)
    PROVE  Load(d, e)[o] = d[o]
<1>1. CASE e = Marker
  BY <1>1 DEF Load
<1>2. CASE e # Marker
  <2>1. e \in Rec
    BY <1>2 DEF Ev
  <2>2. e[1] \in Rows /\ e[2] \in Values /\ e = <<e[1], e[2]>>
    BY <2>1, RecIsNoMarker
  <2>. DEFINE a == e[1]
              v == e[2]
  <2>3. /\ a = o => v = d[o]
        /\ v = Absent /\ o \in Children /\ Parent[o] = a => d[o] = Absent
    BY <1>2 DEF Keeps
  <2>4. a \in Rows /\ v \in Values /\ e = <<a, v>>
    BY <2>2
  <2>. HIDE DEF a, v
  <2>5. Load(d, <<a, v>>)[o] = d[o]
    BY <2>3, <2>4, LoadRows
  <2>. QED
    BY <2>4, <2>5
<1>. QED
  BY <1>1, <1>2

\* So it does under a queue of such events.
LEMMA ReplayKeeps ==
    ASSUME NEW d \in Db, NEW es \in Seq(Ev), NEW o \in Rows,
           \A e \in Items(es) : Keeps(o, d[o], e)
    PROVE  Replay(d, es)[o] = d[o]
<1>. DEFINE P == {s \in Seq(Ev) :
                    (\A e \in Items(s) : Keeps(o, d[o], e)) => Replay(d, s)[o] = d[o]}
<1>1. <<>> \in P
  BY ReplayEmpty
<1>2. ASSUME NEW s \in Seq(Ev), NEW e \in Ev, s \in P PROVE Append(s, e) \in P
  <2>1. Append(s, e) \in Seq(Ev) /\ Items(Append(s, e)) = Items(s) \cup {e}
    BY ItemsAppend
  <2>. SUFFICES ASSUME \A x \in Items(Append(s, e)) : Keeps(o, d[o], x)
                PROVE  Replay(d, Append(s, e))[o] = d[o]
    BY <2>1
  <2>2. Replay(d, s)[o] = d[o] /\ Keeps(o, d[o], e)
    BY <1>2, <2>1
  <2>3. Replay(d, s) \in Db
    BY ReplayType
  <2>4. Load(Replay(d, s), e)[o] = d[o]
    BY <2>2, <2>3, LoadKeeps
  <2>. QED
    BY <2>4, ReplayAppend
<1>. HIDE DEF P
<1>3. Seq(Ev) \subseteq P
  BY <1>1, <1>2, SeqInduction
<1>. QED
  BY <1>3 DEF P

\* Silent events have no value of S, right ones none but its own.
LEMMA SilentIsRight == ASSUME NEW s, NEW k, NEW S, AllSilent(s, k, S) PROVE AllRight(s, k, S)
  BY DEF AllSilent, AllRight, Silent, Right

\* Fewer objects, with the values they had, are not contradicted.
LEMMA Narrowed ==
    ASSUME NEW s, NEW k, NEW S, NEW l, NEW T, T \subseteq S, \A x \in T : l[x] = k[x]
    PROVE  /\ AllSilent(s, k, S) => AllSilent(s, l, T)
           /\ AllRight(s, k, S) => AllRight(s, l, T)
<1>1. ASSUME NEW e, Spares(e, k, S) PROVE Spares(e, l, T)
  BY <1>1 DEF Spares
<1>2. ASSUME NEW e, Silent(e, k, S) PROVE Silent(e, l, T)
  BY <1>1, <1>2 DEF Silent
<1>3. ASSUME NEW e, Right(e, k, S) PROVE Right(e, l, T)
  BY <1>1, <1>3 DEF Right
<1>. QED
  BY <1>2, <1>3 DEF AllSilent, AllRight

\* Of queues, one behind the other.
LEMMA AllConcat ==
    ASSUME NEW E, NEW s \in Seq(E), NEW t \in Seq(E), NEW k, NEW S
    PROVE  /\ AllSilent(s \o t, k, S) <=> AllSilent(s, k, S) /\ AllSilent(t, k, S)
           /\ AllRight(s \o t, k, S) <=> AllRight(s, k, S) /\ AllRight(t, k, S)
<1>1. Items(s \o t) = Items(s) \cup Items(t)
  BY ItemsConcat
<1>. QED
  BY <1>1 DEF AllSilent, AllRight

\* An empty queue says nothing.
LEMMA AllEmpty == ASSUME NEW k, NEW S PROVE AllSilent(<<>>, k, S) /\ AllRight(<<>>, k, S)
  BY ItemsOfRecs DEF AllSilent, AllRight

\* The marker, and the fake interface, say nothing of objects.
LEMMA AllOne ==
    ASSUME NEW k, NEW S, S \subseteq Objs
    PROVE  AllRight(<<Marker>>, k, S) /\ AllRight(<<<<Zero, 1>>>>, k, S)
<1>1. ASSUME NEW x, Right(x, k, S) PROVE AllRight(<<x>>, k, S)
  <2>1. Items(<<x>>) = {x}
    BY DEF Items
  <2>. QED
    BY <1>1, <2>1 DEF AllRight
<1>2. Right(Marker, k, S)
  BY DEF Right
<1>3. Zero \notin S
  BY ObjFacts
<1>4. Right(<<Zero, 1>>, k, S)
  BY <1>3, RowsFacts DEF Right, Spares
<1>. QED
  BY <1>1, <1>2, <1>4

\* The records of a dump have the values of the objects.
LEMMA DumpRight ==
    ASSUME NEW rs, NEW k, NEW D, NEW S, DumpOf(rs, k, D)
    PROVE  AllRight(rs, k, S)
<1>. SUFFICES ASSUME NEW i \in DOMAIN rs PROVE Right(rs[i], k, S)
  BY DEF AllRight, Items
<1>1. rs[i][2] = k[rs[i][1]] /\ k[rs[i][1]] # Absent
  BY DEF DumpOf, TakenFrom
<1>. QED
  BY <1>1 DEF Right, Spares

\* Right events leave no row of an object that is absent; silent ones leave the
\* rows of those that are present.
LEMMA RightRows ==
    ASSUME NEW d \in Db, NEW es \in Seq(Ev), NEW k, NEW S, S \subseteq Objs
    PROVE  /\ AllRight(es, k, S) /\ NoStale(d, k, S) => NoStale(Replay(d, es), k, S)
           /\ AllSilent(es, k, S) => \A o \in S : k[o] # Absent => Replay(d, es)[o] = d[o]
<1>1. ASSUME AllRight(es, k, S), NoStale(d, k, S), NEW o \in S, k[o] = Absent
      PROVE  Replay(d, es)[o] = Absent
  <2>1. o \in Rows /\ d[o] = Absent
    BY <1>1, ObjFacts DEF NoStale
  <2>2. \A e \in Items(es) : Keeps(o, d[o], e)
    BY <1>1, <2>1 DEF AllRight, Right, Keeps
  <2>. QED
    BY <2>1, <2>2, ReplayKeeps
<1>2. ASSUME AllSilent(es, k, S), NEW o \in S, k[o] # Absent PROVE Replay(d, es)[o] = d[o]
  <2>1. o \in Rows
    BY ObjFacts
  <2>2. \A e \in Items(es) : Keeps(o, d[o], e)
    BY <1>2 DEF AllSilent, Silent, Spares, Keeps
  <2>. QED
    BY <2>1, <2>2, ReplayKeeps
<1>. QED
  BY <1>1, <1>2 DEF NoStale

\* The event of a change is silent on what it does not change.
LEMMA ChangeSilent ==
    ASSUME NEW k \in Db, NEW o \in Objs, NEW v \in Values, v # k[o], NEW S, S \subseteq Objs,
           NEW T, T = {x \in S : Put(k, o, v)[x] = k[x]}
    PROVE  AllSilent(<<<<o, v>>>>, Put(k, o, v), T)
<1>1. \A r \in Rows : Put(k, o, v)[r] =
                IF r = o THEN v
                ELSE IF v = Absent /\ r \in Children /\ Parent[r] = o THEN Absent ELSE k[r]
  BY PutRows
<1>2. o \notin T
  BY <1>1, ObjFacts
<1>3. ASSUME v = Absent, NEW c \in Children, Parent[c] = o PROVE Put(k, o, v)[c] = Absent
  BY <1>1, <1>3, RowsFacts
<1>4. Silent(<<o, v>>, Put(k, o, v), T)
  BY <1>2, <1>3 DEF Silent, Spares
<1>5. Items(<<<<o, v>>>>) = {<<o, v>>}
  BY DEF Items
<1>. QED
  BY <1>4, <1>5 DEF AllSilent
=============================================================================
