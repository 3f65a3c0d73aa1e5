---------------------------- MODULE Plan9Proofs ----------------------------
(***************************************************************************)
(* Theorems about Plan9: how long the tags of a client last.               *)
(***************************************************************************)
EXTENDS Plan9, FiniteSetTheorems, WellFoundedInduction, TLAPS

-----------------------------------------------------------------------------
(* Induction over the naturals, for a set. *)

\* A set of naturals has a least element.
LEMMA LeastNat ==
    ASSUME NEW T, T \subseteq Nat, T # {}
    PROVE  \E x \in T : \A y \in T : x <= y
<1>. DEFINE R == OpToRel(<, Nat)
<1>1. IsWellFoundedOn(R, Nat)
  BY NatLessThanWellFounded, Zenon
<1>2. \E x \in T : \A y \in T : ~(<<y, x>> \in R)
  BY <1>1, WFMin, Zenon
<1>3. \A x, y \in Nat : y < x => <<y, x>> \in R
  BY DEF OpToRel
<1>4. \E x \in T : \A y \in T : ~(y < x)
  BY <1>2, <1>3, Zenon
<1>. QED
  BY <1>4

\* What holds of 0, and of n + 1 when it holds of n, holds of every number of
\* rounds of a loop.
LEMMA NatSetInduction ==
    ASSUME NEW P, 0 \in P, \A n \in Nat : n \in P => n + 1 \in P
    PROVE  Nat \subseteq P
<1>. SUFFICES ASSUME Nat \ P # {} PROVE FALSE
  BY Zenon
<1>1. PICK x \in Nat \ P : \A y \in Nat \ P : x <= y
  BY LeastNat, Zenon
<1>2. x - 1 \in Nat /\ x - 1 \notin Nat \ P
  BY <1>1
<1>. QED
  BY <1>2, x - 1 + 1 = x

-----------------------------------------------------------------------------
(* The pool of tags. *)

AllTags == Tags \cup {NoTag}
Entry == [tag : AllTags, counter : Nat]
Gc == [held : SUBSET Tags, ban : Seq(Entry), cells : Nat, raised : BOOLEAN]

\* A ban list: what it holds is allocated, and is in it once; 0xFFFF is not
\* in the pool, and may be there more than once.
Banned(h, list) ==
    /\ \A i \in DOMAIN list : list[i].tag # NoTag => list[i].tag \in h
    /\ \A i, j \in DOMAIN list : i # j /\ list[i].tag = list[j].tag => list[i].tag = NoTag

-----------------------------------------------------------------------------
(* The collection of the ban list. *)

\* One entry of the ban list keeps the types.
LEMMA Collect1Type ==
    ASSUME NEW r \in Gc, NEW e \in Entry
    PROVE  Collect1(r, e) \in Gc
<1>1. e.counter > 0 => [e EXCEPT !.counter = @ - 1] \in Entry
  BY DEF Entry
<1>2. \A x \in Entry : Append(r.ban, x) \in Seq(Entry)
  BY DEF Gc
<1>. QED
  BY <1>1, <1>2, Zenon DEF Collect1, Gc

\* The loop of alloc() over the ban list, entry by entry.
LEMMA CollectLoop ==
    ASSUME NEW pool \in Gc, NEW list, list = pool.ban
    PROVE  \E gc \in [0..Len(list) -> Gc] :
              /\ gc[0] = [pool EXCEPT !.ban = <<>>]
              /\ \A i \in 1..Len(list) : gc[i] = Collect1(gc[i - 1], list[i])
              /\ Collect(pool) = gc[Len(list)]
<1>0. list \in Seq(Entry)
  BY DEF Gc
<1>. DEFINE s0 == [pool EXCEPT !.ban = <<>>]
            Loop(f) == [i \in 0..Len(list) |-> IF i = 0 THEN s0
                                                 ELSE Collect1(f[i - 1], list[i])]
            Sol(n, f) == f[0] = s0 /\ \A i \in 1..n : f[i] = Collect1(f[i - 1], list[i])
            Q == {n \in Nat : n <= Len(list) => \E f \in [0..n -> Gc] : Sol(n, f)}
            gc == CHOOSE f : f = Loop(f)
<1>1. s0 \in Gc
  <2>1. <<>> \in Seq(Entry)
    OBVIOUS
  <2>. QED
    BY <2>1, Zenon DEF Gc
<1>. HIDE DEF s0
<1>2. 0 \in Q
  <2>1. [i \in 0..0 |-> s0] \in [0..0 -> Gc] /\ Sol(0, [i \in 0..0 |-> s0])
    BY <1>1
  <2>. QED
    BY <2>1, Zenon
<1>3. ASSUME NEW n \in Nat, n \in Q PROVE n + 1 \in Q
  <2>. SUFFICES ASSUME n + 1 <= Len(list) PROVE \E f \in [0..(n+1) -> Gc] : Sol(n + 1, f)
    OBVIOUS
  <2>1. PICK g \in [0..n -> Gc] : Sol(n, g)
    BY <1>3
  <2>. DEFINE e == Collect1(g[n], list[n + 1])
              h == [i \in 0..(n+1) |-> IF i <= n THEN g[i] ELSE e]
  <2>2. e \in Gc
    <3>1. g[n] \in Gc /\ list[n + 1] \in Entry
      BY <1>0
    <3>. QED
      BY <3>1, Collect1Type
  <2>3. h \in [0..(n+1) -> Gc]
    <3>. HIDE DEF e
    <3>. QED
      BY <2>2
  <2>4. h[0] = s0
    BY <2>1
  <2>5. ASSUME NEW i \in 1..(n+1) PROVE h[i] = Collect1(h[i - 1], list[i])
    <3>1. CASE i <= n
      <4>1. h[i] = g[i] /\ h[i - 1] = g[i - 1] /\ g[i] = Collect1(g[i - 1], list[i])
        BY <2>1, <3>1
      <4>. QED
        BY <4>1, Zenon
    <3>2. CASE i = n + 1
      <4>1. h[i] = e /\ h[i - 1] = g[n] /\ list[i] = list[n + 1]
        BY <3>2
      <4>. HIDE DEF h
      <4>. QED
        BY <4>1, Zenon
    <3>. QED
      BY <3>1, <3>2
  <2>. HIDE DEF h
  <2>. QED
    BY <2>3, <2>4, <2>5
<1>4. PICK f \in [0..Len(list) -> Gc] : Sol(Len(list), f)
  <2>. HIDE DEF Q
  <2>1. Len(list) \in Q /\ Len(list) \in Nat
    BY <1>0, <1>2, <1>3, NatSetInduction
  <2>. QED
    BY <2>1 DEF Q
<1>5. f = Loop(f)
  BY <1>4
<1>6. gc = Loop(gc)
  BY <1>5, Zenon
<1>7. Collect(pool) = gc[Len(list)]
  BY DEF Collect, s0
<1>. HIDE DEF gc
<1>8. gc[0] = s0 /\ \A i \in 1..Len(list) : gc[i] = Collect1(gc[i - 1], list[i])
  <2>1. \A i \in 0..Len(list) : gc[i] = Loop(gc)[i]
    BY <1>6, Zenon
  <2>2. Loop(gc)[0] = s0
    OBVIOUS
  <2>3. \A i \in 1..Len(list) : Loop(gc)[i] = Collect1(gc[i - 1], list[i])
    OBVIOUS
  <2>. HIDE DEF Loop
  <2>. QED
    BY <2>1, <2>2, <2>3
<1>9. gc \in [0..Len(list) -> Gc]
  <2>. DEFINE P == {n \in Nat : n <= Len(list) => gc[n] \in Gc}
  <2>1. 0 \in P
    BY <1>1, <1>8
  <2>2. ASSUME NEW n \in Nat, n \in P PROVE n + 1 \in P
    <3>. SUFFICES ASSUME n + 1 <= Len(list) PROVE gc[n + 1] \in Gc
      OBVIOUS
    <3>1. gc[n + 1] = Collect1(gc[n + 1 - 1], list[n + 1]) /\ n + 1 - 1 = n
      BY <1>8
    <3>2. gc[n] \in Gc /\ list[n + 1] \in Entry
      BY <1>0, <2>2
    <3>. QED
      BY <3>1, <3>2, Collect1Type
  <2>. HIDE DEF P
  <2>3. Nat \subseteq P
    BY <2>1, <2>2, NatSetInduction
  <2>4. \A n \in 0..Len(list) : gc[n] \in Gc
    BY <2>3 DEF P
  <2>. QED
    BY <1>6, <2>4, Zenon
<1>. QED
  BY <1>7, <1>8, <1>9, Zenon DEF s0

\* After i entries of the list: what is left of it are entries of the list that
\* are at most one tick older; the tags of these and of the entries to come are
\* allocated, and so are the tags that are not banned; only 0xFFFF raises.
Collecting(h, list, i, r) ==
    /\ r \in Gc /\ Banned(r.held, r.ban)
    /\ \A k \in DOMAIN r.ban : \E j \in 1..i :
          r.ban[k].tag = list[j].tag /\ r.ban[k].counter + 1 >= list[j].counter
    /\ \A j \in DOMAIN list : j > i /\ list[j].tag # NoTag => list[j].tag \in r.held
    /\ r.held \subseteq h
    /\ \A n \in h : (\A j \in 1..i : list[j].tag # n) => n \in r.held
    /\ r.raised => \E j \in 1..i : list[j].tag = NoTag /\ list[j].counter = 0

\* An entry that stays.
LEMMA CollectKeeps ==
    ASSUME NEW h, h \in SUBSET Tags, NEW list \in Seq(Entry), Banned(h, list),
           NEW i \in Nat, i + 1 <= Len(list), NEW r, Collecting(h, list, i, r),
           NEW e \in Entry, e.tag = list[i + 1].tag, e.counter + 1 >= list[i + 1].counter,
           NEW q \in Gc, q.held = r.held, q.ban = Append(r.ban, e),
           q.raised => r.raised \/ (list[i + 1].tag = NoTag /\ list[i + 1].counter = 0)
    PROVE  Collecting(h, list, i + 1, q)
<1>. DEFINE n == Len(r.ban)
<1>1. /\ r.ban \in Seq(Entry) /\ DOMAIN r.ban = 1..n /\ n \in Nat
      /\ q.ban[n + 1] = e /\ DOMAIN q.ban = 1..(n + 1) /\ \A k \in 1..n : q.ban[k] = r.ban[k]
  BY DEF Collecting, Gc
<1>2. \A k \in DOMAIN q.ban : \E j \in 1..(i + 1) :
         q.ban[k].tag = list[j].tag /\ q.ban[k].counter + 1 >= list[j].counter
  <2>. SUFFICES ASSUME NEW k \in DOMAIN q.ban
                PROVE  \E j \in 1..(i + 1) : q.ban[k].tag = list[j].tag
                                             /\ q.ban[k].counter + 1 >= list[j].counter
    OBVIOUS
  <2>1. CASE k = n + 1
    BY <1>1, <2>1
  <2>2. CASE k \in 1..n
    BY <1>1, <2>2 DEF Collecting
  <2>. QED
    BY <1>1, <2>1, <2>2
<1>3. Banned(q.held, q.ban)
  <2>1. list[i + 1].tag # NoTag => list[i + 1].tag \in r.held
    BY DEF Collecting
  <2>2. \A k \in 1..n : r.ban[k].tag = e.tag => e.tag = NoTag
    <3>. SUFFICES ASSUME NEW k \in 1..n, r.ban[k].tag = e.tag PROVE e.tag = NoTag
      OBVIOUS
    <3>1. PICK j \in 1..i : r.ban[k].tag = list[j].tag
      BY <1>1, Zenon DEF Collecting
    <3>2. j \in DOMAIN list /\ i + 1 \in DOMAIN list /\ j # i + 1
      OBVIOUS
    <3>3. list[j].tag = list[i + 1].tag
      BY <3>1
    <3>. QED
      BY <3>1, <3>2, <3>3, Zenon DEF Banned
  <2>3. \A k \in 1..n : r.ban[k].tag # NoTag => r.ban[k].tag \in r.held
    BY <1>1, Zenon DEF Collecting, Banned
  <2>4. \A k, l \in 1..n : k # l /\ r.ban[k].tag = r.ban[l].tag => r.ban[k].tag = NoTag
    BY <1>1, Zenon DEF Collecting, Banned
  <2>5. ASSUME NEW k \in DOMAIN q.ban, q.ban[k].tag # NoTag PROVE q.ban[k].tag \in q.held
    <3>1. k \in 1..n \/ k = n + 1
      BY <1>1
    <3>. QED
      BY <1>1, <2>1, <2>3, <2>5, <3>1
  <2>6. ASSUME NEW k \in DOMAIN q.ban, NEW l \in DOMAIN q.ban, k # l,
               q.ban[k].tag = q.ban[l].tag
        PROVE  q.ban[k].tag = NoTag
    <3>1. (k \in 1..n \/ k = n + 1) /\ (l \in 1..n \/ l = n + 1)
      BY <1>1
    <3>2. CASE k \in 1..n /\ l \in 1..n
      BY <1>1, <2>4, <2>6, <3>2, Zenon
    <3>3. CASE k = n + 1 \/ l = n + 1
      BY <1>1, <2>2, <2>6, <3>1, <3>3, Zenon
    <3>. QED
      BY <3>1, <3>2, <3>3
  <2>. QED
    BY <2>5, <2>6, Zenon DEF Banned
<1>4. \A m \in h : (\A j \in 1..(i + 1) : list[j].tag # m) => m \in q.held
  BY DEF Collecting
<1>5. /\ \A j \in DOMAIN list : j > i + 1 /\ list[j].tag # NoTag => list[j].tag \in q.held
      /\ q.held \subseteq h
      /\ q.raised => \E j \in 1..(i + 1) : list[j].tag = NoTag /\ list[j].counter = 0
  BY DEF Collecting
<1>. QED
  BY <1>2, <1>3, <1>4, <1>5 DEF Collecting

\* One entry of the ban list, for the induction over the loop.
LEMMA CollectStep ==
    ASSUME NEW h, h \in SUBSET Tags, NEW list \in Seq(Entry), Banned(h, list),
           NEW i \in Nat, i + 1 <= Len(list), NEW r, Collecting(h, list, i, r)
    PROVE  Collecting(h, list, i + 1, Collect1(r, list[i + 1]))
<1>. DEFINE e == list[i + 1]
            q == Collect1(r, e)
<1>1. e \in Entry /\ r \in Gc /\ q \in Gc
  BY Collect1Type DEF Collecting
<1>0. e.counter + 1 >= e.counter
  BY <1>1 DEF Entry
<1>2. CASE r.raised
  <2>1. q.held = r.held /\ q.ban = Append(r.ban, e) /\ q.raised = r.raised
    BY <1>1, <1>2, Zenon DEF Collect1, Gc
  <2>. QED
    BY <1>0, <1>1, <1>2, <2>1, CollectKeeps
<1>3. CASE ~r.raised /\ e.counter > 0
  <2>. DEFINE d == [e EXCEPT !.counter = @ - 1]
  <2>1. q.held = r.held /\ q.ban = Append(r.ban, d) /\ q.raised = r.raised
    BY <1>1, <1>3, Zenon DEF Collect1, Gc
  <2>2. d \in Entry /\ d.tag = e.tag /\ d.counter + 1 >= e.counter
    BY <1>1, <1>3 DEF Entry
  <2>. QED
    BY <1>1, <1>3, <2>1, <2>2, CollectKeeps, Zenon
<1>4. CASE ~r.raised /\ ~(e.counter > 0) /\ e.tag \notin r.held
  <2>1. q.held = r.held /\ q.ban = Append(r.ban, e)
    BY <1>1, <1>4 DEF Collect1, Gc
  <2>2. e.counter = 0 /\ e.tag = NoTag
    BY <1>1, <1>4 DEF Entry, Collecting
  <2>. QED
    BY <1>0, <1>1, <2>1, <2>2, CollectKeeps
<1>5. CASE ~r.raised /\ ~(e.counter > 0) /\ e.tag \in r.held
  <2>1. q.held = r.held \ {e.tag} /\ q.ban = r.ban /\ q.raised = r.raised
    BY <1>1, <1>5 DEF Collect1, Gc
  <2>2. e.tag # NoTag
    BY <1>1, <1>5, Plan9Assumption DEF Gc
  <2>3. \A k \in DOMAIN r.ban : r.ban[k].tag # e.tag
    <3>. SUFFICES ASSUME NEW k \in DOMAIN r.ban, r.ban[k].tag = e.tag PROVE FALSE
      OBVIOUS
    <3>1. PICK j \in 1..i : r.ban[k].tag = list[j].tag
      BY DEF Collecting
    <3>2. j \in DOMAIN list /\ i + 1 \in DOMAIN list /\ j # i + 1
      OBVIOUS
    <3>3. list[j].tag = list[i + 1].tag
      BY <3>1
    <3>. QED
      BY <2>2, <3>1, <3>2, <3>3, Zenon DEF Banned
  <2>4. Banned(q.held, q.ban)
    BY <2>1, <2>3 DEF Banned, Collecting
  <2>5. \A k \in DOMAIN q.ban : \E j \in 1..(i + 1) :
           q.ban[k].tag = list[j].tag /\ q.ban[k].counter + 1 >= list[j].counter
    BY <2>1 DEF Collecting
  <2>6. \A j \in DOMAIN list : j > i + 1 /\ list[j].tag # NoTag => list[j].tag \in q.held
    <3>. SUFFICES ASSUME NEW j \in DOMAIN list, j > i + 1, list[j].tag # NoTag
                  PROVE  list[j].tag \in r.held /\ list[j].tag # e.tag
      BY <2>1
    <3>. QED
      BY DEF Collecting, Banned
  <2>7. q.held \subseteq h /\ \A m \in h : (\A j \in 1..(i + 1) : list[j].tag # m) => m \in q.held
    BY <2>1 DEF Collecting
  <2>8. ~q.raised
    BY <1>5, <2>1
  <2>. QED
    BY <1>1, <2>4, <2>5, <2>6, <2>7, <2>8, Zenon DEF Collecting
<1>. QED
  BY <1>2, <1>3, <1>4, <1>5

\* What a collection does to a ban list.
LEMMA CollectOutcome ==
    ASSUME NEW pool \in Gc, ~pool.raised, Banned(pool.held, pool.ban)
    PROVE  /\ Collecting(pool.held, pool.ban, Len(pool.ban), Collect(pool))
           /\ Collect(pool).cells = pool.cells
<1>. DEFINE list == pool.ban
            h == pool.held
<1>0. list \in Seq(Entry) /\ h \in SUBSET Tags
  BY DEF Gc
<1>1. PICK gc \in [0..Len(list) -> Gc] :
              /\ gc[0] = [pool EXCEPT !.ban = <<>>]
              /\ \A i \in 1..Len(list) : gc[i] = Collect1(gc[i - 1], list[i])
              /\ Collect(pool) = gc[Len(list)]
  BY CollectLoop
<1>. HIDE DEF list, h
<1>. DEFINE P == {n \in Nat : n <= Len(list) => /\ Collecting(h, list, n, gc[n])
                                              /\ gc[n].cells = pool.cells}
<1>2. 0 \in P
  <2>1. /\ gc[0].ban = <<>> /\ gc[0].held = h /\ ~gc[0].raised /\ gc[0] \in Gc
        /\ gc[0].cells = pool.cells
    BY <1>0, <1>1 DEF Gc, h
  <2>2. Banned(h, list)
    BY DEF h, list
  <2>. QED
    BY <1>0, <2>1, <2>2 DEF Collecting, Banned
<1>3. ASSUME NEW n \in Nat, n \in P PROVE n + 1 \in P
  <2>. SUFFICES ASSUME n + 1 <= Len(list)
                PROVE  /\ Collecting(h, list, n + 1, gc[n + 1])
                       /\ gc[n + 1].cells = pool.cells
    OBVIOUS
  <2>1. gc[n + 1] = Collect1(gc[n], list[n + 1])
    BY <1>0, <1>1, n + 1 - 1 = n
  <2>2. Collecting(h, list, n, gc[n]) /\ gc[n].cells = pool.cells /\ gc[n] \in Gc
    BY <1>0, <1>3
  <2>3. Collecting(h, list, n + 1, gc[n + 1])
    BY <1>0, <2>1, <2>2, CollectStep DEF h, list
  <2>4. Collect1(gc[n], list[n + 1]).cells = gc[n].cells
    BY <2>2 DEF Collect1, Gc
  <2>. QED
    BY <2>1, <2>2, <2>3, <2>4
<1>. HIDE DEF P
<1>4. Len(list) \in P
  BY <1>0, <1>2, <1>3, NatSetInduction
<1>. QED
  BY <1>0, <1>1, <1>4 DEF P, h, list

-----------------------------------------------------------------------------
(* The bitmap. *)

\* A cell more has a tag more, while the bitmap is not complete.
LEMMA NewCell ==
    ASSUME NEW n \in Nat, Mapped(n) # Tags
    PROVE  \E tag \in Mapped(n + 1) : tag \notin Mapped(n)
<1>. DEFINE tag == MinTag + n * CellSize
<1>1. n * CellSize \in Nat /\ (n + 1) * CellSize = n * CellSize + CellSize
  BY Plan9Assumption
<1>2. PICK m \in Tags : ~(m < tag)
  BY DEF Mapped
<1>3. MinTag \in Nat /\ MaxTag \in Nat /\ CellSize \in Nat /\ CellSize > 0
  BY Plan9Assumption
<1>4. tag \in Tags /\ tag < MinTag + (n + 1) * CellSize
  BY <1>1, <1>2, <1>3 DEF Tags
<1>. QED
  BY <1>4, <1>1, <1>3 DEF Mapped

\* A bitmap only grows.
LEMMA MappedGrows ==
    ASSUME NEW n \in Nat
    PROVE  Mapped(n) \subseteq Mapped(n + 1)
<1>1. n * CellSize \in Nat /\ (n + 1) * CellSize = n * CellSize + CellSize
  BY Plan9Assumption
<1>. QED
  BY <1>1, Plan9Assumption DEF Mapped, Tags

\* The counters of a ban list are numbers.
LEMMA Counters ==
    ASSUME NEW list \in Seq(Entry)
    PROVE  \A k \in DOMAIN list : list[k].counter \in Nat
<1>1. \A k \in DOMAIN list : list[k] \in Entry
  OBVIOUS
<1>. QED
  BY <1>1 DEF Entry

\* What alloc() does to a pool, with g cells more than before, before it takes
\* a tag: an entry of the ban list is a tick older for each collection, only
\* 0xFFFF raises, and if nothing has raised there is a tag, or all are taken.
Prepared(pool, g, a) ==
    /\ a \in Gc /\ Banned(a.held, a.ban) /\ a.cells = pool.cells + g
    /\ \A k \in DOMAIN a.ban : \E j \in DOMAIN pool.ban :
          a.ban[k].tag = pool.ban[j].tag /\ a.ban[k].counter + 1 + g >= pool.ban[j].counter
    /\ a.held \subseteq pool.held
    /\ \A n \in pool.held : (\A j \in DOMAIN pool.ban : pool.ban[j].tag # n) => n \in a.held
    /\ a.raised => \E j \in DOMAIN pool.ban : pool.ban[j].tag = NoTag /\ pool.ban[j].counter <= g
    /\ ~a.raised => Mapped(a.cells) \ a.held # {} \/ Tags \subseteq a.held

\* alloc() collects once, or grows the bitmap and collects a second time.
LEMMA Prepares ==
    ASSUME NEW pool \in Gc, ~pool.raised, Banned(pool.held, pool.ban),
           pool.held \subseteq Mapped(pool.cells)
    PROVE  \E g \in {0, 1} : Prepared(pool, g, Grown(Collect(pool)))
<1>. DEFINE f == Collect(pool)
            list == pool.ban
<1>1. Collecting(pool.held, list, Len(list), f) /\ f.cells = pool.cells
  BY CollectOutcome
<1>2. list \in Seq(Entry) /\ DOMAIN list = 1..Len(list) /\ Len(list) \in Nat /\ pool.cells \in Nat
  BY DEF Gc
<1>. HIDE DEF f
<1>3. f \in Gc /\ f.ban \in Seq(Entry) /\ DOMAIN f.ban = 1..Len(f.ban) /\ f.held \subseteq Tags
  BY <1>1 DEF Collecting, Gc
<1>4. CASE ~Grows(f)
  <2>1. Grown(f) = f
    BY <1>4 DEF Grown
  <2>2. \A k \in DOMAIN f.ban : \E j \in DOMAIN list :
          f.ban[k].tag = list[j].tag /\ f.ban[k].counter + 1 + 0 >= list[j].counter
    <3>1. \A k \in DOMAIN f.ban : f.ban[k].counter \in Nat
      BY <1>3, Counters
    <3>2. \A k \in DOMAIN f.ban : f.ban[k].counter + 1 + 0 = f.ban[k].counter + 1
      BY <3>1
    <3>. QED
      BY <1>1, <1>2, <3>2, Zenon DEF Collecting
  <2>3. f.raised => \E j \in DOMAIN list : list[j].tag = NoTag /\ list[j].counter <= 0
    BY <1>1, <1>2 DEF Collecting
  <2>4. ~f.raised => Mapped(f.cells) \ f.held # {} \/ Tags \subseteq f.held
    BY <1>4 DEF Grows
  <2>5. Prepared(pool, 0, f)
    BY <1>1, <1>2, <1>3, <2>2, <2>3, <2>4 DEF Prepared, Collecting
  <2>. QED
    BY <2>1, <2>5 DEF f
<1>5. CASE Grows(f)
  <2>. DEFINE p == [f EXCEPT !.cells = @ + 1]
              a == Collect(p)
  <2>1. /\ p \in Gc /\ p.held = f.held /\ p.ban = f.ban /\ p.cells = pool.cells + 1
        /\ ~p.raised /\ ~f.raised
    BY <1>1, <1>2, <1>3, <1>5 DEF Gc, Grows
  <2>2. Banned(p.held, p.ban)
    BY <1>1, <2>1 DEF Collecting
  <2>3. Grown(f) = a
    BY <1>5 DEF Grown
  <2>. HIDE DEF p
  <2>4. Collecting(f.held, f.ban, Len(f.ban), a) /\ a.cells = pool.cells + 1
    BY <2>1, <2>2, CollectOutcome
  <2>. HIDE DEF a
  <2>5. a \in Gc /\ a.ban \in Seq(Entry) /\ DOMAIN a.ban = 1..Len(a.ban)
    BY <2>4 DEF Collecting, Gc
  <2>6. /\ \A k \in DOMAIN f.ban : f.ban[k].counter \in Nat
        /\ \A k \in DOMAIN a.ban : a.ban[k].counter \in Nat
        /\ \A k \in DOMAIN list : list[k].counter \in Nat
    BY <1>2, <1>3, <2>5, Counters
  <2>7. ASSUME NEW k \in DOMAIN a.ban
        PROVE  \E j \in DOMAIN list :
                  a.ban[k].tag = list[j].tag /\ a.ban[k].counter + 1 + 1 >= list[j].counter
    <3>1. PICK i \in DOMAIN f.ban :
             a.ban[k].tag = f.ban[i].tag /\ a.ban[k].counter + 1 >= f.ban[i].counter
      BY <1>3, <2>4, Zenon DEF Collecting
    <3>2. PICK j \in DOMAIN list :
             f.ban[i].tag = list[j].tag /\ f.ban[i].counter + 1 >= list[j].counter
      BY <1>1, <1>2, Zenon DEF Collecting
    <3>3. a.ban[k].counter + 1 + 1 >= list[j].counter
      BY <2>6, <3>1, <3>2
    <3>. QED
      BY <3>1, <3>2, <3>3, Zenon
  <2>8. a.raised => \E j \in DOMAIN list : list[j].tag = NoTag /\ list[j].counter <= 1
    <3>. SUFFICES ASSUME a.raised
                  PROVE  \E j \in DOMAIN list : list[j].tag = NoTag /\ list[j].counter <= 1
      OBVIOUS
    <3>1. PICK i \in DOMAIN f.ban : f.ban[i].tag = NoTag /\ f.ban[i].counter = 0
      BY <1>3, <2>4, Zenon DEF Collecting
    <3>2. PICK j \in DOMAIN list :
             f.ban[i].tag = list[j].tag /\ f.ban[i].counter + 1 >= list[j].counter
      BY <1>1, <1>2, Zenon DEF Collecting
    <3>3. list[j].counter <= 1
      BY <2>6, <3>1, <3>2
    <3>. QED
      BY <3>1, <3>2, <3>3, Zenon
  <2>9. a.held \subseteq f.held /\ f.held \subseteq pool.held
    BY <1>1, <2>4 DEF Collecting
  <2>10. Mapped(a.cells) \ a.held # {}
    <3>1. Mapped(pool.cells) # Tags
      BY <1>1, <1>5 DEF Grows
    <3>2. PICK tag \in Mapped(pool.cells + 1) : tag \notin Mapped(pool.cells)
      BY <1>2, <3>1, NewCell
    <3>. QED
      BY <2>4, <2>9, <3>2
  <2>11. \A n \in pool.held : (\A j \in DOMAIN list : list[j].tag # n) => n \in a.held
    <3>. SUFFICES ASSUME NEW n \in pool.held, \A j \in DOMAIN list : list[j].tag # n
                  PROVE  n \in a.held
      OBVIOUS
    <3>1. n \in f.held
      BY <1>1, <1>2, Zenon DEF Collecting
    <3>2. \A k \in DOMAIN f.ban : f.ban[k].tag # n
      BY <1>1, <1>2, Zenon DEF Collecting
    <3>. QED
      BY <1>3, <2>4, <3>1, <3>2, Zenon DEF Collecting
  <2>12. Prepared(pool, 1, a)
    BY <2>4, <2>5, <2>7, <2>8, <2>9, <2>10, <2>11, Zenon DEF Prepared, Collecting
  <2>. QED
    BY <2>3, <2>12 DEF f
<1>. QED
  BY <1>4, <1>5

-----------------------------------------------------------------------------
(* The inductive invariant. *)

\* 0xFFFF leaves the ban list after Ban collections: one for every request but
\* the first one, which released it, and one for every cell but the first.
Over(c) == nid + cells[c] > Ban + 2
Old(c, list) ==
    Over(c) \/ \A i \in DOMAIN list :
                  list[i].tag = NoTag => list[i].counter + (nid + cells[c]) > Ban + 2

InUse(t) == task[t].pc = "wait" /\ task[t].tag # NoTag
Apart(t, h, list) ==
    InUse(t) => task[t].tag \in h /\ \A i \in DOMAIN list : list[i].tag # task[t].tag

PoolInv(c) ==
    /\ cells[c] \in Nat \ {0} /\ held[c] \subseteq Mapped(cells[c]) /\ ban[c] \in Seq(Entry)
    /\ Banned(held[c], ban[c]) /\ Old(c, ban[c]) /\ Cardinality(held[c]) < nid

TaskInv(t) ==
    /\ task[t].pc \in {"idle", "wait"} /\ task[t].tag \in AllTags
    /\ task[t].pc = "wait" => nid > 1
    /\ task[t].res[1] = "exhausted" => Over(ClientOf[t])
    /\ Apart(t, held[ClientOf[t]], ban[ClientOf[t]])
    /\ InUse(t) => \A u \in Tasks \ {t} :
          task[u].pc = "wait" /\ ClientOf[u] = ClientOf[t] => task[u].tag # task[t].tag

TagInv ==
    /\ nid \in Nat \ {0}
    /\ DOMAIN held = Clients /\ DOMAIN ban = Clients /\ DOMAIN task = Tasks
    /\ held = [c \in Clients |-> held[c]] /\ ban = [c \in Clients |-> ban[c]]
    /\ DOMAIN cells = Clients /\ cells = [c \in Clients |-> cells[c]]
    /\ task = [t \in Tasks |-> task[t]]
    /\ \A c \in Clients : PoolInv(c)
    /\ \A t \in Tasks : TaskInv(t)

\* An answer never looks like a pool that is used up.
LEMMA OutcomeKind == ASSUME NEW chunk PROVE Outcome(chunk)[1] # "exhausted"
  BY DEF Outcome

\* A request that has ended has no tag.
LEMMA DoneFields ==
    ASSUME NEW op, NEW res
    PROVE  Done(op, res).pc = "idle" /\ Done(op, res).tag = NoTag /\ Done(op, res).res = res
  BY DEF Done, Idle

\* A list that alloc() may be called with: the ban list, or this with the tag
\* that the coroutine has just released.
Fit(t, list) ==
    /\ list \in Seq(Entry) /\ Banned(held[ClientOf[t]], list) /\ Old(ClientOf[t], list)
    /\ \A u \in Tasks \ {t} : ClientOf[u] = ClientOf[t] => Apart(u, held[ClientOf[t]], list)

\* The ban list as it is, before a new request.
LEMMA BanFits ==
    ASSUME TagInv, NEW t \in Tasks
    PROVE  Fit(t, ban[ClientOf[t]])
<1>1. ClientOf[t] \in Clients
  BY Plan9Assumption
<1>. QED
  BY <1>1, Zenon DEF TagInv, PoolInv, TaskInv, Fit

\* The ban list after the tag of a request that waits was released.
LEMMA ReleasedFits ==
    ASSUME TagInv, NEW t \in Tasks, task[t].pc = "wait"
    PROVE  Fit(t, Released(t))
<1>. DEFINE c == ClientOf[t]
            e == [tag |-> task[t].tag, counter |-> Ban]
            n == Len(ban[c])
            list == Append(ban[c], e)
<1>1. c \in Clients /\ TaskInv(t) /\ PoolInv(c) /\ nid \in Nat
  BY Plan9Assumption DEF TagInv
<1>2. e \in Entry /\ e.tag = task[t].tag /\ e.counter = Ban
  BY <1>1, Plan9Assumption DEF TaskInv, Entry
<1>3. /\ ban[c] \in Seq(Entry) /\ DOMAIN ban[c] = 1..n /\ n \in Nat /\ list \in Seq(Entry)
      /\ list[n + 1] = e /\ DOMAIN list = 1..(n + 1) /\ \A k \in 1..n : list[k] = ban[c][k]
  BY <1>1, <1>2 DEF PoolInv
<1>. HIDE DEF list
<1>4. Banned(held[c], list)
  <2>1. e.tag # NoTag => e.tag \in held[c] /\ \A k \in 1..n : ban[c][k].tag # e.tag
    BY <1>1, <1>2, <1>3, Zenon DEF TaskInv, Apart, InUse
  <2>2. /\ \A k \in 1..n : ban[c][k].tag # NoTag => ban[c][k].tag \in held[c]
        /\ \A k, l \in 1..n : k # l /\ ban[c][k].tag = ban[c][l].tag => ban[c][k].tag = NoTag
    BY <1>1, <1>3, Zenon DEF PoolInv, Banned
  <2>. HIDE DEF e
  <2>3. ASSUME NEW i \in DOMAIN list, list[i].tag # NoTag PROVE list[i].tag \in held[c]
    <3>1. i \in 1..n \/ i = n + 1
      BY <1>3
    <3>. QED
      BY <1>3, <2>1, <2>2, <2>3, <3>1, Zenon
  <2>4. ASSUME NEW i \in DOMAIN list, NEW j \in DOMAIN list, i # j, list[i].tag = list[j].tag
        PROVE  list[i].tag = NoTag
    <3>1. i \in 1..n \/ i = n + 1
      BY <1>3
    <3>2. j \in 1..n \/ j = n + 1
      BY <1>3
    <3>3. CASE i \in 1..n /\ j \in 1..n
      BY <1>3, <2>2, <2>4, <3>3, Zenon
    <3>4. CASE i = n + 1 \/ j = n + 1
      BY <1>3, <2>1, <2>4, <3>1, <3>2, <3>4, Zenon
    <3>. QED
      BY <3>1, <3>2, <3>3, <3>4
  <2>. QED
    BY <2>3, <2>4 DEF Banned
<1>5. Old(c, list)
  <2>1. nid > 1 /\ Old(c, ban[c]) /\ cells[c] \in Nat \ {0}
    BY <1>1, Zenon DEF TaskInv, PoolInv
  <2>2. e.counter + (nid + cells[c]) > Ban + 2
    BY <1>1, <1>2, <2>1, Plan9Assumption
  <2>. HIDE DEF e
  <2>3. CASE Over(c)
    BY <2>3 DEF Old
  <2>4. CASE ~Over(c)
    <3>. SUFFICES ASSUME NEW i \in DOMAIN list, list[i].tag = NoTag
                  PROVE  list[i].counter + (nid + cells[c]) > Ban + 2
      BY DEF Old
    <3>1. CASE i = n + 1
      BY <1>3, <2>2, <3>1
    <3>2. CASE i \in 1..n
      BY <1>3, <2>1, <2>4, <3>2, Zenon DEF Old
    <3>. QED
      BY <1>3, <3>1, <3>2
  <2>. QED
    BY <2>3, <2>4
<1>6. ASSUME NEW u \in Tasks \ {t}, ClientOf[u] = c PROVE Apart(u, held[c], list)
  <2>. SUFFICES ASSUME InUse(u)
                PROVE  task[u].tag \in held[c] /\ \A i \in DOMAIN list : list[i].tag # task[u].tag
    BY DEF Apart
  <2>1. TaskInv(u)
    BY DEF TagInv
  <2>2. task[u].tag \in held[c] /\ \A i \in 1..n : ban[c][i].tag # task[u].tag
    BY <1>3, <1>6, <2>1, Zenon DEF TaskInv, Apart
  <2>3. e.tag # task[u].tag
    BY <1>1, <1>2, <1>6, <2>1, Zenon DEF TaskInv, InUse
  <2>. HIDE DEF e
  <2>4. ASSUME NEW i \in DOMAIN list PROVE list[i].tag # task[u].tag
    <3>1. i \in 1..n \/ i = n + 1
      BY <1>3
    <3>. QED
      BY <1>3, <2>2, <2>3, <3>1, Zenon
  <2>. QED
    BY <2>2, <2>4, Zenon
<1>. QED
  BY <1>3, <1>4, <1>5, <1>6, Zenon DEF Fit, Released, list

\* A pool as alloc() finds it.
LEMMA PoolFits ==
    ASSUME TagInv, NEW t \in Tasks, NEW list, Fit(t, list)
    PROVE  LET p == Pool(ClientOf[t], list)
           IN  /\ p \in Gc /\ ~p.raised /\ p.ban = list /\ p.held = held[ClientOf[t]]
               /\ p.cells = cells[ClientOf[t]] /\ Banned(p.held, p.ban)
               /\ p.held \subseteq Mapped(p.cells)
<1>. DEFINE c == ClientOf[t]
            p == Pool(c, list)
<1>1. c \in Clients /\ PoolInv(c)
  BY Plan9Assumption DEF TagInv
<1>2. held[c] \in SUBSET Tags /\ cells[c] \in Nat /\ list \in Seq(Entry) /\ Banned(held[c], list)
  BY <1>1, Zenon DEF PoolInv, Fit, Mapped
<1>3. p.held = held[c] /\ p.ban = list /\ p.cells = cells[c] /\ ~p.raised
  BY DEF Pool
<1>4. p \in Gc
  BY <1>2 DEF Gc, Pool
<1>. HIDE DEF p
<1>. QED
  BY <1>1, <1>2, <1>3, <1>4, Zenon DEF PoolInv, p

\* What alloc() and the request after it do, whether it raises or not: a is the
\* pool before a tag is taken, h the tags that are allocated in the end, and x
\* the coroutine.
Requested(t, a, h, x) ==
    LET c == ClientOf[t] IN
    /\ ban' = [ban EXCEPT ![c] = a.ban] /\ held' = [held EXCEPT ![c] = h]
    /\ cells' = [cells EXCEPT ![c] = a.cells] /\ task' = [task EXCEPT ![t] = x]
    /\ a.held \subseteq h /\ h \subseteq Mapped(a.cells) /\ Cardinality(h) < nid'
    /\ x.pc \in {"idle", "wait"} /\ x.tag \in AllTags
    /\ x.pc = "wait" => x.tag \in h /\ x.tag \notin a.held /\ nid' = nid + 1
    /\ x.pc = "idle" => nid' = nid /\ nid + a.cells > Ban + 2
    /\ x.res[1] = "exhausted" => x.pc = "idle"

\* alloc() raises when 0xFFFF is collected, or when more tags were given out
\* than entries of the ban list are passed over.
LEMMA RequestOutcome ==
    ASSUME TagInv, NEW t \in Tasks, NEW op, NEW stage, NEW fid, NEW list, Fit(t, list),
           Request(t, op, stage, fid, list)
    PROVE  \E g \in {0, 1} : \E a, h, x :
              Prepared(Pool(ClientOf[t], list), g, a) /\ Requested(t, a, h, x)
<1>. DEFINE c == ClientOf[t]
            p == Pool(c, list)
            a == Grown(Collect(p))
            free == Mapped(a.cells) \ a.held
<1>1. c \in Clients /\ PoolInv(c) /\ nid \in Nat
  BY Plan9Assumption DEF TagInv
<1>2. /\ p \in Gc /\ ~p.raised /\ p.ban = list /\ p.held = held[c] /\ p.cells = cells[c]
      /\ Banned(p.held, p.ban) /\ p.held \subseteq Mapped(p.cells)
  BY PoolFits, Zenon
<1>7. /\ ban' = [ban EXCEPT ![c] = a.ban] /\ cells' = [cells EXCEPT ![c] = a.cells]
      /\ \/ /\ a.raised \/ free = {}
            /\ held' = [held EXCEPT ![c] = a.held]
            /\ task' = [task EXCEPT ![t] = Done(op, <<"exhausted">>)] /\ nid' = nid
         \/ /\ \E tag \in free :
                  /\ held' = [held EXCEPT ![c] = a.held \cup {tag}]
                  /\ task' = [task EXCEPT ![t] =
                                [pc |-> "wait", op |-> op, stage |-> stage,
                                 tag |-> tag, id |-> nid, res |-> <<"none">>]]
            /\ nid' = nid + 1
  BY Zenon DEF Request
<1>. HIDE DEF p
<1>3. PICK g \in {0, 1} : Prepared(p, g, a)
  BY <1>2, Prepares
<1>. HIDE DEF a
<1>10. a.held \subseteq held[c] /\ a \in Gc /\ a.cells = cells[c] + g /\ cells[c] \in Nat \ {0}
  BY <1>1, <1>2, <1>3, Zenon DEF Prepared, PoolInv
<1>11. a.held \subseteq Tags /\ a.held \subseteq Mapped(a.cells) /\ Mapped(a.cells) \subseteq Tags
  <2>1. Mapped(cells[c]) \subseteq Mapped(a.cells)
    <3>1. CASE g = 0
      BY <1>10, <3>1
    <3>2. CASE g = 1
      BY <1>10, <3>2, MappedGrows
    <3>. QED
      BY <3>1, <3>2
  <2>. QED
    BY <1>1, <1>10, <2>1, Zenon DEF PoolInv, Mapped
<1>4. /\ IsFiniteSet(a.held) /\ Cardinality(a.held) \in Nat /\ Cardinality(a.held) < nid
      /\ Cardinality(Tags) = MaxTag - MinTag + 1
  <2>1. IsFiniteSet(Tags) /\ Cardinality(Tags) = MaxTag - MinTag + 1
    BY Plan9Assumption, FS_Interval DEF Tags
  <2>2. IsFiniteSet(held[c])
    BY <1>1, <2>1, FS_Subset, Zenon DEF PoolInv, Mapped
  <2>3. IsFiniteSet(a.held) /\ Cardinality(a.held) <= Cardinality(held[c])
    BY <1>10, <2>2, FS_Subset, Zenon
  <2>4. Cardinality(a.held) \in Nat /\ Cardinality(held[c]) \in Nat
    BY <2>2, <2>3, FS_CardinalityType
  <2>5. Cardinality(held[c]) < nid
    BY <1>1, Zenon DEF PoolInv
  <2>6. Cardinality(a.held) < nid
    BY <1>1, <2>3, <2>4, <2>5
  <2>. QED
    BY <2>1, <2>3, <2>4, <2>6, Zenon
<1>5. a.raised => nid + a.cells > Ban + 2
  <2>. SUFFICES ASSUME a.raised PROVE nid + a.cells > Ban + 2
    OBVIOUS
  <2>1. PICK j \in DOMAIN list : list[j].tag = NoTag /\ list[j].counter <= g
    BY <1>2, <1>3, Zenon DEF Prepared
  <2>2. Old(c, list) /\ list[j].counter \in Nat
    BY Counters, Zenon DEF Fit
  <2>3. CASE Over(c)
    BY <1>1, <1>10, <2>3, Plan9Assumption DEF Over
  <2>4. CASE list[j].counter + (nid + cells[c]) > Ban + 2
    BY <1>1, <1>10, <2>1, <2>2, <2>4, Plan9Assumption
  <2>. QED
    BY <2>1, <2>2, <2>3, <2>4, Zenon DEF Old
<1>6. ~a.raised /\ free = {} => nid + a.cells > Ban + 2
  <2>. SUFFICES ASSUME ~a.raised, free = {} PROVE nid + a.cells > Ban + 2
    OBVIOUS
  <2>1. Tags = a.held
    BY <1>3, <1>11, Zenon DEF Prepared
  <2>. QED
    BY <1>1, <1>4, <1>10, <2>1, Plan9Assumption
<1>8. CASE /\ a.raised \/ free = {}
           /\ held' = [held EXCEPT ![c] = a.held]
           /\ task' = [task EXCEPT ![t] = Done(op, <<"exhausted">>)] /\ nid' = nid
  <2>. DEFINE x == Done(op, <<"exhausted">>)
  <2>1. x.pc = "idle" /\ x.tag \in AllTags
    BY DoneFields, Zenon DEF AllTags
  <2>2. task' = [task EXCEPT ![t] = x]
    BY <1>8, Zenon
  <2>. HIDE DEF x
  <2>3. nid + a.cells > Ban + 2 /\ Cardinality(a.held) < nid'
    BY <1>4, <1>5, <1>6, <1>8, Zenon
  <2>4. Requested(t, a, a.held, x)
    BY <1>7, <1>8, <1>11, <2>1, <2>2, <2>3, Zenon DEF Requested
  <2>. QED
    BY <1>3, <2>4 DEF p
<1>9. CASE /\ \E tag \in free :
                  /\ held' = [held EXCEPT ![c] = a.held \cup {tag}]
                  /\ task' = [task EXCEPT ![t] =
                                [pc |-> "wait", op |-> op, stage |-> stage,
                                 tag |-> tag, id |-> nid, res |-> <<"none">>]]
           /\ nid' = nid + 1
  <2>1. PICK tag \in free :
                  /\ held' = [held EXCEPT ![c] = a.held \cup {tag}]
                  /\ task' = [task EXCEPT ![t] =
                                [pc |-> "wait", op |-> op, stage |-> stage,
                                 tag |-> tag, id |-> nid, res |-> <<"none">>]]
    BY <1>9, Zenon
  <2>. DEFINE h == a.held \cup {tag}
              x == [pc |-> "wait", op |-> op, stage |-> stage, tag |-> tag, id |-> nid,
                    res |-> <<"none">>]
  <2>2. Cardinality(h) < nid + 1
    <3>1. Cardinality(h) = Cardinality(a.held) + 1
      BY <1>4, FS_AddElement, Zenon
    <3>. QED
      BY <1>1, <1>4, <3>1
  <2>3. /\ x.pc = "wait" /\ x.tag = tag /\ x.res[1] = "none" /\ x.tag \in AllTags
        /\ tag \in h /\ h \subseteq Mapped(a.cells) /\ a.held \subseteq h
    BY <1>11, Zenon DEF AllTags
  <2>4. held' = [held EXCEPT ![c] = h] /\ task' = [task EXCEPT ![t] = x]
    BY <2>1, Zenon
  <2>. HIDE DEF h, x
  <2>5. x.tag \notin a.held /\ x.pc # "idle" /\ x.res[1] # "exhausted"
    BY <2>3, Zenon
  <2>6. Requested(t, a, h, x)
    BY <1>7, <1>9, <2>2, <2>3, <2>4, <2>5, Zenon DEF Requested
  <2>. QED
    BY <1>3, <2>6, Zenon DEF p
<1>. QED
  BY <1>7, <1>8, <1>9, Zenon

\* A request makes an entry of the ban list one tick older, and a cell another
\* one.
LEMMA Ticks ==
    ASSUME NEW a \in Nat, NEW b \in Nat, NEW n \in Nat, NEW k \in Nat, NEW g \in Nat, NEW m \in Nat,
           a + 1 + g >= b, b + (n + k) > m + 2
    PROVE  a + ((n + 1) + (k + g)) > m + 2
  OBVIOUS

\* The pool of a client is as good when others have sent requests.
LEMMA PoolLater ==
    ASSUME NEW d, PoolInv(d), held'[d] = held[d], ban'[d] = ban[d], cells'[d] = cells[d],
           nid \in Nat, nid' \in Nat, nid' >= nid
    PROVE  PoolInv(d)'
<1>1. /\ ban[d] \in Seq(Entry) /\ Cardinality(held[d]) < nid /\ cells[d] \in Nat \ {0}
      /\ Old(d, ban[d]) /\ held[d] \subseteq Tags /\ Ban \in Nat
  BY Plan9Assumption, Zenon DEF PoolInv, Mapped
<1>2. \A k \in DOMAIN ban[d] : ban[d][k].counter \in Nat
  BY <1>1, Counters, Zenon
<1>3. Cardinality(held[d]) \in Nat
  <2>0. MinTag \in Int /\ MaxTag \in Int
    BY Plan9Assumption
  <2>1. IsFiniteSet(Tags)
    BY <2>0, FS_Interval, Zenon DEF Tags
  <2>. QED
    BY <1>1, <2>1, FS_Subset, FS_CardinalityType, Zenon
<1>4. Cardinality(held[d]) < nid'
  BY <1>1, <1>3
<1>5. nid + cells[d] > Ban + 2 => nid' + cells[d] > Ban + 2
  BY <1>1
<1>6. ASSUME NEW i \in DOMAIN ban[d], ban[d][i].counter + (nid + cells[d]) > Ban + 2
      PROVE  ban[d][i].counter + (nid' + cells[d]) > Ban + 2
  BY <1>1, <1>2, <1>6
<1>7. \/ nid' + cells[d] > Ban + 2
      \/ \A i \in DOMAIN ban[d] :
            ban[d][i].tag = NoTag => ban[d][i].counter + (nid' + cells[d]) > Ban + 2
  BY <1>1, <1>5, <1>6, Zenon DEF Old, Over
<1>. QED
  BY <1>4, <1>7, Zenon DEF PoolInv, Old, Over, Mapped

\* request() collects the ban list and takes a tag.
LEMMA RequestInv ==
    ASSUME TagInv, NEW t \in Tasks, NEW op, NEW stage, NEW fid, NEW list, Fit(t, list),
           Request(t, op, stage, fid, list)
    PROVE  TagInv'
<1>. DEFINE c == ClientOf[t]
            p == Pool(c, list)
<1>13. PICK g \in {0, 1} : \E a, h, x : Prepared(p, g, a) /\ Requested(t, a, h, x)
  BY RequestOutcome
<1>1. PICK a, h, x : Prepared(p, g, a) /\ Requested(t, a, h, x)
  BY <1>13
<1>2. c \in Clients /\ PoolInv(c) /\ nid \in Nat \ {0} /\ \A u \in Tasks : ClientOf[u] \in Clients
  BY Plan9Assumption DEF TagInv
<1>0. p.held = held[c] /\ p.ban = list /\ p.cells = cells[c]
  BY Zenon DEF Pool
<1>. HIDE DEF p
<1>3. /\ a \in Gc /\ Banned(a.held, a.ban) /\ a.cells = cells[c] + g /\ a.held \subseteq held[c]
      /\ \A k \in DOMAIN a.ban : \E j \in DOMAIN list :
            a.ban[k].tag = list[j].tag /\ a.ban[k].counter + 1 + g >= list[j].counter
      /\ \A n \in held[c] : (\A j \in DOMAIN list : list[j].tag # n) => n \in a.held
  BY <1>0, <1>1, Zenon DEF Prepared
<1>11. cells[c] \in Nat \ {0} /\ a.cells \in Nat \ {0} /\ a.cells >= cells[c] /\ list \in Seq(Entry)
  BY <1>2, <1>3 DEF PoolInv, Fit
<1>12. Mapped(a.cells) \subseteq Tags /\ h \subseteq Tags
  BY <1>1, Zenon DEF Mapped, Requested
<1>4. nid' \in Nat \ {0} /\ nid' >= nid
  BY <1>1, <1>2 DEF Requested
<1>5. /\ DOMAIN held' = Clients /\ DOMAIN ban' = Clients /\ DOMAIN task' = Tasks
      /\ held' = [d \in Clients |-> held'[d]] /\ ban' = [d \in Clients |-> ban'[d]]
      /\ DOMAIN cells' = Clients /\ cells' = [d \in Clients |-> cells'[d]]
      /\ task' = [u \in Tasks |-> task'[u]]
  BY <1>1, Zenon DEF Requested, TagInv
<1>6. /\ held'[c] = h /\ ban'[c] = a.ban /\ task'[t] = x /\ cells'[c] = a.cells
      /\ \A d \in Clients \ {c} : held'[d] = held[d] /\ ban'[d] = ban[d] /\ cells'[d] = cells[d]
      /\ \A u \in Tasks \ {t} : task'[u] = task[u]
  BY <1>1, <1>2, Zenon DEF Requested, TagInv
<1>7. PoolInv(c)'
  <2>1. /\ a.ban \in Seq(Entry) /\ Cardinality(h) < nid' /\ a.held \subseteq h
        /\ h \subseteq Mapped(a.cells)
    BY <1>1, <1>3, Zenon DEF Requested, Gc
  <2>2. Banned(h, a.ban)
    BY <1>3, <2>1, Zenon DEF Banned
  <2>3. ASSUME ~(nid' + a.cells > Ban + 2), NEW k \in DOMAIN a.ban, a.ban[k].tag = NoTag
        PROVE  a.ban[k].counter + (nid' + a.cells) > Ban + 2
    <3>1. PICK j \in DOMAIN list :
             a.ban[k].tag = list[j].tag /\ a.ban[k].counter + 1 + g >= list[j].counter
      BY <1>3, Zenon
    <3>2. list[j].counter + (nid + cells[c]) > Ban + 2
      <4>1. ~Over(c)
        BY <1>2, <1>4, <1>11, <2>3, Plan9Assumption DEF Over
      <4>2. Old(c, list) /\ list[j].tag = NoTag
        BY <2>3, <3>1, Zenon DEF Fit
      <4>. QED
        BY <4>1, <4>2, Zenon DEF Old
    <3>3. nid' = nid + 1
      BY <1>1, <2>3, Zenon DEF Requested
    <3>4. list[j].counter \in Nat /\ a.ban[k].counter \in Nat
      BY <1>11, <2>1, Counters, Zenon
    <3>5. nid \in Nat /\ Ban \in Nat /\ g \in Nat /\ cells[c] \in Nat
      BY <1>2, <1>11, Plan9Assumption
    <3>6. a.ban[k].counter + ((nid + 1) + (cells[c] + g)) > Ban + 2
      BY <3>1, <3>2, <3>4, <3>5, Ticks, Zenon
    <3>. QED
      BY <1>3, <3>3, <3>6, Zenon
  <2>4. \/ nid' + a.cells > Ban + 2
        \/ \A i \in DOMAIN a.ban : a.ban[i].tag = NoTag => a.ban[i].counter + (nid' + a.cells) > Ban + 2
    BY <2>3, Zenon
  <2>. QED
    BY <1>6, <1>11, <2>1, <2>2, <2>4, Zenon DEF PoolInv, Old, Over, Mapped
<1>8. ASSUME NEW d \in Clients \ {c} PROVE PoolInv(d)'
  <2>1. PoolInv(d) /\ held'[d] = held[d] /\ ban'[d] = ban[d] /\ cells'[d] = cells[d]
    BY <1>6 DEF TagInv
  <2>. QED
    BY <1>2, <1>4, <2>1, PoolLater, Zenon
<1>9. TaskInv(t)'
  <2>1. x.pc = "wait" => \A i \in DOMAIN a.ban : a.ban[i].tag # x.tag
    <3>. SUFFICES ASSUME x.pc = "wait", NEW i \in DOMAIN a.ban, a.ban[i].tag = x.tag PROVE FALSE
      BY Zenon
    <3>1. x.tag \in Tags /\ x.tag \notin a.held
      BY <1>1, <1>12, Zenon DEF Requested
    <3>. QED
      BY <1>3, <3>1, Plan9Assumption, Zenon DEF Banned
  <2>2. ASSUME x.pc = "wait", NEW u \in Tasks \ {t}, task[u].pc = "wait", ClientOf[u] = c
        PROVE  task[u].tag # x.tag
    <3>1. x.tag \in Tags /\ x.tag \notin a.held
      BY <1>1, <1>12, <2>2, Zenon DEF Requested
    <3>2. CASE task[u].tag = NoTag
      BY <3>1, <3>2, Plan9Assumption, Zenon
    <3>3. CASE task[u].tag # NoTag
      <4>1. task[u].tag \in held[c] /\ \A i \in DOMAIN list : list[i].tag # task[u].tag
        BY <2>2, <3>3, Zenon DEF Fit, Apart, InUse
      <4>. QED
        BY <1>3, <3>1, <4>1, Zenon
    <3>. QED
      BY <3>2, <3>3, Zenon
  <2>3. /\ x.pc \in {"idle", "wait"} /\ x.tag \in AllTags
        /\ x.pc = "wait" => nid' > 1 /\ x.tag \in h
        /\ x.res[1] = "exhausted" => nid' + a.cells > Ban + 2
    <3>1. /\ x.pc \in {"idle", "wait"} /\ x.tag \in AllTags
          /\ x.pc = "wait" => nid' = nid + 1 /\ x.tag \in h
          /\ x.res[1] = "exhausted" => nid' = nid /\ nid + a.cells > Ban + 2
      BY <1>1, Zenon DEF Requested
    <3>2. nid' = nid + 1 => nid' > 1
      BY <1>2
    <3>. QED
      BY <3>1, <3>2
  <2>. QED
    BY <1>6, <2>1, <2>2, <2>3, Zenon DEF TaskInv, Apart, InUse, Over
<1>10. ASSUME NEW u \in Tasks \ {t} PROVE TaskInv(u)'
  <2>1. TaskInv(u)
    BY DEF TagInv
  <2>2. Apart(u, held[ClientOf[u]], ban[ClientOf[u]])'
    <3>1. CASE ClientOf[u] # c
      BY <1>2, <1>6, <2>1, <3>1, Zenon DEF TaskInv, Apart, InUse
    <3>2. CASE ClientOf[u] = c
      <4>. SUFFICES ASSUME InUse(u)
                    PROVE  task[u].tag \in h /\ \A i \in DOMAIN a.ban : a.ban[i].tag # task[u].tag
        BY <1>6, <3>2, Zenon DEF Apart, InUse
      <4>1. task[u].tag \in held[c] /\ \A i \in DOMAIN list : list[i].tag # task[u].tag
        BY <3>2, Zenon DEF Fit, Apart
      <4>2. task[u].tag \in a.held
        BY <1>3, <4>1, Zenon
      <4>3. \A i \in DOMAIN a.ban : a.ban[i].tag # task[u].tag
        BY <1>3, <4>1, Zenon
      <4>. QED
        BY <1>1, <4>2, <4>3, Zenon DEF Requested
    <3>. QED
      BY <3>1, <3>2, Zenon
  <2>3. ASSUME InUse(u), x.pc = "wait", c = ClientOf[u] PROVE x.tag # task[u].tag
    <3>1. task[u].tag \in held[c] /\ \A i \in DOMAIN list : list[i].tag # task[u].tag
      BY <2>3, Zenon DEF Fit, Apart
    <3>2. task[u].tag \in a.held
      BY <1>3, <3>1, Zenon
    <3>. QED
      BY <1>1, <2>3, <3>2, Zenon DEF Requested
  <2>4. InUse(u) => \A w \in Tasks \ {u} :
           task'[w].pc = "wait" /\ ClientOf[w] = ClientOf[u] => task'[w].tag # task[u].tag
    <3>. SUFFICES ASSUME InUse(u), NEW w \in Tasks \ {u}, task'[w].pc = "wait",
                         ClientOf[w] = ClientOf[u]
                  PROVE  task'[w].tag # task[u].tag
      BY Zenon
    <3>1. CASE w = t
      BY <1>6, <2>3, <3>1, Zenon
    <3>2. CASE w # t
      BY <1>6, <2>1, <3>2, Zenon DEF TaskInv
    <3>. QED
      BY <3>1, <3>2, Zenon
  <2>5. /\ task[u].pc \in {"idle", "wait"} /\ task[u].tag \in AllTags
        /\ task[u].pc = "wait" => nid' > 1
        /\ task[u].res[1] = "exhausted" => Over(ClientOf[u])'
    <3>1. nid > 1 => nid' > 1
      BY <1>2, <1>4
    <3>2. ASSUME NEW d \in Clients
          PROVE  cells[d] \in Nat /\ cells'[d] \in Nat /\ cells'[d] >= cells[d]
      <4>1. cells[d] \in Nat
        BY DEF TagInv, PoolInv
      <4>2. CASE d = c
        BY <1>6, <1>11, <4>1, <4>2, Zenon
      <4>3. CASE d # c
        BY <1>6, <4>1, <4>3
      <4>. QED
        BY <4>2, <4>3, Zenon
    <3>3. /\ cells[ClientOf[u]] \in Nat /\ cells'[ClientOf[u]] \in Nat
          /\ cells'[ClientOf[u]] >= cells[ClientOf[u]]
      BY <1>2, <3>2, Zenon
    <3>4. Over(ClientOf[u]) => Over(ClientOf[u])'
      BY <1>2, <1>4, <3>3, Plan9Assumption DEF Over
    <3>. QED
      BY <2>1, <3>1, <3>4, Zenon DEF TaskInv
  <2>. QED
    BY <1>6, <2>2, <2>4, <2>5, Zenon DEF TaskInv, InUse
<1>. QED
  BY <1>4, <1>5, <1>7, <1>8, <1>9, <1>10, Zenon DEF TagInv

\* A coroutine stops waiting, or waits for the answer to version().
LEMMA ReleaseInv ==
    ASSUME TagInv, NEW t \in Tasks, task[t].pc = "wait", NEW x,
           x.pc = "idle", x.tag = NoTag, x.res[1] # "exhausted",
           task' = [task EXCEPT ![t] = x],
           ban' = [ban EXCEPT ![ClientOf[t]] = Released(t)], UNCHANGED <<held, cells, nid>>
    PROVE  TagInv'
<1>. DEFINE c == ClientOf[t]
<1>1. c \in Clients /\ Fit(t, Released(t)) /\ \A u \in Tasks : ClientOf[u] \in Clients
  BY ReleasedFits, Plan9Assumption, Zenon
<1>2. /\ ban'[c] = Released(t) /\ task'[t] = x
      /\ \A d \in Clients \ {c} : ban'[d] = ban[d]
      /\ \A u \in Tasks \ {t} : task'[u] = task[u]
      /\ DOMAIN ban' = Clients /\ ban' = [d \in Clients |-> ban'[d]]
      /\ DOMAIN task' = Tasks /\ task' = [u \in Tasks |-> task'[u]]
  BY <1>1, Zenon DEF TagInv
<1>3. ASSUME NEW d \in Clients PROVE PoolInv(d)'
  <2>1. PoolInv(d)
    BY DEF TagInv
  <2>2. CASE d = c
    BY <1>1, <1>2, <2>1, <2>2, Zenon DEF PoolInv, Fit, Old, Over, Mapped
  <2>3. CASE d # c
    BY <1>2, <2>1, <2>3, Zenon DEF PoolInv, Old, Over, Mapped
  <2>. QED
    BY <2>2, <2>3
<1>4. TaskInv(t)'
  BY <1>2, Zenon DEF TaskInv, Apart, InUse, AllTags
<1>5. ASSUME NEW u \in Tasks \ {t} PROVE TaskInv(u)'
  <2>1. TaskInv(u)
    BY DEF TagInv
  <2>2. Apart(u, held[ClientOf[u]], ban[ClientOf[u]])'
    <3>1. CASE ClientOf[u] = c
      BY <1>1, <1>2, <3>1 DEF Fit, Apart, InUse
    <3>2. CASE ClientOf[u] # c
      BY <1>1, <1>2, <2>1, <3>2, Zenon DEF TaskInv, Apart, InUse
    <3>. QED
      BY <3>1, <3>2, Zenon
  <2>3. \A w \in Tasks : task'[w].pc = "wait" => task'[w] = task[w]
    BY <1>2
  <2>. QED
    BY <1>2, <2>1, <2>2, <2>3, Zenon DEF TaskInv, InUse, Over
<1>. QED
  BY <1>2, <1>3, <1>4, <1>5, Zenon DEF TagInv

\* version() takes no tag and releases 0xFFFF.
LEMMA VersionInv ==
    ASSUME TagInv, NEW t \in Tasks, NEW op, RequestVersion(t, op)
    PROVE  TagInv'
<1>. DEFINE x == [pc |-> "wait", op |-> op, stage |-> "version", tag |-> NoTag, id |-> nid,
                  res |-> <<"none">>]
<1>1. task' = [task EXCEPT ![t] = x] /\ nid' = nid + 1 /\ UNCHANGED <<held, ban, cells>>
  BY Zenon DEF RequestVersion
<1>2. x.pc = "wait" /\ x.tag = NoTag /\ x.res[1] = "none"
  OBVIOUS
<1>. HIDE DEF x
<1>3. /\ task'[t] = x /\ \A u \in Tasks \ {t} : task'[u] = task[u]
      /\ DOMAIN task' = Tasks /\ task' = [u \in Tasks |-> task'[u]]
      /\ nid \in Nat \ {0} /\ Ban \in Nat
  BY <1>1, Plan9Assumption, Zenon DEF TagInv
<1>4. ASSUME NEW d \in Clients PROVE PoolInv(d)'
  <2>1. PoolInv(d) /\ nid \in Nat /\ nid' \in Nat /\ nid' >= nid
    BY <1>1, <1>3 DEF TagInv
  <2>. QED
    BY <1>1, <2>1, PoolLater, Zenon
<1>5. TaskInv(t)'
  BY <1>1, <1>2, <1>3 DEF TaskInv, Apart, InUse, AllTags
<1>6. ASSUME NEW u \in Tasks \ {t} PROVE TaskInv(u)'
  <2>1. TaskInv(u)
    BY DEF TagInv
  <2>2. Apart(u, held[ClientOf[u]], ban[ClientOf[u]])'
    BY <1>1, <1>3, <2>1, Zenon DEF TaskInv, Apart, InUse
  <2>3. InUse(u) => \A w \in Tasks \ {u} :
           task'[w].pc = "wait" /\ ClientOf[w] = ClientOf[u] => task'[w].tag # task[u].tag
    BY <1>2, <1>3, <2>1, Zenon DEF TaskInv, InUse
  <2>. QED
    <3>1. PoolInv(ClientOf[u]) /\ cells[ClientOf[u]] \in Nat
      BY Plan9Assumption, Zenon DEF TagInv, PoolInv
    <3>2. Over(ClientOf[u]) => Over(ClientOf[u])'
      BY <1>1, <1>3, <3>1 DEF Over
    <3>. QED
      <4>1. task'[u] = task[u] /\ nid' > 1
        BY <1>1, <1>3
      <4>. QED
        BY <2>1, <2>2, <2>3, <3>2, <4>1, Zenon DEF TaskInv, InUse
<1>. QED
  BY <1>1, <1>3, <1>4, <1>5, <1>6 DEF TagInv

\* A step that touches neither pool nor tasks.
LEMMA TagsKept ==
    ASSUME TagInv, UNCHANGED <<held, ban, cells, task, nid>>
    PROVE  TagInv'
<1>1. \A c \in Clients : PoolInv(c)'
  BY Zenon DEF TagInv, PoolInv, Old, Over, Mapped
<1>2. ASSUME NEW t \in Tasks PROVE TaskInv(t)'
  <2>1. TaskInv(t)
    BY DEF TagInv
  <2>. QED
    BY <2>1, Zenon DEF TaskInv, Apart, InUse, Over
<1>3. /\ nid' = nid /\ DOMAIN held' = Clients /\ DOMAIN ban' = Clients /\ DOMAIN task' = Tasks
      /\ held' = [c \in Clients |-> held'[c]] /\ ban' = [c \in Clients |-> ban'[c]]
      /\ task' = [t \in Tasks |-> task'[t]]
      /\ DOMAIN cells' = Clients /\ cells' = [c \in Clients |-> cells'[c]]
  BY DEF TagInv
<1>4. nid \in Nat \ {0}
  BY DEF TagInv
<1>. QED
  BY <1>1, <1>2, <1>3, <1>4, Zenon DEF TagInv

\* TagInv is inductive.
LEMMA TagNext ==
    ASSUME TagInv, [Next]_vars
    PROVE  TagInv'
<1>1. ASSUME NEW t \in Tasks, Begin(t) PROVE TagInv'
  <2>1. CASE Head(plan[t])[1] = "start"
    <3>1. RequestVersion(t, Head(plan[t]))
      BY <1>1, <2>1, Zenon DEF Begin
    <3>. QED
      BY <3>1, VersionInv
  <2>2. CASE Head(plan[t])[1] # "start"
    <3>1. Use(t, Head(plan[t]))
      BY <1>1, <2>2, Zenon DEF Begin
    <3>2. \E stage, fid : Request(t, Head(plan[t]), stage, fid, ban[ClientOf[t]])
      BY <3>1, Zenon DEF Use
    <3>. QED
      BY <3>2, RequestInv, BanFits, Zenon
  <2>. QED
    BY <2>1, <2>2
<1>2. ASSUME NEW t \in Tasks, Answered(t) PROVE TagInv'
  <2>. DEFINE x == Done(task[t].op, Outcome(Chunk(t)))
  <2>1. /\ task[t].pc = "wait" /\ task' = [task EXCEPT ![t] = x]
        /\ ban' = [ban EXCEPT ![ClientOf[t]] = Released(t)] /\ UNCHANGED <<held, cells, nid>>
    BY <1>2, Zenon DEF Answered, Ready, TagInv
  <2>2. x.pc = "idle" /\ x.tag = NoTag /\ x.res[1] # "exhausted"
    BY DoneFields, OutcomeKind
  <2>. HIDE DEF x
  <2>. QED
    BY <2>1, <2>2, ReleaseInv, Zenon
<1>3. ASSUME NEW t \in Tasks, Followed(t) PROVE TagInv'
  <2>1. /\ task[t].pc = "wait"
        /\ \E op, stage, fid : Request(t, op, stage, fid, Released(t))
    BY <1>3, Zenon DEF Followed, Ready
  <2>. QED
    BY <2>1, RequestInv, ReleasedFits, Zenon
<1>4. ASSUME NEW t \in Tasks, Cancel(t) PROVE TagInv'
  <2>. DEFINE x == Done(task[t].op, <<"cancelled">>)
  <2>1. /\ task[t].pc = "wait" /\ task' = [task EXCEPT ![t] = x]
        /\ ban' = [ban EXCEPT ![ClientOf[t]] = Released(t)] /\ UNCHANGED <<held, cells, nid>>
    BY <1>4, Zenon DEF Cancel, TagInv
  <2>2. x.pc = "idle" /\ x.tag = NoTag /\ x.res[1] # "exhausted"
    BY DoneFields
  <2>. HIDE DEF x
  <2>. QED
    BY <2>1, <2>2, ReleaseInv, Zenon
<1>5. ASSUME NEW c \in Clients, Network(c) \/ ConnectionLost(c) PROVE TagInv'
  <2>1. UNCHANGED <<held, ban, cells, task, nid>>
    BY <1>5, Zenon DEF Network, ClientReceives, ServerReceives, ConnectionLost, client
  <2>. QED
    BY <2>1, TagsKept
<1>6. CASE UNCHANGED vars
  <2>1. UNCHANGED <<held, ban, cells, task, nid>>
    BY <1>6 DEF vars, client
  <2>. QED
    BY <2>1, TagsKept
<1>. QED
  BY <1>1, <1>2, <1>3, <1>4, <1>5, <1>6 DEF Next, Task

\* TagInv holds at every moment.
LEMMA TagInvHolds == Spec => []TagInv
<1>1. Init => TagInv
  <2>. SUFFICES ASSUME Init PROVE TagInv
    OBVIOUS
  <2>1. ASSUME NEW c \in Clients PROVE PoolInv(c)
    <3>1. held[c] = {} /\ ban[c] = <<>> /\ cells[c] = 1 /\ nid = 1
      BY DEF Init
    <3>. QED
      BY <3>1, FS_EmptySet DEF PoolInv, Banned, Old
  <2>2. ASSUME NEW t \in Tasks PROVE TaskInv(t)
    <3>1. task[t].pc = "idle" /\ task[t].tag = NoTag /\ task[t].res[1] = "none"
      BY Zenon DEF Init, Idle
    <3>. QED
      BY <3>1, Zenon DEF TaskInv, AllTags, Apart, InUse
  <2>. QED
    BY <2>1, <2>2 DEF Init, TagInv
<1>2. TagInv /\ [Next]_vars => TagInv'
  BY TagNext
<1>. QED
  BY <1>1, <1>2, PTL DEF Spec

\* For every number of clients and coroutines, every size of the cells and every
\* ban that is shorter than the pool: no two requests that wait share a tag, the
\* tag of one is not free, and request() finds a tag until 0xFFFF, which
\* version() has released without having allocated it, is collected from the
\* ban list, by alloc() itself or by its second attempt with a larger bitmap.
THEOREM TagsLastHolds == Spec => []TagsLast
<1>1. TagInv => TagsLast
  BY Zenon DEF TagInv, TaskInv, Apart, InUse, Over, TagsLast
<1>. QED
  BY <1>1, TagInvHolds, PTL
=============================================================================
