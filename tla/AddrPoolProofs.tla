---------------------------- MODULE AddrPoolProofs ----------------------------
(***************************************************************************)
(* Proofs about AddrPool, for every range of addresses, every cell size,   *)
(* both directions and any number of threads: while callers release only   *)
(* what they hold, the bitmap and the ban list account for every address,  *)
(* no address is handed out twice, and alloc() raises only when the range  *)
(* is exhausted.                                                           *)
(***************************************************************************)
EXTENDS AddrPool, TLAPS

(* locate() and the address computed by alloc() are inverse to each other. *)

\* Quotient and remainder of a position: its cell and its bit, as locate() computes them.
LEMMA DivMod ==
    ASSUME NEW n \in Nat
    PROVE  /\ n \div CellSize \in Nat
           /\ n % CellSize \in Bits
           /\ n = (n \div CellSize) * CellSize + (n % CellSize)
BY PoolAssumption DEF Bits

\* A cell and a bit determine the position they come from.
LEMMA DivModUnique ==
    ASSUME NEW base \in Nat, NEW bit \in Bits
    PROVE  /\ (base * CellSize + bit) \div CellSize = base
           /\ (base * CellSize + bit) % CellSize = bit
BY PoolAssumption DEF Bits

\* The cells of __init__() cover the range: no position is beyond the last.
LEMMA CellsCover ==
    ASSUME NEW n \in 0..(MaxAddr - MinAddr)
    PROVE  n \div CellSize < Cells
BY PoolAssumption DEF Cells

\* Every address of the range has a cell below Cells and a bit of that cell,
\* from which alloc() computes that address.
LEMMA LocateAddr ==
    ASSUME NEW a \in Addr
    PROVE  /\ Base(a) \in 0..(Cells - 1)
           /\ Bit(a) \in Bits
           /\ AddrAt(Base(a), Bit(a)) = a
<1>1. Offset(a) \in 0..(MaxAddr - MinAddr)
  BY PoolAssumption DEF Offset, Addr
<1>2. Base(a) \in Nat /\ Base(a) < Cells
  BY <1>1, PoolAssumption, DivMod, CellsCover DEF Base
<1>3. Cells \in Nat
  BY PoolAssumption, DivMod DEF Cells
<1>4. Bit(a) \in Bits /\ Base(a) * CellSize + Bit(a) = Offset(a)
  BY <1>1, PoolAssumption, DivMod DEF Base, Bit
<1>5. AddrAt(Base(a), Bit(a)) = a
  BY <1>4, PoolAssumption DEF AddrAt, Offset, Addr
<1>. QED BY <1>2, <1>3, <1>4, <1>5

\* The address that alloc() computes from a cell and a bit is located there.
LEMMA AddrLocate ==
    ASSUME NEW base \in Nat, NEW bit \in Bits
    PROVE  /\ AddrAt(base, bit) \in Int
           /\ Base(AddrAt(base, bit)) = base
           /\ Bit(AddrAt(base, bit)) = bit
<1>1. base * CellSize + bit \in Nat
  BY PoolAssumption DEF Bits
<1>2. Offset(AddrAt(base, bit)) = base * CellSize + bit
  BY <1>1, PoolAssumption DEF Offset, AddrAt
<1>3. AddrAt(base, bit) \in Int
  BY <1>1, PoolAssumption DEF AddrAt
<1>. QED BY <1>2, <1>3, DivModUnique DEF Base, Bit

\* A pool has at least one cell.
LEMMA CellsType == Cells \in Nat \ {0}
BY PoolAssumption, DivMod DEF Cells

\* A position before that of an address of the range is in the range, too.
LEMMA EarlierInRange ==
    ASSUME NEW a \in Addr, NEW base \in Nat, NEW bit \in Bits,
           base < Base(a) \/ (base = Base(a) /\ bit <= Bit(a))
    PROVE  AddrAt(base, bit) \in Addr
<1>1. Offset(a) \in 0..(MaxAddr - MinAddr)
  BY PoolAssumption DEF Offset, Addr
<1>2. /\ Base(a) \in Nat /\ Bit(a) \in Bits
      /\ Base(a) * CellSize + Bit(a) = Offset(a)
  <2>1. Offset(a) \in Nat
    BY <1>1, PoolAssumption
  <2>. QED
    BY <2>1, DivMod, Zenon DEF Base, Bit
<1>3. base * CellSize + bit <= Base(a) * CellSize + Bit(a)
  <2>1. CASE base = Base(a)
    BY <2>1, <1>2, PoolAssumption DEF Bits
  <2>2. CASE base < Base(a)
    <3>1. PICK d \in Nat : Base(a) = base + 1 + d
      <4>1. Base(a) - base - 1 \in Nat
        BY <2>2, <1>2
      <4>. QED BY <4>1, <1>2
    <3>2. Base(a) * CellSize = base * CellSize + CellSize + d * CellSize
      BY <3>1, PoolAssumption
    <3>3. d * CellSize \in Nat /\ base * CellSize \in Nat
      BY PoolAssumption
    <3>. QED BY <3>2, <3>3, <1>2, PoolAssumption DEF Bits
  <2>. QED BY <2>1, <2>2, <1>2
<1>4. base * CellSize + bit \in Nat
  BY PoolAssumption DEF Bits
<1>. QED BY <1>1, <1>2, <1>3, <1>4, PoolAssumption DEF AddrAt, Addr

\* A position beyond the range belongs to the last cell.
LEMMA BeyondIsLast ==
    ASSUME NEW base \in Nat, NEW bit \in Bits, AddrAt(base, bit) \notin Addr
    PROVE  base >= Cells - 1
<1>. SUFFICES ASSUME base < Cells - 1 PROVE FALSE
  BY CellsType
<1>. DEFINE last == IF Reverse THEN MinAddr ELSE MaxAddr
<1>1. last \in Addr /\ Offset(last) = MaxAddr - MinAddr
  BY PoolAssumption DEF Addr, Offset
<1>2. Base(last) = Cells - 1
  BY <1>1, PoolAssumption, DivMod DEF Base, Cells
<1>. QED BY <1>1, <1>2, EarlierInRange

-----------------------------------------------------------------------------
(* What the two ways of changing the bitmap do to IsAllocated. *)

\* Replacing one cell of the bitmap leaves a bitmap of the same length.
LEMMA CellExcept ==
    ASSUME addr_map \in Seq(SUBSET Bits),
           NEW i \in 1..Len(addr_map), NEW e \in SUBSET Bits,
           addr_map' = [addr_map EXCEPT ![i] = e]
    PROVE  /\ addr_map' \in Seq(SUBSET Bits)
           /\ Len(addr_map') = Len(addr_map)
           /\ \A q \in 1..Len(addr_map) :
                  addr_map'[q] = IF q = i THEN e ELSE addr_map[q]
OBVIOUS

\* Setting the bit of an allocated address frees this address and no other.
LEMMA ReleaseFreesOne ==
    ASSUME TypeOK, SpareBits, NEW a \in Addr, IsAllocated(a), Release1(a)
    PROVE  /\ addr_map' \in Seq(SUBSET Bits)
           /\ Len(addr_map') = Len(addr_map)
           /\ SpareBits'
           /\ \A x \in Addr : IsAllocated(x)' <=> IsAllocated(x) /\ x # a
<1>1. /\ Base(a) \in Nat /\ Bit(a) \in Bits /\ Base(a) + 1 \in 1..Len(addr_map)
      /\ addr_map \in Seq(SUBSET Bits)
  BY LocateAddr, CellsType DEF TypeOK, IsAllocated
<1>. DEFINE p == Base(a) + 1
            cell == addr_map[p] \cup {Bit(a)}
<1>2. /\ p \in 1..Len(addr_map)
      /\ cell \in SUBSET Bits
      /\ addr_map' = [addr_map EXCEPT ![p] = cell]
  BY <1>1 DEF Release1
<1>3. /\ addr_map' \in Seq(SUBSET Bits)
      /\ Len(addr_map') = Len(addr_map)
      /\ \A q \in 1..Len(addr_map) :
             addr_map'[q] = IF q = Base(a) + 1 THEN addr_map[q] \cup {Bit(a)}
                                               ELSE addr_map[q]
  <2>. HIDE DEF p, cell
  <2>1. /\ addr_map' \in Seq(SUBSET Bits)
        /\ Len(addr_map') = Len(addr_map)
        /\ \A q \in 1..Len(addr_map) :
               addr_map'[q] = IF q = p THEN cell ELSE addr_map[q]
    BY <1>1, <1>2, CellExcept
  <2>. QED BY <2>1, Zenon DEF p, cell
<1>4. SpareBits'
  <2>. SUFFICES ASSUME NEW base \in 0..(Len(addr_map) - 1), NEW bit \in Bits,
                       AddrAt(base, bit) \notin Addr
                PROVE  bit \in addr_map'[base + 1]
    BY <1>3 DEF SpareBits
  <2>1. bit \in addr_map[base + 1] /\ base + 1 \in 1..Len(addr_map)
    BY <1>1 DEF SpareBits
  <2>. QED BY <1>3, <2>1, Zenon
<1>5. ASSUME NEW x \in Addr
      PROVE  IsAllocated(x)' <=> IsAllocated(x) /\ x # a
  <2>1. /\ Base(x) \in Nat
        /\ Base(x) = Base(a) /\ Bit(x) = Bit(a) => x = a
    BY LocateAddr, CellsType
  <2>2. CASE Base(x) < Len(addr_map)
    <3>1. Base(x) + 1 \in 1..Len(addr_map) /\ Base(x) < Len(addr_map')
      BY <1>1, <1>3, <2>1, <2>2
    <3>2. Bit(x) \in addr_map'[Base(x) + 1] <=>
            Bit(x) \in addr_map[Base(x) + 1] \/ x = a
      <4>1. CASE x = a
        BY <1>1, <1>3, <4>1, Zenon
      <4>2. CASE x # a /\ Base(x) = Base(a)
        <5>1. Bit(x) # Bit(a)
          BY <2>1, <4>2
        <5>. QED BY <1>1, <1>3, <4>2, <5>1, Zenon
      <4>3. CASE x # a /\ Base(x) # Base(a)
        <5>1. Base(x) + 1 # Base(a) + 1
          BY <1>1, <2>1, <4>3
        <5>2. addr_map'[Base(x) + 1] = addr_map[Base(x) + 1]
          BY <1>3, <3>1, <5>1, Zenon
        <5>. QED BY <4>3, <5>2
      <4>. QED BY <4>1, <4>2, <4>3
    <3>. QED BY <2>2, <3>1, <3>2 DEF IsAllocated
  <2>3. CASE ~(Base(x) < Len(addr_map))
    BY <1>3, <2>1, <2>3 DEF IsAllocated
  <2>. QED BY <2>2, <2>3
<1>. QED BY <1>3, <1>4, <1>5

\* Clearing the bit of an address in the range allocates this address alone.
LEMMA TakeAllocatesOne ==
    ASSUME TypeOK, SpareBits,
           NEW base \in 0..(Len(addr_map) - 1), NEW bit \in Bits,
           bit \in addr_map[base + 1], AddrAt(base, bit) \in Addr,
           addr_map' = [addr_map EXCEPT ![base + 1] = @ \ {bit}]
    PROVE  /\ addr_map' \in Seq(SUBSET Bits)
           /\ Len(addr_map') = Len(addr_map)
           /\ SpareBits'
           /\ ~IsAllocated(AddrAt(base, bit))
           /\ \A x \in Addr :
                  IsAllocated(x)' <=> IsAllocated(x) \/ x = AddrAt(base, bit)
<1>1. /\ base \in Nat /\ base + 1 \in 1..Len(addr_map)
      /\ addr_map \in Seq(SUBSET Bits)
  BY DEF TypeOK
<1>. DEFINE p == base + 1
            cell == addr_map[p] \ {bit}
<1>2. /\ p \in 1..Len(addr_map)
      /\ cell \in SUBSET Bits
      /\ addr_map' = [addr_map EXCEPT ![p] = cell]
  BY <1>1
<1>3. /\ addr_map' \in Seq(SUBSET Bits)
      /\ Len(addr_map') = Len(addr_map)
      /\ \A q \in 1..Len(addr_map) :
             addr_map'[q] = IF q = base + 1 THEN addr_map[q] \ {bit}
                                            ELSE addr_map[q]
  <2>. HIDE DEF p, cell
  <2>1. /\ addr_map' \in Seq(SUBSET Bits)
        /\ Len(addr_map') = Len(addr_map)
        /\ \A q \in 1..Len(addr_map) :
               addr_map'[q] = IF q = p THEN cell ELSE addr_map[q]
    BY <1>1, <1>2, CellExcept, Zenon
  <2>. QED BY <2>1, Zenon DEF p, cell
<1>4. Base(AddrAt(base, bit)) = base /\ Bit(AddrAt(base, bit)) = bit
  BY <1>1, AddrLocate
<1>5. SpareBits'
  <2>. SUFFICES ASSUME NEW b \in 0..(Len(addr_map) - 1), NEW i \in Bits,
                       AddrAt(b, i) \notin Addr
                PROVE  i \in addr_map'[b + 1]
    BY <1>3 DEF SpareBits
  <2>1. i \in addr_map[b + 1] /\ b + 1 \in 1..Len(addr_map)
    BY <1>1 DEF SpareBits
  <2>. QED BY <1>1, <1>3, <2>1
<1>6. ~IsAllocated(AddrAt(base, bit))
  BY <1>4 DEF IsAllocated
<1>7. ASSUME NEW x \in Addr
      PROVE  IsAllocated(x)' <=> IsAllocated(x) \/ x = AddrAt(base, bit)
  <2>1. Base(x) \in Nat /\ AddrAt(Base(x), Bit(x)) = x
    BY LocateAddr, CellsType
  <2>2. CASE x = AddrAt(base, bit)
    BY <1>1, <1>3, <1>4, <2>2 DEF IsAllocated
  <2>3. CASE x # AddrAt(base, bit) /\ Base(x) < Len(addr_map)
    <3>1. Base(x) + 1 \in 1..Len(addr_map) /\ Base(x) < Len(addr_map')
      BY <1>1, <1>3, <2>1, <2>3
    <3>2. Base(x) # base \/ Bit(x) # bit
      BY <2>1, <2>3
    <3>3. Bit(x) \in addr_map'[Base(x) + 1] <=> Bit(x) \in addr_map[Base(x) + 1]
      BY <1>1, <1>3, <2>1, <3>1, <3>2
    <3>. QED BY <2>3, <3>1, <3>3 DEF IsAllocated
  <2>4. CASE x # AddrAt(base, bit) /\ ~(Base(x) < Len(addr_map))
    BY <1>3, <2>1, <2>4 DEF IsAllocated
  <2>. QED BY <2>2, <2>3, <2>4
<1>. QED BY <1>3, <1>5, <1>6, <1>7

\* A new cell of free bits allocates nothing.
LEMMA GrowAllocatesNone ==
    ASSUME TypeOK, SpareBits, addr_map' = Append(addr_map, Bits)
    PROVE  /\ addr_map' \in Seq(SUBSET Bits)
           /\ Len(addr_map') = Len(addr_map) + 1
           /\ SpareBits'
           /\ \A x \in Addr : IsAllocated(x)' <=> IsAllocated(x)
<1>1. /\ addr_map \in Seq(SUBSET Bits)
      /\ addr_map' \in Seq(SUBSET Bits)
      /\ Len(addr_map') = Len(addr_map) + 1
      /\ \A q \in 1..Len(addr_map) : addr_map'[q] = addr_map[q]
      /\ addr_map'[Len(addr_map) + 1] = Bits
  BY DEF TypeOK
<1>2. SpareBits'
  BY <1>1 DEF SpareBits
<1>3. ASSUME NEW x \in Addr
      PROVE  IsAllocated(x)' <=> IsAllocated(x)
  <2>1. Base(x) \in Nat /\ Bit(x) \in Bits
    BY LocateAddr, CellsType
  <2>. QED BY <1>1, <2>1 DEF IsAllocated
<1>. QED BY <1>1, <1>2, <1>3

-----------------------------------------------------------------------------
(* The ban list. *)

\* free() with a ban adds one address to the banned ones.
LEMMA AppendBan ==
    ASSUME ban \in Seq(Entry), BannedOnce, NEW e \in Entry,
           e.addr \notin Banned, ban' = Append(ban, e)
    PROVE  /\ ban' \in Seq(Entry)
           /\ Len(ban') = Len(ban) + 1
           /\ Banned' = Banned \cup {e.addr}
           /\ \A i, j \in DOMAIN ban' : ban'[i].addr = ban'[j].addr => i = j
<1>1. /\ ban' \in Seq(Entry) /\ Len(ban') = Len(ban) + 1
      /\ \A i \in 1..Len(ban) : ban'[i] = ban[i]
      /\ ban'[Len(ban) + 1] = e
      /\ DOMAIN ban = 1..Len(ban) /\ DOMAIN ban' = 1..(Len(ban) + 1)
      /\ Len(ban) \in Nat
  OBVIOUS
<1>2. Banned' = Banned \cup {e.addr}
  <2>1. ASSUME NEW x \in Banned' PROVE x \in Banned \cup {e.addr}
    BY <1>1, <2>1 DEF Banned
  <2>2. ASSUME NEW x \in Banned PROVE x \in Banned'
    BY <1>1, <2>2 DEF Banned
  <2>3. e.addr \in Banned'
    BY <1>1 DEF Banned
  <2>. QED BY <2>1, <2>2, <2>3
<1>3. ASSUME NEW i \in DOMAIN ban', NEW j \in DOMAIN ban',
             ban'[i].addr = ban'[j].addr
      PROVE  i = j
  <2>1. \A k \in 1..Len(ban) : ban[k].addr # e.addr
    BY <1>1 DEF Banned
  <2>. QED BY <1>1, <1>3, <2>1 DEF BannedOnce
<1>. QED BY <1>1, <1>2, <1>3

\* A function on 1..n is a sequence of length n.
LEMMA FunctionIsSeq ==
    ASSUME NEW S, NEW n \in Nat, NEW f \in [1..n -> S]
    PROVE  f \in Seq(S) /\ Len(f) = n
OBVIOUS

\* RemoveAt drops one entry, and its address is no longer banned.
LEMMA RemoveBan ==
    ASSUME ban \in Seq(Entry), BannedOnce, NEW k \in DOMAIN ban,
           ban' = RemoveAt(ban, k)
    PROVE  /\ ban' \in Seq(Entry)
           /\ Len(ban') = Len(ban) - 1
           /\ Banned' = Banned \ {ban[k].addr}
           /\ \A i, j \in DOMAIN ban' : ban'[i].addr = ban'[j].addr => i = j
<1>1. DOMAIN ban = 1..Len(ban) /\ Len(ban) \in Nat /\ Len(ban) - 1 \in Nat
  OBVIOUS
<1>2. /\ ban' \in [1..(Len(ban) - 1) -> Entry]
      /\ \A i \in 1..(Len(ban) - 1) :
             ban'[i] = IF i < k THEN ban[i] ELSE ban[i + 1]
  BY <1>1 DEF RemoveAt
<1>3. ban' \in Seq(Entry) /\ Len(ban') = Len(ban) - 1
  BY <1>1, <1>2, FunctionIsSeq, Zenon
<1>4. ASSUME NEW x \in Banned' PROVE x \in Banned /\ x # ban[k].addr
  <2>1. PICK i \in 1..(Len(ban) - 1) : x = ban'[i].addr
    BY <1>2 DEF Banned
  <2>2. PICK j \in 1..Len(ban) : j # k /\ ban'[i] = ban[j]
    BY <1>1, <1>2
  <2>. QED BY <1>1, <2>1, <2>2 DEF Banned, BannedOnce
<1>5. ASSUME NEW x \in Banned, x # ban[k].addr PROVE x \in Banned'
  <2>1. PICK j \in 1..Len(ban) : x = ban[j].addr
    BY <1>1 DEF Banned
  <2>2. j # k
    BY <1>5, <2>1
  <2>3. PICK i \in 1..(Len(ban) - 1) : ban'[i] = ban[j]
    <3>1. CASE j < k
      BY <1>1, <1>2, <3>1
    <3>2. CASE j > k
      <4>1. j - 1 \in 1..(Len(ban) - 1) /\ ~(j - 1 < k) /\ (j - 1) + 1 = j
        BY <1>1, <3>2
      <4>. QED BY <1>2, <4>1
    <3>. QED BY <1>1, <2>2, <3>1, <3>2
  <2>. QED BY <1>2, <2>1, <2>3, Zenon DEF Banned
<1>6. ASSUME NEW i \in DOMAIN ban', NEW j \in DOMAIN ban',
             ban'[i].addr = ban'[j].addr
      PROVE  i = j
  <2>. DEFINE Old(n) == IF n < k THEN n ELSE n + 1
  <2>1. i \in 1..(Len(ban) - 1) /\ j \in 1..(Len(ban) - 1)
    BY <1>2
  <2>2. Old(i) \in DOMAIN ban /\ Old(j) \in DOMAIN ban
    BY <1>1, <2>1
  <2>3. ban'[i] = ban[Old(i)] /\ ban'[j] = ban[Old(j)]
    BY <1>2, <2>1
  <2>4. ban[Old(i)].addr = ban[Old(j)].addr
    BY <1>6, <2>3
  <2>5. Old(i) = Old(j)
    <3>. HIDE DEF Old
    <3>. QED BY <2>2, <2>4 DEF BannedOnce
  <2>. QED BY <1>1, <2>1, <2>5
<1>. QED BY <1>3, <1>4, <1>5, <1>6

-----------------------------------------------------------------------------
(* The inductive invariant. *)

\* The pool that __init__() makes satisfies the invariant.
LEMMA InitPoolInv == Init => PoolInv
<1>. SUFFICES ASSUME Init PROVE PoolInv
  OBVIOUS
<1>1. /\ addr_map \in Seq(SUBSET Bits) /\ Len(addr_map) = 1
      /\ addr_map[1] = Bits
  BY DEF Init
<1>2. ban \in Seq(Entry) /\ Len(ban) = 0 /\ DOMAIN ban = {} /\ Banned = {}
  BY DEF Init, Banned
<1>3. TypeOK
  BY <1>1, <1>2, CellsType DEF Init, TypeOK
<1>4. Conservation
  <2>. SUFFICES ASSUME NEW a \in Addr PROVE ~IsAllocated(a)
    BY <1>2 DEF Conservation, Init
  <2>1. Base(a) \in Nat /\ Bit(a) \in Bits
    BY LocateAddr, CellsType
  <2>. QED BY <1>1, <2>1 DEF IsAllocated
<1>5. BannedOnce
  BY <1>2 DEF BannedOnce
<1>6. SpareBits
  BY <1>1 DEF SpareBits
<1>. QED BY <1>3, <1>4, <1>5, <1>6 DEF PoolInv, Init

\* A step that leaves the bitmap, the ban list and the held addresses alone.
LEMMA LeaveInv ==
    ASSUME PoolInv, NEW t \in Thread,
           UNCHANGED <<addr_map, ban, held>>,
           \/ lock' = t /\ item' = 1 /\ out' = [out EXCEPT ![t] = None]
           \/ Leave(t, KeyError)
    PROVE  PoolInv'
<1>1. TypeOK' /\ ((lock = None) <=> (item = 0))'
  BY PoolAssumption DEF PoolInv, TypeOK, Leave
<1>2. Conservation' /\ BannedOnce' /\ SpareBits'
  BY DEF PoolInv, Conservation, IsAllocated, BannedOnce, Banned, SpareBits
<1>. QED BY <1>1, <1>2 DEF PoolInv

\* Counting down an entry of the ban list preserves the invariant.
LEMMA GcTickInv ==
    ASSUME PoolInv, NEW t \in Thread, GcTick(t)
    PROVE  PoolInv' /\ Banned' = Banned
<1>1. /\ ban \in Seq(Entry) /\ item \in 1..Len(ban)
      /\ ban[item].counter # 0 /\ lock = t
      /\ UNCHANGED <<addr_map, lock, held, out>> /\ item' = item + 1
  BY DEF PoolInv, TypeOK, GcTick
<1>. DEFINE e == [ban[item] EXCEPT !.counter = @ - 1]
<1>2. e \in Entry /\ e.addr = ban[item].addr
  <2>1. ban[item] \in Entry
    BY <1>1
  <2>. QED BY <1>1, <2>1 DEF Entry
<1>3. ban' = [ban EXCEPT ![item] = e]
  BY DEF GcTick
<1>4. /\ ban' \in Seq(Entry) /\ Len(ban') = Len(ban)
      /\ \A q \in 1..Len(ban) : ban'[q] = IF q = item THEN e ELSE ban[q]
  <2>. HIDE DEF e
  <2>. QED BY <1>1, <1>2, <1>3
<1>5. \A q \in 1..Len(ban) : ban'[q].addr = ban[q].addr
  BY <1>2, <1>4, Zenon
<1>6. DOMAIN ban = 1..Len(ban) /\ DOMAIN ban' = 1..Len(ban)
  BY <1>1, <1>4
<1>7. Banned' = Banned
  BY <1>5, <1>6 DEF Banned
<1>8. BannedOnce'
  BY <1>1, <1>5, <1>6, <1>7 DEF PoolInv, BannedOnce
<1>9. Conservation' /\ SpareBits'
  BY <1>1, <1>7, Zenon DEF PoolInv, Conservation, IsAllocated, SpareBits
<1>10. TypeOK' /\ ((lock = None) <=> (item = 0))'
  BY <1>1, <1>4, PoolAssumption DEF PoolInv, TypeOK
<1>. QED BY <1>7, <1>8, <1>9, <1>10 DEF PoolInv

\* Collecting an entry of the ban list preserves the invariant.
LEMMA GcFreeInv ==
    ASSUME PoolInv, NEW t \in Thread, GcFree(t)
    PROVE  PoolInv' /\ \E a \in Banned : Banned' = Banned \ {a}
<1>. DEFINE a == ban[item].addr
<1>1. /\ ban \in Seq(Entry) /\ item \in 1..Len(ban) /\ lock = t
      /\ DOMAIN ban = 1..Len(ban)
      /\ a \in Addr /\ a \in Banned /\ IsAllocated(a) /\ Release1(a)
      /\ UNCHANGED <<lock, item, held, out>>
  <2>1. /\ ban \in Seq(Entry) /\ lock = t /\ item \in DOMAIN ban
        /\ IsAllocated(a) /\ Release1(a)
        /\ UNCHANGED <<lock, item, held, out>>
    BY DEF PoolInv, TypeOK, GcFree
  <2>2. DOMAIN ban = 1..Len(ban) /\ ban[item] \in Entry
    BY <2>1
  <2>3. a \in Addr /\ a \in Banned
    BY <2>1, <2>2 DEF Entry, Banned
  <2>. QED BY <2>1, <2>2, <2>3
<1>2. PICK k \in 1..item : ban[k] = ban[item] /\ ban' = RemoveAt(ban, k)
  BY DEF GcFree
<1>3. /\ ban' \in Seq(Entry) /\ Len(ban') = Len(ban) - 1
      /\ Banned' = Banned \ {a}
      /\ \A i, j \in DOMAIN ban' : ban'[i].addr = ban'[j].addr => i = j
  <2>1. k \in DOMAIN ban /\ ban[k].addr = a
    BY <1>1, <1>2
  <2>. QED BY <1>1, <1>2, <2>1, RemoveBan, Zenon DEF PoolInv
<1>. HIDE DEF a
<1>4. /\ addr_map' \in Seq(SUBSET Bits)
      /\ Len(addr_map') = Len(addr_map)
      /\ SpareBits'
      /\ \A x \in Addr : IsAllocated(x)' <=> IsAllocated(x) /\ x # a
  BY <1>1, ReleaseFreesOne DEF PoolInv
<1>5. a \notin held
  BY <1>1 DEF PoolInv, BannedOnce
<1>6. Conservation'
  BY <1>1, <1>3, <1>4, <1>5 DEF PoolInv, Conservation
<1>7. BannedOnce'
  BY <1>1, <1>3 DEF PoolInv, BannedOnce
<1>8. TypeOK' /\ ((lock = None) <=> (item = 0))'
  BY <1>1, <1>3, <1>4, PoolAssumption DEF PoolInv, TypeOK
<1>. QED BY <1>1, <1>3, <1>4, <1>6, <1>7, <1>8 DEF PoolInv

\* The address that alloc() returns was neither held nor banned.
LEMMA AllocReturnInv ==
    ASSUME PoolInv, NEW t \in Thread, AllocReturn(t)
    PROVE  /\ PoolInv'
           /\ out'[t] \notin held \cup Banned
           /\ \A s \in Thread \ {t} : out'[s] = out[s]
           /\ out' = [out EXCEPT ![t] = out'[t]] /\ out'[t] \in Addr
           /\ \/ held' = held \cup {out'[t]} /\ Banned' = Banned
              \/ Banned' = Banned \cup {out'[t]} /\ held' = held
<1>1. PICK base \in 0..(Len(addr_map) - 1), bit \in Bits :
        /\ FirstFree(base, bit)
        /\ AddrAt(base, bit) \in Addr
        /\ addr_map' = [addr_map EXCEPT ![base + 1] = @ \ {bit}]
        /\ IF Release # 0
           THEN /\ ban' = Append(ban, [addr |-> AddrAt(base, bit),
                                       counter |-> Release])
                /\ held' = held
           ELSE /\ ban' = ban
                /\ held' = held \cup {AddrAt(base, bit)}
        /\ Leave(t, AddrAt(base, bit))
  BY Zenon DEF AllocReturn
<1>. DEFINE a == AddrAt(base, bit)
<1>2. /\ addr_map' \in Seq(SUBSET Bits)
      /\ Len(addr_map') = Len(addr_map)
      /\ SpareBits'
      /\ ~IsAllocated(a)
      /\ \A x \in Addr : IsAllocated(x)' <=> IsAllocated(x) \/ x = a
  BY <1>1, TakeAllocatesOne, Zenon DEF PoolInv, FirstFree
<1>. HIDE DEF a
<1>3. a \in Addr /\ a \notin held \cup Banned
  BY <1>1, <1>2 DEF PoolInv, Conservation, a
<1>4. ASSUME Release # 0
      PROVE  PoolInv' /\ Banned' = Banned \cup {a} /\ held' = held
  <2>. DEFINE e == [addr |-> a, counter |-> Release]
  <2>1. e \in Entry /\ e.addr = a /\ ban' = Append(ban, e) /\ held' = held
    BY <1>1, <1>3, <1>4, PoolAssumption DEF Entry, a
  <2>. HIDE DEF e
  <2>2. /\ ban' \in Seq(Entry)
        /\ Banned' = Banned \cup {a}
        /\ \A i, j \in DOMAIN ban' : ban'[i].addr = ban'[j].addr => i = j
    BY <1>3, <2>1, AppendBan DEF PoolInv, TypeOK
  <2>3. Conservation' /\ BannedOnce'
    BY <1>2, <1>3, <2>1, <2>2 DEF PoolInv, Conservation, BannedOnce
  <2>4. Len(ban') \in Nat
    BY <2>2
  <2>5. TypeOK' /\ ((lock = None) <=> (item = 0))'
    BY <1>1, <1>2, <1>3, <2>1, <2>2, <2>4, PoolAssumption
       DEF PoolInv, TypeOK, Leave, a
  <2>. QED BY <1>2, <2>1, <2>2, <2>3, <2>5 DEF PoolInv
<1>5. ASSUME Release = 0
      PROVE  PoolInv' /\ held' = held \cup {a} /\ Banned' = Banned
  <2>1. ban' = ban /\ held' = held \cup {a} /\ Banned' = Banned
    BY <1>1, <1>5 DEF a, Banned
  <2>2. Conservation' /\ BannedOnce'
    BY <1>2, <1>3, <2>1 DEF PoolInv, Conservation, BannedOnce
  <2>3. TypeOK' /\ ((lock = None) <=> (item = 0))'
    BY <1>1, <1>2, <1>3, <2>1, PoolAssumption DEF PoolInv, TypeOK, Leave, a
  <2>. QED BY <1>2, <2>1, <2>2, <2>3 DEF PoolInv
<1>6. /\ out'[t] = a /\ out' = [out EXCEPT ![t] = a]
      /\ \A s \in Thread \ {t} : out'[s] = out[s]
  BY <1>1 DEF PoolInv, TypeOK, Leave, a
<1>. QED BY <1>3, <1>4, <1>5, <1>6

\* Adding a cell to the bitmap preserves the invariant.
LEMMA AllocGrowInv ==
    ASSUME PoolInv, NEW t \in Thread, AllocGrow(t)
    PROVE  PoolInv'
<1>1. /\ addr_map' = Append(addr_map, Bits) /\ Len(addr_map) < Cells
      /\ item' = 1 /\ lock = t /\ UNCHANGED <<ban, lock, held, out>>
  BY DEF AllocGrow
<1>2. /\ addr_map' \in Seq(SUBSET Bits)
      /\ Len(addr_map') = Len(addr_map) + 1
      /\ SpareBits'
      /\ \A x \in Addr : IsAllocated(x)' <=> IsAllocated(x)
  BY <1>1, GrowAllocatesNone DEF PoolInv
<1>3. Banned' = Banned
  BY <1>1 DEF Banned
<1>4. Conservation' /\ BannedOnce'
  BY <1>1, <1>2, <1>3 DEF PoolInv, Conservation, BannedOnce
<1>5. Len(ban) \in Nat
  BY DEF PoolInv, TypeOK
<1>6. TypeOK' /\ ((lock = None) <=> (item = 0))'
  BY <1>1, <1>2, <1>5, CellsType, PoolAssumption DEF PoolInv, TypeOK
<1>. QED BY <1>2, <1>4, <1>6 DEF PoolInv

\* free() of an address that is held preserves the invariant.
LEMMA FreeInv ==
    ASSUME PoolInv, ~misused', NEW t \in Thread, NEW a \in Addr, Free(t, a)
    PROVE  PoolInv'
<1>1. /\ a \in held /\ IsAllocated(a) /\ Release1(a) /\ held' = held \ {a}
      /\ UNCHANGED <<ban, lock, item, out>>
  BY Zenon DEF Free, MayRelease
<1>2. /\ addr_map' \in Seq(SUBSET Bits)
      /\ Len(addr_map') = Len(addr_map)
      /\ SpareBits'
      /\ \A x \in Addr : IsAllocated(x)' <=> IsAllocated(x) /\ x # a
  BY <1>1, ReleaseFreesOne DEF PoolInv
<1>3. Banned' = Banned /\ a \notin Banned
  BY <1>1 DEF PoolInv, BannedOnce, Banned
<1>4. Conservation' /\ BannedOnce'
  BY <1>1, <1>2, <1>3 DEF PoolInv, Conservation, BannedOnce
<1>5. TypeOK' /\ ((lock = None) <=> (item = 0))'
  BY <1>1, <1>2 DEF PoolInv, TypeOK
<1>. QED BY <1>2, <1>4, <1>5 DEF PoolInv

\* free() with a ban of an address that is held preserves the invariant.
LEMMA FreeBanInv ==
    ASSUME PoolInv, ~misused', NEW t \in Thread, NEW a \in Addr,
           NEW ticks \in BanTicks, FreeBan(t, a, ticks)
    PROVE  PoolInv' /\ Banned' = Banned \cup {a}
<1>. DEFINE e == [addr |-> a, counter |-> ticks]
<1>1. /\ e \in Entry /\ e.addr = a /\ ban' = Append(ban, e)
      /\ a \in held /\ held' = held \ {a} /\ lock = None
      /\ UNCHANGED <<addr_map, lock, item, out>>
  BY PoolAssumption DEF FreeBan, MayRelease, Entry
<1>. HIDE DEF e
<1>2. a \notin Banned
  BY <1>1 DEF PoolInv, BannedOnce
<1>3. /\ ban' \in Seq(Entry) /\ Len(ban') = Len(ban) + 1
      /\ Banned' = Banned \cup {a}
      /\ \A i, j \in DOMAIN ban' : ban'[i].addr = ban'[j].addr => i = j
  BY <1>1, <1>2, AppendBan DEF PoolInv, TypeOK
<1>4. Conservation' /\ BannedOnce' /\ SpareBits'
  BY <1>1, <1>2, <1>3 DEF PoolInv, Conservation, BannedOnce, IsAllocated, SpareBits
<1>5. Len(ban) \in Nat
  BY DEF PoolInv, TypeOK
<1>6. TypeOK' /\ ((lock = None) <=> (item = 0))'
  BY <1>1, <1>3, <1>5 DEF PoolInv, TypeOK
<1>. QED BY <1>3, <1>4, <1>6 DEF PoolInv

-----------------------------------------------------------------------------
(* The theorems. *)

\* Nothing clears the record of a misuse.
LEMMA MisusedStays == misused /\ [Next]_vars => misused'
  BY Zenon DEF Next, vars, Alloc, AllocEnter, GcTick, GcFree, GcFail, AllocReturn,
         AllocBeyond, AllocGrow, AllocExhausted, Free, FreeBan, MayRelease

\* While callers release only what they hold, the bitmap and the ban list
\* account for every address: PoolInv is preserved by alloc() and free().
THEOREM PoolInvariant == Spec => []PoolConsistent
<1>1. PoolConsistent /\ [Next]_vars => PoolConsistent'
  <2>. SUFFICES ASSUME PoolInv, [Next]_vars, ~misused' PROVE PoolInv'
    BY MisusedStays DEF PoolConsistent
  <2>1. CASE UNCHANGED vars
    <3>1. UNCHANGED <<addr_map, ban, lock, item, held, out>>
      BY <2>1 DEF vars
    <3>2. TypeOK' /\ SpareBits'
      BY <3>1 DEF PoolInv, TypeOK, SpareBits
    <3>3. Conservation' /\ BannedOnce'
      BY <3>1 DEF PoolInv, Conservation, IsAllocated, BannedOnce, Banned
    <3>. QED BY <3>1, <3>2, <3>3 DEF PoolInv
  <2>2. ASSUME NEW t \in Thread, Alloc(t) PROVE PoolInv'
    <3>1. CASE AllocEnter(t)
      BY <3>1, LeaveInv, Zenon DEF AllocEnter
    <3>2. CASE GcFail(t) \/ AllocBeyond(t) \/ AllocExhausted(t)
      BY <3>2, LeaveInv DEF GcFail, AllocBeyond, AllocExhausted
    <3>. QED BY <2>2, <3>1, <3>2, GcTickInv, GcFreeInv, AllocReturnInv,
                AllocGrowInv DEF Alloc
  <2>3. ASSUME NEW t \in Thread, NEW a \in Addr, Free(t, a) PROVE PoolInv'
    BY <2>3, FreeInv
  <2>4. ASSUME NEW t \in Thread, NEW a \in Addr, NEW ticks \in BanTicks,
               FreeBan(t, a, ticks)
        PROVE  PoolInv'
    BY <2>4, FreeBanInv
  <2>. QED BY <2>1, <2>2, <2>3, <2>4 DEF Next
<1>2. Init => PoolConsistent
  BY InitPoolInv DEF PoolConsistent
<1>. QED BY <1>1, <1>2, PTL DEF Spec

\* alloc() never returns an address that a caller still holds or that is banned.
THEOREM NoDoubleAllocHolds == Spec => NoDoubleAlloc
<1>. DEFINE Fresh == \A t \in Thread :
                        ~misused /\ out'[t] \in Addr /\ out'[t] # out[t] =>
                            out'[t] \notin held \cup Banned
<1>1. PoolConsistent /\ [Next]_vars => [Fresh]_vars
  <2>. SUFFICES ASSUME PoolInv, Next, NEW s \in Thread,
                       out'[s] \in Addr, out'[s] # out[s]
                PROVE  out'[s] \notin held \cup Banned
    BY DEF PoolConsistent
  <2>1. PICK t \in Thread : Alloc(t) /\ out' # out
    BY Zenon DEF Next, Free, FreeBan
  <2>2. CASE AllocReturn(t)
    BY <2>2, AllocReturnInv
  <2>3. CASE ~AllocReturn(t)
    <3>1. out' = [out EXCEPT ![t] = None] \/ out' = [out EXCEPT ![t] = KeyError]
      BY <2>1, <2>3 DEF Alloc, AllocEnter, GcTick, GcFree, GcFail, AllocBeyond,
                        AllocGrow, AllocExhausted, Leave
    <3>2. None \notin Addr /\ KeyError \notin Addr
      BY PoolAssumption DEF Addr
    <3>. QED BY <3>1, <3>2 DEF PoolInv, TypeOK
  <2>. QED BY <2>2, <2>3
<1>. QED BY <1>1, PoolInvariant, PTL DEF Spec, NoDoubleAlloc

\* If all bits before a position beyond the range are taken, the range is full.
LEMMA BeyondIsFull ==
    ASSUME PoolInv, NEW base \in 0..(Len(addr_map) - 1), NEW bit \in Bits,
           FirstFree(base, bit), AddrAt(base, bit) \notin Addr,
           NEW a \in Addr
    PROVE  IsAllocated(a)
<1>1. /\ base \in Nat /\ Len(addr_map) \in Nat /\ Len(addr_map) <= Cells
      /\ addr_map \in Seq(SUBSET Bits)
  BY CellsType DEF PoolInv, TypeOK
<1>2. Base(a) \in 0..(Cells - 1) /\ Bit(a) \in Bits
  BY LocateAddr
<1>3. Base(a) < Len(addr_map)
  BY <1>1, <1>2, BeyondIsLast, CellsType
<1>4. Base(a) < base \/ (Base(a) = base /\ Bit(a) < bit)
  <2>1. ~(base < Base(a) \/ (base = Base(a) /\ bit <= Bit(a)))
    BY <1>1, EarlierInRange
  <2>2. bit \in Int /\ Bit(a) \in Int
    BY <1>2, PoolAssumption DEF Bits
  <2>. QED BY <1>1, <1>2, <2>1, <2>2, CellsType
<1>5. Bit(a) \notin addr_map[Base(a) + 1]
  <2>1. CASE Base(a) < base
    <3>1. Base(a) \in 0..(base - 1)
      BY <1>1, <1>2, <2>1, CellsType
    <3>. QED BY <3>1 DEF FirstFree
  <2>2. CASE Base(a) = base /\ Bit(a) < bit
    <3>1. Bit(a) \in 0..(bit - 1)
      BY <1>2, <2>2, PoolAssumption DEF Bits
    <3>. QED BY <2>2, <3>1 DEF FirstFree
  <2>. QED BY <1>4, <2>1, <2>2
<1>. QED BY <1>3, <1>5 DEF IsAllocated

\* While no caller has misused the pool, the collection never fails, and the two
\* other ways to raise leave no address.
LEMMA RefusedIsFull ==
    ASSUME PoolInv, NEW t \in Thread,
           GcFail(t) \/ AllocBeyond(t) \/ AllocExhausted(t)
    PROVE  Addr \subseteq held \cup Banned
<1>. SUFFICES ASSUME NEW a \in Addr PROVE IsAllocated(a)
  BY DEF PoolInv, Conservation
<1>1. ~GcFail(t)
  <2>. SUFFICES ASSUME GcFail(t) PROVE FALSE
    OBVIOUS
  <2>1. /\ ban \in Seq(Entry) /\ item \in DOMAIN ban
        /\ ~IsAllocated(ban[item].addr)
    BY DEF GcFail, PoolInv, TypeOK
  <2>2. ban[item].addr \in Addr /\ ban[item].addr \in Banned
    <3>1. ban[item] \in Entry
      BY <2>1
    <3>. QED BY <2>1, <3>1 DEF Entry, Banned
  <2>. QED BY <2>1, <2>2 DEF PoolInv, Conservation
<1>2. CASE AllocBeyond(t)
  BY <1>2, BeyondIsFull DEF AllocBeyond
<1>3. CASE AllocExhausted(t)
  <2>1. Len(addr_map) = Cells /\ AllFull
    BY <1>3, CellsType DEF AllocExhausted, PoolInv, TypeOK
  <2>2. Base(a) \in 0..(Cells - 1)
    BY LocateAddr
  <2>. QED BY <2>1, <2>2, CellsType DEF AllFull, IsAllocated
<1>. QED BY <1>1, <1>2, <1>3

\* alloc() raises KeyError only when every address of the range is taken: the
\* number of cells covers the range, and the ban list never makes alloc() fail.
THEOREM NoSpuriousExhaustionHolds == Spec => NoSpuriousExhaustion
<1>. DEFINE Full == \A t \in Thread :
                       ~misused /\ out[t] = None /\ out'[t] = KeyError =>
                           Addr \subseteq held \cup Banned
<1>1. PoolConsistent /\ [Next]_vars => [Full]_vars
  <2>. SUFFICES ASSUME PoolInv, Next, NEW s \in Thread,
                       out[s] = None, out'[s] = KeyError
                PROVE  Addr \subseteq held \cup Banned
    BY DEF PoolConsistent
  <2>1. PICK t \in Thread : Alloc(t) /\ out' # out
    BY PoolAssumption, Zenon DEF Next, Free, FreeBan
  <2>2. ~AllocReturn(t)
    <3>1. KeyError \notin Addr
      BY PoolAssumption DEF Addr
    <3>. QED BY <3>1, AllocReturnInv, PoolAssumption
  <2>3. ~AllocEnter(t)
    BY PoolAssumption DEF AllocEnter, PoolInv, TypeOK
  <2>. QED BY <2>1, <2>2, <2>3, RefusedIsFull
           DEF Alloc, GcTick, GcFree, AllocGrow
<1>. QED BY <1>1, PoolInvariant, PTL DEF Spec, NoSpuriousExhaustion

\* The pool implements what its callers rely on, for every range, cell size,
\* direction and ban: entering alloc(), taking a bit, failing, free() and the
\* end of a ban are steps of the abstract pool, and the rest is invisible.
THEOREM PoolImplemented == Spec => IsPool
<1>1. Init => Abstract!Init
  BY DEF Init, Abstract!Init, Banned
<1>2. PoolConsistent /\ [Next]_vars => [Abstract!Next]_(Abstract!poolvars)
  <2>. SUFFICES ASSUME PoolConsistent, [Next]_vars, ~misused'
                PROVE  Abstract!Next \/ UNCHANGED <<held, Banned, out, misused>>
    BY DEF Abstract!Next, Abstract!poolvars
  <2>1. PoolInv /\ (misused' <=> misused)
    BY MisusedStays DEF PoolConsistent
  <2>2. CASE UNCHANGED vars
    BY <2>2 DEF vars, Banned
  <2>3. ASSUME NEW t \in Thread, AllocEnter(t) PROVE Abstract!Call(t)
    BY <2>3 DEF AllocEnter, Abstract!Call, Banned
  <2>4. ASSUME NEW t \in Thread, GcTick(t) \/ AllocGrow(t)
        PROVE  UNCHANGED <<held, Banned, out, misused>>
    BY <2>1, <2>4, GcTickInv, Zenon DEF GcTick, AllocGrow, Banned
  <2>5. ASSUME NEW t \in Thread, GcFree(t) PROVE Abstract!Expire
    BY <2>1, <2>5, GcFreeInv DEF GcFree, Abstract!Expire
  <2>6. ASSUME NEW t \in Thread,
               GcFail(t) \/ AllocBeyond(t) \/ AllocExhausted(t)
        PROVE  Abstract!Refuse(t)
    BY <2>1, <2>6, RefusedIsFull
       DEF GcFail, AllocBeyond, AllocExhausted, Leave, Abstract!Refuse,
           Abstract!Taken, Banned
  <2>7. ASSUME NEW t \in Thread, AllocReturn(t) PROVE Abstract!Grant(t)
    <3>1. out'[t] \in Addr \ (held \cup Banned)
      BY <2>1, <2>7, AllocReturnInv
    <3>. QED BY <2>1, <2>7, <3>1, AllocReturnInv
             DEF Abstract!Grant, Abstract!Taken
  <2>8. ASSUME NEW t \in Thread, NEW a \in Addr, Free(t, a)
        PROVE  Abstract!GiveBack
    BY <2>8, Zenon DEF Free, MayRelease, Abstract!GiveBack, Banned
  <2>9. ASSUME NEW t \in Thread, NEW a \in Addr, NEW ticks \in BanTicks,
               FreeBan(t, a, ticks)
        PROVE  Abstract!GiveBack
    <3>1. Banned' = Banned \cup {a}
      BY <2>1, <2>9, FreeBanInv
    <3>. QED BY <2>9, <3>1, Zenon DEF FreeBan, MayRelease, Abstract!GiveBack
  <2>. QED BY <2>1, <2>2, <2>3, <2>4, <2>5, <2>6, <2>7, <2>8, <2>9
           DEF Next, Alloc, Abstract!Next
<1>. QED BY <1>1, <1>2, PoolInvariant, PTL DEF Spec, IsPool, Abstract!Spec
=============================================================================
