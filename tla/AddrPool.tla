------------------------------- MODULE AddrPool -------------------------------
(***************************************************************************)
(* The address pool of pyroute2/common.py: a growing bitmap of cells, from *)
(* which netlink sequence numbers, 9p tags and fids are allocated, and the *)
(* ban list, where a released address waits before it may be reused.       *)
(*                                                                         *)
(* alloc() and free() run under a re-entrant lock.  alloc() is modelled by *)
(* the steps of its loops: one step per entry of the ban list, then one    *)
(* step for the scan of the bitmap; free() is a single step, because it    *)
(* takes the lock, has no loop, and releases the lock.                     *)
(***************************************************************************)
EXTENDS Integers, Sequences, FiniteSets

CONSTANTS
    Thread,     \* the threads that share the pool
    MinAddr,    \* minaddr
    MaxAddr,    \* maxaddr
    CellSize,   \* bits in a cell: 64 in the code, small in the models
    Reverse,    \* reverse: allocate from maxaddr downwards
    Release,    \* release: 0 for False, else the ban of every new address
    BanTicks,   \* the values that callers pass as "ban"
    Misuse,     \* callers may release what they do not hold
    MaxBan,     \* bound: entries of the ban list that a misuse may add to
    None,       \* no thread, no result
    KeyError    \* the exception of alloc()

ASSUME PoolAssumption ==
    /\ MinAddr \in Nat /\ MaxAddr \in Nat /\ MinAddr <= MaxAddr
    /\ CellSize \in Nat \ {0}
    /\ Reverse \in BOOLEAN /\ Misuse \in BOOLEAN
    /\ Release \in Nat /\ MaxBan \in Nat
    /\ BanTicks \subseteq Nat
    /\ None \notin Thread
    /\ None \notin Int /\ KeyError \notin Int /\ None # KeyError

VARIABLES
    addr_map,   \* the cells; a cell is the set of its bits that are free
    ban,        \* the ban list: [addr, counter] entries
    lock,       \* the owner of the RLock
    item,       \* the ban list entry that the running alloc() looks at
    held,       \* the addresses handed out and not released yet
    out,        \* the result of the last alloc() of every thread
    misused     \* somebody has released an address without holding it

vars == <<addr_map, ban, lock, item, held, out, misused>>

-----------------------------------------------------------------------------
Addr == MinAddr..MaxAddr
Bits == 0..(CellSize - 1)
\* Mutant: the last, partial cell is forgotten.
CellsFloor == (MaxAddr - MinAddr) \div CellSize
Cells == (MaxAddr - MinAddr) \div CellSize + 1

AddrAt(base, bit) ==
    IF Reverse THEN MaxAddr - (base * CellSize + bit)
               ELSE MinAddr + (base * CellSize + bit)

\* locate(): the cell and the bit of an address.
Offset(addr) == IF Reverse THEN MaxAddr - addr ELSE addr - MinAddr
Base(addr) == Offset(addr) \div CellSize
Bit(addr) == Offset(addr) % CellSize

\* A cell that alloc() has not created yet holds no allocated address.
IsAllocated(addr) ==
    /\ Base(addr) < Len(addr_map)
    /\ Bit(addr) \notin addr_map[Base(addr) + 1]

Banned == {ban[i].addr : i \in DOMAIN ban}

Release1(addr) ==
    addr_map' = [addr_map EXCEPT ![Base(addr) + 1] = @ \cup {Bit(addr)}]

RemoveAt(s, k) == [i \in 1..(Len(s) - 1) |-> IF i < k THEN s[i] ELSE s[i + 1]]

Init ==
    /\ addr_map = <<Bits>>
    /\ ban = <<>>
    /\ lock = None
    /\ item = 0
    /\ held = {}
    /\ out = [t \in Thread |-> None]
    /\ misused = FALSE

-----------------------------------------------------------------------------
(* alloc() *)

\* "with self.lock", then the garbage collection of the ban list starts.
AllocEnter(t) ==
    /\ lock = None
    /\ lock' = t
    /\ item' = 1
    /\ out' = [out EXCEPT ![t] = None]
    /\ UNCHANGED <<addr_map, ban, held, misused>>

Leave(t, result) ==
    /\ lock' = None
    /\ item' = 0
    /\ out' = [out EXCEPT ![t] = result]

\* An entry whose time has not come yet.
GcTick(t) ==
    /\ lock = t
    /\ item \in DOMAIN ban
    /\ ban[item].counter # 0
    /\ ban' = [ban EXCEPT ![item].counter = @ - 1]
    /\ item' = item + 1
    /\ UNCHANGED <<addr_map, lock, held, out, misused>>

\* Mutant: the entry of a released address stays in the list.
GcFreeKeepsEntry(t) ==
    /\ lock = t
    /\ item \in DOMAIN ban
    /\ ban[item].counter = 0
    /\ IsAllocated(ban[item].addr)
    /\ Release1(ban[item].addr)
    /\ item' = item + 1
    /\ UNCHANGED <<ban, lock, held, out, misused>>

\* list.remove() drops the first entry that is equal to this one.
GcFree(t) ==
    /\ lock = t
    /\ item \in DOMAIN ban
    /\ ban[item].counter = 0
    /\ IsAllocated(ban[item].addr)
    /\ Release1(ban[item].addr)
    /\ \E k \in 1..item :
          /\ ban[k] = ban[item]
          /\ \A j \in 1..(k - 1) : ban[j] # ban[item]
          /\ ban' = RemoveAt(ban, k)
    /\ UNCHANGED <<lock, item, held, out, misused>>

\* Mutant: the failing free() is tried again, with the lock taken.
GcFailRetries(t) ==
    /\ lock = t
    /\ item \in DOMAIN ban
    /\ ban[item].counter = 0
    /\ ~IsAllocated(ban[item].addr)
    /\ UNCHANGED vars

\* free() raises: the entry stays in the list and alloc() fails.
GcFail(t) ==
    /\ lock = t
    /\ item \in DOMAIN ban
    /\ ban[item].counter = 0
    /\ ~IsAllocated(ban[item].addr)
    /\ Leave(t, KeyError)
    /\ UNCHANGED <<addr_map, ban, held, misused>>

\* The first cell that is not zero, and its lowest bit.
FirstFree(base, bit) ==
    /\ bit \in addr_map[base + 1]
    /\ \A b \in 0..(base - 1) : addr_map[b + 1] = {}
    /\ \A b \in 0..(bit - 1) : b \notin addr_map[base + 1]

AllocReturn(t) ==
    /\ lock = t
    /\ item = Len(ban) + 1
    /\ \E base \in 0..(Len(addr_map) - 1), bit \in Bits :
          LET ret == AddrAt(base, bit) IN
          /\ FirstFree(base, bit)
          /\ ret \in Addr
          /\ addr_map' = [addr_map EXCEPT ![base + 1] = @ \ {bit}]
          /\ IF Release # 0
             THEN /\ ban' = Append(ban, [addr |-> ret, counter |-> Release])
                  /\ held' = held
             ELSE /\ ban' = ban
                  /\ held' = held \cup {ret}
          /\ Leave(t, ret)
    /\ UNCHANGED misused

\* The first free bit lies beyond the range: it is set back, and alloc() fails.
AllocBeyond(t) ==
    /\ lock = t
    /\ item = Len(ban) + 1
    /\ \E base \in 0..(Len(addr_map) - 1), bit \in Bits :
          /\ FirstFree(base, bit)
          /\ AddrAt(base, bit) \notin Addr
    /\ Leave(t, KeyError)
    /\ UNCHANGED <<addr_map, ban, held, misused>>

AllFull == \A b \in 1..Len(addr_map) : addr_map[b] = {}

\* A new cell, and alloc() calls itself: the ban list is scanned once more.
AllocGrow(t) ==
    /\ lock = t
    /\ item = Len(ban) + 1
    /\ AllFull
    /\ Len(addr_map) < Cells
    /\ addr_map' = Append(addr_map, Bits)
    /\ item' = 1
    /\ UNCHANGED <<ban, lock, held, out, misused>>

AllocExhausted(t) ==
    /\ lock = t
    /\ item = Len(ban) + 1
    /\ AllFull
    /\ Len(addr_map) >= Cells
    /\ Leave(t, KeyError)
    /\ UNCHANGED <<addr_map, ban, held, misused>>

Alloc(t) ==
    \/ AllocEnter(t)
    \/ GcTick(t) \/ GcFree(t) \/ GcFail(t)
    \/ AllocReturn(t) \/ AllocBeyond(t) \/ AllocGrow(t) \/ AllocExhausted(t)

-----------------------------------------------------------------------------
(* free() *)

MayRelease(addr) ==
    /\ addr \in held \/ (Misuse /\ Len(ban) < MaxBan)
    /\ misused' = (misused \/ addr \notin held)

\* Without a ban: an address that is not allocated raises, and nothing changes.
Free(t, addr) ==
    /\ lock = None
    /\ MayRelease(addr)
    /\ IsAllocated(addr)
    /\ Release1(addr)
    /\ held' = held \ {addr}
    /\ UNCHANGED <<ban, lock, item, out>>

\* Mutant: the address is banned and at once released.
FreeBanReleases(t, addr, ticks) ==
    /\ lock = None
    /\ MayRelease(addr)
    /\ ticks # 0
    /\ IsAllocated(addr)
    /\ Release1(addr)
    /\ ban' = Append(ban, [addr |-> addr, counter |-> ticks])
    /\ held' = held \ {addr}
    /\ UNCHANGED <<lock, item, out>>

\* With a ban: only the list is changed, and nothing is verified.
FreeBan(t, addr, ticks) ==
    /\ lock = None
    /\ MayRelease(addr)
    /\ ticks # 0
    /\ ban' = Append(ban, [addr |-> addr, counter |-> ticks])
    /\ held' = held \ {addr}
    /\ UNCHANGED <<addr_map, lock, item, out>>

Next ==
    \E t \in Thread :
        \/ Alloc(t)
        \/ \E addr \in Addr : Free(t, addr)
        \/ \E addr \in Addr, ticks \in BanTicks : FreeBan(t, addr, ticks)

Spec == Init /\ [][Next]_vars

\* A thread that holds the lock keeps running: there is no wait inside alloc().
Running(t) ==
    \/ GcTick(t) \/ GcFree(t) \/ GcFail(t)
    \/ AllocReturn(t) \/ AllocBeyond(t) \/ AllocGrow(t) \/ AllocExhausted(t)

FairSpec == Spec /\ \A t \in Thread : WF_vars(Running(t))

-----------------------------------------------------------------------------
(* Properties *)

Entry == [addr : Addr, counter : Nat]

TypeOK ==
    /\ addr_map \in Seq(SUBSET Bits)
    /\ Len(addr_map) \in 1..Cells
    /\ ban \in Seq(Entry)
    /\ lock \in Thread \cup {None}
    /\ item \in 0..(Len(ban) + 1)
    /\ held \subseteq Addr
    /\ out \in [Thread -> Addr \cup {None, KeyError}]

\* An address is out of the bitmap exactly while a caller holds it or while it
\* waits in the ban list.
Conservation ==
    \A a \in Addr : IsAllocated(a) <=> a \in held \cup Banned

BannedOnce ==
    /\ \A i, j \in DOMAIN ban : ban[i].addr = ban[j].addr => i = j
    /\ held \cap Banned = {}

\* The bits of the last cell beyond the range stay free.
SpareBits ==
    \A base \in 0..(Len(addr_map) - 1), bit \in Bits :
        AddrAt(base, bit) \notin Addr => bit \in addr_map[base + 1]

PoolInv ==
    /\ TypeOK
    /\ Conservation
    /\ BannedOnce
    /\ SpareBits
    /\ (lock = None) <=> (item = 0)

\* While callers release only what they hold, alloc() and free() neither leak
\* nor forget an address: it is out of the bitmap exactly while it is held or
\* banned, it is banned once, and the cursor of the garbage collection is in
\* use exactly while the lock is taken.
PoolConsistent == ~misused => PoolInv

\* alloc() never hands out an address that is still in use or still banned,
\* whatever the other threads release between two calls.
NoDoubleAlloc ==
    [][\A t \in Thread :
          ~misused /\ out'[t] \in Addr /\ out'[t] # out[t] =>
              out'[t] \notin held \cup Banned]_vars

\* While callers release what they hold, alloc() raises only when every address
\* of minaddr..maxaddr is taken: neither the cell count, nor the order of the
\* cells, nor the ban list makes it fail early.
NoSpuriousExhaustion ==
    [][\A t \in Thread :
          ~misused /\ out[t] = None /\ out'[t] = KeyError =>
              Addr \subseteq held \cup Banned]_vars

\* The bitmap, the ban list and the lock together are a pool of addresses as
\* their users see it: every step of alloc() and free() is a step of Pool, or
\* invisible to the callers.
Abstract == INSTANCE Pool WITH banned <- Banned
IsPool == Abstract!Spec

\* An exception inside alloc(), the failing garbage collection of an address
\* that was released twice included, gives the lock back.
AllocTerminates == \A t \in Thread : (lock = t) ~> (lock = None)
=============================================================================
