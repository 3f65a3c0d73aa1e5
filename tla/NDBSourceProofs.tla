-------------------------- MODULE NDBSourceProofs --------------------------
(***************************************************************************)
(* Theorems about NDBSource: the database differs from the system by the   *)
(* events that are on their way, and by nothing else.                      *)
(***************************************************************************)
EXTENDS NDBSource, NDBSchemaProofs

-----------------------------------------------------------------------------
(* The invariant. *)

Dgram == [to : {"root", "dump"}, recs : Seq(Rec)]
Callbacks == {"receiver", "consumer", "read", "lost", "done", "watch", "awake", "reload"}
Loading == {"links", "children"}

\* No thread has emptied the database and is yet to close the socket.
Sound == /\ user.pc \notin {"flushed", "removed"}
         /\ user.pc = "closing" => ~user.aimed
Fresh == nl.open /\ ~nl.err /\ ~nl.overrun /\ Sound

\* What was received since bind(), and the database with its queue loaded.
Arrived == root \o Events(wire)
Loaded == Replay(db, evq)

LoadInv ==
    Fresh =>
    /\ pc \in Loading \cup {"reading"} => db \in Db /\ evq \in Seq(Ev) /\ root \in Seq(Rec)
    /\ pc = "links" /\ dump = "links" => Loaded = ZeroOnly /\ Undumped(kernel, Arrived)
    /\ pc = "links" =>
          /\ \A i \in DOMAIN wire : wire[i].to = "dump" =>
                LinksDumped(kernel, Arrived, Replay(Loaded, wire[i].recs))
          /\ \A i \in DOMAIN tagq : LinksDumped(kernel, Arrived, Replay(Loaded, tagq[i]))
    /\ pc = "children" /\ dump = "children" => LinksDumped(kernel, Arrived, Loaded)
    /\ pc = "children" =>
          /\ \A i \in DOMAIN wire : wire[i].to = "dump" =>
                Dumped(kernel, Arrived, Replay(Loaded, wire[i].recs))
          /\ \A i \in DOMAIN tagq : Dumped(kernel, Arrived, Replay(Loaded, tagq[i]))
    /\ pc = "reading" => Dumped(kernel, Arrived, Loaded)

Once(r, cb) == \A i, j \in DOMAIN r : r[i] = cb /\ r[j] = cb => i = j

\* The database takes its queue before the receiver runs.
ConsumerFirst(r) ==
    \A j \in DOMAIN r : r[j] = "receiver" => \E i \in 1..(j - 1) : r[i] = "consumer"

\* The callbacks r, where the receiver is at p with the answer tq, the events es
\* wait for the database and the thread is at u.
QueueOk(r, p, tq, es, u) ==
    /\ r \in Seq(Callbacks) /\ Once(r, "receiver") /\ Once(r, "awake")
    /\ Has(r, "awake") => u = "await"
    /\ Has(r, "receiver") => /\ p \in Loading \cup {"start", "endpoint", "reading"}
                             /\ p \in Loading => tq # <<>>
    /\ es = <<>> \/ Has(r, "consumer")
    /\ p = "endpoint" => es = <<>> \/ ConsumerFirst(r)
QueueInv == QueueOk(ready, pc, tagq, evq, user.pc)

NoDump == \A i \in DOMAIN wire : wire[i].to # "dump"

SocketInv ==
    /\ pc \in Loading \cup {"none", "start", "endpoint", "reading", "failed"}
    /\ nl \in [open : BOOLEAN, bound : BOOLEAN, err : BOOLEAN, overrun : BOOLEAN]
    /\ wire \in Seq(Dgram) /\ tagq \in Seq(Seq(Rec)) /\ Len(tagq) <= 1
    /\ dump \in {"none", pc} /\ (dump # "none" => pc \in Loading /\ NoDump /\ tagq = <<>>)
    /\ NoDump \/ (pc \in Loading /\ tagq = <<>>)
    /\ \A i, j \in DOMAIN wire : wire[i].to = "dump" /\ wire[j].to = "dump" => i = j
    /\ tagq # <<>> => pc \in Loading
    /\ ~nl.open => wire = <<>> /\ dump = "none"
    /\ pc \in Loading \cup {"reading"} => nl.bound
    /\ pc = "endpoint" /\ nl.open => nl = NewSocket /\ wire = <<>> /\ root = <<>>

UserInv == user \in [op : {"add", "restart", "close", "remove", "raised"},
                     pc : {"new", "await", "idle", "flush", "flushed", "closing",
                           "closed", "removed"},
                     aimed : BOOLEAN]

ApiInv == api = [pc |-> "idle", echo |-> <<>>]

SourceInv ==
    "api" \notin env =>
        Consistent(kernel) /\ QueueInv /\ SocketInv /\ UserInv /\ ApiInv /\ LoadInv

-----------------------------------------------------------------------------
(* The events among the datagrams. *)

Gather(es, g) == IF g.to = "root" THEN es \o g.recs ELSE es
GatherFn == [x \in Seq(Rec) \X Dgram |-> Gather(x[1], x[2])]

\* Collecting the events of one datagram.
LEMMA GatherType ==
    ASSUME NEW es \in Seq(Rec), NEW g \in Dgram
    PROVE  Gather(es, g) \in Seq(Rec)
<1>1. g.recs \in Seq(Rec)
  BY DEF Dgram
<1>. QED
  BY <1>1 DEF Gather

\* Gather as a function, for FoldExists.
LEMMA GatherFnType ==
    /\ GatherFn \in [Seq(Rec) \X Dgram -> Seq(Rec)]
    /\ \A es \in Seq(Rec), g \in Dgram : GatherFn[<<es, g>>] = Gather(es, g)
<1>1. ASSUME NEW x \in Seq(Rec) \X Dgram PROVE Gather(x[1], x[2]) \in Seq(Rec)
  BY GatherType
<1>2. ASSUME NEW es \in Seq(Rec), NEW g \in Dgram PROVE GatherFn[<<es, g>>] = Gather(es, g)
  <2>1. <<es, g>> \in Seq(Rec) \X Dgram
    OBVIOUS
  <2>. QED
    BY <2>1 DEF GatherFn
<1>3. GatherFn \in [Seq(Rec) \X Dgram -> Seq(Rec)]
  BY <1>1 DEF GatherFn
<1>. QED
  BY <1>2, <1>3

\* Events is the loop over the datagrams in the socket.
LEMMA EventsLoop ==
    ASSUME NEW ds \in Seq(Dgram)
    PROVE  \E f \in [0..Len(ds) -> Seq(Rec)] :
              Loops(f, GatherFn, <<>>, ds) /\ Events(ds) = f[Len(ds)]
<1>. DEFINE Round(f) == [i \in 0..Len(ds) |->
                IF i = 0 THEN <<>> ELSE Gather(f[i - 1], ds[i])]
            sent == CHOOSE f : f = Round(f)
<1>0. <<>> \in Seq(Rec)
  OBVIOUS
<1>1. PICK f \in [0..Len(ds) -> Seq(Rec)] : Loops(f, GatherFn, <<>>, ds)
  BY <1>0, GatherFnType, FoldExists, Zenon
<1>2. \A i \in 1..Len(ds) : f[i] = Gather(f[i - 1], ds[i])
  <2>. SUFFICES ASSUME NEW i \in 1..Len(ds) PROVE f[i] = Gather(f[i - 1], ds[i])
    OBVIOUS
  <2>1. f[i - 1] \in Seq(Rec) /\ ds[i] \in Dgram
    OBVIOUS
  <2>2. f[i] = GatherFn[<<f[i - 1], ds[i]>>]
    BY <1>1 DEF Loops
  <2>. QED
    BY <2>1, <2>2, GatherFnType
<1>3. f = Round(f)
  BY <1>1, <1>2 DEF Loops
<1>4. sent = Round(sent)
  BY <1>3, Zenon
<1>5. Events(ds) = sent[Len(ds)]
  BY DEF Events, Gather
<1>. HIDE DEF sent
<1>6. sent[0] = <<>> /\ \A i \in 1..Len(ds) : sent[i] = Gather(sent[i - 1], ds[i])
  <2>1. \A i \in 0..Len(ds) : sent[i] = Round(sent)[i]
    BY <1>4, Zenon
  <2>2. Round(sent)[0] = <<>>
    OBVIOUS
  <2>3. \A i \in 1..Len(ds) : Round(sent)[i] = Gather(sent[i - 1], ds[i])
    OBVIOUS
  <2>. HIDE DEF Round
  <2>. QED
    BY <2>1, <2>2, <2>3
<1>7. \A n \in 0..Len(ds) : sent[n] \in Seq(Rec)
  <2>. DEFINE P == {n \in Nat : n <= Len(ds) => sent[n] \in Seq(Rec)}
  <2>1. 0 \in P
    BY <1>0, <1>6, Zenon
  <2>2. ASSUME NEW n \in Nat, n \in P PROVE n + 1 \in P
    <3>. SUFFICES ASSUME n + 1 <= Len(ds) PROVE sent[n + 1] \in Seq(Rec)
      OBVIOUS
    <3>1. sent[n + 1] = Gather(sent[n + 1 - 1], ds[n + 1]) /\ n + 1 - 1 = n
      BY <1>6
    <3>2. sent[n] \in Seq(Rec) /\ ds[n + 1] \in Dgram
      BY <2>2
    <3>. QED
      BY <3>1, <3>2, GatherType
  <2>. HIDE DEF P
  <2>3. Nat \subseteq P
    BY <2>1, <2>2, NatSetInduction
  <2>. QED
    BY <2>3 DEF P
<1>8. sent \in [0..Len(ds) -> Seq(Rec)]
  BY <1>4, <1>7, Zenon
<1>9. Loops(sent, GatherFn, <<>>, ds)
  <2>1. ASSUME NEW i \in 1..Len(ds) PROVE sent[i] = GatherFn[<<sent[i - 1], ds[i]>>]
    <3>1. sent[i - 1] \in Seq(Rec) /\ ds[i] \in Dgram
      BY <1>7
    <3>. QED
      BY <1>6, <3>1, GatherFnType
  <2>. QED
    BY <1>6, <2>1 DEF Loops
<1>. QED
  BY <1>5, <1>8, <1>9

\* An empty socket holds no event.
LEMMA EventsEmpty == Events(<<>>) = <<>>
<1>1. <<>> \in Seq(Dgram) /\ Len(<<>>) = 0
  OBVIOUS
<1>2. PICK f \in [0..0 -> Seq(Rec)] : Loops(f, GatherFn, <<>>, <<>>) /\ Events(<<>>) = f[0]
  BY <1>1, EventsLoop, Zenon
<1>. QED
  BY <1>2 DEF Loops

\* The socket holds records.
LEMMA EventsType == ASSUME NEW ds \in Seq(Dgram) PROVE Events(ds) \in Seq(Rec)
  BY EventsLoop

\* The datagram that comes last has the last events.
LEMMA EventsAppend ==
    ASSUME NEW ds \in Seq(Dgram), NEW g \in Dgram
    PROVE  Events(Append(ds, g)) = Gather(Events(ds), g)
<1>1. Append(ds, g) \in Seq(Dgram)
  OBVIOUS
<1>2. PICK f \in [0..Len(Append(ds, g)) -> Seq(Rec)] :
         /\ Loops(f, GatherFn, <<>>, Append(ds, g))
         /\ Events(Append(ds, g)) = f[Len(Append(ds, g))]
  BY <1>1, EventsLoop
<1>3. PICK h \in [0..Len(ds) -> Seq(Rec)] : Loops(h, GatherFn, <<>>, ds) /\ Events(ds) = h[Len(ds)]
  BY EventsLoop
<1>4. Loops(f, GatherFn, <<>>, ds) /\ f[Len(Append(ds, g))] = GatherFn[<<f[Len(ds)], g>>]
  <2>. DEFINE none == <<>>
  <2>1. Loops(f, GatherFn, none, Append(ds, g))
    BY <1>2
  <2>. HIDE DEF none
  <2>2. Loops(f, GatherFn, none, ds)
    BY <2>1, LoopsLast, Zenon
  <2>3. /\ Len(Append(ds, g)) = Len(ds) + 1 /\ Append(ds, g)[Len(ds) + 1] = g
        /\ Len(ds) + 1 - 1 = Len(ds) /\ Len(ds) + 1 \in 1..(Len(ds) + 1)
    OBVIOUS
  <2>4. f[Len(Append(ds, g))] = GatherFn[<<f[Len(ds)], g>>]
    <3>. DEFINE n == Len(ds)
    <3>1. \A i \in 1..(n + 1) : f[i] = GatherFn[<<f[i - 1], Append(ds, g)[i]>>]
      BY <2>1, <2>3 DEF Loops
    <3>2. n + 1 \in 1..(n + 1)
      BY <2>3
    <3>. DEFINE m == n + 1
    <3>. HIDE DEF m, n
    <3>3. f[m] = GatherFn[<<f[m - 1], Append(ds, g)[m]>>]
      BY <3>1, <3>2, Zenon DEF m
    <3>4. m - 1 = Len(ds) /\ m = Len(Append(ds, g)) /\ Append(ds, g)[m] = g
      BY <2>3 DEF n, m
    <3>. QED
      BY <3>3, <3>4, Zenon
  <2>. QED
    BY <2>2, <2>4 DEF none
<1>5. f[Len(ds)] = h[Len(ds)]
  <2>1. \A i \in 0..Len(ds) : f[i] = h[i]
    BY <1>3, <1>4, LoopsAgree
  <2>. QED
    BY <2>1
<1>6. h[Len(ds)] \in Seq(Rec)
  BY <1>3
<1>. QED
  BY <1>2, <1>3, <1>4, <1>5, <1>6, GatherFnType

\* Reading a datagram moves its events to the queue of the receiver.
LEMMA EventsHead ==
    ASSUME NEW ds \in Seq(Dgram), ds # <<>>
    PROVE  Events(ds) = Gather(<<>>, Head(ds)) \o Events(Tail(ds))
<1>. DEFINE g == Head(ds)
            P == {s \in Seq(Dgram) : Events(<<g>> \o s) = Gather(<<>>, g) \o Events(s)}
<1>0. g \in Dgram /\ Gather(<<>>, g) \in Seq(Rec)
  <2>1. Head(ds) \in Dgram /\ <<>> \in Seq(Rec)
    OBVIOUS
  <2>. QED
    BY <2>1, GatherType, Zenon
<1>. HIDE DEF g
<1>1. <<>> \in P
  <2>1. <<g>> \o <<>> = Append(<<>>, g) /\ <<>> \in Seq(Dgram)
    BY <1>0
  <2>2. Events(<<g>> \o <<>>) = Gather(<<>>, g)
    BY <1>0, <2>1, EventsAppend, EventsEmpty, Zenon
  <2>3. Gather(<<>>, g) \o <<>> = Gather(<<>>, g)
    BY <1>0
  <2>. QED
    BY <2>1, <2>2, <2>3, EventsEmpty, Zenon
<1>2. ASSUME NEW s \in Seq(Dgram), NEW x \in Dgram, s \in P PROVE Append(s, x) \in P
  <2>1. <<g>> \o Append(s, x) = Append(<<g>> \o s, x) /\ <<g>> \o s \in Seq(Dgram)
    BY <1>0
  <2>2. Events(Append(<<g>> \o s, x)) = Gather(Gather(<<>>, g) \o Events(s), x)
    BY <1>2, <2>1, EventsAppend, Zenon
  <2>3. Events(Append(s, x)) = Gather(Events(s), x) /\ Events(s) \in Seq(Rec)
    BY EventsAppend, EventsType
  <2>4. x.recs \in Seq(Rec)
    BY DEF Dgram
  <2>5. Gather(Gather(<<>>, g) \o Events(s), x) = Gather(<<>>, g) \o Gather(Events(s), x)
    <3>. DEFINE a == Gather(<<>>, g)
                b == Events(s)
                c == x.recs
    <3>1. a \in Seq(Rec) /\ b \in Seq(Rec) /\ c \in Seq(Rec)
      BY <1>0, <2>3, <2>4
    <3>. HIDE DEF a, b, c
    <3>2. (a \o b) \o c = a \o (b \o c)
      BY <3>1
    <3>3. Gather(a \o b, x) = a \o Gather(b, x)
      BY <3>2, Zenon DEF Gather, c
    <3>. QED
      BY <3>3 DEF a, b
  <2>6. Append(s, x) \in Seq(Dgram)
    OBVIOUS
  <2>. QED
    BY <2>1, <2>2, <2>3, <2>5, <2>6, Zenon
<1>. HIDE DEF P
<1>3. Seq(Dgram) \subseteq P
  BY <1>1, <1>2, SeqInduction
<1>4. Tail(ds) \in Seq(Dgram) /\ ds = <<g>> \o Tail(ds)
  BY DEF g
<1>5. Events(<<g>> \o Tail(ds)) = Gather(<<>>, g) \o Events(Tail(ds))
  BY <1>3, <1>4, Zenon DEF P
<1>. QED
  BY <1>4, <1>5, Zenon DEF g

-----------------------------------------------------------------------------
(* The queue of callbacks. *)

\* A callback at the end of the loop's queue is in it, and nothing else is new.
LEMMA HasAppend ==
    ASSUME NEW S, NEW r \in Seq(S), NEW x \in S
    PROVE  \A y : Has(Append(r, x), y) <=> Has(r, y) \/ x = y
<1>1. /\ DOMAIN Append(r, x) = 1..(Len(r) + 1) /\ DOMAIN r = 1..Len(r) /\ Len(r) \in Nat
      /\ Append(r, x)[Len(r) + 1] = x /\ \A i \in 1..Len(r) : Append(r, x)[i] = r[i]
  OBVIOUS
<1>2. ASSUME NEW y, Has(Append(r, x), y) PROVE Has(r, y) \/ x = y
  <2>1. PICK i \in 1..(Len(r) + 1) : Append(r, x)[i] = y
    BY <1>1, <1>2 DEF Has
  <2>2. i \in 1..Len(r) \/ i = Len(r) + 1
    BY <1>1
  <2>. QED
    BY <1>1, <2>1, <2>2 DEF Has
<1>3. ASSUME NEW y, Has(r, y) PROVE Has(Append(r, x), y)
  <2>1. PICK i \in 1..Len(r) : r[i] = y
    BY <1>1, <1>3 DEF Has
  <2>2. i \in 1..(Len(r) + 1)
    BY <1>1
  <2>. QED
    BY <1>1, <2>1, <2>2 DEF Has
<1>4. Has(Append(r, x), x)
  <2>1. Len(r) + 1 \in DOMAIN Append(r, x)
    BY <1>1
  <2>. QED
    BY <1>1, <2>1 DEF Has
<1>. QED
  BY <1>2, <1>3, <1>4

\* A callback that was not scheduled may be scheduled.
LEMMA OnceAppend ==
    ASSUME NEW S, NEW r \in Seq(S), NEW x \in S, NEW cb, Once(r, cb), x = cb => ~Has(r, cb)
    PROVE  Once(Append(r, x), cb)
<1>1. /\ DOMAIN Append(r, x) = 1..(Len(r) + 1) /\ DOMAIN r = 1..Len(r) /\ Len(r) \in Nat
      /\ Append(r, x)[Len(r) + 1] = x /\ \A i \in 1..Len(r) : Append(r, x)[i] = r[i]
  OBVIOUS
<1>. SUFFICES ASSUME NEW i \in 1..(Len(r) + 1), NEW j \in 1..(Len(r) + 1),
                     Append(r, x)[i] = cb, Append(r, x)[j] = cb
              PROVE  i = j
  BY <1>1 DEF Once
<1>2. (i \in 1..Len(r) \/ i = Len(r) + 1) /\ (j \in 1..Len(r) \/ j = Len(r) + 1)
  BY <1>1
<1>3. CASE i \in 1..Len(r) /\ j \in 1..Len(r)
  BY <1>1, <1>3 DEF Once
<1>4. CASE i = Len(r) + 1 /\ j \in 1..Len(r)
  BY <1>1, <1>4 DEF Has
<1>5. CASE j = Len(r) + 1 /\ i \in 1..Len(r)
  BY <1>1, <1>5 DEF Has
<1>. QED
  BY <1>2, <1>3, <1>4, <1>5

\* The receiver may be scheduled behind the consumer.
LEMMA FirstAppend ==
    ASSUME NEW S, NEW r \in Seq(S), NEW x \in S, ConsumerFirst(r),
           x = "receiver" => Has(r, "consumer")
    PROVE  ConsumerFirst(Append(r, x))
<1>1. /\ DOMAIN Append(r, x) = 1..(Len(r) + 1) /\ DOMAIN r = 1..Len(r) /\ Len(r) \in Nat
      /\ Append(r, x)[Len(r) + 1] = x /\ \A i \in 1..Len(r) : Append(r, x)[i] = r[i]
  OBVIOUS
<1>. SUFFICES ASSUME NEW j \in 1..(Len(r) + 1), Append(r, x)[j] = "receiver"
              PROVE  \E i \in 1..(j - 1) : Append(r, x)[i] = "consumer"
  BY <1>1 DEF ConsumerFirst
<1>2. j \in 1..Len(r) \/ j = Len(r) + 1
  BY <1>1
<1>3. CASE j \in 1..Len(r)
  <2>1. PICK i \in 1..(j - 1) : r[i] = "consumer"
    BY <1>1, <1>3 DEF ConsumerFirst
  <2>2. i \in 1..Len(r)
    BY <1>1, <1>3
  <2>. QED
    BY <1>1, <2>1, <2>2
<1>4. CASE j = Len(r) + 1
  <2>1. PICK i \in 1..Len(r) : r[i] = "consumer"
    BY <1>1, <1>4 DEF Has
  <2>2. i \in 1..(j - 1)
    BY <1>1, <1>4
  <2>. QED
    BY <1>1, <2>1, <2>2
<1>. QED
  BY <1>2, <1>3, <1>4

\* The callback that runs leaves the queue.
LEMMA TailFacts ==
    ASSUME NEW S, NEW r \in Seq(S), r # <<>>
    PROVE  /\ Tail(r) \in Seq(S)
           /\ \A y : Has(Tail(r), y) => Has(r, y)
           /\ \A y : Has(r, y) /\ y # Head(r) => Has(Tail(r), y)
           /\ \A y : Once(r, y) => Once(Tail(r), y)
           /\ Once(r, Head(r)) => ~Has(Tail(r), Head(r))
           /\ Has(r, Head(r))
           /\ ConsumerFirst(r) /\ Head(r) # "consumer" => ConsumerFirst(Tail(r)) /\ Head(r) # "receiver"
<1>1. /\ Tail(r) \in Seq(S) /\ Len(r) \in Nat /\ Len(r) >= 1 /\ DOMAIN r = 1..Len(r)
      /\ DOMAIN Tail(r) = 1..(Len(r) - 1) /\ \A i \in 1..(Len(r) - 1) : Tail(r)[i] = r[i + 1]
      /\ Head(r) = r[1]
  OBVIOUS
<1>. DEFINE n == Len(r)
            t == Tail(r)
<1>. HIDE DEF n, t
<1>2. /\ n \in Nat /\ n >= 1 /\ DOMAIN r = 1..n /\ DOMAIN t = 1..(n - 1)
      /\ \A i \in 1..(n - 1) : t[i] = r[i + 1] /\ i + 1 \in 1..n
      /\ Head(r) = r[1] /\ 1 \in 1..n
  BY <1>1 DEF n, t
<1>3. ASSUME NEW y, Has(t, y) PROVE Has(r, y)
  BY <1>2, <1>3, Zenon DEF Has
<1>4. ASSUME NEW y, Has(r, y), y # Head(r) PROVE Has(t, y)
  <2>1. PICK i \in 1..n : r[i] = y
    BY <1>2, <1>4 DEF Has
  <2>2. i # 1
    BY <1>2, <1>4, <2>1
  <2>3. i - 1 \in 1..(n - 1) /\ i - 1 + 1 = i
    BY <1>2, <2>2
  <2>. QED
    BY <1>2, <2>1, <2>3, Zenon DEF Has
<1>5. ASSUME NEW y, Once(r, y) PROVE Once(t, y)
  <2>. SUFFICES ASSUME NEW i \in 1..(n - 1), NEW j \in 1..(n - 1), t[i] = y, t[j] = y PROVE i = j
    BY <1>2 DEF Once
  <2>1. i + 1 = j + 1
    BY <1>2, <1>5, Zenon DEF Once
  <2>. QED
    BY <2>1
<1>6. Once(r, Head(r)) => ~Has(t, Head(r))
  <2>. SUFFICES ASSUME Once(r, Head(r)), NEW i \in 1..(n - 1), t[i] = Head(r) PROVE FALSE
    BY <1>2 DEF Has
  <2>1. i + 1 = 1
    BY <1>2, Zenon DEF Once
  <2>. QED
    BY <1>2, <2>1
<1>7. ASSUME ConsumerFirst(r), Head(r) # "consumer" PROVE ConsumerFirst(t) /\ Head(r) # "receiver"
  <2>1. Head(r) # "receiver"
    BY <1>2, <1>7 DEF ConsumerFirst
  <2>2. ASSUME NEW j \in 1..(n - 1), t[j] = "receiver" PROVE \E i \in 1..(j - 1) : t[i] = "consumer"
    <3>1. PICK i \in 1..(j + 1 - 1) : r[i] = "consumer"
      BY <1>2, <1>7, <2>2 DEF ConsumerFirst
    <3>2. i # 1
      BY <1>2, <1>7, <3>1
    <3>3. i - 1 \in 1..(j - 1) /\ i - 1 \in 1..(n - 1) /\ i - 1 + 1 = i
      BY <1>2, <3>2
    <3>. QED
      BY <1>2, <3>1, <3>3, Zenon
  <2>. QED
    BY <1>2, <2>1, <2>2 DEF ConsumerFirst
<1>8. Has(r, Head(r))
  BY <1>2 DEF Has
<1>. QED
  BY <1>1, <1>3, <1>4, <1>5, <1>6, <1>7, <1>8 DEF t

\* Closing the transport leaves the others in their order.
LEMMA NoReadFacts ==
    ASSUME NEW S, NEW r \in Seq(S)
    PROVE  /\ NoRead(r) \in Seq(S)
           /\ \A y : Has(NoRead(r), y) => Has(r, y)
           /\ \A y : Has(r, y) /\ y # "read" => Has(NoRead(r), y)
           /\ \A y : Once(r, y) => Once(NoRead(r), y)
           /\ ConsumerFirst(r) => ConsumerFirst(NoRead(r))
<1>1. CASE ~Has(r, "read")
  BY <1>1 DEF NoRead
<1>2. CASE Has(r, "read")
  <2>. DEFINE k == CHOOSE i \in DOMAIN r : r[i] = "read"
              n == Len(r)
              t == NoRead(r)
  <2>1. k \in DOMAIN r /\ r[k] = "read"
    BY <1>2 DEF Has
  <2>2. t = SubSeq(r, 1, k - 1) \o SubSeq(r, k + 1, Len(r))
    BY <1>2, Zenon DEF NoRead
  <2>3. k \in 1..Len(r) /\ DOMAIN r = 1..Len(r)
    BY <2>1
  <2>. HIDE DEF k, t
  <2>4. /\ t \in Seq(S) /\ DOMAIN t = 1..(Len(r) - 1)
        /\ \A i \in 1..(Len(r) - 1) : t[i] = IF i < k THEN r[i] ELSE r[i + 1]
    <3>. DEFINE a == SubSeq(r, 1, k - 1)
                b == SubSeq(r, k + 1, Len(r))
    <3>1. a \in Seq(S) /\ Len(a) = k - 1 /\ \A i \in 1..(k - 1) : a[i] = r[i]
      BY <2>3
    <3>2. b \in Seq(S) /\ Len(b) = Len(r) - k /\ \A i \in 1..(Len(r) - k) : b[i] = r[i + k]
      <4>1. Len(r) \in Nat /\ k \in Nat /\ k + 1 \in 1..(Len(r) + 1)
        BY <2>3
      <4>2. /\ b \in Seq(S) /\ Len(b) = Len(r) - (k + 1) + 1
            /\ \A i \in 1..(Len(r) - (k + 1) + 1) : b[i] = r[k + 1 + i - 1]
        BY <4>1, RestElements
      <4>3. Len(r) - (k + 1) + 1 = Len(r) - k
        BY <4>1
      <4>. HIDE DEF b
      <4>4. ASSUME NEW i \in 1..(Len(r) - k) PROVE b[i] = r[i + k]
        <5>1. k + 1 + i - 1 = i + k
          BY <4>1
        <5>2. b[i] = r[k + 1 + i - 1]
          BY <4>2, <4>3
        <5>. QED
          BY <5>1, <5>2
      <4>. QED
        BY <4>2, <4>3, <4>4
    <3>. HIDE DEF a, b
    <3>3. t = a \o b
      BY <2>2 DEF a, b
    <3>4. t \in Seq(S) /\ Len(t) = Len(r) - 1 /\ DOMAIN t = 1..Len(t)
      <4>1. Len(t) = (k - 1) + (Len(r) - k) /\ Len(r) \in Nat
        <5>1. Len(t) = Len(a) + Len(b)
          BY <3>1, <3>2, <3>3, JoinedElements, Zenon
        <5>. QED
          BY <2>3, <3>1, <3>2, <5>1
      <4>2. t \in Seq(S)
        BY <3>1, <3>2, <3>3
      <4>. QED
        BY <2>3, <4>1, <4>2
    <3>5. ASSUME NEW i \in 1..(Len(r) - 1) PROVE t[i] = IF i < k THEN r[i] ELSE r[i + 1]
      <4>1. CASE i < k
        BY <2>3, <3>1, <3>2, <3>3, <4>1
      <4>2. CASE i >= k
        <5>0. i - (k - 1) \in 1..Len(b) /\ Len(a) + (i - (k - 1)) = i
          <6>1. Len(r) \in Nat /\ k \in 1..Len(r) /\ Len(a) = k - 1 /\ Len(b) = Len(r) - k
            BY <2>3, <3>1, <3>2
          <6>2. i - (k - 1) \in 1..(Len(r) - k) /\ (k - 1) + (i - (k - 1)) = i
            BY <6>1, <4>2
          <6>. QED
            BY <6>1, <6>2, Zenon
        <5>1. t[i] = b[i - (k - 1)]
          BY <3>1, <3>2, <3>3, <5>0, JoinedElements
        <5>2. i - (k - 1) \in 1..(Len(r) - k) /\ i - (k - 1) + k = i + 1
          BY <2>3, <4>2
        <5>. QED
          BY <2>3, <3>2, <4>2, <5>1, <5>2
      <4>. QED
        BY <2>3, <4>1, <4>2
    <3>. QED
      BY <3>4, <3>5
  <2>. HIDE DEF n
  <2>5. /\ n \in Nat /\ k \in 1..n /\ DOMAIN r = 1..n /\ DOMAIN t = 1..(n - 1)
        /\ \A i \in 1..(n - 1) : t[i] = IF i < k THEN r[i] ELSE r[i + 1]
    BY <2>3, <2>4 DEF n
  <2>. DEFINE At(i) == IF i < k THEN i ELSE i + 1
  <2>6. \A i \in 1..(n - 1) : At(i) \in 1..n /\ t[i] = r[At(i)]
    BY <2>5
  <2>7. \A i, j \in 1..(n - 1) : (At(i) = At(j) => i = j) /\ (At(i) < At(j) => i < j)
    BY <2>5
  <2>8. \A m \in 1..n : m # k => \E i \in 1..(n - 1) : At(i) = m
    <3>. SUFFICES ASSUME NEW m \in 1..n, m # k PROVE \E i \in 1..(n - 1) : At(i) = m
      OBVIOUS
    <3>1. CASE m < k
      <4>1. m \in 1..(n - 1) /\ At(m) = m
        BY <2>5, <3>1
      <4>. QED
        BY <4>1
    <3>2. CASE m > k
      <4>1. m - 1 \in 1..(n - 1) /\ At(m - 1) = m
        BY <2>5, <3>2
      <4>. QED
        BY <4>1
    <3>. QED
      BY <2>5, <3>1, <3>2
  <2>. HIDE DEF At
  <2>9. ASSUME NEW y, Has(t, y) PROVE Has(r, y)
    BY <2>5, <2>6, <2>9 DEF Has
  <2>10. ASSUME NEW y, Has(r, y), y # "read" PROVE Has(t, y)
    <3>1. PICK m \in 1..n : r[m] = y
      BY <2>5, <2>10 DEF Has
    <3>2. m # k
      BY <2>1, <2>10, <3>1
    <3>. QED
      BY <2>5, <2>6, <2>8, <3>1, <3>2, Zenon DEF Has
  <2>11. ASSUME NEW y, Once(r, y) PROVE Once(t, y)
    BY <2>5, <2>6, <2>7, <2>11 DEF Once
  <2>12. ASSUME ConsumerFirst(r) PROVE ConsumerFirst(t)
    <3>. SUFFICES ASSUME NEW j \in 1..(n - 1), t[j] = "receiver"
                  PROVE  \E i \in 1..(j - 1) : t[i] = "consumer"
      BY <2>5 DEF ConsumerFirst
    <3>1. At(j) \in 1..n /\ r[At(j)] = "receiver"
      BY <2>6
    <3>2. PICK m \in 1..(At(j) - 1) : r[m] = "consumer"
      BY <2>5, <2>12, <3>1 DEF ConsumerFirst
    <3>3. m \in 1..n /\ m < At(j) /\ m # k
      BY <2>1, <2>5, <3>1, <3>2
    <3>4. PICK i \in 1..(n - 1) : At(i) = m
      BY <2>8, <3>3
    <3>5. i < j /\ i \in 1..(j - 1)
      BY <2>5, <2>7, <3>3, <3>4
    <3>. QED
      BY <2>6, <3>2, <3>4, <3>5
  <2>. QED
    BY <2>4, <2>9, <2>10, <2>11, <2>12 DEF t
<1>. QED
  BY <1>1, <1>2

\* The queue of the loop, callback by callback.
LEMMA QueueAppend ==
    ASSUME NEW r, NEW p, NEW tq, NEW es, NEW u, QueueOk(r, p, tq, es, u),
           NEW x \in Callbacks, x \notin {"receiver", "awake"}
    PROVE  QueueOk(Append(r, x), p, tq, es, u)
<1>0. r \in Seq(Callbacks)
  BY DEF QueueOk
<1>1. Append(r, x) \in Seq(Callbacks)
  BY <1>0
<1>2. Once(Append(r, x), "receiver") /\ Once(Append(r, x), "awake")
  BY <1>0, OnceAppend DEF QueueOk
<1>3. \A y : Has(Append(r, x), y) <=> Has(r, y) \/ x = y
  BY <1>0, HasAppend
<1>4. ConsumerFirst(r) => ConsumerFirst(Append(r, x))
  BY <1>0, FirstAppend
<1>. QED
  BY <1>1, <1>2, <1>3, <1>4 DEF QueueOk

\* Scheduling another callback than the receiver and the waiting thread.
LEMMA QueueWake ==
    ASSUME NEW r, NEW p, NEW tq, NEW es, NEW u, QueueOk(r, p, tq, es, u),
           NEW x \in Callbacks, x \notin {"receiver", "awake"}
    PROVE  QueueOk(Wake(r, x), p, tq, es, u) /\ Has(Wake(r, x), x)
<1>1. r \in Seq(Callbacks)
  BY DEF QueueOk
<1>2. Has(Append(r, x), x)
  BY <1>1, HasAppend
<1>. QED
  BY <1>2, QueueAppend DEF Wake

\* The receiver is woken, where it may run.
LEMMA QueueReceiver ==
    ASSUME NEW r, NEW p, NEW tq, NEW es, NEW u, QueueOk(r, p, tq, es, u), ~Has(r, "receiver"),
           p \in Loading \cup {"start", "endpoint", "reading"}, p \in Loading => tq # <<>>,
           p = "endpoint" => es = <<>> \/ Has(r, "consumer")
    PROVE  QueueOk(Append(r, "receiver"), p, tq, es, u)
<1>0. r \in Seq(Callbacks) /\ "receiver" \in Callbacks
  BY DEF QueueOk, Callbacks
<1>1. Append(r, "receiver") \in Seq(Callbacks)
  BY <1>0
<1>2. Once(Append(r, "receiver"), "receiver") /\ Once(Append(r, "receiver"), "awake")
  BY <1>0, OnceAppend DEF QueueOk
<1>3. \A y : Has(Append(r, "receiver"), y) <=> Has(r, y) \/ "receiver" = y
  BY <1>0, HasAppend
<1>4. ASSUME p = "endpoint" PROVE es = <<>> \/ ConsumerFirst(Append(r, "receiver"))
  BY <1>0, <1>4, FirstAppend DEF QueueOk
<1>. QED
  BY <1>1, <1>2, <1>3, <1>4 DEF QueueOk

\* Running a callback other than the consumer takes it off the queue.
LEMMA QueueTail ==
    ASSUME NEW r, NEW p, NEW tq, NEW es, NEW u, QueueOk(r, p, tq, es, u), r # <<>>,
           Head(r) # "consumer"
    PROVE  /\ QueueOk(Tail(r), p, tq, es, u) /\ Has(r, Head(r))
           /\ Head(r) \in {"receiver", "awake"} => ~Has(Tail(r), Head(r))
<1>0. r \in Seq(Callbacks) /\ Once(r, "receiver") /\ Once(r, "awake")
  BY DEF QueueOk
<1>1. Tail(r) \in Seq(Callbacks)
  BY <1>0, TailFacts
<1>2. Once(Tail(r), "receiver") /\ Once(Tail(r), "awake")
  BY <1>0, TailFacts
<1>3. Has(r, Head(r)) /\ \A y : Has(Tail(r), y) => Has(r, y)
  BY <1>0, TailFacts
<1>4. Has(r, "consumer") => Has(Tail(r), "consumer")
  BY <1>0, TailFacts
<1>5. ConsumerFirst(r) => ConsumerFirst(Tail(r))
  BY <1>0, TailFacts
<1>6. Head(r) \in {"receiver", "awake"} => ~Has(Tail(r), Head(r))
  BY <1>0, TailFacts
<1>. QED
  BY <1>1, <1>2, <1>3, <1>4, <1>5, <1>6 DEF QueueOk

\* The database has taken its queue.
LEMMA QueueLoaded ==
    ASSUME NEW r, NEW p, NEW tq, NEW es, NEW u, QueueOk(r, p, tq, es, u), r # <<>>
    PROVE  QueueOk(Tail(r), p, tq, <<>>, u)
<1>0. r \in Seq(Callbacks) /\ Once(r, "receiver") /\ Once(r, "awake")
  BY DEF QueueOk
<1>1. Tail(r) \in Seq(Callbacks)
  BY <1>0, TailFacts
<1>2. Once(Tail(r), "receiver") /\ Once(Tail(r), "awake")
  BY <1>0, TailFacts
<1>3. \A y : Has(Tail(r), y) => Has(r, y)
  BY <1>0, TailFacts
<1>. QED
  BY <1>1, <1>2, <1>3 DEF QueueOk

\* Aborting the transport removes its reader from the loop's queue, and no
\* other callback.
LEMMA QueueNoRead ==
    ASSUME NEW r, NEW p, NEW tq, NEW es, NEW u, QueueOk(r, p, tq, es, u)
    PROVE  /\ QueueOk(NoRead(r), p, tq, es, u)
           /\ Has(NoRead(r), "receiver") => Has(r, "receiver")
           /\ Has(r, "consumer") => Has(NoRead(r), "consumer")
<1>0. r \in Seq(Callbacks)
  BY DEF QueueOk
<1>1. NoRead(r) \in Seq(Callbacks)
  BY <1>0, NoReadFacts
<1>2. Once(r, "receiver") => Once(NoRead(r), "receiver")
  BY <1>0, NoReadFacts
<1>3. Once(r, "awake") => Once(NoRead(r), "awake")
  BY <1>0, NoReadFacts
<1>4. Has(r, "consumer") => Has(NoRead(r), "consumer")
  BY <1>0, NoReadFacts
<1>5. \A y : Has(NoRead(r), y) => Has(r, y)
  BY <1>0, NoReadFacts
<1>6. ConsumerFirst(r) => ConsumerFirst(NoRead(r))
  BY <1>0, NoReadFacts
<1>. QED
  BY <1>1, <1>2, <1>3, <1>4, <1>5, <1>6 DEF QueueOk

\* The receiver moves to q, and more events wait.
LEMMA QueueMoves ==
    ASSUME NEW r, NEW p, NEW tq, NEW es, NEW u, QueueOk(r, p, tq, es, u), ~Has(r, "receiver"),
           NEW q, NEW t, NEW fs, fs = <<>> \/ Has(r, "consumer")
    PROVE  QueueOk(r, q, t, fs, u)
<1>1. ConsumerFirst(r)
  BY DEF ConsumerFirst, Has
<1>. QED
  BY <1>1 DEF QueueOk

\* While the receiver runs it puts events into the queue of the manager, which
\* is woken.
LEMMA QueueWakeFor ==
    ASSUME NEW r, NEW p, NEW tq, NEW es, NEW u, QueueOk(r, p, tq, es, u), ~Has(r, "receiver"),
           NEW q, NEW t, NEW fs
    PROVE  /\ QueueOk(Wake(r, "consumer"), q, t, fs, u)
           /\ QueueOk(WakeFor(r, fs), q, t, fs, u)
<1>0. r \in Seq(Callbacks) /\ "consumer" \in Callbacks
  BY DEF QueueOk, Callbacks
<1>1. QueueOk(Wake(r, "consumer"), p, tq, es, u) /\ Has(Wake(r, "consumer"), "consumer")
  BY <1>0, QueueWake
<1>2. ~Has(Wake(r, "consumer"), "receiver")
  BY <1>0, HasAppend DEF Wake
<1>3. QueueOk(Wake(r, "consumer"), q, t, fs, u)
  BY <1>1, <1>2, QueueMoves
<1>4. fs = <<>> => QueueOk(r, q, t, fs, u)
  BY QueueMoves
<1>. QED
  BY <1>3, <1>4 DEF WakeFor

\* The thread moves on, or is woken.
LEMMA QueueThread ==
    ASSUME NEW r, NEW p, NEW tq, NEW es, NEW u, QueueOk(r, p, tq, es, u),
           NEW w, ~Has(r, "awake")
    PROVE  QueueOk(r, p, tq, es, w)
  BY DEF QueueOk

\* The event a thread awaits wakes it once.
LEMMA QueueAwake ==
    ASSUME NEW r, NEW p, NEW tq, NEW es, QueueOk(r, p, tq, es, "await")
    PROVE  QueueOk(Wake(r, "awake"), p, tq, es, "await")
<1>0. r \in Seq(Callbacks) /\ "awake" \in Callbacks
  BY DEF QueueOk, Callbacks
<1>1. CASE Has(r, "awake")
  BY <1>1 DEF Wake
<1>2. CASE ~Has(r, "awake")
  <2>1. Append(r, "awake") \in Seq(Callbacks)
    BY <1>0
  <2>2. Once(Append(r, "awake"), "receiver") /\ Once(Append(r, "awake"), "awake")
    BY <1>0, <1>2, OnceAppend DEF QueueOk
  <2>3. \A y : Has(Append(r, "awake"), y) <=> Has(r, y) \/ "awake" = y
    BY <1>0, HasAppend
  <2>4. ConsumerFirst(r) => ConsumerFirst(Append(r, "awake"))
    BY <1>0, FirstAppend
  <2>5. QueueOk(Append(r, "awake"), p, tq, es, "await")
    BY <2>1, <2>2, <2>3, <2>4 DEF QueueOk
  <2>. QED
    BY <1>2, <2>5 DEF Wake
<1>. QED
  BY <1>1, <1>2

\* The end of a task schedules its callback.
LEMMA QueueEnded ==
    ASSUME NEW r, NEW p, NEW tq, NEW es, NEW u, QueueOk(r, p, tq, es, u)
    PROVE  QueueOk(Ended(r), p, tq, es, u)
<1>1. "done" \in Callbacks
  BY DEF Callbacks
<1>. QED
  BY <1>1, QueueAppend DEF Ended

\* A packet in the root queue wakes a receiver that reads.
LEMMA QueueReader ==
    ASSUME NEW r, NEW es, NEW u, QueueOk(r, pc, tagq, es, u)
    PROVE  QueueOk(WakeReader(r), pc, tagq, es, u)
<1>1. pc = "reading" /\ ~Has(r, "receiver") => QueueOk(Append(r, "receiver"), pc, tagq, es, u)
  BY QueueReceiver DEF Loading
<1>. QED
  BY <1>1 DEF WakeReader, Wake

\* Closing the socket schedules connection_lost().
LEMMA QueueClose ==
    ASSUME NEW r, NEW p, NEW tq, NEW es, NEW u, QueueOk(r, p, tq, es, u)
    PROVE  QueueOk(Append(NoRead(r), "lost"), p, tq, es, u)
<1>1. QueueOk(NoRead(r), p, tq, es, u) /\ "lost" \in Callbacks
  BY QueueNoRead DEF Callbacks
<1>. QED
  BY <1>1, QueueAppend

-----------------------------------------------------------------------------
(* Every step keeps the queue in order. *)

\* What the parts of the invariant say when api() is not called.
Inv == "api" \notin env /\ Consistent(kernel) /\ QueueInv /\ SocketInv /\ UserInv /\ ApiInv /\ LoadInv

\* The callback that runs is no longer in the queue.
LEMMA RunningRest ==
    ASSUME QueueInv, NEW cb, cb # "consumer", Running(cb)
    PROVE  /\ QueueOk(Rest, pc, tagq, evq, user.pc) /\ Has(ready, cb)
           /\ cb \in {"receiver", "awake"} => ~Has(Rest, cb)
<1>1. QueueOk(ready, pc, tagq, evq, user.pc) /\ ready # <<>> /\ Head(ready) = cb
  BY DEF QueueInv, Running
<1>. QED
  BY <1>1, QueueTail DEF Rest

\* Fields of the thread that calls the source.
LEMMA UserFields ==
    ASSUME UserInv
    PROVE  /\ \A p : [user EXCEPT !.pc = p].pc = p /\ [user EXCEPT !.pc = p].aimed = user.aimed
           /\ [user EXCEPT !.aimed = FALSE].pc = user.pc /\ [user EXCEPT !.aimed = FALSE].aimed = FALSE
  BY DEF UserInv

\* The answer to a dump is read while the receiver waits for it.
LEMMA HeadOfWire ==
    ASSUME SocketInv, wire # <<>>
    PROVE  /\ Head(wire) \in Dgram /\ Head(wire).to \in {"root", "dump"}
           /\ Head(wire).recs \in Seq(Rec)
           /\ Head(wire).to = "dump" => pc \in Loading /\ tagq = <<>>
<1>1. wire \in Seq(Dgram)
  BY DEF SocketInv
<1>2. Head(wire) \in Dgram /\ 1 \in DOMAIN wire /\ wire[1] = Head(wire)
  BY <1>1
<1>3. Head(wire).to \in {"root", "dump"} /\ Head(wire).recs \in Seq(Rec)
  BY <1>2 DEF Dgram
<1>. QED
  BY <1>2, <1>3 DEF SocketInv, NoDump

\* Reading the socket keeps the order of callbacks.
LEMMA QueueSocket == ASSUME Inv, Socket PROVE QueueInv'
<1>. USE DEF Inv
<1>1. CASE ReadDatagram
  <2>1. QueueOk(Rest, pc, tagq, evq, user.pc)
    BY <1>1, RunningRest, Zenon DEF ReadDatagram
  <2>2. CASE Head(wire).to = "root"
    <3>1. ready' = WakeReader(Rest) /\ UNCHANGED <<pc, tagq, evq, user>>
      BY <1>1, <2>2, Zenon DEF ReadDatagram
    <3>. QED
      BY <2>1, <3>1, QueueReader DEF QueueInv
  <2>3. CASE Head(wire).to = "dump"
    <3>1. /\ ready' = Append(Rest, "receiver") /\ tagq' = <<Head(wire).recs>>
          /\ UNCHANGED <<pc, evq, user>> /\ wire # <<>>
      BY <1>1, <2>3, Zenon DEF ReadDatagram
    <3>2. pc \in Loading /\ tagq = <<>>
      BY <2>3, <3>1, HeadOfWire
    <3>3. ~Has(Rest, "receiver") /\ (evq = <<>> \/ Has(Rest, "consumer"))
      BY <2>1, <3>2 DEF QueueOk
    <3>4. QueueOk(Rest, pc, tagq', evq, user.pc)
      BY <2>1, <3>3, QueueMoves
    <3>5. tagq' # <<>> /\ pc # "endpoint"
      BY <3>1, <3>2 DEF Loading
    <3>6. QueueOk(Append(Rest, "receiver"), pc, tagq', evq, user.pc)
      BY <3>2, <3>3, <3>4, <3>5, QueueReceiver
    <3>. QED
      BY <3>1, <3>6 DEF QueueInv
  <2>. QED
    BY <1>1, <2>2, <2>3, HeadOfWire, Zenon DEF ReadDatagram
<1>2. CASE ReadOverrun
  <2>1. QueueOk(Rest, pc, tagq, evq, user.pc)
    BY <1>2, RunningRest DEF ReadOverrun
  <2>2. ready' = WakeReader(Rest) /\ UNCHANGED <<pc, tagq, evq, user>>
    BY <1>2 DEF ReadOverrun
  <2>. QED
    BY <2>1, <2>2, QueueReader DEF QueueInv
<1>3. CASE ConnectionLost
  <2>1. QueueOk(Rest, pc, tagq, evq, user.pc)
    BY <1>3, RunningRest, Zenon DEF ConnectionLost
  <2>2. (ready' = Rest \/ ready' = WakeReader(Rest)) /\ UNCHANGED <<pc, tagq, evq, user>>
    BY <1>3 DEF ConnectionLost
  <2>. QED
    BY <2>1, <2>2, QueueReader DEF QueueInv
<1>. QED
  BY <1>1, <1>2, <1>3 DEF Socket

\* set_ready() in the finally clause, and the end of the task
LEMMA QueueFails ==
    ASSUME NEW e, NEW r, NEW p, NEW tq, NEW es, QueueOk(r, p, tq, es, user.pc),
           ~Has(r, "receiver"), FailLoading(e, r), user'.pc = user.pc
    PROVE  QueueInv'
<1>1. QueueOk(Wake(r, "consumer"), pc', tagq', evq', user.pc)
  BY QueueWakeFor, Zenon
<1>2. QueueOk(Ended(Wake(r, "consumer")), pc', tagq', evq', user.pc)
  BY <1>1, QueueEnded, Zenon
<1>. QED
  BY <1>2, Zenon DEF FailLoading, QueueInv

\* So does every step of Source.receiver().
LEMMA QueueReceives == ASSUME Inv, Receiver PROVE QueueInv'
<1>. USE DEF Inv
<1>0. ASSUME NEW p, AtReceiver(p)
      PROVE  QueueOk(Rest, pc, tagq, evq, user.pc) /\ ~Has(Rest, "receiver") /\ pc = p
  BY <1>0, RunningRest DEF AtReceiver
<1>1. CASE ReceiverConnect
  <2>1. QueueOk(Rest, pc, tagq, evq, user.pc) /\ ~Has(Rest, "receiver")
    BY <1>0, <1>1 DEF ReceiverConnect
  <2>2. QueueOk(NoRead(Rest), pc, tagq, evq, user.pc) /\ ~Has(NoRead(Rest), "receiver")
    BY <2>1, QueueNoRead
  <2>3. evq = <<>> \/ Has(NoRead(Rest), "consumer")
    BY <2>2 DEF QueueOk
  <2>4. QueueOk(NoRead(Rest), "endpoint", <<>>, evq, user.pc)
    BY <2>2, <2>3, QueueMoves
  <2>5. QueueOk(Append(NoRead(Rest), "receiver"), "endpoint", <<>>, evq, user.pc)
    BY <2>2, <2>3, <2>4, QueueReceiver DEF Loading
  <2>6. /\ ready' = Append(NoRead(Rest), "receiver") /\ pc' = "endpoint" /\ tagq' = <<>>
        /\ evq' = evq /\ user'.pc = user.pc
    BY <1>1, UserFields DEF ReceiverConnect
  <2>. QED
    BY <2>5, <2>6 DEF QueueInv
<1>2. CASE ReceiverConnectFails
  <2>1. QueueOk(Rest, pc, tagq, evq, user.pc) /\ ~Has(Rest, "receiver")
    BY <1>0, <1>2 DEF ReceiverConnectFails
  <2>2. QueueOk(NoRead(Rest), pc, tagq, evq, user.pc) /\ ~Has(NoRead(Rest), "receiver")
    BY <2>1, QueueNoRead
  <2>3. FailLoading(evq, NoRead(Rest)) /\ user'.pc = user.pc
    BY <1>2, UserFields DEF ReceiverConnectFails
  <2>. QED
    BY <2>2, <2>3, QueueFails, Zenon
<1>3. CASE ReceiverBind
  <2>1. QueueOk(Rest, pc, tagq, evq, user.pc) /\ ~Has(Rest, "receiver")
    BY <1>0, <1>3 DEF ReceiverBind
  <2>2. QueueOk(Wake(Rest, "consumer"), pc', tagq', evq', user.pc)
    BY <2>1, QueueWakeFor
  <2>. QED
    BY <1>3, <2>2 DEF ReceiverBind, QueueInv
<1>4. CASE ReceiverBindFails
  <2>1. QueueOk(Rest, pc, tagq, evq, user.pc) /\ ~Has(Rest, "receiver")
    BY <1>0, <1>4 DEF ReceiverBindFails
  <2>2. FailLoading(evq, Rest) /\ user'.pc = user.pc
    BY <1>4 DEF ReceiverBindFails
  <2>. QED
    BY <2>1, <2>2, QueueFails, Zenon
<1>5. CASE ReceiverLinks
  <2>1. QueueOk(Rest, pc, tagq, evq, user.pc) /\ ~Has(Rest, "receiver")
    BY <1>0, <1>5 DEF ReceiverLinks
  <2>2. CASE nl.open /\ ~nl.err
    <3>1. ready' = WakeFor(Rest, evq') /\ user' = user
      BY <1>5, <2>2, Zenon DEF ReceiverLinks
    <3>2. QueueOk(WakeFor(Rest, evq'), pc', tagq', evq', user.pc)
      BY <2>1, QueueWakeFor
    <3>. QED
      BY <3>1, <3>2 DEF QueueInv
  <2>3. CASE ~(nl.open /\ ~nl.err)
    <3>1. FailLoading(evq \o Head(tagq), Rest) /\ user'.pc = user.pc
      BY <1>5, <2>3, Zenon DEF ReceiverLinks
    <3>. QED
      BY <2>1, <3>1, QueueFails, Zenon
  <2>. QED
    BY <2>2, <2>3
<1>6. ASSUME NEW p, AtReceiver(p), NEW e, NEW w, Forward(e, w), user' = user PROVE QueueInv'
  <2>1. QueueOk(Rest, pc, tagq, evq, user.pc) /\ ~Has(Rest, "receiver")
    BY <1>0, <1>6
  <2>2. QueueOk(WakeFor(Rest, evq'), pc', tagq', evq', user.pc)
    BY <2>1, QueueWakeFor, Zenon
  <2>3. QueueOk(Ended(WakeFor(Rest, evq')), pc', tagq', evq', user.pc)
    BY <2>2, QueueEnded
  <2>4. ready' = WakeFor(Rest, evq') \/ ready' = Ended(WakeFor(Rest, evq'))
    BY <1>6 DEF Forward
  <2>. QED
    BY <1>6, <2>2, <2>3, <2>4, Zenon DEF QueueInv
<1>7. CASE ReceiverChildren
  BY <1>6, <1>7, Zenon DEF ReceiverChildren
<1>8. CASE ReceiverEvents
  BY <1>6, <1>8, Zenon DEF ReceiverEvents
<1>. QED
  BY <1>1, <1>2, <1>3, <1>4, <1>5, <1>7, <1>8 DEF Receiver

\* So do the manager's steps.
LEMMA QueueManager == ASSUME Inv, Manager \/ Awake \/ Readable PROVE QueueInv'
<1>. USE DEF Inv
<1>0. "done" \in Callbacks /\ "watch" \in Callbacks /\ "read" \in Callbacks
  BY DEF Callbacks
<1>1. CASE LoadEvents
  <2>1. QueueOk(Rest, pc, tagq, <<>>, user.pc)
    BY <1>1, QueueLoaded, Zenon DEF LoadEvents, Running, Rest, QueueInv
  <2>2. user.pc = "await" => QueueOk(Wake(Rest, "awake"), pc, tagq, <<>>, user.pc)
    BY <2>1, QueueAwake
  <2>3. /\ ready' = Rest \/ (user.pc = "await" /\ ready' = Wake(Rest, "awake"))
        /\ evq' = <<>> /\ UNCHANGED <<pc, tagq, user>>
    BY <1>1 DEF LoadEvents
  <2>. QED
    BY <2>1, <2>2, <2>3 DEF QueueInv
<1>2. CASE Reload
  <2>1. QueueOk(Rest, pc, tagq, evq, user.pc)
    BY <1>2, RunningRest DEF Reload
  <2>2. QueueOk(Wake(Rest, "done"), pc, tagq, evq, user.pc)
    BY <1>0, <2>1, QueueWake
  <2>. QED
    BY <1>2, <2>2 DEF Reload, QueueInv
<1>3. CASE Completed
  <2>1. QueueOk(Rest, pc, tagq, evq, user.pc)
    BY <1>3, RunningRest, Zenon DEF Completed
  <2>2. QueueOk(Wake(Rest, "watch"), pc, tagq, evq, user.pc)
    BY <1>0, <2>1, QueueWake, Zenon
  <2>. QED
    BY <1>3, <2>2 DEF Completed, QueueInv
<1>4. CASE TaskWatch
  <2>1. QueueOk(Rest, pc, tagq, evq, user.pc)
    BY <1>4, RunningRest DEF TaskWatch
  <2>2. UNCHANGED <<tagq, evq, user>>
    BY <1>4 DEF TaskWatch
  <2>3. CASE pc = "failed"
    <3>1. ~Has(Rest, "receiver") /\ (evq = <<>> \/ Has(Rest, "consumer"))
      BY <2>1, <2>3 DEF QueueOk, Loading
    <3>2. \A q : QueueOk(Rest, q, tagq, evq, user.pc)
      BY <2>1, <3>1, QueueMoves
    <3>3. QueueOk(Append(Rest, "receiver"), "start", tagq, evq, user.pc)
      BY <3>1, <3>2, QueueReceiver, Zenon DEF Loading
    <3>4. QueueOk(Append(Rest, "done"), pc, tagq, evq, user.pc)
      BY <1>0, <2>1, QueueAppend, Zenon
    <3>5. \/ ready' = Append(Rest, "receiver") /\ pc' = "start"
          \/ ready' = Rest
          \/ ready' = Append(Rest, "done") /\ pc' = pc
      BY <1>4, <2>3 DEF TaskWatch
    <3>. QED
      BY <2>2, <3>2, <3>3, <3>4, <3>5, Zenon DEF QueueInv
  <2>4. CASE pc # "failed"
    <3>1. ready' = Rest /\ pc' = pc
      BY <1>4, <2>4 DEF TaskWatch
    <3>. QED
      BY <2>1, <2>2, <3>1, Zenon DEF QueueInv
  <2>. QED
    BY <2>3, <2>4
<1>5. CASE Awake
  <2>1. QueueOk(Rest, pc, tagq, evq, user.pc) /\ ~Has(Rest, "awake")
    BY <1>5, RunningRest DEF Awake
  <2>2. QueueOk(Rest, pc, tagq, evq, user'.pc)
    BY <2>1, QueueThread, Zenon
  <2>. QED
    BY <1>5, <2>2 DEF Awake, QueueInv
<1>6. CASE Readable
  <2>1. QueueOk(Append(ready, "read"), pc, tagq, evq, user.pc)
    BY <1>0, QueueAppend DEF QueueInv
  <2>. QED
    BY <1>6, <2>1, Zenon DEF Readable, QueueInv
<1>. QED
  BY <1>1, <1>2, <1>3, <1>4, <1>5, <1>6 DEF Manager

\* So do the calls of threads.
LEMMA QueueCalls == ASSUME Inv, Calls \/ Begin PROVE QueueInv'
<1>. USE DEF Inv
<1>0. user.pc # "await" => ~Has(ready, "awake")
  BY DEF QueueInv, QueueOk
<1>1. user.pc # "await" => \A w : QueueOk(ready, pc, tagq, evq, w)
  BY <1>0, QueueThread DEF QueueInv
<1>2. CASE Add
  <2>1. QueueOk(ready, pc, tagq, evq, "await") /\ pc = "none"
    BY <1>1, <1>2, Zenon DEF Add, Thread
  <2>2. ~Has(ready, "receiver") /\ (evq = <<>> \/ Has(ready, "consumer"))
    BY <2>1, Zenon DEF QueueOk, Loading
  <2>3. QueueOk(ready, "start", tagq, evq, "await")
    BY <2>1, <2>2, QueueMoves, Zenon
  <2>4. QueueOk(Append(ready, "receiver"), "start", tagq, evq, "await")
    BY <2>2, <2>3, QueueReceiver DEF Loading
  <2>5. QueueOk(Append(Append(ready, "receiver"), "reload"), "start", tagq, evq, "await")
    BY <2>4, QueueAppend, Zenon DEF Callbacks
  <2>6. /\ ready' = Append(Append(ready, "receiver"), "reload") /\ pc' = "start"
        /\ UNCHANGED <<tagq, evq>> /\ user'.pc = "await"
    BY <1>2, <2>2, UserFields DEF Add, Wake, Goto
  <2>. QED
    BY <2>5, <2>6 DEF QueueInv
<1>3. CASE CloseFlush \/ CloseAim \/ AwaitEvent \/ Restart \/ Close
  <2>1. user.pc # "await" /\ UNCHANGED <<ready, pc, tagq, evq>>
    BY <1>3 DEF CloseFlush, CloseAim, AwaitEvent, Restart, Close, Thread
  <2>. QED
    BY <1>1, <2>1, Zenon DEF QueueInv
<1>4. CASE CloseNl \/ RemoveSource
  <2>1. user.pc # "await" /\ UNCHANGED <<pc, tagq, evq>>
    BY <1>4 DEF CloseNl, RemoveSource, Thread
  <2>2. ready' = ready \/ ready' = Append(NoRead(ready), "lost")
    BY <1>4 DEF CloseNl, RemoveSource, CloseSocket
  <2>3. QueueOk(ready, pc, tagq, evq, user'.pc)
    BY <1>1, <2>1
  <2>4. QueueOk(Append(NoRead(ready), "lost"), pc, tagq, evq, user'.pc)
    BY <2>3, QueueClose
  <2>. QED
    BY <2>1, <2>2, <2>3, <2>4, Zenon DEF QueueInv
<1>. QED
  BY <1>2, <1>3, <1>4 DEF Calls, Begin

\* Without api() none of its steps is taken.
LEMMA NoApi ==
    ASSUME Inv
    PROVE  ~ApiCalls /\ ~ApiReturn
<1>1. ~ApiCalls
  BY Zenon DEF Inv, ApiCalls, ApiCall
<1>2. ~ApiReturn
  <2>. SUFFICES ASSUME ready # <<>>, Head(ready) = "api" PROVE FALSE
    BY Zenon DEF ApiReturn, Running
  <2>1. ready \in Seq(Callbacks)
    BY Zenon DEF Inv, QueueInv, QueueOk
  <2>2. Head(ready) \in Callbacks
    BY <2>1
  <2>. QED
    BY <2>2 DEF Callbacks
<1>. QED
  BY <1>1, <1>2

\* The order of callbacks is kept by every step.
LEMMA QueueStep == ASSUME Inv, Next PROVE QueueInv'
<1>1. CASE Socket
  BY <1>1, QueueSocket
<1>2. CASE Receiver
  BY <1>2, QueueReceives
<1>3. CASE Manager \/ Awake \/ Readable
  BY <1>3, QueueManager
<1>4. CASE Calls \/ Begin
  BY <1>4, QueueCalls
<1>5. CASE Changes \/ AnswerDump
  <2>1. UNCHANGED <<ready, pc, tagq, evq, user>>
    BY <1>5, Zenon DEF Changes, Change, AnswerDump
  <2>. QED
    BY <2>1 DEF QueueInv, Inv
<1>. QED
  BY <1>1, <1>2, <1>3, <1>4, <1>5, NoApi DEF Next, Loop, Kernel

-----------------------------------------------------------------------------
(* Every step keeps what is known of the socket. *)

\* A datagram is received behind the others.
LEMMA WireAppend ==
    ASSUME NEW w \in Seq(Dgram), NEW g \in Dgram
    PROVE  /\ Append(w, g) \in Seq(Dgram)
           /\ \A i \in DOMAIN w : i \in DOMAIN Append(w, g) /\ Append(w, g)[i] = w[i]
           /\ \A i \in DOMAIN Append(w, g) :
                 (i \in DOMAIN w /\ Append(w, g)[i] = w[i]) \/ (i = Len(w) + 1 /\ Append(w, g)[i] = g)
<1>1. /\ DOMAIN Append(w, g) = 1..(Len(w) + 1) /\ DOMAIN w = 1..Len(w) /\ Len(w) \in Nat
      /\ Append(w, g)[Len(w) + 1] = g /\ \A i \in 1..Len(w) : Append(w, g)[i] = w[i]
      /\ Append(w, g) \in Seq(Dgram)
  OBVIOUS
<1>2. \A i \in 1..(Len(w) + 1) : i \in 1..Len(w) \/ i = Len(w) + 1
  BY <1>1
<1>3. \A i \in 1..Len(w) : i \in 1..(Len(w) + 1)
  BY <1>1
<1>. QED
  BY <1>1, <1>2, <1>3, Zenon

\* Reading takes the first datagram.
LEMMA WireTail ==
    ASSUME NEW w \in Seq(Dgram), w # <<>>
    PROVE  /\ Tail(w) \in Seq(Dgram) /\ 1 \in DOMAIN w /\ w[1] = Head(w)
           /\ \A i \in DOMAIN Tail(w) : i \in Nat \ {0} /\ i + 1 \in DOMAIN w /\ Tail(w)[i] = w[i + 1]
  OBVIOUS

\* A datagram has a queue to go to and records.
LEMMA DatagramType ==
    ASSUME NEW to \in {"root", "dump"}, NEW rs \in Seq(Rec)
    PROVE  Datagram(to, rs) \in Dgram /\ Datagram(to, rs).to = to /\ Datagram(to, rs).recs = rs
  BY Zenon DEF Datagram, Dgram

\* Both dumps are those of the system.
LEMMA RecordsOf ==
    ASSUME kernel \in Db
    PROVE  /\ DumpOf(Records(kernel, Links), kernel, Links)
           /\ DumpOf(Records(kernel, Children), kernel, Children)
           /\ Records(kernel, Links) \in Seq(Rec) /\ Records(kernel, Children) \in Seq(Rec)
<1>1. DumpOf(Records(kernel, Links), kernel, Links)
  BY RecordsFacts DEF Objs
<1>2. DumpOf(Records(kernel, Children), kernel, Children)
  BY RecordsFacts DEF Objs
<1>. QED
  BY <1>1, <1>2, Zenon DEF DumpOf

\* The kernel answers a dump once, to the request that waits.
LEMMA SocketKernel == ASSUME Inv, Changes \/ AnswerDump PROVE SocketInv'
<1>. USE DEF Inv
<1>0. wire \in Seq(Dgram) /\ kernel \in Db
  BY Zenon DEF SocketInv, Consistent
<1>1. ASSUME NEW o \in Objs, NEW v \in Values, Change(o, v) PROVE SocketInv'
  <2>1. UNCHANGED <<pc, tagq, dump, root>>
    BY <1>1 DEF Change
  <2>2. CASE wire' = wire
    <3>1. nl' = nl \/ (nl' = [nl EXCEPT !.overrun = TRUE] /\ nl.bound)
      BY <1>1 DEF Change
    <3>2. CASE nl' = nl
      BY <2>1, <2>2, <3>2, Zenon DEF SocketInv, NoDump
    <3>3. CASE nl' = [nl EXCEPT !.overrun = TRUE] /\ nl.bound
      <4>1. /\ nl' \in [open : BOOLEAN, bound : BOOLEAN, err : BOOLEAN, overrun : BOOLEAN]
            /\ nl'.open = nl.open /\ nl'.bound = nl.bound
        BY <3>3, Zenon DEF SocketInv
      <4>2. ~(pc = "endpoint" /\ nl.open)
        BY <3>3 DEF SocketInv, NewSocket, NoSocket
      <4>. QED
        BY <2>1, <2>2, <4>1, <4>2, Zenon DEF SocketInv, NoDump
    <3>. QED
      BY <3>1, <3>2, <3>3
  <2>3. CASE wire' # wire
    <3>. DEFINE g == Datagram("root", <<<<o, v>>>>)
    <3>1. nl' = nl /\ nl.open /\ nl.bound /\ wire' = Append(wire, g)
      BY <1>1, <2>3 DEF Change
    <3>2. <<<<o, v>>>> \in Seq(Rec)
      BY ObjFacts DEF Rec
    <3>3. g \in Dgram /\ g.to = "root"
      BY <3>2, DatagramType, Zenon
    <3>. HIDE DEF g
    <3>4. /\ wire' \in Seq(Dgram)
          /\ \A i \in DOMAIN wire' : wire'[i].to = "dump" => i \in DOMAIN wire /\ wire'[i] = wire[i]
      BY <1>0, <3>1, <3>3, WireAppend, Zenon
    <3>5. ~(pc = "endpoint" /\ nl.open)
      BY <3>1 DEF SocketInv, NewSocket, NoSocket
    <3>. QED
      BY <2>1, <3>1, <3>4, <3>5 DEF SocketInv, NoDump
  <2>. QED
    BY <2>2, <2>3
<1>2. CASE AnswerDump
  <2>. DEFINE rs == Records(kernel, IF dump = "links" THEN Links ELSE Children)
              g == Datagram("dump", rs)
  <2>1. /\ wire' = Append(wire, g) /\ dump # "none" /\ dump' = "none"
        /\ UNCHANGED <<pc, tagq, nl, root>>
    BY <1>2, Zenon DEF AnswerDump
  <2>2. rs \in Seq(Rec)
    BY <1>0, RecordsOf, Zenon
  <2>3. g \in Dgram /\ g.to = "dump"
    BY <2>2, DatagramType, Zenon
  <2>. HIDE DEF g
  <2>4. /\ wire' \in Seq(Dgram)
        /\ \A i \in DOMAIN wire' : (i \in DOMAIN wire /\ wire'[i] = wire[i]) \/ i = Len(wire) + 1
    BY <1>0, <2>1, <2>3, WireAppend, Zenon
  <2>5. pc \in Loading /\ NoDump /\ tagq = <<>> /\ nl.open
    BY <2>1, Zenon DEF SocketInv
  <2>6. \A i \in DOMAIN wire' : wire'[i].to = "dump" => i = Len(wire) + 1
    BY <2>4, <2>5 DEF NoDump
  <2>7. pc # "endpoint"
    BY <2>5 DEF Loading
  <2>. QED
    BY <2>1, <2>4, <2>5, <2>6, <2>7, Zenon DEF SocketInv
<1>. QED
  BY <1>1, <1>2 DEF Changes

\* Reading the socket keeps at most one answer under way.
LEMMA SocketReads == ASSUME Inv, Socket PROVE SocketInv'
<1>. USE DEF Inv
<1>1. CASE ReadDatagram
  <2>1. wire \in Seq(Dgram) /\ wire # <<>> /\ wire' = Tail(wire) /\ UNCHANGED <<pc, nl, dump>>
    BY <1>1, Zenon DEF ReadDatagram, SocketInv
  <2>2. /\ wire' \in Seq(Dgram) /\ 1 \in DOMAIN wire /\ wire[1] = Head(wire)
        /\ \A i \in DOMAIN wire' : i \in Nat \ {0} /\ i + 1 \in DOMAIN wire /\ wire'[i] = wire[i + 1]
    BY <2>1, WireTail, Zenon
  <2>3. nl.open
    BY <2>1, Zenon DEF SocketInv
  <2>4. pc # "endpoint"
    BY <2>1, <2>3, Zenon DEF SocketInv
  <2>5. \A i, j \in DOMAIN wire' : wire'[i].to = "dump" /\ wire'[j].to = "dump" => i = j
    <3>. SUFFICES ASSUME NEW i \in DOMAIN wire', NEW j \in DOMAIN wire',
                         wire'[i].to = "dump", wire'[j].to = "dump"
                  PROVE  i = j
      BY Zenon
    <3>1. wire[i + 1].to = "dump" /\ wire[j + 1].to = "dump" /\ i + 1 \in DOMAIN wire /\ j + 1 \in DOMAIN wire
      BY <2>2, Zenon
    <3>2. i + 1 = j + 1
      BY <3>1, Zenon DEF SocketInv
    <3>. QED
      BY <2>2, <3>2
  <2>6. NoDump => NoDump'
    BY <2>2, Zenon DEF NoDump
  <2>7. CASE Head(wire).to = "root"
    <3>1. tagq' = tagq
      BY <1>1, <2>7, Zenon DEF ReadDatagram
    <3>. QED
      BY <2>1, <2>2, <2>3, <2>4, <2>5, <2>6, <3>1, Zenon DEF SocketInv
  <2>8. CASE Head(wire).to = "dump"
    <3>1. tagq' = <<Head(wire).recs>>
      BY <1>1, <2>8, Zenon DEF ReadDatagram
    <3>2. pc \in Loading /\ tagq = <<>> /\ Head(wire).recs \in Seq(Rec)
      BY <2>1, <2>8, HeadOfWire, Zenon
    <3>3. tagq' \in Seq(Seq(Rec)) /\ Len(tagq') = 1
      BY <3>1, <3>2
    <3>4. NoDump'
      <4>. SUFFICES ASSUME NEW i \in DOMAIN wire', wire'[i].to = "dump" PROVE FALSE
        BY Zenon DEF NoDump
      <4>1. i + 1 = 1
        BY <2>2, <2>8, Zenon DEF SocketInv
      <4>. QED
        BY <2>2, <4>1
    <3>5. ~NoDump
      BY <2>2, <2>8, Zenon DEF NoDump
    <3>6. dump = "none"
      BY <3>5, Zenon DEF SocketInv
    <3>. QED
      BY <2>1, <2>2, <2>3, <2>4, <2>5, <3>2, <3>3, <3>4, <3>6 DEF SocketInv
  <2>. QED
    BY <1>1, <2>7, <2>8, HeadOfWire, Zenon DEF ReadDatagram
<1>2. CASE ReadOverrun
  <2>1. /\ nl' = [nl EXCEPT !.overrun = FALSE, !.err = TRUE] /\ nl.overrun
        /\ UNCHANGED <<pc, wire, tagq, dump>>
    BY <1>2 DEF ReadOverrun
  <2>2. /\ nl' \in [open : BOOLEAN, bound : BOOLEAN, err : BOOLEAN, overrun : BOOLEAN]
        /\ nl'.open = nl.open /\ nl'.bound = nl.bound
    BY <2>1, Zenon DEF SocketInv
  <2>3. ~(pc = "endpoint" /\ nl.open)
    BY <2>1 DEF SocketInv, NewSocket, NoSocket
  <2>. QED
    BY <2>1, <2>2, <2>3 DEF SocketInv, NoDump
<1>3. CASE ConnectionLost
  <2>1. UNCHANGED <<pc, wire, tagq, dump, nl>> /\ (nl.open => root' = root)
    BY <1>3, Zenon DEF ConnectionLost
  <2>. QED
    BY <2>1, Zenon DEF SocketInv, NoDump
<1>. QED
  BY <1>1, <1>2, <1>3 DEF Socket

\* The receiver asks for the next dump when the answer to the last one is
\* taken.
LEMMA SocketReceives == ASSUME Inv, Receiver PROVE SocketInv'
<1>. USE DEF Inv
<1>0. /\ NewSocket \in [open : BOOLEAN, bound : BOOLEAN, err : BOOLEAN, overrun : BOOLEAN]
      /\ NoSocket \in [open : BOOLEAN, bound : BOOLEAN, err : BOOLEAN, overrun : BOOLEAN]
      /\ NewSocket.open /\ ~NoSocket.open
  BY Zenon DEF NewSocket, NoSocket
<1>1. ASSUME wire' = <<>>, tagq' = <<>>, dump' = "none", root' = <<>>,
             \/ nl' = NewSocket /\ pc' = "endpoint"
             \/ nl' = NoSocket /\ pc' = "failed"
      PROVE  SocketInv'
  <2>1. wire' \in Seq(Dgram) /\ tagq' \in Seq(Seq(Rec)) /\ Len(tagq') = 0 /\ DOMAIN wire' = {}
    BY <1>1
  <2>2. pc' \notin Loading \cup {"reading"}
    BY <1>1 DEF Loading
  <2>. QED
    BY <1>0, <1>1, <2>1, <2>2 DEF SocketInv, NoDump
<1>2. CASE ReceiverConnect
  BY <1>1, <1>2 DEF ReceiverConnect
<1>3. CASE ReceiverConnectFails
  BY <1>1, <1>3 DEF ReceiverConnectFails, FailLoading
<1>4. CASE ReceiverBind
  <2>1. /\ pc = "endpoint" /\ nl.open /\ nl' = [nl EXCEPT !.bound = TRUE] /\ dump' = "links"
        /\ pc' = "links" /\ UNCHANGED <<wire, root, tagq>>
    BY <1>4 DEF ReceiverBind, AtReceiver
  <2>2. wire = <<>> /\ tagq = <<>>
    BY <2>1 DEF SocketInv, Loading
  <2>3. /\ nl' \in [open : BOOLEAN, bound : BOOLEAN, err : BOOLEAN, overrun : BOOLEAN]
        /\ nl'.open /\ nl'.bound
    BY <2>1, Zenon DEF SocketInv
  <2>4. pc' \in Loading /\ pc' # "endpoint"
    BY <2>1 DEF Loading
  <2>5. wire' \in Seq(Dgram) /\ tagq' \in Seq(Seq(Rec)) /\ Len(tagq') = 0 /\ DOMAIN wire' = {}
    BY <2>1, <2>2
  <2>. QED
    BY <2>1, <2>2, <2>3, <2>4, <2>5 DEF SocketInv, NoDump
<1>5. CASE ReceiverBindFails
  <2>1. pc = "endpoint" /\ pc' = "failed" /\ UNCHANGED <<nl, wire, root, tagq, dump>> /\ ~nl.open
    BY <1>5, Zenon DEF ReceiverBindFails, AtReceiver, FailLoading
  <2>2. wire = <<>> /\ dump = "none" /\ tagq = <<>>
    BY <2>1, Zenon DEF SocketInv, Loading
  <2>3. pc' \notin Loading \cup {"reading", "endpoint"}
    BY <2>1, Zenon DEF Loading
  <2>. QED
    BY <2>1, <2>2, <2>3 DEF SocketInv, NoDump
<1>6. ASSUME NEW p, AtReceiver(p), p \in Loading
      PROVE  tagq # <<>> /\ NoDump /\ dump = "none" /\ nl.bound
  <2>1. pc = p /\ Has(ready, "receiver")
    BY <1>6, RunningRest, Zenon DEF AtReceiver
  <2>2. tagq # <<>>
    BY <1>6, <2>1, Zenon DEF QueueInv, QueueOk
  <2>. QED
    BY <1>6, <2>1, <2>2, Zenon DEF SocketInv
<1>7. ASSUME NEW p, AtReceiver(p), p \in Loading \cup {"reading"},
             tagq' = <<>>, UNCHANGED <<nl, wire>>,
             \/ dump' = "children" /\ pc' = "children" /\ nl.open
             \/ dump' = dump /\ pc' \in {"reading", "failed"}
      PROVE  SocketInv'
  <2>1. NoDump /\ dump = "none" /\ nl.bound
    <3>1. CASE p \in Loading
      BY <1>6, <1>7, <3>1, Zenon
    <3>2. CASE p = "reading"
      BY <1>7, <3>2, Zenon DEF SocketInv, AtReceiver, Loading
    <3>. QED
      BY <1>7, <3>1, <3>2, Zenon
  <2>2. tagq' \in Seq(Seq(Rec)) /\ Len(tagq') = 0
    BY <1>7
  <2>3. NoDump'
    BY <1>7, <2>1, Zenon DEF NoDump
  <2>. QED
    BY <1>7, <2>1, <2>2, <2>3 DEF SocketInv, Loading
<1>8. CASE ReceiverLinks
  <2>1. AtReceiver("links") /\ tagq' = <<>> /\ UNCHANGED <<nl, wire>>
    BY <1>8, Zenon DEF ReceiverLinks
  <2>2. \/ dump' = "children" /\ pc' = "children" /\ nl.open
        \/ dump' = dump /\ pc' \in {"reading", "failed"}
    BY <1>8, Zenon DEF ReceiverLinks, FailLoading
  <2>. QED
    BY <1>7, <2>1, <2>2, Zenon DEF Loading
<1>9. CASE ReceiverChildren
  <2>1. AtReceiver("children") /\ tagq' = <<>> /\ UNCHANGED <<nl, wire, dump>>
    BY <1>9, Zenon DEF ReceiverChildren
  <2>2. pc' \in {"reading", "failed"}
    BY <1>9, Zenon DEF ReceiverChildren, Forward
  <2>. QED
    BY <1>7, <2>1, <2>2 DEF Loading
<1>10. CASE ReceiverEvents
  <2>1. AtReceiver("reading") /\ UNCHANGED <<nl, wire, dump, tagq>>
    BY <1>10 DEF ReceiverEvents
  <2>2. pc' \in {"reading", "failed"}
    BY <1>10, Zenon DEF ReceiverEvents, Forward
  <2>3. tagq = <<>>
    BY <2>1, Zenon DEF AtReceiver, SocketInv, Loading
  <2>. QED
    BY <1>7, <2>1, <2>2, <2>3, Zenon DEF Loading
<1>. QED
  BY <1>2, <1>3, <1>4, <1>5, <1>8, <1>9, <1>10, Zenon DEF Receiver

\* No other step touches requests and answers, but for closing the socket.
LEMMA SocketOthers == ASSUME Inv, Manager \/ Awake \/ Readable \/ Calls \/ Begin PROVE SocketInv'
<1>. USE DEF Inv
<1>1. CASE UNCHANGED <<pc, nl, wire, tagq, dump, root>>
  BY <1>1, Zenon DEF SocketInv, NoDump
<1>2. CASE LoadEvents \/ Reload \/ Completed \/ Awake \/ Readable
  BY <1>1, <1>2, Zenon DEF LoadEvents, Reload, Completed, Awake, Readable
<1>3. ASSUME UNCHANGED <<nl, wire, tagq, dump, root>>, pc \in {"none", "failed"},
             pc' \in {"start", "none", "failed"}
      PROVE  SocketInv'
  <2>1. pc \notin Loading \cup {"reading", "endpoint"} /\ pc' \notin Loading \cup {"reading", "endpoint"}
    BY <1>3, Zenon DEF Loading
  <2>. QED
    BY <1>3, <2>1, Zenon DEF SocketInv, NoDump
<1>4. CASE TaskWatch
  <2>1. /\ UNCHANGED <<nl, wire, tagq, dump, root>>
        /\ pc' = pc \/ (pc = "failed" /\ pc' \in {"start", "none"})
    BY <1>4 DEF TaskWatch
  <2>. QED
    BY <1>1, <1>3, <2>1, Zenon
<1>5. CASE Add
  BY <1>3, <1>5, Zenon DEF Add
<1>6. CASE CloseFlush \/ CloseAim \/ AwaitEvent \/ Restart \/ Close
  BY <1>1, <1>6 DEF CloseFlush, CloseAim, AwaitEvent, Restart, Close
<1>7. CASE CloseNl \/ RemoveSource
  <2>1. UNCHANGED <<pc, tagq, root>>
    BY <1>7 DEF CloseNl, RemoveSource
  <2>2. \/ UNCHANGED <<nl, wire, dump>>
        \/ nl' = [nl EXCEPT !.open = FALSE] /\ wire' = <<>> /\ dump' = "none"
    BY <1>7 DEF CloseNl, RemoveSource, CloseSocket
  <2>3. CASE UNCHANGED <<nl, wire, dump>>
    BY <1>1, <2>1, <2>3, Zenon
  <2>4. CASE nl' = [nl EXCEPT !.open = FALSE] /\ wire' = <<>> /\ dump' = "none"
    <3>1. /\ nl' \in [open : BOOLEAN, bound : BOOLEAN, err : BOOLEAN, overrun : BOOLEAN]
          /\ ~nl'.open /\ nl'.bound = nl.bound
      BY <2>4, Zenon DEF SocketInv
    <3>2. wire' \in Seq(Dgram) /\ DOMAIN wire' = {}
      BY <2>4
    <3>. QED
      BY <2>1, <2>4, <3>1, <3>2 DEF SocketInv, NoDump
  <2>. QED
    BY <2>2, <2>3, <2>4
<1>. QED
  BY <1>2, <1>4, <1>5, <1>6, <1>7 DEF Manager, Calls, Begin

\* Requests, answers and the state of the receiver fit each other after every
\* step.
LEMMA SocketStep == ASSUME Inv, Next PROVE SocketInv'
<1>. QED
  BY NoApi, SocketKernel, SocketReads, SocketReceives, SocketOthers, Zenon DEF Next, Loop, Kernel

\* The environment is fixed; the system is consistent; the thread is at one of
\* its places.
LEMMA OthersStep == ASSUME Inv, Next PROVE ("api" \notin env)' /\ Consistent(kernel)' /\ UserInv' /\ ApiInv'
<1>. USE DEF Inv
<1>. USE DEF Next, Loop, Kernel, Socket, Receiver, Manager, Calls, Begin
<1>1. env' = env
  <2>1. CASE Socket \/ Manager \/ Awake \/ Kernel
    BY <2>1, NoApi, Zenon DEF ReadDatagram, ReadOverrun, ConnectionLost, LoadEvents, Reload, Completed,
         TaskWatch, Awake, AnswerDump, Readable
  <2>2. CASE Receiver
    BY <2>2, Zenon DEF ReceiverConnect, ReceiverConnectFails, ReceiverBind, ReceiverBindFails,
         ReceiverLinks, ReceiverChildren, ReceiverEvents
  <2>3. CASE Calls \/ Begin \/ Changes
    BY <2>3, Zenon DEF Add, CloseFlush, CloseAim, CloseNl, AwaitEvent, Restart, Close, RemoveSource,
         Changes, Change
  <2>. QED
    BY <2>1, <2>2, <2>3, NoApi, Zenon
<1>2. Consistent(kernel)'
  <2>1. CASE Changes
    <3>1. PICK o \in Objs, v \in Values : Change(o, v)
      BY <2>1 DEF Changes
    <3>2. kernel' = Put(kernel, o, v) /\ Allowed(kernel, o, v)
      BY <3>1, Zenon DEF Change, SetKernel, May, Allowed
    <3>3. Consistent(Put(kernel, o, v))
      BY <3>2, ConsistentStep, Zenon
    <3>4. Consistent(kernel')
      BY <3>2, <3>3, Zenon
    <3>. QED
      BY <3>4, Zenon DEF Consistent, View
  <2>2. CASE ~Changes
    <3>1. kernel' = kernel
      <4>1. CASE Socket \/ Manager \/ Awake \/ Kernel
        BY <4>1, NoApi, Zenon DEF ReadDatagram, ReadOverrun, ConnectionLost, LoadEvents, Reload, Completed,
             TaskWatch, Awake, AnswerDump, Readable
      <4>2. CASE Receiver
        BY <4>2, Zenon DEF ReceiverConnect, ReceiverConnectFails, ReceiverBind, ReceiverBindFails,
             ReceiverLinks, ReceiverChildren, ReceiverEvents
      <4>3. CASE Calls \/ Begin
        BY <4>3, Zenon DEF Add, CloseFlush, CloseAim, CloseNl, AwaitEvent, Restart, Close, RemoveSource
      <4>. QED
        BY <2>2, <4>1, <4>2, <4>3, NoApi, Zenon
    <3>. QED
      BY <3>1, Zenon DEF Consistent, View
  <2>. QED
    BY <2>1, <2>2
<1>3. UserInv'
  <2>1. CASE user' = user
    BY <2>1, Zenon DEF UserInv
  <2>2. CASE Socket \/ Manager \/ Kernel \/ Changes
    <3>1. user' = user
      BY <2>2, NoApi, Zenon DEF ReadDatagram, ReadOverrun, ConnectionLost, LoadEvents, Reload, Completed,
           TaskWatch, AnswerDump, Readable, Changes, Change
    <3>. QED
      BY <2>1, <3>1, Zenon
  <2>3. CASE Receiver
    <3>1. user' = user \/ user' = [user EXCEPT !.aimed = FALSE]
      BY <2>3, Zenon DEF ReceiverConnect, ReceiverConnectFails, ReceiverBind, ReceiverBindFails,
           ReceiverLinks, ReceiverChildren, ReceiverEvents
    <3>. QED
      BY <3>1, Zenon DEF UserInv
  <2>4. CASE Awake
    BY <2>4, Zenon DEF Awake, UserInv
  <2>5. CASE Add \/ CloseFlush \/ AwaitEvent
    BY <2>5, Zenon DEF Add, CloseFlush, AwaitEvent, Goto, UserInv
  <2>6. CASE CloseAim \/ CloseNl
    BY <2>6, Zenon DEF CloseAim, CloseNl, UserInv
  <2>7. CASE Begin
    BY <2>7, Zenon DEF Restart, Close, RemoveSource, UserInv
  <2>. QED
    BY <2>2, <2>3, <2>4, <2>5, <2>6, <2>7, NoApi, Zenon
<1>4. ApiInv'
  <2>1. CASE Socket \/ Manager \/ Awake \/ Kernel
    BY <2>1, NoApi, Zenon DEF ReadDatagram, ReadOverrun, ConnectionLost, LoadEvents, Reload, Completed,
         TaskWatch, Awake, AnswerDump, Readable, ApiInv
  <2>2. CASE Receiver
    BY <2>2, Zenon DEF ReceiverConnect, ReceiverConnectFails, ReceiverBind, ReceiverBindFails,
         ReceiverLinks, ReceiverChildren, ReceiverEvents, Abandon, ApiInv
  <2>3. CASE Calls \/ Begin \/ Changes
    BY <2>3, Zenon DEF Add, CloseFlush, CloseAim, CloseNl, AwaitEvent, Restart, Close, RemoveSource,
         Changes, Change, ApiInv
  <2>. QED
    BY <2>1, <2>2, <2>3, NoApi, Zenon
<1>. QED
  BY <1>1, <1>2, <1>3, <1>4

-----------------------------------------------------------------------------
(* Every step keeps what relates the database to the system. *)

Live == Loading \cup {"reading"}

\* Types, while the socket is bound and nothing was lost.
LEMMA LiveFacts ==
    ASSUME Inv, Fresh, pc \in Live
    PROVE  /\ db \in Db /\ evq \in Seq(Ev) /\ root \in Seq(Rec) /\ wire \in Seq(Dgram)
           /\ Events(wire) \in Seq(Rec) /\ Arrived \in Seq(Rec) /\ Arrived \in Seq(Ev)
           /\ Loaded \in Db /\ nl.bound /\ Consistent(kernel) /\ kernel \in Db
<1>1. db \in Db /\ evq \in Seq(Ev) /\ root \in Seq(Rec) /\ wire \in Seq(Dgram) /\ nl.bound
  BY Zenon DEF Inv, LoadInv, SocketInv, Live
<1>2. Events(wire) \in Seq(Rec)
  BY <1>1, EventsType, Zenon
<1>. DEFINE a == Events(wire)
<1>. HIDE DEF a
<1>3. root \o a \in Seq(Rec)
  BY <1>1, <1>2 DEF a
<1>4. Arrived \in Seq(Rec)
  BY <1>3 DEF a, Arrived
<1>5. Arrived \in Seq(Ev)
  BY <1>4, RecSeqIsEvSeq
<1>6. Loaded \in Db
  BY <1>1, ReplayType, Zenon DEF Loaded
<1>. QED
  BY <1>1, <1>2, <1>4, <1>5, <1>6, Zenon DEF Inv, Consistent

\* A socket that is sound after a step that leaves it alone was sound before.
LEMMA FreshStays ==
    ASSUME UNCHANGED <<nl, user>>, Fresh'
    PROVE  Fresh
  BY Zenon DEF Fresh, Sound

\* The system changes.
LEMMA LoadChanges == ASSUME Inv, Changes PROVE LoadInv'
<1>. USE DEF Inv
<1>0. PICK o \in Objs, v \in Values : Change(o, v)
  BY Zenon DEF Changes
<1>. DEFINE g == Datagram("root", <<<<o, v>>>>)
<1>1. /\ UNCHANGED <<pc, dump, db, evq, root, tagq, user>> /\ kernel' = Put(kernel, o, v)
      /\ Allowed(kernel, o, v)
  BY <1>0 DEF Change, SetKernel, May, Allowed
<1>. SUFFICES ASSUME Fresh', pc \in Live PROVE LoadInv'
  BY <1>1, Zenon DEF LoadInv, Live, Loading
<1>2. nl' = nl /\ Fresh
  <2>1. ~nl'.overrun
    BY Zenon DEF Fresh
  <2>2. nl' = nl \/ nl' = [nl EXCEPT !.overrun = TRUE]
    BY <1>0 DEF Change
  <2>3. nl' # [nl EXCEPT !.overrun = TRUE]
    BY <2>1 DEF SocketInv
  <2>. QED
    BY <1>1, <2>2, <2>3 DEF Fresh, Sound
<1>3. wire' = Append(wire, g)
  <2>1. nl.open /\ nl.bound
    BY <1>2, LiveFacts, Zenon DEF Fresh
  <2>2. ~nl.overrun /\ nl'.overrun = nl.overrun
    BY <1>2, Zenon DEF Fresh
  <2>3. nl # [nl EXCEPT !.overrun = TRUE]
    BY <2>2 DEF SocketInv
  <2>. QED
    BY <1>0, <1>2, <2>1, <2>3 DEF Change
<1>4. <<<<o, v>>>> \in Seq(Rec) /\ <<o, v>> \in Rec
  BY ObjFacts DEF Rec
<1>5. g \in Dgram /\ g.to = "root" /\ g.recs = <<<<o, v>>>>
  BY <1>4, DatagramType, Zenon
<1>. HIDE DEF g
<1>6. \A i \in DOMAIN wire' : wire'[i].to = "dump" => i \in DOMAIN wire /\ wire'[i] = wire[i]
  <2>1. wire \in Seq(Dgram)
    BY <1>2, LiveFacts, Zenon
  <2>. QED
    BY <1>3, <1>5, <2>1, WireAppend
<1>7. Arrived' = Append(Arrived, <<o, v>>)
  <2>1. Events(wire') = Events(wire) \o <<<<o, v>>>>
    BY <1>2, <1>3, <1>5, LiveFacts, EventsAppend, Zenon DEF Gather
  <2>. DEFINE a == Events(wire)
              e == <<o, v>>
  <2>2. a \in Seq(Rec) /\ root \in Seq(Rec) /\ e \in Rec
    BY <1>2, <1>4, LiveFacts, Zenon
  <2>. HIDE DEF a, e
  <2>3. root \o (a \o <<e>>) = Append(root \o a, e)
    BY <2>2
  <2>. QED
    BY <1>1, <2>1, <2>3, Zenon DEF a, e, Arrived
<1>8. Loaded' = Loaded
  BY <1>1, Zenon DEF Loaded
<1>9. Undumped(kernel, Arrived) => Undumped(kernel', Arrived')
  BY <1>1, <1>2, <1>7, LiveFacts, UndumpedStep, Zenon
<1>10. \A d : LinksDumped(kernel, Arrived, d) => LinksDumped(kernel', Arrived', d)
  BY <1>1, <1>2, <1>7, LiveFacts, LinksDumpedStep, Zenon
<1>11. \A d : Dumped(kernel, Arrived, d) => Dumped(kernel', Arrived', d)
  BY <1>1, <1>2, <1>7, LiveFacts, DumpedStep, Zenon
<1>12. LoadInv /\ Fresh
  BY <1>2, Zenon
<1>. QED
  BY <1>1, <1>6, <1>8, <1>9, <1>10, <1>11, <1>12, Zenon DEF LoadInv

\* The kernel answers a dump with what it has then.
LEMMA LoadAnswer == ASSUME Inv, AnswerDump PROVE LoadInv'
<1>. USE DEF Inv
<1>. DEFINE rs == Records(kernel, IF dump = "links" THEN Links ELSE Children)
            g == Datagram("dump", rs)
<1>1. /\ UNCHANGED <<pc, db, evq, root, tagq, user, nl, kernel>> /\ dump # "none"
      /\ dump' = "none" /\ wire' = Append(wire, g)
  BY Zenon DEF AnswerDump
<1>2. pc = dump /\ pc \in Loading /\ NoDump /\ tagq = <<>>
  BY <1>1, Zenon DEF SocketInv
<1>. SUFFICES ASSUME Fresh' PROVE LoadInv'
  BY Zenon DEF LoadInv
<1>3. Fresh /\ pc \in Live
  BY <1>1, <1>2, Zenon DEF Fresh, Sound, Live
<1>4. rs \in Seq(Rec)
  BY <1>3, LiveFacts, RecordsOf, Zenon
<1>5. g \in Dgram /\ g.to = "dump" /\ g.recs = rs
  BY <1>4, DatagramType, Zenon
<1>. HIDE DEF g
<1>6. \A i \in DOMAIN wire' : wire'[i].to = "dump" => wire'[i].recs = rs
  <2>1. wire \in Seq(Dgram)
    BY <1>3, LiveFacts, Zenon
  <2>2. \A i \in DOMAIN wire' : (i \in DOMAIN wire /\ wire'[i] = wire[i]) \/ wire'[i] = g
    BY <1>1, <1>5, <2>1, WireAppend, Zenon
  <2>. QED
    BY <1>2, <1>5, <2>2, Zenon DEF NoDump
<1>7. Arrived' = Arrived /\ Loaded' = Loaded
  <2>1. Events(wire') = Events(wire)
    BY <1>1, <1>3, <1>5, LiveFacts, EventsAppend, Zenon DEF Gather
  <2>. QED
    BY <1>1, <2>1, Zenon DEF Arrived, Loaded
<1>8. ASSUME pc = "links" PROVE LinksDumped(kernel, Arrived, Replay(Loaded, rs))
  <2>1. Loaded = ZeroOnly /\ Undumped(kernel, Arrived)
    BY <1>2, <1>3, <1>8, Zenon DEF LoadInv
  <2>2. DumpOf(rs, kernel, Links)
    BY <1>2, <1>3, <1>8, LiveFacts, RecordsOf, Zenon
  <2>. QED
    BY <1>3, <2>1, <2>2, LiveFacts, DumpLinks, Zenon
<1>9. ASSUME pc = "children" PROVE Dumped(kernel, Arrived, Replay(Loaded, rs))
  <2>1. LinksDumped(kernel, Arrived, Loaded)
    BY <1>2, <1>3, <1>9, Zenon DEF LoadInv
  <2>2. DumpOf(rs, kernel, Children)
    BY <1>2, <1>3, <1>9, LiveFacts, RecordsOf, Zenon
  <2>. QED
    BY <1>3, <2>1, <2>2, LiveFacts, DumpChildren, Zenon
<1>10. pc # "reading"
  BY <1>2, Zenon DEF Loading
<1>. HIDE DEF rs
<1>. QED
  BY <1>1, <1>2, <1>3, <1>6, <1>7, <1>8, <1>9, <1>10, Zenon DEF LoadInv

\* A datagram that is read keeps its place among what was received.
LEMMA ArrivedKept ==
    ASSUME Inv, ReadDatagram, Fresh, pc \in Live
    PROVE  Arrived' = Arrived /\ root' \in Seq(Rec)
<1>1. wire' = Tail(wire) /\ wire # <<>> /\ wire \in Seq(Dgram) /\ SocketInv
  BY Zenon DEF ReadDatagram, Inv, SocketInv
<1>2. wire' \in Seq(Dgram)
  BY <1>1, WireTail, Zenon
<1>3. Events(wire) = Gather(<<>>, Head(wire)) \o Events(wire')
  BY <1>1, EventsHead, Zenon
<1>. DEFINE a == Events(wire')
            b == Head(wire).recs
<1>4. a \in Seq(Rec) /\ b \in Seq(Rec) /\ root \in Seq(Rec)
  BY <1>1, <1>2, LiveFacts, EventsType, HeadOfWire, Zenon
<1>5. CASE Head(wire).to = "root"
  <2>1. root' = root \o b
    BY <1>5, Zenon DEF ReadDatagram
  <2>. HIDE DEF a, b
  <2>2. (root \o b) \o a = root \o ((<<>> \o b) \o a) /\ root \o b \in Seq(Rec)
    BY <1>4
  <2>3. Gather(<<>>, Head(wire)) = <<>> \o b
    BY <1>5 DEF Gather, b
  <2>. QED
    BY <1>3, <2>1, <2>2, <2>3, Zenon DEF Arrived, a
<1>6. CASE Head(wire).to = "dump"
  <2>1. root' = root
    BY <1>6, Zenon DEF ReadDatagram
  <2>. HIDE DEF a, b
  <2>2. <<>> \o a = a
    BY <1>4
  <2>3. Gather(<<>>, Head(wire)) = <<>>
    BY <1>6 DEF Gather
  <2>. QED
    BY <1>3, <1>4, <2>1, <2>2, <2>3, Zenon DEF Arrived, a
<1>. QED
  BY <1>1, <1>5, <1>6, HeadOfWire, Zenon

\* Reading a datagram moves it from the socket to a queue.
LEMMA LoadDatagram == ASSUME Inv, ReadDatagram PROVE LoadInv'
<1>. USE DEF Inv
<1>1. UNCHANGED <<pc, db, evq, dump, user, nl, kernel>> /\ wire' = Tail(wire) /\ wire # <<>>
  BY Zenon DEF ReadDatagram
<1>. SUFFICES ASSUME Fresh', pc \in Live PROVE LoadInv'
  BY <1>1, Zenon DEF LoadInv, Live, Loading
<1>2. Fresh
  BY <1>1, FreshStays, Zenon
<1>3. /\ \A i \in DOMAIN wire' : i + 1 \in DOMAIN wire /\ wire'[i] = wire[i + 1]
      /\ 1 \in DOMAIN wire /\ wire[1] = Head(wire)
  BY <1>1, <1>2, LiveFacts, WireTail, Zenon
<1>4. Loaded' = Loaded
  BY <1>1, Zenon DEF Loaded
<1>5. Arrived' = Arrived /\ root' \in Seq(Rec)
  BY <1>2, ArrivedKept, Zenon
<1>6. CASE Head(wire).to = "root"
  <2>1. tagq' = tagq
    BY <1>6, Zenon DEF ReadDatagram
  <2>. QED
    BY <1>1, <1>2, <1>3, <1>4, <1>5, <2>1, Zenon DEF LoadInv
<1>7. CASE Head(wire).to = "dump"
  <2>1. tagq' = <<Head(wire).recs>>
    BY <1>7, Zenon DEF ReadDatagram
  <2>2. \A i \in DOMAIN tagq' : tagq'[i] = wire[1].recs
    BY <1>3, <2>1
  <2>3. wire[1].to = "dump" /\ 1 \in DOMAIN wire
    BY <1>3, <1>7, Zenon
  <2>. QED
    BY <1>1, <1>2, <1>3, <1>4, <1>5, <2>2, <2>3, Zenon DEF LoadInv
<1>. QED
  BY <1>1, <1>6, <1>7, HeadOfWire, Zenon

\* bind(), flush() and the request for the first dump
LEMMA LoadBind == ASSUME Inv, ReceiverBind PROVE LoadInv'
<1>. USE DEF Inv
<1>1. /\ pc = "endpoint" /\ nl.open /\ pc' = "links" /\ dump' = "links" /\ db' = Empty
      /\ evq' = Append(evq, <<Zero, 1>>) /\ UNCHANGED <<wire, root, tagq, kernel>>
  BY DEF ReceiverBind, AtReceiver, flush
<1>2. wire = <<>> /\ root = <<>> /\ tagq = <<>>
  BY <1>1, Zenon DEF SocketInv, Loading
<1>3. evq = <<>>
  <2>1. ready # <<>> /\ Head(ready) = "receiver" /\ ready \in Seq(Callbacks)
    BY DEF ReceiverBind, AtReceiver, Running, QueueInv, QueueOk
  <2>2. ~ConsumerFirst(ready)
    <3>1. 1 \in DOMAIN ready /\ ready[1] = "receiver"
      BY <2>1
    <3>. QED
      BY <3>1 DEF ConsumerFirst
  <2>. QED
    BY <1>1, <2>2, Zenon DEF QueueInv, QueueOk
<1>4. evq' = <<<<Zero, 1>>>>
  BY <1>1, <1>3
<1>5. Arrived' = <<>> /\ Loaded' = Replay(Empty, <<<<Zero, 1>>>>)
  <2>1. <<>> \o <<>> = <<>>
    OBVIOUS
  <2>. QED
    BY <1>1, <1>2, <1>4, <2>1, EventsEmpty, Zenon DEF Arrived, Loaded
<1>6. Undumped(kernel, <<>>) /\ Empty \in Db /\ Loaded' = ZeroOnly
  BY <1>5, BindUndumped, Zenon
<1>7. evq' \in Seq(Ev) /\ root' \in Seq(Rec) /\ DOMAIN wire' = {} /\ DOMAIN tagq' = {}
  <2>1. <<Zero, 1>> \in Ev
    BY RowsFacts, Zenon DEF Ev, Rec
  <2>. DEFINE z == <<Zero, 1>>
  <2>. HIDE DEF z
  <2>2. <<z>> \in Seq(Ev)
    BY <2>1 DEF z
  <2>3. evq' \in Seq(Ev)
    BY <1>4, <2>2 DEF z
  <2>4. root' \in Seq(Rec) /\ DOMAIN wire' = {} /\ DOMAIN tagq' = {}
    BY <1>1, <1>2
  <2>. QED
    BY <2>3, <2>4, Zenon
<1>. QED
  BY <1>1, <1>5, <1>6, <1>7, Zenon DEF LoadInv

\* The receiver that runs in a dump has the answer.
LEMMA FirstAnswer ==
    ASSUME Inv, NEW p \in Loading, AtReceiver(p)
    PROVE  pc = p /\ 1 \in DOMAIN tagq /\ tagq[1] = Head(tagq) /\ Head(tagq) \in Seq(Rec) /\ NoDump
<1>1. pc = p /\ Has(ready, "receiver")
  BY RunningRest, Zenon DEF AtReceiver, Inv
<1>2. tagq # <<>> /\ tagq \in Seq(Seq(Rec)) /\ NoDump
  BY <1>1, Zenon DEF Inv, QueueInv, QueueOk, SocketInv
<1>. QED
  BY <1>1, <1>2

\* The dump of interfaces is queued and the next one is asked for.
LEMMA LoadLinks == ASSUME Inv, ReceiverLinks PROVE LoadInv'
<1>. USE DEF Inv
<1>1. AtReceiver("links") /\ tagq' = <<>> /\ UNCHANGED <<kernel, db, nl, wire, root, user>>
  BY Zenon DEF ReceiverLinks
<1>2. /\ pc = "links" /\ 1 \in DOMAIN tagq /\ tagq[1] = Head(tagq) /\ Head(tagq) \in Seq(Rec)
      /\ NoDump
  BY <1>1, FirstAnswer, Zenon DEF Loading
<1>. SUFFICES ASSUME Fresh', pc' # "failed" PROVE LoadInv'
  BY Zenon DEF LoadInv, Loading
<1>3. Fresh /\ pc \in Live
  BY <1>1, <1>2, FreshStays, Zenon DEF Live, Loading
<1>4. evq' = evq \o Head(tagq) /\ dump' = "children" /\ pc' = "children"
  BY Zenon DEF ReceiverLinks, FailLoading
<1>. DEFINE a == Head(tagq)
<1>5. a \in Seq(Ev) /\ evq \in Seq(Ev) /\ db \in Db
  BY <1>2, <1>3, RecSeqIsEvSeq, LiveFacts, Zenon
<1>6. LinksDumped(kernel, Arrived, Replay(Loaded, a))
  BY <1>2, <1>3, Zenon DEF LoadInv
<1>. HIDE DEF a
<1>7. evq' \in Seq(Ev) /\ Loaded' = Replay(Loaded, a) /\ Arrived' = Arrived
  <2>1. evq' = evq \o a
    BY <1>4, Zenon DEF a
  <2>2. Replay(db, evq \o a) = Replay(Replay(db, evq), a)
    BY <1>5, ReplayConcat, Zenon
  <2>. QED
    BY <1>1, <1>5, <2>1, <2>2 DEF Loaded, Arrived
<1>8. DOMAIN tagq' = {} /\ \A i \in DOMAIN wire' : wire'[i].to # "dump"
  BY <1>1, <1>2 DEF NoDump
<1>9. root' \in Seq(Rec) /\ db' \in Db
  BY <1>1, <1>3, LiveFacts, Zenon
<1>. QED
  BY <1>1, <1>4, <1>6, <1>7, <1>8, <1>9, Zenon DEF LoadInv

\* What was received is forwarded: nothing is left out.
LEMMA LoadForward ==
    ASSUME Inv, Fresh, pc \in Live, NEW e \in Seq(Ev), NEW w, Forward(e, w),
           Dumped(kernel, Arrived, Replay(db, e)),
           UNCHANGED <<kernel, db, nl, wire, user>>
    PROVE  LoadInv'
<1>. DEFINE a == Events(wire)
<1>1. db \in Db /\ root \in Seq(Rec) /\ a \in Seq(Rec) /\ nl.open
  BY LiveFacts, Zenon DEF Fresh
<1>2. ~Has(root, Err)
  <2>. SUFFICES ASSUME NEW i \in DOMAIN root, root[i] = Err PROVE FALSE
    BY Zenon DEF Has
  <2>1. root[i] \in Rec
    BY <1>1
  <2>2. PICK o \in Rows, v \in Values : root[i] = <<o, v>>
    <3>1. \A x \in Rows \X Values : \E o \in Rows, v \in Values : x = <<o, v>>
      OBVIOUS
    <3>. QED
      BY <2>1, <3>1, Zenon DEF Rec
  <2>3. Len(<<o, v>>) = 2 /\ Len(Err) = 1
    BY Zenon DEF Err
  <2>4. Len(root[i]) = 2
    BY <2>2, <2>3, Zenon
  <2>. QED
    BY <2>3, <2>4
<1>3. Forwarded(w) = root /\ ~Dies
  BY <1>1, <1>2, Zenon DEF Forwarded, BeforeError, Dies
<1>4. evq' = e \o root /\ root' = <<>> /\ pc' = "reading"
  BY <1>3, Zenon DEF Forward
<1>5. root \in Seq(Ev) /\ a \in Seq(Ev)
  BY <1>1, RecSeqIsEvSeq, Zenon
<1>6. Arrived' = a
  <2>1. Arrived' = <<>> \o a
    BY <1>4, Zenon DEF Arrived
  <2>. HIDE DEF a
  <2>. QED
    BY <1>1, <2>1
<1>7. Arrived = root \o a
  BY Zenon DEF Arrived
<1>. HIDE DEF a
<1>8. Loaded' = Replay(Replay(db, e), root) /\ evq' \in Seq(Ev)
  <2>1. Replay(db, e \o root) = Replay(Replay(db, e), root)
    BY <1>1, <1>5, ReplayConcat, Zenon
  <2>. QED
    BY <1>4, <1>5, <2>1 DEF Loaded
<1>9. Replay(db, e) \in Db
  BY <1>1, ReplayType, Zenon
<1>10. Replay(Loaded', a) = View(kernel)
  <2>1. Replay(Replay(db, e), root \o a) = Replay(Replay(Replay(db, e), root), a)
    BY <1>5, <1>9, ReplayConcat, Zenon
  <2>. QED
    BY <1>7, <1>8, <2>1, Zenon DEF Dumped
<1>11. Loaded' \in Db
  BY <1>5, <1>8, <1>9, ReplayType, Zenon
<1>12. Dumped(kernel', Arrived', Loaded')
  BY <1>6, <1>10, <1>11, Zenon DEF Dumped
<1>13. root' \in Seq(Rec) /\ db' \in Db
  BY <1>1, <1>4
<1>. QED
  BY <1>4, <1>8, <1>12, <1>13, Zenon DEF LoadInv, Loading

\* The second dump is queued and the receiver begins to read events.
LEMMA LoadChildren == ASSUME Inv, ReceiverChildren PROVE LoadInv'
<1>. USE DEF Inv
<1>1. /\ AtReceiver("children") /\ UNCHANGED <<kernel, db, nl, wire, user>>
      /\ Forward(Append(evq \o Head(tagq), Marker), FALSE)
  BY Zenon DEF ReceiverChildren
<1>2. pc = "children" /\ 1 \in DOMAIN tagq /\ tagq[1] = Head(tagq) /\ Head(tagq) \in Seq(Rec)
  BY <1>1, FirstAnswer, Zenon DEF Loading
<1>. SUFFICES ASSUME Fresh' PROVE LoadInv'
  BY Zenon DEF LoadInv
<1>3. Fresh /\ pc \in Live
  BY <1>1, <1>2, FreshStays, Zenon DEF Live, Loading
<1>4. Dumped(kernel, Arrived, Replay(Loaded, Head(tagq)))
  BY <1>2, <1>3, Zenon DEF LoadInv
<1>. DEFINE a == Head(tagq)
<1>5. a \in Seq(Ev) /\ evq \in Seq(Ev) /\ db \in Db /\ Marker \in Ev
  BY <1>2, <1>3, RecSeqIsEvSeq, LiveFacts, Zenon DEF Ev
<1>. HIDE DEF a
<1>6. evq \o a \in Seq(Ev) /\ Append(evq \o a, Marker) \in Seq(Ev)
  BY <1>5
<1>7. Replay(db, Append(evq \o a, Marker)) = Replay(Loaded, a)
  <2>1. Replay(db, evq \o a) = Replay(Loaded, a)
    BY <1>5, ReplayConcat, Zenon DEF Loaded
  <2>2. Replay(db, Append(evq \o a, Marker)) = Load(Replay(db, evq \o a), Marker)
    BY <1>5, <1>6, ReplayAppend, Zenon
  <2>. QED
    BY <2>1, <2>2, Zenon DEF Load
<1>8. Forward(Append(evq \o a, Marker), FALSE) /\ Dumped(kernel, Arrived, Replay(Loaded, a))
  BY <1>1, <1>4, Zenon DEF a
<1>. QED
  BY <1>1, <1>3, <1>6, <1>7, <1>8, LoadForward, Zenon

\* The receiver forwards what has arrived.
LEMMA LoadEventsStep == ASSUME Inv, ReceiverEvents PROVE LoadInv'
<1>. USE DEF Inv
<1>1. pc = "reading" /\ Forward(evq, TRUE) /\ UNCHANGED <<kernel, db, nl, wire, user>>
  BY Zenon DEF ReceiverEvents, AtReceiver
<1>. SUFFICES ASSUME Fresh' PROVE LoadInv'
  BY Zenon DEF LoadInv
<1>2. Fresh /\ pc \in Live
  BY <1>1, FreshStays, Zenon DEF Live
<1>3. evq \in Seq(Ev) /\ Dumped(kernel, Arrived, Replay(db, evq))
  BY <1>1, <1>2, LiveFacts, Zenon DEF LoadInv, Loaded
<1>. QED
  BY <1>1, <1>2, <1>3, LoadForward, Zenon

\* The database takes its queue.
LEMMA LoadConsumer == ASSUME Inv, LoadEvents PROVE LoadInv'
<1>. USE DEF Inv
<1>1. db' = Loaded /\ evq' = <<>> /\ UNCHANGED <<kernel, nl, wire, root, tagq, dump, pc, user>>
  BY Zenon DEF LoadEvents, Loaded
<1>. SUFFICES ASSUME Fresh', pc \in Live PROVE LoadInv'
  BY <1>1, Zenon DEF LoadInv, Live, Loading
<1>2. Fresh
  BY <1>1, FreshStays, Zenon
<1>3. Loaded \in Db
  BY <1>2, LiveFacts, Zenon
<1>4. Loaded' = Loaded /\ db' \in Db
  <2>1. Loaded' = Replay(db', evq')
    BY DEF Loaded
  <2>2. Replay(db', evq') = db'
    BY <1>1, <1>3, ReplayEmpty, Zenon
  <2>. QED
    BY <1>1, <1>3, <2>1, <2>2, Zenon
<1>5. Arrived' = Arrived /\ evq' \in Seq(Ev)
  BY <1>1 DEF Arrived
<1>. QED
  BY <1>1, <1>2, <1>4, <1>5, Zenon DEF LoadInv

\* The others do not touch what is loaded, or the socket is to be replaced.
Aside == \/ ReadOverrun \/ ConnectionLost \/ Reload \/ Completed \/ TaskWatch
         \/ Awake \/ Readable \/ Calls \/ Begin
         \/ ReceiverConnect \/ ReceiverConnectFails \/ ReceiverBindFails

\* A step that touches neither data nor queues keeps what separates database
\* and system.
LEMMA LoadFrame ==
    ASSUME Inv, UNCHANGED <<pc, db, evq, root, wire, dump, tagq, kernel>>, Fresh' => Fresh
    PROVE  LoadInv'
<1>1. Arrived' = Arrived /\ Loaded' = Loaded
  BY Zenon DEF Arrived, Loaded
<1>. QED
  BY <1>1, Zenon DEF Inv, LoadInv

\* All other steps: failures, restarts, calls of threads.
LEMMA LoadOthers == ASSUME Inv, Aside PROVE LoadInv'
<1>. USE DEF Inv
<1>1. CASE ReadOverrun
  <2>1. nl'.err
    BY <1>1 DEF ReadOverrun, SocketInv
  <2>. QED
    BY <2>1, Zenon DEF LoadInv, Fresh
<1>2. CASE ConnectionLost
  <2>1. CASE nl.open
    <3>1. UNCHANGED <<pc, db, evq, root, wire, dump, tagq, kernel, nl, user>>
      BY <1>2, <2>1, Zenon DEF ConnectionLost
    <3>. QED
      BY <3>1, LoadFrame, FreshStays, Zenon
  <2>2. CASE ~nl.open
    <3>1. nl' = nl
      BY <1>2, Zenon DEF ConnectionLost
    <3>. QED
      BY <2>2, <3>1, Zenon DEF LoadInv, Fresh
  <2>. QED
    BY <2>1, <2>2, Zenon
<1>3. CASE Reload \/ Completed \/ Readable
  <2>1. UNCHANGED <<pc, db, evq, root, wire, dump, tagq, kernel, nl, user>>
    BY <1>3, Zenon DEF Reload, Completed, Readable
  <2>. QED
    BY <2>1, LoadFrame, FreshStays, Zenon
<1>4. ASSUME pc' \notin Live PROVE LoadInv'
  BY <1>4, Zenon DEF LoadInv, Live, Loading
<1>5. CASE TaskWatch
  <2>1. UNCHANGED <<db, evq, root, wire, dump, tagq, kernel, nl, user>>
    BY <1>5 DEF TaskWatch
  <2>2. pc' = pc \/ pc' \in {"start", "none"}
    BY <1>5 DEF TaskWatch
  <2>3. CASE pc' = pc
    BY <2>1, <2>3, LoadFrame, FreshStays, Zenon
  <2>4. CASE pc' \in {"start", "none"}
    BY <1>4, <2>4, Zenon DEF Live, Loading
  <2>. QED
    BY <2>2, <2>3, <2>4, Zenon
<1>6. CASE ReceiverConnect \/ ReceiverConnectFails \/ ReceiverBindFails \/ Add
  BY <1>4, <1>6, Zenon DEF ReceiverConnect, ReceiverConnectFails, ReceiverBindFails, FailLoading, Add,
       Live, Loading
<1>7. CASE Awake
  <2>1. user.pc = "await"
    BY <1>7, RunningRest DEF Awake, QueueInv, QueueOk
  <2>2. UNCHANGED <<pc, db, evq, root, wire, dump, tagq, kernel, nl>>
    BY <1>7 DEF Awake
  <2>3. Fresh' => Fresh
    BY <2>1, <2>2, Zenon DEF Fresh, Sound
  <2>. QED
    BY <2>2, <2>3, LoadFrame, Zenon
<1>8. CASE CloseFlush \/ CloseAim
  <2>1. ~Sound'
    BY <1>8, Zenon DEF CloseFlush, CloseAim, Goto, UserInv, Sound
  <2>. QED
    BY <2>1, Zenon DEF LoadInv, Fresh
<1>9. CASE AwaitEvent \/ Restart \/ Close
  <2>1. user.pc \in {"closed", "idle"} /\ UNCHANGED <<pc, db, evq, root, wire, dump, tagq, kernel, nl>>
    BY <1>9 DEF AwaitEvent, Restart, Close, Thread
  <2>2. Fresh' => Fresh
    BY <2>1, Zenon DEF Fresh, Sound
  <2>. QED
    BY <2>1, <2>2, LoadFrame, Zenon
<1>10. CASE RemoveSource
  <2>1. user'.pc = "removed"
    BY <1>10 DEF RemoveSource, UserInv
  <2>. QED
    BY <2>1, Zenon DEF LoadInv, Fresh, Sound
<1>11. CASE CloseNl
  <2>1. CASE user.aimed
    <3>1. ~nl'.open
      BY <1>11, <2>1 DEF CloseNl, CloseSocket, SocketInv
    <3>. QED
      BY <3>1, Zenon DEF LoadInv, Fresh
  <2>2. CASE ~user.aimed
    <3>1. UNCHANGED <<pc, db, evq, root, wire, dump, tagq, kernel, nl>> /\ user.pc = "closing"
      BY <1>11, <2>2 DEF CloseNl, Thread
    <3>2. Fresh' => Fresh
      BY <2>2, <3>1, Zenon DEF Fresh, Sound
    <3>. QED
      BY <3>1, <3>2, LoadFrame, Zenon
  <2>. QED
    BY <2>1, <2>2, Zenon
<1>. QED
  BY <1>1, <1>2, <1>3, <1>5, <1>6, <1>7, <1>8, <1>9, <1>10, <1>11, Zenon DEF Aside, Calls, Begin

\* What separates database and system is kept by every step.
LEMMA LoadStep == ASSUME Inv, Next PROVE LoadInv'
<1>1. \/ Aside \/ LoadEvents \/ ReceiverBind \/ ReceiverLinks \/ ReceiverChildren
      \/ ReceiverEvents \/ ReadDatagram \/ Changes \/ AnswerDump
  BY NoApi DEF Next, Loop, Kernel, Manager, Receiver, Socket, Aside
<1>. QED
  BY <1>1, LoadConsumer, LoadBind, LoadLinks, LoadChildren, LoadEventsStep, LoadDatagram,
     LoadChanges, LoadAnswer, LoadOthers, Zenon

-----------------------------------------------------------------------------
(* The theorems. *)

\* Before add() nothing is connected.
LEMMA InitInv == ASSUME Init, "api" \notin env PROVE Inv
<1>1. Consistent(kernel)
  <2>1. kernel \in [Rows -> {0, 1}] /\ kernel[Zero] = 0
    BY Zenon DEF Init
  <2>2. \A c \in Children : kernel[c] # 0 => Parent[c] = Zero \/ kernel[Parent[c]] # 0
    BY Zenon DEF Init
  <2>3. kernel \in Db
    BY <2>1, RowsFacts, Zenon DEF Db
  <2>4. ASSUME NEW c \in Children, kernel[c] # Absent PROVE View(kernel)[Parent[c]] # Absent
    BY <2>2, <2>3, <2>4, ViewRows, RowsFacts, Zenon
  <2>. QED
    BY <2>1, <2>3, <2>4, RowsFacts, Zenon DEF Consistent
<1>2. QueueInv
  <2>1. ready = <<>> /\ evq = <<>> /\ pc = "none"
    BY Zenon DEF Init
  <2>2. ready \in Seq(Callbacks) /\ DOMAIN ready = {}
    BY <2>1
  <2>. QED
    BY <2>1, <2>2, Zenon DEF QueueInv, QueueOk, Once, Has
<1>3. SocketInv
  <2>1. nl = NoSocket /\ wire = <<>> /\ tagq = <<>> /\ dump = "none" /\ pc = "none"
    BY Zenon DEF Init
  <2>2. wire \in Seq(Dgram) /\ tagq \in Seq(Seq(Rec)) /\ Len(tagq) = 0 /\ DOMAIN wire = {}
    BY <2>1
  <2>3. nl \in [open : BOOLEAN, bound : BOOLEAN, err : BOOLEAN, overrun : BOOLEAN] /\ ~nl.open
    BY <2>1, Zenon DEF NoSocket
  <2>. QED
    BY <2>1, <2>2, <2>3 DEF SocketInv, NoDump, Loading
<1>4. UserInv /\ ApiInv
  BY Zenon DEF Init, UserInv, ApiInv
<1>5. LoadInv
  BY Zenon DEF Init, LoadInv, Fresh, NoSocket
<1>. QED
  BY <1>1, <1>2, <1>3, <1>4, <1>5, Zenon DEF Inv

\* The invariant is inductive.
LEMMA InvStep == ASSUME Inv, [Next]_vars PROVE Inv'
<1>1. CASE Next
  <2>1. QueueInv' /\ SocketInv' /\ LoadInv'
    BY <1>1, QueueStep, SocketStep, LoadStep, Zenon
  <2>2. ("api" \notin env)' /\ Consistent(kernel)' /\ UserInv' /\ ApiInv'
    BY <1>1, OthersStep, Zenon
  <2>. QED
    BY <2>1, <2>2, Zenon DEF Inv
<1>2. CASE UNCHANGED vars
  <2>1. LoadInv'
    <3>1. UNCHANGED <<pc, db, evq, root, wire, dump, tagq, kernel>> /\ UNCHANGED <<nl, user>>
      BY <1>2, Zenon DEF vars
    <3>. QED
      BY <3>1, LoadFrame, FreshStays, Zenon
  <2>2. ("api" \notin env)' /\ Consistent(kernel)' /\ UserInv' /\ ApiInv'
    BY <1>2, Zenon DEF vars, Inv, Consistent, View, UserInv, ApiInv
  <2>3. QueueInv' /\ SocketInv'
    BY <1>2, Zenon DEF vars, Inv, QueueInv, SocketInv, NoDump
  <2>. QED
    BY <2>1, <2>2, <2>3, Zenon DEF Inv
<1>. QED
  BY <1>1, <1>2, Zenon

\* Steps keep the environment, api() or not.
LEMMA EnvStays == ASSUME [Next]_vars PROVE env' = env
<1>. USE DEF Loop, Kernel, Socket, Receiver, Manager, Calls, Begin
<1>1. CASE Socket \/ Manager \/ Awake \/ ApiReturn \/ Kernel
  BY <1>1, Zenon DEF ReadDatagram, ReadOverrun, ConnectionLost, LoadEvents, Reload, Completed,
       TaskWatch, Awake, ApiReturn, AnswerDump, Readable
<1>2. CASE Receiver
  BY <1>2, Zenon DEF ReceiverConnect, ReceiverConnectFails, ReceiverBind, ReceiverBindFails,
       ReceiverLinks, ReceiverChildren, ReceiverEvents
<1>3. CASE Calls \/ Begin \/ Changes \/ ApiCalls
  BY <1>3, Zenon DEF Add, CloseFlush, CloseAim, CloseNl, AwaitEvent, Restart, Close, RemoveSource,
       Changes, Change, ApiCalls, ApiCall
<1>4. CASE UNCHANGED vars
  BY <1>4, Zenon DEF vars
<1>. QED
  BY <1>1, <1>2, <1>3, <1>4, Zenon DEF Next

\* The invariant above, of every behaviour of the source in which the program
\* does not call api().
THEOREM SourceInvariant == Spec => []SourceInv
<1>0. SourceInv <=> ("api" \notin env => Inv)
  BY Zenon DEF SourceInv, Inv
<1>1. Init => SourceInv
  BY <1>0, InitInv
<1>2. SourceInv /\ [Next]_vars => SourceInv'
  <2>. SUFFICES ASSUME SourceInv, [Next]_vars, "api" \notin env' PROVE Inv'
    BY Zenon DEF SourceInv, Inv
  <2>1. "api" \notin env
    BY EnvStays
  <2>. QED
    BY <1>0, <2>1, InvStep
<1>. QED
  BY <1>1, <1>2, PTL DEF Spec

\* In sync, the events under way are the queue of the manager and what has
\* arrived.
LEMMA SyncedDiffers ==
    ASSUME Inv, Synced
    PROVE  /\ Replay(db, Backlog) = Mirror
           /\ Backlog = evq \o Arrived /\ evq \in Seq(Ev) /\ Arrived \in Seq(Ev) /\ db \in Db
<1>1. Fresh /\ pc = "reading" /\ pc \in Live
  BY Zenon DEF Synced, Fresh, Sound, Live
<1>2. Dumped(kernel, Arrived, Loaded)
  BY <1>1, Zenon DEF Inv, LoadInv
<1>3. evq \in Seq(Ev) /\ db \in Db /\ Arrived \in Seq(Ev) /\ root \in Seq(Rec) /\ Events(wire) \in Seq(Rec)
  BY <1>1, LiveFacts, Zenon
<1>4. Backlog = evq \o Arrived
  <2>. DEFINE a == Events(wire)
  <2>1. root \in Seq(Ev) /\ a \in Seq(Ev) /\ api.echo = <<>>
    BY <1>3, RecSeqIsEvSeq, Zenon DEF Inv, ApiInv
  <2>. HIDE DEF a
  <2>2. ((evq \o root) \o a) \o <<>> = evq \o (root \o a)
    BY <1>3, <2>1
  <2>. QED
    BY <2>1, <2>2, Zenon DEF Backlog, Arrived, a
<1>5. Replay(db, evq \o Arrived) = Replay(Loaded, Arrived)
  BY <1>3, ReplayConcat, Zenon DEF Loaded
<1>. QED
  BY <1>2, <1>3, <1>4, <1>5, Zenon DEF Dumped, View, Mirror

\* While the source forwards events, the database lags behind the system by
\* exactly the events on their way, for any interfaces and objects that refer to
\* them and any number of changes, restarts, failures and lost events: what
\* Source.receiver() loads is the dump and every event since bind(), in order.
THEOREM BacklogIsDifferenceHolds == Spec => [](("api" \notin env) => BacklogIsDifference)
<1>1. SourceInv => (("api" \notin env) => BacklogIsDifference)
  BY SyncedDiffers, Zenon DEF SourceInv, Inv, BacklogIsDifference
<1>. QED
  BY <1>1, SourceInvariant, PTL

\* The same after a step.
LEMMA SyncedNext ==
    Inv' /\ Synced' => /\ Replay(db', Backlog') = Mirror'
                      /\ Backlog' = evq' \o Arrived'
<1>1. Inv /\ Synced => Replay(db, Backlog) = Mirror /\ Backlog = evq \o Arrived
  BY SyncedDiffers, Zenon
<1>2. (Inv /\ Synced => Replay(db, Backlog) = Mirror /\ Backlog = evq \o Arrived)'
  BY <1>1, PTL
<1>. QED
  BY <1>2, Zenon

\* A change of the system is one more event on its way.
LEMMA BacklogGrows ==
    ASSUME Inv, Synced, Synced', NEW o \in Objs, NEW v \in Values, Change(o, v)
    PROVE  Arrived' = Append(Arrived, <<o, v>>)
<1>. DEFINE g == Datagram("root", <<<<o, v>>>>)
<1>1. Fresh /\ pc \in Live /\ ~nl'.overrun /\ nl.open
  BY Zenon DEF Synced, Fresh, Sound, Live
<1>2. nl # [nl EXCEPT !.overrun = TRUE] /\ nl' # [nl EXCEPT !.overrun = TRUE]
  BY <1>1, Zenon DEF Inv, SocketInv, Fresh
<1>3. wire' = Append(wire, g) /\ root' = root
  BY <1>1, <1>2, LiveFacts DEF Change
<1>4. <<<<o, v>>>> \in Seq(Rec) /\ <<o, v>> \in Rec
  BY ObjFacts DEF Rec
<1>5. g \in Dgram /\ g.to = "root" /\ g.recs = <<<<o, v>>>>
  BY <1>4, DatagramType, Zenon
<1>. HIDE DEF g
<1>6. Events(wire') = Events(wire) \o <<<<o, v>>>>
  BY <1>1, <1>3, <1>5, LiveFacts, EventsAppend, Zenon DEF Gather
<1>. DEFINE a == Events(wire)
            e == <<o, v>>
<1>7. a \in Seq(Rec) /\ root \in Seq(Rec) /\ e \in Rec
  BY <1>1, <1>4, LiveFacts, Zenon
<1>. HIDE DEF a, e
<1>8. root \o (a \o <<e>>) = Append(root \o a, e)
  BY <1>7
<1>. QED
  BY <1>3, <1>6, <1>8, Zenon DEF a, e, Arrived

\* In sync, a change of the system appends its events to the log.
LEMMA ReplicaChange ==
    ASSUME Inv, Inv', Synced, Synced', Changes PROVE Replica!Change
<1>1. PICK o \in Objs, v \in Values : Change(o, v)
  BY DEF Changes
<1>. DEFINE e == <<o, v>>
<1>2. UNCHANGED <<db, evq>> /\ Arrived' = Append(Arrived, e)
  BY <1>1, BacklogGrows DEF Change
<1>3. Backlog = evq \o Arrived /\ evq \in Seq(Ev) /\ Arrived \in Seq(Ev)
  BY SyncedDiffers, Zenon
<1>4. Backlog' = evq' \o Arrived' /\ Replay(db', Backlog') = Mirror'
  BY SyncedNext, Zenon
<1>5. e \in Ev
  BY ObjFacts, Zenon DEF Rec, Ev
<1>. HIDE DEF e
<1>6. Backlog' = Append(Backlog, e) /\ Backlog \in Seq(Ev)
  BY <1>2, <1>3, <1>4, <1>5
<1>7. Len(Backlog') = Len(Backlog) + 1 /\ SubSeq(Backlog', 1, Len(Backlog)) = Backlog
  BY <1>5, <1>6
<1>8. "api" \notin env /\ "api" \notin env'
  BY Zenon DEF Inv
<1>. QED
  BY <1>2, <1>4, <1>7, <1>8, Zenon DEF Replica!Change, Replica!Accounted

\* In sync, the manager takes its queue from the front of the log.
LEMMA ReplicaDeliver ==
    ASSUME Inv, Synced, Synced', LoadEvents, evq # <<>>, "api" \notin env'
    PROVE  Replica!Deliver
<1>1. /\ db' = Replay(db, evq) /\ evq' = <<>>
      /\ UNCHANGED <<kernel, root, wire, api>>
  BY Zenon DEF LoadEvents
<1>2. Backlog = evq \o Arrived /\ evq \in Seq(Ev) /\ Arrived \in Seq(Ev) /\ api.echo = <<>>
  BY SyncedDiffers, Zenon DEF Inv, ApiInv
<1>3. Arrived' = Arrived /\ Mirror' = Mirror
  BY <1>1, Zenon DEF Arrived, Mirror
<1>4. Backlog' = Arrived
  <2>. DEFINE a == Events(wire)
  <2>1. root \in Seq(Rec) /\ a \in Seq(Rec)
    BY LiveFacts, Zenon DEF Synced, Fresh, Sound, Live
  <2>2. Backlog' = ((<<>> \o root) \o a) \o <<>>
    BY <1>1, <1>2, Zenon DEF Backlog
  <2>. HIDE DEF a
  <2>3. ((<<>> \o root) \o a) \o <<>> = root \o a
    BY <2>1
  <2>. QED
    BY <2>2, <2>3, Zenon DEF Arrived, a
<1>. DEFINE n == Len(evq)
<1>. HIDE DEF n
<1>5. n \in Nat /\ n # 0 /\ Len(Backlog) = n + Len(Arrived) /\ Len(Arrived) \in Nat
  BY <1>2 DEF n
<1>6. n \in 1..Len(Backlog)
  BY <1>5
<1>7. SubSeq(Backlog, 1, n) = evq
  BY <1>2 DEF n
<1>8. SubSeq(Backlog, n + 1, Len(Backlog)) = Arrived
  <2>1. Backlog \in Seq(Ev)
    BY <1>2
  <2>2. \A i \in 1..Len(Arrived) : Backlog[n + i] = Arrived[i] /\ Backlog[n + i] \in Ev
    BY <1>2, JoinedElements DEF n
  <2>3. n + 1 \in 1..(Len(Backlog) + 1)
    BY <1>5
  <2>. DEFINE t == SubSeq(Backlog, n + 1, Len(Backlog))
  <2>4. /\ t \in Seq(Ev)
        /\ Len(t) = Len(Backlog) - (n + 1) + 1
        /\ \A i \in 1..(Len(Backlog) - (n + 1) + 1) : t[i] = Backlog[n + 1 + i - 1]
    BY <2>1, <2>3, RestElements, Zenon
  <2>. HIDE DEF t
  <2>5. Len(t) = Len(Arrived)
    BY <1>5, <2>4
  <2>6. ASSUME NEW i \in 1..Len(Arrived) PROVE t[i] = Arrived[i]
    <3>1. i \in 1..(Len(Backlog) - (n + 1) + 1) /\ n + 1 + i - 1 = n + i
      BY <1>5
    <3>. QED
      BY <2>2, <2>4, <3>1, Zenon
  <2>7. t = Arrived
    BY <1>2, <2>4, <2>5, <2>6
  <2>. QED
    BY <2>7, Zenon DEF t
<1>9. "api" \notin env
  BY DEF Inv
<1>10. db' = Replay(db, SubSeq(Backlog, 1, n)) /\ Backlog' = SubSeq(Backlog, n + 1, Len(Backlog))
  BY <1>1, <1>4, <1>7, <1>8, Zenon
<1>. QED
  BY <1>3, <1>6, <1>9, <1>10, Zenon DEF Replica!Deliver

\* Steps that move an event along, or none.
LEMMA ReplicaStutter ==
    ASSUME Inv, Inv', Synced, Synced', Next, ~Changes, LoadEvents => evq = <<>>
    PROVE  UNCHANGED <<Mirror, db, Backlog>>
<1>0. /\ pc = "reading" /\ pc' = "reading" /\ nl.open /\ ~nl'.err /\ Fresh /\ pc \in Live
      /\ user.pc \notin {"flushed", "closing", "removed"}
      /\ user'.pc \notin {"flushed", "closing", "removed"}
  BY Zenon DEF Synced, Fresh, Sound, Live
<1>1. Backlog = evq \o Arrived /\ Backlog' = evq' \o Arrived'
  BY SyncedDiffers, SyncedNext, Zenon
<1>2. ASSUME UNCHANGED <<kernel, db, evq, root, wire>> PROVE UNCHANGED <<Mirror, db, Backlog>>
  BY <1>1, <1>2, Zenon DEF Mirror, Arrived
<1>3. CASE LoadEvents
  <2>1. evq = <<>> /\ evq' = <<>> /\ UNCHANGED <<kernel, root, wire>> /\ db' = Replay(db, <<>>)
    BY <1>3, Zenon DEF LoadEvents
  <2>2. db' = db
    BY <1>0, <2>1, LiveFacts, ReplayEmpty, Zenon
  <2>. QED
    BY <1>2, <2>1, <2>2, Zenon
<1>4. CASE ReadDatagram
  <2>1. Arrived' = Arrived
    BY <1>0, <1>4, ArrivedKept, Zenon
  <2>2. UNCHANGED <<kernel, db, evq>>
    BY <1>4, Zenon DEF ReadDatagram
  <2>. QED
    BY <1>1, <2>1, <2>2, Zenon DEF Mirror
<1>5. CASE ReceiverEvents
  <2>1. UNCHANGED <<kernel, db, wire>> /\ Forward(evq, TRUE)
    BY <1>5, Zenon DEF ReceiverEvents
  <2>2. root \in Seq(Rec) /\ Events(wire) \in Seq(Rec) /\ evq \in Seq(Ev)
    BY <1>0, LiveFacts, Zenon
  <2>3. ~Has(root, Err)
    BY <1>0, <2>1, Zenon DEF Forward, Dies
  <2>4. evq' = evq \o root /\ root' = <<>>
    BY <1>0, <2>1, <2>3, Zenon DEF Forward, Forwarded, BeforeError
  <2>. DEFINE a == Events(wire)
  <2>5. a \in Seq(Ev) /\ root \in Seq(Ev)
    BY <2>2, RecSeqIsEvSeq, Zenon
  <2>6. Arrived' = <<>> \o a /\ Arrived = root \o a
    BY <2>1, <2>4, Zenon DEF Arrived
  <2>. HIDE DEF a
  <2>7. (evq \o root) \o (<<>> \o a) = evq \o (root \o a)
    BY <2>2, <2>5
  <2>. QED
    BY <1>1, <2>1, <2>4, <2>6, <2>7, Zenon DEF Mirror
<1>6. CASE ReadOverrun
  BY <1>0, <1>6, Zenon DEF ReadOverrun, Inv, SocketInv
<1>7. CASE ConnectionLost
  BY <1>0, <1>2, <1>7, Zenon DEF ConnectionLost
<1>8. CASE Receiver /\ ~ReceiverEvents
  BY <1>0, <1>8, Zenon DEF Receiver, ReceiverConnect, ReceiverConnectFails, ReceiverBind,
       ReceiverBindFails, ReceiverLinks, ReceiverChildren, AtReceiver
<1>9. CASE Reload \/ Completed \/ TaskWatch \/ Awake \/ Readable
  BY <1>2, <1>9, Zenon DEF Reload, Completed, TaskWatch, Awake, Readable
<1>10. CASE AnswerDump
  BY <1>0, <1>10, Zenon DEF AnswerDump, Inv, SocketInv, Loading
<1>11. CASE Add \/ AwaitEvent \/ Restart \/ Close
  BY <1>2, <1>11 DEF Add, AwaitEvent, Restart, Close
<1>12. CASE CloseFlush \/ CloseAim
  BY <1>0, <1>12, Zenon DEF CloseFlush, CloseAim, Goto, Inv, UserInv
<1>13. CASE CloseNl
  BY <1>0, <1>13 DEF CloseNl, Thread
<1>14. CASE RemoveSource
  BY <1>0, <1>14 DEF RemoveSource, Inv, UserInv
<1>. QED
  BY <1>3, <1>4, <1>5, <1>6, <1>7, <1>8, <1>9, <1>10, <1>11, <1>12, <1>13, <1>14, NoApi, Zenon
     DEF Next, Loop, Kernel, Socket, Manager, Calls, Begin

\* NDBReplica, without what it says must happen in the end: the database is a
\* copy of the system that lags behind by a log of events.  While the source is
\* in sync the system only adds to the log and the database only consumes it,
\* in order, and when it comes back in sync everything has been loaded again.
THEOREM ReplicaSafe == Spec => Replica!Init /\ [][Replica!Next]_(Replica!vars)
<1>1. Init => Replica!Init
  BY Zenon DEF Init, Replica!Init, Synced
<1>2. SourceInv /\ SourceInv' /\ [Next]_vars => [Replica!Next]_(Replica!vars)
  <2>. SUFFICES ASSUME SourceInv, SourceInv', [Next]_vars
                PROVE  [Replica!Next]_(Replica!vars)
    BY Zenon
  <2>1. CASE ~(Synced' /\ "api" \notin env')
    BY <2>1, Zenon DEF Replica!Next, Replica!FallBehind
  <2>2. CASE Synced' /\ "api" \notin env'
    <3>1. Inv /\ Inv'
      BY <2>2, EnvStays, Zenon DEF SourceInv, Inv
    <3>2. "api" \notin env
      BY <3>1, Zenon DEF Inv
    <3>3. CASE ~Synced
      <4>1. Replay(db', Backlog') = Mirror'
        BY <2>2, <3>1, SyncedNext, Zenon
      <4>. QED
        BY <2>2, <3>3, <4>1, Zenon DEF Replica!Next, Replica!Resync, Replica!Accounted
    <3>4. CASE Synced
      <4>1. CASE UNCHANGED vars
        BY <4>1, Zenon DEF vars, Replica!vars, Mirror, Backlog, Synced
      <4>2. CASE Changes
        BY <2>2, <3>1, <3>4, <4>2, ReplicaChange, Zenon DEF Replica!Next
      <4>3. CASE LoadEvents /\ evq # <<>>
        BY <2>2, <3>1, <3>4, <4>3, ReplicaDeliver, Zenon DEF Replica!Next
      <4>4. CASE Next /\ ~Changes /\ ~(LoadEvents /\ evq # <<>>)
        <5>1. UNCHANGED <<Mirror, db, Backlog>>
          BY <2>2, <3>1, <3>4, <4>4, ReplicaStutter, Zenon
        <5>2. (Synced /\ "api" \notin env)' <=> (Synced /\ "api" \notin env)
          BY <2>2, <3>2, <3>4, Zenon
        <5>. QED
          BY <5>1, <5>2, Zenon DEF Replica!vars
      <4>. QED
        BY <4>1, <4>2, <4>3, <4>4, Zenon
    <3>. QED
      BY <3>3, <3>4, Zenon
  <2>. QED
    BY <2>1, <2>2, Zenon
<1>. QED
  BY <1>1, <1>2, SourceInvariant, PTL DEF Spec
=============================================================================
