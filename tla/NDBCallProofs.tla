--------------------------- MODULE NDBCallProofs ---------------------------
(***************************************************************************)
(* A theorem about the calls of NDBSource that load the database: they     *)
(* find it loaded when they return.                                        *)
(***************************************************************************)
EXTENDS NDBSourceProofs

-----------------------------------------------------------------------------
(* What a call finds in the database when it returns. *)

\* api() is not called; and close(), after which the source loads again by itself,
\* is not mixed with restart().
Ordinary == "api" \notin env /\ ~({"close", "restart"} \subseteq env)

\* Besides, no connection fails and no event is lost.
Calm == Ordinary /\ env \cap {"fail", "overrun"} = {}

\* What the receiver reads: a record, or the error of a lost connection.
Packets == Rec \cup {Err}

\* The receiver is woken with something to read, the thread by the event.
ReadsSome == Has(ready, "receiver") /\ pc = "reading" => root # <<>>
WokenByEvent == Has(ready, "awake") => event

\* A datagram of events has one.
WireSome == \A i \in DOMAIN wire : wire[i].to = "root" => wire[i].recs # <<>>

CalmInv ==
    /\ ~nl.err /\ ~nl.overrun /\ stable \subseteq Objs
    /\ evq \in Seq(Ev) /\ root \in Seq(Packets) /\ (nl.open => root \in Seq(Rec))
    /\ WireSome /\ ReadsSome /\ WokenByEvent

\* The calls that are made, and those after which none waits for the event.
Calling == user.op \notin {"close", "remove"}
OpInv ==
    /\ user.op = "close" => "close" \in env /\ user.pc \notin {"new", "await", "closed"}
    /\ user.op = "remove" => user.pc = "removed"
    /\ user.pc \in {"flush", "flushed", "closing", "closed"} => user.op \in {"restart", "close"}

\* The marker of set_ready() is the one of the reload that the call waits for:
\* none is left of an earlier load, and no loading fails.
CallInv == Calling =>
    /\ user.pc = "new" => pc = "none" /\ Marker \notin Items(evq)
    /\ user.pc \in {"idle", "flush", "flushed", "closing"} =>
          pc = "reading" /\ nl.open /\ Marker \notin Items(evq)
    /\ user.pc \in {"flush", "flushed", "closing"} => ~event
    /\ user.pc = "closing" => user.aimed
    /\ user.pc \in {"await", "closed"} =>
          /\ event => Marker \notin Items(evq)
          /\ event \/ Marker \in Items(evq) => pc = "reading" /\ nl.open
          /\ pc \in Loading \cup {"endpoint"} => nl.open

\* Since bind() the objects that have not changed are met in the dump only, and
\* the dump is in the database when the event is set.
InCall == user.pc \in {"await", "closed"} /\ nl.open /\ pc \in Live
StableInv == InCall =>
    /\ AllSilent(root, kernel, stable) /\ AllSilent(Events(wire), kernel, stable)
    /\ \A i \in DOMAIN wire : wire[i].to = "dump" => AllRight(wire[i].recs, kernel, stable)
    /\ \A i \in DOMAIN tagq : AllRight(tagq[i], kernel, stable)
    /\ AllRight(evq, kernel, stable) /\ (event => AllSilent(evq, kernel, stable))
    /\ NoStale(db, kernel, stable)

-----------------------------------------------------------------------------
(* Every step keeps the queues in order. *)

\* Being in a queue.
LEMMA HasItems == ASSUME NEW s, NEW x PROVE Has(s, x) <=> x \in Items(s)
  BY Zenon DEF Has, Items

\* What callbacks a step may schedule.
LEMMA Schedules ==
    ASSUME NEW r \in Seq(Callbacks), NEW x \in Callbacks, NEW cb
    PROVE  /\ Append(r, x) \in Seq(Callbacks) /\ (Has(Append(r, x), cb) => Has(r, cb) \/ x = cb)
           /\ Wake(r, x) \in Seq(Callbacks) /\ (Has(Wake(r, x), cb) => Has(r, cb) \/ x = cb)
           /\ NoRead(r) \in Seq(Callbacks) /\ (Has(NoRead(r), cb) => Has(r, cb))
           /\ r # <<>> => Tail(r) \in Seq(Callbacks) /\ (Has(Tail(r), cb) => Has(r, cb))
<1>1. Append(r, x) \in Seq(Callbacks) /\ (Has(Append(r, x), cb) => Has(r, cb) \/ x = cb)
  BY HasAppend
<1>2. Wake(r, x) \in Seq(Callbacks) /\ (Has(Wake(r, x), cb) => Has(r, cb) \/ x = cb)
  BY <1>1, Zenon DEF Wake
<1>3. NoRead(r) \in Seq(Callbacks) /\ (Has(NoRead(r), cb) => Has(r, cb))
  BY NoReadFacts, Zenon
<1>4. r # <<>> => Tail(r) \in Seq(Callbacks) /\ (Has(Tail(r), cb) => Has(r, cb))
  BY TailFacts, Zenon
<1>. QED
  BY <1>1, <1>2, <1>3, <1>4, Zenon

\* The end of a step of the receiver schedules neither itself nor the thread.
LEMMA ReceiverSchedules ==
    ASSUME NEW r \in Seq(Callbacks), NEW es, NEW cb \in {"receiver", "awake"}
    PROVE  /\ WakeFor(r, es) \in Seq(Callbacks) /\ (Has(WakeFor(r, es), cb) => Has(r, cb))
           /\ Ended(r) \in Seq(Callbacks) /\ (Has(Ended(r), cb) => Has(r, cb))
<1>1. "consumer" \in Callbacks /\ "done" \in Callbacks
  BY DEF Callbacks
<1>2. Wake(r, "consumer") \in Seq(Callbacks) /\ (Has(Wake(r, "consumer"), cb) => Has(r, cb))
  BY <1>1, Schedules, Zenon
<1>3. Append(r, "done") \in Seq(Callbacks) /\ (Has(Append(r, "done"), cb) => Has(r, cb))
  BY <1>1, Schedules, Zenon
<1>. QED
  BY <1>2, <1>3, Zenon DEF WakeFor, Ended

\* The callbacks behind the one that runs.
LEMMA RestFacts ==
    ASSUME Inv, NEW cb, Running(cb)
    PROVE  /\ Rest \in Seq(Callbacks) /\ Has(ready, cb)
           /\ \A y : Has(Rest, y) => Has(ready, y)
           /\ cb \in {"receiver", "awake"} => ~Has(Rest, cb)
<1>1. ready \in Seq(Callbacks) /\ ready # <<>> /\ Head(ready) = cb
      /\ Once(ready, "receiver") /\ Once(ready, "awake")
  BY Zenon DEF Inv, QueueInv, QueueOk, Running
<1>. QED
  BY <1>1, TailFacts, Zenon DEF Rest

\* The socket wakes the receiver, and no other.
LEMMA WakesSocket ==
    ASSUME Inv, CalmInv, Socket
    PROVE  ReadsSome' /\ WokenByEvent'
<1>0. "receiver" \in Callbacks /\ UNCHANGED <<pc, event>>
  BY Zenon DEF Callbacks, Socket, ReadDatagram, ReadOverrun, ConnectionLost
<1>1. \/ Running("read")
      \/ Running("lost")
  BY Zenon DEF Socket, ReadDatagram, ReadOverrun, ConnectionLost
<1>2. Rest \in Seq(Callbacks) /\ \A y : Has(Rest, y) => Has(ready, y)
  BY <1>1, RestFacts, Zenon
<1>3. ready' \in {Rest, Append(Rest, "receiver"), Wake(Rest, "receiver")}
  <2>1. SocketInv
    BY Zenon DEF Inv
  <2>2. CASE ReadDatagram
    <3>1. Head(wire).to \in {"root", "dump"}
      BY <2>1, <2>2, HeadOfWire, Zenon DEF ReadDatagram
    <3>. QED
      BY <2>2, <3>1, Zenon DEF ReadDatagram, WakeReader
  <2>3. CASE ReadOverrun \/ ConnectionLost
    BY <2>3 DEF ReadOverrun, ConnectionLost, WakeReader
  <2>. QED
    BY <2>2, <2>3, Zenon DEF Socket
<1>4. WokenByEvent'
  <2>0. /\ Has(Append(Rest, "receiver"), "awake") => Has(Rest, "awake")
        /\ Has(Wake(Rest, "receiver"), "awake") => Has(Rest, "awake")
    BY <1>0, <1>2, Schedules, Zenon
  <2>1. Has(ready', "awake") => Has(ready, "awake")
    BY <1>2, <1>3, <2>0, Zenon
  <2>. QED
    BY <1>0, <2>1, Zenon DEF WokenByEvent, CalmInv
<1>5. ReadsSome'
  <2>. SUFFICES ASSUME Has(ready', "receiver"), pc = "reading" PROVE root' # <<>>
    BY <1>0, Zenon DEF ReadsSome
  <2>0. SocketInv /\ root \in Seq(Packets)
    BY Zenon DEF Inv, CalmInv
  <2>1. CASE ReadDatagram
    <3>1. Head(wire).to = "root" /\ Head(wire).recs \in Seq(Rec) /\ wire # <<>> /\ wire \in Seq(Dgram)
      BY <2>0, <2>1, HeadOfWire, Zenon DEF ReadDatagram, Loading, SocketInv
    <3>2. Head(wire).recs # <<>>
      BY <3>1, WireTail, Zenon DEF CalmInv, WireSome
    <3>3. root' = root \o Head(wire).recs
      BY <2>1, <3>1, Zenon DEF ReadDatagram
    <3>. DEFINE b == Head(wire).recs
    <3>4. b \in Seq(Packets) /\ b # <<>>
      BY <3>1, <3>2 DEF Packets
    <3>. HIDE DEF b
    <3>5. root \o b # <<>>
      BY <2>0, <3>4
    <3>. QED
      BY <3>3, <3>5, Zenon DEF b
  <2>2. CASE ReadOverrun
    BY <2>2 DEF ReadOverrun, CalmInv
  <2>3. CASE ConnectionLost /\ ~nl.open
    <3>1. root' = Append(root, Err)
      BY <2>3, Zenon DEF ConnectionLost
    <3>. QED
      BY <2>0, <3>1 DEF Packets
  <2>4. CASE ConnectionLost /\ nl.open
    <3>1. root' = root /\ ready' = Rest
      BY <2>4, Zenon DEF ConnectionLost
    <3>. QED
      BY <1>2, <3>1, Zenon DEF CalmInv, ReadsSome
  <2>. QED
    BY <2>1, <2>2, <2>3, <2>4 DEF Socket
<1>. QED
  BY <1>4, <1>5, Zenon

\* A step of the receiver does not leave it scheduled, unless it waits for the
\* endpoint of a new socket.
LEMMA WakesReceiver ==
    ASSUME Inv, CalmInv, Receiver
    PROVE  ReadsSome' /\ WokenByEvent'
<1>0. Running("receiver") /\ event' = event
  BY Zenon DEF Receiver, ReceiverConnect, ReceiverConnectFails, ReceiverBind, ReceiverBindFails,
       ReceiverLinks, ReceiverChildren, ReceiverEvents, AtReceiver
<1>1. /\ Rest \in Seq(Callbacks) /\ \A y : Has(Rest, y) => Has(ready, y)
      /\ ~Has(Rest, "receiver")
  BY <1>0, RestFacts, Zenon
<1>2. "receiver" \in Callbacks /\ "consumer" \in Callbacks
  BY DEF Callbacks
<1>. DEFINE Ok(r) == /\ r \in Seq(Callbacks) /\ ~Has(r, "receiver")
                     /\ Has(r, "awake") => Has(ready, "awake")
<1>3. Ok(Rest)
  BY <1>1, Zenon
<1>4. ASSUME NEW r, Ok(r) PROVE Ok(NoRead(r)) /\ Ok(Wake(r, "consumer")) /\ Ok(Ended(r))
  <2>1. Ok(NoRead(r)) /\ Ok(Wake(r, "consumer"))
    BY <1>2, <1>4, Schedules, Zenon
  <2>2. Ok(Ended(r))
    BY <1>4, ReceiverSchedules, Zenon
  <2>. QED
    BY <2>1, <2>2, Zenon
<1>5. ASSUME NEW r, Ok(r), NEW es PROVE Ok(WakeFor(r, es))
  BY <1>5, ReceiverSchedules, Zenon
<1>6. ASSUME Ok(ready') PROVE ReadsSome' /\ WokenByEvent'
  BY <1>0, <1>6, Zenon DEF ReadsSome, WokenByEvent, CalmInv
<1>7. ASSUME NEW e, NEW r, Ok(r), FailLoading(e, r) PROVE Ok(ready')
  <2>1. ready' = Ended(Wake(r, "consumer"))
    BY <1>7, Zenon DEF FailLoading
  <2>. QED
    BY <1>4, <1>7, <2>1, Zenon
<1>8. ASSUME NEW e, NEW w, Forward(e, w) PROVE Ok(ready')
  <2>1. ready' \in {WakeFor(Rest, evq'), Ended(WakeFor(Rest, evq'))}
    BY <1>8, Zenon DEF Forward
  <2>. QED
    BY <1>3, <1>4, <1>5, <2>1, Zenon
<1>9. CASE ReceiverConnect
  <2>1. ready' = Append(NoRead(Rest), "receiver") /\ pc' = "endpoint"
    BY <1>9 DEF ReceiverConnect
  <2>2. Ok(NoRead(Rest))
    BY <1>3, <1>4, Zenon
  <2>3. Has(ready', "awake") => Has(ready, "awake")
    BY <1>2, <2>1, <2>2, Schedules, Zenon
  <2>. QED
    BY <1>0, <2>1, <2>3, Zenon DEF ReadsSome, WokenByEvent, CalmInv
<1>10. CASE ReceiverConnectFails
  <2>1. FailLoading(evq, NoRead(Rest)) /\ Ok(NoRead(Rest))
    BY <1>3, <1>4, <1>10 DEF ReceiverConnectFails
  <2>. QED
    BY <1>6, <1>7, <2>1, Zenon
<1>11. CASE ReceiverBind
  <2>1. ready' = Wake(Rest, "consumer")
    BY <1>11 DEF ReceiverBind
  <2>. QED
    BY <1>3, <1>4, <1>6, <2>1, Zenon
<1>12. CASE ReceiverBindFails
  <2>1. FailLoading(evq, Rest)
    BY <1>12, Zenon DEF ReceiverBindFails
  <2>. QED
    BY <1>3, <1>6, <1>7, <2>1, Zenon
<1>13. CASE ReceiverLinks
  <2>1. \/ ready' = WakeFor(Rest, evq \o Head(tagq))
        \/ FailLoading(evq \o Head(tagq), Rest)
    BY <1>13, Zenon DEF ReceiverLinks
  <2>. QED
    BY <1>3, <1>5, <1>6, <1>7, <2>1, Zenon
<1>14. CASE ReceiverChildren \/ ReceiverEvents
  BY <1>6, <1>8, <1>14, Zenon DEF ReceiverChildren, ReceiverEvents
<1>. QED
  BY <1>9, <1>10, <1>11, <1>12, <1>13, <1>14, Zenon DEF Receiver

\* The thread is woken when its event is set; a receiver that task_watch() or
\* add() start does not read yet.
LEMMA WakesOthers ==
    ASSUME Inv, CalmInv,
           Manager \/ Awake \/ Readable \/ Calls \/ Begin \/ Changes \/ AnswerDump
    PROVE  ReadsSome' /\ WokenByEvent'
<1>0. /\ ready \in Seq(Callbacks) /\ {"receiver", "awake", "done", "watch", "read", "lost", "reload"} \subseteq Callbacks
      /\ Has(ready, "awake") => user.pc = "await"
  BY Zenon DEF Inv, QueueInv, QueueOk, Callbacks
<1>1. CASE LoadEvents
  <2>1. Rest \in Seq(Callbacks) /\ \A y : Has(Rest, y) => Has(ready, y)
    BY <1>1, RestFacts, Zenon DEF LoadEvents
  <2>2. ready' = Rest \/ (event' /\ ready' = Wake(Rest, "awake"))
    BY <1>1, Zenon DEF LoadEvents
  <2>3. UNCHANGED <<pc, root>> /\ (event => event')
    BY <1>1, Zenon DEF LoadEvents
  <2>4. Has(ready', "receiver") => Has(ready, "receiver")
    <3>1. Has(Wake(Rest, "awake"), "receiver") => Has(Rest, "receiver") \/ "awake" = "receiver"
      BY <1>0, <2>1, Schedules, Zenon
    <3>. QED
      BY <2>1, <2>2, <3>1, Zenon
  <2>5. Has(ready', "awake") => Has(ready, "awake") \/ event'
    BY <2>1, <2>2, Zenon
  <2>. QED
    BY <2>3, <2>4, <2>5, Zenon DEF ReadsSome, WokenByEvent, CalmInv
<1>2. CASE Reload \/ Completed \/ Awake
  <2>1. Running("reload") \/ Running("done") \/ Running("awake")
    BY <1>2, Zenon DEF Reload, Completed, Awake
  <2>2. Rest \in Seq(Callbacks) /\ \A y : Has(Rest, y) => Has(ready, y)
    BY <2>1, RestFacts, Zenon
  <2>3. ready' \in {Rest, Wake(Rest, "done"), Wake(Rest, "watch")} /\ UNCHANGED <<pc, root, event>>
    BY <1>2 DEF Reload, Completed, Awake
  <2>4. ASSUME NEW cb \in {"receiver", "awake"}, Has(ready', cb) PROVE Has(ready, cb)
    <3>1. Has(Wake(Rest, "done"), cb) => Has(Rest, cb) \/ "done" = cb
      BY <1>0, <2>2, Schedules, Zenon
    <3>2. Has(Wake(Rest, "watch"), cb) => Has(Rest, cb) \/ "watch" = cb
      BY <1>0, <2>2, Schedules, Zenon
    <3>. QED
      BY <2>2, <2>3, <2>4, <3>1, <3>2, Zenon
  <2>. QED
    BY <2>3, <2>4, Zenon DEF ReadsSome, WokenByEvent, CalmInv
<1>3. CASE TaskWatch
  <2>1. Rest \in Seq(Callbacks) /\ \A y : Has(Rest, y) => Has(ready, y)
    BY <1>3, RestFacts DEF TaskWatch
  <2>2. /\ \/ ready' = Append(Rest, "receiver") /\ pc' = "start"
           \/ ready' \in {Rest, Append(Rest, "done")} /\ pc' \in {"none", pc}
        /\ UNCHANGED <<root, event>>
    BY <1>3 DEF TaskWatch
  <2>. DEFINE with(x, cb) == Has(Append(Rest, x), cb)
  <2>3. /\ with("done", "receiver") => Has(Rest, "receiver")
        /\ with("done", "awake") => Has(Rest, "awake")
        /\ with("receiver", "awake") => Has(Rest, "awake")
    BY <1>0, <2>1, Schedules, Zenon
  <2>4. pc' = "reading" => /\ Has(ready', "receiver") => Has(ready, "receiver")
                           /\ pc = "reading"
    BY <2>1, <2>2, <2>3, Zenon
  <2>5. Has(ready', "awake") => Has(ready, "awake")
    BY <2>1, <2>2, <2>3, Zenon
  <2>. QED
    BY <2>2, <2>4, <2>5, Zenon DEF ReadsSome, WokenByEvent, CalmInv
<1>4. CASE Add
  <2>1. ready' = Append(Wake(ready, "receiver"), "reload") /\ pc' = "start" /\ user.pc = "new"
    BY <1>4, Zenon DEF Add, Thread
  <2>2. Has(ready', "awake") => Has(ready, "awake")
    BY <1>0, <2>1, Schedules, Zenon
  <2>. QED
    BY <1>0, <2>1, <2>2, Zenon DEF ReadsSome, WokenByEvent
<1>5. CASE Restart
  <2>1. UNCHANGED <<ready, pc, root>> /\ user.pc = "idle"
    BY <1>5 DEF Restart, Thread
  <2>. QED
    BY <1>0, <2>1, Zenon DEF ReadsSome, WokenByEvent, CalmInv
<1>6. CASE Close \/ CloseFlush \/ CloseAim \/ AwaitEvent \/ Changes \/ AnswerDump
  <2>1. UNCHANGED <<ready, pc, root, event>>
    BY <1>6, Zenon DEF Close, CloseFlush, CloseAim, AwaitEvent, Changes, Change, AnswerDump
  <2>. QED
    BY <2>1, Zenon DEF ReadsSome, WokenByEvent, CalmInv
<1>7. CASE CloseNl \/ RemoveSource \/ Readable
  <2>1. UNCHANGED <<pc, root, event>>
    BY <1>7 DEF CloseNl, RemoveSource, Readable
  <2>2. ready' \in {ready, Append(NoRead(ready), "lost"), Append(ready, "read")}
    BY <1>7 DEF CloseNl, RemoveSource, Readable, CloseSocket
  <2>3. ASSUME NEW cb \in {"receiver", "awake"} PROVE Has(ready', cb) => Has(ready, cb)
    <3>1. Has(Append(ready, "read"), cb) => Has(ready, cb)
      BY <1>0, Schedules, Zenon
    <3>2. NoRead(ready) \in Seq(Callbacks) /\ (Has(NoRead(ready), cb) => Has(ready, cb))
      BY <1>0, NoReadFacts, Zenon
    <3>3. Has(Append(NoRead(ready), "lost"), cb) => Has(ready, cb)
      BY <1>0, <3>2, Schedules, Zenon
    <3>. QED
      BY <2>2, <3>1, <3>3, Zenon
  <2>. QED
    BY <2>1, <2>3, Zenon DEF ReadsSome, WokenByEvent, CalmInv
<1>. QED
  BY <1>1, <1>2, <1>3, <1>4, <1>5, <1>6, <1>7, Zenon DEF Manager, Calls, Begin

\* What the receiver forwards are records: all of them from an open socket.
LEMMA ForwardedRecs ==
    ASSUME CalmInv, NEW w \in BOOLEAN, w => root # <<>>
    PROVE  /\ Forwarded(w) \in Seq(Rec)
           /\ nl.open => ~Dies /\ Forwarded(w) = root
           /\ ~nl.open => Dies
<1>1. CASE nl.open
  <2>1. root \in Seq(Rec)
    BY <1>1 DEF CalmInv
  <2>2. ~Has(root, Err)
    <3>. SUFFICES ASSUME NEW i \in DOMAIN root, root[i] = Err PROVE FALSE
      BY DEF Has
    <3>1. root[i] \in Rec
      BY <2>1
    <3>2. PICK o \in Rows, v \in Values : root[i] = <<o, v>>
      BY <3>1 DEF Rec
    <3>3. Len(<<o, v>>) = 2 /\ Len(Err) = 1
      BY DEF Err
    <3>4. Len(root[i]) = 2
      BY <3>2, <3>3
    <3>. QED
      BY <3>3, <3>4
  <2>. QED
    BY <1>1, <2>1, <2>2, Zenon DEF Forwarded, BeforeError, Dies
<1>2. CASE ~nl.open /\ ~w
  <2>1. ~Has(<<>>, Err)
    BY DEF Has
  <2>2. Forwarded(w) = <<>>
    BY <1>2, <2>1, Zenon DEF Forwarded, BeforeError
  <2>. QED
    BY <1>2, <2>2 DEF Dies
<1>3. CASE ~nl.open /\ w
  <2>1. Head(root) \in Packets
    BY <1>3 DEF CalmInv
  <2>. DEFINE h == <<Head(root)>>
  <2>2. Forwarded(w) = BeforeError(h)
    BY <1>3, Zenon DEF Forwarded
  <2>3. DOMAIN h = {1} /\ h[1] = Head(root)
    OBVIOUS
  <2>4. CASE Head(root) = Err
    <3>1. Has(h, Err)
      BY <2>3, <2>4, Zenon DEF Has
    <3>. DEFINE k == CHOOSE i \in DOMAIN h : h[i] = Err /\ \A j \in 1..(i - 1) : h[j] # Err
    <3>2. k = 1
      <4>1. \E i \in DOMAIN h : h[i] = Err /\ \A j \in 1..(i - 1) : h[j] # Err
        BY <2>3, <2>4
      <4>2. k \in DOMAIN h
        BY <4>1
      <4>. QED
        BY <2>3, <4>2, Zenon
    <3>3. BeforeError(h) = SubSeq(h, 1, k - 1)
      BY <3>1, Zenon DEF BeforeError
    <3>. HIDE DEF k
    <3>4. SubSeq(h, 1, k - 1) = SubSeq(h, 1, 0)
      BY <3>2
    <3>5. SubSeq(h, 1, 0) \in Seq(Rec)
      OBVIOUS
    <3>. QED
      BY <1>3, <2>2, <3>3, <3>4, <3>5, Zenon DEF Dies
  <2>5. CASE Head(root) # Err
    <3>1. ~Has(h, Err)
      BY <2>3, <2>5 DEF Has
    <3>2. h \in Seq(Rec)
      BY <2>1, <2>5 DEF Packets
    <3>. QED
      BY <1>3, <2>2, <3>1, <3>2, Zenon DEF BeforeError, Dies
  <2>. QED
    BY <2>4, <2>5, Zenon
<1>. QED
  BY <1>1, <1>2, <1>3, Zenon

\* No error is met, and what is queued has its type: the socket.
LEMMA CalmSocket == ASSUME Inv, Calm, CalmInv, Socket PROVE CalmInv'
<1>0. ReadsSome' /\ WokenByEvent'
  BY WakesSocket
<1>1. CASE ReadDatagram
  <2>1. UNCHANGED <<nl, stable, evq>> /\ wire' = Tail(wire) /\ wire # <<>> /\ wire \in Seq(Dgram)
    BY <1>1, Zenon DEF ReadDatagram, Inv, SocketInv
  <2>2. Head(wire).to \in {"root", "dump"} /\ Head(wire).recs \in Seq(Rec)
    BY <2>1, HeadOfWire, Zenon DEF Inv
  <2>3. root' = root \/ root' = root \o Head(wire).recs
    BY <1>1, <2>2, Zenon DEF ReadDatagram
  <2>. DEFINE b == Head(wire).recs
  <2>4. b \in Seq(Rec) /\ b \in Seq(Packets) /\ root \in Seq(Packets)
    BY <2>2 DEF Packets, CalmInv
  <2>. HIDE DEF b
  <2>5. root \o b \in Seq(Packets) /\ (root \in Seq(Rec) => root \o b \in Seq(Rec))
    BY <2>4
  <2>6. root' \in Seq(Packets) /\ (nl'.open => root' \in Seq(Rec))
    BY <2>1, <2>3, <2>5, Zenon DEF b, CalmInv
  <2>7. WireSome'
    <3>1. \A i \in DOMAIN wire' : i + 1 \in DOMAIN wire /\ wire'[i] = wire[i + 1]
      BY <2>1, WireTail, Zenon
    <3>. QED
      BY <3>1, Zenon DEF CalmInv, WireSome
  <2>. QED
    BY <1>0, <2>1, <2>6, <2>7, Zenon DEF CalmInv
<1>2. CASE ReadOverrun
  BY <1>2 DEF ReadOverrun, CalmInv
<1>3. CASE ConnectionLost
  <2>1. UNCHANGED <<nl, stable, evq, wire>>
    BY <1>3, Zenon DEF ConnectionLost
  <2>2. (nl.open /\ root' = root) \/ (~nl.open /\ root' = Append(root, Err))
    BY <1>3, Zenon DEF ConnectionLost, Inv, SocketInv
  <2>3. root \in Seq(Packets) /\ Err \in Packets
    BY Zenon DEF CalmInv, Packets
  <2>4. Append(root, Err) \in Seq(Packets)
    BY <2>3
  <2>. QED
    BY <1>0, <2>1, <2>2, <2>4, Zenon DEF CalmInv, WireSome
<1>. QED
  BY <1>1, <1>2, <1>3 DEF Socket

\* So it is after a step of the receiver.
LEMMA CalmReceiver == ASSUME Inv, Calm, CalmInv, Receiver PROVE CalmInv'
<1>0. ReadsSome' /\ WokenByEvent' /\ stable' = stable
  BY WakesReceiver, Zenon DEF Receiver, ReceiverConnect, ReceiverConnectFails, ReceiverBind,
       ReceiverBindFails, ReceiverLinks, ReceiverChildren, ReceiverEvents
<1>1. evq \in Seq(Ev) /\ Marker \in Ev /\ <<Zero, 1>> \in Ev
  BY RowsFacts, Zenon DEF CalmInv, Ev, Rec
<1>2. Append(evq, Marker) \in Seq(Ev) /\ Append(evq, <<Zero, 1>>) \in Seq(Ev)
  BY <1>1
<1>3. CASE ReceiverConnect
  <2>1. nl' = NewSocket /\ wire' = <<>> /\ root' = <<>> /\ evq' = evq
    BY <1>3 DEF ReceiverConnect
  <2>2. ~NewSocket.err /\ ~NewSocket.overrun
    BY DEF NewSocket, NoSocket
  <2>3. DOMAIN wire' = {} /\ root' \in Seq(Packets) /\ root' \in Seq(Rec)
    BY <2>1
  <2>. QED
    BY <1>0, <1>1, <2>1, <2>2, <2>3, Zenon DEF CalmInv, WireSome
<1>4. CASE ReceiverConnectFails
  BY <1>4 DEF ReceiverConnectFails, Calm
<1>5. CASE ReceiverBind
  <2>1. nl' = [nl EXCEPT !.bound = TRUE] /\ evq' = Append(evq, <<Zero, 1>>) /\ UNCHANGED <<wire, root>>
    BY <1>5 DEF ReceiverBind
  <2>2. nl'.err = nl.err /\ nl'.overrun = nl.overrun /\ nl'.open = nl.open
    BY <2>1 DEF Inv, SocketInv
  <2>. QED
    BY <1>0, <1>2, <2>1, <2>2 DEF CalmInv, WireSome
<1>6. CASE ReceiverBindFails
  <2>1. evq' = Append(evq, Marker) /\ UNCHANGED <<nl, wire, root>>
    BY <1>6, Zenon DEF ReceiverBindFails, FailLoading
  <2>. QED
    BY <1>0, <1>2, <2>1, Zenon DEF CalmInv, WireSome
<1>7. CASE ReceiverLinks
  <2>1. /\ evq' = evq \o Head(tagq) \/ evq' = Append(evq \o Head(tagq), Marker)
        /\ UNCHANGED <<nl, wire, root>>
    BY <1>7, Zenon DEF ReceiverLinks, FailLoading
  <2>2. Head(tagq) \in Seq(Rec)
    BY <1>7, FirstAnswer, Zenon DEF ReceiverLinks, Loading
  <2>3. evq \o Head(tagq) \in Seq(Ev)
    BY <1>1, <2>2, MarkerKept, Zenon
  <2>4. Append(evq \o Head(tagq), Marker) \in Seq(Ev)
    BY <1>1, <2>3
  <2>. QED
    BY <1>0, <2>1, <2>3, <2>4, Zenon DEF CalmInv, WireSome
<1>8. ASSUME NEW e \in Seq(Ev), NEW w \in BOOLEAN, w => root # <<>>, Forward(e, w), UNCHANGED <<nl, wire>>
      PROVE  CalmInv'
  <2>1. Forwarded(w) \in Seq(Rec)
    BY <1>8, ForwardedRecs, Zenon
  <2>2. e \o Forwarded(w) \in Seq(Ev)
    BY <2>1, MarkerKept, Zenon
  <2>3. evq' = e \o Forwarded(w) /\ root' = <<>>
    BY <1>8, Zenon DEF Forward
  <2>4. evq' \in Seq(Ev) /\ root' \in Seq(Packets) /\ root' \in Seq(Rec)
    BY <2>2, <2>3
  <2>5. WireSome' /\ ~nl'.err /\ ~nl'.overrun
    BY <1>8, Zenon DEF CalmInv, WireSome
  <2>. QED
    BY <1>0, <2>4, <2>5, Zenon DEF CalmInv
<1>9. CASE ReceiverChildren
  <2>1. Forward(Append(evq \o Head(tagq), Marker), FALSE) /\ UNCHANGED <<nl, wire>>
    BY <1>9, Zenon DEF ReceiverChildren
  <2>2. Head(tagq) \in Seq(Rec)
    BY <1>9, FirstAnswer, Zenon DEF ReceiverChildren, Loading
  <2>3. evq \o Head(tagq) \in Seq(Ev)
    BY <1>1, <2>2, MarkerKept, Zenon
  <2>4. Append(evq \o Head(tagq), Marker) \in Seq(Ev)
    BY <1>1, <2>3
  <2>. QED
    BY <1>8, <2>1, <2>4, Zenon
<1>10. CASE ReceiverEvents
  <2>1. Forward(evq, TRUE) /\ UNCHANGED <<nl, wire>> /\ pc = "reading" /\ Running("receiver")
    BY <1>10, Zenon DEF ReceiverEvents, AtReceiver
  <2>2. root # <<>>
    BY <2>1, RestFacts, Zenon DEF CalmInv, ReadsSome
  <2>. QED
    BY <1>1, <1>8, <2>1, <2>2, Zenon
<1>. QED
  BY <1>3, <1>4, <1>5, <1>6, <1>7, <1>9, <1>10 DEF Receiver

\* So it is after every other step.
LEMMA CalmOthers ==
    ASSUME Inv, Calm, CalmInv,
           Manager \/ Awake \/ Readable \/ Calls \/ Begin \/ Changes \/ AnswerDump
    PROVE  CalmInv'
<1>0. ReadsSome' /\ WokenByEvent'
  BY WakesOthers
<1>1. CASE LoadEvents
  <2>1. evq' = <<>> /\ UNCHANGED <<nl, stable, root, wire>>
    BY <1>1, Zenon DEF LoadEvents
  <2>2. evq' \in Seq(Ev)
    BY <2>1
  <2>. QED
    BY <1>0, <2>1, <2>2, Zenon DEF CalmInv, WireSome
<1>2. CASE Reload \/ Completed \/ TaskWatch \/ Awake \/ Readable
  <2>1. UNCHANGED <<nl, stable, root, wire, evq>>
    BY <1>2, Zenon DEF Reload, Completed, TaskWatch, Awake, Readable
  <2>. QED
    BY <1>0, <2>1, Zenon DEF CalmInv, WireSome
<1>3. CASE Add \/ CloseFlush \/ CloseAim \/ AwaitEvent \/ Restart \/ Close
  <2>1. UNCHANGED <<nl, root, wire, evq>> /\ (stable' = stable \/ stable' = Objs)
    BY <1>3, Zenon DEF Add, CloseFlush, CloseAim, AwaitEvent, Restart, Close
  <2>. QED
    BY <1>0, <2>1, Zenon DEF CalmInv, WireSome
<1>4. CASE CloseNl \/ RemoveSource
  <2>1. /\ UNCHANGED <<root, evq, stable>>
        /\ \/ UNCHANGED <<nl, wire>>
           \/ nl' = [nl EXCEPT !.open = FALSE] /\ wire' = <<>>
    BY <1>4 DEF CloseNl, RemoveSource, CloseSocket
  <2>2. nl'.err = nl.err /\ nl'.overrun = nl.overrun /\ (nl'.open => nl.open)
    BY <2>1 DEF Inv, SocketInv
  <2>3. WireSome'
    BY <2>1 DEF CalmInv, WireSome
  <2>. QED
    BY <1>0, <2>1, <2>2, <2>3 DEF CalmInv
<1>5. CASE Changes
  <2>1. PICK o \in Objs, v \in Values : Change(o, v)
    BY <1>5, Zenon DEF Changes
  <2>. DEFINE g == Datagram("root", <<<<o, v>>>>)
  <2>2. /\ UNCHANGED <<root, evq, nl>> /\ stable' \subseteq stable
        /\ wire' = wire \/ wire' = Append(wire, g)
    BY <2>1 DEF Change, SetKernel, Calm
  <2>3. <<<<o, v>>>> \in Seq(Rec)
    BY ObjFacts DEF Rec
  <2>4. g \in Dgram /\ g.recs = <<<<o, v>>>> /\ wire \in Seq(Dgram)
    BY <2>3, DatagramType, Zenon DEF Inv, SocketInv
  <2>. HIDE DEF g
  <2>5. \A i \in DOMAIN wire' : (i \in DOMAIN wire /\ wire'[i] = wire[i]) \/ wire'[i] = g
    <3>1. \A i \in DOMAIN Append(wire, g) :
             (i \in DOMAIN wire /\ Append(wire, g)[i] = wire[i]) \/ Append(wire, g)[i] = g
      BY <2>4, WireAppend, Zenon
    <3>. QED
      BY <2>2, <3>1, Zenon
  <2>6. g.recs # <<>>
    BY <2>4
  <2>7. WireSome'
    BY <2>5, <2>6, Zenon DEF CalmInv, WireSome
  <2>. QED
    BY <1>0, <2>2, <2>7, Zenon DEF CalmInv
<1>6. CASE AnswerDump
  <2>. DEFINE rs == Records(kernel, IF dump = "links" THEN Links ELSE Children)
              g == Datagram("dump", rs)
  <2>1. UNCHANGED <<root, evq, nl, stable>> /\ wire' = Append(wire, g)
    BY <1>6, Zenon DEF AnswerDump
  <2>2. rs \in Seq(Rec)
    BY RecordsOf, Zenon DEF Inv, Consistent
  <2>3. g \in Dgram /\ g.to = "dump" /\ wire \in Seq(Dgram)
    BY <2>2, DatagramType, Zenon DEF Inv, SocketInv
  <2>. HIDE DEF g
  <2>4. \A i \in DOMAIN wire' : (i \in DOMAIN wire /\ wire'[i] = wire[i]) \/ wire'[i] = g
    BY <2>1, <2>3, WireAppend, Zenon
  <2>5. WireSome'
    BY <2>3, <2>4, Zenon DEF CalmInv, WireSome
  <2>. QED
    BY <1>0, <2>1, <2>5, Zenon DEF CalmInv
<1>. QED
  BY <1>1, <1>2, <1>3, <1>4, <1>5, <1>6, Zenon DEF Manager, Calls, Begin

-----------------------------------------------------------------------------
(* Every step keeps what is known of the call. *)

\* The thread, as the steps move it.
LEMMA OpStep == ASSUME Inv, Calm, OpInv, Next PROVE OpInv'
<1>0. env' = env /\ UserInv
  BY EnvStays, Zenon DEF Inv
<1>1. CASE user' = user \/ user' = [user EXCEPT !.aimed = FALSE]
  <2>1. user'.op = user.op /\ user'.pc = user.pc
    BY <1>0, <1>1 DEF UserInv
  <2>. QED
    BY <1>0, <2>1, Zenon DEF OpInv
<1>2. CASE Socket \/ Receiver \/ Manager \/ Readable \/ Changes \/ AnswerDump
  <2>1. CASE Socket \/ Manager \/ Readable \/ Changes \/ AnswerDump
    BY <1>1, <2>1, Zenon DEF Socket, Manager, ReadDatagram, ReadOverrun, ConnectionLost, LoadEvents,
         Reload, Completed, TaskWatch, AnswerDump, Readable, Changes, Change
  <2>2. CASE Receiver
    BY <1>1, <2>2, Zenon DEF Receiver, ReceiverConnect, ReceiverConnectFails, ReceiverBind,
         ReceiverBindFails, ReceiverLinks, ReceiverChildren, ReceiverEvents
  <2>. QED
    BY <1>2, <2>1, <2>2, Zenon
<1>3. CASE Awake
  <2>1. user.pc = "await"
    BY <1>3, RunningRest DEF Awake, Inv, QueueInv, QueueOk
  <2>2. user'.pc = "idle" /\ user'.op \in {user.op, "raised"}
    BY <1>0, <1>3 DEF Awake, UserInv
  <2>. QED
    BY <1>0, <2>1, <2>2, Zenon DEF OpInv
<1>4. CASE Calls
  <2>1. CASE Add \/ AwaitEvent \/ CloseFlush \/ CloseAim
    <3>1. /\ user'.op = user.op
          /\ \/ user.pc = "new" /\ user'.pc = "await"
             \/ user.pc = "closed" /\ user'.pc \in {"idle", "await"}
             \/ user.pc = "flush" /\ user'.pc = "flushed"
             \/ user.pc = "flushed" /\ user'.pc = "closing"
      BY <1>0, <2>1, Zenon DEF Add, AwaitEvent, CloseFlush, CloseAim, Goto, Thread, UserInv
    <3>. QED
      BY <1>0, <3>1, Zenon DEF OpInv
  <2>2. CASE CloseNl
    <3>1. /\ user'.op = user.op /\ user.pc = "closing"
          /\ user'.pc = IF user.op = "restart" THEN "closed" ELSE "idle"
      BY <1>0, <2>2 DEF CloseNl, Thread, UserInv
    <3>. QED
      BY <1>0, <3>1, Zenon DEF OpInv
  <2>. QED
    BY <1>4, <2>1, <2>2 DEF Calls
<1>5. CASE Begin
  <2>1. \/ "close" \in env /\ user'.op = "close" /\ user'.pc = "flush"
        \/ user'.op = "restart" /\ user'.pc = "flush"
        \/ user'.op = "remove" /\ user'.pc = "removed"
    BY <1>0, <1>5, Zenon DEF Begin, Restart, Close, RemoveSource, UserInv
  <2>. QED
    BY <1>0, <2>1, Zenon DEF OpInv
<1>. QED
  BY <1>2, <1>3, <1>4, <1>5, NoApi, Zenon DEF Next, Loop, Kernel

\* A step that leaves the thread, the receiver and the marker alone.
LEMMA CallFrame ==
    ASSUME CallInv, UNCHANGED <<user, pc, event>>, nl'.open = nl.open,
           Marker \in Items(evq') <=> Marker \in Items(evq)
    PROVE  CallInv'
  BY Zenon DEF CallInv, Calling

\* The receiver: the only marker is that of a load that is complete.
LEMMA CallReceiver == ASSUME Inv, Calm, CalmInv, CallInv, OpInv, Receiver PROVE CallInv'
<1>0. /\ evq \in Seq(Ev) /\ UserInv /\ event' = event /\ <<Zero, 1>> \in Rec /\ <<Zero, 1>> \in Ev
      /\ Marker \in Ev
  BY RowsFacts, Zenon DEF CalmInv, Inv, Receiver, ReceiverConnect, ReceiverConnectFails, ReceiverBind,
       ReceiverBindFails, ReceiverLinks, ReceiverChildren, ReceiverEvents, Ev, Rec
<1>. SUFFICES ASSUME Calling' PROVE CallInv'
  BY Zenon DEF CallInv
<1>1. user'.op = user.op /\ user'.pc = user.pc /\ Calling
  <2>1. user' = user \/ user' = [user EXCEPT !.aimed = FALSE]
    BY Zenon DEF Receiver, ReceiverConnect, ReceiverConnectFails, ReceiverBind, ReceiverBindFails,
         ReceiverLinks, ReceiverChildren, ReceiverEvents
  <2>2. user'.op = user.op /\ user'.pc = user.pc
    BY <1>0, <2>1 DEF UserInv
  <2>. QED
    BY <2>2, Zenon DEF Calling
<1>2. user.pc \in {"new", "await", "idle", "flush", "flushed", "closing", "closed", "removed"}
  BY <1>0, Zenon DEF UserInv
<1>3. CASE ReceiverConnect
  <2>1. pc = "start" /\ pc' = "endpoint" /\ nl'.open /\ evq' = evq
    BY <1>3 DEF ReceiverConnect, AtReceiver, NewSocket, NoSocket
  <2>2. user.pc \in {"await", "closed", "removed"} /\ (user.pc # "removed" => ~event /\ Marker \notin Items(evq))
    BY <1>1, <1>2, <2>1, Zenon DEF CallInv
  <2>. QED
    BY <1>0, <1>1, <2>1, <2>2, Zenon DEF CallInv
<1>4. CASE ReceiverConnectFails
  BY <1>4 DEF ReceiverConnectFails, Calm
<1>5. CASE ReceiverBind
  <2>1. pc = "endpoint" /\ pc' = "links" /\ nl.open /\ nl'.open /\ evq' = Append(evq, <<Zero, 1>>)
    BY <1>5, Zenon DEF ReceiverBind, AtReceiver, Inv, SocketInv
  <2>2. Items(evq') = Items(evq) \cup {<<Zero, 1>>}
    BY <1>0, <2>1, ItemsAppend
  <2>3. Marker \in Items(evq') <=> Marker \in Items(evq)
    BY <1>0, <2>2, RecIsNoMarker, Zenon
  <2>4. user.pc \in {"await", "closed", "removed"} /\ (user.pc # "removed" => ~event /\ Marker \notin Items(evq))
    BY <1>1, <1>2, <2>1, Zenon DEF CallInv
  <2>. QED
    BY <1>0, <1>1, <2>1, <2>3, <2>4, Zenon DEF CallInv
<1>6. CASE ReceiverBindFails
  <2>1. pc = "endpoint" /\ ~nl.open
    BY <1>6, Zenon DEF ReceiverBindFails, AtReceiver
  <2>2. user.pc = "removed"
    BY <1>1, <1>2, <2>1, Zenon DEF CallInv
  <2>. QED
    BY <1>1, <2>2, Zenon DEF CallInv
<1>7. CASE ReceiverLinks
  <2>1. pc = "links" /\ nl' = nl /\ Head(tagq) \in Seq(Rec)
    BY <1>7, FirstAnswer, Zenon DEF ReceiverLinks, AtReceiver, Loading
  <2>2. user.pc \in {"await", "closed", "removed"} /\ (user.pc # "removed" => ~event /\ Marker \notin Items(evq) /\ nl.open)
    BY <1>1, <1>2, <2>1, Zenon DEF CallInv, Loading
  <2>3. CASE nl.open
    <3>1. pc' = "children" /\ evq' = evq \o Head(tagq)
      BY <1>7, <2>3, Zenon DEF ReceiverLinks, CalmInv
    <3>2. Marker \in Items(evq') <=> Marker \in Items(evq)
      BY <1>0, <2>1, <3>1, MarkerKept, Zenon
    <3>. QED
      BY <1>0, <1>1, <2>1, <2>2, <2>3, <3>1, <3>2, Zenon DEF CallInv
  <2>4. CASE ~nl.open
    BY <1>1, <2>2, <2>4, Zenon DEF CallInv
  <2>. QED
    BY <2>3, <2>4, Zenon
<1>8. CASE ReceiverChildren
  <2>1. pc = "children" /\ nl' = nl /\ Forward(Append(evq \o Head(tagq), Marker), FALSE)
    BY <1>8, Zenon DEF ReceiverChildren, AtReceiver
  <2>2. user.pc \in {"await", "closed", "removed"} /\ (user.pc # "removed" => ~event /\ nl.open)
    BY <1>1, <1>2, <2>1, Zenon DEF CallInv, Loading
  <2>3. nl.open => pc' = "reading"
    BY <2>1, ForwardedRecs, Zenon DEF Forward
  <2>. QED
    BY <1>0, <1>1, <2>1, <2>2, <2>3, Zenon DEF CallInv, Loading
<1>9. CASE ReceiverEvents
  <2>1. pc = "reading" /\ nl' = nl /\ Forward(evq, TRUE) /\ Running("receiver") /\ user' = user
    BY <1>9, Zenon DEF ReceiverEvents, AtReceiver
  <2>2. root # <<>>
    BY <2>1, RestFacts, Zenon DEF CalmInv, ReadsSome
  <2>3. Forwarded(TRUE) \in Seq(Rec) /\ (nl.open <=> ~Dies)
    BY <2>2, ForwardedRecs, Zenon
  <2>4. evq' = evq \o Forwarded(TRUE) /\ pc' = IF nl.open THEN "reading" ELSE "failed"
    BY <2>1, <2>3, Zenon DEF Forward
  <2>5. Marker \in Items(evq') <=> Marker \in Items(evq)
    BY <1>0, <2>3, <2>4, MarkerKept, Zenon
  <2>6. CASE nl.open
    BY <1>0, <2>1, <2>4, <2>5, <2>6, CallFrame, Zenon
  <2>7. CASE ~nl.open
    <3>1. user.pc \in {"await", "closed", "removed"} /\ (user.pc # "removed" => ~event /\ Marker \notin Items(evq))
      BY <1>1, <1>2, <2>1, <2>7, Zenon DEF CallInv
    <3>. QED
      BY <1>0, <1>1, <2>4, <2>5, <2>7, <3>1, Zenon DEF CallInv, Loading
  <2>. QED
    BY <2>6, <2>7, Zenon
<1>. QED
  BY <1>3, <1>4, <1>5, <1>6, <1>7, <1>8, <1>9, Zenon DEF Receiver

\* The others: a call begins when the source is loaded, closes the socket it has
\* then, and waits.
LEMMA CallOthers ==
    ASSUME Inv, Calm, CalmInv, CallInv, OpInv,
           Socket \/ Manager \/ Awake \/ Readable \/ Calls \/ Begin \/ Changes \/ AnswerDump
    PROVE  CallInv'
<1>0. UserInv /\ Items(<<>>) = {}
  BY ItemsOfRecs, Zenon DEF Inv
<1>1. CASE Socket \/ Reload \/ Completed \/ Readable \/ AnswerDump
  <2>1. UNCHANGED <<user, pc, event, evq>> /\ nl'.open = nl.open
    BY <1>1, Zenon DEF Socket, ReadDatagram, ReadOverrun, ConnectionLost, Reload, Completed, Readable,
         AnswerDump, Inv, SocketInv
  <2>. QED
    BY <2>1, CallFrame, Zenon
<1>2. CASE Changes
  <2>1. UNCHANGED <<user, pc, event, evq, nl>>
    BY <1>2, Zenon DEF Changes, Change, Calm
  <2>. QED
    BY <2>1, CallFrame, Zenon
<1>3. CASE TaskWatch
  <2>1. UNCHANGED <<user, event, evq, nl>> /\ (pc' = pc \/ (pc = "failed" /\ pc' \in {"start", "none"}))
    BY <1>3 DEF TaskWatch
  <2>. QED
    BY <2>1, Zenon DEF CallInv, Calling, Loading
<1>4. CASE LoadEvents
  <2>1. UNCHANGED <<user, pc, nl>> /\ evq' = <<>> /\ event' = (event \/ Marker \in Items(evq))
    BY <1>4, HasItems, Zenon DEF LoadEvents
  <2>2. Marker \notin Items(evq')
    BY <1>0, <2>1, Zenon
  <2>. QED
    BY <2>1, <2>2, Zenon DEF CallInv, Calling
<1>5. CASE Awake
  <2>1. user.pc = "await" /\ event
    BY <1>5, RunningRest, Zenon DEF Awake, Inv, QueueInv, QueueOk, CalmInv, WokenByEvent
  <2>2. user'.pc = "idle" /\ user'.op \in {user.op, "raised"} /\ UNCHANGED <<pc, nl, evq, event>>
    BY <1>0, <1>5 DEF Awake, UserInv
  <2>3. Calling
    BY <2>1, Zenon DEF OpInv, Calling
  <2>. QED
    BY <2>1, <2>2, <2>3, Zenon DEF CallInv
<1>6. CASE Add
  <2>1. user.pc = "new" /\ user'.pc = "await" /\ user'.op = user.op /\ pc' = "start" /\ ~event' /\ evq' = evq
    BY <1>0, <1>6 DEF Add, Thread, Goto, UserInv
  <2>. QED
    BY <2>1, Zenon DEF CallInv, Calling, Loading
<1>7. CASE AwaitEvent
  <2>1. /\ user.pc = "closed" /\ user'.op = user.op /\ UNCHANGED <<pc, nl, evq, event>>
        /\ user'.pc = IF event THEN "idle" ELSE "await"
    BY <1>0, <1>7 DEF AwaitEvent, Thread, Goto, UserInv
  <2>. QED
    BY <2>1, Zenon DEF CallInv, Calling
<1>8. CASE CloseFlush \/ CloseAim
  <2>1. /\ user'.op = user.op /\ UNCHANGED <<pc, nl, evq, event>>
        /\ \/ user.pc = "flush" /\ user'.pc = "flushed"
           \/ user.pc = "flushed" /\ user'.pc = "closing" /\ user'.aimed
    BY <1>0, <1>8, Zenon DEF CloseFlush, CloseAim, Thread, Goto, UserInv
  <2>. QED
    BY <2>1, Zenon DEF CallInv, Calling
<1>9. CASE CloseNl
  <2>. SUFFICES ASSUME Calling' PROVE CallInv'
    BY Zenon DEF CallInv
  <2>1. /\ user.pc = "closing" /\ user'.op = user.op /\ UNCHANGED <<pc, evq, event>>
        /\ user'.pc = IF user.op = "restart" THEN "closed" ELSE "idle"
    BY <1>0, <1>9 DEF CloseNl, Thread, UserInv
  <2>2. Calling /\ user.op = "restart"
    BY <2>1, Zenon DEF Calling, OpInv
  <2>3. pc = "reading" /\ nl.open /\ Marker \notin Items(evq) /\ ~event /\ user.aimed
    BY <2>1, <2>2, Zenon DEF CallInv
  <2>. QED
    BY <2>1, <2>2, <2>3, Zenon DEF CallInv, Loading
<1>10. CASE Restart
  <2>1. /\ user.pc = "idle" /\ user'.pc = "flush" /\ "restart" \in env /\ ~event'
        /\ UNCHANGED <<pc, nl, evq>>
    BY <1>0, <1>10 DEF Restart, Thread, UserInv
  <2>2. Calling
    BY <2>1, Zenon DEF OpInv, Calling, Calm, Ordinary
  <2>. QED
    BY <2>1, <2>2, Zenon DEF CallInv
<1>11. CASE Close \/ RemoveSource
  <2>1. user'.op \in {"close", "remove"}
    BY <1>0, <1>11, Zenon DEF Close, RemoveSource, UserInv
  <2>. QED
    BY <2>1, Zenon DEF CallInv, Calling
<1>. QED
  BY <1>1, <1>2, <1>3, <1>4, <1>5, <1>6, <1>7, <1>8, <1>9, <1>10, <1>11, Zenon DEF Manager, Calls, Begin

-----------------------------------------------------------------------------
(* Every step keeps what is known of the objects that do not change. *)

\* Types, while a call waits for the load.
LEMMA InCallFacts ==
    ASSUME Inv, CalmInv, OpInv, CallInv, InCall
    PROVE  /\ Fresh /\ pc \in Live /\ db \in Db /\ evq \in Seq(Ev) /\ root \in Seq(Rec)
           /\ wire \in Seq(Dgram) /\ Events(wire) \in Seq(Rec) /\ nl.open /\ nl.bound
           /\ kernel \in Db /\ stable \subseteq Objs
           /\ event => pc = "reading"
<1>1. Fresh /\ pc \in Live
  BY Zenon DEF InCall, Fresh, Sound, CalmInv
<1>2. Calling
  BY Zenon DEF InCall, OpInv, Calling
<1>. QED
  BY <1>1, <1>2, LiveFacts, Zenon DEF CalmInv, CallInv, InCall, Fresh

\* A step that leaves the queues, the objects and the rows alone.
LEMMA StableFrame ==
    ASSUME StableInv, InCall' => InCall,
           UNCHANGED <<root, wire, tagq, evq, kernel, stable, db, event>>
    PROVE  StableInv'
<1>1. CASE ~InCall'
  BY <1>1, Zenon DEF StableInv
<1>2. CASE InCall'
  BY <1>2, Zenon DEF StableInv
<1>. QED
  BY <1>1, <1>2, Zenon

\* The system changes: the event is about an object that has changed.
LEMMA StableChange ==
    ASSUME Inv, Calm, CalmInv, OpInv, CallInv, StableInv, Changes
    PROVE  StableInv'
<1>0. PICK o \in Objs, v \in Values : Change(o, v)
  BY Zenon DEF Changes
<1>. DEFINE g == Datagram("root", <<<<o, v>>>>)
<1>1. /\ UNCHANGED <<pc, db, evq, root, tagq, user, nl, event>> /\ kernel' = Put(kernel, o, v)
      /\ v # kernel[o] /\ stable' = {x \in stable : kernel'[x] = kernel[x]}
      /\ nl.open /\ nl.bound => wire' = Append(wire, g)
  BY <1>0 DEF Change, SetKernel, May, Calm
<1>. SUFFICES ASSUME InCall PROVE StableInv'
  BY <1>1, Zenon DEF StableInv, InCall
<1>2. /\ kernel \in Db /\ stable \subseteq Objs /\ wire \in Seq(Dgram) /\ Events(wire) \in Seq(Rec)
      /\ nl.open /\ nl.bound
  BY InCallFacts, Zenon
<1>3. <<<<o, v>>>> \in Seq(Rec)
  BY ObjFacts DEF Rec
<1>4. g \in Dgram /\ g.to = "root" /\ g.recs = <<<<o, v>>>>
  BY <1>3, DatagramType, Zenon
<1>. HIDE DEF g
<1>5. stable' \subseteq stable /\ \A x \in stable' : kernel'[x] = kernel[x]
  BY <1>1, Zenon
<1>6. ASSUME NEW s
      PROVE  /\ AllSilent(s, kernel, stable) => AllSilent(s, kernel', stable')
             /\ AllRight(s, kernel, stable) => AllRight(s, kernel', stable')
  BY <1>5, Narrowed, Zenon
<1>7. AllSilent(<<<<o, v>>>>, kernel', stable')
  BY <1>1, <1>2, ChangeSilent, Zenon
<1>8. AllSilent(Events(wire'), kernel', stable')
  <2>1. Events(wire') = Events(wire) \o <<<<o, v>>>>
    BY <1>1, <1>2, <1>4, EventsAppend, Zenon DEF Gather
  <2>2. AllSilent(Events(wire), kernel', stable')
    BY <1>6, Zenon DEF StableInv
  <2>. DEFINE a == Events(wire)
              b == <<<<o, v>>>>
  <2>3. a \in Seq(Rec) /\ b \in Seq(Rec) /\ Events(wire') = a \o b
    BY <1>2, <1>3, <2>1, Zenon
  <2>4. AllSilent(a, kernel', stable') /\ AllSilent(b, kernel', stable')
    BY <1>7, <2>2, Zenon
  <2>. HIDE DEF a, b
  <2>5. AllSilent(a \o b, kernel', stable')
    BY <2>3, <2>4, AllConcat, Zenon
  <2>. QED
    BY <2>3, <2>5, Zenon
<1>9. ASSUME NEW i \in DOMAIN wire', wire'[i].to = "dump" PROVE AllRight(wire'[i].recs, kernel', stable')
  <2>1. i \in DOMAIN wire /\ wire'[i] = wire[i]
    <3>1. (i \in DOMAIN wire /\ wire'[i] = wire[i]) \/ wire'[i] = g
      <4>1. \A j \in DOMAIN Append(wire, g) :
               (j \in DOMAIN wire /\ Append(wire, g)[j] = wire[j]) \/ Append(wire, g)[j] = g
        BY <1>2, <1>4, WireAppend, Zenon
      <4>. QED
        BY <1>1, <1>2, <4>1, Zenon
    <3>. QED
      BY <1>4, <1>9, <3>1, Zenon
  <2>. QED
    BY <1>6, <1>9, <2>1, Zenon DEF StableInv
<1>10. NoStale(db', kernel', stable')
  BY <1>1, <1>5, Zenon DEF StableInv, NoStale
<1>11. AllSilent(root', kernel', stable') /\ \A i \in DOMAIN tagq' : AllRight(tagq'[i], kernel', stable')
  BY <1>1, <1>6, Zenon DEF StableInv
<1>12. AllRight(evq', kernel', stable') /\ (event' => AllSilent(evq', kernel', stable'))
  BY <1>1, <1>6, Zenon DEF StableInv
<1>. QED
  BY <1>8, <1>9, <1>10, <1>11, <1>12, Zenon DEF StableInv

\* The kernel answers with the values the objects have.
LEMMA StableAnswer ==
    ASSUME Inv, Calm, CalmInv, OpInv, CallInv, StableInv, AnswerDump
    PROVE  StableInv'
<1>. DEFINE rs == Records(kernel, IF dump = "links" THEN Links ELSE Children)
            g == Datagram("dump", rs)
<1>1. UNCHANGED <<pc, db, evq, root, tagq, user, nl, event, kernel, stable>> /\ wire' = Append(wire, g)
  BY Zenon DEF AnswerDump
<1>. SUFFICES ASSUME InCall PROVE StableInv'
  BY <1>1, Zenon DEF StableInv, InCall
<1>2. kernel \in Db /\ wire \in Seq(Dgram)
  BY InCallFacts, Zenon
<1>3. rs \in Seq(Rec) /\ AllRight(rs, kernel, stable)
  BY <1>2, RecordsOf, DumpRight, Zenon
<1>4. g \in Dgram /\ g.to = "dump" /\ g.recs = rs
  BY <1>3, DatagramType, Zenon
<1>. HIDE DEF g, rs
<1>5. Events(wire') = Events(wire)
  BY <1>1, <1>2, <1>4, EventsAppend, Zenon DEF Gather
<1>6. ASSUME NEW i \in DOMAIN wire', wire'[i].to = "dump" PROVE AllRight(wire'[i].recs, kernel, stable)
  <2>1. (i \in DOMAIN wire /\ wire'[i] = wire[i]) \/ wire'[i] = g
    BY <1>1, <1>2, <1>4, WireAppend, Zenon
  <2>. QED
    BY <1>3, <1>4, <1>6, <2>1, Zenon DEF StableInv
<1>. QED
  BY <1>1, <1>5, <1>6, Zenon DEF StableInv

\* A datagram goes to its queue.
LEMMA StableDatagram ==
    ASSUME Inv, Calm, CalmInv, OpInv, CallInv, StableInv, ReadDatagram
    PROVE  StableInv'
<1>1. UNCHANGED <<pc, db, evq, user, nl, event, kernel, stable>> /\ wire' = Tail(wire) /\ wire # <<>>
  BY Zenon DEF ReadDatagram
<1>. SUFFICES ASSUME InCall PROVE StableInv'
  BY <1>1, Zenon DEF StableInv, InCall
<1>2. wire \in Seq(Dgram) /\ root \in Seq(Rec) /\ SocketInv
  BY InCallFacts, Zenon DEF Inv
<1>3. /\ wire' \in Seq(Dgram) /\ 1 \in DOMAIN wire /\ wire[1] = Head(wire)
      /\ \A i \in DOMAIN wire' : i + 1 \in DOMAIN wire /\ wire'[i] = wire[i + 1]
  BY <1>1, <1>2, WireTail, Zenon
<1>4. Events(wire) = Gather(<<>>, Head(wire)) \o Events(wire') /\ Events(wire') \in Seq(Rec)
  BY <1>1, <1>2, <1>3, EventsHead, EventsType, Zenon
<1>5. Head(wire).to \in {"root", "dump"} /\ Head(wire).recs \in Seq(Rec) /\ Head(wire) \in Dgram
  BY <1>1, <1>2, HeadOfWire, Zenon
<1>6. Gather(<<>>, Head(wire)) \in Seq(Rec)
  <2>1. <<>> \in Seq(Rec)
    OBVIOUS
  <2>. QED
    BY <1>5, <2>1, GatherType, Zenon
<1>7. AllSilent(Gather(<<>>, Head(wire)), kernel, stable) /\ AllSilent(Events(wire'), kernel, stable)
  <2>1. AllSilent(Events(wire), kernel, stable)
    BY Zenon DEF StableInv
  <2>. QED
    BY <1>4, <1>6, <2>1, AllConcat
<1>8. ASSUME NEW i \in DOMAIN wire', wire'[i].to = "dump" PROVE AllRight(wire'[i].recs, kernel, stable)
  BY <1>3, <1>8, Zenon DEF StableInv
<1>9. AllSilent(root', kernel, stable) /\ \A i \in DOMAIN tagq' : AllRight(tagq'[i], kernel, stable)
  <2>1. CASE Head(wire).to = "root"
    <3>1. root' = root \o Head(wire).recs /\ tagq' = tagq
      BY <2>1, Zenon DEF ReadDatagram
    <3>2. AllSilent(Head(wire).recs, kernel, stable)
      <4>1. Gather(<<>>, Head(wire)) = Head(wire).recs
        BY <1>5, <2>1 DEF Gather
      <4>. QED
        BY <1>7, <4>1, Zenon
    <3>3. AllSilent(root, kernel, stable)
      BY Zenon DEF StableInv
    <3>4. AllSilent(root', kernel, stable)
      BY <1>2, <1>5, <3>1, <3>2, <3>3, AllConcat, Zenon
    <3>. QED
      BY <3>1, <3>4, Zenon DEF StableInv
  <2>2. CASE Head(wire).to = "dump"
    <3>1. root' = root /\ tagq' = <<Head(wire).recs>>
      BY <2>2, Zenon DEF ReadDatagram
    <3>2. AllRight(Head(wire).recs, kernel, stable)
      BY <1>3, <2>2, Zenon DEF StableInv
    <3>3. \A i \in DOMAIN tagq' : tagq'[i] = Head(wire).recs
      BY <3>1
    <3>. QED
      BY <3>1, <3>2, <3>3, Zenon DEF StableInv
  <2>. QED
    BY <1>5, <2>1, <2>2, Zenon
<1>. QED
  BY <1>1, <1>7, <1>8, <1>9, Zenon DEF StableInv

\* bind(): the rows are gone, and nothing is on its way.
LEMMA StableBind ==
    ASSUME Inv, Calm, CalmInv, OpInv, CallInv, ReceiverBind
    PROVE  StableInv'
<1>1. /\ pc = "endpoint" /\ nl.open /\ db' = Empty /\ evq' = Append(evq, <<Zero, 1>>)
      /\ UNCHANGED <<wire, root, tagq, kernel, user, event, stable>>
  BY DEF ReceiverBind, AtReceiver, flush
<1>. SUFFICES ASSUME InCall' PROVE StableInv'
  BY Zenon DEF StableInv
<1>2. wire = <<>> /\ root = <<>> /\ tagq = <<>>
  BY <1>1, Zenon DEF Inv, SocketInv, Loading
<1>3. evq = <<>>
  <2>1. ready # <<>> /\ Head(ready) = "receiver" /\ ready \in Seq(Callbacks)
    BY Zenon DEF ReceiverBind, AtReceiver, Running, Inv, QueueInv, QueueOk
  <2>2. ~ConsumerFirst(ready)
    <3>1. 1 \in DOMAIN ready /\ ready[1] = "receiver"
      BY <2>1
    <3>. QED
      BY <3>1 DEF ConsumerFirst
  <2>. QED
    BY <1>1, <2>2, Zenon DEF Inv, QueueInv, QueueOk
<1>4. evq' = <<<<Zero, 1>>>>
  BY <1>1, <1>3
<1>5. stable \subseteq Objs
  BY Zenon DEF CalmInv
<1>6. AllRight(evq', kernel, stable)
  BY <1>4, <1>5, AllOne, Zenon
<1>7. ~event
  <2>1. Calling /\ user.pc \in {"await", "closed"}
    BY <1>1, Zenon DEF InCall, OpInv, Calling
  <2>. QED
    BY <1>1, <2>1, Zenon DEF CallInv
<1>8. NoStale(db', kernel, stable)
  BY <1>1, <1>5, ObjFacts, Zenon DEF NoStale, Empty
<1>9. AllSilent(root', kernel, stable) /\ AllSilent(Events(wire'), kernel, stable)
  BY <1>1, <1>2, EventsEmpty, AllEmpty, Zenon
<1>10. DOMAIN wire' = {} /\ DOMAIN tagq' = {}
  BY <1>1, <1>2
<1>. QED
  BY <1>1, <1>6, <1>7, <1>8, <1>9, <1>10, Zenon DEF StableInv

\* The first dump is queued.
LEMMA StableLinks ==
    ASSUME Inv, Calm, CalmInv, OpInv, CallInv, StableInv, ReceiverLinks
    PROVE  StableInv'
<1>1. AtReceiver("links") /\ tagq' = <<>> /\ UNCHANGED <<kernel, db, nl, wire, root, user, event, stable>>
  BY Zenon DEF ReceiverLinks
<1>2. pc = "links" /\ 1 \in DOMAIN tagq /\ tagq[1] = Head(tagq) /\ Head(tagq) \in Seq(Rec)
  BY <1>1, FirstAnswer, Zenon DEF Loading
<1>. SUFFICES ASSUME InCall' PROVE StableInv'
  BY Zenon DEF StableInv
<1>3. InCall
  BY <1>1, <1>2, Zenon DEF InCall, Live, Loading
<1>4. evq \in Seq(Ev) /\ ~event /\ nl.open
  BY <1>2, <1>3, InCallFacts, Zenon
<1>5. evq' = evq \o Head(tagq)
  BY <1>4, Zenon DEF ReceiverLinks, CalmInv
<1>6. Head(tagq) \in Seq(Ev)
  BY <1>2, RecSeqIsEvSeq, Zenon
<1>7. AllRight(evq, kernel, stable) /\ AllRight(Head(tagq), kernel, stable)
  BY <1>2, <1>3, Zenon DEF StableInv
<1>8. AllRight(evq', kernel, stable)
  BY <1>4, <1>5, <1>6, <1>7, AllConcat, Zenon
<1>9. DOMAIN tagq' = {}
  BY <1>1
<1>. QED
  BY <1>1, <1>3, <1>4, <1>8, <1>9, Zenon DEF StableInv

\* What has arrived is forwarded.
LEMMA StableForward ==
    ASSUME Inv, CalmInv, OpInv, CallInv, StableInv, InCall, NEW e \in Seq(Ev), NEW w \in BOOLEAN,
           w => root # <<>>, Forward(e, w), AllRight(e, kernel, stable),
           event => AllSilent(e, kernel, stable), tagq' = <<>> \/ tagq' = tagq,
           UNCHANGED <<kernel, db, nl, wire, user, event, stable>>
    PROVE  StableInv'
<1>1. root \in Seq(Rec) /\ nl.open
  BY InCallFacts, Zenon
<1>2. evq' = e \o root /\ root' = <<>>
  BY <1>1, ForwardedRecs, Zenon DEF Forward
<1>3. root \in Seq(Ev) /\ AllSilent(root, kernel, stable)
  BY <1>1, RecSeqIsEvSeq, Zenon DEF StableInv
<1>4. AllRight(root, kernel, stable)
  BY <1>3, SilentIsRight, Zenon
<1>5. AllRight(evq', kernel, stable) /\ (event => AllSilent(evq', kernel, stable))
  BY <1>2, <1>3, <1>4, AllConcat, Zenon
<1>6. AllSilent(root', kernel, stable)
  BY <1>2, AllEmpty, Zenon
<1>7. \A i \in DOMAIN tagq' : AllRight(tagq'[i], kernel, stable)
  <2>1. \A i \in DOMAIN tagq : AllRight(tagq[i], kernel, stable)
    BY Zenon DEF StableInv
  <2>2. CASE tagq' = tagq
    BY <2>1, <2>2, Zenon
  <2>3. CASE tagq' = <<>>
    <3>1. DOMAIN tagq' = {}
      BY <2>3
    <3>. QED
      BY <3>1, Zenon
  <2>. QED
    BY <2>2, <2>3, Zenon
<1>. QED
  BY <1>5, <1>6, <1>7, Zenon DEF StableInv

\* The second dump is queued, and behind it the marker of set_ready().
LEMMA StableChildren ==
    ASSUME Inv, Calm, CalmInv, OpInv, CallInv, StableInv, ReceiverChildren
    PROVE  StableInv'
<1>1. /\ AtReceiver("children") /\ tagq' = <<>> /\ UNCHANGED <<kernel, db, nl, wire, user, event, stable>>
      /\ Forward(Append(evq \o Head(tagq), Marker), FALSE)
  BY Zenon DEF ReceiverChildren
<1>2. pc = "children" /\ 1 \in DOMAIN tagq /\ tagq[1] = Head(tagq) /\ Head(tagq) \in Seq(Rec)
  BY <1>1, FirstAnswer, Zenon DEF Loading
<1>. SUFFICES ASSUME InCall' PROVE StableInv'
  BY Zenon DEF StableInv
<1>3. InCall
  BY <1>1, <1>2, Zenon DEF InCall, Live, Loading
<1>4. evq \in Seq(Ev) /\ ~event /\ stable \subseteq Objs /\ Marker \in Ev
  BY <1>2, <1>3, InCallFacts, Zenon DEF Ev
<1>. DEFINE a == Head(tagq)
<1>5. a \in Seq(Ev)
  BY <1>2, RecSeqIsEvSeq, Zenon
<1>6. AllRight(evq, kernel, stable) /\ AllRight(a, kernel, stable)
  BY <1>2, <1>3, Zenon DEF StableInv
<1>. HIDE DEF a
<1>7. /\ evq \o a \in Seq(Ev) /\ <<Marker>> \in Seq(Ev)
      /\ Append(evq \o a, Marker) = (evq \o a) \o <<Marker>> /\ Append(evq \o a, Marker) \in Seq(Ev)
  BY <1>4, <1>5
<1>8. AllRight(evq \o a, kernel, stable)
  BY <1>4, <1>5, <1>6, AllConcat, Zenon
<1>9. AllRight(<<Marker>>, kernel, stable)
  BY <1>4, AllOne, Zenon
<1>10. AllRight(Append(evq \o a, Marker), kernel, stable)
  <2>. DEFINE x == evq \o a
              y == <<Marker>>
  <2>1. x \in Seq(Ev) /\ y \in Seq(Ev) /\ Append(evq \o a, Marker) = x \o y
    BY <1>7, Zenon
  <2>2. AllRight(x, kernel, stable) /\ AllRight(y, kernel, stable)
    BY <1>8, <1>9, Zenon
  <2>. HIDE DEF x, y
  <2>3. AllRight(x \o y, kernel, stable)
    BY <2>1, <2>2, AllConcat, Zenon
  <2>. QED
    BY <2>1, <2>3, Zenon
<1>11. Forward(Append(evq \o a, Marker), FALSE)
  BY <1>1, Zenon DEF a
<1>. QED
  BY <1>1, <1>3, <1>4, <1>7, <1>10, <1>11, StableForward, Zenon

\* Events are forwarded.
LEMMA StableEvents ==
    ASSUME Inv, Calm, CalmInv, OpInv, CallInv, StableInv, ReceiverEvents
    PROVE  StableInv'
<1>1. /\ pc = "reading" /\ Running("receiver") /\ Forward(evq, TRUE)
      /\ UNCHANGED <<kernel, db, nl, wire, user, event, stable, tagq>>
  BY Zenon DEF ReceiverEvents, AtReceiver
<1>. SUFFICES ASSUME InCall' PROVE StableInv'
  BY Zenon DEF StableInv
<1>2. InCall
  BY <1>1, Zenon DEF InCall, Live
<1>3. evq \in Seq(Ev) /\ root # <<>>
  BY <1>1, RestFacts, Zenon DEF CalmInv, ReadsSome
<1>4. AllRight(evq, kernel, stable) /\ (event => AllSilent(evq, kernel, stable))
  BY <1>2, Zenon DEF StableInv
<1>. QED
  BY <1>1, <1>2, <1>3, <1>4, StableForward, Zenon

\* The database takes its queue.
LEMMA StableLoad ==
    ASSUME Inv, Calm, CalmInv, OpInv, CallInv, StableInv, LoadEvents
    PROVE  StableInv'
<1>1. /\ db' = Replay(db, evq) /\ evq' = <<>>
      /\ UNCHANGED <<kernel, nl, wire, root, tagq, pc, user, stable>>
  BY Zenon DEF LoadEvents
<1>. SUFFICES ASSUME InCall PROVE StableInv'
  BY <1>1, Zenon DEF StableInv, InCall
<1>2. db \in Db /\ evq \in Seq(Ev) /\ stable \subseteq Objs
  BY InCallFacts, Zenon
<1>3. NoStale(db', kernel, stable)
  BY <1>1, <1>2, RightRows, Zenon DEF StableInv
<1>4. AllRight(evq', kernel, stable) /\ AllSilent(evq', kernel, stable)
  BY <1>1, AllEmpty, Zenon
<1>. QED
  BY <1>1, <1>3, <1>4, Zenon DEF StableInv

\* The others do not touch the queues, or no load is under way.
LEMMA StableOthers ==
    ASSUME Inv, Calm, CalmInv, OpInv, CallInv, StableInv, Aside
    PROVE  StableInv'
<1>0. UserInv
  BY DEF Inv
<1>1. ASSUME ~InCall' PROVE StableInv'
  BY <1>1, Zenon DEF StableInv
<1>2. CASE ReadOverrun
  BY <1>2 DEF ReadOverrun, CalmInv
<1>3. CASE ConnectionLost
  <2>1. UNCHANGED <<wire, tagq, evq, kernel, stable, db, event, nl, user, pc>>
    BY <1>3, Zenon DEF ConnectionLost
  <2>2. CASE nl.open
    <3>1. root' = root
      BY <1>3, <2>2, Zenon DEF ConnectionLost
    <3>. QED
      BY <2>1, <3>1, StableFrame, Zenon DEF InCall
  <2>3. CASE ~nl.open
    BY <1>1, <2>1, <2>3, Zenon DEF InCall
  <2>. QED
    BY <2>2, <2>3, Zenon
<1>4. CASE Reload \/ Completed \/ Readable
  <2>1. UNCHANGED <<root, wire, tagq, evq, kernel, stable, db, event, nl, user, pc>>
    BY <1>4, Zenon DEF Reload, Completed, Readable
  <2>. QED
    BY <2>1, StableFrame, Zenon DEF InCall
<1>5. CASE TaskWatch
  <2>1. UNCHANGED <<root, wire, tagq, evq, kernel, stable, db, event, nl, user>>
    BY <1>5, Zenon DEF TaskWatch
  <2>2. pc' = pc \/ pc' \in {"start", "none"}
    BY <1>5, Zenon DEF TaskWatch
  <2>3. InCall' => InCall
    BY <2>1, <2>2, Zenon DEF InCall, Live, Loading
  <2>. QED
    BY <2>1, <2>3, StableFrame, Zenon
<1>6. CASE ReceiverConnect \/ ReceiverConnectFails \/ ReceiverBindFails \/ Add
  <2>1. pc' \notin Live
    BY <1>6, Zenon DEF ReceiverConnect, ReceiverConnectFails, ReceiverBindFails, FailLoading, Add, Live, Loading
  <2>. QED
    BY <1>1, <2>1, Zenon DEF InCall
<1>7. CASE Awake \/ CloseFlush \/ CloseAim \/ Begin
  <2>1. user'.pc \notin {"await", "closed"}
    BY <1>0, <1>7, Zenon DEF Awake, CloseFlush, CloseAim, Begin, Restart, Close, RemoveSource, Goto, UserInv
  <2>. QED
    BY <1>1, <2>1, Zenon DEF InCall
<1>8. CASE AwaitEvent
  <2>1. UNCHANGED <<root, wire, tagq, evq, kernel, stable, db, event, nl, pc>> /\ user.pc = "closed"
    BY <1>8, Zenon DEF AwaitEvent, Thread
  <2>2. InCall' => InCall
    BY <2>1, Zenon DEF InCall
  <2>. QED
    BY <2>1, <2>2, StableFrame, Zenon
<1>9. CASE CloseNl
  <2>1. /\ user.pc = "closing" /\ user'.pc = IF user.op = "restart" THEN "closed" ELSE "idle"
        /\ user.aimed /\ nl.open => ~nl'.open
    BY <1>0, <1>9, Zenon DEF CloseNl, Thread, UserInv, CloseSocket, Inv, SocketInv
  <2>2. CASE user.op = "restart"
    <3>1. user.aimed /\ nl.open
      BY <2>1, <2>2, Zenon DEF CallInv, Calling
    <3>. QED
      BY <1>1, <2>1, <3>1, Zenon DEF InCall
  <2>3. CASE user.op # "restart"
    BY <1>1, <2>1, <2>3, Zenon DEF InCall
  <2>. QED
    BY <2>2, <2>3, Zenon
<1>. QED
  BY <1>2, <1>3, <1>4, <1>5, <1>6, <1>7, <1>8, <1>9, Zenon DEF Aside, Calls

-----------------------------------------------------------------------------
(* The theorem. *)

\* What is known of the call, in the environments where nothing fails.
LoadsInv == Calm => CalmInv /\ OpInv /\ CallInv /\ StableInv

\* Before add() nothing is queued.
LEMMA InitLoads == ASSUME Init PROVE LoadsInv
<1>1. CalmInv
  <2>1. nl = NoSocket /\ stable = {} /\ evq = <<>> /\ root = <<>> /\ wire = <<>> /\ ready = <<>>
    BY Zenon DEF Init
  <2>2. ~nl.err /\ ~nl.overrun
    BY <2>1, Zenon DEF NoSocket
  <2>3. evq \in Seq(Ev) /\ root \in Seq(Packets) /\ root \in Seq(Rec) /\ DOMAIN wire = {} /\ DOMAIN ready = {}
    BY <2>1
  <2>. QED
    BY <2>1, <2>2, <2>3, Zenon DEF CalmInv, WireSome, ReadsSome, WokenByEvent, Has
<1>2. user.op = "add" /\ user.pc = "new" /\ pc = "none" /\ evq = <<>>
  BY Zenon DEF Init
<1>3. OpInv /\ StableInv
  BY <1>2, Zenon DEF OpInv, StableInv, InCall
<1>4. CallInv
  BY <1>2, ItemsOfRecs, Zenon DEF CallInv
<1>. QED
  BY <1>1, <1>3, <1>4 DEF LoadsInv

\* The invariant is inductive.
LEMMA LoadsStep == ASSUME Inv, LoadsInv, [Next]_vars PROVE LoadsInv'
<1>0. env' = env
  BY EnvStays, Zenon
<1>. SUFFICES ASSUME Calm PROVE (CalmInv /\ OpInv /\ CallInv /\ StableInv)'
  BY <1>0, Zenon DEF LoadsInv, Calm, Ordinary
<1>1. CalmInv /\ OpInv /\ CallInv /\ StableInv
  BY Zenon DEF LoadsInv
<1>2. CASE Next
  <2>1. \/ Socket \/ Receiver
        \/ Manager \/ Awake \/ Readable \/ Calls \/ Begin \/ Changes \/ AnswerDump
    BY <1>2, NoApi DEF Next, Loop, Kernel
  <2>2. CalmInv'
    BY <1>1, <2>1, CalmSocket, CalmReceiver, CalmOthers, Zenon
  <2>3. OpInv'
    BY <1>1, <1>2, OpStep, Zenon
  <2>4. CallInv'
    BY <1>1, <2>1, CallReceiver, CallOthers, Zenon
  <2>5. \/ Aside \/ LoadEvents \/ ReceiverBind \/ ReceiverLinks \/ ReceiverChildren
        \/ ReceiverEvents \/ ReadDatagram \/ Changes \/ AnswerDump
    BY <2>1, Zenon DEF Manager, Receiver, Socket, Aside
  <2>6. StableInv'
    BY <1>1, <2>5, StableOthers, StableLoad, StableBind, StableLinks, StableChildren,
       StableEvents, StableDatagram, StableChange, StableAnswer, Zenon
  <2>. QED
    BY <2>2, <2>3, <2>4, <2>6, Zenon
<1>3. CASE UNCHANGED vars
  <2>1. UNCHANGED <<nl, stable, evq, root, wire, ready, pc, event>>
    BY <1>3, Zenon DEF vars
  <2>2. UNCHANGED <<env, user, tagq, kernel, db>>
    BY <1>3, Zenon DEF vars
  <2>3. CalmInv'
    BY <1>1, <2>1, Zenon DEF CalmInv, WireSome, ReadsSome, WokenByEvent
  <2>4. OpInv'
    BY <1>1, <2>2, Zenon DEF OpInv
  <2>5. CallInv'
    BY <1>1, <2>1, <2>2, CallFrame, Zenon
  <2>6. StableInv'
    BY <1>1, <2>1, <2>2, StableFrame, Zenon DEF InCall
  <2>. QED
    BY <2>3, <2>4, <2>5, <2>6, Zenon
<1>. QED
  BY <1>2, <1>3, Zenon

\* When the event is set, what has not changed is in the database.
LEMMA EventMeansLoaded ==
    ASSUME Inv, CalmInv, OpInv, CallInv, StableInv, user.pc \in {"await", "closed"}, event
    PROVE  \A o \in stable : db[o] = kernel[o]
<1>1. pc = "reading" /\ nl.open
  BY Zenon DEF CallInv, OpInv, Calling
<1>2. InCall
  BY <1>1, Zenon DEF InCall, Live
<1>3. Fresh /\ db \in Db /\ evq \in Seq(Ev) /\ Arrived \in Seq(Ev) /\ kernel \in Db /\ stable \subseteq Objs
  BY <1>2, InCallFacts, LiveFacts, Zenon
<1>4. Replay(Replay(db, evq), Arrived) = View(kernel)
  BY <1>1, <1>3, Zenon DEF Inv, LoadInv, Dumped, Loaded
<1>5. AllSilent(evq, kernel, stable)
  BY <1>2, Zenon DEF StableInv
<1>6. AllSilent(Arrived, kernel, stable)
  <2>1. AllSilent(root, kernel, stable) /\ AllSilent(Events(wire), kernel, stable)
    BY <1>2, Zenon DEF StableInv
  <2>2. root \in Seq(Rec) /\ Events(wire) \in Seq(Rec)
    BY <1>2, InCallFacts, Zenon
  <2>. QED
    BY <2>1, <2>2, AllConcat, Zenon DEF Arrived
<1>7. Replay(db, evq) \in Db
  BY <1>3, ReplayType, Zenon
<1>. SUFFICES ASSUME NEW o \in stable PROVE db[o] = kernel[o]
  BY Zenon
<1>8. CASE kernel[o] = Absent
  BY <1>2, <1>8, Zenon DEF StableInv, NoStale
<1>9. CASE kernel[o] # Absent
  <2>1. Replay(db, evq)[o] = db[o]
    BY <1>3, <1>5, <1>9, RightRows
  <2>2. Replay(Replay(db, evq), Arrived)[o] = Replay(db, evq)[o]
    BY <1>3, <1>6, <1>7, <1>9, RightRows
  <2>3. View(kernel)[o] = kernel[o]
    BY <1>3, ObjFacts, ViewRows, Zenon
  <2>. QED
    BY <1>4, <2>1, <2>2, <2>3, Zenon
<1>. QED
  BY <1>8, <1>9, Zenon

\* A call that waits returns by the event, in a step that leaves the rows alone.
LEMMA ReturnsByEvent ==
    ASSUME Inv, CalmInv, [Next]_vars, user.pc \in {"await", "closed"}, user'.pc = "idle"
    PROVE  event /\ UNCHANGED <<db, kernel, stable>>
<1>0. UserInv
  BY Zenon DEF Inv
<1>1. CASE user'.pc = user.pc
  BY <1>1, Zenon
<1>2. CASE Awake
  BY <1>2, RunningRest DEF Awake, Inv, CalmInv, WokenByEvent
<1>3. CASE AwaitEvent
  BY <1>0, <1>3 DEF AwaitEvent, Goto, UserInv
<1>4. CASE Begin \/ Add \/ CloseFlush \/ CloseAim \/ CloseNl
  BY <1>4, Zenon DEF Begin, Restart, Close, RemoveSource, Add, CloseFlush, CloseAim, CloseNl, Thread
<1>5. CASE Socket \/ Manager \/ Readable \/ Changes \/ AnswerDump \/ UNCHANGED vars
  <2>1. user' = user
    BY <1>5, Zenon DEF Socket, Manager, ReadDatagram, ReadOverrun, ConnectionLost, LoadEvents,
         Reload, Completed, TaskWatch, AnswerDump, Readable, Changes, Change, vars
  <2>. QED
    BY <1>1, <2>1, Zenon
<1>6. CASE Receiver
  <2>1. user' = user \/ user' = [user EXCEPT !.aimed = FALSE]
    BY <1>6, Zenon DEF Receiver, ReceiverConnect, ReceiverConnectFails, ReceiverBind, ReceiverBindFails,
         ReceiverLinks, ReceiverChildren, ReceiverEvents
  <2>2. user'.pc = user.pc
    BY <1>0, <2>1 DEF UserInv
  <2>. QED
    BY <1>1, <2>2, Zenon
<1>. QED
  BY <1>2, <1>3, <1>4, <1>5, <1>6, NoApi, Zenon DEF Next, Loop, Kernel, Calls

\* What did not change during restart() or add() is in the database when the call
\* returns, however the changes, datagrams, callbacks and threads interleave: the
\* marker of set_ready() that sets the event of the source follows the dump
\* through the queue of the manager, and no marker of an earlier load is left.
\* For environments without api() in which close() and restart() are not mixed: a
\* restart() that meets the load which follows a close() can make it fail, and
\* the failed load sets the event.
THEOREM RestartLoadsHolds == Spec /\ Ordinary => RestartLoads
<1>0. Ordinary /\ [Next]_vars => Ordinary'
  BY EnvStays, Zenon DEF Ordinary
<1>1. Init => LoadsInv
  BY InitLoads
<1>2. SourceInv /\ Ordinary /\ LoadsInv /\ [Next]_vars => LoadsInv'
  BY LoadsStep, Zenon DEF SourceInv, Inv, Ordinary
<1>3. SourceInv /\ Ordinary /\ LoadsInv /\ [Next]_vars
        => [/\ user.pc \in {"await", "closed"} /\ user'.pc = "idle"
            /\ env \cap {"fail", "overrun"} = {}
            => \A o \in stable' : db'[o] = kernel'[o]]_vars
  <2>. SUFFICES ASSUME SourceInv, Ordinary, LoadsInv, [Next]_vars,
                       user.pc \in {"await", "closed"}, user'.pc = "idle",
                       env \cap {"fail", "overrun"} = {}
                PROVE  \A o \in stable' : db'[o] = kernel'[o]
    BY Zenon
  <2>1. Inv
    BY Zenon DEF SourceInv, Inv, Ordinary
  <2>2. CalmInv /\ OpInv /\ CallInv /\ StableInv
    BY Zenon DEF LoadsInv, Calm
  <2>3. event /\ UNCHANGED <<db, kernel, stable>>
    BY <2>1, <2>2, ReturnsByEvent, Zenon
  <2>. QED
    BY <2>1, <2>2, <2>3, EventMeansLoaded, Zenon
<1>. QED
  BY <1>0, <1>1, <1>2, <1>3, SourceInvariant, PTL DEF Spec, RestartLoads
=============================================================================
