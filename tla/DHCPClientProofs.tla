--------------------------- MODULE DHCPClientProofs ---------------------------
(***************************************************************************)
(* Proofs about DHCPClient for every set of environments and every bound.  *)
(*                                                                         *)
(* LeaseFitsState and TimersFitLease are inductive together with           *)
(* Remembered: which lease __aenter__() finds decides whether the one the  *)
(* client still has, and the timers that an ACK armed during __aexit__(),  *)
(* fit the state it starts in.  SendsForState is inductive by itself, once *)
(* the queue is known to be a sequence.  TypeOK needs Budget: for all that *)
(* will end in a reset() there is a transaction id left.                   *)
(***************************************************************************)
EXTENDS DHCPClient, SequenceTheorems, FiniteSetTheorems, TLAPS

AnyMessage == [type : Types, epoch : Nat] \cup {None}

\* The part of the type invariant that the proofs rest on.
Shape ==
    /\ state \in States
    /\ xid \in Nat /\ granted \in Nat
    /\ timers \in [Timers -> Nat \cup {None}]
    /\ lease \in Nat \cup {None} /\ file \in Nat \cup {None}
    /\ sendq \in Seq(AnyMessage) /\ msg \in AnyMessage

\* Before the first start the client is OFF and has no lease; later it is the one that is stored,
\* unless it could not be written, and so are the leases of the timers.
Remembered ==
    /\ xid = 0 => lease = None /\ state = "OFF"
    /\ "nodump" \notin env =>
          /\ lease # None => file # None
          /\ \A t \in Timers : timers[t] \in {None, file}

LeaseInv == LeaseFitsState /\ TimersFitLease /\ Remembered

-----------------------------------------------------------------------------
(* What the helpers change *)

\* Cancelled timers have the type of timers.
LEMMA NoTimersType == NoTimers \in [Timers -> Nat \cup {None}]
BY DEF NoTimers

\* A packet of the client is a message that its queue may hold.
LEMMA PacketType ==
    ASSUME xid \in Nat, NEW type \in Types
    PROVE  Packet(type) \in AnyMessage /\ Packet(type) # None /\ Packet(type).type = type
BY ClientAssumption DEF Packet, AnyMessage

\* Each of the packets of the client in turn.
LEMMA PacketTypes ==
    ASSUME xid \in Nat
    PROVE  /\ Packet("DISCOVER") \in AnyMessage /\ Packet("DISCOVER") # None
           /\ Packet("DISCOVER").type = "DISCOVER"
           /\ Packet("REQUEST") \in AnyMessage /\ Packet("REQUEST") # None
           /\ Packet("REQUEST").type = "REQUEST"
           /\ Packet("RELEASE") \in AnyMessage
BY PacketType DEF Types

\* What reset() puts into the queue.
LEMMA DiscoverType ==
    ASSUME xid \in Nat
    PROVE  /\ [type |-> "DISCOVER", epoch |-> xid + 1] \in AnyMessage
           /\ [type |-> "DISCOVER", epoch |-> xid + 1] # None
BY ClientAssumption DEF AnyMessage, Types

\* What reset() puts into the queue ends with its DISCOVER.
LEMMA ResetQueue ==
    ASSUME sendq \in Seq(AnyMessage), NEW m \in AnyMessage
    PROVE  /\ sendq \o <<None, m>> \in Seq(AnyMessage)
           /\ sendq \o <<None, m>> # <<>>
           /\ (sendq \o <<None, m>>)[Len(sendq \o <<None, m>>)] = m
<1>1. <<None, m>> \in Seq(AnyMessage) /\ Len(<<None, m>>) = 2 /\ <<None, m>>[2] = m
    BY DEF AnyMessage
<1> QED BY <1>1

\* What transition() puts into the queue is its last message.
LEMMA AppendQueue ==
    ASSUME sendq \in Seq(AnyMessage), NEW m \in AnyMessage
    PROVE  /\ Append(sendq, m) \in Seq(AnyMessage)
           /\ Append(sendq, m) # <<>>
           /\ Append(sendq, m)[Len(Append(sendq, m))] = m
OBVIOUS

\* reset() preserves the shape of what it changes.
LEMMA ResetShape ==
    ASSUME Shape, Reset, UNCHANGED msg
    PROVE  Shape'
<1>1. sendq' \in Seq(AnyMessage)
    BY DiscoverType, ResetQueue DEF Shape, Reset
<1> QED BY <1>1, NoTimersType DEF Shape, Reset, SetState, States

\* Steps that change none of these variables preserve the shape.
LEMMA ShapeUntouched ==
    ASSUME Shape, UNCHANGED <<state, xid, sendq, msg, leasevars>>
    PROVE  Shape'
BY DEF Shape, leasevars

-----------------------------------------------------------------------------

\* A new client has the shape.
LEMMA ShapeInit == Init => Shape
BY NoTimersType DEF Init, Shape, States, AnyMessage

\* Every action preserves the shape: one step per action.
LEMMA ShapeNext == Shape /\ [Next]_vars => Shape'
<1> SUFFICES ASSUME Shape, [Next]_vars PROVE Shape'
    OBVIOUS
<1>1. CASE UNCHANGED vars
    <2>1. UNCHANGED <<state, xid, sendq, msg, leasevars>>
        BY <1>1 DEF vars, queuevars
    <2> QED BY <2>1, ShapeUntouched
<1>2. CASE Enter
    BY <1>2 DEF Enter, Load, Started, Shape, SetState, States, AnyMessage
<1>3. CASE EnterRaises
    BY <1>3 DEF EnterRaises, Load, Shape, queuevars
<1>4. CASE Bootstrap
    BY <1>4, PacketTypes, AppendQueue
    DEF Bootstrap, Transition, SetState, Shape, States, leasevars
<1>5. CASE WatchdogFires
    BY <1>5, ResetShape DEF WatchdogFires
<1>6. ASSUME NEW t \in Timers, TimerFires(t) PROVE Shape'
    BY <1>6 DEF TimerFires, Shape, queuevars
<1>7. ASSUME NEW call \in {"renew", "rebind", "hup"}, Signal(call) PROVE Shape'
    BY <1>7, ShapeUntouched DEF Signal, queuevars
<1>8. CASE Renew
    <2>1. sendq' \in Seq(AnyMessage)
        BY <1>8, PacketTypes, AppendQueue DEF Renew, Transition, Shape
    <2> QED BY <1>8, <2>1 DEF Renew, Transition, SetState, Shape, States, Timers
<1>9. CASE Rebind
    <2>1. sendq' \in Seq(AnyMessage)
        BY <1>9, PacketTypes, AppendQueue DEF Rebind, Transition, Shape
    <2> QED BY <1>9, <2>1 DEF Rebind, Transition, SetState, Shape, States, Timers
<1>10. CASE HangUp
    BY <1>10, ResetShape, ShapeUntouched DEF HangUp, ResetRaises
<1>11. ASSUME NEW l \in Leases, Expire(l) PROVE Shape'
    BY <1>11 DEF Expire, Shape, queuevars, Timers
<1>12. ASSUME NEW l \in Leases, ExpireResets(l) PROVE Shape'
    BY <1>12, ResetShape, ShapeUntouched DEF ExpireResets, ResetRaises
<1>13. CASE SenderWakes
    <2>1. sendq' \in Seq(AnyMessage) /\ msg' \in AnyMessage
        BY <1>13 DEF SenderWakes, Shape
    <2> QED BY <1>13, <2>1 DEF SenderWakes, Shape, leasevars
<1>14. CASE SendDone
    BY <1>14, ShapeUntouched DEF SendDone
<1>15. CASE SendNetDown
    BY <1>15, ShapeUntouched DEF SendNetDown
<1>16. ASSUME NEW m \in sent, OfferReceived(m) PROVE Shape'
    <2>1. sendq' \in Seq(AnyMessage)
        BY <1>16, PacketTypes, AppendQueue DEF OfferReceived, Transition, Shape
    <2> QED BY <1>16, <2>1 DEF OfferReceived, Transition, SetState, Shape, States, leasevars
<1>17. ASSUME NEW m \in sent, AckReceived(m) PROVE Shape'
    <2>1. sendq' \in Seq(AnyMessage)
        BY <1>17, AppendQueue DEF AckReceived, Transition, Shape, AnyMessage
    <2>2. timers' \in [Timers -> Nat \cup {None}]
        BY <1>17 DEF AckReceived, SetLease, Shape
    <2> QED BY <1>17, <2>1, <2>2 DEF AckReceived, SetLease, Transition, SetState, Shape, States
<1>18. CASE AckHooksDone
    BY <1>18, ShapeUntouched DEF AckHooksDone, queuevars
<1>19. ASSUME NEW m \in sent, NakReceived(m) PROVE Shape'
    BY <1>19, ResetShape, ShapeUntouched DEF NakReceived
<1>20. CASE NakResets
    BY <1>20, ResetShape DEF NakResets
<1>21. CASE ReceiverEnds
    BY <1>21, ShapeUntouched DEF ReceiverEnds, queuevars
<1>22. ASSUME NEW b \in BOOLEAN, Exit(b) PROVE Shape'
    BY <1>22, NoTimersType DEF Exit, SetState, Shape, States, queuevars
<1>23. ASSUME NEW b \in BOOLEAN, ExitReleases(b) PROVE Shape'
    <2>1. sendq' \in Seq(AnyMessage)
        BY <1>23, PacketTypes, AppendQueue DEF ExitReleases, Shape
    <2> QED BY <1>23, <2>1 DEF ExitReleases, SetState, Shape, States, leasevars
<1>24. ASSUME NEW task \in {"sender", "receiver"}, OffSeen(task) PROVE Shape'
    BY <1>24, ShapeUntouched DEF OffSeen, queuevars
<1>25. CASE ExitAwaits
    BY <1>25, ShapeUntouched DEF ExitAwaits, queuevars
<1> QED
    BY <1>1, <1>2, <1>3, <1>4, <1>5, <1>6, <1>7, <1>8, <1>9, <1>10, <1>11, <1>12, <1>13,
       <1>14, <1>15, <1>16, <1>17, <1>18, <1>19, <1>20, <1>21, <1>22, <1>23, <1>24, <1>25
    DEF Next, Receiving, Callbacks

\* The variables keep the types on which the other proofs rest.
THEOREM ShapeHolds == Spec => []Shape
BY ShapeInit, ShapeNext, PTL DEF Spec

-----------------------------------------------------------------------------
(* The lease and the timers *)

\* A client that could not be entered again stays so.
Stays == manager = "refused" => manager' = "refused"

\* Nothing enters or exits a client that could not be entered again.
LEMMA RefusedStays == [Next]_vars => Stays
<1> SUFFICES ASSUME [Next]_vars, manager = "refused" PROVE manager' = "refused"
    BY DEF Stays
<1>1. CASE Enter \/ EnterRaises \/ Bootstrap \/ ExitAwaits
           \/ \E b \in BOOLEAN : Exit(b) \/ ExitReleases(b)
    BY <1>1 DEF Enter, EnterRaises, Load, Bootstrap, ExitAwaits, Exit, ExitReleases
<1>2. CASE WatchdogFires \/ (\E t \in Timers : TimerFires(t))
           \/ \E call \in {"renew", "rebind", "hup"} : Signal(call)
    BY <1>2 DEF WatchdogFires, TimerFires, Signal
<1>3. CASE Callbacks
    BY <1>3 DEF Callbacks, Renew, Rebind, HangUp, Expire, ExpireResets
<1>4. CASE SenderWakes \/ SendDone \/ SendNetDown \/ UNCHANGED vars
           \/ \E task \in {"sender", "receiver"} : OffSeen(task)
    BY <1>4 DEF SenderWakes, SendDone, SendNetDown, vars, OffSeen
<1>5. CASE Receiving \/ \E m \in sent : NakReceived(m)
    BY <1>5 DEF Receiving, OfferReceived, AckReceived, AckHooksDone, NakResets, ReceiverEnds,
       NakReceived
<1> QED BY <1>1, <1>2, <1>3, <1>4, <1>5 DEF Next

\* Steps that change neither state, lease nor timers preserve the invariant.
LEMMA LeaseUntouched ==
    ASSUME LeaseInv, Stays, UNCHANGED <<env, state, watchdog, xid, leasevars>>
    PROVE  LeaseInv'
BY DEF LeaseInv, LeaseFitsState, TimersFitLease, Remembered, LeaseIsFound, leasevars, Stays

\* A state is entered that needs the same lease as the old one.
LEMMA LeaseSameKind ==
    ASSUME LeaseInv, Stays, NEW s, SetState(s), UNCHANGED <<env, xid, leasevars>>,
           \/ s = "OFF"
           \/ /\ s \in {"REBOOTING", "RENEWING", "REBINDING"}
              /\ state \in {"INIT_REBOOT", "BOUND", "RENEWING"}
           \/ /\ s \in {"SELECTING", "REQUESTING"}
              /\ state \in {"INIT", "SELECTING"}
    PROVE  LeaseInv'
BY Zenon DEF LeaseInv, LeaseFitsState, TimersFitLease, Remembered, LeaseIsFound, leasevars,
       SetState, Timeouts, Stays

\* reset() leaves neither a lease nor timers nor a watchdog behind.
LEMMA LeaseReset ==
    ASSUME Shape, LeaseInv, Reset, UNCHANGED env
    PROVE  LeaseInv'
<1>1. /\ state' = "SELECTING" /\ lease' = None /\ UNCHANGED file
      /\ xid' # 0 /\ \A t \in Timers : timers'[t] = None
    BY DEF Reset, SetState, NoTimers, Shape
<1>2. watchdog' <=> state' \in Timeouts
    BY Zenon DEF Reset, SetState
<1> QED BY <1>1, <1>2
    DEF LeaseInv, LeaseFitsState, TimersFitLease, Remembered, LeaseIsFound

\* A step that only cancels timers.
LEMMA LeaseFewerTimers ==
    ASSUME LeaseInv, Stays, UNCHANGED <<env, state, watchdog, xid, lease, file>>,
           \A t \in Timers : timers'[t] \in {None, timers[t]}
    PROVE  LeaseInv'
BY DEF LeaseInv, LeaseFitsState, TimersFitLease, Remembered, LeaseIsFound, Stays

\* A new client satisfies the invariant of the lease.
LEMMA LeaseInit == Init => LeaseInv
<1> SUFFICES ASSUME Init PROVE LeaseInv
    OBVIOUS
<1>1. watchdog <=> state \in Timeouts
    BY DEF Init, Timeouts
<1>2. \A t \in Timers : timers[t] = None
    BY DEF Init, NoTimers
<1> QED BY <1>1, <1>2 DEF Init, LeaseInv, LeaseFitsState, TimersFitLease, Remembered

\* __aenter__() begins: the lease that is loaded is the one of the timers.
LEMMA LeaseLoad ==
    ASSUME Shape, LeaseInv, Load, UNCHANGED <<env, timers, file>>
    PROVE  /\ LeaseIsFound => "nodump" \notin env \/ xid = 0
           /\ LeaseIsFound' => \A t \in Timers : timers'[t] \in {None, lease'}
           /\ Remembered'
<1>1. LeaseIsFound => "nodump" \notin env \/ xid = 0
    BY DEF Load, LeaseIsFound
<1>2. LeaseIsFound' => \A t \in Timers : timers'[t] \in {None, lease'}
    BY <1>1 DEF Load, LeaseInv, Remembered, TimersFitLease, LeaseIsFound
<1>3. Remembered'
    BY DEF Load, LeaseInv, Remembered, Shape
<1> QED BY <1>1, <1>2, <1>3

\* __aenter__(): the lease that is loaded replaces the one the client has, and
\* when none is loaded there is none, or it could not be written.
LEMMA LeaseEnter == Shape /\ LeaseInv /\ Enter => LeaseInv'
<1> SUFFICES ASSUME Shape, LeaseInv, Enter PROVE LeaseInv'
    OBVIOUS
<1>1. /\ state' = (IF file # None THEN "INIT_REBOOT" ELSE "INIT")
      /\ watchdog' = (state' \in Timeouts)
    BY DEF Enter, Started, SetState
<1>2. Load /\ UNCHANGED <<env, timers, file>>
    BY DEF Enter
<1>3. LeaseFitsState'
    BY <1>1, <1>2, LeaseLoad DEF Load, LeaseInv, Remembered, LeaseFitsState, LeaseIsFound
<1>4. TimersFitLease'
    BY <1>1, <1>2, LeaseLoad, Zenon DEF TimersFitLease
<1> QED BY <1>2, <1>3, <1>4, LeaseLoad DEF LeaseInv

\* __aenter__() that raises leaves the state, and the stored lease with it.
LEMMA LeaseEnterRaises == Shape /\ LeaseInv /\ EnterRaises => LeaseInv'
<1> SUFFICES ASSUME Shape, LeaseInv, EnterRaises PROVE LeaseInv'
    OBVIOUS
<1>1. Load /\ UNCHANGED <<env, state, watchdog, timers, file>> /\ manager' = "refused"
    BY DEF EnterRaises
<1>2. LeaseFitsState'
    BY <1>1 DEF Load, LeaseInv, LeaseFitsState
<1>3. TimersFitLease'
    BY <1>1, LeaseLoad DEF LeaseInv, TimersFitLease
<1> QED BY <1>1, <1>2, <1>3, LeaseLoad DEF LeaseInv

\* ack_received(): lease, timers and file agree, or the file is not written.
LEMMA LeaseAck ==
    ASSUME Shape, LeaseInv, NEW m, AckReceived(m)
    PROVE  LeaseInv'
<1>1. granted + 1 # None
    BY ClientAssumption DEF Shape
<1>2. /\ lease' = granted + 1 /\ xid' = xid /\ env' = env
      /\ state' = "BOUND" /\ watchdog' = (state' \in Timeouts)
    BY DEF AckReceived, SetLease, Transition, SetState
<1>3. \A t \in Timers : timers'[t] \in {None, granted + 1}
    BY DEF AckReceived, SetLease
<1>4. "nodump" \notin env => file' = granted + 1
    BY DEF AckReceived, SetLease
<1>5. xid # 0
    BY DEF AckReceived, Requesting, LeaseInv, Remembered
<1> QED BY <1>1, <1>2, <1>3, <1>4, <1>5, Zenon
    DEF LeaseInv, LeaseFitsState, TimersFitLease, Remembered, LeaseIsFound

\* One step per action; those that touch neither state nor lease come last.
LEMMA LeaseNext == Shape /\ LeaseInv /\ [Next]_vars => LeaseInv'
<1> SUFFICES ASSUME Shape, LeaseInv, [Next]_vars PROVE LeaseInv'
    OBVIOUS
<1>0. Stays
    BY RefusedStays
<1>1. CASE Enter
    BY <1>1, LeaseEnter
<1>2. CASE Bootstrap
    BY <1>0, <1>2, LeaseSameKind DEF Bootstrap, Transition
<1>3. CASE WatchdogFires
    BY <1>3, LeaseReset DEF WatchdogFires
<1>4. ASSUME NEW t \in Timers, TimerFires(t) PROVE LeaseInv'
    BY <1>0, <1>4, LeaseFewerTimers DEF TimerFires, Shape
<1>5. CASE Renew
    <2>1. CASE state = "BOUND"
        <3>1. /\ timers' = [timers EXCEPT !["renewal"] = None]
              /\ SetState("RENEWING") /\ UNCHANGED <<env, xid, lease, file>>
            BY <1>5, <2>1 DEF Renew, Transition
        <3>2. \A t \in Timers : timers'[t] \in {None, timers[t]}
            BY <3>1 DEF Shape
        <3> QED BY <2>1, <3>1, <3>2, Zenon DEF SetState, LeaseInv, LeaseFitsState,
                TimersFitLease, Remembered, LeaseIsFound
    <2>2. CASE state # "BOUND"
        BY <1>0, <1>5, <2>2, LeaseUntouched DEF Renew, leasevars
    <2> QED BY <2>1, <2>2
<1>6. CASE Rebind
    <2>1. CASE state \in {"BOUND", "RENEWING"}
        <3>1. /\ timers' = [timers EXCEPT !["renewal"] = None, !["rebinding"] = None]
              /\ SetState("REBINDING") /\ UNCHANGED <<env, xid, lease, file>>
            BY <1>6, <2>1 DEF Rebind, Transition
        <3>2. \A t \in Timers : timers'[t] \in {None, timers[t]}
            BY <3>1 DEF Shape
        <3> QED BY <2>1, <3>1, <3>2, Zenon DEF SetState, LeaseInv, LeaseFitsState,
                TimersFitLease, Remembered, LeaseIsFound
    <2>2. CASE state \notin {"BOUND", "RENEWING"}
        BY <1>0, <1>6, <2>2, LeaseUntouched DEF Rebind, leasevars
    <2> QED BY <2>1, <2>2
<1>7. CASE HangUp
    BY <1>0, <1>7, LeaseReset, LeaseUntouched DEF HangUp, ResetRaises
<1>8. ASSUME NEW l \in Leases, Expire(l) PROVE LeaseInv'
    BY <1>0, <1>8, LeaseFewerTimers DEF Expire, Shape
<1>9. ASSUME NEW l \in Leases, ExpireResets(l) PROVE LeaseInv'
    BY <1>0, <1>9, LeaseReset, LeaseUntouched DEF ExpireResets, ResetRaises
<1>10. ASSUME NEW m \in sent, OfferReceived(m) PROVE LeaseInv'
    BY <1>0, <1>10, LeaseSameKind DEF OfferReceived, Transition
<1>11. ASSUME NEW m \in sent, AckReceived(m) PROVE LeaseInv'
    BY <1>11, LeaseAck
<1>12. ASSUME NEW m \in sent, NakReceived(m) PROVE LeaseInv'
    BY <1>0, <1>12, LeaseReset, LeaseUntouched DEF NakReceived
<1>13. CASE NakResets
    BY <1>13, LeaseReset DEF NakResets
<1>14. ASSUME NEW b \in BOOLEAN, Exit(b) PROVE LeaseInv'
    <2>1. \A t \in Timers : timers'[t] = None
        BY <1>14 DEF Exit, NoTimers
    <2>2. UNCHANGED <<env, xid, lease, file>>
          /\ (UNCHANGED <<state, watchdog>> \/ SetState("OFF"))
        BY <1>14 DEF Exit
    <2>3. watchdog' <=> state' \in Timeouts
        <3>1. CASE UNCHANGED <<state, watchdog>>
            BY <3>1 DEF LeaseInv, TimersFitLease
        <3>2. CASE SetState("OFF")
            BY <3>2, Zenon DEF SetState
        <3> QED BY <2>2, <3>1, <3>2
    <2> QED BY <1>0, <2>1, <2>2, <2>3 DEF SetState, LeaseInv, LeaseFitsState, TimersFitLease,
            Remembered, LeaseIsFound, Stays
<1>15. ASSUME NEW b \in BOOLEAN, ExitReleases(b) PROVE LeaseInv'
    BY <1>0, <1>15, LeaseSameKind, LeaseUntouched DEF ExitReleases
<1>16. CASE \/ SenderWakes \/ SendDone \/ SendNetDown \/ AckHooksDone
            \/ ReceiverEnds \/ ExitAwaits \/ UNCHANGED vars
            \/ \E call \in {"renew", "rebind", "hup"} : Signal(call)
            \/ \E task \in {"sender", "receiver"} : OffSeen(task)
    <2>1. UNCHANGED <<env, state, watchdog, xid, leasevars>>
        BY <1>16 DEF SenderWakes, SendDone, SendNetDown, AckHooksDone,
           ReceiverEnds, ExitAwaits, vars, Signal, OffSeen
    <2> QED BY <1>0, <2>1, LeaseUntouched
<1>17. CASE EnterRaises
    BY <1>17, LeaseEnterRaises
<1> QED
    BY <1>1, <1>2, <1>3, <1>4, <1>5, <1>6, <1>7, <1>8, <1>9, <1>10, <1>11, <1>12, <1>13,
       <1>14, <1>15, <1>16, <1>17 DEF Next, Receiving, Callbacks

\* Whatever interleaves with reset() and __aexit__(), the client has a lease in
\* exactly the states that need one.
THEOREM LeaseFitsStateHolds == Spec => []LeaseFitsState
<1>1. LeaseInv => LeaseFitsState
    BY DEF LeaseInv
<1> QED BY <1>1, LeaseInit, LeaseNext, ShapeHolds, PTL DEF Spec

\* Neither a timer outlives its lease nor a watchdog its state.
THEOREM TimersFitLeaseHolds == Spec => []TimersFitLease
<1>1. LeaseInv => TimersFitLease
    BY DEF LeaseInv
<1> QED BY <1>1, LeaseInit, LeaseNext, ShapeHolds, PTL DEF Spec

-----------------------------------------------------------------------------
(* What is sent *)

\* What each state is to send.
LEMMA WantedValues ==
    /\ Wanted["SELECTING"] = "DISCOVER" /\ Wanted["BOUND"] = "nothing"
    /\ \A s \in Requesting : Wanted[s] = "REQUEST"
BY DEF Wanted, States, Requesting

\* Steps that leave state, queue and message alone go on sending the same.
LEMMA SendsUntouched ==
    ASSUME SendsForState, UNCHANGED <<state, sendq, msg>>, manager' = "in" => manager = "in"
    PROVE  SendsForState'
BY DEF SendsForState, Outgoing

\* After a transition() the message it has queued is the one that will be sent.
LEMMA SendsTransition ==
    ASSUME Shape, NEW s, NEW send \in AnyMessage, Transition(s, send),
           IF send = None THEN Wanted[s] = "nothing" ELSE send.type = Wanted[s]
    PROVE  SendsForState'
<1>1. Outgoing' = send
    BY AppendQueue DEF Shape, Transition, Outgoing
<1>2. state' = s
    BY DEF Transition, SetState
<1> QED BY <1>1, <1>2 DEF SendsForState

\* After reset() the client sends the DISCOVER of SELECTING.
LEMMA SendsReset ==
    ASSUME Shape, Reset
    PROVE  SendsForState'
<1>1. Outgoing' = [type |-> "DISCOVER", epoch |-> xid + 1]
    BY DiscoverType, ResetQueue DEF Shape, Reset, Outgoing
<1>2. state' = "SELECTING"
    BY DEF Reset, SetState
<1> QED BY <1>1, <1>2, DiscoverType, WantedValues DEF SendsForState, Shape

\* Reading one of several messages leaves the last in place.
LEMMA TailQueue ==
    ASSUME sendq \in Seq(AnyMessage), sendq # <<>>, Len(sendq) # 1
    PROVE  Tail(sendq) # <<>> /\ Tail(sendq)[Len(Tail(sendq))] = sendq[Len(sendq)]
<1>1. Len(sendq) \in Nat /\ Len(sendq) > 1
    <2>1. Len(sendq) \in Nat \ {0}
        BY EmptySeq, Zenon
    <2>2. \A n \in Nat \ {0} : n # 1 => n \in Nat /\ n > 1
        OBVIOUS
    <2> QED BY <2>1, <2>2, Zenon
<1>2. /\ Tail(sendq) \in Seq(AnyMessage)
      /\ Len(Tail(sendq)) = Len(sendq) - 1
      /\ \A i \in 1..Len(Tail(sendq)) : Tail(sendq)[i] = sendq[i + 1]
    BY HeadTailProperties
<1>3. Tail(sendq) # <<>>
    <2>1. Len(Tail(sendq)) # 0
        BY <1>1, <1>2
    <2>2. Len(<<>>) = 0
        BY EmptySeq, Zenon
    <2> QED BY <2>1, <2>2, Zenon
<1> QED BY <1>1, <1>2, <1>3

\* Reading the queue changes what is next, never what is last.
LEMMA SendsWakes ==
    ASSUME Shape, SenderWakes
    PROVE  Outgoing' = Outgoing
<1>1. CASE sendq = <<>>
    BY <1>1 DEF SenderWakes, Outgoing
<1>2. CASE sendq # <<>> /\ Len(sendq) = 1
    <2>1. sendq' = <<>> /\ msg' = sendq[1]
        BY <1>2 DEF SenderWakes, Shape
    <2> QED BY <1>2, <2>1 DEF Outgoing
<1>3. CASE sendq # <<>> /\ Len(sendq) # 1
    <2>1. /\ sendq' = Tail(sendq) /\ sendq' # <<>>
          /\ sendq'[Len(sendq')] = sendq[Len(sendq)]
        BY <1>3, TailQueue DEF SenderWakes, Shape
    <2> QED BY <1>3, <2>1 DEF Outgoing
<1> QED BY <1>1, <1>2, <1>3

\* A new client is not entered yet, and sends nothing.
LEMMA SendsInit == Init => SendsForState
BY DEF Init, SendsForState

\* Every action preserves SendsForState: one step per action.
LEMMA SendsNext == Shape /\ SendsForState /\ [Next]_vars => SendsForState'
<1> SUFFICES ASSUME Shape, SendsForState, [Next]_vars PROVE SendsForState'
    OBVIOUS
<1>1. CASE Bootstrap
    <2>1. CASE Transition("SELECTING", Packet("DISCOVER"))
        BY <2>1, PacketTypes, WantedValues, SendsTransition DEF Shape
    <2>2. CASE Transition("REBOOTING", Packet("REQUEST"))
        BY <2>2, PacketTypes, WantedValues, SendsTransition DEF Shape, Requesting
    <2> QED BY <1>1, <2>1, <2>2 DEF Bootstrap
<1>2. CASE Renew
    <2>1. CASE state = "BOUND"
        <3>1. Transition("RENEWING", Packet("REQUEST"))
            BY <1>2, <2>1 DEF Renew
        <3> QED BY <3>1, PacketTypes, WantedValues, SendsTransition DEF Shape, Requesting
    <2>2. CASE state # "BOUND"
        BY <1>2, <2>2, SendsUntouched DEF Renew
    <2> QED BY <2>1, <2>2
<1>3. CASE Rebind
    <2>1. CASE state \in {"BOUND", "RENEWING"}
        <3>1. Transition("REBINDING", Packet("REQUEST"))
            BY <1>3, <2>1 DEF Rebind
        <3> QED BY <3>1, PacketTypes, WantedValues, SendsTransition DEF Shape, Requesting
    <2>2. CASE state \notin {"BOUND", "RENEWING"}
        BY <1>3, <2>2, SendsUntouched DEF Rebind
    <2> QED BY <2>1, <2>2
<1>4. ASSUME NEW m \in sent, OfferReceived(m) PROVE SendsForState'
    <2>1. Transition("REQUESTING", Packet("REQUEST"))
        BY <1>4 DEF OfferReceived
    <2> QED BY <2>1, PacketTypes, WantedValues, SendsTransition DEF Shape, Requesting
<1>5. ASSUME NEW m \in sent, AckReceived(m) PROVE SendsForState'
    <2>1. Transition("BOUND", None) /\ None \in AnyMessage
        BY <1>5 DEF AckReceived, AnyMessage
    <2> QED BY <2>1, WantedValues, SendsTransition
<1>6. CASE WatchdogFires
    BY <1>6, SendsReset DEF WatchdogFires
<1>7. CASE HangUp
    BY <1>7, SendsReset, SendsUntouched DEF HangUp, ResetRaises
<1>8. ASSUME NEW l \in Leases, ExpireResets(l) PROVE SendsForState'
    BY <1>8, SendsReset, SendsUntouched DEF ExpireResets, ResetRaises
<1>9. ASSUME NEW m \in sent, NakReceived(m) PROVE SendsForState'
    BY <1>9, SendsReset, SendsUntouched DEF NakReceived
<1>10. CASE NakResets
    BY <1>10, SendsReset DEF NakResets
<1>11. CASE SenderWakes
    BY <1>11, SendsWakes DEF SenderWakes, SendsForState
<1>12. CASE \/ Enter \/ EnterRaises \/ ExitAwaits \/ (\E b \in BOOLEAN : Exit(b) \/ ExitReleases(b))
    <2>1. manager' # "in"
        BY <1>12 DEF Enter, EnterRaises, ExitAwaits, Exit, ExitReleases
    <2> QED BY <2>1 DEF SendsForState
<1>13. CASE \/ SendDone \/ SendNetDown \/ AckHooksDone \/ ReceiverEnds
            \/ UNCHANGED vars \/ (\E t \in Timers : TimerFires(t))
            \/ (\E call \in {"renew", "rebind", "hup"} : Signal(call))
            \/ (\E l \in Leases : Expire(l))
            \/ (\E task \in {"sender", "receiver"} : OffSeen(task))
    <2>1. UNCHANGED <<state, sendq, msg>> /\ (manager' = "in" => manager = "in")
        BY <1>13 DEF SendDone, SendNetDown, AckHooksDone, ReceiverEnds, vars,
           queuevars, TimerFires, Signal, Expire, OffSeen
    <2> QED BY <2>1, SendsUntouched
<1> QED
    BY <1>1, <1>2, <1>3, <1>4, <1>5, <1>6, <1>7, <1>8, <1>9, <1>10, <1>11, <1>12, <1>13
    DEF Next, Receiving, Callbacks

\* While it runs, the client ends up sending what its state is for: transition()
\* and reset() queue it last, and the sender never loses what is last.
THEOREM SendsForStateHolds == Spec => []SendsForState
BY SendsInit, SendsNext, ShapeHolds, PTL DEF Spec

-----------------------------------------------------------------------------
(* The transaction ids that are left *)

\* The tasks that will end in a reset(): those of SIGHUP and of expirations, the
\* expirations in their hooks, and a NAK in its hooks.
Due == {p \in pending : p.name \in {"hup", "expire"}}
Nak == IF receiver = "nak" THEN 1 ELSE 0

\* There is a transaction id for each of them.
Budget ==
    /\ xid \in Nat /\ IsFiniteSet(Due) /\ IsFiniteSet(expiring)
    /\ xid + Cardinality(Due) + Cardinality(expiring) + Nak <= MaxXid

\* The tasks that are counted are a natural number.
LEMMA Counts ==
    ASSUME Budget
    PROVE  /\ Cardinality(Due) \in Nat /\ Cardinality(expiring) \in Nat /\ Nak \in 0..1
           /\ MaxXid \in Nat
           /\ Room <=> xid + Cardinality(Due) + Cardinality(expiring) + Nak < MaxXid
<1>1. Cardinality(Due) \in Nat /\ Cardinality(expiring) \in Nat
    BY FS_CardinalityType DEF Budget
<1>2. Nak \in 0..1 /\ MaxXid \in Nat
    BY ClientAssumption DEF Nak
<1>3. Room <=> xid + (Cardinality(Due) + Cardinality(expiring) + Nak) < MaxXid
    BY DEF Room, Due, Nak
<1> QED BY <1>1, <1>2, <1>3 DEF Budget

\* One more in a set.
LEMMA OneMore ==
    ASSUME NEW S, IsFiniteSet(S), NEW x
    PROVE  /\ IsFiniteSet(S \cup {x}) /\ Cardinality(S \cup {x}) \in Nat
           /\ Cardinality(S \cup {x}) <= Cardinality(S) + 1
<1>1. Cardinality(S) \in Nat
    BY FS_CardinalityType
<1>2. IsFiniteSet(S \cup {x})
    BY FS_AddElement
<1>3. Cardinality(S \cup {x}) = Cardinality(S) \/ Cardinality(S \cup {x}) = Cardinality(S) + 1
    BY FS_AddElement
<1> QED BY <1>1, <1>2, <1>3

\* One less in a set.
LEMMA OneLess ==
    ASSUME NEW S, IsFiniteSet(S), NEW x \in S
    PROVE  /\ IsFiniteSet(S \ {x}) /\ Cardinality(S \ {x}) \in Nat
           /\ Cardinality(S \ {x}) = Cardinality(S) - 1
<1>1. IsFiniteSet(S \ {x}) /\ Cardinality(S \ {x}) = Cardinality(S) - 1
    BY FS_RemoveElement
<1>2. Cardinality(S \ {x}) \in Nat
    BY <1>1, FS_CardinalityType
<1> QED BY <1>1, <1>2

\* A step that starts nothing that ends in a reset().
LEMMA BudgetKept ==
    ASSUME Budget, UNCHANGED <<xid, Due, expiring>>, receiver' = "nak" => receiver = "nak"
    PROVE  Budget'
<1>1. Nak' \in 0..1 /\ Nak' <= Nak /\ Nak \in 0..1
    BY DEF Nak
<1>2. /\ IsFiniteSet(Due') /\ IsFiniteSet(expiring')
      /\ Cardinality(Due') = Cardinality(Due) /\ Cardinality(expiring') = Cardinality(expiring)
    BY DEF Budget
<1> QED BY <1>1, <1>2, Counts DEF Budget

\* A step that takes a transaction id when there is one left, or starts something
\* that will.
LEMMA BudgetRoom ==
    ASSUME Budget, Room, IsFiniteSet(Due'), expiring' = expiring,
           \/ xid' = xid + 1 /\ Due' = Due /\ Nak' <= Nak
           \/ xid' = xid /\ Due' = Due /\ Nak' <= Nak + 1
           \/ xid' = xid /\ Cardinality(Due') <= Cardinality(Due) + 1 /\ Nak' <= Nak
    PROVE  Budget' /\ xid' \in 0..MaxXid
<1>1. Nak' \in 0..1
    BY DEF Nak
<1>2. Cardinality(Due') \in Nat
    BY FS_CardinalityType
<1>3. Cardinality(expiring') = Cardinality(expiring) /\ IsFiniteSet(expiring') /\ xid \in Nat
    BY DEF Budget
<1>4. CASE xid' = xid + 1 /\ Due' = Due /\ Nak' <= Nak
    BY <1>1, <1>2, <1>3, <1>4, Counts DEF Budget
<1>5. CASE xid' = xid /\ Due' = Due /\ Nak' <= Nak + 1
    BY <1>1, <1>2, <1>3, <1>5, Counts DEF Budget
<1>6. CASE xid' = xid /\ Cardinality(Due') <= Cardinality(Due) + 1 /\ Nak' <= Nak
    BY <1>1, <1>2, <1>3, <1>6, Counts DEF Budget
<1> QED BY <1>4, <1>5, <1>6

\* A step that takes the transaction id that was left for it, or passes it on.
LEMMA BudgetUsed ==
    ASSUME Budget, IsFiniteSet(Due'), IsFiniteSet(expiring'), xid' \in {xid, xid + 1},
           xid' + Cardinality(Due') + Cardinality(expiring') + Nak'
              <= xid + Cardinality(Due) + Cardinality(expiring) + Nak
    PROVE  Budget' /\ xid' \in 0..MaxXid
<1>1. Nak' \in 0..1 /\ Cardinality(Due') \in Nat /\ Cardinality(expiring') \in Nat
    BY FS_CardinalityType DEF Nak
<1>2. xid \in Nat /\ xid' \in Nat
    BY DEF Budget
<1> QED BY <1>1, <1>2, Counts DEF Budget

\* A new client has all of them.
LEMMA BudgetInit == Init => Budget
<1> SUFFICES ASSUME Init PROVE Budget
    OBVIOUS
<1>1. Due = {} /\ expiring = {} /\ xid = 0 /\ Nak = 0
    BY DEF Init, Due, Nak
<1>2. Cardinality({}) = 0 /\ IsFiniteSet({})
    BY FS_EmptySet
<1> QED BY <1>1, <1>2, ClientAssumption DEF Budget

\* Every action keeps to the budget.
LEMMA BudgetNext == Budget /\ [Next]_vars => Budget' /\ xid' \in 0..MaxXid
<1> SUFFICES ASSUME Budget, [Next]_vars PROVE Budget' /\ xid' \in 0..MaxXid
    OBVIOUS
<1>0. ASSUME Budget' PROVE xid' \in 0..MaxXid
    <2>1. /\ xid' \in Nat /\ Cardinality(Due') \in Nat /\ Cardinality(expiring') \in Nat
          /\ Nak' \in 0..1 /\ MaxXid \in Nat
        BY <1>0, FS_CardinalityType, ClientAssumption DEF Budget, Nak
    <2> QED BY <1>0, <2>1 DEF Budget
<1>1. CASE \/ Bootstrap \/ SenderWakes \/ SendDone \/ SendNetDown \/ AckHooksDone
           \/ ReceiverEnds \/ ExitAwaits \/ UNCHANGED vars
           \/ (\E m \in sent : OfferReceived(m) \/ AckReceived(m))
           \/ (\E b \in BOOLEAN : Exit(b) \/ ExitReleases(b))
           \/ (\E task \in {"sender", "receiver"} : OffSeen(task))
    <2>1. UNCHANGED <<xid, pending, expiring>> /\ (receiver' = "nak" => receiver = "nak")
        BY <1>1 DEF Bootstrap, SenderWakes, SendDone, SendNetDown, AckHooksDone,
           ReceiverEnds, ExitAwaits, vars, OfferReceived, AckReceived, Exit, ExitReleases,
           OffSeen, callvars, taskvars
    <2>2. Due' = Due
        BY <2>1 DEF Due
    <2> QED BY <1>0, <2>1, <2>2, BudgetKept
<1>2. CASE Renew \/ Rebind
    <2>1. UNCHANGED <<xid, expiring, receiver>>
        BY <1>2 DEF Renew, Rebind, taskvars
    <2>2. \/ pending' = pending \ {Task("renew", None)}
          \/ pending' = pending \ {Task("rebind", None)}
        BY <1>2 DEF Renew, Rebind
    <2>3. Due' = Due
        BY <2>2 DEF Due, Task
    <2> QED BY <1>0, <2>1, <2>3, BudgetKept
<1>3. CASE Enter \/ EnterRaises \/ WatchdogFires
    <2>1. /\ Room /\ xid' = xid + 1 /\ UNCHANGED <<pending, expiring>>
          /\ receiver' = "nak" => receiver = "nak"
        BY <1>3 DEF Enter, EnterRaises, Load, WatchdogFires, Reset, callvars, taskvars
    <2>2. Due' = Due /\ Nak' <= Nak /\ IsFiniteSet(Due')
        BY <2>1 DEF Due, Nak, Budget
    <2> QED BY <2>1, <2>2, BudgetRoom
<1>4. ASSUME NEW t \in Timers, TimerFires(t) PROVE Budget' /\ xid' \in 0..MaxXid
    <2>1. UNCHANGED <<xid, expiring, receiver>> /\ Nak' <= Nak
        BY <1>4 DEF TimerFires, taskvars, Nak
    <2>2. CASE t = "expiration"
        <3>1. pending' = pending \cup {Task("expire", timers[t])} /\ Room
            BY <1>4, <2>2 DEF TimerFires, Callback
        <3>2. Due' = Due \cup {Task("expire", timers[t])}
            BY <3>1 DEF Due, Task
        <3>3. IsFiniteSet(Due') /\ Cardinality(Due') <= Cardinality(Due) + 1
            BY <3>2, OneMore, Zenon DEF Budget
        <3> QED BY <2>1, <3>1, <3>3, BudgetRoom
    <2>3. CASE t # "expiration"
        <3>1. \E name \in {"renew", "rebind"} : pending' = pending \cup {Task(name, None)}
            BY <1>4, <2>3 DEF TimerFires, Callback, Timers
        <3>2. Due' = Due
            BY <3>1 DEF Due, Task
        <3> QED BY <1>0, <2>1, <3>2, BudgetKept
    <2> QED BY <2>2, <2>3
<1>5. ASSUME NEW call \in {"renew", "rebind", "hup"}, Signal(call)
      PROVE  Budget' /\ xid' \in 0..MaxXid
    <2>1. UNCHANGED <<xid, expiring, receiver>> /\ Nak' <= Nak
        BY <1>5 DEF Signal, taskvars, Nak
    <2>2. pending' = pending \cup {Task(call, None)}
        BY <1>5 DEF Signal
    <2>3. CASE call = "hup"
        <3>1. Room /\ Due' = Due \cup {Task("hup", None)}
            BY <1>5, <2>2, <2>3 DEF Signal, Due, Task
        <3>2. IsFiniteSet(Due') /\ Cardinality(Due') <= Cardinality(Due) + 1
            BY <3>1, OneMore, Zenon DEF Budget
        <3> QED BY <2>1, <3>1, <3>2, BudgetRoom
    <2>4. CASE call # "hup"
        <3>1. Due' = Due
            BY <2>2, <2>4 DEF Due, Task
        <3> QED BY <1>0, <2>1, <3>1, BudgetKept
    <2> QED BY <2>3, <2>4
<1>6. CASE HangUp
    <2>1. /\ Task("hup", None) \in pending /\ pending' = pending \ {Task("hup", None)}
          /\ UNCHANGED <<expiring, receiver>> /\ xid' \in {xid, xid + 1}
        BY <1>6 DEF HangUp, Reset, ResetRaises, taskvars
    <2>2. Task("hup", None) \in Due /\ Due' = Due \ {Task("hup", None)}
        BY <2>1 DEF Due, Task
    <2>3. IsFiniteSet(Due') /\ Cardinality(Due') = Cardinality(Due) - 1 /\ Cardinality(Due') \in Nat
        BY <2>2, OneLess DEF Budget
    <2>4. Nak' = Nak /\ IsFiniteSet(expiring') /\ Cardinality(expiring') = Cardinality(expiring)
        BY <2>1 DEF Nak, Budget
    <2>5. xid' + Cardinality(Due') + Cardinality(expiring') + Nak'
             <= xid + Cardinality(Due) + Cardinality(expiring) + Nak
        BY <2>1, <2>3, <2>4, Counts DEF Budget
    <2> QED BY <2>1, <2>3, <2>4, <2>5, BudgetUsed
<1>7. ASSUME NEW l \in Leases, Expire(l) PROVE Budget' /\ xid' \in 0..MaxXid
    <2>1. /\ Task("expire", l) \in pending /\ pending' = pending \ {Task("expire", l)}
          /\ UNCHANGED <<xid, receiver>> /\ expiring' \in {expiring, expiring \cup {l}}
        BY <1>7 DEF Expire, taskvars
    <2>2. Task("expire", l) \in Due /\ Due' = Due \ {Task("expire", l)}
        BY <2>1 DEF Due, Task
    <2>3. IsFiniteSet(Due') /\ Cardinality(Due') = Cardinality(Due) - 1 /\ Cardinality(Due') \in Nat
        BY <2>2, OneLess DEF Budget
    <2>4. /\ IsFiniteSet(expiring') /\ Cardinality(expiring') \in Nat
          /\ Cardinality(expiring') <= Cardinality(expiring) + 1
        <3>1. CASE expiring' = expiring
            BY <3>1, Counts DEF Budget
        <3>2. CASE expiring' = expiring \cup {l}
            <4>1. IsFiniteSet(expiring)
                BY DEF Budget
            <4>2. /\ IsFiniteSet(expiring \cup {l}) /\ Cardinality(expiring \cup {l}) \in Nat
                  /\ Cardinality(expiring \cup {l}) <= Cardinality(expiring) + 1
                BY <4>1, OneMore, Zenon
            <4> QED BY <3>2, <4>2, Zenon
        <3> QED BY <2>1, <3>1, <3>2
    <2>5. Nak' = Nak
        BY <2>1 DEF Nak
    <2>6. xid' + Cardinality(Due') + Cardinality(expiring') + Nak'
             <= xid + Cardinality(Due) + Cardinality(expiring) + Nak
        BY <2>1, <2>3, <2>4, <2>5, Counts DEF Budget
    <2> QED BY <2>1, <2>3, <2>4, <2>6, BudgetUsed
<1>8. ASSUME NEW l \in Leases, ExpireResets(l) PROVE Budget' /\ xid' \in 0..MaxXid
    <2>1. /\ l \in expiring /\ expiring' = expiring \ {l}
          /\ UNCHANGED <<pending, receiver>> /\ xid' \in {xid, xid + 1}
        BY <1>8 DEF ExpireResets, Reset, ResetRaises, taskvars
    <2>2. /\ IsFiniteSet(expiring') /\ Cardinality(expiring') = Cardinality(expiring) - 1
          /\ Cardinality(expiring') \in Nat
        BY <2>1, OneLess DEF Budget
    <2>3. Due' = Due /\ Nak' = Nak /\ IsFiniteSet(Due')
        BY <2>1 DEF Due, Nak, Budget
    <2>4. xid' + Cardinality(Due') + Cardinality(expiring') + Nak'
             <= xid + Cardinality(Due) + Cardinality(expiring) + Nak
        BY <2>1, <2>2, <2>3, Counts DEF Budget
    <2> QED BY <2>1, <2>2, <2>3, <2>4, BudgetUsed
<1>9. ASSUME NEW m \in sent, NakReceived(m) PROVE Budget' /\ xid' \in 0..MaxXid
    <2>1. /\ Room /\ UNCHANGED <<pending, expiring>> /\ receiver = "wait"
          /\ \/ xid' = xid + 1 /\ receiver' = receiver
             \/ xid' = xid /\ receiver' \in {"nak", "failed"}
        BY <1>9 DEF NakReceived, Answers, Reset, callvars
    <2>2. Due' = Due /\ IsFiniteSet(Due')
        BY <2>1 DEF Due, Budget
    <2>3. (xid' = xid + 1 /\ Nak' <= Nak) \/ (xid' = xid /\ Nak' <= Nak + 1)
        BY <2>1 DEF Nak
    <2> QED BY <2>1, <2>2, <2>3, BudgetRoom
<1>10. CASE NakResets
    <2>1. /\ UNCHANGED <<pending, expiring>> /\ xid' = xid + 1
          /\ receiver = "nak" /\ receiver' = "wait"
        BY <1>10 DEF NakResets, Reset, callvars
    <2>2. Due' = Due /\ Nak = 1 /\ Nak' = 0 /\ IsFiniteSet(Due') /\ IsFiniteSet(expiring')
        BY <2>1 DEF Due, Nak, Budget
    <2>3. xid' + Cardinality(Due') + Cardinality(expiring') + Nak'
             <= xid + Cardinality(Due) + Cardinality(expiring) + Nak
        BY <2>1, <2>2, Counts DEF Budget
    <2> QED BY <2>1, <2>2, <2>3, BudgetUsed
<1> QED
    BY <1>1, <1>2, <1>3, <1>4, <1>5, <1>6, <1>7, <1>8, <1>9, <1>10 DEF Next, Receiving, Callbacks

-----------------------------------------------------------------------------
(* The type invariant *)

\* The leases are those that were granted.
LeaseTypes ==
    /\ lease \in Leases \cup {None} /\ file \in Leases \cup {None}
    /\ timers \in [Timers -> Leases \cup {None}]
    /\ granted \in Leases
    /\ pending \subseteq [name : {"renew", "rebind", "hup", "expire"}, lease : Leases \cup {None}]
    /\ expiring \subseteq Leases

\* The messages have a transaction id that was used, the one that is being sent
\* as well as those that were sent.
MessageTypes ==
    /\ sendq \in Seq(Messages \cup {None}) /\ msg \in Messages \cup {None}
    /\ sender = "sending" => [type |-> packet.type, epoch |-> packet.epoch] \in Messages
    /\ \A m \in sent : [type |-> m.type, epoch |-> m.epoch] \in Messages

\* Where the tasks are.
PlaceTypes ==
    /\ env \in Envs /\ signals \in 0..MaxSignals
    /\ sender \in {"none", "wait", "sending", "done"}
    /\ receiver \in {"none", "wait", "ack", "nak", "done", "failed"}
    /\ off \subseteq {"sender", "receiver"}
    /\ manager \in {"out", "refused", "starting", "in", "hooks", "sender", "receiver",
                    "failed"}

TaskTypes == watchdog \in BOOLEAN /\ PlaceTypes

TypeInv == Budget /\ LeaseTypes /\ MessageTypes /\ TaskTypes

\* A new client has the types.
LEMMA TypeInit == Init => TypeInv
<1> SUFFICES ASSUME Init PROVE TypeInv
    OBVIOUS
<1>1. LeaseTypes
    <2>1. 1 \in Leases
        BY ClientAssumption DEF Leases
    <2>2. timers \in [Timers -> Leases \cup {None}]
        BY DEF Init, NoTimers
    <2> QED BY <2>1, <2>2 DEF Init, LeaseTypes
<1>2. MessageTypes
    <2>1. sendq \in Seq(Messages \cup {None})
        BY DEF Init
    <2> QED BY <2>1 DEF Init, MessageTypes
<1>3. TaskTypes
    <2>1. env \in Envs /\ watchdog \in BOOLEAN
        BY Zenon DEF Init
    <2>2. signals = 0 /\ sender = "none" /\ receiver = "none" /\ off = {} /\ manager = "out"
        BY DEF Init
    <2>3. signals \in 0..MaxSignals
        BY <2>2, ClientAssumption
    <2> QED BY <2>1, <2>2, <2>3 DEF TaskTypes, PlaceTypes
<1> QED BY <1>1, <1>2, <1>3, BudgetInit DEF TypeInv

\* No lease is granted beyond the bound, and only leases that were granted expire.
LEMMA LeaseTypesNext == LeaseTypes /\ [Next]_vars => LeaseTypes'
<1> SUFFICES ASSUME LeaseTypes, [Next]_vars PROVE LeaseTypes'
    OBVIOUS
<1>0. NoTimers \in [Timers -> Leases \cup {None}]
    BY DEF NoTimers
<1>1. CASE \/ Bootstrap \/ SenderWakes \/ SendDone \/ SendNetDown \/ AckHooksDone
           \/ ReceiverEnds \/ ExitAwaits \/ UNCHANGED vars
           \/ (\E m \in sent : OfferReceived(m))
           \/ (\E b \in BOOLEAN : ExitReleases(b))
           \/ (\E task \in {"sender", "receiver"} : OffSeen(task))
    <2>1. UNCHANGED <<leasevars, pending, expiring>>
        BY <1>1, Zenon DEF Bootstrap, SenderWakes, SendDone, SendNetDown, AckHooksDone,
           ReceiverEnds, ExitAwaits, vars, OfferReceived, ExitReleases, OffSeen, callvars
    <2> QED BY <2>1 DEF LeaseTypes, leasevars
<1>2. ASSUME Reset, pending' \subseteq pending, expiring' \subseteq expiring PROVE LeaseTypes'
    BY <1>0, <1>2 DEF Reset, LeaseTypes
<1>3. ASSUME UNCHANGED leasevars, pending' \subseteq pending, expiring' \subseteq expiring
      PROVE  LeaseTypes'
    BY <1>3 DEF leasevars, LeaseTypes
<1>4. CASE Enter \/ EnterRaises
    BY <1>4 DEF Enter, EnterRaises, Load, LeaseTypes, callvars
<1>5. CASE WatchdogFires
    BY <1>2, <1>5 DEF WatchdogFires, callvars
<1>6. ASSUME NEW t \in Timers, TimerFires(t) PROVE LeaseTypes'
    <2>1. Callback(t, timers[t]) \in [name : {"renew", "rebind", "hup", "expire"},
                                      lease : Leases \cup {None}]
        BY DEF Callback, Task, Timers, LeaseTypes
    <2>2. timers' \in [Timers -> Leases \cup {None}]
        BY <1>6 DEF TimerFires, LeaseTypes
    <2> QED BY <1>6, <2>1, <2>2 DEF TimerFires, LeaseTypes
<1>7. ASSUME NEW call \in {"renew", "rebind", "hup"}, Signal(call) PROVE LeaseTypes'
    <2>1. Task(call, None) \in [name : {"renew", "rebind", "hup", "expire"},
                                lease : Leases \cup {None}]
        BY DEF Task
    <2> QED BY <1>7, <2>1 DEF Signal, LeaseTypes, leasevars
<1>8. CASE Renew \/ Rebind
    <2>1. timers' \in [Timers -> Leases \cup {None}]
        BY <1>8 DEF Renew, Rebind, LeaseTypes
    <2>2. UNCHANGED <<lease, file, granted, expiring>> /\ pending' \subseteq pending
        BY <1>8 DEF Renew, Rebind
    <2> QED BY <2>1, <2>2 DEF LeaseTypes
<1>9. CASE HangUp
    BY <1>2, <1>3, <1>9 DEF HangUp, ResetRaises
<1>10. ASSUME NEW l \in Leases, Expire(l) PROVE LeaseTypes'
    <2>1. timers' \in [Timers -> Leases \cup {None}]
        BY <1>10, Zenon DEF Expire, LeaseTypes
    <2> QED BY <1>10, <2>1 DEF Expire, LeaseTypes
<1>11. ASSUME NEW l \in Leases, ExpireResets(l) PROVE LeaseTypes'
    BY <1>2, <1>3, <1>11 DEF ExpireResets, ResetRaises
<1>12. ASSUME NEW m \in sent, AckReceived(m) PROVE LeaseTypes'
    <2>1. granted + 1 \in Leases /\ granted' = granted + 1
        BY <1>12, ClientAssumption DEF AckReceived, LeaseTypes, Leases
    <2>2. /\ lease' = granted + 1 /\ (file' = granted + 1 \/ file' = file)
          /\ timers' \in [Timers -> Leases \cup {None}]
        BY <1>12, <2>1 DEF AckReceived, SetLease
    <2>3. UNCHANGED <<pending, expiring>>
        BY <1>12 DEF AckReceived, callvars
    <2> QED BY <2>1, <2>2, <2>3 DEF LeaseTypes
<1>13. ASSUME NEW m \in sent, NakReceived(m) PROVE LeaseTypes'
    BY <1>2, <1>3, <1>13 DEF NakReceived, callvars
<1>14. CASE NakResets
    BY <1>2, <1>14 DEF NakResets, callvars
<1>15. ASSUME NEW b \in BOOLEAN, Exit(b) PROVE LeaseTypes'
    BY <1>0, <1>15 DEF Exit, LeaseTypes, callvars
<1> QED
    BY <1>1, <1>4, <1>5, <1>6, <1>7, <1>8, <1>9, <1>10, <1>11, <1>12, <1>13, <1>14, <1>15
    DEF Next, Receiving, Callbacks

\* No message has a transaction id beyond the bound.
LEMMA MessageTypesNext ==
    MessageTypes /\ xid \in 0..MaxXid /\ xid' \in 0..MaxXid /\ [Next]_vars => MessageTypes'
<1> SUFFICES ASSUME MessageTypes, xid \in 0..MaxXid, xid' \in 0..MaxXid, [Next]_vars
             PROVE  MessageTypes'
    OBVIOUS
<1> DEFINE M == Messages \cup {None}
<1>1. Packet("DISCOVER") \in M /\ Packet("REQUEST") \in M /\ Packet("RELEASE") \in M /\ None \in M
    BY DEF Packet, Messages, Types
<1>2. ASSUME NEW m \in M, sendq' = Append(sendq, m), UNCHANGED <<msg, packet, sender, sent>>
      PROVE  MessageTypes'
    <2>1. Append(sendq, m) \in Seq(M)
        BY DEF MessageTypes
    <2> QED BY <1>2, <2>1 DEF MessageTypes
<1>3. ASSUME UNCHANGED <<sendq, msg, sent>>, sender' = "sending" => UNCHANGED <<packet, sender>>
      PROVE  MessageTypes'
    BY <1>3 DEF MessageTypes
<1>4. ASSUME Reset, UNCHANGED <<msg, packet, sender, sent>> PROVE MessageTypes'
    <2> DEFINE m == [type |-> "DISCOVER", epoch |-> xid + 1]
    <2>1. m \in M /\ None \in M /\ sendq' = sendq \o <<None, m>>
        BY <1>4 DEF Reset, Messages, Types
    <2>2. sendq \in Seq(M)
        BY DEF MessageTypes
    <2> HIDE DEF m, M
    <2>3. <<None, m>> \in Seq(M)
        BY <2>1
    <2>4. sendq' \in Seq(M)
        BY <2>1, <2>2, <2>3
    <2> QED BY <1>4, <2>4 DEF MessageTypes, M
<1>5. CASE Enter
    <2>1. UNCHANGED <<sendq, sent>> /\ msg' = None /\ sender' = "wait"
        BY <1>5 DEF Enter
    <2> QED BY <2>1 DEF MessageTypes
<1>6. CASE Bootstrap
    BY <1>1, <1>2, <1>6 DEF Bootstrap, Transition, taskvars
<1>7. CASE WatchdogFires
    BY <1>4, <1>7 DEF WatchdogFires, taskvars
<1>8. CASE Renew \/ Rebind
    <2>1. UNCHANGED <<msg, packet, sender, sent>>
        BY <1>8 DEF Renew, Rebind, taskvars
    <2>2. sendq' = sendq \/ sendq' = Append(sendq, Packet("REQUEST"))
        BY <1>8 DEF Renew, Rebind, Transition
    <2> QED BY <1>1, <1>2, <1>3, <2>1, <2>2
<1>9. CASE HangUp
    BY <1>3, <1>4, <1>9 DEF HangUp, ResetRaises, taskvars
<1>10. ASSUME NEW l \in Leases, ExpireResets(l) PROVE MessageTypes'
    BY <1>3, <1>4, <1>10 DEF ExpireResets, ResetRaises, taskvars
<1>11. CASE SenderWakes
    <2>1. msg' \in M /\ sendq' \in Seq(M)
        <3>1. CASE sendq = <<>>
            BY <1>11, <3>1 DEF SenderWakes, MessageTypes
        <3>2. CASE sendq # <<>>
            <4>1. msg' = Head(sendq) /\ sendq' = Tail(sendq) /\ sendq \in Seq(M)
                BY <1>11, <3>2 DEF SenderWakes, MessageTypes
            <4> HIDE DEF M
            <4> QED BY <3>2, <4>1
        <3> QED BY <3>1, <3>2
    <2>2. sender' = "sending" => msg' # None /\ packet' = Stamped(msg')
        BY <1>11 DEF SenderWakes, SenderLoop
    <2>3. sender' = "sending" => [type |-> packet'.type, epoch |-> packet'.epoch] \in Messages
        <3> SUFFICES ASSUME sender' = "sending"
                     PROVE  [type |-> packet'.type, epoch |-> packet'.epoch] \in Messages
            OBVIOUS
        <3>1. msg' \in Messages
            BY <2>1, <2>2
        <3>2. packet'.type = msg'.type /\ packet'.epoch = msg'.epoch
            BY <2>2 DEF Stamped
        <3> QED BY <3>1, <3>2 DEF Messages
    <2>4. sent' = sent
        BY <1>11 DEF SenderWakes
    <2> QED BY <2>1, <2>3, <2>4, Zenon DEF MessageTypes
<1>12. CASE SendDone
    <2>1. /\ sent' = sent \cup {packet} /\ UNCHANGED <<sendq, msg>>
          /\ sender = "sending" /\ sender' # "sending"
        BY <1>12 DEF SendDone, SenderLoop
    <2> QED BY <2>1 DEF MessageTypes
<1>13. CASE SendNetDown
    BY <1>3, <1>13 DEF SendNetDown
<1>14. ASSUME NEW m \in sent, OfferReceived(m) PROVE MessageTypes'
    BY <1>1, <1>2, <1>14 DEF OfferReceived, Transition, taskvars
<1>15. ASSUME NEW m \in sent, AckReceived(m) PROVE MessageTypes'
    BY <1>1, <1>2, <1>15 DEF AckReceived, Transition
<1>16. ASSUME NEW m \in sent, NakReceived(m) PROVE MessageTypes'
    BY <1>3, <1>4, <1>16 DEF NakReceived
<1>17. CASE NakResets
    BY <1>4, <1>17 DEF NakResets
<1>18. ASSUME NEW b \in BOOLEAN, ExitReleases(b) PROVE MessageTypes'
    <2>1. UNCHANGED <<msg, packet, sender, sent>>
        BY <1>18 DEF ExitReleases, taskvars
    <2>2. sendq' = sendq \/ sendq' = Append(sendq, Packet("RELEASE"))
        BY <1>18 DEF ExitReleases
    <2> QED BY <1>1, <1>2, <1>3, <2>1, <2>2
<1>19. CASE \/ EnterRaises \/ AckHooksDone \/ ReceiverEnds \/ ExitAwaits \/ UNCHANGED vars
            \/ (\E t \in Timers : TimerFires(t))
            \/ (\E call \in {"renew", "rebind", "hup"} : Signal(call))
            \/ (\E l \in Leases : Expire(l))
            \/ (\E b \in BOOLEAN : Exit(b))
            \/ (\E task \in {"sender", "receiver"} : OffSeen(task))
    <2>1. UNCHANGED <<sendq, msg, packet, sender, sent>>
        BY <1>19 DEF EnterRaises, AckHooksDone, ReceiverEnds, ExitAwaits, vars, TimerFires,
           Signal, Expire, Exit, OffSeen, queuevars, taskvars
    <2> QED BY <1>3, <2>1
<1> QED
    BY <1>5, <1>6, <1>7, <1>8, <1>9, <1>10, <1>11, <1>12, <1>13, <1>14, <1>15, <1>16, <1>17,
       <1>18, <1>19 DEF Next, Receiving, Callbacks

\* The tasks are where the actions put them: one step per action.
LEMMA TaskTypesNext == TaskTypes /\ [Next]_vars => TaskTypes'
<1> SUFFICES ASSUME TaskTypes, [Next]_vars PROVE TaskTypes'
    OBVIOUS
<1> DEFINE Watches == watchdog' = watchdog \/ \E s \in States : SetState(s)
<1>a. ASSUME PlaceTypes', Watches PROVE TaskTypes'
    <2>1. watchdog \in BOOLEAN
        BY DEF TaskTypes
    <2>2. ASSUME NEW s, SetState(s) PROVE watchdog' \in BOOLEAN
        <3>1. (s \in Timeouts) \in BOOLEAN
            OBVIOUS
        <3> QED BY <2>2, <3>1 DEF SetState
    <2>3. watchdog' \in BOOLEAN
        BY <1>a, <2>1, <2>2, Zenon
    <2> QED BY <1>a, <2>3 DEF TaskTypes
<1>b. PlaceTypes
    BY DEF TaskTypes
<1> HIDE DEF Watches
<1>1. CASE Enter
    <2>1. PlaceTypes'
        BY <1>1, <1>b DEF PlaceTypes, Enter, callvars
    <2>2. Watches
        BY <1>1 DEF Watches, Enter, Started, States
    <2> QED BY <1>a, <2>1, <2>2
<1>2. CASE EnterRaises
    <2>1. PlaceTypes'
        BY <1>2, <1>b DEF PlaceTypes, EnterRaises, callvars, taskvars
    <2>2. Watches
        BY <1>2 DEF Watches, EnterRaises, States
    <2> QED BY <1>a, <2>1, <2>2
<1>3. CASE Bootstrap
    <2>1. PlaceTypes'
        BY <1>3, <1>b DEF PlaceTypes, Bootstrap, callvars, taskvars
    <2>2. Watches
        BY <1>3 DEF Watches, Bootstrap, States, Transition
    <2> QED BY <1>a, <2>1, <2>2
<1>4. CASE WatchdogFires
    <2>1. PlaceTypes'
        BY <1>4, <1>b DEF PlaceTypes, WatchdogFires, callvars, taskvars
    <2>2. Watches
        BY <1>4, Zenon DEF Watches, WatchdogFires, States, Reset
    <2> QED BY <1>a, <2>1, <2>2
<1>5. ASSUME NEW t \in Timers, TimerFires(t) PROVE TaskTypes'
    <2>1. PlaceTypes'
        BY <1>5, <1>b DEF PlaceTypes, TimerFires, taskvars
    <2>2. Watches
        BY <1>5 DEF Watches, TimerFires, States
    <2> QED BY <1>a, <2>1, <2>2
<1>6. ASSUME NEW call \in {"renew", "rebind", "hup"}, Signal(call) PROVE TaskTypes'
    <2>1. PlaceTypes'
        BY <1>6, <1>b, ClientAssumption DEF PlaceTypes, Signal, taskvars
    <2>2. Watches
        BY <1>6 DEF Watches, Signal, States
    <2> QED BY <1>a, <2>1, <2>2
<1>7. CASE Renew
    <2>1. PlaceTypes'
        BY <1>7, <1>b DEF PlaceTypes, Renew, taskvars
    <2>2. Watches
        BY <1>7 DEF Watches, Renew, States, Transition
    <2> QED BY <1>a, <2>1, <2>2
<1>8. CASE Rebind
    <2>1. PlaceTypes'
        BY <1>8, <1>b DEF PlaceTypes, Rebind, taskvars
    <2>2. Watches
        BY <1>8 DEF Watches, Rebind, States, Transition
    <2> QED BY <1>a, <2>1, <2>2
<1>9. CASE HangUp
    <2>1. PlaceTypes'
        BY <1>9, <1>b DEF PlaceTypes, HangUp, taskvars
    <2>2. Watches
        BY <1>9 DEF Watches, HangUp, States, Reset, ResetRaises
    <2> QED BY <1>a, <2>1, <2>2
<1>10. ASSUME NEW l \in Leases, Expire(l) PROVE TaskTypes'
    <2>1. PlaceTypes'
        BY <1>10, <1>b DEF PlaceTypes, Expire, taskvars
    <2>2. Watches
        BY <1>10 DEF Watches, Expire, States
    <2> QED BY <1>a, <2>1, <2>2
<1>11. ASSUME NEW l \in Leases, ExpireResets(l) PROVE TaskTypes'
    <2>1. PlaceTypes'
        BY <1>11, <1>b DEF PlaceTypes, ExpireResets, taskvars
    <2>2. Watches
        BY <1>11 DEF Watches, ExpireResets, States, Reset, ResetRaises
    <2> QED BY <1>a, <2>1, <2>2
<1>12. CASE SenderWakes
    <2>1. PlaceTypes'
        BY <1>12, <1>b DEF PlaceTypes, SenderWakes, SenderLoop, callvars
    <2>2. Watches
        BY <1>12 DEF Watches, SenderWakes, States
    <2> QED BY <1>a, <2>1, <2>2
<1>13. CASE SendDone
    <2>1. PlaceTypes'
        BY <1>13, <1>b DEF PlaceTypes, SendDone, SenderLoop, callvars
    <2>2. Watches
        BY <1>13 DEF Watches, SendDone, States
    <2> QED BY <1>a, <2>1, <2>2
<1>14. CASE SendNetDown
    <2>1. PlaceTypes'
        BY <1>14, <1>b DEF PlaceTypes, SendNetDown, callvars
    <2>2. Watches
        BY <1>14 DEF Watches, SendNetDown, States
    <2> QED BY <1>a, <2>1, <2>2
<1>15. ASSUME NEW m \in sent, OfferReceived(m) PROVE TaskTypes'
    <2>1. PlaceTypes'
        BY <1>15, <1>b DEF PlaceTypes, OfferReceived, callvars, taskvars
    <2>2. Watches
        BY <1>15 DEF Watches, OfferReceived, States, Transition
    <2> QED BY <1>a, <2>1, <2>2
<1>16. ASSUME NEW m \in sent, AckReceived(m) PROVE TaskTypes'
    <2>1. PlaceTypes'
        BY <1>16, <1>b DEF PlaceTypes, AckReceived, callvars
    <2>2. Watches
        BY <1>16 DEF Watches, AckReceived, States, Transition
    <2> QED BY <1>a, <2>1, <2>2
<1>17. CASE AckHooksDone
    <2>1. PlaceTypes'
        BY <1>17, <1>b DEF PlaceTypes, AckHooksDone, callvars
    <2>2. Watches
        BY <1>17 DEF Watches, AckHooksDone, States
    <2> QED BY <1>a, <2>1, <2>2
<1>18. ASSUME NEW m \in sent, NakReceived(m) PROVE TaskTypes'
    <2>1. PlaceTypes'
        BY <1>18, <1>b DEF PlaceTypes, NakReceived, callvars
    <2>2. Watches
        BY <1>18 DEF Watches, NakReceived, States, Reset
    <2> QED BY <1>a, <2>1, <2>2
<1>19. CASE NakResets
    <2>1. PlaceTypes'
        BY <1>19, <1>b DEF PlaceTypes, NakResets, callvars
    <2>2. Watches
        BY <1>19 DEF Watches, NakResets, States, Reset
    <2> QED BY <1>a, <2>1, <2>2
<1>20. CASE ReceiverEnds
    <2>1. PlaceTypes'
        BY <1>20, <1>b DEF PlaceTypes, ReceiverEnds, callvars
    <2>2. Watches
        BY <1>20 DEF Watches, ReceiverEnds, States
    <2> QED BY <1>a, <2>1, <2>2
<1>21. ASSUME NEW b \in BOOLEAN, Exit(b) PROVE TaskTypes'
    <2>1. PlaceTypes'
        BY <1>21, <1>b DEF PlaceTypes, Exit, callvars, taskvars
    <2>2. Watches
        BY <1>21 DEF Watches, Exit, States
    <2> QED BY <1>a, <2>1, <2>2
<1>22. ASSUME NEW b \in BOOLEAN, ExitReleases(b) PROVE TaskTypes'
    <2>1. PlaceTypes'
        BY <1>22, <1>b DEF PlaceTypes, ExitReleases, callvars, taskvars
    <2>2. Watches
        BY <1>22 DEF Watches, ExitReleases, States
    <2> QED BY <1>a, <2>1, <2>2
<1>23. ASSUME NEW task \in {"sender", "receiver"}, OffSeen(task) PROVE TaskTypes'
    <2>1. PlaceTypes'
        BY <1>23, <1>b DEF PlaceTypes, OffSeen, callvars
    <2>2. Watches
        BY <1>23 DEF Watches, OffSeen, States
    <2> QED BY <1>a, <2>1, <2>2
<1>24. CASE ExitAwaits
    <2>1. PlaceTypes'
        BY <1>24, <1>b DEF PlaceTypes, ExitAwaits, callvars, taskvars
    <2>2. Watches
        BY <1>24 DEF Watches, ExitAwaits, States
    <2> QED BY <1>a, <2>1, <2>2
<1>25. CASE UNCHANGED vars
    <2>1. UNCHANGED <<env, watchdog, signals, sender, receiver, off, manager>>
        BY <1>25 DEF vars, callvars, taskvars
    <2> QED BY <1>a, <1>b, <2>1 DEF PlaceTypes, Watches
<1> QED
    BY <1>1, <1>2, <1>3, <1>4, <1>5, <1>6, <1>7, <1>8, <1>9, <1>10, <1>11, <1>12, <1>13,
       <1>14, <1>15, <1>16, <1>17, <1>18, <1>19, <1>20, <1>21, <1>22, <1>23, <1>24, <1>25
    DEF Next, Receiving, Callbacks

\* Type correctness.  The bounds are respected although the reset() of a SIGHUP,
\* of an expiration or of a NAK comes long after what causes it: there is a
\* transaction id for each of them.
THEOREM TypeOKHolds == Spec => []TypeOK
<1>1. TypeInv => xid \in 0..MaxXid
    BY Counts DEF TypeInv, Budget
<1>2. TypeInv /\ [Next]_vars => TypeInv'
    <2> SUFFICES ASSUME TypeInv, [Next]_vars PROVE TypeInv'
        OBVIOUS
    <2>1. Budget' /\ xid' \in 0..MaxXid
        BY BudgetNext DEF TypeInv
    <2>2. LeaseTypes' /\ TaskTypes'
        BY LeaseTypesNext, TaskTypesNext DEF TypeInv
    <2>3. MessageTypes'
        BY <1>1, <2>1, MessageTypesNext DEF TypeInv
    <2> QED BY <2>1, <2>2, <2>3 DEF TypeInv
<1>3. TypeInv /\ Shape => TypeOK
    BY <1>1 DEF TypeInv, LeaseTypes, MessageTypes, TaskTypes, PlaceTypes, Shape, TypeOK
<1> QED BY <1>2, <1>3, TypeInit, ShapeHolds, PTL DEF Spec

===============================================================================
