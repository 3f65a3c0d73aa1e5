------------------------------ MODULE DHCPClient ------------------------------
(***************************************************************************)
(* The DHCP client: AsyncDHCPClient (pyroute2/dhcp/client.py) with the     *)
(* states of fsm.py, the timers of timers.py, the transaction ids of       *)
(* xids.py, and the loop of run_client() (cli.py) that enters the same     *)
(* client again after the interface was down.                              *)
(*                                                                         *)
(* The tasks of the client are the sender, the receiver, the watchdog of a *)
(* state, the callbacks of timers and signals, and the task that enters    *)
(* and exits the context manager.  They are interleaved where they really  *)
(* suspend: while hooks run, while a packet is sent, while they wait.  The *)
(* send queue is unbounded, so transition() and reset() never suspend.     *)
(*                                                                         *)
(* The network loses, delays, duplicates and reorders: a server may answer *)
(* any packet that was ever sent, any number of times.                     *)
(***************************************************************************)
EXTENDS Integers, Sequences, FiniteSets

CONSTANTS
    Envs,       \* the environments: sets of what may happen, see Features
    MaxXid,     \* bound: transaction ids (starts and resets)
    MaxLeases,  \* bound: leases granted
    MaxSignals, \* bound: signals received
    None

\* A server refuses requests; SIGUSR1, SIGUSR2 and SIGHUP arrive; the timers of
\* a lease expire; the watchdog of a state expires; the client is stopped, and
\* started again; the network is down; a lease is there at the first start;
\* the lease cannot be written.
Features == {"nak", "signal", "timer", "watchdog", "exit", "restart", "netdown",
             "lease", "nodump"}

Types == {"DISCOVER", "REQUEST", "RELEASE"}

ASSUME ClientAssumption ==
    /\ Envs \subseteq SUBSET Features
    /\ MaxXid \in Nat /\ MaxLeases \in Nat /\ MaxSignals \in Nat
    /\ None \notin Nat /\ None \notin [type : Types, epoch : Nat]

States == {"OFF", "INIT", "INIT_REBOOT", "REBOOTING", "REQUESTING", "SELECTING",
           "BOUND", "RENEWING", "REBINDING"}
Timers == {"renewal", "rebinding", "expiration"}
Leases == 1..(MaxLeases + 1)

VARIABLES
    env,
    state, lease,       \* _state and _lease
    timers,             \* lease_timers: the lease a timer was armed for
    watchdog,           \* _state_watchdog sleeps
    xid,                \* the random part of _xid
    sendq, msg,         \* _sendq; msg_to_send of _send_forever()
    packet,             \* the packet that is being sent
    sender, receiver,   \* where the two tasks are
    off,                \* those whose wait_til_off is done
    pending, expiring,  \* callbacks to be run; _expire_lease() in its hooks
    manager,            \* where the context manager is
    file,               \* the lease that was written last
    granted, signals,
    sent                \* every packet that was sent

queuevars == <<sendq, msg, packet>>
leasevars == <<lease, timers, file, granted>>
callvars == <<pending, expiring, signals>>
taskvars == <<sender, receiver, off>>
vars == <<env, state, watchdog, xid, queuevars, leasevars, callvars, taskvars,
          manager, sent>>

NoTimers == [t \in Timers |-> None]

Init ==
    /\ env \in Envs
    /\ state = "OFF" /\ watchdog = FALSE /\ xid = 0
    /\ lease = None /\ timers = NoTimers
    /\ file = (IF "lease" \in env THEN 1 ELSE None) /\ granted = 1
    /\ sendq = <<>> /\ msg = None /\ packet = None
    /\ sender = "none" /\ receiver = "none" /\ off = {}
    /\ pending = {} /\ expiring = {} /\ signals = 0
    /\ manager = "out"
    /\ sent = {}

-----------------------------------------------------------------------------
(* The state machine *)

\* fsm.TRANSITIONS; OFF is 0, which the setter accepts from every state.
TRANSITIONS ==
    [s \in States |->
        CASE s = "OFF" -> {"INIT", "INIT_REBOOT"}
          [] s = "INIT_REBOOT" -> {"REBOOTING"}
          [] s = "REBOOTING" -> {"INIT", "BOUND"}
          [] s = "INIT" -> {"SELECTING"}
          [] s = "SELECTING" -> {"REQUESTING", "INIT"}
          [] s = "REQUESTING" -> {"BOUND", "INIT"}
          [] s = "BOUND" -> {"INIT", "RENEWING", "REBINDING"}
          [] s = "RENEWING" -> {"BOUND", "INIT", "REBINDING"}
          [] s = "REBINDING" -> {"BOUND", "INIT"}]

\* ClientConfig.timeouts.
Timeouts == {"REBOOTING", "REQUESTING"}

\* The setter of state: the watchdog of the old state is cancelled, the one of
\* the new state is started.
SetState(s) ==
    /\ state' = s
    /\ watchdog' = (s \in Timeouts)

Packet(type) == [type |-> type, epoch |-> xid]

\* Mutant: without a message nothing is put, and the old one is sent on.
TransitionKeepsSending(s, send) ==
    /\ SetState(s)
    /\ sendq' = IF send = None THEN sendq ELSE Append(sendq, send)

\* transition(): what is put last into the queue is sent again and again.
Transition(s, send) ==
    /\ SetState(s)
    /\ sendq' = Append(sendq, send)

\* The bound on transaction ids: nothing that ends in a reset() begins unless
\* there is one left for it.
Room ==
    LET outstanding ==
            Cardinality({p \in pending : p.name \in {"hup", "expire"}}) +
            Cardinality(expiring) + (IF receiver = "nak" THEN 1 ELSE 0)
    IN  xid + outstanding < MaxXid

CanReset == "INIT" \in TRANSITIONS[state]

\* Mutant: the timers of the lease stay armed.
ResetKeepsTimers ==
    /\ SetState("SELECTING")
    /\ sendq' = sendq \o <<None, [type |-> "DISCOVER", epoch |-> xid + 1]>>
    /\ lease' = None /\ UNCHANGED timers
    /\ xid' = xid + 1
    /\ UNCHANGED <<file, granted>>

\* Mutant: bootstrap() draws an id for its DISCOVER, after the one of reset().
ResetDrawsTwice ==
    /\ SetState("SELECTING")
    /\ sendq' = sendq \o <<None, [type |-> "DISCOVER", epoch |-> xid + 2]>>
    /\ lease' = None /\ timers' = NoTimers
    /\ xid' = xid + 2
    /\ UNCHANGED <<file, granted>>

\* Mutant: the lease is not erased.
ResetKeepsLease ==
    /\ SetState("SELECTING")
    /\ sendq' = sendq \o <<None, [type |-> "DISCOVER", epoch |-> xid + 1]>>
    /\ timers' = NoTimers
    /\ xid' = xid + 1
    /\ UNCHANGED <<lease, file, granted>>

\* reset(): to INIT, and bootstrap() to SELECTING, without a suspension.
Reset ==
    /\ SetState("SELECTING")
    /\ sendq' = sendq \o <<None, [type |-> "DISCOVER", epoch |-> xid + 1]>>
    /\ lease' = None /\ timers' = NoTimers
    /\ xid' = xid + 1
    /\ UNCHANGED <<file, granted>>

\* A reset that is not allowed raises a ValueError before it changes anything.
ResetRaises ==
    /\ ~CanReset
    /\ UNCHANGED <<state, watchdog, xid, sendq, leasevars>>

\* Seconds do not pass while the sender is ready to run.
WatchdogFires ==
    /\ "watchdog" \in env
    /\ watchdog
    /\ ~(sender = "wait" /\ sendq # <<>>)
    /\ Room
    /\ Reset
    /\ UNCHANGED <<env, msg, packet, callvars, taskvars, manager, sent>>

-----------------------------------------------------------------------------
(* Entering the context manager, and bootstrap() *)

\* __aenter__() begins: a new xid, and the stored lease if there is one.
Load ==
    /\ manager = "out"
    /\ xid = 0 \/ "restart" \in env
    /\ Room
    /\ xid' = xid + 1
    /\ lease' = (IF file # None THEN file ELSE lease)

Started == IF file # None THEN "INIT_REBOOT" ELSE "INIT"

\* With a stored lease the client starts in INIT_REBOOT.
Enter ==
    /\ Load
    /\ Started \in TRANSITIONS[state]
    /\ SetState(Started)
    /\ msg' = None /\ sender' = "wait" /\ receiver' = "wait" /\ off' = {}
    /\ manager' = "starting"
    /\ UNCHANGED <<env, timers, sendq, packet, file, granted, callvars, sent>>

\* A reset() that ran after __aexit__() had set OFF has left the client in
\* another state: the setter raises, when the xid and the lease are replaced.
EnterRaises ==
    /\ Load
    /\ Started \notin TRANSITIONS[state]
    /\ manager' = "refused"
    /\ UNCHANGED <<env, state, watchdog, queuevars, timers, file, granted, callvars,
                   taskvars, sent>>

\* bootstrap(), which the owner of the client calls once.
Bootstrap ==
    /\ manager = "starting"
    /\ \/ state = "INIT" /\ Transition("SELECTING", Packet("DISCOVER"))
       \/ state = "INIT_REBOOT" /\ Transition("REBOOTING", Packet("REQUEST"))
    /\ manager' = "in"
    /\ UNCHANGED <<env, xid, msg, packet, leasevars, callvars, taskvars, sent>>

\* The handlers of signals are there, also when __aenter__() has raised.
Registered == manager \in {"starting", "in", "refused"}

-----------------------------------------------------------------------------
(* Timers and signals *)

\* The task that a timer or a signal creates; an expiration is about a lease.
Task(name, l) == [name |-> name, lease |-> l]

Callback(t, l) ==
    CASE t = "renewal" -> Task("renew", None)
      [] t = "rebinding" -> Task("rebind", None)
      [] t = "expiration" -> Task("expire", l)

\* call_later() creates a task; the timer that has fired cannot be cancelled.
TimerFires(t) ==
    /\ "timer" \in env
    /\ timers[t] # None
    /\ t = "expiration" => Room
    /\ pending' = pending \cup {Callback(t, timers[t])}
    /\ timers' = [timers EXCEPT ![t] = None]
    /\ UNCHANGED <<env, state, watchdog, xid, queuevars, lease, file, granted,
                   expiring, signals, taskvars, manager, sent>>

Signal(call) ==
    /\ "signal" \in env
    /\ Registered
    /\ signals < MaxSignals
    /\ call = "hup" => Room
    /\ signals' = signals + 1
    /\ pending' = pending \cup {Task(call, None)}
    /\ UNCHANGED <<env, state, watchdog, xid, queuevars, leasevars, expiring,
                   taskvars, manager, sent>>

\* _renew(), guarded by BOUND.
Renew ==
    /\ Task("renew", None) \in pending
    /\ pending' = pending \ {Task("renew", None)}
    /\ IF state = "BOUND"
       THEN /\ timers' = [timers EXCEPT !["renewal"] = None]
            /\ Transition("RENEWING", Packet("REQUEST"))
       ELSE UNCHANGED <<timers, state, watchdog, sendq>>
    /\ UNCHANGED <<env, xid, msg, packet, lease, file, granted, expiring, signals, taskvars,
                   manager, sent>>

\* _rebind(), guarded by RENEWING and BOUND.
Rebind ==
    /\ Task("rebind", None) \in pending
    /\ pending' = pending \ {Task("rebind", None)}
    /\ IF state \in {"BOUND", "RENEWING"}
       THEN /\ timers' = [timers EXCEPT !["renewal"] = None, !["rebinding"] = None]
            /\ Transition("REBINDING", Packet("REQUEST"))
       ELSE UNCHANGED <<timers, state, watchdog, sendq>>
    /\ UNCHANGED <<env, xid, msg, packet, lease, file, granted, expiring, signals, taskvars,
                   manager, sent>>

\* reset(signal=SIGHUP).
HangUp ==
    /\ Task("hup", None) \in pending
    /\ pending' = pending \ {Task("hup", None)}
    /\ (CanReset /\ Reset) \/ ResetRaises
    /\ UNCHANGED <<env, msg, packet, expiring, signals, taskvars, manager, sent>>

\* _expire_lease(): the hooks need a lease, and suspend.
Expire(l) ==
    /\ Task("expire", l) \in pending
    /\ pending' = pending \ {Task("expire", l)}
    /\ timers' = [timers EXCEPT !["expiration"] = None]
    /\ expiring' = IF lease # None THEN expiring \cup {l} ELSE expiring
    /\ UNCHANGED <<env, state, watchdog, xid, queuevars, lease, file, granted, signals,
                   taskvars, manager, sent>>

\* The hooks have run: reset(), whatever has happened meanwhile.
ExpireResets(l) ==
    /\ l \in expiring
    /\ expiring' = expiring \ {l}
    /\ (CanReset /\ Reset) \/ ResetRaises
    /\ UNCHANGED <<env, msg, packet, pending, signals, taskvars, manager, sent>>

-----------------------------------------------------------------------------
(* The sender *)

\* Mutant: the loop ends only when there is nothing to retransmit.
SenderLoopRetries(queue) ==
    IF "sender" \in off /\ queue = <<>> /\ msg = None THEN "done" ELSE "wait"

\* The condition of the loop of _send_forever().
SenderLoop(queue) ==
    IF "sender" \in off /\ queue = <<>> THEN "done" ELSE "wait"

\* Mutant: the state is missing in the xid.
StampedBare(m) == [type |-> m.type, epoch |-> m.epoch, xid |-> xid, state |-> "OFF"]

\* The packet that is sent has the xid and the state of this moment.
Stamped(m) == [type |-> m.type, epoch |-> m.epoch, xid |-> xid, state |-> state]

\* There is a new message, or the interval is over, or the client is OFF: then
\* only a RELEASE is sent.
SenderWakes ==
    /\ sender = "wait"
    /\ sendq # <<>> \/ msg # None \/ "sender" \in off
    /\ msg' = IF sendq # <<>> THEN Head(sendq) ELSE msg
    /\ sendq' = IF sendq # <<>> THEN Tail(sendq) ELSE sendq
    /\ IF msg' = None \/ ("sender" \in off /\ msg'.type # "RELEASE")
       THEN sender' = SenderLoop(sendq') /\ UNCHANGED packet
       ELSE sender' = "sending" /\ packet' = Stamped(msg')
    /\ UNCHANGED <<env, state, watchdog, xid, leasevars, callvars, receiver, off,
                   manager, sent>>

SendDone ==
    /\ sender = "sending"
    /\ sender' = SenderLoop(sendq)
    /\ sent' = sent \cup {packet}
    /\ packet' = None
    /\ UNCHANGED <<env, state, watchdog, xid, sendq, msg, leasevars, callvars, receiver,
                   off, manager>>

\* ENETDOWN ends the task.
SendNetDown ==
    /\ "netdown" \in env
    /\ sender = "sending"
    /\ sender' = "done"
    /\ packet' = None
    /\ UNCHANGED <<env, state, watchdog, xid, sendq, msg, leasevars, callvars, receiver,
                   off, manager, sent>>

-----------------------------------------------------------------------------
(* The receiver *)

\* A packet whose xid matches; the others are discarded.
Answers(m, type) ==
    /\ receiver = "wait"
    /\ m.type = type
    /\ m.xid = xid

OfferReceived(m) ==
    /\ Answers(m, "DISCOVER")
    /\ state = "SELECTING"
    /\ Transition("REQUESTING", Packet("REQUEST"))
    /\ UNCHANGED <<env, xid, msg, packet, leasevars, callvars, taskvars, manager, sent>>

Requesting == {"REQUESTING", "REBOOTING", "REBINDING", "RENEWING"}

\* The setter of lease: the timers are armed again, those that are infinite or
\* in the past are not; the lease is written, or writing it fails.
SetLease(l) ==
    /\ lease' = l
    /\ \E armed \in SUBSET Timers :
          timers' = [t \in Timers |-> IF t \in armed THEN l ELSE None]
    /\ file' = l \/ ("nodump" \in env /\ file' = file)

\* Mutant: the state in which the request was sent is not looked at.
AckAnyRequest(m) ==
    /\ Answers(m, "REQUEST")
    /\ state \in Requesting
    /\ granted <= MaxLeases
    /\ granted' = granted + 1
    /\ SetLease(granted + 1)
    /\ Transition("BOUND", None)
    /\ receiver' = "ack"
    /\ UNCHANGED <<env, xid, msg, packet, callvars, sender, off, manager, sent>>

\* ack_received(): the lease, then BOUND, then the hooks.
AckReceived(m) ==
    /\ Answers(m, "REQUEST")
    /\ state \in Requesting
    /\ m.state \in Requesting
    /\ granted <= MaxLeases
    /\ granted' = granted + 1
    /\ SetLease(granted + 1)
    /\ Transition("BOUND", None)
    /\ receiver' = "ack"
    /\ UNCHANGED <<env, xid, msg, packet, callvars, sender, off, manager, sent>>

AckHooksDone ==
    /\ receiver = "ack"
    /\ receiver' = "wait"
    /\ UNCHANGED <<env, state, watchdog, xid, queuevars, leasevars, callvars, sender,
                   off, manager, sent>>

\* nak_received(): a request in a state other than REQUESTING was for a lease,
\* whose hooks are run first; without a lease an assertion ends the task.
NakReceived(m) ==
    /\ "nak" \in env
    /\ Room
    /\ Answers(m, "REQUEST")
    /\ state \in Requesting
    /\ IF m.state = "REQUESTING"
       THEN Reset /\ UNCHANGED receiver
       ELSE /\ receiver' = IF lease # None THEN "nak" ELSE "failed"
            /\ UNCHANGED <<state, watchdog, xid, sendq, leasevars>>
    /\ UNCHANGED <<env, msg, packet, callvars, sender, off, manager, sent>>

NakResets ==
    /\ receiver = "nak"
    /\ CanReset /\ Reset
    /\ receiver' = "wait"
    /\ UNCHANGED <<env, msg, packet, callvars, sender, off, manager, sent>>

\* The loop ends when the client is OFF, or the network is down.
ReceiverEnds ==
    /\ receiver = "wait"
    /\ "receiver" \in off \/ "netdown" \in env
    /\ receiver' = "done"
    /\ UNCHANGED <<env, state, watchdog, xid, queuevars, leasevars, callvars, sender,
                   off, manager, sent>>

-----------------------------------------------------------------------------
(* Leaving the context manager *)

\* __aexit__(): no more signals and timers; the hooks suspend when there is a
\* lease to be released.
Exit(release) ==
    /\ "exit" \in env
    /\ manager = "in"
    /\ timers' = NoTimers
    /\ IF lease # None /\ release
       THEN manager' = "hooks" /\ UNCHANGED <<state, watchdog>>
       ELSE manager' = "sender" /\ SetState("OFF")
    /\ UNCHANGED <<env, xid, queuevars, lease, file, granted, callvars, taskvars, sent>>

\* RELEASE is sent for a lease that has not expired; there may be none any more.
ExitReleases(expired) ==
    /\ manager = "hooks"
    /\ IF lease # None
       THEN /\ sendq' = IF expired THEN sendq ELSE Append(sendq, Packet("RELEASE"))
            /\ SetState("OFF")
            /\ manager' = "sender"
       ELSE manager' = "failed" /\ UNCHANGED <<sendq, state, watchdog>>
    /\ UNCHANGED <<env, xid, msg, packet, leasevars, callvars, taskvars, sent>>

OffSeen(task) ==
    /\ manager \in {"sender", "receiver"}
    /\ off' = off \cup {task}
    /\ UNCHANGED <<env, state, watchdog, xid, queuevars, leasevars, callvars, sender,
                   receiver, manager, sent>>

\* The tasks are awaited one after the other; an exception in one is raised.
ExitAwaits ==
    /\ \/ manager = "sender" /\ sender = "done" /\ manager' = "receiver"
       \/ manager = "receiver" /\ receiver = "done" /\ manager' = "out"
       \/ manager = "receiver" /\ receiver = "failed" /\ manager' = "failed"
    /\ UNCHANGED <<env, state, watchdog, xid, queuevars, leasevars, callvars, taskvars,
                   sent>>

-----------------------------------------------------------------------------
Receiving ==
    \/ \E m \in sent : OfferReceived(m) \/ AckReceived(m)
    \/ AckHooksDone \/ NakResets \/ ReceiverEnds

Callbacks == Renew \/ Rebind \/ HangUp \/ \E l \in Leases : Expire(l) \/ ExpireResets(l)

Next ==
    \/ Enter \/ EnterRaises \/ Bootstrap
    \/ WatchdogFires
    \/ \E t \in Timers : TimerFires(t)
    \/ \E call \in {"renew", "rebind", "hup"} : Signal(call)
    \/ Callbacks
    \/ SenderWakes \/ SendDone \/ SendNetDown
    \/ Receiving \/ \E m \in sent : NakReceived(m)
    \/ \E b \in BOOLEAN : Exit(b) \/ ExitReleases(b)
    \/ \E task \in {"sender", "receiver"} : OffSeen(task)
    \/ ExitAwaits

Spec == Init /\ [][Next]_vars

\* The event loop runs what is ready, hooks end, packets can be sent, and a
\* server answers.
Fairness ==
    /\ WF_vars(SenderWakes) /\ WF_vars(SendDone)
    /\ WF_vars(Receiving) /\ WF_vars(Callbacks)
    /\ \A b \in BOOLEAN : WF_vars(ExitReleases(b))
    /\ \A task \in {"sender", "receiver"} : WF_vars(OffSeen(task))
    /\ WF_vars(ExitAwaits)

FairSpec == Spec /\ Fairness

-----------------------------------------------------------------------------
(* Properties *)

Messages == [type : Types, epoch : 0..MaxXid]

\* Type invariant.
TypeOK ==
    /\ env \in Envs
    /\ state \in States /\ watchdog \in BOOLEAN /\ xid \in 0..MaxXid
    /\ lease \in Leases \cup {None} /\ file \in Leases \cup {None}
    /\ timers \in [Timers -> Leases \cup {None}]
    /\ granted \in Leases /\ signals \in 0..MaxSignals
    /\ sendq \in Seq(Messages \cup {None}) /\ msg \in Messages \cup {None}
    /\ sender \in {"none", "wait", "sending", "done"}
    /\ receiver \in {"none", "wait", "ack", "nak", "done", "failed"}
    /\ off \subseteq {"sender", "receiver"}
    /\ pending \subseteq [name : {"renew", "rebind", "hup", "expire"},
                          lease : Leases \cup {None}]
    /\ expiring \subseteq Leases
    /\ manager \in {"out", "refused", "starting", "in", "hooks", "sender", "receiver",
                    "failed"}
    /\ \A m \in sent : [type |-> m.type, epoch |-> m.epoch] \in Messages

\* A client that is started again finds the lease it had.
LeaseIsFound == ~({"nodump", "restart"} \subseteq env)

\* There is a lease in exactly the states that need one: _renew(), _rebind(),
\* bootstrap() and the hooks assert it, and whatever races with reset() must not
\* leave one behind.  __aenter__() does not erase the lease of the last run, so
\* that a client whose lease could not be written keeps it in INIT; and one that
\* raises has loaded the stored lease into a client that is SELECTING.
LeaseFitsState ==
    /\ state \in {"INIT_REBOOT", "REBOOTING", "BOUND", "RENEWING", "REBINDING"} =>
           lease # None
    /\ LeaseIsFound /\ manager # "refused"
           /\ state \in {"INIT", "SELECTING", "REQUESTING"} => lease = None

\* No timer of a lease survives it, and the watchdog of a state does not survive
\* the state: a reset() from either is about the present.  An ACK that comes
\* while __aexit__() runs its hooks arms timers that stay armed, and they are
\* those of the next run only when its lease is the same.
TimersFitLease ==
    /\ LeaseIsFound => \A t \in Timers : timers[t] \in {None, lease}
    /\ watchdog <=> state \in Timeouts

\* What the sender will retransmit once it has read its queue.
Outgoing == IF sendq # <<>> THEN sendq[Len(sendq)] ELSE msg

Wanted ==
    [s \in States |->
        IF s = "SELECTING" THEN "DISCOVER"
        ELSE IF s \in Requesting THEN "REQUEST" ELSE "nothing"]

\* In every state the client goes on sending what the state is for, and nothing
\* in BOUND, however transitions, retransmissions and packets interleave.
SendsForState ==
    manager = "in" /\ state \notin {"INIT", "INIT_REBOOT"} =>
        IF Outgoing = None THEN Wanted[state] = "nothing"
        ELSE Outgoing.type = Wanted[state]

\* A lease is granted only for a request of the present acquisition: neither an
\* ACK that is late by a reset(), nor the ACK to a request that was queued before
\* the reset() and sent with the new xid after it, makes the client BOUND.  (Two
\* signals that come before the packets between them are sent can: the messages
\* of both acquisitions wait in the queue and are sent with the last xid.)
GrantsAreCurrent ==
    [][\A m \in sent : AckReceived(m) /\ signals <= 1 => m.epoch = xid]_vars

\* The client "will try to acquire and keep a lease as long as it's running":
\* while a server answers, it comes from SELECTING to BOUND.
AcquiresLease ==
    (manager = "in" /\ state = "SELECTING") ~>
        (state = "BOUND" \/ manager # "in" \/ granted > MaxLeases)

\* __aexit__() does not hang: the sender and the receiver end, with whatever
\* there is in the queue and whichever hooks are running.
ExitEnds ==
    (manager \in {"hooks", "sender", "receiver"}) ~> (manager \in {"out", "failed"})

\* "Exiting the context manager causes the lease to be released and relevant
\* hooks to be run": __aexit__() does not raise.
ExitCompletes == manager # "failed"
=============================================================================
