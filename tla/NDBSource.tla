------------------------------ MODULE NDBSource ------------------------------
(***************************************************************************)
(* One RTNL source of NDB: ndb/source.py, ndb/task_manager.py and the      *)
(* sources view of ndb/view.py, over the database of NDBSchema.            *)
(*                                                                         *)
(* The source task dumps the kernel's objects and then forwards events to  *)
(* TaskManager.event_queue; the receiver of the task manager loads the     *)
(* queue into the database; task_watch() restarts a source that failed.    *)
(* All of them are coroutines of one event loop, so the model has the      *)
(* loop's queue of callbacks, `ready`, served first in, first out: a       *)
(* callback that wakes another one appends it.  Threads of the program     *)
(* (restart, close, add, remove) and the kernel act at any time.           *)
(***************************************************************************)
EXTENDS NDBSchema

CONSTANTS MaxChanges,          \* changes of the kernel's objects by others
          MaxMixed,            \* ... in environments that mix two causes
          MaxFails, MaxLost,   \* failing connections, events lost to overruns
          MaxOps,              \* restart(), close(), remove() by a thread
          ApiObjs,             \* objects changed by api() calls
          Envs                 \* the sets of features a run explores

Err == <<"error">>             \* the packet of enqueue_error()

ASSUME SourceAssumption == ApiObjs \subseteq Children

VARIABLES
    env,        \* features of the environment
    kernel,     \* the objects of the system
    db,         \* the rows of this target
    ready,      \* callbacks of the event loop
    evq,        \* TaskManager.event_queue
    nl,         \* the source's socket: open, bound, err (_error_event), overrun
    wire,       \* datagrams in the socket buffer
    root, tagq, \* received: events, and the answer to the dump under way
    dump,       \* the dump requested of the kernel
    pc,         \* where Source.receiver() is suspended
    task,       \* task_watch(): is the task in the list it waits for; its
                \*   target_state; was its exception stored
    event,      \* Source.event
    user,       \* a thread of the program: its call and where it is
    api,        \* an api() call: its state and the change it makes
    changes, fails, lost, ops,
    stable      \* history: objects unchanged since the thread's call began

vars == <<env, kernel, db, ready, evq, nl, wire, root, tagq, dump, pc, task,
          event, user, api, changes, fails, lost, ops, stable>>

NoSocket == [open |-> FALSE, bound |-> FALSE, err |-> FALSE, overrun |-> FALSE]
NewSocket == [NoSocket EXCEPT !.open = TRUE]

(***************************************************************************)
(* The event loop.                                                         *)
(***************************************************************************)

Has(s, x) == \E i \in DOMAIN s : s[i] = x
Wake(r, cb) == IF Has(r, cb) THEN r ELSE Append(r, cb)

\* event_queue.put(): the queue is unbounded, put() does not suspend
WakeFor(r, items) == IF items = <<>> THEN r ELSE Wake(r, "consumer")

\* closing a transport cancels the read callback that is ready
NoRead(r) ==
    IF ~Has(r, "read") THEN r
    ELSE LET i == CHOOSE i \in DOMAIN r : r[i] = "read"
         IN  SubSeq(r, 1, i - 1) \o SubSeq(r, i + 1, Len(r))

Running(cb) == ready # <<>> /\ Head(ready) = cb
Rest == Tail(ready)

\* the receiver task ends: its done callback is scheduled if task_watch()
\* waits for it
Ended(r) == IF task.watched THEN Append(r, "done") ELSE r

(***************************************************************************)
(* The kernel and the network (external).                                  *)
(***************************************************************************)

May(o, v) == v # kernel[o] /\ (v # Absent /\ o \in Children =>
                               Parent[o] = Zero \/ kernel[Parent[o]] # Absent)

Datagram(to, recs) == [to |-> to, recs |-> recs]

SetKernel(o, v) ==
    /\ kernel' = Put(kernel, o, v)
    /\ stable' = {x \in stable : kernel'[x] = kernel[x]}

\* restart() may meet a reload that an overrun began
Overlapping == {"overrun", "restart"} \subseteq env
Bound == IF Overlapping \/ "race" \in env THEN MaxMixed ELSE MaxChanges

\* another process changes an object; the socket is notified once it is bound.
\* What depends on a removed interface goes with it, without an event.
Change(o, v) ==
    /\ changes < Bound /\ May(o, v)
    /\ "api" \in env /\ "race" \notin env => o \notin ApiObjs
    /\ SetKernel(o, v) /\ changes' = changes + 1
    /\ \/ /\ wire' = IF nl.open /\ nl.bound
                     THEN Append(wire, Datagram("root", <<<<o, v>>>>)) ELSE wire
          /\ UNCHANGED <<nl, lost>>
       \/ /\ "overrun" \in env /\ lost < MaxLost /\ nl.open /\ nl.bound
          /\ nl' = [nl EXCEPT !.overrun = TRUE] /\ lost' = lost + 1
          /\ UNCHANGED wire
    /\ UNCHANGED <<env, db, ready, evq, root, tagq, dump, pc, task, event, user,
                   api, fails, ops>>

\* the kernel answers a dump request with the objects it has now
AnswerDump ==
    /\ dump # "none" /\ dump' = "none"
    /\ wire' = Append(wire, Datagram("dump",
                  Records(kernel, IF dump = "links" THEN Links ELSE Children)))
    /\ UNCHANGED <<env, kernel, db, ready, evq, nl, root, tagq, pc, task, event,
                   user, api, changes, fails, lost, ops, stable>>

\* select() finds the socket readable
Readable ==
    /\ nl.open /\ (wire # <<>> \/ nl.overrun) /\ ~Has(ready, "read")
    /\ ready' = Append(ready, "read")
    /\ UNCHANGED <<env, kernel, db, evq, nl, wire, root, tagq, dump, pc, task,
                   event, user, api, changes, fails, lost, ops, stable>>

(***************************************************************************)
(* The socket: datagrams go to the queue of their tag or to the root queue.*)
(***************************************************************************)

WakeReader(r) == IF pc = "reading" THEN Wake(r, "receiver") ELSE r

\* datagram_received()
ReadDatagram ==
    /\ Running("read") /\ ~nl.overrun /\ wire # <<>>
    /\ wire' = Tail(wire)
    /\ LET d == Head(wire) IN
       \/ /\ d.to = "root" /\ root' = root \o d.recs
          /\ ready' = WakeReader(Rest) /\ UNCHANGED <<tagq, api>>
       \/ /\ d.to = "dump" /\ tagq' = <<d.recs>>
          /\ ready' = Append(Rest, "receiver") /\ UNCHANGED <<root, api>>
       \/ /\ d.to = "api" /\ ready' = Append(Rest, "api")
          /\ UNCHANGED <<root, tagq, api>>
    /\ UNCHANGED <<env, kernel, db, evq, nl, dump, pc, task, event, user,
                   changes, fails, lost, ops, stable>>

\* error_received(): ENOBUFS is reported before the datagrams that remain
ReadOverrun ==
    /\ Running("read") /\ nl.overrun
    /\ nl' = [nl EXCEPT !.overrun = FALSE, !.err = TRUE]
    /\ root' = Append(root, Err) /\ ready' = WakeReader(Rest)
    /\ UNCHANGED <<env, kernel, db, evq, wire, tagq, dump, pc, task, event, user,
                   api, changes, fails, lost, ops, stable>>

\* AsyncCoreSocket.close(): the transport is aborted, connection_lost() is
\* called soon; only the root queue learns of it
CloseSocket(r) ==
    IF nl.open
    THEN /\ nl' = [nl EXCEPT !.open = FALSE] /\ wire' = <<>> /\ dump' = "none"
         /\ ready' = Append(NoRead(r), "lost")
    ELSE ready' = r /\ UNCHANGED <<nl, wire, dump>>

\* mutant of ConnectionLost: the root queue is not told
LostSilently ==
    /\ Running("lost") /\ ready' = Rest
    /\ UNCHANGED <<env, kernel, db, evq, nl, wire, root, tagq, dump, pc, task,
                   event, user, api, changes, fails, lost, ops, stable>>

\* connection_lost(): enqueue_error(ECONNRESET); the queue of a socket that
\* has been replaced is not read any more
ConnectionLost ==
    /\ Running("lost")
    /\ IF nl.open THEN ready' = Rest /\ UNCHANGED root
                  ELSE root' = Append(root, Err) /\ ready' = WakeReader(Rest)
    /\ UNCHANGED <<env, kernel, db, evq, nl, wire, tagq, dump, pc, task, event,
                   user, api, changes, fails, lost, ops, stable>>

(***************************************************************************)
(* Source.receiver()                                                       *)
(***************************************************************************)

AtReceiver(p) == Running("receiver") /\ pc = p

\* an exception while loading: the finally clause runs set_ready(), task ends
FailLoading(e, r) ==
    /\ evq' = Append(e, Marker) /\ pc' = "failed"
    /\ ready' = Ended(Wake(r, "consumer"))

\* requests of the old socket wait for ever on its queues
Abandon == api' = [api EXCEPT !.pc = IF @ = "idle" THEN @ ELSE "stuck"]

\* the old socket is closed, a new one is opened; its endpoint is set up
ReceiverConnect ==
    /\ AtReceiver("start")
    /\ nl' = NewSocket /\ wire' = <<>> /\ root' = <<>> /\ tagq' = <<>>
    /\ dump' = "none" /\ user' = [user EXCEPT !.aimed = FALSE] /\ Abandon
    /\ pc' = "endpoint" /\ ready' = Append(NoRead(Rest), "receiver")
    /\ UNCHANGED <<env, kernel, db, evq, task, event, changes, fails, lost, ops,
                   stable>>

ReceiverConnectFails ==
    /\ AtReceiver("start") /\ "fail" \in env /\ fails < MaxFails
    /\ fails' = fails + 1
    /\ nl' = NoSocket /\ wire' = <<>> /\ root' = <<>> /\ tagq' = <<>>
    /\ dump' = "none" /\ user' = [user EXCEPT !.aimed = FALSE] /\ Abandon
    /\ FailLoading(evq, NoRead(Rest))
    /\ UNCHANGED <<env, kernel, db, task, event, changes, lost, ops, stable>>

\* mutant of ReceiverBind: the old rows are not flushed
BindNoFlush ==
    /\ AtReceiver("endpoint") /\ nl.open
    /\ nl' = [nl EXCEPT !.bound = TRUE]
    /\ evq' = Append(evq, <<Zero, 1>>) /\ ready' = Wake(Rest, "consumer")
    /\ dump' = "links" /\ pc' = "links"
    /\ UNCHANGED <<env, kernel, db, wire, root, tagq, task, event, user, api,
                   changes, fails, lost, ops, stable>>

\* mutant of ReceiverBind: the source is announced before it is loaded
BindReady ==
    /\ AtReceiver("endpoint") /\ nl.open
    /\ nl' = [nl EXCEPT !.bound = TRUE]
    /\ db' = flush(db)
    /\ evq' = evq \o <<<<Zero, 1>>, Marker>> /\ ready' = Wake(Rest, "consumer")
    /\ dump' = "links" /\ pc' = "links"
    /\ UNCHANGED <<env, kernel, wire, root, tagq, task, event, user, api, changes,
                   fails, lost, ops, stable>>

\* bind() joins the groups before the old rows are flushed and the dump begins
ReceiverBind ==
    /\ AtReceiver("endpoint") /\ nl.open
    /\ nl' = [nl EXCEPT !.bound = TRUE]
    /\ db' = flush(db)
    /\ evq' = Append(evq, <<Zero, 1>>) /\ ready' = Wake(Rest, "consumer")
    /\ dump' = "links" /\ pc' = "links"
    /\ UNCHANGED <<env, kernel, wire, root, tagq, task, event, user, api, changes,
                   fails, lost, ops, stable>>

\* the socket was closed meanwhile: bind() finds no port
ReceiverBindFails ==
    /\ AtReceiver("endpoint") /\ ~nl.open
    /\ FailLoading(evq, Rest)
    /\ UNCHANGED <<env, kernel, db, nl, wire, root, tagq, dump, task, event, user,
                   api, changes, fails, lost, ops, stable>>

\* dump(): the links come first, then what refers to them.  The next request
\* raises if the socket is closed or has had an error.
ReceiverLinks ==
    /\ AtReceiver("links") /\ tagq' = <<>>
    /\ LET e == evq \o Head(tagq) IN
       IF nl.open /\ ~nl.err
       THEN /\ evq' = e /\ ready' = WakeFor(Rest, e)
            /\ dump' = "children" /\ pc' = "children"
       ELSE FailLoading(e, Rest) /\ UNCHANGED dump
    /\ UNCHANGED <<env, kernel, db, nl, wire, root, task, event, user, api,
                   changes, fails, lost, ops, stable>>

\* the loop over nl.get(): every call takes one datagram of the root queue.  A
\* call on a closed socket raises; an error packet is raised when it is met.
Dies == ~nl.open \/ Has(root, Err)
BeforeError(es) ==
    IF ~Has(es, Err) THEN es
    ELSE SubSeq(es, 1, (CHOOSE i \in DOMAIN es : es[i] = Err /\
                            \A j \in 1..(i - 1) : es[j] # Err) - 1)
\* mutant of Forwarded: one datagram is taken, whatever came with it is lost
ForwardedOne(waiting) == BeforeError(IF waiting THEN <<Head(root)>> ELSE <<>>)
Forwarded(waiting) ==
    BeforeError(IF nl.open THEN root ELSE IF waiting THEN <<Head(root)>> ELSE <<>>)

Forward(e, waiting) ==
    /\ evq' = e \o Forwarded(waiting) /\ root' = <<>>
    /\ pc' = IF Dies THEN "failed" ELSE "reading"
    /\ ready' = LET r == WakeFor(Rest, evq') IN IF Dies THEN Ended(r) ELSE r

\* the dump is complete: set_ready(), and on to the events that came meanwhile
ReceiverChildren ==
    /\ AtReceiver("children") /\ tagq' = <<>>
    /\ Forward(Append(evq \o Head(tagq), Marker), FALSE)
    /\ UNCHANGED <<env, kernel, db, nl, wire, dump, task, event, user, api,
                   changes, fails, lost, ops, stable>>

ReceiverEvents ==
    /\ AtReceiver("reading") /\ Forward(evq, TRUE)
    /\ UNCHANGED <<env, kernel, db, nl, wire, tagq, dump, task, event, user, api,
                   changes, fails, lost, ops, stable>>

(***************************************************************************)
(* TaskManager                                                             *)
(***************************************************************************)

\* receiver(): takes events until the queue is empty; handlers do not suspend.
\* handler_event() sets the event of the source.
LoadEvents ==
    /\ Running("consumer")
    /\ db' = Replay(db, evq) /\ evq' = <<>>
    /\ event' = (event \/ Has(evq, Marker))
    /\ ready' = IF event' /\ user.pc = "await" THEN Wake(Rest, "awake") ELSE Rest
    /\ UNCHANGED <<env, kernel, nl, wire, root, tagq, dump, pc, task, user, api,
                   changes, fails, lost, ops, stable>>

\* reload(): a task was created, task_watch() has to look at its list again
Reload ==
    /\ Running("reload") /\ ready' = Wake(Rest, "done")
    /\ UNCHANGED <<env, kernel, db, evq, nl, wire, root, tagq, dump, pc, task,
                   event, user, api, changes, fails, lost, ops, stable>>

\* the first task to end resolves the future of asyncio.wait() (external)
Completed ==
    /\ Running("done") /\ ready' = Wake(Rest, "watch")
    /\ UNCHANGED <<env, kernel, db, evq, nl, wire, root, tagq, dump, pc, task,
                   event, user, api, changes, fails, lost, ops, stable>>

\* mutant of TaskWatch: a task that ended is dropped
WatchDrops ==
    /\ Running("watch") /\ ready' = Rest
    /\ pc' = IF pc = "failed" THEN "none" ELSE pc
    /\ task' = [task EXCEPT !.watched = pc' # "none"]
    /\ UNCHANGED <<env, kernel, db, evq, nl, wire, root, tagq, dump, event, user,
                   api, changes, fails, lost, ops, stable>>

\* task_watch(): a task that ended is committed, and restarted if it is to run;
\* one that ended before it was in the list makes the next wait() return
TaskWatch ==
    /\ Running("watch")
    /\ IF pc = "failed" /\ task.watched
       THEN IF task.target = "running"
            THEN /\ pc' = "start" /\ ready' = Append(Rest, "receiver")
                 /\ task' = [task EXCEPT !.exc = TRUE]
            ELSE /\ pc' = "none" /\ ready' = Rest
                 /\ task' = [task EXCEPT !.exc = TRUE, !.watched = FALSE]
       ELSE /\ task' = [task EXCEPT !.watched = pc # "none"] /\ UNCHANGED pc
            /\ ready' = IF pc = "failed" THEN Append(Rest, "done") ELSE Rest
    /\ UNCHANGED <<env, kernel, db, evq, nl, wire, root, tagq, dump, event, user,
                   api, changes, fails, lost, ops, stable>>

(***************************************************************************)
(* Threads of the program.  A call that runs in the loop is posted to it   *)
(* at any time, so it may run between any two callbacks.                   *)
(***************************************************************************)

Thread(p) == user.pc = p
Goto(p) == user' = [user EXCEPT !.pc = p]

\* SourcesView.add(): creates the task and waits for the event
Add ==
    /\ Thread("new") /\ pc = "none" /\ Goto("await")
    /\ pc' = "start" /\ event' = FALSE
    /\ task' = [watched |-> FALSE, target |-> "running", exc |-> FALSE]
    /\ ready' = Append(Wake(ready, "receiver"), "reload")
    /\ stable' = Objs
    /\ UNCHANGED <<env, kernel, db, evq, nl, wire, root, tagq, dump, api, changes,
                   fails, lost, ops>>

\* SyncSource.restart(): the event is cleared in the thread, then close()
Restart ==
    /\ Thread("idle") /\ "restart" \in env /\ ops < MaxOps /\ ops' = ops + 1
    /\ user' = [user EXCEPT !.op = "restart", !.pc = "flush"]
    /\ event' = FALSE /\ stable' = Objs
    /\ UNCHANGED <<env, kernel, db, ready, evq, nl, wire, root, tagq, dump, pc,
                   task, api, changes, fails, lost>>

\* SyncSource.close(): the state it sets is not the one task_watch() looks at
Close ==
    /\ Thread("idle") /\ "close" \in env /\ ops = 0 /\ ops' = 1
    /\ user' = [user EXCEPT !.op = "close", !.pc = "flush"]
    /\ UNCHANGED <<env, kernel, db, ready, evq, nl, wire, root, tagq, dump, pc,
                   task, event, api, changes, fails, lost, stable>>

CloseFlush ==
    /\ Thread("flush") /\ Goto("flushed") /\ db' = flush(db)
    /\ UNCHANGED <<env, kernel, ready, evq, nl, wire, root, tagq, dump, pc, task,
                   event, api, changes, fails, lost, ops, stable>>

\* the thread takes the socket the source has now, the loop closes it later
CloseAim ==
    /\ Thread("flushed")
    /\ user' = [user EXCEPT !.pc = "closing", !.aimed = TRUE]
    /\ UNCHANGED <<env, kernel, db, ready, evq, nl, wire, root, tagq, dump, pc,
                   task, event, api, changes, fails, lost, ops, stable>>

CloseNl ==
    /\ Thread("closing")
    /\ user' = [user EXCEPT !.pc = IF user.op = "restart" THEN "closed" ELSE "idle",
                            !.aimed = FALSE]
    /\ IF user.aimed THEN CloseSocket(ready)
                     ELSE UNCHANGED <<nl, wire, dump, ready>>
    /\ UNCHANGED <<env, kernel, db, evq, root, tagq, pc, task, event, api,
                   changes, fails, lost, ops, stable>>

\* restart() waits for the event
AwaitEvent ==
    /\ Thread("closed") /\ Goto(IF event THEN "idle" ELSE "await")
    /\ UNCHANGED <<env, kernel, db, ready, evq, nl, wire, root, tagq, dump, pc,
                   task, event, api, changes, fails, lost, ops, stable>>

\* add() raises the exception of the task, if task_watch() has stored it
Awake ==
    /\ Running("awake") /\ ready' = Rest
    /\ user' = [user EXCEPT !.pc = "idle",
                            !.op = IF @ = "add" /\ task.exc THEN "raised" ELSE @]
    /\ UNCHANGED <<env, kernel, db, evq, nl, wire, root, tagq, dump, pc, task,
                   event, api, changes, fails, lost, ops, stable>>

\* SourcesView.remove()
RemoveSource ==
    /\ Thread("idle") /\ "remove" \in env /\ ops < MaxOps /\ ops' = ops + 1
    /\ user' = [user EXCEPT !.op = "remove", !.pc = "removed"]
    /\ task' = [task EXCEPT !.target = "stopped"]
    /\ db' = flush(db) /\ CloseSocket(ready)
    /\ UNCHANGED <<env, kernel, evq, root, tagq, pc, event, api, changes, fails,
                   lost, stable>>

\* Source.api(): the kernel excludes the requester from the notification and
\* echoes the change to its request; the response ends with the echo, which has
\* no NLM_F_MULTI, and the acknowledgement that follows tells nobody anything
ApiCall(o, v) ==
    /\ "api" \in env /\ api.pc = "idle" /\ nl.bound
    /\ nl.open /\ ~nl.err
    /\ ops < MaxOps /\ ops' = ops + 1
    /\ May(o, v) /\ SetKernel(o, v)
    /\ wire' = Append(wire, Datagram("api", <<<<o, v>>>>))
    /\ api' = [pc |-> "sent", echo |-> <<<<o, v>>>>]
    /\ UNCHANGED <<env, db, ready, evq, nl, root, tagq, dump, pc, task, event,
                   user, changes, fails, lost>>

\* the response is complete: its messages go to the event queue, past what the
\* receiver has not read from the root queue
ApiReturn ==
    /\ Running("api")
    /\ evq' = evq \o api.echo /\ ready' = Wake(Rest, "consumer")
    /\ api' = [pc |-> "idle", echo |-> <<>>]
    /\ UNCHANGED <<env, kernel, db, nl, wire, root, tagq, dump, pc, task, event,
                   user, changes, fails, lost, ops, stable>>

(***************************************************************************)
(* The specification.                                                      *)
(***************************************************************************)

Init ==
    /\ env \in Envs
    /\ kernel \in {k \in [Rows -> {0, 1}] : k[Zero] = 0 /\
                    \A c \in Children : k[c] # 0 => Parent[c] = Zero \/ k[Parent[c]] # 0}
    /\ db = Empty /\ ready = <<>> /\ evq = <<>>
    /\ nl = NoSocket /\ wire = <<>> /\ root = <<>> /\ tagq = <<>> /\ dump = "none"
    /\ pc = "none" /\ event = FALSE
    /\ task = [watched |-> FALSE, target |-> "running", exc |-> FALSE]
    /\ user = [op |-> "add", pc |-> "new", aimed |-> FALSE]
    /\ api = [pc |-> "idle", echo |-> <<>>]
    /\ changes = 0 /\ fails = 0 /\ lost = 0 /\ ops = 0 /\ stable = {}

Socket == ReadDatagram \/ ReadOverrun \/ ConnectionLost
Receiver == \/ ReceiverConnect \/ ReceiverConnectFails \/ ReceiverBind
            \/ ReceiverBindFails \/ ReceiverLinks \/ ReceiverChildren
            \/ ReceiverEvents
Manager == LoadEvents \/ Reload \/ Completed \/ TaskWatch
Calls == Add \/ CloseFlush \/ CloseAim \/ CloseNl \/ AwaitEvent
Loop == Socket \/ Receiver \/ Manager \/ Awake \/ ApiReturn
Begin == Restart \/ Close \/ RemoveSource
Changes == \E o \in Objs, v \in Values : Change(o, v)
ApiCalls == \E o \in ApiObjs, v \in Values : ApiCall(o, v)
Kernel == AnswerDump \/ Readable

Next == Loop \/ Calls \/ Begin \/ Changes \/ ApiCalls \/ Kernel

\* the loop serves what is ready, the kernel answers, a call once begun goes on
Fairness == /\ WF_vars(Loop) /\ WF_vars(Calls)
            /\ WF_vars(AnswerDump) /\ WF_vars(Readable)

Spec == Init /\ [][Next]_vars /\ Fairness

(***************************************************************************)
(* Properties.                                                             *)
(***************************************************************************)

Synced == /\ pc = "reading" /\ nl.open /\ ~nl.err /\ ~nl.overrun
          /\ user.pc \notin {"flushed", "closing", "removed"}
Mirror == [kernel EXCEPT ![Zero] = 1]
Events(ds) ==
    LET sent[i \in 0..Len(ds)] ==
            IF i = 0 THEN <<>>
            ELSE IF ds[i].to = "root" THEN sent[i - 1] \o ds[i].recs ELSE sent[i - 1]
    IN  sent[Len(ds)]
Backlog == evq \o root \o Events(wire) \o api.echo

\* While the source forwards events, the database lags behind the system by
\* exactly the events on their way: bind() precedes flush() and the dump, and
\* nothing of an old socket is loaded after the flush.
BacklogIsDifference ==
    Synced /\ "race" \notin env => Replay(db, Backlog) = Mirror

\* The database is a lagging copy of the system (NDBReplica): restarts, failing
\* connections and lost events never make it skip, repeat or reorder updates
\* without loading everything again.
Replica == INSTANCE NDBReplica WITH
    truth <- Mirror, copy <- db, log <- Backlog, Applied <- Replay,
    synced <- Synced /\ "api" \notin env
IsReplica == Replica!Spec

\* What did not change during restart() or add() is in the database when the
\* call returns: set_ready() follows the dump through the same queue.
RestartLoads ==
    [][/\ user.pc \in {"await", "closed"} /\ user'.pc = "idle"
       /\ env \cap {"fail", "overrun"} = {}
       => \A o \in stable' : db'[o] = kernel'[o]]_vars

\* what api() and another process change at the same time
Contended == IF "race" \in env THEN ApiObjs ELSE {}

\* After the last change the database becomes, and stays, what the system is,
\* though connections fail, events are lost and the source is restarted.  An
\* object that api() and another process change while the source is loading may
\* differ: the echo passes the event that waits in the root queue.
CatchesUp ==
    "remove" \notin env /\ ~Overlapping =>
        <>[](\A o \in Rows \ Contended : db[o] = Mirror[o])

\* restart() and add() return, unless restart() meets a reload.
RestartReturns == ~Overlapping => []<>(user.pc \in {"idle", "removed"})
=============================================================================
