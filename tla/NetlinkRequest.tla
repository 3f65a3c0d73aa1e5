---------------------------- MODULE NetlinkRequest ----------------------------
(***************************************************************************)
(* Requests and responses of one netlink socket on one event loop:         *)
(* NetlinkRequest and AsyncNetlinkSocket (pyroute2/netlink/nlsocket.py),   *)
(* CoreMessageQueue, CoreProtocol and AsyncCoreSocket (netlink/core.py)    *)
(* and the message loop of Marshal (netlink/marshal.py).                   *)
(*                                                                         *)
(* A request takes a sequence number from the pool, opens a queue tagged   *)
(* with it, sends, and reads its queue until the response is complete.     *)
(* Datagrams are put by the number in their header into the queue with     *)
(* that tag, or into the root queue 0 when there is none.  Coroutines are  *)
(* interleaved where they suspend: while they wait for a queue, sleep      *)
(* between two attempts to send, or have yielded a message.                *)
(*                                                                         *)
(* The pool is used through what AddrPool guarantees: alloc() returns a    *)
(* number that is neither held nor banned, and every pass over the ban     *)
(* list brings each banned number one step nearer to its release.          *)
(***************************************************************************)
EXTENDS Integers, Sequences, FiniteSets

CONSTANTS
    Req,        \* the NetlinkRequest objects
    Batches,    \* the arguments of one nlm_request_batch(): sequences of requests
    Parser,     \* the requests that have a parser of their own
    Seqs,       \* the sequence numbers of the pool
    Ban,        \* "ban" of cleanup(): 0xFF
    MaxTries,   \* attempts to send: 30
    Answers,    \* the kernel's answers: sequences of datagram bodies
    MaxNotes,   \* bound: notifications from the kernel
    Envs,       \* the environments: sets of what may happen, see Features
    None

Kinds == {"part", "msg", "ack", "err", "done", "skip"}
Tags == Seqs \cup {0}

\* Somebody reads the root queue; the socket is closed at some time; a request
\* proxy or a batch collects messages; the receive buffer may overflow; the
\* kernel notifies, also with the numbers of other processes; a message cannot
\* be encoded.
Features ==
    {"monitor", "close", "proxy", "overrun", "notify", "foreign", "encode"}

ASSUME RequestAssumption ==
    /\ Seqs \subseteq Nat \ {0}
    /\ Ban \in Nat \ {0} /\ MaxTries \in Nat \ {0} /\ MaxNotes \in Nat
    /\ Answers \subseteq Seq(Seq(Kinds))
    /\ Batches \subseteq Seq(Req) /\ Parser \subseteq Req
    /\ \A b \in Batches : \A i, j \in DOMAIN b : b[i] = b[j] => i = j
    /\ Envs \subseteq SUBSET Features
    /\ None \notin Req /\ None \notin Kinds /\ None \notin Nat

VARIABLES
    held, ban, passes,  \* the pool: numbers in use, steps to release, gc passes
    queues,             \* CoreMessageQueue.queues
    seq_map,            \* Marshal.seq_map: the parser of a number, by its owner
    rcv,                \* the receive buffer of the socket
    todo,               \* the datagrams that the kernel owes to a request
    pc, msg_seq, tries, \* the coroutine of a request
    batch, last,        \* the rest of the datagram it parses, its last message
    broken, closed,     \* the socket has failed, is closed
    reader,             \* a get() on the root queue
    notes, overrun,     \* notifications sent; the buffer has overflowed
    env,                \* what may happen
    msgs, noack,        \* the batch; its messages without NLM_F_ACK and NLM_F_DUMP
    taken, freed,       \* history: the gc passes at alloc() and at cleanup(),
    mixed               \* the owners of what a request has read

poolvars == <<held, ban, passes>>
reqvars == <<pc, msg_seq, tries, batch, last>>
sockvars == <<broken, closed, reader, notes, overrun>>
inputs == <<env, msgs, noack>>
history == <<taken, freed, mixed>>
vars == <<poolvars, queues, seq_map, rcv, todo, reqvars, sockvars, inputs, history>>

Datagram(tag, owner, body) == [tag |-> tag, owner |-> owner, body |-> body]
Nothing == Datagram(0, None, <<>>)

\* Nothing is in use: the pool is fresh, or earlier requests have just released
\* all of it.
Init ==
    /\ held = {} /\ passes = 0
    /\ ban \in {[s \in Seqs |-> b] : b \in {0, Ban + 1}}
    /\ queues = [t \in {0} |-> <<>>]
    /\ seq_map = [s \in {} |-> None]
    /\ rcv = <<>>
    /\ todo = [r \in Req |-> <<>>]
    /\ pc = [r \in Req |-> "new"]
    /\ msg_seq = [r \in Req |-> None]
    /\ tries = [r \in Req |-> 0]
    /\ batch = [r \in Req |-> Nothing]
    /\ last = [r \in Req |-> None]
    /\ broken = FALSE /\ closed = FALSE
    /\ reader = "idle"
    /\ notes = 0 /\ overrun = FALSE
    /\ env \in Envs /\ msgs \in Batches
    /\ noack \in SUBSET {msgs[i] : i \in DOMAIN msgs}
    /\ taken = [r \in Req |-> 0]
    /\ freed = [r \in Req |-> None]
    /\ mixed = [r \in Req |-> {}]

-----------------------------------------------------------------------------
(* The pool and the queues *)

Minus(a, n) == IF a > n THEN a - n ELSE 0

\* addr_pool.alloc(): one pass over the ban list, or two when the bitmap grows.
Alloc(s, n) ==
    /\ n = 2 => \A q \in Seqs : ban[q] # 1
    /\ s \notin held /\ ban[s] <= n
    /\ held' = held \cup {s}
    /\ ban' = [q \in Seqs |-> Minus(ban[q], n)]
    /\ passes' = passes + n

Exhausted == \A s \in Seqs : s \in held \/ ban[s] > 1

\* Mutant: every datagram goes to the root queue.
EnqueuedRoot(qs, tag, d) == [qs EXCEPT ![0] = Append(@, d)]

\* put_nowait(): a tag that has no queue falls back to the root queue.
Enqueued(qs, tag, d) ==
    LET t == IF tag \in DOMAIN qs THEN tag ELSE 0 IN
    [qs EXCEPT ![t] = Append(@, d)]

WithTag(qs, s) ==
    [t \in DOMAIN qs \cup {s} |-> IF t \in DOMAIN qs THEN qs[t] ELSE <<>>]

Without(f, s) == [t \in DOMAIN f \ {s} |-> f[t]]

\* Mutant: the number is released at once, without a ban.
CleanupNoBan(r) ==
    /\ held' = held \ {msg_seq[r]}
    /\ queues' = Without(queues, msg_seq[r])
    /\ seq_map' = Without(seq_map, msg_seq[r])
    /\ UNCHANGED ban
    /\ freed' = [freed EXCEPT ![r] = passes]
    /\ batch' = [batch EXCEPT ![r] = Nothing]
    /\ last' = [last EXCEPT ![r] = None]
    /\ tries' = [tries EXCEPT ![r] = 0]
    /\ UNCHANGED <<passes, msg_seq, taken>>

\* cleanup(): the number is banned, its queue and its parser are dropped, a
\* datagram that is still in the queue too; the frame of the coroutine ends.
Cleanup(r) ==
    /\ held' = held \ {msg_seq[r]}
    /\ ban' = [ban EXCEPT ![msg_seq[r]] = Ban + 1]
    /\ queues' = Without(queues, msg_seq[r])
    /\ seq_map' = Without(seq_map, msg_seq[r])
    /\ freed' = [freed EXCEPT ![r] = passes]
    /\ batch' = [batch EXCEPT ![r] = Nothing]
    /\ last' = [last EXCEPT ![r] = None]
    /\ tries' = [tries EXCEPT ![r] = 0]
    /\ UNCHANGED <<passes, msg_seq, taken>>

-----------------------------------------------------------------------------
(* Creating and sending a request *)

Goto(r, label) == pc' = [pc EXCEPT ![r] = label]

InBatch(r) == \E i \in DOMAIN msgs : msgs[i] = r

\* The requests of a batch are created, and their responses are read, in order.
Before(r) ==
    {msgs[i] : i \in {j \in DOMAIN msgs :
                          \E k \in DOMAIN msgs : msgs[k] = r /\ j < k}}
After(r) ==
    {msgs[i] : i \in {j \in DOMAIN msgs :
                          \E k \in DOMAIN msgs : msgs[k] = r /\ k < j}}

\* The loop that collects the messages of a batch has passed r.
Collected(r) == pc[r] = IF r \in noack THEN "queued" ELSE "prepared"

\* NetlinkRequest() and prepare(): nothing suspends between the two.
Create(r) ==
    /\ pc[r] = "new"
    /\ \A q \in Before(r) : Collected(q)
    /\ \E s \in Seqs, n \in {1, 2} :
          /\ Alloc(s, n)
          /\ msg_seq' = [msg_seq EXCEPT ![r] = s]
          /\ queues' = WithTag(queues, s)
          /\ seq_map' = IF r \in Parser
                        THEN [t \in DOMAIN seq_map \cup {s} |->
                                 IF t = s THEN r ELSE seq_map[t]]
                        ELSE seq_map
    /\ taken' = [taken EXCEPT ![r] = passes']
    /\ Goto(r, "prepared")
    /\ UNCHANGED <<rcv, todo, tries, batch, last, sockvars, inputs, freed, mixed>>

CreateFails(r) ==
    /\ pc[r] = "new"
    /\ \A q \in Before(r) : Collected(q)
    /\ Exhausted
    /\ ban' = [s \in Seqs |-> Minus(ban[s], 1)]
    /\ passes' = passes + 1
    /\ Goto(r, "failed")
    /\ UNCHANGED <<held, queues, seq_map, rcv, todo, msg_seq, tries, batch, last,
                   sockvars, inputs, history>>

\* prepare() raises, as encode() of a value does that the message cannot hold,
\* or setup_endpoint(): the number is taken, there is no queue, and no cleanup().
PrepareFails(r) ==
    /\ "encode" \in env
    /\ pc[r] = "new"
    /\ \A q \in Before(r) : Collected(q)
    /\ \E s \in Seqs, n \in {1, 2} :
          Alloc(s, n) /\ msg_seq' = [msg_seq EXCEPT ![r] = s]
    /\ taken' = [taken EXCEPT ![r] = passes']
    /\ Goto(r, "lost")
    /\ UNCHANGED <<queues, seq_map, rcv, todo, tries, batch, last, sockvars, inputs,
                   freed, mixed>>

Usable == ~broken /\ ~closed

\* send(): the kernel takes the message and owes an answer.
Send(r) ==
    /\ pc[r] \in {"prepared", "busy"} /\ ~InBatch(r)
    /\ Usable
    /\ \E answer \in Answers : todo' = [todo EXCEPT ![r] = answer]
    /\ Goto(r, "sent")
    /\ UNCHANGED <<poolvars, queues, seq_map, rcv, msg_seq, tries, batch, last,
                   sockvars, inputs, history>>

\* Mutant: the attempts are not counted against the limit.
SendBusyForever(r) ==
    /\ pc[r] \in {"prepared", "busy"} /\ ~InBatch(r)
    /\ Usable
    /\ tries' = [tries EXCEPT ![r] = @ + 1]
    /\ Goto(r, "busy")
    /\ UNCHANGED <<poolvars, queues, seq_map, rcv, todo, msg_seq, batch, last,
                   sockvars, inputs, history>>

\* proxy(): a handler in this process answers instead of the kernel, with
\* NLMSG_DONE (also for a message that is added to sock.batch) or an error.
SendProxied(r) ==
    /\ pc[r] = "prepared" /\ ~InBatch(r)
    /\ "proxy" \in env
    /\ \E body \in {<<"done">>, <<"err">>} :
          queues' = Enqueued(queues, msg_seq[r], Datagram(msg_seq[r], r, body))
    /\ Goto(r, "sent")
    /\ UNCHANGED <<poolvars, seq_map, rcv, todo, msg_seq, tries, batch, last,
                   sockvars, inputs, history>>

\* EBUSY: sleep and try again.
SendBusy(r) ==
    /\ pc[r] \in {"prepared", "busy"} /\ ~InBatch(r)
    /\ Usable
    /\ tries[r] + 1 < MaxTries
    /\ tries' = [tries EXCEPT ![r] = @ + 1]
    /\ Goto(r, "busy")
    /\ UNCHANGED <<poolvars, queues, seq_map, rcv, todo, msg_seq, batch, last,
                   sockvars, inputs, history>>

\* The task is cancelled while it sleeps: the loop catches no CancelledError, and
\* there is no cleanup().
SendCancelled(r) ==
    /\ pc[r] = "busy"
    /\ Goto(r, "leaked")
    /\ UNCHANGED <<poolvars, queues, seq_map, rcv, todo, msg_seq, tries, batch, last,
                   sockvars, inputs, history>>

\* The last attempt was busy, or send() failed: cleanup() and raise.
SendFails(r) ==
    /\ pc[r] \in {"prepared", "busy"} /\ ~InBatch(r)
    /\ Cleanup(r)
    /\ Goto(r, "failed")
    /\ UNCHANGED <<rcv, todo, sockvars, inputs, mixed>>

-----------------------------------------------------------------------------
(* nlm_request_batch() *)

\* Mutant: no cleanup() for a message that expects no response.
BatchNoAckKeeps(r) ==
    /\ InBatch(r) /\ r \in noack
    /\ pc[r] = "prepared"
    /\ Goto(r, "queued")
    /\ UNCHANGED <<poolvars, queues, seq_map, rcv, todo, msg_seq, tries, batch, last,
                   sockvars, inputs, history>>

\* A message that expects no response is cleaned up before the batch is sent.
BatchNoAck(r) ==
    /\ InBatch(r) /\ r \in noack
    /\ pc[r] = "prepared"
    /\ Cleanup(r)
    /\ Goto(r, "queued")
    /\ UNCHANGED <<rcv, todo, sockvars, inputs, mixed>>

BatchReady == \A i \in DOMAIN msgs : Collected(msgs[i])

\* One send() for all; the kernel answers each message, and a message that
\* expects no response only when it fails.
BatchSend ==
    /\ msgs # <<>> /\ BatchReady /\ Usable
    /\ \E f \in [Req -> Answers] :
          todo' = [r \in Req |->
                      IF ~InBatch(r) THEN todo[r]
                      ELSE IF r \in noack /\ f[r] # <<<<"err">>>> THEN <<>>
                      ELSE f[r]]
    /\ pc' = [r \in Req |-> IF ~InBatch(r) THEN pc[r]
                            ELSE IF r \in noack THEN "done" ELSE "sent"]
    /\ UNCHANGED <<poolvars, queues, seq_map, rcv, msg_seq, tries, batch, last,
                   sockvars, inputs, history>>

\* send() raises and nothing is cleaned up.
BatchSendFails ==
    /\ msgs # <<>> /\ BatchReady
    /\ pc' = [r \in Req |-> IF ~InBatch(r) THEN pc[r]
                            ELSE IF r \in noack THEN "done" ELSE "leaked"]
    /\ UNCHANGED <<poolvars, queues, seq_map, rcv, todo, msg_seq, tries, batch,
                   last, sockvars, inputs, history>>

\* An exception, or a caller that stops, ends the loop: the requests after r
\* are never read and never cleaned up.
EndBatch(r, label, abort) ==
    pc' = [q \in Req |-> IF q = r THEN label
                         ELSE IF abort /\ q \in After(r) /\ pc[q] = "sent"
                         THEN "leaked" ELSE pc[q]]

-----------------------------------------------------------------------------
(* Reading a response: response() and get() *)

Finished == {"done", "failed", "stopped"}

StartResponse(r) ==
    /\ pc[r] = "sent"
    /\ \A q \in Before(r) : pc[q] \in Finished
    /\ Goto(r, "wait")
    /\ UNCHANGED <<poolvars, queues, seq_map, rcv, todo, msg_seq, tries, batch,
                   last, sockvars, inputs, history>>

Pending(r) == queues[msg_seq[r]]
HasData(r) == pc[r] = "wait" /\ Pending(r) # <<>>

\* The parser, or the caller's callback, has taken every message of it.
NothingLeft(d) == \A i \in DOMAIN d.body : d.body[i] = "skip"

Strangers(r, d) == mixed' = [mixed EXCEPT ![r] = @ \cup ({d.owner} \ {r})]

Take(r) ==
    /\ HasData(r)
    /\ LET d == Head(Pending(r)) IN
       /\ ~NothingLeft(d)
       /\ batch' = [batch EXCEPT ![r] = d]
       /\ Strangers(r, d)
    /\ queues' = [queues EXCEPT ![msg_seq[r]] = Tail(@)]
    /\ Goto(r, "parse")
    /\ UNCHANGED <<poolvars, seq_map, rcv, todo, msg_seq, tries, last, sockvars,
                   inputs, taken, freed>>

\* No message was parsed from the datagram: the loop of get() breaks.
TakeNothing(r) ==
    /\ HasData(r)
    /\ NothingLeft(Head(Pending(r)))
    /\ Strangers(r, Head(Pending(r)))
    /\ Cleanup(r)
    /\ Goto(r, "done")
    /\ UNCHANGED <<rcv, todo, sockvars, inputs>>

Parses(r, kinds) ==
    /\ pc[r] \in {"parse", "yielded"}
    /\ batch[r].body # <<>>
    /\ Head(batch[r].body) \in kinds

NextMessage(r) == batch' = [batch EXCEPT ![r].body = Tail(@)]

Skip(r) ==
    /\ Parses(r, {"skip"})
    /\ NextMessage(r)
    /\ UNCHANGED <<poolvars, queues, seq_map, rcv, todo, pc, msg_seq, tries, last,
                   sockvars, inputs, history>>

\* get() yields the message, response() runs the callbacks and yields it.
Yield(r) ==
    /\ Parses(r, {"part", "msg", "ack"})
    /\ last' = [last EXCEPT ![r] = Head(batch[r].body)]
    /\ NextMessage(r)
    /\ Goto(r, "yielded")
    /\ UNCHANGED <<poolvars, queues, seq_map, rcv, todo, msg_seq, tries, sockvars,
                   inputs, history>>

ParseDone(r) ==
    /\ Parses(r, {"done"})
    /\ Cleanup(r)
    /\ Goto(r, "done")
    /\ UNCHANGED <<rcv, todo, sockvars, inputs, mixed>>

\* The error is raised; "noraise" keeps the loop over a batch going.
ParseError(r, noraise) ==
    /\ Parses(r, {"err"})
    /\ Cleanup(r)
    /\ EndBatch(r, "failed", ~noraise)
    /\ UNCHANGED <<rcv, todo, sockvars, inputs, mixed>>

EndOfDatagram(r) == pc[r] = "yielded" /\ batch[r].body = <<>>

\* Mutant: NLM_F_MULTI is not looked at.
CompleteAlways(r) ==
    /\ EndOfDatagram(r)
    /\ Cleanup(r)
    /\ Goto(r, "done")
    /\ UNCHANGED <<rcv, todo, sockvars, inputs, mixed>>

\* A message without NLM_F_MULTI is a complete response.
Complete(r) ==
    /\ EndOfDatagram(r)
    /\ last[r] \in {"msg", "ack"}
    /\ Cleanup(r)
    /\ Goto(r, "done")
    /\ UNCHANGED <<rcv, todo, sockvars, inputs, mixed>>

More(r) ==
    /\ EndOfDatagram(r)
    /\ last[r] = "part"
    /\ Goto(r, "wait")
    /\ UNCHANGED <<poolvars, queues, seq_map, rcv, todo, msg_seq, tries, batch,
                   last, sockvars, inputs, history>>

\* terminate(msg) is true of the last message.
Terminate(r) ==
    /\ EndOfDatagram(r)
    /\ last[r] = "part"
    /\ Cleanup(r)
    /\ Goto(r, "stopped")
    /\ UNCHANGED <<rcv, todo, sockvars, inputs, mixed>>

\* The caller closes the generator, or its task is cancelled.
Abandon(r) ==
    /\ pc[r] \in {"wait", "yielded"}
    /\ Cleanup(r)
    /\ EndBatch(r, "stopped", TRUE)
    /\ UNCHANGED <<rcv, todo, sockvars, inputs, mixed>>

-----------------------------------------------------------------------------
(* The kernel and the event loop *)

KernelAnswers(r) ==
    /\ todo[r] # <<>>
    /\ ~closed
    /\ rcv' = Append(rcv, Datagram(msg_seq[r], r, Head(todo[r])))
    /\ todo' = [todo EXCEPT ![r] = Tail(@)]
    /\ UNCHANGED <<poolvars, queues, seq_map, reqvars, sockvars, inputs, history>>

\* A notification carries 0, or the number of the request that caused it:
\* a request of another process may have any number.
KernelNotifies(tag) ==
    /\ notes < MaxNotes
    /\ ~closed
    /\ (tag = 0 /\ "notify" \in env) \/ "foreign" \in env
    /\ notes' = notes + 1
    /\ rcv' = Append(rcv, Datagram(tag, None, <<"msg">>))
    /\ UNCHANGED <<poolvars, queues, seq_map, todo, reqvars, broken, closed, reader,
                   overrun, inputs, history>>

\* The buffer is full: a datagram is dropped and the socket has an error.
KernelOverruns(r) ==
    /\ "overrun" \in env
    /\ todo[r] # <<>>
    /\ ~closed
    /\ todo' = [todo EXCEPT ![r] = Tail(@)]
    /\ overrun' = TRUE
    /\ UNCHANGED <<poolvars, queues, seq_map, rcv, reqvars, broken, closed, reader,
                   notes, inputs, history>>

\* datagram_received() and enqueue().
Receive ==
    /\ rcv # <<>>
    /\ ~overrun /\ ~closed
    /\ rcv' = Tail(rcv)
    /\ queues' = Enqueued(queues, Head(rcv).tag, Head(rcv))
    /\ UNCHANGED <<poolvars, seq_map, todo, reqvars, sockvars, inputs, history>>

ErrorPacket == Datagram(0, None, <<"err">>)

\* error_received(): the error is told to the root queue only.
ErrorReceived ==
    /\ overrun
    /\ ~closed
    /\ broken' = TRUE
    /\ overrun' = FALSE
    /\ queues' = Enqueued(queues, 0, ErrorPacket)
    /\ UNCHANGED <<poolvars, seq_map, rcv, todo, reqvars, closed, reader, notes,
                   inputs, history>>

\* get() on the root queue.
RootGet ==
    /\ "monitor" \in env
    /\ reader = "idle"
    /\ ~closed
    /\ reader' = "wait"
    /\ UNCHANGED <<poolvars, queues, seq_map, rcv, todo, reqvars, broken, closed,
                   notes, overrun, inputs, history>>

\* One datagram is a complete response of the root queue: get() returns, or
\* raises when the datagram has an error.
RootTake ==
    /\ reader = "wait"
    /\ queues[0] # <<>>
    /\ reader' = "idle"
    /\ queues' = [queues EXCEPT ![0] = Tail(@)]
    /\ UNCHANGED <<poolvars, seq_map, rcv, todo, reqvars, broken, closed, notes,
                   overrun, inputs, history>>

\* Mutant: nothing is put into the root queue.
CloseSilently ==
    /\ "close" \in env /\ ~closed
    /\ closed' = TRUE
    /\ rcv' = <<>>
    /\ todo' = [r \in Req |-> <<>>]
    /\ UNCHANGED <<poolvars, queues, seq_map, reqvars, broken, reader, notes, overrun,
                   inputs, history>>

\* close(): the error of connection_lost() is put into the root queue, before it
\* the terminator, for a loop that bind() has registered; the terminator alone
\* when another thread calls close(), where there is no transport to abort.
Close ==
    /\ "close" \in env /\ ~closed
    /\ closed' = TRUE
    /\ rcv' = <<>>
    /\ todo' = [r \in Req |-> <<>>]
    /\ \E told \in {<<ErrorPacket>>, <<Nothing, ErrorPacket>>, <<Nothing>>} :
          queues' = [queues EXCEPT ![0] = @ \o told]
    /\ UNCHANGED <<poolvars, seq_map, reqvars, broken, reader, notes, overrun,
                   inputs, history>>

-----------------------------------------------------------------------------
Reading(r) ==
    \/ Take(r) \/ TakeNothing(r) \/ Skip(r) \/ Yield(r)
    \/ ParseDone(r) \/ ParseError(r, TRUE) \/ ParseError(r, FALSE)
    \/ Complete(r) \/ More(r)

Sending(r) == SendProxied(r) \/ Send(r) \/ SendBusy(r) \/ SendFails(r)

\* A coroutine that has not come to a point where it suspends.
Running(r) == pc[r] = "parse" \/ (pc[r] = "prepared" /\ ~InBatch(r))

Step ==
    \/ \E r \in Req :
          \/ Create(r) \/ CreateFails(r) \/ PrepareFails(r) \/ SendCancelled(r)
          \/ BatchNoAck(r) \/ StartResponse(r)
          \/ Sending(r) \/ Reading(r) \/ Terminate(r) \/ Abandon(r)
          \/ KernelAnswers(r) \/ KernelOverruns(r)
    \/ BatchSend \/ BatchSendFails
    \/ \E tag \in Tags : KernelNotifies(tag)
    \/ Receive \/ ErrorReceived
    \/ RootGet \/ RootTake
    \/ Close

Next ==
    \/ \E r \in Req : Running(r) /\ (Sending(r) \/ Reading(r))
    \/ (\A r \in Req : ~Running(r)) /\ Step

Spec == Init /\ [][Next]_vars

\* The loop runs what is ready, and the kernel answers.
Fairness ==
    /\ WF_vars(Receive) /\ WF_vars(ErrorReceived) /\ WF_vars(RootTake)
    /\ \A r \in Req : WF_vars(Reading(r)) /\ WF_vars(KernelAnswers(r))

FairSpec == Spec /\ Fairness

-----------------------------------------------------------------------------
(* Properties *)

Datagrams == [tag : Tags, owner : Req \cup {None}, body : Seq(Kinds)]

Labels == {"new", "prepared", "busy", "queued", "sent", "wait", "parse", "yielded",
           "leaked", "lost"} \cup Finished

\* Type invariant.
TypeOK ==
    /\ held \subseteq Seqs /\ ban \in [Seqs -> 0..(Ban + 1)] /\ passes \in Nat
    /\ DOMAIN queues \subseteq Tags
    /\ \A t \in DOMAIN queues : queues[t] \in Seq(Datagrams)
    /\ DOMAIN seq_map \subseteq Seqs
    /\ rcv \in Seq(Datagrams)
    /\ todo \in [Req -> Seq(Seq(Kinds))]
    /\ pc \in [Req -> Labels]
    /\ msg_seq \in [Req -> Seqs \cup {None}]
    /\ tries \in [Req -> 0..MaxTries]
    /\ batch \in [Req -> Datagrams]
    /\ last \in [Req -> Kinds \cup {None}]
    /\ {broken, closed, overrun} \subseteq BOOLEAN
    /\ reader \in {"idle", "wait"}
    /\ notes \in 0..MaxNotes
    /\ taken \in [Req -> Nat] /\ freed \in [Req -> Nat \cup {None}]
    /\ mixed \in [Req -> SUBSET (Req \cup {None})]
    /\ env \in Envs /\ msgs \in Batches /\ noack \subseteq Req

\* The requests that own a number, and those of them that got no queue and no
\* parser because prepare() failed.
Live == {r \in Req : pc[r] \notin {"new", "queued"} \cup Finished}
Lost == {r \in Req : pc[r] = "lost"}

\* The numbers in use, the queues and the parsers are exactly those of the live
\* requests, one each: no path of send(), response() or a batch drops the queue
\* of another request, leaves one behind, or opens two with one number, and a
\* failing prepare() leaves a number behind but no queue.
OwnTags ==
    /\ held = {msg_seq[r] : r \in Live}
    /\ DOMAIN queues = {msg_seq[r] : r \in Live \ Lost} \cup {0}
    /\ \A q, r \in Live : msg_seq[q] = msg_seq[r] => q = r
    /\ \A s \in DOMAIN seq_map : seq_map[s] \in Live \ Lost /\ msg_seq[seq_map[s]] = s

\* A late answer reaches a stranger only after the ban has run out: whoever
\* reads an answer to another request of this socket took the number more than
\* Ban passes of the pool's garbage collection after that request released it.
LateAnswersAreOld ==
    \A r \in Req : \A q \in mixed[r] \ {None} :
        freed[q] # None /\ taken[r] > freed[q] + Ban

\* A response is made of the answers to its request: "Get a conversation
\* answer from the socket" (get()); here, no notification is taken for one.
OwnConversation == \A r \in Req : None \notin mixed[r]

\* What the kernel has still to say to r.
Unread(r) ==
    {todo[r][i] : i \in DOMAIN todo[r]} \cup
    {rcv[i].body : i \in {j \in DOMAIN rcv : rcv[j].owner = r}}

\* A response that ends by itself is complete: no part of the dump is still to
\* come when get() decides that it has seen enough.
NotTruncated ==
    \A r \in Req : pc[r] = "done" /\ mixed[r] = {} =>
        \A body \in Unread(r) : \A i \in DOMAIN body : body[i] \notin {"part", "skip"}

\* Every response that is being read ends while the kernel answers and the
\* socket is open, whatever the other requests, their parsers and the readers
\* of the root queue do.
ResponsesEnd ==
    \A r \in Req : pc[r] = "wait" ~> (pc[r] \in Finished \/ closed)

\* close() wakes up who waits in get().
CloseWakesReader == (closed /\ reader = "wait") ~> (reader = "idle")
=============================================================================
