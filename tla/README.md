# TLA+ models of pyroute2

pyroute2 is a Python library that speaks netlink: it sends requests to the
kernel over sockets, reassembles the answers, and builds services on that: a
database of network objects (NDB), a DHCP client, a 9p client and server,
namespaces and child processes. Most of its lines are declarative message
tables. What is hard to test is the rest: coroutines, threads and callbacks
that share queues, pools, timers and state machines, and the offsets and lengths
of the codec that all of them rest on. That part is modelled here.

`PROJECT.json` lists the components, the runs, the hazards and, for every
definition, the source lines it stands for.

## The system and its models

| Part | Source (`pyroute2/`) | What is hard | Modules |
|------|------|------|------|
| Address pool | `common.py` | threads, partial last cell, collection of the ban list inside `alloc` | `AddrPool`, `Pool` |
| Netlink requests | `netlink/nlsocket.py`, `netlink/core.py` | late answers, abandoned generators, retries, overruns, notifications | `NetlinkRequest` |
| Marshal | `netlink/marshal.py` | when a response is complete; offsets of messages | `NetlinkRequest`, `Codec` |
| Message codec | `netlink/__init__.py` | attributes decoded when read, from an array that was replaced; lengths written afterwards; a shared cache | `Codec` |
| DHCP client | `dhcp/client.py`, `fsm.py`, `timers.py`, `xids.py`, `cli.py` | hooks suspend handlers; late packets; timers and signals; restarts | `DHCPClient` |
| NDB sources, task manager | `ndb/source.py`, `ndb/task_manager.py`, `ndb/view.py`, `ndb/schema.py` | flush against queued events, restarts, lost events | `NDBSource`, `NDBSchema`, `NDBReplica` |
| NDB objects, transactions | `ndb/objects/`, `ndb/transaction.py` | confirmation by events, retries, failure half-way | `NDBObject`, `NDBTransaction` |
| 9p client and server | `plan9/` | one stream for many tags; cached fids; shared inodes | `Plan9` |
| Child processes, namespaces | `process.py`, `netns/` | a child that dies, hangs or answers late; two system calls for one name | `ChildProcess`, `NetNS` |

How they interact: every socket holds an `AddrPool` for its sequence numbers or
tags (`core.py:258`) and a `CoreMessageQueue`; the ports of sockets
(`nlsocket.py:154`) and the fids of 9p (`plan9/client.py:45`) come from pools,
too. A request is reset and encoded, sent, and its answers are split and decoded
by the codec. `IPRoute` and the netfilter and generic classes make each call one
`nlm_request()`; NDB reads the root queue of an `AsyncIPRoute` for events and
uses its requests for dumps and changes; `netns` and `IPRoute` create sockets
through `ChildProcess`; the DHCP client has a raw socket of its own.

Where one component uses another, the model of the user has what the other
guarantees. `NetlinkRequest` and `Plan9` use the pool through `alloc()` returning
a number that is neither held nor banned, which is `Pool`, and `AddrPool` is shown
to implement `Pool`. That result is conditional: callers must release only what
they hold. `OwnTags` discharges this for netlink requests. The 9p client does not
(`version()` releases `0xFFFF`, which it never allocated), so `Plan9` has the ban
list and the growth of the bitmap in full, with the second collection that growth
brings and the exception that ends them. `NDBObject` replaces the
source by a sequence of events, and `BacklogIsDifference` of `NDBSource` says that
such a sequence separates database and system. `NetNS` extends `ChildProcess`.

Most models have a constant `Envs`, the environments (sets of features) of a run.
`Init` chooses one, so that scenarios add up instead of multiplying. Operators
whose comment begins with "mutant" are not part of the models: each is a
plausible wrong version of the definition after it, and shows that a property
would notice.

### AddrPool, Pool

`addr_map` is a sequence of cells, each the set of its free bits; `ban` is the
list of addresses with the number of allocations they still wait. `alloc()`
runs under a re-entrant lock. The model has one step for each entry of the ban
list (`GcTick`, `GcFree`, and `GcFail` when `free()` raises) and one for the
scan of the bitmap (`AllocReturn`, `AllocBeyond`, `AllocGrow`,
`AllocExhausted`), so threads interleave where the lock lets them. `AllocGrow`
begins the call again, and with it the collection. `held` and `misused` are
history: what callers have been given, and whether one has released what it did
not hold. `Pool` is the promise: `held`, `banned` and the results, no bitmap, no
lock. `MCAddrPool` has two instances in one behaviour specification, a forward
pool and a reverse one that bans what it hands out.

### NetlinkRequest

One socket on one event loop. The `pc` of a request is the place where its
coroutine is suspended: before and between attempts to send, waiting for its
queue, having yielded a message. Parsing a datagram is several steps for
readability; `Next` lets no other coroutine run between them (`Running`).
Datagrams carry the tag in their header and, as history, the request they
answer. The kernel is external: it answers what was sent, notifies, and drops
datagrams when the buffer overflows. Two paths have no `cleanup()`:
`prepare()` that raises (the number is taken, no queue exists; label "lost") and a
task that is cancelled while it sleeps between attempts ("leaked"). The model
has both, and `OwnTags` says what such a request leaves behind: its number, and in
the second case its queue and parser, and nothing of others. The constructor of a
request and its `prepare()` are one step: `setup_endpoint()` suspends only while the
socket has no transport, and the model begins with one that has (the synchronous
constructor or `bind()` made it). `Close` puts into the root queue what it finds to
tell: the error of `connection_lost()` when the thread has the transport, the
terminator when the synchronous `bind()` has registered the loop.

### Codec

`encode()` appends to one bytearray that all the attributes of a message share,
moves an offset of its own, and comes back to write the headers. `decode()` leaves
slots that remember array and offset; reading one decodes one level. `reset()`
gives a message a new array while its slots still need the old one, so arrays are
kept in a heap (`bufs`) that messages refer to. `Build`, `Parse`, `Read`, `Reset`,
`EncodeMsg` and `EncodeRaises` are the operations of a program on its messages, in
any order. The reference (`Wire`, `Message`, `Padded`) builds the bytes bottom-up from values
and tables, with no offsets. `Class` are the tables of the library, `Kernel`
those of the sender, which has attributes and flags the library does not know.
`lladdr` guesses the family from the text: `CanEncode` has the texts it refuses, and
`LlAddr` the one it takes for something else.

### DHCPClient

The tasks are the sender, the receiver, the watchdog of a state, the callbacks
of timers and signals, and the task that enters and exits the context manager.
They interleave where they really suspend: in hooks, while a packet is sent,
while they wait. `_sendq` is unbounded, so `put()` does not suspend, and
`transition()` and `reset()` are atomic. A server may answer any packet that was
ever sent (`sent`), any number of times: loss, delay, duplication and reordering
need no actions of their own. A transaction id is the number of the acquisition
(its random part); the low bits, which hold the state, are derived from it.
Seconds are abstracted: a timer that is armed may fire at any time. `__aenter__()`
loads the lease before it sets the state; when a late `reset()` has left the client
in another state than OFF the setter raises, with the lease already replaced
(`EnterRaises`, "refused"). The handlers of signals stay registered there.

### NDBSource, NDBSchema, NDBReplica

`NDBSchema` has the rows of a target, what loading an event does to them
(`load_netlink()` with the cascades of the foreign keys, `flush()`), and the objects
of the system that they stand for; `Order` is the order in which the kernel lists
them. `NDBSource` is one RTNL source, the task manager and the event loop they share. The order in
which the loop runs callbacks decides what is in the queue when the rows are
flushed, so the model has the loop's queue (`ready`), first in, first out.
`Source.receiver()` connects, binds, flushes, dumps links and then what refers to
them, announces itself and forwards events; the manager loads events and restarts
tasks that failed; a thread adds, restarts, closes or removes the source; `api()`
changes objects and puts the kernel's echo into the queue (the response to its
request ends at the echo, the first datagram without `NLM_F_MULTI`). The kernel loses
events when the socket overruns. `NDBReplica` is the promise: a copy that lags
behind by a log, loses sync at will, and has an exact log when it is in sync again.

### NDBObject, NDBTransaction

The calls of one thread are coroutines that call each other (`commit()` calls
`apply()`, that calls `commit()` for each object of its script, `rollback()` calls
`apply()` of a snapshot), so the model has a stack of frames. Events are loaded
only while the top frame awaits. An object is the last two states of its `State`,
a field, `changed`, whether it knows its index, its last save, script, and what it
did. Interfaces exist or are to be created. A new object whose `commit()` fails gets
back the fields it had, and so loses the index it has learnt (`CommitReturn`); its
`rollback()` then asks the kernel to delete something without an index, which is
refused. `addr('set')` sends nothing (`Silent`). `NDBTransaction` adds the thread:
sets, scripts, removals, `commit()`, `rollback()`, and `Transaction.commit()`. Its
history variable `loose` has the objects that stay changed after an error: those
whose `apply()` raised when the kernel had created or deleted something for it.

### Plan9

Client and server over two streams, with `addr_pool`, its cells and its ban list, the
cache of fids (`wnames`), the queues by tag, and the functions published as files. A
coroutine is suspended only while it waits for its answer. A read of the socket
may return several messages at once (feature "join"): the client then looks at
the tag of the first one only.

### ChildProcess, NetNS

`ChildProcess` is the object, the process and the socket between them: `run()`,
`communicate()` with its time limit, `stop()` with a signal that a handler may
catch, `wrapper()` in the child. `NetNS` gives the child its function (`_create()`
and `_create_socket_child()`, one step for each system call) and adds `setns()`,
`pushns()`, `popns()`, `dropns()`, `remove()` of the calling thread, and the retry of
`create_socket()`. `setns(2)` may fail: `popns()` puts the descriptor back then.

## Runs

| Run | Checks | Result |
|-----|--------|--------|
| `addr_pool` | `PoolConsistent`, `IsPool`, `ReverseIsPool`, `AllocTerminates` | pass: a forward pool of 3 addresses with callers that may misuse it, a reverse one of 6 |
| `netlink_requests` | `TypeOK`, `OwnTags`, `LateAnswersAreOld`, `NotTruncated` | pass: two requests or a batch of both, three environments |
| `netlink_fair` | `ResponsesEnd`, `CloseWakesReader` | pass |
| `netlink_foreign` | `OwnConversation` | violated (finding 1) |
| `codec` | `ReadsBack`, `EncodesWire`, `CacheIsTrue` | pass: messages with up to two attributes of every codec |
| `dhcp_safety` | `TypeOK`, `LeaseFitsState`, `TimersFitLease`, `SendsForState`, `GrantsAreCurrent` | pass: seven environments |
| `dhcp_fair` | `AcquiresLease`, `ExitEnds` | pass: three environments |
| `dhcp_exit` | `ExitCompletes` | violated (finding 2) |
| `ndb_source` | `BacklogIsDifference`, `IsReplica`, `RestartLoads`, `CatchesUp`, `RestartReturns` | pass: eight environments |
| `ndb_transaction` | `CommitConfirmed`, `FailedCommitRestores`, `FailedTransactionRestores`, `RollbackRestores`, `Returns` | pass: programs of up to five calls, four environments; events late and requests refused in the same one |
| `plan9` | `CallServed`, `TagsLast`, `OwnAnswer`, `RequestsEnd` | pass: seven programs, three environments |
| `netns` | `TypeOK`, `ChildrenReaped`, `NamesAreWhole`, `OneNamespace`, `AnswerOfThisChild`, `CallsReturn` | pass: five pairs of programs, five environments |

Bounds, and why they are enough:

- AddrPool: cells of two bits and ranges of three and six addresses give a
  partial last cell, growth, wrap to the first cell, and exhaustion. Bans of one
  and two steps make entries expire in both orders. The proofs remove the bounds.
- NetlinkRequest: two requests on two numbers with `Ban = 1` let a number be
  reused while an answer to its first owner is under way; `MaxTries = 2` has a
  first and a last attempt; the answers have every kind of end (error,
  acknowledgement, `NLMSG_DONE`). Symmetry between the requests in the safety run
  only.
- Codec: every pair of attributes, of sizes that leave each remainder modulo four,
  meets at a seam; arrays have cells with and without headers; nests are two
  deep; two resets (`MaxEncode`) encode a message that was decoded and then
  encoded before. Datagrams hold one or two messages.
- DHCPClient: three transaction ids give two resets, so that a packet may be
  late by two; two leases and two signals let callbacks of an old lease meet a
  new one. The bounds guard what starts something (`Enter`, `Signal`, resets),
  never what completes it.
- NDBSource: an interface, an object that refers to it and one that refers to the
  fake interface; two changes by others (one where two causes mix), one lost
  event, one failing connection, two calls of a thread. A change before and one
  after the dump reach every window between bind, flush and dump.
- NDBTransaction: two interfaces, each there or not yet, two addresses on one of
  them, so that a script fails after it succeeded once; `Tries = 2` has a first and
  a last attempt, so that a request is repeated and the repetition refused. Programs
  that remove an interface begin with one that exists.
- Plan9: nine tags in cells of three and a ban of eight, so that the bitmap grows
  and the pool fails within a program. No tag is used twice: `0xFFFF` is released
  before every other one, so that the collection raises before it frees a tag. The second client is idle (see below).
- NetNS: two threads on one name; one retry of `create_socket()`.

All runs but `addr_pool` set `CHECK_DEADLOCK FALSE`: the programs of the model end.

## Fairness

Weak fairness of every step that an event loop runs once it is ready (`asyncio`
serves ready callbacks in order), of a kernel that answers requests and reports
sockets as readable, of a call of a thread once it has begun, of a child process
that is not stuck and of the server side of 9p, of hooks that end (`run_hooks()` has a
timeout, two seconds by default), and, for the DHCP client, of a server that
answers offers and requests. Nothing is assumed of refusals, signals, timers,
callers, lost events or failures of the network.

## Findings

1. `netlink_foreign`: the queue of a datagram is chosen by its sequence number
   alone; a notification with the number of another process ends a response.
2. `dhcp_exit`: `__aexit__()` reads `self.lease` after it awaited hooks; a
   `reset()` in between makes it raise, and nothing is released.

Where a property of a passing run has a condition, the code does not do more.
These are the conditions and what happens outside of them:

- `NotTruncated` is checked with no parser that consumes messages: `get()` ends a
  response when nothing was left of a datagram, so such a parser truncates a
  dump. It leaves out responses that received the message of another. The run of
  `OwnTags` has no parsers of requests either; that each is dropped by its own
  request is left to the proof.
- `CloseWakesReader` leaves out a `close()` of an asynchronous socket on another
  thread, which finds neither a registered loop nor a transport and tells nobody.
- `EncodesWire` is about messages that `encode()` accepts. `lladdr` raises for an empty
  text, for the dump of a length other than four, six, eight and sixteen bytes, and for
  an IPv6 address that is 17 characters long and has no "::" (it is taken for a MAC). The dump
  of eight bytes is the text of an IPv6 address, too, and is encoded as that address,
  in sixteen bytes (`Denoted`).
- `LeaseFitsState` and `TimersFitLease` leave out clients that are started again with
  leases that are not stored (`LeaseIsFound`): `__aenter__()` does not erase the lease
  of the last run, which stays in INIT, and its timers may be of another.
  `LeaseFitsState` leaves out the states without a lease after an `__aenter__()` that
  raised: it has loaded the stored one.
- `GrantsAreCurrent` is about at most one signal: two signals before the sender
  runs leave messages of two acquisitions in the queue, all sent with the last
  id. A RELEASE that could not be sent is sent by the next life of the client.
- `CatchesUp` and `RestartReturns` leave out a `restart()` that meets a reload after
  an overrun: it may close the new socket in the middle of the dump, whose
  request then waits for ever. `CatchesUp` leaves out `remove()`, after which events in the queue are
  still loaded, and, of a field that `api()` and another process change at once,
  says nothing: while the source loads, the echo passes events that wait in the root queue.
- `RestartLoads` is about `restart()` and `add()` where nothing fails. A `restart()` soon
  after a `close()`, which makes the source load again by itself, may return
  before anything is loaded, or never; no environment of the run has both.
- The properties of NDBTransaction leave out other processes, queues that stall
  (`use_db_resync()` raises after the last try) and kernels that refuse the rollback.
  All but `RollbackRestores` and `Returns` are about calls that begin when the database
  shows the system: events of an earlier failed call that are not loaded yet hide
  what it has left. `FailedTransactionRestores` leaves out an object that is clean but was
  saved before, whose `rollback()` applies its old snapshot.
- `FailedCommitRestores` and `FailedTransactionRestores` except the objects in `loose`,
  and what refers to them. A new interface that was created stays when its script
  fails: `commit()` says so ("The routine doesn't clean up the system", `objects/__init__.py:711`),
  and a transaction cannot undo it, though its documentation
  promises that "the whole batch will be reverted" (`transaction.py:71`). An address that
  was added or deleted stays so when the event is late and the repetition of the
  request is refused. Of a removal that fails, the addresses that went with the
  interface do not all return.
- The properties of Plan9 leave out joined messages, except that the first one
  of a chunk is always the right one: the rest of a chunk is dropped, and an error
  of another request is raised. Two clients of a server share `Session.fid_table`,
  a class attribute, so only one client is active. After the ban of `0xFFFF` no
  tag can be allocated (`TagsLast` says when: it counts a collection for each request
  and one for each new cell).
- `NamesAreWhole` is about children that do not fail: `_create()` leaves a plain
  file behind when `unshare()` or `mount()` fails. `ChildrenReaped` has the one
  case of `create()`, which does not `stop()` a child that raised.

## Proofs

All proofs are for every value of the constants that the named assumptions
(`PoolAssumption`, `ClientAssumption`, `RequestAssumption`, `PlanAssumption`,
`Plan9Assumption`, `SchemaAssumption`, `SourceAssumption`)
admit: any number of threads, requests, numbers, names, objects, tags, programs,
environments, and any bounds.

`AddrPoolProofs`. The inductive invariant is `PoolInv`: types; `Conservation`
(an address is out of the bitmap exactly while held or banned); `BannedOnce`;
`SpareBits` (the bits beyond the range stay free); and the lock is taken exactly
while the cursor of the collection is in use. `Conservation` alone is not
inductive: `GcFree` would free an address that a second entry still bans, and
growth relies on the spare bits. Arithmetic is confined to lemmas on `Base`,
`Bit` and `AddrAt` (`LocateAddr`, `AddrLocate`, `EarlierInRange`,
`BeyondIsLast`); there is a lemma for each action. Theorems: `PoolInvariant`,
`NoDoubleAllocHolds`, `NoSpuriousExhaustionHolds`, and `PoolImplemented`, the
refinement of `Pool`: each action is a step of it or invisible.

`NetlinkRequestProofs`. `OwnTags` says who holds what now; `LateAnswersAreOld` is
about answers to those who held a number before. The invariant `NetInv` joins
them by `Numbered` (a request in flight has a number and has not given it back),
`Tagged` (a datagram bears the number its request had) and `Aged`: since a request
gave its number back, the collections that have passed and those the number is
still banned for are together more than `Ban`, and whoever has the number now
took it after more than `Ban` of them. `NotTruncated` needs a second invariant on
top, `Streams`: what is still to come for a request (owed by the kernel, in the
buffer of the socket, in its queue) is in the order of the answer, and once `get()`
has seen the end, none of it is a part. It holds under `AnswersAreWhole`: after a
datagram at which `get()` would end (it has an end, or the parser leaves nothing
of it) no datagram has a part. Without that the statement is false, see above.
Theorems: `TypesHold`, `OwnTagsHolds`, `LateAnswersAreOldHolds`,
`NotTruncatedHolds`.

`DHCPClientProofs`. `Shape` is what the other proofs need of the types
(`ShapeHolds`), without the bounds. `TypeOK` has the bounds, and is not inductive:
the `reset()` of a SIGHUP, an expiration or a NAK comes steps after what causes it.
`Budget` counts what will end in a `reset()`: the tasks in `pending`, those in
`expiring`, a NAK in its hooks; with the transaction ids taken they are at most
`MaxXid` (`TypeOKHolds`). `LeaseInv` adds `Remembered` to
`LeaseFitsState` and `TimersFitLease`: while leases can be written, the lease
and those of the timers are the stored one, so that `__aenter__()`, which loads
it, cannot leave timers of another; and that before the first start there is no lease,
which is why leases that are not stored do no harm without a restart. Theorems: `LeaseFitsStateHolds`,
`TimersFitLeaseHolds`, and `SendsForStateHolds`, which is inductive relative to
`Shape`.

`NetNSProofs`. `CallInv` describes, for each step of a call, the object, the child
and the socket that belong to it; it gives `ChildrenReaped` and
`AnswerOfThisChild`. `NameInv` says that at most one child is between `open()` and
`mount()` of a name (`O_EXCL`) and that what a child or a caller is about to
return is mounted there; it gives `OneNamespace` while names are not removed.
`NamesAreWhole` is about removals as well, so it has an invariant of its own,
`WholeInv`: a name whose file has no namespace belongs to a child between `open()`
and `mount()`, for which its caller still waits, or to a caller between
`umount2()` and `unlink()`. Theorems:
`TypesHold`, `ChildrenReapedHolds`, `OneNamespaceHolds`, `AnswerOfThisChildHolds`,
`NamesAreWholeHolds`.

The loops of the code (the collection of the ban list, the manager's loop over its
queue) are recursive functions in the models. The library's induction theorems take
an operator, which the provers cannot instantiate; `Plan9Proofs` and
`NDBSchemaProofs` begin with induction for sets instead (`NatSetInduction`,
`SeqInduction`, from the well-foundedness of the naturals), from which such a loop
has exactly one run (`CollectLoop`; `FoldExists`, `LoopsAgree`, `LoopsLast`).

`Plan9Proofs`. `TagInv` relates the pool, the ban list and the tasks of each client: what is banned is
allocated and banned once, except `0xFFFF`; the requests that wait have tags of
their own, which are not banned; the allocated tags are of the cells that the
bitmap has, and fewer than the requests so far; and `0xFFFF` has counts left until
requests and new cells together have made `Ban` collections. The second collection
of an `alloc()` that grows is the first one again on its result (`CollectLoop`,
`CollectOutcome`). So a pool with more than `Ban` tags serves that many, and the
first collection that raises comes later. Theorem: `TagsLastHolds`.

`NDBSchemaProofs`, `NDBSourceProofs`. `BacklogIsDifference` speaks of a source that is in sync, and
nothing of how it came to be. The invariant `SourceInv` says what separates
database and system at each stage of the load. Let k be the system and es the events
received since `bind()`. Before the dump of interfaces, es replayed over k is k
(`Undumped`), and if an interface is gone, es removes what refers to it
(`Orphaned`). Between the dumps, es replayed over the interfaces of the database
and the other objects of k is k (`LinksDumped`). After them, es replayed over the
database is k (`Dumped`). A change of the system with its event keeps each of
the three, and loading a dump leads from one to the next, although the events are older than
the dump and are loaded after it. The lemmas behind this, in `NDBSchemaProofs`, are about
`Replay` for all sequences of events: an event changes only what it names and
what refers to it (`ReplayLocal`), and which interfaces exist decides what is
refused (`ReplayAlike`). The rest of `SourceInv` is why the stages follow each other:
one answer at most is under way, it is the one the receiver waits for, and the
loop runs the manager before the receiver when rows are to be flushed
(`ConsumerFirst`). Theorems: `SourceInvariant`, `BacklogIsDifferenceHolds`, and
`ReplicaSafe`, the refinement of `NDBReplica` without its fairness: each step is
`Change`, `Deliver`, `FallBehind`, `Resync` or invisible. The first two leave out
`api()`, whose echo is queued out of order; in `ReplicaSafe` a source with
`api()` is never in sync, as in the mapping that TLC checks.

`NDBCallProofs`. Theorem `RestartLoadsHolds` says that `add()` and `restart()` return with a database in which
every object that did not change meanwhile is as in the system. It rests on
`SourceInv` and on four more invariants, checked by TLC before they were proved.
`CalmInv`: the receiver is woken only with something to read, the thread only by the
event. `OpInv`, `CallInv`: while a call waits, no marker of `set_ready()` is left of an
earlier load, and once the marker is queued the receiver has read both dumps.
`StableInv`: since `bind()`, an object that did not change is met in dumps only
(`Silent` events are not about it and do not remove its interface; `Right` ones carry
its value), and an object that the system does not have is not in the database. When
the event is set nothing but silent events is left, and by `Dumped` the database with
them is the system. The environments are those of `Ordinary`: without `api()`, and
without both `close()` and `restart()`. With both the property is false: a
`restart()` that meets the load which follows a `close()` can make it fail, and the
failed load sets the event (TLC shows it in 35 steps, with `{"close", "restart"}` as the
environment). Where events are lost or connections fail the property says nothing,
and neither does the theorem.

Only model-checked, and why:

- all liveness, and the fairness of `IsReplica`: fairness is out of the prover's
  reach;
- `RestartLoads` with `api()`: the echo of a change is queued late, and may be loaded
  after the call has returned;
- `BacklogIsDifference` with `api()`: it holds for the objects of the run, which do
  not refer to an interface;
- `GrantsAreCurrent`: it relies on the bounds of the run (three resets
  in a burst break it);
- `CallServed` and `OwnAnswer` of Plan9: the code guarantees them only for requests that wait less
  than `Ban` further requests, and for one client of a server;
- NDBTransaction: its properties relate the two ends of a call through a stack of
  frames, and the invariant of every frame in between is not written;
- Codec: its definitions are recursive operators, which the provers do not take.

## Not modelled

The components of `PROJECT.json` give the reason for each part. In short: most
lines of the library are tables of messages (`netlink/rtnl/`, `netlink/nfnetlink/`,
`netlink/generic/`, ...), classes of requests (`requests/`, `iproute/`), mocks of the
kernel, decoders and command line tools. They hold no state that outlives a call.
What they have in common, the codec and the request, is modelled once; a
table is a constant of `Codec`. A module for each would repeat its table.

Within the modelled parts:

- netlink: `bind()` and the search for a port, `put()` with a number of the
  caller's choice, policies of the socket, a second thread that sets up its
  transport, or closes an asynchronous socket of the first;
- codec: big-endian hosts; labels from 2^19 on (beyond TLC's integers once
  shifted); the strings that `compile_nla_table()` takes apart, `value_map`, flags of
  three-tuples, `none` atoms; truncated or malformed datagrams, and messages
  whose length is no multiple of four (`parse()` advances by the length as it
  is); unknown attributes when encoded again (they are dropped);
- DHCP: the seconds of timers, the contents of hooks, the pidfile, packets and
  checksums, the server detector (its tasks are independent; the time it has left
  shrinks by the whole time since its start at every response);
- NDB: several sources at once, start and shutdown of its threads, the objects'
  other fields and states, SQL, views and reports;
- 9p: messages split between two reads, plain files and directories;
- processes: the "mp" mode, long answers, reused process ids; the mount of the
  directory of names, listing of namespaces.
