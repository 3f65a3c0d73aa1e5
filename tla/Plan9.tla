------------------------------- MODULE Plan9 -------------------------------
(***************************************************************************)
(* The 9p client and server of pyroute2/plan9: coroutines of a client ask  *)
(* for files that stand for functions, over a stream that may join         *)
(* messages.  Tags come from an AddrPool (with its ban list and the cells  *)
(* of its bitmap, whose number decides how often the list is collected),   *)
(* fids from another that is never given anything back.                    *)
(*                                                                         *)
(* A coroutine is suspended only while it waits for its answer, so all     *)
(* from one wait to the next is a single step.  data_received() of the     *)
(* server is one step for all messages of a chunk.                         *)
(***************************************************************************)
EXTENDS Integers, Sequences, FiniteSets

CONSTANTS Clients, Tasks,
          ClientOf,       \* the client of a task
          Files,          \* paths of functions
          Missing,        \* a path without a file
          Root,
          MinTag, MaxTag, \* the range of addr_pool
          CellSize,       \* the bits of a cell of its bitmap
          NoTag,          \* 0xFFFF; no request gets as far in the range
          Ban,            \* 0xFF
          Plans,          \* what the tasks do
          Envs            \* the sets of features a run explores

Tags == MinTag..MaxTag

ASSUME Plan9Assumption ==
    /\ ClientOf \in [Tasks -> Clients] /\ NoTag \notin Tags
    /\ Missing \notin Files /\ Root \notin Files /\ Ban \in Nat \ {0}
    /\ MinTag \in Nat /\ MaxTag \in Nat /\ CellSize \in Nat \ {0}
    /\ MaxTag >= MinTag + Ban

Paths == Files \cup {Missing}
NoArg == 0
BadArg == 1            \* the function raises
ExitArg == 2           \* it raises Plan9Exit

VARIABLES
    env,            \* features of the environment
    held, ban,      \* addr_pool of a client: allocated tags, the ban list
    cells,          \* len(addr_map): the cells of its bitmap
    nfid, wnames,   \* fid_pool, and the fids of paths
    queues,         \* msg_queue: chunks by tag
    up, down,       \* the streams to and from the server
    open,           \* the connection
    fid_table,      \* of Session: a class attribute
    data, dirty,    \* contents and metadata of the files
    task,           \* the coroutines
    plan,           \* what is left of them
    nid             \* history: number of requests

client == <<held, ban, cells, nfid, wnames, queues>>
server == <<fid_table, data, dirty>>
vars == <<env, client, up, down, open, server, task, plan, nid>>

(***************************************************************************)
(* addr_pool                                                               *)
(***************************************************************************)

Pool(c, list) == [held |-> held[c], ban |-> list, cells |-> cells[c], raised |-> FALSE]

\* one entry of the ban list: free() of a tag that is not allocated raises,
\* and the rest of the list stays as it is
Collect1(r, e) ==
    IF r.raised THEN [r EXCEPT !.ban = Append(@, e)]
    ELSE IF e.counter > 0
    THEN [r EXCEPT !.ban = Append(@, [e EXCEPT !.counter = @ - 1])]
    ELSE IF e.tag \in r.held
    THEN [r EXCEPT !.held = @ \ {e.tag}]
    ELSE [r EXCEPT !.ban = Append(@, e), !.raised = TRUE]

\* the collection of the ban list of a pool
Collect(pool) ==
    LET gc[i \in 0..Len(pool.ban)] ==
            IF i = 0 THEN [pool EXCEPT !.ban = <<>>]
            ELSE Collect1(gc[i - 1], pool.ban[i])
    IN  gc[Len(pool.ban)]

\* the tags that a bitmap of n cells has
Mapped(n) == {tag \in Tags : tag < MinTag + n * CellSize}

\* the scan finds no tag in the bitmap, and there are tags beyond it
Grows(pool) ==
    /\ ~pool.raised
    /\ Mapped(pool.cells) \subseteq pool.held
    /\ Mapped(pool.cells) # Tags

\* ... then the bitmap is given a cell, and alloc() begins again: with a second
\* collection
Grown(pool) == IF Grows(pool) THEN Collect([pool EXCEPT !.cells = @ + 1]) ELSE pool

(***************************************************************************)
(* Coroutines of the client.                                               *)
(***************************************************************************)

Idle == [pc |-> "idle", op |-> <<"none">>, stage |-> "none", tag |-> NoTag, id |-> 0,
         res |-> <<"none">>]

Done(op, res) == [Idle EXCEPT !.op = op, !.res = res]

\* the message of a stage: the fid it uses, the path and the argument
Message(stage, op, tag, fid) ==
    [id |-> nid, tag |-> tag, kind |-> IF stage = "use" THEN op[1] ELSE stage,
     fid |-> fid, path |-> IF Len(op) > 1 THEN op[2] ELSE Root,
     arg |-> IF Len(op) > 2 THEN op[3] ELSE NoArg]

\* what is written to a transport that is closed is lost
Write(c, m) == up' = IF open[c] THEN [up EXCEPT ![c] = Append(@, m)] ELSE up

\* request() with a tag of its own: version()
RequestVersion(t, op) ==
    LET c == ClientOf[t] IN
    /\ Write(c, Message("version", op, NoTag, 0))
    /\ task' = [task EXCEPT ![t] = [pc |-> "wait", op |-> op, stage |-> "version",
                                    tag |-> NoTag, id |-> nid, res |-> <<"none">>]]
    /\ nid' = nid + 1 /\ UNCHANGED <<held, ban, cells>>

\* request(): alloc() may raise
Request(t, op, stage, fid, list) ==
    LET c == ClientOf[t] IN
    \E first \in {Collect(Pool(c, list))} : \E a \in {Grown(first)} :
        LET free == Mapped(a.cells) \ a.held IN
        /\ ban' = [ban EXCEPT ![c] = a.ban]
        /\ cells' = [cells EXCEPT ![c] = a.cells]
        /\ \/ /\ a.raised \/ free = {}
              /\ held' = [held EXCEPT ![c] = a.held]
              /\ task' = [task EXCEPT ![t] = Done(op, <<"exhausted">>)]
              /\ UNCHANGED <<up, nid>>
           \/ /\ ~a.raised
              /\ \E tag \in {n \in free : \A m \in free : n <= m} :
                    /\ held' = [held EXCEPT ![c] = a.held \cup {tag}]
                    /\ Write(c, Message(stage, op, tag, fid))
                    /\ task' = [task EXCEPT ![t] =
                                  [pc |-> "wait", op |-> op, stage |-> stage,
                                   tag |-> tag, id |-> nid, res |-> <<"none">>]]
              /\ nid' = nid + 1

\* mutant: every path gets the same fid
UseSameFid(t, op) ==
    LET c == ClientOf[t]
        p == op[2]
    IN  IF wnames[c][p] # 0
        THEN /\ Request(t, op, "use", wnames[c][p], ban[c])
             /\ UNCHANGED <<nfid, wnames>>
        ELSE /\ wnames' = [wnames EXCEPT ![c][p] = nfid[c]]
             /\ Request(t, op, "walk", nfid[c], ban[c]) /\ UNCHANGED nfid

\* fid(): a path that is not known is walked to, and known from then on
Use(t, op) ==
    LET c == ClientOf[t]
        p == op[2]
    IN  IF wnames[c][p] # 0
        THEN /\ Request(t, op, "use", wnames[c][p], ban[c])
             /\ UNCHANGED <<nfid, wnames>>
        ELSE /\ nfid' = [nfid EXCEPT ![c] = @ + 1]
             /\ wnames' = [wnames EXCEPT ![c][p] = nfid[c]]
             /\ Request(t, op, "walk", nfid[c], ban[c])

\* start_session() comes before all other requests of a client
Starting(c) ==
    \E u \in Tasks : /\ ClientOf[u] = c
                     /\ \/ plan[u] # <<>> /\ Head(plan[u])[1] = "start"
                        \/ task[u].pc = "wait" /\ task[u].op[1] = "start"

\* start_session(), or a use of a file
Begin(t) ==
    /\ task[t].pc = "idle" /\ plan[t] # <<>>
    /\ Head(plan[t])[1] = "start" \/ ~Starting(ClientOf[t])
    /\ plan' = [plan EXCEPT ![t] = Tail(@)]
    /\ LET op == Head(plan[t]) IN
       IF op[1] = "start"
       THEN RequestVersion(t, op) /\ UNCHANGED <<nfid, wnames>>
       ELSE Use(t, op)
    /\ UNCHANGED <<env, queues, down, open, server>>

\* mutant: a tag may be reused at once
ReleasedAtOnce(t) ==
    IF task[t].tag = NoTag THEN ban[ClientOf[t]]
    ELSE Append(ban[ClientOf[t]], [tag |-> task[t].tag, counter |-> 0])

\* mutant: the ban is one short
ReleasedEarly(t) ==
    Append(ban[ClientOf[t]], [tag |-> task[t].tag, counter |-> Ban - 1])

\* `finally` of request(): the tag is banned, its queue stays
Released(t) == Append(ban[ClientOf[t]], [tag |-> task[t].tag, counter |-> Ban])

\* get(): the messages of the chunk are parsed, an error among them is raised,
\* and the first one is returned
Errors(chunk) == SelectSeq(chunk, LAMBDA m : m.kind = "error")
Outcome(chunk) == IF Errors(chunk) # <<>> THEN <<"error", Head(Errors(chunk)).id>>
                  ELSE <<"ok", Head(chunk).id, Head(chunk).val>>

Chunk(t) == Head(queues[ClientOf[t]][task[t].tag])

Ready(t) == task[t].pc = "wait" /\ queues[ClientOf[t]][task[t].tag] # <<>>

Next1(t) == IF task[t].stage = "version" THEN "attach" ELSE "use"
Final(t) == task[t].stage \in {"attach", "use"} \/ Outcome(Chunk(t))[1] = "error"

Dequeue(t) == queues' = [queues EXCEPT ![ClientOf[t]][task[t].tag] = Tail(@)]

\* the answer ends the call ...
Answered(t) ==
    /\ Ready(t) /\ Final(t) /\ Dequeue(t)
    /\ ban' = [ban EXCEPT ![ClientOf[t]] = Released(t)]
    /\ task' = [task EXCEPT ![t] = Done(@.op, Outcome(Chunk(t)))]
    /\ UNCHANGED <<env, held, cells, nfid, wnames, up, down, open, server, plan, nid>>

\* ... or its next request follows, after the tag was released
Followed(t) ==
    /\ Ready(t) /\ ~Final(t) /\ Dequeue(t)
    /\ Request(t, task[t].op, Next1(t),
               IF Next1(t) = "attach" THEN 0 ELSE wnames[ClientOf[t]][task[t].op[2]],
               Released(t))
    /\ UNCHANGED <<env, nfid, wnames, down, open, server, plan>>

\* the caller gives up: asyncio.wait_for(), task.cancel()
Cancel(t) ==
    /\ "cancel" \in env /\ task[t].pc = "wait" /\ task[t].op[1] # "start"
    /\ task' = [task EXCEPT ![t] = Done(@.op, <<"cancelled">>)]
    /\ ban' = [ban EXCEPT ![ClientOf[t]] = Released(t)]
    /\ UNCHANGED <<env, held, cells, nfid, wnames, queues, up, down, open, server, plan, nid>>

(***************************************************************************)
(* Streams.                                                                *)
(***************************************************************************)

\* how many messages one read of a socket may return
Joined(s) == IF "join" \in env THEN 1..Len(s) ELSE {n \in {1} : s # <<>>}

\* enqueue(): by the tag of the first message of the chunk
ClientReceives(c) ==
    /\ \E n \in Joined(down[c]) :
          /\ queues' = [queues EXCEPT ![c][down[c][1].tag] =
                            Append(@, SubSeq(down[c], 1, n))]
          /\ down' = [down EXCEPT ![c] = SubSeq(@, n + 1, Len(@))]
    /\ UNCHANGED <<env, held, ban, cells, nfid, wnames, up, open, server, task, plan, nid>>

\* connection_lost(): the error goes to the root queue, which no request reads
ConnectionLost(c) ==
    /\ "lost" \in env /\ open[c]
    /\ open' = [open EXCEPT ![c] = FALSE]
    /\ up' = [up EXCEPT ![c] = <<>>]
    /\ UNCHANGED <<env, client, down, server, task, plan, nid>>

(***************************************************************************)
(* The server: state is [fids, data, dirty, out, end].                     *)
(***************************************************************************)

Reply(st, m, val) ==
    [st EXCEPT !.out = Append(@, [id |-> m.id, tag |-> m.tag, kind |-> "reply",
                                  val |-> val])]

\* mutant: nothing is answered
RaiseSilently(st, m, end) == [st EXCEPT !.end = end]

\* error(): the chunk is left
Raise(st, m, end) ==
    [st EXCEPT !.out = Append(@, [id |-> m.id, tag |-> m.tag, kind |-> "error",
                                  val |-> <<>>]),
               !.end = end]

\* func(): what it returns tells the path and the argument
func(p, a) == <<p, a>>

t_version(st, m) == Reply(st, m, <<>>)
t_attach(st, m) == Reply([st EXCEPT !.fids[0] = Root], m, <<>>)

t_walk(st, m) ==
    IF st.fids[0] # Root \/ m.path = Missing THEN Raise(st, m, "chunk")
    ELSE Reply([st EXCEPT !.fids[m.fid] = m.path], m, <<>>)

t_call(st, m) ==
    LET p == st.fids[m.fid] IN
    IF p \notin Files \/ m.arg = BadArg THEN Raise(st, m, "chunk")
    ELSE IF m.arg = ExitArg THEN Raise(st, m, "exit")
    ELSE Reply(st, m, func(p, m.arg))

t_write(st, m) ==
    LET p == st.fids[m.fid] IN
    IF p \notin Files THEN Raise(st, m, "chunk")
    ELSE Reply([st EXCEPT !.data[p] = <<"args", m.arg>>, !.dirty[p] = TRUE], m, <<>>)

\* new arguments: the function is called.  Its exception cannot be dumped, so
\* the file is left empty and dirty; empty data cannot be loaded
t_read(st, m) ==
    LET p == st.fids[m.fid]
        d == st.data[p]
        bad == d[1] # "args" \/ d[2] = BadArg
    IN  IF p \notin Files THEN Raise(st, m, "chunk")
        ELSE IF ~st.dirty[p] THEN Reply(st, m, d)
        ELSE IF bad THEN Raise([st EXCEPT !.data[p] = <<"empty">>], m, "chunk")
        ELSE IF d[2] = ExitArg THEN Raise(st, m, "exit")
        ELSE Reply([st EXCEPT !.data[p] = func(p, d[2]), !.dirty[p] = FALSE],
                   m, func(p, d[2]))

Handle(st, m) ==
    IF st.end # "no" THEN st
    ELSE CASE m.kind = "version" -> t_version(st, m)
           [] m.kind = "attach" -> t_attach(st, m)
           [] m.kind = "walk" -> t_walk(st, m)
           [] m.kind = "call" -> t_call(st, m)
           [] m.kind = "write" -> t_write(st, m)
           [] m.kind = "read" -> t_read(st, m)

Served(msgs) ==
    LET st[i \in 0..Len(msgs)] ==
            IF i = 0 THEN [fids |-> fid_table, data |-> data, dirty |-> dirty,
                           out |-> <<>>, end |-> "no"]
            ELSE Handle(st[i - 1], msgs[i])
    IN  st[Len(msgs)]

\* data_received(): Plan9Exit closes the connection
ServerReceives(c) ==
    /\ \E n \in Joined(up[c]) :
          LET st == Served(SubSeq(up[c], 1, n))
          IN  /\ fid_table' = st.fids /\ data' = st.data /\ dirty' = st.dirty
              /\ down' = [down EXCEPT ![c] = @ \o st.out]
              /\ open' = [open EXCEPT ![c] = st.end # "exit"]
              /\ up' = [up EXCEPT ![c] = IF st.end = "exit" THEN <<>>
                                         ELSE SubSeq(@, n + 1, Len(@))]
    /\ UNCHANGED <<env, client, task, plan, nid>>

(***************************************************************************)
(* The specification.                                                      *)
(***************************************************************************)

Fids == 0..Cardinality(Paths)

Init ==
    /\ env \in Envs
    /\ held = [c \in Clients |-> {}] /\ ban = [c \in Clients |-> <<>>]
    /\ cells = [c \in Clients |-> 1]
    /\ nfid = [c \in Clients |-> 1]
    /\ wnames = [c \in Clients |-> [p \in Paths |-> 0]]
    /\ queues = [c \in Clients |-> [n \in Tags \cup {NoTag} |-> <<>>]]
    /\ up = [c \in Clients |-> <<>>] /\ down = [c \in Clients |-> <<>>]
    /\ open = [c \in Clients |-> TRUE]
    /\ fid_table = [f \in Fids |-> Missing]
    /\ data = [p \in Files |-> <<"empty">>] /\ dirty = [p \in Files |-> FALSE]
    /\ task = [t \in Tasks |-> Idle] /\ plan \in Plans /\ nid = 1

Task(t) == Answered(t) \/ Followed(t)
Network(c) == ClientReceives(c) \/ ServerReceives(c)

Next == \/ \E t \in Tasks : Begin(t) \/ Task(t) \/ Cancel(t)
        \/ \E c \in Clients : Network(c) \/ ConnectionLost(c)

Spec == /\ Init /\ [][Next]_vars
        /\ \A t \in Tasks : WF_vars(Task(t))
        /\ \A c \in Clients : WF_vars(ClientReceives(c)) /\ WF_vars(ServerReceives(c))

(***************************************************************************)
(* Properties.                                                             *)
(***************************************************************************)

\* get() gives a request the answer to it, also when answers to requests that
\* were given up arrive late, and when the stream joins messages.
OwnAnswer ==
    [][\A t \in Tasks : Task(t) =>
          /\ Head(Chunk(t)).id = task[t].id
          /\ "join" \notin env => Outcome(Chunk(t))[2] = task[t].id]_vars

Good(op) == op[1] = "call" /\ op[2] \in Files /\ op[3] \notin {BadArg, ExitArg}

\* call() of a function file returns what the function at that path returns
\* for these arguments, whether the path was walked to by this coroutine or by
\* one that has not got its answer yet, or has given up.
CallServed ==
    \A t \in Tasks : Good(task[t].op) /\ task[t].pc = "idle" /\ "join" \notin env =>
        /\ task[t].res[1] # "error"
        /\ task[t].res[1] = "ok" => task[t].res[3] = func(task[t].op[2], task[t].op[3])

\* The tag of a request that waits is allocated and no other request of the
\* client has it.  alloc() does not fail before 0xFFFF, which version() released
\* without having allocated it, has outlived Ban collections: one for every
\* request, and one for every cell that the bitmap has grown by.
TagsLast ==
    \A t \in Tasks :
        /\ task[t].res[1] = "exhausted" => nid + cells[ClientOf[t]] > Ban + 2
        /\ task[t].pc = "wait" /\ task[t].tag # NoTag =>
              /\ task[t].tag \in held[ClientOf[t]]
              /\ \A u \in Tasks \ {t} :
                    task[u].pc = "wait" /\ ClientOf[u] = ClientOf[t] =>
                        task[u].tag # task[t].tag

\* A request ends, unless the connection is lost.
RequestsEnd ==
    \A t \in Tasks : (task[t].pc = "wait" /\ "join" \notin env) ~>
                        (task[t].pc = "idle" \/ ~open[ClientOf[t]])
=============================================================================
