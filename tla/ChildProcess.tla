---------------------------- MODULE ChildProcess ----------------------------
(***************************************************************************)
(* ChildProcess and wrapper() of pyroute2/process.py in the "fork" mode:   *)
(* a thread starts a child, waits for its answer for some time, and stops  *)
(* it.  Each thread has one object at a time.  What the child's function   *)
(* does is left to the module that extends this one.                       *)
(***************************************************************************)
EXTENDS Naturals, Sequences

CONSTANTS Threads,
          Envs        \* the sets of features a run explores

VARIABLES
    env,        \* features of the environment
    parent,     \* the object: step of the call, _running, _exitcode, result
    child,      \* the process: its state, step, status, SIGTERM, the answer
    chan        \* what was sent to ctrl_r, with the number of the child

pvars == <<parent, child, chan>>

NoParent == [pc |-> "idle", running |-> FALSE, exitcode |-> "none", res |-> <<"none">>,
             life |-> 0]
NoChild == [st |-> "none", at |-> "none", status |-> "none", dfl |-> TRUE,
            func |-> <<"none">>, val |-> <<"none">>, life |-> 0]

(***************************************************************************)
(* The object.                                                             *)
(***************************************************************************)

\* mutant: the sockets of the last child are used again
RunKeepsSockets(t, f) ==
    /\ parent' = [parent EXCEPT ![t] = [NoParent EXCEPT !.pc = "poll", !.running = TRUE,
                                                        !.life = parent[t].life + 1]]
    /\ child' = [child EXCEPT ![t] = [NoChild EXCEPT !.st = "alive", !.at = "start",
                                                     !.dfl = "handler" \notin env,
                                                     !.func = f,
                                                     !.life = parent[t].life + 1]]
    /\ UNCHANGED chan

\* run(): new sockets, then fork(); the child has the signal handlers of the
\* parent
Run(t, f) ==
    /\ parent' = [parent EXCEPT ![t] = [NoParent EXCEPT !.pc = "poll", !.running = TRUE,
                                                        !.life = parent[t].life + 1]]
    /\ child' = [child EXCEPT ![t] = [NoChild EXCEPT !.st = "alive", !.at = "start",
                                                     !.dfl = "handler" \notin env,
                                                     !.func = f,
                                                     !.life = parent[t].life + 1]]
    /\ chan' = [chan EXCEPT ![t] = <<>>]

\* communicate(): an answer came in time
Receive(t) ==
    /\ parent[t].pc = "poll" /\ chan[t] # <<>>
    /\ chan' = [chan EXCEPT ![t] = Tail(@)]
    /\ parent' = [parent EXCEPT ![t].pc = "communicated", ![t].res = Head(chan[t]).val]
    /\ UNCHANGED child

\* ... or not: poll() ends, and then the child is looked at
PollExpires(t) ==
    /\ "timeout" \in env \/ child[t].st # "alive"
    /\ parent[t].pc = "poll" /\ chan[t] = <<>>
    /\ parent' = [parent EXCEPT ![t].pc = "waitpid"]
    /\ UNCHANGED <<child, chan>>

ChildIsDead(t) ==
    /\ parent[t].pc = "waitpid" /\ child[t].st = "zombie"
    /\ parent' = [parent EXCEPT ![t].pc = "communicated", ![t].res = <<"RuntimeError">>,
                                ![t].exitcode = child[t].status]
    /\ child' = [child EXCEPT ![t].st = "gone"] /\ UNCHANGED chan

\* a signal: SIGKILL ends the child; SIGTERM unless a handler catches it
Signal(t, sig) ==
    IF child[t].st = "alive" /\ (sig = "KILL" \/ child[t].dfl)
    THEN [child EXCEPT ![t].st = "zombie", ![t].status = sig]
    ELSE child

\* mutant: the child is not waited for
StopNoWait(t, sig, res) ==
    /\ parent[t].running
    /\ child' = Signal(t, sig) /\ UNCHANGED chan
    /\ parent' = [parent EXCEPT ![t].running = FALSE, ![t].res = res, ![t].pc = "stopped"]

\* stop(): the sockets are closed, the child is signalled and waited for, unless
\* communicate() has done so
Stop(t, sig, res) ==
    /\ parent[t].running
    /\ child' = Signal(t, sig) /\ UNCHANGED chan
    /\ parent' = [parent EXCEPT ![t].running = FALSE, ![t].res = res,
                     ![t].pc = IF child[t].st = "gone" THEN "stopped" ELSE "reap"]

\* mutant: SIGTERM instead of SIGKILL
StuckTerminated(t) ==
    /\ parent[t].pc = "waitpid" /\ child[t].st = "alive"
    /\ Stop(t, "TERM", <<"TimeoutError">>)

ChildIsStuck(t) ==
    /\ parent[t].pc = "waitpid" /\ child[t].st = "alive"
    /\ Stop(t, "KILL", <<"TimeoutError">>)

\* waitpid() of stop()
Reap(t) ==
    /\ parent[t].pc = "reap" /\ child[t].st = "zombie"
    /\ parent' = [parent EXCEPT ![t].pc = "stopped", ![t].exitcode = child[t].status]
    /\ child' = [child EXCEPT ![t].st = "gone"] /\ UNCHANGED chan

(***************************************************************************)
(* The child: wrapper().                                                   *)
(***************************************************************************)

ChildAt(t, at) == child[t].st = "alive" /\ child[t].at = at

\* disable_mp_signal: SIGTERM gets its default action again.  The function may
\* never end
ChildStart(t, first) ==
    /\ ChildAt(t, "start")
    /\ \E at \in {first} \cup {"stuck" : x \in {"stuck"} \cap env} :
          child' = [child EXCEPT ![t].at = at, ![t].dfl = @ \/ "disable_mp_signal" \in env]
    /\ UNCHANGED <<parent, chan>>

\* the function returned or raised: the answer is sent, unless nobody has the
\* other end any more
ChildSend(t) ==
    /\ ChildAt(t, "send")
    /\ child' = [child EXCEPT ![t].at = "exit"]
    /\ chan' = IF parent[t].running THEN [chan EXCEPT ![t] = Append(@, [val |-> child[t].val,
                                                             life |-> child[t].life])]
               ELSE chan
    /\ UNCHANGED parent

ChildExit(t) ==
    /\ ChildAt(t, "exit")
    /\ child' = [child EXCEPT ![t].st = "zombie", ![t].status = "0"]
    /\ UNCHANGED <<parent, chan>>

\* somebody else kills the child
ChildDies(t) ==
    /\ "die" \in env /\ child[t].st = "alive"
    /\ child' = [child EXCEPT ![t].st = "zombie", ![t].status = "KILL"]
    /\ UNCHANGED <<parent, chan>>

Parent(t) == Receive(t) \/ PollExpires(t) \/ ChildIsDead(t) \/ ChildIsStuck(t) \/ Reap(t)
=============================================================================
