------------------------------- MODULE NetNS -------------------------------
(***************************************************************************)
(* pyroute2/netns: named network namespaces.  create() and create_socket() *)
(* run their functions in a ChildProcess; setns(), pushns(), popns(),      *)
(* dropns() and remove() in the calling thread.  A name is a file under    *)
(* /var/run/netns on which a namespace is mounted; between the two system  *)
(* calls it is a plain file, and other processes see it.                   *)
(***************************************************************************)
EXTENDS ChildProcess, FiniteSets

CONSTANTS Names,
          MaxTries,    \* bound: children of one create_socket()
          Plans        \* what the threads do: sequences of calls

VARIABLES
    file,       \* of a name: Nothing, Plain, or the namespace mounted on it
    nns,        \* number of namespaces created
    cur,        \* the namespace of a thread
    saved,      \* __saved_ns, for all threads of the process
    user,       \* the call of a thread: operation, step, result
    plan        \* what is left of its calls

nsvars == <<file, nns, cur, saved, user, plan>>
vars == <<env, pvars, nsvars>>

Main == 0                   \* the namespace that processes begin in
Nothing == <<"none">>
Plain == <<"plain">>
Mounted(ns) == <<"ns", ns>>
NoName == <<"none">>

Calls == ({"create", "socket", "remove"} \X Names)
         \cup ({"setns", "push"} \X (Names \cup {NoName}))
         \cup {<<"pop">>, <<"drop">>}

ASSUME PlanAssumption ==
    NoName \notin Names /\ \A p \in Plans : p \in [Threads -> Seq(Calls)]

Idle == [op |-> <<"none">>, at |-> "idle", res |-> <<"none">>, tries |-> 0]
Op(t) == user[t].op
UserAt(t, at) == user[t].at = at

Goto(t, at) == user' = [user EXCEPT ![t].at = at]
Finish(t, res) == user' = [user EXCEPT ![t].at = "idle", ![t].res = res]
Raise(t) == Finish(t, <<"error">>)

(***************************************************************************)
(* The functions of children: _create() and _create_socket_child().        *)
(***************************************************************************)

Func(t) == child[t].func
Name(t) == Func(t)[2]
ChildGoto(t, at) == child' = [child EXCEPT ![t].at = at]
ChildReturns(t, val) == child' = [child EXCEPT ![t].at = "send", ![t].val = val]
ChildRaises(t) == ChildReturns(t, <<"exception">>)

\* system calls may fail
SyscallFails(t) ==
    /\ "fail" \in env /\ child[t].st = "alive"
    /\ child[t].at \in {"open", "unshare", "bind", "setns"}
    /\ ChildRaises(t) /\ UNCHANGED <<parent, chan, env, nsvars>>

\* mutant: without O_EXCL
OpenShared(t) ==
    /\ ChildAt(t, "open")
    /\ file' = [file EXCEPT ![Name(t)] = IF @ = Nothing THEN Plain ELSE @]
    /\ ChildGoto(t, "unshare")
    /\ UNCHANGED <<env, parent, chan, nns, cur, saved, user, plan>>

\* _create(): the mount point, O_CREAT | O_EXCL
OpenExcl(t) ==
    /\ ChildAt(t, "open")
    /\ IF file[Name(t)] # Nothing
       THEN ChildRaises(t) /\ UNCHANGED file
       ELSE /\ file' = [file EXCEPT ![Name(t)] = Plain]
            /\ ChildGoto(t, "unshare")
    /\ UNCHANGED <<env, parent, chan, nns, cur, saved, user, plan>>

\* mutant: an error is ignored, and the namespace of the caller is mounted
UnshareIgnored(t) ==
    /\ ChildAt(t, "unshare")
    /\ child' = [child EXCEPT ![t].at = "bind", ![t].val = <<"ns", Main>>]
    /\ UNCHANGED <<env, parent, chan, nsvars>>

Unshare(t) ==
    /\ ChildAt(t, "unshare")
    /\ child' = [child EXCEPT ![t].at = "bind", ![t].val = <<"ns", nns + 1>>]
    /\ nns' = nns + 1
    /\ UNCHANGED <<env, parent, chan, file, cur, saved, user, plan>>

\* the namespace is mounted on the file, if it is still there
Bind(t) ==
    /\ ChildAt(t, "bind")
    /\ IF file[Name(t)] = Nothing
       THEN ChildRaises(t) /\ UNCHANGED file
       ELSE /\ file' = [file EXCEPT ![Name(t)] = child[t].val]
            /\ IF Func(t)[1] = "create" THEN ChildReturns(t, child[t].val)
               ELSE ChildGoto(t, "setns")
    /\ UNCHANGED <<env, parent, chan, nns, cur, saved, user, plan>>

\* getnsfd(): a name that is not listed is created by the child itself
List(t) ==
    /\ ChildAt(t, "list")
    /\ ChildGoto(t, IF file[Name(t)] = Nothing THEN "open" ELSE "setns")
    /\ UNCHANGED <<env, parent, chan, nsvars>>

\* open() and setns(): a plain file is not a namespace
ChildSetns(t) ==
    /\ ChildAt(t, "setns")
    /\ IF file[Name(t)] \in {Nothing, Plain} THEN ChildRaises(t)
       ELSE ChildReturns(t, file[Name(t)])
    /\ UNCHANGED <<env, parent, chan, nsvars>>

Wrapper(t) == \/ ChildStart(t, IF Func(t)[1] = "create" THEN "open" ELSE "list")
              \/ ChildSend(t) \/ ChildExit(t)

Child(t) == \/ Wrapper(t) /\ UNCHANGED <<env, nsvars>>
            \/ OpenExcl(t) \/ Unshare(t) \/ Bind(t) \/ List(t) \/ ChildSetns(t)

(***************************************************************************)
(* create(), create_socket()                                               *)
(***************************************************************************)

Begin(t, kinds) ==
    /\ user[t].at = "idle" /\ plan[t] # <<>> /\ Head(plan[t])[1] \in kinds
    /\ plan' = [plan EXCEPT ![t] = Tail(@)]

Start(t, op, at) == user' = [user EXCEPT ![t] = [Idle EXCEPT !.op = op, !.at = at]]

Create(t) ==
    /\ Begin(t, {"create", "socket"})
    /\ Run(t, Head(plan[t])) /\ Start(t, Head(plan[t]), "child")
    /\ UNCHANGED <<env, file, nns, cur, saved>>

Answer(t) == parent[t].res

\* create(): the child is killed when it has answered, and left to itself when
\* it raised; setns() goes on when the name is there
CreateReturns(t) ==
    /\ UserAt(t, "child") /\ Op(t)[1] # "socket" /\ parent[t].pc = "communicated"
    /\ IF Answer(t)[1] = "ns"
       THEN Stop(t, "KILL", Answer(t)) /\ UNCHANGED user
       ELSE Raise(t) /\ parent' = [parent EXCEPT ![t].pc = "idle"]
                     /\ UNCHANGED <<child, chan>>
    /\ UNCHANGED <<env, file, nns, cur, saved, plan>>

\* create_socket(): the `with` block ends, close() is called in any case
SocketReturns(t) ==
    /\ UserAt(t, "child") /\ Op(t)[1] = "socket" /\ parent[t].pc = "communicated"
    /\ Stop(t, "TERM", Answer(t))
    /\ UNCHANGED <<env, nsvars>>

\* the child is gone.  After a timeout create_socket() tries again until its own
\* time is over
ChildStopped(t) ==
    /\ UserAt(t, "child") /\ parent[t].pc = "stopped"
    /\ \/ /\ Answer(t)[1] = "ns" /\ UNCHANGED <<child, chan>>
          /\ parent' = [parent EXCEPT ![t].pc = "idle"]
          /\ IF Op(t)[1] \in {"create", "socket"} THEN Finish(t, Answer(t))
             ELSE Goto(t, "setns")
       \/ /\ Answer(t)[1] # "ns" /\ Raise(t) /\ UNCHANGED <<child, chan>>
          /\ parent' = [parent EXCEPT ![t].pc = "idle"]
       \/ /\ Answer(t)[1] = "TimeoutError" /\ Op(t)[1] = "socket"
          /\ user[t].tries < MaxTries
          /\ user' = [user EXCEPT ![t].tries = @ + 1]
          /\ Run(t, Op(t))
    /\ UNCHANGED <<env, file, nns, cur, saved, plan>>

(***************************************************************************)
(* Calls of the thread itself.                                             *)
(***************************************************************************)

\* remove(): what umount2() returns is ignored
RemoveUmount(t) ==
    /\ "remove" \in env
    /\ Begin(t, {"remove"}) /\ Start(t, Head(plan[t]), "unlink")
    /\ LET n == Head(plan[t])[2] IN
       file' = [file EXCEPT ![n] = IF @ = Nothing THEN @ ELSE Plain]
    /\ UNCHANGED <<env, pvars, nns, cur, saved>>

\* mutant: the file stays
UnlinkSkipped(t) ==
    /\ UserAt(t, "unlink") /\ Finish(t, <<"ok">>)
    /\ UNCHANGED <<env, pvars, file, nns, cur, saved, plan>>

\* unlink(): ENOENT; EBUSY if somebody has mounted on it again
RemoveUnlink(t) ==
    /\ UserAt(t, "unlink")
    /\ IF file[Op(t)[2]] = Plain
       THEN file' = [file EXCEPT ![Op(t)[2]] = Nothing] /\ Finish(t, <<"ok">>)
       ELSE Raise(t) /\ UNCHANGED file
    /\ UNCHANGED <<env, pvars, nns, cur, saved, plan>>

\* setns(), and pushns(), which saves the namespace first
SetnsBegin(t) ==
    /\ Begin(t, {"setns", "push"})
    /\ LET op == Head(plan[t]) IN
       /\ saved' = IF op[1] = "push" THEN Append(saved, cur[t]) ELSE saved
       /\ \/ op[2] = NoName /\ UNCHANGED pvars
             /\ user' = [user EXCEPT ![t] = [Idle EXCEPT !.op = op, !.res = <<"ok">>]]
          \/ op[2] # NoName /\ Start(t, op, "list") /\ UNCHANGED pvars
    /\ UNCHANGED <<env, file, nns, cur>>

\* getnsfd(): O_CREAT is the default
SetnsList(t) ==
    /\ UserAt(t, "list")
    /\ IF file[Op(t)[2]] = Nothing
       THEN Run(t, <<"create", Op(t)[2]>>) /\ Goto(t, "child")
       ELSE Goto(t, "setns") /\ UNCHANGED pvars
    /\ UNCHANGED <<env, file, nns, cur, saved, plan>>

SetnsEnter(t) ==
    /\ UserAt(t, "setns")
    /\ \/ /\ file[Op(t)[2]] \in {Nothing, Plain} \/ "fail" \in env
          /\ Raise(t) /\ UNCHANGED cur
       \/ /\ file[Op(t)[2]] \notin {Nothing, Plain}
          /\ cur' = [cur EXCEPT ![t] = file[Op(t)[2]][2]]
          /\ Finish(t, file[Op(t)[2]])
    /\ UNCHANGED <<env, pvars, file, nns, saved, plan>>

\* popns(): back to the last saved one, which is put back if setns() fails.
\* dropns() forgets it.  Both raise if there is none
Pop(t) ==
    /\ Begin(t, {"pop", "drop"})
    /\ LET op == Head(plan[t]) IN
       \/ /\ saved = <<>> \/ (op[1] = "pop" /\ "fail" \in env)
          /\ user' = [user EXCEPT ![t] = [Idle EXCEPT !.op = op, !.res = <<"error">>]]
          /\ UNCHANGED <<cur, saved>>
       \/ /\ saved # <<>>
          /\ user' = [user EXCEPT ![t] = [Idle EXCEPT !.op = op, !.res = <<"ok">>]]
          /\ saved' = SubSeq(saved, 1, Len(saved) - 1)
          /\ cur' = IF op[1] = "drop" THEN cur
                    ELSE [cur EXCEPT ![t] = saved[Len(saved)]]
    /\ UNCHANGED <<env, pvars, file, nns>>

(***************************************************************************)
(* The specification.                                                      *)
(***************************************************************************)

Init ==
    /\ env \in Envs
    /\ parent = [t \in Threads |-> NoParent] /\ child = [t \in Threads |-> NoChild]
    /\ chan = [t \in Threads |-> <<>>]
    /\ file = [n \in Names |-> Nothing] /\ nns = 0
    /\ cur = [t \in Threads |-> Main] /\ saved = <<>>
    /\ user = [t \in Threads |-> Idle] /\ plan \in Plans

Caller(t) == \/ CreateReturns(t) \/ SocketReturns(t) \/ ChildStopped(t)
             \/ RemoveUnlink(t) \/ SetnsList(t) \/ SetnsEnter(t)
             \/ Parent(t) /\ UNCHANGED <<env, nsvars>>

Next == \E t \in Threads :
            \/ Create(t) \/ RemoveUmount(t) \/ SetnsBegin(t) \/ Pop(t) \/ Caller(t)
            \/ Child(t) \/ SyscallFails(t)
            \/ ChildDies(t) /\ UNCHANGED <<env, nsvars>>

Spec == /\ Init /\ [][Next]_vars
        /\ \A t \in Threads : WF_vars(Caller(t)) /\ WF_vars(Child(t))

(***************************************************************************)
(* Properties.                                                             *)
(***************************************************************************)

Spaces == {Nothing, Plain} \cup {Mounted(ns) : ns \in 1..nns}

\* Types; a thread in a call that needs a child has one.
TypeOK ==
    /\ file \in [Names -> Spaces] /\ cur \in [Threads -> 0..nns]
    /\ \A t \in Threads : child[t].st \in {"none", "alive", "zombie", "gone"}
    /\ \A t \in Threads : UserAt(t, "child") => parent[t].pc # "idle"
    /\ \A i \in DOMAIN saved : saved[i] \in 0..nns

\* stop() waits for the child, and communicate() for one that died: a call that
\* has ended leaves no process behind, except create() that raised what its
\* child raised, and did not stop() it.
ChildrenReaped ==
    \A t \in Threads : UserAt(t, "idle") =>
        \/ ~parent[t].running /\ child[t].st \in {"none", "gone"}
        \/ child[t].st = "gone" /\ parent[t].res = <<"RuntimeError">>
        \/ Op(t)[1] # "socket" /\ parent[t].res = <<"exception">>

\* communicate() returns what the child of this run() sent: not what an earlier
\* one sent after its time was over.
AnswerOfThisChild ==
    [][\A t \in Threads : Receive(t) => Head(chan[t]).life = parent[t].life]_vars

Reliable == env \cap {"fail", "die", "timeout", "stuck"} = {}

\* A name without a namespace is seen only while a call is between its two
\* system calls: creation and removal do not leave such a name to each other.
NamesAreWhole ==
    Reliable => \A n \in Names : file[n] = Plain =>
        \E t \in Threads : /\ ~UserAt(t, "idle") /\ Op(t)[2] = n
                           /\ UserAt(t, "unlink") \/ ChildAt(t, "unshare") \/ ChildAt(t, "bind")

\* Unless the name is removed, all calls that succeed for it, in whichever
\* thread and after whatever failures of others, give one namespace: the one
\* that is mounted there.
OneNamespace ==
    \A t \in Threads :
        UserAt(t, "idle") /\ user[t].res[1] = "ns" /\ "remove" \notin env =>
            file[Op(t)[2]] = user[t].res

\* A call returns, also when its child is stuck or dies, and when the parent's
\* handler catches the SIGTERM of stop().
CallsReturn == \A t \in Threads : ~UserAt(t, "idle") ~> UserAt(t, "idle")
=============================================================================
