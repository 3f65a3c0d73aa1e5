--------------------------- MODULE NDBTransaction ---------------------------
(***************************************************************************)
(* Transaction.commit() of pyroute2/ndb/transaction.py over the objects of *)
(* NDBObject: one thread changes objects, commits or rolls back one of     *)
(* them, or commits several in a transaction.                              *)
(***************************************************************************)
EXTENDS NDBObject

CONSTANTS Starts,    \* the systems a run begins with
          Plans(_)   \* what the thread does there: sequences of the calls below

ASSUME TransactionAssumption ==
    \A s \in Starts : /\ s \in [Keys -> {Absent} \cup Values]
                      /\ \A a \in Addrs : s[a] # Absent => s[Owner[a]] # Absent

VARIABLES
    plan,       \* what is left of it
    user,       \* the call under way: kind, the queue, position; how the call
                \*   before it ended; is an object clean that was once saved; was
                \*   the database behind the kernel when it began
    result,     \* how the last call ended
    goal,       \* history: what the kernel should be after the call
    loose       \* history: what the objects are about that failed half-way

txvars == <<vars, plan, user, result, goal, loose>>

Idle == [kind |-> "idle", queue |-> <<>>, i |-> 0, prev |-> "none", stale |-> FALSE,
         behind |-> FALSE]

\* the next call of the plan
Planned(c) == user = Idle /\ plan # <<>> /\ Head(plan) = c /\ plan' = Tail(plan)

Prepared(l, x) ==
    /\ Set(Own(l), x)
    /\ UNCHANGED <<env, kernel, db, evq, stack, ret, refusals, others, before,
                   user, result, goal, loose>>

(***************************************************************************)
(* The thread prepares objects: __setitem__(), add_ip(), del_ip(), remove().*)
(***************************************************************************)

SetField(l, v) ==
    /\ Planned(<<"set", l, v>>)
    /\ Prepared(l, IF obj[Own(l)].val = v THEN obj[Own(l)]
                   ELSE [obj[Own(l)] EXCEPT !.val = v, !.changed = TRUE])

Script(l, op) ==
    /\ Planned(<<"script", l, op>>)
    /\ Prepared(l, [obj[Own(l)] EXCEPT !.script = Append(@, op)])

RemoveObject(l) ==
    /\ Planned(<<"remove", l>>)
    /\ Prepared(l, set(obj[Own(l)], "remove"))

(***************************************************************************)
(* Calls.                                                                  *)
(***************************************************************************)

\* what a successful commit() of an interface makes of the system
Wanted(s, l) ==
    LET x == obj[Own(l)]
        t == IF x.changed \/ state(x) = "invalid" THEN Put(s, l, x.val) ELSE s
    IN  IF state(x) = "remove" THEN Put(s, l, Absent)
        ELSE FoldLeft(LAMBDA r, op : Put(r, op[2], IF op[1] = "del" THEN Absent ELSE 1),
                      t, x.script)

Start(kind, q, fn) ==
    /\ Planned(<<kind, q>>)
    /\ user' = [kind |-> kind, queue |-> q, i |-> 1, prev |-> result,
                stale |-> \E i \in DOMAIN q : clean(obj[Own(q[i])]) /\
                                             obj[Own(q[i])].save # "none",
                behind |-> evq # <<>>]
    /\ before' = IF kind = "rollback" THEN before ELSE kernel
    /\ goal' = FoldLeft(Wanted, kernel, q) /\ result' = "none" /\ loose' = {}
    /\ stack' = <<Frame(fn, Own(q[1]), FALSE)>> /\ ret' = "none"
    /\ UNCHANGED <<env, kernel, db, evq, obj, refusals, others>>

CommitObject(l) == Start("commit", <<l>>, "commit")
RollbackObject(l) == Start("rollback", <<l>>, "rollback")
BeginTransaction(q) == Start("tx", q, "commit")

Returned == stack = <<>> /\ ret # "none"
End(r) == user' = Idle /\ result' = r /\ stack' = <<>> /\ ret' = "none"
Continue(u, fn) ==
    /\ user' = u /\ UNCHANGED result
    /\ stack' = <<Frame(fn, Own(u.queue[u.i]), FALSE)>> /\ ret' = "none"

CallEnds ==
    /\ Returned /\ user.kind \in {"commit", "rollback"} /\ End(ret)
    /\ UNCHANGED <<env, kernel, db, evq, obj, plan, refusals, others, before, goal, loose>>

\* the next object; when one fails, all that were begun are rolled back
TransactionNext ==
    /\ Returned /\ user.kind = "tx"
    /\ IF ret = "error"
       THEN Continue([user EXCEPT !.kind = "undo"], "rollback")
       ELSE IF user.i < Len(user.queue)
       THEN Continue([user EXCEPT !.i = @ + 1], "commit")
       ELSE End("ok")
    /\ UNCHANGED <<env, kernel, db, evq, obj, plan, refusals, others, before, goal, loose>>

\* mutant: the first exception of a rollback() ends it
UndoStops ==
    /\ Returned /\ user.kind = "undo"
    /\ IF user.i > 1 /\ ret = "ok" THEN Continue([user EXCEPT !.i = @ - 1], "rollback")
                                   ELSE End("error")
    /\ UNCHANGED <<env, kernel, db, evq, obj, plan, refusals, others, before, goal, loose>>

\* in the reverse order, whatever rollback() raises
TransactionUndo ==
    /\ Returned /\ user.kind = "undo"
    /\ IF user.i > 1 THEN Continue([user EXCEPT !.i = @ - 1], "rollback")
                     ELSE End("error")
    /\ UNCHANGED <<env, kernel, db, evq, obj, plan, refusals, others, before, goal, loose>>

(***************************************************************************)
(* The specification.                                                      *)
(***************************************************************************)

Init ==
    /\ env \in Envs
    /\ kernel \in Starts /\ db = kernel /\ evq = <<>>
    /\ obj = [o \in Objects |->
                IF o[2] # "own" \/ o[1] \in Addrs THEN Nothing
                ELSE IF kernel[o[1]] = Absent THEN NewObject(1, FALSE)
                ELSE load_sql([Nothing EXCEPT !.live = TRUE], kernel, o[1])]
    /\ stack = <<>> /\ ret = "none" /\ refusals = 0 /\ others = 0
    /\ before = kernel /\ plan \in Plans(kernel) /\ user = Idle /\ result = "none"
    /\ goal = kernel /\ loose = {}

Ops == {"add", "ensure", "del"} \X Addrs
Prepare == \E l \in Links : \/ \E v \in Values : SetField(l, v)
                            \/ \E op \in Ops : Script(l, op)
                            \/ RemoveObject(l)
Queues == {q \in SeqOf(Links, Cardinality(Links)) :
             Len(q) > 1 /\ \A i, j \in DOMAIN q : q[i] = q[j] => i = j}
Calls == \/ \E l \in Links : CommitObject(l) \/ RollbackObject(l)
         \/ \E q \in Queues : BeginTransaction(q)
Thread == CallEnds \/ TransactionNext \/ TransactionUndo

\* history: an apply() raises, not in a rollback(), after the kernel had created
\* or deleted something for it, or when it was to remove an interface
GivesUp ==
    /\ stack # <<>> /\ Top.fn = "apply" /\ stack' = Front(stack) /\ ret' = "error"
    /\ \A i \in DOMAIN stack : stack[i].fn # "rollback"
    /\ \/ Top.ok /\ Top.m # "set"
       \/ Top.m = "del" /\ Top.o[1] \in Links

Loop == /\ Commit \/ Apply \/ Rollback \/ Kernel \/ LoadEvent
        /\ loose' = IF GivesUp THEN loose \cup {Top.o[1]} \cup Dependent(Top.o[1])
                    ELSE loose
        /\ UNCHANGED <<plan, user, result, goal>>

Next == \/ Loop \/ Thread \/ Prepare \/ Calls
        \/ Others /\ UNCHANGED <<plan, user, result, goal, loose>>

Spec == Init /\ [][Next]_txvars /\ WF_txvars(Loop) /\ WF_txvars(Thread)

(***************************************************************************)
(* Properties.                                                             *)
(***************************************************************************)

Ends(kinds, r) == user.kind \in kinds /\ user' = Idle /\ result' = r
Restored == \A k \in Keys \ loose : kernel[k] = before[k]

\* nobody else changes the system, every event is loaded in time, no rollback is
\* refused; the call began with a database that shows the system
Alone == env \cap {"other", "stalled", "hostile"} = {}
Informed == Alone /\ ~user.behind

\* What commit() reports as done is done, and the database shows it.
CommitConfirmed ==
    [][Informed /\ Ends({"commit", "tx"}, "ok") => kernel = goal /\ db = goal]_txvars

\* A commit() that fails leaves the system as it was, but for what apply() had
\* created or deleted when it raised (of a new object commit() says "The routine
\* doesn't clean up the system") and for an interface that it was to remove.
FailedCommitRestores ==
    [][Informed /\ Ends({"commit"}, "error") => Restored]_txvars

\* A transaction that fails leaves the system as it was, with the same exceptions.
FailedTransactionRestores ==
    [][Informed /\ Ends({"undo"}, "error") /\ ~user.stale => Restored]_txvars

\* rollback() after a commit() that succeeded restores what was before it.
RollbackRestores ==
    [][/\ Alone /\ user.kind = "rollback" /\ user.prev = "ok" /\ user' = Idle
       => result' = "ok" /\ kernel = before]_txvars

\* A call returns.
Returns == user # Idle ~> user = Idle
=============================================================================
