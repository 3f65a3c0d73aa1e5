----------------------------- MODULE NDBObject -----------------------------
(***************************************************************************)
(* NDB objects: AsyncObject.commit(), apply(), rollback() and check() of   *)
(* pyroute2/ndb/objects, for interfaces with one field and the addresses   *)
(* that their apply script adds and removes.                               *)
(*                                                                         *)
(* The calls of one thread are coroutines that call each other: `stack`    *)
(* holds their frames, `ret` what the last one returned or raised.  Only   *)
(* where a frame awaits the kernel or load_event may TaskManager.receiver()*)
(* run; it loads one event into the database and into the objects that     *)
(* match it.  The source between kernel and queue is NDBSource; here it is *)
(* a sequence of events.                                                   *)
(***************************************************************************)
EXTENDS Naturals, Sequences, FiniteSets, SequencesExt

CONSTANTS Links, Addrs,
          Owner,               \* the interface of an address
          MaxVal,              \* values of the field are 1..MaxVal
          Tries,               \* API calls of one apply(): 10
          MaxRefusals, MaxOthers,
          Envs                 \* the sets of features a run explores

Keys == Links \cup Addrs
Absent == 0
Values == 1..MaxVal
Same == MaxVal + 1             \* a request without the field

ASSUME ObjectAssumption ==
    /\ Links \cap Addrs = {} /\ Owner \in [Addrs -> Links]
    /\ MaxVal \in Nat \ {0} /\ Tries \in Nat \ {0}

VARIABLES
    env,        \* features of the environment
    kernel, db, \* value of each link and address, Absent if there is none
    evq,        \* events between kernel and database
    obj,        \* the objects, by key and role
    stack, ret, \* frames of the coroutines; what the last one returned
    refusals, others,    \* requests refused, changes by others
    before      \* history: the kernel when the user's call began

vars == <<env, kernel, db, evq, obj, stack, ret, refusals, others, before>>

(***************************************************************************)
(* Objects.  "own": what the user or a script works on; "snap": its        *)
(* last_save; "diff": an object that rollback() creates from the tables of *)
(* a snapshot.                                                             *)
(***************************************************************************)

Objects == Keys \X {"own", "snap", "diff"}
Own(k) == <<k, "own">>
Snap(o) == <<o[1], "snap">>

\* events[-2:] of State, the field, `changed`, last_save, the script, what it
\* did, the tables of a snapshot, load_event, is the key complete (the index of
\* a new interface is not known), does load_rtnlmsg() react
NewObject(v, known) ==
    [ev |-> <<"none", "invalid">>, val |-> v, changed |-> TRUE, save |-> "none",
     script |-> <<>>, snaps |-> <<>>, chain |-> <<>>, tables |-> <<>>,
     loaded |-> TRUE, known |-> known, live |-> TRUE]

Nothing == [NewObject(Absent, TRUE) EXCEPT !.live = FALSE, !.changed = FALSE]

state(x) == x.ev[2]

\* State.set()
set(x, s) == [x EXCEPT !.ev = IF @[2] = s THEN @ ELSE <<@[2], s>>]

\* load_sql(), with load_value(): a snapshot reads its own tables
load_sql(x, d, k) ==
    LET row == IF x.tables = <<>> THEN d[k] ELSE x.tables[k] IN
    IF row = Absent
    THEN IF state(x) = "invalid" THEN x
         ELSE [set(x, "invalid") EXCEPT !.changed = FALSE]
    ELSE IF state(x) = "remove" THEN x
         ELSE [set(x, "system") EXCEPT
                 !.val = IF x.changed THEN @ ELSE row,
                 !.changed = x.changed /\ x.val # row,
                 !.known = TRUE]

clean(x) == state(x) = "system" /\ ~x.changed /\ x.script = <<>>

state_map == {<<"invalid", "system">>, <<"remove", "invalid">>}

check(x) == x.ev \in state_map /\ ~x.changed

\* load_rtnlmsg(): a key field that is not known matches every event
Matches(o, x, k) ==
    /\ x.live
    /\ o[1] = k \/ (~x.known /\ o[1] \in Links /\ k \in Links)

load_rtnlmsg(x, o, k, v, d) ==
    [(IF v = Absent THEN [set(x, "invalid") EXCEPT !.changed = FALSE]
      ELSE load_sql(x, d, o[1])) EXCEPT !.loaded = TRUE]

(***************************************************************************)
(* The kernel (external) and the event queue.                              *)
(***************************************************************************)

Dependent(k) == {a \in Addrs : Owner[a] = k}

Put(s, k, v) ==
    [x \in Keys |-> IF x = k THEN v
                    ELSE IF v = Absent /\ x \in Dependent(k) THEN Absent ELSE s[x]]

\* addresses go, and are reported, before their interface
Report(k, v) ==
    LET gone == SetToSeq({a \in Dependent(k) : v = Absent /\ kernel[a] # Absent})
    IN  [i \in DOMAIN gone |-> <<gone[i], Absent>>] \o <<<<k, v>>>>

Change(k, v) ==
    /\ kernel' = Put(kernel, k, v)
    /\ evq' = IF kernel[k] = v THEN evq ELSE evq \o Report(k, v)

\* addr('set') returns without a request
Silent(m, k) == m = "set" /\ k \in Addrs

\* what the kernel says to a request; an interface is deleted by its index
Answer(m, k, known) ==
    IF k \in Addrs /\ kernel[Owner[k]] = Absent THEN "ENODEV"
    ELSE IF m = "add" /\ kernel[k] # Absent THEN "EEXIST"
    ELSE IF m = "del" /\ ~known THEN "EINVAL"
    ELSE IF m # "add" /\ kernel[k] = Absent THEN "ENODEV"
    ELSE "ok"

Perform(m, k, v, known) ==
    IF Answer(m, k, known) = "ok" /\ v # Same THEN Change(k, v)
    ELSE UNCHANGED <<kernel, evq>>

\* errors that a repeated call ignores: fallback_for
fallback_for == [add |-> {"EEXIST"}, set |-> {"ENODEV"}, del |-> {"ENODEV"}]

(***************************************************************************)
(* Frames.                                                                 *)
(***************************************************************************)

Frame(fn, o, rb) ==
    [fn |-> fn, o |-> o, rb |-> rb, at |-> "begin", m |-> "none", v |-> Same,
     itn |-> 0, ok |-> FALSE, res |-> "none", todo |-> <<>>, kept |-> <<>>]

Top == Last(stack)
X == obj[Top.o]
At(fn, p) == stack # <<>> /\ Top.fn = fn /\ Top.at = p /\ ret = "none"
Back(fn, p) == stack # <<>> /\ Top.fn = fn /\ Top.at = p /\ ret # "none"

Goto(f) == stack' = Front(stack) \o <<f>> /\ ret' = "none"
Call(f, g) == stack' = Front(stack) \o <<f, g>> /\ ret' = "none"
Return(r) == stack' = Front(stack) /\ ret' = r

At_(p) == [Top EXCEPT !.at = p]
Set(o, x) == obj' = [obj EXCEPT ![o] = x]

\* where the event loop may run something else
Suspended == IF stack = <<>> THEN TRUE
             ELSE /\ ret = "none"
                  /\ Top.at \in {"called", "answered", "wait", "get", "loading"}

Outside == <<env, refusals, others, before>>

(***************************************************************************)
(* commit()                                                                *)
(***************************************************************************)

Chained(o) == IF o[1] \in Addrs /\ o[2] = "own" /\ state(obj[o]) = "invalid"
              THEN {Own(Owner[o[1]])} ELSE {}

\* a clean object has nothing to do; the chain is committed first
CommitBegin ==
    /\ At("commit", "begin")
    /\ IF clean(X) THEN Return("ok")
       ELSE IF \E c \in Chained(Top.o) : ~clean(obj[c])
            THEN \E c \in Chained(Top.o) :
                    Call(At_("chained"), Frame("commit", c, FALSE))
            ELSE Goto(At_("apply"))
    /\ UNCHANGED <<obj, kernel, db, evq, Outside>>

CommitChained ==
    /\ Back("commit", "chained")
    /\ IF ret = "ok" THEN Goto(At_("apply")) ELSE Return("error")
    /\ UNCHANGED <<obj, kernel, db, evq, Outside>>

\* snapshot(): a copy from the database, and tables of what depends on it
snapshot(o) ==
    [load_sql(Nothing, db, o[1]) EXCEPT
        !.changed = obj[o].changed,
        !.tables = [k \in {o[1]} \cup Dependent(o[1]) |-> db[k]]]

\* a new object is applied; an existing one after a snapshot
CommitApply ==
    /\ At("commit", "apply")
    /\ \/ /\ state(X) = "invalid"
          /\ Set(Top.o, [X EXCEPT !.save = "new"])
          /\ Call([At_("new") EXCEPT !.kept = <<X.val, X.known>>],
                  Frame("apply", Top.o, FALSE))
       \/ /\ state(X) # "invalid" /\ db[Top.o[1]] # Absent
          /\ obj' = [obj EXCEPT ![Top.o].save = "snap",
                                ![Snap(Top.o)] = snapshot(Top.o)]
          /\ Call(At_("old"), Frame("apply", Top.o, FALSE))
       \/ /\ state(X) # "invalid" /\ db[Top.o[1]] = Absent
          /\ Return("error") /\ UNCHANGED obj
    /\ UNCHANGED <<kernel, db, evq, Outside>>

\* `finally` of commit(): the snapshot takes the state of the object
Finally == Set(Snap(Top.o), set(obj[Snap(Top.o)], state(X)))

\* a new object that fails gets its own fields back: the index that was loaded
\* is dropped, the state stays
CommitReturn ==
    /\ \/ Back("commit", "new") /\ ret = "ok" /\ Return("ok") /\ UNCHANGED obj
       \/ /\ Back("commit", "new") /\ ret = "error" /\ Return("error")
          /\ Set(Top.o, [X EXCEPT !.val = Top.kept[1], !.known = Top.kept[2]])
       \/ Back("commit", "old") /\ ret = "ok" /\ Finally /\ Return("ok")
       \/ /\ Back("commit", "old") /\ ret = "error" /\ UNCHANGED obj
          /\ Call(At_("undone"), Frame("rollback", Top.o, FALSE))
       \/ Back("commit", "undone") /\ Finally /\ Return("error")
    /\ UNCHANGED <<kernel, db, evq, Outside>>

(***************************************************************************)
(* apply()                                                                 *)
(***************************************************************************)

Method == [invalid |-> "add", system |-> "set", remove |-> "del"]

Request(x, m) == IF m = "del" THEN Absent
                 ELSE IF m = "set" /\ ~x.changed THEN Same ELSE x.val

\* what is not in the database (any more), or not found there without its index,
\* is added (again)
ApplyBegin ==
    /\ At("apply", "begin")
    /\ LET x == IF state(X) = "system" /\ (db[Top.o[1]] = Absent \/ ~X.known)
                THEN set(X, "invalid") ELSE X
           m == Method[state(x)]
       IN  /\ Set(Top.o, [x EXCEPT !.loaded = FALSE, !.snaps = <<>>])
           /\ Goto([At_("called") EXCEPT !.m = m, !.v = Request(x, m)])
    /\ UNCHANGED <<kernel, db, evq, Outside>>

\* the kernel performs the request, or refuses it
KernelAnswers ==
    /\ At("apply", "called")
    /\ \/ /\ Silent(Top.m, Top.o[1])
          /\ Goto([At_("answered") EXCEPT !.res = "ok"])
          /\ UNCHANGED <<kernel, evq, refusals>>
       \/ /\ ~Silent(Top.m, Top.o[1])
          /\ Perform(Top.m, Top.o[1], Top.v, X.known)
          /\ Goto([At_("answered") EXCEPT !.res = Answer(Top.m, Top.o[1], X.known)])
          /\ UNCHANGED refusals
       \/ /\ ~Silent(Top.m, Top.o[1]) /\ refusals < MaxRefusals
          /\ \/ "hostile" \in env
             \/ "refuse" \in env /\ \A i \in DOMAIN stack : stack[i].fn # "rollback"
          /\ refusals' = refusals + 1
          /\ Goto([At_("answered") EXCEPT !.res = "EBUSY"])
          /\ UNCHANGED <<kernel, evq>>
    /\ UNCHANGED <<obj, db, env, others, before>>

\* an error of the first call is raised, later some are ignored
ApplyAnswered ==
    /\ At("apply", "answered")
    /\ IF Top.res = "ok" \/ (Top.ok /\ Top.res \in fallback_for[Top.m])
       THEN Goto([At_("wait") EXCEPT !.ok = TRUE])
       ELSE Return("error")
    /\ UNCHANGED <<obj, kernel, db, evq, Outside>>

\* mutant: the object is taken as loaded after a second
CheckSkipped ==
    /\ At("apply", "wait")
    /\ X.loaded \/ evq = <<>> \/ "late" \in env
    /\ Set(Top.o, [load_sql(X, db, Top.o[1]) EXCEPT !.loaded = FALSE])
    /\ Goto(At_("checked"))
    /\ UNCHANGED <<kernel, db, evq, Outside>>

\* load_event or a second later: the object is loaded and compared.  After the
\* last try use_db_resync() iterates over the result of check(), which raises.
ApplyCheck ==
    /\ At("apply", "wait")
    /\ \/ X.loaded \/ evq = <<>> \/ "stalled" \in env
       \/ "late" \in env /\ Top.itn + 1 < Tries
    /\ LET x == load_sql(X, db, Top.o[1]) IN
       /\ Set(Top.o, [x EXCEPT !.loaded = FALSE])
       /\ IF check(x) THEN Goto(At_("checked"))
          ELSE IF Top.itn + 1 < Tries
               THEN Goto([At_("called") EXCEPT !.itn = @ + 1])
               ELSE Return("error")
    /\ UNCHANGED <<kernel, db, evq, Outside>>

\* a rollback compares the tables of the snapshot with the database
ApplyChecked ==
    /\ At("apply", "checked")
    /\ \/ /\ Top.rb /\ UNCHANGED obj
          /\ \E s \in SetToSeqs({a \in Dependent(Top.o[1]) :
                                   X.tables[a] # Absent /\ db[a] = Absent}) :
                Goto([At_("diff") EXCEPT !.todo = s])
       \/ /\ ~Top.rb /\ Set(Top.o, [X EXCEPT !.script = <<>>])
          /\ Goto([At_("script") EXCEPT !.todo = X.script])
    /\ UNCHANGED <<kernel, db, evq, Outside>>

\* mutant: the tables are not compared
DiffSkipped ==
    /\ At("apply", "diff") \/ Back("apply", "diff")
    /\ Goto([At_("chain") EXCEPT !.todo = Reverse(X.chain)])
    /\ UNCHANGED <<obj, kernel, db, evq, Outside>>

\* what is missing is created again; errors are stored, not raised
ApplyDiff ==
    /\ At("apply", "diff") \/ Back("apply", "diff")
    /\ IF Top.todo = <<>>
       THEN UNCHANGED obj /\ Goto([At_("chain") EXCEPT !.todo = Reverse(X.chain)])
       ELSE LET a == Head(Top.todo) IN
            /\ Set(<<a, "diff">>, NewObject(X.tables[a], TRUE))
            /\ Call([Top EXCEPT !.todo = Tail(@)], Frame("apply", <<a, "diff">>, FALSE))
    /\ UNCHANGED <<kernel, db, evq, Outside>>

\* mutant: what the script did is kept
ChainSkipped ==
    /\ At("apply", "chain") \/ Back("apply", "chain")
    /\ Goto(At_("applied"))
    /\ UNCHANGED <<obj, kernel, db, evq, Outside>>

\* what the script did is undone in reverse order
ApplyChain ==
    /\ At("apply", "chain") \/ Back("apply", "chain")
    /\ IF ret = "error" THEN Return("error")
       ELSE IF Top.todo = <<>> THEN Goto(At_("applied"))
       ELSE Call([Top EXCEPT !.todo = Tail(@)],
                 Frame("rollback", Head(Top.todo), FALSE))
    /\ UNCHANGED <<obj, kernel, db, evq, Outside>>

\* add_ip(), ensure_ip(), del_ip(): KeyError if there is such an address, or
\* none; a new object, or the existing one marked for removal
Fails(op) == \/ op[1] = "add" /\ db[op[2]] # Absent
             \/ op[1] = "del" /\ db[op[2]] = Absent
Skips(op) == op[1] = "ensure" /\ db[op[2]] # Absent
Item(op) == IF op[1] = "del"
            THEN set(load_sql([Nothing EXCEPT !.live = TRUE], db, op[2]), "remove")
            ELSE NewObject(1, TRUE)

\* the script: an object is committed, and kept for a rollback
ApplyScript ==
    /\ At("apply", "script")
    /\ IF Top.todo = <<>> THEN UNCHANGED obj /\ Goto(At_("applied"))
       ELSE LET op == Head(Top.todo) IN
            IF Fails(op) THEN UNCHANGED obj /\ Return("error")
            ELSE IF Skips(op)
            THEN UNCHANGED obj /\ Goto([Top EXCEPT !.todo = Tail(@)])
            ELSE /\ Set(Own(op[2]), Item(op))
                 /\ Call(Top, Frame("commit", Own(op[2]), FALSE))
    /\ UNCHANGED <<kernel, db, evq, Outside>>

ApplyScriptReturn ==
    /\ Back("apply", "script")
    /\ IF ret = "error" THEN UNCHANGED obj /\ Return("error")
       ELSE /\ Set(Top.o, [X EXCEPT !.snaps = Append(@, Own(Head(Top.todo)[2]))])
            /\ Goto([Top EXCEPT !.todo = Tail(@)])
    /\ UNCHANGED <<kernel, db, evq, Outside>>

\* Interface.apply(): unless it was removed, load_from_system() asks for the
\* interface and waits for the answer to be loaded
ApplyApplied ==
    /\ At("apply", "applied")
    /\ IF Top.o[1] \in Links /\ Top.m # "del" /\ state(X) # "invalid"
       THEN Set(Top.o, [X EXCEPT !.loaded = FALSE]) /\ Goto(At_("get"))
       ELSE UNCHANGED obj /\ Return("ok")
    /\ UNCHANGED <<kernel, db, evq, Outside>>

\* mutant: an error of the kernel is ignored
GetIgnored ==
    /\ At("apply", "get") /\ Goto(At_("loading"))
    /\ evq' = IF kernel[Top.o[1]] = Absent THEN evq
              ELSE Append(evq, <<Top.o[1], kernel[Top.o[1]]>>)
    /\ UNCHANGED <<obj, kernel, db, Outside>>

LinkGet ==
    /\ At("apply", "get")
    /\ IF kernel[Top.o[1]] = Absent THEN Return("error") /\ UNCHANGED evq
       ELSE /\ evq' = Append(evq, <<Top.o[1], kernel[Top.o[1]]>>)
            /\ Goto(At_("loading"))
    /\ UNCHANGED <<obj, kernel, db, Outside>>

LinkLoaded ==
    /\ At("apply", "loading") /\ X.loaded /\ Return("ok")
    /\ UNCHANGED <<obj, kernel, db, evq, Outside>>

(***************************************************************************)
(* rollback()                                                              *)
(***************************************************************************)

\* a new object is removed; otherwise the snapshot is applied
RollbackBegin ==
    /\ At("rollback", "begin")
    /\ \/ X.save = "none" /\ Return("error") /\ UNCHANGED obj
       \/ /\ X.save = "new" /\ Set(Top.o, set(X, "remove"))
          /\ Call(At_("applying"), Frame("apply", Top.o, FALSE))
       \/ /\ X.save = "snap"
          /\ Set(Snap(Top.o), [set(obj[Snap(Top.o)], state(X)) EXCEPT
                                 !.chain = X.snaps, !.live = TRUE])
          /\ Call(At_("applying"), Frame("apply", Snap(Top.o), TRUE))
    /\ UNCHANGED <<kernel, db, evq, Outside>>

RollbackReturn ==
    /\ Back("rollback", "applying") /\ Return(ret)
    /\ UNCHANGED <<obj, kernel, db, evq, Outside>>

(***************************************************************************)
(* TaskManager.receiver()                                                  *)
(***************************************************************************)

\* load_netlink(), then the objects that registered for the event
LoadEvent ==
    /\ Suspended /\ evq # <<>> /\ evq' = Tail(evq)
    /\ LET k == Head(evq)[1]
           v == Head(evq)[2]
       IN  /\ db' = IF v # Absent /\ k \in Addrs /\ db[Owner[k]] = Absent
                    THEN db ELSE Put(db, k, v)
           /\ obj' = [o \in Objects |->
                        IF Matches(o, obj[o], k)
                        THEN load_rtnlmsg(obj[o], o, k, v, db') ELSE obj[o]]
    /\ UNCHANGED <<kernel, stack, ret, Outside>>

\* another process changes an interface
Other(k, v) ==
    /\ "other" \in env /\ others < MaxOthers /\ others' = others + 1
    /\ Suspended /\ v # kernel[k] /\ Change(k, v)
    /\ UNCHANGED <<env, db, obj, stack, ret, refusals, before>>

Commit == CommitBegin \/ CommitChained \/ CommitApply \/ CommitReturn
Apply == \/ ApplyBegin \/ ApplyAnswered \/ ApplyCheck \/ ApplyChecked \/ ApplyDiff
         \/ ApplyChain \/ ApplyScript \/ ApplyScriptReturn \/ ApplyApplied
         \/ LinkLoaded
Rollback == RollbackBegin \/ RollbackReturn
Kernel == KernelAnswers \/ LinkGet
Others == \E k \in Links, v \in {Absent} \cup Values : Other(k, v)
=============================================================================
