----------------------------- MODULE NetNSProofs -----------------------------
(***************************************************************************)
(* Proofs about NetNS, with ChildProcess, for every set of threads, names, *)
(* environments and plans.                                                 *)
(***************************************************************************)
EXTENDS NetNS, TLAPS

-----------------------------------------------------------------------------
(* The inductive invariant. *)

Answers == {<<"exception">>} \cup {Mounted(ns) : ns \in 1..nns}
NoAnswers == {<<"none">>, <<"ok">>, <<"error">>, <<"RuntimeError">>, <<"TimeoutError">>}
Ops == Calls \cup {<<"none">>}

Parents == [pc : {"idle", "poll", "waitpid", "communicated", "reap", "stopped"},
            running : BOOLEAN, exitcode : {"none", "0", "KILL", "TERM"},
            res : Answers \cup NoAnswers, life : Nat]
Children == [st : {"none", "alive", "zombie", "gone"},
             at : {"none", "start", "stuck", "open", "unshare", "bind", "list", "setns",
                   "send", "exit"},
             status : {"none", "0", "KILL", "TERM"}, dfl : BOOLEAN,
             func : Ops, val : Answers \cup NoAnswers, life : Nat]
Users == [op : Ops, at : {"idle", "child", "unlink", "list", "setns"},
          res : Answers \cup NoAnswers, tries : Nat]
Packets == [val : Answers, life : Nat]

Shape ==
    /\ parent \in [Threads -> Parents] /\ child \in [Threads -> Children]
    /\ chan \in [Threads -> Seq(Packets)]
    /\ file \in [Names -> Spaces] /\ nns \in Nat
    /\ cur \in [Threads -> 0..nns] /\ saved \in Seq(0..nns)
    /\ user \in [Threads -> Users] /\ plan \in [Threads -> Seq(Calls)]

\* A call that has ended has dealt with its child.
Settled(t) ==
    \/ ~parent[t].running /\ child[t].st \in {"none", "gone"}
    \/ child[t].st = "gone" /\ parent[t].res = <<"RuntimeError">>
    \/ Op(t)[1] # "socket" /\ parent[t].res = <<"exception">>

\* The object and the process, at each step of a call.
Tended(t) ==
    /\ UserAt(t, "child") => parent[t].pc # "idle"
    /\ ~UserAt(t, "child") => parent[t].pc = "idle" /\ Settled(t)
    /\ parent[t].pc \in {"poll", "waitpid"} =>
          parent[t].running /\ child[t].st \in {"alive", "zombie"}
    /\ parent[t].pc = "communicated" =>
          /\ parent[t].running /\ child[t].st # "none"
          /\ parent[t].res \in Answers
             \/ (parent[t].res = <<"RuntimeError">> /\ child[t].st = "gone")
    /\ parent[t].pc = "reap" => ~parent[t].running /\ child[t].st \in {"alive", "zombie"}
    /\ parent[t].pc = "stopped" => ~parent[t].running /\ child[t].st = "gone"

\* What is in the socket was sent by the child of this run().
Current(t) ==
    /\ child[t].life = parent[t].life
    /\ \A i \in DOMAIN chan[t] : chan[t][i].life = parent[t].life

\* A call that uses a name has one, and so does its child.
Named(t) ==
    /\ user[t].at \in {"child", "unlink", "list", "setns"} => Op(t)[2] \in Names
    /\ child[t].st # "none" => Name(t) \in Names
    /\ UserAt(t, "child") => child[t].st # "none" /\ Name(t) = Op(t)[2]
    /\ child[t].at = "send" => child[t].val \in Answers
    /\ child[t].at = "bind" => child[t].val \in Answers \ {<<"exception">>}

\* Between O_EXCL and mount() the file is plain, and no other child is there.
Opening(t) == ChildAt(t, "unshare") \/ ChildAt(t, "bind")
Exclusive ==
    \A t \in Threads : Opening(t) =>
        /\ file[Name(t)] = Plain
        /\ \A u \in Threads : Opening(u) /\ Name(u) = Name(t) => u = t

\* A namespace that was answered, sent or returned is the one mounted there.
IsAt(v, n) == v[1] = "ns" => n \in Names /\ file[n] = v
True(t) ==
    /\ ~UserAt(t, "unlink")
    /\ child[t].at \in {"send", "exit"} => IsAt(child[t].val, Name(t))
    /\ \A i \in DOMAIN chan[t] : IsAt(chan[t][i].val, Name(t))
    /\ UserAt(t, "child") => IsAt(parent[t].res, Op(t)[2])
    /\ UserAt(t, "idle") => IsAt(user[t].res, Op(t)[2])

CallInv == Shape /\ \A t \in Threads : Tended(t) /\ Current(t) /\ Named(t)
NameInv == "remove" \notin env => Exclusive /\ \A t \in Threads : True(t)

-----------------------------------------------------------------------------
(* Steps of one thread. *)

\* Facts about the answers and numbers of every step.
LEMMA NotSpaces == <<"exception">>[1] # "ns" /\ <<"none">>[1] # "ns"
OBVIOUS

\* For steps that create no namespace.
LEMMA SameIsAtLeast == \A a \in Nat : \A b : b = a => b >= a
OBVIOUS

\* No namespace is saved at the start.
LEMMA EmptyDomain == DOMAIN <<>> = {}
OBVIOUS

\* Before the first call.
LEMMA InitInv == Init => CallInv /\ NameInv
<1> SUFFICES ASSUME Init PROVE CallInv /\ NameInv
  OBVIOUS
<1>1. /\ NoParent \in Parents /\ NoChild \in Children /\ Idle \in Users
  BY DEF NoParent, NoChild, Idle, Parents, Children, Users, NoAnswers, Ops
<1>2. Shape
  <2>1. /\ parent \in [Threads -> Parents] /\ child \in [Threads -> Children]
        /\ user \in [Threads -> Users]
    BY <1>1 DEF Init
  <2>2. chan \in [Threads -> Seq(Packets)] /\ saved \in Seq(0..nns)
    BY DEF Init
  <2>3. file \in [Names -> Spaces] /\ nns \in Nat /\ cur \in [Threads -> 0..nns]
    BY DEF Init, Spaces, Main
  <2>4. plan \in [Threads -> Seq(Calls)]
    BY PlanAssumption DEF Init
  <2>. QED
    BY <2>1, <2>2, <2>3, <2>4 DEF Shape
<1>3. ASSUME NEW t \in Threads
      PROVE  /\ Tended(t) /\ Current(t) /\ Named(t) /\ True(t) /\ ~Opening(t)
  <2>1. /\ parent[t] = NoParent /\ child[t] = NoChild /\ user[t] = Idle /\ chan[t] = <<>>
    BY DEF Init
  <2>2. /\ parent[t].pc = "idle" /\ parent[t].running = FALSE /\ parent[t].life = 0
        /\ parent[t].res = <<"none">>
    BY <2>1 DEF NoParent
  <2>3. /\ child[t].st = "none" /\ child[t].at = "none" /\ child[t].life = 0
        /\ child[t].val = <<"none">>
    BY <2>1 DEF NoChild
  <2>4. user[t].at = "idle" /\ user[t].res = <<"none">>
    BY <2>1 DEF Idle
  <2>5. Tended(t)
    BY <2>2, <2>3, <2>4 DEF Tended, Settled, UserAt
  <2>6. Current(t)
    BY <2>1, <2>2, <2>3 DEF Current
  <2>7. Named(t)
    BY <2>3, <2>4 DEF Named, UserAt
  <2>8. True(t) /\ ~Opening(t)
    BY <2>1, <2>2, <2>3, <2>4 DEF True, IsAt, UserAt, Opening, ChildAt
  <2>. QED
    BY <2>5, <2>6, <2>7, <2>8
<1>5. Exclusive
  BY <1>3 DEF Exclusive
<1>. QED
  BY <1>2, <1>3, <1>5 DEF CallInv, NameInv

\* A step of thread t leaves the objects of the others alone.
Apart(t) ==
    \A u \in Threads \ {t} : /\ parent'[u] = parent[u] /\ child'[u] = child[u]
                             /\ chan'[u] = chan[u] /\ user'[u] = user[u]

\* What is an answer, a call or a namespace remains one when namespaces are
\* added.
LEMMA Answered ==
    ASSUME nns \in Nat, nns' \in Nat, nns' >= nns
    PROVE  /\ Answers \subseteq Answers' /\ Parents \subseteq Parents'
           /\ Children \subseteq Children' /\ Users \subseteq Users'
           /\ Packets \subseteq Packets' /\ Spaces \subseteq Spaces'
<1>1. Answers \subseteq Answers' /\ Spaces \subseteq Spaces'
  BY DEF Answers, Spaces, Mounted
<1>. QED
  BY <1>1 DEF Parents, Children, Users, Packets, NoAnswers, Ops

\* A step of one thread or its child is judged by what it does to that thread.
LEMMA ApartInv ==
    ASSUME CallInv, NEW t \in Threads, Apart(t), nns' >= nns, Shape',
           Tended(t)', Current(t)', Named(t)'
    PROVE  CallInv'
<1>1. Answers \subseteq Answers'
  BY Answered DEF CallInv, Shape
<1>2. ASSUME NEW u \in Threads \ {t}
      PROVE  Tended(u)' /\ Current(u)' /\ Named(u)'
  <2>1. Tended(u) /\ Current(u) /\ Named(u)
    BY DEF CallInv
  <2>2. /\ parent'[u] = parent[u] /\ child'[u] = child[u]
        /\ chan'[u] = chan[u] /\ user'[u] = user[u]
    BY DEF Apart
  <2>3. Tended(u)'
    BY <2>1, <2>2, <1>1 DEF Tended, Settled, UserAt, Op
  <2>4. Current(u)'
    BY <2>1, <2>2 DEF Current
  <2>5. Named(u)'
    <3>1. <<"exception">> \in Answers
      BY DEF Answers
    <3>. QED
      BY <2>1, <2>2, <1>1, <3>1 DEF Named, UserAt, Op, Name, Func
  <2>. QED
    BY <2>3, <2>4, <2>5
<1>. QED
  BY <1>2 DEF CallInv

\* Names: what a step of t leaves alone.
LEMMA ApartNames ==
    ASSUME NameInv, NEW t \in Threads, Apart(t), UNCHANGED env,
           "remove" \notin env => True(t)',
           "remove" \notin env => \A n \in Names : file[n] # Nothing /\ file[n] # Plain
                                                   => file'[n] = file[n],
           CallInv, CallInv',
           "remove" \notin env => \A u \in Threads \ {t} :
                Opening(u) => file'[Name(u)] = Plain,
           "remove" \notin env /\ Opening(t)' =>
                /\ file'[Name(t)'] = Plain
                /\ \A u \in Threads \ {t} : Opening(u) => Name(u) # Name(t)'
    PROVE  NameInv'
<1> SUFFICES ASSUME "remove" \notin env PROVE Exclusive' /\ \A u \in Threads : True(u)'
  BY DEF NameInv
<1>1. \A u \in Threads \ {t} : Opening(u)' = Opening(u) /\ Name(u)' = Name(u)
  BY DEF Opening, ChildAt, Name, Func, Apart
<1>2. Exclusive'
  BY <1>1 DEF NameInv, Exclusive
<1>3. ASSUME NEW u \in Threads \ {t} PROVE True(u)'
  <2>1. True(u) /\ Named(u)
    BY DEF NameInv, CallInv
  <2>2. /\ parent'[u] = parent[u] /\ child'[u] = child[u]
        /\ chan'[u] = chan[u] /\ user'[u] = user[u]
    BY DEF Apart
  <2>3. \A n, v : IsAt(v, n) => (v[1] = "ns" => n \in Names /\ file'[n] = v)
    BY DEF IsAt, Nothing, Plain
  <2>. QED
    BY <2>1, <2>2, <2>3 DEF True, IsAt, UserAt, Op, Name, Func
<1>. QED
  BY <1>2, <1>3

-----------------------------------------------------------------------------
(* The child. *)

\* A step of a child that is alive: it goes on, or ends.
LEMMA ChildStepInv ==
    ASSUME CallInv, NEW t \in Threads, child[t].st = "alive",
           child' \in [Threads -> Children'],
           \A u \in Threads \ {t} : child'[u] = child[u],
           child'[t].st \in {"alive", "zombie"}, child'[t].life = child[t].life,
           child'[t].func = child[t].func,
           child'[t].at = "send" => child'[t].val \in Answers',
           child'[t].at = "bind" => child'[t].val \in Answers' \ {<<"exception">>},
           UNCHANGED <<parent, chan, user, plan, cur, saved>>,
           file' \in [Names -> Spaces'], nns' \in Nat, nns' >= nns
    PROVE  CallInv' /\ Apart(t)
<1>. Shape /\ Tended(t) /\ Current(t) /\ Named(t)
  BY DEF CallInv
<1>1. Shape'
  <2>1. /\ Parents \subseteq Parents' /\ Users \subseteq Users' /\ Packets \subseteq Packets'
    BY Answered DEF Shape
  <2>2. chan' \in [Threads -> Seq(Packets')]
    BY <2>1 DEF Shape
  <2>3. /\ parent' \in [Threads -> Parents'] /\ user' \in [Threads -> Users']
        /\ plan' \in [Threads -> Seq(Calls)]
    BY <2>1 DEF Shape
  <2>4. cur' \in [Threads -> 0..nns'] /\ saved' \in Seq(0..nns')
    <3>1. 0..nns \subseteq 0..nns'
      BY DEF Shape
    <3>. QED
      BY <3>1 DEF Shape
  <2>. QED
    BY <2>2, <2>3, <2>4 DEF Shape
<1>2. Apart(t)
  BY DEF Apart
<1>3. Answers \subseteq Answers'
  BY Answered DEF Shape
<1>4. Tended(t)'
  BY <1>3 DEF Tended, Settled, UserAt, Op
<1>5. Current(t)'
  BY DEF Current
<1>6. Named(t)'
  BY DEF Named, UserAt, Op, Name, Func
<1>. QED
  BY <1>1, <1>2, <1>4, <1>5, <1>6, ApartInv

\* A step of a child that neither opens nor mounts the name.
LEMMA ChildStepNames ==
    ASSUME CallInv, CallInv', NameInv, NEW t \in Threads, Apart(t), child[t].st = "alive",
           child'[t].func = child[t].func, UNCHANGED <<env, parent, chan, user>>,
           "remove" \notin env /\ child'[t].at \in {"send", "exit"} =>
               IsAt(child[t].val, Name(t))',
           "remove" \notin env =>
               \A n \in Names : file'[n] = file[n] \/ (n = Name(t) /\ file[n] \in {Nothing, Plain}),
           "remove" \notin env =>
               \/ file'[Name(t)] = file[Name(t)] /\ (Opening(t)' => Opening(t))
               \/ file[Name(t)] = Nothing /\ file'[Name(t)] = Plain
               \/ Opening(t) /\ ~Opening(t)'
    PROVE  NameInv'
<1> SUFFICES ASSUME "remove" \notin env PROVE NameInv'
  BY DEF NameInv
<1>. Named(t) /\ Named(t)' /\ True(t) /\ Exclusive
  BY DEF CallInv, NameInv
<1>1. Name(t)' = Name(t) /\ Name(t) \in Names
  BY DEF Name, Func, Named
<1>2. \A n, v : IsAt(v, n) => (v[1] = "ns" => n \in Names /\ file'[n] = v)
  BY DEF IsAt, Nothing, Plain
<1>3. True(t)'
  BY <1>1, <1>2 DEF True, IsAt, UserAt, Op
<1>4. \A u \in Threads \ {t} : Opening(u) => file'[Name(u)] = Plain
  <2>1. TAKE u \in Threads \ {t}
  <2>2. SUFFICES ASSUME Opening(u) PROVE file'[Name(u)] = Plain
    OBVIOUS
  <2>3. file[Name(u)] = Plain /\ Name(u) \in Names
    BY <2>2 DEF Exclusive, CallInv, Named, Opening, ChildAt
  <2>4. CASE Name(u) # Name(t)
    BY <2>3, <2>4
  <2>5. CASE Name(u) = Name(t)
    <3>1. ~Opening(t)
      BY <2>2, <2>5 DEF Exclusive
    <3>2. Plain # Nothing
      BY DEF Plain, Nothing
    <3>. QED
      BY <2>3, <2>5, <3>1, <3>2
  <2>. QED
    BY <2>4, <2>5
<1>5. Opening(t)' => /\ file'[Name(t)'] = Plain
                     /\ \A u \in Threads \ {t} : Opening(u) => Name(u) # Name(t)'
  <2>. SUFFICES ASSUME Opening(t)' PROVE /\ file'[Name(t)] = Plain
                     /\ \A u \in Threads \ {t} : Opening(u) => Name(u) # Name(t)
    BY <1>1
  <2>1. CASE file'[Name(t)] = file[Name(t)] /\ Opening(t)
    BY <2>1 DEF Exclusive
  <2>2. CASE file[Name(t)] = Nothing /\ file'[Name(t)] = Plain
    BY <2>2 DEF Exclusive, Nothing, Plain
  <2>. QED
    BY <2>1, <2>2
<1>6. \A n \in Names : file[n] # Nothing /\ file[n] # Plain => file'[n] = file[n]
  OBVIOUS
<1>. QED
  BY <1>3, <1>4, <1>5, <1>6, ApartNames

\* The children of the model.
LEMMA ChildInv ==
    ASSUME CallInv, NameInv, NEW t \in Threads,
           \/ (ChildStart(t, IF Func(t)[1] = "create" THEN "open" ELSE "list") \/ ChildExit(t)
               \/ ChildDies(t)) /\ UNCHANGED <<env, nsvars>>
           \/ List(t) \/ ChildSetns(t) \/ SyscallFails(t)
    PROVE  CallInv' /\ NameInv'
<1>. Shape /\ Named(t)
  BY DEF CallInv
<1>1. /\ child[t].st = "alive" /\ UNCHANGED <<env, parent, chan, nsvars>>
      /\ child[t] \in Children /\ child \in [Threads -> Children]
      /\ <<"exception">> \in Answers
  BY DEF ChildStart, ChildExit, ChildDies, List, ChildSetns, SyscallFails, ChildAt, Shape,
         Answers
<1>2. \E c \in Children :
         /\ child' = [child EXCEPT ![t] = c]
         /\ c.st \in {"alive", "zombie"} /\ c.life = child[t].life
         /\ c.func = child[t].func
         /\ \/ c.at = child[t].at /\ c.val = child[t].val
            \/ c.at \in {"stuck", "open", "list", "setns"}
            \/ c.at = "send" /\ c.val = <<"exception">>
            \/ c.at = "send" /\ c.val = file[Name(t)] /\ c.val \in Answers
  <2>1. CASE ChildStart(t, IF Func(t)[1] = "create" THEN "open" ELSE "list")
    <3>1. PICK at \in {"open", "list", "stuck"} :
             child' = [child EXCEPT ![t].at = at,
                                    ![t].dfl = @ \/ "disable_mp_signal" \in env]
      BY <2>1, Zenon DEF ChildStart
    <3>. DEFINE c == [child[t] EXCEPT !.at = at, !.dfl = @ \/ "disable_mp_signal" \in env]
    <3>2. child' = [child EXCEPT ![t] = c]
      BY <1>1, <3>1, Zenon
    <3>3. c \in Children
      BY <1>1, Zenon DEF Children
    <3>. QED
      BY <1>1, <3>2, <3>3, Zenon DEF Children
  <2>2. CASE ChildExit(t) \/ ChildDies(t)
    <3>1. PICK x \in {"0", "KILL"} :
             child' = [child EXCEPT ![t].st = "zombie", ![t].status = x]
      BY <2>2 DEF ChildExit, ChildDies
    <3>. DEFINE c == [child[t] EXCEPT !.st = "zombie", !.status = x]
    <3>2. child' = [child EXCEPT ![t] = c]
      BY <1>1, <3>1, Zenon
    <3>3. c \in Children
      BY <1>1, Zenon DEF Children
    <3>. QED
      BY <1>1, <3>2, <3>3, Zenon DEF Children
  <2>3. CASE List(t)
    <3>1. PICK at \in {"open", "setns"} : child' = [child EXCEPT ![t].at = at]
      BY <2>3, Zenon DEF List, ChildGoto
    <3>. DEFINE c == [child[t] EXCEPT !.at = at]
    <3>2. child' = [child EXCEPT ![t] = c]
      BY <1>1, <3>1
    <3>3. c \in Children
      BY <1>1 DEF Children
    <3>. QED
      BY <1>1, <3>2, <3>3, Zenon DEF Children
  <2>4. CASE ChildSetns(t) \/ SyscallFails(t)
    <3>1. \E v \in Answers :
             /\ child' = [child EXCEPT ![t].at = "send", ![t].val = v]
             /\ v = <<"exception">> \/ v = file[Name(t)]
      <4>1. Name(t) \in Names /\ file[Name(t)] \in Spaces
        BY <1>1 DEF Named, Shape
      <4>2. file[Name(t)] \in {Nothing, Plain} \/ file[Name(t)] \in Answers
        BY <4>1 DEF Spaces, Answers
      <4>. QED
        BY <1>1, <2>4, <4>2 DEF ChildSetns, SyscallFails, ChildRaises, ChildReturns
    <3>2. PICK v \in Answers :
             /\ child' = [child EXCEPT ![t].at = "send", ![t].val = v]
             /\ v = <<"exception">> \/ v = file[Name(t)]
      BY <3>1, Zenon
    <3>. DEFINE c == [child[t] EXCEPT !.at = "send", !.val = v]
    <3>3. child' = [child EXCEPT ![t] = c]
      BY <1>1, <3>2, Zenon
    <3>4. c \in Children
      BY <1>1, Zenon DEF Children
    <3>. QED
      BY <1>1, <3>2, <3>3, <3>4, Zenon DEF Children
  <2>. QED
    BY <2>1, <2>2, <2>3, <2>4
<1>3. PICK c \in Children :
         /\ child' = [child EXCEPT ![t] = c]
         /\ c.st \in {"alive", "zombie"} /\ c.life = child[t].life
         /\ c.func = child[t].func
         /\ \/ c.at = child[t].at /\ c.val = child[t].val
            \/ c.at \in {"stuck", "open", "list", "setns"}
            \/ c.at = "send" /\ c.val = <<"exception">>
            \/ c.at = "send" /\ c.val = file[Name(t)] /\ c.val \in Answers
  BY <1>2, Zenon
<1>4. /\ child' \in [Threads -> Children'] /\ child'[t] = c
      /\ \A u \in Threads \ {t} : child'[u] = child[u]
      /\ nns' = nns /\ file' = file /\ file' \in [Names -> Spaces'] /\ nns' \in Nat
      /\ Answers' = Answers /\ UNCHANGED <<user, plan, cur, saved>>
  <2>1. nns' = nns /\ file' = file /\ UNCHANGED <<user, plan, cur, saved>>
    BY <1>1 DEF nsvars
  <2>2. Answers' = Answers /\ Spaces' = Spaces /\ Children' = Children
    BY <2>1 DEF Answers, Spaces, Children, NoAnswers, Ops
  <2>. QED
    BY <1>1, <1>3, <2>1, <2>2 DEF Shape
<1>5. CallInv' /\ Apart(t)
  <2>1. /\ child'[t].at = "send" => child'[t].val \in Answers'
        /\ child'[t].at = "bind" => child'[t].val \in Answers' \ {<<"exception">>}
    BY <1>1, <1>3, <1>4 DEF Named
  <2>2. nns' >= nns
    BY <1>4
  <2>. QED
    BY <1>1, <1>3, <1>4, <2>1, <2>2, ChildStepInv
<1>6. NameInv'
  <2>1. "remove" \notin env /\ child'[t].at \in {"send", "exit"} =>
            IsAt(child[t].val, Name(t))'
    <3>. SUFFICES ASSUME "remove" \notin env, c.at \in {"send", "exit"}
                  PROVE  c.val[1] = "ns" => Name(t) \in Names /\ file[Name(t)] = c.val
      BY <1>3, <1>4 DEF IsAt, Name, Func
    <3>1. True(t) /\ Name(t) \in Names
      BY <1>1 DEF NameInv, Named
    <3>2. CASE c.at = child[t].at /\ c.val = child[t].val
      BY <3>1, <3>2, Zenon DEF True, IsAt
    <3>3. CASE c.val = <<"exception">>
      BY <3>3, NotSpaces, Zenon
    <3>4. CASE c.val = file[Name(t)]
      BY <3>1, <3>4, Zenon
    <3>. QED
      BY <1>3, <3>2, <3>3, <3>4
  <2>2. Opening(t)' => Opening(t)
    BY <1>1, <1>3, <1>4 DEF Opening, ChildAt
  <2>. QED
    BY <1>1, <1>3, <1>4, <1>5, <2>1, <2>2, ChildStepNames, Zenon
<1>. QED
  BY <1>5, <1>6

\* os.open() with O_EXCL lets one child pass.
LEMMA OpenInv ==
    ASSUME CallInv, NameInv, NEW t \in Threads, OpenExcl(t)
    PROVE  CallInv' /\ NameInv'
<1>. Shape /\ Named(t)
  BY DEF CallInv
<1>. DEFINE n == Name(t)
<1>1. /\ child[t].st = "alive" /\ child[t].at = "open" /\ n \in Names /\ nns \in Nat
      /\ UNCHANGED <<env, parent, chan, nns, cur, saved, user, plan>>
      /\ child[t] \in Children /\ child \in [Threads -> Children]
      /\ file \in [Names -> Spaces] /\ <<"exception">> \in Answers
  BY DEF OpenExcl, ChildAt, Named, Shape, Answers
<1>2. Answers' = Answers /\ Spaces' = Spaces /\ Children' = Children
  BY <1>1 DEF Answers, Spaces, Children, NoAnswers, Ops
<1>. HIDE DEF n
<1>3. CASE file[n] # Nothing
  <2>1. /\ file' = file
        /\ child' = [child EXCEPT ![t] = [child[t] EXCEPT !.at = "send", !.val = <<"exception">>]]
    BY <1>1, <1>3, Zenon DEF OpenExcl, ChildRaises, ChildReturns, n
  <2>2. [child[t] EXCEPT !.at = "send", !.val = <<"exception">>] \in Children
    BY <1>1, Zenon DEF Children
  <2>3. /\ child' \in [Threads -> Children'] /\ child'[t].st = "alive"
        /\ child'[t].at = "send" /\ child'[t].val = <<"exception">>
        /\ child'[t].func = child[t].func /\ child'[t].life = child[t].life
        /\ \A u \in Threads \ {t} : child'[u] = child[u]
    BY <1>1, <1>2, <2>1, <2>2 DEF Children
  <2>4. CallInv' /\ Apart(t)
    BY <1>1, <1>2, <2>1, <2>3, ChildStepInv
  <2>5. IsAt(child[t].val, Name(t))' /\ ~Opening(t)'
    BY <2>3 DEF IsAt, Opening, ChildAt
  <2>6. NameInv'
    BY <1>1, <2>1, <2>3, <2>4, <2>5, ChildStepNames
  <2>. QED
    BY <2>4, <2>6
<1>4. CASE file[n] = Nothing
  <2>1. /\ file' = [file EXCEPT ![n] = Plain]
        /\ child' = [child EXCEPT ![t] = [child[t] EXCEPT !.at = "unshare"]]
    BY <1>1, <1>4 DEF OpenExcl, ChildGoto, n
  <2>2. [child[t] EXCEPT !.at = "unshare"] \in Children /\ Plain \in Spaces
    BY <1>1 DEF Children, Spaces
  <2>3. /\ child' \in [Threads -> Children'] /\ child'[t].st = "alive"
        /\ child'[t].at = "unshare"
        /\ child'[t].func = child[t].func /\ child'[t].life = child[t].life
        /\ \A u \in Threads \ {t} : child'[u] = child[u]
        /\ file' \in [Names -> Spaces']
        /\ \A m \in Names \ {n} : file'[m] = file[m]
        /\ file'[n] = Plain
    BY <1>1, <1>2, <2>1, <2>2 DEF Children
  <2>4. CallInv' /\ Apart(t)
    BY <1>1, <2>3, ChildStepInv
  <2>5. NameInv'
    BY <1>1, <1>4, <2>3, <2>4, ChildStepNames DEF n
  <2>. QED
    BY <2>4, <2>5
<1>. QED
  BY <1>3, <1>4

\* unshare() makes a namespace that no name shows yet.
LEMMA UnshareInv ==
    ASSUME CallInv, NameInv, NEW t \in Threads, Unshare(t)
    PROVE  CallInv' /\ NameInv'
<1>. Shape /\ Named(t)
  BY DEF CallInv
<1>1. /\ child[t].st = "alive" /\ child[t].at = "unshare" /\ nns \in Nat /\ nns' = nns + 1
      /\ UNCHANGED <<env, parent, chan, file, cur, saved, user, plan>>
      /\ child[t] \in Children /\ child \in [Threads -> Children]
      /\ child' = [child EXCEPT ![t] = [child[t] EXCEPT !.at = "bind", !.val = <<"ns", nns + 1>>]]
  BY Zenon DEF Unshare, ChildAt, Shape
<1>2. /\ Children \subseteq Children' /\ Spaces \subseteq Spaces' /\ nns' \in Nat /\ nns' >= nns
      /\ <<"ns", nns + 1>> \in Answers' \ {<<"exception">>}
  <2>1. nns' \in Nat /\ nns' >= nns
    BY <1>1
  <2>2. <<"ns", nns + 1>> \in Answers' /\ <<"ns", nns + 1>> # <<"exception">>
    BY <1>1 DEF Answers, Mounted
  <2>. QED
    BY <1>1, <2>1, <2>2, Answered
<1>3. [child[t] EXCEPT !.at = "bind", !.val = <<"ns", nns + 1>>] \in Children'
  BY <1>1, <1>2, Zenon DEF Children
<1>4. /\ child' \in [Threads -> Children'] /\ child'[t].st = "alive"
      /\ child'[t].at = "bind" /\ child'[t].val \in Answers' \ {<<"exception">>}
      /\ child'[t].func = child[t].func /\ child'[t].life = child[t].life
      /\ \A u \in Threads \ {t} : child'[u] = child[u]
  BY <1>1, <1>2, <1>3 DEF Children
<1>5. file' \in [Names -> Spaces']
  BY <1>1, <1>2 DEF Shape
<1>6. CallInv' /\ Apart(t)
  BY <1>1, <1>2, <1>4, <1>5, ChildStepInv
<1>7. NameInv'
  BY <1>1, <1>4, <1>6, ChildStepNames DEF Opening, ChildAt
<1>. QED
  BY <1>6, <1>7

\* mount() binds it to the name.
LEMMA BindInv ==
    ASSUME CallInv, NameInv, NEW t \in Threads, Bind(t)
    PROVE  CallInv' /\ NameInv'
<1>. Shape /\ Named(t)
  BY DEF CallInv
<1>. DEFINE n == Name(t)
<1>1. /\ child[t].st = "alive" /\ child[t].at = "bind" /\ n \in Names /\ nns \in Nat
      /\ UNCHANGED <<env, parent, chan, nns, cur, saved, user, plan>>
      /\ child[t] \in Children /\ child \in [Threads -> Children]
      /\ file \in [Names -> Spaces] /\ <<"exception">> \in Answers
      /\ child[t].val \in Answers \ {<<"exception">>}
  BY DEF Bind, ChildAt, Named, Shape, Answers
<1>2. /\ Answers' = Answers /\ Spaces' = Spaces /\ Children' = Children
      /\ child[t].val \in Spaces
  BY <1>1 DEF Answers, Spaces, Children, NoAnswers, Ops
<1>3. Opening(t) /\ ("remove" \notin env => file[n] = Plain)
  BY <1>1 DEF Opening, ChildAt, NameInv, Exclusive
<1>. HIDE DEF n
<1>4. CASE file[n] = Nothing
  <2>1. /\ file' = file
        /\ child' = [child EXCEPT ![t] = [child[t] EXCEPT !.at = "send", !.val = <<"exception">>]]
    BY <1>1, <1>4, Zenon DEF Bind, ChildRaises, ChildReturns, n
  <2>2. [child[t] EXCEPT !.at = "send", !.val = <<"exception">>] \in Children
    BY <1>1, Zenon DEF Children
  <2>3. /\ child' \in [Threads -> Children'] /\ child'[t].st = "alive"
        /\ child'[t].at = "send" /\ child'[t].val = <<"exception">>
        /\ child'[t].func = child[t].func /\ child'[t].life = child[t].life
        /\ \A u \in Threads \ {t} : child'[u] = child[u]
    BY <1>1, <1>2, <2>1, <2>2 DEF Children
  <2>4. CallInv' /\ Apart(t)
    BY <1>1, <1>2, <2>1, <2>3, ChildStepInv
  <2>5. IsAt(child[t].val, Name(t))' /\ ~Opening(t)'
    BY <2>3 DEF IsAt, Opening, ChildAt
  <2>6. NameInv'
    BY <1>1, <2>1, <2>3, <2>4, <2>5, ChildStepNames
  <2>. QED
    BY <2>4, <2>6
<1>5. CASE file[n] # Nothing
  <2>1. /\ file' = [file EXCEPT ![n] = child[t].val]
        /\ \/ child' = [child EXCEPT ![t] = [child[t] EXCEPT !.at = "send", !.val = child[t].val]]
           \/ child' = [child EXCEPT ![t] = [child[t] EXCEPT !.at = "setns"]]
    BY <1>1, <1>5, Zenon DEF Bind, ChildGoto, ChildReturns, n
  <2>2. /\ [child[t] EXCEPT !.at = "send", !.val = child[t].val] \in Children
        /\ [child[t] EXCEPT !.at = "setns"] \in Children
    BY <1>1, Zenon DEF Children
  <2>3. /\ child' \in [Threads -> Children'] /\ child'[t].st = "alive"
        /\ child'[t].at \in {"send", "setns"} /\ child'[t].val = child[t].val
        /\ child'[t].func = child[t].func /\ child'[t].life = child[t].life
        /\ \A u \in Threads \ {t} : child'[u] = child[u]
    <3>1. CASE child' = [child EXCEPT ![t] = [child[t] EXCEPT !.at = "send", !.val = child[t].val]]
      BY <1>1, <1>2, <2>2, <3>1 DEF Children
    <3>2. CASE child' = [child EXCEPT ![t] = [child[t] EXCEPT !.at = "setns"]]
      BY <1>1, <1>2, <2>2, <3>2 DEF Children
    <3>. QED
      BY <2>1, <3>1, <3>2
  <2>4. /\ file' \in [Names -> Spaces'] /\ file'[n] = child[t].val
        /\ \A m \in Names \ {n} : file'[m] = file[m]
    BY <1>1, <1>2, <2>1
  <2>5. CallInv' /\ Apart(t)
    BY <1>1, <1>2, <2>3, <2>4, ChildStepInv
  <2>6. Name(t)' = n
    BY <2>3 DEF n, Name, Func
  <2>7. IsAt(child[t].val, Name(t))' /\ ~Opening(t)'
    BY <1>1, <2>3, <2>4, <2>6 DEF IsAt, Opening, ChildAt
  <2>8. NameInv'
    BY <1>1, <1>3, <2>3, <2>4, <2>5, <2>7, ChildStepNames DEF n
  <2>. QED
    BY <2>5, <2>8
<1>. QED
  BY <1>4, <1>5

\* The child sends what it has.
LEMMA SendInv ==
    ASSUME CallInv, NameInv, NEW t \in Threads, ChildSend(t), UNCHANGED <<env, nsvars>>
    PROVE  CallInv' /\ NameInv'
<1>. Shape /\ Tended(t) /\ Current(t) /\ Named(t)
  BY DEF CallInv
<1>. DEFINE p == [val |-> child[t].val, life |-> child[t].life]
<1>1. /\ child[t].st = "alive" /\ child[t].at = "send" /\ nns' = nns /\ nns \in Nat
      /\ UNCHANGED <<env, parent, file, nns, cur, saved, user, plan>>
      /\ child[t] \in Children /\ child \in [Threads -> Children]
      /\ chan \in [Threads -> Seq(Packets)]
      /\ child[t].val \in Answers /\ child[t].life = parent[t].life /\ child[t].life \in Nat
      /\ child' = [child EXCEPT ![t] = [child[t] EXCEPT !.at = "exit"]]
  BY DEF ChildSend, ChildAt, Shape, nsvars, Named, Current, Children
<1>2. /\ Answers' = Answers /\ Spaces' = Spaces /\ Children' = Children /\ Packets' = Packets
      /\ Parents' = Parents /\ Users' = Users /\ Mounted(nns)' = Mounted(nns)
  BY <1>1 DEF Answers, Spaces, Children, NoAnswers, Ops, Packets, Parents, Users, Mounted
<1>3. [child[t] EXCEPT !.at = "exit"] \in Children /\ p \in Packets
  BY <1>1, Zenon DEF Children, Packets
<1>4. /\ child' \in [Threads -> Children'] /\ child'[t].st = "alive"
      /\ child'[t].at = "exit" /\ child'[t].val = child[t].val
      /\ child'[t].func = child[t].func /\ child'[t].life = child[t].life
      /\ \A u \in Threads \ {t} : child'[u] = child[u]
  BY <1>1, <1>2, <1>3 DEF Children
<1>5. p.val = child[t].val /\ p.life = parent[t].life
  BY <1>1
<1>6. chan' = chan \/ chan' = [chan EXCEPT ![t] = Append(chan[t], p)]
  BY DEF ChildSend
<1>. HIDE DEF p
<1>7. /\ chan' \in [Threads -> Seq(Packets)]
      /\ \A u \in Threads \ {t} : chan'[u] = chan[u]
      /\ \A i \in DOMAIN chan'[t] : \/ i \in DOMAIN chan[t] /\ chan'[t][i] = chan[t][i]
                                    \/ chan'[t][i] = p
  <2>1. CASE chan' = chan
    BY <1>1, <2>1
  <2>2. CASE chan' = [chan EXCEPT ![t] = Append(chan[t], p)]
    <3>1. chan[t] \in Seq(Packets) /\ Append(chan[t], p) \in Seq(Packets)
      BY <1>1, <1>3
    <3>2. chan' \in [Threads -> Seq(Packets)] /\ chan'[t] = Append(chan[t], p)
          /\ \A u \in Threads \ {t} : chan'[u] = chan[u]
      BY <1>1, <2>2, <3>1
    <3>3. \A i \in DOMAIN Append(chan[t], p) :
             \/ i \in DOMAIN chan[t] /\ Append(chan[t], p)[i] = chan[t][i]
             \/ Append(chan[t], p)[i] = p
      BY <3>1
    <3>. QED
      BY <3>2, <3>3
  <2>. QED
    BY <1>6, <2>1, <2>2
<1>8. Shape'
  BY <1>1, <1>2, <1>4, <1>7 DEF Shape
<1>9. Apart(t)
  BY <1>1, <1>4, <1>7 DEF Apart
<1>10. Tended(t)'
  BY <1>1, <1>2, <1>4 DEF Tended, Settled, UserAt, Op
<1>11. Current(t)'
  <2>1. \A i \in DOMAIN chan[t] : chan[t][i].life = parent[t].life
    BY DEF Current
  <2>2. \A i \in DOMAIN chan'[t] : chan'[t][i].life = parent[t].life
    BY <1>5, <1>7, <2>1
  <2>. QED
    BY <1>1, <1>4, <2>2 DEF Current
<1>12. Named(t)'
  BY <1>1, <1>4 DEF Named, UserAt, Op, Name, Func
<1>13. CallInv'
  BY <1>1, <1>8, <1>9, <1>10, <1>11, <1>12, ApartInv
<1>14. ASSUME "remove" \notin env PROVE True(t)'
  <2>1. True(t) /\ Name(t)' = Name(t)
    BY <1>4, <1>14 DEF NameInv, Name, Func
  <2>2. \A v, n : IsAt(v, n) => (v[1] = "ns" => n \in Names /\ file'[n] = v)
    BY <1>1 DEF IsAt
  <2>3. IsAt(child[t].val, Name(t))
    BY <1>1, <2>1 DEF True
  <2>4. \A i \in DOMAIN chan'[t] : IsAt(chan'[t][i].val, Name(t))
    BY <1>5, <1>7, <2>1, <2>3 DEF True
  <2>. QED
    BY <1>1, <1>4, <2>1, <2>2, <2>3, <2>4 DEF True, IsAt, UserAt, Op
<1>15. ~Opening(t)'
  BY <1>4 DEF Opening, ChildAt
<1>16. "remove" \notin env => \A u \in Threads : Opening(u) => file'[Name(u)] = Plain
  BY <1>1 DEF NameInv, Exclusive
<1>. QED
  BY <1>1, <1>9, <1>13, <1>14, <1>15, <1>16, ApartNames

-----------------------------------------------------------------------------
(* Calls of the thread itself. *)

\* Between two calls, or to the end of one.
LEMMA UserStepInv ==
    ASSUME CallInv, NEW t \in Threads, ~UserAt(t, "child"),
           UNCHANGED <<env, pvars, nns>>,
           user' \in [Threads -> Users], ~UserAt(t, "child")',
           \A u \in Threads \ {t} : user'[u] = user[u],
           Op(t)' = Op(t) \/ (Op(t)'[1] # "socket"),
           user'[t].at \in {"unlink", "list", "setns"} => Op(t)'[2] \in Names,
           file' \in [Names -> Spaces], cur' \in [Threads -> 0..nns],
           saved' \in Seq(0..nns), plan' \in [Threads -> Seq(Calls)]
    PROVE  CallInv' /\ Apart(t)
<1>. Shape /\ Tended(t) /\ Current(t) /\ Named(t)
  BY DEF CallInv
<1>1. /\ nns' = nns /\ parent' = parent /\ child' = child /\ chan' = chan /\ nns \in Nat
  BY DEF pvars, Shape
<1>2. /\ Answers' = Answers /\ Spaces' = Spaces /\ Children' = Children /\ Packets' = Packets
      /\ Parents' = Parents /\ Users' = Users
  BY <1>1 DEF Answers, Spaces, Children, NoAnswers, Ops, Packets, Parents, Users, Mounted
<1>3. Shape'
  BY <1>1, <1>2 DEF Shape
<1>4. Apart(t)
  BY <1>1 DEF Apart
<1>5. Tended(t)'
  BY <1>1, <1>2 DEF Tended, Settled, UserAt, Op
<1>6. Current(t)'
  BY <1>1 DEF Current
<1>7. Named(t)'
  BY <1>1, <1>2 DEF Named, UserAt, Op, Name, Func
<1>8. nns' >= nns
  BY <1>1
<1>. QED
  BY <1>3, <1>4, <1>5, <1>6, <1>7, <1>8, ApartInv

\* A step of a caller that removes no name.
LEMMA UserStepNames ==
    ASSUME CallInv, CallInv', NameInv, NEW t \in Threads, Apart(t), UNCHANGED <<env, pvars>>,
           "remove" \notin env =>
               /\ file' = file /\ ~UserAt(t, "unlink")' /\ ~UserAt(t, "child")'
               /\ UserAt(t, "idle")' => IsAt(user[t].res, Op(t)[2])'
    PROVE  NameInv'
<1> SUFFICES ASSUME "remove" \notin env PROVE NameInv'
  BY DEF NameInv
<1>1. True(t) /\ Exclusive /\ parent' = parent /\ child' = child /\ chan' = chan
  BY DEF NameInv, pvars
<1>2. Name(t)' = Name(t) /\ Opening(t)' = Opening(t)
  BY <1>1 DEF Name, Func, Opening, ChildAt
<1>3. True(t)'
  BY <1>1, <1>2 DEF True, IsAt, UserAt
<1>. QED
  BY <1>1, <1>2, <1>3, ApartNames DEF Exclusive

\* The stack of pushns() and popns().
LEMMA SavedSeq ==
    ASSUME NEW S, NEW s \in Seq(S)
    PROVE  /\ \A e \in S : Append(s, e) \in Seq(S)
           /\ s # <<>> => s[Len(s)] \in S /\ SubSeq(s, 1, Len(s) - 1) \in Seq(S)
           /\ \A i \in DOMAIN s : s[i] \in S
<1>0. \A i \in DOMAIN s : s[i] \in S
  OBVIOUS
<1>1. \A e \in S : Append(s, e) \in Seq(S)
  OBVIOUS
<1>2. ASSUME s # <<>> PROVE s[Len(s)] \in S
  <2>1. Len(s) \in 1..Len(s)
    BY <1>2
  <2>. QED
    BY <2>1
<1>3. ASSUME s # <<>> PROVE SubSeq(s, 1, Len(s) - 1) \in Seq(S)
  <2>1. Len(s) \in Nat /\ Len(s) > 0
    BY <1>3
  <2>2. \A i \in 1..(Len(s) - 1) : s[i] \in S
    BY <2>1
  <2>. QED
    BY <2>1, <2>2
<1>. QED
  BY <1>0, <1>1, <1>2, <1>3

\* What the first step of a call knows of it.
LEMMA BeginOp ==
    ASSUME Shape, NEW t \in Threads, NEW kinds, Begin(t, kinds), NEW op, op = Head(plan[t])
    PROVE  /\ op \in Calls /\ op \in Ops /\ op[1] \in kinds
           /\ plan' \in [Threads -> Seq(Calls)] /\ UserAt(t, "idle")
           /\ op[1] \in {"create", "socket", "remove"} => op[2] \in Names
           /\ op[1] \in {"setns", "push"} => op[2] \in Names \cup {NoName}
<1>1. plan[t] \in Seq(Calls) /\ plan[t] # <<>> /\ op[1] \in kinds
  BY DEF Begin, Shape
<1>2. op \in Calls /\ Tail(plan[t]) \in Seq(Calls)
  BY <1>1
<1>3. plan' \in [Threads -> Seq(Calls)]
  BY <1>2 DEF Begin, Shape
<1>4. /\ op[1] \in {"create", "socket", "remove"} => op[2] \in Names
      /\ op[1] \in {"setns", "push"} => op[2] \in Names \cup {NoName}
  BY <1>2 DEF Calls
<1>. QED
  BY <1>1, <1>2, <1>3, <1>4 DEF Ops, Begin, UserAt

\* remove() unmounts before it unlinks.
LEMMA RemoveUmountInv ==
    ASSUME CallInv, NameInv, NEW t \in Threads, RemoveUmount(t)
    PROVE  CallInv' /\ NameInv'
<1>. Shape /\ Tended(t)
  BY DEF CallInv
<1>. DEFINE op == Head(plan[t])
<1>1. /\ op \in Ops /\ op[1] = "remove" /\ op[2] \in Names /\ UserAt(t, "idle")
      /\ plan' \in [Threads -> Seq(Calls)]
  BY BeginOp DEF RemoveUmount
<1>2. /\ UNCHANGED <<env, pvars, nns, cur, saved>> /\ "remove" \in env
      /\ user' = [user EXCEPT ![t] = [Idle EXCEPT !.op = op, !.at = "unlink"]]
      /\ file' = [file EXCEPT ![op[2]] = IF file[op[2]] = Nothing THEN Nothing ELSE Plain]
  BY Zenon DEF RemoveUmount, Start
<1>. HIDE DEF op
<1>3. [Idle EXCEPT !.op = op, !.at = "unlink"] \in Users
  BY <1>1, Zenon DEF Idle, Users, NoAnswers
<1>4. user'[t].op = op /\ user'[t].at = "unlink"
  BY <1>2 DEF Idle, Shape
<1>5. /\ user' \in [Threads -> Users] /\ \A u \in Threads \ {t} : user'[u] = user[u]
  BY <1>2, <1>3 DEF Shape
<1>6. file' \in [Names -> Spaces]
  BY <1>1, <1>2 DEF Shape, Spaces
<1>7. /\ ~UserAt(t, "child")' /\ ~UserAt(t, "child") /\ Op(t)'[1] # "socket"
      /\ Op(t)'[2] \in Names
  BY <1>1, <1>4 DEF UserAt, Op
<1>8. CallInv' /\ Apart(t)
  BY <1>1, <1>2, <1>5, <1>6, <1>7, UserStepInv, Zenon DEF Shape
<1>9. env' = env
  BY <1>2
<1>. QED
  BY <1>2, <1>8, <1>9 DEF NameInv

\* setns() looks whether the name exists.
LEMMA SetnsBeginInv ==
    ASSUME CallInv, NameInv, NEW t \in Threads, SetnsBegin(t)
    PROVE  CallInv' /\ NameInv'
<1>. Shape /\ Tended(t)
  BY DEF CallInv
<1>. DEFINE op == Head(plan[t])
            u1 == [Idle EXCEPT !.op = op, !.res = <<"ok">>]
            u2 == [Idle EXCEPT !.op = op, !.at = "list"]
<1>1. /\ op \in Ops /\ op[1] \in {"setns", "push"} /\ op[2] \in Names \cup {NoName}
      /\ UserAt(t, "idle") /\ plan' \in [Threads -> Seq(Calls)]
  BY BeginOp DEF SetnsBegin
<1>2. /\ UNCHANGED <<env, pvars, file, nns, cur>>
      /\ saved' = IF op[1] = "push" THEN Append(saved, cur[t]) ELSE saved
      /\ \/ user' = [user EXCEPT ![t] = u1]
         \/ op[2] # NoName /\ user' = [user EXCEPT ![t] = u2]
  BY DEF SetnsBegin, Start
<1>. HIDE DEF op
<1>3. /\ u1 \in Users /\ u2 \in Users
      /\ u1.op = op /\ u1.at = "idle" /\ u1.res = <<"ok">> /\ u2.op = op /\ u2.at = "list"
  BY <1>1, Zenon DEF Idle, Users, NoAnswers
<1>. HIDE DEF u1, u2
<1>4. /\ user' \in [Threads -> Users] /\ \A u \in Threads \ {t} : user'[u] = user[u]
      /\ user'[t].op = op
      /\ \/ user'[t].at = "idle" /\ user'[t].res = <<"ok">>
         \/ user'[t].at = "list" /\ op[2] \in Names
  BY <1>1, <1>2, <1>3, Zenon DEF Shape
<1>5. saved' \in Seq(0..nns)
  <2>1. cur[t] \in 0..nns /\ saved \in Seq(0..nns)
    BY DEF Shape
  <2>2. Append(saved, cur[t]) \in Seq(0..nns)
    BY <2>1, SavedSeq
  <2>. QED
    BY <1>2, <2>1, <2>2, Zenon
<1>6. /\ ~UserAt(t, "child")' /\ ~UserAt(t, "child") /\ Op(t)'[1] # "socket"
      /\ user'[t].at \in {"unlink", "list", "setns"} => Op(t)'[2] \in Names
      /\ ~UserAt(t, "unlink")' /\ (UserAt(t, "idle")' => IsAt(user[t].res, Op(t)[2])')
  BY <1>1, <1>4 DEF UserAt, Op, IsAt
<1>7. CallInv' /\ Apart(t)
  BY <1>1, <1>2, <1>4, <1>5, <1>6, UserStepInv, Zenon DEF Shape
<1>. QED
  BY <1>2, <1>6, <1>7, UserStepNames

\* popns() and dropns().
LEMMA PopInv ==
    ASSUME CallInv, NameInv, NEW t \in Threads, Pop(t)
    PROVE  CallInv' /\ NameInv'
<1>. Shape /\ Tended(t)
  BY DEF CallInv
<1>. DEFINE op == Head(plan[t])
            u1 == [Idle EXCEPT !.op = op, !.res = <<"error">>]
            u2 == [Idle EXCEPT !.op = op, !.res = <<"ok">>]
<1>1. /\ op \in Ops /\ op[1] \in {"pop", "drop"}
      /\ UserAt(t, "idle") /\ plan' \in [Threads -> Seq(Calls)]
  BY BeginOp DEF Pop
<1>2. /\ UNCHANGED <<env, pvars, file, nns>>
      /\ \/ user' = [user EXCEPT ![t] = u1] /\ UNCHANGED <<cur, saved>>
         \/ /\ user' = [user EXCEPT ![t] = u2] /\ saved # <<>>
            /\ saved' = SubSeq(saved, 1, Len(saved) - 1)
            /\ cur' = cur \/ cur' = [cur EXCEPT ![t] = saved[Len(saved)]]
  BY DEF Pop
<1>. HIDE DEF op
<1>3. /\ u1 \in Users /\ u2 \in Users
      /\ u1.op = op /\ u1.at = "idle" /\ u1.res = <<"error">>
      /\ u2.op = op /\ u2.at = "idle" /\ u2.res = <<"ok">>
  BY <1>1, Zenon DEF Idle, Users, NoAnswers
<1>. HIDE DEF u1, u2
<1>4. /\ user' \in [Threads -> Users] /\ \A u \in Threads \ {t} : user'[u] = user[u]
      /\ user'[t].op = op /\ user'[t].at = "idle" /\ user'[t].res \in {<<"ok">>, <<"error">>}
  BY <1>1, <1>2, <1>3, Zenon DEF Shape
<1>5. saved' \in Seq(0..nns) /\ cur' \in [Threads -> 0..nns]
  <2>1. saved \in Seq(0..nns) /\ cur \in [Threads -> 0..nns]
    BY DEF Shape
  <2>2. ASSUME saved # <<>>
        PROVE  saved[Len(saved)] \in 0..nns /\ SubSeq(saved, 1, Len(saved) - 1) \in Seq(0..nns)
    BY <2>1, <2>2, SavedSeq, Zenon
  <2>. QED
    BY <1>2, <2>1, <2>2, Zenon
<1>6. /\ ~UserAt(t, "child")' /\ ~UserAt(t, "child") /\ Op(t)'[1] # "socket"
      /\ user'[t].at \notin {"unlink", "list", "setns"}
      /\ ~UserAt(t, "unlink")' /\ (UserAt(t, "idle")' => IsAt(user[t].res, Op(t)[2])')
  BY <1>1, <1>4 DEF UserAt, Op, IsAt
<1>7. CallInv' /\ Apart(t)
  BY <1>1, <1>2, <1>4, <1>5, <1>6, UserStepInv, Zenon DEF Shape
<1>. QED
  BY <1>2, <1>6, <1>7, UserStepNames

\* The later steps of a call that has no child: it goes on to setns(), or ends.
LEMMA LaterInv ==
    ASSUME CallInv, NameInv, NEW t \in Threads,
           \/ RemoveUnlink(t) \/ SetnsEnter(t)
           \/ SetnsList(t) /\ file[Op(t)[2]] # Nothing
    PROVE  CallInv' /\ NameInv'
<1>. Shape /\ Tended(t) /\ Named(t)
  BY DEF CallInv
<1>. DEFINE n == Op(t)[2]
<1>1. /\ n \in Names /\ user[t].at \in {"unlink", "list", "setns"} /\ file[n] \in Spaces
      /\ UNCHANGED <<env, pvars, nns, saved, plan>>
      /\ user[t] \in Users /\ user \in [Threads -> Users] /\ file \in [Names -> Spaces]
      /\ cur \in [Threads -> 0..nns] /\ nns \in Nat
  BY Zenon DEF RemoveUnlink, SetnsEnter, SetnsList, UserAt, Named, Shape
<1>2. \E at \in {"idle", "setns"}, r \in Answers \cup NoAnswers :
         /\ user' = [user EXCEPT ![t] = [user[t] EXCEPT !.at = at, !.res = r]]
         /\ at = "idle" /\ r[1] = "ns" => file[n] = r
  <2>1. CASE RemoveUnlink(t)
    <3>1. \/ user' = [user EXCEPT ![t] = [user[t] EXCEPT !.at = "idle", !.res = <<"ok">>]]
          \/ user' = [user EXCEPT ![t] = [user[t] EXCEPT !.at = "idle", !.res = <<"error">>]]
      BY <2>1, Zenon DEF RemoveUnlink, Finish, Raise
    <3>2. <<"ok">> \in NoAnswers /\ <<"error">> \in NoAnswers
          /\ <<"ok">>[1] # "ns" /\ <<"error">>[1] # "ns"
      BY Zenon DEF NoAnswers
    <3>3. CASE user' = [user EXCEPT ![t] = [user[t] EXCEPT !.at = "idle", !.res = <<"ok">>]]
      BY <3>2, <3>3, Zenon
    <3>4. CASE user' = [user EXCEPT ![t] = [user[t] EXCEPT !.at = "idle", !.res = <<"error">>]]
      BY <3>2, <3>4, Zenon
    <3>. QED
      BY <3>1, <3>3, <3>4, Zenon
  <2>2. CASE SetnsEnter(t) /\ Raise(t)
    <3>1. user' = [user EXCEPT ![t] = [user[t] EXCEPT !.at = "idle", !.res = <<"error">>]]
      BY <2>2, Zenon DEF Finish, Raise
    <3>2. <<"error">> \in NoAnswers /\ <<"error">>[1] # "ns"
      BY Zenon DEF NoAnswers
    <3>. QED
      BY <3>1, <3>2, Zenon
  <2>3. CASE Finish(t, file[n]) /\ file[n] \notin {Nothing, Plain}
    <3>1. user' = [user EXCEPT ![t] = [user[t] EXCEPT !.at = "idle", !.res = file[n]]]
      BY <2>3, Zenon DEF Finish
    <3>2. file[n] \in Answers
      BY <1>1, <2>3 DEF Spaces, Answers
    <3>. QED
      BY <3>1, <3>2, Zenon
  <2>4. CASE SetnsList(t) /\ file[n] # Nothing
    <3>1. user' = [user EXCEPT ![t] = [user[t] EXCEPT !.at = "setns"]]
      BY <2>4 DEF SetnsList, Goto
    <3>2. /\ [user[t] EXCEPT !.at = "setns"] = [user[t] EXCEPT !.at = "setns", !.res = user[t].res]
          /\ user[t].res \in Answers \cup NoAnswers
      BY <1>1, Zenon DEF Users
    <3>. QED
      BY <3>1, <3>2, Zenon
  <2>5. SetnsEnter(t) => Raise(t) \/ (Finish(t, file[n]) /\ file[n] \notin {Nothing, Plain})
    BY Zenon DEF SetnsEnter
  <2>. QED
    BY <2>1, <2>2, <2>3, <2>4, <2>5, Zenon
<1>3. /\ \/ file' = file
         \/ /\ file[n] = Plain /\ file' = [file EXCEPT ![n] = Nothing]
            /\ UserAt(t, "unlink")
      /\ \/ cur' = cur
         \/ /\ file[n] \notin {Nothing, Plain} /\ cur' = [cur EXCEPT ![t] = file[n][2]]
  BY DEF RemoveUnlink, SetnsEnter, SetnsList
<1>4. file' \in [Names -> Spaces]
  BY <1>1, <1>3 DEF Spaces
<1>5. cur' \in [Threads -> 0..nns]
  <2>1. ASSUME file[n] \notin {Nothing, Plain} PROVE file[n][2] \in 0..nns
    BY <1>1, <2>1 DEF Spaces, Mounted
  <2>. QED
    BY <1>1, <1>3, <2>1
<1>6. PICK at \in {"idle", "setns"}, r \in Answers \cup NoAnswers :
         /\ user' = [user EXCEPT ![t] = [user[t] EXCEPT !.at = at, !.res = r]]
         /\ at = "idle" /\ r[1] = "ns" => file[n] = r
  BY <1>2, Zenon
<1>. HIDE DEF n
<1>7. [user[t] EXCEPT !.at = at, !.res = r] \in Users
  BY <1>1, Zenon DEF Users
<1>8. /\ user' \in [Threads -> Users] /\ \A u \in Threads \ {t} : user'[u] = user[u]
      /\ user'[t].op = user[t].op /\ user'[t].at = at /\ user'[t].res = r
  BY <1>1, <1>6, <1>7 DEF Users
<1>9. /\ Op(t)' = Op(t) /\ ~UserAt(t, "child") /\ ~UserAt(t, "child")' /\ ~UserAt(t, "unlink")'
      /\ Op(t)'[2] = n
  BY <1>1, <1>8 DEF UserAt, Op, n
<1>10. plan' \in [Threads -> Seq(Calls)] /\ saved' \in Seq(0..nns)
  BY <1>1 DEF Shape
<1>11. CallInv' /\ Apart(t)
  BY <1>1, <1>4, <1>5, <1>8, <1>9, <1>10, UserStepInv, Zenon
<1>12. "remove" \notin env => file' = file
  BY <1>3, Zenon DEF NameInv, True
<1>13. ASSUME "remove" \notin env PROVE UserAt(t, "idle")' => IsAt(user[t].res, Op(t)[2])'
  BY <1>1, <1>6, <1>8, <1>9, <1>12, <1>13 DEF UserAt, IsAt
<1>. QED
  BY <1>1, <1>9, <1>11, <1>12, <1>13, UserStepNames

-----------------------------------------------------------------------------
(* Calls that use a child. *)

\* run(): new sockets and a new child, whatever has become of the last one.
LEMMA RunInv ==
    ASSUME CallInv, NameInv, NEW t \in Threads, NEW f \in Ops, f[2] \in Names, Run(t, f),
           UNCHANGED <<env, file, nns, cur, saved>>, plan' \in [Threads -> Seq(Calls)],
           user' \in [Threads -> Users], UserAt(t, "child")', Op(t)'[2] = f[2],
           \A u \in Threads \ {t} : user'[u] = user[u]
    PROVE  CallInv' /\ NameInv'
<1>. Shape
  BY DEF CallInv
<1>. DEFINE p == [NoParent EXCEPT !.pc = "poll", !.running = TRUE, !.life = parent[t].life + 1]
            c == [NoChild EXCEPT !.st = "alive", !.at = "start", !.dfl = "handler" \notin env,
                                 !.func = f, !.life = parent[t].life + 1]
<1>1. /\ parent' = [parent EXCEPT ![t] = p] /\ child' = [child EXCEPT ![t] = c]
      /\ chan' = [chan EXCEPT ![t] = <<>>] /\ nns' = nns /\ nns \in Nat
      /\ parent[t] \in Parents
  BY DEF Run, Shape
<1>2. parent[t].life + 1 \in Nat
  BY <1>1 DEF Parents
<1>3. p \in Parents /\ p.pc = "poll" /\ p.running = TRUE /\ p.life = parent[t].life + 1
      /\ p.res = <<"none">>
  BY <1>2, Zenon DEF NoParent, Parents, NoAnswers
<1>4. c \in Children /\ c.st = "alive" /\ c.at = "start" /\ c.life = parent[t].life + 1
      /\ c.func = f
  BY <1>2, Zenon DEF NoChild, Children, NoAnswers
<1>. HIDE DEF p, c
<1>5. /\ Answers' = Answers /\ Spaces' = Spaces /\ Children' = Children /\ Packets' = Packets
      /\ Parents' = Parents /\ Users' = Users
  BY <1>1 DEF Answers, Spaces, Children, NoAnswers, Ops, Packets, Parents, Users, Mounted
<1>6. /\ parent' \in [Threads -> Parents] /\ child' \in [Threads -> Children]
      /\ chan' \in [Threads -> Seq(Packets)]
      /\ parent'[t] = p /\ child'[t] = c /\ chan'[t] = <<>>
      /\ \A u \in Threads \ {t} : /\ parent'[u] = parent[u] /\ child'[u] = child[u]
                                  /\ chan'[u] = chan[u]
  <2>1. <<>> \in Seq(Packets)
    OBVIOUS
  <2>. QED
    BY <1>1, <1>3, <1>4, <2>1 DEF Shape
<1>7. Shape'
  BY <1>1, <1>5, <1>6 DEF Shape
<1>8. Apart(t)
  BY <1>6 DEF Apart
<1>9. Tended(t)'
  BY <1>3, <1>4, <1>6 DEF Tended, UserAt
<1>10. Current(t)'
  <2>1. DOMAIN chan'[t] = {} /\ child'[t].life = parent'[t].life
    BY <1>3, <1>4, <1>6, EmptyDomain, Zenon
  <2>. QED
    BY <2>1, Zenon DEF Current
<1>11. Named(t)'
  BY <1>4, <1>6 DEF Named, UserAt, Op, Name, Func
<1>12. nns' >= nns
  BY <1>1, SameIsAtLeast, Zenon
<1>13. CallInv'
  BY <1>7, <1>8, <1>9, <1>10, <1>11, <1>12, ApartInv, Zenon
<1>14. True(t)' /\ ~Opening(t)'
  <2>1. /\ DOMAIN chan'[t] = {} /\ child'[t].at = "start" /\ parent'[t].res[1] # "ns"
        /\ user'[t].at = "child"
    BY <1>3, <1>4, <1>6, EmptyDomain, NotSpaces, Zenon DEF UserAt
  <2>2. ~Opening(t)'
    BY <2>1 DEF Opening, ChildAt
  <2>3. True(t)'
    BY <2>1 DEF True, IsAt, UserAt
  <2>. QED
    BY <2>2, <2>3
<1>15. "remove" \notin env => \A u \in Threads : Opening(u) => file'[Name(u)] = Plain
  BY DEF NameInv, Exclusive
<1>. QED
  BY <1>8, <1>13, <1>14, <1>15, ApartNames, Zenon

\* create() runs a child.
LEMMA CreateInv ==
    ASSUME CallInv, NameInv, NEW t \in Threads, Create(t)
    PROVE  CallInv' /\ NameInv'
<1>. Shape
  BY DEF CallInv
<1>. DEFINE op == Head(plan[t])
            u1 == [Idle EXCEPT !.op = op, !.at = "child"]
<1>1. op \in Ops /\ op[2] \in Names /\ plan' \in [Threads -> Seq(Calls)]
  BY BeginOp DEF Create
<1>2. /\ Run(t, op) /\ UNCHANGED <<env, file, nns, cur, saved>>
      /\ user' = [user EXCEPT ![t] = u1]
  BY DEF Create, Start
<1>. HIDE DEF op
<1>3. u1 \in Users /\ u1.op = op /\ u1.at = "child"
  BY <1>1, Zenon DEF Idle, Users, NoAnswers
<1>. HIDE DEF u1
<1>4. /\ user' \in [Threads -> Users] /\ \A u \in Threads \ {t} : user'[u] = user[u]
      /\ user'[t].op = op /\ user'[t].at = "child"
  BY <1>2, <1>3 DEF Shape
<1>5. UserAt(t, "child")' /\ Op(t)'[2] = op[2]
  BY <1>4 DEF UserAt, Op
<1>. QED
  BY <1>1, <1>2, <1>4, <1>5, RunInv, Zenon

\* setns() that finds no name creates it.
LEMMA SetnsCreatesInv ==
    ASSUME CallInv, NameInv, NEW t \in Threads, SetnsList(t), file[Op(t)[2]] = Nothing
    PROVE  CallInv' /\ NameInv'
<1>. Shape /\ Named(t)
  BY DEF CallInv
<1>. DEFINE f == <<"create", Op(t)[2]>>
            u1 == [user[t] EXCEPT !.at = "child"]
<1>1. Op(t)[2] \in Names /\ user[t] \in Users /\ plan \in [Threads -> Seq(Calls)]
  BY Zenon DEF SetnsList, UserAt, Named, Shape
<1>2. /\ Run(t, f) /\ UNCHANGED <<env, file, nns, cur, saved, plan>>
      /\ user' = [user EXCEPT ![t] = u1]
  BY DEF SetnsList, Goto
<1>3. f \in Ops /\ f[2] = Op(t)[2]
  BY <1>1 DEF Ops, Calls
<1>4. u1 \in Users /\ u1.op = user[t].op /\ u1.at = "child"
  BY <1>1, Zenon DEF Users
<1>. HIDE DEF f, u1
<1>5. /\ user' \in [Threads -> Users] /\ \A u \in Threads \ {t} : user'[u] = user[u]
      /\ user'[t].op = user[t].op /\ user'[t].at = "child"
  BY <1>2, <1>4 DEF Shape
<1>6. UserAt(t, "child")' /\ Op(t)'[2] = f[2]
  BY <1>3, <1>5 DEF UserAt, Op
<1>. QED
  BY <1>1, <1>2, <1>3, <1>5, <1>6, RunInv

\* create_socket() runs another child.
LEMMA RetryInv ==
    ASSUME CallInv, NameInv, NEW t \in Threads, UserAt(t, "child"),
           user' = [user EXCEPT ![t] = [user[t] EXCEPT !.tries = user[t].tries + 1]],
           Run(t, Op(t)), UNCHANGED <<env, file, nns, cur, saved, plan>>
    PROVE  CallInv' /\ NameInv'
<1>. Shape /\ Named(t)
  BY DEF CallInv
<1>. DEFINE u1 == [user[t] EXCEPT !.tries = user[t].tries + 1]
<1>1. Op(t)[2] \in Names /\ user[t] \in Users /\ plan \in [Threads -> Seq(Calls)]
  BY DEF UserAt, Named, Shape
<1>2. u1 \in Users /\ u1.op = user[t].op /\ u1.at = user[t].at
  <2>1. user[t].tries + 1 \in Nat
    BY <1>1 DEF Users
  <2>. QED
    BY <1>1, <2>1, Zenon DEF Users
<1>3. user' = [user EXCEPT ![t] = u1]
  OBVIOUS
<1>. HIDE DEF u1
<1>4. /\ user' \in [Threads -> Users] /\ \A u \in Threads \ {t} : user'[u] = user[u]
      /\ user'[t].op = user[t].op /\ user'[t].at = user[t].at
  BY <1>2, <1>3, Zenon DEF Shape
<1>5. UserAt(t, "child")' /\ Op(t)' = Op(t) /\ Op(t) \in Ops
  BY <1>1, <1>4 DEF UserAt, Op, Users
<1>. QED
  BY <1>1, <1>4, <1>5, RunInv, Zenon

\* A step of the object: the child goes no further, nothing is sent.
LEMMA ParentStepInv ==
    ASSUME CallInv, NameInv, NEW t \in Threads, UserAt(t, "child"), UNCHANGED <<env, nsvars>>,
           parent' \in [Threads -> Parents], child' \in [Threads -> Children],
           chan' \in [Threads -> Seq(Packets)],
           \A u \in Threads \ {t} : /\ parent'[u] = parent[u] /\ child'[u] = child[u]
                                    /\ chan'[u] = chan[u],
           parent'[t].life = parent[t].life, child'[t].life = child[t].life,
           child'[t].func = child[t].func, child'[t].at = child[t].at,
           child'[t].val = child[t].val,
           child'[t].st # "none", child'[t].st = "alive" => child[t].st = "alive",
           \A i \in DOMAIN chan'[t] : \E j \in DOMAIN chan[t] : chan'[t][i] = chan[t][j],
           \/ parent'[t].res = parent[t].res \/ parent'[t].res[1] # "ns"
           \/ \E j \in DOMAIN chan[t] : parent'[t].res = chan[t][j].val,
           Tended(t)'
    PROVE  CallInv' /\ NameInv'
<1>. Shape /\ Current(t) /\ Named(t)
  BY Zenon DEF CallInv
<1>1. /\ nns' = nns /\ nns \in Nat /\ file' = file /\ user' = user /\ cur' = cur
      /\ saved' = saved /\ plan' = plan
  BY Zenon DEF nsvars, Shape
<1>2. /\ Answers' = Answers /\ Spaces' = Spaces /\ Children' = Children /\ Packets' = Packets
      /\ Parents' = Parents /\ Users' = Users
  BY <1>1, Zenon DEF Answers, Spaces, Children, NoAnswers, Ops, Packets, Parents, Users, Mounted
<1>3. Shape' /\ nns' >= nns
  <2>1. nns' >= nns
    BY <1>1, SameIsAtLeast, Zenon
  <2>2. Shape'
    BY <1>1, <1>2, Zenon DEF Shape
  <2>. QED
    BY <2>1, <2>2, Zenon
<1>4. Apart(t)
  BY <1>1 DEF Apart
<1>5. Current(t)'
  BY DEF Current
<1>6. Name(t)' = Name(t) /\ Op(t)' = Op(t) /\ Name(t) = Op(t)[2]
  BY <1>1 DEF Name, Func, Op, Named
<1>7. Named(t)'
  BY <1>1, <1>2, <1>6, Zenon DEF Named, UserAt
<1>8. CallInv'
  BY <1>3, <1>4, <1>5, <1>7, ApartInv, Zenon
<1>9. Opening(t)' => Opening(t)
  BY DEF Opening, ChildAt
<1>10. ASSUME "remove" \notin env PROVE True(t)'
  <2>1. True(t) /\ \A v, n : IsAt(v, n)' <=> IsAt(v, n)
    BY <1>1, <1>10, Zenon DEF NameInv, IsAt
  <2>2. \A i \in DOMAIN chan'[t] : IsAt(chan'[t][i].val, Name(t))
    <3>1. TAKE i \in DOMAIN chan'[t]
    <3>2. PICK j \in DOMAIN chan[t] : chan'[t][i] = chan[t][j]
      OBVIOUS
    <3>3. IsAt(chan[t][j].val, Name(t))
      BY <2>1, Zenon DEF True
    <3>. QED
      BY <3>2, <3>3, Zenon
  <2>3. IsAt(parent'[t].res, Op(t)[2])
    <3>1. CASE parent'[t].res = parent[t].res
      BY <2>1, <3>1, Zenon DEF True
    <3>2. CASE parent'[t].res[1] # "ns"
      BY <3>2, Zenon DEF IsAt
    <3>3. ASSUME NEW j \in DOMAIN chan[t], parent'[t].res = chan[t][j].val
          PROVE  IsAt(parent'[t].res, Op(t)[2])
      <4>1. IsAt(chan[t][j].val, Name(t))
        BY <2>1, Zenon DEF True
      <4>. QED
        BY <1>6, <3>3, <4>1, Zenon
    <3>. QED
      BY <3>1, <3>2, <3>3, Zenon
  <2>4. child'[t].at \in {"send", "exit"} => IsAt(child'[t].val, Name(t))
    BY <2>1, Zenon DEF True
  <2>. QED
    BY <1>1, <1>6, <2>1, <2>2, <2>3, <2>4, Zenon DEF True, UserAt, IsAt
<1>11. "remove" \notin env => Exclusive
  BY DEF NameInv
<1>. QED
  BY <1>1, <1>4, <1>6, <1>8, <1>9, <1>10, <1>11, ApartNames, Zenon DEF Exclusive

\* stop() waits for the child.
LEMMA StopInv ==
    ASSUME CallInv, NameInv, NEW t \in Threads, NEW sig \in {"KILL", "TERM"},
           NEW r \in Answers \cup NoAnswers, UserAt(t, "child"), Stop(t, sig, r),
           UNCHANGED <<env, nsvars>>, child[t].st # "none",
           r = parent[t].res \/ (r[1] # "ns")
    PROVE  CallInv' /\ NameInv'
<1>. Shape
  BY DEF CallInv
<1>. DEFINE p == [parent[t] EXCEPT !.running = FALSE, !.res = r,
                      !.pc = IF child[t].st = "gone" THEN "stopped" ELSE "reap"]
            c == [child[t] EXCEPT !.st = "zombie", !.status = sig]
<1>1. /\ parent' = [parent EXCEPT ![t] = p] /\ chan' = chan
      /\ child' = child \/ (child[t].st = "alive" /\ child' = [child EXCEPT ![t] = c])
  BY Zenon DEF Stop, Signal
<1>2. /\ parent[t] \in Parents /\ child[t] \in Children
      /\ parent \in [Threads -> Parents] /\ child \in [Threads -> Children]
      /\ chan \in [Threads -> Seq(Packets)]
  BY Zenon DEF Shape
<1>3. /\ p \in Parents /\ p.running = FALSE /\ p.res = r /\ p.life = parent[t].life
      /\ p.pc = IF child[t].st = "gone" THEN "stopped" ELSE "reap"
  <2>1. p \in Parents
    BY <1>2, Zenon DEF Parents
  <2>2. /\ p.running = FALSE /\ p.res = r /\ p.life = parent[t].life
        /\ p.pc = IF child[t].st = "gone" THEN "stopped" ELSE "reap"
    BY <1>2 DEF Parents
  <2>. QED
    BY <2>1, <2>2
<1>4. /\ c \in Children /\ c.st = "zombie" /\ c.at = child[t].at /\ c.val = child[t].val
      /\ c.func = child[t].func /\ c.life = child[t].life
  BY <1>2, Zenon DEF Children
<1>. HIDE DEF p, c
<1>5. /\ parent' \in [Threads -> Parents] /\ parent'[t] = p
      /\ \A u \in Threads \ {t} : parent'[u] = parent[u]
  BY <1>1, <1>2, <1>3
<1>6. /\ child' \in [Threads -> Children] /\ \A u \in Threads \ {t} : child'[u] = child[u]
      /\ child'[t].life = child[t].life /\ child'[t].func = child[t].func
      /\ child'[t].at = child[t].at /\ child'[t].val = child[t].val
      /\ child'[t].st = child[t].st \/ (child[t].st = "alive" /\ child'[t].st = "zombie")
  <2>1. CASE child' = child
    BY <1>2, <2>1
  <2>2. CASE child[t].st = "alive" /\ child' = [child EXCEPT ![t] = c]
    BY <1>2, <1>4, <2>2
  <2>. QED
    BY <1>1, <2>1, <2>2
<1>7. child[t].st \in {"alive", "zombie", "gone"} /\ user' = user
  BY <1>2 DEF Children, nsvars
<1>8. Tended(t)'
  BY <1>3, <1>5, <1>6, <1>7 DEF Tended, UserAt
<1>. QED
  BY <1>1, <1>2, <1>3, <1>5, <1>6, <1>7, <1>8, ParentStepInv, Zenon

\* communicate() goes on, and waitpid().
LEMMA ParentInv ==
    ASSUME CallInv, NameInv, NEW t \in Threads, UNCHANGED <<env, nsvars>>,
           Receive(t) \/ PollExpires(t) \/ ChildIsDead(t) \/ Reap(t)
    PROVE  CallInv' /\ NameInv'
<1>. Shape /\ Tended(t) /\ Named(t)
  BY DEF CallInv
<1>1. /\ parent[t] \in Parents /\ child[t] \in Children /\ user' = user
      /\ parent \in [Threads -> Parents] /\ child \in [Threads -> Children]
      /\ chan \in [Threads -> Seq(Packets)]
  BY DEF Shape, nsvars
<1>2. UserAt(t, "child") /\ child[t].st # "none"
  BY DEF Receive, PollExpires, ChildIsDead, Reap, Tended
<1>. DEFINE q == [parent[t] EXCEPT !.pc = "communicated", !.res = Head(chan[t]).val]
            w == [parent[t] EXCEPT !.pc = "waitpid"]
            d == [parent[t] EXCEPT !.pc = "communicated", !.res = <<"RuntimeError">>,
                                   !.exitcode = child[t].status]
            s == [parent[t] EXCEPT !.pc = "stopped", !.exitcode = child[t].status]
            g == [child[t] EXCEPT !.st = "gone"]
<1>3. /\ g \in Children /\ g.st = "gone" /\ g.at = child[t].at /\ g.val = child[t].val
      /\ g.func = child[t].func /\ g.life = child[t].life /\ child[t].status \in {"none", "0", "KILL", "TERM"}
  BY <1>1, Zenon DEF Children
<1>4. CASE Receive(t)
  <2>1. /\ parent' = [parent EXCEPT ![t] = q] /\ child' = child
        /\ chan' = [chan EXCEPT ![t] = Tail(chan[t])] /\ parent[t].pc = "poll"
        /\ chan[t] # <<>> /\ chan[t] \in Seq(Packets)
    BY <1>1, <1>4, Zenon DEF Receive
  <2>2. /\ Head(chan[t]) = chan[t][1] /\ 1 \in DOMAIN chan[t] /\ Head(chan[t]) \in Packets
        /\ Tail(chan[t]) \in Seq(Packets)
        /\ \A i \in DOMAIN Tail(chan[t]) : \E j \in DOMAIN chan[t] : Tail(chan[t])[i] = chan[t][j]
    <3>1. /\ Head(chan[t]) = chan[t][1] /\ 1 \in DOMAIN chan[t] /\ Head(chan[t]) \in Packets
          /\ Tail(chan[t]) \in Seq(Packets)
      BY <2>1
    <3>2. \A i \in DOMAIN Tail(chan[t]) : i + 1 \in DOMAIN chan[t] /\ Tail(chan[t])[i] = chan[t][i + 1]
      BY <2>1
    <3>. QED
      BY <3>1, <3>2
  <2>3. Head(chan[t]).val \in Answers
    BY <2>2 DEF Packets
  <2>4. /\ q \in Parents /\ q.pc = "communicated" /\ q.res = Head(chan[t]).val
        /\ q.life = parent[t].life /\ q.running = parent[t].running
    BY <1>1, <2>3, Zenon DEF Parents
  <2>. HIDE DEF q
  <2>5. /\ parent' \in [Threads -> Parents] /\ chan' \in [Threads -> Seq(Packets)]
        /\ parent'[t] = q /\ chan'[t] = Tail(chan[t])
        /\ \A u \in Threads \ {t} : parent'[u] = parent[u] /\ chan'[u] = chan[u]
    BY <1>1, <2>1, <2>2, <2>4
  <2>6. Answers' = Answers
    BY DEF nsvars, Answers
  <2>7. Tended(t)'
    BY <1>1, <1>2, <2>1, <2>3, <2>4, <2>5, <2>6, Zenon DEF Tended, UserAt
  <2>8. \E j \in DOMAIN chan[t] : parent'[t].res = chan[t][j].val
    BY <2>2, <2>4, <2>5, Zenon
  <2>9. \A i \in DOMAIN chan'[t] : \E j \in DOMAIN chan[t] : chan'[t][i] = chan[t][j]
    BY <2>2, <2>5, Zenon
  <2>10. /\ child' \in [Threads -> Children] /\ child'[t].st # "none"
         /\ child'[t] = child[t] /\ \A u \in Threads \ {t} : child'[u] = child[u]
         /\ parent'[t].life = parent[t].life
    BY <1>1, <1>2, <2>1, <2>4, <2>5
  <2>. QED
    BY <1>2, <2>5, <2>7, <2>8, <2>9, <2>10, ParentStepInv, Zenon
<1>5. CASE PollExpires(t)
  <2>1. parent' = [parent EXCEPT ![t] = w] /\ child' = child /\ chan' = chan /\ parent[t].pc = "poll"
    BY <1>5 DEF PollExpires
  <2>2. /\ w \in Parents /\ w.pc = "waitpid" /\ w.res = parent[t].res
        /\ w.life = parent[t].life /\ w.running = parent[t].running
    BY <1>1, Zenon DEF Parents
  <2>. HIDE DEF w
  <2>3. /\ parent' \in [Threads -> Parents] /\ parent'[t] = w
        /\ \A u \in Threads \ {t} : parent'[u] = parent[u]
    BY <1>1, <2>1, <2>2
  <2>4. Tended(t)'
    BY <1>1, <1>2, <2>1, <2>2, <2>3, Zenon DEF Tended, UserAt
  <2>. QED
    BY <1>1, <1>2, <2>1, <2>2, <2>3, <2>4, ParentStepInv, Zenon
<1>6. CASE ChildIsDead(t)
  <2>1. /\ parent' = [parent EXCEPT ![t] = d] /\ child' = [child EXCEPT ![t] = g]
        /\ chan' = chan /\ parent[t].pc = "waitpid"
    BY <1>6, Zenon DEF ChildIsDead
  <2>2. /\ d \in Parents /\ d.pc = "communicated" /\ d.res = <<"RuntimeError">>
        /\ d.life = parent[t].life /\ d.running = parent[t].running
    BY <1>1, <1>3, Zenon DEF Parents, NoAnswers
  <2>. HIDE DEF d, g
  <2>3. /\ parent' \in [Threads -> Parents] /\ parent'[t] = d
        /\ child' \in [Threads -> Children] /\ child'[t] = g
        /\ \A u \in Threads \ {t} : parent'[u] = parent[u] /\ child'[u] = child[u]
    BY <1>1, <1>3, <2>1, <2>2, Zenon
  <2>4. Tended(t)'
    BY <1>1, <1>2, <1>3, <2>1, <2>2, <2>3, Zenon DEF Tended, UserAt
  <2>5. parent'[t].res[1] # "ns"
    BY <2>2, <2>3
  <2>. QED
    BY <1>1, <1>2, <1>3, <2>1, <2>2, <2>3, <2>4, <2>5, ParentStepInv, Zenon
<1>7. CASE Reap(t)
  <2>1. /\ parent' = [parent EXCEPT ![t] = s] /\ child' = [child EXCEPT ![t] = g]
        /\ chan' = chan /\ parent[t].pc = "reap"
    BY <1>7, Zenon DEF Reap
  <2>2. /\ s \in Parents /\ s.pc = "stopped" /\ s.res = parent[t].res
        /\ s.life = parent[t].life /\ s.running = parent[t].running
    BY <1>1, <1>3, Zenon DEF Parents
  <2>. HIDE DEF s, g
  <2>3. /\ parent' \in [Threads -> Parents] /\ parent'[t] = s
        /\ child' \in [Threads -> Children] /\ child'[t] = g
        /\ \A u \in Threads \ {t} : parent'[u] = parent[u] /\ child'[u] = child[u]
    BY <1>1, <1>3, <2>1, <2>2
  <2>4. Tended(t)'
    BY <1>1, <1>2, <1>3, <2>1, <2>2, <2>3, Zenon DEF Tended, UserAt
  <2>. QED
    BY <1>1, <1>2, <1>3, <2>1, <2>2, <2>3, <2>4, ParentStepInv, Zenon
<1>. QED
  BY <1>4, <1>5, <1>6, <1>7

\* The call ends, or setns() goes on.
LEMMA EndInv ==
    ASSUME CallInv, NameInv, NEW t \in Threads, UserAt(t, "child"),
           NEW at \in {"idle", "setns"}, NEW r \in Answers \cup NoAnswers,
           parent' = [parent EXCEPT ![t] = [parent[t] EXCEPT !.pc = "idle"]],
           user' = [user EXCEPT ![t] = [user[t] EXCEPT !.at = at, !.res = r]],
           UNCHANGED <<child, chan, env, file, nns, cur, saved, plan>>, Settled(t),
           at = "idle" /\ r[1] = "ns" => r = parent[t].res
    PROVE  CallInv' /\ NameInv'
<1>. Shape /\ Tended(t) /\ Current(t) /\ Named(t)
  BY DEF CallInv
<1>. DEFINE p == [parent[t] EXCEPT !.pc = "idle"]
            u1 == [user[t] EXCEPT !.at = at, !.res = r]
<1>1. /\ parent' = [parent EXCEPT ![t] = p] /\ user' = [user EXCEPT ![t] = u1]
      /\ parent[t] \in Parents /\ user[t] \in Users /\ nns \in Nat
  BY DEF Shape
<1>2. /\ p \in Parents /\ p.pc = "idle" /\ p.running = parent[t].running
      /\ p.res = parent[t].res /\ p.life = parent[t].life
  BY <1>1 DEF Parents
<1>3. u1 \in Users /\ u1.op = user[t].op /\ u1.at = at /\ u1.res = r
  BY <1>1, Zenon DEF Users
<1>. HIDE DEF p, u1
<1>4. /\ parent' \in [Threads -> Parents] /\ user' \in [Threads -> Users]
      /\ parent'[t] = p /\ user'[t] = u1 /\ Apart(t)
  <2>1. /\ parent' \in [Threads -> Parents] /\ parent'[t] = p
        /\ \A u \in Threads \ {t} : parent'[u] = parent[u]
    BY <1>1, <1>2, Zenon DEF Shape
  <2>2. /\ user' \in [Threads -> Users] /\ user'[t] = u1
        /\ \A u \in Threads \ {t} : user'[u] = user[u]
    BY <1>1, <1>3 DEF Shape
  <2>. QED
    BY <2>1, <2>2 DEF Apart
<1>5. /\ Answers' = Answers /\ Spaces' = Spaces /\ Children' = Children /\ Packets' = Packets
      /\ Parents' = Parents /\ Users' = Users
  BY <1>1 DEF Answers, Spaces, Children, NoAnswers, Ops, Packets, Parents, Users, Mounted
<1>6. Shape' /\ nns' >= nns
  BY <1>1, <1>4, <1>5 DEF Shape
<1>7. Op(t)' = Op(t) /\ Name(t)' = Name(t) /\ Op(t)[2] \in Names
  BY <1>3, <1>4 DEF Op, Name, Func, Named, UserAt
<1>8. Settled(t)'
  BY <1>2, <1>4, <1>7 DEF Settled
<1>9. Tended(t)'
  BY <1>2, <1>3, <1>4, <1>8 DEF Tended, UserAt
<1>10. Current(t)'
  BY <1>2, <1>4 DEF Current
<1>11. Named(t)'
  BY <1>3, <1>4, <1>5, <1>7 DEF Named, UserAt
<1>12. CallInv'
  BY <1>4, <1>6, <1>9, <1>10, <1>11, ApartInv
<1>13. Opening(t)' = Opening(t)
  BY DEF Opening, ChildAt
<1>14. ASSUME "remove" \notin env PROVE True(t)'
  <2>1. True(t) /\ \A v, n : IsAt(v, n)' <=> IsAt(v, n)
    BY <1>14 DEF NameInv, IsAt
  <2>2. IsAt(parent[t].res, Op(t)[2])
    BY <2>1 DEF True
  <2>3. at = "idle" => IsAt(r, Op(t)[2])
    BY <2>2 DEF IsAt
  <2>. QED
    BY <1>3, <1>4, <1>7, <2>1, <2>3 DEF True, UserAt, IsAt
<1>15. "remove" \notin env => Exclusive
  BY DEF NameInv
<1>. QED
  BY <1>4, <1>7, <1>12, <1>13, <1>14, <1>15, ApartNames DEF Exclusive

\* create() returns what its child sent.
LEMMA CreateReturnsInv ==
    ASSUME CallInv, NameInv, NEW t \in Threads, CreateReturns(t)
    PROVE  CallInv' /\ NameInv'
<1>. Shape /\ Tended(t) /\ Named(t)
  BY DEF CallInv
<1>1. /\ UserAt(t, "child") /\ parent[t].pc = "communicated" /\ parent[t].running
      /\ child[t].st # "none" /\ Op(t)[1] # "socket"
      /\ UNCHANGED <<env, file, nns, cur, saved, plan>>
      /\ parent[t].res \in Answers \cup NoAnswers
  BY DEF CreateReturns, Tended, Shape, Parents
<1>2. CASE Answer(t)[1] = "ns"
  <2>1. Stop(t, "KILL", parent[t].res) /\ UNCHANGED <<env, nsvars>>
    BY <1>1, <1>2 DEF CreateReturns, Answer, nsvars
  <2>. QED
    BY <1>1, <2>1, StopInv, Zenon
<1>3. CASE Answer(t)[1] # "ns"
  <2>1. /\ user' = [user EXCEPT ![t] = [user[t] EXCEPT !.at = "idle", !.res = <<"error">>]]
        /\ parent' = [parent EXCEPT ![t] = [parent[t] EXCEPT !.pc = "idle"]]
        /\ UNCHANGED <<child, chan>>
    BY <1>3, Zenon DEF CreateReturns, Raise, Finish
  <2>2. parent[t].res = <<"exception">>
        \/ (parent[t].res = <<"RuntimeError">> /\ child[t].st = "gone")
    <3>1. parent[t].res \in Answers
          \/ (parent[t].res = <<"RuntimeError">> /\ child[t].st = "gone")
      BY <1>1, Zenon DEF Tended
    <3>2. ASSUME parent[t].res \in Answers PROVE parent[t].res = <<"exception">>
      BY <1>3, <3>2 DEF Answer, Answers, Mounted
    <3>. QED
      BY <3>1, <3>2, Zenon
  <2>3. Settled(t)
    BY <1>1, <2>2 DEF Settled
  <2>4. <<"error">> \in NoAnswers /\ <<"error">>[1] # "ns"
    BY DEF NoAnswers
  <2>. QED
    BY <1>1, <2>1, <2>3, <2>4, EndInv, Zenon
<1>. QED
  BY <1>2, <1>3

\* A child that was stopped ends the call.
LEMMA ChildStoppedInv ==
    ASSUME CallInv, NameInv, NEW t \in Threads, ChildStopped(t)
    PROVE  CallInv' /\ NameInv'
<1>. Shape /\ Tended(t) /\ Named(t)
  BY DEF CallInv
<1>1. /\ UserAt(t, "child") /\ parent[t].pc = "stopped" /\ ~parent[t].running
      /\ child[t].st = "gone" /\ UNCHANGED <<env, file, nns, cur, saved, plan>>
      /\ parent[t].res \in Answers \cup NoAnswers /\ user[t] \in Users
  BY DEF ChildStopped, Tended, Shape, Parents
<1>2. Settled(t)
  BY <1>1 DEF Settled
<1>3. /\ <<"error">> \in NoAnswers /\ <<"error">>[1] # "ns"
      /\ user[t].res \in Answers \cup NoAnswers
      /\ [user[t] EXCEPT !.at = "setns"] = [user[t] EXCEPT !.at = "setns", !.res = user[t].res]
  BY <1>1, Zenon DEF NoAnswers, Users
<1>4. \/ /\ parent' = [parent EXCEPT ![t] = [parent[t] EXCEPT !.pc = "idle"]]
         /\ UNCHANGED <<child, chan>>
         /\ \/ user' = [user EXCEPT ![t] = [user[t] EXCEPT !.at = "idle", !.res = parent[t].res]]
            \/ user' = [user EXCEPT ![t] = [user[t] EXCEPT !.at = "setns"]]
            \/ user' = [user EXCEPT ![t] = [user[t] EXCEPT !.at = "idle", !.res = <<"error">>]]
      \/ /\ user' = [user EXCEPT ![t] = [user[t] EXCEPT !.tries = user[t].tries + 1]]
         /\ Run(t, Op(t))
  BY Zenon DEF ChildStopped, Answer, Finish, Goto, Raise
<1>5. CASE Run(t, Op(t)) /\ user' = [user EXCEPT ![t] = [user[t] EXCEPT !.tries = user[t].tries + 1]]
  BY <1>1, <1>5, RetryInv, Zenon
<1>6. CASE /\ parent' = [parent EXCEPT ![t] = [parent[t] EXCEPT !.pc = "idle"]]
           /\ UNCHANGED <<child, chan>>
           /\ user' = [user EXCEPT ![t] = [user[t] EXCEPT !.at = "idle", !.res = parent[t].res]]
  BY <1>1, <1>2, <1>6, EndInv, Zenon
<1>7. CASE /\ parent' = [parent EXCEPT ![t] = [parent[t] EXCEPT !.pc = "idle"]]
           /\ UNCHANGED <<child, chan>>
           /\ user' = [user EXCEPT ![t] = [user[t] EXCEPT !.at = "setns"]]
  <2>1. user' = [user EXCEPT ![t] = [user[t] EXCEPT !.at = "setns", !.res = user[t].res]]
    BY <1>3, <1>7, Zenon
  <2>. QED
    BY <1>1, <1>2, <1>3, <1>7, <2>1, EndInv, Zenon
<1>8. CASE /\ parent' = [parent EXCEPT ![t] = [parent[t] EXCEPT !.pc = "idle"]]
           /\ UNCHANGED <<child, chan>>
           /\ user' = [user EXCEPT ![t] = [user[t] EXCEPT !.at = "idle", !.res = <<"error">>]]
  BY <1>1, <1>2, <1>3, <1>8, EndInv, Zenon
<1>. QED
  BY <1>4, <1>5, <1>6, <1>7, <1>8

-----------------------------------------------------------------------------
(* Every step. *)

\* Both parts of the invariant are inductive.
LEMMA StepInv ==
    ASSUME CallInv, NameInv, [Next]_vars
    PROVE  CallInv' /\ NameInv'
<1>1. CASE UNCHANGED vars
  <2>1. UNCHANGED <<env, parent, child, chan, file, nns, cur, saved, user, plan>>
    BY <1>1 DEF vars, pvars, nsvars
  <2>2. CallInv'
    <3>1. /\ Answers' = Answers /\ Spaces' = Spaces /\ Children' = Children
          /\ Packets' = Packets /\ Parents' = Parents /\ Users' = Users
      BY <2>1, Zenon DEF Answers, Spaces, Children, NoAnswers, Ops, Packets, Parents, Users, Mounted
    <3>2. Shape'
      BY <2>1, <3>1 DEF CallInv, Shape
    <3>3. ASSUME NEW t \in Threads PROVE Tended(t)' /\ Current(t)' /\ Named(t)'
      <4>1. Tended(t) /\ Current(t) /\ Named(t)
        BY DEF CallInv
      <4>2. Tended(t)'
        BY <2>1, <3>1, <4>1, Zenon DEF Tended, Settled, UserAt, Op
      <4>3. Current(t)' /\ Named(t)'
        BY <2>1, <3>1, <4>1, Zenon DEF Current, Named, UserAt, Op, Name, Func
      <4>. QED
        BY <4>2, <4>3
    <3>. QED
      BY <3>2, <3>3 DEF CallInv
  <2>3. NameInv'
    BY <2>1, Zenon DEF NameInv, Exclusive, Opening, ChildAt, True, IsAt, UserAt, Op, Name, Func
  <2>. QED
    BY <2>2, <2>3
<1>2. ASSUME NEW t \in Threads, Create(t) \/ RemoveUmount(t) \/ SetnsBegin(t) \/ Pop(t)
      PROVE  CallInv' /\ NameInv'
  BY <1>2, CreateInv, RemoveUmountInv, SetnsBeginInv, PopInv
<1>3. ASSUME NEW t \in Threads, Caller(t)
      PROVE  CallInv' /\ NameInv'
  <2>1. CASE SocketReturns(t)
    <3>1. /\ UserAt(t, "child") /\ child[t].st # "none" /\ UNCHANGED <<env, nsvars>>
          /\ Stop(t, "TERM", parent[t].res) /\ parent[t].res \in Answers \cup NoAnswers
      BY <2>1 DEF SocketReturns, Answer, CallInv, Tended, Shape, Parents
    <3>. QED
      BY <3>1, StopInv, Zenon
  <2>2. CASE ChildIsStuck(t) /\ UNCHANGED <<env, nsvars>>
    <3>1. /\ UserAt(t, "child") /\ child[t].st # "none"
          /\ Stop(t, "KILL", <<"TimeoutError">>)
          /\ <<"TimeoutError">> \in NoAnswers /\ <<"TimeoutError">>[1] # "ns"
      BY <2>2 DEF ChildIsStuck, CallInv, Tended, NoAnswers
    <3>. QED
      BY <2>2, <3>1, StopInv
  <2>3. CASE SetnsList(t)
    BY <2>3, LaterInv, SetnsCreatesInv
  <2>4. CASE CreateReturns(t) \/ ChildStopped(t)
    BY <2>4, CreateReturnsInv, ChildStoppedInv
  <2>5. CASE RemoveUnlink(t) \/ SetnsEnter(t)
    BY <2>5, LaterInv
  <2>6. CASE /\ Receive(t) \/ PollExpires(t) \/ ChildIsDead(t) \/ Reap(t)
             /\ UNCHANGED <<env, nsvars>>
    BY <2>6, ParentInv
  <2>. QED
    BY <1>3, <2>1, <2>2, <2>3, <2>4, <2>5, <2>6 DEF Caller, Parent
<1>4. ASSUME NEW t \in Threads, Child(t) \/ SyscallFails(t)
                                \/ (ChildDies(t) /\ UNCHANGED <<env, nsvars>>)
      PROVE  CallInv' /\ NameInv'
  <2>1. CASE OpenExcl(t) \/ Unshare(t) \/ Bind(t)
    BY <2>1, OpenInv, UnshareInv, BindInv
  <2>2. CASE ChildSend(t) /\ UNCHANGED <<env, nsvars>>
    BY <2>2, SendInv
  <2>3. CASE \/ (ChildStart(t, IF Func(t)[1] = "create" THEN "open" ELSE "list") \/ ChildExit(t)
                 \/ ChildDies(t)) /\ UNCHANGED <<env, nsvars>>
             \/ List(t) \/ ChildSetns(t) \/ SyscallFails(t)
    BY <2>3, ChildInv
  <2>. QED
    BY <1>4, <2>1, <2>2, <2>3 DEF Child, Wrapper
<1>. QED
  BY <1>1, <1>2, <1>3, <1>4 DEF Next

\* At every moment the calls of all threads, their objects, children, sockets
\* and namespaces fit each other.
THEOREM NamespaceInvariant == Spec => [](CallInv /\ NameInv)
<1>1. Init => CallInv /\ NameInv
  BY InitInv
<1>2. (CallInv /\ NameInv) /\ [Next]_vars => (CallInv /\ NameInv)'
  BY StepInv
<1>. QED
  BY <1>1, <1>2, PTL DEF Spec

-----------------------------------------------------------------------------
(* The properties. *)

\* Types; a thread in a call that needs a child has one: communicate() and stop()
\* leave "idle" only by run().
THEOREM TypesHold == Spec => []TypeOK
<1>1. CallInv => TypeOK
  <2> SUFFICES ASSUME CallInv PROVE TypeOK
    OBVIOUS
  <2>1. file \in [Names -> Spaces] /\ cur \in [Threads -> 0..nns]
    BY DEF CallInv, Shape
  <2>2. ASSUME NEW t \in Threads
        PROVE  /\ child[t].st \in {"none", "alive", "zombie", "gone"}
               /\ UserAt(t, "child") => parent[t].pc # "idle"
    BY DEF CallInv, Shape, Children, Tended
  <2>3. \A i \in DOMAIN saved : saved[i] \in 0..nns
    <3>1. saved \in Seq(0..nns)
      BY DEF CallInv, Shape
    <3>. QED
      BY <3>1, SavedSeq, Zenon
  <2>. QED
    BY <2>1, <2>2, <2>3 DEF TypeOK
<1>. QED
  BY <1>1, NamespaceInvariant, PTL

\* stop() and communicate() wait for the child: a call that has ended leaves no
\* process behind, but for create() that raises what its child raised.
THEOREM ChildrenReapedHolds == Spec => []ChildrenReaped
<1>1. CallInv => ChildrenReaped
  BY DEF CallInv, Tended, Settled, ChildrenReaped, UserAt
<1>. QED
  BY <1>1, NamespaceInvariant, PTL

\* Unless names are removed, all calls that succeed for a name give the namespace
\* that is mounted there: O_EXCL lets one child between open() and mount().
THEOREM OneNamespaceHolds == Spec => []OneNamespace
<1>1. CallInv /\ NameInv => OneNamespace
  BY DEF NameInv, True, IsAt, OneNamespace, UserAt
<1>. QED
  BY <1>1, NamespaceInvariant, PTL

\* communicate() returns what the child of this run() sent.
THEOREM AnswerOfThisChildHolds == Spec => AnswerOfThisChild
<1>1. CallInv => \A t \in Threads : Receive(t) => Head(chan[t]).life = parent[t].life
  <2> SUFFICES ASSUME CallInv, NEW t \in Threads, Receive(t)
               PROVE  Head(chan[t]).life = parent[t].life
    OBVIOUS
  <2>1. chan[t] \in Seq(Packets) /\ chan[t] # <<>>
    BY DEF CallInv, Shape, Receive
  <2>2. 1 \in DOMAIN chan[t] /\ Head(chan[t]) = chan[t][1]
    BY <2>1
  <2>. QED
    BY <2>2 DEF CallInv, Current
<1>. QED
  BY <1>1, NamespaceInvariant, PTL DEF AnswerOfThisChild
-----------------------------------------------------------------------------
(* Names that are not whole. *)

\* While nothing fails, a child that has not answered is waited for.
Early == {"start", "open", "unshare", "bind", "list", "setns", "send"}
Working(t) ==
    child[t].st = "alive" /\ child[t].at \in Early =>
        UserAt(t, "child") /\ parent[t].pc = "poll" /\ chan[t] = <<>>

\* Thread t is between the two system calls on the file of n.
Between(t, n) ==
    /\ Op(t)[2] = n
    /\ UserAt(t, "unlink") \/ (UserAt(t, "child") /\ Opening(t))

WholeInv ==
    Reliable =>
        /\ \A t \in Threads : Working(t)
        /\ \A n \in Names : file[n] = Plain => \E t \in Threads : Between(t, n)

\* A step of t: plain files appear only where t is between two calls, and t
\* leaves only files that are no longer plain.
LEMMA WholeStep ==
    ASSUME WholeInv, NEW t \in Threads, Apart(t), UNCHANGED env,
           Reliable => Working(t)',
           Reliable => \A n \in Names : /\ file'[n] = Plain => file[n] = Plain \/ Between(t, n)'
                                        /\ Between(t, n) => Between(t, n)' \/ file'[n] # Plain
    PROVE  WholeInv'
<1>1. Reliable' <=> Reliable
  BY DEF Reliable
<1> SUFFICES ASSUME Reliable
             PROVE  /\ \A u \in Threads : Working(u)'
                    /\ \A n \in Names : file'[n] = Plain => \E u \in Threads : Between(u, n)'
  BY <1>1 DEF WholeInv
<1>2. ASSUME NEW u \in Threads \ {t}
      PROVE  Working(u)' /\ \A n : Between(u, n) => Between(u, n)'
  <2>1. /\ parent'[u] = parent[u] /\ child'[u] = child[u]
        /\ chan'[u] = chan[u] /\ user'[u] = user[u]
    BY DEF Apart
  <2>2. Working(u) /\ (Working(u) => Working(u)')
    BY <2>1, Zenon DEF WholeInv, Working, UserAt
  <2>3. ASSUME NEW n, Between(u, n) PROVE Between(u, n)'
    BY <2>1, <2>3, Zenon DEF Between, UserAt, Opening, ChildAt, Op
  <2>. QED
    BY <2>2, <2>3
<1>3. ASSUME NEW n \in Names, file'[n] = Plain
      PROVE  \E u \in Threads : Between(u, n)'
  <2>1. CASE Between(t, n)'
    BY <2>1
  <2>2. CASE ~Between(t, n)'
    <3>1. PICK u \in Threads : Between(u, n)
      BY <1>3, <2>2 DEF WholeInv
    <3>2. u # t
      BY <1>3, <2>2, <3>1
    <3>. QED
      BY <1>2, <3>1, <3>2
  <2>. QED
    BY <2>1, <2>2
<1>. QED
  BY <1>2, <1>3

\* Steps of a child other than its system calls, and of its parent.
LEMMA WholeQuiet ==
    ASSUME CallInv, WholeInv, NEW t \in Threads, UNCHANGED <<env, user, file>>,
           NEW p, parent' = [parent EXCEPT ![t] = p],
           NEW c, child' = [child EXCEPT ![t] = c],
           NEW q, chan' = [chan EXCEPT ![t] = q],
           Reliable /\ c.st = "alive" /\ c.at \in Early =>
               /\ child[t].st = "alive" /\ child[t].at \in Early
               /\ p.pc = parent[t].pc /\ q = chan[t],
           Reliable /\ Opening(t) => c.st = "alive" /\ c.at \in {"unshare", "bind"}
    PROVE  WholeInv'
<1>1. parent'[t] = p /\ child'[t] = c /\ chan'[t] = q /\ Apart(t)
  BY DEF CallInv, Shape, Apart
<1>2. Reliable => Working(t)'
  BY <1>1, Zenon DEF WholeInv, Working, UserAt
<1>3. Reliable => \A n \in Names : Between(t, n) => Between(t, n)'
  BY <1>1 DEF Between, Op, UserAt, Opening, ChildAt
<1>. QED
  BY <1>1, <1>2, <1>3, WholeStep

\* A function updated with its own value.
LEMMA SameField == \A f, S, T : f \in [S -> T] => \A x \in S : f = [f EXCEPT ![x] = f[x]]
OBVIOUS

\* Steps of a child before open(), between open() and mount(), and after it.
LEMMA WholeChild ==
    ASSUME CallInv, WholeInv, NEW t \in Threads,
           Child(t) \/ SyscallFails(t) \/ (ChildDies(t) /\ UNCHANGED <<env, nsvars>>),
           ~OpenExcl(t), ~Bind(t)
    PROVE  WholeInv'
<1>. /\ parent \in [Threads -> Parents] /\ child \in [Threads -> Children]
     /\ chan \in [Threads -> Seq(Packets)] /\ child[t] \in Children
  BY DEF CallInv, Shape
<1>0. Reliable => {"fail", "die", "timeout", "stuck"} \cap env = {}
  BY DEF Reliable
<1>1. /\ parent' = [parent EXCEPT ![t] = parent[t]] /\ UNCHANGED <<env, user, file>>
      /\ child[t].st = "alive"
  <2>1. UNCHANGED <<parent, env, user, file>> /\ child[t].st = "alive"
    BY DEF Child, Wrapper, ChildStart, ChildSend, ChildExit, Unshare, List, ChildSetns,
           SyscallFails, ChildDies, nsvars, ChildAt
  <2>. QED
    BY <2>1, SameField, Zenon
<1>2. CASE ChildSend(t)
  <2>. DEFINE c == [child[t] EXCEPT !.at = "exit"]
  <2>1. child' = [child EXCEPT ![t] = c] /\ child[t].at = "send"
    BY <1>2 DEF ChildSend, ChildAt
  <2>2. c.at = "exit"
    BY DEF Children
  <2>3. \E q : chan' = [chan EXCEPT ![t] = q]
    <3>1. chan = [chan EXCEPT ![t] = chan[t]]
      BY SameField, Zenon
    <3>2. chan' = chan \/ chan' = [chan EXCEPT ![t] = Append(chan[t], [val |-> child[t].val, life |-> child[t].life])]
      BY <1>2, Zenon DEF ChildSend
    <3>. QED
      BY <3>1, <3>2, Zenon
  <2>4. ~Opening(t)
    BY <2>1 DEF Opening, ChildAt
  <2>. HIDE DEF c
  <2>. QED
    BY <1>1, <2>1, <2>2, <2>3, <2>4, WholeQuiet, Zenon DEF Early
<1>3. CASE ~ChildSend(t)
  <2>1. chan' = [chan EXCEPT ![t] = chan[t]]
    <3>1. UNCHANGED chan
      BY <1>3 DEF Child, Wrapper, ChildStart, ChildExit, Unshare, List, ChildSetns,
             SyscallFails, ChildDies
    <3>. QED
      BY <3>1, SameField, Zenon
  <2>2. \E c : /\ child' = [child EXCEPT ![t] = c]
               /\ Reliable /\ c.st = "alive" /\ c.at \in Early => child[t].at \in Early
               /\ Reliable /\ Opening(t) => c.st = "alive" /\ c.at \in {"unshare", "bind"}
    <3>1. CASE ChildStart(t, IF Func(t)[1] = "create" THEN "open" ELSE "list")
      <4>1. PICK at : child' = [child EXCEPT ![t].at = at, ![t].dfl = @ \/ "disable_mp_signal" \in env]
        BY <3>1, Zenon DEF ChildStart
      <4>. DEFINE c == [child[t] EXCEPT !.at = at, !.dfl = @ \/ "disable_mp_signal" \in env]
      <4>2. child' = [child EXCEPT ![t] = c]
        BY <4>1, Zenon
      <4>3. child[t].at \in Early /\ ~Opening(t)
        BY <3>1 DEF ChildStart, ChildAt, Early, Opening
      <4>. QED
        BY <4>2, <4>3, Zenon
    <3>2. CASE ChildExit(t) \/ (ChildDies(t) /\ ~Reliable)
      <4>1. PICK x : child' = [child EXCEPT ![t].st = "zombie", ![t].status = x]
        BY <3>2, Zenon DEF ChildExit, ChildDies
      <4>. DEFINE c == [child[t] EXCEPT !.st = "zombie", !.status = x]
      <4>2. child' = [child EXCEPT ![t] = c]
        BY <4>1, Zenon
      <4>3. c.st = "zombie"
        BY Zenon DEF Children
      <4>4. ~Reliable \/ ~Opening(t)
        BY <3>2 DEF ChildExit, ChildAt, Opening
      <4>. QED
        BY <4>2, <4>3, <4>4, Zenon
    <3>3. CASE List(t) \/ ChildSetns(t) \/ (SyscallFails(t) /\ ~Reliable)
      <4>1. \E c : child' = [child EXCEPT ![t] = c]
        BY <3>3 DEF List, ChildSetns, SyscallFails, ChildGoto, ChildRaises, ChildReturns
      <4>2. ~Reliable \/ (child[t].at \in Early /\ ~Opening(t))
        BY <3>3 DEF List, ChildSetns, Early, ChildAt, Opening
      <4>. QED
        BY <4>1, <4>2, Zenon
    <3>4. CASE Unshare(t)
      <4>. DEFINE c == [child[t] EXCEPT !.at = "bind", !.val = <<"ns", nns + 1>>]
      <4>1. child' = [child EXCEPT ![t] = c] /\ child[t].at = "unshare"
        BY <3>4, Zenon DEF Unshare, ChildAt
      <4>2. c.at = "bind" /\ c.st = child[t].st
        BY Zenon DEF Children
      <4>. QED
        BY <1>1, <4>1, <4>2, Zenon DEF Early
    <3>5. Reliable => ~ChildDies(t) /\ ~SyscallFails(t)
      BY <1>0 DEF ChildDies, SyscallFails
    <3>. QED
      BY <1>3, <3>1, <3>2, <3>3, <3>4, <3>5 DEF Child, Wrapper
  <2>3. PICK c : /\ child' = [child EXCEPT ![t] = c]
                 /\ Reliable /\ c.st = "alive" /\ c.at \in Early => child[t].at \in Early
                 /\ Reliable /\ Opening(t) => c.st = "alive" /\ c.at \in {"unshare", "bind"}
    BY <2>2, Zenon
  <2>. QED
    BY <1>1, <2>1, <2>3, WholeQuiet, Zenon
<1>. QED
  BY <1>2, <1>3

\* The parent: with no timeout it looks at the child only when that is dead, and
\* stops it only when it has answered.
LEMMA WholeParent ==
    ASSUME CallInv, WholeInv, NEW t \in Threads, UNCHANGED <<env, user, file>>,
           \/ Receive(t) \/ PollExpires(t) \/ ChildIsDead(t) \/ Reap(t)
           \/ parent[t].pc # "poll" /\ \E sig, res : Stop(t, sig, res)
    PROVE  WholeInv'
<1>. /\ parent \in [Threads -> Parents] /\ child \in [Threads -> Children]
     /\ chan \in [Threads -> Seq(Packets)] /\ child[t] \in Children /\ parent[t] \in Parents
  BY DEF CallInv, Shape
<1>1. \E p, q : parent' = [parent EXCEPT ![t] = p] /\ chan' = [chan EXCEPT ![t] = q]
  <2>1. \E q : chan' = [chan EXCEPT ![t] = q]
    <3>1. chan = [chan EXCEPT ![t] = chan[t]]
      BY SameField, Zenon
    <3>2. chan' = chan \/ chan' = [chan EXCEPT ![t] = Tail(chan[t])]
      BY Zenon DEF Receive, PollExpires, ChildIsDead, Reap, Stop
    <3>. QED
      BY <3>1, <3>2, Zenon
  <2>2. \E p : parent' = [parent EXCEPT ![t] = p]
    <3>1. CASE Receive(t)
      BY <3>1, Zenon DEF Receive
    <3>2. CASE PollExpires(t)
      BY <3>2, Zenon DEF PollExpires
    <3>3. CASE ChildIsDead(t)
      BY <3>3, Zenon DEF ChildIsDead
    <3>4. CASE Reap(t)
      BY <3>4, Zenon DEF Reap
    <3>5. ASSUME NEW sig, NEW res, Stop(t, sig, res)
          PROVE  \E p : parent' = [parent EXCEPT ![t] = p]
      <4>1. parent' = [parent EXCEPT ![t] = [parent[t] EXCEPT !.running = FALSE, !.res = res,
                        !.pc = IF child[t].st = "gone" THEN "stopped" ELSE "reap"]]
        BY <3>5, Zenon DEF Stop
      <4>. QED
        BY <4>1, Zenon
    <3>. QED
      BY <3>1, <3>2, <3>3, <3>4, <3>5
  <2>. QED
    BY <2>1, <2>2, Zenon
<1>2. \E c : /\ child' = [child EXCEPT ![t] = c]
             /\ c = child[t] \/ c.st # "alive"
  <2>1. CASE Receive(t) \/ PollExpires(t)
    BY <2>1, SameField DEF Receive, PollExpires
  <2>2. CASE ChildIsDead(t) \/ Reap(t)
    <3>. DEFINE c == [child[t] EXCEPT !.st = "gone"]
    <3>1. child' = [child EXCEPT ![t] = c]
      BY <2>2, Zenon DEF ChildIsDead, Reap
    <3>2. c.st = "gone"
      BY DEF Children
    <3>. QED
      BY <3>1, <3>2, Zenon
  <2>3. ASSUME NEW sig, NEW res, Stop(t, sig, res)
        PROVE  \E c : child' = [child EXCEPT ![t] = c] /\ (c = child[t] \/ c.st # "alive")
    <3>. DEFINE c == [child[t] EXCEPT !.st = "zombie", !.status = sig]
    <3>1. child' = [child EXCEPT ![t] = c] \/ child' = child
      BY <2>3, Zenon DEF Stop, Signal
    <3>2. c.st = "zombie"
      BY Zenon DEF Children
    <3>. HIDE DEF c
    <3>. QED
      BY <3>1, <3>2, SameField
  <2>. QED
    BY <2>1, <2>2, <2>3
<1>3. Reliable => ~(child[t].st = "alive" /\ child[t].at \in Early)
  <2>1. Reliable => "timeout" \notin env
    BY DEF Reliable
  <2>2. Reliable => Working(t)
    BY DEF WholeInv
  <2>. QED
    BY <2>1, <2>2 DEF Working, Receive, PollExpires, ChildIsDead, Reap
<1>4. Reliable => ~Opening(t)
  BY <1>3 DEF Opening, ChildAt, Early
<1>5. PICK p, q, c : /\ parent' = [parent EXCEPT ![t] = p] /\ chan' = [chan EXCEPT ![t] = q]
                     /\ child' = [child EXCEPT ![t] = c]
                     /\ c = child[t] \/ c.st # "alive"
  BY <1>1, <1>2, Zenon
<1>. QED
  BY <1>3, <1>4, <1>5, WholeQuiet, Zenon

\* open() makes the name incomplete, mount() completes it.
LEMMA WholeOpen ==
    ASSUME CallInv, WholeInv, NEW t \in Threads, OpenExcl(t) \/ Bind(t)
    PROVE  WholeInv'
<1>. /\ parent \in [Threads -> Parents] /\ child \in [Threads -> Children]
     /\ file \in [Names -> Spaces] /\ child[t] \in Children
     /\ Named(t) /\ UNCHANGED <<env, parent, chan, user>> /\ child[t].st = "alive"
  BY DEF CallInv, Shape, OpenExcl, Bind, ChildAt
<1>1. \E c : child' = [child EXCEPT ![t] = c]
  BY DEF OpenExcl, Bind, ChildGoto, ChildReturns, ChildRaises
<1>2. Apart(t)
  BY <1>1, Zenon DEF Apart
<1>3. child[t].at \in Early
  BY DEF OpenExcl, Bind, ChildAt, Early
<1>4. Reliable => UserAt(t, "child") /\ parent[t].pc = "poll" /\ chan[t] = <<>>
  BY <1>3 DEF WholeInv, Working
<1>5. Reliable => Working(t)'
  BY <1>4, Zenon DEF Working, UserAt
<1>6. Name(t) \in Names /\ (UserAt(t, "child") => Op(t)[2] = Name(t)) /\ Op(t)' = Op(t)
  BY DEF Named, Op
<1>7. CASE OpenExcl(t)
  <2>1. ~Opening(t) /\ (UserAt(t, "child") => ~UserAt(t, "unlink"))
    BY <1>7, Zenon DEF OpenExcl, Opening, ChildAt, UserAt
  <2>2. CASE file' = file
    BY <1>2, <1>4, <1>5, <2>1, <2>2, WholeStep, Zenon DEF Between
  <2>3. CASE file' # file
    <3>. DEFINE c == [child[t] EXCEPT !.at = "unshare"]
    <3>1. file' = [file EXCEPT ![Name(t)] = Plain] /\ child' = [child EXCEPT ![t] = c]
      BY <1>7, <2>3 DEF OpenExcl, ChildGoto
    <3>2. c.at = "unshare" /\ c.st = "alive" /\ child'[t] = c
      BY <3>1 DEF Children
    <3>3. Opening(t)'
      BY <3>2 DEF Opening, ChildAt
    <3>4. Reliable => \A n \in Names : n = Name(t) => Between(t, n)'
      BY <1>4, <1>6, <3>3, Zenon DEF Between, UserAt
    <3>5. \A n \in Names : file'[n] = Plain => file[n] = Plain \/ n = Name(t)
      BY <3>1
    <3>6. Reliable => \A n : ~Between(t, n)
      BY <1>4, <2>1, Zenon DEF Between
    <3>. QED
      BY <1>2, <1>5, <3>4, <3>5, <3>6, WholeStep
  <2>. QED
    BY <2>2, <2>3
<1>8. CASE Bind(t)
  <2>1. child[t].val \in Answers \ {<<"exception">>}
    BY <1>8, Zenon DEF Bind, ChildAt, Named
  <2>2. child[t].val # Plain
    BY <2>1 DEF Answers, Plain, Mounted
  <2>3. /\ file'[Name(t)] # Plain
        /\ \A n \in Names : file'[n] = Plain => file[n] = Plain
    <3>1. CASE file[Name(t)] = Nothing
      <4>1. file' = file /\ Nothing # Plain
        BY <1>8, <3>1, Zenon DEF Bind, Nothing, Plain
      <4>. QED
        BY <3>1, <4>1
    <3>2. CASE file[Name(t)] # Nothing
      <4>1. file' = [file EXCEPT ![Name(t)] = child[t].val]
        BY <1>8, <3>2 DEF Bind
      <4>. HIDE DEF Plain
      <4>2. file'[Name(t)] = child[t].val /\ \A n \in Names : n # Name(t) => file'[n] = file[n]
        BY <1>6, <4>1, Zenon
      <4>. QED
        BY <2>2, <4>2, Zenon
    <3>. QED
      BY <3>1, <3>2
  <2>4. Reliable => \A n \in Names : Between(t, n) => n = Name(t)
    BY <1>4, <1>6 DEF Between
  <2>. QED
    BY <1>2, <1>5, <2>3, <2>4, WholeStep
<1>. QED
  BY <1>7, <1>8

\* What a thread does in its own call: only umount2() leaves a plain file, and
\* then unlink() is next.
LEMMA WholeUser ==
    ASSUME CallInv, WholeInv, NEW t \in Threads, UNCHANGED <<env, pvars>>,
           NEW u, user' = [user EXCEPT ![t] = u], ~UserAt(t, "child"),
           \/ UNCHANGED file /\ ~UserAt(t, "unlink")
           \/ RemoveUmount(t) \/ RemoveUnlink(t)
    PROVE  WholeInv'
<1>. /\ user \in [Threads -> Users] /\ file \in [Names -> Spaces] /\ Named(t)
     /\ UNCHANGED <<parent, child, chan>> /\ user'[t] = u
  BY DEF CallInv, Shape, pvars
<1>1. Apart(t)
  BY DEF Apart
<1>2. Reliable => Working(t)'
  BY DEF Working, WholeInv
<1>3. CASE UNCHANGED file /\ ~UserAt(t, "unlink")
  BY <1>1, <1>2, <1>3, WholeStep, Zenon DEF Between
<1>4. CASE RemoveUmount(t)
  <2>. DEFINE op == Head(plan[t])
  <2>1. /\ user' = [user EXCEPT ![t] = [Idle EXCEPT !.op = op, !.at = "unlink"]]
        /\ UserAt(t, "idle")
        /\ file' = [file EXCEPT ![op[2]] = IF file[op[2]] = Nothing THEN file[op[2]] ELSE Plain]
    BY <1>4, Zenon DEF RemoveUmount, Start, Begin, UserAt
  <2>2. \A n \in Names : n = op[2] => Between(t, n)'
    <3>1. user'[t].op = op /\ user'[t].at = "unlink"
      <4>1. user'[t] = [Idle EXCEPT !.op = op, !.at = "unlink"]
        BY <2>1, Zenon
      <4>. QED
        BY <4>1, Zenon DEF Idle
    <3>. QED
      BY <3>1 DEF Between, Op, UserAt
  <2>3. \A n : ~Between(t, n)
    BY <2>1 DEF Between, UserAt
  <2>. HIDE DEF op
  <2>4. \A n \in Names : file'[n] = Plain => file[n] = Plain \/ n = op[2]
    BY <2>1
  <2>. QED
    BY <1>1, <1>2, <2>2, <2>3, <2>4, WholeStep
<1>5. CASE RemoveUnlink(t)
  <2>1. Op(t)[2] \in Names
    BY <1>5 DEF RemoveUnlink, UserAt, Named
  <2>2. /\ file'[Op(t)[2]] # Plain
        /\ \A n \in Names : file'[n] = Plain => file[n] = Plain
    BY <1>5, <2>1 DEF RemoveUnlink, Plain, Nothing
  <2>. QED
    BY <1>1, <1>2, <2>2, WholeStep, Zenon DEF Between
<1>. QED
  BY <1>3, <1>4, <1>5

\* run(), and the end of a call that has a child.
LEMMA WholeCall ==
    ASSUME CallInv, WholeInv, NEW t \in Threads, UNCHANGED <<env, file>>,
           NEW u, user' = [user EXCEPT ![t] = u], ~UserAt(t, "unlink"),
           parent[t].pc # "poll",
           \/ u.at = "child" /\ \E f : Run(t, f)
           \/ UNCHANGED <<child, chan>> /\ \E p : parent' = [parent EXCEPT ![t] = p]
    PROVE  WholeInv'
<1>. /\ parent \in [Threads -> Parents] /\ child \in [Threads -> Children]
     /\ chan \in [Threads -> Seq(Packets)] /\ user \in [Threads -> Users] /\ user'[t] = u
  BY DEF CallInv, Shape
<1>1. Reliable => ~(child[t].st = "alive" /\ child[t].at \in Early)
  BY DEF WholeInv, Working
<1>2. Reliable => \A n : ~Between(t, n)
  BY <1>1 DEF Between, Opening, ChildAt, Early
<1>3. ASSUME NEW f, Run(t, f), u.at = "child"
      PROVE  WholeInv'
  <2>1. /\ parent'[t].pc = "poll" /\ chan'[t] = <<>>
        /\ \A v \in Threads \ {t} : /\ parent'[v] = parent[v] /\ child'[v] = child[v]
                                    /\ chan'[v] = chan[v]
    BY <1>3, Zenon DEF Run, NoParent
  <2>2. Apart(t)
    BY <2>1 DEF Apart
  <2>3. Working(t)'
    BY <1>3, <2>1 DEF Working, UserAt
  <2>. QED
    BY <1>2, <2>2, <2>3, WholeStep
<1>4. ASSUME NEW p, parent' = [parent EXCEPT ![t] = p], UNCHANGED <<child, chan>>
      PROVE  WholeInv'
  <2>1. Apart(t)
    BY <1>4 DEF Apart
  <2>2. Reliable => Working(t)'
    BY <1>1, <1>4 DEF Working
  <2>. QED
    BY <1>2, <2>1, <2>2, WholeStep
<1>. QED
  BY <1>3, <1>4

\* WholeInv is inductive relative to CallInv.
LEMMA WholeNext ==
    ASSUME CallInv, WholeInv, [Next]_vars
    PROVE  WholeInv'
<1>1. CASE UNCHANGED vars
  <2>1. UNCHANGED <<env, parent, child, chan, file, user>>
    BY <1>1, Zenon DEF vars, pvars, nsvars
  <2>2. Reliable' <=> Reliable
    BY <2>1 DEF Reliable
  <2>3. ASSUME NEW t PROVE Working(t)' <=> Working(t)
    BY <2>1, Zenon DEF Working, UserAt
  <2>4. ASSUME NEW t, NEW n PROVE Between(t, n)' <=> Between(t, n)
    BY <2>1, Zenon DEF Between, UserAt, Op, Opening, ChildAt
  <2>. QED
    BY <2>1, <2>2, <2>3, <2>4 DEF WholeInv
<1>2. ASSUME NEW t \in Threads, Child(t) \/ SyscallFails(t)
                                \/ (ChildDies(t) /\ UNCHANGED <<env, nsvars>>)
      PROVE  WholeInv'
  BY <1>2, WholeChild, WholeOpen
<1>3. ASSUME NEW t \in Threads, Create(t) \/ RemoveUmount(t) \/ SetnsBegin(t) \/ Pop(t)
      PROVE  WholeInv'
  <2>1. UserAt(t, "idle") /\ ~UserAt(t, "child") /\ ~UserAt(t, "unlink")
    BY <1>3 DEF Create, RemoveUmount, SetnsBegin, Pop, Begin, UserAt
  <2>2. CASE Create(t)
    <3>. DEFINE u == [Idle EXCEPT !.op = Head(plan[t]), !.at = "child"]
    <3>1. /\ user' = [user EXCEPT ![t] = u] /\ UNCHANGED <<env, file>>
          /\ \E f : Run(t, f)
      BY <2>2 DEF Create, Start
    <3>2. u.at = "child"
      BY DEF Idle
    <3>3. parent[t].pc # "poll"
      BY <2>1 DEF CallInv, Tended
    <3>. HIDE DEF u
    <3>. QED
      BY <2>1, <3>1, <3>2, <3>3, WholeCall, Zenon
  <2>3. CASE RemoveUmount(t)
    <3>1. UNCHANGED <<env, pvars>> /\ \E u : user' = [user EXCEPT ![t] = u]
      BY <2>3, Zenon DEF RemoveUmount, Start
    <3>. QED
      BY <2>1, <2>3, <3>1, WholeUser, Zenon
  <2>4. CASE SetnsBegin(t)
    <3>1. UNCHANGED <<env, pvars, file>> /\ \E u : user' = [user EXCEPT ![t] = u]
      BY <2>4 DEF SetnsBegin, Start
    <3>. QED
      BY <2>1, <3>1, WholeUser, Zenon
  <2>5. CASE Pop(t)
    <3>1. UNCHANGED <<env, pvars, file>> /\ \E u : user' = [user EXCEPT ![t] = u]
      BY <2>5 DEF Pop
    <3>. QED
      BY <2>1, <3>1, WholeUser, Zenon
  <2>. QED
    BY <1>3, <2>2, <2>3, <2>4, <2>5
<1>4. ASSUME NEW t \in Threads, Caller(t)
      PROVE  WholeInv'
  <2>. user \in [Threads -> Users] /\ user[t] \in Users
    BY DEF CallInv, Shape
  <2>1. CASE SocketReturns(t)
    BY <2>1, WholeParent DEF SocketReturns, nsvars
  <2>2. CASE CreateReturns(t) /\ Answer(t)[1] = "ns"
    BY <2>2, WholeParent DEF CreateReturns
  <2>3. CASE CreateReturns(t) /\ Answer(t)[1] # "ns"
    <3>1. /\ UNCHANGED <<env, file, child, chan>> /\ parent[t].pc # "poll"
          /\ ~UserAt(t, "unlink") /\ \E p : parent' = [parent EXCEPT ![t] = p]
      BY <2>3 DEF CreateReturns, UserAt
    <3>2. \E u : user' = [user EXCEPT ![t] = u]
      BY <2>3, Zenon DEF CreateReturns, Raise, Finish
    <3>. QED
      BY <3>1, <3>2, WholeCall, Zenon
  <2>4. CASE ChildStopped(t)
    <3>1. UNCHANGED <<env, file>> /\ parent[t].pc # "poll" /\ UserAt(t, "child")
          /\ ~UserAt(t, "unlink")
      BY <2>4 DEF ChildStopped, UserAt
    <3>2. CASE Run(t, Op(t)) /\ user' = [user EXCEPT ![t].tries = @ + 1]
      <4>. DEFINE u == [user[t] EXCEPT !.tries = @ + 1]
      <4>1. user' = [user EXCEPT ![t] = u]
        BY <3>2, Zenon
      <4>2. u.at = "child"
        BY <3>1, Zenon DEF UserAt, Users
      <4>. HIDE DEF u
      <4>. QED
        BY <3>1, <3>2, <4>1, <4>2, WholeCall, Zenon
    <3>3. CASE UNCHANGED <<child, chan>> /\ parent' = [parent EXCEPT ![t].pc = "idle"]
      <4>1. \E u : user' = [user EXCEPT ![t] = u]
        <5>1. \/ user' = [user EXCEPT ![t].at = "idle", ![t].res = Answer(t)]
              \/ user' = [user EXCEPT ![t].at = "setns"]
              \/ user' = [user EXCEPT ![t].at = "idle", ![t].res = <<"error">>]
              \/ user' = [user EXCEPT ![t].tries = @ + 1]
          BY <2>4, Zenon DEF ChildStopped, Finish, Goto, Raise
        <5>. QED
          BY <5>1, Zenon
      <4>2. \E p : parent' = [parent EXCEPT ![t] = p]
        BY <3>3, Zenon
      <4>. QED
        BY <3>1, <3>3, <4>1, <4>2, WholeCall, Zenon
    <3>. QED
      BY <2>4, <3>2, <3>3, Zenon DEF ChildStopped
  <2>5. CASE RemoveUnlink(t)
    <3>1. UNCHANGED <<env, pvars>> /\ ~UserAt(t, "child")
      BY <2>5 DEF RemoveUnlink, UserAt
    <3>2. \E u : user' = [user EXCEPT ![t] = u]
      BY <2>5, Zenon DEF RemoveUnlink, Raise, Finish
    <3>. QED
      BY <2>5, <3>1, <3>2, WholeUser, Zenon
  <2>6. CASE SetnsEnter(t)
    <3>1. UNCHANGED <<env, pvars, file>> /\ ~UserAt(t, "child") /\ ~UserAt(t, "unlink")
      BY <2>6 DEF SetnsEnter, UserAt
    <3>2. \E u : user' = [user EXCEPT ![t] = u]
      BY <2>6, Zenon DEF SetnsEnter, Raise, Finish
    <3>. QED
      BY <3>1, <3>2, WholeUser, Zenon
  <2>7. CASE SetnsList(t)
    <3>1. UNCHANGED <<env, file>> /\ ~UserAt(t, "child") /\ ~UserAt(t, "unlink")
          /\ UserAt(t, "list")
      BY <2>7 DEF SetnsList, UserAt
    <3>2. CASE UNCHANGED pvars /\ Goto(t, "setns")
      <4>1. \E u : user' = [user EXCEPT ![t] = u]
        BY <3>2, Zenon DEF Goto
      <4>. QED
        BY <3>1, <3>2, <4>1, WholeUser, Zenon
    <3>3. CASE Run(t, <<"create", Op(t)[2]>>) /\ Goto(t, "child")
      <4>. DEFINE u == [user[t] EXCEPT !.at = "child"]
      <4>1. user' = [user EXCEPT ![t] = u]
        BY <3>3, Zenon DEF Goto
      <4>2. u.at = "child"
        BY DEF Users
      <4>3. parent[t].pc # "poll"
        BY <3>1 DEF CallInv, Tended
      <4>4. \E f : Run(t, f)
        BY <3>3, Zenon
      <4>. HIDE DEF u
      <4>. QED
        BY <3>1, <4>1, <4>2, <4>3, <4>4, WholeCall, Zenon
    <3>. QED
      BY <2>7, <3>2, <3>3 DEF SetnsList
  <2>8. CASE Parent(t) /\ UNCHANGED <<env, nsvars>>
    BY <2>8, WholeParent DEF Parent, ChildIsStuck, nsvars
  <2>. QED
    BY <1>4, <2>1, <2>2, <2>3, <2>4, <2>5, <2>6, <2>7, <2>8 DEF Caller
<1>. QED
  BY <1>1, <1>2, <1>3, <1>4 DEF Next

\* While no system call fails and no child is lost, a file without a namespace is
\* seen only between open() and mount() of _create(), or umount2() and unlink()
\* of remove(), however many calls create and remove the name at once.
THEOREM NamesAreWholeHolds == Spec => []NamesAreWhole
<1>1. Init => WholeInv
  <2> SUFFICES ASSUME Init PROVE WholeInv
    OBVIOUS
  <2>1. \A t \in Threads : child[t].st = "none"
    BY Zenon DEF Init, NoChild
  <2>2. \A n \in Names : file[n] # Plain
    BY DEF Init, Nothing, Plain
  <2>. QED
    BY <2>1, <2>2 DEF WholeInv, Working
<1>2. WholeInv => NamesAreWhole
  BY DEF WholeInv, NamesAreWhole, Between, UserAt, Opening
<1>3. CallInv /\ WholeInv /\ [Next]_vars => WholeInv'
  BY WholeNext
<1>. QED
  BY <1>1, <1>2, <1>3, NamespaceInvariant, PTL DEF Spec
=============================================================================
