------------------------------ MODULE NDBSchema ------------------------------
(***************************************************************************)
(* The rows of one target of the NDB database and what loading does to     *)
(* them: the loading half of ndb/schema.py, and the objects of the system  *)
(* that the rows stand for.                                                *)
(***************************************************************************)
EXTENDS Integers, Sequences

CONSTANTS Links, Children,     \* objects: interfaces, and what refers to them
          Zero,                \* the fake interface 0 of fake_zero_if()
          Parent,              \* [Children -> Links \cup {Zero}]
          MaxVal,              \* values of an object are 1..MaxVal
          Order                \* the objects in the order of the kernel's dumps

Objs == Links \cup Children
Rows == Objs \cup {Zero}
Absent == 0
Values == 0..MaxVal
Marker == <<"ready">>          \* cmsg_event of set_ready()

ASSUME SchemaAssumption ==
    /\ Links \cap Children = {} /\ Zero \notin Links \cup Children
    /\ Parent \in [Children -> Links \cup {Zero}] /\ MaxVal \in Nat \ {0}
    /\ Order \in Seq(Objs) /\ \A o \in Objs : \E i \in DOMAIN Order : Order[i] = o

Empty == [r \in Rows |-> Absent]

\* DBSchema.load_netlink(): an even type inserts or updates a row, an odd one
\* deletes it, and with it the rows that refer to it (ON DELETE CASCADE).  A
\* row whose parent is missing fails the foreign key: that is logged only.
load_netlink(d, o, v) ==
    IF v = Absent
    THEN [r \in Rows |-> IF r = o \/ (r \in Children /\ Parent[r] = o)
                         THEN Absent ELSE d[r]]
    ELSE IF o \in Children /\ d[Parent[o]] = Absent THEN d
    ELSE [d EXCEPT ![o] = v]

Load(d, e) == IF e = Marker THEN d ELSE load_netlink(d, e[1], e[2])

\* TaskManager.receiver() over a sequence of events
Replay(d, es) ==
    LET loaded[i \in 0..Len(es)] == IF i = 0 THEN d ELSE Load(loaded[i - 1], es[i])
    IN  loaded[Len(es)]

\* DBSchema.flush()
flush(d) == Empty

(***************************************************************************)
(* The system (external).                                                  *)
(***************************************************************************)

\* an object changes; an interface takes along what refers to it
Put(k, o, v) ==
    [r \in Rows |-> IF r = o THEN v
                    ELSE IF v = Absent /\ r \in Children /\ Parent[r] = o
                         THEN Absent ELSE k[r]]

\* the answer to a dump of the objects S
Record(k, S, rs, o) ==
    IF o \in S /\ k[o] # Absent THEN Append(rs, <<o, k[o]>>) ELSE rs
Records(k, S) ==
    LET rs[i \in 0..Len(Order)] ==
            IF i = 0 THEN <<>> ELSE Record(k, S, rs[i - 1], Order[i])
    IN  rs[Len(Order)]
=============================================================================
