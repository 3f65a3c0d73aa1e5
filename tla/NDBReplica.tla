----------------------------- MODULE NDBReplica -----------------------------
(***************************************************************************)
(* What NDB promises of its database: a copy of the system's objects that  *)
(* lags behind by a log of updates.  While it is in sync, the system only  *)
(* adds to the log and the copy only consumes it, in order.  It may fall   *)
(* out of sync (events are lost, the source is restarted) and anything may *)
(* happen to it then, but when it is in sync again the log is exactly what *)
(* separates the copy from the system.                                     *)
(***************************************************************************)
EXTENDS Naturals, Sequences

CONSTANT Applied(_, _)     \* the copy after a sequence of updates

VARIABLES truth, copy, log, synced

vars == <<truth, copy, log, synced>>

\* the copy and the log account for every change
Accounted == Applied(copy, log) = truth

Init == synced => Accounted

\* the system changes, and says so
Change ==
    /\ synced /\ synced'
    /\ copy' = copy
    /\ Len(log') = Len(log) + 1 /\ SubSeq(log', 1, Len(log)) = log
    /\ Accounted'

\* the copy takes the first updates of the log
Deliver ==
    /\ synced /\ synced' = synced /\ truth' = truth
    /\ \E n \in 1..Len(log) :
          /\ copy' = Applied(copy, SubSeq(log, 1, n))
          /\ log' = SubSeq(log, n + 1, Len(log))

FallBehind == synced' = FALSE

Resync == ~synced /\ synced' /\ Accounted'

Next == Change \/ Deliver \/ FallBehind \/ Resync

Spec == Init /\ [][Next]_vars /\ WF_vars(Deliver)
=============================================================================
