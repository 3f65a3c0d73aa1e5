-------------------------------- MODULE Pool --------------------------------
(***************************************************************************)
(* What an address pool promises to its callers, without bitmap, ban list  *)
(* and lock: a call of alloc() is granted an address that is neither held  *)
(* nor banned, or refused when there is none; an address that is given     *)
(* back may be banned, and the ban ends some time later.  Nothing is       *)
(* promised any more once a caller gives back what it does not hold.       *)
(***************************************************************************)

CONSTANTS Thread, Addr, None, KeyError

VARIABLES held, banned, out, misused

poolvars == <<held, banned, out, misused>>

Init == held = {} /\ banned = {} /\ out = [t \in Thread |-> None] /\ misused = FALSE

Taken == held \cup banned

Call(t) == out' = [out EXCEPT ![t] = None] /\ UNCHANGED <<held, banned>>

\* some pools ban every address that they hand out
Grant(t) ==
    \E a \in Addr \ Taken :
        /\ out' = [out EXCEPT ![t] = a]
        /\ \/ held' = held \cup {a} /\ UNCHANGED banned
           \/ banned' = banned \cup {a} /\ UNCHANGED held

Refuse(t) ==
    /\ Addr \subseteq Taken
    /\ out' = [out EXCEPT ![t] = KeyError] /\ UNCHANGED <<held, banned>>

GiveBack ==
    \E a \in held : /\ held' = held \ {a} /\ UNCHANGED out
                    /\ banned' = banned \/ banned' = banned \cup {a}

Expire == \E a \in banned : banned' = banned \ {a} /\ UNCHANGED <<held, out>>

Next == \/ misused'
        \/ /\ misused' <=> misused
           /\ \/ \E t \in Thread : Call(t) \/ Grant(t) \/ Refuse(t)
              \/ GiveBack \/ Expire

Spec == Init /\ [][Next]_poolvars
=============================================================================
