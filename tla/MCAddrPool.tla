------------------------------ MODULE MCAddrPool ------------------------------
(***************************************************************************)
(* Instances of AddrPool for model checking: two threads, two-bit cells.   *)
(* A behaviour is one of the forward pool of the configuration, whose last *)
(* cell is partial, or of the reverse pool defined here, which has full    *)
(* cells only and bans every address as it hands it out.                   *)
(***************************************************************************)
EXTENDS AddrPool

CONSTANTS t1, t2

VARIABLES
    pool,       \* which of the two pools this behaviour is about
    r_addr_map, r_ban, r_lock, r_item, r_held, r_out, r_misused

MCThread == {t1, t2}
MCTicks == {1, 2}

Rev == INSTANCE AddrPool WITH
    MinAddr <- 0, MaxAddr <- 5, Reverse <- TRUE, Release <- 7, Misuse <- FALSE, MaxBan <- 3,
    addr_map <- r_addr_map, ban <- r_ban, lock <- r_lock, item <- r_item,
    held <- r_held, out <- r_out, misused <- r_misused

rvars == <<r_addr_map, r_ban, r_lock, r_item, r_held, r_out, r_misused>>
mcvars == <<vars, pool, rvars>>

MCInit == Init /\ Rev!Init /\ pool \in {"forward", "reverse"}

MCNext ==
    \/ pool = "forward" /\ Next /\ UNCHANGED <<pool, rvars>>
    \/ pool = "reverse" /\ Rev!Next /\ UNCHANGED <<pool, vars>>

MCSpec ==
    /\ MCInit /\ [][MCNext]_mcvars
    /\ \A t \in Thread : WF_vars(Running(t))

\* The reverse pool is a pool, too: alloc() hands out what is neither held nor
\* banned, and fails on real exhaustion and not before, although each call bans
\* what it returns and its growth collects the ban list once more.
ReverseIsPool == Rev!IsPool
=============================================================================
