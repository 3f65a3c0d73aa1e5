----------------------------- MODULE MCDHCPClient -----------------------------
(* Instances of DHCPClient for TLC. *)
EXTENDS DHCPClient

MCEnvs ==
    {{"nak", "timer", "watchdog"}, {"signal", "timer"}, {"signal", "nak", "exit"},
     {"nak", "watchdog", "exit", "restart", "lease"}, {"timer", "exit"},
     {"netdown", "exit"}, {"nodump", "exit", "restart", "lease"}}
MCFairEnvs ==
    {{"watchdog", "nak", "lease"}, {"nak", "exit", "timer"}, {"timer", "exit", "restart"}}
MCExit == {{"nak", "exit", "timer", "lease"}}
===============================================================================
