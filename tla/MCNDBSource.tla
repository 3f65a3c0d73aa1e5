---------------------------- MODULE MCNDBSource ----------------------------
EXTENDS NDBSource, TLC

CONSTANTS eth, addr, route, zero

MCOrder == <<eth, addr, route>>
MCParent == addr :> eth @@ route :> zero

MCEnvs == {{"overrun"}, {"restart"}, {"close"}, {"fail", "overrun"}, {"remove"},
           {"api"}, {"api", "race"}, {"overrun", "restart"}}

=============================================================================
