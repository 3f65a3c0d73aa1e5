-------------------------- MODULE MCNDBTransaction --------------------------
EXTENDS NDBTransaction, TLC

CONSTANTS eth0, eth1, ip1, ip2

MCOwner == ip1 :> eth0 @@ ip2 :> eth0
MCEnvs == {{"late", "refuse"}, {"hostile"}, {"other"}, {"stalled"}}

MCStarts == {s \in [{eth0, eth1, ip1, ip2} -> {0, 1}] :
               /\ s[ip2] = 1 => s[ip1] = 1
               /\ s[ip1] = 1 => s[eth0] = 1}

\* what is done to eth0 and eth1 before a call
Scripts == {<<>>} \cup
           {<<<<"script", eth0, <<op, ip1>>>>>> : op \in {"add", "del", "ensure"}} \cup
           {<<<<"script", eth0, <<p, ip1>>>>, <<"script", eth0, <<q, ip2>>>>>> :
              p, q \in {"add", "del"}}
Eth0 == {<<<<"remove", eth0>>>>} \cup
        {<<<<"set", eth0, 2>>>> \o s : s \in Scripts}
Eth1 == {<<<<"set", eth1, 2>>>>, <<>>}

\* nobody removes what does not exist; eth1 matters to a transaction
MCPlans(s) ==
    {p \in
      {p \o <<<<"commit", <<eth0>>>>, <<"rollback", <<eth0>>>>>> : p \in Eth0} \cup
      {<<<<"set", eth0, 2>>, <<"commit", <<eth0>>>>>> \o p
        \o <<<<"commit", <<eth0>>>>>> : p \in Eth0} \cup
      {<<<<"set", eth0, 2>>, <<"commit", <<eth0>>>>, <<"tx", <<eth0, eth1>>>>>>} \cup
      {p \o r \o <<<<"tx", q>>>> : p \in Eth0, r \in Eth1,
                                   q \in {<<eth0, eth1>>, <<eth1, eth0>>}} :
     /\ Head(p)[1] = "remove" => s[eth0] = 1
     /\ Last(p)[1] # "tx" => s[eth1] = 1}
=============================================================================
