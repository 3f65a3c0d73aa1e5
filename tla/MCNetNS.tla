------------------------------ MODULE MCNetNS ------------------------------
EXTENDS NetNS, TLC

CONSTANTS t1, t2, foo

MCEnvs == {{"remove"}, {"fail"}, {"timeout", "stuck"}, {"timeout", "stuck", "handler"},
           {"die", "handler", "disable_mp_signal"}}

\* two threads and one name: it is created twice, or created and entered, or
\* removed under the other; a socket is opened again after the name was made
Pairs == {<< <<<<"create", foo>>>>, <<<<"push", foo>>, <<"pop">>>> >>,
          << <<<<"socket", foo>>, <<"socket", foo>>>>, <<<<"socket", foo>>>> >>,
          << <<<<"push", NoName>>, <<"setns", foo>>, <<"pop">>, <<"drop">>>>, <<<<"socket", foo>>>> >>,
          << <<<<"create", foo>>, <<"remove", foo>>>>, <<<<"socket", foo>>>> >>,
          << <<<<"create", foo>>, <<"remove", foo>>>>, <<<<"create", foo>>>> >>}
MCPlans == {t1 :> p[1] @@ t2 :> p[2] : p \in Pairs}
=============================================================================
