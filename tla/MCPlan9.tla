------------------------------ MODULE MCPlan9 ------------------------------
EXTENDS Plan9, TLC

CONSTANTS c1, c2, t1, t2, t3, f1, f2, none, root

MCClientOf == t1 :> c1 @@ t2 :> c1 @@ t3 :> c2
MCEnvs == {{"cancel"}, {"join"}, {"lost"}}

\* the path is walked to by one coroutine and used by another, before and after
\* the tags are used up; the walk fails; arguments are written, and the result
\* read, while another calls, writes, raises or exits
Pairs == {<< <<<<"call", f1, 3>>, <<"call", f1, 4>>, <<"call", f1, 3>>, <<"call", f2, 3>>>>, <<>> >>,
          << <<<<"call", f1, 3>>, <<"call", f2, 3>>>>, <<<<"call", f1, 4>>, <<"call", f2, 4>>>> >>,
          << <<<<"call", none, 3>>, <<"call", none, 3>>>>, <<<<"call", f1, 1>>>> >>,
          << <<<<"write", f1, 3>>, <<"read", f1>>>>, <<<<"write", f1, 4>>>> >>,
          << <<<<"write", f1, 1>>, <<"read", f1>>, <<"read", f1>>>>, <<<<"call", f1, 4>>>> >>,
          << <<<<"write", f1, 2>>, <<"read", f1>>>>, <<<<"call", f2, 3>>>> >>,
          << <<<<"call", f1, 2>>>>, <<<<"call", f1, 3>>>> >>}
MCPlans == {t1 :> <<<<"start">>>> \o p[1] @@ t2 :> p[2] @@ t3 :> <<>> : p \in Pairs}
=============================================================================
