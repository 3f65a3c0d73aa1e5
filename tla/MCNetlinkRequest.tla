--------------------------- MODULE MCNetlinkRequest ---------------------------
(* Instances of NetlinkRequest for TLC. *)
EXTENDS NetlinkRequest, TLC

CONSTANTS r1, r2

MCOne == {r1}
MCTwo == {r1, r2}
MCNone == {}
MCNoBatch == {<<>>}
\* Two requests of their own, or a batch of both in either order.
MCBatches == {<<>>, <<r1, r2>>, <<r2, r1>>}
MCSeqs == {1, 2}

\* An error, a reply with its acknowledgement, a dump.
MCAnswers ==
    {<<<<"err">>>>, <<<<"msg">>, <<"ack">>>>, <<<<"part">>, <<"part", "done">>>>}

\* A part of a dump, parsed or not, and its end.
MCDumps == {<<<<"part">>, <<"done">>>>, <<<<"skip">>, <<"done">>>>}

MCQuiet == {{}}
MCForeign == {{"foreign"}}
MCEnvs == {{"proxy", "encode"}, {"overrun"}, {"notify"}}
MCFairEnvs == {{"monitor", "close"}}

Symmetric == Permutations(MCTwo)
===============================================================================
