------------------------ MODULE NetlinkRequestProofs ------------------------
(***************************************************************************)
(* Proofs about NetlinkRequest, for every set of requests, numbers,        *)
(* batches, answers and environments, and every length of the ban.         *)
(***************************************************************************)
EXTENDS NetlinkRequest, TLAPS

\* A request that has not been created owns nothing; one that is live has a
\* number, and the kernel owes answers only to those that have one.
Numbered ==
    \A r \in Req :
        /\ pc[r] = "new" =>
              msg_seq[r] = None /\ freed[r] = None /\ mixed[r] = {} /\ todo[r] = <<>>
        /\ r \in Live => msg_seq[r] # None /\ freed[r] = None
        /\ pc[r] = "queued" => msg_seq[r] # None
        /\ todo[r] # <<>> => msg_seq[r] # None

\* The answers in the receive buffer and in the queues carry the number of
\* their request, and a queue holds what carries its tag.
Fits(d) == d.owner \in Req => msg_seq[d.owner] = d.tag
Tagged ==
    /\ \A i \in DOMAIN rcv : Fits(rcv[i])
    /\ \A t \in DOMAIN queues : \A i \in DOMAIN queues[t] :
          Fits(queues[t][i]) /\ (t # 0 => queues[t][i].tag = t)

\* A number that q has released is still banned for the rest of Ban + 1 passes,
\* or was taken again after them.
Aged ==
    \A q \in Req : msg_seq[q] # None /\ q \notin Live =>
        /\ freed[q] \in Nat /\ freed[q] <= passes
        /\ msg_seq[q] \notin held => ban[msg_seq[q]] + passes > freed[q] + Ban
        /\ \A r \in Live : msg_seq[r] = msg_seq[q] => taken[r] > freed[q] + Ban

NetInv == TypeOK /\ OwnTags /\ Numbered /\ Tagged /\ Aged /\ LateAnswersAreOld

-----------------------------------------------------------------------------
(* The initial states. *)

\* A new socket.
LEMMA InitInv == Init => NetInv
<1> SUFFICES ASSUME Init PROVE NetInv
  OBVIOUS
<1>. USE RequestAssumption
<1>1. TypeOK
  <2>1. Nothing \in Datagrams /\ <<>> \in Seq(Datagrams) /\ <<>> \in Seq(Seq(Kinds))
    BY DEF Tags, Datagrams, Datagram, Nothing
  <2>2. noack \subseteq Req
    <3>1. msgs \in Seq(Req) /\ noack \subseteq {msgs[i] : i \in DOMAIN msgs}
      BY DEF Init
    <3>. QED  BY <3>1
  <2>3. ban \in [Seqs -> 0..(Ban + 1)]
    BY DEF Init
  <2>4. /\ DOMAIN queues \subseteq Tags
        /\ \A t \in DOMAIN queues : queues[t] \in Seq(Datagrams)
        /\ DOMAIN seq_map \subseteq Seqs
    BY <2>1 DEF Init, Tags
  <2>5. pc \in [Req -> Labels]
    BY DEF Init, Labels
  <2>6. /\ todo \in [Req -> Seq(Seq(Kinds))] /\ rcv \in Seq(Datagrams)
        /\ batch \in [Req -> Datagrams]
    BY <2>1 DEF Init
  <2>7. {broken, closed, overrun} \subseteq BOOLEAN
    BY Zenon DEF Init
  <2>8. /\ msg_seq \in [Req -> Seqs \cup {None}] /\ tries \in [Req -> 0..MaxTries]
        /\ last \in [Req -> Kinds \cup {None}]
        /\ taken \in [Req -> Nat] /\ freed \in [Req -> Nat \cup {None}]
        /\ mixed \in [Req -> SUBSET (Req \cup {None})]
    BY DEF Init
  <2>. QED
    BY <2>2, <2>3, <2>4, <2>5, <2>6, <2>7, <2>8 DEF Init, TypeOK
<1>2. OwnTags
  BY DEF Init, OwnTags, Live, Lost
<1>3. Numbered
  BY DEF Init, Numbered, Live
<1>4. Tagged
  BY DEF Init, Tagged, Fits
<1>5. Aged
  BY DEF Init, Aged
<1>6. LateAnswersAreOld
  BY DEF Init, LateAnswersAreOld
<1>. QED
  BY <1>1, <1>2, <1>3, <1>4, <1>5, <1>6 DEF NetInv

-----------------------------------------------------------------------------
(* What the classes of actions do to the numbers. *)

\* Nothing changes for the numbers while no request becomes live or ceases to
\* be.
LEMMA NumbersStay ==
    ASSUME OwnTags, Aged, Live' = Live /\ Lost' = Lost, DOMAIN queues' = DOMAIN queues,
           UNCHANGED <<poolvars, seq_map, msg_seq, taken, freed>>
    PROVE  OwnTags' /\ Aged'
<1>1. OwnTags'
  BY DEF OwnTags, poolvars
<1>2. Aged'
  BY DEF Aged, poolvars
<1>. QED
  BY <1>1, <1>2

\* What a live request finds in its queue was sent to it, by nobody, or to a
\* request that had the number before the ban ran out.
LEMMA StrangerIsOld ==
    ASSUME NetInv, NEW r \in Live \ Lost, NEW i \in DOMAIN queues[msg_seq[r]],
           NEW d, d = queues[msg_seq[r]][i], d.owner \in Req \ {r}
    PROVE  freed[d.owner] # None /\ taken[r] > freed[d.owner] + Ban
<1>1. r \in Req /\ msg_seq[r] \in Seqs /\ msg_seq[r] # 0
  BY RequestAssumption DEF Live, NetInv, Numbered, TypeOK
<1>2. msg_seq[r] \in DOMAIN queues
  BY DEF NetInv, OwnTags
<1>3. msg_seq[d.owner] = msg_seq[r]
  BY <1>1, <1>2 DEF NetInv, Tagged, Fits
<1>4. d.owner \notin Live
  BY <1>3 DEF NetInv, OwnTags
<1>. QED
  BY <1>1, <1>3, <1>4, RequestAssumption, Zenon DEF NetInv, Aged

\* A step of one coroutine that is live before and after it.
LEMMA GotoLive ==
    ASSUME TypeOK, NEW r \in Live \ Lost,
           \/ Goto(r, "busy") \/ Goto(r, "sent") \/ Goto(r, "wait") \/ Goto(r, "parse")
           \/ Goto(r, "yielded") \/ Goto(r, "leaked")
    PROVE  /\ pc' \in [Req -> Labels] /\ Live' = Live /\ Lost' = Lost
           /\ \A q \in Req : pc'[q] \in {"new", "queued"} => pc'[q] = pc[q]
<1>1. /\ r \in Req /\ pc \in [Req -> Labels]
      /\ pc[r] \notin {"new", "queued", "lost"} \cup Finished
  BY DEF Live, Lost, TypeOK
<1>2. PICK l \in {"busy", "sent", "wait", "parse", "yielded", "leaked"} :
         pc' = [pc EXCEPT ![r] = l]
  BY DEF Goto
<1>. QED
  BY <1>1, <1>2 DEF Live, Lost, Labels, Finished

\* The last step of a coroutine; it may abort the rest of a batch.
LEMMA GotoEnd ==
    ASSUME TypeOK, NEW r \in Live \ Lost,
           \/ Goto(r, "done") \/ Goto(r, "failed") \/ Goto(r, "stopped")
           \/ EndBatch(r, "failed", TRUE) \/ EndBatch(r, "failed", FALSE)
           \/ EndBatch(r, "stopped", TRUE) \/ Goto(r, "queued")
    PROVE  /\ pc' \in [Req -> Labels] /\ Live' = Live \ {r} /\ Lost' = Lost
           /\ \A q \in Req \ {r} : pc'[q] \in {"new", "queued"} => pc'[q] = pc[q]
           /\ pc'[r] # "new"
<1>1. /\ r \in Req /\ pc \in [Req -> Labels]
      /\ pc[r] \notin {"new", "queued", "lost"} \cup Finished
  BY DEF Live, Lost, TypeOK
<1>2. CASE \E l \in {"done", "failed", "stopped", "queued"} : Goto(r, l)
  BY <1>1, <1>2 DEF Live, Lost, Goto, Labels, Finished
<1>3. CASE \E l \in {"failed", "stopped"}, a \in BOOLEAN : EndBatch(r, l, a)
  <2>1. PICK l \in {"failed", "stopped"}, a \in BOOLEAN : EndBatch(r, l, a)
    BY <1>3
  <2>2. /\ pc' = [q \in Req |-> pc'[q]] /\ pc'[r] = l
        /\ \A q \in Req \ {r} : pc'[q] = pc[q] \/ (pc[q] = "sent" /\ pc'[q] = "leaked")
    BY <2>1, <1>1 DEF EndBatch
  <2>. QED
    BY <2>2, <1>1 DEF Live, Lost, Labels, Finished
<1>. QED
  BY <1>2, <1>3, Zenon

\* A step that neither begins nor ends a request.
LEMMA NumberedStays ==
    ASSUME Numbered, Live' = Live, UNCHANGED <<msg_seq, freed, mixed, todo>>,
           \A q \in Req : pc'[q] \in {"new", "queued"} => pc'[q] = pc[q]
    PROVE  Numbered'
BY DEF Numbered

\* A request that ends releases its number, and its number only.
LEMMA CleanupKeeps ==
    ASSUME NetInv, NEW r \in Live \ Lost, Cleanup(r), Live' = Live \ {r} /\ Lost' = Lost
    PROVE  OwnTags' /\ Aged'
<1>. USE RequestAssumption
<1>1. /\ r \in Req /\ msg_seq[r] \in Seqs /\ msg_seq[r] # 0 /\ freed[r] = None
      /\ msg_seq[r] \in held
  BY DEF Live, NetInv, Numbered, TypeOK, OwnTags
<1>2. /\ held' = held \ {msg_seq[r]} /\ msg_seq' = msg_seq
      /\ DOMAIN queues' = DOMAIN queues \ {msg_seq[r]}
      /\ DOMAIN seq_map' = DOMAIN seq_map \ {msg_seq[r]}
      /\ \A s \in DOMAIN seq_map' : seq_map'[s] = seq_map[s]
  BY DEF Cleanup, Without
<1>3. OwnTags'
  <2>1. held' = {msg_seq'[q] : q \in Live'}
    BY <1>2 DEF NetInv, OwnTags
  <2>2. DOMAIN queues' = {msg_seq'[q] : q \in Live' \ Lost'} \cup {0}
    BY <1>1, <1>2 DEF NetInv, OwnTags
  <2>3. \A q, p \in Live' : msg_seq'[q] = msg_seq'[p] => q = p
    BY <1>2 DEF NetInv, OwnTags
  <2>4. \A s \in DOMAIN seq_map' : seq_map'[s] \in Live' \ Lost' /\ msg_seq'[seq_map'[s]] = s
    BY <1>2 DEF NetInv, OwnTags
  <2>. QED
    BY <2>1, <2>2, <2>3, <2>4 DEF OwnTags
<1>4. Aged'
  <2>1. /\ freed \in [Req -> Nat \cup {None}] /\ freed' = [freed EXCEPT ![r] = passes]
        /\ ban \in [Seqs -> 0..(Ban + 1)] /\ ban' = [ban EXCEPT ![msg_seq[r]] = Ban + 1]
        /\ passes \in Nat /\ passes' = passes /\ taken' = taken
        /\ msg_seq \in [Req -> Seqs \cup {None}] /\ Ban \in Nat
    BY DEF Cleanup, NetInv, TypeOK
  <2>2. SUFFICES ASSUME NEW q \in Req, msg_seq[q] # None, q \notin Live'
        PROVE  /\ freed'[q] \in Nat /\ freed'[q] <= passes
               /\ msg_seq[q] \notin held' => ban'[msg_seq[q]] + passes > freed'[q] + Ban
               /\ \A p \in Live' : msg_seq[p] = msg_seq[q] => taken[p] > freed'[q] + Ban
    BY <1>2, <2>1 DEF Aged
  <2>3. CASE q = r
    <3>1. \A p \in Live' : msg_seq[p] # msg_seq[r]
      BY DEF NetInv, OwnTags
    <3>. QED
      BY <3>1, <2>1, <2>3, <1>1
  <2>4. CASE q # r
    <3>1. /\ freed'[q] = freed[q] /\ freed[q] \in Nat /\ freed[q] <= passes
          /\ msg_seq[q] \notin held => ban[msg_seq[q]] + passes > freed[q] + Ban
          /\ \A p \in Live : msg_seq[p] = msg_seq[q] => taken[p] > freed[q] + Ban
      BY <2>1, <2>2, <2>4 DEF NetInv, Aged
    <3>2. msg_seq[q] \in Seqs
      BY <2>1, <2>2
    <3>3. msg_seq[q] \notin held' => ban'[msg_seq[q]] + passes > freed[q] + Ban
      BY <3>1, <3>2, <1>2, <2>1
    <3>. QED
      BY <3>1, <3>3
  <2>. QED
    BY <2>3, <2>4
<1>. QED
  BY <1>3, <1>4

\* ... and keeps the rest of the invariant.
LEMMA CleanupNumbered ==
    ASSUME NetInv, NEW r \in Live \ Lost, Cleanup(r), Live' = Live \ {r} /\ Lost' = Lost,
           pc'[r] # "new",
           \A q \in Req \ {r} : pc'[q] \in {"new", "queued"} => pc'[q] = pc[q],
           UNCHANGED todo, \A q \in Req : mixed'[q] # mixed[q] => q = r
    PROVE  Numbered'
<1>1. /\ r \in Req /\ msg_seq[r] # None /\ msg_seq' = msg_seq
      /\ \A q \in Req \ {r} : freed'[q] = freed[q]
  BY DEF Live, NetInv, Numbered, Cleanup, TypeOK
<1>. QED
  BY <1>1 DEF Numbered, NetInv

\* cleanup() leaves the datagrams of others alone.
LEMMA CleanupTagged ==
    ASSUME NetInv, NEW r \in Live \ Lost, Cleanup(r), UNCHANGED rcv
    PROVE  Tagged'
BY DEF NetInv, Tagged, Fits, Cleanup, Without

\* cleanup() keeps the types.
LEMMA CleanupType ==
    ASSUME NetInv, NEW r \in Live \ Lost, Cleanup(r), pc' \in [Req -> Labels],
           mixed' \in [Req -> SUBSET (Req \cup {None})],
           UNCHANGED <<rcv, todo, sockvars, inputs>>
    PROVE  TypeOK'
<1>. USE RequestAssumption
<1>1. r \in Req /\ msg_seq[r] \in Seqs /\ TypeOK
  BY DEF Live, NetInv, Numbered, TypeOK
<1>2. /\ held' \subseteq Seqs /\ passes' \in Nat /\ ban' \in [Seqs -> 0..(Ban + 1)]
      /\ freed' \in [Req -> Nat \cup {None}]
  <2>1. held' \subseteq Seqs /\ passes' \in Nat
    BY <1>1, Zenon DEF TypeOK, Cleanup
  <2>2. ban' \in [Seqs -> 0..(Ban + 1)]
    BY <1>1 DEF TypeOK, Cleanup
  <2>3. freed' \in [Req -> Nat \cup {None}]
    BY <1>1 DEF TypeOK, Cleanup
  <2>. QED
    BY <2>1, <2>2, <2>3
<1>3. /\ DOMAIN queues' \subseteq Tags /\ DOMAIN seq_map' \subseteq Seqs
      /\ \A t \in DOMAIN queues' : queues'[t] \in Seq(Datagrams)
  BY <1>1 DEF TypeOK, Cleanup, Without
<1>4. Nothing \in Datagrams
  BY DEF Tags, Datagrams, Datagram, Nothing
<1>5. /\ batch' \in [Req -> Datagrams] /\ last' \in [Req -> Kinds \cup {None}]
      /\ tries' \in [Req -> 0..MaxTries]
  BY <1>1, <1>4 DEF TypeOK, Cleanup
<1>6. /\ rcv' \in Seq(Datagrams) /\ todo' \in [Req -> Seq(Seq(Kinds))]
      /\ msg_seq' \in [Req -> Seqs \cup {None}] /\ taken' \in [Req -> Nat]
      /\ reader' \in {"idle", "wait"} /\ notes' \in 0..MaxNotes
      /\ env' \in Envs /\ msgs' \in Batches /\ noack' \subseteq Req
  BY <1>1 DEF TypeOK, Cleanup, sockvars, inputs
<1>7. {broken, closed, overrun}' \subseteq BOOLEAN
  BY <1>1 DEF TypeOK, sockvars
<1>. QED
  BY <1>2, <1>3, <1>5, <1>6, <1>7 DEF TypeOK

\* What has been read stays old: a release is recorded once, and the time at
\* which a number was taken does not change while its request reads.
LEMMA LateStays ==
    ASSUME LateAnswersAreOld, UNCHANGED <<mixed, taken>>,
           \A q \in Req : freed[q] # None => freed'[q] = freed[q], TypeOK
    PROVE  LateAnswersAreOld'
BY DEF LateAnswersAreOld, TypeOK

\* cleanup() bans the number for the whole ban.
LEMMA CleanupLate ==
    ASSUME NetInv, NEW r \in Live \ Lost, Cleanup(r), UNCHANGED mixed
    PROVE  LateAnswersAreOld'
<1>1. \A q \in Req : freed[q] # None => freed'[q] = freed[q]
  BY DEF Live, NetInv, Numbered, Cleanup, TypeOK
<1>2. taken' = taken
  BY DEF Cleanup
<1>. QED
  BY <1>1, <1>2, LateStays DEF NetInv

-----------------------------------------------------------------------------
(* The actions that end a request. *)

\* The ends of a request or of its attempt that call cleanup().
LEMMA EndInv ==
    ASSUME NetInv, NEW r \in Live \ Lost, Cleanup(r),
           UNCHANGED <<rcv, todo, sockvars, inputs, mixed>>,
           \/ Goto(r, "done") \/ Goto(r, "failed") \/ Goto(r, "stopped")
           \/ EndBatch(r, "failed", TRUE) \/ EndBatch(r, "failed", FALSE)
           \/ EndBatch(r, "stopped", TRUE) \/ Goto(r, "queued")
    PROVE  NetInv'
<1>1. /\ pc' \in [Req -> Labels] /\ Live' = Live \ {r} /\ Lost' = Lost /\ pc'[r] # "new"
      /\ \A q \in Req \ {r} : pc'[q] \in {"new", "queued"} => pc'[q] = pc[q]
  <2>. TypeOK
    BY DEF NetInv
  <2>. QED
    BY GotoEnd, Zenon
<1>2. OwnTags' /\ Aged'
  BY <1>1, CleanupKeeps
<1>3. Numbered'
  BY <1>1, CleanupNumbered
<1>4. Tagged'
  BY CleanupTagged
<1>5. TypeOK'
  <2>. mixed' \in [Req -> SUBSET (Req \cup {None})]
    BY DEF NetInv, TypeOK
  <2>. QED
    BY <1>1, CleanupType
<1>6. LateAnswersAreOld'
  BY CleanupLate
<1>. QED
  BY <1>2, <1>3, <1>4, <1>5, <1>6 DEF NetInv

\* The datagram at the head of the queue of r is one of its datagrams.
LEMMA HeadOfQueue ==
    ASSUME NetInv, NEW r \in Req, HasData(r)
    PROVE  /\ r \in Live \ Lost /\ msg_seq[r] \in DOMAIN queues /\ 1 \in DOMAIN Pending(r)
           /\ Pending(r) \in Seq(Datagrams) /\ Pending(r) # <<>>
           /\ Head(Pending(r)) = queues[msg_seq[r]][1] /\ Head(Pending(r)) \in Datagrams
<1>1. r \in Live \ Lost
  BY DEF HasData, Live, Lost, Finished
<1>2. msg_seq[r] \in DOMAIN queues
  BY <1>1 DEF NetInv, OwnTags
<1>3. Pending(r) \in Seq(Datagrams) /\ Pending(r) # <<>>
  BY <1>2 DEF Pending, HasData, NetInv, TypeOK
<1>4. Head(Pending(r)) = Pending(r)[1] /\ 1 \in DOMAIN Pending(r) /\ Pending(r)[1] \in Datagrams
  BY <1>3
<1>. QED
  BY <1>1, <1>2, <1>3, <1>4 DEF Pending

\* Reading a stranger's datagram.
LEMMA StrangersLate ==
    ASSUME NetInv, NEW r \in Req, HasData(r), Strangers(r, Head(Pending(r))),
           UNCHANGED taken, \A q \in Req : freed[q] # None => freed'[q] = freed[q]
    PROVE  /\ LateAnswersAreOld' /\ mixed' \in [Req -> SUBSET (Req \cup {None})]
           /\ \A q \in Req : mixed'[q] # mixed[q] => q = r
<1>. DEFINE d == Head(Pending(r))
<1>1. /\ r \in Live \ Lost /\ 1 \in DOMAIN queues[msg_seq[r]] /\ d = queues[msg_seq[r]][1]
      /\ d.owner \in Req \cup {None}
  BY HeadOfQueue DEF Datagrams, Pending
<1>2. d.owner \in Req \ {r} => freed[d.owner] # None /\ taken[r] > freed[d.owner] + Ban
  <2>. HIDE DEF d
  <2>. QED
    BY <1>1, StrangerIsOld
<1>3. /\ mixed \in [Req -> SUBSET (Req \cup {None})]
      /\ mixed' = [mixed EXCEPT ![r] = @ \cup ({d.owner} \ {r})]
  BY DEF NetInv, TypeOK, Strangers
<1>4. mixed' \in [Req -> SUBSET (Req \cup {None})]
  <2>. HIDE DEF d
  <2>. QED
    BY <1>1, <1>3
<1>5. \A q \in Req : mixed'[q] # mixed[q] => q = r
  BY <1>3
<1>6. LateAnswersAreOld'
  <2>. HIDE DEF d
  <2>1. SUFFICES ASSUME NEW p \in Req, NEW q \in mixed'[p] \ {None}
        PROVE  freed'[q] # None /\ taken'[p] > freed'[q] + Ban
    BY DEF LateAnswersAreOld
  <2>2. q \in Req
    BY <1>4
  <2>3. CASE q \in mixed[p]
    BY <2>2, <2>3 DEF NetInv, LateAnswersAreOld
  <2>4. CASE q \notin mixed[p]
    <3>1. p = r /\ q = d.owner /\ q # r
      BY <2>4, <1>3
    <3>. QED
      BY <3>1, <2>2, <1>2
  <2>. QED
    BY <2>3, <2>4
<1>. QED
  BY <1>4, <1>5, <1>6

\* A queue that holds no message for the request.
LEMMA TakeNothingInv ==
    ASSUME NetInv, NEW r \in Req, TakeNothing(r)
    PROVE  NetInv'
<1>1. /\ r \in Live \ Lost /\ HasData(r) /\ Cleanup(r) /\ Goto(r, "done")
      /\ Strangers(r, Head(Pending(r))) /\ UNCHANGED <<rcv, todo, sockvars, inputs>>
  BY HeadOfQueue DEF TakeNothing
<1>2. /\ pc' \in [Req -> Labels] /\ Live' = Live \ {r} /\ Lost' = Lost /\ pc'[r] # "new"
      /\ \A q \in Req \ {r} : pc'[q] \in {"new", "queued"} => pc'[q] = pc[q]
  <2>. TypeOK
    BY DEF NetInv
  <2>. QED
    BY <1>1, GotoEnd, Zenon
<1>3. UNCHANGED taken /\ \A q \in Req : freed[q] # None => freed'[q] = freed[q]
  BY <1>1 DEF Live, NetInv, Numbered, Cleanup, TypeOK
<1>4. /\ LateAnswersAreOld' /\ mixed' \in [Req -> SUBSET (Req \cup {None})]
      /\ \A q \in Req : mixed'[q] # mixed[q] => q = r
  BY <1>1, <1>3, StrangersLate
<1>5. OwnTags' /\ Aged'
  BY <1>1, <1>2, CleanupKeeps
<1>6. Numbered'
  BY <1>1, <1>2, <1>4, CleanupNumbered
<1>7. Tagged'
  BY <1>1, CleanupTagged
<1>8. TypeOK'
  BY <1>1, <1>2, <1>4, CleanupType
<1>. QED
  BY <1>4, <1>5, <1>6, <1>7, <1>8 DEF NetInv

\* A response ends, with an error or not, or is given up; a request fails to be
\* sent, or expects no response.
LEMMA EndingInv ==
    ASSUME NetInv, NEW r \in Req,
           \/ SendFails(r) \/ BatchNoAck(r) \/ ParseDone(r) \/ ParseError(r, TRUE)
           \/ ParseError(r, FALSE) \/ Complete(r) \/ Terminate(r) \/ Abandon(r)
    PROVE  NetInv'
<1>1. SendFails(r) => NetInv'
  BY EndInv, Zenon DEF SendFails, Live, Lost, Finished
<1>2. BatchNoAck(r) => NetInv'
  BY EndInv, Zenon DEF BatchNoAck, Live, Lost, Finished
<1>3. ParseDone(r) => NetInv'
  BY EndInv, Zenon DEF ParseDone, Parses, Live, Lost, Finished
<1>4. ParseError(r, TRUE) => NetInv'
  BY EndInv, Zenon DEF ParseError, Parses, Live, Lost, Finished
<1>5. ParseError(r, FALSE) => NetInv'
  BY EndInv, Zenon DEF ParseError, Parses, Live, Lost, Finished
<1>6. Complete(r) => NetInv'
  BY EndInv, Zenon DEF Complete, EndOfDatagram, Live, Lost, Finished
<1>7. Terminate(r) => NetInv'
  BY EndInv, Zenon DEF Terminate, EndOfDatagram, Live, Lost, Finished
<1>8. Abandon(r) => NetInv'
  BY EndInv, Zenon DEF Abandon, Live, Lost, Finished
<1>. QED
  BY <1>1, <1>2, <1>3, <1>4, <1>5, <1>6, <1>7, <1>8, Zenon

-----------------------------------------------------------------------------
(* The actions that take numbers from the pool. *)

\* A pass over the ban list costs a banned number as much as the passes gain.
LEMMA MinusSum ==
    ASSUME NEW a \in Nat, NEW n \in Nat
    PROVE  Minus(a, n) \in Nat /\ Minus(a, n) <= a /\ Minus(a, n) + n >= a
BY DEF Minus

\* Collections of the ban list age the numbers that were given back.
LEMMA PassKeepsAge ==
    ASSUME NetInv, NEW n \in Nat, NEW q \in Req, msg_seq[q] # None, q \notin Live,
           ban' = [s \in Seqs |-> Minus(ban[s], n)], passes' = passes + n
    PROVE  /\ freed[q] \in Nat /\ freed[q] <= passes' /\ msg_seq[q] \in Seqs
           /\ msg_seq[q] \notin held => ban'[msg_seq[q]] + passes' > freed[q] + Ban
<1>1. /\ freed[q] \in Nat /\ freed[q] <= passes
      /\ msg_seq[q] \notin held => ban[msg_seq[q]] + passes > freed[q] + Ban
  BY DEF NetInv, Aged
<1>2. /\ msg_seq[q] \in Seqs /\ ban[msg_seq[q]] \in Nat /\ passes \in Nat
  <2>1. msg_seq[q] \in Seqs /\ passes \in Nat /\ ban \in [Seqs -> 0..(Ban + 1)]
    BY DEF NetInv, TypeOK
  <2>. QED
    BY <2>1, RequestAssumption
<1>3. ban'[msg_seq[q]] \in Nat /\ ban'[msg_seq[q]] + n >= ban[msg_seq[q]]
  BY <1>2, MinusSum, Zenon
<1>. QED
  BY <1>1, <1>2, <1>3, RequestAssumption

\* Collections of the ban list keep the types.
LEMMA PassType ==
    ASSUME TypeOK, NEW n \in Nat, ban' = [s \in Seqs |-> Minus(ban[s], n)],
           passes' = passes + n
    PROVE  ban' \in [Seqs -> 0..(Ban + 1)] /\ passes' \in Nat
<1>1. \A s \in Seqs : ban[s] \in 0..(Ban + 1) /\ Minus(ban[s], n) \in 0..(Ban + 1)
  BY RequestAssumption DEF TypeOK, Minus
<1>2. passes' \in Nat
  BY DEF TypeOK
<1>. QED
  BY <1>1, <1>2

\* A request for which no number is left.
LEMMA CreateFailsInv ==
    ASSUME NetInv, NEW r \in Req, CreateFails(r)
    PROVE  NetInv'
<1>. TypeOK
  BY DEF NetInv
<1>1. /\ pc[r] = "new" /\ pc' = [pc EXCEPT ![r] = "failed"]
      /\ ban' = [s \in Seqs |-> Minus(ban[s], 1)] /\ passes' = passes + 1
      /\ UNCHANGED <<held, queues, seq_map, rcv, todo, msg_seq, tries, batch, last,
                     sockvars, inputs, taken, freed, mixed>>
  BY DEF CreateFails, Goto, history
<1>2. pc' \in [Req -> Labels] /\ Live' = Live /\ Lost' = Lost
  BY <1>1 DEF TypeOK, Live, Lost, Labels, Finished
<1>3. TypeOK'
  <2>1. ban' \in [Seqs -> 0..(Ban + 1)] /\ passes' \in Nat
    BY <1>1, PassType
  <2>2. {broken, closed, overrun}' \subseteq BOOLEAN
    BY <1>1 DEF TypeOK, sockvars
  <2>. QED
    BY <1>1, <1>2, <2>1, <2>2 DEF TypeOK, sockvars, inputs
<1>4. OwnTags'
  <2>1. OwnTags
    BY DEF NetInv
  <2>2. /\ held' = held /\ queues' = queues /\ seq_map' = seq_map /\ msg_seq' = msg_seq
        /\ Live' = Live /\ Lost' = Lost
    BY <1>1, <1>2
  <2>. QED
    BY <2>1, <2>2 DEF OwnTags
<1>5. Numbered'
  BY <1>1, <1>2 DEF NetInv, Numbered, TypeOK
<1>6. Tagged'
  BY <1>1 DEF NetInv, Tagged, Fits
<1>7. Aged'
  <2>1. \A q \in Req : msg_seq[q] # None /\ q \notin Live =>
           /\ freed[q] \in Nat /\ freed[q] <= passes'
           /\ msg_seq[q] \notin held => ban'[msg_seq[q]] + passes' > freed[q] + Ban
    BY <1>1, PassKeepsAge
  <2>. QED
    BY <1>1, <1>2, <2>1 DEF NetInv, Aged
<1>8. LateAnswersAreOld'
  BY <1>1, LateStays DEF NetInv
<1>. QED
  BY <1>3, <1>4, <1>5, <1>6, <1>7, <1>8 DEF NetInv

\* A request takes a number; it opens its queue unless prepare() fails.
LEMMA NumberTaken ==
    ASSUME NetInv, NEW r \in Req, pc[r] = "new", NEW label \in {"prepared", "lost"},
           NEW s \in Seqs, NEW n \in {1, 2}, Alloc(s, n),
           msg_seq' = [msg_seq EXCEPT ![r] = s], Goto(r, label),
           queues' = IF label = "lost" THEN queues ELSE WithTag(queues, s),
           seq_map' = IF label # "lost" /\ r \in Parser
                      THEN [t \in DOMAIN seq_map \cup {s} |->
                               IF t = s THEN r ELSE seq_map[t]]
                      ELSE seq_map,
           taken' = [taken EXCEPT ![r] = passes'],
           UNCHANGED <<rcv, todo, tries, batch, last, sockvars, inputs, freed, mixed>>
    PROVE  NetInv'
<1>. USE RequestAssumption
<1>. TypeOK
  BY DEF NetInv
<1>1. /\ msg_seq' = [msg_seq EXCEPT ![r] = s]
      /\ queues' = IF label = "lost" THEN queues ELSE WithTag(queues, s)
      /\ seq_map' = IF label # "lost" /\ r \in Parser
                    THEN [t \in DOMAIN seq_map \cup {s} |->
                             IF t = s THEN r ELSE seq_map[t]]
                    ELSE seq_map
  OBVIOUS
<1>2. /\ pc[r] = "new" /\ pc' = [pc EXCEPT ![r] = label]
      /\ taken' = [taken EXCEPT ![r] = passes']
      /\ UNCHANGED <<rcv, todo, tries, batch, last, sockvars, inputs, freed, mixed>>
  BY DEF Goto
<1>3. /\ s \notin held /\ ban[s] <= n /\ held' = held \cup {s}
      /\ ban' = [q \in Seqs |-> Minus(ban[q], n)] /\ passes' = passes + n /\ n \in Nat
  BY DEF Alloc
<1>4. /\ pc' \in [Req -> Labels] /\ Live' = Live \cup {r} /\ r \notin Live
      /\ Lost' = IF label = "lost" THEN Lost \cup {r} ELSE Lost
  BY <1>2 DEF TypeOK, Live, Lost, Labels, Finished
<1>5. /\ msg_seq[r] = None /\ freed[r] = None /\ mixed[r] = {} /\ todo[r] = <<>>
      /\ None \notin Seqs /\ None \notin Tags
  <2>1. msg_seq[r] = None /\ freed[r] = None /\ mixed[r] = {} /\ todo[r] = <<>>
    BY <1>2 DEF NetInv, Numbered
  <2>2. Tags \subseteq Nat /\ Seqs \subseteq Nat
    BY DEF Tags
  <2>. QED
    BY <2>1, <2>2, Zenon
<1>6. /\ msg_seq \in [Req -> Seqs \cup {None}] /\ msg_seq'[r] = s
      /\ \A q \in Req \ {r} : msg_seq'[q] = msg_seq[q]
      /\ \A q \in Live : q \in Req \ {r} /\ msg_seq'[q] = msg_seq[q]
  <2>1. msg_seq \in [Req -> Seqs \cup {None}]
    BY DEF TypeOK
  <2>2. msg_seq'[r] = s /\ \A q \in Req \ {r} : msg_seq'[q] = msg_seq[q]
    BY <1>1, <2>1
  <2>3. \A q \in Live : q \in Req \ {r}
    BY <1>4 DEF Live
  <2>. QED
    BY <2>1, <2>2, <2>3, Zenon
<1>7. TypeOK'
  <2>1. ban' \in [Seqs -> 0..(Ban + 1)] /\ passes' \in Nat
    BY <1>3, PassType
  <2>2. {broken, closed, overrun}' \subseteq BOOLEAN
    BY <1>2 DEF TypeOK, sockvars
  <2>3. /\ DOMAIN queues' \subseteq Tags
        /\ \A t \in DOMAIN queues' : queues'[t] \in Seq(Datagrams)
    <3>. <<>> \in Seq(Datagrams)
      OBVIOUS
    <3>. QED
      BY <1>1 DEF TypeOK, WithTag, Tags
  <2>4. DOMAIN seq_map' \subseteq Seqs
    BY <1>1 DEF TypeOK
  <2>5. held' \subseteq Seqs /\ msg_seq' \in [Req -> Seqs \cup {None}]
    <3>1. held' \subseteq Seqs
      BY <1>3 DEF TypeOK
    <3>2. msg_seq' \in [Req -> Seqs \cup {None}]
      BY <1>1, <1>6
    <3>. QED
      BY <3>1, <3>2
  <2>6. taken' \in [Req -> Nat]
    BY <1>2, <2>1 DEF TypeOK
  <2>7. /\ rcv' \in Seq(Datagrams) /\ todo' \in [Req -> Seq(Seq(Kinds))]
        /\ tries' \in [Req -> 0..MaxTries] /\ batch' \in [Req -> Datagrams]
        /\ last' \in [Req -> Kinds \cup {None}] /\ freed' \in [Req -> Nat \cup {None}]
        /\ mixed' \in [Req -> SUBSET (Req \cup {None})]
        /\ reader' \in {"idle", "wait"} /\ notes' \in 0..MaxNotes
        /\ env' \in Envs /\ msgs' \in Batches /\ noack' \subseteq Req
    <3>1. /\ rcv' = rcv /\ todo' = todo /\ tries' = tries /\ batch' = batch /\ last' = last
          /\ freed' = freed /\ mixed' = mixed /\ reader' = reader /\ notes' = notes
          /\ env' = env /\ msgs' = msgs /\ noack' = noack
      BY <1>2 DEF sockvars, inputs
    <3>2. /\ rcv \in Seq(Datagrams) /\ todo \in [Req -> Seq(Seq(Kinds))]
          /\ tries \in [Req -> 0..MaxTries] /\ batch \in [Req -> Datagrams]
          /\ last \in [Req -> Kinds \cup {None}] /\ freed \in [Req -> Nat \cup {None}]
          /\ mixed \in [Req -> SUBSET (Req \cup {None})]
          /\ reader \in {"idle", "wait"} /\ notes \in 0..MaxNotes
          /\ env \in Envs /\ msgs \in Batches /\ noack \subseteq Req
      BY DEF TypeOK
    <3>. QED
      BY <3>1, <3>2
  <2>. QED
    BY <1>4, <2>1, <2>2, <2>3, <2>4, <2>5, <2>6, <2>7, Zenon DEF TypeOK
<1>8. OwnTags'
  <2>1. held' = {msg_seq'[q] : q \in Live'}
    BY <1>3, <1>4, <1>6 DEF NetInv, OwnTags
  <2>2. DOMAIN queues' = {msg_seq'[q] : q \in Live' \ Lost'} \cup {0}
    <3>1. DOMAIN queues = {msg_seq[q] : q \in Live \ Lost} \cup {0}
      BY DEF NetInv, OwnTags
    <3>2. CASE label = "lost"
      <4>1. Live' \ Lost' = Live \ Lost /\ DOMAIN queues' = DOMAIN queues
        BY <1>1, <1>4, <3>2
      <4>. QED
        BY <1>6, <3>1, <4>1
    <3>3. CASE label # "lost"
      <4>1. /\ Live' \ Lost' = (Live \ Lost) \cup {r}
            /\ DOMAIN queues' = DOMAIN queues \cup {s}
        BY <1>1, <1>4, <3>3 DEF WithTag, Lost, Live
      <4>. QED
        BY <1>6, <3>1, <4>1
    <3>. QED
      BY <3>2, <3>3
  <2>3. \A q, p \in Live' : msg_seq'[q] = msg_seq'[p] => q = p
    BY <1>3, <1>4, <1>6 DEF NetInv, OwnTags
  <2>4. \A t \in DOMAIN seq_map' : seq_map'[t] \in Live' \ Lost' /\ msg_seq'[seq_map'[t]] = t
    BY <1>1, <1>2, <1>4, <1>6 DEF NetInv, OwnTags, Lost
  <2>. QED
    BY <2>1, <2>2, <2>3, <2>4, Zenon DEF OwnTags
<1>9. Numbered'
  <2>1. s # None
    BY <1>5
  <2>2. /\ pc'[r] = label /\ \A q \in Req \ {r} : pc'[q] = pc[q]
        /\ freed' = freed /\ mixed' = mixed /\ todo' = todo
    BY <1>2 DEF TypeOK
  <2>3. Numbered
    BY DEF NetInv
  <2>. SUFFICES ASSUME NEW q \in Req
       PROVE  /\ pc'[q] = "new" =>
                    msg_seq'[q] = None /\ freed[q] = None /\ mixed[q] = {} /\ todo[q] = <<>>
              /\ q \in Live' => msg_seq'[q] # None /\ freed[q] = None
              /\ pc'[q] = "queued" => msg_seq'[q] # None
              /\ todo[q] # <<>> => msg_seq'[q] # None
    BY <2>2 DEF Numbered
  <2>4. CASE q = r
    BY <1>5, <1>6, <2>1, <2>2, <2>4
  <2>5. CASE q # r
    BY <1>4, <1>6, <2>2, <2>3, <2>5 DEF Numbered
  <2>. QED
    BY <2>4, <2>5
<1>10. Tagged'
  <2>1. \A d \in Datagrams : Fits(d) => (d.owner \in Req => msg_seq'[d.owner] = d.tag)
    <3>1. TAKE d \in Datagrams
    <3>2. d.tag \in Tags /\ d.tag # None
      BY <1>5 DEF Datagrams
    <3>. QED
      BY <1>5, <1>6, <3>2 DEF Fits
  <2>2. \A i \in DOMAIN rcv : rcv[i] \in Datagrams
    BY DEF TypeOK
  <2>3. \A t \in DOMAIN queues : \A i \in DOMAIN queues[t] : queues[t][i] \in Datagrams
    BY DEF TypeOK
  <2>4. Tagged
    BY DEF NetInv
  <2>5. \A i \in DOMAIN rcv' : Fits(rcv[i])'
    BY <1>2, <2>1, <2>2, <2>4 DEF Tagged, Fits
  <2>6. \A t \in DOMAIN queues' :
           queues'[t] = <<>> \/ (t \in DOMAIN queues /\ queues'[t] = queues[t])
    BY <1>1 DEF WithTag
  <2>7. \A t \in DOMAIN queues' : \A i \in DOMAIN queues'[t] :
           Fits(queues[t][i])' /\ (t # 0 => queues'[t][i].tag = t)
    BY <2>1, <2>3, <2>4, <2>6 DEF Tagged, Fits
  <2>. QED
    BY <2>5, <2>7 DEF Tagged
<1>11. Aged'
  <2>1. SUFFICES ASSUME NEW q \in Req, msg_seq'[q] # None, q \notin Live'
        PROVE  /\ freed[q] \in Nat /\ freed[q] <= passes'
               /\ msg_seq'[q] \notin held' => ban'[msg_seq'[q]] + passes' > freed[q] + Ban
               /\ \A p \in Live' : msg_seq'[p] = msg_seq'[q] => taken'[p] > freed[q] + Ban
    BY <1>2 DEF Aged
  <2>2. q # r /\ q \notin Live /\ msg_seq'[q] = msg_seq[q] /\ msg_seq[q] # None
    BY <2>1, <1>4, <1>6
  <2>3. /\ freed[q] \in Nat /\ freed[q] <= passes' /\ msg_seq[q] \in Seqs
        /\ msg_seq[q] \notin held => ban'[msg_seq[q]] + passes' > freed[q] + Ban
    BY <1>3, <2>2, PassKeepsAge
  <2>4. \A p \in Live : msg_seq[p] = msg_seq[q] => taken'[p] > freed[q] + Ban
    BY <1>2, <1>6, <2>2 DEF NetInv, Aged, TypeOK
  <2>5. msg_seq[q] = s => taken'[r] > freed[q] + Ban
    <3>1. msg_seq[q] = s => ban[s] + passes > freed[q] + Ban
      BY <1>3, <2>2 DEF NetInv, Aged
    <3>2. ban[s] \in Nat /\ passes \in Nat /\ taken'[r] = passes + n
      BY <1>2, <1>3 DEF TypeOK
    <3>. QED
      BY <3>1, <3>2, <1>3, <2>3
  <2>. QED
    BY <1>3, <1>4, <1>6, <2>2, <2>3, <2>4, <2>5
<1>12. LateAnswersAreOld'
  <2>1. \A q \in Req \ {r} : taken'[q] = taken[q]
    BY <1>2 DEF TypeOK
  <2>2. mixed' = mixed /\ freed' = freed
    BY <1>2
  <2>. QED
    BY <1>5, <2>1, <2>2, Zenon DEF NetInv, LateAnswersAreOld
<1>. QED
  BY <1>7, <1>8, <1>9, <1>10, <1>11, <1>12 DEF NetInv

\* A request takes a number, and keeps it when prepare() raises.
LEMMA CreateInv ==
    ASSUME NetInv, NEW r \in Req, Create(r) \/ PrepareFails(r)
    PROVE  NetInv'
<1>1. CASE Create(r)
  <2>1. PICK s \in Seqs, n \in {1, 2} :
            /\ Alloc(s, n)
            /\ msg_seq' = [msg_seq EXCEPT ![r] = s]
            /\ queues' = WithTag(queues, s)
            /\ seq_map' = IF r \in Parser
                          THEN [t \in DOMAIN seq_map \cup {s} |->
                                   IF t = s THEN r ELSE seq_map[t]]
                          ELSE seq_map
    BY <1>1, Zenon DEF Create
  <2>2. /\ pc[r] = "new" /\ Goto(r, "prepared") /\ taken' = [taken EXCEPT ![r] = passes']
        /\ UNCHANGED <<rcv, todo, tries, batch, last, sockvars, inputs, freed, mixed>>
    BY <1>1 DEF Create
  <2>. QED
    BY <2>1, <2>2, NumberTaken, Zenon
<1>2. CASE PrepareFails(r)
  <2>1. PICK s \in Seqs, n \in {1, 2} :
            Alloc(s, n) /\ msg_seq' = [msg_seq EXCEPT ![r] = s]
    BY <1>2, Zenon DEF PrepareFails
  <2>2. /\ pc[r] = "new" /\ Goto(r, "lost") /\ taken' = [taken EXCEPT ![r] = passes']
        /\ queues' = queues /\ seq_map' = seq_map
        /\ UNCHANGED <<rcv, todo, tries, batch, last, sockvars, inputs, freed, mixed>>
    BY <1>2 DEF PrepareFails
  <2>. QED
    BY <2>1, <2>2, NumberTaken, Zenon
<1>. QED
  BY <1>1, <1>2

-----------------------------------------------------------------------------
(* The other steps leave the numbers alone. *)

\* The datagrams fit after a step that changes no number if they fit before it.
LEMMA TaggedFrom ==
    ASSUME UNCHANGED msg_seq, DOMAIN queues' = DOMAIN queues,
           \A i \in DOMAIN rcv' : Fits(rcv'[i]),
           \A t \in DOMAIN queues : \A i \in DOMAIN queues'[t] :
              Fits(queues'[t][i]) /\ (t # 0 => queues'[t][i].tag = t)
    PROVE  Tagged'
BY DEF Tagged, Fits

\* What remains to be shown of a step that no request begins or ends with.
LEMMA QuietInv ==
    ASSUME NetInv, Live' = Live /\ Lost' = Lost, DOMAIN queues' = DOMAIN queues,
           UNCHANGED <<poolvars, seq_map, msg_seq, taken, freed>>,
           TypeOK', Numbered', Tagged', LateAnswersAreOld'
    PROVE  NetInv'
<1>1. OwnTags' /\ Aged'
  BY NumbersStay DEF NetInv
<1>. QED
  BY <1>1 DEF NetInv

\* The types of a step, from those of the variables it changes.
LEMMA QuietType ==
    ASSUME TypeOK, UNCHANGED <<poolvars, seq_map, msg_seq, taken, freed, inputs>>,
           DOMAIN queues' = DOMAIN queues,
           \A t \in DOMAIN queues : queues'[t] \in Seq(Datagrams),
           rcv' \in Seq(Datagrams), todo' \in [Req -> Seq(Seq(Kinds))],
           pc' \in [Req -> Labels], tries' \in [Req -> 0..MaxTries],
           batch' \in [Req -> Datagrams], last' \in [Req -> Kinds \cup {None}],
           {broken, closed, overrun}' \subseteq BOOLEAN,
           reader' \in {"idle", "wait"}, notes' \in 0..MaxNotes,
           mixed' \in [Req -> SUBSET (Req \cup {None})]
    PROVE  TypeOK'
BY DEF TypeOK, poolvars, inputs

\* Steps of a coroutine that change neither queues nor the receive buffer.
LEMMA LocalInv ==
    ASSUME NetInv, NEW r \in Live \ Lost,
           \/ Goto(r, "busy") \/ Goto(r, "sent") \/ Goto(r, "wait") \/ Goto(r, "yielded")
           \/ Goto(r, "leaked"),
           UNCHANGED <<poolvars, queues, seq_map, rcv, msg_seq, sockvars, inputs, history>>,
           todo' \in [Req -> Seq(Seq(Kinds))], tries' \in [Req -> 0..MaxTries],
           \A q \in Req : todo'[q] # todo[q] => q \in Live,
           batch' \in [Req -> Datagrams], last' \in [Req -> Kinds \cup {None}]
    PROVE  NetInv'
<1>. TypeOK
  BY DEF NetInv
<1>1. /\ pc' \in [Req -> Labels] /\ Live' = Live /\ Lost' = Lost
      /\ \A q \in Req : pc'[q] \in {"new", "queued"} => pc'[q] = pc[q]
  BY GotoLive
<1>2. TypeOK'
  <2>1. {broken, closed, overrun}' \subseteq BOOLEAN
    BY DEF TypeOK, sockvars
  <2>2. /\ UNCHANGED <<taken, freed, mixed, reader, notes>>
    BY DEF history, sockvars
  <2>. QED
    BY <1>1, <2>1, <2>2, QuietType DEF TypeOK
<1>3. Numbered'
  <2>1. \A q \in Live : q \in Req /\ pc[q] # "new"
    BY DEF Live
  <2>. QED
    BY <1>1, <2>1, Zenon DEF NetInv, Numbered, history
<1>4. Tagged'
  BY DEF NetInv, Tagged, Fits
<1>5. LateAnswersAreOld'
  BY LateStays, Zenon DEF NetInv, history
<1>. QED
  BY <1>1, <1>2, <1>3, <1>4, <1>5, QuietInv, Zenon DEF history

\* The attempts to send and the steps of the generator.
LEMMA SendInv ==
    ASSUME NetInv, NEW r \in Req,
           Send(r) \/ SendBusy(r) \/ SendCancelled(r) \/ StartResponse(r) \/ More(r)
    PROVE  NetInv'
<1>. USE RequestAssumption
<1>1. r \in Live \ Lost
  BY Zenon DEF Send, SendBusy, SendCancelled, StartResponse, More, EndOfDatagram,
               Live, Lost, Finished
<1>2. /\ todo \in [Req -> Seq(Seq(Kinds))] /\ tries \in [Req -> 0..MaxTries]
      /\ batch \in [Req -> Datagrams] /\ last \in [Req -> Kinds \cup {None}]
  BY DEF NetInv, TypeOK
<1>3. CASE Send(r)
  <2>1. PICK answer \in Answers : todo' = [todo EXCEPT ![r] = answer]
    BY <1>3, Zenon DEF Send
  <2>2. /\ todo' \in [Req -> Seq(Seq(Kinds))]
        /\ \A q \in Req : todo'[q] # todo[q] => q \in Live
    BY <1>1, <1>2, <2>1
  <2>. QED
    BY <1>1, <1>2, <1>3, <2>2, LocalInv, Zenon DEF Send
<1>4. CASE SendBusy(r)
  <2>1. tries' \in [Req -> 0..MaxTries]
    BY <1>2, <1>4 DEF SendBusy
  <2>. QED
    BY <1>1, <1>2, <1>4, <2>1, LocalInv, Zenon DEF SendBusy
<1>5. CASE StartResponse(r)
  BY <1>1, <1>2, <1>5, LocalInv, Zenon DEF StartResponse
<1>6. CASE More(r)
  BY <1>1, <1>2, <1>6, LocalInv, Zenon DEF More
<1>7. CASE SendCancelled(r)
  BY <1>1, <1>2, <1>7, LocalInv, Zenon DEF SendCancelled
<1>. QED
  BY <1>3, <1>4, <1>5, <1>6, <1>7

\* The rest of a datagram is a datagram.
LEMMA RestOfDatagram ==
    ASSUME TypeOK, NEW r \in Req, batch[r].body # <<>>, NextMessage(r)
    PROVE  batch' \in [Req -> Datagrams] /\ Head(batch[r].body) \in Kinds
<1>1. batch \in [Req -> Datagrams] /\ batch[r] \in Datagrams
  BY DEF TypeOK
<1>2. batch[r].body \in Seq(Kinds)
  BY <1>1, Zenon DEF Datagrams
<1>3. Tail(batch[r].body) \in Seq(Kinds) /\ Head(batch[r].body) \in Kinds
  BY <1>2
<1>4. [batch[r] EXCEPT !.body = Tail(@)] \in Datagrams
  BY <1>1, <1>3, Zenon DEF Datagrams
<1>5. batch' = [batch EXCEPT ![r] = [batch[r] EXCEPT !.body = Tail(@)]]
  BY <1>1 DEF NextMessage
<1>. QED
  BY <1>1, <1>3, <1>4, <1>5

\* Steps that change neither the coroutines nor what they own.
LEMMA OutsideInv ==
    ASSUME NetInv, DOMAIN queues' = DOMAIN queues,
           UNCHANGED <<poolvars, seq_map, pc, msg_seq, tries, last, inputs, history>>,
           \A t \in DOMAIN queues : queues'[t] \in Seq(Datagrams),
           rcv' \in Seq(Datagrams), todo' \in [Req -> Seq(Seq(Kinds))],
           batch' \in [Req -> Datagrams],
           {broken, closed, overrun}' \subseteq BOOLEAN,
           reader' \in {"idle", "wait"}, notes' \in 0..MaxNotes,
           \A q \in Req : todo[q] = <<>> => todo'[q] = <<>>,
           Tagged'
    PROVE  NetInv'
<1>. TypeOK
  BY DEF NetInv
<1>1. Live' = Live /\ Lost' = Lost
  BY DEF Live, Lost
<1>2. TypeOK'
  <2>1. UNCHANGED <<taken, freed, mixed>>
    BY DEF history
  <2>. QED
    BY <2>1, QuietType DEF TypeOK
<1>3. Numbered'
  BY <1>1, Zenon DEF NetInv, Numbered, history
<1>4. LateAnswersAreOld'
  BY LateStays, Zenon DEF NetInv, history
<1>. QED
  BY <1>1, <1>2, <1>3, <1>4, QuietInv DEF history

\* The messages of a datagram, one at a time.
LEMMA ParseInv ==
    ASSUME NetInv, NEW r \in Req, Skip(r) \/ Yield(r)
    PROVE  NetInv'
<1>. TypeOK
  BY DEF NetInv
<1>1. r \in Live \ Lost /\ batch[r].body # <<>> /\ NextMessage(r)
  BY DEF Skip, Yield, Parses, Live, Lost, Finished
<1>2. batch' \in [Req -> Datagrams] /\ Head(batch[r].body) \in Kinds
  BY <1>1, RestOfDatagram
<1>3. CASE Skip(r)
  <2>1. Tagged'
    BY <1>3, Zenon DEF Skip, NetInv, Tagged, Fits
  <2>2. {broken, closed, overrun}' \subseteq BOOLEAN
    BY <1>3 DEF Skip, TypeOK, sockvars
  <2>. QED
    BY <1>2, <1>3, <2>1, <2>2, OutsideInv DEF Skip, TypeOK, sockvars
<1>4. CASE Yield(r)
  <2>1. last' \in [Req -> Kinds \cup {None}]
    BY <1>2, <1>4 DEF Yield, TypeOK
  <2>2. todo' \in [Req -> Seq(Seq(Kinds))] /\ tries' \in [Req -> 0..MaxTries]
    BY <1>4 DEF Yield, TypeOK
  <2>. QED
    BY <1>1, <1>2, <1>4, <2>1, <2>2, LocalInv, Zenon DEF Yield
<1>. QED
  BY <1>3, <1>4

\* Appending to a queue: a datagram that fits is put where its tag says.
LEMMA EnqueuedFits ==
    ASSUME NetInv, NEW d \in Datagrams, Fits(d), UNCHANGED msg_seq,
           queues' = Enqueued(queues, d.tag, d)
    PROVE  /\ DOMAIN queues' = DOMAIN queues
           /\ \A t \in DOMAIN queues : queues'[t] \in Seq(Datagrams)
           /\ \A t \in DOMAIN queues : \A i \in DOMAIN queues'[t] :
                 Fits(queues'[t][i]) /\ (t # 0 => queues'[t][i].tag = t)
<1>. DEFINE u == IF d.tag \in DOMAIN queues THEN d.tag ELSE 0
<1>1. u \in DOMAIN queues /\ (u # 0 => u = d.tag)
  BY DEF NetInv, OwnTags
<1>2. queues' = [queues EXCEPT ![u] = Append(queues[u], d)]
  BY DEF Enqueued
<1>3. \A t \in DOMAIN queues : queues[t] \in Seq(Datagrams)
  BY DEF NetInv, TypeOK
<1>4. \A t \in DOMAIN queues : \A i \in DOMAIN queues[t] :
         Fits(queues[t][i]) /\ (t # 0 => queues[t][i].tag = t)
  BY DEF NetInv, Tagged
<1>. HIDE DEF u
<1>5. /\ DOMAIN queues' = DOMAIN queues /\ queues'[u] = Append(queues[u], d)
      /\ \A t \in DOMAIN queues \ {u} : queues'[t] = queues[t]
  BY <1>1, <1>2
<1>6. queues'[u] \in Seq(Datagrams)
  BY <1>1, <1>3, <1>5
<1>7. \A i \in DOMAIN queues'[u] : queues'[u][i] = d \/
         (i \in DOMAIN queues[u] /\ queues'[u][i] = queues[u][i])
  BY <1>1, <1>3, <1>5
<1>8. \A i \in DOMAIN queues'[u] :
         Fits(queues'[u][i]) /\ (u # 0 => queues'[u][i].tag = u)
  BY <1>1, <1>4, <1>7
<1>9. \A t \in DOMAIN queues \ {u} : queues'[t] \in Seq(Datagrams)
         /\ \A i \in DOMAIN queues'[t] :
               Fits(queues'[t][i]) /\ (t # 0 => queues'[t][i].tag = t)
  BY <1>3, <1>4, <1>5
<1>. QED
  BY <1>5, <1>6, <1>8, <1>9, Zenon

\* The answers of proxies have one message.
LEMMA OneMessage == {<<"done">>, <<"err">>, <<"msg">>} \subseteq Seq(Kinds)
<1>1. {"done", "err", "msg"} \subseteq Kinds
  BY DEF Kinds
<1>2. \A k \in Kinds : <<k>> \in Seq(Kinds)
  OBVIOUS
<1>. QED
  BY <1>1, <1>2

\* A proxy answers in place of the kernel.
LEMMA SendProxiedInv ==
    ASSUME NetInv, NEW r \in Req, SendProxied(r)
    PROVE  NetInv'
<1>. TypeOK
  BY DEF NetInv
<1>1. PICK body \in {<<"done">>, <<"err">>} :
         queues' = Enqueued(queues, msg_seq[r], Datagram(msg_seq[r], r, body))
  BY Zenon DEF SendProxied
<1>. DEFINE d == Datagram(msg_seq[r], r, body)
<1>2. /\ r \in Live \ Lost /\ Goto(r, "sent") /\ msg_seq[r] \in Seqs
      /\ UNCHANGED <<poolvars, seq_map, rcv, todo, msg_seq, tries, batch, last,
                     sockvars, inputs, taken, freed, mixed>>
  BY Zenon DEF SendProxied, Live, Lost, Finished, NetInv, Numbered, TypeOK, history
<1>3. d \in Datagrams /\ d.tag = msg_seq[r] /\ Fits(d)
  <2>1. body \in Seq(Kinds)
    BY OneMessage, Zenon
  <2>2. d \in Datagrams
    BY <1>2, <2>1, Zenon DEF Datagrams, Datagram, Tags
  <2>. QED
    BY <2>2 DEF Fits, Datagram
<1>4. /\ pc' \in [Req -> Labels] /\ Live' = Live /\ Lost' = Lost
      /\ \A q \in Req : pc'[q] \in {"new", "queued"} => pc'[q] = pc[q]
  BY <1>2, GotoLive, Zenon
<1>5. /\ DOMAIN queues' = DOMAIN queues
      /\ \A t \in DOMAIN queues : queues'[t] \in Seq(Datagrams)
      /\ \A t \in DOMAIN queues : \A i \in DOMAIN queues'[t] :
            Fits(queues'[t][i]) /\ (t # 0 => queues'[t][i].tag = t)
  <2>. HIDE DEF d
  <2>1. queues' = Enqueued(queues, d.tag, d)
    BY <1>1, <1>3, Zenon DEF d
  <2>. QED
    BY <1>2, <1>3, <2>1, EnqueuedFits, Zenon
<1>6. TypeOK'
  <2>1. {broken, closed, overrun}' \subseteq BOOLEAN
    BY <1>2 DEF TypeOK, sockvars
  <2>. QED
    BY <1>2, <1>4, <1>5, <2>1, QuietType, Zenon DEF TypeOK, sockvars
<1>7. Tagged'
  BY <1>2, <1>5, TaggedFrom DEF NetInv, Tagged
<1>8. Numbered' /\ LateAnswersAreOld'
  BY <1>2, <1>4, NumberedStays, LateStays DEF NetInv
<1>. QED
  BY <1>2, <1>4, <1>5, <1>6, <1>7, <1>8, QuietInv, Zenon

\* A request takes a datagram from its queue.
LEMMA TakeInv ==
    ASSUME NetInv, NEW r \in Req, Take(r)
    PROVE  NetInv'
<1>. TypeOK
  BY DEF NetInv
<1>1. /\ HasData(r) /\ Strangers(r, Head(Pending(r))) /\ Goto(r, "parse")
      /\ batch' = [batch EXCEPT ![r] = Head(Pending(r))]
      /\ queues' = [queues EXCEPT ![msg_seq[r]] = Tail(Pending(r))]
      /\ UNCHANGED <<poolvars, seq_map, rcv, todo, msg_seq, tries, last, sockvars,
                     inputs, taken, freed>>
  BY DEF Take, Pending
<1>2. /\ r \in Live \ Lost /\ msg_seq[r] \in DOMAIN queues /\ Pending(r) \in Seq(Datagrams)
      /\ Pending(r) # <<>> /\ Head(Pending(r)) \in Datagrams
  BY <1>1, HeadOfQueue
<1>3. /\ pc' \in [Req -> Labels] /\ Live' = Live /\ Lost' = Lost
      /\ \A q \in Req : pc'[q] \in {"new", "queued"} => pc'[q] = pc[q]
  BY <1>1, <1>2, GotoLive, Zenon
<1>4. /\ LateAnswersAreOld' /\ mixed' \in [Req -> SUBSET (Req \cup {None})]
      /\ \A q \in Req : mixed'[q] # mixed[q] => q = r
  BY <1>1, StrangersLate
<1>5. /\ DOMAIN queues' = DOMAIN queues
      /\ \A t \in DOMAIN queues : queues'[t] \in Seq(Datagrams)
      /\ \A t \in DOMAIN queues : \A i \in DOMAIN queues'[t] :
            \E j \in DOMAIN queues[t] : queues'[t][i] = queues[t][j]
  <2>1. queues[msg_seq[r]] = Pending(r)
    BY DEF Pending
  <2>2. /\ Tail(Pending(r)) \in Seq(Datagrams)
        /\ \A i \in DOMAIN Tail(Pending(r)) :
              i + 1 \in DOMAIN Pending(r) /\ Tail(Pending(r))[i] = Pending(r)[i + 1]
    BY <1>2
  <2>3. \A t \in DOMAIN queues : queues[t] \in Seq(Datagrams)
    BY DEF TypeOK
  <2>. QED
    BY <1>1, <1>2, <2>1, <2>2, <2>3
<1>6. TypeOK'
  <2>1. {broken, closed, overrun}' \subseteq BOOLEAN
    BY <1>1 DEF TypeOK, sockvars
  <2>2. batch' \in [Req -> Datagrams]
    BY <1>1, <1>2 DEF TypeOK
  <2>. QED
    BY <1>1, <1>3, <1>4, <1>5, <2>1, <2>2, QuietType, Zenon DEF TypeOK, sockvars
<1>7. Tagged'
  <2>1. /\ \A i \in DOMAIN rcv : Fits(rcv[i])
        /\ \A t \in DOMAIN queues : \A i \in DOMAIN queues[t] :
              Fits(queues[t][i]) /\ (t # 0 => queues[t][i].tag = t)
    BY DEF NetInv, Tagged
  <2>2. \A t \in DOMAIN queues : \A i \in DOMAIN queues'[t] :
           Fits(queues'[t][i]) /\ (t # 0 => queues'[t][i].tag = t)
    <3>1. TAKE t \in DOMAIN queues
    <3>2. TAKE i \in DOMAIN queues'[t]
    <3>3. PICK j \in DOMAIN queues[t] : queues'[t][i] = queues[t][j]
      BY <1>5
    <3>. QED
      BY <2>1, <3>3
  <2>. QED
    BY <1>1, <1>5, <2>1, <2>2, TaggedFrom, Zenon
<1>8. Numbered'
  <2>1. pc[r] # "new" /\ pc'[r] # "new"
    BY <1>1, <1>3, Zenon DEF HasData
  <2>. QED
    BY <1>1, <1>3, <1>4, <2>1, Zenon DEF NetInv, Numbered
<1>. QED
  BY <1>1, <1>3, <1>4, <1>5, <1>6, <1>7, <1>8, QuietInv

\* A batch is sent, or is not: no request of it is created or ends, but for
\* those that were cleaned up before.
LEMMA BatchInv ==
    ASSUME NetInv, BatchSend \/ BatchSendFails
    PROVE  NetInv'
<1>. USE RequestAssumption
<1>. TypeOK
  BY DEF NetInv
<1>1. /\ BatchReady
      /\ UNCHANGED <<poolvars, queues, seq_map, rcv, msg_seq, tries, batch, last,
                     sockvars, inputs, taken, freed, mixed>>
      /\ \E l \in {"sent", "leaked"} :
            pc' = [r \in Req |-> IF ~InBatch(r) THEN pc[r]
                                 ELSE IF r \in noack THEN "done" ELSE l]
  BY DEF BatchSend, BatchSendFails, history
<1>2. \A r \in Req : InBatch(r) => pc[r] = IF r \in noack THEN "queued" ELSE "prepared"
  BY <1>1 DEF BatchReady, InBatch, Collected
<1>3. /\ pc' \in [Req -> Labels] /\ Live' = Live /\ Lost' = Lost
      /\ \A q \in Req : pc'[q] \in {"new", "queued"} => pc'[q] = pc[q]
  <2>1. pc \in [Req -> Labels]
    BY DEF TypeOK
  <2>2. PICK l \in {"sent", "leaked"} :
            pc' = [r \in Req |-> IF ~InBatch(r) THEN pc[r]
                                 ELSE IF r \in noack THEN "done" ELSE l]
    BY <1>1
  <2>. QED
    BY <1>2, <2>1, <2>2 DEF Live, Lost, Labels, Finished
<1>4. /\ todo' \in [Req -> Seq(Seq(Kinds))]
      /\ \A r \in Req : ~InBatch(r) => todo'[r] = todo[r]
  <2>1. todo \in [Req -> Seq(Seq(Kinds))]
    BY DEF TypeOK
  <2>2. CASE BatchSend
    <3>1. PICK f \in [Req -> Answers] :
             todo' = [r \in Req |->
                         IF ~InBatch(r) THEN todo[r]
                         ELSE IF r \in noack /\ f[r] # <<<<"err">>>> THEN <<>>
                         ELSE f[r]]
      BY <2>2, Zenon DEF BatchSend
    <3>2. <<>> \in Seq(Seq(Kinds)) /\ \A r \in Req : f[r] \in Seq(Seq(Kinds))
      OBVIOUS
    <3>. QED
      BY <2>1, <3>1, <3>2
  <2>3. CASE BatchSendFails
    BY <2>1, <2>3 DEF BatchSendFails
  <2>. QED
    BY <2>2, <2>3
<1>5. TypeOK'
  <2>1. {broken, closed, overrun}' \subseteq BOOLEAN
    BY <1>1, Zenon DEF TypeOK, sockvars
  <2>. QED
    BY <1>1, <1>3, <1>4, <2>1, QuietType, Zenon DEF TypeOK, sockvars
<1>6. Numbered'
  <2>1. \A r \in Req : InBatch(r) => msg_seq[r] # None /\ pc'[r] # "new"
    BY <1>2, <1>3, Zenon DEF NetInv, Numbered, Live, Lost, Finished
  <2>. QED
    BY <1>1, <1>3, <1>4, <2>1, Zenon DEF NetInv, Numbered
<1>7. Tagged'
  BY <1>1, Zenon DEF NetInv, Tagged, Fits
<1>8. LateAnswersAreOld'
  BY <1>1, LateStays DEF NetInv
<1>. QED
  BY <1>1, <1>3, <1>5, <1>6, <1>7, <1>8, QuietInv

-----------------------------------------------------------------------------
(* The kernel and the event loop. *)

\* Appending what fits to the receive buffer, and taking its head away.
LEMMA BufferFits ==
    ASSUME NEW b \in Seq(Datagrams), NEW d \in Datagrams,
           \A i \in DOMAIN b : Fits(b[i])
    PROVE  /\ Append(b, d) \in Seq(Datagrams)
           /\ Fits(d) => \A i \in DOMAIN Append(b, d) : Fits(Append(b, d)[i])
           /\ b # <<>> => /\ Tail(b) \in Seq(Datagrams) /\ Head(b) \in Datagrams
                          /\ Fits(Head(b)) /\ \A i \in DOMAIN Tail(b) : Fits(Tail(b)[i])
<1>1. /\ Append(b, d) \in Seq(Datagrams)
      /\ \A i \in DOMAIN Append(b, d) : Append(b, d)[i] = d \/
            (i \in DOMAIN b /\ Append(b, d)[i] = b[i])
  OBVIOUS
<1>2. b # <<>> => /\ Tail(b) \in Seq(Datagrams) /\ Head(b) \in Datagrams
                  /\ 1 \in DOMAIN b /\ Head(b) = b[1]
                  /\ \A i \in DOMAIN Tail(b) : i + 1 \in DOMAIN b /\ Tail(b)[i] = b[i + 1]
  OBVIOUS
<1>. QED
  BY <1>1, <1>2, Zenon

\* The kernel answers or drops the answer.
LEMMA KernelInv ==
    ASSUME NetInv, NEW r \in Req, KernelAnswers(r) \/ KernelOverruns(r)
    PROVE  NetInv'
<1>. TypeOK
  BY DEF NetInv
<1>1. /\ todo[r] # <<>> /\ todo' = [todo EXCEPT ![r] = Tail(@)]
      /\ UNCHANGED <<poolvars, queues, seq_map, pc, msg_seq, tries, batch, last,
                     broken, closed, reader, notes, inputs, history>>
  BY DEF KernelAnswers, KernelOverruns, reqvars, sockvars
<1>2. todo \in [Req -> Seq(Seq(Kinds))] /\ todo[r] \in Seq(Seq(Kinds))
  BY DEF TypeOK
<1>3. Tail(todo[r]) \in Seq(Seq(Kinds)) /\ Head(todo[r]) \in Seq(Kinds)
  BY <1>1, <1>2
<1>4. /\ todo' \in [Req -> Seq(Seq(Kinds))]
      /\ \A q \in Req : todo[q] = <<>> => todo'[q] = <<>>
  BY <1>1, <1>2, <1>3
<1>5. {broken, closed, overrun}' \subseteq BOOLEAN
  BY <1>1, Zenon DEF TypeOK, KernelAnswers, KernelOverruns, sockvars
<1>6. rcv' \in Seq(Datagrams) /\ Tagged'
  <2>1. CASE KernelAnswers(r)
    <3>. DEFINE d == Datagram(msg_seq[r], r, Head(todo[r]))
    <3>1. rcv \in Seq(Datagrams) /\ \A i \in DOMAIN rcv : Fits(rcv[i])
      BY DEF NetInv, TypeOK, Tagged
    <3>2. msg_seq[r] \in Tags
      BY <1>1 DEF NetInv, Numbered, TypeOK, Tags
    <3>3. d \in Datagrams /\ Fits(d)
      BY <1>3, <3>2, Zenon DEF Datagram, Datagrams, Fits
    <3>4. rcv' = Append(rcv, d)
      BY <2>1 DEF KernelAnswers
    <3>. HIDE DEF d
    <3>5. rcv' \in Seq(Datagrams) /\ \A i \in DOMAIN rcv' : Fits(rcv'[i])
      BY <3>1, <3>3, <3>4, BufferFits, Zenon
    <3>. QED
      BY <1>1, <3>5, TaggedFrom, Zenon DEF NetInv, Tagged
  <2>2. CASE KernelOverruns(r)
    <3>1. rcv' = rcv /\ rcv \in Seq(Datagrams)
      BY <2>2 DEF KernelOverruns, TypeOK
    <3>. QED
      BY <1>1, <3>1, TaggedFrom, Zenon DEF NetInv, Tagged
  <2>. QED
    BY <2>1, <2>2
<1>. QED
  BY <1>1, <1>4, <1>5, <1>6, OutsideInv DEF TypeOK

\* The kernel notifies.
LEMMA NotifyInv ==
    ASSUME NetInv, NEW tag \in Tags, KernelNotifies(tag)
    PROVE  NetInv'
<1>. USE RequestAssumption
<1>. TypeOK
  BY DEF NetInv
<1>. DEFINE d == Datagram(tag, None, <<"msg">>)
<1>1. /\ notes < MaxNotes /\ notes' = notes + 1 /\ rcv' = Append(rcv, d)
      /\ UNCHANGED <<poolvars, queues, seq_map, todo, pc, msg_seq, tries, batch, last,
                     broken, closed, reader, overrun, inputs, history>>
  BY DEF KernelNotifies, reqvars
<1>2. d \in Datagrams /\ Fits(d)
  BY OneMessage DEF Datagram, Datagrams, Fits
<1>3. rcv \in Seq(Datagrams) /\ \A i \in DOMAIN rcv : Fits(rcv[i])
  BY DEF NetInv, TypeOK, Tagged
<1>. HIDE DEF d
<1>4. rcv' \in Seq(Datagrams) /\ \A i \in DOMAIN rcv' : Fits(rcv'[i])
  BY <1>1, <1>2, <1>3, BufferFits, Zenon
<1>5. Tagged'
  BY <1>1, <1>4, TaggedFrom, Zenon DEF NetInv, Tagged
<1>6. {broken, closed, overrun}' \subseteq BOOLEAN
  BY <1>1, Zenon DEF TypeOK
<1>7. notes' \in 0..MaxNotes
  <2>1. notes \in 0..MaxNotes /\ MaxNotes \in Nat
    BY Zenon DEF TypeOK
  <2>. QED
    BY <1>1, <2>1
<1>. QED
  BY <1>1, <1>4, <1>5, <1>6, <1>7, OutsideInv DEF TypeOK

\* enqueue() chooses the queue by the number alone.
LEMMA ReceiveInv ==
    ASSUME NetInv, Receive
    PROVE  NetInv'
<1>. TypeOK
  BY DEF NetInv
<1>. DEFINE d == Head(rcv)
<1>1. /\ rcv # <<>> /\ rcv' = Tail(rcv) /\ queues' = Enqueued(queues, d.tag, d)
      /\ UNCHANGED <<poolvars, seq_map, todo, pc, msg_seq, tries, batch, last, sockvars,
                     inputs, history>>
  BY Zenon DEF Receive, reqvars
<1>2. rcv \in Seq(Datagrams) /\ \A i \in DOMAIN rcv : Fits(rcv[i])
  BY Zenon DEF NetInv, TypeOK, Tagged
<1>3. d \in Datagrams
  BY <1>1, <1>2
<1>4. /\ Fits(d) /\ rcv' \in Seq(Datagrams) /\ \A i \in DOMAIN rcv' : Fits(rcv'[i])
  BY <1>1, <1>2, <1>3, BufferFits
<1>. HIDE DEF d
<1>5. /\ DOMAIN queues' = DOMAIN queues
      /\ \A t \in DOMAIN queues : queues'[t] \in Seq(Datagrams)
      /\ \A t \in DOMAIN queues : \A i \in DOMAIN queues'[t] :
            Fits(queues'[t][i]) /\ (t # 0 => queues'[t][i].tag = t)
  BY <1>1, <1>3, <1>4, EnqueuedFits
<1>6. Tagged'
  BY <1>1, <1>4, <1>5, TaggedFrom
<1>7. {broken, closed, overrun}' \subseteq BOOLEAN
  BY <1>1 DEF TypeOK, sockvars
<1>. QED
  BY <1>1, <1>4, <1>5, <1>6, <1>7, OutsideInv, Zenon DEF TypeOK, sockvars

\* What close() puts into the root queue, one by one.
LEMMA OneOrTwo ==
    ASSUME NEW S, NEW q \in Seq(S), NEW x \in S, NEW y \in S
    PROVE  q \o <<x>> = Append(q, x) /\ q \o <<x, y>> = Append(Append(q, x), y)
OBVIOUS

\* The root queue: what the others read is not in it.
LEMMA RootInv ==
    ASSUME NetInv, ErrorReceived \/ RootGet \/ RootTake \/ Close
    PROVE  NetInv'
<1>. USE RequestAssumption
<1>. TypeOK
  BY DEF NetInv
<1>1. /\ UNCHANGED <<poolvars, seq_map, pc, msg_seq, tries, batch, last, notes, inputs,
                     history>>
      /\ reader' \in {"idle", "wait"}
  BY Zenon DEF ErrorReceived, RootGet, RootTake, Close, reqvars, TypeOK
<1>2. {broken, closed, overrun}' \subseteq BOOLEAN
  BY Zenon DEF ErrorReceived, RootGet, RootTake, Close, TypeOK
<1>3. /\ rcv' \in Seq(Datagrams) /\ \A i \in DOMAIN rcv' : Fits(rcv'[i])
      /\ todo' \in [Req -> Seq(Seq(Kinds))]
      /\ \A q \in Req : todo[q] = <<>> => todo'[q] = <<>>
  <2>1. /\ rcv \in Seq(Datagrams) /\ \A i \in DOMAIN rcv : Fits(rcv[i])
        /\ todo \in [Req -> Seq(Seq(Kinds))]
    BY Zenon DEF NetInv, TypeOK, Tagged
  <2>2. \/ rcv' = rcv /\ todo' = todo
        \/ rcv' = <<>> /\ todo' = [r \in Req |-> <<>>]
    BY DEF ErrorReceived, RootGet, RootTake, Close
  <2>3. CASE rcv' = rcv /\ todo' = todo
    BY <2>1, <2>3
  <2>4. CASE rcv' = <<>> /\ todo' = [r \in Req |-> <<>>]
    BY <2>4
  <2>. QED
    BY <2>2, <2>3, <2>4
<1>4. /\ 0 \in DOMAIN queues /\ queues[0] \in Seq(Datagrams)
      /\ \A i \in DOMAIN queues[0] : Fits(queues[0][i])
  BY Zenon DEF NetInv, OwnTags, TypeOK, Tagged
<1>5. {Nothing, ErrorPacket} \subseteq Datagrams /\ Fits(Nothing) /\ Fits(ErrorPacket)
  <2>1. <<>> \in Seq(Kinds) /\ <<"err">> \in Seq(Kinds)
    BY OneMessage
  <2>2. Nothing \in Datagrams /\ Fits(Nothing)
    BY <2>1 DEF Nothing, Datagram, Datagrams, Fits, Tags
  <2>3. ErrorPacket \in Datagrams /\ Fits(ErrorPacket)
    BY <2>1 DEF ErrorPacket, Datagram, Datagrams, Fits, Tags
  <2>. QED
    BY <2>2, <2>3
<1>6. \E q \in Seq(Datagrams) :
         queues' = [queues EXCEPT ![0] = q] /\ \A i \in DOMAIN q : Fits(q[i])
  <2>1. CASE ErrorReceived
    <3>1. queues' = [queues EXCEPT ![0] = Append(queues[0], ErrorPacket)]
      BY <1>4, <2>1 DEF ErrorReceived, Enqueued
    <3>2. /\ Append(queues[0], ErrorPacket) \in Seq(Datagrams)
          /\ \A i \in DOMAIN Append(queues[0], ErrorPacket) :
                Fits(Append(queues[0], ErrorPacket)[i])
      BY <1>4, <1>5, BufferFits, Zenon
    <3>. QED
      BY <3>1, <3>2, Zenon
  <2>2. CASE RootGet
    BY <1>4, <2>2 DEF RootGet
  <2>3. CASE RootTake
    <3>1. queues[0] # <<>> /\ queues' = [queues EXCEPT ![0] = Tail(queues[0])]
      BY <2>3 DEF RootTake
    <3>2. /\ Tail(queues[0]) \in Seq(Datagrams)
          /\ \A i \in DOMAIN Tail(queues[0]) : Fits(Tail(queues[0])[i])
      BY <1>4, <1>5, <3>1, BufferFits
    <3>. QED
      BY <3>1, <3>2, Zenon
  <2>4. CASE Close
    <3>1. PICK told \in {<<ErrorPacket>>, <<Nothing, ErrorPacket>>, <<Nothing>>} :
             queues' = [queues EXCEPT ![0] = @ \o told]
      BY <2>4, Zenon DEF Close
    <3>. DEFINE q == queues[0] \o told
    <3>2. queues' = [queues EXCEPT ![0] = q]
      BY <3>1
    <3>3. \/ q = Append(queues[0], ErrorPacket)
          \/ q = Append(queues[0], Nothing)
          \/ q = Append(Append(queues[0], Nothing), ErrorPacket)
      <4>1. queues[0] \in Seq(Datagrams) /\ ErrorPacket \in Datagrams /\ Nothing \in Datagrams
        BY <1>4, <1>5
      <4>2. /\ queues[0] \o <<ErrorPacket>> = Append(queues[0], ErrorPacket)
            /\ queues[0] \o <<Nothing>> = Append(queues[0], Nothing)
            /\ queues[0] \o <<Nothing, ErrorPacket>>
                 = Append(Append(queues[0], Nothing), ErrorPacket)
        <5>. HIDE DEF ErrorPacket, Nothing
        <5>. QED
          BY <4>1, OneOrTwo
      <4>. QED
        BY <3>1, <4>2, Zenon
    <3>. HIDE DEF q
    <3>4. /\ Append(queues[0], Nothing) \in Seq(Datagrams)
          /\ \A i \in DOMAIN Append(queues[0], Nothing) : Fits(Append(queues[0], Nothing)[i])
      BY <1>4, <1>5, BufferFits
    <3>5. q \in Seq(Datagrams) /\ \A i \in DOMAIN q : Fits(q[i])
      <4>1. CASE q = Append(queues[0], ErrorPacket)
        BY <1>4, <1>5, <4>1, BufferFits
      <4>2. CASE q = Append(Append(queues[0], Nothing), ErrorPacket)
        <5>. DEFINE b == Append(queues[0], Nothing)
        <5>. HIDE DEF b
        <5>1. /\ b \in Seq(Datagrams) /\ \A i \in DOMAIN b : Fits(b[i])
              /\ q = Append(b, ErrorPacket)
          BY <3>4, <4>2 DEF b
        <5>. QED
          BY <1>5, <5>1, BufferFits
      <4>3. CASE q = Append(queues[0], Nothing)
        BY <3>4, <4>3
      <4>. QED
        BY <3>3, <4>1, <4>2, <4>3
    <3>. QED
      BY <3>2, <3>5, Zenon
  <2>. QED
    BY <2>1, <2>2, <2>3, <2>4
<1>7. /\ DOMAIN queues' = DOMAIN queues
      /\ \A t \in DOMAIN queues : queues'[t] \in Seq(Datagrams)
      /\ \A t \in DOMAIN queues : \A i \in DOMAIN queues'[t] :
            Fits(queues'[t][i]) /\ (t # 0 => queues'[t][i].tag = t)
  <2>1. PICK q \in Seq(Datagrams) :
           queues' = [queues EXCEPT ![0] = q] /\ \A i \in DOMAIN q : Fits(q[i])
    BY <1>6, Zenon
  <2>2. /\ DOMAIN queues' = DOMAIN queues /\ queues'[0] = q
        /\ \A t \in DOMAIN queues \ {0} : queues'[t] = queues[t]
    BY <1>4, <2>1
  <2>. QED
    BY <2>1, <2>2, Zenon DEF NetInv, TypeOK, Tagged
<1>8. Tagged'
  BY <1>1, <1>3, <1>7, TaggedFrom
<1>. QED
  BY <1>1, <1>2, <1>3, <1>7, <1>8, OutsideInv, Zenon DEF TypeOK

-----------------------------------------------------------------------------
\* Nothing happens.
LEMMA StutterInv ==
    ASSUME NetInv, UNCHANGED vars
    PROVE  NetInv'
<1>. TypeOK
  BY DEF NetInv
<1>1. UNCHANGED <<poolvars, queues, seq_map, rcv, todo, pc, msg_seq, tries, batch, last,
                  broken, closed, reader, notes, overrun, inputs, history>>
  BY DEF vars, reqvars, sockvars
<1>2. Tagged'
  BY <1>1, Zenon DEF NetInv, Tagged, Fits
<1>3. {broken, closed, overrun}' \subseteq BOOLEAN
  BY <1>1 DEF TypeOK
<1>. QED
  BY <1>1, <1>2, <1>3, OutsideInv DEF TypeOK

\* NetInv is inductive.
LEMMA StepInv ==
    ASSUME NetInv, [Next]_vars
    PROVE  NetInv'
<1>1. ASSUME NEW r \in Req, Sending(r)
      PROVE  NetInv'
  BY <1>1, SendProxiedInv, SendInv, EndingInv, Zenon DEF Sending
<1>2. ASSUME NEW r \in Req, Reading(r)
      PROVE  NetInv'
  BY <1>2, TakeInv, TakeNothingInv, ParseInv, EndingInv, SendInv, Zenon DEF Reading
<1>3. CASE Step
  <2>1. ASSUME NEW r \in Req, Create(r) \/ CreateFails(r) \/ PrepareFails(r)
        PROVE  NetInv'
    BY <2>1, CreateInv, CreateFailsInv
  <2>2. ASSUME NEW r \in Req,
               \/ BatchNoAck(r) \/ SendCancelled(r) \/ StartResponse(r)
               \/ Terminate(r) \/ Abandon(r)
        PROVE  NetInv'
    BY <2>2, EndingInv, SendInv, Zenon
  <2>3. ASSUME NEW r \in Req, KernelAnswers(r) \/ KernelOverruns(r)
        PROVE  NetInv'
    BY <2>3, KernelInv
  <2>4. BatchSend \/ BatchSendFails => NetInv'
    BY BatchInv
  <2>5. (\E tag \in Tags : KernelNotifies(tag)) => NetInv'
    BY NotifyInv
  <2>6. Receive => NetInv'
    BY ReceiveInv
  <2>7. ErrorReceived \/ RootGet \/ RootTake \/ Close => NetInv'
    BY RootInv
  <2>. QED
    BY <1>1, <1>2, <1>3, <2>1, <2>2, <2>3, <2>4, <2>5, <2>6, <2>7 DEF Step
<1>4. CASE UNCHANGED vars
  BY <1>4, StutterInv
<1>. QED
  BY <1>1, <1>2, <1>3, <1>4 DEF Next

\* Every state of the requests and of the kernel satisfies the invariant.
THEOREM RequestInvariant == Spec => []NetInv
<1>1. Init => NetInv
  BY InitInv
<1>2. NetInv /\ [Next]_vars => NetInv'
  BY StepInv
<1>. QED
  BY <1>1, <1>2, PTL DEF Spec

\* For every set of requests, batches and environments: every variable keeps its
\* type; in particular a number in use is one of the pool's, send() makes no
\* more attempts than it may, and what is in a queue is a datagram.
THEOREM TypesHold == Spec => []TypeOK
<1>1. NetInv => TypeOK
  BY DEF NetInv
<1>. QED
  BY <1>1, RequestInvariant, PTL

\* For every set of requests, batches and environments: the numbers in use, the
\* queues and the parsers are those of the live requests, one each, on every
\* path through prepare(), send(), response(), cleanup() and nlm_request_batch();
\* a prepare() that fails leaves its number behind, and no queue.
THEOREM OwnTagsHolds == Spec => []OwnTags
<1>1. NetInv => OwnTags
  BY DEF NetInv
<1>. QED
  BY <1>1, RequestInvariant, PTL

\* For every number of requests and every length of the ban: get() hands an
\* answer to a stranger only when it took the number more than Ban passes of the
\* pool's collection after cleanup() released it.
THEOREM LateAnswersAreOldHolds == Spec => []LateAnswersAreOld
<1>1. NetInv => LateAnswersAreOld
  BY DEF NetInv
<1>. QED
  BY <1>1, RequestInvariant, PTL

-----------------------------------------------------------------------------
(* Responses are read to their end. *)

\* After a datagram on which get() may end a response no part of it is to come:
\* it has a message without NLM_F_MULTI or NLMSG_DONE, or nothing is left of it.
Ends(body) ==
    \/ \E i \in DOMAIN body : body[i] \in {"msg", "ack", "done"}
    \/ \A i \in DOMAIN body : body[i] = "skip"
Bare(body) == \A i \in DOMAIN body : body[i] \notin {"part", "skip"}
Orderly(b, c) == Ends(b) => Bare(c)

\* What the kernel's answers and the parsers must be for that.
AnswersAreWhole ==
    \A a \in Answers : \A i, j \in DOMAIN a : i < j => Orderly(a[i], a[j])

Own(s, r) == {i \in DOMAIN s : s[i].owner = r}
Bodies(s, r) == {s[i].body : i \in Own(s, r)}
InOrder(s, r) == \A i, j \in Own(s, r) : i < j => Orderly(s[i].body, s[j].body)
Owed(r) == {todo[r][i] : i \in DOMAIN todo[r]}

Unsent == {"new", "prepared", "busy", "queued", "lost"}
Reads(r) == r \in Live \ Lost

\* The response can end with the messages that were read.
Over(r) ==
    \/ pc[r] = "done"
    \/ /\ pc[r] \in {"parse", "yielded"}
       /\ \E i \in DOMAIN batch[r].body : batch[r].body[i] \in {"msg", "ack", "done"}
    \/ pc[r] = "yielded" /\ last[r] \in {"msg", "ack"}

\* The answer to r comes in order through the kernel, the receive buffer and the
\* queue of r.
Stream(r) ==
    /\ \A i, j \in DOMAIN todo[r] : i < j => Orderly(todo[r][i], todo[r][j])
    /\ InOrder(rcv, r)
    /\ \A b \in Bodies(rcv, r), c \in Owed(r) : Orderly(b, c)
    /\ Reads(r) => /\ InOrder(Pending(r), r)
                   /\ \A b \in Bodies(Pending(r), r), c \in Owed(r) \cup Bodies(rcv, r) :
                         Orderly(b, c)
    /\ Over(r) /\ mixed[r] = {} =>
          /\ \A c \in Owed(r) \cup Bodies(rcv, r) : Bare(c)
          /\ Reads(r) => \A c \in Bodies(Pending(r), r) : Bare(c)
    /\ pc[r] \in Unsent =>
          /\ Owed(r) = {} /\ Bodies(rcv, r) = {}
          /\ Reads(r) => Bodies(Pending(r), r) = {}

Streams == \A r \in Req : Stream(r)

\* The positions of a queue that gets one more datagram.
LEMMA OneMorePlace ==
    ASSUME NEW n \in Nat
    PROVE  /\ \A i \in 1..(n + 1) : i \in 1..n \/ i = n + 1
           /\ \A i \in 1..n : i \in 1..(n + 1) /\ i < n + 1
           /\ n + 1 \in 1..(n + 1)
  OBVIOUS

\* A datagram is put at the end of a queue.
LEMMA AppendElements ==
    ASSUME NEW S, NEW s \in Seq(S), NEW d \in S
    PROVE  /\ DOMAIN s = 1..Len(s) /\ Len(s) \in Nat
           /\ DOMAIN Append(s, d) = 1..(Len(s) + 1)
           /\ \A i \in 1..Len(s) : Append(s, d)[i] = s[i]
           /\ Append(s, d)[Len(s) + 1] = d
<1>1. DOMAIN s = 1..Len(s) /\ Len(s) \in Nat
  OBVIOUS
<1>2. DOMAIN Append(s, d) = 1..(Len(s) + 1)
  OBVIOUS
<1>3. \A i \in 1..Len(s) : Append(s, d)[i] = s[i]
  OBVIOUS
<1>4. Append(s, d)[Len(s) + 1] = d
  OBVIOUS
<1>. QED
  BY <1>1, <1>2, <1>3, <1>4, Zenon

\* A datagram at the end of a queue is the last of its owner's.
LEMMA OwnAppend ==
    ASSUME NEW s \in Seq(Datagrams), NEW d \in Datagrams, NEW r
    PROVE  /\ Bodies(Append(s, d), r) = Bodies(s, r) \cup (IF d.owner = r THEN {d.body} ELSE {})
           /\ InOrder(s, r) /\ (d.owner = r => \A b \in Bodies(s, r) : Orderly(b, d.body))
                => InOrder(Append(s, d), r)
<1>1. /\ DOMAIN s = 1..Len(s) /\ Len(s) \in Nat
      /\ DOMAIN Append(s, d) = 1..(Len(s) + 1)
      /\ \A i \in 1..Len(s) : Append(s, d)[i] = s[i]
      /\ Append(s, d)[Len(s) + 1] = d
  BY AppendElements, Zenon
<1>. DEFINE a == Append(s, d)
<1>. HIDE DEF a
<1>2. \A i \in DOMAIN a : (i \in DOMAIN s /\ a[i] = s[i]) \/ (i = Len(s) + 1 /\ a[i] = d)
  BY <1>1, OneMorePlace, Zenon DEF a
<1>3. \A i \in DOMAIN s : i \in DOMAIN a /\ a[i] = s[i] /\ i < Len(s) + 1
  BY <1>1, OneMorePlace, Zenon DEF a
<1>4. Len(s) + 1 \in DOMAIN a /\ a[Len(s) + 1] = d
  BY <1>1, OneMorePlace, Zenon DEF a
<1>5. Bodies(a, r) = Bodies(s, r) \cup (IF d.owner = r THEN {d.body} ELSE {})
  BY <1>2, <1>3, <1>4 DEF Bodies, Own
<1>6. ASSUME InOrder(s, r), d.owner = r => \A b \in Bodies(s, r) : Orderly(b, d.body)
      PROVE  InOrder(a, r)
  <2>. SUFFICES ASSUME NEW i \in Own(a, r), NEW j \in Own(a, r), i < j
                PROVE  Orderly(a[i].body, a[j].body)
    BY DEF InOrder
  <2>1. i \in DOMAIN s /\ a[i] = s[i]
    <3>1. i # Len(s) + 1
      BY <1>1 DEF Own, a
    <3>. QED
      BY <1>2, <3>1 DEF Own
  <2>2. CASE j \in DOMAIN s
    BY <1>3, <1>6, <2>1, <2>2, Zenon DEF Own, InOrder
  <2>3. CASE j = Len(s) + 1
    BY <1>4, <1>6, <2>1, <2>3 DEF Own, Bodies
  <2>. QED
    BY <1>2, <2>2, <2>3 DEF Own
<1>. QED
  BY <1>5, <1>6 DEF a

\* A datagram of another request does not count.
LEMMA ForeignAppend ==
    ASSUME NEW s \in Seq(Datagrams), NEW d \in Datagrams, NEW r, d.owner # r, InOrder(s, r)
    PROVE  Bodies(Append(s, d), r) = Bodies(s, r) /\ InOrder(Append(s, d), r)
<1>1. Bodies(Append(s, d), r) = Bodies(s, r) \cup {}
  BY OwnAppend, Zenon
<1>2. InOrder(Append(s, d), r)
  BY OwnAppend
<1>. QED
  BY <1>1, <1>2

\* Taking the first datagram keeps the order of the rest.
LEMMA OwnTail ==
    ASSUME NEW s \in Seq(Datagrams), s # <<>>, NEW r
    PROVE  /\ Bodies(Tail(s), r) \subseteq Bodies(s, r)
           /\ InOrder(s, r) => InOrder(Tail(s), r)
           /\ InOrder(s, r) /\ Head(s).owner = r =>
                 \A b \in Bodies(Tail(s), r) : Orderly(Head(s).body, b)
           /\ Head(s).owner = r => Head(s).body \in Bodies(s, r)
           /\ Head(s).owner # r => Bodies(Tail(s), r) = Bodies(s, r)
<1>1. /\ DOMAIN s = 1..Len(s) /\ Len(s) \in Nat /\ Len(s) > 0
      /\ DOMAIN Tail(s) = 1..(Len(s) - 1)
      /\ \A i \in 1..(Len(s) - 1) : Tail(s)[i] = s[i + 1]
      /\ Head(s) = s[1]
  OBVIOUS
<1>. DEFINE a == Tail(s)
<1>. HIDE DEF a
<1>2. \A i \in DOMAIN a : i + 1 \in DOMAIN s /\ a[i] = s[i + 1] /\ 1 < i + 1
  BY <1>1 DEF a
<1>3. \A i \in DOMAIN s : i = 1 \/ (i - 1 \in DOMAIN a /\ a[i - 1] = s[i])
  BY <1>1 DEF a
<1>4. \A i, j \in DOMAIN a : i < j => i + 1 < j + 1
  BY <1>1 DEF a
<1>5. 1 \in DOMAIN s /\ Head(s) = s[1]
  BY <1>1
<1>6. Bodies(a, r) \subseteq Bodies(s, r)
  BY <1>2 DEF Bodies, Own
<1>7. InOrder(s, r) => InOrder(a, r)
  BY <1>2, <1>4 DEF InOrder, Own
<1>8. InOrder(s, r) /\ Head(s).owner = r => \A b \in Bodies(a, r) : Orderly(Head(s).body, b)
  BY <1>2, <1>5 DEF InOrder, Own, Bodies
<1>9. Head(s).owner = r => Head(s).body \in Bodies(s, r)
  BY <1>5 DEF Bodies, Own
<1>10. Head(s).owner # r => Bodies(s, r) \subseteq Bodies(a, r)
  BY <1>3, <1>5 DEF Bodies, Own
<1>. QED
  BY <1>6, <1>7, <1>8, <1>9, <1>10, Zenon DEF a

\* A step that does not touch what comes to r, and takes r at most to a label
\* where nothing is asked.
LEMMA StreamStays ==
    ASSUME NEW r \in Req, Stream(r), UNCHANGED rcv, todo'[r] = todo[r],
           Reads(r)' => Reads(r) /\ Pending(r)' = Pending(r),
           \/ /\ pc'[r] = pc[r] /\ batch'[r] = batch[r] /\ last'[r] = last[r]
              /\ mixed'[r] = mixed[r]
           \/ pc'[r] \notin Unsent \cup {"done", "parse", "yielded"}
           \/ pc'[r] = "done" /\ (mixed'[r] = {} => \A c \in Owed(r) \cup Bodies(rcv, r) : Bare(c))
              /\ ~Reads(r)'
           \/ pc'[r] \in Unsent /\ pc[r] \in Unsent
    PROVE  Stream(r)'
<1>1. Owed(r)' = Owed(r) /\ Bodies(rcv, r)' = Bodies(rcv, r) /\ InOrder(rcv, r)'
  BY Zenon DEF Owed, Bodies, Own, InOrder, Stream
<1>2. Reads(r)' => /\ Reads(r) /\ Bodies(Pending(r), r)' = Bodies(Pending(r), r)
                   /\ InOrder(Pending(r), r)'
  BY Zenon DEF Bodies, Own, InOrder, Stream
<1>3. /\ pc'[r] \in Unsent => pc[r] \in Unsent
      /\ Over(r)' /\ mixed'[r] = {} =>
            \/ Over(r) /\ mixed[r] = {}
            \/ ~Reads(r)' /\ \A c \in Owed(r) \cup Bodies(rcv, r) : Bare(c)
  BY Zenon DEF Over, Unsent
<1>4. (\A i, j \in DOMAIN todo[r] : i < j => Orderly(todo[r][i], todo[r][j]))'
  BY Zenon DEF Stream, Orderly, Ends, Bare
<1>. QED
  BY <1>1, <1>2, <1>3, <1>4, Zenon DEF Stream, Orderly, Ends, Bare

\* cleanup() drops the queue of its request, no other.
LEMMA CleanupPending ==
    ASSUME NetInv, NEW q \in Live \ Lost, Cleanup(q), NEW r \in Req \ {q}, Reads(r)
    PROVE  Pending(r)' = Pending(r)
<1>1. msg_seq[r] # msg_seq[q] /\ msg_seq[r] \in DOMAIN queues
  BY DEF NetInv, OwnTags, Reads
<1>. QED
  BY <1>1, Zenon DEF Cleanup, Without, Pending

\* A request ends; those after it in its batch may be left alone.
LEMMA EndStreams ==
    ASSUME NetInv, Streams, NEW q \in Live \ Lost, Cleanup(q), UNCHANGED <<rcv, todo>>,
           pc'[q] \in {"failed", "stopped", "done", "queued"},
           pc'[q] = "queued" => pc[q] = "prepared",
           \A r \in Req \ {q} : /\ mixed'[r] = mixed[r]
                                /\ \/ pc'[r] = pc[r]
                                   \/ pc[r] = "sent" /\ pc'[r] = "leaked",
           pc'[q] = "done" /\ mixed'[q] = {} =>
               \A c \in Owed(q) \cup Bodies(rcv, q) : Bare(c)
    PROVE  Streams'
<1>. q \in Req
  BY Zenon DEF Live
<1>1. ASSUME NEW r \in Req \ {q}
      PROVE  Stream(r)'
  <2>1. /\ batch'[r] = batch[r] /\ last'[r] = last[r]
        /\ Reads(r)' => Reads(r)
    BY Zenon DEF Cleanup, NetInv, TypeOK, Reads, Live, Lost, Finished
  <2>2. pc'[r] = pc[r] \/ pc'[r] \notin Unsent \cup {"done", "parse", "yielded"}
    BY Zenon DEF Unsent
  <2>. QED
    BY <2>1, <2>2, StreamStays, CleanupPending, Zenon DEF Streams
<1>2. Stream(q)'
  <2>1. ~Reads(q)'
    BY Zenon DEF Reads, Live, Finished
  <2>2. pc'[q] = "queued" => pc'[q] \in Unsent /\ pc[q] \in Unsent
    BY DEF Unsent
  <2>3. pc'[q] \in {"failed", "stopped"} => pc'[q] \notin Unsent \cup {"done", "parse", "yielded"}
    BY DEF Unsent
  <2>. QED
    BY <2>1, <2>2, <2>3, StreamStays, Zenon DEF Streams
<1>. QED
  BY <1>1, <1>2, Zenon DEF Streams

\* Steps of one coroutine that touch no datagram.
LEMMA LocalStreams ==
    ASSUME NetInv, Streams, NEW q \in Req, NEW l, Goto(q, l),
           UNCHANGED <<queues, rcv, todo, msg_seq, batch, last, mixed>>,
           l \notin Unsent \cup Finished \cup {"parse", "yielded"} \/ l = "failed"
               \/ (l = "busy" /\ pc[q] \in Unsent),
           q \in Live \ Lost \/ l = "failed"
    PROVE  Streams'
<1>. SUFFICES ASSUME NEW r \in Req PROVE Stream(r)'
  BY DEF Streams
<1>1. pc'[q] = l /\ (r # q => pc'[r] = pc[r])
  BY DEF Goto, NetInv, TypeOK
<1>2. Reads(r)' => Reads(r) /\ Pending(r)' = Pending(r)
  BY <1>1, Zenon DEF Reads, Live, Lost, Finished, Pending
<1>3. \/ pc'[r] = pc[r] \/ pc'[r] \notin Unsent \cup {"done", "parse", "yielded"}
      \/ pc'[r] \in Unsent /\ pc[r] \in Unsent
  BY <1>1, Zenon DEF Unsent, Finished
<1>. QED
  BY <1>2, <1>3, StreamStays, Zenon DEF Streams

\* A new request opens an empty queue.
LEMMA CreateStreams ==
    ASSUME NetInv, Streams, NEW q \in Req, Create(q) \/ PrepareFails(q)
    PROVE  Streams'
<1>. SUFFICES ASSUME NEW r \in Req PROVE Stream(r)'
  BY DEF Streams
<1>1. /\ pc[q] = "new" /\ UNCHANGED <<rcv, todo, batch, last, mixed>>
      /\ pc' = [pc EXCEPT ![q] = IF Create(q) THEN "prepared" ELSE "lost"]
  BY Zenon DEF Create, PrepareFails, Goto
<1>2. PICK s \in Seqs : /\ msg_seq' = [msg_seq EXCEPT ![q] = s] /\ s \notin held
                        /\ queues' = queues \/ queues' = WithTag(queues, s)
                        /\ Create(q) => queues' = WithTag(queues, s)
  <2>1. CASE Create(q)
    <3>1. PICK s \in Seqs, n \in {1, 2} : /\ Alloc(s, n)
                                          /\ msg_seq' = [msg_seq EXCEPT ![q] = s]
                                          /\ queues' = WithTag(queues, s)
      BY <2>1, Zenon DEF Create
    <3>. QED
      BY <3>1, Zenon DEF Alloc
  <2>2. CASE ~Create(q)
    <3>1. PICK s \in Seqs, n \in {1, 2} : Alloc(s, n) /\ msg_seq' = [msg_seq EXCEPT ![q] = s]
      BY <2>2 DEF PrepareFails
    <3>2. queues' = queues
      BY <2>2 DEF PrepareFails
    <3>. QED
      BY <2>2, <3>1, <3>2, Zenon DEF Alloc
  <2>. QED
    BY <2>1, <2>2
<1>. pc \in [Req -> Labels] /\ msg_seq \in [Req -> Seqs \cup {None}]
  BY DEF NetInv, TypeOK
<1>3. CASE r # q
  <2>1. pc'[r] = pc[r] /\ msg_seq'[r] = msg_seq[r]
    BY <1>1, <1>2, <1>3
  <2>2. Reads(r)' => Reads(r)
    BY <2>1 DEF Reads, Live, Lost
  <2>3. Reads(r) => msg_seq[r] \in DOMAIN queues
    BY Zenon DEF Reads, NetInv, OwnTags
  <2>4. Reads(r) => Pending(r)' = Pending(r)
    BY <1>2, <2>1, <2>3 DEF Pending, WithTag
  <2>. QED
    BY <1>1, <2>1, <2>2, <2>4, StreamStays, Zenon DEF Streams
<1>4. CASE r = q /\ ~Create(q)
  <2>1. pc'[r] = "lost"
    BY <1>1, <1>4
  <2>2. ~Reads(r)' /\ pc'[r] \in Unsent /\ pc[r] \in Unsent
    BY <1>1, <1>4, <2>1 DEF Reads, Lost, Unsent
  <2>. QED
    BY <1>1, <2>2, StreamStays, Zenon DEF Streams
<1>5. CASE r = q /\ Create(q)
  <2>1. pc'[r] = "prepared" /\ msg_seq'[r] = s
    BY <1>1, <1>2, <1>5
  <2>2. s \notin DOMAIN queues
    <3>1. s # 0
      BY RequestAssumption
    <3>. QED
      BY <1>2, <3>1 DEF NetInv, OwnTags
  <2>3. Pending(r)' = <<>>
    BY <1>2, <1>5, <2>1, <2>2 DEF Pending, WithTag
  <2>4. Bodies(Pending(r), r)' = {} /\ InOrder(Pending(r), r)'
    <3>1. DOMAIN Pending(r)' = {}
      BY <2>3
    <3>. QED
      BY <3>1, Zenon DEF Bodies, Own, InOrder
  <2>5. Owed(r) = {} /\ Bodies(rcv, r) = {} /\ InOrder(rcv, r)
    BY <1>1, <1>5, Zenon DEF Stream, Streams, Unsent
  <2>6. Owed(r)' = {} /\ Bodies(rcv, r)' = {} /\ InOrder(rcv, r)'
    BY <1>1, <2>5, Zenon DEF Owed, Bodies, Own, InOrder
  <2>7. DOMAIN todo'[r] = {}
    BY <2>6, Zenon DEF Owed
  <2>. QED
    BY <2>4, <2>6, <2>7, Zenon DEF Stream
<1>. QED
  BY <1>3, <1>4, <1>5

\* A request for which no number is left.
LEMMA CreateFailsStreams ==
    ASSUME NetInv, Streams, NEW q \in Req, CreateFails(q)
    PROVE  Streams'
<1>1. Goto(q, "failed") /\ UNCHANGED <<queues, rcv, todo, msg_seq, batch, last, mixed>>
  BY DEF CreateFails, history
<1>. QED
  BY <1>1, LocalStreams

\* An answer of one datagram.
LEMMA OneChunk ==
    ASSUME NEW m
    PROVE  DOMAIN <<m>> = {1} /\ <<m>>[1] = m
OBVIOUS

\* The kernel owes a new answer to r, and nothing of an earlier one is left.
LEMMA StreamSent ==
    ASSUME AnswersAreWhole, NEW r \in Req, Stream(r), pc[r] \in Unsent,
           UNCHANGED rcv, todo'[r] \in Answers \/ DOMAIN todo'[r] = {},
           Reads(r)' => Reads(r) /\ Pending(r)' = Pending(r),
           \/ pc'[r] \notin Unsent \cup {"done", "parse", "yielded"}
           \/ pc'[r] = "done" /\ ~Reads(r)' /\ (todo'[r] = <<<<"err">>>> \/ DOMAIN todo'[r] = {})
    PROVE  Stream(r)'
<1>1. Bodies(rcv, r)' = {} /\ InOrder(rcv, r)'
  BY Zenon DEF Stream, Bodies, Own, InOrder
<1>2. Reads(r)' => Bodies(Pending(r), r)' = {} /\ InOrder(Pending(r), r)'
  BY Zenon DEF Stream, Bodies, Own, InOrder
<1>3. \A i, j \in DOMAIN todo'[r] : i < j => Orderly(todo'[r][i], todo'[r][j])
  BY DEF AnswersAreWhole
<1>4. pc'[r] = "done" => \A c \in Owed(r)' : Bare(c)
  <2>1. ASSUME todo'[r] = <<<<"err">>>>, NEW c \in Owed(r)' PROVE Bare(c)
    <3>1. c = <<"err">>
      <4>. DEFINE e == <<"err">>
      <4>. HIDE DEF e
      <4>1. DOMAIN <<e>> = {1} /\ <<e>>[1] = e
        BY OneChunk, Zenon
      <4>2. DOMAIN todo'[r] = {1} /\ todo'[r][1] = e
        BY <2>1, <4>1 DEF e
      <4>. QED
        BY <2>1, <4>2 DEF Owed, e
    <3>. QED
      BY <3>1 DEF Bare
  <2>2. DOMAIN todo'[r] = {} => Owed(r)' = {}
    BY Zenon DEF Owed
  <2>. QED
    BY <2>1, <2>2, Zenon DEF Unsent
<1>5. Over(r)' => pc'[r] = "done" /\ ~Reads(r)'
  BY DEF Over
<1>6. pc'[r] \notin Unsent
  BY DEF Unsent
<1>. QED
  BY <1>1, <1>2, <1>3, <1>4, <1>5, <1>6, Zenon DEF Stream, Orderly, Ends, Bare

\* A request that is sent is owed one of the kernel's answers.
LEMMA SendStreams ==
    ASSUME AnswersAreWhole, NetInv, Streams, NEW q \in Req, Send(q)
    PROVE  Streams'
<1>. SUFFICES ASSUME NEW r \in Req PROVE Stream(r)'
  BY DEF Streams
<1>1. /\ pc[q] \in {"prepared", "busy"} /\ Goto(q, "sent")
      /\ UNCHANGED <<queues, rcv, msg_seq, batch, last, mixed>>
      /\ \E answer \in Answers : todo' = [todo EXCEPT ![q] = answer]
  BY Zenon DEF Send, history
<1>2. /\ todo'[q] \in Answers /\ pc'[q] = "sent"
      /\ r # q => todo'[r] = todo[r] /\ pc'[r] = pc[r]
  BY <1>1 DEF Goto, NetInv, TypeOK
<1>3. Reads(r)' => Reads(r) /\ Pending(r)' = Pending(r)
  BY <1>1, <1>2, Zenon DEF Reads, Live, Lost, Finished, Pending
<1>4. CASE r # q
  BY <1>1, <1>2, <1>3, <1>4, StreamStays, Zenon DEF Streams
<1>5. CASE r = q
  BY <1>1, <1>2, <1>3, <1>5, StreamSent, Zenon DEF Streams, Unsent
<1>. QED
  BY <1>4, <1>5

\* So are those of a batch.
LEMMA BatchStreams ==
    ASSUME AnswersAreWhole, NetInv, Streams, BatchSend \/ BatchSendFails
    PROVE  Streams'
<1>. SUFFICES ASSUME NEW r \in Req PROVE Stream(r)'
  BY DEF Streams
<1>1. /\ UNCHANGED <<queues, rcv, msg_seq, batch, last, mixed>> /\ BatchReady
  BY DEF BatchSend, BatchSendFails, history
<1>2. CASE ~InBatch(r)
  <2>1. pc'[r] = pc[r] /\ todo'[r] = todo[r]
    BY <1>2 DEF BatchSend, BatchSendFails
  <2>2. Reads(r)' => Reads(r) /\ Pending(r)' = Pending(r)
    BY <1>1, <2>1, Zenon DEF Reads, Live, Lost, Pending
  <2>. QED
    BY <1>1, <2>1, <2>2, StreamStays, Zenon DEF Streams
<1>3. CASE InBatch(r)
  <2>1. pc[r] = IF r \in noack THEN "queued" ELSE "prepared"
    BY <1>1, <1>3 DEF InBatch, BatchReady, Collected
  <2>2. pc'[r] = "done" \/ pc'[r] \in {"sent", "leaked"}
    BY <1>3 DEF BatchSend, BatchSendFails
  <2>3. pc'[r] = "done" <=> r \in noack
    BY <1>3 DEF BatchSend, BatchSendFails
  <2>4. Reads(r)' => Reads(r) /\ Pending(r)' = Pending(r)
    BY <1>1, <2>1, <2>2, <2>3, Zenon DEF Reads, Live, Lost, Pending, Finished
  <2>5. pc'[r] = "done" => ~Reads(r)'
    BY DEF Reads, Live, Finished
  <2>6. /\ todo'[r] \in Answers \/ DOMAIN todo'[r] = {}
        /\ r \in noack => todo'[r] = <<<<"err">>>> \/ DOMAIN todo'[r] = {}
    <3>1. CASE BatchSend
      <4>1. DOMAIN <<>> = {}
        OBVIOUS
      <4>. QED
        BY <1>3, <3>1, <4>1, Zenon DEF BatchSend
    <3>2. CASE BatchSendFails
      <4>1. todo'[r] = todo[r]
        BY <3>2, Zenon DEF BatchSendFails
      <4>2. Owed(r) = {}
        BY <2>1, Zenon DEF Streams, Stream, Unsent
      <4>3. DOMAIN todo[r] = {}
        BY <4>2, Zenon DEF Owed
      <4>. QED
        BY <4>1, <4>3
    <3>. QED
      BY <3>1, <3>2
  <2>. QED
    BY <1>1, <2>1, <2>2, <2>3, <2>4, <2>5, <2>6, StreamSent, Zenon DEF Streams, Unsent
<1>. QED
  BY <1>2, <1>3

\* A datagram comes into a queue: a foreign one, or the next one of r.
LEMMA StreamQueued ==
    ASSUME NetInv, NEW r \in Req, Stream(r), NEW d \in Datagrams,
           Reads(r)' => Reads(r), Pending(r) \in Seq(Datagrams) \/ ~Reads(r),
           Reads(r) => Pending(r)' \in {Pending(r), Append(Pending(r), d)},
           \A c \in Bodies(rcv, r)' : c \in Bodies(rcv, r) /\ (d.owner = r => Orderly(d.body, c)),
           InOrder(rcv, r)', todo'[r] = todo[r],
           d.owner = r => \A c \in Owed(r) : Orderly(d.body, c),
           d.owner = r => \/ d.body \in Bodies(rcv, r)
                          \/ pc[r] \in Unsent,
           pc'[r] = pc[r] \/ pc'[r] = "sent", pc'[r] \in Unsent => d.owner # r \/ d.body \in Bodies(rcv, r),
           batch'[r] = batch[r], last'[r] = last[r], mixed'[r] = mixed[r]
    PROVE  Stream(r)'
<1>1. Owed(r)' = Owed(r)
  BY Zenon DEF Owed
<1>2. Over(r)' => Over(r)
  BY Zenon DEF Over
<1>3. /\ \A i, j \in DOMAIN todo'[r] : i < j => Orderly(todo'[r][i], todo'[r][j])
      /\ \A b \in Bodies(rcv, r)', c \in Owed(r)' : Orderly(b, c)
  BY <1>1, Zenon DEF Stream
<1>4. pc'[r] \in Unsent => pc[r] \in Unsent
  BY Zenon DEF Unsent
<1>5. ~Over(r) \/ pc[r] \notin Unsent
  BY Zenon DEF Over, Unsent
<1>6. ASSUME Reads(r)'
      PROVE  /\ InOrder(Pending(r), r)'
             /\ \A b \in Bodies(Pending(r), r)', c \in Owed(r)' \cup Bodies(rcv, r)' : Orderly(b, c)
             /\ Over(r) /\ mixed[r] = {} => \A c \in Bodies(Pending(r), r)' : Bare(c)
             /\ pc'[r] \in Unsent => Bodies(Pending(r), r)' = {}
  <2>1. Reads(r) /\ Pending(r) \in Seq(Datagrams)
    BY <1>6, Zenon
  <2>2. CASE Pending(r)' = Pending(r)
    <3>1. Bodies(Pending(r), r)' = Bodies(Pending(r), r) /\ InOrder(Pending(r), r)'
      BY <2>1, <2>2, Zenon DEF Bodies, Own, InOrder, Stream
    <3>. QED
      BY <1>1, <1>4, <2>1, <3>1, Zenon DEF Stream
  <2>3. CASE Pending(r)' = Append(Pending(r), d)
    <3>1. Bodies(Pending(r), r)' = Bodies(Append(Pending(r), d), r)
      BY <2>3, Zenon DEF Bodies, Own
    <3>2. Bodies(Append(Pending(r), d), r)
             = Bodies(Pending(r), r) \cup (IF d.owner = r THEN {d.body} ELSE {})
      BY <2>1, OwnAppend, Zenon
    <3>3. d.owner = r => \A b \in Bodies(Pending(r), r) : Orderly(b, d.body)
      BY <2>1, Zenon DEF Stream
    <3>4. InOrder(Append(Pending(r), d), r)
      BY <2>1, <3>3, OwnAppend, Zenon DEF Stream
    <3>5. InOrder(Pending(r), r)'
      BY <2>3, <3>4, Zenon DEF InOrder, Own
    <3>6. \A b \in Bodies(Pending(r), r)', c \in Owed(r)' \cup Bodies(rcv, r)' : Orderly(b, c)
      BY <1>1, <2>1, <3>1, <3>2, Zenon DEF Stream
    <3>7. Over(r) /\ mixed[r] = {} => \A c \in Bodies(Pending(r), r)' : Bare(c)
      BY <1>5, <2>1, <3>1, <3>2, Zenon DEF Stream
    <3>8. pc'[r] \in Unsent => Bodies(Pending(r), r)' = {}
      BY <1>4, <2>1, <3>1, <3>2, Zenon DEF Stream
    <3>. QED
      BY <3>5, <3>6, <3>7, <3>8, Zenon
  <2>. QED
    BY <2>1, <2>2, <2>3, Zenon
<1>7. Over(r)' /\ mixed'[r] = {} => \A c \in Owed(r)' \cup Bodies(rcv, r)' : Bare(c)
  BY <1>1, <1>2, Zenon DEF Stream
<1>8. pc'[r] \in Unsent => Owed(r)' = {} /\ Bodies(rcv, r)' = {}
  BY <1>1, <1>4, Zenon DEF Stream
<1>. QED
  BY <1>2, <1>3, <1>6, <1>7, <1>8, Zenon DEF Stream, Orderly, Ends, Bare

\* A request that reads has a queue of datagrams.
LEMMA PendingType ==
    ASSUME NetInv, NEW r \in Req, Reads(r)
    PROVE  /\ msg_seq[r] \in DOMAIN queues /\ msg_seq[r] # 0
           /\ Pending(r) \in Seq(Datagrams)
<1>1. msg_seq[r] \in DOMAIN queues
  BY DEF NetInv, OwnTags, Reads
<1>2. msg_seq[r] # 0
  BY RequestAssumption DEF NetInv, TypeOK, Numbered, Reads
<1>. QED
  BY <1>1, <1>2 DEF Pending, NetInv, TypeOK

\* The answer of a proxy is one datagram.
LEMMA SendProxiedStreams ==
    ASSUME NetInv, Streams, NEW q \in Req, SendProxied(q)
    PROVE  Streams'
<1>. SUFFICES ASSUME NEW r \in Req PROVE Stream(r)'
  BY DEF Streams
<1>1. /\ pc[q] = "prepared" /\ Goto(q, "sent")
      /\ UNCHANGED <<rcv, todo, msg_seq, batch, last, mixed>>
  BY Zenon DEF SendProxied, history
<1>2. PICK body \in {<<"done">>, <<"err">>} :
          queues' = Enqueued(queues, msg_seq[q], Datagram(msg_seq[q], q, body))
  BY DEF SendProxied
<1>. DEFINE d == Datagram(msg_seq[q], q, body)
<1>3. Reads(q) /\ pc[q] \in Unsent
  BY <1>1 DEF Reads, Live, Lost, Finished, Unsent
<1>4. d \in Datagrams /\ d.owner = q
  <2>1. msg_seq[q] \in Tags
    BY <1>3, PendingType DEF NetInv, TypeOK
  <2>. QED
    BY <2>1, OneMessage, Zenon DEF Datagrams, Datagram
<1>5. queues' = [queues EXCEPT ![msg_seq[q]] = Append(queues[msg_seq[q]], d)]
  BY <1>2, <1>3, PendingType, Zenon DEF Enqueued
<1>. HIDE DEF d
<1>6. pc'[q] = "sent" /\ (r # q => pc'[r] = pc[r])
  BY <1>1 DEF Goto, NetInv, TypeOK
<1>7. Reads(r)' => Reads(r)
  BY <1>1, <1>6 DEF Reads, Live, Lost, Finished
<1>8. Reads(r) => Pending(r)' \in {Pending(r), Append(Pending(r), d)}
  BY <1>1, <1>5, PendingType DEF Pending
<1>9. Reads(r) => Pending(r) \in Seq(Datagrams)
  BY PendingType
<1>10. Bodies(rcv, r)' = Bodies(rcv, r) /\ InOrder(rcv, r)'
  BY <1>1, Zenon DEF Bodies, Own, InOrder, Streams, Stream
<1>11. r = q => Bodies(rcv, r) = {} /\ Owed(r) = {}
  BY <1>3, Zenon DEF Streams, Stream
<1>12. pc'[r] \in Unsent => r # q
  BY <1>6, Zenon DEF Unsent
<1>. QED
  BY <1>1, <1>3, <1>4, <1>6, <1>7, <1>8, <1>9, <1>10, <1>11, <1>12, StreamQueued, Zenon DEF Streams

\* datagram_received(): the first datagram of the buffer goes to a queue.
LEMMA ReceiveStreams ==
    ASSUME NetInv, Streams, Receive
    PROVE  Streams'
<1>. SUFFICES ASSUME NEW r \in Req PROVE Stream(r)'
  BY DEF Streams
<1>. DEFINE d == Head(rcv)
<1>1. /\ rcv # <<>> /\ rcv' = Tail(rcv) /\ queues' = Enqueued(queues, d.tag, d)
      /\ UNCHANGED <<todo, pc, msg_seq, batch, last, mixed>>
  BY Zenon DEF Receive, reqvars, history
<1>2. rcv \in Seq(Datagrams) /\ d \in Datagrams /\ 1 \in DOMAIN rcv /\ d = rcv[1]
  BY <1>1 DEF NetInv, TypeOK
<1>3. d.owner = r => d.tag = msg_seq[r]
  BY <1>2 DEF NetInv, Tagged, Fits
<1>4. PICK u \in DOMAIN queues : queues' = [queues EXCEPT ![u] = Append(queues[u], d)]
                                 /\ (d.tag \in DOMAIN queues => u = d.tag)
  <2>1. 0 \in DOMAIN queues
    BY DEF NetInv, OwnTags
  <2>. QED
    BY <1>1, <2>1, Zenon DEF Enqueued
<1>5. Reads(r)' => Reads(r)
  BY <1>1 DEF Reads, Live, Lost
<1>6. Reads(r) => Pending(r)' \in {Pending(r), Append(Pending(r), d)}
  BY <1>1, <1>4, PendingType DEF Pending
<1>7. Reads(r) => Pending(r) \in Seq(Datagrams)
  BY PendingType
<1>8. /\ Bodies(rcv, r)' = Bodies(Tail(rcv), r)
      /\ InOrder(rcv, r)' <=> InOrder(Tail(rcv), r)
  BY <1>1 DEF Bodies, Own, InOrder
<1>9. Stream(r)
  BY DEF Streams
<1>10. /\ InOrder(rcv, r)'
       /\ Bodies(Tail(rcv), r) \subseteq Bodies(rcv, r)
       /\ d.owner = r => \A b \in Bodies(Tail(rcv), r) : Orderly(d.body, b)
       /\ d.owner = r => d.body \in Bodies(rcv, r)
  BY <1>1, <1>2, <1>8, <1>9, OwnTail, Zenon DEF Stream
<1>11. d.owner = r => \A c \in Owed(r) : Orderly(d.body, c)
  BY <1>9, <1>10, Zenon DEF Stream
<1>. HIDE DEF d
<1>. QED
  BY <1>1, <1>2, <1>5, <1>6, <1>7, <1>8, <1>9, <1>10, <1>11, StreamQueued, Zenon

\* Less is to come for r.
LEMMA StreamShrinks ==
    ASSUME NEW r \in Req, Stream(r), InOrder(rcv, r)', Bodies(rcv, r)' \subseteq Bodies(rcv, r),
           Owed(r)' \subseteq Owed(r),
           \A i, j \in DOMAIN todo'[r] : i < j => Orderly(todo'[r][i], todo'[r][j]),
           Reads(r)' => Reads(r) /\ Pending(r)' = Pending(r),
           pc'[r] = pc[r], batch'[r] = batch[r], last'[r] = last[r], mixed'[r] = mixed[r]
    PROVE  Stream(r)'
<1>1. Over(r)' <=> Over(r)
  BY Zenon DEF Over
<1>2. Reads(r)' => /\ Reads(r) /\ Bodies(Pending(r), r)' = Bodies(Pending(r), r)
                   /\ InOrder(Pending(r), r)'
  BY Zenon DEF Bodies, Own, InOrder, Stream
<1>. QED
  BY <1>1, <1>2, Zenon DEF Stream, Orderly, Ends, Bare

\* The rest of what the kernel owes.
LEMMA OwedTail ==
    ASSUME NEW s \in Seq(Seq(Kinds)), s # <<>>,
           \A i, j \in DOMAIN s : i < j => Orderly(s[i], s[j])
    PROVE  /\ \A i, j \in DOMAIN Tail(s) : i < j => Orderly(Tail(s)[i], Tail(s)[j])
           /\ \A i \in DOMAIN Tail(s) : Orderly(Head(s), Tail(s)[i])
           /\ {Tail(s)[i] : i \in DOMAIN Tail(s)} \subseteq {s[i] : i \in DOMAIN s}
           /\ Head(s) \in {s[i] : i \in DOMAIN s} /\ Head(s) \in Seq(Kinds)
<1>1. /\ DOMAIN s = 1..Len(s) /\ Len(s) \in Nat /\ Len(s) > 0
      /\ DOMAIN Tail(s) = 1..(Len(s) - 1)
      /\ \A i \in 1..(Len(s) - 1) : Tail(s)[i] = s[i + 1]
      /\ Head(s) = s[1]
  OBVIOUS
<1>. DEFINE a == Tail(s)
<1>. HIDE DEF a
<1>2. \A i \in DOMAIN a : i + 1 \in DOMAIN s /\ a[i] = s[i + 1] /\ 1 < i + 1
  BY <1>1 DEF a
<1>3. \A i, j \in DOMAIN a : i < j => i + 1 < j + 1
  BY <1>1 DEF a
<1>4. 1 \in DOMAIN s /\ Head(s) = s[1] /\ Head(s) \in Seq(Kinds)
  BY <1>1
<1>5. \A i, j \in DOMAIN a : i < j => Orderly(a[i], a[j])
  BY <1>2, <1>3
<1>6. \A i \in DOMAIN a : Orderly(Head(s), a[i])
  BY <1>2, <1>4
<1>7. {a[i] : i \in DOMAIN a} \subseteq {s[i] : i \in DOMAIN s}
  BY <1>2
<1>. QED
  BY <1>4, <1>5, <1>6, <1>7 DEF a

\* The kernel's datagrams arrive in their order, with gaps.
LEMMA KernelStreams ==
    ASSUME NetInv, Streams, NEW q \in Req, KernelAnswers(q) \/ KernelOverruns(q)
    PROVE  Streams'
<1>. SUFFICES ASSUME NEW r \in Req PROVE Stream(r)'
  BY DEF Streams
<1>. DEFINE h == Head(todo[q])
            d == Datagram(msg_seq[q], q, h)
<1>1. /\ todo[q] # <<>> /\ todo' = [todo EXCEPT ![q] = Tail(todo[q])]
      /\ UNCHANGED <<queues, pc, msg_seq, batch, last, mixed>>
      /\ rcv' = rcv \/ rcv' = Append(rcv, d)
  BY DEF KernelAnswers, KernelOverruns, reqvars, history
<1>2. todo \in [Req -> Seq(Seq(Kinds))] /\ todo[q] \in Seq(Seq(Kinds)) /\ rcv \in Seq(Datagrams)
  BY DEF NetInv, TypeOK
<1>3. Stream(r) /\ Stream(q)
  BY DEF Streams
<1>4. Reads(r)' => Reads(r) /\ Pending(r)' = Pending(r)
  BY <1>1 DEF Reads, Live, Lost, Pending
<1>5. d \in Datagrams /\ d.owner = q /\ d.body = h
  <2>1. msg_seq[q] \in Tags
    BY <1>1 DEF NetInv, Numbered, TypeOK, Tags
  <2>2. h \in Seq(Kinds)
    BY <1>1, <1>2
  <2>. QED
    BY <2>1, <2>2, Zenon DEF Datagrams, Datagram
<1>. HIDE DEF d
<1>6. CASE r # q
  <2>1. Bodies(rcv, r)' = Bodies(rcv, r) /\ InOrder(rcv, r)'
    <3>1. CASE rcv' = rcv
      BY <1>3, <3>1, Zenon DEF Bodies, Own, InOrder, Stream
    <3>2. CASE rcv' = Append(rcv, d)
      <4>1. Bodies(Append(rcv, d), r) = Bodies(rcv, r) /\ InOrder(Append(rcv, d), r)
        <5>1. InOrder(rcv, r) /\ d.owner # r
          BY <1>3, <1>5, <1>6, Zenon DEF Stream
        <5>. QED
          BY <1>2, <1>5, <5>1, ForeignAppend
      <4>. QED
        BY <3>2, <4>1, Zenon DEF Bodies, Own, InOrder
    <3>. QED
      BY <1>1, <3>1, <3>2
  <2>2. todo'[r] = todo[r]
    BY <1>1, <1>2, <1>6
  <2>3. Owed(r)' = Owed(r)
    BY <2>2, Zenon DEF Owed
  <2>. QED
    BY <1>1, <1>3, <1>4, <2>1, <2>2, <2>3, StreamShrinks, Zenon DEF Stream
<1>7. CASE r = q
  <2>1. todo'[r] = Tail(todo[r])
    BY <1>1, <1>2, <1>7
  <2>2. /\ \A i, j \in DOMAIN todo'[r] : i < j => Orderly(todo'[r][i], todo'[r][j])
        /\ \A c \in Owed(r)' : Orderly(h, c)
        /\ Owed(r)' \subseteq Owed(r) /\ h \in Owed(r)
    <3>1. \A i, j \in DOMAIN todo[r] : i < j => Orderly(todo[r][i], todo[r][j])
      BY <1>3, Zenon DEF Stream
    <3>. DEFINE s == todo[r]
                t == Tail(s)
    <3>2. s \in Seq(Seq(Kinds)) /\ s # <<>> /\ todo'[r] = t /\ h = Head(s)
      BY <1>1, <1>2, <1>7, <2>1
    <3>3. /\ \A i, j \in DOMAIN t : i < j => Orderly(t[i], t[j])
          /\ \A i \in DOMAIN t : Orderly(Head(s), t[i])
          /\ {t[i] : i \in DOMAIN t} \subseteq {s[i] : i \in DOMAIN s}
          /\ Head(s) \in {s[i] : i \in DOMAIN s}
      <4>1. \A i, j \in DOMAIN s : i < j => Orderly(s[i], s[j])
        BY <3>1
      <4>. HIDE DEF s
      <4>. QED
        BY <3>2, <4>1, OwedTail, Zenon
    <3>4. Owed(r) = {s[i] : i \in DOMAIN s}
      BY DEF Owed
    <3>. HIDE DEF s, t, h
    <3>5. Owed(r)' = {t[i] : i \in DOMAIN t}
      BY <3>2 DEF Owed
    <3>6. \A c \in Owed(r)' : Orderly(h, c)
      BY <3>2, <3>3, <3>5
    <3>7. Owed(r)' \subseteq Owed(r) /\ h \in Owed(r)
      BY <3>2, <3>3, <3>4, <3>5, Zenon
    <3>8. \A i, j \in DOMAIN todo'[r] : i < j => Orderly(todo'[r][i], todo'[r][j])
      BY <3>2, <3>3
    <3>. QED
      BY <3>6, <3>7, <3>8
  <2>. HIDE DEF h
  <2>3. CASE rcv' = rcv
    <3>1. Bodies(rcv, r)' = Bodies(rcv, r) /\ InOrder(rcv, r)'
      BY <1>3, <2>3, Zenon DEF Bodies, Own, InOrder, Stream
    <3>. QED
      BY <1>1, <1>3, <1>4, <2>2, <3>1, StreamShrinks, Zenon
  <2>4. CASE rcv' = Append(rcv, d)
    <3>1. \A b \in Bodies(rcv, r) : Orderly(b, h)
      BY <1>3, <2>2, Zenon DEF Stream
    <3>2. Bodies(Append(rcv, d), r) = Bodies(rcv, r) \cup {h} /\ InOrder(Append(rcv, d), r)
      <4>1. InOrder(rcv, r) /\ d.owner = r /\ d.body = h
        BY <1>3, <1>5, <1>7, Zenon DEF Stream
      <4>2. \A b \in Bodies(rcv, r) : Orderly(b, d.body)
        BY <3>1, <4>1
      <4>3. /\ Bodies(Append(rcv, d), r) =
                    Bodies(rcv, r) \cup (IF d.owner = r THEN {d.body} ELSE {})
            /\ InOrder(rcv, r) /\ (d.owner = r => \A b \in Bodies(rcv, r) : Orderly(b, d.body))
                  => InOrder(Append(rcv, d), r)
        BY <1>2, <1>5, OwnAppend
      <4>. QED
        BY <4>1, <4>2, <4>3
    <3>3. Bodies(rcv, r)' = Bodies(rcv, r) \cup {h} /\ InOrder(rcv, r)'
      BY <2>4, <3>2, Zenon DEF Bodies, Own, InOrder
    <3>4. Reads(r)' => /\ Reads(r) /\ Bodies(Pending(r), r)' = Bodies(Pending(r), r)
                       /\ InOrder(Pending(r), r)'
      BY <1>3, <1>4, Zenon DEF Bodies, Own, InOrder, Stream
    <3>5. Over(r)' <=> Over(r)
      BY <1>1, Zenon DEF Over
    <3>6. pc'[r] \notin Unsent
      BY <1>1, <1>3, <2>2, Zenon DEF Stream
    <3>. HIDE DEF h
    <3>7. \A b \in Bodies(rcv, r)', c \in Owed(r)' : Orderly(b, c)
      BY <1>3, <2>2, <3>3, Zenon DEF Stream
    <3>8. Reads(r)' => \A b \in Bodies(Pending(r), r)', c \in Owed(r)' \cup Bodies(rcv, r)' : Orderly(b, c)
      BY <1>3, <2>2, <3>3, <3>4, Zenon DEF Stream
    <3>9. Over(r)' /\ mixed'[r] = {} =>
             /\ \A c \in Owed(r)' \cup Bodies(rcv, r)' : Bare(c)
             /\ Reads(r)' => \A c \in Bodies(Pending(r), r)' : Bare(c)
      BY <1>1, <1>3, <2>2, <3>3, <3>4, <3>5, Zenon DEF Stream
    <3>. QED
      BY <2>2, <3>3, <3>4, <3>6, <3>7, <3>8, <3>9, Zenon DEF Stream, Orderly, Ends, Bare
  <2>. QED
    BY <1>1, <2>3, <2>4
<1>. QED
  BY <1>6, <1>7

\* Notifications, errors, the root queue and close().
LEMMA OutsideStreams ==
    ASSUME NetInv, Streams,
           \/ \E tag \in Tags : KernelNotifies(tag)
           \/ ErrorReceived \/ RootGet \/ RootTake \/ Close \/ UNCHANGED vars
    PROVE  Streams'
<1>. SUFFICES ASSUME NEW r \in Req PROVE Stream(r)'
  BY DEF Streams
<1>0. Stream(r) /\ rcv \in Seq(Datagrams)
  BY DEF Streams, NetInv, TypeOK
<1>1. UNCHANGED <<pc, msg_seq, batch, last, mixed>>
  BY DEF KernelNotifies, ErrorReceived, RootGet, RootTake, Close, vars, reqvars, history
<1>2. Reads(r)' => Reads(r) /\ Pending(r)' = Pending(r)
  <2>1. Reads(r)' => Reads(r)
    BY <1>1 DEF Reads, Live, Lost
  <2>2. queues' = queues \/ \E x : queues' = [queues EXCEPT ![0] = x]
    <3>1. 0 \in DOMAIN queues
      BY DEF NetInv, OwnTags
    <3>. QED
      BY <3>1 DEF KernelNotifies, ErrorReceived, RootGet, RootTake, Close, vars, Enqueued
  <2>3. Reads(r) => msg_seq[r] # 0 /\ msg_seq[r] \in DOMAIN queues
    BY PendingType
  <2>. QED
    BY <1>1, <2>1, <2>2, <2>3 DEF Pending
<1>3. CASE UNCHANGED <<rcv, todo>>
  BY <1>0, <1>1, <1>2, <1>3, StreamStays, Zenon
<1>4. ASSUME NEW tag \in Tags, KernelNotifies(tag)
      PROVE  Stream(r)'
  <2>. DEFINE d == Datagram(tag, None, <<"msg">>)
  <2>1. d \in Datagrams /\ d.owner # r
    BY OneMessage, RequestAssumption, Zenon DEF Datagram, Datagrams
  <2>2. rcv' = Append(rcv, d) /\ todo' = todo
    BY <1>4 DEF KernelNotifies
  <2>. HIDE DEF d
  <2>3. Bodies(Append(rcv, d), r) = Bodies(rcv, r) /\ InOrder(Append(rcv, d), r)
    <3>1. InOrder(rcv, r)
      BY <1>0, Zenon DEF Stream
    <3>. QED
      BY <1>0, <2>1, <3>1, ForeignAppend
  <2>4. Bodies(rcv, r)' = Bodies(rcv, r) /\ InOrder(rcv, r)' /\ Owed(r)' = Owed(r)
    BY <2>2, <2>3, Zenon DEF Bodies, Own, InOrder, Owed
  <2>. QED
    BY <1>0, <1>1, <1>2, <2>2, <2>4, StreamShrinks, Zenon DEF Stream
<1>5. CASE Close
  <2>1. rcv' = <<>> /\ DOMAIN todo'[r] = {}
    BY <1>5 DEF Close
  <2>2. Bodies(rcv, r)' = {} /\ InOrder(rcv, r)' /\ Owed(r)' = {}
    <3>1. DOMAIN rcv' = {}
      BY <2>1
    <3>2. Bodies(rcv, r)' = {} /\ InOrder(rcv, r)'
      BY <3>1 DEF Bodies, Own, InOrder
    <3>3. Owed(r)' = {}
      BY <2>1 DEF Owed
    <3>. QED
      BY <3>2, <3>3
  <2>. QED
    BY <1>0, <1>1, <1>2, <2>1, <2>2, StreamShrinks, Zenon
<1>. QED
  BY <1>3, <1>4, <1>5 DEF ErrorReceived, RootGet, RootTake, vars

\* Reading the queue.
LEMMA TakeStreams ==
    ASSUME NetInv, Streams, NEW q \in Req, Take(q)
    PROVE  Streams'
<1>. SUFFICES ASSUME NEW r \in Req PROVE Stream(r)'
  BY DEF Streams
<1>. DEFINE d == Head(Pending(q))
<1>1. /\ HasData(q) /\ batch' = [batch EXCEPT ![q] = d] /\ Strangers(q, d)
      /\ queues' = [queues EXCEPT ![msg_seq[q]] = Tail(queues[msg_seq[q]])]
      /\ Goto(q, "parse") /\ UNCHANGED <<rcv, todo, msg_seq, last>>
  BY DEF Take
<1>2. /\ Reads(q) /\ Pending(q) \in Seq(Datagrams) /\ Pending(q) # <<>>
      /\ msg_seq[q] \in DOMAIN queues
  BY <1>1, HeadOfQueue DEF Reads
<1>3. /\ pc'[q] = "parse" /\ batch'[q] = d /\ mixed'[q] = mixed[q] \cup ({d.owner} \ {q})
      /\ r # q => pc'[r] = pc[r] /\ batch'[r] = batch[r] /\ mixed'[r] = mixed[r]
  BY <1>1 DEF Goto, Strangers, NetInv, TypeOK
<1>4. Reads(r)' => Reads(r)
  BY <1>2, <1>3, Zenon DEF Reads, Live, Lost
<1>5. CASE r # q
  <2>1. Reads(r) => msg_seq[r] \in DOMAIN queues /\ msg_seq[r] # msg_seq[q]
    BY <1>2, <1>5, PendingType, Zenon DEF NetInv, OwnTags, Reads
  <2>2. Reads(r) => Pending(r)' = Pending(r)
    BY <1>1, <2>1 DEF Pending
  <2>. QED
    BY <1>1, <1>3, <1>4, <1>5, <2>2, StreamStays, Zenon DEF Streams
<1>6. CASE r = q
  <2>0. Stream(r)
    BY DEF Streams
  <2>1. Pending(r)' = Tail(Pending(r))
    BY <1>1, <1>2, <1>6 DEF Pending
  <2>2. /\ Bodies(Pending(r), r)' = Bodies(Tail(Pending(r)), r)
        /\ InOrder(Pending(r), r)' <=> InOrder(Tail(Pending(r)), r)
    BY <2>1, Zenon DEF Bodies, Own, InOrder
  <2>3. /\ Bodies(Pending(r), r)' \subseteq Bodies(Pending(r), r)
        /\ InOrder(Pending(r), r)'
        /\ d.owner = r => /\ d.body \in Bodies(Pending(r), r)
                          /\ \A b \in Bodies(Pending(r), r)' : Orderly(d.body, b)
    BY <1>2, <1>6, <2>0, <2>2, OwnTail, Zenon DEF Stream
  <2>4. Owed(r)' = Owed(r) /\ Bodies(rcv, r)' = Bodies(rcv, r) /\ InOrder(rcv, r)'
    BY <1>1, <2>0, Zenon DEF Owed, Bodies, Own, InOrder, Stream
  <2>5. Over(r)' => Ends(d.body)
    BY <1>3, <1>6, Zenon DEF Over, Ends
  <2>6. mixed'[r] = {} => d.owner = r
    BY <1>3, <1>6
  <2>. HIDE DEF d
  <2>7. Over(r)' /\ mixed'[r] = {} =>
          /\ \A c \in Owed(r)' \cup Bodies(rcv, r)' : Bare(c)
          /\ \A c \in Bodies(Pending(r), r)' : Bare(c)
    <3>. SUFFICES ASSUME Over(r)', mixed'[r] = {}
                  PROVE  /\ \A c \in Owed(r)' \cup Bodies(rcv, r)' : Bare(c)
                         /\ \A c \in Bodies(Pending(r), r)' : Bare(c)
      BY Zenon
    <3>1. \A c \in Owed(r) \cup Bodies(rcv, r) : Orderly(d.body, c)
      BY <1>2, <1>6, <2>0, <2>3, <2>6, Zenon DEF Stream
    <3>. QED
      BY <2>3, <2>4, <2>5, <2>6, <3>1, Zenon DEF Orderly
  <2>8. pc'[r] \notin Unsent
    BY <1>3, <1>6 DEF Unsent
  <2>9. /\ \A i, j \in DOMAIN todo'[r] : i < j => Orderly(todo'[r][i], todo'[r][j])
        /\ \A b \in Bodies(rcv, r)', c \in Owed(r)' : Orderly(b, c)
    BY <1>1, <2>0, <2>4, Zenon DEF Stream
  <2>10. \A b \in Bodies(Pending(r), r)', c \in Owed(r)' \cup Bodies(rcv, r)' : Orderly(b, c)
    BY <1>2, <1>6, <2>0, <2>3, <2>4, Zenon DEF Stream
  <2>. QED
    BY <2>3, <2>4, <2>7, <2>8, <2>9, <2>10, Zenon DEF Stream, Orderly, Ends, Bare
<1>. QED
  BY <1>5, <1>6

\* The rest of a datagram can end the response only if the whole could.
LEMMA RestOver ==
    ASSUME NEW b \in Seq(Kinds), b # <<>>
    PROVE  /\ Head(b) \in {b[i] : i \in DOMAIN b}
           /\ \A i \in DOMAIN Tail(b) : Tail(b)[i] \in {b[j] : j \in DOMAIN b}
<1>1. /\ DOMAIN b = 1..Len(b) /\ Len(b) \in Nat /\ Len(b) > 0
      /\ DOMAIN Tail(b) = 1..(Len(b) - 1)
      /\ \A i \in 1..(Len(b) - 1) : Tail(b)[i] = b[i + 1] /\ i + 1 \in 1..Len(b)
      /\ Head(b) = b[1] /\ 1 \in DOMAIN b
  OBVIOUS
<1>. QED
  BY <1>1

\* Parsing a datagram keeps what follows it.
LEMMA ParseStreams ==
    ASSUME NetInv, Streams, NEW q \in Req, Skip(q) \/ Yield(q)
    PROVE  Streams'
<1>. SUFFICES ASSUME NEW r \in Req PROVE Stream(r)'
  BY DEF Streams
<1>. DEFINE b == batch[q].body
<1>1. /\ pc[q] \in {"parse", "yielded"} /\ b # <<>> /\ NextMessage(q)
      /\ UNCHANGED <<queues, rcv, todo, msg_seq, mixed>>
      /\ \/ UNCHANGED <<pc, last>>
         \/ last' = [last EXCEPT ![q] = Head(b)] /\ Goto(q, "yielded")
  BY Zenon DEF Skip, Yield, Parses, history
<1>2. /\ batch \in [Req -> Datagrams] /\ batch[q] \in Datagrams /\ last \in [Req -> Kinds \cup {None}]
      /\ pc \in [Req -> Labels]
  BY DEF NetInv, TypeOK
<1>3. b \in Seq(Kinds)
  BY <1>2, Zenon DEF Datagrams
<1>4. /\ batch'[q].body = Tail(b) /\ (r # q => batch'[r] = batch[r])
  <2>1. batch' = [batch EXCEPT ![q] = [batch[q] EXCEPT !.body = Tail(b)]]
    BY <1>1, Zenon DEF NextMessage
  <2>2. batch'[q] = [batch[q] EXCEPT !.body = Tail(b)] /\ (r # q => batch'[r] = batch[r])
    BY <1>2, <2>1, Zenon
  <2>. QED
    BY <1>2, <2>2, Zenon DEF Datagrams
<1>5. /\ pc'[q] \in {"parse", "yielded"} /\ (r # q => pc'[r] = pc[r] /\ last'[r] = last[r])
      /\ (pc'[q] = pc[q] /\ last'[q] = last[q]) \/ last'[q] = Head(b)
  BY <1>1, <1>2 DEF Goto
<1>6. Reads(r)' => Reads(r) /\ Pending(r)' = Pending(r)
  BY <1>1, <1>5, Zenon DEF Reads, Live, Lost, Finished, Pending
<1>7. CASE r # q
  BY <1>1, <1>4, <1>5, <1>6, <1>7, StreamStays, Zenon DEF Streams
<1>8. CASE r = q
  <2>1. Over(q)' => Over(q)
    <3>. SUFFICES ASSUME Over(q)' PROVE Over(q)
      OBVIOUS
    <3>0. ASSUME NEW j \in DOMAIN b, b[j] \in {"msg", "ack", "done"} PROVE Over(q)
      BY <1>1, <3>0 DEF Over
    <3>1. CASE \E i \in DOMAIN Tail(b) : Tail(b)[i] \in {"msg", "ack", "done"}
      <4>1. \A i \in DOMAIN Tail(b) : \E j \in DOMAIN b : Tail(b)[i] = b[j]
        <5>1. b # <<>>
          BY <1>1
        <5>. HIDE DEF b
        <5>. QED
          BY <1>3, <5>1, RestOver
      <4>. HIDE DEF b
      <4>. QED
        BY <3>0, <3>1, <4>1
    <3>2. CASE pc[q] = "yielded" /\ last[q] \in {"msg", "ack"}
      BY <3>2 DEF Over
    <3>3. CASE last'[q] = Head(b) /\ last'[q] \in {"msg", "ack"}
      <4>1. \E j \in DOMAIN b : Head(b) = b[j]
        <5>1. b # <<>>
          BY <1>1
        <5>. HIDE DEF b
        <5>. QED
          BY <1>3, <5>1, RestOver
      <4>. HIDE DEF b
      <4>. QED
        BY <3>0, <3>3, <4>1
    <3>4. \/ \E i \in DOMAIN Tail(b) : Tail(b)[i] \in {"msg", "ack", "done"}
          \/ pc'[q] = "yielded" /\ last'[q] \in {"msg", "ack"}
      <4>1. pc'[q] # "done" /\ batch'[q].body = Tail(b)
        BY <1>4, <1>5
      <4>. HIDE DEF b
      <4>. QED
        BY <4>1 DEF Over
    <3>5. (pc'[q] = pc[q] /\ last'[q] = last[q]) \/ last'[q] = Head(b)
      BY <1>5
    <3>. QED
      BY <3>1, <3>2, <3>3, <3>4, <3>5, Zenon
  <2>. HIDE DEF b
  <2>2. Owed(r)' = Owed(r) /\ Bodies(rcv, r)' = Bodies(rcv, r) /\ InOrder(rcv, r)'
    BY <1>1, Zenon DEF Owed, Bodies, Own, InOrder, Stream, Streams
  <2>3. Reads(r)' => /\ Reads(r) /\ Bodies(Pending(r), r)' = Bodies(Pending(r), r)
                     /\ InOrder(Pending(r), r)'
    BY <1>6, Zenon DEF Bodies, Own, InOrder, Stream, Streams
  <2>4. pc'[r] \notin Unsent
    BY <1>5, <1>8, Zenon DEF Unsent
  <2>5. mixed'[r] = mixed[r] /\ todo'[r] = todo[r] /\ (Over(r)' => Over(r)) /\ Stream(r)
    BY <1>1, <1>8, <2>1, Zenon DEF Streams
  <2>6. \A i, j \in DOMAIN todo'[r] : i < j => Orderly(todo'[r][i], todo'[r][j])
    BY <2>5, Zenon DEF Stream
  <2>7. \A x \in Bodies(rcv, r)', c \in Owed(r)' : Orderly(x, c)
    BY <2>2, <2>5, Zenon DEF Stream
  <2>8. Reads(r)' => \A x \in Bodies(Pending(r), r)', c \in Owed(r)' \cup Bodies(rcv, r)' : Orderly(x, c)
    BY <2>2, <2>3, <2>5, Zenon DEF Stream
  <2>9. Over(r)' /\ mixed'[r] = {} =>
           /\ \A c \in Owed(r)' \cup Bodies(rcv, r)' : Bare(c)
           /\ Reads(r)' => \A c \in Bodies(Pending(r), r)' : Bare(c)
    BY <2>2, <2>3, <2>5, Zenon DEF Stream
  <2>. QED
    BY <2>2, <2>3, <2>4, <2>6, <2>7, <2>8, <2>9, Zenon DEF Stream
<1>. QED
  BY <1>7, <1>8

\* get() ends on its own: nothing of the dump is still to come.
LEMMA DoneStreams ==
    ASSUME NetInv, Streams, NEW q \in Req, ParseDone(q) \/ Complete(q)
    PROVE  Streams'
<1>1. /\ q \in Live \ Lost /\ Cleanup(q) /\ Goto(q, "done") /\ UNCHANGED <<rcv, todo, mixed>>
      /\ Stream(q)
  BY Zenon DEF ParseDone, Complete, Parses, EndOfDatagram, Live, Lost, Finished, Streams
<1>2. pc'[q] = "done" /\ \A r \in Req \ {q} : pc'[r] = pc[r]
  BY <1>1 DEF Goto, NetInv, TypeOK
<1>3. Over(q)
  <2>1. CASE Complete(q)
    BY <2>1, Zenon DEF Complete, EndOfDatagram, Over
  <2>2. CASE ParseDone(q)
    <3>1. pc[q] \in {"parse", "yielded"} /\ batch[q].body # <<>> /\ Head(batch[q].body) = "done"
      BY <2>2 DEF ParseDone, Parses
    <3>2. batch[q].body \in Seq(Kinds)
      <4>1. batch[q] \in Datagrams
        BY DEF NetInv, TypeOK
      <4>. QED
        BY <4>1, Zenon DEF Datagrams
    <3>3. Head(batch[q].body) \in {batch[q].body[i] : i \in DOMAIN batch[q].body}
      BY <3>1, <3>2, RestOver
    <3>. QED
      BY <3>1, <3>3 DEF Over
  <2>. QED
    BY <2>1, <2>2
<1>4. mixed'[q] = {} => \A c \in Owed(q) \cup Bodies(rcv, q) : Bare(c)
  BY <1>1, <1>3, Zenon DEF Stream
<1>. QED
  BY <1>1, <1>2, <1>4, EndStreams, Zenon

\* A queue that holds no message for the request.
LEMMA TakeNothingStreams ==
    ASSUME NetInv, Streams, NEW q \in Req, TakeNothing(q)
    PROVE  Streams'
<1>. DEFINE d == Head(Pending(q))
<1>1. /\ HasData(q) /\ Cleanup(q) /\ Goto(q, "done") /\ Strangers(q, d) /\ NothingLeft(d)
      /\ UNCHANGED <<rcv, todo>> /\ Stream(q)
  BY DEF TakeNothing, Streams
<1>2. q \in Live \ Lost /\ Reads(q) /\ Pending(q) \in Seq(Datagrams) /\ Pending(q) # <<>>
  BY <1>1, HeadOfQueue DEF Reads
<1>3. /\ pc'[q] = "done" /\ mixed'[q] = mixed[q] \cup ({d.owner} \ {q})
      /\ \A r \in Req \ {q} : pc'[r] = pc[r] /\ mixed'[r] = mixed[r]
  BY <1>1 DEF Goto, Strangers, NetInv, TypeOK
<1>4. Ends(d.body)
  BY <1>1 DEF NothingLeft, Ends
<1>5. mixed'[q] = {} => d.owner = q
  BY <1>3
<1>6. d.owner = q => d.body \in Bodies(Pending(q), q)
  BY <1>2, OwnTail
<1>. HIDE DEF d
<1>7. mixed'[q] = {} => \A c \in Owed(q) \cup Bodies(rcv, q) : Bare(c)
  BY <1>1, <1>2, <1>4, <1>5, <1>6, Zenon DEF Stream, Orderly
<1>. QED
  BY <1>1, <1>2, <1>3, <1>7, EndStreams, Zenon

\* The other ways to end.
LEMMA OtherEndStreams ==
    ASSUME NetInv, Streams, NEW q \in Req,
           \/ SendFails(q) \/ BatchNoAck(q) \/ ParseError(q, TRUE) \/ ParseError(q, FALSE)
           \/ Terminate(q) \/ Abandon(q)
    PROVE  Streams'
<1>1. q \in Live \ Lost /\ Cleanup(q) /\ UNCHANGED <<rcv, todo, mixed>>
  BY Zenon DEF SendFails, BatchNoAck, ParseError, Terminate, Abandon, Parses, EndOfDatagram, Live,
         Lost, Finished
<1>2. \/ Goto(q, "failed") \/ Goto(q, "stopped") \/ (Goto(q, "queued") /\ pc[q] = "prepared")
      \/ EndBatch(q, "failed", TRUE) \/ EndBatch(q, "failed", FALSE)
      \/ EndBatch(q, "stopped", TRUE)
  BY Zenon DEF SendFails, BatchNoAck, ParseError, Terminate, Abandon
<1>3. /\ pc'[q] \in {"failed", "stopped", "queued"} /\ (pc'[q] = "queued" => pc[q] = "prepared")
      /\ \A r \in Req \ {q} : pc'[r] = pc[r] \/ (pc[r] = "sent" /\ pc'[r] = "leaked")
  BY <1>2 DEF Goto, EndBatch, NetInv, TypeOK
<1>. QED
  BY <1>1, <1>3, EndStreams, Zenon

\* Steps that move no datagram.
LEMMA QuietStreams ==
    ASSUME NetInv, Streams, NEW q \in Req,
           SendBusy(q) \/ SendCancelled(q) \/ StartResponse(q) \/ More(q)
    PROVE  Streams'
<1>1. /\ UNCHANGED <<queues, rcv, todo, msg_seq, batch, last, mixed>>
      /\ q \in Live \ Lost
  BY Zenon DEF SendBusy, SendCancelled, StartResponse, More, EndOfDatagram, history, Live, Lost,
         Finished
<1>2. \/ Goto(q, "busy") /\ pc[q] \in Unsent
      \/ Goto(q, "leaked") \/ Goto(q, "wait")
  BY Zenon DEF SendBusy, SendCancelled, StartResponse, More, Unsent
<1>3. {"leaked", "wait"} \cap (Unsent \cup Finished \cup {"parse", "yielded"}) = {}
  BY DEF Unsent, Finished
<1>. QED
  BY <1>1, <1>2, <1>3, LocalStreams

\* Streams is inductive relative to NetInv.
LEMMA StreamsNext ==
    ASSUME AnswersAreWhole, NetInv, Streams, [Next]_vars
    PROVE  Streams'
<1>1. ASSUME NEW r \in Req, Sending(r)
      PROVE  Streams'
  BY <1>1, SendProxiedStreams, SendStreams, QuietStreams, OtherEndStreams, Zenon DEF Sending
<1>2. ASSUME NEW r \in Req, Reading(r)
      PROVE  Streams'
  BY <1>2, TakeStreams, TakeNothingStreams, ParseStreams, DoneStreams, OtherEndStreams,
     QuietStreams, Zenon DEF Reading
<1>3. CASE Step
  <2>1. ASSUME NEW r \in Req,
               \/ Create(r) \/ CreateFails(r) \/ PrepareFails(r) \/ SendCancelled(r)
               \/ BatchNoAck(r) \/ StartResponse(r) \/ Terminate(r) \/ Abandon(r)
               \/ KernelAnswers(r) \/ KernelOverruns(r)
        PROVE  Streams'
    BY <2>1, CreateStreams, CreateFailsStreams, QuietStreams, OtherEndStreams, KernelStreams,
       Zenon
  <2>2. BatchSend \/ BatchSendFails => Streams'
    BY BatchStreams
  <2>3. Receive => Streams'
    BY ReceiveStreams
  <2>4. (\E tag \in Tags : KernelNotifies(tag)) \/ ErrorReceived \/ RootGet \/ RootTake \/ Close
           => Streams'
    BY OutsideStreams
  <2>. QED
    BY <1>1, <1>2, <1>3, <2>1, <2>2, <2>3, <2>4 DEF Step
<1>4. CASE UNCHANGED vars
  BY <1>4, OutsideStreams
<1>. QED
  BY <1>1, <1>2, <1>3, <1>4 DEF Next

\* For all answers after whose end no part follows: a response that get() ends
\* by itself is complete, whichever requests share the socket, however the
\* datagrams, the proxies, the batches and cleanup() interleave, and although
\* whether it is complete is decided from one datagram.
THEOREM NotTruncatedHolds == AnswersAreWhole => (Spec => []NotTruncated)
<1>. SUFFICES ASSUME AnswersAreWhole PROVE Spec => []NotTruncated
  OBVIOUS
<1>1. Init => Streams
  <2>. SUFFICES ASSUME Init, NEW r \in Req PROVE Stream(r)
    BY DEF Streams
  <2>1. DOMAIN rcv = {} /\ DOMAIN todo[r] = {} /\ pc[r] = "new"
    <3>1. rcv = <<>> /\ todo[r] = <<>> /\ pc[r] = "new"
      BY DEF Init
    <3>. QED
      BY <3>1
  <2>2. Owed(r) = {} /\ ~Over(r)
    BY <2>1 DEF Owed, Over
  <2>3. ~Reads(r)
    BY <2>1 DEF Reads, Live
  <2>4. Bodies(rcv, r) = {} /\ InOrder(rcv, r)
    <3>1. Own(rcv, r) = {}
      BY <2>1 DEF Own
    <3>. QED
      BY <3>1 DEF Bodies, InOrder
  <2>. QED
    BY <2>1, <2>2, <2>3, <2>4, Zenon DEF Stream
<1>2. Streams => NotTruncated
  <2>. SUFFICES ASSUME Streams, NEW r \in Req, pc[r] = "done", mixed[r] = {},
                       NEW body \in Unread(r)
                PROVE  Bare(body)
    BY DEF NotTruncated, Bare
  <2>1. body \in Owed(r) \cup Bodies(rcv, r)
    BY Zenon DEF Unread, Owed, Bodies, Own
  <2>. QED
    BY <2>1, Zenon DEF Streams, Stream, Over
<1>3. NetInv /\ Streams /\ [Next]_vars => Streams'
  BY StreamsNext
<1>. QED
  BY <1>1, <1>2, <1>3, RequestInvariant, PTL DEF Spec
=============================================================================
