---------------------------- MODULE WorkerProofs ----------------------------
(***************************************************************************)
(* Proofs about module Worker, for every set of requests, limit, number of *)
(* retries and batch size.                                                 *)
(***************************************************************************)
EXTENDS WorkerProperties, FiniteSetTheorems, TLAPS

-----------------------------------------------------------------------------
(* Sequences                                                               *)

Elements(s) == {s[i] : i \in 1..Len(s)}

Distinct(s) == \A i, j \in 1..Len(s) : s[i] = s[j] => i = j

\* Appending a new element to a sequence without repetitions (out_queue when a
\* request is parked) adds that element and repeats nothing.
LEMMA AppendElements ==
  ASSUME NEW S, NEW s \in Seq(S), NEW e \in S, Distinct(s), e \notin Elements(s)
  PROVE  /\ Elements(Append(s, e)) = Elements(s) \cup {e}
         /\ Distinct(Append(s, e))
<1> DEFINE t == Append(s, e)
<1>1. /\ Len(t) = Len(s) + 1
      /\ Len(s) \in Nat
      /\ t[Len(s) + 1] = e
      /\ \A i \in 1..Len(s) : t[i] = s[i]
  OBVIOUS
<1>2. Elements(t) = Elements(s) \cup {e}
  BY <1>1 DEF Elements
<1>3. Distinct(t)
  BY <1>1 DEF Distinct, Elements
<1> QED
  BY <1>2, <1>3

\* Popping the front of such a sequence (out_queue in a pass of timer_out_queue)
\* takes exactly that element away.
LEMMA TailElements ==
  ASSUME NEW S, NEW s \in Seq(S), s # <<>>, Distinct(s)
  PROVE  /\ Head(s) \in Elements(s)
         /\ Elements(Tail(s)) = Elements(s) \ {Head(s)}
         /\ Distinct(Tail(s))
<1> DEFINE t == Tail(s)
<1>1. /\ Len(s) \in Nat \ {0}
      /\ Len(t) = Len(s) - 1
      /\ Head(s) = s[1]
      /\ \A i \in 1..Len(t) : t[i] = s[i + 1]
  OBVIOUS
<1>2. Head(s) \in Elements(s)
  BY <1>1 DEF Elements
<1>3. Distinct(t)
  <2> SUFFICES ASSUME NEW i \in 1..Len(t), NEW j \in 1..Len(t), t[i] = t[j]
               PROVE  i = j
    BY DEF Distinct
  <2>1. s[i + 1] = s[j + 1] /\ i + 1 \in 1..Len(s) /\ j + 1 \in 1..Len(s)
    BY <1>1
  <2> QED
    BY <2>1 DEF Distinct
<1>4. ASSUME NEW x \in Elements(t) PROVE x \in Elements(s) \ {Head(s)}
  <2>1. PICK i \in 1..Len(t) : x = t[i]
    BY <1>4 DEF Elements
  <2>2. x = s[i + 1] /\ i + 1 \in 1..Len(s) /\ 1 \in 1..Len(s) /\ i + 1 # 1
    BY <1>1, <2>1
  <2> QED
    BY <1>1, <2>2 DEF Elements, Distinct
<1>5. ASSUME NEW x \in Elements(s) \ {Head(s)} PROVE x \in Elements(t)
  <2>1. PICK i \in 1..Len(s) : x = s[i]
    BY <1>5 DEF Elements
  <2>2. i # 1
    BY <1>1, <2>1
  <2>3. i - 1 \in 1..Len(t) /\ t[i - 1] = x
    BY <1>1, <2>1, <2>2
  <2> QED
    BY <2>3 DEF Elements
<1> QED
  BY <1>2, <1>3, <1>4, <1>5

-----------------------------------------------------------------------------
(* The inductive invariant                                                 *)

\* QueueCountsInFlight is not inductive without OnePlace: a request that is sent
\* while http_client already holds it would be counted twice; and queue - 1 is a
\* natural number only because queue counts the requests in flight.
IInv == /\ TypeOK
        /\ OnePlace
        /\ QueueCountsInFlight
        /\ SendQueueBound

\* A set of requests is finite, so that it can be counted.
LEMMA Countable ==
  ASSUME NEW S, S \subseteq Requests
  PROVE  IsFiniteSet(S) /\ Cardinality(S) \in Nat
BY WorkerAssumption, FS_Subset, FS_CardinalityType

\* What Intake makes of a body is one of the error codes or Ok.
LEMMA JudgeType == \A body : Judge(body) \in Codes \cup {"Ok"}
BY DEF Judge, RequestCode, TransactionCode, VerifyCode, Codes

\* The initial state of a worker satisfies the invariant.
LEMMA InitIInv == Init => IInv
<1> SUFFICES ASSUME Init PROVE IInv
  OBVIOUS
<1>1. TypeOK
  <2>1. answer \in [Requests -> Answers] /\ generation \in [Requests -> 0..GenerationCap]
    BY WorkerAssumption DEF Init, Answers
  <2>2. counters \in [Charged -> Nat] /\ merged \in [Charged -> Nat]
    BY DEF Init, Zero
  <2>3. drain \in [active : BOOLEAN, i : Nat, size : Nat] /\ out_queue \in Seq(Requests)
    BY DEF Init, Idle
  <2> QED
    BY <2>1, <2>2, <2>3 DEF Init, TypeOK
<1>2. Parked = {} /\ Accepted = {}
  BY DEF Init, Parked, Accepted
<1>3. OnePlace
  BY <1>2 DEF Init, OnePlace
<1>4. QueueCountsInFlight
  BY FS_EmptySet DEF Init, QueueCountsInFlight
<1>5. SendQueueBound
  BY WorkerAssumption DEF Init, SendQueueBound, Pending
<1> QED
  BY <1>1, <1>3, <1>4, <1>5 DEF IInv

\* The three ways of http_client with a request keep the types of its state.
LEMMA ClientTypes ==
  ASSUME TypeOK, NEW r \in Requests, FirstSend(r) \/ SendAgain(r) \/ SendFailed(r)
  PROVE  /\ inflight' \subseteq Requests
         /\ generation' \in [Requests -> 0..GenerationCap]
         /\ delivered' \subseteq Requests
         /\ lost' \subseteq Requests
<1>1. CASE FirstSend(r)
  BY <1>1, WorkerAssumption DEF FirstSend, TypeOK
<1>2. CASE SendAgain(r)
  BY <1>2, WorkerAssumption DEF SendAgain, TypeOK
<1>3. CASE SendFailed(r)
  BY <1>3 DEF SendFailed, TypeOK
<1> QED
  BY <1>1, <1>2, <1>3

\* Replying keeps the types of the answers and of the counters.
LEMMA ReplyTypes ==
  ASSUME TypeOK, NEW r \in Requests, NEW a \in Answers, Reply(r, a)
  PROVE  answer' \in [Requests -> Answers] /\ counters' \in [Charged -> Nat]
BY DEF Reply, TypeOK

\* A request in flight is counted in queue, so queue can be taken down by one.
LEMMA QueuePositive ==
  ASSUME IInv, NEW r \in inflight
  PROVE  queue - 1 \in Nat
<1>1. IsFiniteSet(inflight) /\ Cardinality(inflight) # 0
  BY Countable, FS_EmptySet DEF IInv, TypeOK
<1> QED
  BY <1>1 DEF IInv, TypeOK, QueueCountsInFlight

-----------------------------------------------------------------------------
(* Types                                                                   *)

\* Every step of the worker keeps the types; that queue stays a natural number
\* is where the rest of the invariant is needed.
LEMMA StepTypeOK == IInv /\ [Next]_vars => TypeOK'
<1> SUFFICES ASSUME IInv, [Next]_vars PROVE TypeOK'
  OBVIOUS
<1> TypeOK
  BY DEF IInv
<1>1. ASSUME NEW r \in Requests, TooManyRequests(r) PROVE TypeOK'
  <2>1. Reply(r, "TooManyRequests") /\ "TooManyRequests" \in Answers
    BY <1>1 DEF TooManyRequests, Answers
  <2> QED
    BY <1>1, <2>1, ReplyTypes DEF TooManyRequests, TypeOK, clientVars, loopVars
<1>2. ASSUME NEW r \in Requests, NEW body \in Bodies, RejectRequest(r, body) PROVE TypeOK'
  <2>1. Reply(r, Judge(body)) /\ Judge(body) \in Answers
    BY <1>2, JudgeType DEF RejectRequest, Answers
  <2> QED
    BY <1>2, <2>1, ReplyTypes DEF RejectRequest, TypeOK, clientVars, loopVars
<1>3. ASSUME NEW r \in Requests, NEW body \in Bodies, AcceptTest(r, body) PROVE TypeOK'
  <2>1. Reply(r, "Test") /\ "Test" \in Answers
    BY <1>3 DEF AcceptTest, Answers
  <2> QED
    BY <1>3, <2>1, ReplyTypes DEF AcceptTest, TypeOK, clientVars, loopVars
<1>4. ASSUME NEW r \in Requests, NEW body \in Bodies, AcceptTransaction(r, body)
      PROVE  TypeOK'
  <2>1. Reply(r, "Ok") /\ "Ok" \in Answers
    BY <1>4 DEF AcceptTransaction, Answers
  <2>2. queue' \in Nat
    BY <1>4 DEF AcceptTransaction, TypeOK
  <2>3. FirstSend(r) \/ SendFailed(r)
    BY <1>4 DEF AcceptTransaction
  <2> QED
    BY <1>4, <2>1, <2>2, <2>3, ReplyTypes, ClientTypes DEF AcceptTransaction, TypeOK, loopVars
<1>5. ASSUME NEW r \in Requests, Acknowledged(r) PROVE TypeOK'
  BY <1>5, QueuePositive DEF Acknowledged, TypeOK, loopVars
<1>6. ASSUME NEW r \in Requests, Resend(r) PROVE TypeOK'
  BY <1>6, ClientTypes DEF Resend, TypeOK, loopVars
<1>7. ASSUME NEW r \in Requests, Abandon(r) PROVE TypeOK'
  BY <1>7, ClientTypes, QueuePositive DEF Abandon, TypeOK, loopVars
<1>8. ASSUME NEW r \in Requests, Park(r) PROVE TypeOK'
  <2>1. out_queue' \in Seq(Requests)
    BY <1>8 DEF Park, TypeOK
  <2> QED
    BY <1>8, <2>1, QueuePositive DEF Park, TypeOK, loopVars
<1>9. CASE UpdateCounters
  <2>1. Len(out_queue) \in Nat
    BY DEF TypeOK
  <2>2. counters' \in [Charged -> Nat] /\ merged' \in [Charged -> Nat]
    <3>1. Zero \in [Charged -> Nat]
      BY DEF Zero
    <3>2. [c \in Charged |-> merged[c] + counters[c]] \in [Charged -> Nat]
      BY DEF TypeOK
    <3> QED
      BY <1>9, <3>1, <3>2, Zenon DEF UpdateCounters, TypeOK
  <2> QED
    BY <1>9, <2>1, <2>2 DEF UpdateCounters, TypeOK, clientVars, loopVars
<1>10. CASE DrainStart
  <2>1. drain' \in [active : BOOLEAN, i : Nat, size : Nat]
    BY <1>10 DEF DrainStart, TypeOK
  <2> QED
    BY <1>10, <2>1 DEF DrainStart, TypeOK, clientVars, loopVars
<1>11. CASE DrainStep
  <2>1. out_queue # <<>>
    BY <1>11 DEF DrainStep, DrainMore, TypeOK
  <2>2. Head(out_queue) \in Requests /\ out_queue' \in Seq(Requests)
    BY <1>11, <2>1 DEF DrainStep, TypeOK
  <2>3. drain' \in [active : BOOLEAN, i : Nat, size : Nat] /\ queue' \in Nat
    BY <1>11 DEF DrainStep, TypeOK
  <2>4. SendAgain(Head(out_queue)) \/ SendFailed(Head(out_queue))
    BY <1>11 DEF DrainStep
  <2> QED
    BY <1>11, <2>2, <2>3, <2>4, ClientTypes DEF DrainStep, TypeOK, loopVars
<1>12. CASE DrainEnd
  <2>1. drain' \in [active : BOOLEAN, i : Nat, size : Nat]
    BY <1>12 DEF DrainEnd, Idle
  <2> QED
    BY <1>12, <2>1 DEF DrainEnd, TypeOK, clientVars, loopVars
<1>13. CASE BreakLoop \/ LoopExit \/ StopSignal
  BY <1>13 DEF BreakLoop, LoopExit, StopSignal, TypeOK, clientVars
<1>14. CASE UNCHANGED vars
  BY <1>14 DEF vars, TypeOK, clientVars, loopVars
<1> QED
  BY <1>1, <1>2, <1>3, <1>4, <1>5, <1>6, <1>7, <1>8, <1>9, <1>10, <1>11, <1>12, <1>13, <1>14
     DEF Next, Request, ClientCallback, Terminated

-----------------------------------------------------------------------------
(* Places                                                                  *)

\* Where a transaction is, and which ones were accepted: all that OnePlace reads.
places == <<answer, inflight, delivered, lost, out_queue>>

\* OnePlace, said of the elements of out_queue.
LEMMA OnePlaceElements ==
  OnePlace <=>
    /\ Distinct(out_queue)
    /\ inflight \cap Elements(out_queue) = {}
    /\ delivered \cap (inflight \cup Elements(out_queue)) = {}
    /\ lost \cap (inflight \cup Elements(out_queue)) = {}
    /\ delivered \cap lost = {}
    /\ inflight \cup Elements(out_queue) \cup delivered \cup lost = Accepted
BY DEF OnePlace, Parked, Distinct, Elements

\* The effect of a reply on the set of accepted requests.
LEMMA ReplyAccepted ==
  ASSUME TypeOK, NEW r \in Requests, NEW a, Reply(r, a)
  PROVE  /\ r \notin Accepted
         /\ Accepted' = IF a = "Ok" THEN Accepted \cup {r} ELSE Accepted
BY DEF Reply, Accepted, TypeOK

\* A request is put where it was not, and taken from where it was.
LEMMA StepOnePlace == IInv /\ [Next]_vars => OnePlace'
<1> SUFFICES ASSUME IInv, [Next]_vars PROVE OnePlace'
  OBVIOUS
<1> TypeOK /\ OnePlace
  BY DEF IInv
<1> DEFINE E == Elements(out_queue)
<1>0. /\ Distinct(out_queue)
      /\ inflight \cap E = {}
      /\ delivered \cap (inflight \cup E) = {}
      /\ lost \cap (inflight \cup E) = {}
      /\ delivered \cap lost = {}
      /\ inflight \cup E \cup delivered \cup lost = Accepted
  BY OnePlaceElements
<1>1. ASSUME /\ Distinct(out_queue')
             /\ inflight' \cap E' = {}
             /\ delivered' \cap (inflight' \cup E') = {}
             /\ lost' \cap (inflight' \cup E') = {}
             /\ delivered' \cap lost' = {}
             /\ inflight' \cup E' \cup delivered' \cup lost' = Accepted'
      PROVE  OnePlace'
  BY <1>1 DEF OnePlace, Parked, Distinct, Elements
<1>2. CASE UNCHANGED places
  BY <1>2 DEF places, OnePlace, Parked, Accepted
<1>3. ASSUME NEW r \in Requests, NEW a, a # "Ok", Reply(r, a), UNCHANGED <<clientVars, out_queue>>
      PROVE  OnePlace'
  <2>1. Accepted' = Accepted
    BY <1>3, ReplyAccepted
  <2> QED
    BY <1>0, <1>1, <1>3, <2>1 DEF clientVars
<1>4. ASSUME NEW r \in Requests, NEW body \in Bodies, AcceptTransaction(r, body)
      PROVE  OnePlace'
  <2>1. /\ r \notin Accepted
        /\ Accepted' = Accepted \cup {r}
        /\ E' = E
        /\ out_queue' = out_queue
    BY <1>4, ReplyAccepted DEF AcceptTransaction
  <2>2. CASE FirstSend(r)
    BY <1>0, <1>1, <2>1, <2>2 DEF FirstSend
  <2>3. CASE SendFailed(r)
    BY <1>0, <1>1, <2>1, <2>3 DEF SendFailed
  <2> QED
    BY <1>4, <2>2, <2>3 DEF AcceptTransaction
<1>5. ASSUME NEW r \in Requests, Acknowledged(r) PROVE OnePlace'
  <2>1. E' = E /\ Accepted' = Accepted /\ out_queue' = out_queue
    BY <1>5 DEF Acknowledged, Accepted
  <2> QED
    BY <1>0, <1>1, <1>5, <2>1 DEF Acknowledged
<1>6. ASSUME NEW r \in Requests, Resend(r) PROVE OnePlace'
  <2>1. E' = E /\ Accepted' = Accepted /\ out_queue' = out_queue
    BY <1>6 DEF Resend, Accepted
  <2>2. inflight' = inflight
    BY <1>6 DEF Resend, SendAgain
  <2> QED
    BY <1>0, <1>1, <1>6, <2>1, <2>2 DEF Resend, SendAgain
<1>7. ASSUME NEW r \in Requests, Abandon(r) PROVE OnePlace'
  <2>1. E' = E /\ Accepted' = Accepted /\ out_queue' = out_queue
    BY <1>7 DEF Abandon, Accepted
  <2> QED
    BY <1>0, <1>1, <1>7, <2>1 DEF Abandon, SendFailed
<1>8. ASSUME NEW r \in Requests, Park(r) PROVE OnePlace'
  <2>1. out_queue \in Seq(Requests) /\ r \notin E
    BY <1>0, <1>8 DEF Park, TypeOK
  <2>2. E' = E \cup {r} /\ Distinct(out_queue')
    BY <1>0, <1>8, <2>1, AppendElements DEF Park
  <2>3. Accepted' = Accepted
    BY <1>8 DEF Park, Accepted
  <2> QED
    BY <1>0, <1>1, <1>8, <2>2, <2>3 DEF Park
<1>9. CASE DrainStep
  <2>1. out_queue \in Seq(Requests) /\ out_queue # <<>>
    BY <1>9 DEF DrainStep, DrainMore, TypeOK
  <2> DEFINE h == Head(out_queue)
  <2>2. h \in E /\ E' = E \ {h} /\ Distinct(out_queue')
    BY <1>0, <1>9, <2>1, TailElements DEF DrainStep
  <2>3. Accepted' = Accepted
    BY <1>9 DEF DrainStep, Accepted
  <2>4. CASE SendAgain(h)
    BY <1>0, <1>1, <2>2, <2>3, <2>4 DEF SendAgain
  <2>5. CASE SendFailed(h)
    BY <1>0, <1>1, <2>2, <2>3, <2>5 DEF SendFailed
  <2> QED
    BY <1>9, <2>4, <2>5 DEF DrainStep
<1>10. ASSUME NEW r \in Requests, TooManyRequests(r) PROVE OnePlace'
  <2>1. Reply(r, "TooManyRequests") /\ UNCHANGED <<clientVars, out_queue>>
    BY <1>10 DEF TooManyRequests
  <2> QED
    BY <1>3, <2>1
<1>11. ASSUME NEW r \in Requests, NEW body \in Bodies, RejectRequest(r, body) PROVE OnePlace'
  <2>1. /\ Judge(body) # "Ok"
        /\ Reply(r, Judge(body))
        /\ UNCHANGED <<clientVars, out_queue>>
    BY <1>11 DEF RejectRequest
  <2> QED
    BY <1>3, <2>1
<1>12. ASSUME NEW r \in Requests, NEW body \in Bodies, AcceptTest(r, body) PROVE OnePlace'
  <2>1. Reply(r, "Test") /\ UNCHANGED <<clientVars, out_queue>>
    BY <1>12 DEF AcceptTest
  <2> QED
    BY <1>3, <2>1
<1>13. CASE UpdateCounters \/ DrainStart \/ DrainEnd \/ BreakLoop \/ LoopExit \/ StopSignal
            \/ UNCHANGED vars
  <2>1. UNCHANGED places
    BY <1>13 DEF UpdateCounters, DrainStart, DrainEnd, BreakLoop, LoopExit, StopSignal, vars,
                 places, clientVars
  <2> QED
    BY <1>2, <2>1
<1> QED
  BY <1>4, <1>5, <1>6, <1>7, <1>8, <1>9, <1>10, <1>11, <1>12, <1>13
     DEF Next, Request, ClientCallback, Terminated

-----------------------------------------------------------------------------
(* The backlog                                                             *)

\* A request taken for the first time is not in flight yet; the head of out_queue
\* and a request that is tried again are where they are said to be.
LEMMA NotYetInFlight ==
  ASSUME IInv, NEW r \in Requests, r \notin Accepted \/ r \in Elements(out_queue)
  PROVE  r \notin inflight
BY OnePlaceElements DEF IInv

\* The head of out_queue is one of its requests.
LEMMA HeadWaits ==
  ASSUME IInv, out_queue # <<>>
  PROVE  Head(out_queue) \in Elements(out_queue) /\ Head(out_queue) \in Requests
<1>1. out_queue \in Seq(Requests) /\ Distinct(out_queue)
  BY OnePlaceElements DEF IInv, TypeOK
<1>2. Head(out_queue) \in Requests
  BY <1>1
<1> QED
  BY <1>1, <1>2, TailElements

\* http_client with one request more, and with one less.
LEMMA OneMore ==
  ASSUME IInv, NEW r \in Requests, r \notin inflight, inflight' = inflight \cup {r}
  PROVE  Cardinality(inflight') = Cardinality(inflight) + 1
BY Countable, FS_AddElement DEF IInv, TypeOK

\* The same, one request less.
LEMMA OneLess ==
  ASSUME IInv, NEW r \in inflight, inflight' = inflight \ {r}
  PROVE  Cardinality(inflight') = Cardinality(inflight) - 1
BY Countable, FS_RemoveElement DEF IInv, TypeOK

\* Each ++ and -- of queue goes with a request that enters or leaves http_client.
LEMMA StepQueueCountsInFlight == IInv /\ [Next]_vars => QueueCountsInFlight'
<1> SUFFICES ASSUME IInv, [Next]_vars PROVE QueueCountsInFlight'
  OBVIOUS
<1> TypeOK /\ QueueCountsInFlight
  BY DEF IInv
<1>1. CASE UNCHANGED <<queue, inflight>>
  BY <1>1 DEF QueueCountsInFlight
<1>2. ASSUME NEW r \in Requests, NEW body \in Bodies, AcceptTransaction(r, body)
      PROVE  QueueCountsInFlight'
  <2>1. r \notin inflight
    BY <1>2, ReplyAccepted, NotYetInFlight DEF AcceptTransaction
  <2>2. CASE FirstSend(r) /\ queue' = queue + 1
    <3>1. inflight' = inflight \cup {r}
      BY <2>2 DEF FirstSend
    <3> QED
      BY <2>1, <2>2, <3>1, OneMore DEF QueueCountsInFlight
  <2>3. CASE SendFailed(r) /\ UNCHANGED queue
    <3>1. UNCHANGED inflight
      BY <2>1, <2>3 DEF SendFailed
    <3> QED
      BY <1>1, <2>3, <3>1
  <2> QED
    BY <1>2, <2>2, <2>3 DEF AcceptTransaction
<1>3. ASSUME NEW r \in Requests, Resend(r) PROVE QueueCountsInFlight'
  <2>1. UNCHANGED <<queue, inflight>>
    BY <1>3 DEF Resend, SendAgain
  <2> QED
    BY <1>1, <2>1
<1>4. ASSUME NEW r \in Requests, Acknowledged(r) \/ Abandon(r) \/ Park(r)
      PROVE  QueueCountsInFlight'
  <2>1. r \in inflight /\ inflight' = inflight \ {r} /\ queue' = queue - 1
    BY <1>4 DEF Acknowledged, Abandon, Park, SendFailed
  <2> QED
    BY <2>1, OneLess DEF QueueCountsInFlight
<1>5. CASE DrainStep
  <2> DEFINE h == Head(out_queue)
  <2>1. out_queue # <<>>
    BY <1>5 DEF DrainStep, DrainMore, TypeOK
  <2>2. h \in Requests /\ h \notin inflight
    BY <2>1, HeadWaits, NotYetInFlight
  <2>3. CASE SendAgain(h) /\ queue' = queue + 1
    <3>1. inflight' = inflight \cup {h}
      BY <2>3 DEF SendAgain
    <3> QED
      BY <2>2, <2>3, <3>1, OneMore DEF QueueCountsInFlight
  <2>4. CASE SendFailed(h) /\ UNCHANGED queue
    <3>1. UNCHANGED inflight
      BY <2>2, <2>4 DEF SendFailed
    <3> QED
      BY <1>1, <2>4, <3>1
  <2> QED
    BY <1>5, <2>3, <2>4 DEF DrainStep
<1>6. ASSUME NEW r \in Requests, NEW body \in Bodies,
             RejectRequest(r, body) \/ AcceptTest(r, body)
      PROVE  QueueCountsInFlight'
  BY <1>1, <1>6 DEF RejectRequest, AcceptTest, clientVars
<1>7. ASSUME NEW r \in Requests, TooManyRequests(r) PROVE QueueCountsInFlight'
  BY <1>1, <1>7 DEF TooManyRequests, clientVars
<1>8. CASE UpdateCounters \/ DrainStart \/ DrainEnd \/ BreakLoop \/ LoopExit \/ StopSignal
           \/ UNCHANGED vars
  BY <1>1, <1>8 DEF UpdateCounters, DrainStart, DrainEnd, BreakLoop, LoopExit, StopSignal, vars,
                    clientVars
<1> QED
  BY <1>2, <1>3, <1>4, <1>5, <1>6, <1>7, <1>8 DEF Next, Request, ClientCallback, Terminated

\* What a step does to the backlog: an accepted request may add one to it, when
\* the limit allows; any other step leaves it
\* alone or takes one away.
LEMMA StepPending ==
  ASSUME IInv, [Next]_vars
  PROVE  \/ Pending' \in {Pending, Pending - 1}
         \/ /\ Pending' = Pending + 1
            /\ ~Overloaded
            /\ Accepted' # Accepted
<1> TypeOK
  BY DEF IInv
<1>0. queue \in Nat /\ Len(out_queue) \in Nat /\ Pending \in Nat
  BY DEF TypeOK, Pending
<1>1. ASSUME NEW r \in Requests, NEW body \in Bodies, AcceptTransaction(r, body)
      PROVE  \/ Pending' \in {Pending, Pending - 1}
             \/ Pending' = Pending + 1 /\ ~Overloaded /\ Accepted' # Accepted
  <2>1. ~Overloaded /\ out_queue' = out_queue /\ (queue' = queue + 1 \/ queue' = queue)
    BY <1>1 DEF AcceptTransaction
  <2>2. Accepted' # Accepted
    BY <1>1, ReplyAccepted DEF AcceptTransaction
  <2> QED
    BY <1>0, <2>1, <2>2 DEF Pending
<1>2. ASSUME NEW r \in Requests, Acknowledged(r) \/ Resend(r) \/ Abandon(r)
      PROVE  Pending' \in {Pending, Pending - 1}
  <2>1. out_queue' = out_queue /\ (queue' = queue - 1 \/ queue' = queue)
    BY <1>2 DEF Acknowledged, Resend, Abandon
  <2> QED
    BY <1>0, <2>1 DEF Pending
<1>3. ASSUME NEW r \in Requests, Park(r) PROVE Pending' \in {Pending, Pending - 1}
  <2>1. Len(out_queue') = Len(out_queue) + 1 /\ queue' = queue - 1
    BY <1>3 DEF Park, TypeOK
  <2> QED
    BY <1>0, <2>1 DEF Pending
<1>4. CASE DrainStep
  <2>1. out_queue # <<>>
    BY <1>4 DEF DrainStep, DrainMore, TypeOK
  <2>2. Len(out_queue') = Len(out_queue) - 1
    BY <1>4, <2>1 DEF DrainStep, TypeOK
  <2>3. queue' = queue + 1 \/ queue' = queue
    BY <1>4 DEF DrainStep
  <2>4. Pending' \in {Pending, Pending - 1}
    BY <1>0, <2>2, <2>3 DEF Pending
  <2> QED
    BY <2>4
<1>5. CASE UNCHANGED <<queue, out_queue>>
  <2>1. Pending' = Pending
    BY <1>5 DEF Pending
  <2> QED
    BY <1>0, <2>1
<1>6. ASSUME NEW r \in Requests, NEW body \in Bodies,
             RejectRequest(r, body) \/ AcceptTest(r, body)
      PROVE  UNCHANGED <<queue, out_queue>>
  BY <1>6 DEF RejectRequest, AcceptTest
<1>7. ASSUME NEW r \in Requests, TooManyRequests(r) PROVE UNCHANGED <<queue, out_queue>>
  BY <1>7 DEF TooManyRequests
<1>8. CASE UpdateCounters \/ DrainStart \/ DrainEnd \/ BreakLoop \/ LoopExit \/ StopSignal
           \/ UNCHANGED vars
  BY <1>5, <1>8 DEF UpdateCounters, DrainStart, DrainEnd, BreakLoop, LoopExit, StopSignal, vars
<1> QED
  BY <1>1, <1>2, <1>3, <1>4, <1>5, <1>6, <1>7, <1>8 DEF Next, Request, ClientCallback, Terminated

\* The bound on the backlog is kept: the one step that raises it found it within
\* the limit.
LEMMA StepSendQueueBound == IInv /\ [Next]_vars => SendQueueBound'
<1> SUFFICES ASSUME IInv, [Next]_vars, Limit # 0 PROVE Pending' <= Limit + 1
  BY DEF SendQueueBound
<1>1. Limit \in Nat /\ Pending \in Nat /\ Pending <= Limit + 1
  BY WorkerAssumption DEF IInv, SendQueueBound, Pending, TypeOK
<1>2. Pending' \in Nat
  BY StepTypeOK DEF Pending, TypeOK
<1>3. CASE Pending' \in {Pending, Pending - 1}
  BY <1>1, <1>2, <1>3
<1>4. CASE Pending' = Pending + 1 /\ ~Overloaded
  BY <1>1, <1>4 DEF Overloaded, Pending, IInv, TypeOK
<1> QED
  BY <1>3, <1>4, StepPending

-----------------------------------------------------------------------------
(* Theorems                                                                *)

\* IInv is an invariant of the worker.
THEOREM Invariance == Spec => []IInv
<1>1. IInv /\ [Next]_vars => IInv'
  BY StepTypeOK, StepOnePlace, StepQueueCountsInFlight, StepSendQueueBound DEF IInv
<1> QED
  BY InitIInv, <1>1, PTL DEF Spec

\* Every variable keeps its type; in particular queue never becomes negative.
THEOREM TypeCorrect == Spec => []TypeOK
<1>1. IInv => TypeOK
  BY DEF IInv
<1> QED
  BY Invariance, <1>1, PTL

\* counters.queue is always the number of requests http_client holds.
THEOREM QueueIsExact == Spec => []QueueCountsInFlight
<1>1. IInv => QueueCountsInFlight
  BY DEF IInv
<1> QED
  BY Invariance, <1>1, PTL

\* A transaction answered ok is always in exactly one place.
THEOREM NothingVanishes == Spec => []OnePlace
<1>1. IInv => OnePlace
  BY DEF IInv
<1> QED
  BY Invariance, <1>1, PTL

\* Of every worker: the counter is exact and accepted transactions are in one place.
THEOREM TransactionsAreKept == Spec => []TransactionsKept
<1>1. QueueCountsInFlight /\ OnePlace => TransactionsKept
  BY DEF TransactionsKept
<1> QED
  BY QueueIsExact, NothingVanishes, <1>1, PTL

\* A worker with a limit never has more than one transaction above it pending.
THEOREM BacklogBounded == Spec => []SendQueueBound
<1>1. IInv => SendQueueBound
  BY DEF IInv
<1> QED
  BY Invariance, <1>1, PTL

\* Retrying, parking and draining never make the backlog grow.
THEOREM BacklogMonotone == Spec => BacklogGrowsOnlyByAccept
<1>1. IInv /\ [Next]_vars => [Pending' > Pending => Accepted' # Accepted]_vars
  <2> SUFFICES ASSUME IInv, [Next]_vars, Pending' > Pending PROVE Accepted' # Accepted
    OBVIOUS
  <2>1. Pending \in Nat /\ Pending' \in Nat
    BY StepTypeOK DEF IInv, Pending, TypeOK
  <2> QED
    BY <2>1, StepPending
<1> QED
  BY Invariance, <1>1, PTL DEF Spec, BacklogGrowsOnlyByAccept

-----------------------------------------------------------------------------
(* Counters                                                                *)

\* A reply is charged to the counters that stand for it, and to total in any case.
LEMMA ChargesByAnswer ==
  ASSUME NEW a \in Answers \ {"none"}
  PROVE  /\ "total" \in Charges(a)
         /\ \A c \in Charged : c \in Charges(a) <=> a \in CountedUnder(c)
<1>1. CASE a \in {"TooManyRequests", "Ok", "Test"}
  BY <1>1 DEF Charges, CountedUnder, Charged, Answers
<1>2. CASE a \in Codes
  <2>1. Charges(a) = {"total", Charge(a)}
    BY <1>2 DEF Charges, Codes
  <2>2. \A c \in Charged \ {"total"} : c = Charge(a) <=> a \in CountedUnder(c)
    BY <1>2 DEF Charge, CountedUnder, Charged, Codes
  <2>3. a \in CountedUnder("total")
    BY DEF CountedUnder
  <2> QED
    BY <2>1, <2>2, <2>3
<1> QED
  BY <1>1, <1>2 DEF Answers

\* No counter stands for a request that has not been answered.
LEMMA NoneIsUncounted ==
  ASSUME NEW c \in Charged
  PROVE  "none" \notin CountedUnder(c)
BY DEF CountedUnder, Charged

\* Of a request that is replied to, the number of answers of a kind grows by one
\* or stays as it is.
LEMMA ReplyAnswered ==
  ASSUME TypeOK, NEW r \in Requests, NEW a \in Answers, Reply(r, a), NEW as, "none" \notin as
  PROVE  Answered(as)' = IF a \in as THEN Answered(as) + 1 ELSE Answered(as)
<1> DEFINE A == {q \in Requests : answer[q] \in as}
<1>1. r \notin A /\ A' = IF a \in as THEN A \cup {r} ELSE A
  BY DEF Reply, TypeOK
<1>2. IsFiniteSet(A)
  BY Countable
<1>3. CASE a \in as
  <2>1. A' = A \cup {r}
    BY <1>1, <1>3
  <2>2. Cardinality(A \cup {r}) = Cardinality(A) + 1
    BY <1>1, <1>2, FS_AddElement
  <2> QED
    BY <1>3, <2>1, <2>2 DEF Answered
<1>4. CASE a \notin as
  BY <1>1, <1>4 DEF Answered
<1> QED
  BY <1>3, <1>4

\* Every step keeps the balance of the counters, and leaves nothing behind that
\* the next timer_update_counters would not see.
LEMMA StepCounters ==
  ASSUME TypeOK, TypeOK', CountersBalance, MergeGateSafe, [Next]_vars
  PROVE  CountersBalance' /\ MergeGateSafe'
<1>1. ASSUME NEW r \in Requests, NEW a \in Answers \ {"none"}, Reply(r, a), UNCHANGED merged
      PROVE  CountersBalance' /\ MergeGateSafe'
  <2>1. \A c \in Charged : counters'[c] = IF c \in Charges(a) THEN counters[c] + 1 ELSE counters[c]
    BY <1>1 DEF Reply
  <2>2. \A c \in Charged : counters[c] \in Nat /\ merged[c] \in Nat
    BY DEF TypeOK
  <2>3. \A c \in Charged : Counted(c)' = IF c \in Charges(a) THEN Counted(c) + 1 ELSE Counted(c)
    BY <1>1, <2>1, <2>2 DEF Counted
  <2>4. CountersBalance'
    <3>1. SUFFICES ASSUME NEW c \in Charged PROVE Counted(c)' = Answered(CountedUnder(c))'
      BY DEF CountersBalance, CountedUnder
    <3>2. Answered(CountedUnder(c))' = IF a \in CountedUnder(c) THEN Answered(CountedUnder(c)) + 1
                                       ELSE Answered(CountedUnder(c))
      BY <1>1, NoneIsUncounted, ReplyAnswered DEF CountedUnder
    <3> QED
      BY <2>3, <3>2, ChargesByAnswer DEF CountersBalance
  <2>5. MergeGateSafe'
    <3>1. "total" \in Charges(a) /\ "total" \in Charged
      BY ChargesByAnswer DEF Charged
    <3> QED
      BY <2>1, <2>2, <3>1 DEF MergeGateSafe
  <2> QED
    BY <2>4, <2>5
<1>2. CASE UNCHANGED <<answer, counters, merged>>
  BY <1>2 DEF CountersBalance, MergeGateSafe, Counted, Answered
<1>3. CASE UpdateCounters
  <2>1. CASE UNCHANGED <<counters, merged>>
    BY <1>2, <1>3, <2>1 DEF UpdateCounters
  <2>2. CASE merged' = [c \in Charged |-> merged[c] + counters[c]] /\ counters' = Zero
    <3>1. \A c \in Charged : counters[c] \in Nat /\ merged[c] \in Nat
      BY DEF TypeOK
    <3>2. \A c \in Charged : Counted(c)' = Counted(c)
      BY <2>2, <3>1 DEF Counted, Zero
    <3>3. \A as : Answered(as)' = Answered(as)
      BY <1>3 DEF UpdateCounters, Answered
    <3>4. CountersBalance'
      BY <3>2, <3>3 DEF CountersBalance, Charged
    <3> QED
      BY <2>2, <3>4 DEF MergeGateSafe
  <2> QED
    BY <1>3, <2>1, <2>2 DEF UpdateCounters
<1>4. ASSUME NEW r \in Requests, NEW body \in Bodies,
             \/ TooManyRequests(r) \/ RejectRequest(r, body)
             \/ AcceptTest(r, body) \/ AcceptTransaction(r, body)
      PROVE  CountersBalance' /\ MergeGateSafe'
  <2>1. PICK a \in Answers \ {"none"} : Reply(r, a)
    <3>1. CASE RejectRequest(r, body)
      <4>1. Judge(body) \in Codes /\ Reply(r, Judge(body))
        BY <3>1, JudgeType DEF RejectRequest
      <4> QED
        BY <4>1 DEF Answers, Codes
    <3>2. CASE TooManyRequests(r) \/ AcceptTest(r, body) \/ AcceptTransaction(r, body)
      BY <3>2 DEF TooManyRequests, AcceptTest, AcceptTransaction, Answers
    <3> QED
      BY <1>4, <3>1, <3>2
  <2>2. UNCHANGED merged
    BY <1>4 DEF TooManyRequests, RejectRequest, AcceptTest, AcceptTransaction
  <2> QED
    BY <1>1, <2>1, <2>2
<1>5. ASSUME NEW r \in Requests, TooManyRequests(r)
      PROVE  CountersBalance' /\ MergeGateSafe'
  BY <1>1, <1>5 DEF TooManyRequests, Answers
<1>6. ASSUME NEW r \in Requests, ClientCallback(r)
      PROVE  CountersBalance' /\ MergeGateSafe'
  BY <1>2, <1>6 DEF ClientCallback, Acknowledged, Resend, Abandon, Park
<1>7. CASE DrainStart \/ DrainStep \/ DrainEnd \/ BreakLoop \/ LoopExit \/ StopSignal
           \/ UNCHANGED vars
  BY <1>2, <1>7 DEF DrainStart, DrainStep, DrainEnd, BreakLoop, LoopExit, StopSignal, vars
<1> QED
  BY <1>3, <1>4, <1>5, <1>6, <1>7 DEF Next, Request, Terminated

\* Nothing has been counted before the first request.
LEMMA InitCounters == Init => CountersBalance /\ MergeGateSafe
<1> SUFFICES ASSUME Init PROVE CountersBalance /\ MergeGateSafe
  OBVIOUS
<1>1. \A c \in Charged : Counted(c) = 0
  BY DEF Init, Counted, Zero
<1>2. ASSUME NEW as, "none" \notin as PROVE Answered(as) = 0
  <2>1. {r \in Requests : answer[r] \in as} = {}
    BY <1>2 DEF Init
  <2> QED
    BY <2>1, FS_EmptySet DEF Answered
<1>3. CountersBalance
  BY <1>1, <1>2, NoneIsUncounted DEF CountersBalance
<1> QED
  BY <1>3 DEF Init, MergeGateSafe

\* Both facts about the counters hold in every state.
LEMMA CounterInvariance == Spec => [](CountersBalance /\ MergeGateSafe)
<1> DEFINE CInv == TypeOK /\ CountersBalance /\ MergeGateSafe
<1>1. Init => CInv
  BY InitCounters, InitIInv DEF IInv
<1>2. TypeOK /\ TypeOK' /\ CInv /\ [Next]_vars => CInv'
  BY StepCounters
<1> QED
  BY TypeCorrect, <1>1, <1>2, PTL DEF Spec

\* Every request is counted exactly once, in total and under the counter of its verdict,
\* whatever has been handed to GlobalCounters already.
THEOREM CountersAreRight == Spec => []CountersBalance
BY CounterInvariance, PTL

\* The test of total alone in timer_update_counters holds no other counter back.
THEOREM NothingHeldBack == Spec => []MergeGateSafe
BY CounterInvariance, PTL

\* Every request is counted once and under the counter of its verdict, and no count waits
\* behind the gate of the timer.
THEOREM CountersAreKept == Spec => []CountersKept
<1>1. CountersBalance /\ MergeGateSafe => CountersKept
  BY DEF CountersKept
<1> QED
  BY CounterInvariance, <1>1, PTL

-----------------------------------------------------------------------------
(* A pass over out_queue                                                   *)

\* In a pass, as many requests as turns are gone, and there were never more turns
\* than half of the queue allows.
DrainInv ==
  drain.active => /\ Len(out_queue) = drain.size - drain.i
                  /\ drain.i <= OutBatch
                  /\ 2 * drain.i <= drain.size + 1

\* A turn is taken only while fewer requests have been taken than are left.
LEMMA StepDrainInv == TypeOK /\ DrainInv /\ [Next]_vars => DrainInv'
<1> SUFFICES ASSUME TypeOK, DrainInv, [Next]_vars PROVE DrainInv'
  OBVIOUS
<1>1. CASE UNCHANGED <<drain, out_queue>>
  BY <1>1 DEF DrainInv
<1>2. CASE ~drain.active /\ UNCHANGED drain
  BY <1>2 DEF DrainInv
<1>3. CASE DrainStart
  BY <1>3, WorkerAssumption DEF DrainStart, DrainInv, TypeOK
<1>4. CASE DrainStep
  <2>1. drain.active /\ drain.i < OutBatch /\ drain.i < Len(out_queue) /\ drain.i \in Nat
    BY <1>4 DEF DrainStep, DrainMore, TypeOK
  <2>2. /\ drain'.i = drain.i + 1
        /\ drain'.size = drain.size
        /\ drain.size \in Nat
    BY <1>4 DEF DrainStep, TypeOK
  <2>3. Len(out_queue) \in Nat /\ Len(out_queue') = Len(out_queue) - 1
    <3>1. out_queue \in Seq(Requests) /\ out_queue # <<>>
      BY <2>1 DEF TypeOK
    <3> QED
      BY <1>4, <3>1 DEF DrainStep
  <2> QED
    BY <2>1, <2>2, <2>3, WorkerAssumption DEF DrainInv
<1>5. CASE DrainEnd
  BY <1>5 DEF DrainEnd, Idle, DrainInv
<1>6. CASE BreakLoop \/ LoopExit \/ StopSignal \/ UpdateCounters \/ UNCHANGED vars
  BY <1>1, <1>6 DEF BreakLoop, LoopExit, StopSignal, UpdateCounters, vars
<1>7. ASSUME NEW r \in Requests, Request(r) \/ ClientCallback(r) PROVE DrainInv'
  BY <1>2, <1>7 DEF Request, TooManyRequests, RejectRequest, AcceptTest, AcceptTransaction,
     ClientCallback, Acknowledged, Resend, Abandon, Park, Ready
<1> QED
  BY <1>3, <1>4, <1>5, <1>6, <1>7 DEF Next, Terminated

\* When a pass ends, it has taken half of the queue or a full batch.
LEMMA EndTakesHalf ==
  ASSUME TypeOK, DrainInv, DrainEnd
  PROVE  Len(out_queue) = drain.size - LesserOf(OutBatch, (drain.size + 1) \div 2)
<1> DEFINE k == (drain.size + 1) \div 2
<1>1. /\ drain.i \in Nat /\ drain.size \in Nat /\ OutBatch \in Nat
      /\ Len(out_queue) = drain.size - drain.i
      /\ drain.i <= OutBatch
      /\ 2 * drain.i <= drain.size + 1
  BY WorkerAssumption DEF TypeOK, DrainInv, DrainEnd
<1>2. drain.i >= OutBatch \/ drain.i >= Len(out_queue)
  <2>1. Len(out_queue) \in Nat
    BY DEF TypeOK
  <2> QED
    BY <1>1, <2>1 DEF DrainEnd, DrainMore
<1>3. k \in Nat /\ 2 * k <= drain.size + 1 /\ drain.size + 1 < 2 * k + 2
  BY <1>1
<1>4. drain.i = LesserOf(OutBatch, k)
  <2> HIDE DEF k
  <2>1. CASE drain.i = OutBatch
    BY <1>1, <1>3, <2>1 DEF LesserOf
  <2>2. CASE 2 * drain.i >= drain.size
    BY <1>1, <1>3, <2>2 DEF LesserOf
  <2> QED
    BY <1>1, <1>2, <2>1, <2>2
<1> QED
  BY <1>1, <1>4

\* One pass takes OutBatch requests or half of them, rounded up.
THEOREM PassTakesHalf == Spec => DrainTakesHalf
<1>1. Init => DrainInv
  BY DEF Init, Idle, DrainInv
<1>2. TypeOK /\ DrainInv /\ [Next]_vars
        => [drain.active /\ ~drain'.active =>
              Len(out_queue) = drain.size - LesserOf(OutBatch, (drain.size + 1) \div 2)]_vars
  <2> SUFFICES ASSUME TypeOK, DrainInv, Next, drain.active, ~drain'.active
               PROVE  Len(out_queue) = drain.size - LesserOf(OutBatch, (drain.size + 1) \div 2)
    OBVIOUS
  <2>1. CASE DrainEnd
    BY <2>1, EndTakesHalf
  <2>2. CASE DrainStep
    BY <2>2 DEF DrainStep, TypeOK
  <2>3. CASE \/ DrainStart \/ BreakLoop \/ LoopExit \/ StopSignal \/ UpdateCounters
             \/ Terminated
    BY <2>3 DEF DrainStart, BreakLoop, LoopExit, StopSignal, UpdateCounters, Terminated, vars,
                Ready
  <2>4. ASSUME NEW r \in Requests, Request(r) \/ ClientCallback(r) PROVE FALSE
    BY <2>4 DEF Request, TooManyRequests, RejectRequest, AcceptTest, AcceptTransaction,
       ClientCallback, Acknowledged, Resend, Abandon, Park, Ready
  <2> QED
    BY <2>1, <2>2, <2>3, <2>4 DEF Next
<1> QED
  BY TypeCorrect, StepDrainInv, <1>1, <1>2, PTL DEF Spec, DrainTakesHalf

\* What the callbacks do to the backlog, in every step of every worker.
THEOREM BacklogIsBalanced == Spec => BacklogMoves
BY BacklogMonotone, PassTakesHalf DEF BacklogMoves

-----------------------------------------------------------------------------
(* The worker implements Delivery                                          *)

Held == inflight \cup Elements(out_queue)

\* Where OnePlace puts a request says what Standing makes of it.
LEMMA StandingCases ==
  ASSUME IInv, NEW r \in Requests
  PROVE  /\ answer[r] = "none" => Standing(r) = "new"
         /\ answer[r] = "TooManyRequests" => Standing(r) = "refused"
         /\ answer[r] \in Codes \cup {"Test"} => Standing(r) = "answered"
         /\ r \in Held => Standing(r) = "pending"
         /\ r \in delivered => Standing(r) = "delivered"
         /\ r \in lost => Standing(r) = "lost"
         /\ Standing(r) = "pending" => r \in Held
<1>1. /\ delivered \cap Held = {}
      /\ lost \cap Held = {}
      /\ delivered \cap lost = {}
      /\ Held \cup delivered \cup lost = Accepted
      /\ Held = inflight \cup Parked
  BY DEF IInv, OnePlace, Parked, Elements, Held
<1>2. CASE r \in Accepted
  BY <1>1, <1>2 DEF Accepted, Codes, Standing
<1>3. CASE r \notin Accepted
  BY <1>1, <1>3 DEF Accepted, Codes, Standing
<1> QED
  BY <1>2, <1>3

\* The same after a step.
LEMMA StandingCasesNext ==
  ASSUME IInv', NEW r \in Requests
  PROVE  /\ answer'[r] = "none" => Standing(r)' = "new"
         /\ answer'[r] = "TooManyRequests" => Standing(r)' = "refused"
         /\ answer'[r] \in Codes \cup {"Test"} => Standing(r)' = "answered"
         /\ r \in Held' => Standing(r)' = "pending"
         /\ r \in delivered' => Standing(r)' = "delivered"
         /\ r \in lost' => Standing(r)' = "lost"
<1>1. /\ delivered' \cap Held' = {}
      /\ lost' \cap Held' = {}
      /\ delivered' \cap lost' = {}
      /\ Held' \cup delivered' \cup lost' = Accepted'
      /\ Held' = inflight' \cup Parked'
  BY DEF IInv, OnePlace, Parked, Elements, Held
<1>2. CASE r \in Accepted'
  BY <1>1, <1>2 DEF Accepted, Codes, Standing
<1>3. CASE r \notin Accepted'
  BY <1>1, <1>3 DEF Accepted, Codes, Standing
<1> QED
  BY <1>2, <1>3

\* A request whose answer and places a step leaves alone keeps its standing.
LEMMA SameStanding ==
  ASSUME NEW q \in Requests,
         answer'[q] = answer[q],
         q \in Held' <=> q \in Held,
         q \in delivered' <=> q \in delivered,
         q \in lost' <=> q \in lost
  PROVE  Standing(q)' = Standing(q)
BY DEF Standing, Held, Parked, Elements

\* A step that changes the standing of one request is a step of Delivery.
LEMMA MoveOne ==
  ASSUME NEW r \in Requests, NEW from, NEW to,
         Standing(r) = from, Standing(r)' = to,
         \A q \in Requests \ {r} : Standing(q)' = Standing(q)
  PROVE  Promise!Move(r, from, to)
BY DEF Promise!Move

\* A sequence without repetitions has as many elements as it is long.
LEMMA ElementsCount ==
  ASSUME NEW S, NEW s \in Seq(S), Distinct(s)
  PROVE  IsFiniteSet(Elements(s)) /\ Cardinality(Elements(s)) = Len(s)
<1>1. Len(s) \in Nat /\ s \in [1..Len(s) -> S]
  OBVIOUS
<1>2. s \in Surjection(1..Len(s), Elements(s))
  <2>1. s \in [1..Len(s) -> Elements(s)]
    BY <1>1 DEF Elements
  <2> QED
    BY <2>1 DEF Surjection, Elements
<1>3. s \in Injection(1..Len(s), Elements(s))
  BY <1>2 DEF Surjection, Injection, IsInjective, Distinct
<1>4. IsFiniteSet(1..Len(s)) /\ Cardinality(1..Len(s)) = Len(s)
  BY <1>1, FS_Interval
<1> QED
  BY <1>2, <1>3, <1>4, FS_Surjection

\* The peer refuses a request exactly when Delivery is full.
LEMMA FullIsOverloaded == IInv => (Promise!Full <=> Overloaded)
<1> SUFFICES ASSUME IInv PROVE Promise!Full <=> Overloaded
  OBVIOUS
<1> TypeOK /\ OnePlace /\ QueueCountsInFlight
  BY DEF IInv
<1>1. Held \subseteq Requests
  BY DEF Held, Elements, TypeOK
<1>2. Promise!Pending = Held
  BY <1>1, StandingCases DEF Promise!Pending
<1>3. Cardinality(Held) = Cardinality(inflight) + Len(out_queue)
  <2>1. inflight \cap Elements(out_queue) = {} /\ Distinct(out_queue)
    BY OnePlaceElements
  <2>2. IsFiniteSet(inflight) /\ Cardinality(inflight) \in Nat
    BY Countable DEF TypeOK
  <2>3. /\ IsFiniteSet(Elements(out_queue))
        /\ Cardinality(Elements(out_queue)) = Len(out_queue)
        /\ Len(out_queue) \in Nat
    BY <2>1, ElementsCount DEF TypeOK
  <2>4. Cardinality(Held)
          = Cardinality(inflight) + Cardinality(Elements(out_queue)) - Cardinality({})
    BY <2>1, <2>2, <2>3, FS_Union DEF Held
  <2> QED
    BY <2>2, <2>3, <2>4, FS_EmptySet
<1> QED
  BY <1>2, <1>3 DEF Promise!Full, Overloaded, QueueCountsInFlight, Promise!Cardinality, Cardinality

\* Every step of the worker is a step of Delivery or leaves every standing alone.
LEMMA StepRefines ==
  ASSUME IInv, IInv', [Next]_vars
  PROVE  Promise!Next \/ UNCHANGED [r \in Requests |-> Standing(r)]
<1> TypeOK /\ TypeOK'
  BY DEF IInv
<1>1. CASE UNCHANGED <<answer, Held, delivered, lost>>
  <2>1. \A q \in Requests : Standing(q)' = Standing(q)
    BY <1>1, SameStanding
  <2> QED
    BY <2>1
<1>2. ASSUME NEW r \in Requests, NEW a \in Answers \ {"none"}, Reply(r, a),
             \A q \in Requests \ {r} : /\ q \in Held' <=> q \in Held
                                       /\ q \in delivered' <=> q \in delivered
                                       /\ q \in lost' <=> q \in lost
      PROVE  /\ Standing(r) = "new" /\ answer'[r] = a
             /\ \A q \in Requests \ {r} : Standing(q)' = Standing(q)
  <2>1. answer[r] = "none" /\ answer'[r] = a /\ \A q \in Requests \ {r} : answer'[q] = answer[q]
    BY <1>2 DEF Reply, TypeOK
  <2> QED
    BY <1>2, <2>1, SameStanding, StandingCases
<1>3. ASSUME NEW r \in Requests, TooManyRequests(r) PROVE Promise!Next
  <2>1. Standing(r) = "new" /\ answer'[r] = "TooManyRequests"
        /\ \A q \in Requests \ {r} : Standing(q)' = Standing(q)
    BY <1>2, <1>3 DEF TooManyRequests, clientVars, Held, Answers
  <2>2. Promise!Move(r, "new", "refused")
    BY <2>1, StandingCasesNext, MoveOne
  <2>3. Promise!Full
    BY <1>3, FullIsOverloaded DEF TooManyRequests
  <2> QED
    BY <2>2, <2>3 DEF Promise!Next, Promise!Refuse
<1>4. ASSUME NEW r \in Requests, NEW a \in Codes \cup {"Test"}, Reply(r, a), ~Overloaded,
             UNCHANGED <<clientVars, out_queue>>
      PROVE  Promise!Next
  <2>0. a \in Answers \ {"none"}
    BY DEF Answers, Codes
  <2>1. Standing(r) = "new" /\ answer'[r] = a
        /\ \A q \in Requests \ {r} : Standing(q)' = Standing(q)
    BY <1>2, <1>4, <2>0 DEF clientVars, Held
  <2>2. Promise!Move(r, "new", "answered")
    BY <2>1, StandingCasesNext, MoveOne
  <2>3. ~Promise!Full
    BY <1>4, FullIsOverloaded
  <2> QED
    BY <2>2, <2>3 DEF Promise!Next, Promise!Answer
<1>5. ASSUME NEW r \in Requests, NEW body \in Bodies, AcceptTransaction(r, body)
      PROVE  Promise!Next
  <2>1. ~Promise!Full
    BY <1>5, FullIsOverloaded DEF AcceptTransaction
  <2>2. Reply(r, "Ok") /\ out_queue' = out_queue /\ "Ok" \in Answers \ {"none"}
    BY <1>5 DEF AcceptTransaction, Answers, Codes
  <2>3. CASE FirstSend(r)
    <3>1. /\ Standing(r) = "new"
          /\ \A q \in Requests \ {r} : Standing(q)' = Standing(q)
          /\ r \in Held'
      BY <1>2, <2>2, <2>3 DEF FirstSend, Held
    <3>2. Promise!Move(r, "new", "pending")
      BY <3>1, StandingCasesNext, MoveOne
    <3> QED
      BY <2>1, <3>2 DEF Promise!Next, Promise!Accept
  <2>4. CASE SendFailed(r)
    <3>1. /\ Standing(r) = "new"
          /\ \A q \in Requests \ {r} : Standing(q)' = Standing(q)
          /\ r \in lost'
      BY <1>2, <2>2, <2>4 DEF SendFailed, Held
    <3>2. Promise!Move(r, "new", "lost")
      BY <3>1, StandingCasesNext, MoveOne
    <3> QED
      BY <2>1, <3>2 DEF Promise!Next, Promise!AcceptInVain
  <2> QED
    BY <1>5, <2>3, <2>4 DEF AcceptTransaction
<1>6. ASSUME NEW r \in Requests, Acknowledged(r) PROVE Promise!Next
  <2>1. /\ r \in Held /\ r \in delivered'
        /\ \A q \in Requests \ {r} : Standing(q)' = Standing(q)
    BY <1>6, SameStanding DEF Acknowledged, Held
  <2>2. Promise!Move(r, "pending", "delivered")
    BY <2>1, StandingCases, StandingCasesNext, MoveOne
  <2> QED
    BY <2>2 DEF Promise!Next, Promise!Deliver
<1>7. ASSUME NEW r \in Requests, r \in Held, SendFailed(r), UNCHANGED answer,
             \A q \in Requests \ {r} : q \in Held' <=> q \in Held
      PROVE  Promise!Next
  <2>1. r \in lost' /\ \A q \in Requests \ {r} : Standing(q)' = Standing(q)
    BY <1>7, SameStanding DEF SendFailed
  <2>2. Promise!Move(r, "pending", "lost")
    BY <1>7, <2>1, StandingCases, StandingCasesNext, MoveOne
  <2> QED
    BY <2>2 DEF Promise!Next, Promise!Lose
<1>8. ASSUME NEW r \in Requests, Abandon(r) PROVE Promise!Next
  BY <1>7, <1>8 DEF Abandon, SendFailed, Held
<1>9. ASSUME NEW r \in Requests, Resend(r)
      PROVE  UNCHANGED <<answer, Held, delivered, lost>>
  BY <1>9 DEF Resend, SendAgain, Held
<1>10. ASSUME NEW r \in Requests, Park(r)
       PROVE  UNCHANGED <<answer, Held, delivered, lost>>
  <2>1. out_queue \in Seq(Requests) /\ r \notin Elements(out_queue) /\ Distinct(out_queue)
    BY <1>10, OnePlaceElements DEF IInv, Park, TypeOK
  <2>2. Elements(out_queue)' = Elements(out_queue) \cup {r}
    BY <1>10, <2>1, AppendElements DEF Park
  <2>3. Held' = Held
    BY <1>10, <2>2 DEF Park, Held
  <2> QED
    BY <1>10, <2>3 DEF Park
<1>11. CASE DrainStep
  <2> DEFINE h == Head(out_queue)
  <2>1. out_queue \in Seq(Requests) /\ out_queue # <<>> /\ Distinct(out_queue)
    BY <1>11, OnePlaceElements DEF IInv, DrainStep, DrainMore, TypeOK
  <2>2. /\ h \in Elements(out_queue) /\ h \in Requests
        /\ Elements(out_queue)' = Elements(out_queue) \ {h}
    BY <1>11, <2>1, TailElements, HeadWaits DEF DrainStep
  <2>3. UNCHANGED answer
    BY <1>11 DEF DrainStep
  <2>4. CASE SendAgain(h)
    <3>1. Held' = Held
      BY <2>2, <2>4 DEF SendAgain, Held
    <3> QED
      BY <1>1, <2>3, <2>4, <3>1 DEF SendAgain
  <2>5. CASE SendFailed(h)
    <3>1. h \in Held /\ \A q \in Requests \ {h} : q \in Held' <=> q \in Held
      BY <2>2, <2>5 DEF SendFailed, Held
    <3> QED
      BY <1>7, <2>2, <2>3, <2>5, <3>1
  <2> QED
    BY <1>11, <2>4, <2>5 DEF DrainStep
<1>12. ASSUME NEW r \in Requests, NEW body \in Bodies,
              RejectRequest(r, body) \/ AcceptTest(r, body)
       PROVE  Promise!Next
  <2>1. CASE RejectRequest(r, body)
    <3>1. Judge(body) \in Codes
      BY <2>1, JudgeType DEF RejectRequest
    <3> QED
      BY <1>4, <2>1, <3>1 DEF RejectRequest
  <2>2. CASE AcceptTest(r, body)
    BY <1>4, <2>2 DEF AcceptTest
  <2> QED
    BY <1>12, <2>1, <2>2
<1>13. CASE UpdateCounters \/ DrainStart \/ DrainEnd \/ BreakLoop \/ LoopExit \/ StopSignal
            \/ UNCHANGED vars
  BY <1>1, <1>13 DEF UpdateCounters, DrainStart, DrainEnd, BreakLoop, LoopExit, StopSignal, vars,
                     clientVars, Held
<1> QED
  BY <1>1, <1>3, <1>5, <1>6, <1>8, <1>9, <1>10, <1>11, <1>12, <1>13
     DEF Next, Request, ClientCallback, Terminated

\* The worker implements Delivery: with client, retries, queues and counters hidden
\* it does nothing that Delivery does not allow.
THEOREM WorkerKeepsPromise == Spec => KeepsPromise
<1>1. Init => Promise!Init
  <2>1. Init => \A r \in Requests : Standing(r) = "new"
    BY InitIInv, StandingCases DEF Init
  <2> QED
    BY <2>1 DEF Promise!Init
<1>2. IInv /\ IInv' /\ [Next]_vars => [Promise!Next]_([r \in Requests |-> Standing(r)])
  BY StepRefines
<1> QED
  BY Invariance, <1>1, <1>2, PTL DEF Spec, KeepsPromise, Promise!Spec

-----------------------------------------------------------------------------
(* The worker as a thread of QueueMetric                                   *)

\* No callback is at work once the loop has ended.
ExitedIsIdle == loop = "exited" => ~drain.active

\* LoopExit finds no callback at work, and after it none starts.
LEMMA ExitedInvariance == Spec => []ExitedIsIdle
<1>1. Init => ExitedIsIdle
  BY DEF Init, ExitedIsIdle
<1>2. TypeOK /\ ExitedIsIdle /\ [Next]_vars => ExitedIsIdle'
  <2> SUFFICES ASSUME TypeOK, ExitedIsIdle, [Next]_vars PROVE ExitedIsIdle'
    OBVIOUS
  <2>1. CASE UNCHANGED <<loop, drain>>
    BY <2>1 DEF ExitedIsIdle
  <2>2. CASE DrainStart \/ DrainStep
    BY <2>2 DEF DrainStart, DrainStep, Ready, ExitedIsIdle, loopVars
  <2>3. CASE DrainEnd \/ BreakLoop \/ LoopExit \/ StopSignal
    BY <2>3 DEF DrainEnd, BreakLoop, LoopExit, StopSignal, Ready, ExitedIsIdle, loopVars, Idle
  <2>4. ASSUME NEW r \in Requests, Request(r) \/ ClientCallback(r) PROVE UNCHANGED <<loop, drain>>
    BY <2>4 DEF Request, ClientCallback, TooManyRequests, RejectRequest, AcceptTest,
                AcceptTransaction, Acknowledged, Resend, Abandon, Park, loopVars
  <2>5. CASE UpdateCounters \/ Terminated \/ UNCHANGED vars
    BY <2>1, <2>5 DEF UpdateCounters, Terminated, vars, loopVars
  <2> QED
    BY <2>1, <2>2, <2>3, <2>4, <2>5 DEF Next
<1> QED
  BY TypeCorrect, <1>1, <1>2, PTL DEF Spec

\* A step of the worker ends the loop, publishes, or is one that may change the
\* backlog while the loop runs; only the first two touch what QueueMetric sees besides.
LEMMA StepKinds ==
  ASSUME TypeOK, ExitedIsIdle, [Next]_vars
  PROVE  \/ loop # "exited" /\ loop' = "exited" /\ UNCHANGED <<Pending, published>>
         \/ loop # "exited" /\ loop' # "exited" /\ published' = Pending /\ Pending' = Pending
         \/ loop # "exited" /\ loop' # "exited" /\ published' = published
         \/ (loop' = "exited") = (loop = "exited") /\ UNCHANGED <<Pending, published>>
<1>1. CASE LoopExit
  BY <1>1 DEF LoopExit, Ready, Pending
<1>2. CASE UpdateCounters
  BY <1>2 DEF UpdateCounters, Ready, Pending, loopVars
<1>3. ASSUME NEW r \in Requests, Request(r) \/ ClientCallback(r)
      PROVE  loop # "exited" /\ loop' # "exited" /\ published' = published
  BY <1>3 DEF Request, ClientCallback, TooManyRequests, RejectRequest, AcceptTest,
              AcceptTransaction, Acknowledged, Resend, Abandon, Park, Ready, loopVars
<1>4. CASE DrainStart \/ DrainStep \/ DrainEnd
  BY <1>4 DEF DrainStart, DrainStep, DrainEnd, Ready, ExitedIsIdle, loopVars
<1>5. CASE BreakLoop \/ StopSignal \/ Terminated \/ UNCHANGED vars
  BY <1>5 DEF BreakLoop, StopSignal, Terminated, vars, Pending, loopVars, Ready
<1> QED
  BY <1>1, <1>2, <1>3, <1>4, <1>5 DEF Next

\* Every step of the worker is one of a thread of QueueMetric, or hidden from it.
LEMMA StepActsAsThread ==
  ASSUME IInv, IInv', ExitedIsIdle, [Next]_vars
  PROVE  [Metric!Next]_(Metric!vars)
<1> DEFINE seen   == [t \in 1..1 |-> Pending]
           shown  == [t \in 1..1 |-> published]
           over   == IF loop = "exited" THEN {1} ELSE {}
<1> USE DEF Metric!vars
<1>0. /\ Pending \in Nat /\ Pending' \in Nat /\ Limit \in Nat
      /\ TypeOK
      /\ 1..1 = {1}
      /\ Metric!Threads = {1} /\ 1 \in 0..1 + 1
  BY WorkerAssumption DEF IInv, TypeOK, Pending, Metric!Threads
<1>a. Metric!_thread_queue_size = Limit
  BY <1>0 DEF Metric!_thread_queue_size
<1>1. CASE loop # "exited" /\ loop' = "exited" /\ UNCHANGED <<Pending, published>>
  <2>1. over = {} /\ over' = {1} /\ seen' = seen /\ shown' = shown
    BY <1>1
  <2>2. Metric!End(1)
    BY <2>1 DEF Metric!End
  <2> QED
    BY <1>0, <2>2 DEF Metric!Next
<1>2. CASE loop # "exited" /\ loop' # "exited" /\ published' = Pending /\ Pending' = Pending
  <2>1. over = {} /\ over' = {} /\ seen' = seen /\ shown' = [shown EXCEPT ![1] = seen[1]]
    BY <1>0, <1>2
  <2>2. Metric!Publish(1)
    BY <2>1 DEF Metric!Publish
  <2> QED
    BY <1>0, <2>2 DEF Metric!Next
<1>3. CASE loop # "exited" /\ loop' # "exited" /\ published' = published
  <2>1. over = {} /\ over' = {} /\ shown' = shown
    BY <1>3
  <2>2. CASE Pending' = Pending
    <3>1. seen' = seen
      BY <2>2
    <3> QED
      BY <2>1, <3>1
  <2>3. CASE Pending' = Pending - 1
    <3>1. seen[1] > 0 /\ seen' = [seen EXCEPT ![1] = seen[1] - 1]
      BY <1>0, <2>3
    <3>2. Metric!Settle(1)
      BY <2>1, <3>1 DEF Metric!Settle
    <3> QED
      BY <1>0, <3>2 DEF Metric!Next
  <2>4. CASE Pending' = Pending + 1 /\ ~Overloaded
    <3>1. (Limit = 0 \/ seen[1] <= Limit) /\ seen' = [seen EXCEPT ![1] = seen[1] + 1]
      BY <1>0, <2>4 DEF Overloaded, Pending, TypeOK
    <3>2. Metric!Accept(1)
      BY <1>a, <2>1, <3>1 DEF Metric!Accept
    <3> QED
      BY <1>0, <3>2 DEF Metric!Next
  <2> QED
    BY <2>2, <2>3, <2>4, StepPending
<1>4. CASE (loop' = "exited") = (loop = "exited") /\ UNCHANGED <<Pending, published>>
  <2>1. over' = over /\ seen' = seen /\ shown' = shown
    BY <1>4
  <2> QED
    BY <2>1
<1> QED
  BY <1>0, <1>1, <1>2, <1>3, <1>4, StepKinds

\* For every limit, number of retries and set of requests, the worker is a thread as
\* QueueMetric assumes it.
THEOREM WorkerActsAsThread == Spec => ActsAsThread
<1>1. Init => Metric!Init
  <2> SUFFICES ASSUME Init PROVE Metric!Init
    OBVIOUS
  <2>1. Pending = 0 /\ published = 0 /\ loop # "exited"
    BY DEF Init, Pending
  <2> QED
    BY <2>1 DEF Metric!Init, Metric!Threads
<1>2. IInv /\ IInv' /\ ExitedIsIdle /\ [Next]_vars => [Metric!Next]_(Metric!vars)
  BY StepActsAsThread
<1> QED
  BY Invariance, ExitedInvariance, <1>1, <1>2, PTL DEF Spec, ActsAsThread, Metric!Spec

=============================================================================
