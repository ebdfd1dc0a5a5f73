-------------------------- MODULE ApiLifecycleProofs --------------------------
(***************************************************************************)
(* Proofs about ApiLifecycle, for any number of requests and connections,  *)
(* any timeouts its assumption allows, any number of migrations and starts,*)
(* with faults or without.                                                 *)
(***************************************************************************)
EXTENDS ApiLifecycle, TLAPS

-----------------------------------------------------------------------------
(* The invariant, seen from the process and from one request.              *)

\* What LifeInv says of the process.
ProcessInv ==
    /\ main \in {"migrate", "ping", "serving", "draining"} => pool = "open"
    /\ main = "closing" => pool = "closed"
    /\ main \in {"ping"} \cup Running => schema = Migrations
    /\ ExitIsBounded

\* What LifeInv says of one request, its types aside.
RequestInv(r) ==
    /\ stage[r] \in Handling =>
          /\ main \in Running
          /\ schema = Migrations
          /\ pool = "open" \/ (main = "closing" /\ age[r] >= ShutdownTimeout)
          /\ main \in ShuttingDown => age[r] >= since
    /\ committed[r] => caller[r] = "uploader" /\ stage[r] \in {"respond", "done", "lost"}
    /\ stage[r] \in ({"idle"} \cup Handling) \ {"respond"} => why[r] = None \/ left[r]
    /\ committed[r] /\ stage[r] = "respond" =>
          \/ left[r]
          \/ why[r] \in {None, "db"}
          \/ why[r] = "deadline" /\ age[r] >= WriteTimeout
    /\ stage[r] \in {"idle"} \cup Handling => told[r] \in {None, "cut"}
    /\ committed[r] /\ stage[r] \in {"done", "lost"} /\ told[r] # "ok" =>
          \/ left[r]
          \/ why[r] \in {"db", "failed"}
          \/ why[r] = "late" /\ age[r] >= WriteTimeout
          \/ why[r] = "exit" /\ age[r] >= ShutdownTimeout
    /\ told[r] = "502" => why[r] \in {"refused", "exit", "failed"}

\* The invariant is that of the process and of each request.
LEMMA Parts == LifeInv <=> TypeOK /\ ProcessInv /\ \A r \in Requests : RequestInv(r)
<1> USE DEF LifeInv, ProcessInv, RequestInv, InFlight
<1>1. LifeInv => TypeOK /\ ProcessInv
  BY DEF ProcessReady
<1>2. LifeInv => \A r \in Requests : RequestInv(r)
  BY DEF ProcessReady, OlderThanSignal, HandlerKnows, UntoldInFlight,
     HandlersHaveTheirDatabase, CommittedIsTold, BadGatewayMeansGone
<1>3. ASSUME TypeOK, ProcessInv, \A r \in Requests : RequestInv(r) PROVE LifeInv
  <2>1. ProcessReady /\ OlderThanSignal /\ HandlerKnows
    BY <1>3 DEF ProcessReady, OlderThanSignal, HandlerKnows
  <2>2. UntoldInFlight /\ HandlersHaveTheirDatabase /\ CommittedIsTold /\ BadGatewayMeansGone
    BY <1>3 DEF UntoldInFlight, HandlersHaveTheirDatabase, CommittedIsTold,
       BadGatewayMeansGone
  <2> QED
    BY <1>3, <2>1, <2>2
<1> QED
  BY <1>1, <1>2, <1>3

\* LifeInv of the next state is that of its parts.
LEMMA PartsAfter ==
  (TypeOK /\ ProcessInv /\ \A r \in Requests : RequestInv(r))' => LifeInv'
  BY Parts, PTL

\* A step of one request's handler or client leaves the others alone.
Apart(r) ==
    \A s \in Requests \ {r} :
        /\ stage'[s] = stage[s] /\ caller'[s] = caller[s] /\ age'[s] = age[s]
        /\ left'[s] = left[s] /\ committed'[s] = committed[s]
        /\ told'[s] = told[s] /\ why'[s] = why[s]

\* Such a step has to be looked at for that request only.
LEMMA OneRequest ==
  ASSUME LifeInv, NEW r \in Requests, UNCHANGED process, Apart(r),
         TypeOK', RequestInv(r)'
  PROVE  LifeInv'
<1> USE DEF process
<1>1. TypeOK /\ ProcessInv /\ \A s \in Requests : RequestInv(s)
  BY Parts
<1>2. ProcessInv'
  BY <1>1 DEF ProcessInv, ExitIsBounded, Longest
<1>3. ASSUME NEW s \in Requests PROVE RequestInv(s)'
  <2>1. CASE s = r
    BY <2>1
  <2>2. CASE s # r
    BY <1>1, <2>2 DEF Apart, RequestInv
  <2> QED
    BY <2>1, <2>2
<1>4. TypeOK' /\ ProcessInv' /\ \A s \in Requests : RequestInv(s)'
  BY <1>2, <1>3
<1> QED
  BY <1>4, PartsAfter

-----------------------------------------------------------------------------
(* Steps of a request. *)

\* What a caller learns is an answer.
LEMMA AnswerType ==
  ASSUME NEW r \in Requests, NEW answer \in Answers
  PROVE  /\ Delivered(r, answer) \in Answers
         /\ Unanswered(r) \in Answers
         /\ Reply(r) \in {"ok", "401", "error"}
  BY DEF Delivered, Unanswered, Reply, Answers

\* Arrival, refusal and authentication.
LEMMA EntryStep ==
  ASSUME LifeInv, NEW r \in Requests,
         \/ \E who \in Callers : Arrive(r, who) \/ Refused(r, who)
         \/ Authenticate(r)
  PROVE  LifeInv'
<1> USE Deadlines DEF requests
<1>1. TypeOK /\ RequestInv(r)
  BY Parts
<1>2. ASSUME NEW who \in Callers, Arrive(r, who) PROVE LifeInv'
  <2>1. UNCHANGED process /\ Apart(r) /\ TypeOK'
    BY <1>1, <1>2 DEF Arrive, Goto, Apart, TypeOK, process, Handling
  <2>2. RequestInv(r)'
    BY <1>1, <1>2, <2>1, Parts
       DEF Arrive, Goto, RequestInv, ProcessInv, TypeOK, process, Handling, Running,
           ShuttingDown
  <2> QED
    BY <2>1, <2>2, OneRequest
<1>3. ASSUME NEW who \in Callers, Refused(r, who) PROVE LifeInv'
  <2>1. UNCHANGED process /\ Apart(r) /\ TypeOK'
    BY <1>1, <1>3 DEF Refused, Goto, Apart, TypeOK, process, Answers, Reasons
  <2>2. RequestInv(r)'
    BY <1>1, <1>3, <2>1 DEF Refused, Goto, RequestInv, TypeOK, process, Handling
  <2> QED
    BY <2>1, <2>2, OneRequest
<1>4. ASSUME Authenticate(r) PROVE LifeInv'
  <2>1. UNCHANGED process /\ Apart(r) /\ TypeOK'
    BY <1>1, <1>4 DEF Authenticate, Goto, Apart, TypeOK, process, Handling, Reasons
  <2>2. RequestInv(r)'
    BY <1>1, <1>4, <2>1 DEF Authenticate, Goto, RequestInv, TypeOK, process, Handling, Answers
  <2> QED
    BY <2>1, <2>2, OneRequest
<1> QED
  BY <1>2, <1>3, <1>4

\* Connections and statements.
LEMMA DatabaseStep ==
  ASSUME LifeInv, NEW r \in Requests,
         Acquire(r) \/ AcquireFails(r) \/ Lookup(r) \/ Work(r)
  PROVE  LifeInv'
<1> USE Deadlines
<1>1. TypeOK /\ RequestInv(r)
  BY Parts
<1>2. CASE Acquire(r)
  <2>1. UNCHANGED process /\ Apart(r) /\ TypeOK'
    BY <1>1, <1>2 DEF Acquire, CanAcquire, Goto, Apart, TypeOK, process, Handling
  <2>2. RequestInv(r)'
    BY <1>1, <1>2, <2>1 DEF Acquire, CanAcquire, Goto, RequestInv, TypeOK, process, Handling
  <2> QED
    BY <2>1, <2>2, OneRequest
<1>3. CASE AcquireFails(r)
  <2>1. UNCHANGED process /\ Apart(r) /\ TypeOK'
    BY <1>1, <1>3 DEF AcquireFails, Goto, Apart, TypeOK, process, Handling, Reasons
  <2>2. RequestInv(r)'
    BY <1>1, <1>3, <2>1
       DEF AcquireFails, Goto, RequestInv, TypeOK, process, Handling, Answers
  <2> QED
    BY <2>1, <2>2, OneRequest
<1>4. CASE Lookup(r)
  <2>1. UNCHANGED process /\ Apart(r) /\ TypeOK'
    BY <1>1, <1>4 DEF Lookup, Goto, Apart, TypeOK, process, Handling
  <2>2. RequestInv(r)'
    BY <1>1, <1>4, <2>1 DEF Lookup, Goto, RequestInv, TypeOK, process, Handling
  <2> QED
    BY <2>1, <2>2, OneRequest
<1>5. CASE Work(r)
  <2>1. UNCHANGED process /\ Apart(r) /\ TypeOK'
    BY <1>1, <1>5 DEF Work, Goto, Apart, TypeOK, process, Handling
  <2>2. RequestInv(r)'
    BY <1>1, <1>5, <2>1 DEF Work, Goto, RequestInv, TypeOK, process, Handling
  <2> QED
    BY <2>1, <2>2, OneRequest
<1> QED
  BY <1>2, <1>3, <1>4, <1>5

\* A statement that ends in an error, for a reason the handler knows.
LEMMA ErrorStep ==
  ASSUME LifeInv, NEW r \in Requests, StatementFails(r) \/ Expire(r)
  PROVE  LifeInv'
<1> USE Deadlines
<1>1. TypeOK /\ RequestInv(r)
  BY Parts
<1>2. CASE StatementFails(r)
  <2>1. UNCHANGED process /\ Apart(r) /\ TypeOK'
    BY <1>1, <1>2 DEF StatementFails, StatementEnds, Goto, Apart, TypeOK, process,
       Handling, Reasons
  <2>2. RequestInv(r)'
    BY <1>1, <1>2, <2>1 DEF StatementFails, StatementEnds, Holders, Goto, RequestInv,
       TypeOK, process, Handling, Answers
  <2> QED
    BY <2>1, <2>2, OneRequest
<1>3. CASE Expire(r)
  <2>1. UNCHANGED process /\ Apart(r) /\ TypeOK'
    BY <1>1, <1>3 DEF Expire, StatementEnds, Goto, Apart, TypeOK, process,
       Handling, Reasons
  <2>2. ~left[r] => age[r] >= WriteTimeout
    BY <1>1, <1>3 DEF Expire, ContextDead, TypeOK
  <2>3. RequestInv(r)'
    BY <1>1, <1>3, <2>1, <2>2 DEF Expire, StatementEnds, Goto, RequestInv, TypeOK,
       process, Handling, Answers
  <2> QED
    BY <2>1, <2>3, OneRequest
<1> QED
  BY <1>2, <1>3

\* A client that goes away, and the proxy that gives up.
LEMMA ClientStep ==
  ASSUME LifeInv, NEW r \in Requests, Leave(r) \/ ProxyGivesUp(r)
  PROVE  LifeInv'
<1> USE Deadlines
<1>1. TypeOK /\ RequestInv(r)
  BY Parts
<1>2. CASE Leave(r)
  <2>1. UNCHANGED process /\ Apart(r) /\ TypeOK'
    BY <1>1, <1>2 DEF Leave, Apart, TypeOK, process
  <2>2. RequestInv(r)'
    BY <1>1, <1>2, <2>1 DEF Leave, RequestInv, TypeOK, process
  <2> QED
    BY <2>1, <2>2, OneRequest
<1>3. CASE ProxyGivesUp(r)
  <2>1. Delivered(r, "502") = "cut"
    BY <1>1, <1>3 DEF ProxyGivesUp, ProxyTimesOut, Delivered, TypeOK
  <2>2. UNCHANGED process /\ Apart(r) /\ TypeOK'
    BY <1>1, <1>3, <2>1 DEF ProxyGivesUp, Apart, TypeOK, process, Answers, Reasons
  <2>3. RequestInv(r)'
    BY <1>1, <1>3, <2>1, <2>2 DEF ProxyGivesUp, ProxyTimesOut, InFlight, RequestInv,
       TypeOK, process
  <2> QED
    BY <2>2, <2>3, OneRequest
<1> QED
  BY <1>2, <1>3

\* The handler ends.
LEMMA RespondStep ==
  ASSUME LifeInv, NEW r \in Requests, Respond(r)
  PROVE  LifeInv'
<1> USE Deadlines
<1>1. TypeOK /\ RequestInv(r)
  BY Parts
<1>2. Unanswered(r) \in Answers /\ Reply(r) \in Answers /\ Delivered(r, Reply(r)) \in Answers
  BY AnswerType DEF Answers
<1>3. UNCHANGED process /\ Apart(r) /\ TypeOK'
  BY <1>1, <1>2 DEF Respond, Goto, Apart, TypeOK, process, Answers, Reasons
<1>4. age[r] >= WriteTimeout => Unanswered(r) = "cut"
  BY <1>1 DEF Unanswered, Delivered, TypeOK
<1>5. Reply(r) # "502" /\ Delivered(r, Reply(r)) # "502"
  BY AnswerType DEF Delivered, Answers
<1>6. why[r] = None => Reply(r) = "ok"
  BY DEF Reply, Reasons
<1>7. RequestInv(r)'
  <2>1. CASE left[r]
    BY <1>1, <1>3, <2>1 DEF Respond, Goto, RequestInv, TypeOK, process, Handling, Answers
  <2>2. CASE ~left[r] /\ age[r] >= WriteTimeout
    BY <1>1, <1>3, <1>4, <2>2 DEF Respond, Goto, RequestInv, TypeOK, process, Handling
  <2>3. CASE ~left[r] /\ ~(age[r] >= WriteTimeout)
    BY <1>1, <1>3, <1>5, <1>6, <2>3 DEF Respond, Goto, RequestInv, TypeOK, process, Handling
  <2> QED
    BY <2>1, <2>2, <2>3
<1> QED
  BY <1>3, <1>7, OneRequest
-----------------------------------------------------------------------------
(* Steps of the process. *)

\* A step of the process that leaves the requests alone has to be looked at for
\* the process, and for what it is to a request in flight.
LEMMA ProcessOnly ==
  ASSUME LifeInv, UNCHANGED requests, TypeOK', ProcessInv',
         \A r \in InFlight :
            /\ main' \in Running
            /\ schema' = Migrations
            /\ pool' = "open" \/ (main' = "closing" /\ age[r] >= ShutdownTimeout)
            /\ main' \in ShuttingDown => age[r] >= since'
  PROVE  LifeInv'
<1> USE DEF requests
<1>1. \A r \in Requests : RequestInv(r)
  BY Parts
<1>2. ASSUME NEW r \in Requests PROVE RequestInv(r)'
  BY <1>1 DEF RequestInv, InFlight
<1> QED
  BY <1>2, PartsAfter

\* Start-up, and the operator's restart.
LEMMA BootStep ==
  ASSUME LifeInv, Boot \/ Restart
  PROVE  LifeInv'
<1> USE Deadlines
<1>1. TypeOK /\ ProcessInv /\ \A r \in Requests : RequestInv(r)
  BY Parts
<1>2. UNCHANGED requests
  BY DEF Boot, LoadConfig, OpenPool, Migrate, Ping, BootFails, Restart
<1>3. InFlight = {}
  <2>1. main \notin Running
    BY DEF Boot, LoadConfig, OpenPool, Migrate, Ping, BootFails, Restart, Booting,
       Running, ShuttingDown
  <2> QED
    BY <1>1, <2>1 DEF InFlight, RequestInv
<1>4. TypeOK'
  <2>1. CASE Migrate
    BY <1>1, <2>1 DEF Migrate, TypeOK, requests, Booting, Running, ShuttingDown
  <2>2. CASE Restart
    BY <1>1, <2>2 DEF Restart, TypeOK, requests, Booting, Running, ShuttingDown
  <2>3. CASE LoadConfig \/ OpenPool \/ Ping \/ BootFails
    BY <1>1, <2>3 DEF LoadConfig, OpenPool, Ping, BootFails, TypeOK, requests, Booting,
       Running, ShuttingDown
  <2> QED
    BY <2>1, <2>2, <2>3 DEF Boot
<1>5. ProcessInv'
  <2>1. since' = since
    BY DEF Boot, LoadConfig, OpenPool, Migrate, Ping, BootFails, Restart
  <2>2. ExitIsBounded'
    BY <1>1, <2>1 DEF ProcessInv, ExitIsBounded, Longest
  <2>3. CASE Migrate
    BY <1>1, <2>2, <2>3 DEF Migrate, ProcessInv, TypeOK, Running, ShuttingDown
  <2>4. CASE Restart \/ LoadConfig \/ OpenPool \/ Ping \/ BootFails
    BY <1>1, <2>2, <2>4 DEF Restart, LoadConfig, OpenPool, Ping, BootFails, ProcessInv,
       Booting, Running, ShuttingDown
  <2> QED
    BY <2>3, <2>4 DEF Boot
<1> QED
  BY <1>2, <1>3, <1>4, <1>5, ProcessOnly

\* A signal, and the end of Shutdown: what is in flight then has waited for
\* ShutdownTimeout.
LEMMA ShutdownStep ==
  ASSUME LifeInv, Signal \/ ShutdownReturns
  PROVE  LifeInv'
<1> USE Deadlines
<1>1. TypeOK /\ ProcessInv /\ \A r \in Requests : RequestInv(r)
  BY Parts
<1>2. UNCHANGED <<requests, schema, since, starts>>
  BY DEF Signal, ShutdownReturns, requests
<1>3. TypeOK'
  BY <1>1, <1>2 DEF Signal, ShutdownReturns, TypeOK, requests, Running, ShuttingDown
<1>4. ProcessInv'
  BY <1>1, <1>2 DEF Signal, ShutdownReturns, ProcessInv, ExitIsBounded, Longest, Running,
     ShuttingDown
<1>5. ASSUME NEW r \in InFlight
      PROVE  /\ main' \in Running
             /\ schema' = Migrations
             /\ pool' = "open" \/ (main' = "closing" /\ age[r] >= ShutdownTimeout)
             /\ main' \in ShuttingDown => age[r] >= since'
  <2>1. RequestInv(r) /\ stage[r] \in Handling
    BY <1>1, <1>5 DEF InFlight
  <2>2. CASE Signal
    BY <1>1, <2>1, <2>2, <1>5 DEF Signal, RequestInv, ProcessInv, TypeOK, InFlight, Running,
       ShuttingDown
  <2>3. CASE ShutdownReturns
    BY <1>1, <2>1, <2>3, <1>5 DEF ShutdownReturns, Drained, RequestInv, TypeOK, InFlight,
       Running, ShuttingDown
  <2> QED
    BY <2>2, <2>3
<1> QED
  BY <1>2, <1>3, <1>4, <1>5, ProcessOnly

\* The process ends.  A handler that Exit cuts off has waited for
\* ShutdownTimeout.
LEMMA EndStep ==
  ASSUME LifeInv, Exit \/ Dies
  PROVE  LifeInv'
<1> USE Deadlines
<1>1. TypeOK /\ ProcessInv /\ \A r \in Requests : RequestInv(r)
  BY Parts
<1>2. PICK final \in {"exited", "failed"}, reason \in {"exit", "failed"} :
         /\ EndsWith(final, reason)
         /\ reason = "exit" => main = "closing" /\ UNCHANGED committed
  BY DEF Exit, Dies
<1>3. /\ since' = 0
      /\ pool' \in {"none", "open", "closed"}
      /\ committed' \in [Requests -> BOOLEAN]
      /\ \A r \in Requests : committed'[r] =>
            committed[r] \/ (stage[r] = "work" /\ caller[r] = "uploader")
      /\ \A r \in Requests : committed[r] => committed'[r]
  <2>1. CASE Exit
    BY <1>1, <2>1 DEF Exit, TypeOK
  <2>2. CASE Dies
    BY <1>1, <2>2 DEF Dies, TypeOK, Uploads
  <2> QED
    BY <2>1, <2>2
<1>4. TypeOK'
  <2>1. \A r \in Requests : Unanswered(r) \in Answers
    BY AnswerType DEF Answers
  <2>2. stage' \in [Requests -> Handling \cup {"idle", "done", "lost"}]
    BY <1>1, <1>2 DEF EndsWith, TypeOK
  <2>3. told' \in [Requests -> Answers \cup {None}]
    BY <1>1, <1>2, <2>1 DEF EndsWith, TypeOK, Answers
  <2>4. why' \in [Requests -> Reasons \cup {None}]
    BY <1>1, <1>2 DEF EndsWith, TypeOK, Reasons
  <2>5. /\ main' \in {"exited", "failed"}
        /\ UNCHANGED <<schema, starts, caller, age, left>>
    BY <1>2 DEF EndsWith
  <2> QED
    BY <1>1, <1>3, <2>2, <2>3, <2>4, <2>5 DEF TypeOK, Running, ShuttingDown
<1>5. ProcessInv'
  BY <1>1, <1>2, <1>3 DEF EndsWith, ProcessInv, ExitIsBounded, Longest, Running, ShuttingDown
<1>6. ASSUME NEW r \in Requests PROVE RequestInv(r)'
  <2>1. UNCHANGED <<schema, starts, caller, age, left>>
    BY <1>2 DEF EndsWith
  <2>2. CASE r \notin InFlight
    <3>1. stage'[r] = stage[r] /\ told'[r] = told[r] /\ why'[r] = why[r]
      BY <1>2, <2>2 DEF EndsWith
    <3>2. committed'[r] = committed[r]
      BY <1>1, <1>3, <2>2 DEF InFlight, Handling, TypeOK
    <3> QED
      BY <1>1, <2>1, <2>2, <3>1, <3>2 DEF RequestInv, InFlight
  <2>3. CASE r \in InFlight
    <3>1. /\ stage'[r] = "lost"
          /\ told'[r] = IF told[r] # None THEN told[r]
                        ELSE IF left[r] THEN "cut" ELSE Unanswered(r)
          /\ why'[r] = IF ~left[r] THEN reason ELSE why[r]
      BY <1>2, <2>3 DEF EndsWith
    <3>2. stage[r] \in Handling /\ RequestInv(r) /\ told[r] \in {None, "cut"}
      BY <1>1, <2>3 DEF InFlight, RequestInv
    <3>3. committed'[r] => caller'[r] = "uploader"
      BY <1>3, <2>1, <3>2 DEF RequestInv
    <3>4. reason = "exit" /\ committed'[r] => age[r] >= ShutdownTimeout
      BY <1>1, <1>2, <3>2 DEF RequestInv, ProcessInv
    <3>5. ~left[r] => why'[r] = reason
      BY <3>1
    <3>6. main' \notin Running
      BY <1>2 DEF EndsWith, Running, ShuttingDown
    <3> QED
      BY <2>1, <3>1, <3>2, <3>3, <3>4, <3>5, <3>6 DEF RequestInv, Answers, Handling
  <2> QED
    BY <2>2, <2>3
<1> QED
  BY <1>4, <1>5, <1>6, PartsAfter

\* A tick.  What is in flight has not reached its deadline, so it grows older
\* with the time since the signal; and at the longer timeout no tick comes.
LEMMA TickStep ==
  ASSUME LifeInv, Tick
  PROVE  LifeInv'
<1> USE Deadlines
<1>1. TypeOK /\ ProcessInv /\ \A r \in Requests : RequestInv(r)
  BY Parts
<1>2. UNCHANGED <<main, pool, schema, starts, stage, caller, left, committed, told, why>>
  BY DEF Tick
<1>3. TypeOK'
  BY <1>1 DEF Tick, TypeOK
<1>4. ASSUME NEW r \in Requests
      PROVE  /\ stage[r] \in Handling => age[r] < RequestTimeout
             /\ age'[r] = IF stage[r] \in Handling THEN age[r] + 1 ELSE age[r]
  <2>1. stage[r] \in Handling => ~ContextDead(r)
    BY DEF Tick, Pending
  <2> QED
    BY <1>1, <2>1 DEF Tick, ContextDead, InFlight, TypeOK
<1>5. since' <= Longest
  <2>1. since \in Nat /\ since <= Longest /\ Longest \in Nat
    BY <1>1 DEF TypeOK, ProcessInv, ExitIsBounded, Longest
  <2>2. CASE main \notin ShuttingDown
    BY <2>1, <2>2 DEF Tick
  <2>3. CASE main = "draining"
    <3>1. since < ShutdownTimeout
      BY <2>1, <2>3 DEF Tick, Pending
    <3> QED
      BY <2>1, <3>1 DEF Tick, Longest
  <2>4. CASE main = "closing"
    <3>1. PICK r \in Requests : stage[r] \in {"lookup", "work"}
      BY <2>4 DEF Tick, Pending, Holders
    <3>2. age[r] >= since /\ age[r] < RequestTimeout /\ age[r] \in Nat
      BY <1>1, <1>4, <2>4, <3>1 DEF RequestInv, TypeOK, Handling, ShuttingDown
    <3> QED
      BY <2>1, <3>2 DEF Tick, Longest
  <2> QED
    BY <2>2, <2>3, <2>4 DEF ShuttingDown
<1>6. ProcessInv'
  BY <1>1, <1>2, <1>5 DEF ProcessInv, ExitIsBounded, Longest, Running
<1>7. since' \in {since, since + 1} /\ since \in Nat
  BY <1>1 DEF Tick, TypeOK
<1>8. ASSUME NEW r \in Requests PROVE RequestInv(r)'
  <2>1. age[r] \in Nat /\ RequestInv(r)
    BY <1>1 DEF TypeOK
  <2> QED
    BY <1>2, <1>4, <1>7, <2>1 DEF RequestInv
<1> QED
  BY <1>3, <1>6, <1>8, PartsAfter

-----------------------------------------------------------------------------
(* Theorems. *)

\* The invariant holds in every reachable state.
LEMMA LifeInvariant == Spec => []LifeInv
<1>1. Init => LifeInv
  <2> SUFFICES ASSUME Init PROVE LifeInv
    OBVIOUS
  <2> USE Deadlines
  <2>1. TypeOK
    BY DEF Init, TypeOK, Booting, Running, ShuttingDown, Callers
  <2>2. ProcessInv
    BY DEF Init, ProcessInv, ExitIsBounded, Longest, Running, ShuttingDown
  <2>3. ASSUME NEW r \in Requests PROVE RequestInv(r)
    BY DEF Init, RequestInv, Handling, Answers
  <2> QED
    BY <2>1, <2>2, <2>3, Parts
<1>2. LifeInv /\ [Next]_vars => LifeInv'
  <2> SUFFICES ASSUME LifeInv, [Next]_vars PROVE LifeInv'
    OBVIOUS
  <2>1. ASSUME NEW r \in Requests,
               \/ \E who \in Callers : Arrive(r, who) \/ Refused(r, who)
               \/ Handle(r) \/ Lookup(r) \/ Work(r) \/ StatementFails(r) \/ Leave(r)
        PROVE  LifeInv'
    BY <2>1, EntryStep, DatabaseStep, ErrorStep, ClientStep, RespondStep DEF Handle
  <2>2. CASE Boot \/ Restart
    BY <2>2, BootStep
  <2>3. CASE Signal \/ ShutdownReturns
    BY <2>3, ShutdownStep
  <2>4. CASE Exit \/ Dies
    BY <2>4, EndStep
  <2>5. CASE Tick
    BY <2>5, TickStep
  <2>6. CASE UNCHANGED vars
    <3>1. TypeOK /\ ProcessInv /\ \A r \in Requests : RequestInv(r)
      BY Parts
    <3>2. TypeOK' /\ ProcessInv'
      BY <2>6, <3>1 DEF vars, process, requests, TypeOK, ProcessInv, ExitIsBounded, Longest
    <3>3. ASSUME NEW r \in Requests PROVE RequestInv(r)'
      BY <2>6, <3>1 DEF vars, process, requests, RequestInv
    <3> QED
      BY <3>2, <3>3, PartsAfter
  <2> QED
    BY <2>1, <2>2, <2>3, <2>4, <2>5, <2>6 DEF Next, Terminating
<1> QED
  BY <1>1, <1>2, PTL DEF Spec

\* Every variable of the process and of its requests keeps its type.
THEOREM LifeTyped == Spec => []TypeOK
<1>1. LifeInv => TypeOK
  BY DEF LifeInv
<1> QED
  BY <1>1, LifeInvariant, PTL

\* While a handler runs, its database has every migration and its pool is open,
\* unless Shutdown has waited for it in vain.
THEOREM PoolOutlivesHandlers == Spec => []HandlersHaveTheirDatabase
<1>1. LifeInv => HandlersHaveTheirDatabase
  BY DEF LifeInv
<1> QED
  BY <1>1, LifeInvariant, PTL

\* An uploader whose run was stored is told so, but for the five reasons.
THEOREM UploadersAreTold == Spec => []CommittedIsTold
<1>1. LifeInv => CommittedIsTold
  BY DEF LifeInv
<1> QED
  BY <1>1, LifeInvariant, PTL

\* With the frontend's deadlines no longer than the proxy's and the API's, a 502
\* reaches a browser only when the process is gone.
THEOREM BadGatewayTellsGone == Spec => []BadGatewayMeansGone
<1>1. LifeInv => BadGatewayMeansGone
  BY DEF LifeInv
<1> QED
  BY <1>1, LifeInvariant, PTL

\* No tick after a signal is later than the longer of the two timeouts.
THEOREM ExitInTime == Spec => []ExitIsBounded
<1>1. LifeInv => ExitIsBounded
  BY DEF LifeInv
<1> QED
  BY <1>1, LifeInvariant, PTL
=============================================================================
