----------------------------- MODULE ApiLifecycle -----------------------------
(***************************************************************************)
(* The API process from start-up to exit (cmd/api/main.go) and the fate of *)
(* the requests it has in flight: the pool they share, the deadlines they  *)
(* are under, graceful shutdown, and the proxy of the frontend server that *)
(* a dashboard's requests come through (cmd/frontend/main.go).             *)
(*                                                                         *)
(* Time passes in ticks.  A tick may come while the database works or a    *)
(* request waits for a connection; what the processes can do without       *)
(* either, they have done before the next tick.                            *)
(***************************************************************************)
EXTENDS Naturals, FiniteSets

CONSTANTS
    None,
    Requests,           \* requests, each sent once
    PoolSize,           \* connections of the pool
    RequestTimeout,     \* deadline of a request's context, in ticks
    WriteTimeout,       \* write deadline of the API's server
    ShutdownTimeout,    \* how long Shutdown waits for handlers
    ProxyTimeout,       \* timeout of the proxy's client
    FrontWriteTimeout,  \* write deadline of the frontend's server
    Migrations,         \* number of migrations
    MaxStarts,          \* bound on the starts of the process
    Faulty              \* whether statements fail and the process may crash

Callers == {"uploader", "browser"}
Answers == {"ok", "error", "401", "502", "cut"}
Reasons == {"key", "db", "closed", "deadline", "left", "late", "refused", "exit", "failed"}

\* A browser is told in vain what the proxy waited for too long.
ASSUME Deadlines ==
    /\ {PoolSize, RequestTimeout, WriteTimeout, ShutdownTimeout, ProxyTimeout,
        FrontWriteTimeout, Migrations, MaxStarts} \subseteq Nat \ {0}
    /\ FrontWriteTimeout <= WriteTimeout
    /\ FrontWriteTimeout <= ProxyTimeout
    /\ WriteTimeout <= RequestTimeout
    /\ Faulty \in BOOLEAN
    /\ None \notin Callers \cup Answers \cup Reasons

VARIABLES
    main,       \* where main is
    pool,       \* the pgx pool: none, open, closed
    schema,     \* migrations the database has
    starts,     \* how often the process was started
    since,      \* ticks since the signal, while shutting down
    stage,      \* where each request's handler is
    caller,     \* who sent the request
    age,        \* ticks since its header was read
    left,       \* its client has closed the connection
    committed,  \* its run is in the database
    told,       \* what its caller learned
    why         \* history: why its handler failed or its answer was lost

process  == <<main, pool, schema, starts, since>>
requests == <<stage, caller, age, left, committed, told, why>>
vars     == <<process, requests>>

Booting      == {"config", "pool", "migrate", "ping"}
ShuttingDown == {"draining", "closing"}
Running      == {"serving"} \cup ShuttingDown
Handling     == {"auth", "acquire_lookup", "lookup", "acquire_work", "work", "respond"}

InFlight == {r \in Requests : stage[r] \in Handling}
Holders  == {r \in Requests : stage[r] \in {"lookup", "work"}}
Uploads(S) == {r \in S : caller[r] = "uploader"}

Init ==
    /\ main = "config"
    /\ pool = "none"
    /\ schema \in 0 .. Migrations
    /\ starts = 1
    /\ since = 0
    /\ stage = [r \in Requests |-> "idle"]
    /\ caller = [r \in Requests |-> None]
    /\ age = [r \in Requests |-> 0]
    /\ left = [r \in Requests |-> FALSE]
    /\ committed = [r \in Requests |-> FALSE]
    /\ told = [r \in Requests |-> None]
    /\ why = [r \in Requests |-> None]

-----------------------------------------------------------------------------
(* Start-up. *)

\* config.Load and Validate.
LoadConfig ==
    /\ main = "config"
    /\ main' = "pool"
    /\ UNCHANGED <<pool, schema, starts, since, requests>>

\* pgxpool.New: connects when a connection is first needed.
OpenPool ==
    /\ main = "pool"
    /\ main' = "migrate"
    /\ pool' = "open"
    /\ UNCHANGED <<schema, starts, since, requests>>

\* goose.Up: one transaction per migration that the database does not have.
Migrate ==
    /\ main = "migrate"
    /\ IF schema < Migrations
       THEN schema' = schema + 1 /\ UNCHANGED main
       ELSE main' = "ping" /\ UNCHANGED schema
    /\ UNCHANGED <<pool, starts, since, requests>>

Ping ==
    /\ main = "ping"
    /\ main' = "serving"
    /\ UNCHANGED <<pool, schema, starts, since, requests>>

\* Any of it fails: a pool that was opened is closed, and the process exits.
BootFails ==
    /\ main \in Booting
    /\ main' = "failed"
    /\ pool' = IF pool = "open" THEN "closed" ELSE pool
    /\ UNCHANGED <<schema, starts, since, requests>>

-----------------------------------------------------------------------------
(* A request. *)

Goto(r, next) == stage' = [stage EXCEPT ![r] = next]

\* Mutant: the frontend's server has no write deadline.
DeliveredAlways(r, answer) == answer

\* What reaches the browser of what the frontend's handler writes.
Delivered(r, answer) == IF age[r] >= FrontWriteTimeout THEN "cut" ELSE answer

\* What a caller learns when the API answers nothing: its connection is cut, and
\* the proxy makes a 502 of that.
Unanswered(r) ==
    IF caller[r] = "uploader" THEN "cut" ELSE Delivered(r, "502")

\* A request with its header read.  A connection that was kept alive may send one
\* more in the moment of the signal.
Arrive(r, who) ==
    /\ stage[r] = "idle"
    /\ main = "serving" \/ (main = "draining" /\ since = 0)
    /\ caller' = [caller EXCEPT ![r] = who]
    /\ Goto(r, "auth")
    /\ UNCHANGED <<process, age, left, committed, told, why>>

\* Nobody listens: the connection is refused.
Refused(r, who) ==
    /\ stage[r] = "idle"
    /\ main # "serving"
    /\ caller' = [caller EXCEPT ![r] = who]
    /\ told' = [told EXCEPT ![r] = IF who = "uploader" THEN "cut" ELSE "502"]
    /\ why' = [why EXCEPT ![r] = "refused"]
    /\ Goto(r, "done")
    /\ UNCHANGED <<process, age, left, committed>>

\* APIKeyMiddleware: the key is the configured secret, or there is a 401.
Authenticate(r) ==
    /\ stage[r] = "auth"
    /\ \/ Goto(r, "acquire_lookup") /\ UNCHANGED why
       \/ Goto(r, "respond") /\ why' = [why EXCEPT ![r] = "key"]
    /\ UNCHANGED <<process, caller, age, left, committed, told>>

\* Mutant: the router has no timeout middleware.
ClientGone(r) == left[r]

\* The context is cancelled by middleware.Timeout and by a client that is gone.
ContextDead(r) == left[r] \/ age[r] >= RequestTimeout

CanAcquire(r) ==
    /\ stage[r] \in {"acquire_lookup", "acquire_work"}
    /\ ~ContextDead(r)
    /\ pool = "open"
    /\ Cardinality(Holders) < PoolSize

\* A connection for the statements outside a transaction, then one for it.
Acquire(r) ==
    /\ CanAcquire(r)
    /\ Goto(r, IF stage[r] = "acquire_lookup" THEN "lookup" ELSE "work")
    /\ UNCHANGED <<process, caller, age, left, committed, told, why>>

\* A closed pool refuses.
AcquireFails(r) ==
    /\ stage[r] \in {"acquire_lookup", "acquire_work"}
    /\ pool = "closed"
    /\ Goto(r, "respond")
    /\ why' = [why EXCEPT ![r] = "closed"]
    /\ UNCHANGED <<process, caller, age, left, committed, told>>

Lookup(r) ==
    /\ stage[r] = "lookup"
    /\ Goto(r, "acquire_work")
    /\ UNCHANGED <<process, caller, age, left, committed, told, why>>

\* The transaction of an upload, the last statement of a read.
Work(r) ==
    /\ stage[r] = "work"
    /\ Goto(r, "respond")
    /\ committed' = [committed EXCEPT ![r] = caller[r] = "uploader"]
    /\ UNCHANGED <<process, caller, age, left, told, why>>

\* A statement ends in an error, for the given reason.  If it was COMMIT, the
\* run may be stored all the same.
StatementEnds(r, reason) ==
    /\ Goto(r, "respond")
    /\ why' = [why EXCEPT ![r] = reason]
    /\ \/ UNCHANGED committed
       \/ /\ stage[r] = "work"
          /\ caller[r] = "uploader"
          /\ committed' = [committed EXCEPT ![r] = TRUE]
    /\ UNCHANGED <<process, caller, age, left, told>>

StatementFails(r) ==
    /\ Faulty
    /\ r \in Holders
    /\ StatementEnds(r, "db")

\* The context ends a statement, or the wait for a connection.
Expire(r) ==
    /\ stage[r] \in {"acquire_lookup", "lookup", "acquire_work", "work"}
    /\ ContextDead(r)
    /\ StatementEnds(r, IF left[r] THEN "left" ELSE "deadline")

Reply(r) ==
    CASE why[r] = None -> "ok"
      [] why[r] = "key" -> "401"
      [] OTHER -> "error"

\* The handler writes its answer.  Past the write deadline nothing of it arrives,
\* nor of the 504 the timeout middleware would send.
Respond(r) ==
    /\ stage[r] = "respond"
    /\ Goto(r, "done")
    /\ IF left[r]
       THEN /\ told' = [told EXCEPT ![r] = IF told[r] = None THEN "cut" ELSE told[r]]
            /\ UNCHANGED why
       ELSE IF age[r] >= WriteTimeout
       THEN /\ told' = [told EXCEPT ![r] = Unanswered(r)]
            /\ why' = [why EXCEPT ![r] = "late"]
       ELSE /\ told' = [told EXCEPT ![r] = IF caller[r] = "uploader" THEN Reply(r)
                                           ELSE Delivered(r, Reply(r))]
            /\ UNCHANGED why
    /\ UNCHANGED <<process, caller, age, left, committed>>

\* An uploader is interrupted, or a browser closes its page.
Leave(r) ==
    /\ r \in InFlight
    /\ ~left[r]
    /\ left' = [left EXCEPT ![r] = TRUE]
    /\ UNCHANGED <<process, stage, caller, age, committed, told, why>>

ProxyTimesOut(r) ==
    r \in InFlight /\ caller[r] = "browser" /\ ~left[r] /\ age[r] >= ProxyTimeout

\* client.Timeout: 502, and the request to the API is given up.
ProxyGivesUp(r) ==
    /\ ProxyTimesOut(r)
    /\ left' = [left EXCEPT ![r] = TRUE]
    /\ told' = [told EXCEPT ![r] = Delivered(r, "502")]
    /\ why' = [why EXCEPT ![r] = "late"]
    /\ UNCHANGED <<process, stage, caller, age, committed>>

-----------------------------------------------------------------------------
(* Shutdown. *)

\* Mutant: the pool is closed first.
SignalClosesPool ==
    /\ main = "serving"
    /\ main' = "draining"
    /\ pool' = "closed"
    /\ UNCHANGED <<schema, starts, since, requests>>

\* SIGINT or SIGTERM: Shutdown closes the listener and idle connections.
Signal ==
    /\ main = "serving"
    /\ main' = "draining"
    /\ UNCHANGED <<pool, schema, starts, since, requests>>

\* Mutant: Close instead of Shutdown.
DrainedAtOnce == TRUE

Drained == InFlight = {}

\* Shutdown returns when no handler is left or its context is done; either way
\* main goes on to its deferred app.Close.
ShutdownReturns ==
    /\ main = "draining"
    /\ Drained \/ since >= ShutdownTimeout
    /\ main' = "closing"
    /\ pool' = "closed"
    /\ UNCHANGED <<schema, starts, since, requests>>

\* The process is gone, and what was in flight with it.
EndsWith(final, reason) ==
    /\ main' = final
    /\ stage' = [r \in Requests |-> IF r \in InFlight THEN "lost" ELSE stage[r]]
    /\ told' = [r \in Requests |->
          IF r \notin InFlight \/ told[r] # None THEN told[r]
          ELSE IF left[r] THEN "cut" ELSE Unanswered(r)]
    /\ why' = [r \in Requests |-> IF r \in InFlight /\ ~left[r] THEN reason ELSE why[r]]
    /\ UNCHANGED <<schema, starts, caller, age, left>>

\* pool.Close returns when every connection is back; main returns.
Exit ==
    /\ main = "closing"
    /\ Holders = {}
    /\ EndsWith("exited", "exit")
    /\ since' = 0
    /\ UNCHANGED <<pool, committed>>

\* ListenAndServe fails: os.Exit runs no deferred call.  A crash does the same
\* at any time.  A COMMIT that was sent may have its effect.
Dies ==
    /\ main = "serving" \/ (Faulty /\ main \in Running)
    /\ EndsWith("failed", "failed")
    /\ pool' = "none"
    /\ since' = 0
    /\ \E late \in SUBSET Uploads({r \in Requests : stage[r] = "work"}) :
          committed' = [r \in Requests |-> committed[r] \/ r \in late]

\* The operator starts it again.
Restart ==
    /\ main \in {"exited", "failed"}
    /\ starts < MaxStarts
    /\ main' = "config"
    /\ pool' = "none"
    /\ starts' = starts + 1
    /\ UNCHANGED <<schema, since, requests>>

-----------------------------------------------------------------------------
(* Time. *)

Longest == IF RequestTimeout >= ShutdownTimeout THEN RequestTimeout ELSE ShutdownTimeout

\* What is done before the next tick.
Pending ==
    \/ \E r \in Requests :
        \/ stage[r] \in {"auth", "respond"}
        \/ stage[r] \in Handling /\ ContextDead(r)
        \/ stage[r] \in {"acquire_lookup", "acquire_work"} /\ pool = "closed"
        \/ CanAcquire(r)
        \/ ProxyTimesOut(r)
    \/ main = "draining" /\ (Drained \/ since >= ShutdownTimeout)
    \/ main = "closing" /\ Holders = {}

\* Counters stop where nothing depends on them any more.
Tick ==
    /\ ~Pending
    /\ InFlight # {} \/ main \in ShuttingDown
    /\ since' = IF main \in ShuttingDown /\ since <= Longest THEN since + 1 ELSE since
    /\ age' = [r \in Requests |->
          IF r \in InFlight /\ age[r] < RequestTimeout THEN age[r] + 1 ELSE age[r]]
    /\ UNCHANGED <<main, pool, schema, starts, stage, caller, left, committed, told, why>>

Terminating ==
    /\ main \in {"exited", "failed"}
    /\ starts = MaxStarts
    /\ \A r \in Requests : stage[r] \in {"done", "lost"}
    /\ UNCHANGED vars

Boot == LoadConfig \/ OpenPool \/ Migrate \/ Ping \/ BootFails

\* Steps no one outside the process has to answer for.
Handle(r) ==
    Authenticate(r) \/ Acquire(r) \/ AcquireFails(r) \/ Expire(r) \/ Respond(r)
        \/ ProxyGivesUp(r)

Next ==
    \/ Boot
    \/ \E r \in Requests :
        \/ \E who \in Callers : Arrive(r, who) \/ Refused(r, who)
        \/ Handle(r)
        \/ Lookup(r)
        \/ Work(r)
        \/ StatementFails(r)
        \/ Leave(r)
    \/ Signal
    \/ ShutdownReturns
    \/ Exit
    \/ Dies
    \/ Restart
    \/ Tick
    \/ Terminating

Spec == Init /\ [][Next]_vars

\* The runtime runs handlers and main, and time passes; the database need not
\* answer, and no client need come or go.
FairSpec ==
    /\ Spec
    /\ \A r \in Requests : WF_vars(Handle(r))
    /\ WF_vars(ShutdownReturns)
    /\ WF_vars(Exit)
    /\ WF_vars(Tick)

-----------------------------------------------------------------------------
(* Properties. *)

\* Variables have values of their types; only shutting down is timed.
TypeOK ==
    /\ main \in Booting \cup Running \cup {"exited", "failed"}
    /\ pool \in {"none", "open", "closed"}
    /\ schema \in 0 .. Migrations
    /\ starts \in 1 .. MaxStarts
    /\ since \in Nat
    /\ main \notin ShuttingDown => since = 0
    /\ stage \in [Requests -> Handling \cup {"idle", "done", "lost"}]
    /\ caller \in [Requests -> Callers \cup {None}]
    /\ age \in [Requests -> 0 .. RequestTimeout]
    /\ left \in [Requests -> BOOLEAN]
    /\ committed \in [Requests -> BOOLEAN]
    /\ told \in [Requests -> Answers \cup {None}]
    /\ why \in [Requests -> Reasons \cup {None}]

\* While a handler runs, in whichever start of the process, the database has
\* every migration and the pool is open, unless the request is one that Shutdown
\* waited for in vain: the pool outlives the handlers.
HandlersHaveTheirDatabase ==
    \A r \in InFlight :
        /\ main \in Running
        /\ schema = Migrations
        /\ pool = "open" \/ (main = "closing" /\ age[r] >= ShutdownTimeout)

\* An uploader whose run was stored is told so, unless it left, the database
\* failed at COMMIT, the process died, or the answer took longer than one of the
\* deadlines: a shutdown cuts off nothing it could have waited for.
CommittedIsTold ==
    \A r \in Requests :
        /\ committed[r]
        /\ stage[r] \in {"done", "lost"}
        /\ told[r] # "ok"
        => \/ left[r]
           \/ why[r] \in {"db", "failed"}
           \/ why[r] = "late" /\ age[r] >= WriteTimeout
           \/ why[r] = "exit" /\ age[r] >= ShutdownTimeout

\* A 502 tells a browser that the API process is gone, never that it is slow:
\* whatever the proxy waits for too long to get, it can no longer pass on.
BadGatewayMeansGone ==
    \A r \in Requests : told[r] = "502" => why[r] \in {"refused", "exit", "failed"}

\* The process is gone within the longer of the two timeouts of a signal: no
\* handler keeps the pool from closing beyond its request's deadline, even when
\* the database does not answer.
ExitIsBounded == since <= Longest

-----------------------------------------------------------------------------
(* What the properties rest on: the inductive invariant of the proofs.     *)

\* main has the pool and the schema that its place in the program stands for.
ProcessReady ==
    /\ main \in {"migrate", "ping", "serving", "draining"} => pool = "open"
    /\ main = "closing" => pool = "closed"
    /\ main \in {"ping"} \cup Running => schema = Migrations
    /\ InFlight # {} => main \in Running

\* What is still in flight was there when the signal came, or came with it.
OlderThanSignal == main \in ShuttingDown => \A r \in InFlight : age[r] >= since

\* A run is committed at the end of its upload, and the handler knows why it is
\* not to be told so.
HandlerKnows ==
    \A r \in Requests :
        /\ committed[r] => caller[r] = "uploader" /\ stage[r] \in {"respond", "done", "lost"}
        /\ stage[r] \in ({"idle"} \cup Handling) \ {"respond"} => why[r] = None \/ left[r]
        /\ committed[r] /\ stage[r] = "respond" =>
              \/ left[r]
              \/ why[r] \in {None, "db"}
              \/ why[r] = "deadline" /\ age[r] >= WriteTimeout

\* Before its handler ends, a request learns at most that nobody will answer.
UntoldInFlight ==
    \A r \in Requests : stage[r] \in {"idle"} \cup Handling => told[r] \in {None, "cut"}

LifeInv ==
    /\ TypeOK
    /\ ProcessReady
    /\ OlderThanSignal
    /\ HandlerKnows
    /\ UntoldInFlight
    /\ HandlersHaveTheirDatabase
    /\ CommittedIsTold
    /\ BadGatewayMeansGone
    /\ ExitIsBounded

-----------------------------------------------------------------------------
(* Liveness. *)

\* After a signal the process ends.
ShutdownEnds == main = "draining" ~> main \in {"exited", "failed"}
=============================================================================
