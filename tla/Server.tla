------------------------------- MODULE Server -------------------------------
(***************************************************************************)
(* One process of the server around RateLimiter: it starts, serves, is     *)
(* told to stop, drains its requests and closes what it uses; or it is     *)
(* killed on the way and started again.  What the limiter remembers is in  *)
(* Redis and outlives the process.                                         *)
(*                                                                         *)
(* Three goroutines run beside the request handlers: main, the cleanup job *)
(* and, for a moment, the one that deletes an OTP whose mail failed.  Main *)
(* waits for the first two kinds before it closes the pool, never for the  *)
(* last.  Timeouts are not measured: a timer fires at some time.           *)
(***************************************************************************)
EXTENDS RateLimiter

VARIABLES
    main,   \* "down", or how far main has come
    open,   \* which of "redis" and "pool" can be used
    busy,   \* requests past the limiter, in their handlers
    job,    \* the cleanup job: "off", "pass" (in runCleanup) or "sleep"
    stray   \* the goroutine cleanupFailedOTP: "none", "pending" or "working"

processVars == <<main, open, busy, job, stray>>
serverVars  == <<vars, processVars>>

Backends == {"redis", "pool"}

\* The context of the cleanup job is cancelled once the requests are drained.
Cancelled == main \notin {"up", "drain"}

ServerInit ==
    /\ Init
    /\ main  = "down"
    /\ open  = {}
    /\ busy  = {}
    /\ job   = "off"
    /\ stray = "none"

\* The process is gone, with all its goroutines and connections.  A script that
\* it has sent and that still runs was lost before (Lose).
Gone ==
    /\ main'  = "down"
    /\ open'  = {}
    /\ busy'  = {}
    /\ job'   = "off"
    /\ stray' = "none"
    /\ member' = [c \in Caller |-> None]
    /\ UNCHANGED <<now, adrift, log, expireAt, counted>>

----------------------------------------------------------------------------
(* main.                                                                   *)

\* The database is connected, Redis has answered a ping, the cleanup job is
\* started and the port is open.  A process that fails on the way exits.
Boot ==
    /\ main = "down"
    /\ main' = "up"
    /\ open' = Backends
    /\ job'  = "pass"
    /\ UNCHANGED <<vars, busy, stray>>

\* SIGINT, SIGTERM or a listen error: Shutdown stops taking requests.
Stop ==
    /\ main = "up"
    /\ main' = "drain"
    /\ UNCHANGED <<vars, open, busy, job, stray>>

\* Shutdown returns when no request is left; processCancel.
Drained ==
    /\ main = "drain"
    /\ busy = {} /\ \A c \in Caller : ~Waiting(c)
    /\ main' = "cancel"
    /\ UNCHANGED <<vars, open, busy, job, stray>>

\* fault: Shutdown without a deadline
NoDeadline == main = "drain" /\ busy = {} /\ Gone

\* Shutdown gives up after ten seconds: os.Exit(1) with everything left open.
DrainTimeout == main = "drain" /\ Gone

\* fault: the job is told to stop, but not waited for
CloseRedisEarly ==
    /\ main = "cancel"
    /\ main' = "close"
    /\ open' = open \ {"redis"}
    /\ UNCHANGED <<vars, busy, job, stray>>

\* stopCleanup returns when the job has; the limiters are stopped, which does
\* nothing, and the Redis client is closed.
CloseRedis ==
    /\ main = "cancel" /\ job = "off"
    /\ main' = "close"
    /\ open' = open \ {"redis"}
    /\ UNCHANGED <<vars, busy, job, stray>>

\* pool.Close gives no connection any more ...
ClosePool ==
    /\ main = "close"
    /\ main' = "wait"
    /\ open' = open \ {"pool"}
    /\ UNCHANGED <<vars, busy, job, stray>>

\* ... and waits for those it has given.
PoolClosed == main = "wait" /\ stray # "working" /\ Gone

Main == Drained \/ DrainTimeout \/ CloseRedis \/ ClosePool \/ PoolClosed

\* The process is killed, or panics outside a request.
Crash == main # "down" /\ Gone

----------------------------------------------------------------------------
(* Requests.                                                               *)

\* A request comes in, and its middleware asks the limiter.
Receive(c) ==
    /\ main = "up" /\ c \notin busy
    /\ Call(c)
    /\ UNCHANGED processVars

\* The limiter lets it through to its handler, or it is answered with 429.
Limited(c) ==
    /\ \/ (Admit(c) \/ FailOpen(c)) /\ busy' = busy \cup {c}
       \/ Refuse(c) /\ UNCHANGED busy
    /\ UNCHANGED <<main, open, job, stray>>

\* Something goes wrong between the limiter and Redis.
Redis ==
    /\ \/ \E c \in Caller : Lose(c)
       \/ \E m \in adrift : Late(m)
    /\ UNCHANGED processVars

\* Its handler returns or panics, and Recoverer has the last word.  If the mail
\* of an OTP failed, a goroutine is left behind.
Respond(c) ==
    /\ c \in busy
    /\ busy' = busy \ {c}
    /\ stray' \in {stray} \cup (IF stray = "none" THEN {"pending"} ELSE {})
    /\ UNCHANGED <<vars, main, open, job>>

----------------------------------------------------------------------------
(* The other goroutines.                                                   *)

\* The ticker fires; runCleanup looks at the context first.
Pass ==
    /\ job = "sleep" /\ ~Cancelled
    /\ job' = "pass"
    /\ UNCHANGED <<vars, main, open, busy, stray>>

\* A pass ends: a cancelled context fails what is left of its statements.
PassEnds ==
    /\ job = "pass"
    /\ job' = "sleep"
    /\ UNCHANGED <<vars, main, open, busy, stray>>

\* ctx.Done
JobExits ==
    /\ job = "sleep" /\ Cancelled
    /\ job' = "off"
    /\ UNCHANGED <<vars, main, open, busy, stray>>

\* cleanupFailedOTP gets a connection; from a closed pool it gets none, and the
\* OTP stays until it expires.
StrayBegins ==
    /\ stray = "pending"
    /\ stray' = IF "pool" \in open THEN "working" ELSE "none"
    /\ UNCHANGED <<vars, main, open, busy, job>>

\* It commits, fails, or has had its five seconds.
StrayEnds ==
    /\ stray = "working"
    /\ stray' = "none"
    /\ UNCHANGED <<vars, main, open, busy, job>>

ServerNext ==
    \/ Boot \/ Stop \/ Main \/ Crash
    \/ \E c \in Caller : Receive(c) \/ Limited(c) \/ Respond(c)
    \/ Redis
    \/ Pass \/ PassEnds \/ JobExits
    \/ StrayBegins \/ StrayEnds
    \/ Tick /\ UNCHANGED processVars

ServerSpec == ServerInit /\ [][ServerNext]_serverVars

\* The scheduler lets every goroutine run, and every timeout passes in the end.
\* Handlers need not return.
FairServerSpec ==
    /\ ServerSpec
    /\ WF_serverVars(Main)
    /\ WF_serverVars(PassEnds \/ JobExits)
    /\ WF_serverVars(StrayEnds)

----------------------------------------------------------------------------

\* Besides the types: main closes one thing after the other, and a process that
\* has gone leaves nothing running.
ServerTypeOK ==
    /\ TypeOK
    /\ main  \in {"down", "up", "drain", "cancel", "close", "wait"}
    /\ open  = CASE main \in {"up", "drain", "cancel"} -> Backends
                 [] main = "close" -> {"pool"}
                 [] OTHER -> {}
    /\ busy  \subseteq Caller
    /\ \A c \in busy : ~Waiting(c)
    /\ job   \in {"off", "pass", "sleep"}
    /\ stray \in {"none", "pending", "working"}
    /\ main = "down" => job = "off" /\ stray = "none"

\* A shutdown pulls nothing away from under work that is going on: no request
\* meets a closed Redis, where the limiter would let it through uncounted, or a
\* closed pool, and neither does a pass of the cleanup job.
NothingRunsOnClosed ==
    /\ \A c \in Caller : Waiting(c) \/ c \in busy => open = Backends
    /\ job = "pass" => "pool" \in open

\* No request is answered with 429 unless Limit others were counted less than a
\* window before the time its instance read, or Limit - 1 if an attempt of its
\* own has already added it to the log: then the script counts the request itself.
RefusedOnlyWhenFull ==
    [][\A c \in Caller :
         (Waiting(c) /\ ~Waiting(c)' /\ c \notin busy' /\ main' # "down")
            => Cardinality(Between(member[c].score - Window, now) \ {member[c]})
                 >= IF member[c] \in log THEN Limit - 1 ELSE Limit]_serverVars

\* A process that is told to stop comes to an end, although handlers need not
\* return, a pass may be going on and a goroutine may still use the pool.
ShutdownEnds == main = "drain" ~> main = "down"

=============================================================================
