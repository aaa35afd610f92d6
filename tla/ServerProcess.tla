--------------------------- MODULE ServerProcess ---------------------------
(***************************************************************************)
(* One server process from main's first statement to its exit: start-up,   *)
(* the readiness flag, guest sessions behind their rate limit, and the     *)
(* shutdown that a signal begins.                                          *)
(*                                                                         *)
(* main, the goroutine of ListenAndServe and the handlers interleave       *)
(* freely.  net/http and the Go runtime are external and modelled by what  *)
(* the code relies on: Shutdown closes the listener, lets the requests in  *)
(* progress finish, takes no second request from a connection, and returns *)
(* when no connection is left; exit ends every goroutine at once; a signal *)
(* that nobody has asked for kills the process.                            *)
(***************************************************************************)
EXTENDS Integers, FiniteSets

CONSTANTS
  Environment,  \* WEBMCP_ENV: "production" or "staging"; "development" or "test"
  Connections,  \* connections open at the same time
  Clients,      \* client IPs
  Limit,        \* guest sessions per client and window: 12
  Window,       \* length of the window: one hour
  MaxDelay,     \* longest time between time.Now() and the mutex
  MaxClock      \* bound: the clock stops there

ASSUME LimiterAssumption ==
  /\ Clients # {} /\ Limit \in Nat \ {0} /\ Window \in Nat /\ MaxDelay \in Nat
  /\ MaxDelay < Window /\ MaxClock \in Nat

VARIABLES
  config,     \* what config.Load returned
  main,       \* the statement main is at
  pool,       \* the database pool: none, open or closed
  ready,      \* Server.ready
  listener,   \* off, open, failed (serverErr holds the error) or closed
  signal,     \* SIGTERM or an interrupt was sent
  exit,       \* none, or how the process ended
  requests,   \* requests[c] = the connection and the request on it
  guest_issues, \* Server.guestIssues: the issues a client's slice still holds
  admitted,   \* history: every issue ever admitted
  clock

vars == <<config, main, pool, ready, listener, signal, exit, requests, guest_issues, admitted, clock>>

-----------------------------------------------------------------------------
(* Configurations: what decides how main wires the server.                 *)

Config == [database : BOOLEAN, auth : BOOLEAN, guest : BOOLEAN]

(* Config.Validate: production and staging need a database and someone to  *)
(* authenticate.                                                           *)
Valid(c) == Environment \in {"production", "staging"} => c.database /\ (c.auth \/ c.guest)

(* Everything SetReady asks for hangs on the database, except the          *)
(* authenticator.                                                          *)
Wired(c) == c.database /\ (c.auth \/ c.guest)

Statements == {"config", "pool", "serve", "listen", "select", "stopping", "draining", "end"}
Steps == {"free", "fresh", "begun", "stamped", "checking", "pinging", "answered", "idle"}

Kinds == {"guest", "ready"}
Statuses == {0, 200, 404, 429, 503} \* 0: not answered yet

(* late: the check arrived when shutdown had begun (history).              *)
Request == [step : Steps, kind : Kinds, client : Clients,
            now : 0..MaxClock, status : Statuses, late : BOOLEAN]

(* Nothing depends on the order of the slice, it is filtered and counted:  *)
(* a set, with a number that tells the issues of one instant apart.        *)
Issue == [at : 0..MaxClock, number : Nat \ {0}]

TypeOK ==
  /\ config \in Config
  /\ main \in Statements
  /\ pool \in {"none", "open", "closed"}
  /\ ready \in BOOLEAN
  /\ listener \in {"off", "open", "failed", "closed"}
  /\ signal \in BOOLEAN
  /\ exit \in {"none", "clean", "error", "killed"}
  /\ requests \in [Connections -> Request]
  /\ guest_issues \in [Clients -> SUBSET Issue]
  /\ admitted \in [Clients -> SUBSET Issue]
  /\ \A ip \in Clients : /\ IsFiniteSet(guest_issues[ip]) /\ IsFiniteSet(admitted[ip])
                         /\ Cardinality(guest_issues[ip]) <= Limit
  /\ clock \in 0..MaxClock

Free(ip) == [step |-> "free", kind |-> "ready", client |-> ip, now |-> 0, status |-> 0, late |-> FALSE]

Init ==
  /\ config \in {c \in Config : Valid(c)}
  /\ main = "config" /\ pool = "none" /\ ready = FALSE /\ listener = "off"
  /\ signal = FALSE /\ exit = "none"
  /\ requests = [c \in Connections |-> Free(CHOOSE ip \in Clients : TRUE)]
  /\ guest_issues = [ip \in Clients |-> {}]
  /\ admitted = [ip \in Clients |-> {}]
  /\ clock = 0

Running == exit = "none"
Limits == <<guest_issues, admitted, clock>>
Process == <<config, main, pool, ready, listener, signal, exit>>

-----------------------------------------------------------------------------
(* main.                                                                   *)

(* Load and the authenticators; a configuration they refuse ends it here.  *)
LoadConfig ==
  /\ Running /\ main = "config"
  /\ \/ main' = (IF config.database THEN "pool" ELSE "serve") /\ exit' = exit
     \/ main' = "end" /\ exit' = "error"
  /\ UNCHANGED <<config, pool, ready, listener, signal, requests, Limits>>

(* postgres.Open pings the database before it returns the pool.            *)
OpenPool ==
  /\ Running /\ main = "pool"
  /\ \/ main' = "serve" /\ pool' = "open" /\ exit' = exit
     \/ main' = "end" /\ pool' = pool /\ exit' = "error"
  /\ UNCHANGED <<config, ready, listener, signal, requests, Limits>>

(* NewServerWithDependencies and SetReady, then the listening goroutine.   *)
StartServing ==
  /\ Running /\ main = "serve"
  /\ ready' = Wired(config)
  /\ main' = "listen"
  /\ UNCHANGED <<config, pool, listener, signal, exit, requests, Limits>>

(* From here on a signal is a value in a channel.                          *)
NotifyContext ==
  /\ Running /\ main = "listen"
  /\ main' = "select"
  /\ UNCHANGED <<config, pool, ready, listener, signal, exit, requests, Limits>>

SelectServerError ==
  /\ Running /\ main = "select" /\ listener = "failed"
  /\ main' = "end" /\ exit' = "error"
  /\ UNCHANGED <<config, pool, ready, listener, signal, requests, Limits>>

(* Mutant: Shutdown forgets the flag.                                      *)
SelectSignalMutant ==
  /\ Running /\ main = "select" /\ signal
  /\ main' = "stopping"
  /\ UNCHANGED <<config, pool, ready, listener, signal, exit, requests, Limits>>

(* The first statement of Server.Shutdown.                                 *)
SelectSignal ==
  /\ Running /\ main = "select" /\ signal
  /\ ready' = FALSE
  /\ main' = "stopping"
  /\ UNCHANGED <<config, pool, listener, signal, exit, requests, Limits>>

(* The second: http.Server.Shutdown takes over.                            *)
CloseListener ==
  /\ Running /\ main = "stopping"
  /\ listener' = (IF listener = "failed" THEN "failed" ELSE "closed")
  /\ main' = "draining"
  /\ UNCHANGED <<config, pool, ready, signal, exit, requests, Limits>>

(* Mutant: http.Server.Close in the place of Shutdown.                     *)
DrainedMutant ==
  /\ Running /\ main = "draining"
  /\ pool' = (IF pool = "open" THEN "closed" ELSE pool)
  /\ main' = "end" /\ exit' = "clean"
  /\ UNCHANGED <<config, ready, listener, signal, requests, Limits>>

(* It returns nil, and main's deferred calls close the pool.               *)
Drained ==
  /\ Running /\ main = "draining"
  /\ \A c \in Connections : requests[c].step = "free"
  /\ pool' = (IF pool = "open" THEN "closed" ELSE pool)
  /\ main' = "end" /\ exit' = "clean"
  /\ UNCHANGED <<config, ready, listener, signal, requests, Limits>>

(* Mutant: Shutdown is given a context without a timeout.                  *)
ShutdownTimeoutMutant == FALSE /\ UNCHANGED vars

(* ShutdownTimeout: the pool is left to the exit.                          *)
ShutdownTimeout ==
  /\ Running /\ main = "draining"
  /\ main' = "end" /\ exit' = "error"
  /\ UNCHANGED <<config, pool, ready, listener, signal, requests, Limits>>

MainStep ==
  \/ LoadConfig \/ OpenPool \/ StartServing \/ NotifyContext
  \/ SelectServerError \/ SelectSignal \/ CloseListener \/ Drained \/ ShutdownTimeout

(* The goroutine: the port is taken, or accepting fails later on.          *)
Listen ==
  /\ Running /\ main \in {"listen", "select", "stopping"} /\ listener = "off"
  /\ listener' \in {"open", "failed"}
  /\ UNCHANGED <<config, main, pool, ready, signal, exit, requests, Limits>>

ListenerFails ==
  /\ Running /\ listener = "open"
  /\ listener' = "failed"
  /\ UNCHANGED <<config, main, pool, ready, signal, exit, requests, Limits>>

Signal ==
  /\ Running /\ ~signal
  /\ signal' = TRUE
  /\ exit' = IF main \in {"select", "stopping", "draining"} THEN exit ELSE "killed"
  /\ UNCHANGED <<config, main, pool, ready, listener, requests, Limits>>

-----------------------------------------------------------------------------
(* Connections and handlers.                                               *)

At(c, step) == Running /\ requests[c].step = step
SetRequest(c, fields) == requests' = [requests EXCEPT ![c] = fields]
Answer(c, status) == SetRequest(c, [requests[c] EXCEPT !.step = "answered", !.status = status])

Connect(c) ==
  /\ At(c, "free") /\ listener = "open"
  /\ SetRequest(c, [requests[c] EXCEPT !.step = "fresh"])
  /\ UNCHANGED <<Process, Limits>>

(* The first request of a connection is served even while draining, a      *)
(* later one is not.                                                       *)
Begin(c, kind, ip) ==
  /\ At(c, "fresh") \/ (At(c, "idle") /\ main # "draining")
  /\ SetRequest(c, [Free(ip) EXCEPT !.step = "begun", !.kind = kind,
                                    !.late = kind = "ready" /\ main \in {"stopping", "draining"}])
  /\ UNCHANGED <<Process, Limits>>

(* readyCheck up to the dependencies.                                      *)
LoadReady(c) ==
  /\ At(c, "begun") /\ requests[c].kind = "ready"
  /\ IF ~ready THEN Answer(c, 503)
     ELSE SetRequest(c, [requests[c] EXCEPT !.step = "pinging"])
  /\ UNCHANGED <<Process, Limits>>

(* The dependency answers or not, within readinessTimeout.                 *)
CheckReadiness(c) ==
  /\ At(c, "pinging")
  /\ Answer(c, 200) \/ Answer(c, 503)
  /\ UNCHANGED <<Process, Limits>>

(* guestSession; allowGuestIssue looks at the clock before it locks.       *)
TakeTime(c) ==
  /\ At(c, "begun") /\ requests[c].kind = "guest"
  /\ IF config.guest
     THEN SetRequest(c, [requests[c] EXCEPT !.step = "stamped", !.now = clock])
     ELSE Answer(c, 404)
  /\ UNCHANGED <<Process, Limits>>

(* Mutant: the minute of the chat limit as the cutoff.                     *)
RecentMutant(ip, now) == {i \in guest_issues[ip] : i.at > now - 1}

Recent(ip, now) == {i \in guest_issues[ip] : i.at > now - Window}

NewIssue(ip, now) ==
  [at |-> now, number |-> Cardinality({i \in admitted[ip] : i.at = now}) + 1]

(* Mutant: the time is appended before the length is looked at.            *)
AllowGuestIssueMutant(c) ==
  /\ At(c, "stamped")
  /\ LET ip == requests[c].client
         now == requests[c].now
         full == Cardinality(Recent(ip, now)) >= Limit
         new == {NewIssue(ip, now)}
     IN  /\ guest_issues' = [guest_issues EXCEPT ![ip] = Recent(ip, now) \cup new]
         /\ admitted' = IF full THEN admitted ELSE [admitted EXCEPT ![ip] = @ \cup new]
         /\ IF full THEN Answer(c, 429)
            ELSE SetRequest(c, [requests[c] EXCEPT !.step = "checking", !.now = 0])
  /\ UNCHANGED <<Process, clock>>

(* The rest of allowGuestIssue, under the mutex.                           *)
AllowGuestIssue(c) ==
  /\ At(c, "stamped")
  /\ LET ip == requests[c].client
         now == requests[c].now
         full == Cardinality(Recent(ip, now)) >= Limit
         new == IF full THEN {} ELSE {NewIssue(ip, now)}
     IN  /\ guest_issues' = [guest_issues EXCEPT ![ip] = Recent(ip, now) \cup new]
         /\ admitted' = [admitted EXCEPT ![ip] = @ \cup new]
         /\ IF full THEN Answer(c, 429)
            ELSE SetRequest(c, [requests[c] EXCEPT !.step = "checking", !.now = 0])
  /\ UNCHANGED <<Process, clock>>

(* The token, or an error: of the readiness of the dependencies, if there  *)
(* are any, or of IssueGuestToken, which may fail without them.            *)
IssueGuestSession(c) ==
  /\ At(c, "checking")
  /\ Answer(c, 200) \/ Answer(c, 503)
  /\ UNCHANGED <<Process, Limits>>

(* The response is written; the server keeps the connection unless it      *)
(* drains.                                                                 *)
Respond(c) ==
  /\ At(c, "answered")
  /\ SetRequest(c, [Free(requests[c].client) EXCEPT !.step = IF main = "draining" THEN "free" ELSE "idle"])
  /\ UNCHANGED <<Process, Limits>>

(* The client, IdleTimeout, or Shutdown closes a connection at rest.       *)
Disconnect(c) ==
  /\ At(c, "idle") \/ At(c, "fresh")
  /\ SetRequest(c, Free(requests[c].client))
  /\ UNCHANGED <<Process, Limits>>

Handle(c) ==
  \/ LoadReady(c) \/ CheckReadiness(c) \/ TakeTime(c) \/ AllowGuestIssue(c)
  \/ IssueGuestSession(c) \/ Respond(c)

Tick ==
  /\ Running /\ clock < MaxClock
  /\ \A c \in Connections : requests[c].step = "stamped" => clock - requests[c].now < MaxDelay
  /\ clock' = clock + 1
  /\ UNCHANGED <<Process, requests, guest_issues, admitted>>

Next ==
  \/ MainStep \/ Listen \/ ListenerFails \/ Signal \/ Tick
  \/ \E c \in Connections :
       \/ Connect(c) \/ Handle(c) \/ Disconnect(c)
       \/ \E kind \in Kinds, ip \in Clients : Begin(c, kind, ip)

(* Goroutines that can go on do, and the shutdown timer fires.  Nothing is *)
(* fair about clients: a handler or a connection may hang.                 *)
Spec == Init /\ [][Next]_vars /\ WF_vars(MainStep)

-----------------------------------------------------------------------------
(* A process that reports a clean exit has answered every request it took, *)
(* and the pool outlives the handlers that use it (main.go:123-138, the    *)
(* deferred Close at main.go:103).                                         *)
CleanExit ==
  exit = "clean" \/ pool = "closed" =>
    pool # "open" /\ \A c \in Connections : requests[c].step = "free"

(* A readiness check is answered 200 only by a process with everything     *)
(* wired and its pool open, and never if the request came after shutdown   *)
(* had begun, so that a balancer stops sending requests                    *)
(* (server.go:172, server.go:189, main.go:108).                            *)
ReadyAnswersAreTrue ==
  \A c \in Connections :
    LET q == requests[c] IN
    q.kind = "ready" /\ q.status = 200 => Wired(config) /\ pool # "none" /\ ~q.late

(* No client gets more than Limit guest sessions in any stretch of time    *)
(* shorter than the window by the longest wait for the mutex; a wait can   *)
(* make handlers enter out of the order of their times, and drop entries   *)
(* another one should still have counted (server.go:129-147).              *)
AdmissionsAreBounded ==
  \A ip \in Clients, t \in 0..MaxClock :
    Cardinality({i \in admitted[ip] : i.at \in t..(t + Window - MaxDelay - 1)}) <= Limit

(* Whatever handlers and connections do, a signal ends the process: the    *)
(* shutdown waits for them no longer than its timeout (main.go:129-137).   *)
SignalEndsTheProcess == signal ~> exit # "none"

=============================================================================
