------------------------ MODULE ServerProcessProofs ------------------------
(***************************************************************************)
(* What a clean exit and a positive readiness answer mean, and that the    *)
(* limit on guest sessions holds, for any number of connections and        *)
(* clients, any limit and any window longer than the wait for the mutex.   *)
(***************************************************************************)
EXTENDS ServerProcess, FiniteSetTheorems, TLAPS

-----------------------------------------------------------------------------
(* The invariant.  While the process runs, the flag is up only between     *)
(* StartServing and the signal, and a late check finds it down.            *)

Fits(q, wired, p, serving, ended) ==
  /\ q.kind = "ready" /\ q.status = 200 => wired /\ p # "none" /\ ~ q.late
  /\ q.step = "pinging" => wired /\ p # "none" /\ ~ q.late
  /\ q.step \in {"stamped", "checking"} => q.kind = "guest"
  /\ q.late => ~ serving \/ ended

Serving == main \notin {"stopping", "draining"}

Wiring ==
  /\ main = "serve" /\ config.database => pool # "none"
  /\ ready /\ Running => main \in {"listen", "select"} /\ Wired(config) /\ pool # "none"

Exit ==
  /\ pool = "closed" => exit = "clean"
  /\ exit = "clean" => pool # "open" /\ \A c \in Connections : requests[c].step = "free"

Types ==
  /\ config \in Config
  /\ main \in Statements
  /\ pool \in {"none", "open", "closed"}
  /\ ready \in BOOLEAN
  /\ listener \in {"off", "open", "failed", "closed"}
  /\ signal \in BOOLEAN
  /\ exit \in {"none", "clean", "error", "killed"}
  /\ clock \in 0..MaxClock
  /\ requests \in [Connections -> Request]

(* Between time.Now() and the mutex no more than MaxDelay passes.          *)
Waits(q, t) == q.step = "stamped" => q.now <= t /\ t <= q.now + MaxDelay

Stretch(issues, from) == {i \in issues : i.at \in from..(from + Window - MaxDelay - 1)}

AtTime(issues, now) == {i \in issues : i.at = now}

(* What a client's slice has dropped is as old as the window: a handler    *)
(* dropped it whose own time was no later than the clock is now.  So every *)
(* admission of a stretch that a new one joins is still in the slice, and  *)
(* still recent for the handler that counts.                               *)
Kept(held, all, t) ==
  /\ all \in SUBSET Issue /\ IsFiniteSet(all) /\ held \subseteq all
  /\ Cardinality(held) <= Limit
  /\ \A i \in all \ held : i.at <= t - Window
  /\ \A from \in Int : Cardinality(Stretch(all, from)) <= Limit
  /\ \A i \in all : i.number <= Cardinality(AtTime(all, i.at))

Limiter ==
  /\ guest_issues \in [Clients -> SUBSET Issue]
  /\ admitted \in [Clients -> SUBSET Issue]
  /\ \A ip \in Clients : Kept(guest_issues[ip], admitted[ip], clock)

IInv ==
  /\ Types /\ Wiring /\ Exit /\ Limiter
  /\ \A c \in Connections : /\ Fits(requests[c], Wired(config), pool, Serving, ~ Running)
                             /\ Waits(requests[c], clock)

-----------------------------------------------------------------------------
(* The limiter.                                                            *)

LEMMA KeptAsTimePasses ==
  ASSUME NEW held, NEW all, NEW t \in Int, NEW later \in Int, Kept(held, all, t), t <= later
  PROVE  Kept(held, all, later)
<1>1. ASSUME NEW i \in all \ held
      PROVE  i.at <= later - Window
  <2>1. i.at \in Int /\ i.at <= t - Window
    BY DEF Kept, Issue
  <2> QED
    BY <2>1, LimiterAssumption
<1> QED
  BY <1>1 DEF Kept

(* Dropping what is too old for one handler drops nothing that a handler   *)
(* with another time should still count.                                   *)
LEMMA DroppedIsOld ==
  ASSUME NEW held, NEW all, NEW t \in Int, NEW now \in Int, Kept(held, all, t), now <= t,
         NEW i \in all \ {j \in held : j.at > now - Window}
  PROVE  i.at <= t - Window
<1>1. i.at \in Int
  BY DEF Kept, Issue
<1>2. CASE i \in held
  <2>1. ~ (i.at > now - Window)
    BY <1>2
  <2> QED
    BY <1>1, <2>1, LimiterAssumption
<1>3. CASE i \notin held
  BY <1>3 DEF Kept
<1> QED
  BY <1>2, <1>3

(* The limiter counts every admission of a stretch it adds to.             *)
LEMMA StretchIsRecent ==
  ASSUME NEW held, NEW all, NEW t \in Int, NEW now \in Int, Kept(held, all, t),
         t <= now + MaxDelay, NEW from \in Int, now \in from..(from + Window - MaxDelay - 1)
  PROVE  Stretch(all, from) \subseteq {j \in held : j.at > now - Window}
<1> SUFFICES ASSUME NEW i \in Stretch(all, from)
             PROVE  i \in held /\ i.at > now - Window
  OBVIOUS
<1>1. i \in all /\ i.at \in Int /\ from <= i.at
  BY DEF Stretch, Kept, Issue
<1>2. now <= from + Window - MaxDelay - 1
  OBVIOUS
<1>3. i.at > now - Window /\ i.at > t - Window
  BY <1>1, <1>2, LimiterAssumption
<1>4. ~ (i.at <= t - Window)
  BY <1>1, <1>3, LimiterAssumption
<1> QED
  BY <1>1, <1>3, <1>4 DEF Kept

LEMMA RefusalKeeps ==
  ASSUME NEW held, NEW all, NEW t \in Int, NEW now \in Int, Kept(held, all, t), now <= t
  PROVE  Kept({j \in held : j.at > now - Window}, all, t)
<1> DEFINE recent == {j \in held : j.at > now - Window}
<1>1. recent \subseteq held /\ recent \subseteq all
  BY DEF Kept
<1>2. IsFiniteSet(held)
  BY FS_Subset DEF Kept
<1>3. Cardinality(recent) <= Cardinality(held) /\ IsFiniteSet(recent)
  BY <1>1, <1>2, FS_Subset
<1>4. Cardinality(recent) <= Limit
  BY <1>2, <1>3, FS_CardinalityType, LimiterAssumption DEF Kept
<1>5. \A i \in all \ recent : i.at <= t - Window
  BY DroppedIsOld
<1> QED
  BY <1>1, <1>4, <1>5 DEF Kept

(* A new issue is new: its number is one more than its instant has had.    *)
LEMMA NewIssueIsNew ==
  ASSUME NEW held, NEW all, NEW t \in Int, NEW now \in 0..MaxClock, Kept(held, all, t),
         NEW new, new = [at |-> now, number |-> Cardinality(AtTime(all, now)) + 1]
  PROVE  /\ new \in Issue /\ new.at = now /\ new \notin all
         /\ \A i \in all \cup {new} : i.number <= Cardinality(AtTime(all \cup {new}, i.at))
<1>1. IsFiniteSet(AtTime(all, now))
  BY FS_Subset DEF Kept, AtTime
<1>2. Cardinality(AtTime(all, now)) \in Nat
  BY <1>1, FS_CardinalityType
<1>3. new \in Issue /\ new.at = now /\ new.number = Cardinality(AtTime(all, now)) + 1
  BY <1>2 DEF Issue
<1>4. new \notin all
  BY <1>2, <1>3 DEF Kept
<1>5. AtTime(all \cup {new}, now) = AtTime(all, now) \cup {new} /\ new \notin AtTime(all, now)
  BY <1>3, <1>4 DEF AtTime
<1>6. Cardinality(AtTime(all \cup {new}, now)) = Cardinality(AtTime(all, now)) + 1
  <2> DEFINE before == AtTime(all, now)
  <2>1. IsFiniteSet(before) /\ new \notin before
    BY <1>1, <1>5
  <2> HIDE DEF before
  <2>2. Cardinality(before \cup {new}) = Cardinality(before) + 1
    BY <2>1, FS_AddElement
  <2> QED
    BY <1>5, <2>2 DEF before
<1>7. ASSUME NEW i \in all
      PROVE  i.number <= Cardinality(AtTime(all \cup {new}, i.at))
  <2>1. i.number \in Nat /\ i.number <= Cardinality(AtTime(all, i.at))
    BY DEF Kept, Issue
  <2>2. CASE i.at = now
    BY <1>2, <1>6, <2>1, <2>2
  <2>3. CASE i.at # now
    <3>1. AtTime(all \cup {new}, i.at) = AtTime(all, i.at)
      BY <1>3, <2>3 DEF AtTime
    <3> QED
      BY <2>1, <3>1
  <2> QED
    BY <2>2, <2>3
<1>8. new.number <= Cardinality(AtTime(all \cup {new}, new.at))
  BY <1>2, <1>3, <1>6
<1> QED
  BY <1>3, <1>4, <1>7, <1>8

LEMMA AdmissionKeeps ==
  ASSUME NEW held, NEW all, NEW t \in Int, NEW now \in 0..MaxClock, Kept(held, all, t),
         now <= t, t <= now + MaxDelay,
         NEW recent, recent = {j \in held : j.at > now - Window}, Cardinality(recent) < Limit,
         NEW new, new = [at |-> now, number |-> Cardinality(AtTime(all, now)) + 1]
  PROVE  Kept(recent \cup {new}, all \cup {new}, t)
<1>1. /\ new \in Issue /\ new.at = now /\ new \notin all
      /\ \A i \in all \cup {new} : i.number <= Cardinality(AtTime(all \cup {new}, i.at))
  BY NewIssueIsNew
<1>2. /\ all \cup {new} \in SUBSET Issue /\ IsFiniteSet(all \cup {new})
      /\ recent \cup {new} \subseteq all \cup {new}
  BY <1>1, FS_AddElement DEF Kept
<1>3. IsFiniteSet(recent)
  BY FS_Subset DEF Kept
<1>4. IsFiniteSet(recent \cup {new}) /\ Cardinality(recent \cup {new}) \in Nat
      /\ Cardinality(recent \cup {new}) <= Limit
  <2>1. Cardinality(recent) \in Nat
    BY <1>3, FS_CardinalityType
  <2>2. /\ IsFiniteSet(recent \cup {new})
        /\ Cardinality(recent \cup {new}) \in {Cardinality(recent), Cardinality(recent) + 1}
    BY <1>3, FS_AddElement
  <2>3. Cardinality(recent \cup {new}) \in Nat
    BY <2>2, FS_CardinalityType
  <2> QED
    BY <2>1, <2>2, <2>3, LimiterAssumption
<1>5. \A i \in (all \cup {new}) \ (recent \cup {new}) : i.at <= t - Window
  BY DroppedIsOld
<1>6. ASSUME NEW from \in Int
      PROVE  Cardinality(Stretch(all \cup {new}, from)) <= Limit
  <2>1. CASE now \in from..(from + Window - MaxDelay - 1)
    <3>1. Stretch(all, from) \subseteq recent
      BY <2>1, StretchIsRecent
    <3>2. Stretch(all \cup {new}, from) \subseteq recent \cup {new}
      BY <3>1 DEF Stretch
    <3>3. /\ IsFiniteSet(Stretch(all \cup {new}, from))
          /\ Cardinality(Stretch(all \cup {new}, from)) <= Cardinality(recent \cup {new})
      BY <1>4, <3>2, FS_Subset
    <3>4. Cardinality(Stretch(all \cup {new}, from)) \in Nat
      BY <3>3, FS_CardinalityType
    <3> QED
      BY <1>4, <3>3, <3>4, LimiterAssumption
  <2>2. CASE now \notin from..(from + Window - MaxDelay - 1)
    <3>1. Stretch(all \cup {new}, from) = Stretch(all, from)
      BY <1>1, <2>2 DEF Stretch
    <3> QED
      BY <3>1 DEF Kept
  <2> QED
    BY <2>1, <2>2
<1> QED
  BY <1>1, <1>2, <1>4, <1>5, <1>6 DEF Kept

-----------------------------------------------------------------------------
(* Requests with other fields.                                             *)

LEMMA SetStep ==
  ASSUME NEW q \in Request, NEW step \in Steps
  PROVE  [q EXCEPT !.step = step] \in Request
BY DEF Request

LEMMA SetKind ==
  ASSUME NEW q \in Request, NEW kind \in Kinds
  PROVE  [q EXCEPT !.kind = kind] \in Request
BY DEF Request

LEMMA SetNow ==
  ASSUME NEW q \in Request, NEW now \in 0..MaxClock
  PROVE  [q EXCEPT !.now = now] \in Request
BY DEF Request

LEMMA SetStatus ==
  ASSUME NEW q \in Request, NEW status \in Statuses
  PROVE  [q EXCEPT !.status = status] \in Request
BY DEF Request

LEMMA SetLate ==
  ASSUME NEW q \in Request, NEW late \in BOOLEAN
  PROVE  [q EXCEPT !.late = late] \in Request
BY DEF Request

LEMMA FreeIsRequest ==
  ASSUME NEW ip \in Clients
  PROVE  /\ Free(ip) \in Request /\ Free(ip).step = "free" /\ Free(ip).kind = "ready"
         /\ Free(ip).status = 0 /\ Free(ip).late = FALSE /\ Free(ip).now = 0
<1>1. 0 \in 0..MaxClock
  BY LimiterAssumption
<1> QED
  BY <1>1 DEF Free, Request, Steps, Kinds, Statuses

Answered(q, status) == [q EXCEPT !.step = "answered", !.status = status]
Timed(q, step, now) == [q EXCEPT !.step = step, !.now = now]
Beginning(q, kind, late) == [q EXCEPT !.step = "begun", !.kind = kind, !.late = late]
Stepped(q, step) == [q EXCEPT !.step = step]

LEMMA SteppedIsRequest ==
  ASSUME NEW q \in Request, NEW step \in Steps
  PROVE  /\ Stepped(q, step) \in Request /\ Stepped(q, step).step = step
         /\ Stepped(q, step).kind = q.kind /\ Stepped(q, step).status = q.status
         /\ Stepped(q, step).late = q.late
<1>1. Stepped(q, step) \in Request
  BY SetStep DEF Stepped
<1> QED
  BY <1>1 DEF Stepped, Request

LEMMA AnsweredIsRequest ==
  ASSUME NEW q \in Request, NEW status \in Statuses
  PROVE  /\ Answered(q, status) \in Request /\ Answered(q, status).step = "answered"
         /\ Answered(q, status).kind = q.kind /\ Answered(q, status).status = status
         /\ Answered(q, status).late = q.late
<1>1. [q EXCEPT !.step = "answered"] \in Request
  BY SetStep DEF Steps
<1>2. [[q EXCEPT !.step = "answered"] EXCEPT !.status = status] \in Request
  BY <1>1, SetStatus
<1>3. Answered(q, status) \in Request
  BY <1>2 DEF Answered
<1> QED
  BY <1>3 DEF Answered, Request

LEMMA TimedIsRequest ==
  ASSUME NEW q \in Request, NEW step \in Steps, NEW now \in 0..MaxClock
  PROVE  /\ Timed(q, step, now) \in Request /\ Timed(q, step, now).step = step
         /\ Timed(q, step, now).kind = q.kind /\ Timed(q, step, now).status = q.status
         /\ Timed(q, step, now).late = q.late /\ Timed(q, step, now).now = now
<1>1. [q EXCEPT !.step = step] \in Request
  BY SetStep
<1>2. [[q EXCEPT !.step = step] EXCEPT !.now = now] \in Request
  BY <1>1, SetNow
<1>3. Timed(q, step, now) \in Request
  BY <1>2 DEF Timed
<1> QED
  BY <1>3 DEF Timed, Request

LEMMA BeginningIsRequest ==
  ASSUME NEW q \in Request, NEW kind \in Kinds, NEW late \in BOOLEAN
  PROVE  /\ Beginning(q, kind, late) \in Request /\ Beginning(q, kind, late).step = "begun"
         /\ Beginning(q, kind, late).kind = kind /\ Beginning(q, kind, late).status = q.status
         /\ Beginning(q, kind, late).late = late
<1>1. [q EXCEPT !.step = "begun"] \in Request
  BY SetStep DEF Steps
<1>2. [[q EXCEPT !.step = "begun"] EXCEPT !.kind = kind] \in Request
  BY <1>1, SetKind
<1>3. [[[q EXCEPT !.step = "begun"] EXCEPT !.kind = kind] EXCEPT !.late = late] \in Request
  BY <1>2, SetLate
<1>4. Beginning(q, kind, late) \in Request
  BY <1>3 DEF Beginning
<1> QED
  BY <1>4 DEF Beginning, Request

-----------------------------------------------------------------------------
(* A handler moves one request, while the process runs.                    *)

Moves(c, new) ==
  /\ Running /\ UNCHANGED Process /\ clock' = clock
  /\ new \in Request /\ requests' = [requests EXCEPT ![c] = new]
  /\ Fits(new, Wired(config), pool, Serving, ~ Running)
  /\ Waits(new, clock)

LEMMA MovesKeepInvariant ==
  ASSUME IInv, NEW c \in Connections, NEW new, Moves(c, new), Limiter'
  PROVE  IInv'
<1>1. /\ config' = config /\ main' = main /\ pool' = pool /\ ready' = ready /\ exit' = exit
      /\ exit = "none"
  BY DEF Moves, Process, Running
<1>2. Types' /\ \A d \in Connections : requests'[d] = IF d = c THEN new ELSE requests[d]
  BY DEF Moves, IInv, Types, Process
<1>3. Wiring' /\ Exit'
  BY <1>1 DEF IInv, Wiring, Exit, Running, Wired
<1>4. Wired(config)' = Wired(config) /\ Serving' = Serving /\ (~ Running)' = (~ Running)
  BY <1>1 DEF Wired, Serving, Running
<1>5. ASSUME NEW d \in Connections
      PROVE  /\ Fits(requests[d], Wired(config), pool, Serving, ~ Running)'
             /\ Waits(requests[d], clock)'
  <2>1. Fits(requests'[d], Wired(config), pool, Serving, ~ Running) /\ Waits(requests'[d], clock)
    BY <1>2 DEF IInv, Moves
  <2>2. Waits(requests'[d], clock')
    BY <2>1 DEF Moves
  <2> QED
    BY <1>1, <1>4, <2>1, <2>2 DEF Fits, Waits
<1> QED
  BY <1>2, <1>3, <1>5 DEF IInv

LEMMA AtWork ==
  ASSUME IInv, NEW c \in Connections
  PROVE  /\ requests[c] \in Request /\ requests[c].client \in Clients /\ clock \in 0..MaxClock
         /\ Fits(requests[c], Wired(config), pool, Serving, ~ Running) /\ Waits(requests[c], clock)
<1>1. requests[c] \in Request /\ clock \in 0..MaxClock
  BY DEF IInv, Types
<1> QED
  BY <1>1 DEF IInv, Request

LEMMA ConnectionMoves ==
  ASSUME IInv, NEW c \in Connections, Connect(c) \/ Disconnect(c) \/ Respond(c)
  PROVE  \E new : Moves(c, new)
<1>1. /\ requests[c] \in Request /\ requests[c].client \in Clients
      /\ Fits(requests[c], Wired(config), pool, Serving, ~ Running)
  BY AtWork
<1>2. Running /\ UNCHANGED Process /\ clock' = clock
  BY DEF Connect, Disconnect, Respond, At, Limits
<1>3. CASE Connect(c)
  <2>1. requests' = [requests EXCEPT ![c] = Stepped(requests[c], "fresh")]
    BY <1>3 DEF Connect, SetRequest, Stepped
  <2>2. /\ Stepped(requests[c], "fresh") \in Request /\ Stepped(requests[c], "fresh").step = "fresh"
        /\ Stepped(requests[c], "fresh").kind = requests[c].kind
        /\ Stepped(requests[c], "fresh").status = requests[c].status
        /\ Stepped(requests[c], "fresh").late = requests[c].late
    BY <1>1, SteppedIsRequest DEF Steps
  <2>3. Moves(c, Stepped(requests[c], "fresh"))
    BY <1>1, <1>2, <2>1, <2>2 DEF Moves, Fits, Waits
  <2> QED
    BY <2>3
<1>4. CASE Disconnect(c)
  <2>1. requests' = [requests EXCEPT ![c] = Free(requests[c].client)]
    BY <1>4 DEF Disconnect, SetRequest
  <2>2. /\ Free(requests[c].client) \in Request
        /\ Free(requests[c].client).step = "free"
        /\ Free(requests[c].client).status = 0
        /\ Free(requests[c].client).late = FALSE
    BY <1>1, FreeIsRequest
  <2>3. Moves(c, Free(requests[c].client))
    BY <1>2, <2>1, <2>2 DEF Moves, Fits, Waits
  <2> QED
    BY <2>3
<1>5. CASE Respond(c)
  <2> DEFINE q == Free(requests[c].client)
             step == IF main = "draining" THEN "free" ELSE "idle"
             new == Stepped(q, step)
  <2>1. requests' = [requests EXCEPT ![c] = new]
    BY <1>5 DEF Respond, SetRequest, Stepped
  <2>2. q \in Request /\ q.status = 0 /\ q.late = FALSE
    BY <1>1, FreeIsRequest
  <2>3. step \in Steps /\ step \in {"free", "idle"}
    BY DEF Steps
  <2> HIDE DEF q, step
  <2>4. new \in Request /\ new.step = step /\ new.status = 0 /\ new.late = FALSE
    BY <2>2, <2>3, SteppedIsRequest
  <2> HIDE DEF new
  <2>5. Moves(c, new)
    BY <1>2, <2>1, <2>3, <2>4 DEF Moves, Fits, Waits
  <2> QED
    BY <2>5
<1> QED
  BY <1>3, <1>4, <1>5

LEMMA BeginMoves ==
  ASSUME IInv, NEW c \in Connections, NEW kind \in Kinds, NEW ip \in Clients, Begin(c, kind, ip)
  PROVE  \E new : Moves(c, new)
<1> DEFINE late == kind = "ready" /\ main \in {"stopping", "draining"}
           q == Free(ip)
           new == Beginning(q, kind, late)
<1>1. Running /\ UNCHANGED Process /\ clock' = clock /\ requests' = [requests EXCEPT ![c] = new]
  BY DEF Begin, At, Limits, SetRequest, Beginning
<1>2. late \in BOOLEAN /\ (late => ~ Serving)
  BY DEF Serving
<1>3. q \in Request /\ q.status = 0
  BY FreeIsRequest
<1> HIDE DEF late, q
<1>4. new \in Request /\ new.step = "begun" /\ new.status = 0 /\ new.late = late
  BY <1>2, <1>3, BeginningIsRequest
<1> HIDE DEF new
<1>5. Moves(c, new)
  BY <1>1, <1>2, <1>4 DEF Moves, Fits, Waits
<1> QED
  BY <1>5

(* An answer that a readiness check may get only when it is true.          *)
LEMMA AnswerMoves ==
  ASSUME IInv, NEW c \in Connections, NEW status \in Statuses, Answer(c, status),
         Running, UNCHANGED Process, clock' = clock,
         status = 200 => requests[c].step = "pinging" \/ requests[c].kind = "guest"
  PROVE  \E new : Moves(c, new)
<1> DEFINE new == Answered(requests[c], status)
<1>1. requests[c] \in Request /\ Fits(requests[c], Wired(config), pool, Serving, ~ Running)
  BY AtWork
<1>2. requests' = [requests EXCEPT ![c] = new]
  BY DEF Answer, SetRequest, Answered
<1>3. /\ new \in Request /\ new.step = "answered" /\ new.kind = requests[c].kind
      /\ new.status = status /\ new.late = requests[c].late
  BY <1>1, AnsweredIsRequest
<1> HIDE DEF new
<1>4. requests[c].kind \in Kinds
  BY <1>1 DEF Request
<1>5. Moves(c, new)
  BY <1>1, <1>2, <1>3, <1>4 DEF Moves, Fits, Waits, Kinds
<1> QED
  BY <1>5

LEMMA TimedMoves ==
  ASSUME IInv, NEW c \in Connections, NEW step \in {"stamped", "checking"}, NEW now \in 0..MaxClock,
         requests' = [requests EXCEPT ![c] = Timed(requests[c], step, now)],
         Running, UNCHANGED Process, clock' = clock, requests[c].kind = "guest",
         step = "stamped" => now = clock
  PROVE  \E new : Moves(c, new)
<1> DEFINE new == Timed(requests[c], step, now)
<1>1. requests[c] \in Request /\ Fits(requests[c], Wired(config), pool, Serving, ~ Running)
  BY AtWork
<1>2. step \in Steps
  BY DEF Steps
<1>3. /\ new \in Request /\ new.step = step /\ new.kind = requests[c].kind
      /\ new.status = requests[c].status /\ new.late = requests[c].late /\ new.now = now
  BY <1>1, <1>2, TimedIsRequest
<1>4. Waits(new, clock)
  BY <1>3, LimiterAssumption DEF Waits
<1> HIDE DEF new
<1>5. Moves(c, new)
  BY <1>1, <1>3, <1>4 DEF Moves, Fits, new
<1> QED
  BY <1>5

LEMMA HandleMoves ==
  ASSUME IInv, NEW c \in Connections, Handle(c)
  PROVE  \E new : Moves(c, new)
<1>1. /\ requests[c] \in Request /\ clock \in 0..MaxClock
      /\ Fits(requests[c], Wired(config), pool, Serving, ~ Running)
  BY AtWork
<1>2. Running /\ UNCHANGED Process /\ clock' = clock
  BY DEF Handle, LoadReady, CheckReadiness, TakeTime, AllowGuestIssue, IssueGuestSession, Respond, At, Limits
<1>3. CASE LoadReady(c)
  <2>1. CASE ~ ready
    <3>1. Answer(c, 503)
      BY <1>3, <2>1 DEF LoadReady
    <3> QED
      BY <1>2, <3>1, AnswerMoves DEF Statuses
  <2>2. CASE ready
    <3>1. requests' = [requests EXCEPT ![c] = Stepped(requests[c], "pinging")]
      BY <1>3, <2>2 DEF LoadReady, SetRequest, Stepped
    <3>2. /\ Stepped(requests[c], "pinging") \in Request
          /\ Stepped(requests[c], "pinging").step = "pinging"
          /\ Stepped(requests[c], "pinging").kind = requests[c].kind
          /\ Stepped(requests[c], "pinging").status = requests[c].status
          /\ Stepped(requests[c], "pinging").late = requests[c].late
      BY <1>1, SteppedIsRequest DEF Steps
    <3>3. Serving /\ Wired(config) /\ pool # "none"
      BY <1>2, <2>2 DEF IInv, Wiring, Serving
    <3>4. requests[c].late \in BOOLEAN /\ ~ requests[c].late
      BY <1>1, <1>2, <3>3 DEF Fits, Request
    <3>5. Moves(c, Stepped(requests[c], "pinging"))
      BY <1>1, <1>2, <3>1, <3>2, <3>3, <3>4 DEF Moves, Fits, Waits
    <3> QED
      BY <3>5
  <2> QED
    BY <2>1, <2>2
<1>4. CASE CheckReadiness(c)
  <2>1. requests[c].step = "pinging" /\ (Answer(c, 200) \/ Answer(c, 503))
    BY <1>4 DEF CheckReadiness, At
  <2> QED
    BY <1>2, <2>1, AnswerMoves DEF Statuses
<1>5. CASE TakeTime(c)
  <2>1. CASE config.guest
    <3>1. /\ requests' = [requests EXCEPT ![c] = Timed(requests[c], "stamped", clock)]
          /\ requests[c].kind = "guest"
      BY <1>5, <2>1 DEF TakeTime, SetRequest, Timed
    <3> QED
      BY <1>1, <1>2, <3>1, TimedMoves
  <2>2. CASE ~ config.guest
    <3>1. Answer(c, 404)
      BY <1>5, <2>2 DEF TakeTime
    <3> QED
      BY <1>2, <3>1, AnswerMoves DEF Statuses
  <2> QED
    BY <2>1, <2>2
<1>6. CASE AllowGuestIssue(c)
  <2>1. requests[c].kind = "guest"
    BY <1>1, <1>6 DEF AllowGuestIssue, At, Fits
  <2>2. Answer(c, 429) \/ requests' = [requests EXCEPT ![c] = Timed(requests[c], "checking", 0)]
    BY <1>6 DEF AllowGuestIssue, SetRequest, Timed
  <2>3. 0 \in 0..MaxClock
    BY LimiterAssumption
  <2> QED
    BY <1>2, <2>1, <2>2, <2>3, AnswerMoves, TimedMoves DEF Statuses
<1>7. CASE IssueGuestSession(c)
  <2>1. requests[c].kind = "guest" /\ (Answer(c, 200) \/ Answer(c, 503))
    BY <1>1, <1>7 DEF IssueGuestSession, At, Fits
  <2> QED
    BY <1>2, <2>1, AnswerMoves DEF Statuses
<1>8. CASE Respond(c)
  BY <1>8, ConnectionMoves
<1> QED
  BY <1>3, <1>4, <1>5, <1>6, <1>7, <1>8 DEF Handle

-----------------------------------------------------------------------------
(* main, the listener and the signal leave the requests alone.             *)

LEMMA MainKeepsInvariant ==
  ASSUME IInv, MainStep
  PROVE  IInv'
<1>1. /\ Running /\ requests' = requests /\ config' = config /\ UNCHANGED Limits /\ clock' = clock
      /\ signal' = signal /\ listener' \in {listener, "failed", "closed"}
  BY DEF MainStep, LoadConfig, OpenPool, StartServing, NotifyContext, SelectServerError, SelectSignal,
         CloseListener, Drained, ShutdownTimeout, Limits
<1>2. pool # "closed"
  BY <1>1 DEF IInv, Exit, Running
<1>3. Types'
  <2>1. /\ main' \in Statements /\ pool' \in {pool, "open", "closed"} /\ ready' \in BOOLEAN
        /\ exit' \in {exit, "clean", "error", "killed"}
    <3>1. Wired(config) \in BOOLEAN
      BY DEF Wired
    <3> QED
      BY <3>1 DEF IInv, Types, MainStep, LoadConfig, OpenPool, StartServing, NotifyContext, SelectServerError,
                  SelectSignal, CloseListener, Drained, ShutdownTimeout, Statements
  <2> QED
    BY <1>1, <2>1 DEF IInv, Types
<1>4. /\ pool # "none" => pool' # "none"
      /\ ~ Serving => ~ Serving' \/ ~ Running'
  BY DEF MainStep, LoadConfig, OpenPool, StartServing, NotifyContext, SelectServerError, SelectSignal,
         CloseListener, Drained, ShutdownTimeout, Serving, Running
<1>5. Wiring'
  <2>1. CASE StartServing
    <3>1. Wired(config) => pool # "none"
      BY <2>1 DEF IInv, Wiring, StartServing, Wired
    <3>2. main' = "listen" /\ pool' = pool /\ ready' = Wired(config) /\ Wired(config)' = Wired(config)
      BY <1>1, <2>1 DEF StartServing, Wired
    <3> QED
      BY <3>1, <3>2 DEF Wiring
  <2>2. CASE NotifyContext
    <3>1. Wired(config)' = Wired(config) /\ UNCHANGED <<pool, ready, exit>> /\ main' = "select" /\ main = "listen"
      BY <1>1, <2>2 DEF NotifyContext, Wired
    <3> QED
      BY <1>1, <3>1 DEF IInv, Wiring, Running
  <2>3. CASE LoadConfig \/ OpenPool
    <3>1. ~ ready /\ ready' = ready
      BY <1>1, <2>3 DEF IInv, Wiring, LoadConfig, OpenPool
    <3> QED
      BY <1>1, <2>3, <3>1 DEF Wiring, LoadConfig, OpenPool
  <2>4. CASE SelectServerError \/ Drained \/ ShutdownTimeout
    <3>1. ~ Running' /\ main' = "end"
      BY <2>4 DEF SelectServerError, Drained, ShutdownTimeout, Running
    <3> QED
      BY <3>1 DEF Wiring
  <2>5. CASE SelectSignal
    BY <2>5 DEF Wiring, SelectSignal
  <2>6. CASE CloseListener
    BY <1>1, <2>6 DEF IInv, Wiring, CloseListener
  <2> QED
    BY <2>1, <2>2, <2>3, <2>4, <2>5, <2>6 DEF MainStep
<1>6. Exit'
  BY <1>1, <1>2 DEF Exit, MainStep, LoadConfig, OpenPool, StartServing, NotifyContext, SelectServerError,
              SelectSignal, CloseListener, Drained, ShutdownTimeout, Running
<1>7. ASSUME NEW c \in Connections
      PROVE  Fits(requests[c], Wired(config), pool, Serving, ~ Running)'
  <2>1. Fits(requests[c], Wired(config), pool, Serving, ~ Running)
    BY AtWork
  <2>2. Wired(config)' = Wired(config)
    BY <1>1 DEF Wired
  <2> QED
    BY <1>1, <1>4, <2>1, <2>2 DEF Fits
<1>8. Limiter' /\ \A c \in Connections : Waits(requests[c], clock)'
  BY <1>1 DEF IInv, Limiter, Limits, Kept, Waits
<1> QED
  BY <1>3, <1>5, <1>6, <1>7, <1>8 DEF IInv

(* The clock does not pass a handler that waits for the mutex by more than *)
(* MaxDelay.                                                               *)
LEMMA TickKeepsLimiter ==
  ASSUME IInv, Tick
  PROVE  Limiter' /\ \A c \in Connections : Waits(requests[c], clock)'
<1>1. /\ clock \in Int /\ clock' = clock + 1 /\ requests' = requests
      /\ guest_issues' = guest_issues /\ admitted' = admitted
  BY LimiterAssumption DEF IInv, Types, Tick
<1>2. ASSUME NEW ip \in Clients
      PROVE  Kept(guest_issues[ip], admitted[ip], clock + 1)
  BY <1>1, KeptAsTimePasses DEF IInv, Limiter
<1>3. Limiter'
  BY <1>1, <1>2 DEF IInv, Limiter
<1>4. ASSUME NEW c \in Connections
      PROVE  Waits(requests[c], clock)'
  <2>1. requests[c] \in Request /\ Waits(requests[c], clock)
    BY AtWork
  <2>2. requests[c].now \in Int
    BY <2>1 DEF Request
  <2>3. requests[c].step = "stamped" => clock - requests[c].now < MaxDelay
    BY DEF Tick
  <2>4. Waits(requests[c], clock + 1)
    BY <1>1, <2>1, <2>2, <2>3, LimiterAssumption DEF Waits
  <2> QED
    BY <1>1, <2>4
<1> QED
  BY <1>3, <1>4

LEMMA OutsideKeepsInvariant ==
  ASSUME IInv, Listen \/ ListenerFails \/ Signal \/ Tick
  PROVE  IInv'
<1>1. /\ requests' = requests /\ config' = config /\ main' = main /\ pool' = pool /\ ready' = ready
      /\ Running /\ exit' \in {exit, "killed"} /\ signal' \in {signal, TRUE}
      /\ listener' \in {listener, "open", "failed"}
  BY DEF Listen, ListenerFails, Signal, Tick, Process
<1>2. clock' \in 0..MaxClock
  BY LimiterAssumption DEF IInv, Types, Listen, ListenerFails, Signal, Tick, Limits
<1>3. Types'
  BY <1>1, <1>2 DEF IInv, Types
<1>4. Wiring' /\ Exit'
  BY <1>1 DEF IInv, Wiring, Exit, Running, Wired
<1>5. ASSUME NEW c \in Connections
      PROVE  Fits(requests[c], Wired(config), pool, Serving, ~ Running)'
  <2>1. Fits(requests[c], Wired(config), pool, Serving, ~ Running)
    BY AtWork
  <2>2. Wired(config)' = Wired(config) /\ Serving' = Serving
    BY <1>1 DEF Wired, Serving
  <2> QED
    BY <1>1, <2>1, <2>2 DEF Fits
<1>6. Limiter' /\ \A c \in Connections : Waits(requests[c], clock)'
  <2>1. CASE Tick
    BY <2>1, TickKeepsLimiter
  <2>2. CASE Listen \/ ListenerFails \/ Signal
    BY <1>1, <2>2 DEF IInv, Limiter, Limits, Kept, Waits, Listen, ListenerFails, Signal
  <2> QED
    BY <2>1, <2>2
<1> QED
  BY <1>3, <1>4, <1>5, <1>6 DEF IInv

-----------------------------------------------------------------------------
(* allowGuestIssue keeps the limiter's books.                              *)

LEMMA OthersKeepLimiter ==
  ASSUME IInv, UNCHANGED Limits
  PROVE  Limiter'
BY DEF IInv, Limiter, Limits, Kept

LEMMA AllowGuestIssueKeepsLimiter ==
  ASSUME IInv, NEW c \in Connections, AllowGuestIssue(c)
  PROVE  Limiter'
<1> DEFINE ip == requests[c].client
           now == requests[c].now
           recent == {j \in guest_issues[ip] : j.at > now - Window}
           new == [at |-> now, number |-> Cardinality(AtTime(admitted[ip], now)) + 1]
<1>1. ip \in Clients /\ now \in 0..MaxClock
  BY AtWork DEF Request
<1>2. now <= clock /\ clock <= now + MaxDelay /\ clock \in Int /\ clock' = clock
  BY AtWork DEF AllowGuestIssue, At, Waits
<1>3. /\ guest_issues \in [Clients -> SUBSET Issue] /\ admitted \in [Clients -> SUBSET Issue]
      /\ \A other \in Clients : Kept(guest_issues[other], admitted[other], clock)
  BY DEF IInv, Limiter
<1>4. Recent(ip, now) = recent /\ NewIssue(ip, now) = new
  BY DEF Recent, NewIssue, AtTime
<1>5. PICK added :
        /\ added = IF Cardinality(recent) >= Limit THEN {} ELSE {new}
        /\ guest_issues' = [guest_issues EXCEPT ![ip] = recent \cup added]
        /\ admitted' = [admitted EXCEPT ![ip] = @ \cup added]
  BY <1>4 DEF AllowGuestIssue
<1>6. IsFiniteSet(recent) /\ Cardinality(recent) \in Nat
  <2>1. IsFiniteSet(guest_issues[ip])
    BY <1>1, <1>3, FS_Subset DEF Kept
  <2>2. IsFiniteSet(recent)
    BY <2>1, FS_Subset
  <2> QED
    BY <2>2, FS_CardinalityType
<1>7. Kept(recent \cup added, admitted[ip] \cup added, clock)
  <2>1. CASE Cardinality(recent) >= Limit
    <3>1. Kept(recent, admitted[ip], clock)
      BY <1>1, <1>2, <1>3, RefusalKeeps
    <3>2. recent \cup added = recent /\ admitted[ip] \cup added = admitted[ip]
      BY <1>5, <2>1
    <3> QED
      BY <3>1, <3>2
  <2>2. CASE ~ (Cardinality(recent) >= Limit)
    <3>1. Cardinality(recent) < Limit
      BY <1>6, <2>2, LimiterAssumption
    <3>2. Kept(recent \cup {new}, admitted[ip] \cup {new}, clock)
      BY <1>1, <1>2, <1>3, <3>1, AdmissionKeeps
    <3> QED
      BY <1>5, <2>2, <3>2
  <2> QED
    BY <2>1, <2>2
<1>8. recent \cup added \in SUBSET Issue /\ admitted[ip] \cup added \in SUBSET Issue
  BY <1>1, <1>3, <1>7 DEF Kept
<1> HIDE DEF ip, now, recent, new
<1>9. ASSUME NEW other \in Clients
      PROVE  Kept(guest_issues'[other], admitted'[other], clock)
  <2>1. CASE other = ip
    BY <1>1, <1>3, <1>5, <1>7, <2>1
  <2>2. CASE other # ip
    BY <1>3, <1>5, <2>2
  <2> QED
    BY <2>1, <2>2
<1>10. guest_issues' \in [Clients -> SUBSET Issue] /\ admitted' \in [Clients -> SUBSET Issue]
  BY <1>3, <1>5, <1>8
<1> QED
  BY <1>2, <1>9, <1>10 DEF Limiter

LEMMA HandlersKeepLimiter ==
  ASSUME IInv, NEW c \in Connections,
         Connect(c) \/ Handle(c) \/ Disconnect(c) \/ \E kind \in Kinds, ip \in Clients : Begin(c, kind, ip)
  PROVE  Limiter'
<1>1. CASE AllowGuestIssue(c)
  BY <1>1, AllowGuestIssueKeepsLimiter
<1>2. CASE ~ AllowGuestIssue(c)
  <2>1. UNCHANGED Limits
    BY <1>2 DEF Connect, Handle, Disconnect, Begin, LoadReady, CheckReadiness, TakeTime, IssueGuestSession, Respond
  <2> QED
    BY <2>1, OthersKeepLimiter
<1> QED
  BY <1>1, <1>2

-----------------------------------------------------------------------------
(* Main theorems.                                                          *)

LEMMA InvariantStarts ==
  ASSUME Init
  PROVE  IInv
<1>1. (CHOOSE ip \in Clients : TRUE) \in Clients
  BY LimiterAssumption
<1> DEFINE q == Free(CHOOSE ip \in Clients : TRUE)
<1>2. q \in Request /\ q.step = "free" /\ q.status = 0 /\ q.late = FALSE
  BY <1>1, FreeIsRequest
<1>3. requests = [c \in Connections |-> q]
  BY DEF Init
<1> HIDE DEF q
<1>4. Types
  <2>1. config \in Config
    BY DEF Init
  <2>2. main \in Statements
    BY DEF Init, Statements
  <2>3. clock \in 0..MaxClock /\ requests \in [Connections -> Request]
    BY <1>2, <1>3, LimiterAssumption DEF Init
  <2> QED
    BY <2>1, <2>2, <2>3 DEF Init, Types
<1>5. Wiring /\ Exit
  BY DEF Init, Wiring, Exit
<1>6. \A c \in Connections : Fits(requests[c], Wired(config), pool, Serving, ~ Running) /\ Waits(requests[c], clock)
  BY <1>2, <1>3 DEF Fits, Waits
<1>7. Kept({}, {}, 0)
  <2>1. \A from \in Int : Stretch({}, from) = {}
    BY DEF Stretch
  <2>2. IsFiniteSet({}) /\ Cardinality({}) = 0
    BY FS_EmptySet
  <2> QED
    BY <2>1, <2>2, LimiterAssumption DEF Kept
<1>8. Limiter
  BY <1>7 DEF Init, Limiter
<1> QED
  BY <1>4, <1>5, <1>6, <1>8 DEF IInv

LEMMA InvariantStays ==
  ASSUME IInv, [Next]_vars
  PROVE  IInv'
<1>1. CASE MainStep
  BY <1>1, MainKeepsInvariant
<1>2. CASE Listen \/ ListenerFails \/ Signal \/ Tick
  BY <1>2, OutsideKeepsInvariant
<1>3. ASSUME NEW c \in Connections,
             Connect(c) \/ Handle(c) \/ Disconnect(c) \/ \E kind \in Kinds, ip \in Clients : Begin(c, kind, ip)
      PROVE  IInv'
  <2>1. \E new : Moves(c, new)
    BY <1>3, ConnectionMoves, HandleMoves, BeginMoves
  <2>2. PICK new : Moves(c, new)
    BY <2>1
  <2>3. Limiter'
    BY <1>3, HandlersKeepLimiter
  <2> QED
    BY <2>2, <2>3, MovesKeepInvariant
<1>4. CASE UNCHANGED vars
  <2>1. Wired(config)' = Wired(config) /\ Serving' = Serving
    BY <1>4 DEF vars, Wired, Serving
  <2>2. \A c \in Connections : Fits(requests[c], Wired(config), pool, Serving, ~ Running)' /\ Waits(requests[c], clock)'
    BY <1>4, <2>1 DEF vars, IInv, Fits, Waits, Running
  <2>3. Limiter'
    BY <1>4, OthersKeepLimiter DEF vars, Limits
  <2> QED
    BY <1>4, <2>2, <2>3 DEF vars, IInv, Types, Wiring, Exit, Running, Wired
<1> QED
  BY <1>1, <1>2, <1>3, <1>4 DEF Next

(* For any number of connections and however handlers, the listener and    *)
(* the signal interleave: a process that reports a clean exit has answered *)
(* every request it took and has closed its pool after them                *)
(* (main.go:123-138, main.go:103).                                         *)
THEOREM ExitIsClean == Spec => []CleanExit
<1>1. ASSUME IInv PROVE CleanExit
  BY <1>1 DEF IInv, Exit, CleanExit
<1> QED
  BY <1>1, InvariantStarts, InvariantStays, PTL DEF Spec

(* For any number of connections: whoever is told that the process is      *)
(* ready asked one that was wired and had its pool, and that had not yet   *)
(* begun to stop when the request came (server.go:172, server.go:189,      *)
(* main.go:108).                                                           *)
THEOREM ReadyIsTrue == Spec => []ReadyAnswersAreTrue
<1>1. ASSUME IInv PROVE ReadyAnswersAreTrue
  <2>1. \A c \in Connections : Fits(requests[c], Wired(config), pool, Serving, ~ Running)
    BY <1>1 DEF IInv
  <2> QED
    BY <2>1 DEF ReadyAnswersAreTrue, Fits
<1> QED
  BY <1>1, InvariantStarts, InvariantStays, PTL DEF Spec

(* For any number of clients and connections, the types hold; the slice    *)
(* of a client never holds more than Limit issues (server.go:129-147).     *)
THEOREM TypesAreCorrect == Spec => []TypeOK
<1>1. ASSUME IInv PROVE TypeOK
  <2>1. ASSUME NEW ip \in Clients
        PROVE  /\ IsFiniteSet(guest_issues[ip]) /\ IsFiniteSet(admitted[ip])
               /\ Cardinality(guest_issues[ip]) <= Limit
    <3>1. Kept(guest_issues[ip], admitted[ip], clock)
      BY <1>1 DEF IInv, Limiter
    <3> QED
      BY <3>1, FS_Subset DEF Kept
  <2> QED
    BY <1>1, <2>1 DEF IInv, Types, Limiter, TypeOK
<1> QED
  BY <1>1, InvariantStarts, InvariantStays, PTL DEF Spec

(* For any limit, any window longer than the wait for the mutex and any    *)
(* number of clients and handlers: no stretch of time shorter than the     *)
(* window by that wait sees more than Limit admissions of one client,      *)
(* although handlers filter the slice with times that are out of order     *)
(* (server.go:129-147).                                                    *)
THEOREM LimitHolds == Spec => []AdmissionsAreBounded
<1>1. ASSUME IInv PROVE AdmissionsAreBounded
  <2> SUFFICES ASSUME NEW ip \in Clients, NEW t \in 0..MaxClock
               PROVE  Cardinality({i \in admitted[ip] : i.at \in t..(t + Window - MaxDelay - 1)}) <= Limit
    BY DEF AdmissionsAreBounded
  <2>1. Kept(guest_issues[ip], admitted[ip], clock)
    BY <1>1 DEF IInv, Limiter
  <2> QED
    BY <2>1 DEF Kept, Stretch
<1> QED
  BY <1>1, InvariantStarts, InvariantStays, PTL DEF Spec

=============================================================================
