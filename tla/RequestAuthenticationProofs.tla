-------------------- MODULE RequestAuthenticationProofs --------------------
(***************************************************************************)
(* What a served and a refused request can rely on, for any number of      *)
(* requests, tokens and key sets, any roles and any times.                 *)
(***************************************************************************)
EXTENDS RequestAuthentication, TLAPS

-----------------------------------------------------------------------------
(* The invariant.  A key set in a request's hands, or in the cache, is no  *)
(* older than a fetch; a request knows the roles of its user; and a fetch  *)
(* that was not disturbed brings a key that was there all the time.        *)

Backed(q, until) ==
  q.token.kid \in KeyIds /\ q.at < until[q.token.kid] + Lifetime + FetchTimeout

Timely(q, now, until) ==
  /\ q.step \in {"fetch", "receive"} => q.at <= now /\ now <= q.at + FetchTimeout
  /\ q.step = "receive" => \A k \in q.keys : q.at <= until[k]
  /\ q.step = "install" => \A k \in q.keys : now <= until[k] + FetchTimeout
  /\ q.step = "verify" => Backed(q, until)
  /\ q.step \in {"authorize", "serving"} => q.principal = GuestPrincipal \/ Backed(q, until)

Known(q, s, roles, wired) ==
  /\ q.step # "idle" => q.token \in Tokens
  /\ q.step # "idle" /\ q.token.sub \in Users => roles[q.token.sub] \in s.roles
  /\ q.step \in {"authorize", "serving"} => q.principal \in Principal /\ q.principal.user = q.token.sub
  /\ q.step = "serving" /\ wired => q.principal.role \in s.roles /\ q.principal.org = Organization

Undisturbed(q, s) == q.step # "idle" /\ s.kept /\ ~s.failed

Heard(q, s, keys, held, age) ==
  /\ q.step = "idle" => ~s.kept
  /\ Undisturbed(q, s) => q.token.kid \in keys
  /\ Undisturbed(q, s) /\ q.step \in {"receive", "install"} => q.token.kid \in q.keys
  /\ Undisturbed(q, s) /\ q.step = "again" /\ ~s.overtaken => q.token.kid \in held /\ age = 0
  /\ Undisturbed(q, s) /\ q.step = "refused" /\ q.status = 401 /\ GoodToken(q.token, q.at) => s.overtaken

Aged == \A k \in cache.keys : cache.at <= published_until[k] + FetchTimeout

Dated ==
  /\ \A k \in KeyIds : published_until[k] <= clock
  /\ \A k \in Keys(published) : published_until[k] = clock

Wired == authorizer.present \/ authorizer.required

Fits(q, s, c) ==
  /\ Timely(q, clock, published_until)
  /\ Known(q, s, users, Wired)
  /\ Heard(q, s, Keys(published), c.keys, clock - c.at)

IInv ==
  /\ TypeOK /\ Aged /\ Dated
  /\ \A r \in Requests : Fits(requests[r], seen[r], cache)

-----------------------------------------------------------------------------
(* Types.                                                                  *)

LEMMA KeysAreKeyIds ==
  ASSUME NEW d \in DOMAIN Documents
  PROVE  Keys(d) \subseteq KeyIds
BY DEF KeyIds

LEMMA GuestIsPrincipal == GuestPrincipal \in Principal
BY MembersAssumption DEF GuestPrincipal, Principal, Roles

LEMMA JWTIsPrincipal ==
  ASSUME NEW t \in Tokens, ValidPrincipal(t)
  PROVE  JWTPrincipal(t) \in Principal /\ JWTPrincipal(t).user = t.sub /\ JWTPrincipal(t).guest = FALSE
BY DEF JWTPrincipal, Principal, ValidPrincipal

(* Requests with other fields, one at a time and then as the actions       *)
(* change them.                                                            *)
LEMMA SetStep ==
  ASSUME NEW q \in Request, NEW step \in Steps
  PROVE  [q EXCEPT !.step = step] \in Request
BY DEF Request

LEMMA SetToken ==
  ASSUME NEW q \in Request, NEW t \in Tokens
  PROVE  [q EXCEPT !.token = t] \in Request
BY DEF Request

LEMMA SetAt ==
  ASSUME NEW q \in Request, NEW at \in Nat
  PROVE  [q EXCEPT !.at = at] \in Request
BY DEF Request

LEMMA SetKeys ==
  ASSUME NEW q \in Request, NEW keys \in SUBSET KeyIds
  PROVE  [q EXCEPT !.keys = keys] \in Request
BY DEF Request

LEMMA SetPrincipal ==
  ASSUME NEW q \in Request, NEW p \in Principal \cup {Absent}
  PROVE  [q EXCEPT !.principal = p] \in Request
BY DEF Request

LEMMA SetStatus ==
  ASSUME NEW q \in Request, NEW status \in Statuses
  PROVE  [q EXCEPT !.status = status] \in Request
BY DEF Request

GoTo(q, step, at) == [q EXCEPT !.step = step, !.at = at]

LEMMA StepAndAt ==
  ASSUME NEW q \in Request, NEW step \in Steps, NEW at \in Nat
  PROVE  /\ GoTo(q, step, at) \in Request /\ GoTo(q, step, at).step = step /\ GoTo(q, step, at).at = at
         /\ GoTo(q, step, at).token = q.token /\ GoTo(q, step, at).keys = q.keys /\ GoTo(q, step, at).principal = q.principal
         /\ GoTo(q, step, at).status = q.status
<1>1. [q EXCEPT !.step = step] \in Request
  BY SetStep
<1>2. [[q EXCEPT !.step = step] EXCEPT !.at = at] \in Request
  BY <1>1, SetAt
<1>3. GoTo(q, step, at) \in Request
  BY <1>2 DEF GoTo
<1> QED
  BY <1>3 DEF Request, GoTo

GoWith(q, step, keys) == [q EXCEPT !.step = step, !.keys = keys]

LEMMA StepAndKeys ==
  ASSUME NEW q \in Request, NEW step \in Steps, NEW keys \in SUBSET KeyIds
  PROVE  /\ GoWith(q, step, keys) \in Request /\ GoWith(q, step, keys).step = step /\ GoWith(q, step, keys).keys = keys
         /\ GoWith(q, step, keys).token = q.token /\ GoWith(q, step, keys).at = q.at /\ GoWith(q, step, keys).principal = q.principal
         /\ GoWith(q, step, keys).status = q.status
<1>1. [q EXCEPT !.step = step] \in Request
  BY SetStep
<1>2. [[q EXCEPT !.step = step] EXCEPT !.keys = keys] \in Request
  BY <1>1, SetKeys
<1>3. GoWith(q, step, keys) \in Request
  BY <1>2 DEF GoWith
<1> QED
  BY <1>3 DEF Request, GoWith

LEMMA RefusedIsRequest ==
  ASSUME NEW q \in Request, clock \in Nat, NEW status \in Statuses
  PROVE  /\ Refused(q, status) \in Request
         /\ Refused(q, status).step = "refused" /\ Refused(q, status).at = clock
         /\ Refused(q, status).status = status /\ Refused(q, status).token = q.token
<1>1. [q EXCEPT !.step = "refused"] \in Request
  BY SetStep DEF Steps
<1>2. [[q EXCEPT !.step = "refused"] EXCEPT !.status = status] \in Request
  BY <1>1, SetStatus
<1>3. [[[q EXCEPT !.step = "refused"] EXCEPT !.status = status] EXCEPT !.at = clock] \in Request
  BY <1>2, SetAt
<1>4. Refused(q, status) \in Request
  BY <1>3 DEF Refused
<1> QED
  BY <1>4 DEF Refused, Request

LEMMA AcceptedIsRequest ==
  ASSUME NEW q \in Request, NEW p \in Principal
  PROVE  /\ Accepted(q, p) \in Request
         /\ Accepted(q, p).step = "authorize" /\ Accepted(q, p).principal = p
         /\ Accepted(q, p).token = q.token /\ Accepted(q, p).at = q.at
<1>1. [q EXCEPT !.step = "authorize"] \in Request
  BY SetStep DEF Steps
<1>2. [[q EXCEPT !.step = "authorize"] EXCEPT !.principal = p] \in Request
  BY <1>1, SetPrincipal
<1>3. Accepted(q, p) \in Request
  BY <1>2 DEF Accepted
<1> QED
  BY <1>3 DEF Accepted, Request

(* What the guest authenticator makes of a request.                        *)
ByGuest(q, new) ==
  \/ new.step = "authorize" /\ new.principal = GuestPrincipal /\ q.token.sub = GuestUser
  \/ new.step = "refused" /\ new.status = 401 /\ new.at = clock

LEMMA GuestTries ==
  ASSUME clock \in Nat, NEW q \in Request
  PROVE  TriedByGuest(q) \in Request /\ TriedByGuest(q).token = q.token /\ ByGuest(q, TriedByGuest(q))
<1>1. CASE GuestAccepts(q.token, clock)
  BY <1>1, GuestIsPrincipal, AcceptedIsRequest DEF TriedByGuest, GuestAccepts, ByGuest
<1>2. CASE ~ GuestAccepts(q.token, clock)
  BY <1>2, RefusedIsRequest DEF TriedByGuest, ByGuest, Statuses
<1> QED
  BY <1>1, <1>2

-----------------------------------------------------------------------------
(* A step moves one request and leaves the world alone.  It may install    *)
(* what the request holds, which overtakes those that look again.          *)

Installs(r) ==
  /\ requests[r].step = "install"
  /\ cache' = [keys |-> requests[r].keys, at |-> clock]
  /\ \A p \in Requests \ {r} :
       seen'[p] = IF requests[p].step = "again" THEN [seen[p] EXCEPT !.overtaken = TRUE] ELSE seen[p]

Moves(r, new) ==
  /\ UNCHANGED Outside
  /\ new \in Request
  /\ requests' = [requests EXCEPT ![r] = new]
  /\ seen' \in [Requests -> History]
  /\ faults' \in 0..MaxFaults
  /\ Fits(new, seen'[r], cache')
  /\ \/ cache' = cache /\ \A p \in Requests \ {r} : seen'[p] = seen[p]
     \/ Installs(r)

LEMMA MovesKeepTypes ==
  ASSUME TypeOK, NEW r \in Requests, NEW new, Moves(r, new)
  PROVE  TypeOK'
<1>1. cache' \in [keys : SUBSET KeyIds, at : {-Lifetime} \cup 0..clock]
  <2>1. CASE Installs(r)
    <3>1. requests[r].keys \in SUBSET KeyIds
      BY DEF TypeOK, Request
    <3>2. clock \in 0..clock
      BY TimesAssumption DEF TypeOK
    <3> QED
      BY <2>1, <3>1, <3>2 DEF Installs
  <2> QED
    BY <2>1 DEF Moves, TypeOK
<1>2. requests' \in [Requests -> Request]
  BY DEF Moves, TypeOK
<1> QED
  BY <1>1, <1>2 DEF Moves, TypeOK, Outside

LEMMA MovesKeepInvariant ==
  ASSUME IInv, NEW r \in Requests, NEW new, Moves(r, new)
  PROVE  IInv'
<1> TypeOK
  BY DEF IInv
<1>1. TypeOK'
  BY MovesKeepTypes
<1>2. /\ clock' = clock /\ published' = published /\ users' = users
      /\ authorizer' = authorizer /\ published_until' = published_until
  BY DEF Moves, Outside
<1>3. Aged'
  <2>1. CASE cache' = cache
    BY <1>2, <2>1 DEF IInv, Aged
  <2>2. CASE Installs(r)
    <3>1. Timely(requests[r], clock, published_until)
      BY DEF IInv, Fits
    <3>2. \A k \in requests[r].keys : clock <= published_until[k] + FetchTimeout
      BY <2>2, <3>1 DEF Timely, Installs
    <3> QED
      BY <1>2, <2>2, <3>2 DEF Aged, Installs
  <2> QED
    BY <2>1, <2>2 DEF Moves
<1>4. Dated'
  BY <1>2 DEF IInv, Dated, Keys
<1>5. ASSUME NEW p \in Requests
      PROVE  Fits(requests[p], seen[p], cache)'
  <2> Wired' = Wired /\ Keys(published)' = Keys(published)
    BY <1>2 DEF Wired, Keys
  <2>1. CASE p = r
    <3>1. requests'[p] = new
      BY <2>1 DEF Moves, TypeOK
    <3>2. Fits(new, seen'[p], cache')
      BY <2>1 DEF Moves
    <3> QED
      BY <1>2, <3>1, <3>2 DEF Fits
  <2>2. CASE p # r
    <3>1. requests'[p] = requests[p]
      BY <2>2 DEF Moves, TypeOK
    <3>2. Fits(requests[p], seen[p], cache)
      BY DEF IInv
    <3>3. CASE cache' = cache /\ seen'[p] = seen[p]
      BY <1>2, <3>1, <3>2, <3>3 DEF Fits
    <3>4. CASE Installs(r)
      <4>1. seen'[p] = IF requests[p].step = "again" THEN [seen[p] EXCEPT !.overtaken = TRUE] ELSE seen[p]
        BY <2>2, <3>4 DEF Installs
      <4>2. seen[p] \in History
        BY DEF TypeOK
      <4>3. /\ seen'[p].kept = seen[p].kept /\ seen'[p].failed = seen[p].failed
            /\ seen'[p].roles = seen[p].roles
            /\ requests[p].step = "again" => seen'[p].overtaken
            /\ requests[p].step # "again" => seen'[p].overtaken = seen[p].overtaken
        BY <4>1, <4>2 DEF History
      <4>4. Timely(requests[p], clock, published_until)
        BY <3>2 DEF Fits
      <4>5. Known(requests[p], seen'[p], users, Wired)
        BY <3>2, <4>3 DEF Fits, Known
      <4>6. Heard(requests[p], seen'[p], Keys(published), cache'.keys, clock - cache'.at)
        BY <3>2, <4>3 DEF Fits, Heard, Undisturbed
      <4> QED
        BY <1>2, <3>1, <4>4, <4>5, <4>6 DEF Fits
    <3> QED
      BY <2>2, <3>3, <3>4 DEF Moves
  <2> QED
    BY <2>1, <2>2
<1> QED
  BY <1>1, <1>3, <1>4, <1>5 DEF IInv

-----------------------------------------------------------------------------
(* What a request turns into.                                              *)

LEMMA RefusedFits ==
  ASSUME clock \in Nat, NEW q \in Request, NEW s, Fits(q, s, cache), q.step # "idle",
         NEW status \in Statuses,
         status = 401 /\ Undisturbed(q, s) /\ GoodToken(q.token, clock) => s.overtaken
  PROVE  Refused(q, status) \in Request /\ Fits(Refused(q, status), s, cache)
<1> DEFINE new == Refused(q, status)
<1>1. /\ new \in Request /\ new.step = "refused" /\ new.at = clock
      /\ new.status = status /\ new.token = q.token
  BY RefusedIsRequest
<1> HIDE DEF new
<1>2. Timely(new, clock, published_until)
  BY <1>1 DEF Timely
<1>3. Known(new, s, users, Wired)
  BY <1>1 DEF Known, Fits
<1>4. Heard(new, s, Keys(published), cache.keys, clock - cache.at)
  BY <1>1 DEF Heard, Undisturbed, Fits
<1>5. new \in Request /\ Fits(new, s, cache)
  BY <1>1, <1>2, <1>3, <1>4 DEF Fits
<1> QED
  BY <1>5 DEF new

LEMMA AcceptedFits ==
  ASSUME NEW q \in Request, NEW s, Fits(q, s, cache), q.step # "idle",
         NEW p \in Principal, p.user = q.token.sub,
         p = GuestPrincipal \/ Backed(q, published_until)
  PROVE  Accepted(q, p) \in Request /\ Fits(Accepted(q, p), s, cache)
<1> DEFINE new == Accepted(q, p)
<1>1. /\ new \in Request /\ new.step = "authorize" /\ new.principal = p
      /\ new.token = q.token /\ new.at = q.at
  BY AcceptedIsRequest
<1> HIDE DEF new
<1>2. Timely(new, clock, published_until)
  BY <1>1 DEF Timely, Backed
<1>3. Known(new, s, users, Wired)
  BY <1>1 DEF Known, Fits
<1>4. Heard(new, s, Keys(published), cache.keys, clock - cache.at)
  BY <1>1 DEF Heard, Undisturbed, Fits
<1>5. new \in Request /\ Fits(new, s, cache)
  BY <1>1, <1>2, <1>3, <1>4 DEF Fits
<1> QED
  BY <1>5 DEF new

LEMMA GuestFits ==
  ASSUME clock \in Nat, NEW q \in Request, NEW s, Fits(q, s, cache), q.step # "idle",
         Undisturbed(q, s) /\ GoodToken(q.token, clock) => s.overtaken
  PROVE  TriedByGuest(q) \in Request /\ Fits(TriedByGuest(q), s, cache)
<1>1. CASE GuestAccepts(q.token, clock)
  <2>1. GuestPrincipal.user = q.token.sub
    BY <1>1 DEF GuestAccepts, GuestPrincipal
  <2>2. TriedByGuest(q) = Accepted(q, GuestPrincipal)
    BY <1>1 DEF TriedByGuest
  <2> QED
    BY <2>1, <2>2, GuestIsPrincipal, AcceptedFits
<1>2. CASE ~ GuestAccepts(q.token, clock)
  <2>1. 401 \in Statuses
    BY DEF Statuses
  <2>2. TriedByGuest(q) = Refused(q, 401)
    BY <1>2 DEF TriedByGuest
  <2> QED
    BY <2>1, <2>2, RefusedFits
<1> QED
  BY <1>1, <1>2

LEMMA ServingFits ==
  ASSUME NEW q \in Request, NEW s, Fits(q, s, cache), q.step = "authorize",
         Wired => q.principal.role \in s.roles /\ q.principal.org = Organization
  PROVE  Serving(q) \in Request /\ Fits(Serving(q), s, cache)
<1> DEFINE new == Serving(q)
<1>1. new \in Request
  BY SetStep DEF Serving, Steps
<1>2. new.step = "serving" /\ new.principal = q.principal /\ new.token = q.token /\ new.at = q.at
  BY DEF Serving, Request
<1> HIDE DEF new
<1>3. Timely(new, clock, published_until)
  BY <1>2 DEF Timely, Backed, Fits
<1>4. Known(new, s, users, Wired)
  BY <1>2 DEF Known, Fits
<1>5. Heard(new, s, Keys(published), cache.keys, clock - cache.at)
  BY <1>2 DEF Heard, Undisturbed, Fits
<1>6. new \in Request /\ Fits(new, s, cache)
  BY <1>1, <1>3, <1>4, <1>5 DEF Fits
<1> QED
  BY <1>6 DEF new

-----------------------------------------------------------------------------
(* The actions of a request.                                               *)

LEMMA AtWork ==
  ASSUME IInv, NEW r \in Requests
  PROVE  /\ requests[r] \in Request /\ seen[r] \in History /\ Fits(requests[r], seen[r], cache)
         /\ clock \in Nat /\ seen \in [Requests -> History] /\ faults \in 0..MaxFaults
BY TimesAssumption DEF IInv, TypeOK

(* Most actions change nothing but the request.                            *)
Quiet(r, new) ==
  /\ Enter(r, new)
  /\ UNCHANGED <<Outside, cache, seen, faults>>

LEMMA QuietMoves ==
  ASSUME IInv, NEW r \in Requests, NEW new, Quiet(r, new),
         new \in Request, Fits(new, seen[r], cache)
  PROVE  Moves(r, new)
BY AtWork DEF Quiet, Enter, Moves

(* A key found in the cache is backed by its publication.                  *)
LEMMA FoundFits ==
  ASSUME IInv, NEW r \in Requests, CachedKey(requests[r].token.kid),
         requests[r].step \in {"lookup", "again"}
  PROVE  /\ GoTo(requests[r], "verify", clock) \in Request
         /\ Fits(GoTo(requests[r], "verify", clock), seen[r], cache)
<1> DEFINE q == requests[r]
           new == GoTo(q, "verify", clock)
<1>1. q \in Request /\ Fits(q, seen[r], cache) /\ clock \in Nat
  BY AtWork
<1> HIDE DEF q
<1>2. new \in Request /\ new.step = "verify" /\ new.at = clock /\ new.token = q.token
  BY <1>1, StepAndAt DEF Steps
<1> HIDE DEF new
<1>3. new.token.kid \in KeyIds /\ new.at < published_until[new.token.kid] + Lifetime + FetchTimeout
  <2>1. q.token.kid \in cache.keys /\ clock - cache.at < Lifetime
    BY DEF CachedKey, q
  <2>2. cache.keys \in SUBSET KeyIds /\ cache.at \in Int /\ published_until \in [KeyIds -> Int]
    <3>1. cache \in [keys : SUBSET KeyIds, at : {-Lifetime} \cup 0..clock]
      BY DEF IInv, TypeOK
    <3>2. published_until \in [KeyIds -> Int]
      BY DEF IInv, TypeOK
    <3>3. {-Lifetime} \cup 0..clock \subseteq Int
      BY <1>1, TimesAssumption
    <3> QED
      BY <3>1, <3>2, <3>3
  <2>3. q.token.kid \in KeyIds /\ published_until[q.token.kid] \in Int
    BY <2>1, <2>2
  <2>4. cache.at <= published_until[q.token.kid] + FetchTimeout
    BY <2>1 DEF IInv, Aged
  <2>5. clock < published_until[q.token.kid] + Lifetime + FetchTimeout
    BY <1>1, <2>1, <2>2, <2>3, <2>4, TimesAssumption
  <2> QED
    BY <1>2, <2>3, <2>5
<1>4. q.step # "idle"
  BY DEF q
<1>5. Timely(new, clock, published_until)
  BY <1>2, <1>3 DEF Timely, Backed
<1>6. Known(new, seen[r], users, Wired)
  BY <1>1, <1>2, <1>4 DEF Known, Fits
<1>7. Heard(new, seen[r], Keys(published), cache.keys, clock - cache.at)
  BY <1>1, <1>2, <1>4 DEF Heard, Undisturbed, Fits
<1> QED
  BY <1>2, <1>5, <1>6, <1>7 DEF Fits, new, q

LEMMA LookupMoves ==
  ASSUME IInv, NEW r \in Requests, Lookup(r)
  PROVE  \E new : Moves(r, new)
<1> DEFINE q == requests[r]
<1>1. q \in Request /\ Fits(q, seen[r], cache) /\ clock \in Nat
  BY AtWork
<1>2. q.step = "lookup"
  BY DEF Lookup, At
<1>3. CASE CachedKey(q.token.kid)
  <2> DEFINE new == GoTo(q, "verify", clock)
  <2>1. Quiet(r, new)
    BY <1>3 DEF Lookup, Quiet, Enter, GoTo
  <2>2. new \in Request /\ Fits(new, seen[r], cache)
    BY <1>2, <1>3, FoundFits
  <2> QED
    BY <2>1, <2>2, QuietMoves
<1>4. CASE ~ CachedKey(q.token.kid)
  <2> DEFINE new == GoTo(q, "fetch", clock)
  <2>1. Quiet(r, new)
    BY <1>4 DEF Lookup, Quiet, Enter, GoTo
  <2> HIDE DEF q
  <2>2. new \in Request /\ new.step = "fetch" /\ new.at = clock /\ new.token = q.token
    BY <1>1, StepAndAt DEF Steps
  <2> HIDE DEF new
  <2>3. Timely(new, clock, published_until)
    BY <1>1, <2>2, TimesAssumption DEF Timely
  <2>4. Known(new, seen[r], users, Wired)
    BY <1>1, <1>2, <2>2 DEF Known, Fits
  <2>5. Heard(new, seen[r], Keys(published), cache.keys, clock - cache.at)
    BY <1>1, <1>2, <2>2 DEF Heard, Undisturbed, Fits
  <2>6. Fits(new, seen[r], cache)
    BY <2>3, <2>4, <2>5 DEF Fits
  <2> QED
    BY <2>1, <2>2, <2>6, QuietMoves
<1> QED
  BY <1>3, <1>4

LEMMA AnswersMoves ==
  ASSUME IInv, NEW r \in Requests, EndpointAnswers(r)
  PROVE  \E new : Moves(r, new)
<1> DEFINE q == requests[r]
           new == GoWith(q, "receive", Keys(published))
<1>1. q \in Request /\ Fits(q, seen[r], cache) /\ clock \in Nat
  BY AtWork
<1>2. q.step = "fetch" /\ Quiet(r, new)
  BY DEF EndpointAnswers, At, Quiet, Enter, GoWith
<1>3. Keys(published) \in SUBSET KeyIds
  BY KeysAreKeyIds DEF IInv, TypeOK
<1> HIDE DEF q
<1>4. /\ new \in Request /\ new.step = "receive" /\ new.keys = Keys(published)
      /\ new.token = q.token /\ new.at = q.at
  BY <1>1, <1>3, StepAndKeys DEF Steps
<1> HIDE DEF new
<1>5. \A k \in new.keys : published_until[k] = clock
  BY <1>4 DEF IInv, Dated
<1>6. Timely(new, clock, published_until)
  BY <1>1, <1>2, <1>4, <1>5 DEF Timely, Fits
<1>7. Known(new, seen[r], users, Wired)
  BY <1>1, <1>2, <1>4 DEF Known, Fits
<1>8. Heard(new, seen[r], Keys(published), cache.keys, clock - cache.at)
  BY <1>1, <1>2, <1>4 DEF Heard, Undisturbed, Fits
<1>9. Fits(new, seen[r], cache)
  BY <1>6, <1>7, <1>8 DEF Fits
<1> QED
  BY <1>2, <1>4, <1>9, QuietMoves

LEMMA ReceiveMoves ==
  ASSUME IInv, NEW r \in Requests, ReceiveKeys(r)
  PROVE  \E new : Moves(r, new)
<1> DEFINE q == requests[r]
           new == GoTo(q, "install", 0)
<1>1. q \in Request /\ Fits(q, seen[r], cache) /\ clock \in Nat
  BY AtWork
<1>2. q.step = "receive" /\ Quiet(r, new)
  BY DEF ReceiveKeys, At, Quiet, Enter, GoTo
<1> HIDE DEF q
<1>3. /\ new \in Request /\ new.step = "install" /\ new.keys = q.keys
      /\ new.token = q.token
  BY <1>1, StepAndAt DEF Steps
<1>4. q.keys \in SUBSET KeyIds /\ q.at \in Nat
  BY <1>1 DEF Request
<1> HIDE DEF new
<1>5. \A k \in q.keys : clock <= published_until[k] + FetchTimeout
  <2>1. q.at <= clock /\ clock <= q.at + FetchTimeout /\ \A k \in q.keys : q.at <= published_until[k]
    BY <1>1, <1>2 DEF Timely, Fits
  <2>2. \A k \in q.keys : published_until[k] \in Int
    BY <1>4 DEF IInv, TypeOK
  <2> QED
    BY <1>1, <1>4, <2>1, <2>2, TimesAssumption
<1>6. Timely(new, clock, published_until)
  BY <1>3, <1>5 DEF Timely
<1>7. Known(new, seen[r], users, Wired)
  BY <1>1, <1>2, <1>3 DEF Known, Fits
<1>8. Heard(new, seen[r], Keys(published), cache.keys, clock - cache.at)
  BY <1>1, <1>2, <1>3 DEF Heard, Undisturbed, Fits
<1>9. Fits(new, seen[r], cache)
  BY <1>6, <1>7, <1>8 DEF Fits
<1> QED
  BY <1>2, <1>3, <1>9, QuietMoves

LEMMA FailsMoves ==
  ASSUME IInv, NEW r \in Requests, FetchFails(r)
  PROVE  \E new : Moves(r, new)
<1> DEFINE q == requests[r]
           p == [q EXCEPT !.keys = {}]
           s == [seen[r] EXCEPT !.failed = TRUE]
<1>1. q \in Request /\ Fits(q, seen[r], cache) /\ clock \in Nat
  BY AtWork
<1>2. seen[r] \in History /\ seen \in [Requests -> History] /\ faults \in 0..MaxFaults
  BY AtWork
<1>3. q.step \in {"fetch", "receive"}
  BY DEF FetchFails, At
<1>4. /\ Enter(r, TriedByGuest(p)) /\ UNCHANGED <<Outside, cache>>
      /\ seen' = [seen EXCEPT ![r] = s]
  BY DEF FetchFails
<1>5. faults' \in 0..MaxFaults
  BY <1>2, TimesAssumption DEF FetchFails
<1>6. p \in Request
  BY <1>1, SetKeys
<1>7. p.step = q.step /\ p.token = q.token /\ p.at = q.at /\ p.keys = {}
  BY <1>1 DEF Request
<1>8. s \in History /\ s.failed /\ s.kept = seen[r].kept /\ s.roles = seen[r].roles
  BY <1>2 DEF History
<1> HIDE DEF q, p, s
<1>9. Timely(p, clock, published_until)
  BY <1>1, <1>3, <1>7 DEF Timely, Fits
<1>10. Known(p, s, users, Wired)
  BY <1>1, <1>3, <1>7, <1>8 DEF Known, Fits
<1>11. Heard(p, s, Keys(published), cache.keys, clock - cache.at)
  BY <1>3, <1>7, <1>8 DEF Heard, Undisturbed
<1>12. Fits(p, s, cache)
  BY <1>9, <1>10, <1>11 DEF Fits
<1>13. p.step # "idle" /\ ~ Undisturbed(p, s)
  BY <1>3, <1>7, <1>8 DEF Undisturbed
<1>14. TriedByGuest(p) \in Request /\ Fits(TriedByGuest(p), s, cache)
  BY <1>1, <1>6, <1>12, <1>13, GuestFits
<1>15. /\ seen' \in [Requests -> History] /\ seen'[r] = s
       /\ \A o \in Requests \ {r} : seen'[o] = seen[o]
  BY <1>2, <1>4, <1>8
<1>16. Moves(r, TriedByGuest(p))
  BY <1>4, <1>5, <1>14, <1>15 DEF Moves, Enter
<1> QED
  BY <1>16

LEMMA InstallMoves ==
  ASSUME IInv, NEW r \in Requests, InstallKeys(r)
  PROVE  \E new : Moves(r, new)
<1> DEFINE q == requests[r]
           new == GoWith(q, "again", {})
           c == [keys |-> q.keys, at |-> clock]
<1>1. q \in Request /\ Fits(q, seen[r], cache) /\ clock \in Nat
  BY AtWork
<1>2. seen[r] \in History /\ seen \in [Requests -> History] /\ faults \in 0..MaxFaults
  BY AtWork
<1>3. q.step = "install" /\ cache' = c /\ Enter(r, new) /\ UNCHANGED <<Outside, faults>>
  BY DEF InstallKeys, At, GoWith
<1>4. /\ seen' \in [Requests -> History]
      /\ \A p \in Requests : seen'[p] = IF p # r /\ requests[p].step = "again"
                                        THEN [seen[p] EXCEPT !.overtaken = TRUE] ELSE seen[p]
  <2>1. seen' = [p \in Requests |->
          IF p # r /\ requests[p].step = "again" THEN [seen[p] EXCEPT !.overtaken = TRUE] ELSE seen[p]]
    BY DEF InstallKeys, At
  <2>2. \A p \in Requests : [seen[p] EXCEPT !.overtaken = TRUE] \in History /\ seen[p] \in History
    BY <1>2 DEF History
  <2> QED
    BY <2>1, <2>2
<1>5. new \in Request /\ new.step = "again" /\ new.token = q.token
  BY <1>1, StepAndKeys DEF Steps
<1>6. c.keys = q.keys /\ clock - c.at = 0
  BY <1>1
<1>7. Installs(r)
  BY <1>3, <1>4 DEF Installs
<1> HIDE DEF q, new, c
<1>8. Timely(new, clock, published_until)
  BY <1>5 DEF Timely
<1>9. Known(new, seen[r], users, Wired)
  BY <1>1, <1>3, <1>5 DEF Known, Fits
<1>10. Heard(new, seen[r], Keys(published), c.keys, clock - c.at)
  BY <1>1, <1>3, <1>5, <1>6 DEF Heard, Undisturbed, Fits
<1>11. Fits(new, seen'[r], cache')
  BY <1>3, <1>4, <1>8, <1>9, <1>10 DEF Fits
<1>12. Moves(r, new)
  BY <1>2, <1>3, <1>4, <1>5, <1>7, <1>11 DEF Moves, Enter
<1> QED
  BY <1>12

LEMMA LookupAgainMoves ==
  ASSUME IInv, NEW r \in Requests, LookupAgain(r)
  PROVE  \E new : Moves(r, new)
<1> DEFINE q == requests[r]
<1>1. q \in Request /\ Fits(q, seen[r], cache) /\ clock \in Nat
  BY AtWork
<1>2. q.step = "again"
  BY DEF LookupAgain, At
<1>3. CASE CachedKey(q.token.kid)
  <2> DEFINE new == GoTo(q, "verify", clock)
  <2>1. Quiet(r, new)
    BY <1>3 DEF LookupAgain, Quiet, Enter, GoTo
  <2>2. new \in Request /\ Fits(new, seen[r], cache)
    BY <1>2, <1>3, FoundFits
  <2> QED
    BY <2>1, <2>2, QuietMoves
<1>4. CASE ~ CachedKey(q.token.kid)
  <2>1. Quiet(r, TriedByGuest(q))
    BY <1>4 DEF LookupAgain, Quiet, Enter
  <2>2. Undisturbed(q, seen[r]) => seen[r].overtaken
    <3>1. SUFFICES ASSUME Undisturbed(q, seen[r]), ~ seen[r].overtaken PROVE FALSE
      OBVIOUS
    <3>2. q.token.kid \in cache.keys /\ clock - cache.at = 0
      BY <1>1, <1>2, <3>1 DEF Fits, Heard
    <3>3. 0 < Lifetime
      BY TimesAssumption
    <3> QED
      BY <1>4, <3>2, <3>3 DEF CachedKey
  <2>3. TriedByGuest(q) \in Request /\ Fits(TriedByGuest(q), seen[r], cache)
    BY <1>1, <1>2, <2>2, GuestFits
  <2> QED
    BY <2>1, <2>3, QuietMoves
<1> QED
  BY <1>3, <1>4

LEMMA VerifyMoves ==
  ASSUME IInv, NEW r \in Requests, Verify(r)
  PROVE  \E new : Moves(r, new)
<1> DEFINE q == requests[r]
           t == q.token
<1>1. q \in Request /\ Fits(q, seen[r], cache) /\ clock \in Nat
  BY AtWork
<1>2. q.step = "verify"
  BY DEF Verify, At
<1>3. t \in Tokens /\ Backed(q, published_until)
  BY <1>1, <1>2 DEF Fits, Known, Timely
<1>4. CASE t.signed /\ ValidateClaims(t, clock) /\ ValidPrincipal(t)
  <2>1. Quiet(r, Accepted(q, JWTPrincipal(t)))
    BY <1>4 DEF Verify, Quiet, Enter
  <2>2. JWTPrincipal(t) \in Principal /\ JWTPrincipal(t).user = q.token.sub
    BY <1>3, <1>4, JWTIsPrincipal
  <2>3. Accepted(q, JWTPrincipal(t)) \in Request /\ Fits(Accepted(q, JWTPrincipal(t)), seen[r], cache)
    BY <1>1, <1>2, <1>3, <2>2, AcceptedFits
  <2> QED
    BY <2>1, <2>3, QuietMoves
<1>5. CASE ~ (t.signed /\ ValidateClaims(t, clock) /\ ValidPrincipal(t))
  <2>1. Quiet(r, TriedByGuest(q))
    BY <1>5 DEF Verify, Quiet, Enter
  <2>2. ~ GoodToken(q.token, clock)
    BY <1>5 DEF GoodToken
  <2>3. TriedByGuest(q) \in Request /\ Fits(TriedByGuest(q), seen[r], cache)
    BY <1>1, <1>2, <2>2, GuestFits
  <2> QED
    BY <2>1, <2>3, QuietMoves
<1> QED
  BY <1>4, <1>5

(* The middleware after authentication.                                    *)
LEMMA AuthorizeMoves ==
  ASSUME IInv, NEW r \in Requests, NoAuthorizer(r) \/ AuthorizePrincipal(r) \/ MembershipUnavailable(r)
  PROVE  \E new : Moves(r, new)
<1> DEFINE q == requests[r]
<1>1. q \in Request /\ Fits(q, seen[r], cache) /\ clock \in Nat
  BY AtWork
<1>2. q.step = "authorize"
  BY DEF NoAuthorizer, AuthorizePrincipal, MembershipUnavailable, At
<1>3. ASSUME NEW status \in Statuses, status # 401, Quiet(r, Refused(q, status))
      PROVE  \E new : Moves(r, new)
  <2>1. Refused(q, status) \in Request /\ Fits(Refused(q, status), seen[r], cache)
    BY <1>1, <1>2, <1>3, RefusedFits
  <2> QED
    BY <1>3, <2>1, QuietMoves
<1>4. ASSUME Quiet(r, Serving(q)),
             Wired => q.principal.role \in seen[r].roles /\ q.principal.org = Organization
      PROVE  \E new : Moves(r, new)
  <2>1. Serving(q) \in Request /\ Fits(Serving(q), seen[r], cache)
    BY <1>1, <1>2, <1>4, ServingFits
  <2> QED
    BY <1>4, <2>1, QuietMoves
<1>5. CASE NoAuthorizer(r)
  <2>1. CASE authorizer.required
    <3>1. Quiet(r, Refused(q, 503))
      BY <1>5, <2>1 DEF NoAuthorizer, Quiet, Enter
    <3> QED
      BY <1>3, <3>1 DEF Statuses
  <2>2. CASE ~ authorizer.required
    <3>1. Quiet(r, Serving(q)) /\ ~ Wired
      BY <1>5, <2>2 DEF NoAuthorizer, Quiet, Enter, Wired
    <3> QED
      BY <1>4, <3>1
  <2> QED
    BY <2>1, <2>2
<1>6. CASE AuthorizePrincipal(r)
  <2>1. CASE q.principal.org = Organization /\ users[q.principal.user] = q.principal.role
    <3>1. Quiet(r, Serving(q))
      BY <1>6, <2>1 DEF AuthorizePrincipal, Quiet, Enter
    <3>2. q.principal \in Principal /\ q.principal.user = q.token.sub
      BY <1>1, <1>2 DEF Fits, Known
    <3>3. q.token.sub \in Users
      BY <3>2 DEF Principal
    <3>4. users[q.token.sub] \in seen[r].roles
      BY <1>1, <1>2, <3>3 DEF Fits, Known
    <3> QED
      BY <1>4, <2>1, <3>1, <3>2, <3>4
  <2>2. CASE ~ (q.principal.org = Organization /\ users[q.principal.user] = q.principal.role)
    <3>1. Quiet(r, Refused(q, 403))
      BY <1>6, <2>2 DEF AuthorizePrincipal, Quiet, Enter
    <3> QED
      BY <1>3, <3>1 DEF Statuses
  <2> QED
    BY <2>1, <2>2
<1>7. CASE MembershipUnavailable(r)
  <2>1. Quiet(r, Refused(q, 503))
    BY <1>7 DEF MembershipUnavailable, Quiet, Enter
  <2> QED
    BY <1>3, <2>1 DEF Statuses
<1> QED
  BY <1>5, <1>6, <1>7

LEMMA IdleFits ==
  /\ Idle \in Request /\ NothingSeen \in History
  /\ \A c : Fits(Idle, NothingSeen, c)
<1>1. Idle \in Request
  BY DEF Idle, Request, Steps, Statuses
<1>2. Idle.step = "idle" /\ NothingSeen.kept = FALSE /\ NothingSeen \in History
  BY DEF Idle, NothingSeen, History
<1>3. \A c : Fits(Idle, NothingSeen, c)
  BY <1>2 DEF Fits, Timely, Known, Heard, Undisturbed
<1> QED
  BY <1>1, <1>2, <1>3

LEMMA AnsweredMoves ==
  ASSUME IInv, NEW r \in Requests, Answered(r)
  PROVE  \E new : Moves(r, new)
<1>1. seen \in [Requests -> History] /\ faults \in 0..MaxFaults
  BY AtWork
<1>2. Enter(r, Idle) /\ seen' = [seen EXCEPT ![r] = NothingSeen] /\ UNCHANGED <<Outside, cache, faults>>
  BY DEF Answered
<1>3. /\ seen' \in [Requests -> History] /\ seen'[r] = NothingSeen
      /\ \A p \in Requests \ {r} : seen'[p] = seen[p]
  BY <1>1, <1>2, IdleFits
<1>4. Moves(r, Idle)
  BY <1>1, <1>2, <1>3, IdleFits DEF Moves, Enter
<1> QED
  BY <1>4

LEMMA BeginMoves ==
  ASSUME IInv, NEW r \in Requests, NEW t \in Tokens, Begin(r, t)
  PROVE  \E new : Moves(r, new)
<1> DEFINE q == [Idle EXCEPT !.step = "lookup", !.token = t, !.at = clock]
           kept == t.kid \in Keys(published)
           roles == {users[u] : u \in {t.sub} \cap Users}
           s == [NothingSeen EXCEPT !.kept = kept, !.roles = roles]
<1>1. seen \in [Requests -> History] /\ faults \in 0..MaxFaults /\ clock \in Nat
  BY AtWork
<1>2. /\ Enter(r, IF ParsesJWT(t) THEN q ELSE TriedByGuest(q)) /\ UNCHANGED <<Outside, cache, faults>>
      /\ seen' = [seen EXCEPT ![r] = s]
  BY DEF Begin
<1>3. q \in Request
  <2>1. [Idle EXCEPT !.step = "lookup"] \in Request
    BY IdleFits, SetStep DEF Steps
  <2>2. [[Idle EXCEPT !.step = "lookup"] EXCEPT !.token = t] \in Request
    BY <2>1, SetToken
  <2>3. [[[Idle EXCEPT !.step = "lookup"] EXCEPT !.token = t] EXCEPT !.at = clock] \in Request
    BY <1>1, <2>2, SetAt
  <2> QED
    BY <2>3
<1>4. q \in Request /\ q.step = "lookup" /\ q.token = t
  BY <1>3, IdleFits DEF Request
<1> HIDE DEF q
<1>5. kept \in BOOLEAN /\ roles \in SUBSET (Roles \cup {Absent})
  BY DEF IInv, TypeOK
<1>6. t.sub \in Users => users[t.sub] \in roles
  OBVIOUS
<1> HIDE DEF kept, roles
<1>7. s \in History /\ s.kept = kept /\ ~ s.failed /\ s.roles = roles
  BY <1>5, IdleFits DEF NothingSeen, History
<1> HIDE DEF s
<1>8. Timely(q, clock, published_until)
  BY <1>4 DEF Timely
<1>9. Known(q, s, users, Wired)
  BY <1>4, <1>6, <1>7 DEF Known
<1>10. Heard(q, s, Keys(published), cache.keys, clock - cache.at)
  BY <1>4, <1>7 DEF Heard, Undisturbed, kept
<1>11. Fits(q, s, cache)
  BY <1>8, <1>9, <1>10 DEF Fits
<1>12. /\ seen' \in [Requests -> History] /\ seen'[r] = s
       /\ \A p \in Requests \ {r} : seen'[p] = seen[p]
  BY <1>1, <1>2, <1>7
<1>13. CASE ParsesJWT(t)
  <2>1. Moves(r, q)
    BY <1>1, <1>2, <1>4, <1>11, <1>12, <1>13 DEF Moves, Enter
  <2> QED
    BY <2>1
<1>14. CASE ~ ParsesJWT(t)
  <2>1. ~ GoodToken(q.token, clock) /\ q.step # "idle"
    BY <1>4, <1>14 DEF GoodToken
  <2>2. TriedByGuest(q) \in Request /\ Fits(TriedByGuest(q), s, cache)
    BY <1>1, <1>4, <1>11, <2>1, GuestFits
  <2>3. Moves(r, TriedByGuest(q))
    BY <1>1, <1>2, <2>2, <1>12, <1>14 DEF Moves, Enter
  <2> QED
    BY <2>3
<1> QED
  BY <1>13, <1>14

LEMMA StepKeepsInvariant ==
  ASSUME IInv, NEW r \in Requests, Step(r) \/ \E t \in Tokens : Begin(r, t)
  PROVE  IInv'
<1>1. \E new : Moves(r, new)
  BY LookupMoves, AnswersMoves, ReceiveMoves, FailsMoves, InstallMoves, LookupAgainMoves, VerifyMoves,
     AuthorizeMoves, AnsweredMoves, BeginMoves DEF Step
<1>2. PICK new : Moves(r, new)
  BY <1>1
<1> QED
  BY <1>2, MovesKeepInvariant

-----------------------------------------------------------------------------
(* The world around the requests.                                          *)

LEMMA PublishKeeps ==
  ASSUME IInv, Publish
  PROVE  IInv'
<1>1. /\ TypeOK /\ clock \in Nat /\ published_until \in [KeyIds -> Int] /\ seen \in [Requests -> History]
      /\ published \in Nat
  BY AtWork, DocumentsAssumption, TimesAssumption DEF IInv, TypeOK
<1>2. /\ UNCHANGED <<clock, cache, users, authorizer, requests, faults>>
      /\ published' = published + 1 /\ published < Len(Documents)
  BY DEF Publish
<1>3. published' \in DOMAIN Documents
  BY <1>1, <1>2, DocumentsAssumption DEF IInv, TypeOK
<1>4. /\ published_until' \in [KeyIds -> Int]
      /\ \A k \in KeyIds : published_until'[k] = IF k \in Keys(published') THEN clock ELSE published_until[k]
  BY <1>1, <1>2 DEF Publish
<1>5. /\ seen' \in [Requests -> History]
      /\ \A r \in Requests :
           /\ seen'[r].failed = seen[r].failed /\ seen'[r].overtaken = seen[r].overtaken
           /\ seen'[r].roles = seen[r].roles
           /\ seen'[r].kept <=> seen[r].kept /\ requests[r].step # "idle"
                                /\ requests[r].token.kid \in Keys(published')
  <2>1. \A r \in Requests : seen'[r] = [seen[r] EXCEPT !.kept =
          @ /\ requests[r].step # "idle" /\ requests[r].token.kid \in Keys(published + 1)]
    BY DEF Publish, At
  <2>2. seen' = [r \in Requests |-> seen'[r]]
    BY DEF Publish
  <2>3. ASSUME NEW r \in Requests
        PROVE  /\ seen'[r] \in History
               /\ seen'[r].failed = seen[r].failed /\ seen'[r].overtaken = seen[r].overtaken
               /\ seen'[r].roles = seen[r].roles
               /\ seen'[r].kept <=> seen[r].kept /\ requests[r].step # "idle"
                                    /\ requests[r].token.kid \in Keys(published')
    <3>1. seen[r] \in History
      BY <1>1
    <3> DEFINE kept == seen[r].kept /\ requests[r].step # "idle" /\ requests[r].token.kid \in Keys(published + 1)
    <3>2. kept \in BOOLEAN /\ seen'[r] = [seen[r] EXCEPT !.kept = kept]
      BY <2>1, <3>1 DEF History
    <3> HIDE DEF kept
    <3>3. /\ seen'[r] \in History /\ seen'[r].kept = kept
          /\ seen'[r].failed = seen[r].failed /\ seen'[r].overtaken = seen[r].overtaken
          /\ seen'[r].roles = seen[r].roles
      BY <3>1, <3>2 DEF History
    <3> QED
      BY <1>2, <3>3 DEF kept
  <2> QED
    BY <2>2, <2>3
<1>6. TypeOK'
  BY <1>1, <1>2, <1>3, <1>4, <1>5 DEF TypeOK
<1>7. \A k \in KeyIds : published_until[k] <= published_until'[k] /\ published_until'[k] <= clock
  BY <1>1, <1>4 DEF IInv, Dated
<1>8. cache.keys \subseteq KeyIds /\ cache.at \in Int
  <2>1. cache \in [keys : SUBSET KeyIds, at : {-Lifetime} \cup 0..clock]
    BY <1>1 DEF TypeOK
  <2>2. {-Lifetime} \cup 0..clock \subseteq Int
    BY <1>1, TimesAssumption
  <2> QED
    BY <2>1, <2>2
<1>9. Aged'
  BY <1>1, <1>2, <1>4, <1>7, <1>8, TimesAssumption DEF IInv, Aged
<1>10. Dated'
  <2>1. Keys(published)' = Keys(published')
    BY DEF Keys
  <2>2. Keys(published') \subseteq KeyIds
    BY <1>3, KeysAreKeyIds
  <2> QED
    BY <1>2, <1>4, <1>7, <2>1, <2>2 DEF Dated
<1>11. ASSUME NEW r \in Requests
       PROVE  Fits(requests[r], seen[r], cache)'
  <2>1. Fits(requests[r], seen[r], cache) /\ requests[r] \in Request
    BY AtWork
  <2>2. requests[r].keys \subseteq KeyIds /\ requests[r].at \in Nat
    BY <2>1 DEF Request
  <2>3. Timely(requests[r], clock, published_until')
    BY <1>1, <1>4, <1>7, <2>1, <2>2, TimesAssumption DEF Fits, Timely, Backed
  <2>4. Known(requests[r], seen'[r], users, Wired)
    BY <1>5, <2>1 DEF Fits, Known
  <2>5. Heard(requests[r], seen'[r], Keys(published'), cache.keys, clock - cache.at)
    BY <1>5, <2>1 DEF Fits, Heard, Undisturbed
  <2>6. Keys(published)' = Keys(published') /\ Wired' = Wired
    BY <1>2 DEF Keys, Wired
  <2> QED
    BY <1>2, <2>3, <2>4, <2>5, <2>6 DEF Fits
<1> QED
  BY <1>6, <1>9, <1>10, <1>11 DEF IInv

LEMMA ChangeRoleKeeps ==
  ASSUME IInv, NEW u \in Users, NEW role \in NewRoles, ChangeRole(u, role)
  PROVE  IInv'
<1>1. TypeOK /\ seen \in [Requests -> History] /\ users \in [Users -> Roles \cup {Absent}]
  BY DEF IInv, TypeOK
<1>2. /\ UNCHANGED <<clock, published, cache, authorizer, requests, published_until>>
      /\ users' = [users EXCEPT ![u] = role]
  BY DEF ChangeRole
<1>3. role \in Roles \cup {Absent}
  BY MembersAssumption
<1>4. /\ seen' \in [Requests -> History]
      /\ \A r \in Requests :
           /\ seen'[r].kept = seen[r].kept /\ seen'[r].failed = seen[r].failed
           /\ seen'[r].overtaken = seen[r].overtaken
           /\ seen[r].roles \subseteq seen'[r].roles
           /\ requests[r].step # "idle" /\ requests[r].token.sub = u => role \in seen'[r].roles
  <2>1. seen' = [r \in Requests |->
          IF requests[r].step # "idle" /\ requests[r].token.sub = u
          THEN [seen[r] EXCEPT !.roles = @ \cup {role}] ELSE seen[r]]
    BY DEF ChangeRole, At
  <2>2. ASSUME NEW r \in Requests
        PROVE  /\ [seen[r] EXCEPT !.roles = @ \cup {role}] \in History
               /\ [seen[r] EXCEPT !.roles = @ \cup {role}].kept = seen[r].kept
               /\ [seen[r] EXCEPT !.roles = @ \cup {role}].failed = seen[r].failed
               /\ [seen[r] EXCEPT !.roles = @ \cup {role}].overtaken = seen[r].overtaken
               /\ [seen[r] EXCEPT !.roles = @ \cup {role}].roles = seen[r].roles \cup {role}
    BY <1>1, <1>3 DEF History
  <2> QED
    BY <1>1, <2>1, <2>2
<1>5. faults' \in 0..MaxFaults
  BY <1>1, TimesAssumption DEF ChangeRole, TypeOK
<1>6. TypeOK'
  BY <1>1, <1>2, <1>3, <1>4, <1>5 DEF TypeOK
<1>7. Aged' /\ Dated'
  BY <1>2 DEF IInv, Aged, Dated, Keys
<1>8. ASSUME NEW r \in Requests
      PROVE  Fits(requests[r], seen[r], cache)'
  <2>1. Fits(requests[r], seen[r], cache)
    BY AtWork
  <2>2. Timely(requests[r], clock, published_until)
    BY <2>1 DEF Fits
  <2>3. Known(requests[r], seen'[r], users', Wired)
    BY <1>1, <1>2, <1>4, <2>1 DEF Fits, Known
  <2>4. Heard(requests[r], seen'[r], Keys(published), cache.keys, clock - cache.at)
    BY <1>4, <2>1 DEF Fits, Heard, Undisturbed
  <2>5. Keys(published)' = Keys(published) /\ Wired' = Wired
    BY <1>2 DEF Keys, Wired
  <2> QED
    BY <1>2, <2>2, <2>3, <2>4, <2>5 DEF Fits
<1> QED
  BY <1>6, <1>7, <1>8 DEF IInv

(* Time passes only between requests, and while they fetch.                *)
LEMMA TickKeeps ==
  ASSUME IInv, Tick
  PROVE  IInv'
<1>1. /\ TypeOK /\ clock \in Nat /\ published_until \in [KeyIds -> Int] /\ published \in DOMAIN Documents
      /\ clock' = clock + 1 /\ clock' \in 0..MaxClock
  BY TimesAssumption DEF IInv, TypeOK, Tick
<1>2. UNCHANGED <<published, cache, users, authorizer, requests, seen, faults>>
  BY DEF Tick
<1>3. /\ published_until' \in [KeyIds -> Int]
      /\ \A k \in KeyIds : published_until'[k] = IF k \in Keys(published) THEN clock + 1 ELSE published_until[k]
  BY <1>1 DEF Tick
<1>4. Keys(published) \subseteq KeyIds /\ Keys(published)' = Keys(published) /\ Wired' = Wired
  BY <1>1, <1>2, KeysAreKeyIds DEF Keys, Wired
<1>5. \A k \in KeyIds : published_until[k] <= published_until'[k] /\ published_until'[k] <= clock'
  BY <1>1, <1>3 DEF IInv, Dated
<1>6. cache \in [keys : SUBSET KeyIds, at : {-Lifetime} \cup 0..clock]
  BY <1>1 DEF TypeOK
<1>7. {-Lifetime} \cup 0..clock \subseteq {-Lifetime} \cup 0..clock' /\ {-Lifetime} \cup 0..clock \subseteq Int
  BY <1>1, TimesAssumption
<1>8. cache.keys \subseteq KeyIds /\ cache.at \in Int /\ cache \in [keys : SUBSET KeyIds, at : {-Lifetime} \cup 0..clock']
  BY <1>6, <1>7
<1>9. TypeOK'
  BY <1>1, <1>2, <1>3, <1>8 DEF TypeOK
<1>10. Aged'
  BY <1>1, <1>2, <1>3, <1>5, <1>8, TimesAssumption DEF IInv, Aged
<1>11. Dated'
  BY <1>1, <1>3, <1>4, <1>5 DEF Dated
<1>12. ASSUME NEW r \in Requests
       PROVE  Fits(requests[r], seen[r], cache)'
  <2>1. Fits(requests[r], seen[r], cache) /\ requests[r] \in Request
    BY AtWork
  <2>2. requests[r].keys \subseteq KeyIds /\ requests[r].at \in Nat
    BY <2>1 DEF Request
  <2>3. \/ requests[r].step = "idle"
        \/ requests[r].step \in {"fetch", "receive"} /\ clock < requests[r].at + FetchTimeout
    BY DEF Tick, Waiting, At
  <2>4. Timely(requests[r], clock', published_until')
    BY <1>1, <1>3, <1>5, <2>1, <2>2, <2>3, TimesAssumption DEF Fits, Timely
  <2>5. Known(requests[r], seen[r], users, Wired)
    BY <2>1 DEF Fits
  <2>6. Heard(requests[r], seen[r], Keys(published), cache.keys, clock' - cache.at)
    BY <2>1, <2>3 DEF Fits, Heard, Undisturbed
  <2> QED
    BY <1>2, <1>4, <2>4, <2>5, <2>6 DEF Fits
<1> QED
  BY <1>9, <1>10, <1>11, <1>12 DEF IInv

LEMMA RestartKeeps ==
  ASSUME IInv, Restart
  PROVE  IInv'
<1>1. /\ UNCHANGED <<clock, published, users, published_until>>
      /\ cache' = EmptyCache /\ authorizer' \in [present : BOOLEAN, required : BOOLEAN]
      /\ requests' = [r \in Requests |-> Idle] /\ seen' = [r \in Requests |-> NothingSeen]
  BY DEF Restart
<1>2. faults' \in 0..MaxFaults
  BY TimesAssumption DEF IInv, TypeOK, Restart
<1>3. EmptyCache \in [keys : SUBSET KeyIds, at : {-Lifetime} \cup 0..clock] /\ EmptyCache.keys = {}
  BY DEF EmptyCache
<1>4. TypeOK'
  BY <1>1, <1>2, <1>3, IdleFits DEF IInv, TypeOK
<1>5. Aged' /\ Dated'
  BY <1>1, <1>3 DEF IInv, Aged, Dated, Keys
<1>6. ASSUME NEW r \in Requests
      PROVE  Fits(requests[r], seen[r], cache)'
  <2>1. Idle.step = "idle" /\ ~ NothingSeen.kept
    BY DEF Idle, NothingSeen
  <2>2. requests'[r] = Idle /\ seen'[r] = NothingSeen
    BY <1>1
  <2> QED
    BY <2>1, <2>2 DEF Fits, Timely, Known, Heard, Undisturbed
<1> QED
  BY <1>4, <1>5, <1>6 DEF IInv

-----------------------------------------------------------------------------
(* Main theorems.                                                          *)

LEMMA InvariantStarts ==
  ASSUME Init
  PROVE  IInv
<1>1. 1 \in DOMAIN Documents
  BY DocumentsAssumption
<1>2. EmptyCache \in [keys : SUBSET KeyIds, at : {-Lifetime} \cup 0..clock] /\ EmptyCache.keys = {}
  BY DEF EmptyCache
<1>3. published_until \in [KeyIds -> Int] /\ clock \in 0..MaxClock /\ faults \in 0..MaxFaults
  BY TimesAssumption DEF Init
<1>4. users \in [Users -> Roles \cup {Absent}]
  BY MembersAssumption DEF Init
<1>5. TypeOK
  BY <1>1, <1>2, <1>3, <1>4, IdleFits DEF Init, TypeOK
<1>6. Aged /\ Dated
  <2>1. \A k \in KeyIds : published_until[k] <= 0
    BY DEF Init
  <2>2. \A k \in Keys(1) : published_until[k] = 0
    BY <1>1, KeysAreKeyIds DEF Init
  <2> QED
    BY <1>2, <2>1, <2>2 DEF Init, Aged, Dated
<1>7. \A r \in Requests : Fits(requests[r], seen[r], cache)
  BY IdleFits DEF Init
<1> QED
  BY <1>5, <1>6, <1>7 DEF IInv

LEMMA InvariantStays ==
  ASSUME IInv, [Next]_vars
  PROVE  IInv'
<1>1. CASE \E r \in Requests : Step(r) \/ \E t \in Tokens : Begin(r, t)
  BY <1>1, StepKeepsInvariant
<1>2. CASE Publish
  BY <1>2, PublishKeeps
<1>3. CASE Tick
  BY <1>3, TickKeeps
<1>4. CASE Restart
  BY <1>4, RestartKeeps
<1>5. CASE \E u \in Users, role \in NewRoles : ChangeRole(u, role)
  BY <1>5, ChangeRoleKeeps
<1>6. CASE UNCHANGED vars
  <2>1. Keys(published)' = Keys(published) /\ Wired' = Wired
    BY <1>6 DEF vars, Keys, Wired
  <2>2. TypeOK' /\ Aged' /\ Dated'
    BY <1>6 DEF vars, IInv, TypeOK, Aged, Dated, Keys
  <2>3. \A r \in Requests : Fits(requests[r], seen[r], cache)'
    BY <1>6, <2>1 DEF vars, IInv, Fits
  <2> QED
    BY <2>2, <2>3 DEF IInv
<1> QED
  BY <1>1, <1>2, <1>3, <1>4, <1>5, <1>6 DEF Next

(* The cache, the requests and what they remember keep their types.        *)
THEOREM TypeCorrect == Spec => []TypeOK
<1>1. IInv => TypeOK
  BY DEF IInv
<1> QED
  BY <1>1, InvariantStarts, InvariantStays, PTL DEF Spec

(* For any key sets, lifetimes and numbers of overlapping requests: no     *)
(* token is accepted under a key that was withdrawn longer ago than a      *)
(* cache lifetime and a fetch (jwt.go:328, jwt.go:397).                    *)
THEOREM KeysRunOut == Spec => []WithdrawnKeysRunOut
<1>1. ASSUME IInv PROVE WithdrawnKeysRunOut
  <2>1. \A r \in Requests : Timely(requests[r], clock, published_until)
    BY <1>1 DEF IInv, Fits
  <2> QED
    BY <2>1 DEF WithdrawnKeysRunOut, Timely, Backed
<1> QED
  BY <1>1, InvariantStarts, InvariantStays, PTL DEF Spec

(* Whatever tokens say, however roles change and the lookup fails: with a  *)
(* database, or in production, a handler runs for somebody who has had     *)
(* that role in the organization during the request                        *)
(* (principal_authorizer.go:40, auth_middleware.go:34).                    *)
THEOREM MembersAreServed == Spec => []ServedWithMembership
<1>1. ASSUME IInv PROVE ServedWithMembership
  <2>1. \A r \in Requests : Known(requests[r], seen[r], users, Wired)
    BY <1>1 DEF IInv, Fits
  <2> QED
    BY <2>1 DEF ServedWithMembership, Known, Wired, At
<1> QED
  BY <1>1, InvariantStarts, InvariantStays, PTL DEF Spec

(* A good token whose key was published all the time is answered 401 only  *)
(* after a fetch of its own that failed, or after a slower request has put *)
(* an older key set into the cache (jwt.go:315-326, jwt.go:398).           *)
THEOREM RefusalsHaveACause == Spec => []RefusedForCause
<1>1. ASSUME IInv PROVE RefusedForCause
  <2>1. \A r \in Requests : Heard(requests[r], seen[r], Keys(published), cache.keys, clock - cache.at)
    BY <1>1 DEF IInv, Fits
  <2> QED
    BY <2>1 DEF RefusedForCause, Heard, Undisturbed
<1> QED
  BY <1>1, InvariantStarts, InvariantStays, PTL DEF Spec

=============================================================================
