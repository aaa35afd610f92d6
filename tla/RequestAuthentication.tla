----------------------- MODULE RequestAuthentication -----------------------
(***************************************************************************)
(* A request from its bearer token to its handler: the token is tried by   *)
(* the JWKS authenticator and then by the guest authenticator, and the     *)
(* principal it names is held against the membership in the database.      *)
(*                                                                         *)
(* The JWKS authenticator keeps the issuer's signing keys in memory for a  *)
(* limited time and fetches them again when it misses one.  Nothing makes  *)
(* requests take turns: each may fetch on its own, and the documents are   *)
(* installed in the order the fetches finish.  Meanwhile the issuer        *)
(* rotates its keys, the endpoint fails, roles change and the process      *)
(* restarts, which empties the cache.                                      *)
(*                                                                         *)
(* The clock moves only while no request is at work on a token, except to  *)
(* wait for the key endpoint: what is computed takes no time, but it       *)
(* interleaves with other requests.                                        *)
(***************************************************************************)
EXTENDS Integers, Sequences, FiniteSets

CONSTANTS
  Requests,      \* requests served at the same time
  Tokens,        \* the bearer tokens clients hold
  Documents,     \* Documents[d]: the entries of the issuer's d-th key set
  Members,       \* Members[u] = the role in users at first, or Absent
  Organization,  \* the organization the rows of users belong to
  Issuer, Audience,                              \* JWKSConfig
  GuestUser, GuestBusiness, GuestGoal,           \* GuestAuthenticator
  ClockSkew,     \* tolerance on the times of a token
  GuestSkew,     \* the 30 seconds of the guest authenticator
  Lifetime,      \* jwksCacheLifetime
  FetchTimeout,  \* Timeout of the HTTP client
  MaxClock,      \* bound: the clock stops there
  MaxFaults,     \* bound: failed fetches, role changes and restarts together
  NewRoles,      \* bound: what a role in users is changed to; Absent removes it
  Absent         \* a field, a header or a row that is not there

(* Config as main passes it on, ticks for seconds: a skew, a lifetime and a *)
(* timeout that is shorter than the lifetime.                               *)
ASSUME TimesAssumption ==
  /\ ClockSkew \in Nat /\ GuestSkew \in Nat
  /\ FetchTimeout \in Nat /\ Lifetime \in Nat /\ FetchTimeout < Lifetime
  /\ MaxClock \in Nat /\ MaxFaults \in Nat

ASSUME DocumentsAssumption == Documents \in Seq(SUBSET UNION {Documents[d] : d \in DOMAIN Documents})
                              /\ Documents # <<>>

Roles == {"owner", "operator", "viewer"}
Users == DOMAIN Members

ASSUME MembersAssumption ==
  /\ Members \in [Users -> Roles \cup {Absent}] /\ GuestUser \in Users
  /\ NewRoles \subseteq Roles \cup {Absent}

VARIABLES
  clock,       \* time.Now()
  published,   \* the key set the issuer serves, an index into Documents
  cache,       \* a.keys and a.refreshedAt
  users,       \* users[u] = role, or Absent without a row
  authorizer,  \* how the server was wired: [present, required]
  requests,    \* requests[r] = what the request holds in memory
  seen,        \* history of each request since it began, for the properties
  published_until, \* history: the last time each key was published
  faults       \* count of failed fetches, role changes and restarts, for the bound

vars == <<clock, published, cache, users, authorizer, requests, seen, published_until, faults>>

-----------------------------------------------------------------------------
(* Tokens.  A token is what parseJWT finds between the dots; one that      *)
(* carries no kid is not a JWT of the issuer, a guest token among them     *)
(* ("guest" is no base64).                                                 *)

Header(t) == t.kind = "bearer" \* one Authorization value with the prefix

(* rawString, rawAudience and rawNumber: required claims are there and not *)
(* empty; the optional times are absent or numbers.                        *)
DecodesClaims(t) ==
  /\ Absent \notin {t.iss, t.sub, t.org, t.role}
  /\ t.aud # {} /\ Absent \notin t.aud
  /\ t.exp # Absent

ParsesJWT(t) ==
  /\ Header(t)
  /\ t.alg = "RS256" /\ t.kid # Absent
  /\ DecodesClaims(t)

ValidateClaims(t, now) ==
  /\ t.iss = Issuer /\ Audience \in t.aud
  /\ t.exp >= now - ClockSkew
  /\ t.nbf # Absent => t.nbf <= now + ClockSkew
  /\ t.iat # Absent => t.iat <= now + ClockSkew

Principal == [user : Users, org : {t.org : t \in Tokens} \cup {Organization}, role : Roles, guest : BOOLEAN]

ValidPrincipal(t) == t.sub \in Users /\ t.role \in Roles

JWTPrincipal(t) == [user |-> t.sub, org |-> t.org, role |-> t.role, guest |-> FALSE]

GuestPrincipal == [user |-> GuestUser, org |-> Organization, role |-> "viewer", guest |-> TRUE]

(* GuestAuthenticator.Authenticate: the configured subject, business and   *)
(* goal, signed with the server's secret, and no tolerance on exp.         *)
GuestAccepts(t, now) ==
  /\ Header(t) /\ t.kid = Absent /\ t.signed
  /\ t.sub = GuestUser /\ t.org = Organization
  /\ t.business = GuestBusiness /\ t.goal = GuestGoal
  /\ t.iat > 0 /\ t.exp > t.iat
  /\ t.exp >= now /\ t.iat <= now + GuestSkew

-----------------------------------------------------------------------------
(* Keys.                                                                   *)

(* The entries refresh does not skip.  modulus is its length in bytes.     *)
UsableKeys(document) ==
  {e.kid : e \in {x \in document :
    /\ x.kty = "RSA" /\ x.kid # Absent
    /\ x.alg \in {Absent, "RS256"} /\ x.use \in {Absent, "sig"}
    /\ x.modulus \in 256..1024
    /\ x.exponent >= 3 /\ x.exponent % 2 = 1}}

Keys(d) == UsableKeys(Documents[d])
KeyIds == UNION {Keys(d) : d \in DOMAIN Documents}

(* Mutant: keys are kept as long as the process lives.                     *)
CachedKeyMutant(kid) == cache.at >= 0 /\ kid \in cache.keys

CachedKey(kid) == clock - cache.at < Lifetime /\ kid \in cache.keys

-----------------------------------------------------------------------------
(* Requests.                                                               *)

Steps == {"idle", "lookup", "fetch", "receive", "install", "again", "verify", "authorize",
          "serving", "refused"}

Statuses == {0, 401, 403, 503} \* 0: no answer of the middleware's own

(* at is when the fetch began, when the key was found, or when the answer  *)
(* was given; in between, when no time matters, it is 0.                   *)
Request == [step : Steps, token : Tokens \cup {Absent}, at : Nat,
            keys : SUBSET KeyIds, principal : Principal \cup {Absent},
            status : Statuses]

Idle == [step |-> "idle", token |-> Absent, at |-> 0, keys |-> {},
         principal |-> Absent, status |-> 0]

(* kept: the token's key was published all the time; failed: its fetch     *)
(* failed; overtaken: another document was installed between its own and   *)
(* its second look; roles: the roles the user has had.                     *)
History == [kept : BOOLEAN, failed : BOOLEAN, overtaken : BOOLEAN,
            roles : SUBSET (Roles \cup {Absent})]

TypeOK ==
  /\ clock \in 0..MaxClock
  /\ published \in DOMAIN Documents
  /\ cache \in [keys : SUBSET KeyIds, at : {-Lifetime} \cup 0..clock]
  /\ users \in [Users -> Roles \cup {Absent}]
  /\ authorizer \in [present : BOOLEAN, required : BOOLEAN]
  /\ requests \in [Requests -> Request]
  /\ seen \in [Requests -> History]
  /\ published_until \in [KeyIds -> Int]
  /\ faults \in 0..MaxFaults

NothingSeen == [kept |-> FALSE, failed |-> FALSE, overtaken |-> FALSE, roles |-> {}]
EmptyCache == [keys |-> {}, at |-> -Lifetime]

Init ==
  /\ clock = 0 /\ published = 1
  /\ cache = EmptyCache
  /\ users = Members
  /\ authorizer = [present |-> TRUE, required |-> TRUE]
  /\ requests = [r \in Requests |-> Idle]
  /\ seen = [r \in Requests |-> NothingSeen]
  /\ published_until = [k \in KeyIds |-> IF k \in Keys(1) THEN 0 ELSE -1]
  /\ faults = 0

Outside == <<clock, published, users, authorizer, published_until>>

Enter(r, fields) == requests' = [requests EXCEPT ![r] = fields]
At(r, step) == requests[r].step = step

(* What is left of a request after the authenticators have answered.       *)
Refused(q, status) == [q EXCEPT !.step = "refused", !.status = status, !.at = clock]
Accepted(q, principal) == [q EXCEPT !.step = "authorize", !.principal = principal]

(* The JWKS authenticator returned an error: the chain goes on to the      *)
(* guest authenticator, and an error of that one is 401.                   *)
TriedByGuest(q) ==
  IF GuestAccepts(q.token, clock) THEN Accepted(q, GuestPrincipal) ELSE Refused(q, 401)

Begin(r, t) ==
  /\ At(r, "idle")
  /\ LET q == [Idle EXCEPT !.step = "lookup", !.token = t, !.at = clock]
     IN  Enter(r, IF ParsesJWT(t) THEN q ELSE TriedByGuest(q))
  /\ seen' = [seen EXCEPT ![r] =
       [NothingSeen EXCEPT !.kept = t.kid \in Keys(published),
                           !.roles = {users[u] : u \in {t.sub} \cap Users}]]
  /\ UNCHANGED <<Outside, cache, faults>>

(* Mutant: as long as the cache is fresh, an unknown key id is refused.    *)
LookupMutant(r) ==
  /\ At(r, "lookup")
  /\ Enter(r, CASE CachedKey(requests[r].token.kid) -> [requests[r] EXCEPT !.at = clock, !.step = "verify"]
                [] clock - cache.at >= Lifetime -> [requests[r] EXCEPT !.at = clock, !.step = "fetch"]
                [] OTHER -> TriedByGuest(requests[r]))
  /\ UNCHANGED <<Outside, cache, seen, faults>>

(* publicKey: the first look.                                              *)
Lookup(r) ==
  /\ At(r, "lookup")
  /\ Enter(r, [requests[r] EXCEPT !.at = clock,
                 !.step = IF CachedKey(requests[r].token.kid) THEN "verify" ELSE "fetch"])
  /\ UNCHANGED <<Outside, cache, seen, faults>>

(* The endpoint answers with what is published now; the answer travels     *)
(* and the issuer may rotate meanwhile.                                    *)
EndpointAnswers(r) ==
  /\ At(r, "fetch")
  /\ Enter(r, [requests[r] EXCEPT !.step = "receive", !.keys = Keys(published)])
  /\ UNCHANGED <<Outside, cache, seen, faults>>

(* refresh up to the parsed keys, which the request holds.                 *)
ReceiveKeys(r) ==
  /\ At(r, "receive")
  /\ requests[r].keys # {}
  /\ Enter(r, [requests[r] EXCEPT !.step = "install", !.at = 0])
  /\ UNCHANGED <<Outside, cache, seen, faults>>

(* No answer in time, a status, a size or a document it does not take, or  *)
(* one without a usable key, which is no fault to count.                   *)
FetchFails(r) ==
  /\ At(r, "fetch") \/ At(r, "receive")
  /\ faults' = faults + (IF At(r, "receive") /\ requests[r].keys = {} THEN 0 ELSE 1)
  /\ faults' <= MaxFaults
  /\ Enter(r, TriedByGuest([requests[r] EXCEPT !.keys = {}]))
  /\ seen' = [seen EXCEPT ![r] = [seen[r] EXCEPT !.failed = TRUE]]
  /\ UNCHANGED <<Outside, cache>>

(* Mutant: the time the keys expire is kept in place of the time they came. *)
InstallKeysMutant(r) ==
  /\ At(r, "install")
  /\ cache' = [keys |-> requests[r].keys, at |-> clock + Lifetime]
  /\ Enter(r, [requests[r] EXCEPT !.step = "again", !.keys = {}])
  /\ UNCHANGED <<Outside, seen, faults>>

(* The write under the lock, whatever was installed in the meantime.       *)
InstallKeys(r) ==
  /\ At(r, "install")
  /\ cache' = [keys |-> requests[r].keys, at |-> clock]
  /\ Enter(r, [requests[r] EXCEPT !.step = "again", !.keys = {}])
  /\ seen' = [p \in Requests |->
       IF p # r /\ At(p, "again") THEN [seen[p] EXCEPT !.overtaken = TRUE] ELSE seen[p]]
  /\ UNCHANGED <<Outside, faults>>

(* publicKey: the second look.                                             *)
LookupAgain(r) ==
  /\ At(r, "again")
  /\ Enter(r, IF CachedKey(requests[r].token.kid)
              THEN [requests[r] EXCEPT !.step = "verify", !.at = clock]
              ELSE TriedByGuest(requests[r]))
  /\ UNCHANGED <<Outside, cache, seen, faults>>

(* The signature, then the claims, then the principal.                     *)
Verify(r) ==
  /\ At(r, "verify")
  /\ LET t == requests[r].token
     IN  Enter(r, IF t.signed /\ ValidateClaims(t, clock) /\ ValidPrincipal(t)
                  THEN Accepted(requests[r], JWTPrincipal(t))
                  ELSE TriedByGuest(requests[r]))
  /\ UNCHANGED <<Outside, cache, seen, faults>>

Serving(q) == [q EXCEPT !.step = "serving"]

(* The middleware without a database: production refuses, development      *)
(* takes the token's word.                                                 *)
NoAuthorizer(r) ==
  /\ At(r, "authorize") /\ ~authorizer.present
  /\ Enter(r, IF authorizer.required THEN Refused(requests[r], 503) ELSE Serving(requests[r]))
  /\ UNCHANGED <<Outside, cache, seen, faults>>

(* AuthorizePrincipal: the membership, in a transaction of its own.        *)
AuthorizePrincipal(r) ==
  /\ At(r, "authorize") /\ authorizer.present
  /\ LET p == requests[r].principal
         member == p.org = Organization /\ users[p.user] = p.role
     IN  Enter(r, IF member THEN Serving(requests[r]) ELSE Refused(requests[r], 403))
  /\ UNCHANGED <<Outside, cache, seen, faults>>

(* Mutant: with the database away, the claims of the token will do.        *)
MembershipUnavailableMutant(r) ==
  /\ At(r, "authorize") /\ authorizer.present
  /\ Enter(r, Serving(requests[r]))
  /\ UNCHANGED <<Outside, cache, seen, faults>>

(* The pool, the transaction or the query failed.                          *)
MembershipUnavailable(r) ==
  /\ At(r, "authorize") /\ authorizer.present
  /\ Enter(r, Refused(requests[r], 503))
  /\ UNCHANGED <<Outside, cache, seen, faults>>

Answered(r) ==
  /\ At(r, "serving") \/ At(r, "refused")
  /\ Enter(r, Idle)
  /\ seen' = [seen EXCEPT ![r] = NothingSeen]
  /\ UNCHANGED <<Outside, cache, faults>>

-----------------------------------------------------------------------------
(* Around the requests.                                                    *)

Publish ==
  /\ published < Len(Documents)
  /\ published' = published + 1
  /\ published_until' = [k \in KeyIds |-> IF k \in Keys(published + 1) THEN clock ELSE published_until[k]]
  /\ seen' = [r \in Requests |-> [seen[r] EXCEPT !.kept =
       @ /\ ~At(r, "idle") /\ requests[r].token.kid \in Keys(published + 1)]]
  /\ UNCHANGED <<clock, cache, users, authorizer, requests, faults>>

ChangeRole(u, role) ==
  /\ faults < MaxFaults /\ users[u] # role
  /\ users' = [users EXCEPT ![u] = role]
  /\ faults' = faults + 1
  /\ seen' = [r \in Requests |->
       IF ~At(r, "idle") /\ requests[r].token.sub = u
       THEN [seen[r] EXCEPT !.roles = @ \cup {role}] ELSE seen[r]]
  /\ UNCHANGED <<clock, published, cache, authorizer, requests, published_until>>

(* A fetch is over when the client's timeout is.                           *)
Waiting(r) ==
  \/ At(r, "idle")
  \/ (At(r, "fetch") \/ At(r, "receive")) /\ clock < requests[r].at + FetchTimeout

Tick ==
  /\ clock < MaxClock
  /\ \A r \in Requests : Waiting(r)
  /\ clock' = clock + 1
  /\ published_until' = [k \in KeyIds |-> IF k \in Keys(published) THEN clock + 1 ELSE published_until[k]]
  /\ UNCHANGED <<published, cache, users, authorizer, requests, seen, faults>>

(* A new process, perhaps of a deployment that is configured otherwise.    *)
Restart ==
  /\ faults < MaxFaults
  /\ authorizer' \in [present : BOOLEAN, required : BOOLEAN]
  /\ cache' = EmptyCache
  /\ requests' = [r \in Requests |-> Idle]
  /\ seen' = [r \in Requests |-> NothingSeen]
  /\ faults' = faults + 1
  /\ UNCHANGED <<clock, published, users, published_until>>

Step(r) ==
  \/ Lookup(r) \/ EndpointAnswers(r) \/ ReceiveKeys(r) \/ FetchFails(r)
  \/ InstallKeys(r) \/ LookupAgain(r)
  \/ Verify(r) \/ NoAuthorizer(r) \/ AuthorizePrincipal(r) \/ MembershipUnavailable(r)
  \/ Answered(r)

Next ==
  \/ \E r \in Requests : Step(r) \/ \E t \in Tokens : Begin(r, t)
  \/ Publish \/ Tick \/ Restart
  \/ \E u \in Users, role \in NewRoles : ChangeRole(u, role)

(* A goroutine that can go on does: no request waits for another, and the  *)
(* client's timeout ends a fetch.  Nothing is fair about clients, the      *)
(* issuer, the clock or faults.                                            *)
Spec == Init /\ [][Next]_vars /\ \A r \in Requests : WF_vars(Step(r))

-----------------------------------------------------------------------------
(* A key the issuer withdraws stops opening requests: a token is accepted  *)
(* under a key at most one cache lifetime and one fetch after the key was  *)
(* last published, however fetches overlap and in whatever order their     *)
(* documents are installed (jwt.go:328, jwt.go:397).                       *)
WithdrawnKeysRunOut ==
  \A r \in Requests :
    LET q == requests[r] IN
    /\ q.step \in {"verify", "authorize", "serving"}
    /\ q.principal # GuestPrincipal
    => q.at < published_until[q.token.kid] + Lifetime + FetchTimeout

(* With a database, or in production, a handler runs for a principal whose *)
(* role the users table gave at some moment of this request, whatever the  *)
(* token says and however the lookup fails (principal_authorizer.go:40,    *)
(* auth_middleware.go:34).                                                 *)
ServedWithMembership ==
  authorizer.present \/ authorizer.required =>
    \A r \in Requests : At(r, "serving") =>
      /\ requests[r].principal.role \in seen[r].roles
      /\ requests[r].principal.org = Organization

GoodToken(t, now) ==
  ParsesJWT(t) /\ t.signed /\ ValidateClaims(t, now) /\ ValidPrincipal(t)

(* A good token whose key was published all the time is refused as         *)
(* unauthenticated only if its own fetch failed, or if a slower request    *)
(* installed an older document between its install and its second look     *)
(* (jwt.go:315-326, jwt.go:398).                                           *)
RefusedForCause ==
  \A r \in Requests :
    LET q == requests[r] IN
    q.step = "refused" /\ q.status = 401 /\ GoodToken(q.token, q.at) /\ seen[r].kept
    => seen[r].failed \/ seen[r].overtaken

(* Key rotation needs no restart (jwt.go:32-35): if a good token of the    *)
(* issuer's last key set is presented again and again, it is authenticated *)
(* again and again, unless it expires.                                     *)
Presented(t) == \E r \in Requests : At(r, "lookup") /\ requests[r].token = t /\ GoodToken(t, clock)
Authenticated(t) == \E r \in Requests : At(r, "authorize") /\ requests[r].token = t

RotationIsPickedUp ==
  \A t \in {u \in Tokens : u.kid \in Keys(Len(Documents))} :
    <>(published = Len(Documents)) /\ []<>Presented(t) => []<>Authenticated(t)

=============================================================================
