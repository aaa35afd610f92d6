---------------------- MODULE MCRequestAuthentication ----------------------
(* An issuer that replaces its only key.                                    *)
EXTENDS RequestAuthentication

CONSTANTS r1, r2

RSAKey(kid) == [kid |-> kid, kty |-> "RSA", alg |-> "RS256", use |-> "sig",
                modulus |-> 256, exponent |-> 65537]

(* Both sets also list an elliptic-curve key, which is no use here.        *)
ECKey == [RSAKey("k3") EXCEPT !.kty = "EC"]

Rotation == <<{RSAKey("k1"), ECKey}, {RSAKey("k2"), ECKey}>>

JWT(kid, exp) ==
  [kind |-> "bearer", alg |-> "RS256", kid |-> kid, signed |-> TRUE,
   iss |-> Issuer, aud |-> {Audience}, sub |-> "ana", org |-> Organization, role |-> "operator",
   business |-> Absent, goal |-> Absent, exp |-> exp, nbf |-> Absent, iat |-> 0]

GuestToken == [JWT(Absent, 3) EXCEPT !.alg = Absent, !.sub = GuestUser, !.iat = 1,
                 !.role = Absent, !.business = GuestBusiness, !.goal = GuestGoal]

(* A token of each key that outlives the clock, and one of a guest.        *)
ThreeTokens == {JWT("k1", 9), JWT("k2", 9), GuestToken}

OneOperator == [u \in {"ana", GuestUser} |-> IF u = GuestUser THEN "viewer" ELSE "operator"]

=============================================================================
