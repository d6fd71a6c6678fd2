------------------------------ MODULE SigningKeys ------------------------------
(***************************************************************************)
(* The cached signing keys of the token issuer (RequestValidator's         *)
(* _fetch_jwks and _find_signing_key, src/src/validation.py), and the      *)
(* issuer, which replaces its keys and may not answer, or answer without   *)
(* any key.                                                                *)
(***************************************************************************)
EXTENDS Integers

CONSTANT MaxKey   \* how often the issuer may change its key (bounds the model)

ASSUME KeysAssumption == MaxKey \in Nat \ {0}

Key == 1 .. MaxKey

VARIABLES
  jwks,        \* _jwks_cache
  newest,      \* the key the issuer signs with
  published,   \* the keys the issuer publishes
  issuer       \* how the issuer answers: "ok", "down" or "keyless"

keyVars == <<jwks, newest, published, issuer>>

\* None, a key set, or a document PyJWKSet.from_dict refuses.
Jwks == [state : {"none", "keys", "keyless"}, keys : SUBSET Key]

NoJwks == [state |-> "none", keys |-> {}]

KeysTypeOK ==
  /\ jwks \in Jwks
  /\ newest \in Key
  /\ published \subseteq Key
  /\ issuer \in {"ok", "down", "keyless"}

KeysInit ==
  /\ jwks = NoJwks
  /\ newest = 1
  /\ published = {1}
  /\ issuer = "ok"
-----------------------------------------------------------------------------
\* A faulty variant of Cached: force_refresh is ignored.
CachedAlways(refresh) == jwks.state # "none"

\* Whether _fetch_jwks answers from its cache.
Cached(refresh) == jwks.state # "none" /\ ~refresh

Response == IF issuer = "ok" THEN [state |-> "keys", keys |-> published]
                             ELSE [state |-> "keyless", keys |-> {}]

\* What _fetch_jwks returns when it does not raise.
Document(refresh) == IF Cached(refresh) THEN jwks ELSE Response

(***************************************************************************)
(* One attempt of _find_signing_key: "raised" is the None it returns when  *)
(* _fetch_jwks raises, "error" the exception of from_dict, which leaves    *)
(* the validator.                                                          *)
(***************************************************************************)
Attempt(key, refresh) ==
  IF ~Cached(refresh) /\ issuer = "down" THEN "raised"
  ELSE IF Document(refresh).state = "keyless" THEN "error"
  ELSE IF key \in Document(refresh).keys THEN "found" ELSE "miss"

\* The assignment to _jwks_cache of the same attempt.
FetchJwks(refresh) ==
  /\ jwks' = IF ~Cached(refresh) /\ issuer = "down" THEN jwks ELSE Document(refresh)
  /\ UNCHANGED <<newest, published, issuer>>

\* The issuer signs with a new key; the old one may stay published.
Rotate ==
  /\ newest < MaxKey
  /\ newest' = newest + 1
  /\ published' \in {{newest + 1}, {newest, newest + 1}}
  /\ UNCHANGED <<jwks, issuer>>
=============================================================================
