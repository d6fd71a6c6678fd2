------------------------------ MODULE NonceCache ------------------------------
(***************************************************************************)
(* The anti-replay cache (src/src/nonce_cache.py): the nonces accepted in  *)
(* the last ttl_seconds, with the time each was accepted.  One cache       *)
(* serves both endpoints.  `now` is the monotonic clock at the call.       *)
(***************************************************************************)
EXTENDS Integers

CONSTANTS
  Nonce,      \* the values clients draw their nonces from
  NonceTTL    \* config.nonce_cache_ttl_seconds

ASSUME NonceAssumption == NonceTTL \in Nat \ {0}

VARIABLE cache   \* _cache: nonce -> time

CacheTypeOK ==
  /\ DOMAIN cache \subseteq Nonce
  /\ cache \in [DOMAIN cache -> Nat]

CacheInit == cache = [n \in {} |-> 0]

\* A faulty variant of Live: an entry is dropped one tick early.
LiveTooShort(now) == {n \in DOMAIN cache : cache[n] > now - NonceTTL + 1}

\* What _cleanup_expired_locked leaves in the cache.
Live(now) == {n \in DOMAIN cache : cache[n] > now - NonceTTL}

\* check_and_store returns False.
IsDuplicate(n, now) == n \in Live(now)

\* A faulty variant of CheckAndStore: only the clean-up happens.
CheckOnly(n, now) == cache' = [x \in Live(now) |-> cache[x]]

\* check_and_store: a duplicate keeps the time it was first accepted.
CheckAndStore(n, now) ==
  cache' = [x \in Live(now) \cup {n} |-> IF x \in Live(now) THEN cache[x] ELSE now]

\* A new process starts with an empty cache.
ForgetNonces == cache' = [n \in {} |-> 0]
=============================================================================
