------------------------------ MODULE RateLimits ------------------------------
(***************************************************************************)
(* The two sliding-window limiters of the server: RateLimiter, one window  *)
(* per client address (server.py), and OutputAttestationRateLimiter, one   *)
(* window per execution.  Each operator is one call under the limiter's    *)
(* lock at the time `now`, to be used as a conjunct of the caller's action.*)
(*                                                                         *)
(* A list of timestamps is the set of the calls that entered it, with the  *)
(* time each entered; the times outlive the list, so that what was let     *)
(* through can be compared with what the list still remembers, but not the *)
(* process.                                                                *)
(***************************************************************************)
EXTENDS Integers, FiniteSets

CONSTANTS
  Call,          \* the HTTP requests received, numbered as they arrive
  Address,       \* request.client.host
  Execution,     \* execution identifiers
  RateLimit,     \* config.rate_limit_per_ip
  RateWindow,    \* config.rate_limit_window_seconds
  AttestLimit,   \* config.max_output_attestations_per_window
  AttestWindow   \* config.output_attestation_window_seconds

ASSUME LimitsAssumption ==
  /\ IsFiniteSet(Call) /\ Call \subseteq Nat
  /\ RateLimit \in Nat \ {0} /\ RateWindow \in Nat \ {0}
  /\ AttestLimit \in Nat \ {0} /\ AttestWindow \in Nat \ {0}

VARIABLES
  requests,   \* RateLimiter._requests: address -> calls in its list
  arrival,    \* the timestamp with which a call entered _requests
  records,    \* OutputAttestationRateLimiter._records: execution -> calls
  attested    \* the timestamp with which a call entered _records

Never == -1

limitVars == <<requests, arrival, records, attested>>

LimitsTypeOK ==
  /\ DOMAIN requests \subseteq Address
  /\ requests \in [DOMAIN requests -> SUBSET Call]
  /\ DOMAIN records \subseteq Execution
  /\ records \in [DOMAIN records -> SUBSET Call]
  /\ arrival \in [Call -> Nat \cup {Never}]
  /\ attested \in [Call -> Nat \cup {Never}]

NoWindows == [k \in {} |-> {}]

LimitsInit ==
  /\ requests = NoWindows
  /\ records = NoWindows
  /\ arrival = [c \in Call |-> Never]
  /\ attested = [c \in Call |-> Never]

\* dict.get(k, []) and d[k] = v.
Listed(windows, k) == IF k \in DOMAIN windows THEN windows[k] ELSE {}

Put(windows, k, calls) ==
  [x \in DOMAIN windows \cup {k} |-> IF x = k THEN calls ELSE windows[x]]
-----------------------------------------------------------------------------
\* A faulty variant of RecentRequests: old timestamps are not removed.
RecentRequestsAll(a, now) == Listed(requests, a)

\* The timestamps of an address that lie inside the window.
RecentRequests(a, now) ==
  {c \in Listed(requests, a) : arrival[c] > now - RateWindow}

\* A faulty variant of RateAllows: one request too many.
RateAllowsOneMore(a, now) == Cardinality(RecentRequests(a, now)) <= RateLimit

RateAllows(a, now) == Cardinality(RecentRequests(a, now)) < RateLimit

\* check_rate_limit: a refused request takes no place in the window.
CheckRateLimit(c, a, now) ==
  IF RateAllows(a, now)
  THEN /\ requests' = Put(requests, a, RecentRequests(a, now) \cup {c})
       /\ arrival' = [arrival EXCEPT ![c] = now]
  ELSE /\ requests' = Put(requests, a, RecentRequests(a, now))
       /\ UNCHANGED arrival

\* A faulty variant of CleanupStaleIps: the empty lists stay.
CleanupTimestampsOnly(now) ==
  requests' = [a \in DOMAIN requests |-> RecentRequests(a, now)]

\* cleanup_stale_ips: addresses without a recent request are forgotten.
CleanupStaleIps(now) ==
  LET live == {a \in DOMAIN requests : RecentRequests(a, now) # {}}
  IN  requests' = [a \in live |-> RecentRequests(a, now)]
-----------------------------------------------------------------------------
RecentAttestations(e, now) ==
  {c \in Listed(records, e) : attested[c] > now - AttestWindow}

\* A faulty variant of AttestAllows: one attestation too many.
AttestAllowsOneMore(e, now) == Cardinality(RecentAttestations(e, now)) <= AttestLimit

AttestAllows(e, now) == Cardinality(RecentAttestations(e, now)) < AttestLimit

\* check_and_record of the output attestation limiter.
CheckAndRecord(c, e, now) ==
  IF AttestAllows(e, now)
  THEN /\ records' = Put(records, e, RecentAttestations(e, now) \cup {c})
       /\ attested' = [attested EXCEPT ![c] = now]
  ELSE /\ records' = Put(records, e, RecentAttestations(e, now))
       /\ UNCHANGED attested

\* A new process starts with empty windows.
ForgetWindows ==
  /\ requests' = NoWindows
  /\ records' = NoWindows
  /\ arrival' = [c \in Call |-> Never]
  /\ attested' = [c \in Call |-> Never]
=============================================================================
