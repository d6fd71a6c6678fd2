--------------------------- MODULE RequestAdmission ---------------------------
(***************************************************************************)
(* What a request passes before the service acts on it: the rate limit of  *)
(* the middleware, decryption, the OIDC token and its signing key, the     *)
(* nonce, and for a poll the attestation limit (src/src/server.py).        *)
(*                                                                         *)
(* Clients seal messages for the key pair of one process; the network      *)
(* delivers a message any number of times, at any time, in any order; each *)
(* delivery is a Call.  /execute awaits its body after the rate limit and  *)
(* nothing afterwards: from then on it keeps the event loop (`busy`) while *)
(* the clock and the token issuer move on.  /output looks up the key of    *)
(* its execution before the await and does the rest in one go.             *)
(***************************************************************************)
EXTENDS RateLimits, NonceCache, SigningKeys

CONSTANTS
  PollMessage,     \* messages to /execution/{id}/output
  None,            \* no call, no message, no address
  TokenLifetime,   \* seconds from issue to exp of a token
  Lag,             \* seconds the handler may take from exp check to nonce check
  MaxClock,        \* bounds of the model: ticks,
  MaxEpoch,        \* processes started,
  Faults           \* and the failures this instance lets happen

\* The messages to /execute; each names the execution it starts.
ExecuteMessage == Execution

Message == ExecuteMessage \cup PollMessage

(***************************************************************************)
(* down       the token issuer cannot be reached                           *)
(* keyless    the issuer answers 200 with a JSON document without keys     *)
(* bad_body   the size, JSON, encoding, nonce or token header is malformed *)
(* bad_claim  the repository, branch or commit of the token is refused     *)
(* late       a check after the nonce fails: fields, GitHub token, clone,  *)
(*            capacity, attestation                                        *)
(***************************************************************************)
AdmissionFaults == {"down", "keyless", "bad_body", "bad_claim", "late"}

(***************************************************************************)
(* A token expires before its nonce is forgotten: NONCE_CACHE_TTL_SECONDS  *)
(* is to match the token lifetime (nonce_cache.py:16).  Lag is less than a *)
(* second in the code, which awaits nothing between the two checks.        *)
(***************************************************************************)
ASSUME AdmissionAssumption ==
  /\ Execution \cap PollMessage = {}
  /\ None \notin Call \cup Message \cup Address
  /\ TokenLifetime \in Nat /\ Lag \in Nat /\ MaxClock \in Nat
  /\ TokenLifetime + Lag <= NonceTTL
  /\ MaxEpoch \in Nat \ {0}
  /\ Faults \subseteq AdmissionFaults

VARIABLES
  clock,      \* seconds
  epoch,      \* the process and its server key pair, counted from 1
  contexts,   \* executions whose shared key this process holds
  busy,       \* the call whose /execute handler keeps the event loop
  sealed,     \* what clients put into each message they sealed
  at,         \* how far each call has come, or how it ended
  msg,        \* the message a call delivers
  from,       \* the address it comes from
  era,        \* the process that receives it
  stored,     \* when its nonce was accepted, Never before
  checked     \* when the busy handler found its token unexpired

callVars == <<at, msg, from, era, stored>>
worldVars == <<clock, epoch, contexts, sealed>>
loopVars == <<busy, checked>>
vars == <<limitVars, cache, keyVars, worldVars, loopVars, callVars>>

\* For /execute: the process it is sealed for, the nonce, and the token with
\* its time of issue and its signing key.
ExecuteContent == [epoch : 1 .. MaxEpoch, nonce : Nonce, issued : Nat, key : Key]

\* For /output: the nonce and the execution; the shared key is the credential.
PollContent == [nonce : Nonce, subject : Execution]

InHandler == {"lookup", "refresh", "verify", "nonce", "accepted"}

\* The refusals some property tells apart, and all the others.
Refusal == {"limited", "duplicate", "nokey", "error", "refused"}

Progress == {"new", "body", "started", "polled", "lost"} \cup InHandler \cup Refusal

AdmissionTypeOK ==
  /\ LimitsTypeOK
  /\ CacheTypeOK
  /\ KeysTypeOK
  /\ clock \in Nat
  /\ epoch \in 1 .. MaxEpoch
  /\ contexts \subseteq Execution
  /\ busy \in Call \cup {None}
  /\ DOMAIN sealed \subseteq Message
  /\ sealed = [m \in DOMAIN sealed |-> sealed[m]]
  /\ \A m \in DOMAIN sealed :
       sealed[m] \in IF m \in ExecuteMessage THEN ExecuteContent ELSE PollContent
  /\ at \in [Call -> Progress]
  /\ msg \in [Call -> Message \cup {None}]
  /\ from \in [Call -> Address \cup {None}]
  /\ era \in [Call -> 0 .. MaxEpoch]
  /\ stored \in [Call -> Nat \cup {Never}]
  /\ checked \in Nat \cup {Never}

Fault(f) == f \in Faults

Init ==
  /\ LimitsInit
  /\ CacheInit
  /\ KeysInit
  /\ clock = 0
  /\ epoch = 1
  /\ contexts = {}
  /\ busy = None
  /\ sealed = [m \in {} |-> None]
  /\ at = [c \in Call |-> "new"]
  /\ msg = [c \in Call |-> None]
  /\ from = [c \in Call |-> None]
  /\ era = [c \in Call |-> 0]
  /\ stored = [c \in Call |-> Never]
  /\ checked = Never
-----------------------------------------------------------------------------
SealWith(m, content) ==
  /\ m \notin DOMAIN sealed
  /\ sealed' = [x \in DOMAIN sealed \cup {m} |-> IF x = m THEN content ELSE sealed[x]]
  /\ UNCHANGED <<limitVars, cache, keyVars, clock, epoch, contexts, loopVars, callVars>>

\* A client fetches /attest and a token, and seals a request for execution m.
SealExecute(m, n) ==
  SealWith(m, [epoch |-> epoch, nonce |-> n, issued |-> clock, key |-> newest])

\* A client that started execution e seals a poll with the key they share.
SealPoll(m, n, e) ==
  /\ e \in contexts
  /\ SealWith(m, [nonce |-> n, subject |-> e])

-----------------------------------------------------------------------------
(***************************************************************************)
(* rate_limit_middleware, then the handler up to the await of the body.    *)
(***************************************************************************)
Arrive(c, m, a) ==
  /\ busy = None
  /\ at[c] = "new"
  /\ \A d \in Call : d < c => at[d] # "new"
  /\ m \in DOMAIN sealed
  /\ CheckRateLimit(c, a, clock)
  /\ at' = [at EXCEPT ![c] =
       IF ~RateAllows(a, clock) THEN "limited"
       ELSE IF m \in PollMessage /\ sealed[m].subject \notin contexts THEN "refused"
       ELSE "body"]
  /\ msg' = [msg EXCEPT ![c] = m]
  /\ from' = [from EXCEPT ![c] = a]
  /\ era' = [era EXCEPT ![c] = epoch]
  /\ UNCHANGED <<records, attested, cache, keyVars, worldVars, loopVars, stored>>

\* The handler goes on, or answers with an error and leaves the loop.
Goto(c, here, there) ==
  /\ at[c] = here
  /\ at' = [at EXCEPT ![c] = there]
  /\ busy' = IF there \in InHandler THEN c ELSE None

\* The body is there: everything that is refused without looking at a key.
Open(c) ==
  /\ busy = None
  /\ msg[c] \in ExecuteMessage
  /\ \/ Fault("bad_body") /\ Goto(c, "body", "refused")
     \/ sealed[msg[c]].epoch # epoch /\ Goto(c, "body", "refused")
     \/ sealed[msg[c]].epoch = epoch /\ Goto(c, "body", "lookup")
  /\ UNCHANGED <<limitVars, cache, keyVars, worldVars, msg, from, era, stored, checked>>

\* The two attempts of _find_signing_key.
FindKey(c, here, refresh) ==
  /\ at[c] = here
  /\ LET outcome == Attempt(sealed[msg[c]].key, refresh)
     IN  Goto(c, here, CASE outcome = "found"  -> "verify"
                         [] outcome = "error"  -> "error"
                         [] outcome = "raised" -> "nokey"
                         [] outcome = "miss"   -> IF refresh THEN "nokey" ELSE "refresh")
  /\ FetchJwks(refresh)
  /\ UNCHANGED <<limitVars, cache, worldVars, msg, from, era, stored, checked>>

LookUpKey(c) == FindKey(c, "lookup", FALSE)

RefreshKeys(c) == FindKey(c, "refresh", TRUE)

Expiry(m) == sealed[m].issued + TokenLifetime

\* jwt.decode, then the claims against the configuration and the request.
VerifyToken(c) ==
  /\ at[c] = "verify"
  /\ \/ clock >= Expiry(msg[c]) /\ Goto(c, "verify", "refused")
     \/ clock < Expiry(msg[c]) /\ Goto(c, "verify", "nonce")
     \/ clock < Expiry(msg[c]) /\ Fault("bad_claim") /\ Goto(c, "verify", "refused")
  /\ checked' = IF at'[c] = "nonce" THEN clock ELSE Never
  /\ UNCHANGED <<limitVars, cache, keyVars, worldVars, msg, from, era, stored>>

CheckNonce(c) ==
  LET n == sealed[msg[c]].nonce
      duplicate == IsDuplicate(n, clock)
  IN  /\ Goto(c, "nonce", IF duplicate THEN "duplicate" ELSE "accepted")
      /\ CheckAndStore(n, clock)
      /\ stored' = IF duplicate THEN stored ELSE [stored EXCEPT ![c] = clock]
      /\ checked' = Never
      /\ UNCHANGED <<limitVars, keyVars, worldVars, msg, from, era>>

\* The rest of /execute (ExecutionService): it stores the key, or fails.
Start(c) ==
  /\ \/ Goto(c, "accepted", "started") /\ contexts' = contexts \cup {msg[c]}
     \/ Fault("late") /\ Goto(c, "accepted", "refused") /\ UNCHANGED contexts
  /\ UNCHANGED <<limitVars, cache, keyVars, clock, epoch, sealed, msg, from, era,
                 stored, checked>>
-----------------------------------------------------------------------------
\* /output from the await on, refused before its nonce is looked at ...
PollMalformed(c) ==
  /\ Fault("bad_body")
  /\ busy = None
  /\ msg[c] \in PollMessage
  /\ Goto(c, "body", "refused")
  /\ UNCHANGED <<limitVars, cache, keyVars, worldVars, msg, from, era, stored, checked>>

\* ... or because of it ...
PollDuplicate(c) ==
  /\ busy = None
  /\ msg[c] \in PollMessage
  /\ IsDuplicate(sealed[msg[c]].nonce, clock)
  /\ Goto(c, "body", "duplicate")
  /\ CheckAndStore(sealed[msg[c]].nonce, clock)
  /\ UNCHANGED <<limitVars, keyVars, worldVars, msg, from, era, stored, checked>>

\* ... or after it (the offset, the record), or answered, with an attestation
\* if the limiter allows it.
AnswerPoll(c) ==
  LET m == msg[c]
      e == sealed[m].subject
  IN  /\ busy = None
      /\ m \in PollMessage
      /\ ~IsDuplicate(sealed[m].nonce, clock)
      /\ CheckAndStore(sealed[m].nonce, clock)
      /\ stored' = [stored EXCEPT ![c] = clock]
      /\ \/ /\ Fault("bad_body")
            /\ Goto(c, "body", "refused")
            /\ UNCHANGED <<records, attested>>
         \/ /\ e \notin contexts
            /\ Goto(c, "body", "refused")
            /\ UNCHANGED <<records, attested>>
         \/ /\ e \in contexts
            /\ Goto(c, "body", "polled")
            /\ CheckAndRecord(c, e, clock)
      /\ UNCHANGED <<requests, arrival, keyVars, worldVars, msg, from, era, checked>>
-----------------------------------------------------------------------------
\* periodic_cleanup: the part about the rate limiter ...
CleanupLimiter ==
  /\ busy = None
  /\ CleanupStaleIps(clock)
  /\ UNCHANGED <<arrival, records, attested, cache, keyVars, worldVars, loopVars, callVars>>

\* ... and the end of an execution (ExecutionService).
DropContext(e) ==
  /\ busy = None
  /\ e \in contexts
  /\ contexts' = contexts \ {e}
  /\ UNCHANGED <<limitVars, cache, keyVars, clock, epoch, sealed, loopVars, callVars>>

\* The process ends and another one starts with a key pair of its own.
Restart ==
  /\ epoch < MaxEpoch
  /\ epoch' = epoch + 1
  /\ ForgetWindows
  /\ ForgetNonces
  /\ jwks' = NoJwks
  /\ contexts' = {}
  /\ busy' = None
  /\ checked' = Never
  /\ at' = [c \in Call |-> IF at[c] = "body" \/ at[c] \in InHandler THEN "lost"
                                                                  ELSE at[c]]
  /\ UNCHANGED <<newest, published, issuer, clock, sealed, msg, from, era, stored>>

Tick ==
  /\ clock < MaxClock
  /\ checked # Never => clock < checked + Lag
  /\ clock' = clock + 1
  /\ UNCHANGED <<limitVars, cache, keyVars, epoch, contexts, sealed, loopVars, callVars>>

IssuerRotates ==
  /\ Rotate
  /\ UNCHANGED <<limitVars, cache, worldVars, loopVars, callVars>>

IssuerChanges ==
  /\ \E mode \in ({"ok"} \cup (Faults \cap {"down", "keyless"})) \ {issuer} :
       issuer' = mode
  /\ UNCHANGED <<limitVars, cache, jwks, newest, published, worldVars, loopVars, callVars>>
-----------------------------------------------------------------------------
Handle(c) ==
  \/ Open(c)
  \/ LookUpKey(c)
  \/ RefreshKeys(c)
  \/ VerifyToken(c)
  \/ CheckNonce(c)
  \/ Start(c)
  \/ PollMalformed(c)
  \/ PollDuplicate(c)
  \/ AnswerPoll(c)

Seal ==
  \E n \in Nonce :
    \/ \E m \in ExecuteMessage : SealExecute(m, n)
    \/ \E m \in PollMessage, e \in Execution : SealPoll(m, n, e)

Next ==
  \/ Seal
  \/ \E c \in Call, m \in Message, a \in Address : Arrive(c, m, a)
  \/ \E c \in Call : Handle(c)
  \/ CleanupLimiter
  \/ \E e \in Execution : DropContext(e)
  \/ Restart
  \/ Tick
  \/ IssuerRotates
  \/ IssuerChanges

Spec == Init /\ [][Next]_vars

(***************************************************************************)
(* The event loop finishes the handler that keeps it, and periodic_cleanup *)
(* wakes up however busy the loop is: ready callbacks run in order, hence  *)
(* strong fairness.  Clients, the network and the issuer owe nothing.      *)
(***************************************************************************)
FairSpec ==
  /\ Spec
  /\ WF_vars(\E c \in Call : busy = c /\ Handle(c))
  /\ SF_vars(CleanupLimiter)
=============================================================================
