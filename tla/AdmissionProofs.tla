---------------------------- MODULE AdmissionProofs ----------------------------
(***************************************************************************)
(* The admission of requests, for every number of requests, addresses,     *)
(* messages, nonces and processes, every limit and window: both limits     *)
(* hold in every window, an execute message is acted upon once, a nonce is *)
(* accepted once in its time to live, and nothing is refused without       *)
(* cause.                                                                  *)
(*                                                                         *)
(* Replay protection needs three facts together: a message is only opened  *)
(* by the process it is sealed for; that process remembers each nonce it   *)
(* accepted for NonceTTL seconds; and before they are over the token of    *)
(* the message has expired (AdmissionAssumption).                          *)
(***************************************************************************)
EXTENDS AdmissionProperties, TLAPS, FiniteSetTheorems

\* How far a call is, and what that says of its message and of the process.
Positions ==
  \A c \in Call :
    /\ at[c] = "new" => era[c] = 0
    /\ at[c] # "new" => msg[c] \in DOMAIN sealed
    /\ at[c] \in {"body"} \cup InHandler => era[c] = epoch
    /\ at[c] \in InHandler =>
         busy = c /\ msg[c] \in ExecuteMessage /\ sealed[msg[c]].epoch = epoch
    /\ era[c] <= epoch

\* A nonce is accepted once, by a call that has come far enough, for a
\* message sealed for this process with a token issued before.
Acceptance ==
  \A c \in Call :
    /\ at[c] \in {"new", "body", "lookup", "refresh", "verify", "nonce"}
         => stored[c] = Never
    /\ stored[c] # Never =>
         /\ msg[c] \in DOMAIN sealed
         /\ stored[c] <= clock
         /\ msg[c] \in ExecuteMessage =>
              sealed[msg[c]].epoch = era[c] /\ sealed[msg[c]].issued <= stored[c]

\* The token is looked at shortly before the nonce.
TokenFresh ==
  /\ \A m \in DOMAIN sealed \cap ExecuteMessage : sealed[m].issued <= clock
  /\ \A c \in Call : at[c] = "nonce" => checked # Never /\ checked < Expiry(msg[c])
  /\ checked # Never => checked <= clock /\ clock <= checked + Lag

\* Whatever this process accepted less than NonceTTL ago is in the cache.
Remembered ==
  \A c \in Call :
    stored[c] # Never /\ era[c] = epoch /\ clock < stored[c] + NonceTTL =>
      /\ sealed[msg[c]].nonce \in DOMAIN cache
      /\ cache[sealed[msg[c]].nonce] = stored[c]

\* The list of an address holds every recent request let through.
Counted ==
  \A c \in Call :
    /\ arrival[c] <= clock
    /\ \A a \in Address :
         c \in Admitted(a) /\ arrival[c] > clock - RateWindow
           => a \in DOMAIN requests /\ c \in requests[a]
-----------------------------------------------------------------------------
\* Putting a list in a table of windows leaves a table of windows.
LEMMA PutType ==
  ASSUME NEW S, NEW windows, DOMAIN windows \subseteq S,
         windows \in [DOMAIN windows -> SUBSET Call],
         NEW k \in S, NEW calls \in SUBSET Call
  PROVE  /\ DOMAIN Put(windows, k, calls) \subseteq S
         /\ Put(windows, k, calls) \in [DOMAIN Put(windows, k, calls) -> SUBSET Call]
BY DEF Put

\* One call of the address limiter, for any time: the table and the times
\* stay what they are.
LEMMA CheckRateLimitType ==
  ASSUME LimitsTypeOK, NEW c \in Call, NEW a \in Address, NEW now \in Nat,
         CheckRateLimit(c, a, now), UNCHANGED <<records, attested>>
  PROVE  LimitsTypeOK'
<1>1. RecentRequests(a, now) \in SUBSET Call
  BY DEF RecentRequests, Listed, LimitsTypeOK
<1>2. \E calls \in SUBSET Call : requests' = Put(requests, a, calls)
  BY <1>1 DEF CheckRateLimit
<1>3. DOMAIN requests' \subseteq Address /\ requests' \in [DOMAIN requests' -> SUBSET Call]
  BY <1>2, PutType DEF LimitsTypeOK
<1>4. arrival' \in [Call -> Nat \cup {Never}]
  BY DEF CheckRateLimit, LimitsTypeOK
<1> QED BY <1>3, <1>4 DEF LimitsTypeOK

\* One call of the attestation limiter, likewise.
LEMMA CheckAndRecordType ==
  ASSUME LimitsTypeOK, NEW c \in Call, NEW e \in Execution, NEW now \in Nat,
         CheckAndRecord(c, e, now), UNCHANGED <<requests, arrival>>
  PROVE  LimitsTypeOK'
<1>1. RecentAttestations(e, now) \in SUBSET Call
  BY DEF RecentAttestations, Listed, LimitsTypeOK
<1>2. PICK calls \in SUBSET Call : records' = Put(records, e, calls)
  BY <1>1 DEF CheckAndRecord
<1>3. DOMAIN records' \subseteq Execution /\ records' \in [DOMAIN records' -> SUBSET Call]
  <2>1. DOMAIN records \subseteq Execution /\ records \in [DOMAIN records -> SUBSET Call]
    BY DEF LimitsTypeOK
  <2>2. /\ DOMAIN Put(records, e, calls) \subseteq Execution
        /\ Put(records, e, calls) \in [DOMAIN Put(records, e, calls) -> SUBSET Call]
    BY <2>1, PutType
  <2> QED BY <1>2, <2>2
<1>4. attested' \in [Call -> Nat \cup {Never}]
  BY DEF CheckAndRecord, LimitsTypeOK
<1> QED BY <1>3, <1>4 DEF LimitsTypeOK

\* One call of the nonce cache leaves a table of times.
LEMMA CheckAndStoreType ==
  ASSUME CacheTypeOK, NEW n \in Nonce, NEW now \in Nat, CheckAndStore(n, now)
  PROVE  CacheTypeOK'
BY DEF CacheTypeOK, CheckAndStore, Live

\* One attempt to fetch the keys leaves a cached document.
LEMMA FetchJwksType ==
  ASSUME KeysTypeOK, NEW refresh \in BOOLEAN, FetchJwks(refresh)
  PROVE  KeysTypeOK'
BY DEF KeysTypeOK, FetchJwks, Document, Response, Jwks

-----------------------------------------------------------------------------
\* Where a handler may take a call.
Onward == Progress \ {"new", "body", "limited", "lost"}

\* A step of a handler: the call moves on, the loop is kept or released, and
\* nothing else changes that concerns arrivals, messages or processes.
Moves(c) ==
  /\ at[c] \in {"body"} \cup InHandler
  /\ \E there \in Onward :
       /\ at' = [at EXCEPT ![c] = there]
       /\ busy' = IF there \in InHandler THEN c ELSE None
  /\ UNCHANGED <<requests, arrival, clock, epoch, sealed, msg, from, era>>

\* Going on is moving on.
LEMMA GotoMoves ==
  ASSUME NEW c \in Call, NEW here \in {"body"} \cup InHandler, NEW there \in Onward,
         Goto(c, here, there),
         UNCHANGED <<requests, arrival, clock, epoch, sealed, msg, from, era>>
  PROVE  Moves(c)
BY DEF Goto, Moves

\* Every step of a handler is a move, whichever endpoint it serves.
LEMMA HandleMoves ==
  ASSUME NEW c \in Call, Handle(c)
  PROVE  Moves(c)
<1> USE DEF Onward, Progress, InHandler, Refusal
<1>1. CASE Open(c)
  <2>1. UNCHANGED <<requests, arrival, clock, epoch, sealed, msg, from, era>>
    BY <1>1 DEF Open, limitVars, worldVars
  <2> QED BY <1>1, <2>1, GotoMoves DEF Open
<1>2. ASSUME NEW here \in {"lookup", "refresh"}, NEW refresh \in BOOLEAN,
             FindKey(c, here, refresh)
      PROVE  Moves(c)
  <2>1. UNCHANGED <<requests, arrival, clock, epoch, sealed, msg, from, era>>
    BY <1>2 DEF FindKey, limitVars, worldVars
  <2>2. Attempt(sealed[msg[c]].key, refresh) \in {"raised", "error", "found", "miss"}
    BY DEF Attempt
  <2>3. \E there \in {"verify", "error", "nokey", "refresh"} : Goto(c, here, there)
    BY <1>2, <2>2 DEF FindKey
  <2> QED BY <2>1, <2>3, GotoMoves
<1>3. CASE LookUpKey(c)
  BY <1>2, <1>3 DEF LookUpKey
<1>4. CASE RefreshKeys(c)
  BY <1>2, <1>4 DEF RefreshKeys
<1>5. CASE VerifyToken(c)
  <2>1. UNCHANGED <<requests, arrival, clock, epoch, sealed, msg, from, era>>
    BY <1>5 DEF VerifyToken, limitVars, worldVars
  <2> QED BY <1>5, <2>1, GotoMoves DEF VerifyToken
<1>6. CASE CheckNonce(c)
  <2>1. UNCHANGED <<requests, arrival, clock, epoch, sealed, msg, from, era>>
    BY <1>6 DEF CheckNonce, limitVars, worldVars
  <2>2. \E there \in {"duplicate", "accepted"} : Goto(c, "nonce", there)
    BY <1>6 DEF CheckNonce
  <2> QED BY <2>1, <2>2, GotoMoves
<1>7. CASE Start(c)
  <2>1. UNCHANGED <<requests, arrival, clock, epoch, sealed, msg, from, era>>
    BY <1>7 DEF Start, limitVars
  <2> QED BY <1>7, <2>1, GotoMoves DEF Start
<1>8. CASE PollMalformed(c)
  <2>1. UNCHANGED <<requests, arrival, clock, epoch, sealed, msg, from, era>>
    BY <1>8 DEF PollMalformed, limitVars, worldVars
  <2> QED BY <1>8, <2>1, GotoMoves DEF PollMalformed
<1>9. CASE PollDuplicate(c)
  <2>1. UNCHANGED <<requests, arrival, clock, epoch, sealed, msg, from, era>>
    BY <1>9 DEF PollDuplicate, limitVars, worldVars
  <2> QED BY <1>9, <2>1, GotoMoves DEF PollDuplicate
<1>10. CASE AnswerPoll(c)
  <2>1. UNCHANGED <<requests, arrival, clock, epoch, sealed, msg, from, era>>
    BY <1>10 DEF AnswerPoll, worldVars
  <2>2. \E there \in {"refused", "polled"} : Goto(c, "body", there)
    BY <1>10 DEF AnswerPoll
  <2> QED BY <2>1, <2>2, GotoMoves
<1> QED BY <1>1, <1>3, <1>4, <1>5, <1>6, <1>7, <1>8, <1>9, <1>10 DEF Handle
-----------------------------------------------------------------------------
\* The messages: SealWith extends a well-typed table of contents.
SealedTypeOK ==
  /\ DOMAIN sealed \subseteq Message
  /\ sealed = [m \in DOMAIN sealed |-> sealed[m]]
  /\ \A m \in DOMAIN sealed :
       sealed[m] \in IF m \in ExecuteMessage THEN ExecuteContent ELSE PollContent

\* A call in a handler of the service delivers a message with a typed nonce.
LEMMA NonceType ==
  ASSUME AdmissionTypeOK, Positions, NEW c \in Call, at[c] # "new"
  PROVE  /\ msg[c] \in DOMAIN sealed
         /\ sealed[msg[c]].nonce \in Nonce
         /\ msg[c] \in PollMessage => sealed[msg[c]].subject \in Execution
<1>1. msg[c] \in DOMAIN sealed
  BY DEF Positions
<1>2. sealed[msg[c]] \in ExecuteContent \/ sealed[msg[c]] \in PollContent
  BY <1>1 DEF AdmissionTypeOK
<1>3. sealed[msg[c]].nonce \in Nonce
  BY <1>2 DEF ExecuteContent, PollContent
<1>4. msg[c] \in PollMessage => sealed[msg[c]] \in PollContent
  BY <1>1, AdmissionAssumption DEF AdmissionTypeOK, ExecuteMessage
<1> QED BY <1>1, <1>3, <1>4 DEF PollContent

\* A client seals one message, with contents of its kind and the present time.
LEMMA SealEffect ==
  ASSUME AdmissionTypeOK, Seal
  PROVE  \E m \in Message, content \in ExecuteContent \cup PollContent :
           /\ SealWith(m, content)
           /\ content \in IF m \in ExecuteMessage THEN ExecuteContent ELSE PollContent
           /\ m \in ExecuteMessage => content.issued = clock
<1>1. ASSUME NEW n \in Nonce, NEW m \in ExecuteMessage, SealExecute(m, n)
      PROVE  \E content \in ExecuteContent : SealWith(m, content) /\ content.issued = clock
  BY <1>1 DEF SealExecute, ExecuteContent, AdmissionTypeOK, KeysTypeOK
<1>2. ASSUME NEW n \in Nonce, NEW m \in PollMessage, NEW e \in Execution,
             SealPoll(m, n, e)
      PROVE  \E content \in PollContent : SealWith(m, content)
  BY <1>2 DEF SealPoll, PollContent
<1>3. \A m \in PollMessage : m \notin ExecuteMessage
  BY AdmissionAssumption DEF ExecuteMessage
<1> QED BY <1>1, <1>2, <1>3 DEF Seal, Message

\* The steps outside the handlers keep the types.
LEMMA SealType ==
  ASSUME AdmissionTypeOK, Seal
  PROVE  AdmissionTypeOK'
<1>1. PICK m \in Message, content \in ExecuteContent \cup PollContent :
        /\ SealWith(m, content)
        /\ content \in IF m \in ExecuteMessage THEN ExecuteContent ELSE PollContent
  BY SealEffect
<1>2. SealedTypeOK'
  <2>1. DOMAIN sealed \subseteq Message
    BY DEF AdmissionTypeOK
  <2>2. \A x \in DOMAIN sealed :
          sealed[x] \in IF x \in ExecuteMessage THEN ExecuteContent ELSE PollContent
    BY DEF AdmissionTypeOK
  <2>3. sealed' = [x \in DOMAIN sealed \cup {m} |-> IF x = m THEN content ELSE sealed[x]]
    BY <1>1 DEF SealWith
  <2>4. DOMAIN sealed' = DOMAIN sealed \cup {m}
    BY <2>3
  <2>5. sealed' = [x \in DOMAIN sealed' |-> sealed'[x]]
    BY <2>3
  <2>6. \A x \in DOMAIN sealed' :
          sealed'[x] \in IF x \in ExecuteMessage THEN ExecuteContent ELSE PollContent
    BY <1>1, <2>2, <2>3, <2>4
  <2> QED BY <2>1, <2>4, <2>5, <2>6 DEF SealedTypeOK
<1>3. UNCHANGED <<limitVars, cache, keyVars, clock, epoch, contexts, loopVars, callVars>>
  BY <1>1 DEF SealWith
<1>4. LimitsTypeOK' /\ CacheTypeOK' /\ KeysTypeOK'
  BY <1>3 DEF AdmissionTypeOK, LimitsTypeOK, CacheTypeOK, KeysTypeOK, limitVars, keyVars
<1> QED BY <1>2, <1>3, <1>4 DEF AdmissionTypeOK, SealedTypeOK, loopVars, callVars

\* An arrival: the limiter's table, and the call's own record.
LEMMA ArriveType ==
  ASSUME AdmissionTypeOK, NEW c \in Call, NEW m \in Message, NEW a \in Address,
         Arrive(c, m, a)
  PROVE  AdmissionTypeOK'
<1>1. LimitsTypeOK'
  BY CheckRateLimitType DEF Arrive, AdmissionTypeOK
<1>2. UNCHANGED <<cache, keyVars, worldVars, loopVars, stored>>
  BY DEF Arrive
<1>3. CacheTypeOK' /\ KeysTypeOK' /\ SealedTypeOK'
  BY <1>2 DEF AdmissionTypeOK, CacheTypeOK, KeysTypeOK, SealedTypeOK, keyVars, worldVars
<1>4. at' \in [Call -> Progress]
  BY DEF Arrive, AdmissionTypeOK, Progress, Refusal
<1>5. /\ msg' \in [Call -> Message \cup {None}]
      /\ from' \in [Call -> Address \cup {None}]
      /\ era' \in [Call -> 0 .. MaxEpoch]
  <2>1. epoch \in 0 .. MaxEpoch
    BY AdmissionAssumption DEF AdmissionTypeOK
  <2> QED BY <2>1 DEF Arrive, AdmissionTypeOK
<1> QED BY <1>1, <1>2, <1>3, <1>4, <1>5 DEF AdmissionTypeOK, SealedTypeOK, worldVars, loopVars

\* What a handler's move leaves for the type of its step to say.
LEMMA MovesType ==
  ASSUME AdmissionTypeOK, NEW c \in Call, Moves(c),
         LimitsTypeOK', CacheTypeOK', KeysTypeOK', contexts' \subseteq Execution,
         stored' \in [Call -> Nat \cup {Never}], checked' \in Nat \cup {Never}
  PROVE  AdmissionTypeOK'
<1>1. at' \in [Call -> Progress] /\ busy' \in Call \cup {None}
  BY DEF Moves, Onward, AdmissionTypeOK
<1>2. UNCHANGED <<clock, epoch, sealed, msg, from, era>>
  BY DEF Moves
<1>3. SealedTypeOK'
  BY <1>2 DEF AdmissionTypeOK, SealedTypeOK
<1> QED BY <1>1, <1>2, <1>3 DEF AdmissionTypeOK, SealedTypeOK

\* Every step of a handler keeps the types.
LEMMA HandleType ==
  ASSUME AdmissionTypeOK, Positions, NEW c \in Call, Handle(c)
  PROVE  AdmissionTypeOK'
<1>m. Moves(c)
  BY HandleMoves
<1>n. /\ at[c] # "new"
      /\ clock \in Nat
  BY <1>m DEF Moves, InHandler, AdmissionTypeOK
<1>t. /\ LimitsTypeOK /\ CacheTypeOK /\ KeysTypeOK /\ contexts \subseteq Execution
      /\ stored \in [Call -> Nat \cup {Never}] /\ checked \in Nat \cup {Never}
  BY DEF AdmissionTypeOK
<1>q. /\ sealed[msg[c]].nonce \in Nonce
      /\ msg[c] \in PollMessage => sealed[msg[c]].subject \in Execution
  BY <1>n, NonceType
\* What a step that leaves a component alone owes for it.
<1>l. UNCHANGED limitVars => LimitsTypeOK'
  BY <1>t DEF limitVars, LimitsTypeOK
<1>k. UNCHANGED keyVars => KeysTypeOK'
  BY <1>t DEF keyVars, KeysTypeOK
<1>c. UNCHANGED cache => CacheTypeOK'
  BY <1>t DEF CacheTypeOK
<1>w. UNCHANGED worldVars => contexts' \subseteq Execution
  BY <1>t DEF worldVars
<1>s. CheckAndStore(sealed[msg[c]].nonce, clock) => CacheTypeOK'
  BY <1>n, <1>q, <1>t, CheckAndStoreType
<1>1. CASE Open(c) \/ PollMalformed(c)
  BY <1>1, <1>m, <1>t, <1>l, <1>k, <1>c, <1>w, MovesType DEF Open, PollMalformed
<1>2. CASE LookUpKey(c) \/ RefreshKeys(c)
  <2>1. PICK refresh \in BOOLEAN, here \in {"lookup", "refresh"} : FindKey(c, here, refresh)
    BY <1>2 DEF LookUpKey, RefreshKeys
  <2>2. KeysTypeOK'
    BY <2>1, <1>t, FetchJwksType DEF FindKey
  <2> QED BY <2>1, <2>2, <1>m, <1>t, <1>l, <1>c, <1>w, MovesType DEF FindKey
<1>3. CASE VerifyToken(c)
  <2>1. checked' \in Nat \cup {Never}
    BY <1>3, <1>n DEF VerifyToken
  <2> QED BY <1>3, <2>1, <1>m, <1>t, <1>l, <1>k, <1>c, <1>w, MovesType DEF VerifyToken
<1>4. CASE CheckNonce(c)
  <2>1. stored' \in [Call -> Nat \cup {Never}] /\ checked' \in Nat \cup {Never}
    BY <1>4, <1>n, <1>t DEF CheckNonce
  <2>2. CheckAndStore(sealed[msg[c]].nonce, clock) /\ UNCHANGED <<limitVars, keyVars, worldVars>>
    BY <1>4 DEF CheckNonce
  <2> QED BY <2>1, <2>2, <1>m, <1>l, <1>k, <1>s, <1>w, MovesType
<1>5. CASE Start(c)
  <2>1. msg[c] \in Execution
    BY <1>5 DEF Start, Goto, Positions, InHandler, ExecuteMessage
  <2>2. contexts' \subseteq Execution
    BY <1>5, <1>t, <2>1 DEF Start
  <2> QED BY <1>5, <2>2, <1>m, <1>t, <1>l, <1>k, <1>c, MovesType DEF Start
<1>6. CASE PollDuplicate(c)
  BY <1>6, <1>m, <1>t, <1>l, <1>k, <1>s, <1>w, MovesType DEF PollDuplicate
<1>7. CASE AnswerPoll(c)
  <2>1. sealed[msg[c]].subject \in Execution
    BY <1>7, <1>q DEF AnswerPoll
  <2>2. UNCHANGED <<requests, arrival>>
    BY <1>7 DEF AnswerPoll
  <2>3. CheckAndRecord(c, sealed[msg[c]].subject, clock) \/ UNCHANGED <<records, attested>>
    BY <1>7 DEF AnswerPoll
  <2>4. LimitsTypeOK'
    BY <2>1, <2>2, <2>3, <1>n, <1>t, <1>l, CheckAndRecordType DEF limitVars
  <2>5. stored' \in [Call -> Nat \cup {Never}]
    BY <1>7, <1>n, <1>t DEF AnswerPoll
  <2>6. /\ CheckAndStore(sealed[msg[c]].nonce, clock)
        /\ UNCHANGED <<keyVars, worldVars, checked>>
    BY <1>7 DEF AnswerPoll
  <2> QED BY <2>4, <2>5, <2>6, <1>m, <1>t, <1>k, <1>s, <1>w, MovesType
<1> QED BY <1>1, <1>2, <1>3, <1>4, <1>5, <1>6, <1>7 DEF Handle

\* The clean-up, the restart, the clock and the issuer keep the types.
LEMMA OthersType ==
  ASSUME AdmissionTypeOK,
         \/ CleanupLimiter
         \/ \E e \in Execution : DropContext(e)
         \/ Restart
         \/ Tick
         \/ IssuerRotates
         \/ IssuerChanges
         \/ UNCHANGED vars
  PROVE  AdmissionTypeOK'
<1>t. /\ LimitsTypeOK /\ CacheTypeOK /\ KeysTypeOK /\ SealedTypeOK
      /\ clock \in Nat /\ epoch \in 1 .. MaxEpoch /\ contexts \subseteq Execution
      /\ busy \in Call \cup {None} /\ checked \in Nat \cup {Never}
      /\ at \in [Call -> Progress]
      /\ msg \in [Call -> Message \cup {None}]
      /\ from \in [Call -> Address \cup {None}]
      /\ era \in [Call -> 0 .. MaxEpoch]
      /\ stored \in [Call -> Nat \cup {Never}]
  BY DEF AdmissionTypeOK, SealedTypeOK
<1>l. UNCHANGED limitVars => LimitsTypeOK'
  BY <1>t DEF limitVars, LimitsTypeOK
<1>k. UNCHANGED keyVars => KeysTypeOK'
  BY <1>t DEF keyVars, KeysTypeOK
<1>c. UNCHANGED cache => CacheTypeOK'
  BY <1>t DEF CacheTypeOK
<1>s. UNCHANGED sealed => SealedTypeOK'
  BY <1>t DEF SealedTypeOK
<1> USE DEF loopVars, callVars
<1>1. CASE CleanupLimiter
  <2>1. LimitsTypeOK'
    BY <1>1, <1>t DEF CleanupLimiter, CleanupStaleIps, RecentRequests, Listed, LimitsTypeOK
  <2> QED BY <1>1, <2>1, <1>t, <1>k, <1>c, <1>s
          DEF CleanupLimiter, worldVars, AdmissionTypeOK, SealedTypeOK
<1>2. CASE \E e \in Execution : DropContext(e)
  BY <1>2, <1>t, <1>l, <1>k, <1>c, <1>s DEF DropContext, AdmissionTypeOK, SealedTypeOK
<1>3. CASE Restart
  <2>1. LimitsTypeOK'
    BY <1>3 DEF Restart, ForgetWindows, NoWindows, LimitsTypeOK
  <2>2. CacheTypeOK'
    BY <1>3 DEF Restart, ForgetNonces, CacheTypeOK
  <2>3. KeysTypeOK'
    BY <1>3, <1>t DEF Restart, KeysTypeOK, NoJwks, Jwks
  <2>4. at' \in [Call -> Progress]
    BY <1>3, <1>t DEF Restart, Progress
  <2>5. epoch' \in 1 .. MaxEpoch
    BY <1>3, <1>t, AdmissionAssumption DEF Restart
  <2> QED BY <1>3, <2>1, <2>2, <2>3, <2>4, <2>5, <1>t, <1>s
          DEF Restart, AdmissionTypeOK, SealedTypeOK
<1>4. CASE Tick
  BY <1>4, <1>t, <1>l, <1>k, <1>c, <1>s DEF Tick, AdmissionTypeOK, SealedTypeOK
<1>5. CASE IssuerRotates
  <2>1. KeysTypeOK'
    BY <1>5, <1>t, KeysAssumption DEF IssuerRotates, Rotate, KeysTypeOK, Key
  <2> QED BY <1>5, <2>1, <1>t, <1>l, <1>c, <1>s
          DEF IssuerRotates, worldVars, AdmissionTypeOK, SealedTypeOK
<1>6. CASE IssuerChanges
  <2>1. KeysTypeOK'
    BY <1>6, <1>t DEF IssuerChanges, KeysTypeOK
  <2> QED BY <1>6, <2>1, <1>t, <1>l, <1>c, <1>s
          DEF IssuerChanges, worldVars, AdmissionTypeOK, SealedTypeOK
<1>7. CASE UNCHANGED vars
  BY <1>7, <1>t, <1>l, <1>k, <1>c, <1>s DEF vars, worldVars, AdmissionTypeOK, SealedTypeOK
<1> QED BY <1>1, <1>2, <1>3, <1>4, <1>5, <1>6, <1>7
-----------------------------------------------------------------------------
\* A handler starts a step with the loop free or its own, and only /execute
\* keeps the loop, for a message sealed for this process.
LEMMA HandlerEntry ==
  ASSUME AdmissionTypeOK, Positions, NEW c \in Call, Handle(c)
  PROVE  /\ at[c] = "body" => busy = None
         /\ at[c] \in InHandler => busy = c
         /\ at'[c] \in InHandler =>
              msg[c] \in ExecuteMessage /\ sealed[msg[c]].epoch = epoch
<1>1. at[c] \in InHandler =>
        busy = c /\ msg[c] \in ExecuteMessage /\ sealed[msg[c]].epoch = epoch
  BY DEF Positions
<1>2. CASE at[c] \in InHandler
  BY <1>1, <1>2 DEF InHandler
<1>3. CASE at[c] \notin InHandler
  <2>1. Open(c) \/ PollMalformed(c) \/ PollDuplicate(c) \/ AnswerPoll(c)
    BY <1>3 DEF Handle, LookUpKey, RefreshKeys, FindKey, VerifyToken, CheckNonce, Start,
                Goto, InHandler
  <2>2. busy = None
    BY <2>1 DEF Open, PollMalformed, PollDuplicate, AnswerPoll
  <2>3. at'[c] \in InHandler => Open(c) /\ sealed[msg[c]].epoch = epoch
    <3>0. at \in [Call -> Progress]
      BY DEF AdmissionTypeOK
    <3>1. CASE Open(c)
      BY <3>0, <3>1 DEF Open, Goto, InHandler
    <3>2. CASE PollMalformed(c) \/ PollDuplicate(c) \/ AnswerPoll(c)
      BY <3>0, <3>2 DEF PollMalformed, PollDuplicate, AnswerPoll, Goto, InHandler
    <3> QED BY <2>1, <3>1, <3>2
  <2> QED BY <1>3, <2>2, <2>3 DEF Open
<1> QED BY <1>2, <1>3

\* Every step keeps the positions.
LEMMA PositionsStep ==
  ASSUME AdmissionTypeOK, Positions, [Next]_vars
  PROVE  Positions'
<1>t. /\ epoch \in 1 .. MaxEpoch
      /\ at \in [Call -> Progress] /\ msg \in [Call -> Message \cup {None}]
      /\ era \in [Call -> 0 .. MaxEpoch]
  BY DEF AdmissionTypeOK
<1>p. \A d \in Call :
        /\ at[d] = "new" => era[d] = 0
        /\ at[d] # "new" => msg[d] \in DOMAIN sealed
        /\ at[d] \in {"body"} \cup InHandler => era[d] = epoch
        /\ at[d] \in InHandler =>
             busy = d /\ msg[d] \in ExecuteMessage /\ sealed[msg[d]].epoch = epoch
        /\ era[d] <= epoch
  BY DEF Positions
<1>1. CASE Seal
  <2>1. PICK m \in Message, content \in ExecuteContent \cup PollContent : SealWith(m, content)
    BY <1>1, SealEffect
  <2>2. /\ \A x \in DOMAIN sealed : x \in DOMAIN sealed' /\ sealed'[x] = sealed[x]
        /\ UNCHANGED <<at, msg, era, epoch, busy>>
    BY <2>1 DEF SealWith, callVars, loopVars
  <2>3. \A d \in Call : at[d] \in InHandler => msg[d] \in DOMAIN sealed
    BY <1>p DEF InHandler
  <2> QED BY <1>p, <2>2, <2>3 DEF Positions
<1>2. ASSUME NEW c \in Call, NEW m \in Message, NEW a \in Address, Arrive(c, m, a)
      PROVE  Positions'
  <2>1. /\ UNCHANGED <<epoch, sealed, busy>>
        /\ m \in DOMAIN sealed
        /\ msg' = [msg EXCEPT ![c] = m] /\ era' = [era EXCEPT ![c] = epoch]
        /\ at' \in {[at EXCEPT ![c] = p] : p \in {"limited", "refused", "body"}}
    BY <1>2 DEF Arrive, worldVars, loopVars
  <2> QED BY <1>t, <1>p, <2>1 DEF Positions, InHandler
<1>3. ASSUME NEW c \in Call, Handle(c)
      PROVE  Positions'
  <2>1. PICK there \in Onward :
          /\ at' = [at EXCEPT ![c] = there]
          /\ busy' = IF there \in InHandler THEN c ELSE None
    BY <1>3, HandleMoves DEF Moves
  <2>2. /\ at[c] \in {"body"} \cup InHandler
        /\ UNCHANGED <<epoch, sealed, msg, era>>
    BY <1>3, HandleMoves DEF Moves
  <2>3. \A d \in Call \ {c} : at[d] \notin InHandler
    <3>1. busy \in {None, c}
      BY <1>3, <2>2, HandlerEntry
    <3>2. None \notin Call
      BY AdmissionAssumption
    <3> QED BY <1>p, <3>1, <3>2
  <2>4. at'[c] \in InHandler =>
          msg[c] \in ExecuteMessage /\ sealed[msg[c]].epoch = epoch
    BY <1>3, HandlerEntry
  <2>5. ASSUME NEW d \in Call \ {c}
        PROVE  /\ at'[d] = "new" => era'[d] = 0
               /\ at'[d] # "new" => msg'[d] \in DOMAIN sealed'
               /\ at'[d] \in {"body"} \cup InHandler => era'[d] = epoch'
               /\ at'[d] \notin InHandler
               /\ era'[d] <= epoch'
    BY <1>t, <1>p, <2>1, <2>2, <2>3
  <2>6. /\ at'[c] = there /\ there \notin {"new", "body"}
        /\ msg'[c] \in DOMAIN sealed' /\ era'[c] = epoch'
    BY <1>t, <1>p, <2>1, <2>2 DEF Onward, InHandler
  <2>7. at'[c] \in InHandler =>
          busy' = c /\ msg'[c] \in ExecuteMessage /\ sealed'[msg'[c]].epoch = epoch'
    BY <2>1, <2>2, <2>4, <2>6
  <2> QED BY <1>t, <2>2, <2>5, <2>6, <2>7 DEF Positions
<1>4. CASE Restart
  <2>1. /\ epoch' = epoch + 1 /\ UNCHANGED <<sealed, msg, era>>
        /\ \A d \in Call : at'[d] = IF at[d] = "body" \/ at[d] \in InHandler
                                     THEN "lost" ELSE at[d]
    BY <1>4 DEF Restart
  <2>2. \A d \in Call : /\ at'[d] \notin {"body"} \cup InHandler
                        /\ at'[d] = "new" <=> at[d] = "new"
    BY <2>1 DEF InHandler
  <2>3. \A d \in Call : era[d] <= epoch /\ era[d] \in Int /\ epoch \in Int
    BY <1>t, <1>p
  <2> QED BY <1>p, <2>1, <2>2, <2>3 DEF Positions
<1>5. CASE \/ CleanupLimiter \/ \E e \in Execution : DropContext(e)
          \/ Tick \/ IssuerRotates \/ IssuerChanges \/ UNCHANGED vars
  <2>1. UNCHANGED <<epoch, sealed, busy, at, msg, era>>
    BY <1>5 DEF CleanupLimiter, DropContext, Tick, IssuerRotates, IssuerChanges, vars,
                worldVars, loopVars, callVars
  <2> QED BY <1>p, <2>1 DEF Positions
<1> QED BY <1>1, <1>2, <1>3, <1>4, <1>5 DEF Next

\* The types and the positions hold at first and are kept.
LEMMA TypedPositions == Spec => [](AdmissionTypeOK /\ Positions)
<1>1. Init => AdmissionTypeOK /\ Positions
  <2> SUFFICES ASSUME Init PROVE AdmissionTypeOK /\ Positions
    OBVIOUS
  <2>1. LimitsTypeOK
    BY DEF Init, LimitsInit, LimitsTypeOK, NoWindows
  <2>2. CacheTypeOK
    BY DEF Init, CacheInit, CacheTypeOK
  <2>3. KeysTypeOK
    BY KeysAssumption DEF Init, KeysInit, KeysTypeOK, NoJwks, Jwks, Key
  <2>4. AdmissionTypeOK
    BY <2>1, <2>2, <2>3, AdmissionAssumption DEF Init, AdmissionTypeOK, Progress
  <2>5. Positions
    BY DEF Init, Positions, InHandler
  <2> QED BY <2>4, <2>5
<1>2. AdmissionTypeOK /\ Positions /\ [Next]_vars => AdmissionTypeOK' /\ Positions'
  BY SealType, ArriveType, HandleType, OthersType, PositionsStep DEF Next
<1> QED BY <1>1, <1>2, PTL DEF Spec

(***************************************************************************)
(* Every store of the admission keeps its type, for every instance.        *)
(***************************************************************************)
THEOREM AdmissionTypeCorrect == Spec => []AdmissionTypeOK
BY TypedPositions, PTL
-----------------------------------------------------------------------------
\* The cache keeps what is not expired, and holds what it has just accepted.
LEMMA CacheKeeps ==
  ASSUME CacheTypeOK, NEW n \in Nonce, NEW now \in Nat, CheckAndStore(n, now)
  PROVE  /\ \A x \in DOMAIN cache :
              now < cache[x] + NonceTTL => x \in DOMAIN cache' /\ cache'[x] = cache[x]
         /\ ~IsDuplicate(n, now) => n \in DOMAIN cache' /\ cache'[n] = now
BY NonceAssumption DEF CacheTypeOK, CheckAndStore, Live, IsDuplicate

\* The stages at which no nonce has been accepted.
Early == {"new", "body", "lookup", "refresh", "verify", "nonce"}

\* The call c has its nonce accepted: it was not in the cache.
Accepts(c) ==
  LET n == sealed[msg[c]].nonce
  IN  /\ at[c] \in {"body", "nonce"} /\ (msg[c] \in ExecuteMessage => at[c] = "nonce")
      /\ at'[c] \notin Early
      /\ ~IsDuplicate(n, clock)
      /\ CheckAndStore(n, clock)
      /\ stored' = [stored EXCEPT ![c] = clock]

\* The call c leaves the record of accepted nonces alone.
Keeps(c) ==
  /\ stored' = stored
  /\ UNCHANGED cache \/ CheckAndStore(sealed[msg[c]].nonce, clock)
  /\ at'[c] \in Early => at[c] \in Early

\* Every step of a handler does one or the other.
LEMMA HandleNonce ==
  ASSUME AdmissionTypeOK, Positions, NEW c \in Call, Handle(c)
  PROVE  Accepts(c) \/ Keeps(c)
<1>1. at \in [Call -> Progress]
  BY DEF AdmissionTypeOK
<1>2. CASE Open(c) \/ PollMalformed(c)
  BY <1>1, <1>2 DEF Open, PollMalformed, Goto, Keeps, Early
<1>3. CASE LookUpKey(c) \/ RefreshKeys(c)
  BY <1>1, <1>3 DEF LookUpKey, RefreshKeys, FindKey, Keeps, Early
<1>4. CASE VerifyToken(c)
  BY <1>1, <1>4 DEF VerifyToken, Keeps, Early
<1>5. CASE CheckNonce(c)
  <2>1. /\ at[c] = "nonce"
        /\ at' = [at EXCEPT ![c] = IF IsDuplicate(sealed[msg[c]].nonce, clock)
                                   THEN "duplicate" ELSE "accepted"]
    BY <1>5 DEF CheckNonce, Goto
  <2>2. at'[c] \in {"duplicate", "accepted"}
    BY <1>1, <2>1
  <2>3. CASE IsDuplicate(sealed[msg[c]].nonce, clock)
    BY <1>5, <2>2, <2>3 DEF CheckNonce, Keeps, Early
  <2>4. CASE ~IsDuplicate(sealed[msg[c]].nonce, clock)
    BY <1>5, <2>1, <2>2, <2>4 DEF CheckNonce, Accepts, Early
  <2> QED BY <2>3, <2>4
<1>6. CASE Start(c)
  <2>1. at'[c] \in {"started", "refused"}
    BY <1>1, <1>6 DEF Start, Goto
  <2> QED BY <1>6, <2>1 DEF Start, Keeps, Early
<1>7. CASE PollDuplicate(c)
  <2>1. at'[c] = "duplicate"
    BY <1>1, <1>7 DEF PollDuplicate, Goto
  <2> QED BY <1>7, <2>1 DEF PollDuplicate, Keeps, Early
<1>8. CASE AnswerPoll(c)
  <2>1. at[c] = "body" /\ at'[c] \in {"refused", "polled"}
    BY <1>1, <1>8 DEF AnswerPoll, Goto
  <2>2. msg[c] \notin ExecuteMessage
    BY <1>8, AdmissionAssumption DEF AnswerPoll, ExecuteMessage
  <2> QED BY <1>8, <2>1, <2>2 DEF AnswerPoll, Accepts, Early
<1> QED BY <1>2, <1>3, <1>4, <1>5, <1>6, <1>7, <1>8 DEF Handle

\* Every other step leaves the record of accepted nonces alone; an arrival
\* writes to a call that has none.
OtherStep ==
  /\ stored' = stored
  /\ \A x \in DOMAIN sealed : x \in DOMAIN sealed' /\ sealed'[x] = sealed[x]
  /\ \/ UNCHANGED <<msg, era>>
     \/ \E c \in Call :
          /\ at[c] = "new"
          /\ \E m \in DOMAIN sealed : msg' = [msg EXCEPT ![c] = m]
          /\ era' = [era EXCEPT ![c] = epoch]
          /\ UNCHANGED <<epoch, clock, cache>>

\* Every step that is not a handler's is such a step.
LEMMA OtherNonce ==
  ASSUME AdmissionTypeOK, [Next]_vars, ~ \E c \in Call : Handle(c)
  PROVE  OtherStep
<1> USE DEF OtherStep
<1>1. CASE Seal
  <2>1. PICK m \in Message, content \in ExecuteContent \cup PollContent : SealWith(m, content)
    BY <1>1, SealEffect
  <2> QED BY <2>1 DEF SealWith, callVars
<1>2. CASE \E c \in Call, m \in Message, a \in Address : Arrive(c, m, a)
  <2>1. PICK c \in Call, m \in Message, a \in Address : Arrive(c, m, a)
    BY <1>2
  <2>2. /\ stored' = stored /\ sealed' = sealed
        /\ at[c] = "new"
        /\ m \in DOMAIN sealed /\ msg' = [msg EXCEPT ![c] = m]
        /\ era' = [era EXCEPT ![c] = epoch]
        /\ UNCHANGED <<epoch, clock, cache>>
    BY <2>1 DEF Arrive, worldVars
  <2> QED BY <2>2
<1>3. CASE \/ CleanupLimiter \/ (\E e \in Execution : DropContext(e)) \/ Restart
          \/ Tick \/ IssuerRotates \/ IssuerChanges \/ UNCHANGED vars
  BY <1>3 DEF CleanupLimiter, DropContext, Restart, Tick, IssuerRotates, IssuerChanges,
              vars, worldVars, callVars
<1>4. \/ Seal \/ \E c \in Call, m \in Message, a \in Address : Arrive(c, m, a)
      \/ CleanupLimiter \/ (\E e \in Execution : DropContext(e)) \/ Restart
      \/ Tick \/ IssuerRotates \/ IssuerChanges \/ UNCHANGED vars
  BY DEF Next
<1> QED BY <1>1, <1>2, <1>3, <1>4
-----------------------------------------------------------------------------
\* Every step keeps the acceptance of nonces in order.
LEMMA AcceptanceStep ==
  ASSUME AdmissionTypeOK, Positions, TokenFresh, Acceptance, [Next]_vars
  PROVE  Acceptance'
<1>t. /\ clock \in Nat /\ epoch \in Nat
      /\ at \in [Call -> Progress] /\ msg \in [Call -> Message \cup {None}]
      /\ era \in [Call -> 0 .. MaxEpoch] /\ stored \in [Call -> Nat \cup {Never}]
  BY DEF AdmissionTypeOK
<1>a. \A d \in Call :
        /\ at[d] \in Early => stored[d] = Never
        /\ stored[d] # Never =>
             /\ msg[d] \in DOMAIN sealed
             /\ stored[d] <= clock
             /\ msg[d] \in ExecuteMessage =>
                  sealed[msg[d]].epoch = era[d] /\ sealed[msg[d]].issued <= stored[d]
  BY DEF Acceptance, Early
<1>1. ASSUME NEW c \in Call, Handle(c)
      PROVE  Acceptance'
  <2>m. /\ \A d \in Call \ {c} : at'[d] = at[d]
        /\ at[c] \in {"body"} \cup InHandler
        /\ UNCHANGED <<clock, epoch, sealed, msg, era>>
    BY <1>1, <1>t, HandleMoves DEF Moves
  <2>1. CASE Keeps(c)
    <3>1. stored' = stored /\ (at'[c] \in Early => at[c] \in Early)
      BY <2>1 DEF Keeps
    <3>2. \A d \in Call : at'[d] \in Early => at[d] \in Early
      BY <2>m, <3>1
    <3> QED BY <1>a, <2>m, <3>1, <3>2 DEF Acceptance, Early
  <2>2. CASE Accepts(c)
    <3>1. /\ stored' = [stored EXCEPT ![c] = clock] /\ at'[c] \notin Early
          /\ msg[c] \in ExecuteMessage => at[c] = "nonce"
      BY <2>2 DEF Accepts
    <3>2. msg[c] \in DOMAIN sealed
      BY <2>m DEF Positions, InHandler
    <3>3. msg[c] \in ExecuteMessage =>
            sealed[msg[c]].epoch = era[c] /\ sealed[msg[c]].issued <= clock
      BY <3>1, <3>2 DEF Positions, InHandler, TokenFresh
    <3>4. stored'[c] = clock /\ \A d \in Call \ {c} : stored'[d] = stored[d]
      BY <1>t, <3>1
    <3>5. ASSUME NEW d \in Call
          PROVE  /\ at'[d] \in Early => stored'[d] = Never
                 /\ stored'[d] # Never =>
                      /\ msg[d] \in DOMAIN sealed
                      /\ stored'[d] <= clock
                      /\ msg[d] \in ExecuteMessage =>
                           /\ sealed[msg[d]].epoch = era[d]
                           /\ sealed[msg[d]].issued <= stored'[d]
      <4>1. CASE d = c
        BY <1>t, <3>1, <3>2, <3>3, <3>4, <4>1
      <4>2. CASE d # c
        BY <1>a, <2>m, <3>4, <4>2
      <4> QED BY <4>1, <4>2
    <3> QED BY <2>m, <3>5 DEF Acceptance, Early
  <2> QED BY <1>1, <2>1, <2>2, HandleNonce
<1>2. CASE ~ \E c \in Call : Handle(c)
  <2>1. stored' = stored
    BY <1>2, OtherNonce DEF OtherStep
  <2>2. \A x \in DOMAIN sealed : x \in DOMAIN sealed' /\ sealed'[x] = sealed[x]
    BY <1>2, OtherNonce DEF OtherStep
  <2>3. \A d \in Call : stored[d] # Never => msg'[d] = msg[d] /\ era'[d] = era[d]
    <3>1. CASE UNCHANGED <<msg, era>>
      BY <3>1
    <3>2. ASSUME NEW c \in Call, at[c] = "new",
                 \E m \in DOMAIN sealed : msg' = [msg EXCEPT ![c] = m],
                 era' = [era EXCEPT ![c] = epoch]
          PROVE  \A d \in Call : stored[d] # Never => msg'[d] = msg[d] /\ era'[d] = era[d]
      <4>1. stored[c] = Never
        BY <1>a, <3>2 DEF Early
      <4> QED BY <1>t, <3>2, <4>1
    <3> QED BY <1>2, <3>1, <3>2, OtherNonce DEF OtherStep
  <2>4. clock <= clock' /\ clock' \in Nat
    <3>1. CASE Tick
      BY <1>t, <3>1 DEF Tick
    <3>2. CASE ~Tick
      <4>1. clock' = clock
        BY <1>2, <3>2 DEF Next, vars, worldVars, Seal, SealExecute, SealPoll, SealWith,
              Arrive, CleanupLimiter, DropContext, Restart, IssuerRotates, IssuerChanges
      <4> QED BY <1>t, <4>1
    <3> QED BY <3>1, <3>2
  <2>5. \A d \in Call : at'[d] \in Early => at[d] \in Early
    <3>1. CASE Restart
      BY <3>1 DEF Restart, Early
    <3>2. ASSUME NEW c \in Call, NEW m \in Message, NEW a \in Address, Arrive(c, m, a)
          PROVE  \A d \in Call : at'[d] \in Early => at[d] \in Early
      BY <1>t, <3>2 DEF Arrive, Early
    <3>3. CASE ~Restart /\ ~ \E c \in Call, m \in Message, a \in Address : Arrive(c, m, a)
      <4>1. at' = at
        BY <1>2, <3>3 DEF Next, vars, callVars, Seal, SealExecute, SealPoll, SealWith,
              CleanupLimiter, DropContext, Tick, IssuerRotates, IssuerChanges
      <4> QED BY <4>1
    <3> QED BY <3>1, <3>2, <3>3
  <2>6. ASSUME NEW d \in Call
        PROVE  /\ at'[d] \in Early => stored'[d] = Never
               /\ stored'[d] # Never =>
                    /\ msg'[d] \in DOMAIN sealed'
                    /\ stored'[d] <= clock'
                    /\ msg'[d] \in ExecuteMessage =>
                         /\ sealed'[msg'[d]].epoch = era'[d]
                         /\ sealed'[msg'[d]].issued <= stored'[d]
    <3>1. stored[d] <= clock => stored[d] <= clock'
      BY <1>t, <2>4 DEF Never
    <3> QED BY <1>a, <2>1, <2>2, <2>3, <2>5, <3>1
  <2> QED BY <2>6 DEF Acceptance, Early
<1> QED BY <1>1, <1>2

\* Every step keeps tokens fresh: the handler notes when it looks at the
\* token, and the clock waits for it no longer than Lag.
LEMMA TokenFreshStep ==
  ASSUME AdmissionTypeOK, Positions, TokenFresh, [Next]_vars
  PROVE  TokenFresh'
<1>t. /\ clock \in Nat /\ checked \in Nat \cup {Never} /\ Lag \in Nat
      /\ at \in [Call -> Progress]
  BY AdmissionAssumption DEF AdmissionTypeOK
<1>f. /\ \A m \in DOMAIN sealed \cap ExecuteMessage :
           sealed[m].issued <= clock /\ sealed[m].issued \in Nat
      /\ \A d \in Call : at[d] = "nonce" =>
           checked # Never /\ checked < Expiry(msg[d]) /\ msg[d] \in DOMAIN sealed
      /\ checked # Never => checked <= clock /\ clock <= checked + Lag
  BY DEF TokenFresh, AdmissionTypeOK, ExecuteContent, Positions
<1>1. ASSUME NEW c \in Call, Handle(c)
      PROVE  TokenFresh'
  <2>1. /\ \A d \in Call \ {c} : at'[d] = at[d]
        /\ UNCHANGED <<clock, sealed, msg>>
    BY <1>1, <1>t, HandleMoves DEF Moves
  <2>2. \A d \in Call \ {c} : at[d] # "nonce"
    <3>1. busy \in {None, c}
      BY <1>1, HandlerEntry, HandleMoves DEF Moves
    <3> QED BY <3>1, AdmissionAssumption DEF Positions, InHandler
  <2>3. CASE VerifyToken(c)
    <3>1. at'[c] = "nonce" => checked' = clock /\ clock < Expiry(msg[c])
      BY <1>t, <2>3 DEF VerifyToken, Goto
    <3>2. checked' \in {clock, Never} /\ clock # Never
      BY <1>t, <2>3 DEF VerifyToken, Never
    <3>3. \A d \in Call : at'[d] = "nonce" => d = c
      BY <2>1, <2>2
    <3>4. Expiry(msg[c])' = Expiry(msg[c])
      BY <2>1 DEF Expiry
    <3>5. \A d \in Call : at'[d] = "nonce" => checked' # Never /\ checked' < Expiry(msg[d])'
      BY <3>1, <3>2, <3>3, <3>4
    <3>6. checked' # Never => checked' <= clock' /\ clock' <= checked' + Lag
      <4>1. clock' = clock /\ clock <= clock /\ clock <= clock + Lag
        BY <1>t, <2>1
      <4> QED BY <3>2, <4>1
    <3>7. \A m \in DOMAIN sealed' \cap ExecuteMessage : sealed'[m].issued <= clock'
      BY <1>f, <2>1
    <3> QED BY <3>5, <3>6, <3>7 DEF TokenFresh
  <2>4. CASE CheckNonce(c)
    <3>1. checked' = Never /\ at'[c] # "nonce"
      BY <1>t, <2>4 DEF CheckNonce, Goto
    <3> QED BY <1>f, <2>1, <2>2, <3>1 DEF TokenFresh
  <2>5. CASE ~VerifyToken(c) /\ ~CheckNonce(c)
    <3>1. checked' = checked
      BY <1>1, <2>5 DEF Handle, Open, LookUpKey, RefreshKeys, FindKey, Start,
                PollMalformed, PollDuplicate, AnswerPoll
    <3>2. at'[c] # "nonce"
      BY <1>1, <1>t, <2>5 DEF Handle, Open, LookUpKey, RefreshKeys, FindKey, Start,
                PollMalformed, PollDuplicate, AnswerPoll, Goto, Attempt
    <3> QED BY <1>f, <2>1, <2>2, <3>1, <3>2 DEF TokenFresh
  <2> QED BY <2>3, <2>4, <2>5
<1>2. CASE Seal
  <2>1. PICK m \in Message, content \in ExecuteContent \cup PollContent :
          /\ SealWith(m, content)
          /\ m \in ExecuteMessage => content.issued = clock
    BY <1>2, SealEffect
  <2>2. /\ sealed' = [x \in DOMAIN sealed \cup {m} |-> IF x = m THEN content ELSE sealed[x]]
        /\ m \notin DOMAIN sealed
        /\ UNCHANGED <<clock, checked, at, msg>>
    BY <2>1 DEF SealWith, loopVars, callVars
  <2>3. \A d \in Call : at[d] = "nonce" => Expiry(msg[d])' = Expiry(msg[d])
    BY <1>f, <2>2 DEF Expiry
  <2> QED BY <1>t, <1>f, <2>1, <2>2, <2>3 DEF TokenFresh
<1>3. ASSUME NEW c \in Call, NEW m \in Message, NEW a \in Address, Arrive(c, m, a)
      PROVE  TokenFresh'
  <2>1. /\ UNCHANGED <<clock, checked, sealed>>
        /\ at'[c] # "nonce"
        /\ \A d \in Call \ {c} : at'[d] = at[d] /\ msg'[d] = msg[d]
    BY <1>3, <1>t DEF Arrive, loopVars, worldVars, AdmissionTypeOK
  <2> QED BY <1>f, <2>1 DEF TokenFresh, Expiry
<1>4. CASE Restart
  <2>1. /\ checked' = Never /\ UNCHANGED <<clock, sealed>>
        /\ \A d \in Call : at'[d] # "nonce"
    BY <1>4 DEF Restart, InHandler
  <2> QED BY <1>f, <2>1 DEF TokenFresh
<1>5. CASE Tick
  <2>1. /\ clock' = clock + 1 /\ UNCHANGED <<checked, sealed, at, msg>>
        /\ checked # Never => clock < checked + Lag
    BY <1>5 DEF Tick, loopVars, callVars
  <2> QED BY <1>t, <1>f, <2>1 DEF TokenFresh, Expiry
<1>6. CASE CleanupLimiter \/ (\E e \in Execution : DropContext(e)) \/ IssuerRotates
          \/ IssuerChanges \/ UNCHANGED vars
  <2>1. UNCHANGED <<clock, checked, sealed, at, msg>>
    BY <1>6 DEF CleanupLimiter, DropContext, IssuerRotates, IssuerChanges, vars,
                worldVars, loopVars, callVars
  <2> QED BY <1>f, <2>1 DEF TokenFresh, Expiry
<1> QED BY <1>1, <1>2, <1>3, <1>4, <1>5, <1>6 DEF Next
-----------------------------------------------------------------------------
\* A nonce remembered for another call is in the cache when this call comes
\* with it, so it is not accepted again.
LEMMA NotAcceptedAgain ==
  ASSUME AdmissionTypeOK, Remembered, NEW c \in Call, NEW d \in Call, Accepts(c),
         stored[d] # Never, era[d] = epoch,
         sealed[msg[d]].nonce = sealed[msg[c]].nonce
  PROVE  stored[d] + NonceTTL <= clock
<1>1. stored[d] \in Nat /\ clock \in Nat /\ NonceTTL \in Nat
  BY NonceAssumption DEF AdmissionTypeOK
<1>2. sealed[msg[c]].nonce \notin Live(clock)
  BY DEF Accepts, IsDuplicate
<1>3. SUFFICES ASSUME clock < stored[d] + NonceTTL PROVE FALSE
  BY <1>1
<1>4. sealed[msg[d]].nonce \in DOMAIN cache /\ cache[sealed[msg[d]].nonce] = stored[d]
  BY <1>3 DEF Remembered
<1> QED BY <1>1, <1>2, <1>3, <1>4 DEF Live

\* Every step keeps what has to be remembered in the cache.
LEMMA RememberedStep ==
  ASSUME AdmissionTypeOK, Positions, Acceptance, Remembered, [Next]_vars
  PROVE  Remembered'
<1>t. /\ clock \in Nat /\ epoch \in Nat /\ NonceTTL \in Nat /\ CacheTypeOK
      /\ at \in [Call -> Progress] /\ msg \in [Call -> Message \cup {None}]
      /\ era \in [Call -> 0 .. MaxEpoch] /\ stored \in [Call -> Nat \cup {Never}]
  BY NonceAssumption DEF AdmissionTypeOK
<1>r. \A d \in Call :
        stored[d] # Never /\ era[d] = epoch /\ clock < stored[d] + NonceTTL =>
          /\ sealed[msg[d]].nonce \in DOMAIN cache
          /\ cache[sealed[msg[d]].nonce] = stored[d]
  BY DEF Remembered
<1>1. ASSUME NEW c \in Call, Handle(c)
      PROVE  Remembered'
  <2>1. /\ UNCHANGED <<clock, epoch, sealed, msg, era>>
        /\ at[c] # "new"
    BY <1>1, HandleMoves DEF Moves, InHandler
  <2>2. sealed[msg[c]].nonce \in Nonce
    BY <2>1, NonceType
  <2>3. CASE Keeps(c) /\ UNCHANGED cache
    BY <1>r, <2>1, <2>3 DEF Keeps, Remembered
  <2>4. CASE Keeps(c) /\ CheckAndStore(sealed[msg[c]].nonce, clock)
    <3>1. \A x \in DOMAIN cache :
            clock < cache[x] + NonceTTL => x \in DOMAIN cache' /\ cache'[x] = cache[x]
      BY <1>t, <2>2, <2>4, CacheKeeps
    <3> QED BY <1>r, <2>1, <2>4, <3>1 DEF Keeps, Remembered
  <2>5. CASE Accepts(c)
    <3>1. CheckAndStore(sealed[msg[c]].nonce, clock)
      BY <2>5 DEF Accepts
    <3>2. \A x \in DOMAIN cache :
            clock < cache[x] + NonceTTL => x \in DOMAIN cache' /\ cache'[x] = cache[x]
      BY <1>t, <2>2, <3>1, CacheKeeps
    <3>3. /\ sealed[msg[c]].nonce \in DOMAIN cache'
          /\ cache'[sealed[msg[c]].nonce] = clock
      BY <1>t, <2>2, <2>5, CacheKeeps DEF Accepts
    <3>4. stored'[c] = clock /\ \A d \in Call \ {c} : stored'[d] = stored[d]
      BY <1>t, <2>5 DEF Accepts
    <3>5. ASSUME NEW d \in Call, stored'[d] # Never, era[d] = epoch,
                 clock < stored'[d] + NonceTTL
          PROVE  /\ sealed[msg[d]].nonce \in DOMAIN cache'
                 /\ cache'[sealed[msg[d]].nonce] = stored'[d]
      <4>1. CASE d = c
        BY <3>3, <3>4, <4>1
      <4>2. CASE d # c
        BY <1>r, <3>2, <3>4, <3>5, <4>2
      <4> QED BY <4>1, <4>2
    <3> QED BY <2>1, <3>5 DEF Remembered
  <2> QED BY <1>1, <2>3, <2>4, <2>5, HandleNonce DEF Keeps
<1>2. CASE Restart
  <2>1. epoch' = epoch + 1 /\ UNCHANGED era
    BY <1>2 DEF Restart
  <2>2. \A d \in Call : era[d] \in Int /\ era[d] <= epoch
    BY <1>t DEF Positions
  <2>3. \A d \in Call : era'[d] # epoch'
    BY <1>t, <2>1, <2>2
  <2> QED BY <2>3 DEF Remembered
<1>3. CASE ~Restart /\ ~ \E c \in Call : Handle(c)
  <2>1. OtherStep
    BY <1>3, OtherNonce
  <2>2. epoch' = epoch /\ cache' = cache
    BY <1>3 DEF Next, vars, worldVars, Seal, SealExecute, SealPoll, SealWith, Arrive,
           CleanupLimiter, DropContext, Tick, IssuerRotates, IssuerChanges
  <2>3. clock' \in Nat /\ clock <= clock'
    <3>1. CASE Tick
      BY <1>t, <3>1 DEF Tick
    <3>2. CASE ~Tick
      <4>1. clock' = clock
        BY <1>3, <3>2 DEF Next, vars, worldVars, Seal, SealExecute, SealPoll, SealWith,
              Arrive, CleanupLimiter, DropContext, IssuerRotates, IssuerChanges
      <4> QED BY <1>t, <4>1
    <3> QED BY <3>1, <3>2
  <2>4. ASSUME NEW d \in Call, stored[d] # Never
        PROVE  msg'[d] = msg[d] /\ era'[d] = era[d] /\ sealed'[msg[d]] = sealed[msg[d]]
    <3>1. at[d] # "new" /\ msg[d] \in DOMAIN sealed
      BY <2>4 DEF Acceptance
    <3> QED BY <1>t, <2>1, <3>1 DEF OtherStep
  <2>5. ASSUME NEW d \in Call, stored[d] # Never, era'[d] = epoch',
               clock' < stored[d] + NonceTTL
        PROVE  /\ sealed'[msg'[d]].nonce \in DOMAIN cache'
               /\ cache'[sealed'[msg'[d]].nonce] = stored[d]
    <3>1. stored[d] \in Nat
      BY <1>t, <2>5
    <3>2. clock < stored[d] + NonceTTL
      BY <1>t, <2>3, <2>5, <3>1
    <3> QED BY <1>r, <2>2, <2>4, <2>5, <3>2
  <2>6. stored' = stored
    BY <2>1 DEF OtherStep
  <2> QED BY <2>5, <2>6 DEF Remembered
<1> QED BY <1>1, <1>2, <1>3

\* What protects from replays, as one inductive invariant.
ReplayInvariant ==
  /\ AdmissionTypeOK
  /\ Positions
  /\ Acceptance
  /\ TokenFresh
  /\ Remembered

\* It holds at first and is kept.
LEMMA ReplayInvariantHolds == Spec => []ReplayInvariant
<1>1. Init => Acceptance /\ TokenFresh /\ Remembered
  BY DEF Init, Acceptance, TokenFresh, Remembered
<1>2. AdmissionTypeOK /\ Positions /\ Acceptance /\ TokenFresh /\ Remembered /\ [Next]_vars
        => Acceptance' /\ TokenFresh' /\ Remembered'
  BY AcceptanceStep, TokenFreshStep, RememberedStep
<1> QED BY <1>1, <1>2, TypedPositions, PTL DEF Spec, ReplayInvariant

(***************************************************************************)
(* An execute message is acted upon once, however often, late or after how *)
(* many restarts it is delivered.  A second acceptance would come to a     *)
(* process with the same key pair, with a token not yet expired, hence     *)
(* before the nonce is forgotten.                                          *)
(***************************************************************************)
THEOREM MessagesAreNotReplayed == Spec => []NoReplay
<1>1. Init => NoReplay
  BY DEF Init, NoReplay
<1>2. ReplayInvariant /\ NoReplay /\ [Next]_vars => NoReplay'
  <2> SUFFICES ASSUME ReplayInvariant, NoReplay, [Next]_vars PROVE NoReplay'
    OBVIOUS
  <2>t. /\ clock \in Nat /\ NonceTTL \in Nat /\ Lag \in Nat /\ TokenLifetime \in Nat
        /\ TokenLifetime + Lag <= NonceTTL /\ checked \in Nat \cup {Never}
        /\ msg \in [Call -> Message \cup {None}] /\ stored \in [Call -> Nat \cup {Never}]
    BY NonceAssumption, AdmissionAssumption DEF ReplayInvariant, AdmissionTypeOK
  <2>1. ASSUME NEW c \in Call, Handle(c)
        PROVE  NoReplay'
    <3>1. msg' = msg
      BY <2>1, HandleMoves DEF Moves
    <3>2. CASE Keeps(c)
      BY <3>1, <3>2 DEF Keeps, NoReplay
    <3>3. CASE Accepts(c) /\ msg[c] \in ExecuteMessage
      <4>1. at[c] = "nonce" /\ stored' = [stored EXCEPT ![c] = clock]
        BY <3>3 DEF Accepts
      <4>2. /\ msg[c] \in DOMAIN sealed /\ sealed[msg[c]].epoch = epoch
            /\ checked < sealed[msg[c]].issued + TokenLifetime
            /\ clock <= checked + Lag /\ checked \in Nat
        BY <2>t, <4>1 DEF ReplayInvariant, Positions, InHandler, TokenFresh, Expiry
      <4>3. sealed[msg[c]].issued \in Nat
        BY <3>3, <4>2 DEF ReplayInvariant, AdmissionTypeOK, ExecuteContent
      <4>4. ASSUME NEW d \in Call, msg[d] = msg[c], stored[d] # Never
            PROVE  FALSE
        <5>1. era[d] = epoch /\ sealed[msg[c]].issued <= stored[d]
          BY <3>3, <4>2, <4>4 DEF ReplayInvariant, Acceptance
        <5>2. stored[d] + NonceTTL <= clock
          BY <3>3, <4>4, <5>1, NotAcceptedAgain DEF ReplayInvariant
        <5>3. stored[d] \in Nat
          BY <2>t, <4>4
        <5> QED BY <2>t, <4>2, <4>3, <5>1, <5>2, <5>3
      <4> QED BY <2>t, <3>1, <4>1, <4>4 DEF NoReplay
    <3>4. CASE Accepts(c) /\ msg[c] \notin ExecuteMessage
      BY <2>t, <3>1, <3>4 DEF Accepts, NoReplay
    <3> QED BY <2>1, <3>2, <3>3, <3>4, HandleNonce DEF ReplayInvariant
  <2>2. CASE ~ \E c \in Call : Handle(c)
    <3>1. OtherStep
      BY <2>2, OtherNonce DEF ReplayInvariant
    <3>2. \A d \in Call : at[d] = "new" => stored[d] = Never
      BY DEF ReplayInvariant, Acceptance
    <3>3. \A d \in Call : stored[d] # Never => msg'[d] = msg[d]
      BY <2>t, <3>1, <3>2 DEF OtherStep
    <3> QED BY <3>1, <3>3 DEF OtherStep, NoReplay
  <2> QED BY <2>1, <2>2
<1> QED BY <1>1, <1>2, ReplayInvariantHolds, PTL DEF Spec

(***************************************************************************)
(* One process accepts a nonce once in ttl_seconds, whichever messages and *)
(* endpoints it comes with, also polls, which carry no token.              *)
(***************************************************************************)
THEOREM NoncesAreUsedOnce == Spec => []NonceOnce
<1>1. Init => NonceOnce
  BY DEF Init, NonceOnce
<1>2. ReplayInvariant /\ NonceOnce /\ [Next]_vars => NonceOnce'
  <2> SUFFICES ASSUME ReplayInvariant, NonceOnce, [Next]_vars PROVE NonceOnce'
    OBVIOUS
  <2>t. /\ clock \in Nat /\ NonceTTL \in Nat
        /\ msg \in [Call -> Message \cup {None}] /\ era \in [Call -> 0 .. MaxEpoch]
        /\ stored \in [Call -> Nat \cup {Never}]
    BY NonceAssumption DEF ReplayInvariant, AdmissionTypeOK
  <2>1. ASSUME NEW c \in Call, Handle(c)
        PROVE  NonceOnce'
    <3>1. /\ UNCHANGED <<msg, era, sealed>>
          /\ era[c] = epoch
      BY <2>1, HandleMoves DEF Moves, ReplayInvariant, Positions
    <3>2. CASE Keeps(c)
      BY <3>1, <3>2 DEF Keeps, NonceOnce
    <3>3. CASE Accepts(c)
      <4>1. stored' = [stored EXCEPT ![c] = clock]
        BY <3>3 DEF Accepts
      <4>2. \A d \in Call :
              stored[d] # Never /\ era[d] = era[c]
                /\ sealed[msg[d]].nonce = sealed[msg[c]].nonce
              => clock - stored[d] >= NonceTTL
        <5> TAKE d \in Call
        <5> HAVE stored[d] # Never /\ era[d] = era[c]
                   /\ sealed[msg[d]].nonce = sealed[msg[c]].nonce
        <5>1. stored[d] + NonceTTL <= clock
          BY <3>1, <3>3, NotAcceptedAgain DEF ReplayInvariant
        <5> QED BY <2>t, <5>1
      <4> QED BY <2>t, <3>1, <4>1, <4>2 DEF NonceOnce
    <3> QED BY <2>1, <3>2, <3>3, HandleNonce DEF ReplayInvariant
  <2>2. CASE ~ \E c \in Call : Handle(c)
    <3>1. OtherStep
      BY <2>2, OtherNonce DEF ReplayInvariant
    <3>2. \A d \in Call : /\ at[d] = "new" => stored[d] = Never
                          /\ stored[d] # Never => msg[d] \in DOMAIN sealed
      BY DEF ReplayInvariant, Acceptance
    <3>3. \A d \in Call : stored[d] # Never =>
            msg'[d] = msg[d] /\ era'[d] = era[d] /\ sealed'[msg[d]] = sealed[msg[d]]
      BY <2>t, <3>1, <3>2 DEF OtherStep
    <3> QED BY <3>1, <3>3 DEF OtherStep, NonceOnce
  <2> QED BY <2>1, <2>2
<1> QED BY <1>1, <1>2, ReplayInvariantHolds, PTL DEF Spec
-----------------------------------------------------------------------------
\* The requests of an address let through in the window that ends at t.
Window(a, t) == {c \in Admitted(a) : t - RateWindow < arrival[c] /\ arrival[c] <= t}

\* Sets of calls are finite, and a part of one is not larger.
LEMMA CallSets ==
  /\ \A S \in SUBSET Call : IsFiniteSet(S) /\ Cardinality(S) \in Nat
  /\ \A S \in SUBSET Call, T \in SUBSET Call :
       S \subseteq T => Cardinality(S) <= Cardinality(T)
  /\ \A S \in SUBSET Call, c \in Call : Cardinality(S \cup {c}) <= Cardinality(S) + 1
<1>1. IsFiniteSet(Call)
  BY LimitsAssumption
<1>2. \A S \in SUBSET Call : IsFiniteSet(S) /\ Cardinality(S) \in Nat
  BY <1>1, FS_Subset, FS_CardinalityType
<1>3. \A S \in SUBSET Call, T \in SUBSET Call :
        S \subseteq T => Cardinality(S) <= Cardinality(T)
  BY <1>2, FS_Subset
<1>4. ASSUME NEW S \in SUBSET Call, NEW c \in Call
      PROVE  Cardinality(S \cup {c}) <= Cardinality(S) + 1
  <2>1. IsFiniteSet(S) /\ Cardinality(S) \in Nat
    BY <1>2
  <2>2. Cardinality(S \cup {c}) = IF c \in S THEN Cardinality(S) ELSE Cardinality(S) + 1
    BY <2>1, FS_AddElement
  <2> QED BY <2>1, <2>2
<1> QED BY <1>2, <1>3, <1>4

\* Only an arrival and a restart change what was let through and when.
LEMMA AdmittedUnchanged ==
  ASSUME AdmissionTypeOK, Positions, [Next]_vars, ~Restart,
         ~ \E c \in Call, m \in Message, a \in Address : Arrive(c, m, a)
  PROVE  /\ \A a \in Address : Admitted(a)' = Admitted(a)
         /\ arrival' = arrival
<1>1. ASSUME NEW c \in Call, Handle(c)
      PROVE  /\ \A a \in Address : Admitted(a)' = Admitted(a)
             /\ arrival' = arrival
  <2>1. /\ at[c] \in {"body"} \cup InHandler
        /\ UNCHANGED <<arrival, epoch, from, era>>
        /\ \E there \in Onward : at' = [at EXCEPT ![c] = there]
    BY <1>1, HandleMoves DEF Moves
  <2>2. \A d \in Call : at'[d] = "limited" <=> at[d] = "limited"
    BY <2>1 DEF Onward, InHandler, AdmissionTypeOK
  <2> QED BY <2>1, <2>2 DEF Admitted
<1>2. CASE ~ \E c \in Call : Handle(c)
  <2>1. UNCHANGED <<arrival, epoch, from, era, at>>
    BY <1>2 DEF Next, vars, worldVars, limitVars, callVars, Seal, SealExecute, SealPoll,
           SealWith, CleanupLimiter, DropContext, Tick, IssuerRotates, IssuerChanges
  <2> QED BY <2>1 DEF Admitted
<1> QED BY <1>1, <1>2

\* What an arrival lets through, and what it enters in the list.
LEMMA ArriveAdmits ==
  ASSUME AdmissionTypeOK, Positions, NEW c \in Call, NEW m \in Message,
         NEW a \in Address, Arrive(c, m, a)
  PROVE  /\ c \notin Admitted(a) /\ epoch' = epoch /\ clock' = clock
         /\ requests' = Put(requests, a, RecentRequests(a, clock) \cup
                               (IF RateAllows(a, clock) THEN {c} ELSE {}))
         /\ arrival' = IF RateAllows(a, clock) THEN [arrival EXCEPT ![c] = clock]
                                               ELSE arrival
         /\ \A b \in Address :
              Admitted(b)' = IF b = a /\ RateAllows(a, clock)
                             THEN Admitted(b) \cup {c} ELSE Admitted(b)
<1>1. /\ at[c] = "new" /\ from' = [from EXCEPT ![c] = a]
      /\ era' = [era EXCEPT ![c] = epoch] /\ epoch' = epoch /\ clock' = clock
      /\ \E how \in {"refused", "body"} :
           at' = [at EXCEPT ![c] = IF RateAllows(a, clock) THEN how ELSE "limited"]
  BY DEF Arrive, worldVars
<1>2. era[c] = 0 /\ epoch # 0
  BY <1>1 DEF Positions, AdmissionTypeOK
<1>3. \A b \in Address : c \notin Admitted(b)
  BY <1>2 DEF Admitted
<1>4. at \in [Call -> Progress] /\ from \in [Call -> Address \cup {None}]
      /\ era \in [Call -> 0 .. MaxEpoch]
  BY DEF AdmissionTypeOK
<1>5. ASSUME NEW b \in Address
      PROVE  Admitted(b)' = IF b = a /\ RateAllows(a, clock)
                            THEN Admitted(b) \cup {c} ELSE Admitted(b)
  <2>1. \A d \in Call \ {c} : d \in Admitted(b)' <=> d \in Admitted(b)
    BY <1>1, <1>4 DEF Admitted
  <2>2. c \in Admitted(b)' <=> b = a /\ RateAllows(a, clock)
    BY <1>1, <1>4 DEF Admitted
  <2>3. Admitted(b) \subseteq Call /\ Admitted(b)' \subseteq Call
    BY DEF Admitted
  <2> QED BY <1>3, <2>1, <2>2, <2>3
<1>6. /\ requests' = Put(requests, a, RecentRequests(a, clock) \cup
                           (IF RateAllows(a, clock) THEN {c} ELSE {}))
      /\ arrival' = IF RateAllows(a, clock) THEN [arrival EXCEPT ![c] = clock]
                                            ELSE arrival
  <2>1. CheckRateLimit(c, a, clock)
    BY DEF Arrive
  <2>2. RecentRequests(a, clock) \cup {} = RecentRequests(a, clock)
    OBVIOUS
  <2> QED BY <2>1, <2>2 DEF CheckRateLimit
<1> QED BY <1>1, <1>3, <1>5, <1>6

\* Every step keeps the recent requests in the lists: an arrival and the
\* clean-up drop only what has left the window.
LEMMA CountedStep ==
  ASSUME AdmissionTypeOK, Positions, Counted, [Next]_vars
  PROVE  Counted'
<1>t. /\ clock \in Nat /\ RateWindow \in Nat /\ epoch \in Nat
      /\ arrival \in [Call -> Nat \cup {Never}] /\ era \in [Call -> 0 .. MaxEpoch]
  BY LimitsAssumption DEF AdmissionTypeOK, LimitsTypeOK
<1>c. \A d \in Call :
        /\ arrival[d] <= clock
        /\ \A a \in Address :
             d \in Admitted(a) /\ arrival[d] > clock - RateWindow
               => a \in DOMAIN requests /\ d \in requests[a]
  BY DEF Counted
<1>r. \A a \in Address, d \in Call :
        d \in Admitted(a) /\ arrival[d] > clock - RateWindow
          => d \in RecentRequests(a, clock)
  BY <1>c DEF RecentRequests, Listed
<1>1. ASSUME NEW c \in Call, NEW m \in Message, NEW a \in Address, Arrive(c, m, a)
      PROVE  Counted'
  <2> DEFINE list == RecentRequests(a, clock) \cup (IF RateAllows(a, clock) THEN {c} ELSE {})
  <2>1. /\ c \notin Admitted(a) /\ clock' = clock
        /\ requests' = Put(requests, a, list)
        /\ arrival' = IF RateAllows(a, clock) THEN [arrival EXCEPT ![c] = clock]
                                              ELSE arrival
        /\ \A b \in Address :
             Admitted(b)' = IF b = a /\ RateAllows(a, clock)
                            THEN Admitted(b) \cup {c} ELSE Admitted(b)
    BY <1>1, ArriveAdmits
  <2>2. /\ DOMAIN requests' = DOMAIN requests \cup {a}
        /\ requests'[a] = list
        /\ \A b \in DOMAIN requests : b # a => requests'[b] = requests[b]
    BY <2>1 DEF Put
  <2> HIDE DEF list
  <2>3. \A d \in Call : arrival'[d] <= clock
    BY <1>t, <1>c, <2>1
  <2>4. ASSUME NEW d \in Call, NEW b \in Address, d \in Admitted(b)',
               arrival'[d] > clock - RateWindow
        PROVE  b \in DOMAIN requests' /\ d \in requests'[b]
    <3>1. CASE d = c /\ b = a /\ RateAllows(a, clock)
      BY <2>2, <3>1 DEF list
    <3>2. CASE ~(d = c /\ b = a /\ RateAllows(a, clock))
      <4>1. d \in Admitted(b)
        BY <2>1, <2>4, <3>2
      <4>2. d = c => ~RateAllows(a, clock)
        <5>1. \A x \in Address : c \in Admitted(x) => FALSE
          BY <1>1, <1>t DEF Arrive, Admitted, Positions, AdmissionTypeOK
        <5> QED BY <4>1, <5>1
      <4>3. arrival'[d] = arrival[d]
        BY <1>t, <2>1, <4>2
      <4>4. d \in RecentRequests(b, clock) /\ b \in DOMAIN requests /\ d \in requests[b]
        BY <1>c, <1>r, <2>4, <4>1, <4>3
      <4>5. b = a => d \in list
        BY <4>4 DEF list
      <4> QED BY <2>2, <4>4, <4>5
    <3> QED BY <3>1, <3>2
  <2> QED BY <2>1, <2>3, <2>4 DEF Counted
<1>2. CASE Restart
  <2>1. /\ epoch' = epoch + 1 /\ UNCHANGED <<era, clock>>
        /\ \A d \in Call : arrival'[d] = Never
    BY <1>2 DEF Restart, ForgetWindows
  <2>2. \A d \in Call : era[d] \in Int /\ era[d] <= epoch
    BY <1>t DEF Positions
  <2>3. \A a \in Address : Admitted(a)' = {}
    BY <1>t, <2>1, <2>2 DEF Admitted
  <2>4. Never <= clock
    BY <1>t DEF Never
  <2> QED BY <2>1, <2>3, <2>4 DEF Counted
<1>3. CASE ~Restart /\ ~ \E c \in Call, m \in Message, a \in Address : Arrive(c, m, a)
  <2>1. /\ \A a \in Address : Admitted(a)' = Admitted(a)
        /\ arrival' = arrival
    BY <1>3, AdmittedUnchanged
  <2>2. CASE CleanupLimiter
    <3>1. clock' = clock
      BY <2>2 DEF CleanupLimiter, worldVars
    <3>2. ASSUME NEW d \in Call, NEW a \in Address, d \in Admitted(a),
                 arrival[d] > clock - RateWindow
          PROVE  a \in DOMAIN requests' /\ d \in requests'[a]
      <4>1. a \in DOMAIN requests /\ d \in RecentRequests(a, clock)
        BY <1>c, <1>r, <3>2
      <4> QED BY <2>2, <4>1 DEF CleanupLimiter, CleanupStaleIps
    <3> QED BY <1>c, <2>1, <3>1, <3>2 DEF Counted
  <2>3. CASE Tick
    <3>1. clock' = clock + 1 /\ requests' = requests
      BY <2>3 DEF Tick, limitVars
    <3>2. \A d \in Call : /\ arrival[d] \in Int /\ arrival[d] <= clock + 1
                          /\ arrival[d] > clock + 1 - RateWindow
                               => arrival[d] > clock - RateWindow
      BY <1>t, <1>c DEF Never
    <3>3. ASSUME NEW d \in Call, NEW a \in Address, d \in Admitted(a)',
                 arrival'[d] > clock' - RateWindow
          PROVE  a \in DOMAIN requests' /\ d \in requests'[a]
      <4>1. d \in Admitted(a) /\ arrival[d] > clock + 1 - RateWindow
        BY <1>t, <2>1, <3>1, <3>3
      <4>2. arrival[d] > clock - RateWindow
        BY <3>2, <4>1
      <4> QED BY <1>c, <3>1, <4>1, <4>2
    <3>4. \A d \in Call : arrival'[d] <= clock'
      BY <2>1, <3>1, <3>2
    <3> QED BY <3>3, <3>4 DEF Counted
  <2>4. CASE ~CleanupLimiter /\ ~Tick
    <3>1. CASE \E c \in Call : Handle(c)
      <4>1. clock' = clock /\ requests' = requests
        BY <3>1, HandleMoves DEF Moves
      <4> QED BY <1>c, <2>1, <4>1 DEF Counted
    <3>2. CASE ~ \E c \in Call : Handle(c)
      <4>1. clock' = clock /\ requests' = requests
        BY <1>3, <2>4, <3>2 DEF Next, vars, worldVars, limitVars, Seal, SealExecute,
             SealPoll, SealWith, DropContext, IssuerRotates, IssuerChanges
      <4> QED BY <1>c, <2>1, <4>1 DEF Counted
    <3> QED BY <3>1, <3>2
  <2> QED BY <2>2, <2>3, <2>4
<1> QED BY <1>1, <1>2, <1>3

(***************************************************************************)
(* No window holds more than RateLimit requests of an address, whatever    *)
(* the limiter's lists have lost in the meantime.  A request is let        *)
(* through when its list is short, and Counted says that the list still    *)
(* has every request of the window that ends now; no window that ends      *)
(* later holds more, until the next is let through.                        *)
(***************************************************************************)
THEOREM RateLimitHolds == Spec => []RateBound
<1> DEFINE Inv == AdmissionTypeOK /\ Positions /\ Counted
<1>1. Init => Counted /\ RateBound
  <2> SUFFICES ASSUME Init PROVE Counted /\ RateBound
    OBVIOUS
  <2>1. \A a \in Address : Admitted(a) = {}
    BY DEF Init, Admitted
  <2>2. Counted
    BY <2>1 DEF Init, LimitsInit, Counted, Never
  <2>3. RateBound
    BY <2>1, FS_EmptySet, LimitsAssumption DEF RateBound
  <2> QED BY <2>2, <2>3
<1>2. Inv /\ RateBound /\ [Next]_vars => Counted' /\ RateBound'
  <2> SUFFICES ASSUME Inv, RateBound, [Next]_vars PROVE RateBound'
    BY CountedStep
  <2>t. /\ clock \in Nat /\ RateWindow \in Nat /\ RateLimit \in Nat
        /\ arrival \in [Call -> Nat \cup {Never}] /\ epoch \in Nat
        /\ era \in [Call -> 0 .. MaxEpoch]
    BY LimitsAssumption DEF AdmissionTypeOK, LimitsTypeOK
  <2>b. \A a \in Address : \A t \in 0 .. clock : Cardinality(Window(a, t)) <= RateLimit
    BY DEF RateBound, Window
  <2>w. \A a \in Address : \A t : Window(a, t) \in SUBSET Call
    BY DEF Window, Admitted
  <2>g. SUFFICES ASSUME NEW a \in Address, NEW t \in 0 .. clock'
                 PROVE  Cardinality(Window(a, t)') <= RateLimit
    BY DEF RateBound, Window
  <2>1. ASSUME NEW c \in Call, NEW m \in Message, NEW b \in Address, Arrive(c, m, b)
        PROVE  Cardinality(Window(a, t)') <= RateLimit
    <3>1. /\ clock' = clock /\ c \notin Admitted(b)
          /\ arrival' = IF RateAllows(b, clock) THEN [arrival EXCEPT ![c] = clock]
                                                ELSE arrival
          /\ Admitted(a)' = IF a = b /\ RateAllows(b, clock)
                            THEN Admitted(a) \cup {c} ELSE Admitted(a)
      BY <2>1, ArriveAdmits
    <3>2. c \notin Admitted(a)
      BY <2>1, <2>t DEF Arrive, Admitted, Positions, AdmissionTypeOK
    <3>3. CASE ~(a = b /\ RateAllows(b, clock)) \/ t < clock
      <4>1. Window(a, t)' = Window(a, t)
        BY <2>t, <3>1, <3>2, <3>3 DEF Window, Admitted
      <4> QED BY <2>b, <3>1, <4>1
    <3>4. CASE a = b /\ RateAllows(b, clock) /\ t = clock
      <4>1. Window(a, t)' \subseteq RecentRequests(a, clock) \cup {c}
        <5>1. \A d \in Call \ {c} : d \in Window(a, t)' => d \in Window(a, clock)
          BY <2>t, <3>1, <3>4 DEF Window, Admitted
        <5>2. \A d \in Call : d \in Window(a, clock) => d \in RecentRequests(a, clock)
          BY <2>t DEF Counted, Window, RecentRequests, Listed
        <5> QED BY <5>1, <5>2 DEF Window, Admitted
      <4>2. RecentRequests(a, clock) \in SUBSET Call
        BY DEF RecentRequests, Listed, AdmissionTypeOK, LimitsTypeOK
      <4>3. Cardinality(RecentRequests(a, clock)) < RateLimit
        BY <3>4 DEF RateAllows
      <4>4. Cardinality(RecentRequests(a, clock) \cup {c}) <= RateLimit
        BY <2>t, <4>2, <4>3, CallSets
      <4>5. Cardinality(Window(a, t)') <= Cardinality(RecentRequests(a, clock) \cup {c})
        BY <4>1, <4>2, CallSets
      <4>6. Window(a, t)' \in SUBSET Call /\ RecentRequests(a, clock) \cup {c} \in SUBSET Call
        BY <4>1, <4>2
      <4> QED BY <2>t, <4>4, <4>5, <4>6, CallSets
    <3> QED BY <2>g, <2>t, <3>1, <3>3, <3>4
  <2>2. CASE Restart
    <3>1. Window(a, t)' = {}
      BY <2>2, <2>t DEF Restart, Positions, Window, Admitted
    <3> QED BY <3>1, <2>t, FS_EmptySet
  <2>3. CASE ~Restart /\ ~ \E c \in Call, m \in Message, b \in Address : Arrive(c, m, b)
    <3>1. Window(a, t)' = Window(a, t)
      BY <2>3, AdmittedUnchanged DEF Window
    <3>2. CASE t \in 0 .. clock
      BY <2>b, <3>1, <3>2
    <3>3. CASE t \notin 0 .. clock
      <4>1. Window(a, t) \subseteq Window(a, clock)
        BY <2>g, <2>t, <3>3 DEF Window, Admitted, Counted, Never
      <4>2. Cardinality(Window(a, t)) <= Cardinality(Window(a, clock))
        BY <2>w, <4>1, CallSets
      <4>3. Cardinality(Window(a, clock)) <= RateLimit
        BY <2>b, <2>t
      <4>4. Cardinality(Window(a, t)) \in Nat /\ Cardinality(Window(a, clock)) \in Nat
        BY <2>w, CallSets
      <4> QED BY <2>t, <3>1, <4>2, <4>3, <4>4
    <3> QED BY <3>2, <3>3
  <2> QED BY <2>1, <2>2, <2>3
<1> QED BY <1>1, <1>2, TypedPositions, PTL DEF Spec, Inv
-----------------------------------------------------------------------------
(* The attestation limit, along the same lines.                             *)

\* The polls of an execution attested in the window that ends at t.
AttestedIn(e, t) == {c \in Attested(e) : t - AttestWindow < attested[c] /\ attested[c] <= t}

\* The list of an execution holds its recent attestations; only a finished
\* poll has one.
Recorded ==
  \A c \in Call :
    /\ attested[c] <= clock
    /\ at[c] # "polled" => attested[c] = Never
    /\ \A e \in Execution :
         c \in Attested(e) /\ attested[c] > clock - AttestWindow
           => e \in DOMAIN records /\ c \in records[e]

\* An attestation of execution e is granted to call c.
Grants(c, e) ==
  /\ AttestAllows(e, clock) /\ clock' = clock
  /\ records' = Put(records, e, RecentAttestations(e, clock) \cup {c})
  /\ attested' = [attested EXCEPT ![c] = clock]
  /\ \A x \in Execution : c \notin Attested(x)
  /\ \A x \in Execution :
       Attested(x)' = IF x = e THEN Attested(x) \cup {c} ELSE Attested(x)

\* No attestation is granted or forgotten; a list loses what left the window.
GrantsNone ==
  /\ attested' = attested /\ clock' \in {clock, clock + 1}
  /\ \A x \in Execution : Attested(x)' = Attested(x)
  /\ \/ records' = records
     \/ clock' = clock /\ \E e \in Execution : records' = Put(records, e, RecentAttestations(e, clock))

\* A call that was new or ends without an answer is in no window.
LEMMA AttestSteps ==
  ASSUME AdmissionTypeOK, Positions, Recorded, [Next]_vars, ~Restart
  PROVE  /\ GrantsNone \/ \E c \in Call, e \in Execution : Grants(c, e)
         /\ \A c \in Call : at'[c] # "polled" => attested'[c] = Never
<1>t. /\ at \in [Call -> Progress] /\ era \in [Call -> 0 .. MaxEpoch]
      /\ attested \in [Call -> Nat \cup {Never}] /\ clock \in Nat
  BY DEF AdmissionTypeOK, LimitsTypeOK
<1>1. ASSUME NEW c \in Call, AnswerPoll(c)
      PROVE  /\ GrantsNone \/ \E e \in Execution : Grants(c, e)
             /\ \A d \in Call : at'[d] # "polled" => attested'[d] = Never
  <2> DEFINE s == sealed[msg[c]].subject
  <2>1. /\ at[c] = "body" /\ msg[c] \in PollMessage /\ era[c] = epoch
        /\ UNCHANGED <<clock, epoch, sealed, msg, era>>
    BY <1>1 DEF AnswerPoll, Goto, worldVars, Positions
  <2>2. s \in Execution
    BY <2>1, NonceType
  <2>3. attested[c] = Never /\ \A x \in Execution : c \notin Attested(x)
    BY <2>1 DEF Recorded, Attested
  <2>4. CASE at' = [at EXCEPT ![c] = "refused"] /\ UNCHANGED <<records, attested>>
    <3>1. \A x \in Execution : Attested(x)' = Attested(x)
      BY <1>t, <2>1, <2>3, <2>4 DEF Attested
    <3> QED BY <1>t, <2>1, <2>4, <3>1 DEF GrantsNone, Recorded
  <2>5. CASE at' = [at EXCEPT ![c] = "polled"] /\ CheckAndRecord(c, s, clock)
    <3>1. CASE AttestAllows(s, clock)
      <4>1. /\ records' = Put(records, s, RecentAttestations(s, clock) \cup {c})
            /\ attested' = [attested EXCEPT ![c] = clock]
        BY <2>5, <3>1 DEF CheckAndRecord
      <4>2. ASSUME NEW x \in Execution
            PROVE  Attested(x)' = IF x = s THEN Attested(x) \cup {c} ELSE Attested(x)
        <5>1. \A d \in Call \ {c} : d \in Attested(x)' <=> d \in Attested(x)
          BY <1>t, <2>1, <2>5, <4>1 DEF Attested
        <5>2. c \in Attested(x)' <=> x = s
          BY <1>t, <2>1, <2>5, <4>1 DEF Attested, Never
        <5>3. Attested(x) \subseteq Call /\ Attested(x)' \subseteq Call
          BY DEF Attested
        <5> QED BY <2>3, <5>1, <5>2, <5>3
      <4>3. \A d \in Call : at'[d] # "polled" => attested'[d] = Never
        BY <1>t, <2>5, <4>1 DEF Recorded
      <4>4. Grants(c, s)
        BY <2>1, <2>3, <3>1, <4>1, <4>2 DEF Grants
      <4> QED BY <2>2, <4>3, <4>4
    <3>2. CASE ~AttestAllows(s, clock)
      <4>1. records' = Put(records, s, RecentAttestations(s, clock)) /\ attested' = attested
        BY <2>5, <3>2 DEF CheckAndRecord
      <4>2. \A x \in Execution : Attested(x)' = Attested(x)
        BY <1>t, <2>1, <2>3, <2>5, <4>1 DEF Attested
      <4> QED BY <1>t, <2>1, <2>2, <2>5, <4>1, <4>2 DEF GrantsNone, Recorded
    <3> QED BY <3>1, <3>2
  <2> QED BY <1>1, <2>4, <2>5 DEF AnswerPoll, Goto
<1>2. CASE ~ \E c \in Call : AnswerPoll(c)
  <2>1. /\ UNCHANGED <<records, attested, epoch>> /\ clock' \in {clock, clock + 1}
        /\ \A m \in DOMAIN sealed : m \in DOMAIN sealed' /\ sealed'[m] = sealed[m]
    BY <1>2 DEF Next, vars, worldVars, limitVars, Seal, SealExecute, SealPoll, SealWith, Arrive,
         Handle, Open, LookUpKey, RefreshKeys, FindKey, VerifyToken, CheckNonce, Start,
         PollMalformed, PollDuplicate, CleanupLimiter, DropContext, Tick, IssuerRotates,
         IssuerChanges
  <2>2. \A d \in Call : \/ at'[d] = at[d] /\ msg'[d] = msg[d] /\ era'[d] = era[d]
                        \/ at[d] # "polled" /\ at'[d] # "polled"
    <3>1. ASSUME NEW c \in Call, Handle(c)
          PROVE  /\ msg' = msg /\ era' = era /\ at[c] # "polled"
                 /\ \E there \in Progress \ {"polled"} : at' = [at EXCEPT ![c] = there]
      <4>1. /\ msg' = msg /\ era' = era /\ at[c] # "polled"
        BY <3>1, HandleMoves DEF Moves, InHandler
      <4>2. \E there \in Progress \ {"polled"} : at' = [at EXCEPT ![c] = there]
        <5>1. CASE LookUpKey(c) \/ RefreshKeys(c)
          <6>1. PICK refresh \in BOOLEAN, here \in {"lookup", "refresh"} : FindKey(c, here, refresh)
            BY <5>1 DEF LookUpKey, RefreshKeys
          <6>2. Attempt(sealed[msg[c]].key, refresh) \in {"raised", "error", "found", "miss"}
            BY DEF Attempt
          <6> QED BY <6>1, <6>2 DEF FindKey, Goto, Progress, InHandler, Refusal
        <5>2. CASE Open(c) \/ VerifyToken(c)
          BY <5>2 DEF Open, VerifyToken, Goto, Progress, InHandler, Refusal
        <5>3. CASE CheckNonce(c)
          <6>1. \E there \in {"duplicate", "accepted"} : Goto(c, "nonce", there)
            BY <5>3 DEF CheckNonce
          <6> QED BY <6>1 DEF Goto, Progress, InHandler, Refusal
        <5>4. CASE Start(c) \/ PollMalformed(c) \/ PollDuplicate(c)
          BY <5>4 DEF Start, PollMalformed, PollDuplicate, Goto, Progress, Refusal
        <5> QED BY <1>2, <3>1, <5>1, <5>2, <5>3, <5>4 DEF Handle
      <4> QED BY <4>1, <4>2
    <3>2. ASSUME NEW c \in Call, NEW m \in Message, NEW a \in Address, Arrive(c, m, a)
          PROVE  \A d \in Call : \/ at'[d] = at[d] /\ msg'[d] = msg[d] /\ era'[d] = era[d]
                                 \/ at[d] # "polled" /\ at'[d] # "polled"
      BY <1>t, <3>2 DEF Arrive, AdmissionTypeOK
    <3>3. CASE /\ ~ \E c \in Call : Handle(c)
               /\ ~ \E c \in Call, m \in Message, a \in Address : Arrive(c, m, a)
      BY <3>3 DEF Next, vars, callVars, Seal, SealExecute, SealPoll, SealWith,
                  CleanupLimiter, DropContext, Tick, IssuerRotates, IssuerChanges
    <3> QED BY <1>t, <3>1, <3>2, <3>3
  <2>3. ASSUME NEW x \in Execution PROVE Attested(x)' = Attested(x)
    <3>1. \A d \in Call : at[d] = "polled" => msg[d] \in DOMAIN sealed
      BY DEF Positions
    <3>2. \A d \in Call : d \in Attested(x)' <=> d \in Attested(x)
      BY <2>1, <2>2, <3>1 DEF Attested
    <3>3. Attested(x) \subseteq Call /\ Attested(x)' \subseteq Call
      BY DEF Attested
    <3> QED BY <3>2, <3>3
  <2>4. \A d \in Call : at'[d] # "polled" => attested'[d] = Never
    BY <2>1, <2>2 DEF Recorded
  <2> QED BY <2>1, <2>3, <2>4 DEF GrantsNone
<1> QED BY <1>1, <1>2

LEMMA RecordedStep ==
  ASSUME AdmissionTypeOK, Positions, Recorded, [Next]_vars
  PROVE  Recorded'
<1>t. /\ clock \in Nat /\ AttestWindow \in Nat /\ attested \in [Call -> Nat \cup {Never}]
  BY LimitsAssumption DEF AdmissionTypeOK, LimitsTypeOK
<1>c. \A d \in Call :
        /\ attested[d] <= clock
        /\ \A e \in Execution :
             d \in Attested(e) /\ attested[d] > clock - AttestWindow
               => e \in DOMAIN records /\ d \in records[e] /\ d \in RecentAttestations(e, clock)
  BY DEF Recorded, RecentAttestations, Listed
<1>1. CASE Restart
  <2>1. clock' = clock /\ \A d \in Call : attested'[d] = Never
    BY <1>1 DEF Restart, ForgetWindows
  <2>2. \A e \in Execution : Attested(e)' = {}
    BY <2>1 DEF Attested
  <2> QED BY <1>t, <2>1, <2>2 DEF Recorded, Never
<1>2. ASSUME ~Restart, NEW c \in Call, NEW e \in Execution, Grants(c, e)
      PROVE  Recorded'
  <2> DEFINE list == RecentAttestations(e, clock) \cup {c}
  <2>1. /\ clock' = clock /\ attested' = [attested EXCEPT ![c] = clock]
        /\ DOMAIN records' = DOMAIN records \cup {e} /\ records'[e] = list
        /\ \A x \in DOMAIN records : x # e => records'[x] = records[x]
        /\ \A x \in Execution : Attested(x)' = IF x = e THEN Attested(x) \cup {c} ELSE Attested(x)
        /\ \A x \in Execution : c \notin Attested(x)
    BY <1>2 DEF Grants, Put
  <2>2. \A d \in Call : attested'[d] <= clock'
    BY <1>t, <1>c, <2>1
  <2>3. ASSUME NEW d \in Call, NEW x \in Execution, d \in Attested(x)',
               attested'[d] > clock - AttestWindow
        PROVE  x \in DOMAIN records' /\ d \in records'[x]
    <3>1. CASE d = c
      BY <2>1, <2>3, <3>1
    <3>2. CASE d # c
      <4>1. d \in Attested(x) /\ attested[d] > clock - AttestWindow
        BY <1>t, <2>1, <2>3, <3>2
      <4>2. x \in DOMAIN records /\ d \in records[x] /\ d \in RecentAttestations(x, clock)
        BY <1>c, <4>1
      <4>3. x = e => d \in list
        BY <4>2
      <4> HIDE DEF list
      <4> QED BY <2>1, <4>2, <4>3
    <3> QED BY <3>1, <3>2
  <2> HIDE DEF list
  <2>4. \A d \in Call : at'[d] # "polled" => attested'[d] = Never
    BY <1>2, AttestSteps
  <2> QED BY <2>1, <2>2, <2>3, <2>4 DEF Recorded
<1>3. CASE ~Restart /\ GrantsNone
  <2>1. /\ attested' = attested /\ clock' \in {clock, clock + 1}
        /\ \A x \in Execution : Attested(x)' = Attested(x)
    BY <1>3 DEF GrantsNone
  <2>2. \A d \in Call : attested'[d] <= clock'
    BY <1>t, <1>c, <2>1 DEF Never
  <2>3. ASSUME NEW d \in Call, NEW x \in Execution, d \in Attested(x)',
               attested'[d] > clock' - AttestWindow
        PROVE  x \in DOMAIN records' /\ d \in records'[x]
    <3>1. d \in Attested(x) /\ attested[d] > clock - AttestWindow
      BY <1>t, <2>1, <2>3 DEF Never
    <3>2. x \in DOMAIN records /\ d \in records[x] /\ d \in RecentAttestations(x, clock)
      BY <1>c, <3>1
    <3> QED BY <1>3, <3>2 DEF GrantsNone, Put
  <2>4. \A d \in Call : at'[d] # "polled" => attested'[d] = Never
    BY <1>3, AttestSteps
  <2> QED BY <2>1, <2>2, <2>3, <2>4 DEF Recorded
<1> QED BY <1>1, <1>2, <1>3, AttestSteps

(***************************************************************************)
(* No window holds more than AttestLimit attestations of an execution,     *)
(* whoever polls: the TPM is not asked more often than that.               *)
(***************************************************************************)
THEOREM AttestationLimitHolds == Spec => []AttestationBound
<1> DEFINE Inv == AdmissionTypeOK /\ Positions /\ Recorded
<1>1. Init => Recorded /\ AttestationBound
  <2> SUFFICES ASSUME Init PROVE Recorded /\ AttestationBound
    OBVIOUS
  <2>1. \A e \in Execution : Attested(e) = {}
    BY DEF Init, Attested
  <2>2. Recorded
    BY <2>1 DEF Init, LimitsInit, Recorded, Never
  <2>3. AttestationBound
    BY <2>1, FS_EmptySet, LimitsAssumption DEF AttestationBound
  <2> QED BY <2>2, <2>3
<1>2. Inv /\ AttestationBound /\ [Next]_vars => Recorded' /\ AttestationBound'
  <2> SUFFICES ASSUME Inv, AttestationBound, [Next]_vars PROVE AttestationBound'
    BY RecordedStep
  <2>t. /\ clock \in Nat /\ AttestWindow \in Nat /\ AttestLimit \in Nat
        /\ attested \in [Call -> Nat \cup {Never}]
    BY LimitsAssumption DEF AdmissionTypeOK, LimitsTypeOK
  <2>b. \A e \in Execution : \A t \in 0 .. clock : Cardinality(AttestedIn(e, t)) <= AttestLimit
    BY DEF AttestationBound, AttestedIn
  <2>w. \A e \in Execution : \A t : AttestedIn(e, t) \in SUBSET Call
    BY DEF AttestedIn, Attested
  <2>g. SUFFICES ASSUME NEW e \in Execution, NEW t \in 0 .. clock'
                 PROVE  Cardinality(AttestedIn(e, t)') <= AttestLimit
    BY DEF AttestationBound, AttestedIn
  <2>1. ASSUME NEW c \in Call, NEW x \in Execution, Grants(c, x)
        PROVE  Cardinality(AttestedIn(e, t)') <= AttestLimit
    <3>1. /\ clock' = clock /\ c \notin Attested(e)
          /\ attested' = [attested EXCEPT ![c] = clock]
          /\ Attested(e)' = IF e = x THEN Attested(e) \cup {c} ELSE Attested(e)
      BY <2>1 DEF Grants
    <3>2. CASE e # x \/ t < clock
      <4>1. AttestedIn(e, t)' = AttestedIn(e, t)
        BY <2>t, <3>1, <3>2 DEF AttestedIn, Attested
      <4> QED BY <2>b, <3>1, <4>1
    <3>3. CASE e = x /\ t = clock
      <4>1. AttestedIn(e, t)' \subseteq RecentAttestations(e, clock) \cup {c}
        <5>1. \A d \in Call \ {c} : d \in AttestedIn(e, t)' => d \in AttestedIn(e, clock)
          BY <2>t, <3>1, <3>3 DEF AttestedIn, Attested
        <5>2. \A d \in Call : d \in AttestedIn(e, clock) => d \in RecentAttestations(e, clock)
          BY <2>t DEF Recorded, AttestedIn, RecentAttestations, Listed
        <5> QED BY <5>1, <5>2 DEF AttestedIn, Attested
      <4>2. RecentAttestations(e, clock) \in SUBSET Call
        BY DEF RecentAttestations, Listed, AdmissionTypeOK, LimitsTypeOK
      <4>3. Cardinality(RecentAttestations(e, clock)) < AttestLimit
        BY <2>1, <3>3 DEF Grants, AttestAllows
      <4>4. Cardinality(RecentAttestations(e, clock) \cup {c}) <= AttestLimit
        BY <2>t, <4>2, <4>3, CallSets
      <4>5. Cardinality(AttestedIn(e, t)') <= Cardinality(RecentAttestations(e, clock) \cup {c})
        BY <4>1, <4>2, CallSets
      <4>6. AttestedIn(e, t)' \in SUBSET Call /\ RecentAttestations(e, clock) \cup {c} \in SUBSET Call
        BY <4>1, <4>2
      <4> QED BY <2>t, <4>4, <4>5, <4>6, CallSets
    <3> QED BY <2>g, <2>t, <3>1, <3>2, <3>3
  <2>2. CASE Restart
    <3>1. AttestedIn(e, t)' = {}
      BY <2>2 DEF Restart, ForgetWindows, AttestedIn, Attested
    <3> QED BY <3>1, <2>t, FS_EmptySet
  <2>3. CASE ~Restart /\ GrantsNone
    <3>1. AttestedIn(e, t)' = AttestedIn(e, t)
      BY <2>3 DEF GrantsNone, AttestedIn
    <3>2. CASE t \in 0 .. clock
      BY <2>b, <3>1, <3>2
    <3>3. CASE t \notin 0 .. clock
      <4>1. AttestedIn(e, t) \subseteq AttestedIn(e, clock)
        BY <2>g, <2>t, <3>3 DEF AttestedIn, Attested, Recorded, Never
      <4>2. Cardinality(AttestedIn(e, t)) <= Cardinality(AttestedIn(e, clock))
        BY <2>w, <4>1, CallSets
      <4>3. Cardinality(AttestedIn(e, clock)) <= AttestLimit
        BY <2>b, <2>t
      <4>4. Cardinality(AttestedIn(e, t)) \in Nat /\ Cardinality(AttestedIn(e, clock)) \in Nat
        BY <2>w, CallSets
      <4> QED BY <2>t, <3>1, <4>2, <4>3, <4>4
    <3> QED BY <3>2, <3>3
  <2> QED BY <2>1, <2>2, <2>3, AttestSteps
<1> QED BY <1>1, <1>2, TypedPositions, PTL DEF Spec, Inv
-----------------------------------------------------------------------------
\* An issuer that never answers without keys leaves no such answer behind.
Keyed == issuer # "keyless" /\ jwks.state # "keyless"

\* Fetching caches what the issuer answered.
LEMMA FetchKeepsKeyed ==
  ASSUME KeysTypeOK, Keyed, NEW refresh \in BOOLEAN, FetchJwks(refresh)
  PROVE  Keyed'
<1>1. Response.state = "keys" \/ issuer = "down"
  <2>1. CASE issuer = "ok"
    BY <2>1 DEF Response
  <2>2. CASE issuer # "ok"
    BY <2>2 DEF KeysTypeOK, Keyed
  <2> QED BY <2>1, <2>2
<1> QED BY <1>1 DEF Keyed, FetchJwks, Document, Cached

\* Nothing else writes the cache.
LEMMA KeyedStep ==
  ASSUME "keyless" \notin Faults, KeysTypeOK, Keyed, [Next]_vars
  PROVE  Keyed'
<1>0. CASE UNCHANGED keyVars
  BY <1>0 DEF keyVars, Keyed
<1>1. CASE Seal
  BY <1>0, <1>1 DEF Seal, SealExecute, SealPoll, SealWith
<1>2. ASSUME NEW c \in Call, NEW m \in Message, NEW a \in Address, Arrive(c, m, a)
      PROVE  Keyed'
  BY <1>0, <1>2 DEF Arrive
<1>3. ASSUME NEW c \in Call, Handle(c)
      PROVE  Keyed'
  <2>1. CASE LookUpKey(c) \/ RefreshKeys(c)
    BY <2>1, FetchKeepsKeyed DEF LookUpKey, RefreshKeys, FindKey
  <2>2. CASE Open(c) \/ VerifyToken(c) \/ CheckNonce(c) \/ Start(c)
    BY <1>0, <2>2 DEF Open, VerifyToken, CheckNonce, Start
  <2>3. CASE PollMalformed(c) \/ PollDuplicate(c) \/ AnswerPoll(c)
    BY <1>0, <2>3 DEF PollMalformed, PollDuplicate, AnswerPoll
  <2> QED BY <1>3, <2>1, <2>2, <2>3 DEF Handle
<1>4. CASE CleanupLimiter \/ Tick \/ \E e \in Execution : DropContext(e)
  BY <1>0, <1>4 DEF CleanupLimiter, Tick, DropContext
<1>5. CASE Restart
  BY <1>5 DEF Restart, Keyed, NoJwks
<1>6. CASE IssuerRotates
  BY <1>6 DEF IssuerRotates, Rotate, Keyed
<1>7. CASE IssuerChanges
  BY <1>7 DEF IssuerChanges, Keyed
<1>8. CASE UNCHANGED vars
  BY <1>0, <1>8 DEF vars
<1> QED BY <1>1, <1>2, <1>3, <1>4, <1>5, <1>6, <1>7, <1>8 DEF Next

(***************************************************************************)
(* While the issuer answers with its keys, a call is refused for want of   *)
(* a key that is published only if an answer without keys is in the cache. *)
(***************************************************************************)
KeyRefused(c) == Ends(c, "nokey") \/ Ends(c, "error")

KeyRefusalExplained(c) ==
  issuer # "ok" \/ jwks.state = "keyless" \/ sealed[msg[c]].key \notin published

(***************************************************************************)
(* Whatever the issuer answered before and however the attempts of several *)
(* calls mix: the cached answer without keys is the only thing that can    *)
(* stand between a published key and its token, for the second attempt     *)
(* does not look at the cache.                                             *)
(***************************************************************************)
THEOREM KeyRefusalsAreExplained ==
  Spec => [][\A c \in Call : KeyRefused(c) => KeyRefusalExplained(c)]_vars
<1>1. AdmissionTypeOK /\ Positions /\ [Next]_vars
        => [\A c \in Call : KeyRefused(c) => KeyRefusalExplained(c)]_vars
  <2> SUFFICES ASSUME AdmissionTypeOK, Positions, [Next]_vars,
                      NEW c \in Call, Ends(c, "nokey") \/ Ends(c, "error"), issuer = "ok",
                      jwks.state # "keyless"
               PROVE  sealed[msg[c]].key \notin published
    BY DEF KeyRefused, KeyRefusalExplained
  <2>t. at \in [Call -> Progress]
    BY DEF AdmissionTypeOK
  <2>0. at'[c] \in {"nokey", "error"} /\ at[c] # at'[c]
    BY DEF Ends
  <2>1. PICK d \in Call : LookUpKey(d) \/ RefreshKeys(d)
    <3>1. CASE Seal
      BY <2>0, <3>1 DEF Seal, SealExecute, SealPoll, SealWith, loopVars, callVars
    <3>2. ASSUME NEW d \in Call, NEW m \in Message, NEW a \in Address, Arrive(d, m, a)
          PROVE  FALSE
      BY <2>0, <2>t, <3>2 DEF Arrive
    <3>3. ASSUME NEW d \in Call, Handle(d), ~LookUpKey(d), ~RefreshKeys(d)
          PROVE  FALSE
      BY <2>0, <2>t, <3>3 DEF Handle, Open, VerifyToken, CheckNonce, Start, PollMalformed,
                              PollDuplicate, AnswerPoll, Goto
    <3>4. CASE CleanupLimiter \/ Tick \/ \E e \in Execution : DropContext(e)
      BY <2>0, <3>4 DEF CleanupLimiter, Tick, DropContext, loopVars, callVars
    <3>5. CASE Restart
      BY <2>0, <2>t, <3>5 DEF Restart
    <3>6. CASE IssuerRotates \/ IssuerChanges
      BY <2>0, <3>6 DEF IssuerRotates, IssuerChanges, loopVars, callVars
    <3>7. CASE UNCHANGED vars
      BY <2>0, <3>7 DEF vars, loopVars, callVars
    <3> QED BY <3>1, <3>2, <3>3, <3>4, <3>5, <3>6, <3>7 DEF Next
  <2>2. d = c
    BY <2>0, <2>1, <2>t DEF LookUpKey, RefreshKeys, FindKey, Goto
  <2>3. PICK refresh \in BOOLEAN :
          /\ at'[c] = CASE Attempt(sealed[msg[c]].key, refresh) = "found"  -> "verify"
                        [] Attempt(sealed[msg[c]].key, refresh) = "error"  -> "error"
                        [] Attempt(sealed[msg[c]].key, refresh) = "raised" -> "nokey"
                        [] Attempt(sealed[msg[c]].key, refresh) = "miss"   ->
                             IF refresh THEN "nokey" ELSE "refresh"
    BY <2>1, <2>2, <2>t DEF LookUpKey, RefreshKeys, FindKey, Goto
  <2>4. Document(refresh).state # "keyless"
    BY DEF Document, Cached, Response
  <2>5. Attempt(sealed[msg[c]].key, refresh) = "miss" /\ refresh
    BY <2>0, <2>3, <2>4 DEF Attempt
  <2>6. Document(refresh).keys = published
    BY <2>5 DEF Document, Cached, Response
  <2> QED BY <2>5, <2>6 DEF Attempt
<1> QED BY <1>1, TypedPositions, PTL DEF Spec

(***************************************************************************)
(* No token with a published key is refused for want of the key while the  *)
(* issuer answers, provided it never answered without keys.                *)
(***************************************************************************)
THEOREM CurrentKeysAreAccepted ==
  ASSUME "keyless" \notin Faults
  PROVE  Spec => CurrentKeyAccepted
<1>1. Init => Keyed
  BY DEF Init, KeysInit, NoJwks, Keyed
<1>2. AdmissionTypeOK /\ Keyed /\ [Next]_vars => Keyed'
  BY KeyedStep DEF AdmissionTypeOK
<1>3. Keyed /\ [\A c \in Call : KeyRefused(c) => KeyRefusalExplained(c)]_vars
        => [\A c \in Call : Ends(c, "nokey") \/ Ends(c, "error")
              => issuer # "ok" \/ sealed[msg[c]].key \notin published]_vars
  BY DEF Keyed, KeyRefused, KeyRefusalExplained
<1> QED BY <1>1, <1>2, <1>3, TypedPositions, KeyRefusalsAreExplained, PTL
        DEF Spec, CurrentKeyAccepted
-----------------------------------------------------------------------------
(***************************************************************************)
(* What the limiters and the cache hold has a cause: a list holds requests *)
(* that were let through and polls that were attested, and the cache only  *)
(* nonces this process has accepted, with the time it did.                 *)
(***************************************************************************)
Entered == \A a \in DOMAIN requests : requests[a] \subseteq Admitted(a)

Granted == \A e \in DOMAIN records : records[e] \subseteq Attested(e)

Traced ==
  \A n \in DOMAIN cache :
    \E d \in Call : era[d] = epoch /\ stored[d] = cache[n] /\ sealed[msg[d]].nonce = n

\* A list is entered by the requests that are let through and by no other.
LEMMA EnteredStep ==
  ASSUME AdmissionTypeOK, Positions, Entered, [Next]_vars
  PROVE  Entered'
<1>t. DOMAIN requests \subseteq Address
  BY DEF AdmissionTypeOK, LimitsTypeOK
<1>1. ASSUME NEW c \in Call, NEW m \in Message, NEW a \in Address, Arrive(c, m, a)
      PROVE  Entered'
  <2> DEFINE list == RecentRequests(a, clock) \cup (IF RateAllows(a, clock) THEN {c} ELSE {})
  <2>1. /\ requests' = Put(requests, a, list)
        /\ \A b \in Address :
             Admitted(b)' = IF b = a /\ RateAllows(a, clock)
                            THEN Admitted(b) \cup {c} ELSE Admitted(b)
    BY <1>1, ArriveAdmits
  <2>2. RecentRequests(a, clock) \subseteq Admitted(a)
    BY DEF RecentRequests, Listed, Entered
  <2>3. list \subseteq Admitted(a)'
    BY <2>1, <2>2
  <2> HIDE DEF list
  <2>4. /\ DOMAIN requests' = DOMAIN requests \cup {a} /\ requests'[a] = list
        /\ \A b \in DOMAIN requests : b # a => requests'[b] = requests[b]
    BY <2>1 DEF Put
  <2> QED BY <1>t, <2>1, <2>3, <2>4 DEF Entered
<1>2. CASE Restart
  BY <1>2 DEF Restart, ForgetWindows, NoWindows, Entered
<1>3. CASE ~Restart /\ ~ \E c \in Call, m \in Message, a \in Address : Arrive(c, m, a)
  <2>1. \A a \in Address : Admitted(a)' = Admitted(a)
    BY <1>3, AdmittedUnchanged
  <2>2. \/ requests' = requests
        \/ CleanupStaleIps(clock)
    <3>1. CASE \E c \in Call : Handle(c)
      BY <3>1, HandleMoves DEF Moves
    <3>2. CASE ~ \E c \in Call : Handle(c)
      BY <1>3, <3>2 DEF Next, vars, limitVars, Seal, SealExecute, SealPoll, SealWith,
           CleanupLimiter, DropContext, Tick, IssuerRotates, IssuerChanges
    <3> QED BY <3>1, <3>2
  <2>3. \A a \in DOMAIN requests' : a \in DOMAIN requests /\ requests'[a] \subseteq requests[a]
    BY <2>2 DEF CleanupStaleIps, RecentRequests, Listed
  <2> QED BY <1>t, <2>1, <2>3 DEF Entered
<1> QED BY <1>1, <1>2, <1>3

\* The same for the attestations.
LEMMA GrantedStep ==
  ASSUME AdmissionTypeOK, Positions, Recorded, Granted, [Next]_vars
  PROVE  Granted'
<1>t. DOMAIN records \subseteq Execution
  BY DEF AdmissionTypeOK, LimitsTypeOK
<1>r. \A e \in Execution : RecentAttestations(e, clock) \subseteq Attested(e)
  BY DEF RecentAttestations, Listed, Granted
<1>1. ASSUME NEW c \in Call, NEW e \in Execution, Grants(c, e)
      PROVE  Granted'
  <2> DEFINE list == RecentAttestations(e, clock) \cup {c}
  <2>1. /\ DOMAIN records' = DOMAIN records \cup {e} /\ records'[e] = list
        /\ \A x \in DOMAIN records : x # e => records'[x] = records[x]
        /\ \A x \in Execution : Attested(x)' = IF x = e THEN Attested(x) \cup {c} ELSE Attested(x)
    BY <1>1 DEF Grants, Put
  <2>2. list \subseteq Attested(e)'
    BY <1>r, <2>1
  <2> HIDE DEF list
  <2> QED BY <1>t, <2>1, <2>2 DEF Granted
<1>2. CASE Restart
  BY <1>2 DEF Restart, ForgetWindows, NoWindows, Granted
<1>3. CASE GrantsNone
  <2>1. \A x \in Execution : Attested(x)' = Attested(x)
    BY <1>3 DEF GrantsNone
  <2>2. CASE records' = records
    BY <1>t, <2>1, <2>2 DEF Granted
  <2>3. ASSUME NEW e \in Execution, records' = Put(records, e, RecentAttestations(e, clock))
        PROVE  Granted'
    <3>1. /\ DOMAIN records' = DOMAIN records \cup {e}
          /\ records'[e] = RecentAttestations(e, clock)
          /\ \A x \in DOMAIN records : x # e => records'[x] = records[x]
      BY <2>3 DEF Put
    <3> QED BY <1>t, <1>r, <2>1, <3>1 DEF Granted
  <2> QED BY <1>3, <2>2, <2>3 DEF GrantsNone
<1> QED BY <1>1, <1>2, <1>3, AttestSteps

\* A nonce enters the cache only when its message is accepted.
LEMMA OldNonceKept ==
  ASSUME AdmissionTypeOK, Positions, NEW c \in Call, Handle(c), ~Accepts(c)
  PROVE  /\ stored' = stored
         /\ \A x \in DOMAIN cache' : x \in DOMAIN cache /\ cache'[x] = cache[x]
<1> DEFINE n == sealed[msg[c]].nonce
<1>1. stored' = stored
  BY HandleNonce DEF Keeps
<1>2. CASE CheckNonce(c) \/ PollDuplicate(c) \/ AnswerPoll(c)
  <2>1. CheckAndStore(n, clock)
    BY <1>2 DEF CheckNonce, PollDuplicate, AnswerPoll
  <2>2. IsDuplicate(n, clock)
    <3>1. CASE CheckNonce(c)
      <4>1. SUFFICES ASSUME ~IsDuplicate(n, clock) PROVE Accepts(c)
        OBVIOUS
      <4>2. at[c] = "nonce" /\ at' = [at EXCEPT ![c] = "accepted"]
        BY <3>1, <4>1 DEF CheckNonce, Goto
      <4>3. at'[c] = "accepted"
        BY <4>2 DEF AdmissionTypeOK
      <4> QED BY <3>1, <4>1, <4>2, <4>3 DEF CheckNonce, Accepts, Early
    <3>2. CASE AnswerPoll(c)
      <4>1. at[c] = "body" /\ at'[c] \in {"refused", "polled"}
        BY <3>2 DEF AnswerPoll, Goto, AdmissionTypeOK
      <4>2. msg[c] \notin ExecuteMessage
        BY <3>2, AdmissionAssumption DEF AnswerPoll, ExecuteMessage
      <4>3. Accepts(c)
        BY <3>2, <4>1, <4>2 DEF AnswerPoll, Accepts, Early
      <4> QED BY <4>3
    <3> QED BY <1>2, <3>1, <3>2 DEF PollDuplicate
  <2> QED BY <1>1, <2>1, <2>2 DEF CheckAndStore, IsDuplicate, Live
<1>3. CASE ~(CheckNonce(c) \/ PollDuplicate(c) \/ AnswerPoll(c))
  <2>1. UNCHANGED cache
    BY <1>3 DEF Handle, Open, LookUpKey, RefreshKeys, FindKey, VerifyToken, Start, PollMalformed
  <2> QED BY <1>1, <2>1
<1> QED BY <1>2, <1>3

\* The cache is entered by the nonces that are accepted and by no other.
LEMMA TracedStep ==
  ASSUME AdmissionTypeOK, Positions, Acceptance, Traced, [Next]_vars
  PROVE  Traced'
<1>t. /\ clock \in Nat /\ cache \in [DOMAIN cache -> Nat]
      /\ msg \in [Call -> Message \cup {None}] /\ era \in [Call -> 0 .. MaxEpoch]
      /\ stored \in [Call -> Nat \cup {Never}]
  BY DEF AdmissionTypeOK, CacheTypeOK
<1>p. \A d \in Call : stored[d] # Never => at[d] # "new" /\ msg[d] \in DOMAIN sealed
  BY DEF Acceptance
<1>1. ASSUME NEW c \in Call, Handle(c)
      PROVE  Traced'
  <2> DEFINE n == sealed[msg[c]].nonce
  <2>1. UNCHANGED <<epoch, sealed, msg, era>> /\ era[c] = epoch
    BY <1>1, HandleMoves DEF Moves, Positions
  <2>2. CASE ~Accepts(c)
    <3>1. /\ stored' = stored
          /\ \A x \in DOMAIN cache' : x \in DOMAIN cache /\ cache'[x] = cache[x]
      BY <1>1, <2>2, OldNonceKept
    <3> QED BY <2>1, <3>1 DEF Traced
  <2>3. CASE Accepts(c)
    <3>1. stored' = [stored EXCEPT ![c] = clock] /\ CheckAndStore(n, clock)
      BY <2>3 DEF Accepts
    <3>2. \A x \in DOMAIN cache' : \/ x \in DOMAIN cache /\ cache'[x] = cache[x]
                                   \/ x = n /\ cache'[x] = clock
      BY <3>1 DEF CheckAndStore, Live
    <3>3. stored[c] = Never
      BY <2>3 DEF Accepts, Acceptance
    <3>4. \A d \in Call : stored[d] # Never => stored'[d] = stored[d]
      BY <1>t, <3>1, <3>3
    <3>5. stored'[c] = clock
      BY <1>t, <3>1
    <3>6. \A x \in DOMAIN cache : cache[x] # Never
      BY <1>t DEF Never
    <3> QED BY <2>1, <3>2, <3>4, <3>5, <3>6 DEF Traced
  <2> QED BY <2>2, <2>3
<1>2. CASE Restart
  BY <1>2 DEF Restart, ForgetNonces, Traced
<1>3. CASE ~Restart /\ ~ \E c \in Call : Handle(c)
  <2>1. OtherStep
    BY <1>3, OtherNonce
  <2>2. epoch' = epoch /\ cache' = cache
    BY <1>3 DEF Next, vars, worldVars, Seal, SealExecute, SealPoll, SealWith, Arrive,
           CleanupLimiter, DropContext, Tick, IssuerRotates, IssuerChanges
  <2>3. ASSUME NEW d \in Call, stored[d] # Never
        PROVE  /\ stored'[d] = stored[d] /\ msg'[d] = msg[d] /\ era'[d] = era[d]
               /\ sealed'[msg[d]] = sealed[msg[d]]
    BY <1>t, <1>p, <2>1, <2>3 DEF OtherStep
  <2>4. \A x \in DOMAIN cache : cache[x] # Never
    BY <1>t DEF Never
  <2> QED BY <2>2, <2>3, <2>4 DEF Traced
<1> QED BY <1>1, <1>2, <1>3
-----------------------------------------------------------------------------
\* Which handler ends a call in which refusal.
LEMMA Endings ==
  ASSUME AdmissionTypeOK, Positions, [Next]_vars, NEW c \in Call
  PROVE  /\ Ends(c, "limited") =>
              \E m \in Message, a \in Address : Arrive(c, m, a) /\ ~RateAllows(a, clock)
         /\ Ends(c, "duplicate") => IsDuplicate(sealed[msg[c]].nonce, clock) /\ Handle(c)
         /\ Ends(c, "polled") => AnswerPoll(c)
<1>t. at \in [Call -> Progress]
  BY DEF AdmissionTypeOK
<1>1. ASSUME NEW d \in Call, NEW m \in Message, NEW a \in Address, Arrive(d, m, a)
      PROVE  /\ ~Ends(c, "duplicate") /\ ~Ends(c, "polled")
             /\ Ends(c, "limited") => d = c /\ ~RateAllows(a, clock)
  BY <1>t, <1>1 DEF Arrive, Ends
<1>2. ASSUME NEW d \in Call, Handle(d)
      PROVE  /\ ~Ends(c, "limited")
             /\ Ends(c, "duplicate") => d = c /\ IsDuplicate(sealed[msg[c]].nonce, clock)
             /\ Ends(c, "polled") => AnswerPoll(c)
  <2>1. CASE \/ Open(d) \/ VerifyToken(d) \/ Start(d) \/ PollMalformed(d)
    BY <1>t, <2>1 DEF Open, VerifyToken, Start, PollMalformed, Goto, Ends
  <2>2. CASE LookUpKey(d) \/ RefreshKeys(d)
    <3>1. PICK refresh \in BOOLEAN, here \in {"lookup", "refresh"} : FindKey(d, here, refresh)
      BY <2>2 DEF LookUpKey, RefreshKeys
    <3>2. Attempt(sealed[msg[d]].key, refresh) \in {"raised", "error", "found", "miss"}
      BY DEF Attempt
    <3> QED BY <1>t, <3>1, <3>2 DEF FindKey, Goto, Ends
  <2>3. CASE CheckNonce(d)
    <3>1. at' = [at EXCEPT ![d] = IF IsDuplicate(sealed[msg[d]].nonce, clock)
                                  THEN "duplicate" ELSE "accepted"]
      BY <2>3 DEF CheckNonce, Goto
    <3> QED BY <1>t, <3>1 DEF Ends
  <2>4. CASE PollDuplicate(d)
    BY <1>t, <2>4 DEF PollDuplicate, Goto, Ends
  <2>5. CASE AnswerPoll(d)
    <3>1. \E there \in {"refused", "polled"} : at' = [at EXCEPT ![d] = there]
      BY <2>5 DEF AnswerPoll, Goto
    <3>2. c # d => ~Ends(c, "polled")
      BY <1>t, <3>1 DEF Ends
    <3>3. ~Ends(c, "limited") /\ ~Ends(c, "duplicate")
      BY <1>t, <3>1 DEF Ends
    <3> QED BY <2>5, <3>2, <3>3
  <2> QED BY <1>2, <2>1, <2>2, <2>3, <2>4, <2>5 DEF Handle
<1>3. CASE /\ ~ \E d \in Call, m \in Message, a \in Address : Arrive(d, m, a)
           /\ ~ \E d \in Call : Handle(d)
  <2>1. \A d \in Call : at'[d] \in {at[d], "lost"}
    BY <1>t, <1>3 DEF Next, vars, callVars, Seal, SealExecute, SealPoll, SealWith,
         CleanupLimiter, DropContext, Restart, Tick, IssuerRotates, IssuerChanges
  <2> QED BY <2>1 DEF Ends
<1> QED BY <1>1, <1>2, <1>3

(***************************************************************************)
(* No request is turned away without cause: a limited one because of       *)
(* requests let through inside the window, a duplicate because this        *)
(* process accepted its nonce inside the time to live, a poll without an   *)
(* attestation because of attestations given inside the window.            *)
(***************************************************************************)
THEOREM RefusalsAreJustified == Spec => RefusalsJustified
<1> DEFINE Inv == /\ AdmissionTypeOK /\ Positions /\ Acceptance
                  /\ Recorded /\ Entered /\ Granted /\ Traced
<1>1. Init => Recorded /\ Entered /\ Granted /\ Traced
  BY DEF Init, LimitsInit, CacheInit, NoWindows, Recorded, Entered, Granted, Traced,
         Attested, Never
<1>2. /\ AdmissionTypeOK /\ Positions /\ Acceptance /\ Recorded /\ Entered /\ Granted
      /\ Traced /\ [Next]_vars
      => Recorded' /\ Entered' /\ Granted' /\ Traced'
  BY RecordedStep, EnteredStep, GrantedStep, TracedStep
<1>3. Spec => []Inv
  <2>1. Spec => [](AdmissionTypeOK /\ Positions /\ Acceptance)
    BY ReplayInvariantHolds, PTL DEF ReplayInvariant
  <2> QED BY <1>1, <1>2, <2>1, PTL DEF Spec, Inv
<1>4. ASSUME Inv, [Next]_vars, NEW c \in Call, Ends(c, "limited")
      PROVE  Cardinality({d \in Admitted(from'[c]) : arrival[d] > clock - RateWindow})
               >= RateLimit
  <2>1. PICK m \in Message, a \in Address : Arrive(c, m, a) /\ ~RateAllows(a, clock)
    BY <1>4, Endings
  <2>2. from'[c] = a
    BY <1>4, <2>1 DEF Arrive, AdmissionTypeOK
  <2> DEFINE S == {d \in Admitted(a) : arrival[d] > clock - RateWindow}
  <2>3. RecentRequests(a, clock) \subseteq S
    BY <1>4 DEF RecentRequests, Listed, Entered
  <2>4. S \in SUBSET Call /\ RecentRequests(a, clock) \in SUBSET Call
    BY <2>3 DEF Admitted
  <2>5. Cardinality(RecentRequests(a, clock)) <= Cardinality(S)
    BY <2>3, <2>4, CallSets
  <2>6. Cardinality(S) \in Nat /\ Cardinality(RecentRequests(a, clock)) \in Nat
    BY <2>4, CallSets
  <2>7. ~(Cardinality(RecentRequests(a, clock)) < RateLimit)
    BY <2>1 DEF RateAllows
  <2> HIDE DEF S
  <2>8. Cardinality(S) >= RateLimit
    BY <2>5, <2>6, <2>7, LimitsAssumption
  <2> QED BY <2>2, <2>8 DEF S
<1>5. ASSUME Inv, [Next]_vars, NEW c \in Call, Ends(c, "duplicate")
      PROVE  \E d \in Call :
               /\ era[d] = epoch
               /\ stored[d] # Never /\ stored[d] > clock - NonceTTL
               /\ sealed[msg[d]].nonce = sealed[msg[c]].nonce
  <2> DEFINE n == sealed[msg[c]].nonce
  <2>1. n \in DOMAIN cache /\ cache[n] > clock - NonceTTL
    BY <1>5, Endings DEF IsDuplicate, Live
  <2>2. PICK d \in Call : era[d] = epoch /\ stored[d] = cache[n] /\ sealed[msg[d]].nonce = n
    BY <1>5, <2>1 DEF Traced
  <2>3. stored[d] # Never
    BY <1>5, <2>1, <2>2 DEF Never, AdmissionTypeOK, CacheTypeOK
  <2> QED BY <2>1, <2>2, <2>3
<1>6. ASSUME Inv, [Next]_vars, NEW c \in Call, Ends(c, "polled"), attested'[c] = Never
      PROVE  LET e == sealed[msg[c]].subject
             IN  Cardinality({d \in Attested(e) : attested[d] > clock - AttestWindow})
                   >= AttestLimit
  <2> DEFINE e == sealed[msg[c]].subject
             S == {d \in Attested(e) : attested[d] > clock - AttestWindow}
  <2>1. AnswerPoll(c)
    BY <1>6, Endings
  <2>2. CheckAndRecord(c, e, clock)
    BY <1>6, <2>1 DEF AnswerPoll, Goto, Ends, AdmissionTypeOK
  <2>3. ~AttestAllows(e, clock)
    BY <1>6, <2>2 DEF CheckAndRecord, AdmissionTypeOK, LimitsTypeOK, Never
  <2>4. RecentAttestations(e, clock) \subseteq S
    BY <1>6 DEF RecentAttestations, Listed, Granted
  <2>5. S \in SUBSET Call /\ RecentAttestations(e, clock) \in SUBSET Call
    BY <2>4 DEF Attested
  <2>6. /\ Cardinality(RecentAttestations(e, clock)) <= Cardinality(S)
        /\ Cardinality(S) \in Nat /\ Cardinality(RecentAttestations(e, clock)) \in Nat
    BY <2>4, <2>5, CallSets
  <2>7. ~(Cardinality(RecentAttestations(e, clock)) < AttestLimit)
    BY <2>3 DEF AttestAllows
  <2> HIDE DEF S
  <2>8. Cardinality(S) >= AttestLimit
    BY <2>6, <2>7, LimitsAssumption
  <2> QED BY <2>8 DEF S
<1>7. Inv /\ [Next]_vars =>
        \A c \in Call :
          /\ Ends(c, "limited")
               => Cardinality({d \in Admitted(from'[c]) : arrival[d] > clock - RateWindow})
                    >= RateLimit
          /\ Ends(c, "duplicate")
               => \E d \in Call :
                    /\ era[d] = epoch
                    /\ stored[d] # Never /\ stored[d] > clock - NonceTTL
                    /\ sealed[msg[d]].nonce = sealed[msg[c]].nonce
          /\ Ends(c, "polled") /\ attested'[c] = Never
               => LET e == sealed[msg[c]].subject
                  IN  Cardinality({d \in Attested(e) : attested[d] > clock - AttestWindow})
                        >= AttestLimit
  BY <1>4, <1>5, <1>6
<1> QED BY <1>3, <1>7, PTL DEF Spec, RefusalsJustified
=============================================================================
