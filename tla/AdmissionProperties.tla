-------------------------- MODULE AdmissionProperties --------------------------
(***************************************************************************)
(* The correctness properties of the admission of requests.                *)
(***************************************************************************)
EXTENDS RequestAdmission

\* The requests of an address this process has let through.
Admitted(a) == {c \in Call : from[c] = a /\ era[c] = epoch /\ at[c] # "limited"}

\* The polls of an execution this process has attested.
Attested(e) ==
  {c \in Call : at[c] = "polled" /\ era[c] = epoch /\ sealed[msg[c]].subject = e
                  /\ attested[c] # Never}

(***************************************************************************)
(* No stretch of rate_limit_window_seconds, wherever it begins, holds more *)
(* than rate_limit_per_ip requests of one address, although the list they  *)
(* are counted in is pruned by every request and by the periodic clean-up, *)
(* which may delete it altogether.                                         *)
(***************************************************************************)
RateBound ==
  \A a \in Address : \A t \in 0 .. clock :
    Cardinality({c \in Admitted(a) : t - RateWindow < arrival[c] /\ arrival[c] <= t})
      <= RateLimit

(***************************************************************************)
(* An execute message is acted upon once: no second delivery passes the    *)
(* nonce check, neither soon (the nonce is remembered), nor late (the      *)
(* token has expired), nor after a restart (the key pair is another one).  *)
(***************************************************************************)
NoReplay ==
  \A c, d \in Call :
    /\ c # d
    /\ msg[c] = msg[d]
    /\ msg[c] \in ExecuteMessage
    => stored[c] = Never \/ stored[d] = Never

(***************************************************************************)
(* One process accepts the same nonce twice only if ttl_seconds lie        *)
(* between, whichever endpoints and messages it comes with.                *)
(***************************************************************************)
NonceOnce ==
  \A c, d \in Call :
    /\ c # d
    /\ stored[c] # Never /\ stored[d] # Never
    /\ era[c] = era[d]
    /\ sealed[msg[c]].nonce = sealed[msg[d]].nonce
    => stored[c] - stored[d] >= NonceTTL \/ stored[d] - stored[c] >= NonceTTL

(***************************************************************************)
(* The same for the attestations of an execution: the TPM is not asked     *)
(* more often than max_output_attestations_per_window in any stretch of    *)
(* output_attestation_window_seconds, whoever polls.                       *)
(***************************************************************************)
AttestationBound ==
  \A e \in Execution : \A t \in 0 .. clock :
    Cardinality({c \in Attested(e) : t - AttestWindow < attested[c] /\ attested[c] <= t})
      <= AttestLimit

(***************************************************************************)
(* No request is turned away without cause.  A limited one finds its       *)
(* address at the limit, by requests let through inside the window; a      *)
(* duplicate finds its nonce accepted by this process less than            *)
(* ttl_seconds ago; a poll is left without an attestation only when the    *)
(* execution had its share.  A refusal is not itself a reason to refuse.   *)
(***************************************************************************)
Ends(c, how) == at[c] # how /\ at'[c] = how

RefusalsJustified ==
  [][\A c \in Call :
       /\ Ends(c, "limited")
            => Cardinality({d \in Admitted(from'[c]) : arrival[d] > clock - RateWindow})
                 >= RateLimit
       /\ Ends(c, "duplicate")
            => \E d \in Call :
                 /\ era[d] = epoch
                 /\ stored[d] # Never /\ stored[d] > clock - NonceTTL
                 /\ sealed[msg[d]].nonce = sealed[msg[c]].nonce
       /\ Ends(c, "polled") /\ attested'[c] = Never
            => LET e == sealed[msg[c]].subject
               IN  Cardinality({d \in Attested(e) : attested[d] > clock - AttestWindow})
                     >= AttestLimit]_vars

(***************************************************************************)
(* A token signed with a key the issuer publishes, while it answers, is    *)
(* never refused for want of the key: an outdated cache is refreshed on    *)
(* the miss ("refreshing JWKS once on miss", validation.py:337).           *)
(***************************************************************************)
CurrentKeyAccepted ==
  [][\A c \in Call :
       Ends(c, "nokey") \/ Ends(c, "error")
         => issuer # "ok" \/ sealed[msg[c]].key \notin published]_vars

(***************************************************************************)
(* The limiter forgets an address that has stayed away for the window: its *)
(* table does not grow with every address ever seen.                       *)
(***************************************************************************)
Stale(a) == a \in DOMAIN requests /\ RecentRequests(a, clock) = {}

StaleAddressesGo == \A a \in Address : Stale(a) ~> ~Stale(a)
=============================================================================
