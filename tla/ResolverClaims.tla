---------------------------- MODULE ResolverClaims ----------------------------
(***************************************************************************)
(* Statements of the sources about the session cache that the code does    *)
(* not keep in every interleaving.                                         *)
(***************************************************************************)
EXTENDS SessionResolver

\* session.rs:98 (also :8 and :264): l1_ttl, the "positive entry TTL", is a
\* "hard staleness/revocation cap", so a session served from the cache was true
\* at the authority no longer than L1Ttl before the call that is told of it.
TtlIsHardCap ==
  \A c \in Calls :
    LET r == call[c].result
    IN  call[c].pc = "done" /\ r.kind = "hit" /\ r.ans.session # None =>
          call[c].now - r.ans.asOf <= L1Ttl

\* session.rs:202: a burst of parallel resolves on a cold token "triggers one
\* fill", the others share it; so no caller launches a fill while the cache
\* holds an answer that is fresh for it.
BurstSharesOneFill ==
  [][\A c \in Calls :
       (\E i \in Flights : JoinNew(c, i)) =>
         ~(/\ call[c].hash \in Keys(cache)
           /\ ~Expired(Found(c), call[c].wall)
           /\ call[c].now < Found(c).fresh_until)]_vars
==============================================================================
