------------------------------ MODULE PqVerdict ------------------------------
(***************************************************************************)
(* What `pq verify` promises, whatever the order of its checks and of its  *)
(* requests: the answer of a command, given in one step, justified by its  *)
(* files and by the best chains and the clock that were current while it   *)
(* ran.  PqVerify implements it.                                           *)
(***************************************************************************)
EXTENDS VerifyInputs

VARIABLES
  cmd,     \* the command line
  ots,     \* the contents of the .ots file
  chain,   \* the best chain
  now,     \* the clock
  busy,    \* is a command running?
  seen,    \* best chains since the command started
  since,   \* clock when the command started
  result   \* the answer: [verdict, instant, height]

vars == <<cmd, ots, chain, now, busy, seen, since, result>>

FullCheck == cmd.ots # Absent
ReadsNetwork == cmd.esplora

\* The proof is the bundle's and every attestation is in a block of its height.
Anchored ==
  /\ ots.start_digest = cmd.bundle /\ ots.bitcoin # << >>
  /\ \A i \in DOMAIN ots.bitcoin : \E c \in seen : Carries(cmd, c, ots.bitcoin[i])

Earliest(h) ==
  /\ \E i \in DOMAIN ots.bitcoin : ots.bitcoin[i].height = h
  /\ \A i \in DOMAIN ots.bitcoin : h <= ots.bitcoin[i].height

SubkeyPart == cmd.verb = "verify-subkey" => SubkeyPasses(cmd)
ArgumentsOk == cmd.root # Absent /\ Exclusive(cmd)

\* VERIFIED, as of instant t of the block at height h.
Verifies(t, h) ==
  /\ ArgumentsOk /\ Anchored /\ Earliest(h)
  /\ \E c \in seen : t \in Instants(cmd, c, h)
  /\ StepsPass(cmd, t) /\ SubkeyPart

\* PARTIAL VERIFY, as of the clock.
PartiallyVerifies(t) ==
  /\ ArgumentsOk /\ ots.start_digest = cmd.bundle /\ ots.bitcoin = << >>
  /\ StepsPass(cmd, t) /\ SubkeyPart

Acceptable(r) ==
  \/ ~FullCheck /\ SubkeyPart
     /\ r = [verdict |-> "verified", instant |-> Absent, height |-> Absent]
  \/ FullCheck /\ r.verdict = "verified" /\ Verifies(r.instant, r.height)
  \/ FullCheck /\ r.verdict = "partial" /\ r.height = Absent
     /\ r.instant \in since .. now /\ PartiallyVerifies(r.instant)

\* A command fails only for cause: a request may have failed, or there was
\* nothing to accept.
Refusable ==
  \/ FullCheck /\ ReadsNetwork
  \/ ~FullCheck /\ ~SubkeyPart
  \/ FullCheck /\ (\A c \in seen : \A i \in DOMAIN ots.bitcoin :
                     \A t \in Instants(cmd, c, ots.bitcoin[i].height) :
                       ~Verifies(t, ots.bitcoin[i].height))
               /\ \E t \in since .. now : ~PartiallyVerifies(t)

Error == [verdict |-> "error", instant |-> Absent, height |-> Absent]

-----------------------------------------------------------------------------
Init ==
  /\ cmd \in Commands /\ ots = cmd.ots
  /\ chain \in Chains /\ now = 0
  /\ busy = FALSE /\ seen = {} /\ since = 0
  /\ result = [verdict |-> "none", instant |-> Absent, height |-> Absent]

Begin ==
  /\ ~busy /\ busy' = TRUE
  /\ seen' = {chain} /\ since' = now
  /\ result' = [verdict |-> "none", instant |-> Absent, height |-> Absent]
  /\ UNCHANGED <<cmd, ots, chain, now>>

Answer ==
  /\ busy /\ busy' = FALSE
  /\ Acceptable(result') \/ (result' = Error /\ Refusable)
  /\ UNCHANGED <<cmd, ots, chain, now, seen, since>>

\* The world: time passes, the best chain changes, a pending proof is upgraded.
World ==
  /\ now' >= now
  /\ chain' \in Chains /\ seen' = IF busy THEN seen \cup {chain'} ELSE seen
  /\ ots' = ots \/ (~busy /\ ots' \in Upgrades)
  /\ UNCHANGED <<cmd, busy, since, result>>

Next == Begin \/ Answer \/ World
Spec == Init /\ [][Next]_vars
=============================================================================
