------------------------------ MODULE PqVerify ------------------------------
(***************************************************************************)
(* `pq verify` and `pq verify-subkey` as the code runs them: one action    *)
(* per request and per group of checks between two of them, while the      *)
(* clock runs and Bitcoin's best chain may change under the explorer.  The *)
(* operator runs the command again and again and, between two runs, may    *)
(* upgrade a pending proof (`ots upgrade`, external).                      *)
(***************************************************************************)
EXTENDS VerifyInputs

CONSTANT MaxNow   \* bound: the clock stops here
ASSUME MaxNowAssumption == MaxNow \in Nat

VARIABLES
  cmd,      \* the command line, fixed
  ots,      \* the contents of the .ots file
  chain,    \* the best chain the explorer answers from
  now,      \* SystemTime::now()
  pc,       \* "idle", "ots", "anchors", "bundle" or "subkey"
  k,        \* pq_ots::verify: the Bitcoin attestation to match next
  anchors,  \* pq_ots::verify: heights of the matched ones
  pending, instant, height,   \* verify_bundle_steps: what step 1 returned
  result,   \* the last answer: [verdict, instant, height]
  seen,     \* history: best chains since the command started
  since,    \* history: clock when the command started
  past      \* history: the answers so far, with the proof each was about

files == <<cmd, ots>>
world == <<chain, now>>
step1 == <<k, anchors, pending, instant, height>>
vars  == <<files, world, pc, step1, result, seen, since, past>>

NoAnswer == [verdict |-> "none", instant |-> Absent, height |-> Absent]
Error    == [verdict |-> "error", instant |-> Absent, height |-> Absent]

-----------------------------------------------------------------------------
Init ==
  /\ cmd \in Commands /\ ots = cmd.ots
  /\ chain \in Chains /\ now = 0
  /\ pc = "idle" /\ k = 1 /\ anchors = {}
  /\ pending = FALSE /\ instant = Absent /\ height = Absent
  /\ result = NoAnswer /\ seen = {} /\ since = 0 /\ past = {}

Finish(answer) ==
  /\ pc' = "idle" /\ result' = answer
  /\ past' = past \cup {[ots |-> ots, answer |-> answer]}

Bail == Finish(Error) /\ UNCHANGED <<files, world, step1, seen, since>>

\* The end of cmd_verify and of verify_subkey.
Report(p, t, h) ==
  Finish([verdict |-> IF p THEN "partial" ELSE "verified", instant |-> t, height |-> h])

\* Mutant: the anchors of the run before are still there.
BeginWithOldAnchors ==
  /\ pc = "idle"
  /\ pc' = IF cmd.ots = Absent THEN "subkey" ELSE "ots"
  /\ k' = 1 /\ pending' = FALSE /\ instant' = Absent /\ height' = Absent
  /\ result' = NoAnswer /\ seen' = {chain} /\ since' = now
  /\ UNCHANGED <<files, world, anchors, past>>

\* Without --ots, verify-subkey goes straight to the subkey.
Begin ==
  /\ pc = "idle"
  /\ pc' = IF cmd.ots = Absent THEN "subkey" ELSE "ots"
  /\ k' = 1 /\ anchors' = {} /\ pending' = FALSE /\ instant' = Absent /\ height' = Absent
  /\ result' = NoAnswer /\ seen' = {chain} /\ since' = now
  /\ UNCHANGED <<files, world, past>>

\* --root is required with --ots; --headers and --esplora exclude each other.
ArgumentsOk == cmd.root # Absent /\ Exclusive(cmd)
RejectArguments == pc = "ots" /\ ~ArgumentsOk /\ Bail

\* Mutant: the digest the proof starts from is not compared.
OpenAnyProof ==
  /\ pc = "ots" /\ ArgumentsOk
  /\ \/ /\ ots.bitcoin = << >> /\ pc' = "bundle" /\ pending' = TRUE /\ instant' = now
        /\ UNCHANGED <<files, world, k, anchors, height, result, seen, since, past>>
     \/ /\ ots.bitcoin # << >> /\ pc' = "anchors"
        /\ UNCHANGED <<files, world, step1, result, seen, since, past>>

\* pq_ots::verify up to its loop; NotAnchored goes on with the current clock.
OpenProof ==
  /\ pc = "ots" /\ ArgumentsOk
  /\ \/ ots.start_digest # cmd.bundle /\ Bail
     \/ /\ ots.start_digest = cmd.bundle /\ ots.bitcoin = << >>
        /\ pc' = "bundle" /\ pending' = TRUE /\ instant' = now
        /\ UNCHANGED <<files, world, k, anchors, height, result, seen, since, past>>
     \/ /\ ots.start_digest = cmd.bundle /\ ots.bitcoin # << >>
        /\ pc' = "anchors"
        /\ UNCHANGED <<files, world, step1, result, seen, since, past>>

\* Mutant: an attestation that does not match is passed over.
SkipMismatch ==
  /\ pc = "anchors" /\ k \in DOMAIN ots.bitcoin
  /\ anchors' = anchors \cup {ots.bitcoin[k].height} /\ k' = k + 1
  /\ UNCHANGED <<files, world, pc, pending, instant, height, result, seen, since, past>>

\* pq_ots::verify, one pass of its loop: look the block up, compare the roots.
MatchAnchor ==
  /\ pc = "anchors" /\ k \in DOMAIN ots.bitcoin
  /\ \/ ~Carries(cmd, chain, ots.bitcoin[k]) /\ Bail
     \/ /\ Carries(cmd, chain, ots.bitcoin[k])
        /\ anchors' = anchors \cup {ots.bitcoin[k].height} /\ k' = k + 1
        /\ UNCHANGED <<files, world, pc, pending, instant, height, result, seen, since, past>>

\* A request to the explorer fails.
SourceFails == pc = "anchors" /\ cmd.esplora /\ Bail

\* Mutant: the latest block.
LatestAnchor(h) == h \in anchors /\ \A g \in anchors : g <= h

EarliestAnchor(h) == h \in anchors /\ \A g \in anchors : h <= g

\* Mutant: without an agreed instant, the clock.
TakeInstantOrNow ==
  /\ pc = "anchors" /\ k \notin DOMAIN ots.bitcoin
  /\ \E h \in anchors :
       /\ EarliestAnchor(h)
       /\ LET agreed == Instants(cmd, chain, h) IN
          instant' \in IF agreed = {} THEN {now} ELSE agreed
       /\ height' = h /\ pc' = "bundle"
       /\ UNCHANGED <<files, world, k, anchors, pending, result, seen, since, past>>

\* The rest of step 1: the time of the earliest anchor's block, from a lookup
\* of its own, against --quote-time-unix.
TakeInstant ==
  /\ pc = "anchors" /\ k \notin DOMAIN ots.bitcoin
  /\ \E h \in anchors :
       /\ EarliestAnchor(h)
       /\ LET agreed == Instants(cmd, chain, h) IN
          \/ agreed = {} /\ Bail
          \/ /\ instant' \in agreed /\ height' = h
             /\ pc' = "bundle"
             /\ UNCHANGED <<files, world, k, anchors, pending, result, seen, since, past>>

\* Steps 2 to 7.
CheckBundle ==
  /\ pc = "bundle"
  /\ \/ ~StepsPass(cmd, instant) /\ Bail
     \/ /\ StepsPass(cmd, instant) /\ cmd.verb = "verify"
        /\ Report(pending, instant, height)
        /\ UNCHANGED <<files, world, step1, seen, since>>
     \/ /\ StepsPass(cmd, instant) /\ cmd.verb = "verify-subkey"
        /\ pc' = "subkey"
        /\ UNCHANGED <<files, world, step1, result, seen, since, past>>

\* Birth-provenance and authenticity of the subkey.
CheckSubkey ==
  /\ pc = "subkey"
  /\ \/ ~SubkeyPasses(cmd) /\ Bail
     \/ /\ SubkeyPasses(cmd) /\ Report(pending, instant, height)
        /\ UNCHANGED <<files, world, step1, seen, since>>

Tick ==
  /\ now < MaxNow /\ now' = now + 1
  /\ UNCHANGED <<files, chain, pc, step1, result, seen, since, past>>

Reorganise ==
  /\ chain' \in Chains
  /\ seen' = IF pc = "idle" THEN seen ELSE seen \cup {chain'}
  /\ UNCHANGED <<files, now, pc, step1, result, since, past>>

Upgrade ==
  /\ pc = "idle" /\ ots # Absent /\ ots.bitcoin = << >>
  /\ ots' \in {p \in Upgrades : p.start_digest = ots.start_digest}
  /\ UNCHANGED <<cmd, world, pc, step1, result, seen, since, past>>

Next ==
  \/ Begin \/ RejectArguments \/ OpenProof \/ MatchAnchor \/ SourceFails \/ TakeInstant
  \/ CheckBundle \/ CheckSubkey
  \/ Tick \/ Reorganise \/ Upgrade

Spec == Init /\ [][Next]_vars

-----------------------------------------------------------------------------
\* The locals of step 1 agree with the place in the code.
TypeOK ==
  /\ cmd \in Commands /\ chain \in Chains /\ now \in Nat /\ since \in 0 .. now
  /\ pc \in {"idle", "ots", "anchors", "bundle", "subkey"}
  /\ k \in Nat /\ pending \in BOOLEAN
  /\ pc # "idle" => chain \in seen
  /\ pc = "anchors" => k <= Len(ots.bitcoin) + 1 /\ anchors = {ots.bitcoin[i].height : i \in 1 .. k - 1}

\* Every answer is justified, and every refusal has a cause, as PqVerdict says.
Promise == INSTANCE PqVerdict WITH busy <- (pc # "idle")
PromiseSpec == Promise!Spec

\* Offline means for ever: with a header file the answer for an anchored proof
\* never depends on when the command runs (README.md:95-99, main.rs:375-381).
AnchoredAnswersAgree ==
  ~cmd.esplora =>
    \A p, q \in past : p.ots = q.ots /\ p.ots # Absent /\ p.ots.bitcoin # << >> => p = q

\* VERIFIED names the earliest block, and its time when the file has one: no
\* override and no clock moves the instant (main.rs:373-398).
InstantIsAnchorTime ==
  result.verdict = "verified" /\ result.height # Absent /\ cmd.headers # Absent =>
    /\ \A i \in DOMAIN ots.bitcoin : result.height <= ots.bitcoin[i].height
    /\ result.instant = (IF cmd.headers[result.height].time # Absent
                         THEN cmd.headers[result.height].time ELSE cmd.override)

\* A quote under the CA the operator pins attests what one ceremony made: an
\* enclave has its user_data signed after it drew the keys and the subkeys
\* (pq-ceremony lib.rs), and no enclave signs for another.
GenuineQuotes ==
  \A c \in Commands :
    LET q == c.bundle.quote
    IN q.ca = c.root => q.user_data.ml_pk = q.user_data.tree /\ q.user_data.slh_pk = q.user_data.tree

\* Nothing of two ceremonies passes as one: the keys, the subkey tree, the
\* attested user_data and both signatures of an accepted bundle, and the subkey
\* accepted with it, are those of the ceremony that named the tree (an enclave
\* that restarts makes new ones; pq-bundle lib.rs:11-19).
OneCeremony ==
  result.verdict \in {"verified", "partial"} /\ cmd.ots # Absent =>
    LET b == cmd.bundle
        e == b.payload.tree
    IN /\ b.payload.ml_pk = e /\ b.payload.slh_pk = e
       /\ b.ml_sig.by = e /\ b.slh_sig.by = e
       /\ \A payload \in {b.quote.user_data, b.ml_sig.over, b.slh_sig.over} : payload.tree = e
       /\ cmd.verb = "verify-subkey" => cmd.subkey.tree = e

-----------------------------------------------------------------------------
\* What README.md:39-41 says of the instant: that of the anchor block, the block
\* whose root the proof was matched with.
InstantOfMatchedBlock ==
  result.verdict = "verified" /\ result.height # Absent /\ cmd.esplora =>
    \E c \in seen : \A i \in DOMAIN ots.bitcoin :
      ots.bitcoin[i].height = result.height =>
        Carries(cmd, c, ots.bitcoin[i]) /\ c[result.height].time = result.instant

\* What main.rs:680-685 prints for VERIFIED: the subkey was generated inside the
\* attested enclave, so a quote that verifies commits to its tree.
SubkeyVerifiedIsAttested ==
  result.verdict = "verified" /\ cmd.verb = "verify-subkey" =>
    /\ cmd.bundle.quote.user_data = cmd.bundle.payload
    /\ cmd.bundle.quote.ca = cmd.bundle.aws_root
=============================================================================
