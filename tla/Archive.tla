------------------------------- MODULE Archive -------------------------------
(***************************************************************************)
(* The whole flow: an enclave that boots, serves and dies (Ceremony), an   *)
(* operator who fetches its bundle, stamps it with the calendars, upgrades *)
(* the proof once a block commits the digest, and verifies the two files   *)
(* at any later time.  `pq verify` is the one-step verdict that PqVerify   *)
(* implements.                                                             *)
(***************************************************************************)
EXTENDS Ceremony

CONSTANTS
  Calendars,  \* the calendar URLs of `pq stamp`, in order
  Lag,        \* a block may be dated this much before it is mined
  Broken,     \* a proof file whose write failed half way
  MaxBlocks   \* bound: blocks mined

ASSUME CalendarsAssumption == Calendars \in Seq(STRING)
ASSUME BlocksAssumption == Lag \in Nat /\ MaxBlocks \in Nat

VARIABLES
  stamping,  \* `pq stamp` at work: [digest, next], or Absent
  proof,     \* bundle.json.ots: [start_digest, by, bitcoin], or Absent, or Broken
  accepted,  \* the digests each calendar has accepted and no block commits
  chain,     \* the blocks since the first boot: height -> [root, time]
  bornAt     \* history: the chain's height when each boot finished its bundle

stampVars == <<stamping, proof, accepted>>
vars == <<ceremonyVars, stampVars, chain, bornAt>>

InitArchive ==
  /\ Init
  /\ stamping = Absent /\ proof = Absent /\ accepted = [i \in DOMAIN Calendars |-> {}]
  /\ chain = << >> /\ bornAt = [b \in 1 .. MaxBoots |-> 0]

-----------------------------------------------------------------------------
\* cmd_stamp reads the bundle once; bundle.json may be fetched again meanwhile.
StartStamp ==
  /\ stamping = Absent /\ bundleFile # Absent
  /\ stamping' = [digest |-> bundleFile, next |-> 1]
  /\ UNCHANGED <<ceremonyVars, proof, accepted, chain, bornAt>>

Pending(digest, i) == [start_digest |-> digest, by |-> i, bitcoin |-> << >>]

\* Mutant: the proof is written whatever became of the request.
SubmitBlindly ==
  /\ stamping # Absent /\ stamping.next \in DOMAIN Calendars
  /\ \/ accepted' = [accepted EXCEPT ![stamping.next] = @ \cup {stamping.digest}]
     \/ UNCHANGED accepted
  /\ stamping' = Absent /\ proof' = Pending(stamping.digest, stamping.next)
  /\ UNCHANGED <<ceremonyVars, chain, bornAt>>

\* One calendar of the loop.  The calendar has the digest and its answer makes
\* a proof, which fs::write puts in the place of the old one or fails to; or it
\* has the digest and the answer is lost or does not decode; or it refuses.
Submit ==
  /\ stamping # Absent /\ stamping.next \in DOMAIN Calendars
  /\ \/ /\ accepted' = [accepted EXCEPT ![stamping.next] = @ \cup {stamping.digest}]
        /\ \/ /\ stamping' = Absent
              /\ proof' \in {Pending(stamping.digest, stamping.next), Broken, proof}
           \/ stamping' = [stamping EXCEPT !.next = @ + 1] /\ UNCHANGED proof
     \/ stamping' = [stamping EXCEPT !.next = @ + 1] /\ UNCHANGED <<accepted, proof>>
  /\ UNCHANGED <<ceremonyVars, chain, bornAt>>

\* No calendar is left: an error, and no proof.
AllFailed ==
  /\ stamping # Absent /\ stamping.next \notin DOMAIN Calendars
  /\ stamping' = Absent
  /\ UNCHANGED <<ceremonyVars, proof, accepted, chain, bornAt>>

\* A block, which commits what some of the calendars hold.  The chain only grows:
\* PqVerify is where blocks are replaced.
Mine ==
  /\ Len(chain) < MaxBlocks
  /\ \E cals \in SUBSET DOMAIN Calendars, t \in {now - l : l \in 0 .. Lag} \cap Nat :
       /\ chain' = Append(chain,
            [root |-> UNION {{<<i, d>> : d \in accepted[i]} : i \in cals}, time |-> t])
       /\ accepted' = [i \in DOMAIN Calendars |-> IF i \in cals THEN {} ELSE accepted[i]]
  /\ UNCHANGED <<ceremonyVars, stamping, proof, bornAt>>

\* `ots upgrade` asks the proof's calendar for the block.
Upgrade ==
  /\ proof \notin {Absent, Broken} /\ proof.bitcoin = << >>
  /\ \E h \in DOMAIN chain :
       /\ <<proof.by, proof.start_digest>> \in chain[h].root
       /\ proof' = [proof EXCEPT !.bitcoin = <<[height |-> h, root |-> chain[h].root]>>]
  /\ UNCHANGED <<ceremonyVars, stamping, accepted, chain, bornAt>>

Desk == StartStamp \/ Submit \/ AllFailed \/ Upgrade

NextArchive ==
  \/ /\ CeremonyNext
     /\ bornAt' = IF phase = "measure" /\ phase' = "serve"
                    THEN [bornAt EXCEPT ![boot] = Len(chain)] ELSE bornAt
     /\ UNCHANGED <<stampVars, chain>>
  \/ Desk \/ Mine

Spec == InitArchive /\ [][NextArchive]_vars

-----------------------------------------------------------------------------
\* `pq verify --bundle bundle.json --ots bundle.json.ots --esplora ...`, and
\* verify-subkey with the subkey JSON and the message it was asked to sign.
CommandLine(verb) ==
  [verb |-> verb, bundle |-> bundleFile, ots |-> proof, root |-> AwsRoot, headers |-> Absent,
   esplora |-> TRUE, override |-> Absent, subkey |-> subkeyFile,
   message |-> IF subkeyFile = Absent THEN Absent ELSE subkeyFile.asked.message]
Command == CommandLine("verify")

Anchored == proof \notin {Absent, Broken} /\ proof.bitcoin # << >>
Anchor == proof.bitcoin[1]

\* The verdict PqVerify implements, on a command that runs while the chain is
\* this one.
Verdict(command) ==
  INSTANCE PqVerdict
    WITH cmd <- command, ots <- proof, seen <- {chain}, busy <- TRUE, since <- now,
         result <- Absent, Commands <- {}, Upgrades <- {}, Chains <- {}, Roots <- {}

\* A command reports VERIFIED: its files are there and decode, and it accepts them
\* as of the time of a block.
Accepts(command) ==
  /\ bundleFile # Absent /\ proof \notin {Absent, Broken}
  /\ \E h \in DOMAIN chain : Verdict(command)!Verifies(chain[h].time, h)

\* Mutant: the certificates are checked as of now.
VerifiedAsOfNow ==
  /\ bundleFile # Absent /\ Anchored /\ proof.start_digest = bundleFile
  /\ Verify!Carries(Command, chain, Anchor)
  /\ Verify!StepsPass(Command, now)

\* Mutant: the digest of the proof is not compared with that of the bundle.
VerifiedAnyProof ==
  /\ bundleFile # Absent /\ Anchored
  /\ Verify!Carries(Command, chain, Anchor)
  /\ \E t \in Verify!Instants(Command, chain, Anchor.height) : Verify!StepsPass(Command, t)

Verified == Accepts(Command)

\* Mutant: the subkey is looked for in the tree of its own JSON.
SubkeyVerifiedAlone == Verified /\ subkeyFile # Absent

SubkeyVerified == subkeyFile # Absent /\ Accepts(CommandLine("verify-subkey"))

\* Once the proof of bundle.json is anchored in a block dated within the life of
\* the quote, the two files verify as long as that block stays in the chain: after
\* the certificates expire, the enclave dies, other boots make other bundles and
\* other stamps fail (README.md:3-4, main.rs:362-378).
TimelyAnchorVerifies ==
  bundleFile # Absent /\ Anchored /\ proof.start_digest = bundleFile /\ Honest(bundleFile) =>
    LET t == chain[Anchor.height].time
    IN bundleFile.quote.from <= t /\ t <= bundleFile.quote.to => Verified

\* "the bundle existed before Bitcoin block N" (main.rs:522-525).
VerifiedPredatesBlock ==
  Verified => bornAt[BootOf(bundleFile.payload)] < Anchor.height

\* "this subkey was generated inside the attested enclave (PCRs above) and the
\* bundle existed before Bitcoin block N" (main.rs:680-682): whichever boots the
\* three files came from, the subkey is of a genuine one that finished below the
\* block, and it is the subkey that was asked for.
SubkeyPredatesBlock ==
  SubkeyVerified =>
    LET d == boots[subkeyFile.from]
    IN /\ d.mode = "nitro" /\ d.root_ca = AwsRoot
       /\ bornAt[subkeyFile.from] < Anchor.height
       /\ subkeyFile.index = subkeyFile.asked.index

\* While the chain only grows, what verified once verifies until bundle.json is
\* fetched again or another stamp writes over the proof (main.rs:362-378, 541-547).
VerdictStands == [][Verified => Verified' \/ FetchBundle \/ Submit]_vars

\* A proof on disk can be upgraded: its calendar holds the digest, or a block
\* commits it (main.rs:534-547).
ProofIsAccepted ==
  proof \notin {Absent, Broken} =>
    \/ proof.start_digest \in accepted[proof.by]
    \/ \E h \in DOMAIN chain : <<proof.by, proof.start_digest>> \in chain[h].root

\* pq-quote lib.rs:13-16 says the chain is checked as of the anchor time, "when
\* the cert was valid": an anchored bundle of an honest enclave verifies.
AnchoredVerifies ==
  bundleFile # Absent /\ Anchored /\ proof.start_digest = bundleFile /\ Honest(bundleFile)
    => Verified
=============================================================================
