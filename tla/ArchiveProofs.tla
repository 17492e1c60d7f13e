--------------------------- MODULE ArchiveProofs ---------------------------
(***************************************************************************)
(* For any calendars, deployments, boots and blocks: what the two files on *)
(* the operator's disk prove.  Every digest under way - in bundle.json, at *)
(* a calendar, in a block - is of a boot that has finished, so the height  *)
(* at which that boot finished is settled and below the block's.           *)
(***************************************************************************)
EXTENDS Archive, CeremonyProofs

\* The digest is of a boot that makes no other bundle.
Settled(d, last, ph) ==
  /\ BootOf(d.payload) \in 1 .. last
  /\ BootOf(d.payload) = last => ph \in {"serve", "off"}

IsSeq(s) == Len(s) \in Nat /\ s = [i \in 1 .. Len(s) |-> s[i]]

ChainInv ==
  /\ IsSeq(chain) /\ \A h \in 1 .. Len(chain) : chain[h].time \in Nat
  /\ bornAt \in [1 .. MaxBoots -> 0 .. Len(chain)]
  /\ \A h \in 1 .. Len(chain) : \A i, d :
       <<i, d>> \in chain[h].root => Settled(d, boot, phase) /\ bornAt[BootOf(d.payload)] < h

DigestsInv ==
  /\ bundleFile # Absent => Settled(bundleFile, boot, phase)
  /\ stamping # Absent => /\ stamping = [digest |-> stamping.digest, next |-> stamping.next]
                          /\ Settled(stamping.digest, boot, phase)
  /\ accepted = [i \in DOMAIN Calendars |-> accepted[i]]
  /\ \A i \in DOMAIN Calendars : \A d \in accepted[i] : Settled(d, boot, phase)

Entry == <<proof.by, proof.start_digest>>
ProofInv ==
  proof \notin {Absent, Broken} =>
    /\ proof = [start_digest |-> proof.start_digest, by |-> proof.by, bitcoin |-> proof.bitcoin]
    /\ proof.by \in DOMAIN Calendars
    /\ \/ proof.start_digest \in accepted[proof.by]
       \/ \E h \in 1 .. Len(chain) : Entry \in chain[h].root
    /\ \/ proof.bitcoin = << >>
       \/ \E h \in 1 .. Len(chain) :
            /\ proof.bitcoin = <<[height |-> h, root |-> chain[h].root]>>
            /\ Entry \in chain[h].root

AInv == ChainInv /\ DigestsInv /\ ProofInv

-----------------------------------------------------------------------------
\* Whatever the desk and the miners do, the enclave and its files behave as
\* Ceremony has it: its theorems hold of the whole flow.
THEOREM ArchiveImplementsCeremony == Spec => CeremonySpec
<1>1. InitArchive => Init BY DEF InitArchive
<1>2. [NextArchive]_vars => [CeremonyNext]_ceremonyVars
  BY DEF NextArchive, vars, Desk, StartStamp, Submit, AllFailed, Upgrade, Mine
<1> QED BY <1>1, <1>2, PTL DEF Spec, CeremonySpec

LEMMA AppendAny ==
  ASSUME NEW s, IsSeq(s), NEW x
  PROVE  /\ IsSeq(Append(s, x)) /\ Len(Append(s, x)) = Len(s) + 1
         /\ \A i \in 1 .. Len(s) : Append(s, x)[i] = s[i]
         /\ Append(s, x)[Len(s) + 1] = x
<1> DEFINE n == Len(s)  S == {s[i] : i \in 1 .. n} \cup {x}
<1>1. n \in Nat /\ s = [i \in 1 .. n |-> s[i]] BY DEF IsSeq
<1>2. s \in Seq(S)
  <2> HIDE DEF n
  <2>1. s \in [1 .. n -> S] BY <1>1
  <2> QED BY <1>1, <2>1
<1>3. Append(s, x) \in Seq(S) /\ Len(Append(s, x)) = n + 1 BY <1>2
<1>4. IsSeq(Append(s, x))
  <2> DEFINE a == Append(s, x)
  <2> HIDE DEF a
  <2>1. a \in Seq(S) BY <1>3 DEF a
  <2>2. Len(a) \in Nat /\ a \in [1 .. Len(a) -> S] BY <2>1, LenProperties
  <2> QED BY <2>2 DEF IsSeq, a
<1> QED BY <1>2, <1>3, <1>4

\* A step of the enclave changes no boot that a digest is of, and the only new
\* digest it puts on disk is that of the bundle it serves.
LEMMA CeremonyStep ==
  ASSUME IInv, CeremonyNext
  PROVE  /\ boot \in Nat
         /\ \/ boot' = boot + 1 /\ phase' = "derive"
            \/ boot' = boot /\ phase' = phase
            \/ boot' = boot /\ phase' \in {"serve", "off"}
            \/ boot' = boot /\ phase \in {"derive", "measure"}
         /\ bundleFile' = bundleFile \/ (phase = "serve" /\ phase' = "serve" /\ bundleFile' = bundle)
<1>1. boots \in Seq(Deployments) /\ boot \in Nat BY DEF IInv, EnclaveInv, boot
<1>2. CASE \E d \in Deployments : Boot(d) BY <1>1, <1>2 DEF Boot, boot, files
<1>3. CASE DeriveSubkey BY <1>1, <1>3 DEF DeriveSubkey, Derive, boot, files
<1>4. CASE Attest BY <1>1, <1>4 DEF Attest, boot, files
<1>5. CASE DescribePcr BY <1>1, <1>5 DEF DescribePcr, boot, files
<1>6. CASE Finish BY <1>1, <1>6 DEF Finish, boot, files
<1>7. CASE Exit BY <1>1, <1>7 DEF Exit, boot, files
<1>8. CASE FetchBundle BY <1>1, <1>8 DEF FetchBundle, enclave, boot
<1>9. CASE \E i \in 0 .. Len(subkeys) : FetchSubkey(i) \/ \E m \in Messages : Sign(i, m)
  BY <1>1, <1>9 DEF FetchSubkey, Sign, Save, enclave, boot
<1>10. CASE Tick BY <1>1, <1>10 DEF Tick, enclave, boot, files
<1> QED BY <1>2, <1>3, <1>4, <1>5, <1>6, <1>7, <1>8, <1>9, <1>10 DEF CeremonyNext

Born(phaseNext) ==
  IF phase = "measure" /\ phaseNext = "serve" THEN [bornAt EXCEPT ![boot] = Len(chain)] ELSE bornAt

\* Nor does it change the height at which such a boot finished.
LEMMA SettledStays ==
  ASSUME IInv, ChainInv, CeremonyNext
  PROVE  /\ Born(phase') \in [1 .. MaxBoots -> 0 .. Len(chain)]
         /\ \A d : Settled(d, boot, phase) =>
              /\ Settled(d, boot', phase')
              /\ Born(phase')[BootOf(d.payload)] = bornAt[BootOf(d.payload)]
<1>1. /\ Len(chain) \in Nat /\ bornAt \in [1 .. MaxBoots -> 0 .. Len(chain)]
      /\ boot \in 0 .. MaxBoots
  BY BoundsAssumption DEF ChainInv, IsSeq, IInv, EnclaveInv, boot
<1>2. Len(chain) \in 0 .. Len(chain) BY <1>1
<1>3. Born(phase') \in [1 .. MaxBoots -> 0 .. Len(chain)] BY <1>1, <1>2 DEF Born
<1>4. ASSUME NEW d, Settled(d, boot, phase)
      PROVE  /\ Settled(d, boot', phase')
             /\ Born(phase')[BootOf(d.payload)] = bornAt[BootOf(d.payload)]
  <2> DEFINE n == BootOf(d.payload)
  <2>1. n \in 1 .. boot /\ (n = boot => phase \in {"serve", "off"}) BY <1>4 DEF Settled
  <2> HIDE DEF n
  <2>2. n \in 1 .. boot' /\ (n = boot' => phase' \in {"serve", "off"}) BY <2>1, CeremonyStep
  <2>3. Born(phase')[n] = bornAt[n] BY <1>1, <2>1 DEF Born
  <2> QED BY <2>2, <2>3 DEF Settled, n
<1> QED BY <1>3, <1>4

LEMMA InitArchiveHolds == InitArchive => AInv
<1> SUFFICES ASSUME InitArchive PROVE AInv OBVIOUS
<1>1. IsSeq(chain) /\ Len(chain) = 0
  <2>1. chain = << >> /\ Len(chain) = 0 BY DEF InitArchive
  <2>2. chain = Prefix(chain, 0) BY <2>1, PrefixEmpty
  <2> QED BY <2>1, <2>2 DEF IsSeq, Prefix
<1>2. ChainInv BY <1>1 DEF ChainInv, InitArchive
<1>3. DigestsInv BY DEF InitArchive, Init, DigestsInv
<1>4. ProofInv BY DEF InitArchive, ProofInv
<1> QED BY <1>2, <1>3, <1>4 DEF AInv

LEMMA EnclaveStepHolds ==
  ASSUME IInv, AInv, CeremonyNext, bornAt' = Born(phase'), UNCHANGED <<stampVars, chain>>
  PROVE  AInv'
<1>1. UNCHANGED <<stamping, proof, accepted, chain>> BY DEF stampVars
<1>2. ChainInv' BY <1>1, SettledStays DEF AInv, ChainInv
<1>3. DigestsInv'
  <2>1. bundleFile' # Absent => Settled(bundleFile', boot', phase')
    <3>1. CASE bundleFile' = bundleFile BY <3>1, SettledStays DEF AInv, DigestsInv
    <3>2. CASE phase = "serve" /\ bundleFile' = bundle
      <4>1. BootOf(bundle.payload) = boot BY <3>2, BootOfIs DEF IInv, FilesInv
      <4>2. boot \in 1 .. boot BY <3>2 DEF IInv, EnclaveInv, boot
      <4>3. Settled(bundle, boot, phase) BY <3>2, <4>1, <4>2 DEF Settled
      <4> QED BY <3>2, <4>3, SettledStays DEF AInv
    <3> QED BY <3>1, <3>2, CeremonyStep
  <2> QED BY <1>1, <2>1, SettledStays DEF AInv, DigestsInv
<1>4. ProofInv' BY <1>1 DEF AInv, ProofInv, Entry
<1> QED BY <1>2, <1>3, <1>4 DEF AInv

\* What the desk and the miners leave alone.
LEMMA QuietChain ==
  ASSUME AInv, UNCHANGED <<ceremonyVars, chain, bornAt>>
  PROVE  ChainInv' /\ boot' = boot /\ phase' = phase /\ bundleFile' = bundleFile
BY DEF AInv, ChainInv, ceremonyVars, enclave, files, boot

LEMMA StartStampHolds == ASSUME AInv, StartStamp PROVE AInv'
<1>1. UNCHANGED <<ceremonyVars, proof, accepted, chain, bornAt>> BY DEF StartStamp
<1>2. ChainInv' /\ boot' = boot /\ phase' = phase /\ bundleFile' = bundleFile BY <1>1, QuietChain
<1>3. DigestsInv' BY <1>1, <1>2 DEF StartStamp, AInv, DigestsInv
<1>4. ProofInv' BY <1>1 DEF AInv, ProofInv, Entry
<1> QED BY <1>2, <1>3, <1>4 DEF AInv

LEMMA AllFailedHolds == ASSUME AInv, AllFailed PROVE AInv'
<1>1. UNCHANGED <<ceremonyVars, proof, accepted, chain, bornAt>> BY DEF AllFailed
<1>2. ChainInv' /\ boot' = boot /\ phase' = phase /\ bundleFile' = bundleFile BY <1>1, QuietChain
<1>3. DigestsInv' BY <1>1, <1>2 DEF AllFailed, AInv, DigestsInv
<1>4. ProofInv' BY <1>1 DEF AInv, ProofInv, Entry
<1> QED BY <1>2, <1>3, <1>4 DEF AInv

LEMMA SubmitHolds == ASSUME AInv, Submit PROVE AInv'
<1> DEFINE i == stamping.next  d == stamping.digest
           handed == [accepted EXCEPT ![i] = @ \cup {d}]
<1>1. UNCHANGED <<ceremonyVars, chain, bornAt>> /\ stamping # Absent /\ i \in DOMAIN Calendars
  BY DEF Submit
<1>2. ChainInv' /\ boot' = boot /\ phase' = phase /\ bundleFile' = bundleFile BY <1>1, QuietChain
<1>3. /\ stamping = [digest |-> d, next |-> i] /\ Settled(d, boot, phase)
      /\ accepted = [j \in DOMAIN Calendars |-> accepted[j]]
  BY <1>1 DEF AInv, DigestsInv
<1>4. accepted' = handed \/ accepted' = accepted BY DEF Submit
<1>5. stamping' = Absent \/ stamping' = [digest |-> d, next |-> i + 1] BY <1>3 DEF Submit
<1>6. proof' = proof \/ proof' = Broken \/ (proof' = Pending(d, i) /\ accepted' = handed)
  BY DEF Submit
<1> HIDE DEF i, d
<1>7. /\ handed = [j \in DOMAIN Calendars |-> handed[j]]
      /\ \A j \in DOMAIN Calendars :
           handed[j] = IF j = i THEN accepted[j] \cup {d} ELSE accepted[j]
  BY <1>3
<1> HIDE DEF handed
<1>8. DigestsInv'
  <2>1. accepted' = [j \in DOMAIN Calendars |-> accepted'[j]] BY <1>3, <1>4, <1>7
  <2>2. \A j \in DOMAIN Calendars : \A e \in accepted'[j] : Settled(e, boot, phase)
    BY <1>3, <1>4, <1>7 DEF AInv, DigestsInv
  <2>3. stamping' # Absent => /\ stamping' = [digest |-> stamping'.digest, next |-> stamping'.next]
                              /\ Settled(stamping'.digest, boot, phase)
    BY <1>3, <1>5
  <2> QED BY <1>2, <2>1, <2>2, <2>3 DEF AInv, DigestsInv
<1>9. ProofInv'
  <2>1. chain' = chain BY <1>1
  <2>2. \A j \in DOMAIN Calendars : accepted[j] \subseteq accepted'[j] BY <1>4, <1>7
  <2>3. CASE proof' = proof BY <2>1, <2>2, <2>3 DEF AInv, ProofInv, Entry
  <2>4. CASE proof' = Broken BY <2>4 DEF ProofInv
  <2>5. CASE proof' = Pending(d, i) /\ accepted' = handed
    <3>1. proof' = [start_digest |-> d, by |-> i, bitcoin |-> << >>] BY <2>5 DEF Pending
    <3>2. d \in accepted'[i] BY <1>1, <1>7, <2>5 DEF i
    <3> QED BY <1>1, <3>1, <3>2 DEF ProofInv, i
  <2> QED BY <1>6, <2>3, <2>4, <2>5
<1> QED BY <1>2, <1>8, <1>9 DEF AInv

LEMMA UpgradeHolds == ASSUME AInv, Upgrade PROVE AInv'
<1>1. UNCHANGED <<ceremonyVars, stamping, accepted, chain, bornAt>> BY DEF Upgrade
<1>2. ChainInv' /\ boot' = boot /\ phase' = phase /\ bundleFile' = bundleFile BY <1>1, QuietChain
<1>3. DigestsInv' BY <1>1, <1>2 DEF AInv, DigestsInv
<1>4. ProofInv'
  <2>1. PICK h \in DOMAIN chain :
          /\ Entry \in chain[h].root
          /\ proof' = [proof EXCEPT !.bitcoin = <<[height |-> h, root |-> chain[h].root]>>]
    BY DEF Upgrade, Entry
  <2>2. h \in 1 .. Len(chain) BY DEF AInv, ChainInv, IsSeq
  <2>3. /\ proof = [start_digest |-> proof.start_digest, by |-> proof.by, bitcoin |-> proof.bitcoin]
        /\ proof.by \in DOMAIN Calendars
    BY DEF Upgrade, AInv, ProofInv
  <2>4. proof' = [start_digest |-> proof.start_digest, by |-> proof.by,
                  bitcoin |-> <<[height |-> h, root |-> chain[h].root]>>]
    BY <2>1, <2>3
  <2>5. Entry' = Entry BY <2>4 DEF Entry
  <2> QED BY <1>1, <2>1, <2>2, <2>3, <2>4, <2>5 DEF ProofInv
<1> QED BY <1>2, <1>3, <1>4 DEF AInv

\* A block settles what the calendars held below its height.
LEMMA MineHolds == ASSUME IInv, AInv, Mine PROVE AInv'
<1> DEFINE n == Len(chain)
<1>1. UNCHANGED <<ceremonyVars, stamping, proof, bornAt>> BY DEF Mine
<1>2. PICK cals \in SUBSET DOMAIN Calendars, t \in {now - l : l \in 0 .. Lag} \cap Nat :
        /\ chain' = Append(chain,
             [root |-> UNION {{<<i, d>> : d \in accepted[i]} : i \in cals}, time |-> t])
        /\ accepted' = [i \in DOMAIN Calendars |-> IF i \in cals THEN {} ELSE accepted[i]]
  BY DEF Mine
<1> DEFINE blk == [root |-> UNION {{<<i, d>> : d \in accepted[i]} : i \in cals}, time |-> t]
<1>3. \A i, d : <<i, d>> \in blk.root <=> i \in cals /\ d \in accepted[i] OBVIOUS
<1>4. blk.time \in Nat OBVIOUS
<1> HIDE DEF blk
<1>5. /\ n \in Nat /\ IsSeq(chain') /\ Len(chain') = n + 1
      /\ \A h \in 1 .. n : chain'[h] = chain[h]
      /\ chain'[n + 1] = blk
  BY <1>2, AppendAny DEF AInv, ChainInv, IsSeq, blk
<1>6. boot' = boot /\ phase' = phase /\ bundleFile' = bundleFile
  BY <1>1 DEF ceremonyVars, enclave, files, boot
<1>7. \A i \in DOMAIN Calendars : \A d \in accepted[i] : Settled(d, boot, phase)
  BY DEF AInv, DigestsInv
<1> HIDE DEF n
<1>8. bornAt \in [1 .. MaxBoots -> 0 .. n] /\ boot \in 0 .. MaxBoots
  BY BoundsAssumption DEF AInv, ChainInv, IInv, EnclaveInv, boot, n
<1>9. ASSUME NEW d, Settled(d, boot, phase) PROVE bornAt[BootOf(d.payload)] \in 0 .. n
  <2> DEFINE b == BootOf(d.payload)
  <2>1. b \in 1 .. boot BY <1>9 DEF Settled
  <2> HIDE DEF b
  <2>2. b \in 1 .. MaxBoots BY <1>8, <2>1, BoundsAssumption
  <2>3. bornAt[b] \in 0 .. n BY <1>8, <2>2
  <2> QED BY <2>3 DEF b
<1>10. ChainInv'
  <2>1. \A h \in 1 .. n + 1 : chain'[h].time \in Nat
    BY <1>4, <1>5 DEF AInv, ChainInv, n
  <2>2. bornAt' \in [1 .. MaxBoots -> 0 .. n + 1] BY <1>1, <1>5, <1>8
  <2>3. ASSUME NEW h \in 1 .. n + 1, NEW i, NEW d, <<i, d>> \in chain'[h].root
        PROVE  Settled(d, boot, phase) /\ bornAt[BootOf(d.payload)] < h
    <3>1. CASE h \in 1 .. n BY <1>5, <2>3, <3>1 DEF AInv, ChainInv, n
    <3>2. CASE h = n + 1
      <4>1. i \in DOMAIN Calendars /\ d \in accepted[i] BY <1>2, <1>3, <1>5, <2>3, <3>2
      <4>2. Settled(d, boot, phase) BY <1>7, <4>1
      <4>3. bornAt[BootOf(d.payload)] \in 0 .. n BY <1>9, <4>2
      <4> QED BY <1>5, <3>2, <4>2, <4>3
    <3> QED BY <1>5, <3>1, <3>2
  <2> QED BY <1>1, <1>5, <1>6, <2>1, <2>2, <2>3 DEF ChainInv
<1>11. DigestsInv'
  <2>1. \A i \in DOMAIN Calendars : accepted'[i] \subseteq accepted[i] BY <1>2
  <2>2. accepted' = [i \in DOMAIN Calendars |-> accepted'[i]] BY <1>2
  <2> QED BY <1>1, <1>6, <1>7, <2>1, <2>2 DEF AInv, DigestsInv
<1>12. ProofInv'
  <2> SUFFICES ASSUME proof \notin {Absent, Broken} PROVE ProofInv' BY <1>1 DEF ProofInv
  <2>1. /\ proof = [start_digest |-> proof.start_digest, by |-> proof.by, bitcoin |-> proof.bitcoin]
        /\ proof.by \in DOMAIN Calendars
        /\ proof.start_digest \in accepted[proof.by] \/ \E h \in 1 .. n : Entry \in chain[h].root
        /\ \/ proof.bitcoin = << >>
           \/ \E h \in 1 .. n : /\ proof.bitcoin = <<[height |-> h, root |-> chain[h].root]>>
                                /\ Entry \in chain[h].root
    BY DEF AInv, ProofInv, n
  <2>2. proof' = proof /\ Entry' = Entry BY <1>1 DEF Entry
  <2>3. \A h \in 1 .. n : h \in 1 .. n + 1 /\ chain'[h] = chain[h] BY <1>5
  <2>4. \/ proof.start_digest \in accepted'[proof.by]
        \/ \E h \in 1 .. n + 1 : Entry \in chain'[h].root
    <3>1. CASE \E h \in 1 .. n : Entry \in chain[h].root BY <2>3, <3>1
    <3>2. CASE proof.start_digest \in accepted[proof.by] /\ proof.by \in cals
      <4>1. Entry \in chain'[n + 1].root BY <1>3, <1>5, <3>2 DEF Entry
      <4> QED BY <1>5, <4>1
    <3>3. CASE proof.start_digest \in accepted[proof.by] /\ proof.by \notin cals
      BY <1>2, <2>1, <3>3
    <3> QED BY <2>1, <3>1, <3>2, <3>3
  <2>5. \/ proof.bitcoin = << >>
        \/ \E h \in 1 .. n + 1 : /\ proof.bitcoin = <<[height |-> h, root |-> chain'[h].root]>>
                                 /\ Entry \in chain'[h].root
    BY <2>1, <2>3
  <2> QED BY <1>5, <2>1, <2>2, <2>4, <2>5 DEF ProofInv
<1> QED BY <1>10, <1>11, <1>12 DEF AInv

LEMMA NextArchiveHolds == ASSUME IInv, AInv, [NextArchive]_vars PROVE AInv'
<1>1. CASE CeremonyNext /\ bornAt' = Born(phase') /\ UNCHANGED <<stampVars, chain>>
  BY <1>1, EnclaveStepHolds
<1>2. CASE StartStamp BY <1>2, StartStampHolds
<1>3. CASE Submit BY <1>3, SubmitHolds
<1>4. CASE AllFailed BY <1>4, AllFailedHolds
<1>5. CASE Upgrade BY <1>5, UpgradeHolds
<1>6. CASE Mine BY <1>6, MineHolds
<1>7. CASE UNCHANGED vars
  BY <1>7 DEF vars, stampVars, ceremonyVars, enclave, files, boot, AInv, ChainInv, DigestsInv,
              ProofInv, Entry
<1> QED BY <1>1, <1>2, <1>3, <1>4, <1>5, <1>6, <1>7 DEF NextArchive, Desk, Born

\* Every digest under way is of a boot that finished below the block it is in.
THEOREM DigestsSettled == Spec => [](IInv /\ AInv)
<1>1. Spec => []IInv BY ArchiveImplementsCeremony, InvariantHolds, PTL
<1>2. InitArchive => AInv BY InitArchiveHolds
<1>3. IInv /\ AInv /\ [NextArchive]_vars => AInv' BY NextArchiveHolds
<1> QED BY <1>1, <1>2, <1>3, PTL DEF Spec

-----------------------------------------------------------------------------
\* What an anchored proof says of the chain.
LEMMA AnchorIs ==
  ASSUME AInv, Anchored
  PROVE  /\ Anchor.height \in 1 .. Len(chain) /\ Anchor.height \in DOMAIN chain
         /\ Anchor.root = chain[Anchor.height].root
         /\ <<proof.by, proof.start_digest>> \in chain[Anchor.height].root
<1>1. PICK h \in 1 .. Len(chain) : /\ proof.bitcoin = <<[height |-> h, root |-> chain[h].root]>>
                                   /\ Entry \in chain[h].root
  BY DEF AInv, ProofInv, Anchored
<1>2. Anchor = [height |-> h, root |-> chain[h].root] BY <1>1 DEF Anchor
<1>3. h \in DOMAIN chain BY DEF AInv, ChainInv, IsSeq
<1> QED BY <1>1, <1>2, <1>3 DEF Entry

\* A proof on disk can be upgraded, now or later (main.rs:534-547).
THEOREM ProofsAreAccepted == Spec => []ProofIsAccepted
<1>1. AInv => ProofIsAccepted
  <2> SUFFICES ASSUME AInv PROVE ProofIsAccepted OBVIOUS
  <2>1. 1 .. Len(chain) = DOMAIN chain BY DEF AInv, ChainInv, IsSeq
  <2> QED BY <2>1 DEF AInv, ProofInv, Entry, ProofIsAccepted
<1> QED BY <1>1, DigestsSettled, PTL

-----------------------------------------------------------------------------
\* What the verdict of PqVerdict comes to on the files of the desk.

\* A readable proof carries the root of its block, which is on the chain.
LEMMA CommandReads ==
  ASSUME AInv, Anchored, NEW c, c.bundle = bundleFile, c.root = AwsRoot, c.headers = Absent,
         c.esplora, c.override = Absent
  PROVE  /\ Verify!Carries(c, chain, Anchor)
         /\ \A h \in DOMAIN chain : Verify!Instants(c, chain, h) = {chain[h].time}
         /\ \A t : Verify!StepsPass(c, t)
                  <=> AwsRoot = bundleFile.aws_root /\ Verify!BundleVerifies(bundleFile, AwsRoot, t)
<1>1. Verify!HeaderSource(c, chain) = chain BY DEF Verify!HeaderSource
<1>2. Verify!Carries(c, chain, Anchor) BY <1>1, AnchorIs DEF Verify!Carries
<1>3. ASSUME NEW h \in DOMAIN chain PROVE Verify!Instants(c, chain, h) = {chain[h].time}
  <2>1. chain[h].time # Absent BY AbsentAssumption DEF AInv, ChainInv, IsSeq
  <2>2. Verify!AgreedInstants(chain[h].time, Absent) = {chain[h].time}
    BY <2>1 DEF Verify!AgreedInstants
  <2> QED BY <1>1, <2>2 DEF Verify!Instants
<1> QED BY <1>2, <1>3 DEF Verify!StepsPass

LEMMA CommandFields ==
  ASSUME NEW verb
  PROVE  LET c == CommandLine(verb)
         IN /\ c.verb = verb /\ c.bundle = bundleFile /\ c.root = AwsRoot /\ c.headers = Absent
            /\ c.esplora /\ c.override = Absent /\ c.subkey = subkeyFile
            /\ subkeyFile # Absent => c.message = subkeyFile.asked.message
BY DEF CommandLine

\* The checks that PqVerdict makes are those Ceremony speaks of.
LEMMA SameVerdict ==
  ASSUME NEW c
  PROVE  /\ \A q, a : Verdict(c)!Carries(c, q, a) <=> Verify!Carries(c, q, a)
         /\ \A q, h : Verdict(c)!Instants(c, q, h) = Verify!Instants(c, q, h)
         /\ \A t : Verdict(c)!StepsPass(c, t) <=> Verify!StepsPass(c, t)
         /\ Verdict(c)!SubkeyPasses(c) <=> Verify!SubkeyPasses(c)
<1>1. \A q : Verdict(c)!HeaderSource(c, q) = Verify!HeaderSource(c, q)
  BY DEF Verdict!HeaderSource, Verify!HeaderSource
<1>2. \A q, a : Verdict(c)!Carries(c, q, a) <=> Verify!Carries(c, q, a)
  BY <1>1 DEF Verdict!Carries, Verify!Carries
<1>3. \A u, v : Verdict(c)!AgreedInstants(u, v) = Verify!AgreedInstants(u, v)
  BY DEF Verdict!AgreedInstants, Verify!AgreedInstants
<1>4. \A q, h : Verdict(c)!Instants(c, q, h) = Verify!Instants(c, q, h)
  BY <1>1, <1>3 DEF Verdict!Instants, Verify!Instants
<1>5. ASSUME NEW t PROVE Verdict(c)!StepsPass(c, t) <=> Verify!StepsPass(c, t)
  <2>1. Verdict(c)!BundleVerifies(c.bundle, c.root, t) <=> Verify!BundleVerifies(c.bundle, c.root, t)
    BY DEF Verdict!BundleVerifies, Verify!BundleVerifies, Verdict!QuoteVerifies,
           Verify!QuoteVerifies, Verdict!DualVerifies, Verify!DualVerifies
  <2> QED BY <2>1 DEF Verdict!StepsPass, Verify!StepsPass
<1>6. Verdict(c)!SubkeyPasses(c) <=> Verify!SubkeyPasses(c)
  BY DEF Verdict!SubkeyPasses, Verify!SubkeyPasses
<1> QED BY <1>2, <1>4, <1>5, <1>6

\* A verdict depends on nothing but the bundle, the proof, the subkey JSON and the
\* time of the one block the proof names.
FilesPass ==
  /\ bundleFile # Absent /\ Anchored /\ proof.start_digest = bundleFile
  /\ AwsRoot = bundleFile.aws_root
  /\ Verify!BundleVerifies(bundleFile, AwsRoot, chain[Anchor.height].time)

LEMMA AcceptsMeans ==
  ASSUME AInv, NEW verb
  PROVE  Accepts(CommandLine(verb))
           <=> FilesPass /\ (verb = "verify-subkey" => Verify!SubkeyPasses(CommandLine(verb)))
<1> DEFINE c == CommandLine(verb)  t(h) == chain[h].time
           part == verb = "verify-subkey" => Verify!SubkeyPasses(c)
<1>1. /\ c.verb = verb /\ c.bundle = bundleFile /\ c.root = AwsRoot /\ c.headers = Absent
      /\ c.esplora /\ c.override = Absent
  BY CommandFields
<1> HIDE DEF c
<1>2. Verdict(c)!ArgumentsOk
  BY <1>1, AbsentAssumption DEF Verdict!ArgumentsOk, Verdict!Exclusive
<1>3. Verdict(c)!SubkeyPart <=> part BY <1>1, SameVerdict DEF Verdict!SubkeyPart
<1> HIDE DEF part
<1>4. CASE ~Anchored
  <2>1. ~FilesPass BY <1>4 DEF FilesPass
  <2>2. proof \in {Absent, Broken} \/ proof.bitcoin = << >> BY <1>4 DEF Anchored
  <2>3. ~Accepts(c) BY <2>2 DEF Accepts, Verdict!Verifies, Verdict!Anchored
  <2> QED BY <2>1, <2>3 DEF c, part
<1>5. CASE Anchored
  <2>1. proof \notin {Absent, Broken} /\ proof.bitcoin # << >> BY <1>5 DEF Anchored
  <2>2. PICK k \in 1 .. Len(chain) : proof.bitcoin = <<[height |-> k, root |-> chain[k].root]>>
    BY <2>1 DEF AInv, ProofInv
  <2>3. Anchor.height = k /\ k \in DOMAIN chain /\ DOMAIN proof.bitcoin = {1} /\ proof.bitcoin[1] = Anchor
    BY <1>5, <2>2, AnchorIs DEF Anchor
  <2>4. /\ Verify!Carries(c, chain, Anchor)
        /\ \A h \in DOMAIN chain : Verify!Instants(c, chain, h) = {t(h)}
        /\ Verify!StepsPass(c, t(k)) <=> /\ AwsRoot = bundleFile.aws_root
                                        /\ Verify!BundleVerifies(bundleFile, AwsRoot, t(k))
    BY <1>1, <1>5, CommandReads
  <2>5. Verdict(c)!Anchored <=> proof.start_digest = bundleFile
    BY <1>1, <2>1, <2>3, <2>4, SameVerdict DEF Verdict!Anchored
  <2>6. \A h \in DOMAIN chain : Verdict(c)!Earliest(h) <=> h = k
    <3> SUFFICES ASSUME NEW h \in DOMAIN chain PROVE Verdict(c)!Earliest(h) <=> h = k OBVIOUS
    <3>1. h \in Nat /\ k \in Nat BY <2>2 DEF AInv, ChainInv, IsSeq
    <3>2. \A i \in DOMAIN proof.bitcoin : proof.bitcoin[i].height = k BY <2>3
    <3> QED BY <2>3, <3>1, <3>2 DEF Verdict!Earliest
  <2>7. \A h \in DOMAIN chain : t(h) \in Verdict(c)!Instants(c, chain, h)
    <3>1. \A q, h : Verdict(c)!Instants(c, q, h) = Verify!Instants(c, q, h) BY SameVerdict
    <3> HIDE DEF t
    <3> QED BY <2>4, <3>1
  <2>8. \A h \in DOMAIN chain :
          Verdict(c)!Verifies(t(h), h)
            <=> h = k /\ proof.start_digest = bundleFile /\ Verify!StepsPass(c, t(k)) /\ part
    BY <1>2, <1>3, <2>5, <2>6, <2>7, SameVerdict DEF Verdict!Verifies
  <2>9. Accepts(c) <=> /\ bundleFile # Absent /\ proof.start_digest = bundleFile
                       /\ Verify!StepsPass(c, t(k)) /\ part
    BY <2>1, <2>3, <2>8 DEF Accepts
  <2> QED BY <1>5, <2>3, <2>4, <2>9 DEF FilesPass, c, part
<1> QED BY <1>4, <1>5

LEMMA VerdictsMean ==
  ASSUME AInv
  PROVE  /\ Verified <=> FilesPass
         /\ SubkeyVerified <=>
              FilesPass /\ subkeyFile # Absent /\ Verify!SubkeyPasses(CommandLine("verify-subkey"))
BY AcceptsMeans DEF Verified, SubkeyVerified, Command

-----------------------------------------------------------------------------
\* What verifies, and for how long.

\* What verifies was finished below its block.
LEMMA FinishedBelow == AInv => VerifiedPredatesBlock
<1> SUFFICES ASSUME AInv, Verified
             PROVE  bornAt[BootOf(bundleFile.payload)] < Anchor.height
  BY DEF VerifiedPredatesBlock
<1>1. Anchored /\ proof.start_digest = bundleFile BY VerdictsMean DEF FilesPass
<1>2. /\ Anchor.height \in 1 .. Len(chain)
      /\ <<proof.by, bundleFile>> \in chain[Anchor.height].root
  BY <1>1, AnchorIs
<1> QED BY <1>2 DEF AInv, ChainInv

\* What `pq verify` prints: "the bundle existed before Bitcoin block N"
\* (main.rs:522-525).
THEOREM VerifiedPredates == Spec => []VerifiedPredatesBlock
BY FinishedBelow, DigestsSettled, PTL

\* A bundle anchored in a block dated in the life of its certificates verifies
\* as long as that block stays, whatever becomes of the enclave (README.md:3-4, main.rs:362-378).
THEOREM TimelyAnchorsVerify == Spec => []TimelyAnchorVerifies
<1>1. IInv /\ AInv => TimelyAnchorVerifies
  <2> DEFINE h == Anchor.height  t == chain[h].time
  <2> SUFFICES ASSUME IInv, AInv, bundleFile # Absent, Anchored, proof.start_digest = bundleFile,
                      Honest(bundleFile), bundleFile.quote.from <= t, t <= bundleFile.quote.to
               PROVE  Verified
    BY DEF TimelyAnchorVerifies
  <2>1. PICK n \in 1 .. Len(boots) : bundleFile = BundleOf(bundleFile.quote, n, boots[n])
    BY DEF IInv, FilesInv, Finished
  <2>2. boots[n] \in Deployments BY DEF IInv, EnclaveInv
  <2>3. boots[n].mode = "nitro" /\ boots[n].root_ca = AwsRoot BY <2>1, BootOfIs DEF Honest
  <2>4. /\ Command.bundle = bundleFile /\ Command.root = AwsRoot /\ Command.headers = Absent
        /\ Command.esplora /\ Command.override = Absent
    BY CommandFields DEF Command
  <2>5. Verify!StepsPass(Command, t) BY <2>1, <2>2, <2>3, <2>4, BundlePasses
  <2>6. AwsRoot = bundleFile.aws_root /\ Verify!BundleVerifies(bundleFile, AwsRoot, t)
    BY <2>4, <2>5, CommandReads
  <2> QED BY <2>6, VerdictsMean DEF FilesPass
<1> QED BY <1>1, DigestsSettled, PTL

\* "this subkey was generated inside the attested enclave (PCRs above) and the
\* bundle existed before Bitcoin block N" (main.rs:680-682): so it is, for any
\* boots, subkeys, calendars and blocks, whichever boots the files came from.
THEOREM SubkeysPredate == Spec => []SubkeyPredatesBlock
<1>1. IInv /\ AInv => SubkeyPredatesBlock
  <2> DEFINE m == subkeyFile.from  d == boots[m]
  <2> SUFFICES ASSUME IInv, AInv, SubkeyVerified
               PROVE  /\ d.mode = "nitro" /\ d.root_ca = AwsRoot
                      /\ bornAt[m] < Anchor.height /\ subkeyFile.index = subkeyFile.asked.index
    BY DEF SubkeyPredatesBlock
  <2>1. /\ FilesPass /\ Verified /\ bundleFile # Absent /\ subkeyFile # Absent
        /\ Verify!SubkeyPasses(CommandLine("verify-subkey"))
    BY VerdictsMean DEF FilesPass
  <2>2. PICK n \in 1 .. Len(boots) : bundleFile = BundleOf(bundleFile.quote, n, boots[n])
    BY <2>1 DEF IInv, FilesInv, Finished
  <2>3. boots[n] \in Deployments BY DEF IInv, EnclaveInv
  <2>4. BootOf(bundleFile.payload) = n BY <2>2, BootOfIs
  <2>5. m = n /\ subkeyFile.index = subkeyFile.asked.index
    <3>2. Verify!SubkeyPasses([bundle |-> bundleFile, subkey |-> subkeyFile,
                               message |-> subkeyFile.asked.message])
      BY <2>1, CommandFields DEF Verify!SubkeyPasses
    <3> QED BY <2>1, <2>4, <3>2, FitsIsFrom DEF SubkeyFileFits
  <2>6. boots[n].mode = "nitro" /\ boots[n].root_ca = AwsRoot
    <3> DEFINE t == chain[Anchor.height].time
    <3>2. Command.bundle = bundleFile /\ Command.root = AwsRoot BY CommandFields DEF Command
    <3>1. Verify!StepsPass(Command, t) BY <2>1, <3>2 DEF FilesPass, Verify!StepsPass
    <3> HIDE DEF t
    <3> QED BY <2>2, <2>3, <3>1, <3>2, BundlePasses
  <2>7. bornAt[n] < Anchor.height BY <2>1, <2>4, FinishedBelow DEF VerifiedPredatesBlock
  <2> QED BY <2>5, <2>6, <2>7
<1> QED BY <1>1, DigestsSettled, PTL

-----------------------------------------------------------------------------
\* The life of a verdict.

\* Only a new bundle.json or a new stamp takes a verdict away (main.rs:362-378,
\* 541-547): not time, boots, blocks, or anything else the operator does.
THEOREM VerdictStays == Spec => VerdictStands
<1> DEFINE k == Anchor.height
<1>1. ASSUME IInv, AInv, AInv', [NextArchive]_vars, Verified, ~FetchBundle, ~Submit
      PROVE  Verified'
  <2>1. /\ bundleFile # Absent /\ Anchored /\ proof.start_digest = bundleFile
        /\ proof \notin {Absent, Broken} /\ proof.bitcoin # << >>
    BY <1>1, VerdictsMean DEF FilesPass, Anchored
  <2>2. bundleFile' = bundleFile /\ proof' = proof
    <3>1. ASSUME CeremonyNext, UNCHANGED stampVars PROVE bundleFile' = bundleFile /\ proof' = proof
      BY <1>1, <3>1 DEF CeremonyNext, Boot, DeriveSubkey, Derive, Attest, DescribePcr, Finish, Exit,
                        FetchSubkey, Sign, Save, Tick, files, stampVars
    <3>2. ASSUME Desk \/ Mine PROVE bundleFile' = bundleFile /\ proof' = proof
      BY <1>1, <2>1, <3>2 DEF Desk, StartStamp, AllFailed, Upgrade, Mine, ceremonyVars, files
    <3>3. ASSUME UNCHANGED vars PROVE bundleFile' = bundleFile /\ proof' = proof
      BY <3>3 DEF vars, ceremonyVars, files, stampVars
    <3> QED BY <1>1, <3>1, <3>2, <3>3 DEF NextArchive
  <2>3. Anchored' /\ Anchor' = Anchor BY <2>1, <2>2 DEF Anchored, Anchor
  <2>4. chain'[k] = chain[k]
    <3>1. k \in 1 .. Len(chain) BY <1>1, <2>1, AnchorIs
    <3>2. CASE chain' = chain BY <3>2
    <3>3. CASE Mine
      <4>1. PICK x : chain' = Append(chain, x) BY <3>3 DEF Mine
      <4> QED BY <1>1, <3>1, <4>1, AppendAny DEF AInv, ChainInv
    <3> QED BY <1>1, <3>2, <3>3 DEF NextArchive, Desk, StartStamp, AllFailed, Upgrade, vars
  <2>5. /\ AwsRoot = bundleFile.aws_root
        /\ Verify!BundleVerifies(bundleFile, AwsRoot, chain[k].time)
    BY <1>1, VerdictsMean DEF FilesPass
  <2>6. Verify!BundleVerifies(bundleFile', AwsRoot, chain'[Anchor'.height].time)
    BY <2>2, <2>3, <2>4, <2>5
  <2>7. FilesPass' BY <2>1, <2>2, <2>3, <2>5, <2>6 DEF FilesPass
  <2>8. (Verified <=> FilesPass)' BY <1>1, VerdictsMean, PTL
  <2> QED BY <2>7, <2>8
<1> QED BY <1>1, DigestsSettled, PTL DEF Spec, VerdictStands
=============================================================================
