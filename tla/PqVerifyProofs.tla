--------------------------- MODULE PqVerifyProofs ---------------------------
(***************************************************************************)
(* For every command line, every chain and every schedule: PqVerify keeps  *)
(* its type invariant, implements PqVerdict, names the earliest anchor and *)
(* its time, answers the same for an anchored proof on every run, and      *)
(* accepts what one ceremony made.                                         *)
(***************************************************************************)
EXTENDS PqVerify, TLAPS

\* The facts step 1 has established when it returns.
Matched(upto) ==
  \A i \in 1 .. upto : \E c \in seen : Carries(cmd, c, ots.bitcoin[i])

Opened == ArgumentsOk /\ ots.start_digest = cmd.bundle

Step1Done ==
  /\ Opened
  /\ pending => ots.bitcoin = << >> /\ height = Absent /\ instant \in since .. now
  /\ ~pending =>
       /\ ots.bitcoin # << >> /\ Matched(Len(ots.bitcoin))
       /\ \E i \in DOMAIN ots.bitcoin : ots.bitcoin[i].height = height
       /\ \A i \in DOMAIN ots.bitcoin : height <= ots.bitcoin[i].height
       /\ \E c \in seen : instant \in Instants(cmd, c, height)

TypeInv ==
  /\ cmd \in Commands /\ chain \in Chains /\ now \in Nat /\ since \in 0 .. now
  /\ pc \in {"idle", "ots", "anchors", "bundle", "subkey"}
  /\ k \in Nat /\ pending \in BOOLEAN
  /\ pc # "idle" => chain \in seen
  /\ ots = Absent <=> cmd.ots = Absent
  /\ ots # Absent => IsProof(ots)

PlaceInv ==
  /\ pc \in {"ots", "anchors", "bundle"} => cmd.ots # Absent
  /\ pc \in {"ots", "anchors"} => pending = FALSE
  /\ pc = "ots" => k = 1 /\ anchors = {} /\ height = Absent
  /\ pc = "anchors" =>
       /\ Opened /\ ots.bitcoin # << >> /\ k \in 1 .. Len(ots.bitcoin) + 1
       /\ anchors = {ots.bitcoin[i].height : i \in 1 .. k - 1}
       /\ Matched(k - 1)
  /\ pc = "bundle" => Step1Done
  /\ pc = "subkey" =>
       /\ cmd.verb = "verify-subkey"
       /\ cmd.ots = Absent => instant = Absent /\ height = Absent /\ pending = FALSE
       /\ cmd.ots # Absent => Step1Done /\ StepsPass(cmd, instant)

IInv == TypeInv /\ PlaceInv

-----------------------------------------------------------------------------
(* Facts about the inputs.                                                 *)

\* A source and an override never agree on two instants.
LEMMA InstantUnique ==
  ASSUME NEW c, NEW x, NEW h, NEW t \in Instants(c, x, h), NEW u \in Instants(c, x, h)
  PROVE  t = u
  BY DEF Instants, AgreedInstants

\* A command that does not name the explorer reads nothing of the chain.
LEMMA OfflineSource ==
  ASSUME NEW c, ~c.esplora, NEW x, NEW y
  PROVE  /\ HeaderSource(c, x) = HeaderSource(c, y)
         /\ \A a : Carries(c, x, a) = Carries(c, y, a)
         /\ \A h : Instants(c, x, h) = Instants(c, y, h)
  BY DEF HeaderSource, Carries, Instants

-----------------------------------------------------------------------------
(* The invariant is inductive.                                             *)

LEMMA InitIInv == Init => IInv
  <1>. SUFFICES ASSUME Init PROVE IInv
    OBVIOUS
  <1>1. cmd \in Commands /\ ots = cmd.ots /\ (ots # Absent => IsProof(ots))
    BY CommandsAssumption DEF Init
  <1>2. pending \in BOOLEAN
    BY Zenon DEF Init
  <1>3. TypeInv
    BY <1>1, <1>2 DEF Init, TypeInv
  <1>4. PlaceInv
    BY DEF Init, PlaceInv
  <1>. QED BY <1>3, <1>4 DEF IInv

LEMMA BailIInv == ASSUME IInv, Bail PROVE IInv'
  BY DEF IInv, TypeInv, PlaceInv, Bail, Finish, files, world, step1, IsProof

LEMMA ReportIInv ==
  ASSUME IInv, Report(pending, instant, height), UNCHANGED <<files, world, step1, seen, since>>
  PROVE  IInv'
  BY DEF IInv, TypeInv, PlaceInv, Report, Finish, files, world, step1, IsProof

LEMMA BeginIInv == ASSUME IInv, Begin PROVE IInv'
  <1>1. cmd \in Commands /\ (cmd.ots = Absent => cmd.verb = "verify-subkey")
    BY CommandsAssumption DEF IInv, TypeInv
  <1>2. pending' \in BOOLEAN
    BY Zenon DEF Begin
  <1>3. TypeInv'
    BY <1>2 DEF IInv, TypeInv, Begin, files, world, IsProof
  <1>4. PlaceInv'
    BY <1>1 DEF PlaceInv, Begin, files
  <1>. QED BY <1>3, <1>4 DEF IInv

LEMMA OpenProofIInv == ASSUME IInv, OpenProof PROVE IInv'
  <1>1. CASE Bail
    BY <1>1, BailIInv
  <1>2. CASE ~Bail
    <2>1. Opened /\ UNCHANGED <<files, world, k, anchors, height, result, seen, since, past>>
      BY <1>2 DEF OpenProof, Opened, step1
    <2>2. TypeInv'
      BY <1>2, <2>1 DEF IInv, TypeInv, OpenProof, files, world, step1, IsProof
    <2>3. CASE pc' = "bundle"
      <3>1. pending' = TRUE /\ instant' = now /\ ots.bitcoin = << >>
        BY <1>2, <2>3 DEF OpenProof
      <3>. QED BY <2>1, <2>2, <2>3, <3>1
               DEF IInv, TypeInv, PlaceInv, Step1Done, Opened, ArgumentsOk, OpenProof, files, world
    <2>4. CASE pc' = "anchors"
      <3>1. UNCHANGED step1 /\ ots.bitcoin # << >>
        BY <1>2, <2>4 DEF OpenProof
      <3>2. ots.bitcoin \in Seq(Attestations) /\ Len(ots.bitcoin) \in Nat
        BY DEF IInv, TypeInv, PlaceInv, IsProof, OpenProof
      <3>. QED BY <2>1, <2>2, <2>4, <3>1, <3>2
               DEF IInv, TypeInv, PlaceInv, Matched, Opened, ArgumentsOk, OpenProof, files, world, step1
    <2>. QED BY <1>2, <2>3, <2>4 DEF OpenProof
  <1>. QED BY <1>1, <1>2

LEMMA MatchAnchorIInv == ASSUME IInv, MatchAnchor PROVE IInv'
  <1>1. CASE Bail
    BY <1>1, BailIInv
  <1>2. CASE ~Bail
    <2>1. /\ pc = "anchors" /\ pc' = "anchors" /\ k \in DOMAIN ots.bitcoin /\ k' = k + 1
          /\ Carries(cmd, chain, ots.bitcoin[k])
          /\ anchors' = anchors \cup {ots.bitcoin[k].height}
          /\ UNCHANGED <<files, world, pc, pending, instant, height, result, seen, since, past>>
      BY <1>2 DEF MatchAnchor
    <2>2. ots.bitcoin \in Seq(Attestations) /\ k \in 1 .. Len(ots.bitcoin) /\ Len(ots.bitcoin) \in Nat
      BY <2>1 DEF IInv, TypeInv, PlaceInv, IsProof
    <2>3. TypeInv'
      BY <2>1 DEF IInv, TypeInv, files, world, IsProof
    <2>4. anchors' = {ots.bitcoin[i].height : i \in 1 .. k' - 1}
      BY <2>1, <2>2 DEF IInv, PlaceInv
    <2>5. \A i \in 1 .. k' - 1 : \E c \in seen : Carries(cmd, c, ots.bitcoin[i])
      BY <2>1, <2>2 DEF IInv, TypeInv, PlaceInv, Matched
    <2>6. cmd.ots # Absent /\ pending = FALSE /\ Opened /\ ots.bitcoin # << >>
      BY <2>1 DEF IInv, PlaceInv
    <2>. QED BY <2>1, <2>2, <2>3, <2>4, <2>5, <2>6
             DEF IInv, PlaceInv, Matched, Opened, ArgumentsOk, files
  <1>. QED BY <1>1, <1>2

LEMMA TakeInstantIInv == ASSUME IInv, TakeInstant PROVE IInv'
  <1>1. CASE Bail
    BY <1>1, BailIInv
  <1>2. CASE ~Bail
    <2>1. PICK h \in anchors :
            /\ EarliestAnchor(h)
            /\ instant' \in Instants(cmd, chain, h)
            /\ height' = h /\ pc' = "bundle"
            /\ UNCHANGED <<files, world, k, anchors, pending, result, seen, since, past>>
      BY <1>2 DEF TakeInstant
    <2>2. /\ pc = "anchors" /\ Opened /\ ots.bitcoin # << >> /\ Matched(k - 1)
          /\ anchors = {ots.bitcoin[i].height : i \in 1 .. k - 1}
          /\ k \in 1 .. Len(ots.bitcoin) + 1 /\ k \notin DOMAIN ots.bitcoin
          /\ ots.bitcoin \in Seq(Attestations) /\ Len(ots.bitcoin) \in Nat
          /\ pending = FALSE /\ cmd.ots # Absent /\ chain \in seen
      BY DEF TakeInstant, IInv, TypeInv, PlaceInv, IsProof
    <2>3. k - 1 = Len(ots.bitcoin) /\ DOMAIN ots.bitcoin = 1 .. k - 1
      BY <2>2
    <2>4. TypeInv'
      BY <2>1, <2>2 DEF IInv, TypeInv, files, world, IsProof
    <2>5. /\ \E i \in DOMAIN ots.bitcoin : ots.bitcoin[i].height = h
          /\ \A i \in DOMAIN ots.bitcoin : h <= ots.bitcoin[i].height
      BY <2>1, <2>2, <2>3 DEF EarliestAnchor
    <2>6. Step1Done'
      BY <2>1, <2>2, <2>3, <2>5 DEF Step1Done, Opened, ArgumentsOk, Matched, files, world
    <2>. QED BY <2>1, <2>2, <2>4, <2>6 DEF IInv, PlaceInv, files
  <1>. QED BY <1>1, <1>2

LEMMA CheckBundleIInv == ASSUME IInv, CheckBundle PROVE IInv'
  <1>1. CASE Bail
    BY <1>1, BailIInv
  <1>2. CASE Report(pending, instant, height) /\ UNCHANGED <<files, world, step1, seen, since>>
    BY <1>2, ReportIInv
  <1>3. CASE /\ StepsPass(cmd, instant) /\ cmd.verb = "verify-subkey" /\ pc' = "subkey"
             /\ UNCHANGED <<files, world, step1, result, seen, since, past>>
    BY <1>3 DEF CheckBundle, IInv, TypeInv, PlaceInv, Step1Done, Opened, ArgumentsOk, Matched,
                files, world, step1, IsProof
  <1>. QED BY <1>1, <1>2, <1>3 DEF CheckBundle

LEMMA CheckSubkeyIInv == ASSUME IInv, CheckSubkey PROVE IInv'
  BY BailIInv, ReportIInv DEF CheckSubkey

\* The world moves: nothing that was seen is forgotten, and the clock only grows.
LEMMA TickIInv == ASSUME IInv, Tick PROVE IInv'
  BY DEF IInv, TypeInv, PlaceInv, Step1Done, Opened, ArgumentsOk, Matched, Tick, files, step1, IsProof

LEMMA ReorganiseIInv == ASSUME IInv, Reorganise PROVE IInv'
  <1>. USE DEF Reorganise, files, step1
  <1>1. TypeInv'
    BY DEF IInv, TypeInv, IsProof
  <1>2. CASE pc = "idle"
    BY <1>1, <1>2 DEF IInv, PlaceInv
  <1>3. CASE pc # "idle"
    <2>1. seen \subseteq seen'
      BY <1>3
    <2>. QED BY <1>1, <2>1 DEF IInv, PlaceInv, Step1Done, Opened, ArgumentsOk, Matched
  <1>. QED BY <1>2, <1>3

LEMMA UpgradeIInv == ASSUME IInv, Upgrade PROVE IInv'
  <1>1. /\ ots' \in Upgrades /\ IsProof(ots') /\ ots' # Absent /\ ots # Absent
        /\ pc = "idle" /\ pc' = "idle" /\ cmd' = cmd
    BY UpgradesAssumption DEF Upgrade
  <1>2. TypeInv'
    BY <1>1 DEF IInv, TypeInv, Upgrade, world, step1
  <1>. QED BY <1>1, <1>2 DEF IInv, PlaceInv

LEMMA NextIInv == IInv /\ [Next]_vars => IInv'
  <1>. SUFFICES ASSUME IInv, [Next]_vars PROVE IInv'
    OBVIOUS
  <1>1. CASE Next
    BY <1>1, BailIInv, BeginIInv, OpenProofIInv, MatchAnchorIInv, TakeInstantIInv, CheckBundleIInv,
       CheckSubkeyIInv, TickIInv, ReorganiseIInv, UpgradeIInv
       DEF Next, RejectArguments, SourceFails
  <1>2. CASE UNCHANGED vars
    BY <1>2 DEF vars, files, world, step1, IInv, TypeInv, PlaceInv, Step1Done, Opened, ArgumentsOk,
               Matched, IsProof
  <1>. QED BY <1>1, <1>2

LEMMA Invariant == Spec => []IInv
  BY InitIInv, NextIInv, PTL DEF Spec

\* Every step keeps the variables in their types and the locals of step 1 in
\* agreement with the place in the code (TypeOK).
THEOREM TypeCorrect == Spec => []TypeOK
  <1>1. IInv => TypeOK
    BY DEF IInv, TypeInv, PlaceInv, TypeOK
  <1>. QED BY <1>1, Invariant, PTL

-----------------------------------------------------------------------------
(* PqVerify implements PqVerdict: each action is its Begin, its Answer or  *)
(* a step of the world.                                                    *)

\* PqVerdict means by the inputs and their checks what PqVerify means.
LEMMA SameInputs ==
  /\ Promise!ArgumentsOk <=> ArgumentsOk
  /\ \A c : Promise!SubkeyPasses(c) <=> SubkeyPasses(c)
  /\ \A c, t : Promise!StepsPass(c, t) <=> StepsPass(c, t)
  /\ \A c, x, a : Promise!Carries(c, x, a) <=> Carries(c, x, a)
  /\ \A c, x, h : Promise!Instants(c, x, h) = Instants(c, x, h)
  <1>1. Promise!ArgumentsOk <=> ArgumentsOk
    BY DEF Promise!ArgumentsOk, ArgumentsOk, Promise!Exclusive, Exclusive
  <1>2. \A c : Promise!SubkeyPasses(c) <=> SubkeyPasses(c)
    BY DEF Promise!SubkeyPasses, SubkeyPasses
  <1>3. ASSUME NEW c, NEW t PROVE Promise!StepsPass(c, t) <=> StepsPass(c, t)
    <2>1. Promise!BundleVerifies(c.bundle, c.root, t) <=> BundleVerifies(c.bundle, c.root, t)
      BY DEF Promise!BundleVerifies, BundleVerifies, Promise!QuoteVerifies, QuoteVerifies,
             Promise!DualVerifies, DualVerifies
    <2>. QED BY <2>1 DEF Promise!StepsPass, StepsPass
  <1>4. \A c, x : Promise!HeaderSource(c, x) = HeaderSource(c, x)
    BY DEF Promise!HeaderSource, HeaderSource
  <1>5. \A c, x, a : Promise!Carries(c, x, a) <=> Carries(c, x, a)
    BY <1>4 DEF Promise!Carries, Carries
  <1>6. \A bt, ov : Promise!AgreedInstants(bt, ov) = AgreedInstants(bt, ov)
    BY DEF Promise!AgreedInstants, AgreedInstants
  <1>7. \A c, x, h : Promise!Instants(c, x, h) = Instants(c, x, h)
    BY <1>4, <1>6 DEF Promise!Instants, Instants
  <1>. QED BY <1>1, <1>2, <1>3, <1>5, <1>7

\* A refusal has its cause.
LEMMA RefuseIsAnswer ==
  ASSUME IInv, Bail, pc # "idle", Promise!Refusable
  PROVE  Promise!Answer
  BY DEF Bail, Finish, Promise!Answer, Promise!Error, Error, files, world

LEMMA NowIsSince == ASSUME IInv PROVE since \in since .. now
  BY DEF IInv, TypeInv

LEMMA RejectArgumentsRefines == ASSUME IInv, RejectArguments PROVE Promise!Answer
  <1>1. pc = "ots" /\ ~ArgumentsOk /\ Bail /\ cmd.ots # Absent
    BY DEF IInv, PlaceInv, RejectArguments
  <1>2. Promise!Refusable
    BY SameInputs, <1>1, NowIsSince DEF Promise!Refusable, Promise!FullCheck, Promise!Verifies,
       Promise!PartiallyVerifies, Promise!ArgumentsOk, ArgumentsOk
  <1>. QED BY <1>1, <1>2, RefuseIsAnswer

LEMMA OpenProofRefines ==
  ASSUME IInv, OpenProof PROVE Promise!Answer \/ UNCHANGED Promise!vars
  <1>1. CASE ots.start_digest # cmd.bundle /\ Bail
    <2>1. pc = "ots" /\ cmd.ots # Absent
      BY DEF IInv, PlaceInv, OpenProof
    <2>2. Promise!Refusable
      BY <1>1, <2>1, NowIsSince DEF Promise!Refusable, Promise!FullCheck, Promise!Verifies,
         Promise!PartiallyVerifies, Promise!Anchored
    <2>. QED BY <1>1, <2>1, <2>2, RefuseIsAnswer
  <1>2. CASE ~(ots.start_digest # cmd.bundle /\ Bail)
    BY <1>2 DEF OpenProof, Promise!vars, files, world
  <1>. QED BY <1>1, <1>2

\* Offline, a block that is missing or of another root is so on every chain.
LEMMA MatchAnchorRefines ==
  ASSUME IInv, MatchAnchor PROVE Promise!Answer \/ UNCHANGED Promise!vars
  <1>1. CASE ~Carries(cmd, chain, ots.bitcoin[k]) /\ Bail
    <2>1. pc = "anchors" /\ cmd.ots # Absent /\ ots.bitcoin # << >> /\ k \in DOMAIN ots.bitcoin
      BY DEF IInv, PlaceInv, MatchAnchor
    <2>2. CASE cmd.esplora
      BY <1>1, <2>1, <2>2, RefuseIsAnswer
         DEF Promise!Refusable, Promise!FullCheck, Promise!ReadsNetwork
    <2>3. CASE ~cmd.esplora
      <3>1. ~Promise!Anchored
        BY SameInputs, <1>1, <2>1, <2>3, OfflineSource DEF Promise!Anchored
      <3>2. Promise!Refusable
        BY <2>1, <3>1, NowIsSince DEF Promise!Refusable, Promise!FullCheck, Promise!Verifies,
           Promise!PartiallyVerifies
      <3>. QED BY <1>1, <2>1, <3>2, RefuseIsAnswer
    <2>. QED BY <2>2, <2>3
  <1>2. CASE ~(~Carries(cmd, chain, ots.bitcoin[k]) /\ Bail)
    BY <1>2 DEF MatchAnchor, Promise!vars, files, world
  <1>. QED BY <1>1, <1>2

LEMMA SourceFailsRefines == ASSUME IInv, SourceFails PROVE Promise!Answer
  <1>1. pc = "anchors" /\ cmd.ots # Absent /\ cmd.esplora /\ Bail
    BY DEF IInv, PlaceInv, SourceFails
  <1>. QED BY <1>1, RefuseIsAnswer DEF Promise!Refusable, Promise!FullCheck, Promise!ReadsNetwork

\* Two earliest heights of one proof are one height.
LEMMA EarliestUnique ==
  ASSUME NEW p, IsProof(p), NEW g, NEW h,
         \E i \in DOMAIN p.bitcoin : p.bitcoin[i].height = g,
         \A i \in DOMAIN p.bitcoin : g <= p.bitcoin[i].height,
         \E i \in DOMAIN p.bitcoin : p.bitcoin[i].height = h,
         \A i \in DOMAIN p.bitcoin : h <= p.bitcoin[i].height
  PROVE  g = h /\ g \in Nat
  <1>1. ASSUME NEW i \in DOMAIN p.bitcoin PROVE p.bitcoin[i].height \in Nat
    <2>1. p.bitcoin[i] \in Attestations
      BY DEF IsProof
    <2>. QED BY <2>1 DEF Attestations
  <1>2. g <= h /\ h <= g /\ g \in Nat /\ h \in Nat
    BY <1>1
  <1>. QED BY <1>2

LEMMA TakeInstantRefines ==
  ASSUME IInv, TakeInstant PROVE Promise!Answer \/ UNCHANGED Promise!vars
  <1>1. PICK h \in anchors :
          /\ EarliestAnchor(h)
          /\ \/ Instants(cmd, chain, h) = {} /\ Bail
             \/ pc' = "bundle" /\ UNCHANGED <<files, world, k, anchors, pending, result, seen, since, past>>
    BY DEF TakeInstant
  <1>2. /\ pc = "anchors" /\ cmd.ots # Absent /\ ots.bitcoin # << >> /\ IsProof(ots)
        /\ ots.bitcoin \in Seq(Attestations) /\ Len(ots.bitcoin) \in Nat
        /\ k \in 1 .. Len(ots.bitcoin) + 1 /\ k \notin DOMAIN ots.bitcoin
        /\ anchors = {ots.bitcoin[i].height : i \in 1 .. k - 1}
    BY DEF IInv, TypeInv, PlaceInv, TakeInstant, IsProof
  <1>3. DOMAIN ots.bitcoin = 1 .. k - 1
    BY <1>2
  <1>4. CASE Instants(cmd, chain, h) = {} /\ Bail
    <2>1. CASE cmd.esplora
      BY <1>2, <1>4, <2>1, RefuseIsAnswer
         DEF Promise!Refusable, Promise!FullCheck, Promise!ReadsNetwork
    <2>2. CASE ~cmd.esplora
      <3>1. ASSUME NEW t, NEW g, Promise!Verifies(t, g) PROVE FALSE
        <4>1. g = h
          <5>1. /\ \E i \in DOMAIN ots.bitcoin : ots.bitcoin[i].height = h
                /\ \A i \in DOMAIN ots.bitcoin : h <= ots.bitcoin[i].height
            BY <1>1, <1>2, <1>3 DEF EarliestAnchor
          <5>2. /\ \E i \in DOMAIN ots.bitcoin : ots.bitcoin[i].height = g
                /\ \A i \in DOMAIN ots.bitcoin : g <= ots.bitcoin[i].height
            BY <3>1 DEF Promise!Verifies, Promise!Earliest
          <5>. QED BY <1>2, <5>1, <5>2, EarliestUnique
        <4>. QED BY SameInputs, <1>4, <2>2, <3>1, <4>1, OfflineSource DEF Promise!Verifies
      <3>2. Promise!Refusable
        BY <1>2, <3>1, NowIsSince DEF Promise!Refusable, Promise!FullCheck, Promise!PartiallyVerifies
      <3>. QED BY <1>2, <1>4, <3>2, RefuseIsAnswer
    <2>. QED BY <2>1, <2>2
  <1>5. CASE pc' = "bundle" /\ UNCHANGED <<files, world, k, anchors, pending, result, seen, since, past>>
    BY <1>2, <1>5 DEF Promise!vars, files, world
  <1>. QED BY <1>1, <1>4, <1>5

\* What step 1 returned is the only instant an answer may have.
LEMMA Step1DoneRefuses ==
  ASSUME IInv, Step1Done, cmd.ots # Absent,
         ~(StepsPass(cmd, instant) /\ Promise!SubkeyPart)
  PROVE  Promise!Refusable
  <1>. USE DEF Promise!Refusable, Promise!FullCheck, Promise!ReadsNetwork
  <1>1. CASE cmd.esplora
    BY <1>1
  <1>2. CASE ~cmd.esplora /\ pending
    <2>1. ots.bitcoin = << >> /\ instant \in since .. now
      BY <1>2 DEF Step1Done
    <2>. QED BY SameInputs, <2>1 DEF Promise!Verifies, Promise!PartiallyVerifies, Promise!Anchored
  <1>3. CASE ~cmd.esplora /\ ~pending
    <2>1. /\ ots.bitcoin # << >>
          /\ \E i \in DOMAIN ots.bitcoin : ots.bitcoin[i].height = height
          /\ \A i \in DOMAIN ots.bitcoin : height <= ots.bitcoin[i].height
      BY <1>3 DEF Step1Done
    <2>2. PICK c \in seen : instant \in Instants(cmd, c, height)
      BY <1>3 DEF Step1Done
    <2>3. IsProof(ots)
      BY DEF IInv, TypeInv
    <2>4. ASSUME NEW t, NEW g, Promise!Verifies(t, g) PROVE FALSE
      <3>1. g = height
        BY <2>1, <2>3, <2>4, EarliestUnique DEF Promise!Verifies, Promise!Earliest
      <3>2. PICK d \in seen : t \in Instants(cmd, d, height)
        BY SameInputs, <2>4, <3>1 DEF Promise!Verifies
      <3>3. Instants(cmd, c, height) = Instants(cmd, d, height)
        BY <1>3, OfflineSource
      <3>4. t = instant
        BY <2>2, <3>2, <3>3, InstantUnique
      <3>. QED BY SameInputs, <2>4, <3>4 DEF Promise!Verifies
    <2>. QED BY <2>1, <2>4, NowIsSince DEF Promise!PartiallyVerifies
  <1>. QED BY <1>1, <1>2, <1>3

LEMMA Step1DoneAccepts ==
  ASSUME IInv, Step1Done, cmd.ots # Absent, StepsPass(cmd, instant), Promise!SubkeyPart,
         pc # "idle", Report(pending, instant, height), UNCHANGED <<files, world, step1, seen, since>>
  PROVE  Promise!Answer
  <1>1. result' = [verdict |-> IF pending THEN "partial" ELSE "verified",
                   instant |-> instant, height |-> height]
    BY DEF Report, Finish
  <1>2. IsProof(ots)
    BY DEF IInv, TypeInv
  <1>3. CASE pending
    BY SameInputs, <1>1, <1>3
       DEF Report, Finish, Step1Done, Opened, ArgumentsOk, Promise!Answer, Promise!Acceptable,
           Promise!FullCheck, Promise!PartiallyVerifies, Promise!ArgumentsOk, files, world
  <1>4. CASE ~pending
    <2>1. Promise!Anchored
      <3>1. DOMAIN ots.bitcoin = 1 .. Len(ots.bitcoin)
        BY <1>2 DEF IsProof
      <3>. QED BY SameInputs, <1>4, <3>1 DEF Step1Done, Opened, Matched, Promise!Anchored
    <2>2. Promise!Verifies(instant, height)
      BY SameInputs, <1>4, <2>1
         DEF Step1Done, Opened, ArgumentsOk, Promise!Verifies, Promise!ArgumentsOk, Promise!Earliest
    <2>. QED BY <1>1, <1>4, <2>2 DEF Report, Finish, Promise!Answer, Promise!Acceptable,
             Promise!FullCheck, files, world
  <1>. QED BY <1>3, <1>4

LEMMA CheckBundleRefines ==
  ASSUME IInv, CheckBundle PROVE Promise!Answer \/ UNCHANGED Promise!vars
  <1>1. pc = "bundle" /\ cmd.ots # Absent /\ Step1Done
    BY DEF IInv, PlaceInv, CheckBundle
  <1>2. CASE ~StepsPass(cmd, instant) /\ Bail
    BY <1>1, <1>2, Step1DoneRefuses, RefuseIsAnswer
  <1>3. CASE /\ StepsPass(cmd, instant) /\ cmd.verb = "verify"
             /\ Report(pending, instant, height) /\ UNCHANGED <<files, world, step1, seen, since>>
    BY <1>1, <1>3, Step1DoneAccepts DEF Promise!SubkeyPart
  <1>4. CASE pc' = "subkey" /\ UNCHANGED <<files, world, step1, result, seen, since, past>>
    BY <1>1, <1>4 DEF Promise!vars, files, world
  <1>. QED BY <1>2, <1>3, <1>4 DEF CheckBundle

LEMMA CheckSubkeyRefines == ASSUME IInv, CheckSubkey PROVE Promise!Answer
  <1>1. /\ pc = "subkey" /\ cmd.verb = "verify-subkey"
        /\ cmd.ots = Absent => instant = Absent /\ height = Absent /\ pending = FALSE
        /\ cmd.ots # Absent => Step1Done /\ StepsPass(cmd, instant)
    BY DEF IInv, PlaceInv, CheckSubkey
  <1>2. CASE ~SubkeyPasses(cmd) /\ Bail
    <2>1. ~Promise!SubkeyPart
      BY SameInputs, <1>1, <1>2 DEF Promise!SubkeyPart
    <2>2. Promise!Refusable
      BY <1>1, <2>1, Step1DoneRefuses DEF Promise!Refusable, Promise!FullCheck
    <2>. QED BY <1>1, <1>2, <2>2, RefuseIsAnswer
  <1>3. CASE /\ SubkeyPasses(cmd) /\ Report(pending, instant, height)
             /\ UNCHANGED <<files, world, step1, seen, since>>
    <2>1. Promise!SubkeyPart
      BY SameInputs, <1>3 DEF Promise!SubkeyPart
    <2>2. CASE cmd.ots # Absent
      BY <1>1, <1>3, <2>1, <2>2, Step1DoneAccepts
    <2>3. CASE cmd.ots = Absent
      BY <1>1, <1>3, <2>1, <2>3 DEF Report, Finish, Promise!Answer, Promise!Acceptable,
         Promise!FullCheck, files, world
    <2>. QED BY <2>2, <2>3
  <1>. QED BY <1>2, <1>3 DEF CheckSubkey

LEMMA WorldRefines ==
  ASSUME IInv, Tick \/ Reorganise \/ Upgrade PROVE Promise!World
  <1>1. now \in Nat /\ chain \in Chains /\ (pc # "idle" => chain \in seen)
    BY DEF IInv, TypeInv
  <1>2. CASE Tick
    BY <1>1, <1>2 DEF Tick, Promise!World, files, step1
  <1>3. CASE Reorganise
    BY <1>1, <1>3 DEF Reorganise, Promise!World, files, step1
  <1>4. CASE Upgrade
    BY <1>1, <1>4 DEF Upgrade, Promise!World, world, step1
  <1>. QED BY <1>2, <1>3, <1>4

\* The stepwise commands keep the promise of PqVerdict.
THEOREM Implements == Spec => PromiseSpec
  <1>1. Init => Promise!Init
    BY DEF Init, Promise!Init, NoAnswer
  <1>2. ASSUME IInv, [Next]_vars PROVE [Promise!Next]_(Promise!vars)
    <2>1. CASE Begin
      BY <2>1 DEF Begin, Promise!Next, Promise!Begin, NoAnswer, files, world
    <2>2. CASE UNCHANGED vars
      BY <2>2 DEF vars, Promise!vars, files, world
    <2>. QED BY <1>2, <2>1, <2>2, RejectArgumentsRefines, OpenProofRefines, MatchAnchorRefines,
             SourceFailsRefines, TakeInstantRefines, CheckBundleRefines, CheckSubkeyRefines,
             WorldRefines DEF Next, Promise!Next
  <1>. QED BY <1>1, <1>2, Invariant, PTL DEF Spec, PromiseSpec, Promise!Spec
-----------------------------------------------------------------------------
(* Offline, what a command answers for an anchored proof is a function of  *)
(* its files: PqVerdict leaves one answer, so every run gives that one.    *)

\* t is the instant and h the height of a VERIFIED answer for proof o, offline.
Justified(o, t, h) ==
  /\ ArgumentsOk /\ o.start_digest = cmd.bundle /\ o.bitcoin # << >>
  /\ \A i \in DOMAIN o.bitcoin : Carries(cmd, << >>, o.bitcoin[i])
  /\ \E i \in DOMAIN o.bitcoin : o.bitcoin[i].height = h
  /\ \A i \in DOMAIN o.bitcoin : h <= o.bitcoin[i].height
  /\ t \in Instants(cmd, << >>, h)
  /\ StepsPass(cmd, t)
  /\ cmd.verb = "verify-subkey" => SubkeyPasses(cmd)

IsAnswer(r) == r = [verdict |-> r.verdict, instant |-> r.instant, height |-> r.height]

TheAnswer(o, r) ==
  /\ IsAnswer(r)
  /\ \/ r.verdict = "verified" /\ Justified(o, r.instant, r.height)
     \/ r = Error /\ \A t, h : ~Justified(o, t, h)

AnswerFits(o, r) ==
  r.verdict = "verified" /\ r.height # Absent =>
    ArgumentsOk /\ (~cmd.esplora => Justified(o, r.instant, r.height))

RecordFits(p) ==
  /\ p = [ots |-> p.ots, answer |-> p.answer]
  /\ p.ots # Absent => IsProof(p.ots)
  /\ p.ots # Absent /\ p.ots.bitcoin # << >> => TheAnswer(p.ots, p.answer)

PastInv ==
  /\ AnswerFits(ots, result)
  /\ ~cmd.esplora => \A p \in past : RecordFits(p)

LEMMA JustifiedUnique ==
  ASSUME NEW o, IsProof(o), NEW t, NEW h, Justified(o, t, h), NEW u, NEW g, Justified(o, u, g)
  PROVE  t = u /\ h = g
  <1>1. h = g
    <2>1. /\ \E i \in DOMAIN o.bitcoin : o.bitcoin[i].height = h
          /\ \A i \in DOMAIN o.bitcoin : h <= o.bitcoin[i].height
      BY DEF Justified
    <2>2. /\ \E i \in DOMAIN o.bitcoin : o.bitcoin[i].height = g
          /\ \A i \in DOMAIN o.bitcoin : g <= o.bitcoin[i].height
      BY DEF Justified
    <2>. QED BY <2>1, <2>2, EarliestUnique
  <1>. QED BY <1>1, InstantUnique DEF Justified

\* Offline, the chains that were seen play no part in Promise!Verifies.
LEMMA VerifiesIsJustified ==
  ASSUME ~cmd.esplora, NEW c \in seen, NEW t, NEW h
  PROVE  Promise!Verifies(t, h) <=> Justified(ots, t, h)
  <1>1. \A d, a : Carries(cmd, d, a) <=> Carries(cmd, << >>, a)
    BY OfflineSource
  <1>2. \A d : Instants(cmd, d, h) = Instants(cmd, << >>, h)
    BY OfflineSource
  <1>. QED BY <1>1, <1>2, SameInputs
           DEF Promise!Verifies, Promise!Anchored, Promise!Earliest, Promise!SubkeyPart, Justified

Finishes ==
  /\ pc # "idle" /\ pc' = "idle" /\ UNCHANGED <<cmd, ots>>
  /\ past' = past \cup {[ots |-> ots, answer |-> result']} /\ IsAnswer(result')

Quiet ==
  /\ UNCHANGED <<cmd, past>> /\ (result' = result \/ result' = NoAnswer)
  /\ ots' = ots \/ ots.bitcoin = << >>

LEMMA BailFinishes == ASSUME Bail, pc # "idle" PROVE Finishes
  BY DEF Bail, Finish, Finishes, IsAnswer, Error, files

LEMMA ReportFinishes ==
  ASSUME Report(pending, instant, height), UNCHANGED files, pc # "idle" PROVE Finishes
  BY DEF Report, Finish, Finishes, IsAnswer, files

LEMMA FinishesOrQuiet == ASSUME [Next]_vars PROVE Finishes \/ Quiet
  <1>. USE DEF Quiet, files, world, step1
  <1>1. CASE Begin
    BY <1>1 DEF Begin
  <1>2. CASE RejectArguments
    BY <1>2, BailFinishes DEF RejectArguments
  <1>3. CASE OpenProof
    BY <1>3, BailFinishes DEF OpenProof
  <1>4. CASE MatchAnchor
    BY <1>4, BailFinishes DEF MatchAnchor
  <1>5. CASE SourceFails
    BY <1>5, BailFinishes DEF SourceFails
  <1>6. CASE TakeInstant
    BY <1>6, BailFinishes DEF TakeInstant
  <1>7. CASE CheckBundle
    BY <1>7, BailFinishes, ReportFinishes DEF CheckBundle
  <1>8. CASE CheckSubkey
    BY <1>8, BailFinishes, ReportFinishes DEF CheckSubkey
  <1>9. CASE Tick \/ Reorganise \/ Upgrade \/ UNCHANGED vars
    BY <1>9 DEF Tick, Reorganise, Upgrade, vars
  <1>. QED BY <1>1, <1>2, <1>3, <1>4, <1>5, <1>6, <1>7, <1>8, <1>9 DEF Next

\* A step that ends the command is PqVerdict's Answer.
LEMMA FinishesIsAnswer == ASSUME IInv, [Next]_vars, Finishes PROVE Promise!Answer
  <1>1. ~Promise!World /\ ~Begin /\ ~UNCHANGED vars /\ ~UNCHANGED Promise!vars
    BY DEF Finishes, Promise!World, Begin, vars, Promise!vars
  <1>. QED BY <1>1, RejectArgumentsRefines, OpenProofRefines, MatchAnchorRefines,
           SourceFailsRefines, TakeInstantRefines, CheckBundleRefines, CheckSubkeyRefines,
           WorldRefines DEF Next

LEMMA FinishesTheAnswer ==
  ASSUME IInv, [Next]_vars, Finishes, ~cmd.esplora, ots # Absent, ots.bitcoin # << >>
  PROVE  TheAnswer(ots, result')
  <1>1. Promise!Answer /\ IsAnswer(result') /\ pc # "idle"
    BY FinishesIsAnswer DEF Finishes
  <1>2. IsProof(ots) /\ chain \in seen /\ cmd.ots # Absent
    BY <1>1 DEF IInv, TypeInv
  <1>3. CASE Promise!Acceptable(result')
    BY <1>1, <1>2, <1>3, VerifiesIsJustified
       DEF Promise!Acceptable, Promise!FullCheck, Promise!PartiallyVerifies, TheAnswer
  <1>4. CASE result' = Error /\ Promise!Refusable
    <2>1. ASSUME NEW t, NEW h, Justified(ots, t, h) PROVE FALSE
      <3>1. PICK i \in DOMAIN ots.bitcoin : ots.bitcoin[i].height = h
        BY <2>1 DEF Justified
      <3>2. t \in Instants(cmd, chain, h)
        BY <2>1, OfflineSource DEF Justified
      <3>3. ~Promise!Verifies(t, h)
        BY <1>2, <1>4, <3>1, <3>2, SameInputs
           DEF Promise!Refusable, Promise!FullCheck, Promise!ReadsNetwork
      <3>. QED BY <1>2, <2>1, <3>3, VerifiesIsJustified
    <2>. QED BY <1>1, <1>4, <2>1 DEF TheAnswer
  <1>. QED BY <1>1, <1>3, <1>4 DEF Promise!Answer, Promise!Error, Error

\* Only the command line decides what is justified, and it is fixed.
LEMMA JustifiedFixed ==
  ASSUME UNCHANGED cmd
  PROVE  /\ ArgumentsOk' <=> ArgumentsOk
         /\ \A o, t, h : Justified(o, t, h)' <=> Justified(o, t, h)
         /\ \A o, r : TheAnswer(o, r)' <=> TheAnswer(o, r)
  <1>1. \A o, t, h : Justified(o, t, h)' <=> Justified(o, t, h)
    BY DEF Justified, ArgumentsOk
  <1>. QED BY <1>1 DEF TheAnswer, ArgumentsOk, IsAnswer

LEMMA FinishesFits ==
  ASSUME IInv, [Next]_vars, Finishes
  PROVE  /\ AnswerFits(ots, result')
         /\ ~cmd.esplora => RecordFits([ots |-> ots, answer |-> result'])
  <1>1. Promise!Answer /\ chain \in seen /\ (ots # Absent => IsProof(ots))
    BY FinishesIsAnswer DEF Finishes, IInv, TypeInv
  <1>2. Promise!Acceptable(result') \/ result' = Error
    BY <1>1 DEF Promise!Answer, Promise!Error, Error
  <1>3. ASSUME result'.verdict = "verified", result'.height # Absent
        PROVE  Promise!Verifies(result'.instant, result'.height)
    BY <1>2, <1>3 DEF Promise!Acceptable, Error
  <1>4. AnswerFits(ots, result')
    BY <1>1, <1>3, VerifiesIsJustified, SameInputs DEF AnswerFits, Promise!Verifies
  <1>. QED BY <1>1, <1>4, FinishesTheAnswer DEF RecordFits

LEMMA NextPastInv == ASSUME IInv, PastInv, [Next]_vars PROVE PastInv'
  <1>1. cmd' = cmd /\ (Finishes \/ Quiet)
    BY FinishesOrQuiet DEF Finishes, Quiet
  <1>2. AnswerFits(ots, result) /\ (~cmd.esplora => \A p \in past : RecordFits(p))
    BY DEF PastInv
  <1>3. AnswerFits(ots', result')
    <2>1. CASE Finishes
      BY <2>1, FinishesFits DEF Finishes
    <2>2. CASE Quiet /\ result' = NoAnswer
      BY <2>2 DEF AnswerFits, NoAnswer
    <2>3. CASE Quiet /\ result' = result
      BY <1>2, <2>3 DEF AnswerFits, Quiet, Justified
    <2>. QED BY <1>1, <2>1, <2>2, <2>3 DEF Quiet
  <1>4. ~cmd.esplora => \A p \in past' : RecordFits(p)
    <2>1. CASE Finishes
      BY <1>2, <2>1, FinishesFits DEF Finishes
    <2>2. CASE Quiet
      BY <1>2, <2>2 DEF Quiet
    <2>. QED BY <1>1, <2>1, <2>2
  <1>. QED BY <1>1, <1>3, <1>4, JustifiedFixed DEF PastInv, AnswerFits, RecordFits

LEMMA PastInvariant == Spec => []PastInv
  <1>1. Init => PastInv
    BY DEF Init, PastInv, AnswerFits, NoAnswer
  <1>. QED BY <1>1, NextPastInv, Invariant, PTL DEF Spec

\* Offline means for ever: with a header file, two runs on the same anchored
\* proof never differ, whenever they happen (README.md:95-99, main.rs:375-381).
THEOREM Timeless == Spec => []AnchoredAnswersAgree
  <1>1. ASSUME PastInv PROVE AnchoredAnswersAgree
    <2>1. SUFFICES ASSUME ~cmd.esplora, NEW p \in past, NEW q \in past,
                          p.ots = q.ots, p.ots # Absent, p.ots.bitcoin # << >>
                   PROVE  p.answer = q.answer
      BY <1>1 DEF AnchoredAnswersAgree, PastInv, RecordFits
    <2>2. TheAnswer(p.ots, p.answer) /\ TheAnswer(p.ots, q.answer) /\ IsProof(p.ots)
      BY <1>1, <2>1 DEF PastInv, RecordFits
    <2>3. CASE p.answer = Error \/ q.answer = Error
      BY <2>2, <2>3 DEF TheAnswer, Error
    <2>4. CASE p.answer.verdict = "verified" /\ q.answer.verdict = "verified"
      <3>1. Justified(p.ots, p.answer.instant, p.answer.height)
            /\ Justified(p.ots, q.answer.instant, q.answer.height)
        BY <2>2, <2>4 DEF TheAnswer, Error
      <3>. QED BY <2>2, <2>4, <3>1, JustifiedUnique DEF TheAnswer, IsAnswer
    <2>. QED BY <2>2, <2>3, <2>4 DEF TheAnswer
  <1>. QED BY <1>1, PastInvariant, PTL

\* VERIFIED names the earliest block and its time (main.rs:373-398): neither the
\* clock nor --quote-time-unix moves an instant the header file has.
THEOREM InstantIsTheAnchors == Spec => []InstantIsAnchorTime
  <1>1. ASSUME PastInv PROVE InstantIsAnchorTime
    <2>1. SUFFICES ASSUME result.verdict = "verified", result.height # Absent,
                          cmd.headers # Absent
                   PROVE  /\ \A i \in DOMAIN ots.bitcoin : result.height <= ots.bitcoin[i].height
                          /\ result.instant = (IF cmd.headers[result.height].time # Absent
                               THEN cmd.headers[result.height].time ELSE cmd.override)
      BY DEF InstantIsAnchorTime
    <2>2. Justified(ots, result.instant, result.height)
      BY <1>1, <2>1 DEF PastInv, AnswerFits, ArgumentsOk, Exclusive
    <2>3. result.height \in DOMAIN cmd.headers
      BY <2>1, <2>2 DEF Justified, Carries, HeaderSource
    <2>4. result.instant \in AgreedInstants(cmd.headers[result.height].time, cmd.override)
      BY <2>1, <2>2, <2>3 DEF Justified, Instants, HeaderSource
    <2>. QED BY <2>2, <2>4 DEF Justified, AgreedInstants
  <1>. QED BY <1>1, PastInvariant, PTL
-----------------------------------------------------------------------------
(* What was accepted has passed every check.                               *)

AcceptInv ==
  result.verdict \in {"verified", "partial"} /\ cmd.ots # Absent =>
    /\ \E t : StepsPass(cmd, t)
    /\ cmd.verb = "verify-subkey" => SubkeyPasses(cmd)

LEMMA AcceptStep == IInv /\ AcceptInv /\ [Next]_vars => AcceptInv'
  <1>. SUFFICES ASSUME IInv, AcceptInv, [Next]_vars PROVE AcceptInv'
    OBVIOUS
  <1>1. cmd' = cmd
    BY DEF vars, files, Next, Begin, RejectArguments, OpenProof, MatchAnchor, SourceFails, TakeInstant,
           CheckBundle, CheckSubkey, Bail, Tick, Reorganise, Upgrade
  <1>2. CASE result' = result
    BY <1>1, <1>2 DEF AcceptInv, StepsPass, BundleVerifies, QuoteVerifies, DualVerifies, SubkeyPasses
  <1>3. CASE result' = NoAnswer \/ result' = Error
    BY <1>3 DEF AcceptInv, NoAnswer, Error
  <1>4. CASE CheckBundle /\ StepsPass(cmd, instant) /\ cmd.verb = "verify"
    BY <1>1, <1>4 DEF AcceptInv
  <1>5. CASE CheckSubkey /\ SubkeyPasses(cmd)
    <2>1. cmd.ots # Absent => StepsPass(cmd, instant)
      BY <1>5 DEF CheckSubkey, IInv, PlaceInv
    <2>. QED BY <1>1, <1>5, <2>1 DEF AcceptInv
  <1>. QED
    BY <1>2, <1>3, <1>4, <1>5
       DEF vars, step1, Next, Begin, RejectArguments, OpenProof, MatchAnchor, SourceFails, TakeInstant,
           CheckBundle, CheckSubkey, Bail, Finish, Tick, Reorganise, Upgrade

\* While quotes are genuine, nothing of two ceremonies passes as one: the keys,
\* the tree, the signatures and the subkey are those of the attested ceremony
\* (OneCeremony), although no check compares a key with the tree.
THEOREM AcceptedIsOneCeremony ==
  ASSUME GenuineQuotes PROVE Spec => []OneCeremony
  <1>1. Init => AcceptInv
    BY DEF Init, NoAnswer, AcceptInv
  <1>2. IInv /\ AcceptInv => OneCeremony
    <2>. SUFFICES ASSUME IInv, AcceptInv, result.verdict \in {"verified", "partial"}, cmd.ots # Absent
                  PROVE  OneCeremony
      BY DEF OneCeremony
    <2>1. PICK t : StepsPass(cmd, t)
      BY DEF AcceptInv
    <2>2. cmd.bundle.quote.ca = cmd.root /\ cmd.bundle.quote.user_data = cmd.bundle.payload
      BY <2>1 DEF StepsPass, BundleVerifies, QuoteVerifies
    <2>3. /\ cmd.bundle.payload.ml_pk = cmd.bundle.payload.tree
          /\ cmd.bundle.payload.slh_pk = cmd.bundle.payload.tree
      BY <2>2 DEF IInv, TypeInv, GenuineQuotes
    <2>4. /\ cmd.bundle.ml_sig = [by |-> cmd.bundle.payload.ml_pk, over |-> cmd.bundle.payload]
          /\ cmd.bundle.slh_sig = [by |-> cmd.bundle.payload.slh_pk, over |-> cmd.bundle.payload]
      BY <2>1 DEF StepsPass, BundleVerifies, DualVerifies
    <2>5. cmd.verb = "verify-subkey" => cmd.subkey.tree = cmd.bundle.payload.tree
      BY DEF AcceptInv, SubkeyPasses
    <2>. QED BY <2>2, <2>3, <2>4, <2>5 DEF OneCeremony
  <1>. QED BY <1>1, <1>2, AcceptStep, Invariant, PTL DEF Spec
=============================================================================
