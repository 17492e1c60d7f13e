----------------------------- MODULE MCPqVerify -----------------------------
(* Small instances of PqVerify for TLC.  A time unit is one hour. *)
EXTENDS PqVerify, TLC

CONSTANTS r1, r2, r3   \* Merkle roots of blocks
BlockRoots == {r1, r2, r3}

\* What ceremony e makes, in an enclave whose quote lives at 1 only.
Payload(e) == [ml_pk |-> e, slh_pk |-> e, tree |-> e]
Sig(e)     == [by |-> e, over |-> Payload(e)]
Measured   == [i \in 0 .. 2 |-> i]
Quote(e)   == [ca |-> "aws", from |-> 1, to |-> 1, pcrs |-> Measured, user_data |-> Payload(e)]
Bundle(e)  == [payload |-> Payload(e), quote |-> Quote(e), expected_pcrs |-> Measured,
               ml_sig |-> Sig(e), slh_sig |-> Sig(e), aws_root |-> "aws"]

Proof(b, list) == [start_digest |-> b, bitcoin |-> list]
At(h, r) == [height |-> h, root |-> r]
Block(r, t) == [root |-> r, time |-> t]

Verify(b, o) ==
  [verb |-> "verify", bundle |-> b, ots |-> o, root |-> "aws", headers |-> Absent,
   esplora |-> FALSE, override |-> Absent, subkey |-> Absent, message |-> Absent]
Subkey(e) == [tree |-> e, sig |-> "signed"]

-----------------------------------------------------------------------------
(* Header files: proofs of one or two blocks, in both orders, of the wrong *)
(* bundle and of a wrong root; files with and without times, one with the  *)
(* times out of order, one without the block; every override.              *)

Lists == {<< >>, <<At(1, r1)>>, <<At(2, r2), At(1, r1)>>, <<At(1, r1), At(2, r3)>>}
Files == {Absent,
          (1 :> Block(r1, 1) @@ 2 :> Block(r2, 5)), (1 :> Block(r1, 4) @@ 2 :> Block(r2, 1)),
          (1 :> Block(r1, Absent) @@ 2 :> Block(r2, 1)), (2 :> Block(r2, 1))}
FileCommands ==
  {[Verify(Bundle(1), Proof(Bundle(e), list)) EXCEPT !.headers = f, !.override = ov] :
     e \in {1, 2}, list \in Lists, f \in Files, ov \in {Absent, 1, 3, 6}}
FileUpgrades == {Proof(Bundle(1), list) : list \in Lists \ {<< >>}}
NoChain == {<< >>}

-----------------------------------------------------------------------------
(* Every mixture of two ceremonies, as a bundle, with a subkey of either.  *)

MixedPayloads == [ml_pk : {1, 2}, slh_pk : {1, 2}, tree : {1, 2}]
MixedBundles ==
  {[Bundle(1) EXCEPT !.payload = p, !.quote = Quote(q),
                     !.ml_sig = [by |-> m[1], over |-> o[1]],
                     !.slh_sig = [by |-> m[2], over |-> o[2]]] :
     p \in MixedPayloads, q \in {1, 2}, m \in {1, 2} \X {1, 2},
     o \in {<<Payload(1), Payload(1)>>, <<Payload(1), Payload(2)>>,
            <<Payload(2), Payload(1)>>, <<Payload(2), Payload(2)>>}}
MixedCommands ==
  {[Verify(b, Proof(b, << >>)) EXCEPT !.verb = v, !.subkey = Subkey(e)] :
     b \in MixedBundles, v \in {"verify", "verify-subkey"}, e \in {1, 2}}
NoUpgrades == {}

\* All that runs without a network.
OfflineCommands == FileCommands \cup MixedCommands

-----------------------------------------------------------------------------
(* The explorer, with a best chain that changes: block 2 is replaced by one *)
(* of another root and time, or by one that carries the proof again.        *)

ReorgChains == {(1 :> Block(r1, 1) @@ 2 :> Block(r2, t2)) : t2 \in {1, 5}}
               \cup {(1 :> Block(r1, 1) @@ 2 :> Block(r3, 4)), (1 :> Block(r1, 1))}
NetLists == {<<At(2, r2)>>, <<At(2, r2), At(1, r1)>>, <<At(2, r2), At(2, r3)>>, << >>}
NetChecks ==
  [verb : {"verify"}, override : {Absent, 1}, subkey : {Absent}, message : {Absent}]
  \cup [verb : {"verify-subkey"}, override : {Absent},
        subkey : {Subkey(1), Subkey(2)}, message : {Absent, "signed"}]
NetCommands ==
  {[Verify(Bundle(1), Proof(Bundle(1), list)) EXCEPT !.esplora = TRUE, !.override = check.override,
      !.verb = check.verb, !.subkey = check.subkey, !.message = check.message] :
     list \in NetLists, check \in NetChecks}
  \cup {[Verify(Bundle(1), Proof(Bundle(1), <<At(2, r2)>>)) EXCEPT
           !.verb = "verify-subkey", !.subkey = Subkey(1), !.root = ca, !.esplora = TRUE,
           !.headers = f] : ca \in {"aws", "other", Absent}, f \in {Absent, 1 :> Block(r1, 1)}}
NetUpgrades == {Proof(Bundle(1), <<At(2, r2)>>)}

\* One attestation, and a quote that is valid at the time of every block: what
\* the explorer says last decides the instant.
LongBundle == [Bundle(1) EXCEPT !.quote = [Quote(1) EXCEPT !.from = 0, !.to = 6]]
RaceCommands ==
  {[Verify(LongBundle, Proof(LongBundle, <<At(2, r2)>>)) EXCEPT !.esplora = TRUE, !.override = ov] :
     ov \in {Absent, 3}}

\* verify-subkey without --ots, on a bundle whose quote is another ceremony's.
LooseCommands ==
  {[Verify([Bundle(1) EXCEPT !.quote = Quote(q)], Absent) EXCEPT
      !.verb = "verify-subkey", !.subkey = Subkey(e), !.message = m, !.root = ca] :
     q \in {1, 2}, e \in {1, 2}, m \in {Absent, "signed", "other"}, ca \in {"aws", Absent}}
AllNet == NetCommands \cup RaceCommands \cup LooseCommands

-----------------------------------------------------------------------------
(* All commands in one run; the best chain moves for those that read it.   *)

AllCommands == OfflineCommands \cup AllNet
AllUpgrades == FileUpgrades \cup NetUpgrades

\* Every mixture is of genuine quotes.
ASSUME QuotesAssumption == GenuineQuotes

Still       == {chosen \in ReorgChains : DOMAIN chosen = {1}}
VerifySpec ==
  /\ Init /\ (~cmd.esplora => chain \in Still)
  /\ [][Next /\ (~cmd.esplora => UNCHANGED chain)]_vars
=============================================================================
