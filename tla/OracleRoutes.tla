---------------------------- MODULE OracleRoutes ----------------------------
(***************************************************************************)
(* What the enclave's HTTP server (crate pq-ceremony, main.rs) makes of a  *)
(* request, as a function of the bytes it has collected.                   *)
(*                                                                         *)
(* A request is a sequence of tokens, the smallest pieces a read may split *)
(* it into that the code tells apart: the method, the pieces of the path   *)
(* (a prefix and then digits), EOL for a line end, one token per header    *)
(* line, and the pieces of the body.  Whatever the match falls through on  *)
(* is a token no route names.                                              *)
(***************************************************************************)
EXTENDS Integers, Sequences, SequencesExt

CONSTANTS
  SubkeyCount,  \* subkeys of the ceremony; their indices are 0 .. SubkeyCount - 1
  Digits,       \* the digits of a path, with their values
  MaxU32,       \* u32::MAX, at which parse::<u32> gives up
  Lengths,      \* header lines content_length recognises, with the value it reads
  SignBodies,   \* bodies that decode, with their [index, message]
  EOL           \* CRLF

ASSUME CountAssumption == SubkeyCount \in Nat
ASSUME BodiesAssumption == << >> \notin DOMAIN SignBodies
ASSUME LengthsAssumption == \A h \in DOMAIN Lengths : h # EOL /\ Lengths[h] \in Nat

BlankLines(buf) == {i \in 1 .. Len(buf) - 1 : buf[i] = EOL /\ buf[i + 1] = EOL}

\* find_subslice(buf, "\r\n\r\n"): how many tokens come before it, or -1.
HeadLength(buf) ==
  IF BlankLines(buf) = {} THEN -1
  ELSE Cardinality({i \in 1 .. Len(buf) : \A j \in BlankLines(buf) : i < j})

\* content_length: the first line of either spelling, 0 without one.
ContentLength(head) ==
  LET i == SelectInSeq(head, LAMBDA t : t \in DOMAIN Lengths)
  IN IF i = 0 THEN 0 ELSE Lengths[head[i]]

\* The bytes after the blank line, as many as were collected.
Body(buf, headLength) == SubSeq(buf, headLength + 3, Len(buf))

\* What a caller has before an answer, and when it gets none.
NoReply == << >>
Dropped == <<0>>

Ok(page)   == <<200, page>>
BadRequest == <<400>>
NotFound   == <<404>>

\* sign_response: a malformed body, an unknown index, or the two signatures.
SignReply(body) ==
  IF body \notin DOMAIN SignBodies THEN BadRequest
  ELSE LET req == SignBodies[body]
       IN IF req.index < SubkeyCount THEN <<200, "signature", req.index, req.message>> ELSE NotFound

Signatures == {SignReply(body) : body \in DOMAIN SignBodies} \ {NotFound}

\* subkey_response for the rest of a path, after every leading "/subkey/".
SubkeyReply(rest) ==
  LET index == FoldLeft(LAMBDA n, d : 10 * n + Digits[d], 0, rest)
  IN IF rest = << >> \/ (\E i \in DOMAIN rest : rest[i] \notin DOMAIN Digits) \/ index > MaxU32
     THEN BadRequest
     ELSE IF index < SubkeyCount THEN <<200, "subkey", index>> ELSE NotFound

Trim(path) ==
  LET i == SelectInSeq(path, LAMBDA t : t # "/subkey/")
  IN IF i = 0 THEN << >> ELSE SubSeq(path, i, Len(path))

Route(method, path, body) ==
  CASE method = "GET" /\ path = <<"/bundle.json">>        -> Ok("bundle")
    [] method = "GET" /\ path \in {<<"/health">>, <<"/">>} -> Ok("ok")
    [] method = "POST" /\ path = <<"/sign">>              -> SignReply(body)
    [] method = "GET" /\ path = <<"/subkeys">>            -> Ok("subkeys")
    [] method = "GET" /\ path[1] = "/subkey/"             -> SubkeyReply(Trim(path))
    [] OTHER                                              -> NotFound

\* The request line of a head; a missing method is "", a missing path is "/".
Reply(head, body) ==
  LET end  == SelectInSeq(head, LAMBDA t : t = EOL)
      line == IF end = 0 THEN head ELSE SubSeq(head, 1, end - 1)
  IN Route(IF line = << >> THEN "" ELSE line[1],
           IF Len(line) < 2 THEN <<"/">> ELSE Tail(line),
           body)

-----------------------------------------------------------------------------
\* A request that says how long it is: its blank line is followed by exactly
\* the announced body.
Complete(request) ==
  LET h == HeadLength(request)
  IN h >= 0 /\ Len(request) = h + 2 + ContentLength(SubSeq(request, 1, h))

\* What a request asks for, read as a whole.
Meaning(request) ==
  LET h == HeadLength(request) IN Reply(SubSeq(request, 1, h), Body(request, h))
=============================================================================
