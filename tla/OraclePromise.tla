---------------------------- MODULE OraclePromise ----------------------------
(***************************************************************************)
(* What the enclave's HTTP server promises, whatever its reads return:     *)
(* connections are served one after the other, in the order they came, and *)
(* each gets one answer, given in one step, to a part of its own request   *)
(* that the request itself says is enough, or that is all there will be.   *)
(* OracleServer implements it.                                             *)
(***************************************************************************)
EXTENDS OracleRoutes

CONSTANTS
  Clients,   \* callers, one connection each
  Requests,  \* what a caller may mean to send
  WordSize   \* a length of this size or more is not one

VARIABLES
  request,  \* what each caller means to send
  peer,     \* the caller's end: "new", "open", "shut" or "reset"
  sent,     \* tokens of the request on the wire
  reply,    \* the response written to the caller
  waiting   \* connections without an answer, the first one in service

Init ==
  /\ request \in [Clients -> Requests]
  /\ peer = [c \in Clients |-> "new"] /\ sent = [c \in Clients |-> 0]
  /\ reply = [c \in Clients |-> NoReply]
  /\ waiting = << >>

Connect(c) ==
  /\ peer[c] = "new"
  /\ peer' = [peer EXCEPT ![c] = "open"]
  /\ waiting' = Append(waiting, c)
  /\ UNCHANGED <<request, sent, reply>>

\* An open caller sends a token, closes its end, or breaks the connection.
Act(c) ==
  /\ peer[c] = "open" /\ reply[c] = NoReply
  /\ \/ sent[c] < Len(request[c]) /\ sent' = [sent EXCEPT ![c] = @ + 1] /\ UNCHANGED peer
     \/ peer' \in {[peer EXCEPT ![c] = how] : how \in {"shut", "reset"}} /\ UNCHANGED sent
  /\ UNCHANGED <<request, reply, waiting>>

\* The head and the body it announces are there, or the announced length is
\* none.
Enough(part) ==
  LET h      == HeadLength(part)
      length == h + 2 + ContentLength(SubSeq(part, 1, h))
  IN h # -1 /\ (length <= Len(part) \/ WordSize <= length)

\* Without a blank line the head is all there is.
AnswerTo(part) ==
  LET h == HeadLength(part)
  IN IF h = -1 THEN Reply(part, << >>) ELSE Reply(SubSeq(part, 1, h), Body(part, h))

\* A connection is dropped only if its caller broke it.
Answer ==
  /\ waiting # << >> /\ waiting' = Tail(waiting)
  /\ LET c == Head(waiting)
     IN \/ peer[c] = "reset" /\ reply' = [reply EXCEPT ![c] = Dropped]
        \/ /\ peer[c] # "reset"
           /\ \E n \in 0 .. sent[c] :
                LET part == SubSeq(request[c], 1, n)
                IN /\ Enough(part) \/ (peer[c] = "shut" /\ n = sent[c])
                   /\ reply' = [reply EXCEPT ![c] = AnswerTo(part)]
  /\ UNCHANGED <<request, peer, sent>>

Next == Answer \/ \E c \in Clients : Connect(c) \/ Act(c)

Spec == Init /\ [][Next]_<<request, peer, sent, reply, waiting>>
=============================================================================
