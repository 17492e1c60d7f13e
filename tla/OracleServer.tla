---------------------------- MODULE OracleServer ----------------------------
(***************************************************************************)
(* The enclave's HTTP server and its callers.  `serve` takes one           *)
(* connection at a time; `handle` reads it with blocking reads and no      *)
(* timeout, segment by segment, answers and closes.  Callers send at their *)
(* own pace, stop half way, close early or vanish.                         *)
(***************************************************************************)
EXTENDS OracleRoutes

CONSTANTS
  Clients,     \* callers, one connection each
  Tokens,      \* the pieces requests are made of
  Requests,    \* what a caller may mean to send
  SegmentMax,  \* the tokens one read returns at most (`tmp`, 1024 bytes)
  WordSize,    \* 2^64: usize arithmetic wraps in the release build
  Prompt,      \* the callers that keep sending
  None

ASSUME SegmentAssumption == SegmentMax \in Nat \ {0} /\ WordSize \in Nat \ {0}
ASSUME PromptAssumption == Prompt \subseteq Clients
ASSUME RequestsAssumption == Requests \subseteq Seq(Tokens) /\ \A r \in Requests : Len(r) < WordSize
ASSUME NoneAssumption == None \notin Clients

VARIABLES
  request,  \* what each caller means to send
  peer,     \* the caller's end: "new", "open", "shut" (it sent FIN) or "reset"
  sent,     \* tokens of the request on the wire
  reply,    \* the response written to the caller
  backlog,  \* accepted by the kernel, in order
  conn,     \* the connection in `handle`
  pc,       \* "accept", "head", "body" or "write"
  taken,    \* tokens of each connection that read() has returned
  buf,      \* `buf`
  headEnd,  \* `header_end`
  need      \* `need`

callers == <<request, peer, sent>>
local   == <<buf, headEnd, need>>
vars    == <<callers, reply, backlog, conn, pc, taken, local>>

Init ==
  /\ request \in [Clients -> Requests]
  /\ peer = [c \in Clients |-> "new"] /\ sent = [c \in Clients |-> 0]
  /\ reply = [c \in Clients |-> NoReply]
  /\ backlog = << >> /\ conn = None /\ pc = "accept"
  /\ taken = [c \in Clients |-> 0]
  /\ buf = << >> /\ headEnd = 0 /\ need = 0

-----------------------------------------------------------------------------
(* The callers. *)

Connect(c) ==
  /\ peer[c] = "new"
  /\ peer' = [peer EXCEPT ![c] = "open"]
  /\ backlog' = Append(backlog, c)
  /\ UNCHANGED <<request, sent, reply, conn, pc, taken, local>>

Send(c) ==
  /\ peer[c] = "open" /\ reply[c] = NoReply /\ sent[c] < Len(request[c])
  /\ sent' = [sent EXCEPT ![c] = @ + 1]
  /\ UNCHANGED <<request, peer, reply, backlog, conn, pc, taken, local>>

Leave(c, how) ==
  /\ peer[c] = "open" /\ reply[c] = NoReply
  /\ peer' = [peer EXCEPT ![c] = how]
  /\ UNCHANGED <<request, sent, reply, backlog, conn, pc, taken, local>>

\* The caller closes its end: anywhere in the request, or behind it.
Shut(c) == Leave(c, "shut")

\* The connection breaks.
Reset(c) == Leave(c, "reset")

-----------------------------------------------------------------------------
(* The server. *)

\* Mutant: the connection that came last is served first.
AcceptLast ==
  /\ pc = "accept" /\ backlog # << >>
  /\ conn' = Last(backlog) /\ backlog' = Front(backlog)
  /\ pc' = "head" /\ buf' = << >> /\ headEnd' = 0 /\ need' = 0
  /\ UNCHANGED <<callers, reply, taken>>

\* Mutant: the buffer is hoisted out of `handle` and keeps the last request.
AcceptWithOldBuffer ==
  /\ pc = "accept" /\ backlog # << >>
  /\ conn' = Head(backlog) /\ backlog' = Tail(backlog)
  /\ pc' = "head" /\ headEnd' = 0 /\ need' = 0
  /\ UNCHANGED <<callers, reply, taken, buf>>

\* listener.incoming(), and the entry of `handle`.
Accept ==
  /\ pc = "accept" /\ backlog # << >>
  /\ conn' = Head(backlog) /\ backlog' = Tail(backlog)
  /\ pc' = "head" /\ buf' = << >> /\ headEnd' = 0 /\ need' = 0
  /\ UNCHANGED <<callers, reply, taken>>

\* stream.read returns n tokens, whatever the segments they were sent in.
Read(n) ==
  /\ peer[conn] # "reset" /\ n <= sent[conn] - taken[conn]
  /\ buf' = buf \o SubSeq(request[conn], taken[conn] + 1, taken[conn] + n)
  /\ taken' = [taken EXCEPT ![conn] = @ + n]
  /\ UNCHANGED <<callers, reply, backlog, conn>>

\* Mutant: `need` forgets the blank line.
ReadHeadShort(n) ==
  /\ pc = "head" /\ Read(n)
  /\ IF HeadLength(buf') = -1
       THEN UNCHANGED <<pc, headEnd, need>>
       ELSE /\ headEnd' = HeadLength(buf')
            /\ need' = (headEnd' + ContentLength(SubSeq(buf', 1, headEnd'))) % WordSize
            /\ pc' = IF Len(buf') < need' THEN "body" ELSE "write"

\* The outer loop: once the blank line is there, is the body?
ReadHead(n) ==
  /\ pc = "head" /\ Read(n)
  /\ IF HeadLength(buf') = -1
       THEN UNCHANGED <<pc, headEnd, need>>
       ELSE /\ headEnd' = HeadLength(buf')
            /\ need' = (headEnd' + 2 + ContentLength(SubSeq(buf', 1, headEnd'))) % WordSize
            /\ pc' = IF Len(buf') < need' THEN "body" ELSE "write"

\* Mutant: `while buf.len() <= need`.
ReadBodyBeyond(n) ==
  /\ pc = "body" /\ Read(n)
  /\ pc' = IF Len(buf') <= need THEN "body" ELSE "write"
  /\ UNCHANGED <<headEnd, need>>

\* The inner loop.
ReadBody(n) ==
  /\ pc = "body" /\ Read(n)
  /\ pc' = IF Len(buf') < need THEN "body" ELSE "write"
  /\ UNCHANGED <<headEnd, need>>

AtEnd(c) == peer[c] = "shut" /\ taken[c] = sent[c]

\* Mutant: the inner loop ignores a read of 0 bytes.
EndOfHeadOnly ==
  /\ pc = "head" /\ AtEnd(conn)
  /\ headEnd' = Len(buf)
  /\ pc' = "write"
  /\ UNCHANGED <<callers, reply, backlog, conn, taken, buf, need>>

\* read returns 0: without a blank line, the head is all there is.
EndOfInput ==
  /\ pc \in {"head", "body"} /\ AtEnd(conn)
  /\ headEnd' = IF pc = "head" THEN Len(buf) ELSE headEnd
  /\ pc' = "write"
  /\ UNCHANGED <<callers, reply, backlog, conn, taken, buf, need>>

Close(answer) ==
  /\ reply' = [reply EXCEPT ![conn] = answer]
  /\ conn' = None /\ pc' = "accept"
  /\ UNCHANGED <<callers, backlog, taken, local>>

\* Mutant: a failed write ends `handle` and leaves the reply to the next caller.
FailKeepingPlace ==
  /\ pc # "accept" /\ peer[conn] = "reset"
  /\ reply' = [reply EXCEPT ![conn] = Dropped]
  /\ conn' = None
  /\ UNCHANGED <<callers, backlog, taken, local, pc>>

\* A read or a write fails: `serve` logs the error and goes on.
Fail == pc # "accept" /\ peer[conn] = "reset" /\ Close(Dropped)

Respond ==
  /\ pc = "write" /\ peer[conn] # "reset"
  /\ Close(Reply(SubSeq(buf, 1, headEnd), Body(buf, headEnd)))

-----------------------------------------------------------------------------
Serve ==
  \/ Accept
  \/ \E n \in 1 .. SegmentMax : ReadHead(n) \/ ReadBody(n)
  \/ EndOfInput \/ Fail \/ Respond

Call(c) == Connect(c) \/ Send(c)

Next == Serve \/ \E c \in Clients : Call(c) \/ Shut(c) \/ Reset(c)

Spec == Init /\ [][Next]_vars

\* A prompt caller sends its request to the end; if that leaves the server
\* waiting for more, the caller closes its end at last.
GiveUp(c) == sent[c] = Len(request[c]) /\ ~Complete(request[c]) /\ Shut(c)

\* The enclave runs; prompt callers run; about the others nothing is assumed.
Fairness == WF_vars(Serve) /\ \A c \in Prompt : WF_vars(Call(c)) /\ WF_vars(GiveUp(c))

FairSpec == Spec /\ Fairness

-----------------------------------------------------------------------------
\* Shape of the state; a connection is in `handle` exactly while the server is
\* not waiting for one, and it was never answered before.
TypeOK ==
  /\ request \in [Clients -> Requests]
  /\ peer \in [Clients -> {"new", "open", "shut", "reset"}]
  /\ sent \in [Clients -> Nat] /\ taken \in [Clients -> Nat] /\ DOMAIN reply = Clients
  /\ \A c \in Clients : taken[c] <= sent[c] /\ sent[c] <= Len(request[c])
  /\ backlog \in Seq(Clients)
  /\ pc \in {"accept", "head", "body", "write"}
  /\ IF pc = "accept" THEN conn = None ELSE conn \in Clients /\ reply[conn] = NoReply
  /\ headEnd \in Nat

\* Responses are to the request: a caller that sent a complete request is
\* answered what it asked, however reads split its head and its body and
\* whatever the callers before it did (main.rs:180-208).
AnsweredAsAsked ==
  \A c \in Clients :
    reply[c] \notin {NoReply, Dropped} /\ sent[c] = Len(request[c]) /\ Complete(request[c])
      => reply[c] = Meaning(request[c])

\* The oracle signs for a caller only what that very caller posted, in full:
\* a request cut short, a second segment that never comes or an earlier
\* caller's bytes never become a signature (main.rs:85-114, 176-208).
SignedAsPosted ==
  \A c \in Clients :
    reply[c] \in Signatures =>
      \E n \in 1 .. sent[c] :
        LET posted == Body(SubSeq(request[c], 1, n), HeadLength(request[c]))
        IN posted \in DOMAIN SignBodies /\ SignReply(posted) = reply[c]

\* No more is read than a request needs: while the server waits for a caller
\* whose request is complete, some of it is still to come (main.rs:180-201).
NeverWaitsForMore ==
  pc \in {"head", "body"} /\ Complete(request[conn]) => taken[conn] < Len(request[conn])

\* Connections without an answer: the one in `handle`, and those behind it.
waiting == IF pc = "accept" THEN backlog ELSE <<conn>> \o backlog

\* The server keeps what OraclePromise says: in order, one answer each, to a part
\* of the request that was enough or all (main.rs:161-208).
Promise == INSTANCE OraclePromise
PromiseSpec == Promise!Spec

\* Every prompt caller is answered, or lost its connection (main.rs:161-174).
Answered(c) == reply[c] # NoReply
CallersAnswered == \A c \in Prompt : peer[c] # "new" ~> Answered(c)

\* main.rs:6-8: "It stays alive serving the same immutable bundle and signing
\* oracle, which keeps Caution's health check satisfied."  A prompt `GET /health`
\* is answered, whatever the other callers do.
HealthCheckSatisfied ==
  \A c \in Prompt :
    peer[c] # "new" /\ Meaning(request[c]) = Ok("ok") ~> Answered(c)
=============================================================================
