-------------------------- MODULE OracleServerProofs --------------------------
(***************************************************************************)
(* Whatever the callers send, wherever reads split it and whoever leaves   *)
(* when: a complete request is answered what it asks, and a signature is   *)
(* only ever given to a caller that posted it.                             *)
(***************************************************************************)
EXTENDS OracleServer, FiniteSetTheorems, SequenceTheorems, WellFoundedInduction, TLAPS

\* A caller's connection is in the backlog at most once, before it was read.
QueueInv ==
  /\ \A i \in DOMAIN backlog :
       peer[backlog[i]] # "new" /\ reply[backlog[i]] = NoReply /\ taken[backlog[i]] = 0
  /\ \A i, j \in DOMAIN backlog : backlog[i] = backlog[j] => i = j
  /\ pc # "accept" => peer[conn] # "new" /\ \A i \in DOMAIN backlog : backlog[i] # conn
  /\ \A c \in Clients : peer[c] = "new" => reply[c] = NoReply /\ taken[c] = 0

\* `buf` is what was read of this connection, and `handle` has found the first
\* blank line of it, or reached the end of the input.
BufferInv ==
  pc # "accept" =>
    /\ buf = SubSeq(request[conn], 1, taken[conn])
    /\ pc = "head" => HeadLength(buf) = -1
    /\ pc = "body" => HeadLength(buf) # -1 /\ headEnd = HeadLength(buf) /\ Len(buf) < need
    /\ pc = "write" =>
         \/ headEnd = HeadLength(buf) /\ (~(Len(buf) < need) \/ AtEnd(conn))
         \/ HeadLength(buf) = -1 /\ headEnd = Len(buf) /\ AtEnd(conn)
    /\ pc # "head" /\ HeadLength(buf) # -1 =>
         need = (headEnd + 2 + ContentLength(SubSeq(buf, 1, headEnd))) % WordSize

IInv == TypeOK /\ QueueInv /\ BufferInv

-----------------------------------------------------------------------------
(* Prefixes of a request. *)

LEMMA PrefixIs ==
  ASSUME NEW r \in Seq(Tokens), NEW n \in 0 .. Len(r)
  PROVE  /\ SubSeq(r, 1, n) \in Seq(Tokens) /\ Len(SubSeq(r, 1, n)) = n
         /\ \A i \in 1 .. n : SubSeq(r, 1, n)[i] = r[i]
         /\ \A k \in 0 .. n : SubSeq(SubSeq(r, 1, n), 1, k) = SubSeq(r, 1, k)
<1> DEFINE s == SubSeq(r, 1, n)
<1>1. \A i \in 1 .. n : r[i] \in Tokens BY ElementOfSeq
<1>2. s \in Seq(Tokens) /\ Len(s) = n /\ \A i \in 1 .. n : s[i] = r[i]
  BY <1>1, SubSeqProperties
<1>3. ASSUME NEW k \in 0 .. n PROVE SubSeq(s, 1, k) = SubSeq(r, 1, k)
  <2>1. \A i \in 1 .. k : s[i] \in Tokens /\ r[i] \in Tokens /\ s[i] = r[i] BY <1>1, <1>2
  <2>2. /\ SubSeq(s, 1, k) \in Seq(Tokens) /\ Len(SubSeq(s, 1, k)) = k
        /\ \A i \in 1 .. k : SubSeq(s, 1, k)[i] = s[i]
    BY <2>1, SubSeqProperties
  <2>3. /\ SubSeq(r, 1, k) \in Seq(Tokens) /\ Len(SubSeq(r, 1, k)) = k
        /\ \A i \in 1 .. k : SubSeq(r, 1, k)[i] = r[i]
    BY <2>1, SubSeqProperties
  <2> QED BY <2>1, <2>2, <2>3, SeqEqual
<1> QED BY <1>2, <1>3

LEMMA WholePrefix == ASSUME NEW r \in Seq(Tokens) PROVE SubSeq(r, 1, Len(r)) = r
BY SubSeqFull

\* Reading n more tokens extends the prefix by n.
LEMMA PrefixGrows ==
  ASSUME NEW r \in Seq(Tokens), NEW k \in 0 .. Len(r), NEW n \in Nat \ {0}, k + n <= Len(r)
  PROVE  SubSeq(r, 1, k) \o SubSeq(r, k + 1, k + n) = SubSeq(r, 1, k + n)
BY ConcatAdjacentSubSeq

LEMMA HeadLengthType ==
  ASSUME NEW s \in Seq(Tokens) PROVE HeadLength(s) \in -1 .. Len(s)
<1> DEFINE H == {i \in 1 .. Len(s) : \A j \in BlankLines(s) : i < j}
<1>1. Len(s) \in Nat OBVIOUS
<1>2. IsFiniteSet(1 .. Len(s)) /\ Cardinality(1 .. Len(s)) = Len(s) BY <1>1, FS_Interval
<1>3. IsFiniteSet(H) /\ Cardinality(H) <= Len(s) BY <1>2, FS_Subset
<1>4. Cardinality(H) \in Nat BY <1>3, FS_CardinalityType
<1>5. HeadLength(s) = -1 \/ HeadLength(s) = Cardinality(H) BY DEF HeadLength
<1> QED BY <1>1, <1>3, <1>4, <1>5

\* The first blank line of a prefix is the first one of the request.
LEMMA FirstBlankLine ==
  ASSUME NEW r \in Seq(Tokens), NEW n \in 0 .. Len(r), HeadLength(SubSeq(r, 1, n)) # -1
  PROVE  HeadLength(r) = HeadLength(SubSeq(r, 1, n))
<1> DEFINE s == SubSeq(r, 1, n)
           H(q) == {i \in 1 .. Len(q) : \A j \in BlankLines(q) : i < j}
<1>1. s \in Seq(Tokens) /\ Len(s) = n /\ \A i \in 1 .. n : s[i] = r[i] BY PrefixIs
<1>2. Len(r) \in Nat /\ n \in Nat /\ n <= Len(r) OBVIOUS
<1>3. \A i \in 1 .. n - 1 : i \in BlankLines(s) <=> i \in BlankLines(r)
  BY <1>1, <1>2 DEF BlankLines
<1>4. BlankLines(s) \subseteq 1 .. n - 1 /\ BlankLines(r) \subseteq Nat
  BY <1>1, <1>2 DEF BlankLines
<1>5. BlankLines(s) # {} BY DEF HeadLength
<1> HIDE DEF s
<1>6. PICK e \in 1 .. n - 1 : e \in BlankLines(s) /\ e \in BlankLines(r) BY <1>3, <1>4, <1>5
<1>7. ASSUME NEW i PROVE i \in H(r) <=> i \in H(s)
  <2>1. ASSUME i \in H(r) PROVE i \in H(s) BY <2>1, <1>1, <1>2, <1>3, <1>4, <1>6
  <2>2. ASSUME i \in H(s) PROVE i \in H(r)
    <3>1. i \in Nat /\ i < e /\ i \in 1 .. Len(r) BY <2>2, <1>1, <1>2, <1>6
    <3>2. \A j \in BlankLines(r) : i < j
      <4> SUFFICES ASSUME NEW j \in BlankLines(r) PROVE i < j OBVIOUS
      <4>1. CASE j \in 1 .. n - 1 BY <4>1, <2>2, <1>3
      <4>2. CASE j \notin 1 .. n - 1
        <5>1. j \in Nat /\ j >= 1 BY <1>2 DEF BlankLines
        <5> QED BY <4>2, <5>1, <3>1, <1>2
      <4> QED BY <4>1, <4>2
    <3> QED BY <3>1, <3>2
  <2> QED BY <2>1, <2>2
<1>8. H(r) = H(s) BY <1>7
<1>9. HeadLength(r) = Cardinality(H(r)) /\ HeadLength(s) = Cardinality(H(s))
  BY <1>5, <1>6 DEF HeadLength
<1> QED BY <1>8, <1>9 DEF s

\* What the rest of a request brings does not move its head.
LEMMA HeadStays ==
  ASSUME NEW r \in Seq(Tokens), NEW k \in Nat, NEW m \in Nat, k <= m, m <= Len(r),
         HeadLength(SubSeq(r, 1, k)) # -1
  PROVE  /\ HeadLength(SubSeq(r, 1, m)) = HeadLength(SubSeq(r, 1, k))
         /\ \A e \in 0 .. k : SubSeq(SubSeq(r, 1, m), 1, e) = SubSeq(SubSeq(r, 1, k), 1, e)
<1> DEFINE s == SubSeq(r, 1, m)
<1>1. Len(r) \in Nat /\ k \in 0 .. Len(r) /\ m \in 0 .. Len(r) /\ k \in 0 .. m OBVIOUS
<1>2. s \in Seq(Tokens) /\ Len(s) = m /\ SubSeq(s, 1, k) = SubSeq(r, 1, k) BY <1>1, PrefixIs
<1>3. \A e \in 0 .. k : e \in 0 .. m BY <1>1
<1>4. \A e \in 0 .. k : SubSeq(s, 1, e) = SubSeq(SubSeq(r, 1, k), 1, e)
  <2>1. \A e \in 0 .. k : SubSeq(s, 1, e) = SubSeq(r, 1, e) BY <1>1, <1>3, PrefixIs
  <2>2. \A e \in 0 .. k : SubSeq(SubSeq(r, 1, k), 1, e) = SubSeq(r, 1, e) BY <1>1, PrefixIs
  <2> QED BY <2>1, <2>2
<1> HIDE DEF s
<1>5. k \in 0 .. Len(s) /\ HeadLength(SubSeq(s, 1, k)) # -1 BY <1>1, <1>2
<1>6. HeadLength(s) = HeadLength(SubSeq(s, 1, k)) BY <1>2, <1>5, FirstBlankLine
<1> QED BY <1>2, <1>4, <1>6 DEF s

-----------------------------------------------------------------------------
(* The invariant. *)

\* What the type invariant says of one caller's request.
LEMMA RequestType ==
  ASSUME TypeOK, NEW c \in Clients
  PROVE  /\ request[c] \in Seq(Tokens) /\ Len(request[c]) \in Nat /\ Len(request[c]) < WordSize
         /\ sent[c] \in 0 .. Len(request[c]) /\ taken[c] \in 0 .. sent[c]
         /\ taken[c] \in 0 .. Len(request[c])
BY RequestsAssumption DEF TypeOK

LEMMA BufferType ==
  ASSUME TypeOK, BufferInv, pc # "accept"
  PROVE  /\ conn \in Clients /\ buf \in Seq(Tokens) /\ Len(buf) = taken[conn]
         /\ HeadLength(buf) \in -1 .. Len(buf)
<1>1. conn \in Clients BY DEF TypeOK
<1>2. buf = SubSeq(request[conn], 1, taken[conn]) BY DEF BufferInv
<1> QED BY <1>1, <1>2, RequestType, PrefixIs, HeadLengthType

LEMMA InitIInv == Init => IInv
<1> SUFFICES ASSUME Init PROVE IInv OBVIOUS
<1>1. \A c \in Clients : Len(request[c]) \in Nat BY RequestsAssumption DEF Init
<1>2. TypeOK BY <1>1, NoneAssumption DEF Init, TypeOK
<1>3. QueueInv BY DEF Init, QueueInv
<1>4. BufferInv BY DEF Init, BufferInv
<1> QED BY <1>2, <1>3, <1>4 DEF IInv

LEMMA ConnectIInv == ASSUME IInv, NEW c \in Clients, Connect(c) PROVE IInv'
<1> USE DEF IInv
<1>1. TypeOK' BY DEF TypeOK, Connect, callers, local
<1>2. QueueInv'
  <2>1. backlog \in Seq(Clients) /\ Len(backlog) \in Nat BY DEF TypeOK
  <2>2. /\ DOMAIN backlog = 1 .. Len(backlog)
        /\ DOMAIN backlog' = 1 .. Len(backlog) + 1 /\ backlog'[Len(backlog) + 1] = c
        /\ \A i \in DOMAIN backlog : backlog'[i] = backlog[i]
    BY <2>1 DEF Connect
  <2>3. \A i \in DOMAIN backlog : backlog[i] # c BY DEF QueueInv, Connect
  <2>4. /\ pc' = pc /\ conn' = conn /\ reply' = reply /\ taken' = taken
        /\ peer' = [peer EXCEPT ![c] = "open"] /\ peer[c] = "new" /\ peer \in [Clients -> {"new", "open", "shut", "reset"}]
    BY DEF Connect, local, callers, TypeOK
  <2>5. \A b \in Clients : peer'[b] = "new" => peer[b] = "new" BY <2>4
  <2>6. \A b \in Clients : peer[b] # "new" => peer'[b] # "new" BY <2>4
  <2>7. \A i \in DOMAIN backlog : backlog[i] \in Clients BY <2>1, <2>2
  <2>8. \A i \in DOMAIN backlog' :
          peer'[backlog'[i]] # "new" /\ reply'[backlog'[i]] = NoReply /\ taken'[backlog'[i]] = 0
    <3>1. peer'[c] # "new" /\ reply[c] = NoReply /\ taken[c] = 0 BY <2>4 DEF QueueInv
    <3>2. \A i \in DOMAIN backlog :
            peer[backlog[i]] # "new" /\ reply[backlog[i]] = NoReply /\ taken[backlog[i]] = 0
      BY DEF QueueInv
    <3> QED BY <2>1, <2>2, <2>4, <2>6, <2>7, <3>1, <3>2
  <2>9. \A i, j \in DOMAIN backlog' : backlog'[i] = backlog'[j] => i = j
    BY <2>1, <2>2, <2>3 DEF QueueInv
  <2>10. pc' # "accept" => peer'[conn'] # "new" /\ \A i \in DOMAIN backlog' : backlog'[i] # conn'
    <3> SUFFICES ASSUME pc # "accept"
                 PROVE  peer'[conn] # "new" /\ \A i \in DOMAIN backlog' : backlog'[i] # conn
      BY <2>4
    <3>1. conn \in Clients /\ peer[conn] # "new" /\ conn # c /\ \A i \in DOMAIN backlog : backlog[i] # conn
      BY <2>4 DEF QueueInv, TypeOK
    <3> QED BY <2>1, <2>2, <2>6, <3>1
  <2>11. \A b \in Clients : peer'[b] = "new" => reply'[b] = NoReply /\ taken'[b] = 0
    BY <2>4, <2>5 DEF QueueInv
  <2> QED BY <2>8, <2>9, <2>10, <2>11 DEF QueueInv
<1>3. BufferInv'
  BY DEF BufferInv, AtEnd, Connect, callers, local, TypeOK, QueueInv
<1> QED BY <1>1, <1>2, <1>3

LEMMA SendIInv == ASSUME IInv, NEW c \in Clients, Send(c) PROVE IInv'
<1> USE DEF IInv
<1>0. \A b \in Clients : Len(request[b]) \in Nat /\ sent[b] \in 0 .. Len(request[b]) /\ taken[b] \in 0 .. sent[b]
  BY RequestType
<1>1. TypeOK' BY <1>0 DEF TypeOK, Send, local
<1>2. QueueInv' BY DEF QueueInv, TypeOK, Send, local
<1>3. pc # "accept" /\ AtEnd(conn) => AtEnd(conn)' BY DEF AtEnd, Send, TypeOK
<1>4. BufferInv' BY <1>3 DEF BufferInv, Send, local
<1> QED BY <1>1, <1>2, <1>4

LEMMA LeaveIInv ==
  ASSUME IInv, NEW c \in Clients, NEW how \in {"shut", "reset"}, Leave(c, how) PROVE IInv'
<1> USE DEF IInv
<1>1. TypeOK' BY DEF TypeOK, Leave, local
<1>2. QueueInv'
  <2>1. \A b \in Clients : peer'[b] = "new" <=> peer[b] = "new" BY DEF Leave, TypeOK
  <2>2. \A i \in DOMAIN backlog : backlog[i] \in Clients BY DEF TypeOK
  <2>3. pc # "accept" => conn \in Clients BY DEF TypeOK
  <2> QED BY <2>1, <2>2, <2>3 DEF QueueInv, Leave, local
<1>3. pc # "accept" /\ AtEnd(conn) => AtEnd(conn)' BY DEF AtEnd, Leave, TypeOK
<1>4. BufferInv' BY <1>3 DEF BufferInv, Leave, local
<1> QED BY <1>1, <1>2, <1>4

LEMMA AcceptIInv == ASSUME IInv, Accept PROVE IInv'
<1> USE DEF IInv
<1>1. backlog \in Seq(Clients) /\ backlog # << >> /\ Len(backlog) \in Nat \ {0}
  BY DEF TypeOK, Accept
<1>2. /\ Head(backlog) \in Clients /\ Head(backlog) = backlog[1] /\ 1 \in DOMAIN backlog
      /\ Tail(backlog) \in Seq(Clients)
      /\ DOMAIN Tail(backlog) = 1 .. Len(backlog) - 1
      /\ \A i \in DOMAIN Tail(backlog) : Tail(backlog)[i] = backlog[i + 1] /\ i + 1 \in DOMAIN backlog
  BY <1>1
<1>3. reply[Head(backlog)] = NoReply /\ taken[Head(backlog)] = 0 /\ peer[Head(backlog)] # "new"
  BY <1>2 DEF QueueInv
<1>4. TypeOK' BY <1>2, <1>3 DEF TypeOK, Accept, callers
<1>5. QueueInv'
  <2>1. /\ backlog' = Tail(backlog) /\ conn' = Head(backlog) /\ reply' = reply /\ taken' = taken
        /\ peer' = peer /\ request' = request
    BY DEF Accept, callers
  <2>2. \A i \in DOMAIN Tail(backlog) : Tail(backlog)[i] # Head(backlog)
    BY <1>1, <1>2 DEF QueueInv
  <2>3. \A i, j \in DOMAIN Tail(backlog) : Tail(backlog)[i] = Tail(backlog)[j] => i = j
    <3> SUFFICES ASSUME NEW i \in DOMAIN Tail(backlog), NEW j \in DOMAIN Tail(backlog),
                        Tail(backlog)[i] = Tail(backlog)[j]
                 PROVE  i = j
      OBVIOUS
    <3>1. backlog[i + 1] = backlog[j + 1] /\ i + 1 \in DOMAIN backlog /\ j + 1 \in DOMAIN backlog
      BY <1>2
    <3>2. i + 1 = j + 1 BY <3>1 DEF QueueInv
    <3>3. i \in Int /\ j \in Int BY <1>1, <1>2
    <3> QED BY <3>2, <3>3
  <2>4. \A i \in DOMAIN Tail(backlog) :
          /\ peer[Tail(backlog)[i]] # "new" /\ reply[Tail(backlog)[i]] = NoReply
          /\ taken[Tail(backlog)[i]] = 0
    BY <1>2 DEF QueueInv
  <2> QED BY <1>3, <2>1, <2>2, <2>3, <2>4 DEF QueueInv
<1>6. BufferInv'
  <2>1. Len(<< >>) = 0 /\ HeadLength(<< >>) = -1
    <3>1. BlankLines(<< >>) = {} BY DEF BlankLines
    <3> QED BY <3>1 DEF HeadLength
  <2>2. request[Head(backlog)] \in Seq(Tokens) BY <1>2, RequestType
  <2>3. SubSeq(request[Head(backlog)], 1, 0) = << >> BY SubSeqEmpty
  <2> QED BY <1>3, <2>1, <2>3 DEF BufferInv, Accept, callers
<1> QED BY <1>4, <1>5, <1>6

\* Any read returns the next tokens of the connection in `handle`.
LEMMA ReadFacts ==
  ASSUME IInv, NEW n \in 1 .. SegmentMax, pc # "accept", Read(n)
  PROVE  /\ conn \in Clients /\ conn' = conn /\ reply[conn] = NoReply
         /\ request' = request /\ peer' = peer /\ sent' = sent /\ reply' = reply
         /\ taken' \in [Clients -> Nat] /\ taken'[conn] <= sent[conn]
         /\ \A c \in Clients : c # conn => taken'[c] = taken[c]
         /\ buf' = SubSeq(request[conn], 1, taken'[conn])
         /\ buf' \in Seq(Tokens) /\ HeadLength(buf') \in -1 .. Len(buf') /\ Len(buf') \in Nat
         /\ QueueInv'
<1> USE DEF IInv
<1>1. conn \in Clients /\ reply[conn] = NoReply BY DEF TypeOK
<1>2. /\ request' = request /\ peer' = peer /\ sent' = sent /\ reply' = reply
      /\ conn' = conn /\ backlog' = backlog
  BY DEF Read, callers
<1>3. /\ request[conn] \in Seq(Tokens) /\ Len(request[conn]) \in Nat
      /\ sent[conn] \in 0 .. Len(request[conn]) /\ taken[conn] \in 0 .. sent[conn]
  BY <1>1, RequestType
<1>4. n \in Nat \ {0} /\ n <= sent[conn] - taken[conn] BY SegmentAssumption DEF Read
<1>6. \A c \in Clients : c # conn => taken'[c] = taken[c] BY DEF Read, TypeOK
<1>7. taken'[conn] = taken[conn] + n BY <1>1 DEF Read, TypeOK
<1>8. taken'[conn] \in 0 .. sent[conn] /\ taken'[conn] \in 0 .. Len(request[conn])
  BY <1>3, <1>4, <1>7
<1>9. buf = SubSeq(request[conn], 1, taken[conn]) BY DEF BufferInv
<1>10. buf' = SubSeq(request[conn], 1, taken[conn]) \o
              SubSeq(request[conn], taken[conn] + 1, taken[conn] + n)
  BY <1>9 DEF Read
<1>11. taken[conn] \in 0 .. Len(request[conn]) /\ taken[conn] + n <= Len(request[conn])
  BY <1>3, <1>4
<1>12. buf' = SubSeq(request[conn], 1, taken'[conn])
  BY <1>3, <1>4, <1>7, <1>10, <1>11, PrefixGrows
<1>13. buf' \in Seq(Tokens) /\ HeadLength(buf') \in -1 .. Len(buf') /\ Len(buf') \in Nat
  <2>1. buf' \in Seq(Tokens) BY <1>3, <1>8, <1>12, PrefixIs
  <2>2. Len(buf') \in Nat BY <2>1
  <2> QED BY <2>1, <2>2, HeadLengthType
<1>14. taken' \in [Clients -> Nat] BY <1>1, <1>4 DEF Read, TypeOK
<1>15. QueueInv'
  BY <1>1, <1>2, <1>6 DEF QueueInv, TypeOK
<1> QED BY <1>1, <1>2, <1>6, <1>8, <1>12, <1>13, <1>14, <1>15

\* A read inside the buffered head or body leaves a typed state.
LEMMA ReadTypeOK ==
  ASSUME IInv, NEW n \in 1 .. SegmentMax, pc # "accept", Read(n),
         pc' \in {"head", "body", "write"}, headEnd' \in Nat
  PROVE  TypeOK'
<1>1. conn \in Clients /\ conn' = conn /\ backlog' = backlog BY DEF IInv, TypeOK, Read
<1> QED BY <1>1, ReadFacts DEF IInv, TypeOK

LEMMA ReadHeadIInv == ASSUME IInv, NEW n \in 1 .. SegmentMax, ReadHead(n) PROVE IInv'
<1>1. pc = "head" /\ Read(n) BY DEF ReadHead
<1>2. HeadLength(buf') \in -1 .. Len(buf') /\ Len(buf') \in Nat /\ conn' = conn /\ conn \in Clients
      /\ request' = request /\ buf' = SubSeq(request[conn], 1, taken'[conn]) /\ QueueInv'
  BY <1>1, ReadFacts
<1>3. CASE HeadLength(buf') = -1
  <2>1. pc' = "head" /\ headEnd' = headEnd BY <1>1, <1>3 DEF ReadHead
  <2>2. TypeOK' BY <1>1, <2>1, ReadTypeOK DEF IInv, TypeOK
  <2>3. BufferInv' BY <1>2, <1>3, <2>1 DEF BufferInv
  <2> QED BY <1>2, <2>2, <2>3 DEF IInv
<1>4. CASE HeadLength(buf') # -1
  <2>1. /\ headEnd' = HeadLength(buf')
        /\ need' = (headEnd' + 2 + ContentLength(SubSeq(buf', 1, headEnd'))) % WordSize
        /\ pc' = IF Len(buf') < need' THEN "body" ELSE "write"
    BY <1>4 DEF ReadHead
  <2>2. TypeOK' BY <1>1, <1>2, <1>4, <2>1, ReadTypeOK
  <2>4. /\ pc' = "write" => ~(Len(buf') < need')
        /\ pc' = "body" => Len(buf') < need'
    BY <2>1
  <2>5. BufferInv' BY <1>2, <1>4, <2>1, <2>4 DEF BufferInv
  <2> QED BY <1>2, <2>2, <2>5 DEF IInv
<1> QED BY <1>3, <1>4

LEMMA ReadBodyIInv == ASSUME IInv, NEW n \in 1 .. SegmentMax, ReadBody(n) PROVE IInv'
<1>1. pc = "body" /\ Read(n) /\ headEnd' = headEnd /\ need' = need
      /\ pc' = IF Len(buf') < need THEN "body" ELSE "write"
  BY DEF ReadBody
<1>2. HeadLength(buf') \in -1 .. Len(buf') /\ Len(buf') \in Nat /\ conn' = conn /\ conn \in Clients
      /\ request' = request /\ buf' = SubSeq(request[conn], 1, taken'[conn]) /\ QueueInv'
  BY <1>1, ReadFacts
<1>3. TypeOK' BY <1>1, ReadTypeOK DEF IInv, TypeOK
<1>4. HeadLength(buf) # -1 /\ headEnd = HeadLength(buf)
      /\ need = (headEnd + 2 + ContentLength(SubSeq(buf, 1, headEnd))) % WordSize
  BY <1>1 DEF IInv, BufferInv
<1>5. HeadLength(buf') = HeadLength(buf) /\ SubSeq(buf', 1, headEnd) = SubSeq(buf, 1, headEnd)
  <2>1. /\ request[conn] \in Seq(Tokens) /\ Len(request[conn]) \in Nat
        /\ taken[conn] \in 0 .. Len(request[conn]) /\ sent[conn] \in 0 .. Len(request[conn])
    BY <1>2, RequestType DEF IInv
  <2>2. taken'[conn] \in Nat /\ taken'[conn] <= Len(request[conn]) BY <1>1, <1>2, <2>1, ReadFacts
  <2>3. HeadLength(buf) \in 0 .. taken[conn] /\ buf = SubSeq(request[conn], 1, taken[conn])
    BY <1>1, <1>4, BufferType DEF IInv, BufferInv
  <2>4. taken[conn] <= taken'[conn] BY <1>1, <1>2, SegmentAssumption DEF IInv, TypeOK, Read
  <2>5. taken[conn] \in Nat BY <2>1
  <2> QED BY <1>2, <1>4, <2>1, <2>2, <2>3, <2>4, <2>5, HeadStays
<1>7. /\ pc' = "write" => ~(Len(buf') < need)
      /\ pc' = "body" => Len(buf') < need
  BY <1>1
<1>8. BufferInv' BY <1>1, <1>2, <1>4, <1>5, <1>7 DEF BufferInv
<1> QED BY <1>2, <1>3, <1>8 DEF IInv

LEMMA EndOfInputIInv == ASSUME IInv, EndOfInput PROVE IInv'
<1> USE DEF IInv
<1>1. conn \in Clients /\ buf \in Seq(Tokens) /\ Len(buf) \in Nat
  BY BufferType DEF EndOfInput
<1>2. TypeOK' BY <1>1 DEF TypeOK, EndOfInput, callers
<1>3. QueueInv' BY DEF QueueInv, EndOfInput, callers
<1>4. AtEnd(conn)' BY DEF EndOfInput, AtEnd, callers
<1>5. BufferInv' BY <1>4 DEF BufferInv, EndOfInput, callers
<1> QED BY <1>2, <1>3, <1>5

LEMMA CloseIInv ==
  ASSUME IInv, NEW answer, pc # "accept", Close(answer) PROVE IInv'
<1> USE DEF IInv
<1>1. /\ reply' = [reply EXCEPT ![conn] = answer] /\ conn' = None /\ pc' = "accept"
      /\ request' = request /\ peer' = peer /\ sent' = sent /\ taken' = taken
      /\ backlog' = backlog /\ headEnd' = headEnd
  BY DEF Close, callers, local
<1>2. conn \in Clients /\ peer[conn] # "new" /\ \A i \in DOMAIN backlog : backlog[i] # conn
  BY DEF TypeOK, QueueInv
<1>3. TypeOK' BY <1>1 DEF TypeOK
<1>4. QueueInv'
  <2>1. \A c \in Clients : c # conn => reply'[c] = reply[c] BY <1>1 DEF TypeOK
  <2>2. \A i \in DOMAIN backlog : backlog[i] \in Clients BY DEF TypeOK
  <2> QED BY <1>1, <1>2, <2>1, <2>2 DEF QueueInv
<1>5. BufferInv' BY <1>1 DEF BufferInv
<1> QED BY <1>3, <1>4, <1>5

LEMMA NextIInv == IInv /\ [Next]_vars => IInv'
<1> SUFFICES ASSUME IInv, [Next]_vars PROVE IInv' OBVIOUS
<1>1. ASSUME NEW c \in Clients, Call(c) PROVE IInv'
  BY <1>1, ConnectIInv, SendIInv DEF Call
<1>2. ASSUME NEW c \in Clients, Shut(c) \/ Reset(c) PROVE IInv'
  BY <1>2, LeaveIInv DEF Shut, Reset
<1>3. CASE Accept BY <1>3, AcceptIInv
<1>4. ASSUME NEW n \in 1 .. SegmentMax, ReadHead(n) \/ ReadBody(n) PROVE IInv'
  BY <1>4, ReadHeadIInv, ReadBodyIInv
<1>5. CASE EndOfInput BY <1>5, EndOfInputIInv
<1>6. CASE Fail BY <1>6, CloseIInv DEF Fail
<1>7. CASE Respond BY <1>7, CloseIInv DEF Respond
<1>8. CASE UNCHANGED vars
  <2>1. TypeOK' = TypeOK /\ QueueInv' = QueueInv /\ BufferInv' = BufferInv
    BY <1>8 DEF vars, callers, local, TypeOK, QueueInv, BufferInv, AtEnd
  <2> QED BY <2>1 DEF IInv
<1> QED BY <1>1, <1>2, <1>3, <1>4, <1>5, <1>6, <1>7, <1>8 DEF Next, Serve

THEOREM Invariant == Spec => []IInv
BY InitIInv, NextIInv, PTL DEF Spec

\* The shape of the state: one connection is handled at a time, none twice.
THEOREM TypeCorrect == Spec => []TypeOK
<1>1. IInv => TypeOK BY DEF IInv
<1> QED BY <1>1, Invariant, PTL

-----------------------------------------------------------------------------
(* Reading. *)

\* A length that fits a word is not wrapped.
LEMMA NoWrap == ASSUME NEW n \in Nat, NEW w \in Nat \ {0}, n < w PROVE n % w = n
OBVIOUS

\* The server never waits for more of a request than the request says it has
\* (main.rs:180-201).
THEOREM ReadsNoMore == Spec => []NeverWaitsForMore
<1>1. IInv => NeverWaitsForMore
  <2> SUFFICES ASSUME IInv, pc \in {"head", "body"}, Complete(request[conn])
               PROVE  taken[conn] < Len(request[conn])
    BY DEF NeverWaitsForMore
  <2> DEFINE r == request[conn]  h == HeadLength(buf)
  <2>1. conn \in Clients /\ Len(buf) = taken[conn] /\ h \in -1 .. Len(buf)
    BY BufferType DEF IInv
  <2>2. /\ r \in Seq(Tokens) /\ Len(r) \in Nat /\ Len(r) < WordSize
        /\ taken[conn] \in 0 .. Len(r)
    BY <2>1, RequestType DEF IInv
  <2>3. buf = SubSeq(r, 1, taken[conn]) BY DEF IInv, BufferInv
  <2>4. HeadLength(r) >= 0 /\ Len(r) = HeadLength(r) + 2 + ContentLength(SubSeq(r, 1, HeadLength(r)))
    BY DEF Complete
  <2>5. CASE pc = "head"
    <3>1. h = -1 BY <2>5 DEF IInv, BufferInv
    <3>2. ASSUME taken[conn] = Len(r) PROVE FALSE
      <4>1. buf = r BY <2>2, <2>3, <3>2, WholePrefix
      <4> QED BY <2>4, <3>1, <4>1
    <3> QED BY <2>2, <3>2
  <2>6. CASE pc = "body"
    <3>1. /\ h # -1 /\ headEnd = h /\ Len(buf) < need
          /\ need = (headEnd + 2 + ContentLength(SubSeq(buf, 1, headEnd))) % WordSize
      BY <2>6 DEF IInv, BufferInv
    <3>2. HeadLength(r) = h BY <2>2, <2>3, <3>1, FirstBlankLine
    <3>3. SubSeq(buf, 1, h) = SubSeq(r, 1, h) BY <2>1, <2>2, <2>3, <3>1, PrefixIs
    <3>4. need = Len(r) % WordSize BY <2>4, <3>1, <3>2, <3>3
    <3>5. need = Len(r) BY <2>2, <3>4, SegmentAssumption, NoWrap
    <3> QED BY <2>1, <3>1, <3>5
  <2> QED BY <2>5, <2>6
<1> QED BY <1>1, Invariant, PTL

-----------------------------------------------------------------------------
(* The replies. *)

LEMMA SubkeyReplies ==
  ASSUME NEW rest
  PROVE  SubkeyReply(rest) \in {BadRequest, NotFound} \/ \E i : SubkeyReply(rest) = <<200, "subkey", i>>
<1> DEFINE index == FoldLeft(LAMBDA n, d : 10 * n + Digits[d], 0, rest)
<1>1. SubkeyReply(rest) \in {BadRequest, NotFound, <<200, "subkey", index>>} BY DEF SubkeyReply
<1> QED BY <1>1

\* Only the route of `POST /sign` signs, and only the body it was given.
LEMMA OnlySignSigns ==
  ASSUME NEW method, NEW path, NEW body, Route(method, path, body) \in Signatures
  PROVE  body \in DOMAIN SignBodies /\ SignReply(body) = Route(method, path, body)
<1> DEFINE route == Route(method, path, body)
<1>1. PICK b \in DOMAIN SignBodies : route = SignReply(b) /\ route # NotFound BY DEF Signatures
<1>2. route = <<200, "signature", SignBodies[b].index, SignBodies[b].message>>
  BY <1>1 DEF SignReply
<1>3. route \notin {Ok("bundle"), Ok("ok"), Ok("subkeys"), NotFound, BadRequest}
  BY <1>2 DEF Ok, NotFound, BadRequest
<1>4. route # SubkeyReply(Trim(path))
  BY <1>2, SubkeyReplies DEF NotFound, BadRequest
<1>5. route = SignReply(body) BY <1>3, <1>4 DEF Route
<1> QED BY <1>3, <1>5 DEF SignReply

LEMMA ReplyRoutes ==
  ASSUME NEW head, NEW body
  PROVE  \E method, path : Reply(head, body) = Route(method, path, body)
<1> DEFINE end  == SelectInSeq(head, LAMBDA t : t = EOL)
           line == IF end = 0 THEN head ELSE SubSeq(head, 1, end - 1)
           method == IF line = << >> THEN "" ELSE line[1]
           path == IF Len(line) < 2 THEN <<"/">> ELSE Tail(line)
<1>1. Reply(head, body) = Route(method, path, body) BY DEF Reply
<1> QED BY <1>1

\* What was read when the response is written.
LEMMA RespondRight ==
  ASSUME IInv, Respond
  PROVE  LET r == request[conn]
         IN /\ sent[conn] = Len(r) /\ Complete(r) => reply'[conn] = Meaning(r)
            /\ reply'[conn] \in Signatures =>
                 \E n \in 1 .. sent[conn] :
                   LET posted == Body(SubSeq(r, 1, n), HeadLength(r))
                   IN posted \in DOMAIN SignBodies /\ SignReply(posted) = reply'[conn]
<1> DEFINE r == request[conn]  n == taken[conn]
<1> USE DEF IInv
<1>1. /\ conn \in Clients /\ buf = SubSeq(r, 1, n) /\ buf \in Seq(Tokens) /\ Len(buf) = n
      /\ reply'[conn] = Reply(SubSeq(buf, 1, headEnd), Body(buf, headEnd)) /\ headEnd \in Nat
  BY BufferType DEF Respond, Close, BufferInv, TypeOK
<1>2. r \in Seq(Tokens) /\ Len(r) \in Nat /\ Len(r) < WordSize /\ n \in Nat /\ sent[conn] \in Nat
      /\ n <= sent[conn] /\ n \in 0 .. Len(r)
  BY <1>1, RequestType
<1>3. HeadLength(buf) # -1 => HeadLength(r) = HeadLength(buf) BY <1>1, <1>2, FirstBlankLine
<1>4. n = Len(r) => buf = r BY <1>1, <1>2, WholePrefix
<1>5. \/ /\ headEnd = HeadLength(buf) /\ headEnd = HeadLength(r) /\ HeadLength(buf) # -1
         /\ ~(n < need) \/ AtEnd(conn)
         /\ need = (headEnd + 2 + ContentLength(SubSeq(buf, 1, headEnd))) % WordSize
      \/ HeadLength(buf) = -1 /\ headEnd = Len(buf) /\ AtEnd(conn)
  BY <1>1, <1>3 DEF Respond, BufferInv
<1>6. HeadLength(r) \in -1 .. Len(r) /\ HeadLength(buf) \in -1 .. n
  BY <1>1, <1>2, HeadLengthType
<1>7. ASSUME sent[conn] = Len(r), Complete(r) PROVE reply'[conn] = Meaning(r)
  <2>1. buf = r
    <3>1. CASE AtEnd(conn) BY <1>4, <1>7, <3>1 DEF AtEnd
    <3>2. CASE ~AtEnd(conn)
      <4>1. SubSeq(buf, 1, headEnd) = SubSeq(r, 1, headEnd) BY <1>1, <1>2, <1>5, <1>6, <3>2, PrefixIs
      <4>2. need = Len(r) % WordSize BY <1>5, <1>7, <3>2, <4>1 DEF Complete
      <4>3. need = Len(r) BY <1>2, <4>2, SegmentAssumption, NoWrap
      <4> QED BY <1>2, <1>4, <1>5, <3>2, <4>3
    <3> QED BY <3>1, <3>2
  <2>2. headEnd = HeadLength(r) BY <1>5, <1>7, <2>1 DEF Complete
  <2> QED BY <1>1, <2>1, <2>2 DEF Meaning
<1>8. ASSUME reply'[conn] \in Signatures
      PROVE \E k \in 1 .. sent[conn] :
              LET posted == Body(SubSeq(r, 1, k), HeadLength(r))
              IN posted \in DOMAIN SignBodies /\ SignReply(posted) = reply'[conn]
  <2>1. Body(buf, headEnd) \in DOMAIN SignBodies /\ SignReply(Body(buf, headEnd)) = reply'[conn]
    BY <1>1, <1>8, ReplyRoutes, OnlySignSigns
  <2>2. Body(buf, headEnd) # << >> BY <2>1, BodiesAssumption
  <2>3. headEnd + 3 <= n BY <1>1, <1>2, <2>2 DEF Body
  <2>4. headEnd = HeadLength(r) BY <1>1, <1>5, <2>3
  <2>5. n \in 1 .. sent[conn] BY <1>1, <1>2, <2>3
  <2> QED BY <1>1, <2>1, <2>4, <2>5
<1> QED BY <1>7, <1>8

\* Every other step leaves the callers that have a reply alone.
LEMMA ReplyStays ==
  ASSUME IInv, [Next]_vars, ~Respond, NEW c \in Clients
  PROVE  /\ request'[c] = request[c]
         /\ reply'[c] = reply[c] \/ reply'[c] = Dropped
         /\ reply[c] # NoReply => reply'[c] = reply[c] /\ sent'[c] = sent[c]
<1>1. pc # "accept" => conn \in Clients /\ reply[conn] = NoReply BY DEF IInv, TypeOK
<1>2. ASSUME NEW b \in Clients, Call(b) \/ Shut(b) \/ Reset(b)
      PROVE  request' = request /\ reply' = reply /\ (reply[c] # NoReply => sent'[c] = sent[c])
  BY <1>2 DEF Call, Connect, Send, Shut, Reset, Leave, callers, IInv, TypeOK
<1>3. ASSUME NEW n \in 1 .. SegmentMax, ReadHead(n) \/ ReadBody(n)
      PROVE  request' = request /\ reply' = reply /\ sent' = sent
  BY <1>3 DEF ReadHead, ReadBody, Read, callers
<1>4. ASSUME Accept \/ EndOfInput \/ UNCHANGED vars
      PROVE  request' = request /\ reply' = reply /\ sent' = sent
  BY <1>4 DEF Accept, EndOfInput, vars, callers
<1>5. CASE Fail
  <2>1. /\ reply' = [reply EXCEPT ![conn] = Dropped] /\ pc # "accept"
        /\ request' = request /\ sent' = sent
    BY <1>5 DEF Fail, Close, callers
  <2> QED BY <1>1, <2>1 DEF IInv, TypeOK
<1> QED BY <1>2, <1>3, <1>4, <1>5 DEF Next, Serve

\* What `Respond` does to the caller it answers and to the others.
LEMMA RespondOthers ==
  ASSUME IInv, Respond
  PROVE  /\ request' = request /\ sent' = sent
         /\ \A c \in Clients : c # conn => reply'[c] = reply[c]
BY DEF Respond, Close, callers, IInv, TypeOK

LEMMA NoSignature == NoReply \notin Signatures /\ Dropped \notin Signatures
<1>1. ASSUME NEW b \in DOMAIN SignBodies, SignReply(b) # NotFound
      PROVE  SignReply(b) # NoReply /\ SignReply(b) # Dropped
  <2>1. SignReply(b) = <<200, "signature", SignBodies[b].index, SignBodies[b].message>>
    BY <1>1 DEF SignReply
  <2> QED BY <2>1 DEF NoReply, Dropped
<1> QED BY <1>1 DEF Signatures

\* Every complete request is answered what it asks (main.rs:180-208).
THEOREM RepliesMatchRequests == Spec => []AnsweredAsAsked
<1>1. Init => AnsweredAsAsked BY DEF Init, AnsweredAsAsked
<1>2. IInv /\ AnsweredAsAsked /\ [Next]_vars => AnsweredAsAsked'
  <2> SUFFICES ASSUME IInv, AnsweredAsAsked, [Next]_vars, NEW c \in Clients,
                      reply'[c] \notin {NoReply, Dropped}, sent'[c] = Len(request'[c]),
                      Complete(request'[c])
               PROVE  reply'[c] = Meaning(request'[c])
    BY DEF AnsweredAsAsked
  <2>1. CASE ~Respond BY <2>1, ReplyStays DEF AnsweredAsAsked
  <2>2. CASE Respond /\ c = conn BY <2>2, RespondRight, RespondOthers
  <2>3. CASE Respond /\ c # conn BY <2>3, RespondOthers DEF AnsweredAsAsked
  <2> QED BY <2>1, <2>2, <2>3
<1> QED BY <1>1, <1>2, Invariant, PTL DEF Spec

\* Every signature is for a body that its caller posted (main.rs:85-114,
\* 176-208), whatever was read before it and wherever reads split it.
THEOREM SignaturesWerePosted == Spec => []SignedAsPosted
<1> DEFINE Posted(c, n) == Body(SubSeq(request[c], 1, n), HeadLength(request[c]))
           Right(c) == reply[c] \in Signatures =>
                         \E n \in 1 .. sent[c] :
                           Posted(c, n) \in DOMAIN SignBodies /\ SignReply(Posted(c, n)) = reply[c]
<1>1. SignedAsPosted <=> \A c \in Clients : Right(c) BY DEF SignedAsPosted
<1>2. Init => SignedAsPosted
  <2> SUFFICES ASSUME Init, NEW c \in Clients PROVE Right(c) BY <1>1
  <2> QED BY NoSignature DEF Init
<1>3. IInv /\ SignedAsPosted /\ [Next]_vars => SignedAsPosted'
  <2> SUFFICES ASSUME IInv, SignedAsPosted, [Next]_vars, NEW c \in Clients PROVE Right(c)'
    BY DEF SignedAsPosted
  <2>1. CASE ~Respond
    <3>1. SUFFICES ASSUME reply'[c] \in Signatures PROVE Right(c)' OBVIOUS
    <3>2. reply[c] \in Signatures /\ reply[c] # NoReply BY <2>1, <3>1, ReplyStays, NoSignature
    <3>3. reply'[c] = reply[c] /\ sent'[c] = sent[c] /\ request'[c] = request[c]
      BY <2>1, <3>2, ReplyStays
    <3> QED BY <1>1, <3>3
  <2>2. CASE Respond /\ c = conn BY <2>2, RespondRight, RespondOthers
  <2>3. CASE Respond /\ c # conn BY <1>1, <2>3, RespondOthers
  <2> QED BY <2>1, <2>2, <2>3
<1> QED BY <1>2, <1>3, Invariant, PTL DEF Spec

-----------------------------------------------------------------------------
(* The promise. *)

\* The promise and the server read a request alike.
LEMMA SameReadings ==
  /\ \A q : Promise!HeadLength(q) = HeadLength(q)
  /\ \A q : Promise!ContentLength(q) = ContentLength(q)
  /\ \A q, h : Promise!Body(q, h) = Body(q, h)
  /\ \A q, b : Promise!Reply(q, b) = Reply(q, b)
  /\ Promise!NoReply = NoReply /\ Promise!Dropped = Dropped
<1>1. ASSUME NEW q PROVE Promise!HeadLength(q) = HeadLength(q)
  BY DEF Promise!HeadLength, HeadLength, Promise!BlankLines, BlankLines,
         Promise!Cardinality, Cardinality
<1>2. ASSUME NEW q PROVE Promise!ContentLength(q) = ContentLength(q)
  BY DEF Promise!ContentLength, ContentLength, Promise!SelectInSeq, SelectInSeq, Promise!Min, Min
<1>3. ASSUME NEW q, NEW h PROVE Promise!Body(q, h) = Body(q, h)
  BY DEF Promise!Body, Body
<1>4. ASSUME NEW b PROVE Promise!SignReply(b) = SignReply(b)
  BY DEF Promise!SignReply, SignReply, Promise!BadRequest, BadRequest, Promise!NotFound, NotFound
<1>5. ASSUME NEW q PROVE Promise!Trim(q) = Trim(q)
  BY DEF Promise!Trim, Trim, Promise!SelectInSeq, SelectInSeq, Promise!Min, Min
<1>6. ASSUME NEW q PROVE Promise!SubkeyReply(q) = SubkeyReply(q)
  BY Zenon DEF Promise!SubkeyReply, SubkeyReply, Promise!BadRequest, BadRequest,
               Promise!NotFound, NotFound, Promise!FoldLeft, FoldLeft,
               Promise!MapThenFoldSet, MapThenFoldSet, Promise!Max, Max
<1>7. ASSUME NEW m, NEW q, NEW b PROVE Promise!Route(m, q, b) = Route(m, q, b)
  BY <1>4, <1>5, <1>6 DEF Promise!Route, Route, Promise!Ok, Ok, Promise!NotFound, NotFound
<1>8. ASSUME NEW q, NEW b PROVE Promise!Reply(q, b) = Reply(q, b)
  BY <1>7 DEF Promise!Reply, Reply, Promise!SelectInSeq, SelectInSeq, Promise!Min, Min
<1> QED BY <1>1, <1>2, <1>3, <1>8 DEF Promise!NoReply, NoReply, Promise!Dropped, Dropped

\* The announced length of a body is a number.
LEMMA ContentLengthType == ASSUME NEW s \in Seq(Tokens) PROVE ContentLength(s) \in Nat
<1> DEFINE I == {i \in 1 .. Len(s) : s[i] \in DOMAIN Lengths}
<1>1. CASE I = {} BY <1>1 DEF ContentLength, SelectInSeq
<1>2. CASE I # {}
  <2>1. I \subseteq Nat OBVIOUS
  <2>2. PICK x \in I : \A y \in I : ~(<<y, x>> \in OpToRel(<, Nat))
    BY <1>2, <2>1, NatLessThanWellFounded, WFMin
  <2>3. \A y \in I : ~(y < x) BY <2>1, <2>2 DEF OpToRel
  <2>4. Min(I) \in I
    <3>1. \A y \in I : x <= y BY <2>1, <2>3
    <3> QED BY <3>1 DEF Min
  <2>5. ContentLength(s) = Lengths[s[Min(I)]]
    <3>1. SelectInSeq(s, LAMBDA t : t \in DOMAIN Lengths) = Min(I) BY <1>2 DEF SelectInSeq
    <3>2. Min(I) # 0 BY <2>4
    <3> HIDE DEF I
    <3> QED BY <3>1, <3>2 DEF ContentLength
  <2> QED BY <2>4, <2>5, LengthsAssumption
<1> QED BY <1>1, <1>2

\* The connection in `handle` is the first of those without an answer.
LEMMA FirstWaiting ==
  ASSUME IInv, pc # "accept"
  PROVE  waiting # << >> /\ Head(waiting) = conn /\ Tail(waiting) = backlog
<1>1. conn \in Clients /\ backlog \in Seq(Clients) BY DEF IInv, TypeOK
<1>2. waiting = <<conn>> \o backlog BY DEF waiting
<1> QED BY <1>1, <1>2

LEMMA InitRefines == Init => Promise!Init
<1>1. Promise!NoReply = NoReply BY SameReadings
<1> QED BY <1>1 DEF Init, Promise!Init, waiting

LEMMA ConnectRefines == ASSUME IInv, NEW c \in Clients, Connect(c) PROVE Promise!Connect(c)
<1>1. waiting' = Append(waiting, c)
  <2>1. backlog \in Seq(Clients) /\ (pc # "accept" => conn \in Clients) BY DEF IInv, TypeOK
  <2>2. backlog' = Append(backlog, c) /\ pc' = pc /\ conn' = conn BY DEF Connect
  <2>3. CASE pc = "accept" BY <2>2, <2>3 DEF waiting
  <2>4. CASE pc # "accept"
    <3>1. <<conn>> \o Append(backlog, c) = Append(<<conn>> \o backlog, c) BY <2>1, <2>4
    <3> QED BY <2>2, <2>4, <3>1 DEF waiting
  <2> QED BY <2>3, <2>4
<1> QED BY <1>1 DEF Connect, Promise!Connect

LEMMA SendRefines == ASSUME NEW c \in Clients, Send(c) PROVE Promise!Act(c)
BY SameReadings DEF Send, Promise!Act, waiting

LEMMA LeaveRefines ==
  ASSUME NEW c \in Clients, NEW how \in {"shut", "reset"}, Leave(c, how) PROVE Promise!Act(c)
BY SameReadings DEF Leave, Promise!Act, waiting

\* Taking a connection and reading it answer nobody.
LEMMA QuietSteps ==
  ASSUME IInv,
         Accept \/ EndOfInput \/ (\E n \in 1 .. SegmentMax : ReadHead(n) \/ ReadBody(n))
  PROVE  UNCHANGED <<request, peer, sent, reply, waiting>>
<1>1. CASE Accept
  <2>1. backlog \in Seq(Clients) /\ backlog # << >> BY <1>1 DEF IInv, TypeOK, Accept
  <2>2. backlog = <<Head(backlog)>> \o Tail(backlog) BY <2>1
  <2>3. waiting = backlog /\ waiting' = <<Head(backlog)>> \o Tail(backlog)
    BY <1>1 DEF Accept, waiting
  <2> QED BY <1>1, <2>2, <2>3 DEF Accept, callers
<1>2. CASE EndOfInput
  BY <1>2 DEF EndOfInput, callers, waiting
<1>3. ASSUME NEW n \in 1 .. SegmentMax, ReadHead(n) \/ ReadBody(n)
      PROVE  UNCHANGED <<request, peer, sent, reply, waiting>>
  <2>1. Read(n) /\ pc # "accept" BY <1>3 DEF ReadHead, ReadBody
  <2>2. pc' # "accept" BY <1>3 DEF ReadHead, ReadBody
  <2> QED BY <2>1, <2>2 DEF Read, callers, waiting
<1> QED BY <1>1, <1>2, <1>3

\* What `handle` answers is what the promise gives for what it read.
LEMMA RespondsEnough ==
  ASSUME IInv, Respond
  PROVE  /\ reply' = [reply EXCEPT ![conn] = Promise!AnswerTo(buf)]
         /\ Promise!Enough(buf) \/ AtEnd(conn)
<1> DEFINE h == HeadLength(buf)
           length == h + 2 + ContentLength(SubSeq(buf, 1, h))
<1>1. /\ conn \in Clients /\ buf \in Seq(Tokens) /\ Len(buf) \in Nat /\ h \in -1 .. Len(buf)
      /\ headEnd \in Nat
  BY BufferType DEF IInv, Respond, TypeOK
<1>2. reply' = [reply EXCEPT ![conn] = Reply(SubSeq(buf, 1, headEnd), Body(buf, headEnd))]
  BY DEF Respond, Close
<1>3. \/ headEnd = h /\ h # -1 /\ (~(Len(buf) < need) \/ AtEnd(conn)) /\ need = length % WordSize
      \/ h = -1 /\ headEnd = Len(buf) /\ AtEnd(conn)
  BY <1>1 DEF Respond, IInv, BufferInv
<1>4. Promise!AnswerTo(buf) = IF h = -1 THEN Reply(buf, << >>) ELSE Reply(SubSeq(buf, 1, h), Body(buf, h))
  BY SameReadings DEF Promise!AnswerTo
<1>5. Promise!Enough(buf) <=> h # -1 /\ (length <= Len(buf) \/ WordSize <= length)
  BY SameReadings DEF Promise!Enough
<1>6. CASE h = -1
  <2>1. headEnd = Len(buf) /\ AtEnd(conn) BY <1>3, <1>6
  <2>2. SubSeq(buf, 1, headEnd) = buf BY <1>1, <2>1, WholePrefix
  <2>3. Body(buf, headEnd) = << >> BY <1>1, <2>1, SubSeqEmpty DEF Body
  <2> QED BY <1>2, <1>4, <1>6, <2>1, <2>2, <2>3
<1>7. CASE h # -1
  <2>1. headEnd = h /\ (~(Len(buf) < need) \/ AtEnd(conn)) /\ need = length % WordSize
    BY <1>3, <1>7
  <2>2. reply' = [reply EXCEPT ![conn] = Promise!AnswerTo(buf)] BY <1>2, <1>4, <1>7, <2>1
  <2>3. h \in 0 .. Len(buf) BY <1>1, <1>7
  <2>4. SubSeq(buf, 1, h) \in Seq(Tokens)
    BY <1>1, <2>3, PrefixIs
  <2>5. length \in Nat
    <3>1. ContentLength(SubSeq(buf, 1, h)) \in Nat BY <2>4, ContentLengthType
    <3>2. h \in Nat BY <1>1, <2>3
    <3> QED BY <3>1, <3>2
  <2>6. CASE ~(Len(buf) < need) /\ length < WordSize
    <3>1. need = length BY <2>1, <2>5, <2>6, SegmentAssumption, NoWrap
    <3>2. length <= Len(buf) BY <1>1, <2>5, <2>6, <3>1
    <3> QED BY <1>5, <1>7, <2>2, <3>2
  <2>7. CASE ~(length < WordSize)
    <3>1. WordSize <= length BY <2>5, <2>7, SegmentAssumption
    <3> QED BY <1>5, <1>7, <2>2, <3>1
  <2> QED BY <2>1, <2>2, <2>6, <2>7
<1> QED BY <1>6, <1>7

LEMMA RespondRefines == ASSUME IInv, Respond PROVE Promise!Answer
<1>1. pc # "accept" /\ peer[conn] # "reset" /\ conn \in Clients
  BY DEF Respond, IInv, TypeOK
<1>2. /\ waiting # << >> /\ Head(waiting) = conn /\ waiting' = Tail(waiting)
      /\ request' = request /\ peer' = peer /\ sent' = sent
  BY <1>1, FirstWaiting DEF Respond, Close, waiting, callers
<1>3. taken[conn] \in 0 .. sent[conn] /\ buf = SubSeq(request[conn], 1, taken[conn])
  BY <1>1, RequestType DEF IInv, BufferInv
<1>4. Promise!Enough(buf) \/ (peer[conn] = "shut" /\ taken[conn] = sent[conn])
  BY RespondsEnough DEF AtEnd
<1>5. reply' = [reply EXCEPT ![conn] = Promise!AnswerTo(buf)] BY RespondsEnough
<1> QED BY <1>1, <1>2, <1>3, <1>4, <1>5 DEF Promise!Answer

LEMMA FailRefines == ASSUME IInv, Fail PROVE Promise!Answer
<1>1. pc # "accept" /\ peer[conn] = "reset" /\ reply' = [reply EXCEPT ![conn] = Dropped]
  BY DEF Fail, Close
<1>2. /\ waiting # << >> /\ Head(waiting) = conn /\ waiting' = Tail(waiting)
      /\ request' = request /\ peer' = peer /\ sent' = sent
  BY <1>1, FirstWaiting DEF Fail, Close, waiting, callers
<1> QED BY <1>1, <1>2, SameReadings DEF Promise!Answer

\* Every step of the server or of a caller is one of the promise, or none.
LEMMA NextRefines ==
  ASSUME IInv, [Next]_vars
  PROVE  [Promise!Next]_<<request, peer, sent, reply, waiting>>
<1>1. ASSUME NEW c \in Clients, Call(c) PROVE Promise!Next
  BY <1>1, ConnectRefines, SendRefines DEF Call, Promise!Next
<1>2. ASSUME NEW c \in Clients, Shut(c) \/ Reset(c) PROVE Promise!Next
  BY <1>2, LeaveRefines DEF Shut, Reset, Promise!Next
<1>3. CASE Accept \/ EndOfInput \/ (\E n \in 1 .. SegmentMax : ReadHead(n) \/ ReadBody(n))
  BY <1>3, QuietSteps
<1>4. CASE Fail \/ Respond BY <1>4, FailRefines, RespondRefines DEF Promise!Next
<1>5. CASE UNCHANGED vars BY <1>5 DEF vars, callers, waiting
<1> QED BY <1>1, <1>2, <1>3, <1>4, <1>5 DEF Next, Serve

\* The server implements what OraclePromise says of it: callers are answered in
\* the order they came, once, and to enough of their own request (main.rs:161-208).
THEOREM KeepsPromise == Spec => PromiseSpec
BY InitRefines, NextRefines, Invariant, PTL DEF Spec, PromiseSpec, Promise!Spec
=============================================================================
