------------------------ MODULE SessionOrderProofs ------------------------
(***************************************************************************)
(* Proof that a session writes its replies in command order               *)
(* (RepliesInOrder), for every value of the constants.                     *)
(*                                                                         *)
(* The writer writes the response whose seq is rspSeq, so the property     *)
(* rests on what rspSeq points at.  While the session is open:             *)
(*   - the seqs of the commands below rspSeq are exactly those already     *)
(*     written, and no pending response or request has a seq below it;     *)
(*   - a seq that Schedule's error path handed to no command (a phantom)   *)
(*     lies above a pending transport error, whose handling closes the     *)
(*     session before rspSeq can reach the phantom;                        *)
(*   - the responses of one command share its seq and its number of        *)
(*     sub-requests, and their subSeqs are distinct and below that number, *)
(*     so when the MultiCmd has gathered them all none is left pending,    *)
(*     and rspSeq may move on.                                             *)
(* Once the session is closed nothing more is written.                     *)
(***************************************************************************)
EXTENDS SessionProofs

\* The responses on backQ, as a set.
BackQSet == {backQ[i] : i \in 1..Len(backQ)}

\* The responses the writer has still to handle.
Pending == BackQSet \cup heap

\* The responses and the requests not yet handled by the writer.
Out == Pending \cup TodoSet

\* The seqs handed to client commands.
CmdSet == {cmdSeqs[i] : i \in 1..Len(cmdSeqs)}

\* getNextReqSeq numbers the commands in increasing order, and the client
\* has received replies to a prefix of them.
CmdsOrdered ==
    /\ \A i \in 1..Len(cmdSeqs) : cmdSeqs[i] < reqSeq
    /\ \A i, j \in 1..Len(cmdSeqs) : i < j => cmdSeqs[i] < cmdSeqs[j]
    /\ Len(written) <= Len(cmdSeqs)
    /\ RepliesInOrder

\* Every seq in use is a command's or a phantom's, never both.
SeqsAccounted ==
    /\ \A p \in phantoms : p < reqSeq /\ p \notin CmdSet
    /\ \A x \in Out : x.seq \in CmdSet \cup phantoms
    /\ \A g \in gathered : g.seq < reqSeq

\* rspHeap holds one response per (seq, subSeq).
HeapKeys == \A h1, h2 \in heap : Key(h1) = Key(h2) => h1 = h2

\* The reader has no requests left to schedule outside Schedule's loop.
TodoIdle == rd # "sched" => todo = <<>>

\* The responses of one command share its number of sub-requests, their
\* subSeqs are below it, and a sub-response gathered by the MultiCmd is no
\* longer pending.
SubsFormed ==
    /\ \A x \in Out : IF x.of = 0 THEN x.sub = 0 ELSE x.sub < x.of
    /\ \A x, y \in Out : x.seq = y.seq => x.of = y.of
    /\ \A g \in gathered, x \in Out :
          g.seq = x.seq => g.sub < x.of /\ g.sub # x.sub

\* While the session is open, rspSeq separates the written commands from
\* the others, and every phantom lies above a pending transport error.
WriterTurn ==
    ~closed =>
        /\ rspSeq <= reqSeq
        /\ \A i \in 1..Len(cmdSeqs) : i <= Len(written) <=> cmdSeqs[i] < rspSeq
        /\ \A x \in Out : x.seq >= rspSeq
        /\ \A p \in phantoms : \E e \in Pending : e.err /\ e.seq < p

OrderInv ==
    /\ CmdsOrdered
    /\ SeqsAccounted
    /\ HeapKeys
    /\ TodoIdle
    /\ SubsFormed
    /\ WriterTurn

-----------------------------------------------------------------------------
(* Lemmas *)

\* A MultiCmd that still misses the subSeq j of its seq s has gathered
\* fewer than n sub-responses, n being its number of sub-requests.
LEMMA GatheredShort ==
    ASSUME NEW G \in SUBSET [seq : Nat, sub : Nat], NEW s, NEW n \in Nat,
           \E j \in 0..n-1 :
              \A g \in G : g.seq = s => g.sub \in 0..n-1 /\ g.sub # j
    PROVE  Cardinality({g \in G : g.seq = s}) # n
<1>0. PICK j \in 0..n-1 :
         \A g \in G : g.seq = s => g.sub \in 0..n-1 /\ g.sub # j
  OBVIOUS
<1> DEFINE H == {g \in G : g.seq = s}
           K == (0..n-1) \ {j}
           f == [g \in H |-> g.sub]
<1>1. IsFiniteSet(K) /\ Cardinality(K) = n - 1
  <2>1. IsFiniteSet(0..n-1) /\ Cardinality(0..n-1) = n
    BY FS_Interval
  <2>2. QED
    BY <2>1, FS_RemoveElement
<1>2. f \in Injection(H, K)
  BY <1>0 DEF Injection, IsInjective
<1>3. IsFiniteSet(H) /\ Cardinality(H) <= n - 1
  BY <1>1, <1>2, FS_Injection
<1>4. QED
  BY <1>3, FS_CardinalityType


\* Writing the next command's reply extends the written prefix by one.
LEMMA WrittenAppend ==
    ASSUME NEW cs \in Seq(Nat), NEW w \in Seq(Nat), Len(w) < Len(cs),
           w = SubSeq(cs, 1, Len(w))
    PROVE  Append(w, cs[Len(w) + 1]) = SubSeq(cs, 1, Len(w) + 1)
<1>1. Len(w) \in Nat /\ Len(cs) \in Nat
  BY LenProperties
<1>2. /\ Len(Append(w, cs[Len(w) + 1])) = Len(w) + 1
      /\ \A i \in 1..Len(w) : Append(w, cs[Len(w) + 1])[i] = cs[i]
      /\ Append(w, cs[Len(w) + 1])[Len(w) + 1] = cs[Len(w) + 1]
  BY <1>1, AppendProperties
<1>3. /\ Len(SubSeq(cs, 1, Len(w) + 1)) = Len(w) + 1
      /\ \A i \in 1..Len(w) + 1 : SubSeq(cs, 1, Len(w) + 1)[i] = cs[i]
  BY <1>1, SubSeqProperties
<1>4. /\ Append(w, cs[Len(w) + 1]) \in Seq(Nat)
      /\ SubSeq(cs, 1, Len(w) + 1) \in Seq(Nat)
  BY <1>1, AppendProperties, SubSeqProperties, ElementOfSeq
<1>5. QED
  BY <1>1, <1>2, <1>3, <1>4, SeqEqual

\* What the invariants say of the records not yet handled by the writer:
\* responses and requests are well typed, with seqs already handed out, and
\* a response is the only one with its key.
LEMMA OutFacts ==
    ASSUME IInv, HeapKeys
    PROVE  /\ Pending \subseteq RspRec
           /\ TodoSet \subseteq ReqRec
           /\ \A x \in Out : x.seq \in Nat /\ x.sub \in Nat /\ x.of \in Nat
           /\ \A x \in Out : x.seq < reqSeq
           /\ \A x, y \in Pending : Key(x) = Key(y) => x = y
           /\ \A x \in Pending, t \in TodoSet : Key(x) # Key(t)
<1> USE DEF IInv
<1>1. Pending \subseteq RspRec /\ TodoSet \subseteq ReqRec
  BY ElemTypes DEF Pending, BackQSet, TodoSet, TypeOK
<1>2. \A x \in Out : x.seq \in Nat /\ x.sub \in Nat /\ x.of \in Nat
  BY <1>1 DEF Out, RspRec, ReqRec
<1>3. \A x \in Out : x.seq < reqSeq
  BY DEF Out, Pending, BackQSet, SeqsIssued
<1>4. \A x, y \in Pending : Key(x) = Key(y) => x = y
  BY DEF Pending, BackQSet, HeapKeys, KeysDistinct, DistinctKeys, Apart
<1>5. \A x \in Pending, t \in TodoSet : Key(x) # Key(t)
  BY DEF Pending, BackQSet, KeysDistinct, Apart
<1>6. QED
  BY <1>1, <1>2, <1>3, <1>4, <1>5

\* While the session is open, the response whose turn has come answers the
\* first command not yet answered: rspSeq is no phantom's seq, since every
\* phantom lies above a pending transport error.
LEMMA NextCmd ==
    ASSUME IInv, OrderInv, ~closed, NEW r \in Out, r.seq = rspSeq
    PROVE  /\ Len(written) + 1 \in 1..Len(cmdSeqs)
           /\ cmdSeqs[Len(written) + 1] = rspSeq
<1> DEFINE n == Len(written)
<1>1. /\ \A x \in Out : x.seq \in Nat /\ x.seq >= rspSeq
      /\ Pending \subseteq Out
      /\ rspSeq \in Nat /\ n \in Nat /\ Len(cmdSeqs) \in Nat
      /\ cmdSeqs \in Seq(Nat)
  BY OutFacts, LenProperties DEF IInv, TypeOK, OrderInv, WriterTurn, Out
<1>2. rspSeq \notin phantoms
  <2> SUFFICES ASSUME NEW p \in phantoms, p = rspSeq PROVE FALSE
    OBVIOUS
  <2>1. PICK e \in Pending : e.err /\ e.seq < p
    BY DEF OrderInv, WriterTurn
  <2>2. QED
    BY <1>1, <2>1
<1>3. PICK k \in 1..Len(cmdSeqs) : cmdSeqs[k] = rspSeq
  BY <1>2 DEF OrderInv, SeqsAccounted, CmdSet
<1>4. k > n
  BY <1>1, <1>3 DEF OrderInv, WriterTurn
<1>5. k = n + 1
  <2> SUFFICES ASSUME k > n + 1 PROVE FALSE
    BY <1>1, <1>4
  <2>1. n + 1 \in 1..Len(cmdSeqs) /\ cmdSeqs[n + 1] < cmdSeqs[k]
    BY <1>1 DEF OrderInv, CmdsOrdered
  <2>2. ~(n + 1 <= n)
    BY <1>1
  <2>3. cmdSeqs[n + 1] \in Nat
    BY <1>1, <2>1, ElementOfSeq
  <2>4. QED
    BY <1>3, <2>1, <2>2, <2>3 DEF OrderInv, WriterTurn
<1>6. QED
  BY <1>3, <1>5


\* The record a MultiCmd gathers for the sub-response r.
GKey(r) == [seq |-> r.seq, sub |-> r.sub]

\* The outcomes of handleResp for the response r: the session is closed
\* (an error or redirect, a write to the client that failed, or a session
\* closed already) and nothing is written; a sub-response is gathered and
\* its MultiCmd still waits; or the reply to r's command is written and
\* rspSeq moves past it.
HandleClosed(r) ==
    /\ closed'
    /\ written' = written
    /\ \/ gathered' = gathered
       \/ gathered' = gathered \cup {GKey(r)} /\ r.of > 0

HandleGathered(r) ==
    /\ ~closed /\ ~closed'
    /\ ~r.err
    /\ r.of > 0
    /\ gathered' = gathered \cup {GKey(r)}
    /\ written' = written
    /\ rspSeq' = rspSeq

HandleWritten(r) ==
    /\ ~closed /\ ~closed'
    /\ ~r.err
    /\ written' = Append(written, r.seq)
    /\ rspSeq' = rspSeq + 1
    /\ \/ /\ r.of > 0
          /\ gathered' = gathered \cup {GKey(r)}
          /\ Cardinality({x \in gathered' : x.seq = r.seq}) = r.of
       \/ /\ r.of = 0
          /\ gathered' = gathered

LEMMA HandleOutcomes ==
    ASSUME TypeOK, NEW r \in RspRec, r.seq = rspSeq, HandleResp(r)
    PROVE  HandleClosed(r) \/ HandleGathered(r) \/ HandleWritten(r)
<1> DEFINE g == gathered \cup {GKey(r)}
           finished == Cardinality({x \in g : x.seq = r.seq}) = r.of
<1>1. CASE /\ r.err \/ r.reply \in {"moved", "ask"}
           /\ rspSeq' = NextRspSeq(r)
           /\ WriterClose
           /\ wr' = "recv"
           /\ UNCHANGED <<gathered, written, clientGone>>
  BY <1>1 DEF WriterClose, HandleClosed
<1>2. CASE ~r.err /\ WriteResp(r) /\ closed
  <2>1. closed' = closed /\ gathered' = gathered /\ written' = written
    BY <1>2 DEF WriteResp
  <2>2. QED
    BY <1>2, <2>1 DEF HandleClosed
<1>3. CASE ~r.err /\ WriteResp(r) /\ ~closed
  <2>1. WriteResp(r)
    BY <1>3
  <2>2. CASE r.of > 0 /\ ~finished
    BY <1>3, <2>1, <2>2 DEF WriteResp, HandleGathered, NextRspSeq, GKey
  <2>3. CASE r.of > 0 /\ finished
    <3>1. /\ gathered' = g
          /\ rspSeq' = rspSeq + 1
          /\ WriteClient(r.seq)
      BY <1>3, <2>1, <2>3 DEF WriteResp, NextRspSeq, GKey
    <3>2. QED
      BY <1>3, <2>3, <3>1 DEF WriteClient, WriterClose, HandleClosed,
                              HandleWritten
  <2>4. CASE r.of = 0
    <3>1. /\ gathered' = gathered
          /\ rspSeq' = rspSeq + 1
          /\ WriteClient(r.seq)
      BY <1>3, <2>1, <2>4 DEF WriteResp, NextRspSeq
    <3>2. QED
      BY <1>3, <2>4, <3>1 DEF WriteClient, WriterClose, HandleClosed,
                              HandleWritten
  <2>5. QED
    BY <2>2, <2>3, <2>4 DEF RspRec
<1>4. QED
  BY <1>1, <1>2, <1>3 DEF HandleResp


\* handleResp on the response r whose turn has come keeps OrderInv, for a
\* writer step that takes r out of the pending responses and leaves the
\* others (and the reader) alone.
LEMMA HandleOrder ==
    ASSUME IInv, OrderInv, NEW r \in Pending, r.seq = rspSeq,
           Pending' \subseteq Pending,
           \A x \in Pending' : Key(x) # Key(r),
           \A x \in Pending : Key(x) # Key(r) => x \in Pending',
           HeapKeys',
           UNCHANGED readerVars,
           HandleResp(r)
    PROVE  OrderInv'
<1>1. /\ r \in RspRec /\ r \in Out
      /\ r.seq \in Nat /\ r.sub \in Nat /\ r.of \in Nat
      /\ r.seq < reqSeq
      /\ TypeOK
  BY OutFacts DEF IInv, OrderInv, Out
<1>2. /\ UNCHANGED <<rd, todo, reqSeq, cmdSeqs, phantoms>>
      /\ TodoSet' = TodoSet
      /\ CmdSet' = CmdSet
  BY DEF readerVars, TodoSet, CmdSet
<1>3. /\ Out' \subseteq Out
      /\ \A x \in Out' : Key(x) # Key(r)
  BY <1>2, OutFacts DEF Out, IInv, OrderInv
<1>4. HandleClosed(r) \/ HandleGathered(r) \/ HandleWritten(r)
  BY <1>1, HandleOutcomes DEF Pending
<1>5. \/ gathered' = gathered
      \/ gathered' = gathered \cup {GKey(r)} /\ r.of > 0
  BY <1>4 DEF HandleClosed, HandleGathered, HandleWritten
<1>6. SeqsAccounted'
  BY <1>1, <1>2, <1>3, <1>5 DEF OrderInv, SeqsAccounted, GKey
<1>7. TodoIdle'
  BY <1>2 DEF OrderInv, TodoIdle
<1>8. SubsFormed'
  <2>1. \A x \in Out' : IF x.of = 0 THEN x.sub = 0 ELSE x.sub < x.of
    BY <1>3 DEF OrderInv, SubsFormed
  <2>2. \A x, y \in Out' : x.seq = y.seq => x.of = y.of
    BY <1>3 DEF OrderInv, SubsFormed
  <2>3. \A g \in gathered', x \in Out' :
           g.seq = x.seq => g.sub < x.of /\ g.sub # x.sub
    <3> TAKE g \in gathered', x \in Out'
    <3>1. CASE g \in gathered
      BY <1>3, <3>1 DEF OrderInv, SubsFormed
    <3>2. CASE g = GKey(r) /\ r.of > 0
      <4>1. x \in Out /\ Key(x) # Key(r)
        BY <1>3
      <4>2. r.sub < r.of /\ (x.seq = r.seq => x.of = r.of)
        BY <1>1, <3>2, <4>1 DEF OrderInv, SubsFormed
      <4>3. QED
        BY <3>2, <4>1, <4>2 DEF GKey, Key
    <3>3. QED
      BY <1>5, <3>1, <3>2
  <2>4. QED
    BY <2>1, <2>2, <2>3 DEF SubsFormed
\* A transport error pending before the step is still pending after it.
<1>9. ASSUME ~r.err, ~closed
      PROVE  \A p \in phantoms : \E e \in Pending' : e.err /\ e.seq < p
  <2> TAKE p \in phantoms
  <2>1. PICK e \in Pending : e.err /\ e.seq < p
    BY <1>9 DEF OrderInv, WriterTurn
  <2>2. Key(e) # Key(r)
    BY <1>9, <2>1, OutFacts DEF IInv, OrderInv
  <2>3. QED
    BY <2>1, <2>2
<1>10. CASE HandleClosed(r)
  <2>1. CmdsOrdered'
    BY <1>2, <1>10 DEF HandleClosed, OrderInv, CmdsOrdered, RepliesInOrder
  <2>2. WriterTurn'
    BY <1>10 DEF HandleClosed, WriterTurn
  <2>3. QED
    BY <1>6, <1>7, <1>8, <2>1, <2>2 DEF OrderInv
<1>11. CASE HandleGathered(r)
  <2>1. CmdsOrdered'
    BY <1>2, <1>11 DEF HandleGathered, OrderInv, CmdsOrdered, RepliesInOrder
  <2>2. WriterTurn'
    <3>1. \A x \in Out' : x.seq >= rspSeq'
      BY <1>3, <1>11 DEF HandleGathered, OrderInv, WriterTurn
    <3>2. QED
      BY <1>2, <1>9, <1>11, <3>1 DEF HandleGathered, OrderInv, WriterTurn
  <2>3. QED
    BY <1>6, <1>7, <1>8, <2>1, <2>2 DEF OrderInv
<1>12. CASE HandleWritten(r)
  <2> DEFINE n == Len(written)
  <2>1. /\ n + 1 \in 1..Len(cmdSeqs)
        /\ cmdSeqs[n + 1] = rspSeq
    BY <1>1, <1>12, NextCmd DEF HandleWritten
  <2>2. /\ cmdSeqs \in Seq(Nat) /\ written \in Seq(Nat)
        /\ n \in Nat /\ Len(cmdSeqs) \in Nat /\ rspSeq \in Nat
    BY <1>1, LenProperties DEF TypeOK
  <2>3. written' = SubSeq(cmdSeqs, 1, n + 1)
    <3>1. n < Len(cmdSeqs) /\ written = SubSeq(cmdSeqs, 1, n)
      BY <2>1, <2>2 DEF OrderInv, CmdsOrdered, RepliesInOrder
    <3>2. QED
      BY <1>12, <2>1, <2>2, <3>1, WrittenAppend DEF HandleWritten
  <2>4. Len(written') = n + 1
    BY <2>1, <2>2, <1>12, AppendProperties DEF HandleWritten
  <2>5. CmdsOrdered'
    BY <1>2, <2>1, <2>3, <2>4 DEF OrderInv, CmdsOrdered, RepliesInOrder
  <2>6. \A i \in 1..Len(cmdSeqs) : i <= n + 1 <=> cmdSeqs[i] < rspSeq + 1
    <3> TAKE i \in 1..Len(cmdSeqs)
    <3>1. cmdSeqs[i] \in Nat /\ cmdSeqs[n + 1] \in Nat
      BY <2>1, <2>2, ElementOfSeq
    <3>2. CASE i <= n
      BY <1>12, <3>1, <3>2, <2>2 DEF OrderInv, WriterTurn, HandleWritten
    <3>3. CASE i = n + 1
      BY <2>1, <2>2, <3>3
    <3>4. CASE i > n + 1
      <4>1. cmdSeqs[n + 1] < cmdSeqs[i]
        BY <2>1, <2>2, <3>4 DEF OrderInv, CmdsOrdered
      <4>2. QED
        BY <2>1, <2>2, <3>1, <3>4, <4>1
    <3>5. QED
      BY <2>2, <3>2, <3>3, <3>4
  \* No record of r's command is left once its reply is written.
  <2>7. \A x \in Out' : x.seq # r.seq
    <3> SUFFICES ASSUME NEW x \in Out', x.seq = r.seq PROVE FALSE
      OBVIOUS
    <3>1. x \in Out /\ Key(x) # Key(r) /\ x.of = r.of
      BY <1>1, <1>3 DEF OrderInv, SubsFormed
    <3>2. CASE r.of = 0
      BY <1>1, <3>1, <3>2 DEF OrderInv, SubsFormed, Key
    <3>3. CASE r.of > 0
      <4>1. /\ gathered' = gathered \cup {GKey(r)}
            /\ Cardinality({g \in gathered' : g.seq = r.seq}) = r.of
        BY <1>12, <3>3 DEF HandleWritten
      <4>2. gathered' \in SUBSET [seq : Nat, sub : Nat]
        BY <1>1, <4>1 DEF TypeOK, GKey
      <4>3. x.sub \in 0..r.of - 1 /\ x.sub \in Nat
        BY <3>1, <3>3, OutFacts DEF IInv, OrderInv, SubsFormed
      <4>4. \A g \in gathered' : g.seq = r.seq => g.sub \in 0..r.of - 1
                                                 /\ g.sub # x.sub
        BY <1>1, <1>8, <3>1, <4>2 DEF SubsFormed
      <4>5. Cardinality({g \in gathered' : g.seq = r.seq}) # r.of
        <5>1. \E j \in 0..r.of - 1 :
                 \A g \in gathered' : g.seq = r.seq => g.sub \in 0..r.of - 1
                                                   /\ g.sub # j
          BY <4>3, <4>4
        <5>2. QED
          BY <1>1, <4>2, <5>1, GatheredShort
      <4>6. QED
        BY <4>1, <4>5
    <3>4. QED
      BY <1>1, <3>2, <3>3
  <2>8. \A x \in Out' : x.seq >= rspSeq + 1
    <3> TAKE x \in Out'
    <3>1. x.seq \in Nat /\ x.seq >= rspSeq
      BY <1>3, <1>12, OutFacts DEF IInv, OrderInv, WriterTurn, HandleWritten
    <3>2. QED
      BY <2>7, <3>1, <2>2
  <2>9. WriterTurn'
    <3>1. rspSeq + 1 <= reqSeq
      BY <1>1, <2>2 DEF TypeOK
    <3>2. QED
      BY <1>2, <1>9, <1>12, <2>4, <2>6, <2>8, <3>1 DEF HandleWritten, WriterTurn
  <2>10. QED
    BY <1>6, <1>7, <1>8, <2>5, <2>9 DEF OrderInv
<1>13. QED
  BY <1>4, <1>10, <1>11, <1>12


\* Two records with the same request fields (seq, subSeq, number of
\* sub-requests): a response to a request, or the same record.
Like(x, y) == x.seq = y.seq /\ x.sub = y.sub /\ x.of = y.of

\* A step that hands out no seq and writes nothing, and whose records not
\* yet handled are copies of earlier ones (a response for the request it
\* answers, or a record moved between backQ and rspHeap), keeps OrderInv.
LEMMA FrameOrder ==
    ASSUME IInv, OrderInv,
           \A x \in Out' : \E y \in Out : Like(x, y),
           Pending \subseteq Pending',
           HeapKeys', TodoIdle',
           UNCHANGED <<reqSeq, cmdSeqs, phantoms, gathered, rspSeq, written>>,
           closed' \/ closed' = closed
    PROVE  OrderInv'
<1>1. CmdSet' = CmdSet
  BY DEF CmdSet
<1>2. CmdsOrdered'
  BY DEF OrderInv, CmdsOrdered, RepliesInOrder
<1>3. SeqsAccounted'
  BY <1>1 DEF OrderInv, SeqsAccounted, Like
<1>4. SubsFormed'
  <2>1. \A x \in Out' : IF x.of = 0 THEN x.sub = 0 ELSE x.sub < x.of
    BY DEF OrderInv, SubsFormed, Like
  <2>2. \A x, y \in Out' : x.seq = y.seq => x.of = y.of
    BY DEF OrderInv, SubsFormed, Like
  <2>3. \A g \in gathered', x \in Out' :
           g.seq = x.seq => g.sub < x.of /\ g.sub # x.sub
    BY DEF OrderInv, SubsFormed, Like
  <2>4. QED
    BY <2>1, <2>2, <2>3 DEF SubsFormed
<1>5. WriterTurn'
  <2>1. CASE closed'
    BY <2>1 DEF WriterTurn
  <2>2. CASE ~closed' /\ closed' = closed
    <3>1. \A x \in Out' : x.seq >= rspSeq'
      BY <2>2 DEF OrderInv, WriterTurn, Like
    <3>2. \A p \in phantoms' : \E e \in Pending' : e.err /\ e.seq < p
      BY <2>2 DEF OrderInv, WriterTurn
    <3>3. QED
      BY <2>2, <3>1, <3>2 DEF OrderInv, WriterTurn
  <2>3. QED
    BY <2>1, <2>2
<1>6. QED
  BY <1>2, <1>3, <1>4, <1>5 DEF OrderInv

\* Appending to a sequence leaves its prefixes alone.
LEMMA PrefixAppend ==
    ASSUME NEW s \in Seq(Nat), NEW e \in Nat, NEW n \in 0..Len(s)
    PROVE  SubSeq(Append(s, e), 1, n) = SubSeq(s, 1, n)
<1>1. /\ Append(s, e) \in Seq(Nat)
      /\ Len(Append(s, e)) = Len(s) + 1
      /\ \A i \in 1..Len(s) : Append(s, e)[i] = s[i]
      /\ Len(s) \in Nat
  BY AppendProperties, LenProperties
<1>2. /\ SubSeq(Append(s, e), 1, n) \in Seq(Nat)
      /\ Len(SubSeq(Append(s, e), 1, n)) = n
      /\ \A i \in 1..n : SubSeq(Append(s, e), 1, n)[i] = Append(s, e)[i]
  BY <1>1, SubSeqProperties, ElementOfSeq
<1>3. /\ SubSeq(s, 1, n) \in Seq(Nat)
      /\ Len(SubSeq(s, 1, n)) = n
      /\ \A i \in 1..n : SubSeq(s, 1, n)[i] = s[i]
  BY <1>1, SubSeqProperties, ElementOfSeq
<1>4. QED
  BY <1>1, <1>2, <1>3, SeqEqual


\* Session.handle gives a client command the seq reqSeq (getNextReqSeq):
\* its response, or its requests, are the only records with that seq, they
\* agree on the number of sub-requests, and the command's seq is appended
\* to the history.
LEMMA NewCmdOrder ==
    ASSUME IInv, OrderInv,
           Out \subseteq Out',
           \A x \in Out' \ Out :
              /\ x.seq = reqSeq /\ x.sub \in Nat /\ x.of \in Nat
              /\ IF x.of = 0 THEN x.sub = 0 ELSE x.sub < x.of,
           \A x, y \in Out' \ Out : x.of = y.of,
           Pending \subseteq Pending',
           reqSeq' = reqSeq + 1,
           cmdSeqs' = Append(cmdSeqs, reqSeq),
           UNCHANGED <<phantoms, gathered, rspSeq, written, closed, heap>>,
           TodoIdle'
    PROVE  OrderInv'
<1> DEFINE k == Len(cmdSeqs)
<1> DEFINE N == Out' \ Out
<1>0. /\ Out' = Out \cup N
      /\ \A x \in N : /\ x.seq = reqSeq /\ x.sub \in Nat /\ x.of \in Nat
                     /\ IF x.of = 0 THEN x.sub = 0 ELSE x.sub < x.of
      /\ \A x, y \in N : x.of = y.of
  OBVIOUS
<1>1. /\ reqSeq \in Nat /\ rspSeq \in Nat
      /\ cmdSeqs \in Seq(Nat) /\ written \in Seq(Nat)
      /\ k \in Nat /\ Len(written) \in Nat
      /\ Len(cmdSeqs') = k + 1
      /\ \A i \in 1..k : cmdSeqs'[i] = cmdSeqs[i]
      /\ cmdSeqs'[k + 1] = reqSeq
      /\ \A i \in 1..k : cmdSeqs[i] \in Nat
  BY LenProperties, AppendProperties, ElementOfSeq DEF IInv, TypeOK
<1>2. \A x \in Out : x.seq \in Nat /\ x.seq < reqSeq
  BY OutFacts DEF IInv, OrderInv
<1>3. CmdSet' = CmdSet \cup {reqSeq}
  BY <1>1 DEF CmdSet
<1>4. CmdsOrdered'
  <2>1. \A i \in 1..k + 1 : cmdSeqs'[i] < reqSeq + 1
    BY <1>1 DEF OrderInv, CmdsOrdered
  <2>2. \A i, j \in 1..k + 1 : i < j => cmdSeqs'[i] < cmdSeqs'[j]
    <3> TAKE i, j \in 1..k + 1
    <3>1. CASE j \in 1..k
      BY <1>1, <3>1 DEF OrderInv, CmdsOrdered
    <3>2. CASE j = k + 1
      BY <1>1, <3>2 DEF OrderInv, CmdsOrdered
    <3>3. j \in 1..k \/ j = k + 1
      BY <1>1
    <3>4. QED
      BY <3>1, <3>2, <3>3
  <2>3. written = SubSeq(cmdSeqs', 1, Len(written))
    <3>1. Len(written) \in 0..k
      BY <1>1 DEF OrderInv, CmdsOrdered
    <3>2. QED
      BY <1>1, <3>1, PrefixAppend DEF OrderInv, CmdsOrdered, RepliesInOrder
  <2>3a. Len(written) <= k + 1
    BY <1>1 DEF OrderInv, CmdsOrdered
  <2>4. QED
    BY <1>1, <2>1, <2>2, <2>3, <2>3a DEF CmdsOrdered, RepliesInOrder
<1>5. SeqsAccounted'
  <2>1. \A p \in phantoms : p < reqSeq + 1 /\ p \notin CmdSet \cup {reqSeq}
    BY <1>1 DEF OrderInv, SeqsAccounted, TypeOK, IInv
  <2>2. \A x \in Out' : x.seq \in CmdSet' \cup phantoms'
    BY <1>0, <1>3 DEF OrderInv, SeqsAccounted
  <2>3. \A g \in gathered' : g.seq < reqSeq'
    BY <1>1 DEF OrderInv, SeqsAccounted, TypeOK, IInv
  <2>4. QED
    BY <1>3, <2>1, <2>2, <2>3 DEF SeqsAccounted
<1>6. HeapKeys'
  BY DEF OrderInv, HeapKeys
<1>7. SubsFormed'
  <2>1. \A x \in Out' : IF x.of = 0 THEN x.sub = 0 ELSE x.sub < x.of
    BY <1>0 DEF OrderInv, SubsFormed
  <2>2. \A x, y \in Out' : x.seq = y.seq => x.of = y.of
    BY <1>0, <1>2 DEF OrderInv, SubsFormed
  <2>3. \A g \in gathered', x \in Out' :
           g.seq = x.seq => g.sub < x.of /\ g.sub # x.sub
    BY <1>0, <1>1 DEF OrderInv, SubsFormed, SeqsAccounted, IInv, TypeOK
  <2>4. QED
    BY <2>1, <2>2, <2>3 DEF SubsFormed
<1>8. WriterTurn'
  <2> SUFFICES ASSUME ~closed' PROVE WriterTurn'
    BY DEF WriterTurn
  <2>1. rspSeq' <= reqSeq' /\ rspSeq <= reqSeq
    BY <1>1 DEF OrderInv, WriterTurn
  <2>2. \A i \in 1..k + 1 : i <= Len(written) <=> cmdSeqs'[i] < rspSeq
    <3> TAKE i \in 1..k + 1
    <3>1. CASE i \in 1..k
      BY <1>1, <3>1 DEF OrderInv, WriterTurn
    <3>2. CASE i = k + 1
      BY <1>1, <2>1, <3>2 DEF OrderInv, CmdsOrdered
    <3>3. QED
      BY <1>1, <3>1, <3>2
  <2>3. \A x \in Out' : x.seq >= rspSeq
    BY <1>0, <2>1 DEF OrderInv, WriterTurn
  <2>4. \A p \in phantoms : \E e \in Pending' : e.err /\ e.seq < p
    BY DEF OrderInv, WriterTurn
  <2>5. QED
    BY <1>1, <2>1, <2>2, <2>3, <2>4 DEF WriterTurn
<1>9. QED
  BY <1>4, <1>5, <1>6, <1>7, <1>8 DEF OrderInv


\* The elements of a sequence with one more appended.
LEMMA AppendSet ==
    ASSUME NEW S, NEW s \in Seq(S), NEW e \in S
    PROVE  {Append(s, e)[i] : i \in 1..Len(Append(s, e))}
              = {s[i] : i \in 1..Len(s)} \cup {e}
<1>1. /\ Len(Append(s, e)) = Len(s) + 1
      /\ \A i \in 1..Len(s) : Append(s, e)[i] = s[i]
      /\ Append(s, e)[Len(s) + 1] = e
      /\ Len(s) \in Nat
  BY AppendProperties, LenProperties
<1>2. QED
  BY <1>1

\* One command read by ReadingLoop and handled by handle(): it gets the
\* next seq, and either its reply goes on backQ at once (a local reply, an
\* AUTH, a command queued by MULTI) or its requests wait for Schedule.
LEMMA ReadCommandOrder ==
    ASSUME IInv, OrderInv, NEW c \in ClientCmds, ReadCommand(c)
    PROVE  OrderInv'
<1>1. /\ rd = "read" /\ todo = <<>> /\ TodoSet = {}
      /\ heap' = heap
      /\ UNCHANGED <<phantoms, gathered, rspSeq, written, closed>>
  BY EmptySeq DEF ReadCommand, writerVars, OrderInv, TodoIdle, TodoSet
<1>2. ASSUME LocalReply, UNCHANGED <<rd, todo>>
      PROVE  OrderInv'
  <2> DEFINE loc == [seq |-> reqSeq, sub |-> 0, of |-> 0, err |-> FALSE,
                     reply |-> "local"]
  <2>1. loc \in RspRec /\ backQ \in Seq(RspRec)
    BY DEF IInv, TypeOK, RspRec
  <2>2. BackQSet' = BackQSet \cup {loc}
    <3>1. backQ' = Append(backQ, loc)
      BY <1>2 DEF LocalReply
    <3>2. {Append(backQ, loc)[i] : i \in 1..Len(Append(backQ, loc))}
             = BackQSet \cup {loc}
      BY <2>1, AppendSet DEF BackQSet
    <3>3. QED
      BY <3>1, <3>2 DEF BackQSet
  <2>3. Out' = Out \cup {loc} /\ Pending \subseteq Pending'
    BY <1>1, <1>2, <2>2 DEF Out, Pending, TodoSet
  <2>4. TodoIdle'
    BY <1>2 DEF OrderInv, TodoIdle
  <2>5. /\ \A x \in Out' \ Out :
              /\ x.seq = reqSeq /\ x.sub \in Nat /\ x.of \in Nat
              /\ IF x.of = 0 THEN x.sub = 0 ELSE x.sub < x.of
        /\ \A x, y \in Out' \ Out : x.of = y.of
    BY <2>3
  <2>6. QED
    BY <1>1, <1>2, <2>3, <2>4, <2>5, NewCmdOrder DEF LocalReply
<1>3. ASSUME NEW n \in Nat \ {0}, NEW parent \in BOOLEAN, parent \/ n = 1,
             StartRequests(n, parent)
      PROVE  OrderInv'
  <2>1. todo' \in Seq(ReqRec)
    BY <1>1, <1>3, StartRequestsInv DEF IInv
  <2>2. DOMAIN todo' = 1..Len(todo') /\ DOMAIN todo' = 1..n
    BY <1>3, <2>1, LenProperties DEF StartRequests
  <2>3. \A x \in TodoSet' :
           /\ x.seq = reqSeq /\ x.sub \in Nat /\ x.of \in Nat
           /\ IF x.of = 0 THEN x.sub = 0 ELSE x.sub < x.of
           /\ x.of = IF parent THEN n ELSE 0
    BY <1>3, <2>2 DEF StartRequests, TodoSet
  <2>4. Out' = Out \cup TodoSet' /\ Pending' = Pending
    BY <1>1, <1>3 DEF Out, Pending, BackQSet, StartRequests
  <2>5. TodoIdle'
    BY <1>3 DEF StartRequests, TodoIdle
  <2>6. /\ \A x \in Out' \ Out :
              /\ x.seq = reqSeq /\ x.sub \in Nat /\ x.of \in Nat
              /\ IF x.of = 0 THEN x.sub = 0 ELSE x.sub < x.of
        /\ \A x, y \in Out' \ Out : x.of = y.of
    BY <2>3, <2>4
  <2>7. QED
    BY <1>1, <1>3, <2>4, <2>5, <2>6, NewCmdOrder DEF StartRequests
<1>4. CASE Dispatch(c) \in {"noauth", "local", "auth"}
  BY <1>2, <1>4 DEF ReadCommand
<1>5. CASE Dispatch(c) = "multi"
  BY <1>2, <1>5 DEF ReadCommand, HandleMultiCmd
<1>6. CASE Dispatch(c) = "readall"
  <2>1. StartRequests(NServers, TRUE)
    BY <1>6 DEF ReadCommand
  <2>2. NServers \in Nat \ {0}
    BY SessionAssumption
  <2>3. QED
    BY <1>3, <2>1, <2>2
<1>7. CASE Dispatch(c) = "multikey"
  <2>1. StartRequests(NKeys, TRUE)
    BY <1>7 DEF ReadCommand
  <2>2. NKeys \in Nat \ {0}
    BY SessionAssumption
  <2>3. QED
    BY <1>3, <2>1, <2>2
<1>8. CASE Dispatch(c) = "general"
  <2>1. StartRequests(1, FALSE)
    BY <1>8 DEF ReadCommand
  <2>2. 1 \in Nat \ {0} /\ FALSE \in BOOLEAN
    OBVIOUS
  <2>3. QED
    BY <1>3, <2>1, <2>2
<1>9. QED
  BY <1>4, <1>5, <1>6, <1>7, <1>8 DEF ReadCommand


\* The responses left on backQ once WritingLoop has received its head.
TailQSet == {Tail(backQ)[i] : i \in 1..Len(Tail(backQ))}

\* Receiving from backQ takes its head off and leaves the rest, none of
\* them with the head's key.
LEMMA BackQSplit ==
    ASSUME IInv, backQ # <<>>
    PROVE  /\ Head(backQ) \in BackQSet
           /\ BackQSet = TailQSet \cup {Head(backQ)}
           /\ \A x \in TailQSet : Key(x) # Key(Head(backQ))
           /\ \A h \in heap : Key(Head(backQ)) # Key(h)
<1>1. /\ Len(Tail(backQ)) = Len(backQ) - 1
      /\ \A i \in 1..Len(Tail(backQ)) : Tail(backQ)[i] = backQ[i + 1]
      /\ Head(backQ) = backQ[1]
      /\ Len(backQ) \in Nat \ {0}
  BY HeadTailProperties, EmptySeq DEF IInv, TypeOK
<1>2. BackQSet = TailQSet \cup {Head(backQ)}
  <2>1. \A i \in 1..Len(backQ) : i = 1 \/ i - 1 \in 1..Len(Tail(backQ))
    BY <1>1
  <2>2. QED
    BY <1>1, <2>1 DEF BackQSet, TailQSet
<1>3. /\ Apart(Tail(backQ), heap \cup {Head(backQ)})
      /\ \A h \in heap : Key(Head(backQ)) # Key(h)
  BY BackQTail DEF IInv
<1>4. Head(backQ) \in BackQSet
  BY <1>1 DEF BackQSet
<1>5. \A x \in TailQSet : Key(x) # Key(Head(backQ))
  BY <1>3 DEF Apart, TailQSet
<1>6. QED
  BY <1>2, <1>3, <1>4, <1>5

\* One iteration of WritingLoop: the response received from backQ is parked
\* in rspHeap when its turn has not come, or handled.
LEMMA ReceiveOrder ==
    ASSUME IInv, OrderInv, Receive
    PROVE  OrderInv'
<1> DEFINE r == Head(backQ)
<1>1. /\ backQ # <<>>
      /\ BackQSet' = TailQSet
      /\ UNCHANGED readerVars
      /\ TodoSet' = TodoSet
  BY DEF Receive, BackQSet, TailQSet, TodoSet, readerVars
<1>2. /\ r \in BackQSet
      /\ BackQSet = TailQSet \cup {r}
      /\ \A x \in TailQSet : Key(x) # Key(r)
      /\ \A h \in heap : Key(r) # Key(h)
  BY <1>1, BackQSplit
<1>3. CASE r.seq # rspSeq
  <2>1. /\ heap' = heap \cup {r}
        /\ UNCHANGED <<wr, rspSeq, closed, gathered, written>>
    BY <1>3 DEF Receive
  <2>2. Pending' = Pending /\ Out' = Out
    BY <1>1, <1>2, <2>1 DEF Pending, Out
  <2>3. HeapKeys'
    BY <1>2, <2>1 DEF OrderInv, HeapKeys
  <2>4. TodoIdle'
    BY <1>1 DEF OrderInv, TodoIdle, readerVars
  <2>5. \A x \in Out' : \E y \in Out : Like(x, y)
    BY <2>2 DEF Like
  <2>6. QED
    BY <1>1, <2>1, <2>2, <2>3, <2>4, <2>5, FrameOrder DEF readerVars
<1>4. CASE r.seq = rspSeq
  <2>1. HandleResp(r) /\ heap' = heap
    BY <1>4 DEF Receive
  <2>2. /\ r \in Pending
        /\ Pending' \subseteq Pending
        /\ \A x \in Pending' : Key(x) # Key(r)
        /\ \A x \in Pending : Key(x) # Key(r) => x \in Pending'
    BY <1>1, <1>2, <2>1 DEF Pending
  <2>3. HeapKeys'
    BY <2>1 DEF OrderInv, HeapKeys
  <2>4. QED
    BY <1>1, <1>4, <2>1, <2>2, <2>3, HandleOrder
<1>5. QED
  BY <1>3, <1>4

\* The heap loop of handleRespPipeline: a response of the current seq is
\* popped from rspHeap and handled, or the loop returns to receiving.
LEMMA DrainOrder ==
    ASSUME IInv, OrderInv, Drain
    PROVE  OrderInv'
<1> DEFINE top == {r \in heap : \A x \in heap : r.seq <= x.seq}
<1>1. UNCHANGED <<readerVars, backQ>> /\ TodoSet' = TodoSet /\ BackQSet' = BackQSet
  BY DEF Drain, readerVars, TodoSet, BackQSet
<1>2. CASE \E r \in top : r.seq = rspSeq
  <2>1. PICK r \in top : heap' = heap \ {r} /\ HandleResp(r)
    BY <1>2 DEF Drain
  <2>2. r.seq = rspSeq
    <3>1. PICK q \in top : q.seq = rspSeq
      BY <1>2
    <3>2. r.seq \in Nat /\ q.seq \in Nat
      BY DEF IInv, TypeOK, RspRec
    <3>3. QED
      BY <2>1, <3>1, <3>2
  <2>3. /\ r \in Pending
        /\ Pending' \subseteq Pending
        /\ \A x \in Pending' : Key(x) # Key(r)
        /\ \A x \in Pending : Key(x) # Key(r) => x \in Pending'
    BY <1>1, <2>1 DEF Pending, BackQSet, OrderInv, HeapKeys, IInv,
                      KeysDistinct, Apart
  <2>4. HeapKeys'
    BY <2>1 DEF OrderInv, HeapKeys
  <2>5. QED
    BY <1>1, <2>1, <2>2, <2>3, <2>4, HandleOrder
<1>3. CASE ~\E r \in top : r.seq = rspSeq
  <2>1. UNCHANGED <<rspSeq, heap, closed, gathered, written>>
    BY <1>3 DEF Drain
  <2>2. Pending' = Pending /\ Out' = Out
    BY <1>1, <2>1 DEF Pending, Out
  <2>3. \A x \in Out' : \E y \in Out : Like(x, y)
    BY <2>2 DEF Like
  <2>4. QED
    BY <1>1, <2>1, <2>2, <2>3, FrameOrder DEF readerVars, OrderInv, HeapKeys,
                                              TodoIdle
<1>4. QED
  BY <1>2, <1>3


\* Schedule: the backend answers the request taken off the command's list,
\* or the request fails and two responses go on backQ, cleanupInflight's
\* transport error for the request and handleErrorCmd's reply under a seq
\* that no command has (a phantom).
LEMMA ScheduleOrder ==
    ASSUME IInv, OrderInv, Schedule
    PROVE  OrderInv'
<1> DEFINE req == Head(todo)
           ci == CleanupInflight(req)
           ph == [seq |-> reqSeq, sub |-> 0, of |-> 0, err |-> FALSE,
                  reply |-> "local"]
<1>1. /\ todo # <<>>
      /\ req \in ReqRec /\ req \in TodoSet /\ TailSet \subseteq TodoSet
      /\ TodoSet' = TailSet
      /\ backQ \in Seq(RspRec)
      /\ UNCHANGED <<heap, closed, gathered, rspSeq, written>>
  BY TodoTail DEF IInv, Schedule, TodoSet, TailSet, writerVars, TypeOK
<1>2. TodoIdle'
  BY <1>1 DEF Schedule, TodoIdle
<1>3. HeapKeys'
  BY <1>1 DEF OrderInv, HeapKeys
<1>4. \A y \in Out : Like(y, y)
  BY DEF Like
<1>5. CASE \E rsp \in RequestReplies(req) :
              /\ backQ' = Append(backQ, rsp)
              /\ UNCHANGED <<reqSeq, cmdSeqs, phantoms>>
  <2>1. PICK rsp \in RequestReplies(req) :
           /\ backQ' = Append(backQ, rsp)
           /\ UNCHANGED <<reqSeq, cmdSeqs, phantoms>>
    BY <1>5
  <2>2. rsp \in RspRec /\ Like(rsp, req)
    <3>1. PICK reply \in BackendReplies : rsp = Rsp(req, FALSE, reply)
      BY DEF RequestReplies
    <3>2. QED
      BY <1>1, <3>1 DEF Rsp, RspRec, ReqRec, BackendReplies, Like
  <2>3. Pending' = Pending \cup {rsp} /\ Out' = Pending' \cup TailSet
    BY <1>1, <2>1, <2>2, AppendSet DEF Pending, BackQSet, Out
  <2>4. \A x \in Out' : \E y \in Out : Like(x, y)
    BY <1>1, <1>4, <2>2, <2>3 DEF Out
  <2>5. QED
    BY <1>1, <1>2, <1>3, <2>1, <2>3, <2>4, FrameOrder
<1>6. CASE /\ backQ' = Append(Append(backQ, ci), ph)
           /\ reqSeq' = reqSeq + 1
           /\ phantoms' = phantoms \cup {reqSeq}
           /\ UNCHANGED cmdSeqs
  <2>1. /\ ci \in RspRec /\ ph \in RspRec /\ Like(ci, req) /\ ci.err
        /\ Append(backQ, ci) \in Seq(RspRec)
    <3>1. ci \in RspRec /\ Like(ci, req) /\ ci.err
      BY <1>1 DEF CleanupInflight, Rsp, RspRec, ReqRec, BackendReplies, Like
    <3>2. ph \in RspRec
      BY DEF IInv, TypeOK, RspRec
    <3>3. QED
      BY <1>1, <3>1, <3>2, AppendProperties
  <2>2. /\ Pending' = Pending \cup {ci, ph}
        /\ Out' = Pending' \cup TailSet
    BY <1>1, <1>6, <2>1, AppendSet DEF Pending, BackQSet, Out
  <2>3. \A x \in Out' : x = ph \/ \E y \in Out : Like(x, y)
    BY <1>1, <1>4, <2>1, <2>2 DEF Out
  <2>4. /\ reqSeq \in Nat /\ req.seq < reqSeq
        /\ \A x \in Out : x.seq \in Nat /\ x.seq < reqSeq
        /\ \A i \in 1..Len(cmdSeqs) : cmdSeqs[i] < reqSeq
        /\ \A g \in gathered : g.seq \in Nat /\ g.seq < reqSeq
    BY <1>1, OutFacts DEF IInv, TypeOK, OrderInv, CmdsOrdered, SeqsAccounted,
                          Out
  <2>5. CmdsOrdered'
    BY <1>1, <1>6, <2>4 DEF OrderInv, CmdsOrdered, RepliesInOrder, IInv, TypeOK
  <2>6. SeqsAccounted'
    <3>1. CmdSet' = CmdSet /\ reqSeq \notin CmdSet
      BY <1>6, <2>4 DEF CmdSet
    <3>2. \A p \in phantoms' : p < reqSeq' /\ p \notin CmdSet'
      BY <1>6, <2>4, <3>1 DEF OrderInv, SeqsAccounted, IInv, TypeOK
    <3>3. \A x \in Out' : x.seq \in CmdSet' \cup phantoms'
      BY <1>6, <2>3, <3>1 DEF OrderInv, SeqsAccounted, Like
    <3>4. \A g \in gathered' : g.seq < reqSeq'
      BY <1>1, <1>6, <2>4
    <3>5. QED
      BY <3>2, <3>3, <3>4 DEF SeqsAccounted
  <2>7. SubsFormed'
    <3>1. \A x \in Out' : IF x.of = 0 THEN x.sub = 0 ELSE x.sub < x.of
      BY <2>3 DEF OrderInv, SubsFormed, Like
    <3>2. \A x, y \in Out' : x.seq = y.seq => x.of = y.of
      <4> TAKE x, y \in Out'
      <4>1. CASE x = ph /\ y = ph
        BY <4>1
      <4>2. CASE x # ph /\ y # ph
        BY <2>3, <4>2 DEF OrderInv, SubsFormed, Like
      <4>3. CASE x = ph /\ y # ph
        BY <2>3, <2>4, <4>3 DEF Like
      <4>4. CASE x # ph /\ y = ph
        BY <2>3, <2>4, <4>4 DEF Like
      <4>5. QED
        BY <4>1, <4>2, <4>3, <4>4
    <3>3. \A g \in gathered', x \in Out' :
             g.seq = x.seq => g.sub < x.of /\ g.sub # x.sub
      BY <1>1, <2>3, <2>4 DEF OrderInv, SubsFormed, Like
    <3>4. QED
      BY <3>1, <3>2, <3>3 DEF SubsFormed
  <2>8. WriterTurn'
    <3> SUFFICES ASSUME ~closed' PROVE WriterTurn'
      BY DEF WriterTurn
    <3>1. rspSeq' <= reqSeq' /\ rspSeq <= reqSeq /\ rspSeq \in Nat
      BY <1>1, <1>6, <2>4 DEF OrderInv, WriterTurn, IInv, TypeOK
    <3>2. \A i \in 1..Len(cmdSeqs') : i <= Len(written') <=> cmdSeqs'[i] < rspSeq'
      BY <1>1, <1>6 DEF OrderInv, WriterTurn
    <3>3. \A x \in Out' : x.seq >= rspSeq'
      BY <1>1, <2>3, <3>1 DEF OrderInv, WriterTurn, Like
    <3>4. \A p \in phantoms' : \E e \in Pending' : e.err /\ e.seq < p
      <4>1. ci \in Pending' /\ ci.err /\ ci.seq < reqSeq
        BY <2>1, <2>2, <2>4 DEF Like
      <4>2. QED
        BY <1>1, <1>6, <2>2, <4>1 DEF OrderInv, WriterTurn
    <3>5. QED
      BY <3>1, <3>2, <3>3, <3>4 DEF WriterTurn
  <2>9. QED
    BY <1>2, <1>3, <2>5, <2>6, <2>7, <2>8 DEF OrderInv
<1>7. QED
  BY <1>5, <1>6 DEF Schedule


\* The steps that only move a goroutine on (ReadCommand's error, close of
\* backQ, the two goroutines returning) and the final stutter.
LEMMA QuietOrder ==
    ASSUME IInv, OrderInv,
           ReadEOF \/ CloseBackQ \/ ReaderExit \/ WriterExit \/ Terminated
           \/ UNCHANGED vars
    PROVE  OrderInv'
<1>1. /\ UNCHANGED <<todo, reqSeq, cmdSeqs, phantoms, backQ, rspSeq, heap,
                     gathered, written>>
      /\ closed' \/ closed' = closed
      /\ rd' = rd \/ rd # "sched"
  BY DEF ReadEOF, CloseBackQ, ReaderExit, WriterExit, Terminated, vars,
         writerVars, readerVars
<1>2. Pending' = Pending /\ Out' = Out
  BY <1>1 DEF Pending, Out, BackQSet, TodoSet
<1>3. TodoIdle'
  BY <1>1 DEF OrderInv, TodoIdle
<1>4. \A x \in Out' : \E y \in Out : Like(x, y)
  BY <1>2 DEF Like
<1>5. QED
  BY <1>1, <1>2, <1>3, <1>4, FrameOrder DEF OrderInv, HeapKeys

LEMMA InitOrder ==
    Init => OrderInv
<1> SUFFICES ASSUME Init PROVE OrderInv
  OBVIOUS
<1>1. /\ Len(cmdSeqs) = 0 /\ Len(written) = 0 /\ Len(backQ) = 0
      /\ Len(todo) = 0
  BY EmptySeq DEF Init
<1>2. Out = {} /\ CmdSet = {}
  BY <1>1 DEF Init, Out, Pending, BackQSet, TodoSet, CmdSet
<1>3. written = SubSeq(cmdSeqs, 1, 0)
  BY SubSeqEmpty DEF Init
<1>4. QED
  BY <1>1, <1>2, <1>3 DEF Init, OrderInv, CmdsOrdered, RepliesInOrder,
                          SeqsAccounted, HeapKeys, TodoIdle, SubsFormed,
                          WriterTurn

LEMMA NextOrder ==
    IInv /\ OrderInv /\ [Next]_vars => OrderInv'
<1> SUFFICES ASSUME IInv, OrderInv, [Next]_vars PROVE OrderInv'
  OBVIOUS
<1>1. CASE \E c \in ClientCmds : ReadCommand(c)
  BY <1>1, ReadCommandOrder
<1>2. CASE Schedule
  BY <1>2, ScheduleOrder
<1>3. CASE Receive
  BY <1>3, ReceiveOrder
<1>4. CASE Drain
  BY <1>4, DrainOrder
<1>5. CASE ReadEOF \/ CloseBackQ \/ ReaderExit \/ WriterExit \/ Terminated
           \/ UNCHANGED vars
  BY <1>5, QuietOrder
<1>6. QED
  BY <1>1, <1>2, <1>3, <1>4, <1>5 DEF Next

-----------------------------------------------------------------------------
(* The theorem *)

\* Per-session ordering (handleRespPipeline with its rspHeap, writeResp,
\* getNextReqSeq): in every behaviour, the replies written to the client
\* are those of its own commands, the i-th reply the i-th command's, none
\* skipped, repeated, or sent for the seq Schedule's error path hands to no
\* command.
THEOREM RepliesOrdered ==
    Spec => []RepliesInOrder
<1>1. Init => IInv /\ OrderInv
  BY InitIInv, InitOrder
<1>2. IInv /\ OrderInv /\ [Next]_vars => IInv' /\ OrderInv'
  BY NextIInv, NextOrder
<1>3. OrderInv => RepliesInOrder
  BY DEF OrderInv, CmdsOrdered
<1>4. QED
  BY <1>1, <1>2, <1>3, PTL DEF Spec

=============================================================================
