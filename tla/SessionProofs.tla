--------------------------- MODULE SessionProofs ---------------------------
(***************************************************************************)
(* Proofs about Session, for every value of the constants: the session's   *)
(* state stays well typed, and the WaitGroup reqWg counts exactly the      *)
(* responses the writer has still to handle, so it never goes negative (a  *)
(* negative WaitGroup counter panics in Go) and reqWg.Wait() returns only   *)
(* once backQ and rspHeap are empty.                                       *)
(*                                                                         *)
(* Counting needs more than the count: when the writer parks a response in *)
(* rspHeap the heap must grow by one, so that response must not be in it   *)
(* already.  Responses are told apart by their request (seq, subSeq): the  *)
(* inductive invariant IInv adds that the responses on backQ, those in     *)
(* rspHeap and the requests still to be scheduled all have distinct keys,  *)
(* and seqs that getNextReqSeq has already handed out.                     *)
(***************************************************************************)
EXTENDS Session, FiniteSetTheorems, SequenceTheorems, TLAPS

\* A response, or a request, is identified by its seq and subSeq.
Key(r) == <<r.seq, r.sub>>

\* The elements of the sequence s have pairwise distinct keys.
DistinctKeys(s) == \A i, j \in 1..Len(s) : i # j => Key(s[i]) # Key(s[j])

\* No element of the sequence s has the key of an element of the set H.
Apart(s, H) == \A i \in 1..Len(s) : \A h \in H : Key(s[i]) # Key(h)

\* The requests of the current command that are still to be scheduled.
TodoSet == {todo[i] : i \in 1..Len(todo)}

KeysDistinct ==
    /\ DistinctKeys(backQ)
    /\ Apart(backQ, heap)
    /\ Apart(backQ, TodoSet)
    /\ \A h \in heap : \A t \in TodoSet : Key(h) # Key(t)
    /\ \A i, j \in 1..Len(todo) : i # j => todo[i].sub # todo[j].sub
    /\ \A i \in 1..Len(todo) : todo[i].seq = todo[1].seq

SeqsIssued ==
    /\ \A i \in 1..Len(backQ) : backQ[i].seq < reqSeq
    /\ \A h \in heap : h.seq < reqSeq
    /\ \A t \in TodoSet : t.seq < reqSeq

\* The inductive invariant.
IInv ==
    /\ TypeOK
    /\ IsFiniteSet(heap)
    /\ rd = "sched" => todo # <<>>
    /\ WaitGroupCountsPending
    /\ KeysDistinct
    /\ SeqsIssued

-----------------------------------------------------------------------------
(* Lemmas on sequences of responses *)

\* Appending a response whose key is new keeps the keys distinct.
LEMMA AppendDistinct ==
    ASSUME NEW s \in Seq(RspRec), NEW e \in RspRec,
           DistinctKeys(s),
           \A i \in 1..Len(s) : Key(s[i]) # Key(e)
    PROVE  DistinctKeys(Append(s, e))
<1> DEFINE t == Append(s, e)
<1>1. /\ Len(s) \in Nat
      /\ Len(t) = Len(s) + 1
      /\ \A i \in 1..Len(s) : t[i] = s[i]
      /\ t[Len(s) + 1] = e
  BY AppendProperties, LenProperties
<1> SUFFICES ASSUME NEW i \in 1..Len(t), NEW j \in 1..Len(t), i # j
             PROVE  Key(t[i]) # Key(t[j])
  BY DEF DistinctKeys
<1>2. CASE i \in 1..Len(s) /\ j \in 1..Len(s)
  BY <1>1, <1>2 DEF DistinctKeys
<1>3. CASE i \in 1..Len(s) /\ j = Len(s) + 1
  BY <1>1, <1>3
<1>4. CASE i = Len(s) + 1 /\ j \in 1..Len(s)
  BY <1>1, <1>4
<1>5. QED
  BY <1>1, <1>2, <1>3, <1>4

\* Appending a response whose key is not in H keeps the sequence apart from H.
LEMMA AppendApart ==
    ASSUME NEW s \in Seq(RspRec), NEW e \in RspRec, NEW H,
           Apart(s, H),
           \A h \in H : Key(e) # Key(h)
    PROVE  Apart(Append(s, e), H)
<1> DEFINE t == Append(s, e)
<1>1. /\ Len(s) \in Nat
      /\ Len(t) = Len(s) + 1
      /\ \A i \in 1..Len(s) : t[i] = s[i]
      /\ t[Len(s) + 1] = e
  BY AppendProperties, LenProperties
<1> SUFFICES ASSUME NEW i \in 1..Len(t), NEW h \in H
             PROVE  Key(t[i]) # Key(h)
  BY DEF Apart
<1>2. CASE i \in 1..Len(s)
  BY <1>1, <1>2 DEF Apart
<1>3. CASE i = Len(s) + 1
  BY <1>1, <1>3
<1>4. QED
  BY <1>1, <1>2, <1>3

\* Taking the head off a sequence with distinct keys: the rest keeps
\* distinct keys, none of them the head's.
LEMMA TailDistinct ==
    ASSUME NEW s \in Seq(RspRec), s # <<>>, DistinctKeys(s)
    PROVE  /\ DistinctKeys(Tail(s))
           /\ Apart(Tail(s), {Head(s)})
<1>1. /\ Len(s) \in Nat \ {0}
      /\ Len(Tail(s)) = Len(s) - 1
      /\ \A i \in 1..Len(Tail(s)) : Tail(s)[i] = s[i + 1]
      /\ Head(s) = s[1]
  BY HeadTailProperties, EmptySeq
<1>2. DistinctKeys(Tail(s))
  BY <1>1 DEF DistinctKeys
<1>3. Apart(Tail(s), {Head(s)})
  BY <1>1 DEF DistinctKeys, Apart
<1>4. QED
  BY <1>2, <1>3

\* The head and the tail of a sequence apart from H are apart from H.
LEMMA TailApart ==
    ASSUME NEW s \in Seq(RspRec), s # <<>>, NEW H, Apart(s, H)
    PROVE  /\ Apart(Tail(s), H)
           /\ \A h \in H : Key(Head(s)) # Key(h)
<1>1. /\ Len(s) \in Nat \ {0}
      /\ Len(Tail(s)) = Len(s) - 1
      /\ \A i \in 1..Len(Tail(s)) : Tail(s)[i] = s[i + 1]
      /\ Head(s) = s[1]
  BY HeadTailProperties, EmptySeq
<1>2. QED
  BY <1>1 DEF Apart

\* Apart from a set, apart from each of its parts.
LEMMA ApartUnion ==
    ASSUME NEW s, NEW H, NEW G
    PROVE  Apart(s, H \cup G) <=> Apart(s, H) /\ Apart(s, G)
BY DEF Apart

LEMMA ApartSubset ==
    ASSUME NEW s, NEW H, NEW G \in SUBSET H, Apart(s, H)
    PROVE  Apart(s, G)
BY DEF Apart

-----------------------------------------------------------------------------
(* Lemmas on the steps the actions are made of *)

\* The elements of the two sequences of the session are well typed.
LEMMA ElemTypes ==
    ASSUME TypeOK
    PROVE  /\ \A i \in 1..Len(backQ) : backQ[i] \in RspRec
           /\ \A i \in 1..Len(todo) : todo[i] \in ReqRec
           /\ Len(backQ) \in Nat /\ Len(todo) \in Nat
<1>1. \A i \in 1..Len(backQ) : backQ[i] \in RspRec
  <2> TAKE i \in 1..Len(backQ)
  <2> QED  BY ElementOfSeq DEF TypeOK
<1>2. \A i \in 1..Len(todo) : todo[i] \in ReqRec
  <2> TAKE i \in 1..Len(todo)
  <2> QED  BY ElementOfSeq DEF TypeOK
<1>3. QED
  BY <1>1, <1>2, LenProperties DEF TypeOK

\* The seqs of pending responses and requests are numbers.
LEMMA PendingSeqs ==
    ASSUME TypeOK
    PROVE  /\ reqSeq \in Nat
           /\ \A i \in 1..Len(backQ) : backQ[i].seq \in Nat
           /\ \A h \in heap : h.seq \in Nat
           /\ \A t \in TodoSet : t.seq \in Nat
<1>1. \A i \in 1..Len(todo) : todo[i].seq \in Nat
  BY ElemTypes DEF ReqRec
<1>2. QED
  BY <1>1, ElemTypes DEF TypeOK, RspRec, TodoSet

\* A record whose seq is reqSeq has a key no pending response or request
\* has: getNextReqSeq hands out a seq once.
LEMMA FreshKeys ==
    ASSUME TypeOK, SeqsIssued, NEW n, n.seq = reqSeq
    PROVE  /\ \A i \in 1..Len(backQ) : Key(backQ[i]) # Key(n)
           /\ \A h \in heap : Key(n) # Key(h)
           /\ \A t \in TodoSet : Key(n) # Key(t)
<1>1. /\ reqSeq \in Nat
      /\ \A i \in 1..Len(backQ) : backQ[i].seq \in Nat
      /\ \A h \in heap : h.seq \in Nat
      /\ \A t \in TodoSet : t.seq \in Nat
  BY PendingSeqs
<1>2. \A i \in 1..Len(backQ) : Key(backQ[i]) # Key(n)
  BY <1>1 DEF SeqsIssued, Key
<1>3. \A h \in heap : Key(n) # Key(h)
  BY <1>1 DEF SeqsIssued, Key
<1>4. \A t \in TodoSet : Key(n) # Key(t)
  BY <1>1 DEF SeqsIssued, Key
<1>5. QED
  BY <1>2, <1>3, <1>4

\* Every response of a sequence whose seqs are below k has a key other than
\* that of a record with seq k.
LEMMA BelowKeys ==
    ASSUME NEW s \in Seq(RspRec), NEW k \in Nat, NEW n, n.seq = k,
           \A i \in 1..Len(s) : s[i].seq < k
    PROVE  /\ \A i \in 1..Len(s) : Key(s[i]) # Key(n)
           /\ \A i \in 1..Len(s) : s[i].seq < k + 1
<1>1. \A i \in 1..Len(s) : s[i].seq \in Nat
  <2> TAKE i \in 1..Len(s)
  <2>1. s[i] \in RspRec
    BY ElementOfSeq
  <2>2. QED
    BY <2>1 DEF RspRec
<1>2. QED
  BY <1>1 DEF Key

\* A response handled by handleResp leaves the writer's state well typed and
\* takes exactly one off the WaitGroup.
LEMMA HandleRespTypes ==
    ASSUME TypeOK, NEW r \in RspRec, HandleResp(r)
    PROVE  /\ reqWg' = reqWg - 1
           /\ rspSeq' \in Nat
           /\ closed' \in BOOLEAN
           /\ gathered' \subseteq [seq : Nat, sub : Nat]
           /\ written' \in Seq(Nat)
           /\ clientGone' \in BOOLEAN
           /\ wr' \in {"recv", "drain"}
           /\ reloadPending' \in BOOLEAN
<1> USE DEF TypeOK, RspRec
<1>1. CASE /\ r.err \/ r.reply \in {"moved", "ask"}
           /\ rspSeq' = NextRspSeq(r)
           /\ WriterClose
           /\ wr' = "recv"
           /\ UNCHANGED <<gathered, written, clientGone>>
  BY <1>1 DEF HandleResp, NextRspSeq, WriterClose
<1>2. CASE ~r.err /\ WriteResp(r)
  <2>1. ASSUME NEW seq \in Nat, WriteClient(seq)
        PROVE  /\ written' \in Seq(Nat) /\ closed' \in BOOLEAN
               /\ clientGone' \in BOOLEAN /\ wr' \in {"recv", "drain"}
    <3>1. Append(written, seq) \in Seq(Nat)
      BY AppendProperties
    <3>2. QED
      BY <2>1, <3>1 DEF WriteClient, WriterClose
  <2>2. NextRspSeq(r) \in Nat
    BY DEF NextRspSeq
  <2>3. [seq |-> r.seq, sub |-> r.sub] \in [seq : Nat, sub : Nat]
    OBVIOUS
  <2>4. QED
    BY <1>2, <2>1, <2>2, <2>3 DEF WriteResp, HandleResp
<1>3. QED
  BY <1>1, <1>2 DEF HandleResp

\* A step that leaves backQ, rspHeap, the requests to schedule, reqSeq and
\* reqWg alone keeps the counting, the keys and the seqs.
LEMMA FrameInv ==
    ASSUME IsFiniteSet(heap), WaitGroupCountsPending, KeysDistinct, SeqsIssued,
           backQ' = backQ, heap' = heap, todo' = todo, reqSeq' = reqSeq,
           reqWg' = reqWg
    PROVE  /\ IsFiniteSet(heap')
           /\ WaitGroupCountsPending'
           /\ KeysDistinct'
           /\ SeqsIssued'
BY DEF WaitGroupCountsPending, KeysDistinct, SeqsIssued, TodoSet

\* handleErrorCmd / handleSimpleStringCmd: the local reply has a fresh seq,
\* and reqWg.Add(1) matches the response put on backQ.
LEMMA LocalReplyInv ==
    ASSUME TypeOK, IsFiniteSet(heap), WaitGroupCountsPending, KeysDistinct,
           SeqsIssued, LocalReply, todo' = todo, heap' = heap
    PROVE  /\ reqSeq' \in Nat
           /\ cmdSeqs' \in Seq(Nat)
           /\ reqWg' \in Nat
           /\ backQ' \in Seq(RspRec)
           /\ IsFiniteSet(heap')
           /\ WaitGroupCountsPending'
           /\ KeysDistinct'
           /\ SeqsIssued'
<1> DEFINE n == [seq |-> reqSeq, sub |-> 0, of |-> 0, err |-> FALSE,
                 reply |-> "local"]
<1>1. n \in RspRec /\ backQ' = Append(backQ, n) /\ reqSeq' = reqSeq + 1
  BY DEF LocalReply, RspRec, TypeOK
<1>2. /\ Len(backQ') = Len(backQ) + 1
      /\ \A i \in 1..Len(backQ) : backQ'[i] = backQ[i]
      /\ backQ'[Len(backQ) + 1] = n
      /\ backQ' \in Seq(RspRec)
  BY <1>1, AppendProperties DEF TypeOK
<1>3. WaitGroupCountsPending'
  <2>1. Cardinality(heap) \in Nat
    BY FS_CardinalityType
  <2>2. reqWg' = reqWg + 1
    BY DEF LocalReply
  <2>3. QED
    BY <1>2, <2>1, <2>2 DEF WaitGroupCountsPending, TypeOK
<1>4. KeysDistinct'
  <2>1. \A i \in 1..Len(backQ) : Key(backQ[i]) # Key(n)
    BY FreshKeys
  <2>2. \A h \in heap : Key(n) # Key(h)
    BY FreshKeys
  <2>3. \A t \in TodoSet : Key(n) # Key(t)
    BY FreshKeys
  <2>4. DistinctKeys(backQ')
    BY <1>1, <2>1, AppendDistinct DEF KeysDistinct, TypeOK
  <2>5. Apart(backQ', heap) /\ Apart(backQ', TodoSet)
    BY <1>1, <2>2, <2>3, AppendApart DEF KeysDistinct, TypeOK
  <2>6. TodoSet' = TodoSet
    BY DEF TodoSet
  <2>7. QED
    BY <2>4, <2>5, <2>6 DEF KeysDistinct
<1>5. SeqsIssued'
  <2>1. \A i \in 1..Len(backQ) : backQ[i].seq < reqSeq /\ backQ[i].seq \in Nat
    BY ElemTypes DEF SeqsIssued, RspRec
  <2>2. \A i \in 1..Len(backQ') : backQ'[i].seq < reqSeq'
    <3> TAKE i \in 1..Len(backQ')
    <3>1. Len(backQ) \in Nat /\ reqSeq \in Nat
      BY ElemTypes DEF TypeOK
    <3>2. CASE i \in 1..Len(backQ)
      BY <1>1, <1>2, <2>1, <3>1, <3>2
    <3>3. CASE i = Len(backQ) + 1
      BY <1>1, <1>2, <3>1, <3>3
    <3>4. QED
      BY <1>2, <3>1, <3>2, <3>3
  <2>3. /\ \A h \in heap : h.seq < reqSeq'
        /\ \A t \in TodoSet : t.seq < reqSeq'
    BY <1>1, PendingSeqs DEF SeqsIssued
  <2>4. TodoSet' = TodoSet
    BY DEF TodoSet
  <2>5. QED
    BY <2>2, <2>3, <2>4 DEF SeqsIssued
<1>6. QED
  BY <1>1, <1>2, <1>3, <1>4, <1>5, AppendProperties
  DEF LocalReply, TypeOK

\* handleGeneralCmd / handleMultiKeyCmd / handleReadAll: the n requests of
\* the command share its fresh seq and have distinct subSeqs.
LEMMA StartRequestsInv ==
    ASSUME TypeOK, IsFiniteSet(heap), WaitGroupCountsPending, KeysDistinct,
           SeqsIssued, NEW n \in Nat \ {0}, NEW parent \in BOOLEAN,
           StartRequests(n, parent), heap' = heap
    PROVE  /\ todo' \in Seq(ReqRec)
           /\ todo' # <<>>
           /\ reqSeq' \in Nat
           /\ cmdSeqs' \in Seq(Nat)
           /\ IsFiniteSet(heap')
           /\ WaitGroupCountsPending'
           /\ KeysDistinct'
           /\ SeqsIssued'
<1> DEFINE rec(i) == [seq |-> reqSeq, sub |-> i - 1,
                      of |-> IF parent THEN n ELSE 0]
<1>1. /\ todo' = [i \in 1..n |-> rec(i)]
      /\ reqSeq' = reqSeq + 1
      /\ backQ' = backQ
      /\ reqWg' = reqWg
  BY DEF StartRequests
<1>2. todo' \in [1..n -> ReqRec]
  BY <1>1 DEF ReqRec, TypeOK
<1>3. todo' \in Seq(ReqRec) /\ Len(todo') = n
  <2>1. todo' \in Seq(ReqRec)
    BY <1>2, SeqDef
  <2>2. DOMAIN todo' = 1..Len(todo') /\ Len(todo') \in Nat
    BY <2>1, LenProperties
  <2>3. QED
    BY <1>1, <2>1, <2>2
<1>4. todo' # <<>>
  BY <1>3, EmptySeq
<1>5. \A t \in TodoSet' : t.seq = reqSeq
  BY <1>1, <1>3 DEF TodoSet
<1>9. /\ \A i \in 1..Len(backQ) : \A t \in TodoSet' : Key(backQ[i]) # Key(t)
      /\ \A h \in heap : \A t \in TodoSet' : Key(h) # Key(t)
  <2> SUFFICES ASSUME NEW t \in TodoSet'
               PROVE  /\ \A i \in 1..Len(backQ) : Key(backQ[i]) # Key(t)
                      /\ \A h \in heap : Key(h) # Key(t)
    OBVIOUS
  <2>1. t.seq = reqSeq
    BY <1>5
  <2>2. QED
    BY <2>1, FreshKeys
<1>6. KeysDistinct'
  <2>1. Apart(backQ', TodoSet')
    BY <1>1, <1>9 DEF Apart
  <2>2. \A h \in heap' : \A t \in TodoSet' : Key(h) # Key(t)
    BY <1>9
  <2>3. \A i, j \in 1..Len(todo') : i # j => todo'[i].sub # todo'[j].sub
    BY <1>1, <1>3
  <2>4. \A i \in 1..Len(todo') : todo'[i].seq = todo'[1].seq
    BY <1>1, <1>3
  <2>5. QED
    BY <1>1, <2>1, <2>2, <2>3, <2>4 DEF KeysDistinct
<1>7. SeqsIssued'
  <2>1. \A i \in 1..Len(backQ) : backQ[i].seq \in Nat
    BY ElemTypes DEF RspRec
  <2>2. \A h \in heap : h.seq \in Nat
    BY DEF TypeOK, RspRec
  <2>3. QED
    BY <1>1, <1>5, <2>1, <2>2 DEF SeqsIssued, TypeOK
<1>10. reqSeq' \in Nat /\ cmdSeqs' \in Seq(Nat)
  <2>1. reqSeq \in Nat /\ cmdSeqs \in Seq(Nat)
    BY DEF TypeOK
  <2>2. cmdSeqs' = Append(cmdSeqs, reqSeq)
    BY DEF StartRequests
  <2>3. QED
    BY <1>1, <2>1, <2>2, AppendProperties
<1>11. WaitGroupCountsPending'
  BY <1>1 DEF WaitGroupCountsPending
<1>8. QED
  BY <1>3, <1>4, <1>6, <1>7, <1>10, <1>11

\* The requests left once Schedule has taken the first.
TailSet == {Tail(todo)[i] : i \in 1..Len(Tail(todo))}

\* The request Schedule takes is one of the command's, and the requests
\* left keep their shared seq and distinct subSeqs, none of them its key.
LEMMA TodoTail ==
    ASSUME TypeOK, KeysDistinct, todo # <<>>
    PROVE  /\ Tail(todo) \in Seq(ReqRec)
           /\ Head(todo) \in ReqRec
           /\ Head(todo) \in TodoSet
           /\ TailSet \subseteq TodoSet
           /\ \A t \in TailSet : Key(t) # Key(Head(todo))
           /\ \A i, j \in 1..Len(Tail(todo)) :
                 i # j => Tail(todo)[i].sub # Tail(todo)[j].sub
           /\ \A i \in 1..Len(Tail(todo)) :
                 Tail(todo)[i].seq = Tail(todo)[1].seq
<1>1. /\ Len(todo) \in Nat \ {0}
      /\ Tail(todo) \in Seq(ReqRec)
      /\ Head(todo) \in ReqRec
      /\ Len(Tail(todo)) = Len(todo) - 1
      /\ \A i \in 1..Len(Tail(todo)) : Tail(todo)[i] = todo[i + 1]
      /\ Head(todo) = todo[1]
  BY HeadTailProperties, EmptySeq DEF TypeOK
<1>2. Head(todo) \in TodoSet /\ TailSet \subseteq TodoSet
  BY <1>1 DEF TodoSet, TailSet
<1>3. \A t \in TailSet : Key(t) # Key(Head(todo))
  BY <1>1 DEF KeysDistinct, TailSet, Key
<1>4. QED
  BY <1>1, <1>2, <1>3 DEF KeysDistinct

\* The response Schedule puts on backQ for the request it took (a reply, or
\* cleanupInflight's error) has a key no pending response or request has.
LEMMA ScheduleAppend ==
    ASSUME TypeOK, KeysDistinct, SeqsIssued, todo # <<>>,
           NEW e \in RspRec, Key(e) = Key(Head(todo))
    PROVE  /\ Append(backQ, e) \in Seq(RspRec)
           /\ Len(Append(backQ, e)) = Len(backQ) + 1
           /\ DistinctKeys(Append(backQ, e))
           /\ Apart(Append(backQ, e), heap)
           /\ Apart(Append(backQ, e), TailSet)
           /\ \A i \in 1..Len(Append(backQ, e)) : Append(backQ, e)[i].seq < reqSeq
<1>1. /\ Head(todo) \in TodoSet
      /\ TailSet \subseteq TodoSet
      /\ \A t \in TailSet : Key(t) # Key(Head(todo))
  BY TodoTail
<1>2. e.seq < reqSeq
  BY <1>1 DEF SeqsIssued, Key
<1>3. DistinctKeys(Append(backQ, e))
  <2>1. \A i \in 1..Len(backQ) : Key(backQ[i]) # Key(e)
    BY <1>1 DEF KeysDistinct, Apart
  <2>2. QED
    BY <2>1, AppendDistinct DEF KeysDistinct, TypeOK
<1>4. Apart(Append(backQ, e), heap)
  BY <1>1, AppendApart DEF KeysDistinct, TypeOK
<1>5. Apart(Append(backQ, e), TailSet)
  <2>1. Apart(backQ, TailSet)
    BY <1>1, ApartSubset DEF KeysDistinct
  <2>2. QED
    BY <1>1, <2>1, AppendApart DEF TypeOK
<1>6. /\ Append(backQ, e) \in Seq(RspRec)
      /\ Len(Append(backQ, e)) = Len(backQ) + 1
      /\ \A i \in 1..Len(backQ) : Append(backQ, e)[i] = backQ[i]
      /\ Append(backQ, e)[Len(backQ) + 1] = e
      /\ Len(backQ) \in Nat
  BY AppendProperties, LenProperties DEF TypeOK
<1>7. \A i \in 1..Len(Append(backQ, e)) : Append(backQ, e)[i].seq < reqSeq
  <2> TAKE i \in 1..Len(Append(backQ, e))
  <2>1. CASE i \in 1..Len(backQ)
    BY <1>6, <2>1 DEF SeqsIssued
  <2>2. CASE i = Len(backQ) + 1
    BY <1>2, <1>6, <2>2
  <2>3. QED
    BY <1>6, <2>1, <2>2
<1>8. QED
  BY <1>3, <1>4, <1>5, <1>6, <1>7

\* The responses BackendServer.Request and cleanupInflight give for a
\* request are responses to that very request.
LEMMA RequestRspTypes ==
    ASSUME NEW req \in ReqRec
    PROVE  /\ \A e \in RequestReplies(req) : e \in RspRec /\ Key(e) = Key(req)
           /\ CleanupInflight(req) \in RspRec
           /\ Key(CleanupInflight(req)) = Key(req)
<1>1. \A e \in RequestReplies(req) : e \in RspRec /\ Key(e) = Key(req)
  <2> TAKE e \in RequestReplies(req)
  <2>1. PICK reply \in BackendReplies : e = Rsp(req, FALSE, reply)
    BY DEF RequestReplies
  <2>2. QED
    BY <2>1 DEF Rsp, RspRec, ReqRec, BackendReplies, Key
<1>2. QED
  BY <1>1 DEF CleanupInflight, Rsp, RspRec, ReqRec, BackendReplies, Key

\* Schedule: whether the backend answers or the request fails (answered by
\* cleanupInflight and once more by handleErrorCmd with a fresh seq), every
\* response put on backQ is matched by a reqWg.Add.
LEMMA ScheduleInv ==
    ASSUME IInv, Schedule
    PROVE  IInv'
<1> USE DEF IInv
<1>1. /\ todo # <<>>
      /\ todo' = Tail(todo)
      /\ rd' \in {"read", "sched"}
      /\ rd' = "sched" => todo' # <<>>
      /\ UNCHANGED <<auth, multiCmd, multiCmdErr, backQClosed, writerVars,
                     reloadPending>>
  BY DEF Schedule
<1>2. /\ Tail(todo) \in Seq(ReqRec)
      /\ Head(todo) \in ReqRec
      /\ TodoSet' = TailSet
      /\ \A i, j \in 1..Len(todo') : i # j => todo'[i].sub # todo'[j].sub
      /\ \A i \in 1..Len(todo') : todo'[i].seq = todo'[1].seq
  BY <1>1, TodoTail DEF TodoSet, TailSet
<1>3. /\ IsFiniteSet(heap') /\ heap' = heap
      /\ Cardinality(heap) \in Nat
      /\ \A h \in heap' : \A t \in TodoSet' : Key(h) # Key(t)
  BY <1>1, <1>2, TodoTail, FS_CardinalityType DEF writerVars, KeysDistinct
<1>4. CASE \E rsp \in RequestReplies(Head(todo)) :
              /\ backQ' = Append(backQ, rsp)
              /\ reqWg' = reqWg + 1
              /\ UNCHANGED <<reqSeq, cmdSeqs, phantoms>>
  <2>1. PICK e \in RequestReplies(Head(todo)) :
              /\ backQ' = Append(backQ, e)
              /\ reqWg' = reqWg + 1
              /\ UNCHANGED <<reqSeq, cmdSeqs, phantoms>>
    BY <1>4
  <2>2. e \in RspRec /\ Key(e) = Key(Head(todo))
    BY <1>2, <2>1, RequestRspTypes
  <2>3. /\ backQ' \in Seq(RspRec)
        /\ Len(backQ') = Len(backQ) + 1
        /\ DistinctKeys(backQ')
        /\ Apart(backQ', heap')
        /\ Apart(backQ', TodoSet')
        /\ \A i \in 1..Len(backQ') : backQ'[i].seq < reqSeq'
    BY <1>1, <1>2, <1>3, <2>1, <2>2, ScheduleAppend
  <2>4. TypeOK'
    BY <1>1, <1>2, <2>1, <2>3 DEF TypeOK, writerVars
  <2>5. WaitGroupCountsPending'
    BY <1>3, <2>1, <2>3 DEF WaitGroupCountsPending, TypeOK
  <2>6. KeysDistinct'
    BY <1>2, <1>3, <2>3 DEF KeysDistinct
  <2>7. SeqsIssued'
    BY <1>2, <1>3, <2>1, <2>3, TodoTail DEF SeqsIssued, TailSet
  <2>8. QED
    BY <1>1, <1>3, <2>4, <2>5, <2>6, <2>7
<1>5. CASE /\ backQ' = Append(Append(backQ, CleanupInflight(Head(todo))),
                              [seq |-> reqSeq, sub |-> 0, of |-> 0,
                               err |-> FALSE, reply |-> "local"])
           /\ reqWg' = reqWg + 2
           /\ reqSeq' = reqSeq + 1
           /\ phantoms' = phantoms \cup {reqSeq}
           /\ UNCHANGED cmdSeqs
  <2> DEFINE e == CleanupInflight(Head(todo))
             b == Append(backQ, e)
             p == [seq |-> reqSeq, sub |-> 0, of |-> 0, err |-> FALSE,
                   reply |-> "local"]
  <2>1. /\ e \in RspRec /\ Key(e) = Key(Head(todo))
        /\ p \in RspRec /\ p.seq = reqSeq /\ reqSeq \in Nat
    BY <1>2, RequestRspTypes DEF RspRec, TypeOK
  <2>2. /\ b \in Seq(RspRec)
        /\ Len(b) = Len(backQ) + 1
        /\ DistinctKeys(b)
        /\ Apart(b, heap)
        /\ Apart(b, TailSet)
        /\ \A i \in 1..Len(b) : b[i].seq < reqSeq
    BY <1>1, <2>1, ScheduleAppend
  <2>3. /\ backQ' = Append(b, p)
        /\ backQ' \in Seq(RspRec)
        /\ Len(backQ') = Len(b) + 1
        /\ \A i \in 1..Len(b) : backQ'[i] = b[i]
        /\ backQ'[Len(b) + 1] = p
        /\ Len(b) \in Nat
    BY <1>5, <2>1, <2>2, AppendProperties, LenProperties
  <2>4. /\ \A i \in 1..Len(b) : Key(b[i]) # Key(p)
        /\ \A i \in 1..Len(b) : b[i].seq < reqSeq + 1
    BY <2>1, <2>2, BelowKeys
  <2>5. /\ \A h \in heap : Key(p) # Key(h)
        /\ \A t \in TailSet : Key(p) # Key(t)
    <3>1. TailSet \subseteq TodoSet
      BY <1>1, TodoTail
    <3>2. QED
      BY <2>1, <3>1, FreshKeys
  <2>6. DistinctKeys(backQ')
    BY <2>1, <2>2, <2>3, <2>4, AppendDistinct
  <2>7. Apart(backQ', heap') /\ Apart(backQ', TodoSet')
    BY <1>2, <1>3, <2>1, <2>2, <2>3, <2>5, AppendApart
  <2>8. \A i \in 1..Len(backQ') : backQ'[i].seq < reqSeq'
    <3> TAKE i \in 1..Len(backQ')
    <3>1. CASE i \in 1..Len(b)
      BY <1>5, <2>3, <2>4, <3>1
    <3>2. CASE i = Len(b) + 1
      BY <1>5, <2>1, <2>3, <3>2
    <3>3. QED
      BY <2>3, <3>1, <3>2
  <2>9. TypeOK'
    <3>1. reqWg + 2 \in Nat /\ phantoms \cup {reqSeq} \subseteq Nat
      BY <2>1 DEF TypeOK
    <3>2. QED
      BY <1>1, <1>2, <1>5, <2>1, <2>3, <3>1 DEF TypeOK, writerVars
  <2>10. WaitGroupCountsPending'
    BY <1>3, <1>5, <2>2, <2>3 DEF WaitGroupCountsPending, TypeOK
  <2>11. KeysDistinct'
    BY <1>2, <1>3, <2>6, <2>7 DEF KeysDistinct
  <2>12. SeqsIssued'
    <3>1. /\ \A h \in heap : h.seq < reqSeq'
          /\ \A t \in TodoSet : t.seq < reqSeq'
      BY <1>5, PendingSeqs DEF SeqsIssued
    <3>2. TailSet \subseteq TodoSet
      BY <1>1, TodoTail
    <3>3. QED
      BY <1>2, <1>3, <2>8, <3>1, <3>2 DEF SeqsIssued
  <2>13. QED
    BY <1>1, <1>3, <2>9, <2>10, <2>11, <2>12
<1>6. QED
  BY <1>4, <1>5 DEF Schedule

\* handle() sends a command other than MULTI and EXEC to handleMultiCmd only
\* inside a transaction.
LEMMA DispatchMulti ==
    ASSUME NEW c, Dispatch(c) = "multi", c \notin {"MULTI", "EXEC"}
    PROVE  multiCmd # NoTx
BY DEF Dispatch

\* handleMultiCmd keeps the transaction state well typed.
LEMMA HandleMultiCmdTypes ==
    ASSUME TypeOK, NEW c, Dispatch(c) = "multi", HandleMultiCmd(c)
    PROVE  multiCmd' \in Nat \cup {NoTx} /\ multiCmdErr' \in BOOLEAN
<1>1. CASE c = "MULTI"
  <2>1. /\ multiCmd' = IF multiCmd = NoTx THEN 0 ELSE multiCmd
        /\ multiCmdErr' = multiCmdErr
    BY <1>1 DEF HandleMultiCmd
  <2>2. QED
    BY <2>1 DEF TypeOK, NoTx
<1>2. CASE c = "EXEC"
  <2>1. /\ multiCmd' = NoTx
        /\ multiCmdErr' = (multiCmdErr /\ multiCmd = NoTx)
    BY <1>2 DEF HandleMultiCmd
  <2>2. QED
    BY <2>1 DEF TypeOK
<1>3. CASE c \notin {"MULTI", "EXEC"}
  <2>1. multiCmd \in Nat
    BY <1>3, DispatchMulti DEF TypeOK, NoTx
  <2>2. CASE c = "GENERAL"
    <3>1. multiCmd' = multiCmd + 1 /\ multiCmdErr' = multiCmdErr
      BY <1>3, <2>2 DEF HandleMultiCmd
    <3>2. QED
      BY <2>1, <3>1 DEF TypeOK
  <2>3. CASE c # "GENERAL"
    <3>1. multiCmd' = multiCmd /\ multiCmdErr' = TRUE
      BY <1>3, <2>3 DEF HandleMultiCmd
    <3>2. QED
      BY <2>1, <3>1
  <2>4. QED
    BY <2>2, <2>3
<1>4. QED
  BY <1>1, <1>2, <1>3

\* One command read by ReadingLoop and handled by handle().
LEMMA ReadCommandInv ==
    ASSUME IInv, NEW c \in ClientCmds, ReadCommand(c)
    PROVE  IInv'
<1> USE DEF IInv
<1>1. /\ rd = "read"
      /\ heap' = heap
      /\ UNCHANGED <<backQClosed, phantoms, writerVars, reloadPending>>
  BY DEF ReadCommand, writerVars
<1>2. CASE Dispatch(c) \in {"noauth", "local"}
  <2>1. LocalReply /\ UNCHANGED <<rd, todo, auth, multiCmd, multiCmdErr>>
    BY <1>2 DEF ReadCommand
  <2>2. QED
    BY <1>1, <2>1, LocalReplyInv DEF TypeOK, writerVars
<1>3. CASE Dispatch(c) = "multi"
  <2>1. HandleMultiCmd(c) /\ UNCHANGED <<rd, todo, auth>>
    BY <1>3 DEF ReadCommand
  <2>2. LocalReply
    BY <2>1 DEF HandleMultiCmd
  <2>3. multiCmd' \in Nat \cup {NoTx} /\ multiCmdErr' \in BOOLEAN
    BY <1>3, <2>1, HandleMultiCmdTypes
  <2>4. QED
    BY <1>1, <2>1, <2>2, <2>3, LocalReplyInv DEF TypeOK, writerVars
<1>4. CASE Dispatch(c) = "auth"
  <2>1. /\ LocalReply
        /\ auth' = (auth \/ c = "AUTH_OK")
        /\ UNCHANGED <<rd, todo, multiCmd, multiCmdErr>>
    BY <1>4 DEF ReadCommand
  <2>2. QED
    BY <1>1, <2>1, LocalReplyInv DEF TypeOK, writerVars
<1>5. ASSUME NEW n \in Nat \ {0}, NEW parent \in BOOLEAN,
             StartRequests(n, parent), UNCHANGED <<auth, multiCmd, multiCmdErr>>
      PROVE  IInv'
  <2>1. rd' = "sched" /\ backQ' = backQ /\ reqWg' = reqWg
    BY <1>5 DEF StartRequests
  <2>2. QED
    BY <1>1, <1>5, <2>1, StartRequestsInv DEF TypeOK, writerVars
<1>6. CASE Dispatch(c) = "readall"
  <2>1. StartRequests(NServers, TRUE) /\ UNCHANGED <<auth, multiCmd, multiCmdErr>>
    BY <1>6 DEF ReadCommand
  <2>2. NServers \in Nat \ {0}
    BY SessionAssumption
  <2>3. QED
    BY <1>5, <2>1, <2>2
<1>7. CASE Dispatch(c) = "multikey"
  <2>1. StartRequests(NKeys, TRUE) /\ UNCHANGED <<auth, multiCmd, multiCmdErr>>
    BY <1>7 DEF ReadCommand
  <2>2. NKeys \in Nat \ {0}
    BY SessionAssumption
  <2>3. QED
    BY <1>5, <2>1, <2>2
<1>8. CASE Dispatch(c) = "general"
  <2>1. StartRequests(1, FALSE) /\ UNCHANGED <<auth, multiCmd, multiCmdErr>>
    BY <1>8 DEF ReadCommand
  <2>2. 1 \in Nat \ {0} /\ FALSE \in BOOLEAN
    OBVIOUS
  <2>3. QED
    BY <1>5, <2>1, <2>2
<1>9. QED
  BY <1>2, <1>3, <1>4, <1>6, <1>7, <1>8 DEF ReadCommand

\* What taking the head off backQ leaves: the tail keeps the keys apart,
\* and the head's key is in neither rspHeap nor the requests to schedule.
LEMMA BackQTail ==
    ASSUME TypeOK, KeysDistinct, SeqsIssued, backQ # <<>>
    PROVE  /\ Head(backQ) \in RspRec
           /\ Tail(backQ) \in Seq(RspRec)
           /\ Len(Tail(backQ)) = Len(backQ) - 1
           /\ DistinctKeys(Tail(backQ))
           /\ Apart(Tail(backQ), heap \cup {Head(backQ)})
           /\ Apart(Tail(backQ), TodoSet)
           /\ \A h \in heap : Key(Head(backQ)) # Key(h)
           /\ \A t \in TodoSet : Key(Head(backQ)) # Key(t)
           /\ Head(backQ).seq < reqSeq
           /\ \A i \in 1..Len(Tail(backQ)) : Tail(backQ)[i].seq < reqSeq
<1>1. /\ Head(backQ) \in RspRec
      /\ Tail(backQ) \in Seq(RspRec)
      /\ Len(Tail(backQ)) = Len(backQ) - 1
      /\ \A i \in 1..Len(Tail(backQ)) : Tail(backQ)[i] = backQ[i + 1]
      /\ Head(backQ) = backQ[1]
      /\ Len(backQ) \in Nat \ {0}
  BY HeadTailProperties, EmptySeq DEF TypeOK
<1>2. DistinctKeys(Tail(backQ)) /\ Apart(Tail(backQ), {Head(backQ)})
  BY TailDistinct DEF TypeOK, KeysDistinct
<1>3. /\ Apart(Tail(backQ), heap) /\ \A h \in heap : Key(Head(backQ)) # Key(h)
      /\ Apart(Tail(backQ), TodoSet)
      /\ \A t \in TodoSet : Key(Head(backQ)) # Key(t)
  BY TailApart DEF TypeOK, KeysDistinct
<1>4. Apart(Tail(backQ), heap \cup {Head(backQ)})
  BY <1>2, <1>3, ApartUnion
<1>5. QED
  BY <1>1, <1>2, <1>3, <1>4 DEF SeqsIssued

\* The WaitGroup is not at zero while a response is pending.
LEMMA PendingCount ==
    ASSUME TypeOK, IsFiniteSet(heap), WaitGroupCountsPending,
           backQ # <<>> \/ heap # {}
    PROVE  reqWg - 1 \in Nat
<1>1. Len(backQ) \in Nat /\ Cardinality(heap) \in Nat
  BY FS_CardinalityType, LenProperties DEF TypeOK
<1>2. Len(backQ) # 0 \/ Cardinality(heap) # 0
  BY FS_EmptySet, EmptySeq DEF TypeOK
<1>3. QED
  BY <1>1, <1>2 DEF WaitGroupCountsPending

\* One iteration of WritingLoop: the response received from backQ is parked
\* in rspHeap, or handled (reqWg.Done) when its turn has come.
LEMMA ReceiveInv ==
    ASSUME IInv, Receive
    PROVE  IInv'
<1> USE DEF IInv
<1> DEFINE r == Head(backQ)
<1>1. /\ backQ # <<>>
      /\ backQ' = Tail(backQ)
      /\ UNCHANGED <<readerVars, backQClosed>>
      /\ todo' = todo /\ rd' = rd /\ reqSeq' = reqSeq
      /\ TodoSet' = TodoSet
  BY DEF Receive, readerVars, TodoSet
<1>2. /\ r \in RspRec
      /\ Tail(backQ) \in Seq(RspRec)
      /\ Len(Tail(backQ)) = Len(backQ) - 1
      /\ DistinctKeys(Tail(backQ))
      /\ Apart(Tail(backQ), heap \cup {r})
      /\ Apart(Tail(backQ), TodoSet)
      /\ \A h \in heap : Key(r) # Key(h)
      /\ \A t \in TodoSet : Key(r) # Key(t)
      /\ r.seq < reqSeq
      /\ \A i \in 1..Len(Tail(backQ)) : Tail(backQ)[i].seq < reqSeq
  BY <1>1, BackQTail
<1>3. Len(backQ) \in Nat /\ Cardinality(heap) \in Nat
  BY FS_CardinalityType, LenProperties DEF TypeOK
<1>4. CASE r.seq # rspSeq
  <2>1. /\ heap' = heap \cup {r}
        /\ UNCHANGED <<wr, rspSeq, closed, gathered, written, clientGone,
                       reqWg, reloadPending>>
    BY <1>4 DEF Receive
  <2>2. r \notin heap
    BY <1>2
  <2>3. IsFiniteSet(heap') /\ Cardinality(heap') = Cardinality(heap) + 1
    BY <2>1, <2>2, FS_AddElement
  <2>4. TypeOK'
    BY <1>1, <1>2, <2>1 DEF TypeOK, readerVars
  <2>5. WaitGroupCountsPending'
    BY <1>1, <1>2, <1>3, <2>1, <2>3 DEF WaitGroupCountsPending
  <2>6. KeysDistinct'
    BY <1>1, <1>2, <2>1 DEF KeysDistinct
  <2>7. SeqsIssued'
    BY <1>1, <1>2, <2>1 DEF SeqsIssued
  <2>8. QED
    BY <1>1, <2>3, <2>4, <2>5, <2>6, <2>7
<1>5. CASE r.seq = rspSeq
  <2>1. HandleResp(r) /\ heap' = heap
    BY <1>5 DEF Receive
  <2>2. /\ reqWg' = reqWg - 1
        /\ rspSeq' \in Nat
        /\ closed' \in BOOLEAN
        /\ gathered' \subseteq [seq : Nat, sub : Nat]
        /\ written' \in Seq(Nat)
        /\ clientGone' \in BOOLEAN
        /\ wr' \in {"recv", "drain"}
        /\ reloadPending' \in BOOLEAN
    BY <1>2, <2>1, HandleRespTypes
  <2>3. reqWg - 1 \in Nat
    BY <1>1, PendingCount
  <2>4. TypeOK'
    BY <1>1, <1>2, <2>1, <2>2, <2>3 DEF TypeOK, readerVars
  <2>5. WaitGroupCountsPending'
    BY <1>1, <1>2, <1>3, <2>1, <2>2 DEF WaitGroupCountsPending
  <2>6. KeysDistinct'
    BY <1>1, <1>2, <2>1, ApartUnion DEF KeysDistinct
  <2>7. SeqsIssued'
    BY <1>1, <1>2, <2>1 DEF SeqsIssued
  <2>8. QED
    BY <1>1, <2>1, <2>4, <2>5, <2>6, <2>7
<1>6. QED
  BY <1>4, <1>5

\* The heap loop of handleRespPipeline: a response of the current seq is
\* popped from rspHeap and handled, or the loop ends.
LEMMA DrainInv ==
    ASSUME IInv, Drain
    PROVE  IInv'
<1> USE DEF IInv
<1> DEFINE top == {r \in heap : \A x \in heap : r.seq <= x.seq}
<1>1. /\ UNCHANGED <<readerVars, backQ, backQClosed>>
      /\ todo' = todo /\ rd' = rd /\ reqSeq' = reqSeq
      /\ TodoSet' = TodoSet
  BY DEF Drain, readerVars, TodoSet
<1>2. CASE \E r \in top : r.seq = rspSeq
  <2>1. PICK r \in top : heap' = heap \ {r} /\ HandleResp(r)
    BY <1>2 DEF Drain
  <2>2. r \in heap /\ r \in RspRec
    BY <2>1 DEF TypeOK
  <2>3. /\ IsFiniteSet(heap')
        /\ Cardinality(heap') = Cardinality(heap) - 1
        /\ Cardinality(heap) \in Nat
    BY <2>1, <2>2, FS_RemoveElement, FS_CardinalityType
  <2>4. /\ reqWg' = reqWg - 1
        /\ rspSeq' \in Nat
        /\ closed' \in BOOLEAN
        /\ gathered' \subseteq [seq : Nat, sub : Nat]
        /\ written' \in Seq(Nat)
        /\ clientGone' \in BOOLEAN
        /\ wr' \in {"recv", "drain"}
        /\ reloadPending' \in BOOLEAN
    BY <2>1, <2>2, HandleRespTypes
  <2>5. reqWg - 1 \in Nat
    BY <2>2, PendingCount
  <2>6. TypeOK'
    BY <1>1, <2>1, <2>4, <2>5 DEF TypeOK, readerVars
  <2>7. WaitGroupCountsPending'
    BY <1>1, <2>3, <2>4 DEF WaitGroupCountsPending
  <2>8. KeysDistinct'
    BY <1>1, <2>1, ApartSubset DEF KeysDistinct
  <2>9. SeqsIssued'
    BY <1>1, <2>1 DEF SeqsIssued
  <2>10. QED
    BY <1>1, <2>3, <2>6, <2>7, <2>8, <2>9
<1>3. CASE ~\E r \in top : r.seq = rspSeq
  <2>1. /\ wr' = "recv"
        /\ UNCHANGED <<rspSeq, heap, closed, gathered, written, clientGone,
                       reqWg, reloadPending>>
    BY <1>3 DEF Drain
  <2>2. QED
    BY <1>1, <2>1, FrameInv DEF TypeOK, readerVars
<1>4. QED
  BY <1>2, <1>3

\* The steps that only move a goroutine on (ReadCommand's error, close of
\* backQ, the two goroutines returning) and the final stutter.
LEMMA QuietStepInv ==
    ASSUME IInv, ReadEOF \/ CloseBackQ \/ ReaderExit \/ WriterExit \/ Terminated
           \/ UNCHANGED vars
    PROVE  IInv'
<1> USE DEF IInv
<1>1. /\ UNCHANGED <<todo, reqSeq, auth, multiCmd, multiCmdErr, cmdSeqs,
                     phantoms, reqWg, backQ, rspSeq, heap, gathered, written,
                     clientGone, reloadPending>>
      /\ \/ rd' \in {"read", "sched", "wait", "closing", "done"} /\ rd' # "sched"
         \/ rd' = rd
      /\ wr' \in {"recv", "drain", "done"}
      /\ closed' \in BOOLEAN
      /\ backQClosed' \in BOOLEAN
  BY DEF ReadEOF, CloseBackQ, ReaderExit, WriterExit, Terminated, vars,
         writerVars, readerVars, TypeOK
<1>2. QED
  BY <1>1, FrameInv DEF TypeOK

-----------------------------------------------------------------------------
(* The theorems *)

LEMMA InitIInv ==
    Init => IInv
<1> SUFFICES ASSUME Init PROVE IInv
  OBVIOUS
<1>1. TypeOK
  BY EmptySeq DEF Init, TypeOK, NoTx
<1>2. IsFiniteSet(heap) /\ Cardinality(heap) = 0
  BY FS_EmptySet DEF Init
<1>3. Len(backQ) = 0 /\ Len(todo) = 0
  BY EmptySeq DEF Init
<1>4. WaitGroupCountsPending
  BY <1>2, <1>3 DEF Init, WaitGroupCountsPending
<1>5. TodoSet = {} /\ heap = {} /\ rd = "read"
  BY <1>3 DEF Init, TodoSet
<1>6. KeysDistinct
  BY <1>3, <1>5 DEF KeysDistinct, DistinctKeys, Apart
<1>7. SeqsIssued
  BY <1>3, <1>5 DEF SeqsIssued
<1>8. QED
  BY <1>1, <1>2, <1>4, <1>5, <1>6, <1>7 DEF IInv

LEMMA NextIInv ==
    IInv /\ [Next]_vars => IInv'
<1> SUFFICES ASSUME IInv, [Next]_vars PROVE IInv'
  OBVIOUS
<1>1. CASE \E c \in ClientCmds : ReadCommand(c)
  BY <1>1, ReadCommandInv
<1>2. CASE Schedule
  BY <1>2, ScheduleInv
<1>3. CASE Receive
  BY <1>3, ReceiveInv
<1>4. CASE Drain
  BY <1>4, DrainInv
<1>5. CASE ReadEOF \/ CloseBackQ \/ ReaderExit \/ WriterExit \/ Terminated
           \/ UNCHANGED vars
  BY <1>5, QuietStepInv
<1>6. QED
  BY <1>1, <1>2, <1>3, <1>4, <1>5 DEF Next

\* The session's state stays well typed; in particular the WaitGroup reqWg
\* never goes negative, which would make reqWg.Done() in handleResp panic.
THEOREM TypeCorrect ==
    Spec => []TypeOK
<1>1. IInv => TypeOK
  BY DEF IInv
<1>2. QED
  BY <1>1, InitIInv, NextIInv, PTL DEF Spec

\* Drain-on-close: reqWg counts exactly the responses on backQ and in
\* rspHeap, so reqWg.Wait() in ReadingLoop returns, and close(backQ)
\* happens, only once the writer has taken every response off both.
THEOREM WaitGroupInvariant ==
    Spec => []WaitGroupCountsPending
<1>1. IInv => WaitGroupCountsPending
  BY DEF IInv
<1>2. QED
  BY <1>1, InitIInv, NextIInv, PTL DEF Spec

\* Spec satisfies the inductive invariant at every step.
LEMMA AlwaysIInv ==
    Spec => []IInv
BY InitIInv, NextIInv, PTL DEF Spec

-----------------------------------------------------------------------------
(* Transactions *)

\* handleMultiCmd on a well-typed state keeps the abort flag inside the
\* open transaction.
LEMMA HandleMultiCmdScoped ==
    ASSUME TypeOK, TxErrorScoped, NEW c, Dispatch(c) = "multi",
           HandleMultiCmd(c)
    PROVE  TxErrorScoped'
<1>1. CASE c = "MULTI"
  <2>1. /\ multiCmd' = IF multiCmd = NoTx THEN 0 ELSE multiCmd
        /\ multiCmdErr' = multiCmdErr
    BY <1>1 DEF HandleMultiCmd
  <2>2. QED
    BY <2>1 DEF TxErrorScoped, NoTx
<1>2. CASE c = "EXEC"
  <2>1. multiCmdErr' = (multiCmdErr /\ multiCmd = NoTx)
    BY <1>2 DEF HandleMultiCmd
  <2>2. ~multiCmdErr'
    BY <2>1 DEF TxErrorScoped
  <2>3. QED
    BY <2>2 DEF TxErrorScoped
<1>3. CASE c \notin {"MULTI", "EXEC"}
  <2>1. multiCmd \in Nat
    BY <1>3, DispatchMulti DEF TypeOK, NoTx
  <2>2. multiCmd' = multiCmd + 1 \/ multiCmd' = multiCmd
    BY <1>3 DEF HandleMultiCmd
  <2>3. QED
    BY <2>1, <2>2 DEF TxErrorScoped, NoTx
<1>4. QED
  BY <1>1, <1>2, <1>3

\* No step of the session but handle() touches the transaction state.
LEMMA TxErrorScopedStep ==
    ASSUME IInv, TxErrorScoped, [Next]_vars
    PROVE  TxErrorScoped'
<1>1. CASE \E c \in ClientCmds : ReadCommand(c)
  <2>1. PICK c \in ClientCmds : ReadCommand(c)
    BY <1>1
  <2>2. CASE Dispatch(c) = "multi"
    <3>1. HandleMultiCmd(c)
      BY <2>1, <2>2 DEF ReadCommand
    <3>2. QED
      BY <2>2, <3>1, HandleMultiCmdScoped DEF IInv
  <2>3. CASE Dispatch(c) # "multi"
    <3>1. UNCHANGED <<multiCmd, multiCmdErr>>
      BY <2>1, <2>3 DEF ReadCommand
    <3>2. QED
      BY <3>1 DEF TxErrorScoped
  <2>4. QED
    BY <2>2, <2>3
<1>2. CASE ~\E c \in ClientCmds : ReadCommand(c)
  <2>1. UNCHANGED <<multiCmd, multiCmdErr>>
    BY <1>2 DEF Next, Schedule, ReadEOF, CloseBackQ, ReaderExit, Receive,
                Drain, WriterExit, Terminated, vars, readerVars
  <2>2. QED
    BY <2>1 DEF TxErrorScoped
<1>3. QED
  BY <1>1, <1>2

\* Spec section 8.7, handleMultiCmd: s.multiCmdErr is set only inside an
\* open transaction and cleared by the EXEC that answers EXECABORT, so the
\* abort of one transaction never leaks into the next.
THEOREM TxErrorStaysScoped ==
    Spec => []TxErrorScoped
<1>1. Init => TxErrorScoped
  BY DEF Init, TxErrorScoped
<1>2. IInv /\ TxErrorScoped /\ [Next]_vars => TxErrorScoped'
  BY TxErrorScopedStep
<1>3. QED
  BY <1>1, <1>2, AlwaysIInv, PTL DEF Spec


=============================================================================
