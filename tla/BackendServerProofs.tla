------------------------- MODULE BackendServerProofs -------------------------
(***************************************************************************)
(* Proofs about BackendServer for every value of the constants: the type   *)
(* invariant, that a successful Request returns the reply to its own       *)
(* request, and that the server implements BackendContract.                *)
(***************************************************************************)
EXTENDS BackendServer, TLAPS

\* The request count the contract sees: a request is issued once Request
\* has returned.
Issued == IF pc \in {"read", "recover"} THEN next - 1 ELSE next

\* A Request that returned without error returned the reply to its own
\* request (a conjunct of the invariant the refinement needs).
ReplyMatchesRequest ==
    \A x \in returned : ~x.err => x.reply = x.req

(***************************************************************************)
(* The inductive invariant.  Because the pool lends the server to one      *)
(* caller at a time, the inflight list holds at most the current request,  *)
(* and so does the socket: Request pushes it on both, and every way out of *)
(* Request (a read, or tryRecover) empties both or drops the socket.  A    *)
(* request not yet returned has no error response on backQ.                *)
(***************************************************************************)
IInv ==
    /\ TypeOK
    /\ pc \in {"idle", "closed"} => inflight = <<>>
    /\ pc \in {"read", "recover"} => next \in Reqs /\ inflight = <<next>>
    /\ wire # <<>> =>
           /\ pc = "read"
           /\ wire = <<next>>
           /\ conn \in {"up", "stalled"}
    /\ pc = "recover" => conn \in {"none", "down"}
    /\ conn \in {"none", "down", "closed"} => wire = <<>>
    /\ \A r \in Reqs : cleaned[r] \in {0, 1} /\ (r > Issued => cleaned[r] = 0)
    /\ ReplyMatchesRequest

-----------------------------------------------------------------------------

USE BackendAssumption

LEMMA InitIInv == Init => IInv
  <1> SUFFICES ASSUME Init PROVE IInv
    OBVIOUS
  <1>1. TypeOK
    BY DEF Init, TypeOK, ConnStates
  <1>2. Issued = 0
    BY DEF Init, Issued
  <1>3. QED
    BY <1>1, <1>2 DEF Init, IInv, ReplyMatchesRequest

\* A Request step: the current request goes on inflight and, if the socket
\* takes it, on the wire.
LEMMA RequestIInv == IInv /\ Request => IInv'
  <1> SUFFICES ASSUME IInv, Request PROVE IInv'
    OBVIOUS
  <1>1. inflight = <<>> /\ wire = <<>> /\ next < MaxReqs /\ next \in Nat
    BY DEF IInv, Request, TypeOK
  <1>2. next' = next + 1 /\ next' \in Reqs /\ inflight' = <<next'>>
    BY <1>1 DEF Request, WriteToBackend, Reqs
  <1>3. pc' \in {"read", "recover"} /\ Issued' = next
    BY <1>1 DEF Request, WriteToBackend, Issued
  <1>4. \/ wire' = <<>>
        \/ wire' = <<next'>> /\ pc' = "read" /\ conn' \in {"up", "stalled"}
    BY <1>1, <1>2 DEF Request, WriteToBackend
  <1>5. pc' = "recover" => conn' \in {"none", "down"}
    BY DEF Request, WriteToBackend
  <1>6. conn' \in {"none", "down", "closed"} => wire' = <<>>
    BY <1>1 DEF Request, WriteToBackend
  <1>7. TypeOK'
    <2>1. wire' \in Seq(Reqs) /\ inflight' \in Seq(Reqs)
      <3>1. <<next'>> \in Seq(Reqs) /\ <<>> \in Seq(Reqs)
        BY <1>2
      <3>2. QED
        BY <1>2, <1>4, <3>1
    <2>2. next' \in 0..MaxReqs
      BY <1>2 DEF Reqs
    <2>3. conn' \in ConnStates /\ faults' \in 0..MaxFaults
      BY DEF IInv, TypeOK, Request
    <2>4. QED
      BY <1>3, <2>1, <2>2, <2>3 DEF IInv, TypeOK, Request
  <1>8. \A r \in Reqs : cleaned'[r] \in {0, 1} /\ (r > Issued' => cleaned'[r] = 0)
    <2>1. Issued = next
      BY DEF Request, Issued
    <2>2. QED
      BY <1>3, <2>1 DEF IInv, Request
  <1>9. ReplyMatchesRequest'
    BY DEF IInv, Request, ReplyMatchesRequest
  <1>10. QED
    BY <1>2, <1>3, <1>4, <1>5, <1>6, <1>7, <1>8, <1>9 DEF IInv

\* A read step: the reply at the head of the socket is the one to the
\* request at the front of inflight, both the current request.
LEMMA ReadReplyIInv == IInv /\ ReadReply => IInv'
  <1> SUFFICES ASSUME IInv, ReadReply PROVE IInv'
    OBVIOUS
  <1>1. inflight = <<next>> /\ wire = <<next>> /\ next \in Reqs
    BY DEF IInv, ReadReply
  <1>2. inflight' = <<>> /\ wire' = <<>> /\ pc' = "idle"
    BY <1>1 DEF ReadReply
  <1>3. Issued = next - 1 /\ Issued' = next
    BY <1>1 DEF ReadReply, Issued
  <1>4. returned' = returned \cup {[req |-> next, reply |-> next, err |-> FALSE]}
    BY <1>1 DEF ReadReply
  <1>5. TypeOK'
    <2>1. [req |-> next, reply |-> next, err |-> FALSE]
            \in [req : Reqs, reply : Reqs \cup {NoReply}, err : BOOLEAN]
      BY <1>1
    <2>2. returned' \subseteq [req : Reqs, reply : Reqs \cup {NoReply},
                               err : BOOLEAN]
      BY <1>4, <2>1 DEF IInv, TypeOK
    <2>3. QED
      BY <1>2, <2>2 DEF IInv, TypeOK, ReadReply
  <1>6. ReplyMatchesRequest'
    BY <1>4 DEF IInv, ReplyMatchesRequest
  <1>7. \A r \in Reqs : cleaned'[r] \in {0, 1} /\ (r > Issued' => cleaned'[r] = 0)
    <2>1. cleaned' = cleaned
      BY DEF ReadReply
    <2>2. \A r \in Reqs : r > next => r > next - 1
      BY <1>1 DEF Reqs
    <2>3. QED
      BY <1>3, <2>1, <2>2 DEF IInv
  <1>8. QED
    BY <1>2, <1>5, <1>6, <1>7 DEF IInv, ReadReply

\* tryRecover: the only inflight request is the current one, which gets
\* its one error response on backQ.
LEMMA TryRecoverIInv == IInv /\ TryRecover => IInv'
  <1> SUFFICES ASSUME IInv, TryRecover PROVE IInv'
    OBVIOUS
  <1>1. inflight = <<next>> /\ next \in Reqs /\ conn \in {"none", "down"}
        /\ wire = <<>>
    BY DEF IInv, TryRecover
  <1>2. Elems(inflight) = {next}
    BY <1>1 DEF Elems
  <1>3. cleaned' = [r \in Reqs |-> IF r = next THEN cleaned[r] + 1
                                   ELSE cleaned[r]]
    BY <1>2 DEF TryRecover, CleanupInflight
  <1>4. inflight' = <<>> /\ wire' = <<>> /\ pc' = "idle"
    BY <1>1 DEF TryRecover, CleanupInflight, InitRWConn
  <1>5. Issued' = next /\ Issued = next - 1
    BY <1>1 DEF TryRecover, Issued
  <1>6. cleaned[next] = 0
    BY <1>1, <1>5 DEF IInv, TypeOK, Reqs
  <1>7. \A r \in Reqs : cleaned'[r] \in {0, 1} /\ (r > Issued' => cleaned'[r] = 0)
    BY <1>1, <1>3, <1>5, <1>6 DEF IInv, TypeOK, Reqs
  <1>8. TypeOK'
    <2>1. cleaned' \in [Reqs -> Nat]
      BY <1>3 DEF IInv, TypeOK
    <2>2. conn' \in ConnStates
      BY <1>1 DEF TryRecover, InitRWConn, ConnStates
    <2>3. returned' \subseteq [req : Reqs, reply : Reqs \cup {NoReply},
                               err : BOOLEAN]
      <3>1. [req |-> next, reply |-> NoReply, err |-> TRUE]
              \in [req : Reqs, reply : Reqs \cup {NoReply}, err : BOOLEAN]
        BY <1>1
      <3>2. QED
        BY <3>1 DEF IInv, TypeOK, TryRecover
    <2>4. QED
      BY <1>4, <2>1, <2>2, <2>3 DEF IInv, TypeOK, TryRecover
  <1>9. ReplyMatchesRequest'
    BY DEF IInv, TryRecover, ReplyMatchesRequest
  <1>10. conn' \in {"none", "down", "closed"} => wire' = <<>>
    BY <1>4
  <1>11. QED
    BY <1>4, <1>7, <1>8, <1>9, <1>10 DEF IInv

\* Steps that neither issue nor finish a request.
LEMMA OtherIInv ==
    IInv /\ (ReadFail \/ Close \/ Fail \/ Stall \/ UNCHANGED vars) => IInv'
  <1> SUFFICES ASSUME IInv, ReadFail \/ Close \/ Fail \/ Stall \/ UNCHANGED vars
               PROVE IInv'
    OBVIOUS
  <1>1. CASE ReadFail
    <2>1. Issued' = Issued
      BY <1>1 DEF ReadFail, Issued
    <2>2. QED
      BY <1>1, <2>1 DEF IInv, TypeOK, ReadFail, ReplyMatchesRequest
  <1>2. CASE Close
    <2>1. Issued' = Issued
      BY <1>2 DEF Close, Issued
    <2>2. wire = <<>>
      BY <1>2 DEF IInv, Close
    <2>3. QED
      BY <1>2, <2>1, <2>2 DEF IInv, TypeOK, Close, ConnStates,
                               ReplyMatchesRequest
  <1>3. CASE Fail
    <2>1. Issued' = Issued
      BY <1>3 DEF Fail, Issued
    <2>2. faults' \in 0..MaxFaults
      BY <1>3, BackendAssumption DEF IInv, TypeOK, Fail
    <2>3. QED
      BY <1>3, <2>1, <2>2 DEF IInv, TypeOK, Fail, ConnStates,
                               ReplyMatchesRequest
  <1>4. CASE Stall
    <2>1. Issued' = Issued
      BY <1>4 DEF Stall, Issued
    <2>2. QED
      BY <1>4, <2>1 DEF IInv, TypeOK, Stall, ConnStates, ReplyMatchesRequest
  <1>5. CASE UNCHANGED vars
    <2>1. Issued' = Issued
      BY <1>5 DEF vars, Issued
    <2>2. QED
      BY <1>5, <2>1 DEF IInv, TypeOK, vars, ReplyMatchesRequest
  <1>6. QED
    BY <1>1, <1>2, <1>3, <1>4, <1>5

LEMMA NextIInv == IInv /\ [Next]_vars => IInv'
  BY RequestIInv, ReadReplyIInv, TryRecoverIInv, OtherIInv DEF Next

LEMMA AlwaysIInv == Spec => []IInv
  BY InitIInv, NextIInv, PTL DEF Spec

-----------------------------------------------------------------------------

\* Type correctness of the BackendServer model.
THEOREM TypeCorrect == Spec => []TypeOK
  BY AlwaysIInv, PTL DEF IInv


(***************************************************************************)
(* Refinement.  Under the mapping of BackendServer.Contract a Request      *)
(* step, a failed read, a reset and a stall are stutters of the contract;  *)
(* a successful read is a Serve with the request's own reply; tryRecover   *)
(* is a Serve with an error answered once on backQ; Close is Retire.  The  *)
(* invariant supplies what the mapping needs: inflight and the socket hold *)
(* only the current request, and it has no error response yet.            *)
(***************************************************************************)

\* The contract's variables as the mapping computes them.
cvars == <<Issued, returned, cleaned, pc = "closed">>

LEMMA InitRefines == Init => Contract!Init
  BY DEF Init, Contract!Init, Contract!Reqs, Reqs, Issued

LEMMA ReadReplyRefines == IInv /\ ReadReply => Contract!Serve
  <1> SUFFICES ASSUME IInv, ReadReply PROVE Contract!Serve
    OBVIOUS
  <1>1. inflight = <<next>> /\ wire = <<next>> /\ next \in Reqs
    BY DEF IInv, ReadReply
  <1>2. Issued = next - 1 /\ Issued' = next /\ next - 1 < MaxReqs
    BY <1>1 DEF ReadReply, Issued, Reqs
  <1>3. returned' = returned \cup {[req |-> next, reply |-> next, err |-> FALSE]}
    BY <1>1 DEF ReadReply
  <1>4. pc # "closed" /\ pc' # "closed" /\ cleaned' = cleaned
    BY DEF ReadReply
  <1>5. next - 1 + 1 = next
    BY <1>1 DEF Reqs
  <1>6. QED
    BY <1>2, <1>3, <1>4, <1>5 DEF Contract!Serve, Issued

LEMMA TryRecoverRefines == IInv /\ TryRecover => Contract!Serve
  <1> SUFFICES ASSUME IInv, TryRecover PROVE Contract!Serve
    OBVIOUS
  <1>1. inflight = <<next>> /\ next \in Reqs
    BY DEF IInv, TryRecover
  <1>2. Issued = next - 1 /\ Issued' = next /\ next - 1 < MaxReqs
    BY <1>1 DEF TryRecover, Issued, Reqs
  <1>3. cleaned[next] = 0 /\ cleaned \in [Reqs -> Nat]
    BY <1>1, <1>2 DEF IInv, TypeOK, Reqs
  <1>4. Elems(inflight) = {next}
    BY <1>1 DEF Elems
  <1>5. cleaned' = [cleaned EXCEPT ![next] = 1]
    <2>1. cleaned' = [r \in Reqs |-> IF r \in {next} THEN cleaned[r] + 1
                                     ELSE cleaned[r]]
      BY <1>4 DEF TryRecover, CleanupInflight
    <2>2. \A r \in Reqs : cleaned'[r] = [cleaned EXCEPT ![next] = 1][r]
      BY <1>1, <1>3, <2>1
    <2>3. DOMAIN cleaned' = DOMAIN [cleaned EXCEPT ![next] = 1]
      BY <1>3, <2>1
    <2>4. cleaned' \in [Reqs -> Nat]
      BY <1>3, <2>1
    <2>5. QED
      BY <1>3, <2>2, <2>3, <2>4
  <1>6. returned' = returned \cup
          {[req |-> next, reply |-> NoReply, err |-> TRUE]}
    BY DEF TryRecover
  <1>7. pc # "closed" /\ pc' # "closed"
    BY DEF TryRecover
  <1>8. next - 1 + 1 = next
    BY <1>1 DEF Reqs
  <1>9. QED
    BY <1>2, <1>5, <1>6, <1>7, <1>8 DEF Contract!Serve, Contract!NoReply,
                                       NoReply, Issued

\* Every step of the server maps to a step or a stutter of the contract.
LEMMA NextRefines == IInv /\ [Next]_vars => [Contract!Next]_cvars
  <1> SUFFICES ASSUME IInv, [Next]_vars PROVE [Contract!Next]_cvars
    OBVIOUS
  <1>1. CASE ReadReply
    BY <1>1, ReadReplyRefines DEF Contract!Next
  <1>2. CASE TryRecover
    BY <1>2, TryRecoverRefines DEF Contract!Next
  <1>3. CASE Request
    <2>1. next \in Nat /\ Issued = next /\ Issued' = next
      BY <1>3 DEF IInv, TypeOK, Request, WriteToBackend, Issued
    <2>2. QED
      BY <1>3, <2>1 DEF Request, WriteToBackend, cvars
  <1>4. CASE Close
    <2>1. Issued = next /\ Issued' = next
      BY <1>4 DEF Close, Issued
    <2>2. QED
      BY <1>4, <2>1 DEF Close, Contract!Next, Contract!Retire, Issued
  <1>5. CASE ReadFail
    <2>1. Issued' = Issued /\ pc # "closed" /\ pc' # "closed"
      BY <1>5 DEF ReadFail, Issued
    <2>2. QED
      BY <1>5, <2>1 DEF ReadFail, cvars
  <1>6. CASE Fail \/ Stall \/ UNCHANGED vars
    <2>1. Issued' = Issued /\ pc' = pc
      BY <1>6 DEF Fail, Stall, vars, Issued
    <2>2. QED
      BY <1>6, <2>1 DEF Fail, Stall, vars, cvars
  <1>7. QED
    BY <1>1, <1>2, <1>3, <1>4, <1>5, <1>6 DEF Next

\* The BackendServer implements BackendContract: each Request ends with its
\* own reply, or with an error answered exactly once on backQ.
THEOREM Refinement == Spec => ImplementsContract
  <1>1. Init => Contract!Init
    BY InitRefines
  <1>2. IInv /\ [Next]_vars => [Contract!Next]_cvars
    BY NextRefines
  <1>3. QED
    BY <1>1, <1>2, AlwaysIInv, PTL
       DEF Spec, ImplementsContract, Contract!Spec, cvars, Issued

=============================================================================
