---------------------------- MODULE BackendServer ----------------------------
(***************************************************************************)
(* One pipelined backend connection of the proxy (src/proxy/backend.go,   *)
(* type BackendServer): Request writes a PipelineRequest after pushing it  *)
(* on the inflight list, reads one reply and pops the list's front; on an  *)
(* I/O error tryRecover answers every inflight request on its backQ        *)
(* (cleanupInflight) and redials once (initRWConn).  The pool leases a     *)
(* server to one session at a time (spec.md 4.3), so calls are sequential; *)
(* what interleaves with them is the network: the backend may reset the    *)
(* connection, or stop answering while keeping it open.  Requests are      *)
(* numbered 1, 2, ... in call order, and a reply is the number of the      *)
(* request the backend answered.                                           *)
(***************************************************************************)
EXTENDS Naturals, Sequences

CONSTANTS
    MaxReqs,         \* calls of Request (bound)
    MaxFaults,       \* connection resets by the network (bound)
    BackendCanStall  \* TRUE iff a backend may stop answering, socket open

ASSUME BackendAssumption ==
    /\ MaxReqs \in Nat
    /\ MaxFaults \in Nat
    /\ BackendCanStall \in BOOLEAN

Reqs == 1..MaxReqs

\* Request returned nil as its PipelineResponse.
NoReply == 0

\* tr.w == nil (the first dial failed), a healthy socket, a socket the peer
\* has reset, a socket whose peer never answers, a socket Close closed.
ConnStates == {"none", "up", "down", "stalled", "closed"}

VARIABLES
    conn,      \* the state of tr.conn, tr.r and tr.w
    wire,      \* requests written on tr.conn whose replies tr.r will read
    inflight,  \* tr.inflight
    pc,        \* the caller: "idle", "read" (in ReadDataBytes), "recover"
               \* (in tryRecover), "closed" (server retired by Close)
    next,      \* requests issued so far; the current one is number next
    faults,    \* resets so far
    returned,  \* history: what Request returned, [req, reply, err]
    cleaned    \* history: cleaned[r] error responses put on r's backQ

vars == <<conn, wire, inflight, pc, next, faults, returned, cleaned>>

Elems(s) == {s[i] : i \in 1..Len(s)}

-----------------------------------------------------------------------------

\* initRWConn after a successful dial: a fresh socket and fresh buffers.
InitRWConn ==
    /\ conn' = "up"
    /\ wire' = <<>>

\* NewBackendServer: the dial of valkeyConn.Conn succeeds or tr.w stays nil.
Init ==
    /\ conn \in {"none", "up"}
    /\ wire = <<>>
    /\ inflight = <<>>
    /\ pc = "idle"
    /\ next = 0
    /\ faults = 0
    /\ returned = {}
    /\ cleaned = [r \in Reqs |-> 0]

\* Mutant of WriteToBackend: the request joins inflight only once a writer
\* exists, against the comment "always put req into inflight list first".
WriteToBackendLatePush(r) ==
    /\ \/ /\ conn = "none"
          /\ pc' = "recover"
          /\ UNCHANGED <<wire, inflight>>
       \/ /\ conn = "down"
          /\ pc' \in {"recover", "read"}
          /\ inflight' = Append(inflight, r)
          /\ UNCHANGED wire
       \/ /\ conn \in {"up", "stalled"}
          /\ inflight' = Append(inflight, r)
          /\ wire' = Append(wire, r)
          /\ pc' = "read"

\* writeToBackend: the request joins inflight first; then no writer is an
\* error, a reset socket either fails the write or swallows it, and a live
\* one (even one whose peer stalls) takes it.
WriteToBackend(r) ==
    /\ inflight' = Append(inflight, r)
    /\ \/ /\ conn = "none"
          /\ pc' = "recover"
          /\ UNCHANGED wire
       \/ /\ conn = "down"
          /\ pc' \in {"recover", "read"}
          /\ UNCHANGED wire
       \/ /\ conn \in {"up", "stalled"}
          /\ wire' = Append(wire, r)
          /\ pc' = "read"

\* Request: a session leased this server from the pool and calls Request.
Request ==
    /\ pc = "idle"
    /\ next < MaxReqs
    /\ next' = next + 1
    /\ WriteToBackend(next + 1)
    /\ UNCHANGED <<conn, faults, returned, cleaned>>

\* Mutant of ReadReply: the response is built from inflight's front
\* without removing it.
ReadReplyNoPop ==
    /\ pc = "read"
    /\ conn = "up"
    /\ wire # <<>>
    /\ returned' = returned \cup
           {[req |-> Head(inflight), reply |-> Head(wire), err |-> FALSE]}
    /\ wire' = Tail(wire)
    /\ pc' = "idle"
    /\ UNCHANGED <<conn, inflight, next, faults, cleaned>>

\* ReadDataBytes returns the reply at the head of the socket; Request pops
\* inflight's front and returns it with that reply.
ReadReply ==
    /\ pc = "read"
    /\ conn = "up"
    /\ wire # <<>>
    /\ returned' = returned \cup
           {[req |-> Head(inflight), reply |-> Head(wire), err |-> FALSE]}
    /\ inflight' = Tail(inflight)
    /\ wire' = Tail(wire)
    /\ pc' = "idle"
    /\ UNCHANGED <<conn, next, faults, cleaned>>

\* Mutant of ReadFail: a read error is retried on the same socket.
ReadFailRetry ==
    /\ pc = "read"
    /\ conn = "down"
    /\ UNCHANGED vars

\* ReadDataBytes fails on a reset socket.
ReadFail ==
    /\ pc = "read"
    /\ conn = "down"
    /\ pc' = "recover"
    /\ UNCHANGED <<conn, wire, inflight, next, faults, returned, cleaned>>

\* cleanupInflight: an error response for every inflight request, sent to
\* its backQ in list order, and the list emptied.
CleanupInflight ==
    /\ cleaned' = [r \in Reqs |->
                     IF r \in Elems(inflight) THEN cleaned[r] + 1
                     ELSE cleaned[r]]
    /\ inflight' = <<>>

\* tryRecover and the error return of Request: clean up, redial once (on
\* failure tr.conn, tr.r and tr.w stay as they were), return the error.
TryRecover ==
    /\ pc = "recover"
    /\ CleanupInflight
    /\ \/ InitRWConn
       \/ UNCHANGED <<conn, wire>>
    /\ returned' = returned \cup
           {[req |-> next, reply |-> NoReply, err |-> TRUE]}
    /\ pc' = "idle"
    /\ UNCHANGED <<next, faults>>

\* Close: the pool retires the idle server and closes its socket, if any.
Close ==
    /\ pc = "idle"
    /\ pc' = "closed"
    /\ conn' = IF conn = "none" THEN "none" ELSE "closed"
    /\ UNCHANGED <<wire, inflight, next, faults, returned, cleaned>>

\* The network resets the socket; replies not yet read are lost.
Fail ==
    /\ conn \in {"up", "stalled"}
    /\ faults < MaxFaults
    /\ conn' = "down"
    /\ wire' = <<>>
    /\ faults' = faults + 1
    /\ UNCHANGED <<inflight, pc, next, returned, cleaned>>

\* The backend stops answering but keeps the socket open.
Stall ==
    /\ BackendCanStall
    /\ conn = "up"
    /\ conn' = "stalled"
    /\ UNCHANGED <<wire, inflight, pc, next, faults, returned, cleaned>>

Next ==
    \/ Request
    \/ ReadReply
    \/ ReadFail
    \/ TryRecover
    \/ Close
    \/ Fail
    \/ Stall

Spec == Init /\ [][Next]_vars

\* The caller's goroutine keeps running, and a healthy backend answers
\* what it was sent; resets and stalls are not forced to happen.
FairSpec ==
    /\ Spec
    /\ WF_vars(ReadReply)
    /\ WF_vars(ReadFail)
    /\ WF_vars(TryRecover)

-----------------------------------------------------------------------------
(* Properties *)

TypeOK ==
    /\ conn \in ConnStates
    /\ wire \in Seq(Reqs)
    /\ inflight \in Seq(Reqs)
    /\ pc \in {"idle", "read", "recover", "closed"}
    /\ next \in 0..MaxReqs
    /\ faults \in 0..MaxFaults
    /\ returned \subseteq [req : Reqs, reply : Reqs \cup {NoReply},
                           err : BOOLEAN]
    /\ cleaned \in [Reqs -> Nat]

\* The BackendServer implements its contract, with a request counted as
\* issued only once Request has returned.
Contract == INSTANCE BackendContract WITH
    issued <- IF pc \in {"read", "recover"} THEN next - 1 ELSE next,
    retired <- (pc = "closed")

\* Every Request is served as the contract says: its own reply, or an
\* error answered exactly once on backQ by cleanupInflight.
ImplementsContract == Contract!Spec

\* Request returns: a caller blocked in ReadDataBytes or tryRecover is
\* eventually back with a result.
RequestReturns ==
    pc \in {"read", "recover"} ~> pc = "idle"

=============================================================================
