------------------------------ MODULE Session ------------------------------
(***************************************************************************)
(* One client session of the proxy (src/unnamed/part_000, type Session):   *)
(* the reader goroutine (ReadingLoop, handle, Schedule) and the writer     *)
(* goroutine (WritingLoop, handleRespPipeline, handleResp, writeResp),     *)
(* which share the channel backQ, the WaitGroup reqWg and the flag closed. *)
(* Commands are abstracted to the branch of handle() they take; replies    *)
(* to the branch of handleResp() they take.  A backend round trip          *)
(* (Schedule -> BackendServer.Request) is one step of the reader, whose    *)
(* outcome is a reply, or a transport error answered twice: by             *)
(* cleanupInflight with the request's own seq and by handleErrorCmd with a *)
(* fresh one.                                                              *)
(***************************************************************************)
EXTENDS Integers, Sequences, FiniteSets

CONSTANTS
    MaxCmds,      \* number of commands the client sends (bound)
    NKeys,        \* keys of a multi-key command such as MGET (> 1)
    NServers,     \* distinct write servers a read-all command fans out to
    PasswordSet,  \* TRUE iff the proxy is configured with a password
    ClientCmds    \* the command classes the client may send

\* The branches of Session.handle (part_000:93-113): AUTH with the right or
\* a wrong password, a locally answered command (PING, SELECT, unknown), the
\* transaction commands, a single-key command, a multi-key command and a
\* command read from every shard.
Cmds == {"AUTH_OK", "AUTH_BAD", "PING", "UNKNOWN", "MULTI", "EXEC",
         "GENERAL", "MULTIKEY", "READALL"}

ASSUME SessionAssumption ==
    /\ MaxCmds \in Nat
    /\ NKeys \in Nat /\ NKeys > 1
    /\ NServers \in Nat \ {0}
    /\ PasswordSet \in BOOLEAN
    /\ ClientCmds \subseteq Cmds

\* multiCmd == nil
NoTx == -1

\* What a backend answers: data, or a -MOVED / -ASK redirection.
BackendReplies == {"data", "moved", "ask"}

\* A PipelineRequest: its seq, its subSeq, and the number of sub-commands of
\* its parent MultiCmd (0 when parentCmd is nil).
ReqRec == [seq : Nat, sub : Nat, of : Nat]

\* A PipelineResponse: the request it answers, err # nil, and its reply.
RspRec == [seq : Nat, sub : Nat, of : Nat, err : BOOLEAN,
           reply : BackendReplies \cup {"local"}]

\* The PipelineResponse that answers request req.
Rsp(req, e, reply) ==
    [seq |-> req.seq, sub |-> req.sub, of |-> req.of, err |-> e,
     reply |-> reply]

VARIABLES
    rd,            \* reader: "read", "sched" (Schedule loop), "wait"
                   \* (reqWg.Wait), "closing" (closeSignal.Wait), "done"
    todo,          \* requests of the current command still to Schedule
    reqSeq, auth, multiCmd, multiCmdErr,
    reqWg,         \* the WaitGroup counter
    backQ, backQClosed,
    wr,            \* writer: "recv" (range backQ), "drain" (heap loop), "done"
    rspSeq, heap, closed,
    gathered,      \* sub-responses handed to their MultiCmd (OnSubCmdFinished)
    reloadPending, \* slotReloadChan holds a signal (TriggerReloadSlots)
    \* history
    cmdSeqs,       \* the seq given to each client command, in order
    phantoms,      \* seqs allocated by Schedule's error path for no command
    written,       \* the seqs whose replies were written to the client
    clientGone     \* a write to the client failed

vars == <<rd, todo, reqSeq, auth, multiCmd, multiCmdErr, reqWg, backQ,
          backQClosed, wr, rspSeq, heap, closed, gathered, reloadPending,
          cmdSeqs, phantoms, written, clientGone>>

readerVars == <<rd, todo, reqSeq, auth, multiCmd, multiCmdErr, cmdSeqs,
                phantoms>>
writerVars == <<wr, rspSeq, heap, closed, gathered, written, clientGone>>

-----------------------------------------------------------------------------
(* Reader *)

\* Session.checkAuth: authenticated, or no password configured.
CheckAuth == auth \/ ~PasswordSet

\* CmdAuthRequired: every command but AUTH needs authentication.
AuthRequired(c) == c \notin {"AUTH_OK", "AUTH_BAD"}

\* The if/else chain of Session.handle: which handler a command goes to.
Dispatch(c) ==
    CASE AuthRequired(c) /\ ~CheckAuth                 -> "noauth"
      [] c \in {"MULTI", "EXEC"} \/ multiCmd # NoTx    -> "multi"
      [] c \in {"AUTH_OK", "AUTH_BAD"}                 -> "auth"
      [] c \in {"PING", "UNKNOWN"}                     -> "local"
      [] c = "READALL"                                 -> "readall"
      [] c = "MULTIKEY"                                -> "multikey"
      [] OTHER                                         -> "general"

\* handleErrorCmd / handleSimpleStringCmd: the next seq, reqWg.Add(1), and
\* a pre-filled response on backQ.
LocalReply ==
    /\ reqSeq' = reqSeq + 1
    /\ cmdSeqs' = Append(cmdSeqs, reqSeq)
    /\ reqWg' = reqWg + 1
    /\ backQ' = Append(backQ, [seq |-> reqSeq, sub |-> 0, of |-> 0,
                               err |-> FALSE, reply |-> "local"])

\* Mutant of HandleMultiCmd: the EXECABORT branch of EXEC leaves
\* s.multiCmdErr set.
HandleMultiCmdKeepErr(c) ==
    /\ LocalReply
    /\ \/ /\ c = "MULTI"
          /\ multiCmd' = IF multiCmd = NoTx THEN 0 ELSE multiCmd
          /\ UNCHANGED multiCmdErr
       \/ /\ c = "EXEC"
          /\ multiCmd' = NoTx
          /\ UNCHANGED multiCmdErr
       \/ /\ c \notin {"MULTI", "EXEC"}
          /\ IF c = "GENERAL"
               THEN multiCmd' = multiCmd + 1 /\ UNCHANGED multiCmdErr
               ELSE multiCmdErr' = TRUE /\ UNCHANGED multiCmd

\* handleMultiCmd: MULTI, EXEC and the commands queued between them.  EXEC
\* runs the queue through MultiCmdExec and answers with one reply either way.
HandleMultiCmd(c) ==
    /\ LocalReply
    /\ \/ /\ c = "MULTI"
          /\ multiCmd' = IF multiCmd = NoTx THEN 0 ELSE multiCmd
          /\ UNCHANGED multiCmdErr
       \/ /\ c = "EXEC"
          /\ multiCmd' = NoTx
          /\ multiCmdErr' = (multiCmdErr /\ multiCmd = NoTx)
       \/ /\ c \notin {"MULTI", "EXEC"}
          /\ IF c = "GENERAL"
               THEN multiCmd' = multiCmd + 1 /\ UNCHANGED multiCmdErr
               ELSE multiCmdErr' = TRUE /\ UNCHANGED multiCmd

\* handleGeneralCmd, handleMultiKeyCmd and handleReadAll: one seq for the
\* command, and n requests sharing it to Schedule one after the other.
StartRequests(n, parent) ==
    /\ reqSeq' = reqSeq + 1
    /\ cmdSeqs' = Append(cmdSeqs, reqSeq)
    /\ todo' = [i \in 1..n |-> [seq |-> reqSeq, sub |-> i - 1,
                                of |-> IF parent THEN n ELSE 0]]
    /\ rd' = "sched"
    /\ UNCHANGED <<reqWg, backQ>>

\* One iteration of ReadingLoop: resp.ReadCommand, then Session.handle.
ReadCommand(c) ==
    /\ rd = "read"
    /\ Len(cmdSeqs) < MaxCmds
    /\ LET d == Dispatch(c) IN
       \/ /\ d \in {"noauth", "local"}
          /\ LocalReply
          /\ UNCHANGED <<rd, todo, auth, multiCmd, multiCmdErr>>
       \/ /\ d = "multi"
          /\ HandleMultiCmd(c)
          /\ UNCHANGED <<rd, todo, auth>>
       \/ /\ d = "auth"
          /\ LocalReply
          /\ auth' = (auth \/ c = "AUTH_OK")
          /\ UNCHANGED <<rd, todo, multiCmd, multiCmdErr>>
       \/ /\ d = "readall"
          /\ StartRequests(NServers, TRUE)
          /\ UNCHANGED <<auth, multiCmd, multiCmdErr>>
       \/ /\ d = "multikey"
          /\ StartRequests(NKeys, TRUE)
          /\ UNCHANGED <<auth, multiCmd, multiCmdErr>>
       \/ /\ d = "general"
          /\ StartRequests(1, FALSE)
          /\ UNCHANGED <<auth, multiCmd, multiCmdErr>>
    /\ UNCHANGED <<backQClosed, phantoms, writerVars, reloadPending>>

\* BackendServer.Request on a leased connection: the request is pushed on
\* inflight, written and flushed, one reply is read and the request taken
\* off inflight again; the response answers req with that reply.
RequestReplies(req) == {Rsp(req, FALSE, reply) : reply \in BackendReplies}

\* An I/O error in writeToBackend or ReadDataBytes: tryRecover runs
\* cleanupInflight, which sends the one inflight request (the connection is
\* leased to this session) back to its backQ with err set, then redials;
\* either way Request returns the error.
CleanupInflight(req) == Rsp(req, TRUE, "data")

\* Mutant of Schedule: the response handleErrorCmd sends from the error path
\* is not counted by a reqWg.Add.
ScheduleOneAdd ==
    /\ rd = "sched"
    /\ LET req == Head(todo) IN
       \/ \E rsp \in RequestReplies(req) :
             /\ backQ' = Append(backQ, rsp)
             /\ reqWg' = reqWg + 1
             /\ UNCHANGED <<reqSeq, cmdSeqs, phantoms>>
       \/ /\ backQ' = Append(Append(backQ, CleanupInflight(req)),
                                [seq |-> reqSeq, sub |-> 0, of |-> 0,
                                 err |-> FALSE, reply |-> "local"])
          /\ reqWg' = reqWg + 1
          /\ reqSeq' = reqSeq + 1
          /\ phantoms' = phantoms \cup {reqSeq}
          /\ UNCHANGED cmdSeqs
    /\ todo' = Tail(todo)
    /\ rd' = IF Tail(todo) = <<>> THEN "read" ELSE "sched"
    /\ UNCHANGED <<auth, multiCmd, multiCmdErr, backQClosed, writerVars,
                   reloadPending>>

\* reqWg.Add(1) then Session.Schedule: the backend answers the request, or
\* BackendServer.Request fails, cleanupInflight sends the request back with
\* err set, and Schedule answers the failure once more via handleErrorCmd.
Schedule ==
    /\ rd = "sched"
    /\ LET req == Head(todo) IN
       \/ \E rsp \in RequestReplies(req) :
             /\ backQ' = Append(backQ, rsp)
             /\ reqWg' = reqWg + 1
             /\ UNCHANGED <<reqSeq, cmdSeqs, phantoms>>
       \/ /\ backQ' = Append(Append(backQ, CleanupInflight(req)),
                                [seq |-> reqSeq, sub |-> 0, of |-> 0,
                                 err |-> FALSE, reply |-> "local"])
          /\ reqWg' = reqWg + 2
          /\ reqSeq' = reqSeq + 1
          /\ phantoms' = phantoms \cup {reqSeq}
          /\ UNCHANGED cmdSeqs
    /\ todo' = Tail(todo)
    /\ rd' = IF Tail(todo) = <<>> THEN "read" ELSE "sched"
    /\ UNCHANGED <<auth, multiCmd, multiCmdErr, backQClosed, writerVars,
                   reloadPending>>

\* ReadCommand returns an error: EOF, a parse error, or the connection
\* closed by the writer.
ReadEOF ==
    /\ rd = "read"
    /\ rd' = "wait"
    /\ UNCHANGED <<todo, reqSeq, auth, multiCmd, multiCmdErr, cmdSeqs,
                   phantoms, reqWg, backQ, backQClosed, writerVars,
                   reloadPending>>

\* reqWg.Wait() returns; close(s.backQ).
CloseBackQ ==
    /\ rd = "wait"
    /\ reqWg = 0
    /\ rd' = "closing"
    /\ backQClosed' = TRUE
    /\ UNCHANGED <<todo, reqSeq, auth, multiCmd, multiCmdErr, cmdSeqs,
                   phantoms, reqWg, backQ, writerVars, reloadPending>>

\* closeSignal.Wait() returns once the writer is done.
ReaderExit ==
    /\ rd = "closing"
    /\ wr = "done"
    /\ rd' = "done"
    /\ UNCHANGED <<todo, reqSeq, auth, multiCmd, multiCmdErr, cmdSeqs,
                   phantoms, reqWg, backQ, backQClosed, writerVars,
                   reloadPending>>

-----------------------------------------------------------------------------
(* Writer *)

\* Mutant of NextRspSeq: handleResp never advances rspSeq itself.
NextRspSeqStuck(r) == rspSeq

\* handleResp, lines 188-190: only a response without parentCmd advances
\* rspSeq here.
NextRspSeq(r) == IF r.of = 0 THEN rspSeq + 1 ELSE rspSeq

\* Mutant of WriterClose: WritingLoop ignores the error of
\* handleRespPipeline and goes on.
WriterCloseIgnored ==
    UNCHANGED closed

\* WritingLoop: handleRespPipeline returned an error, s.Close().
WriterClose ==
    closed' = TRUE

\* Session.Write to the client: it succeeds, or fails and the error goes
\* back up to WritingLoop.
WriteClient(seq) ==
    \/ /\ written' = Append(written, seq)
       /\ wr' = "drain"
       /\ UNCHANGED <<closed, clientGone>>
    \/ /\ clientGone' = TRUE
       /\ WriterClose
       /\ wr' = "recv"
       /\ UNCHANGED written

\* writeResp, called when handleResp found no error: a sub-response is
\* handed to its MultiCmd and only the last one of them writes the
\* coalesced reply; nothing is written once the session is closed.
WriteResp(r) ==
    LET rs == NextRspSeq(r)
        g  == gathered \cup {[seq |-> r.seq, sub |-> r.sub]}
        finished == Cardinality({x \in g : x.seq = r.seq}) = r.of
    IN
    \/ /\ closed
       /\ rspSeq' = rs
       /\ wr' = "drain"
       /\ UNCHANGED <<closed, gathered, written, clientGone>>
    \/ /\ ~closed
       /\ r.of > 0
       /\ gathered' = g
       /\ IF finished
            THEN rspSeq' = rs + 1 /\ WriteClient(r.seq)
            ELSE /\ rspSeq' = rs
                 /\ wr' = "drain"
                 /\ UNCHANGED <<closed, written, clientGone>>
    \/ /\ ~closed
       /\ r.of = 0
       /\ rspSeq' = rs
       /\ WriteClient(r.seq)
       /\ UNCHANGED gathered

\* Mutant of HandleResp: on the error path wg.Done() runs twice (a deferred
\* Done added to the explicit one).
HandleRespDoubleDone(r) ==
    /\ reqWg' = IF r.err THEN reqWg - 2 ELSE reqWg - 1
    /\ reloadPending' = (reloadPending \/ r.err \/ r.reply = "moved")
    /\ \/ /\ r.err \/ r.reply \in {"moved", "ask"}
          /\ rspSeq' = NextRspSeq(r)
          /\ WriterClose
          /\ wr' = "recv"
          /\ UNCHANGED <<gathered, written, clientGone>>
       \/ /\ ~r.err
          /\ WriteResp(r)

\* Session.handleResp for the response r (whose seq is rspSeq): wg.Done(),
\* a transport error or a -MOVED triggers a slot reload, -MOVED and -ASK are
\* redirected on a fresh connection, which may fail; an error is returned to
\* WritingLoop, which closes the session.
HandleResp(r) ==
    /\ reqWg' = reqWg - 1
    /\ reloadPending' = (reloadPending \/ r.err \/ r.reply = "moved")
    /\ \/ /\ r.err \/ r.reply \in {"moved", "ask"}
          /\ rspSeq' = NextRspSeq(r)
          /\ WriterClose
          /\ wr' = "recv"
          /\ UNCHANGED <<gathered, written, clientGone>>
       \/ /\ ~r.err
          /\ WriteResp(r)

\* Mutant of Drain: the heap loop does not return to receiving when the
\* top of rspHeap is not the next response.
DrainSpin ==
    /\ wr = "drain"
    /\ LET top == {r \in heap : \A x \in heap : r.seq <= x.seq} IN
       IF \E r \in top : r.seq = rspSeq
         THEN \E r \in top :
                /\ heap' = heap \ {r}
                /\ HandleResp(r)
         ELSE UNCHANGED <<wr, rspSeq, heap, closed, gathered, written,
                          clientGone, reqWg, reloadPending>>
    /\ UNCHANGED <<readerVars, backQ, backQClosed>>

\* One iteration of WritingLoop: receive from backQ, then
\* handleRespPipeline: a response out of turn goes to rspHeap.
Receive ==
    /\ wr = "recv"
    /\ backQ # <<>>
    /\ backQ' = Tail(backQ)
    /\ LET r == Head(backQ) IN
       IF r.seq # rspSeq
         THEN /\ heap' = heap \cup {r}
              /\ UNCHANGED <<wr, rspSeq, closed, gathered, written,
                             clientGone, reqWg, reloadPending>>
         ELSE /\ HandleResp(r)
              /\ UNCHANGED heap
    /\ UNCHANGED <<readerVars, backQClosed>>

\* The loop of handleRespPipeline: while rspHeap.Top() has seq rspSeq, pop
\* it and handle it.  Responses of equal seq leave the heap in any order.
Drain ==
    /\ wr = "drain"
    /\ LET top == {r \in heap : \A x \in heap : r.seq <= x.seq} IN
       IF \E r \in top : r.seq = rspSeq
         THEN \E r \in top :
                /\ heap' = heap \ {r}
                /\ HandleResp(r)
         ELSE /\ wr' = "recv"
              /\ UNCHANGED <<rspSeq, heap, closed, gathered, written,
                             clientGone, reqWg, reloadPending>>
    /\ UNCHANGED <<readerVars, backQ, backQClosed>>

\* backQ is closed and drained: WritingLoop returns, closing the session
\* and signalling closeSignal.
WriterExit ==
    /\ wr = "recv"
    /\ backQClosed
    /\ backQ = <<>>
    /\ wr' = "done"
    /\ closed' = TRUE
    /\ UNCHANGED <<readerVars, reqWg, backQ, backQClosed, rspSeq, heap,
                   gathered, written, clientGone, reloadPending>>

-----------------------------------------------------------------------------

Init ==
    /\ rd = "read"
    /\ todo = <<>>
    /\ reqSeq = 0
    /\ auth = FALSE
    /\ multiCmd = NoTx
    /\ multiCmdErr = FALSE
    /\ reqWg = 0
    /\ backQ = <<>>
    /\ backQClosed = FALSE
    /\ wr = "recv"
    /\ rspSeq = 0
    /\ heap = {}
    /\ closed = FALSE
    /\ gathered = {}
    /\ reloadPending = FALSE
    /\ cmdSeqs = <<>>
    /\ phantoms = {}
    /\ written = <<>>
    /\ clientGone = FALSE

\* Both goroutines have returned: the session is over.
Terminated ==
    /\ rd = "done"
    /\ UNCHANGED vars

Next ==
    \/ \E c \in ClientCmds : ReadCommand(c)
    \/ Schedule
    \/ ReadEOF
    \/ CloseBackQ
    \/ ReaderExit
    \/ Receive
    \/ Drain
    \/ WriterExit
    \/ Terminated

\* Goroutines are scheduled fairly and a backend round trip ends (with a
\* reply or a transport error); the client is under no obligation.
Fairness ==
    /\ WF_vars(Schedule)
    /\ WF_vars(CloseBackQ)
    /\ WF_vars(ReaderExit)
    /\ WF_vars(Receive)
    /\ WF_vars(Drain)
    /\ WF_vars(WriterExit)

Spec == Init /\ [][Next]_vars
FairSpec == Spec /\ Fairness

-----------------------------------------------------------------------------
(* Properties *)

TypeOK ==
    /\ rd \in {"read", "sched", "wait", "closing", "done"}
    /\ todo \in Seq(ReqRec)
    /\ reqSeq \in Nat
    /\ auth \in BOOLEAN
    /\ multiCmd \in Nat \cup {NoTx}
    /\ multiCmdErr \in BOOLEAN
    /\ reqWg \in Nat
    /\ backQ \in Seq(RspRec)
    /\ backQClosed \in BOOLEAN
    /\ wr \in {"recv", "drain", "done"}
    /\ rspSeq \in Nat
    /\ heap \subseteq RspRec
    /\ closed \in BOOLEAN
    /\ gathered \subseteq [seq : Nat, sub : Nat]
    /\ reloadPending \in BOOLEAN
    /\ cmdSeqs \in Seq(Nat)
    /\ phantoms \subseteq Nat
    /\ written \in Seq(Nat)
    /\ clientGone \in BOOLEAN

\* Per-session ordering (handleRespPipeline and its heap, writeResp): the
\* replies the client receives answer its own commands, the i-th reply the
\* i-th command, with no reply skipped, repeated, or invented (such as the
\* one handleErrorCmd sends from Schedule for a seq no command has).
RepliesInOrder ==
    written = SubSeq(cmdSeqs, 1, Len(written))

\* Drain-on-close (ReadingLoop, handleResp's wg.Done): the WaitGroup counts
\* exactly the responses the writer has not yet handled, those on backQ and
\* those parked in rspHeap; so reqWg.Wait() returns only once both are empty,
\* close(backQ) loses no response, and the counter never goes negative.
WaitGroupCountsPending ==
    reqWg = Len(backQ) + Cardinality(heap)

\* Drain-on-close (ReadingLoop): once the client has gone away, the reader
\* gets past reqWg.Wait(), the writer drains backQ, and the session ends.
SessionTerminates ==
    (rd = "wait") ~> (rd = "done")

\* Spec section 5: a backend transport error or a failed redirection is
\* answered with -ERR and does not end the session: the connection is
\* closed only after a write to the client failed or the session ended.
BackendErrorKeepsSession ==
    closed => (clientGone \/ wr = "done")

\* Spec section 8.7 (handleMultiCmd): the abort flag belongs to the open
\* transaction.  A non-queueable command sets s.multiCmdErr only inside
\* MULTI, and the EXEC that closes the transaction clears it, so the
\* EXECABORT verdict of every EXEC is about its own queue: an error never
\* outlives its transaction to abort a later, clean one.
TxErrorScoped ==
    multiCmdErr => multiCmd # NoTx

=============================================================================
