--------------------------- MODULE BackendContract ---------------------------
(***************************************************************************)
(* What a BackendServer promises its callers (spec.md section 4.3): each   *)
(* Request, one at a time, ends either with the backend's reply to that    *)
(* very request, or with an error, in which case the request has also been *)
(* answered exactly once on its session's backQ (cleanupInflight).  A      *)
(* retired server (Close) takes no more requests.                          *)
(***************************************************************************)
EXTENDS Naturals

CONSTANT MaxReqs   \* requests sent through the server (bound)

VARIABLES
    issued,    \* requests completed so far; request r is the r-th one
    returned,  \* what Request returned: [req, reply, err]
    cleaned,   \* cleaned[r]: error responses sent to r's backQ
    retired    \* Close was called

Reqs == 1..MaxReqs

\* The reply field of an error result (Request returns nil).
NoReply == 0

Init ==
    /\ issued = 0
    /\ returned = {}
    /\ cleaned = [r \in Reqs |-> 0]
    /\ retired = FALSE

\* Request(r) as one atomic step: r's own reply, or an error answered once
\* on backQ as well.
Serve ==
    /\ ~retired
    /\ issued < MaxReqs
    /\ issued' = issued + 1
    /\ \/ /\ returned' = returned \cup
                 {[req |-> issued + 1, reply |-> issued + 1, err |-> FALSE]}
          /\ UNCHANGED cleaned
       \/ /\ returned' = returned \cup
                 {[req |-> issued + 1, reply |-> NoReply, err |-> TRUE]}
          /\ cleaned' = [cleaned EXCEPT ![issued + 1] = 1]
    /\ UNCHANGED retired

Retire ==
    /\ ~retired
    /\ retired' = TRUE
    /\ UNCHANGED <<issued, returned, cleaned>>

Next == Serve \/ Retire

Spec == Init /\ [][Next]_<<issued, returned, cleaned, retired>>

=============================================================================
