--------------------------- MODULE RequestService ---------------------------
(***************************************************************************)
(* What the HTTP layer promises a caller, without queues, threads, keys or *)
(* a cache: a request that was added is answered and ends.  Its listener   *)
(* hears at most one provisional answer and then at most one final one; a  *)
(* cancelled request hears nothing more and ends all the same; the final   *)
(* answer is only left out when the provisional one is still good (304).   *)
(***************************************************************************)
EXTENDS Sequences

CONSTANTS Requests

VARIABLES
    status,     \* "new", "pending" or "done"
    heard,      \* the answers each listener has had
    silenced    \* the cancelled requests

vars == <<status, heard, silenced>>

Init ==
    /\ status = [r \in Requests |-> "new"]
    /\ heard = [r \in Requests |-> <<>>]
    /\ silenced = {}

Add(r) ==
    /\ status[r] = "new"
    /\ status' = [status EXCEPT ![r] = "pending"]
    /\ UNCHANGED <<heard, silenced>>

Provisional == {"intermediate", "intermediateError"}

Cancel(some) ==
    /\ silenced' = silenced \cup some
    /\ UNCHANGED <<status, heard>>

Answer(r, kind) ==
    /\ status[r] = "pending" /\ r \notin silenced
    /\ \/ heard[r] = <<>>
       \/ /\ \E first \in Provisional : heard[r] = <<first>>
          /\ kind \notin Provisional
    /\ heard' = [heard EXCEPT ![r] = Append(@, kind)]
    /\ UNCHANGED <<status, silenced>>

End(r) ==
    /\ status[r] = "pending"
    /\ heard[r] # <<>> \/ r \in silenced
    /\ status' = [status EXCEPT ![r] = "done"]
    /\ UNCHANGED <<heard, silenced>>

Next ==
    \/ \E some \in SUBSET Requests : Cancel(some)
    \/ \E r \in Requests : \/ Add(r) \/ End(r)
                           \/ \E kind \in Provisional \cup {"response", "error"} : Answer(r, kind)

Spec == Init /\ [][Next]_vars
=============================================================================
