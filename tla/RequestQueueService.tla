------------------------ MODULE RequestQueueService ------------------------
(* RequestQueue with its threads keeps the promise of RequestService.      *)
EXTENDS RequestQueue

ServiceStatus ==
    [r \in Requests |-> IF finished[r] > 0 THEN "done"
                        ELSE IF seq[r] > 0 THEN "pending" ELSE "new"]

Service == INSTANCE RequestService
               WITH status <- ServiceStatus, heard <- answers, silenced <- cancelled

\* Every behaviour of the dispatchers is one of the abstract service: answers
\* in order, none after a cancel or the end, no end without an answer.
KeepsPromise == Service!Spec
=============================================================================
