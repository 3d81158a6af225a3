------------------------------- MODULE Unblock ------------------------------
(***************************************************************************)
(* contract/verified -> unblock (inngest/functions/unblock.ts): closes the *)
(* verified row on the requester's authority, releases the rows whose      *)
(* blockers are now all settled, and closes the run when nothing is left   *)
(* open.                                                                   *)
(***************************************************************************)
EXTENDS Jobs

CONSTANT Requester  \* runs.requested_by

VARIABLE closed     \* whether runs.status is "done"

StartUnblock(s, r) ==
    /\ Take("verified", r)
    /\ Start(s, "unblock", r, "close", [ready |-> {}, released |-> {}])
    /\ UNCHANGED <<ledgerVars, contents, closed>>

Close(s) ==
    LET r == job[s].row IN
    /\ Running(s, "unblock", "close")
    /\ Moved(r, "done", Requester) \/ Refused(r, "done", Requester)
    /\ Goto(s, "find")
    /\ UNCHANGED <<pending, contents, closed>>

\* Mutant: a blocker that is already closed does not count as settled.
FindVerified(s) ==
    /\ Running(s, "unblock", "find")
    /\ Recall(s, "release",
              [ready |-> {r \in Row : /\ state[r] = "blocked"
                                      /\ Blocker[r] # {}
                                      /\ \A b \in Blocker[r] : state[b] = "verified"},
               released |-> {}])
    /\ UNCHANGED <<ledgerVars, pending, contents, closed>>

\* One read of all the rows of the run.
Find(s) ==
    /\ Running(s, "unblock", "find")
    /\ Recall(s, "release",
              [ready |-> {r \in Row : /\ state[r] = "blocked"
                                      /\ Blocker[r] # {}
                                      /\ \A b \in Blocker[r] : state[b] \in Settled},
               released |-> {}])
    /\ UNCHANGED <<ledgerVars, pending, contents, closed>>

\* The rows found ready are contracted one after the other, in any order.
Release(s) ==
    LET seen == job[s].seen IN
    /\ Running(s, "unblock", "release")
    /\ \E r \in seen.ready :
           \/ /\ Moved(r, "contracted", Requester)
              /\ Recall(s, "release", [ready |-> seen.ready \ {r},
                                       released |-> seen.released \cup {r}])
           \/ /\ Refused(r, "contracted", Requester)
              /\ Recall(s, "release", [seen EXCEPT !.ready = @ \ {r}])
    /\ UNCHANGED <<pending, contents, closed>>

\* Mutant: nothing released, nothing more to do.
AssignOrStop(s) ==
    LET seen == job[s].seen IN
    /\ Running(s, "unblock", "release")
    /\ seen.ready = {}
    /\ pending' = [pending EXCEPT !["assigned"] =
                      [r \in Row |-> @[r] + IF r \in seen.released THEN 1 ELSE 0]]
    /\ IF seen.released = {} THEN Finish(s) ELSE Goto(s, "close_run")
    /\ UNCHANGED <<ledgerVars, contents, closed>>

Assign(s) ==
    LET seen == job[s].seen IN
    /\ Running(s, "unblock", "release")
    /\ seen.ready = {}
    /\ pending' = [pending EXCEPT !["assigned"] =
                      [r \in Row |-> @[r] + IF r \in seen.released THEN 1 ELSE 0]]
    /\ Goto(s, "close_run")
    /\ UNCHANGED <<ledgerVars, contents, closed>>

\* Mutant: a run that is still open is looked at again.
CloseRunLater(s) ==
    LET finished == \A r \in Row : state[r] \in {"done", "failed"} IN
    /\ Running(s, "unblock", "close_run")
    /\ closed' = (closed \/ finished)
    /\ IF finished THEN UNCHANGED pending ELSE Send("verified", job[s].row)
    /\ Finish(s)
    /\ UNCHANGED <<ledgerVars, contents>>

CloseRun(s) ==
    /\ Running(s, "unblock", "close_run")
    /\ closed' = (closed \/ \A r \in Row : state[r] \in {"done", "failed"})
    /\ Finish(s)
    /\ UNCHANGED <<ledgerVars, pending, contents>>

UnblockNext(s) ==
    \/ \E r \in Row : StartUnblock(s, r)
    \/ Close(s)
    \/ Find(s)
    \/ Release(s)
    \/ Assign(s)
    \/ CloseRun(s)

=============================================================================
