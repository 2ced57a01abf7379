-------------------------- MODULE DocumentLifecycle --------------------------
(* What the pipeline promises about a document's status, whoever drives it:
   a document arrives queued, a status this build does not know is restarted
   from extraction, and every other change is in states.LEGAL_TRANSITIONS.
   Statuses of several documents change one at a time.                      *)
EXTENDS DocumentStates

CONSTANT Docs
VARIABLE status

\* Not uploaded, left at a retired status by an earlier build, or finished.
Init == status \in [Docs -> {"absent", "embedding", READY}]

Arrive(d)  == status[d] = "absent" /\ status' = [status EXCEPT ![d] = QUEUED]

Restart(d) == status[d] = "embedding" /\ status' = [status EXCEPT ![d] = EXTRACTING]

\* A retired status may also fail like any other.
Move(d) ==
  \E s \in ALL_STATES :
    /\ can_transition(status[d], s) \/ (status[d] = "embedding" /\ s = FAILED)
    /\ status' = [status EXCEPT ![d] = s]

Next == \E d \in Docs : Arrive(d) \/ Restart(d) \/ Move(d)

Spec == Init /\ [][Next]_status
=============================================================================
