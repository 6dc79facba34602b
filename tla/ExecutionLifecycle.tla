------------------------- MODULE ExecutionLifecycle -------------------------
(* What the execution subsystem promises to the user who registered an       *)
(* execution, with none of the processes, calls and rows that keep the       *)
(* promise.  An execution is prepared once, offered to the agents once and   *)
(* given out after that.  It ends with one of four outcomes; until the last  *)
(* writer that saw it running has had its say the outcome may still change,  *)
(* or the execution even seem to run again.  Once settled it is history.     *)
CONSTANTS Executions

VARIABLES phase,   \* how far an execution has come
          outcome  \* how it ended, if it has

Outcomes == {"COMPLETE", "FAILURE", "EXCEPTION", "SCRAM"}

Init == /\ phase = [e \in Executions |-> "waiting"]
        /\ outcome = [e \in Executions |-> "none"]

Becomes(e, p, o) == phase'[e] = p /\ outcome'[e] = o

Launch(e) == phase[e] = "waiting" /\ Becomes(e, "preparing", "none")

Offer(e) == phase[e] = "preparing" /\ Becomes(e, "offered", "none")

GiveOut(e) == phase[e] = "offered" /\ Becomes(e, "given", "none")

\* From any of its active phases, or once more with another outcome.
End(e) == /\ phase[e] \in {"preparing", "offered", "given", "ended"}
          /\ \E p \in {"ended", "settled"}, o \in Outcomes : Becomes(e, p, o)

\* A writer that had seen it running has not noticed that it ended.
Reopen(e) == phase[e] = "ended" /\ Becomes(e, "given", "none")

Stay(e) == Becomes(e, phase[e], outcome[e])

Next == /\ DOMAIN phase' = Executions
        /\ DOMAIN outcome' = Executions
        /\ \A e \in Executions : \/ Launch(e) \/ Offer(e) \/ GiveOut(e)
                                 \/ End(e) \/ Reopen(e) \/ Stay(e)

Spec == Init /\ [][Next]_<<phase, outcome>>
=============================================================================
