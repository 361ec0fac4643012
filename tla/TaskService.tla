---------------------------- MODULE TaskService -----------------------------
(***************************************************************************)
(* What the task framework promises a task (Task.h): its Run function is   *)
(* invoked after it was signalled, or after the time it asked for, gets    *)
(* every event sent since the invocation before, and is never invoked      *)
(* while it runs.                                                          *)
(***************************************************************************)
CONSTANTS
    Tasks,
    Events,     \* what tasks can be signalled
    Idle        \* the event of a task whose time has come

VARIABLES
    phase,      \* what each task is doing
    pending     \* the events it has not got yet

vars == <<phase, pending>>

Init ==
    /\ phase = [t \in Tasks |-> "idle"]
    /\ pending = [t \in Tasks |-> {}]

Becomes(t, p, e) ==
    /\ phase' = [phase EXCEPT ![t] = p]
    /\ pending' = [pending EXCEPT ![t] = e]

Signal(t, e) ==
    /\ phase[t] # "deleted"
    /\ Becomes(t, IF phase[t] = "idle" THEN "ready" ELSE phase[t],
                  pending[t] \cup {e})

TimeOut(t) == phase[t] = "asleep" /\ Becomes(t, "ready", pending[t])

Run(t) == phase[t] = "ready" /\ Becomes(t, "running", {})

(* Run has returned: 0, with or without new events, the time to sleep, or  *)
(* that the task is to be deleted.                                         *)
Return(t) ==
    /\ phase[t] = "running"
    /\ \/ pending[t] = {} /\ Becomes(t, "idle", {})
       \/ pending[t] # {} /\ Becomes(t, "ready", pending[t])
       \/ Becomes(t, "asleep", pending[t] \cup {Idle})
       \/ Becomes(t, "deleted", {})

Next ==
    \E t \in Tasks : \/ \E e \in Events : Signal(t, e)
                     \/ TimeOut(t) \/ Run(t) \/ Return(t)

Spec == Init /\ [][Next]_vars

=============================================================================
