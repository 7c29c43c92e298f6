------------------------- MODULE InvocationLifecycle -------------------------
(***************************************************************************)
(* What an Actor Host promises about the invocations it runs, whatever its *)
(* backend does: they run one at a time, each ends with exactly one        *)
(* terminal fact (a result or a failure), and none is started after one    *)
(* that failed.                                                            *)
(***************************************************************************)
EXTENDS Integers, Sequences

VARIABLE history    \* for each invocation started: "running", "result" or "failure"

Statuses == {"running", "result", "failure"}

Last(h) == h[Len(h)]

\* Every earlier invocation ended with a result.
Idle(h) == \A i \in 1..Len(h) : h[i] = "result"

Init == history = <<>>

Begin == /\ Idle(history)
         /\ history' = Append(history, "running")

End(status) == /\ history # <<>>
               /\ Last(history) = "running"
               /\ history' = [history EXCEPT ![Len(history)] = status]

Next == Begin \/ End("result") \/ End("failure")

Spec == Init /\ [][Next]_history

==============================================================================
