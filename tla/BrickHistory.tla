----------------------------- MODULE BrickHistory -----------------------------
(***************************************************************************)
(* What the definition-brick store promises: every brick has a history of  *)
(* immutable revisions that only grows at its end, and not at all once the *)
(* brick is archived.  Nothing is said of processes, locks or failures.    *)
(***************************************************************************)
EXTENDS Naturals, Sequences

CONSTANTS Bricks, Bodies

VARIABLES
    history,    \* of each brick: the bodies of revisions 1, 2, ...; <<>> if there is none
    archived    \* the bricks that are archived

vars == <<history, archived>>

Exists(b) == history[b] # <<>>

Init ==
    /\ history \in [Bricks -> Seq(Bodies)]
    /\ archived \subseteq {b \in Bricks : Exists(b)}

Create(b, body) ==
    /\ ~Exists(b)
    /\ history' = [history EXCEPT ![b] = <<body>>]
    /\ UNCHANGED archived

Revise(b, body) ==
    /\ Exists(b) /\ b \notin archived
    /\ history' = [history EXCEPT ![b] = Append(@, body)]
    /\ UNCHANGED archived

Archive(b) ==
    /\ Exists(b)
    /\ archived' = archived \union {b}
    /\ UNCHANGED history

Next == \E b \in Bricks : Archive(b) \/ \E body \in Bodies : Create(b, body) \/ Revise(b, body)

Spec == Init /\ [][Next]_vars

==============================================================================
