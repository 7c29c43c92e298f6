---------------------------- MODULE MCActorTemplate ----------------------------
(* One template over a prompt and a backend brick, by three calls.             *)
EXTENDS ActorTemplate, TLC

CONSTANTS t1, prompt, backend

MCTemplates == {t1}
MCBricks == {prompt, backend}
MCChanging == {prompt}
MCLongArchived == {prompt}
MCKindOf == prompt :> "prompt" @@ backend :> "backend"

Slot(kind, b, n) == [kind |-> kind, ref |-> [brick |-> b, revision |-> n]]

\* A candidate; one that uses a later revision of the prompt; one with it twice; and
\* one with a brick in the wrong slot.
First == << Slot("prompt", prompt, 1), Slot("backend", backend, 1) >>
Later == << Slot("prompt", prompt, 2), Slot("backend", backend, 1) >>
Twice == << Slot("prompt", prompt, 1), Slot("prompt", prompt, 1), Slot("backend", backend, 1) >>
Wrong == << Slot("prompt", backend, 1), Slot("backend", backend, 1) >>
MCSpecs == {First, Later, Twice, Wrong}
MCFirstSpecs == {First, Twice}

Creates(spec) == [op |-> "create", template |-> t1, spec |-> spec]
Revises(spec, n) == [op |-> "revise", template |-> t1, spec |-> spec, base |-> n]
Compilation(n) == [op |-> "compile", template |-> t1, revision |-> n]

MCRequestsOf ==
    << {Creates(spec) : spec \in MCFirstSpecs},
       { Creates(First), Revises(Later, 1), Revises(Wrong, 1),
         [op |-> "validate", template |-> t1, spec |-> Later],
         [op |-> "archive", template |-> t1, expected |-> 0] },
       { Compilation(1), Compilation(2), Revises(First, 1),
         [op |-> "archive", template |-> t1, expected |-> 1],
         [op |-> "read", template |-> t1, revision |-> 2] } >>

==============================================================================
