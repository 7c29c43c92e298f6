---------------------------- MODULE MCProjectStore ----------------------------
(* One database with one brick, used by two processes.                         *)
EXTENDS ProjectStore, TLC

CONSTANTS o1, o2, o3, p1, p2, project, brick

MCProcesses == {p1, p2}
MCProcessOf == [o \in Openers |-> IF o = o3 THEN p2 ELSE p1]
MCProjects == {project}
MCBricks == {brick}
MCProjectOf == [b \in MCBricks |-> project]

Ask(op) == [op |-> op, brick |-> brick, kind |-> "prompt"]
AskRevision(op, kind, n) == [op |-> op, brick |-> brick, kind |-> kind, revision |-> n]

Everything ==
    { [op |-> "create_project", project |-> project], [op |-> "read_project", project |-> project],
      Ask("create"), Ask("archive"), Ask("history"),
      AskRevision("revise", "prompt", 1), AskRevision("revise", "prompt", 2),
      AskRevision("revise", "backend", 1), AskRevision("exact", "prompt", 2) }
Close == [op |-> "close"]

\* Two calls in one process and a third in the other, with every request.
WritingOpeners == {o1, o3}
WritingOpenerOf == 1 :> o1 @@ 2 :> o1 @@ 3 :> o3
WritingRequestsOf == [c \in 1..3 |-> Everything]

\* Two openers in one process.  One is closed, perhaps twice or before it is used, while others are
\* opened and used in its process and the other one.
ClosingOpeners == {o1, o2, o3}
ClosingOpenerOf == 1 :> o1 @@ 2 :> o1 @@ 3 :> o2 @@ 4 :> o3
ClosingRequestsOf ==
    [c \in 1..4 |-> CASE c = 1 -> {Close} [] c = 2 -> {Close, Ask("archive")}
                       [] c = 3 -> {Close, Ask("create")} [] OTHER -> {Ask("create")}]

==============================================================================
