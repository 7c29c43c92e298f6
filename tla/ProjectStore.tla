----------------------------- MODULE ProjectStore -----------------------------
(***************************************************************************)
(* The project application on its SQLite persistence: calls run their unit *)
(* of work as one transaction, under a FIFO mutex that the openers of a    *)
(* database share within a process, and under the write lock of SQLite     *)
(* that excludes the other processes.                                      *)
(*                                                                         *)
(* A step of a call is the code between two awaits.  The statements of a   *)
(* transaction may fail, processes may crash, and openers may be closed    *)
(* while calls are queued.                                                 *)
(***************************************************************************)
EXTENDS Integers, Sequences, FiniteSets

CONSTANTS
    Calls,         \* calls of the application or of close(), by number
    OpenerOf,      \* the persistence object each call is made on
    RequestsOf,    \* what each call may ask
    Openers,       \* the persistence objects, each opened once
    Processes,
    ProcessOf,     \* the process of each opener
    Projects, Bricks,
    ProjectOf,     \* the project of each brick
    Kinds

None == "none"

VARIABLES
    db,                \* the committed contents of the database
    writer,            \* the opener whose transaction has the write lock
    working,           \* the contents this transaction sees; the committed ones if there is none
    databaseMutexes,   \* of each process: the mutex of the database, by reference count
    queue,             \* of each mutex: the calls that hold it (the first) or wait
    opener,            \* of each opener: whether it is open, and its mutex
    call               \* of each call: what it asks, how far it is, its answer

vars == <<db, writer, working, databaseMutexes, queue, opener, call>>

Aggregates == [status: {"absent", "active", "archived"}, kind: Kinds \union {None}, current_revision: Nat]
Absent == [status |-> "absent", kind |-> None, current_revision |-> 0]

\* A body is named by the call that brought it; 0 is one that was there before.
Bodies == Calls \union {0}
Rows == [brick: Bricks, revision: Nat, body: Bodies]
Databases == [projects: SUBSET Projects, aggregate: [Bricks -> Aggregates], revisions: SUBSET Rows]

RevisionsOf(d, b) == {row \in d.revisions : row.brick = b}

Requests ==
    [op: {"create_project", "read_project"}, project: Projects]
    \union [op: {"create", "archive", "read", "history"}, brick: Bricks, kind: Kinds]
    \union [op: {"revise", "exact"}, brick: Bricks, kind: Kinds, revision: Nat \ {0}]
    \union [op: {"close"}]

ASSUME ConstantsOK ==
    /\ Calls \subseteq Nat \ {0} /\ Kinds # {} /\ None \notin Openers
    /\ OpenerOf \in [Calls -> Openers]
    /\ ProcessOf \in [Openers -> Processes]
    /\ ProjectOf \in [Bricks -> Projects]
    /\ \A c \in Calls : RequestsOf[c] \subseteq Requests

Nothing == [op |-> None]

\* An answer names the revision and the status it reports.
Answer(code, n, status) == [code |-> code, revision |-> n, status |-> status]
Error(code) == Answer(code, 0, None)
Unanswered == Error(None)
Succeeded(c) == call[c].answer.code \in {"created", "revised", "archived", "read"}

------------------------------------------------------------------------------
(* Opening and closing. *)

\* Faulty variant: every opener gets a mutex of its own.
RetainedAnew(p, o) == [mutex |-> o, references |-> 1]

\* retainDatabaseMutex
Retained(p, o) ==
    IF databaseMutexes[p].references = 0 THEN [mutex |-> o, references |-> 1]
    ELSE [databaseMutexes[p] EXCEPT !.references = @ + 1]

Open(o) ==
    LET registration == Retained(ProcessOf[o], o) IN
    /\ opener[o].state = "unopened"
    /\ opener' = [opener EXCEPT ![o] = [state |-> "open", released |-> FALSE,
                                        mutex |-> registration.mutex]]
    /\ databaseMutexes' = [databaseMutexes EXCEPT ![ProcessOf[o]] = registration]
    /\ UNCHANGED <<db, writer, working, queue, call>>

\* releaseDatabaseMutex forgets a mutex without references.
Released(registration) ==
    IF registration.references = 1 THEN [mutex |-> None, references |-> 0]
    ELSE [registration EXCEPT !.references = @ - 1]

------------------------------------------------------------------------------
(* The mutex. *)

MutexOf(c) == opener[OpenerOf[c]].mutex
HasTurn(c) == queue[MutexOf(c)] # <<>> /\ Head(queue[MutexOf(c)]) = c
Passed(c) == [queue EXCEPT ![MutexOf(c)] = Tail(@)]

Becomes(c, phase, answer) ==
    call' = [call EXCEPT ![c] = [@ EXCEPT !.phase = phase, !.answer = answer, !.seen = Absent]]

\* A call waits for its turn; it reaches the mutex even when its opener has been
\* closed.  (One that is invalid is answered before it reaches anything.)
Call(c) ==
    /\ call[c].phase = "none"
    /\ opener[OpenerOf[c]].state \in {"open", "closed"}
    /\ \E request \in RequestsOf[c] :
         call' = [call EXCEPT ![c].phase = "queued", ![c].request = request]
    /\ queue' = [queue EXCEPT ![MutexOf(c)] = Append(@, c)]
    /\ UNCHANGED <<db, writer, working, databaseMutexes, opener>>

\* Faulty variant: the turn is passed on only by a call that succeeds.
AnswersHoldingTurn(c, answer) ==
    /\ Becomes(c, "answered", answer)
    /\ queue' = IF answer.code \in {"created", "revised", "archived", "read"} THEN Passed(c)
                ELSE queue

\* The finally of the mutex: whatever came of the call, the next has its turn.
Answers(c, answer) == Becomes(c, "answered", answer) /\ queue' = Passed(c)

Transacts(c) == call[c].phase = "queued" /\ call[c].request.op # "close" /\ HasTurn(c)

FindsClosed(c) ==
    /\ Transacts(c)
    /\ opener[OpenerOf[c]].state = "closed"
    /\ Answers(c, Error("persistence_failure"))
    /\ UNCHANGED <<db, writer, working, databaseMutexes, opener>>

------------------------------------------------------------------------------
(* The transaction. *)

Begin(c) ==
    /\ Transacts(c)
    /\ opener[OpenerOf[c]].state = "open"
    /\ writer = None
    /\ writer' = OpenerOf[c]
    /\ working' = db
    /\ Becomes(c, "begun", Unanswered)
    /\ UNCHANGED <<db, databaseMutexes, queue, opener>>

\* BEGIN IMMEDIATE gives up after its timeout; there is nothing to roll back.
BeginTimesOut(c) ==
    /\ Transacts(c)
    /\ opener[OpenerOf[c]].state = "open"
    /\ writer # None
    /\ Answers(c, Error("persistence_failure"))
    /\ UNCHANGED <<db, writer, working, databaseMutexes, opener>>

\* The code of the first check that does not hold.
FirstFailed(checks) ==
    IF \A i \in DOMAIN checks : checks[i].holds THEN None
    ELSE checks[CHOOSE i \in DOMAIN checks : /\ ~checks[i].holds
                                            /\ \A j \in 1..(i - 1) : checks[j].holds].code

OfProject(request) == request.op \in {"create_project", "read_project"}

\* The checks of the application before it writes, in their order.
Checks(request, d) ==
    IF OfProject(request)
    THEN <<[holds |-> request.op = "create_project" \/ request.project \in d.projects,
            code |-> "project_not_found"]>>
    ELSE LET b == request.brick
             current == d.aggregate[b]
             stored == {row.revision : row \in RevisionsOf(d, b)}
             revises == request.op = "revise"
         IN  << [holds |-> ProjectOf[b] \in d.projects, code |-> "project_not_found"],
                [holds |-> request.op = "create" \/ current.status # "absent",
                 code |-> "definition_brick_not_found"],
                [holds |-> revises => current.kind = request.kind, code |-> "invalid_candidate"],
                [holds |-> revises => current.status # "archived",
                 code |-> "definition_brick_archived"],
                [holds |-> revises => current.current_revision = request.revision,
                 code |-> "revision_conflict"],
                [holds |-> request.op = "exact" => request.revision \in
                             stored \union 1..current.current_revision,
                 code |-> "revision_not_found"],
                [holds |-> request.op = "exact" => request.revision \in stored,
                 code |-> "integrity_error"],
                [holds |-> request.op = "history" => stored = 1..current.current_revision,
                 code |-> "integrity_error"] >>

Refusal(request, d) == FirstFailed(Checks(request, d))

\* A call that only reads (a list of bricks is read with its project), or archives
\* what is archived, has its answer now.
Decide(c) ==
    LET request == call[c].request
        refusal == Refusal(request, working)
        current == IF OfProject(request) THEN Absent ELSE working.aggregate[request.brick]
    IN  /\ call[c].phase = "begun"
        /\ \/ refusal # None /\ Becomes(c, "failed", Error(refusal))
           \/ /\ refusal = None
              /\ request.op \in {"read_project", "read", "history", "exact"}
              /\ Becomes(c, "written", Answer("read", current.current_revision, current.status))
           \/ /\ refusal = None
              /\ request.op = "archive" /\ current.status = "archived"
              /\ Becomes(c, "written", Answer("archived", current.current_revision, "archived"))
           \/ /\ refusal = None
              /\ \/ request.op \in {"create_project", "create", "revise"}
                 \/ request.op = "archive" /\ current.status = "active"
              /\ call' = [call EXCEPT ![c].phase = "decided", ![c].seen = current]
        /\ UNCHANGED <<db, writer, working, databaseMutexes, queue, opener>>

Row(b, n, c) == [brick |-> b, revision |-> n, body |-> c]

\* What the repository writes: the contents after each of its statements.
Statements(c) ==
    LET request == call[c].request
        seen == call[c].seen
    IN  CASE request.op = "create_project" ->
               << [working EXCEPT !.projects = @ \union {request.project}] >>
          [] request.op = "create" ->
               LET inserted == [working EXCEPT !.aggregate[request.brick] =
                                  [status |-> "active", kind |-> request.kind, current_revision |-> 1]]
               IN  << inserted, [inserted EXCEPT !.revisions = @ \union {Row(request.brick, 1, c)}] >>
          [] request.op = "revise" ->
               LET next == seen.current_revision + 1
                   advanced == [working EXCEPT !.aggregate[request.brick].current_revision = next]
               IN  << advanced, [advanced EXCEPT !.revisions = @ \union {Row(request.brick, next, c)}] >>
          [] request.op = "archive" ->
               << [working EXCEPT !.aggregate[request.brick].status = "archived"] >>

\* What the repository checks before it writes: it reads the aggregate again.
WriteChecks(c) ==
    LET request == call[c].request
        revises == request.op = "revise"
    IN  IF request.op = "create_project"
        THEN <<[holds |-> request.project \notin working.projects, code |-> "persistence_failure"]>>
        ELSE LET stored == working.aggregate[request.brick]
                 expected == IF revises THEN request.revision ELSE call[c].seen.current_revision
             IN  << [holds |-> request.op = "create" => stored.status = "absent",
                     code |-> "definition_brick_already_exists"],
                    [holds |-> request.op = "create" \/ stored.status # "absent",
                     code |-> "definition_brick_not_found"],
                    [holds |-> revises => stored.kind = request.kind, code |-> "invalid_candidate"],
                    [holds |-> revises => stored.status # "archived",
                     code |-> "definition_brick_archived"],
                    [holds |-> request.op = "create" \/ stored.current_revision = expected,
                     code |-> "revision_conflict"] >>

WriteRefusal(c) == FirstFailed(WriteChecks(c))

WrittenAnswer(c) ==
    LET request == call[c].request
        seen == call[c].seen
    IN  CASE request.op = "create_project" -> Answer("created", 0, None)
          [] request.op = "create" -> Answer("created", 1, "active")
          [] request.op = "revise" -> Answer("revised", seen.current_revision + 1, seen.status)
          [] request.op = "archive" -> Answer("archived", seen.current_revision, "archived")

Write(c) ==
    /\ call[c].phase = "decided"
    /\ \/ /\ WriteRefusal(c) # None
          /\ Becomes(c, "failed", Error(WriteRefusal(c)))
          /\ UNCHANGED working
       \/ /\ WriteRefusal(c) = None
          /\ working' = Statements(c)[Len(Statements(c))]
          /\ Becomes(c, "written", WrittenAnswer(c))
    /\ UNCHANGED <<db, writer, databaseMutexes, queue, opener>>

\* A statement fails: those before it in the same write have taken effect.
StatementFails(c) ==
    /\ \/ call[c].phase \in {"begun", "written"} /\ UNCHANGED working
       \/ /\ call[c].phase = "decided" /\ WriteRefusal(c) = None
          /\ \/ UNCHANGED working
             \/ \E i \in 1..(Len(Statements(c)) - 1) : working' = Statements(c)[i]
    /\ Becomes(c, "failed", Error("persistence_failure"))
    /\ UNCHANGED <<db, writer, databaseMutexes, queue, opener>>

\* Faulty variant: a failed unit of work is committed too.
RollbackCommits(c) ==
    /\ call[c].phase = "failed"
    /\ db' = working /\ writer' = None
    /\ Answers(c, call[c].answer)
    /\ UNCHANGED <<working, databaseMutexes, opener>>

Rollback(c) ==
    /\ call[c].phase = "failed"
    /\ working' = db /\ writer' = None
    /\ Answers(c, call[c].answer)
    /\ UNCHANGED <<db, databaseMutexes, opener>>

\* Faulty variant: the unit of work ends without a COMMIT.
CommitForgotten(c) ==
    /\ call[c].phase = "written"
    /\ working' = db /\ writer' = None
    /\ Becomes(c, "committed", call[c].answer)
    /\ UNCHANGED <<db, databaseMutexes, queue, opener>>

\* (A COMMIT that fails is a statement that fails.)
Commit(c) ==
    /\ call[c].phase = "written"
    /\ db' = working /\ writer' = None
    /\ Becomes(c, "committed", call[c].answer)
    /\ UNCHANGED <<working, databaseMutexes, queue, opener>>

Return(c) ==
    /\ call[c].phase = "committed"
    /\ Answers(c, call[c].answer)
    /\ UNCHANGED <<db, writer, working, databaseMutexes, opener>>

------------------------------------------------------------------------------
(* close(), and the end of a process. *)

CloseDatabase(c) ==
    /\ call[c].phase = "queued" /\ call[c].request.op = "close" /\ HasTurn(c)
    /\ opener' = [opener EXCEPT ![OpenerOf[c]].state = "closed"]
    /\ Becomes(c, "closing", Unanswered)
    /\ queue' = Passed(c)
    /\ UNCHANGED <<db, writer, working, databaseMutexes>>

\* Faulty variant: a second close gives back the mutex again.
ReleaseTwice(c) ==
    LET o == OpenerOf[c] IN
    /\ call[c].phase = "closing"
    /\ databaseMutexes' = [databaseMutexes EXCEPT ![ProcessOf[o]] = Released(@)]
    /\ opener' = [opener EXCEPT ![o].released = TRUE]
    /\ Becomes(c, "answered", Error("closed"))
    /\ UNCHANGED <<db, writer, working, queue>>

Release(c) ==
    LET o == OpenerOf[c] IN
    /\ call[c].phase = "closing"
    /\ databaseMutexes' = IF opener[o].released THEN databaseMutexes
                          ELSE [databaseMutexes EXCEPT ![ProcessOf[o]] = Released(@)]
    /\ opener' = [opener EXCEPT ![o].released = TRUE]
    /\ Becomes(c, "answered", Error("closed"))
    /\ UNCHANGED <<db, writer, working, queue>>

Of(p) == {o \in Openers : ProcessOf[o] = p}

\* SQLite rolls back what the process had not committed.
Crash(p) ==
    /\ \E o \in Of(p) : opener[o].state \in {"open", "closed"}
    /\ writer' = IF writer \in Of(p) THEN None ELSE writer
    /\ working' = IF writer \in Of(p) THEN db ELSE working
    /\ databaseMutexes' = [databaseMutexes EXCEPT ![p] = [mutex |-> None, references |-> 0]]
    /\ queue' = [o \in Openers |-> IF o \in Of(p) THEN <<>> ELSE queue[o]]
    /\ opener' = [o \in Openers |-> IF o \in Of(p) /\ opener[o].state # "unopened"
                                    THEN [opener[o] EXCEPT !.state = "dead"] ELSE opener[o]]
    /\ call' = [c \in Calls |-> IF call[c].phase \notin {"none", "answered"} /\ OpenerOf[c] \in Of(p)
                                THEN [call[c] EXCEPT !.phase = "lost"] ELSE call[c]]
    /\ UNCHANGED db

------------------------------------------------------------------------------

\* The database a process finds is what earlier ones have left.
FoundBricks(found) ==
    [b \in Bricks |-> IF b \in found THEN [status |-> "active", kind |-> CHOOSE k \in Kinds : TRUE,
                                           current_revision |-> 1] ELSE Absent]
Found == [projects |-> {}, aggregate |-> FoundBricks({}), revisions |-> {}]
FoundDatabases ==
    {Found} \union {[projects |-> Projects, aggregate |-> FoundBricks(found),
                     revisions |-> {Row(b, 1, 0) : b \in found}] : found \in SUBSET Bricks}

Init ==
    /\ db \in FoundDatabases
    /\ writer = None /\ working = db
    /\ databaseMutexes = [p \in Processes |-> [mutex |-> None, references |-> 0]]
    /\ queue = [o \in Openers |-> <<>>]
    /\ opener = [o \in Openers |-> [state |-> "unopened", released |-> FALSE, mutex |-> None]]
    /\ call = [c \in Calls |-> [phase |-> "none", request |-> Nothing, seen |-> Absent,
                                answer |-> Unanswered]]

Step(c) ==
    \/ FindsClosed(c) \/ Begin(c) \/ BeginTimesOut(c) \/ Decide(c) \/ Write(c) \/ StatementFails(c)
    \/ Rollback(c) \/ Commit(c) \/ Return(c) \/ CloseDatabase(c) \/ Release(c)

Next ==
    \/ \E o \in Openers : Open(o)
    \/ \E c \in Calls : Call(c) \/ Step(c)
    \/ \E p \in Processes : Crash(p)

Spec == Init /\ [][Next]_vars

\* A unit of work awaits nothing but its own repositories and the event loop runs
\* what is ready, so a call that has its turn goes on.  Nobody has to call or crash.
Fairness == \A c \in Calls : WF_vars(Step(c))

FairSpec == Spec /\ Fairness

------------------------------------------------------------------------------
(* Properties. *)

Successes == {"created", "revised", "archived", "read"}
Errors == {"persistence_failure", "project_not_found", "definition_brick_not_found",
           "definition_brick_already_exists", "definition_brick_archived", "invalid_candidate",
           "revision_conflict", "revision_not_found", "integrity_error"}
AnswerRecords == [code: Successes \union Errors \union {"closed", None}, revision: Nat,
                  status: {None, "absent", "active", "archived"}]
Phases == {"none", "queued", "begun", "decided", "written", "committed", "failed", "closing",
           "answered", "lost"}

\* The fields keep their types; a revision is stored once; and the registry counts
\* exactly the openers of a process that have not given its mutex back.
TypeOK ==
    /\ {db, working} \subseteq Databases
    /\ \A row, other \in db.revisions :
         row.brick = other.brick /\ row.revision = other.revision => row = other
    /\ writer \in Openers \union {None}
    /\ writer = None => working = db
    /\ queue \in [Openers -> Seq(Calls)]
    /\ opener \in [Openers -> [state: {"unopened", "open", "closed", "dead"}, released: BOOLEAN,
                               mutex: Openers \union {None}]]
    /\ call \in [Calls -> [phase: Phases, request: Requests \union {Nothing},
                           seen: Aggregates, answer: AnswerRecords]]
    /\ \A p \in Processes :
         databaseMutexes[p].references =
             Cardinality({o \in Of(p) : opener[o].state \in {"open", "closed"} /\ ~opener[o].released})

\* A call that was told of success finds what it did in the database, for ever and
\* through every crash, with its revision next to the one it was based on; one that
\* was told of an error has left nothing; and what was read stays true of the past.
AnswersTruthful ==
    \A c \in Calls :
        LET request == call[c].request
            answer == call[c].answer
            now == db.aggregate[request.brick]
        IN  /\ \A row \in db.revisions : row.body = c =>
                  call[c].phase \in {"committed", "lost"} \/ Succeeded(c)
            /\ call[c].phase \in {"committed", "answered"} /\ Succeeded(c) =>
                 CASE request.op \in {"create_project", "read_project"} ->
                        request.project \in db.projects
                   [] request.op = "create" -> Row(request.brick, 1, c) \in db.revisions
                   [] request.op = "revise" ->
                        Row(request.brick, request.revision + 1, c) \in db.revisions
                   [] request.op = "archive" ->
                        now.status = "archived" /\ now.current_revision = answer.revision
                   [] OTHER -> /\ answer.revision <= now.current_revision
                               /\ answer.status = "archived" => now.status = "archived"

\* No call of a process ever blocks its event loop on a transaction of that same
\* process: openers of one database have one mutex, through closing and reopening.
NoSelfContention ==
    \A c \in Calls : Transacts(c) /\ opener[OpenerOf[c]].state = "open" /\ writer # None =>
        ProcessOf[writer] # ProcessOf[OpenerOf[c]]

\* Every call is answered, whatever the calls before it came to, unless its process
\* crashes.
EveryCallAnswered ==
    \A c \in Calls : call[c].phase = "queued" ~> call[c].phase \in {"answered", "lost"}

\* The committed contents are the promised history of every brick: no interleaving
\* of processes, failing statement or crash shows in it.
Missing == -1
BodyOf(b, n) ==
    IF \E row \in RevisionsOf(db, b) : row.revision = n
    THEN (CHOOSE row \in RevisionsOf(db, b) : row.revision = n).body
    ELSE Missing

History == INSTANCE BrickHistory WITH
    history <- [b \in Bricks |-> [n \in 1..db.aggregate[b].current_revision |-> BodyOf(b, n)]],
    archived <- {b \in Bricks : db.aggregate[b].status = "archived"}

ImplementsHistory == History!Spec

==============================================================================
