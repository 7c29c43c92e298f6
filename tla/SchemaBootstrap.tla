--------------------------- MODULE SchemaBootstrap ---------------------------
(***************************************************************************)
(* Opening a project database: openProjectSqlitePersistence configures a   *)
(* connection, creates schema v1 in a database that is structurally empty, *)
(* and validates what it then finds before it serves anything.             *)
(*                                                                         *)
(* The call is synchronous, so the openers of one process follow each      *)
(* other; those of several processes interleave at every SQL statement.    *)
(* SQLite gives the write lock to one connection, shows the others what is *)
(* committed, and undoes a transaction whose connection or process ends.   *)
(***************************************************************************)
EXTENDS Integers, Sequences, FiniteSets, Functions

CONSTANTS
    Openers, Processes,
    ProcessOf,       \* the process of each opener
    ObjectsInOrder,  \* PROJECT_SCHEMA_V1_OBJECTS
    OtherObjects,    \* tables and indices that are not of schema v1, or altered
    None

ASSUME ProcessOfAssumption == ProcessOf \in [Openers -> Processes]
ASSUME ObjectsAssumption ==
    /\ ObjectsInOrder # <<>>
    /\ \A i, j \in DOMAIN ObjectsInOrder : ObjectsInOrder[i] = ObjectsInOrder[j] => i = j
    /\ Range(ObjectsInOrder) \intersect OtherObjects = {}
ASSUME OpenersAssumption == Openers # {} /\ None \notin Openers

VARIABLES
    db,       \* the committed schema: its objects and the rows of its version table
    writer,   \* the opener whose transaction holds the write lock
    working,  \* what that transaction has written
    opener,   \* of each opener: the statement it is at, or how it ended
    found,    \* history: the schema each opener found when it began
    failed,   \* history: openers one of whose statements failed
    initial   \* history: the schema the database had first

vars == <<db, writer, working, opener, found, failed, initial>>

PROJECT_SCHEMA_VERSION == 1

V1Objects == Range(ObjectsInOrder)
Empty == [objects |-> {}, versions |-> {}]
V1 == [objects |-> V1Objects, versions |-> {PROJECT_SCHEMA_VERSION}]

Statements == {"inspect", "begin", "recheck", "create", "insert", "commit",
               "validate", "validate_version"}
Ends == {"open", "unsupported_schema_version", "persistence_failure", "crashed"}

\* An opener runs from its first statement to its end without another opener of
\* its process in between.
MayRun(o) ==
    \A q \in Openers \ {o} : ProcessOf[q] = ProcessOf[o] => opener[q] \notin Statements

At(o, statement) == opener[o] = statement
Goes(o, to) == opener' = [opener EXCEPT ![o] = to]

\* What the connection of o sees.
View(o) == IF writer = o THEN working ELSE db

------------------------------------------------------------------------------
(* The connection. *)

\* The path is canonical, outside of the workspace and in a directory, SQLite
\* opens it, and the settings are as they were asked for.
Configure(o) ==
    /\ At(o, "unopened")
    /\ MayRun(o)
    /\ Goes(o, "inspect")
    /\ found' = [found EXCEPT ![o] = db]
    /\ UNCHANGED <<db, writer, working, failed, initial>>

\* Any of that fails: the connection is closed before anything is read.
ConfigureFails(o) ==
    /\ At(o, "unopened")
    /\ MayRun(o)
    /\ Goes(o, "persistence_failure")
    /\ UNCHANGED <<db, writer, working, found, failed, initial>>

\* The error path of the bootstrap and of the open: the transaction is rolled
\* back, and the connection is closed, which ends it even when the rollback fails.
Refuse(o) ==
    /\ Goes(o, "unsupported_schema_version")
    /\ writer' = IF writer = o THEN None ELSE writer
    /\ working' = IF writer = o THEN Empty ELSE working
    /\ UNCHANGED <<db, found, initial>>

\* A statement fails: an error of the disk, or a lock that is held for longer
\* than PROJECT_SQLITE_BUSY_TIMEOUT_MS.  Whatever failed, the answer is that of
\* an unsupported schema.
StatementFails(o) ==
    /\ opener[o] \in Statements
    /\ Refuse(o)
    /\ failed' = failed \union {o}

------------------------------------------------------------------------------
(* Bootstrap. *)

Inspect(o) ==
    /\ At(o, "inspect")
    /\ Goes(o, IF db.objects = {} THEN "begin" ELSE "validate")
    /\ UNCHANGED <<db, writer, working, found, failed, initial>>

\* BEGIN IMMEDIATE
Begin(o) ==
    /\ At(o, "begin")
    /\ writer = None
    /\ writer' = o
    /\ working' = db
    /\ Goes(o, "recheck")
    /\ UNCHANGED <<db, found, failed, initial>>

\* Another process holds the lock until the timeout.
BeginTimesOut(o) ==
    /\ At(o, "begin")
    /\ writer # None
    /\ Refuse(o)
    /\ UNCHANGED failed

\* The schema appeared between the inspection and the lock.
RecheckRefuses(o) ==
    /\ At(o, "recheck")
    /\ working.objects # {}
    /\ Refuse(o)
    /\ UNCHANGED failed

RecheckPasses(o) ==
    /\ At(o, "recheck")
    /\ working.objects = {}
    /\ Goes(o, "create")
    /\ UNCHANGED <<db, writer, working, found, failed, initial>>

NextObject == ObjectsInOrder[Cardinality(working.objects) + 1]

\* Faulty variant: the objects are created outside of the transaction.
CreateCommitted(o) ==
    /\ At(o, "create")
    /\ working' = [working EXCEPT !.objects = @ \union {NextObject}]
    /\ db' = working'
    /\ Goes(o, IF working'.objects = V1Objects THEN "insert" ELSE "create")
    /\ UNCHANGED <<writer, found, failed, initial>>

Create(o) ==
    /\ At(o, "create")
    /\ working' = [working EXCEPT !.objects = @ \union {NextObject}]
    /\ Goes(o, IF working'.objects = V1Objects THEN "insert" ELSE "create")
    /\ UNCHANGED <<db, writer, found, failed, initial>>

\* Faulty variant: the version is one too high.
InsertNextVersion(o) ==
    /\ At(o, "insert")
    /\ working' = [working EXCEPT !.versions = {PROJECT_SCHEMA_VERSION + 1}]
    /\ Goes(o, "commit")
    /\ UNCHANGED <<db, writer, found, failed, initial>>

InsertVersion(o) ==
    /\ At(o, "insert")
    /\ working' = [working EXCEPT !.versions = @ \union {PROJECT_SCHEMA_VERSION}]
    /\ Goes(o, "commit")
    /\ UNCHANGED <<db, writer, found, failed, initial>>

Commit(o) ==
    /\ At(o, "commit")
    /\ db' = working
    /\ writer' = None
    /\ working' = Empty
    /\ Goes(o, "validate")
    /\ UNCHANGED <<found, failed, initial>>

------------------------------------------------------------------------------
(* Validation, after a bootstrap and of a database that was not empty. *)

\* Faulty variant: the objects are counted and not compared.
ValidateCount(o) ==
    /\ At(o, "validate")
    /\ Cardinality(View(o).objects) = Len(ObjectsInOrder)
    /\ Goes(o, "validate_version")
    /\ UNCHANGED <<db, writer, working, found, failed, initial>>

Validate(o) ==
    /\ At(o, "validate")
    /\ View(o).objects = V1Objects
    /\ Goes(o, "validate_version")
    /\ UNCHANGED <<db, writer, working, found, failed, initial>>

\* The version is a second query.  When it is the one that is supported, the
\* mutex of the path is retained and the persistence is served.
ValidateVersion(o) ==
    /\ At(o, "validate_version")
    /\ View(o).versions = {PROJECT_SCHEMA_VERSION}
    /\ Goes(o, "open")
    /\ UNCHANGED <<db, writer, working, found, failed, initial>>

ValidationRefuses(o) ==
    /\ \/ At(o, "validate") /\ View(o).objects # V1Objects
       \/ At(o, "validate_version") /\ View(o).versions # {PROJECT_SCHEMA_VERSION}
    /\ Refuse(o)
    /\ UNCHANGED failed

------------------------------------------------------------------------------

\* A process ends, in the middle of anything.
Crash(p) ==
    LET dying == {o \in Openers : ProcessOf[o] = p /\ opener[o] \notin Ends \ {"open"}} IN
    /\ \E o \in dying : opener[o] # "unopened"
    /\ opener' = [o \in Openers |-> IF o \in dying THEN "crashed" ELSE opener[o]]
    /\ writer' = IF writer \in dying THEN None ELSE writer
    /\ working' = IF writer \in dying THEN Empty ELSE working
    /\ UNCHANGED <<db, found, failed, initial>>

\* The databases an opener may be given: a new file, schema v1, one with another
\* version or without one, and one with other or altered objects.
Databases ==
    {Empty, V1, [V1 EXCEPT !.versions = {2}], [V1 EXCEPT !.versions = {1, 2}],
     [V1 EXCEPT !.versions = {}]}
      \union { [V1 EXCEPT !.objects = (V1Objects \ {gone}) \union {other}] :
                 gone \in V1Objects, other \in OtherObjects }
      \union { [Empty EXCEPT !.objects = {other}] : other \in OtherObjects }

Init ==
    /\ initial \in Databases
    /\ db = initial
    /\ writer = None
    /\ working = Empty
    /\ opener = [o \in Openers |-> "unopened"]
    /\ found = [o \in Openers |-> Empty]
    /\ failed = {}

Runs(o) ==
    \/ Inspect(o)
    \/ Begin(o) \/ BeginTimesOut(o)
    \/ RecheckPasses(o) \/ RecheckRefuses(o)
    \/ Create(o) \/ InsertVersion(o) \/ Commit(o)
    \/ Validate(o) \/ ValidateVersion(o) \/ ValidationRefuses(o)
    \/ StatementFails(o)

Next ==
    \/ \E o \in Openers : Configure(o) \/ ConfigureFails(o) \/ Runs(o)
    \/ \E p \in Processes : Crash(p)

Spec == Init /\ [][Next]_vars

------------------------------------------------------------------------------
(* Properties. *)

\* However many processes race to create it, and wherever they stop, the schema
\* is created completely or not at all, once, and in nothing but an empty
\* database: one with other objects, or of another version, is left as it was.
SchemaAllOrNothing == db = initial \/ (initial = Empty /\ db = V1)

\* A database is served only if it is a complete v1, and one that was complete
\* when its opener began is refused only if a statement of that opener failed:
\* losing the race to create the schema is no reason to refuse it later.  An
\* opener that has ended holds no lock.
AnswersMatchSchema ==
    \A o \in Openers :
        /\ opener[o] = "open" => db = V1
        /\ opener[o] = "unsupported_schema_version" /\ found[o] = V1 => o \in failed
        /\ opener[o] \in Ends => writer # o

\* The openers that race for an empty database do not all lose: when everyone
\* has ended and nothing failed, somebody was served.
RaceHasAWinner ==
    (/\ initial \in {Empty, V1}
     /\ failed = {}
     /\ \A o \in Openers : opener[o] \in {"open", "unsupported_schema_version"})
    => \E o \in Openers : opener[o] = "open"

==============================================================================
