------------------------ MODULE SchemaBootstrapProofs ------------------------
(* Proofs about SchemaBootstrap: for any number of openers, processes and     *)
(* objects, the schema is created completely or not at all.                   *)
EXTENDS SchemaBootstrap, TLAPS

------------------------------------------------------------------------------
(* The invariant. *)

InTransaction == {"recheck", "create", "insert", "commit"}

\* An opener holds the write lock exactly while it is between BEGIN and COMMIT.
LockMatchesStatement == \A o \in Openers : opener[o] \in InTransaction <=> writer = o

\* What a transaction has written by each of its statements.  From the second
\* inspection on it knows that the committed database is empty, and nobody else
\* can change that while it holds the lock.
WorkingMatchesStatement ==
    \A o \in Openers :
        /\ opener[o] = "recheck" => working = db
        /\ opener[o] = "create" => db = Empty /\ working.versions = {}
        /\ opener[o] = "insert" => db = Empty /\ working = [objects |-> V1Objects, versions |-> {}]
        /\ opener[o] = "commit" => db = Empty /\ working = V1

\* An opener that has validated the objects found schema v1, which stays.
ValidatedStays ==
    \A o \in Openers :
        /\ opener[o] = "validate_version" => db.objects = V1Objects
        /\ opener[o] = "open" => db = V1

SchemaInv ==
    /\ initial \in Databases
    /\ SchemaAllOrNothing
    /\ writer \in Openers \union {None}
    /\ opener \in [Openers -> Statements \union Ends \union {"unopened"}]
    /\ working = [objects |-> working.objects, versions |-> working.versions]
    /\ LockMatchesStatement
    /\ WorkingMatchesStatement
    /\ ValidatedStays

------------------------------------------------------------------------------
(* The databases. *)

LEMMA V1IsNotEmpty == V1Objects # {} /\ V1.objects # {} /\ V1 # Empty
<1>1. V1Objects # {}
  BY ObjectsAssumption DEF V1Objects, Range
<1> QED BY <1>1 DEF V1, Empty

\* A database without an object is empty: none of those an opener may be given
\* has a version and no objects.
LEMMA EmptyDatabase ==
    ASSUME initial \in Databases, SchemaAllOrNothing, db.objects = {}
    PROVE  initial = Empty /\ db = Empty
<1>1. db = initial
  BY V1IsNotEmpty DEF SchemaAllOrNothing
<1>2. V1Objects # {} /\ V1.objects = V1Objects
  BY V1IsNotEmpty DEF V1
<1>3. CASE initial \in {Empty, V1, [V1 EXCEPT !.versions = {2}],
                        [V1 EXCEPT !.versions = {1, 2}], [V1 EXCEPT !.versions = {}]}
  BY <1>1, <1>2, <1>3 DEF V1
<1>4. CASE \E gone \in V1Objects, other \in OtherObjects :
             initial = [V1 EXCEPT !.objects = (V1Objects \ {gone}) \union {other}]
  BY <1>1, <1>4 DEF V1
<1>5. CASE \E other \in OtherObjects : initial = [Empty EXCEPT !.objects = {other}]
  BY <1>1, <1>5 DEF Empty
<1> QED BY <1>1, <1>3, <1>4, <1>5 DEF Databases

\* A database with the objects and the version of v1 is v1.
LEMMA V1Database ==
    ASSUME initial \in Databases, SchemaAllOrNothing,
           db.objects = V1Objects, db.versions = {PROJECT_SCHEMA_VERSION}
    PROVE  db = V1
<1>1. CASE db # initial
  BY <1>1 DEF SchemaAllOrNothing
<1>2. CASE db = initial
  <2>1. db = [objects |-> db.objects, versions |-> db.versions]
    BY <1>2 DEF Databases, Empty, V1
  <2> QED BY <2>1 DEF V1
<1> QED BY <1>1, <1>2

------------------------------------------------------------------------------
(* The steps. *)

\* Every way to end an opener undoes its transaction and leaves the database.
LEMMA RefuseKeepsInv ==
    ASSUME SchemaInv, NEW o \in Openers, opener[o] \in Statements, Refuse(o)
    PROVE  SchemaInv'
<1>1. /\ opener' = [opener EXCEPT ![o] = "unsupported_schema_version"]
      /\ db' = db /\ initial' = initial
      /\ writer' = IF writer = o THEN None ELSE writer
      /\ working' = IF writer = o THEN Empty ELSE working
  BY DEF Refuse, Goes
<1>2. opener' \in [Openers -> Statements \union Ends \union {"unopened"}]
  BY <1>1 DEF SchemaInv, Ends
<1>3. \A q \in Openers : opener'[q] = IF q = o THEN "unsupported_schema_version" ELSE opener[q]
  BY <1>1 DEF SchemaInv
<1>4. LockMatchesStatement'
  BY <1>1, <1>3, OpenersAssumption DEF SchemaInv, LockMatchesStatement, InTransaction
<1>5. WorkingMatchesStatement'
  BY <1>1, <1>3, <1>4 DEF SchemaInv, WorkingMatchesStatement, LockMatchesStatement, InTransaction
<1>6. ValidatedStays'
  BY <1>1, <1>3 DEF SchemaInv, ValidatedStays
<1> QED BY <1>1, <1>2, <1>4, <1>5, <1>6 DEF SchemaInv, SchemaAllOrNothing, Empty

\* A statement that reads moves its opener and nothing else; the lock asks only
\* that it does not leave or enter a transaction.
LEMMA ReadKeepsInv ==
    ASSUME SchemaInv, NEW o \in Openers, NEW to \in Statements \union Ends \union {"unopened"},
           Goes(o, to), UNCHANGED <<db, writer, working, initial>>,
           opener[o] \in InTransaction <=> to \in InTransaction,
           to \notin InTransaction \/ (to = "create" /\ opener[o] = "recheck" /\ db = Empty),
           to = "validate_version" => db.objects = V1Objects,
           to = "open" => db = V1
    PROVE  SchemaInv'
<1>1. /\ opener' = [opener EXCEPT ![o] = to]
      /\ db' = db /\ initial' = initial /\ writer' = writer /\ working' = working
  BY DEF Goes
<1>2. opener' \in [Openers -> Statements \union Ends \union {"unopened"}]
  BY <1>1 DEF SchemaInv
<1>3. \A q \in Openers : opener'[q] = IF q = o THEN to ELSE opener[q]
  BY <1>1 DEF SchemaInv
<1>4. LockMatchesStatement'
  BY <1>1, <1>3 DEF SchemaInv, LockMatchesStatement
<1>5. WorkingMatchesStatement'
  BY <1>1, <1>3 DEF SchemaInv, WorkingMatchesStatement, InTransaction, Empty
<1>6. ValidatedStays'
  BY <1>1, <1>3 DEF SchemaInv, ValidatedStays
<1> QED BY <1>1, <1>2, <1>4, <1>5, <1>6 DEF SchemaInv, SchemaAllOrNothing

\* The statements of a transaction, which only the holder of the lock executes.
LEMMA TransactionKeepsInv ==
    ASSUME SchemaInv, NEW o \in Openers, Create(o) \/ InsertVersion(o)
    PROVE  SchemaInv'
<1> DEFINE to == opener'[o]
<1>1. /\ opener[o] \in InTransaction /\ to \in InTransaction
      /\ opener' = [opener EXCEPT ![o] = to]
      /\ UNCHANGED <<db, writer, initial>>
      /\ db = Empty
  BY DEF Create, InsertVersion, At, Goes, SchemaInv, WorkingMatchesStatement, InTransaction
<1>2. opener' \in [Openers -> Statements \union Ends \union {"unopened"}]
  BY <1>1 DEF SchemaInv, InTransaction, Statements
<1>3. \A q \in Openers : opener'[q] = IF q = o THEN to ELSE opener[q]
  BY <1>1 DEF SchemaInv
<1>4. LockMatchesStatement'
  BY <1>1, <1>3 DEF SchemaInv, LockMatchesStatement
<1>5. /\ working' = [objects |-> working'.objects, versions |-> working'.versions]
      /\ \/ (to = "create" /\ working'.versions = {})
         \/ (to = "insert" /\ working' = [objects |-> V1Objects, versions |-> {}])
         \/ (to = "commit" /\ working' = V1)
  <2>1. CASE Create(o)
    <3> DEFINE objects == working.objects \union {NextObject}
    <3>1. working = [objects |-> working.objects, versions |-> {}]
      BY <2>1 DEF Create, At, SchemaInv, WorkingMatchesStatement
    <3>2. working' = [working EXCEPT !.objects = objects]
      BY <2>1 DEF Create
    <3>3. to = IF working'.objects = V1Objects THEN "insert" ELSE "create"
      BY <2>1, <1>1 DEF Create, Goes, SchemaInv
    <3> HIDE DEF objects, to
    <3>4. working' = [objects |-> objects, versions |-> {}]
      BY <3>1, <3>2
    <3>5. working'.objects = objects /\ working'.versions = {}
      BY <3>4
    <3>6. CASE objects = V1Objects
      BY <3>3, <3>4, <3>5, <3>6
    <3>7. CASE objects # V1Objects
      BY <3>3, <3>4, <3>5, <3>7
    <3> QED BY <3>6, <3>7
  <2>2. CASE InsertVersion(o)
    BY <2>2 DEF InsertVersion, At, Goes, SchemaInv, WorkingMatchesStatement, V1
  <2> QED BY <2>1, <2>2
<1>6. WorkingMatchesStatement'
  <2>1. \A q \in Openers : q # o => opener'[q] \notin InTransaction
    BY <1>1, <1>4 DEF SchemaInv, LockMatchesStatement
  <2> QED BY <1>1, <1>5, <2>1 DEF WorkingMatchesStatement, InTransaction
<1>7. ValidatedStays'
  BY <1>1, <1>3 DEF SchemaInv, ValidatedStays, InTransaction
<1> QED BY <1>1, <1>2, <1>4, <1>5, <1>6, <1>7 DEF SchemaInv, SchemaAllOrNothing

LEMMA BeginKeepsInv ==
    ASSUME SchemaInv, NEW o \in Openers, Begin(o) PROVE SchemaInv'
<1>1. /\ opener' = [opener EXCEPT ![o] = "recheck"] /\ opener[o] = "begin"
      /\ writer = None /\ writer' = o /\ working' = db
      /\ UNCHANGED <<db, initial>>
  BY DEF Begin, At, Goes
<1>2. opener' \in [Openers -> Statements \union Ends \union {"unopened"}]
  BY <1>1 DEF SchemaInv, Statements
<1>3. \A q \in Openers : opener'[q] = IF q = o THEN "recheck" ELSE opener[q]
  BY <1>1 DEF SchemaInv
<1>4. LockMatchesStatement'
  BY <1>1, <1>3, OpenersAssumption DEF SchemaInv, LockMatchesStatement, InTransaction
<1>5. WorkingMatchesStatement'
  BY <1>1, <1>3, <1>4 DEF WorkingMatchesStatement, LockMatchesStatement, InTransaction
<1>6. ValidatedStays'
  BY <1>1, <1>3 DEF SchemaInv, ValidatedStays
<1>7. db = [objects |-> db.objects, versions |-> db.versions]
  BY DEF SchemaInv, SchemaAllOrNothing, Databases, Empty, V1
<1> QED BY <1>1, <1>2, <1>4, <1>5, <1>6, <1>7 DEF SchemaInv, SchemaAllOrNothing

\* The commit is the only step that changes the database, from empty to v1.
LEMMA CommitKeepsInv ==
    ASSUME SchemaInv, NEW o \in Openers, Commit(o) PROVE SchemaInv'
<1>1. /\ opener' = [opener EXCEPT ![o] = "validate"] /\ opener[o] = "commit"
      /\ db' = V1 /\ db = Empty /\ writer' = None /\ working' = Empty /\ initial' = initial
      /\ writer = o
  BY DEF Commit, At, Goes, SchemaInv, WorkingMatchesStatement, LockMatchesStatement, InTransaction
<1>2. opener' \in [Openers -> Statements \union Ends \union {"unopened"}]
  BY <1>1 DEF SchemaInv, Statements
<1>3. \A q \in Openers : opener'[q] = IF q = o THEN "validate" ELSE opener[q]
  BY <1>1 DEF SchemaInv
<1>4. LockMatchesStatement'
  BY <1>1, <1>3, OpenersAssumption DEF SchemaInv, LockMatchesStatement, InTransaction
<1>5. WorkingMatchesStatement'
  BY <1>1, <1>4, OpenersAssumption DEF WorkingMatchesStatement, LockMatchesStatement, InTransaction
<1>6. ValidatedStays'
  BY <1>1 DEF ValidatedStays, V1
<1>7. SchemaAllOrNothing'
  BY <1>1, V1IsNotEmpty DEF SchemaInv, SchemaAllOrNothing
<1> QED BY <1>1, <1>2, <1>4, <1>5, <1>6, <1>7 DEF SchemaInv, Empty

LEMMA CrashKeepsInv ==
    ASSUME SchemaInv, NEW p \in Processes, Crash(p) PROVE SchemaInv'
<1> DEFINE dying == {o \in Openers : ProcessOf[o] = p /\ opener[o] \notin Ends \ {"open"}}
<1>1. /\ opener' = [o \in Openers |-> IF o \in dying THEN "crashed" ELSE opener[o]]
      /\ writer' = IF writer \in dying THEN None ELSE writer
      /\ working' = IF writer \in dying THEN Empty ELSE working
      /\ UNCHANGED <<db, initial>>
  BY DEF Crash
<1> HIDE DEF dying
<1>2. opener' \in [Openers -> Statements \union Ends \union {"unopened"}]
  BY <1>1 DEF SchemaInv, Ends
<1>3. LockMatchesStatement'
  BY <1>1, OpenersAssumption DEF SchemaInv, LockMatchesStatement, InTransaction
<1>4. WorkingMatchesStatement'
  BY <1>1, <1>3 DEF SchemaInv, WorkingMatchesStatement, LockMatchesStatement, InTransaction
<1>5. ValidatedStays'
  BY <1>1 DEF SchemaInv, ValidatedStays
<1>6. writer' \in Openers \union {None}
  BY <1>1 DEF SchemaInv
<1> QED BY <1>1, <1>2, <1>3, <1>4, <1>5, <1>6 DEF SchemaInv, SchemaAllOrNothing, Empty

LEMMA SchemaStep == SchemaInv /\ [Next]_vars => SchemaInv'
<1> SUFFICES ASSUME SchemaInv, [Next]_vars PROVE SchemaInv'
  OBVIOUS
<1>1. ASSUME NEW o \in Openers, Configure(o) \/ ConfigureFails(o) \/ Inspect(o)
      PROVE  SchemaInv'
  <2>1. PICK to \in {"inspect", "persistence_failure", "begin", "validate"} :
            Goes(o, to) /\ opener[o] \in {"unopened", "inspect"}
    BY <1>1 DEF Configure, ConfigureFails, Inspect, At
  <2>2. UNCHANGED <<db, writer, working, initial>>
    BY <1>1 DEF Configure, ConfigureFails, Inspect
  <2> QED BY <2>1, <2>2, ReadKeepsInv DEF InTransaction, Statements, Ends
<1>2. ASSUME NEW o \in Openers, RecheckPasses(o) PROVE SchemaInv'
  <2>1. Goes(o, "create") /\ opener[o] = "recheck" /\ working.objects = {} /\ working = db
    BY <1>2 DEF RecheckPasses, At, SchemaInv, WorkingMatchesStatement
  <2>2. db = Empty
    BY <2>1, EmptyDatabase DEF SchemaInv
  <2>3. UNCHANGED <<db, writer, working, initial>>
    BY <1>2 DEF RecheckPasses
  <2> QED BY <2>1, <2>2, <2>3, ReadKeepsInv DEF InTransaction, Statements
<1>3. ASSUME NEW o \in Openers, Validate(o) \/ ValidateVersion(o) PROVE SchemaInv'
  <2>1. View(o) = db
    BY <1>3 DEF Validate, ValidateVersion, At, View, SchemaInv, LockMatchesStatement, InTransaction
  <2>2. UNCHANGED <<db, writer, working, initial>>
    BY <1>3 DEF Validate, ValidateVersion
  <2>3. CASE Validate(o)
    <3>1. Goes(o, "validate_version") /\ opener[o] = "validate" /\ db.objects = V1Objects
      BY <2>1, <2>3 DEF Validate, At
    <3> QED BY <3>1, <2>2, ReadKeepsInv DEF InTransaction, Statements
  <2>4. CASE ValidateVersion(o)
    <3>1. Goes(o, "open") /\ opener[o] = "validate_version"
          /\ db.versions = {PROJECT_SCHEMA_VERSION}
      BY <2>1, <2>4 DEF ValidateVersion, At
    <3>2. db = V1
      BY <3>1, V1Database DEF SchemaInv, ValidatedStays
    <3> QED BY <3>1, <3>2, <2>2, ReadKeepsInv DEF InTransaction, Ends
  <2> QED BY <1>3, <2>3, <2>4
<1>4. ASSUME NEW o \in Openers,
             BeginTimesOut(o) \/ RecheckRefuses(o) \/ ValidationRefuses(o) \/ StatementFails(o)
      PROVE  SchemaInv'
  <2>1. Refuse(o) /\ opener[o] \in Statements
    BY <1>4 DEF BeginTimesOut, RecheckRefuses, ValidationRefuses, StatementFails, At, Statements
  <2> QED BY <2>1, RefuseKeepsInv
<1>5. CASE UNCHANGED vars
  BY <1>5 DEF vars, SchemaInv, SchemaAllOrNothing, LockMatchesStatement, WorkingMatchesStatement,
          ValidatedStays
<1> QED
  BY <1>1, <1>2, <1>3, <1>4, <1>5, TransactionKeepsInv, BeginKeepsInv, CommitKeepsInv,
     CrashKeepsInv DEF Next, Runs

LEMMA SchemaInvariant == Spec => []SchemaInv
<1>1. Init => SchemaInv
  <2> SUFFICES ASSUME Init PROVE SchemaInv
    OBVIOUS
  <2>1. LockMatchesStatement /\ WorkingMatchesStatement /\ ValidatedStays
    BY OpenersAssumption DEF Init, LockMatchesStatement, WorkingMatchesStatement, ValidatedStays,
          InTransaction
  <2> QED BY <2>1 DEF Init, SchemaInv, SchemaAllOrNothing, Empty
<1> QED BY <1>1, SchemaStep, PTL DEF Spec

------------------------------------------------------------------------------
(* The theorems. *)

\* However many processes open a database at once, and wherever each of them
\* fails or dies, schema v1 is created completely or not at all, and only in a
\* database that was empty (initializeProjectSchemaV1).
THEOREM SchemaAtomic == Spec => []SchemaAllOrNothing
<1>1. SchemaInv => SchemaAllOrNothing
  BY DEF SchemaInv
<1> QED BY <1>1, SchemaInvariant, PTL

\* An opener that found a complete v1 and had no failing statement goes straight
\* through the validation: it never tries to begin a transaction.
FoundStays ==
    \A o \in Openers :
        found[o] = V1 /\ o \notin failed =>
            /\ db = V1
            /\ opener[o] \in {"inspect", "validate", "validate_version", "open", "crashed"}

\* Once it is v1 a database stays v1: only a commit writes, and it found it empty.
LEMMA V1Stays ==
    ASSUME SchemaInv, [Next]_vars, db = V1 PROVE db' = V1
<1>1. ASSUME NEW o \in Openers, Commit(o) PROVE FALSE
  BY <1>1, V1IsNotEmpty DEF Commit, At, SchemaInv, WorkingMatchesStatement
<1> QED
  BY <1>1 DEF Next, Runs, Configure, ConfigureFails, Inspect, Begin, BeginTimesOut, RecheckPasses,
        RecheckRefuses, Create, InsertVersion, Validate, ValidateVersion, ValidationRefuses,
        StatementFails, Refuse, Crash, vars

LEMMA FoundStep ==
    ASSUME SchemaInv, FoundStays, [Next]_vars PROVE FoundStays'
<1> SUFFICES ASSUME NEW q \in Openers, found'[q] = V1, q \notin failed'
             PROVE  /\ db' = V1
                    /\ opener'[q] \in {"inspect", "validate", "validate_version", "open", "crashed"}
  BY DEF FoundStays
<1> DEFINE passing == {"inspect", "validate", "validate_version", "open", "crashed"}
<1>1. ASSUME NEW o \in Openers, Configure(o) PROVE db' = V1 /\ opener'[q] \in passing
  <2>1. CASE q = o
    BY <1>1, <2>1, V1IsNotEmpty DEF Configure, Goes, At, SchemaInv, FoundStays
  <2>2. CASE q # o
    BY <1>1, <2>2 DEF Configure, Goes, SchemaInv, FoundStays
  <2> QED BY <2>1, <2>2
<1>2. CASE found' = found /\ failed \subseteq failed'
  <2>1. found[q] = V1 /\ q \notin failed /\ db = V1 /\ opener[q] \in passing
    BY <1>2 DEF FoundStays
  <2>2. db' = V1
    BY <2>1, V1Stays
  <2>3. db.objects = V1Objects /\ db.versions = {PROJECT_SCHEMA_VERSION} /\ db.objects # {}
    BY <2>1, V1IsNotEmpty DEF V1
  <2>4. opener[q] \in {"inspect", "validate", "validate_version"} => View(q) = db
    BY DEF SchemaInv, LockMatchesStatement, InTransaction, View
  <2>5. ASSUME NEW o \in Openers, ConfigureFails(o) \/ Runs(o) PROVE opener'[q] \in passing
    <3>1. CASE q # o
      BY <1>2, <2>1, <2>5, <3>1 DEF ConfigureFails, Runs, Inspect, Begin, BeginTimesOut,
            RecheckPasses, RecheckRefuses, Create, InsertVersion, Commit, Validate,
            ValidateVersion, ValidationRefuses, StatementFails, Refuse, Goes, SchemaInv
    <3>2. CASE q = o
      <4>1. ~ (Begin(o) \/ BeginTimesOut(o) \/ RecheckPasses(o) \/ RecheckRefuses(o)
               \/ Create(o) \/ InsertVersion(o) \/ Commit(o) \/ ConfigureFails(o))
        BY <2>1, <3>2 DEF Begin, BeginTimesOut, RecheckPasses, RecheckRefuses, Create,
              InsertVersion, Commit, ConfigureFails, At
      <4>2. ~ StatementFails(o)
        BY <3>2 DEF StatementFails
      <4>3. ~ ValidationRefuses(o)
        BY <2>3, <2>4, <3>2 DEF ValidationRefuses, At
      <4>4. CASE Inspect(o)
        BY <4>4, <3>2, <2>3 DEF Inspect, Goes, SchemaInv
      <4>5. CASE Validate(o) \/ ValidateVersion(o)
        BY <4>5, <3>2 DEF Validate, ValidateVersion, Goes, SchemaInv
      <4> QED BY <2>5, <4>1, <4>2, <4>3, <4>4, <4>5 DEF Runs
    <3> QED BY <3>1, <3>2
  <2>6. ASSUME NEW p \in Processes, Crash(p) PROVE opener'[q] \in passing
    BY <2>1, <2>6 DEF Crash
  <2>7. ASSUME NEW o \in Openers, Configure(o) PROVE opener'[q] \in passing
    BY <1>1, <2>7
  <2>8. CASE UNCHANGED vars
    BY <2>1, <2>8 DEF vars
  <2> QED BY <2>2, <2>5, <2>6, <2>7, <2>8 DEF Next
<1>3. (\E o \in Openers : Configure(o)) \/ (found' = found /\ failed \subseteq failed')
  BY DEF Next, Runs, ConfigureFails, Inspect, Begin, BeginTimesOut, RecheckPasses, RecheckRefuses,
        Create, InsertVersion, Commit, Validate, ValidateVersion, ValidationRefuses,
        StatementFails, Refuse, Crash, vars
<1> QED BY <1>1, <1>2, <1>3

\* A database is served only while it is a complete schema v1; one that was
\* complete when its opener began is refused only if a statement failed; and an
\* opener that has ended holds no lock (validateSchema, and the error path of
\* openProjectSqlitePersistence).
THEOREM SchemaAnswered == Spec => []AnswersMatchSchema
<1>1. Init => FoundStays
  BY V1IsNotEmpty DEF Init, FoundStays
<1>2. SchemaInv /\ FoundStays /\ [Next]_vars => FoundStays'
  BY FoundStep
<1>3. SchemaInv /\ FoundStays => AnswersMatchSchema
  BY DEF SchemaInv, FoundStays, ValidatedStays, LockMatchesStatement, InTransaction, Ends,
        AnswersMatchSchema
<1> QED BY <1>1, <1>2, <1>3, SchemaInvariant, PTL DEF Spec

------------------------------------------------------------------------------
(* The race for an empty database. *)

\* Where the opener that created the schema may be after its commit, when none
\* of its statements fails.
Committed == {"validate", "validate_version", "open", "crashed"}

\* While nothing fails, whoever was refused lost to an opener that holds the lock
\* or has committed, and that one is served unless its process dies.
RaceInv ==
    initial \in {Empty, V1} /\ failed = {} =>
        /\ \A o \in Openers : opener[o] \in {"validate", "validate_version"} => db = V1
        /\ \A o \in Openers :
             opener[o] \in InTransaction \union {"begin", "unsupported_schema_version"} =>
                initial = Empty
        /\ db = V1 /\ initial = Empty => \E w \in Openers : opener[w] \in Committed
        /\ \A o \in Openers :
             opener[o] = "unsupported_schema_version" =>
                \E w \in Openers : opener[w] \in InTransaction \union Committed

\* What a step of one opener must not do to keep it.
LEMMA OpenerKeepsRace ==
    ASSUME SchemaInv, RaceInv, initial \in {Empty, V1}, failed = {},
           NEW o \in Openers, NEW to, Goes(o, to), UNCHANGED <<db, initial>>,
           to \in {"validate", "validate_version"} => db = V1,
           to \in InTransaction \union {"begin", "unsupported_schema_version"} => initial = Empty,
           opener[o] \in Committed => to \in Committed,
           opener[o] \in InTransaction => to \in InTransaction \/ db = V1,
           to = "unsupported_schema_version" =>
               db = V1 \/ \E w \in Openers \ {o} : opener[w] \in InTransaction
    PROVE  RaceInv'
<1>1. \A q \in Openers : opener'[q] = IF q = o THEN to ELSE opener[q]
  BY DEF Goes, SchemaInv
<1>2. \A q \in Openers : opener'[q] \in {"validate", "validate_version"} => db = V1
  BY <1>1 DEF RaceInv
<1>3. \A q \in Openers :
        opener'[q] \in InTransaction \union {"begin", "unsupported_schema_version"} =>
            initial = Empty
  BY <1>1 DEF RaceInv
<1>4. ASSUME db = V1, initial = Empty
      PROVE  \E w \in Openers : opener'[w] \in Committed
  BY <1>1, <1>4 DEF RaceInv
<1>5. ASSUME NEW q \in Openers, opener'[q] = "unsupported_schema_version"
      PROVE  \E w \in Openers : opener'[w] \in InTransaction \union Committed
  <2>1. CASE db = V1
    BY <1>3, <1>4, <1>5, <2>1
  <2>2. CASE db # V1
    <3>1. CASE q = o
      BY <1>1, <1>5, <2>2, <3>1
    <3>2. CASE q # o
      <4>1. PICK w \in Openers : opener[w] \in InTransaction \union Committed
        BY <1>1, <1>5, <3>2 DEF RaceInv
      <4>2. opener'[w] \in InTransaction \union Committed
        BY <1>1, <2>2, <4>1
      <4> QED BY <4>2
    <3> QED BY <3>1, <3>2
  <2> QED BY <2>1, <2>2
<1> QED BY <1>2, <1>3, <1>4, <1>5 DEF RaceInv

LEMMA RaceStep ==
    ASSUME SchemaInv, RaceInv, [Next]_vars PROVE RaceInv'
<1> SUFFICES ASSUME initial' \in {Empty, V1}, failed' = {} PROVE RaceInv'
  BY DEF RaceInv
<1>1. initial' = initial /\ failed \subseteq failed'
  BY DEF Next, Runs, Configure, ConfigureFails, Inspect, Begin, BeginTimesOut, RecheckPasses,
        RecheckRefuses, Create, InsertVersion, Commit, Validate, ValidateVersion,
        ValidationRefuses, StatementFails, Refuse, Crash, vars
<1>2. initial \in {Empty, V1} /\ failed = {}
  BY <1>1
<1>3. /\ db \in {Empty, V1} /\ (initial = V1 => db = V1)
      /\ V1.objects = V1Objects /\ V1.versions = {PROJECT_SCHEMA_VERSION} /\ V1Objects # {}
      /\ Empty.objects = {}
  BY <1>2, V1IsNotEmpty DEF SchemaInv, SchemaAllOrNothing, V1, Empty
<1>4. \A o \in Openers : opener[o] \in {"validate", "validate_version"} => db = V1 /\ View(o) = db
  BY <1>2 DEF RaceInv, View, SchemaInv, LockMatchesStatement, InTransaction
<1> USE DEF InTransaction, Committed
<1>5. ASSUME NEW o \in Openers, Configure(o) \/ ConfigureFails(o) \/ Inspect(o) PROVE RaceInv'
  <2>1. PICK to \in {"inspect", "persistence_failure", "begin", "validate"} :
            /\ Goes(o, to) /\ opener[o] \in {"unopened", "inspect"}
            /\ to = "begin" => db.objects = {}
            /\ to = "validate" => db.objects # {}
    BY <1>5 DEF Configure, ConfigureFails, Inspect, At
  <2>2. UNCHANGED <<db, initial>>
    BY <1>5 DEF Configure, ConfigureFails, Inspect
  <2>3. (to = "begin" => initial = Empty) /\ (to = "validate" => db = V1)
    BY <1>2, <1>3, <2>1
  <2> QED BY <1>2, <2>1, <2>2, <2>3, OpenerKeepsRace
<1>6. ASSUME NEW o \in Openers, Begin(o) \/ RecheckPasses(o) \/ Create(o) \/ InsertVersion(o)
      PROVE  RaceInv'
  <2>1. PICK to \in InTransaction : Goes(o, to)
    BY <1>6 DEF Begin, RecheckPasses, Create, InsertVersion
  <2>2. /\ opener[o] \in InTransaction \union {"begin"}
        /\ UNCHANGED <<db, initial>>
    BY <1>6 DEF Begin, RecheckPasses, Create, InsertVersion, At
  <2>3. initial = Empty
    BY <1>2, <2>2 DEF RaceInv
  <2> QED BY <1>2, <2>1, <2>2, <2>3, OpenerKeepsRace
<1>7. ASSUME NEW o \in Openers, BeginTimesOut(o) \/ RecheckRefuses(o) PROVE RaceInv'
  <2>1. /\ Goes(o, "unsupported_schema_version") /\ UNCHANGED <<db, initial>>
        /\ opener[o] \in {"begin", "recheck"}
    BY <1>7 DEF BeginTimesOut, RecheckRefuses, Refuse, At
  <2>2. initial = Empty
    BY <1>2, <2>1 DEF RaceInv
  <2>3. CASE BeginTimesOut(o)
    <3>1. writer \in Openers \ {o} /\ opener[writer] \in InTransaction
      BY <2>3 DEF BeginTimesOut, At, SchemaInv, LockMatchesStatement
    <3> QED BY <1>2, <2>1, <2>2, <2>3, <3>1, OpenerKeepsRace DEF BeginTimesOut, At
  <2>4. CASE RecheckRefuses(o)
    <3>1. db = V1
      BY <1>3, <2>4 DEF RecheckRefuses, At, SchemaInv, WorkingMatchesStatement
    <3> QED BY <1>2, <2>1, <2>2, <3>1, OpenerKeepsRace
  <2> QED BY <1>7, <2>3, <2>4
<1>8. ASSUME NEW o \in Openers, Commit(o) PROVE RaceInv'
  <2>1. db' = V1 /\ opener' = [opener EXCEPT ![o] = "validate"]
    BY <1>8 DEF Commit, At, Goes, SchemaInv, WorkingMatchesStatement
  <2>2. opener'[o] = "validate" /\ \A q \in Openers \ {o} : opener'[q] = opener[q]
    BY <2>1 DEF SchemaInv
  <2>3. initial = Empty
    BY <1>2, <1>8 DEF Commit, At, RaceInv
  <2> QED BY <1>1, <2>1, <2>2, <2>3 DEF RaceInv
<1>9. ASSUME NEW o \in Openers, Validate(o) \/ ValidateVersion(o) PROVE RaceInv'
  <2>1. PICK to \in {"validate_version", "open"} : Goes(o, to)
    BY <1>9 DEF Validate, ValidateVersion
  <2>2. opener[o] \in {"validate", "validate_version"} /\ UNCHANGED <<db, initial>>
    BY <1>9 DEF Validate, ValidateVersion, At
  <2> QED BY <1>2, <1>4, <2>1, <2>2, OpenerKeepsRace
<1>10. ASSUME NEW o \in Openers PROVE ~ValidationRefuses(o) /\ ~StatementFails(o)
  BY <1>3, <1>4 DEF ValidationRefuses, StatementFails, At
<1>11. ASSUME NEW p \in Processes, Crash(p) PROVE RaceInv'
  <2>1. /\ db' = db
        /\ \A o \in Openers : \/ opener'[o] = opener[o]
                              \/ opener'[o] = "crashed" /\ opener[o] # "unsupported_schema_version"
    BY <1>11 DEF Crash, Ends
  <2>2. \A o \in Openers : opener[o] \in InTransaction \union Committed =>
                              opener'[o] \in InTransaction \union Committed
    BY <2>1
  <2>3. \A o \in Openers : opener[o] \in Committed => opener'[o] \in Committed
    BY <2>1
  <2>4. \A o \in Openers : opener'[o] # "crashed" => opener'[o] = opener[o]
    BY <2>1
  <2> QED BY <1>1, <1>2, <2>1, <2>2, <2>3, <2>4 DEF RaceInv
<1>12. CASE UNCHANGED vars
  BY <1>12 DEF vars, RaceInv
<1> QED
  BY <1>5, <1>6, <1>7, <1>8, <1>9, <1>10, <1>11, <1>12 DEF Next, Runs

\* The processes that race to create the schema do not all lose: when nothing
\* failed and everyone has ended, somebody was served (BEGIN IMMEDIATE and the
\* second inspection of initializeProjectSchemaV1).
THEOREM RaceIsWon == Spec => []RaceHasAWinner
<1>1. Init => RaceInv
  BY V1IsNotEmpty DEF Init, RaceInv, InTransaction
<1>2. SchemaInv /\ RaceInv /\ [Next]_vars => RaceInv'
  BY RaceStep
<1>3. SchemaInv /\ RaceInv => RaceHasAWinner
  <2> SUFFICES ASSUME SchemaInv, RaceInv, initial \in {Empty, V1}, failed = {},
                      \A o \in Openers : opener[o] \in {"open", "unsupported_schema_version"}
               PROVE  \E o \in Openers : opener[o] = "open"
    BY DEF RaceHasAWinner
  <2>1. PICK o \in Openers : TRUE
    BY OpenersAssumption
  <2>2. CASE opener[o] = "unsupported_schema_version"
    <3>1. PICK w \in Openers : opener[w] \in InTransaction \union Committed
      BY <2>2 DEF RaceInv
    <3> QED BY <3>1 DEF InTransaction, Committed
  <2> QED BY <2>1, <2>2
<1> QED BY <1>1, <1>2, <1>3, SchemaInvariant, PTL DEF Spec

==============================================================================
