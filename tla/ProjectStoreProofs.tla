-------------------------- MODULE ProjectStoreProofs --------------------------
(* Proofs about ProjectStore, for any number of calls, openers and processes. *)
EXTENDS ProjectStore, FiniteSetTheorems, TLAPS

------------------------------------------------------------------------------
(* The invariant: the turn, the lock and the registry. *)

Phase(c) == call[c].phase
Request(c) == call[c].request
Op(c) == Request(c).op
Code(c) == call[c].answer.code
StateOf(c) == opener[OpenerOf[c]].state

\* The phases in which a call has a transaction, and those in which it keeps its turn.
Transacting == {"begun", "decided", "written", "failed"}
Holding == Transacting \union {"committed"}

CallRecords == [phase: Phases, request: Requests \union {Nothing},
                seen: Aggregates, answer: AnswerRecords]
OpenerRecords == [state: {"unopened", "open", "closed", "dead"}, released: BOOLEAN,
                  mutex: Openers \union {None}]
Registrations == [mutex: Openers \union {None}, references: Nat]

TypeInv ==
    /\ db \in Databases /\ working \in Databases
    /\ writer \in Openers \union {None}
    /\ queue \in [Openers -> Seq(Calls)]
    /\ databaseMutexes \in [Processes -> Registrations]
    /\ opener \in [Openers -> OpenerRecords]
    /\ call \in [Calls -> CallRecords]

\* A call with a transaction has the write lock for its opener, and its turn; while
\* it has its turn its opener stays open.
LocksMatch(c) ==
    /\ Phase(c) # "none" => Request(c) \in Requests
    /\ Phase(c) \in Transacting => writer = OpenerOf[c]
    /\ Phase(c) \in Holding => HasTurn(c) /\ StateOf(c) = "open" /\ Op(c) # "close"
    /\ Phase(c) = "closing" => StateOf(c) = "closed"
    /\ Phase(c) = "queued" => StateOf(c) \in {"open", "closed"}

WriterTransacts ==
    writer # None => \E c \in Calls : OpenerOf[c] = writer /\ Phase(c) \in Transacting

\* The mutex of an opener belongs to its process.
OpenerInv(o) ==
    /\ opener[o].state \in {"open", "closed"} => opener[o].mutex \in Of(ProcessOf[o])
    /\ opener[o].state \in {"unopened", "open"} => ~opener[o].released

\* Those that have not given back the mutex of their process; they share it.
Holders(p) == {o \in Of(p) : opener[o].state \in {"open", "closed"} /\ ~opener[o].released}

RegistryInv(p) ==
    /\ IsFiniteSet(Holders(p)) /\ databaseMutexes[p].references = Cardinality(Holders(p))
    /\ \A o \in Holders(p) : opener[o].mutex = databaseMutexes[p].mutex

LockInv ==
    /\ \A c \in Calls : LocksMatch(c)
    /\ WriterTransacts
    /\ \A o \in Openers : OpenerInv(o)
    /\ \A p \in Processes : RegistryInv(p)

------------------------------------------------------------------------------
(* The invariant: the contents. *)

StoredRevisions(d, b) == {row.revision : row \in RevisionsOf(d, b)}

\* A brick that exists has the revisions 1, 2, ..., each once.
Whole(d) ==
    /\ \A b \in Bricks :
         /\ StoredRevisions(d, b) = 1..d.aggregate[b].current_revision
         /\ d.aggregate[b].status = "absent" <=> d.aggregate[b].current_revision = 0
    /\ \A row, other \in d.revisions :
         row.brick = other.brick /\ row.revision = other.revision => row = other

ProjectAdded(project) ==
    /\ working.projects = db.projects \union {project}
    /\ working.aggregate = db.aggregate /\ working.revisions = db.revisions

BrickWritten(b, status, n, rows) ==
    /\ working.projects = db.projects
    /\ working.aggregate[b].status = status /\ working.aggregate[b].current_revision = n
    /\ \A other \in Bricks \ {b} : working.aggregate[other] = db.aggregate[other]
    /\ working.revisions = db.revisions \union rows

\* What the transaction of a call that has written will commit.
Wrote(c) ==
    LET request == Request(c)
        answer == call[c].answer
        b == request.brick
        current == db.aggregate[b]
    IN  /\ answer.code \in Successes
        /\ request.op = "create_project" => ProjectAdded(request.project)
        /\ request.op = "read_project" => working = db /\ request.project \in db.projects
        /\ request.op \in {"read", "history", "exact"} =>
             /\ working = db
             /\ answer.revision = current.current_revision /\ answer.status = current.status
        /\ request.op = "create" =>
             /\ current.status = "absent"
             /\ BrickWritten(b, "active", 1, {Row(b, 1, c)})
        /\ request.op = "revise" =>
             /\ current.status = "active" /\ current.current_revision = request.revision
             /\ BrickWritten(b, "active", request.revision + 1, {Row(b, request.revision + 1, c)})
        /\ request.op = "archive" =>
             /\ current.status # "absent" /\ answer.revision = current.current_revision
             /\ BrickWritten(b, "archived", current.current_revision, {})

WritingOps == {"create_project", "create", "revise", "archive"}

WorkMatches(c) ==
    /\ Phase(c) \in {"begun", "decided"} => working = db
    /\ Phase(c) = "decided" =>
         /\ Op(c) \in WritingOps
         /\ Op(c) # "create_project" => call[c].seen = working.aggregate[Request(c).brick]
    /\ Phase(c) = "written" => Wrote(c)
    /\ Phase(c) = "failed" => Code(c) \notin Successes

\* Rows are left by calls that commit.
RowsMatch(c) ==
    \A row \in db.revisions : row.body = c =>
        \/ Phase(c) \in {"committed", "lost"}
        \/ Phase(c) = "answered" /\ Code(c) \in Successes

\* What a successful answer says of the database.
Confirmed(c) ==
    LET request == Request(c)
        answer == call[c].answer
        now == db.aggregate[request.brick]
    IN  CASE request.op \in {"create_project", "read_project"} -> request.project \in db.projects
          [] request.op = "create" -> Row(request.brick, 1, c) \in db.revisions
          [] request.op = "revise" -> Row(request.brick, request.revision + 1, c) \in db.revisions
          [] request.op = "archive" -> /\ now.status = "archived"
                                       /\ now.current_revision = answer.revision
          [] OTHER -> /\ answer.revision <= now.current_revision
                      /\ answer.status = "archived" => now.status = "archived"

AnswerMatches(c) ==
    /\ Phase(c) = "committed" => Code(c) \in Successes
    /\ Phase(c) \in {"committed", "answered"} /\ Code(c) \in Successes =>
         Confirmed(c) /\ Op(c) # "close"

ContentInv ==
    /\ Whole(db)
    /\ writer = None => working = db
    /\ \A c \in Calls : WorkMatches(c) /\ RowsMatch(c) /\ AnswerMatches(c)

StoreInv == TypeInv /\ LockInv /\ ContentInv

------------------------------------------------------------------------------
(* Requests, and the effect of a step on its call. *)

LEMMA RequestShape ==
    ASSUME NEW request \in Requests
    PROVE  /\ OfProject(request) => request.project \in Projects
           /\ request.op \in {"create", "archive", "read", "history", "revise", "exact"} =>
                request.brick \in Bricks /\ request.kind \in Kinds
           /\ request.op \in {"revise", "exact"} => request.revision \in Nat \ {0}
           /\ request.op \in {"create_project", "read_project", "create", "archive", "read",
                              "history", "revise", "exact", "close"}
BY DEF Requests, OfProject

\* What Becomes does, and what a decision does.
Goes(c, phase, answer) ==
    /\ call' \in [Calls -> CallRecords]
    /\ Phase(c)' = phase /\ call[c].answer' = answer /\ Request(c)' = Request(c)
    /\ \A d \in Calls \ {c} : call'[d] = call[d]

LEMMA Becoming ==
    ASSUME NEW c \in Calls, TypeInv, NEW phase \in Phases, NEW answer \in AnswerRecords,
           Becomes(c, phase, answer)
    PROVE  Goes(c, phase, answer)
<1> DEFINE r == [call[c] EXCEPT !.phase = phase, !.answer = answer, !.seen = Absent]
<1>1. call[c] \in CallRecords
  BY DEF TypeInv
<1>2. Absent \in Aggregates
  BY DEF Absent, Aggregates
<1>3. /\ r \in CallRecords /\ r.phase = phase /\ r.answer = answer
      /\ r.request = call[c].request
  BY <1>1, <1>2 DEF CallRecords
<1>4. call' = [call EXCEPT ![c] = r]
  BY DEF Becomes
<1> QED
  BY <1>3, <1>4 DEF TypeInv, Goes, Phase, Request

\* Errors, and successes, are answers.
LEMMA AnswerShape ==
    ASSUME NEW code \in Successes \union Errors \union {"closed", None}, NEW n \in Nat,
           NEW status \in {None, "absent", "active", "archived"}
    PROVE  /\ Answer(code, n, status) \in AnswerRecords
           /\ Answer(code, n, status).code = code
           /\ Answer(code, n, status).revision = n /\ Answer(code, n, status).status = status
BY DEF Answer, AnswerRecords

LEMMA ErrorShape ==
    ASSUME NEW code \in Errors \union {"closed", None}
    PROVE  Error(code) \in AnswerRecords /\ Error(code).code \notin Successes
<1>1. None \in {None, "absent", "active", "archived"} /\ 0 \in Nat
      /\ code \in Successes \union Errors \union {"closed", None}
  OBVIOUS
<1>2. Error(code) \in AnswerRecords /\ Error(code).code = code
  BY <1>1, AnswerShape DEF Error
<1>3. code \notin Successes
  BY DEF Successes, Errors, None
<1> QED
  BY <1>2, <1>3

------------------------------------------------------------------------------
(* The checks before a write: all hold, or the code of one is the answer. *)

\* The first of at most eight checks that does not hold.
LEMMA FirstExists ==
    ASSUME NEW checks, NEW n \in 0..8, \E i \in 1..n : ~checks[i].holds
    PROVE  \E i \in 1..n : ~checks[i].holds /\ \A j \in 1..(i - 1) : checks[j].holds
<1> DEFINE First(i) == i \in 1..n /\ ~checks[i].holds /\ \A j \in 1..(i - 1) : checks[j].holds
           Before(i) == \A j \in 1..i : j \in 1..n => checks[j].holds
<1> SUFFICES ASSUME \A i \in 1..n : ~First(i) PROVE FALSE
  BY Zenon
<1>1. ASSUME NEW i \in 0..7, Before(i) PROVE Before(i + 1)
  <2>1. ASSUME NEW j \in 1..(i + 1), j \in 1..n PROVE checks[j].holds
    <3>1. CASE j \in 1..i
      BY <1>1, <2>1, <3>1
    <3>2. CASE j = i + 1
      <4>1. \A k \in 1..(j - 1) : checks[k].holds
        BY <1>1, <2>1, <3>2
      <4> QED
        BY <2>1, <4>1
    <3> QED
      BY <3>1, <3>2
  <2> QED
    BY <2>1
<1>2. Before(0)
  OBVIOUS
<1>3. Before(1)
  BY <1>1, <1>2
<1>4. Before(2)
  BY <1>1, <1>3
<1>5. Before(3)
  BY <1>1, <1>4
<1>6. Before(4)
  BY <1>1, <1>5
<1>7. Before(5)
  BY <1>1, <1>6
<1>8. Before(6)
  BY <1>1, <1>7
<1>9. Before(7)
  BY <1>1, <1>8
<1>10. Before(8)
  BY <1>1, <1>9
<1> QED
  BY <1>10

LEMMA Checking ==
    ASSUME NEW checks, NEW n \in 0..8, DOMAIN checks = 1..n,
           \A i \in 1..n : checks[i].code \in Errors
    PROVE  /\ FirstFailed(checks) \in Errors \union {None}
           /\ FirstFailed(checks) = None => \A i \in 1..n : checks[i].holds
<1> DEFINE first == CHOOSE i \in DOMAIN checks : /\ ~checks[i].holds
                                                 /\ \A j \in 1..(i - 1) : checks[j].holds
<1>1. CASE \A i \in 1..n : checks[i].holds
  BY <1>1 DEF FirstFailed
<1>2. CASE \E i \in 1..n : ~checks[i].holds
  <2>1. \E i \in 1..n : ~checks[i].holds /\ \A j \in 1..(i - 1) : checks[j].holds
    BY <1>2, FirstExists
  <2>2. first \in 1..n
    BY <2>1
  <2>3. FirstFailed(checks) = checks[first].code
    BY <1>2 DEF FirstFailed
  <2>4. None \notin Errors
    BY DEF Errors, None
  <2> QED
    BY <2>2, <2>3, <2>4
<1> QED
  BY <1>1, <1>2

LEMMA Refusing ==
    ASSUME NEW request, NEW d
    PROVE  /\ Refusal(request, d) \in Errors \union {None}
           /\ Refusal(request, d) = None /\ OfProject(request) =>
                request.op = "create_project" \/ request.project \in d.projects
           /\ Refusal(request, d) = None /\ ~OfProject(request) =>
                /\ request.op = "create" \/ d.aggregate[request.brick].status # "absent"
                /\ request.op = "revise" =>
                     /\ d.aggregate[request.brick].status # "archived"
                     /\ d.aggregate[request.brick].current_revision = request.revision
<1> DEFINE checks == Checks(request, d)
<1>codes. {"project_not_found", "definition_brick_not_found", "invalid_candidate",
           "definition_brick_archived", "revision_conflict", "revision_not_found",
           "integrity_error"} \subseteq Errors
  BY DEF Errors
<1>1. CASE OfProject(request)
  <2> DEFINE holds == request.op = "create_project" \/ request.project \in d.projects
  <2>0. checks = <<[holds |-> holds, code |-> "project_not_found"]>>
    BY <1>1 DEF Checks
  <2> HIDE DEF checks
  <2>1. /\ DOMAIN checks = 1..1
        /\ checks[1].code = "project_not_found"
        /\ checks[1].holds = holds
    <3> HIDE DEF holds
    <3> QED
      BY <2>0
  <2>2. \A i \in 1..1 : checks[i].code \in Errors
    BY <2>1, <1>codes
  <2> HIDE DEF checks
  <2>3. /\ FirstFailed(checks) \in Errors \union {None}
        /\ FirstFailed(checks) = None => \A i \in 1..1 : checks[i].holds
    BY <2>1, <2>2, Checking
  <2>4. Refusal(request, d) = FirstFailed(checks)
    BY DEF Refusal, checks
  <2>5. FirstFailed(checks) = None => checks[1].holds
    BY <2>3
  <2>6. FirstFailed(checks) = None => holds
    <3> HIDE DEF holds
    <3> QED
      BY <2>1, <2>5
  <2> QED
    BY <1>1, <2>3, <2>4, <2>6
<1>2. CASE ~OfProject(request)
  <2> DEFINE current == d.aggregate[request.brick]
  <2>1. /\ DOMAIN checks = 1..8
        /\ checks[1].code = "project_not_found"
        /\ checks[2].code = "definition_brick_not_found"
        /\ checks[3].code = "invalid_candidate"
        /\ checks[4].code = "definition_brick_archived"
        /\ checks[5].code = "revision_conflict"
        /\ checks[6].code = "revision_not_found"
        /\ checks[7].code = "integrity_error"
        /\ checks[8].code = "integrity_error"
    BY <1>2 DEF Checks
  <2>2. \A i \in 1..8 : checks[i].code \in Errors
    BY <2>1, <1>codes
  <2>3. /\ checks[2].holds <=> request.op = "create" \/ current.status # "absent"
        /\ checks[4].holds <=> (request.op = "revise" => current.status # "archived")
        /\ checks[5].holds <=>
             (request.op = "revise" => current.current_revision = request.revision)
    BY <1>2 DEF Checks
  <2> HIDE DEF checks
  <2>4. /\ FirstFailed(checks) \in Errors \union {None}
        /\ FirstFailed(checks) = None => \A i \in 1..8 : checks[i].holds
    BY <2>1, <2>2, Checking
  <2>5. Refusal(request, d) = FirstFailed(checks)
    BY DEF Refusal, checks
  <2> QED
    BY <1>2, <2>3, <2>4, <2>5
<1> QED
  BY <1>1, <1>2

LEMMA WriteRefusing ==
    ASSUME NEW c
    PROVE  /\ WriteRefusal(c) \in Errors \union {None}
           /\ WriteRefusal(c) = None /\ Op(c) # "create_project" =>
                LET stored == working.aggregate[Request(c).brick] IN
                /\ Op(c) = "create" <=> stored.status = "absent"
                /\ Op(c) = "revise" =>
                     stored.status # "archived" /\ stored.current_revision = Request(c).revision
<1> DEFINE checks == WriteChecks(c)
<1>codes. {"persistence_failure", "definition_brick_already_exists", "definition_brick_not_found",
           "invalid_candidate", "definition_brick_archived", "revision_conflict"} \subseteq Errors
  BY DEF Errors
<1>1. CASE Op(c) = "create_project"
  <2>1. DOMAIN checks = 1..1 /\ checks[1].code = "persistence_failure"
    BY <1>1 DEF WriteChecks, Op, Request
  <2>2. \A i \in 1..1 : checks[i].code \in Errors
    BY <2>1, <1>codes
  <2> HIDE DEF checks
  <2>3. FirstFailed(checks) \in Errors \union {None}
    BY <2>1, <2>2, Checking
  <2>4. WriteRefusal(c) = FirstFailed(checks)
    BY DEF WriteRefusal, checks
  <2> QED
    BY <1>1, <2>3, <2>4
<1>2. CASE Op(c) # "create_project"
  <2>1. /\ DOMAIN checks = 1..5
        /\ checks[1].code = "definition_brick_already_exists"
        /\ checks[2].code = "definition_brick_not_found"
        /\ checks[3].code = "invalid_candidate"
        /\ checks[4].code = "definition_brick_archived"
        /\ checks[5].code = "revision_conflict"
    BY <1>2 DEF WriteChecks, Op, Request
  <2>2. \A i \in 1..5 : checks[i].code \in Errors
    BY <2>1, <1>codes
  <2> DEFINE stored == working.aggregate[Request(c).brick]
  <2>3. /\ checks[1].holds <=> (Op(c) = "create" => stored.status = "absent")
        /\ checks[2].holds <=> Op(c) = "create" \/ stored.status # "absent"
        /\ checks[4].holds <=> (Op(c) = "revise" => stored.status # "archived")
    BY <1>2 DEF WriteChecks, Op, Request
  <2>6. Op(c) = "revise" =>
          (checks[5].holds <=> stored.current_revision = Request(c).revision)
    BY <1>2 DEF WriteChecks, Op, Request
  <2> HIDE DEF checks
  <2>4. /\ FirstFailed(checks) \in Errors \union {None}
        /\ FirstFailed(checks) = None => \A i \in 1..5 : checks[i].holds
    BY <2>1, <2>2, Checking
  <2>5. WriteRefusal(c) = FirstFailed(checks)
    BY DEF WriteRefusal, checks
  <2> QED
    BY <1>2, <2>3, <2>4, <2>5, <2>6
<1> QED
  BY <1>1, <1>2

------------------------------------------------------------------------------
(* What a transaction writes. *)

LEMMA Inserting ==
    ASSUME NEW d \in Databases, NEW row \in Rows, NEW e,
           e = [d EXCEPT !.revisions = @ \union {row}]
    PROVE  /\ e \in Databases /\ e.projects = d.projects /\ e.aggregate = d.aggregate
           /\ e.revisions = d.revisions \union {row}
BY DEF Databases

LEMMA RowShape ==
    ASSUME NEW b \in Bricks, NEW n \in Nat, NEW c \in Calls
    PROVE  Row(b, n, c) \in Rows
BY DEF Row, Rows, Bodies

\* The contents after the statements of a call, when it may write.
LEMMA Writing ==
    ASSUME NEW c \in Calls, TypeInv, LocksMatch(c), WorkMatches(c), Phase(c) = "decided",
           WriteRefusal(c) = None
    PROVE  LET b == Request(c).brick
               last == Statements(c)[Len(Statements(c))]
           IN  /\ Len(Statements(c)) \in {1, 2}
               /\ \A i \in 1..Len(Statements(c)) : Statements(c)[i] \in Databases
               /\ Op(c) = "create_project" =>
                    /\ last.projects = db.projects \union {Request(c).project}
                    /\ last.aggregate = db.aggregate /\ last.revisions = db.revisions
               /\ Op(c) # "create_project" =>
                    /\ last.projects = db.projects
                    /\ \A other \in Bricks \ {b} : last.aggregate[other] = db.aggregate[other]
               /\ Op(c) = "create" =>
                    /\ db.aggregate[b].status = "absent"
                    /\ last.aggregate[b].status = "active"
                    /\ last.aggregate[b].current_revision = 1
                    /\ last.revisions = db.revisions \union {Row(b, 1, c)}
               /\ Op(c) = "revise" =>
                    /\ db.aggregate[b].status = "active"
                    /\ db.aggregate[b].current_revision = Request(c).revision
                    /\ last.aggregate[b].status = "active"
                    /\ last.aggregate[b].current_revision = Request(c).revision + 1
                    /\ last.revisions = db.revisions \union {Row(b, Request(c).revision + 1, c)}
               /\ Op(c) = "archive" =>
                    /\ db.aggregate[b].status # "absent"
                    /\ last.aggregate[b].status = "archived"
                    /\ last.aggregate[b].current_revision = db.aggregate[b].current_revision
                    /\ last.revisions = db.revisions
<1> DEFINE b == Request(c).brick
           stored == db.aggregate[b]
<1>1. Request(c) \in Requests /\ Op(c) \in WritingOps /\ working = db /\ db \in Databases
  BY DEF LocksMatch, WorkMatches, TypeInv
<1>2. Op(c) # "create_project" => b \in Bricks /\ Request(c).kind \in Kinds
  BY <1>1, RequestShape DEF WritingOps, Op
<1>3. Op(c) # "create_project" => stored \in Aggregates
  BY <1>1, <1>2 DEF Databases
<1>4. Op(c) # "create_project" =>
        /\ Op(c) = "create" <=> stored.status = "absent"
        /\ Op(c) = "revise" =>
             stored.status # "archived" /\ stored.current_revision = Request(c).revision
  BY <1>1, WriteRefusing
<1>5. CASE Op(c) = "create_project"
  <2> DEFINE s == [working EXCEPT !.projects = @ \union {Request(c).project}]
  <2>1. Statements(c) = <<s>>
    BY <1>5 DEF Statements, Op, Request
  <2>2. Request(c).project \in Projects
    BY <1>1, <1>5, RequestShape DEF OfProject, Op
  <2>3. /\ s \in Databases /\ s.projects = db.projects \union {Request(c).project}
        /\ s.aggregate = db.aggregate /\ s.revisions = db.revisions
    BY <1>1, <2>2 DEF Databases
  <2> HIDE DEF s
  <2>4. Len(Statements(c)) = 1 /\ Statements(c)[1] = s
    BY <2>1
  <2> QED
    BY <1>5, <2>3, <2>4
<1>6. CASE Op(c) = "create"
  <2> DEFINE fresh == [status |-> "active", kind |-> Request(c).kind, current_revision |-> 1]
             s == [working EXCEPT !.aggregate[b] = fresh]
             row == Row(b, 1, c)
             t == [s EXCEPT !.revisions = @ \union {row}]
  <2>1. Statements(c) = <<s, t>>
    BY <1>6 DEF Statements, Op, Request
  <2>2. fresh \in Aggregates /\ fresh.status = "active" /\ fresh.current_revision = 1
    BY <1>2, <1>6 DEF Aggregates
  <2>3. b \in Bricks /\ row \in Rows
    BY <1>2, <1>6, RowShape
  <2>0. s = [db EXCEPT !.aggregate[b] = fresh]
    BY <1>1
  <2> HIDE DEF fresh, row, s
  <2>4. /\ s \in Databases /\ s.projects = db.projects /\ s.revisions = db.revisions
        /\ s.aggregate[b] = fresh
        /\ \A other \in Bricks \ {b} : s.aggregate[other] = db.aggregate[other]
    BY <1>1, <2>0, <2>2, <2>3 DEF Databases
  <2>5. /\ t \in Databases /\ t.projects = s.projects /\ t.aggregate = s.aggregate
        /\ t.revisions = s.revisions \union {row}
    BY <2>3, <2>4, Inserting
  <2> HIDE DEF t
  <2>6. Len(Statements(c)) = 2 /\ Statements(c)[1] = s /\ Statements(c)[2] = t
    BY <2>1
  <2>7. \A i \in 1..Len(Statements(c)) : Statements(c)[i] \in Databases
    BY <2>4, <2>5, <2>6
  <2> QED
    BY <1>4, <1>6, <2>2, <2>4, <2>5, <2>6, <2>7 DEF row
<1>7. CASE Op(c) = "revise"
  <2> DEFINE next == call[c].seen.current_revision + 1
             advanced == [stored EXCEPT !.current_revision = next]
             s == [working EXCEPT !.aggregate[b].current_revision = next]
             row == Row(b, next, c)
             t == [s EXCEPT !.revisions = @ \union {row}]
  <2>1. Statements(c) = <<s, t>>
    BY <1>7 DEF Statements, Op, Request
  <2>2. call[c].seen = stored /\ stored \in Aggregates /\ b \in Bricks
    BY <1>1, <1>2, <1>3, <1>7 DEF WorkMatches
  <2>3. next = Request(c).revision + 1 /\ next \in Nat /\ stored.status = "active"
    BY <1>4, <1>7, <2>2 DEF Aggregates
  <2>4. /\ advanced \in Aggregates /\ advanced.status = "active"
        /\ advanced.current_revision = next
    BY <2>2, <2>3 DEF Aggregates
  <2>5. s = [db EXCEPT !.aggregate[b] = advanced]
    BY <1>1
  <2>6. row \in Rows
    BY <2>2, <2>3, RowShape
  <2>7. row = Row(b, Request(c).revision + 1, c)
    BY <2>3
  <2> HIDE DEF advanced, row, s, next
  <2>8. /\ s \in Databases /\ s.projects = db.projects /\ s.revisions = db.revisions
        /\ s.aggregate[b] = advanced
        /\ \A other \in Bricks \ {b} : s.aggregate[other] = db.aggregate[other]
    BY <1>1, <2>2, <2>4, <2>5 DEF Databases
  <2>9. /\ t \in Databases /\ t.projects = s.projects /\ t.aggregate = s.aggregate
        /\ t.revisions = s.revisions \union {row}
    BY <2>6, <2>8, Inserting
  <2> HIDE DEF t
  <2>10. Len(Statements(c)) = 2 /\ Statements(c)[1] = s /\ Statements(c)[2] = t
    BY <2>1
  <2>11. \A i \in 1..Len(Statements(c)) : Statements(c)[i] \in Databases
    BY <2>8, <2>9, <2>10
  <2> QED
    BY <1>4, <1>7, <2>3, <2>4, <2>7, <2>8, <2>9, <2>10, <2>11
<1>8. CASE Op(c) = "archive"
  <2> DEFINE ended == [stored EXCEPT !.status = "archived"]
             s == [working EXCEPT !.aggregate[b].status = "archived"]
  <2>1. Statements(c) = <<s>>
    BY <1>8 DEF Statements, Op, Request
  <2>2. b \in Bricks /\ stored \in Aggregates
    BY <1>2, <1>3, <1>8
  <2>3. /\ ended \in Aggregates /\ ended.status = "archived"
        /\ ended.current_revision = stored.current_revision
    BY <2>2 DEF Aggregates
  <2>4. s = [db EXCEPT !.aggregate[b] = ended]
    BY <1>1
  <2> HIDE DEF ended, s
  <2>5. /\ s \in Databases /\ s.projects = db.projects /\ s.revisions = db.revisions
        /\ s.aggregate[b] = ended
        /\ \A other \in Bricks \ {b} : s.aggregate[other] = db.aggregate[other]
    BY <1>1, <2>2, <2>3, <2>4 DEF Databases
  <2>6. Len(Statements(c)) = 1 /\ Statements(c)[1] = s
    BY <2>1
  <2> QED
    BY <1>4, <1>8, <2>3, <2>5, <2>6
<1> QED
  BY <1>1, <1>5, <1>6, <1>7, <1>8 DEF WritingOps

------------------------------------------------------------------------------
(* Every step of a call is one of eight. *)

Kept(c) ==
    /\ call' \in [Calls -> CallRecords] /\ Request(c)' = Request(c)
    /\ \A d \in Calls \ {c} : call'[d] = call[d]

\* A call goes on within its transaction.
Works(c) ==
    /\ Phase(c) \in Transacting /\ Phase(c)' \in Transacting
    /\ Kept(c) /\ WorkMatches(c)'
    /\ working' \in Databases
    /\ UNCHANGED <<db, writer, databaseMutexes, queue, opener>>

Declines(c) ==
    /\ Transacts(c)
    /\ Goes(c, "answered", Error("persistence_failure"))
    /\ queue' = Passed(c)
    /\ UNCHANGED <<db, writer, working, databaseMutexes, opener>>

Begins(c) ==
    /\ Transacts(c) /\ StateOf(c) = "open" /\ writer = None
    /\ writer' = OpenerOf[c] /\ working' = db
    /\ Goes(c, "begun", Unanswered)
    /\ UNCHANGED <<db, databaseMutexes, queue, opener>>

RollsBack(c) ==
    /\ Phase(c) = "failed"
    /\ writer' = None /\ working' = db
    /\ Goes(c, "answered", call[c].answer)
    /\ queue' = Passed(c)
    /\ UNCHANGED <<db, databaseMutexes, opener>>

Commits(c) ==
    /\ Phase(c) = "written"
    /\ writer' = None /\ db' = working
    /\ Goes(c, "committed", call[c].answer)
    /\ UNCHANGED <<working, databaseMutexes, queue, opener>>

Returns(c) ==
    /\ Phase(c) = "committed"
    /\ Goes(c, "answered", call[c].answer)
    /\ queue' = Passed(c)
    /\ UNCHANGED <<db, writer, working, databaseMutexes, opener>>

Closes(c) ==
    /\ Phase(c) = "queued" /\ Op(c) = "close" /\ HasTurn(c)
    /\ opener' = [opener EXCEPT ![OpenerOf[c]] = [@ EXCEPT !.state = "closed"]]
    /\ Goes(c, "closing", Unanswered)
    /\ queue' = Passed(c)
    /\ UNCHANGED <<db, writer, working, databaseMutexes>>

Releases(c) ==
    LET o == OpenerOf[c] IN
    /\ Phase(c) = "closing"
    /\ databaseMutexes' = IF opener[o].released THEN databaseMutexes
                          ELSE [databaseMutexes EXCEPT ![ProcessOf[o]] = Released(@)]
    /\ opener' = [opener EXCEPT ![o] = [@ EXCEPT !.released = TRUE]]
    /\ Goes(c, "answered", Error("closed"))
    /\ UNCHANGED <<db, writer, working, queue>>

Shape(c) ==
    \/ Works(c) \/ Declines(c) \/ Begins(c) \/ RollsBack(c) \/ Commits(c) \/ Returns(c)
    \/ Closes(c) \/ Releases(c)

LEMMA Failing ==
    ASSUME NEW c \in Calls, TypeInv, Phase(c) \in Transacting, NEW code \in Errors,
           Becomes(c, "failed", Error(code)), working' \in Databases,
           UNCHANGED <<db, writer, databaseMutexes, queue, opener>>
    PROVE  Works(c)
<1>1. Error(code) \in AnswerRecords /\ Error(code).code \notin Successes
  BY ErrorShape
<1>2. Goes(c, "failed", Error(code))
  BY <1>1, Becoming DEF Phases
<1>3. Phase(c)' = "failed" /\ Code(c)' \notin Successes
  BY <1>1, <1>2 DEF Goes, Code
<1>4. WorkMatches(c)'
  BY <1>3 DEF WorkMatches
<1> QED
  BY <1>2, <1>3, <1>4 DEF Works, Kept, Goes, Transacting

LEMMA Deciding ==
    ASSUME NEW c \in Calls, TypeInv, LocksMatch(c), WorkMatches(c), Decide(c)
    PROVE  Works(c)
<1> DEFINE request == Request(c)
           b == request.brick
           current == IF OfProject(request) THEN Absent ELSE working.aggregate[b]
<1>1. /\ Phase(c) = "begun" /\ UNCHANGED <<db, writer, working, databaseMutexes, queue, opener>>
      /\ working = db /\ request \in Requests /\ Op(c) # "close"
      /\ Phase(c) \in Transacting
  BY DEF Decide, Phase, LocksMatch, WorkMatches, Transacting, Holding
<1>2. working' \in Databases /\ working \in Databases
  BY <1>1 DEF TypeInv
<1>3. ~OfProject(request) => b \in Bricks
  BY <1>1, RequestShape DEF Op, OfProject
<1>4. /\ current \in Aggregates /\ current.current_revision \in Nat
      /\ current.status \in {"absent", "active", "archived"}
  <2>1. CASE OfProject(request)
    BY <2>1 DEF Absent, Aggregates
  <2>2. CASE ~OfProject(request)
    BY <1>2, <1>3, <2>2 DEF Databases, Aggregates
  <2> QED
    BY <2>1, <2>2
<1>codes. {"read", "archived"} \subseteq Successes
  BY DEF Successes
<1>5. CASE Refusal(request, working) # None /\ Becomes(c, "failed", Error(Refusal(request, working)))
  BY <1>1, <1>2, <1>5, Refusing, Failing
<1>6. CASE /\ Refusal(request, working) = None
           /\ request.op \in {"read_project", "read", "history", "exact"}
           /\ Becomes(c, "written", Answer("read", current.current_revision, current.status))
  <2> DEFINE answer == Answer("read", current.current_revision, current.status)
  <2>1. /\ answer \in AnswerRecords /\ answer.code = "read"
        /\ answer.revision = current.current_revision /\ answer.status = current.status
    BY <1>4, <1>codes, AnswerShape
  <2>2. Goes(c, "written", answer)
    BY <1>6, <2>1, Becoming DEF Phases
  <2> HIDE DEF answer
  <2>3. request.op = "read_project" => request.project \in db.projects
    BY <1>1, <1>6, Refusing DEF OfProject
  <2>4. Request(c)' = request /\ call[c].answer' = answer /\ db' = db /\ working' = db'
    BY <1>1, <2>2 DEF Goes
  <2>5. request.op # "read_project" => current = db.aggregate[b]
    BY <1>1, <1>6 DEF OfProject
  <2> HIDE DEF current
  <2>6. Wrote(c)'
    BY <1>6, <1>codes, <2>1, <2>3, <2>4, <2>5 DEF Wrote
  <2>7. WorkMatches(c)'
    BY <2>2, <2>6 DEF WorkMatches, Goes
  <2> QED
    BY <1>1, <1>2, <2>2, <2>7 DEF Works, Kept, Goes, Transacting
<1>7. CASE /\ Refusal(request, working) = None
           /\ request.op = "archive" /\ current.status = "archived"
           /\ Becomes(c, "written", Answer("archived", current.current_revision, "archived"))
  <2> DEFINE answer == Answer("archived", current.current_revision, "archived")
  <2>1. /\ answer \in AnswerRecords /\ answer.code = "archived"
        /\ answer.revision = current.current_revision
    BY <1>4, <1>codes, AnswerShape
  <2>2. Goes(c, "written", answer)
    BY <1>7, <2>1, Becoming DEF Phases
  <2> HIDE DEF answer
  <2>3. Request(c)' = request /\ call[c].answer' = answer /\ db' = db /\ working' = db'
    BY <1>1, <2>2 DEF Goes
  <2>4. current = db.aggregate[b]
    BY <1>1, <1>7 DEF OfProject
  <2> HIDE DEF current
  <2>5. Wrote(c)'
    BY <1>7, <1>codes, <2>1, <2>3, <2>4 DEF Wrote, BrickWritten
  <2>6. WorkMatches(c)'
    BY <2>2, <2>5 DEF WorkMatches, Goes
  <2> QED
    BY <1>1, <1>2, <2>2, <2>6 DEF Works, Kept, Goes, Transacting
<1>8. CASE /\ \/ request.op \in {"create_project", "create", "revise"}
              \/ request.op = "archive" /\ current.status = "active"
           /\ call' = [call EXCEPT ![c].phase = "decided", ![c].seen = current]
  <2> DEFINE r == [call[c] EXCEPT !.phase = "decided", !.seen = current]
  <2>1. call[c] \in CallRecords
    BY DEF TypeInv
  <2>2. current \in Aggregates
    BY <1>4
  <2>3. /\ r \in CallRecords /\ r.phase = "decided" /\ r.request = request
        /\ r.seen = current
    <3> HIDE DEF current
    <3> QED
      BY <2>1, <2>2 DEF CallRecords, Phases, Request
  <2>4. call' = [call EXCEPT ![c] = r]
    BY <1>8
  <2> HIDE DEF r
  <2>5. Kept(c) /\ call'[c] = r
    BY <2>3, <2>4 DEF Kept, TypeInv, Request
  <2>6. /\ Phase(c)' = "decided" /\ Request(c)' = request /\ call[c].seen' = current
    BY <2>3, <2>5 DEF Phase, Request
  <2>7. request.op # "create_project" => current = working.aggregate[b]
    BY <1>8 DEF OfProject
  <2> HIDE DEF current
  <2>8. Op(c)' \in WritingOps /\ (Op(c)' # "create_project" => call[c].seen' = working.aggregate[b])
    BY <1>8, <2>6, <2>7 DEF Op, WritingOps
  <2>9. WorkMatches(c)'
    BY <1>1, <2>6, <2>8 DEF WorkMatches
  <2> QED
    BY <1>1, <1>2, <2>5, <2>6, <2>9 DEF Works, Transacting
<1> QED
  BY <1>5, <1>6, <1>7, <1>8 DEF Decide, Request

LEMMA WritingShape ==
    ASSUME NEW c \in Calls, TypeInv, LocksMatch(c), WorkMatches(c), Write(c)
    PROVE  Works(c)
<1> DEFINE last == Statements(c)[Len(Statements(c))]
           b == Request(c).brick
<1>1. /\ Phase(c) = "decided" /\ UNCHANGED <<db, writer, databaseMutexes, queue, opener>>
      /\ working \in Databases /\ Phase(c) \in Transacting
      /\ Request(c) \in Requests /\ Op(c) \in WritingOps
      /\ Op(c) # "create_project" => call[c].seen = db.aggregate[b]
  BY DEF Write, Phase, TypeInv, Transacting, LocksMatch, WorkMatches
<1>2. CASE /\ WriteRefusal(c) # None
           /\ Becomes(c, "failed", Error(WriteRefusal(c))) /\ UNCHANGED working
  BY <1>1, <1>2, WriteRefusing, Failing
<1>3. CASE /\ WriteRefusal(c) = None
           /\ working' = Statements(c)[Len(Statements(c))]
           /\ Becomes(c, "written", WrittenAnswer(c))
  <2> DEFINE answer == WrittenAnswer(c)
  <2>0. Op(c) # "create_project" => b \in Bricks
    BY <1>1, RequestShape DEF WritingOps, Op
  <2>1. Op(c) # "create_project" =>
          /\ call[c].seen.current_revision \in Nat
          /\ call[c].seen.status \in {"absent", "active", "archived"}
    BY <1>1, <2>0 DEF TypeInv, Databases, Aggregates
  <2>codes. {"created", "revised", "archived"} \subseteq Successes
    BY DEF Successes
  <2>2. /\ answer \in AnswerRecords /\ answer.code \in Successes
        /\ Op(c) = "archive" => answer.revision = call[c].seen.current_revision
    <3>1. CASE Op(c) = "create_project"
      BY <3>1, <2>codes, AnswerShape DEF WrittenAnswer, Op, Request
    <3>2. CASE Op(c) = "create"
      BY <3>2, <2>codes, AnswerShape DEF WrittenAnswer, Op, Request
    <3>3. CASE Op(c) = "revise"
      <4>1. answer = Answer("revised", call[c].seen.current_revision + 1, call[c].seen.status)
        BY <3>3 DEF WrittenAnswer, Op, Request
      <4>2. call[c].seen.current_revision + 1 \in Nat
        BY <3>3, <2>1
      <4> QED
        BY <3>3, <2>1, <2>codes, <4>1, <4>2, AnswerShape
    <3>4. CASE Op(c) = "archive"
      <4>1. answer = Answer("archived", call[c].seen.current_revision, "archived")
        BY <3>4 DEF WrittenAnswer, Op, Request
      <4> QED
        BY <3>4, <2>1, <2>codes, <4>1, AnswerShape
    <3> QED
      BY <1>1, <3>1, <3>2, <3>3, <3>4 DEF WritingOps
  <2>3. Goes(c, "written", answer)
    BY <1>3, <2>2, Becoming DEF Phases
  <2> HIDE DEF answer
  <2>4. /\ Request(c)' = Request(c) /\ call[c].answer' = answer /\ db' = db /\ Op(c)' = Op(c)
        /\ working' = last
    BY <1>1, <1>3, <2>3 DEF Goes, Op
  <2>5. /\ Len(Statements(c)) \in {1, 2}
        /\ \A i \in 1..Len(Statements(c)) : Statements(c)[i] \in Databases
    BY <1>1, <1>3, Writing
  <2>6. working' \in Databases
    BY <2>4, <2>5
  <2>7. Op(c) = "create_project" => ProjectAdded(Request(c).project)'
    BY <1>1, <1>3, <2>4, Writing DEF ProjectAdded
  <2>8. Op(c) = "create" => db.aggregate[b].status = "absent" /\ BrickWritten(b, "active", 1, {Row(b, 1, c)})'
    BY <1>1, <1>3, <2>4, Writing DEF BrickWritten
  <2>9. Op(c) = "revise" =>
          /\ db.aggregate[b].status = "active" /\ db.aggregate[b].current_revision = Request(c).revision
          /\ BrickWritten(b, "active", Request(c).revision + 1, {Row(b, Request(c).revision + 1, c)})'
    BY <1>1, <1>3, <2>4, Writing DEF BrickWritten
  <2>10. Op(c) = "archive" =>
          /\ db.aggregate[b].status # "absent" /\ answer.revision = db.aggregate[b].current_revision
          /\ BrickWritten(b, "archived", db.aggregate[b].current_revision, {})'
    BY <1>1, <1>3, <2>2, <2>4, Writing DEF BrickWritten
  <2>11. Wrote(c)'
    BY <1>1, <2>2, <2>4, <2>7, <2>8, <2>9, <2>10 DEF Wrote, Op, WritingOps
  <2>12. WorkMatches(c)'
    BY <2>3, <2>11 DEF WorkMatches, Goes
  <2> QED
    BY <1>1, <2>3, <2>6, <2>12 DEF Works, Kept, Goes, Transacting
<1> QED
  BY <1>2, <1>3 DEF Write

LEMMA StepShapes ==
    ASSUME NEW c \in Calls, TypeInv, LocksMatch(c), WorkMatches(c), Step(c)
    PROVE  Shape(c)
<1> USE DEF Phase
<1>typed. /\ working \in Databases /\ call[c].answer \in AnswerRecords
          /\ Unanswered \in AnswerRecords
  BY ErrorShape DEF TypeInv, CallRecords, Unanswered
<1>errors. Error("persistence_failure") \in AnswerRecords /\ Error("closed") \in AnswerRecords
           /\ "persistence_failure" \in Errors
  BY ErrorShape DEF Errors
<1>1. CASE FindsClosed(c)
  BY <1>1, <1>errors, Becoming DEF FindsClosed, Answers, Declines, Shape, Phases
<1>2. CASE BeginTimesOut(c)
  BY <1>2, <1>errors, Becoming DEF BeginTimesOut, Answers, Declines, Shape, Phases
<1>3. CASE Begin(c)
  BY <1>3, <1>typed, Becoming DEF Begin, Begins, StateOf, Shape, Phases
<1>4. CASE Decide(c)
  BY <1>4, Deciding DEF Shape
<1>5. CASE Write(c)
  BY <1>5, WritingShape DEF Shape
<1>6. CASE StatementFails(c)
  <2>1. working' \in Databases
    <3>1. CASE UNCHANGED working
      BY <3>1, <1>typed
    <3>2. CASE /\ Phase(c) = "decided" /\ WriteRefusal(c) = None
               /\ \E i \in 1..(Len(Statements(c)) - 1) : working' = Statements(c)[i]
      <4>1. PICK i \in 1..(Len(Statements(c)) - 1) : working' = Statements(c)[i]
        BY <3>2
      <4>2. /\ Len(Statements(c)) \in {1, 2}
            /\ \A j \in 1..Len(Statements(c)) : Statements(c)[j] \in Databases
        BY <3>2, Writing
      <4> QED
        BY <4>1, <4>2
    <3> QED
      BY <1>6, <3>1, <3>2 DEF StatementFails
  <2>2. Phase(c) \in Transacting /\ Becomes(c, "failed", Error("persistence_failure"))
        /\ UNCHANGED <<db, writer, databaseMutexes, queue, opener>>
    BY <1>6 DEF StatementFails, Transacting
  <2> QED
    BY <2>1, <2>2, <1>errors, Failing DEF Shape
<1>7. CASE Rollback(c)
  BY <1>7, <1>typed, Becoming DEF Rollback, Answers, RollsBack, Shape, Phases
<1>8. CASE Commit(c)
  BY <1>8, <1>typed, Becoming DEF Commit, Commits, Shape, Phases
<1>9. CASE Return(c)
  BY <1>9, <1>typed, Becoming DEF Return, Answers, Returns, Shape, Phases
<1>10. CASE CloseDatabase(c)
  BY <1>10, <1>typed, Becoming DEF CloseDatabase, Closes, Shape, Phases, Op, Request
<1>11. CASE Release(c)
  BY <1>11, <1>errors, Becoming DEF Release, Releases, Shape, Phases
<1> QED
  BY <1>1, <1>2, <1>3, <1>4, <1>5, <1>6, <1>7, <1>8, <1>9, <1>10, <1>11 DEF Step

------------------------------------------------------------------------------
(* The turn and the write lock. *)

\* Two calls never have a transaction at once: the lock is one opener's, and its
\* mutex gives the turn to one call.
LEMMA OneTransaction ==
    ASSUME NEW c \in Calls, NEW d \in Calls, LocksMatch(c), LocksMatch(d),
           Phase(c) \in Transacting, Phase(d) \in Transacting
    PROVE  c = d
<1>1. OpenerOf[c] = OpenerOf[d] /\ HasTurn(c) /\ HasTurn(d)
  BY DEF LocksMatch, Holding
<1> QED
  BY <1>1 DEF HasTurn, MutexOf

LEMMA Passing ==
    ASSUME NEW c \in Calls, TypeInv, HasTurn(c), queue' = Passed(c)
    PROVE  /\ queue' \in [Openers -> Seq(Calls)]
           /\ \A d \in Calls \ {c} : HasTurn(d) => queue'[MutexOf(d)] = queue[MutexOf(d)]
<1> DEFINE m == MutexOf(c)
<1>1. queue \in [Openers -> Seq(Calls)] /\ queue' = [queue EXCEPT ![m] = Tail(@)]
      /\ queue[m] # <<>> /\ Head(queue[m]) = c
  BY DEF TypeInv, Passed, HasTurn
<1> HIDE DEF m
<1>2. queue' \in [Openers -> Seq(Calls)]
  <2>1. CASE m \in Openers
    <3>1. Tail(queue[m]) \in Seq(Calls)
      BY <1>1, <2>1
    <3> QED
      BY <1>1, <3>1
  <2>2. CASE m \notin Openers
    BY <1>1, <2>2
  <2> QED
    BY <2>1, <2>2
<1>3. ASSUME NEW d \in Calls \ {c}, HasTurn(d) PROVE queue'[MutexOf(d)] = queue[MutexOf(d)]
  <2>1. MutexOf(d) # m
    BY <1>1, <1>3 DEF HasTurn
  <2> QED
    BY <1>1, <2>1
<1> QED
  BY <1>2, <1>3

\* What a call that does not move keeps.
LEMMA LocksStay ==
    ASSUME NEW d \in Calls, LocksMatch(d), call'[d] = call[d],
           Phase(d) \in Transacting => writer' = writer,
           MutexOf(d)' = MutexOf(d),
           Phase(d) \in Holding => queue'[MutexOf(d)] = queue[MutexOf(d)],
           \/ StateOf(d)' = StateOf(d)
           \/ StateOf(d)' = "closed" /\ Phase(d) \notin Holding
    PROVE  LocksMatch(d)'
<1>1. Phase(d)' = Phase(d) /\ Request(d)' = Request(d) /\ Op(d)' = Op(d)
  BY DEF Phase, Request, Op
<1>2. HasTurn(d)' <=> queue'[MutexOf(d)] # <<>> /\ Head(queue'[MutexOf(d)]) = d
  BY DEF HasTurn
<1>3. Phase(d) \in Holding => HasTurn(d)'
  BY <1>2 DEF LocksMatch, HasTurn
<1> QED
  BY <1>1, <1>3 DEF LocksMatch

LEMMA LocksStep ==
    ASSUME NEW c \in Calls, TypeInv, \A d \in Calls : LocksMatch(d), WriterTransacts, Shape(c)
    PROVE  (\A d \in Calls : LocksMatch(d)') /\ WriterTransacts'
<1>locks. LocksMatch(c)
  OBVIOUS
<1>type. call \in [Calls -> CallRecords] /\ opener \in [Openers -> OpenerRecords]
         /\ OpenerOf \in [Calls -> Openers] /\ None \notin Openers
  BY ConstantsOK DEF TypeInv
<1>kept. Kept(c) /\ Phase(c) # "none" /\ Request(c) \in Requests
  BY DEF Shape, Works, Declines, Begins, RollsBack, Commits, Returns, Closes, Releases, Kept, Goes,
         Transacts, Phase, LocksMatch, Transacting
<1>1. CASE Works(c)
  <2>1. UNCHANGED <<writer, queue, opener>> /\ Phase(c)' \in Transacting /\ Phase(c) \in Transacting
    BY <1>1 DEF Works
  <2>2. LocksMatch(c)'
    BY <2>1, <1>kept, <1>locks DEF LocksMatch, Kept, HasTurn, MutexOf, StateOf, Op, Transacting, Holding
  <2>3. ASSUME NEW d \in Calls \ {c} PROVE LocksMatch(d)'
    BY <2>1, <1>kept, LocksStay DEF Kept, MutexOf, StateOf
  <2>4. WriterTransacts'
    BY <2>1, <2>2 DEF WriterTransacts, LocksMatch
  <2> QED
    BY <2>2, <2>3, <2>4
<1>2. CASE Declines(c) \/ Returns(c)
  <2>1. /\ UNCHANGED <<writer, opener>> /\ queue' = Passed(c) /\ HasTurn(c)
        /\ Phase(c)' = "answered" /\ Phase(c) \notin Transacting
    BY <1>2, <1>locks DEF Declines, Returns, Goes, Transacts, LocksMatch, Transacting, Holding, Phase
  <2>2. LocksMatch(c)'
    BY <2>1, <1>kept DEF LocksMatch, Kept, Transacting, Holding
  <2>3. ASSUME NEW d \in Calls \ {c} PROVE LocksMatch(d)'
    <3>1. Phase(d) \in Holding => HasTurn(d)
      BY DEF LocksMatch
    <3> QED
      BY <2>1, <3>1, <1>kept, LocksStay, Passing DEF Kept, MutexOf, StateOf
  <2>4. WriterTransacts'
    <3>1. ASSUME writer' # None PROVE \E d \in Calls : OpenerOf[d] = writer' /\ Phase(d)' \in Transacting
      <4>1. PICK d \in Calls : OpenerOf[d] = writer /\ Phase(d) \in Transacting
        BY <2>1, <3>1 DEF WriterTransacts
      <4>2. d # c /\ Phase(d)' = Phase(d)
        BY <2>1, <4>1, <1>kept DEF Kept, Phase
      <4> QED
        BY <2>1, <4>1, <4>2
    <3> QED
      BY <3>1 DEF WriterTransacts
  <2> QED
    BY <2>2, <2>3, <2>4
<1>3. CASE Begins(c)
  <2>1. /\ UNCHANGED <<queue, opener>> /\ HasTurn(c) /\ StateOf(c) = "open" /\ Op(c) # "close"
        /\ Phase(c)' = "begun" /\ writer = None /\ writer' = OpenerOf[c]
    BY <1>3 DEF Begins, Goes, Transacts, Op, Request
  <2>2. LocksMatch(c)'
    BY <2>1, <1>kept DEF LocksMatch, Kept, Transacting, Holding, HasTurn, MutexOf, StateOf, Op
  <2>3. ASSUME NEW d \in Calls \ {c} PROVE LocksMatch(d)'
    <3>1. Phase(d) \notin Transacting
      BY <2>1, <1>type DEF LocksMatch
    <3> QED
      BY <2>1, <3>1, <1>kept, LocksStay DEF Kept, MutexOf, StateOf
  <2>4. WriterTransacts'
    BY <2>1 DEF WriterTransacts, Transacting
  <2> QED
    BY <2>2, <2>3, <2>4
<1>4. CASE RollsBack(c)
  <2>1. /\ UNCHANGED opener /\ queue' = Passed(c) /\ HasTurn(c) /\ writer' = None
        /\ Phase(c)' = "answered" /\ Phase(c) \in Transacting
    BY <1>4, <1>locks DEF RollsBack, Goes, LocksMatch, Transacting, Holding, Phase
  <2>2. LocksMatch(c)'
    BY <2>1, <1>kept DEF LocksMatch, Kept, Transacting, Holding
  <2>3. ASSUME NEW d \in Calls \ {c} PROVE LocksMatch(d)'
    <3>1. Phase(d) \in Holding => HasTurn(d)
      BY DEF LocksMatch
    <3>2. Phase(d) \notin Transacting
      BY <2>1, OneTransaction
    <3> QED
      BY <2>1, <3>1, <3>2, <1>kept, LocksStay, Passing DEF Kept, MutexOf, StateOf
  <2>4. WriterTransacts'
    BY <2>1 DEF WriterTransacts
  <2> QED
    BY <2>2, <2>3, <2>4
<1>5. CASE Commits(c)
  <2>1. /\ UNCHANGED <<queue, opener>> /\ writer' = None
        /\ Phase(c)' = "committed" /\ Phase(c) \in Transacting
    BY <1>5 DEF Commits, Goes, Transacting, Phase
  <2>2. LocksMatch(c)'
    BY <2>1, <1>kept, <1>locks DEF LocksMatch, Kept, Transacting, Holding, HasTurn, MutexOf, StateOf, Op
  <2>3. ASSUME NEW d \in Calls \ {c} PROVE LocksMatch(d)'
    <3>1. Phase(d) \notin Transacting
      BY <2>1, OneTransaction
    <3> QED
      BY <2>1, <3>1, <1>kept, LocksStay DEF Kept, MutexOf, StateOf
  <2>4. WriterTransacts'
    BY <2>1 DEF WriterTransacts
  <2> QED
    BY <2>2, <2>3, <2>4
<1>6. CASE Closes(c)
  <2> DEFINE o == OpenerOf[c]
  <2>1. /\ UNCHANGED writer /\ queue' = Passed(c) /\ HasTurn(c)
        /\ Phase(c)' = "closing" /\ Phase(c) = "queued"
        /\ opener' = [opener EXCEPT ![o] = [@ EXCEPT !.state = "closed"]]
    BY <1>6 DEF Closes, Goes
  <2>2. /\ o \in Openers /\ opener'[o].state = "closed" /\ opener'[o].mutex = opener[o].mutex
        /\ \A other \in Openers \ {o} : opener'[other] = opener[other]
    BY <2>1, <1>type DEF OpenerRecords
  <2>3. LocksMatch(c)'
    BY <2>1, <2>2, <1>kept DEF LocksMatch, Kept, Transacting, Holding, StateOf
  <2>4. ASSUME NEW d \in Calls \ {c} PROVE LocksMatch(d)'
    <3>1. Phase(d) \in Holding => HasTurn(d)
      BY DEF LocksMatch
    <3>2. OpenerOf[d] = o => Phase(d) \notin Holding
      BY <2>1, <3>1 DEF HasTurn, MutexOf
    <3>3. MutexOf(d)' = MutexOf(d)
      BY <2>2, <1>type DEF MutexOf
    <3>4. \/ StateOf(d)' = StateOf(d)
          \/ StateOf(d)' = "closed" /\ Phase(d) \notin Holding
      BY <2>2, <3>2, <1>type DEF StateOf
    <3> QED
      BY <2>1, <3>1, <3>3, <3>4, <1>kept, LocksStay, Passing DEF Kept
  <2>5. WriterTransacts'
    <3>1. ASSUME writer' # None PROVE \E d \in Calls : OpenerOf[d] = writer' /\ Phase(d)' \in Transacting
      <4>1. PICK d \in Calls : OpenerOf[d] = writer /\ Phase(d) \in Transacting
        BY <2>1, <3>1 DEF WriterTransacts
      <4>2. d # c /\ Phase(d)' = Phase(d)
        BY <2>1, <4>1, <1>kept DEF Kept, Phase, Transacting
      <4> QED
        BY <2>1, <4>1, <4>2
    <3> QED
      BY <3>1 DEF WriterTransacts
  <2> QED
    BY <2>3, <2>4, <2>5
<1>7. CASE Releases(c)
  <2> DEFINE o == OpenerOf[c]
  <2>1. /\ UNCHANGED <<writer, queue>> /\ Phase(c)' = "answered" /\ Phase(c) = "closing"
        /\ opener' = [opener EXCEPT ![o] = [@ EXCEPT !.released = TRUE]]
    BY <1>7 DEF Releases, Goes
  <2>2. /\ o \in Openers
        /\ \A other \in Openers : opener'[other].mutex = opener[other].mutex
                                 /\ opener'[other].state = opener[other].state
    BY <2>1, <1>type DEF OpenerRecords
  <2>3. LocksMatch(c)'
    BY <2>1, <1>kept DEF LocksMatch, Kept, Transacting, Holding
  <2>4. ASSUME NEW d \in Calls \ {c} PROVE LocksMatch(d)'
    <3>1. MutexOf(d)' = MutexOf(d) /\ StateOf(d)' = StateOf(d)
      BY <2>2, <1>type DEF MutexOf, StateOf
    <3> QED
      BY <2>1, <3>1, <1>kept, LocksStay DEF Kept
  <2>5. WriterTransacts'
    <3>1. ASSUME writer' # None PROVE \E d \in Calls : OpenerOf[d] = writer' /\ Phase(d)' \in Transacting
      <4>1. PICK d \in Calls : OpenerOf[d] = writer /\ Phase(d) \in Transacting
        BY <2>1, <3>1 DEF WriterTransacts
      <4>2. d # c /\ Phase(d)' = Phase(d)
        BY <2>1, <4>1, <1>kept DEF Kept, Phase, Transacting
      <4> QED
        BY <2>1, <4>1, <4>2
    <3> QED
      BY <3>1 DEF WriterTransacts
  <2> QED
    BY <2>3, <2>4, <2>5
<1> QED
  BY <1>1, <1>2, <1>3, <1>4, <1>5, <1>6, <1>7 DEF Shape

------------------------------------------------------------------------------
(* The registry of mutexes. *)

OpenersMatch ==
    /\ opener \in [Openers -> OpenerRecords]
    /\ databaseMutexes \in [Processes -> Registrations]
    /\ \A o \in Openers : OpenerInv(o)
    /\ \A p \in Processes : RegistryInv(p)

LEMMA HoldersStay ==
    ASSUME NEW p \in Processes, RegistryInv(p), Holders(p)' = Holders(p),
           databaseMutexes'[p] = databaseMutexes[p],
           \A o \in Holders(p) : opener'[o].mutex = opener[o].mutex
    PROVE  RegistryInv(p)'
BY DEF RegistryInv

LEMMA ReleaseRegistry ==
    ASSUME NEW c \in Calls, OpenersMatch, LocksMatch(c), Releases(c)
    PROVE  OpenersMatch'
<1> DEFINE o == OpenerOf[c]
           p == ProcessOf[o]
           r == [opener[o] EXCEPT !.released = TRUE]
<1>1. /\ opener \in [Openers -> OpenerRecords] /\ o \in Openers /\ p \in Processes
      /\ OpenerOf \in [Calls -> Openers] /\ ProcessOf \in [Openers -> Processes]
      /\ databaseMutexes \in [Processes -> Registrations]
  BY ConstantsOK DEF OpenersMatch
<1>2. opener[o].state = "closed" /\ opener' = [opener EXCEPT ![o] = r]
  BY DEF Releases, LocksMatch, StateOf
<1>3. /\ r \in OpenerRecords /\ r.state = "closed" /\ r.mutex = opener[o].mutex /\ r.released
  BY <1>1, <1>2 DEF OpenerRecords
<1> HIDE DEF r
<1>4. /\ opener' \in [Openers -> OpenerRecords] /\ opener'[o] = r
      /\ \A other \in Openers \ {o} : opener'[other] = opener[other]
  BY <1>1, <1>2, <1>3
<1>5. ASSUME NEW other \in Openers PROVE OpenerInv(other)'
  <2>1. CASE other = o
    <3>1. OpenerInv(o) /\ opener'[o] = r
      BY <1>1, <1>4 DEF OpenersMatch
    <3> QED
      BY <2>1, <3>1, <1>2, <1>3 DEF OpenerInv
  <2>2. CASE other # o
    <3>1. OpenerInv(other) /\ opener'[other] = opener[other]
      BY <1>4, <2>2 DEF OpenersMatch
    <3> QED
      BY <3>1 DEF OpenerInv
  <2> QED
    BY <2>1, <2>2
<1>6. ASSUME NEW q \in Processes PROVE Holders(q)' = Holders(q) \ {o}
  BY <1>1, <1>3, <1>4 DEF Holders, Of
<1>7. ASSUME NEW q \in Processes \ {p} PROVE RegistryInv(q)'
  <2>1. o \notin Holders(q)
    BY <1>7 DEF Holders, Of
  <2>2. databaseMutexes'[q] = databaseMutexes[q]
    BY <1>1, <1>7 DEF Releases
  <2>3. \A other \in Holders(q) : opener'[other].mutex = opener[other].mutex
    BY <1>4, <2>1 DEF Holders, Of
  <2> QED
    BY <1>6, <2>1, <2>2, <2>3, HoldersStay DEF OpenersMatch
<1>8. RegistryInv(p)' /\ databaseMutexes' \in [Processes -> Registrations]
  <2>1. RegistryInv(p)
    BY <1>1 DEF OpenersMatch
  <2>2. CASE opener[o].released
    <3>1. databaseMutexes' = databaseMutexes /\ o \notin Holders(p)
      BY <2>2 DEF Releases, Holders
    <3>2. \A other \in Holders(p) : opener'[other].mutex = opener[other].mutex
      BY <1>4, <3>1 DEF Holders, Of
    <3> QED
      BY <1>1, <1>6, <2>1, <3>1, <3>2, HoldersStay
  <2>3. CASE ~opener[o].released
    <3> DEFINE registration == databaseMutexes[p]
    <3>1. o \in Holders(p)
      BY <1>1, <1>2, <2>3 DEF Holders, Of
    <3>2. /\ IsFiniteSet(Holders(p)) /\ registration.references = Cardinality(Holders(p))
          /\ \A other \in Holders(p) : opener[other].mutex = registration.mutex
          /\ registration \in Registrations
      BY <1>1, <2>1 DEF RegistryInv
    <3>3. /\ IsFiniteSet(Holders(p)') /\ Cardinality(Holders(p)') = registration.references - 1
      BY <1>1, <1>6, <3>1, <3>2, FS_RemoveElement
    <3>4. registration.references # 0
      BY <3>1, <3>2, FS_EmptySet
    <3>5. /\ Released(registration) \in Registrations
          /\ Released(registration).references = registration.references - 1
          /\ registration.references # 1 => Released(registration).mutex = registration.mutex
      <4>1. CASE registration.references = 1
        BY <4>1 DEF Released, Registrations
      <4>2. CASE registration.references # 1
        <5>1. registration.references - 1 \in Nat /\ registration \in Registrations
          BY <3>2, <3>4 DEF Registrations
        <5> HIDE DEF registration
        <5> QED
          BY <4>2, <5>1 DEF Released, Registrations
      <4> QED
        BY <4>1, <4>2
    <3>6. databaseMutexes' = [databaseMutexes EXCEPT ![p] = Released(registration)]
      BY <2>3 DEF Releases
    <3> HIDE DEF registration
    <3>7. databaseMutexes'[p] = Released(registration)
          /\ databaseMutexes' \in [Processes -> Registrations]
      BY <1>1, <3>5, <3>6
    <3>8. registration.references = 1 => Holders(p)' = {}
      BY <3>3, FS_EmptySet
    <3>9. ASSUME NEW other \in Holders(p)' PROVE opener'[other].mutex = databaseMutexes'[p].mutex
      <4>1. other \in Holders(p) \ {o} /\ other \in Openers
        BY <1>1, <1>6, <3>9 DEF Holders, Of
      <4>2. opener'[other] = opener[other] /\ registration.references # 1
        BY <1>4, <3>8, <3>9, <4>1
      <4> QED
        BY <3>2, <3>5, <3>7, <4>1, <4>2
    <3> QED
      BY <3>3, <3>5, <3>7, <3>9 DEF RegistryInv
  <2> QED
    BY <2>2, <2>3
<1> QED
  BY <1>4, <1>5, <1>7, <1>8 DEF OpenersMatch

LEMMA CloseRegistry ==
    ASSUME NEW c \in Calls, OpenersMatch, LocksMatch(c), Closes(c)
    PROVE  OpenersMatch'
<1> DEFINE o == OpenerOf[c]
           r == [opener[o] EXCEPT !.state = "closed"]
<1>1. /\ opener \in [Openers -> OpenerRecords] /\ o \in Openers /\ databaseMutexes' = databaseMutexes
      /\ opener[o].state \in {"open", "closed"} /\ opener' = [opener EXCEPT ![o] = r]
  BY ConstantsOK DEF OpenersMatch, Closes, LocksMatch, StateOf
<1>2. /\ r \in OpenerRecords /\ r.state = "closed" /\ r.mutex = opener[o].mutex
      /\ r.released = opener[o].released
  BY <1>1 DEF OpenerRecords
<1> HIDE DEF r
<1>3. /\ opener' \in [Openers -> OpenerRecords] /\ opener'[o] = r
      /\ \A other \in Openers \ {o} : opener'[other] = opener[other]
  BY <1>1, <1>2
<1>4. ASSUME NEW other \in Openers PROVE OpenerInv(other)'
  <2>1. OpenerInv(other)
    BY DEF OpenersMatch
  <2>2. CASE other = o
    BY <2>1, <2>2, <1>1, <1>2, <1>3 DEF OpenerInv
  <2>3. CASE other # o
    BY <2>1, <2>3, <1>3 DEF OpenerInv
  <2> QED
    BY <2>2, <2>3
<1>5. ASSUME NEW p \in Processes PROVE RegistryInv(p)'
  <2>1. ASSUME NEW other \in Openers
        PROVE  /\ opener'[other].mutex = opener[other].mutex
               /\ opener'[other].released = opener[other].released
               /\ opener'[other].state \in {"open", "closed"} <=>
                     opener[other].state \in {"open", "closed"}
    BY <1>1, <1>2, <1>3
  <2>2. Holders(p)' = Holders(p)
    BY <2>1 DEF Holders, Of
  <2> QED
    BY <1>1, <2>1, <2>2, HoldersStay DEF OpenersMatch, Holders, Of
<1> QED
  BY <1>1, <1>3, <1>4, <1>5 DEF OpenersMatch

LEMMA RegistryStep ==
    ASSUME NEW c \in Calls, OpenersMatch, LocksMatch(c), Shape(c)
    PROVE  OpenersMatch'
<1>1. CASE UNCHANGED <<opener, databaseMutexes>>
  <2>1. \A o \in Openers : OpenerInv(o)'
    BY <1>1 DEF OpenersMatch, OpenerInv
  <2>2. \A p \in Processes : RegistryInv(p)'
    BY <1>1 DEF OpenersMatch, RegistryInv, Holders
  <2> QED
    BY <1>1, <2>1, <2>2 DEF OpenersMatch
<1>2. CASE Closes(c) \/ Releases(c)
  BY <1>2, CloseRegistry, ReleaseRegistry
<1> QED
  BY <1>1, <1>2 DEF Shape, Works, Declines, Begins, RollsBack, Commits, Returns

------------------------------------------------------------------------------
(* The contents only grow, a whole revision at a time. *)

Grows(d, e) ==
    /\ d.projects \subseteq e.projects /\ d.revisions \subseteq e.revisions
    /\ \A b \in Bricks :
         /\ d.aggregate[b].current_revision <= e.aggregate[b].current_revision
         /\ d.aggregate[b].status = "archived" =>
              /\ e.aggregate[b].status = "archived"
              /\ e.aggregate[b].current_revision = d.aggregate[b].current_revision

LEMMA AggregateShape ==
    ASSUME NEW d \in Databases, NEW b \in Bricks
    PROVE  /\ d.aggregate[b] \in Aggregates
           /\ d.aggregate[b].current_revision \in Nat
           /\ d.aggregate[b].status \in {"absent", "active", "archived"}
BY DEF Databases, Aggregates

LEMMA SameRevisions ==
    ASSUME NEW d \in Databases, NEW e \in Databases, Whole(d), e.revisions = d.revisions,
           \A b \in Bricks :
             /\ e.aggregate[b].current_revision = d.aggregate[b].current_revision
             /\ e.aggregate[b].status = "absent" <=> d.aggregate[b].status = "absent"
    PROVE  Whole(e)
<1>1. \A b \in Bricks : StoredRevisions(e, b) = StoredRevisions(d, b)
  BY DEF StoredRevisions, RevisionsOf
<1> QED
  BY <1>1 DEF Whole

LEMMA OneRevisionMore ==
    ASSUME NEW d \in Databases, NEW e \in Databases, Whole(d), NEW b \in Bricks, NEW c \in Calls,
           NEW n \in Nat, d.aggregate[b].current_revision = n,
           e.aggregate[b].current_revision = n + 1, e.aggregate[b].status # "absent",
           \A other \in Bricks \ {b} : e.aggregate[other] = d.aggregate[other],
           e.revisions = d.revisions \union {Row(b, n + 1, c)}
    PROVE  Whole(e)
<1> DEFINE row == Row(b, n + 1, c)
<1>1. row.brick = b /\ row.revision = n + 1
  BY DEF Row
<1> HIDE DEF row
<1>2. e.revisions = d.revisions \union {row}
  BY DEF row
<1>3. ASSUME NEW other \in Bricks \ {b}
      PROVE  StoredRevisions(e, other) = StoredRevisions(d, other)
  BY <1>1, <1>2 DEF StoredRevisions, RevisionsOf
<1>4. StoredRevisions(e, b) = StoredRevisions(d, b) \union {n + 1}
  BY <1>1, <1>2 DEF StoredRevisions, RevisionsOf
<1>5. StoredRevisions(d, b) = 1..n
  BY DEF Whole
<1>6. StoredRevisions(e, b) = 1..(n + 1)
  BY <1>4, <1>5
<1>7. \A r \in d.revisions : r.brick = b => r.revision # n + 1
  <2>1. \A r \in d.revisions : r.brick = b => r.revision \in StoredRevisions(d, b)
    BY DEF StoredRevisions, RevisionsOf
  <2> QED
    BY <1>5, <2>1
<1>8. \A r, s \in e.revisions : r.brick = s.brick /\ r.revision = s.revision => r = s
  BY <1>1, <1>2, <1>7 DEF Whole
<1>9. ASSUME NEW other \in Bricks
      PROVE  /\ StoredRevisions(e, other) = 1..e.aggregate[other].current_revision
             /\ e.aggregate[other].status = "absent" <=> e.aggregate[other].current_revision = 0
  <2>1. CASE other = b
    BY <1>6, <2>1
  <2>2. CASE other # b
    BY <1>3, <2>2 DEF Whole
  <2> QED
    BY <2>1, <2>2
<1> QED
  BY <1>8, <1>9 DEF Whole

LEMMA WroteWhole ==
    ASSUME NEW c \in Calls, db \in Databases, working \in Databases, Whole(db), Wrote(c),
           Request(c) \in Requests, Op(c) # "close"
    PROVE  /\ Whole(working) /\ Grows(db, working)
           /\ \A row \in working.revisions : row \in db.revisions \/ row.body = c
<1> DEFINE b == Request(c).brick
<1>1. Op(c) \in {"create_project", "read_project", "create", "archive", "read", "history",
                 "revise", "exact"}
  BY RequestShape DEF Op
<1>nat. \A other \in Bricks : db.aggregate[other].current_revision \in Nat
  BY AggregateShape
<1>2. CASE Op(c) \in {"read_project", "read", "history", "exact"}
  <2>1. working = db
    BY <1>2 DEF Wrote, Op
  <2> QED
    BY <2>1, <1>nat DEF Grows
<1>3. CASE Op(c) = "create_project"
  <2>1. /\ working.projects = db.projects \union {Request(c).project}
        /\ working.aggregate = db.aggregate /\ working.revisions = db.revisions
    BY <1>3 DEF Wrote, Op, ProjectAdded
  <2>2. Whole(working)
    BY <2>1, SameRevisions
  <2> QED
    BY <2>1, <2>2, <1>nat DEF Grows
<1>4. CASE Op(c) \in {"create", "revise"}
  <2> DEFINE n == db.aggregate[b].current_revision
             row == Row(b, n + 1, c)
  <2>1. b \in Bricks /\ n \in Nat
    BY <1>4, <1>nat, RequestShape DEF Op
  <2>2. /\ db.aggregate[b].status \in {"absent", "active"} /\ working.projects = db.projects
        /\ working.aggregate[b].status = "active"
        /\ working.aggregate[b].current_revision = n + 1
        /\ \A other \in Bricks \ {b} : working.aggregate[other] = db.aggregate[other]
        /\ working.revisions = db.revisions \union {row}
    <3>1. CASE Op(c) = "create"
      <4>1. n = 0 /\ n + 1 = 1
        BY <2>1, <3>1 DEF Wrote, Op, Whole
      <4> HIDE DEF n
      <4> QED
        BY <3>1, <4>1 DEF Wrote, Op, BrickWritten
    <3>2. CASE Op(c) = "revise"
      <4>1. n = Request(c).revision
        BY <3>2 DEF Wrote, Op
      <4> HIDE DEF n
      <4> QED
        BY <3>2, <4>1 DEF Wrote, Op, BrickWritten
    <3> QED
      BY <1>4, <3>1, <3>2
  <2>3. row.body = c
    BY DEF Row
  <2>4. Whole(working)
    <3>1. PICK m \in Nat : m = n
      BY <2>1
    <3> QED
      BY <2>1, <2>2, <3>1, OneRevisionMore
  <2>5. Grows(db, working)
    <3>1. ASSUME NEW other \in Bricks
          PROVE  /\ db.aggregate[other].current_revision <= working.aggregate[other].current_revision
                 /\ db.aggregate[other].status = "archived" =>
                      /\ working.aggregate[other].status = "archived"
                      /\ working.aggregate[other].current_revision = db.aggregate[other].current_revision
      <4>1. CASE other = b
        BY <2>1, <2>2, <4>1
      <4>2. CASE other # b
        BY <2>2, <4>2, <1>nat
      <4> QED
        BY <4>1, <4>2
    <3> QED
      BY <2>2, <3>1 DEF Grows
  <2> QED
    BY <2>2, <2>3, <2>4, <2>5
<1>5. CASE Op(c) = "archive"
  <2>1. b \in Bricks
    BY <1>5, RequestShape DEF Op
  <2>2. /\ db.aggregate[b].status # "absent" /\ working.projects = db.projects
        /\ working.aggregate[b].status = "archived"
        /\ working.aggregate[b].current_revision = db.aggregate[b].current_revision
        /\ \A other \in Bricks \ {b} : working.aggregate[other] = db.aggregate[other]
        /\ working.revisions = db.revisions
    BY <1>5 DEF Wrote, Op, BrickWritten
  <2>3. Whole(working)
    BY <2>2, SameRevisions
  <2>4. Grows(db, working)
    BY <2>2, <1>nat DEF Grows
  <2> QED
    BY <2>2, <2>3, <2>4
<1> QED
  BY <1>1, <1>2, <1>3, <1>4, <1>5

LEMMA ConfirmedStays ==
    ASSUME NEW c \in Calls, db \in Databases, db' \in Databases, Grows(db, db'),
           Request(c) \in Requests, Op(c) # "close", call[c].answer \in AnswerRecords,
           Confirmed(c), Request(c)' = Request(c), call[c].answer' = call[c].answer
    PROVE  Confirmed(c)'
<1> DEFINE b == Request(c).brick
           now == db.aggregate[b]
           later == db'.aggregate[b]
<1>1. Op(c) \in {"create_project", "read_project", "create", "archive", "read", "history",
                 "revise", "exact"}
  BY RequestShape DEF Op
<1>2. CASE Op(c) \in {"create_project", "read_project"}
  BY <1>2 DEF Confirmed, Op, Grows
<1>3. CASE Op(c) \in {"create", "revise"}
  BY <1>3 DEF Confirmed, Op, Grows
<1>4. CASE Op(c) = "archive"
  <2>1. b \in Bricks
    BY <1>4, RequestShape DEF Op
  <2>2. now.status = "archived" /\ now.current_revision = call[c].answer.revision
    BY <1>4 DEF Confirmed, Op
  <2>3. later.status = "archived" /\ later.current_revision = call[c].answer.revision
    BY <2>1, <2>2 DEF Grows
  <2> QED
    BY <1>4, <2>3 DEF Confirmed, Op
<1>5. CASE Op(c) \in {"read", "history", "exact"}
  <2>1. b \in Bricks
    BY <1>5, RequestShape DEF Op
  <2>2. /\ call[c].answer.revision <= now.current_revision
        /\ call[c].answer.status = "archived" => now.status = "archived"
    BY <1>5 DEF Confirmed, Op
  <2>3. /\ now.current_revision <= later.current_revision
        /\ now.status = "archived" => later.status = "archived"
    BY <2>1 DEF Grows
  <2>4. /\ now.current_revision \in Nat /\ later.current_revision \in Nat
        /\ call[c].answer.revision \in Nat
    BY <2>1, AggregateShape DEF AnswerRecords
  <2>5. /\ call[c].answer.revision <= later.current_revision
        /\ call[c].answer.status = "archived" => later.status = "archived"
    BY <2>2, <2>3, <2>4
  <2> QED
    BY <1>5, <2>5 DEF Confirmed, Op
<1> QED
  BY <1>1, <1>2, <1>3, <1>4, <1>5

LEMMA ConfirmedNow ==
    ASSUME NEW c \in Calls, db \in Databases, Wrote(c), Request(c) \in Requests, Op(c) # "close",
           db' = working, Request(c)' = Request(c), call[c].answer' = call[c].answer
    PROVE  Confirmed(c)'
<1>1. Op(c) \in {"create_project", "read_project", "create", "archive", "read", "history",
                 "revise", "exact"}
  BY RequestShape DEF Op
<1>2. CASE Op(c) \in {"create_project", "read_project"}
  BY <1>2 DEF Confirmed, Wrote, Op, ProjectAdded
<1>3. CASE Op(c) \in {"create", "revise"}
  BY <1>3 DEF Confirmed, Wrote, Op, BrickWritten
<1>4. CASE Op(c) = "archive"
  BY <1>4 DEF Confirmed, Wrote, Op, BrickWritten
<1>5. CASE Op(c) \in {"read", "history", "exact"}
  <2>1. Request(c).brick \in Bricks
    BY <1>5, RequestShape DEF Op
  <2>2. db.aggregate[Request(c).brick].current_revision \in Nat
    BY <2>1, AggregateShape
  <2> QED
    BY <1>5, <2>2 DEF Confirmed, Wrote, Op
<1> QED
  BY <1>1, <1>2, <1>3, <1>4, <1>5

------------------------------------------------------------------------------
(* A step of a call keeps the types and the contents. *)

LEMMA TypeStep ==
    ASSUME NEW c \in Calls, TypeInv, LocksMatch(c), OpenersMatch', Shape(c)
    PROVE  TypeInv'
<1>1. call' \in [Calls -> CallRecords]
  BY DEF Shape, Works, Declines, Begins, RollsBack, Commits, Returns, Closes, Releases, Kept, Goes
<1>2. db' \in Databases /\ working' \in Databases
  BY DEF TypeInv, Shape, Works, Declines, Begins, RollsBack, Commits, Returns, Closes, Releases
<1>3. writer' \in Openers \union {None}
  BY ConstantsOK DEF TypeInv, Shape, Works, Declines, Begins, RollsBack, Commits, Returns, Closes,
                     Releases
<1>4. queue' \in [Openers -> Seq(Calls)]
  <2>1. CASE UNCHANGED queue
    BY <2>1 DEF TypeInv
  <2>2. CASE HasTurn(c) /\ queue' = Passed(c)
    BY <2>2, Passing
  <2>3. \/ UNCHANGED queue
        \/ HasTurn(c) /\ queue' = Passed(c)
    BY DEF Shape, Works, Declines, Begins, RollsBack, Commits, Returns, Closes, Releases,
           LocksMatch, Transacting, Holding, Transacts
  <2> QED
    BY <2>1, <2>2, <2>3
<1> QED
  BY <1>1, <1>2, <1>3, <1>4 DEF TypeInv, OpenersMatch

LEMMA WorkStays ==
    ASSUME NEW d \in Calls, WorkMatches(d), call'[d] = call[d],
           Phase(d) \in Transacting => UNCHANGED <<db, working>>
    PROVE  WorkMatches(d)'
<1>1. /\ Phase(d)' = Phase(d) /\ Request(d)' = Request(d) /\ Op(d)' = Op(d) /\ Code(d)' = Code(d)
      /\ call[d].seen' = call[d].seen /\ call[d].answer' = call[d].answer
  BY DEF Phase, Request, Op, Code
<1>2. Phase(d) = "written" => Wrote(d)'
  BY <1>1 DEF WorkMatches, Wrote, ProjectAdded, BrickWritten, Transacting
<1> QED
  BY <1>1, <1>2 DEF WorkMatches, Transacting

LEMMA ContentStep ==
    ASSUME NEW c \in Calls, TypeInv, TypeInv', \A d \in Calls : LocksMatch(d), ContentInv, Shape(c)
    PROVE  ContentInv'
<1>locks. LocksMatch(c) /\ WorkMatches(c) /\ RowsMatch(c) /\ AnswerMatches(c)
  BY DEF ContentInv
<1>db. db \in Databases /\ working \in Databases /\ db' \in Databases
  BY DEF TypeInv
<1>kept. Kept(c) /\ Phase(c) # "none" /\ Request(c) \in Requests
  BY <1>locks
     DEF Shape, Works, Declines, Begins, RollsBack, Commits, Returns, Closes, Releases, Kept, Goes,
         Transacts, Phase, LocksMatch, Transacting
<1>1. CASE Commits(c)
  <2>1. /\ Phase(c) = "written" /\ Phase(c)' = "committed" /\ db' = working /\ UNCHANGED working
        /\ call[c].answer' = call[c].answer /\ Request(c)' = Request(c) /\ Op(c)' = Op(c)
        /\ Phase(c) \in Transacting /\ Op(c) # "close"
    BY <1>1, <1>locks DEF Commits, Goes, Transacting, LocksMatch, Holding, Op
  <2>2. Wrote(c)
    BY <2>1, <1>locks DEF WorkMatches
  <2>3. /\ Whole(db') /\ Grows(db, db')
        /\ \A row \in db'.revisions : row \in db.revisions \/ row.body = c
    BY <2>1, <2>2, <1>db, <1>kept, WroteWhole DEF ContentInv
  <2>4. Code(c)' \in Successes /\ Confirmed(c)'
    BY <2>1, <2>2, <1>db, <1>kept, ConfirmedNow DEF Wrote, Code
  <2>5. WorkMatches(c)' /\ RowsMatch(c)' /\ AnswerMatches(c)'
    BY <2>1, <2>4 DEF WorkMatches, RowsMatch, AnswerMatches
  <2>6. ASSUME NEW d \in Calls \ {c} PROVE WorkMatches(d)' /\ RowsMatch(d)' /\ AnswerMatches(d)'
    <3>1. WorkMatches(d) /\ RowsMatch(d) /\ AnswerMatches(d) /\ LocksMatch(d)
      BY DEF ContentInv
    <3>2. /\ call'[d] = call[d] /\ Phase(d)' = Phase(d) /\ Code(d)' = Code(d) /\ Op(d)' = Op(d)
          /\ Request(d)' = Request(d) /\ call[d].answer' = call[d].answer
      BY <1>kept DEF Kept, Phase, Code, Op, Request
    <3>3. WorkMatches(d)'
      BY <2>1, <3>1, <3>2, OneTransaction, WorkStays
    <3>4. RowsMatch(d)'
      BY <2>3, <3>1, <3>2 DEF RowsMatch
    <3>5. AnswerMatches(d)'
      <4>1. CASE Phase(d) \in {"committed", "answered"} /\ Code(d) \in Successes
        <5>1. Confirmed(d) /\ Op(d) # "close" /\ Request(d) \in Requests
              /\ call[d].answer \in AnswerRecords
          BY <3>1, <4>1 DEF AnswerMatches, LocksMatch, TypeInv, CallRecords
        <5>2. Confirmed(d)'
          BY <5>1, <2>3, <3>2, <1>db, ConfirmedStays
        <5> QED
          BY <3>1, <3>2, <5>1, <5>2 DEF AnswerMatches
      <4>2. CASE ~(Phase(d) \in {"committed", "answered"} /\ Code(d) \in Successes)
        BY <3>1, <3>2, <4>2 DEF AnswerMatches
      <4> QED
        BY <4>1, <4>2
    <3> QED
      BY <3>3, <3>4, <3>5
  <2>7. writer' = None => working' = db'
    BY <2>1
  <2> QED
    BY <2>3, <2>5, <2>6, <2>7 DEF ContentInv
<1>2. CASE ~Commits(c)
  <2>1. db' = db
    BY <1>2 DEF Shape, Works, Declines, Begins, RollsBack, Returns, Closes, Releases
  <2>2. Whole(db')
    BY <2>1 DEF ContentInv
  <2>3. writer' = None => working' = db'
    <3>1. CASE Works(c)
      <4>1. writer' = OpenerOf[c] /\ OpenerOf[c] # None
        BY <3>1, <1>locks, ConstantsOK DEF Works, LocksMatch
      <4> QED
        BY <4>1
    <3>2. CASE ~Works(c)
      BY <1>2, <2>1, <3>2 DEF ContentInv, Shape, Declines, Begins, RollsBack, Returns, Closes, Releases
    <3> QED
      BY <3>1, <3>2
  <2>4. ASSUME NEW d \in Calls \ {c} PROVE WorkMatches(d)' /\ RowsMatch(d)' /\ AnswerMatches(d)'
    <3>1. WorkMatches(d) /\ RowsMatch(d) /\ AnswerMatches(d) /\ LocksMatch(d)
      BY DEF ContentInv
    <3>2. /\ call'[d] = call[d] /\ Phase(d)' = Phase(d) /\ Code(d)' = Code(d) /\ Op(d)' = Op(d)
          /\ Request(d)' = Request(d) /\ call[d].answer' = call[d].answer
      BY <1>kept DEF Kept, Phase, Code, Op, Request
    <3>3. Phase(d) \in Transacting => UNCHANGED working
      <4>1. CASE Phase(c) \in Transacting
        BY <3>1, <4>1, <1>locks, OneTransaction
      <4>2. CASE Begins(c)
        <5>1. writer = None /\ OpenerOf[d] # None
          BY <4>2, ConstantsOK DEF Begins
        <5> QED
          BY <3>1, <5>1 DEF LocksMatch
      <4>3. CASE Phase(c) \notin Transacting /\ ~Begins(c)
        BY <1>2, <4>3 DEF Shape, Works, Declines, RollsBack, Returns, Closes, Releases, Transacting
      <4> QED
        BY <4>1, <4>2, <4>3
    <3>4. WorkMatches(d)'
      BY <2>1, <3>1, <3>2, <3>3, WorkStays
    <3>5. RowsMatch(d)'
      BY <2>1, <3>1, <3>2 DEF RowsMatch
    <3>6. AnswerMatches(d)'
      BY <2>1, <3>1, <3>2 DEF AnswerMatches, Confirmed
    <3> QED
      BY <3>4, <3>5, <3>6
  <2>5. WorkMatches(c)' /\ RowsMatch(c)' /\ AnswerMatches(c)'
    <3>1. CASE Works(c)
      BY <2>1, <3>1, <1>locks DEF Works, RowsMatch, AnswerMatches, Transacting
    <3>2. CASE Begins(c)
      BY <2>1, <3>2, <1>locks DEF Begins, Goes, Transacts, Phase, WorkMatches, RowsMatch, AnswerMatches
    <3>3. CASE Returns(c)
      <4>1. /\ Phase(c) = "committed" /\ Phase(c)' = "answered" /\ Code(c)' = Code(c) /\ Op(c)' = Op(c)
            /\ Request(c)' = Request(c) /\ call[c].answer' = call[c].answer
        BY <3>3 DEF Returns, Goes, Code, Op
      <4>2. Code(c) \in Successes /\ Confirmed(c) /\ Op(c) # "close"
        BY <4>1, <1>locks DEF AnswerMatches
      <4> QED
        BY <2>1, <4>1, <4>2 DEF WorkMatches, RowsMatch, AnswerMatches, Confirmed
    <3>4. CASE Declines(c) \/ RollsBack(c) \/ Closes(c) \/ Releases(c)
      <4>1. /\ Phase(c)' \in {"answered", "closing"}
            /\ Phase(c) \in {"queued", "failed", "closing"}
        BY <3>4 DEF Declines, RollsBack, Closes, Releases, Goes, Transacts, Phase
      <4>2. Phase(c)' = "answered" => Code(c)' \notin Successes
        <5>1. CASE Declines(c)
          BY <5>1, ErrorShape DEF Declines, Goes, Code, Errors
        <5>2. CASE RollsBack(c)
          BY <5>2, <1>locks DEF RollsBack, Goes, Code, WorkMatches
        <5>3. CASE Closes(c)
          BY <5>3 DEF Closes, Goes
        <5>4. CASE Releases(c)
          BY <5>4, ErrorShape DEF Releases, Goes, Code
        <5> QED
          BY <3>4, <5>1, <5>2, <5>3, <5>4
      <4> QED
        BY <2>1, <4>1, <4>2, <1>locks DEF WorkMatches, RowsMatch, AnswerMatches
    <3> QED
      BY <1>2, <3>1, <3>2, <3>3, <3>4 DEF Shape
  <2> QED
    BY <2>2, <2>3, <2>4, <2>5 DEF ContentInv
<1> QED
  BY <1>1, <1>2

------------------------------------------------------------------------------
(* The steps that are not a call's: it arrives, an opener opens, a process ends. *)

\* A call that does not move, and what no call sees.
LEMMA CallsStay ==
    ASSUME NEW d \in Calls, db \in Databases, RowsMatch(d), AnswerMatches(d), db' = db,
           call'[d] = call[d]
    PROVE  RowsMatch(d)' /\ AnswerMatches(d)'
<1>1. /\ Phase(d)' = Phase(d) /\ Code(d)' = Code(d) /\ Op(d)' = Op(d)
      /\ Request(d)' = Request(d) /\ call[d].answer' = call[d].answer
  BY DEF Phase, Code, Op, Request
<1> QED
  BY <1>1 DEF RowsMatch, AnswerMatches, Confirmed

LEMMA CallStep ==
    ASSUME NEW c \in Calls, StoreInv, Call(c)
    PROVE  StoreInv'
<1>type. /\ call \in [Calls -> CallRecords] /\ queue \in [Openers -> Seq(Calls)]
         /\ OpenerOf \in [Calls -> Openers] /\ None \notin Openers
  BY ConstantsOK DEF StoreInv, TypeInv
<1> DEFINE o == OpenerOf[c]
           m == MutexOf(c)
<1>1. PICK request \in RequestsOf[c] :
          call' = [call EXCEPT ![c].phase = "queued", ![c].request = request]
  BY DEF Call
<1>2. /\ Phase(c) = "none" /\ StateOf(c) \in {"open", "closed"}
      /\ queue' = [queue EXCEPT ![m] = Append(queue[m], c)]
      /\ UNCHANGED <<db, writer, working, databaseMutexes, opener>>
  BY DEF Call, Phase, StateOf
<1>3. request \in Requests
  BY ConstantsOK
<1> DEFINE r == [call[c] EXCEPT !.phase = "queued", !.request = request]
<1>4. r \in CallRecords /\ r.phase = "queued" /\ r.request = request /\ call' = [call EXCEPT ![c] = r]
  BY <1>1, <1>3, <1>type DEF CallRecords, Phases
<1> HIDE DEF r
<1>5. /\ call' \in [Calls -> CallRecords] /\ Phase(c)' = "queued" /\ Request(c)' = request
      /\ \A d \in Calls \ {c} : call'[d] = call[d]
  BY <1>4, <1>type DEF Phase, Request
<1>6. m \in Openers
  BY <1>2, <1>type DEF StoreInv, LockInv, OpenerInv, MutexOf, StateOf, Of
<1> HIDE DEF m
<1>7. queue' \in [Openers -> Seq(Calls)]
  <2>1. Append(queue[m], c) \in Seq(Calls)
    BY <1>6, <1>type
  <2> QED
    BY <1>2, <1>6, <2>1, <1>type
<1>8. ASSUME NEW d \in Calls, HasTurn(d) PROVE HasTurn(d)'
  <2>1. MutexOf(d)' = MutexOf(d)
    BY <1>2 DEF MutexOf
  <2>2. CASE MutexOf(d) = m
    <3>1. queue[m] \in Seq(Calls) /\ queue[m] # <<>> /\ Head(queue[m]) = d
      BY <1>6, <1>8, <2>2, <1>type DEF HasTurn
    <3>2. queue'[m] = Append(queue[m], c)
      BY <1>2, <1>6, <1>type
    <3>3. queue'[m] # <<>> /\ Head(queue'[m]) = d
      BY <3>1, <3>2
    <3> QED
      BY <2>1, <2>2, <3>3 DEF HasTurn
  <2>3. CASE MutexOf(d) # m
    BY <1>2, <1>8, <2>1, <2>3, <1>type DEF HasTurn
  <2> QED
    BY <2>2, <2>3
<1>9. TypeInv'
  BY <1>2, <1>5, <1>7 DEF StoreInv, TypeInv
<1>10. LocksMatch(c)'
  BY <1>2, <1>3, <1>5 DEF LocksMatch, StateOf, Transacting, Holding
<1>11. ASSUME NEW d \in Calls \ {c} PROVE LocksMatch(d)'
  <2>1. /\ LocksMatch(d) /\ Phase(d)' = Phase(d) /\ Request(d)' = Request(d) /\ Op(d)' = Op(d)
        /\ StateOf(d)' = StateOf(d)
    BY <1>2, <1>5 DEF StoreInv, LockInv, Phase, Request, Op, StateOf
  <2> QED
    BY <1>2, <1>8, <2>1 DEF LocksMatch
<1>12. WriterTransacts'
  <2>1. ASSUME writer' # None PROVE \E d \in Calls : OpenerOf[d] = writer' /\ Phase(d)' \in Transacting
    <3>1. PICK d \in Calls : OpenerOf[d] = writer /\ Phase(d) \in Transacting
      BY <1>2, <2>1 DEF StoreInv, LockInv, WriterTransacts
    <3>2. d # c /\ Phase(d)' = Phase(d)
      BY <1>2, <1>5, <3>1 DEF Phase, Transacting
    <3> QED
      BY <1>2, <3>1, <3>2
  <2> QED
    BY <2>1 DEF WriterTransacts
<1>13. (\A p \in Processes : RegistryInv(p)') /\ (\A other \in Openers : OpenerInv(other)')
  BY <1>2 DEF StoreInv, LockInv, RegistryInv, Holders, OpenerInv
<1>14. WorkMatches(c)' /\ RowsMatch(c)' /\ AnswerMatches(c)'
  BY <1>2, <1>5 DEF StoreInv, ContentInv, WorkMatches, RowsMatch, AnswerMatches
<1>15. ASSUME NEW d \in Calls \ {c} PROVE WorkMatches(d)' /\ RowsMatch(d)' /\ AnswerMatches(d)'
  BY <1>2, <1>5, WorkStays, CallsStay DEF StoreInv, ContentInv, TypeInv
<1> QED
  BY <1>2, <1>9, <1>10, <1>11, <1>12, <1>13, <1>14, <1>15 DEF StoreInv, LockInv, ContentInv

LEMMA OpenStep ==
    ASSUME NEW o \in Openers, StoreInv, Open(o)
    PROVE  StoreInv'
<1> DEFINE p == ProcessOf[o]
           registration == Retained(p, o)
           r == [state |-> "open", released |-> FALSE, mutex |-> registration.mutex]
<1>type. /\ opener \in [Openers -> OpenerRecords] /\ p \in Processes /\ o \in Of(p)
         /\ databaseMutexes \in [Processes -> Registrations]
         /\ OpenerOf \in [Calls -> Openers] /\ ProcessOf \in [Openers -> Processes]
  BY ConstantsOK DEF StoreInv, TypeInv, Of
<1>1. /\ opener[o].state = "unopened" /\ opener' = [opener EXCEPT ![o] = r]
      /\ databaseMutexes' = [databaseMutexes EXCEPT ![p] = registration]
      /\ UNCHANGED <<db, writer, working, queue, call>>
  BY DEF Open
<1>2. /\ IsFiniteSet(Holders(p)) /\ databaseMutexes[p].references = Cardinality(Holders(p))
      /\ \A other \in Holders(p) : opener[other].mutex = databaseMutexes[p].mutex
      /\ databaseMutexes[p] \in Registrations
  BY <1>type DEF StoreInv, LockInv, RegistryInv
<1>3. /\ registration \in Registrations /\ registration.mutex \in Of(p)
      /\ registration.references = Cardinality(Holders(p)) + 1
      /\ Holders(p) # {} => registration.mutex = databaseMutexes[p].mutex
  <2>1. CASE databaseMutexes[p].references = 0
    <3>1. Holders(p) = {}
      BY <1>2, <2>1, FS_EmptySet
    <3> QED
      BY <1>2, <2>1, <3>1, <1>type DEF Retained, Registrations
  <2>2. CASE databaseMutexes[p].references # 0
    <3>1. registration = [databaseMutexes[p] EXCEPT !.references = @ + 1]
      BY <2>2 DEF Retained
    <3> HIDE DEF registration
    <3>2. /\ registration \in Registrations /\ registration.mutex = databaseMutexes[p].mutex
          /\ registration.references = databaseMutexes[p].references + 1
      BY <1>2, <3>1 DEF Registrations
    <3>3. PICK other \in Holders(p) : TRUE
      BY <1>2, <2>2, FS_EmptySet
    <3>4. opener[other].mutex \in Of(p)
      BY <3>3 DEF StoreInv, LockInv, OpenerInv, Holders, Of
    <3> QED
      BY <1>2, <3>2, <3>3, <3>4
  <2> QED
    BY <2>1, <2>2
<1> HIDE DEF registration
<1>4. /\ r \in OpenerRecords /\ r.state = "open" /\ ~r.released /\ r.mutex = registration.mutex
  BY <1>3 DEF OpenerRecords, Of
<1> HIDE DEF r
<1>5. /\ opener' \in [Openers -> OpenerRecords] /\ opener'[o] = r
      /\ \A other \in Openers \ {o} : opener'[other] = opener[other]
      /\ databaseMutexes' \in [Processes -> Registrations] /\ databaseMutexes'[p] = registration
      /\ \A q \in Processes \ {p} : databaseMutexes'[q] = databaseMutexes[q]
  BY <1>1, <1>3, <1>4, <1>type
<1>6. TypeInv'
  BY <1>1, <1>5 DEF StoreInv, TypeInv
<1>7. ASSUME NEW d \in Calls PROVE LocksMatch(d)'
  <2>1. LocksMatch(d)
    BY DEF StoreInv, LockInv
  <2>2. /\ Phase(d)' = Phase(d) /\ Request(d)' = Request(d) /\ Op(d)' = Op(d)
    BY <1>1 DEF Phase, Request, Op
  <2>3. CASE OpenerOf[d] = o
    <3>1. StateOf(d) = "unopened"
      BY <1>1, <2>3 DEF StateOf
    <3> QED
      BY <2>1, <2>2, <3>1 DEF LocksMatch, Transacting, Holding
  <2>4. CASE OpenerOf[d] # o
    <3>1. opener'[OpenerOf[d]] = opener[OpenerOf[d]]
      BY <1>5, <2>4, <1>type
    <3>2. StateOf(d)' = StateOf(d) /\ (HasTurn(d)' <=> HasTurn(d))
      BY <1>1, <3>1 DEF StateOf, HasTurn, MutexOf
    <3> QED
      BY <1>1, <2>1, <2>2, <3>2 DEF LocksMatch
  <2> QED
    BY <2>3, <2>4
<1>8. WriterTransacts'
  BY <1>1 DEF StoreInv, LockInv, WriterTransacts, Phase
<1>9. ASSUME NEW other \in Openers PROVE OpenerInv(other)'
  <2>1. CASE other = o
    BY <2>1, <1>3, <1>4, <1>5 DEF OpenerInv, Of
  <2>2. CASE other # o
    <3>1. OpenerInv(other) /\ opener'[other] = opener[other]
      BY <1>5, <2>2 DEF StoreInv, LockInv
    <3> QED
      BY <3>1 DEF OpenerInv, Of
  <2> QED
    BY <2>1, <2>2
<1>10. ASSUME NEW q \in Processes \ {p} PROVE RegistryInv(q)'
  <2>1. ASSUME NEW other \in Of(q) PROVE opener'[other] = opener[other]
    BY <1>5, <1>10, <2>1 DEF Of
  <2>2. Holders(q)' = Holders(q)
    BY <2>1 DEF Holders, Of
  <2> QED
    BY <1>5, <1>10, <2>1, <2>2, HoldersStay DEF StoreInv, LockInv, Holders
<1>11. RegistryInv(p)'
  <2>1. Holders(p)' = Holders(p) \union {o} /\ o \notin Holders(p)
    BY <1>1, <1>4, <1>5, <1>type DEF Holders, Of
  <2>2. IsFiniteSet(Holders(p)') /\ Cardinality(Holders(p)') = registration.references
    BY <1>2, <1>3, <2>1, FS_AddElement
  <2>3. ASSUME NEW other \in Holders(p)' PROVE opener'[other].mutex = registration.mutex
    <3>1. CASE other = o
      BY <3>1, <1>4, <1>5
    <3>2. CASE other # o
      <4>1. other \in Holders(p) /\ other \in Openers
        BY <2>1, <2>3, <3>2 DEF Holders, Of
      <4> QED
        BY <1>2, <1>3, <1>5, <3>2, <4>1
    <3> QED
      BY <3>1, <3>2
  <2> QED
    BY <1>5, <2>2, <2>3 DEF RegistryInv
<1>12. ContentInv'
  <2>1. ASSUME NEW d \in Calls PROVE WorkMatches(d)' /\ RowsMatch(d)' /\ AnswerMatches(d)'
    BY <1>1, WorkStays, CallsStay DEF StoreInv, ContentInv, TypeInv
  <2> QED
    BY <1>1, <2>1 DEF StoreInv, ContentInv
<1> QED
  BY <1>6, <1>7, <1>8, <1>9, <1>10, <1>11, <1>12 DEF StoreInv, LockInv

LEMMA CrashStep ==
    ASSUME NEW p \in Processes, StoreInv, Crash(p)
    PROVE  StoreInv'
<1>type. /\ opener \in [Openers -> OpenerRecords] /\ call \in [Calls -> CallRecords]
         /\ databaseMutexes \in [Processes -> Registrations] /\ queue \in [Openers -> Seq(Calls)]
         /\ OpenerOf \in [Calls -> Openers] /\ ProcessOf \in [Openers -> Processes]
         /\ None \notin Openers
  BY ConstantsOK DEF StoreInv, TypeInv
<1> DEFINE Lost(d) == call[d].phase \notin {"none", "answered"} /\ OpenerOf[d] \in Of(p)
           emptied == [mutex |-> None, references |-> 0]
<1>1. /\ writer' = IF writer \in Of(p) THEN None ELSE writer
      /\ working' = IF writer \in Of(p) THEN db ELSE working
      /\ databaseMutexes' = [databaseMutexes EXCEPT ![p] = emptied]
      /\ queue' = [o \in Openers |-> IF o \in Of(p) THEN <<>> ELSE queue[o]]
      /\ opener' = [o \in Openers |-> IF o \in Of(p) /\ opener[o].state # "unopened"
                                      THEN [opener[o] EXCEPT !.state = "dead"] ELSE opener[o]]
      /\ call' = [c \in Calls |-> IF Lost(c) THEN [call[c] EXCEPT !.phase = "lost"] ELSE call[c]]
      /\ db' = db
  BY DEF Crash
<1>2. emptied \in Registrations /\ emptied.references = 0
  BY DEF Registrations
<1>3. ASSUME NEW d \in Calls, Lost(d)
      PROVE  /\ call'[d] \in CallRecords /\ Phase(d)' = "lost" /\ Request(d)' = Request(d)
             /\ Phase(d) # "none"
  <2>1. call[d] \in CallRecords
    BY <1>type
  <2>2. call'[d] = [call[d] EXCEPT !.phase = "lost"]
    BY <1>1, <1>3
  <2> QED
    BY <1>3, <2>1, <2>2 DEF CallRecords, Phases, Phase, Request
<1>4. ASSUME NEW d \in Calls, ~Lost(d) PROVE call'[d] = call[d]
  BY <1>1, <1>4
<1>5. ASSUME NEW o \in Openers
      PROVE  /\ opener'[o] \in OpenerRecords
             /\ o \in Of(p) => opener'[o].state \in {"unopened", "dead"}
                               /\ (opener'[o].state = "unopened" => opener'[o] = opener[o])
             /\ o \notin Of(p) => opener'[o] = opener[o]
  <2>1. opener[o] \in OpenerRecords
    BY <1>type
  <2>2. CASE o \in Of(p) /\ opener[o].state # "unopened"
    <3>1. opener'[o] = [opener[o] EXCEPT !.state = "dead"]
      BY <1>1, <2>2
    <3> QED
      BY <2>1, <2>2, <3>1 DEF OpenerRecords
  <2>3. CASE ~(o \in Of(p) /\ opener[o].state # "unopened")
    <3>1. opener'[o] = opener[o]
      BY <1>1, <2>3
    <3> QED
      BY <2>1, <2>3, <3>1
  <2> QED
    BY <2>2, <2>3
<1> HIDE DEF emptied
<1>6. /\ databaseMutexes' \in [Processes -> Registrations] /\ databaseMutexes'[p] = emptied
      /\ \A q \in Processes \ {p} : databaseMutexes'[q] = databaseMutexes[q]
  BY <1>1, <1>2, <1>type
<1>7. TypeInv'
  <2>1. call' \in [Calls -> CallRecords]
    <3>1. \A d \in Calls : call'[d] \in CallRecords
      BY <1>3, <1>4, <1>type
    <3> HIDE DEF Lost
    <3> QED
      BY <1>1, <3>1
  <2>2. opener' \in [Openers -> OpenerRecords]
    BY <1>1, <1>5
  <2>3. queue' \in [Openers -> Seq(Calls)]
    BY <1>1, <1>type
  <2>4. db' \in Databases /\ working' \in Databases /\ writer' \in Openers \union {None}
    BY <1>1 DEF StoreInv, TypeInv
  <2> QED
    BY <1>6, <2>1, <2>2, <2>3, <2>4 DEF TypeInv
<1> HIDE DEF Lost
\* A call that is not lost has its process, or needs nothing of it.
<1>8. ASSUME NEW d \in Calls, ~Lost(d), Phase(d) \notin {"none", "answered"}
      PROVE  OpenerOf[d] \notin Of(p)
  BY <1>8 DEF Lost, Phase
<1>9. ASSUME NEW d \in Calls, ~Lost(d), Phase(d) \in Transacting
      PROVE  UNCHANGED <<db, writer, working>>
  <2>1. writer = OpenerOf[d]
    BY <1>9 DEF StoreInv, LockInv, LocksMatch
  <2>2. writer \notin Of(p)
    BY <1>8, <1>9, <2>1 DEF Transacting
  <2> QED
    BY <1>1, <2>2
<1>10. ASSUME NEW d \in Calls PROVE LocksMatch(d)'
  <2>1. LocksMatch(d)
    BY DEF StoreInv, LockInv
  <2>2. CASE Lost(d)
    BY <1>3, <2>1, <2>2 DEF LocksMatch, Transacting, Holding
  <2>3. CASE ~Lost(d) /\ Phase(d) \in {"none", "answered"}
    <3>1. Phase(d)' = Phase(d) /\ Request(d)' = Request(d)
      BY <1>4, <2>3 DEF Phase, Request
    <3> QED
      BY <2>1, <2>3, <3>1 DEF LocksMatch, Transacting, Holding
  <2>4. CASE ~Lost(d) /\ Phase(d) \notin {"none", "answered"}
    <3>1. OpenerOf[d] \notin Of(p) /\ OpenerOf[d] \in Openers
      BY <1>8, <2>4, <1>type
    <3>2. opener'[OpenerOf[d]] = opener[OpenerOf[d]]
      BY <1>5, <3>1
    <3>3. MutexOf(d)' = MutexOf(d) /\ StateOf(d)' = StateOf(d)
      BY <3>2 DEF MutexOf, StateOf
    <3>4. Phase(d) \in Holding => queue'[MutexOf(d)] = queue[MutexOf(d)]
      <4>1. ASSUME Phase(d) \in Holding PROVE MutexOf(d) \in Openers \ Of(p)
        <5>1. opener[OpenerOf[d]].state = "open"
          BY <2>1, <4>1 DEF LocksMatch, StateOf
        <5>2. MutexOf(d) \in Of(ProcessOf[OpenerOf[d]])
          BY <3>1, <5>1 DEF StoreInv, LockInv, OpenerInv, MutexOf
        <5> QED
          BY <3>1, <5>2 DEF Of
      <4> QED
        BY <1>1, <4>1
    <3> QED
      BY <1>4, <1>9, <2>1, <2>4, <3>3, <3>4, LocksStay
  <2> QED
    BY <2>2, <2>3, <2>4
<1>11. WriterTransacts'
  <2>1. ASSUME writer' # None PROVE \E d \in Calls : OpenerOf[d] = writer' /\ Phase(d)' \in Transacting
    <3>1. writer \notin Of(p) /\ writer' = writer /\ writer # None
      BY <1>1, <2>1
    <3>2. PICK d \in Calls : OpenerOf[d] = writer /\ Phase(d) \in Transacting
      BY <3>1 DEF StoreInv, LockInv, WriterTransacts
    <3>3. ~Lost(d)
      BY <3>1, <3>2 DEF Lost
    <3>4. Phase(d)' = Phase(d)
      BY <1>4, <3>3 DEF Phase
    <3> QED
      BY <3>1, <3>2, <3>4
  <2> QED
    BY <2>1 DEF WriterTransacts
<1>12. ASSUME NEW o \in Openers PROVE OpenerInv(o)'
  <2>1. OpenerInv(o)
    BY DEF StoreInv, LockInv
  <2>2. CASE o \in Of(p)
    BY <1>5, <2>1, <2>2 DEF OpenerInv
  <2>3. CASE o \notin Of(p)
    BY <1>5, <2>1, <2>3 DEF OpenerInv, Of
  <2> QED
    BY <2>2, <2>3
<1>13. RegistryInv(p)'
  <2>1. Holders(p)' = {}
    BY <1>5 DEF Holders, Of
  <2> QED
    BY <1>2, <1>6, <2>1, FS_EmptySet DEF RegistryInv
<1>14. ASSUME NEW q \in Processes \ {p} PROVE RegistryInv(q)'
  <2>1. ASSUME NEW o \in Of(q) PROVE opener'[o] = opener[o]
    BY <1>5, <1>14, <2>1 DEF Of
  <2>2. Holders(q)' = Holders(q)
    BY <2>1 DEF Holders, Of
  <2> QED
    BY <1>6, <1>14, <2>1, <2>2, HoldersStay DEF StoreInv, LockInv, Holders
<1>15. ContentInv'
  <2>1. ASSUME NEW d \in Calls PROVE WorkMatches(d)' /\ RowsMatch(d)' /\ AnswerMatches(d)'
    <3>1. WorkMatches(d) /\ RowsMatch(d) /\ AnswerMatches(d) /\ db \in Databases
      BY DEF StoreInv, ContentInv, TypeInv
    <3>2. CASE Lost(d)
      BY <1>3, <3>2 DEF WorkMatches, RowsMatch, AnswerMatches
    <3>3. CASE ~Lost(d)
      BY <1>1, <1>4, <1>9, <3>1, <3>3, WorkStays, CallsStay
    <3> QED
      BY <3>2, <3>3
  <2>2. Whole(db') /\ (writer' = None => working' = db')
    BY <1>1 DEF StoreInv, ContentInv
  <2> QED
    BY <2>1, <2>2 DEF ContentInv
<1> QED
  BY <1>7, <1>10, <1>11, <1>12, <1>13, <1>14, <1>15 DEF StoreInv, LockInv

------------------------------------------------------------------------------
(* The invariant holds. *)

LEMMA StepStep ==
    ASSUME NEW c \in Calls, StoreInv, Step(c)
    PROVE  StoreInv'
<1>1. /\ TypeInv /\ ContentInv /\ WriterTransacts /\ OpenersMatch
      /\ \A d \in Calls : LocksMatch(d)
  BY DEF StoreInv, LockInv, OpenersMatch, TypeInv
<1>2. Shape(c)
  BY <1>1, StepShapes DEF ContentInv
<1>3. OpenersMatch'
  BY <1>1, <1>2, RegistryStep
<1>4. TypeInv'
  BY <1>1, <1>2, <1>3, TypeStep
<1>5. (\A d \in Calls : LocksMatch(d)') /\ WriterTransacts'
  BY <1>1, <1>2, LocksStep
<1>6. ContentInv'
  BY <1>1, <1>2, <1>4, ContentStep
<1> QED
  BY <1>3, <1>4, <1>5, <1>6 DEF StoreInv, LockInv, OpenersMatch

LEMMA FoundWhole ==
    ASSUME NEW d \in FoundDatabases
    PROVE  d \in Databases /\ Whole(d) /\ \A row \in d.revisions : row.body = 0
<1>1. CASE d = Found
  <2>1. d.projects = {} /\ d.revisions = {} /\ d.aggregate = FoundBricks({})
        /\ d = [projects |-> {}, aggregate |-> FoundBricks({}), revisions |-> {}]
    BY <1>1 DEF Found
  <2>2. FoundBricks({}) = [b \in Bricks |-> Absent] /\ Absent \in Aggregates
        /\ Absent.status = "absent" /\ Absent.current_revision = 0
    BY DEF FoundBricks, Absent, Aggregates
  <2>3. d \in Databases
    BY <2>1, <2>2 DEF Databases
  <2>4. \A b \in Bricks : StoredRevisions(d, b) = {}
    BY <2>1 DEF StoredRevisions, RevisionsOf
  <2>5. ASSUME NEW b \in Bricks
        PROVE  /\ StoredRevisions(d, b) = 1..d.aggregate[b].current_revision
               /\ d.aggregate[b].status = "absent" <=> d.aggregate[b].current_revision = 0
    <3>1. d.aggregate[b] = Absent
      BY <2>1, <2>2
    <3>2. StoredRevisions(d, b) = {}
      BY <2>4
    <3> QED
      BY <2>2, <3>1, <3>2
  <2> QED
    BY <2>1, <2>3, <2>5 DEF Whole
<1>2. ASSUME NEW found \in SUBSET Bricks,
             d = [projects |-> Projects, aggregate |-> FoundBricks(found),
                  revisions |-> {Row(b, 1, 0) : b \in found}]
      PROVE  d \in Databases /\ Whole(d) /\ \A row \in d.revisions : row.body = 0
  <2> DEFINE one == [status |-> "active", kind |-> CHOOSE k \in Kinds : TRUE, current_revision |-> 1]
  <2>1. /\ d.projects = Projects /\ d.aggregate = FoundBricks(found)
        /\ d.revisions = {Row(b, 1, 0) : b \in found}
    BY <1>2
  <2>2. one \in Aggregates /\ one.status = "active" /\ one.current_revision = 1
    <3>1. (CHOOSE k \in Kinds : TRUE) \in Kinds
      BY ConstantsOK
    <3> QED
      BY <3>1 DEF Aggregates
  <2>3. Absent \in Aggregates /\ Absent.status = "absent" /\ Absent.current_revision = 0
    BY DEF Absent, Aggregates
  <2>4. FoundBricks(found) = [b \in Bricks |-> IF b \in found THEN one ELSE Absent]
    BY DEF FoundBricks
  <2> HIDE DEF one
  <2>5. FoundBricks(found) \in [Bricks -> Aggregates]
    BY <2>2, <2>3, <2>4
  <2>6. \A row \in d.revisions : row.brick \in found /\ row.revision = 1 /\ row.body = 0 /\ row \in Rows
    BY <2>1 DEF Row, Rows, Bodies
  <2>7. d \in Databases
    BY <1>2, <2>1, <2>5, <2>6 DEF Databases
  <2>8. ASSUME NEW b \in Bricks
        PROVE  /\ StoredRevisions(d, b) = 1..d.aggregate[b].current_revision
               /\ d.aggregate[b].status = "absent" <=> d.aggregate[b].current_revision = 0
    <3>1. CASE b \in found
      <4>1. d.aggregate[b] = one
        BY <2>1, <2>4, <3>1
      <4>2. Row(b, 1, 0) \in RevisionsOf(d, b) /\ Row(b, 1, 0).revision = 1
        BY <2>1, <3>1 DEF RevisionsOf, Row
      <4>3. StoredRevisions(d, b) = {1}
        BY <2>6, <4>2 DEF StoredRevisions, RevisionsOf
      <4> QED
        BY <2>2, <4>1, <4>3
    <3>2. CASE b \notin found
      <4>1. d.aggregate[b] = Absent
        BY <2>1, <2>4, <3>2
      <4>2. StoredRevisions(d, b) = {}
        BY <2>6, <3>2 DEF StoredRevisions, RevisionsOf
      <4> QED
        BY <2>3, <4>1, <4>2
    <3> QED
      BY <3>1, <3>2
  <2>9. \A row, other \in d.revisions : row.brick = other.brick => row = other
    BY <2>1 DEF Row
  <2> QED
    BY <2>6, <2>7, <2>8, <2>9 DEF Whole
<1> QED
  BY <1>1, <1>2 DEF FoundDatabases

LEMMA StoreInvariant == Spec => []StoreInv
<1>1. Init => StoreInv
  <2> SUFFICES ASSUME Init
               PROVE  StoreInv
    OBVIOUS
  <2>1. db \in Databases /\ working = db /\ Whole(db) /\ \A row \in db.revisions : row.body = 0
    BY FoundWhole DEF Init
  <2>2. ASSUME NEW c \in Calls
        PROVE  /\ Phase(c) = "none" /\ c # 0
               /\ call[c] \in CallRecords
    <3>1. Unanswered \in AnswerRecords /\ Absent \in Aggregates /\ Nothing \in Requests \union {Nothing}
          /\ "none" \in Phases
      BY ErrorShape DEF Unanswered, Absent, Aggregates, Phases
    <3>2. call[c] = [phase |-> "none", request |-> Nothing, seen |-> Absent, answer |-> Unanswered]
      BY DEF Init
    <3> QED
      BY <3>1, <3>2, ConstantsOK DEF CallRecords, Phase
  <2>3. ASSUME NEW o \in Openers
        PROVE  /\ opener[o].state = "unopened" /\ ~opener[o].released
               /\ opener[o] \in OpenerRecords /\ queue[o] \in Seq(Calls)
    BY DEF Init, OpenerRecords
  <2>4. ASSUME NEW p \in Processes
        PROVE  databaseMutexes[p] \in Registrations /\ databaseMutexes[p].references = 0
    BY DEF Init, Registrations
  <2>5. TypeInv
    <3>1. call \in [Calls -> CallRecords] /\ opener \in [Openers -> OpenerRecords]
          /\ queue \in [Openers -> Seq(Calls)] /\ databaseMutexes \in [Processes -> Registrations]
      BY <2>2, <2>3, <2>4 DEF Init
    <3> QED
      BY <2>1, <3>1 DEF TypeInv, Init
  <2>6. LockInv
    <3>1. ASSUME NEW p \in Processes PROVE RegistryInv(p)
      <4>1. Holders(p) = {}
        BY <2>3 DEF Holders, Of
      <4> QED
        BY <2>4, <4>1, FS_EmptySet DEF RegistryInv
    <3>2. \A o \in Openers : OpenerInv(o)
      BY <2>3 DEF OpenerInv
    <3>3. \A c \in Calls : LocksMatch(c)
      BY <2>2 DEF LocksMatch, Transacting, Holding
    <3> QED
      BY <3>1, <3>2, <3>3 DEF LockInv, WriterTransacts, Init
  <2>7. ContentInv
    BY <2>1, <2>2 DEF ContentInv, WorkMatches, RowsMatch, AnswerMatches
  <2> QED
    BY <2>5, <2>6, <2>7 DEF StoreInv
<1>2. StoreInv /\ [Next]_vars => StoreInv'
  <2> SUFFICES ASSUME StoreInv, [Next]_vars
               PROVE  StoreInv'
    OBVIOUS
  <2>1. CASE UNCHANGED vars
    <3>1. UNCHANGED <<db, writer, working, databaseMutexes, queue, opener, call>>
      BY <2>1 DEF vars
    <3>2. TypeInv'
      BY <3>1 DEF StoreInv, TypeInv
    <3>3. LockInv'
      BY <3>1 DEF StoreInv, LockInv, LocksMatch, WriterTransacts, OpenerInv, RegistryInv, Holders,
                  HasTurn, MutexOf, StateOf, Op, Request, Phase
    <3>4. ContentInv'
      <4>1. ASSUME NEW d \in Calls PROVE WorkMatches(d)' /\ RowsMatch(d)' /\ AnswerMatches(d)'
        BY <3>1, WorkStays, CallsStay DEF StoreInv, ContentInv, TypeInv
      <4> QED
        BY <3>1, <4>1 DEF StoreInv, ContentInv
    <3> QED
      BY <3>2, <3>3, <3>4 DEF StoreInv
  <2> QED
    BY <2>1, OpenStep, CallStep, StepStep, CrashStep DEF Next
<1> QED
  BY <1>1, <1>2, PTL DEF Spec

\* The fields keep their types, a revision is stored once, a database without a writer
\* has no uncommitted contents, and the registry counts the openers that hold a mutex.
THEOREM TypeCorrect == Spec => []TypeOK
<1>1. StoreInv => TypeOK
  <2> SUFFICES ASSUME StoreInv
               PROVE  TypeOK
    OBVIOUS
  <2>1. \A p \in Processes :
          databaseMutexes[p].references =
              Cardinality({o \in Of(p) : opener[o].state \in {"open", "closed"} /\ ~opener[o].released})
    BY DEF StoreInv, LockInv, RegistryInv, Holders
  <2> QED
    BY <2>1 DEF StoreInv, TypeInv, ContentInv, Whole, TypeOK, CallRecords, OpenerRecords
<1> QED
  BY <1>1, StoreInvariant, PTL

\* Openers of one database in one process share their mutex, so a call whose turn it
\* is never waits for a transaction of its own process.
THEOREM OneWriterPerProcess == Spec => []NoSelfContention
<1>1. StoreInv => NoSelfContention
  <2> SUFFICES ASSUME StoreInv, NEW c \in Calls, Transacts(c), opener[OpenerOf[c]].state = "open",
                      writer # None, ProcessOf[writer] = ProcessOf[OpenerOf[c]]
               PROVE  FALSE
    BY DEF NoSelfContention
  <2>1. PICK d \in Calls : OpenerOf[d] = writer /\ Phase(d) \in Transacting
    BY DEF StoreInv, LockInv, WriterTransacts
  <2>2. HasTurn(d) /\ opener[writer].state = "open"
    BY <2>1 DEF StoreInv, LockInv, LocksMatch, Holding, StateOf
  <2> DEFINE p == ProcessOf[writer]
  <2>3. OpenerOf[c] \in Openers /\ writer \in Openers /\ p \in Processes
    BY <2>1, ConstantsOK
  <2>4. OpenerOf[c] \in Holders(p) /\ writer \in Holders(p)
    BY <2>2, <2>3 DEF Holders, Of, StoreInv, LockInv, OpenerInv
  <2>5. MutexOf(c) = MutexOf(d)
    BY <2>1, <2>3, <2>4 DEF StoreInv, LockInv, RegistryInv, MutexOf
  <2>6. c = d
    BY <2>2, <2>5 DEF HasTurn, Transacts
  <2> QED
    BY <2>1, <2>6 DEF Transacts, Transacting, Phase
<1> QED
  BY <1>1, StoreInvariant, PTL

\* What a call was told is so: of a success in the database for ever and through every
\* crash, of an error in that nothing of it is there.
THEOREM AnswersAreTrue == Spec => []AnswersTruthful
<1>1. StoreInv => AnswersTruthful
  <2> SUFFICES ASSUME StoreInv, NEW c \in Calls
               PROVE  /\ \A row \in db.revisions : row.body = c =>
                           call[c].phase \in {"committed", "lost"} \/ Succeeded(c)
                      /\ call[c].phase \in {"committed", "answered"} /\ Succeeded(c) => Confirmed(c)
    BY DEF AnswersTruthful, Confirmed, Request
  <2> QED
    BY DEF StoreInv, ContentInv, RowsMatch, AnswerMatches, Succeeded, Successes, Phase, Code
<1> QED
  BY <1>1, StoreInvariant, PTL

------------------------------------------------------------------------------
(* The store implements BrickHistory. *)

\* The refinement mapping: the bodies of the revisions, and what is archived.
Recorded == [b \in Bricks |-> [n \in 1..db.aggregate[b].current_revision |-> BodyOf(b, n)]]
ArchivedBricks == {b \in Bricks : db.aggregate[b].status = "archived"}

LEMMA BodyFound ==
    ASSUME Whole(db), NEW row \in db.revisions, NEW b, NEW n, row.brick = b, row.revision = n
    PROVE  BodyOf(b, n) = row.body
<1> DEFINE found == CHOOSE r \in RevisionsOf(db, b) : r.revision = n
<1>1. row \in RevisionsOf(db, b)
  BY DEF RevisionsOf
<1>2. found \in RevisionsOf(db, b) /\ found.revision = n
  BY <1>1
<1>3. found \in db.revisions /\ found.brick = b
  BY <1>2 DEF RevisionsOf
<1>4. found = row
  BY <1>2, <1>3 DEF Whole
<1>5. BodyOf(b, n) = found.body
  BY <1>1 DEF BodyOf
<1> QED
  BY <1>4, <1>5

\* The same, of the contents after a step.
BodiesFound == \A row \in db.revisions : BodyOf(row.brick, row.revision) = row.body

LEMMA BodiesAreFound == Whole(db) => BodiesFound
  BY BodyFound DEF BodiesFound

LEMMA RevisionFound ==
    ASSUME Whole(db), NEW b \in Bricks, NEW n \in 1..db.aggregate[b].current_revision
    PROVE  \E row \in db.revisions : row.brick = b /\ row.revision = n
<1>1. n \in StoredRevisions(db, b)
  BY DEF Whole
<1> QED
  BY <1>1 DEF StoredRevisions, RevisionsOf

RecordedType ==
    /\ Recorded \in [Bricks -> Seq(Bodies)]
    /\ \A b \in Bricks : /\ Len(Recorded[b]) = db.aggregate[b].current_revision
                         /\ Recorded[b] = <<>> <=> db.aggregate[b].current_revision = 0

LEMMA RecordedTyped == db \in Databases /\ Whole(db) => RecordedType
<1> SUFFICES ASSUME db \in Databases, Whole(db)
             PROVE  RecordedType
  OBVIOUS
<1>1. ASSUME NEW b \in Bricks
      PROVE  /\ Recorded[b] \in Seq(Bodies) /\ Len(Recorded[b]) = db.aggregate[b].current_revision
             /\ Recorded[b] = <<>> <=> db.aggregate[b].current_revision = 0
  <2>1. PICK k \in Nat : k = db.aggregate[b].current_revision
    BY AggregateShape
  <2>2. ASSUME NEW n \in 1..k PROVE BodyOf(b, n) \in Bodies
    <3>1. PICK row \in db.revisions : row.brick = b /\ row.revision = n
      BY <2>1, RevisionFound
    <3>2. BodyOf(b, n) = row.body
      BY <3>1, BodyFound
    <3> QED
      BY <3>1, <3>2 DEF Databases, Rows
  <2>3. Recorded[b] = [n \in 1..k |-> BodyOf(b, n)]
    BY <2>1 DEF Recorded
  <2>4. Recorded[b] \in Seq(Bodies) /\ Len(Recorded[b]) = k
    BY <2>2, <2>3
  <2>5. Recorded[b] = <<>> <=> k = 0
    BY <2>4
  <2> QED
    BY <2>1, <2>4, <2>5
<1> QED
  BY <1>1 DEF RecordedType, Recorded

LEMMA BodiesKept ==
    ASSUME db \in Databases, Whole(db), Whole(db'), db.revisions \subseteq db'.revisions,
           NEW b \in Bricks, NEW n \in 1..db.aggregate[b].current_revision
    PROVE  BodyOf(b, n)' = BodyOf(b, n)
<1>1. PICK row \in db.revisions : row.brick = b /\ row.revision = n
  BY RevisionFound
<1>2. BodyOf(row.brick, row.revision) = row.body
  BY BodyFound
<1>3. Whole(db') => BodiesFound'
  <2>1. Whole(db)' => BodiesFound'
    BY BodiesAreFound, PTL
  <2> QED
    BY <2>1 DEF Whole, StoredRevisions, RevisionsOf
<1>4. \A r \in db'.revisions : BodyOf(r.brick, r.revision)' = r.body
  BY <1>3 DEF BodiesFound
<1> QED
  BY <1>1, <1>2, <1>4

LEMMA SameLength ==
    ASSUME db \in Databases, Whole(db), Whole(db'), db.revisions \subseteq db'.revisions,
           NEW b \in Bricks, db'.aggregate[b].current_revision = db.aggregate[b].current_revision
    PROVE  Recorded'[b] = Recorded[b]
<1>1. \A n \in 1..db.aggregate[b].current_revision : BodyOf(b, n)' = BodyOf(b, n)
  BY BodiesKept
<1>2. /\ Recorded[b] = [n \in 1..db.aggregate[b].current_revision |-> BodyOf(b, n)]
      /\ Recorded'[b] = [n \in 1..db'.aggregate[b].current_revision |-> BodyOf(b, n)']
  BY DEF Recorded
<1> QED
  BY <1>1, <1>2

LEMMA OneBodyMore ==
    ASSUME db \in Databases, Whole(db), db' \in Databases, Whole(db'),
           db.revisions \subseteq db'.revisions, NEW b \in Bricks, NEW c \in Calls, NEW k \in Nat,
           db.aggregate[b].current_revision = k, db'.aggregate[b].current_revision = k + 1,
           Row(b, k + 1, c) \in db'.revisions
    PROVE  Recorded'[b] = Append(Recorded[b], c)
<1>1. /\ Recorded[b] \in Seq(Bodies) /\ Len(Recorded[b]) = k
      /\ Recorded'[b] \in Seq(Bodies) /\ Len(Recorded'[b]) = k + 1
  <2>1. RecordedType
    BY RecordedTyped
  <2>2. RecordedType'
    <3>1. (db \in Databases /\ Whole(db))' => RecordedType'
      BY RecordedTyped, PTL
    <3>2. Databases' = Databases
      BY DEF Databases, Aggregates, Rows
    <3>3. Whole(db)' <=> Whole(db')
      BY DEF Whole, StoredRevisions, RevisionsOf
    <3> QED
      BY <3>1, <3>2, <3>3
  <2> QED
    BY <2>1, <2>2 DEF RecordedType
<1>2. /\ Recorded[b] = [n \in 1..k |-> BodyOf(b, n)]
      /\ Recorded'[b] = [n \in 1..(k + 1) |-> BodyOf(b, n)']
  BY DEF Recorded
<1>3. \A n \in 1..k : BodyOf(b, n)' = BodyOf(b, n)
  BY BodiesKept
<1>4. BodyOf(b, k + 1)' = c
  <2>1. Whole(db)' => BodiesFound'
    BY BodiesAreFound, PTL
  <2>2. BodiesFound'
    BY <2>1 DEF Whole, StoredRevisions, RevisionsOf
  <2>3. PICK row \in db'.revisions : row = Row(b, k + 1, c)
    OBVIOUS
  <2>4. row.brick = b /\ row.revision = k + 1 /\ row.body = c
    BY <2>3 DEF Row
  <2>5. BodyOf(row.brick, row.revision)' = row.body
    BY <2>2 DEF BodiesFound
  <2> QED
    BY <2>4, <2>5
<1>5. PICK old, new : old = Recorded[b] /\ new = Recorded'[b]
  OBVIOUS
<1>6. \A n \in 1..k : new[n] = old[n]
  <2>1. ASSUME NEW n \in 1..k PROVE new[n] = old[n]
    <3>1. n \in 1..(k + 1)
      OBVIOUS
    <3>2. old[n] = BodyOf(b, n) /\ new[n] = BodyOf(b, n)'
      BY <1>2, <1>5, <3>1
    <3> QED
      BY <1>3, <3>2
  <2> QED
    BY <2>1
<1>7. new[k + 1] = c
  BY <1>2, <1>4, <1>5
<1>8. c \in Bodies /\ old \in Seq(Bodies) /\ new \in Seq(Bodies) /\ Len(old) = k /\ Len(new) = k + 1
  BY <1>1, <1>5 DEF Bodies
<1>9. new = Append(old, c)
  BY <1>6, <1>7, <1>8
<1> QED
  BY <1>5, <1>9

LEMMA OneBrick ==
    ASSUME NEW b \in Bricks, NEW s, Recorded'[b] = s,
           \A other \in Bricks \ {b} : Recorded'[other] = Recorded[other]
    PROVE  Recorded' = [Recorded EXCEPT ![b] = s]
<1>1. /\ Recorded = [other \in Bricks |-> Recorded[other]]
      /\ Recorded' = [other \in Bricks |-> Recorded'[other]]
  BY DEF Recorded
<1> HIDE DEF Recorded
<1> QED
  BY <1>1

\* A commit is one step of the history, or none.
LEMMA CommitStep ==
    ASSUME StoreInv, StoreInv', NEW c \in Calls, Commits(c)
    PROVE  \/ UNCHANGED <<Recorded, ArchivedBricks>>
           \/ \E b \in Bricks : History!Archive(b)
                                \/ \E body \in Bodies : History!Create(b, body) \/ History!Revise(b, body)
<1> DEFINE b == Request(c).brick
<1>1. /\ db \in Databases /\ working \in Databases /\ Whole(db)
      /\ Wrote(c) /\ Request(c) \in Requests /\ Op(c) # "close" /\ db' = working
  BY DEF StoreInv, TypeInv, LockInv, ContentInv, LocksMatch, WorkMatches, Commits, Transacting, Holding
<1>2. Whole(db') /\ Grows(db, db') /\ db' \in Databases
  BY <1>1, WroteWhole
<1>3. db.revisions \subseteq db'.revisions
  BY <1>2 DEF Grows
<1>4. Op(c) \in {"create_project", "read_project", "create", "archive", "read", "history",
                 "revise", "exact"}
  BY <1>1, RequestShape DEF Op
<1>5. CASE Op(c) \in {"create_project", "read_project", "read", "history", "exact"}
  <2>1. db'.aggregate = db.aggregate /\ db'.revisions = db.revisions
    BY <1>1, <1>5 DEF Wrote, Op, ProjectAdded
  <2>2. UNCHANGED Recorded
    BY <2>1 DEF Recorded, BodyOf, RevisionsOf
  <2>3. UNCHANGED ArchivedBricks
    BY <2>1 DEF ArchivedBricks
  <2> QED
    BY <2>2, <2>3
<1>6. CASE Op(c) \in {"create", "revise"}
  <2>1. b \in Bricks
    BY <1>1, <1>6, RequestShape DEF Op
  <2>2. PICK k \in Nat : k = db.aggregate[b].current_revision
    BY <1>1, <2>1, AggregateShape
  <2>3. /\ db.aggregate[b].status \in {"absent", "active"} /\ db'.aggregate[b].status = "active"
        /\ db'.aggregate[b].current_revision = k + 1
        /\ \A other \in Bricks \ {b} : db'.aggregate[other] = db.aggregate[other]
        /\ db'.revisions = db.revisions \union {Row(b, k + 1, c)}
        /\ Op(c) = "create" <=> k = 0
    <3>1. CASE Op(c) = "create"
      <4>1. k = 0 /\ k + 1 = 1
        BY <1>1, <2>1, <2>2, <3>1 DEF Wrote, Op, Whole
      <4> QED
        BY <1>1, <3>1, <4>1 DEF Wrote, Op, BrickWritten
    <3>2. CASE Op(c) = "revise"
      <4>1. k = Request(c).revision /\ k # 0
        BY <1>1, <2>1, <2>2, <3>2 DEF Wrote, Op, Whole
      <4> QED
        BY <1>1, <3>2, <4>1 DEF Wrote, Op, BrickWritten
    <3> QED
      BY <1>6, <3>1, <3>2
  <2>4. Recorded'[b] = Append(Recorded[b], c)
    BY <1>1, <1>2, <1>3, <2>1, <2>2, <2>3, OneBodyMore
  <2>5. \A other \in Bricks \ {b} : Recorded'[other] = Recorded[other]
    BY <1>1, <1>2, <1>3, <2>3, SameLength
  <2>6. Recorded' = [Recorded EXCEPT ![b] = Append(Recorded[b], c)]
    BY <2>1, <2>4, <2>5, OneBrick
  <2>7. UNCHANGED ArchivedBricks /\ b \notin ArchivedBricks
    <3>1. \A other \in Bricks :
            db'.aggregate[other].status = "archived" <=> db.aggregate[other].status = "archived"
      BY <2>1, <2>3
    <3> QED
      BY <2>3, <3>1 DEF ArchivedBricks
  <2>8. Recorded[b] = <<>> <=> k = 0
    BY <1>1, <2>1, <2>2, RecordedTyped DEF RecordedType
  <2>9. c \in Bodies
    BY DEF Bodies
  <2>name. PICK t \in Bricks : t = b
    BY <2>1
  <2> HIDE DEF b
  <2>10. CASE Op(c) = "create"
    <3>1. PICK old : old = Recorded[b]
      OBVIOUS
    <3>2. old = <<>>
      BY <2>3, <2>8, <2>10, <3>1
    <3>3. Append(old, c) = <<c>>
      BY <3>2
    <3>4. Recorded[b] = <<>> /\ Append(Recorded[b], c) = <<c>>
      BY <3>1, <3>2, <3>3
    <3>5. History!Create(t, c)
      BY <2>name, <2>6, <2>7, <3>4 DEF History!Create, History!Exists, Recorded, ArchivedBricks
    <3> QED
      BY <2>9, <3>5
  <2>11. CASE Op(c) = "revise"
    <3>1. Recorded[b] # <<>>
      BY <2>3, <2>8, <2>11
    <3>2. History!Revise(t, c)
      BY <2>name, <2>6, <2>7, <3>1 DEF History!Revise, History!Exists, Recorded, ArchivedBricks
    <3> QED
      BY <2>9, <3>2
  <2> QED
    BY <1>6, <2>10, <2>11
<1>7. CASE Op(c) = "archive"
  <2>1. b \in Bricks
    BY <1>1, <1>7, RequestShape DEF Op
  <2>2. /\ db.aggregate[b].status # "absent" /\ db'.aggregate[b].status = "archived"
        /\ db'.aggregate[b].current_revision = db.aggregate[b].current_revision
        /\ \A other \in Bricks \ {b} : db'.aggregate[other] = db.aggregate[other]
    BY <1>1, <1>7 DEF Wrote, Op, BrickWritten
  <2>3. UNCHANGED Recorded
    <3>1. \A other \in Bricks : Recorded'[other] = Recorded[other]
      BY <1>1, <1>2, <1>3, <2>1, <2>2, SameLength
    <3>2. /\ Recorded = [other \in Bricks |-> Recorded[other]]
          /\ Recorded' = [other \in Bricks |-> Recorded'[other]]
      BY DEF Recorded
    <3> HIDE DEF Recorded
    <3> QED
      BY <3>1, <3>2
  <2>4. ArchivedBricks' = ArchivedBricks \union {b}
    BY <2>1, <2>2 DEF ArchivedBricks
  <2>5. Recorded[b] # <<>>
    BY <1>1, <2>1, <2>2, RecordedTyped DEF RecordedType, Whole
  <2>6. PICK archived \in Bricks : archived = b
    BY <2>1
  <2> HIDE DEF b
  <2>7. History!Archive(archived)
    BY <2>3, <2>4, <2>5, <2>6 DEF History!Archive, History!Exists, Recorded, ArchivedBricks
  <2> QED
    BY <2>7
<1> QED
  BY <1>4, <1>5, <1>6, <1>7

LEMMA HistoryStep ==
    ASSUME StoreInv, StoreInv', [Next]_vars
    PROVE  \/ UNCHANGED <<Recorded, ArchivedBricks>>
           \/ \E b \in Bricks : History!Archive(b)
                                \/ \E body \in Bodies : History!Create(b, body) \/ History!Revise(b, body)
<1>1. CASE db' = db
  BY <1>1 DEF Recorded, ArchivedBricks, BodyOf, RevisionsOf
<1>2. ASSUME NEW c \in Calls, Step(c)
      PROVE  db' = db \/ Commits(c)
  <2>1. Shape(c)
    BY <1>2, StepShapes DEF StoreInv, LockInv, ContentInv
  <2> QED
    BY <2>1 DEF Shape, Works, Declines, Begins, RollsBack, Returns, Closes, Releases
<1>3. ASSUME NEW c \in Calls, Call(c) PROVE db' = db
  BY <1>3 DEF Call
<1>4. ASSUME NEW o \in Openers, Open(o) PROVE db' = db
  BY <1>4 DEF Open
<1>5. ASSUME NEW p \in Processes, Crash(p) PROVE db' = db
  BY <1>5 DEF Crash
<1>6. UNCHANGED vars => db' = db
  BY DEF vars
<1> QED
  BY <1>1, <1>2, <1>3, <1>4, <1>5, <1>6, CommitStep DEF Next

\* The committed contents are a history that only grows, one whole revision at a time,
\* whatever the processes, their failing statements and their crashes do.
THEOREM HistoryImplemented == Spec => ImplementsHistory
<1>1. Init => History!Init
  <2> SUFFICES ASSUME Init
               PROVE  History!Init
    OBVIOUS
  <2>1. db \in Databases /\ Whole(db)
    BY FoundWhole DEF Init
  <2>2. RecordedType
    BY <2>1, RecordedTyped
  <2>3. ArchivedBricks \subseteq {b \in Bricks : Recorded[b] # <<>>}
    BY <2>1, <2>2 DEF ArchivedBricks, RecordedType, Whole
  <2> QED
    BY <2>2, <2>3 DEF RecordedType, History!Init, History!Exists, Recorded, ArchivedBricks
<1>2. StoreInv /\ StoreInv' /\ [Next]_vars => [History!Next]_(History!vars)
  <2> SUFFICES ASSUME StoreInv, StoreInv', [Next]_vars
               PROVE  [History!Next]_(History!vars)
    OBVIOUS
  <2>1. UNCHANGED <<Recorded, ArchivedBricks>> => UNCHANGED History!vars
    BY DEF History!vars, Recorded, ArchivedBricks
  <2> QED
    BY <2>1, HistoryStep DEF History!Next
<1> QED
  BY <1>1, <1>2, StoreInvariant, PTL DEF Spec, ImplementsHistory, History!Spec

==============================================================================
