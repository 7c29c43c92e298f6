----------------------------- MODULE ActorTemplate -----------------------------
(***************************************************************************)
(* The actor template application: templates are validated against the     *)
(* definition bricks they reference, written as immutable revisions, and   *)
(* compiled into snapshots.                                                *)
(*                                                                         *)
(* A validation reads its bricks one by one, each in a unit of work of the *)
(* project, and outside the actor's own unit of work; only a compilation   *)
(* validates inside it.  The bricks change meanwhile.  The actor's unit of *)
(* work is a port: it is taken to be exclusive and atomic, as the one that *)
(* the project module implements (ProjectStore).                           *)
(***************************************************************************)
EXTENDS Integers, Sequences, FiniteSets

CONSTANTS
    Calls,          \* by number
    RequestsOf,     \* what each call may ask
    Templates,
    Bricks,
    KindOf,         \* the kind of each brick
    Specs,          \* what may be authored: sequences of descriptors
    Changing,       \* bound: the bricks that change; the others have one revision,
    LongArchived,   \* and some of them have been archived before any call
    MaxRevisions    \* bound: the revisions of a brick

None == "none"
Nobody == 0
Kinds == {"sys_prompt", "prompt", "backend", "toolset", "runtime_config"}

VARIABLES
    stored,         \* of each brick: its status and the contents of its revisions
    template,       \* of each template: its status and its revisions
    reserved,       \* the template names the namespace of the project has given out
    snapshots,      \* the snapshots saved
    turn,           \* the call whose unit of work has begun and not ended
    call            \* of each call: what it asks, what it has resolved, its answer

vars == <<stored, template, reserved, snapshots, turn, call>>

\* What the store shows of a revision: what was authored, something else that is
\* consistent in itself (another uid, body and digest), or something it rejects.
Contents == {"authored", "rewritten", "corrupt"}
Unresolved == "issue"

References == [brick : Bricks, revision : Nat \ {0}]
Descriptors == [kind : Kinds, ref : References]

Requests ==
    [op : {"validate", "create"}, template : Templates, spec : Specs]
    \union [op : {"revise"}, template : Templates, spec : Specs, base : Nat \ {0}]
    \union [op : {"archive"}, template : Templates, expected : Nat]
    \union [op : {"read", "compile"}, template : Templates, revision : Nat \ {0}]

ASSUME ConstantsOK ==
    /\ Calls \subseteq Nat \ {Nobody}
    /\ KindOf \in [Bricks -> Kinds]
    /\ Specs \subseteq Seq(Descriptors)
    /\ Changing \subseteq Bricks /\ LongArchived \subseteq Bricks \ Changing
    /\ MaxRevisions \in Nat \ {0}
    /\ \A c \in Calls : RequestsOf[c] \subseteq Requests

Nothing == [op |-> None]
Answer(code, n) == [code |-> code, revision |-> n]
Unanswered == Answer(None, 0)

Current(t) == Len(template[t].revisions)
Exists(t) == Current(t) > 0

------------------------------------------------------------------------------
(* The definition bricks, as the project module commits them. *)

CreateBrick(b) ==
    /\ stored[b].contents = <<>>
    /\ stored' = [stored EXCEPT ![b].contents = <<"authored">>]
    /\ UNCHANGED <<template, reserved, snapshots, turn, call>>

ReviseBrick(b) ==
    /\ Len(stored[b].contents) \in 1..(MaxRevisions - 1)
    /\ stored[b].status = "active"
    /\ stored' = [stored EXCEPT ![b].contents = Append(@, "authored")]
    /\ UNCHANGED <<template, reserved, snapshots, turn, call>>

ArchiveBrick(b) ==
    /\ stored[b].contents # <<>>
    /\ stored' = [stored EXCEPT ![b].status = "archived"]
    /\ UNCHANGED <<template, reserved, snapshots, turn, call>>

\* The database is damaged, or replaced by another one; each revision once.
Damage(b) ==
    /\ \E n \in DOMAIN stored[b].contents, x \in {"rewritten", "corrupt"} :
         /\ stored[b].contents[n] = "authored"
         /\ stored' = [stored EXCEPT ![b].contents[n] = x]
    /\ UNCHANGED <<template, reserved, snapshots, turn, call>>

------------------------------------------------------------------------------
(* Validation *)

Becomes(c, phase) == call' = [call EXCEPT ![c].phase = phase]
Answers(c, answer) ==
    call' = [call EXCEPT ![c] = [@ EXCEPT !.phase = "answered", !.found = <<>>, !.answer = answer]]

PassesTurn(c) == turn' = IF turn = c THEN Nobody ELSE turn

Request(c) == call[c].request
Compiles(c) == Request(c).op = "compile"

\* A compilation validates what its revision has authored.
Compiled(c) == template[Request(c).template].revisions[Request(c).revision]
SpecOf(c) == IF Compiles(c) THEN Compiled(c).spec ELSE Request(c).spec

Validating(c) == call[c].phase = "validating"
Unread(c) == Validating(c) /\ Len(call[c].found) < Len(SpecOf(c))

Descriptor(c) == SpecOf(c)[Len(call[c].found) + 1]

Found(ref) == ref.revision \in DOMAIN stored[ref.brick].contents
ContentOf(ref) == stored[ref.brick].contents[ref.revision]
Rejected(ref) == Found(ref) /\ ContentOf(ref) = "corrupt"

\* The content that fits a slot; where there is none, or of another kind, an issue.
Resolution(descriptor) ==
    IF Found(descriptor.ref) /\ KindOf[descriptor.ref.brick] = descriptor.kind
    THEN ContentOf(descriptor.ref) ELSE Unresolved

\* Faulty variant: any content of the right kind will do.
HasAnyProvenance(c) == TRUE

\* The persisted provenance a compilation insists on.
HasProvenance(c) ==
    Compiles(c) => Resolution(Descriptor(c)) \in
                     {Unresolved, Compiled(c).resolved[Len(call[c].found) + 1]}

\* resolveExact, and what is made of its result.
Resolves(c) ==
    /\ Unread(c)
    /\ ~Rejected(Descriptor(c).ref) /\ HasProvenance(c)
    /\ call' = [call EXCEPT ![c].found = Append(@, Resolution(Descriptor(c)))]
    /\ UNCHANGED <<stored, template, reserved, snapshots, turn>>

\* The store fails or rejects the revision, or the workspace cannot be read: no
\* issue of the candidate.  (A store may fail to answer whatever it holds.)
ValidationThrows(c) ==
    /\ Validating(c)
    /\ Answers(c, Answer("operation_failed", 0))
    /\ PassesTurn(c)
    /\ UNCHANGED <<stored, template, reserved, snapshots>>

IsPrompt(descriptor) == descriptor.kind \in {"sys_prompt", "prompt"}
DuplicatePrompt(spec) ==
    \E i, j \in DOMAIN spec : i # j /\ spec[i] = spec[j] /\ IsPrompt(spec[i])

CandidateValid(c) ==
    /\ ~DuplicatePrompt(SpecOf(c))
    /\ \A i \in DOMAIN call[c].found : call[c].found[i] # Unresolved

\* The report.  The adapters, tool providers, their compatibility and the workspace
\* may find something in any candidate.
Validates(c) ==
    LET op == Request(c).op IN
    /\ Validating(c) /\ ~Unread(c)
    /\ \E accepted \in BOOLEAN :
         LET valid == accepted /\ CandidateValid(c) IN
         \/ /\ op = "validate"
            /\ Answers(c, Answer(IF valid THEN "valid" ELSE "invalid", 0))
            /\ UNCHANGED turn
         \/ /\ op # "validate" /\ ~valid
            /\ Answers(c, Answer("validation_failed", 0))
            /\ PassesTurn(c)
         \/ /\ op # "validate" /\ valid
            /\ Becomes(c, "validated")
            /\ UNCHANGED turn
    /\ UNCHANGED <<stored, template, reserved, snapshots>>

------------------------------------------------------------------------------
(* The calls. *)

Call(c) ==
    /\ call[c].phase = "none"
    /\ \E request \in RequestsOf[c] :
         call' = [call EXCEPT ![c].request = request,
                              ![c].phase = IF request.op \in {"validate", "create", "revise"}
                                           THEN "validating" ELSE "queued"]
    /\ UNCHANGED <<stored, template, reserved, snapshots, turn>>

\* Whether a unit of work of a call in a phase may be run now, at once.
Runs(c, op, phase) == Request(c).op = op /\ call[c].phase = phase /\ turn = Nobody

\* A unit of work that may not write is an error, and otherwise writes and answers.
Ends(c, error, t, written, answer) ==
    /\ IF error # None
       THEN Answers(c, Answer(error, 0)) /\ UNCHANGED template
       ELSE Answers(c, answer) /\ template' = [template EXCEPT ![t] = written]
    /\ UNCHANGED <<stored, reserved, snapshots, turn>>

RevisionView(c) == [author |-> c, spec |-> SpecOf(c), resolved |-> call[c].found]

\* A creation reserves the name of its template first, in the unit of work that
\* then creates it.
Reserve(c) ==
    LET t == Request(c).template IN
    /\ Runs(c, "create", "validated")
    /\ IF t \in reserved
       THEN Answers(c, Answer("resource_id_conflict", 0)) /\ UNCHANGED <<reserved, turn>>
       ELSE Becomes(c, "reserved") /\ reserved' = reserved \union {t} /\ turn' = c
    /\ UNCHANGED <<stored, template, snapshots>>

Create(c) ==
    LET t == Request(c).template IN
    /\ call[c].phase = "reserved" /\ ~Exists(t)
    /\ template' = [template EXCEPT ![t] = [status |-> "active",
                                           revisions |-> <<RevisionView(c)>>]]
    /\ Answers(c, Answer("created", 1))
    /\ PassesTurn(c)
    /\ UNCHANGED <<stored, reserved, snapshots>>

\* Faulty variants: an archived template is revised; the base revision is not
\* compared.
ReviseRefusalOfAnyStatus(t, base) ==
    CASE ~Exists(t) -> "not_found"
      [] Exists(t) /\ base # Current(t) -> "base_revision_conflict"
      [] OTHER -> None
ReviseRefusalOfAnyBase(t, base) ==
    CASE ~Exists(t) -> "not_found"
      [] Exists(t) /\ template[t].status = "archived" -> "archived"
      [] OTHER -> None

ReviseRefusal(t, base) ==
    CASE ~Exists(t) -> "not_found"
      [] Exists(t) /\ template[t].status = "archived" -> "archived"
      [] Exists(t) /\ template[t].status = "active" /\ base # Current(t) -> "base_revision_conflict"
      [] OTHER -> None

Revise(c) ==
    LET t == Request(c).template IN
    /\ Runs(c, "revise", "validated")
    /\ Ends(c, ReviseRefusal(t, Request(c).base),
            t, [template[t] EXCEPT !.revisions = Append(@, RevisionView(c))],
            Answer("revised", Current(t) + 1))

\* An archived template is archived again whatever revision is expected; 0 expects
\* the current one.
Archive(c) ==
    LET t == Request(c).template IN
    /\ Runs(c, "archive", "queued")
    /\ Ends(c, CASE ~Exists(t) -> "not_found"
                 [] template[t].status = "active" /\ Request(c).expected \notin {0, Current(t)}
                      -> "base_revision_conflict"
                 [] OTHER -> None,
            t, [template[t] EXCEPT !.status = "archived"], Answer("archived", Current(t)))

\* (A list or a history is read as a revision is.)
Read(c) ==
    LET t == Request(c).template IN
    /\ Runs(c, "read", "queued")
    /\ Ends(c, IF Request(c).revision <= Current(t) THEN None ELSE "not_found",
            t, template[t], Answer("read", Request(c).revision))

\* A compilation keeps its unit of work while it validates.
BeginCompilation(c) ==
    /\ Runs(c, "compile", "queued")
    /\ IF Request(c).revision <= Current(Request(c).template)
       THEN turn' = c /\ Becomes(c, "validating")
       ELSE Answers(c, Answer("not_found", 0)) /\ UNCHANGED turn
    /\ UNCHANGED <<stored, template, reserved, snapshots>>

Snapshot(c) ==
    [by |-> c, template |-> Request(c).template, revision |-> Request(c).revision,
     source_bricks |-> call[c].found]

SaveSnapshot(c) ==
    /\ Compiles(c) /\ call[c].phase = "validated"
    /\ snapshots' = snapshots \union {Snapshot(c)}
    /\ Answers(c, Answer("compiled", Request(c).revision))
    /\ PassesTurn(c)
    /\ UNCHANGED <<stored, template, reserved>>

\* Faulty variant: a creation that fails keeps its name.
OperationFailsReserved(c) ==
    /\ call[c].phase \in {"queued", "validated", "reserved"}
    /\ turn \in {Nobody, c}
    /\ Answers(c, Answer("operation_failed", 0))
    /\ PassesTurn(c)
    /\ UNCHANGED <<stored, template, reserved, snapshots>>

\* A unit of work fails: nothing it wrote is kept.
OperationFails(c) ==
    /\ call[c].phase \in {"queued", "validated", "reserved"}
    /\ turn \in {Nobody, c}
    /\ Answers(c, Answer("operation_failed", 0))
    /\ PassesTurn(c)
    /\ reserved' = IF call[c].phase = "reserved" THEN reserved \ {Request(c).template}
                   ELSE reserved
    /\ UNCHANGED <<stored, template, snapshots>>

------------------------------------------------------------------------------

Init ==
    /\ stored = [b \in Bricks |->
                   [status |-> IF b \in LongArchived THEN "archived" ELSE "active",
                    contents |-> IF b \in Changing THEN <<>> ELSE <<"authored">>]]
    /\ template = [t \in Templates |-> [status |-> "active", revisions |-> <<>>]]
    /\ reserved = {}
    /\ snapshots = {}
    /\ turn = Nobody
    /\ call = [c \in Calls |-> [phase |-> "none", request |-> Nothing, found |-> <<>>,
                                answer |-> Unanswered]]

Step(c) ==
    \/ Resolves(c) \/ ValidationThrows(c) \/ Validates(c)
    \/ Reserve(c) \/ Create(c) \/ Revise(c) \/ Archive(c) \/ Read(c)
    \/ BeginCompilation(c) \/ SaveSnapshot(c) \/ OperationFails(c)

BrickStep(b) == CreateBrick(b) \/ ReviseBrick(b) \/ ArchiveBrick(b) \/ Damage(b)

Next ==
    \/ \E c \in Calls : Call(c) \/ Step(c)
    \/ \E b \in Changing : BrickStep(b)

Spec == Init /\ [][Next]_vars

------------------------------------------------------------------------------
(* Properties. *)

\* Between units of work a name is given out exactly when its template exists,
\* although the two are written by two calls of a port each of which may fail
\* (application.ts:372-393): a failed creation can be tried again.
NamesMatchTemplates ==
    \A t \in Templates :
        (t \in reserved /\ ~\E c \in Calls : call[c].phase = "reserved"
                                               /\ Request(c).template = t) <=> Exists(t)

\* A snapshot is built of exactly the contents its template revision was authored
\* with, slot by slot, however the bricks were revised, archived, damaged or replaced
\* in between; and a template revision has resolved every one of its references.
SnapshotProvenance ==
    /\ \A t \in Templates : \A n \in 1..Current(t) :
         LET revision == template[t].revisions[n] IN
         /\ Len(revision.resolved) = Len(revision.spec)
         /\ \A i \in DOMAIN revision.spec :
              Found(revision.spec[i].ref) /\ revision.resolved[i] # Unresolved
    /\ \A s \in snapshots :
         /\ s.revision <= Current(s.template)
         /\ s.source_bricks = template[s.template].revisions[s.revision].resolved

\* A call that was told of success has left its revision next to the one it was
\* based on, or its snapshot; any other call has left nothing.
AnswersTruthful ==
    \A c \in Calls :
        LET request == Request(c)
            code == call[c].answer.code
            written == [t \in Templates |->
                          {n \in 1..Current(t) : template[t].revisions[n].author = c}]
        IN  /\ \A t \in Templates :
                 written[t] = IF code = "created" /\ t = request.template THEN {1}
                              ELSE IF code = "revised" /\ t = request.template
                              THEN {request.base + 1} ELSE {}
            /\ code = "compiled" <=> \E s \in snapshots : s.by = c
            /\ code = "archived" => template[request.template].status = "archived"

\* Templates keep the promise the bricks keep: a history of immutable revisions
\* that grows at its end until it is archived.
Histories == INSTANCE BrickHistory WITH
    Bricks <- Templates,
    Bodies <- Calls,
    history <- [t \in Templates |-> [n \in 1..Current(t) |-> template[t].revisions[n].author]],
    archived <- {t \in Templates : template[t].status = "archived"}

ImplementsHistory == Histories!Spec

\* What the accepted specification of the project module says of archived bricks: no
\* new template revision refers to one
\* (project-definition-brick-persistence/spec.md:70-73).
NewReferencesActive ==
    [][\A t \in Templates : Len(template'[t].revisions) > Current(t) =>
         LET revision == template'[t].revisions[Current(t) + 1] IN
         \A i \in DOMAIN revision.spec : stored[revision.spec[i].ref.brick].status = "active"]_vars

==============================================================================
