-------------------------- MODULE ActorTemplateProofs --------------------------
(* Proofs about ActorTemplate, for any number of calls, templates and bricks. *)
EXTENDS ActorTemplate, TLAPS

------------------------------------------------------------------------------
(* The invariant. *)

Statuses == {"active", "archived"}
Phases == {"none", "validating", "queued", "validated", "reserved", "answered"}
Codes == {None, "valid", "invalid", "validation_failed", "operation_failed",
          "resource_id_conflict", "not_found", "base_revision_conflict",
          "created", "revised", "archived", "read", "compiled"}
Results == Contents \union {Unresolved}
Revisions == [author : Calls, spec : Specs, resolved : Seq(Results)]
CallRecords == [phase : Phases, request : Requests \union {Nothing}, found : Seq(Results),
                answer : [code : Codes, revision : Nat]]

\* The types of the variables.
TypeInv ==
    /\ stored \in [Bricks -> [status : Statuses, contents : Seq(Contents)]]
    /\ template \in [Templates -> [status : Statuses, revisions : Seq(Revisions)]]
    /\ snapshots \subseteq [by : Calls, template : Templates, revision : Nat \ {0},
                            source_bricks : Seq(Results)]
    /\ turn \in Calls \union {Nobody}
    /\ call \in [Calls -> CallRecords]

Phase(c) == call[c].phase
Op(c) == Request(c).op

\* What a call asks decides the phases it goes through.
PhasesMatch(c) ==
    /\ Phase(c) # "none" => Request(c) \in Requests
    /\ Phase(c) = "validating" => Op(c) \in {"validate", "create", "revise", "compile"}
    /\ Phase(c) = "queued" => Op(c) \in {"archive", "read", "compile"}
    /\ Phase(c) = "validated" => Op(c) \in {"create", "revise", "compile"}
    /\ Phase(c) = "reserved" => Op(c) = "create"
    /\ Phase(c) # "answered" => call[c].answer.code = None
    /\ Phase(c) \in {"none", "queued"} => call[c].found = <<>>

\* A creation that has reserved its name has its unit of work and no template yet.
ReservesName(c) ==
    Phase(c) = "reserved" =>
        turn = c /\ Request(c).template \in reserved /\ ~Exists(Request(c).template)

\* What a validation has found until now is there, and what a compilation has found
\* is what its revision was authored with.
FoundInStore(c) ==
    Phase(c) \in {"validating", "validated", "reserved"} =>
        /\ Compiles(c) => Request(c).revision <= Current(Request(c).template)
        /\ Len(call[c].found) <= Len(SpecOf(c))
        /\ \A i \in 1..Len(call[c].found) : call[c].found[i] # Unresolved =>
             /\ Found(SpecOf(c)[i].ref)
             /\ Compiles(c) => call[c].found[i] = Compiled(c).resolved[i]

\* A validated candidate was resolved completely.
FoundAll(c) ==
    Phase(c) \in {"validated", "reserved"} =>
        /\ Len(call[c].found) = Len(SpecOf(c))
        /\ \A i \in 1..Len(call[c].found) : call[c].found[i] # Unresolved

FreshIsActive(t) == ~Exists(t) => template[t].status = "active"

TemplateInv ==
    /\ TypeInv
    /\ \A c \in Calls : /\ PhasesMatch(c) /\ ReservesName(c)
                        /\ FoundInStore(c) /\ FoundAll(c)
    /\ \A t \in Templates : FreshIsActive(t)
    /\ NamesMatchTemplates
    /\ SnapshotProvenance
    /\ AnswersTruthful

------------------------------------------------------------------------------
(* What is asked, and what a step makes of a call. *)

LEMMA RequestShape ==
    ASSUME NEW request \in Requests
    PROVE  /\ request.template \in Templates
           /\ request.op \in {"validate", "create", "revise", "archive", "read", "compile"}
           /\ request.op \in {"validate", "create", "revise"} => request.spec \in Specs
           /\ request.op = "revise" => request.base \in Nat \ {0}
           /\ request.op \in {"read", "compile"} => request.revision \in Nat \ {0}
  BY DEF Requests

LEMMA SpecShape ==
    ASSUME NEW spec \in Specs, NEW i \in 1..Len(spec)
    PROVE  spec \in Seq(Descriptors) /\ spec[i].ref.brick \in Bricks
           /\ spec[i].ref.revision \in Nat \ {0}
<1>1. spec \in Seq(Descriptors)
  BY ConstantsOK
<1>2. spec[i] \in Descriptors
  BY <1>1
<1> QED
  BY <1>1, <1>2 DEF Descriptors, References

\* The call of a step goes to a phase and asks what it asked; no other call is
\* touched.
Goes(c, phase) ==
    /\ call' \in [Calls -> CallRecords]
    /\ Phase(c)' = phase /\ Request(c)' = Request(c)
    /\ \A d \in Calls \ {c} : call'[d] = call[d]

Answered(c, code) ==
    Goes(c, "answered") /\ call[c].answer.code' = code

Proceeds(c, phase) ==
    /\ Goes(c, phase)
    /\ call[c].found' = call[c].found /\ call[c].answer.code' = call[c].answer.code

LEMMA Answering ==
    ASSUME NEW c \in Calls, NEW code \in Codes, NEW n \in Nat,
           call \in [Calls -> CallRecords], Answers(c, Answer(code, n))
    PROVE  Answered(c, code)
<1> DEFINE r == [call[c] EXCEPT !.phase = "answered", !.found = <<>>, !.answer = Answer(code, n)]
<1>1. call[c] \in CallRecords
  OBVIOUS
<1>2. Answer(code, n) \in [code : Codes, revision : Nat] /\ Answer(code, n).code = code
  BY DEF Answer
<1>3. <<>> \in Seq(Results)
  OBVIOUS
<1>4. /\ r \in CallRecords
      /\ r.phase = "answered" /\ r.request = call[c].request /\ r.answer = Answer(code, n)
  BY <1>1, <1>2, <1>3 DEF CallRecords, Phases
<1>5. call' = [call EXCEPT ![c] = r]
  BY DEF Answers
<1> QED
  BY <1>2, <1>4, <1>5 DEF Answered, Goes, Phase, Request

LEMMA Becoming ==
    ASSUME NEW c \in Calls, NEW phase \in Phases,
           call \in [Calls -> CallRecords], Becomes(c, phase)
    PROVE  Proceeds(c, phase)
<1> DEFINE r == [call[c] EXCEPT !.phase = phase]
<1>1. call[c] \in CallRecords
  OBVIOUS
<1>2. /\ r \in CallRecords /\ r.phase = phase /\ r.request = call[c].request
      /\ r.found = call[c].found /\ r.answer = call[c].answer
  BY <1>1 DEF CallRecords
<1>3. call' = [call EXCEPT ![c] = r]
  BY DEF Becomes
<1> QED
  BY <1>2, <1>3 DEF Proceeds, Goes, Phase, Request

LEMMA Finding ==
    ASSUME NEW c \in Calls, NEW result \in Results, call \in [Calls -> CallRecords],
           call' = [call EXCEPT ![c].found = Append(@, result)]
    PROVE  /\ Goes(c, Phase(c))
           /\ call[c].answer.code' = call[c].answer.code
           /\ call[c].found' = Append(call[c].found, result)
<1> DEFINE r == [call[c] EXCEPT !.found = Append(@, result)]
<1>1. call[c] \in CallRecords
  OBVIOUS
<1>2. Append(call[c].found, result) \in Seq(Results)
  BY <1>1 DEF CallRecords
<1>3. /\ r \in CallRecords /\ r.phase = call[c].phase /\ r.request = call[c].request
      /\ r.found = Append(call[c].found, result) /\ r.answer = call[c].answer
  BY <1>1, <1>2 DEF CallRecords
<1>4. call' = [call EXCEPT ![c] = r]
  OBVIOUS
<1> QED
  BY <1>3, <1>4 DEF Goes, Phase, Request

\* The first phase of what is asked.
FirstPhase(request) ==
    IF request.op \in {"validate", "create", "revise"} THEN "validating" ELSE "queued"

LEMMA Asking ==
    ASSUME NEW c \in Calls, TypeInv, Call(c)
    PROVE  \E request \in Requests :
             /\ call' \in [Calls -> CallRecords]
             /\ Phase(c) = "none"
             /\ Request(c)' = request /\ Phase(c)' = FirstPhase(request)
             /\ call[c].found' = call[c].found /\ call[c].answer.code' = call[c].answer.code
             /\ \A d \in Calls \ {c} : call'[d] = call[d]
<1>1. PICK request \in Requests :
          call' = [call EXCEPT ![c].request = request, ![c].phase = FirstPhase(request)]
  BY ConstantsOK DEF Call, FirstPhase
<1> DEFINE r == [call[c] EXCEPT !.request = request, !.phase = FirstPhase(request)]
<1>2. call[c] \in CallRecords /\ FirstPhase(request) \in Phases
  BY DEF TypeInv, FirstPhase, Phases
<1>3. /\ r \in CallRecords /\ r.phase = FirstPhase(request) /\ r.request = request
      /\ r.found = call[c].found /\ r.answer = call[c].answer
  BY <1>2 DEF CallRecords
<1>4. call' = [call EXCEPT ![c] = r]
  BY <1>1
<1>5. Phase(c) = "none"
  BY DEF Call, Phase
<1> QED
  BY <1>3, <1>4, <1>5 DEF Phase, Request, TypeInv

\* The specification a call that is being validated, or was, speaks of.
LEMMA SpecOfShape ==
    ASSUME NEW c \in Calls, TypeInv, PhasesMatch(c), FoundInStore(c),
           Phase(c) \in {"validating", "validated", "reserved"}
    PROVE  /\ Request(c).template \in Templates
           /\ SpecOf(c) \in Specs
           /\ Compiles(c) => /\ Request(c).revision \in 1..Current(Request(c).template)
                             /\ Compiled(c) \in Revisions
<1>1. /\ Request(c) \in Requests
      /\ Op(c) \in {"validate", "create", "revise", "compile"}
  BY DEF PhasesMatch
<1>2. Request(c).template \in Templates
  BY <1>1, RequestShape
<1>3. CASE Compiles(c)
  <2> DEFINE t == Request(c).template
             n == Request(c).revision
  <2>1. n \in Nat \ {0} /\ n <= Current(t)
    BY <1>1, <1>3, RequestShape DEF Compiles, Op, FoundInStore
  <2>2. template[t].revisions \in Seq(Revisions)
    BY <1>2 DEF TypeInv
  <2>3. n \in 1..Current(t)
    BY <2>1, <2>2 DEF Current
  <2>4. template[t].revisions[n] \in Revisions
    BY <2>2, <2>3 DEF Current
  <2>5. Compiled(c).spec \in Specs
    BY <2>4 DEF Compiled, Revisions
  <2> QED
    BY <1>2, <1>3, <2>3, <2>4, <2>5 DEF SpecOf, Compiled
<1>4. CASE ~Compiles(c)
  BY <1>1, <1>2, <1>4, RequestShape DEF SpecOf, Compiles, Op
<1> QED
  BY <1>3, <1>4

\* What is found for a descriptor: the content of the revision it refers to, or none.
LEMMA ResolutionShape ==
    ASSUME NEW spec \in Specs, NEW i \in 1..Len(spec), TypeInv
    PROVE  /\ Resolution(spec[i]) \in Results
           /\ Resolution(spec[i]) # Unresolved => Found(spec[i].ref)
<1> DEFINE ref == spec[i].ref
<1>1. ref.brick \in Bricks
  BY SpecShape
<1>2. stored[ref.brick].contents \in Seq(Contents)
  BY <1>1 DEF TypeInv
<1>3. Found(ref) => ContentOf(ref) \in Contents
  BY <1>2 DEF Found, ContentOf
<1> QED
  BY <1>3 DEF Resolution, Results

------------------------------------------------------------------------------
(* What the steps of a call do, without the conditions they do it under. *)

Handled(c) == Phase(c) \notin {"none", "answered"}

\* Nobody loses a unit of work but the call that ends.
TurnOthers(c) == turn' \in Calls \union {Nobody} /\ (turn = c \/ turn' = turn)

Refusals == Codes \ {None, "created", "revised", "compiled"}

\* ("archived" is what an archived template answers to a revision, too.)
Refuses(c, code) ==
    /\ code \in Refusals
    /\ code = "archived" => /\ Request(c).template \in Templates
                            /\ template[Request(c).template].status = "archived"

\* It answers and leaves nothing, and gives its name back.
Quits(c) ==
    /\ Handled(c) /\ TurnOthers(c)
    /\ \E code \in Codes : Refuses(c, code) /\ Answered(c, code)
    /\ reserved' = IF Phase(c) = "reserved" THEN reserved \ {Request(c).template} ELSE reserved
    /\ UNCHANGED <<stored, template, snapshots>>

Finds(c) ==
    /\ Phase(c) = "validating" /\ Len(call[c].found) < Len(SpecOf(c))
    /\ HasProvenance(c)
    /\ Goes(c, "validating") /\ call[c].answer.code' = call[c].answer.code
    /\ Resolution(Descriptor(c)) \in Results
    /\ call[c].found' = Append(call[c].found, Resolution(Descriptor(c)))
    /\ UNCHANGED <<stored, template, reserved, snapshots, turn>>

Accepts(c) ==
    /\ Validating(c) /\ ~Unread(c) /\ CandidateValid(c) /\ Op(c) # "validate"
    /\ Proceeds(c, "validated")
    /\ UNCHANGED <<stored, template, reserved, snapshots, turn>>

TakesName(c) ==
    /\ Phase(c) = "validated" /\ Op(c) = "create" /\ turn = Nobody
    /\ Request(c).template \notin reserved
    /\ reserved' = reserved \union {Request(c).template}
    /\ turn' = c /\ Proceeds(c, "reserved")
    /\ UNCHANGED <<stored, template, snapshots>>

OpensCompilation(c) ==
    /\ Phase(c) = "queued" /\ Compiles(c) /\ turn = Nobody
    /\ Request(c).revision <= Current(Request(c).template)
    /\ turn' = c /\ Proceeds(c, "validating")
    /\ UNCHANGED <<stored, template, reserved, snapshots>>

WritesTemplate(c, written, code) ==
    /\ template' = [template EXCEPT ![Request(c).template] = written]
    /\ Answered(c, code)
    /\ UNCHANGED <<stored, reserved, snapshots>>

Created(c) ==
    /\ Phase(c) = "reserved" /\ ~Exists(Request(c).template) /\ TurnOthers(c)
    /\ WritesTemplate(c, [status |-> "active", revisions |-> <<RevisionView(c)>>], "created")

Revised(c) ==
    LET t == Request(c).template IN
    /\ Phase(c) = "validated" /\ Op(c) = "revise" /\ turn = Nobody /\ turn' = turn
    /\ Exists(t) /\ template[t].status = "active" /\ Request(c).base = Current(t)
    /\ WritesTemplate(c, [template[t] EXCEPT !.revisions = Append(@, RevisionView(c))], "revised")

ArchivedNow(c) ==
    LET t == Request(c).template IN
    /\ Phase(c) = "queued" /\ Op(c) = "archive" /\ turn = Nobody /\ turn' = turn
    /\ Exists(t)
    /\ WritesTemplate(c, [template[t] EXCEPT !.status = "archived"], "archived")

Saved(c) ==
    /\ Phase(c) = "validated" /\ Compiles(c) /\ TurnOthers(c)
    /\ snapshots' = snapshots \union {Snapshot(c)}
    /\ Answered(c, "compiled")
    /\ UNCHANGED <<stored, template, reserved>>

Shape(c) ==
    \/ Quits(c) \/ Accepts(c) \/ Finds(c) \/ TakesName(c) \/ OpensCompilation(c)
    \/ Created(c) \/ Revised(c) \/ ArchivedNow(c) \/ Saved(c)

LEMMA Quitting ==
    ASSUME NEW c \in Calls, NEW code \in Refusals, NEW n \in Nat, TypeInv, Refuses(c, code),
           Answers(c, Answer(code, n)), Handled(c), Phase(c) # "reserved",
           PassesTurn(c) \/ UNCHANGED turn, UNCHANGED <<stored, template, reserved, snapshots>>
    PROVE  Quits(c)
<1>1. code \in Codes /\ call \in [Calls -> CallRecords]
  BY DEF Refusals, TypeInv
<1>2. Answered(c, code)
  BY <1>1, Answering
<1>3. TurnOthers(c)
  BY DEF PassesTurn, TurnOthers, TypeInv
<1> QED
  BY <1>1, <1>2, <1>3 DEF Quits

LEMMA StepShapes ==
    ASSUME NEW c \in Calls, TypeInv, PhasesMatch(c), FoundInStore(c), Step(c)
    PROVE  Shape(c)
<1> USE DEF Phase, Op
<1>typed. call \in [Calls -> CallRecords] /\ turn \in Calls \union {Nobody}
  BY DEF TypeInv
<1>asked. Phase(c) # "none" => Request(c) \in Requests
  BY DEF PhasesMatch
<1>turns. PassesTurn(c) => TurnOthers(c)
  BY <1>typed DEF PassesTurn, TurnOthers
<1>codes. /\ {"valid", "invalid", "validation_failed", "operation_failed", "not_found", "read",
              "resource_id_conflict", "base_revision_conflict"}
               \subseteq {code \in Refusals : Refuses(c, code)}
          /\ {"created", "revised", "archived", "compiled"} \subseteq Codes
  BY DEF Refusals, Refuses, Codes, None
<1>1. CASE Resolves(c)
  <2> DEFINE i == Len(call[c].found) + 1
  <2>1. Phase(c) = "validating" /\ Len(call[c].found) < Len(SpecOf(c))
    BY <1>1 DEF Resolves, Unread, Validating
  <2>2. SpecOf(c) \in Specs
    BY <2>1, SpecOfShape
  <2>3. i \in 1..Len(SpecOf(c))
    <3>1. call[c].found \in Seq(Results)
      BY <1>typed DEF CallRecords
    <3>2. SpecOf(c) \in Seq(Descriptors)
      BY <2>2, ConstantsOK
    <3> QED
      BY <2>1, <3>1, <3>2
  <2>4. Resolution(Descriptor(c)) \in Results
    BY <2>2, <2>3, ResolutionShape DEF Descriptor
  <2>5. call' = [call EXCEPT ![c].found = Append(@, Resolution(Descriptor(c)))]
        /\ HasProvenance(c) /\ UNCHANGED <<stored, template, reserved, snapshots, turn>>
    BY <1>1 DEF Resolves
  <2>6. /\ Goes(c, Phase(c)) /\ call[c].answer.code' = call[c].answer.code
        /\ call[c].found' = Append(call[c].found, Resolution(Descriptor(c)))
    BY <2>4, <2>5, <1>typed, Finding
  <2> QED
    BY <2>1, <2>4, <2>5, <2>6 DEF Finds, Shape
<1>2. CASE ValidationThrows(c)
  <2>1. Handled(c) /\ Phase(c) # "reserved" /\ Answers(c, Answer("operation_failed", 0))
    BY <1>2 DEF ValidationThrows, Validating, Handled
  <2>2. PassesTurn(c) /\ UNCHANGED <<stored, template, reserved, snapshots>>
    BY <1>2 DEF ValidationThrows
  <2> QED
    BY <2>1, <2>2, <1>codes, Quitting DEF Shape
<1>3. CASE Validates(c)
  <2>1. Validating(c) /\ ~Unread(c) /\ Handled(c) /\ Phase(c) # "reserved"
        /\ UNCHANGED <<stored, template, reserved, snapshots>>
    BY <1>3 DEF Validates, Validating, Handled
  <2>2. CASE Answers(c, Answer("valid", 0)) /\ UNCHANGED turn
    BY <2>1, <2>2, <1>codes, Quitting DEF Shape
  <2>3. CASE Answers(c, Answer("invalid", 0)) /\ UNCHANGED turn
    BY <2>1, <2>3, <1>codes, Quitting DEF Shape
  <2>4. CASE Answers(c, Answer("validation_failed", 0)) /\ PassesTurn(c)
    BY <2>1, <2>4, <1>codes, Quitting DEF Shape
  <2>5. CASE Op(c) # "validate" /\ CandidateValid(c) /\ Becomes(c, "validated") /\ UNCHANGED turn
    <3>1. Proceeds(c, "validated")
      BY <2>5, <1>typed, Becoming DEF Phases
    <3> QED
      BY <2>1, <2>5, <3>1 DEF Accepts, Shape
  <2>6. PICK accepted \in BOOLEAN :
           \/ Answers(c, Answer(IF accepted /\ CandidateValid(c) THEN "valid" ELSE "invalid", 0))
              /\ UNCHANGED turn
           \/ Answers(c, Answer("validation_failed", 0)) /\ PassesTurn(c)
           \/ Op(c) # "validate" /\ CandidateValid(c) /\ Becomes(c, "validated") /\ UNCHANGED turn
    BY <1>3 DEF Validates
  <2> QED
    BY <2>2, <2>3, <2>4, <2>5, <2>6
<1>4. CASE Reserve(c)
  <2>1. /\ Phase(c) = "validated" /\ Op(c) = "create" /\ turn = Nobody
        /\ UNCHANGED <<stored, template, snapshots>>
    BY <1>4 DEF Reserve, Runs
  <2>2. CASE Request(c).template \in reserved
    <3>1. Answers(c, Answer("resource_id_conflict", 0)) /\ UNCHANGED <<reserved, turn>>
      BY <1>4, <2>2 DEF Reserve
    <3> QED
      BY <2>1, <3>1, <1>codes, Quitting DEF Shape, Handled
  <2>3. CASE Request(c).template \notin reserved
    <3>1. Becomes(c, "reserved") /\ reserved' = reserved \union {Request(c).template} /\ turn' = c
      BY <1>4, <2>3 DEF Reserve
    <3>2. Proceeds(c, "reserved")
      BY <3>1, <1>typed, Becoming DEF Phases
    <3> QED
      BY <2>1, <2>3, <3>1, <3>2 DEF TakesName, Shape
  <2> QED
    BY <2>2, <2>3
<1>5. CASE Create(c)
  <2>1. Answered(c, "created")
    BY <1>5, <1>typed, <1>codes, Answering DEF Create
  <2> QED
    BY <1>5, <2>1, <1>turns DEF Create, Created, WritesTemplate, Shape
<1>6. CASE Revise(c)
  <2> DEFINE t == Request(c).template
             error == ReviseRefusal(t, Request(c).base)
  <2>1. /\ Phase(c) = "validated" /\ Op(c) = "revise" /\ turn = Nobody
        /\ UNCHANGED <<stored, reserved, snapshots, turn>>
    BY <1>6 DEF Revise, Runs, Ends
  <2>2. CASE error # None
    <3>1. error \in Refusals /\ Refuses(c, error)
      <4>1. Request(c).template \in Templates
        BY <2>1, <1>asked, RequestShape
      <4>2. "archived" \in Refusals
        BY DEF Refusals, Codes, None
      <4>3. CASE error # "archived"
        BY <2>2, <4>3, <1>codes DEF ReviseRefusal
      <4>4. CASE error = "archived"
        <5>1. template[t].status = "archived"
          BY <4>4 DEF ReviseRefusal, None
        <5> QED
          BY <4>1, <4>2, <4>4, <5>1 DEF Refuses
      <4> QED
        BY <4>3, <4>4
    <3>2. Answers(c, Answer(error, 0)) /\ UNCHANGED template
      BY <1>6, <2>2 DEF Revise, Ends
    <3> QED
      BY <2>1, <3>1, <3>2, Quitting DEF Shape, Handled
  <2>3. CASE error = None
    <3>1. /\ Answers(c, Answer("revised", Current(t) + 1))
          /\ template' = [template EXCEPT
                ![t] = [template[t] EXCEPT !.revisions = Append(@, RevisionView(c))]]
      BY <1>6, <2>3 DEF Revise, Ends
    <3>2. t \in Templates
      BY <2>1, <1>asked, RequestShape
    <3>3. Current(t) \in Nat /\ template[t].status \in Statuses
      BY <3>2 DEF Current, TypeInv
    <3>4. Exists(t) /\ template[t].status = "active" /\ Request(c).base = Current(t)
      BY <2>3, <3>3 DEF ReviseRefusal, Statuses, None
    <3>5. Answered(c, "revised")
      BY <3>1, <3>3, <1>typed, <1>codes, Answering
    <3> QED
      BY <2>1, <3>1, <3>4, <3>5 DEF Revised, WritesTemplate, Shape
  <2> QED
    BY <2>2, <2>3
<1>7. CASE Archive(c)
  <2> DEFINE t == Request(c).template
             error == CASE ~Exists(t) -> "not_found"
                        [] template[t].status = "active" /\ Request(c).expected \notin {0, Current(t)}
                             -> "base_revision_conflict"
                        [] OTHER -> None
  <2>1. /\ Phase(c) = "queued" /\ Op(c) = "archive" /\ turn = Nobody
        /\ UNCHANGED <<stored, reserved, snapshots, turn>>
    BY <1>7 DEF Archive, Runs, Ends
  <2>2. CASE error # None
    <3>1. error \in Refusals /\ Refuses(c, error)
      BY <2>2, <1>codes
    <3>2. Answers(c, Answer(error, 0)) /\ UNCHANGED template
      BY <1>7, <2>2 DEF Archive, Ends
    <3> QED
      BY <2>1, <3>1, <3>2, Quitting DEF Shape, Handled
  <2>3. CASE error = None
    <3>1. /\ Answers(c, Answer("archived", Current(t)))
          /\ template' = [template EXCEPT ![t] = [template[t] EXCEPT !.status = "archived"]]
      BY <1>7, <2>3 DEF Archive, Ends
    <3>2. t \in Templates
      BY <2>1, <1>asked, RequestShape
    <3>3. Current(t) \in Nat
      BY <3>2 DEF Current, TypeInv
    <3>4. Exists(t)
      BY <2>3 DEF None
    <3>5. Answered(c, "archived")
      BY <3>1, <3>3, <1>typed, <1>codes, Answering
    <3> QED
      BY <2>1, <3>1, <3>4, <3>5 DEF ArchivedNow, WritesTemplate, Shape
  <2> QED
    BY <2>2, <2>3
<1>8. CASE Read(c)
  <2> DEFINE t == Request(c).template
  <2>1. /\ Phase(c) = "queued" /\ Op(c) = "read" /\ turn = Nobody
        /\ UNCHANGED <<stored, reserved, snapshots, turn>>
    BY <1>8 DEF Read, Runs, Ends
  <2>2. t \in Templates /\ Request(c).revision \in Nat
    BY <2>1, <1>asked, RequestShape
  <2>3. CASE Request(c).revision <= Current(t)
    <3>1. Answers(c, Answer("read", Request(c).revision))
          /\ template' = [template EXCEPT ![t] = template[t]]
      BY <1>8, <2>3 DEF Read, Ends
    <3>2. UNCHANGED template
      BY <2>2, <3>1 DEF TypeInv
    <3> QED
      BY <2>1, <2>2, <3>1, <3>2, <1>codes, Quitting DEF Shape, Handled
  <2>4. CASE ~(Request(c).revision <= Current(t))
    <3>1. Answers(c, Answer("not_found", 0)) /\ UNCHANGED template
      BY <1>8, <2>4 DEF Read, Ends, None
    <3> QED
      BY <2>1, <3>1, <1>codes, Quitting DEF Shape, Handled
  <2> QED
    BY <2>3, <2>4
<1>9. CASE BeginCompilation(c)
  <2>1. /\ Phase(c) = "queued" /\ Compiles(c) /\ turn = Nobody
        /\ UNCHANGED <<stored, template, reserved, snapshots>>
    BY <1>9 DEF BeginCompilation, Runs, Compiles
  <2>2. CASE Request(c).revision <= Current(Request(c).template)
    <3>1. turn' = c /\ Becomes(c, "validating")
      BY <1>9, <2>2 DEF BeginCompilation
    <3>2. Proceeds(c, "validating")
      BY <3>1, <1>typed, Becoming DEF Phases
    <3> QED
      BY <2>1, <2>2, <3>1, <3>2 DEF OpensCompilation, Shape
  <2>3. CASE ~(Request(c).revision <= Current(Request(c).template))
    <3>1. Answers(c, Answer("not_found", 0)) /\ UNCHANGED turn
      BY <1>9, <2>3 DEF BeginCompilation
    <3> QED
      BY <2>1, <3>1, <1>codes, Quitting DEF Shape, Handled
  <2> QED
    BY <2>2, <2>3
<1>10. CASE SaveSnapshot(c)
  <2>1. Request(c) \in Requests /\ Op(c) = "compile"
    BY <1>10, <1>asked DEF SaveSnapshot, Compiles
  <2>2. Request(c).revision \in Nat
    BY <2>1, RequestShape
  <2>3. Answered(c, "compiled")
    BY <1>10, <2>2, <1>typed, <1>codes, Answering DEF SaveSnapshot
  <2> QED
    BY <1>10, <2>3, <1>turns DEF SaveSnapshot, Saved, Shape
<1>11. CASE OperationFails(c)
  <2>1. Answered(c, "operation_failed")
    BY <1>11, <1>typed, <1>codes, Answering DEF OperationFails, Refusals
  <2>2. Handled(c) /\ TurnOthers(c)
    BY <1>11, <1>turns DEF OperationFails, Handled
  <2> QED
    <3>1. "operation_failed" \in Codes /\ Refuses(c, "operation_failed")
      BY <1>codes DEF Refusals
    <3>2. /\ reserved' = IF Phase(c) = "reserved" THEN reserved \ {Request(c).template} ELSE reserved
          /\ UNCHANGED <<stored, template, snapshots>>
      BY <1>11 DEF OperationFails
    <3>3. Quits(c)
      BY <2>1, <2>2, <3>1, <3>2 DEF Quits
    <3> QED
      BY <3>3 DEF Shape
<1> QED
  BY <1>1, <1>2, <1>3, <1>4, <1>5, <1>6, <1>7, <1>8, <1>9, <1>10, <1>11 DEF Step

------------------------------------------------------------------------------
(* Types. *)

\* The template named by the request gets one revision more.
Authors(t, revision) ==
    /\ template \in [Templates -> [status : Statuses, revisions : Seq(Revisions)]]
    /\ template' \in [Templates -> [status : Statuses, revisions : Seq(Revisions)]]
    /\ template[t].status = "active" /\ template'[t].status = "active"
    /\ template'[t].revisions = Append(template[t].revisions, revision)
    /\ \A u \in Templates \ {t} : template'[u] = template[u]

LEMMA Authoring ==
    ASSUME NEW c \in Calls, TypeInv, PhasesMatch(c), FoundInStore(c),
           \A t \in Templates : FreshIsActive(t), Created(c) \/ Revised(c)
    PROVE  /\ Request(c).template \in Templates /\ RevisionView(c) \in Revisions
           /\ Authors(Request(c).template, RevisionView(c))
<1> DEFINE t == Request(c).template
           r == RevisionView(c)
<1>1. Phase(c) \in {"validated", "reserved"}
  BY DEF Created, Revised
<1>2. t \in Templates /\ SpecOf(c) \in Specs
  BY <1>1, SpecOfShape
<1>3. call[c].found \in Seq(Results)
  BY DEF TypeInv, CallRecords
<1>4. r \in Revisions
  BY <1>2, <1>3 DEF RevisionView, Revisions
<1>5. template[t] \in [status : Statuses, revisions : Seq(Revisions)]
  BY <1>2 DEF TypeInv
<1>6. CASE Created(c)
  <2> DEFINE written == [status |-> "active", revisions |-> <<r>>]
  <2>1. template' = [template EXCEPT ![t] = written]
    BY <1>6 DEF Created, WritesTemplate
  <2>2. template[t].revisions = <<>> /\ template[t].status = "active"
    BY <1>2, <1>5, <1>6 DEF Created, Exists, Current, FreshIsActive
  <2>3. written \in [status : Statuses, revisions : Seq(Revisions)]
    BY <1>4 DEF Statuses
  <2>4. Append(template[t].revisions, r) = <<r>>
    BY <2>2
  <2> QED
    BY <1>2, <1>4, <2>1, <2>2, <2>3, <2>4 DEF Authors, TypeInv
<1>7. CASE Revised(c)
  <2> DEFINE written == [template[t] EXCEPT !.revisions = Append(@, r)]
  <2>1. template' = [template EXCEPT ![t] = written] /\ template[t].status = "active"
    BY <1>7 DEF Revised, WritesTemplate
  <2>2. Append(template[t].revisions, r) \in Seq(Revisions)
    BY <1>4, <1>5
  <2>3. /\ written \in [status : Statuses, revisions : Seq(Revisions)]
        /\ written.status = "active" /\ written.revisions = Append(template[t].revisions, r)
    BY <1>5, <2>1, <2>2
  <2> QED
    BY <1>2, <1>4, <2>1, <2>3 DEF Authors, TypeInv
<1> QED
  BY <1>6, <1>7

\* The template named by the request is archived and keeps its revisions.
LEMMA Archiving ==
    ASSUME NEW c \in Calls, TypeInv, PhasesMatch(c), ArchivedNow(c)
    PROVE  /\ Request(c).template \in Templates
           /\ template' \in [Templates -> [status : Statuses, revisions : Seq(Revisions)]]
           /\ template'[Request(c).template].status = "archived"
           /\ \A t \in Templates : template'[t].revisions = template[t].revisions
           /\ \A t \in Templates \ {Request(c).template} : template'[t] = template[t]
<1> DEFINE t == Request(c).template
           written == [template[t] EXCEPT !.status = "archived"]
<1>1. t \in Templates
  BY RequestShape DEF ArchivedNow, PhasesMatch
<1>2. template[t] \in [status : Statuses, revisions : Seq(Revisions)]
  BY <1>1 DEF TypeInv
<1>3. /\ written \in [status : Statuses, revisions : Seq(Revisions)]
      /\ written.status = "archived" /\ written.revisions = template[t].revisions
  BY <1>2 DEF Statuses
<1>4. template' = [template EXCEPT ![t] = written]
  BY DEF ArchivedNow, WritesTemplate
<1> QED
  BY <1>1, <1>3, <1>4 DEF TypeInv

LEMMA TypeStep ==
    ASSUME NEW c \in Calls, TypeInv, PhasesMatch(c), FoundInStore(c),
           \A t \in Templates : FreshIsActive(t), Shape(c)
    PROVE  TypeInv'
<1> USE DEF TypeInv
<1>1. CASE Quits(c)
  BY <1>1 DEF Quits, Answered, Goes, TurnOthers
<1>2. CASE Accepts(c)
  BY <1>2 DEF Accepts, Proceeds, Goes
<1>3. CASE Finds(c)
  BY <1>3 DEF Finds, Goes
<1>4. CASE TakesName(c)
  BY <1>4 DEF TakesName, Proceeds, Goes
<1>5. CASE OpensCompilation(c)
  BY <1>5 DEF OpensCompilation, Proceeds, Goes
<1>6. CASE Created(c) \/ Revised(c)
  <2>1. template' \in [Templates -> [status : Statuses, revisions : Seq(Revisions)]]
    BY <1>6, Authoring DEF Authors
  <2> QED
    BY <1>6, <2>1 DEF Created, Revised, WritesTemplate, Answered, Goes, TurnOthers
<1>7. CASE ArchivedNow(c)
  <2>1. template' \in [Templates -> [status : Statuses, revisions : Seq(Revisions)]]
    BY <1>7, Archiving
  <2> QED
    BY <1>7, <2>1 DEF ArchivedNow, WritesTemplate, Answered, Goes
<1>8. CASE Saved(c)
  <2>1. /\ Request(c).template \in Templates
        /\ Request(c).revision \in 1..Current(Request(c).template)
    BY <1>8, SpecOfShape DEF Saved
  <2>2. Snapshot(c) \in [by : Calls, template : Templates, revision : Nat \ {0},
                         source_bricks : Seq(Results)]
    BY <2>1 DEF Snapshot, CallRecords
  <2> QED
    BY <1>8, <2>2 DEF Saved, Answered, Goes, TurnOthers
<1> QED
  BY <1>1, <1>2, <1>3, <1>4, <1>5, <1>6, <1>7, <1>8 DEF Shape

------------------------------------------------------------------------------
(* The calls. *)

\* A call that is not touched asks what it asked, where it was.
LEMMA Untouched ==
    ASSUME NEW d \in Calls, call'[d] = call[d]
    PROVE  /\ Phase(d)' = Phase(d) /\ Request(d)' = Request(d) /\ Op(d)' = Op(d)
           /\ call[d].found' = call[d].found /\ call[d].answer.code' = call[d].answer.code
           /\ Compiles(d)' = Compiles(d)
  BY DEF Phase, Request, Op, Compiles

\* Where a step of a call leads it.
LEMMA ShapeGoes ==
    ASSUME NEW c \in Calls, TypeInv, Shape(c)
    PROVE  /\ Handled(c)
           /\ \E phase \in Phases : Goes(c, phase)
           /\ Phase(c)' = "answered" \/ call[c].answer.code' = call[c].answer.code
           /\ turn = c \/ turn = Nobody \/ turn' = turn
<1> USE DEF Phase, Phases, Handled
<1>1. CASE Quits(c)
  BY <1>1 DEF Quits, Answered, Goes, TurnOthers
<1>2. CASE Accepts(c)
  BY <1>2 DEF Accepts, Proceeds, Goes, Validating
<1>3. CASE Finds(c)
  BY <1>3 DEF Finds, Goes
<1>4. CASE TakesName(c)
  BY <1>4 DEF TakesName, Proceeds, Goes
<1>5. CASE OpensCompilation(c)
  BY <1>5 DEF OpensCompilation, Proceeds, Goes
<1>6. CASE Created(c) \/ Revised(c) \/ ArchivedNow(c) \/ Saved(c)
  BY <1>6 DEF Created, Revised, ArchivedNow, Saved, WritesTemplate, Answered, Goes, TurnOthers
<1> QED
  BY <1>1, <1>2, <1>3, <1>4, <1>5, <1>6 DEF Shape

LEMMA PhasesStay ==
    ASSUME NEW c \in Calls, TypeInv, \A d \in Calls : PhasesMatch(d), Shape(c)
    PROVE  \A d \in Calls : PhasesMatch(d)'
<1>1. ASSUME NEW d \in Calls \ {c}
      PROVE  PhasesMatch(d)'
  <2>1. call'[d] = call[d]
    BY ShapeGoes DEF Goes
  <2>2. PhasesMatch(d)
    OBVIOUS
  <2> QED
    BY <2>1, <2>2, Untouched DEF PhasesMatch
<1>2. /\ Request(c)' = Request(c) /\ Op(c)' = Op(c) /\ Request(c) \in Requests
      /\ Phase(c)' = "answered" \/ call[c].answer.code' = None
  BY ShapeGoes DEF Goes, PhasesMatch, Handled, Op
<1>3. PhasesMatch(c)'
  <2>3. CASE Quits(c) \/ Created(c) \/ Revised(c) \/ ArchivedNow(c) \/ Saved(c)
    <3>1. Phase(c)' = "answered"
      BY <2>3 DEF Quits, Created, Revised, ArchivedNow, Saved, WritesTemplate, Answered, Goes
    <3> QED
      BY <1>2, <3>1 DEF PhasesMatch
  <2>4. CASE Accepts(c)
    <3>1. Phase(c)' = "validated" /\ Phase(c) = "validating" /\ Op(c) # "validate"
      BY <2>4 DEF Accepts, Proceeds, Goes, Validating, Phase
    <3> QED
      BY <1>2, <3>1 DEF PhasesMatch
  <2>5. CASE Finds(c)
    <3>1. Phase(c)' = "validating" /\ Phase(c) = "validating"
      BY <2>5 DEF Finds, Goes
    <3> QED
      BY <1>2, <3>1 DEF PhasesMatch
  <2>6. CASE TakesName(c)
    <3>1. Phase(c)' = "reserved" /\ Op(c) = "create"
      BY <2>6 DEF TakesName, Proceeds, Goes
    <3> QED
      BY <1>2, <3>1 DEF PhasesMatch
  <2>7. CASE OpensCompilation(c)
    <3>1. Phase(c)' = "validating" /\ Op(c) = "compile"
      BY <2>7 DEF OpensCompilation, Proceeds, Goes, Compiles, Op
    <3> QED
      BY <1>2, <3>1 DEF PhasesMatch
  <2> QED
    BY <2>3, <2>4, <2>5, <2>6, <2>7 DEF Shape
<1> QED
  BY <1>1, <1>3

------------------------------------------------------------------------------
(* What is written is never taken back. *)

\* Templates and bricks only get revisions.
Grows ==
    /\ \A t \in Templates :
         /\ Current(t) <= Current(t)'
         /\ \A n \in 1..Current(t) : template'[t].revisions[n] = template[t].revisions[n]
    /\ \A b \in Bricks : Len(stored[b].contents) <= Len(stored'[b].contents)

LEMMA Lengths ==
    ASSUME TypeInv
    PROVE  /\ \A t \in Templates : Current(t) \in Nat
           /\ \A b \in Bricks : Len(stored[b].contents) \in Nat
  BY DEF TypeInv, Current

\* What authoring does to each revision of each template.
LEMMA AuthoredRevisions ==
    ASSUME NEW t \in Templates, NEW revision \in Revisions, Authors(t, revision)
    PROVE  /\ Current(t) \in Nat /\ Current(t)' = Current(t) + 1
           /\ template'[t].revisions[Current(t) + 1] = revision
           /\ \A n \in 1..Current(t) : template'[t].revisions[n] = template[t].revisions[n]
           /\ \A u \in Templates \ {t} :
                Current(u)' = Current(u) /\ template'[u].revisions = template[u].revisions
<1>1. template[t].revisions \in Seq(Revisions)
      /\ template'[t].revisions = Append(template[t].revisions, revision)
  BY DEF Authors
<1> QED
  BY <1>1 DEF Current, Authors

LEMMA StepGrows ==
    ASSUME NEW c \in Calls, TypeInv, PhasesMatch(c), FoundInStore(c),
           \A t \in Templates : FreshIsActive(t), Shape(c)
    PROVE  Grows
<1>1. UNCHANGED stored
  BY DEF Shape, Quits, Accepts, Finds, TakesName, OpensCompilation, Created, Revised,
         ArchivedNow, Saved, WritesTemplate
<1>2. CASE UNCHANGED template
  BY <1>1, <1>2, Lengths DEF Grows, Current
<1>3. CASE Created(c) \/ Revised(c)
  <2>1. /\ Request(c).template \in Templates /\ RevisionView(c) \in Revisions
        /\ Authors(Request(c).template, RevisionView(c))
    BY <1>3, Authoring
  <2>2. PICK t \in Templates, r \in Revisions : t = Request(c).template /\ Authors(t, r)
    BY <2>1
  <2>3. ASSUME NEW u \in Templates
        PROVE  /\ Current(u) <= Current(u)'
               /\ \A n \in 1..Current(u) : template'[u].revisions[n] = template[u].revisions[n]
    <3>1. CASE u = t
      BY <2>2, <3>1, AuthoredRevisions
    <3>2. CASE u # t
      BY <2>2, <3>2, AuthoredRevisions, Lengths
    <3> QED
      BY <3>1, <3>2
  <2> QED
    BY <1>1, <2>3, Lengths DEF Grows
<1>4. CASE ArchivedNow(c)
  <2>1. \A t \in Templates : template'[t].revisions = template[t].revisions
    BY <1>4, Archiving
  <2> QED
    BY <1>1, <2>1, Lengths DEF Grows, Current
<1> QED
  BY <1>2, <1>3, <1>4 DEF Shape, Quits, Accepts, Finds, TakesName, OpensCompilation, Saved

LEMMA FoundGrows ==
    ASSUME Grows, TypeInv, TypeInv', NEW spec \in Specs, NEW i \in 1..Len(spec), Found(spec[i].ref)
    PROVE  Found(spec[i].ref)'
<1> DEFINE ref == spec[i].ref
<1>1. ref.brick \in Bricks /\ ref.revision \in Nat \ {0}
  BY SpecShape
<1>2. PICK b \in Bricks : b = ref.brick
  BY <1>1
<1>3. stored[b].contents \in Seq(Contents) /\ stored'[b].contents \in Seq(Contents)
  BY DEF TypeInv
<1>4. Len(stored[b].contents) <= Len(stored'[b].contents)
  BY DEF Grows
<1>5. ref.revision \in 1..Len(stored[b].contents)
  BY <1>2, <1>3 DEF Found
<1>6. ref.revision \in 1..Len(stored'[b].contents)
  BY <1>1, <1>3, <1>4, <1>5
<1> QED
  BY <1>2, <1>3, <1>6 DEF Found

\* A call that is validated, or was, goes on speaking of the same specification.
LEMMA SpecOfStays ==
    ASSUME NEW d \in Calls, TypeInv, PhasesMatch(d), FoundInStore(d), Grows,
           Phase(d) \in {"validating", "validated", "reserved"}, Request(d)' = Request(d)
    PROVE  /\ SpecOf(d)' = SpecOf(d) /\ Compiles(d)' = Compiles(d)
           /\ Compiles(d) => Compiled(d)' = Compiled(d)
<1>1. Compiles(d)' = Compiles(d)
  BY DEF Compiles
<1>2. CASE Compiles(d)
  <2>1. /\ Request(d).template \in Templates
        /\ Request(d).revision \in 1..Current(Request(d).template)
    BY <1>2, SpecOfShape
  <2>2. Compiled(d)' = Compiled(d)
    BY <2>1 DEF Grows, Compiled
  <2> QED
    BY <1>1, <1>2, <2>2 DEF SpecOf
<1>3. CASE ~Compiles(d)
  BY <1>1, <1>3 DEF SpecOf
<1> QED
  BY <1>2, <1>3

\* What was found for a call stays found while the call does not move, and also
\* when it moves on.
LEMMA FoundStays ==
    ASSUME NEW d \in Calls, TypeInv, TypeInv', PhasesMatch(d), FoundInStore(d), FoundAll(d), Grows,
           Phase(d) \in {"validating", "validated", "reserved"},
           Request(d)' = Request(d), call[d].found' = call[d].found
    PROVE  /\ FoundInStore(d)'
           /\ Phase(d) \in {"validated", "reserved"} => FoundAll(d)'
<1>1. /\ SpecOf(d)' = SpecOf(d) /\ Compiles(d)' = Compiles(d)
      /\ Compiles(d) => Compiled(d)' = Compiled(d)
  BY SpecOfStays
<1>2. /\ Request(d).template \in Templates /\ SpecOf(d) \in Specs
      /\ Compiles(d) => Request(d).revision \in 1..Current(Request(d).template)
  BY SpecOfShape
<1>3. Phase(d) \in {"validated", "reserved"} => FoundAll(d)'
  BY <1>1 DEF FoundAll
<1>4. Compiles(d) => Request(d).revision <= Current(Request(d).template)'
  <2>1. PICK t \in Templates : t = Request(d).template
    BY <1>2
  <2>2. Current(t) \in Nat /\ Current(t)' \in Nat /\ Current(t) <= Current(t)'
    BY Lengths DEF Grows, TypeInv, Current
  <2> QED
    BY <1>2, <2>1, <2>2
<1>5. call[d].found \in Seq(Results) /\ SpecOf(d) \in Seq(Descriptors)
  BY <1>2, ConstantsOK DEF TypeInv, CallRecords
<1>6. ASSUME NEW i \in 1..Len(call[d].found), call[d].found[i] # Unresolved
      PROVE  /\ Found(SpecOf(d)[i].ref)'
             /\ Compiles(d) => call[d].found[i] = Compiled(d).resolved[i]
  <2>1. /\ i \in 1..Len(SpecOf(d)) /\ Found(SpecOf(d)[i].ref)
        /\ Compiles(d) => call[d].found[i] = Compiled(d).resolved[i]
    BY <1>5, <1>6 DEF FoundInStore
  <2>2. PICK spec \in Specs : spec = SpecOf(d)
    BY <1>2
  <2>3. Found(spec[i].ref)'
    BY <2>1, <2>2, FoundGrows
  <2> QED
    BY <1>1, <2>1, <2>2, <2>3
<1>7. FoundInStore(d)'
  BY <1>1, <1>4, <1>6 DEF FoundInStore
<1> QED
  BY <1>3, <1>7

LEMMA FoundStep ==
    ASSUME NEW c \in Calls, TypeInv, TypeInv', Grows, Shape(c),
           \A d \in Calls : PhasesMatch(d) /\ FoundInStore(d) /\ FoundAll(d)
    PROVE  \A d \in Calls : FoundInStore(d)' /\ FoundAll(d)'
<1> DEFINE Heard == {"validating", "validated", "reserved"}
<1>1. ASSUME NEW d \in Calls, Phase(d)' = Phase(d), Request(d)' = Request(d),
             call[d].found' = call[d].found
      PROVE  FoundInStore(d)' /\ FoundAll(d)'
  <2>1. CASE Phase(d) \in Heard
    <3>1. FoundInStore(d)' /\ (Phase(d) \in {"validated", "reserved"} => FoundAll(d)')
      BY <1>1, <2>1, FoundStays
    <3>2. Phase(d) \notin {"validated", "reserved"} => FoundAll(d)'
      BY <1>1 DEF FoundAll
    <3> QED
      BY <3>1, <3>2
  <2>2. CASE Phase(d) \notin Heard
    BY <1>1, <2>2 DEF FoundInStore, FoundAll
  <2> QED
    BY <2>1, <2>2
<1>2. ASSUME NEW d \in Calls \ {c}
      PROVE  FoundInStore(d)' /\ FoundAll(d)'
  <2>1. call'[d] = call[d]
    BY ShapeGoes DEF Goes
  <2> QED
    BY <1>1, <2>1, Untouched
<1>3. FoundInStore(c)' /\ FoundAll(c)'
  <2>1. CASE Phase(c)' = "answered"
    BY <2>1 DEF FoundInStore, FoundAll
  <2>2. CASE Accepts(c)
    <3>1. /\ Phase(c) = "validating" /\ Phase(c)' = "validated"
          /\ Request(c)' = Request(c) /\ call[c].found' = call[c].found
      BY <2>2 DEF Accepts, Proceeds, Goes, Validating, Phase
    <3>2. FoundInStore(c)'
      BY <3>1, FoundStays
    <3>3. SpecOf(c)' = SpecOf(c) /\ SpecOf(c) \in Specs
      BY <3>1, SpecOfStays, SpecOfShape
    <3>4. call[c].found \in Seq(Results) /\ SpecOf(c) \in Seq(Descriptors)
      BY <3>3, ConstantsOK DEF TypeInv, CallRecords
    <3>5. /\ Len(call[c].found) = Len(SpecOf(c))
          /\ \A i \in 1..Len(call[c].found) : call[c].found[i] # Unresolved
      BY <2>2, <3>1, <3>4 DEF Accepts, Unread, CandidateValid, FoundInStore
    <3> QED
      BY <3>1, <3>2, <3>3, <3>5 DEF FoundAll
  <2>3. CASE Finds(c)
    <3>1. /\ Phase(c) = "validating" /\ Phase(c)' = "validating" /\ Request(c)' = Request(c)
          /\ Len(call[c].found) < Len(SpecOf(c)) /\ HasProvenance(c)
          /\ call[c].found' = Append(call[c].found, Resolution(Descriptor(c)))
          /\ Resolution(Descriptor(c)) \in Results /\ UNCHANGED stored
      BY <2>3 DEF Finds, Goes
    <3>2. /\ SpecOf(c)' = SpecOf(c) /\ Compiles(c)' = Compiles(c)
          /\ Compiles(c) => Compiled(c)' = Compiled(c)
          /\ SpecOf(c) \in Specs
      BY <3>1, SpecOfStays, SpecOfShape
    <3>3. call[c].found \in Seq(Results) /\ SpecOf(c) \in Seq(Descriptors)
      BY <3>2, ConstantsOK DEF TypeInv, CallRecords
    <3>4. PICK found, result, spec, n :
              /\ found = call[c].found /\ result = Resolution(Descriptor(c)) /\ spec = SpecOf(c)
              /\ n = Len(found)
      OBVIOUS
    <3>5. /\ n \in Nat /\ n + 1 \in 1..Len(spec) /\ Len(call[c].found)' = n + 1
          /\ call[c].found'[n + 1] = result
          /\ \A i \in 1..n : call[c].found'[i] = found[i]
      BY <3>1, <3>3, <3>4
    <3>6. result # Unresolved => /\ Found(spec[n + 1].ref)
                                 /\ Compiles(c) => result = Compiled(c).resolved[n + 1]
      <4>1. result = Resolution(spec[n + 1])
        BY <3>4 DEF Descriptor
      <4>2. result # Unresolved => Found(spec[n + 1].ref)
        BY <3>2, <3>4, <3>5, <4>1, ResolutionShape
      <4> QED
        BY <3>1, <3>4, <4>2 DEF HasProvenance
    <3>7. \A i \in 1..n : found[i] # Unresolved =>
            /\ Found(spec[i].ref)
            /\ Compiles(c) => found[i] = Compiled(c).resolved[i]
      BY <3>1, <3>4 DEF FoundInStore
    <3>8. \A i \in 1..(n + 1) : call[c].found'[i] # Unresolved =>
            /\ Found(spec[i].ref)
            /\ Compiles(c) => call[c].found'[i] = Compiled(c).resolved[i]
      <4>1. ASSUME NEW i \in 1..(n + 1), call[c].found'[i] # Unresolved
            PROVE  /\ Found(spec[i].ref)
                   /\ Compiles(c) => call[c].found'[i] = Compiled(c).resolved[i]
        <5>1. CASE i \in 1..n
          BY <3>5, <3>7, <4>1, <5>1
        <5>2. CASE i = n + 1
          BY <3>5, <3>6, <4>1, <5>2
        <5> QED
          BY <3>5, <4>1, <5>1, <5>2
      <4> QED
        BY <4>1
    <3>9. \A i \in 1..(n + 1) : Found(spec[i].ref)' = Found(spec[i].ref)
      BY <3>1 DEF Found
    <3>10. Compiles(c) => Request(c).revision <= Current(Request(c).template)'
      <4>1. ASSUME Compiles(c)
            PROVE  Request(c).revision <= Current(Request(c).template)'
        <5>1. /\ Request(c).template \in Templates
              /\ Request(c).revision \in 1..Current(Request(c).template)
          BY <3>1, <4>1, SpecOfShape
        <5>2. PICK t \in Templates : t = Request(c).template
          BY <5>1
        <5>3. Current(t) \in Nat /\ Current(t)' \in Nat /\ Current(t) <= Current(t)'
          BY Lengths DEF Grows, TypeInv, Current
        <5> QED
          BY <3>1, <5>1, <5>2, <5>3
      <4> QED
        BY <4>1
    <3>11. Len(call[c].found)' <= Len(SpecOf(c))'
      BY <3>2, <3>4, <3>5
    <3>12. FoundInStore(c)'
      BY <3>1, <3>2, <3>4, <3>5, <3>8, <3>9, <3>10, <3>11 DEF FoundInStore
    <3> QED
      BY <3>1, <3>12 DEF FoundAll
  <2>4. CASE TakesName(c)
    <3>1. /\ Phase(c) = "validated" /\ Phase(c)' = "reserved"
          /\ Request(c)' = Request(c) /\ call[c].found' = call[c].found
      BY <2>4 DEF TakesName, Proceeds, Goes
    <3> QED
      BY <3>1, FoundStays
  <2>5. CASE OpensCompilation(c)
    <3>1. /\ Phase(c) = "queued" /\ Phase(c)' = "validating" /\ Op(c) = "compile"
          /\ Request(c)' = Request(c) /\ call[c].found' = call[c].found
          /\ Request(c).revision <= Current(Request(c).template)
          /\ UNCHANGED template /\ call[c].found = <<>> /\ Request(c) \in Requests
      BY <2>5 DEF OpensCompilation, Proceeds, Goes, PhasesMatch, Compiles, Op
    <3>2. /\ Request(c).template \in Templates
          /\ Request(c).revision \in 1..Current(Request(c).template)
      BY <3>1, Lengths, RequestShape DEF Op
    <3>3. Compiled(c)' \in Revisions /\ Compiles(c)'
      <4>1. template[Request(c).template].revisions \in Seq(Revisions)
        BY <3>2 DEF TypeInv
      <4> QED
        BY <3>1, <3>2, <4>1 DEF Compiled, Compiles, Op, Current
    <3>4. SpecOf(c)' \in Specs
      BY <3>3 DEF SpecOf, Revisions
    <3>5. Len(SpecOf(c)') \in Nat
      BY <3>4, ConstantsOK
    <3>6. Len(call[c].found)' = 0
      BY <3>1
    <3>7. Request(c).revision <= Current(Request(c).template)'
      BY <3>1 DEF Current
    <3> QED
      BY <3>1, <3>5, <3>6, <3>7 DEF FoundInStore, FoundAll
  <2>6. CASE Quits(c) \/ Created(c) \/ Revised(c) \/ ArchivedNow(c) \/ Saved(c)
    <3>1. Phase(c)' = "answered"
      BY <2>6 DEF Quits, Created, Revised, ArchivedNow, Saved, WritesTemplate, Answered, Goes
    <3> QED
      BY <2>1, <3>1
  <2> QED
    BY <2>2, <2>3, <2>4, <2>5, <2>6 DEF Shape
<1> QED
  BY <1>2, <1>3

------------------------------------------------------------------------------
(* The names. *)

\* The calls that have reserved a name and not created its template.
ReservedFor(t) == {d \in Calls : Phase(d) = "reserved" /\ Request(d).template = t}

\* What a step does to the templates there are, and to those who have reserved one.
LEMMA ExistsStays ==
    ASSUME NEW c \in Calls, TypeInv, PhasesMatch(c), FoundInStore(c),
           \A t \in Templates : FreshIsActive(t), Shape(c)
    PROVE  /\ \A t \in Templates : Exists(t)' <=> Exists(t) \/ (Created(c) /\ t = Request(c).template)
           /\ \A t \in Templates : FreshIsActive(t)'
<1>1. CASE UNCHANGED template
  <2>1. ~Created(c)
    <3>1. SUFFICES ASSUME Created(c) PROVE FALSE
      OBVIOUS
    <3>2. PICK t \in Templates, r \in Revisions : t = Request(c).template /\ Authors(t, r)
      BY <3>1, Authoring
    <3> QED
      BY <1>1, <3>2, AuthoredRevisions DEF Current
  <2> QED
    BY <1>1, <2>1 DEF Exists, Current, FreshIsActive
<1>2. CASE Created(c) \/ Revised(c)
  <2>1. PICK t \in Templates, r \in Revisions : t = Request(c).template /\ Authors(t, r)
    BY <1>2, Authoring
  <2>2. Exists(t)' /\ \A u \in Templates \ {t} : Exists(u)' = Exists(u)
    BY <2>1, AuthoredRevisions DEF Exists
  <2>3. Revised(c) => Exists(t)
    BY <2>1 DEF Revised
  <2>4. ASSUME NEW u \in Templates
        PROVE  FreshIsActive(u)'
    <3>1. CASE u = t
      BY <2>1, <3>1 DEF Authors, FreshIsActive
    <3>2. CASE u # t
      BY <2>1, <2>2, <3>2 DEF Authors, FreshIsActive
    <3> QED
      BY <3>1, <3>2
  <2> QED
    BY <1>2, <2>1, <2>2, <2>3, <2>4
<1>3. CASE ArchivedNow(c)
  <2>1. /\ \A t \in Templates : template'[t].revisions = template[t].revisions
        /\ \A t \in Templates \ {Request(c).template} : template'[t] = template[t]
        /\ Request(c).template \in Templates
    BY <1>3, Archiving
  <2>2. \A t \in Templates : Exists(t)' = Exists(t)
    BY <2>1 DEF Exists, Current
  <2>3. Exists(Request(c).template) /\ ~Created(c)
    BY <1>3 DEF ArchivedNow, Created
  <2> QED
    BY <2>1, <2>2, <2>3 DEF FreshIsActive
<1> QED
  BY <1>1, <1>2, <1>3 DEF Shape, Quits, Accepts, Finds, TakesName, OpensCompilation, Saved

LEMMA NamesStep ==
    ASSUME NEW c \in Calls, TypeInv, Shape(c), NamesMatchTemplates,
           \A t \in Templates : FreshIsActive(t),
           \A d \in Calls : PhasesMatch(d) /\ ReservesName(d) /\ FoundInStore(d)
    PROVE  NamesMatchTemplates' /\ \A d \in Calls : ReservesName(d)'
<1> DEFINE name == Request(c).template
<1>1. /\ \A d \in Calls \ {c} : /\ Phase(d)' = Phase(d) /\ Request(d)' = Request(d)
      /\ Request(c)' = Request(c) /\ name \in Templates
  <2>1. \A d \in Calls \ {c} : call'[d] = call[d]
    BY ShapeGoes DEF Goes
  <2>2. Request(c) \in Requests /\ Request(c)' = Request(c)
    BY ShapeGoes DEF Goes, Handled, PhasesMatch
  <2> QED
    BY <2>1, <2>2, RequestShape, Untouched
<1>2. \A t \in Templates : Exists(t)' <=> Exists(t) \/ (Created(c) /\ t = name)
  BY ExistsStays
<1>3. \A t \in Templates : (t \in reserved /\ ReservedFor(t) = {}) <=> Exists(t)
  BY DEF NamesMatchTemplates, ReservedFor, Phase
<1>4. \A d \in Calls : Phase(d) = "reserved" =>
         /\ turn = d /\ Request(d).template \in Templates
         /\ Request(d).template \in reserved /\ ~Exists(Request(d).template)
  BY RequestShape DEF ReservesName, PhasesMatch
<1>5. Nobody \notin Calls
  BY ConstantsOK
<1>6. /\ \A t \in Templates : (t \in reserved' /\ ReservedFor(t)' = {}) <=> Exists(t)'
      /\ \A d \in Calls : Phase(d)' = "reserved" =>
           /\ turn' = d /\ Request(d)'.template \in Templates
           /\ Request(d)'.template \in reserved' /\ ~Exists(Request(d).template)'
  <2> DEFINE Goal == /\ \A t \in Templates : (t \in reserved' /\ ReservedFor(t)' = {}) <=> Exists(t)'
                     /\ \A d \in Calls : Phase(d)' = "reserved" =>
                          /\ turn' = d /\ Request(d)'.template \in Templates
                          /\ Request(d)'.template \in reserved' /\ ~Exists(Request(d).template)'
  <2>1. ASSUME ~Created(c), UNCHANGED reserved, Phase(c) # "reserved", Phase(c)' # "reserved",
               turn' = turn \/ turn = c \/ turn = Nobody
        PROVE  Goal
    <3>1. \A d \in Calls : Phase(d)' = "reserved" <=> Phase(d) = "reserved"
      BY <1>1, <2>1
    <3>2. \A t \in Templates : ReservedFor(t)' = ReservedFor(t) /\ Exists(t)' = Exists(t)
      <4>1. \A d \in Calls : Request(d)' = Request(d)
        BY <1>1
      <4>2. ASSUME NEW t \in Templates
            PROVE  ReservedFor(t)' = ReservedFor(t)
        BY <3>1, <4>1 DEF ReservedFor
      <4>3. ASSUME NEW t \in Templates
            PROVE  Exists(t)' = Exists(t)
        <5>1. Exists(t)' <=> Exists(t)
          BY <1>2, <2>1
        <5> QED
          BY <5>1 DEF Exists
      <4> QED
        BY <4>2, <4>3
    <3>3. ASSUME NEW d \in Calls, Phase(d)' = "reserved"
          PROVE  /\ turn' = d /\ Request(d)'.template \in Templates
                 /\ Request(d)'.template \in reserved' /\ ~Exists(Request(d).template)'
      <4>1. d # c /\ Phase(d) = "reserved"
        BY <2>1, <3>1, <3>3
      <4>2. PICK t \in Templates : t = Request(d).template
        BY <1>4, <4>1
      <4>3. turn' = d
        BY <1>4, <1>5, <2>1, <4>1
      <4>4. t \in reserved /\ ~Exists(t)
        BY <1>4, <4>1, <4>2
      <4>5. Request(d)' = Request(d)
        BY <1>1, <4>1
      <4> QED
        BY <2>1, <3>2, <4>2, <4>3, <4>4, <4>5
    <3> QED
      BY <1>3, <2>1, <3>2, <3>3
  <2>2. CASE Phase(c) = "reserved"
    <3>1. turn = c /\ name \in reserved /\ ~Exists(name) /\ \A d \in Calls \ {c} : Phase(d) # "reserved"
      BY <1>4, <2>2
    <3>2. Phase(c)' = "answered" /\ (Quits(c) \/ Created(c))
      BY <2>2 DEF Shape, Quits, Created, Accepts, Finds, TakesName, OpensCompilation, Revised,
                  ArchivedNow, Saved, WritesTemplate, Answered, Goes, Validating, Phase
    <3>3. \A t \in Templates : ReservedFor(t)' = {}
      BY <1>1, <3>1, <3>2 DEF ReservedFor
    <3>4. \A t \in Templates \ {name} : ReservedFor(t) = {}
      BY <3>1 DEF ReservedFor
    <3>5. CASE Created(c)
      BY <1>1, <1>2, <1>3, <3>1, <3>2, <3>3, <3>4, <3>5 DEF Created, WritesTemplate
    <3>6. CASE Quits(c)
      <4>1. reserved' = reserved \ {name} /\ UNCHANGED template
        BY <2>2, <3>6 DEF Quits
      <4>2. \A t \in Templates : Exists(t)' = Exists(t)
        BY <4>1 DEF Exists, Current
      <4> QED
        BY <1>1, <1>3, <3>1, <3>2, <3>3, <3>4, <4>1, <4>2
    <3> QED
      BY <3>2, <3>5, <3>6
  <2>3. CASE TakesName(c)
    <3>1. /\ Phase(c)' = "reserved" /\ turn' = c /\ turn = Nobody /\ name \notin reserved
          /\ reserved' = reserved \union {name} /\ UNCHANGED template /\ ~Exists(name)
      BY <1>1, <1>3, <2>3 DEF TakesName, Proceeds, Goes
    <3>2. \A t \in Templates : Exists(t)' = Exists(t)
      BY <3>1 DEF Exists, Current
    <3>3. \A d \in Calls \ {c} : Phase(d)' # "reserved"
      BY <1>1, <1>4, <1>5, <3>1
    <3>4. \A t \in Templates \ {name} : ReservedFor(t)' = {} /\ ReservedFor(t) = {}
      BY <1>1, <1>4, <1>5, <3>1, <3>3 DEF ReservedFor
    <3>5. ReservedFor(name)' # {}
      BY <1>1, <3>1 DEF ReservedFor
    <3> QED
      BY <1>1, <1>3, <3>1, <3>2, <3>3, <3>4, <3>5
  <2>4. CASE Phase(c) # "reserved" /\ ~TakesName(c)
    <3>1. ~Created(c) /\ UNCHANGED reserved /\ Phase(c)' # "reserved"
      BY <2>4 DEF Shape, Quits, Created, Accepts, Finds, OpensCompilation, Revised, Proceeds,
                  ArchivedNow, Saved, WritesTemplate, Answered, Goes
    <3> QED
      BY <2>1, <2>4, <3>1, ShapeGoes
  <2> QED
    BY <2>2, <2>3, <2>4
<1>7. NamesMatchTemplates'
  BY <1>6 DEF NamesMatchTemplates, ReservedFor, Phase
<1>8. \A d \in Calls : ReservesName(d)'
  BY <1>6 DEF ReservesName
<1> QED
  BY <1>7, <1>8

------------------------------------------------------------------------------
(* The snapshots. *)

Provenance(s) ==
    /\ s.revision <= Current(s.template)
    /\ s.source_bricks = template[s.template].revisions[s.revision].resolved

Resolved(revision) ==
    /\ Len(revision.resolved) = Len(revision.spec)
    /\ \A i \in DOMAIN revision.spec : Found(revision.spec[i].ref) /\ revision.resolved[i] # Unresolved

LEMMA ProvenanceParts ==
    SnapshotProvenance <=>
      /\ \A t \in Templates : \A n \in 1..Current(t) : Resolved(template[t].revisions[n])
      /\ \A s \in snapshots : Provenance(s)
  BY DEF SnapshotProvenance, Resolved, Provenance

LEMMA RevisionShape ==
    ASSUME TypeInv, NEW t \in Templates, NEW n \in 1..Current(t)
    PROVE  template[t].revisions[n] \in Revisions
<1>1. template[t].revisions \in Seq(Revisions)
  BY DEF TypeInv
<1> QED
  BY <1>1 DEF Current

LEMMA ResolvedStays ==
    ASSUME TypeInv, TypeInv', Grows, NEW revision \in Revisions, Resolved(revision)
    PROVE  Resolved(revision)'
<1>1. PICK spec \in Specs : spec = revision.spec
  BY DEF Revisions
<1>2. DOMAIN spec = 1..Len(spec)
  BY ConstantsOK
<1>3. \A i \in 1..Len(spec) : Found(spec[i].ref)'
  BY <1>1, <1>2, FoundGrows DEF Resolved
<1> QED
  BY <1>1, <1>2, <1>3 DEF Resolved

LEMMA ProvenanceStays ==
    ASSUME TypeInv, TypeInv', Grows, NEW s \in snapshots, Provenance(s)
    PROVE  Provenance(s)'
<1>1. PICK t \in Templates, n \in Nat \ {0} : t = s.template /\ n = s.revision
  BY DEF TypeInv
<1>2. Current(t) \in Nat /\ Current(t)' \in Nat /\ Current(t) <= Current(t)'
  BY Lengths DEF Grows, TypeInv, Current
<1>3. n \in 1..Current(t)
  BY <1>1, <1>2 DEF Provenance
<1>4. template'[t].revisions[n] = template[t].revisions[n]
  BY <1>3 DEF Grows
<1> QED
  BY <1>1, <1>2, <1>3, <1>4 DEF Provenance

\* What a validated call has resolved.
LEMMA ValidatedIsResolved ==
    ASSUME NEW c \in Calls, TypeInv, PhasesMatch(c), FoundInStore(c), FoundAll(c),
           Phase(c) \in {"validated", "reserved"}
    PROVE  /\ SpecOf(c) \in Specs /\ Len(call[c].found) = Len(SpecOf(c))
           /\ DOMAIN SpecOf(c) = 1..Len(SpecOf(c))
           /\ \A i \in 1..Len(SpecOf(c)) :
                /\ Found(SpecOf(c)[i].ref) /\ call[c].found[i] # Unresolved
                /\ Compiles(c) => call[c].found[i] = Compiled(c).resolved[i]
  BY SpecOfShape, ConstantsOK DEF FoundInStore, FoundAll

LEMMA ProvenanceStep ==
    ASSUME NEW c \in Calls, TypeInv, TypeInv', Grows, Shape(c), SnapshotProvenance,
           \A t \in Templates : FreshIsActive(t),
           PhasesMatch(c), FoundInStore(c), FoundAll(c)
    PROVE  SnapshotProvenance'
<1>1. /\ \A t \in Templates : \A n \in 1..Current(t) : Resolved(template[t].revisions[n])
      /\ \A s \in snapshots : Provenance(s)
  BY ProvenanceParts
<1>2. ASSUME NEW t \in Templates, NEW n \in 1..Current(t)
      PROVE  Resolved(template[t].revisions[n])'
  <2>1. PICK r \in Revisions : r = template[t].revisions[n]
    BY RevisionShape
  <2>2. Resolved(r)'
    BY <1>1, <2>1, ResolvedStays
  <2>3. template'[t].revisions[n] = r
    BY <2>1 DEF Grows
  <2> QED
    BY <2>2, <2>3
<1>3. \A s \in snapshots : Provenance(s)'
  BY <1>1, ProvenanceStays
<1>4. \A t \in Templates : \A n \in 1..Current(t)' : Resolved(template[t].revisions[n])'
  <2>1. CASE \A t \in Templates : Current(t)' = Current(t)
    BY <1>2, <2>1
  <2>2. CASE Created(c) \/ Revised(c)
    <3>1. PICK t \in Templates, r \in Revisions :
              t = Request(c).template /\ r = RevisionView(c) /\ Authors(t, r)
      BY <2>2, Authoring
    <3>2. Phase(c) \in {"validated", "reserved"}
      BY <2>2 DEF Created, Revised
    <3>3. Resolved(r)
      BY <3>1, <3>2, ValidatedIsResolved DEF Resolved, RevisionView
    <3>4. Resolved(r)'
      BY <3>3, ResolvedStays
    <3>5. ASSUME NEW u \in Templates, NEW n \in 1..Current(u)'
          PROVE  Resolved(template[u].revisions[n])'
      <4>1. CASE n \in 1..Current(u)
        BY <1>2, <4>1
      <4>2. CASE n \notin 1..Current(u)
        <5>1. u = t
          BY <3>1, <4>2, AuthoredRevisions
        <5>2. /\ Current(t) \in Nat /\ Current(t)' = Current(t) + 1
              /\ template'[t].revisions[Current(t) + 1] = r
          BY <3>1, AuthoredRevisions
        <5>3. n = Current(t) + 1
          BY <4>2, <5>1, <5>2
        <5> QED
          BY <3>4, <5>1, <5>2, <5>3
      <4> QED
        BY <4>1, <4>2
    <3> QED
      BY <3>5
  <2>3. CASE ArchivedNow(c)
    <3>1. \A t \in Templates : Current(t)' = Current(t)
      BY <2>3, Archiving DEF Current
    <3> QED
      BY <2>1, <3>1
  <2>4. CASE UNCHANGED template
    <3>1. \A t \in Templates : Current(t)' = Current(t)
      BY <2>4 DEF Current
    <3> QED
      BY <2>1, <3>1
  <2> QED
    BY <2>2, <2>3, <2>4 DEF Shape, Quits, Accepts, Finds, TakesName, OpensCompilation, Saved
<1>5. \A s \in snapshots' : Provenance(s)'
  <2>1. CASE Saved(c)
    <3>1. /\ Phase(c) = "validated" /\ Compiles(c) /\ UNCHANGED template
          /\ snapshots' = snapshots \union {Snapshot(c)}
      BY <2>1 DEF Saved
    <3>2. PICK t \in Templates : t = Request(c).template /\ Request(c).revision \in 1..Current(t)
      BY <3>1, SpecOfShape
    <3>n. PICK n \in 1..Current(t) : n = Request(c).revision
      BY <3>2
    <3>3. PICK r \in Revisions : r = template[t].revisions[n]
      BY RevisionShape
    <3>4. Resolved(r) /\ Compiled(c) = r /\ SpecOf(c) = r.spec
      BY <1>1, <3>1, <3>2, <3>n, <3>3 DEF Compiled, SpecOf
    <3>5. /\ call[c].found \in Seq(Results) /\ r.resolved \in Seq(Results)
          /\ Len(call[c].found) = Len(r.resolved)
      BY <3>1, <3>3, <3>4, ValidatedIsResolved DEF TypeInv, CallRecords, Revisions, Resolved
    <3>6. \A i \in 1..Len(call[c].found) : call[c].found[i] = r.resolved[i]
      BY <3>1, <3>4, ValidatedIsResolved
    <3>7. call[c].found = r.resolved
      BY <3>5, <3>6
    <3>8. ASSUME NEW s, s = Snapshot(c)
          PROVE  Provenance(s)'
      <4>1. s.template = t /\ s.revision = n /\ s.source_bricks = r.resolved
        BY <3>2, <3>n, <3>7, <3>8 DEF Snapshot
      <4>2. Current(t) \in Nat
        BY Lengths
      <4> QED
        BY <3>1, <3>3, <4>1, <4>2 DEF Provenance, Current
    <3> QED
      BY <1>3, <3>1, <3>8
  <2>2. CASE UNCHANGED snapshots
    BY <1>3, <2>2
  <2> QED
    BY <2>1, <2>2 DEF Shape, Quits, Accepts, Finds, TakesName, OpensCompilation, Created, Revised,
                      ArchivedNow, WritesTemplate
<1> QED
  BY <1>4, <1>5 DEF SnapshotProvenance, Resolved, Provenance

------------------------------------------------------------------------------
(* The answers. *)

Code(c) == call[c].answer.code
Written(c, t) == {n \in 1..Current(t) : template[t].revisions[n].author = c}

Earned(c, t) ==
    IF Code(c) = "created" /\ t = Request(c).template THEN {1}
    ELSE IF Code(c) = "revised" /\ t = Request(c).template THEN {Request(c).base + 1} ELSE {}

HasSaved(c) == \E s \in snapshots : s.by = c

Truthful(c) ==
    /\ \A t \in Templates : Written(c, t) = Earned(c, t)
    /\ Code(c) = "compiled" <=> HasSaved(c)
    /\ Code(c) = "archived" => template[Request(c).template].status = "archived"

LEMMA TruthfulSuffices ==
    AnswersTruthful <=> \A c \in Calls : Truthful(c)
  BY DEF AnswersTruthful, Truthful, Written, Earned, HasSaved, Code

LEMMA TruthfulSufficesNext ==
    AnswersTruthful' <=> \A c \in Calls : Truthful(c)'
  BY DEF AnswersTruthful, Truthful, Written, Earned, HasSaved, Code, Request, Current

\* Who authored which revision changes only when a revision is authored.
LEMMA WrittenStays ==
    ASSUME NEW t \in Templates, NEW d, template'[t].revisions = template[t].revisions
    PROVE  Written(d, t)' = Written(d, t)
  BY DEF Written, Current

LEMMA WrittenAuthored ==
    ASSUME NEW t \in Templates, NEW r \in Revisions, Authors(t, r), NEW d
    PROVE  /\ \A u \in Templates \ {t} : Written(d, u)' = Written(d, u)
           /\ r.author # d => Written(d, t)' = Written(d, t)
           /\ r.author = d => Written(d, t)' = Written(d, t) \union {Current(t) + 1}
<1>1. \A u \in Templates \ {t} : Written(d, u)' = Written(d, u)
  BY AuthoredRevisions DEF Written
<1>2. /\ Current(t) \in Nat /\ Current(t)' = Current(t) + 1
      /\ template'[t].revisions[Current(t) + 1] = r
      /\ \A n \in 1..Current(t) : template'[t].revisions[n] = template[t].revisions[n]
  BY AuthoredRevisions
<1>3. PICK k \in Nat : k = Current(t) /\ Current(t)' = k + 1
  BY <1>2
<1>4. /\ Written(d, t) = {n \in 1..k : template[t].revisions[n].author = d}
      /\ Written(d, t)' = {n \in 1..(k + 1) : template'[t].revisions[n].author = d}
  BY <1>3 DEF Written
<1>5. \A n \in 1..(k + 1) : n \in 1..k \/ n = k + 1
  OBVIOUS
<1>6. /\ \A n \in 1..k : template'[t].revisions[n].author = template[t].revisions[n].author
      /\ template'[t].revisions[k + 1].author = r.author
  BY <1>2, <1>3
<1> QED
  BY <1>1, <1>3, <1>4, <1>5, <1>6

\* An archived template stays archived.
LEMMA ArchivedStays ==
    ASSUME NEW c \in Calls, TypeInv, PhasesMatch(c), FoundInStore(c),
           \A t \in Templates : FreshIsActive(t), Shape(c),
           NEW t \in Templates, template[t].status = "archived"
    PROVE  template'[t].status = "archived"
<1>1. CASE Created(c) \/ Revised(c)
  BY <1>1, Authoring DEF Authors
<1>2. CASE ArchivedNow(c)
  BY <1>2, Archiving
<1>3. CASE UNCHANGED template
  BY <1>3
<1> QED
  BY <1>1, <1>2, <1>3 DEF Shape, Quits, Accepts, Finds, TakesName, OpensCompilation, Saved

LEMMA AnswersStep ==
    ASSUME NEW c \in Calls, TypeInv, Shape(c), AnswersTruthful,
           \A t \in Templates : FreshIsActive(t),
           \A d \in Calls : PhasesMatch(d) /\ FoundInStore(d)
    PROVE  AnswersTruthful'
<1>1. \A d \in Calls : Truthful(d)
  BY TruthfulSuffices
<1>2. /\ \A d \in Calls \ {c} : Code(d)' = Code(d) /\ Request(d)' = Request(d)
      /\ Request(c)' = Request(c)
      /\ Code(c) = None /\ Handled(c) /\ Request(c) \in Requests
  <2>1. \A d \in Calls \ {c} : call'[d] = call[d]
    BY ShapeGoes DEF Goes
  <2> QED
    BY <2>1, Untouched, ShapeGoes DEF Goes, Handled, PhasesMatch, Code
<1>3. Request(c).template \in Templates
  BY <1>2, RequestShape
<1>4. (\A t \in Templates : Written(c, t) = {}) /\ ~HasSaved(c)
  BY <1>1, <1>2 DEF Truthful, Earned, None
<1>5. ASSUME NEW d \in Calls \ {c}, \A t \in Templates : Written(d, t)' = Written(d, t),
             HasSaved(d)' = HasSaved(d)
      PROVE  Truthful(d)'
  <2>1. Code(d)' = Code(d) /\ Request(d)' = Request(d) /\ Truthful(d)
    BY <1>1, <1>2
  <2>2. Code(d) = "archived" => Request(d).template \in Templates
    BY RequestShape DEF PhasesMatch, Code, None
  <2>3. Code(d)' = "archived" => template'[Request(d)'.template].status = "archived"
    <3>1. SUFFICES ASSUME Code(d) = "archived"
                   PROVE  template'[Request(d).template].status = "archived"
      BY <2>1
    <3>2. PICK t \in Templates : t = Request(d).template
      BY <2>2, <3>1
    <3>3. template[t].status = "archived"
      BY <2>1, <3>1, <3>2 DEF Truthful
    <3> QED
      BY <3>2, <3>3, ArchivedStays
  <2>4. \A t \in Templates : Written(d, t)' = Earned(d, t)'
    BY <1>5, <2>1 DEF Truthful, Earned
  <2>5. Code(d)' = "compiled" <=> HasSaved(d)'
    BY <1>5, <2>1 DEF Truthful
  <2> QED
    BY <2>3, <2>4, <2>5 DEF Truthful
<1>6. CASE Created(c) \/ Revised(c)
  <2>1. PICK t \in Templates, r \in Revisions :
            t = Request(c).template /\ r = RevisionView(c) /\ Authors(t, r)
    BY <1>6, Authoring
  <2>2. r.author = c /\ UNCHANGED snapshots
    BY <1>6, <2>1 DEF RevisionView, Created, Revised, WritesTemplate
  <2>3. ASSUME NEW d \in Calls \ {c}
        PROVE  Truthful(d)'
    <3>1. \A u \in Templates : Written(d, u)' = Written(d, u)
      BY <2>1, <2>2, <2>3, WrittenAuthored
    <3>2. HasSaved(d)' = HasSaved(d)
      BY <2>2 DEF HasSaved
    <3> QED
      BY <1>5, <3>1, <3>2
  <2>4. /\ Written(c, t)' = {Current(t) + 1}
        /\ \A u \in Templates \ {t} : Written(c, u)' = {}
    BY <1>4, <2>1, <2>2, WrittenAuthored
  <2>5. ~HasSaved(c)'
    BY <1>4, <2>2 DEF HasSaved
  <2>6. Created(c) => Code(c)' = "created" /\ Current(t) = 0
    BY <2>1, Lengths DEF Created, WritesTemplate, Answered, Code, Exists
  <2>7. Revised(c) => Code(c)' = "revised" /\ Current(t) = Request(c).base
    BY <2>1 DEF Revised, WritesTemplate, Answered, Code
  <2>8. \A u \in Templates : Written(c, u)' = Earned(c, u)'
    BY <1>2, <1>6, <2>1, <2>4, <2>6, <2>7 DEF Earned
  <2>9. Truthful(c)'
    BY <1>6, <2>5, <2>6, <2>7, <2>8 DEF Truthful
  <2> QED
    BY <2>3, <2>9, TruthfulSufficesNext
<1>7. CASE ~(Created(c) \/ Revised(c))
  <2>1. \A t \in Templates : template'[t].revisions = template[t].revisions
    <3>1. UNCHANGED template \/ ArchivedNow(c)
      BY <1>7 DEF Shape, Quits, Accepts, Finds, TakesName, OpensCompilation, Saved
    <3> QED
      BY <3>1, Archiving
  <2>2. \A d \in Calls, t \in Templates : Written(d, t)' = Written(d, t)
    BY <2>1, WrittenStays
  <2>3. CASE Saved(c)
    <3>1. snapshots' = snapshots \union {Snapshot(c)} /\ Snapshot(c).by = c /\ Code(c)' = "compiled"
      BY <2>3 DEF Saved, Snapshot, Answered, Code
    <3>2. HasSaved(c)' /\ \A d \in Calls \ {c} : HasSaved(d)' = HasSaved(d)
      BY <3>1 DEF HasSaved
    <3>3. Truthful(c)'
      BY <1>4, <2>2, <3>1, <3>2 DEF Truthful, Earned
    <3> QED
      BY <1>5, <2>2, <3>2, <3>3, TruthfulSufficesNext
  <2>4. CASE ~Saved(c)
    <3>1. UNCHANGED snapshots
      BY <1>7, <2>4 DEF Shape, Quits, Accepts, Finds, TakesName, OpensCompilation, ArchivedNow,
                        WritesTemplate
    <3>2. \A d \in Calls : HasSaved(d)' = HasSaved(d)
      BY <3>1 DEF HasSaved
    <3>3. /\ Code(c)' \notin {"created", "revised", "compiled"}
          /\ Code(c)' = "archived" => template'[Request(c).template].status = "archived"
      <4>1. CASE Quits(c)
        BY <4>1 DEF Quits, Refuses, Refusals, Answered, Code
      <4>2. CASE ArchivedNow(c)
        <5>1. Code(c)' = "archived"
          BY <4>2 DEF ArchivedNow, WritesTemplate, Answered, Code
        <5> QED
          BY <4>2, <5>1, Archiving
      <4>3. CASE Accepts(c) \/ Finds(c) \/ TakesName(c) \/ OpensCompilation(c)
        <5>1. Code(c)' = None
          BY <1>2, <4>3 DEF Accepts, Finds, TakesName, OpensCompilation, Proceeds, Code
        <5> QED
          BY <5>1 DEF None
      <4> QED
        BY <1>7, <2>4, <4>1, <4>2, <4>3 DEF Shape
    <3>4. Truthful(c)'
      BY <1>2, <1>4, <2>2, <3>2, <3>3 DEF Truthful, Earned
    <3> QED
      BY <1>5, <2>2, <3>2, <3>4, TruthfulSufficesNext
  <2> QED
    BY <2>3, <2>4
<1> QED
  BY <1>6, <1>7

------------------------------------------------------------------------------
(* The other steps, and the theorems. *)

LEMMA CallOnly ==
    ASSUME NEW c \in Calls, TemplateInv, Call(c)
    PROVE  TemplateInv'
<1>1. UNCHANGED <<stored, template, reserved, snapshots, turn>>
  BY DEF Call
<1>2. PICK request \in Requests :
        /\ call' \in [Calls -> CallRecords]
        /\ Phase(c) = "none"
        /\ Request(c)' = request /\ Phase(c)' = FirstPhase(request)
        /\ call[c].found' = call[c].found /\ Code(c)' = Code(c)
        /\ \A d \in Calls \ {c} : call'[d] = call[d]
  BY Asking DEF TemplateInv, Code
<1>3. TypeInv' /\ Grows
  BY <1>1, <1>2, Lengths DEF TemplateInv, TypeInv, Grows, Current
<1>4. ASSUME NEW d \in Calls
      PROVE  PhasesMatch(d)' /\ ReservesName(d)' /\ FoundInStore(d)' /\ FoundAll(d)'
  <2>1. /\ PhasesMatch(d) /\ ReservesName(d) /\ FoundInStore(d) /\ FoundAll(d) /\ TypeInv
        /\ PhasesMatch(c)
    BY DEF TemplateInv
  <2>2. CASE d = c
    <3>1. Phase(c)' \in {"validating", "queued"} /\ call[c].found' = <<>> /\ Code(c)' = None
      BY <1>2, <2>1 DEF FirstPhase, PhasesMatch, Code
    <3>2. /\ Phase(c)' = "validating" => Op(c)' \in {"validate", "create", "revise"}
          /\ Phase(c)' = "queued" => Op(c)' \in {"archive", "read", "compile"}
      BY <1>2, RequestShape DEF FirstPhase, Op
    <3>3. PhasesMatch(c)'
      BY <1>2, <3>1, <3>2 DEF PhasesMatch, Code
    <3>4. FoundInStore(c)'
      <4>1. CASE Phase(c)' = "validating"
        <5>1. request.spec \in Specs /\ SpecOf(c)' = request.spec /\ ~Compiles(c)'
          BY <1>2, <3>2, <4>1, RequestShape DEF Op, SpecOf, Compiles
        <5>2. Len(SpecOf(c)') \in Nat
          BY <5>1, ConstantsOK
        <5>3. Len(call[c].found)' = 0
          BY <3>1
        <5> QED
          BY <5>1, <5>2, <5>3 DEF FoundInStore
      <4>2. CASE Phase(c)' = "queued"
        BY <4>2 DEF FoundInStore
      <4> QED
        BY <3>1, <4>1, <4>2
    <3>5. ReservesName(c)' /\ FoundAll(c)'
      BY <3>1 DEF ReservesName, FoundAll
    <3> QED
      BY <2>2, <3>3, <3>4, <3>5
  <2>3. CASE d # c
    <3>1. /\ Phase(d)' = Phase(d) /\ Request(d)' = Request(d) /\ Op(d)' = Op(d)
          /\ call[d].found' = call[d].found /\ Code(d)' = Code(d)
      BY <1>2, <2>3, Untouched DEF Code
    <3>2. PhasesMatch(d)'
      BY <2>1, <3>1 DEF PhasesMatch, Code
    <3>3. ReservesName(d)'
      BY <1>1, <2>1, <3>1 DEF ReservesName, Exists, Current
    <3>4. CASE Phase(d) \in {"validating", "validated", "reserved"}
      BY <1>3, <2>1, <3>1, <3>2, <3>3, <3>4, FoundStays DEF FoundAll
    <3>5. CASE Phase(d) \notin {"validating", "validated", "reserved"}
      BY <3>1, <3>2, <3>3, <3>5 DEF FoundInStore, FoundAll
    <3> QED
      BY <3>4, <3>5
  <2> QED
    BY <2>2, <2>3
<1>5. \A t \in Templates : FreshIsActive(t)'
  BY <1>1 DEF TemplateInv, FreshIsActive, Exists, Current
<1>6. NamesMatchTemplates'
  <2>1. \A d \in Calls : /\ Phase(d)' = "reserved" <=> Phase(d) = "reserved"
                         /\ Phase(d) = "reserved" => Request(d)' = Request(d)
    BY <1>2, Untouched DEF FirstPhase
  <2> QED
    BY <1>1, <2>1 DEF TemplateInv, NamesMatchTemplates, Exists, Current, Phase
<1>7. SnapshotProvenance'
  BY <1>1 DEF TemplateInv, SnapshotProvenance, Current, Found
<1>8. AnswersTruthful'
  <2>1. ASSUME NEW d \in Calls
        PROVE  Truthful(d)'
    <3>1. Truthful(d) /\ Code(c) = None
      BY <1>2, TruthfulSuffices DEF TemplateInv, PhasesMatch, Code
    <3>2. Code(d)' = Code(d) /\ (d # c => Request(d)' = Request(d))
      BY <1>2, Untouched DEF Code
    <3>3. /\ \A t \in Templates : Written(d, t)' = Written(d, t)
          /\ HasSaved(d)' = HasSaved(d)
      BY <1>1 DEF Written, HasSaved, Current
    <3> QED
      BY <1>1, <3>1, <3>2, <3>3 DEF Truthful, Earned, None
  <2> QED
    BY <2>1, TruthfulSufficesNext
<1> QED
  BY <1>3, <1>4, <1>5, <1>6, <1>7, <1>8 DEF TemplateInv

LEMMA StepOfCall ==
    ASSUME NEW c \in Calls, TemplateInv, Step(c)
    PROVE  TemplateInv'
<1>1. /\ TypeInv /\ NamesMatchTemplates /\ SnapshotProvenance /\ AnswersTruthful
      /\ \A t \in Templates : FreshIsActive(t)
      /\ \A d \in Calls : PhasesMatch(d) /\ ReservesName(d) /\ FoundInStore(d) /\ FoundAll(d)
  BY DEF TemplateInv
<1>2. Shape(c)
  BY <1>1, StepShapes
<1>3. TypeInv' /\ Grows
  BY <1>1, <1>2, TypeStep, StepGrows
<1>4. \A t \in Templates : FreshIsActive(t)'
  BY <1>1, <1>2, ExistsStays
<1>5. NamesMatchTemplates' /\ \A d \in Calls : ReservesName(d)'
  BY <1>1, <1>2, NamesStep
<1>6. \A d \in Calls : PhasesMatch(d)' /\ FoundInStore(d)' /\ FoundAll(d)'
  BY <1>1, <1>2, <1>3, PhasesStay, FoundStep
<1>7. SnapshotProvenance' /\ AnswersTruthful'
  BY <1>1, <1>2, <1>3, ProvenanceStep, AnswersStep
<1> QED
  BY <1>3, <1>4, <1>5, <1>6, <1>7 DEF TemplateInv

\* Whatever becomes of a brick, its revisions stay; what they hold may change.
LEMMA BrickOnly ==
    ASSUME NEW b \in Changing, TemplateInv, BrickStep(b)
    PROVE  TemplateInv'
<1>1. UNCHANGED <<template, reserved, snapshots, turn, call>> /\ b \in Bricks
  BY ConstantsOK DEF BrickStep, CreateBrick, ReviseBrick, ArchiveBrick, Damage
<1>2. stored \in [Bricks -> [status : Statuses, contents : Seq(Contents)]]
  BY DEF TemplateInv, TypeInv
<1>3. PICK brick : /\ brick \in [status : Statuses, contents : Seq(Contents)]
                   /\ Len(stored[b].contents) <= Len(brick.contents)
                   /\ stored' = [stored EXCEPT ![b] = brick]
  <2> DEFINE old == stored[b]
  <2>1. old \in [status : Statuses, contents : Seq(Contents)] /\ old.contents \in Seq(Contents)
    BY <1>1, <1>2
  <2>2. CASE CreateBrick(b)
    <3> DEFINE new == [old EXCEPT !.contents = <<"authored">>]
    <3>1. <<"authored">> \in Seq(Contents)
      BY DEF Contents
    <3>2. new \in [status : Statuses, contents : Seq(Contents)] /\ new.contents = <<"authored">>
      BY <2>1, <3>1
    <3>3. Len(old.contents) <= Len(new.contents)
      BY <2>1, <2>2, <3>2 DEF CreateBrick
    <3> QED
      BY <2>2, <3>2, <3>3 DEF CreateBrick
  <2>3. CASE ReviseBrick(b)
    <3> DEFINE new == [old EXCEPT !.contents = Append(@, "authored")]
    <3>1. /\ Append(old.contents, "authored") \in Seq(Contents)
          /\ Len(old.contents) <= Len(Append(old.contents, "authored"))
      BY <2>1 DEF Contents
    <3>2. /\ new \in [status : Statuses, contents : Seq(Contents)]
          /\ new.contents = Append(old.contents, "authored")
      BY <2>1, <3>1
    <3> QED
      BY <2>3, <3>1, <3>2 DEF ReviseBrick
  <2>4. CASE ArchiveBrick(b)
    <3> DEFINE new == [old EXCEPT !.status = "archived"]
    <3>1. /\ new \in [status : Statuses, contents : Seq(Contents)]
          /\ new.contents = old.contents
      BY <2>1 DEF Statuses
    <3>2. Len(old.contents) <= Len(new.contents)
      BY <2>1, <3>1
    <3> QED
      BY <2>4, <3>1, <3>2 DEF ArchiveBrick
  <2>5. CASE Damage(b)
    <3>1. PICK n \in DOMAIN old.contents, x \in {"rewritten", "corrupt"} :
              stored' = [stored EXCEPT ![b].contents[n] = x]
      BY <2>5 DEF Damage
    <3> DEFINE contents == [old.contents EXCEPT ![n] = x]
               new == [old EXCEPT !.contents[n] = x]
    <3>2. contents \in Seq(Contents) /\ Len(contents) = Len(old.contents)
      <4>1. x \in Contents
        BY DEF Contents
      <4> QED
        BY <2>1, <4>1
    <3>3. new \in [status : Statuses, contents : Seq(Contents)] /\ new.contents = contents
      BY <2>1, <3>2
    <3>4. Len(old.contents) <= Len(new.contents)
      BY <2>1, <3>2, <3>3
    <3> QED
      BY <3>1, <3>3, <3>4
  <2> QED
    BY <2>2, <2>3, <2>4, <2>5 DEF BrickStep
<1>4. TypeInv' /\ Grows
  BY <1>1, <1>2, <1>3, Lengths DEF TemplateInv, TypeInv, Grows, Current
<1>5. \A d \in Calls : /\ Phase(d)' = Phase(d) /\ Request(d)' = Request(d)
                       /\ call[d].found' = call[d].found
  BY <1>1 DEF Phase, Request
<1>6. \A d \in Calls : PhasesMatch(d)' /\ ReservesName(d)'
  BY <1>1, <1>5 DEF TemplateInv, PhasesMatch, ReservesName, Op, Exists, Current
<1>7. ASSUME NEW d \in Calls
      PROVE  FoundInStore(d)' /\ FoundAll(d)'
  <2>1. PhasesMatch(d) /\ FoundInStore(d) /\ FoundAll(d) /\ TypeInv
    BY DEF TemplateInv
  <2>2. CASE Phase(d) \in {"validating", "validated", "reserved"}
    BY <1>4, <1>5, <2>1, <2>2, FoundStays DEF FoundAll
  <2>3. CASE Phase(d) \notin {"validating", "validated", "reserved"}
    BY <1>5, <2>3 DEF FoundInStore, FoundAll
  <2> QED
    BY <2>2, <2>3
<1>8. NamesMatchTemplates' /\ \A t \in Templates : FreshIsActive(t)'
  BY <1>1 DEF TemplateInv, NamesMatchTemplates, FreshIsActive, Exists, Current, Request
<1>9. SnapshotProvenance'
  <2>1. /\ \A t \in Templates : \A n \in 1..Current(t) : Resolved(template[t].revisions[n])
        /\ \A s \in snapshots : Provenance(s)
    BY ProvenanceParts DEF TemplateInv
  <2>2. ASSUME NEW t \in Templates, NEW n \in 1..Current(t)
        PROVE  Resolved(template[t].revisions[n])'
    <3>1. PICK r \in Revisions : r = template[t].revisions[n]
      BY RevisionShape DEF TemplateInv
    <3>2. Resolved(r)'
      BY <1>4, <2>1, <3>1, ResolvedStays DEF TemplateInv
    <3> QED
      BY <1>1, <3>1, <3>2
  <2>3. \A s \in snapshots : Provenance(s)'
    BY <1>4, <2>1, ProvenanceStays DEF TemplateInv
  <2> QED
    BY <1>1, <2>2, <2>3 DEF SnapshotProvenance, Resolved, Provenance, Current
<1>10. AnswersTruthful'
  BY <1>1 DEF TemplateInv, AnswersTruthful, Current, Request
<1> QED
  BY <1>4, <1>6, <1>7, <1>8, <1>9, <1>10 DEF TemplateInv

LEMMA TemplateInvariant == Spec => []TemplateInv
<1>1. Init => TemplateInv
  <2> SUFFICES ASSUME Init
               PROVE  TemplateInv
    OBVIOUS
  <2>1. TypeInv
    <3>1. /\ Nothing \in Requests \union {Nothing} /\ "none" \in Phases /\ <<>> \in Seq(Results)
          /\ Unanswered \in [code : Codes, revision : Nat]
      BY DEF Phases, Unanswered, Answer, Codes
    <3>2. <<>> \in Seq(Contents) /\ <<"authored">> \in Seq(Contents) /\ <<>> \in Seq(Revisions)
      BY DEF Contents
    <3>3. call \in [Calls -> CallRecords]
      BY <3>1 DEF Init, CallRecords
    <3>4. /\ stored \in [Bricks -> [status : Statuses, contents : Seq(Contents)]]
          /\ template \in [Templates -> [status : Statuses, revisions : Seq(Revisions)]]
      BY <3>2 DEF Init, Statuses
    <3> QED
      BY <3>3, <3>4 DEF Init, TypeInv
  <2>2. \A c \in Calls : Phase(c) = "none" /\ Code(c) = None /\ call[c].found = <<>>
    BY DEF Init, Phase, Code, Unanswered, Answer
  <2>3. \A t \in Templates : Current(t) = 0 /\ template[t].status = "active"
    BY DEF Init, Current
  <2>4. reserved = {} /\ snapshots = {}
    BY DEF Init
  <2>5. \A c \in Calls : PhasesMatch(c) /\ ReservesName(c) /\ FoundInStore(c) /\ FoundAll(c)
    BY <2>2 DEF PhasesMatch, ReservesName, FoundInStore, FoundAll, Code
  <2>6. NamesMatchTemplates /\ SnapshotProvenance /\ \A t \in Templates : FreshIsActive(t)
    BY <2>3, <2>4 DEF NamesMatchTemplates, SnapshotProvenance, FreshIsActive, Exists
  <2>7. \A c \in Calls : Truthful(c)
    BY <2>2, <2>3, <2>4 DEF Truthful, Earned, Written, HasSaved, None
  <2> QED
    BY <2>1, <2>5, <2>6, <2>7, TruthfulSuffices DEF TemplateInv
<1>2. TemplateInv /\ [Next]_vars => TemplateInv'
  <2> SUFFICES ASSUME TemplateInv, [Next]_vars
               PROVE  TemplateInv'
    OBVIOUS
  <2>1. CASE UNCHANGED vars
    <3>1. UNCHANGED <<stored, template, reserved, snapshots, turn, call>>
      BY <2>1 DEF vars
    <3>2. TypeInv'
      BY <3>1 DEF TemplateInv, TypeInv
    <3>3. \A d \in Calls : PhasesMatch(d)' /\ ReservesName(d)'
      BY <3>1 DEF TemplateInv, PhasesMatch, ReservesName, Phase, Op, Request, Exists, Current
    <3>4. ASSUME NEW d \in Calls
          PROVE  FoundInStore(d)' /\ FoundAll(d)'
      <4>1. FoundInStore(d) /\ FoundAll(d)
        BY DEF TemplateInv
      <4>2. SpecOf(d)' = SpecOf(d) /\ Compiles(d)' = Compiles(d) /\ Compiled(d)' = Compiled(d)
        BY <3>1 DEF SpecOf, Compiles, Compiled, Request
      <4>3. /\ Phase(d)' = Phase(d) /\ Request(d)' = Request(d)
            /\ Current(Request(d).template)' = Current(Request(d).template)
        BY <3>1 DEF Phase, Request, Current
      <4> QED
        BY <3>1, <4>1, <4>2, <4>3 DEF FoundInStore, FoundAll, Found
    <3>5. NamesMatchTemplates' /\ \A t \in Templates : FreshIsActive(t)'
      BY <3>1 DEF TemplateInv, NamesMatchTemplates, FreshIsActive, Exists, Current, Request
    <3>6. SnapshotProvenance'
      BY <3>1 DEF TemplateInv, SnapshotProvenance, Current, Found
    <3>7. AnswersTruthful'
      BY <3>1 DEF TemplateInv, AnswersTruthful, Current, Request
    <3> QED
      BY <3>2, <3>3, <3>4, <3>5, <3>6, <3>7 DEF TemplateInv
  <2> QED
    BY <2>1, CallOnly, StepOfCall, BrickOnly DEF Next
<1> QED
  BY <1>1, <1>2, PTL DEF Spec

\* A name is given out exactly when its template exists, but for the one that a unit
\* of work is about to create (application.ts:372-393).
THEOREM NamesFollowTemplates == Spec => []NamesMatchTemplates
<1>1. TemplateInv => NamesMatchTemplates
  BY DEF TemplateInv
<1> QED
  BY <1>1, TemplateInvariant, PTL

\* Snapshots and template revisions hold what their references were resolved to when
\* the revision was authored.
THEOREM SnapshotsAreTraceable == Spec => []SnapshotProvenance
<1>1. TemplateInv => SnapshotProvenance
  BY DEF TemplateInv
<1> QED
  BY <1>1, TemplateInvariant, PTL

\* Success is reported exactly of what was written, by the call that is told.
THEOREM AnswersAreTrue == Spec => []AnswersTruthful
<1>1. TemplateInv => AnswersTruthful
  BY DEF TemplateInv
<1> QED
  BY <1>1, TemplateInvariant, PTL

------------------------------------------------------------------------------
(* Templates implement BrickHistory. *)

\* The refinement mapping: who authored which revision, and what is archived.
Authorship == [t \in Templates |-> [n \in 1..Current(t) |-> template[t].revisions[n].author]]
ArchivedTemplates == {t \in Templates : template[t].status = "archived"}

LEMMA AuthorshipShape ==
    ASSUME TypeInv
    PROVE  /\ Authorship \in [Templates -> Seq(Calls)]
           /\ \A t \in Templates : Authorship[t] # <<>> <=> Exists(t)
           /\ \A t \in Templates : Len(Authorship[t]) = Current(t)
<1>1. ASSUME NEW t \in Templates
      PROVE  /\ Authorship[t] \in Seq(Calls) /\ Len(Authorship[t]) = Current(t)
             /\ Authorship[t] # <<>> <=> Exists(t)
  <2>1. template[t].revisions \in Seq(Revisions) /\ Current(t) \in Nat
    BY DEF TypeInv, Current
  <2>2. \A n \in 1..Current(t) : template[t].revisions[n].author \in Calls
    <3>1. ASSUME NEW n \in 1..Current(t)
          PROVE  template[t].revisions[n].author \in Calls
      <4>1. template[t].revisions[n] \in Revisions
        BY RevisionShape
      <4> QED
        BY <4>1 DEF Revisions
    <3> QED
      BY <3>1
  <2>3. Authorship[t] = [n \in 1..Current(t) |-> template[t].revisions[n].author]
    BY DEF Authorship
  <2>4. Authorship[t] \in Seq(Calls) /\ Len(Authorship[t]) = Current(t)
    BY <2>1, <2>2, <2>3
  <2>5. Authorship[t] # <<>> <=> Current(t) # 0
    BY <2>1, <2>4
  <2> QED
    BY <2>1, <2>4, <2>5 DEF Exists
<1> QED
  BY <1>1 DEF Authorship

AuthorshipType ==
    /\ Authorship \in [Templates -> Seq(Calls)]
    /\ \A t \in Templates : Len(Authorship[t]) = Current(t)

LEMMA AuthorshipTyped == TypeInv => AuthorshipType
  BY AuthorshipShape DEF AuthorshipType

LEMMA AuthorshipGrows ==
    ASSUME TypeInv, TypeInv', NEW t \in Templates, NEW r \in Revisions, Authors(t, r)
    PROVE  /\ Authorship' = [Authorship EXCEPT ![t] = Append(@, r.author)]
           /\ UNCHANGED ArchivedTemplates /\ t \notin ArchivedTemplates
<1>1. /\ Authorship \in [Templates -> Seq(Calls)] /\ Authorship' \in [Templates -> Seq(Calls)]
      /\ Len(Authorship[t]) = Current(t) /\ Len(Authorship'[t]) = Current(t)'
  <2>1. TypeInv' => AuthorshipType'
    BY AuthorshipTyped, PTL
  <2> QED
    BY <2>1, AuthorshipTyped DEF AuthorshipType
<1>2. /\ Current(t) \in Nat /\ Current(t)' = Current(t) + 1
      /\ template'[t].revisions[Current(t) + 1] = r
      /\ \A n \in 1..Current(t) : template'[t].revisions[n] = template[t].revisions[n]
      /\ \A u \in Templates \ {t} :
           Current(u)' = Current(u) /\ template'[u].revisions = template[u].revisions
  BY AuthoredRevisions
<1>3. \A u \in Templates \ {t} : Authorship'[u] = Authorship[u]
  BY <1>2 DEF Authorship
<1>4. Authorship'[t] = Append(Authorship[t], r.author)
  <2>1. PICK k \in Nat : k = Current(t) /\ Current(t)' = k + 1
    BY <1>2
  <2>2. /\ Authorship[t] = [n \in 1..k |-> template[t].revisions[n].author]
        /\ Authorship'[t] = [n \in 1..(k + 1) |-> template'[t].revisions[n].author]
    BY <2>1 DEF Authorship
  <2>3. /\ Authorship[t] \in Seq(Calls) /\ Len(Authorship[t]) = k
        /\ Authorship'[t] \in Seq(Calls) /\ Len(Authorship'[t]) = k + 1
    BY <1>1, <2>1
  <2>4. PICK old, new, a :
            old = Authorship[t] /\ new = Authorship'[t] /\ a = r.author
    OBVIOUS
  <2>5. \A n \in 1..k : new[n] = old[n]
    <3>1. ASSUME NEW n \in 1..k
          PROVE  new[n] = old[n]
      <4>1. n \in 1..(k + 1) /\ n \in 1..Current(t)
        BY <2>1
      <4>2. template'[t].revisions[n] = template[t].revisions[n]
        BY <1>2, <4>1
      <4>3. /\ old[n] = template[t].revisions[n].author
            /\ new[n] = template'[t].revisions[n].author
        BY <2>2, <2>4, <4>1
      <4> QED
        BY <4>2, <4>3
    <3> QED
      BY <3>1
  <2>6. new[k + 1] = a
    BY <1>2, <2>1, <2>2, <2>4
  <2>7. a \in Calls /\ old \in Seq(Calls) /\ new \in Seq(Calls) /\ Len(old) = k /\ Len(new) = k + 1
    BY <2>3, <2>4 DEF Revisions
  <2>8. new = Append(old, a)
    BY <2>5, <2>6, <2>7
  <2> QED
    BY <2>4, <2>8
<1>5. UNCHANGED ArchivedTemplates /\ t \notin ArchivedTemplates
  <2>1. \A u \in Templates : template'[u].status = template[u].status
    BY DEF Authors
  <2> QED
    BY <2>1 DEF ArchivedTemplates, Authors
<1>6. Authorship' = [Authorship EXCEPT ![t] = Append(Authorship[t], r.author)]
  BY <1>1, <1>3, <1>4
<1> QED
  BY <1>5, <1>6

LEMMA HistoryStep ==
    ASSUME TemplateInv, TemplateInv', [Next]_vars
    PROVE  \/ UNCHANGED <<Authorship, ArchivedTemplates>>
           \/ \E t \in Templates : Histories!Archive(t)
                                   \/ \E c \in Calls : Histories!Create(t, c) \/ Histories!Revise(t, c)
<1> USE DEF Authorship, ArchivedTemplates
<1>1. CASE UNCHANGED template
  BY <1>1 DEF Current
<1>2. ASSUME NEW c \in Calls, Step(c)
      PROVE  \/ UNCHANGED <<Authorship, ArchivedTemplates>>
             \/ \E t \in Templates :
                  Histories!Archive(t)
                  \/ \E d \in Calls : Histories!Create(t, d) \/ Histories!Revise(t, d)
  <2>1. /\ TypeInv /\ TypeInv' /\ Shape(c)
        /\ PhasesMatch(c) /\ FoundInStore(c) /\ \A t \in Templates : FreshIsActive(t)
    BY <1>2, StepShapes DEF TemplateInv
  <2>2. CASE Created(c) \/ Revised(c)
    <3>1. PICK t \in Templates, r \in Revisions :
              t = Request(c).template /\ r = RevisionView(c) /\ Authors(t, r)
      BY <2>1, <2>2, Authoring
    <3>2. r.author = c
      BY <3>1 DEF RevisionView
    <3> HIDE DEF Authorship, ArchivedTemplates
    <3>3. /\ Authorship' = [Authorship EXCEPT ![t] = Append(Authorship[t], c)]
          /\ UNCHANGED ArchivedTemplates /\ t \notin ArchivedTemplates
      BY <2>1, <3>1, <3>2, AuthorshipGrows
    <3>4. CASE Authorship[t] = <<>>
      <4>1. Append(Authorship[t], c) = <<c>>
        BY <3>4
      <4>2. Histories!Create(t, c)
        BY <3>3, <3>4, <4>1 DEF Histories!Create, Histories!Exists, Authorship, ArchivedTemplates
      <4> QED
        BY <4>2
    <3>5. CASE Authorship[t] # <<>>
      <4>1. Histories!Revise(t, c)
        BY <3>3, <3>5 DEF Histories!Revise, Histories!Exists, Authorship, ArchivedTemplates
      <4> QED
        BY <4>1
    <3> QED
      BY <3>4, <3>5
  <2>3. CASE ArchivedNow(c)
    <3>1. PICK t \in Templates :
              /\ t = Request(c).template /\ template'[t].status = "archived" /\ Exists(t)
              /\ \A u \in Templates : template'[u].revisions = template[u].revisions
              /\ \A u \in Templates \ {t} : template'[u] = template[u]
      BY <2>1, <2>3, Archiving DEF ArchivedNow
    <3>2. UNCHANGED Authorship
      BY <3>1 DEF Current
    <3>3. ArchivedTemplates' = ArchivedTemplates \union {t}
      BY <3>1
    <3>4. Authorship[t] # <<>>
      BY <2>1, <3>1, AuthorshipShape
    <3> HIDE DEF Authorship, ArchivedTemplates
    <3>5. Histories!Archive(t)
      BY <3>2, <3>3, <3>4 DEF Histories!Archive, Histories!Exists, Authorship, ArchivedTemplates
    <3> QED
      BY <3>5
  <2> QED
    BY <1>1, <2>1, <2>2, <2>3 DEF Shape, Quits, Accepts, Finds, TakesName, OpensCompilation, Saved
<1>3. ASSUME NEW c \in Calls, Call(c)
      PROVE  UNCHANGED template
  BY <1>3 DEF Call
<1>4. ASSUME NEW b \in Changing, BrickStep(b)
      PROVE  UNCHANGED template
  BY <1>4 DEF BrickStep, CreateBrick, ReviseBrick, ArchiveBrick, Damage
<1>5. UNCHANGED vars => UNCHANGED template
  BY DEF vars
<1> QED
  BY <1>1, <1>2, <1>3, <1>4, <1>5 DEF Next

\* Template revisions are immutable, numbered without a gap and written by one call
\* each, and end when the template is archived, whatever bricks and validations do.
THEOREM HistoryImplemented == Spec => ImplementsHistory
<1>1. Init => Histories!Init
  <2> SUFFICES ASSUME Init
               PROVE  Histories!Init
    OBVIOUS
  <2>1. \A t \in Templates : Current(t) = 0 /\ template[t].status = "active"
    BY DEF Init, Current
  <2>2. Authorship = [t \in Templates |-> <<>>]
    <3>1. \A t \in Templates : [n \in 1..Current(t) |-> template[t].revisions[n].author] = <<>>
      BY <2>1
    <3> QED
      BY <3>1 DEF Authorship
  <2>3. Authorship \in [Templates -> Seq(Calls)]
    BY <2>2
  <2>4. ArchivedTemplates = {}
    BY <2>1 DEF ArchivedTemplates
  <2> QED
    BY <2>3, <2>4 DEF Histories!Init, Authorship, ArchivedTemplates
<1>2. TemplateInv /\ TemplateInv' /\ [Next]_vars => [Histories!Next]_(Histories!vars)
  <2> SUFFICES ASSUME TemplateInv, TemplateInv', [Next]_vars
               PROVE  [Histories!Next]_(Histories!vars)
    OBVIOUS
  <2>1. UNCHANGED <<Authorship, ArchivedTemplates>> => UNCHANGED Histories!vars
    BY DEF Histories!vars, Authorship, ArchivedTemplates
  <2> QED
    BY <2>1, HistoryStep DEF Histories!Next
<1> QED
  BY <1>1, <1>2, TemplateInvariant, PTL DEF Spec, ImplementsHistory, Histories!Spec

==============================================================================
