-------------------------- MODULE MCSchemaBootstrap --------------------------
(* Four openers in three processes, the five objects of schema v1 in their    *)
(* order, and one object that is not of it.                                   *)
EXTENDS SchemaBootstrap

CONSTANTS o1, o2, o3, o4, p1, p2, p3

MCOpeners == {o1, o2, o3, o4}
MCProcesses == {p1, p2, p3}
MCProcessOf == [o \in MCOpeners |-> CASE o \in {o1, o2} -> p1 [] o = o3 -> p2 [] o = o4 -> p3]
MCObjectsInOrder ==
    <<"project_schema_migrations", "projects", "definition_brick_aggregates",
      "definition_brick_revisions", "definition_brick_revisions_exact">>
MCOtherObjects == {"other"}

==============================================================================
