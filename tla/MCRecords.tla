------------------------------ MODULE MCRecords ------------------------------
(***************************************************************************)
(* The safety settings of MCFleet and MCDocuments, checked in one run: the *)
(* components of the two share no state, and `part' names the one that     *)
(* moves.                                                                  *)
(***************************************************************************)
EXTENDS MCFleet

VARIABLES graph, phase, outcome, status, passes,
          cfg, native, stage,
          policy, handled,
          listing, table, time, cached, cursor, seen, again, start, walk,
          pol, polVer, polAsg, polSess, wiped, astray,
          db, revision, tx, dbEvents

docVars ==
    <<graph, phase, outcome, status, passes, cfg, native, stage, policy, handled,
      listing, table, time, cached, cursor, seen, again, start, walk,
      pol, polVer, polAsg, polSess, wiped, astray, db, revision, tx, dbEvents>>

Documents == INSTANCE MCDocuments

RecordsInit ==
    \/ FleetInit /\ Documents!DocumentsIdle
    \/ FleetIdle /\ Documents!DocumentsInit

RecordsNext ==
    \/ FleetNext /\ UNCHANGED <<part, docVars>>
    \/ Documents!DocumentsNext /\ UNCHANGED <<part, fleetVars>>

RecordsSpec == RecordsInit /\ [][RecordsNext]_<<part, fleetVars, docVars>>

-----------------------------------------------------------------------------

\* The compiler accepts exactly the sound workflow documents, and a run of one takes exactly
\* the routes its steps open (compile_workflow, advance_run).
GraphSound == Documents!GraphSound


\* The current version of a policy is a published one of its own, unless it was published
\* with the id of another policy's version (publish_version).
CurrentIsPublished == Documents!CurrentIsPublished

\* Page by page, an exact list returns every row that stays, once (paginate_keyset).
NothingLost == Documents!NothingLost

\* The stored revision says what the schema is, and the ORM fits it at the head (alembic).
SchemaSound == Documents!SchemaSound

\* Whatever release and rows a deployment starts from, migrate reaches the head.
ReachesHead == Documents!ReachesHead
=============================================================================
