----------------------------- MODULE MCDocuments -----------------------------
(***************************************************************************)
(* What the platform does with data it is handed, on all small inputs:     *)
(* workflow documents and step configurations, policy documents and their  *)
(* versions, cursors of list endpoints, and databases of earlier releases. *)
(* These components share no state: `part' says which of them moves in a   *)
(* behaviour, and in which setting; the variables of the others stay at 0  *)
(* (those of the database, on whose liveness a property speaks, where they *)
(* start).                                                                 *)
(***************************************************************************)
EXTENDS Integers, Sequences

VARIABLES part,
          graph, phase, outcome, status, passes,
          cfg, native, stage,
          policy, handled,
          listing, table, time, cached, cursor, seen, again, start, walk,
          pol, polVer, polAsg, polSess, wiped, astray,
          db, revision, tx, dbEvents

graphVars  == <<graph, phase, outcome, status, passes>>
stepVars   == <<cfg, native, stage>>
policyVars == <<policy, handled>>
pageVars   == <<listing, table, time, cached, cursor, seen, again, start, walk>>
polVars    == <<pol, polVer, polAsg, polSess, wiped, astray>>
dbVars     == <<db, revision, tx, dbEvents>>

-----------------------------------------------------------------------------
(* The settings. *)

\* Step lists in order, against the order, mixed, and with an id declared twice.
Graph == INSTANCE WorkflowCompile WITH
    Ids <- {1, 2, 3}, Strays <- {9},
    StepLists <- {<<1>>, <<1, 2, 3>>, <<3, 2, 1>>, <<2, 3, 1>>, <<1, 2, 1>>}, MaxEdges <- 3,
    doc <- graph, stage <- phase

Config == INSTANCE StepConfig WITH
    Types <- {"service", "system", "file", "package", "check", "wait", "ansible", "command", "webhook"}

Policy == INSTANCE PolicyDocument WITH
    Collectors <- {"sshd"}, Unknown <- "x",
    doc <- policy, stage <- handled

\* The listings of CursorPaging, over tables of three rows with equal timestamps and two pages
\* in the cache.
Pages == INSTANCE CursorPaging WITH
    Ids <- {1, 2, 3}, Times <- {1, 2}, Others <- {1}, Limit <- 1, MaxCached <- 2, now <- time

Schema == INSTANCE SchemaMigrations WITH
    Releases <- {18, 22, 46, 61, 66},
    Arising <- {"jobs share a key", "alerts repeat", "incidents repeat", "content is NULL"},
    MaxEvents <- 4, events <- dbEvents

\* Two requests at once on the versions of two policies, which may be taken for each other's.
Edit == INSTANCE PolicyCatalog WITH
    Policies <- {"p", "q"}, Seeded <- {"q"}, MaxVersion <- 2, Docs <- {"d1"}, Sessions <- {1, 2},
    Kinds <- {"create", "update", "version", "publish", "delete"},
    ver <- polVer, asg <- polAsg, sess <- polSess

\* One request at a time on two policies, one of them shipped with the schema.
Sign == INSTANCE PolicyCatalog WITH
    Policies <- {"p", "q"}, Seeded <- {"q"}, MaxVersion <- 2, Docs <- {"d1", "d2"}, Sessions <- {1},
    Kinds <- {"create", "template", "update", "version", "publish", "assign", "delete"},
    ver <- polVer, asg <- polAsg, sess <- polSess

-----------------------------------------------------------------------------

NoGraph    == graph = 0 /\ phase = 0 /\ outcome = 0 /\ status = 0 /\ passes = 0
NoConfig   == cfg = 0 /\ native = 0 /\ stage = 0
NoDocument == policy = 0 /\ handled = 0
NoPages    == listing = 0 /\ table = 0 /\ time = 0 /\ cached = 0 /\ cursor = 0 /\ seen = 0 /\ again = 0
              /\ start = 0 /\ walk = 0
NoCatalog  == pol = 0 /\ polVer = 0 /\ polAsg = 0 /\ polSess = 0 /\ wiped = 0 /\ astray = 0
DocumentsIdle == NoGraph /\ NoConfig /\ NoDocument /\ NoPages /\ NoCatalog /\ Schema!Init

DocumentsInit ==
    /\ part \in {"graph", "config", "policy", "pages", "schema", "edit", "sign"}
    /\ Schema!Init
    /\ IF part = "graph" THEN Graph!Init ELSE NoGraph
    /\ IF part = "config" THEN Config!Init ELSE NoConfig
    /\ IF part = "policy" THEN Policy!Init ELSE NoDocument
    /\ IF part = "pages" THEN Pages!Init ELSE NoPages
    /\ IF part = "edit" THEN Edit!Init ELSE IF part = "sign" THEN Sign!Init ELSE NoCatalog

DocumentsNext ==
    \/ part = "graph" /\ Graph!Next /\ UNCHANGED <<stepVars, policyVars, pageVars, polVars, dbVars>>
    \/ part = "config" /\ Config!Next /\ UNCHANGED <<graphVars, policyVars, pageVars, polVars, dbVars>>
    \/ part = "policy" /\ Policy!Next /\ UNCHANGED <<graphVars, stepVars, pageVars, polVars, dbVars>>
    \/ part = "pages" /\ Pages!Next /\ UNCHANGED <<graphVars, stepVars, policyVars, polVars, dbVars>>
    \/ part = "schema" /\ Schema!Next /\ UNCHANGED <<graphVars, stepVars, policyVars, pageVars, polVars>>
    \/ part = "edit" /\ Edit!Next /\ UNCHANGED <<graphVars, stepVars, policyVars, pageVars, dbVars>>
    \/ part = "sign" /\ Sign!Next /\ UNCHANGED <<graphVars, stepVars, policyVars, pageVars, dbVars>>

-----------------------------------------------------------------------------

\* The compiler's depth-first search accepts exactly the documents with distinct ids, edges
\* between declared steps, no cycle and a failure edge for each branching step
\* (compile_workflow), and a run of one takes exactly the routes the ends of its steps open,
\* in as many passes as there are steps, whatever their order (advance_run's walk).
GraphSound == part = "graph" => Graph!VerdictExact /\ Graph!RoutesTaken /\ Graph!PassesBounded


\* The current version of a policy is one of its own that was published, however requests
\* cross, unless the request that published it last named another policy's version
\* (publish_version).
CurrentIsPublished == part = "edit" => Edit!CurrentIsPublished

\* Where the cursor has the columns a list is sorted by, reading it page by page returns every
\* row that stays, once, whatever is inserted, deleted or moved meanwhile, and for a list that
\* is cached every row that was there a TTL before the walk (paginate_keyset, list_jobs and
\* list_servers).
NothingLost == part = "pages" => Pages!NothingLost

\* After any sequence of upgrades, downgrades, failures and crashes the stored revision says
\* what the schema is, no revision meets a table, column or foreign key it did not expect,
\* and at the head every ORM class finds its table (the alembic revisions, env.py, models).
SchemaSound ==
    part = "schema" => Schema!RevisionFixesSchema /\ Schema!OpsFit /\ Schema!ModelsServed

\* Whatever release and rows a deployment starts from, migrate reaches the head.
ReachesHead == part = "schema" => (Schema!Fairness => Schema!ReachesHead)
=============================================================================
