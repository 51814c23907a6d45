-------------------------- MODULE SchemaMigrations --------------------------
(***************************************************************************)
(* Deployments of the control plane's database: the one-shot migrate       *)
(* service runs `alembic upgrade head` before the API starts, and          *)
(* alembic/env.py runs every revision of that command in one transaction.  *)
(* A deployment installs one release after another, an operator may go     *)
(* back to an earlier one, a migration may die half way, and between       *)
(* deployments the running application writes rows that a later (or        *)
(* earlier) constraint may not allow.                                      *)
(***************************************************************************)
EXTENDS SchemaRevisions, OrmModels

CONSTANTS Releases,     \* the positions in Chain that were a release's head
          Arising,      \* the conditions of the rows that the application may cause
          MaxEvents     \* bound on conditions arising, crashes and downgrades

HeadRev == Len(Chain)

VARIABLES db,       \* the committed schema and rows (record of SchemaOps)
          revision, \* alembic_version, as a position in Chain; 0 when absent
          tx,       \* the migration transaction
          events

vars == <<db, revision, tx, events>>

Idle == [on |-> FALSE, goal |-> 0, at |-> 0, S |-> Fresh]

\* The schema each revision stands for: the upgrades up to it, on no rows.
Schemas == FoldLeft(LAMBDA acc, r : Append(acc, ApplyAll(r.up, acc[Len(acc)])), <<Fresh>>, Chain)
SchemaAt(r) == Schemas[r + 1].tab

Init ==
    /\ db = Fresh
    /\ revision = 0
    /\ tx = Idle
    /\ events = 0

\* `alembic upgrade head` of a release that is not older than the database.
Upgrade(r) ==
    /\ ~tx.on /\ r > revision
    /\ tx' = [on |-> TRUE, goal |-> r, at |-> revision, S |-> db]
    /\ UNCHANGED <<db, revision, events>>

\* `alembic downgrade` to an earlier release.
Downgrade(r) ==
    /\ ~tx.on /\ r < revision
    /\ events < MaxEvents
    /\ events' = events + 1
    /\ tx' = [on |-> TRUE, goal |-> r, at |-> revision, S |-> db]
    /\ UNCHANGED <<db, revision>>

\* The next revision inside the transaction.
NextSchema == IF tx.goal > tx.at THEN ApplyAll(Chain[tx.at + 1].up, tx.S)
                                 ELSE ApplyAll(Chain[tx.at].down, tx.S)

Step ==
    /\ tx.on /\ tx.at # tx.goal
    /\ NextSchema.err = "none"
    /\ tx' = [tx EXCEPT !.S = NextSchema, !.at = IF tx.goal > @ THEN @ + 1 ELSE @ - 1]
    /\ UNCHANGED <<db, revision, events>>

\* A statement fails or the revision raises: nothing of the command is kept.
\* Mutant: each revision is committed on its own.
Fails_KeepsPart ==
    /\ tx.on /\ tx.at # tx.goal
    /\ NextSchema.err # "none"
    /\ db' = tx.S
    /\ tx' = Idle
    /\ UNCHANGED <<revision, events>>

Fails ==
    /\ tx.on /\ tx.at # tx.goal
    /\ NextSchema.err # "none"
    /\ tx' = Idle
    /\ UNCHANGED <<db, revision, events>>

Commit ==
    /\ tx.on /\ tx.at = tx.goal
    /\ db' = tx.S
    /\ revision' = tx.at
    /\ tx' = Idle
    /\ UNCHANGED events

\* The migrate container dies: the transaction is rolled back.
Crash ==
    /\ tx.on
    /\ events < MaxEvents
    /\ events' = events + 1
    /\ tx' = Idle
    /\ UNCHANGED <<db, revision>>

\* The application, between two deployments, writes rows the schema allows.
Arise(g) ==
    /\ ~tx.on
    /\ events < MaxEvents
    /\ g.cond \in Arising \ db.rows
    /\ g.t \in DOMAIN db.tab
    /\ g.m \notin db.tab[g.t].names
    /\ events' = events + 1
    /\ db' = [db EXCEPT !.rows = @ \cup {g.cond}]
    /\ UNCHANGED <<revision, tx>>

\* "Resolve the extra rows, then re-run migrate": what revision 049 asks for.
Resolve ==
    /\ ~tx.on
    /\ "incidents repeat" \in db.rows
    /\ db' = [db EXCEPT !.rows = @ \ {"incidents repeat"}]
    /\ UNCHANGED <<revision, tx, events>>

\* The system at rest at the head.
Rest == ~tx.on /\ revision = HeadRev /\ UNCHANGED vars

Next ==
    \/ \E r \in Releases : Upgrade(r) \/ Downgrade(r)
    \/ Step \/ Fails \/ Commit \/ Crash
    \/ \E g \in Guards : Arise(g)
    \/ Resolve
    \/ Rest

\* Every deploy of the current release runs migrate, which runs to its end, and
\* operators do what 049 asks.
Fairness ==
    /\ SF_vars(Upgrade(HeadRev)) /\ WF_vars(Step) /\ WF_vars(Fails) /\ WF_vars(Commit)
    /\ SF_vars(Resolve)

Spec == Init /\ [][Next]_vars /\ Fairness

\* Between migrations the schema is exactly the one the stored revision
\* stands for, whatever upgrades, downgrades, failures and crashes led there:
\* every downgrade() is the inverse of its upgrade() and a failed command
\* leaves no trace (run_migrations_online).
RevisionFixesSchema == ~tx.on => db.tab = SchemaAt(revision)

\* No revision, in either direction, meets a table, column or foreign key it
\* did not expect: the only reasons for a command to fail are the rows it
\* finds and the revisions that refuse to be undone.
OpsFit == (tx.on /\ tx.at # tx.goal) => NextSchema.err # "schema"

\* At the head every ORM class finds its table, its foreign keys and its
\* columns, and no table is left without a class.
ModelsServed ==
    (~tx.on /\ revision = HeadRev) =>
        /\ DOMAIN db.tab = {m.t : m \in Models}
        /\ \A m \in Models :
              /\ m.names \subseteq db.tab[m.t].names
              /\ m.refs \subseteq {l.to : l \in db.tab[m.t].links}

\* No upgrade is refused for good: whatever release and whatever rows a
\* deployment starts from, migrate reaches the head once operators have
\* resolved what 049 lists.
ReachesHead == []<>(revision = HeadRev)
=============================================================================
