------------------------------ MODULE SchemaOps ------------------------------
(***************************************************************************)
(* The schema operations the Alembic revisions are written in, applied to  *)
(* a schema and to what is known of its rows.                              *)
(*                                                                         *)
(* A schema maps a table's name to its members (the columns, indexes and   *)
(* constraints that some revision adds or removes after the table was      *)
(* made) and its links (the foreign keys to other tables, with the members *)
(* that carry them).  Types, defaults and plain indexes made with the      *)
(* table are left out: no later revision depends on them.                  *)
(*                                                                         *)
(* Of the rows the model keeps the conditions that decide whether a        *)
(* constraint can be put on a table that already holds data.               *)
(***************************************************************************)
EXTENDS Naturals, FiniteSets, Sequences, SequencesExt

\* What the rows of a deployed database may hold, with the constraint that
\* excludes it while it is in the schema.
Guards == {
    [cond |-> "jobs share a key",  t |-> "jobs",              m |-> "uq_jobs_dedup_key"],
    [cond |-> "alerts repeat",     t |-> "alerts",            m |-> "uq_alerts_active_agent_type"],
    [cond |-> "incidents repeat",  t |-> "incidents",         m |-> "uq_incident_open_group"],
    [cond |-> "content is NULL",   t |-> "playbooks",         m |-> "content NOT NULL"],
    [cond |-> "files is NULL",     t |-> "ansible_roles",     m |-> "files NOT NULL"],
    [cond |-> "source is NULL",    t |-> "workflow_versions", m |-> "yaml_source NOT NULL"]}

\* The operations, as op.create_table, op.add_column and so on build them.
Make(t, refs, names)     == [do |-> "make",   t |-> t, names |-> names, refs |-> refs]
Drop(t)                  == [do |-> "drop",   t |-> t, names |-> {},    refs |-> {}]
DropIf(t)                == [do |-> "dropif", t |-> t, names |-> {},    refs |-> {}]
Add(t, names, refs)      == [do |-> "add",    t |-> t, names |-> names, refs |-> refs]
Strip(t, names)          == [do |-> "remove", t |-> t, names |-> names, refs |-> {}]
StripIf(t, names)       == [do |-> "removeif", t |-> t, names |-> names, refs |-> {}]
Check(c)                 == [do |-> "check",  t |-> c, names |-> {},    refs |-> {}]
Clean(c)                 == [do |-> "clean",  t |-> c, names |-> {},    refs |-> {}]
Refuse                   == [do |-> "refuse", t |-> "", names |-> {},   refs |-> {}]

\* A schema with its rows, and why the last operation on it failed.
NoTables == [t \in {} |-> [names |-> {}, links |-> {}]]
Fresh    == [tab |-> NoTables, rows |-> {}, err |-> "none"]

Links(names, refs) == {[by |-> names, to |-> r] : r \in refs}

\* The tables other than t with a foreign key to t.
Dependants(S, t) == {u \in DOMAIN S.tab \ {t} : \E l \in S.tab[u].links : l.to = t}

WithTable(S, t, row)  == [S EXCEPT !.tab = [u \in DOMAIN @ \cup {t} |-> IF u = t THEN row ELSE @[u]]]
WithoutTable(S, t)    == [S EXCEPT !.tab = [u \in DOMAIN @ \ {t} |-> @[u]],
                                   !.rows = @ \ {g.cond : g \in {h \in Guards : h.t = t}}]
WithMembers(S, op)    == WithTable(S, op.t, [names |-> S.tab[op.t].names \cup op.names,
                             links |-> S.tab[op.t].links \cup Links(op.names, op.refs)])
WithoutMembers(S, op) == WithTable(S, op.t, [names |-> S.tab[op.t].names \ op.names,
                             links |-> {l \in S.tab[op.t].links : l.by \cap op.names = {}}])

\* PostgreSQL refuses a constraint that the rows already break.
Breaks(S, op) == \E g \in Guards : g.t = op.t /\ g.m \in op.names /\ g.cond \in S.rows

Fail(S, why) == [S EXCEPT !.err = why]

\* The effect of one operation: "schema" when it does not fit the tables,
\* "data" when the rows forbid it, "refused" when the revision itself raises.
Outcome(S, op) ==
    LET has == op.t \in DOMAIN S.tab IN
    IF S.err # "none" THEN S ELSE
    CASE op.do = "make"      -> IF has \/ ~(op.refs \subseteq DOMAIN S.tab) THEN Fail(S, "schema")
                                ELSE WithTable(S, op.t, [names |-> op.names, links |-> Links({}, op.refs)])
      [] op.do = "drop"      -> IF ~has \/ Dependants(S, op.t) # {} THEN Fail(S, "schema")
                                ELSE WithoutTable(S, op.t)
      [] op.do = "dropif"    -> IF Dependants(S, op.t) # {} THEN Fail(S, "schema") ELSE WithoutTable(S, op.t)
      [] op.do = "add"       -> IF ~has \/ ~(op.refs \subseteq DOMAIN S.tab) THEN Fail(S, "schema")
                                ELSE IF op.names \cap S.tab[op.t].names # {} THEN Fail(S, "schema")
                                ELSE IF Breaks(S, op) THEN Fail(S, "data") ELSE WithMembers(S, op)
      [] op.do = "remove"    -> IF ~has THEN Fail(S, "schema")
                                ELSE IF ~(op.names \subseteq S.tab[op.t].names) THEN Fail(S, "schema")
                                ELSE WithoutMembers(S, op)
      [] op.do = "removeif"  -> IF has THEN WithoutMembers(S, op) ELSE Fail(S, "schema")
      [] op.do = "check"     -> IF op.t \in S.rows THEN Fail(S, "data") ELSE S
      [] op.do = "clean"     -> [S EXCEPT !.rows = @ \ {op.t}]
      [] op.do = "refuse"    -> Fail(S, "refused")

\* (The singletons make TLC evaluate each schema once.)
Apply(S, op)     == CHOOSE R \in {Outcome(T, op) : T \in {S}} : TRUE
ApplyAll(ops, S) == FoldLeft(Apply, S, ops)
=============================================================================
