------------------------------ MODULE PolicySets ------------------------------
(***************************************************************************)
(* Compliance policy sets: the rule catalogue with its two feeds (the      *)
(* curated rules every worker loads when it starts, and the import of an   *)
(* XCCDF datastream, a background task tracked by a Job row), the sets     *)
(* built from it (by hand, from a template, from an exported profile, as a *)
(* new version), their publication, and the assignments the evaluation     *)
(* engine resolves.                                                        *)
(*                                                                         *)
(* A request reads, checks and commits: what it read may be stale when it  *)
(* commits.  The unique columns of the schema are all that stands between  *)
(* two transactions.                                                       *)
(***************************************************************************)
EXTENDS Naturals, Sequences, FiniteSets

CONSTANTS Sessions,   \* requests and start-up loads that may be under way
          Rules,
          Curated,    \* rules of content/rules/*.yaml
          Cis,        \* rules whose standard_refs carry "cis"
          Minor,      \* rules of LOW severity
          Overrides,  \* severity_override values; "none": no override
          Slugs,      \* slugs callers give
          Ops,        \* the operations callers use
          Serial,     \* whether requests run one at a time
          MaxSets, MaxAssignments, MaxImports, MaxBoots, Workers

VARIABLES sets,     \* policy_sets with their policy_set_rules, in order of creation
          cat,      \* compliance_rules: [check, release] of each rule
          asg,      \* enabled GLOBAL policy_assignments of each set
          txn,      \* the transaction each session has under way
          job,      \* the import job: [n, status, at, rules, chosen, seen, done]
          release,  \* start-ups so far; each may ship changed curated content
          booting   \* workers of the last start-up still to load the content

vars == <<sets, cat, asg, txn, job, release, booting>>

Ids       == 1..Len(sets)
Absent    == [check |-> "none", release |-> 0]
NoRules   == [r \in {} |-> "none"]
Idle      == [op |-> "idle"]
Known     == {r \in Rules : cat[r].check # "none"}
Taken     == {sets[i].slug : i \in Ids}
Finished  == {"COMPLETED", "FAILED", "TIMEOUT", "CANCELLED"}

NewSet(slug, status, ver, parent, rules, origin) ==
    [slug |-> slug, status |-> status, ver |-> ver, parent |-> parent, rules |-> rules,
     mode |-> "ASSISTED", origin |-> origin]

Init ==
    /\ sets = <<>>
    /\ cat = [r \in Rules |-> Absent]
    /\ asg = [i \in 1..MaxSets |-> 0]
    /\ txn = [s \in Sessions |-> Idle]
    /\ job = [n |-> 0, status |-> "none", at |-> "none", rules |-> {}, chosen |-> {},
              seen |-> <<>>, done |-> FALSE]
    /\ release = 0
    /\ booting = 0

-----------------------------------------------------------------------------
(* Requests. Open reads and checks; the commit is a step of its own.        *)

\* A worker serves requests once its own start-up load is over.
Up == release > 0 /\ booting + Cardinality({s \in Sessions : txn[s].op = "load"}) < Workers

Open(s, t) ==
    /\ Up
    /\ txn[s] = Idle
    /\ Serial => \A o \in Sessions : txn[o] = Idle
    /\ txn' = [txn EXCEPT ![s] = t]
    /\ UNCHANGED <<sets, cat, asg, job, release, booting>>

Close(s) == txn' = [txn EXCEPT ![s] = Idle]

Creation(slug, ver, parent, rules, origin, assign) ==
    [op |-> "create", set |-> NewSet(slug, "DRAFT", ver, parent, rules, origin), assign |-> assign]

CreateDraft(s, slug) ==
    /\ "create" \in Ops
    /\ slug \notin Taken
    /\ Open(s, Creation(slug, 1, 0, NoRules, "api", FALSE))

Template == {"lokilinux-curated", "essential", "cis"}

Matches(t, r) ==
    CASE t = "lokilinux-curated" -> r \in Curated
      [] t = "essential"         -> r \notin Minor
      [] t = "cis"               -> r \in Cis

Candidates(unmapped) == {r \in Known : unmapped \/ cat[r].check = "CEL"}

UniqueSlug(t) ==
    LET slug(n) == IF n = 1 THEN <<t>> ELSE <<t, <<"n", n>>>>
    IN  slug(CHOOSE n \in 1..(MaxSets + 1) :
               slug(n) \notin Taken /\ \A k \in 1..(n - 1) : slug(k) \in Taken)

FromTemplate(s, t, unmapped, assign) ==
    /\ "template" \in Ops
    /\ unmapped => "unmapped" \in Ops
    /\ assign => "assign" \in Ops
    /\ \E rules \in {{r \in Candidates(unmapped) : Matches(t, r)}} : \E sev \in Overrides :
         /\ rules # {}
         /\ Open(s, Creation(UniqueSlug(t), 1, 0, [r \in rules |-> sev],
                             IF unmapped THEN "api" ELSE "template", assign))

Export(i) == sets[i].rules

ProfileRules(profile) == [r \in DOMAIN profile \cap Known |-> profile[r]]

ImportProfile(s, slug) ==
    /\ "profile" \in Ops
    /\ slug \notin Taken
    /\ \E profile \in {Export(i) : i \in Ids} \cup {[r \in Rules |-> "none"]} :
         /\ profile # NoRules
         /\ Open(s, Creation(slug, 1, 0, ProfileRules(profile), "api", FALSE))

NewVersion(s, i) ==
    /\ "version" \in Ops
    /\ sets[i].status = "PUBLISHED"
    /\ Open(s, Creation(Append(sets[i].slug, <<"v", sets[i].ver + 1>>), sets[i].ver + 1, i,
                        NoRules, "api", FALSE))

\* create_new_version copies the rule ids as they are when the clone is flushed.
Cloned(i) == [r \in DOMAIN sets[i].rules |-> "none"]

\* create_draft_with_rules' insert; a slug taken meanwhile fails the whole transaction.
CreateCommit_Twice(s) ==
    /\ txn[s].op = "create"
    /\ Len(sets) < MaxSets
    /\ LET new == txn[s].set
       IN  /\ sets' = Append(sets, IF new.parent = 0 THEN new
                                   ELSE [new EXCEPT !.rules = Cloned(new.parent)])
           /\ asg' = IF txn[s].assign THEN [asg EXCEPT ![Len(sets) + 1] = 1] ELSE asg
    /\ Close(s)
    /\ UNCHANGED <<cat, job, release, booting>>

CreateCommit(s) ==
    /\ txn[s].op = "create"
    /\ Len(sets) < MaxSets
    /\ LET new == txn[s].set
       IN  IF new.slug \in Taken THEN UNCHANGED <<sets, asg>>
           ELSE /\ sets' = Append(sets, IF new.parent = 0 THEN new
                                        ELSE [new EXCEPT !.rules = Cloned(new.parent)])
                /\ asg' = IF txn[s].assign THEN [asg EXCEPT ![Len(sets) + 1] = 1] ELSE asg
    /\ Close(s)
    /\ UNCHANGED <<cat, job, release, booting>>

AddRule(s, i, r, sev) ==
    /\ "add" \in Ops
    /\ r \in Known \ DOMAIN sets[i].rules
    /\ Open(s, [op |-> "add", i |-> i, r |-> r, sev |-> sev])

AddCommit(s) ==
    /\ txn[s].op = "add"
    /\ LET t == txn[s] IN
         sets' = IF t.r \in DOMAIN sets[t.i].rules THEN sets     \* the primary key of policy_set_rules
                 ELSE [sets EXCEPT ![t.i].rules =
                         [r \in DOMAIN @ \cup {t.r} |-> IF r = t.r THEN t.sev ELSE @[r]]]
    /\ Close(s)
    /\ UNCHANGED <<cat, asg, job, release, booting>>

RemoveRule(s, i, r) ==
    /\ "remove" \in Ops
    /\ sets[i].status = "DRAFT"
    /\ r \in DOMAIN sets[i].rules
    /\ Open(s, [op |-> "remove", i |-> i, r |-> r])

RemoveCommit(s) ==
    /\ txn[s].op = "remove"
    /\ LET t == txn[s] IN
         sets' = [sets EXCEPT ![t.i].rules = [r \in DOMAIN @ \ {t.r} |-> @[r]]]
    /\ Close(s)
    /\ UNCHANGED <<cat, asg, job, release, booting>>

Publish(s, i) ==
    /\ "publish" \in Ops
    /\ sets[i].status = "DRAFT"
    /\ sets[i].rules # NoRules
    /\ Open(s, [op |-> "status", i |-> i, to |-> "PUBLISHED"])

Archive(s, i) ==
    /\ "archive" \in Ops
    /\ sets[i].status = "PUBLISHED"
    /\ Open(s, [op |-> "status", i |-> i, to |-> "ARCHIVED"])

StatusCommit(s) ==
    /\ txn[s].op = "status"
    /\ sets' = [sets EXCEPT ![txn[s].i].status = txn[s].to]
    /\ Close(s)
    /\ UNCHANGED <<cat, asg, job, release, booting>>

\* set_policy_set_remediation: nothing it checks can change before it commits.
SetRemediation(i, mode) ==
    /\ "mode" \in Ops
    /\ sets' = [sets EXCEPT ![i].mode = mode]
    /\ UNCHANGED <<cat, asg, txn, job, release, booting>>

\* create_policy_assignment, for a set of any status.
Assign(i) ==
    /\ "assign" \in Ops
    /\ asg[i] < MaxAssignments
    /\ asg' = [asg EXCEPT ![i] = @ + 1]
    /\ UNCHANGED <<sets, cat, txn, job, release, booting>>

\* The sets LoadActivePolicyAssignments gives the engine to evaluate.
Live == {i \in Ids : asg[i] > 0}
-----------------------------------------------------------------------------
(* The curated rules, loaded by every worker when it starts.                *)

CuratedSlug == <<"lokilinux-curated-baseline">>
CuratedId   == {i \in Ids : sets[i].slug = CuratedSlug}

Boot ==
    /\ release < MaxBoots
    /\ booting = 0 /\ \A s \in Sessions : txn[s].op # "load"
    /\ release' = release + 1
    /\ booting' = Workers
    /\ UNCHANGED <<sets, cat, asg, txn, job>>

\* load_all reads what exists. Two GLOBAL assignments make scalar_one_or_none
\* raise, and main logs the error and goes on.
LoadRead(s) ==
    /\ booting > 0
    /\ txn[s] = Idle
    /\ Serial => \A o \in Sessions : txn[o] = Idle
    /\ txn' = [txn EXCEPT ![s] =
                 IF \E i \in CuratedId : asg[i] > 1 THEN Idle
                 ELSE [op |-> "load", known |-> Known, made |-> CuratedId]]
    /\ booting' = booting - 1
    /\ UNCHANGED <<sets, cat, asg, job, release>>

Loaded == [r \in Rules |-> IF r \in Curated THEN [check |-> "CEL", release |-> release] ELSE cat[r]]

EnsurePolicySet ==
    IF CuratedId = {}
    THEN Append(sets, NewSet(CuratedSlug, "PUBLISHED", 1, 0, [r \in Curated |-> "none"], "curated"))
    ELSE [i \in Ids |-> IF i \notin CuratedId THEN sets[i]
                        ELSE [sets[i] EXCEPT !.rules = [r \in DOMAIN @ \cup Curated |->
                                IF r \in DOMAIN @ THEN @[r] ELSE "none"]]]

EnsureAssignment_Adds(i) == [asg EXCEPT ![i] = @ + 1]
EnsureAssignment(i) == IF asg[i] > 0 THEN asg ELSE [asg EXCEPT ![i] = 1]

\* A rule or the set inserted by another transaction meanwhile is a unique violation.
LoadCommit(s) ==
    /\ txn[s].op = "load"
    /\ IF txn[s].known \cap Curated # Known \cap Curated \/ txn[s].made # CuratedId
       THEN UNCHANGED <<sets, cat, asg>>
       ELSE /\ CuratedId = {} => Len(sets) < MaxSets
            /\ cat' = Loaded
            /\ sets' = EnsurePolicySet
            /\ \E i \in IF CuratedId = {} THEN {Len(sets) + 1} ELSE CuratedId :
                 asg' = EnsureAssignment(i)
    /\ Close(s)
    /\ UNCHANGED <<job, release, booting>>
-----------------------------------------------------------------------------
(* Import of a datastream.                                                  *)

ProfileSlug == <<"profile">>
ProfileId   == {i \in Ids : sets[i].slug = ProfileSlug}

QueueImport ==
    /\ "import" \in Ops
    /\ Up
    /\ job.n < MaxImports
    /\ job.at \in {"none", "dead"} /\ job.status \in Finished \cup {"none"}
    /\ \E rules \in SUBSET Rules \ {{}} : \E chosen \in SUBSET Rules :
         job' = [n |-> job.n + 1, status |-> "QUEUED", at |-> "queued", rules |-> rules,
                 chosen |-> chosen, seen |-> <<>>, done |-> FALSE]
    /\ UNCHANGED <<sets, cat, asg, txn, release, booting>>

ImportOnly == UNCHANGED <<sets, cat, asg, txn, release, booting>>

StartImport ==
    /\ job.at = "queued"
    /\ job' = [job EXCEPT !.status = "RUNNING", !.at = "fetch"]
    /\ ImportOnly

FetchFails ==
    /\ job.at = "fetch"
    /\ job' = [job EXCEPT !.status = "FAILED", !.at = "dead"]
    /\ ImportOnly

\* store_stream, open_stream and import_datastream's look-ups.
ImportRead ==
    /\ job.at = "fetch"
    /\ job' = [job EXCEPT !.at = "write", !.seen = <<Known \cap job.rules, ProfileId>>]
    /\ ImportOnly

Imported_Overwrites(r) == IF r \in job.rules THEN [check |-> "UNMAPPED", release |-> 0] ELSE cat[r]
Imported(r) ==
    IF r \in job.rules /\ r \notin Known THEN [check |-> "UNMAPPED", release |-> 0] ELSE cat[r]

\* The set of the profile now has exactly the rules the profile selects from
\* the datastream, whatever its status.
ProfileSet ==
    LET chosen == [r \in job.chosen \cap job.rules |-> "none"]
    IN  IF ProfileId = {}
        THEN Append(sets, NewSet(ProfileSlug, "PUBLISHED", 1, 0, chosen, "import"))
        ELSE [i \in Ids |-> IF i \in ProfileId THEN [sets[i] EXCEPT !.rules = chosen] ELSE sets[i]]

ImportWrite ==
    /\ job.at = "write"
    /\ IF job.seen = <<Known \cap job.rules, ProfileId>>
       THEN /\ ProfileId = {} => Len(sets) < MaxSets
            /\ cat' = [r \in Rules |-> Imported(r)]
            /\ sets' = ProfileSet
            /\ job' = [job EXCEPT !.at = "applied", !.done = TRUE]
       ELSE /\ job' = [job EXCEPT !.at = "dead"]
            /\ UNCHANGED <<sets, cat>>
    /\ UNCHANGED <<asg, txn, release, booting>>

FinishImport ==
    /\ job.at = "applied"
    /\ job' = [job EXCEPT !.status = "COMPLETED", !.at = "dead"]
    /\ ImportOnly

\* The process dies: a background task is never resumed.
ImportCrash ==
    /\ "crash" \in Ops
    /\ job.at \notin {"none", "dead"}
    /\ job' = [job EXCEPT !.at = "dead"]
    /\ ImportOnly

\* DELETE /jobs/{id}: QUEUED and SCHEDULED only.
CancelImport ==
    /\ "cancel" \in Ops
    /\ job.status = "QUEUED"
    /\ job' = [job EXCEPT !.status = "CANCELLED"]
    /\ ImportOnly

SweepImport ==
    /\ job.status \in {"QUEUED", "RUNNING"}
    /\ job' = [job EXCEPT !.status = "TIMEOUT"]
    /\ ImportOnly
-----------------------------------------------------------------------------
ImportStep == StartImport \/ FetchFails \/ ImportRead \/ ImportWrite \/ FinishImport

Commit(s) == CreateCommit(s) \/ AddCommit(s) \/ RemoveCommit(s) \/ StatusCommit(s) \/ LoadCommit(s)

Request(s) ==
    \/ \E slug \in Slugs : CreateDraft(s, <<slug>>) \/ ImportProfile(s, <<slug>>)
    \/ \E t \in Template, unmapped, assign \in BOOLEAN : FromTemplate(s, t, unmapped, assign)
    \/ \E i \in Ids :
         \/ NewVersion(s, i) \/ Publish(s, i) \/ Archive(s, i)
         \/ \E r \in Rules : RemoveRule(s, i, r) \/ \E sev \in Overrides : AddRule(s, i, r, sev)

Next ==
    \/ \E s \in Sessions : Request(s) \/ Commit(s) \/ LoadRead(s)
    \/ \E i \in Ids : Assign(i) \/ \E mode \in {"ASSISTED", "AUTOMATIC"} : SetRemediation(i, mode)
    \/ Boot \/ QueueImport \/ ImportStep \/ ImportCrash \/ CancelImport \/ SweepImport

Spec == Init /\ [][Next]_vars

-----------------------------------------------------------------------------

(* The slug of a clone is its parent's slug and number, and slugs are       *)
(* unique: however requests interleave, a version has one successor and     *)
(* version numbers grow along the lineage.                                  *)
OneSuccessor ==
    \A i, j \in Ids : sets[i].parent # 0 =>
        /\ sets[i].parent = sets[j].parent => i = j
        /\ sets[i].ver = sets[sets[i].parent].ver + 1

(* import_datastream: "a hand-curated CEL mapping must survive a re-import  *)
(* untouched", whatever runs between its look-ups and its commit.           *)
KeepsCurated ==
    \A r \in Rules : cat[r].check = "CEL" => cat'[r].check = "CEL"
                                           /\ cat'[r].release >= cat[r].release

(* curated_rules_loader: "a content fix in the YAML must actually take      *)
(* effect on the next load". When every worker has started, the catalogue   *)
(* holds the shipped content and the baseline is assigned.                  *)
CuratedTakesEffect ==
    release > 0 /\ booting = 0 /\ (\A s \in Sessions : txn[s].op # "load") =>
        /\ \A r \in Curated : cat[r] = [check |-> "CEL", release |-> release]
        /\ CuratedId \cap Live # {}

=============================================================================
