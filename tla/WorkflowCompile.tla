-------------------------- MODULE WorkflowCompile --------------------------
(***************************************************************************)
(* compile_workflow on every small document, and what advance_run's pass   *)
(* over the steps makes of the documents it accepts.  A document is the    *)
(* list of its steps' ids, its edges and the steps with on_failure:        *)
(* branch; a step's outcome is chosen when the run starts.                 *)
(***************************************************************************)
EXTENDS Integers, Sequences, FiniteSets, SequencesExt

CONSTANTS
    Ids,        \* step ids that documents declare
    Strays,     \* ids that edges may name and no step has
    StepLists,  \* the step lists documents may have
    MaxEdges    \* bound: edges of a document

VARIABLES
    doc,     \* the parsed document: steps, edges, branch
    stage,   \* draft, invalid, compiled, running or done
    outcome, \* how each step will end when it is run
    status,  \* workflow_step_runs.status
    passes   \* how often advance_run has walked the steps

vars == <<doc, stage, outcome, status, passes>>

Edge == [from : Ids, to : Ids, on : {"success", "failure", "always"}]
        \cup [from : Strays, to : Ids, on : {"success"}]
        \cup [from : Ids, to : Strays, on : {"success"}]
Documents == [steps : StepLists,
              edges : {{}} \cup {Range(f) : f \in [1..MaxEdges -> Edge]},
              branch : {{}, {CHOOSE i \in Ids : TRUE}}]

Declared(d) == ToSet(d.steps)

------------------------------------------------------------------------------
(* validate_graph.                                                         *)

DuplicateId(d) == Len(d.steps) # Cardinality(Declared(d))
Dangling(d) == \E e \in d.edges : e.from \notin Declared(d) \/ e.to \notin Declared(d)

Targets(d, n) == SetToSeq({e.to : e \in {f \in d.edges : f.from = n}})

\* _dfs: 3-colour marking; found is set as soon as a GRAY node is met again.
RECURSIVE Dfs(_, _, _)
Dfs(d, n, acc) ==
    LET Look(a, t) == IF a.found THEN a
                      ELSE CASE a.color[t] = "GRAY"  -> [a EXCEPT !.found = TRUE]
                             [] a.color[t] = "WHITE" -> Dfs(d, t, a)
                             [] OTHER                -> a
        after == FoldLeft(Look, [acc EXCEPT !.color[n] = "GRAY"], Targets(d, n))
    IN  IF after.found THEN after ELSE [after EXCEPT !.color[n] = "BLACK"]

\* Mutant: only a step wired to itself is found.
HasSelfLoop(d) == \E e \in d.edges : e.from = e.to

\* The loop over valid_ids, which starts a search at every node still WHITE.
HasCycle(d) ==
    FoldLeft(LAMBDA a, n : IF a.found \/ a.color[n] # "WHITE" THEN a ELSE Dfs(d, n, a),
             [color |-> [n \in Declared(d) |-> "WHITE"], found |-> FALSE],
             SetToSeq(Declared(d))).found

Incoming(d, n) == {e \in d.edges : e.to = n}
EntryIds(d) == {n \in Declared(d) : Incoming(d, n) = {}}
BranchWithoutFailureEdge(d) ==
    \E n \in Declared(d) \cap d.branch : ~\E e \in d.edges : e.from = n /\ e.on = "failure"

\* The early returns keep the later analyses from malformed edge lists.
Valid(d) ==
    /\ ~DuplicateId(d) /\ ~Dangling(d)
    /\ ~HasCycle(d)
    /\ EntryIds(d) # {}
    /\ ~BranchWithoutFailureEdge(d)

------------------------------------------------------------------------------
(* advance_run's pass, on rows in memory.                                  *)

Over == {"SUCCEEDED", "FAILED", "SKIPPED"}

\* What the pass makes of step n: left alone, run (and ended as it will end), or skipped.
StepAfter(d, st, n) ==
    IF st[n] # "PENDING" \/ \E e \in Incoming(d, n) : st[e.from] \notin Over
    THEN st[n]
    ELSE IF \/ Incoming(d, n) = {}
            \/ \E e \in Incoming(d, n) : \/ e.on = "always"
                                         \/ e.on = "success" /\ st[e.from] = "SUCCEEDED"
                                         \/ e.on = "failure" /\ st[e.from] = "FAILED"
         THEN outcome[n] ELSE "SKIPPED"

Walk(d, st) == FoldLeft(LAMBDA a, n : [a EXCEPT ![n] = StepAfter(d, a, n)], st, d.steps)

------------------------------------------------------------------------------
Init ==
    /\ doc \in Documents
    /\ stage = "draft"
    /\ outcome = [n \in Ids |-> "SUCCEEDED"]
    /\ status = [n \in Ids |-> "PENDING"]
    /\ passes = 0

\* compile_workflow: a graph is built only from a document without errors.
Compile ==
    /\ stage = "draft"
    /\ stage' = IF Valid(doc) THEN "compiled" ELSE "invalid"
    /\ UNCHANGED <<doc, outcome, status, passes>>

\* A run starts; every step that is dispatched will end one way or the other.
Start ==
    /\ stage = "compiled"
    /\ outcome' \in [Ids -> {"SUCCEEDED", "FAILED"}]
    /\ stage' = "running"
    /\ UNCHANGED <<doc, status, passes>>

\* One advance_run; the run is over when no step is PENDING.
Pass ==
    /\ stage = "running"
    /\ status' = Walk(doc, status)
    /\ passes' = passes + 1
    /\ stage' = IF \E n \in Declared(doc) : Walk(doc, status)[n] = "PENDING"
                THEN "running" ELSE "done"
    /\ UNCHANGED <<doc, outcome>>

Next == Compile \/ Start \/ Pass

Spec == Init /\ [][Next]_vars

------------------------------------------------------------------------------
\* The reference for the verdict: the transitive closure of the edges has no loop.
Reaches(d, a, b) ==
    LET R[k \in Nat] == IF k = 0 THEN {e.to : e \in {f \in d.edges : f.from = a}}
                        ELSE R[k-1] \cup {e.to : e \in {f \in d.edges : f.from \in R[k-1]}}
    IN  b \in R[Cardinality(Ids)]

\* The compiler's search decides exactly what it is for: a document is accepted if and only
\* if its ids are distinct, its edges join declared steps, no step reaches itself, and every
\* branching step has a failure edge.  (That an acyclic graph has an entry point follows.)
VerdictExact ==
    stage # "draft" =>
        (stage # "invalid" <=>
            /\ \A i, j \in DOMAIN doc.steps : doc.steps[i] = doc.steps[j] => i = j
            /\ \A e \in doc.edges : {e.from, e.to} \subseteq Declared(doc)
            /\ \A n \in Declared(doc) : ~Reaches(doc, n, n)
            /\ \A n \in doc.branch \cap Declared(doc) :
                  \E e \in doc.edges : e.from = n /\ e.on = "failure")

\* A step is run exactly if some route to it was taken: in a finished run every step that
\* ran is an entry point or follows one that ended the way its edge asks for, and every
\* skipped step has no such edge.
RoutesTaken ==
    stage = "done" =>
        \A n \in Declared(doc) :
            (status[n] # "SKIPPED") <=>
                \/ n \in EntryIds(doc)
                \/ \E e \in Incoming(doc, n) :
                      \/ e.on = "always"
                      \/ e.on = "success" /\ status[e.from] = "SUCCEEDED"
                      \/ e.on = "failure" /\ status[e.from] = "FAILED"

\* A run of an accepted document is over after at most as many passes as it has steps, in
\* whatever order the steps are listed: no pass finds nothing to do while a step is PENDING.
PassesBounded == stage = "running" => passes < Len(doc.steps)
============================================================================
