--------------------------- MODULE PolicyCatalog ---------------------------
(***************************************************************************)
(* Agent policies and their versions: AgentPolicyService behind its REST   *)
(* endpoints.  A request is one transaction that reads its rows, decides   *)
(* and writes at the end only the columns it changed; other requests       *)
(* commit in between.  A document is its content; a version keeps the      *)
(* document, the hash computed from it, and the document its signature is  *)
(* over.                                                                   *)
(***************************************************************************)
EXTENDS Integers, FiniteSets

CONSTANTS
    Policies,   \* policy ids
    Seeded,     \* those the schema migration ships, published but never signed
    MaxVersion, \* bound: versions of a policy
    Docs,       \* documents that compile
    Sessions,   \* requests under way at once
    Kinds       \* the kinds of request that run

VARIABLES
    pol,   \* agent_policies: status and current_version; "none": no row
    ver,   \* agent_policy_versions by policy and number
    asg,   \* agent_policy_assignments: the policy has an enabled one
    sess,  \* the requests, with what they have read
    wiped, \* history: the policies whose rows were deleted
    astray \* history: the policies published last with a version of another policy

vars == <<pol, ver, asg, sess, wiped, astray>>

Numbers == 1..MaxVersion
NoDoc == "nodoc"
NoVersionRow == [status |-> "none", doc |-> NoDoc, hash |-> NoDoc, sig |-> NoDoc]
Draft(d) == [status |-> "draft", doc |-> d, hash |-> d, sig |-> NoDoc]
NoPolicy == [status |-> "none", cur |-> 0]

IdleSession == [kind |-> "idle", p |-> CHOOSE p \in Policies : TRUE, q |-> CHOOSE p \in Policies : TRUE,
                n |-> 1, doc |-> NoDoc, saw |-> NoPolicy, row |-> NoVersionRow, busy |-> FALSE]

Init ==
    /\ pol = [p \in Policies |-> IF p \in Seeded THEN [status |-> "active", cur |-> 1] ELSE NoPolicy]
    /\ ver = [p \in Policies |-> [n \in Numbers |->
                IF p \in Seeded /\ n = 1 THEN [Draft(CHOOSE d \in Docs : TRUE) EXCEPT !.status = "published"]
                ELSE NoVersionRow]]
    /\ asg = [p \in Policies |-> FALSE]
    /\ sess = [s \in Sessions |-> IdleSession]
    /\ wiped = {} /\ astray = {}

\* A request reads policy p and version n of policy q, with the document d it carries.
Begin(s, k, p, q, n, d) ==
    /\ k \in Kinds /\ sess[s] = IdleSession
    /\ sess' = [sess EXCEPT ![s] = [kind |-> k, p |-> p, q |-> q, n |-> n, doc |-> d,
                                    saw |-> pol[p], row |-> ver[q][n], busy |-> asg[p]]]
    /\ UNCHANGED <<pol, ver, asg, wiped, astray>>

Finish(s) == sess' = [sess EXCEPT ![s] = IdleSession]
Exists(p) == pol[p].status # "none"

------------------------------------------------------------------------------
(* Creating and editing.                                                   *)

\* create_policy: the policy and its first version, in one transaction.
CreatePolicy(p, d) ==
    /\ "create" \in Kinds /\ ~Exists(p) /\ p \notin wiped
    /\ pol' = [pol EXCEPT ![p] = [status |-> "draft", cur |-> 0]]
    /\ ver' = [ver EXCEPT ![p][1] = Draft(d)]
    /\ UNCHANGED <<asg, sess, wiped, astray>>

\* from_template: create_policy, then the document of the template's current version (or of its
\* first one) replaces that of the new draft, if the template has a version of that number.
FromTemplate(t, p, d) ==
    /\ "template" \in Kinds /\ Exists(t) /\ ~Exists(p) /\ p \notin wiped
    /\ LET src == ver[t][IF pol[t].cur = 0 THEN 1 ELSE pol[t].cur] IN
       /\ pol' = [pol EXCEPT ![p] = [status |-> "draft", cur |-> 0]]
       /\ ver' = [ver EXCEPT ![p][1] = Draft(IF src.status = "none" THEN d ELSE src.doc)]
    /\ UNCHANGED <<asg, sess, wiped, astray>>

\* update_policy: only a draft policy, and only its first version while that is a draft.
UpdateLoad(s, p, d) ==
    /\ pol[p].status = "draft" /\ ver[p][1].status = "draft"
    /\ Begin(s, "update", p, p, 1, d)

\* Document and hash are written; the other columns of the row keep what others wrote.
UpdateCommit(s) ==
    LET x == sess[s] IN
    /\ x.kind = "update"
    /\ ver' = IF Exists(x.p) THEN [ver EXCEPT ![x.p][1].doc = x.doc, ![x.p][1].hash = x.doc] ELSE ver
    /\ Finish(s) /\ UNCHANGED <<pol, asg, wiped, astray>>

\* create_version: the highest number plus one, read first ...
VersionLoad(s, p, d) ==
    \E n \in Numbers :
        /\ Exists(p) /\ ver[p][n].status = "none" /\ \A m \in 1..(n - 1) : ver[p][m].status # "none"
        /\ Begin(s, "version", p, p, n, d)

\* ... and inserted under the unique constraint on policy and number.
VersionCommit(s) ==
    LET x == sess[s] IN
    /\ x.kind = "version"
    /\ ver' = IF Exists(x.p) /\ ver[x.p][x.n].status = "none"
              THEN [ver EXCEPT ![x.p][x.n] = Draft(x.doc)] ELSE ver
    /\ Finish(s) /\ UNCHANGED <<pol, asg, wiped, astray>>

------------------------------------------------------------------------------
(* Publishing, assigning and deleting.                                     *)

\* publish_version: get_version looks the version up by its id alone, so q need not be p.
PublishLoad(s, p, q, n) ==
    /\ Exists(p) /\ Exists(q) /\ ver[q][n].status = "draft"
    /\ Begin(s, "publish", p, q, n, NoDoc)

Astray(x) == IF x.q = x.p THEN astray \ {x.p} ELSE astray \cup {x.p}

\* Mutant: the current version moves although the version's row is gone.
PublishCommitPointer(s) ==
    LET x == sess[s] IN
    /\ x.kind = "publish"
    /\ pol' = IF Exists(x.p) THEN [pol EXCEPT ![x.p].cur = x.n, ![x.p].status = "active"] ELSE pol
    /\ astray' = IF Exists(x.p) THEN Astray(x) ELSE astray
    /\ UNCHANGED ver
    /\ Finish(s) /\ UNCHANGED <<asg, wiped>>

\* The signature is over the document that was read; the policy becomes active unless it was
\* read as active, when the column is not written, and takes the version's number.
PublishCommit(s) ==
    LET x == sess[s] IN
    /\ x.kind = "publish"
    /\ IF Exists(x.p) /\ Exists(x.q)
       THEN /\ ver' = [ver EXCEPT ![x.q][x.n].status = "published", ![x.q][x.n].sig = x.row.doc]
            /\ pol' = [pol EXCEPT ![x.p].cur = x.n,
                                  ![x.p].status = IF x.saw.status = "active" THEN @ ELSE "active"]
            /\ astray' = Astray(x)
       ELSE UNCHANGED <<ver, pol, astray>>
    /\ Finish(s) /\ UNCHANGED <<asg, wiped>>

\* create_assignment: of one published version, or of whatever version is current, which need
\* not exist.  deploy adds an enabled assignment as well.
CreateAssignment(p) ==
    /\ "assign" \in Kinds /\ Exists(p)
    /\ asg' = [asg EXCEPT ![p] = TRUE]
    /\ UNCHANGED <<pol, ver, sess, wiped, astray>>

\* delete_assignment disables the row.
DeleteAssignment(p) ==
    /\ "assign" \in Kinds /\ asg[p]
    /\ asg' = [asg EXCEPT ![p] = FALSE]
    /\ UNCHANGED <<pol, ver, sess, wiped, astray>>

\* delete_policy: refused while an assignment is enabled.
DeleteLoad(s, p) == Exists(p) /\ ~asg[p] /\ Begin(s, "delete", p, p, 1, NoDoc)

\* Archive first; from archived the row goes, and its versions and assignments with it.
DeleteCommit(s) ==
    LET x == sess[s] IN
    /\ x.kind = "delete"
    /\ \/ /\ ~Exists(x.p) /\ UNCHANGED <<pol, ver, asg, wiped>>
       \/ /\ Exists(x.p) /\ x.saw.status # "archived"
          /\ pol' = [pol EXCEPT ![x.p].status = "archived"] /\ UNCHANGED <<ver, asg, wiped>>
       \/ /\ Exists(x.p) /\ x.saw.status = "archived"
          /\ wiped' = wiped \cup {x.p}
          /\ pol' = [pol EXCEPT ![x.p] = NoPolicy]
          /\ ver' = [ver EXCEPT ![x.p] = [n \in Numbers |-> NoVersionRow]]
          /\ asg' = [asg EXCEPT ![x.p] = FALSE]
    /\ Finish(s) /\ UNCHANGED astray

Next == \/ \E p \in Policies, d \in Docs : CreatePolicy(p, d)
        \/ \E t, p \in Policies, d \in Docs : FromTemplate(t, p, d)
        \/ \E s \in Sessions, p \in Policies, d \in Docs : UpdateLoad(s, p, d) \/ VersionLoad(s, p, d)
        \/ \E s \in Sessions, p, q \in Policies, n \in Numbers : PublishLoad(s, p, q, n)
        \/ \E s \in Sessions, p \in Policies : DeleteLoad(s, p)
        \/ \E p \in Policies : CreateAssignment(p) \/ DeleteAssignment(p)
        \/ \E s \in Sessions : UpdateCommit(s) \/ VersionCommit(s) \/ PublishCommit(s) \/ DeleteCommit(s)

Spec == Init /\ [][Next]_vars

------------------------------------------------------------------------------
(* Properties.                                                             *)

\* What the agent will verify: the signature and the hash of a version that was published are
\* those of its document.  (A seeded first version was never published.)
PublishedVerifies == \A p \in Policies, n \in Numbers :
    ver[p][n].status = "published" /\ ~(p \in Seeded /\ n = 1) => ver[p][n].sig = ver[p][n].doc /\ ver[p][n].hash = ver[p][n].doc

\* The current version of a policy is one of its own published versions, unless the request
\* that published it last named a version of another policy (publish_version, get_version).
CurrentIsPublished ==
    \A p \in Policies \ astray : pol[p].cur # 0 => ver[p][pol[p].cur].status = "published"

=============================================================================
