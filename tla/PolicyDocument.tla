--------------------------- MODULE PolicyDocument ---------------------------
(***************************************************************************)
(* An agent policy document from the administrator's YAML to the agent:    *)
(* the control plane's validate, which normalises what it accepts, and the *)
(* agent's strict Parse of the same bytes.  A document is the fields that  *)
(* either side looks at: keys beyond the schema at the top, in metadata    *)
(* (or a value there that is no text) and in spec; the collectors, whose   *)
(* flag may be on, off, unset or no Boolean; the interval; and the         *)
(* reserved sections, which behave alike and are one: absent, empty, with  *)
(* values, with values that are all empty, or no mapping (a list).         *)
(***************************************************************************)
EXTENDS Integers, FiniteSets

CONSTANTS
    Collectors,   \* known collector names, among them those a document may list
    Unknown       \* a collector name neither side knows

VARIABLES
    doc,    \* the document
    stage   \* "draft", "refused", "stored", then "accepted" or "rejected" by the agent

vars == <<doc, stage>>

HeartbeatLow == 10
HeartbeatHigh == 300
DefaultInterval == 60
Absent == -1      \* the interval is not given
NotInt == -2      \* it is given and is no integer
Intervals == {Absent, NotInt, 0, HeartbeatLow, DefaultInterval, HeartbeatHigh, 9999}

Listed == UNION {[C -> {"on", "off", "unset", "bad"}] : C \in SUBSET (Collectors \cup {Unknown})}

Documents == [header : BOOLEAN, top : BOOLEAN, meta : BOOLEAN, spec : BOOLEAN,
              collectors : Listed, interval : Intervals,
              reserved : {"absent", "empty", "full", "falsy", "list"}]

------------------------------------------------------------------------------

\* What validate raises on: version, kind and name; unknown keys of spec and of a collector; a
\* flag that is no boolean; an interval that is no integer; a reserved section with a value.
\* A reserved section that is a list passes, and so does one whose values are all empty.
Refused(d) ==
    \/ ~d.header \/ d.spec
    \/ Unknown \in DOMAIN d.collectors
    \/ \E c \in DOMAIN d.collectors : d.collectors[c] = "bad"
    \/ d.interval = NotInt
    \/ d.reserved \in {"full"}

Clamp(n) == IF n < HeartbeatLow THEN HeartbeatLow ELSE IF n > HeartbeatHigh THEN HeartbeatHigh ELSE n

\* What validate returns: unlisted collectors are disabled, the interval is there and within
\* its bounds, empty reserved sections are gone.
Normalized(d) ==
    [d EXCEPT !.collectors = [c \in Collectors \cup DOMAIN d.collectors |->
                                  IF c \in DOMAIN d.collectors THEN d.collectors[c] ELSE "off"],
              !.interval = Clamp(IF @ = Absent THEN DefaultInterval ELSE @),
              !.reserved = IF @ = "empty" THEN "absent" ELSE @]

\* Parse on the agent: unknown fields anywhere, a reserved section that is not an empty object,
\* and unknown collectors are errors.
ParseAccepts(d) ==
    /\ d.header /\ ~d.top /\ ~d.meta /\ ~d.spec
    /\ d.reserved \in {"absent", "empty"}
    /\ Unknown \notin DOMAIN d.collectors
    /\ \A c \in DOMAIN d.collectors : d.collectors[c] # "bad"

------------------------------------------------------------------------------
Init == doc \in Documents /\ stage = "draft"

\* parse_yaml and validate, on create, update and a new version.
Compile ==
    /\ stage = "draft"
    /\ IF Refused(doc) THEN stage' = "refused" /\ UNCHANGED doc
       ELSE stage' = "stored" /\ doc' = Normalized(doc)

\* The agent receives the published document.
AgentParse ==
    /\ stage = "stored"
    /\ stage' = IF ParseAccepts(doc) THEN "accepted" ELSE "rejected"
    /\ UNCHANGED doc

Next == Compile \/ AgentParse
Spec == Init /\ [][Next]_vars

------------------------------------------------------------------------------
(* Properties.                                                             *)

\* What validate lets pass and Parse does not: keys or types outside spec that it does not look
\* at, and reserved sections it takes for empty.
OnlyParserRefuses(d) == d.top \/ d.meta \/ d.reserved \in {"falsy", "list"}

\* The compiler and the agent's parser agree on every document but those: what the control
\* plane stores the agent rejects exactly when it has unknown keys (or types) outside spec, or a
\* reserved section that is no mapping or holds empty values only (validate against Parse).
StoredIsAccepted == stage \in {"accepted", "rejected"} => (stage = "rejected" <=> OnlyParserRefuses(doc))

=============================================================================
