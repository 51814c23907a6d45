------------------------------ MODULE EventPipe ------------------------------
(***************************************************************************)
(* Events from the agent's bounded queue to the events table: pushed,      *)
(* drained by priority and reported in batches, published on NATS, claimed *)
(* by one of the event processors, buffered and inserted. The buffer is    *)
(* bounded too, gives its rows to the insert under way and takes them back *)
(* when that fails.                                                        *)
(***************************************************************************)
EXTENDS Naturals, Sequences, FiniteSets

CONSTANTS Events,
          Critical,    \* events of priority CRITICAL, severity ERROR or CRITICAL
          Low,         \* the events shed first
          Workers,     \* event processors, each subscribed to every message
          Capacity,    \* of the agent's queue
          MaxBatch,    \* events drained at a time
          BufferMax,   \* EVENT_BUFFER_MAX
          Ops,         \* which of "trim", "unsent", "redisdown", "stop" may happen
          MaxFailures  \* inserts that fail

VARIABLES queue,     \* the agent's queue, oldest first
          pushed,    \* events the collectors have pushed
          refused,   \* events Push did not accept
          inbox,     \* messages each worker has not handled
          claimed,   \* dedup keys in Redis
          buffer,    \* rows each worker has buffered
          batch,     \* the batches of rows each worker is inserting
          rows,      \* how often each event is in the events table
          failures,
          given      \* history: CRITICAL events given up on purpose (see Behind and Flooded)

vars == <<queue, pushed, refused, inbox, claimed, buffer, batch, rows, failures, given>>
agent == <<queue, pushed, refused>>
server == <<inbox, claimed, buffer, batch, rows, failures, given>>

Init ==
    /\ queue = <<>>
    /\ pushed = {}
    /\ refused = {}
    /\ inbox = [w \in Workers |-> {}]
    /\ claimed = {}
    /\ buffer = [w \in Workers |-> <<>>]
    /\ batch = [w \in Workers |-> {}]
    /\ rows = [e \in Events |-> 0]
    /\ failures = 0
    /\ given = {}

Rank(e) == IF e \in Critical THEN 0 ELSE IF e \in Low THEN 2 ELSE 1

\* Positions of s in the order of `before', the first n of them.
First(s, n, before(_, _)) ==
    {i \in DOMAIN s : Cardinality({j \in DOMAIN s : before(j, i)}) < n}

\* s without the positions I.
Drop(s, I) ==
    LET kept == DOMAIN s \ I
    IN  [n \in 1..Cardinality(kept) |-> s[CHOOSE k \in kept : Cardinality({j \in kept : j < k}) = n - 1]]
-----------------------------------------------------------------------------
(* The agent.                                                               *)

\* Lowest priority first, then oldest; never a CRITICAL one.
Worse(i, j) == Rank(queue[i]) > Rank(queue[j]) \/ (Rank(queue[i]) = Rank(queue[j]) /\ i < j)

Evicted == {i \in First(queue, 1, Worse) : queue[i] \notin Critical}

Push(e) ==
    /\ e \notin pushed
    /\ pushed' = pushed \cup {e}
    /\ \/ /\ Len(queue) < Capacity
          /\ queue' = Append(queue, e) /\ UNCHANGED refused
       \/ /\ Len(queue) >= Capacity /\ Evicted # {}
          /\ queue' = Append(Drop(queue, Evicted), e) /\ UNCHANGED refused
       \/ /\ Len(queue) >= Capacity /\ Evicted = {}
          /\ refused' = refused \cup {e} /\ UNCHANGED queue
    /\ UNCHANGED server

Urgent(i, j) == Rank(queue[i]) < Rank(queue[j]) \/ (Rank(queue[i]) = Rank(queue[j]) /\ i < j)

Drained == First(queue, MaxBatch, Urgent)

\* What of the batch fits MaxBytes: all but the least urgent ones.
Trimmed == {First(queue, n, Urgent) : n \in 1..Cardinality(Drained)}

\* CRITICAL events a batch that carries another one has no room for.
Behind(sent) ==
    {queue[i] : i \in {i \in Drained \ sent : queue[i] \in Critical
                                            /\ \E j \in sent : queue[j] \in Critical}}

\* flushIfDue and ReportEvents; emit publishes each record to every worker.
Flush ==
    /\ queue # <<>>
    /\ queue' = Drop(queue, Drained)
    /\ \E sent \in IF "trim" \in Ops THEN Trimmed ELSE {Drained} :
         /\ inbox' = [w \in Workers |-> inbox[w] \cup {queue[i] : i \in sent}]
         /\ given' = given \cup Behind(sent)
    /\ UNCHANGED <<pushed, refused, claimed, buffer, batch, rows, failures>>

\* The stream or the publish fails; the batch has left the queue.
FlushFails ==
    /\ "unsent" \in Ops
    /\ queue # <<>>
    /\ queue' = Drop(queue, Drained)
    /\ UNCHANGED <<pushed, refused, server>>
-----------------------------------------------------------------------------
(* The event processor and its buffer.                                      *)

ShedFirst(s, i, j) ==
    /\ s[i] \notin Critical
    /\ Rank(s[i]) > Rank(s[j]) \/ (Rank(s[i]) = Rank(s[j]) /\ i < j)

\* Rows above BufferMax go, least severe and oldest first; ERROR and CRITICAL
\* only above twice that.
EnforceCap_Oldest(s) == SubSeq(s, Len(s) - BufferMax + 1, Len(s))
EnforceCap(s) ==
    LET over == IF Len(s) > BufferMax THEN Len(s) - BufferMax ELSE 0
        shed == {i \in First(s, over, LAMBDA i, j : ShedFirst(s, i, j)) : s[i] \notin Critical}
        kept == Drop(s, shed)
        excess == IF Len(kept) > 2 * BufferMax THEN Len(kept) - 2 * BufferMax ELSE 0
    IN  SubSeq(kept, excess + 1, Len(kept))

Bounded(s) == IF Len(s) <= BufferMax THEN s ELSE EnforceCap(s)

\* CRITICAL rows that are not among the newest 2 * BufferMax CRITICAL rows of s.
Flooded(s) ==
    LET spared == {i \in DOMAIN s : s[i] \in Critical}
    IN  {s[i] : i \in {i \in spared : Cardinality({j \in spared : j >= i}) > 2 * BufferMax}}

Fresh_Always(e) == TRUE
Fresh(e) == e \notin claimed

HandleRaw(w, e) ==
    /\ e \in inbox[w]
    /\ inbox' = [inbox EXCEPT ![w] = @ \ {e}]
    /\ \/ /\ Fresh(e)
          /\ claimed' = claimed \cup {e}
          /\ buffer' = [buffer EXCEPT ![w] = Bounded(Append(@, e))]
          /\ given' = given \cup Flooded(Append(buffer[w], e))
       \/ ~Fresh(e) /\ UNCHANGED <<claimed, buffer, given>>
       \/ /\ "redisdown" \in Ops
          /\ buffer' = [buffer EXCEPT ![w] = Bounded(Append(@, e))] /\ UNCHANGED claimed
          /\ given' = given \cup Flooded(Append(buffer[w], e))
    /\ UNCHANGED <<agent, batch, rows, failures>>

\* Called by add, when the buffer is large or old, and by the flush loop.
RepositoryFlush(w) ==
    /\ buffer[w] # <<>> /\ Cardinality(batch[w]) < 2
    /\ batch' = [batch EXCEPT ![w] = @ \cup {buffer[w]}]
    /\ buffer' = [buffer EXCEPT ![w] = <<>>]
    /\ UNCHANGED <<agent, inbox, claimed, rows, failures, given>>

InsertDone(w, b) ==
    /\ batch' = [batch EXCEPT ![w] = @ \ {b}]
    /\ rows' = [e \in Events |-> rows[e] + Cardinality({i \in DOMAIN b : b[i] = e})]
    /\ UNCHANGED <<agent, inbox, claimed, buffer, failures, given>>

Requeue(w, b) == Bounded(b \o buffer[w])

InsertFails(w, b) ==
    /\ failures < MaxFailures /\ failures' = failures + 1
    /\ batch' = [batch EXCEPT ![w] = @ \ {b}]
    /\ buffer' = [buffer EXCEPT ![w] = Requeue(w, b)]
    /\ given' = given \cup Flooded(b \o buffer[w])
    /\ UNCHANGED <<agent, inbox, claimed, rows>>

\* stop cancels the flush task, whose insert may be under way, and flushes.
StopWorker(w, b) ==
    /\ "stop" \in Ops
    /\ batch' = [batch EXCEPT ![w] = (@ \ {b}) \cup ({buffer[w]} \ {<<>>})]
    /\ buffer' = [buffer EXCEPT ![w] = <<>>]
    /\ UNCHANGED <<agent, inbox, claimed, rows, failures, given>>
-----------------------------------------------------------------------------
Work(w) ==
    \/ \E e \in Events : HandleRaw(w, e)
    \/ RepositoryFlush(w)
    \/ \E b \in batch[w] : InsertDone(w, b)

Next ==
    \/ \E e \in Events : Push(e)
    \/ Flush \/ FlushFails
    \/ \E w \in Workers : Work(w) \/ \E b \in batch[w] : InsertFails(w, b) \/ StopWorker(w, b)

Spec == Init /\ [][Next]_vars

\* The flusher's poll and the workers keep running.
Fairness == WF_vars(Flush) /\ \A w \in Workers : WF_vars(Work(w))
-----------------------------------------------------------------------------

(* ReportEvents: the dedup key "makes redelivery/retransmission idempotent  *)
(* end-to-end": an event is stored once, whichever workers receive it.      *)
StoredOnce == \A e \in Events : rows[e] <= 1

(* With sends that succeed, a CRITICAL event the queue accepted is stored,  *)
(* although inserts fail, batches are trimmed and buffers overflow, unless  *)
(* it was trimmed behind another one, or 2 * BufferMax newer ones were in   *)
(* the same buffer.                                                         *)
CriticalStored ==
    \A e \in Critical : e \in pushed \ refused ~> (rows[e] > 0 \/ e \in given)
=============================================================================
