------------------------------- MODULE Outbox -------------------------------
(***************************************************************************)
(* The lifecycle outbox: messages written with the lifecycle change they   *)
(* announce, dispatcher workers (one per service process) that claim due   *)
(* messages under a lease and hand them to the webhook handler, bounded    *)
(* retry, dead letters and their replay.                                   *)
(*                                                                         *)
(* A row is updated with UpdateOutboxMessageIfCurrent, which compares the  *)
(* status, the lease deadline and updated_at with the row that was read.   *)
(* updated_at has a resolution of a nanosecond and two updates of a row    *)
(* are a database round trip apart, so the comparison says whether anyone  *)
(* else updated the row since; a worker's "current" set holds the messages *)
(* for which nobody did, and what it read of those is what is stored.      *)
(*                                                                         *)
(* Times are relative: a row holds the ticks left until it is available    *)
(* and until its lease ends.                                               *)
(***************************************************************************)
EXTENDS Integers, FiniteSets, Sequences

CONSTANTS
    Workers,      \* dispatcher workers
    Messages,     \* outbox message identifiers
    Endpoints,    \* notification endpoint identifiers
    Subscribers,  \* for each message, the endpoints whose type and event types match it
    MaxAttempts,  \* defaultOutboxMaxAttempts
    RetryDelays,  \* outboxRetryDelays, in ticks
    Lease,        \* defaultOutboxProcessingLease, in ticks
    PromptHandlers, \* TRUE: a handler that runs ends before its lease does
    MaxReplays,   \* bound: operator replays per message
    MaxCrashes,   \* bound: workers that stop in mid-run
    Nothing       \* no message, no endpoint

ASSUME NothingAssumption == Nothing \notin Messages /\ Nothing \notin Endpoints
ASSUME SubscribersAssumption == Subscribers \in [Messages -> SUBSET Endpoints]
ASSUME AttemptsAssumption == MaxAttempts \in Nat \ {0}
ASSUME DelaysAssumption == RetryDelays \in Seq(Nat) /\ RetryDelays # <<>>
ASSUME OutboxLeaseAssumption == Lease \in Nat \ {0}
ASSUME OutboxBoundAssumption == PromptHandlers \in BOOLEAN /\ MaxReplays \in Nat /\ MaxCrashes \in Nat

VARIABLES
    msg,       \* outbox_messages
    endpoint,  \* notification_endpoints.status
    delivery,  \* webhook_deliveries.status by message and endpoint
    jobs,      \* job_attempts by message: how many succeeded and failed
    pc,        \* where each worker stands
    batch,     \* the listed messages a worker has not come to yet
    current,   \* the messages whose row is as the worker read or wrote it
    job,       \* the message a worker handles
    todo,      \* the endpoints the handler has not come to yet
    target,    \* the endpoint the handler posts to
    outcome,   \* how the post, and then the handler, ended
    replays,   \* how often an operator put a dead letter back
    crashes,   \* how many workers stopped
    received,  \* history: endpoints that received a message
    addressed  \* history: endpoints that were active when a message was written

tables == <<msg, endpoint, delivery, jobs>>
worker == <<pc, batch, current, job, todo, target, outcome>>
hist   == <<received, addressed>>
vars   == <<tables, worker, replays, crashes, hist>>

-----------------------------------------------------------------------------
(* Rows.                                                                   *)

Message(s, w, l, n) == [status |-> s, wait |-> w, lease |-> l, attempts |-> n]
NoMessage == Message("none", 0, 0, 0)
NewMessage == Message("pending", 0, 0, 0)

\* What claim stores: first, when the lease has ended, and last.
Recovered(r) == Message("pending", r.wait, 0, r.attempts)
Claimed(r) == Message("processing", r.wait, Lease, r.attempts)

\* A tick later.
Less(k) == IF k > 0 THEN k - 1 ELSE 0
Aged(r) == Message(r.status, Less(r.wait), Less(r.lease), r.attempts)

Init ==
    /\ msg = [m \in Messages |-> NoMessage]
    /\ endpoint = [n \in Endpoints |-> "none"]
    /\ delivery = [m \in Messages |-> [n \in Endpoints |-> "none"]]
    /\ jobs = [m \in Messages |-> [succeeded |-> 0, failed |-> 0]]
    /\ pc = [w \in Workers |-> "idle"]
    /\ batch = [w \in Workers |-> {}]
    /\ current = [w \in Workers |-> {}]
    /\ job = [w \in Workers |-> Nothing]
    /\ todo = [w \in Workers |-> {}]
    /\ target = [w \in Workers |-> Nothing]
    /\ outcome = [w \in Workers |-> "none"]
    /\ replays = [m \in Messages |-> 0]
    /\ crashes = 0
    /\ received = [m \in Messages |-> {}]
    /\ addressed = [m \in Messages |-> {}]

-----------------------------------------------------------------------------
(* Store operations.                                                       *)

\* Faulty variant of IfCurrent: an unconditional update.
IfCurrentAlways(w, m) == TRUE

\* UpdateOutboxMessageIfCurrent by w succeeds.
IfCurrent(w, m) == m \in current[w]

\* Faulty variant of Update: nobody notices that the row was updated.
UpdateUnnoticed(m, r, holder) == msg' = [msg EXCEPT ![m] = r] /\ UNCHANGED current

\* Row m becomes r: only the holder, if any, still knows what is stored.
Update(m, r, holder) ==
    /\ msg' = [msg EXCEPT ![m] = r]
    /\ current' = [v \in Workers |-> IF v \in holder THEN current[v] ELSE current[v] \ {m}]

\* Faulty variant of Due: a claim whose worker stopped is never listed again.
DuePendingOnly(m) == msg[m].status = "pending" /\ msg[m].wait = 0

\* ListDueOutboxMessages: available, or with a lease that has ended.
Due(m) ==
    \/ msg[m].status = "pending" /\ msg[m].wait = 0
    \/ msg[m].status = "processing" /\ msg[m].lease = 0

\* outboxRetryDelayForAttempt and the jitter of up to a tenth on top of it.
RetryDelay(n) ==
    LET index == IF n <= 1 THEN 1 ELSE IF n > Len(RetryDelays) THEN Len(RetryDelays) ELSE n
        base == RetryDelays[index]
    IN  base..base + base \div 10

-----------------------------------------------------------------------------
(* The service: messages, endpoints, operators.                            *)

\* createOutboxMessage, in the transaction of the lifecycle change.
CreateOutboxMessage(m) ==
    /\ msg[m].status = "none"
    /\ msg' = [msg EXCEPT ![m] = NewMessage]
    /\ addressed' = [addressed EXCEPT ![m] = {n \in Subscribers[m] : endpoint[n] = "active"}]
    /\ UNCHANGED <<endpoint, delivery, jobs, worker, replays, crashes, received>>

CreateNotificationEndpoint(n) ==
    /\ endpoint[n] = "none"
    /\ endpoint' = [endpoint EXCEPT ![n] = "active"]
    /\ UNCHANGED <<msg, delivery, jobs, worker, replays, crashes, hist>>

DisableNotificationEndpoint(n) ==
    /\ endpoint[n] = "active"
    /\ endpoint' = [endpoint EXCEPT ![n] = "disabled"]
    /\ UNCHANGED <<msg, delivery, jobs, worker, replays, crashes, hist>>

\* outboxMessageForReplay of a set of messages in one transaction:
\* RetryOutboxMessage of one, ReplayDeadLetterOutboxMessages of those that
\* match.  Status failed, which both accept as well, is never written.
ReplayDeadLetters(S) ==
    /\ \A m \in S : msg[m].status = "dead_letter" /\ replays[m] < MaxReplays
    /\ msg' = [m \in Messages |-> IF m \in S THEN NewMessage ELSE msg[m]]
    /\ current' = [w \in Workers |-> current[w] \ S]
    /\ replays' = [m \in Messages |-> IF m \in S THEN replays[m] + 1 ELSE replays[m]]
    /\ UNCHANGED <<endpoint, delivery, jobs, pc, batch, job, todo, target, outcome, crashes, hist>>

-----------------------------------------------------------------------------
(* The dispatcher.                                                         *)

\* w goes on with the messages b of its batch, or is done.
Proceed(w, b) ==
    /\ pc' = [pc EXCEPT ![w] = IF b = {} THEN "idle" ELSE "batch"]
    /\ batch' = [batch EXCEPT ![w] = b]

\* RunOnce lists due messages, the batch size at most.
ListDue(w, S) ==
    /\ pc[w] = "idle"
    /\ S # {} /\ \A m \in S : Due(m)
    /\ Proceed(w, S)
    /\ current' = [current EXCEPT ![w] = S]
    /\ UNCHANGED <<tables, job, todo, target, outcome, replays, crashes, hist>>

\* The message w has come to in its batch, or has just recovered.
ComesTo(w, m) == (pc[w] = "batch" /\ m \in batch[w]) \/ (pc[w] = "reclaim" /\ m = job[w])

\* claim of a message that somebody updated since it was read: skipped.
ClaimLost(w, m) ==
    /\ ComesTo(w, m)
    /\ ~IfCurrent(w, m)
    /\ Proceed(w, batch[w] \ {m})
    /\ job' = [job EXCEPT ![w] = Nothing]
    /\ UNCHANGED <<tables, current, todo, target, outcome, replays, crashes, hist>>

\* claim, first update: a message whose lease has ended is pending again.
Recover(w, m) ==
    /\ ComesTo(w, m)
    /\ IfCurrent(w, m) /\ msg[m].status = "processing"
    /\ Update(m, Recovered(msg[m]), {w})
    /\ pc' = [pc EXCEPT ![w] = "reclaim"]
    /\ batch' = [batch EXCEPT ![w] = @ \ {m}]
    /\ job' = [job EXCEPT ![w] = m]
    /\ UNCHANGED <<endpoint, delivery, jobs, todo, target, outcome, replays, crashes, hist>>

\* claim, last update: the message is the worker's for the length of a lease.
Claim(w, m) ==
    /\ ComesTo(w, m)
    /\ IfCurrent(w, m) /\ msg[m].status = "pending"
    /\ Update(m, Claimed(msg[m]), {w})
    /\ pc' = [pc EXCEPT ![w] = "list"]
    /\ batch' = [batch EXCEPT ![w] = @ \ {m}]
    /\ job' = [job EXCEPT ![w] = m]
    /\ UNCHANGED <<endpoint, delivery, jobs, todo, target, outcome, replays, crashes, hist>>

\* Faulty variant of Failed: one attempt too many.
FailedOneMore(r) ==
    LET n == r.attempts + 1 IN
    IF n > MaxAttempts
    THEN {Message("dead_letter", r.wait, 0, n)}
    ELSE {Message("pending", d, 0, n) : d \in RetryDelay(n)}

\* What finish stores after a success and after a failed attempt.
Completed(r) == {Message("completed", r.wait, 0, r.attempts)}
Failed(r) ==
    LET n == r.attempts + 1 IN
    IF n >= MaxAttempts
    THEN {Message("dead_letter", r.wait, 0, n)}
    ELSE {Message("pending", d, 0, n) : d \in RetryDelay(n)}

\* The worker lets go of the message it handled.
Release(w) ==
    /\ job' = [job EXCEPT ![w] = Nothing]
    /\ todo' = [todo EXCEPT ![w] = {}]
    /\ target' = [target EXCEPT ![w] = Nothing]
    /\ outcome' = [outcome EXCEPT ![w] = "none"]

\* finish: the row and the job attempt in one transaction.
Finish(w) ==
    LET m == job[w] IN
    /\ pc[w] = "finish"
    /\ IfCurrent(w, m)
    /\ \E r \in IF outcome[w] = "succeeded" THEN Completed(msg[m]) ELSE Failed(msg[m]) : Update(m, r, {})
    /\ jobs' = [jobs EXCEPT ![m][outcome[w]] = @ + 1]
    /\ Proceed(w, batch[w])
    /\ Release(w)
    /\ UNCHANGED <<endpoint, delivery, replays, crashes, hist>>

\* finish of a message the worker no longer holds is an error: nothing is
\* stored and RunOnce ends, with the rest of its batch untouched.
FinishLost(w) ==
    /\ pc[w] = "finish"
    /\ ~IfCurrent(w, job[w])
    /\ Proceed(w, {})
    /\ current' = [current EXCEPT ![w] = {}]
    /\ Release(w)
    /\ UNCHANGED <<tables, replays, crashes, hist>>

-----------------------------------------------------------------------------
(* The webhook handler.                                                    *)

\* HandleOutboxMessage lists the endpoints and keeps the active ones that match.
ListEndpoints(w) ==
    /\ pc[w] = "list"
    /\ todo' = [todo EXCEPT ![w] = {n \in Subscribers[job[w]] : endpoint[n] = "active"}]
    /\ pc' = [pc EXCEPT ![w] = "handle"]
    /\ UNCHANGED <<tables, batch, current, job, target, outcome, replays, crashes, hist>>

\* An endpoint whose delivery succeeded before is skipped.
SkipDelivered(w, n) ==
    /\ pc[w] = "handle" /\ n \in todo[w]
    /\ delivery[job[w]][n] = "succeeded"
    /\ todo' = [todo EXCEPT ![w] = @ \ {n}]
    /\ UNCHANGED <<tables, pc, batch, current, job, target, outcome, replays, crashes, hist>>

StartPost(w, n) ==
    /\ pc[w] = "handle" /\ n \in todo[w]
    /\ delivery[job[w]][n] # "succeeded"
    /\ target' = [target EXCEPT ![w] = n]
    /\ pc' = [pc EXCEPT ![w] = "post"]
    /\ UNCHANGED <<tables, batch, current, job, todo, outcome, replays, crashes, hist>>

\* postWebhook: the receiver gets the message and answers 2xx, or the post
\* fails, before or after the receiver got the message.
Post(w, result, reached) ==
    /\ pc[w] = "post"
    /\ result = "succeeded" => reached
    /\ received' = IF reached THEN [received EXCEPT ![job[w]] = @ \cup {target[w]}] ELSE received
    /\ outcome' = [outcome EXCEPT ![w] = result]
    /\ pc' = [pc EXCEPT ![w] = "record"]
    /\ UNCHANGED <<tables, batch, current, job, todo, target, replays, crashes, addressed>>

\* Faulty variant of Record: the handler goes on after a failed post.
RecordGoesOn(w) ==
    /\ pc[w] = "record"
    /\ delivery' = [delivery EXCEPT ![job[w]][target[w]] = outcome[w]]
    /\ target' = [target EXCEPT ![w] = Nothing]
    /\ pc' = [pc EXCEPT ![w] = "handle"]
    /\ todo' = [todo EXCEPT ![w] = @ \ {target[w]}]
    /\ outcome' = [outcome EXCEPT ![w] = "none"]
    /\ UNCHANGED <<msg, endpoint, jobs, batch, current, job, replays, crashes, hist>>

\* recordWebhookDelivery, unconditionally; a failure ends the handler.
Record(w) ==
    /\ pc[w] = "record"
    /\ delivery' = [delivery EXCEPT ![job[w]][target[w]] = outcome[w]]
    /\ target' = [target EXCEPT ![w] = Nothing]
    /\ \/ /\ outcome[w] = "succeeded"
          /\ pc' = [pc EXCEPT ![w] = "handle"]
          /\ todo' = [todo EXCEPT ![w] = @ \ {target[w]}]
          /\ outcome' = [outcome EXCEPT ![w] = "none"]
       \/ /\ outcome[w] = "failed"
          /\ pc' = [pc EXCEPT ![w] = "finish"]
          /\ UNCHANGED <<todo, outcome>>
    /\ UNCHANGED <<msg, endpoint, jobs, batch, current, job, replays, crashes, hist>>

\* All endpoints are done: the handler succeeds.
HandlerDone(w) ==
    /\ pc[w] = "handle" /\ todo[w] = {}
    /\ outcome' = [outcome EXCEPT ![w] = "succeeded"]
    /\ pc' = [pc EXCEPT ![w] = "finish"]
    /\ UNCHANGED <<tables, batch, current, job, todo, target, replays, crashes, hist>>

\* A read or write of the handler fails; so does the handler.
HandlerError(w) ==
    /\ pc[w] \in {"list", "handle", "record"}
    /\ outcome' = [outcome EXCEPT ![w] = "failed"]
    /\ target' = [target EXCEPT ![w] = Nothing]
    /\ pc' = [pc EXCEPT ![w] = "finish"]
    /\ UNCHANGED <<tables, batch, current, job, todo, replays, crashes, hist>>

-----------------------------------------------------------------------------
(* The environment.                                                        *)

\* The worker stops in mid-run, or a claim or finish meets a storage error.
Crash(w) ==
    /\ pc[w] # "idle" /\ crashes < MaxCrashes
    /\ crashes' = crashes + 1
    /\ Proceed(w, {})
    /\ current' = [current EXCEPT ![w] = {}]
    /\ Release(w)
    /\ UNCHANGED <<tables, replays, hist>>

\* w is past its claim and has not finished.
Handling(w) == pc[w] \in {"list", "handle", "post", "record", "finish"}

\* Time passes.
Tick ==
    /\ \E m \in Messages : msg[m].wait > 0 \/ msg[m].lease > 0
    /\ PromptHandlers => \A w \in Workers : Handling(w) /\ job[w] \in current[w] => msg[job[w]].lease > 1
    /\ msg' = [m \in Messages |-> Aged(msg[m])]
    /\ UNCHANGED <<endpoint, delivery, jobs, worker, replays, crashes, hist>>

-----------------------------------------------------------------------------
Dispatch(w) ==
    \/ \E m \in Messages : ClaimLost(w, m) \/ Recover(w, m) \/ Claim(w, m)
    \/ Finish(w) \/ FinishLost(w)

Handle(w) ==
    \/ ListEndpoints(w) \/ Record(w) \/ HandlerDone(w) \/ HandlerError(w)
    \/ \E n \in Endpoints : SkipDelivered(w, n) \/ StartPost(w, n)
    \/ \E result \in {"succeeded", "failed"}, reached \in BOOLEAN : Post(w, result, reached)

Next ==
    \/ \E m \in Messages : CreateOutboxMessage(m)
    \/ \E n \in Endpoints : CreateNotificationEndpoint(n) \/ DisableNotificationEndpoint(n)
    \/ \E S \in SUBSET Messages \ {{}} : ReplayDeadLetters(S)
    \/ \E w \in Workers, S \in SUBSET Messages : ListDue(w, S)
    \/ \E w \in Workers : Dispatch(w) \/ Handle(w) \/ Crash(w)
    \/ Tick

Spec == Init /\ [][Next]_vars

\* The worker loops run on and time passes.  Due messages are listed in the
\* order they became due, so each is in a batch at some time.
Fairness ==
    /\ \A w \in Workers : WF_vars(Dispatch(w) \/ Handle(w))
    /\ \A w \in Workers, m \in Messages : SF_vars(\E S \in SUBSET Messages : m \in S /\ ListDue(w, S))
    /\ WF_vars(Tick)

FairSpec == Spec /\ Fairness

-----------------------------------------------------------------------------
(* Properties.                                                             *)

MessageStatus == {"none", "pending", "processing", "completed", "dead_letter"}
Row == [status : MessageStatus, wait : Nat, lease : 0..Lease, attempts : 0..MaxAttempts]

\* Every variable holds values of its type.
TypeOK ==
    /\ msg \in [Messages -> Row]
    /\ endpoint \in [Endpoints -> {"none", "active", "disabled"}]
    /\ delivery \in [Messages -> [Endpoints -> {"none", "succeeded", "failed"}]]
    /\ jobs \in [Messages -> [succeeded : Nat, failed : Nat]]
    /\ pc \in [Workers -> {"idle", "batch", "reclaim", "list", "handle", "post", "record", "finish"}]
    /\ batch \in [Workers -> SUBSET Messages]
    /\ current \in [Workers -> SUBSET Messages]
    /\ job \in [Workers -> Messages \cup {Nothing}]
    /\ todo \in [Workers -> SUBSET Endpoints]
    /\ target \in [Workers -> Endpoints \cup {Nothing}]
    /\ outcome \in [Workers -> {"none", "succeeded", "failed"}]
    /\ replays \in [Messages -> Nat]
    /\ crashes \in Nat
    /\ received \in [Messages -> SUBSET Endpoints]
    /\ addressed \in [Messages -> SUBSET Endpoints]

\* Of all workers that handle a message, at most one can still finish it, and
\* for it the row is still the claim it made (claim, finish).
ClaimExclusive ==
    \A w \in Workers :
        Handling(w) /\ job[w] \in current[w] =>
            /\ msg[job[w]].status = "processing"
            /\ \A v \in Workers \ {w} : Handling(v) /\ job[v] = job[w] => job[v] \notin current[v]

\* The job attempts account for the message: it was completed once or not at
\* all, every failed attempt since the last replay is counted, and a message is
\* a dead letter exactly when the attempts are used up, also when workers that
\* lost their claim end late (finish, outboxMessageForReplay).
AttemptsAccounted ==
    \A m \in Messages :
        /\ jobs[m].failed = replays[m] * MaxAttempts + msg[m].attempts
        /\ jobs[m].succeeded = IF msg[m].status = "completed" THEN 1 ELSE 0
        /\ msg[m].status = "dead_letter" <=> msg[m].attempts = MaxAttempts

\* Delivery is at least once: when a message is completed, every matching
\* endpoint that was active when it was written, and has not been disabled
\* since, received it, in spite of crashes, claims that change hands and late
\* records (HandleOutboxMessage, RunOnce).
CompletedWasReceived ==
    \A m \in Messages :
        msg[m].status = "completed" =>
            \A n \in addressed[m] : endpoint[n] = "active" => n \in received[m]

\* Every message is eventually completed or a dead letter, although workers
\* stop in mid-run (ListDueOutboxMessages, the lease).
MessagesSettle ==
    \A m \in Messages : msg[m].status = "pending" ~> msg[m].status \in {"completed", "dead_letter"}

\* Claims, leases, recovery and crashes are invisible in the queue.
Queue == INSTANCE DeliveryQueue WITH
             state <- [m \in Messages |->
                          IF msg[m].status \in {"pending", "processing"} THEN "queued" ELSE msg[m].status],
             tries <- [m \in Messages |-> msg[m].attempts]
ImplementsQueue == Queue!Spec
=============================================================================
