---------------------------- MODULE OutboxProofs ----------------------------
(* Theorems about Outbox and their proofs, for every set of workers,         *)
(* messages and endpoints, every retry schedule, lease and bound.            *)
EXTENDS Outbox, TLAPS

-----------------------------------------------------------------------------
(* Typing.                                                                   *)

\* A retry delay is a natural number.
LEMMA DelayType ==
    ASSUME NEW n \in Nat
    PROVE  RetryDelay(n) \subseteq Nat
<1> DEFINE index == IF n <= 1 THEN 1 ELSE IF n > Len(RetryDelays) THEN Len(RetryDelays) ELSE n
<1>1. index \in 1..Len(RetryDelays)
    BY DelaysAssumption
<1>2. RetryDelays[index] \in Nat
    BY <1>1, DelaysAssumption
<1> HIDE DEF index
<1>3. RetryDelay(n) = RetryDelays[index]..RetryDelays[index] + RetryDelays[index] \div 10
    BY Zenon DEF RetryDelay, index
<1> QED BY <1>2, <1>3

\* What claim, finish and the passing of time make of a row.
LEMMA ClaimRows ==
    ASSUME NEW r \in Row
    PROVE  /\ Recovered(r) \in Row /\ Recovered(r).status = "pending"
           /\ Recovered(r).attempts = r.attempts
           /\ Claimed(r) \in Row /\ Claimed(r).status = "processing"
           /\ Claimed(r).attempts = r.attempts
BY OutboxLeaseAssumption DEF Recovered, Claimed, Message, Row, MessageStatus

\* What a delivery makes of a row.
LEMMA CompletedRow ==
    ASSUME NEW r \in Row, NEW q \in Completed(r)
    PROVE  q \in Row /\ q.status = "completed" /\ q.attempts = r.attempts
BY OutboxLeaseAssumption DEF Completed, Message, Row, MessageStatus

\* What a failed attempt makes of a row: the last one makes a dead letter.
LEMMA FailedRow ==
    ASSUME NEW r \in Row, r.attempts < MaxAttempts, NEW q \in Failed(r)
    PROVE  /\ q \in Row
           /\ q.attempts = r.attempts + 1
           /\ q.status = IF r.attempts + 1 = MaxAttempts THEN "dead_letter" ELSE "pending"
<1> DEFINE n == r.attempts + 1
<1>1. n \in 0..MaxAttempts /\ n \in Nat /\ RetryDelay(n) \subseteq Nat
    BY AttemptsAssumption, DelayType DEF Row
<1> HIDE DEF n
<1>2. Failed(r) = IF n >= MaxAttempts THEN {Message("dead_letter", r.wait, 0, n)}
                                      ELSE {Message("pending", d, 0, n) : d \in RetryDelay(n)}
    BY Zenon DEF Failed, n
<1>3. CASE n >= MaxAttempts
    <2>1. q = Message("dead_letter", r.wait, 0, n) /\ n = MaxAttempts
        BY <1>1, <1>2, <1>3, AttemptsAssumption
    <2> QED BY <1>1, <2>1, OutboxLeaseAssumption DEF Message, Row, MessageStatus, n
<1>4. CASE ~(n >= MaxAttempts)
    <2>1. PICK d \in RetryDelay(n) : q = Message("pending", d, 0, n)
        BY Zenon, <1>2, <1>4
    <2>2. d \in Nat /\ n # MaxAttempts
        BY <1>1, <1>4, AttemptsAssumption
    <2> QED BY <1>1, <2>1, <2>2, OutboxLeaseAssumption DEF Message, Row, MessageStatus, n
<1> QED BY Zenon, <1>3, <1>4

\* Time changes neither the status nor the attempts of a row.
LEMMA AgedRow ==
    ASSUME NEW r \in Row
    PROVE  Aged(r) \in Row /\ Aged(r).status = r.status /\ Aged(r).attempts = r.attempts
BY OutboxLeaseAssumption DEF Aged, Less, Message, Row

\* The row before and after a message is written.
LEMMA NewRows ==
    /\ NoMessage \in Row /\ NoMessage.status = "none" /\ NoMessage.attempts = 0
    /\ NewMessage \in Row /\ NewMessage.status = "pending" /\ NewMessage.attempts = 0
BY OutboxLeaseAssumption, AttemptsAssumption DEF NoMessage, NewMessage, Message, Row, MessageStatus

-----------------------------------------------------------------------------
(* The inductive invariant of the queue.                                     *)

\* What a worker may rely on: a message it handles has been written, a post has
\* a target, a finished handler has an outcome.
WorkerKnows(w) ==
    /\ Handling(w) \/ pc[w] = "reclaim" => job[w] \in Messages
    /\ Handling(w) => msg[job[w]].status # "none"
    /\ pc[w] \in {"post", "record"} => target[w] \in Endpoints
    /\ pc[w] \in {"record", "finish"} => outcome[w] \in {"succeeded", "failed"}
    /\ \A m \in current[w] : msg[m].status # "none"

QueueInv ==
    /\ TypeOK
    /\ ClaimExclusive
    /\ AttemptsAccounted
    /\ \A m \in Messages : msg[m].status = "none" => msg[m].attempts = 0
    /\ \A w \in Workers : WorkerKnows(w)

\* The row that finish stores.
LEMMA FinishedRow ==
    ASSUME QueueInv, NEW w \in Workers, Finish(w)
    PROVE  \E r \in Row :
              /\ job[w] \in Messages
              /\ outcome[w] \in {"succeeded", "failed"}
              /\ Update(job[w], r, {})
              /\ msg[job[w]].status = "processing"
              /\ msg[job[w]].attempts < MaxAttempts
              /\ outcome[w] = "succeeded" => /\ r.status = "completed"
                                             /\ r.attempts = msg[job[w]].attempts
              /\ outcome[w] = "failed" =>
                    /\ r.attempts = msg[job[w]].attempts + 1
                    /\ r.status = IF r.attempts = MaxAttempts THEN "dead_letter" ELSE "pending"
<1>1. job[w] \in Messages /\ outcome[w] \in {"succeeded", "failed"}
    BY Zenon DEF QueueInv, WorkerKnows, Finish, Handling
<1>2. msg[job[w]].status = "processing"
    BY Zenon DEF QueueInv, ClaimExclusive, Finish, IfCurrent, Handling
<1>3. msg[job[w]] \in Row
    BY Zenon, <1>1 DEF QueueInv, TypeOK
<1>4. msg[job[w]].attempts < MaxAttempts
    BY <1>1, <1>2, <1>3, AttemptsAssumption DEF QueueInv, AttemptsAccounted, Row
<1>5. PICK r \in IF outcome[w] = "succeeded" THEN Completed(msg[job[w]]) ELSE Failed(msg[job[w]]) :
          Update(job[w], r, {})
    BY Zenon DEF Finish
<1>6. CASE outcome[w] = "succeeded"
    <2>1. r \in Completed(msg[job[w]])
        BY Zenon, <1>5, <1>6
    <2> QED BY Zenon, <2>1, <1>1, <1>2, <1>3, <1>4, <1>5, <1>6, CompletedRow
<1>7. CASE outcome[w] = "failed"
    <2>1. r \in Failed(msg[job[w]])
        BY Zenon, <1>5, <1>7
    <2>2. /\ r \in Row
          /\ r.attempts = msg[job[w]].attempts + 1
          /\ r.status = IF msg[job[w]].attempts + 1 = MaxAttempts THEN "dead_letter" ELSE "pending"
        BY Zenon, <2>1, <1>3, <1>4, FailedRow
    <2> QED BY Zenon, <2>2, <1>1, <1>2, <1>4, <1>5, <1>7
<1> QED BY Zenon, <1>1, <1>6, <1>7

\* Typing is preserved.
LEMMA TypeStep ==
    ASSUME QueueInv, [Next]_vars
    PROVE  TypeOK'
<1> USE DEF QueueInv, TypeOK, tables, worker, hist
<1>1. ASSUME NEW m \in Messages, CreateOutboxMessage(m) PROVE TypeOK'
    BY Zenon, <1>1, NewRows, SubscribersAssumption DEF CreateOutboxMessage
<1>2. ASSUME NEW n \in Endpoints, CreateNotificationEndpoint(n) PROVE TypeOK'
    BY Zenon, <1>2 DEF CreateNotificationEndpoint
<1>3. ASSUME NEW n \in Endpoints, DisableNotificationEndpoint(n) PROVE TypeOK'
    BY Zenon, <1>3 DEF DisableNotificationEndpoint
<1>4. ASSUME NEW S \in SUBSET Messages, ReplayDeadLetters(S) PROVE TypeOK'
    BY <1>4, NewRows DEF ReplayDeadLetters
<1>5. ASSUME NEW w \in Workers, NEW S \in SUBSET Messages, ListDue(w, S) PROVE TypeOK'
    BY Zenon, <1>5 DEF ListDue, Proceed
<1>6. ASSUME NEW w \in Workers, NEW m \in Messages, ClaimLost(w, m) PROVE TypeOK'
    BY Zenon, <1>6 DEF ClaimLost, Proceed
<1>7. ASSUME NEW w \in Workers, NEW m \in Messages, Recover(w, m) PROVE TypeOK'
    BY Zenon, <1>7, ClaimRows DEF Recover, Update
<1>8. ASSUME NEW w \in Workers, NEW m \in Messages, Claim(w, m) PROVE TypeOK'
    BY Zenon, <1>8, ClaimRows DEF Claim, Update
<1>9. ASSUME NEW w \in Workers, Finish(w) PROVE TypeOK'
    <2>1. PICK r \in Row : Update(job[w], r, {}) /\ job[w] \in Messages /\ outcome[w] \in {"succeeded", "failed"}
        BY Zenon, <1>9, FinishedRow
    <2>2. msg' \in [Messages -> Row] /\ current' \in [Workers -> SUBSET Messages]
        BY Zenon, <2>1 DEF Update
    <2>3. jobs' \in [Messages -> [succeeded : Nat, failed : Nat]]
        BY <2>1, <1>9 DEF Finish
    <2> QED BY Zenon, <2>2, <2>3, <1>9 DEF Finish, Proceed, Release
<1>10. ASSUME NEW w \in Workers, FinishLost(w) PROVE TypeOK'
    BY Zenon, <1>10 DEF FinishLost, Proceed, Release
<1>11. ASSUME NEW w \in Workers, ListEndpoints(w) PROVE TypeOK'
    <2>1. job[w] \in Messages
        BY Zenon, <1>11 DEF WorkerKnows, ListEndpoints, Handling
    <2> QED BY Zenon, <2>1, <1>11, SubscribersAssumption DEF ListEndpoints
<1>12. ASSUME NEW w \in Workers, Record(w) PROVE TypeOK'
    <2>1. job[w] \in Messages /\ target[w] \in Endpoints /\ outcome[w] \in {"succeeded", "failed"}
        BY Zenon, <1>12 DEF WorkerKnows, Record, Handling
    <2>2. delivery' \in [Messages -> [Endpoints -> {"none", "succeeded", "failed"}]]
        BY Zenon, <2>1, <1>12 DEF Record
    <2>3. target' \in [Workers -> Endpoints \cup {Nothing}]
        BY Zenon, <1>12 DEF Record
    <2>4. /\ pc' \in [Workers -> {"idle", "batch", "reclaim", "list", "handle", "post", "record", "finish"}]
          /\ todo' \in [Workers -> SUBSET Endpoints]
          /\ outcome' \in [Workers -> {"none", "succeeded", "failed"}]
        <3>1. CASE outcome[w] = "succeeded"
            <4>1. /\ pc' = [pc EXCEPT ![w] = "handle"]
                  /\ todo' = [todo EXCEPT ![w] = @ \ {target[w]}]
                  /\ outcome' = [outcome EXCEPT ![w] = "none"]
                BY Zenon, <3>1, <1>12 DEF Record
            <4> QED BY Zenon, <4>1
        <3>2. CASE outcome[w] = "failed"
            <4>1. pc' = [pc EXCEPT ![w] = "finish"] /\ UNCHANGED <<todo, outcome>>
                BY Zenon, <3>2, <1>12 DEF Record
            <4> QED BY Zenon, <4>1
        <3> QED BY Zenon, <2>1, <3>1, <3>2
    <2> QED BY Zenon, <2>2, <2>3, <2>4, <1>12 DEF Record
<1>13. ASSUME NEW w \in Workers, HandlerDone(w) PROVE TypeOK'
    BY Zenon, <1>13 DEF HandlerDone
<1>14. ASSUME NEW w \in Workers, HandlerError(w) PROVE TypeOK'
    BY Zenon, <1>14 DEF HandlerError
<1>15. ASSUME NEW w \in Workers, NEW n \in Endpoints, SkipDelivered(w, n) PROVE TypeOK'
    BY Zenon, <1>15 DEF SkipDelivered
<1>16. ASSUME NEW w \in Workers, NEW n \in Endpoints, StartPost(w, n) PROVE TypeOK'
    BY Zenon, <1>16 DEF StartPost
<1>17. ASSUME NEW w \in Workers, NEW result \in {"succeeded", "failed"}, NEW reached \in BOOLEAN,
              Post(w, result, reached)
       PROVE  TypeOK'
    <2>1. job[w] \in Messages /\ target[w] \in Endpoints
        BY Zenon, <1>17 DEF WorkerKnows, Post, Handling
    <2> QED BY Zenon, <2>1, <1>17 DEF Post
<1>18. ASSUME NEW w \in Workers, Crash(w) PROVE TypeOK'
    BY <1>18 DEF Crash, Proceed, Release
<1>19. ASSUME Tick PROVE TypeOK'
    BY Zenon, <1>19, AgedRow DEF Tick
<1>20. ASSUME UNCHANGED vars PROVE TypeOK'
    BY Zenon, <1>20 DEF vars
<1> HIDE DEF QueueInv, TypeOK, tables, worker, hist
<1> QED BY Zenon, <1>1, <1>2, <1>3, <1>4, <1>5, <1>6, <1>7, <1>8, <1>9, <1>10, <1>11, <1>12, <1>13, <1>14,
           <1>15, <1>16, <1>17, <1>18, <1>19, <1>20 DEF Next, Dispatch, Handle

\* A worker keeps what it may rely on.
LEMMA WorkerStep ==
    ASSUME QueueInv, TypeOK', [Next]_vars
    PROVE  \A v \in Workers : WorkerKnows(v)'
<1> SUFFICES ASSUME NEW v \in Workers PROVE WorkerKnows(v)'
    OBVIOUS
<1>k. /\ WorkerKnows(v)
      /\ DOMAIN pc = Workers /\ job \in [Workers -> Messages \cup {Nothing}]
      /\ current \in [Workers -> SUBSET Messages]
    BY Zenon DEF QueueInv, TypeOK
<1> USE DEF QueueInv, TypeOK, tables, worker, hist, WorkerKnows, Handling
<1>1. ASSUME NEW m \in Messages, CreateOutboxMessage(m) PROVE WorkerKnows(v)'
    BY ZenonT(60), <1>1, NewRows DEF CreateOutboxMessage
<1>2. ASSUME NEW n \in Endpoints, CreateNotificationEndpoint(n) PROVE WorkerKnows(v)'
    BY Zenon, <1>2 DEF CreateNotificationEndpoint
<1>3. ASSUME NEW n \in Endpoints, DisableNotificationEndpoint(n) PROVE WorkerKnows(v)'
    BY Zenon, <1>3 DEF DisableNotificationEndpoint
<1>4. ASSUME NEW S \in SUBSET Messages, ReplayDeadLetters(S) PROVE WorkerKnows(v)'
    BY ZenonT(60), <1>4, NewRows DEF ReplayDeadLetters
<1>5. ASSUME NEW w \in Workers, NEW S \in SUBSET Messages, ListDue(w, S) PROVE WorkerKnows(v)'
    <2>1. \A m \in S : msg[m].status # "none"
        BY Zenon, <1>5 DEF ListDue, Due
    <2>2. UNCHANGED <<msg, job, target, outcome>> /\ current' = [current EXCEPT ![w] = S]
        BY Zenon, <1>5 DEF ListDue
    <2>3. pc' = [pc EXCEPT ![w] = "batch"]
        BY Zenon, <1>5 DEF ListDue, Proceed
    <2> HIDE DEF QueueInv, TypeOK
    <2> QED BY Zenon, <2>1, <2>2, <2>3, <1>k
<1>6. ASSUME NEW w \in Workers, NEW m \in Messages, ClaimLost(w, m) PROVE WorkerKnows(v)'
    BY Zenon, <1>6 DEF ClaimLost, Proceed
<1>7. ASSUME NEW w \in Workers, NEW m \in Messages, Recover(w, m) PROVE WorkerKnows(v)'
    BY <1>7, ClaimRows DEF Recover, Update
<1>8. ASSUME NEW w \in Workers, NEW m \in Messages, Claim(w, m) PROVE WorkerKnows(v)'
    BY <1>8, ClaimRows DEF Claim, Update
<1>9. ASSUME NEW w \in Workers, Finish(w) PROVE WorkerKnows(v)'
    <2>1. PICK r \in Row : Update(job[w], r, {}) /\ job[w] \in Messages /\ r.status # "none"
        BY Zenon, <1>9, FinishedRow
    <2> QED BY <2>1, <1>9 DEF Finish, Proceed, Release, Update
<1>10. ASSUME NEW w \in Workers, FinishLost(w) PROVE WorkerKnows(v)'
    BY <1>10 DEF FinishLost, Proceed, Release
<1>11. ASSUME NEW w \in Workers, ListEndpoints(w) PROVE WorkerKnows(v)'
    BY Zenon, <1>11 DEF ListEndpoints
<1>12. ASSUME NEW w \in Workers, Record(w) PROVE WorkerKnows(v)'
    <2>1. CASE v = w
        BY <2>1, <1>12 DEF Record
    <2>2. CASE v # w
        <3>1. UNCHANGED <<pc[v], job[v], target[v], outcome[v], current[v], msg>>
            BY <2>2, <1>12 DEF Record
        <3> QED BY Zenon, <3>1
    <2> QED BY Zenon, <2>1, <2>2
<1>13. ASSUME NEW w \in Workers, HandlerDone(w) PROVE WorkerKnows(v)'
    BY ZenonT(60), <1>13 DEF HandlerDone
<1>14. ASSUME NEW w \in Workers, HandlerError(w) PROVE WorkerKnows(v)'
    BY ZenonT(60), <1>14 DEF HandlerError
<1>15. ASSUME NEW w \in Workers, NEW n \in Endpoints, SkipDelivered(w, n) PROVE WorkerKnows(v)'
    BY ZenonT(60), <1>15 DEF SkipDelivered
<1>16. ASSUME NEW w \in Workers, NEW n \in Endpoints, StartPost(w, n) PROVE WorkerKnows(v)'
    BY Zenon, <1>16 DEF StartPost
<1>17. ASSUME NEW w \in Workers, NEW result \in {"succeeded", "failed"}, NEW reached \in BOOLEAN,
              Post(w, result, reached)
       PROVE  WorkerKnows(v)'
    BY ZenonT(60), <1>17 DEF Post
<1>18. ASSUME NEW w \in Workers, Crash(w) PROVE WorkerKnows(v)'
    BY <1>18 DEF Crash, Proceed, Release
<1>19. ASSUME Tick PROVE WorkerKnows(v)'
    <2>1. \A m \in Messages : msg'[m].status = msg[m].status
        BY Zenon, <1>19, AgedRow DEF Tick
    <2>2. UNCHANGED <<pc, job, target, outcome, current>>
        BY Zenon, <1>19 DEF Tick
    <2> HIDE DEF QueueInv, TypeOK
    <2> QED BY Zenon, <2>1, <2>2, <1>k
<1>20. ASSUME UNCHANGED vars PROVE WorkerKnows(v)'
    BY Zenon, <1>20 DEF vars
<1> HIDE DEF QueueInv, TypeOK, tables, worker, hist, WorkerKnows, Handling
<1> QED BY Zenon, <1>1, <1>2, <1>3, <1>4, <1>5, <1>6, <1>7, <1>8, <1>9, <1>10, <1>11, <1>12, <1>13, <1>14,
           <1>15, <1>16, <1>17, <1>18, <1>19, <1>20 DEF Next, Dispatch, Handle

\* Which steps change outbox rows, job attempts and replays.
LEMMA RowChanges ==
    ASSUME [Next]_vars
    PROVE  \/ \E m \in Messages : CreateOutboxMessage(m)
           \/ \E S \in SUBSET Messages : ReplayDeadLetters(S)
           \/ \E w \in Workers : \E m \in Messages : Recover(w, m) \/ Claim(w, m)
           \/ \E w \in Workers : Finish(w)
           \/ Tick
           \/ UNCHANGED <<msg, jobs, replays>>
<1> USE DEF tables, worker, hist
<1>1. ASSUME NEW n \in Endpoints, CreateNotificationEndpoint(n) \/ DisableNotificationEndpoint(n)
      PROVE  UNCHANGED <<msg, jobs, replays>>
    BY Zenon, <1>1 DEF CreateNotificationEndpoint, DisableNotificationEndpoint
<1>2. ASSUME NEW w \in Workers, NEW S \in SUBSET Messages, ListDue(w, S)
      PROVE  UNCHANGED <<msg, jobs, replays>>
    BY Zenon, <1>2 DEF ListDue
<1>3. ASSUME NEW w \in Workers, NEW m \in Messages, ClaimLost(w, m)
      PROVE  UNCHANGED <<msg, jobs, replays>>
    BY Zenon, <1>3 DEF ClaimLost
<1>4. ASSUME NEW w \in Workers, FinishLost(w) \/ Crash(w)
      PROVE  UNCHANGED <<msg, jobs, replays>>
    BY Zenon, <1>4 DEF FinishLost, Crash
<1>5. ASSUME NEW w \in Workers, Handle(w)
      PROVE  UNCHANGED <<msg, jobs, replays>>
    BY Zenon, <1>5 DEF Handle, ListEndpoints, Record, HandlerDone, HandlerError, SkipDelivered, StartPost, Post
<1>6. ASSUME UNCHANGED vars PROVE UNCHANGED <<msg, jobs, replays>>
    BY Zenon, <1>6 DEF vars
<1> HIDE DEF tables, worker, hist
<1> QED BY Zenon, <1>1, <1>2, <1>3, <1>4, <1>5, <1>6 DEF Next, Dispatch

\* The account of a message depends on its row, job attempts and replays.
Accounted(m) ==
    /\ jobs[m].failed = replays[m] * MaxAttempts + msg[m].attempts
    /\ jobs[m].succeeded = IF msg[m].status = "completed" THEN 1 ELSE 0
    /\ msg[m].status = "dead_letter" <=> msg[m].attempts = MaxAttempts
    /\ msg[m].status = "none" => msg[m].attempts = 0

\* A replay starts a new round of attempts.
LEMMA NewRound ==
    ASSUME NEW k \in Nat
    PROVE  k * MaxAttempts + MaxAttempts = (k + 1) * MaxAttempts + 0
BY AttemptsAssumption

\* Every step keeps the account of attempts.
LEMMA AccountStep ==
    ASSUME QueueInv, TypeOK', [Next]_vars
    PROVE  \A m \in Messages : Accounted(m)'
<1> SUFFICES ASSUME NEW m \in Messages PROVE Accounted(m)'
    OBVIOUS
<1>0. Accounted(m)
    BY Zenon DEF Accounted, QueueInv, AttemptsAccounted
<1>t. /\ msg \in [Messages -> Row] /\ jobs \in [Messages -> [succeeded : Nat, failed : Nat]]
      /\ replays \in [Messages -> Nat] /\ msg[m] \in Row
    BY Zenon DEF QueueInv, TypeOK
<1>1. ASSUME UNCHANGED <<msg[m].status, msg[m].attempts, jobs[m], replays[m]>> PROVE Accounted(m)'
    BY Zenon, <1>0, <1>1 DEF Accounted
<1>2. ASSUME NEW k \in Messages, CreateOutboxMessage(k) PROVE Accounted(m)'
    <2>1. msg' = [msg EXCEPT ![k] = NewMessage] /\ UNCHANGED <<jobs, replays>> /\ msg[k].status = "none"
        BY Zenon, <1>2 DEF CreateOutboxMessage
    <2>2. CASE m = k
        BY Zenon, <2>1, <2>2, <1>0, <1>t, NewRows, AttemptsAssumption DEF Accounted
    <2> QED BY Zenon, <2>1, <2>2, <1>1, <1>t
<1>3. ASSUME NEW S \in SUBSET Messages, ReplayDeadLetters(S) PROVE Accounted(m)'
    <2>1. CASE m \in S
        <3>1. /\ msg'[m] = NewMessage /\ replays'[m] = replays[m] + 1 /\ jobs'[m] = jobs[m]
              /\ msg[m].status = "dead_letter"
            BY Zenon, <2>1, <1>3 DEF ReplayDeadLetters
        <3>2. msg[m].attempts = MaxAttempts /\ jobs[m].failed = (replays[m] + 1) * MaxAttempts + 0
            BY Zenon, <3>1, <1>0, <1>t, NewRound DEF Accounted
        <3> QED BY Zenon, <3>1, <3>2, <1>0, NewRows, AttemptsAssumption DEF Accounted
    <2>2. CASE m \notin S
        BY Zenon, <2>2, <1>1, <1>3 DEF ReplayDeadLetters
    <2> QED BY Zenon, <2>1, <2>2
<1>4. ASSUME NEW w \in Workers, NEW k \in Messages, Recover(w, k) PROVE Accounted(m)'
    <2>1. msg' = [msg EXCEPT ![k] = Recovered(msg[k])] /\ UNCHANGED <<jobs, replays>> /\ msg[k].status = "processing"
        BY Zenon, <1>4 DEF Recover, Update
    <2>2. CASE m = k
        BY Zenon, <2>1, <2>2, <1>0, <1>t, ClaimRows DEF Accounted
    <2> QED BY Zenon, <2>1, <2>2, <1>1, <1>t
<1>5. ASSUME NEW w \in Workers, NEW k \in Messages, Claim(w, k) PROVE Accounted(m)'
    <2>1. msg' = [msg EXCEPT ![k] = Claimed(msg[k])] /\ UNCHANGED <<jobs, replays>> /\ msg[k].status = "pending"
        BY Zenon, <1>5 DEF Claim, Update
    <2>2. CASE m = k
        BY Zenon, <2>1, <2>2, <1>0, <1>t, ClaimRows DEF Accounted
    <2> QED BY Zenon, <2>1, <2>2, <1>1, <1>t
<1>6. ASSUME NEW w \in Workers, Finish(w) PROVE Accounted(m)'
    <2> DEFINE k == job[w]
    <2>1. PICK r \in Row :
              /\ k \in Messages
              /\ outcome[w] \in {"succeeded", "failed"}
              /\ Update(k, r, {})
              /\ msg[k].status = "processing"
              /\ msg[k].attempts < MaxAttempts
              /\ outcome[w] = "succeeded" => r.status = "completed" /\ r.attempts = msg[k].attempts
              /\ outcome[w] = "failed" =>
                    /\ r.attempts = msg[k].attempts + 1
                    /\ r.status = IF r.attempts = MaxAttempts THEN "dead_letter" ELSE "pending"
        BY Zenon, <1>6, FinishedRow
    <2>2. /\ msg' = [msg EXCEPT ![k] = r] /\ UNCHANGED replays
          /\ jobs' = [jobs EXCEPT ![k][outcome[w]] = @ + 1]
        BY Zenon, <2>1, <1>6 DEF Finish, Update
    <2> HIDE DEF k
    <2>3. CASE m # k
        BY Zenon, <2>1, <2>2, <2>3, <1>1, <1>t
    <2>4. CASE m = k /\ outcome[w] = "succeeded"
        <3>1. msg'[m] = r /\ jobs'[m].succeeded = jobs[m].succeeded + 1 /\ jobs'[m].failed = jobs[m].failed
            BY Zenon, <2>1, <2>2, <2>4, <1>t
        <3> QED BY <3>1, <2>1, <2>2, <2>4, <1>0, <1>t, AttemptsAssumption DEF Accounted, Row
    <2>5. CASE m = k /\ outcome[w] = "failed"
        <3>1. msg'[m] = r /\ jobs'[m].succeeded = jobs[m].succeeded /\ jobs'[m].failed = jobs[m].failed + 1
            BY Zenon, <2>1, <2>2, <2>5, <1>t
        <3>2. replays[m] * MaxAttempts \in Nat
            BY <1>t, AttemptsAssumption
        <3> QED BY <3>1, <3>2, <2>1, <2>2, <2>5, <1>0, <1>t, AttemptsAssumption DEF Accounted, Row
    <2> QED BY Zenon, <2>1, <2>3, <2>4, <2>5
<1>7. ASSUME Tick PROVE Accounted(m)'
    <2>1. msg'[m] = Aged(msg[m]) /\ UNCHANGED <<jobs, replays>>
        BY Zenon, <1>7 DEF Tick
    <2> QED BY Zenon, <2>1, <1>1, <1>t, AgedRow
<1> QED BY Zenon, <1>1, <1>2, <1>3, <1>4, <1>5, <1>6, <1>7, RowChanges

-----------------------------------------------------------------------------
(* Claims.                                                                   *)

\* w can still finish the message it handles.
Holds(w) == Handling(w) /\ job[w] \in current[w]

\* A step after which nobody holds a message that nobody held, and no held
\* message has changed its status, keeps claims exclusive.
LEMMA NoNewHolder ==
    ASSUME ClaimExclusive,
           \A w \in Workers : Holds(w)' =>
               Holds(w) /\ job'[w] = job[w] /\ msg'[job[w]].status = msg[job[w]].status
    PROVE  ClaimExclusive'
BY Zenon DEF ClaimExclusive, Holds

\* No step gives a claim a second holder.
LEMMA ClaimStep ==
    ASSUME QueueInv, TypeOK', [Next]_vars
    PROVE  ClaimExclusive'
<1> USE DEF QueueInv, TypeOK, tables, worker, hist, Holds, Handling
<1>1. ASSUME NEW m \in Messages, CreateOutboxMessage(m) PROVE ClaimExclusive'
    BY Zenon, <1>1, NoNewHolder DEF CreateOutboxMessage, ClaimExclusive
<1>2. ASSUME NEW n \in Endpoints, CreateNotificationEndpoint(n) \/ DisableNotificationEndpoint(n)
      PROVE  ClaimExclusive'
    BY Zenon, <1>2, NoNewHolder DEF CreateNotificationEndpoint, DisableNotificationEndpoint
<1>3. ASSUME NEW S \in SUBSET Messages, ReplayDeadLetters(S) PROVE ClaimExclusive'
    BY Zenon, <1>3, NoNewHolder DEF ReplayDeadLetters, WorkerKnows
<1>4. ASSUME NEW w \in Workers, NEW S \in SUBSET Messages, ListDue(w, S) PROVE ClaimExclusive'
    BY Zenon, <1>4, NoNewHolder DEF ListDue, Proceed
<1>5. ASSUME NEW w \in Workers, NEW m \in Messages, ClaimLost(w, m) PROVE ClaimExclusive'
    BY Zenon, <1>5, NoNewHolder DEF ClaimLost, Proceed
<1>6. ASSUME NEW w \in Workers, NEW m \in Messages, Recover(w, m) PROVE ClaimExclusive'
    <2>1. /\ pc' = [pc EXCEPT ![w] = "reclaim"] /\ job' = [job EXCEPT ![w] = m]
          /\ msg' = [msg EXCEPT ![m] = Recovered(msg[m])]
          /\ current' = [v \in Workers |-> IF v \in {w} THEN current[v] ELSE current[v] \ {m}]
        BY Zenon, <1>6 DEF Recover, Update
    <2> QED BY Zenon, <2>1, NoNewHolder
<1>7. ASSUME NEW w \in Workers, NEW m \in Messages, Claim(w, m) PROVE ClaimExclusive'
    <2>1. /\ pc' = [pc EXCEPT ![w] = "list"] /\ job' = [job EXCEPT ![w] = m]
          /\ msg' = [msg EXCEPT ![m] = Claimed(msg[m])]
          /\ current' = [v \in Workers |-> IF v \in {w} THEN current[v] ELSE current[v] \ {m}]
        BY Zenon, <1>7 DEF Claim, Update
    <2>2. msg'[m].status = "processing"
        BY ZenonT(60), <2>1, ClaimRows
    <2> QED BY <2>1, <2>2 DEF ClaimExclusive
<1>8. ASSUME NEW w \in Workers, Finish(w) PROVE ClaimExclusive'
    <2>1. PICK r \in Row : Update(job[w], r, {}) /\ job[w] \in Messages
        BY Zenon, <1>8, FinishedRow
    <2>2. /\ msg' = [msg EXCEPT ![job[w]] = r]
          /\ current' = [v \in Workers |-> current[v] \ {job[w]}]
        BY Zenon, <2>1 DEF Update
    <2>3. pc' = [pc EXCEPT ![w] = IF batch[w] = {} THEN "idle" ELSE "batch"] /\ job' = [job EXCEPT ![w] = Nothing]
        BY Zenon, <1>8 DEF Finish, Proceed, Release
    <2> QED BY Zenon, <2>1, <2>2, <2>3, NoNewHolder
<1>9. ASSUME NEW w \in Workers, FinishLost(w) \/ Crash(w) PROVE ClaimExclusive'
    BY <1>9, NoNewHolder DEF FinishLost, Crash, Proceed, Release
<1>10. ASSUME NEW w \in Workers, Handle(w) PROVE ClaimExclusive'
    <2>1. UNCHANGED <<msg, job, current>>
        BY Zenon, <1>10 DEF Handle, ListEndpoints, Record, HandlerDone, HandlerError, SkipDelivered, StartPost, Post
    <2>2. \A v \in Workers : Handling(v)' => Handling(v)
        <3>1. Handling(w)
            BY Zenon, <1>10 DEF Handle, ListEndpoints, Record, HandlerDone, HandlerError, SkipDelivered, StartPost, Post
        <3>2. \A v \in Workers \ {w} : pc'[v] = pc[v]
            <4>1. CASE ListEndpoints(w) \/ HandlerDone(w) \/ HandlerError(w)
                BY ZenonT(60), <4>1 DEF ListEndpoints, HandlerDone, HandlerError
            <4>2. CASE Record(w)
                BY <4>2 DEF Record
            <4>3. CASE \E n \in Endpoints : SkipDelivered(w, n) \/ StartPost(w, n)
                BY ZenonT(60), <4>3 DEF SkipDelivered, StartPost
            <4>4. CASE \E result \in {"succeeded", "failed"}, reached \in BOOLEAN : Post(w, result, reached)
                BY ZenonT(60), <4>4 DEF Post
            <4> QED BY Zenon, <1>10, <4>1, <4>2, <4>3, <4>4 DEF Handle
        <3> QED BY Zenon, <3>1, <3>2
    <2> QED BY Zenon, <2>1, <2>2, NoNewHolder
<1>11. ASSUME Tick PROVE ClaimExclusive'
    <2>1. \A m \in Messages : msg'[m].status = msg[m].status
        BY Zenon, <1>11, AgedRow DEF Tick
    <2>2. UNCHANGED <<pc, job, current>>
        BY Zenon, <1>11 DEF Tick
    <2> QED BY Zenon, <2>1, <2>2, NoNewHolder
<1>12. ASSUME UNCHANGED vars PROVE ClaimExclusive'
    BY Zenon, <1>12, NoNewHolder DEF vars
<1> HIDE DEF QueueInv, TypeOK, tables, worker, hist, Holds, Handling
<1> QED BY Zenon, <1>1, <1>2, <1>3, <1>4, <1>5, <1>6, <1>7, <1>8, <1>9, <1>10, <1>11, <1>12 DEF Next, Dispatch

\* The queue's invariant holds at the start.
LEMMA QueueInit == Init => QueueInv
<1> SUFFICES ASSUME Init PROVE QueueInv
    OBVIOUS
<1>1. TypeOK
    BY Zenon, NewRows DEF Init, TypeOK
<1>2. ClaimExclusive /\ \A w \in Workers : WorkerKnows(w)
    BY Zenon DEF Init, ClaimExclusive, WorkerKnows, Handling
<1>3. AttemptsAccounted /\ \A m \in Messages : msg[m].status = "none" => msg[m].attempts = 0
    BY NewRows, AttemptsAssumption DEF Init, AttemptsAccounted
<1> QED BY Zenon, <1>1, <1>2, <1>3 DEF QueueInv

\* Every step keeps the queue's invariant.
LEMMA QueueStep == QueueInv /\ [Next]_vars => QueueInv'
<1> SUFFICES ASSUME QueueInv, [Next]_vars PROVE QueueInv'
    OBVIOUS
<1>1. TypeOK'
    BY Zenon, TypeStep
<1>2. ClaimExclusive' /\ \A w \in Workers : WorkerKnows(w)'
    BY Zenon, <1>1, ClaimStep, WorkerStep
<1>3. \A m \in Messages : Accounted(m)'
    BY Zenon, <1>1, AccountStep
<1> QED BY Zenon, <1>1, <1>2, <1>3 DEF QueueInv, Accounted, AttemptsAccounted

\* Types, exclusive claims, the account of attempts and what a worker knows of its
\* message hold in every state, however claims, expiring leases and late finishes
\* of several dispatchers overlap.
THEOREM QueueInvariant == Spec => []QueueInv
BY QueueInit, QueueStep, PTL DEF Spec

\* At most one of the workers that handle a message can still finish it, and
\* the row it will finish is its own claim.
THEOREM ClaimsExclude == Spec => []ClaimExclusive
<1>1. QueueInv => ClaimExclusive
    BY Zenon DEF QueueInv
<1> QED BY <1>1, QueueInvariant, PTL

\* The job attempts account for every message.
THEOREM AttemptsAreCounted == Spec => []AttemptsAccounted
<1>1. QueueInv => AttemptsAccounted
    BY Zenon DEF QueueInv
<1> QED BY <1>1, QueueInvariant, PTL

\* Every variable has its type.
THEOREM OutboxTypeCorrect == Spec => []TypeOK
<1>1. QueueInv => TypeOK
    BY Zenon DEF QueueInv
<1> QED BY <1>1, QueueInvariant, PTL

-----------------------------------------------------------------------------
(* Delivery is at least once.                                                *)

\* Endpoint n, if it is still active, has got message m.
Reached(m, n) == endpoint[n] = "active" => n \in received[m]

\* A handler at work has its addressed endpoints on the list or has reached
\* them; one that succeeded has reached them all.
HandlerKnows(w) ==
    /\ pc[w] \in {"handle", "post", "record"} =>
          \A n \in addressed[job[w]] : n \in todo[w] \/ Reached(job[w], n)
    /\ pc[w] = "finish" /\ outcome[w] = "succeeded" =>
          \A n \in addressed[job[w]] : Reached(job[w], n)
    /\ pc[w] = "record" /\ outcome[w] = "succeeded" => target[w] \in received[job[w]]

\* An endpoint is addressed only after it was created, so it is never activated
\* again; a delivery recorded as succeeded was received.
DeliveryInv ==
    /\ \A m \in Messages, n \in Endpoints : delivery[m][n] = "succeeded" => n \in received[m]
    /\ \A m \in Messages : \A n \in addressed[m] : n \in Subscribers[m] /\ endpoint[n] # "none"
    /\ \A w \in Workers : HandlerKnows(w)
    /\ CompletedWasReceived

\* Nothing is lost by a step that adds to what is received, activates no
\* addressed endpoint, and leaves the addressed endpoints of written messages.
LEMMA ReachedStays ==
    ASSUME QueueInv, DeliveryInv, [Next]_vars
    PROVE  /\ \A m \in Messages : received[m] \subseteq received'[m]
           /\ \A m \in Messages : msg[m].status # "none" => addressed'[m] = addressed[m]
           /\ \A m \in Messages : \A n \in addressed[m] :
                 /\ endpoint'[n] = "active" => endpoint[n] = "active"
                 /\ endpoint'[n] # "none"
<1> USE DEF QueueInv, TypeOK, tables, worker, hist
<1>1. \A m \in Messages : addressed[m] \subseteq Endpoints
    OBVIOUS
<1>2. ASSUME NEW m \in Messages, CreateOutboxMessage(m)
      PROVE  /\ UNCHANGED <<received, endpoint>>
             /\ \A k \in Messages : msg[k].status # "none" => addressed'[k] = addressed[k]
    BY Zenon, <1>2 DEF CreateOutboxMessage
<1>3. ASSUME NEW w \in Workers, NEW result \in {"succeeded", "failed"}, NEW reached \in BOOLEAN,
             Post(w, result, reached)
      PROVE  UNCHANGED <<endpoint, addressed>> /\ \A m \in Messages : received[m] \subseteq received'[m]
    BY Zenon, <1>3 DEF Post
<1>4. ASSUME NEW n \in Endpoints, CreateNotificationEndpoint(n) \/ DisableNotificationEndpoint(n)
      PROVE  /\ UNCHANGED <<received, addressed>>
             /\ endpoint[n] # "none" => endpoint'[n] = "disabled"
             /\ \A k \in Endpoints \ {n} : endpoint'[k] = endpoint[k]
    BY Zenon, <1>4 DEF CreateNotificationEndpoint, DisableNotificationEndpoint
<1>5. \/ \E m \in Messages : CreateOutboxMessage(m)
      \/ \E n \in Endpoints : CreateNotificationEndpoint(n) \/ DisableNotificationEndpoint(n)
      \/ \E w \in Workers, result \in {"succeeded", "failed"}, reached \in BOOLEAN : Post(w, result, reached)
      \/ UNCHANGED <<endpoint, received, addressed>>
    <2> DEFINE same == UNCHANGED <<endpoint, received, addressed>>
    <2>1. ASSUME NEW S \in SUBSET Messages, ReplayDeadLetters(S) PROVE same
        BY Zenon, <2>1 DEF ReplayDeadLetters
    <2>2. ASSUME NEW w \in Workers, NEW S \in SUBSET Messages, ListDue(w, S) PROVE same
        BY Zenon, <2>2 DEF ListDue
    <2>3. ASSUME NEW w \in Workers, Dispatch(w) PROVE same
        BY Zenon, <2>3 DEF Dispatch, ClaimLost, Recover, Claim, Finish, FinishLost
    <2>4. ASSUME NEW w \in Workers, Handle(w),
                 ~\E result \in {"succeeded", "failed"}, reached \in BOOLEAN : Post(w, result, reached)
          PROVE  same
        BY Zenon, <2>4 DEF Handle, ListEndpoints, Record, HandlerDone, HandlerError, SkipDelivered, StartPost
    <2>5. ASSUME NEW w \in Workers, Crash(w) PROVE same
        BY Zenon, <2>5 DEF Crash
    <2>6. ASSUME Tick \/ UNCHANGED vars PROVE same
        BY Zenon, <2>6 DEF Tick, vars
    <2> QED BY Zenon, <2>1, <2>2, <2>3, <2>4, <2>5, <2>6 DEF Next
<1> HIDE DEF QueueInv, TypeOK, tables, worker, hist
<1> QED BY Zenon, <1>1, <1>2, <1>3, <1>4, <1>5 DEF DeliveryInv

\* What was reached stays reached, as long as the message is the same.
LEMMA ReachedKept ==
    ASSUME QueueInv, DeliveryInv, [Next]_vars,
           NEW m \in Messages, msg[m].status # "none",
           NEW n \in addressed'[m]
    PROVE  n \in addressed[m] /\ (Reached(m, n) => Reached(m, n)')
BY Zenon, ReachedStays DEF Reached

\* A worker that does not move keeps what its handler knows.
LEMMA HandlerStays ==
    ASSUME QueueInv, DeliveryInv, [Next]_vars, NEW v \in Workers,
           UNCHANGED <<pc[v], job[v], todo[v], target[v], outcome[v]>>
    PROVE  HandlerKnows(v)'
<1>1. HandlerKnows(v) /\ WorkerKnows(v)
    BY Zenon DEF DeliveryInv, QueueInv
<1>2. CASE Handling(v)
    <2>1. job[v] \in Messages /\ msg[job[v]].status # "none"
        BY Zenon, <1>1, <1>2 DEF WorkerKnows
    <2>2. received[job[v]] \subseteq received'[job[v]]
        BY Zenon, <2>1, ReachedStays
    <2>3. \A n \in addressed'[job[v]] : n \in addressed[job[v]] /\ (Reached(job[v], n) => Reached(job[v], n)')
        BY Zenon, <2>1, ReachedKept
    <2> QED BY Zenon, <1>1, <2>2, <2>3 DEF HandlerKnows, Reached
<1>3. CASE ~Handling(v)
    BY Zenon, <1>3 DEF HandlerKnows, Handling
<1> QED BY Zenon, <1>2, <1>3

\* The worker that moves.
LEMMA HandlerMoves ==
    ASSUME QueueInv, DeliveryInv, [Next]_vars, NEW w \in Workers, Handle(w)
    PROVE  HandlerKnows(w)'
<1> USE DEF QueueInv, TypeOK, tables, worker, hist
<1>0. /\ job[w] \in Messages /\ msg[job[w]].status # "none" /\ job'[w] = job[w]
      /\ HandlerKnows(w) /\ WorkerKnows(w)
    BY Zenon DEF Handle, ListEndpoints, Record, HandlerDone, HandlerError, SkipDelivered, StartPost, Post,
           Handling, WorkerKnows, DeliveryInv
<1> DEFINE m == job[w]
<1>r. \A n \in addressed'[m] : n \in addressed[m] /\ (Reached(m, n) => Reached(m, n)')
    BY Zenon, <1>0, ReachedKept
<1>s. addressed[m] \subseteq Subscribers[m] /\ addressed[m] \subseteq Endpoints
    BY Zenon, <1>0 DEF DeliveryInv
<1>1. CASE ListEndpoints(w)
    <2>1. /\ todo'[w] = {n \in Subscribers[m] : endpoint[n] = "active"}
          /\ pc'[w] = "handle" /\ UNCHANGED endpoint
        BY Zenon, <1>1 DEF ListEndpoints
    <2> QED BY Zenon, <2>1, <1>0, <1>r, <1>s DEF HandlerKnows, Reached
<1>2. CASE Record(w)
    <2>1. CASE outcome[w] = "succeeded"
        <3>1. pc'[w] = "handle" /\ todo'[w] = todo[w] \ {target[w]} /\ pc[w] = "record" /\ UNCHANGED received
            BY Zenon, <1>2, <2>1 DEF Record
        <3> QED BY Zenon, <3>1, <2>1, <1>0, <1>r DEF HandlerKnows, Reached
    <2>2. CASE outcome[w] # "succeeded"
        <3>1. pc'[w] = "finish" /\ outcome'[w] = outcome[w]
            BY Zenon, <1>2, <2>2 DEF Record
        <3> QED BY Zenon, <3>1, <2>2 DEF HandlerKnows
    <2> QED BY Zenon, <2>1, <2>2
<1>3. CASE HandlerDone(w)
    <2>1. pc'[w] = "finish" /\ pc[w] = "handle" /\ todo[w] = {}
        BY Zenon, <1>3 DEF HandlerDone
    <2> QED BY Zenon, <2>1, <1>0, <1>r DEF HandlerKnows
<1>4. CASE HandlerError(w)
    <2>1. pc'[w] = "finish" /\ outcome'[w] = "failed"
        BY Zenon, <1>4 DEF HandlerError
    <2> QED BY Zenon, <2>1 DEF HandlerKnows
<1>5. ASSUME NEW n \in Endpoints, SkipDelivered(w, n) PROVE HandlerKnows(w)'
    <2>1. /\ pc[w] = "handle" /\ pc'[w] = "handle" /\ todo'[w] = todo[w] \ {n}
          /\ delivery[m][n] = "succeeded" /\ UNCHANGED received
        BY Zenon, <1>5 DEF SkipDelivered
    <2>2. n \in received[m]
        BY Zenon, <2>1, <1>0 DEF DeliveryInv
    <2> QED BY Zenon, <2>1, <2>2, <1>0, <1>r DEF HandlerKnows, Reached
<1>6. ASSUME NEW n \in Endpoints, StartPost(w, n) PROVE HandlerKnows(w)'
    <2>1. pc[w] = "handle" /\ pc'[w] = "post" /\ todo'[w] = todo[w]
        BY Zenon, <1>6 DEF StartPost
    <2> QED BY Zenon, <2>1, <1>0, <1>r DEF HandlerKnows
<1>7. ASSUME NEW result \in {"succeeded", "failed"}, NEW reached \in BOOLEAN, Post(w, result, reached)
      PROVE  HandlerKnows(w)'
    <2>1. /\ pc[w] = "post" /\ pc'[w] = "record" /\ todo'[w] = todo[w]
          /\ outcome'[w] = result /\ target'[w] = target[w]
          /\ result = "succeeded" => target[w] \in received'[m]
        BY Zenon, <1>7, <1>0 DEF Post
    <2> QED BY Zenon, <2>1, <1>0, <1>r DEF HandlerKnows
<1> HIDE DEF QueueInv, TypeOK, tables, worker, hist
<1> QED BY Zenon, <1>1, <1>2, <1>3, <1>4, <1>5, <1>6, <1>7 DEF Handle

\* Every step keeps what a handler knows of the deliveries it has made.
LEMMA HandlerStep ==
    ASSUME QueueInv, DeliveryInv, [Next]_vars
    PROVE  \A v \in Workers : HandlerKnows(v)'
<1> SUFFICES ASSUME NEW v \in Workers PROVE HandlerKnows(v)'
    OBVIOUS
<1> DEFINE still == UNCHANGED <<pc[v], job[v], todo[v], target[v], outcome[v]>>
           away == pc'[v] \in {"idle", "batch", "reclaim", "list"}
<1> USE DEF QueueInv, TypeOK, tables, worker, hist
<1>1. ASSUME NEW m \in Messages, CreateOutboxMessage(m) PROVE still
    BY Zenon, <1>1 DEF CreateOutboxMessage
<1>2. ASSUME NEW n \in Endpoints, CreateNotificationEndpoint(n) \/ DisableNotificationEndpoint(n) PROVE still
    BY Zenon, <1>2 DEF CreateNotificationEndpoint, DisableNotificationEndpoint
<1>3. ASSUME NEW S \in SUBSET Messages, ReplayDeadLetters(S) PROVE still
    BY Zenon, <1>3 DEF ReplayDeadLetters
<1>4. ASSUME NEW w \in Workers, NEW S \in SUBSET Messages, ListDue(w, S) PROVE still \/ away
    BY Zenon, <1>4 DEF ListDue, Proceed
<1>5. ASSUME NEW w \in Workers, NEW m \in Messages, ClaimLost(w, m) \/ Recover(w, m) \/ Claim(w, m)
      PROVE  still \/ away
    BY Zenon, <1>5 DEF ClaimLost, Recover, Claim, Proceed
<1>6. ASSUME NEW w \in Workers, Finish(w) \/ FinishLost(w) \/ Crash(w) PROVE still \/ away
    BY ZenonT(60), <1>6 DEF Finish, FinishLost, Crash, Proceed, Release
<1>7. ASSUME NEW w \in Workers, Handle(w) PROVE still \/ v = w
    BY ZenonT(60), <1>7 DEF Handle, ListEndpoints, Record, HandlerDone, HandlerError, SkipDelivered, StartPost, Post
<1>8. ASSUME Tick \/ UNCHANGED vars PROVE still
    BY Zenon, <1>8 DEF Tick, vars
<1>9. still \/ away \/ Handle(v)
    BY Zenon, <1>1, <1>2, <1>3, <1>4, <1>5, <1>6, <1>7, <1>8 DEF Next, Dispatch
<1>10. CASE still
    BY Zenon, <1>10, HandlerStays
<1>11. CASE away
    BY Zenon, <1>11 DEF HandlerKnows
<1>12. CASE Handle(v)
    BY Zenon, <1>12, HandlerMoves
<1> HIDE DEF QueueInv, TypeOK, tables, worker, hist
<1> QED BY Zenon, <1>9, <1>10, <1>11, <1>12

\* A step completes only the message of a handler that succeeded.
LEMMA CompletedStep ==
    ASSUME QueueInv, DeliveryInv, [Next]_vars, NEW m \in Messages, msg'[m].status = "completed"
    PROVE  /\ msg[m].status # "none"
           /\ \/ msg[m].status = "completed"
              \/ \E w \in Workers : /\ pc[w] = "finish" /\ outcome[w] = "succeeded"
                                    /\ job[w] = m
<1>t. msg \in [Messages -> Row] /\ msg[m] \in Row
    BY Zenon DEF QueueInv, TypeOK
<1>1. ASSUME NEW k \in Messages, CreateOutboxMessage(k) PROVE msg[m].status = "completed"
    BY Zenon, <1>1, <1>t, NewRows DEF CreateOutboxMessage
<1>2. ASSUME NEW S \in SUBSET Messages, ReplayDeadLetters(S) PROVE msg[m].status = "completed"
    BY Zenon, <1>2, <1>t, NewRows DEF ReplayDeadLetters
<1>3. ASSUME NEW w \in Workers, NEW k \in Messages, Recover(w, k) \/ Claim(w, k)
      PROVE  msg[m].status = "completed"
    <2>1. msg' = [msg EXCEPT ![k] = Recovered(msg[k])] \/ msg' = [msg EXCEPT ![k] = Claimed(msg[k])]
        BY Zenon, <1>3 DEF Recover, Claim, Update
    <2>2. Recovered(msg[k]).status # "completed" /\ Claimed(msg[k]).status # "completed"
        BY Zenon, <1>t, ClaimRows
    <2> QED BY Zenon, <2>1, <2>2, <1>t
<1>4. ASSUME NEW w \in Workers, Finish(w)
      PROVE  msg[m].status = "completed" \/ (msg[m].status # "none" /\ pc[w] = "finish"
                                               /\ outcome[w] = "succeeded" /\ job[w] = m)
    <2>1. PICK r \in Row : /\ Update(job[w], r, {})
                           /\ msg[job[w]].status = "processing"
                           /\ outcome[w] \in {"succeeded", "failed"}
                           /\ outcome[w] = "failed" =>
                                 r.status = IF r.attempts = MaxAttempts THEN "dead_letter" ELSE "pending"
        BY Zenon, <1>4, FinishedRow
    <2>2. msg' = [msg EXCEPT ![job[w]] = r] /\ pc[w] = "finish"
        BY Zenon, <2>1, <1>4 DEF Update, Finish
    <2> QED BY Zenon, <2>1, <2>2, <1>t
<1>5. ASSUME Tick PROVE msg[m].status = "completed"
    BY Zenon, <1>5, <1>t, AgedRow DEF Tick
<1>6. ASSUME UNCHANGED <<msg, jobs, replays>> PROVE msg[m].status = "completed"
    BY Zenon, <1>6
<1> QED BY Zenon, <1>1, <1>2, <1>3, <1>4, <1>5, <1>6, RowChanges

\* Which steps change the addressed endpoints and the delivery rows.
LEMMA DeliveryChanges ==
    ASSUME [Next]_vars
    PROVE  /\ (\E m \in Messages : CreateOutboxMessage(m)) \/ UNCHANGED addressed
           /\ (\E w \in Workers : Record(w)) \/ UNCHANGED delivery
<1> DEFINE same == UNCHANGED <<addressed, delivery>>
<1> USE DEF tables, worker, hist
<1>1. ASSUME NEW m \in Messages, CreateOutboxMessage(m) PROVE UNCHANGED delivery
    BY Zenon, <1>1 DEF CreateOutboxMessage
<1>2. ASSUME NEW n \in Endpoints, CreateNotificationEndpoint(n) \/ DisableNotificationEndpoint(n) PROVE same
    BY Zenon, <1>2 DEF CreateNotificationEndpoint, DisableNotificationEndpoint
<1>3. ASSUME NEW S \in SUBSET Messages, ReplayDeadLetters(S) PROVE same
    BY Zenon, <1>3 DEF ReplayDeadLetters
<1>4. ASSUME NEW w \in Workers, NEW S \in SUBSET Messages, ListDue(w, S) PROVE same
    BY Zenon, <1>4 DEF ListDue
<1>5. ASSUME NEW w \in Workers, Dispatch(w) PROVE same
    BY Zenon, <1>5 DEF Dispatch, ClaimLost, Recover, Claim, Finish, FinishLost
<1>6. ASSUME NEW w \in Workers, Record(w) PROVE UNCHANGED addressed
    BY Zenon, <1>6 DEF Record
<1>7. ASSUME NEW w \in Workers, Handle(w), ~Record(w) PROVE same
    BY Zenon, <1>7 DEF Handle, ListEndpoints, HandlerDone, HandlerError, SkipDelivered, StartPost, Post
<1>8. ASSUME NEW w \in Workers, Crash(w) PROVE same
    BY Zenon, <1>8 DEF Crash
<1>9. ASSUME Tick \/ UNCHANGED vars PROVE same
    BY Zenon, <1>9 DEF Tick, vars
<1> HIDE DEF tables, worker, hist
<1> QED BY Zenon, <1>1, <1>2, <1>3, <1>4, <1>5, <1>6, <1>7, <1>8, <1>9 DEF Next

\* Every step keeps the delivery invariant.
LEMMA DeliveryStep == QueueInv /\ DeliveryInv /\ [Next]_vars => DeliveryInv'
<1> SUFFICES ASSUME QueueInv, DeliveryInv, [Next]_vars PROVE DeliveryInv'
    OBVIOUS
<1>1. \A w \in Workers : HandlerKnows(w)'
    BY Zenon, HandlerStep
<1>2. CompletedWasReceived'
    <2> SUFFICES ASSUME NEW m \in Messages, msg'[m].status = "completed", NEW n \in addressed'[m]
                 PROVE  Reached(m, n)'
        BY Zenon DEF CompletedWasReceived, Reached
    <2>1. msg[m].status # "none"
        BY Zenon, CompletedStep
    <2>2. n \in addressed[m] /\ (Reached(m, n) => Reached(m, n)')
        BY Zenon, <2>1, ReachedKept
    <2>3. Reached(m, n)
        BY ZenonT(60), <2>2, CompletedStep DEF DeliveryInv, CompletedWasReceived, HandlerKnows, Reached
    <2> QED BY Zenon, <2>2, <2>3
<1>3. \A m \in Messages : \A n \in addressed'[m] : n \in Subscribers[m] /\ endpoint'[n] # "none"
    <2> SUFFICES ASSUME NEW m \in Messages, NEW n \in addressed'[m]
                 PROVE  n \in Subscribers[m] /\ endpoint'[n] # "none"
        OBVIOUS
    <2>1. CASE n \in addressed[m]
        BY Zenon, <2>1, ReachedStays DEF DeliveryInv
    <2>2. CASE n \notin addressed[m]
        <3>1. \A k \in Messages : CreateOutboxMessage(k) =>
                 /\ addressed' = [addressed EXCEPT ![k] = {e \in Subscribers[k] : endpoint[e] = "active"}]
                 /\ UNCHANGED endpoint
            BY Zenon DEF CreateOutboxMessage
        <3>2. (\E k \in Messages : CreateOutboxMessage(k)) \/ UNCHANGED addressed
            BY Zenon, DeliveryChanges
        <3>3. addressed \in [Messages -> SUBSET Endpoints]
            BY Zenon DEF QueueInv, TypeOK
        <3> QED BY Zenon, <3>1, <3>2, <3>3, <2>2
    <2> QED BY Zenon, <2>1, <2>2
<1>4. \A m \in Messages, n \in Endpoints : delivery'[m][n] = "succeeded" => n \in received'[m]
    <2> SUFFICES ASSUME NEW m \in Messages, NEW n \in Endpoints, delivery'[m][n] = "succeeded"
                 PROVE  n \in received'[m]
        OBVIOUS
    <2>1. ASSUME NEW w \in Workers, Record(w) PROVE n \in received[m]
        <3>1. job[w] \in Messages /\ target[w] \in Endpoints /\ delivery \in [Messages -> [Endpoints -> {"none", "succeeded", "failed"}]]
            BY Zenon, <2>1 DEF QueueInv, TypeOK, WorkerKnows, Record, Handling
        <3>2. delivery' = [delivery EXCEPT ![job[w]][target[w]] = outcome[w]] /\ pc[w] = "record"
            BY Zenon, <2>1 DEF Record
        <3>3. CASE m = job[w] /\ n = target[w]
            BY Zenon, <3>1, <3>2, <3>3 DEF DeliveryInv, HandlerKnows
        <3>4. CASE ~(m = job[w] /\ n = target[w])
            BY Zenon, <3>1, <3>2, <3>4 DEF DeliveryInv
        <3> QED BY Zenon, <3>3, <3>4
    <2>2. (\E w \in Workers : Record(w)) \/ UNCHANGED delivery
        BY Zenon, DeliveryChanges
    <2>3. n \in received[m]
        BY Zenon, <2>1, <2>2 DEF DeliveryInv
    <2> QED BY Zenon, <2>3, ReachedStays
<1> QED BY Zenon, <1>1, <1>2, <1>3, <1>4 DEF DeliveryInv

\* The delivery invariant holds at the start.
LEMMA DeliveryInit == Init => DeliveryInv
<1> SUFFICES ASSUME Init PROVE DeliveryInv
    OBVIOUS
<1>1. \A m \in Messages, n \in Endpoints : delivery[m][n] # "succeeded"
    BY Zenon DEF Init
<1>2. \A m \in Messages : addressed[m] = {} /\ msg[m].status # "completed"
    BY Zenon, NewRows DEF Init
<1>3. \A w \in Workers : pc[w] = "idle"
    BY Zenon DEF Init
<1>4. \A w \in Workers : HandlerKnows(w)
    BY Zenon, <1>3 DEF HandlerKnows
<1> QED BY Zenon, <1>1, <1>2, <1>4 DEF DeliveryInv, CompletedWasReceived

\* A message is completed only after every matching endpoint that was active
\* when it was written, and still is, received it.
THEOREM CompletedMeansReceived == Spec => []CompletedWasReceived
<1>1. DeliveryInv => CompletedWasReceived
    BY Zenon DEF DeliveryInv
<1> QED BY <1>1, DeliveryInit, DeliveryStep, QueueInvariant, PTL DEF Spec

-----------------------------------------------------------------------------
(* The outbox implements the queue.                                          *)

\* What the queue shows of a status.
Shown(s) == IF s \in {"pending", "processing"} THEN "queued" ELSE s

\* The queue shows the same after a step that changes no shown status and no
\* attempts.
LEMMA QueueUnchanged ==
    ASSUME \A m \in Messages : Shown(msg'[m].status) = Shown(msg[m].status) /\ msg'[m].attempts = msg[m].attempts
    PROVE  UNCHANGED Queue!queue
BY Zenon DEF Queue!queue, Shown

\* Every step is a step of DeliveryQueue or leaves its variables alone.
LEMMA QueueRefined ==
    ASSUME QueueInv, [Next]_vars
    PROVE  [Queue!Next]_(Queue!queue)
<1>t. msg \in [Messages -> Row] /\ \A m \in Messages : msg[m] \in Row
    BY Zenon DEF QueueInv, TypeOK
<1>1. ASSUME NEW m \in Messages, CreateOutboxMessage(m) PROVE Queue!Next
    <2>1. msg' = [msg EXCEPT ![m] = NewMessage] /\ msg[m].status = "none" /\ msg[m].attempts = 0
        BY Zenon, <1>1 DEF CreateOutboxMessage, QueueInv
    <2>2. Queue!Put(m)
        BY Zenon, <2>1, <1>t, NewRows DEF Queue!Put
    <2> QED BY Zenon, <2>2 DEF Queue!Next
<1>2. ASSUME NEW S \in SUBSET Messages, ReplayDeadLetters(S) PROVE Queue!Next
    <2>1. /\ msg' = [m \in Messages |-> IF m \in S THEN NewMessage ELSE msg[m]]
          /\ \A m \in S : msg[m].status = "dead_letter"
        BY Zenon, <1>2 DEF ReplayDeadLetters
    <2>2. Queue!PutBack(S)
        BY Zenon, <2>1, <1>t, NewRows DEF Queue!PutBack
    <2> QED BY Zenon, <2>2 DEF Queue!Next
<1>3. ASSUME NEW w \in Workers, NEW k \in Messages, Recover(w, k) \/ Claim(w, k) PROVE UNCHANGED Queue!queue
    <2>1. /\ msg' = [msg EXCEPT ![k] = Recovered(msg[k])] \/ msg' = [msg EXCEPT ![k] = Claimed(msg[k])]
          /\ msg[k].status \in {"pending", "processing"}
        BY Zenon, <1>3 DEF Recover, Claim, Update
    <2> QED BY <2>1, <1>t, ClaimRows, QueueUnchanged DEF Shown
<1>4. ASSUME NEW w \in Workers, Finish(w) PROVE Queue!Next
    <2>0. PICK k \in Messages : k = job[w]
        BY Zenon, <1>4, FinishedRow
    <2>1. PICK r \in Row :
              /\ k \in Messages
              /\ outcome[w] \in {"succeeded", "failed"}
              /\ Update(k, r, {})
              /\ msg[k].status = "processing"
              /\ outcome[w] = "succeeded" => r.status = "completed" /\ r.attempts = msg[k].attempts
              /\ outcome[w] = "failed" =>
                    /\ r.attempts = msg[k].attempts + 1
                    /\ r.status = IF r.attempts = MaxAttempts THEN "dead_letter" ELSE "pending"
        BY Zenon, <2>0, <1>4, FinishedRow
    <2>2. msg' = [msg EXCEPT ![k] = r]
        BY Zenon, <2>1 DEF Update
    <2>3. CASE outcome[w] = "succeeded"
        <3>1. Queue!Succeed(k)
            BY Zenon, <2>1, <2>2, <2>3, <1>t DEF Queue!Succeed
        <3> QED BY Zenon, <3>1 DEF Queue!Next
    <2>4. CASE outcome[w] = "failed"
        <3>1. Queue!Fail(k)
            BY Zenon, <2>1, <2>2, <2>4, <1>t DEF Queue!Fail
        <3> QED BY Zenon, <3>1 DEF Queue!Next
    <2> QED BY Zenon, <2>1, <2>3, <2>4
<1>5. ASSUME Tick PROVE UNCHANGED Queue!queue
    BY Zenon, <1>5, <1>t, AgedRow, QueueUnchanged DEF Tick
<1>6. ASSUME UNCHANGED <<msg, jobs, replays>> PROVE UNCHANGED Queue!queue
    BY Zenon, <1>6, QueueUnchanged
<1> QED BY Zenon, <1>1, <1>2, <1>3, <1>4, <1>5, <1>6, RowChanges

\* Whatever workers, leases, crashes and late answers do, each message goes
\* through the queue as DeliveryQueue says.
THEOREM OutboxImplementsQueue == Spec => ImplementsQueue
<1>1. Init => Queue!Init
    BY NewRows DEF Init, Queue!Init
<1>2. QueueInv /\ [Next]_vars => [Queue!Next]_(Queue!queue)
    BY Zenon, QueueRefined
<1> QED BY <1>1, <1>2, QueueInvariant, PTL DEF Spec, ImplementsQueue, Queue!Spec
=============================================================================
