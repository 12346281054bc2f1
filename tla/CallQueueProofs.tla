-------------------------- MODULE CallQueueProofs --------------------------
(***************************************************************************)
(* More theorems about CallLifecycle, for any set of tasks and any number  *)
(* of failed posts: the lock's queue, which is inductive by itself         *)
(* (QueueKept), the status that the backend is told, which needs that the  *)
(* status of the call and of a post on its way are no older than what was  *)
(* delivered (NoOlder), and how often it is told (DeliveryCount).          *)
(***************************************************************************)
EXTENDS CallLifecycleProofs, SequenceTheorems

-----------------------------------------------------------------------------
(* The queue of the lock *)

Queued(t, queue) == \E i \in DOMAIN queue : queue[i] = t

\* A task that joins the queue is in it once if it was not in it.
LEMMA AppendQueued ==
    ASSUME NEW queue \in Seq(Tasks), NEW t \in Tasks,
           \A i, j \in DOMAIN queue : queue[i] = queue[j] => i = j,
           ~Queued(t, queue)
    PROVE  /\ \A u \in Tasks : Queued(u, Append(queue, t)) <=> u = t \/ Queued(u, queue)
           /\ \A i, j \in DOMAIN Append(queue, t) :
                  Append(queue, t)[i] = Append(queue, t)[j] => i = j
<1> DEFINE new == Append(queue, t)
<1>1. /\ Len(new) = Len(queue) + 1
      /\ DOMAIN new = 1..(Len(queue) + 1) /\ DOMAIN queue = 1..Len(queue)
      /\ Len(queue) \in Nat
      /\ new[Len(queue) + 1] = t
      /\ \A i \in DOMAIN queue : new[i] = queue[i]
  OBVIOUS
<1> HIDE DEF new
<1>2. \A u \in Tasks : Queued(u, new) <=> u = t \/ Queued(u, queue)
  <2>1. ASSUME NEW u \in Tasks, Queued(u, new) PROVE u = t \/ Queued(u, queue)
    <3>1. PICK i \in DOMAIN new : new[i] = u
      BY <2>1 DEF Queued
    <3>2. i = Len(queue) + 1 \/ i \in DOMAIN queue
      BY <1>1
    <3> QED BY <1>1, <3>1, <3>2 DEF Queued
  <2>2. ASSUME NEW u \in Tasks, u = t \/ Queued(u, queue) PROVE Queued(u, new)
    <3>1. Len(queue) + 1 \in DOMAIN new /\ DOMAIN queue \subseteq DOMAIN new
      BY <1>1
    <3> QED BY <1>1, <2>2, <3>1 DEF Queued
  <2> QED BY <2>1, <2>2
<1>3. ASSUME NEW i \in DOMAIN new, NEW j \in DOMAIN new, new[i] = new[j] PROVE i = j
  <2>1. CASE i \in DOMAIN queue /\ j \in DOMAIN queue
    BY <1>1, <1>3, <2>1
  <2>2. CASE i \notin DOMAIN queue \/ j \notin DOMAIN queue
    BY <1>1, <1>3, <2>2 DEF Queued
  <2> QED BY <2>1, <2>2
<1> QED BY <1>2, <1>3 DEF new

\* A task removed from the queue is gone, and the others stay, each once.
LEMMA RemoveQueued ==
    ASSUME NEW queue \in Seq(Tasks), NEW k \in DOMAIN queue,
           \A i, j \in DOMAIN queue : queue[i] = queue[j] => i = j
    PROVE  /\ \A u \in Tasks :
                  Queued(u, RemoveAt(queue, k)) <=> u # queue[k] /\ Queued(u, queue)
           /\ \A i, j \in DOMAIN RemoveAt(queue, k) :
                  RemoveAt(queue, k)[i] = RemoveAt(queue, k)[j] => i = j
<1> DEFINE new == RemoveAt(queue, k)
           old(i) == IF i < k THEN i ELSE i + 1
<1>1. Len(queue) \in Nat /\ DOMAIN queue = 1..Len(queue) /\ k \in 1..Len(queue)
  OBVIOUS
<1>2. new \in Seq(Tasks)
  BY RemoveAtType
<1> DEFINE a == SubSeq(queue, 1, k - 1)
           b == SubSeq(queue, k + 1, Len(queue))
<1>3. /\ a \in Seq(Tasks) /\ Len(a) = k - 1
      /\ \A i \in 1..(k - 1) : a[i] = queue[i]
  <2>1. \A i \in 1..(k - 1) : queue[i] \in Tasks
    BY <1>1
  <2> QED BY <1>1, <2>1, SubSeqProperties
<1>4. /\ b \in Seq(Tasks) /\ Len(b) = Len(queue) - k
      /\ \A i \in 1..(Len(queue) - k) : b[i] = queue[k + i]
  <2>1. \A i \in (k + 1)..Len(queue) : queue[i] \in Tasks
    BY <1>1
  <2>2. /\ b \in Seq(Tasks)
        /\ Len(b) = IF k + 1 <= Len(queue) THEN Len(queue) - (k + 1) + 1 ELSE 0
        /\ \A i \in 1..(Len(queue) - (k + 1) + 1) : b[i] = queue[(k + 1) + i - 1]
    BY <1>1, <2>1, SubSeqProperties
  <2> QED BY <1>1, <2>2
<1>5. new = a \o b
  BY DEF RemoveAt
<1> HIDE DEF a, b, new
<1>6. /\ DOMAIN new = 1..(Len(queue) - 1)
      /\ \A i \in 1..(Len(queue) - 1) : new[i] = IF i <= k - 1 THEN a[i] ELSE b[i - (k - 1)]
  <2>1. a \in Seq(Tasks) /\ b \in Seq(Tasks)
    BY <1>3, <1>4
  <2>2. /\ Len(new) = Len(a) + Len(b)
        /\ \A i \in 1..(Len(a) + Len(b)) :
               new[i] = IF i <= Len(a) THEN a[i] ELSE b[i - Len(a)]
    BY <1>5, <2>1, ConcatProperties, Zenon
  <2>3. Len(a) + Len(b) = Len(queue) - 1 /\ Len(a) = k - 1
    BY <1>1, <1>3, <1>4
  <2>4. /\ Len(new) = Len(queue) - 1
        /\ \A i \in 1..(Len(queue) - 1) :
               new[i] = IF i <= k - 1 THEN a[i] ELSE b[i - (k - 1)]
    BY <2>2, <2>3, Zenon
  <2> QED BY <1>2, <2>4
<1>7. \A i \in DOMAIN new : new[i] = queue[old(i)]
  <2> SUFFICES ASSUME NEW i \in 1..(Len(queue) - 1) PROVE new[i] = queue[old(i)]
    BY <1>6
  <2>1. CASE i < k
    BY <1>1, <1>3, <1>6, <2>1
  <2>2. CASE i >= k
    <3>1. i - (k - 1) \in 1..(Len(queue) - k) /\ k + (i - (k - 1)) = i + 1
      BY <1>1, <2>2
    <3>2. new[i] = b[i - (k - 1)]
      BY <1>1, <1>6, <2>2
    <3> QED BY <1>4, <2>2, <3>1, <3>2
  <2> QED BY <1>1, <2>1, <2>2
<1>8. \A i \in DOMAIN new : old(i) \in DOMAIN queue /\ old(i) # k
  BY <1>1, <1>6
<1>9. \A i, j \in DOMAIN new : old(i) = old(j) => i = j
  BY <1>1, <1>6
<1>10. \A i \in DOMAIN queue : i # k => \E j \in DOMAIN new : old(j) = i
  <2> SUFFICES ASSUME NEW i \in DOMAIN queue, i # k
               PROVE  \E j \in DOMAIN new : old(j) = i
    OBVIOUS
  <2>1. CASE i < k
    BY <1>1, <1>6, <2>1
  <2>2. CASE i > k
    <3>1. i - 1 \in DOMAIN new /\ old(i - 1) = i
      BY <1>1, <1>6, <2>2
    <3> QED BY <3>1
  <2> QED BY <1>1, <2>1, <2>2
<1> HIDE DEF old
<1>11. \A u \in Tasks : Queued(u, new) <=> u # queue[k] /\ Queued(u, queue)
  BY <1>7, <1>8, <1>10 DEF Queued
<1>12. \A i, j \in DOMAIN new : new[i] = new[j] => i = j
  BY <1>7, <1>8, <1>9
<1> QED BY <1>11, <1>12 DEF new

\* The head's successor inherits a queue without it.
LEMMA TailQueued ==
    ASSUME NEW queue \in Seq(Tasks), queue # << >>,
           \A i, j \in DOMAIN queue : queue[i] = queue[j] => i = j
    PROVE  /\ \A u \in Tasks : Queued(u, Tail(queue)) <=> u # Head(queue) /\ Queued(u, queue)
           /\ \A i, j \in DOMAIN Tail(queue) : Tail(queue)[i] = Tail(queue)[j] => i = j
<1> DEFINE new == Tail(queue)
<1>1. /\ Len(queue) \in Nat /\ DOMAIN queue = 1..Len(queue) /\ 1 \in DOMAIN queue
      /\ DOMAIN new = 1..(Len(queue) - 1) /\ Head(queue) = queue[1]
      /\ \A i \in DOMAIN new : new[i] = queue[i + 1]
  OBVIOUS
<1>2. \A i \in DOMAIN new : i + 1 \in DOMAIN queue /\ i + 1 # 1
  BY <1>1
<1>3. \A i \in DOMAIN queue : i # 1 => i - 1 \in DOMAIN new /\ (i - 1) + 1 = i
  BY <1>1
<1> HIDE DEF new
<1>4. ASSUME NEW u \in Tasks PROVE Queued(u, new) <=> u # Head(queue) /\ Queued(u, queue)
  <2>1. ASSUME Queued(u, new) PROVE u # Head(queue) /\ Queued(u, queue)
    BY <1>1, <1>2, <2>1 DEF Queued
  <2>2. ASSUME u # Head(queue), Queued(u, queue) PROVE Queued(u, new)
    <3>1. PICK i \in DOMAIN queue : queue[i] = u
      BY <2>2 DEF Queued
    <3>2. i - 1 \in DOMAIN new /\ new[i - 1] = queue[i]
      BY <1>1, <1>3, <2>2, <3>1
    <3> QED BY <3>1, <3>2 DEF Queued
  <2> QED BY <2>1, <2>2
<1>5. ASSUME NEW i \in DOMAIN new, NEW j \in DOMAIN new, new[i] = new[j] PROVE i = j
  <2>1. i + 1 = j + 1
    BY <1>1, <1>2, <1>5
  <2> QED BY <1>1, <2>1
<1> QED BY <1>4, <1>5 DEF new

\* The queue and the phases of the tasks change together.
LEMMA QueueKept ==
    ASSUME IInv, QueueIsWaiting, [Next]_vars
    PROVE  QueueIsWaiting'
<1> USE DEF IInv, TypeOK
<1>0. /\ \A t \in Tasks : phase[t] = "waiting" <=> Queued(t, waiters)
      /\ \A i, j \in DOMAIN waiters : waiters[i] = waiters[j] => i = j
  BY DEF QueueIsWaiting, Queued
<1>1. SUFFICES /\ \A t \in Tasks : phase'[t] = "waiting" <=> Queued(t, waiters')
               /\ \A i, j \in DOMAIN waiters' : waiters'[i] = waiters'[j] => i = j
  BY DEF QueueIsWaiting, Queued
<1>2. CASE /\ UNCHANGED waiters
           /\ \E t \in Tasks, where \in Phases \ {"waiting"} :
                  phase[t] # "waiting" /\ phase' = [phase EXCEPT ![t] = where]
  BY <1>0, <1>2
<1>3. CASE UNCHANGED <<waiters, phase>>
  BY <1>0, <1>3
<1>4. ASSUME NEW t \in Tasks, NEW r, phase[t] # "waiting", Enqueue(t, r)
      PROVE  /\ \A u \in Tasks : phase'[u] = "waiting" <=> Queued(u, waiters')
             /\ \A i, j \in DOMAIN waiters' : waiters'[i] = waiters'[j] => i = j
  <2>1. waiters' = Append(waiters, t) /\ phase' = [phase EXCEPT ![t] = "waiting"]
    BY <1>4 DEF Enqueue
  <2>2. /\ \A u \in Tasks : Queued(u, waiters') <=> u = t \/ Queued(u, waiters)
        /\ \A i, j \in DOMAIN waiters' : waiters'[i] = waiters'[j] => i = j
    BY <1>0, <1>4, <2>1, AppendQueued
  <2> QED BY <1>0, <2>1, <2>2
<1>5. ASSUME NEW t \in Tasks, NEW r, phase[t] # "waiting", Enter(t, r), UNCHANGED waiters
      PROVE  /\ \A u \in Tasks : phase'[u] = "waiting" <=> Queued(u, waiters')
             /\ \A i, j \in DOMAIN waiters' : waiters'[i] = waiters'[j] => i = j
  <2>1. \E where \in Phases \ {"waiting"} : phase' = [phase EXCEPT ![t] = where]
    BY <1>5 DEF Enter, AlreadyFinished, StartPost, Phases
  <2> QED BY <1>2, <1>5, <2>1
<1>6. ASSUME NEW t \in Tasks, NEW r \in CallReasons, Finish(t, r) \/ Refinish(t, r)
      PROVE  /\ \A u \in Tasks : phase'[u] = "waiting" <=> Queued(u, waiters')
             /\ \A i, j \in DOMAIN waiters' : waiters'[i] = waiters'[j] => i = j
  <2>1. phase[t] # "waiting"
    BY <1>6 DEF Finish, InFinish, Refinish
  <2>2. Enqueue(t, r) \/ (Enter(t, r) /\ UNCHANGED waiters)
    BY <1>6 DEF Finish, Refinish
  <2> QED BY <1>4, <1>5, <2>1, <2>2
<1>7. ASSUME NEW t \in Tasks, Resume(t)
      PROVE  /\ \A u \in Tasks : phase'[u] = "waiting" <=> Queued(u, waiters')
             /\ \A i, j \in DOMAIN waiters' : waiters'[i] = waiters'[j] => i = j
  <2>1. /\ waiters # << >> /\ Head(waiters) = t /\ waiters' = Tail(waiters)
        /\ \E where \in Phases \ {"waiting"} : phase' = [phase EXCEPT ![t] = where]
    BY <1>7 DEF Resume, Enter, AlreadyFinished, StartPost, Phases
  <2>2. /\ \A u \in Tasks : Queued(u, waiters') <=> u # t /\ Queued(u, waiters)
        /\ \A i, j \in DOMAIN waiters' : waiters'[i] = waiters'[j] => i = j
    BY <1>0, <2>1, TailQueued
  <2> QED BY <1>0, <2>1, <2>2
<1>8. ASSUME NEW t \in Tasks, CancelWait(t)
      PROVE  /\ \A u \in Tasks : phase'[u] = "waiting" <=> Queued(u, waiters')
             /\ \A i, j \in DOMAIN waiters' : waiters'[i] = waiters'[j] => i = j
  <2>1. PICK k \in DOMAIN waiters : waiters[k] = t /\ waiters' = RemoveAt(waiters, k)
    BY <1>8 DEF CancelWait
  <2>2. phase' = [phase EXCEPT ![t] = "cancelled"]
    BY <1>8 DEF CancelWait
  <2>3. /\ \A u \in Tasks : Queued(u, waiters') <=> u # t /\ Queued(u, waiters)
        /\ \A i, j \in DOMAIN waiters' : waiters'[i] = waiters'[j] => i = j
    BY <1>0, <2>1, RemoveQueued
  <2> QED BY <1>0, <2>2, <2>3
<1>9. ASSUME NEW t \in Tasks, Complete(t) \/ Fail(t)
      PROVE  /\ \A u \in Tasks : phase'[u] = "waiting" <=> Queued(u, waiters')
             /\ \A i, j \in DOMAIN waiters' : waiters'[i] = waiters'[j] => i = j
  <2>1. /\ phase[t] # "waiting" /\ UNCHANGED waiters
        /\ \E where \in Phases \ {"waiting"} : phase' = [phase EXCEPT ![t] = where]
    BY <1>9 DEF Complete, Fail, Phases
  <2> QED BY <1>2, <2>1
<1>10. ASSUME MarkInCall \/ (\E t \in Tasks : PostEnds(t)) \/ UNCHANGED vars
       PROVE  UNCHANGED <<waiters, phase>>
  BY <1>10 DEF MarkInCall, PostEnds, Deliver, DeliverUnanswered, Lose, vars
<1> QED BY <1>3, <1>6, <1>7, <1>8, <1>9, <1>10 DEF Next, AfterPost

\* Whatever tasks wait, resume, call again or are cancelled, the lock's queue
\* is exactly those that are suspended on it, each once.
THEOREM QueueHoldsTheWaiting == Spec => []QueueIsWaiting
<1>1. Init => QueueIsWaiting
  BY DEF Init, QueueIsWaiting
<1>2. IInv /\ QueueIsWaiting /\ [Next]_vars => QueueIsWaiting'
  BY QueueKept
<1> QED BY <1>1, <1>2, Invariance, PTL DEF Spec

-----------------------------------------------------------------------------
(* The status the backend is told *)

InCallDelivered == \E i \in DOMAIN delivered : delivered[i].status = "IN_CALL"

\* Once a delivery said that the call was connected, so do the call and every
\* report on its way.
NoOlder ==
    /\ \A t \in Tasks :
          post[t] = "running" /\ report[t].status = "IN_CALL" => callStatus = "IN_CALL"
    /\ InCallDelivered =>
          /\ callStatus = "IN_CALL"
          /\ \A t \in Tasks : post[t] = "running" => report[t].status = "IN_CALL"

StatusInv == StatusNeverRegresses /\ NoOlder

\* A report that is posted carries the status of the call at that moment, and
\* the next is posted only when it has ended.
LEMMA StatusKept ==
    ASSUME IInv, StatusInv, [Next]_vars
    PROVE  StatusInv'
<1> USE DEF IInv, TypeOK, StatusInv
<1>1. ASSUME UNCHANGED delivered,
             callStatus = "IN_CALL" => callStatus' = "IN_CALL",
             \A t \in Tasks : post'[t] = "running" =>
                 \/ post[t] = "running" /\ report'[t] = report[t]
                 \/ report'[t].status = callStatus
      PROVE  StatusInv'
  BY <1>1 DEF StatusNeverRegresses, NoOlder, InCallDelivered
<1>2. CASE MarkInCall
  BY <1>1, <1>2 DEF MarkInCall
<1>3. ASSUME NEW t \in Tasks, NEW r, Enter(t, r), UNCHANGED <<delivered, callStatus>>
      PROVE  StatusInv'
  <2>1. \A u \in Tasks : post'[u] = "running" =>
            \/ post[u] = "running" /\ report'[u] = report[u]
            \/ report'[u].status = callStatus
    BY <1>3 DEF Enter, AlreadyFinished, StartPost, EndPost, CallResult
  <2> QED BY <1>1, <1>3, <2>1
<1>4. ASSUME NEW t \in Tasks, EndPost(t) \/ UNCHANGED <<report, post>>,
             UNCHANGED <<delivered, callStatus>>
      PROVE  StatusInv'
  <2>1. \A u \in Tasks : post'[u] = "running" => post[u] = "running" /\ report'[u] = report[u]
    BY <1>4 DEF EndPost
  <2> QED BY <1>1, <1>4, <2>1
<1>5. ASSUME NEW t \in Tasks, NEW r \in CallReasons, Finish(t, r) \/ Refinish(t, r)
      PROVE  StatusInv'
  <2>1. /\ Enter(t, r) \/ EndPost(t) \/ UNCHANGED <<report, post>>
        /\ UNCHANGED <<delivered, callStatus>>
    BY <1>5 DEF Finish, Refinish
  <2> QED BY <1>3, <1>4, <2>1
<1>6. ASSUME NEW t \in Tasks, Resume(t)
      PROVE  StatusInv'
  <2>1. Enter(t, reason[t]) /\ UNCHANGED <<delivered, callStatus>>
    BY <1>6 DEF Resume
  <2> QED BY <1>3, <2>1
<1>7. ASSUME NEW t \in Tasks, Complete(t) \/ Fail(t) \/ CancelWait(t)
      PROVE  StatusInv'
  <2>1. /\ EndPost(t) \/ UNCHANGED <<report, post>>
        /\ UNCHANGED <<delivered, callStatus>>
    BY <1>7 DEF Complete, Fail, CancelWait
  <2> QED BY <1>4, <2>1
<1>8. ASSUME NEW t \in Tasks, PostEnds(t)
      PROVE  StatusInv'
  <2>1. /\ post[t] = "running" /\ holder = t /\ report[t] \in Reports
        /\ UNCHANGED <<callStatus, report>>
    BY <1>8 DEF PostEnds, Deliver, DeliverUnanswered, Lose, SendingInv
  <2>2. \A u \in Tasks : post'[u] # "running"
    BY <1>8, <2>1 DEF PostEnds, Deliver, DeliverUnanswered, Lose, SendingInv
  <2>3. CASE UNCHANGED delivered
    BY <1>1, <2>1, <2>2, <2>3
  <2>4. CASE delivered' = Append(delivered, report[t])
    <3> DEFINE n == Len(delivered)
    <3>1. /\ n \in Nat /\ DOMAIN delivered = 1..n /\ DOMAIN delivered' = 1..(n + 1)
          /\ delivered'[n + 1] = report[t]
          /\ \A i \in 1..n : delivered'[i] = delivered[i]
      BY <2>1, <2>4
    <3> HIDE DEF n
    <3>2. /\ report[t].status = "IN_CALL" => callStatus = "IN_CALL"
          /\ InCallDelivered => report[t].status = "IN_CALL"
      BY <2>1 DEF NoOlder
    <3>3. \A i \in 1..n : delivered[i].status = "IN_CALL" => report[t].status = "IN_CALL"
      BY <3>1, <3>2 DEF InCallDelivered
    <3>4. StatusNeverRegresses'
      BY <3>1, <3>3 DEF StatusNeverRegresses
    <3>5. InCallDelivered' => report[t].status = "IN_CALL"
      BY <3>1, <3>3 DEF InCallDelivered
    <3>6. NoOlder'
      BY <2>1, <2>2, <3>2, <3>5 DEF NoOlder
    <3> QED BY <3>4, <3>6
  <2>5. UNCHANGED delivered \/ delivered' = Append(delivered, report[t])
    BY <1>8 DEF PostEnds, Deliver, DeliverUnanswered, Lose
  <2> QED BY <2>3, <2>4, <2>5
<1>9. CASE UNCHANGED vars
  BY <1>1, <1>9 DEF vars
<1> QED BY <1>2, <1>5, <1>6, <1>7, <1>8, <1>9 DEF Next, AfterPost

\* Before the first delivery there is nothing to go back on.
LEMMA InitStatus == Init => StatusInv
BY DEF Init, StatusInv, StatusNeverRegresses, NoOlder, InCallDelivered

\* The backend never hears that a call it knew as connected was not.
THEOREM StatusIsKept == Spec => []StatusNeverRegresses
<1>1. IInv /\ StatusInv /\ [Next]_vars => StatusInv'
  BY StatusKept
<1>2. StatusInv => StatusNeverRegresses
  BY DEF StatusInv
<1> QED BY <1>1, <1>2, InitStatus, Invariance, PTL DEF Spec

-----------------------------------------------------------------------------
(* How often the backend is told *)

\* A delivery that no failed post accounts for is the one that was answered.
DeliveryCount ==
    /\ Len(delivered) <= faults + 1
    /\ ~finished /\ (\A t \in Tasks : post[t] # "answered") => Len(delivered) <= faults

\* A post is delivered when it is the only one, and before any was answered.
LEMMA CountKept ==
    ASSUME IInv, DeliveryCount, [Next]_vars
    PROVE  DeliveryCount'
<1> USE DEF IInv, TypeOK
<1>1. Len(delivered) \in Nat /\ faults \in Nat
  OBVIOUS
<1>2. ASSUME UNCHANGED <<delivered, faults>>, finished => finished',
             \A t \in Tasks : post[t] = "answered" => post'[t] = "answered" \/ finished'
      PROVE  DeliveryCount'
  BY <1>2 DEF DeliveryCount
<1>3. ASSUME NEW t \in Tasks, phase[t] # "sending" \/ post[t] = "error" \/ finished',
             EndPost(t) \/ post' = [post EXCEPT ![t] = "running"] \/ UNCHANGED post,
             UNCHANGED <<delivered, faults>>, finished => finished'
      PROVE  DeliveryCount'
  <2>1. post[t] # "answered" \/ finished'
    BY <1>3 DEF SendingInv
  <2>2. \A u \in Tasks \ {t} : post'[u] = post[u]
    BY <1>3 DEF EndPost
  <2> QED BY <1>2, <1>3, <2>1, <2>2
<1>4. ASSUME NEW t \in Tasks,
             \/ \E r \in CallReasons : Finish(t, r) \/ Refinish(t, r)
             \/ Resume(t) \/ Complete(t) \/ Fail(t)
      PROVE  DeliveryCount'
  <2>1. CASE \E r \in CallReasons : Finish(t, r)
    BY <1>3, <2>1 DEF Finish, InFinish, Enter, AlreadyFinished, StartPost
  <2>2. CASE \E r \in CallReasons : Refinish(t, r)
    BY <1>3, <2>2 DEF Refinish, Enter, AlreadyFinished, StartPost
  <2>3. CASE Resume(t)
    BY <1>3, <2>3 DEF Resume, Enter, AlreadyFinished, StartPost
  <2>4. CASE Complete(t) \/ Fail(t)
    BY <1>3, <2>4 DEF Complete, Fail
  <2> QED BY <1>4, <2>1, <2>2, <2>3, <2>4
<1>5. ASSUME NEW t \in Tasks, PostEnds(t) PROVE DeliveryCount'
  <2>1. /\ post[t] = "running" /\ holder = t /\ report[t] \in Reports /\ ~finished
        /\ UNCHANGED finished
    BY <1>5, NoTaskAssumption DEF PostEnds, Deliver, DeliverUnanswered, Lose, SendingInv, AckedInv
  <2>2. \A u \in Tasks : post[u] # "answered"
    BY <2>1 DEF SendingInv
  <2>3. Len(delivered) <= faults
    BY <2>1, <2>2 DEF DeliveryCount
  <2>4. CASE Deliver(t)
    <3>1. Len(delivered') = Len(delivered) + 1 /\ faults' = faults
      BY <2>1, <2>4 DEF Deliver
    <3>2. post'[t] = "answered"
      BY <2>4 DEF Deliver
    <3> QED BY <1>1, <2>3, <3>1, <3>2 DEF DeliveryCount
  <2>5. CASE DeliverUnanswered(t)
    <3>1. Len(delivered') = Len(delivered) + 1 /\ faults' = faults + 1
      BY <2>1, <2>5 DEF DeliverUnanswered
    <3> QED BY <1>1, <2>3, <3>1 DEF DeliveryCount
  <2>6. CASE Lose(t)
    <3>1. delivered' = delivered /\ faults' = faults + 1
      BY <2>6 DEF Lose
    <3> QED BY <1>1, <2>3, <3>1 DEF DeliveryCount
  <2> QED BY <1>5, <2>4, <2>5, <2>6 DEF PostEnds
<1>6. ASSUME NEW t \in Tasks, MarkInCall \/ CancelWait(t) PROVE DeliveryCount'
  BY <1>2, <1>6 DEF MarkInCall, CancelWait
<1>7. CASE MarkInCall \/ UNCHANGED vars
  BY <1>2, <1>7 DEF MarkInCall, vars
<1> QED BY <1>4, <1>5, <1>6, <1>7 DEF Next, AfterPost

LEMMA InitCount == Init => DeliveryCount
BY DEF Init, DeliveryCount

\* The backend may be told of a call more than once (DeliveredAtMostOnce is
\* violated), but only once more than posts have failed: without a failure at
\* most once (CallLifecycle.finish).
THEOREM ToldOncePerFailure == Spec => [](Len(delivered) <= faults + 1)
<1>1. IInv /\ DeliveryCount /\ [Next]_vars => DeliveryCount'
  BY CountKept
<1>2. DeliveryCount => Len(delivered) <= faults + 1
  BY DEF DeliveryCount
<1> QED BY <1>1, <1>2, InitCount, Invariance, PTL DEF Spec

=============================================================================
