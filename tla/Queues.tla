------------------------------- MODULE Queues -------------------------------
(***************************************************************************)
(* PriorityQueue of `others', which serves short queues and a long one in  *)
(* turn, and DataQueuesMulticast of `bp' with the queues of dataqueue.hh,  *)
(* one queue for each neighbor.                                            *)
(*                                                                         *)
(* Packets of PriorityQueue are their paint and one byte long.  Of the     *)
(* policy MMU the threshold is modelled, the virtual queue of a            *)
(* destination, which is computed with exp(), is not.                      *)
(***************************************************************************)
EXTENDS Integers, Sequences, FiniteSets, FiniteSetsExt, FiniteMaps

CONSTANTS Paints,            \* PAINT_ANNO
          Goal,             \* _paint_goal, in percent
          QueuesNumber,     \* _queues_number
          ShortCapacity, LongCapacity,
          SamplesSkipped,
          Junk,             \* what an uninitialized counter may hold
          MaxPushed, MaxFeedback,
          NextHop,          \* neighbors of DataQueuesMulticast
          Weight,           \* _weights
          Backlogs,         \* backlogs a neighbor may announce
          Rates,            \* of the packet at the front of a queue
          MQCapacity, V, Theta, Dmax,
          MaxQueued      \* packets that are pushed

ASSUME QueuesAssumption ==
    QueuesNumber \in Nat \ {0} /\ {ShortCapacity, LongCapacity, SamplesSkipped, MQCapacity, Dmax, V, Theta} \subseteq Nat

VARIABLES prio, mq

queueVars == <<prio, mq>>

-----------------------------------------------------------------------------
\* PriorityQueue.  Queue QueuesNumber is the long one; `pull' is _pull_q, which
\* may point behind it.  `waited' counts how often others were served meanwhile.
LongQueue == QueuesNumber
QueueNumber == 1 .. QueuesNumber
PrioInit ==
    prio \in [q : {[i \in QueueNumber |-> <<>>]}, pull : {1}, achieved : {[c \in Paints |-> TRUE]},
              bytes : {[c \in Paints |-> 0]}, samples : [Paints -> {0, Junk}], counter : {SamplesSkipped},
              bucket : {[c \in Paints |-> 0]}, highwater : {[i \in QueueNumber |-> 0]}, drops : {0},
              pushed : {0}, fed : {0}, waited : {[i \in QueueNumber |-> 0]}]

PaintSum(f) == MapThenSumSet(LAMBDA c : f[c], Paints)
\* run_timer(): a paint has achieved its goal by its share of what was sampled; the
\* share is no number, and no goal is achieved, while no sample was taken
Priority_run_timer ==
    /\ PaintSum(prio.bytes) > 0
    /\ prio' = [prio EXCEPT !.achieved = [c \in Paints |->
                  PaintSum(prio.samples) > 0 /\ prio.samples[c] * 100 >= Goal[c] * PaintSum(prio.samples)]]

\* push() to port 1: the driver tells of a packet that was sent
Priority_feedback(c) ==
    /\ prio.fed < MaxFeedback
    /\ prio' = [prio EXCEPT !.fed = @ + 1, !.bytes[c] = @ + 1,
                            !.samples[c] = IF prio.counter = 0 THEN @ + 1 ELSE @,
                            !.counter = IF @ = 0 THEN SamplesSkipped ELSE @ - 1]

Stored(i, c) ==
    [prio EXCEPT !.q[i] = Append(@, c), !.highwater[i] = IF Len(prio.q[i]) = @ THEN @ + 1 ELSE @,
                 !.bucket[c] = IF i = LongQueue THEN @ + 1 ELSE @, !.pushed = @ + 1]
\* push() to port 0: the first short queue with room unless the goal is achieved
Priority_push(c) ==
    LET short == IF prio.achieved[c] THEN {} ELSE {i \in 1 .. LongQueue - 1 : Len(prio.q[i]) # ShortCapacity}
    IN  /\ prio.pushed < MaxPushed
        /\ prio' = IF short # {} THEN Stored(CHOOSE i \in short : \A j \in short : i <= j, c)
                   ELSE IF Len(prio.q[LongQueue]) # LongCapacity THEN Stored(LongQueue, c)
                   ELSE [prio EXCEPT !.drops = @ + 1, !.pushed = @ + 1]

\* Mutant of Served(): the search begins with the first queue.
Served_first == LET full == {i \in QueueNumber : prio.q[i] # <<>>} IN CHOOSE i \in full : \A j \in full : i <= j
\* pull(): the first queue from _pull_q on that has a packet, then those before it
Served == LET full == {i \in QueueNumber : prio.q[i] # <<>>}
              later == {i \in full : i >= prio.pull}
              S == IF later # {} THEN later ELSE full
          IN  CHOOSE i \in S : \A j \in S : i <= j
Priority_pull ==
    /\ \E i \in QueueNumber : prio.q[i] # <<>>
    /\ LET k == Served
           c == Head(prio.q[k])
       IN  prio' = [prio EXCEPT !.q[k] = Tail(@), !.pull = k + 1,
                       !.bucket[c] = IF k + 1 = LongQueue + 1 THEN @ - 1 ELSE @,
                       !.waited = [i \in QueueNumber |-> IF i = k \/ prio.q[i] = <<>> THEN 0 ELSE @[i] + 1]]

-----------------------------------------------------------------------------
\* DataQueue: three queues of which all but the last are for video
\* the policies differ in where drops begin and end
Limit(policy) == CASE policy = "MMT" -> V [] policy = "MMU" -> V * Theta [] policy = "PLAIN" -> 0
NewQueue(policy) == [I |-> <<>>, P |-> <<>>, Q |-> <<>>, drops |-> Limit(policy), highwater |-> 0]
QueueSize(q) == Len(q.I) + Len(q.P) + Len(q.Q)
push_back(q, kind, p) == [q EXCEPT ![kind] = Append(@, p)]
FirstKind(q) == IF q.I # <<>> THEN "I" ELSE IF q.P # <<>> THEN "P" ELSE "Q"
front(q) == Head(q[FirstKind(q)])
pop_front(q) == [q EXCEPT ![FirstKind(q)] = Tail(@)]
pop_fronts(q, n) == LET popped[k \in 0 .. n] == IF k = 0 THEN q ELSE pop_front(popped[k - 1]) IN popped[n]
\* back(): of the last queue, whether or not it has a packet
back(q) == IF q.Q # <<>> THEN q.Q[Len(q.Q)] ELSE 0
Lesser(a, b) == IF a < b THEN a ELSE b

\* configure(); `queues' has those get_queue() made
MQInit ==
    mq \in [policy : {"MMT", "MMU", "PLAIN"}, video : BOOLEAN, queues : {<<>>}, pull : {<<>>}, guard : {0},
            lock : {TRUE}, pushed : {0}, fulls : {0}, atPeriod : {{}}, wild : {FALSE}]

\* get_related_queue(), with push(): PLAIN has one queue for everybody
QueueKey(n) == IF mq.policy = "PLAIN" THEN "any" ELSE n
get_queue(n) == IF QueueKey(n) \in DOMAIN mq.queues THEN mq.queues[QueueKey(n)] ELSE NewQueue(mq.policy)
MQ_push(n, kind) ==
    LET q == get_queue(n)
        p == mq.pushed + 1
        stored == push_back(q, IF mq.video THEN kind ELSE "Q", p)
        full == QueueSize(q) = MQCapacity
    IN  /\ mq.pushed < MaxQueued /\ ~mq.wild
        /\ mq' = [mq EXCEPT !.pushed = @ + 1, !.fulls = IF full THEN @ + 1 ELSE @,
                     !.queues = Put(@, QueueKey(n), IF full THEN [q EXCEPT !.drops = @ + 1]
                                               ELSE [stored EXCEPT !.highwater = IF QueueSize(stored) > @ THEN QueueSize(stored) ELSE @])]

\* next_pull_queue(): the largest difference; one of -1 is as good as none
BacklogDiff(n, told) == (Weight[n] * QueueSize(mq.queues[n]) - told[n].backlog)
                            * (IF QueueSize(mq.queues[n]) > 0 THEN told[n].rate ELSE 1)
next_pull_queue(told) ==
    LET D == DOMAIN mq.queues
        most == {n \in D : \A m \in D : BacklogDiff(m, told) <= BacklogDiff(n, told)}
    IN  IF D = {} THEN {<<>>}
        ELSE IF mq.policy = "PLAIN" THEN {<<n>> : n \in D}
        ELSE {<<n>> : n \in {m \in most : BacklogDiff(m, told) >= -1}}
             \cup (IF \E n \in D : BacklogDiff(n, told) >= 0 THEN {} ELSE {<<>>})

\* do_periodically(), of one queue: packets dropped, and drops worked off
Added(q) == IF QueueSize(q) > q.drops THEN Lesser(QueueSize(q), Dmax) ELSE 0
Removed(q) == IF q.drops > Limit(mq.policy) THEN Lesser(q.drops, Dmax) ELSE 0
Trimmed(q) == [pop_fronts(q, Added(q)) EXCEPT !.drops = q.drops + Added(q) - Removed(q)]
\* do_periodically(): the queue is chosen before packets are dropped, its guard after
MQ_do_periodically == \E u \in UNION {next_pull_queue(told) : told \in [NextHop -> [backlog : Backlogs, rate : Rates]]} :
    LET Q == IF mq.policy = "PLAIN" THEN mq.queues ELSE [n \in DOMAIN mq.queues |-> Trimmed(mq.queues[n])]
        some == u # <<>> /\ (u # <<>> => QueueSize(Q[u[1]]) > 0)
        guard == IF some THEN back(Q[u[1]]) ELSE 0
    IN  /\ ~mq.wild
        /\ mq' = [mq EXCEPT !.queues = Q, !.pull = u, !.guard = guard, !.lock = ~some,
                            !.wild = some /\ guard = 0,
                            !.atPeriod = IF some THEN 1 .. mq.pushed ELSE {}]

\* DataQueues::pull()
MQ_pull ==
    /\ mq.pull # <<>> /\ ~mq.lock /\ ~mq.wild
    /\ QueueSize(mq.queues[mq.pull[1]]) > 0
    /\ mq' = [mq EXCEPT !.queues[mq.pull[1]] = pop_front(@),
                        !.lock = (front(mq.queues[mq.pull[1]]) = mq.guard)]

-----------------------------------------------------------------------------
QueuesInit == PrioInit /\ MQInit
PrioNext == (Priority_run_timer \/ Priority_pull \/ \E c \in Paints : Priority_feedback(c) \/ Priority_push(c)) /\ UNCHANGED mq
MQNext == (MQ_do_periodically \/ MQ_pull \/ \E n \in NextHop, kind \in {"I", "P", "Q"} : MQ_push(n, kind)) /\ UNCHANGED prio
QueuesSpec == QueuesInit /\ [][PrioNext \/ MQNext]_queueVars

QueuesTypeOK ==
    /\ prio.pull \in 1 .. QueuesNumber + 1 /\ prio.counter \in 0 .. SamplesSkipped
    /\ \A n \in DOMAIN mq.queues : QueueSize(mq.queues[n]) <= MQCapacity /\ mq.queues[n].drops \in Nat

\* _paint_packets_bucket, which pull() corrects by where _pull_q ends up, counts
\* the packets of each paint in the long queue; none of the queues outgrows its
\* capacity, and a queue with packets is passed over less than QueuesNumber times
\* in a row.
PrioritySound ==
    /\ \A c \in Paints : prio.bucket[c] = Cardinality({j \in 1 .. Len(prio.q[LongQueue]) : prio.q[LongQueue][j] = c})
    /\ \A i \in QueueNumber : /\ Len(prio.q[i]) <= prio.highwater[i]
                        /\ prio.highwater[i] <= (IF i = LongQueue THEN LongCapacity ELSE ShortCapacity)
                        /\ prio.waited[i] < QueuesNumber

\* Except with video, whatever arrives, is dropped and is announced: while packets
\* may be pulled the guard is in the queue that was chosen, and what is before it
\* was there when the period began; the drops of a queue, which decide whether
\* more are dropped, stay near their limit but for those of a full queue.
MulticastQueuesSound ==
    /\ ~mq.lock /\ ~mq.video =>
          LET q == mq.queues[mq.pull[1]].Q
          IN  \E i \in DOMAIN q : q[i] = mq.guard /\ \A j \in 1 .. i : q[j] \in mq.atPeriod
    /\ \A n \in DOMAIN mq.queues : mq.queues[n].drops <= Limit(mq.policy) + Dmax + mq.fulls
    /\ mq.wild => mq.video

\* PriorityQueue counts what is in its long queue and starves no queue;
\* DataQueuesMulticast serves no packet of the next period.
QueuesSound == PrioritySound /\ MulticastQueuesSound
=============================================================================
