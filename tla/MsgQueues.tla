------------------------------ MODULE MsgQueues ------------------------------
(***************************************************************************)
(* The two queues of a partition that a producer without idempotence       *)
(* writes to: rktp_msgq, which the application and the threads of old      *)
(* leaders add to, and rktp_xmit_msgq, which the leader's thread sends     *)
(* from.  Messages move between them, come back from failed requests and   *)
(* time out in any order; rd_kafka_msgq_insert_msgq() (rdkafka_partition.c)*)
(* has to keep both in the order of queuing.strategy.  A message is its    *)
(* msgid.                                                                  *)
(***************************************************************************)
EXTENDS Integers, Sequences, FiniteSets, SequencesExt, FiniteSetsExt

CONSTANT Plans   \* [lifo, msgs, batch, space, flying, retries, moves]: the instances

VARIABLE s

(* s.plan      the instance                                                 *)
(* s.msgid     rktp_msgid, the last message produced                        *)
(* s.msgq, s.xmit   the two queues                                          *)
(* s.out       the requests not yet sent, each a sequence of messages: at   *)
(*             most plan.space, queue.buffering.backpressure.threshold      *)
(* s.inflight  the requests sent: at most plan.flying of one leader         *)
(* s.retries[m]     how often m was retried                                 *)
(* s.late      the messages up to this one are past message.timeout.ms      *)
(* s.led       the partition has a leader; s.moves: changes of it so far    *)
(* s.dr[m]     how often m was reported to the application                  *)
(* s.mixed     a queue was inserted that did not fit between two neighbours *)
(*             of the other one (only the properties read it)               *)
vars == <<s>>

\* rkt_conf.msg_order_cmp: rd_kafka_msg_cmp_msgid or, for LIFO, its reverse.
Before(a, b) == IF s.plan.lifo THEN a > b ELSE a < b

Elements(q) == {q[i] : i \in DOMAIN q}

\* rd_kafka_msgq_find_pos: how many messages of q come before m's place, which
\* is in front of the first one that m is before.
FindPos(q, m) == Min({i \in DOMAIN q : Before(m, q[i])} \cup {Len(q) + 1}) - 1

InsertList(q, at, src) == SubSeq(q, 1, at) \o src \o SubSeq(q, at + 1, Len(q))

\* rd_kafka_msgq_enq_sorted0
EnqSorted(q, m) == InsertList(q, FindPos(q, m), <<m>>)

\* rd_kafka_msgq_overlap, of queues that are not empty: whatever the order, the
\* first message is taken to have the lowest msgid.
Overlap(a, b) == Head(a) <= Last(b) /\ Head(b) <= Last(a)

\* rd_kafka_msgq_insert_msgq_sort
InsertMsgqSort(dest, src) == FoldLeft(EnqSorted, dest, src)

\* rd_kafka_msgq_insert_msgq: prepended, appended or put at one place, unless
\* the two overlap.
InsertMsgq(dest, src) ==
  CASE src = <<>> -> dest
    [] src # <<>> /\ dest = <<>> -> src
    [] src # <<>> /\ dest # <<>> /\ Overlap(dest, src) -> InsertMsgqSort(dest, src)
    [] OTHER -> IF Before(Head(src), Head(dest)) THEN src \o dest
                ELSE IF Before(Last(dest), Head(src)) THEN dest \o src
                ELSE InsertList(dest, FindPos(dest, Head(src)), src)

\* There is no one place in dest for all of src.
Mixed(dest, src) ==
  \E m \in Elements(dest) : /\ \E a \in Elements(src) : Before(a, m)
                            /\ \E a \in Elements(src) : Before(m, a)

-----------------------------------------------------------------------------
Init ==
  \E p \in Plans :
    s = [mod |-> "MsgQueues", plan |-> p, msgid |-> 0, msgq |-> <<>>, xmit |-> <<>>, out |-> <<>>, inflight |-> {},
         retries |-> [m \in 1 .. p.msgs |-> 0], late |-> 0, led |-> TRUE, moves |-> 0, dr |-> [m \in 1 .. p.msgs |-> 0],
         mixed |-> FALSE]

\* rd_kafka_toppar_enq_msg
EnqMsg ==
  /\ s.msgid < s.plan.msgs
  /\ LET m == s.msgid + 1 IN
       s' = [s EXCEPT !.msgid = m, !.msgq = IF s.plan.lifo THEN EnqSorted(@, m) ELSE Append(@, m)]

\* rd_kafka_toppar_producer_serve, by the leader's thread: all messages move to
\* the xmit queue, and k of them go into a request.  None do while it lingers or
\* backs off, and a message that backs off ends a request early.
ProducerServe ==
  /\ s.led /\ Len(s.out) < s.plan.space
  /\ s.msgq # <<>> \/ s.xmit # <<>>
  /\ LET q == InsertMsgq(s.xmit, s.msgq) IN
     \E k \in 0 .. Min({s.plan.batch, Len(q)}) :
       s' = [s EXCEPT !.msgq = <<>>, !.xmit = SubSeq(q, k + 1, Len(q)),
                      !.out = IF k = 0 THEN @ ELSE Append(@, SubSeq(q, 1, k)),
                      !.mixed = @ \/ Mixed(s.xmit, s.msgq)]

\* rd_kafka_send
Send ==
  /\ s.out # <<>> /\ Cardinality(s.inflight) < s.plan.flying
  /\ s' = [s EXCEPT !.out = Tail(@), !.inflight = @ \cup {Head(s.out)}]

\* rd_kafka_dr_msgq
Reported(w, q) == [m \in DOMAIN w.dr |-> w.dr[m] + Cardinality({i \in DOMAIN q : q[i] = m})]

\* A request succeeds, or fails for good.
Delivered ==
  \E b \in s.inflight : s' = [s EXCEPT !.inflight = @ \ {b}, !.dr = Reported(s, b)]

\* rd_kafka_toppar_retry_msgq: a request failed with an error that is retried,
\* and the messages without retries left are reported.
RetryMsgq(w, b, incr) ==
  LET CanRetry(m) == w.retries[m] + incr <= w.plan.retries
      retryable == SelectSeq(b, CanRetry)
  IN [w EXCEPT !.msgq = InsertMsgq(@, retryable),
               !.retries = [m \in DOMAIN @ |-> IF m \in Elements(retryable) THEN @[m] + incr ELSE @[m]],
               !.dr = Reported(w, SelectSeq(b, LAMBDA m : ~CanRetry(m))),
               !.mixed = @ \/ Mixed(w.msgq, retryable)]

\* The broker's answer, or none.  It does not count as an attempt when the
\* broker is not the leader.
RequestFails ==
  \E b \in s.inflight, incr \in {0, 1} :
    s' = RetryMsgq([s EXCEPT !.inflight = @ \ {b}], b, incr)

\* rd_kafka_broker_bufq_purge_by_toppar, or a time-out before they were sent.
Unsent(w) == FoldLeft(LAMBDA v, b : RetryMsgq(v, b, 0), [w EXCEPT !.out = <<>>], w.out)

TimedOutQueue == s.out # <<>> /\ s' = Unsent(s)

\* rd_kafka_msgq_age_scan: how many messages at the head of q are late.
AgeScan(q, late) == Min({i \in DOMAIN q : q[i] > late} \cup {Len(q) + 1}) - 1

\* rd_kafka_broker_toppar_msgq_scan, once messages up to `late' are late.
MsgqScan ==
  /\ s.led
  /\ \E late \in s.late .. s.msgid :
       LET x == AgeScan(s.xmit, late)
           q == AgeScan(s.msgq, late)
           xtimedout == SubSeq(s.xmit, 1, x)
           qtimedout == SubSeq(s.msgq, 1, q)
       IN /\ x + q > 0
          /\ s' = [s EXCEPT !.late = late, !.xmit = SubSeq(@, x + 1, Len(@)), !.msgq = SubSeq(@, q + 1, Len(@)),
                            !.dr = Reported(s, InsertMsgq(xtimedout, qtimedout)),
                            !.mixed = @ \/ Mixed(xtimedout, qtimedout)]

\* RD_KAFKA_OP_PARTITION_LEAVE: the old leader's thread gives its messages
\* back, and its requests that were not sent.
PartitionLeave ==
  /\ s.led /\ s.moves < s.plan.moves
  /\ LET w == Unsent(s) IN
       s' = [w EXCEPT !.led = FALSE, !.moves = @ + 1, !.msgq = InsertMsgq(@, s.xmit), !.xmit = <<>>,
                      !.mixed = @ \/ Mixed(w.msgq, s.xmit)]

\* RD_KAFKA_OP_PARTITION_JOIN
PartitionJoin == ~s.led /\ s' = [s EXCEPT !.led = TRUE]

Next ==
  \/ EnqMsg
  \/ ProducerServe
  \/ Send
  \/ Delivered
  \/ RequestFails
  \/ TimedOutQueue
  \/ MsgqScan
  \/ PartitionLeave
  \/ PartitionJoin

-----------------------------------------------------------------------------
InOrder(q) == \A i, j \in DOMAIN q : i < j => Before(q[i], q[j])

(* Both queues and every request hold their messages in the order of       *)
(* queuing.strategy, however requests fail, time out and move between      *)
(* leaders (what rd_kafka_msgq_verify_order asserts in development         *)
(* builds).  The exception is the code's: with LIFO,                       *)
(* rd_kafka_msgq_overlap (rdkafka_msg.h:466) does not see that two queues  *)
(* interleave, and the first such insertion may end the order.             *)
QueuesInOrder ==
  ~(s.plan.lifo /\ s.mixed) => \A q \in {s.msgq, s.xmit} \cup Elements(s.out) \cup s.inflight : InOrder(q)

(* Every message produced is in exactly one queue or request, or has been  *)
(* reported once: an insertion neither drops nor doubles a message.        *)
NoneLost ==
  LET held == FoldSet(LAMBDA b, q : q \o b, s.msgq \o s.xmit, Elements(s.out) \cup s.inflight) IN
  Reported(s, held) = [m \in 1 .. s.plan.msgs |-> IF m <= s.msgid THEN 1 ELSE 0]

MsgQueuesSound == QueuesInOrder /\ NoneLost
=============================================================================
