------------------------- MODULE IdempotentProducer -------------------------
(***************************************************************************)
(* The life of the messages of one partition in librdkafka's idempotent    *)
(* producer: queued, batched into ProduceRequests with sequence numbers,   *)
(* acknowledged, retried, timed out and reported (rdkafka_request.c,       *)
(* rdkafka_broker.c, rdkafka_msgset_writer.c, rdkafka_partition.c), against *)
(* a Kafka partition that de-duplicates by producer epoch and sequence.    *)
(*                                                                         *)
(* A message is its msgid.  The queues are kept sorted by msgid in the     *)
(* code, so they are sets here.  A handler is one step; where it calls     *)
(* back once per purged request, the callbacks wait in cbq[b] and the      *)
(* thread of broker b does nothing else until they have run.  How the      *)
(* producer id itself is drained and bumped is ProducerId's subject: here  *)
(* the new epoch comes at any time at which this partition has no messages *)
(* in flight.  A leader thread that copied the pid before (serve_pid) goes *)
(* on with its copy.                                                       *)
(*                                                                         *)
(* External: the Kafka brokers, and the network, which may still deliver a *)
(* request after the client has given up on it.                            *)
(*                                                                         *)
(* An uncommented definition just above another one is a faulty variant of *)
(* it, under which one of the properties fails.                            *)
(***************************************************************************)
EXTENDS Integers, Sequences, FiniteSets, FiniteSetsExt

CONSTANTS Brokers,       \* broker threads, and the brokers they talk to
          None,
          BatchMax,      \* batch.num.messages
          Window,        \* RD_KAFKA_IDEMP_MAX_INFLIGHT, the broker's window too
          MaxRetries,    \* conf retries
          Gapless,       \* conf enable.gapless.guarantee
          SeqMax,        \* INT32_MAX
          Faults,        \* instances: the messages, and what may go wrong
          MaxMsgs, MaxReqs  \* bounds

ASSUME IdempotentProducerAssumption ==
    /\ None \notin Brokers
    /\ {BatchMax, Window, MaxMsgs, SeqMax} \subseteq Nat \ {0}
    /\ {MaxRetries, MaxReqs} \subseteq Nat
    /\ Gapless \in BOOLEAN
    /\ Faults \subseteq [msgs : 0..MaxMsgs, budget : Nat, elections : BOOLEAN, drains : BOOLEAN]

VARIABLES
    rktp_msgid, msgq, xmit_msgq,              \* the partition's queues
    retries, status, last_msgid, report,      \* of each message
    pid, draining, fatal,                     \* rk_eos (the epoch), rk_fatal
    toppar_pid, base_msgid, next_ack, next_err, acked_msgid, wait_drain,  \* rktp_eos
    leader, next_leader,                      \* rktp_leader, rktp_next_leader
    outbufs, waitresps, cbq, serve_pid, leaving, quota,  \* broker threads
    net, resp, zombies,                       \* the network
    k_leader, k_epoch, k_next, k_cache, log,  \* the Kafka partition
    nreq, faults                              \* bounds, and the faults still to come

msgVars == <<retries, status, last_msgid, report>>
rkVars == <<pid, draining, fatal>>
seqVars == <<next_ack, next_err, acked_msgid>>
epochVars == <<toppar_pid, base_msgid>>
leadVars == <<leader, next_leader>>
netVars == <<net, resp, zombies>>
kafkaVars == <<k_leader, k_epoch, k_next, k_cache, log>>
vars == <<rktp_msgid, msgq, xmit_msgq, msgVars, rkVars, epochVars, seqVars, wait_drain, leadVars,
          outbufs, waitresps, cbq, serve_pid, leaving, quota, netVars, kafkaVars, nreq, faults>>

Msgs == 1..MaxMsgs
Each(x) == [b \in Brokers |-> x]

Init ==
    /\ rktp_msgid = 0 /\ msgq = {} /\ xmit_msgq = {}
    /\ retries = [m \in Msgs |-> 0]
    /\ status = [m \in Msgs |-> "not"]
    /\ last_msgid = [m \in Msgs |-> 0]
    /\ report = [m \in Msgs |-> "none"]
    /\ pid = 1 /\ draining = FALSE /\ fatal = "none"
    /\ toppar_pid = 0 /\ base_msgid = 0
    /\ next_ack = 0 /\ next_err = 0 /\ acked_msgid = 0
    /\ wait_drain = TRUE
    /\ leader \in Brokers /\ next_leader = None
    /\ outbufs = Each(<< >>) /\ waitresps = Each(<< >>)
    /\ cbq = Each(<< >>) /\ serve_pid = Each(0) /\ leaving = Each(FALSE) /\ quota = Each(0)
    /\ net = Each(<< >>) /\ resp = Each(<< >>) /\ zombies = Each(<< >>)
    /\ k_leader = leader /\ k_epoch = 0 /\ k_next = 0 /\ k_cache = << >> /\ log = << >>
    /\ nreq = 0 /\ faults \in Faults

-----------------------------------------------------------------------------
(* Helpers.                                                                *)

(* The requests whose callback has not run.                                *)
Outstanding ==
    UNION {Range(outbufs[b]) \cup Range(waitresps[b]) \cup {c.rq : c \in Range(cbq[b])}
             : b \in Brokers}

(* rktp_msgs_inflight.                                                     *)
Inflight == MapThenSumSet(LAMBDA rq : Cardinality(rq.msgs), Outstanding)

Callback(rq, err, sent) == [rq |-> rq, err |-> err, sent |-> sent]
Callbacks(reqs, err, sent) == [i \in DOMAIN reqs |-> Callback(reqs[i], err, sent)]

(* rd_kafka_bufq_deq().                                                    *)
RemoveAt(s, i) == SubSeq(s, 1, i - 1) \o SubSeq(s, i + 1, Len(s))

(* The thread of broker b is between two events.                           *)
Idle(b) == cbq[b] = << >> /\ serve_pid[b] = 0 /\ ~ leaving[b] /\ quota[b] = 0

(* rd_kafka_seq_wrap().                                                    *)
SeqWrap(n) == n % (SeqMax + 1)
NextSeq(rq) == SeqWrap(rq.first_seq + Cardinality(rq.msgs))

Fault == faults.budget > 0 /\ faults' = [faults EXCEPT !.budget = @ - 1]

(* The leader stays, and only this partition's errors start drains.        *)
Steady == ~ faults.elections /\ ~ faults.drains

-----------------------------------------------------------------------------
(* The application and the main thread.                                    *)

(* rd_kafka_toppar_enq_msg().                                              *)
Produce ==
    /\ rktp_msgid < faults.msgs
    /\ rktp_msgid' = rktp_msgid + 1
    /\ msgq' = msgq \cup {rktp_msgid'}
    /\ UNCHANGED <<xmit_msgq, msgVars, rkVars, epochVars, seqVars, wait_drain, leadVars, outbufs,
                   waitresps, cbq, serve_pid, leaving, quota, netVars, kafkaVars, nreq, faults>>

(* The new epoch is acquired: rd_kafka_idemp_drain_done(), pid_update().   *)
DrainDone ==
    /\ draining /\ Inflight = 0
    /\ draining' = FALSE
    /\ pid' = pid + 1
    /\ UNCHANGED <<rktp_msgid, msgq, xmit_msgq, msgVars, fatal, epochVars, seqVars, wait_drain,
                   leadVars, outbufs, waitresps, cbq, serve_pid, leaving, quota, netVars, kafkaVars, nreq,
                   faults>>

(* Another partition's error starts a drain.                               *)
OtherDrain ==
    /\ faults.drains /\ ~ draining /\ Fault
    /\ draining' = TRUE
    /\ UNCHANGED <<rktp_msgid, msgq, xmit_msgq, msgVars, pid, fatal, epochVars, seqVars,
                   wait_drain, leadVars, outbufs, waitresps, cbq, serve_pid, leaving, quota, netVars, kafkaVars,
                   nreq>>

(* rd_kafka_toppar_broker_migrate(), on metadata that names a new leader.  *)
Migrate ==
    /\ leader # k_leader /\ next_leader # k_leader
    /\ next_leader' = k_leader
    /\ UNCHANGED <<rktp_msgid, msgq, xmit_msgq, msgVars, rkVars, epochVars, seqVars, wait_drain,
                   leader, outbufs, waitresps, cbq, serve_pid, leaving, quota, netVars, kafkaVars, nreq, faults>>

-----------------------------------------------------------------------------
(* The leader's broker thread: rd_kafka_toppar_producer_serve().           *)

(* rd_kafka_broker_toppar_msgq_scan(): the messages up to k time out in    *)
(* the queues.  Without a pid the function returns, else the gap they      *)
(* leave makes it start a drain.                                           *)
TimeoutScan(b) ==
    /\ leader = b /\ Idle(b) /\ Fault
    /\ \E k \in msgq \cup xmit_msgq :
         LET expired == {m \in msgq \cup xmit_msgq : m <= k} IN
         /\ msgq' = msgq \ expired
         /\ xmit_msgq' = xmit_msgq \ expired
         /\ report' = [m \in Msgs |-> IF m \in expired THEN "timed_out" ELSE report[m]]
    /\ draining' = TRUE
    /\ UNCHANGED <<rktp_msgid, retries, status, last_msgid, pid, fatal, epochVars, seqVars,
                   wait_drain, leadVars, outbufs, waitresps, cbq, serve_pid, leaving, quota, netVars, kafkaVars,
                   nreq>>

(* rd_kafka_broker_bufq_purge_by_toppar(): the requests that have not been *)
(* sent are called back with __RETRY.                                      *)
Purge(b) ==
    /\ cbq' = [cbq EXCEPT ![b] = @ \o Callbacks(outbufs[b], "RETRY", FALSE)]
    /\ outbufs' = [outbufs EXCEPT ![b] = << >>]

ServeMovedIfEmpty == IF fatal = "none" /\ xmit_msgq = {} THEN msgq ELSE {}

(* The messages that are moved to the xmit queue.                          *)
ServeMoved == IF fatal = "none" THEN msgq ELSE {}

(* Up to the purge that a new pid calls for.                               *)
ServeMove(b) ==
    /\ leader = b /\ Idle(b) /\ ~ draining
    /\ xmit_msgq' = xmit_msgq \cup ServeMoved
    /\ msgq' = msgq \ ServeMoved
    /\ IF pid # toppar_pid THEN Purge(b) ELSE UNCHANGED <<cbq, outbufs>>
    /\ serve_pid' = [serve_pid EXCEPT ![b] = pid]
    /\ UNCHANGED <<rktp_msgid, msgVars, rkVars, epochVars, seqVars, wait_drain, leadVars,
                   waitresps, leaving, quota, netVars, kafkaVars, nreq, faults>>

DrainedIgnored == TRUE

(* "if (inflight)": whether a partition that must drain has drained.       *)
Drained == Inflight = 0

(* rd_kafka_toppar_pid_change(): only without messages in flight; the base *)
(* of the sequence numbers becomes the first message to send.              *)
PidChange(new_pid) ==
    /\ toppar_pid' = new_pid
    /\ base_msgid' = Min(xmit_msgq)
    /\ next_ack' = 0 /\ next_err' = 0

(* The rest: wait for the drain, take over a new pid, and, if there is     *)
(* something to send and it need not wait (for the connection, for more    *)
(* messages, for a backoff), send up to the window less what is in flight. *)
ServeXmit(b) ==
    LET blocked == wait_drain /\ ~ Drained
        max_requests == IF fatal = "none" THEN Window - Inflight ELSE 0
        stop == blocked \/ max_requests <= 0 \/ xmit_msgq = {}
        change == serve_pid[b] # toppar_pid /\ ~ stop IN
    /\ serve_pid[b] # 0 /\ cbq[b] = << >>
    /\ serve_pid' = [serve_pid EXCEPT ![b] = 0]
    /\ IF blocked THEN Purge(b) /\ UNCHANGED wait_drain
       ELSE wait_drain' = FALSE /\ UNCHANGED <<cbq, outbufs>>
    /\ IF change /\ Inflight = 0 THEN PidChange(serve_pid[b])
       ELSE UNCHANGED <<epochVars, next_ack, next_err>>
    /\ \/ UNCHANGED quota
       \/ /\ ~ stop /\ (change => Inflight = 0)
          /\ \E n \in 1..max_requests : quota' = [quota EXCEPT ![b] = n]
    /\ UNCHANGED <<rktp_msgid, msgq, xmit_msgq, msgVars, rkVars, acked_msgid, leadVars, waitresps,
                   leaving, netVars, kafkaVars, nreq, faults>>

FirstMsgsAny(n) == {m \in xmit_msgq : Cardinality({x \in xmit_msgq : x <= m}) <= n}

(* rd_kafka_msgset_writer_write_msgq(): the first n messages, except that  *)
(* a batch to be retried is put together from the same messages again.     *)
FirstMsgs(n) ==
    LET last == last_msgid[Min(xmit_msgq)] IN
    {m \in xmit_msgq : /\ Cardinality({x \in xmit_msgq : x <= m}) <= n
                       /\ last # 0 => m <= last}

(* rd_kafka_msgbatch_set_first_msg(): the sequence number of a message is  *)
(* its distance from the base of the epoch.                                *)
FirstSeq(first) == SeqWrap(first - base_msgid)

(* rd_kafka_ProduceRequest(), once per round of the loop.  Sizes and       *)
(* backoffs may end a new batch anywhere; a retried one that does not end  *)
(* at its last message is a fatal error.                                   *)
ProduceRequest(b) ==
    LET first == Min(xmit_msgq)
        last == last_msgid[first] IN
    /\ quota[b] > 0 /\ xmit_msgq # {}
    /\ nreq < MaxReqs
    /\ \E n \in 1..BatchMax :
         LET msgs == FirstMsgs(n)
             rq == [id |-> nreq, pid |-> toppar_pid, first_seq |-> FirstSeq(first), msgs |-> msgs] IN
         /\ Cardinality(msgs) = n
         /\ last # 0 => n = BatchMax \/ FirstMsgs(n + 1) = msgs
         /\ IF last # 0 /\ Max(msgs) # last
            THEN /\ fatal' = IF fatal = "none" THEN "reconstruct" ELSE fatal
                 /\ quota' = [quota EXCEPT ![b] = 0]
                 /\ UNCHANGED <<outbufs, xmit_msgq, nreq>>
            ELSE /\ outbufs' = [outbufs EXCEPT ![b] = Append(@, rq)]
                 /\ xmit_msgq' = xmit_msgq \ msgs
                 /\ nreq' = nreq + 1
                 /\ quota' = [quota EXCEPT ![b] = IF xmit_msgq' = {} THEN 0 ELSE @ - 1]
                 /\ UNCHANGED fatal
    /\ UNCHANGED <<rktp_msgid, msgq, msgVars, pid, draining, epochVars, seqVars, wait_drain,
                   leadVars, waitresps, cbq, serve_pid, leaving, netVars, kafkaVars, faults>>

(* The loop ends when there is nothing left to send.                       *)
ProduceEnd(b) ==
    /\ quota[b] > 0 /\ (xmit_msgq = {} \/ nreq = MaxReqs)
    /\ quota' = [quota EXCEPT ![b] = 0]
    /\ UNCHANGED <<rktp_msgid, msgq, xmit_msgq, msgVars, rkVars, epochVars, seqVars, wait_drain,
                   leadVars, outbufs, waitresps, cbq, serve_pid, leaving, netVars, kafkaVars, nreq, faults>>

(* rd_kafka_send_requests().                                               *)
SendRequest(b) ==
    /\ Idle(b) /\ outbufs[b] # << >>
    /\ outbufs' = [outbufs EXCEPT ![b] = Tail(@)]
    /\ waitresps' = [waitresps EXCEPT ![b] = Append(@, Head(outbufs[b]))]
    /\ net' = [net EXCEPT ![b] = Append(@, Head(outbufs[b]))]
    /\ UNCHANGED <<rktp_msgid, msgq, xmit_msgq, msgVars, rkVars, epochVars, seqVars, wait_drain,
                   leadVars, cbq, serve_pid, leaving, quota, resp, zombies, kafkaVars, nreq, faults>>

-----------------------------------------------------------------------------
(* The result of a ProduceRequest.                                         *)

(* The default actions of rd_kafka_handle_Produce_error().                 *)
RefreshErrs == {"TRANSPORT", "NOT_LEADER"}
RetryErrs == RefreshErrs \cup {"NOT_ENOUGH", "AFTER_APPEND", "TIMED_OUT", "TIMED_OUT_QUEUE", "RETRY"}
PossiblyErrs == {"TRANSPORT", "AFTER_APPEND", "TIMED_OUT"}

(* struct rd_kafka_Produce_err, once the actions are decided.              *)
Perr(act, st, incr, ack, f, bump) ==
    [action |-> act, status |-> st, incr |-> incr, update_ack |-> ack, fatal |-> f, bump |-> bump]

(* A retry: if the retry count need not be incremented the messages were   *)
(* not persisted, and only possibly persisted ones count as acked.         *)
RetryPerr(incr, possibly, bump) ==
    LET p == possibly /\ incr = 1 IN
    Perr("retry", IF p THEN "possibly" ELSE "not", incr, p, "none", bump)

PermanentPerr(st, f) ==
    Perr("permanent", st, 0, FALSE, IF f = "none" /\ Gapless THEN "gapless" ELSE f, TRUE)

StandardPerrForgetful(err, sent) ==
    IF err \notin RetryErrs THEN PermanentPerr("not", "none")
    ELSE RetryPerr(IF err \in RefreshErrs \/ ~ sent THEN 0 ELSE 1, err \in PossiblyErrs, FALSE)

(* rd_kafka_handle_Produce_error() without the idempotent errors.          *)
StandardPerr(err, sent) ==
    IF err \notin RetryErrs THEN PermanentPerr("not", "none")
    ELSE RetryPerr(IF err \in RefreshErrs \ {"TRANSPORT"} \/ ~ sent THEN 0 ELSE 1,
                   err \in PossiblyErrs, FALSE)

(* rd_kafka_handle_idempotent_Produce_error().                             *)
ProducePerr(rq, err, sent) ==
    LET r == rq.first_seq - next_ack IN
    CASE rq.pid # toppar_pid -> PermanentPerr("possibly", "none")
      [] rq.pid = toppar_pid /\ err = "OUT_OF_ORDER" ->
           IF r > 0 THEN RetryPerr(0, FALSE, TRUE)
           ELSE PermanentPerr("possibly", IF r = 0 THEN "desynchronized" ELSE "rewound")
      [] rq.pid = toppar_pid /\ err = "DUPLICATE" ->
           Perr("none", "persisted", 0, TRUE, "none", FALSE)
      [] rq.pid = toppar_pid /\ err = "UNKNOWN_PID" ->
           IF retries[Min(rq.msgs)] = 0 /\ next_err = rq.first_seq THEN RetryPerr(0, FALSE, TRUE)
           ELSE PermanentPerr("possibly", "unknown_pid")
      [] OTHER -> StandardPerr(err, sent)

(* A message is never downgraded to not persisted.                         *)
NewStatus(m, st) == IF st = "not" THEN status[m] ELSE st

Report(msgs, st, how) ==
    /\ status' = [m \in Msgs |-> IF m \in msgs THEN NewStatus(m, st) ELSE status[m]]
    /\ report' = [m \in Msgs |-> IF m \in msgs THEN how ELSE report[m]]

SetFatal(f) == fatal' = IF fatal = "none" THEN f ELSE fatal

(* rd_kafka_retry_msgq(): those that may be retried once more.             *)
RetryMsgs(rq, p) ==
    {m \in rq.msgs : p.action = "retry" /\ retries[m] + p.incr <= MaxRetries}

(* An error: the messages go back to the queue or are reported.            *)
ProduceError(rq, err, sent) ==
    LET p == ProducePerr(rq, err, sent)
        again == RetryMsgs(rq, p)
        failed == rq.msgs \ again
        next_seq == NextSeq(rq) IN
    /\ last_msgid' = [last_msgid EXCEPT ![Min(rq.msgs)] = Max(rq.msgs)]
    /\ msgq' = msgq \cup again
    /\ retries' = [m \in Msgs |-> IF m \in again THEN retries[m] + p.incr ELSE retries[m]]
    /\ status' = [m \in Msgs |-> IF m \in rq.msgs THEN NewStatus(m, p.status) ELSE status[m]]
    /\ report' = [m \in Msgs |-> IF m \notin failed THEN report[m]
                                 ELSE IF p.action = "none" THEN "ok" ELSE "err"]
    /\ wait_drain' = (wait_drain \/ p.action = "retry")
    /\ draining' = (draining \/ p.bump)
    /\ SetFatal(p.fatal)
    /\ next_ack' = IF p.update_ack THEN next_seq ELSE next_ack
    /\ next_err' = next_seq
    /\ UNCHANGED <<xmit_msgq, acked_msgid>>

(* The next_ack_seq after a success.                                       *)
NextAck(rq, unexpected) == IF unexpected THEN next_ack ELSE NextSeq(rq)

(* rd_kafka_handle_idempotent_Produce_success(): a success behind a gap    *)
(* acknowledges the queued messages before it too.                         *)
ProduceSuccess(rq) ==
    LET next_seq == NextSeq(rq)
        implicit == acked_msgid < Min(rq.msgs) - 1
        acked == {m \in msgq \cup xmit_msgq : implicit /\ m <= Max(rq.msgs)}
        unexpected == ~ implicit /\ rq.first_seq # next_ack /\ rq.first_seq = next_err IN
    /\ msgq' = msgq \ acked
    /\ xmit_msgq' = xmit_msgq \ acked
    /\ Report(rq.msgs \cup acked, "persisted", "ok")
    /\ SetFatal(IF unexpected THEN "inconsistent" ELSE "none")
    /\ next_err' = IF unexpected \/ next_err = next_ack THEN next_seq ELSE next_err
    /\ next_ack' = NextAck(rq, unexpected)
    /\ acked_msgid' = Max({acked_msgid, Max(rq.msgs)})
    /\ UNCHANGED <<retries, last_msgid, wait_drain, draining>>

(* rd_kafka_msgbatch_handle_Produce_result().                              *)
ProduceResult(rq, err, sent) ==
    IF err = "none" THEN ProduceSuccess(rq) ELSE ProduceError(rq, err, sent)

(* A callback that was put off by its caller.                              *)
RunCallback(b) ==
    LET c == Head(cbq[b]) IN
    /\ cbq[b] # << >>
    /\ cbq' = [cbq EXCEPT ![b] = Tail(@)]
    /\ ProduceResult(c.rq, c.err, c.sent)
    /\ UNCHANGED <<rktp_msgid, pid, epochVars, leadVars, outbufs, waitresps, serve_pid, leaving,
                   quota, netVars, kafkaVars, nreq, faults>>

(* A response: it is ignored if its request is no longer waited for.       *)
Response(b) ==
    LET a == Head(resp[b])
        found == {i \in DOMAIN waitresps[b] : waitresps[b][i].id = a.id} IN
    /\ Idle(b) /\ resp[b] # << >>
    /\ resp' = [resp EXCEPT ![b] = Tail(@)]
    /\ \/ /\ found = {}
          /\ UNCHANGED <<msgq, xmit_msgq, msgVars, draining, fatal, seqVars, wait_drain, waitresps>>
       \/ \E i \in found :
            /\ waitresps' = [waitresps EXCEPT ![b] = RemoveAt(@, i)]
            /\ ProduceResult(waitresps[b][i], a.err, TRUE)
    /\ UNCHANGED <<rktp_msgid, pid, epochVars, leadVars, outbufs, cbq, serve_pid, leaving, quota,
                   net, zombies, kafkaVars, nreq, faults>>

(* rd_kafka_broker_fail(): after the callbacks before, those of the        *)
(* requests that wait for a response and of those that have not been sent. *)
(* What is on its way to the broker may still get there.                   *)
BrokerFail(b, before, wait, out, err) ==
    /\ cbq' = [cbq EXCEPT ![b] =
                 before \o Callbacks(wait, err, TRUE)
                        \o Callbacks(out, IF err = "TIMED_OUT" THEN "TIMED_OUT_QUEUE" ELSE err, FALSE)]
    /\ waitresps' = [waitresps EXCEPT ![b] = << >>]
    /\ outbufs' = [outbufs EXCEPT ![b] = << >>]
    /\ \E n \in 0..Len(net[b]) : zombies' = [zombies EXCEPT ![b] = @ \o SubSeq(net[b], 1, n)]
    /\ net' = [net EXCEPT ![b] = << >>]
    /\ resp' = [resp EXCEPT ![b] = << >>]

Disconnect(b) ==
    /\ Idle(b) /\ Fault
    /\ BrokerFail(b, << >>, waitresps[b], outbufs[b], "TRANSPORT")
    /\ UNCHANGED <<rktp_msgid, msgq, xmit_msgq, msgVars, rkVars, epochVars, seqVars, wait_drain,
                   leadVars, serve_pid, leaving, quota, kafkaVars, nreq>>

(* rd_kafka_broker_timeout_scan(): the oldest requests of each queue time  *)
(* out, and socket.max.fails of them take the connection down.             *)
RequestTimeout(b) ==
    /\ Idle(b) /\ Fault
    /\ \E n \in 0..Len(waitresps[b]), k \in 0..Len(outbufs[b]) :
         LET expired == Callbacks(SubSeq(waitresps[b], 1, n), "TIMED_OUT", TRUE)
                          \o Callbacks(SubSeq(outbufs[b], 1, k), "TIMED_OUT_QUEUE", FALSE)
             wait == SubSeq(waitresps[b], n + 1, Len(waitresps[b]))
             out == SubSeq(outbufs[b], k + 1, Len(outbufs[b])) IN
         /\ n + k > 0
         /\ \/ BrokerFail(b, expired, wait, out, "TIMED_OUT")
            \/ /\ cbq' = [cbq EXCEPT ![b] = expired]
               /\ waitresps' = [waitresps EXCEPT ![b] = wait]
               /\ outbufs' = [outbufs EXCEPT ![b] = out]
               /\ UNCHANGED netVars
    /\ UNCHANGED <<rktp_msgid, msgq, xmit_msgq, msgVars, rkVars, epochVars, seqVars, wait_drain,
                   leadVars, serve_pid, leaving, quota, kafkaVars, nreq>>

-----------------------------------------------------------------------------
(* Leader changes.                                                         *)

(* RD_KAFKA_OP_PARTITION_LEAVE, up to the callbacks of the purge.          *)
PartitionLeave(b) ==
    /\ leader = b /\ next_leader # None /\ Idle(b)
    /\ Purge(b)
    /\ leaving' = [leaving EXCEPT ![b] = TRUE]
    /\ UNCHANGED <<rktp_msgid, msgq, xmit_msgq, msgVars, rkVars, epochVars, seqVars, wait_drain,
                   leadVars, waitresps, serve_pid, quota, netVars, kafkaVars, nreq, faults>>

PartitionLeftLost(b) ==
    /\ leaving[b] /\ cbq[b] = << >>
    /\ leaving' = [leaving EXCEPT ![b] = FALSE]
    /\ xmit_msgq' = {}
    /\ leader' = None
    /\ UNCHANGED <<rktp_msgid, msgq, msgVars, rkVars, epochVars, seqVars, wait_drain, next_leader,
                   outbufs, waitresps, cbq, serve_pid, quota, netVars, kafkaVars, nreq, faults>>

(* The rest of it: the next leader is sent RD_KAFKA_OP_PARTITION_JOIN.     *)
PartitionLeft(b) ==
    /\ leaving[b] /\ cbq[b] = << >>
    /\ leaving' = [leaving EXCEPT ![b] = FALSE]
    /\ msgq' = msgq \cup xmit_msgq
    /\ xmit_msgq' = {}
    /\ leader' = None
    /\ UNCHANGED <<rktp_msgid, msgVars, rkVars, epochVars, seqVars, wait_drain, next_leader,
                   outbufs, waitresps, cbq, serve_pid, quota, netVars, kafkaVars, nreq, faults>>

(* RD_KAFKA_OP_PARTITION_JOIN, once it has been forwarded to the broker    *)
(* that is the next leader when it is served.                              *)
PartitionJoin(b) ==
    /\ leader = None /\ next_leader = b /\ Idle(b)
    /\ leader' = b
    /\ next_leader' = None
    /\ wait_drain' = TRUE
    /\ UNCHANGED <<rktp_msgid, msgq, xmit_msgq, msgVars, rkVars, epochVars, seqVars, outbufs,
                   waitresps, cbq, serve_pid, leaving, quota, netVars, kafkaVars, nreq, faults>>

-----------------------------------------------------------------------------
(* The Kafka partition (external).                                         *)

Span(rq) == <<rq.first_seq, NextSeq(rq)>>

(* The broker's answers: batches of an epoch are taken in sequence from 0, *)
(* and the last Window of them are recognised when they come again.        *)
Verdicts(b, rq) ==
    CASE b # k_leader -> {"NOT_LEADER"}
      [] b = k_leader /\ rq.pid < k_epoch -> {"FENCED"}
      [] b = k_leader /\ rq.pid > k_epoch ->
           IF rq.first_seq = 0 THEN {"append"}
           ELSE IF k_epoch = 0 THEN {"UNKNOWN_PID"} ELSE {"OUT_OF_ORDER"}
      [] b = k_leader /\ rq.pid = k_epoch ->
           IF rq.first_seq = k_next THEN {"append"}
           ELSE IF Span(rq) \in Range(k_cache) THEN {"none"}
           ELSE IF rq.first_seq < k_next THEN {"DUPLICATE", "OUT_OF_ORDER"} ELSE {"OUT_OF_ORDER"}

KafkaAppend(rq) ==
    LET cache == Append(IF rq.pid = k_epoch THEN k_cache ELSE << >>, Span(rq))
        nth(i) == CHOOSE m \in rq.msgs : i = Cardinality({x \in rq.msgs : x <= m}) IN
    /\ k_epoch' = rq.pid
    /\ k_next' = NextSeq(rq)
    /\ k_cache' = IF Len(cache) > Window THEN Tail(cache) ELSE cache
    /\ log' = log \o [i \in 1..Cardinality(rq.msgs) |-> [epoch |-> rq.pid, msgid |-> nth(i)]]

(* The broker handles a request with the answer err.  It may also refuse   *)
(* it for other reasons, or lack replicas before or after the append.      *)
KafkaHandle(b, rq, err) ==
    LET append == "append" \in Verdicts(b, rq) IN
    /\ UNCHANGED k_leader
    /\ \/ /\ append /\ err = "none"
          /\ KafkaAppend(rq)
          /\ UNCHANGED faults
       \/ /\ err \in Verdicts(b, rq)
          /\ UNCHANGED <<k_epoch, k_next, k_cache, log, faults>>
       \/ /\ append /\ err = "AFTER_APPEND" /\ Fault
          /\ KafkaAppend(rq)
       \/ /\ b = k_leader /\ err \in {"NOT_ENOUGH", "MSG_SIZE"} /\ Fault
          /\ UNCHANGED <<k_epoch, k_next, k_cache, log>>

clientVars == <<rktp_msgid, msgq, xmit_msgq, msgVars, rkVars, epochVars, seqVars, wait_drain,
                leadVars, outbufs, waitresps, cbq, serve_pid, leaving, quota, nreq>>

Answers == {"none", "NOT_LEADER", "FENCED", "UNKNOWN_PID", "OUT_OF_ORDER", "DUPLICATE",
            "AFTER_APPEND", "NOT_ENOUGH", "MSG_SIZE"}

(* A broker handles the requests of a connection in order.                 *)
BrokerHandle(b) ==
    /\ net[b] # << >>
    /\ \E err \in Answers :
         /\ KafkaHandle(b, Head(net[b]), err)
         /\ resp' = [resp EXCEPT ![b] = Append(@, [id |-> Head(net[b]).id, err |-> err])]
    /\ net' = [net EXCEPT ![b] = Tail(@)]
    /\ UNCHANGED <<clientVars, zombies>>

(* A request of a connection that is gone.                                 *)
ZombieHandle(b) ==
    /\ zombies[b] # << >>
    /\ \E err \in Answers : KafkaHandle(b, Head(zombies[b]), err)
    /\ zombies' = [zombies EXCEPT ![b] = Tail(@)]
    /\ UNCHANGED <<clientVars, net, resp>>

Election ==
    /\ faults.elections /\ Fault
    /\ \E b \in Brokers \ {k_leader} : k_leader' = b
    /\ UNCHANGED <<clientVars, netVars, k_epoch, k_next, k_cache, log>>

-----------------------------------------------------------------------------
Thread(b) ==
    \/ TimeoutScan(b) \/ ServeMove(b) \/ ServeXmit(b) \/ ProduceRequest(b) \/ ProduceEnd(b)
    \/ SendRequest(b) \/ RunCallback(b) \/ Response(b) \/ RequestTimeout(b) \/ Disconnect(b)
    \/ PartitionLeave(b) \/ PartitionLeft(b) \/ PartitionJoin(b)

Next ==
    \/ Produce \/ DrainDone \/ OtherDrain \/ Migrate \/ Election
    \/ \E b \in Brokers : Thread(b) \/ BrokerHandle(b) \/ ZombieHandle(b)

Spec == Init /\ [][Next]_vars

-----------------------------------------------------------------------------
(* Properties.                                                             *)

Request == [id : 0..MaxReqs - 1, pid : Nat \ {0}, first_seq : 0..SeqMax, msgs : SUBSET Msgs]
IsRequests(s) == Len(s) <= MaxReqs /\ Range(s) \subseteq Request

Fatals == {"none", "gapless", "desynchronized", "rewound", "unknown_pid", "reconstruct",
           "inconsistent"}

(* Every variable has its type: the requests of the broker threads and of  *)
(* the network, the counters and the states of the messages.               *)
TypeOK ==
    /\ rktp_msgid \in 0..MaxMsgs /\ msgq \subseteq Msgs /\ xmit_msgq \subseteq Msgs
    /\ retries \in [Msgs -> 0..MaxRetries]
    /\ status \in [Msgs -> {"not", "possibly", "persisted"}]
    /\ last_msgid \in [Msgs -> 0..MaxMsgs]
    /\ report \in [Msgs -> {"none", "ok", "err", "timed_out"}]
    /\ pid \in Nat \ {0} /\ draining \in BOOLEAN /\ fatal \in Fatals
    /\ {toppar_pid, base_msgid, next_ack, next_err, acked_msgid} \subseteq Nat
    /\ wait_drain \in BOOLEAN
    /\ leader \in Brokers \cup {None} /\ next_leader \in Brokers \cup {None}
    /\ \A b \in Brokers :
         /\ IsRequests(outbufs[b]) /\ IsRequests(waitresps[b]) /\ IsRequests(net[b])
         /\ IsRequests(zombies[b])
         /\ \A c \in Range(cbq[b]) : c.rq \in Request /\ c.sent \in BOOLEAN
         /\ serve_pid[b] \in Nat /\ leaving[b] \in BOOLEAN /\ quota[b] \in 0..Window
    /\ k_leader \in Brokers
    /\ \A i \in DOMAIN log : log[i].msgid \in Msgs /\ log[i].epoch \in 1..pid

(* A message that was produced is in exactly one place: in one of the two  *)
(* queues, in one request whose callback has not run, or reported.         *)
(* rd_kafka_toppar_retry_msgq(), the timeout scan, the implicit acks and   *)
(* the moves between queues on a leader change lose and duplicate nothing. *)
MessageConserved ==
    \A m \in 1..rktp_msgid :
      LET reqs == {rq \in Outstanding : m \in rq.msgs} IN
      1 = Cardinality(reqs) + Cardinality({q \in {1} : m \in msgq})
            + Cardinality({q \in {1} : m \in xmit_msgq})
            + Cardinality({q \in {1} : report[m] # "none"})

Written(m) == \E i \in DOMAIN log : log[i].msgid = m

(* Within an epoch the log holds the messages in the order in which they   *)
(* were produced, each once, however often their batch was sent again:     *)
(* INTRODUCTION.md's "Ordering" and "Exactly-once", for one epoch.         *)
EpochInOrder ==
    \A i, j \in DOMAIN log :
      i < j /\ log[i].epoch = log[j].epoch => log[i].msgid < log[j].msgid

(* Over all epochs a message is written for the first time only after the  *)
(* messages before it that are written at all: "Ordering - a series of     *)
(* messages are written to the log in the order they were produced."       *)
FirstWritesInOrder ==
    \A i, j \in DOMAIN log :
      i < j /\ log[j].msgid < log[i].msgid => \E k \in 1..(i - 1) : log[k].msgid = log[j].msgid

(* What INTRODUCTION.md documents of rd_kafka_message_status(): a message  *)
(* reported as persisted, by its own response, a DUPLICATE error or an     *)
(* implicit ack, was written, and one reported as not persisted was not,   *)
(* and will not be by a late request.                                      *)
StatusDocumented ==
    \A m \in 1..rktp_msgid :
      /\ report[m] = "ok" => status[m] = "persisted" /\ Written(m)
      /\ report[m] # "none" /\ status[m] = "not" =>
           /\ ~ Written(m)
           /\ \A b \in Brokers : \A rq \in Range(net[b]) \cup Range(zombies[b]) : m \notin rq.msgs

(* The delivery reports tell the truth while the partition keeps its       *)
(* leader and only its own errors start drains.                            *)
StatusTruthful == Steady => StatusDocumented

(* A batch is sent again with the messages it had: last_msgid of the first *)
(* message of a request is its last message once it is set (the assertion  *)
(* of rd_kafka_handle_idempotent_Produce_error()), and the set is always   *)
(* reconstructed (rd_kafka_msgset_writer_write_msgq()).                    *)
BatchesIntact ==
    /\ \A rq \in Outstanding : last_msgid[Min(rq.msgs)] \in {0, Max(rq.msgs)}
    /\ fatal # "reconstruct"

(* The requests of the partition whose callback has not run are from one   *)
(* epoch and are no more than the broker's de-duplication window, and a    *)
(* later one has later messages: under one leader a retry never overtakes  *)
(* what it follows, through timeouts, disconnects and purges.              *)
InflightAscending ==
    /\ Cardinality(Outstanding) <= Window
    /\ \A r1, r2 \in Outstanding :
         /\ r1.pid = r2.pid
         /\ r1.id < r2.id => Max(r1.msgs) < Min(r2.msgs)

(* The order of the log, INTRODUCTION.md's "Ordering": for the retries of  *)
(* one epoch always, through changes of leader, and over all epochs while  *)
(* the leader stays and no other partition starts a drain.                 *)
WritesInOrder == EpochInOrder /\ (Steady => FirstWritesInOrder)

(* No request succeeds at the sequence number at which an error was        *)
(* expected, for which rd_kafka_handle_idempotent_Produce_success() would  *)
(* raise a fatal error.                                                    *)
NoUnexpectedSuccess == fatal # "inconsistent"

(* Batches stay intact; and under one leader the requests in flight are in *)
(* order, within the broker's window, and none succeeds where              *)
(* rd_kafka_handle_idempotent_Produce_success() raises a fatal error.      *)
RequestsSound == BatchesIntact /\ (Steady => InflightAscending /\ NoUnexpectedSuccess)

=============================================================================
