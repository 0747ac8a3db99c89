----------------------------- MODULE ProduceApi -----------------------------
(***************************************************************************)
(* The producer's application interface: rd_kafka_produce(), producev() and *)
(* produce_batch() with the limits of rd_kafka_curr_msgs_add(), delivery    *)
(* reports, rd_kafka_poll(), rd_kafka_flush() and rd_kafka_purge()          *)
(* (rdkafka_msg.c, rdkafka_int.h, rdkafka.c, rdkafka_broker.c).             *)
(*                                                                          *)
(* Application threads run scripts of calls against the threads that own    *)
(* the partitions.  A message is an identifier with a stage; the order of   *)
(* messages within a partition is IdempotentProducer's subject.             *)
(*                                                                          *)
(* An uncommented definition just above another one is a faulty variant of  *)
(* it, under which one of the properties fails.                             *)
(***************************************************************************)
EXTENDS Integers, Sequences, FiniteSets, SequencesExt

CONSTANTS Plans,        \* the instances: limits, messages, topic, calls of the threads
          ThreadNames,  \* of all plans
          None, UA

VARIABLE s

Msgs(w) == DOMAIN w.plan.size
Threads(w) == DOMAIN w.plan.scripts
Call(w, t) == w.plan.scripts[t][w.th[t].i]
Brokers == {"leader", "internal"}

(***************************************************************************)
(* rk_curr_msgs                                                             *)
(***************************************************************************)
Full(w, size) == w.cnt + 1 > w.plan.maxcnt \/ w.bytes + size > w.plan.maxsize

CurrMsgsAdd(w, m) == [w EXCEPT !.cnt = @ + 1, !.bytes = @ + w.plan.size[m]]

CrossesAbove(w, size) ==
  \/ w.cnt > w.plan.maxcnt /\ w.cnt - 1 <= w.plan.maxcnt
  \/ w.bytes > w.plan.maxsize /\ w.bytes - size <= w.plan.maxsize

(* Waiters are woken when a limit is passed on the way down.                 *)
Crosses(w, size) ==
  \/ w.cnt >= w.plan.maxcnt /\ w.cnt - 1 < w.plan.maxcnt
  \/ w.bytes >= w.plan.maxsize /\ w.bytes - size < w.plan.maxsize
(* A thread that gave up the topic's lock to wait has to take it again.      *)
Multiple(w, t) == Call(w, t).call = "batch" /\ Call(w, t).perpart
Waked(w) ==
  FoldLeft(LAMBDA v, t : [v EXCEPT !.th[t].st = IF @ # "wait" THEN @
                                                ELSE IF Multiple(w, t) THEN "woken" ELSE "add"],
           w, SetToSeq(Threads(w)))
CurrMsgsSub(w, size) ==
  LET w1 == IF Crosses(w, size) THEN Waked(w) ELSE w
  IN [w1 EXCEPT !.cnt = @ - 1, !.bytes = @ - size]

(* The mutex of rk_curr_msgs is held by a thread that was woken and waits    *)
(* for the topic's lock.                                                     *)
MutexFree(w) == \A t \in Threads(w) : w.th[t].st # "relock"

(* rd_kafka_msg_destroy()                                                    *)
MsgDestroy(w, m) == [CurrMsgsSub(w, w.plan.size[m]) EXCEPT !.st[m] = "gone"]

(* The interceptors see every counted message once more when it is done.     *)
OnAcknowledgement(w, m) == [w EXCEPT !.acked[m] = @ + 1]

(***************************************************************************)
(* Delivery reports                                                         *)
(***************************************************************************)
(* rd_kafka_dr_msgq(): one op with all the messages, or none wanted.         *)
DrMsgq(w, ms, err) ==
  LET w1 == FoldLeft(LAMBDA v, m : [OnAcknowledgement(v, m) EXCEPT !.err[m] = err], w, ms)
  IN IF ms = <<>> THEN w
     ELSE IF w.plan.dr /\ (~w.plan.erronly \/ err # "none")
     THEN [FoldLeft(LAMBDA v, m : [v EXCEPT !.st[m] = "dr"], w1, ms)
             EXCEPT !.rep = Append(@, ms)]
     ELSE FoldLeft(MsgDestroy, w1, ms)

(* rd_kafka_poll_cb(): the callback, then the message is destroyed.          *)
Report(w, t) ==
  LET m == Head(Head(w.th[t].loc))
      rest == Tail(Head(w.th[t].loc))
      w1 == MsgDestroy([w EXCEPT !.reported[m] = @ + 1], m)
  IN [w1 EXCEPT !.th[t].loc = IF rest = <<>> THEN Tail(@) ELSE <<rest>> \o Tail(@)]

(***************************************************************************)
(* Producing                                                                *)
(***************************************************************************)
Done(w, t, m, err) == [w EXCEPT !.ret[m] = err, !.th[t].todo = Tail(@), !.th[t].st = "add"]

AllErr(w, t, ms, err) ==
  [FoldLeft(LAMBDA v, m : [v EXCEPT !.ret[m] = err], w, ms)
     EXCEPT !.th[t].todo = <<>>, !.th[t].st = "add"]

(* rd_kafka_msg_new0(): size and limits, then counted.  A batch gives the    *)
(* rest of its messages the error of a full queue.                           *)
MsgNew0(w, t) ==
  LET m == Head(w.th[t].todo)
  IN IF w.plan.size[m] > w.plan.maxmsg THEN Done(w, t, m, "too_large")
     ELSE IF ~Full(w, w.plan.size[m])
     THEN [CurrMsgsAdd(w, m) EXCEPT !.sent[m] = @ + 1, !.st[m] = "counted", !.th[t].st = "part"]
     ELSE IF Call(w, t).block THEN [w EXCEPT !.th[t].st = "wait"]
     ELSE IF Call(w, t).call = "batch" THEN AllErr(w, t, w.th[t].todo, "queue_full")
     ELSE Done(w, t, m, "queue_full")

(* rd_kafka_toppar_enq_msg(), on the topic's UA partition while nothing is   *)
(* known of the topic                                                        *)
EnqMsg(w, m, p) == [w EXCEPT !.st[m] = IF p = UA THEN "ua" ELSE "queued", !.part[m] = p]

(* rd_kafka_toppar_get_avail()                                               *)
GetAvail(w, p) ==
  CASE w.topic = "unknown" -> [p |-> UA, err |-> "none"]
    [] w.topic = "notexists" -> [p |-> None, err |-> "unknown_topic"]
    [] w.topic = "exists" /\ p \notin w.plan.parts -> [p |-> None, err |-> "unknown_partition"]
    [] OTHER -> [p |-> p, err |-> "none"]

TakenBack(w, t, m, err) == Done(MsgDestroy(OnAcknowledgement(w, m), m), t, m, err)

(* rd_kafka_msg_partitioner(): the application's partition or the hash's     *)
MsgPartitioner(w, m) ==
  IF w.topic = "exists" /\ ~w.plan.to[m].app
  THEN [p |-> w.plan.to[m].p, err |-> "none"] ELSE GetAvail(w, w.plan.to[m].p)

(* rd_kafka_msg_new(), rd_kafka_producev(): a message that cannot be given a *)
(* partition is taken back.                                                  *)
MsgEnq(w, t, m, a) ==
  IF a.err = "none" THEN Done(EnqMsg(w, m, a.p), t, m, "none") ELSE TakenBack(w, t, m, a.err)

(* rd_kafka_produce_batch(): a message whose own partition cannot be found   *)
(* is left behind, counted.                                                  *)
BatchEnq(w, t, m, a) ==
  IF a.err # "none" /\ Multiple(w, t) /\ w.plan.to[m].app
  THEN Done([w EXCEPT !.st[m] = "left"], t, m, a.err)
  ELSE MsgEnq(w, t, m, a)

(* The batch holds the topic's lock, while it waits only with one partition  *)
(* for all (RD_KAFKA_MSG_F_RKT_RDLOCKED).  The lock is held for writing      *)
(* while messages of a topic that became known fail.                         *)
RdLocked(w) ==
  \E t \in Threads(w) :
    /\ w.th[t].st \in {"add", "part", "wait"} /\ Call(w, t).call = "batch"
    /\ w.th[t].st = "wait" => ~Multiple(w, t)
WrLocked(w) == w.failing # <<>>

(***************************************************************************)
(* Flush and purge                                                          *)
(***************************************************************************)
(* rd_kafka_poll(): everything queued is taken to a local queue.             *)
TakeReports(w, t) == [w EXCEPT !.th[t].loc = w.rep, !.rep = <<>>, !.th[t].st = "serve"]

Queued(w, b) == {m \in Msgs(w) : w.st[m] = "queued" /\ w.deleg[w.part[m]] = b}
Requests(w, b, st) == {m \in Msgs(w) : w.st[m] = st /\ b = "leader"}

(* rd_kafka_toppar_handle_purge_queues()                                     *)
PurgeToppars(w, b) == DrMsgq(w, SetToSortSeq(Queued(w, b), <), "purge_queue")

(* rd_kafka_broker_handle_purge_queues(), with its reply                     *)
HandlePurge(w, b, flags) ==
  LET w1 == IF "inflight" \in flags
            THEN DrMsgq(w, SetToSortSeq(Requests(w, b, "inflight"), <), "purge_inflight") ELSE w
      w2 == DrMsgq(w1, SetToSortSeq(Requests(w1, b, "outbuf"), <), "purge_queue")
  IN IF "queue" \in flags THEN PurgeToppars(w2, b) ELSE w1

(* rd_kafka_purge_ua_toppar_queues()                                         *)
PurgeUa(w) == DrMsgq(w, SetToSortSeq({m \in Msgs(w) : w.st[m] = "ua"}, <), "purge_queue")

(***************************************************************************)
(* Application threads                                                      *)
(***************************************************************************)
AtCall(t, call) == s.th[t].st = "call" /\ s.th[t].i <= Len(s.plan.scripts[t]) /\ Call(s, t).call = call
Return(w, t) == [w EXCEPT !.th[t].st = "call", !.th[t].i = @ + 1, !.th[t].loc = <<>>]
In(t, call, st) == s.th[t].st = st /\ Call(s, t).call = call

Produce(t) ==
  /\ AtCall(t, "produce")
  /\ s' = IF s.fatal THEN AllErr(s, t, Call(s, t).ms, "fatal")
          ELSE [s EXCEPT !.th[t].st = "add", !.th[t].todo = Call(s, t).ms]
ProduceBatch(t) ==
  /\ AtCall(t, "batch") /\ ~WrLocked(s)
  /\ LET ms == Call(s, t).ms
         a  == GetAvail(s, s.plan.to[ms[1]].p)
     IN s' = IF s.fatal THEN AllErr(s, t, ms, "fatal")
             ELSE IF ~Multiple(s, t) /\ a.err # "none" THEN AllErr(s, t, ms, a.err)
             ELSE [s EXCEPT !.th[t].st = "add", !.th[t].todo = ms]
MsgNew(t) ==
  \/ s.th[t].st = "add" /\ s.th[t].todo = <<>> /\ s' = Return(s, t)
  \/ s.th[t].st = "add" /\ s.th[t].todo # <<>> /\ MutexFree(s) /\ s' = MsgNew0(s, t)
(* A woken thread has the mutex when it takes the topic's lock again.        *)
Relock(t) ==
  \/ s.th[t].st = "woken" /\ MutexFree(s) /\ s' = [s EXCEPT !.th[t].st = "relock"]
  \/ s.th[t].st = "relock" /\ ~WrLocked(s) /\ s' = MsgNew0(s, t)
MsgAssign(t) ==
  /\ s.th[t].st = "part" /\ ~WrLocked(s) /\ MutexFree(s)
  /\ LET m == Head(s.th[t].todo)
     IN s' = IF Call(s, t).call = "batch" THEN BatchEnq(s, t, m, MsgPartitioner(s, m))
             ELSE MsgEnq(s, t, m, MsgPartitioner(s, m))

Poll(t) == AtCall(t, "poll") /\ s.rep # <<>> /\ s' = TakeReports(s, t)
(* a message produced before the flush or the purge began                    *)
Before(w) == {m \in Msgs(w) : w.ret[m] = "none"}
Flush(t) ==
  /\ AtCall(t, "flush")
  /\ s' = [TakeReports(s, t) EXCEPT !.th[t].before = Before(s)]
ServeReport(t) ==
  /\ s.th[t].st = "serve" /\ MutexFree(s)
  /\ s' = IF s.th[t].loc # <<>> THEN Report(s, t)
          ELSE IF Call(s, t).call = "flush" THEN [s EXCEPT !.th[t].st = "check"]
          ELSE [s EXCEPT !.th[t].st = "call"]
(* The length of the queue is looked at first, the count after it.           *)
FlushCheck(t) ==
  /\ In(t, "flush", "check") /\ MutexFree(s)
  /\ s' = IF s.rep # <<>> THEN TakeReports(s, t) ELSE [s EXCEPT !.th[t].st = "count"]
FlushCountReports(t) ==
  /\ In(t, "flush", "count") /\ MutexFree(s)
  /\ s' = IF s.rep = <<>> THEN Return([s EXCEPT !.flushed = s.th[t].before], t)
          ELSE [s EXCEPT !.th[t].st = "check"]

FlushCount(t) ==
  /\ In(t, "flush", "count") /\ MutexFree(s)
  /\ s' = IF s.cnt = 0 THEN Return([s EXCEPT !.flushed = s.th[t].before], t)
          ELSE [s EXCEPT !.th[t].st = "check"]
CanTimeOut(t) ==
  /\ t \in Threads(s) /\ s.th[t].st \in {"check", "count"} /\ Call(s, t).timed /\ MutexFree(s)
  /\ s.rep # <<>> \/ s.cnt > 0
FlushTimeout(t) == CanTimeOut(t) /\ s' = Return(s, t)

PurgeCall(t) ==
  /\ AtCall(t, "purge")
  /\ s' = [s EXCEPT !.purge = [b \in Brokers |-> Call(s, t).flags], !.th[t].st = "replies",
                    !.th[t].before = Before(s), !.moved = FALSE]
PurgeReplies(t) ==
  /\ In(t, "purge", "replies") /\ \A b \in Brokers : s.purge[b] = {}
  /\ ~WrLocked(s) /\ MutexFree(s)
  /\ s' = LET w == IF "queue" \in Call(s, t).flags THEN PurgeUa(s) ELSE s
          IN Return([w EXCEPT !.purged = IF Call(s, t).flags = {"queue", "inflight"} /\ ~s.moved
                                         THEN s.th[t].before ELSE {}], t)

(***************************************************************************)
(* The threads that own the partitions, and metadata                        *)
(***************************************************************************)
BrokerPurge(b) ==
  /\ s.purge[b] # {} /\ MutexFree(s)
  /\ s' = [HandlePurge(s, b, s.purge[b]) EXCEPT !.purge[b] = {}]
Staged(w, ms, st) ==
  FoldLeft(LAMBDA v, m : [v EXCEPT !.st[m] = st], w, SetToSeq(ms))
ProduceRequest == Queued(s, "leader") # {} /\ s' = Staged(s, Queued(s, "leader"), "outbuf")
Send ==
  /\ Requests(s, "leader", "outbuf") # {}
  /\ s' = Staged(s, Requests(s, "leader", "outbuf"), "inflight")
ProduceResponse(err) ==
  /\ Requests(s, "leader", "inflight") # {} /\ MutexFree(s)
  /\ s' = DrMsgq(s, SetToSortSeq(Requests(s, "leader", "inflight"), <), err)

(* rd_kafka_topic_assign_uas() when the topic becomes known: messages that    *)
(* nobody wants to hear of are destroyed one by one.                         *)
UaErr(w) == IF w.topic = "exists" THEN "unknown_partition" ELSE "unknown_topic"
AssignUas(w) ==
  LET ua   == {m \in Msgs(w) : w.st[m] = "ua"}
      ok   == {m \in ua : MsgPartitioner(w, m).err = "none"}
      w1   == FoldLeft(LAMBDA v, m : EnqMsg(v, m, MsgPartitioner(v, m).p), w, SetToSeq(ok))
      bad  == SetToSortSeq(ua \ ok, <)
  IN IF w.plan.dr THEN DrMsgq(w1, bad, UaErr(w)) ELSE [w1 EXCEPT !.failing = bad]
TopicKnown ==
  /\ s.topic = "unknown" /\ s.plan.becomes # "unknown" /\ ~RdLocked(s)
  /\ s' = AssignUas([s EXCEPT !.topic = s.plan.becomes, !.moved = TRUE])

FailUa ==
  /\ WrLocked(s) /\ MutexFree(s)
  /\ s' = DrMsgq([s EXCEPT !.failing = Tail(@)], <<Head(s.failing)>>, UaErr(s))

(* A partition gets its leader: it moves from the internal broker.           *)
Delegate(p) ==
  /\ s.deleg[p] = "internal" /\ ~WrLocked(s)
  /\ s' = [s EXCEPT !.deleg[p] = "leader", !.moved = TRUE]

SetFatal == s.plan.fatal /\ ~s.fatal /\ s' = [s EXCEPT !.fatal = TRUE]

Initial(p) ==
  LET ms == DOMAIN p.size
  IN [mod |-> "ProduceApi", plan |-> p, cnt |-> 0, bytes |-> 0, topic |-> p.topic, fatal |-> FALSE, moved |-> FALSE,
      deleg |-> [x \in p.parts |-> IF x \in p.leaderless THEN "internal" ELSE "leader"],
      purge |-> [b \in Brokers |-> {}], rep |-> <<>>, failing |-> <<>>, flushed |-> {}, purged |-> {},
      st |-> [m \in ms |-> "new"], part |-> [m \in ms |-> None], err |-> [m \in ms |-> "none"],
      ret |-> [m \in ms |-> "pending"], sent |-> [m \in ms |-> 0], acked |-> [m \in ms |-> 0],
      reported |-> [m \in ms |-> 0],
      th |-> [t \in DOMAIN p.scripts |-> [i |-> 1, st |-> "call", todo |-> <<>>, loc |-> <<>>,
                                          before |-> {}]]]
Init == \E p \in Plans : s = Initial(p)

AppStep(t) ==
  \/ Produce(t) \/ ProduceBatch(t) \/ MsgNew(t) \/ Relock(t) \/ MsgAssign(t)
  \/ Poll(t) \/ Flush(t) \/ ServeReport(t) \/ FlushCheck(t) \/ FlushCount(t)
  \/ PurgeCall(t) \/ PurgeReplies(t)
LibStep ==
  \/ \E b \in Brokers : BrokerPurge(b)
  \/ ProduceRequest \/ Send \/ ProduceResponse("none")
  \/ TopicKnown \/ FailUa \/ \E p \in s.plan.parts : Delegate(p)
Next ==
  \/ \E t \in Threads(s) : AppStep(t)
  \/ LibStep
  \/ \E t \in Threads(s) : FlushTimeout(t)
  \/ s.plan.fails /\ ProduceResponse("failed")
  \/ SetFatal

\* The state is one of this module: a run may check instances of several.
Here == s.mod = "ProduceApi"

\* What a thread of the application, or of the library, has to do.
CanStep(t) ==
  /\ t \in Threads(s)
  /\ LET st == s.th[t].st IN
     \/ /\ st = "call" /\ s.th[t].i <= Len(s.plan.scripts[t])
        /\ Call(s, t).call = "poll" => s.rep # <<>>
        /\ Call(s, t).call = "batch" => ~WrLocked(s)
     \/ st = "add" /\ s.th[t].todo = <<>>
     \/ st \in {"add", "woken", "serve", "check", "count"} /\ MutexFree(s)
     \/ st = "relock" /\ ~WrLocked(s)
     \/ st = "part" /\ ~WrLocked(s) /\ MutexFree(s)
     \/ st = "replies" /\ (\A b \in Brokers : s.purge[b] = {}) /\ ~WrLocked(s) /\ MutexFree(s)

CanLib ==
  \/ (\E b \in Brokers : s.purge[b] # {}) /\ MutexFree(s)
  \/ Queued(s, "leader") # {}
  \/ Requests(s, "leader", "outbuf") # {}
  \/ Requests(s, "leader", "inflight") # {} /\ MutexFree(s)
  \/ s.topic = "unknown" /\ s.plan.becomes # "unknown" /\ ~RdLocked(s)
  \/ WrLocked(s) /\ MutexFree(s)
  \/ (\E p \in s.plan.parts : s.deleg[p] = "internal") /\ ~WrLocked(s)

\* Threads run while they can, and timeouts end; the library's threads send what
\* is queued, are answered, and learn the topic and its leaders unless the topic
\* stays locked.
Fairness ==
  /\ \A t \in ThreadNames :
       /\ []<>~(Here /\ CanStep(t)) \/ []<><<Here /\ t \in Threads(s) /\ AppStep(t)>>_s
       /\ []<>~(Here /\ CanTimeOut(t)) \/ []<><<Here /\ FlushTimeout(t)>>_s
  /\ []<>~(Here /\ CanLib) \/ []<><<Here /\ LibStep>>_s

Spec == Init /\ [][Next]_s /\ Fairness

(***************************************************************************)
(* Properties                                                               *)
(***************************************************************************)
InUse == {"counted", "ua", "queued", "outbuf", "inflight", "dr", "left"}

(* rk_curr_msgs counts exactly the messages that produce() took and that are *)
(* not destroyed, within its limits.  A message that a batch left behind     *)
(* (rdkafka_msg.c:558) is never destroyed, and stays counted.                *)
Accounted ==
  LET used == {m \in Msgs(s) : s.st[m] \in InUse}
  IN /\ s.cnt = Cardinality(used)
     /\ s.bytes = FoldLeft(LAMBDA n, m : n + s.plan.size[m], 0, SetToSeq(used))
     /\ s.cnt <= s.plan.maxcnt /\ s.bytes <= s.plan.maxsize

(* Interceptors see every message in and out once; an accepted message is    *)
(* reported once, when reports are wanted, and a refused one never.  The     *)
(* message a batch leaves behind, refused for its own partition, is the only *)
(* one that interceptors never see out.                                      *)
ReportedOnce ==
  \A m \in Msgs(s) :
    /\ s.acked[m] <= s.sent[m] /\ s.sent[m] <= 1
    /\ s.reported[m] <= 1 /\ (s.reported[m] = 1 => s.acked[m] = 1)
    /\ s.ret[m] \notin {"none", "pending"} => s.reported[m] = 0 /\ s.st[m] \in {"new", "gone", "left"}
    /\ s.st[m] = "left" => s.plan.to[m].app /\ s.ret[m] \in {"unknown_partition", "unknown_topic"}
    /\ s.st[m] = "gone" => s.acked[m] = 1
    /\ s.st[m] = "gone" /\ s.ret[m] = "none" /\ s.plan.dr /\ (s.plan.erronly => s.err[m] # "none")
         => s.reported[m] = 1

(* A flush() that succeeds leaves no earlier message unreported.             *)
FlushComplete == \A m \in s.flushed : s.st[m] = "gone"

(* A blocking purge() of queues and requests in flight leaves no earlier     *)
(* message with the library, unless partitions changed hands meanwhile.      *)
PurgeComplete == \A m \in s.purged : s.st[m] \in {"dr", "gone"}

ProduceSafe == Accounted /\ ReportedOnce /\ FlushComplete /\ PurgeComplete

Ended(t) == s.th[t].i > Len(s.plan.scripts[t]) \/ (s.th[t].st = "call" /\ Call(s, t).call = "poll")

\* A single-partition batch waits on a topic nothing is known of, and metadata
\* waits for its lock (rdkafka_msg.c:495).
LockedOut ==
  s.topic = "unknown" /\ \E t \in Threads(s) : s.th[t].st = "wait" /\ Call(s, t).call = "batch" /\ ~Multiple(s, t)

\* Messages that stay where they are: left behind, or of a topic locked out.
Stranded == {m \in Msgs(s) : s.st[m] = "left" \/ (s.st[m] = "ua" /\ LockedOut)}
OnlyStranded == Stranded # {} /\ s.cnt = Cardinality(Stranded)

\* The topic's lock is waited for with the mutex, by a thread that the holder
\* of the lock woke and whose mutex it needs next (rdkafka_int.h:407).
Deadlocked == WrLocked(s) /\ ~MutexFree(s)

\* A thread waits though there is room: bytes came free without the limit being
\* passed, and nobody was woken (rdkafka_int.h:440).
Forgotten(t) == s.th[t].st = "wait" /\ ~Full(s, s.plan.size[Head(s.th[t].todo)])

\* A call that waits for room or for the end of all messages.
Waits(t) == s.th[t].st = "wait" \/ (s.th[t].st \in {"check", "count"} /\ ~Call(s, t).timed)

(* Every produce call returns, flush() and purge() too, as the library's     *)
(* threads and the application's poller keep going, but in four cases, each  *)
(* of which a plan leads to: a thread is forgotten when room is made; all    *)
(* that is counted was left behind by a batch, or is of a topic that a batch *)
(* keeps locked while it waits; the lock and the mutex are waited for in     *)
(* turns.                                                                    *)
CallsReturn ==
  \A t \in ThreadNames :
    []<>(Here /\ t \in Threads(s) =>
           Ended(t) \/ Forgotten(t) \/ (Waits(t) /\ OnlyStranded) \/ Deadlocked)
==============================================================================
