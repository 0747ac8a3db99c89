--------------------------- MODULE TopicMetadata ---------------------------
(***************************************************************************)
(* What a client knows of its topics, and what it does with messages and   *)
(* partitions it knows nothing of yet (rdkafka_topic.c,                    *)
(* rdkafka_metadata.c, rdkafka_metadata_cache.c, the partition lists of    *)
(* rdkafka_partition.c and the enqueueing half of rdkafka_msg.c).          *)
(*                                                                         *)
(* The application creates a topic object and produces to it, or asks for  *)
(* partitions of it.  Until metadata says otherwise the topic is UNKNOWN   *)
(* and its messages sit in the queue of the unassigned partition, rkt_ua.  *)
(* Metadata requests are sent on creation, by the 1 s scan, by the leader  *)
(* query timer and by the periodic refresh; they are lost, answered late,  *)
(* and answered from a cluster that changes.  Each answer updates the      *)
(* topic objects, the partitions' leaders and the cache, whose entries     *)
(* expire by a timer of their own.                                         *)
(*                                                                         *)
(* One record s is the whole state; an operator named after a function of  *)
(* the code maps a state to the state that function leaves.  A message is  *)
(* its number: the application produces 1, 2, ... in order.  Time is       *)
(* abstracted: a timer that runs may fire at any step, and an entry of the *)
(* cache may expire at any step.                                           *)
(*                                                                         *)
(* An uncommented definition just above another one is a faulty variant of *)
(* it, under which one of the properties fails.                            *)
(***************************************************************************)
EXTENDS Integers, FiniteSets, SequencesExt

CONSTANTS
  Topics,      \* topic names
  None,        \* NULL
  Plans,       \* what the application does and what it meets: type, handles, msgs,
               \* want, query, tmo, wild, app; what the cluster says of a topic in
               \* turn (clusters), and the bounds: changes of the cluster (changes),
               \* requests and connections lost (lost), requests in flight (slots)
  Slots,       \* all slots for requests
  Ids          \* partition numbers

VARIABLE s

Internal == "internal"     \* the internal broker: the leader of the leaderless
Order == SetToSeq(Topics)  \* the order in which answers list topics

Indices(q) == [i \in 1 .. Len(q) |-> i]

(***************************************************************************)
(* The cache: entries in the order of the expiry list, at most one a topic *)
(* (the AVL tree).  "hint" is an entry that waits for an answer            *)
(* (ERR__WAIT_CACHE); due: its ts_expires has passed.                      *)
(***************************************************************************)
CacheFind(w, t, valid) ==
  \E i \in DOMAIN w.cache : w.cache[i].t = t /\ (valid => ~ w.cache[i].hint)

CacheEntry(w, t) == SelectSeq(w.cache, LAMBDA e : e.t = t)[1]

CacheDelete(w, t) == [w EXCEPT !.cache = SelectSeq(@, LAMBDA e : e.t # t)]

CacheInsert(w, t, hint, md) ==
  [w EXCEPT !.cache = Append(SelectSeq(@, LAMBDA e : e.t # t),
                             [t |-> t, hint |-> hint, err |-> md.err,
                              parts |-> md.parts, due |-> FALSE])]

CacheExpiryStart(w) == [w EXCEPT !.xt = @ \/ w.cache # <<>>]

\* Evict the expired entries at the head, then restart or stop the timer.
CacheEvict(w) ==
  LET live == {i \in DOMAIN w.cache : ~ w.cache[i].due}
      from == IF live = {} THEN Len(w.cache) + 1
              ELSE CHOOSE i \in live : \A j \in live : i <= j
  IN  [w EXCEPT !.cache = SubSeq(@, from, Len(@)), !.xt = live # {}]

CacheTopicUpdate(w, t, md) ==
  IF md.err = "" THEN CacheInsert(w, t, FALSE, md)
  ELSE IF CacheFind(w, t, TRUE) THEN CacheDelete(w, t) ELSE w

\* A full answer replaces the cache.
CacheUpdate(w, listed, md) ==
  CacheExpiryStart(
    FoldLeft(LAMBDA v, t : IF t \in listed THEN CacheInsert(v, t, FALSE, md[t]) ELSE v,
             [w EXCEPT !.cache = <<>>, !.xt = FALSE], Order))

CachePurgeHints(w, ts) ==
  [w EXCEPT !.cache = SelectSeq(@, LAMBDA e : ~ (e.t \in ts /\ e.hint))]

\* Hints for the topics that have no entry; those are the topics to ask for.
CacheHint(w, ts) ==
  FoldLeft(LAMBDA v, t : CacheInsert(v, t, TRUE, [err |-> "", parts |-> <<>>]),
           w, SelectSeq(Order, LAMBDA t : t \in ts /\ ~ CacheFind(w, t, FALSE)))

(***************************************************************************)
(* Partitions.                                                             *)
(***************************************************************************)
TopparNew(t, p) ==
  [t |-> t, id |-> p, lead |-> None, next |-> None,
   desired |-> FALSE, unknown |-> TRUE, remove |-> FALSE,
   told |-> FALSE, q |-> <<>>, last |-> 0]

\* Migration is asynchronous: Leave and Join below carry it out.
TopparBrokerMigrate(tp, rkb) == [tp EXCEPT !.next = rkb]

TopparBrokerDelegate(tp, rkb) ==
  LET b == IF rkb = None THEN Internal ELSE rkb
  IN  IF tp.lead = b /\ tp.next = None THEN tp ELSE TopparBrokerMigrate(tp, b)

TopparLeaderUpdateOnce(tp, rkb) == IF tp.lead # None THEN tp ELSE TopparBrokerDelegate(tp, rkb)

TopparLeaderUpdate(tp, rkb) ==
  IF rkb # None /\ tp.lead = rkb THEN tp ELSE TopparBrokerDelegate(tp, rkb)

\* Whether rd_kafka_toppar_leader_update() says that something changed.
LeaderUpdated(tp, rkb) == IF rkb = None THEN tp.lead # None ELSE tp.lead # rkb

LeaveForRemove(w, tp) ==
  [w EXCEPT !.leaving = Append(@, [tp EXCEPT !.remove = TRUE])]

DesiredGet(w, t, p) == SelectSeq(w.rkt[t].desp, LAMBDA tp : tp.id = p)

DesiredUnlink(w, t, p) ==
  [w EXCEPT !.rkt[t].desp = SelectSeq(@, LAMBDA tp : tp.id # p)]

DesiredLink(w, tp) == [w EXCEPT !.rkt[tp.t].desp = Append(@, tp)]

DesiredAdd(w, t, p) ==
  IF p < Len(w.rkt[t].p)
  THEN [w EXCEPT !.rkt[t].p[p + 1].desired = TRUE, !.rkt[t].p[p + 1].remove = FALSE]
  ELSE IF DesiredGet(w, t, p) # <<>> THEN w
  ELSE DesiredLink(w, [TopparNew(t, p) EXCEPT !.desired = TRUE])

DesiredDel(w, t, p) ==
  IF p < Len(w.rkt[t].p) THEN [w EXCEPT !.rkt[t].p[p + 1].desired = FALSE]
  ELSE LeaveForRemove(DesiredUnlink(w, t, p), [DesiredGet(w, t, p)[1] EXCEPT !.desired = FALSE])

\* An error op on the queue of the partition: the application is told.
EnqError(tp) == [tp EXCEPT !.told = TRUE]

(***************************************************************************)
(* Messages.  part is the partition the application asked for, -1 for the  *)
(* partitioner's choice, which here is the message's hash modulo the       *)
(* number of partitions.  dr[m] is what the delivery report of m says.     *)
(***************************************************************************)
UA == -1

DrMsg(w, m, err) == [w EXCEPT !.dr[m] = err]

EnqMsg(w, t, p, m) ==
  IF p = UA THEN [w EXCEPT !.rkt[t].ua = Append(@, m)]
  ELSE [w EXCEPT !.rkt[t].p[p + 1].q = Append(@, m)]

\* The partition rd_kafka_msg_partitioner() settles on; an error as a string.
Partition(w, m) ==
  LET msg == w.plan.msgs[m]
      cnt == Len(w.rkt[msg.t].p)
  IN  [p |-> IF w.rkt[msg.t].st = "unknown" \/ cnt = 0 THEN UA
             ELSE IF msg.part = UA THEN msg.hash % cnt ELSE msg.part,
       err |-> IF w.rkt[msg.t].st = "notexists" THEN "UNKNOWN_TOPIC"
               ELSE IF w.rkt[msg.t].st = "exists" /\ cnt > 0 /\ msg.part >= cnt
               THEN "UNKNOWN_PARTITION" ELSE ""]

\* The application's produce() fails at once; no delivery report follows.
MsgPartitioner(w, m) ==
  IF Partition(w, m).err = "" THEN EnqMsg(w, w.plan.msgs[m].t, Partition(w, m).p, m)
  ELSE DrMsg(w, m, "refused")

TopicAssignUas(w, t, err) ==
  FoldLeft(LAMBDA v, m :
             IF \/ /\ v.plan.msgs[m].part # UA
                   /\ v.plan.msgs[m].part >= Len(v.rkt[t].p)
                   /\ v.rkt[t].st # "unknown"
                \/ Partition(v, m).err # ""
             THEN DrMsg(v, m, IF v.rkt[t].st = "notexists" THEN err ELSE "UNKNOWN_PARTITION")
             ELSE EnqMsg(v, t, Partition(v, m).p, m),
           [w EXCEPT !.rkt[t].ua = <<>>], w.rkt[t].ua)

(***************************************************************************)
(* Topic objects.                                                          *)
(***************************************************************************)
\* One partition more: the desired one if there is one.
Grown(w, t, p) ==
  LET tp == IF DesiredGet(w, t, p) # <<>> THEN DesiredGet(w, t, p)[1] ELSE TopparNew(t, p)
  IN  [DesiredUnlink(w, t, p) EXCEPT
         !.rkt[t].p = Append(@, [tp EXCEPT !.unknown = FALSE, !.remove = FALSE,
                                                 !.told = FALSE])]

\* One partition less: it stays if it is desired, else it is removed.
Shrunk(w, tp) ==
  IF tp.desired
  THEN DesiredLink(w, TopparBrokerDelegate(EnqError([tp EXCEPT !.unknown = TRUE]), None))
  ELSE LeaveForRemove(w, [tp EXCEPT !.unknown = TRUE])

ErrDesired(w, t) ==
  FoldLeft(LAMBDA v, i : [v EXCEPT !.rkt[t].desp[i] = EnqError(@)], w, Indices(w.rkt[t].desp))

PartitionCntUpdate(w, t, cnt) ==
  LET old == w.rkt[t].p
      grown == FoldLeft(LAMBDA v, i : IF i > Len(old) THEN Grown(v, t, i - 1) ELSE v,
                        w, [i \in 1 .. cnt |-> i])
      kept == [ErrDesired(grown, t) EXCEPT
                 !.rkt[t].p = SubSeq(@, 1, cnt)]
  IN  IF Len(old) = cnt THEN w
      ELSE FoldLeft(Shrunk, kept, SubSeq(old, cnt + 1, Len(old)))

PropagateNotexists(w, t) ==
  IF w.plan.type = "consumer" THEN ErrDesired(w, t) ELSE w

TopicMetadataNone(w, t) ==
  PropagateNotexists(
    TopicAssignUas(
      PartitionCntUpdate([w EXCEPT !.rkt[t].st = "notexists", !.rkt[t].lu = FALSE], t, 0),
      t, "UNKNOWN_TOPIC"),
    t)

NextState(w, t, md) ==
  IF md.err = "UNKNOWN_TOPIC" THEN "notexists"
  ELSE IF md.parts # <<>> THEN "exists" ELSE w.rkt[t].st

\* The leaders of the answer, applied to the partitions the object has.
LeadersUpdate(w, t, md) ==
  FoldLeft(LAMBDA v, i : IF i \in DOMAIN md.parts
                         THEN [v EXCEPT !.rkt[t].p[i] = TopparLeaderUpdate(@, md.parts[i])] ELSE v,
           [w EXCEPT !.rkt[t].lu =
              @ /\ ~ (/\ md.parts # <<>>
                      /\ \A i \in DOMAIN md.parts : md.parts[i] # None /\ i \in DOMAIN w.rkt[t].p)],
           Indices(w.rkt[t].p))

Undelegated(w, t, md) ==
  FoldLeft(LAMBDA v, i : [v EXCEPT !.rkt[t].p[i] = TopparBrokerDelegate(@, None)],
           w, IF md.err = "" THEN <<>> ELSE Indices(w.rkt[t].p))

\* w is the state before the update, v the one with its partitions and leaders.
Reassigned(w, v, u, t, md) ==
  IF \/ u.rkt[t].st = "notexists"
     \/ md.err = "" /\ (Len(w.rkt[t].p) # Len(md.parts) \/ w.rkt[t].st = "unknown")
     \/ \E i \in DOMAIN md.parts :
           i \in DOMAIN v.rkt[t].p => LeaderUpdated(v.rkt[t].p[i], md.parts[i])
  THEN TopicAssignUas(u, t, IF md.err = "" THEN "UNKNOWN_TOPIC" ELSE md.err)
  ELSE u

Notified(w, u, t, md) ==
  IF w.rkt[t].st # "notexists" /\ u.rkt[t].st = "notexists"
  THEN PropagateNotexists(u, t) ELSE u

Recounted(w, t, md) ==
  IF md.err = "" THEN PartitionCntUpdate(w, t, Len(md.parts)) ELSE w

Updated(w, v, t, md) ==
  Notified(w, Reassigned(w, v, Undelegated(LeadersUpdate(v, t, md), t, md), t, md), t, md)

TopicMetadataUpdate(w, t, md) ==
  Updated(w, Recounted([w EXCEPT !.rkt[t].st = NextState(w, t, md)], t, md), t, md)

TopicMetadataUpdate2(w, t, md) ==
  IF w.rkt[t] = None THEN w ELSE TopicMetadataUpdate(w, t, md)

(***************************************************************************)
(* Metadata requests.  ts is the set of topics asked for; all: every       *)
(* topic; neither: the brokers only.  full names the counter of full       *)
(* requests that the request holds, app says that a call of                *)
(* rd_kafka_metadata() waits for it, ans is the answer once it is on its   *)
(* way.                                                                    *)
(***************************************************************************)
Free(w) == {i \in w.plan.slots : w.net[i] = None}

Room == Free(s) # {}

Put(w, req) == [w EXCEPT !.net[CHOOSE i \in Free(w) : \A j \in Free(w) : i <= j] = req]

\* ts = None asks for the brokers, ts = {} for every topic.  A full request is
\* not sent while another one of its kind is in flight, unless forced.
MetadataRequest(w, ts, app) ==
  LET full == IF ts = None THEN "brokers" ELSE IF ts = {} /\ ~ app THEN "topics" ELSE ""
      req  == [ts |-> IF ts = None THEN {} ELSE ts, all |-> ts = {}, full |-> full,
               app |-> app, ans |-> None]
  IN  IF full # "" /\ w.sent[full] > 0 THEN w
      ELSE Put(IF full = "" THEN w ELSE [w EXCEPT !.sent[full] = @ + 1], req)

\* The topics a request that is not forced asks for: those with no entry.
RefreshTopics(w, ts, force) ==
  IF ~ w.up THEN w
  ELSE IF force THEN MetadataRequest(w, ts, FALSE)
  ELSE IF \A t \in ts : CacheFind(w, t, FALSE) THEN w
  ELSE MetadataRequest(CacheHint(w, ts), {t \in ts : ~ CacheFind(w, t, FALSE)}, FALSE)

Local(w) == {t \in Topics : w.rkt[t] # None}

RefreshKnownTopics(w, force) ==
  IF Local(w) = {} THEN w ELSE RefreshTopics(w, Local(w), force)

RefreshBrokers(w) == IF w.up THEN MetadataRequest(w, None, FALSE) ELSE w

RefreshAll(w) == IF w.up THEN MetadataRequest(w, {}, FALSE) ELSE w

BufDestroyUncounted(w, i) == [w EXCEPT !.net[i] = None]

\* The buffer of a request is freed: its counter goes down.
BufDestroy(w, i) ==
  [w EXCEPT !.sent = [f \in DOMAIN @ |-> IF w.net[i].full = f THEN @[f] - 1 ELSE @[f]],
            !.net[i] = None]

(***************************************************************************)
(* Answers.  md is the cluster as the answering broker knew it.            *)
(***************************************************************************)
Listed(req, md) ==
  IF req.all THEN {t \in Topics : md[t].err \in {"", "LEADER_NOT_AVAILABLE"}}
  ELSE {t \in req.ts : md[t].err # "omitted"}

ParseTopic(w, req, t, md) ==
  IF md.err = "LEADER_NOT_AVAILABLE" /\ md.parts = <<>> THEN w
  ELSE IF req.all THEN TopicMetadataUpdate2(w, t, md)
  ELSE CacheTopicUpdate(TopicMetadataUpdate2(w, t, md), t, md)

ParseTopics(w, req, listed, md) ==
  FoldLeft(LAMBDA v, t : IF t \in listed THEN ParseTopic(v, req, t, md[t]) ELSE v, w, Order)

ParseMissing(w, missing) ==
  FoldLeft(LAMBDA v, t : IF t \in missing /\ v.rkt[t] # None
                         THEN TopicMetadataNone(v, t) ELSE v, w, Order)

ParseCache(w, req, listed, md) ==
  CachePurgeHints(IF req.all THEN CacheUpdate(w, listed, md) ELSE CacheExpiryStart(w), req.ts)

ParseMetadata(w, req, listed, md) ==
  ParseCache(ParseMissing(ParseTopics(w, req, listed, md), req.ts \ listed), req, listed, md)

AppReply(w, req) == IF req.app /\ w.app = "wait" THEN [w EXCEPT !.app = "ok"] ELSE w

(***************************************************************************)
(* The application.                                                        *)
(***************************************************************************)
\* rd_kafka_topic_new0(): a new object starts from the cache.
TopicNew0(w, t) ==
  LET new == [w EXCEPT !.rkt[t] = [st |-> "unknown", lu |-> FALSE, p |-> <<>>,
                                   desp |-> <<>>, ua |-> <<>>]]
  IN  IF w.rkt[t] # None THEN w
      ELSE IF CacheFind(w, t, TRUE) THEN TopicMetadataUpdate(new, t, CacheEntry(w, t))
      ELSE new

TopicNew(t) ==
  /\ s.rkt[t] = None /\ t \in s.plan.handles /\ Room
  /\ s' = IF CacheFind(s, t, TRUE) THEN TopicNew0(s, t)
          ELSE RefreshTopics(TopicNew0(s, t), {t}, FALSE)

Produce ==
  /\ s.nxt \in DOMAIN s.plan.msgs
  /\ s.rkt[s.plan.msgs[s.nxt].t] # None
  /\ s' = [MsgPartitioner(s, s.nxt) EXCEPT !.nxt = @ + 1]

\* rd_kafka_toppar_get2(): the application starts consuming a partition.
Want(t, p) ==
  /\ <<t, p>> \in s.plan.want
  /\ s' = [DesiredAdd(TopicNew0(s, t), t, p) EXCEPT !.plan.want = @ \ {<<t, p>>},
                                                    !.held = @ \cup {<<t, p>>}]

Unwant(t, p) ==
  /\ <<t, p>> \in s.held
  /\ s' = [DesiredDel(s, t, p) EXCEPT !.held = @ \ {<<t, p>>}]

\* rd_kafka_metadata(): a forced request and a wait for its answer.
AppMetadata ==
  /\ s.app = "call" /\ s.up /\ Room
  /\ \E ts \in {{}, Local(s)} :
        s' = [MetadataRequest(s, ts, TRUE) EXCEPT !.app = "wait"]

AppTimeout == s.app \in {"call", "wait"} /\ s' = [s EXCEPT !.app = "timedout"]

(***************************************************************************)
(* rd_kafka_topic_partition_list_query_leaders(): the leaders of a list of *)
(* partitions, from the cache, refreshing it until all are there.          *)
(***************************************************************************)
Leader(w, t, p) ==
  IF ~ CacheFind(w, t, TRUE) THEN "query"
  ELSE LET e == CacheEntry(w, t)
       IN  IF e.err \notin {"", "LEADER_NOT_AVAILABLE"} THEN "err"
           ELSE IF p >= Len(e.parts) THEN (IF e.parts = <<>> THEN "query" ELSE "err")
           ELSE IF e.parts[p + 1] = None THEN "query" ELSE e.parts[p + 1]

\* Every partition found is added to the list of its leader, again if it is there.
GetLeaders(w) ==
  LET found == {x \in w.plan.query : Leader(w, x[1], x[2]) \notin {"query", "err"}}
  IN  [w EXCEPT !.qry.found = @ \cup found, !.qry.dup = @ \/ found \cap w.qry.found # {}]

ToQuery(w) == {x[1] : x \in {y \in w.plan.query : Leader(w, y[1], y[2]) = "query"}}

QueryDone ==
  /\ s.qry.pc = "run" /\ ToQuery(s) = {}
  /\ s' = [GetLeaders(s) EXCEPT
             !.qry.pc = IF GetLeaders(s).qry.found = {} THEN "unknown" ELSE "ok"]

\* The query interval has passed since the last refresh.
QueryRefresh ==
  /\ s.qry.pc = "run" /\ ToQuery(s) # {} /\ Room
  /\ s' = RefreshTopics([GetLeaders(s) EXCEPT !.qry.pc = "sent"], ToQuery(s), TRUE)

\* It has not: wait for a change of the cache, at most for the interval.
QueryWait ==
  /\ s.qry.pc = "run" /\ ToQuery(s) # {}
  /\ s' = [GetLeaders(s) EXCEPT !.qry.pc = "wait"]

QueryWake == s.qry.pc \in {"sent", "wait"} /\ s' = [s EXCEPT !.qry.pc = "run"]

QueryTimeout ==
  /\ s.qry.pc \in {"sent", "wait"} /\ s.plan.tmo
  /\ s' = [s EXCEPT !.qry.pc = "timedout"]

(***************************************************************************)
(* Timers of the main thread.                                              *)
(***************************************************************************)
NeedsQuery(w, tp) == tp.lead \in {None, Internal} \/ ~ w.up

\* Messages up to number c are older than message.timeout.ms.
AgeScan(w, t, c) ==
  FoldLeft(LAMBDA v, m : IF m <= c THEN [DrMsg(v, m, "TIMED_OUT") EXCEPT !.rkt[t].ua = Tail(@)]
                         ELSE v, w, w.rkt[t].ua)

ScanTopic(w, t, c) ==
  IF CacheFind(w, t, TRUE) THEN AgeScan(w, t, c)
  ELSE AgeScan([w EXCEPT !.rkt[t].st = "unknown"], t, c)

ScanQuery(w) ==
  {t \in Local(w) : \/ w.rkt[t].st = "unknown" \/ ~ CacheFind(w, t, TRUE)
                    \/ w.rkt[t].p = <<>>
                    \/ \E i \in DOMAIN w.rkt[t].p : NeedsQuery(w, w.rkt[t].p[i])}

Scan ==
  /\ Room
  /\ \E c \in IF s.plan.tmo THEN 0 .. s.nxt - 1 ELSE {0} :
       LET v == FoldLeft(LAMBDA w, t : IF w.rkt[t] = None THEN w ELSE ScanTopic(w, t, c), s, Order)
       IN  s' = IF ScanQuery(s) = {} THEN v ELSE RefreshTopics(v, ScanQuery(s), TRUE)

ExpiryTmr == s.xt /\ s' = CacheEvict(s)

Leaderless(w) ==
  {t \in Local(w) : /\ w.rkt[t].st # "notexists"
                    /\ \/ w.rkt[t].lu \/ w.rkt[t].p = <<>>
                       \/ \E i \in DOMAIN w.rkt[t].p :
                             w.rkt[t].p[i].lead = None /\ w.rkt[t].p[i].next = None}

\* Backed off until the interval reaches the periodic refresh's.
QueryTmr ==
  /\ s.qt /\ Room
  /\ IF Leaderless(s) = {} THEN s' = [s EXCEPT !.qt = FALSE]
     ELSE \E on \in BOOLEAN : s' = [RefreshTopics(s, Leaderless(s), TRUE) EXCEPT !.qt = on]

AfterPeriodic == IF s.plan.wild THEN RefreshAll(s) ELSE RefreshKnownTopics(s, TRUE)

PeriodicTmr == Room /\ s' = AfterPeriodic

(***************************************************************************)
(* The brokers' threads: a partition leaves its broker and joins the next; *)
(* its leader takes messages, or says that it is not the leader.           *)
(***************************************************************************)
Migrated(tp) ==
  IF tp.lead # None THEN [tp EXCEPT !.lead = None]
  ELSE [tp EXCEPT !.lead = tp.next, !.next = None]

Migrate(t, p) ==
  /\ s.rkt[t] # None
  /\ \/ /\ p < Len(s.rkt[t].p) /\ s.rkt[t].p[p + 1].next # None
        /\ s' = [s EXCEPT !.rkt[t].p[p + 1] = Migrated(@)]
     \/ \E i \in DOMAIN s.rkt[t].desp :
           /\ s.rkt[t].desp[i].id = p /\ s.rkt[t].desp[i].next # None
           /\ s' = [s EXCEPT !.rkt[t].desp[i] = Migrated(@)]

TopparLeaderUnavailable(w, t) == [w EXCEPT !.rkt[t].lu = TRUE, !.qt = TRUE]

IsLeader(t, p) == p < Len(s.cl[t].parts) /\ s.cl[t].parts[p + 1] = s.rkt[t].p[p + 1].lead

Serve(t, p) ==
  /\ s.rkt[t] # None /\ s.up /\ p < Len(s.rkt[t].p)
  /\ LET tp == s.rkt[t].p[p + 1]
     IN  /\ tp.lead \notin {None, Internal}
         /\ \/ ~ IsLeader(t, p) /\ (tp.q # <<>> \/ tp.desired)
               /\ s' = TopparLeaderUnavailable(s, t)
            \/ IsLeader(t, p) /\ tp.q # <<>>
               /\ s' = [DrMsg(s, Head(tp.q), "ok") EXCEPT
                          !.rkt[t].p[p + 1].q = Tail(@), !.rkt[t].p[p + 1].last = Head(tp.q)]

\* A removed partition is gone: its messages fail.
TopparDestroyFinal ==
  /\ s.leaving # <<>>
  /\ s' = FoldLeft(LAMBDA w, m : DrMsg(w, m, "DESTROY"),
                   [s EXCEPT !.leaving = Tail(@)], Head(s.leaving).q)

(***************************************************************************)
(* Connections, requests and the cluster.                                  *)
(***************************************************************************)
BrokerConnectUp ==
  /\ ~ s.up /\ Room
  /\ LET v == [s EXCEPT !.up = TRUE]
     IN  s' = IF Local(s) = {} THEN RefreshBrokers(v) ELSE RefreshKnownTopics(v, FALSE)

BrokerDown == s.up /\ s.lost < s.plan.lost /\ s' = [s EXCEPT !.up = FALSE, !.lost = @ + 1]

Answer(i) ==
  /\ s.net[i] # None /\ s.net[i].ans = None /\ s.up
  /\ s' = [s EXCEPT !.net[i].ans = s.cl]

HandleMetadata(i) ==
  /\ s.net[i] # None /\ s.net[i].ans # None
  /\ LET r == s.net[i]
     IN  s' = BufDestroy(AppReply(ParseMetadata(s, r, Listed(r, r.ans), r.ans), r), i)

\* Lost or timed out, and out of retries; or the answer is an empty one, from a
\* broker that has only just started, which also takes the hints away.
HandleMetadataErr(i) ==
  /\ s.net[i] # None /\ s.net[i].ans = None
  /\ \/ ~ s.up /\ s' = BufDestroy(s, i)
     \/ /\ s.up /\ s.lost < s.plan.lost
        /\ \E w \in {s, CachePurgeHints(s, s.net[i].ts)} :
              s' = [BufDestroy(w, i) EXCEPT !.lost = @ + 1]

ClusterChange(t) ==
  /\ s.ch < s.plan.changes
  /\ \E c \in s.plan.clusters \ {s.cl[t]} : s' = [s EXCEPT !.cl[t] = c, !.ch = @ + 1]

Expire ==
  \E i \in DOMAIN s.cache :
     /\ ~ s.cache[i].due
     /\ \A j \in 1 .. i - 1 : s.cache[j].hint = s.cache[i].hint => s.cache[j].due
     /\ s' = [s EXCEPT !.cache[i].due = TRUE]

Init ==
  \E plan \in Plans : \E cl \in [Topics -> plan.clusters] :
     s = [mod |-> "TopicMetadata", plan |-> plan, cl |-> cl, ch |-> 0, up |-> FALSE, lost |-> 0,
          net |-> [i \in Slots |-> None], sent |-> [topics |-> 0, brokers |-> 0],
          cache |-> <<>>, xt |-> FALSE, qt |-> FALSE,
          rkt |-> [t \in Topics |-> None], leaving |-> <<>>,
          nxt |-> 1, dr |-> [m \in DOMAIN plan.msgs |-> ""], held |-> {},
          app |-> IF plan.app THEN "call" ELSE "none",
          qry |-> [pc |-> IF plan.query = {} THEN "none" ELSE "run",
                   found |-> {}, dup |-> FALSE]]

Next ==
  \/ \E t \in Topics : TopicNew(t) \/ ClusterChange(t)
  \/ \E t \in Topics, p \in Ids : Want(t, p) \/ Unwant(t, p) \/ Migrate(t, p) \/ Serve(t, p)
  \/ \E i \in Slots : Answer(i) \/ HandleMetadata(i) \/ HandleMetadataErr(i)
  \/ Produce \/ AppMetadata \/ AppTimeout
  \/ QueryDone \/ QueryRefresh \/ QueryWait \/ QueryWake \/ QueryTimeout
  \/ Scan \/ ExpiryTmr \/ QueryTmr \/ PeriodicTmr \/ Expire
  \/ TopparDestroyFinal \/ BrokerConnectUp \/ BrokerDown

(***************************************************************************)
(* Safety.                                                                 *)
(***************************************************************************)
\* A counter of full requests counts the full requests in flight: one that is
\* left behind would hold back every later refresh.
FullExact ==
  \A f \in {"topics", "brokers"} :
     s.sent[f] = Cardinality({i \in Slots : s.net[i] # None /\ s.net[i].full = f})

\* Where an accepted message waits.
Queues(m) ==
  {<<t, UA>> : t \in {u \in Local(s) : m \in Range(s.rkt[u].ua)}}
    \cup UNION {{<<t, i>> : i \in {j \in DOMAIN s.rkt[t].p : m \in Range(s.rkt[t].p[j].q)}} : t \in Local(s)}
    \cup {<<"leaving", i>> : i \in {j \in DOMAIN s.leaving : m \in Range(s.leaving[j].q)}}

\* An accepted message waits in one queue or has been reported, never both.
Conserved ==
  \A m \in DOMAIN s.dr :
     Cardinality(Queues(m)) = (IF m < s.nxt /\ s.dr[m] = "" THEN 1 ELSE 0)

\* No message waits for an assignment once the topic is known.
KnownNotUA ==
  \A t \in Local(s) : s.rkt[t].ua # <<>> => s.rkt[t].st = "unknown" \/ s.rkt[t].p = <<>>

\* Messages of a partition are taken in the order of the calls of produce(),
\* whatever detour they made through the unassigned queue.
InOrder ==
  \A t \in Local(s) : \A i \in DOMAIN s.rkt[t].p :
     LET q == <<s.rkt[t].p[i].last>> \o s.rkt[t].p[i].q
     IN  \A j \in 1 .. Len(q) - 1 : q[j] < q[j + 1]

\* A partition is in one of the two lists, which agree with its flags; one
\* that was known and vanished has been reported to the application.
ListsAgree ==
  \A t \in Local(s) :
     /\ \A i \in DOMAIN s.rkt[t].p :
           LET tp == s.rkt[t].p[i]
           IN  tp.id = i - 1 /\ ~ tp.unknown /\ ~ tp.remove
     /\ \A i \in DOMAIN s.rkt[t].desp :
           LET tp == s.rkt[t].desp[i]
           IN  /\ tp.id >= Len(s.rkt[t].p) /\ tp.unknown /\ tp.desired /\ ~ tp.remove
               /\ tp.next # None \/ tp.lead # None => tp.told
               /\ \A j \in DOMAIN s.rkt[t].desp : s.rkt[t].desp[j].id = tp.id => j = i
     /\ {<<t, p>> : p \in Ids} \cap s.held =
          {<<t, tp.id>> : tp \in {u \in Range(s.rkt[t].p) \cup Range(s.rkt[t].desp) : u.desired}}

\* Information that may be used has a timer that will throw it out.
ValidExpires == (\E i \in DOMAIN s.cache : ~ s.cache[i].hint) => s.xt

TopicSafe == FullExact /\ Conserved /\ KnownNotUA /\ InOrder /\ ListsAgree /\ ValidExpires

(***************************************************************************)
(* Liveness.  The main thread serves its queue and its timers, the         *)
(* brokers' threads theirs; connections come back and requests are         *)
(* answered (the losses are bounded); a query refreshes whenever its       *)
(* interval has passed, however often the cache wakes it up before, and    *)
(* looks at the cache again and again while what it looks for is there     *)
(* (an entry lives for three refresh intervals).                           *)
(***************************************************************************)
Moving(t, p) ==
  /\ s.rkt[t] # None
  /\ \E tp \in Range(s.rkt[t].p) \cup Range(s.rkt[t].desp) : tp.id = p /\ tp.next # None

Serving(t, p) ==
  /\ s.rkt[t] # None /\ s.up /\ p < Len(s.rkt[t].p)
  /\ s.rkt[t].p[p + 1].lead \notin {None, Internal}
  /\ \/ IsLeader(t, p) /\ s.rkt[t].p[p + 1].q # <<>>
     \/ /\ ~ IsLeader(t, p) /\ (s.rkt[t].p[p + 1].q # <<>> \/ s.rkt[t].p[p + 1].desired)
        /\ ~ (s.rkt[t].lu /\ s.qt)

\* The state is one of this module: a run may check instances of several.
Here == s.mod = "TopicMetadata"

Fairness ==
  /\ \A i \in Slots :
        /\ []<>~(Here /\ s.net[i] # None /\ s.net[i].ans = None /\ s.up) \/ []<><<Here /\ Answer(i)>>_s
        /\ []<>~(Here /\ s.net[i] # None /\ s.net[i].ans = None /\ ~ s.up) \/ []<><<Here /\ HandleMetadataErr(i)>>_s
        /\ []<>~(Here /\ s.net[i] # None /\ s.net[i].ans # None) \/ []<><<Here /\ HandleMetadata(i)>>_s
  /\ \A t \in Topics, p \in Ids :
        /\ []<>~(Here /\ Moving(t, p)) \/ []<><<Here /\ Migrate(t, p)>>_s
        /\ []<>~(Here /\ Serving(t, p)) \/ []<><<Here /\ Serve(t, p)>>_s
  /\ <>[]~(Here /\ s.up /\ Room /\ ScanQuery(s) # {}) \/ []<><<Here /\ Scan>>_s
  /\ <>[]~(Here /\ s.up /\ Room /\ AfterPeriodic # s) \/ []<><<Here /\ PeriodicTmr>>_s
  /\ []<>(Here => s.up \/ ~Room) \/ []<><<Here /\ BrokerConnectUp>>_s
  /\ []<>(Here => s.leaving = <<>>) \/ []<><<Here /\ TopparDestroyFinal>>_s
  /\ <>[]~(Here /\ s.qry.pc = "run" /\ ToQuery(s) = {}) \/ []<><<Here /\ QueryDone>>_s
  /\ <>[]~(Here /\ s.qry.pc = "run" /\ ToQuery(s) # {} /\ Room) \/ []<><<Here /\ QueryRefresh>>_s
  /\ []<>(Here => s.qry.pc \notin {"sent", "wait"}) \/ []<><<Here /\ QueryWake>>_s
  /\ \/ <>[]~(Here /\ s.qry.pc \in {"sent", "wait"} /\ ToQuery(s) = {})
     \/ []<><<Here /\ ToQuery(s) = {} /\ QueryWake>>_s

Spec == Init /\ [][Next]_s /\ Fairness

Healthy == \A t \in Topics :
             s.cl[t].err = "" /\ s.cl[t].parts # <<>> /\ None \notin Range(s.cl[t].parts)

Learned(t) ==
  /\ s.rkt[t].st = "exists"
  /\ [i \in DOMAIN s.rkt[t].p |-> s.rkt[t].p[i].lead] = s.cl[t].parts

\* Once the cluster settles and every topic has its leaders, topic objects
\* keep learning them, every accepted message is reported, and a query for
\* leaders returns: whatever requests, hints and connections were lost before,
\* and however often the knowledge expires.
Settled ==
  /\ \A t \in Local(s) : Learned(t)
  /\ \A m \in DOMAIN s.dr : m < s.nxt => s.dr[m] # ""
  /\ s.qry.pc \notin {"run", "sent", "wait"}

TopicLearns == <>[]Healthy => []<>Settled
=============================================================================
