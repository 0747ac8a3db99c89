----------------------------- MODULE MCServices -----------------------------
(* Model-checking instances of five services of librdkafka that do not     *)
(* share state: the timers, the metadata and topic objects, the message    *)
(* set writer and reader, the queues of a partition, and the admin         *)
(* requests.  A behaviour is one of one of them, whose state is s.         *)
EXTENDS Integers, Sequences, TLC

CONSTANTS None, r1, r2, b1, b2, t1, t2, t3

VARIABLE s

-----------------------------------------------------------------------------
(* Two admin requests, two brokers.  A single request of every kind, and   *)
(* two at once.                                                            *)
Reqs == {r1, r2}
Brokers == {b1, b2}
AdminCall(api, args, b, newer, optime) ==
  [api |-> api, args |-> args, broker |-> b, newer |-> newer, optime |-> optime]
SingleCalls ==
  {AdminCall("CREATETOPICS", <<t1, t2>>, None, TRUE, 0),
   AdminCall("DELETETOPICS", <<>>, None, FALSE, 1),
   AdminCall("DELETETOPICS", <<t2, t1>>, None, FALSE, 1),
   AdminCall("CREATEPARTITIONS", <<t1, t2>>, b2, FALSE, 1),
   AdminCall("ALTERCONFIGS", <<b1, b2>>, None, FALSE, 0),
   AdminCall("ALTERCONFIGS", <<t1>>, None, TRUE, 0),
   AdminCall("ALTERCONFIGS", <<t1>>, None, FALSE, 0),
   AdminCall("DESCRIBECONFIGS", <<b1, t1>>, None, FALSE, 0)}
AdminPlans ==
  {(r1 :> c) @@ (r2 :> None) : c \in SingleCalls}
    \cup {(r1 :> AdminCall("CREATETOPICS", <<t1>>, b1, FALSE, 0))
            @@ (r2 :> AdminCall("ALTERCONFIGS", <<b1>>, None, FALSE, 0))}
Res(name, err) == [name |-> name, err |-> err]
AdminReplies ==
  {<<>>, <<Res(t2, "REQUEST_TIMED_OUT"), Res(t1, "NO_ERROR")>>,
   <<Res(t1, "NO_ERROR"), Res(t1, "NO_ERROR")>>, <<Res(t3, "FAIL")>>}
AdminVersions == (b1 :> 0) @@ (b2 :> 1)

Admin == INSTANCE AdminRequest
         WITH Plans <- AdminPlans, Replies <- AdminReplies, ApiVersion <- AdminVersions, MaxChanges <- 1

-----------------------------------------------------------------------------
(* Two timers; the main thread sleeps for at most two ticks.               *)
Tmr == INSTANCE Timers
       WITH Timers <- {t1, t2}, Intervals <- {1, 3}, Backoffs <- {0, 2}, Cap <- 2, Wrap <- 64

-----------------------------------------------------------------------------
(* One topic whose metadata changes: a producer to a topic that gains a    *)
(* partition, one to a topic that is created, a consumer of a partition    *)
(* that comes and goes, a query for leaders, and requests for all topics.  *)
Msg(p, h) == [t |-> "t", part |-> p, hash |-> h]
Cluster(e, p) == [err |-> e, parts |-> p]
One == Cluster("", <<"b1">>)
Two == Cluster("", <<"b2", "b1">>)
Unknown == Cluster("UNKNOWN_TOPIC", <<>>)
NoLeader == Cluster("LEADER_NOT_AVAILABLE", <<>>)
AnyTopic ==
  [type |-> "producer", handles |-> {"t"}, msgs |-> <<>>, want |-> {}, query |-> {}, tmo |-> FALSE,
   wild |-> FALSE, app |-> FALSE, clusters |-> {Unknown, One}, changes |-> 1, lost |-> 1, slots |-> {1}]
TopicPlans ==
  {[AnyTopic EXCEPT !.msgs = <<Msg(-1, 0), Msg(-1, 1)>>, !.clusters = {Two, One}, !.lost = 0],
   [AnyTopic EXCEPT !.msgs = <<Msg(-1, 0), Msg(1, 1)>>, !.tmo = TRUE],
   [AnyTopic EXCEPT !.type = "consumer", !.handles = {}, !.want = {<<"t", 1>>},
                    !.clusters = {One, Two, Unknown}, !.changes = 2, !.lost = 0],
   [AnyTopic EXCEPT !.type = "consumer", !.handles = {}, !.query = {<<"t", 0>>, <<"t", 1>>},
                    !.clusters = {NoLeader, Cluster("", <<"b1", None>>), One, Two}, !.tmo = TRUE],
   [AnyTopic EXCEPT !.wild = TRUE, !.app = TRUE, !.slots = {1, 2},
                    !.clusters = {Cluster("omitted", <<>>), One}, !.lost = 0]}

Topic == INSTANCE TopicMetadata
         WITH Topics <- {"t"}, Plans <- TopicPlans, Slots <- {1, 2}, Ids <- {0, 1}

-----------------------------------------------------------------------------
(* Three messages, with a null value, an empty key, headers and timestamps *)
(* that go back, for every protocol version and codec; retried batches;    *)
(* compacted logs, control batches, sets that fail their CRC.              *)
Message(i, k, v, h, t) == [id |-> i, key |-> k, val |-> v, hdrs |-> h, ts |-> t, last |-> 0, backoff |-> FALSE]
Headers == <<[n |-> 2, v |-> -1], [n |-> 1, v |-> 3]>>
Three == <<Message(1, -1, 10, <<>>, 100), Message(2, 3, -1, Headers, 90), Message(3, 0, 0, <<>>, 300)>>
Retried(last1, last3) ==
  <<[Three[1] EXCEPT !.last = last1], [Three[2] EXCEPT !.last = last1],
    [Three[3] EXCEPT !.last = last3, !.backoff = TRUE]>>
AnySet ==
  [codec |-> "none", codecs |-> {"lz4"}, have |-> 7, topic |-> 7, num |-> 2, max |-> 300, pid |-> FALSE,
   z |-> "halves", msgs |-> Three, la |-> FALSE, bad |-> "none", marks |-> 0, markver |-> {2}, compact |-> 0,
   fo |-> 0, fmax |-> 20, maxops |-> 10]
Compacted ==
  {[AnySet EXCEPT !.have = h, !.codec = c, !.la = l, !.fo = f, !.compact = 2, !.fmax = x] :
     h \in {1, 2, 7}, c \in {"none", "gzip"}, l \in BOOLEAN, f \in {0, 1}, x \in {20, 200}}
Outcomes == {"fails", "grows", "halves"}
Codecs ==
  {p \in {[AnySet EXCEPT !.have = h, !.codec = c, !.z = z, !.codecs = k, !.num = 3] :
            h \in {2, 3, 7}, c \in {"snappy", "zstd"}, z \in Outcomes, k \in {{}, {"lz4"}, {"lz4", "zstd"}}}
     : "zstd" \in p.codecs => p.have = 7}
  \cup {[AnySet EXCEPT !.have = h, !.codec = "lz4", !.z = z] : h \in {3, 7}, z \in Outcomes}
Bad ==
  {p \in {[AnySet EXCEPT !.have = h, !.codec = c, !.bad = b, !.fmax = x] :
            h \in {1, 2, 7}, c \in {"none", "gzip", "snappy"}, b \in {"crc", "codec"}, x \in {50, 200}}
     : p.codec # "none" \/ p.bad = "crc"}
  \cup {[AnySet EXCEPT !.codec = c, !.codecs = {"lz4", "zstd"}, !.bad = "codec", !.fmax = 200] : c \in {"lz4", "zstd"}}
Marks == {[AnySet EXCEPT !.marks = 2, !.markver = v, !.fmax = x] : v \in {{2}, {3}}, x \in {20, 300}}
Retries == {[AnySet EXCEPT !.pid = TRUE, !.msgs = q, !.num = 3, !.have = h] : q \in {Retried(2, 0), Retried(3, 3)}, h \in {2, 7}}
Tight == {[AnySet EXCEPT !.max = 160, !.num = 3, !.codec = c] : c \in {"none", "gzip"}}

Sets == INSTANCE MsgSet
        WITH Plans <- Compacted \cup Codecs \cup Bad \cup Marks \cup Retries \cup Tight,
             FetchCap <- 400, Lead <- 80, AppendTime <- 777

-----------------------------------------------------------------------------
(* Three messages in requests of at most two, one waiting to be sent and   *)
(* two in flight; each is retried once, or the leader changes once.        *)
QueuePlans ==
  {[lifo |-> l, msgs |-> 3, batch |-> 2, space |-> 1, flying |-> 2, retries |-> n, moves |-> 1 - n] :
     l \in BOOLEAN, n \in {0, 1}}

Queue == INSTANCE MsgQueues WITH Plans <- QueuePlans

-----------------------------------------------------------------------------
Init ==
  \/ Admin!Init
  \/ Tmr!Init
  \/ Topic!Init
  \/ Sets!Init
  \/ Queue!Init

Next ==
  \/ s.mod = "AdminRequest" /\ Admin!Next
  \/ s.mod = "Timers" /\ Tmr!Next
  \/ s.mod = "TopicMetadata" /\ Topic!Next
  \/ s.mod = "MsgSet" /\ Sets!Next
  \/ s.mod = "MsgQueues" /\ Queue!Next

Spec == Init /\ [][Next]_s /\ Admin!Fairness /\ Topic!Fairness /\ Sets!Fairness

-----------------------------------------------------------------------------
(* The properties of the five modules.                                     *)

(* References, ops and results of admin requests: see AdminRequest.        *)
AdminSafe == s.mod = "AdminRequest" => Admin!AdminSafe

(* The list of timers and their punctuality: see Timers.                   *)
TimersSafe == s.mod = "Timers" => Tmr!TimersSafe

(* Topic objects, their messages and the metadata cache: see               *)
(* TopicMetadata.                                                          *)
TopicSafe == s.mod = "TopicMetadata" => Topic!TopicSafe

(* Messages wait in order, none lost, until they are sent: see MsgQueues.  *)
(* What is written is what is read: see MsgSet.                            *)
MsgSetsSound ==
  /\ s.mod = "MsgQueues" => Queue!MsgQueuesSound
  /\ s.mod = "MsgSet" => Sets!MsgSetsSound

(* Every admin request gets its result: see AdminRequest.                  *)
AdminAnswers == []<>(s.mod = "AdminRequest" => Admin!Answered)

(* Topic objects learn their leaders: see TopicMetadata.                   *)
TopicLearns == <>[](s.mod = "TopicMetadata" => Topic!Healthy) => []<>(s.mod = "TopicMetadata" => Topic!Settled)

(* All messages of the log are read: see MsgSet.                           *)
MsgSetsRead == []<>(s.mod = "MsgSet" => Sets!EverythingRead)

(* No request, topic or reader waits for ever.                             *)
ServicesProgress == AdminAnswers /\ TopicLearns /\ MsgSetsRead
=============================================================================
