---------------------------- MODULE AdminRequest ----------------------------
(***************************************************************************)
(* The Admin API of librdkafka (rdkafka_admin.c): one op per request, a    *)
(* worker on the main thread, and an enqueue-once object (the enq_once of  *)
(* rdkafka_queue.h) that the request's timer, the broker state waiters and *)
(* the response all hold; only the first of them to trigger gets the op.   *)
(* Broker threads run beside the main thread; the application submits      *)
(* requests and may destroy the client at any time.                        *)
(*                                                                         *)
(* An uncommented definition just above another one is a faulty variant of *)
(* it, under which one of the properties fails.                            *)
(***************************************************************************)
EXTENDS Integers, Sequences, FiniteSets, SequencesExt, FiniteSetsExt

CONSTANTS Reqs,         \* request ops
          Brokers,      \* brokers, whose ids also name BROKER resources
          None,
          Plans,        \* which API call each request makes, None for no call:
                        \* [api, args, broker, newer, optime]
          Replies,      \* sequences of [name, err]: what a broker may answer
          ApiVersion,   \* highest version each broker knows, -1 for none
          MaxChanges    \* bound: changes of broker state or controller

TopicApis == {"CREATETOPICS", "DELETETOPICS", "CREATEPARTITIONS"}
ConfigApis == {"ALTERCONFIGS", "DESCRIBECONFIGS"}

VARIABLE s

(* s.ops, s.on      rk_ops: the main thread's queue, and that it is enabled *)
(* s.plan[r]        the call the application makes                         *)
(* s.rq[r]          the op: worker state, broker id, where it is, and       *)
(*                  whether it still owns its enq_once                      *)
(* s.e[r]           the enq_once: reference count; does it hold the op      *)
(* s.tmr[r], s.late the timeout timer is started; requests out of time      *)
(* s.waiters        rk_broker_state_change_waiters                          *)
(* s.ctrl, s.up     rk_controllerid; the brokers in state UP                *)
(* s.cast           brokers that changed state and did not broadcast yet    *)
(* s.net[r]         the broker thread that has the request                  *)
(* s.term           how far the client's destruction is                     *)
(* s.main           the main thread, between the steps of a broker lookup   *)
(* s.res[r]         the results on the application's queue, each with the   *)
(*                  reply it was made from                                  *)
vars == <<s>>

Idle == [pc |-> "idle", r |-> None, fresh |-> FALSE]

Init ==
  \E plan \in Plans :
  s = [mod |-> "AdminRequest", plan |-> plan, ops |-> <<>>, on |-> TRUE,
       rq |-> [r \in Reqs |-> [st |-> "INIT", bid |-> None,
                               place |-> "none", eonce |-> FALSE]],
       e |-> [r \in Reqs |-> [ref |-> 0, rko |-> FALSE]],
       tmr |-> [r \in Reqs |-> FALSE], late |-> {}, waiters |-> <<>>,
       ctrl |-> None, up |-> {}, cast |-> {}, net |-> [r \in Reqs |-> None],
       term |-> "run", ended |-> {}, main |-> Idle,
       res |-> [r \in Reqs |-> <<>>], changes |-> 0]

-----------------------------------------------------------------------------
(* The protocol: what a request needs, and how a reply is read.            *)

\* rd_kafka_broker_ApiVersion_supported(): the version to use, -1 if none.
Supported(b, maxver) == IF ApiVersion[b] < maxver THEN ApiVersion[b] ELSE maxver

\* The error of an empty list, of a broker too old, or of an option too new.
RequestError(c, ver, tooNew) ==
  CASE c.args = <<>> -> "INVALID_ARG"
    [] c.args # <<>> /\ (ver = -1 \/ tooNew) -> "UNSUPPORTED_FEATURE"
    [] OTHER -> "NO_ERROR"

CreateTopicsRequest(c, b) ==
  RequestError(c, Supported(b, 2), c.newer /\ Supported(b, 2) < 1)

DeleteTopicsRequest(c, b) == RequestError(c, Supported(b, 1), FALSE)

CreatePartitionsRequest(c, b) == RequestError(c, Supported(b, 0), FALSE)

\* Version 0 only sets entries: an added or deleted one is refused.
AlterConfigsRequest(c, b) == RequestError(c, Supported(b, 0), c.newer)

DescribeConfigsRequest(c, b) == RequestError(c, Supported(b, 1), FALSE)

Request(c, b) ==
  CASE c.api = "CREATETOPICS" -> CreateTopicsRequest(c, b)
    [] c.api = "DELETETOPICS" -> DeleteTopicsRequest(c, b)
    [] c.api = "CREATEPARTITIONS" -> CreatePartitionsRequest(c, b)
    [] c.api = "ALTERCONFIGS" -> AlterConfigsRequest(c, b)
    [] OTHER -> DescribeConfigsRequest(c, b)

\* rd_list_index(): the first argument of that name, 0 if there is none.
ListIndex(args, name) ==
  LET at == {i \in 1..Len(args) : args[i] = name}
  IN IF at = {} THEN 0 ELSE Min(at)

\* rd_list_set(): positions before it that were not set are NULL.
ListSet(list, i, x) ==
  [k \in 1..(IF i > Len(list) THEN i ELSE Len(list)) |->
     IF k = i THEN x ELSE IF k <= Len(list) THEN list[k] ELSE None]

\* One entry of a reply goes to the position its name has in the request; an
\* unknown or a repeated name fails the parsing, which ends.
PlaceResult(acc, args, x) ==
  LET i == ListIndex(args, x.name) IN
  IF ~acc.ok \/ i = 0 THEN [acc EXCEPT !.ok = FALSE]
  ELSE IF i <= Len(acc.list) /\ acc.list[i] # None THEN [acc EXCEPT !.ok = FALSE]
  ELSE [acc EXCEPT !.list = ListSet(@, i, x)]

PlaceResults(args, entries) ==
  FoldLeft(LAMBDA acc, x : PlaceResult(acc, args, x), [ok |-> TRUE, list |-> <<>>], entries)

Failed(err) == [err |-> err, how |-> "none", list |-> <<>>, reply |-> <<>>]

\* A parsing failure goes to err_parse with err still NO_ERROR: the function
\* reports success and leaves the caller's result pointer unset, which the
\* worker then enqueues.  What follows in the program is undefined; here the
\* rest of the client goes on.
Parsed(c, reply, entries) ==
  IF Len(reply) > Len(c.args) \/ ~PlaceResults(c.args, entries).ok
  THEN [err |-> "NO_ERROR", how |-> "unset", list |-> <<>>, reply |-> reply]
  ELSE [err |-> "NO_ERROR", how |-> "list", list |-> PlaceResults(c.args, entries).list, reply |-> reply]

\* A broker that did not wait for the operation says REQUEST_TIMED_OUT.
HideTimeout(c, reply) ==
  [i \in DOMAIN reply |->
     IF reply[i].err = "REQUEST_TIMED_OUT" /\ c.optime <= 0
     THEN [reply[i] EXCEPT !.err = "NO_ERROR"] ELSE reply[i]]

CreateTopicsParse(c, reply) == Parsed(c, reply, HideTimeout(c, reply))

DeleteTopicsParse(c, reply) == Parsed(c, reply, HideTimeout(c, reply))

CreatePartitionsParse(c, reply) == Parsed(c, reply, HideTimeout(c, reply))

\* The only parser that reports a reply with too many entries.
AlterConfigsParse(c, reply) ==
  IF Len(reply) > Len(c.args) THEN Failed("BAD_MSG")
  ELSE Parsed(c, reply, reply)

DescribeConfigsParse(c, reply) == Parsed(c, reply, reply)

Parse(c, reply) ==
  CASE c.api = "CREATETOPICS" -> CreateTopicsParse(c, reply)
    [] c.api = "DELETETOPICS" -> DeleteTopicsParse(c, reply)
    [] c.api = "CREATEPARTITIONS" -> CreatePartitionsParse(c, reply)
    [] c.api = "ALTERCONFIGS" -> AlterConfigsParse(c, reply)
    [] OTHER -> DescribeConfigsParse(c, reply)

\* rd_kafka_ConfigResource_get_single_broker_id().
SingleBroker(args) ==
  LET at == {i \in DOMAIN args : args[i] \in Brokers}
  IN CASE at = {} -> [err |-> "NO_ERROR", id |-> None]
       [] Cardinality(at) > 1 -> [err |-> "CONFLICT", id |-> None]
       [] OTHER -> [err |-> "NO_ERROR", id |-> args[CHOOSE i \in at : TRUE]]

-----------------------------------------------------------------------------
(* The enq_once and the end of a request.                                  *)

Result(t, r, res) == [t EXCEPT !.res[r] = Append(@, res)]

WorkerDestroyKeepsTimer(t, r) ==
  IF ~t.rq[r].eonce THEN [t EXCEPT !.tmr[r] = FALSE]
  ELSE [t EXCEPT !.tmr[r] = FALSE, !.rq[r].eonce = FALSE, !.e[r] = [ref |-> @.ref - 1, rko |-> FALSE]]

\* rd_kafka_admin_common_worker_destroy(): a timer that was still started
\* takes its reference with it; the owner's goes too.
WorkerDestroy(t, r) ==
  IF ~t.rq[r].eonce THEN [t EXCEPT !.tmr[r] = FALSE]
  ELSE [t EXCEPT !.tmr[r] = FALSE, !.rq[r].eonce = FALSE,
                 !.e[r] = [ref |-> @.ref - (IF t.tmr[r] THEN 2 ELSE 1), rko |-> FALSE]]

\* rd_kafka_op_destroy(): the worker is called once more, to clean up.
OpDestroy(t, r) == [WorkerDestroy(t, r) EXCEPT !.rq[r].place = "gone"]

\* An op that is enqueued on a disabled queue is destroyed.
EnqOp(t, r) ==
  IF t.on THEN [t EXCEPT !.ops = Append(@, [op |-> "rko", r |-> r]), !.rq[r].place = "ops"]
  ELSE OpDestroy(t, r)

\* rd_kafka_enq_once_trigger(): its error code reaches nobody.
Trigger(t, r) ==
  LET u == [t EXCEPT !.e[r] = [ref |-> @.ref - 1, rko |-> FALSE]]
  IN IF t.e[r].rko THEN EnqOp(u, r) ELSE u

\* rd_kafka_brokers_broadcast_state_change(): a new version, and all waiters.
Broadcast(t) ==
  FoldLeft(Trigger, [t EXCEPT !.waiters = <<>>, !.main.fresh = FALSE], t.waiters)

-----------------------------------------------------------------------------
(* The worker.                                                             *)

\* The lookups re-enable the enq_once and note the state version.
Lookup(t, r) ==
  [t EXCEPT !.e[r].rko = TRUE, !.rq[r].place = "main",
            !.main = [pc |-> "find", r |-> r, fresh |-> TRUE]]

WorkerInitUntimed(t, r) ==
  LET c == t.plan[r]
      bid == IF c.broker # None THEN c.broker ELSE t.rq[r].bid
  IN Lookup([t EXCEPT !.rq[r].bid = bid,
                      !.rq[r].st = IF bid # None THEN "WAIT_BROKER" ELSE "WAIT_CONTROLLER"], r)

\* Init: the timer is a source; a broker given as an option has precedence.
WorkerInit(t, r) ==
  LET c == t.plan[r]
      bid == IF c.broker # None THEN c.broker ELSE t.rq[r].bid
  IN Lookup([t EXCEPT !.e[r].ref = @ + 1, !.tmr[r] = TRUE, !.rq[r].bid = bid,
                      !.rq[r].st = IF bid # None THEN "WAIT_BROKER" ELSE "WAIT_CONTROLLER"], r)

\* Whatever parse() says, a result goes to the application.
WorkerParse(t, r, reply) ==
  OpDestroy(Result(t, r, IF reply = None THEN [err |-> "NO_ERROR", how |-> "null", list |-> <<>>, reply |-> <<>>]
                         ELSE Parse(t.plan[r], reply)), r)

\* rd_kafka_admin_worker().
Worker(t, r, err, reply) ==
  CASE t.term # "run" -> OpDestroy(t, r)
    [] t.term = "run" /\ err # "NO_ERROR" -> OpDestroy(Result(t, r, Failed(err)), r)
    [] t.term = "run" /\ err = "NO_ERROR" /\ r \in t.late ->
         OpDestroy(Result(t, r, Failed("TIMED_OUT")), r)
    [] OTHER ->
         CASE t.rq[r].st = "INIT" -> WorkerInit(t, r)
           [] t.rq[r].st \in {"WAIT_BROKER", "WAIT_CONTROLLER"} -> Lookup(t, r)
           [] OTHER -> WorkerParse(t, r, reply)

\* rd_kafka_admin_handle_response(): the response's reference is dropped; if
\* something else triggered first, the response is too late.
HandleResponse(t, r, err, reply) ==
  LET u == [t EXCEPT !.e[r] = [ref |-> @.ref - 1, rko |-> FALSE]]
  IN IF t.e[r].rko THEN Worker(u, r, err, reply) ELSE u

\* A response; its op too is destroyed, hence handled, when the queue is off.
EnqBuf(t, r, err, reply) ==
  IF t.on THEN [t EXCEPT !.net[r] = None,
                         !.ops = Append(@, [op |-> "buf", r |-> r, err |-> err, reply |-> reply])]
  ELSE HandleResponse([t EXCEPT !.net[r] = None], r, "DESTROY", None)
-----------------------------------------------------------------------------
(* The application.                                                        *)

\* rd_kafka_admin_request_op_new(), and an API function that enqueues the op.
Submitted(t, r, bid) ==
  [t EXCEPT !.rq[r] = [st |-> "INIT", bid |-> bid, place |-> "main", eonce |-> TRUE],
            !.e[r] = [ref |-> 1, rko |-> TRUE]]

\* CreateTopics(), DeleteTopics() and CreatePartitions().
SubmitTopics(r) ==
  LET c == s.plan[r] IN
  /\ c # None
  /\ s.rq[r].place = "none" /\ s.term = "run" /\ c.api \in TopicApis
  /\ s' = EnqOp(Submitted(s, r, None), r)

\* AlterConfigs() and DescribeConfigs(): with two brokers the result is ready
\* and the enq_once cleaned up, but nothing frees the op.
SubmitConfigs(r) ==
  LET c == s.plan[r]
      b == SingleBroker(c.args) IN
  /\ c # None
  /\ s.rq[r].place = "none" /\ s.term = "run" /\ c.api \in ConfigApis
  /\ s' = IF b.err = "NO_ERROR" THEN EnqOp(Submitted(s, r, b.id), r)
          ELSE [WorkerDestroy(Result(Submitted(s, r, None), r, Failed(b.err)), r)
                  EXCEPT !.rq[r].place = "leaked"]

\* abs_timeout passes.
TimePasses(r) ==
  /\ s.rq[r].place \notin {"none", "gone", "leaked"} /\ r \notin s.late
  /\ s' = [s EXCEPT !.late = @ \cup {r}]

\* rd_kafka_destroy(): the flag, then an op to wake the main thread.
Destroy ==
  /\ s.term = "run"
  /\ s' = [s EXCEPT !.term = "term", !.ops = Append(@, [op |-> "term"])]

-----------------------------------------------------------------------------
(* The main thread.                                                        *)

ServeOp ==
  /\ s.main = Idle /\ s.on /\ s.ops # <<>>
  /\ LET o == Head(s.ops)
         t == [s EXCEPT !.ops = Tail(@)]
     IN s' = CASE o.op = "rko" -> Worker([t EXCEPT !.rq[o.r].place = "main"], o.r, "NO_ERROR", None)
               [] o.op = "buf" -> HandleResponse(t, o.r, o.err, o.reply)
               [] OTHER -> t

\* rd_kafka_timers_run(): a oneshot timer is stopped before its callback.
TimerRun(r) ==
  /\ s.main = Idle /\ s.term = "run" /\ s.tmr[r] /\ r \in s.late
  /\ s' = Trigger([s EXCEPT !.tmr[r] = FALSE], r)

\* The request's reference is dropped again if the request cannot be made.
Construct(t, r, b) ==
  LET err == Request(t.plan[r], b) IN
  IF err # "NO_ERROR" THEN OpDestroy(Result(t, r, Failed(err)), r)
  ELSE [t EXCEPT !.e[r].ref = @ + 1, !.net[r] = b,
                 !.rq[r].st = "WAIT_RESPONSE", !.rq[r].place = "held"]

\* The broker given, or the controller, if its state is UP.
FindBroker ==
  LET r == s.main.r
      b == IF s.rq[r].st = "WAIT_BROKER" THEN s.rq[r].bid ELSE s.ctrl
  IN /\ s.main.pc = "find"
     /\ s' = IF b \in s.up THEN Construct([s EXCEPT !.main = Idle], r, b)
             ELSE [s EXCEPT !.main.pc = "async"]

\* rd_kafka_brokers_wait_state_change_async(): the enq_once joins the waiters
\* unless the version moved on, in which case the lookup is made again.
WaitAsync ==
  LET r == s.main.r IN
  /\ s.main.pc = "async"
  /\ s' = IF s.main.fresh
          THEN [s EXCEPT !.main = Idle, !.waiters = Append(@, r), !.e[r].ref = @ + 1,
                         !.rq[r].place = "held"]
          ELSE [s EXCEPT !.main = [@ EXCEPT !.pc = "find", !.fresh = TRUE]]

\* A metadata response names another controller.
UpdateController(b) ==
  /\ s.main = Idle /\ s.on /\ s.term = "run" /\ s.ctrl # b /\ s.changes < MaxChanges
  /\ s' = Broadcast([s EXCEPT !.ctrl = b, !.changes = @ + 1])

\* rd_kafka_thread_main() leaves its loop.
LeaveLoop ==
  /\ s.main = Idle /\ s.term = "term" /\ s.ops = <<>>
  /\ s' = [s EXCEPT !.term = "left"]

\* The queue is disabled and what still came is purged.
PurgeOp(t, o) == IF o.op = "buf" THEN HandleResponse(t, o.r, "DESTROY", None) ELSE OpDestroy(t, o.r)

DisableOps ==
  /\ s.term = "left"
  /\ s' = FoldLeft(PurgeOp, [s EXCEPT !.on = FALSE, !.ops = <<>>, !.term = "disabled"], s.ops)

\* rd_kafka_destroy_internal(): waiters are woken, broker threads told to end,
DestroyInternal ==
  /\ s.term = "disabled"
  /\ s' = [Broadcast(s) EXCEPT !.term = "ending"]

\* the list of waiters destroyed, which triggers whoever is still on it,
WaitersDestroy ==
  /\ s.term = "ending"
  /\ s' = [FoldLeft(Trigger, [s EXCEPT !.waiters = <<>>], s.waiters) EXCEPT !.term = "nolist"]

\* and the broker threads joined; rd_kafka_destroy_final() stops all timers.
DestroyFinal ==
  /\ s.term = "nolist" /\ s.ended = Brokers
  /\ s' = [s EXCEPT !.term = "final", !.tmr = [r \in Reqs |-> FALSE]]

-----------------------------------------------------------------------------
(* The broker threads.                                                     *)

BrokerSetState(b) ==
  /\ b \notin s.ended \cup s.cast /\ s.changes < MaxChanges
  /\ s' = [s EXCEPT !.up = IF b \in @ THEN @ \ {b} ELSE @ \cup {b},
                    !.cast = @ \cup {b}, !.changes = @ + 1]

BrokerBroadcast(b) ==
  /\ b \in s.cast
  /\ s' = Broadcast([s EXCEPT !.cast = @ \ {b}])

\* The response arrives, or the request fails or times out.
BrokerResponse(r) ==
  /\ s.net[r] \in Brokers
  /\ \/ \E reply \in Replies : s.net[r] \in s.up /\ s' = EnqBuf(s, r, "NO_ERROR", reply)
     \/ \E err \in {"TRANSPORT", "TIMED_OUT"} : s' = EnqBuf(s, r, err, None)

\* A broker thread ends and fails what it still has.
BrokerEnd(b) ==
  /\ s.term \in {"ending", "nolist"} /\ b \notin s.ended \cup s.cast
  /\ s' = FoldSet(LAMBDA r, t : EnqBuf(t, r, "DESTROY", None),
                  [s EXCEPT !.ended = @ \cup {b}], {r \in Reqs : s.net[r] = b})

Done == s.term = "final" /\ UNCHANGED vars

Next ==
  \/ \E r \in Reqs : SubmitTopics(r) \/ SubmitConfigs(r)
  \/ \E r \in Reqs : TimePasses(r) \/ TimerRun(r) \/ BrokerResponse(r)
  \/ Destroy \/ ServeOp \/ FindBroker \/ WaitAsync
  \/ LeaveLoop \/ DisableOps \/ DestroyInternal \/ WaitersDestroy \/ DestroyFinal \/ Done
  \/ \E b \in Brokers : UpdateController(b) \/ BrokerSetState(b) \/ BrokerBroadcast(b) \/ BrokerEnd(b)

Spec == Init /\ [][Next]_vars

-----------------------------------------------------------------------------
(* Properties.                                                             *)

One(b) == IF b THEN 1 ELSE 0
Count(q, r) == Cardinality({i \in DOMAIN q : q[i] = r})
Bufs(r) == Cardinality({i \in DOMAIN s.ops : s.ops[i].op = "buf" /\ s.ops[i].r = r})

\* Every reference of an enq_once has a holder that will drop it: its op, the
\* timer, the list of waiters, and the request until its response is handled.
ReferencesExact ==
  \A r \in Reqs : s.e[r].ref = One(s.rq[r].eonce) + One(s.tmr[r]) + Count(s.waiters, r)
                               + One(s.net[r] # None) + Bufs(r)

\* The enq_once hands out a live op, once: never one that is freed, or that is
\* on the queue with a trigger still possible (destroy0() asserts the rest).
OpsSafe ==
  \A r \in Reqs :
    /\ s.e[r].rko => /\ s.e[r].ref > 0 /\ s.rq[r].place \in {"main", "held", "ops"}
                     /\ s.rq[r].place = "ops" => s.e[r].ref = 1
    /\ Count(s.ops, [op |-> "rko", r |-> r]) = One(s.rq[r].place = "ops")

\* No lookup misses the change it waits for: who waits for a broker that is up
\* will still be told.
NoneMissed ==
  \A r \in Reqs : Count(s.waiters, r) > 0 =>
    LET b == IF s.rq[r].st = "WAIT_BROKER" THEN s.rq[r].bid ELSE s.ctrl IN b \in s.up => b \in s.cast

\* A reply the parsers refuse: longer than the request, or with a name the
\* request has not, or with one twice.
Malformed(args, reply) ==
  \/ Len(reply) > Len(args)
  \/ \E i \in DOMAIN reply : \A k \in DOMAIN args : args[k] # reply[i].name
  \/ \E i, j \in DOMAIN reply : i # j /\ reply[i].name = reply[j].name

\* A result that was made holds every entry of its reply, where the request has
\* that name; only a time-out the application did not wait for is turned into
\* a success.
ListsReply(c, res) ==
  \A i \in DOMAIN res.reply : \E k \in DOMAIN res.list :
    /\ c.args[k] = res.reply[i].name /\ res.list[k] # None
    /\ res.list[k].name = res.reply[i].name
    /\ \/ res.list[k].err = res.reply[i].err
       \/ res.reply[i].err = "REQUEST_TIMED_OUT" /\ c.optime <= 0 /\ c.api \in TopicApis

\* A request has at most one result, exactly one when it is over and the client
\* still there: an error, or the broker's reply.  The exception is a malformed
\* reply (rdkafka_admin.c:1284): the parsers return NO_ERROR for it, and what
\* the worker enqueues at 826 was never set, although 817 is there to report it.
OneResult ==
  \A r \in Reqs :
    /\ Len(s.res[r]) <= 1
    /\ s.rq[r].place \in {"gone", "leaked"} /\ s.term = "run" => Len(s.res[r]) = 1
    /\ \A i \in DOMAIN s.res[r] : LET x == s.res[r][i] IN
         \/ x.how = "none" /\ x.err # "NO_ERROR"
         \/ x.how = "list" /\ ~Malformed(s.plan[r].args, x.reply) /\ ListsReply(s.plan[r], x)
         \/ x.how = "unset" /\ Malformed(s.plan[r].args, x.reply)

\* When the client is gone nothing is left of a request, whatever it was doing:
\* no enq_once, no waiter, no timer that would run into freed memory, and no op
\* but the one of a configuration request for two brokers, which is refused
\* (rdkafka_admin.c:2411) and never freed.
AllFreed ==
  s.term = "final" => \A r \in Reqs :
    /\ s.e[r].ref = 0
    /\ \/ s.rq[r].place \in {"none", "gone"}
       \/ /\ s.plan[r].api \in ConfigApis
          /\ Cardinality({i \in DOMAIN s.plan[r].args : s.plan[r].args[i] \in Brokers}) > 1

AdminSafe == ReferencesExact /\ OpsSafe /\ NoneMissed /\ OneResult /\ AllFreed

\* The main thread has something to do.
MainEnabled ==
  \/ s.main # Idle \/ (s.on /\ s.ops # <<>>) \/ s.term \in {"term", "left", "disabled", "ending"}
  \/ s.term = "nolist" /\ s.ended = Brokers

MainStep ==
  \/ ServeOp \/ FindBroker \/ WaitAsync \/ LeaveLoop \/ DisableOps \/ DestroyInternal
  \/ WaitersDestroy \/ DestroyFinal

(* The main thread runs while it has work and serves its timers in every    *)
(* round; time passes; a broker thread finishes what it began and ends when *)
(* told.  No broker need ever come up or answer.                            *)
\* The state is one of this module: a run may check instances of several.
Here == s.mod = "AdminRequest"

Fairness ==
  /\ []<>~(Here /\ MainEnabled) \/ []<><<Here /\ MainStep>>_vars
  /\ \A r \in Reqs :
       /\ []<>~(Here /\ s.main = Idle /\ s.term = "run" /\ s.tmr[r] /\ r \in s.late) \/ []<><<Here /\ TimerRun(r)>>_vars
       /\ []<>~(Here /\ s.rq[r].place \notin {"none", "gone", "leaked"} /\ r \notin s.late)
          \/ []<><<Here /\ TimePasses(r)>>_vars
  /\ \A b \in Brokers :
       /\ []<>(Here => b \notin s.cast) \/ []<><<Here /\ BrokerBroadcast(b)>>_vars
       /\ []<>~(Here /\ s.term \in {"ending", "nolist"} /\ b \notin s.ended \cup s.cast)
          \/ []<><<Here /\ BrokerEnd(b)>>_vars

FairSpec == Spec /\ Fairness

\* Every request gets its result, even if no broker is ever there, and a client
\* that is destroyed is finally gone.  (What it gets for a malformed reply is no
\* result: see OneResult.)
Answered ==
  \/ s.term = "final"
  \/ s.term = "run" /\ \A r \in Reqs : s.rq[r].place = "none" \/ s.res[r] # <<>>
AdminAnswers == []<>Answered
=============================================================================
