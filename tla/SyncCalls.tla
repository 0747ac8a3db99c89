------------------------------ MODULE SyncCalls ------------------------------
(***************************************************************************)
(* The blocking calls of the client (rdkafka.c, rdkafka_offset.c): commit(), *)
(* committed(), position(), query_watermark_offsets(),                     *)
(* get_watermark_offsets(), offsets_for_times(), list_groups(),            *)
(* clusterid() and controllerid().  A call sends requests                  *)
(* whose replies come back on a queue of its own and are applied to a      *)
(* state that lives on its stack, while the brokers, the group and the     *)
(* metadata change under it, and it may give up before the replies come.   *)
(*                                                                         *)
(* An uncommented definition just above another one is a faulty variant of *)
(* it, under which one of the properties fails.                            *)
(***************************************************************************)
EXTENDS Integers, Sequences, FiniteSets, SequencesExt

CONSTANTS Plans,
          None,
          MaxVersion,   \* bound: changes of the state of the brokers
          MaxRetries    \* message.send.max.retries

VARIABLE s

(* s.plan     calls: the kinds called in turn; leader: the broker of every  *)
(*            partition, None if it is not found; truth: the offsets the    *)
(*            brokers have, by partition; offsets and message: what         *)
(*            commit() and commit_message() are given; groups: of every     *)
(*            broker; desired;                                              *)
(*            faults: errors brokers may answer with; group: one is         *)
(*            configured; known: partitions the client knows; moves: what   *)
(*            changes meanwhile; requests: bound on the lag's requests      *)
(* s.version  of the state of the brokers, which changed before the first   *)
(*            call: one was found to be up; s.meta metadata was received, with     *)
(*            the ids of cluster and controller or without                  *)
(* s.cgrp     of the group: "down", "up" or "gone"                          *)
(* s.committed the offsets the coordinator has for the group                *)
(* s.lo, s.lag the low watermark of partition 1, and whether it is asked for*)
(* s.call     the call that runs, s.reqs requests at the brokers            *)
(* s.touched  a reply was applied to the stack of another call              *)
(* s.results  what the calls returned                                       *)
vars == <<s>>

Invalid == -1001
Beginning == -2
End == -1

Partitions == DOMAIN s.plan.leader

Init ==
  \E p \in Plans :
    s = [mod |-> "SyncCalls", plan |-> p, version |-> 1, meta |-> "none", cgrp |-> "down",
         committed |-> [q \in DOMAIN p.truth |-> p.truth[q].committed], lo |-> Invalid, lag |-> FALSE,
         call |-> None, reqs |-> {}, touched |-> FALSE, results |-> <<>>, next |-> 1]

-----------------------------------------------------------------------------
(* Requests and replies                                                    *)

\* A request of a call, to a broker: of which kind, about what.
Request(id, n, kind, broker, about) == [id |-> id, call |-> n, kind |-> kind, broker |-> broker, about |-> about, retries |-> 0]

Replied(r, err, val) == [req |-> r, err |-> err, val |-> val]

\* What a broker has for a request.
Value(r) ==
  CASE r.kind = "low" -> s.plan.truth[r.about].low
    [] r.kind = "high" -> s.plan.truth[r.about].high
    [] r.kind = "times" -> [p \in r.about |-> s.plan.truth[p].time]
    [] r.kind = "fetch" -> [p \in r.about |-> s.committed[p]]
    [] r.kind = "list" -> s.plan.groups[r.broker]
    [] r.kind = "describe" -> r.about
    [] r.kind = "lag" -> s.plan.truth[r.about].low

DeliverAnyway(t, reply) ==
  IF t.call = None THEN t
  ELSE [t EXCEPT !.call.queue = Append(@, reply), !.touched = @ \/ t.call.n # reply.req.call]

\* A reply is put on the queue of the call it is for.  When that call has
\* returned the queue is disabled, and the callback is told so and does nothing.
Deliver(t, reply) ==
  IF t.call # None /\ t.call.n = reply.req.call THEN [t EXCEPT !.call.queue = Append(@, reply)] ELSE t

\* A broker answers, or its connection fails.  OFFSET_FETCH is an operation of
\* the group first, which has to have a coordinator.  A group that is gone has
\* purged its queue, and no reply is sent.
Answer ==
  \E r \in s.reqs, err \in {"none"} \cup s.plan.faults :
    /\ r.kind \notin {"lag", "commit"}
    /\ LET e == IF r.kind = "fetch" /\ s.cgrp = "down" THEN "WAIT_COORD" ELSE err
           t == [s EXCEPT !.reqs = @ \ {r}]
       IN s' = IF r.kind = "fetch" /\ s.cgrp = "gone" THEN t
               ELSE Deliver(t, Replied(r, e, IF e = "none" THEN Value(r) ELSE None))

Retried(t, r) == [t EXCEPT !.reqs = @ \cup {r}]

\* OFFSET_COMMIT is an operation of the group as well, which it defers for a
\* while if there is no coordinator.  A connection that fails leaves open
\* whether the offsets were written; the request is tried again.
AnswerCommit ==
  \E r \in s.reqs, err \in {"none"} \cup s.plan.faults, written \in BOOLEAN :
    /\ r.kind = "commit"
    /\ err # "TRANSPORT" => (written <=> err = "none")
    /\ LET t == [s EXCEPT !.reqs = @ \ {r}]
           u == IF written THEN [t EXCEPT !.committed = r.about @@ @] ELSE t
       IN s' = CASE s.cgrp = "gone" -> t
                 [] s.cgrp = "down" -> Deliver(t, Replied(r, "WAIT_COORD", None))
                 [] s.cgrp = "up" /\ err = "TRANSPORT" /\ r.retries < MaxRetries ->
                      Retried(u, [r EXCEPT !.retries = @ + 1])
                 [] OTHER -> Deliver(u, Replied(r, err, None))

Send(t, rs) == [t EXCEPT !.reqs = @ \cup rs, !.next = @ + Cardinality(rs)]

-----------------------------------------------------------------------------
(* Calls                                                                   *)

\* The state of offsets_for_times() is zeroed, and its version and its timeout
\* are never set.
NewCall(kind) ==
  [n |-> Len(s.results) + 1, kind |-> kind, pc |-> "begin", ver |-> IF kind = "times" THEN 0 ELSE s.version, wait |-> 0, err |-> "none", idx |-> 0,
   low |-> Beginning, high |-> End, list |-> [p \in Partitions |-> Invalid], got |-> <<>>, groups |-> {}, late |-> FALSE,
   queue |-> <<>>, local |-> <<>>, failed |-> FALSE, asked |-> {}]

\* A call returns: its queue is disabled with what is left on it.
ReturnWith(t, result) == [t EXCEPT !.call = None, !.results = Append(@, result)]

Result(kind, err, val) == [kind |-> kind, err |-> err, val |-> val, failed |-> FALSE]

C == s.call
At(kinds, pc) == s.call # None /\ C.kind \in kinds /\ C.pc = pc

Call ==
  /\ s.call = None /\ Len(s.results) < Len(s.plan.calls)
  /\ s' = [s EXCEPT !.call = NewCall(s.plan.calls[Len(s.results) + 1])]

\* Time runs out.
Expire == s.call # None /\ ~C.late /\ s' = [s EXCEPT !.call.late = TRUE]

\* position(): the offsets the application is at, of partitions that are known.
Position ==
  /\ At({"position"}, "begin")
  /\ s' = ReturnWith(s, Result("position", "none", [p \in Partitions |-> IF p \in s.plan.known THEN s.plan.truth[p].app ELSE Invalid]))

\* get_watermark_offsets(): what is known here.
GetWatermarks ==
  /\ At({"get"}, "begin")
  /\ s' = ReturnWith(s, IF 1 \in s.plan.known THEN Result("get", "none", <<s.lo, s.plan.truth[1].high>>)
                        ELSE Result("get", "UNKNOWN_PARTITION", None))

(* The lag of partition 1: a timer asks for the low watermark, once at a    *)
(* time.  The reply goes to the queue of the partition.                     *)
LagTimer ==
  /\ 1 \in s.plan.known /\ ~s.lag /\ s.plan.leader[1] # None
  /\ s.next <= s.plan.requests
  /\ s' = Send([s EXCEPT !.lag = TRUE], {Request(s.next, 0, "lag", s.plan.leader[1], 1)})

LagReply ==
  \E r \in s.reqs, err \in {"none"} \cup s.plan.faults :
    /\ r.kind = "lag"
    /\ s' = IF err = "TRANSPORT" /\ r.retries < MaxRetries
            THEN [s EXCEPT !.reqs = (@ \ {r}) \cup {[r EXCEPT !.retries = @ + 1]}]
            ELSE [s EXCEPT !.reqs = @ \ {r}, !.lag = FALSE, !.lo = IF err = "none" THEN Value(r) ELSE @]

-----------------------------------------------------------------------------
(* committed()                                                             *)

\* Every attempt reads the version before it asks.
AskGroup(t) ==
  IF t.cgrp = "gone" THEN ReturnWith(t, Result("committed", "DESTROY", None))
  ELSE Send([t EXCEPT !.call.pc = "pop", !.call.ver = t.version], {Request(t.next, t.call.n, "fetch", None, Partitions)})

Committed ==
  /\ At({"committed"}, "begin")
  /\ s' = IF ~s.plan.group THEN ReturnWith(s, Result("committed", "UNKNOWN_GROUP", None)) ELSE AskGroup(s)

\* -1 is what the broker has for no offset.
Fetched(val) == [p \in Partitions |-> IF p \in DOMAIN val /\ val[p] # -1 THEN val[p] ELSE Invalid]

CommittedPop ==
  /\ At({"committed"}, "pop") /\ C.queue # <<>>
  /\ LET reply == Head(C.queue) IN
     s' = IF reply.err = "none" THEN ReturnWith(s, Result("committed", "none", Fetched(reply.val)))
          ELSE IF reply.err \in {"WAIT_COORD", "TRANSPORT"} THEN [s EXCEPT !.call.pc = "hold", !.call.queue = Tail(@)]
          ELSE ReturnWith(s, Result("committed", reply.err, None))

CommittedLate ==
  /\ At({"committed"}, "pop") /\ C.late /\ C.queue = <<>>
  /\ s' = ReturnWith(s, Result("committed", "TIMED_OUT", None))

\* Something changed since: try again.  Or nothing did until the timeout.
CommittedAgain == At({"committed"}, "hold") /\ s.version # C.ver /\ s' = AskGroup(s)

CommittedGivesUp ==
  /\ At({"committed"}, "hold") /\ C.late /\ s.version = C.ver
  /\ s' = ReturnWith(s, Result("committed", "TIMED_OUT", None))

-----------------------------------------------------------------------------
(* commit(), of given offsets, and commit_message(), of the one after the   *)
(* message.  commit_queue() without a queue is commit() with a callback.    *)

Commits == {"commit", "message"}

Given(kind) ==
  IF kind = "message" THEN [p \in {s.plan.message.part} |-> s.plan.message.offset + 1] ELSE s.plan.offsets

Commit ==
  /\ At(Commits, "begin")
  /\ LET err == IF C.kind = "message" /\ s.plan.message.err THEN "INVALID_ARG"
                ELSE IF ~s.plan.group THEN "UNKNOWN_GROUP"
                ELSE IF s.cgrp = "gone" THEN "DESTROY" ELSE "none"
     IN s' = IF err # "none" THEN ReturnWith(s, Result(C.kind, err, <<>>))
             ELSE Send([s EXCEPT !.call.pc = "pop"], {Request(s.next, C.n, "commit", None, Given(C.kind))})

\* The reply is waited for without a timeout.
CommitReturn ==
  /\ At(Commits, "pop") /\ C.queue # <<>>
  /\ s' = ReturnWith(s, Result(C.kind, Head(C.queue).err, Given(C.kind)))

-----------------------------------------------------------------------------
(* query_watermark_offsets() and offsets_for_times()                       *)

Unled(ps) == {p \in ps : s.plan.leader[p] = None}

\* Which partitions a call is about.
About == IF C.kind = "watermarks" THEN {1} ELSE Partitions

\* The leaders, asked for until the timeout.  Partitions that do not exist are
\* left out, and so are those nobody leads when the time is over.
Leaders ==
  /\ At({"watermarks", "times"}, "begin")
  /\ IF Unled(About) = About
     THEN \E e \in {"UNKNOWN_PARTITION", "TIMED_OUT"} : s' = ReturnWith(s, Result(C.kind, e, None))
     ELSE s' = [s EXCEPT !.call.pc = "send"]

\* Two requests, one for each end: the state is in progress until both are in.
WatermarksSend ==
  /\ At({"watermarks"}, "send")
  /\ s' = Send([s EXCEPT !.call.pc = "wait", !.call.err = "IN_PROGRESS", !.call.ver = s.version],
               {Request(s.next, C.n, "low", s.plan.leader[1], 1), Request(s.next + 1, C.n, "high", s.plan.leader[1], 1)})

\* One request for every leader.
TimesSend ==
  /\ At({"times"}, "send")
  /\ LET bs == {s.plan.leader[p] : p \in Partitions \ Unled(Partitions)}
         Nth(b) == s.next + Cardinality({c \in bs : c < b})
     IN s' = Send([s EXCEPT !.call.pc = "wait", !.call.wait = Cardinality(bs), !.call.asked = Partitions \ Unled(Partitions)],
                  {Request(Nth(b), C.n, "times", b, {p \in Partitions : s.plan.leader[p] = b}) : b \in bs})

\* What is on the queue is taken off it and handled one by one.
Serve ==
  /\ At({"watermarks", "times", "groups"}, "wait") /\ C.queue # <<>>
  /\ s' = [s EXCEPT !.call.pc = "serve", !.call.local = C.queue, !.call.queue = <<>>]

Handled(call) == [call EXCEPT !.local = Tail(@), !.pc = IF Len(call.local) = 1 THEN "wait" ELSE "serve"]

\* rd_kafka_query_wmark_offsets_resp_cb(): a reply without the partition is a
\* bad message, whatever the error was.
WatermarkIn(call, reply) ==
  LET e == IF reply.err \in {"TRANSPORT", "WAIT_COORD"} THEN "BAD_MSG" ELSE reply.err
      c == IF e = "none" /\ call.idx = 0 THEN [call EXCEPT !.low = reply.val]
           ELSE IF e = "none" /\ call.idx = 1 THEN [call EXCEPT !.high = reply.val] ELSE call
  IN [c EXCEPT !.idx = @ + 1, !.err = IF e # "none" \/ call.idx + 1 = 2 THEN e ELSE @, !.failed = @ \/ e # "none"]

\* rd_kafka_get_offsets_for_times_resp_cb(): the first error is kept.
TimesIn(call, reply) ==
  [call EXCEPT !.wait = @ - 1, !.err = IF reply.err # "none" /\ @ = "none" THEN reply.err ELSE @,
               !.got = IF reply.err = "none" THEN Append(@, reply.val) ELSE @]

OffsetIn(call, reply) == IF call.kind = "watermarks" THEN WatermarkIn(call, reply) ELSE TimesIn(call, reply)

\* rd_kafka_handle_Offset() tries again as often as a request may be.  After
\* that the callback waits for a change of the brokers, in offsets_for_times()
\* not at all.
HandleOffset ==
  /\ At({"watermarks", "times"}, "serve")
  /\ LET reply == Head(C.local) IN
     s' = IF reply.err = "TRANSPORT" /\ reply.req.retries < MaxRetries
          THEN Retried([s EXCEPT !.call = Handled(C)], [reply.req EXCEPT !.retries = @ + 1])
          ELSE IF reply.err \in {"TRANSPORT", "WAIT_COORD"} THEN [s EXCEPT !.call.pc = "hold"]
          ELSE [s EXCEPT !.call = OffsetIn(Handled(C), reply)]

HandleAgain ==
  /\ At({"watermarks", "times"}, "hold") /\ s.version # C.ver
  /\ s' = Retried([s EXCEPT !.call = [Handled(C) EXCEPT !.ver = s.version]], [Head(C.local).req EXCEPT !.retries = 0])

HandleGivesUp ==
  /\ At({"watermarks", "times"}, "hold") /\ (C.late \/ C.kind = "times") /\ s.version = C.ver
  /\ s' = [s EXCEPT !.call = OffsetIn(Handled(C), Head(C.local))]

\* The lower one is the low one: the order of the replies is not known.  An
\* empty partition has one offset only.
WatermarksResult ==
  LET lo == IF C.low < C.high THEN C.low ELSE C.high
      hi == IF C.low < C.high THEN C.high ELSE C.low
  IN <<IF lo < 0 /\ hi >= 0 THEN hi ELSE lo, hi>>

\* The timeout of the call is not looked at.
WatermarksReturn ==
  /\ At({"watermarks"}, "wait") /\ C.err # "IN_PROGRESS"
  /\ s' = ReturnWith(s, [Result("watermarks", C.err, IF C.err = "none" THEN WatermarksResult ELSE None) EXCEPT !.failed = C.failed])

\* The first value a partition got, and what the caller had if it got none.
Updated(got) ==
  [p \in Partitions |->
     LET with == SelectSeq(got, LAMBDA v : p \in DOMAIN v) IN IF with = <<>> THEN Invalid ELSE with[1][p]]

TimesErrHasty == C.err

TimesErr == IF C.wait > 0 /\ C.err = "none" THEN "TIMED_OUT" ELSE C.err

TimesReturn ==
  /\ At({"times"}, "wait") /\ (C.wait = 0 \/ C.late)
  /\ s' = ReturnWith(s, Result("times", TimesErr, IF TimesErr = "none" THEN Updated(C.got) ELSE None))

-----------------------------------------------------------------------------
(* list_groups()                                                           *)

Brokers == DOMAIN s.plan.groups

\* The version is the one the call began with, so that after a change the wait
\* does not block and does not end by the timeout either.
GroupsGiveUp ==
  /\ At({"groups"}, "begin") /\ s.meta = "none" /\ C.late /\ s.version = C.ver
  /\ s' = ReturnWith(s, Result("groups", "TIMED_OUT", None))

GroupsSend ==
  /\ At({"groups"}, "begin") /\ s.meta # "none"
  /\ s' = IF Brokers = {} THEN ReturnWith(s, Result("groups", "TRANSPORT", None))
          ELSE Send([s EXCEPT !.call.pc = "wait", !.call.wait = Cardinality(Brokers)],
                    {Request(s.next + Cardinality({c \in Brokers : c < b}), C.n, "list", b, None) : b \in Brokers})

Desired(gs) == IF s.plan.desired = None THEN gs ELSE gs \cap {s.plan.desired}

\* rd_kafka_ListGroups_resp_cb(): the groups it has are asked about.  An error
\* is what the last reply had.
ListIn(reply) ==
  LET c == [Handled(C) EXCEPT !.wait = @ - 1]
      ask == Desired(reply.val)
  IN IF reply.err # "none" THEN [s EXCEPT !.call = [c EXCEPT !.err = reply.err]]
     ELSE IF reply.val = {} THEN [s EXCEPT !.call = c]
     ELSE IF ask = {} THEN [s EXCEPT !.call = [c EXCEPT !.err = "none"]]
     ELSE Send([s EXCEPT !.call = [c EXCEPT !.wait = @ + 1, !.err = "none"]],
               {Request(s.next, c.n, "describe", reply.req.broker, ask)})

\* rd_kafka_DescribeGroups_resp_cb()
DescribeIn(reply) ==
  [s EXCEPT !.call = [Handled(C) EXCEPT !.wait = @ - 1, !.err = reply.err, !.groups = IF reply.err = "none" THEN @ \cup reply.val ELSE @]]

HandleGroups ==
  /\ At({"groups"}, "serve")
  /\ LET reply == Head(C.local) IN s' = IF reply.req.kind = "list" THEN ListIn(reply) ELSE DescribeIn(reply)

\* Groups that came in time are returned with PARTIAL if some did not.
GroupsReturn ==
  /\ At({"groups"}, "wait") /\ (C.wait = 0 \/ C.late)
  /\ s' = ReturnWith(s, IF C.wait > 0 /\ C.err = "none"
                        THEN IF C.groups = {} THEN Result("groups", "TIMED_OUT", None) ELSE Result("groups", "PARTIAL", C.groups)
                        ELSE Result("groups", C.err, IF C.err = "none" THEN C.groups ELSE None))

-----------------------------------------------------------------------------
(* clusterid() and controllerid(): from the metadata, if it has them.       *)

IdsReturn ==
  /\ At({"cluster", "controller"}, "begin")
  /\ \/ s.meta = "ids" /\ s' = ReturnWith(s, Result(C.kind, "none", "id"))
     \/ s.meta = "old" /\ s' = ReturnWith(s, Result(C.kind, "none", None))
     \/ s.meta = "none" /\ C.late /\ s' = ReturnWith(s, Result(C.kind, "none", None))

-----------------------------------------------------------------------------
(* What changes meanwhile: brokers, the group, the metadata.                *)

Changed(t) == [t EXCEPT !.version = @ + 1]

BrokerChange == s.version < MaxVersion /\ "brokers" \in s.plan.moves /\ s' = Changed(s)

GroupChange ==
  /\ s.version < MaxVersion /\ s.cgrp # "gone" /\ "group" \in s.plan.moves
  /\ \E c \in {"up", "down", "gone"} \ {s.cgrp} : s' = Changed([s EXCEPT !.cgrp = c])

Metadata ==
  /\ s.version < MaxVersion /\ s.meta = "none" /\ "metadata" \in s.plan.moves
  /\ \E m \in {"ids", "old"} : s' = Changed([s EXCEPT !.meta = m])

\* The application in its call.
App ==
  \/ Position \/ GetWatermarks
  \/ Commit \/ CommitReturn
  \/ Committed \/ CommittedPop \/ CommittedLate \/ CommittedAgain \/ CommittedGivesUp
  \/ Leaders \/ WatermarksSend \/ TimesSend \/ Serve \/ HandleOffset \/ HandleAgain \/ HandleGivesUp
  \/ WatermarksReturn \/ TimesReturn
  \/ GroupsGiveUp \/ GroupsSend \/ HandleGroups \/ GroupsReturn
  \/ IdsReturn

Next == Call \/ App \/ Expire \/ Answer \/ AnswerCommit \/ LagTimer \/ LagReply \/ BrokerChange \/ GroupChange \/ Metadata

(***************************************************************************)
(* The thread of the application runs, time passes, and every request ends: *)
(* with a reply, or with the timeout of its broker.                         *)
(***************************************************************************)
Here == s.mod = "SyncCalls"

AppCan ==
  \/ At({"position", "get", "committed", "watermarks", "times"} \cup Commits, "begin")
  \/ At(Commits, "pop") /\ C.queue # <<>>
  \/ At({"committed"}, "pop") /\ (C.queue # <<>> \/ C.late)
  \/ At({"committed", "watermarks", "times"}, "hold") /\ (s.version # C.ver \/ C.late \/ C.kind = "times")
  \/ At({"watermarks", "times"}, "send")
  \/ At({"watermarks", "times", "groups"}, "serve")
  \/ At({"watermarks"}, "wait") /\ (C.queue # <<>> \/ C.err # "IN_PROGRESS")
  \/ At({"times", "groups"}, "wait") /\ (C.queue # <<>> \/ C.wait = 0 \/ C.late)
  \/ At({"groups"}, "begin") /\ (s.meta # "none" \/ (C.late /\ s.version = C.ver))
  \/ At({"cluster", "controller"}, "begin") /\ (s.meta # "none" \/ C.late)

CallRequests == {r \in s.reqs : r.kind # "lag"}

Fairness ==
  /\ []<>~(Here /\ AppCan) \/ []<><<Here /\ App>>_s
  /\ []<>~(Here /\ s.call # None /\ ~C.late) \/ []<><<Here /\ Expire>>_s
  /\ []<>~(Here /\ CallRequests # {}) \/ []<><<Here /\ (Answer \/ AnswerCommit)>>_s

Spec == Init /\ [][Next]_s /\ Fairness

(***************************************************************************)
(* Properties                                                               *)
(***************************************************************************)

OfCall(n) == {r \in s.reqs : r.call = n}

(* No reply is applied to the stack of a call other than the one that asked, *)
(* however late it comes, and the queue of a call holds its replies only.    *)
OwnReplies ==
  /\ ~s.touched
  /\ s.call # None => \A i \in DOMAIN C.queue : C.queue[i].req.call = C.n

(* The replies a call waits for are those that are at the brokers, on its    *)
(* queue or being handled, whatever was retried.                             *)
WaitExact ==
  s.call # None =>
    LET open == Cardinality(OfCall(C.n)) + Len(C.queue) + Len(C.local) IN
    /\ (C.kind \in {"times", "groups"} /\ C.pc # "begin" /\ C.pc # "send") => C.wait = open
    /\ (C.kind = "watermarks" /\ C.pc \in {"wait", "serve", "hold"}) => C.idx + open = 2
    /\ (C.kind \in Commits \cup {"committed"} /\ s.cgrp # "gone") => open = (IF C.pc = "pop" THEN 1 ELSE 0)

R(i) == s.results[i]

\* What the group can have for a partition when the i-th call is answered: what
\* the last commit() that succeeded wrote, or one that failed after it.
Possible(i, p) ==
  LET wrote == {j \in 1..(i - 1) : R(j).kind \in Commits /\ p \in DOMAIN R(j).val}
      good == {j \in wrote : R(j).err = "none"}
  IN {R(j).val[p] : j \in {k \in wrote : \A g \in good : g <= k}}
       \cup (IF good = {} THEN {s.plan.truth[p].committed} ELSE {})

(* A call that reports success reports what the brokers have: all offsets of *)
(* the partitions that are led, the offsets the group committed last, and    *)
(* both watermarks in their order.  One success is not the truth: when the first  *)
(* of the two replies for the watermarks fails and the second is served with *)
(* it, its error is overwritten (rdkafka.c:3041) and the one offset that     *)
(* came is returned as both watermarks.                                      *)
SuccessTruthful ==
  \A i \in DOMAIN s.results :
    R(i).err = "none" =>
      /\ R(i).kind = "times" =>
           \A p \in Partitions : R(i).val[p] = IF s.plan.leader[p] = None THEN Invalid ELSE s.plan.truth[p].time
      /\ R(i).kind = "committed" =>
           \A p \in Partitions : R(i).val[p] \in {IF o = -1 THEN Invalid ELSE o : o \in Possible(i, p)}
      /\ R(i).kind = "watermarks" =>
           LET low == s.plan.truth[1].low
               high == s.plan.truth[1].high
           IN R(i).val \in IF R(i).failed THEN {<<low, low>>, <<high, high>>} ELSE {<<low, high>>}

(* Groups that are returned exist and are the ones asked for.  They are      *)
(* called partial only if there are some.                                    *)
GroupsTruthful ==
  \A i \in DOMAIN s.results :
    (R(i).kind = "groups" /\ R(i).err \in {"none", "PARTIAL"}) =>
      /\ R(i).val \subseteq Desired(UNION {s.plan.groups[b] : b \in Brokers})
      /\ R(i).err = "PARTIAL" => R(i).val # {}
      /\ s.plan.faults = {} /\ R(i).err = "none" => R(i).val = Desired(UNION {s.plan.groups[b] : b \in Brokers})

(* The low watermark is asked for once at a time.                            *)
LagOnce == Cardinality({r \in s.reqs : r.kind = "lag"}) = (IF s.lag THEN 1 ELSE 0)

(* The blocking calls keep to their own replies and report the truth, but for *)
(* the watermarks of SuccessTruthful.                                        *)
CallsSound == OwnReplies /\ WaitExact /\ SuccessTruthful /\ GroupsTruthful /\ LagOnce

(* Every call returns, with two exceptions: list_groups(), which goes on     *)
(* after its timeout if the brokers change and no metadata comes, and        *)
(* commit() without a timeout, if the group ends with the operation on its   *)
(* queue and drops it without a reply (rdkafka_cgrp.c:1430).                 *)
CallsReturn ==
  []<>(Here /\ s.call # None =>
         \/ C.kind = "groups" /\ s.meta = "none" /\ s.version # C.ver
         \/ C.kind \in Commits /\ s.cgrp = "gone")
=============================================================================
