--------------------------- MODULE FetchPartition ---------------------------
(***************************************************************************)
(* The fetcher of one partition of a librdkafka consumer: where it reads,  *)
(* and what reaches the application.  Four kinds of threads share it.      *)
(*  - Application threads call consume_start(), consume_stop(), seek(),    *)
(*    pause and resume, and consume().  A controlling call takes a new     *)
(*    version of the partition and then enqueues an operation with it.     *)
(*  - The main thread serves the partition's queue rktp_ops: those         *)
(*    operations, and the replies to offset look-ups and commits.          *)
(*  - Each broker thread decides whether to fetch, sends Fetch requests    *)
(*    and puts the messages of the reply on rktp_fetchq.                   *)
(*  - The brokers (external) answer, and the partition's leader moves.     *)
(* The log is fixed: messages 0 .. Hi-1.  Logical offsets are the negative *)
(* numbers of rdkafka.h.                                                   *)
(***************************************************************************)
EXTENDS Integers, Sequences, SequencesExt, FiniteSets

CONSTANTS
  Threads,      \* application threads
  Brokers,      \* brokers that may lead the partition
  Internal,     \* the internal broker, which holds partitions without leader
  None,         \* no broker, no thread
  Hi,           \* high watermark of the partition
  QueuedMin,    \* queued.min.messages
  Plans,        \* the configurations and applications that are explored
  MaxResets     \* bound on the fetches from an offset that does not exist

INVALID == -1001
STORED == -1000
BEGINNING == -2
END == -1
TAIL_BASE == -2000

VARIABLES
  plan,         \* the configuration and what the application does
  s,            \* the partition: rd_kafka_toppar_t with its queues and requests
  version,      \* rktp_version, the application's side of the version barrier
  app,          \* per application thread: the call it is in
  br,           \* per broker thread: its queue, and its Fetch request
  srv,          \* the offset committed in the group (external)
  seen,         \* history: what the application was promised and got, and
                \* what the main thread did to it
  spent         \* calls and faults so far

vars == <<plan, s, version, app, br, srv, seen, spent>>

\* A plan: auto.offset.reset, auto.commit.interval.ms > 0, the offset the group
\* committed before; the offsets consume_start() and seek() are called with;
\* whether pause and resume are called, "paired" (what is paused is resumed) or
\* in "any" order; the threads that call, and the one that consumes; the brokers
\* that lead; whether an Offset request may fail; and bounds on the calls and on
\* the faults (failed requests and changes of leader).
AutoReset == plan.reset
AutoCommit == plan.commit
Starts == plan.starts
Seeks == plan.seeks
Pauses == plan.pauses
MaxCalls == plan.calls
MaxFaults == plan.faults

AllBrokers == Brokers \cup {Internal}
Started(state) == state \in {"QUERY", "WAIT", "ACTIVE"}

InCall(kinds) == \E u \in Threads : /\ app[u].pc \in {"bumped", "wait"}
                                    /\ app[u].kind \in kinds

Init ==
  /\ plan \in Plans
  /\ s = [op_version |-> 0, fetch_version |-> 0, state |-> "NONE",
          query |-> INVALID, next |-> INVALID, last_next |-> INVALID,
          app |-> INVALID,
          stored |-> INVALID, committing |-> INVALID,
          committed |-> INVALID,
          fetch |-> FALSE, offset |-> 0, eof |-> INVALID, eof_fin |-> INVALID,
          paused |-> FALSE, store |-> FALSE, stopping |-> FALSE,
          cgrp |-> FALSE, replyq |-> None, tmr |-> FALSE, ctmr |-> FALSE,
          backoff |-> FALSE, leader |-> CHOOSE b \in plan.leaders : TRUE,
          next_leader |-> None, ops |-> <<>>, fetchq |-> <<>>,
          queries |-> [b \in Brokers |-> <<>>], lookups |-> <<>>,
          commits |-> <<>>, replies |-> {}, assert |-> TRUE]
  /\ version = 0
  /\ app = [t \in Threads |-> [pc |-> "idle"]]
  /\ br = [b \in AllBrokers |-> [ops |-> <<>>, req |-> <<>>]]
  /\ srv = plan.committed
  /\ seen = [stopped |-> TRUE, paused |-> FALSE, want |-> {}, fresh |-> FALSE,
             since |-> 0, reset |-> FALSE, adrift |-> FALSE, lost |-> {},
             due |-> INVALID, crossed |-> FALSE]
  /\ spent = [calls |-> 0, faults |-> 0, resets |-> 0]

-----------------------------------------------------------------------------
(* Offsets: looking one up, resetting, and taking the result.              *)

\* `made' is the version the operation belongs to, for the properties.
Op(kind, v, off, err, from) ==
  [op |-> kind, v |-> v, off |-> off, err |-> err, from |-> from, made |-> v]

Msg(kind, v, off) == [kind |-> kind, v |-> v, off |-> off]

\* The timer is (re)started; it runs until offset_request() or a stop ends it.
OffsetRetry(t) == [t EXCEPT !.tmr = TRUE, !.state = "QUERY"]

OffsetRequest(t, q) ==
  CASE t.leader \in {None, Internal} -> OffsetRetry(t)
    [] t.leader \in Brokers /\ q = STORED ->
         [t EXCEPT !.tmr = FALSE, !.state = "WAIT",
                   !.lookups = Append(@, t.op_version)]
    [] OTHER ->
         [t EXCEPT !.tmr = FALSE, !.state = "WAIT",
                   !.queries[t.leader] =
                     Append(@, [v |-> t.op_version,
                                q |-> IF q <= TAIL_BASE THEN END ELSE q])]

OffsetReset(t, off, err) ==
  LET Go(to) ==
        IF to = INVALID
        THEN [t EXCEPT !.fetchq = Append(@, Msg("ERR", 0, off)),
                       !.state = "NONE"]
        ELSE OffsetRequest([t EXCEPT !.query = to, !.state = "QUERY"], to)
  IN  Go(IF off = INVALID \/ err THEN AutoReset ELSE off)

\* An absolute offset is fetched from, counting back from it for a TAIL query.
NextOffsetHandle(t, off) ==
  LET Back(n) == IF n > off THEN 0 ELSE off - n
  IN  IF off < 0
      THEN OffsetReset([t EXCEPT !.next = off], off, FALSE)
      ELSE [t EXCEPT !.state = "ACTIVE",
                     !.next = IF t.query <= TAIL_BASE
                              THEN Back(TAIL_BASE - t.query) ELSE off]

\* The reply to an Offset request, checked against the leader and the version.
HandleOffset(t, o) ==
  IF t.leader # o.from \/ o.v < t.op_version THEN OffsetRetry(t)
  ELSE IF o.err
  THEN LET r == OffsetReset(t, t.query, TRUE)
       IN  [r EXCEPT !.fetchq = Append(@, Msg("ERR", 0, 0))]
  ELSE NextOffsetHandle(t, o.off)

\* (Mutant) A failed look-up of the committed offset is not tried again.
HandleStoredGivesUp(t, o) ==
  IF o.err THEN [t EXCEPT !.fetchq = Append(@, Msg("ERR", 0, 0))]
  ELSE IF o.off >= 0 THEN NextOffsetHandle([t EXCEPT !.tmr = FALSE], o.off)
  ELSE OffsetReset([t EXCEPT !.tmr = FALSE], o.off, TRUE)

\* The reply to an OffsetFetch: the group's committed offset.
HandleStored(t, o) ==
  IF o.err
  THEN [OffsetRetry([t EXCEPT !.tmr = FALSE])
          EXCEPT !.fetchq = Append(@, Msg("ERR", 0, 0))]
  ELSE IF o.off >= 0
  THEN NextOffsetHandle([t EXCEPT !.tmr = FALSE,
                                  !.committed = IF o.off > 0 THEN o.off ELSE @],
                        o.off)
  ELSE OffsetReset([t EXCEPT !.tmr = FALSE], o.off, TRUE)

\* The offset query timer.  It may still run when the position is known.
TimerFires ==
  /\ s.tmr
  /\ s' = OffsetRequest(s, s.query)
  /\ seen' = [seen EXCEPT !.adrift = @ \/ s.state # "QUERY"]
  /\ UNCHANGED <<plan, version, app, br, srv, spent>>

-----------------------------------------------------------------------------
(* Stopping: the final commit, and the answer to consume_stop().           *)

FetchStopped(t, err) ==
  [t EXCEPT !.state = "STOPPED", !.app = INVALID, !.cgrp = FALSE,
            !.replies = IF t.replyq = None THEN @
                        ELSE @ \cup {[to |-> t.replyq, err |-> err]},
            !.replyq = None]

StoreTerm(t, err) ==
  FetchStopped([t EXCEPT !.stopping = FALSE, !.ctmr = FALSE], err)

\* offset_commit(): "none", "prev" or "progress" is what it returns.
CommitVerdict(t) ==
  CASE t.stored <= t.committed -> "none"
    [] t.stored > t.committed /\ t.stored <= t.committing -> "prev"
    [] OTHER -> "progress"

BrokerCommit(t) ==
  [t EXCEPT !.committing = t.stored, !.commits = Append(@, t.stored),
            !.assert = @ /\ t.cgrp /\ t.store]

\* (Mutant) The stop does not wait for the commit it starts.
StoreStopHurried(t) ==
  LET After(u) == StoreTerm(IF CommitVerdict(u) = "progress"
                            THEN BrokerCommit(u) ELSE u, FALSE)
  IN  IF ~t.store THEN StoreTerm(t, FALSE) ELSE After(t)

StoreStop(t) ==
  LET After(u) ==
        CASE CommitVerdict(u) = "none" -> StoreTerm(u, FALSE)
          [] CommitVerdict(u) = "prev" -> StoreTerm(u, TRUE)
          [] OTHER -> BrokerCommit(u)
  IN  IF ~t.store THEN StoreTerm(t, FALSE)
      ELSE After([t EXCEPT !.stopping = TRUE,
                           !.stored = IF @ = INVALID /\ t.eof_fin > 0
                                      THEN t.eof_fin ELSE @])

CommitResult(t, o) ==
  IF o.err THEN [t EXCEPT !.fetchq = Append(@, Msg("ERR", 0, 0))]
  ELSE IF t.state = "STOPPING"
  THEN FetchStopped([t EXCEPT !.committed = o.off], FALSE)
  ELSE [t EXCEPT !.committed = o.off]

\* (Mutant) A failed commit does not end the stop.
BrokerCommitCbStuck(t, o) == [CommitResult(t, o) EXCEPT !.committing = 0]

BrokerCommitCb(t, o) ==
  LET After(u) == IF u.stopping THEN StoreTerm(u, o.err) ELSE u
  IN  After([CommitResult(t, o) EXCEPT !.committing = 0])

\* The auto-commit timer of a simple consumer.
CommitTimer ==
  /\ s.ctmr
  /\ CommitVerdict(s) = "progress"
  /\ s' = BrokerCommit(s)
  /\ UNCHANGED <<plan, version, app, br, srv, seen, spent>>

-----------------------------------------------------------------------------
(* The operations of rktp_ops, served by the main thread.                  *)

StoreInit(t) ==
  OffsetReset([t EXCEPT !.committed = INVALID, !.ctmr = AutoCommit,
                        !.store = TRUE],
              STORED, FALSE)

FetchStart(t, o) ==
  LET At(u) == CASE o.off \in {BEGINNING, END} \/ o.off <= TAIL_BASE ->
                      NextOffsetHandle(u, o.off)
                 [] o.off = STORED -> StoreInit(u)
                 [] o.off = INVALID -> OffsetReset(u, o.off, TRUE)
                 [] OTHER -> [u EXCEPT !.next = o.off, !.state = "ACTIVE"]
  IN  IF t.state = "STOPPING" THEN t
      ELSE [At([t EXCEPT !.op_version = o.v, !.assert = @ /\ ~t.cgrp,
                         !.cgrp = TRUE]) EXCEPT !.eof_fin = INVALID]

FetchStop(t, o) ==
  StoreStop([t EXCEPT !.op_version = o.v,
                      !.tmr = IF t.state = "QUERY" THEN FALSE ELSE @,
                      !.assert = @ /\ t.replyq = None,
                      !.replyq = o.from, !.state = "STOPPING"])

Seek(t, o) ==
  LET Refused == ~Started(t.state) \/ o.off = STORED
      At(u) == IF o.off < 0 THEN NextOffsetHandle(u, o.off)
               ELSE [u EXCEPT !.next = o.off, !.state = "ACTIVE"]
      Moved == IF Refused THEN t
               ELSE At([t EXCEPT !.op_version = o.v,
                                 !.tmr = IF t.state = "QUERY" THEN FALSE
                                         ELSE @])
  IN  [Moved EXCEPT !.replies = @ \cup {[to |-> o.from, err |-> Refused]}]

\* The leading operations of the fetch queue that are older than v go.
Purged(q, v) ==
  LET Keep == SelectInSeq(q, LAMBDA m : m.v >= v)
  IN  IF Keep = 0 THEN <<>> ELSE SubSeq(q, Keep, Len(q))

\* (Mutant) The position of the application is not saved.
PauseForgets(t, o) ==
  [t EXCEPT !.op_version = o.v, !.paused = TRUE, !.fetchq = Purged(@, o.v)]

Pause(t, o) ==
  [t EXCEPT !.op_version = o.v, !.paused = TRUE,
            !.next = IF t.app # INVALID THEN t.app ELSE @,
            !.fetchq = Purged(@, o.v)]

Resume(t, o) ==
  LET After(u) == IF u.state \in {"ACTIVE", "WAIT"} /\ u.next = INVALID
                  THEN NextOffsetHandle(u, u.next) ELSE u
  IN  After([t EXCEPT !.op_version = o.v, !.paused = FALSE])

OpOutdated(o, v) == o.v # 0 /\ o.v < v

\* An outdated operation is destroyed, its reply queue with it.  Responses to
\* requests and offset resets do not take that path.
ServeOp(t, o) ==
  CASE o.op = "OFFSET" -> HandleOffset(t, o)
    [] o.op = "RESET" -> OffsetReset(t, o.off, o.err)
    [] o.op \notin {"OFFSET", "RESET"} /\ OpOutdated(o, t.op_version) -> t
    [] o.op = "START" /\ ~OpOutdated(o, t.op_version) -> FetchStart(t, o)
    [] o.op = "STOP" /\ ~OpOutdated(o, t.op_version) -> FetchStop(t, o)
    [] o.op = "SEEK" /\ ~OpOutdated(o, t.op_version) -> Seek(t, o)
    [] o.op = "PAUSE" /\ ~OpOutdated(o, t.op_version) -> Pause(t, o)
    [] o.op = "RESUME" /\ ~OpOutdated(o, t.op_version) -> Resume(t, o)
    [] o.op = "STORED" /\ ~OpOutdated(o, t.op_version) -> HandleStored(t, o)
    [] o.op = "COMMITTED" -> BrokerCommitCb(t, o)

\* History of the main thread, for the properties.  An operation moves the
\* partition when it is an effective start, stop or seek.
Calls == {"START", "STOP", "SEEK", "PAUSE", "RESUME"}

Moves(o) == /\ o.op \in {"START", "STOP", "SEEK"}
            /\ ~OpOutdated(o, s.op_version)
            /\ s'.op_version = o.v

\* The older calls it overtakes, whose operations will be outdated and dropped.
Overtaken(o) ==
  IF o.op \notin Calls THEN {}
  ELSE {app[u].v : u \in {u \in Threads : app[u].pc = "bumped"
                                          /\ app[u].v < o.v}}
       \cup {s.ops[i].v : i \in {i \in DOMAIN s.ops : s.ops[i].op \in Calls
                                                    /\ s.ops[i].v < o.v}}

\* It puts the partition elsewhere than the application asked for: an Offset
\* reply or a reset that belongs to the time before the last move; a second
\* answer to a look-up; a second reset; a pause that saves a position from
\* before a seek, or misses the message being consumed; a resume without pause.
Disturbs(o) ==
  \/ o.op \in {"OFFSET", "RESET"} /\ o.made < seen.since
  \/ o.op \in {"OFFSET", "STORED"} /\ s.state # "WAIT"
  \/ o.op = "RESET" /\ seen.reset
  \/ /\ o.op = "PAUSE"
     /\ \/ seen.fresh /\ s.app # INVALID
        \/ \E u \in Threads : app[u].pc = "popped"
  \/ o.op = "RESUME" /\ ~s.paused

\* It is a stop, and an earlier commit has not been answered.
Crosses(o) == /\ o.op = "STOP"
              /\ \/ s.commits # <<>>
                 \/ \E i \in DOMAIN s.ops : s.ops[i].op = "COMMITTED"

MainServe ==
  /\ s.ops # <<>>
  /\ s' = ServeOp([s EXCEPT !.ops = Tail(@)], Head(s.ops))
  /\ LET o == Head(s.ops)
     IN  seen' = [seen EXCEPT
                    !.since = IF Moves(o) THEN o.v ELSE @,
                    !.reset = ~Moves(o) /\ (@ \/ o.op = "RESET"),
                    !.adrift = ~Moves(o) /\ (@ \/ Disturbs(o)),
                    !.lost = @ \cup Overtaken(o),
                    !.crossed = IF o.op = "STOP" THEN Crosses(o) ELSE @]
  /\ UNCHANGED <<plan, version, app, br, srv, spent>>

-----------------------------------------------------------------------------
(* The broker threads.                                                     *)

\* A new version or a new position restarts the fetch offsets; should_fetch
\* then depends on the state, the pause, the position and the queue.
FetchDecide(t, forced) ==
  LET Active == ~forced /\ t.state = "ACTIVE"
      Renewed ==
        IF Active /\ (\/ t.op_version > t.fetch_version
                      \/ t.next # t.last_next)
        THEN [t EXCEPT !.offset = t.next, !.last_next = t.next,
                       !.eof = INVALID, !.fetch_version = t.op_version,
                       !.fetchq = Purged(@, t.op_version)]
        ELSE t
      Decided(u) ==
        [u EXCEPT !.eof_fin = u.eof,
                  !.fetch = /\ Active
                            /\ ~u.paused
                            /\ u.next >= 0
                            /\ Len(u.fetchq) < QueuedMin
                            /\ ~u.backoff]
  IN  Decided(Renewed)

\* One turn of a broker's loop: decide, and fetch unless a request is out.
BrokerServe(b) ==
  LET Fetching(t) ==
        /\ s' = t
        /\ br' = IF t.fetch /\ br[b].req = <<>>
                 THEN [br EXCEPT ![b].req = <<[v |-> t.fetch_version,
                                               off |-> t.offset]>>]
                 ELSE br
  IN  /\ b \in Brokers
      /\ s.leader = b
      /\ Fetching(FetchDecide(s, FALSE))
      /\ UNCHANGED <<plan, version, app, srv, seen, spent>>

\* A reply is for this broker's partition, and for the current fetch version.
ReplyValid(b, r) == s.leader = b /\ r.v >= s.fetch_version

\* Messages from the requested offset to `last'; those before the fetch
\* offset are dropped.
FetchedMessages(t, r, last) ==
  [t EXCEPT
    !.fetchq = @ \o [i \in 1 .. (last + 1 - (IF t.offset > r.off THEN t.offset
                                             ELSE r.off)) |->
                       Msg("MSG", r.v,
                           (IF t.offset > r.off THEN t.offset ELSE r.off)
                             + i - 1)],
    !.offset = IF last + 1 > @ THEN last + 1 ELSE @]

FetchReplyHandle(t, r, last) ==
  CASE Hi = t.offset /\ t.eof # t.offset -> [t EXCEPT !.eof = t.offset]
    [] ~(Hi = t.offset /\ t.eof # t.offset) /\ r.off \notin 0 .. Hi ->
         [t EXCEPT !.ops = Append(@, [Op("RESET", 0, t.offset, TRUE, None)
                                        EXCEPT !.made = t.fetch_version]),
                   !.offset = INVALID, !.backoff = TRUE]
    [] ~(Hi = t.offset /\ t.eof # t.offset) /\ r.off = Hi -> t
    [] OTHER -> FetchedMessages(t, r, last)

FetchReply(b) ==
  /\ br[b].req # <<>>
  /\ \E last \in {Head(br[b].req).off, Hi - 1} :
       s' = IF ReplyValid(b, Head(br[b].req))
            THEN FetchReplyHandle(s, Head(br[b].req), last) ELSE s
  /\ br' = [br EXCEPT ![b].req = <<>>]
  /\ spent' = [spent EXCEPT !.resets = @ + Len(s'.ops) - Len(s.ops)]
  /\ UNCHANGED <<plan, version, app, srv, seen>>

Fault == /\ spent.faults < MaxFaults
         /\ spent' = [spent EXCEPT !.faults = @ + 1]

\* The request fails as a whole, or the partition has an error in the reply:
\* that of a lost leader, or one that the application is told of.
FetchFails(b) ==
  /\ br[b].req # <<>>
  /\ Fault
  /\ \/ s' = s
     \/ /\ ReplyValid(b, Head(br[b].req))
        /\ \/ s' = [s EXCEPT !.backoff = TRUE]
           \/ s' = [s EXCEPT !.backoff = TRUE,
                             !.fetchq = Append(@, Msg("ERR",
                                                      Head(br[b].req).v, 0))]
  /\ br' = [br EXCEPT ![b].req = <<>>]
  /\ UNCHANGED <<plan, version, app, srv, seen>>

\* fetch.error.backoff.ms is over, whether or not the main thread has served
\* the reset meanwhile.
BackoffEnds ==
  /\ s.backoff
  /\ spent.resets < MaxResets
  /\ s' = [s EXCEPT !.backoff = FALSE]
  /\ UNCHANGED <<plan, version, app, br, srv, seen, spent>>

\* The partition leaves its old leader's thread before it joins the new one.
PartitionLeave(b) ==
  /\ br[b].ops # <<>> /\ Head(br[b].ops) = "LEAVE"
  /\ LET Left == [br EXCEPT ![b].ops = Tail(@)]
     IN  IF s.leader # b THEN s' = s /\ br' = Left
         ELSE /\ s' = [FetchDecide(s, TRUE) EXCEPT !.leader = None]
              /\ br' = IF s.next_leader = None THEN Left
                       ELSE [Left EXCEPT ![s.next_leader].ops =
                                           Append(@, "JOIN")]
  /\ UNCHANGED <<plan, version, app, srv, seen, spent>>

PartitionJoin(b) ==
  /\ br[b].ops # <<>> /\ Head(br[b].ops) = "JOIN"
  /\ LET Taken == [br EXCEPT ![b].ops = Tail(@)]
     IN  IF s.next_leader # b
         THEN /\ br' = [Taken EXCEPT ![s.next_leader].ops = Append(@, "JOIN")]
              /\ s' = s
         ELSE /\ br' = Taken
              /\ s' = [s EXCEPT !.leader = b, !.next_leader = None]
  /\ UNCHANGED <<plan, version, app, srv, seen, spent>>

\* Metadata names another leader, or none (the internal broker then).
Delegate(b) ==
  /\ b \in plan.leaders \cup {Internal}
  /\ ~(s.leader = b /\ s.next_leader = None)
  /\ Fault
  /\ s' = [(IF s.next_leader = None /\ s.state = "WAIT" THEN OffsetRetry(s)
            ELSE s) EXCEPT !.next_leader = b]
  /\ br' = CASE s.next_leader # None -> br
             [] s.next_leader = None /\ s.leader # None ->
                  [br EXCEPT ![s.leader].ops = Append(@, "LEAVE")]
             [] OTHER -> [br EXCEPT ![b].ops = Append(@, "JOIN")]
  /\ UNCHANGED <<plan, version, app, srv, seen>>

-----------------------------------------------------------------------------
(* The brokers' answers (external).                                        *)

Answered(o) == s.ops \o <<o>>

AnswerOffset(b) ==
  /\ s.queries[b] # <<>>
  /\ \E err \in {FALSE, TRUE} :
       /\ IF err THEN plan.lookupFails /\ Fault ELSE spent' = spent
       /\ s' = [s EXCEPT !.queries[b] = Tail(@),
                         !.ops = Answered(
                           Op("OFFSET", Head(s.queries[b]).v,
                              IF Head(s.queries[b]).q = END THEN Hi ELSE 0,
                              err, b))]
  /\ UNCHANGED <<plan, version, app, br, srv, seen>>

AnswerStored ==
  /\ s.lookups # <<>>
  /\ \E err \in {FALSE, TRUE} :
       /\ IF err THEN Fault ELSE spent' = spent
       /\ s' = [s EXCEPT !.lookups = Tail(@),
                         !.ops = Answered(
                           Op("STORED", Head(s.lookups),
                              IF err THEN INVALID ELSE srv, err, None))]
  /\ UNCHANGED <<plan, version, app, br, srv, seen>>

AnswerCommit ==
  /\ s.commits # <<>>
  /\ \E err \in {FALSE, TRUE} :
       /\ IF err THEN Fault ELSE spent' = spent
       /\ srv' = IF err THEN srv ELSE Head(s.commits)
       /\ s' = [s EXCEPT !.commits = Tail(@),
                         !.ops = Answered(Op("COMMITTED", 0, Head(s.commits),
                                             err, None))]
  /\ UNCHANGED <<plan, version, app, br, seen>>

-----------------------------------------------------------------------------
(* The application's threads.                                              *)

\* Where a start or a seek puts the next message.  From the offset store that
\* is the committed offset, or one whose commit gets there first.
Target(o) ==
  LET Back(n) == IF n > Hi THEN 0 ELSE Hi - n
      Logical(q) == CASE q = BEGINNING -> {0}
                      [] q = END -> {Hi}
                      [] q <= TAIL_BASE -> {Back(TAIL_BASE - q)}
                      [] OTHER -> {}
  IN  CASE o \in 0 .. Hi -> {o}
        [] o > Hi -> Logical(AutoReset)
        [] o = STORED -> (IF srv >= 0 THEN {srv} ELSE Logical(AutoReset))
                           \cup ToSet(s.commits)
                           \cup {i \in {s.stored} : AutoCommit /\ i >= 0}
        [] OTHER -> Logical(o)

\* A controlling call takes its version; the operation follows in AppEnqueue.
Call(t, kind, off) ==
  /\ t \in plan.callers
  /\ app[t].pc = "idle"
  /\ spent.calls < MaxCalls
  /\ version' = version + 1
  /\ app' = [app EXCEPT ![t] = [pc |-> "bumped", kind |-> kind, off |-> off,
                                v |-> version + 1]]
  /\ spent' = [spent EXCEPT !.calls = @ + 1]
  /\ UNCHANGED <<plan, s, br, srv>>

\* consume_start() must not be called again before consume_stop().
ConsumeStart(t) ==
  /\ seen.stopped
  /\ \E o \in Starts :
       /\ Call(t, "START", o)
       /\ seen' = [seen EXCEPT !.stopped = FALSE, !.fresh = TRUE,
                               !.want = Target(o)]

ConsumeStop(t) ==
  /\ ~seen.stopped
  /\ ~InCall({"START", "STOP"})
  /\ Call(t, "STOP", 0)
  /\ seen' = [seen EXCEPT !.fresh = FALSE, !.due = s.stored]

SeekTo(t) ==
  /\ ~seen.stopped
  /\ ~InCall({"START", "STOP"})
  /\ \E o \in Seeks :
       /\ Call(t, "SEEK", o)
       /\ seen' = [seen EXCEPT !.fresh = TRUE, !.want = Target(o)]

PauseResume(t) ==
  /\ Pauses # "never"
  /\ ~seen.stopped
  /\ \E kind \in {"PAUSE", "RESUME"} :
       /\ Pauses = "paired" => (kind = "RESUME") = seen.paused
       /\ Call(t, kind, 0)
       /\ seen' = [seen EXCEPT !.paused = (kind = "PAUSE")]

\* consume_stop() waits without a limit, seek() for its time-out.
AppEnqueue(t) ==
  /\ app[t].pc = "bumped"
  /\ s' = [s EXCEPT !.ops = Append(@, Op(app[t].kind, app[t].v, app[t].off,
                                         FALSE, <<t, app[t].v>>))]
  /\ app' = [app EXCEPT ![t] = IF app[t].kind \in {"STOP", "SEEK"}
                               THEN [app[t] EXCEPT !.pc = "wait"]
                               ELSE [pc |-> "idle"]]
  /\ UNCHANGED <<plan, version, br, srv, seen, spent>>

AppReturn(t) ==
  /\ app[t].pc = "wait"
  /\ \E r \in s.replies :
       /\ r.to = <<t, app[t].v>>
       /\ s' = [s EXCEPT !.replies = @ \ {r}]
  /\ app' = [app EXCEPT ![t] = [pc |-> "idle"]]
  /\ seen' = IF app[t].kind = "STOP" THEN [seen EXCEPT !.stopped = TRUE]
             ELSE seen
  /\ UNCHANGED <<plan, version, br, srv, spent>>

\* A reply that comes later finds its queue disabled.
SeekTimesOut(t) ==
  /\ app[t].pc = "wait" /\ app[t].kind = "SEEK"
  /\ app' = [app EXCEPT ![t] = [pc |-> "idle"]]
  /\ UNCHANGED <<plan, s, version, br, srv, seen, spent>>

\* consume(): operations of an old version are dropped, the next one is taken.
Fresh == SelectInSeq(s.fetchq, LAMBDA m : ~OpOutdated(m, version))

Pop(t) ==
  /\ t = plan.consumer
  /\ app[t].pc = "idle"
  /\ s.fetchq # <<>>
  /\ s' = [s EXCEPT !.fetchq = IF Fresh = 0 THEN <<>>
                               ELSE SubSeq(@, Fresh + 1, Len(@))]
  /\ IF Fresh # 0 /\ s.fetchq[Fresh].kind = "MSG"
     THEN /\ app' = [app EXCEPT ![t] = [pc |-> "popped",
                                        off |-> s.fetchq[Fresh].off]]
          /\ seen' = [seen EXCEPT !.want = {s.fetchq[Fresh].off + 1},
                                  !.fresh = FALSE]
     ELSE UNCHANGED <<app, seen>>
  /\ UNCHANGED <<plan, version, br, srv, spent>>

\* The message's offset is stored before consume() returns it.
StoreOffset(t) ==
  /\ app[t].pc = "popped"
  /\ s' = [s EXCEPT !.app = app[t].off + 1, !.stored = app[t].off + 1]
  /\ app' = [app EXCEPT ![t] = [pc |-> "idle"]]
  /\ UNCHANGED <<plan, version, br, srv, seen, spent>>

Next ==
  \/ MainServe \/ TimerFires \/ CommitTimer \/ BackoffEnds
  \/ AnswerStored \/ AnswerCommit
  \/ \E b \in Brokers : BrokerServe(b) \/ FetchReply(b) \/ FetchFails(b)
                        \/ AnswerOffset(b)
  \/ \E b \in AllBrokers : PartitionLeave(b) \/ PartitionJoin(b) \/ Delegate(b)
  \/ \E t \in Threads : \/ ConsumeStart(t) \/ ConsumeStop(t) \/ SeekTo(t)
                        \/ PauseResume(t) \/ AppEnqueue(t) \/ AppReturn(t)
                        \/ SeekTimesOut(t) \/ Pop(t) \/ StoreOffset(t)

Spec == Init /\ [][Next]_vars

\* Threads run, brokers answer, and the application keeps polling.
Due(t) == app[t].pc \in {"bumped", "popped"}
Pollable(t) == t = plan.consumer /\ app[t].pc = "idle" /\ s.fetchq # <<>>
Returns(t) == /\ app[t].pc = "wait"
              /\ \/ app[t].kind = "SEEK"
                 \/ \E r \in s.replies : r.to = <<t, app[t].v>>
LoopDue(b) == /\ s.leader = b
              /\ \/ FetchDecide(s, FALSE) # s
                 \/ FetchDecide(s, FALSE).fetch /\ br[b].req = <<>>

Fairness ==
  /\ []<>(s.ops = <<>>) \/ []<><<MainServe>>_vars
  /\ []<>(~s.tmr \/ s.leader \in {None, Internal}) \/ []<><<TimerFires>>_vars
  /\ []<>(~s.backoff \/ spent.resets = MaxResets) \/ []<><<BackoffEnds>>_vars
  /\ []<>(s.lookups = <<>>) \/ []<><<AnswerStored>>_vars
  /\ []<>(s.commits = <<>>) \/ []<><<AnswerCommit>>_vars
  /\ \A b \in Brokers :
       /\ []<>(~LoopDue(b)) \/ []<><<BrokerServe(b)>>_vars
       /\ []<>(br[b].req = <<>>) \/ []<><<FetchReply(b) \/ FetchFails(b)>>_vars
       /\ []<>(s.queries[b] = <<>>) \/ []<><<AnswerOffset(b)>>_vars
  /\ \A b \in AllBrokers :
       \/ []<>(br[b].ops = <<>>)
       \/ []<><<PartitionLeave(b) \/ PartitionJoin(b)>>_vars
  /\ \A t \in Threads :
       /\ []<>(~Due(t)) \/ []<><<AppEnqueue(t) \/ StoreOffset(t)>>_vars
       /\ []<>(~Pollable(t)) \/ []<><<Pop(t)>>_vars
       /\ []<>(~Returns(t)) \/ []<><<AppReturn(t) \/ SeekTimesOut(t)>>_vars

FairSpec == Spec /\ Fairness

-----------------------------------------------------------------------------
(* Properties.                                                             *)

\* The partition's fields, and the version barrier: the main thread is never
\* ahead of the application, nor the fetcher ahead of the main thread.
TypeOK ==
  /\ s.state \in {"NONE", "STOPPING", "STOPPED", "QUERY", "WAIT", "ACTIVE"}
  /\ s.leader \in AllBrokers \cup {None}
  /\ s.next_leader \in AllBrokers \cup {None}
  /\ s.fetch_version <= s.op_version /\ s.op_version <= version
  /\ version = spent.calls
  /\ srv \in {INVALID} \cup 0 .. Hi
  /\ seen.want \subseteq 0 .. Hi

\* No rd_kafka_assert() of the partition's handlers fails: fetch_start() finds
\* the partition outside a group, fetch_stop() finds no stop in progress, and
\* offset_broker_commit() finds the group and the offset store
\* (rdkafka_partition.c:1545, 1663, rdkafka_offset.c:582).
AssertsHold == s.assert
AssertsAlways == []AssertsHold

Pops(t) == app[t].pc = "idle" /\ app'[t].pc = "popped"

\* consume() returns no message between the return of consume_stop() and the
\* next consume_start(): what was queued or fetched meanwhile is filtered by
\* its version.  The exception is the partition that an outdated Offset reply,
\* a late reset or the query timer has put adrift: it is fetched again.
NothingAfterStop ==
  [][\A t \in Threads : Pops(t) => ~seen.stopped \/ seen.adrift]_vars

\* consume_stop() ends the fetcher, without exception: no message is returned
\* after it (rdkafka.h:2986).  Not so: the outdated reply to an Offset request
\* is retried, and that puts a stopped partition back into QUERY.
StopIsFinal == [][\A t \in Threads : Pops(t) => ~seen.stopped]_vars

\* The application gets the messages in order, none twice and none left out,
\* from the offset of its last start or seek on: over pauses, failed fetches
\* and changes of leader.  It may not once the partition is adrift (Disturbs
\* lists how), until the next start or seek; nor when one thread's call has
\* overtaken another's.
InOrder ==
  [][\A t \in Threads :
       Pops(t) => \/ app'[t].off \in seen.want
                  \/ seen.adrift
                  \/ seen.lost # {}]_vars

StopReturned(t) ==
  /\ app[t].pc = "wait" /\ app[t].kind = "STOP"
  /\ app'[t].pc = "idle"
  /\ [to |-> <<t, app[t].v>>, err |-> FALSE] \in s.replies

\* When consume_stop() returns success, the offset stored when it was called is
\* committed, if the partition uses the offset store; except that the reply to
\* an earlier commit, if one is out when the stop is served, ends the stop too.
StopCommits ==
  [][\A t \in Threads :
       StopReturned(t) /\ s.store => srv >= seen.due \/ seen.crossed]_vars

\* consume_stop() returns when the offsets are committed, without exception
\* (rdkafka.h:2986).  Not so: the reply to an automatic commit that was under
\* way ends the stop before its own commit is answered, or with that one lost.
StopWaitsForCommit ==
  [][\A t \in Threads : StopReturned(t) /\ s.store => srv >= seen.due]_vars

\* Stopping is safe: no assertion of the handlers fails; the application gets
\* nothing after consume_stop() has returned, unless an outdated reply revives
\* the partition; and the offset it reached is committed by then, unless the
\* stop crossed an automatic commit.
StopSafe == []AssertsHold /\ NothingAfterStop /\ StopCommits

\* consume_stop() returns, unless a later call overtakes it: then its operation
\* is outdated, and is destroyed without a reply.
StopReturns ==
  \A t \in Threads : (app[t].pc = "wait" /\ app[t].kind = "STOP")
                       ~> \/ app[t].pc = "idle"
                          \/ app[t].pc = "wait" /\ app[t].v \in seen.lost

HasLeader == IF s.next_leader = None THEN s.leader \in Brokers
             ELSE s.next_leader \in Brokers

Behind == /\ ~seen.adrift /\ seen.lost = {}
          /\ ~seen.stopped /\ ~seen.paused /\ HasLeader
          /\ seen.want # {} /\ \A o \in seen.want : o < Hi

\* A started partition that is not paused, and has a leader, is consumed to
\* its end: no reply, version or timer that gets lost leaves it waiting.  That
\* is not promised of a partition adrift (after a second reset it is fetched
\* from an invalid offset again and again) nor of overtaken calls.
Consumes == Behind ~> ~Behind

\* Nothing gets stuck: neither consume_stop() nor the consumption.
FetchProgresses == StopReturns /\ Consumes

=============================================================================
