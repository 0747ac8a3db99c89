--------------------------- MODULE ConsumerGroup ---------------------------
(***************************************************************************)
(* The consumer group state machine of librdkafka (rdkafka_cgrp.c): how    *)
(* the main thread finds the coordinator, joins the group, starts and      *)
(* stops the partitions it is assigned, commits offsets, leaves and        *)
(* terminates, while the application calls subscribe(), assign(),          *)
(* commit() and close(), and while the coordinator rebalances, moves,      *)
(* expires the member or drops the connection.                             *)
(*                                                                         *)
(* All of rkcg is touched by the main thread only, so its state is one     *)
(* record, cg, and every C function is an operator from such a record to   *)
(* the next; an action is the handler of one op of rk_ops, one timer, one  *)
(* application call, or one step of the coordinator.                       *)
(*                                                                         *)
(* rkcg_version is kept as the age of what carries it: a request or reply  *)
(* is "cur" until the next version barrier makes it "old", "none" if it    *)
(* carries version 0.  The member id and generation are likewise one tag,  *)
(* ident: "none" is the empty member id, "old" one the coordinator no      *)
(* longer knows, "stale" a past generation and "cur" the current one.      *)
(***************************************************************************)
EXTENDS Integers, Sequences, FiniteSets, SequencesExt

CONSTANTS
    Partitions,     \* partitions of the subscribed topics
    Assignments,    \* what the group may assign to this member: sets of partitions
    Nodes,          \* brokers that may be the coordinator
    None,           \* NULL, -1
    RebalanceCb,    \* a rebalance_cb is set (RD_KAFKA_EVENT_REBALANCE)
    AutoCommit,     \* enable.auto.commit
    CommitThread,   \* a second application thread commits at any time
    AssignAnytime,  \* the application assigns outside of rebalance_cb
    MaxRetries,     \* message.send.max.retries
    MaxQueries,     \* GroupCoordinator requests outstanding at once
    MaxCommits,     \* commits outstanding at once
    MaxRebalances,  \* rebalances started by other members
    MaxFaults,      \* failed queries, expiries, moves, disconnects, late polls, topic changes
    MaxSubscribes,  \* calls of subscribe()
    MaxCalls        \* application calls

ASSUME ConsumerGroupConstants ==
    /\ Assignments \subseteq SUBSET Partitions
    /\ None \notin Nodes
    /\ {RebalanceCb, AutoCommit, CommitThread, AssignAnytime} \subseteq BOOLEAN
    /\ {MaxRetries, MaxQueries, MaxCommits, MaxRebalances, MaxFaults,
       MaxSubscribes, MaxCalls} \subseteq Nat

VARIABLES
    cg,     \* rkcg, the ops queued for the main thread and the requests it sent
    app,    \* the application: calls in progress, the event it is handling
    co,     \* the coordinator's view of the group and of this member
    conn    \* the node the coordinator's broker handle is connected to

vars == <<cg, app, co, conn>>

States == {"TERM", "INIT", "QUERY_COORD", "WAIT_COORD", "WAIT_BROKER_TRANSPORT", "UP"}

JoinStates == {"INIT", "WAIT_JOIN", "WAIT_METADATA", "WAIT_SYNC", "WAIT_UNASSIGN",
               "WAIT_ASSIGN_CB", "WAIT_REVOKE_CB", "ASSIGNED", "STARTED"}

Flags == {"TERMINATE", "WAIT_UNASSIGN", "LEAVE_ON_UNASSIGN", "SUBSCRIPTION",
          "HEARTBEAT_IN_TRANSIT", "WAIT_LEAVE", "MAX_POLL_EXCEEDED"}

\* An op of rk_ops or a request to the coordinator, by type.  tries counts the
\* retries of a request, deferred says ts_timeout is set, auto that the commit
\* is the library's own (silent_empty), reset that no offset was returned.
Op(type) == [t |-> type, parts |-> {}, ident |-> "none", ver |-> "none", err |-> "ok",
             tries |-> 0, deferred |-> FALSE, auto |-> FALSE, reset |-> {}]

Init ==
    /\ cg = [state |-> "INIT", join_state |-> "INIT", flags |-> {}, assignment |-> None,
             assigned |-> {}, wait_unassign_cnt |-> 0, wait_commit_cnt |-> 0,
             ident |-> "none", leader |-> FALSE, coord |-> None,
             queries |-> 0, ops |-> <<>>, opsReady |-> TRUE, wait_coord_q |-> <<>>,
             waitReady |-> TRUE, net |-> <<>>, q |-> <<>>, toppars |-> {}, attached |-> {},
             pollTimer |-> FALSE, late |-> FALSE, reply |-> "none", stored |-> {}]
    /\ app = [cb |-> None, busy |-> FALSE, closing |-> FALSE, overdue |-> FALSE,
              calls |-> 0, subscribes |-> 0, faults |-> 0, rebalances |-> 0]
    /\ co \in [node : {CHOOSE n \in Nodes : TRUE}, phase : {"out"}, committed : SUBSET Partitions]
    /\ conn = None

-----------------------------------------------------------------------------
(* Queues, versions and flags.                                             *)

\* A disabled queue answers the op with __DESTROY instead of queueing it.
Enq(s, op) == IF s.opsReady THEN [s EXCEPT !.ops = Append(@, op)] ELSE s

EnqAll(s, ops) == IF s.opsReady THEN [s EXCEPT !.ops = @ \o ops] ELSE s

Send(s, req) == [s EXCEPT !.net = Append(@, req)]

Raise(s, flag) == [s EXCEPT !.flags = @ \cup {flag}]

Lower(s, flag) == [s EXCEPT !.flags = @ \ {flag}]

SetJoinState(s, join_state) == [s EXCEPT !.join_state = join_state]

WaitRebalanceCb(s) == s.join_state \in {"WAIT_ASSIGN_CB", "WAIT_REVOKE_CB"}

\* rd_kafka_cgrp_version_new_barrier: what was sent before is outdated.
Barrier(s) ==
    LET Age(seq) == [i \in DOMAIN seq |-> IF seq[i].ver = "cur"
                                          THEN [seq[i] EXCEPT !.ver = "old"] ELSE seq[i]]
    IN  [s EXCEPT !.ops = Age(@), !.net = Age(@)]

\* rd_kafka_buf_retry of a request that was sent.
CanRetry(req) == req.tries < MaxRetries

Retry(s, req) == Send(s, [req EXCEPT !.tries = @ + 1, !.err = "ok"])

-----------------------------------------------------------------------------
(* The coordinator.                                                        *)

\* rd_kafka_cgrp_coord_query: without a broker to ask (here, once MaxQueries
\* are outstanding) nothing changes.
CoordQuery(s) ==
    IF s.queries >= MaxQueries THEN s
    ELSE [s EXCEPT !.queries = @ + 1,
                   !.state = IF @ = "QUERY_COORD" THEN "WAIT_COORD" ELSE @]

\* rd_kafka_cgrp_coord_update.  The coordinator's broker handle is always known:
\* handle_GroupCoordinator has just added it.
CoordUpdate(s, id) ==
    IF s.state = "TERM" THEN s
    ELSE IF id = None
         THEN [s EXCEPT !.coord = None,
                        !.state = IF @ \in {"INIT", "QUERY_COORD"} THEN @ ELSE "QUERY_COORD"]
         ELSE [s EXCEPT !.coord = id,
                        !.state = IF s.coord = id /\ @ = "UP" THEN @ ELSE "WAIT_BROKER_TRANSPORT"]

-----------------------------------------------------------------------------
(* Terminating and leaving.                                                *)

\* Commits still waiting for a coordinator a session timeout after terminate
\* are returned to the ops queue.
FlushDeferred(s) ==
    IF s.wait_coord_q # <<>> /\ s.late
    THEN [EnqAll(s, s.wait_coord_q) EXCEPT !.wait_coord_q = <<>>, !.waitReady = FALSE]
    ELSE s

\* Nothing is outstanding.
Quiet(s) ==
    /\ ~WaitRebalanceCb(s)
    /\ s.toppars = {}
    /\ s.wait_unassign_cnt = 0
    /\ s.wait_commit_cnt = 0
    /\ s.flags \cap {"WAIT_UNASSIGN", "WAIT_LEAVE"} = {}

TryTerminate(s) ==
    IF s.state = "TERM" \/ "TERMINATE" \notin s.flags THEN s
    ELSE [FlushDeferred(s) EXCEPT !.state = IF Quiet(s) THEN "TERM" ELSE @]

\* rd_kafka_cgrp_terminated: rkcg_ops is forwarded to rk_ops, so the purge empties that.
Terminated(s) ==
    [s EXCEPT !.wait_coord_q = <<>>, !.opsReady = FALSE, !.ops = <<>>, !.coord = None,
              !.reply = IF @ = "pending" THEN "sent" ELSE @]

\* Mutant: the reply does not end the wait for it.
HandleLeaveGroupKeeps(s) == TryTerminate(s)

HandleLeaveGroup(s) == TryTerminate(Lower(s, "WAIT_LEAVE"))

LeaveGroupRequest(s) == Send(s, [Op("LeaveGroup") EXCEPT !.ident = s.ident])

Leave(s) ==
    IF "WAIT_LEAVE" \in s.flags THEN s
    ELSE IF s.state = "UP"
         THEN LeaveGroupRequest(Raise(s, "WAIT_LEAVE"))
         ELSE HandleLeaveGroup(Raise(s, "WAIT_LEAVE"))

-----------------------------------------------------------------------------
(* Starting the fetchers.                                                  *)

OffsetFetchRequest(s, parts) == Send(s, [Op("OffsetFetch") EXCEPT !.parts = parts, !.ver = "cur"])

\* Not sent while there is no coordinator: the answer is then __WAIT_COORD,
\* which changes nothing.
OffsetsFetch(s, parts) == IF s.state = "UP" THEN OffsetFetchRequest(s, parts) ELSE s

StartPartitions(s, parts, reset) ==
    LET Start(p) == [Op("FETCH_START") EXCEPT !.parts = {p}, !.reset = reset \cap {p}]
        Seek(p)  == [Op("SEEK") EXCEPT !.parts = {p}]
    IN  EnqAll([s EXCEPT !.join_state = "STARTED", !.pollTimer = TRUE, !.assigned = @ \cup parts],
               [i \in 1 .. Cardinality(parts) |->
                   LET p == SetToSeq(parts)[i] IN IF p \in s.assigned THEN Seek(p) ELSE Start(p)])

\* rd_kafka_cgrp_partitions_fetch_start without offsets, and with the ones of
\* an OffsetFetch response.
FetchStart(s, parts) ==
    IF s.wait_commit_cnt > 0 THEN s
    ELSE IF parts = {} THEN Barrier(s) ELSE OffsetsFetch(Barrier(s), parts)

FetchStartUsable(s, parts, reset) ==
    IF s.wait_commit_cnt > 0 THEN s
    ELSE IF parts = {} THEN Barrier(s) ELSE StartPartitions(Barrier(s), parts, reset)

CanFetchStart(s) == s.join_state = "ASSIGNED"

HandleOffsetFetch(s, r) ==
    IF r.ver = "old" \/ r.err # "ok" \/ ~CanFetchStart(s) THEN s
    ELSE FetchStartUsable(s, r.parts, r.reset)

-----------------------------------------------------------------------------
(* Unassigning.                                                            *)

\* The join state that follows once nothing is left to wait for.
NextJoinState(s) ==
    CASE s.join_state # "WAIT_UNASSIGN" -> s
      [] s.join_state = "WAIT_UNASSIGN" /\ s.assignment # None ->
             FetchStart(SetJoinState(s, "ASSIGNED"), s.assignment)
      [] OTHER -> SetJoinState(s, "INIT")

UnassignDone(s) ==
    TryTerminate(NextJoinState(
        IF "LEAVE_ON_UNASSIGN" \in s.flags THEN Lower(Leave(s), "LEAVE_ON_UNASSIGN") ELSE s))

\* Mutants: not all stops, or not all commits, are waited for.
CheckUnassignDoneEarly(s) ==
    IF s.wait_commit_cnt > 0 \/ "WAIT_UNASSIGN" \in s.flags THEN s ELSE UnassignDone(s)

CheckUnassignDoneUncommitted(s) ==
    IF s.wait_unassign_cnt > 0 \/ s.assigned # {} \/ "WAIT_UNASSIGN" \in s.flags
    THEN s ELSE UnassignDone(s)

CheckUnassignDone(s) ==
    IF \/ s.wait_unassign_cnt > 0
       \/ s.assigned # {}
       \/ s.wait_commit_cnt > 0
       \/ "WAIT_UNASSIGN" \in s.flags
    THEN s ELSE UnassignDone(s)

-----------------------------------------------------------------------------
(* Committing offsets.                                                     *)

\* A commit is deferred once, until there is a coordinator.
CanDefer(s, c) == ~c.deferred /\ s.waitReady

Defer(s, c) ==
    [s EXCEPT !.wait_coord_q = Append(@, [Op("OFFSET_COMMIT") EXCEPT !.parts = c.parts,
                                             !.auto = c.auto, !.deferred = TRUE])]

\* An assignment that waited for commits is started.
ResumeFetch(s, err) ==
    IF err = "ok" /\ s.wait_commit_cnt = 0 /\ s.assignment # None /\ CanFetchStart(s)
    THEN FetchStart(s, s.assignment) ELSE s

\* rd_kafka_cgrp_handle_OffsetCommit: the partitions' committed offsets are the
\* ones that were sent, and what waited for the commit goes on.
Committed(s, c, err) ==
    LET s1 == [s EXCEPT !.stored = IF err = "ok" THEN @ \ c.parts ELSE @]
    IN  TryTerminate(IF s.join_state = "WAIT_UNASSIGN" THEN CheckUnassignDone(s1) ELSE s1)

\* rd_kafka_cgrp_op_handle_OffsetCommit once the commit has its result; silent
\* if nobody is told of it.
CommitDone(s, c, err) ==
    LET s1 == ResumeFetch([s EXCEPT !.wait_commit_cnt = @ - 1], err)
    IN  IF err = "DESTROY" \/ (err = "NO_OFFSET" /\ c.auto)
        THEN CheckUnassignDone(s1) ELSE Committed(s1, c, err)

\* Mutant: an outdated answer is dropped without being counted.
HandleOffsetCommitDropped(s, c) ==
    CASE c.ver = "old" -> s
      [] c.ver # "old" /\ c.err = "TRANSPORT" /\ CanRetry(c) -> Retry(s, c)
      [] c.ver # "old" /\ c.err = "NOT_COORDINATOR" /\ CanDefer(s, c) -> Defer(s, c)
      [] OTHER -> CommitDone(s, c, c.err)

\* The answer to an OffsetCommit request.
HandleOffsetCommit(s, c) ==
    CASE c.ver # "old" /\ c.err = "TRANSPORT" /\ CanRetry(c) -> Retry(s, c)
      [] c.ver # "old" /\ c.err = "NOT_COORDINATOR" /\ CanDefer(s, c) -> Defer(s, c)
      [] OTHER -> CommitDone(s, c, IF c.ver = "old" THEN "DESTROY" ELSE c.err)

OffsetCommitRequest(s, c, ver) ==
    Send(s, [Op("OffsetCommit") EXCEPT !.parts = c.parts, !.ident = s.ident, !.ver = ver,
                                       !.auto = c.auto, !.deferred = c.deferred])

\* rd_kafka_cgrp_offsets_commit once the op is counted: parts are the partitions
\* that have an offset to commit.
CommitParts(s, c, ver) ==
    CASE c.parts # {} /\ s.state = "UP" -> OffsetCommitRequest(s, c, ver)
      [] c.parts # {} /\ s.state # "UP" /\ CanDefer(s, c) -> Defer(s, c)
      [] OTHER -> CommitDone(IF c.parts = {} THEN s ELSE CoordQuery(s), c,
                             IF c.parts = {} THEN "NO_OFFSET" ELSE "WAIT_COORD")

\* It is counted unless it was deferred before.
OffsetsCommit(s, c, parts, ver) ==
    CommitParts(IF c.deferred THEN s ELSE [s EXCEPT !.wait_commit_cnt = @ + 1],
                [c EXCEPT !.parts = parts], ver)

\* The library's own commit, of the assignment given or else the current one.
AssignedOffsetsCommit(s, assignment) ==
    OffsetsCommit(s, [Op("OFFSET_COMMIT") EXCEPT !.auto = TRUE],
                  (IF assignment = None THEN {} ELSE assignment) \cap s.stored, "cur")

\* The op of an application's commit, or a deferred one: of the offsets given
\* or else the ones stored for the assignment.
CommitOp(s, c) ==
    OffsetsCommit(s, c, IF c.parts # {} THEN c.parts
                        ELSE (IF s.assignment = None THEN {} ELSE s.assignment) \cap s.stored,
                  "none")

\* rd_kafka_cgrp_timeout_scan: the first n deferred commits have expired.
TimeoutScan(s, n) ==
    IF s.wait_coord_q = <<>> THEN s
    ELSE FoldLeft(LAMBDA t, c : CommitDone(CoordQuery(t), c, "WAIT_COORD"),
                  [s EXCEPT !.wait_coord_q = SubSeq(@, n + 1, Len(@))],
                  SubSeq(s.wait_coord_q, 1, n))

-----------------------------------------------------------------------------
(* Assigning and rebalancing.                                              *)

\* Stop the partitions that are running.
StopPartitions(s, parts) ==
    EnqAll([s EXCEPT !.wait_unassign_cnt = @ + Cardinality(parts)],
           [i \in 1 .. Cardinality(parts) |-> [Op("FETCH_STOP") EXCEPT !.parts = {SetToSeq(parts)[i]}]])

Unassign(s) ==
    LET Waits(t) == Lower(SetJoinState(t, "WAIT_UNASSIGN"), "WAIT_UNASSIGN")
        Commits(t) == IF AutoCommit THEN AssignedOffsetsCommit(t, s.assignment) ELSE t
        Stops(t) == StopPartitions(t, s.assignment \cap t.assigned)
    IN  CheckUnassignDone(
            IF s.assignment = None THEN Waits(s)
            ELSE Stops(Commits(Barrier([Waits(s) EXCEPT !.assignment = None]))))

\* Start what is assigned, unless the previous assignment is still stopping.
StartAssigned(s) ==
    IF s.join_state = "WAIT_UNASSIGN" THEN s
    ELSE IF s.assignment = None THEN SetJoinState(s, "ASSIGNED")
         ELSE FetchStart(SetJoinState(s, "ASSIGNED"), s.assignment)

Assign(s, assignment) ==
    LET Replaces(t) == IF assignment # None THEN [t EXCEPT !.assignment = assignment] ELSE t
    IN  StartAssigned(Replaces(IF s.assignment # None THEN Unassign(Barrier(s)) ELSE Barrier(s)))

\* rd_kafka_rebalance_op: the application decides if it can be told, and if
\* there is an assignment to tell it of.
AskApplication(s, event, assignment) ==
    [s EXCEPT !.join_state = IF event = "ASSIGN" THEN "WAIT_ASSIGN_CB" ELSE "WAIT_REVOKE_CB",
              !.q = Append(@, [event |-> event, parts |-> assignment])]

RebalanceAssign(s, assignment) ==
    IF RebalanceCb THEN AskApplication(s, "ASSIGN", assignment) ELSE Assign(s, assignment)

RebalanceRevoke(s) ==
    IF RebalanceCb /\ s.assignment # None THEN AskApplication(s, "REVOKE", s.assignment) ELSE Unassign(s)

Rebalance(s) ==
    IF WaitRebalanceCb(s) \/ "WAIT_UNASSIGN" \in s.flags THEN s
    ELSE RebalanceRevoke(Raise(s, "WAIT_UNASSIGN"))

Rejoin(s) == Rebalance([s EXCEPT !.leader = FALSE])

HandleHeartbeatError(s, err) ==
    CASE s.join_state \in {"INIT", "WAIT_JOIN", "WAIT_METADATA", "WAIT_SYNC"} -> s
      [] OTHER ->
         CASE err \in {"NOT_COORDINATOR", "TRANSPORT"} -> s
           [] err = "REBALANCE_IN_PROGRESS" /\ s.join_state = "WAIT_REVOKE_CB" -> s
           [] OTHER -> Rebalance([s EXCEPT !.ident = IF err = "UNKNOWN_MEMBER" THEN "none" ELSE @])

Unsubscribe(s, leave_group) ==
    Lower(Rebalance([s EXCEPT !.pollTimer = FALSE, !.leader = FALSE,
                              !.flags = IF leave_group THEN @ \cup {"LEAVE_ON_UNASSIGN"} ELSE @]),
          "SUBSCRIPTION")

-----------------------------------------------------------------------------
(* Joining.                                                                *)

JoinGroupRequest(s) == Send(s, [Op("JoinGroup") EXCEPT !.ident = s.ident])

\* rd_kafka_cgrp_join with the topics' metadata in the cache; without it the
\* join waits for the metadata and the next interval.
Join(s, overdue) ==
    IF \/ s.state # "UP"
       \/ s.join_state # "INIT"
       \/ "MAX_POLL_EXCEEDED" \in s.flags /\ overdue
    THEN s
    ELSE JoinGroupRequest(SetJoinState(Lower(s, "MAX_POLL_EXCEEDED"), "WAIT_JOIN"))

Subscribe(s, topics, overdue) ==
    LET Joins(t) == IF topics THEN Join(Raise(t, "SUBSCRIPTION"), overdue) ELSE t
    IN  Joins(Unsubscribe(s, ~topics))

SyncGroupRequest(s) == Send(s, [Op("SyncGroup") EXCEPT !.ident = s.ident])

SyncGroup(s) == SyncGroupRequest(SetJoinState(s, "WAIT_SYNC"))

\* A failed request goes to the INIT state; the reply of a successful one
\* makes this member a follower, or the leader that runs the assignor.
HandleJoinGroup(s, r) ==
    CASE s.join_state # "WAIT_JOIN" -> s
      [] s.join_state = "WAIT_JOIN" /\ r.err = "ok" ->
         LET s1 == [s EXCEPT !.ident = r.ident]
         IN  IF r.t = "JoinGroupLeader"
             THEN Send([s1 EXCEPT !.leader = TRUE, !.join_state = "WAIT_METADATA"], Op("Metadata"))
             ELSE SyncGroup(s1)
      [] OTHER ->
         LET s1 == SetJoinState(s, "INIT")
         IN  CASE r.err = "NOT_COORDINATOR" -> Enq(s1, Op("COORD_QUERY"))
               [] r.err = "UNKNOWN_MEMBER" -> [s1 EXCEPT !.ident = "none"]
               [] OTHER -> s1

\* The op with the leader's metadata; a request that failed for good destroys
\* the op, which rd_kafka_cgrp_assignor_handle_Metadata_op takes for termination.
HandleAssignorMetadata(s, r) ==
    CASE r.err = "TRANSPORT" -> IF CanRetry(r) THEN Retry(s, r) ELSE s
      [] r.err # "TRANSPORT" /\ s.join_state = "WAIT_METADATA" /\ s.leader -> SyncGroup(s)
      [] OTHER -> s

\* rd_kafka_cgrp_handle_SyncGroup: the assignment of a member that is not
\* terminating, or the next attempt to join.
Synced(s, r) ==
    IF r.err = "ok" /\ "TERMINATE" \notin s.flags
    THEN RebalanceAssign(s, r.parts) ELSE SetJoinState(s, "INIT")

\* Mutant: a refused SyncGroup leaves the join state alone.
HandleSyncGroupStuck(s, r) ==
    IF s.join_state = "WAIT_SYNC" /\ r.err = "ok" /\ "TERMINATE" \notin s.flags
    THEN RebalanceAssign(s, r.parts) ELSE s

HandleSyncGroup(s, r) ==
    IF s.join_state # "WAIT_SYNC" THEN s
    ELSE LET s1 == IF r.err = "NOT_COORDINATOR" THEN Enq(s, Op("COORD_QUERY")) ELSE s
         IN  IF r.err = "TRANSPORT" /\ CanRetry(r) THEN Retry(s1, r) ELSE Synced(s1, r)

HeartbeatRequest(s) == Send(s, [Op("Heartbeat") EXCEPT !.ident = s.ident])

Heartbeat(s) ==
    IF "HEARTBEAT_IN_TRANSIT" \in s.flags THEN s
    ELSE HeartbeatRequest(Raise(s, "HEARTBEAT_IN_TRANSIT"))

HandleHeartbeat(s, r) ==
    LET s1 == Lower(s, "HEARTBEAT_IN_TRANSIT")
        s2 == IF r.err = "NOT_COORDINATOR" THEN Enq(s1, Op("COORD_QUERY")) ELSE s1
    IN  CASE r.err = "ok" -> s1
          [] r.err = "TRANSPORT" /\ CanRetry(r) -> Retry(s, r)
          [] OTHER -> HandleHeartbeatError(s2, r.err)

-----------------------------------------------------------------------------
(* The periodic state machine.                                             *)

JoinStateServe(s, due, overdue) ==
    CASE ~due \/ "SUBSCRIPTION" \notin s.flags -> s
      [] due /\ "SUBSCRIPTION" \in s.flags /\ s.join_state = "INIT" -> Join(s, overdue)
      [] due /\ "SUBSCRIPTION" \in s.flags
             /\ s.join_state \in {"WAIT_ASSIGN_CB", "WAIT_REVOKE_CB", "ASSIGNED", "STARTED"} -> Heartbeat(s)
      [] OTHER -> s

ServeState(s, up, query, due, overdue) ==
    LET Ask(t) == IF query THEN CoordQuery(t) ELSE t
        Starts(t) == IF t.assignment # None /\ CanFetchStart(t) THEN FetchStart(t, t.assignment) ELSE t
    IN
    CASE s.state \in {"INIT", "QUERY_COORD"} -> Ask([s EXCEPT !.state = "QUERY_COORD"])
      [] s.state = "WAIT_COORD" -> s
      [] s.state = "WAIT_BROKER_TRANSPORT" /\ ~up -> Ask(s)
      [] s.state = "WAIT_BROKER_TRANSPORT" /\ up ->
            Starts(JoinStateServe([s EXCEPT !.state = "UP"], due, overdue))
      [] s.state = "UP" ->
            JoinStateServe(Ask([EnqAll(s, s.wait_coord_q) EXCEPT !.wait_coord_q = <<>>]), due, overdue)

\* rd_kafka_cgrp_serve.  up: the coordinator's broker handle is connected;
\* query, due: the coordinator query and the join or heartbeat interval have
\* passed; expired: so many deferred commits have timed out.
Serve(s, up, query, due, expired, overdue) ==
    LET Scans(t) == IF t.state = "UP" THEN t ELSE TimeoutScan(t, expired)
        Runs(t) == IF t.state = "TERM" THEN Terminated(t)
                   ELSE Scans(ServeState(t, up, query, due, overdue))
    IN  Runs(TryTerminate([s EXCEPT !.state = IF ~up /\ @ = "UP" THEN "QUERY_COORD" ELSE @]))

HandleGroupCoordinator(s, r) ==
    LET s1 == [s EXCEPT !.queries = @ - 1]
    IN  CASE r.err = "ok" -> CoordUpdate(s1, r.ident)
          [] r.err = "NOT_AVAILABLE" -> CoordUpdate(s1, None)
          [] OTHER -> [s1 EXCEPT !.state = "QUERY_COORD"]

Terminate0(s) ==
    LET Leaves(t) == IF "SUBSCRIPTION" \in t.flags THEN Unsubscribe(t, TRUE) ELSE t
        Lets(t) == IF WaitRebalanceCb(t) \/ "WAIT_UNASSIGN" \in t.flags THEN t ELSE Unassign(t)
    IN  TryTerminate(Lets(Leaves([Raise(s, "TERMINATE") EXCEPT !.reply = "pending"])))

-----------------------------------------------------------------------------
(* The main thread: one action per type of op at the head of rk_ops.       *)

HeadIs(type) == cg.ops # <<>> /\ Head(cg.ops).t = type

Popped == [cg EXCEPT !.ops = Tail(@)]

TheOp == Head(cg.ops)

Up == conn # None

ServeCgrp ==
    /\ \E query, due \in BOOLEAN, expired \in 0 .. Len(cg.wait_coord_q) :
           cg' = Serve(cg, Up, query, due, expired, app.overdue)
    /\ UNCHANGED <<app, co, conn>>

ServeGroupCoordinator ==
    /\ HeadIs("GroupCoordinator")
    /\ \E query, due \in BOOLEAN, expired \in 0 .. Len(cg.wait_coord_q) :
           cg' = Serve(HandleGroupCoordinator(Popped, TheOp), Up, query, due, expired, app.overdue)
    /\ UNCHANGED <<app, co, conn>>

\* The ops and replies whose handler only changes the group.
Handled(s, op) ==
    CASE op.t \in {"JoinGroup", "JoinGroupLeader"} -> HandleJoinGroup(s, op)
      [] op.t = "Metadata" -> HandleAssignorMetadata(s, op)
      [] op.t = "SyncGroup" -> HandleSyncGroup(s, op)
      [] op.t = "Heartbeat" -> HandleHeartbeat(s, op)
      [] op.t = "LeaveGroup" -> HandleLeaveGroup(s)
      [] op.t = "OffsetFetch" -> HandleOffsetFetch(s, op)
      [] op.t = "OffsetCommit" -> HandleOffsetCommit(s, op)
      [] op.t = "OFFSET_COMMIT" -> CommitOp(s, op)
      [] op.t = "COORD_QUERY" -> CoordQuery(s)
      [] op.t = "SEEK" -> s

ServeReply ==
    /\ cg.ops # <<>>
    /\ TheOp.t \in {"JoinGroup", "JoinGroupLeader", "Metadata", "SyncGroup", "Heartbeat",
                    "LeaveGroup", "OffsetFetch", "OffsetCommit", "OFFSET_COMMIT", "COORD_QUERY", "SEEK"}
    /\ cg' = Handled(Popped, TheOp)
    /\ UNCHANGED <<app, co, conn>>

ServeSubscribe ==
    /\ cg.ops # <<>> /\ TheOp.t \in {"SUBSCRIBE", "UNSUBSCRIBE"}
    /\ app' = [app EXCEPT !.busy = FALSE, !.overdue = FALSE]
    /\ cg' = Subscribe(Popped, TheOp.t = "SUBSCRIBE", FALSE)
    /\ UNCHANGED <<co, conn>>

\* While terminating, assign() can only unassign.
ServeAssign ==
    /\ cg.ops # <<>> /\ TheOp.t \in {"ASSIGN", "UNASSIGN"}
    /\ app' = [app EXCEPT !.busy = FALSE]
    /\ cg' = IF "TERMINATE" \in cg.flags THEN Unassign(Popped)
             ELSE Assign(Popped, IF TheOp.t = "ASSIGN" THEN TheOp.parts ELSE None)
    /\ UNCHANGED <<co, conn>>

ServeTerminate ==
    /\ HeadIs("TERMINATE")
    /\ cg' = Terminate0(Popped)
    /\ UNCHANGED <<app, co, conn>>

\* rd_kafka_toppar_fetch_start and fetch_stop, as far as the group sees them.
ServeFetchStart ==
    /\ HeadIs("FETCH_START")
    /\ cg' = Enq([Popped EXCEPT !.attached = @ \cup TheOp.parts],
                 [Op("PARTITION_JOIN") EXCEPT !.parts = TheOp.parts])
    /\ UNCHANGED <<app, co, conn>>

ServeFetchStop ==
    /\ cg.ops # <<>> /\ TheOp.t \in {"FETCH_STOP", "FETCH_STOP_NOREPLY"}
    /\ LET s1 == IF TheOp.parts \subseteq cg.attached
                 THEN Enq([Popped EXCEPT !.attached = @ \ TheOp.parts],
                          [Op("PARTITION_LEAVE") EXCEPT !.parts = TheOp.parts])
                 ELSE Popped
       IN  cg' = IF TheOp.t = "FETCH_STOP"
                 THEN Enq(s1, [Op("FETCH_STOP_REPLY") EXCEPT !.parts = TheOp.parts]) ELSE s1
    /\ UNCHANGED <<app, co, conn>>

ServePartitionJoin ==
    /\ HeadIs("PARTITION_JOIN")
    /\ LET s1 == [Popped EXCEPT !.toppars = @ \cup TheOp.parts]
       IN  cg' = IF "TERMINATE" \in cg.flags
                 THEN Enq(s1, [Op("FETCH_STOP_NOREPLY") EXCEPT !.parts = TheOp.parts]) ELSE s1
    /\ UNCHANGED <<app, co, conn>>

ServePartitionLeave ==
    /\ HeadIs("PARTITION_LEAVE")
    /\ cg' = TryTerminate([Popped EXCEPT !.toppars = @ \ TheOp.parts])
    /\ UNCHANGED <<app, co, conn>>

ServeFetchStopReply ==
    /\ HeadIs("FETCH_STOP_REPLY")
    /\ LET Waited(s) == IF s.join_state = "WAIT_UNASSIGN" THEN CheckUnassignDone(s) ELSE s
       IN  cg' = Waited([Popped EXCEPT !.wait_unassign_cnt = @ - 1, !.assigned = @ \ TheOp.parts])
    /\ UNCHANGED <<app, co, conn>>

-----------------------------------------------------------------------------
(* The main thread's timers and metadata updates.                          *)

CommitTimer ==
    /\ AutoCommit /\ cg.opsReady
    /\ cg.wait_commit_cnt < MaxCommits
    /\ cg' = AssignedOffsetsCommit(cg, cg.assignment)
    /\ UNCHANGED <<app, co, conn>>

MaxPollTimer ==
    /\ cg.pollTimer /\ app.overdue
    /\ cg' = Rebalance([Leave(Raise([cg EXCEPT !.pollTimer = FALSE], "MAX_POLL_EXCEEDED"))
                           EXCEPT !.ident = "none"])
    /\ UNCHANGED <<app, co, conn>>

Fault == app.faults < MaxFaults /\ app' = [app EXCEPT !.faults = @ + 1]

\* rd_kafka_cgrp_metadata_update_check: the subscribed topics are now known, or
\* have changed.
MetadataChanged ==
    /\ "SUBSCRIPTION" \in cg.flags
    /\ Fault
    /\ cg' = Rejoin(cg)
    /\ UNCHANGED <<co, conn>>

\* A session timeout has passed since terminate; only deferred commits care.
SessionTimeout ==
    /\ "TERMINATE" \in cg.flags /\ cg.wait_coord_q # <<>> /\ ~cg.late
    /\ cg' = [cg EXCEPT !.late = TRUE]
    /\ UNCHANGED <<app, co, conn>>

-----------------------------------------------------------------------------
(* The application.                                                        *)

Idle == ~app.busy /\ app.cb = None

Call == app.calls < MaxCalls /\ app' = [app EXCEPT !.calls = @ + 1, !.busy = TRUE]

AppSubscribe ==
    /\ Idle /\ ~app.closing
    /\ app.calls < MaxCalls /\ app.subscribes < MaxSubscribes
    /\ app' = [app EXCEPT !.calls = @ + 1, !.subscribes = @ + 1, !.busy = TRUE]
    /\ cg' = Enq(cg, Op("SUBSCRIBE"))
    /\ UNCHANGED <<co, conn>>

AppUnsubscribe ==
    /\ Idle /\ ~app.closing /\ Call
    /\ cg' = Enq(cg, Op("UNSUBSCRIBE"))
    /\ UNCHANGED <<co, conn>>

\* rd_kafka_consumer_poll(), or the loop of rd_kafka_consumer_close(), returns the
\* next rebalance event.
AppPoll ==
    /\ Idle /\ cg.q # <<>>
    /\ app' = [app EXCEPT !.cb = Head(cg.q), !.overdue = FALSE]
    /\ cg' = [cg EXCEPT !.q = Tail(@)]
    /\ UNCHANGED <<co, conn>>

\* rebalance_cb does what it is asked to do.
AppCallback ==
    /\ ~app.busy /\ app.cb # None
    /\ app' = [app EXCEPT !.cb = None, !.busy = cg.opsReady]
    /\ cg' = Enq(cg, IF app.cb.event = "ASSIGN" THEN [Op("ASSIGN") EXCEPT !.parts = app.cb.parts]
                     ELSE Op("UNASSIGN"))
    /\ UNCHANGED <<co, conn>>

\* assign() from outside of the callback.
AppAssign ==
    /\ AssignAnytime
    /\ Idle /\ ~app.closing /\ Call
    /\ \E parts \in Assignments : cg' = Enq(cg, [Op("ASSIGN") EXCEPT !.parts = parts])
    /\ UNCHANGED <<co, conn>>

\* commit() of the offsets stored or of given ones, asynchronous.
AppCommit ==
    /\ CommitThread \/ (~app.busy /\ ~app.closing)
    /\ cg.wait_commit_cnt < MaxCommits
    /\ app.calls < MaxCalls /\ app' = [app EXCEPT !.calls = @ + 1]
    /\ \E parts \in {{}, Partitions} : cg' = Enq(cg, [Op("OFFSET_COMMIT") EXCEPT !.parts = parts])
    /\ UNCHANGED <<co, conn>>

\* A message of a running partition is consumed and its offset stored.
AppConsume ==
    /\ Idle /\ ~app.closing /\ cg.join_state = "STARTED"
    /\ \E p \in cg.attached : cg' = [cg EXCEPT !.stored = @ \cup {p}]
    /\ app' = [app EXCEPT !.overdue = FALSE]
    /\ UNCHANGED <<co, conn>>

\* max.poll.interval.ms passes without a poll.
AppOverdue ==
    /\ cg.pollTimer /\ ~app.closing /\ ~app.overdue
    /\ app.faults < MaxFaults
    /\ app' = [app EXCEPT !.faults = @ + 1, !.overdue = TRUE]
    /\ UNCHANGED <<cg, co, conn>>

AppResumesPolling ==
    /\ Idle /\ app.overdue
    /\ app' = [app EXCEPT !.overdue = FALSE]
    /\ UNCHANGED <<cg, co, conn>>

AppClose ==
    /\ Idle /\ ~app.closing
    /\ app' = [app EXCEPT !.closing = TRUE]
    /\ cg' = Enq(cg, Op("TERMINATE"))
    /\ UNCHANGED <<co, conn>>

-----------------------------------------------------------------------------
(* The coordinator and the connection to it.                               *)

\* The ident every holder of one has after the coordinator renews the
\* generation, or forgets the member.
Retag(s, from, to) ==
    LET Of(ident) == IF ident \in from THEN to ELSE ident
        Tag(seq) == [i \in DOMAIN seq |->
                        IF seq[i].t = "GroupCoordinator" THEN seq[i]
                        ELSE [seq[i] EXCEPT !.ident = Of(@)]]
    IN  [s EXCEPT !.ident = Of(@), !.ops = Tag(@), !.net = Tag(@)]

NewGeneration(s) == Retag(s, {"cur"}, "stale")

NewMember(s) == Retag(s, {"cur", "stale"}, "old")

Request == Head(cg.net)

Delivered == [cg EXCEPT !.net = Tail(@)]

Reply(s, err) == cg' = Enq(s, [Request EXCEPT !.err = err])

AtCoordinator(type) ==
    /\ cg.net # <<>> /\ Request.t = type
    /\ conn = co.node

Refused == IF Request.ident = "stale" THEN "ILLEGAL_GENERATION" ELSE "UNKNOWN_MEMBER"

\* The join completes: the member has a new generation, or a new id.
AcceptJoin ==
    /\ AtCoordinator("JoinGroup") /\ Request.ident # "old"
    /\ \E type \in {"JoinGroup", "JoinGroupLeader"} :
           cg' = Enq(IF Request.ident = "none" THEN NewMember(Delivered) ELSE NewGeneration(Delivered),
                     [Op(type) EXCEPT !.ident = "cur"])
    /\ co' = [co EXCEPT !.phase = "sync"]
    /\ UNCHANGED <<app, conn>>

RefuseJoin ==
    /\ AtCoordinator("JoinGroup") /\ Request.ident = "old"
    /\ Reply(Delivered, "UNKNOWN_MEMBER")
    /\ UNCHANGED <<app, co, conn>>

AnswerSync ==
    /\ AtCoordinator("SyncGroup")
    /\ CASE Request.ident # "cur" -> Reply(Delivered, Refused) /\ UNCHANGED co
         [] Request.ident = "cur" /\ co.phase = "rebalance" ->
                Reply(Delivered, "REBALANCE_IN_PROGRESS") /\ UNCHANGED co
         [] OTHER ->
                /\ \E parts \in Assignments : cg' = Enq(Delivered, [Request EXCEPT !.parts = parts])
                /\ co' = [co EXCEPT !.phase = "stable"]
    /\ UNCHANGED <<app, conn>>

AnswerHeartbeat ==
    /\ AtCoordinator("Heartbeat")
    /\ Reply(Delivered, CASE Request.ident # "cur" -> Refused
                          [] Request.ident = "cur" /\ co.phase # "stable" -> "REBALANCE_IN_PROGRESS"
                          [] OTHER -> "ok")
    /\ UNCHANGED <<app, co, conn>>

AnswerLeave ==
    /\ AtCoordinator("LeaveGroup")
    /\ IF Request.ident \in {"cur", "stale"}
       THEN /\ co' = [co EXCEPT !.phase = "out"]
            /\ cg' = Enq(NewMember(Delivered), Op("LeaveGroup"))
       ELSE Reply(Delivered, "UNKNOWN_MEMBER") /\ UNCHANGED co
    /\ UNCHANGED <<app, conn>>

AnswerCommit ==
    /\ AtCoordinator("OffsetCommit")
    /\ IF Request.ident = "cur"
       THEN /\ co' = [co EXCEPT !.committed = @ \cup Request.parts]
            /\ Reply(Delivered, "ok")
       ELSE Reply(Delivered, Refused) /\ UNCHANGED co
    /\ UNCHANGED <<app, conn>>

AnswerOffsetFetch ==
    /\ AtCoordinator("OffsetFetch")
    /\ cg' = Enq(Delivered, [Request EXCEPT !.reset = @ \cup (Request.parts \ co.committed)])
    /\ UNCHANGED <<app, co, conn>>

AnswerMetadata ==
    /\ Up /\ cg.net # <<>> /\ Request.t = "Metadata"
    /\ Reply(Delivered, "ok")
    /\ UNCHANGED <<app, co, conn>>

\* A broker that is not the coordinator any more; OffsetFetch reports it for
\* each partition, without an offset.
AnswerNotCoordinator ==
    /\ Up /\ conn # co.node
    /\ cg.net # <<>> /\ Request.t # "Metadata"
    /\ IF Request.t = "OffsetFetch"
       THEN cg' = Enq(Delivered, [Request EXCEPT !.reset = Request.parts])
       ELSE Reply(Delivered, "NOT_COORDINATOR")
    /\ UNCHANGED <<app, co, conn>>

Queried == cg.queries > Cardinality({i \in DOMAIN cg.ops : cg.ops[i].t = "GroupCoordinator"})

AnswerQuery ==
    /\ Queried
    /\ \/ /\ cg' = Enq(cg, [Op("GroupCoordinator") EXCEPT !.ident = co.node])
          /\ UNCHANGED app
       \/ /\ Fault
          /\ \E err \in {"NOT_AVAILABLE", "TRANSPORT"} :
                 cg' = Enq(cg, [Op("GroupCoordinator") EXCEPT !.err = err])
    /\ UNCHANGED <<co, conn>>

Connect ==
    /\ conn = None /\ cg.coord # None
    /\ conn' = cg.coord
    /\ UNCHANGED <<cg, app, co>>

\* Every request fails when the connection breaks, by itself or because the
\* handle was given another node, and one that is not sent in time.
FailAll(s) == EnqAll([s EXCEPT !.net = <<>>],
                     [i \in DOMAIN s.net |-> [s.net[i] EXCEPT !.err = "TRANSPORT"]])

Disconnect ==
    /\ Up
    /\ IF conn = cg.coord THEN Fault ELSE UNCHANGED app
    /\ conn' = None
    /\ cg' = FailAll(cg)
    /\ UNCHANGED co

RequestTimeout ==
    /\ ~Up /\ cg.net # <<>>
    /\ Reply(Delivered, "TRANSPORT")
    /\ UNCHANGED <<app, co, conn>>

\* Another member joins or leaves, this member's session expires, or the
\* group moves to another coordinator.
GroupRebalances ==
    /\ co.phase \in {"stable", "sync"}
    /\ app.rebalances < MaxRebalances /\ app' = [app EXCEPT !.rebalances = @ + 1]
    /\ co' = [co EXCEPT !.phase = "rebalance"]
    /\ UNCHANGED <<cg, conn>>

SessionExpires ==
    /\ co.phase # "out" /\ Fault
    /\ co' = [co EXCEPT !.phase = "out"]
    /\ cg' = NewMember(cg)
    /\ UNCHANGED conn

CoordinatorMoves ==
    /\ Fault
    /\ \E n \in Nodes \ {co.node} : co' = [co EXCEPT !.node = n]
    /\ UNCHANGED <<cg, conn>>

Main == \/ ServeCgrp \/ ServeGroupCoordinator \/ ServeReply \/ ServeSubscribe \/ ServeAssign
        \/ ServeTerminate \/ ServeFetchStart \/ ServeFetchStop \/ ServePartitionJoin
        \/ ServePartitionLeave \/ ServeFetchStopReply \/ CommitTimer \/ MaxPollTimer
        \/ MetadataChanged \/ SessionTimeout

Application == \/ AppSubscribe \/ AppUnsubscribe \/ AppPoll \/ AppCallback \/ AppAssign \/ AppCommit
               \/ AppConsume \/ AppOverdue \/ AppResumesPolling \/ AppClose

Coordinator == \/ AcceptJoin \/ RefuseJoin \/ AnswerSync \/ AnswerHeartbeat \/ AnswerLeave
               \/ AnswerCommit \/ AnswerOffsetFetch \/ AnswerMetadata \/ AnswerNotCoordinator
               \/ AnswerQuery \/ Connect \/ Disconnect \/ RequestTimeout
               \/ GroupRebalances \/ SessionExpires \/ CoordinatorMoves

Next == Main \/ Application \/ Coordinator

Spec == Init /\ [][Next]_vars

\* The main thread serves its ops and, at least once a second, rd_kafka_cgrp_serve
\* with the intervals passed; brokers answer, or the request times out; the handle
\* reconnects; the application polls and its callback returns.  Each conjunct is
\* weak fairness, with what enables the action in place of ENABLED, which is
\* costly to compute for these actions.
ServeOp == \/ ServeGroupCoordinator \/ ServeReply \/ ServeSubscribe \/ ServeAssign
           \/ ServeTerminate \/ ServeFetchStart \/ ServeFetchStop
           \/ ServePartitionJoin \/ ServePartitionLeave \/ ServeFetchStopReply

ServedDue == Serve(cg, Up, TRUE, TRUE, Len(cg.wait_coord_q), app.overdue)

ServeDue == cg' = ServedDue /\ UNCHANGED <<app, co, conn>>

Answer == \/ AcceptJoin \/ RefuseJoin \/ AnswerSync \/ AnswerHeartbeat \/ AnswerLeave
          \/ AnswerCommit \/ AnswerOffsetFetch \/ AnswerMetadata \/ AnswerNotCoordinator
          \/ RequestTimeout

Fairness ==
    /\ []<>~(cg.ops # <<>>) \/ []<><<ServeOp>>_vars
    /\ []<>~(ServedDue # cg) \/ []<><<ServeDue>>_vars
    /\ []<>~(cg.net # <<>>) \/ []<><<Answer>>_vars
    /\ []<>~(Queried /\ cg.opsReady) \/ []<><<AnswerQuery>>_vars
    /\ []<>~(conn = None /\ cg.coord # None) \/ []<><<Connect>>_vars
    /\ []<>~(Up /\ conn # cg.coord) \/ []<><<Disconnect>>_vars
    /\ []<>~(Idle /\ cg.q # <<>>) \/ []<><<AppPoll>>_vars
    /\ []<>~(~app.busy /\ app.cb # None) \/ []<><<AppCallback>>_vars
    /\ []<>~(Idle /\ app.overdue) \/ []<><<AppResumesPolling>>_vars

FairSpec == Spec /\ Fairness

-----------------------------------------------------------------------------
(* Correctness.                                                            *)

\* The fields of rkcg stay within their types.
TypeOK ==
    /\ cg.state \in States
    /\ cg.join_state \in JoinStates
    /\ cg.flags \subseteq Flags
    /\ cg.assignment \in SUBSET Partitions \cup {None}
    /\ cg.wait_unassign_cnt \in 0 .. Cardinality(Partitions)
    /\ cg.wait_commit_cnt \in Nat
    /\ cg.ident \in {"none", "old", "stale", "cur"}

\* The assertions of rd_kafka_cgrp_op_serve, partition_add, partition_del and
\* rd_kafka_toppar_fetch_start on the op about to be served.
AssertsHold ==
    cg.ops # <<>> =>
        /\ TheOp.t = "FETCH_STOP_REPLY" => cg.wait_unassign_cnt > 0 /\ TheOp.parts \subseteq cg.assigned
        /\ TheOp.t = "FETCH_START" => TheOp.parts \cap cg.attached = {}
        /\ TheOp.t = "PARTITION_JOIN" => TheOp.parts \cap cg.toppars = {}
        /\ TheOp.t = "PARTITION_LEAVE" => TheOp.parts \subseteq cg.toppars

\* The assertions of rd_kafka_cgrp_terminated: nothing is outstanding once the
\* group is terminated.
TerminatedClean ==
    cg.state = "TERM" =>
        /\ cg.wait_unassign_cnt = 0 /\ cg.wait_commit_cnt = 0
        /\ "WAIT_UNASSIGN" \notin cg.flags
        /\ cg.toppars = {} /\ cg.attached = {} /\ cg.assigned = {}

Count(seq, P(_)) == Cardinality({i \in DOMAIN seq : P(seq[i])})

\* The counters that hold back the next assignment count exactly the stops and
\* the commits that are still on their way, wherever they are: requests, replies,
\* retries, deferred or resumed.
CountersExact ==
    cg.opsReady =>
        /\ cg.wait_unassign_cnt = Count(cg.ops, LAMBDA o : o.t \in {"FETCH_STOP", "FETCH_STOP_REPLY"})
        /\ cg.wait_commit_cnt = Count(cg.net, LAMBDA o : o.t = "OffsetCommit")
                                + Count(cg.ops, LAMBDA o : o.t = "OffsetCommit" \/ o.deferred)
                                + Len(cg.wait_coord_q)

\* While the join state waits for rebalance_cb there is exactly one event on its
\* way to the application, in its hands or on its way back, and none otherwise.
OneRebalanceEvent ==
    Len(cg.q) + (IF app.cb = None THEN 0 ELSE 1)
        + Count(cg.ops, LAMBDA o : o.t \in {"ASSIGN", "UNASSIGN"})
        = (IF WaitRebalanceCb(cg) THEN 1 ELSE 0)

\* F_WAIT_UNASSIGN is up exactly while the application is asked to revoke.
WaitsForRevoke == "WAIT_UNASSIGN" \in cg.flags <=> cg.join_state = "WAIT_REVOKE_CB"

\* A partition whose offset was committed is never started by auto.offset.reset.
ResetOnlyWithoutCommit ==
    \A i \in DOMAIN cg.ops : cg.ops[i].t = "FETCH_START" => cg.ops[i].reset \cap co.committed = {}

\* Everything consumed before the group rebalances is committed before the
\* member joins again.
CommittedBeforeRejoin ==
    AutoCommit /\ cg.join_state \in {"WAIT_JOIN", "WAIT_METADATA", "WAIT_SYNC"} => cg.stored = {}

\* The assertions of the library hold, on ops and at termination, and so do the
\* counts they are about: stops and commits on their way are neither forgotten
\* nor counted twice.
Bookkeeping == AssertsHold /\ TerminatedClean /\ CountersExact

\* A rebalance is orderly: one event at a time for the application, the revoke
\* awaited when it is asked for, and what was consumed committed before the
\* member joins again.
RebalanceOrderly == OneRebalanceEvent /\ WaitsForRevoke /\ CommittedBeforeRejoin

\* "all: synchronized and assigned may be an empty assignment": a group that is
\* in the ASSIGNED state has an assignment.
AssignedHasAssignment == cg.join_state = "ASSIGNED" => cg.assignment # None

\* rd_kafka_consumer_close() returns: whatever the group is doing, and whatever
\* fails meanwhile, the TERMINATE op gets its reply.
Closes == app.closing ~> cg.reply = "sent"

\* A subscribed consumer gets to fetch, however often the others rebalance the
\* group meanwhile, unless it unsubscribes or closes.
Consumes ==
    "SUBSCRIPTION" \in cg.flags ~>
        cg.join_state = "STARTED" \/ "SUBSCRIPTION" \notin cg.flags \/ app.closing

\* rd_kafka_cgrp keeps the promise of a group member (module GroupMember).
Phase ==
    CASE cg.join_state = "INIT" -> "free"
      [] cg.join_state \in {"WAIT_JOIN", "WAIT_METADATA", "WAIT_SYNC"} -> "joining"
      [] cg.join_state = "WAIT_ASSIGN_CB" -> "offered"
      [] cg.join_state \in {"ASSIGNED", "STARTED"} -> "holding"
      [] cg.join_state = "WAIT_REVOKE_CB" -> "revoking"
      [] cg.join_state = "WAIT_UNASSIGN" -> "releasing"

Member == INSTANCE GroupMember WITH
              phase <- Phase, held <- cg.assignment, running <- cg.assigned \cup cg.attached

IsGroupMember == Member!Spec
=============================================================================
