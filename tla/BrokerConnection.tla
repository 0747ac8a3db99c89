-------------------------- MODULE BrokerConnection --------------------------
(***************************************************************************)
(* The connections of a librdkafka client to its brokers, and the requests *)
(* that travel on them.  The threads:                                      *)
(*  - one thread per broker (rd_kafka_broker_thread_main): it decides when *)
(*    to connect, performs the set-up of a connection (TCP, TLS,           *)
(*    ApiVersion, SASL), sends requests, matches responses, times requests *)
(*    out, and terminates when nobody refers to its broker any more;       *)
(*  - the main thread: it handles replies (retrying some), the one second  *)
(*    timer, metadata updates, and the group's coordinator;                *)
(*  - application threads that wait for a usable broker;                   *)
(*  - the brokers themselves (external): each answers the requests of a    *)
(*    connection in order, and may refuse, fail, be late or disconnect.    *)
(* Besides the brokers with a host name there is the logical broker of the *)
(* consumer group, whose address is copied from the current coordinator.   *)
(***************************************************************************)
EXTENDS Integers, Sequences, SequencesExt, FiniteSets

CONSTANTS
  Nodes,         \* brokers with a host name: configured or learned
  Coord,         \* the logical broker of the group coordinator
  Requests,      \* the requests a client makes, besides those of the set-up
  Produce,       \* those of them that are ProduceRequests
  NoResponse,    \* those that get no response (acks=0)
  Blocking,      \* those that may block on the broker
  Modern,        \* those that a broker without ApiVersion does not support
  Waiters,       \* application threads that need a usable broker
  Led,           \* brokers that lead a partition this consumer fetches
  MaxInflight,   \* max.in.flight
  MaxRetries,    \* message.send.max.retries
  MaxFails,      \* socket.max.fails, 0 to never disconnect
  Confs          \* the clients considered, see Conf

VARIABLES
  cf,            \* the client's configuration, constant
  bk,            \* per broker: rd_kafka_broker_t, with its thread's position
  g,             \* counters and flags of the client: rd_kafka_t
  rq,            \* per request: "new", "live", "done", or "twice" answered
  rep,           \* replies the main thread has yet to handle
  wt,            \* per waiter: position, and whether its version is current
  srv,           \* per broker: requests it has yet to answer, set-up done
  spent          \* faults, moves and purges so far

vars == <<cf, bk, g, rq, rep, wt, srv, spent>>

\* A client: enable.sparse.connections, security.protocol, whether
\* broker.version.fallback has ApiVersion, whether it has a group; and bounds:
\* failures of the network and of brokers, changes of addresses and of the
\* coordinator, calls of rd_kafka_purge(), its requests and waiting threads.
Conf == [sparse : BOOLEAN, tls : BOOLEAN, sasl : BOOLEAN, queryable : BOOLEAN,
         grouped : BOOLEAN, faults : Nat, moves : Nat, purges : Nat,
         requests : SUBSET Requests, waiters : SUBSET Waiters]

Brokers == Nodes \cup (IF cf.grouped THEN {Coord} ELSE {})
BoolInt(p) == IF p THEN 1 ELSE 0

\* Any state >= STATE_UP: the Kafka protocol layer is operational.
Operational == {"UP", "UPDATE", "APIVERSION_QUERY", "AUTH_HANDSHAKE"}
IsUp(st) == st \in {"UP", "UPDATE"}

\* A request buffer: id, kind ("req", or "api" and "sasl" of the set-up),
\* retries so far, whether it was partly and wholly sent.
Buf(id, kind) == [id |-> id, kind |-> kind, n |-> 0, part |-> FALSE,
                  sent |-> FALSE]

Idle == [st |-> "INIT", pc |-> "main", ret |-> "main", si |-> "INIT",
         conn |-> "none", addr |-> 1, moved |-> FALSE, known |-> FALSE,
         internal |-> FALSE, coord |-> 0, api |-> FALSE, asked |-> FALSE,
         modern |-> FALSE, out |-> <<>>, wait |-> <<>>, retry |-> <<>>,
         blk |-> 0, maxinf |-> MaxInflight, downrep |-> FALSE, tmo |-> 0,
         tried |-> FALSE, backoff |-> FALSE, ops |-> <<>>, listed |-> TRUE]

Closed == [q |-> <<>>, auth |-> FALSE]

Init ==
  /\ cf \in Confs
  /\ bk = [b \in Brokers |-> IF b = Coord THEN [Idle EXCEPT !.addr = 0] ELSE Idle]
  /\ g = [cnt |-> Cardinality(Brokers), up |-> 0, lup |-> 0, down |-> 0,
          addrless |-> BoolInt(cf.grouped), cgrp |-> cf.grouped, curr |-> 0, ready |-> ~cf.sasl,
          term |-> FALSE, main |-> TRUE]
  /\ rq = [q \in Requests |-> "new"]
  /\ rep = {}
  /\ wt = [x \in Waiters |-> [pc |-> "idle", fresh |-> FALSE]]
  /\ srv = [b \in Brokers |-> Closed]
  /\ spent = [faults |-> 0, moves |-> 0, purges |-> 0]

-----------------------------------------------------------------------------
\* Steps transform the whole client at once.
World == [bk |-> bk, g |-> g, rq |-> rq, rep |-> rep, wt |-> wt, srv |-> srv]

Becomes(w) == /\ bk' = w.bk
              /\ g' = w.g
              /\ rq' = w.rq
              /\ rep' = w.rep
              /\ wt' = w.wt
              /\ srv' = w.srv
              /\ UNCHANGED cf

\* rk_broker_state_change_version: versions held by waiters become old, and
\* waiters that sleep are woken.
Broadcast(w) ==
  [w EXCEPT !.wt = [x \in Waiters |->
     [pc |-> IF @[x].pc = "wait" THEN "start" ELSE @[x].pc, fresh |-> FALSE]]]

\* rd_kafka_broker_set_state(): counts brokers up and down.
SetState(w, b, st) ==
  LET o == w.bk[b]
      falls == st = "DOWN" /\ ~o.downrep /\ o.st # "APIVERSION_QUERY"
      rises == st \in Operational /\ o.downrep
      d == BoolInt(IsUp(st)) - BoolInt(IsUp(o.st))
  IN IF o.st = st THEN w
     ELSE Broadcast([w EXCEPT !.bk[b].st = st,
                              !.bk[b].downrep = (@ \/ falls) /\ ~rises,
                              !.g.down = @ + BoolInt(falls) - BoolInt(rises),
                              !.g.up = @ + d,
                              !.g.lup = @ + (IF b = Coord THEN d ELSE 0)])

\* The client raises ALL_BROKERS_DOWN in a step that counts the last broker
\* down.
RaisesAllDown ==
  /\ \E b \in Brokers : bk'[b].downrep /\ ~bk[b].downrep
  /\ g'.down = g'.cnt - g'.addrless
  /\ ~g.term

Finish(s) == IF s = "live" THEN "done" ELSE "twice"

\* rd_kafka_buf_callback() for a set of requests: the reply goes to the main
\* thread's queue; with DESTROY, or when that queue is disabled, the handler
\* runs at once and ends the request.  Handlers of the set-up's own requests
\* run on the broker thread: see SetupError.
Callback(w, b, bufs, err) ==
  LET mine == {r \in bufs : r.kind = "req"}
      now == err = "DESTROY" \/ ~w.g.main
  IN [w EXCEPT !.rep = @ \cup (IF now THEN {}
                               ELSE {[b |-> b, r |-> r, err |-> err] : r \in mine}),
               !.rq = [q \in Requests |->
                         IF now /\ \E r \in mine : r.id = q THEN Finish(@[q])
                         ELSE @[q]]]

\* Mutant: requests in flight are dropped with the connection.
FailForgets(w, b, err) ==
  LET o == w.bk[b]
  IN Callback(
       SetState([w EXCEPT !.bk[b].conn = "none", !.bk[b].tmo = 0,
                          !.bk[b].api = @ /\ o.st # "APIVERSION_QUERY",
                          !.bk[b].wait = <<>>, !.bk[b].out = <<>>,
                          !.bk[b].blk = 0, !.srv[b] = Closed],
                b, "DOWN"),
       b, ToSet(o.out), err)

\* rd_kafka_broker_fail(): the connection is closed, everything sent or
\* queued is answered with the error, and the state becomes DOWN.  The handlers
\* of the set-up's requests call rd_kafka_broker_fail() again, to no effect.
Fail(w, b, err) ==
  LET o == w.bk[b]
      late == IF err = "TIMED_OUT" THEN "TIMED_OUT_QUEUE" ELSE err
  IN Callback(Callback(
       SetState([w EXCEPT !.bk[b].conn = "none", !.bk[b].tmo = 0,
                          !.bk[b].api = @ /\ o.st # "APIVERSION_QUERY",
                          !.bk[b].wait = <<>>, !.bk[b].out = <<>>,
                          !.bk[b].blk = 0, !.srv[b] = Closed],
                b, "DOWN"),
       b, ToSet(o.wait), err), b, ToSet(o.out), late)

\* rd_kafka_broker_buf_enq0(): requests of the set-up have priority FLASH and
\* overtake all that is not partly sent.
Insert(q, r) ==
  LET i == SelectInSeq(q, LAMBDA p : p.kind = "req" /\ ~p.part)
  IN IF r.kind = "req" \/ i = 0 THEN Append(q, r) ELSE InsertAt(q, i, r)

Enq0(w, b, r) ==
  LET wakes == cf.sparse /\ w.bk[b].st = "INIT"
      v == [w EXCEPT !.bk[b].out = Insert(@, [r EXCEPT !.sent = FALSE]),
                     !.bk[b].internal = @ \/ wakes]
  IN IF wakes THEN SetState(v, b, "TRY_CONNECT") ELSE v

\* rd_kafka_q_enq() on rkb_ops: CONNECT and PURGE have priority FLASH.
Flash(op) == op.t \in {"CONNECT", "PURGE"}
EnqOp(w, b, op) ==
  LET i == SelectInSeq(w.bk[b].ops, LAMBDA p : ~Flash(p))
  IN [w EXCEPT !.bk[b].ops = IF Flash(op) /\ i # 0 THEN InsertAt(@, i, op)
                             ELSE Append(@, op)]

Schedule(w, b) == EnqOp(w, b, [t |-> "CONNECT"])

-----------------------------------------------------------------------------
(* Setting a connection up.                                                *)

ConnectUp(w, b) == SetState([w EXCEPT !.bk[b].maxinf = MaxInflight], b, "UP")

ApiVersionRequest(w, b) == Enq0(w, b, Buf("api", "api"))

SaslHandshakeRequest(w, b) == Enq0(w, b, Buf("sasl", "sasl"))

\* rd_kafka_broker_connect_auth(): a mechanism other than GSSAPI needs the
\* SaslHandshake feature.
ConnectAuth(w, b) ==
  IF ~cf.sasl THEN ConnectUp(w, b)
  ELSE IF ~w.bk[b].modern
       THEN Fail(SetState(w, b, "AUTH"), b, "AUTHENTICATION")
  ELSE IF w.bk[b].st # "AUTH_HANDSHAKE"
       THEN SaslHandshakeRequest(SetState(w, b, "AUTH_HANDSHAKE"), b)
  ELSE SetState(w, b, "AUTH")

\* Mutant: requests need not wait for the response to ApiVersion.
ConnectDoneEager(w, b, elapsed) ==
  LET enabled == w.bk[b].api \/ ~w.bk[b].asked \/ elapsed
      asks == enabled \/ cf.queryable
      v == [w EXCEPT !.bk[b].conn = "open",
                     !.bk[b].asked = TRUE, !.bk[b].api = asks,
                     !.bk[b].modern = @ /\ enabled]
  IN IF asks THEN ApiVersionRequest(SetState(v, b, "APIVERSION_QUERY"), b)
     ELSE ConnectAuth(v, b)

\* rd_kafka_broker_connect_done(): ApiVersion is asked on the first connection,
\* unless the broker failed on it and api.version.fallback.ms have not elapsed.
ConnectDone(w, b, elapsed) ==
  LET enabled == w.bk[b].api \/ ~w.bk[b].asked \/ elapsed
      asks == enabled \/ cf.queryable
      v == [w EXCEPT !.bk[b].conn = "open", !.bk[b].maxinf = 1,
                     !.bk[b].asked = TRUE, !.bk[b].api = asks,
                     !.bk[b].modern = @ /\ enabled]
  IN IF asks THEN ApiVersionRequest(SetState(v, b, "APIVERSION_QUERY"), b)
     ELSE ConnectAuth(v, b)

\* Errors of the handlers rd_kafka_broker_handle_ApiVersion() and
\* rd_kafka_broker_handle_SaslHandshake().
SetupError(kind) == IF kind = "api" THEN "TRANSPORT" ELSE "AUTHENTICATION"

-----------------------------------------------------------------------------
(* The broker thread.                                                      *)

Carries(op) == op.t \in {"XMIT", "RETRY"}

\* rd_kafka_broker_terminating(): no reference besides the thread's own.
Terminating(w, b) ==
  /\ ~w.bk[b].listed
  /\ w.g.curr # b
  /\ b = Coord => ~w.g.cgrp
  /\ w.bk[b].out = <<>> /\ w.bk[b].wait = <<>> /\ w.bk[b].retry = <<>>
  /\ \A i \in DOMAIN w.bk[b].ops : ~Carries(w.bk[b].ops[i])
  /\ \A m \in w.rep : m.b # b

NeedsConnection(o) ==
  o.st = "INIT" /\ (~cf.sparse \/ o.internal \/ o.coord > 0)

\* rd_kafka_broker_serve(): one round of input and output, operations and
\* timeouts, after which thread_main() goes on at ret.  Partitions to fetch
\* need a connection (rd_kafka_broker_consumer_serve).
Serve(w, b, ret) ==
  [w EXCEPT !.bk[b].pc = "io", !.bk[b].ret = ret, !.bk[b].si = w.bk[b].st,
            !.bk[b].internal = b \in Led /\ w.bk[b].st # "UP"]

\* Mutant: requests to retry stay queued although they were answered.
EndLoopKeeps(w, b) ==
  IF w.g.term
  THEN Callback([w EXCEPT !.bk[b].pc = "main", !.bk[b].out = <<>>],
                b, ToSet(w.bk[b].out \o w.bk[b].retry), "DESTROY")
  ELSE [w EXCEPT !.bk[b].pc = "main"]

\* The end of the loop of thread_main(): a terminating client answers what
\* waits to be sent.
EndLoop(w, b) ==
  IF w.g.term
  THEN Callback([w EXCEPT !.bk[b].pc = "main", !.bk[b].out = <<>>,
                          !.bk[b].retry = <<>>],
                b, ToSet(w.bk[b].out \o w.bk[b].retry), "DESTROY")
  ELSE [w EXCEPT !.bk[b].pc = "main"]

\* Where thread_main() goes on after rd_kafka_broker_serve(), by the state it
\* was called in.  Names resolve to one address, so a failed attempt is always
\* one of the last address.
Return(w, b) ==
  LET ret == w.bk[b].ret
      st == w.bk[b].st
  IN CASE ret = "continue" -> [w EXCEPT !.bk[b].pc = "main"]
       [] ret = "connect" -> [w EXCEPT !.bk[b].pc = "connect"]
       [] ret = "setup" /\ st = "DOWN" -> Serve(w, b, "main")
       [] ret = "up" /\ st = "UPDATE" -> EndLoop(SetState(w, b, "UP"), b)
       [] OTHER -> EndLoop(w, b)

At(b, pc) == bk[b].pc = pc
InState(b, sts) == bk[b].st \in sts
MayFail == spent.faults < cf.faults
Faulty == MayFail /\ spent' = [spent EXCEPT !.faults = @ + 1]
Fine == UNCHANGED spent

\* The cases of thread_main().
Decide(b) ==
  /\ At(b, "redo") \/ (At(b, "main") /\ ~Terminating(World, b))
  /\ Fine
  /\ \/ /\ InState(b, {"INIT"})
        /\ Becomes(IF NeedsConnection(bk[b])
                   THEN [SetState(World, b, "TRY_CONNECT") EXCEPT !.bk[b].pc = "redo"]
                   ELSE Serve(World, b, "main"))
     \/ /\ InState(b, {"DOWN"})
        /\ Becomes([SetState(World, b, IF cf.sparse THEN "INIT" ELSE "TRY_CONNECT")
                      EXCEPT !.bk[b].pc = "redo"])
     \/ /\ InState(b, {"TRY_CONNECT"})
        /\ Becomes(IF g.term THEN Serve(World, b, "connect")
                   ELSE [World EXCEPT !.bk[b].pc = "connect"])
     \/ /\ InState(b, {"CONNECT", "AUTH", "AUTH_HANDSHAKE", "APIVERSION_QUERY"})
        /\ Becomes(Serve(World, b, "setup"))
     \/ /\ InState(b, {"UP", "UPDATE"})
        /\ Becomes(Serve(World, b, "up"))

\* rd_kafka_sasl_ready() and rd_kafka_broker_reconnect_backoff(): serve before
\* the next attempt.
Delay(b) ==
  /\ At(b, "connect") /\ Fine
  /\ ~g.ready \/ bk[b].backoff
  /\ Becomes(Serve([World EXCEPT !.bk[b].backoff = FALSE], b, "continue"))

\* rd_kafka_broker_connect(): a logical broker without address does nothing,
\* and resolving the name or creating the socket may fail.
Attempt(b) == [World EXCEPT !.bk[b].tried = TRUE, !.bk[b].moved = FALSE]
Connecting(b) == SetState([Attempt(b) EXCEPT !.bk[b].backoff = TRUE], b, "CONNECT")
ResolveFails(b) == Fail(Connecting(b), b, "RESOLVE")
TransportConnect(b, ok) ==
  IF ok THEN [Connecting(b) EXCEPT !.bk[b].conn = "tcp"] ELSE Fail(Connecting(b), b, "TRANSPORT")
Connect(b) ==
  /\ At(b, "connect") /\ g.ready
  /\ \/ bk[b].addr = 0 /\ Fine /\ Becomes(Serve(Attempt(b), b, "main"))
     \/ bk[b].addr # 0 /\ Fine /\ Becomes(Serve(TransportConnect(b, TRUE), b, "main"))
     \/ /\ bk[b].addr # 0 /\ Faulty
        /\ \/ Becomes(Serve(ResolveFails(b), b, "main"))
           \/ Becomes(Serve(TransportConnect(b, FALSE), b, "main"))

\* The end of thread_main(): nobody refers to the broker.
Exit(b) ==
  /\ At(b, "main") /\ Terminating(World, b)
  /\ Fine
  /\ Becomes(Fail([World EXCEPT !.g.cnt = @ - 1, !.bk[b].pc = "gone",
                                !.bk[b].ops = <<>>], b, "DESTROY"))

-----------------------------------------------------------------------------
(* Input and output: rd_kafka_transport_io_serve().                        *)

Then(w, b, pc) == Becomes([w EXCEPT !.bk[b].pc = pc])

\* In state CONNECT: the socket is connected, and TLS negotiated on it.
Established(b, then) ==
  \E elapsed \in BOOLEAN : Then(IF then = "tls" THEN [World EXCEPT !.bk[b].conn = "tls"]
                                ELSE ConnectDone(World, b, elapsed), b, "ops")
SocketEvent(b) ==
  /\ At(b, "io") /\ InState(b, {"CONNECT"}) /\ bk[b].conn = "tcp"
  /\ \/ Fine /\ Established(b, IF cf.tls THEN "tls" ELSE "open")
     \/ Faulty /\ Then(Fail(World, b, "TRANSPORT"), b, "ops")
TlsEvent(b) ==
  /\ At(b, "io") /\ InState(b, {"CONNECT"}) /\ bk[b].conn = "tls"
  /\ \/ Fine /\ Established(b, "open")
     \/ Faulty /\ Then(Fail(World, b, "SSL"), b, "ops")

\* In state AUTH: the SASL exchange ends, or fails.
SaslEvent(b) ==
  /\ At(b, "io") /\ InState(b, {"AUTH"})
  /\ \/ /\ Fine
        /\ Then(ConnectUp([World EXCEPT !.srv[b].auth = TRUE], b), b, "ops")
     \/ Faulty /\ Then(Fail(World, b, "AUTHENTICATION"), b, "ops")

Disconnect(b) ==
  /\ At(b, "io") /\ InState(b, Operational)
  /\ Faulty
  /\ Then(Fail(World, b, "TRANSPORT"), b, "ops")

\* rd_kafka_waitresp_find() and the reply to a request: the state change is
\* announced when one blocking request remains.
Matches(p, t) == p.id = t.id /\ p.n = t.n
Answer(w, b, r) ==
  LET v == [w EXCEPT !.bk[b].wait = SelectSeq(@, LAMBDA p : ~Matches(p, r)),
                     !.bk[b].blk = @ - BoolInt(r.id \in Blocking)]
  IN IF r.id \in Blocking /\ v.bk[b].blk = 1 THEN Broadcast(v) ELSE v

\* The versions the broker told of replace the assumed ones.
SetApiVersions(w, b) == [w EXCEPT !.bk[b].modern = TRUE, !.bk[b].api = TRUE]
Respond(w, b, r) ==
  CASE r.kind = "req" -> Callback(w, b, {r}, "none")
    [] r.kind = "api" -> ConnectAuth(SetApiVersions(w, b), b)
    [] r.kind = "sasl" -> ConnectAuth(w, b)

\* rd_kafka_recv() and rd_kafka_req_response(): a response that matches no
\* request in flight is dropped.
Receive(b) ==
  /\ At(b, "io") /\ InState(b, Operational) /\ srv[b].q # <<>>
  /\ LET t == Head(srv[b].q)
         w == [World EXCEPT !.srv[b].q = Tail(@)]
         found == SelectSeq(bk[b].wait, LAMBDA p : Matches(p, t))
     IN \/ found = <<>> /\ Fine /\ Becomes(w)
        \/ found # <<>> /\ Fine /\ Becomes(Respond(Answer(w, b, found[1]), b, found[1]))
        \/ /\ found # <<>> /\ t.kind # "req" /\ Faulty
           /\ Then(Fail(Answer(w, b, found[1]), b, SetupError(t.kind)), b, "ops")

\* rd_kafka_send() for the first request of the queue.
Sent(w, b, r) ==
  LET v == [w EXCEPT !.bk[b].out = Tail(@),
                     !.bk[b].blk = @ + BoolInt(r.id \in Blocking)]
      u == IF r.id \in Blocking /\ v.bk[b].blk = 1 THEN Broadcast(v) ELSE v
  IN IF r.id \in NoResponse THEN Callback(u, b, {r}, "none")
     ELSE [u EXCEPT !.bk[b].wait = Append(@, r), !.srv[b].q = Append(@, r)]

CanSend(b) == /\ InState(b, Operational)
              /\ Len(bk[b].wait) < bk[b].maxinf
              /\ bk[b].out # <<>>

Send(b) ==
  /\ At(b, "io") /\ CanSend(b)
  /\ LET r == Head(bk[b].out)
         supported == r.kind = "req" /\ r.id \in Modern => bk[b].modern
     IN \/ /\ ~supported /\ Fine
           /\ Becomes(Callback([World EXCEPT !.bk[b].out = Tail(@)], b, {r},
                               "UNSUPPORTED_FEATURE"))
        \/ /\ supported /\ Fine
           /\ Becomes(Sent(World, b, [r EXCEPT !.part = FALSE, !.sent = TRUE]))
        \/ /\ supported /\ ~r.part /\ Fine
           /\ Then([World EXCEPT !.bk[b].out[1].part = TRUE], b, "ops")
        \/ supported /\ Faulty /\ Then(Fail(World, b, "TRANSPORT"), b, "ops")

\* rd_kafka_broker_retry_bufs_move(), once the retry backoff has elapsed.
MoveRetry(b) ==
  /\ At(b, "io") /\ bk[b].retry # <<>> /\ Fine
  /\ Becomes(Enq0([World EXCEPT !.bk[b].retry = Tail(@)], b, Head(bk[b].retry)))

\* The poll ends with nothing done: an operation was queued, whatever the
\* connection waits for, or there is nothing to wait for.
Quiet(b) ==
  /\ At(b, "io") /\ Fine
  /\ \/ bk[b].ops # <<>>
     \/ /\ ~InState(b, {"CONNECT", "AUTH"})
        /\ InState(b, Operational) => srv[b].q = <<>> /\ ~CanSend(b)
        /\ bk[b].retry = <<>>
  /\ Then(World, b, "ops")

-----------------------------------------------------------------------------
(* Operations of the broker's queue: rd_kafka_broker_op_serve().           *)

Without(q, R) == SelectSeq(q, LAMBDA r : r \notin R)
Partly(R) == \E r \in R : r.part

\* rd_kafka_broker_handle_purge_queues(), of both queues and requests in
\* flight.
PurgeQueues(w, b) ==
  LET o == w.bk[b]
      P(q) == {r \in ToSet(q) : r.id \in Produce}
      v == Callback(Callback(
             [w EXCEPT !.bk[b].wait = Without(@, P(o.wait)),
                       !.bk[b].retry = Without(@, P(o.retry)),
                       !.bk[b].out = Without(@, P(o.out)),
                       !.bk[b].blk = @ - Cardinality({r \in P(o.wait) : r.id \in Blocking})],
             b, P(o.wait), "PURGE_INFLIGHT"), b, P(o.retry) \cup P(o.out), "PURGE_QUEUE")
      u == IF v.bk[b].blk = 0 /\ o.blk # 0 THEN Broadcast(v) ELSE v
  IN IF Partly(P(o.out)) THEN Fail(u, b, "PURGE_QUEUE") ELSE u

NodeUpdated(w, b, op) ==
  LET o == w.bk[b]
      v == [w EXCEPT !.bk[b].addr = op.addr, !.bk[b].known = TRUE]
  IN Broadcast(
       IF o.addr # op.addr THEN Fail([v EXCEPT !.bk[b].moved = TRUE], b, "NODE_UPDATE")
       ELSE IF ~o.known /\ o.st = "UP" THEN SetState(v, b, "UPDATE") ELSE v)

\* rd_kafka_broker_buf_retry(): the request is sent again from its start.
BufRetry(w, b, r) ==
  [w EXCEPT !.bk[b].retry = Append(@, [r EXCEPT !.part = FALSE])]

\* A connection is asked for, or is to an address the broker left.
ConnectAsked(w, b) ==
  IF w.bk[b].st = "INIT"
  THEN SetState([w EXCEPT !.bk[b].internal = TRUE], b, "TRY_CONNECT")
  ELSE IF w.bk[b].st # "DOWN" /\ w.bk[b].moved THEN Fail(w, b, "NODE_UPDATE")
  ELSE w

ServeOp(w, b, op) ==
  CASE op.t = "NODE" -> NodeUpdated(w, b, op)
    [] op.t = "XMIT" -> Enq0(w, b, op.r)
    [] op.t = "RETRY" -> BufRetry(w, b, op.r)
    [] op.t = "TERM" -> Fail(w, b, "DESTROY")
    [] op.t = "PURGE" -> PurgeQueues(w, b)
    [] op.t = "CONNECT" -> ConnectAsked(w, b)

\* rd_kafka_broker_ops_serve(): TERMINATE ends the round.
Op(b) ==
  /\ At(b, "ops") /\ bk[b].ops # <<>> /\ Fine
  /\ LET op == Head(bk[b].ops)
     IN Then(ServeOp([World EXCEPT !.bk[b].ops = Tail(@)], b, op), b,
             IF op.t = "TERM" THEN "scan" ELSE "ops")

\* rd_kafka_broker_timeout_scan() with T the requests whose time is over.
TimeoutScan(w, b, T) ==
  LET o == w.bk[b]
      W == T \cap ToSet(o.wait)
      Q == T \ W
      blocked == {r \in W : r.id \in Blocking}
      v == Callback(Callback(
             [w EXCEPT !.bk[b].wait = Without(@, T), !.bk[b].retry = Without(@, T),
                       !.bk[b].out = Without(@, T),
                       !.bk[b].blk = @ - Cardinality(blocked),
                       !.bk[b].tmo = @ + Cardinality(T \ ToSet(o.retry))],
             b, W, "TIMED_OUT"), b, Q, "TIMED_OUT_QUEUE")
      u == IF v.bk[b].blk = 0 /\ blocked # {} THEN Broadcast(v) ELSE v
      setup == {r \in T : r.kind # "req"}
  IN IF \E r \in setup : TRUE
     THEN Fail(u, b, SetupError((CHOOSE r \in setup : TRUE).kind))
     ELSE IF Partly(Q) \/ (MaxFails # 0 /\ u.bk[b].tmo >= MaxFails
                           /\ u.bk[b].st \in Operational)
          THEN Fail(u, b, "TIMED_OUT")
     ELSE u

Held(b) == ToSet(bk[b].wait \o bk[b].retry \o bk[b].out)

\* Requests time out while the broker is slow.
Expire(b) ==
  /\ At(b, "io") /\ Faulty
  /\ \E T \in (SUBSET Held(b)) \ {{}} : Then(TimeoutScan(World, b, T), b, "ops")

\* The rest of rd_kafka_broker_ops_io_serve(): a connection may be needed.
AtScan(b) == At(b, "scan") \/ (At(b, "ops") /\ bk[b].ops = <<>>)
EndServe(b) ==
  /\ AtScan(b) /\ Fine
  /\ Becomes(Return(IF NeedsConnection(bk[b]) THEN SetState(World, b, "TRY_CONNECT")
                    ELSE World, b))

\* Requests time out that were queued while the connection was down, and for
\* which no connection is made.
Stranded(b) == InState(b, {"INIT"}) /\ bk[b].out # <<>> /\ ~NeedsConnection(bk[b])
Abandon(b) ==
  /\ AtScan(b) /\ Stranded(b) /\ Fine
  /\ Becomes(Return(TimeoutScan(World, b, ToSet(bk[b].out)), b))

Thread(b) ==
  \/ Decide(b) \/ Delay(b) \/ Connect(b) \/ Exit(b)
  \/ SocketEvent(b) \/ TlsEvent(b) \/ SaslEvent(b) \/ Disconnect(b)
  \/ Receive(b) \/ Send(b)
  \/ MoveRetry(b) \/ Quiet(b) \/ Op(b) \/ Expire(b) \/ EndServe(b) \/ Abandon(b)

-----------------------------------------------------------------------------
(* The main thread and the application.                                    *)

\* rd_kafka_broker_buf_enq_replyq() from another thread.
Submit(q, b) ==
  /\ q \in cf.requests /\ rq[q] = "new" /\ ~g.term /\ bk[b].listed
  /\ Fine
  /\ Becomes(EnqOp([World EXCEPT !.rq[q] = "live"], b,
                   [t |-> "XMIT", r |-> Buf(q, "req")]))

\* A reply is handled: rd_kafka_buf_retry() sends the request again, unless it
\* was sent too often.  Messages of a ProduceRequest are retried one by one.
Retriable(m) ==
  /\ m.err \in {"TRANSPORT", "TIMED_OUT", "TIMED_OUT_QUEUE"}
  /\ m.r.id \notin Produce
  /\ m.r.n + BoolInt(m.r.sent) <= MaxRetries
HandleReply(m) ==
  /\ g.main /\ m \in rep /\ Fine
  /\ LET w == [World EXCEPT !.rep = @ \ {m}]
     IN Becomes(IF Retriable(m) /\ ~g.term
                THEN EnqOp(w, m.b, [t |-> "RETRY",
                             r |-> [m.r EXCEPT !.n = @ + BoolInt(m.r.sent)]])
                ELSE [w EXCEPT !.rq[m.r.id] = Finish(@)])

\* rd_kafka_connect_any(): the outcomes; it does nothing shortly after the
\* last time, when that attempt has not ended.
Sleeping == {n \in Nodes : bk[n].st = "INIT" /\ bk[n].listed}
Attempting == \E n \in Nodes : bk[n].st # "INIT" \/ bk[n].ops # <<>>
ConnectAny(w) ==
  LET fresh == {n \in Sleeping : ~bk[n].tried}
  IN IF g.up - g.lup > 0 \/ Sleeping = {} THEN {w}
     ELSE {Schedule(w, n) : n \in IF fresh = {} THEN Sleeping ELSE fresh}
          \cup (IF Attempting THEN {w} ELSE {})

\* rd_kafka_1s_tmr_cb()
Timer1s ==
  /\ g.main /\ cf.sparse /\ g.up = 0 /\ Sleeping # {} /\ ~Attempting
  /\ Fine
  /\ \E w \in ConnectAny(World) : Becomes(w)

\* rd_kafka_broker_any_usable(): take the version, look for a broker, wait for
\* a newer version.
Goes(w, x, pc) == Becomes([w EXCEPT !.wt[x].pc = pc])
Usable == \E n \in Nodes : bk[n].st = "UP" /\ bk[n].listed
Ask(x) == x \in cf.waiters /\ wt[x].pc = "idle" /\ ~g.term /\ Fine /\ Goes(World, x, "start")
TakeVersion(x) ==
  /\ wt[x].pc = "start" /\ Fine
  /\ Goes([World EXCEPT !.wt[x].fresh = TRUE], x, "look")
Look(x) ==
  /\ wt[x].pc = "look" /\ Fine
  /\ IF Usable THEN Goes(World, x, "found")
     ELSE \E w \in IF cf.sparse THEN ConnectAny(World) ELSE {World} : Goes(w, x, "check")
\* Mutant: a change between the look and the wait is missed.
WaitChangeBlind(x) ==
  wt[x].pc = "check" /\ Fine /\ Goes(World, x, "wait")

WaitChange(x) ==
  /\ wt[x].pc = "check" /\ Fine
  /\ Goes(World, x, IF wt[x].fresh THEN "wait" ELSE "start")
GiveUp(x) == wt[x].pc \in {"check", "wait"} /\ g.term /\ Fine /\ Goes(World, x, "gaveup")

\* rd_kafka_broker_set_nodename() of the logical broker.
SetNodename(w, addr) ==
  LET old == w.bk[Coord].addr
  IN IF old = addr THEN w
     ELSE Schedule([w EXCEPT !.bk[Coord].addr = addr, !.bk[Coord].moved = TRUE,
                             !.g.addrless = @ + BoolInt(addr = 0) - BoolInt(old = 0)],
                   Coord)

\* rd_kafka_cgrp_coord_set_broker() and rd_kafka_cgrp_coord_clear_broker()
CoordSet(n) ==
  /\ g.cgrp /\ g.curr = 0 /\ ~g.term /\ bk[n].known
  /\ spent.moves < cf.moves /\ spent' = [spent EXCEPT !.moves = @ + 1]
  /\ Becomes(SetNodename(Schedule([World EXCEPT !.g.curr = n, !.bk[Coord].coord = @ + 1],
                                  Coord), bk[n].addr))

\* rd_kafka_cgrp_coord_clear_broker().
CoordCleared(w) ==
  IF w.g.curr = 0 THEN w
  ELSE SetNodename([w EXCEPT !.g.curr = 0, !.bk[Coord].coord = @ - 1], 0)
CoordClear ==
  /\ g.cgrp /\ g.curr # 0 /\ ~g.term
  /\ Fine /\ Becomes(CoordCleared(World))

\* rd_kafka_broker_update(): metadata tells a broker's id, then its new name.
BrokerUpdate(n) ==
  /\ g.main /\ ~g.term /\ Usable
  /\ spent.moves < cf.moves /\ spent' = [spent EXCEPT !.moves = @ + 1]
  /\ Becomes(EnqOp(World, n, [t |-> "NODE",
                              addr |-> bk[n].addr + BoolInt(bk[n].known)]))

Purge ==
  /\ ~g.term /\ ~cf.grouped
  /\ spent.purges < cf.purges /\ spent' = [spent EXCEPT !.purges = @ + 1]
  /\ Becomes([World EXCEPT !.bk = [b \in Brokers |->
                EnqOp(World, b, [t |-> "PURGE"]).bk[b]]])

\* The application supplies a token (rd_kafka_oauthbearer_set_token).
TokenSet == ~g.ready /\ Fine /\ Becomes([World EXCEPT !.g.ready = TRUE])

\* rd_kafka_cgrp_terminated(), rd_kafka_destroy() and, once the main thread's
\* queue is empty, rd_kafka_destroy_internal().
CgrpTerminated == /\ g.cgrp /\ ~g.term /\ Fine
                  /\ Becomes([CoordCleared(World) EXCEPT !.g.cgrp = FALSE])
Destroy == ~g.cgrp /\ ~g.term /\ Fine /\ Becomes([World EXCEPT !.g.term = TRUE])
DestroyInternal ==
  /\ g.term /\ g.main /\ rep = {} /\ Fine
  /\ LET w == Broadcast([World EXCEPT !.g.main = FALSE])
     IN Becomes([w EXCEPT !.bk = [b \in Brokers |->
          [EnqOp(w, b, [t |-> "TERM"]).bk[b] EXCEPT !.listed = FALSE]]])

Main ==
  \/ \E m \in rep : HandleReply(m)
  \/ Timer1s \/ DestroyInternal
Waiter(x) == Ask(x) \/ TakeVersion(x) \/ Look(x) \/ WaitChange(x) \/ GiveUp(x)
Ended == /\ \A b \in Brokers : At(b, "gone")
         /\ UNCHANGED vars

Next ==
  \/ \E b \in Brokers : Thread(b)
  \/ Main
  \/ \E x \in Waiters : Waiter(x)
  \/ \E q \in Requests, b \in Brokers : Submit(q, b)
  \/ \E n \in Nodes : CoordSet(n) \/ BrokerUpdate(n)
  \/ CoordClear \/ Purge \/ TokenSet \/ CgrpTerminated \/ Destroy
  \/ Ended

-----------------------------------------------------------------------------
(* Fairness, written out: threads are scheduled, timers fire, requests that
   nothing sends time out, and the application supplies its token.         *)

ThreadFair(b) ==
  []<>(b \in Brokers => At(b, "gone")) \/ []<><<b \in Brokers /\ Thread(b)>>_vars
AbandonFair(b) ==
  \/ <>[](b \in Brokers => ~(AtScan(b) /\ Stranded(b)))
  \/ []<><<b \in Brokers /\ Abandon(b)>>_vars
ReplyFair == []<>(~g.main \/ rep = {}) \/ []<><<\E m \in rep : HandleReply(m)>>_vars
TimerFair ==
  \/ []<>~(g.main /\ cf.sparse /\ g.up = 0 /\ Sleeping # {} /\ ~Attempting)
  \/ []<><<Timer1s>>_vars
DestroyFair == []<>~(g.term /\ g.main /\ rep = {}) \/ []<><<DestroyInternal>>_vars
WaiterFair(x) ==
  \/ []<>(wt[x].pc \in {"idle", "found", "gaveup"} \/ (wt[x].pc = "wait" /\ ~g.term))
  \/ []<><<Waiter(x)>>_vars

Fairness ==
  /\ \A b \in Nodes \cup {Coord} : ThreadFair(b) /\ AbandonFair(b)
  /\ ReplyFair /\ TimerFair /\ DestroyFair
  /\ \A x \in Waiters : WaiterFair(x)
  /\ []<>g.ready

Spec == Init /\ [][Next]_vars
FairSpec == Spec /\ Fairness

-----------------------------------------------------------------------------
(* Properties.                                                             *)

\* The places that hold request q: the count of live copies.
Copies(q) ==
  LET In(S) == Cardinality({i \in DOMAIN S : S[i].id = q})
      Ops(S) == Cardinality({i \in DOMAIN S : Carries(S[i]) /\ S[i].r.id = q})
      At1(b) == In(bk[b].out) + In(bk[b].wait) + In(bk[b].retry) + Ops(bk[b].ops)
  IN FoldSet(LAMBDA b, n : n + At1(b), 0, Brokers)
     + Cardinality({m \in rep : m.r.id = q})

\* Whatever fails, is retried, purged or destroyed, a request is in exactly one
\* queue until its handler has run, and the handler runs once: no request is
\* lost, sent from two queues, or answered twice (rd_kafka_buf_callback).
AnsweredOnce ==
  \A q \in Requests : /\ rq[q] # "twice"
                      /\ Copies(q) = BoolInt(rq[q] = "live")

\* Requests of the client reach a broker only after the set-up has finished:
\* ApiVersion answered, and with SASL authenticated (rkb_max_inflight is 1 until
\* rd_kafka_broker_connect_up, and set-up requests overtake).
SetupFirst ==
  \A b \in Brokers :
    (\E i \in DOMAIN srv[b].q : srv[b].q[i].kind = "req") =>
      /\ IsUp(bk[b].st)
      /\ cf.sasl => srv[b].auth
      /\ \A i \in DOMAIN bk[b].wait : bk[b].wait[i].kind = "req"

\* The counts kept by rd_kafka_broker_set_state(), over all the threads that
\* change them: connect_any() and the ALL_BROKERS_DOWN error rely on them.
CountersExact ==
  LET Count(S) == Cardinality(S)
  IN /\ g.up = Count({b \in Brokers : IsUp(bk[b].st)})
     /\ g.lup = Count({b \in Brokers \ Nodes : IsUp(bk[b].st)})
     /\ g.down = Count({b \in Brokers : bk[b].downrep})
     /\ g.addrless = Count({b \in Brokers : bk[b].addr = 0})
     /\ \A b \in Brokers :
          /\ bk[b].blk = Count({i \in DOMAIN bk[b].wait : bk[b].wait[i].id \in Blocking})
          /\ Len(bk[b].wait) <= bk[b].maxinf

\* A thread that sleeps for a state change in rd_kafka_broker_any_usable() has
\* not missed one: while it sleeps no broker is usable.
NoLostWakeup == (\E x \in Waiters : wt[x].pc = "wait") => ~Usable

\* Every request is answered, even if brokers fail and connections are sparse,
\* except one that waits for a coordinator while none is known.
Waits(q) ==
  /\ cf.grouped /\ bk[Coord].addr = 0
  /\ \/ \E r \in ToSet(bk[Coord].out \o bk[Coord].retry) : r.id = q
     \/ \E op \in ToSet(bk[Coord].ops) : Carries(op) /\ op.r.id = q
Answered == \A q \in Requests : []<>(rq[q] # "live" \/ Waits(q))

\* A thread that asks for a usable broker finds one once brokers can be
\* reached, or gives up as the client is destroyed.
Found ==
  \A x \in Waiters : wt[x].pc = "start" ~> wt[x].pc \in {"found", "gaveup"}

\* rd_kafka_destroy() ends every broker thread, whatever it was doing.
ThreadsEnd == g.term ~> \A b \in Brokers : At(b, "gone")

\* What a caller of the broker threads relies on: requests are answered once and
\* wait for the set-up, and the counts and wake-ups that others use are right.
ConnectionSound == AnsweredOnce /\ SetupFirst /\ CountersExact /\ NoLostWakeup

\* Nobody waits for ever: a request, a thread in need of a broker, the client
\* that is being destroyed.
ConnectionProgresses == Answered /\ Found /\ ThreadsEnd

\* ALL_BROKERS_DOWN means what it says: no broker is up when it is raised.  It
\* does not hold: a coordinator that is forgotten while it is counted down is
\* left out of the brokers with an address, but not of the brokers down.
AllDownTruthful == [][RaisesAllDown => g'.up = 0]_vars

=============================================================================
