------------------------------ MODULE OpQueues ------------------------------
(***************************************************************************)
(* The op queues every thread of librdkafka talks through                   *)
(* (rdkafka_queue.[ch], rdkafka_op.c, rdkafka_event.c, and the callbacks    *)
(* of rd_kafka_poll_cb()): enqueueing along a chain of forwarded queues     *)
(* whose locks are taken one after the other, changing a forward, popping   *)
(* and serving with condition variables that wake one waiter, yielding,     *)
(* disabling, purging and destroying a queue, and synchronous requests.     *)
(*                                                                          *)
(* A thread runs a script of calls.  One step is one critical section of    *)
(* one queue's lock, or one callback outside of any lock.  An op is an      *)
(* identifier; plan.ops gives what never changes about it.                  *)
(*                                                                          *)
(* An uncommented definition just above another one is a faulty variant of  *)
(* it, under which one of the properties fails.                             *)
(***************************************************************************)
EXTENDS Integers, Sequences, FiniteSets, SequencesExt

CONSTANTS
  Plans,     \* the scripts: [qs, ops, scripts, loops, consumecb, yields, fifo]
  ThreadNames,  \* of all plans
  None

VARIABLE s

Op(w, id) == w.plan.ops[id]
OpIds(w) == DOMAIN w.plan.ops
Threads(w) == DOMAIN w.plan.scripts
Call(w, t) == w.plan.scripts[t][w.th[t].i]

(***************************************************************************)
(* References and destruction                                               *)
(***************************************************************************)
QInit == [ops |-> <<>>, qlen |-> 0, fwd |-> None, ref |-> 1, ready |-> TRUE,
          yield |-> FALSE, sig |-> 0, io |-> 0]

Keep(w, q) == [w EXCEPT !.q[q].ref = @ + 1]

Disable(w, q) == [w EXCEPT !.q[q].ready = FALSE]

RECURSIVE Destroy(_, _)

(* rd_kafka_op_destroy(): a callback op's callback is told, the reply queue  *)
(* is let go of without a reply.                                             *)
OpDestroy(w, id) ==
  LET gone == [w EXCEPT !.fate[id] = "destroyed", !.times[id] = @ + 1,
                        !.rep[id] = None]
  IN IF w.rep[id] = None THEN gone ELSE Destroy(gone, w.rep[id])

PurgeOps(w, q) ==
  FoldLeft(OpDestroy, [w EXCEPT !.q[q].ops = <<>>, !.q[q].qlen = 0], w.q[q].ops)

(* rd_kafka_q_fwd_set0(): the old destination is released, what is queued    *)
(* moves to the new one unless that is disabled.                             *)
InsertSorted(w, ops, id) ==
  LET Before == {i \in DOMAIN ops : Op(w, id).prio > Op(w, ops[i]).prio}
      at == IF Before = {} THEN Len(ops) + 1 ELSE CHOOSE i \in Before : \A j \in Before : i <= j
  IN InsertAt(ops, at, id)

Waiters(w, q) == {t \in Threads(w) : w.th[t].st = "wait" /\ w.th[t].q = q}
Signal(w, q) ==
  IF w.q[q].sig < Cardinality(Waiters(w, q)) THEN [w EXCEPT !.q[q].sig = @ + 1] ELSE w

IoEvent(w, q) == [w EXCEPT !.q[q].io = 1]

RECURSIVE Final(_, _)
Final(w, q) == IF w.q[q].fwd = None THEN q ELSE Final(w, w.q[q].fwd)

Moved(w, dst, src) ==
  LET prios == SelectSeq(w.q[src].ops, LAMBDA id : Op(w, id).prio > 0)
      rest  == SelectSeq(w.q[src].ops, LAMBDA id : Op(w, id).prio = 0)
  IN FoldLeft(LAMBDA a, id : InsertSorted(w, a, id), w.q[dst].ops, prios) \o rest

ConcatSilent(w, q, src) ==
  LET dst == Final(w, q)
  IN IF w.q[src].qlen = 0 \/ ~w.q[dst].ready THEN w
     ELSE [w EXCEPT !.q[dst].ops = Moved(w, dst, src), !.q[dst].qlen = @ + w.q[src].qlen,
                    !.q[src].ops = <<>>, !.q[src].qlen = 0]

Concat(w, q, src) ==
  LET dst == Final(w, q)
      io  == IF w.q[dst].qlen = 0 THEN IoEvent(w, dst) ELSE w
  IN IF w.q[src].qlen = 0 \/ ~w.q[dst].ready THEN w
     ELSE Signal([io EXCEPT !.q[dst].ops = Moved(w, dst, src),
                            !.q[dst].qlen = @ + w.q[src].qlen,
                            !.q[src].ops = <<>>, !.q[src].qlen = 0], dst)

FwdSet(w, src, dst) ==
  LET old == w.q[src].fwd
      w1  == IF old = None THEN w ELSE Destroy([w EXCEPT !.q[src].fwd = None], old)
  IN IF dst = None THEN w1
     ELSE [Concat(Keep(w1, dst), dst, src) EXCEPT !.q[src].fwd = dst]

DestroyFinal(w, q) == PurgeOps(FwdSet(Disable(w, q), q, None), q)

Destroy(w, q) ==
  LET w1 == [w EXCEPT !.q[q].ref = @ - 1]
  IN IF w1.q[q].ref = 0 THEN DestroyFinal(w1, q) ELSE w1

(***************************************************************************)
(* Enqueueing                                                               *)
(***************************************************************************)
(* at_head has no effect on an op of normal priority                         *)
Enq0(w, ops, id, athead) ==
  IF Op(w, id).prio = 0 THEN Append(ops, id)
  ELSE IF athead THEN <<id>> \o ops
  ELSE InsertSorted(w, ops, id)

EnqHere(w, q, id) ==
  LET w1 == Signal([w EXCEPT !.q[q].ops = Enq0(w, @, id, FALSE), !.q[q].qlen = @ + 1,
                             !.at[id] = q], q)
  IN IF w1.q[q].qlen = 1 THEN IoEvent(w1, q) ELSE w1

(* rd_kafka_op_reply() by a thread that serves the op                        *)
Reply(w, id) ==
  LET q  == w.rep[id]
      w1 == [w EXCEPT !.rep[id] = None, !.isrep[id] = TRUE]
  IN IF q = None THEN OpDestroy(w, id)
     ELSE Destroy(IF w.q[q].ready THEN EnqHere(w1, q, id) ELSE OpDestroy(w1, id), q)

Return(w, t) == [w EXCEPT !.th[t].st = "ret"]

HopUnkept(w, t) ==
  LET f == w.q[w.th[t].q].fwd
  IN [w EXCEPT !.th[t].q = f, !.th[t].refs = <<f>> \o @]

(* The callee locks the queue the caller found; it has been kept.            *)
Hop(w, t) ==
  LET f == w.q[w.th[t].q].fwd
  IN [Keep(w, f) EXCEPT !.th[t].q = f, !.th[t].refs = <<f>> \o @]

(* rd_kafka_q_enq1().  A disabled queue sends the op back to its sender.     *)
Enqueue(w, t) ==
  LET id == Call(w, t).op
      q  == w.th[t].q
  IN IF ~w.q[q].ready
     THEN IF w.rep[id] = None THEN Return(OpDestroy(w, id), t)
          ELSE [w EXCEPT !.rep[id] = None, !.isrep[id] = TRUE, !.err[id] = TRUE,
                         !.th[t].q = w.rep[id], !.th[t].refs = <<w.rep[id]>> \o @]
     ELSE IF w.q[q].fwd # None THEN Hop(w, t)
     ELSE Return(EnqHere(w, q, id), t)

(* rd_kafka_op_req0(): the reply queue is kept by the op                     *)
Request(w, t) ==
  LET c == Call(w, t)
  IN IF w.sent[c.op] THEN Enqueue(w, t)
     ELSE Enqueue([Keep(w, c.reply) EXCEPT !.rep[c.op] = c.reply, !.sent[c.op] = TRUE], t)

Yield(w, t) ==
  LET q  == w.th[t].q
      w1 == Signal([w EXCEPT !.q[q].yield = TRUE], q)
  IN IF ~w.q[q].ready THEN Return(w, t)
     ELSE IF w.q[q].fwd # None THEN Hop(w, t)
     ELSE Return(IF w.q[q].qlen = 0 THEN IoEvent(w1, q) ELSE w1, t)

Purge(w, t) ==
  IF w.q[w.th[t].q].fwd # None THEN Hop(w, t) ELSE Return(PurgeOps(w, w.th[t].q), t)

Outdated(w, id) == Op(w, id).ver # 0 /\ Op(w, id).ver < w.barrier

RECURSIVE DropOutdated(_, _)
DropOutdated(w, q) ==
  IF w.q[q].ops # <<>> /\ Outdated(w, Head(w.q[q].ops))
  THEN DropOutdated(OpDestroy([w EXCEPT !.q[q].ops = Tail(@), !.q[q].qlen = @ - 1],
                              Head(w.q[q].ops)), q)
  ELSE w

PurgeTopparVersion(w, t) ==
  IF w.q[w.th[t].q].fwd # None THEN Hop(w, t) ELSE Return(DropOutdated(w, w.th[t].q), t)

(***************************************************************************)
(* Callbacks                                                                *)
(***************************************************************************)
Eventable == {"dr", "fetch", "err", "cerr", "rebalance", "commit", "log", "stats"}

(* rd_kafka_event_setup(): a message is returned by rd_kafka_poll_cb()       *)
(* itself, for want of a case of its own.                                    *)
EventSetup(w, id) == Op(w, id).typ \in Eventable \ {"fetch"} \/ Op(w, id).typ = "result"

Handled(w, t, id) ==
  [w EXCEPT !.fate[id] = "called", !.times[id] = @ + 1,
            !.log = Append(@, id), !.th[t].yield = @ \/ <<id, 0>> \in w.plan.yields]

Out(res, w) == [res |-> res, w |-> w]

(* One delivery report callback per message, until one of them yields; the   *)
(* rest is put back, at the tail of the queue that is being served.          *)
Reports(w, t, id) ==
  LET left == w.left[id]
      at   == {i \in 1..left : <<id, i>> \in w.plan.yields}
      stop == IF at = {} THEN 0 ELSE CHOOSE i \in at : \A j \in at : j <= i
      more == IF stop = 0 THEN 0 ELSE stop - 1
      w1   == [w EXCEPT !.left[id] = more, !.log = Append(@, id),
                        !.th[t].yield = @ \/ stop # 0]
  IN IF more > 0 THEN Out("yield", [w1 EXCEPT !.th[t].loc = Enq0(w, @, id, TRUE)])
     ELSE Out(IF stop # 0 THEN "yield" ELSE "handled",
              [w1 EXCEPT !.fate[id] = "called", !.times[id] = @ + 1])

ReturnsOps(cb) == cb \in {"return", "force_return"}

(* rd_kafka_consume_cb()                                                     *)
ConsumeCb(w, t, id) ==
  Out("handled", IF Outdated(w, id) THEN OpDestroy(w, id) ELSE Handled(w, t, id))

(* rd_kafka_poll_cb()                                                        *)
PollCb(w, t, id, cb) ==
  LET typ == Op(w, id).typ
  IN CASE cb = "event" /\ EventSetup(w, id) -> Out("pass", w)
       [] typ = "fetch" ->
            IF ~w.plan.consumecb \/ ReturnsOps(cb) THEN Out("pass", w) ELSE ConsumeCb(w, t, id)
       [] typ \in {"cerr", "result"} /\ ReturnsOps(cb) -> Out("pass", w)
       [] typ = "dr" -> Reports(w, t, id)
       [] typ = "req" -> Out("keep", Reply(w, id))
       [] OTHER -> Out("handled", Handled(w, t, id))

(* rd_kafka_op_handle_std(), rd_kafka_op_handle()                            *)
OpHandleStd(w, t, id, cb) ==
  IF cb = "force_return" THEN Out("pass", w)
  ELSE IF cb # "event" /\ Op(w, id).typ = "cb" THEN Out("handled", Handled(w, t, id))
  ELSE IF cb # "return" /\ w.isrep[id] /\ w.err[id] THEN Out("handled", OpDestroy(w, id))
  ELSE Out("pass", w)

(* rd_kafka_background_queue_serve()                                         *)
BackgroundServe(w, t, id) ==
  IF EventSetup(w, id) THEN Out("handled", Handled(w, t, id))
  ELSE LET o == PollCb(w, t, id, "callback")
       IN IF o.res = "handled" THEN o ELSE Out("handled", OpDestroy(o.w, id))

OpHandle(w, t, id, api) ==
  LET cb  == CASE api = "poll" -> "callback" [] api = "event" -> "event" [] OTHER -> "return"
      std == OpHandleStd(w, t, id, cb)
  IN IF std.res # "pass" THEN std
     ELSE CASE api = "poll" -> PollCb(std.w, t, id, cb)
            [] api = "event" -> PollCb(std.w, t, id, cb)
            [] api = "callback" -> ConsumeCb(std.w, t, id)
            [] api = "background" -> BackgroundServe(std.w, t, id)
            [] OTHER -> std

(***************************************************************************)
(* Popping and serving                                                      *)
(***************************************************************************)
Deq0(w, q) == [w EXCEPT !.q[q].ops = Tail(@), !.q[q].qlen = @ - 1]

Returned(w, t, id) ==
  [w EXCEPT !.fate[id] = "returned", !.times[id] = @ + 1, !.log = Append(@, id),
            !.th[t].n = @ + 1]

(* Nothing is queued: return if told to, or wait.                            *)
Idle(w, t) ==
  LET q == w.th[t].q
  IN IF w.q[q].yield THEN Return([w EXCEPT !.q[q].yield = FALSE], t)
     ELSE [w EXCEPT !.th[t].st = "wait"]

RECURSIVE PopLoop(_, _)
PopLoop(w, t) ==
  LET q  == w.th[t].q
      w1 == DropOutdated(w, q)
      id == Head(w1.q[q].ops)
      o  == OpHandle(Deq0(w1, q), t, id, Call(w, t).api)
  IN IF w1.q[q].ops = <<>> THEN Idle(w1, t)
     ELSE IF o.res = "pass"
          THEN IF Call(w, t).api = "consume" THEN [o.w EXCEPT !.th[t].st = "have", !.th[t].loc = <<id>>]
               ELSE Return(Returned(o.w, t, id), t)
     ELSE IF o.res = "yield" THEN Return(o.w, t)
     ELSE PopLoop(o.w, t)

(* rd_kafka_q_pop_serve(): once it waits it stays with the queue it found.   *)
PopServe(w, t) ==
  IF w.th[t].st = "run" /\ w.q[w.th[t].q].fwd # None THEN Hop(w, t)
  ELSE PopLoop([w EXCEPT !.th[t].yield = FALSE], t)

(* rd_kafka_consume0(), after the pop; the loop pops again.                  *)
Consumed(w, t) ==
  LET id == Head(w.th[t].loc)
      o  == PollCb([w EXCEPT !.th[t].loc = <<>>], t, id, "return")
  IN IF o.res = "pass" THEN Return(Returned(o.w, t, id), t)
     ELSE IF o.res = "yield" \/ o.w.th[t].yield THEN Return(o.w, t)
     ELSE [o.w EXCEPT !.th[t].st = "unwind"]

(* rd_kafka_q_serve(): rd_kafka_q_move_cnt() to a local queue.               *)
MoveCnt(w, t) ==
  LET q   == w.th[t].q
      n   == Len(w.q[q].ops)
      cnt == IF Call(w, t).max = 0 \/ Call(w, t).max > n THEN n ELSE Call(w, t).max
  IN [w EXCEPT !.th[t].loc = SubSeq(w.q[q].ops, 1, cnt), !.th[t].st = "local",
               !.th[t].yield = FALSE,
               !.q[q].ops = SubSeq(@, cnt + 1, n), !.q[q].qlen = @ - cnt]

Serve(w, t) ==
  LET q == w.th[t].q
  IN IF w.th[t].st = "run" /\ w.q[q].fwd # None THEN Hop(w, t)
     ELSE IF w.q[q].ops # <<>> THEN MoveCnt(w, t)
     ELSE Idle(w, t)

(* What a yield leaves goes back in front, wherever the queue now forwards.  *)
Prepend(w, t) ==
  LET q  == Final(w, w.th[t].q)
      w1 == IF w.q[q].qlen = 0 THEN IoEvent(w, q) ELSE w
  IN IF w.th[t].loc = <<>> THEN w
     ELSE [w1 EXCEPT !.q[q].ops = w.th[t].loc \o @, !.q[q].qlen = @ + Len(w.th[t].loc),
                     !.th[t].loc = <<>>]

ServeLocal(w, t) ==
  LET id == Head(w.th[t].loc)
      o  == OpHandle([w EXCEPT !.th[t].loc = Tail(@)], t, id, Call(w, t).api)
      w1 == [o.w EXCEPT !.th[t].n = @ + 1, !.bad = @ \/ o.res = "pass"]
  IN IF w.th[t].loc = <<>> THEN Return(w, t)
     ELSE IF o.res = "yield" \/ o.w.th[t].yield THEN Return(Prepend(w1, t), t)
     ELSE w1

(* rd_kafka_q_serve_rkmessages(): the forward is looked at once.             *)
ServeRkmessages(w, t) ==
  LET q  == w.th[t].q
      id == Head(w.q[q].ops)
  IN IF w.th[t].st = "run"
     THEN IF w.q[q].fwd # None THEN Hop(w, t)
          ELSE [w EXCEPT !.th[t].st = "loop", !.th[t].yield = FALSE]
     ELSE IF w.th[t].n >= Call(w, t).max THEN Return(w, t)
     ELSE IF w.q[q].ops = <<>> THEN Idle(w, t)
     ELSE [Deq0(w, q) EXCEPT !.th[t].st = "have", !.th[t].loc = <<id>>]

Message(w, t) ==
  LET id == Head(w.th[t].loc)
      w1 == [w EXCEPT !.th[t].loc = <<>>, !.th[t].st = "loop"]
      o  == PollCb(w1, t, id, "return")
  IN IF Outdated(w, id) THEN OpDestroy(w1, id)
     ELSE IF o.res \in {"keep", "handled"} THEN o.w
     ELSE IF o.res = "yield" \/ o.w.th[t].yield THEN Return(o.w, t)
     ELSE Returned(o.w, t, id)

(***************************************************************************)
(* Threads                                                                  *)
(***************************************************************************)
Ended(w, t) == w.th[t].i > Len(w.plan.scripts[t])
Runs(t, call) ==
  s.th[t].st \in {"run", "loop"} /\ ~Ended(s, t) /\ Call(s, t).call = call

QEnq(t) == Runs(t, "enq") /\ s' = Enqueue(s, t)
OpReq(t) == Runs(t, "req") /\ s' = Request(s, t)
QYield(t) == Runs(t, "yield") /\ s' = Yield(s, t)
QPurge(t) == Runs(t, "purge") /\ s' = Purge(s, t)
QPurgeTopparVersion(t) == Runs(t, "purgever") /\ s' = PurgeTopparVersion(s, t)
QPop(t) == Runs(t, "pop") /\ s' = PopServe(s, t)
QServe(t) == Runs(t, "serve") /\ s' = Serve(s, t)
QServeRkmessages(t) == Runs(t, "batch") /\ s' = ServeRkmessages(s, t)
QueueForward(t) ==
  Runs(t, "fwd") /\ s' = Return(FwdSet(s, Call(s, t).q, Call(s, t).to), t)
QDisable(t) == Runs(t, "disable") /\ s' = Return(Disable(s, Call(s, t).q), t)
QDestroy(t) ==
  /\ Runs(t, "destroy")
  /\ s' = Return(Destroy([s EXCEPT !.own[Call(s, t).q] = @ - 1], Call(s, t).q), t)
QueueNew0(t) ==
  /\ Runs(t, "new0")
  /\ s' = Return(Keep([s EXCEPT !.own[Call(s, t).q] = @ + 1], Call(s, t).q), t)
VersionBarrier(t) == Runs(t, "barrier") /\ s' = Return([s EXCEPT !.barrier = @ + 1], t)

Handles(t) ==
  /\ s.th[t].st = "have"
  /\ s' = IF Call(s, t).call = "batch" THEN Message(s, t) ELSE Consumed(s, t)
HandlesLocal(t) == s.th[t].st = "local" /\ s' = ServeLocal(s, t)

Woken(t) ==
  /\ s.th[t].st = "wait" /\ s.q[s.th[t].q].sig > 0
  /\ s' = [s EXCEPT !.th[t].st = "loop", !.q[s.th[t].q].sig = @ - 1]

(* A wait that times out may have used up a signal.                          *)
TimesOut(t) ==
  /\ s.th[t].st = "wait" /\ Call(s, t).timed
  /\ LET q == s.th[t].q
         n == Cardinality(Waiters(s, q)) - 1
     IN s' = Return([s EXCEPT !.q[q].sig = IF @ > n THEN n ELSE @], t)

(* Returning through the calls made along the chain of forwards, and on to   *)
(* the script's next call.                                                   *)
Begin(w, t, i) ==
  LET k == IF t \in w.plan.loops /\ i > Len(w.plan.scripts[t]) THEN 1 ELSE i
  IN [w EXCEPT !.th[t] = [i |-> k, st |-> "run", refs |-> <<>>, loc |-> <<>>, n |-> 0,
                          yield |-> FALSE,
                          q |-> IF k > Len(w.plan.scripts[t]) THEN None
                                ELSE w.plan.scripts[t][k].q]]
Returns(t) ==
  /\ s.th[t].st \in {"ret", "unwind"}
  /\ s' = IF s.th[t].refs # <<>>
          THEN Destroy([s EXCEPT !.th[t].refs = Tail(@)], Head(s.th[t].refs))
          ELSE Begin(s, t, IF s.th[t].st = "ret" THEN s.th[t].i + 1 ELSE s.th[t].i)

Initial(p) ==
  [mod |-> "OpQueues", plan |-> p, q |-> [q \in p.qs |-> QInit], own |-> [q \in p.qs |-> 1],
   th |-> [t \in DOMAIN p.scripts |->
             [i |-> 1, st |-> "run", refs |-> <<>>, loc |-> <<>>, n |-> 0, yield |-> FALSE,
              q |-> p.scripts[t][1].q]],
   rep |-> [id \in DOMAIN p.ops |-> None], sent |-> [id \in DOMAIN p.ops |-> FALSE],
   isrep |-> [id \in DOMAIN p.ops |-> FALSE], err |-> [id \in DOMAIN p.ops |-> FALSE],
   at |-> [id \in DOMAIN p.ops |-> None], left |-> [id \in DOMAIN p.ops |-> p.ops[id].msgs],
   fate |-> [id \in DOMAIN p.ops |-> "none"], times |-> [id \in DOMAIN p.ops |-> 0],
   log |-> <<>>, barrier |-> 1, bad |-> FALSE]

Init == \E p \in Plans : s = Initial(p)

Step(t) ==
  \/ QEnq(t) \/ OpReq(t) \/ QYield(t) \/ QPurge(t) \/ QPurgeTopparVersion(t)
  \/ QPop(t) \/ QServe(t) \/ QServeRkmessages(t) \/ QueueForward(t)
  \/ QDisable(t) \/ QDestroy(t) \/ QueueNew0(t) \/ VersionBarrier(t)
  \/ Handles(t) \/ HandlesLocal(t) \/ Woken(t) \/ TimesOut(t) \/ Returns(t)

Next == \E t \in Threads(s) : Step(t)

\* The state is one of this module: a run may check instances of several.
Here == s.mod = "OpQueues"

CanStep(t) ==
  /\ t \in Threads(s) /\ ~Ended(s, t)
  /\ s.th[t].st = "wait" => Call(s, t).timed \/ s.q[s.th[t].q].sig > 0

\* Every thread runs while it can: a timed wait ends, an untimed one when the
\* condition variable is signalled.
Fairness ==
  \A t \in ThreadNames :
    []<>~(Here /\ CanStep(t)) \/ []<><<Here /\ t \in Threads(s) /\ Step(t)>>_s

Spec == Init /\ [][Next]_s /\ Fairness

(***************************************************************************)
(* Properties                                                               *)
(***************************************************************************)
Occurrences(id) ==
  FoldSet(LAMBDA q, n : n + Cardinality({i \in DOMAIN s.q[q].ops : s.q[q].ops[i] = id}),
          0, DOMAIN s.q)
  + FoldSet(LAMBDA t, n : n + Cardinality({i \in DOMAIN s.th[t].loc : s.th[t].loc[i] = id}),
            0, Threads(s))

(* The thread that has yet to enqueue the op, or is walking the forwards     *)
InHand(id) ==
  \E t \in Threads(s) : \E k \in DOMAIN s.plan.scripts[t] :
    /\ s.plan.scripts[t][k].call \in {"enq", "req"} /\ s.plan.scripts[t][k].op = id
    /\ s.th[t].i < k \/ (s.th[t].i = k /\ s.th[t].st = "run")

(* Whatever forwards change, queues are disabled, purged or destroyed while  *)
(* it is under way, an op is in one place and meets one fate, once.          *)
OpConserved ==
  \A id \in OpIds(s) :
    IF s.fate[id] # "none" THEN Occurrences(id) = 0 /\ s.times[id] = 1
    ELSE Occurrences(id) = IF InHand(id) THEN 0 ELSE 1

LengthsAgree == \A q \in DOMAIN s.q : s.q[q].qlen = Len(s.q[q].ops)

(* A queue is referenced exactly by its owners, the queues that forward to   *)
(* it, the calls that passed through it and the ops to reply there; no       *)
(* thread is in a queue that has been freed, and a freed one is empty.       *)
RefsExact ==
  \A q \in DOMAIN s.q :
    /\ s.q[q].ref = s.own[q]
         + Cardinality({r \in DOMAIN s.q : s.q[r].fwd = q})
         + FoldSet(LAMBDA t, n : n + Cardinality({i \in DOMAIN s.th[t].refs : s.th[t].refs[i] = q}),
                   0, Threads(s))
         + Cardinality({id \in OpIds(s) : s.rep[id] = q})
    /\ s.q[q].ref = 0 => s.q[q].ops = <<>> /\ ~s.q[q].ready
    /\ s.q[q].ref = 0 => \A t \in Threads(s) :
                           s.th[t].q = q => s.th[t].st \in {"ret", "unwind"}

(* One thread's ops of one priority to one queue are handled in the order    *)
(* it enqueued them when one thread serves, a forward is only ever added     *)
(* and no callback yields within a batch of reports.                         *)
Enqueued(t, k) == s.plan.scripts[t][k]
InOrder ==
  s.plan.fifo =>
    \A t \in Threads(s) : \A i, j \in DOMAIN s.plan.scripts[t] :
      \A x, y \in DOMAIN s.log :
        ~ /\ i < j /\ y < x
          /\ Enqueued(t, i).call = "enq" /\ Enqueued(t, j).call = "enq"
          /\ Enqueued(t, i).q = Enqueued(t, j).q
          /\ s.log[x] = Enqueued(t, i).op /\ s.log[y] = Enqueued(t, j).op
          /\ Op(s, s.log[x]).prio = Op(s, s.log[y]).prio

QueuesSound == ~s.bad /\ OpConserved /\ LengthsAgree /\ RefsExact /\ InOrder

(* An op that has been enqueued is handled, returned or destroyed as long as *)
(* somebody keeps polling: no wake-up is lost between a queue, the queue it  *)
(* is forwarded to and a waiter.                                             *)
Served == []<>(Here => \A id \in OpIds(s) : s.fate[id] # "none")
==============================================================================
