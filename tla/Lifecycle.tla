------------------------------ MODULE Lifecycle ------------------------------
(***************************************************************************)
(* The beginning and the end of a client: rd_kafka_new(), its background   *)
(* thread, main thread and broker thread, rd_kafka_destroy() and           *)
(* rd_kafka_wait_destroyed() (rdkafka.c, rdkafka_background.c).  Clients   *)
(* share the counters of the process.                                      *)
(*                                                                         *)
(* An uncommented definition just above another one is a faulty variant of *)
(* it, under which one of the properties fails.                            *)
(***************************************************************************)
EXTENDS Integers, Sequences, FiniteSets

CONSTANTS Plans,   \* what the clients of a process are like
          None

VARIABLE s

(* s.plan     what does not change: for every client whether the application *)
(*            gives a conf (appconf), what fails (fails), background_event_cb *)
(*            (bg), the events for it, the destroy flags, a group (cgrp)      *)
(* s.cnt      rd_kafka_global_cnt; s.up: the global constructors were called *)
(* s.threads  rd_kafka_thread_cnt_curr                                       *)
(* s.k        the clients: at is where the application's thread is; conf     *)
(*            whose the conf is: the application's, shared with the handle   *)
(*            while this is made, the handle's, or freed; has what was       *)
(*            acquired, rel how often each was released; bg, main, broker the threads; the     *)
(*            locks; wait is rk_init_wait_cnt; term rk_terminate; masked that *)
(*            the caller's signals are blocked; told the calls of on_new()   *)
(*            and on_destroy(); q, seen and purged the events; freed the rk  *)
(* s.waits    rd_kafka_wait_destroyed(): where it is, and who was gone       *)
vars == <<s>>

Clients == DOMAIN s.k

NewClient ==
  [at |-> "start", conf |-> "app", has |-> {}, rel |-> [r \in {"assignors", "sasl", "bgq", "bgjoin", "rk"} |-> 0],
   bg |-> "none", main |-> "none", broker |-> "none", initlock |-> None, lock |-> None, wait |-> 0, term |-> {},
   masked |-> FALSE, on_new |-> 0, on_destroy |-> 0, q |-> 0, posted |-> 0, seen |-> 0, purged |-> 0, qoff |-> FALSE,
   closed |-> FALSE, result |-> None]

Init ==
  \E p \in Plans :
    s = [mod |-> "Lifecycle", plan |-> p, cnt |-> 0, up |-> FALSE, threads |-> 0,
         k |-> [i \in DOMAIN p.clients |-> NewClient], waits |-> [at |-> "idle", result |-> None, before |-> {}]]

Plan(i) == s.plan.clients[i]

Put(i, k) == s' = [s EXCEPT !.k[i] = k]

Acquire(k, what) == [k EXCEPT !.has = @ \cup {what}]
Release(k, what) == [k EXCEPT !.has = @ \ {what}, !.rel[what] = @ + 1]
ReleaseHeld(k, what) == IF what \in k.has THEN Release(k, what) ELSE k

-----------------------------------------------------------------------------
(* rd_kafka_new()                                                          *)

\* A conf that is not finalized is the application's, and one made here is
\* destroyed.
NewRefused(i) ==
  /\ s.k[i].at = "start" /\ Plan(i).fails = "conf"
  /\ Put(i, [s.k[i] EXCEPT !.at = "gone", !.result = "NULL", !.conf = IF Plan(i).appconf THEN "app" ELSE "freed"])

\* rd_kafka_global_cnt_incr()
CntIncr(i) ==
  /\ s.k[i].at = "start" /\ Plan(i).fails # "conf"
  /\ s' = [s EXCEPT !.k[i].at = "setup", !.cnt = @ + 1, !.up = TRUE]

\* The conf is copied into the handle, on_new() is called and the handle is
\* set up; then what may fail: assignors, the SASL provider, the SSL context.
Setup(i) ==
  /\ s.k[i].at = "setup"
  /\ LET k == [s.k[i] EXCEPT !.conf = "shared", !.on_new = @ + 1]
         a == Acquire(k, "assignors")
         b == IF Plan(i).sasl THEN Acquire(a, "sasl") ELSE a
     IN Put(i, CASE Plan(i).fails = "assignors" -> [k EXCEPT !.at = "fail"]
                 [] Plan(i).fails = "sasl" -> [a EXCEPT !.at = "fail"]
                 [] Plan(i).fails = "ssl" -> [b EXCEPT !.at = "fail"]
                 [] OTHER -> [b EXCEPT !.at = IF Plan(i).bg THEN "background" ELSE "main", !.masked = TRUE, !.initlock = "app"])

\* The lock of the handle is held while a thread is created.
FailLocked(k) == [k EXCEPT !.at = "fail", !.lock = None, !.masked = FALSE]

Fail(k) == [k EXCEPT !.at = "fail", !.lock = None, !.initlock = None, !.masked = FALSE]

CreateBackground(i) ==
  /\ s.k[i].at = "background"
  /\ LET k == [Acquire(s.k[i], "bgq") EXCEPT !.lock = "app"] IN
     Put(i, IF Plan(i).fails = "background" THEN Fail(k)
            ELSE [k EXCEPT !.at = "created", !.bg = "started", !.wait = @ + 1])

Created(i) ==
  /\ s.k[i].at = "created"
  /\ Put(i, [s.k[i] EXCEPT !.at = "main", !.lock = None])

CreateMain(i) ==
  /\ s.k[i].at = "main" /\ s.k[i].lock = None
  /\ LET k == [s.k[i] EXCEPT !.lock = "app"] IN
     Put(i, IF Plan(i).fails = "main" THEN Fail(k) ELSE [k EXCEPT !.at = "unlock", !.main = "started", !.wait = @ + 1])

\* Past this point there is no failure: the brokers are added, the signals
\* restored, and the base of the conf is freed.
Brokers(i) ==
  /\ s.k[i].at = "unlock"
  /\ Put(i, [s.k[i] EXCEPT !.at = "wait", !.lock = None, !.initlock = None, !.broker = "started", !.masked = FALSE,
                           !.conf = "rk"])

InitWaitNot(i) ==
  /\ s.k[i].at = "wait"
  /\ Put(i, [s.k[i] EXCEPT !.at = "new", !.result = "rk"])

\* rd_kafka_init_wait()
InitWait(i) ==
  /\ s.k[i].at = "wait" /\ s.k[i].wait = 0 /\ s.k[i].initlock = None
  /\ Put(i, [s.k[i] EXCEPT !.at = "new", !.result = "rk"])

\* ... after 60 seconds, when nothing is taken back.
InitTimeout(i) ==
  /\ s.k[i].at = "wait" /\ s.k[i].wait > 0 /\ Plan(i).fails = "slow"
  /\ Put(i, [s.k[i] EXCEPT !.at = "lost", !.result = "NULL"])

\* fail: the background thread is told to end, and joined.
FailTerminate(i) ==
  /\ s.k[i].at = "fail"
  /\ Put(i, [ReleaseHeld(s.k[i], "sasl") EXCEPT !.at = "failjoin", !.term = {"terminate"}])

\* It is joined again by destroy_internal(), which does not know.  A conf of
\* the application is given back (its lists of interceptors are freed here).
FailCleanup(i) ==
  /\ s.k[i].at = "failjoin" /\ s.k[i].bg \in {"none", "exited"}
  /\ LET k == s.k[i]
         j == IF k.bg = "none" THEN k ELSE Release(Release(Release(Release(k, "bgjoin"), "bgq"), "bgjoin"), "bgq")
         c == IF Plan(i).appconf THEN [ReleaseHeld(j, "assignors") EXCEPT !.conf = "app", !.on_destroy = @ + 1]
              ELSE [j EXCEPT !.on_destroy = @ + 2]
     IN Put(i, [c EXCEPT !.at = "final"])

-----------------------------------------------------------------------------
(* rd_kafka_destroy()                                                      *)

\* The flags, and the consumer is closed first.
DestroyCalled(i) ==
  /\ s.k[i].at = "new"
  /\ Put(i, [s.k[i] EXCEPT !.term = {"called"}, !.at = "close"])

DestroyTerminate(i) ==
  /\ s.k[i].at = "close" /\ (Plan(i).cgrp => s.k[i].closed)
  /\ Put(i, [s.k[i] EXCEPT !.term = {"terminate"}, !.at = IF Plan(i).immediate THEN "left" ELSE "join"])

JoinMainNot(i) ==
  /\ s.k[i].at = "join"
  /\ Put(i, [s.k[i] EXCEPT !.at = "final"])

JoinMain(i) ==
  /\ s.k[i].at = "join" /\ s.k[i].main = "exited"
  /\ Put(i, [s.k[i] EXCEPT !.at = "final"])

\* rd_kafka_destroy_final(), and the last client takes the globals down.
DestroyFinal(i) ==
  /\ s.k[i].at = "final"
  /\ LET k == Release(ReleaseHeld(ReleaseHeld(s.k[i], "assignors"), "sasl"), "rk") IN
     s' = [s EXCEPT !.k[i] = [k EXCEPT !.at = "gone", !.conf = IF @ \in {"shared", "rk"} THEN "freed" ELSE @,
                                       !.result = IF @ = None THEN "NULL" ELSE @],
                    !.cnt = @ - 1, !.up = s.cnt > 1]

-----------------------------------------------------------------------------
(* The threads                                                             *)

Terminating(i) == "terminate" \in s.k[i].term

\* A thread counts itself, and waits for its creator.
ThreadStart(i, t) ==
  /\ s.k[i][t] = "started"
  /\ s' = [s EXCEPT !.threads = @ + 1, !.k[i][t] = "sync"]

ThreadSync(i, t) ==
  /\ s.k[i][t] = "sync" /\ s.k[i].lock = None
  /\ Put(i, [s.k[i] EXCEPT ![t] = IF t = "broker" THEN "run" ELSE "init"])

ThreadInit(i, t) ==
  /\ s.k[i][t] = "init" /\ s.k[i].initlock = None
  /\ Put(i, [s.k[i] EXCEPT ![t] = "run", !.wait = @ - 1])

\* Events for the background thread, until its queue is disabled.
PostEvent(i) ==
  /\ s.k[i].main = "run" /\ s.k[i].bg # "none" /\ s.k[i].posted < Plan(i).events
  /\ Put(i, [s.k[i] EXCEPT !.posted = @ + 1, !.q = IF s.k[i].qoff THEN @ ELSE @ + 1,
                           !.purged = IF s.k[i].qoff THEN @ + 1 ELSE @])

\* rd_kafka_background_queue_serve(): an event goes to background_event_cb(),
\* another op to its callback or away.
BackgroundServe(i) ==
  /\ s.k[i].bg = "run" /\ ~Terminating(i) /\ s.k[i].q > 0
  /\ Put(i, [s.k[i] EXCEPT !.q = @ - 1, !.seen = @ + 1])

BackgroundLeave(i) ==
  /\ s.k[i].bg = "run" /\ Terminating(i)
  /\ Put(i, [s.k[i] EXCEPT !.bg = "leave", !.q = 0, !.purged = @ + s.k[i].q, !.qoff = TRUE])

\* The group of a consumer is closed by the main thread.
MainClose(i) ==
  /\ s.k[i].main = "run" /\ s.k[i].at = "close" /\ Plan(i).cgrp /\ ~s.k[i].closed
  /\ Put(i, [s.k[i] EXCEPT !.closed = TRUE])

MainLeave(i) ==
  /\ s.k[i].main = "run" /\ Terminating(i)
  /\ Put(i, [s.k[i] EXCEPT !.main = "internal"])

\* rd_kafka_destroy_internal(): the background thread is joined and its queue
\* destroyed, on_destroy() called, and then the brokers.
MainJoinBackground(i) ==
  /\ s.k[i].main = "internal" /\ s.k[i].bg \in {"none", "exited"}
  /\ LET k == s.k[i]
         j == IF k.bg = "none" THEN k ELSE Release(Release(k, "bgjoin"), "bgq")
     IN Put(i, [j EXCEPT !.main = "brokers", !.on_destroy = @ + 1])

BrokerLeave(i) ==
  /\ s.k[i].broker = "run" /\ Terminating(i) /\ s.k[i].main = "brokers"
  /\ Put(i, [s.k[i] EXCEPT !.broker = "leave"])

MainJoinBrokers(i) ==
  /\ s.k[i].main = "brokers" /\ s.k[i].broker = "exited"
  /\ Put(i, [s.k[i] EXCEPT !.main = "leave"])

ThreadExit(i, t) ==
  /\ s.k[i][t] = "leave"
  /\ s' = [s EXCEPT !.threads = @ - 1, !.k[i][t] = "exited"]

-----------------------------------------------------------------------------
(* rd_kafka_wait_destroyed() reads the two counters one after the other.   *)

Settled(i) == s.k[i].at \in {"gone", "left", "lost"}

WaitBegin ==
  /\ s.waits.at = "idle" /\ s.plan.waits \subseteq {i \in Clients : Settled(i)}
  /\ s' = [s EXCEPT !.waits.at = "threads", !.waits.before = {i \in Clients : Settled(i)}]

WaitThreads ==
  /\ s.waits.at = "threads" /\ s.threads = 0
  /\ s' = [s EXCEPT !.waits.at = "clients"]

WaitClients ==
  /\ s.waits.at = "clients"
  /\ s' = [s EXCEPT !.waits.at = IF s.cnt > 0 THEN "threads" ELSE "returned", !.waits.result = IF s.cnt > 0 THEN @ ELSE "0"]

WaitTimeout ==
  /\ s.waits.at \in {"threads", "clients"} /\ s.plan.waittimeout
  /\ s' = [s EXCEPT !.waits.at = "returned", !.waits.result = "-1"]

AppStep(i) ==
  \/ NewRefused(i) \/ CntIncr(i) \/ Setup(i) \/ CreateBackground(i) \/ Created(i) \/ CreateMain(i) \/ Brokers(i)
  \/ InitWait(i) \/ FailTerminate(i) \/ FailCleanup(i) \/ DestroyCalled(i) \/ DestroyTerminate(i) \/ JoinMain(i)
  \/ DestroyFinal(i)

BackgroundStep(i) ==
  ThreadStart(i, "bg") \/ ThreadSync(i, "bg") \/ ThreadInit(i, "bg") \/ BackgroundServe(i) \/ BackgroundLeave(i)
  \/ ThreadExit(i, "bg")

MainStep(i) ==
  ThreadStart(i, "main") \/ ThreadSync(i, "main") \/ ThreadInit(i, "main") \/ MainClose(i) \/ MainLeave(i)
  \/ MainJoinBackground(i) \/ MainJoinBrokers(i) \/ ThreadExit(i, "main")

BrokerStep(i) ==
  ThreadStart(i, "broker") \/ ThreadSync(i, "broker") \/ BrokerLeave(i) \/ ThreadExit(i, "broker")

Next ==
  \/ \E i \in Clients : AppStep(i) \/ BackgroundStep(i) \/ MainStep(i) \/ BrokerStep(i) \/ PostEvent(i) \/ InitTimeout(i)
  \/ WaitBegin \/ WaitThreads \/ WaitClients \/ WaitTimeout

WaitStep == WaitBegin \/ WaitThreads \/ WaitClients

Here(i) == s.mod = "Lifecycle" /\ i \in Clients

\* Threads and callers go on.  Only time-outs and events need not happen.
Fairness ==
  /\ \A i \in {1, 2} : /\ WF_s(Here(i) /\ AppStep(i))
                       /\ WF_s(Here(i) /\ BackgroundStep(i))
                       /\ WF_s(Here(i) /\ MainStep(i))
                       /\ WF_s(Here(i) /\ BrokerStep(i))
  /\ WF_s(s.mod = "Lifecycle" /\ WaitStep)

Spec == Init /\ [][Next]_s /\ Fairness

(***************************************************************************)
(* Properties                                                              *)
(***************************************************************************)

Live(i) == {t \in {"bg", "main", "broker"} : s.k[i][t] \in {"sync", "init", "run", "internal", "brokers", "leave"}}

Counted(i) == s.k[i].at \notin {"start"} /\ s.k[i].rel["rk"] = 0 /\ ~(s.k[i].at = "gone")

\* The cases in which something is released twice or not at all: the main
\* thread cannot be created and the background thread was (rdkafka.c:2264), or
\* not even that.
JoinedTwice(i) == Plan(i).fails = "main" /\ Plan(i).bg
QueueLeaks(i) == Plan(i).fails = "background" /\ Plan(i).bg

(* No thread of a client uses its handle after it is freed; the handle, the *)
(* queues and the threads are released once, and with the handle nothing    *)
(* is left.  But a client whose main thread cannot be created has its       *)
(* background thread joined and the queue of this destroyed twice, and one  *)
(* whose background thread cannot be created keeps the queue.               *)
ReleasedOnce ==
  \A i \in Clients :
    /\ s.k[i].rel["rk"] > 0 => Live(i) = {} /\ \A t \in {"bg", "main", "broker"} : s.k[i][t] \in {"none", "exited"}
    /\ \A r \in DOMAIN s.k[i].rel :
         IF JoinedTwice(i) /\ r \in {"bgq", "bgjoin"}
         THEN s.k[i].rel[r] = (IF s.k[i].at \in {"final", "gone"} THEN 2 ELSE 0) ELSE s.k[i].rel[r] <= 1
    /\ s.k[i].at = "gone" => s.k[i].has = (IF QueueLeaks(i) THEN {"bgq"} ELSE {})

(* rd_kafka_new() returns a client whose threads are all running and has    *)
(* then the conf, or fails and gives it back to the application; no caller  *)
(* is left with its signals blocked, no lock is left held.  But when the    *)
(* threads do not start within a minute NULL is returned for a conf that    *)
(* was freed (rdkafka.c:2198).                                              *)
NewReturnsWhole ==
  \A i \in Clients :
    /\ s.k[i].at = "new" => /\ s.k[i].main = "run" /\ (Plan(i).bg <=> s.k[i].bg = "run") /\ s.k[i].conf = "rk"
                            /\ s.k[i].on_new = 1
    /\ s.k[i].result = "NULL" =>
         s.k[i].conf = (IF s.k[i].at = "lost" THEN "rk" ELSE IF Plan(i).appconf THEN "app" ELSE "freed")
    /\ (s.k[i].at = "gone" /\ s.k[i].result = "rk") => s.k[i].conf = "freed"
    /\ s.k[i].at \in {"new", "gone", "left", "lost", "fail"} => ~s.k[i].masked /\ s.k[i].initlock = None /\ s.k[i].lock = None

(* on_destroy() is called once for every on_new(), while the handle is      *)
(* there, and twice if the creation of a client without a conf of the       *)
(* application failed; the counters count the handles and the threads, and  *)
(* the global parts are up as long as there is a handle.                    *)
CountsRight ==
  /\ s.threads = Cardinality({<<i, t>> \in Clients \X {"bg", "main", "broker"} : t \in Live(i)})
  /\ s.cnt = Cardinality({i \in Clients : Counted(i)}) /\ (s.up <=> s.cnt > 0)
  /\ \A i \in Clients :
       s.k[i].at = "gone" =>
         s.k[i].on_destroy = s.k[i].on_new * (IF s.k[i].result = "NULL" /\ ~Plan(i).appconf THEN 2 ELSE 1)
  /\ \A i \in Clients : s.k[i].posted = s.k[i].q + s.k[i].seen + s.k[i].purged

(* rd_kafka_wait_destroyed() returns 0 only if the clients that were        *)
(* destroyed before it have neither a handle nor a thread left.             *)
WaitedForAll ==
  s.waits.result = "0" => \A i \in s.waits.before : s.k[i].at = "gone" /\ Live(i) = {}

(* The life of a client, with the exceptions each part names.               *)
LifecycleSound == ReleasedOnce /\ NewReturnsWhole /\ CountsRight /\ WaitedForAll

Waits == \A i \in Clients : Plan(i).fails # "slow" /\ ~Plan(i).immediate

(* rd_kafka_new() and rd_kafka_destroy() return, and so does                *)
(* rd_kafka_wait_destroyed(), if no client is left by a destroy that does   *)
(* not wait or was lost by a creation that timed out.                       *)
LivesEnd ==
  []<>(s.mod = "Lifecycle" => (\A i \in Clients : Settled(i)) /\ (Waits => s.waits.at = "returned"))
=============================================================================
