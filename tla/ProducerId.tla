----------------------------- MODULE ProducerId -----------------------------
(***************************************************************************)
(* How librdkafka's idempotent producer acquires, drains and bumps its     *)
(* Producer Id (rdkafka_idempotence.c), interleaved with the broker        *)
(* threads that use it to send ProduceRequests and with the main thread    *)
(* that requests it.                                                       *)
(*                                                                         *)
(* Each broker thread b is a process: pc[b] is its program counter and the *)
(* other thread variables are its locals.  A step ends where the code      *)
(* releases rd_kafka_wrlock() or touches an atomic counter, so the calls   *)
(* of two threads interleave as they do in the program.  Messages are      *)
(* abstracted: what matters here is which partition has a request in       *)
(* flight, on which broker thread, under which pid.                        *)
(*                                                                         *)
(* An uncommented definition just above another one is a faulty variant of *)
(* it, under which one of the properties fails.                            *)
(***************************************************************************)
EXTENDS Integers, FiniteSets

CONSTANTS Brokers,      \* broker threads
          Partitions,   \* rd_kafka_toppar_t
          Slots,        \* identities of the ProduceRequests that may be in flight
          PidIds,       \* producer ids the coordinator hands out
          EpochMax,     \* INT16_MAX
          Gapless,      \* conf eos.gapless
          None, NoReq,  \* no leader or no partition; a free slot
          MaxDrains     \* bound: how many drains failures may start

ASSUME ConstAssumption ==
    /\ IsFiniteSet(Brokers)
    /\ IsFiniteSet(Partitions)
    /\ PidIds \subseteq Nat
    /\ EpochMax \in Nat
    /\ Gapless \in BOOLEAN
    /\ MaxDrains \in Nat

VARIABLES idemp_state,         \* rk_eos.idemp_state
          pid,                 \* rk_eos.pid
          inflight_toppar_cnt, \* rk_eos.inflight_toppar_cnt
          request_pid_tmr,     \* rk_eos.request_pid_tmr is armed
          init_req,            \* an InitProducerIdRequest is outstanding
          fatal,               \* rk_fatal.err is set
          lifecycle,           \* running, terminating, terminated (main thread)
          leader,              \* rktp_leader of each partition
          toppar_pid,          \* rktp_eos.pid
          wait_drain,          \* rktp_eos.wait_drain
          req,                 \* the ProduceRequests in flight
          sent,                \* those of them that have left rkb_outbufs
          pc, snap, todo, part, may_send, retry, last, ret,  \* broker threads
          drains               \* drains started (bounded by MaxDrains)

rkVars == <<idemp_state, pid, inflight_toppar_cnt>>
mainVars == <<request_pid_tmr, init_req, lifecycle>>
topparVars == <<leader, toppar_pid, wait_drain>>
locals == <<snap, todo, part, may_send, retry, last, ret>>
reqVars == <<req, sent>>
vars == <<rkVars, mainVars, fatal, topparVars, reqVars, pc, locals, drains>>

-----------------------------------------------------------------------------
(* Values.                                                                 *)

States == {"TERM", "REQ_PID", "WAIT_PID", "ASSIGNED", "DRAIN_RESET", "DRAIN_BUMP"}

PidReset == [id |-> -1, epoch |-> -1]

PidValid(p) == p.id # -1

ValidPids == [id: PidIds, epoch: 0..EpochMax]

Pids == ValidPids \cup {PidReset}

(* What an InitProducerId response can carry.                              *)
FreshPids == [id: PidIds, epoch: {0}] \cup {PidReset}

PidBumpNarrow(p) == [id |-> p.id, epoch |-> (p.epoch + 1) % EpochMax]

PidBump(p) == [id |-> p.id, epoch |-> (p.epoch + 1) % (EpochMax + 1)]

Requests == [part: Partitions, broker: Brokers, pid: Pids]

ASSUME NoneAssumption ==
    /\ None \notin Brokers /\ None \notin Partitions
    /\ NoReq \notin Requests

InFlight(p) == {s \in Slots : req[s] # NoReq /\ req[s].part = p}

Busy == {p \in Partitions : InFlight(p) # {}}

(* The requests of p that wait in b's output queue.                        *)
OutBufs(b, p) ==
    {s \in InFlight(p) : req[s].broker = b /\ s \notin sent}

(***************************************************************************)
(* A broker thread.  pc names where it is:                                 *)
(*   idle    in ops_io_serve                                               *)
(*   serve   in produce_toppars' loop, with the pid copied at its start    *)
(*   xmit    in toppar_producer_serve(part), after the toppar lock         *)
(*   bump    entering rd_kafka_idemp_drain_epoch_bump                      *)
(*   reset   entering rd_kafka_idemp_drain_reset                           *)
(*   check   entering check_drain_done                                     *)
(*   done    entering drain_done                                           *)
(*   tmr     in drain_done, about to restart the timer                     *)
(*   retry   in handle_Produce_error, about to drain and retry part        *)
(*   sub     at the end of a result, about to call inflight_toppar_sub     *)
(*   leave   in PARTITION_LEAVE, after purging the output queue            *)
(* snap is the copied pid and todo the partitions still to be served with  *)
(* it; part is the partition at hand; may_send is max_requests > 0; last   *)
(* is last_inflight of the result being handled and retry its partition if *)
(* it is to be drained; ret is where a finished call returns to.           *)
(***************************************************************************)
PCs == {"idle", "serve", "xmit", "bump", "reset", "check", "done", "tmr",
        "retry", "sub", "leave"}

Goto(b, label) == pc' = [pc EXCEPT ![b] = label]

(* Where a thread goes once the drain call of a result has returned.       *)
AfterDrain(b) ==
    IF retry[b] # None THEN "retry" ELSE IF last[b] THEN "sub" ELSE ret[b]

Init ==
    /\ idemp_state = "REQ_PID"
    /\ pid = PidReset
    /\ inflight_toppar_cnt = 0
    /\ request_pid_tmr = TRUE
    /\ init_req = FALSE
    /\ fatal = FALSE
    /\ lifecycle = "running"
    /\ leader \in [Partitions -> Brokers]
    /\ toppar_pid = [p \in Partitions |-> PidReset]
    /\ wait_drain = [p \in Partitions |-> TRUE]
    /\ req = [s \in Slots |-> NoReq]
    /\ sent = {}
    /\ pc = [b \in Brokers |-> "idle"]
    /\ snap = [b \in Brokers |-> PidReset]
    /\ todo = [b \in Brokers |-> {}]
    /\ part = [b \in Brokers |-> None]
    /\ may_send = [b \in Brokers |-> FALSE]
    /\ retry = [b \in Brokers |-> None]
    /\ last = [b \in Brokers |-> FALSE]
    /\ ret = [b \in Brokers |-> "idle"]
    /\ drains = 0

-----------------------------------------------------------------------------
(* The main thread: acquiring the pid.                                     *)

(* rd_kafka_idemp_request_pid.  There may be no usable broker, or the one  *)
(* at hand may not support the request: then the timer is restarted.       *)
RequestPid(tmr) ==
    \/ /\ ~ fatal
       /\ idemp_state = "REQ_PID"
       /\ idemp_state' = "WAIT_PID"
       /\ init_req' = TRUE
       /\ request_pid_tmr' = tmr
    \/ /\ ~ fatal
       /\ idemp_state = "REQ_PID"
       /\ request_pid_tmr' = TRUE
       /\ UNCHANGED <<idemp_state, init_req>>
    \/ /\ fatal \/ idemp_state # "REQ_PID"
       /\ request_pid_tmr' = tmr
       /\ UNCHANGED <<idemp_state, init_req>>

(* The oneshot timer expires: rd_kafka_idemp_request_pid_tmr_cb.           *)
RequestPidTimer ==
    /\ lifecycle # "terminated"
    /\ request_pid_tmr
    /\ RequestPid(FALSE)
    /\ UNCHANGED <<pid, inflight_toppar_cnt, fatal, lifecycle, topparVars,
                   reqVars, pc, locals, drains>>

(* A Metadata response also tries to acquire a pid.                        *)
MetadataUpdate ==
    /\ lifecycle # "terminated"
    /\ RequestPid(request_pid_tmr)
    /\ UNCHANGED <<pid, inflight_toppar_cnt, fatal, lifecycle, topparVars,
                   reqVars, pc, locals, drains>>

(* rd_kafka_idemp_request_pid_failed for any error but __DESTROY.          *)
RequestPidFailed ==
    /\ request_pid_tmr' = TRUE
    /\ UNCHANGED <<idemp_state, pid>>

(* rd_kafka_idemp_pid_update with the pid of the response.                 *)
PidUpdate(p) ==
    \/ /\ idemp_state # "WAIT_PID"
       /\ UNCHANGED <<idemp_state, pid, request_pid_tmr>>
    \/ /\ idemp_state = "WAIT_PID"
       /\ ~ PidValid(p)
       /\ RequestPidFailed
    \/ /\ idemp_state = "WAIT_PID"
       /\ PidValid(p)
       /\ pid' = p
       /\ idemp_state' = "ASSIGNED"
       /\ UNCHANGED request_pid_tmr

(* rd_kafka_handle_InitProducerId: an error, __DESTROY, or a pid.          *)
HandleInitProducerId ==
    /\ lifecycle # "terminated"
    /\ init_req
    /\ init_req' = FALSE
    /\ \/ RequestPidFailed
       \/ /\ lifecycle = "terminating"
          /\ UNCHANGED <<idemp_state, pid, request_pid_tmr>>
       \/ \E p \in FreshPids : PidUpdate(p)
    /\ UNCHANGED <<inflight_toppar_cnt, fatal, lifecycle, topparVars, reqVars,
                   pc, locals, drains>>

(* The application calls rd_kafka_destroy().                               *)
Destroy ==
    /\ lifecycle = "running"
    /\ lifecycle' = "terminating"
    /\ UNCHANGED <<rkVars, request_pid_tmr, init_req, fatal, topparVars, reqVars,
                   pc, locals, drains>>

(* rd_kafka_idemp_term, when the main thread leaves its loop.              *)
Term ==
    /\ lifecycle = "terminating"
    /\ lifecycle' = "terminated"
    /\ idemp_state' = "TERM"
    /\ request_pid_tmr' = FALSE
    /\ UNCHANGED <<pid, inflight_toppar_cnt, init_req, fatal, topparVars, reqVars,
                   pc, locals, drains>>

-----------------------------------------------------------------------------
(* Broker threads: the drain protocol of rdkafka_idempotence.c.            *)

(* drain_epoch_bump and drain_reset set the state under the lock, ...      *)
SetDrainState(b) ==
    /\ \/ pc[b] = "bump" /\ idemp_state' = "DRAIN_BUMP"
       \/ pc[b] = "reset" /\ idemp_state' = "DRAIN_RESET"
    /\ Goto(b, "check")
    /\ UNCHANGED <<pid, inflight_toppar_cnt, mainVars, fatal, topparVars,
                   reqVars, locals, drains>>

CheckDrainDoneNever(b) ==
    /\ pc[b] = "check"
    /\ Goto(b, AfterDrain(b))
    /\ UNCHANGED <<rkVars, mainVars, fatal, topparVars, reqVars, locals, drains>>

(* ... and read the in-flight counter after releasing it.                  *)
CheckDrainDone(b) ==
    /\ pc[b] = "check"
    /\ Goto(b, IF inflight_toppar_cnt = 0 THEN "done" ELSE AfterDrain(b))
    /\ UNCHANGED <<rkVars, mainVars, fatal, topparVars, reqVars, locals, drains>>

DrainDone(b) ==
    /\ pc[b] = "done"
    /\ \/ /\ idemp_state = "DRAIN_RESET"
          /\ idemp_state' = "REQ_PID"
          /\ Goto(b, "tmr")
          /\ UNCHANGED pid
       \/ /\ idemp_state = "DRAIN_BUMP" /\ PidValid(pid)
          /\ pid' = PidBump(pid)
          /\ idemp_state' = "ASSIGNED"
          /\ Goto(b, AfterDrain(b))
       \/ /\ idemp_state # "DRAIN_RESET"
          /\ ~ (idemp_state = "DRAIN_BUMP" /\ PidValid(pid))
          /\ Goto(b, AfterDrain(b))
          /\ UNCHANGED <<idemp_state, pid>>
    /\ UNCHANGED <<inflight_toppar_cnt, mainVars, fatal, topparVars, reqVars,
                   locals, drains>>

(* restart_request_pid_tmr, after the lock has been released.              *)
RestartTimer(b) ==
    /\ pc[b] = "tmr"
    /\ request_pid_tmr' = TRUE
    /\ Goto(b, AfterDrain(b))
    /\ UNCHANGED <<rkVars, init_req, lifecycle, fatal, topparVars, reqVars,
                   locals, drains>>

(* rd_kafka_idemp_inflight_toppar_sub.                                     *)
InflightTopparSub(b) ==
    /\ pc[b] = "sub"
    /\ inflight_toppar_cnt' = inflight_toppar_cnt - 1
    /\ last' = [last EXCEPT ![b] = FALSE]
    /\ Goto(b, IF inflight_toppar_cnt' = 0 THEN "done" ELSE ret[b])
    /\ UNCHANGED <<idemp_state, pid, mainVars, fatal, topparVars, reqVars,
                   snap, todo, part, may_send, retry, ret, drains>>

-----------------------------------------------------------------------------
(* Broker threads: producing.                                              *)

GetPid == IF idemp_state = "ASSIGNED" THEN pid ELSE PidReset

CanServeAlways(p) == TRUE

(* Without a valid pid a round does nothing to the state modelled here: it *)
(* returns, or only times messages out.                                    *)
CanServe(p) == PidValid(p)

(* The start of produce_toppars: rd_kafka_idemp_get_pid copies the pid,    *)
(* which is then used for every partition of the round.                    *)
ProduceToppars(b) ==
    /\ pc[b] = "idle"
    /\ CanServe(GetPid)
    /\ \E p \in Partitions : leader[p] = b
    /\ snap' = [snap EXCEPT ![b] = GetPid]
    /\ todo' = [todo EXCEPT ![b] = {p \in Partitions : leader[p] = b}]
    /\ ret' = [ret EXCEPT ![b] = "serve"]
    /\ Goto(b, "serve")
    /\ UNCHANGED <<rkVars, mainVars, fatal, topparVars, reqVars,
                   part, may_send, retry, last, drains>>

ProduceTopparsDone(b) ==
    /\ pc[b] = "serve"
    /\ todo[b] = {}
    /\ snap' = [snap EXCEPT ![b] = PidReset]
    /\ ret' = [ret EXCEPT ![b] = "idle"]
    /\ Goto(b, "idle")
    /\ UNCHANGED <<rkVars, mainVars, fatal, topparVars, reqVars,
                   todo, part, may_send, retry, last, drains>>

(***************************************************************************)
(* rd_kafka_broker_bufq_purge_by_toppar.  The results of purged requests   *)
(* all have err __RETRY: they were not sent, so the partition is marked to *)
(* drain and its messages go back to its queue.  If none is left in flight *)
(* the thread goes on to inflight_toppar_sub, and only then to label.      *)
(***************************************************************************)
Purge(b, p, label) ==
    LET lastone == OutBufs(b, p) # {} /\ InFlight(p) \subseteq OutBufs(b, p) IN
    /\ req' = [s \in Slots |-> IF s \in OutBufs(b, p) THEN NoReq ELSE req[s]]
    /\ wait_drain' = [wait_drain EXCEPT ![p] = @ \/ OutBufs(b, p) # {}]
    /\ last' = [last EXCEPT ![b] = lastone]
    /\ ret' = [ret EXCEPT ![b] = label]
    /\ Goto(b, IF lastone THEN "sub" ELSE label)

(* toppar_producer_serve finds timed out messages, which leave a gap in    *)
(* the sequence: it bumps the epoch.                                       *)
TopparTimeoutScan(b) ==
    /\ pc[b] = "serve"
    /\ \E p \in todo[b] : todo' = [todo EXCEPT ![b] = @ \ {p}]
    /\ drains < MaxDrains
    /\ drains' = drains + 1
    /\ Goto(b, "bump")
    /\ UNCHANGED <<rkVars, mainVars, fatal, topparVars, reqVars,
                   snap, part, may_send, retry, last, ret>>

(* toppar_producer_serve up to the purge of the output queue, done if the  *)
(* partition's pid is not the current one.                                 *)
TopparProducerServe(b) ==
    /\ pc[b] = "serve"
    /\ \E p \in todo[b] :
         /\ todo' = [todo EXCEPT ![b] = @ \ {p}]
         /\ part' = [part EXCEPT ![b] = p]
         /\ may_send' = [may_send EXCEPT ![b] = ~ fatal]
         /\ \/ /\ snap[b] # toppar_pid[p]
               /\ Purge(b, p, "xmit")
            \/ /\ snap[b] = toppar_pid[p]
               /\ ret' = [ret EXCEPT ![b] = "xmit"]
               /\ Goto(b, "xmit")
               /\ UNCHANGED <<req, wait_drain, last>>
    /\ UNCHANGED <<rkVars, mainVars, fatal, leader, toppar_pid, sent,
                   snap, retry, drains>>

TopparPidChangeUnchecked(p, new) ==
    toppar_pid' = [toppar_pid EXCEPT ![p] = new]

(* rd_kafka_toppar_pid_change, refused while messages are in flight.       *)
TopparPidChange(p, new) ==
    \/ toppar_pid[p] = new /\ UNCHANGED toppar_pid
    \/ /\ toppar_pid[p] # new
       /\ InFlight(p) = {}
       /\ toppar_pid' = [toppar_pid EXCEPT ![p] = new]

FreeSlots == {s \in Slots : req[s] = NoReq}

ReadyProduceEach(p) == inflight_toppar_cnt' = inflight_toppar_cnt + 1

(* rd_kafka_msgbatch_ready_produce, for the first request in flight.       *)
ReadyProduce(p) ==
    inflight_toppar_cnt' =
        inflight_toppar_cnt + IF InFlight(p) = {} THEN 1 ELSE 0

(* The toppar must wait for its requests in flight to drain.               *)
TopparWaitDrain(b) ==
    /\ pc[b] = "xmit"
    /\ wait_drain[part[b]] /\ InFlight(part[b]) # {}
    /\ Purge(b, part[b], "serve")
    /\ part' = [part EXCEPT ![b] = None]
    /\ may_send' = [may_send EXCEPT ![b] = FALSE]
    /\ UNCHANGED <<rkVars, mainVars, fatal, leader, toppar_pid, sent,
                   snap, todo, retry, drains>>

(* The rest of toppar_producer_serve.  It may send nothing at all: there   *)
(* may be no messages, or the linger or the backoff time is not over.  It  *)
(* sends at most RD_KAFKA_IDEMP_MAX_INFLIGHT requests.                     *)
TopparXmit(b) ==
    LET p == part[b] IN
    /\ pc[b] = "xmit"
    /\ ~ (wait_drain[p] /\ InFlight(p) # {})
    /\ wait_drain' = [wait_drain EXCEPT ![p] = FALSE]
    /\ \/ UNCHANGED <<toppar_pid, req, sent, inflight_toppar_cnt>>
       \/ /\ may_send[b]
          /\ TopparPidChange(p, snap[b])
          /\ UNCHANGED <<req, sent, inflight_toppar_cnt>>
       \/ /\ may_send[b]
          /\ TopparPidChange(p, snap[b])
          /\ \E S \in (SUBSET FreeSlots) \ {{}} :
               /\ req' = [s \in Slots |->
                            IF s \in S
                            THEN [part |-> p, broker |-> b, pid |-> snap[b]]
                            ELSE req[s]]
               /\ sent' = sent \ S
          /\ ReadyProduce(p)
    /\ part' = [part EXCEPT ![b] = None]
    /\ may_send' = [may_send EXCEPT ![b] = FALSE]
    /\ ret' = [ret EXCEPT ![b] = "serve"]
    /\ Goto(b, "serve")
    /\ UNCHANGED <<idemp_state, pid, mainVars, fatal, leader,
                   snap, todo, retry, last, drains>>

(* The request is written to the socket and waits for its response.        *)
SendRequest(b, s) ==
    /\ pc[b] = "idle"
    /\ req[s] # NoReq
    /\ req[s].broker = b /\ s \notin sent
    /\ sent' = sent \cup {s}
    /\ UNCHANGED <<rkVars, mainVars, fatal, topparVars, req, pc, locals, drains>>

(***************************************************************************)
(* msgbatch_handle_Produce_result on the request's broker thread, which    *)
(* need not be the leader any more.  First the partition's in-flight       *)
(* counter is decremented, then the outcome decides what the thread does:  *)
(*   done    success, a duplicate, or __DESTROY                            *)
(*   retry   messages go back to the partition queue                       *)
(*   skipped a sequence was skipped or the pid is unknown: bump and retry  *)
(*   perm    a permanent error: bump the epoch, or if gapless, fail        *)
(*   fatal   a fatal error, then the same as perm                          *)
(***************************************************************************)
Outcomes(s) ==
    IF s \in sent THEN {"done", "retry", "skipped", "perm", "fatal"}
                  ELSE {"retry", "perm"}

(* rktp_msgs_inflight drops to zero with the result of s.                  *)
LastInflight(s) == InFlight(req[s].part) = {s}

HandleProduceResult(b, s) ==
    /\ pc[b] = "idle"
    /\ req[s] # NoReq
    /\ req[s].broker = b
    /\ req' = [req EXCEPT ![s] = NoReq]
    /\ sent' = sent \ {s}
    /\ last' = [last EXCEPT ![b] = LastInflight(s)]
    /\ \E o \in Outcomes(s) :
         \/ /\ o = "done"
            /\ Goto(b, IF LastInflight(s) THEN "sub" ELSE "idle")
            /\ UNCHANGED <<retry, fatal, drains>>
         \/ /\ o = "retry"
            /\ retry' = [retry EXCEPT ![b] = req[s].part]
            /\ Goto(b, "retry")
            /\ UNCHANGED <<fatal, drains>>
         \/ /\ o = "skipped"
            /\ drains < MaxDrains /\ drains' = drains + 1
            /\ retry' = [retry EXCEPT ![b] = req[s].part]
            /\ Goto(b, "bump")
            /\ UNCHANGED fatal
         \/ /\ o \in {"perm", "fatal"}
            /\ drains < MaxDrains /\ drains' = drains + 1
            /\ fatal' = (fatal \/ Gapless \/ o = "fatal")
            /\ Goto(b, IF Gapless THEN "reset" ELSE "bump")
            /\ UNCHANGED retry
    /\ UNCHANGED <<rkVars, mainVars, topparVars,
                   snap, todo, part, may_send, ret>>

(* rd_kafka_idemp_drain_toppar before the messages are requeued.           *)
RetryMsgs(b) ==
    /\ pc[b] = "retry"
    /\ wait_drain' = [wait_drain EXCEPT ![retry[b]] = TRUE]
    /\ retry' = [retry EXCEPT ![b] = None]
    /\ Goto(b, IF last[b] THEN "sub" ELSE ret[b])
    /\ UNCHANGED <<rkVars, mainVars, fatal, leader, toppar_pid, reqVars,
                   snap, todo, part, may_send, last, ret, drains>>

-----------------------------------------------------------------------------
(* Broker threads: a partition moves to another leader.                    *)

(* PARTITION_LEAVE purges the output queue, ...                            *)
PartitionLeave(b, p) ==
    /\ pc[b] = "idle"
    /\ leader[p] = b
    /\ Purge(b, p, "leave")
    /\ part' = [part EXCEPT ![b] = p]
    /\ UNCHANGED <<rkVars, mainVars, fatal, leader, toppar_pid, sent,
                   snap, todo, may_send, retry, drains>>

(* ... then gives the partition up.                                        *)
PartitionLeft(b) ==
    /\ pc[b] = "leave"
    /\ leader' = [leader EXCEPT ![part[b]] = None]
    /\ part' = [part EXCEPT ![b] = None]
    /\ ret' = [ret EXCEPT ![b] = "idle"]
    /\ Goto(b, "idle")
    /\ UNCHANGED <<rkVars, mainVars, fatal, toppar_pid, wait_drain, reqVars,
                   snap, todo, may_send, retry, last, drains>>

(* PARTITION_JOIN: the old leader's requests must finish first.            *)
PartitionJoin(b, p) ==
    /\ pc[b] = "idle"
    /\ lifecycle = "running"
    /\ leader[p] = None
    /\ leader' = [leader EXCEPT ![p] = b]
    /\ wait_drain' = [wait_drain EXCEPT ![p] = TRUE]
    /\ UNCHANGED <<rkVars, mainVars, fatal, toppar_pid, reqVars, pc, locals,
                   drains>>

-----------------------------------------------------------------------------

(* What a broker thread does without waiting for anything else.            *)
ThreadStep(b) ==
    \/ SetDrainState(b) \/ CheckDrainDone(b) \/ DrainDone(b) \/ RestartTimer(b)
    \/ InflightTopparSub(b)
    \/ ProduceTopparsDone(b) \/ TopparTimeoutScan(b) \/ TopparProducerServe(b)
    \/ TopparWaitDrain(b) \/ TopparXmit(b)
    \/ RetryMsgs(b) \/ PartitionLeft(b)

MainStep ==
    RequestPidTimer \/ MetadataUpdate \/ HandleInitProducerId \/ Destroy \/ Term

Next ==
    \/ MainStep
    \/ \E b \in Brokers :
         \/ ThreadStep(b)
         \/ ProduceToppars(b)
         \/ \E s \in Slots : SendRequest(b, s) \/ HandleProduceResult(b, s)
         \/ \E p \in Partitions : PartitionLeave(b, p) \/ PartitionJoin(b, p)

Spec == Init /\ [][Next]_vars

(***************************************************************************)
(* Broker threads keep running.  Every request in flight gets a result:    *)
(* the serve loop of a broker thread returns again and again to its socket *)
(* and to its timeout scan (strong fairness: between two visits it serves  *)
(* ops and partitions).  The main thread serves its timers and its         *)
(* InitProducerId responses.                                               *)
(***************************************************************************)
Fairness ==
    /\ \A b \in Brokers : WF_vars(ThreadStep(b))
    /\ \A b \in Brokers : \A s \in Slots : SF_vars(HandleProduceResult(b, s))
    /\ WF_vars(RequestPidTimer)
    /\ WF_vars(HandleInitProducerId)

FairSpec == Spec /\ Fairness

-----------------------------------------------------------------------------
(* Properties.                                                             *)

(***************************************************************************)
(* Every variable has its type.  In particular the in-flight counter never *)
(* becomes negative, which rd_kafka_idemp_inflight_toppar_sub asserts.     *)
(***************************************************************************)
TypeOK ==
    /\ idemp_state \in States
    /\ pid \in Pids
    /\ inflight_toppar_cnt \in Nat
    /\ request_pid_tmr \in BOOLEAN /\ init_req \in BOOLEAN
    /\ fatal \in BOOLEAN
    /\ lifecycle \in {"running", "terminating", "terminated"}
    /\ leader \in [Partitions -> Brokers \cup {None}]
    /\ toppar_pid \in [Partitions -> Pids]
    /\ wait_drain \in [Partitions -> BOOLEAN]
    /\ req \in [Slots -> Requests \cup {NoReq}]
    /\ sent \subseteq Slots
    /\ pc \in [Brokers -> PCs]
    /\ snap \in [Brokers -> Pids]
    /\ todo \in [Brokers -> SUBSET Partitions]
    /\ part \in [Brokers -> Partitions \cup {None}]
    /\ may_send \in [Brokers -> BOOLEAN]
    /\ retry \in [Brokers -> Partitions \cup {None}]
    /\ last \in [Brokers -> BOOLEAN]
    /\ ret \in [Brokers -> {"idle", "serve", "xmit", "leave"}]
    /\ drains \in 0..MaxDrains

(***************************************************************************)
(* rk_eos.inflight_toppar_cnt counts exactly the partitions with requests  *)
(* in flight, plus those whose last result a thread is still handling.     *)
(* This is what makes a zero counter mean "drained", and what the          *)
(* rd_assert(r >= 0) of rd_kafka_idemp_inflight_toppar_sub relies on.      *)
(***************************************************************************)
Subtracting == {b \in Brokers : last[b]}

CounterExact ==
    inflight_toppar_cnt = Cardinality(Busy) + Cardinality(Subtracting)

(***************************************************************************)
(* All requests in flight for a partition carry the partition's pid, so    *)
(* the "PID mismatch" branch of handle_idempotent_Produce_error, which     *)
(* fails the messages for good, is never taken.                            *)
(***************************************************************************)
RequestsCarryTopparPid ==
    \A s \in Slots : req[s] # NoReq => req[s].pid = toppar_pid[req[s].part]

(***************************************************************************)
(* A request can only be draining an epoch that exists: in DRAIN_BUMP the  *)
(* pid is valid, otherwise drain_done would ignore the drain for ever.     *)
(***************************************************************************)
BumpsAValidPid == idemp_state = "DRAIN_BUMP" => PidValid(pid)

(***************************************************************************)
(* No partition goes back to an older epoch, although a broker thread      *)
(* serves all its partitions with a pid it copied before the loop, and     *)
(* partitions migrate between threads.                                     *)
(***************************************************************************)
EpochNeverGoesBack ==
    [][\A p \in Partitions : toppar_pid'[p].epoch >= toppar_pid[p].epoch]_vars

(***************************************************************************)
(* A started epoch bump is eventually carried out (or overtaken): between  *)
(* the thread that sets DRAIN_BUMP and the thread that brings the counter  *)
(* to zero, one of them sees the other.                                    *)
(***************************************************************************)
BumpCompletes == (idemp_state = "DRAIN_BUMP") ~> (idemp_state # "DRAIN_BUMP")

(***************************************************************************)
(* rdkafka_idempotence.c:227, of request_pid_failed: "Retry request after  *)
(* a short wait."  A failed InitProducerIdRequest is followed by another   *)
(* one, unless the instance terminates.                                    *)
(***************************************************************************)
FailedRequestIsRetried ==
    (idemp_state = "WAIT_PID" /\ ~ init_req) ~> (init_req \/ lifecycle # "running")

=============================================================================
