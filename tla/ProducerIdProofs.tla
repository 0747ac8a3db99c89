-------------------------- MODULE ProducerIdProofs --------------------------
(***************************************************************************)
(* What holds of ProducerId for any number of broker threads, partitions   *)
(* and requests.  The inductive invariant says what each broker thread     *)
(* knows at each point of its program, in which states of the pid, which   *)
(* pid the requests in flight carry, and in which order epochs are used.   *)
(***************************************************************************)
EXTENDS ProducerId, TLAPS

(* What each broker thread knows at each point of its program.             *)
ThreadInv(b) ==
    /\ pc[b] \in {"idle", "serve", "xmit", "leave"} =>
           ret[b] = pc[b] /\ ~ last[b] /\ retry[b] = None
    /\ pc[b] = "sub" => last[b] /\ retry[b] = None
    /\ pc[b] = "retry" => retry[b] # None
    /\ pc[b] \in {"bump", "reset"} => PidValid(pid)
    /\ pc[b] = "reset" => fatal
    /\ ret[b] \in {"serve", "xmit"} => PidValid(snap[b]) /\ PidValid(pid)
    /\ ret[b] \in {"idle", "leave"} => todo[b] = {}
    /\ ret[b] \in {"xmit", "leave"} =>
           part[b] \in Partitions /\ leader[part[b]] = b
    /\ \A p \in todo[b] : leader[p] = b

(* What the instance-wide state says of the pid.                           *)
StateInv ==
    /\ idemp_state \in {"ASSIGNED", "DRAIN_BUMP"} => PidValid(pid)
    /\ idemp_state = "WAIT_PID" => ~ PidValid(pid)
    /\ idemp_state = "REQ_PID" /\ PidValid(pid) => fatal
    /\ idemp_state = "DRAIN_RESET" => fatal
    /\ \A s \in Slots : req[s] # NoReq => PidValid(pid)

IndInv ==
    /\ TypeOK
    /\ \A b \in Brokers : ThreadInv(b)
    /\ StateInv
    /\ CounterExact
    /\ RequestsCarryTopparPid

Bumping == {b \in Brokers : pc[b] = "bump"}

(* Every epoch was paid for by a drain, and so were the bumps to come.     *)
EpochCount ==
    pid.epoch + (IF idemp_state = "DRAIN_BUMP" THEN 1 ELSE 0)
        + Cardinality(Bumping) <= drains

(* A thread's copy of the pid is behind the instance's, and a partition's  *)
(* is further behind than the copy of the thread that serves it.           *)
EpochOrder ==
    /\ \A p \in Partitions : toppar_pid[p].epoch <= pid.epoch
    /\ \A b \in Brokers : snap[b].epoch <= pid.epoch
    /\ \A b \in Brokers : ret[b] \in {"serve", "xmit"} =>
           \A p \in Partitions :
               leader[p] = b => toppar_pid[p].epoch <= snap[b].epoch

EpochInv == EpochCount /\ EpochOrder

-----------------------------------------------------------------------------
(* Facts about the values.                                                 *)

(* The invalid pid is a pid, and what its fields are.                      *)
LEMMA PidResetFacts ==
    PidReset \in Pids /\ ~ PidValid(PidReset) /\ PidReset.epoch = -1
    BY Zenon DEF PidReset, Pids, PidValid

(* The epoch of any pid; only a valid one has it above -1.                 *)
LEMMA PidFacts ==
    ASSUME NEW p \in Pids
    PROVE  /\ p.epoch \in Int /\ p.epoch >= -1
           /\ PidValid(p) => p \in ValidPids /\ p.epoch >= 0
           /\ ~ PidValid(p) => p = PidReset
<1>1. CASE p \in ValidPids
  BY <1>1, ConstAssumption DEF ValidPids, PidValid
<1>2. CASE p = PidReset
  BY <1>2, PidResetFacts DEF PidReset
<1> QED BY <1>1, <1>2, Zenon DEF Pids

(* rd_kafka_pid_bump of a valid pid is a valid pid, with the next epoch    *)
(* unless it wraps.                                                        *)
LEMMA PidBumpFacts ==
    ASSUME NEW p \in Pids, PidValid(p)
    PROVE  /\ PidBump(p) \in Pids /\ PidValid(PidBump(p))
           /\ p.epoch < EpochMax => PidBump(p).epoch = p.epoch + 1
<1>1. p.id \in PidIds /\ p.epoch \in 0..EpochMax
  BY PidFacts, Zenon DEF ValidPids
<1>2. (p.epoch + 1) % (EpochMax + 1) \in 0..EpochMax
  BY <1>1, ConstAssumption
<1>3. p.epoch < EpochMax => (p.epoch + 1) % (EpochMax + 1) = p.epoch + 1
  BY <1>1, ConstAssumption
<1> QED BY <1>1, <1>2, <1>3, ConstAssumption, Zenon DEF PidBump, ValidPids, Pids,
                                                 PidValid

(* What an InitProducerId response carries is a pid of epoch 0, or none.   *)
LEMMA FreshPidFacts == \A p \in FreshPids : p \in Pids /\ p.epoch <= 0
    BY ConstAssumption DEF FreshPids, Pids, ValidPids, PidReset

-----------------------------------------------------------------------------
(* Types.                                                                  *)

(* Every step keeps the types. *)
LEMMA TypeStep ==
    ASSUME Subtracting # {} => inflight_toppar_cnt > 0
    PROVE  IndInv /\ [Next]_vars => TypeOK'
<1> SUFFICES ASSUME IndInv, [Next]_vars PROVE TypeOK'
  BY Zenon
<1>1. CASE RequestPidTimer
  BY <1>1, ZenonT(60)
     DEF IndInv, TypeOK, RequestPidTimer, RequestPid, Goto, AfterDrain, ThreadInv,
         States, PCs, Requests,
         vars, rkVars, mainVars, topparVars, reqVars, locals
<1>2. CASE MetadataUpdate
  BY <1>2, ZenonT(60)
     DEF IndInv, TypeOK, MetadataUpdate, RequestPid, Goto, AfterDrain, ThreadInv,
         States, PCs, Requests,
         vars, rkVars, mainVars, topparVars, reqVars, locals
<1>3. CASE HandleInitProducerId
  BY <1>3, FreshPidFacts, ZenonT(60)
     DEF IndInv, TypeOK, HandleInitProducerId, RequestPidFailed, PidUpdate, States,
         vars, rkVars, mainVars, topparVars, reqVars, locals
<1>4. CASE Destroy
  BY Zenon, <1>4
     DEF IndInv, TypeOK, Destroy, Goto, AfterDrain, ThreadInv, States, PCs,
         Requests,
         vars, rkVars, mainVars, topparVars, reqVars, locals
<1>5. CASE Term
  BY <1>5, ZenonT(60)
     DEF IndInv, TypeOK, Term, Goto, AfterDrain, ThreadInv, States, PCs, Requests,
         vars, rkVars, mainVars, topparVars, reqVars, locals
<1>6. ASSUME NEW b \in Brokers, SetDrainState(b) PROVE TypeOK'
  BY Zenon, <1>6
     DEF IndInv, TypeOK, SetDrainState, Goto, AfterDrain, ThreadInv, States, PCs,
         Requests,
         vars, rkVars, mainVars, topparVars, reqVars, locals
<1>7. ASSUME NEW b \in Brokers, CheckDrainDone(b) PROVE TypeOK'
  BY <1>7
     DEF IndInv, TypeOK, CheckDrainDone, Goto, AfterDrain, ThreadInv, States, PCs,
         Requests,
         vars, rkVars, mainVars, topparVars, reqVars, locals
<1>8. ASSUME NEW b \in Brokers, DrainDone(b) PROVE TypeOK'
  BY <1>8, PidBumpFacts
     DEF IndInv, TypeOK, DrainDone, Goto, AfterDrain, States, PCs, vars, rkVars,
         mainVars, topparVars, reqVars, locals
<1>9. ASSUME NEW b \in Brokers, RestartTimer(b) PROVE TypeOK'
  BY Zenon, <1>9
     DEF IndInv, TypeOK, RestartTimer, Goto, AfterDrain, ThreadInv, States, PCs,
         Requests,
         vars, rkVars, mainVars, topparVars, reqVars, locals
<1>10. ASSUME NEW b \in Brokers, InflightTopparSub(b) PROVE TypeOK'
  <2>1. b \in Subtracting
    BY <1>10, Zenon DEF IndInv, ThreadInv, InflightTopparSub, Subtracting
  <2>2. inflight_toppar_cnt' \in Nat
    BY <1>10, <2>1 DEF IndInv, TypeOK, InflightTopparSub
  <2> QED
    BY <1>10, <2>2, Zenon DEF IndInv, TypeOK, InflightTopparSub, Goto, PCs, vars, rkVars,
                       mainVars, topparVars, reqVars, locals
<1>11. ASSUME NEW b \in Brokers, ProduceTopparsDone(b) PROVE TypeOK'
  BY <1>11, PidResetFacts
     DEF IndInv, TypeOK, ProduceTopparsDone, Goto, AfterDrain, ThreadInv, States,
         PCs, Requests,
         vars, rkVars, mainVars, topparVars, reqVars, locals
<1>12. ASSUME NEW b \in Brokers, TopparTimeoutScan(b) PROVE TypeOK'
  <2>1. drains' \in 0..MaxDrains
    BY <1>12, ConstAssumption DEF IndInv, TypeOK, TopparTimeoutScan
  <2>2. todo' \in [Brokers -> SUBSET Partitions]
    BY <1>12 DEF IndInv, TypeOK, TopparTimeoutScan
  <2> QED
    BY <1>12, <2>1, <2>2, Zenon DEF IndInv, TypeOK, TopparTimeoutScan, Goto, PCs, vars,
                             rkVars, mainVars, topparVars, reqVars, locals
<1>13. ASSUME NEW b \in Brokers, TopparProducerServe(b) PROVE TypeOK'
  <2>1. PICK p \in todo[b] :
            /\ todo' = [todo EXCEPT ![b] = @ \ {p}]
            /\ part' = [part EXCEPT ![b] = p]
            /\ may_send' = [may_send EXCEPT ![b] = ~ fatal]
            /\ \/ Purge(b, p, "xmit")
               \/ /\ ret' = [ret EXCEPT ![b] = "xmit"]
                  /\ Goto(b, "xmit")
                  /\ UNCHANGED <<req, wait_drain, last>>
    BY <1>13, ZenonT(60) DEF TopparProducerServe
  <2>2. p \in Partitions
    BY <2>1, Zenon DEF IndInv, TypeOK
  <2>3. /\ todo' \in [Brokers -> SUBSET Partitions]
        /\ part' \in [Brokers -> Partitions \cup {None}]
        /\ may_send' \in [Brokers -> BOOLEAN]
    BY <2>1, <2>2, Zenon DEF IndInv, TypeOK
  <2>4. /\ req' \in [Slots -> Requests \cup {NoReq}]
        /\ wait_drain' \in [Partitions -> BOOLEAN]
        /\ last' \in [Brokers -> BOOLEAN]
        /\ ret' \in [Brokers -> {"idle", "serve", "xmit", "leave"}]
        /\ pc' \in [Brokers -> PCs]
    BY <2>1, <2>2, ZenonT(60) DEF IndInv, TypeOK, Purge, Goto, PCs
  <2> QED
    BY <1>13, <2>3, <2>4, Zenon DEF IndInv, TypeOK, TopparProducerServe, vars, rkVars,
                             mainVars, topparVars, reqVars, locals
<1>14. ASSUME NEW b \in Brokers, TopparWaitDrain(b) PROVE TypeOK'
  BY <1>14
     DEF IndInv, TypeOK, TopparWaitDrain, Purge, Goto, AfterDrain, ThreadInv,
         States, PCs, Requests,
         vars, rkVars, mainVars, topparVars, reqVars, locals
<1>15. ASSUME NEW b \in Brokers, TopparXmit(b) PROVE TypeOK'
  <2>1. /\ part[b] \in Partitions
        /\ [part |-> part[b], broker |-> b, pid |-> snap[b]] \in Requests
    BY <1>15 DEF IndInv, TypeOK, ThreadInv, TopparXmit, Requests
  <2>2. toppar_pid' \in [Partitions -> Pids]
    BY <1>15, <2>1 DEF IndInv, TypeOK, TopparXmit, TopparPidChange
  <2>3. inflight_toppar_cnt' \in Nat
    BY <1>15 DEF IndInv, TypeOK, TopparXmit, ReadyProduce
  <2>4. req' \in [Slots -> Requests \cup {NoReq}] /\ sent' \subseteq Slots
    BY <1>15, <2>1 DEF IndInv, TypeOK, TopparXmit
  <2>5. /\ wait_drain' \in [Partitions -> BOOLEAN]
        /\ part' \in [Brokers -> Partitions \cup {None}]
        /\ may_send' \in [Brokers -> BOOLEAN]
        /\ ret' \in [Brokers -> {"idle", "serve", "xmit", "leave"}]
        /\ pc' \in [Brokers -> PCs]
    BY <1>15, ZenonT(60) DEF IndInv, TypeOK, TopparXmit, Goto, PCs
  <2> QED
    BY <1>15, <2>2, <2>3, <2>4, <2>5, Zenon DEF IndInv, TypeOK, TopparXmit, vars, rkVars,
                                         mainVars, topparVars, reqVars, locals
<1>16. ASSUME NEW b \in Brokers, RetryMsgs(b) PROVE TypeOK'
  BY <1>16
     DEF IndInv, TypeOK, RetryMsgs, Goto, AfterDrain, ThreadInv, States, PCs,
         Requests,
         vars, rkVars, mainVars, topparVars, reqVars, locals
<1>17. ASSUME NEW b \in Brokers, PartitionLeft(b) PROVE TypeOK'
  BY <1>17
     DEF IndInv, TypeOK, PartitionLeft, Goto, AfterDrain, ThreadInv, States, PCs,
         Requests,
         vars, rkVars, mainVars, topparVars, reqVars, locals
<1>18. ASSUME NEW b \in Brokers, ProduceToppars(b) PROVE TypeOK'
  BY <1>18, PidResetFacts
     DEF IndInv, TypeOK, ProduceToppars, GetPid, Goto, AfterDrain, ThreadInv, States, PCs,
         Requests,
         vars, rkVars, mainVars, topparVars, reqVars, locals
<1>19. ASSUME NEW b \in Brokers, NEW s \in Slots, SendRequest(b, s)
       PROVE  TypeOK'
  BY <1>19
     DEF IndInv, TypeOK, SendRequest, Goto, AfterDrain, ThreadInv, States, PCs,
         Requests,
         vars, rkVars, mainVars, topparVars, reqVars, locals
<1>20. ASSUME NEW b \in Brokers, NEW s \in Slots, HandleProduceResult(b, s)
       PROVE  TypeOK'
  <2>1. drains' \in 0..MaxDrains
    BY <1>20, ConstAssumption DEF IndInv, TypeOK, HandleProduceResult
  <2>2. /\ retry' \in [Brokers -> Partitions \cup {None}]
        /\ pc' \in [Brokers -> PCs]
        /\ fatal' \in BOOLEAN
    BY <1>20, ConstAssumption, ZenonT(60)
       DEF IndInv, TypeOK, HandleProduceResult, Goto, Requests, PCs
  <2>3. /\ req' \in [Slots -> Requests \cup {NoReq}]
        /\ sent' \subseteq Slots
        /\ last' \in [Brokers -> BOOLEAN]
    BY <1>20, Zenon DEF IndInv, TypeOK, HandleProduceResult, LastInflight
  <2> QED
    BY <1>20, <2>1, <2>2, <2>3, Zenon DEF IndInv, TypeOK, HandleProduceResult,
                                             vars, rkVars, mainVars,
                                             topparVars, reqVars, locals
<1>21. ASSUME NEW b \in Brokers, NEW p \in Partitions, PartitionLeave(b, p)
       PROVE  TypeOK'
  BY <1>21
     DEF IndInv, TypeOK, PartitionLeave, Purge, Goto, AfterDrain, ThreadInv, States,
         PCs, Requests,
         vars, rkVars, mainVars, topparVars, reqVars, locals
<1>22. ASSUME NEW b \in Brokers, NEW p \in Partitions, PartitionJoin(b, p)
       PROVE  TypeOK'
  BY Zenon, <1>22
     DEF IndInv, TypeOK, PartitionJoin, Goto, AfterDrain, ThreadInv, States, PCs,
         Requests,
         vars, rkVars, mainVars, topparVars, reqVars, locals
<1>23. CASE UNCHANGED vars
    BY <1>23, Zenon DEF IndInv, TypeOK, vars, rkVars, mainVars, topparVars, reqVars,
               locals
<1>24. CASE MainStep
  BY <1>1, <1>2, <1>3, <1>4, <1>5, <1>24, Zenon DEF MainStep
<1>25. ASSUME NEW b \in Brokers, ThreadStep(b) PROVE TypeOK'
  BY Zenon, <1>6, <1>7, <1>8, <1>9, <1>10, <1>11, <1>12, <1>13, <1>14, <1>15, <1>16,
     <1>17, <1>25 DEF ThreadStep
<1> QED BY <1>18, <1>19, <1>20, <1>21, <1>22, <1>23, <1>24, <1>25, Zenon DEF Next

-----------------------------------------------------------------------------
(* Threads.                                                                *)

(* Every step keeps what the threads know: their own steps follow their    *)
(* program, and no step of another thread or of the main thread takes the  *)
(* pid back or touches the partitions they lead.                           *)
LEMMA ThreadInvStep == IndInv /\ [Next]_vars => \A c \in Brokers : ThreadInv(c)'
<1> SUFFICES ASSUME IndInv, [Next]_vars, NEW c \in Brokers PROVE ThreadInv(c)'
  BY Zenon
<1>1. CASE RequestPidTimer
  BY Zenon, <1>1, NoneAssumption
     DEF IndInv, TypeOK, ThreadInv, StateInv, RequestPidTimer, RequestPid, Goto,
         AfterDrain,
         vars, rkVars, mainVars, topparVars, reqVars, locals
<1>2. CASE MetadataUpdate
  BY Zenon, <1>2, NoneAssumption
     DEF IndInv, TypeOK, ThreadInv, StateInv, MetadataUpdate, RequestPid, Goto,
         AfterDrain,
         vars, rkVars, mainVars, topparVars, reqVars, locals
<1>3. CASE HandleInitProducerId
  BY <1>3, NoneAssumption
     DEF IndInv, TypeOK, ThreadInv, StateInv, HandleInitProducerId,
         RequestPidFailed, PidUpdate, Goto, AfterDrain,
         vars, rkVars, mainVars, topparVars, reqVars, locals
<1>4. CASE Destroy
  BY Zenon, <1>4, NoneAssumption
     DEF IndInv, TypeOK, ThreadInv, StateInv, Destroy, Goto, AfterDrain,
         vars, rkVars, mainVars, topparVars, reqVars, locals
<1>5. CASE Term
  BY Zenon, <1>5, NoneAssumption
     DEF IndInv, TypeOK, ThreadInv, StateInv, Term, Goto, AfterDrain,
         vars, rkVars, mainVars, topparVars, reqVars, locals
<1>6. ASSUME NEW b \in Brokers, SetDrainState(b) PROVE ThreadInv(c)'
  BY <1>6, NoneAssumption
     DEF IndInv, TypeOK, ThreadInv, StateInv, SetDrainState, Goto, AfterDrain,
         vars, rkVars, mainVars, topparVars, reqVars, locals
<1>7. ASSUME NEW b \in Brokers, CheckDrainDone(b) PROVE ThreadInv(c)'
  BY <1>7, NoneAssumption
     DEF IndInv, TypeOK, ThreadInv, StateInv, CheckDrainDone, Goto, AfterDrain,
         vars, rkVars, mainVars, topparVars, reqVars, locals
<1>8. ASSUME NEW b \in Brokers, DrainDone(b) PROVE ThreadInv(c)'
  BY <1>8, PidBumpFacts
     DEF IndInv, TypeOK, ThreadInv, StateInv, DrainDone, Goto, AfterDrain,
         vars, rkVars, mainVars, topparVars, reqVars, locals
<1>9. ASSUME NEW b \in Brokers, RestartTimer(b) PROVE ThreadInv(c)'
  BY <1>9, NoneAssumption
     DEF IndInv, TypeOK, ThreadInv, StateInv, RestartTimer, Goto, AfterDrain,
         vars, rkVars, mainVars, topparVars, reqVars, locals
<1>10. ASSUME NEW b \in Brokers, InflightTopparSub(b) PROVE ThreadInv(c)'
  BY <1>10, NoneAssumption
     DEF IndInv, TypeOK, ThreadInv, StateInv, InflightTopparSub, Goto, AfterDrain,
         vars, rkVars, mainVars, topparVars, reqVars, locals
<1>11. ASSUME NEW b \in Brokers, ProduceTopparsDone(b) PROVE ThreadInv(c)'
  BY <1>11, PidResetFacts
     DEF IndInv, TypeOK, ThreadInv, StateInv, ProduceTopparsDone, Goto, AfterDrain,
         vars, rkVars, mainVars, topparVars, reqVars, locals
<1>12. ASSUME NEW b \in Brokers, TopparTimeoutScan(b) PROVE ThreadInv(c)'
  BY <1>12, NoneAssumption
     DEF IndInv, TypeOK, ThreadInv, StateInv, TopparTimeoutScan, Goto, AfterDrain,
         vars, rkVars, mainVars, topparVars, reqVars, locals
<1>13. ASSUME NEW b \in Brokers, TopparProducerServe(b) PROVE ThreadInv(c)'
  <2>1. PICK p \in todo[b] :
            /\ todo' = [todo EXCEPT ![b] = @ \ {p}]
            /\ part' = [part EXCEPT ![b] = p]
            /\ \/ Purge(b, p, "xmit")
               \/ /\ ret' = [ret EXCEPT ![b] = "xmit"]
                  /\ Goto(b, "xmit")
                  /\ UNCHANGED <<req, wait_drain, last>>
    BY <1>13, ZenonT(60) DEF TopparProducerServe
  <2>2. p \in Partitions /\ leader[p] = b
    BY <2>1 DEF IndInv, TypeOK, ThreadInv
  <2>3. CASE c = b
    <3>1. ret'[b] = "xmit" /\ (pc'[b] = "xmit" \/ (pc'[b] = "sub" /\ last'[b]))
      BY <2>1, ZenonT(60) DEF IndInv, TypeOK, Purge, Goto
    <3>2. ret[b] = "serve" /\ retry[b] = None /\ ~ last[b]
      BY <1>13, Zenon DEF IndInv, TopparProducerServe, ThreadInv
    <3>3. pc'[b] = "xmit" => ~ last'[b]
      BY <2>1, <3>2 DEF IndInv, TypeOK, Purge, Goto
    <3>4. todo'[b] \subseteq todo[b] /\ part'[b] = p
      BY <2>1, Zenon DEF IndInv, TypeOK
    <3> QED BY <1>13, <2>2, <2>3, <3>1, <3>2, <3>3, <3>4
     DEF IndInv, ThreadInv, TopparProducerServe, vars, rkVars, mainVars, topparVars,
                reqVars, locals
  <2>4. CASE c # b
    <3>1. /\ pc'[c] = pc[c] /\ ret'[c] = ret[c] /\ last'[c] = last[c]
          /\ todo'[c] = todo[c] /\ part'[c] = part[c]
      BY <2>1, <2>4 DEF IndInv, TypeOK, Purge, Goto
    <3> QED BY <1>13, <3>1 DEF IndInv, ThreadInv, TopparProducerServe, vars,
                               rkVars, mainVars, topparVars, reqVars, locals
  <2> QED BY <2>3, <2>4, Zenon
<1>14. ASSUME NEW b \in Brokers, TopparWaitDrain(b) PROVE ThreadInv(c)'
  BY <1>14, NoneAssumption
     DEF IndInv, TypeOK, ThreadInv, StateInv, TopparWaitDrain, Purge, Goto,
         AfterDrain,
         vars, rkVars, mainVars, topparVars, reqVars, locals
<1>15. ASSUME NEW b \in Brokers, TopparXmit(b) PROVE ThreadInv(c)'
  BY <1>15, NoneAssumption
     DEF IndInv, TypeOK, ThreadInv, StateInv, TopparXmit, TopparPidChange,
         ReadyProduce, FreeSlots, Goto, AfterDrain,
         vars, rkVars, mainVars, topparVars, reqVars, locals
<1>16. ASSUME NEW b \in Brokers, RetryMsgs(b) PROVE ThreadInv(c)'
  BY <1>16, NoneAssumption
     DEF IndInv, TypeOK, ThreadInv, StateInv, RetryMsgs, Goto, AfterDrain,
         vars, rkVars, mainVars, topparVars, reqVars, locals
<1>17. ASSUME NEW b \in Brokers, PartitionLeft(b) PROVE ThreadInv(c)'
  BY <1>17, NoneAssumption
     DEF IndInv, TypeOK, ThreadInv, StateInv, PartitionLeft, Goto, AfterDrain,
         vars, rkVars, mainVars, topparVars, reqVars, locals
<1>18. ASSUME NEW b \in Brokers, ProduceToppars(b) PROVE ThreadInv(c)'
  BY <1>18, PidResetFacts
     DEF IndInv, TypeOK, ThreadInv, StateInv, ProduceToppars, CanServe, GetPid,
         Goto, AfterDrain,
         vars, rkVars, mainVars, topparVars, reqVars, locals
<1>19. ASSUME NEW b \in Brokers, NEW s \in Slots, SendRequest(b, s)
       PROVE  ThreadInv(c)'
  BY Zenon, <1>19, NoneAssumption
     DEF IndInv, TypeOK, ThreadInv, StateInv, SendRequest, Goto, AfterDrain,
         vars, rkVars, mainVars, topparVars, reqVars, locals
<1>20. ASSUME NEW b \in Brokers, NEW s \in Slots, HandleProduceResult(b, s)
       PROVE  ThreadInv(c)'
  <2>1. CASE c = b
    <3>1. /\ PidValid(pid) /\ req[s].part \in Partitions /\ req[s].part # None
      BY <1>20, NoneAssumption
         DEF IndInv, TypeOK, StateInv, HandleProduceResult, Requests
    <3>2. /\ ret[b] = "idle" /\ ~ last[b] /\ retry[b] = None
          /\ last'[b] = LastInflight(s)
      BY <1>20, Zenon DEF IndInv, TypeOK, ThreadInv, HandleProduceResult
    <3>3. \/ pc'[b] = "sub" /\ LastInflight(s) /\ retry'[b] = None
          \/ pc'[b] = "idle" /\ ~ LastInflight(s) /\ retry'[b] = None
          \/ pc'[b] = "retry" /\ retry'[b] = req[s].part
          \/ pc'[b] = "bump"
          \/ pc'[b] = "reset" /\ fatal'
      BY <1>20, <3>2, ZenonT(60) DEF IndInv, TypeOK, HandleProduceResult, Goto
    <3> QED BY Zenon, <1>20, <2>1, <3>1, <3>2, <3>3
     DEF IndInv, ThreadInv, HandleProduceResult, vars, rkVars, mainVars, topparVars,
                reqVars, locals
  <2>2. CASE c # b
    <3>1. /\ pc'[c] = pc[c] /\ last'[c] = last[c] /\ retry'[c] = retry[c]
          /\ fatal => fatal'
      BY <1>20, <2>2 DEF IndInv, TypeOK, HandleProduceResult, Goto
    <3> QED BY <1>20, <3>1 DEF IndInv, ThreadInv, HandleProduceResult, vars,
                               rkVars, mainVars, topparVars, reqVars, locals
  <2> QED BY <2>1, <2>2, Zenon
<1>21. ASSUME NEW b \in Brokers, NEW p \in Partitions, PartitionLeave(b, p)
       PROVE  ThreadInv(c)'
  <2>1. CASE c = b
    <3>1. /\ ret[b] = "idle" /\ ~ last[b] /\ retry[b] = None /\ todo[b] = {}
      BY <1>21, Zenon DEF IndInv, ThreadInv, PartitionLeave
    <3>2. /\ ret'[b] = "leave" /\ part'[b] = p
          /\ pc'[b] = IF last'[b] THEN "sub" ELSE "leave"
      BY <1>21, ZenonT(60) DEF IndInv, TypeOK, PartitionLeave, Purge, Goto
    <3>3. /\ leader' = leader /\ todo' = todo /\ retry' = retry /\ leader[p] = b
      BY <1>21, Zenon DEF PartitionLeave, rkVars
    <3> QED BY <2>1, <3>1, <3>2, <3>3, Zenon DEF ThreadInv
  <2>2. CASE c # b
    <3>1. /\ pc'[c] = pc[c] /\ ret'[c] = ret[c] /\ last'[c] = last[c]
          /\ part'[c] = part[c]
      BY <1>21, <2>2, Zenon DEF IndInv, TypeOK, PartitionLeave, Purge, Goto
    <3>2. /\ pid' = pid /\ fatal' = fatal /\ leader' = leader
          /\ snap' = snap /\ todo' = todo /\ retry' = retry
      BY <1>21, Zenon DEF PartitionLeave, rkVars
    <3>3. ThreadInv(c)
      BY Zenon DEF IndInv
    <3> HIDE DEF IndInv
    <3> QED BY <3>1, <3>2, <3>3, Zenon DEF ThreadInv
  <2> QED BY <2>1, <2>2, Zenon
<1>22. ASSUME NEW b \in Brokers, NEW p \in Partitions, PartitionJoin(b, p)
       PROVE  ThreadInv(c)'
  <2>1. /\ pc' = pc /\ ret' = ret /\ last' = last /\ retry' = retry /\ pid' = pid
        /\ fatal' = fatal /\ snap' = snap /\ todo' = todo /\ part' = part
    BY <1>22, Zenon DEF PartitionJoin, rkVars, locals
  <2>2. leader[p] = None /\ \A q \in Partitions : q # p => leader'[q] = leader[q]
    BY <1>22, Zenon DEF PartitionJoin, IndInv, TypeOK
  <2>3. ThreadInv(c) /\ todo[c] \subseteq Partitions /\ c # None
    BY NoneAssumption, Zenon DEF IndInv, TypeOK
  <2> HIDE DEF IndInv
  <2> QED BY <2>1, <2>2, <2>3, Zenon DEF ThreadInv
<1>23. CASE UNCHANGED vars
    BY <1>23, Zenon DEF IndInv, ThreadInv, vars, rkVars, mainVars, topparVars, reqVars,
               locals
<1>24. CASE MainStep
  BY <1>1, <1>2, <1>3, <1>4, <1>5, <1>24, Zenon DEF MainStep
<1>25. ASSUME NEW b \in Brokers, ThreadStep(b) PROVE ThreadInv(c)'
  BY Zenon, <1>6, <1>7, <1>8, <1>9, <1>10, <1>11, <1>12, <1>13, <1>14, <1>15, <1>16,
     <1>17, <1>25 DEF ThreadStep
<1> QED BY <1>18, <1>19, <1>20, <1>21, <1>22, <1>23, <1>24, <1>25, Zenon DEF Next

-----------------------------------------------------------------------------
(* The pid and the requests.                                               *)

(* Every step keeps the relation between the state and the pid: a valid    *)
(* pid never becomes invalid, and requests exist only under one.           *)
LEMMA StateInvStep == IndInv /\ [Next]_vars => StateInv'
<1> SUFFICES ASSUME IndInv, [Next]_vars PROVE StateInv'
  BY Zenon
<1> USE DEF rkVars, mainVars, topparVars, reqVars
<1>1. CASE RequestPidTimer \/ MetadataUpdate \/ Destroy \/ Term
  BY <1>1, Zenon DEF IndInv, StateInv, RequestPidTimer, MetadataUpdate, RequestPid,
              Destroy, Term
<1>2. CASE HandleInitProducerId
    BY <1>2, Zenon DEF IndInv, StateInv, HandleInitProducerId, RequestPidFailed, PidUpdate
<1>3. ASSUME NEW b \in Brokers, SetDrainState(b) PROVE StateInv'
  BY <1>3, Zenon DEF IndInv, StateInv, ThreadInv, SetDrainState
<1>4. ASSUME NEW b \in Brokers, DrainDone(b) PROVE StateInv'
  <2>1. PidValid(pid) => PidValid(PidBump(pid))
    BY PidBumpFacts, Zenon DEF IndInv, TypeOK
  <2> QED BY <1>4, <2>1, Zenon DEF IndInv, StateInv, DrainDone
<1>5. CASE /\ UNCHANGED <<idemp_state, pid>>
           /\ fatal => fatal'
           /\ \A s \in Slots : req'[s] = req[s] \/ req'[s] = NoReq \/ PidValid(pid)
  BY <1>5, Zenon DEF IndInv, StateInv
<1>6. ASSUME NEW b \in Brokers,
             \/ CheckDrainDone(b) \/ RestartTimer(b) \/ InflightTopparSub(b)
             \/ ProduceToppars(b) \/ ProduceTopparsDone(b) \/ TopparTimeoutScan(b)
             \/ RetryMsgs(b) \/ PartitionLeft(b)
             \/ \E s \in Slots : SendRequest(b, s)
             \/ \E p \in Partitions : PartitionJoin(b, p)
      PROVE  StateInv'
    BY <1>5, <1>6, Zenon DEF CheckDrainDone, RestartTimer, InflightTopparSub,
                    ProduceToppars, ProduceTopparsDone, TopparTimeoutScan, RetryMsgs,
                    PartitionLeft, SendRequest, PartitionJoin
<1>7. ASSUME NEW b \in Brokers,
             \/ TopparProducerServe(b) \/ TopparWaitDrain(b)
             \/ \E p \in Partitions : PartitionLeave(b, p)
      PROVE  StateInv'
  BY <1>5, <1>7, ZenonT(60) DEF TopparProducerServe, TopparWaitDrain, PartitionLeave, Purge
<1>8. ASSUME NEW b \in Brokers, TopparXmit(b) PROVE StateInv'
  <2>1. PidValid(pid)
    BY <1>8, ZenonT(60) DEF IndInv, ThreadInv, TopparXmit
  <2> QED BY <1>5, <1>8, <2>1, Zenon DEF TopparXmit
<1>9. ASSUME NEW b \in Brokers, NEW s \in Slots, HandleProduceResult(b, s)
      PROVE  StateInv'
  BY <1>5, <1>9 DEF IndInv, TypeOK, HandleProduceResult
<1>10. CASE UNCHANGED vars
  BY <1>5, <1>10, Zenon DEF vars
<1> QED BY Zenon, <1>1, <1>2, <1>3, <1>4, <1>6, <1>7, <1>8, <1>9, <1>10
        DEF Next, MainStep, ThreadStep

(* The actions that touch a request in flight or what depends on it.       *)
RequestAction(b) ==
    \/ InflightTopparSub(b) \/ TopparProducerServe(b)
    \/ TopparWaitDrain(b) \/ TopparXmit(b)
    \/ \E s \in Slots : HandleProduceResult(b, s)
    \/ \E p \in Partitions : PartitionLeave(b, p)

(* All other actions leave the requests, their pids and the counter alone. *)
LEMMA RequestActions ==
    [Next]_vars => \/ UNCHANGED <<req, toppar_pid, inflight_toppar_cnt, last>>
                   \/ \E b \in Brokers : RequestAction(b)
<1> SUFFICES ASSUME Next, \A b \in Brokers : ~ RequestAction(b)
             PROVE  UNCHANGED <<req, toppar_pid, inflight_toppar_cnt, last>>
  BY Zenon DEF vars, rkVars, topparVars, reqVars, locals
<1> USE DEF rkVars, topparVars, reqVars, locals
<1>1. CASE MainStep
  BY <1>1, Zenon DEF MainStep, RequestPidTimer, MetadataUpdate, HandleInitProducerId,
              Destroy, Term
<1>2. ASSUME NEW b \in Brokers, ThreadStep(b)
      PROVE  UNCHANGED <<req, toppar_pid, inflight_toppar_cnt, last>>
    BY <1>2, ZenonT(60) DEF RequestAction, ThreadStep, SetDrainState, CheckDrainDone,
              DrainDone,
              RestartTimer, ProduceTopparsDone, TopparTimeoutScan, RetryMsgs,
              PartitionLeft
<1>3. ASSUME NEW b \in Brokers,
             \/ ProduceToppars(b)
             \/ \E s \in Slots : SendRequest(b, s)
             \/ \E p \in Partitions : PartitionJoin(b, p)
      PROVE  UNCHANGED <<req, toppar_pid, inflight_toppar_cnt, last>>
  BY <1>3, Zenon DEF ProduceToppars, SendRequest, PartitionJoin
<1> QED BY <1>1, <1>2, <1>3, Zenon DEF Next, RequestAction

(* Every step keeps the pid of a partition and of its requests the same.   *)
LEMMA RequestsStep == IndInv /\ [Next]_vars => RequestsCarryTopparPid'
<1> SUFFICES ASSUME IndInv, [Next]_vars PROVE RequestsCarryTopparPid'
  BY Zenon
<1>1. CASE UNCHANGED <<req, toppar_pid>>
  BY <1>1, Zenon DEF IndInv, RequestsCarryTopparPid
<1>2. ASSUME NEW b \in Brokers, InflightTopparSub(b)
      PROVE  RequestsCarryTopparPid'
  BY <1>1, <1>2, ZenonT(60) DEF InflightTopparSub, topparVars, reqVars
<1>3. ASSUME NEW b \in Brokers, NEW p \in Partitions, NEW label,
             Purge(b, p, label), UNCHANGED toppar_pid
      PROVE  RequestsCarryTopparPid'
  BY <1>3, ZenonT(60) DEF IndInv, RequestsCarryTopparPid, Purge
<1>4. ASSUME NEW b \in Brokers, TopparProducerServe(b)
      PROVE  RequestsCarryTopparPid'
  <2>1. PICK p \in todo[b] : Purge(b, p, "xmit") \/ UNCHANGED req
    BY <1>4, Zenon DEF TopparProducerServe
  <2>2. p \in Partitions /\ UNCHANGED toppar_pid
    BY <1>4, <2>1, Zenon DEF IndInv, TypeOK, TopparProducerServe
  <2> QED BY <1>1, <1>3, <2>1, <2>2, Zenon
<1>5. ASSUME NEW b \in Brokers, TopparWaitDrain(b) PROVE RequestsCarryTopparPid'
  <2>1. part[b] \in Partitions /\ UNCHANGED toppar_pid
    BY <1>5, Zenon DEF IndInv, ThreadInv, TopparWaitDrain
  <2> QED BY <1>3, <1>5, <2>1, Zenon DEF TopparWaitDrain
<1>6. ASSUME NEW b \in Brokers, TopparXmit(b) PROVE RequestsCarryTopparPid'
  BY <1>6 DEF IndInv, TypeOK, ThreadInv, RequestsCarryTopparPid, Requests,
              TopparXmit, TopparPidChange, FreeSlots, InFlight
<1>7. ASSUME NEW b \in Brokers, NEW s \in Slots, HandleProduceResult(b, s)
      PROVE  RequestsCarryTopparPid'
    BY <1>7, ZenonT(60) DEF IndInv, TypeOK, RequestsCarryTopparPid, HandleProduceResult,
              topparVars
<1>8. ASSUME NEW b \in Brokers, NEW p \in Partitions, PartitionLeave(b, p)
      PROVE  RequestsCarryTopparPid'
  BY <1>3, <1>8, Zenon DEF PartitionLeave
<1> QED BY <1>1, <1>2, <1>4, <1>5, <1>6, <1>7, <1>8, RequestActions, Zenon DEF
           RequestAction

-----------------------------------------------------------------------------
(* Epochs.                                                                 *)

(* The pids of the state have integer epochs.                              *)
LEMMA EpochTypes ==
    ASSUME IndInv
    PROVE  /\ pid \in Pids /\ pid.epoch \in Int /\ pid.epoch >= -1
           /\ ~ PidValid(pid) => pid.epoch = -1
           /\ \A p \in Partitions : toppar_pid[p].epoch \in Int
           /\ \A b \in Brokers : snap[b].epoch \in Int
           /\ drains \in Int /\ drains >= 0
<1>1. /\ pid \in Pids /\ toppar_pid \in [Partitions -> Pids]
      /\ snap \in [Brokers -> Pids] /\ drains \in 0..MaxDrains
  BY Zenon DEF IndInv, TypeOK
<1> QED BY <1>1, PidFacts, PidResetFacts, ConstAssumption

(* What EpochNeverGoesBack says of a step.                                 *)
EpochsGrow == \A p \in Partitions : toppar_pid'[p].epoch >= toppar_pid[p].epoch

(* Every step keeps the order of the copies of the pid, and takes no       *)
(* partition back: the thread that serves a partition copied the pid after *)
(* the partition last changed its own.                                     *)
LEMMA EpochOrderStep ==
    ASSUME MaxDrains <= EpochMax, Cardinality(Bumping) \in Nat
    PROVE  IndInv /\ EpochInv /\ [Next]_vars => EpochOrder' /\ EpochsGrow
<1> SUFFICES ASSUME IndInv, EpochCount, EpochOrder, [Next]_vars
             PROVE  EpochOrder' /\ EpochsGrow
  BY Zenon DEF EpochInv
<1>0. toppar_pid' = toppar_pid => EpochsGrow
  BY EpochTypes DEF EpochsGrow
<1>1. CASE UNCHANGED <<pid, toppar_pid, snap, leader, ret>>
  BY <1>0, <1>1, Zenon DEF EpochOrder
<1>2. CASE HandleInitProducerId
  <2>1. UNCHANGED <<toppar_pid, snap, leader, ret>>
    BY <1>2, Zenon DEF HandleInitProducerId, topparVars, locals
  <2>2. pid' = pid \/ (~ PidValid(pid) /\ pid' \in FreshPids)
    BY <1>2, Zenon DEF HandleInitProducerId, RequestPidFailed, PidUpdate, IndInv, StateInv
  <2>3. pid'.epoch >= pid.epoch /\ pid'.epoch \in Int
    BY <2>2, EpochTypes, FreshPidFacts, PidFacts
  <2> QED BY <1>0, <2>1, <2>3, EpochTypes DEF EpochOrder
<1>3. ASSUME NEW b \in Brokers, DrainDone(b) PROVE EpochOrder' /\ EpochsGrow
  <2>1. UNCHANGED <<toppar_pid, snap, leader, ret>>
    BY <1>3, Zenon DEF DrainDone, topparVars, locals
  <2>2. pid' = pid \/ pid'.epoch = pid.epoch + 1
    <3>1. CASE idemp_state = "DRAIN_BUMP" /\ PidValid(pid) /\ pid' = PidBump(pid)
      <4>1. pid.epoch < EpochMax
        BY <3>1, EpochTypes, ConstAssumption DEF IndInv, TypeOK, EpochCount
      <4> QED BY <3>1, <4>1, EpochTypes, PidBumpFacts, Zenon
    <3> QED BY <1>3, <3>1, Zenon DEF DrainDone
  <2> QED BY <1>0, <2>1, <2>2, EpochTypes DEF EpochOrder
<1>4. ASSUME NEW b \in Brokers, ProduceToppars(b)
      PROVE  EpochOrder' /\ EpochsGrow
  <2>1. /\ UNCHANGED <<toppar_pid, pid, leader>>
        /\ snap' = [snap EXCEPT ![b] = pid] /\ ret' = [ret EXCEPT ![b] = "serve"]
    BY <1>4, PidResetFacts, ZenonT(60) DEF ProduceToppars, CanServe, GetPid, topparVars, rkVars
  <2>2. \A c \in Brokers : snap'[c] = IF c = b THEN pid ELSE snap[c]
    BY <2>1, Zenon DEF IndInv, TypeOK
  <2>3. \A c \in Brokers : ret'[c] = IF c = b THEN "serve" ELSE ret[c]
    BY <2>1, Zenon DEF IndInv, TypeOK
  <2>4. \A c \in Brokers : snap'[c].epoch <= pid'.epoch
    BY <2>1, <2>2, EpochTypes DEF EpochOrder
  <2>5. ASSUME NEW c \in Brokers, ret'[c] \in {"serve", "xmit"},
               NEW p \in Partitions, leader'[p] = c
        PROVE  toppar_pid'[p].epoch <= snap'[c].epoch
    BY <2>1, <2>2, <2>3, <2>5, Zenon DEF EpochOrder
  <2> QED BY <1>0, <2>1, <2>4, <2>5, Zenon DEF EpochOrder
<1>5. ASSUME NEW b \in Brokers, ProduceTopparsDone(b)
      PROVE  EpochOrder' /\ EpochsGrow
  <2>1. /\ UNCHANGED <<toppar_pid, pid, leader>>
        /\ snap' = [snap EXCEPT ![b] = PidReset] /\ ret' = [ret EXCEPT ![b] = "idle"]
    BY <1>5, Zenon DEF ProduceTopparsDone, topparVars, rkVars
  <2>2. \A c \in Brokers : snap'[c] = IF c = b THEN PidReset ELSE snap[c]
    BY <2>1, Zenon DEF IndInv, TypeOK
  <2>3. \A c \in Brokers : ret'[c] = IF c = b THEN "idle" ELSE ret[c]
    BY <2>1, Zenon DEF IndInv, TypeOK
  <2> QED BY <1>0, <2>1, <2>2, <2>3, EpochTypes, PidResetFacts DEF EpochOrder
<1>6. ASSUME NEW b \in Brokers, TopparProducerServe(b)
      PROVE  EpochOrder' /\ EpochsGrow
  <2>1. UNCHANGED <<toppar_pid, pid, leader, snap>> /\ ret[b] = "serve"
    BY <1>6, Zenon DEF TopparProducerServe, rkVars, IndInv, ThreadInv
  <2>2. \A c \in Brokers : c # b => ret'[c] = ret[c]
    BY <1>6, Zenon DEF TopparProducerServe, Purge, IndInv, TypeOK
  <2> QED BY <1>0, <2>1, <2>2, Zenon DEF EpochOrder
<1>7. ASSUME NEW b \in Brokers, TopparWaitDrain(b)
      PROVE  EpochOrder' /\ EpochsGrow
  <2>1. UNCHANGED <<toppar_pid, pid, leader, snap>> /\ ret[b] = "xmit"
    BY <1>7, Zenon DEF TopparWaitDrain, rkVars, IndInv, ThreadInv
  <2>2. \A c \in Brokers : c # b => ret'[c] = ret[c]
    BY <1>7, Zenon DEF TopparWaitDrain, Purge, IndInv, TypeOK
  <2> QED BY <1>0, <2>1, <2>2, Zenon DEF EpochOrder
<1>8. ASSUME NEW b \in Brokers, TopparXmit(b) PROVE EpochOrder' /\ EpochsGrow
  <2>1. PICK q \in Partitions : q = part[b] /\ leader[q] = b /\ ret[b] = "xmit"
    BY <1>8, ZenonT(60) DEF IndInv, ThreadInv, TopparXmit
  <2>2. /\ UNCHANGED <<pid, leader, snap>> /\ ret' = [ret EXCEPT ![b] = "serve"]
        /\ toppar_pid' = toppar_pid \/ toppar_pid' = [toppar_pid EXCEPT ![q] = snap[b]]
    BY <1>8, <2>1, Zenon DEF TopparXmit, TopparPidChange
  <2>3. \A p \in Partitions : toppar_pid'[p] = toppar_pid[p]
                                \/ (p = q /\ toppar_pid'[p] = snap[b])
    BY <2>2, Zenon DEF IndInv, TypeOK
  <2>4. \A c \in Brokers : ret'[c] = IF c = b THEN "serve" ELSE ret[c]
    BY <2>2, Zenon DEF IndInv, TypeOK
  <2>5. snap[b].epoch \in Int /\ toppar_pid[q].epoch <= snap[b].epoch
        /\ snap[b].epoch <= pid.epoch
    BY <2>1, EpochTypes, Zenon DEF EpochOrder
  <2>6. EpochsGrow
    BY <2>3, <2>5, EpochTypes DEF EpochsGrow
  <2>7. \A p \in Partitions : toppar_pid'[p].epoch <= pid'.epoch
    BY <2>2, <2>3, <2>5, ZenonT(60) DEF EpochOrder
  <2>8. ASSUME NEW c \in Brokers, ret'[c] \in {"serve", "xmit"},
               NEW p \in Partitions, leader'[p] = c
        PROVE  toppar_pid'[p].epoch <= snap'[c].epoch
    BY <2>1, <2>2, <2>3, <2>4, <2>5, <2>8 DEF EpochOrder
  <2> QED BY <2>2, <2>6, <2>7, <2>8, Zenon DEF EpochOrder
<1>9. ASSUME NEW b \in Brokers, NEW p \in Partitions, PartitionLeave(b, p)
      PROVE  EpochOrder' /\ EpochsGrow
  <2>1. UNCHANGED <<toppar_pid, pid, leader, snap>>
    BY <1>9, ZenonT(60) DEF PartitionLeave, rkVars
  <2>2. \A c \in Brokers : ret'[c] \in {ret[c], "leave"}
    BY <1>9, Zenon DEF PartitionLeave, Purge, IndInv, TypeOK
  <2> QED BY <1>0, <2>1, <2>2, Zenon DEF EpochOrder
<1>10. ASSUME NEW b \in Brokers, PartitionLeft(b)
       PROVE  EpochOrder' /\ EpochsGrow
  <2>1. UNCHANGED <<toppar_pid, pid, snap>>
    BY <1>10, Zenon DEF PartitionLeft, reqVars, rkVars
  <2>2. \A c \in Brokers : ret'[c] \in {ret[c], "idle"}
    BY <1>10, Zenon DEF PartitionLeft, IndInv, TypeOK
  <2>3. \A p \in Partitions : leader'[p] \in {leader[p], None}
    BY <1>10, Zenon DEF PartitionLeft, IndInv, TypeOK
  <2> QED BY <1>0, <2>1, <2>2, <2>3, NoneAssumption, Zenon DEF EpochOrder
<1>11. ASSUME NEW b \in Brokers, NEW p \in Partitions, PartitionJoin(b, p)
       PROVE  EpochOrder' /\ EpochsGrow
  <2>1. UNCHANGED <<toppar_pid, pid, snap, ret>> /\ ret[b] = "idle"
    BY <1>11, Zenon DEF PartitionJoin, rkVars, locals, IndInv, ThreadInv
  <2>2. \A q \in Partitions : leader'[q] \in {leader[q], b}
    BY <1>11, Zenon DEF PartitionJoin, IndInv, TypeOK
  <2> QED BY <1>0, <2>1, <2>2, Zenon DEF EpochOrder
<1>12. CASE RequestPidTimer \/ MetadataUpdate \/ Destroy \/ Term
    BY <1>1, <1>12, Zenon DEF RequestPidTimer, MetadataUpdate, Destroy, Term, rkVars,
                     topparVars, locals
<1>13. ASSUME NEW b \in Brokers,
              \/ SetDrainState(b) \/ CheckDrainDone(b) \/ RestartTimer(b)
              \/ InflightTopparSub(b) \/ TopparTimeoutScan(b) \/ RetryMsgs(b)
              \/ \E s \in Slots : SendRequest(b, s) \/ HandleProduceResult(b, s)
       PROVE  EpochOrder' /\ EpochsGrow
    BY <1>1, <1>13, Zenon DEF SetDrainState, CheckDrainDone, RestartTimer,
                     InflightTopparSub, TopparTimeoutScan, RetryMsgs, SendRequest, HandleProduceResult,
                     rkVars, topparVars, locals
<1>14. CASE UNCHANGED vars
  BY <1>1, <1>14, Zenon DEF vars, rkVars, topparVars, locals
<1> QED BY Zenon, <1>2, <1>3, <1>4, <1>5, <1>6, <1>7, <1>8, <1>9, <1>10, <1>11, <1>12,
           <1>13, <1>14
        DEF Next, MainStep, ThreadStep

INSTANCE FiniteSetTheorems

-----------------------------------------------------------------------------
(* What is counted.                                                        *)

(* The sets that the in-flight counter counts are finite.                  *)
LEMMA CountedSets ==
    /\ IsFiniteSet(Busy) /\ Cardinality(Busy) \in Nat
    /\ IsFiniteSet(Subtracting) /\ Cardinality(Subtracting) \in Nat
    /\ IsFiniteSet(Bumping) /\ Cardinality(Bumping) \in Nat
<1>1. Busy \subseteq Partitions /\ Subtracting \subseteq Brokers /\ Bumping
      \subseteq Brokers
  BY Zenon DEF Busy, Subtracting, Bumping
<1> QED BY <1>1, FS_Subset, FS_CardinalityType, ConstAssumption, Zenon

(* The initial state satisfies the invariant.                              *)
LEMMA InitInd == Init => IndInv /\ EpochInv
<1> SUFFICES ASSUME Init PROVE IndInv /\ EpochInv
  BY Zenon
<1>1. TypeOK
  <2>1. /\ pid \in Pids /\ snap \in [Brokers -> Pids]
        /\ toppar_pid \in [Partitions -> Pids]
    BY PidResetFacts, Zenon DEF Init
  <2>2. drains \in 0..MaxDrains
    BY ConstAssumption DEF Init
  <2> QED BY <2>1, <2>2, ZenonT(60) DEF Init, TypeOK, States, PCs
<1>2. \A b \in Brokers : ThreadInv(b)
  BY Zenon DEF Init, ThreadInv
<1>3. StateInv
  BY PidResetFacts, Zenon DEF Init, StateInv
<1>4. Busy = {} /\ Subtracting = {} /\ Bumping = {}
  BY Zenon DEF Init, Busy, InFlight, Subtracting, Bumping
<1>5. CounterExact
  BY <1>4, FS_EmptySet DEF Init, CounterExact
<1>6. RequestsCarryTopparPid
  BY Zenon DEF Init, RequestsCarryTopparPid
<1>7. EpochInv
  BY <1>4, FS_EmptySet, PidResetFacts DEF Init, EpochInv, EpochCount, EpochOrder
<1> QED BY <1>1, <1>2, <1>3, <1>5, <1>6, <1>7, Zenon DEF IndInv

(* A thread that is about to subtract has something to subtract from.      *)
LEMMA SubtractsOne == IndInv /\ Subtracting # {} => inflight_toppar_cnt > 0
<1> SUFFICES ASSUME IndInv, Subtracting # {} PROVE inflight_toppar_cnt > 0
  BY Zenon
<1>1. Cardinality(Subtracting) # 0
  BY CountedSets, FS_EmptySet, Zenon
<1> QED
  BY <1>1, CountedSets DEF IndInv, CounterExact

(* The counter is exact after a step that changes neither it nor the two   *)
(* sets it counts.                                                         *)
LEMMA CounterSame ==
    ASSUME CounterExact, UNCHANGED <<inflight_toppar_cnt, req, last>>
    PROVE  CounterExact'
<1>1. Busy' = Busy /\ Subtracting' = Subtracting
  BY Zenon DEF Busy, InFlight, Subtracting
<1> QED BY <1>1, Zenon DEF CounterExact

(* ... and after one in which a thread takes over the last result of a     *)
(* busy partition.                                                         *)
LEMMA CounterMove ==
    ASSUME CounterExact, UNCHANGED inflight_toppar_cnt,
           NEW p \in Busy, Busy' = Busy \ {p},
           NEW b \in Brokers, ~ last[b], Subtracting' = Subtracting \cup {b}
    PROVE  CounterExact'
<1>1. Cardinality(Busy \ {p}) = Cardinality(Busy) - 1
  BY CountedSets, FS_RemoveElement, ZenonT(60)
<1>2. Cardinality(Subtracting \cup {b}) = Cardinality(Subtracting) + 1
  <2>1. b \notin Subtracting
    BY Zenon DEF Subtracting
  <2> QED BY <2>1, CountedSets, FS_AddElement, ZenonT(60)
<1> QED BY <1>1, <1>2, CountedSets DEF CounterExact

(* Purging the output queue for a partition moves it from Busy to the      *)
(* thread if nothing of it is left in flight.                              *)
LEMMA CounterPurge ==
    ASSUME IndInv, NEW b \in Brokers, NEW p \in Partitions, NEW label,
           ~ last[b], Purge(b, p, label), UNCHANGED inflight_toppar_cnt
    PROVE  CounterExact'
<1> DEFINE lastone == OutBufs(b, p) # {} /\ InFlight(p) \subseteq OutBufs(b, p)
<1>1. /\ req' = [s \in Slots |-> IF s \in OutBufs(b, p) THEN NoReq ELSE req[s]]
      /\ last' = [last EXCEPT ![b] = lastone]
  BY Zenon DEF Purge
<1>2. \A q \in Partitions : InFlight(q)' = IF q = p THEN InFlight(q) \
OutBufs(b, p)
                                                    ELSE InFlight(q)
  BY <1>1, Zenon DEF InFlight, OutBufs
<1>3. OutBufs(b, p) \subseteq InFlight(p)
  BY Zenon DEF OutBufs
<1>4. CASE lastone
  <2>1. p \in Busy /\ Busy' = Busy \ {p}
    BY <1>2, <1>3, <1>4, Zenon DEF Busy
  <2>2. Subtracting' = Subtracting \cup {b}
    BY <1>1, <1>4, ZenonT(60) DEF IndInv, TypeOK, Subtracting
  <2> QED BY <2>1, <2>2, CounterMove, Zenon DEF IndInv
<1>5. CASE ~ lastone
  <2>1. Busy' = Busy
    BY <1>2, <1>3, <1>5, Zenon DEF Busy
  <2>2. Subtracting' = Subtracting
    BY <1>1, <1>5, Zenon DEF IndInv, TypeOK, Subtracting
  <2> QED BY <2>1, <2>2, Zenon DEF IndInv, CounterExact
<1> QED BY <1>4, <1>5, Zenon

(* Every step keeps the in-flight counter exact.                            *)
LEMMA CounterStep == IndInv /\ [Next]_vars => CounterExact'
<1> SUFFICES ASSUME IndInv, [Next]_vars PROVE CounterExact'
  BY Zenon
<1>1. CASE UNCHANGED <<req, inflight_toppar_cnt, last>>
  BY <1>1, CounterSame, Zenon DEF IndInv
<1>2. ASSUME NEW b \in Brokers, InflightTopparSub(b) PROVE CounterExact'
  <2>1. b \in Subtracting
    BY <1>2, Zenon DEF IndInv, ThreadInv, InflightTopparSub, Subtracting
  <2>2. Busy' = Busy /\ Subtracting' = Subtracting \ {b}
    BY <1>2, Zenon DEF IndInv, TypeOK, InflightTopparSub, Busy, InFlight, Subtracting,
                reqVars
  <2>3. Cardinality(Subtracting \ {b}) = Cardinality(Subtracting) - 1
    BY <2>1, CountedSets, FS_RemoveElement, ZenonT(60)
  <2> QED BY <1>2, <2>2, <2>3, CountedSets DEF IndInv, CounterExact,
             InflightTopparSub
<1>3. ASSUME NEW b \in Brokers, TopparProducerServe(b) PROVE CounterExact'
  <2>1. PICK p \in todo[b] :
            Purge(b, p, "xmit") \/ UNCHANGED <<req, last>>
    BY <1>3, Zenon DEF TopparProducerServe
  <2>2. p \in Partitions /\ ~ last[b] /\ UNCHANGED inflight_toppar_cnt
    BY <1>3, <2>1, Zenon DEF IndInv, TypeOK, ThreadInv, TopparProducerServe, rkVars
  <2> QED BY <2>1, <2>2, CounterPurge, CounterSame, Zenon DEF IndInv
<1>4. ASSUME NEW b \in Brokers, TopparWaitDrain(b) PROVE CounterExact'
  <2>1. part[b] \in Partitions /\ ~ last[b] /\ UNCHANGED inflight_toppar_cnt
    BY <1>4, ZenonT(60) DEF IndInv, ThreadInv, TopparWaitDrain, rkVars
  <2> QED BY <1>4, <2>1, CounterPurge, ZenonT(60) DEF TopparWaitDrain
<1>5. ASSUME NEW b \in Brokers, TopparXmit(b) PROVE CounterExact'
  <2>0. PICK p \in Partitions : p = part[b]
    BY <1>5 DEF IndInv, ThreadInv, TopparXmit
  <2>1. last' = last
    BY <1>5, Zenon DEF TopparXmit
  <2>2. CASE UNCHANGED <<req, inflight_toppar_cnt>>
    BY <2>1, <2>2, CounterSame, Zenon DEF IndInv
  <2>3. ASSUME NEW S \in (SUBSET FreeSlots) \ {{}},
               req' = [s \in Slots |->
                            IF s \in S
                            THEN [part |-> p, broker |-> b, pid |-> snap[b]]
                            ELSE req[s]],
               ReadyProduce(p)
        PROVE  CounterExact'
    <3>1. PICK s \in S : TRUE
      BY <2>3, Zenon
    <3>2. s \in Slots /\ req'[s] # NoReq /\ req'[s].part = p
      <4>1. [part |-> p, broker |-> b, pid |-> snap[b]] \in Requests
        BY <2>1, Zenon DEF IndInv, TypeOK, Requests
      <4> QED BY <2>3, <4>1, NoneAssumption, Zenon DEF FreeSlots
    <3>3. InFlight(p)' # {}
      BY <3>2, Zenon DEF InFlight
    <3>4. \A q \in Partitions : q # p => InFlight(q)' = InFlight(q)
      BY <2>3, ZenonT(60) DEF InFlight, FreeSlots
    <3>5. Busy' = Busy \cup {p}
      BY <2>1, <3>3, <3>4, Zenon DEF Busy
    <3>6. Subtracting' = Subtracting
      BY <2>1, Zenon DEF Subtracting
    <3>7. CASE p \in Busy
      <4>1. InFlight(p) # {}
        BY <3>7, Zenon DEF Busy
      <4>2. inflight_toppar_cnt' = inflight_toppar_cnt
        BY <2>3, <4>1 DEF IndInv, TypeOK, ReadyProduce
      <4>3. Busy' = Busy
        BY <3>5, <3>7, Zenon
      <4> QED BY <3>6, <4>2, <4>3, Zenon DEF IndInv, CounterExact
    <3>8. CASE p \notin Busy
      <4>1. Cardinality(Busy \cup {p}) = Cardinality(Busy) + 1
        BY <3>8, CountedSets, FS_AddElement, ZenonT(60)
      <4>2. InFlight(p) = {}
        BY <2>1, <3>8, Zenon DEF Busy
      <4> QED BY <2>3, <3>5, <3>6, <4>1, <4>2, CountedSets
              DEF IndInv, CounterExact, ReadyProduce
    <3> QED BY <3>7, <3>8, Zenon
  <2> QED BY <1>5, <2>0, <2>2, <2>3, ZenonT(60) DEF TopparXmit
<1>6. ASSUME NEW b \in Brokers, NEW s \in Slots, HandleProduceResult(b, s)
      PROVE  CounterExact'
  <2>0. PICK p \in Partitions : p = req[s].part
    BY <1>6, Zenon DEF IndInv, TypeOK, HandleProduceResult, Requests
  <2>1. s \in InFlight(p) /\ ~ last[b] /\ UNCHANGED inflight_toppar_cnt
    BY <1>6, <2>0, ZenonT(60) DEF IndInv, TypeOK, ThreadInv, HandleProduceResult,
                                  InFlight, Requests, rkVars
  <2>2. /\ req' = [req EXCEPT ![s] = NoReq]
        /\ last' = [last EXCEPT ![b] = LastInflight(s)]
    BY <1>6, ZenonT(60) DEF HandleProduceResult
  <2>3. \A q \in Partitions : InFlight(q)' = IF q = p THEN InFlight(q) \ {s} ELSE
  InFlight(q)
    BY <2>0, <2>1, <2>2, Zenon DEF IndInv, TypeOK, InFlight
  <2>4. CASE LastInflight(s)
    <3>1. InFlight(p) = {s}
      BY <2>0, <2>4, Zenon DEF LastInflight
    <3>2. p \in Busy /\ Busy' = Busy \ {p}
      BY <2>1, <2>3, <3>1, Zenon DEF Busy
    <3>3. Subtracting' = Subtracting \cup {b}
      BY <2>2, <2>4 DEF IndInv, TypeOK, Subtracting
    <3> QED BY <2>1, <3>2, <3>3, CounterMove, Zenon DEF IndInv
  <2>5. CASE ~ LastInflight(s)
    <3>1. Busy' = Busy
      <4>1. InFlight(p) # {s}
        BY <2>0, <2>5, Zenon DEF LastInflight
      <4> QED BY <2>1, <2>3, <4>1, Zenon DEF Busy
    <3>2. Subtracting' = Subtracting
      BY <2>1, <2>2, <2>5, Zenon DEF IndInv, TypeOK, Subtracting
    <3> QED BY <2>1, <3>1, <3>2, Zenon DEF IndInv, CounterExact
  <2> QED BY <2>4, <2>5, Zenon
<1>7. ASSUME NEW b \in Brokers, NEW p \in Partitions, PartitionLeave(b, p)
      PROVE  CounterExact'
  <2>1. ~ last[b] /\ UNCHANGED inflight_toppar_cnt
    BY <1>7, Zenon DEF IndInv, ThreadInv, PartitionLeave, rkVars
  <2> QED BY <1>7, <2>1, CounterPurge, Zenon DEF PartitionLeave
<1> QED BY <1>1, <1>2, <1>3, <1>4, <1>5, <1>6, <1>7, RequestActions, Zenon DEF
           RequestAction

(* No thread is about to bump the epoch of a pid that is not there.        *)
LEMMA NoBumping == IndInv /\ ~ PidValid(pid) => Cardinality(Bumping) = 0
<1> SUFFICES ASSUME IndInv, ~ PidValid(pid) PROVE Bumping = {}
  BY FS_EmptySet, Zenon
<1> QED BY Zenon DEF IndInv, ThreadInv, Bumping

(* Every step keeps the epoch within the number of drains.                 *)
LEMMA EpochCountStep ==
    ASSUME MaxDrains <= EpochMax
    PROVE  IndInv /\ EpochCount /\ [Next]_vars => EpochCount'
<1> SUFFICES ASSUME IndInv, EpochCount, [Next]_vars PROVE EpochCount'
  BY Zenon
<1> USE DEF rkVars
<1>1. CASE /\ Bumping' = Bumping /\ UNCHANGED <<pid, drains>>
           /\ idemp_state' = "DRAIN_BUMP" => idemp_state = "DRAIN_BUMP"
  BY <1>1, EpochTypes, CountedSets DEF EpochCount
<1>2. CASE RequestPidTimer \/ MetadataUpdate \/ Destroy \/ Term
    BY <1>1, <1>2, Zenon DEF RequestPidTimer, MetadataUpdate, RequestPid, Destroy, Term,
                    Bumping
<1>3. CASE HandleInitProducerId
  <2>1. Bumping' = Bumping /\ drains' = drains
    BY <1>3, Zenon DEF HandleInitProducerId, Bumping
  <2>2. CASE UNCHANGED <<pid, idemp_state>>
    BY <2>1, <2>2, Zenon DEF EpochCount
  <2>3. CASE /\ idemp_state = "WAIT_PID" /\ idemp_state' = "ASSIGNED"
             /\ pid' \in FreshPids
    <3>1. pid'.epoch <= 0 /\ pid'.epoch \in Int
      BY <2>3, FreshPidFacts, PidFacts, Zenon
    <3>2. Cardinality(Bumping) = 0
      BY <2>3, NoBumping, Zenon DEF IndInv, StateInv
    <3> QED BY <2>1, <2>3, <3>1, <3>2, EpochTypes DEF EpochCount
  <2> QED BY <1>3, <2>2, <2>3, Zenon DEF HandleInitProducerId, RequestPidFailed,
                                  PidUpdate
<1>4. ASSUME NEW b \in Brokers, SetDrainState(b) PROVE EpochCount'
  <2>1. CASE pc[b] = "bump"
    <3>1. b \in Bumping /\ Bumping' = Bumping \ {b}
      BY <1>4, <2>1, Zenon DEF IndInv, TypeOK, SetDrainState, Goto, Bumping
    <3>2. Cardinality(Bumping \ {b}) = Cardinality(Bumping) - 1
      BY ZenonT(60), <3>1, CountedSets, FS_RemoveElement
    <3> QED BY <1>4, <3>1, <3>2, EpochTypes, CountedSets DEF SetDrainState,
               EpochCount
  <2>2. CASE pc[b] = "reset"
    <3>1. Bumping' = Bumping
      BY <1>4, <2>2, Zenon DEF IndInv, TypeOK, SetDrainState, Goto, Bumping
    <3> QED BY <1>4, <2>2, <3>1, EpochTypes, CountedSets DEF SetDrainState,
               EpochCount
  <2> QED BY <1>4, <2>1, <2>2, Zenon DEF SetDrainState
<1>5. ASSUME NEW b \in Brokers, DrainDone(b) PROVE EpochCount'
  <2>1. Bumping' = Bumping
    BY <1>5 DEF IndInv, TypeOK, ThreadInv, DrainDone, Goto, AfterDrain, Bumping
  <2>2. CASE /\ idemp_state = "DRAIN_BUMP" /\ PidValid(pid)
             /\ pid' = PidBump(pid) /\ idemp_state' = "ASSIGNED"
    <3>1. pid.epoch < EpochMax
    BY <2>2, EpochTypes, CountedSets, ConstAssumption DEF IndInv, TypeOK,
         EpochCount
    <3>2. pid'.epoch = pid.epoch + 1
      BY <2>2, <3>1, EpochTypes, PidBumpFacts, Zenon
    <3> QED BY <1>5, <2>1, <2>2, <3>2, EpochTypes, CountedSets DEF DrainDone,
               EpochCount
  <2>3. CASE UNCHANGED pid /\ idemp_state' # "DRAIN_BUMP"
    BY <1>5, <2>1, <2>3, EpochTypes, CountedSets DEF DrainDone, EpochCount
  <2>4. CASE UNCHANGED <<pid, idemp_state>>
    BY <1>5, <2>1, <2>4, Zenon DEF DrainDone, EpochCount
  <2> QED BY <1>5, <2>2, <2>3, <2>4, Zenon DEF DrainDone
<1>6. ASSUME NEW b \in Brokers, TopparTimeoutScan(b) PROVE EpochCount'
  <2>1. UNCHANGED <<pid, idemp_state>>
    BY <1>6, Zenon DEF TopparTimeoutScan, rkVars
  <2>2. CASE pc' = [pc EXCEPT ![b] = "bump"] /\ drains' = drains + 1
    <3>1. b \notin Bumping /\ Bumping' = Bumping \cup {b}
      BY <1>6, <2>2 DEF IndInv, TypeOK, TopparTimeoutScan, Bumping
    <3>2. Cardinality(Bumping \cup {b}) = Cardinality(Bumping) + 1
      BY ZenonT(60), <3>1, CountedSets, FS_AddElement
    <3> QED BY <2>1, <2>2, <3>1, <3>2, EpochTypes, CountedSets DEF EpochCount
  <2> QED BY <1>6, <2>2, Zenon DEF TopparTimeoutScan, Goto
<1>7. ASSUME NEW b \in Brokers, NEW s \in Slots, HandleProduceResult(b, s)
      PROVE  EpochCount'
  <2>1. UNCHANGED <<pid, idemp_state>>
    BY <1>7, Zenon DEF HandleProduceResult, rkVars
  <2>2. CASE pc' = [pc EXCEPT ![b] = "bump"] /\ drains' = drains + 1
    <3>1. b \notin Bumping /\ Bumping' = Bumping \cup {b}
      BY <1>7, <2>2, Zenon DEF IndInv, TypeOK, HandleProduceResult, Bumping
    <3>2. Cardinality(Bumping \cup {b}) = Cardinality(Bumping) + 1
      BY Zenon, <3>1, CountedSets, FS_AddElement
    <3> QED BY <2>1, <2>2, <3>1, <3>2, EpochTypes, CountedSets DEF EpochCount
  <2>3. CASE pc'[b] # "bump" /\ drains' \in {drains, drains + 1}
    <3>1. Bumping' = Bumping
      BY <1>7, <2>3, Zenon DEF IndInv, TypeOK, HandleProduceResult, Goto, Bumping
    <3> QED BY <2>1, <2>3, <3>1, EpochTypes, CountedSets DEF EpochCount
  <2> QED BY <1>7, <2>2, <2>3, Zenon DEF IndInv, TypeOK, HandleProduceResult, Goto
<1>8. ASSUME NEW b \in Brokers, NEW label \in PCs, label # "bump", pc[b] #
"bump",
             Goto(b, label), UNCHANGED <<idemp_state, pid, drains>>
      PROVE  EpochCount'
  <2>1. Bumping' = Bumping
    BY <1>8, Zenon DEF IndInv, TypeOK, Goto, Bumping
  <2> QED BY <1>1, <1>8, <2>1, Zenon
<1>9. ASSUME NEW b \in Brokers, CheckDrainDone(b) \/ RestartTimer(b) \/
InflightTopparSub(b)
      PROVE  EpochCount'
  <2>1. AfterDrain(b) \in PCs \ {"bump"} /\ ret[b] \in PCs \ {"bump"}
    BY Zenon DEF IndInv, TypeOK, AfterDrain, PCs
  <2> QED BY <1>8, <1>9, <2>1, Zenon DEF CheckDrainDone, RestartTimer,
                                  InflightTopparSub, PCs
<1>10. ASSUME NEW b \in Brokers,
ProduceToppars(b) \/ ProduceTopparsDone(b) \/ TopparXmit(b) \/ PartitionLeft(b)
       PROVE  EpochCount'
    BY <1>8, <1>10, Zenon DEF ProduceToppars, ProduceTopparsDone, TopparXmit,
                     PartitionLeft, PCs
<1>11. ASSUME NEW b \in Brokers, RetryMsgs(b) PROVE EpochCount'
  <2>1. ret[b] \in PCs \ {"bump"}
    BY Zenon DEF IndInv, TypeOK, PCs
  <2> QED BY <1>8, <1>11, <2>1, Zenon DEF RetryMsgs, PCs
<1>12. ASSUME NEW b \in Brokers,
              \/ TopparProducerServe(b) \/ TopparWaitDrain(b)
              \/ \E p \in Partitions : PartitionLeave(b, p)
       PROVE  EpochCount'
  <2>1. PICK label \in {"xmit", "serve", "leave", "sub"} : Goto(b, label)
    BY <1>12, Zenon DEF TopparProducerServe, TopparWaitDrain, PartitionLeave, Purge
  <2>2. pc[b] # "bump" /\ UNCHANGED <<idemp_state, pid, drains>>
    BY <1>12, Zenon DEF TopparProducerServe, TopparWaitDrain, PartitionLeave
  <2> QED BY <1>8, <2>1, <2>2, Zenon DEF PCs
<1>13. CASE UNCHANGED <<rkVars, pc, drains>>
  BY <1>1, <1>13, Zenon DEF Bumping
<1>14. ASSUME NEW b \in Brokers, \/ \E s \in Slots : SendRequest(b, s)
                                 \/ \E p \in Partitions : PartitionJoin(b, p)
       PROVE  EpochCount'
  BY <1>13, <1>14, Zenon DEF SendRequest, PartitionJoin
<1> QED BY Zenon, <1>2, <1>3, <1>4, <1>5, <1>6, <1>7, <1>9, <1>10, <1>11, <1>12,
           <1>13, <1>14
        DEF Next, MainStep, ThreadStep, vars

-----------------------------------------------------------------------------
(* The theorems.                                                           *)

(* The invariant is inductive.                                             *)
LEMMA IndInvStep == IndInv /\ [Next]_vars => IndInv'
    BY Zenon, TypeStep, SubtractsOne, ThreadInvStep, StateInvStep, CounterStep, RequestsStep DEF IndInv

(* It holds in every reachable state.                                      *)
LEMMA Invariance == Spec => []IndInv
    BY InitInd, IndInvStep, PTL DEF Spec

(* The types hold; in particular rk_eos.inflight_toppar_cnt never becomes  *)
(* negative, which rd_kafka_idemp_inflight_toppar_sub asserts.             *)
THEOREM TypeCorrect == Spec => []TypeOK
<1>1. IndInv => TypeOK
  BY Zenon DEF IndInv
<1> QED BY <1>1, Invariance, PTL

(* The in-flight counter of rdkafka_idempotence.c counts exactly the       *)
(* partitions that are not drained, whatever the interleaving of threads.  *)
THEOREM CounterCorrect == Spec => []CounterExact
<1>1. IndInv => CounterExact
  BY Zenon DEF IndInv
<1> QED BY <1>1, Invariance, PTL

(* The requests in flight for a partition carry its pid, although pids are *)
(* copied, bumped and assigned by different threads: the "PID mismatch"    *)
(* failure of handle_idempotent_Produce_error is unreachable.              *)
THEOREM OnePidInFlight == Spec => []RequestsCarryTopparPid
<1>1. IndInv => RequestsCarryTopparPid
  BY Zenon DEF IndInv
<1> QED BY <1>1, Invariance, PTL

(* No epoch bump is ever started without a valid pid, so drain_done never  *)
(* leaves the instance in DRAIN_BUMP for lack of one.                      *)
THEOREM BumpCorrect == Spec => []BumpsAValidPid
<1>1. IndInv => BumpsAValidPid
  BY Zenon DEF IndInv, StateInv, BumpsAValidPid
<1> QED BY <1>1, Invariance, PTL

(* No partition goes back to an older epoch, if the epoch does not wrap    *)
(* (it takes a drain to bump it once): rd_kafka_toppar_pid_change only     *)
(* ever moves a partition forward, although each broker thread uses a copy *)
(* of the pid that may be several bumps old.                               *)
THEOREM EpochsCorrect ==
    ASSUME MaxDrains <= EpochMax
    PROVE  Spec => EpochNeverGoesBack
<1>1. Init => IndInv /\ EpochInv
  BY InitInd, Zenon
<1>2. IndInv /\ EpochInv /\ [Next]_vars => IndInv' /\ EpochInv'
  BY IndInvStep, EpochCountStep, EpochOrderStep, CountedSets, Zenon DEF EpochInv
<1>3. IndInv /\ EpochInv /\ [Next]_vars => [EpochsGrow]_vars
  BY EpochOrderStep, CountedSets, Zenon
<1>4. Spec => [][EpochsGrow]_vars
  BY <1>1, <1>2, <1>3, PTL DEF Spec
<1> QED BY <1>4, Zenon DEF EpochNeverGoesBack, EpochsGrow

=============================================================================
