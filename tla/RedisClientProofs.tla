-------------------------- MODULE RedisClientProofs -------------------------
(***************************************************************************)
(* Last part: the order in which commands take effect, the size of the     *)
(* pool, and the results.                                                  *)
(***************************************************************************)
EXTENDS RedisClientCommands

-----------------------------------------------------------------------------
(* The order.                                                              *)

(* A request whose connection nobody touches, or that waits for no reply,  *)
(* has no more commands answered.                                          *)
LEMMA AnsweredFrame ==
    ASSUME NEW s \in Clients, done'[s] = done[s],
           \/ pc'[s] # "reply"
           \/ wire'[sock'[s]] = << >>
           \/ /\ pc'[s] = pc[s] /\ batch'[s] = batch[s] /\ sock'[s] = sock[s]
              /\ pc[s] = "reply" => wire'[sock[s]] = wire[sock[s]]
    PROVE  Answered(s)' \subseteq Answered(s)
<1>1. CASE pc'[s] # "reply"
  BY <1>1, Zenon DEF Answered
<1>2. CASE wire'[sock'[s]] = << >>
  <2>1. DOMAIN wire'[sock'[s]] = {}
    BY <1>2
  <2> QED
    BY <2>1, Zenon DEF Answered
<1>3. CASE /\ pc'[s] = pc[s] /\ batch'[s] = batch[s] /\ sock'[s] = sock[s]
           /\ pc[s] = "reply" => wire'[sock[s]] = wire[sock[s]]
  BY <1>3, Zenon DEF Answered
<1> QED
  BY <1>1, <1>2, <1>3, Zenon

(* Reading a connection, or dropping it, leaves the others' alone.         *)
LEMMA WireElsewhere ==
    ASSUME TypeOK, Owners, NEW r \in Clients, Pop(r) \/ Drop(r)
    PROVE  \A s \in Clients : s # r /\ pc[s] = "reply" => wire'[sock[s]] = wire[sock[s]]
<1> SUFFICES ASSUME NEW s \in Clients, s # r, pc[s] = "reply"
             PROVE  wire'[sock[s]] = wire[sock[s]]
  BY Zenon
<1>1. sock[s] \in Conns /\ sock[s] # sock[r]
  BY Zenon DEF Owners, OneOwner, TypeOK
<1>2. PICK c \in Conns : c = sock[s]
  BY <1>1, Zenon
<1>3. PICK d : d = sock[r]
  BY Zenon
<1>4. wire \in [Conns -> Seq(Messages)]
  BY Zenon DEF TypeOK
<1>5. wire' = wire \/ \E x : wire' = [wire EXCEPT ![d] = x]
  BY <1>3, Zenon DEF Pop, Drop
<1> QED
  BY <1>1, <1>2, <1>3, <1>4, <1>5, Zenon

(* Every step keeps the order.                                             *)
LEMMA OrderStep == Connections /\ Unique /\ Numbers /\ Order /\ [Next]_vars => Order'
<1> SUFFICES ASSUME Connections, Unique, Numbers, Order, [Next]_vars PROVE Order'
  BY Zenon
<1>0. TypeOK /\ Owners /\ PoolClean /\ Links
  BY Zenon DEF Connections
<1>12. \A r, s \in Clients : /\ s # r /\ sock[s] # None => sock[s] # sock[r]
                            /\ pc[s] = "reply" => sock[s] # None /\ sock[s] \in Conns
  BY <1>0, ZenonT(60) DEF Owners, OneOwner, TypeOK
<1> USE DEF libVars, srvVars, pipeVars, callVars
<1>1. ASSUME NEW r \in Clients,
             InitPipeline(r) \/ DoCommand(r) \/ CommitPipeline(r) \/ Subscribe(r)
      PROVE  Order'
  <2>1. UNCHANGED <<executed, done, sock, wire>> /\ pc[r] = "idle"
    BY <1>1, Zenon DEF InitPipeline, DoCommand, CommitPipeline, Subscribe
  <2>2. pc'[r] # "reply" /\ \A s \in Clients : s # r => pc'[s] = pc[s] /\ batch'[s] = batch[s]
    <3>1. CASE DoCommand(r)
      BY <1>0, <3>1, Zenon DEF DoCommand, Begin, Goto, TypeOK
    <3>2. CASE InitPipeline(r) \/ CommitPipeline(r) \/ Subscribe(r)
      BY <1>0, <3>2, Zenon DEF InitPipeline, CommitPipeline, Subscribe, Begin, Goto, TypeOK
    <3> QED
      BY <1>1, <3>1, <3>2, Zenon
  <2>3. \A s \in Clients : Answered(s)' \subseteq Answered(s)
    BY <2>1, <2>2, AnsweredFrame, Zenon
  <2> QED
    BY <2>1, <2>3, OrderFrame, Zenon
<1>2. ASSUME NEW r \in Clients, Connect(r) \/ DoAuth(r) PROVE Order'
  <2>1. PICK c \in Conns : Connects(r, c)
    BY <1>2, Zenon DEF Connect, DoAuth
  <2>2. UNCHANGED <<executed, done, batch>>
    BY <1>2, Zenon DEF Connect, DoAuth
  <2>3. wire'[c] = << >> /\ sock'[r] = c
    BY <1>0, <2>1, ConnectsClean, ConnectsOwners DEF TypeOK
  <2>4. \A s \in Clients : s # r =>
          /\ pc'[s] = pc[s] /\ sock'[s] = sock[s]
          /\ pc[s] = "reply" => wire'[sock[s]] = wire[sock[s]]
    <3>1. \A s \in Clients : s # r => pc'[s] = pc[s]
      BY <1>0, <1>2, Zenon DEF Connect, DoAuth, Goto, TypeOK
    <3>2. \A s \in Clients : s # r => sock'[s] = sock[s] /\ sock[s] # c
      BY <1>0, <2>1, ConnectsOwners DEF TypeOK
    <3> QED
      BY <1>0, <1>12, <2>1, <3>1, <3>2, ConnectsClean
  <2>5. \A s \in Clients : Answered(s)' \subseteq Answered(s)
    BY <2>2, <2>3, <2>4, AnsweredFrame, Zenon
  <2> QED
    BY <2>2, <2>5, OrderFrame, Zenon
<1>3. ASSUME NEW r \in Clients, Drop(r), UNCHANGED <<executed, done, batch>> PROVE Order'
  <2>1. /\ pc'[r] # "reply"
        /\ \A s \in Clients : s # r =>
             /\ pc'[s] = pc[s] /\ sock'[s] = sock[s]
             /\ pc[s] = "reply" => wire'[sock[s]] = wire[sock[s]]
    BY <1>0, <1>3, WireElsewhere, ZenonT(60) DEF Drop, Goto, TypeOK
  <2>2. \A s \in Clients : Answered(s)' \subseteq Answered(s)
    BY <1>3, <2>1, AnsweredFrame, Zenon
  <2> QED
    BY <1>3, <2>2, OrderFrame, Zenon
<1>4. ASSUME NEW r \in Clients, AuthReply(r) PROVE Order'
  <2>1. PICK c \in Conns : c = sock[r] /\ Link(r, c)
    BY <1>0, <1>4, Zenon DEF AuthReply, Reads, TypeOK, Links
  <2>2. /\ wire[c] \in Seq(Messages) /\ wire[c] # << >> /\ wire'[c] = Tail(wire[c])
        /\ UNCHANGED <<executed, done, batch, sock>>
    BY <1>0, <1>4, <2>1, Zenon DEF AuthReply, Reads, Pop, TypeOK
  <2>3. Len(wire[c]) = 1
    BY <1>4, <2>1, <2>2, Zenon DEF AuthReply, Link, AuthLink
  <2>4. wire'[c] = << >>
    <3>1. Tail(wire[c]) \in Seq(Messages) /\ Len(Tail(wire[c])) = Len(wire[c]) - 1
      BY <2>2, HeadTailProperties, Zenon
    <3>2. Len(Tail(wire[c])) = 0
      BY <2>3, <3>1
    <3>3. Tail(wire[c]) = << >>
      BY <3>1, <3>2, EmptySeq, Zenon
    <3> QED
      BY <2>2, <3>3, Zenon
  <2>5. \A s \in Clients : s # r =>
          pc'[s] = pc[s] /\ (pc[s] = "reply" => wire'[sock[s]] = wire[sock[s]])
    BY <1>0, <1>4, WireElsewhere, Zenon DEF AuthReply, Goto, TypeOK
  <2>6. \A s \in Clients : Answered(s)' \subseteq Answered(s)
    BY <2>1, <2>2, <2>4, <2>5, AnsweredFrame, Zenon
  <2> QED
    BY <2>2, <2>6, OrderFrame, Zenon
<1>5. ASSUME NEW r \in Clients, Reply(r) PROVE Order'
  <2>1. UNCHANGED <<executed, sock>>
    BY <1>5, Zenon DEF Reply
  <2>2. \A s \in Clients : s # r =>
          /\ pc'[s] = pc[s] /\ batch'[s] = batch[s] /\ done'[s] = done[s]
          /\ pc[s] = "reply" => wire'[sock[s]] = wire[sock[s]]
    BY <1>0, <1>5, WireElsewhere, Zenon DEF Reply, Goto, TypeOK
  <2>3. \A s \in Clients : Answered(s)' \subseteq Answered(s)
    BY <1>0, <1>5, <2>1, <2>2, AnsweredFrame, AnsweredReply, Zenon
  <2> QED
    BY <2>1, <2>3, OrderFrame, Zenon
<1>6. ASSUME NEW r \in Clients, SubscribeReply(r) \/ ReadReply(r) \/ UnsubscribeReply(r)
      PROVE  Order'
  <2>1. UNCHANGED <<executed, done, batch, sock>>
    BY <1>6, Zenon DEF SubscribeReply, ReadReply, UnsubscribeReply
  <2>2. pc'[r] # "reply" /\ \A s \in Clients : s # r => pc'[s] = pc[s]
    BY <1>0, <1>6, Zenon DEF SubscribeReply, ReadReply, UnsubscribeReply, Goto, TypeOK
  <2>3. \A s \in Clients : s # r /\ pc[s] = "reply" => wire'[sock[s]] = wire[sock[s]]
    <3>1. CASE Pop(r)
      BY <1>0, <3>1, WireElsewhere, Zenon
    <3> QED
      BY <1>6, <3>1, Zenon DEF SubscribeReply, ReadReply, UnsubscribeReply
  <2>4. \A s \in Clients : Answered(s)' \subseteq Answered(s)
    BY <2>1, <2>2, <2>3, AnsweredFrame, Zenon
  <2> QED
    BY <2>1, <2>4, OrderFrame, Zenon
<1>7. ASSUME NEW r \in Clients, SetKeepalive(r) PROVE Order'
  <2>1. UNCHANGED <<executed, done, batch>>
    BY <1>7, Zenon DEF SetKeepalive
  <2>2. CASE ~ Drop(r)
    <3>1. sock' = [sock EXCEPT ![r] = None] /\ Goto(r, "idle") /\ wire' = wire
      BY <1>7, <2>2, Zenon DEF SetKeepalive
    <3>2. /\ pc'[r] # "reply"
          /\ \A s \in Clients : s # r => pc'[s] = pc[s] /\ sock'[s] = sock[s]
      BY <1>0, <3>1, Zenon DEF Goto, TypeOK
    <3>3. \A s \in Clients : Answered(s)' \subseteq Answered(s)
      BY <2>1, <3>1, <3>2, AnsweredFrame, Zenon
    <3> QED
      BY <2>1, <3>3, OrderFrame, Zenon
  <2> QED
    BY <1>3, <2>1, <2>2, Zenon
<1>8. ASSUME NEW c \in Conns, IdleTimeout(c) \/ Push(c) PROVE Order'
  <2>1. UNCHANGED <<executed, done, batch, sock, pc>>
    BY <1>8, Zenon DEF IdleTimeout, Push
  <2>2. \A s \in Clients : pc[s] = "reply" => wire'[sock[s]] = wire[sock[s]]
    <3> SUFFICES ASSUME NEW s \in Clients, pc[s] = "reply" PROVE wire'[sock[s]] = wire[sock[s]]
      BY Zenon
    <3>1. sock[s] \in Conns /\ ~ srv_sub[sock[s]]
      BY <1>0, <1>12, Zenon DEF Links, Link, ReplyLink
    <3> QED
      BY <1>0, <1>8, <3>1 DEF IdleTimeout, Push, TypeOK
  <2>3. \A s \in Clients : Answered(s)' \subseteq Answered(s)
    BY <2>1, <2>2, AnsweredFrame, Zenon
  <2> QED
    BY <2>1, <2>3, OrderFrame, Zenon
<1>9. ASSUME NEW c \in Conns, ServerExec(c) PROVE Order'
  BY <1>9, OrderExec, Zenon
<1>10. ASSUME NEW r \in Clients, Fail(r) PROVE Order'
  BY <1>3, <1>10, Zenon DEF Fail, DropOnError
<1>11. CASE UNCHANGED vars
  <2>1. \A s \in Clients : Answered(s)' \subseteq Answered(s)
    BY <1>11, AnsweredFrame, Zenon DEF vars
  <2> QED
    BY <1>11, <2>1, OrderFrame, Zenon DEF vars
<1> QED
  BY <1>1, <1>2, <1>4, <1>5, <1>6, <1>7, <1>8, <1>9, <1>10, <1>11, Zenon DEF Next, ClientStep

-----------------------------------------------------------------------------
(* The results.                                                            *)

(* The initial state satisfies the inductive invariant.                    *)
LEMMA InitInd == Init => IndInv
<1> SUFFICES ASSUME Init PROVE IndInv
  BY Zenon
<1>1. TypeOK
  BY RedisClientAssumption DEF Init, TypeOK, Labels
<1>2. Owners /\ PoolClean /\ Links
  BY Zenon DEF Init, Owners, OneOwner, PoolClean, Links
<1>3. Unique /\ \A r, n : ~ Sent(r, n)
  BY DEF Init, Unique, Data, Sent, Executed, Queued
<1>4. Numbers
  BY <1>3 DEF Init, Numbers, NumbersOf, New, Ascending, Unsent
<1>5. Order
  BY DEF Init, Order, Answered
<1> QED
  BY <1>1, <1>2, <1>3, <1>4, <1>5, Zenon DEF IndInv, Connections

(* Every step keeps the inductive invariant.                               *)
LEMMA NextInd == IndInv /\ [Next]_vars => IndInv'
  BY Zenon, TypeStep, OwnersStep, LinksStep, CleanStep, UniqueStep, NumbersStep, OrderStep
     DEF IndInv, Connections

(* The inductive invariant holds in every state of every behaviour.        *)
LEMMA AlwaysInd == Spec => []IndInv
  BY InitInd, NextInd, PTL DEF Spec

(***************************************************************************)
(* No request ever reads the reply to a command of another one, nor a      *)
(* reply out of turn (do_command() and commit_pipeline() of redis.lua).    *)
(***************************************************************************)
THEOREM RepliesCorrect == Spec => []OwnReply
<1>1. IndInv => OwnReply
  <2> SUFFICES ASSUME IndInv, NEW r \in Clients, pc[r] = "reply", Reads(r)
               PROVE  LET m == Head(wire[sock[r]]) IN
                      m.cmd = "data" /\ m.from = r /\ m.n = Head(batch[r])
    BY Zenon DEF OwnReply
  <2>1. /\ sock[r] \in Conns /\ wire[sock[r]] \in Seq(Messages) /\ wire[sock[r]] # << >>
        /\ batch[r] \in Seq(1..MaxCmds)
    BY Zenon DEF IndInv, Connections, TypeOK, Reads
  <2>2. ReplyLink(r, sock[r])
    BY Zenon DEF IndInv, Connections, Links, Link, Reads
  <2>3. 1 \in 1..Len(wire[sock[r]]) /\ Head(wire[sock[r]]) = wire[sock[r]][1]
    BY <2>1
  <2>4. batch[r] # << >> /\ wire[sock[r]][1] = Command(r, batch[r][1])
    BY <2>2, <2>3, Zenon DEF ReplyLink
  <2>5. Head(batch[r]) = batch[r][1]
    BY <2>1, <2>4
  <2> QED
    BY <2>3, <2>4, <2>5 DEF Command
<1> QED
  BY <1>1, AlwaysInd, PTL

(***************************************************************************)
(* A command takes effect at most once, a command reported successful has  *)
(* taken effect, and those of a request took effect in their order: the    *)
(* client never resends, and numbers that are out are never reused.        *)
(***************************************************************************)
THEOREM CommandsCorrect == Spec => []AtMostOnceInOrder
<1>1. IndInv => AtMostOnceInOrder
  <2> SUFFICES ASSUME IndInv PROVE AtMostOnceInOrder
    BY Zenon
  <2>1. \A r \in Clients : done[r] \subseteq Answered(r)
    BY Zenon DEF Answered
  <2>2. \A r \in Clients : \A n \in done[r] : Executed(r, n)
    BY <2>1, Zenon DEF IndInv, Order
  <2>3. ASSUME NEW i \in DOMAIN executed, NEW j \in DOMAIN executed,
               executed[i].from = executed[j].from
        PROVE  /\ executed[i].n = executed[j].n => i = j
               /\ /\ i < j
                  /\ {executed[i].n, executed[j].n} \subseteq done[executed[i].from]
                  => executed[i].n < executed[j].n
    <3>1. executed[i].from \in Clients
      BY Zenon DEF IndInv, Unique
    <3> QED
      BY <2>1, <2>3, <3>1, Zenon DEF IndInv, Unique, Order
  <2> QED
    BY <2>2, <2>3, Zenon DEF AtMostOnceInOrder, Executed
<1> QED
  BY <1>1, AlwaysInd, PTL

(***************************************************************************)
(* Every variable keeps its type.                                          *)
(***************************************************************************)
THEOREM TypeCorrect == Spec => []TypeOK
<1>1. IndInv => TypeOK
  BY Zenon DEF IndInv, Connections
<1> QED
  BY <1>1, AlwaysInd, PTL

-----------------------------------------------------------------------------
INSTANCE FiniteSetTheorems

(* The size of the pool.                                                   *)

(* The pool is finite, and stays within its size when it shrinks.          *)
LEMMA PoolShrinks ==
    ASSUME TypeOK, PoolBounded, NEW P \in SUBSET pool
    PROVE  IsFiniteSet(P) /\ Cardinality(P) \in Nat /\ Cardinality(P) <= PoolSize
<1>1. IsFiniteSet(pool)
  BY FS_Subset, RedisClientAssumption, Zenon DEF TypeOK
<1>2. IsFiniteSet(P) /\ Cardinality(P) <= Cardinality(pool)
  BY <1>1, FS_Subset, Zenon
<1>3. Cardinality(P) \in Nat /\ Cardinality(pool) \in Nat
  BY <1>1, <1>2, FS_CardinalityType, Zenon
<1> QED
  BY <1>2, <1>3, RedisClientAssumption DEF PoolBounded

(* Putting a connection back keeps the size: as many idle connections are  *)
(* closed first as the pool has no room for.                               *)
LEMMA PoolGrows ==
    ASSUME TypeOK, PoolBounded, NEW r \in Clients, NEW out \in SUBSET pool,
           Cardinality(out) = Evicted, pool' = (pool \ out) \cup {sock[r]}
    PROVE  PoolBounded'
<1>1. /\ IsFiniteSet(pool) /\ Cardinality(pool) \in Nat /\ Cardinality(pool) <= PoolSize
      /\ IsFiniteSet(pool \ out) /\ Cardinality(pool \ out) \in Nat
  BY PoolShrinks, Zenon
<1>2. Cardinality(pool \ out) = Cardinality(pool) - Cardinality(out)
  <2>1. IsFiniteSet(out) /\ pool \cap out = out
    BY <1>1, FS_Subset, Zenon
  <2> QED
    BY <1>1, <2>1, FS_Difference, Zenon
<1>3. Cardinality(pool') <= Cardinality(pool \ out) + 1
  <2>1. Cardinality((pool \ out) \cup {sock[r]}) =
          IF sock[r] \in pool \ out THEN Cardinality(pool \ out) ELSE Cardinality(pool \ out) + 1
    BY <1>1, FS_AddElement, Zenon
  <2> QED
    BY <1>1, <2>1
<1>4. Cardinality(pool') \in Nat
  BY <1>1, FS_AddElement, FS_CardinalityType, Zenon
<1> QED
  BY <1>1, <1>2, <1>3, <1>4, RedisClientAssumption DEF Evicted, PoolBounded

(* Every step keeps the size of the pool.                                  *)
LEMMA BoundedStep == TypeOK /\ PoolBounded /\ [Next]_vars => PoolBounded'
<1> SUFFICES ASSUME TypeOK, PoolBounded, [Next]_vars PROVE PoolBounded'
  BY Zenon
<1> USE DEF libVars
<1>1. CASE pool' \subseteq pool
  BY <1>1, PoolShrinks, Zenon DEF PoolBounded
<1>2. ASSUME NEW r \in Clients, Drop(r) PROVE pool' \subseteq pool
  BY <1>2, Zenon DEF Drop
<1>3. ASSUME NEW r \in Clients, SetKeepalive(r) PROVE PoolBounded'
  <2>1. CASE Drop(r)
    BY <1>1, <1>2, <2>1, Zenon
  <2>2. CASE ~ Drop(r)
    <3>1. PICK out \in SUBSET pool :
            Cardinality(out) = Evicted /\ pool' = (pool \ out) \cup {sock[r]}
      BY <1>3, <2>2, Zenon DEF SetKeepalive
    <3> QED
      BY <3>1, PoolGrows, Zenon
  <2> QED
    BY <2>1, <2>2, Zenon
<1>4. ASSUME NEW r \in Clients, Connect(r) \/ DoAuth(r) PROVE pool' \subseteq pool
  BY <1>4, ZenonT(60) DEF Connect, DoAuth, Connects
<1>5. ASSUME NEW r \in Clients, Fail(r) PROVE pool' \subseteq pool
  BY <1>2, <1>5, Zenon DEF Fail, DropOnError
<1>6. ASSUME NEW r \in Clients,
             InitPipeline(r) \/ DoCommand(r) \/ CommitPipeline(r) \/ Subscribe(r)
      PROVE  pool' \subseteq pool
  BY <1>6, Zenon DEF InitPipeline, DoCommand, CommitPipeline, Subscribe
<1>7. ASSUME NEW r \in Clients, AuthReply(r) \/ Reply(r) \/ SubscribeReply(r) \/ ReadReply(r)
                                \/ UnsubscribeReply(r)
      PROVE  pool' \subseteq pool
  BY <1>2, <1>7 DEF AuthReply, Reply, SubscribeReply, ReadReply, UnsubscribeReply
<1>8. ASSUME NEW c \in Conns, IdleTimeout(c) \/ ServerExec(c) \/ Push(c)
      PROVE  pool' \subseteq pool
  BY <1>8, Zenon DEF IdleTimeout, ServerExec, Push
<1>9. CASE UNCHANGED vars
  BY <1>1, <1>9, Zenon DEF vars
<1> QED
  BY <1>1, <1>3, <1>4, <1>5, <1>6, <1>7, <1>8, <1>9 DEF Next, ClientStep

(***************************************************************************)
(* However many requests share the pool, and whatever the order of their   *)
(* steps, failures and timeouts: a connection has one owner, the pool      *)
(* keeps its size, and a connection in it is authenticated, unsubscribed   *)
(* and silent (set_keepalive_mod() and do_auth() of redis.lua).            *)
(***************************************************************************)
THEOREM PoolCorrect == Spec => []PoolSound
<1>1. Init => PoolBounded
  BY FS_EmptySet, RedisClientAssumption DEF Init, PoolBounded
<1>2. IndInv => TypeOK
  BY Zenon DEF IndInv, Connections
<1>3. IndInv /\ PoolBounded => PoolSound
  BY Zenon DEF IndInv, Connections, Owners, PoolSound
<1>4. Spec => []PoolBounded
  BY <1>1, <1>2, AlwaysInd, BoundedStep, PTL DEF Spec
<1> QED
  BY <1>3, <1>4, AlwaysInd, PTL

=============================================================================
