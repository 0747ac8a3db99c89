-------------------------- MODULE RedisClientTypes --------------------------
(***************************************************************************)
(* What holds of the Redis client for any number of requests, connections  *)
(* and commands and for any size of the pool, first part: the types, who   *)
(* has a connection, and what a step does to one connection.  The          *)
(* inductive invariant rests on Link: where a request stands determines    *)
(* what is on its connection, in either direction; and on Numbers: a       *)
(* command that has not been sent yet has a higher number than every       *)
(* command of its request that has.                                        *)
(***************************************************************************)
EXTENDS RedisClient, TLAPS

-----------------------------------------------------------------------------
(* Sequences.                                                              *)

(* A queue is empty when its length is zero.                               *)
LEMMA EmptySeq ==
    ASSUME NEW S, NEW q \in Seq(S)
    PROVE  q = << >> <=> Len(q) = 0
  OBVIOUS

(* The places of a queue are numbered from one to its length.              *)
LEMMA LenProperties ==
    ASSUME NEW S, NEW q \in Seq(S)
    PROVE  Len(q) \in Nat /\ DOMAIN q = 1..Len(q)
  OBVIOUS

(* What is in a queue of messages or numbers is one of them.               *)
LEMMA ElementOfSeq ==
    ASSUME NEW S, NEW q \in Seq(S), NEW i \in 1..Len(q)
    PROVE  q[i] \in S
  OBVIOUS

(* Taking the first of a queue moves the others up by one.                 *)
LEMMA HeadTailProperties ==
    ASSUME NEW S, NEW q \in Seq(S), q # << >>
    PROVE  /\ Head(q) \in S /\ Tail(q) \in Seq(S) /\ Len(Tail(q)) = Len(q) - 1
           /\ \A i \in 1..Len(Tail(q)) : Tail(q)[i] = q[i + 1]
  OBVIOUS

(* Appending to a queue leaves what is in it where it is.                  *)
LEMMA AppendProperties ==
    ASSUME NEW S, NEW q \in Seq(S), NEW e \in S
    PROVE  /\ Append(q, e) \in Seq(S) /\ Append(q, e) # << >>
           /\ Len(Append(q, e)) = Len(q) + 1
           /\ \A i \in 1..Len(q) : Append(q, e)[i] = q[i]
           /\ Append(q, e)[Len(q) + 1] = e
  OBVIOUS

(* Joining a queue with an empty one changes nothing.                      *)
LEMMA ConcatEmptySeq ==
    ASSUME NEW S, NEW q \in Seq(S)
    PROVE  << >> \o q = q /\ q \o << >> = q
  OBVIOUS

-----------------------------------------------------------------------------
(* The inductive invariant.                                                *)

Command(r, n) == [cmd |-> "data", from |-> r, n |-> n]

Ascending(s) == \A i, j \in DOMAIN s : i < j => s[i] < s[j]

(* A request has a connection from connect_mod() on, until it lets go.     *)
Owners == OneOwner /\ \A r \in Clients : sock[r] = None <=> pc[r] \in {"idle", "connect"}

(* AUTH is on its way to the server, or answered.                          *)
AuthLink(c) ==
    /\ ~ srv_sub[c]
    /\ \/ wire[c] = << >> /\ Len(inbox[c]) = 1 /\ inbox[c][1].cmd = "auth"
       \/ Len(wire[c]) = 1 /\ inbox[c] = << >> /\ authed[c]

(* The replies still to be read are those to the commands of the batch.    *)
ReplyLink(r, c) ==
    /\ ~ srv_sub[c]
    /\ batch[r] # << >>
    /\ Len(wire[c]) + Len(inbox[c]) = Len(batch[r])
    /\ \A i \in 1..Len(wire[c]) : wire[c][i] = Command(r, batch[r][i])
    /\ \A i \in 1..Len(inbox[c]) : inbox[c][i] = Command(r, batch[r][Len(wire[c]) + i])

SubscribeLink(c) ==
    \/ ~ srv_sub[c] /\ wire[c] = << >> /\ Len(inbox[c]) = 1 /\ inbox[c][1].cmd = "subscribe"
    \/ /\ inbox[c] = << >> /\ wire[c] # << >>
       /\ \A i \in 2..Len(wire[c]) : wire[c][i].cmd = "message"

MessageLink(c) ==
    /\ cli_sub[c] /\ inbox[c] = << >>
    /\ \A i \in 1..Len(wire[c]) : wire[c][i].cmd = "message"

(* Messages may come before the reply to UNSUBSCRIBE, none after it.       *)
UnsubscribeLink(c) ==
    /\ cli_sub[c]
    /\ \/ /\ Len(inbox[c]) = 1 /\ inbox[c][1].cmd = "unsubscribe"
          /\ \A i \in 1..Len(wire[c]) : wire[c][i].cmd = "message"
       \/ /\ inbox[c] = << >> /\ ~ srv_sub[c] /\ wire[c] # << >>
          /\ \A i \in 1..Len(wire[c]) :
               wire[c][i].cmd = IF i = Len(wire[c]) THEN "unsubscribe" ELSE "message"

Clean(c) == ~ srv_sub[c] /\ inbox[c] = << >> /\ wire[c] = << >>

Link(r, c) ==
    /\ pc[r] \notin {"do_auth", "auth_reply"} => authed[c]
    /\ pc[r] = "auth_reply" => AuthLink(c)
    /\ pc[r] = "reply" => ReplyLink(r, c)
    /\ pc[r] = "sub_reply" => SubscribeLink(c)
    /\ pc[r] = "read_reply" => MessageLink(c)
    /\ pc[r] = "unsub_reply" => UnsubscribeLink(c)
    /\ pc[r] = "keepalive" => cli_sub[c] \/ Clean(c)

Links == \A r \in Clients : sock[r] # None => Link(r, sock[r])

Executed(r, n) == \E i \in DOMAIN executed : executed[i].from = r /\ executed[i].n = n

Queued(r, n) == \E c \in Conns : \E i \in DOMAIN inbox[c] : inbox[c][i] = Command(r, n)

Sent(r, n) == Executed(r, n) \/ Queued(r, n)

Data(c, i) == i \in DOMAIN inbox[c] /\ inbox[c][i].cmd = "data"

(* A command is in one place: executed once, or waiting once; and only a   *)
(* request sends commands.                                                 *)
Unique ==
    /\ \A i \in DOMAIN executed : executed[i].from \in Clients
    /\ \A i, j \in DOMAIN executed :
         executed[i].from = executed[j].from /\ executed[i].n = executed[j].n => i = j
    /\ \A c \in Conns : \A i \in DOMAIN inbox[c] : Data(c, i) =>
         /\ inbox[c][i].from \in Clients
         /\ \A j \in DOMAIN executed :
              ~ (executed[j].from = inbox[c][i].from /\ executed[j].n = inbox[c][i].n)
    /\ \A c, d \in Conns : \A i \in DOMAIN inbox[c], j \in DOMAIN inbox[d] :
         Data(c, i) /\ inbox[c][i] = inbox[d][j] => c = d /\ i = j

Unsent == {"connect", "do_auth", "auth_reply"}

(* The numbers of the commands of s are new: above all that were sent.     *)
New(r, s) ==
    /\ Ascending(s)
    /\ \A i \in DOMAIN s : s[i] <= issued[r] /\ \A n \in 1..MaxCmds : Sent(r, n) => n < s[i]

NumbersOf(r) ==
    /\ \A n \in 1..MaxCmds : Sent(r, n) => n <= issued[r]
    /\ New(r, reqs[r])
    /\ ~ pipelining[r] => reqs[r] = << >>
    /\ pc[r] \in Unsent /\ op[r] # "subscribe" =>
         ~ pipelining[r] /\ batch[r] # << >> /\ New(r, batch[r])
    /\ pc[r] = "reply" =>
         Ascending(batch[r]) /\ \A i \in DOMAIN batch[r] : \A n \in done[r] : n < batch[r][i]

Numbers == \A r \in Clients : NumbersOf(r)

(* The commands answered, the replies that are still to be read included.  *)
Answered(r) ==
    done[r] \cup
    IF pc[r] = "reply" THEN {batch[r][i] : i \in DOMAIN wire[sock[r]]} ELSE {}

Order ==
    /\ \A r \in Clients : \A n \in Answered(r) : Executed(r, n)
    /\ \A i, j \in DOMAIN executed :
         /\ executed[i].from = executed[j].from /\ i < j
         /\ {executed[i].n, executed[j].n} \subseteq Answered(executed[i].from)
         => executed[i].n < executed[j].n

Connections == TypeOK /\ Owners /\ PoolClean /\ Links

IndInv == Connections /\ Unique /\ Numbers /\ Order

-----------------------------------------------------------------------------
(* Types.                                                                  *)

(* What a request sends is a sequence of messages.                         *)
LEMMA OutgoingType ==
    ASSUME TypeOK, NEW r \in Clients
    PROVE  Outgoing(r) \in Seq(Messages)
<1>1. CASE op[r] = "subscribe"
  <2>1. [cmd |-> "subscribe", from |-> r, n |-> 0] \in Messages
    BY RedisClientAssumption DEF Messages
  <2> QED
    BY <1>1, <2>1 DEF Outgoing
<1>2. CASE op[r] # "subscribe"
  <2>1. batch[r] \in Seq(1..MaxCmds)
    BY Zenon DEF TypeOK
  <2>2. \A i \in 1..Len(batch[r]) : [cmd |-> "data", from |-> r, n |-> batch[r][i]] \in Messages
    BY <2>1, RedisClientAssumption DEF Messages
  <2>3. DOMAIN batch[r] = 1..Len(batch[r]) /\ Len(batch[r]) \in Nat
    BY <2>1
  <2> QED
    BY <1>2, <2>2, <2>3 DEF Outgoing
<1> QED
  BY <1>1, <1>2, Zenon

(* Taking a connection keeps the types of what it changes.                 *)
LEMMA ConnectsType ==
    ASSUME TypeOK, Owners, NEW r \in Clients, NEW c \in Conns, Connects(r, c)
    PROVE  /\ pool' \subseteq open' /\ open' \subseteq Conns
           /\ reused' \in [Conns -> BOOLEAN] /\ cli_sub' \in [Conns -> BOOLEAN]
           /\ authed' \in [Conns -> BOOLEAN] /\ srv_sub' \in [Conns -> BOOLEAN]
           /\ wire' \in [Conns -> Seq(Messages)]
           /\ sock' \in [Clients -> open' \cup {None}]
<1> USE DEF TypeOK, Connects
<1>1. pool' \subseteq open' /\ open' \subseteq Conns
  <2>1. sock[r] \notin pool
    BY RedisClientAssumption, Zenon DEF Owners, OneOwner
  <2> QED
    BY <2>1, Zenon
<1>2. reused' \in [Conns -> BOOLEAN] /\ cli_sub' \in [Conns -> BOOLEAN]
  <2>1. (c \in pool) \in BOOLEAN
    OBVIOUS
  <2>2. PICK b \in BOOLEAN : reused' = [reused EXCEPT ![c] = b]
    BY <2>1, Zenon
  <2> QED
    BY <2>2
<1>3. authed' \in [Conns -> BOOLEAN] /\ srv_sub' \in [Conns -> BOOLEAN]
  <2>1. (c \in pool /\ authed[c]) \in BOOLEAN /\ (c \in pool /\ srv_sub[c]) \in BOOLEAN
    BY Zenon
  <2>2. PICK a \in BOOLEAN : authed' = [authed EXCEPT ![c] = a]
    BY <2>1, Zenon
  <2>3. PICK b \in BOOLEAN : srv_sub' = [srv_sub EXCEPT ![c] = b]
    BY <2>1, Zenon
  <2> QED
    BY <2>2, <2>3
<1>4. wire' \in [Conns -> Seq(Messages)]
  BY Zenon
<1>5. sock' \in [Clients -> open' \cup {None}]
  <2>1. \A s \in Clients : s # r => sock[s] \in (open \ {sock[r]}) \cup {None}
    BY Zenon DEF Owners, OneOwner
  <2> QED
    BY <2>1, Zenon
<1> QED
  BY <1>1, <1>2, <1>3, <1>4, <1>5, Zenon
(* Letting go of the connection keeps the types of what it changes.        *)
LEMMA DropType ==
    ASSUME TypeOK, Owners, NEW r \in Clients, Drop(r)
    PROVE  /\ pool' \subseteq open' /\ open' \subseteq Conns
           /\ wire' \in [Conns -> Seq(Messages)]
           /\ sock' \in [Clients -> open' \cup {None}]
<1> USE DEF TypeOK, Drop
<1>1. sock[r] \notin pool
  BY RedisClientAssumption, Zenon DEF Owners, OneOwner
<1>2. \A s \in Clients : s # r => sock[s] \in (open \ {sock[r]}) \cup {None}
  BY Zenon DEF Owners, OneOwner
<1>3. wire' \in [Conns -> Seq(Messages)]
  OBVIOUS
<1> QED
  BY <1>1, <1>2, <1>3, Zenon

(* Reading a reply keeps the type of the wire.                             *)
LEMMA PopType ==
    ASSUME TypeOK, NEW r \in Clients, Reads(r), Pop(r)
    PROVE  /\ sock[r] \in Conns
           /\ wire' \in [Conns -> Seq(Messages)]
           /\ Head(wire[sock[r]]) \in Messages
<1>1. sock[r] \in Conns
  BY Zenon DEF TypeOK, Reads
<1>2. wire[sock[r]] \in Seq(Messages) /\ wire[sock[r]] # << >>
  BY <1>1, Zenon DEF TypeOK, Reads
<1> QED
  BY <1>1, <1>2 DEF Pop, TypeOK

(* Every step keeps the types.                                             *)
LEMMA TypeStep == TypeOK /\ Owners /\ Links /\ [Next]_vars => TypeOK'
<1> SUFFICES ASSUME TypeOK, Owners, Links, [Next]_vars PROVE TypeOK'
  BY Zenon
<1> USE RedisClientAssumption DEF libVars, srvVars, pipeVars, callVars, Labels
<1>1. ASSUME NEW r \in Clients, InitPipeline(r) PROVE TypeOK'
  BY <1>1 DEF InitPipeline, TypeOK
<1>2. ASSUME NEW r \in Clients, DoCommand(r) PROVE TypeOK'
  <2>1. issued[r] + 1 \in 1..MaxCmds
    BY <1>2 DEF DoCommand, TypeOK
  <2>2. issued' \in [Clients -> 0..MaxCmds]
    BY <1>2, <2>1 DEF DoCommand, TypeOK
  <2>3. reqs' \in [Clients -> Seq(1..MaxCmds)]
    <3>1. reqs' = reqs \/ reqs' = [reqs EXCEPT ![r] = Append(reqs[r], issued[r] + 1)]
      BY <1>2, Zenon DEF DoCommand
    <3>2. Append(reqs[r], issued[r] + 1) \in Seq(1..MaxCmds)
      BY <2>1 DEF TypeOK
    <3> QED
      BY <3>1, <3>2, ZenonT(60) DEF TypeOK
  <2>4. UNCHANGED <<pc, op, batch>> \/ Begin(r, "command", <<issued[r] + 1>>)
    BY <1>2, Zenon DEF DoCommand
  <2>5. <<issued[r] + 1>> \in Seq(1..MaxCmds)
    BY <2>1
  <2>6. /\ op' \in [Clients -> {"command", "pipeline", "subscribe"}]
        /\ batch' \in [Clients -> Seq(1..MaxCmds)]
        /\ pc' \in [Clients -> Labels]
    <3>1. CASE UNCHANGED <<pc, op, batch>>
      BY <3>1, Zenon DEF TypeOK
    <3>2. CASE Begin(r, "command", <<issued[r] + 1>>)
      BY <3>2, <2>5, Zenon DEF Begin, Goto, TypeOK
    <3> QED
      BY <2>4, <3>1, <3>2, Zenon
  <2>7. UNCHANGED <<pool, open, reused, cli_sub, inbox, wire, authed, srv_sub, executed,
                    pipelining, sock, done>>
    BY <1>2, Zenon DEF DoCommand
  <2> QED
    BY <2>2, <2>3, <2>6, <2>7, Zenon DEF TypeOK
<1>3. ASSUME NEW r \in Clients, CommitPipeline(r) PROVE TypeOK'
  BY <1>3 DEF CommitPipeline, EndPipeline, Begin, Goto, TypeOK
<1>4. ASSUME NEW r \in Clients, Subscribe(r) PROVE TypeOK'
  BY <1>4 DEF Subscribe, Begin, Goto, TypeOK
<1>5. ASSUME NEW r \in Clients, Connect(r) PROVE TypeOK'
  <2>1. PICK c \in Conns : Connects(r, c)
    BY <1>5, Zenon DEF Connect
  <2> QED
    BY <1>5, <2>1, ConnectsType, Zenon DEF Connect, Goto, TypeOK
<1>6. ASSUME NEW r \in Clients, DoAuth(r) PROVE TypeOK'
  <2>1. PICK c \in Conns :
          /\ Connects(r, c)
          /\ inbox' = [inbox EXCEPT ![c] = @ \o
                         IF NeedsAuth(c) THEN <<[cmd |-> "auth", from |-> r, n |-> 0]>>
                         ELSE Outgoing(r)]
          /\ Goto(r, IF NeedsAuth(c) THEN "auth_reply" ELSE Waiting(r))
    BY <1>6, Zenon DEF DoAuth
  <2>2. <<[cmd |-> "auth", from |-> r, n |-> 0]>> \in Seq(Messages)
    BY DEF Messages
  <2>3. inbox' \in [Conns -> Seq(Messages)]
    BY <2>1, <2>2, OutgoingType DEF TypeOK
  <2>4. pc' \in [Clients -> Labels]
    BY <2>1, Zenon DEF Goto, Waiting, TypeOK
  <2> QED
    BY <1>6, <2>1, <2>3, <2>4, ConnectsType, ZenonT(60) DEF DoAuth, TypeOK
<1>7. ASSUME NEW r \in Clients, Fail(r) PROVE TypeOK'
  <2>1. Drop(r)
    BY <1>7, Zenon DEF Fail, DropOnError
  <2> QED
    BY <1>7, <2>1, DropType, Zenon DEF Fail, Drop, Goto, TypeOK
<1>8. ASSUME NEW r \in Clients, AuthReply(r) PROVE TypeOK'
  <2>1. wire' \in [Conns -> Seq(Messages)] /\ sock[r] \in Conns
    BY <1>8, PopType, Zenon DEF AuthReply
  <2>2. inbox' \in [Conns -> Seq(Messages)]
    BY <1>8, <2>1, OutgoingType DEF AuthReply, TypeOK
  <2>3. Waiting(r) \in {"reply", "sub_reply"}
    BY Zenon DEF Waiting
  <2> QED
    BY <1>8, <2>1, <2>2, <2>3, Zenon DEF AuthReply, Goto, TypeOK
<1>9. ASSUME NEW r \in Clients, Reply(r) PROVE TypeOK'
  <2>1. wire' \in [Conns -> Seq(Messages)]
    BY <1>9, PopType, Zenon DEF Reply
  <2>2. batch[r] \in Seq(1..MaxCmds) /\ batch[r] # << >>
    BY <1>9, Zenon DEF Reply, Reads, Links, Link, ReplyLink, TypeOK
  <2>3. /\ done' \in [Clients -> SUBSET (1..MaxCmds)]
        /\ batch' \in [Clients -> Seq(1..MaxCmds)]
    BY <1>9, <2>2 DEF Reply, TypeOK
  <2>4. UNCHANGED pc \/ Goto(r, "keepalive")
    BY <1>9, Zenon DEF Reply
  <2> QED
    BY <1>9, <2>1, <2>3, <2>4, Zenon DEF Reply, Goto, TypeOK
<1>10. ASSUME NEW r \in Clients, SubscribeReply(r) PROVE TypeOK'
  <2>1. wire' \in [Conns -> Seq(Messages)] /\ sock[r] \in Conns
    BY <1>10, PopType, Zenon DEF SubscribeReply
  <2>2. cli_sub' \in [Conns -> BOOLEAN] /\ pc' \in [Clients -> Labels]
    BY <1>10, <2>1, Zenon DEF SubscribeReply, Goto, TypeOK
  <2> QED
    BY <1>10, <2>1, <2>2 DEF SubscribeReply, TypeOK
<1>11. ASSUME NEW r \in Clients, ReadReply(r) PROVE TypeOK'
  <2>1. wire' \in [Conns -> Seq(Messages)] /\ sock[r] \in Conns
    BY <1>11, PopType, Zenon DEF ReadReply
  <2>2. [cmd |-> "unsubscribe", from |-> r, n |-> 0] \in Messages
    BY DEF Messages
  <2>3. inbox' \in [Conns -> Seq(Messages)]
    BY <1>11, <2>1, <2>2 DEF ReadReply, TypeOK
  <2> QED
    BY <1>11, <2>1, <2>3, Zenon DEF ReadReply, Goto, TypeOK
<1>12. ASSUME NEW r \in Clients, UnsubscribeReply(r) PROVE TypeOK'
  <2>1. /\ wire' \in [Conns -> Seq(Messages)]
        /\ cli_sub' \in [Conns -> BOOLEAN]
    <3>1. CASE UNCHANGED <<wire, cli_sub>>
      BY <3>1, Zenon DEF TypeOK
    <3>2. CASE /\ Reads(r) /\ Pop(r)
               /\ cli_sub' = [cli_sub EXCEPT ![sock[r]] = ~ Unsubscribed(Head(wire[sock[r]]))]
      <4>1. (~ Unsubscribed(Head(wire[sock[r]]))) \in BOOLEAN
        BY Zenon
      <4>2. PICK b \in BOOLEAN : cli_sub' = [cli_sub EXCEPT ![sock[r]] = b]
        BY <3>2, <4>1, Zenon
      <4> QED
        BY <3>2, <4>2, PopType DEF TypeOK
    <3> QED
      BY <1>12, <3>1, <3>2, Zenon DEF UnsubscribeReply
  <2> QED
    BY <1>12, <2>1 DEF UnsubscribeReply, Goto, TypeOK
<1>13. ASSUME NEW r \in Clients, SetKeepalive(r) PROVE TypeOK'
  <2>1. CASE Drop(r)
    BY <1>13, <2>1, DropType, Zenon DEF SetKeepalive, Drop, Goto, TypeOK
  <2>2. ASSUME NEW out \in SUBSET pool,
               pool' = (pool \ out) \cup {sock[r]}, open' = open \ out,
               sock' = [sock EXCEPT ![r] = None], Goto(r, "idle"),
               UNCHANGED <<reused, cli_sub, wire>>
        PROVE  TypeOK'
    <3>1. sock[r] \in open \ pool
      BY <1>13, Zenon DEF SetKeepalive, Owners, OneOwner, TypeOK
    <3>2. \A s \in Clients : sock[s] \in (open \ out) \cup {None}
      BY Zenon DEF Owners, OneOwner, TypeOK
    <3>3. /\ pool' \subseteq open' /\ open' \subseteq Conns
          /\ sock' \in [Clients -> open' \cup {None}]
      BY <2>2, <3>1, <3>2, Zenon DEF TypeOK
    <3> QED
      BY <1>13, <2>2, <3>3, Zenon DEF SetKeepalive, Goto, TypeOK
  <2> QED
    BY <1>13, <2>1, <2>2, Zenon DEF SetKeepalive
<1>14. ASSUME NEW c \in Conns, IdleTimeout(c) PROVE TypeOK'
  <2>1. \A s \in Clients : sock[s] \in (open \ {c}) \cup {None}
    BY <1>14, Zenon DEF IdleTimeout, Owners, OneOwner, TypeOK
  <2> QED
    BY <1>14, <2>1, Zenon DEF IdleTimeout, TypeOK
<1>15. ASSUME NEW c \in Conns, ServerExec(c) PROVE TypeOK'
  <2>1. /\ inbox[c] \in Seq(Messages) /\ inbox[c] # << >>
        /\ Head(inbox[c]) \in Messages /\ Tail(inbox[c]) \in Seq(Messages)
    BY <1>15 DEF ServerExec, TypeOK
  <2>2. inbox' \in [Conns -> Seq(Messages)] /\ wire' \in [Conns -> Seq(Messages)]
    BY <1>15, <2>1 DEF ServerExec, TypeOK
  <2>3. executed' \in Seq(Messages)
    BY <1>15, <2>1 DEF ServerExec, TypeOK
  <2>4. authed' \in [Conns -> BOOLEAN]
    <3>1. (authed[c] \/ Head(inbox[c]).cmd = "auth") \in BOOLEAN
      BY Zenon
    <3>2. PICK b \in BOOLEAN : authed' = [authed EXCEPT ![c] = b]
      BY <1>15, <3>1, Zenon DEF ServerExec
    <3> QED
      BY <3>2, Zenon DEF TypeOK
  <2>5. srv_sub' \in [Conns -> BOOLEAN]
    <3>1. (\/ Head(inbox[c]).cmd = "subscribe"
           \/ srv_sub[c] /\ Head(inbox[c]).cmd # "unsubscribe") \in BOOLEAN
      BY Zenon
    <3>2. PICK b \in BOOLEAN : srv_sub' = [srv_sub EXCEPT ![c] = b]
      BY <1>15, <3>1, Zenon DEF ServerExec
    <3> QED
      BY <3>2, Zenon DEF TypeOK
  <2> QED
    BY <1>15, <2>2, <2>3, <2>4, <2>5 DEF ServerExec, TypeOK
<1>16. ASSUME NEW c \in Conns, Push(c) PROVE TypeOK'
  <2>1. [cmd |-> "message", from |-> None, n |-> 0] \in Messages
    BY DEF Messages
  <2> QED
    BY <1>16, <2>1 DEF Push, TypeOK
<1>17. CASE UNCHANGED vars
  BY <1>17, Zenon DEF vars, TypeOK
<1> QED
  BY Zenon, <1>1, <1>2, <1>3, <1>4, <1>5, <1>6, <1>7, <1>8, <1>9, <1>10, <1>11, <1>12, <1>13,
     <1>14, <1>15, <1>16, <1>17 DEF Next, ClientStep

-----------------------------------------------------------------------------
(* Ownership.                                                              *)

(* The connection a request takes is nobody else's.                        *)
LEMMA ConnectsOwners ==
    ASSUME TypeOK, Owners, NEW r \in Clients, NEW c \in Conns, Connects(r, c)
    PROVE  /\ OneOwner'
           /\ sock' = [sock EXCEPT ![r] = c] /\ c # None
           /\ \A s \in Clients : s # r => sock[s] # c
<1>1. sock' = [sock EXCEPT ![r] = c] /\ c # None /\ pool' = pool \ {c}
  BY RedisClientAssumption, Zenon DEF Connects
<1>2. \A s \in Clients : s # r => sock[s] # c
  <2>1. CASE c \in pool
    BY <1>1, <2>1, Zenon DEF Owners, OneOwner
  <2>2. CASE c \notin pool
    <3>1. c \in Conns \ (open \ {sock[r]})
      BY <2>2, Zenon DEF Connects
    <3> QED
      BY <1>1, <3>1, Zenon DEF Owners, OneOwner, TypeOK
  <2> QED
    BY <2>1, <2>2, Zenon
<1>3. \A s \in Clients : sock'[s] # None =>
        sock'[s] \notin pool' /\ \A u \in Clients : sock'[u] = sock'[s] => u = s
  BY <1>1, <1>2, Zenon DEF Owners, OneOwner, TypeOK
<1> QED
  BY <1>1, <1>2, <1>3, Zenon DEF OneOwner

(* A step that leaves the pool and the sockets alone, and moves no request *)
(* past connect_mod(), leaves the owners alone.                            *)
LEMMA OwnersFrame ==
    ASSUME TypeOK, Owners, NEW r \in Clients, NEW l, Goto(r, l), UNCHANGED <<pool, sock>>,
           pc[r] \in {"idle", "connect"} <=> l \in {"idle", "connect"}
    PROVE  Owners'
  BY Zenon DEF Owners, OneOwner, Goto, TypeOK

(* Every step keeps the owners.                                            *)
LEMMA OwnersStep == TypeOK /\ Owners /\ [Next]_vars => Owners'
<1> SUFFICES ASSUME TypeOK, Owners, [Next]_vars PROVE Owners'
  BY Zenon
<1> USE DEF libVars, srvVars, pipeVars, callVars
<1>1. CASE UNCHANGED <<pool, sock, pc>>
  BY <1>1, Zenon DEF Owners, OneOwner
<1>2. ASSUME NEW r \in Clients, DoCommand(r) \/ CommitPipeline(r) \/ Subscribe(r) PROVE Owners'
  <2>1. UNCHANGED <<pool, sock, pc>> \/ (UNCHANGED <<pool, sock>> /\ Goto(r, "connect"))
    <3>1. CASE DoCommand(r)
      <4>1. UNCHANGED pc \/ Begin(r, "command", <<issued[r] + 1>>)
        BY <3>1, Zenon DEF DoCommand
      <4>2. UNCHANGED <<pool, sock>>
        BY <3>1, Zenon DEF DoCommand
      <4> QED
        BY <4>1, <4>2, Zenon DEF Begin
    <3>2. CASE CommitPipeline(r) \/ Subscribe(r)
      BY <3>2, Zenon DEF CommitPipeline, Subscribe, Begin
    <3> QED
      BY <1>2, <3>1, <3>2, Zenon
  <2>2. pc[r] = "idle"
    BY <1>2, Zenon DEF DoCommand, CommitPipeline, Subscribe
  <2> QED
    BY <1>1, <2>1, <2>2, OwnersFrame, Zenon
<1>3. ASSUME NEW r \in Clients, Connect(r) PROVE Owners'
  <2>1. PICK c \in Conns : Connects(r, c)
    BY <1>3, Zenon DEF Connect
  <2> QED
    BY <1>3, <2>1, ConnectsOwners DEF Connect, Owners, Goto, TypeOK
<1>4. ASSUME NEW r \in Clients, DoAuth(r) PROVE Owners'
  <2>1. PICK c \in Conns : Connects(r, c) /\ \E l \in {"auth_reply", "reply", "sub_reply"} : Goto(r, l)
    BY <1>4, Zenon DEF DoAuth, Waiting
  <2> QED
    BY <1>4, <2>1, ConnectsOwners DEF Owners, Goto, TypeOK
<1>5. ASSUME NEW r \in Clients, Drop(r) PROVE Owners'
  BY <1>5, Zenon DEF Drop, Owners, OneOwner, Goto, TypeOK
<1>6. ASSUME NEW r \in Clients, AuthReply(r) \/ Reply(r) \/ SubscribeReply(r) \/ ReadReply(r)
                                \/ UnsubscribeReply(r)
      PROVE  Owners'
  <2>1. UNCHANGED <<pool, sock, pc>> \/
          /\ UNCHANGED <<pool, sock>>
          /\ \E l \in {"reply", "sub_reply", "keepalive", "read_reply", "unsub_reply"} : Goto(r, l)
    BY <1>6, Zenon DEF AuthReply, Reply, SubscribeReply, ReadReply, UnsubscribeReply, Waiting
  <2>2. pc[r] \notin {"idle", "connect"}
    BY <1>6, Zenon DEF AuthReply, Reply, SubscribeReply, ReadReply, UnsubscribeReply
  <2> QED
    BY <1>1, <2>1, <2>2, OwnersFrame, Zenon
<1>7. ASSUME NEW r \in Clients, SetKeepalive(r), ~ Drop(r) PROVE Owners'
  <2>1. PICK out \in SUBSET pool : pool' = (pool \ out) \cup {sock[r]}
    BY <1>7, Zenon DEF SetKeepalive
  <2>2. sock' = [sock EXCEPT ![r] = None] /\ Goto(r, "idle")
    BY <1>7, Zenon DEF SetKeepalive
  <2>3. \A s \in Clients : sock'[s] # None =>
          sock'[s] \notin pool' /\ \A u \in Clients : sock'[u] = sock'[s] => u = s
    BY <2>1, <2>2, Zenon DEF Owners, OneOwner, TypeOK
  <2> QED
    BY <2>2, <2>3, Zenon DEF Owners, OneOwner, Goto, TypeOK
<1>8. ASSUME NEW c \in Conns, IdleTimeout(c) PROVE Owners'
  <2>1. pool' = pool \ {c} /\ UNCHANGED <<sock, pc>>
    BY <1>8, Zenon DEF IdleTimeout
  <2> QED
    BY <2>1, Zenon DEF Owners, OneOwner
<1>9. ASSUME NEW c \in Conns, ServerExec(c) \/ Push(c) PROVE Owners'
  BY <1>1, <1>9, Zenon DEF ServerExec, Push
<1>10. ASSUME NEW r \in Clients, InitPipeline(r) PROVE Owners'
  BY <1>1, <1>10, Zenon DEF InitPipeline
<1>11. ASSUME NEW r \in Clients, Fail(r) PROVE Owners'
  BY <1>5, <1>11, Zenon DEF Fail, DropOnError
<1>12. CASE UNCHANGED vars
  BY <1>1, <1>12, Zenon DEF vars
<1> QED
  BY Zenon, <1>2, <1>3, <1>4, <1>5, <1>6, <1>7, <1>8, <1>9, <1>10, <1>11, <1>12 DEF Next, ClientStep

-----------------------------------------------------------------------------
(* What is on the connections.                                             *)

(* A connection nobody touches stays as its owner needs it.                *)
LEMMA LinkFrame ==
    ASSUME NEW s \in Clients, NEW c \in Conns, Link(s, c),
           pc'[s] = pc[s], batch'[s] = batch[s],
           inbox'[c] = inbox[c], wire'[c] = wire[c],
           authed'[c] = authed[c], srv_sub'[c] = srv_sub[c], cli_sub'[c] = cli_sub[c]
    PROVE  Link(s, c)'
<1>1. AuthLink(c) => AuthLink(c)'
  BY Zenon DEF AuthLink
<1>2. ReplyLink(s, c) => ReplyLink(s, c)'
  BY Zenon DEF ReplyLink
<1>3. SubscribeLink(c) => SubscribeLink(c)'
  BY Zenon DEF SubscribeLink
<1>4. MessageLink(c) => MessageLink(c)'
  BY Zenon DEF MessageLink
<1>5. UnsubscribeLink(c) => UnsubscribeLink(c)'
  BY Zenon DEF UnsubscribeLink
<1>6. cli_sub[c] \/ Clean(c) => (cli_sub[c] \/ Clean(c))'
  BY Zenon DEF Clean
<1> QED
  BY <1>1, <1>2, <1>3, <1>4, <1>5, <1>6, Zenon DEF Link

(* The commands that go out are those of the batch, or SUBSCRIBE.          *)
LEMMA OutgoingIs ==
    ASSUME TypeOK, NEW r \in Clients
    PROVE  /\ op[r] = "subscribe" => /\ Len(Outgoing(r)) = 1
                                     /\ Outgoing(r)[1].cmd = "subscribe"
           /\ op[r] # "subscribe" =>
                /\ Len(Outgoing(r)) = Len(batch[r])
                /\ \A i \in 1..Len(batch[r]) : Outgoing(r)[i] = Command(r, batch[r][i])
<1>1. CASE op[r] = "subscribe"
  BY <1>1, Zenon DEF Outgoing
<1>2. CASE op[r] # "subscribe"
  <2>1. batch[r] \in Seq(1..MaxCmds)
    BY Zenon DEF TypeOK
  <2>2. DOMAIN batch[r] = 1..Len(batch[r]) /\ Len(batch[r]) \in Nat
    BY <2>1
  <2> QED
    BY <1>2, <2>2, OutgoingType DEF Outgoing, Command
<1> QED
  BY <1>1, <1>2, Zenon

(* Once an operation has sent its commands on a clean, authenticated       *)
(* connection, their replies are what it waits for.                        *)
LEMMA SendLink ==
    ASSUME TypeOK, Numbers, NEW r \in Clients, NEW c \in Conns,
           pc[r] \in Unsent, pc'[r] = Waiting(r), batch'[r] = batch[r],
           inbox'[c] = Outgoing(r), wire'[c] = << >>, authed'[c], ~ srv_sub'[c]
    PROVE  Link(r, c)'
<1>1. CASE op[r] = "subscribe"
  BY <1>1, OutgoingIs, Zenon DEF Waiting, Link, SubscribeLink
<1>2. CASE op[r] # "subscribe"
  <2>1. batch[r] # << >> /\ batch[r] \in Seq(1..MaxCmds)
    BY <1>2, Zenon DEF Numbers, NumbersOf, TypeOK
  <2>2. ReplyLink(r, c)'
    BY <1>2, <2>1, OutgoingIs DEF ReplyLink
  <2> QED
    BY <1>2, <2>2, Zenon DEF Waiting, Link
<1> QED
  BY <1>1, <1>2, Zenon

(* A connection just taken is clean; one from the pool is authenticated.   *)
LEMMA ConnectsClean ==
    ASSUME TypeOK, Owners, PoolClean, NEW r \in Clients, NEW c \in Conns, Connects(r, c)
    PROVE  /\ ~ srv_sub'[c] /\ inbox[c] = << >> /\ wire'[c] = << >>
           /\ reused'[c] => authed'[c]
           /\ \A d \in Conns : d # c =>
                /\ wire'[d] = wire[d] /\ authed'[d] = authed[d]
                /\ srv_sub'[d] = srv_sub[d] /\ cli_sub'[d] = cli_sub[d]
<1>1. CASE c \in pool
  <2>1. authed'[c] = authed[c] /\ srv_sub'[c] = srv_sub[c] /\ wire'[c] = wire[c]
    BY <1>1, Zenon DEF Connects, TypeOK
  <2> QED
    BY <1>1, <2>1, Zenon DEF Connects, PoolClean, TypeOK
<1>2. CASE c \notin pool
  <2>1. pool = {}
    BY <1>2, Zenon DEF Connects
  <2> QED
    BY <1>2, <2>1, Zenon DEF Connects, TypeOK
<1> QED
  BY <1>1, <1>2, Zenon

(* A step of request r that moves to l keeps the links, if it keeps those  *)
(* of r itself and touches no connection of the others.                    *)
LEMMA OthersLinks ==
    ASSUME TypeOK, Owners, Links, NEW r \in Clients,
           \A s \in Clients : s # r =>
               /\ pc'[s] = pc[s] /\ batch'[s] = batch[s] /\ sock'[s] = sock[s]
               /\ sock[s] # None =>
                    /\ inbox'[sock[s]] = inbox[sock[s]] /\ wire'[sock[s]] = wire[sock[s]]
                    /\ authed'[sock[s]] = authed[sock[s]]
                    /\ srv_sub'[sock[s]] = srv_sub[sock[s]]
                    /\ cli_sub'[sock[s]] = cli_sub[sock[s]],
           sock'[r] # None => Link(r, sock[r])'
    PROVE  Links'
<1> SUFFICES ASSUME NEW s \in Clients, (sock[s] # None)' PROVE Link(s, sock[s])'
  BY Zenon DEF Links
<1>1. CASE s = r
  BY <1>1, Zenon
<1>2. CASE s # r
  <2>1. sock[s] \in Conns /\ sock'[s] = sock[s] /\ Link(s, sock[s])
    BY <1>2 DEF TypeOK, Links
  <2>2. PICK c \in Conns : c = sock[s] /\ c = sock'[s] /\ Link(s, c)
    BY <2>1, Zenon
  <2>3. Link(s, c)'
    BY <1>2, <2>2, LinkFrame, Zenon
  <2> QED
    BY <2>2, <2>3, Zenon
<1> QED
  BY <1>1, <1>2, Zenon

(* The server answers the first request that waits on a connection.        *)
LEMMA ExecLink ==
    ASSUME TypeOK, NEW s \in Clients, NEW c \in Conns, c \in open, Link(s, c), ServerExec(c)
    PROVE  Link(s, c)'
<1>0. /\ inbox[c] \in Seq(Messages) /\ inbox[c] # << >> /\ Len(inbox[c]) \in Nat \ {0}
      /\ wire[c] \in Seq(Messages) /\ Len(wire[c]) \in Nat
      /\ Head(inbox[c]) = inbox[c][1] /\ inbox[c][1] \in Messages
  BY DEF ServerExec, TypeOK
<1>1. PICK m \in Messages : m = inbox[c][1] /\ m = Head(inbox[c])
  BY <1>0, Zenon
<1>2. /\ inbox'[c] = Tail(inbox[c]) /\ wire'[c] = Append(wire[c], m)
      /\ authed'[c] = (authed[c] \/ m.cmd = "auth")
      /\ srv_sub'[c] = (m.cmd = "subscribe" \/ (srv_sub[c] /\ m.cmd # "unsubscribe"))
      /\ UNCHANGED <<pc, cli_sub, batch>>
  BY <1>0, <1>1, Zenon DEF ServerExec, TypeOK, libVars, callVars
<1>3. /\ inbox'[c] \in Seq(Messages) /\ Len(inbox'[c]) = Len(inbox[c]) - 1
      /\ \A i \in 1..Len(inbox'[c]) : inbox'[c][i] = inbox[c][i + 1]
      /\ wire'[c] \in Seq(Messages) /\ Len(wire'[c]) = Len(wire[c]) + 1 /\ wire'[c] # << >>
      /\ \A i \in 1..Len(wire[c]) : wire'[c][i] = wire[c][i]
      /\ wire'[c][Len(wire[c]) + 1] = m
  <2>1. /\ inbox'[c] \in Seq(Messages) /\ Len(inbox'[c]) = Len(inbox[c]) - 1
        /\ \A i \in 1..Len(inbox'[c]) : inbox'[c][i] = inbox[c][i + 1]
    BY <1>0, <1>2, HeadTailProperties
  <2>2. /\ wire'[c] \in Seq(Messages) /\ Len(wire'[c]) = Len(wire[c]) + 1 /\ wire'[c] # << >>
        /\ \A i \in 1..Len(wire[c]) : wire'[c][i] = wire[c][i]
        /\ wire'[c][Len(wire[c]) + 1] = m
    BY <1>0, <1>1, <1>2, AppendProperties
  <2> QED
    BY <2>1, <2>2, Zenon
<1>4. Len(inbox[c]) = 1 => inbox'[c] = << >>
  BY <1>3, EmptySeq
<1>11. /\ Len(wire[c]) \in Nat /\ Len(inbox[c]) \in Nat
      /\ Len(wire'[c]) = Len(wire[c]) + 1 /\ Len(inbox'[c]) = Len(inbox[c]) - 1
  BY <1>0, <1>3, Zenon
<1>5. AuthLink(c) => AuthLink(c)'
  <2> SUFFICES ASSUME AuthLink(c) PROVE AuthLink(c)'
    BY Zenon
  <2>1. ~ srv_sub[c] /\ wire[c] = << >> /\ Len(inbox[c]) = 1 /\ m.cmd = "auth"
    BY <1>0, <1>1, Zenon DEF AuthLink
  <2>2. Len(wire'[c]) = 1
    BY <1>11, <2>1
  <2>3. ~ srv_sub'[c] /\ authed'[c]
    BY <1>2, <2>1, Zenon
  <2> QED
    BY <1>4, <2>1, <2>2, <2>3, Zenon DEF AuthLink
<1>6. ReplyLink(s, c) => ReplyLink(s, c)'
  <2> SUFFICES ASSUME ReplyLink(s, c) PROVE ReplyLink(s, c)'
    BY Zenon
  <2>1. m = Command(s, batch[s][Len(wire[c]) + 1]) /\ m.cmd = "data"
    BY <1>0, <1>1 DEF ReplyLink, Command
  <2>2. ~ srv_sub'[c] /\ batch'[s] # << >> /\ Len(wire'[c]) + Len(inbox'[c]) = Len(batch'[s])
    <3>1. ~ srv_sub'[c] /\ batch'[s] # << >>
      BY <1>2, <2>1, Zenon DEF ReplyLink
    <3>2. Len(wire'[c]) + Len(inbox'[c]) = Len(wire[c]) + Len(inbox[c])
      <4>1. PICK a \in Nat, b \in Nat :
              /\ a = Len(wire[c]) /\ b = Len(inbox[c])
              /\ Len(wire'[c]) = a + 1 /\ Len(inbox'[c]) = b - 1
        BY <1>11, Zenon
      <4>2. (a + 1) + (b - 1) = a + b
        OBVIOUS
      <4> QED
        BY <4>1, <4>2, Zenon
    <3> QED
      BY <1>2, <3>1, <3>2, Zenon DEF ReplyLink
  <2>3. \A i \in 1..Len(wire'[c]) : wire'[c][i] = Command(s, batch'[s][i])
    BY <1>0, <1>2, <1>3, <2>1 DEF ReplyLink
  <2>4. \A i \in 1..Len(inbox'[c]) : inbox'[c][i] = Command(s, batch'[s][Len(wire'[c]) + i])
    <3> SUFFICES ASSUME NEW i \in 1..Len(inbox'[c])
                 PROVE  inbox'[c][i] = Command(s, batch'[s][Len(wire'[c]) + i])
      BY Zenon
    <3>1. inbox[c][i + 1] = Command(s, batch[s][Len(wire[c]) + (i + 1)])
      <4>1. i + 1 \in 1..Len(inbox[c])
        BY <1>0, <1>3
      <4> QED
        BY <4>1, Zenon DEF ReplyLink
    <3>2. Len(wire[c]) + (i + 1) = Len(wire'[c]) + i
      <4>1. PICK a \in Nat : a = Len(wire[c]) /\ Len(wire'[c]) = a + 1
        BY <1>11, Zenon
      <4>2. a + (i + 1) = (a + 1) + i
        OBVIOUS
      <4> QED
        BY <4>1, <4>2, ZenonT(60)
    <3> QED
      BY <1>2, <1>3, <3>1, <3>2, Zenon
  <2> QED
    BY <2>2, <2>3, <2>4, Zenon DEF ReplyLink
<1>7. SubscribeLink(c) => SubscribeLink(c)'
  BY <1>0, <1>1, <1>2, <1>3, <1>4 DEF SubscribeLink
<1>8. ~ MessageLink(c) /\ ~ Clean(c)
  BY <1>0, Zenon DEF MessageLink, Clean
<1>9. UnsubscribeLink(c) => UnsubscribeLink(c)'
  <2> SUFFICES ASSUME UnsubscribeLink(c) PROVE UnsubscribeLink(c)'
    BY Zenon
  <2>1. /\ Len(inbox[c]) = 1 /\ m.cmd = "unsubscribe" /\ cli_sub[c]
        /\ \A i \in 1..Len(wire[c]) : wire[c][i].cmd = "message"
    BY <1>0, <1>1, Zenon DEF UnsubscribeLink
  <2>2. \A i \in 1..Len(wire'[c]) :
          wire'[c][i].cmd = IF i = Len(wire'[c]) THEN "unsubscribe" ELSE "message"
    <3> SUFFICES ASSUME NEW i \in 1..Len(wire'[c])
                 PROVE  wire'[c][i].cmd = IF i = Len(wire'[c]) THEN "unsubscribe" ELSE "message"
      BY Zenon
    <3>1. i \in 1..Len(wire[c]) \/ i = Len(wire[c]) + 1
      BY <1>11
    <3>2. CASE i \in 1..Len(wire[c])
      BY <1>3, <1>11, <2>1, <3>2
    <3>3. CASE i = Len(wire[c]) + 1
      BY <1>3, <1>11, <2>1, <3>3, Zenon
    <3> QED
      BY <3>1, <3>2, <3>3, Zenon
  <2>3. ~ srv_sub'[c] /\ cli_sub'[c]
    BY <1>2, <2>1, Zenon
  <2> QED
    BY <1>3, <1>4, <2>1, <2>2, <2>3, Zenon DEF UnsubscribeLink
<1>10. authed[c] => authed'[c]
  BY <1>2, ZenonT(60)
<1> QED
  BY <1>2, <1>5, <1>6, <1>7, <1>8, <1>9, <1>10, Zenon DEF Link

(* A message comes after what is on the wire.                              *)
LEMMA PushLink ==
    ASSUME TypeOK, NEW s \in Clients, NEW c \in Conns, Link(s, c), Push(c)
    PROVE  Link(s, c)'
<1>1. /\ UNCHANGED <<pc, batch, inbox, authed, srv_sub, cli_sub>> /\ srv_sub[c]
      /\ wire'[c] = Append(wire[c], [cmd |-> "message", from |-> None, n |-> 0])
      /\ wire[c] \in Seq(Messages)
  BY Zenon DEF Push, TypeOK, libVars, callVars
<1>2. /\ Len(wire'[c]) = Len(wire[c]) + 1 /\ wire'[c] # << >>
      /\ \A i \in 1..Len(wire[c]) : wire'[c][i] = wire[c][i]
      /\ wire'[c][Len(wire[c]) + 1].cmd = "message"
  BY <1>1
<1>3. ~ AuthLink(c) /\ ~ ReplyLink(s, c) /\ ~ Clean(c)
  BY <1>1, Zenon DEF AuthLink, ReplyLink, Clean
<1>4. SubscribeLink(c) => SubscribeLink(c)'
  BY <1>1, <1>2 DEF SubscribeLink
<1>5. MessageLink(c) => MessageLink(c)'
  BY <1>1, <1>2 DEF MessageLink
<1>6. UnsubscribeLink(c) => UnsubscribeLink(c)'
  BY <1>1, <1>2 DEF UnsubscribeLink
<1> QED
  BY <1>1, <1>3, <1>4, <1>5, <1>6, Zenon DEF Link

=============================================================================
