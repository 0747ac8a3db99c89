-------------------------- MODULE RedisClientLinks --------------------------
(***************************************************************************)
(* Second part: what is on the connections in every state, and what a step *)
(* puts on them.                                                           *)
(***************************************************************************)
EXTENDS RedisClientTypes

-----------------------------------------------------------------------------
(* What is on the connections.                                             *)

(* After a reply the rest of the batch is still to be answered, or, after  *)
(* the last one, nothing.                                                  *)
LEMMA ReplyLinkStep ==
    ASSUME TypeOK, NEW r \in Clients, NEW c \in Conns, c = sock[r], c = sock'[r],
           Link(r, c), Reply(r)
    PROVE  Link(r, c)'
<1>1. /\ wire[c] \in Seq(Messages) /\ wire[c] # << >> /\ Len(wire[c]) \in Nat \ {0}
      /\ inbox[c] \in Seq(Messages) /\ Len(inbox[c]) \in Nat
      /\ batch[r] \in Seq(1..MaxCmds) /\ batch[r] # << >> /\ Len(batch[r]) \in Nat
      /\ ReplyLink(r, c) /\ authed[c]
  BY DEF TypeOK, Reply, Reads, Link, ReplyLink
<1>2. /\ wire'[c] = Tail(wire[c]) /\ batch'[r] = Tail(batch[r])
      /\ UNCHANGED <<inbox, authed, srv_sub>>
      /\ pc'[r] = IF Len(batch[r]) = 1 THEN "keepalive" ELSE "reply"
  BY Zenon DEF TypeOK, Reply, Pop, Goto
<1>3. /\ wire'[c] \in Seq(Messages) /\ Len(wire'[c]) = Len(wire[c]) - 1
      /\ \A i \in 1..Len(wire'[c]) : wire'[c][i] = wire[c][i + 1]
  BY <1>1, <1>2, HeadTailProperties
<1>4. /\ batch'[r] \in Seq(1..MaxCmds) /\ Len(batch'[r]) = Len(batch[r]) - 1
      /\ \A i \in 1..Len(batch'[r]) : batch'[r][i] = batch[r][i + 1]
  <2>1. /\ Tail(batch[r]) \in Seq(1..MaxCmds) /\ Len(Tail(batch[r])) = Len(batch[r]) - 1
        /\ \A i \in 1..Len(Tail(batch[r])) : Tail(batch[r])[i] = batch[r][i + 1]
    BY <1>1, HeadTailProperties, Zenon
  <2> QED
    BY <1>2, <2>1, Zenon
<1>5. PICK w \in Nat \ {0}, i \in Nat :
        /\ Len(wire[c]) = w /\ Len(inbox[c]) = i /\ Len(batch[r]) = w + i
        /\ Len(wire'[c]) = w - 1 /\ Len(inbox'[c]) = i /\ Len(batch'[r]) = (w + i) - 1
  BY <1>1, <1>2, <1>3, <1>4, ZenonT(60) DEF ReplyLink
<1>6. CASE Len(batch[r]) = 1
  <2>1. Len(wire'[c]) = 0 /\ Len(inbox[c]) = 0
    <3>1. w + i = 1
      BY <1>5, <1>6, Zenon
    <3>2. w = 1 /\ i = 0
      BY <3>1
    <3> QED
      BY <1>5, <3>2
  <2>2. wire'[c] = << >> /\ inbox'[c] = << >>
    BY <1>1, <1>2, <1>3, <2>1, EmptySeq, Zenon
  <2>3. ~ srv_sub'[c] /\ authed'[c]
    BY <1>1, <1>2, Zenon DEF ReplyLink
  <2> QED
    BY <1>2, <1>6, <2>2, <2>3, Zenon DEF Link, Clean
<1>7. CASE Len(batch[r]) # 1
  <2>1. batch'[r] # << >> /\ Len(wire'[c]) + Len(inbox'[c]) = Len(batch'[r])
    BY <1>4, <1>5, <1>7
  <2>2. \A k \in 1..Len(wire'[c]) : wire'[c][k] = Command(r, batch'[r][k])
    <3> SUFFICES ASSUME NEW k \in 1..Len(wire'[c]) PROVE wire'[c][k] = Command(r, batch'[r][k])
      BY Zenon
    <3>1. k + 1 \in 1..Len(wire[c]) /\ k \in 1..Len(batch'[r])
      BY <1>5
    <3>2. wire'[c][k] = wire[c][k + 1] /\ batch'[r][k] = batch[r][k + 1]
      BY <1>3, <1>4, <3>1, Zenon
    <3>3. wire[c][k + 1] = Command(r, batch[r][k + 1])
      BY <1>1, <3>1, Zenon DEF ReplyLink
    <3> QED
      BY <3>2, <3>3, Zenon
  <2>3. \A k \in 1..Len(inbox'[c]) : inbox'[c][k] = Command(r, batch'[r][Len(wire'[c]) + k])
    <3> SUFFICES ASSUME NEW k \in 1..Len(inbox'[c])
                 PROVE  inbox'[c][k] = Command(r, batch'[r][Len(wire'[c]) + k])
      BY Zenon
    <3>1. /\ k \in 1..Len(inbox[c]) /\ (w - 1) + k \in 1..Len(batch'[r])
          /\ ((w - 1) + k) + 1 = w + k
      BY <1>5
    <3>2. inbox[c][k] = Command(r, batch[r][w + k])
      BY <1>1, <1>5, <3>1, Zenon DEF ReplyLink
    <3>3. batch'[r][(w - 1) + k] = batch[r][w + k]
      BY <1>4, <3>1, Zenon
    <3> QED
      BY <1>2, <1>5, <3>2, <3>3, Zenon
  <2>4. ReplyLink(r, c)'
    BY <1>1, <1>2, <2>1, <2>2, <2>3, Zenon DEF ReplyLink
  <2> QED
    BY <1>1, <1>2, <1>7, <2>4, Zenon DEF Link
<1> QED
  BY <1>6, <1>7, Zenon

(* A subscriber reads the reply to SUBSCRIBE, one message, and then the    *)
(* reply to UNSUBSCRIBE or another message.                                *)
LEMMA SubscriberLinkStep ==
    ASSUME TypeOK, NEW r \in Clients, NEW c \in Conns, c = sock[r], c = sock'[r],
           Link(r, c), SubscribeReply(r) \/ ReadReply(r) \/ UnsubscribeReply(r)
    PROVE  Link(r, c)'
<1>1. CASE UnsubscribeReply(r) /\ UNCHANGED <<wire, cli_sub>>
  <2>1. authed'[c] /\ cli_sub'[c] /\ pc'[r] = "keepalive"
    BY <1>1, Zenon DEF UnsubscribeReply, Goto, TypeOK, Link, UnsubscribeLink
  <2> QED
    BY <2>1, Zenon DEF Link
<1>2. CASE Reads(r) /\ Pop(r)
  <2>1. /\ wire[c] \in Seq(Messages) /\ wire[c] # << >> /\ Len(wire[c]) \in Nat \ {0}
        /\ wire'[c] = Tail(wire[c]) /\ inbox[c] \in Seq(Messages) /\ Head(wire[c]) = wire[c][1]
    <3>1. wire[c] \in Seq(Messages) /\ wire[c] # << >> /\ inbox[c] \in Seq(Messages)
      BY <1>2, Zenon DEF TypeOK, Reads
    <3>2. wire'[c] = Tail(wire[c])
      BY <1>2, Zenon DEF TypeOK, Pop
    <3> QED
      BY <3>1, <3>2
  <2>2. /\ wire'[c] \in Seq(Messages) /\ Len(wire'[c]) = Len(wire[c]) - 1
        /\ \A i \in 1..Len(wire'[c]) : wire'[c][i] = wire[c][i + 1]
    BY <2>1, HeadTailProperties
  <2>3. \A i \in 1..Len(wire'[c]) : i + 1 \in 2..Len(wire[c])
    <3>1. PICK n \in Nat \ {0} : Len(wire[c]) = n /\ Len(wire'[c]) = n - 1
      BY <2>1, <2>2, Zenon
    <3> QED
      BY <3>1
  <2>4. CASE SubscribeReply(r)
    <3>1. /\ inbox[c] = << >> /\ \A i \in 2..Len(wire[c]) : wire[c][i].cmd = "message"
          /\ authed[c]
      BY <2>1, <2>4, Zenon DEF SubscribeReply, Link, SubscribeLink
    <3>2. inbox'[c] = << >> /\ cli_sub'[c] /\ authed'[c] /\ pc'[r] = "read_reply"
      BY <2>4, <3>1, Zenon DEF SubscribeReply, Goto, TypeOK
    <3>3. \A i \in 1..Len(wire'[c]) : wire'[c][i].cmd = "message"
      BY <2>2, <2>3, <3>1
    <3> QED
      BY <3>2, <3>3, Zenon DEF Link, MessageLink
  <2>5. CASE ReadReply(r)
    <3>1. /\ inbox[c] = << >> /\ \A i \in 1..Len(wire[c]) : wire[c][i].cmd = "message"
          /\ authed[c] /\ cli_sub[c]
      BY <2>5, Zenon DEF ReadReply, Link, MessageLink
    <3>2. /\ inbox'[c] = Append(inbox[c], [cmd |-> "unsubscribe", from |-> r, n |-> 0])
          /\ cli_sub'[c] /\ authed'[c] /\ pc'[r] = "unsub_reply"
      BY <2>5, <3>1, Zenon DEF ReadReply, Goto, TypeOK, libVars
    <3>3. Len(inbox'[c]) = 1 /\ inbox'[c][1].cmd = "unsubscribe"
      BY <3>1, <3>2
    <3>4. \A i \in 1..Len(wire'[c]) : wire'[c][i].cmd = "message"
      <4>1. \A i \in 2..Len(wire[c]) : i \in 1..Len(wire[c])
        BY <2>1
      <4> QED
        BY <2>2, <2>3, <3>1, <4>1
    <3> QED
      BY <3>2, <3>3, <3>4, Zenon DEF Link, UnsubscribeLink
  <2>6. CASE /\ UnsubscribeReply(r)
             /\ cli_sub' = [cli_sub EXCEPT ![c] = ~ Unsubscribed(Head(wire[c]))]
    <3>1. pc'[r] = "keepalive" /\ UNCHANGED <<inbox, srv_sub, authed>> /\ authed[c]
      BY <2>6, Zenon DEF UnsubscribeReply, Goto, TypeOK, Link
    <3>2. UnsubscribeLink(c)
      BY <2>6, Zenon DEF UnsubscribeReply, Link
    <3>3. CASE wire[c][1].cmd # "unsubscribe"
      <4>1. cli_sub'[c]
        BY <2>1, <2>6, <3>3, Zenon DEF Unsubscribed, TypeOK
      <4> QED
        BY <3>1, <4>1, Zenon DEF Link
    <3>4. CASE wire[c][1].cmd = "unsubscribe"
      <4>1. 1 \in 1..Len(wire[c])
        BY <2>1
      <4>2. inbox[c] = << >> /\ ~ srv_sub[c] /\ Len(wire[c]) = 1
        BY <3>2, <3>4, <4>1, Zenon DEF UnsubscribeLink
      <4>3. wire'[c] = << >>
        BY <2>2, <4>2, EmptySeq
      <4> QED
        BY <3>1, <4>2, <4>3, Zenon DEF Link, Clean
    <3> QED
      BY <3>3, <3>4, Zenon
  <2> QED
    BY <1>1, <2>4, <2>5, <2>6, Zenon DEF UnsubscribeReply
<1> QED
  BY <1>1, <1>2, Zenon DEF SubscribeReply, ReadReply, UnsubscribeReply

(* Every step keeps the links.                                             *)
LEMMA LinksStep == Connections /\ Numbers /\ [Next]_vars => Links'
<1> SUFFICES ASSUME Connections, Numbers, [Next]_vars PROVE Links'
  BY Zenon
<1>0. TypeOK /\ Owners /\ PoolClean /\ Links
  BY Zenon DEF Connections
<1>12. \A r, s \in Clients : s # r /\ sock[s] # None => sock[s] # sock[r]
  BY <1>0, Zenon DEF Owners, OneOwner
<1> USE DEF libVars, srvVars, pipeVars, callVars
<1>1. ASSUME NEW r \in Clients,
             InitPipeline(r) \/ DoCommand(r) \/ CommitPipeline(r) \/ Subscribe(r)
      PROVE  Links'
  <2>1. pc[r] = "idle" /\ UNCHANGED <<sock, inbox, wire, authed, srv_sub, cli_sub>>
    BY <1>1, Zenon DEF InitPipeline, DoCommand, CommitPipeline, Subscribe
  <2>2. \A s \in Clients : s # r => pc'[s] = pc[s] /\ batch'[s] = batch[s]
    <3>1. CASE DoCommand(r)
      BY <1>0, <3>1, Zenon DEF DoCommand, Begin, Goto, TypeOK
    <3>2. CASE InitPipeline(r) \/ CommitPipeline(r) \/ Subscribe(r)
      BY <1>0, <3>2, Zenon DEF InitPipeline, CommitPipeline, Subscribe, Begin, Goto, TypeOK
    <3> QED
      BY <1>1, <3>1, <3>2, Zenon
  <2>3. sock[r] = None
    BY <1>0, <2>1, Zenon DEF Owners
  <2> QED
    BY <1>0, <2>1, <2>2, <2>3, OthersLinks, Zenon
<1>2. ASSUME NEW r \in Clients, Connect(r) PROVE Links'
  <2>1. PICK c \in Conns : Connects(r, c)
    BY <1>2, Zenon DEF Connect
  <2>2. sock'[r] = c /\ pc'[r] = "do_auth"
    BY <1>0, <1>2, <2>1, ConnectsOwners DEF Connect, Goto, TypeOK
  <2>3. Link(r, c)'
    BY <2>2, Zenon DEF Link
  <2>4. \A s \in Clients : s # r =>
          /\ pc'[s] = pc[s] /\ batch'[s] = batch[s] /\ sock'[s] = sock[s] /\ sock[s] # c
          /\ sock[s] # None => sock[s] \in Conns
    BY <1>0, <1>2, <2>1, ConnectsOwners DEF Connect, Goto, TypeOK
  <2>5. inbox' = inbox
    BY <1>2, Zenon DEF Connect
  <2> QED
    BY <1>0, <2>1, <2>2, <2>3, <2>4, <2>5, ConnectsClean, OthersLinks
<1>3. ASSUME NEW r \in Clients, DoAuth(r) PROVE Links'
  <2>1. PICK c \in Conns :
          /\ Connects(r, c)
          /\ inbox' = [inbox EXCEPT ![c] = @ \o
                         IF NeedsAuth(c) THEN <<[cmd |-> "auth", from |-> r, n |-> 0]>>
                         ELSE Outgoing(r)]
          /\ Goto(r, IF NeedsAuth(c) THEN "auth_reply" ELSE Waiting(r))
    BY <1>3, Zenon DEF DoAuth
  <2>2. /\ sock'[r] = c /\ inbox[c] = << >> /\ wire'[c] = << >> /\ ~ srv_sub'[c]
        /\ reused'[c] => authed'[c]
    <3>1. sock'[r] = c
      BY <1>0, <2>1, ConnectsOwners DEF TypeOK
    <3> QED
      BY <1>0, <2>1, <3>1, ConnectsClean, Zenon
  <2>3. pc[r] = "do_auth" /\ batch' = batch
    BY <1>3, Zenon DEF DoAuth
  <2>4. Link(r, c)'
    <3>1. CASE reused'[c]
      <4>1. inbox'[c] = Outgoing(r) /\ pc'[r] = Waiting(r)
        <5>1. inbox'[c] = << >> \o Outgoing(r) /\ pc'[r] = Waiting(r)
          BY <1>0, <2>1, <2>2, <3>1, Zenon DEF NeedsAuth, Goto, TypeOK
        <5> QED
          BY <1>0, <5>1, OutgoingType, ConcatEmptySeq, Zenon
      <4> QED
        BY <1>0, <2>2, <2>3, <3>1, <4>1, SendLink, Zenon DEF Unsent
    <3>2. CASE ~ reused'[c]
      <4>1. /\ inbox'[c] = << >> \o <<[cmd |-> "auth", from |-> r, n |-> 0]>>
            /\ pc'[r] = "auth_reply"
        BY <1>0, <2>1, <2>2, <3>2, Zenon DEF NeedsAuth, Goto, TypeOK
      <4>2. Len(inbox'[c]) = 1 /\ inbox'[c][1].cmd = "auth"
        BY <4>1
      <4> QED
        BY <2>2, <4>1, <4>2, Zenon DEF Link, AuthLink
    <3> QED
      BY <3>1, <3>2, Zenon
  <2>5. \A s \in Clients : s # r =>
          /\ pc'[s] = pc[s] /\ batch'[s] = batch[s] /\ sock'[s] = sock[s] /\ sock[s] # c
          /\ sock[s] # None => sock[s] \in Conns /\ inbox'[sock[s]] = inbox[sock[s]]
    BY <1>0, <2>1, <2>3, ConnectsOwners DEF Goto, TypeOK
  <2> QED
    <3>1. \A d \in Conns : d # c =>
            /\ wire'[d] = wire[d] /\ authed'[d] = authed[d]
            /\ srv_sub'[d] = srv_sub[d] /\ cli_sub'[d] = cli_sub[d]
      BY <1>0, <2>1, ConnectsClean, Zenon
    <3> QED
      BY <1>0, <2>2, <2>4, <2>5, <3>1, OthersLinks
<1>4. ASSUME NEW r \in Clients, Drop(r), UNCHANGED <<inbox, authed, srv_sub, batch>> PROVE Links'
  <2>1. \A s \in Clients : s # r =>
          /\ pc'[s] = pc[s] /\ sock'[s] = sock[s]
          /\ sock[s] # None => wire'[sock[s]] = wire[sock[s]]
    BY <1>0, <1>4, <1>12, Zenon DEF Drop, Goto, TypeOK
  <2>2. sock'[r] = None /\ cli_sub' = cli_sub
    BY <1>0, <1>4, Zenon DEF Drop, TypeOK
  <2> QED
    BY <1>0, <1>4, <2>1, <2>2, OthersLinks, Zenon
<1>5. ASSUME NEW r \in Clients, AuthReply(r) PROVE Links'
  <2>1. PICK c \in Conns : c = sock[r] /\ c = sock'[r] /\ Link(r, c)
    BY <1>0, <1>5, Zenon DEF AuthReply, Reads, TypeOK, Links
  <2>2. /\ wire[c] \in Seq(Messages) /\ wire[c] # << >> /\ inbox[c] \in Seq(Messages)
        /\ wire'[c] = Tail(wire[c]) /\ inbox'[c] = inbox[c] \o Outgoing(r)
    BY <1>0, <1>5, <2>1, Zenon DEF AuthReply, Reads, Pop, TypeOK
  <2>3. inbox[c] = << >> /\ Len(wire[c]) = 1 /\ authed[c] /\ ~ srv_sub[c]
    BY <1>5, <2>1, <2>2, Zenon DEF AuthReply, Link, AuthLink
  <2>4. wire'[c] = << >>
    <3>1. Tail(wire[c]) \in Seq(Messages) /\ Len(Tail(wire[c])) = Len(wire[c]) - 1
      BY <2>2, HeadTailProperties, Zenon
    <3>2. Len(Tail(wire[c])) = 0
      BY <2>3, <3>1
    <3>3. Tail(wire[c]) = << >>
      BY <3>1, <3>2, EmptySeq, ZenonT(60)
    <3> QED
      BY <2>2, <3>3, Zenon
  <2>5. inbox'[c] = Outgoing(r)
    BY <1>0, <2>2, <2>3, OutgoingType, ConcatEmptySeq, Zenon
  <2>6. pc'[r] = Waiting(r) /\ pc[r] \in Unsent /\ UNCHANGED <<batch, authed, srv_sub, cli_sub, sock>>
    BY <1>0, <1>5, Zenon DEF AuthReply, Goto, TypeOK, Unsent
  <2>7. Link(r, c)'
    BY <1>0, <2>3, <2>4, <2>5, <2>6, SendLink, Zenon
  <2>8. \A s \in Clients : s # r =>
          /\ pc'[s] = pc[s]
          /\ sock[s] # None => /\ wire'[sock[s]] = wire[sock[s]]
                               /\ inbox'[sock[s]] = inbox[sock[s]]
    BY <1>0, <1>5, <1>12, Zenon DEF AuthReply, Pop, Goto, TypeOK
  <2> QED
    BY <1>0, <2>1, <2>6, <2>7, <2>8, OthersLinks, Zenon
<1>6. ASSUME NEW r \in Clients, Reply(r) PROVE Links'
  <2>1. PICK c \in Conns : c = sock[r] /\ c = sock'[r] /\ Link(r, c)
    BY <1>0, <1>6, Zenon DEF Reply, Reads, TypeOK, Links
  <2>2. Link(r, c)'
    BY <1>0, <1>6, <2>1, ReplyLinkStep, ZenonT(60)
  <2>3. UNCHANGED <<inbox, authed, srv_sub, cli_sub, sock>>
    BY <1>6, Zenon DEF Reply
  <2>4. \A s \in Clients : s # r =>
          /\ pc'[s] = pc[s] /\ batch'[s] = batch[s]
          /\ sock[s] # None => wire'[sock[s]] = wire[sock[s]]
    BY <1>0, <1>6, <1>12, Zenon DEF Reply, Pop, Goto, TypeOK
  <2> QED
    BY <1>0, <2>1, <2>2, <2>3, <2>4, OthersLinks, Zenon
<1>7. ASSUME NEW r \in Clients, SubscribeReply(r) \/ ReadReply(r) \/ UnsubscribeReply(r)
      PROVE  Links'
  <2>1. UNCHANGED <<batch, authed, srv_sub, sock>>
    BY <1>7, Zenon DEF SubscribeReply, ReadReply, UnsubscribeReply
  <2>2. sock[r] # None
    BY <1>0, <1>7, Zenon DEF SubscribeReply, ReadReply, UnsubscribeReply, Owners
  <2>3. PICK c \in Conns : c = sock[r] /\ c = sock'[r] /\ Link(r, c)
    BY <1>0, <2>1, <2>2, Zenon DEF TypeOK, Links
  <2>4. Link(r, c)'
    BY <1>0, <1>7, <2>3, SubscriberLinkStep, Zenon
  <2>5. \A s \in Clients : s # r =>
          /\ pc'[s] = pc[s]
          /\ sock[s] # None => /\ wire'[sock[s]] = wire[sock[s]]
                               /\ inbox'[sock[s]] = inbox[sock[s]]
                               /\ cli_sub'[sock[s]] = cli_sub[sock[s]]
    <3>1. CASE SubscribeReply(r)
      BY <1>0, <1>12, <3>1, Zenon DEF SubscribeReply, Pop, Goto, TypeOK
    <3>2. CASE ReadReply(r)
      BY <1>0, <1>12, <3>2, Zenon DEF ReadReply, Pop, Goto, TypeOK
    <3>3. CASE UnsubscribeReply(r)
      BY <1>0, <1>12, <3>3 DEF UnsubscribeReply, Pop, Goto, TypeOK
    <3> QED
      BY <1>7, <3>1, <3>2, <3>3, Zenon
  <2> QED
    BY <1>0, <2>1, <2>3, <2>4, <2>5, OthersLinks, Zenon
<1>8. ASSUME NEW r \in Clients, SetKeepalive(r) PROVE Links'
  <2>1. UNCHANGED <<inbox, authed, srv_sub, batch>>
    BY <1>8, Zenon DEF SetKeepalive
  <2>2. CASE ~ Drop(r)
    <3>1. /\ sock' = [sock EXCEPT ![r] = None] /\ Goto(r, "idle")
          /\ UNCHANGED <<cli_sub, wire>>
      BY <1>8, <2>2, Zenon DEF SetKeepalive
    <3>2. /\ sock'[r] = None
          /\ \A s \in Clients : s # r => pc'[s] = pc[s] /\ sock'[s] = sock[s]
      BY <1>0, <3>1, Zenon DEF Goto, TypeOK
    <3> QED
      BY <1>0, <2>1, <3>1, <3>2, OthersLinks, Zenon
  <2> QED
    BY <1>4, <2>1, <2>2, Zenon
<1>9. ASSUME NEW c \in Conns, ServerExec(c) \/ Push(c) \/ IdleTimeout(c) PROVE Links'
  <2> SUFFICES ASSUME NEW s \in Clients, (sock[s] # None)' PROVE Link(s, sock[s])'
    BY Zenon DEF Links
  <2>1. UNCHANGED <<pc, sock, batch, cli_sub>>
    BY <1>9, Zenon DEF ServerExec, Push, IdleTimeout
  <2>2. PICK d \in Conns : d = sock[s] /\ d = sock'[s] /\ Link(s, d) /\ d \in open
    BY <1>0, <2>1, Zenon DEF TypeOK, Links
  <2>3. CASE d # c \/ IdleTimeout(c)
    <3>1. /\ inbox'[d] = inbox[d] /\ wire'[d] = wire[d]
          /\ authed'[d] = authed[d] /\ srv_sub'[d] = srv_sub[d]
      BY <1>0, <1>9, <2>3 DEF ServerExec, Push, IdleTimeout, TypeOK
    <3>2. Link(s, d)'
      BY <2>1, <2>2, <3>1, LinkFrame, Zenon
    <3> QED
      BY <2>2, <3>2, Zenon
  <2>4. CASE d = c /\ ServerExec(c)
    <3>1. Link(s, d)'
      BY <1>0, <2>2, <2>4, ExecLink, Zenon
    <3> QED
      BY <2>2, <3>1, Zenon
  <2>5. CASE d = c /\ Push(c)
    <3>1. Link(s, d)'
      BY <1>0, <2>2, <2>5, PushLink, Zenon
    <3> QED
      BY <2>2, <3>1, Zenon
  <2> QED
    BY <1>9, <2>3, <2>4, <2>5, Zenon
<1>10. ASSUME NEW r \in Clients, Fail(r) PROVE Links'
  BY <1>4, <1>10, Zenon DEF Fail, DropOnError
<1>11. CASE UNCHANGED vars
  <2> SUFFICES ASSUME NEW s \in Clients, (sock[s] # None)' PROVE Link(s, sock[s])'
    BY Zenon DEF Links
  <2>1. UNCHANGED <<sock, pc, batch, inbox, wire, authed, srv_sub, cli_sub>>
    BY <1>11, Zenon DEF vars
  <2>2. PICK d \in Conns : d = sock[s] /\ d = sock'[s] /\ Link(s, d)
    BY <1>0, <2>1, Zenon DEF TypeOK, Links
  <2>3. Link(s, d)'
    BY <2>1, <2>2, LinkFrame, Zenon
  <2> QED
    BY <2>2, <2>3, Zenon
<1> QED
  BY <1>1, <1>2, <1>3, <1>5, <1>6, <1>7, <1>8, <1>9, <1>10, <1>11, Zenon DEF Next, ClientStep

(* Every step keeps the pool clean.                                        *)
LEMMA CleanStep == Connections /\ [Next]_vars => PoolClean'
<1> SUFFICES ASSUME Connections, [Next]_vars PROVE PoolClean'
  BY Zenon
<1>0. TypeOK /\ Owners /\ PoolClean /\ Links
  BY Zenon DEF Connections
<1> USE DEF libVars, srvVars, pipeVars, callVars
<1>1. CASE pool' \subseteq pool /\ UNCHANGED <<authed, srv_sub, inbox, wire>>
  BY <1>1, Zenon DEF Connections, PoolClean
<1>2. ASSUME NEW r \in Clients,
             InitPipeline(r) \/ DoCommand(r) \/ CommitPipeline(r) \/ Subscribe(r)
      PROVE  PoolClean'
  BY <1>1, <1>2, Zenon DEF InitPipeline, DoCommand, CommitPipeline, Subscribe
<1>3. ASSUME NEW r \in Clients, NEW c \in Conns, Connects(r, c),
             \A d \in Conns : d # c => inbox'[d] = inbox[d]
      PROVE  PoolClean'
  <2>1. pool' = pool \ {c} /\ pool \subseteq Conns
    BY <1>0, <1>3, Zenon DEF Connects, TypeOK
  <2> QED
    BY <1>0, <1>3, <2>1, ConnectsClean, ZenonT(60) DEF PoolClean
<1>4. ASSUME NEW r \in Clients, Connect(r) PROVE PoolClean'
  BY <1>3, <1>4, Zenon DEF Connect
<1>5. ASSUME NEW r \in Clients, DoAuth(r) PROVE PoolClean'
  BY <1>0, <1>3, <1>5 DEF DoAuth, TypeOK
<1>6. ASSUME NEW r \in Clients,
             AuthReply(r) \/ Reply(r) \/ SubscribeReply(r) \/ ReadReply(r) \/ UnsubscribeReply(r)
      PROVE  PoolClean'
  <2>1. pool' = pool /\ UNCHANGED <<authed, srv_sub>>
    BY <1>6, Zenon DEF AuthReply, Reply, SubscribeReply, ReadReply, UnsubscribeReply
  <2>2. sock[r] \notin pool /\ pool \subseteq Conns
    BY <1>0, RedisClientAssumption, Zenon DEF Owners, OneOwner, TypeOK
  <2>3. \A d \in pool : wire'[d] = wire[d] /\ inbox'[d] = inbox[d]
    <3>1. CASE AuthReply(r) \/ ReadReply(r)
      BY <1>0, <2>2, <3>1, ZenonT(60) DEF AuthReply, ReadReply, Pop, TypeOK
    <3>2. CASE Reply(r) \/ SubscribeReply(r) \/ UnsubscribeReply(r)
      BY <1>0, <2>2, <3>2, Zenon DEF Reply, SubscribeReply, UnsubscribeReply, Pop, TypeOK
    <3> QED
      BY <1>6, <3>1, <3>2, Zenon
  <2> QED
    BY <1>0, <2>1, <2>3, Zenon DEF PoolClean
<1>7. ASSUME NEW r \in Clients, Drop(r), UNCHANGED <<inbox, authed, srv_sub>> PROVE PoolClean'
  <2>1. sock[r] \notin pool /\ pool \subseteq Conns /\ pool' = pool
    BY <1>0, <1>7, RedisClientAssumption, Zenon DEF Owners, OneOwner, TypeOK, Drop
  <2>2. \A d \in pool : wire'[d] = wire[d]
    BY <1>0, <1>7, <2>1, Zenon DEF Drop, TypeOK
  <2> QED
    BY <1>0, <1>7, <2>1, <2>2, Zenon DEF PoolClean
<1>8. ASSUME NEW r \in Clients, SetKeepalive(r) PROVE PoolClean'
  <2>1. UNCHANGED <<inbox, authed, srv_sub>>
    BY <1>8, Zenon DEF SetKeepalive
  <2>2. CASE ~ Drop(r)
    <3>1. ~ cli_sub[sock[r]] /\ pool' \subseteq pool \cup {sock[r]} /\ wire' = wire
      BY <1>8, <2>2, Zenon DEF SetKeepalive
    <3>2. sock[r] # None /\ pc[r] = "keepalive"
      BY <1>0, <1>8, Zenon DEF SetKeepalive, Owners
    <3>3. PICK c \in Conns : c = sock[r] /\ Link(r, c)
      BY <1>0, <3>2, Zenon DEF Links, TypeOK
    <3>4. Clean(c) /\ authed[c]
      BY <3>1, <3>2, <3>3, Zenon DEF Link
    <3> QED
      BY <1>0, <2>1, <3>1, <3>3, <3>4, Zenon DEF PoolClean, Clean
  <2> QED
    BY <1>7, <2>1, <2>2, Zenon
<1>9. ASSUME NEW c \in Conns, IdleTimeout(c) PROVE PoolClean'
  BY <1>1, <1>9, Zenon DEF IdleTimeout
<1>10. ASSUME NEW c \in Conns, ServerExec(c) \/ Push(c) PROVE PoolClean'
  <2>1. c \notin pool /\ pool \subseteq Conns /\ pool' = pool
    BY <1>0, <1>10, Zenon DEF ServerExec, Push, PoolClean, TypeOK
  <2>2. \A d \in pool : /\ wire'[d] = wire[d] /\ inbox'[d] = inbox[d]
                        /\ authed'[d] = authed[d] /\ srv_sub'[d] = srv_sub[d]
    BY <1>0, <1>10, <2>1 DEF ServerExec, Push, TypeOK
  <2> QED
    BY <1>0, <2>1, <2>2, Zenon DEF PoolClean
<1>11. ASSUME NEW r \in Clients, Fail(r) PROVE PoolClean'
  BY <1>7, <1>11, Zenon DEF Fail, DropOnError
<1>12. CASE UNCHANGED vars
  BY <1>1, <1>12, Zenon DEF vars
<1> QED
  BY <1>2, <1>4, <1>5, <1>6, <1>8, <1>9, <1>10, <1>11, <1>12, Zenon DEF Next, ClientStep

-----------------------------------------------------------------------------
(* What is put on the connections.                                         *)

(* What a connection that had nothing to do is sent is what waits on it.   *)
LEMMA QueuedSend ==
    ASSUME TypeOK, NEW c \in Conns, NEW q \in Seq(Messages), inbox[c] = << >>,
           inbox' = [inbox EXCEPT ![c] = q],
           NEW s, NEW n
    PROVE  Queued(s, n)' <=> Queued(s, n) \/ \E i \in DOMAIN q : q[i] = Command(s, n)
<1>1. DOMAIN inbox[c] = {}
  OBVIOUS
<1>2. /\ inbox'[c] = q
      /\ \A d \in Conns : d # c => inbox'[d] = inbox[d]
  BY Zenon DEF TypeOK
<1> QED
  BY <1>1, <1>2 DEF Queued

(* What the server executes was sent before.                               *)
LEMMA ExecSent ==
    ASSUME TypeOK, NEW c \in Conns, ServerExec(c), NEW s, NEW n
    PROVE  /\ Queued(s, n)' => Queued(s, n)
           /\ Executed(s, n)' => Executed(s, n) \/ Queued(s, n)
           /\ Executed(s, n) => Executed(s, n)'
<1>1. /\ inbox[c] \in Seq(Messages) /\ inbox[c] # << >>
      /\ Head(inbox[c]) = inbox[c][1] /\ inbox[c][1] \in Messages /\ 1 \in DOMAIN inbox[c]
      /\ executed \in Seq(Messages)
  BY DEF ServerExec, TypeOK
<1>2. /\ inbox'[c] = Tail(inbox[c])
      /\ \A d \in Conns : d # c => inbox'[d] = inbox[d]
      /\ executed' = executed \/ (inbox[c][1].cmd = "data" /\ executed' = Append(executed, inbox[c][1]))
  BY <1>1, Zenon DEF ServerExec, TypeOK
<1>3. \A i \in DOMAIN inbox'[c] : i + 1 \in DOMAIN inbox[c] /\ inbox'[c][i] = inbox[c][i + 1]
  BY <1>1, <1>2
<1>4. Queued(s, n)' => Queued(s, n)
  BY <1>2, <1>3, ZenonT(60) DEF Queued
<1>5. CASE executed' = executed
  BY <1>4, <1>5, Zenon DEF Executed
<1>6. CASE inbox[c][1].cmd = "data" /\ executed' = Append(executed, inbox[c][1])
  <2>1. /\ \A i \in DOMAIN executed : i \in DOMAIN executed' /\ executed'[i] = executed[i]
        /\ \A i \in DOMAIN executed' : i \in DOMAIN executed \/ executed'[i] = inbox[c][1]
    BY <1>1, <1>6
  <2>2. inbox[c][1].from = s /\ inbox[c][1].n = n => inbox[c][1] = Command(s, n)
    BY <1>1, <1>6, Zenon DEF Command, Messages
  <2> QED
    BY <1>1, <1>4, <2>1, <2>2, Zenon DEF Executed, Queued
<1> QED
  BY <1>2, <1>5, <1>6, Zenon

(* A connection is sent something only when it has nothing else to do.     *)
Puts(c, q) == inbox[c] = << >> /\ inbox' = [inbox EXCEPT ![c] = q] /\ executed' = executed

Auth(r) == <<[cmd |-> "auth", from |-> r, n |-> 0]>>

Unsubscribe(r) == <<[cmd |-> "unsubscribe", from |-> r, n |-> 0]>>

(* AUTH and UNSUBSCRIBE are messages, and no commands.                     *)
LEMMA QuietType ==
    ASSUME NEW r \in Clients
    PROVE  /\ Auth(r) \in Seq(Messages) /\ \A i \in DOMAIN Auth(r) : Auth(r)[i].cmd = "auth"
           /\ Unsubscribe(r) \in Seq(Messages)
           /\ \A i \in DOMAIN Unsubscribe(r) : Unsubscribe(r)[i].cmd = "unsubscribe"
<1>1. /\ [cmd |-> "auth", from |-> r, n |-> 0] \in Messages
      /\ [cmd |-> "unsubscribe", from |-> r, n |-> 0] \in Messages
  BY RedisClientAssumption DEF Messages
<1>2. Auth(r) \in Seq(Messages) /\ \A i \in DOMAIN Auth(r) : Auth(r)[i].cmd = "auth"
  BY <1>1 DEF Auth
<1>3. /\ Unsubscribe(r) \in Seq(Messages)
      /\ \A i \in DOMAIN Unsubscribe(r) : Unsubscribe(r)[i].cmd = "unsubscribe"
  BY <1>1 DEF Unsubscribe
<1> QED
  BY <1>2, <1>3, Zenon

(* AUTH goes to a new connection, the operation's commands to one from the *)
(* pool.                                                                   *)
LEMMA DoAuthPuts ==
    ASSUME Connections, NEW r \in Clients, DoAuth(r)
    PROVE  \E c \in Conns : \/ Puts(c, Auth(r)) /\ pc'[r] = "auth_reply"
                            \/ Puts(c, Outgoing(r)) /\ pc'[r] = Waiting(r)
<1>0. TypeOK /\ Owners /\ PoolClean
  BY Zenon DEF Connections
<1>1. PICK c \in Conns :
        /\ Connects(r, c)
        /\ inbox' = [inbox EXCEPT ![c] = @ \o
                       IF NeedsAuth(c) THEN <<[cmd |-> "auth", from |-> r, n |-> 0]>>
                       ELSE Outgoing(r)]
        /\ Goto(r, IF NeedsAuth(c) THEN "auth_reply" ELSE Waiting(r))
        /\ executed' = executed
  BY ZenonT(60) DEF DoAuth
<1>2. inbox[c] = << >>
  BY <1>0, <1>1, ConnectsClean, Zenon
<1>3. Auth(r) \in Seq(Messages) /\ Outgoing(r) \in Seq(Messages)
  BY <1>0, OutgoingType, QuietType, Zenon
<1>4. << >> \o Auth(r) = Auth(r) /\ << >> \o Outgoing(r) = Outgoing(r)
  BY <1>3, ConcatEmptySeq, Zenon
<1>5. CASE NeedsAuth(c)
  <2>1. inbox' = [inbox EXCEPT ![c] = << >> \o Auth(r)] /\ pc'[r] = "auth_reply"
    BY <1>0, <1>1, <1>2, <1>5, Zenon DEF Auth, Goto, TypeOK
  <2> QED
    BY <1>1, <1>2, <1>4, <2>1, Zenon DEF Puts
<1>6. CASE ~ NeedsAuth(c)
  <2>1. inbox' = [inbox EXCEPT ![c] = << >> \o Outgoing(r)] /\ pc'[r] = Waiting(r)
    BY <1>0, <1>1, <1>2, <1>6, Zenon DEF Goto, TypeOK
  <2> QED
    BY <1>1, <1>2, <1>4, <2>1, Zenon DEF Puts
<1> QED
  BY <1>5, <1>6, Zenon

(* When AUTH is answered the operation's commands go out.                  *)
LEMMA AuthReplyPuts ==
    ASSUME Connections, NEW r \in Clients, AuthReply(r)
    PROVE  \E c \in Conns : Puts(c, Outgoing(r)) /\ pc'[r] = Waiting(r)
<1>0. TypeOK /\ Links
  BY Zenon DEF Connections
<1>1. PICK c \in Conns : c = sock[r] /\ Link(r, c)
  BY <1>0, Zenon DEF AuthReply, Reads, TypeOK, Links
<1>2. inbox[c] = << >> /\ pc'[r] = Waiting(r)
  BY <1>0, <1>1, Zenon DEF AuthReply, Reads, Link, AuthLink, Goto, TypeOK
<1>3. << >> \o Outgoing(r) = Outgoing(r)
  BY <1>0, OutgoingType, ConcatEmptySeq, Zenon
<1>4. inbox' = [inbox EXCEPT ![c] = << >> \o Outgoing(r)] /\ executed' = executed
  BY <1>1, <1>2, Zenon DEF AuthReply
<1> QED
  BY <1>2, <1>3, <1>4, ZenonT(60) DEF Puts

(* UNSUBSCRIBE goes out when nothing else does.                            *)
LEMMA ReadReplyPuts ==
    ASSUME Connections, NEW r \in Clients, ReadReply(r)
    PROVE  \E c \in Conns : Puts(c, Unsubscribe(r))
<1>0. TypeOK /\ Links
  BY Zenon DEF Connections
<1>1. PICK c \in Conns : c = sock[r] /\ Link(r, c)
  BY <1>0, Zenon DEF ReadReply, Reads, TypeOK, Links
<1>2. inbox[c] = << >>
  BY <1>1, Zenon DEF ReadReply, Link, MessageLink
<1>3. /\ inbox' = [inbox EXCEPT ![c] = Append(<< >>, [cmd |-> "unsubscribe", from |-> r, n |-> 0])]
      /\ executed' = executed
  BY <1>1, <1>2, Zenon DEF ReadReply
<1>4. Append(<< >>, [cmd |-> "unsubscribe", from |-> r, n |-> 0]) = Unsubscribe(r)
  BY DEF Unsubscribe
<1> QED
  BY <1>2, <1>3, <1>4, ZenonT(60) DEF Puts

(* The other steps send nothing.                                           *)
LEMMA PutsNothing ==
    ASSUME [Next]_vars,
           ~ \E r \in Clients : DoAuth(r) \/ AuthReply(r) \/ ReadReply(r),
           ~ \E c \in Conns : ServerExec(c)
    PROVE  inbox' = inbox /\ executed' = executed
<1> USE DEF libVars, srvVars, pipeVars, callVars
<1>1. ASSUME NEW r \in Clients,
             \/ InitPipeline(r) \/ DoCommand(r) \/ CommitPipeline(r) \/ Subscribe(r)
             \/ Connect(r) \/ Fail(r)
      PROVE  inbox' = inbox /\ executed' = executed
  BY <1>1, Zenon DEF InitPipeline, DoCommand, CommitPipeline, Subscribe, Connect, Fail
<1>2. ASSUME NEW r \in Clients,
             Reply(r) \/ SubscribeReply(r) \/ UnsubscribeReply(r) \/ SetKeepalive(r)
      PROVE  inbox' = inbox /\ executed' = executed
  BY <1>2, Zenon DEF Reply, SubscribeReply, UnsubscribeReply, SetKeepalive
<1>3. ASSUME NEW c \in Conns, IdleTimeout(c) \/ Push(c)
      PROVE  inbox' = inbox /\ executed' = executed
  BY <1>3, Zenon DEF IdleTimeout, Push
<1>4. CASE UNCHANGED vars
  BY <1>4, Zenon DEF vars
<1> QED
  BY <1>1, <1>2, <1>3, <1>4, Zenon DEF Next, ClientStep

(* Only an operation's commands are commands.                              *)
LEMMA PutsQuietly ==
    ASSUME TypeOK, NEW r \in Clients, NEW c \in Conns, NEW q \in {Auth(r), Unsubscribe(r)},
           Puts(c, q), NEW s, NEW n
    PROVE  Sent(s, n)' <=> Sent(s, n)
<1>1. q \in Seq(Messages) /\ \A i \in DOMAIN q : q[i] # Command(s, n)
  BY QuietType DEF Command
<1>2. Queued(s, n)' <=> Queued(s, n)
  BY <1>1, QueuedSend, Zenon DEF Puts
<1> QED
  BY <1>2, Zenon DEF Sent, Executed, Puts

(* An operation that sends its commands adds them to those sent.           *)
LEMMA PutsCommands ==
    ASSUME TypeOK, NEW r \in Clients, NEW c \in Conns, Puts(c, Outgoing(r)), NEW s, NEW n
    PROVE  Sent(s, n)' =>
             Sent(s, n) \/ (s = r /\ op[r] # "subscribe" /\ \E i \in DOMAIN batch[r] : n = batch[r][i])
<1>1. Queued(s, n)' <=> Queued(s, n) \/ \E i \in DOMAIN Outgoing(r) : Outgoing(r)[i] = Command(s, n)
  BY QueuedSend, OutgoingType, ZenonT(60) DEF Puts
<1>2. Executed(s, n)' = Executed(s, n)
  BY Zenon DEF Executed, Puts
<1>3. ASSUME NEW i \in DOMAIN Outgoing(r), Outgoing(r)[i] = Command(s, n)
      PROVE  s = r /\ op[r] # "subscribe" /\ \E j \in DOMAIN batch[r] : n = batch[r][j]
  <2>1. Outgoing(r) \in Seq(Messages) /\ batch[r] \in Seq(1..MaxCmds)
    BY OutgoingType, Zenon DEF TypeOK
  <2>2. op[r] # "subscribe"
    <3> SUFFICES ASSUME op[r] = "subscribe" PROVE FALSE
      BY Zenon
    <3>1. Len(Outgoing(r)) = 1 /\ Outgoing(r)[1].cmd = "subscribe"
      BY OutgoingIs, Zenon
    <3>2. i = 1
      BY <1>3, <2>1, <3>1
    <3>3. Outgoing(r)[i].cmd = "data"
      BY <1>3 DEF Command
    <3> QED
      BY <3>1, <3>2, <3>3, Zenon
  <2>3. i \in DOMAIN batch[r] /\ Outgoing(r)[i] = Command(r, batch[r][i])
    BY <1>3, <2>1, <2>2, OutgoingIs
  <2>4. s = r /\ n = batch[r][i]
    BY <1>3, <2>3 DEF Command
  <2> QED
    BY <2>2, <2>3, <2>4, Zenon
<1> QED
  BY <1>1, <1>2, <1>3, Zenon DEF Sent

(* A command is determined by its request and its number.                  *)
LEMMA CommandIs ==
    ASSUME NEW m \in Messages, m.cmd = "data"
    PROVE  m = Command(m.from, m.n)
  BY Zenon DEF Messages, Command

=============================================================================
