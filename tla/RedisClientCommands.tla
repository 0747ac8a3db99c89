------------------------- MODULE RedisClientCommands ------------------------
(***************************************************************************)
(* Third part: a command is in one place, the numbers of commands, and the *)
(* order in which the server executes them.                                *)
(***************************************************************************)
EXTENDS RedisClientLinks

-----------------------------------------------------------------------------
(* The commands.                                                           *)

(* Sending commands that were not sent before keeps them unique.           *)
LEMMA PutsUnique ==
    ASSUME TypeOK, Unique, NEW c \in Conns, NEW q \in Seq(Messages), Puts(c, q),
           \A i \in DOMAIN q : q[i].cmd = "data" =>
               q[i].from \in Clients /\ ~ Sent(q[i].from, q[i].n),
           \A i, j \in DOMAIN q : q[i].cmd = "data" /\ q[i] = q[j] => i = j
    PROVE  Unique'
<1>1. /\ executed' = executed /\ inbox'[c] = q
      /\ \A d \in Conns : d # c => inbox'[d] = inbox[d]
  BY Zenon DEF Puts, TypeOK
<1>2. \A i \in DOMAIN q : q[i].cmd = "data" => q[i] = Command(q[i].from, q[i].n)
  BY CommandIs
<1>3. \A i \in DOMAIN q : q[i].cmd = "data" =>
        \A j \in DOMAIN executed : ~ (executed[j].from = q[i].from /\ executed[j].n = q[i].n)
  BY Zenon DEF Sent, Executed
<1>4. \A i \in DOMAIN q, d \in Conns : \A j \in DOMAIN inbox[d] :
        q[i].cmd = "data" => q[i] # inbox[d][j]
  BY <1>2 DEF Sent, Queued
<1>5. /\ \A i \in DOMAIN executed' : executed'[i].from \in Clients
      /\ \A i, j \in DOMAIN executed' :
           executed'[i].from = executed'[j].from /\ executed'[i].n = executed'[j].n => i = j
  BY <1>1, Zenon DEF Unique
<1>6. \A d \in Conns : \A i \in DOMAIN inbox'[d] : Data(d, i)' =>
        /\ inbox'[d][i].from \in Clients
        /\ \A j \in DOMAIN executed' :
             ~ (executed'[j].from = inbox'[d][i].from /\ executed'[j].n = inbox'[d][i].n)
  <2> SUFFICES ASSUME NEW d \in Conns, NEW i \in DOMAIN inbox'[d], Data(d, i)'
               PROVE  /\ inbox'[d][i].from \in Clients
                      /\ \A j \in DOMAIN executed' :
                           ~ (executed'[j].from = inbox'[d][i].from /\ executed'[j].n = inbox'[d][i].n)
    BY Zenon
  <2>1. CASE d = c
    BY <1>1, <1>3, <2>1, Zenon DEF Data
  <2>2. CASE d # c
    BY <1>1, <2>2 DEF Data, Unique
  <2> QED
    BY <2>1, <2>2, Zenon
<1>7. \A d, e \in Conns : \A i \in DOMAIN inbox'[d], j \in DOMAIN inbox'[e] :
        Data(d, i)' /\ inbox'[d][i] = inbox'[e][j] => d = e /\ i = j
  <2> SUFFICES ASSUME NEW d \in Conns, NEW e \in Conns,
                      NEW i \in DOMAIN inbox'[d], NEW j \in DOMAIN inbox'[e],
                      Data(d, i)', inbox'[d][i] = inbox'[e][j]
               PROVE  d = e /\ i = j
    BY Zenon
  <2>1. inbox'[d][i].cmd = "data" /\ inbox'[e][j].cmd = "data"
    BY Zenon DEF Data
  <2>2. CASE d = c /\ e = c
    BY <1>1, <2>1, <2>2, Zenon
  <2>3. CASE d = c /\ e # c
    BY <1>1, <1>4, <2>1, <2>3
  <2>4. CASE d # c /\ e = c
    BY <1>1, <1>4, <2>1, <2>4
  <2>5. CASE d # c /\ e # c
    BY <1>1, <2>1, <2>5 DEF Unique, Data
  <2> QED
    BY <2>2, <2>3, <2>4, <2>5, Zenon
<1> QED
  BY <1>5, <1>6, <1>7, Zenon DEF Unique

(* The server takes a command out of the inbox when it executes it.        *)
LEMMA ExecUnique ==
    ASSUME TypeOK, Unique, NEW c \in Conns, ServerExec(c)
    PROVE  Unique'
<1>1. /\ inbox[c] \in Seq(Messages) /\ inbox[c] # << >>
      /\ Head(inbox[c]) = inbox[c][1] /\ 1 \in DOMAIN inbox[c]
      /\ executed \in Seq(Messages) /\ inbox[c][1] \in Messages
  BY DEF ServerExec, TypeOK
<1>2. PICK m \in Messages : m = inbox[c][1] /\ m = Head(inbox[c])
  BY <1>1, Zenon
<1>3. /\ inbox'[c] = Tail(inbox[c])
      /\ \A d \in Conns : d # c => inbox'[d] = inbox[d]
      /\ executed' = executed \/ (m.cmd = "data" /\ executed' = Append(executed, m))
  BY <1>2, Zenon DEF ServerExec, TypeOK
<1> DEFINE was(d, i) == IF d = c THEN i + 1 ELSE i
<1>4. \A d \in Conns : \A i \in DOMAIN inbox'[d] :
        was(d, i) \in DOMAIN inbox[d] /\ inbox'[d][i] = inbox[d][was(d, i)]
  <2>1. \A i \in DOMAIN inbox'[c] : i + 1 \in DOMAIN inbox[c] /\ inbox'[c][i] = inbox[c][i + 1]
    BY <1>1, <1>3
  <2> QED
    BY <1>3, <2>1, Zenon
<1>5. \A d \in Conns : \A i, j \in DOMAIN inbox'[d] :
        i \in Nat \ {0} /\ (was(d, i) = was(d, j) => i = j) /\ (d = c => was(d, i) # 1)
  <2>1. \A d \in Conns : inbox[d] \in Seq(Messages)
    BY Zenon DEF TypeOK
  <2>2. \A d \in Conns : inbox'[d] \in Seq(Messages)
    <3>1. inbox'[c] \in Seq(Messages)
      BY <1>1, <1>3, HeadTailProperties, Zenon
    <3> QED
      BY <1>3, <2>1, <3>1, Zenon
  <2>3. \A d \in Conns : \A i \in DOMAIN inbox'[d] : i \in Nat \ {0}
    BY <2>2
  <2> QED
    BY <2>3
<1>6. \A d \in Conns : \A i \in DOMAIN inbox'[d] : Data(d, i)' => Data(d, was(d, i))
  BY <1>4, Zenon DEF Data
<1> HIDE DEF was
<1>7. \A d, e \in Conns : \A i \in DOMAIN inbox'[d], j \in DOMAIN inbox'[e] :
        Data(d, i)' /\ inbox'[d][i] = inbox'[e][j] => d = e /\ i = j
  <2> SUFFICES ASSUME NEW d \in Conns, NEW e \in Conns,
                      NEW i \in DOMAIN inbox'[d], NEW j \in DOMAIN inbox'[e],
                      Data(d, i)', inbox'[d][i] = inbox'[e][j]
               PROVE  d = e /\ i = j
    BY Zenon
  <2>1. d = e /\ was(d, i) = was(e, j)
    BY <1>4, <1>6 DEF Unique
  <2> QED
    BY <1>5, <2>1, Zenon
<1>8. \A d \in Conns : \A i \in DOMAIN inbox'[d] : Data(d, i)' =>
        /\ inbox'[d][i].from \in Clients
        /\ \A j \in DOMAIN executed :
             ~ (executed[j].from = inbox'[d][i].from /\ executed[j].n = inbox'[d][i].n)
  BY <1>4, <1>6 DEF Unique
<1>9. CASE executed' = executed
  BY <1>7, <1>8, <1>9 DEF Unique
<1>10. CASE m.cmd = "data" /\ executed' = Append(executed, m)
  <2>1. Data(c, 1)
    BY <1>1, <1>2, <1>10, Zenon DEF Data
  <2>2. m.from \in Clients /\ \A j \in DOMAIN executed :
          ~ (executed[j].from = m.from /\ executed[j].n = m.n)
    BY <1>1, <1>2, <2>1 DEF Unique
  <2>3. \A d \in Conns : \A i \in DOMAIN inbox'[d] : Data(d, i)' =>
          ~ (m.from = inbox'[d][i].from /\ m.n = inbox'[d][i].n)
    <3> SUFFICES ASSUME NEW d \in Conns, NEW i \in DOMAIN inbox'[d], Data(d, i)',
                        m.from = inbox'[d][i].from, m.n = inbox'[d][i].n
                 PROVE  FALSE
      BY Zenon
    <3>1. inbox[d][was(d, i)] \in Messages /\ inbox[d][was(d, i)].cmd = "data"
      BY <1>4, <1>6 DEF TypeOK, Data
    <3>2. m = inbox[d][was(d, i)]
      <4>1. m = Command(m.from, m.n)
        BY <1>10, CommandIs, Zenon
      <4>2. inbox[d][was(d, i)] = Command(inbox[d][was(d, i)].from, inbox[d][was(d, i)].n)
        BY <3>1, CommandIs, Zenon
      <4> QED
        BY <1>4, <4>1, <4>2, Zenon
    <3>3. d = c /\ was(d, i) = 1
      BY <1>1, <1>2, <1>4, <1>6, <2>1, <3>2 DEF Unique
    <3> QED
      BY <1>5, <3>3, Zenon
  <2>4. \A i \in DOMAIN executed' : (i \in DOMAIN executed /\ executed'[i] = executed[i])
                                    \/ (i = Len(executed) + 1 /\ executed'[i] = m)
    BY <1>1, <1>10
  <2>5. \A i \in DOMAIN executed' : executed'[i].from \in Clients
    BY <2>2, <2>4, Zenon DEF Unique
  <2>6. \A i, j \in DOMAIN executed' :
          executed'[i].from = executed'[j].from /\ executed'[i].n = executed'[j].n => i = j
    BY <2>2, <2>4 DEF Unique
  <2>7. \A d \in Conns : \A i \in DOMAIN inbox'[d] : Data(d, i)' =>
          /\ inbox'[d][i].from \in Clients
          /\ \A j \in DOMAIN executed' :
               ~ (executed'[j].from = inbox'[d][i].from /\ executed'[j].n = inbox'[d][i].n)
    BY <1>8, <2>3, <2>4
  <2> QED
    BY <1>7, <2>5, <2>6, <2>7, Zenon DEF Unique
<1> QED
  BY <1>3, <1>9, <1>10, Zenon

(* The members of a sequence of numbers are numbers.                       *)
LEMMA NumberTypes ==
    ASSUME NEW s \in Seq(1..MaxCmds), NEW i \in DOMAIN s
    PROVE  s[i] \in 1..MaxCmds /\ s[i] \in Nat
<1>1. i \in 1..Len(s)
  OBVIOUS
<1>2. s[i] \in 1..MaxCmds
  BY <1>1, ElementOfSeq, Zenon
<1> QED
  BY <1>2, RedisClientAssumption

(* The commands of an operation were not sent before it sends them.        *)
LEMMA OutgoingNew ==
    ASSUME TypeOK, Numbers, NEW r \in Clients, pc[r] \in Unsent
    PROVE  /\ \A i \in DOMAIN Outgoing(r) : Outgoing(r)[i].cmd = "data" =>
                Outgoing(r)[i].from \in Clients /\ ~ Sent(Outgoing(r)[i].from, Outgoing(r)[i].n)
           /\ \A i, j \in DOMAIN Outgoing(r) :
                Outgoing(r)[i].cmd = "data" /\ Outgoing(r)[i] = Outgoing(r)[j] => i = j
<1>1. Outgoing(r) \in Seq(Messages) /\ batch[r] \in Seq(1..MaxCmds)
  BY OutgoingType, Zenon DEF TypeOK
<1>2. CASE op[r] = "subscribe"
  BY <1>1, <1>2, OutgoingIs
<1>3. CASE op[r] # "subscribe"
  <2>1. New(r, batch[r])
    BY <1>3, Zenon DEF Numbers, NumbersOf
  <2>2. \A i \in DOMAIN Outgoing(r) : /\ i \in DOMAIN batch[r] /\ i \in Nat
                                      /\ Outgoing(r)[i] = Command(r, batch[r][i])
    BY <1>1, <1>3, OutgoingIs
  <2>3. \A i \in DOMAIN batch[r] : batch[r][i] \in 1..MaxCmds /\ ~ Sent(r, batch[r][i])
    <3> SUFFICES ASSUME NEW i \in DOMAIN batch[r]
                 PROVE  batch[r][i] \in 1..MaxCmds /\ ~ Sent(r, batch[r][i])
      BY Zenon
    <3>1. batch[r][i] \in 1..MaxCmds
      BY <1>1, NumberTypes, Zenon
    <3>2. ~ (batch[r][i] < batch[r][i])
      BY <3>1
    <3> QED
      BY <2>1, <3>1, <3>2, Zenon DEF New
  <2>4. \A i, j \in DOMAIN Outgoing(r) : Outgoing(r)[i] = Outgoing(r)[j] => i = j
    <3> SUFFICES ASSUME NEW i \in DOMAIN Outgoing(r), NEW j \in DOMAIN Outgoing(r),
                        Outgoing(r)[i] = Outgoing(r)[j], i < j \/ j < i
                 PROVE  FALSE
      BY <2>2
    <3>1. batch[r][i] = batch[r][j] /\ batch[r][i] \in Nat
      BY <2>2, <2>3 DEF Command
    <3> QED
      BY <2>1, <2>2, <3>1 DEF New, Ascending
  <2> QED
    BY <2>2, <2>3, <2>4 DEF Command
<1> QED
  BY <1>2, <1>3, Zenon

(* Every step keeps the commands unique.                                   *)
LEMMA UniqueStep == Connections /\ Unique /\ Numbers /\ [Next]_vars => Unique'
<1> SUFFICES ASSUME Connections, Unique, Numbers, [Next]_vars PROVE Unique'
  BY Zenon
<1>0. TypeOK
  BY Zenon DEF Connections
<1>1. ASSUME NEW r \in Clients, NEW c \in Conns, Puts(c, Outgoing(r)), pc[r] \in Unsent
      PROVE  Unique'
  BY <1>0, <1>1, OutgoingType, OutgoingNew, PutsUnique, Zenon
<1>2. ASSUME NEW r \in Clients, NEW c \in Conns, NEW q \in {Auth(r), Unsubscribe(r)}, Puts(c, q)
      PROVE  Unique'
  <2>1. q \in Seq(Messages) /\ \A i \in DOMAIN q : q[i].cmd # "data"
    BY QuietType, Zenon
  <2> QED
    BY <1>0, <1>2, <2>1, PutsUnique, Zenon
<1>3. ASSUME NEW r \in Clients, DoAuth(r) PROVE Unique'
  BY <1>1, <1>2, <1>3, DoAuthPuts, Zenon DEF DoAuth, Unsent
<1>4. ASSUME NEW r \in Clients, AuthReply(r) PROVE Unique'
  BY <1>1, <1>4, AuthReplyPuts, Zenon DEF AuthReply, Unsent
<1>5. ASSUME NEW r \in Clients, ReadReply(r) PROVE Unique'
  BY <1>2, <1>5, ReadReplyPuts, Zenon
<1>6. ASSUME NEW c \in Conns, ServerExec(c) PROVE Unique'
  BY <1>0, <1>6, ExecUnique, Zenon
<1>7. CASE inbox' = inbox /\ executed' = executed
  BY <1>7 DEF Unique, Data
<1> QED
  BY <1>3, <1>4, <1>5, <1>6, <1>7, PutsNothing, Zenon

(* The steps that send nothing, except those that take up new commands     *)
(* or read a reply, keep the numbers.                                      *)
LEMMA NumbersQuiet ==
    ASSUME NEW s \in Clients, NumbersOf(s),
           \A n \in 1..MaxCmds : Sent(s, n)' => Sent(s, n),
           op'[s] = op[s], batch'[s] = batch[s], reqs'[s] = reqs[s],
           pipelining'[s] = pipelining[s], issued'[s] = issued[s], done'[s] = done[s],
           pc'[s] \in Unsent => pc[s] \in Unsent,
           pc'[s] = "reply" => pc[s] = "reply"
    PROVE  NumbersOf(s)'
  BY Zenon DEF NumbersOf, New, Ascending

(* A new command has a higher number than every command before it.         *)
LEMMA NumbersDoCommand ==
    ASSUME TypeOK, NEW r \in Clients, NumbersOf(r), DoCommand(r),
           \A n \in 1..MaxCmds : Sent(r, n)' => Sent(r, n)
    PROVE  NumbersOf(r)'
<1>1. PICK k \in 1..MaxCmds : k = issued[r] + 1 /\ issued'[r] = k
  BY DEF DoCommand, TypeOK
<1>2. pc[r] = "idle" /\ pipelining' = pipelining /\ issued[r] \in Nat /\ issued[r] < k
  BY <1>1 DEF DoCommand, TypeOK
<1>3. \A n \in 1..MaxCmds : Sent(r, n)' => n < k /\ n <= k
  BY <1>1, <1>2 DEF NumbersOf
<1>4. /\ reqs[r] \in Seq(1..MaxCmds) /\ Ascending(reqs[r])
      /\ \A i \in DOMAIN reqs[r] :
           /\ reqs[r][i] \in Nat /\ reqs[r][i] < k /\ reqs[r][i] <= k
           /\ \A n \in 1..MaxCmds : Sent(r, n)' => n < reqs[r][i]
  <2>1. reqs[r] \in Seq(1..MaxCmds) /\ New(r, reqs[r])
    BY Zenon DEF TypeOK, NumbersOf
  <2>2. \A i \in DOMAIN reqs[r] : reqs[r][i] \in Nat
    BY <2>1, NumberTypes, Zenon
  <2> QED
    BY <1>1, <1>2, <2>1, <2>2 DEF New
<1>5. CASE pipelining[r]
  <2>1. reqs'[r] = Append(reqs[r], k) /\ UNCHANGED <<pc, batch>>
    BY <1>1, <1>5 DEF DoCommand, TypeOK, callVars
  <2>2. \A i \in DOMAIN reqs'[r] : \/ i \in DOMAIN reqs[r] /\ reqs'[r][i] = reqs[r][i]
                                   \/ i = Len(reqs[r]) + 1 /\ reqs'[r][i] = k
    BY <1>4, <2>1
  <2>3. \A i \in DOMAIN reqs[r] : i < Len(reqs[r]) + 1 /\ ~ (Len(reqs[r]) + 1 < i)
    BY <1>4
  <2>4. ~ (Len(reqs[r]) + 1 < Len(reqs[r]) + 1)
    BY <1>4
  <2>5. Ascending(reqs'[r])
    BY <1>4, <2>2, <2>3, <2>4, Zenon DEF Ascending
  <2>6. New(r, reqs[r])'
    BY <1>1, <1>3, <1>4, <2>2, <2>5 DEF New, Ascending
  <2> QED
    BY <1>1, <1>2, <1>3, <1>5, <2>1, <2>6, Zenon DEF NumbersOf, Unsent
<1>6. CASE ~ pipelining[r]
  <2>1. reqs' = reqs /\ batch'[r] = <<k>> /\ pc'[r] = "connect"
    BY <1>1, <1>6 DEF DoCommand, Begin, Goto, TypeOK
  <2>2. reqs[r] = << >>
    BY <1>6, Zenon DEF NumbersOf
  <2>3. New(r, reqs[r])'
    BY <2>1, <2>2 DEF New, Ascending
  <2>4. New(r, batch[r])' /\ batch'[r] # << >>
    BY <1>1, <1>3, <2>1 DEF New, Ascending
  <2> QED
    BY <1>1, <1>2, <1>3, <1>6, <2>1, <2>2, <2>3, <2>4, Zenon DEF NumbersOf
<1> QED
  BY <1>5, <1>6, Zenon

(* The other calls of the client object.                                   *)
LEMMA NumbersCalls ==
    ASSUME TypeOK, NEW r \in Clients, NumbersOf(r),
           InitPipeline(r) \/ CommitPipeline(r) \/ Subscribe(r),
           \A n \in 1..MaxCmds : Sent(r, n)' => Sent(r, n)
    PROVE  NumbersOf(r)'
<1>1. CASE InitPipeline(r)
  <2>1. /\ reqs'[r] = << >> /\ pipelining'[r] /\ UNCHANGED <<pc, issued>> /\ pc[r] = "idle"
    BY <1>1, Zenon DEF InitPipeline, TypeOK
  <2>2. New(r, reqs[r])'
    BY <2>1 DEF New, Ascending
  <2> QED
    BY <2>1, <2>2, Zenon DEF NumbersOf, Unsent
<1>2. CASE CommitPipeline(r)
  <2>1. /\ reqs'[r] = << >> /\ ~ pipelining'[r] /\ batch'[r] = reqs[r] /\ reqs[r] # << >>
        /\ issued' = issued /\ pc'[r] = "connect"
    BY <1>2, Zenon DEF CommitPipeline, EndPipeline, Begin, Goto, TypeOK
  <2>2. New(r, reqs[r])'
    BY <2>1 DEF New, Ascending
  <2>3. New(r, batch[r])'
    BY <2>1, Zenon DEF NumbersOf, New
  <2> QED
    BY <2>1, <2>2, <2>3, Zenon DEF NumbersOf
<1>3. CASE Subscribe(r)
  <2>1. /\ UNCHANGED <<pipelining, reqs>> /\ op'[r] = "subscribe" /\ pc'[r] = "connect"
        /\ issued[r] \in Nat /\ issued'[r] = issued[r] + 1
    BY <1>3 DEF Subscribe, Begin, Goto, TypeOK, pipeVars
  <2>2. \A n \in Nat : n <= issued[r] => n <= issued'[r]
    BY <2>1
  <2>3. \A i \in DOMAIN reqs[r] : reqs[r][i] \in Nat
    BY NumberTypes, Zenon DEF TypeOK
  <2>4. New(r, reqs[r])'
    BY <2>1, <2>2, <2>3, Zenon DEF NumbersOf, New
  <2> QED
    BY <2>1, <2>2, <2>4 DEF NumbersOf
<1> QED
  BY <1>1, <1>2, <1>3, Zenon

(* Sending the commands of a batch: they were numbered last.               *)
LEMMA NumbersSend ==
    ASSUME TypeOK, Order, NEW r \in Clients, NumbersOf(r), NEW c \in Conns,
           Puts(c, Outgoing(r)), pc[r] \in Unsent, pc'[r] = Waiting(r),
           UNCHANGED <<op, batch, reqs, pipelining, issued, done>>
    PROVE  NumbersOf(r)'
<1>1. \A n \in 1..MaxCmds : Sent(r, n)' =>
        Sent(r, n) \/ (op[r] # "subscribe" /\ \E i \in DOMAIN batch[r] : n = batch[r][i])
  BY PutsCommands, Zenon
<1>2. CASE op[r] = "subscribe"
  BY <1>1, <1>2, NumbersQuiet, Zenon DEF Waiting, Unsent
<1>3. CASE op[r] # "subscribe"
  <2>1. ~ pipelining[r] /\ reqs[r] = << >> /\ New(r, batch[r]) /\ pc'[r] = "reply"
    BY <1>3, ZenonT(60) DEF NumbersOf, Waiting
  <2>2. \A n \in 1..MaxCmds : Sent(r, n)' => n <= issued[r]
    BY <1>1, <2>1, Zenon DEF NumbersOf, New
  <2>3. New(r, reqs[r])'
    BY <2>1 DEF New, Ascending
  <2>4. \A n \in done[r] : n \in 1..MaxCmds /\ Sent(r, n)
    BY Zenon DEF Order, Answered, Sent, TypeOK
  <2>5. \A i \in DOMAIN batch[r] : \A n \in done[r] : n < batch[r][i]
    BY <2>1, <2>4, Zenon DEF New
  <2> QED
    BY <2>1, <2>2, <2>3, <2>5, Zenon DEF NumbersOf, New, Unsent, Ascending
<1> QED
  BY <1>2, <1>3, Zenon

(* Reading a reply: the number answered is the lowest of the batch.        *)
LEMMA NumbersReply ==
    ASSUME TypeOK, Links, NEW r \in Clients, NumbersOf(r), Reply(r)
    PROVE  NumbersOf(r)'
<1>1. batch[r] \in Seq(1..MaxCmds) /\ batch[r] # << >> /\ pc[r] = "reply"
  <2>1. pc[r] = "reply" /\ sock[r] # None
    BY Zenon DEF Reply, Reads
  <2>2. ReplyLink(r, sock[r])
    BY <2>1, Zenon DEF Links, Link
  <2>3. batch[r] \in Seq(1..MaxCmds)
    BY Zenon DEF TypeOK
  <2> QED
    BY <2>1, <2>2, <2>3, Zenon DEF ReplyLink
<1>2. /\ batch'[r] = Tail(batch[r]) /\ done'[r] = done[r] \cup {batch[r][1]}
      /\ UNCHANGED <<op, reqs, pipelining, issued, inbox, executed>>
      /\ pc'[r] \in {"reply", "keepalive"}
  BY <1>1 DEF TypeOK, Reply, Goto, pipeVars
<1>3. \A n \in 1..MaxCmds : Sent(r, n)' => Sent(r, n)
  BY <1>2, Zenon DEF Sent, Executed, Queued
<1>4. \A i \in DOMAIN Tail(batch[r]) :
        /\ i + 1 \in DOMAIN batch[r] /\ Tail(batch[r])[i] = batch[r][i + 1]
        /\ i \in Nat /\ 1 < i + 1 /\ 1 \in DOMAIN batch[r]
  BY <1>1
<1>5. Ascending(batch[r]) /\ \A i \in DOMAIN batch[r] : \A n \in done[r] : n < batch[r][i]
  BY <1>1, Zenon DEF NumbersOf
<1>6. Ascending(Tail(batch[r]))
  <2> SUFFICES ASSUME NEW i \in DOMAIN Tail(batch[r]), NEW j \in DOMAIN Tail(batch[r]), i < j
               PROVE  Tail(batch[r])[i] < Tail(batch[r])[j]
    BY Zenon DEF Ascending
  <2>1. i + 1 < j + 1
    BY <1>4
  <2> QED
    BY <1>4, <1>5, <2>1, Zenon DEF Ascending
<1>7. \A i \in DOMAIN Tail(batch[r]) : \A n \in done'[r] : n < Tail(batch[r])[i]
  BY <1>2, <1>4, <1>5, Zenon DEF Ascending
<1> QED
  BY <1>1, <1>2, <1>3, <1>6, <1>7, ZenonT(60) DEF NumbersOf, New, Unsent, Ascending

(* Every step keeps the numbers.                                           *)
LEMMA NumbersStep == Connections /\ Numbers /\ Order /\ [Next]_vars => Numbers'
<1> SUFFICES ASSUME Connections, Numbers, Order, [Next]_vars, NEW s \in Clients
             PROVE  NumbersOf(s)'
  BY Zenon DEF Numbers
<1>0. TypeOK /\ Links /\ NumbersOf(s)
  BY Zenon DEF Connections, Numbers
<1> USE DEF libVars, srvVars, pipeVars, callVars
<1> DEFINE SentBefore == \A n \in 1..MaxCmds : Sent(s, n)' => Sent(s, n)
           Same(r) == /\ op'[r] = op[r] /\ batch'[r] = batch[r] /\ reqs'[r] = reqs[r]
                      /\ pipelining'[r] = pipelining[r] /\ issued'[r] = issued[r]
                      /\ done'[r] = done[r]
<1>1. inbox' = inbox /\ executed' = executed => SentBefore
  BY Zenon DEF Sent, Executed, Queued
<1>2. ASSUME SentBefore, Same(s), pc'[s] \in Unsent => pc[s] \in Unsent,
             pc'[s] = "reply" => pc[s] = "reply"
      PROVE  NumbersOf(s)'
  BY <1>0, <1>2, NumbersQuiet, Zenon
<1>3. ASSUME NEW r \in Clients,
             InitPipeline(r) \/ DoCommand(r) \/ CommitPipeline(r) \/ Subscribe(r)
      PROVE  NumbersOf(s)'
  <2>1. SentBefore
    BY <1>1, <1>3, Zenon DEF InitPipeline, DoCommand, CommitPipeline, Subscribe
  <2>2. CASE s = r
    BY <1>0, <1>3, <2>1, <2>2, NumbersDoCommand, NumbersCalls, Zenon
  <2>3. CASE s # r
    <3>1. pc'[s] = pc[s] /\ Same(s)
      <4>1. CASE DoCommand(r)
        BY <1>0, <2>3, <4>1 DEF DoCommand, Begin, Goto, TypeOK
      <4>2. CASE InitPipeline(r) \/ CommitPipeline(r)
        BY <1>0, <2>3, <4>2 DEF InitPipeline, CommitPipeline, EndPipeline, Begin, Goto, TypeOK
      <4>3. CASE Subscribe(r)
        BY <1>0, <2>3, <4>3, Zenon DEF Subscribe, Begin, Goto, TypeOK
      <4> QED
        BY <1>3, <4>1, <4>2, <4>3, Zenon
    <3> QED
      BY <1>2, <2>1, <3>1, Zenon
  <2> QED
    BY <2>2, <2>3, Zenon
<1>4. ASSUME NEW r \in Clients, Connect(r) \/ Fail(r) PROVE NumbersOf(s)'
  <2>1. SentBefore /\ Same(s)
    BY <1>1, <1>4, ZenonT(60) DEF Connect, Fail
  <2>2. CASE Connect(r)
    BY <1>0, <1>2, <2>1, <2>2, ZenonT(60) DEF Connect, Goto, TypeOK, Unsent
  <2>3. CASE Fail(r)
    BY <1>0, <1>2, <2>1, <2>3, Zenon DEF Fail, DropOnError, Drop, Goto, TypeOK, Unsent
  <2> QED
    BY <1>4, <2>2, <2>3, Zenon
<1>5. ASSUME NEW r \in Clients, Reply(r) PROVE NumbersOf(s)'
  <2>1. SentBefore
    BY <1>1, <1>5, Zenon DEF Reply
  <2>2. CASE s = r
    BY <1>0, <1>5, <2>2, NumbersReply, Zenon
  <2>3. CASE s # r
    <3>1. pc'[s] = pc[s] /\ Same(s)
      BY <1>0, <1>5, <2>3, ZenonT(60) DEF Reply, Goto, TypeOK
    <3> QED
      BY <1>2, <2>1, <3>1, Zenon
  <2> QED
    BY <2>2, <2>3, Zenon
<1>6. ASSUME NEW r \in Clients, SubscribeReply(r) \/ UnsubscribeReply(r) \/ SetKeepalive(r)
      PROVE  NumbersOf(s)'
  <2>1. SentBefore /\ Same(s)
    BY <1>1, <1>6, Zenon DEF SubscribeReply, UnsubscribeReply, SetKeepalive
  <2>2. PICK l \in {"read_reply", "keepalive", "idle"} : Goto(r, l)
    BY <1>6, Zenon DEF SubscribeReply, UnsubscribeReply, SetKeepalive, Drop
  <2> QED
    BY <1>0, <1>2, <2>1, <2>2, Zenon DEF Goto, TypeOK, Unsent
<1>7. ASSUME NEW r \in Clients, NEW c \in Conns, Puts(c, Outgoing(r)), pc'[r] = Waiting(r),
             DoAuth(r) \/ AuthReply(r)
      PROVE  NumbersOf(s)'
  <2>1. UNCHANGED <<op, batch, reqs, pipelining, issued, done>> /\ pc[r] \in Unsent
    BY <1>7, ZenonT(60) DEF DoAuth, AuthReply, Unsent
  <2>2. CASE s = r
    BY <1>0, <1>7, <2>1, <2>2, NumbersSend, Zenon
  <2>3. CASE s # r
    <3>1. SentBefore
      BY <1>0, <1>7, <2>3, PutsCommands, Zenon
    <3>2. pc'[s] = pc[s]
      BY <1>0, <1>7, <2>3, Zenon DEF DoAuth, AuthReply, Goto, TypeOK
    <3> QED
      BY <1>2, <2>1, <3>1, <3>2, Zenon
  <2> QED
    BY <2>2, <2>3, Zenon
<1>8. ASSUME NEW r \in Clients, DoAuth(r) PROVE NumbersOf(s)'
  <2>1. ASSUME NEW c \in Conns, Puts(c, Auth(r)), pc'[r] = "auth_reply" PROVE NumbersOf(s)'
    <3>1. SentBefore
      BY <1>0, <2>1, PutsQuietly, Zenon
    <3>2. Same(s) /\ pc[r] = "do_auth" /\ (s # r => pc'[s] = pc[s])
      BY <1>0, <1>8, Zenon DEF DoAuth, Goto, TypeOK
    <3> QED
      BY <1>2, <2>1, <3>1, <3>2, Zenon DEF Unsent
  <2> QED
    BY <1>7, <1>8, <2>1, DoAuthPuts, Zenon
<1>9. ASSUME NEW r \in Clients, AuthReply(r) PROVE NumbersOf(s)'
  BY <1>7, <1>9, AuthReplyPuts, Zenon
<1>10. ASSUME NEW r \in Clients, ReadReply(r) PROVE NumbersOf(s)'
  <2>1. SentBefore
    BY <1>0, <1>10, ReadReplyPuts, PutsQuietly, Zenon
  <2> QED
    BY <1>0, <1>2, <1>10, <2>1, Zenon DEF ReadReply, Goto, TypeOK, Unsent
<1>11. ASSUME NEW c \in Conns, IdleTimeout(c) \/ Push(c) \/ ServerExec(c) PROVE NumbersOf(s)'
  <2>1. SentBefore
    <3>1. CASE IdleTimeout(c) \/ Push(c)
      BY <1>1, <3>1, Zenon DEF IdleTimeout, Push
    <3>2. CASE ServerExec(c)
      BY <1>0, <3>2, ExecSent, Zenon DEF Sent
    <3> QED
      BY <1>11, <3>1, <3>2, Zenon
  <2>2. Same(s) /\ pc' = pc
    BY <1>11, Zenon DEF IdleTimeout, Push, ServerExec
  <2> QED
    BY <1>2, <2>1, <2>2, Zenon
<1>12. CASE UNCHANGED vars
  BY <1>1, <1>2, <1>12, Zenon DEF vars
<1> QED
  BY <1>3, <1>4, <1>5, <1>6, <1>8, <1>9, <1>10, <1>11, <1>12, Zenon DEF Next, ClientStep

(* A step that executes nothing keeps the order, if no more commands count *)
(* as answered.                                                            *)
LEMMA OrderFrame ==
    ASSUME Order, Unique, executed' = executed,
           \A s \in Clients : Answered(s)' \subseteq Answered(s)
    PROVE  Order'
  BY DEF Order, Unique, Executed

(* A reply that is read was counted as answered already.                   *)
LEMMA AnsweredReply ==
    ASSUME TypeOK, Links, NEW r \in Clients, Reply(r)
    PROVE  Answered(r)' \subseteq Answered(r)
<1>1. /\ batch[r] \in Seq(1..MaxCmds) /\ batch[r] # << >> /\ pc[r] = "reply"
      /\ sock[r] \in Conns /\ wire[sock[r]] \in Seq(Messages) /\ wire[sock[r]] # << >>
      /\ Len(wire[sock[r]]) <= Len(batch[r])
  <2>1. sock[r] \in Conns /\ wire[sock[r]] \in Seq(Messages) /\ inbox[sock[r]] \in Seq(Messages)
    BY Zenon DEF TypeOK, Reply, Reads
  <2>2. ReplyLink(r, sock[r]) /\ batch[r] \in Seq(1..MaxCmds)
    BY Zenon DEF TypeOK, Reply, Reads, Links, Link
  <2>3. Len(wire[sock[r]]) <= Len(batch[r])
    <3>1. /\ Len(wire[sock[r]]) \in Nat /\ Len(inbox[sock[r]]) \in Nat
          /\ Len(wire[sock[r]]) + Len(inbox[sock[r]]) = Len(batch[r])
      <4>1. Len(wire[sock[r]]) \in Nat /\ Len(inbox[sock[r]]) \in Nat
        BY <2>1, LenProperties, Zenon
      <4>2. Len(wire[sock[r]]) + Len(inbox[sock[r]]) = Len(batch[r])
        BY <2>2, Zenon DEF ReplyLink
      <4> QED
        BY <4>1, <4>2, ZenonT(60)
    <3>2. \A w, i \in Nat : w <= w + i
      OBVIOUS
    <3>3. Len(wire[sock[r]]) <= Len(wire[sock[r]]) + Len(inbox[sock[r]])
      BY <3>1, <3>2, Zenon
    <3> QED
      BY <3>1, <3>3, Zenon
  <2> QED
    BY <2>1, <2>2, <2>3, Zenon DEF Reply, Reads, ReplyLink
<1>2. /\ batch'[r] = Tail(batch[r]) /\ done'[r] = done[r] \cup {batch[r][1]} /\ sock' = sock
      /\ wire'[sock[r]] = Tail(wire[sock[r]])
  BY <1>1 DEF TypeOK, Reply, Pop
<1>3. 1 \in DOMAIN wire[sock[r]]
  BY <1>1
<1>4. \A i \in DOMAIN Tail(wire[sock[r]]) :
        i + 1 \in DOMAIN wire[sock[r]] /\ Tail(batch[r])[i] = batch[r][i + 1]
  <2> SUFFICES ASSUME NEW i \in DOMAIN Tail(wire[sock[r]])
               PROVE  i + 1 \in DOMAIN wire[sock[r]] /\ Tail(batch[r])[i] = batch[r][i + 1]
    BY Zenon
  <2>1. i \in Nat /\ i + 1 \in 1..Len(wire[sock[r]]) /\ 1 <= i
    BY <1>1
  <2>2. i \in 1..Len(Tail(batch[r]))
    <3>1. PICK w \in Nat, b \in Nat : /\ w = Len(wire[sock[r]]) /\ b = Len(batch[r]) /\ w <= b
                                      /\ Len(Tail(batch[r])) = b - 1
      BY <1>1, HeadTailProperties
    <3> QED
      BY <2>1, <3>1
  <2> QED
    BY <1>1, <2>1, <2>2, HeadTailProperties
<1> QED
  BY <1>1, <1>2, <1>3, <1>4 DEF Answered

(* Executing a command: it comes last, and no command that is answered     *)
(* already is executed again.                                              *)
LEMMA OrderExec ==
    ASSUME Connections, Unique, Numbers, Order, NEW c \in Conns, ServerExec(c)
    PROVE  Order'
<1>0. TypeOK /\ Links /\ Owners
  BY Zenon DEF Connections
<1>1. /\ inbox[c] \in Seq(Messages) /\ inbox[c] # << >> /\ wire[c] \in Seq(Messages)
      /\ Head(inbox[c]) = inbox[c][1] /\ 1 \in DOMAIN inbox[c]
      /\ executed \in Seq(Messages) /\ inbox[c][1] \in Messages
  BY <1>0 DEF ServerExec, TypeOK
<1>2. PICK m \in Messages : m = inbox[c][1] /\ m = Head(inbox[c])
  BY <1>1, Zenon
<1>3. /\ UNCHANGED <<pc, sock, batch, done>>
      /\ \A d \in Conns : d # c => wire'[d] = wire[d]
      /\ wire'[c] = wire[c] \/ wire'[c] = Append(wire[c], m)
      /\ executed' = IF m.cmd = "data" /\ authed[c] THEN Append(executed, m) ELSE executed
  BY <1>0, <1>2, Zenon DEF ServerExec, TypeOK, callVars, libVars
<1>4. \A s \in Clients : Answered(s)' \subseteq Answered(s) \/
        /\ pc[s] = "reply" /\ sock[s] = c /\ m = Command(s, m.n) /\ authed[c]
        /\ Answered(s)' \subseteq Answered(s) \cup {m.n}
        /\ \A n \in Answered(s) : n < m.n
  <2> SUFFICES ASSUME NEW s \in Clients, pc[s] = "reply", sock[s] = c
               PROVE  /\ m = Command(s, m.n) /\ authed[c]
                      /\ Answered(s)' \subseteq Answered(s) \cup {m.n}
                      /\ \A n \in Answered(s) : n < m.n
    <3>1. ASSUME NEW s \in Clients, ~ (pc[s] = "reply" /\ sock[s] = c)
          PROVE  Answered(s)' \subseteq Answered(s)
      <4>1. pc[s] = "reply" => sock[s] \in Conns /\ sock[s] # c
        BY <1>0, <3>1, Zenon DEF Owners, TypeOK
      <4> QED
        BY <1>3, <4>1 DEF Answered
    <3> QED
      BY <3>1, Zenon
  <2>1. Link(s, c) /\ c # None
    BY <1>0, RedisClientAssumption, Zenon DEF Links
  <2>2. authed[c] /\ ReplyLink(s, c)
    BY <2>1, Zenon DEF Link
  <2>3. PICK w \in Nat, i \in Nat \ {0} :
          w = Len(wire[c]) /\ i = Len(inbox[c]) /\ w + i = Len(batch[s])
    <3>1. Len(wire[c]) \in Nat /\ Len(inbox[c]) \in Nat \ {0}
      BY <1>1
    <3>2. Len(wire[c]) + Len(inbox[c]) = Len(batch[s])
      BY <2>2, Zenon DEF ReplyLink
    <3> QED
      BY <3>1, <3>2, Zenon
  <2>4. m = Command(s, batch[s][w + 1])
    <3>1. 1 \in 1..Len(inbox[c])
      BY <2>3
    <3> QED
      BY <1>2, <2>2, <2>3, <3>1, Zenon DEF ReplyLink
  <2>5. m.n = batch[s][w + 1] /\ m = Command(s, m.n)
    BY <2>4, Zenon DEF Command
  <2>6. batch[s] \in Seq(1..MaxCmds) /\ DOMAIN batch[s] = 1..(w + i) /\ DOMAIN wire[c] = 1..w
    BY <1>0, <1>1, <2>3 DEF TypeOK
  <2>7. Answered(s)' \subseteq Answered(s) \cup {m.n}
    <3>1. \A k \in DOMAIN wire'[c] : k \in DOMAIN wire[c] \/ k = w + 1
      BY <1>1, <1>3, <2>3
    <3> QED
      BY <1>3, <2>5, <3>1 DEF Answered
  <2>8. \A n \in Answered(s) : n < m.n
    <3>1. Ascending(batch[s]) /\ \A k \in DOMAIN batch[s] : \A n \in done[s] : n < batch[s][k]
      BY Zenon DEF Numbers, NumbersOf
    <3>2. w + 1 \in DOMAIN batch[s] /\ \A k \in DOMAIN wire[c] : k \in DOMAIN batch[s] /\ k < w + 1
      BY <2>6
    <3> QED
      BY <2>5, <3>1, <3>2, Zenon DEF Answered, Ascending
  <2> QED
    BY <2>2, <2>5, <2>7, <2>8, Zenon
<1>5. CASE ~ (m.cmd = "data" /\ authed[c])
  <2>1. \A s \in Clients : Answered(s)' \subseteq Answered(s)
    BY <1>4, <1>5 DEF Command
  <2> QED
    BY <1>3, <1>5, <2>1, OrderFrame, Zenon
<1>6. CASE m.cmd = "data" /\ authed[c]
  <2>1. executed' = Append(executed, m)
    BY <1>3, <1>6, Zenon
  <2>2. /\ m.from \in Clients /\ ~ Executed(m.from, m.n)
    BY <1>1, <1>2, <1>6 DEF Unique, Data, Executed
  <2>3. /\ \A i \in DOMAIN executed' : \/ i \in DOMAIN executed /\ executed'[i] = executed[i]
                                       \/ i = Len(executed) + 1 /\ executed'[i] = m
        /\ \A i \in DOMAIN executed : i \in DOMAIN executed' /\ i < Len(executed) + 1
        /\ Len(executed) + 1 \in DOMAIN executed' /\ executed'[Len(executed) + 1] = m
        /\ \A i \in DOMAIN executed : executed'[i] = executed[i]
    BY <1>1, <2>1
  <2>4. \A s \in Clients : \A n \in Answered(s)' : Executed(s, n)'
    <3> SUFFICES ASSUME NEW s \in Clients, NEW n \in Answered(s)' PROVE Executed(s, n)'
      BY Zenon
    <3>1. CASE n \in Answered(s)
      BY <2>3, <3>1 DEF Order, Executed
    <3>2. CASE n \notin Answered(s)
      <4>1. m = Command(s, m.n) /\ n = m.n
        BY <1>4, <3>2, Zenon
      <4>2. m.from = s
        BY <4>1 DEF Command
      <4> QED
        BY <2>3, <4>1, <4>2, Zenon DEF Executed
    <3> QED
      BY <3>1, <3>2, Zenon
  <2>5. ASSUME NEW s \in Clients, NEW i \in DOMAIN executed', NEW j \in DOMAIN executed',
               s = executed'[i].from, s = executed'[j].from, i < j,
               executed'[i].n \in Answered(s)', executed'[j].n \in Answered(s)'
        PROVE  executed'[i].n < executed'[j].n
    <3>1. i \in DOMAIN executed /\ executed'[i] = executed[i]
      BY <1>1, <2>3, <2>5
    <3>2. \A n \in Answered(s)' : n \in Answered(s) \/ (n = m.n /\ m.from = s)
      BY <1>4 DEF Command
    <3>3. executed[i].n \in Answered(s)
      BY <2>2, <2>5, <3>1, <3>2, Zenon DEF Executed
    <3>4. CASE j \in DOMAIN executed /\ executed'[j] = executed[j]
      <4>1. executed[j].n \in Answered(s)
        BY <2>2, <2>5, <3>2, <3>4, Zenon DEF Executed
      <4> QED
        BY <2>5, <3>1, <3>3, <3>4, <4>1, Zenon DEF Order
    <3>5. CASE executed'[j] = m
      <4>1. m.n \notin Answered(s)
        BY <2>2, <2>5, <3>5, Zenon DEF Order
      <4>2. \A n \in Answered(s) : n < m.n
        BY <1>4, <2>5, <3>5, <4>1, Zenon
      <4> QED
        BY <3>1, <3>3, <3>5, <4>2, Zenon
    <3> QED
      BY <2>3, <3>4, <3>5, Zenon
  <2>6. \A i \in DOMAIN executed' : executed'[i].from \in Clients
    BY <2>2, <2>3, Zenon DEF Unique
  <2> QED
    BY <2>4, <2>5, <2>6, Zenon DEF Order
<1> QED
  BY <1>5, <1>6, Zenon

=============================================================================
