---------------------------- MODULE RedisClient ----------------------------
(***************************************************************************)
(* The Redis client of the openresty scripts (lua-scripts/redis.lua): each *)
(* command, pipeline or subscription takes a connection, authenticates it  *)
(* if it is new, uses it, and hands it back to the connection pool that    *)
(* all the requests of a worker share.                                     *)
(*                                                                         *)
(* A client r is a request with its own client object; it yields at every  *)
(* socket operation.  External: lua-resty-redis and its connections, and   *)
(* the Redis server, which works through the inbox of a connection even    *)
(* after the client has closed it.  A command is the pair of its client    *)
(* and its number; what it does to the data is left out.  A connection     *)
(* that a client drops without handing it back is closed.                  *)
(*                                                                         *)
(* An uncommented definition just above another one is a faulty variant of *)
(* it, under which one of the properties fails.                            *)
(***************************************************************************)
EXTENDS Integers, Sequences, FiniteSets

CONSTANTS Clients,   \* requests using the client concurrently
          Conns,     \* connections
          PoolSize,  \* size of the connection pool
          MaxCmds,   \* bound: commands and subscriptions of a client
          MaxPush,   \* bound: messages waiting on a connection
          None       \* no connection

ASSUME RedisClientAssumption ==
    /\ IsFiniteSet(Conns) /\ None \notin Conns
    /\ PoolSize \in Nat \ {0} /\ MaxCmds \in Nat /\ MaxPush \in Nat

VARIABLES
    pool, open, reused, cli_sub,          \* lua-resty-redis: connections
    inbox, wire, authed, srv_sub, executed,  \* the server, and replies under way
    pipelining, reqs,                     \* self._reqs (nil unless pipelining)
    pc, sock, op, batch, issued, done     \* the clients

libVars == <<pool, open, reused, cli_sub>>
srvVars == <<inbox, wire, authed, srv_sub, executed>>
pipeVars == <<pipelining, reqs>>
callVars == <<op, batch>>
vars == <<libVars, srvVars, pipeVars, pc, sock, callVars, issued, done>>

Init ==
    /\ pool = {} /\ open = {}
    /\ reused = [c \in Conns |-> FALSE]
    /\ cli_sub = [c \in Conns |-> FALSE]
    /\ inbox = [c \in Conns |-> << >>]
    /\ wire = [c \in Conns |-> << >>]
    /\ authed = [c \in Conns |-> FALSE]
    /\ srv_sub = [c \in Conns |-> FALSE]
    /\ executed = << >>
    /\ pipelining = [r \in Clients |-> FALSE]
    /\ reqs = [r \in Clients |-> << >>]
    /\ pc = [r \in Clients |-> "idle"]
    /\ sock = [r \in Clients |-> None]
    /\ op = [r \in Clients |-> "command"]
    /\ batch = [r \in Clients |-> << >>]
    /\ issued = [r \in Clients |-> 0]
    /\ done = [r \in Clients |-> {}]

Goto(r, label) == pc' = [pc EXCEPT ![r] = label]

-----------------------------------------------------------------------------
(* The calls of the client object.                                         *)

InitPipeline(r) ==
    /\ pc[r] = "idle"
    /\ pipelining' = [pipelining EXCEPT ![r] = TRUE]
    /\ reqs' = [reqs EXCEPT ![r] = << >>]
    /\ UNCHANGED <<libVars, srvVars, pc, sock, callVars, issued, done>>

Begin(r, what, cmds) ==
    /\ op' = [op EXCEPT ![r] = what]
    /\ batch' = [batch EXCEPT ![r] = cmds]
    /\ Goto(r, "connect")

(* A command is queued while a pipeline is open, and sent otherwise.       *)
DoCommand(r) ==
    LET n == issued[r] + 1 IN
    /\ pc[r] = "idle"
    /\ n <= MaxCmds
    /\ issued' = [issued EXCEPT ![r] = n]
    /\ IF pipelining[r]
       THEN /\ reqs' = [reqs EXCEPT ![r] = Append(@, n)]
            /\ UNCHANGED <<pc, callVars>>
       ELSE /\ Begin(r, "command", <<n>>)
            /\ UNCHANGED reqs
    /\ UNCHANGED <<libVars, srvVars, pipelining, sock, done>>

EndPipelineLate(r) == UNCHANGED pipeVars

(* self._reqs = nil, before anything is sent.                              *)
EndPipeline(r) ==
    /\ pipelining' = [pipelining EXCEPT ![r] = FALSE]
    /\ reqs' = [reqs EXCEPT ![r] = << >>]

(* Without queued commands commit_pipeline only returns an error.          *)
CommitPipeline(r) ==
    /\ pc[r] = "idle"
    /\ pipelining[r] /\ reqs[r] # << >>
    /\ EndPipeline(r)
    /\ Begin(r, "pipeline", reqs[r])
    /\ UNCHANGED <<libVars, srvVars, sock, issued, done>>

Subscribe(r) ==
    /\ pc[r] = "idle"
    /\ issued[r] < MaxCmds
    /\ issued' = [issued EXCEPT ![r] = @ + 1]
    /\ Begin(r, "subscribe", << >>)
    /\ UNCHANGED <<libVars, srvVars, pipeVars, sock, done>>

-----------------------------------------------------------------------------
(* Connections.                                                            *)

(* redis:connect(): an idle connection of the pool if there is one, else a *)
(* new one; the connection the object had is closed first.                 *)
Connects(r, c) ==
    LET rest == open \ {sock[r]} IN
    /\ IF pool # {} THEN c \in pool ELSE c \in Conns \ rest /\ inbox[c] = << >>
    /\ pool' = pool \ {c}
    /\ open' = rest \cup {c}
    /\ reused' = [reused EXCEPT ![c] = c \in pool]
    /\ authed' = [authed EXCEPT ![c] = c \in pool /\ @]
    /\ cli_sub' = [cli_sub EXCEPT ![c] = FALSE]
    /\ srv_sub' = [srv_sub EXCEPT ![c] = c \in pool /\ @]
    /\ wire' = IF c \in pool THEN wire ELSE [wire EXCEPT ![c] = << >>]
    /\ sock' = [sock EXCEPT ![r] = c]

(* connect_mod(), called by each operation.                                *)
Connect(r) ==
    /\ pc[r] = "connect"
    /\ \E c \in Conns : Connects(r, c)
    /\ Goto(r, "do_auth")
    /\ UNCHANGED <<inbox, executed, pipeVars, callVars, issued, done>>

(* The commands of an operation go out.                                    *)
Outgoing(r) ==
    IF op[r] = "subscribe"
    THEN <<[cmd |-> "subscribe", from |-> r, n |-> 0]>>
    ELSE [i \in DOMAIN batch[r] |-> [cmd |-> "data", from |-> r, n |-> batch[r][i]]]

Waiting(r) == IF op[r] = "subscribe" THEN "sub_reply" ELSE "reply"

(* "if 0 == count".                                                        *)
NeedsAuth(c) == ~ reused'[c]

(* do_auth() connects once more; a new connection then sends AUTH, a       *)
(* reused one goes straight on to the operation's commands.                *)
DoAuth(r) ==
    /\ pc[r] = "do_auth"
    /\ \E c \in Conns :
         /\ Connects(r, c)
         /\ inbox' = [inbox EXCEPT ![c] = @ \o
                        IF NeedsAuth(c) THEN <<[cmd |-> "auth", from |-> r, n |-> 0]>>
                        ELSE Outgoing(r)]
         /\ Goto(r, IF NeedsAuth(c) THEN "auth_reply" ELSE Waiting(r))
    /\ UNCHANGED <<executed, pipeVars, callVars, issued, done>>

(* The client lets go of its connection and the operation returns.         *)
Drop(r) ==
    /\ open' = open \ {sock[r]}
    /\ wire' = IF sock[r] = None THEN wire ELSE [wire EXCEPT ![sock[r]] = << >>]
    /\ sock' = [sock EXCEPT ![r] = None]
    /\ Goto(r, "idle")
    /\ UNCHANGED <<pool, reused, cli_sub>>

KeepOnError(r) ==
    /\ pool' = IF sock[r] = None THEN pool ELSE pool \cup {sock[r]}
    /\ sock' = [sock EXCEPT ![r] = None]
    /\ Goto(r, "idle")
    /\ UNCHANGED <<open, reused, cli_sub, wire>>

(* The error returns: none of them hands the connection back.              *)
DropOnError(r) == Drop(r)

(* A connect, a write or a read fails or times out, or the reply to a      *)
(* single command is an error.                                             *)
Fail(r) ==
    /\ pc[r] \in {"connect", "do_auth", "auth_reply", "reply", "sub_reply", "read_reply"}
    /\ DropOnError(r)
    /\ UNCHANGED <<inbox, authed, srv_sub, executed, pipeVars, callVars, issued, done>>

-----------------------------------------------------------------------------
(* Replies, in the order of the wire.                                      *)

Reads(r) == sock[r] # None /\ wire[sock[r]] # << >>

Pop(r) == wire' = [wire EXCEPT ![sock[r]] = Tail(@)]

AuthReply(r) ==
    /\ pc[r] = "auth_reply" /\ Reads(r) /\ Pop(r)
    /\ inbox' = [inbox EXCEPT ![sock[r]] = @ \o Outgoing(r)]
    /\ Goto(r, Waiting(r))
    /\ UNCHANGED <<libVars, authed, srv_sub, executed, pipeVars, sock, callVars, issued, done>>

ReplyPooledEarly(r) ==
    /\ pc[r] = "reply" /\ Reads(r) /\ Pop(r)
    /\ done' = [done EXCEPT ![r] = @ \cup {Head(batch[r])}]
    /\ batch' = [batch EXCEPT ![r] = Tail(@)]
    /\ pool' = pool \cup {sock[r]}
    /\ IF Len(batch[r]) = 1 THEN Goto(r, "keepalive") ELSE UNCHANGED pc
    /\ UNCHANGED <<open, reused, cli_sub, inbox, authed, srv_sub, executed, pipeVars, sock, op,
                   issued>>

(* One reply per command is read; after the last the connection is kept.   *)
Reply(r) ==
    /\ pc[r] = "reply" /\ Reads(r) /\ Pop(r)
    /\ done' = [done EXCEPT ![r] = @ \cup {Head(batch[r])}]
    /\ batch' = [batch EXCEPT ![r] = Tail(@)]
    /\ IF Len(batch[r]) = 1 THEN Goto(r, "keepalive") ELSE UNCHANGED pc
    /\ UNCHANGED <<libVars, inbox, authed, srv_sub, executed, pipeVars, sock, op, issued>>

SubscribeReply(r) ==
    /\ pc[r] = "sub_reply" /\ Reads(r) /\ Pop(r)
    /\ cli_sub' = [cli_sub EXCEPT ![sock[r]] = TRUE]
    /\ Goto(r, "read_reply")
    /\ UNCHANGED <<pool, open, reused, inbox, authed, srv_sub, executed, pipeVars, sock, callVars,
                   issued, done>>

(* read_reply() takes one message, then UNSUBSCRIBE is sent.               *)
ReadReply(r) ==
    /\ pc[r] = "read_reply" /\ Reads(r) /\ Pop(r)
    /\ inbox' = [inbox EXCEPT ![sock[r]] =
                   Append(@, [cmd |-> "unsubscribe", from |-> r, n |-> 0])]
    /\ Goto(r, "unsub_reply")
    /\ UNCHANGED <<libVars, authed, srv_sub, executed, pipeVars, sock, callVars, issued, done>>

(* lua-resty-redis leaves the subscribed state on the reply to UNSUBSCRIBE.*)
Unsubscribed(reply) == reply.cmd = "unsubscribe"

(* One reply is read, which may be another message; the result, and so an  *)
(* error, is ignored.                                                      *)
UnsubscribeReply(r) ==
    /\ pc[r] = "unsub_reply"
    /\ \/ /\ Reads(r) /\ Pop(r)
          /\ cli_sub' = [cli_sub EXCEPT ![sock[r]] = ~ Unsubscribed(Head(wire[sock[r]]))]
       \/ UNCHANGED <<wire, cli_sub>>
    /\ Goto(r, "keepalive")
    /\ UNCHANGED <<pool, open, reused, inbox, authed, srv_sub, executed, pipeVars, sock,
                   callVars, issued, done>>

(* How many connections a full pool closes to make room.                   *)
Evicted == IF Cardinality(pool) >= PoolSize THEN 1 ELSE 0

(* set_keepalive_mod(): refused in the subscribed state; a full pool drops *)
(* one of its connections.                                                 *)
SetKeepalive(r) ==
    /\ pc[r] = "keepalive"
    /\ IF cli_sub[sock[r]] THEN Drop(r)
       ELSE /\ \E out \in SUBSET pool :
                 /\ Cardinality(out) = Evicted
                 /\ pool' = (pool \ out) \cup {sock[r]}
                 /\ open' = open \ out
            /\ sock' = [sock EXCEPT ![r] = None]
            /\ Goto(r, "idle")
            /\ UNCHANGED <<reused, cli_sub, wire>>
    /\ UNCHANGED <<inbox, authed, srv_sub, executed, pipeVars, callVars, issued, done>>

(* An idle connection is closed, after its idle time or by the server.     *)
IdleTimeout(c) ==
    /\ c \in pool
    /\ pool' = pool \ {c}
    /\ open' = open \ {c}
    /\ UNCHANGED <<reused, cli_sub, srvVars, pipeVars, pc, sock, callVars, issued, done>>

-----------------------------------------------------------------------------
(* The server.                                                             *)

ServerExec(c) ==
    LET m == Head(inbox[c]) IN
    /\ inbox[c] # << >>
    /\ inbox' = [inbox EXCEPT ![c] = Tail(@)]
    /\ wire' = IF c \in open THEN [wire EXCEPT ![c] = Append(@, m)] ELSE wire
    /\ authed' = [authed EXCEPT ![c] = @ \/ m.cmd = "auth"]
    /\ srv_sub' = [srv_sub EXCEPT ![c] = \/ m.cmd = "subscribe"
                                         \/ @ /\ m.cmd # "unsubscribe"]
    /\ executed' = IF m.cmd = "data" /\ authed[c] THEN Append(executed, m) ELSE executed
    /\ UNCHANGED <<libVars, pipeVars, pc, sock, callVars, issued, done>>

(* A message is published on the channel of a subscribed connection.       *)
Push(c) ==
    /\ srv_sub[c] /\ c \in open
    /\ Len(wire[c]) < MaxPush
    /\ wire' = [wire EXCEPT ![c] = Append(@, [cmd |-> "message", from |-> None, n |-> 0])]
    /\ UNCHANGED <<libVars, inbox, authed, srv_sub, executed, pipeVars, pc, sock, callVars,
                   issued, done>>

ClientStep(r) ==
    \/ InitPipeline(r) \/ DoCommand(r) \/ CommitPipeline(r) \/ Subscribe(r)
    \/ Connect(r) \/ DoAuth(r) \/ Fail(r)
    \/ AuthReply(r) \/ Reply(r)
    \/ SubscribeReply(r) \/ ReadReply(r) \/ UnsubscribeReply(r)
    \/ SetKeepalive(r)

Next == \/ \E r \in Clients : ClientStep(r)
        \/ \E c \in Conns : IdleTimeout(c) \/ ServerExec(c) \/ Push(c)

Spec == Init /\ [][Next]_vars

-----------------------------------------------------------------------------
(* Properties.                                                             *)

Messages == [cmd: {"data", "auth", "subscribe", "unsubscribe", "message"},
             from: Clients \cup {None}, n: 0..MaxCmds]

Labels == {"idle", "connect", "do_auth", "auth_reply", "reply", "sub_reply", "read_reply",
           "unsub_reply", "keepalive"}

(***************************************************************************)
(* Every variable has its type: the pool holds open connections only, and  *)
(* a client holds an open connection or none.                              *)
(***************************************************************************)
TypeOK ==
    /\ pool \subseteq open /\ open \subseteq Conns
    /\ {reused, cli_sub, authed, srv_sub} \subseteq [Conns -> BOOLEAN]
    /\ inbox \in [Conns -> Seq(Messages)] /\ wire \in [Conns -> Seq(Messages)]
    /\ executed \in Seq(Messages)
    /\ pipelining \in [Clients -> BOOLEAN]
    /\ reqs \in [Clients -> Seq(1..MaxCmds)] /\ batch \in [Clients -> Seq(1..MaxCmds)]
    /\ pc \in [Clients -> Labels]
    /\ sock \in [Clients -> open \cup {None}]
    /\ op \in [Clients -> {"command", "pipeline", "subscribe"}]
    /\ issued \in [Clients -> 0..MaxCmds]
    /\ done \in [Clients -> SUBSET (1..MaxCmds)]

(***************************************************************************)
(* A connection is used by one request at a time: no two requests hold it, *)
(* and none holds one that is in the pool.                                 *)
(***************************************************************************)
OneOwner ==
    \A r \in Clients : sock[r] # None =>
        sock[r] \notin pool /\ \A s \in Clients : sock[s] = sock[r] => s = r

(* setkeepalive() makes room before it adds a connection to a full pool.   *)
PoolBounded == Cardinality(pool) <= PoolSize

(***************************************************************************)
(* A connection in the pool can be handed to any request: it is            *)
(* authenticated, which do_auth() relies on when it skips AUTH, it is not  *)
(* subscribed, and nothing an earlier request sent on it is unanswered.    *)
(***************************************************************************)
PoolClean ==
    \A c \in pool : authed[c] /\ ~ srv_sub[c] /\ inbox[c] = << >> /\ wire[c] = << >>

(***************************************************************************)
(* A connection in use has one owner, one in the pool is as good as a new  *)
(* one, and the pool never holds more than pool_size of them.              *)
(***************************************************************************)
PoolSound == PoolBounded /\ OneOwner /\ PoolClean

(***************************************************************************)
(* The reply a request reads is the reply to its own command, whatever     *)
(* became of the requests that used the connection before.                 *)
(***************************************************************************)
OwnReply ==
    \A r \in Clients :
        pc[r] = "reply" /\ Reads(r) =>
            LET m == Head(wire[sock[r]]) IN
            m.cmd = "data" /\ m.from = r /\ m.n = Head(batch[r])

(***************************************************************************)
(* A command takes effect at most once, one that was reported successful   *)
(* has taken effect, and the successful commands of a client took effect   *)
(* in the order it issued them.                                            *)
(***************************************************************************)
AtMostOnceInOrder ==
    /\ \A i, j \in DOMAIN executed :
         executed[i].from = executed[j].from =>
             /\ executed[i].n = executed[j].n => i = j
             /\ /\ i < j
                /\ {executed[i].n, executed[j].n} \subseteq done[executed[i].from]
                => executed[i].n < executed[j].n
    /\ \A r \in Clients : \A n \in done[r] :
         \E i \in DOMAIN executed : executed[i].from = r /\ executed[i].n = n

=============================================================================
