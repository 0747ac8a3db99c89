---------------------------- MODULE MCInterfaces ----------------------------
(* Model-checking instances of the interfaces between the application and  *)
(* librdkafka: the op queues; produce(), flush() and purge(); the calls    *)
(* that ask brokers and wait; configuration; creating and destroying       *)
(* clients.  And of what can be looked at alone: SASL, the assignment of   *)
(* partitions, the offset file, and phpRedisAdmin.  A behaviour is one of  *)
(* one of them, whose state is s.                                          *)
EXTENDS ConfTable, FiniteSets, TLC

CONSTANT UA

VARIABLE s

-----------------------------------------------------------------------------
(* Queues: a consumer whose queue is forwarded to the group's while ops    *)
(* come in; delivery reports to two pollers; a synchronous request through *)
(* a queue that is forwarded and disabled; batches of messages; a queue    *)
(* that is destroyed while another is forwarded to it; a thread that waits *)
(* for ever on a queue another is forwarded to.                            *)
Op(typ, prio) == [typ |-> typ, prio |-> prio, ver |-> 0, msgs |-> 1]
Versioned(typ, ver) == [Op(typ, 0) EXCEPT !.ver = ver]
Enq(q, id) == [call |-> "enq", q |-> q, op |-> id]
Req(q, id, r) == [call |-> "req", q |-> q, op |-> id, reply |-> r]
Pop(q, api, timed) == [call |-> "pop", q |-> q, api |-> api, timed |-> timed]
Srv(q, api, max) == [call |-> "serve", q |-> q, api |-> api, timed |-> TRUE, max |-> max]
Batch(q, max) == [call |-> "batch", q |-> q, api |-> "batch", timed |-> TRUE, max |-> max]
Fwd(q, to) == [call |-> "fwd", q |-> q, to |-> to]
On(q, call) == [call |-> call, q |-> q]
AnyQueues ==
  [qs |-> {"rep", "cg"}, consumecb |-> FALSE, yields |-> {}, fifo |-> FALSE, loops |-> {"app"},
   ops |-> <<>>, scripts |-> <<>>]
QueuePlans ==
  {[AnyQueues EXCEPT
      !.ops = <<Op("err", 0), Op("fetch", 0), Versioned("fetch", 1)>>, !.fifo = TRUE,
      !.scripts = [main |-> <<Enq("rep", 1)>>, brk |-> <<Enq("cg", 2), Enq("cg", 3)>>,
                   ctl |-> <<Fwd("rep", "cg"), On(None, "barrier"), On("cg", "purgever"), On("rep", "yield")>>,
                   app |-> <<Pop("rep", "consume", TRUE)>>]],
   [AnyQueues EXCEPT
      !.qs = {"rep"}, !.ops = <<[Op("dr", 0) EXCEPT !.msgs = 3], Op("dr", 0), Op("stats", 1)>>,
      !.yields = {<<1, 2>>, <<3, 0>>},
      !.scripts = [main |-> <<Enq("rep", 1), Enq("rep", 2)>>, brk |-> <<Enq("rep", 3)>>,
                   app |-> <<Srv("rep", "poll", 0)>>, app2 |-> <<Srv("rep", "poll", 1)>>]],
   [AnyQueues EXCEPT
      !.qs = {"ops", "tp", "tmp"}, !.ops = <<Op("req", 0), Op("cb", 0)>>,
      !.scripts = [caller |-> <<Req("tp", 1, "tmp"), Pop("tmp", "wait", FALSE), On("tmp", "disable"),
                                On("tmp", "purge"), On("tmp", "destroy")>>,
                   ctl |-> <<Enq("tp", 2), Fwd("tp", "ops"), Fwd("tp", None), On("tp", "disable")>>,
                   app |-> <<Srv("ops", "poll", 0), Srv("tp", "poll", 0)>>]],
   [AnyQueues EXCEPT
      !.ops = <<Op("fetch", 0), Versioned("fetch", 1), Op("cerr", 0), Op("err", 0)>>,
      !.scripts = [brk |-> <<Enq("rep", 1), Enq("rep", 2), Enq("rep", 3)>>,
                   ctl |-> <<Fwd("rep", "cg"), On(None, "barrier"), Enq("rep", 4)>>,
                   app |-> <<Batch("rep", 2)>>]],
   [AnyQueues EXCEPT
      !.ops = <<Op("fetch", 0), Op("result", 0), Op("log", 0)>>,
      !.scripts = [brk |-> <<Enq("rep", 1), Enq("rep", 2)>>,
                   ctl |-> <<On("cg", "new0"), Fwd("rep", "cg"), On("cg", "destroy"), On("cg", "disable"),
                             On("cg", "purge"), On("cg", "destroy"), Fwd("rep", None), Enq("rep", 3)>>,
                   app |-> <<Pop("rep", "event", TRUE), Srv("rep", "background", 0)>>]],
   [AnyQueues EXCEPT
      !.ops = <<Op("fetch", 0)>>, !.loops = {},
      !.scripts = [main |-> <<Enq("rep", 1)>>, ctl |-> <<Fwd("rep", "cg")>>,
                   app |-> <<Pop("cg", "consume", FALSE)>>]]}

Queues == INSTANCE OpQueues
          WITH Plans <- QueuePlans, ThreadNames <- {"main", "brk", "ctl", "app", "app2", "caller"}

-----------------------------------------------------------------------------
(* Producing: two threads at a limit of one message; purge() of a topic    *)
(* that becomes known; a topic that turns out not to exist; no reports; a  *)
(* limit of bytes, reached or not; a batch to a partition that is missing; *)
(* batches that wait on a topic nothing is known of, with its lock and     *)
(* without.                                                                *)
To(p) == [app |-> TRUE, p |-> p]
Hashed(p) == [app |-> FALSE, p |-> p]
Produce(ms, b) == [call |-> "produce", ms |-> ms, block |-> b, perpart |-> FALSE]
ProduceBatch(ms, b, pp) == [call |-> "batch", ms |-> ms, block |-> b, perpart |-> pp]
Poll == [call |-> "poll"]
Flush(timed) == [call |-> "flush", timed |-> timed]
Purge(flags) == [call |-> "purge", flags |-> flags]
AnyProducer ==
  [maxcnt |-> 1, maxsize |-> 10, maxmsg |-> 5, size |-> <<1, 2, 1>>, to |-> <<To(1), Hashed(1), To(1)>>,
   parts |-> {1}, leaderless |-> {}, topic |-> "exists", becomes |-> "exists", dr |-> TRUE, erronly |-> FALSE,
   fails |-> FALSE, fatal |-> FALSE, scripts |-> <<>>]
ProducePlans ==
  {[AnyProducer EXCEPT
      !.scripts = [a |-> <<Produce(<<1>>, TRUE), Flush(FALSE)>>,
                   b |-> <<Produce(<<2>>, TRUE), Produce(<<3>>, FALSE)>>, c |-> <<Poll>>]],
   [AnyProducer EXCEPT
      !.maxcnt = 3, !.topic = "unknown", !.leaderless = {1}, !.fails = TRUE,
      !.scripts = [a |-> <<Produce(<<1>>, TRUE), Purge({"queue", "inflight"})>>,
                   b |-> <<ProduceBatch(<<2, 3>>, TRUE, TRUE), Flush(TRUE)>>]],
   [AnyProducer EXCEPT
      !.topic = "unknown", !.becomes = "notexists", !.erronly = TRUE, !.fatal = TRUE, !.maxmsg = 1,
      !.scripts = [a |-> <<Produce(<<1>>, FALSE)>>,
                   b |-> <<ProduceBatch(<<2, 3>>, FALSE, FALSE), Flush(FALSE)>>]],
   [AnyProducer EXCEPT
      !.dr = FALSE, !.fails = TRUE,
      !.scripts = [a |-> <<ProduceBatch(<<1, 2>>, TRUE, FALSE), Flush(FALSE)>>,
                   b |-> <<ProduceBatch(<<3>>, FALSE, FALSE), Purge({"queue"}), Flush(TRUE)>>]],
   [AnyProducer EXCEPT
      !.topic = "unknown", !.maxcnt = 2, !.to = <<To(2), Hashed(1), To(1)>>,
      !.scripts = [a |-> <<ProduceBatch(<<1, 2>>, FALSE, TRUE), Flush(FALSE)>>,
                   b |-> <<Produce(<<3>>, TRUE), Flush(TRUE)>>, c |-> <<Poll>>]],
   [AnyProducer EXCEPT
      !.topic = "unknown",
      !.scripts = [a |-> <<ProduceBatch(<<1, 2>>, TRUE, FALSE)>>,
                   b |-> <<Purge({"queue"}), Flush(FALSE)>>, c |-> <<Poll>>]],
   [AnyProducer EXCEPT
      !.topic = "unknown", !.becomes = "notexists", !.dr = FALSE, !.maxcnt = 2,
      !.scripts = [a |-> <<ProduceBatch(<<1, 2, 3>>, TRUE, TRUE)>>, b |-> <<Flush(TRUE)>>]]}
  \cup
  {[AnyProducer EXCEPT
      !.maxcnt = 3, !.maxmsg = 6, !.size = sizes,
      !.scripts = [a |-> <<Produce(<<1>>, TRUE), Produce(<<2>>, TRUE)>>,
                   b |-> <<Produce(<<3>>, TRUE), Flush(FALSE)>>, c |-> <<Poll>>]] :
     sizes \in {<<6, 2, 5>>, <<6, 4, 5>>}}

Producing == INSTANCE ProduceApi WITH Plans <- ProducePlans, ThreadNames <- {"a", "b", "c"}

-----------------------------------------------------------------------------
(* Synchronous calls: of each kind, alone and one after another, with and   *)
(* without faults, while the group and the brokers come and go.             *)
Offsets == [p \in 1..2 |-> [low |-> 3 * p, high |-> 3 * p + (2 - p), time |-> 3 * p + 1,
                            committed |-> IF p = 1 THEN 4 ELSE -1, app |-> 5]]
Calls(calls, leader, faults, moves) ==
  [calls |-> calls, leader |-> leader, truth |-> Offsets,
   groups |-> [b \in 1..2 |-> IF b = 1 THEN {"g", "h"} ELSE {}], desired |-> None,
   faults |-> faults, group |-> TRUE, known |-> {1}, requests |-> 0, moves |-> moves,
   offsets |-> <<6, 7>>, message |-> [part |-> 2, offset |-> 8, err |-> FALSE]]
OwnLeaders == <<1, 2>>
CallPlans == {Calls(<<"committed", "committed">>, OwnLeaders, {"TRANSPORT", "OTHER"}, {"group", "brokers"}),
      [Calls(<<"committed", "get", "position">>, OwnLeaders, {}, {}) EXCEPT !.group = FALSE, !.requests = 2],
      Calls(<<"commit", "message", "committed">>, OwnLeaders, {"TRANSPORT", "OTHER"}, {"group"}),
      [Calls(<<"message", "commit">>, OwnLeaders, {}, {}) EXCEPT !.message.err = TRUE, !.group = FALSE],
      Calls(<<"watermarks", "get">>, OwnLeaders, {"TRANSPORT", "OTHER"}, {"brokers"}),
      Calls(<<"times", "times">>, OwnLeaders, {"OTHER"}, {}),
      Calls(<<"times">>, OwnLeaders, {"TRANSPORT"}, {"brokers"}),
      Calls(<<"times", "watermarks">>, <<None, 2>>, {}, {}),
      Calls(<<"groups", "cluster">>, OwnLeaders, {"TRANSPORT"}, {"metadata", "brokers"}),
      [Calls(<<"groups">>, OwnLeaders, {}, {"metadata"}) EXCEPT !.desired = "g",
       !.groups = [b \in 1..2 |-> IF b = 1 THEN {"g", "h"} ELSE {"k"}]],
      [Calls(<<"controller", "get">>, <<1, 1>>, {"TRANSPORT"}, {"metadata"}) EXCEPT !.requests = 2],
      [Calls(<<"groups", "get">>, OwnLeaders, {}, {"metadata"}) EXCEPT !.groups = <<>>, !.known = {}]}

Calling == INSTANCE SyncCalls WITH Plans <- CallPlans, MaxVersion <- 3, MaxRetries <- 1

-----------------------------------------------------------------------------
(* SASL: every mechanism and refusal, every first message of a SCRAM server *)
(* that is refused, every configuration of unsecured tokens, and tokens     *)
(* that are set, fail and expire while a connection authenticates.  Time    *)
(* and the width of an int are small, so that they overflow.                *)
Fst(r, salt, i) == [t |-> "sfirst", m |-> FALSE, r |-> r, salt |-> salt, i |-> i]
Entry(k, v) == [k |-> k, v |-> v]
Life(v, n) == [k |-> "lifeSeconds", v |-> v, n |-> n]
Ext(name, v) == [k |-> "extension_", name |-> name, v |-> v]
AnySasl ==
  [mech |-> "PLAIN", user |-> <<"u">>, pass |-> "p", spass |-> "p", verify |-> TRUE, feats |-> {"HANDSHAKE"},
   cyrus |-> TRUE, kinit |-> "none", firsts |-> {}, finals |-> {}, verdicts |-> {}, cb |-> "app", cfg |-> <<>>,
   lives |-> {}, exts |-> {<<>>}, fails |-> {}, sets |-> 0, conns |-> 2, steps |-> {"ok"}, hup |-> FALSE,
   late |-> FALSE, back |-> FALSE, term |-> FALSE]
Good == Fst(<<"c", "s1">>, "salt", 4)
Firsts == {Good, Fst(<<"c", "s2">>, "salt", 4), Fst(<<"c">>, "salt", 4), Fst(<<"d", "s">>, "salt", 4),
           Fst(None, "salt", 4),
           Fst(<<"c", "s1">>, None, 4), Fst(<<"c", "s1">>, "invalid", 4), Fst(<<"c", "s1">>, "salt", None),
           Fst(<<"c", "s1">>, "salt", 11), Fst(<<"c", "s1">>, "salt", 66), [Good EXCEPT !.m = TRUE],
             [t |-> "toolarge"], [t |-> "empty"]}
Scram == [AnySasl EXCEPT !.mech = "SCRAM-SHA-256", !.firsts = Firsts]
Oauth == [AnySasl EXCEPT !.mech = "OAUTHBEARER", !.verdicts = {[t |-> "empty"], [t |-> "error"]}]
Me == Entry("principal", "p")
Cfgs == {<<>>, <<Me>>, <<Me, Me>>, <<Me, Life("int", 5), Life("int", 2)>>, <<Me, Life("int", 20)>>,
         <<Me, Life("int", 31)>>, <<Me, Life("text", 0)>>,
         <<Me, Life("int", 32)>>, <<Me, Life("int", 0)>>,
         <<Entry("principal", "")>>, <<Entry("principal", "quote")>>, <<Entry("scope", <<"a">>)>>,
         <<Me, Entry("scope", <<"a", "", "b", "a">>), Entry("scopeClaimName", "r"),
           Entry("principalClaimName", "azp")>>,
         <<Me, Entry("scope", <<"quote">>)>>, <<Me, Ext("traceId", "1"), Ext("b", "")>>,
           <<Me, Ext("auth", "1")>>, <<Me, Ext("", "1")>>,
         <<Me, Entry("unknown", "1")>>}
SaslPlans ==
  {[AnySasl EXCEPT !.mech = m, !.pass = p, !.hup = h, !.cyrus = y, !.kinit = k] :
      m \in {"PLAIN", "GSSAPI", "MD5"}, p \in {None, "p", "q"}, h \in BOOLEAN, y \in BOOLEAN,
        k \in {"none", "invalid"}}
  \cup {[AnySasl EXCEPT !.mech = "GSSAPI", !.feats = {"GSSAPI"}, !.steps = {"ok", "fail", "continue"},
         !.hup = h] : h \in BOOLEAN}
  \cup {[Scram EXCEPT !.hup = h, !.spass = p, !.verify = v, !.finals = f] :
          h \in BOOLEAN, p \in {"p", "q"}, v \in BOOLEAN, f \in {{}, {[t |-> "empty"]}}}
  \cup {[Scram EXCEPT !.mech = "SCRAM-SHA-other"], [Scram EXCEPT !.feats = {}],
        [Scram EXCEPT !.user = <<"a", ",", "=">>], [Scram EXCEPT !.pass = None]}
  \cup {[Oauth EXCEPT !.cb = "unsecured", !.cfg = c, !.conns = 1] : c \in Cfgs}
  \cup {[Oauth EXCEPT !.cb = "app", !.late = TRUE]}
  \cup {[Oauth EXCEPT !.cb = "app", !.lives = {6}, !.fails = {"e"}, !.sets = 2, !.conns = 1],
        [Oauth EXCEPT !.cb = "app", !.lives = {0, 2}, !.exts = {<<>>, <<<<"auth", "1">>>>}, !.sets = 2,
         !.conns = 0, !.term = TRUE],
        [Oauth EXCEPT !.cb = "app", !.fails = {"e", "f"}, !.sets = 2, !.conns = 1],
        [Oauth EXCEPT !.cb = "none", !.lives = {6}, !.fails = {"e"}, !.sets = 1, !.hup = TRUE],
        [Oauth EXCEPT !.cb = "unsecured", !.cfg = <<Me>>, !.lives = {6}, !.sets = 1, !.hup = TRUE, !.conns = 1],
        [Oauth EXCEPT !.cb = "app", !.lives = {6}, !.sets = 2, !.conns = 0, !.back = TRUE]}

Authenticating == INSTANCE Sasl
                  WITH Plans <- SaslPlans, IntWrap <- 64, Second <- 2, DefaultLife <- 4, FailDelay <- 2,
                       MaxIter <- 10, MaxRounds <- 3, MaxNow <- 8

-----------------------------------------------------------------------------
(* Assignment: up to three members with every mix of subscriptions; lists   *)
(* of strategies and of patterns; and calls on a list of partitions.        *)
Patterns == {10, 11, 12}
Matched == [r \in {10, 11} |-> IF r = 10 THEN {1, 3} ELSE {2}]
Blacklists == (<<>> :> {1, 2, 3}) @@ (<<"b">> :> {2}) @@ (<<"c", "d">> :> {})
Subs == {<<1>>, <<2, 1>>, <<3>>, <<1, 2, 3>>, <<10>>, <<10, 2>>, <<11, 12>>, <<0>>, <<>>}
TopicLists == {<<[topic |-> 1, cnt |-> a], [topic |-> 2, cnt |-> b], [topic |-> 3, cnt |-> c]>> :
                  a \in {1, 3}, b \in {0, 2}, c \in {4}}
          \cup {<<[topic |-> 3, cnt |-> 5], [topic |-> 1, cnt |-> 2]>>}
Group(ids, subs, topics, strategy, protocol, black) ==
  [members |-> [i \in DOMAIN ids |-> [id |-> ids[i], subs |-> subs[i]]], topics |-> topics,
   strategy |-> strategy,
   protocol |-> protocol, blacklist |-> black, ops |-> {}, edits |-> 0, keys |-> {}, room |-> 0]
BothStrategies == <<"range", "roundrobin">>
ListOps == {[op |-> o, topic |-> t, partition |-> p, offset |-> 7] :
               o \in {"add", "upsert", "del", "offset"}, t \in {1, 2}, p \in {0, 1}}
   \cup {[op |-> o, topic |-> 1, partition |-> 1, offset |-> 3] :
            o \in {"range", "default", "sort", "copy", "update"}}
GroupPlans == {Group(ids, subs, ts, BothStrategies, pr, <<>>) :
                  ids \in {<<1>>, <<2, 1>>, <<2, 3, 1>>}, subs \in Subs \X Subs \X Subs, ts \in TopicLists,
                    pr \in {"range", "roundrobin"}}
  \cup {Group(<<1, 2>>, <<<<1, 2>>, <<1, 2>>>>, <<[topic |-> 1, cnt |-> 3], [topic |-> 2, cnt |-> 1]>>, st, pr,
              bl) :
         st \in {<<"range">>, BothStrategies, <<"range", "range">>, <<"range", "bogus">>},
           pr \in {"range", "roundrobin"},
         bl \in {<<>>, <<"b">>, <<"c", "d", ",", "b">>, <<"b", ",", ",", "c", "d">>, <<"z">>}}
  \cup {[Group(<<>>, <<>>, <<>>, <<>>, "range", <<>>) EXCEPT !.ops = ListOps, !.edits = 3,
         !.keys = {1, 2} \X {0, 1}, !.room = r] : r \in {0, 1, 2}}

Assigning == INSTANCE Assignment
             WITH Plans <- GroupPlans, Matches <- Matched, Regexes <- Patterns, Compiled <- Blacklists

-----------------------------------------------------------------------------
(* phpRedisAdmin: two requests on one list, readers beside writers, keys    *)
(* that expire, a client cut off, exports imported again, several servers   *)
(* and users, pages, and a serializer.                                      *)
Ask(do) ==
  [do |-> do, browser |-> "b1", user |-> None, password |-> None, s |-> 0, d |-> 0, key |-> None,
   type |-> "none",
   edit |-> FALSE, hkey |-> "f", oldhkey |-> "f", index |-> 0, value |-> "v", old |-> "v", score |-> 1,
     marker |-> "m1",
   tree |-> <<>>, to |-> None, ttl |-> 1, page |-> 1, filter |-> None, transform |-> None, words |-> <<>>,
     from |-> None]
Of(do, k, t) == [Ask(do) EXCEPT !.key = k, !.type = t]
StringAt(v) == <<"string", FALSE, v>>
ListAt(v) == <<"list", FALSE, v>>
SetAt(v) == <<"set", FALSE, v>>
ZsetAt(v) == <<"zset", FALSE, v>>
HashAt(v) == <<"hash", FALSE, v>>
Only(db) == (<<0, 0>> :> db)
AnyAdmin ==
  [data |-> Only(<<>>), reqs |-> <<>>, cookies |-> <<>>, login |-> None, servers |-> {0}, down |-> {},
   ser |-> FALSE, seperator |-> ":",
   faster |-> FALSE, usekeys |-> TRUE, expires |-> FALSE, cut |-> FALSE, lists |-> FALSE, adds |-> FALSE]
Db == ("a" :> SetAt({"v", "w"})) @@ ("a:b" :> [ListAt(<<"v", "w">>) EXCEPT ![2] = TRUE])
  @@ ("a:b:c" :> ZsetAt("v" :> 1 @@ "w" :> 2)) @@ ("c" :> HashAt("f" :> "v" @@ "g" :> "nl"))
    @@ ("A" :> StringAt("v"))
ListDb == ("a" :> ListAt(<<"v", "w", "v">>))
DelAt(i, m) == [Of("delete", "a", "list") EXCEPT !.index = i, !.marker = m]
PutAt(i) == [Of("edit", "a", "list") EXCEPT !.index = i, !.edit = i >= 0, !.value = "x"]
Pairs(A, B) == {<<a, b>> : a \in A, b \in B}
ListReqs == {DelAt(0, "m1"), DelAt(1, "m1"), PutAt(0), PutAt(-1), PutAt(-2), PutAt(3), PutAt(7),
             Of("view", "a", "none"), [Of("rename", "a", "none") EXCEPT !.to = "c"]}
ListReqs2 == {DelAt(0, "m2"), DelAt(2, "m2"), PutAt(2), PutAt(-1)}
Readers == {Of("view", k, "none") : k \in {"a", "a:b", "a:b:c", "c", "A", "long"}}
  \cup {[Ask("export") EXCEPT !.type = t, !.key = k] : t \in {"redis", "json"}, k \in {None, "a:b:c"}}
            \cup {Ask("index")}
Writers == {Of("delete", "a:b:c", "none"), [Of("delete", None, "tree") EXCEPT !.tree = <<"a">>],
            [Of("delete", "c", "hash") EXCEPT !.oldhkey = "g"],
            Ask("flush"), [Of("rename", "c", "none") EXCEPT !.to = "a"],
              [Of("rename", "d", "none") EXCEPT !.to = "a"],  [Of("rename", "c", "none") EXCEPT !.to = "long"],
            [Of("ttl", "a", "none") EXCEPT !.ttl = 5], [Of("ttl", "a", "none") EXCEPT !.ttl = 0],
              [Of("ttl", "a:b", "none") EXCEPT !.ttl = -1],
            Of("edit", "a", "string"), [Of("edit", "A", "string") EXCEPT !.edit = TRUE]}
SetReqs(o) == {[Of("edit", "a", "set") EXCEPT !.edit = TRUE, !.old = "v", !.value = "x" \o o],
               [Of("edit", "a", "set") EXCEPT !.edit = TRUE, !.old = "w", !.value = "w"],
            [Of("edit", "a:b:c", "zset") EXCEPT !.edit = TRUE, !.old = "v", !.value = "v", !.score = 3],
            [Of("edit", "c", "hash") EXCEPT !.edit = TRUE, !.oldhkey = "f", !.hkey = "h" \o o],
              [Of("edit", "c", "hash") EXCEPT !.hkey = "g"],
             [Of("edit", "a:b:c", "zset") EXCEPT !.value = "y" \o o]}
Login(u, p) == [Ask("index") EXCEPT !.user = u, !.password = p]
Users == [admin |-> [password |-> "pw", servers |-> None], guest |-> [password |-> "", servers |-> <<1>>]]
TwoServers == (<<0, 0>> :> ListDb) @@ (<<1, 0>> :> <<>>) @@ (<<1, 1>> :> ("c" :> StringAt("w")))
GuestOf(b) == [user |-> "guest", hash |-> <<"guest", b, "">>]
PatternDb == [k \in {"a", "a:b", "a:b:c", "*:b", "[a]:b", "c"} |-> StringAt("v")]
AdminPlans ==
  {[AnyAdmin EXCEPT !.data = Only(ListDb), !.reqs = r, !.lists = \A i \in DOMAIN r : r[i].do # "rename"] :
      r \in Pairs(ListReqs, ListReqs2)}
  \cup {[AnyAdmin EXCEPT !.data = Only(ListDb), !.reqs = <<DelAt(0, "m1"), DelAt(1, "m2"), PutAt(-1)>>,
         !.lists = TRUE, !.cut = TRUE]}
  \cup {[AnyAdmin EXCEPT !.data = Only(Db), !.reqs = r, !.usekeys = FALSE] : r \in Pairs(Readers, Writers)}
  \cup {[AnyAdmin EXCEPT !.data = Only(Db), !.reqs = <<r>>, !.expires = TRUE, !.faster = f] :
           r \in Readers, f \in BOOLEAN}
  \cup {[AnyAdmin EXCEPT !.data = Only(Db), !.reqs = r, !.adds = TRUE] :
           r \in Pairs(SetReqs("1"), SetReqs("2"))}
  \cup {[AnyAdmin EXCEPT !.data = Only(Db) @@ (<<0, 1>> :> <<>>),
         !.reqs = <<e, [Ask("import") EXCEPT !.from = 1, !.d = 1]>>] :
           e \in {[Ask("export") EXCEPT !.type = "redis", !.filter = f, !.transform = t] :
                     f \in {None, "a"}, t \in {None, "c"}}}
  \cup {[AnyAdmin EXCEPT !.data = Only(Db), !.reqs = <<[Ask("import") EXCEPT !.words = w]>>] :
           w \in {<<"SET", "a", "v", "DEL", "a", "LPUSH", "a:b", "x", "LSET", "a:b", "0", "y", "", "SADD", "a",
                    "w">>,
                  <<"SET">>, <<"LSET", "a:b", "v", "v">>, <<"HSET", "c", "f", "x">>}}
  \cup {[AnyAdmin EXCEPT !.data = TwoServers, !.servers = {0, 1, 2}, !.down = {2}, !.login = Users,
         !.reqs = <<a, b>>] :
           a \in {Login("admin", "pw"), Login("guest", "no"), [Login("guest", "") EXCEPT !.s = 0],
                  [Login("guest", "") EXCEPT !.do = "overview", !.s = 7],
                    [Login("admin", "pw") EXCEPT !.do = "overview"]},
           b \in {Ask("save"), [Login("guest", "") EXCEPT !.do = "info", !.s = 1, !.d = 1]}}
  \cup {[AnyAdmin EXCEPT !.data = TwoServers, !.servers = {0, 1}, !.login = Users,
         !.cookies = [b1 |-> None, b2 |-> c],
                         !.reqs = <<[Ask(d) EXCEPT !.user = u, !.password = "pw"], Ask("save"),
                                    [Ask("logout") EXCEPT !.browser = b]>>] :
           c \in {None, GuestOf("b2"), GuestOf("b1")},
           u \in {"admin", "guest"}, b \in {"b1", "b2"}, d \in {"login", "save"}}
  \cup {[AnyAdmin EXCEPT !.data = TwoServers, !.servers = {0, 1}, !.login = Users, !.cookies = [b1 |-> GuestOf(b)],
         !.reqs = <<[Of("edit", "c", "string") EXCEPT !.s = v, !.d = 1, !.edit = TRUE], [Ask("logout") EXCEPT !.s = 1],
                    [Ask("login") EXCEPT !.user = "admin", !.password = "pw"]>>] : v \in {1, 7}, b \in {"b1", "b2"}}
  \cup {[AnyAdmin EXCEPT !.data = Only(PatternDb), !.seperator = sep,
         !.reqs = <<[Of("delete", None, "tree") EXCEPT !.tree = t]>>] :
           sep \in {":", "/"}, t \in {<<"a">>, <<"a", "b">>, <<"*">>, <<"[a]">>}}
  \cup {[AnyAdmin EXCEPT !.data = Only("a" :> ListAt([i \in 1..n |-> "v"])),
         !.reqs = <<[Of("view", "a", "none") EXCEPT !.page = p]>>] :
           n \in {2, 24, 26, 27, 30}, p \in 0..15}
  \cup {[AnyAdmin EXCEPT !.data = Only("a" :> SetAt({"V", "W"})), !.ser = TRUE, !.reqs = <<q>>] :
           q \in {Of("view", "a", "none"), [Of("edit", "a", "set") EXCEPT !.value = "bad"],
                  [Of("edit", "a", "set") EXCEPT !.edit = TRUE, !.old = "v", !.value = "w"]}}

Words == <<"", "*:b", "A", "[a]:b", "V", "W", "a", "a:b", "a:b:c", "c", "c:b", "c:b:c", "d", "f", "g", "h1", "h2", "long", "m1",
           "m2", "nl", "null",
           "v", "w", "x", "x1", "x2", "y1", "y2">>

Administering ==
  INSTANCE RedisAdmin
  WITH Plans <- AdminPlans,
       Parts <- ("" :> <<"">>) @@ ("a" :> <<"a">>) @@ ("a:b" :> <<"a", "b">>) @@ ("a:b:c" :> <<"a", "b", "c">>)
                @@ ("c" :> <<"c">>) @@ ("A" :> <<"A">>) @@ ("long" :> <<"long">>) @@ ("d" :> <<"d">>)
                @@ ("c:b" :> <<"c", "b">>) @@ ("c:b:c" :> <<"c", "b", "c">>)
                @@ ("*:b" :> <<"*", "b">>) @@ ("[a]:b" :> <<"[a]", "b">>),
       Globs <- ("*" :> {<<n>> : n \in {"*", "[a]", "a", "c"}} \cup {<<"a", "b">>, <<"c", "b">>}) @@ ("[a]" :> {<<"a">>}),
       Rank <- [x \in {Words[i] : i \in DOMAIN Words} |-> CHOOSE i \in DOMAIN Words : Words[i] = x],
       PerPage <- 2, TooLong <- {"long"}, Numbers <- ("0" :> 0 @@ "1" :> 1 @@ "2" :> 2 @@ "3" :> 3),
       Encoded <- [v |-> "V", w |-> "W"]

-----------------------------------------------------------------------------
(* Configuration: values of every type, copies, plugins and interceptors;   *)
(* and what a new client refuses or completes.                              *)
Num(n) == [n |-> n, w |-> None, items |-> <<>>]
Word(w) == [n |-> None, w |-> w, items |-> <<>>]
List(items) == [n |-> None, w |-> None, items |-> items]
Flag(w) == [w |-> w, del |-> FALSE]
NoFlag(w) == [w |-> w, del |-> TRUE]
AnyConf ==
  [sets |-> {}, ptrs |-> {}, topics |-> {}, filters |-> {}, types |-> {}, len |-> 4, badregex |-> "bad",
   owns |-> ("a.so" :> {"a.good", "a.bad"} @@ "b.so" :> {"b.good"}), bad |-> {"a.bad"}, missing |-> {"no.so"},
     refuses |-> {"old.so"}]
ConfPlans ==
  {[AnyConf EXCEPT
      !.sets = {<<"client.id", Word("x")>>, <<"client.id", None>>,
                <<"debug", List(<<Flag("generic"), Flag("bogus")>>)>>,
                <<"debug", List(<<Flag("all"), NoFlag("broker")>>)>>, <<"max.in.flight", Num(0)>>,
                  <<"max.in.flight", Num(7)>>,
                <<"topic.blacklist", List(<<"x", "y">>)>>, <<"topic.blacklist", List(<<"x", "bad">>)>>,
                <<"linger.ms", Num(1234567)>>, <<"acks", Word("all")>>, <<"topic.acks", Num(1)>>,
                  <<"enable.idempotence", Word("t")>>,
                <<"security.protocol", Word("ssl")>>, <<"queuing.strategy", Word("bogus")>>,
                  <<"unheard.of", Num(1)>>, <<"socket_cb", Num(1)>>,
                <<"interceptors", None>>},
      !.filters = {{}, {"client.id", "debug"}, {"default_topic_conf"}}, !.len = 3],
   [AnyConf EXCEPT
      !.sets = {<<"plugin.library.paths", List(p)>> :
                   p \in {<<"a.so">>, <<"a.so", "a.so", "b.so">>, <<"b.so", "no.so">>, <<"old.so">>}}
               \cup {<<"a.good", Num(1)>>, <<"a.good", Num(2)>>, <<"a.bad", Num(1)>>, <<"b.good", None>>,
                     <<"plugin.library.paths", None>>},
      !.filters = {{}, {"a.good"}, {"plugin.library.paths"}}, !.types = {"producer"}, !.len = 4],
   [AnyConf EXCEPT
      !.sets = {<<"enable.idempotence", Word("true")>>, <<"enable.gapless.guarantee", Word("1")>>,
                <<"retries", Num(0)>>, <<"max.in.flight", Num(6)>>,
                <<"max.in.flight", Num(2)>>, <<"queue.buffering.backpressure.threshold", Num(2)>>,
                  <<"acks", Num(1)>>, <<"queuing.strategy", Word("lifo")>>,
                <<"linger.ms", Num(900000)>>, <<"message.timeout.ms", Num(900)>>,
                  <<"message.timeout.ms", Num(0)>>},
      !.topics = {<<>>, <<<<"acks", Num(0)>>>>, <<<<"message.timeout.ms", Num(900)>>>>},
        !.types = {"producer", "consumer"}, !.len = 4],
   [AnyConf EXCEPT
      !.sets = {<<"fetch.max.bytes", Num(0)>>, <<"fetch.max.bytes", Num(2147483135)>>,
                <<"message.max.bytes", Num(1000000000)>>,
                <<"receive.message.max.bytes", Num(1000)>>, <<"receive.message.max.bytes", Num(52429312)>>,
                  <<"session.timeout.ms", Num(300001)>>,
                <<"topic.metadata.refresh.interval.ms", Num(0)>>,
                  <<"topic.metadata.refresh.interval.ms", Num(-1)>>, <<"metadata.max.age.ms", Num(1)>>,
                <<"reconnect.backoff.ms", Num(10001)>>,
                  <<"enable.sasl.oauthbearer.unsecure.jwt", Word("true")>>,
                <<"ssl.keystore.location", Word("k")>>, <<"ssl.keystore.password", Word("p")>>},
      !.ptrs = {<<"oauthbearer_token_refresh_cb", "app">>, <<"socket_cb", None>>}, !.types = {"consumer"},
        !.len = 4]}

Configuring == INSTANCE Conf WITH Plans <- ConfPlans, Table <- rd_kafka_properties

-----------------------------------------------------------------------------
(* Clients that are created, fail to be, and are destroyed, one or two at   *)
(* a time, while wait_destroyed() waits.                                    *)
Client == [appconf |-> TRUE, fails |-> None, bg |-> FALSE, sasl |-> FALSE, events |-> 0, immediate |-> FALSE,
           cgrp |-> FALSE]
LifePlans ==
  {[clients |-> <<[Client EXCEPT !.fails = f, !.bg = b, !.sasl = TRUE, !.appconf = a]>>, waits |-> {1},
    waittimeout |-> FALSE] :
     f \in {"conf", "assignors", "sasl", "ssl", "background", "main", "slow"}, b \in BOOLEAN, a \in BOOLEAN}
  \cup {[clients |-> <<[Client EXCEPT !.bg = TRUE, !.events = 2, !.cgrp = TRUE, !.immediate = im]>>,
         waits |-> {1}, waittimeout |-> im] : im \in BOOLEAN}
  \cup {[clients |-> <<[Client EXCEPT !.bg = TRUE, !.appconf = FALSE], [Client EXCEPT !.fails = f]>>,
         waits |-> {1}, waittimeout |-> f = "slow"] :
     f \in {None, "conf", "main", "slow"}}

Living == INSTANCE Lifecycle WITH Plans <- LifePlans

-----------------------------------------------------------------------------
(* The offset file: a shorter number stored after a longer one, and the     *)
(* other way round; synced at every commit, now and then, and never.        *)
FilePlan(sync, eof, faults) ==
  [offsets |-> {7, 103}, sync |-> sync, eof |-> eof, faults |-> faults, crashes |-> 1, stores |-> 2, runs |-> 2,
   stops |-> 1]
FilePlans == {FilePlan(0, 12, 2), FilePlan(1, 0, 2), FilePlan(-1, 0, 1)}

Storing == INSTANCE OffsetFile WITH Plans <- FilePlans

-----------------------------------------------------------------------------
Init ==
  \/ Queues!Init \/ Producing!Init \/ Calling!Init \/ Authenticating!Init
  \/ Assigning!Init \/ Administering!Init \/ Configuring!Init \/ Living!Init
  \/ Storing!Init

Next ==
  \/ s.mod = "OpQueues" /\ Queues!Next
  \/ s.mod = "ProduceApi" /\ Producing!Next
  \/ s.mod = "SyncCalls" /\ Calling!Next
  \/ s.mod = "Sasl" /\ Authenticating!Next
  \/ s.mod = "Assignment" /\ Assigning!Next
  \/ s.mod = "RedisAdmin" /\ Administering!Next
  \/ s.mod = "Conf" /\ Configuring!Next
  \/ s.mod = "Lifecycle" /\ Living!Next
  \/ s.mod = "OffsetFile" /\ Storing!Next

Spec ==
  /\ Init /\ [][Next]_s
  /\ Queues!Fairness /\ Producing!Fairness /\ Calling!Fairness /\ Authenticating!Fairness
  /\ Administering!Fairness /\ Living!Fairness

-----------------------------------------------------------------------------
(* The properties of the modules.                                          *)

(* Ops, lengths, references and the order of queues: see OpQueues.         *)
QueuesSound == s.mod = "OpQueues" => Queues!QueuesSound

(* Limits, reports, flush() and purge(), with the message that a batch     *)
(* leaves behind: see ProduceApi.                                          *)
ProduceSafe == s.mod = "ProduceApi" => Producing!ProduceSafe

(* A call that waits gets its own replies, and returns what they said, but *)
(* for one answer about watermarks: see SyncCalls.                         *)
CallsSound == s.mod = "SyncCalls" => Calling!CallsSound

(* Who authenticates, and the tokens and their refreshing: see Sasl.       *)
SaslSafe == s.mod = "Sasl" => Authenticating!SaslSafe

(* What a client starts from.  The assignors give what members subscribe   *)
(* to, once, but for a roundrobin scan that leaves its array: see          *)
(* Assignment.  Configurations keep what was set and are     *)
(* verified: see Conf.  A crash leaves an offset that was stored: see      *)
(* OffsetFile.                                                             *)
SettingsSound ==
  /\ s.mod = "Assignment" => Assigning!AssignmentSound
  /\ s.mod = "Conf" => Configuring!ConfSound
  /\ s.mod = "OffsetFile" => Storing!OffsetFileSound


(* What is created is released once and waited for, but for three failures *)
(* of rd_kafka_new(): see Lifecycle.                                       *)
LifecycleSound == s.mod = "Lifecycle" => Living!LifecycleSound

(* No op, call, token, request or client waits for ever: see OpQueues,     *)
(* ProduceApi, SyncCalls, Sasl, RedisAdmin and Lifecycle.                  *)
InterfacesProgress ==
  /\ Queues!Served
  /\ Producing!CallsReturn
  /\ Calling!CallsReturn
  /\ Authenticating!SaslProgress
  /\ Administering!RequestsEnd
  /\ Living!LivesEnd
=============================================================================
