-------------------------------- MODULE Conf --------------------------------
(***************************************************************************)
(* The configuration objects of librdkafka (rdkafka_conf.c) with their     *)
(* plugins and interceptors (rdkafka_plugin.c, rdkafka_interceptor.c): an  *)
(* application sets, reads, duplicates and destroys them, gives them to a  *)
(* client, which completes and verifies them, and creates topics.          *)
(*                                                                         *)
(* An uncommented definition just above another one is a faulty variant of *)
(* it, under which one of the properties fails.                            *)
(***************************************************************************)
EXTENDS Integers, Sequences, FiniteSets, SequencesExt

CONSTANTS Plans,   \* what an application does, and the plugins there are
          Table,   \* rd_kafka_properties[] of ConfTable
          None

VARIABLE s

(* s.plan    what does not change                                           *)
(* s.conf    the objects: vals, the properties set (modified), the default  *)
(*           topic conf, the interceptors by list (on), what interceptors   *)
(*           were configured with (config), loaded plugins, whether there   *)
(*           may be methods of others (loose); dangling, their list was     *)
(*           freed, and freed twice; how many instances of interceptors     *)
(*           were made, and libraries opened and closed                     *)
(* s.rk      the client: its type and conf                                  *)
(* s.last    the last operation with the object before and after it         *)
(* s.ended   what the objects that were destroyed leave                     *)
(* s.n       operations so far                                              *)
vars == <<s>>

-----------------------------------------------------------------------------
Names(scope) == DOMAIN Table[scope].named

\* rd_kafka_conf_prop_find()
Prop(scope, name) == Table[scope].named[name]

\* Aliases have one step.
Real(scope, name) == IF Prop(scope, name).type = "ALIAS" THEN Prop(scope, name).def ELSE name

Stored(scope) == {n \in Names(scope) : Prop(scope, n).type # "ALIAS"}

\* rd_kafka_conf_new() and rd_kafka_topic_conf_new(): no default counts as set.
NewConf(scope) ==
  [scope |-> scope, vals |-> [n \in Stored(scope) |-> Prop(scope, n).def], set |-> {}, lingers |-> 0, intvl |-> 0, topic |-> None,
   on |-> [set |-> <<>>, dup |-> <<>>, destroy |-> <<>>, new |-> <<>>], config |-> <<>>, plugins |-> <<>>, loose |-> FALSE,
   dangling |-> FALSE, twice |-> FALSE, made |-> 0, opened |-> 0, closed |-> 0]

IsSet(c, name) == Real(c.scope, name) \in c.set
Val(c, name) == c.vals[Real(c.scope, name)]
Put(c, name, val) == [c EXCEPT !.vals[Real(c.scope, name)] = val]

Res(c, res) == [c |-> c, res |-> res]

-----------------------------------------------------------------------------
(* Interceptors and plugins.  The conf_init() of a plugin and its          *)
(* on_conf_dup() make an instance and add its methods, as the plugin of    *)
(* the tests does; on_conf_set() takes the names the plugin owns.          *)

Same(a, b) == a.ic = b.ic

\* rd_kafka_interceptor_method_add() to a list that is unique.
AddOnce(list, inst) == IF \E i \in DOMAIN list : Same(list[i], inst) THEN list ELSE Append(list, inst)

ConfInitOnce(c, ic) ==
  LET inst == [ic |-> ic, id |-> c.made + 1] IN
  [c EXCEPT !.made = @ + 1,
            !.on = [set |-> AddOnce(@.set, inst), dup |-> AddOnce(@.dup, inst), new |-> AddOnce(@.new, inst),
                    destroy |-> AddOnce(@.destroy, inst)]]

\* on_conf_destroy() may be added again, for another instance.
ConfInit(c, ic) ==
  LET inst == [ic |-> ic, id |-> c.made + 1] IN
  [c EXCEPT !.made = @ + 1,
            !.on = [set |-> AddOnce(@.set, inst), dup |-> AddOnce(@.dup, inst), new |-> AddOnce(@.new, inst),
                    destroy |-> Append(@.destroy, inst)]]

\* rd_kafka_interceptors_on_conf_set(): the first that knows the name.
OnConfSet(c, name, v) ==
  LET knows == {i \in DOMAIN c.on.set : name \in s.plan.owns[c.on.set[i].ic]} IN
  IF c.scope # "global" \/ knows = {} THEN Res(c, "UNKNOWN")
  ELSE IF name \in s.plan.bad THEN Res(c, "INVALID")
  ELSE Res([c EXCEPT !.config = Append(@, <<name, v>>)], "OK")

\* Libraries are closed with the plugins.
Unload(c) ==
  [c EXCEPT !.closed = @ + Len(c.plugins), !.plugins = <<>>, !.loose = @ \/ c.plugins # <<>>,
            !.twice = @ \/ c.dangling, !.dangling = FALSE]

\* rd_kafka_plugin_new(): the first that fails ends it, and the list is freed
\* with those before it and not made anew.
PluginNew(r, path) ==
  IF r.res # "OK" \/ \E i \in DOMAIN r.c.plugins : r.c.plugins[i] = path THEN r
  ELSE IF path \in s.plan.missing
  THEN Res([Unload(r.c) EXCEPT !.dangling = r.c.plugins # <<>>], "INVALID")
  ELSE IF path \in s.plan.refuses
  THEN Res([Unload(r.c) EXCEPT !.dangling = r.c.plugins # <<>>, !.opened = @ + 1, !.closed = @ + 1], "INVALID")
  ELSE Res([ConfInit(r.c, path) EXCEPT !.opened = @ + 1, !.plugins = Append(@, path)], "OK")

\* rd_kafka_plugins_conf_set0()
PluginsSet(c, v) == IF v = None THEN Res(Unload(c), "OK") ELSE FoldLeft(PluginNew, Res(Unload(c), "OK"), v.items)

-----------------------------------------------------------------------------
(* Setting.  The text of a value has the number it starts with, after the  *)
(* cast to int, its word and the items of its list; None is the empty one. *)

\* rd_kafka_anyconf_set_prop0(): what is stored.  A list of patterns that is
\* wrong leaves none.
Assigned(c, p, v, val, mode) ==
  CASE p.type = "STR" -> Res(Put(c, p.name, IF v = None THEN p.def ELSE v), "OK")
    [] p.type = "S2F" -> Res(Put(c, p.name, CASE mode = "replace" -> val [] mode = "add" -> Val(c, p.name) \cup val
                                              [] mode = "del" -> Val(c, p.name) \ val), "OK")
    [] p.type = "PATLIST" ->
         IF v # None /\ \E i \in DOMAIN v.items : v.items[i] = s.plan.badregex THEN Res(Put(c, p.name, None), "INVALID")
         ELSE Res(Put(c, p.name, v), "OK")
    [] p.type = "INTERNAL" -> Res(c, "OK")
    [] OTHER -> Res(Put(c, p.name, val), "OK")

Modified(r, p) == IF r.res # "OK" THEN r ELSE Res([r.c EXCEPT !.set = @ \cup {p.name}], "OK")

\* After the interceptors, and the setter of the property if it has one.
Customised(custom, p, v, val, mode) ==
  IF custom.res # "OK" THEN custom ELSE Modified(Assigned(custom.c, p, v, val, mode), p)

SetProp0(c, p, v, val, mode) ==
  LET h == IF p.type \in {"PTR", "INTERNAL"} THEN Res(c, "UNKNOWN") ELSE OnConfSet(c, p.name, v)
  IN IF h.res # "UNKNOWN" THEN h
     ELSE Customised(IF p.name = "plugin.library.paths" THEN PluginsSet(c, v) ELSE Res(c, "OK"), p, v, val, mode)

\* What a number or a word stands for, None if nothing.
NumberOf(p, v) ==
  LET n == IF v.n # None THEN v.n ELSE IF v.w \in DOMAIN p.words THEN p.words[v.w] ELSE None IN
  IF n # None /\ n \in p.lo..p.hi THEN n ELSE None

Truth(v) == CASE v.w \in {"true", "t", "1"} -> 1 [] v.w \in {"false", "f", "0"} -> 0 [] OTHER -> None

\* The flags of a list one by one: those before a wrong one are kept.
SetFlags(c, p, v) ==
  FoldLeft(LAMBDA r, item :
             IF r.res # "OK" \/ item.w = "" THEN r
             ELSE IF item.w \notin DOMAIN p.words THEN Res(r.c, "INVALID")
             ELSE Res(SetProp0(r.c, p, v, p.words[item.w], IF item.del THEN "del" ELSE "add").c, "OK"),
           Res(c, "OK"), v.items)

\* rd_kafka_anyconf_set_prop()
SetProp(c, p, v) ==
  LET val == CASE v = None \/ p.type \notin {"BOOL", "INT", "DBL", "S2I"} -> None
               [] v # None /\ p.type = "BOOL" -> Truth(v)
               [] v # None /\ p.type = "INT" -> NumberOf(p, v)
               [] v # None /\ p.type = "DBL" -> IF v.n # None /\ v.n \in p.lo..p.hi THEN v.n ELSE None
               [] v # None /\ p.type = "S2I" -> IF v.w \in DOMAIN p.words THEN p.words[v.w] ELSE None
  IN CASE p.type \in {"STR", "PATLIST"} -> SetProp0(c, p, v, None, "replace")
       [] p.type \in {"BOOL", "INT", "DBL", "S2I"} ->
            IF val = None THEN Res(c, "INVALID") ELSE Res(SetProp0(c, p, v, val, "replace").c, "OK")
       [] p.type = "S2F" -> IF v = None THEN Res(c, "INVALID") ELSE SetFlags(c, p, v)
       [] OTHER -> Res(c, "INVALID")

\* rd_kafka_anyconf_set(): interceptors are asked for an alias and for what it
\* stands for.
AnyconfSet(c, name, v) ==
  LET h == OnConfSet(c, name, v)
      real == Real(c.scope, name)
      g == OnConfSet(c, real, v)
  IN IF h.res # "UNKNOWN" THEN h
     ELSE IF name \notin Names(c.scope) THEN Res(c, "UNKNOWN")
     ELSE IF real # name /\ g.res # "UNKNOWN" THEN g
     ELSE SetProp(c, Prop(c.scope, real), v)

\* rd_kafka_conf_set_default_topic_conf() and the setters of pointers.
SetPtr(c, name, val) == SetProp0(c, Prop("global", name), None, val, "replace").c

SetDefaultTopic(c, t) == [SetPtr(c, "default_topic_conf", "topic") EXCEPT !.topic = t]

\* rd_kafka_topic_conf_set() takes a name with the prefix "topic." also.
TopicName(name) == IF name = "topic.acks" THEN "acks" ELSE name

\* rd_kafka_conf_set(): a name that is not known here is one of the default
\* topic conf, which is made for it.
ConfSet(c, name, v) ==
  LET OfTopic(d, t) == Res([d EXCEPT !.topic = t.c], t.res)
      InTopic(d) == OfTopic(d, AnyconfSet(d.topic, TopicName(name), v))
      Else(r) == IF r.res # "UNKNOWN" THEN r
                 ELSE InTopic(IF c.topic = None THEN SetDefaultTopic(c, NewConf("topic")) ELSE c)
  IN Else(AnyconfSet(c, name, v))

\* What is left of a number printed with "%g".
SixDigits(n) ==
  LET unit == CHOOSE u \in {1, 10, 100, 1000} : n \div u < 1000000 /\ (u > 1 => n \div (u \div 10) >= 1000000)
  IN ((n + unit \div 2) \div unit) * unit

\* rd_kafka_anyconf_get0(): the value as a text, None if it has none.
Text(p, val) ==
  CASE p.type \in {"STR", "PATLIST"} -> val
    [] p.type = "INT" -> [n |-> val, w |-> None, items |-> <<>>]
    [] p.type = "DBL" -> [n |-> SixDigits(val), w |-> None, items |-> <<>>]
    [] p.type = "BOOL" -> [n |-> None, w |-> IF val = 1 THEN "true" ELSE "false", items |-> <<>>]
    [] p.type = "S2I" -> [n |-> None, w |-> CHOOSE w \in DOMAIN p.words : p.words[w] = val, items |-> <<>>]
    [] p.type = "S2F" -> 
         [n |-> None, w |-> None,
          items |-> SetToSeq({[w |-> f, del |-> FALSE] : f \in {w \in DOMAIN p.words : p.words[w] \subseteq val}})]
    [] OTHER -> None

\* rd_kafka_conf_get()
ConfGet(c, name) ==
  LET Got(x) == IF name \in Names(x.scope) THEN Text(Prop(x.scope, Real(x.scope, name)), Val(x, name)) ELSE None IN
  IF Got(c) # None \/ c.topic = None THEN Got(c) ELSE Got(c.topic)

-----------------------------------------------------------------------------
(* Copies and the end of an object.                                        *)

\* rd_kafka_anyconf_copy() of one property to d: numbers and words go through
\* their text, and a failure is ignored.
CopyProp(d, c, p, filter) ==
  LET text == IF p.type \in {"STR", "PATLIST", "PTR", "INTERNAL", "ALIAS"} THEN None ELSE Text(p, c.vals[p.name])
  IN CASE p.type = "ALIAS" \/ p.name \in filter \/ (p.type # "INTERNAL" /\ p.name \notin c.set) -> d
       [] OTHER ->
            LET e == IF p.type = "INTERNAL"
                     THEN FoldLeft(LAMBDA x, nv : IF nv[1] \in filter THEN x ELSE ConfSet(x, nv[1], nv[2]).c, d, c.config)
                     ELSE d
                v == IF p.type \in {"STR", "PATLIST"} THEN c.vals[p.name] ELSE text
                val == CASE p.type = "DBL" -> text.n [] p.type = "INTERNAL" -> None [] OTHER -> c.vals[p.name]
            IN SetProp0(e, p, v, val, "replace").c

CopyAll(d, c, filter) == FoldLeft(LAMBDA x, p : CopyProp(x, c, p, filter), d, Table[c.scope].order)

\* rd_kafka_topic_conf_dup()
TopicDup(t) == CopyAll(NewConf("topic"), t, {})

DupLate(c, filter) ==
  LET d == CopyAll(NewConf("global"), c, filter)
      e == IF c.topic # None /\ "default_topic_conf" \notin filter THEN [d EXCEPT !.topic = TopicDup(c.topic)] ELSE d
  IN FoldLeft(LAMBDA x, inst : ConfInit(x, inst.ic), e, c.on.dup)

\* rd_kafka_conf_dup_filter(): on_conf_dup() comes first, and the plugins are
\* loaded again.
Dup(c, filter) ==
  LET inits == FoldLeft(LAMBDA x, inst : ConfInit(x, inst.ic), NewConf("global"), c.on.dup)
      d == CopyAll([inits EXCEPT !.loose = c.loose \/ "plugin.library.paths" \in filter], c, filter)
  IN IF c.topic # None /\ "default_topic_conf" \in c.set \ filter THEN [d EXCEPT !.topic = TopicDup(c.topic)] ELSE d

\* rd_kafka_anyconf_destroy(): on_conf_destroy() of every instance, then the
\* plugins if they are set.
Destroyed(c) ==
  LET d == IF c.vals["plugin.library.paths"] # None THEN Unload(c) ELSE c
  IN [made |-> c.made, told |-> Len(c.on.destroy), opened |-> d.opened, closed |-> d.closed, twice |-> d.twice,
      dangling |-> d.dangling]

-----------------------------------------------------------------------------
(* rd_kafka_conf_finalize(): each part gives the conf and the error.       *)

INT32_MAX == 2147483647

Larger(a, b) == IF a > b THEN a ELSE b
Lesser(a, b) == IF a < b THEN a ELSE b

Verify(c, ok, err) == IF ok THEN Res(c, None) ELSE Res(c, err)

Then(r, q) == IF r.res # None THEN r ELSE q

FinalizeMandatory(c) ==
  Verify(c, /\ Val(c, "socket_cb") # None /\ Val(c, "open_cb") # None
            /\ Val(c, "ssl.keystore.location") # None => Val(c, "ssl.keystore.password") # None
            /\ ~(Val(c, "enable.sasl.oauthbearer.unsecure.jwt") = 1 /\ Val(c, "oauthbearer_token_refresh_cb") # None),
         "mandatory")

\* The adjustments of a consumer, unless the application set the value.
FinalizeConsumer(c) ==
  LET fetch == IF IsSet(c, "fetch.max.bytes") THEN c
               ELSE Put(c, "fetch.max.bytes", Larger(Val(c, "fetch.max.bytes"), Val(c, "message.max.bytes")))
      recv == IF IsSet(c, "receive.message.max.bytes") THEN fetch
              ELSE Put(fetch, "receive.message.max.bytes",
                       Larger(Val(c, "receive.message.max.bytes"), Val(fetch, "fetch.max.bytes") + 512))
  IN CASE Val(fetch, "fetch.max.bytes") < Val(c, "message.max.bytes") -> Res(c, "fetch.max.bytes")
       [] /\ Val(fetch, "fetch.max.bytes") >= Val(c, "message.max.bytes")
          /\ Val(fetch, "fetch.max.bytes") > Val(recv, "receive.message.max.bytes") - 512 ->
            Res(fetch, "receive.message.max.bytes")
       [] OTHER -> IF Val(c, "max.poll.interval.ms") < Val(c, "session.timeout.ms") THEN Res(recv, "max.poll.interval.ms")
                   ELSE Res(Put(recv, "enable.idempotence", 0), None)

FinalizeProducerAlways(c) ==
  Res(Put(Put(Put(c, "max.in.flight", Lesser(Val(c, "max.in.flight"), 5)), "retries", INT32_MAX),
          "queue.buffering.backpressure.threshold", 1), None)

\* The idempotent producer: at most five requests in flight, retries for ever.
FinalizeProducer(c) ==
  LET inflight == IF IsSet(c, "max.in.flight") THEN c ELSE Put(c, "max.in.flight", Lesser(Val(c, "max.in.flight"), 5))
      retries == IF IsSet(c, "retries") THEN inflight ELSE Put(inflight, "retries", INT32_MAX)
      thres == "queue.buffering.backpressure.threshold"
  IN CASE Val(c, "enable.idempotence") = 0 ->
            Verify(c, ~(Val(c, "enable.gapless.guarantee") = 1 /\ IsSet(c, "enable.gapless.guarantee")), "gapless")
       [] OTHER ->
            IF Val(inflight, "max.in.flight") > 5 THEN Res(c, "max.in.flight")
            ELSE IF Val(retries, "retries") < 1 THEN Res(inflight, "retries")
            ELSE IF IsSet(c, thres) /\ Val(c, thres) > 1 THEN Res(retries, thres)
            ELSE Res(Put(retries, thres, 1), None)

FinalizeCommon(c) ==
  LET interval == Val(c, "topic.metadata.refresh.interval.ms")
      age == IF IsSet(c, "metadata.max.age.ms") \/ interval <= 0 THEN c ELSE Put(c, "metadata.max.age.ms", interval * 3)
      half == Val(c, "reconnect.backoff.ms") \div 2
      sparse == IF Val(c, "enable.sparse.connections") = 1 THEN [age EXCEPT !.intvl = Larger(11, Lesser(half, 1000))] ELSE age
  IN IF Val(c, "reconnect.backoff.max.ms") < Val(c, "reconnect.backoff.ms") THEN Res(age, "reconnect.backoff.max.ms")
     ELSE Res(sparse, None)

\* rd_kafka_topic_conf_finalize(): the conf gets the linger time in
\* microseconds, and t what an idempotent producer needs.
TopicFinalize(cltype, c, t) ==
  LET acks == IF IsSet(t, "acks") THEN t ELSE Put(t, "acks", -1)
      fifo == IF IsSet(t, "queuing.strategy") THEN acks ELSE Put(acks, "queuing.strategy", 0)
      u == IF Val(c, "enable.idempotence") = 1 THEN fifo ELSE t
      lingers == IF cltype = "producer" THEN [c EXCEPT !.lingers = Val(c, "queue.buffering.max.ms")] ELSE c
      R(x, y, err) == [c |-> x, t |-> y, res |-> err]
  IN IF Val(c, "enable.idempotence") = 1 /\ Val(acks, "acks") # -1 THEN R(c, t, "acks")
     ELSE IF Val(c, "enable.idempotence") = 1 /\ Val(fifo, "queuing.strategy") # 0 THEN R(c, acks, "queuing.strategy")
     ELSE IF /\ cltype = "producer" /\ Val(t, "message.timeout.ms") # 0
             /\ Val(t, "message.timeout.ms") <= lingers.lingers \div 1000
     THEN R(lingers, u, "message.timeout.ms")
     ELSE R(lingers, u, None)

Finalize(cltype, c) ==
  LET r1 == FinalizeMandatory(c)
      r2 == Then(r1, IF cltype = "consumer" THEN FinalizeConsumer(c) ELSE FinalizeProducer(c))
      r3 == Then(r2, FinalizeCommon(r2.c))
      t == TopicFinalize(cltype, r3.c, r3.c.topic)
  IN IF r3.res # None \/ r3.c.topic = None THEN r3 ELSE Res([t.c EXCEPT !.topic = t.t], t.res)

-----------------------------------------------------------------------------
(* What an application does.                                               *)

Objects == {1, 2}

Init ==
  \E p \in Plans :
    s = [mod |-> "Conf", plan |-> p, conf |-> [i \in Objects |-> IF i = 1 THEN NewConf("global") ELSE None],
         rk |-> None, last |-> None, ended |-> {}, n |-> 0]

Did(op, res, before, after, arg) == [op |-> op, res |-> res, before |-> before, after |-> after, arg |-> arg]

\* An operation on object i with its result.
Step(op, i, r, arg) == s' = [s EXCEPT !.conf[i] = r.c, !.last = Did(op, r.res, s.conf[i], r.c, arg), !.n = @ + 1]

Set(i) ==
  \E nv \in s.plan.sets : Step("set", i, ConfSet(s.conf[i], nv[1], nv[2]), nv[1])

SetCallback(i) ==
  \E nv \in s.plan.ptrs : Step("ptr", i, Res(SetPtr(s.conf[i], nv[1], nv[2]), "OK"), nv[1])

\* A topic conf with the properties of a list.
TopicConf(nvs) == FoldLeft(LAMBDA t, nv : AnyconfSet(t, nv[1], nv[2]).c, NewConf("topic"), nvs)

SetTopic(i) ==
  \E nvs \in s.plan.topics :
    LET t == TopicConf(nvs) IN Step("ptr", i, Res(SetDefaultTopic(s.conf[i], t), "OK"), "default_topic_conf")

Duplicated(d, filter) == s' = [s EXCEPT !.conf[2] = d, !.last = Did("dup", "OK", s.conf[1], d, filter), !.n = @ + 1]

Duplicate ==
  /\ s.conf[2] = None /\ s.conf[1] # None
  /\ \E filter \in s.plan.filters : Duplicated(Dup(s.conf[1], filter), filter)

DestroyConf(i) ==
  s' = [s EXCEPT !.conf[i] = None, !.ended = @ \cup {Destroyed(s.conf[i])}, !.last = None, !.n = @ + 1]

\* rd_kafka_new(): the conf is the application's again if it is refused.
Finalized(i, cltype, r) ==
  IF r.res # None THEN Step("new", i, r, cltype)
  ELSE s' = [s EXCEPT !.conf[i] = None, !.rk = [type |-> cltype, conf |-> r.c],
                      !.last = Did("new", r.res, s.conf[i], r.c, cltype), !.n = @ + 1]

New(i) == s.rk = None /\ \E cltype \in s.plan.types : Finalized(i, cltype, Finalize(cltype, s.conf[i]))

TopicMade(t, r, arg) == s' = [s EXCEPT !.rk.conf = r.c, !.last = Did("topic", r.res, t, r.t, arg), !.n = @ + 1]

\* rd_kafka_topic_new0(): without a conf, a copy of the default one.
TopicNew ==
  /\ s.rk # None
  /\ \E nvs \in s.plan.topics \cup {None} :
       LET t == IF nvs # None THEN TopicConf(nvs)
                ELSE IF s.rk.conf.topic # None THEN TopicDup(s.rk.conf.topic) ELSE NewConf("topic")
       IN TopicMade(t, TopicFinalize(s.rk.type, s.rk.conf, t), nvs)

\* rd_kafka_destroy()
DestroyClient ==
  /\ s.rk # None
  /\ s' = [s EXCEPT !.rk = None, !.ended = @ \cup {Destroyed(s.rk.conf)}, !.last = None, !.n = @ + 1]

Next ==
  /\ s.n < s.plan.len
  /\ \/ \E i \in Objects : s.conf[i] # None /\ (Set(i) \/ SetCallback(i) \/ SetTopic(i) \/ DestroyConf(i) \/ New(i))
     \/ Duplicate
     \/ TopicNew
     \/ DestroyClient

Spec == Init /\ [][Next]_s

(***************************************************************************)
(* Properties                                                              *)
(***************************************************************************)

After(op) == s.last # None /\ s.last.op = op

IsStored(c, n) == n \in Names(c.scope)

(* What conf_get() returns of any property can be given to conf_set(), by   *)
(* the name or an alias, and the object keeps its values, but for the digits *)
(* that are not printed.                                                    *)
ReadBack ==
  (After("set") /\ s.last.after.on.set = <<>>) =>
    \A n \in Names("global") \cup Names("topic") :
      LET a == s.last.after
          v == ConfGet(a, n)
          c == ConfSet(a, n, v).c
      IN (v # None /\ n \notin {"queue.buffering.max.ms", "linger.ms", "plugin.library.paths", "topic.blacklist"}) =>
           /\ c.vals = a.vals
           /\ a.topic # None => c.topic.vals = a.topic.vals

(* A set that is refused leaves every value as it was, but for a list of    *)
(* patterns, which is lost, and the flags before a wrong one; nothing new   *)
(* counts as set by the application, but that there is a topic conf.        *)
RefusedKeeps ==
  (After("set") /\ s.last.res # "OK") =>
    LET a == s.last.after
        b == s.last.before
    IN /\ \A n \in DOMAIN b.vals :
            \/ n = "default_topic_conf"
            \/ a.vals[n] = b.vals[n]
            \/ n = s.last.arg /\ Prop("global", n).type = "PATLIST" /\ a.vals[n] = None
            \/ n = s.last.arg /\ Prop("global", n).type = "S2F"
       /\ a.set \ b.set \subseteq {"default_topic_conf", "debug"}
       /\ b.topic # None => a.topic = b.topic

SameValues(a, b, filter) ==
  \A n \in DOMAIN b.vals :
    IF n \in b.set \ filter
    THEN n \in a.set /\ a.vals[n] = (IF Prop(b.scope, n).type = "DBL" THEN SixDigits(b.vals[n]) ELSE b.vals[n])
    ELSE a.vals[n] = Prop(b.scope, n).def

(* A copy has the values the application had set and the defaults of all    *)
(* others, the same default topic conf, the interceptors of the original    *)
(* and their configuration in its order.                                    *)
CopiesFaithful ==
  After("dup") =>
    LET a == s.last.after
        b == s.last.before
    IN /\ SameValues(a, b, s.last.arg)
       /\ (b.topic = None \/ "default_topic_conf" \in s.last.arg) => a.topic = None
       /\ (b.topic # None /\ "default_topic_conf" \notin s.last.arg) => a.topic # None /\ SameValues(a.topic, b.topic, {})
       /\ a.config = SelectSeq(b.config, LAMBDA nv : nv[1] \notin s.last.arg)
       /\ {b.on.dup[k].ic : k \in DOMAIN b.on.dup} \subseteq {a.on.set[k].ic : k \in DOMAIN a.on.set}
       /\ \A k, m \in DOMAIN a.on.set : a.on.set[k].ic = a.on.set[m].ic => k = m

Held == {s.conf[i] : i \in Objects} \cup (IF s.rk = None THEN {} ELSE {s.rk.conf})

(* Every instance of an interceptor is told of the end of its object once,  *)
(* every library that is opened is closed, and as long as plugins are not   *)
(* replaced the methods an object may call are of libraries it has loaded.  *)
InterceptorsSound ==
  /\ \A e \in s.ended : e.made = e.told /\ (~e.twice => e.opened = e.closed)
  /\ \A c \in Held : (c # None /\ ~c.loose) =>
       \A k \in DOMAIN c.on.destroy : \E m \in DOMAIN c.plugins : c.plugins[m] = c.on.destroy[k].ic

TopicAgrees(cltype, c, t) ==
  /\ Val(c, "enable.idempotence") = 1 => Val(t, "acks") = -1 /\ Val(t, "queuing.strategy") = 0
  /\ (cltype = "producer" /\ Val(t, "message.timeout.ms") # 0) =>
       Val(t, "message.timeout.ms") > Val(c, "queue.buffering.max.ms") \div 1000

Agrees(cltype, c) ==
  /\ cltype = "consumer" => /\ Val(c, "fetch.max.bytes") >= Val(c, "message.max.bytes")
                            /\ Val(c, "receive.message.max.bytes") - 512 >= Val(c, "fetch.max.bytes")
                            /\ Val(c, "max.poll.interval.ms") >= Val(c, "session.timeout.ms")
                            /\ Val(c, "enable.idempotence") = 0
  /\ Val(c, "enable.idempotence") = 1 => /\ Val(c, "max.in.flight") <= 5 /\ Val(c, "retries") >= 1
                                         /\ Val(c, "queue.buffering.backpressure.threshold") = 1
  /\ Val(c, "reconnect.backoff.max.ms") >= Val(c, "reconnect.backoff.ms")
  /\ c.topic # None => TopicAgrees(cltype, c, c.topic)

Keeps(a, b, except) == \A n \in b.set \ except : a.vals[n] = b.vals[n]

(* rd_kafka_new() never changes what the application set, accepted or not,  *)
(* but for the idempotence of a consumer; the properties of a conf that is  *)
(* accepted agree, and it would be accepted again and not change.           *)
FinalizeSound ==
  After("new") =>
    LET a == s.last.after
        b == s.last.before
    IN /\ Keeps(a, b, IF s.last.arg = "consumer" THEN {"enable.idempotence"} ELSE {})
       /\ b.topic # None => Keeps(a.topic, b.topic, {})
       /\ s.last.res = None => Agrees(s.last.arg, a) /\ Finalize(s.last.arg, a) = Res(a, None)

(* A topic without a conf of its own is never refused by a client that has  *)
(* a default one, and gets its values; what is accepted agrees with the     *)
(* client.                                                                  *)
TopicsFollow ==
  (After("topic") /\ s.rk # None) =>
    /\ s.last.res = None => TopicAgrees(s.rk.type, s.rk.conf, s.last.after)
    /\ (s.last.arg = None /\ s.rk.conf.topic # None) => s.last.res = None /\ s.last.after.vals = s.rk.conf.topic.vals

(* Configuration objects from the first set to the last topic.              *)
ConfSound == ReadBack /\ RefusedKeeps /\ CopiesFaithful /\ InterceptorsSound /\ FinalizeSound /\ TopicsFollow
=============================================================================
