------------------------------ MODULE ConfTable ------------------------------
(***************************************************************************)
(* The table of configuration properties of rdkafka_conf.c: some of every  *)
(* type, and all that are completed or verified together.  A double is in  *)
(* thousandths.                                                            *)
(***************************************************************************)
EXTENDS Integers, Sequences

CONSTANT None

Property(name, type, def) == [name |-> name, type |-> type, def |-> def, lo |-> 0, hi |-> 0, words |-> <<>>]
Number(name, lo, hi, def) == [Property(name, "INT", def) EXCEPT !.lo = lo, !.hi = hi]
Bool(name, def) == Property(name, "BOOL", def)
Str(name, def) == Property(name, "STR", def)
Ptr(name, def) == Property(name, "PTR", def)
Alias(name, of) == Property(name, "ALIAS", of)

INT_MAX == 2147483647

ClientProps ==
  <<Str("client.id", [n |-> None, w |-> "rdkafka", items |-> <<>>]),
    Number("message.max.bytes", 1000, 1000000000, 1000000),
    Number("receive.message.max.bytes", 1000, INT_MAX, 100000000),
    Number("max.in.flight.requests.per.connection", 1, 1000000, 1000000),
    Alias("max.in.flight", "max.in.flight.requests.per.connection"),
    Number("topic.metadata.refresh.interval.ms", -1, 3600000, 300000),
    Number("metadata.max.age.ms", 1, 86400000, 900000)>>

DebugProps ==
  <<Property("topic.blacklist", "PATLIST", None),
    [Property("debug", "S2F", {}) EXCEPT !.words = [generic |-> {"generic"}, broker |-> {"broker"}, all |-> {"generic", "broker"}]],
    Bool("enable.sparse.connections", 1),
    Number("reconnect.backoff.ms", 0, 3600000, 100),
    Number("reconnect.backoff.max.ms", 0, 3600000, 10000)>>

CallbackProps ==
  <<Ptr("socket_cb", "linux"), Ptr("open_cb", "linux"), Ptr("default_topic_conf", None)>>

SecurityProps ==
  <<[Property("security.protocol", "S2I", 0) EXCEPT !.words = [plaintext |-> 0, ssl |-> 1, sasl_plaintext |-> 2, sasl_ssl |-> 3]],
    Str("ssl.keystore.location", None), Str("ssl.keystore.password", None),
    Bool("enable.sasl.oauthbearer.unsecure.jwt", 0), Ptr("oauthbearer_token_refresh_cb", None),
    Str("plugin.library.paths", None), Property("interceptors", "INTERNAL", None)>>

ConsumerProps ==
  <<Number("session.timeout.ms", 1, 3600000, 10000),
    Number("max.poll.interval.ms", 1, 86400000, 300000),
    Number("fetch.max.bytes", 0, INT_MAX - 512, 52428800)>>

ProducerProps ==
  <<Bool("enable.idempotence", 0), Bool("enable.gapless.guarantee", 0),
    [Property("queue.buffering.max.ms", "DBL", 500) EXCEPT !.hi = 900000000],
    Alias("linger.ms", "queue.buffering.max.ms"),
    Number("message.send.max.retries", 0, 10000000, 2), Alias("retries", "message.send.max.retries"),
    Number("queue.buffering.backpressure.threshold", 1, 1000000, 1)>>

TopicProps ==
  <<[Number("request.required.acks", -1, 1000, -1) EXCEPT !.words = [all |-> -1]],
    Alias("acks", "request.required.acks"),
    Number("message.timeout.ms", 0, INT_MAX, 300000), Alias("delivery.timeout.ms", "message.timeout.ms"),
    [Property("queuing.strategy", "S2I", 0) EXCEPT !.words = [fifo |-> 0, lifo |-> 1]]>>

Props(scope) ==
  IF scope = "topic" THEN TopicProps
  ELSE ClientProps \o DebugProps \o CallbackProps \o SecurityProps \o ConsumerProps \o ProducerProps

\* rd_kafka_properties[]: in its order, and by name.
rd_kafka_properties ==
  [scope \in {"global", "topic"} |->
     LET ps == Props(scope) IN
     [order |-> ps, named |-> [n \in {ps[i].name : i \in DOMAIN ps} |-> ps[CHOOSE i \in DOMAIN ps : ps[i].name = n]]]]
=============================================================================
