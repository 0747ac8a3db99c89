------------------------------- MODULE MsgSet -------------------------------
(***************************************************************************)
(* Message sets: rdkafka_msgset_writer.c turns the head of a partition's   *)
(* queue into the message set of a ProduceRequest, rdkafka_msgset_reader.c *)
(* turns the bytes of a Fetch response back into messages.  In between the *)
(* broker (external) gives the messages their offsets, may stamp them,     *)
(* compact the log and cut the response anywhere.  Lengths are the bytes   *)
(* of the wire format; a key, a value or a header is its length (-1: NULL) *)
(* and the message it belongs to.                                          *)
(*                                                                         *)
(* An uncommented definition just above another one is a faulty variant of *)
(* it, under which one of the properties fails.                            *)
(***************************************************************************)
EXTENDS Integers, Sequences, FiniteSets, SequencesExt, FiniteSetsExt

CONSTANTS Plans,      \* the instances: configuration, messages and log
          None,
          FetchCap,   \* 2^30: fetch.message.max.bytes is not doubled from here
          Lead,       \* bytes of the Fetch response before the message set
          AppendTime  \* the broker's clock, for LogAppendTime topics

VARIABLE s

(* s.plan     the instance                                                  *)
(* s.q        the partition's queue of messages to send                     *)
(* s.req      the ProduceRequest on its way to the broker, None if none     *)
(* s.sent     the messages of every request, in order; s.fatal: a fatal     *)
(*            error was raised, s.abort: an assertion of the writer failed  *)
(* s.log      the broker's log: wrapper or plain messages and v2 sets       *)
(* s.leo      the offset of the next message; s.rec[o]: what was written    *)
(*            at offset o; s.gone: the offsets compaction removed           *)
(* s.fo       rktp_offsets.fetch_offset; s.fmax rktp_fetch_msg_max_bytes    *)
(* s.app      the operations on the partition's fetch queue                 *)
vars == <<s>>

\* RD_KAFKA_RESP_ERR codes of the reader.
Uflow == "UNDERFLOW"
NotImpl == "NOT_IMPLEMENTED"
BadMsg == "BAD_MSG"
BadCompr == "BAD_COMPRESSION"
TooLarge == "MSG_SIZE_TOO_LARGE"

Size(n) == IF n = -1 THEN 0 ELSE n

-----------------------------------------------------------------------------
(* Variable length integers (rdvarint.h).                                  *)

Zigzag(n) == IF n >= 0 THEN 2 * n ELSE -2 * n - 1

\* rd_uvarint_enc_u64: groups of 7 bits, the lowest first.
UvarintEnc(num) ==
  LET enc[n \in 0 .. num] == IF n < 128 THEN <<n>> ELSE <<n % 128>> \o enc[n \div 128] IN enc[num]

UvarintEncI64(n) == UvarintEnc(Zigzag(n))

\* rd_uvarint_dec
UvarintDec(b) == FoldRight(LAMBDA g, n : g + 128 * n, b, 0)

VarintDecI64(b) ==
  LET n == UvarintDec(b) IN IF n % 2 = 0 THEN n \div 2 ELSE -((n + 1) \div 2)

VarintLen(n) == Len(UvarintEncI64(n))

-----------------------------------------------------------------------------
(* Headers (rdkafka_header.c): h.n the length of the name, h.v of the value *)

\* What rd_kafka_header_add() adds to rkhdrs_ser_size.
HeaderSerSize(h) == h.n + Size(h.v) + VarintLen(h.n) + VarintLen(Size(h.v))

HeadersSize(hdrs) == FoldLeft(LAMBDA n, h : n + HeaderSerSize(h), 0, hdrs)

\* rd_kafka_msgset_writer_write_msg_headers
WriteMsgHeaders(hdrs) ==
  FoldLeft(LAMBDA b, h : Append(b, [n |-> UvarintEncI64(h.n), v |-> UvarintEncI64(h.v)]), <<>>, hdrs)

\* rd_kafka_msg_headers_parse, when the application asks for the headers.
HeadersParse(b) ==
  FoldLeft(LAMBDA hs, e : Append(hs, [n |-> VarintDecI64(e.n), v |-> VarintDecI64(e.v)]), <<>>, b)

HeadersWritten(b) ==
  FoldLeft(LAMBDA n, e : n + Len(e.n) + VarintDecI64(e.n) + Len(e.v) + Size(VarintDecI64(e.v)), 0, b)

-----------------------------------------------------------------------------
(* The writer.  m: [id, key, val, hdrs, ts, last], last the last message of *)
(* the batch a retried message was in, 0 if none.                           *)

\* rd_kafka_msg_wire_size: the most a message takes.
MsgWireSize(m, ver) ==
  Size(m.val) + Size(m.key)
  + CASE ver = 0 -> 12 + 14 [] ver = 1 -> 12 + 22 [] ver = 2 -> 36 + HeadersSize(m.hdrs)

\* rd_kafka_broker_ApiVersion_supported, of a broker that has Produce 0 .. have.
ApiVersionSupported(have, minver, maxver) ==
  IF have >= maxver THEN maxver ELSE IF have >= minver THEN have ELSE -1

\* rd_kafka_msgset_writer_select_MsgVersion: a codec the broker lacks is not
\* used.  p.have is the broker's highest Produce version, p.codecs what its
\* features allow.
SelectMsgVersion(p) ==
  LET needs == CASE p.codec = "lz4" -> 3 [] p.codec = "zstd" -> 7 [] OTHER -> 0
      ver == IF p.have >= 3 THEN 2 ELSE IF p.have >= 2 THEN 1 ELSE 0
      codec == IF /\ ApiVersionSupported(p.have, 0, needs) # -1
                  /\ p.codec \in p.codecs \cup {"gzip", "snappy"}
               THEN p.codec ELSE "none"
      floor == Max({Min({p.have, ver + 1}), IF codec = "none" THEN 0 ELSE needs})
  IN [ver |-> ver, codec |-> codec, floor |-> floor, api |-> ApiVersionSupported(p.have, floor, 7)]

\* rd_kafka_msgset_writer_write_Produce_header, and the v2 set's header.
ProduceHeader(p, api) == (IF api >= 3 THEN 2 ELSE 0) + 10 + p.topic + 12
SetHeader(ver) == IF ver = 2 THEN 61 ELSE 0

WriteMsgV01(w, m, off, codec, inner) ==
  [ver |-> w.ver, off |-> off, size |-> 14 + (IF w.ver = 1 THEN 8 ELSE 0) + Size(m.key) + Size(m.val),
   crc |-> TRUE, codec |-> codec, la |-> FALSE, ts |-> IF w.ver = 1 THEN m.ts ELSE 0,
   id |-> m.id, key |-> m.key, val |-> m.val, in |-> inner, hc |-> w.hc]

\* The Length field does not count itself.
WriteMsgV2(w, m, off) ==
  LET td == UvarintEncI64(m.ts - w.ts0)
      hb == WriteMsgHeaders(m.hdrs)
      len == 1 + Len(td) + VarintLen(off) + VarintLen(m.key) + Size(m.key) + VarintLen(m.val)
             + Size(m.val) + VarintLen(Len(m.hdrs)) + HeadersSize(m.hdrs)
  IN [len |-> len, size |-> len + VarintLen(len), td |-> td, od |-> UvarintEncI64(off), id |-> m.id,
      key |-> m.key, val |-> m.val, hb |-> hb]

\* rd_kafka_msgset_writer_write_msg, which asserts what it wrote is within the
\* message's wire size.
WriteMsg(w, m, off) ==
  IF w.ver = 2
  THEN LET e == WriteMsgV2(w, m, off)
       IN [w EXCEPT !.out = Append(@, e), !.len = @ + e.size, !.bug = @ \/ e.size > MsgWireSize(m, 2)]
  ELSE LET e == WriteMsgV01(w, m, off, "none", <<>>)
       IN [w EXCEPT !.out = Append(@, e), !.len = @ + 12 + e.size,
                    !.bug = @ \/ 12 + e.size > MsgWireSize(m, w.ver)]

\* rd_kafka_msgset_writer_init; pid: the producer is idempotent.
WriterInit(p, q) ==
  LET v == SelectMsgVersion(p) IN
  [ver |-> v.ver, codec |-> v.codec, bug |-> v.api < v.floor, max |-> Min({Len(q), p.num}), len |-> 0,
   head |-> ProduceHeader(p, v.api) + 4 + SetHeader(v.ver), ts0 |-> Head(q).ts, maxts |-> 0,
   last |-> IF p.pid THEN Head(q).last ELSE 0, out |-> <<>>, batch |-> <<>>, stop |-> FALSE,
   hc |-> "good", attr |-> "none"]

\* One message of rd_kafka_msgset_writer_write_msgq's loop.
WriteNext(p, w, m) ==
  IF \/ w.stop
     \/ w.last # 0 /\ w.last < m.id
     \/ Len(w.batch) = w.max
     \/ w.head + w.len + MsgWireSize(m, w.ver) > p.max
     \/ m.backoff
  THEN [w EXCEPT !.stop = TRUE]
  ELSE WriteMsg([w EXCEPT !.batch = Append(@, m), !.maxts = Max({@, m.ts})], m, Len(w.batch))

WriteMsgq(p, w, q) == FoldLeft(LAMBDA x, m : WriteNext(p, x, m), w, q)

\* A batch that is sent again must be the batch that was sent before.
Inconsistent(w) == w.batch # <<>> /\ w.last # 0 /\ Last(w.batch).id # w.last

\* rd_kafka_msgset_writer_compress_gzip, _snappy, _lz4, _zstd: the length of
\* the output, -1 on failure.  An lz4 frame of MsgVersion 0 has the checksum
\* of the old clients in its header.
ZLen(p, w) == CASE p.z = "fails" -> -1 [] p.z = "grows" -> w.len + 1 [] p.z = "halves" -> w.len \div 2

CompressGzip(p, w) == [z |-> ZLen(p, w), hc |-> "good"]
CompressSnappy(p, w) == [z |-> ZLen(p, w), hc |-> "good"]
CompressZstd(p, w) == [z |-> ZLen(p, w), hc |-> "good"]
Lz4BreakFraming(c) == [c EXCEPT !.hc = "bad"]
CompressLz4(p, w) ==
  LET c == [z |-> ZLen(p, w), hc |-> "good"] IN IF w.ver >= 1 THEN c ELSE Lz4BreakFraming(c)

CompressWith(p, w) ==
  CASE w.codec = "gzip" -> CompressGzip(p, w)
    [] w.codec = "snappy" -> CompressSnappy(p, w)
    [] w.codec = "lz4" -> CompressLz4(p, w)
    [] w.codec = "zstd" -> CompressZstd(p, w)

\* rd_kafka_msgset_writer_compress: no gain, no compression.
Compressed(w, c) ==
  LET x == [w EXCEPT !.attr = w.codec, !.hc = c.hc]
      wrap == [id |-> 0, key |-> -1, val |-> c.z, ts |-> w.ts0]
      o == WriteMsgV01(x, wrap, 0, w.codec, w.out)
  IN IF w.ver = 2 THEN [x EXCEPT !.len = c.z]
     ELSE [x EXCEPT !.out = <<o>>, !.len = 12 + o.size]

Compress(p, w) ==
  IF w.codec = "none" THEN w
  ELSE LET c == CompressWith(p, w) IN IF c.z = -1 \/ c.z > w.len THEN w ELSE Compressed(w, c)

\* rd_kafka_msgset_writer_finalize_MessageSet, with the v2 set's header.
FinalizeSet(w) ==
  IF w.ver = 2
  THEN <<[ver |-> 2, off |-> 0, size |-> 61 + w.len - 12, crc |-> TRUE, codec |-> w.attr, la |-> FALSE,
          ctrl |-> FALSE, lod |-> Len(w.batch) - 1, ts0 |-> w.ts0, maxts |-> w.maxts,
          recs |-> w.out, hc |-> w.hc]>>
  ELSE w.out

-----------------------------------------------------------------------------
(* The reader.  r: the reader's state, with the partition's fetch_offset    *)
(* and fetch_msg_max_bytes.                                                 *)

ReaderInit(rel, outer, fo, fmax) ==
  [ops |-> <<>>, err |-> "", stop |-> FALSE, pos |-> 0, cnt |-> 0, ctrl |-> 0, next |-> 0,
   rel |-> rel, outer |-> outer, fo |-> fo, fmax |-> fmax]

OpErr(r, err, off) == [r EXCEPT !.ops = Append(@, [t |-> "err", err |-> err, off |-> off])]

Fail(r, err) == [r EXCEPT !.err = err, !.stop = TRUE]

\* rd_kafka_op_new_fetch_msg and its enqueueing.
FetchMsg(r, off, e, ts, tst, hdrs) ==
  [r EXCEPT !.ops = Append(@, [t |-> "msg", off |-> off, id |-> e.id, key |-> e.key, val |-> e.val,
                               ts |-> ts, tst |-> tst, hdrs |-> hdrs]),
            !.cnt = @ + 1]

\* One record of a v2 set.
MsgAt(r, set, e, off) ==
  IF off < r.fo THEN r
  ELSE FetchMsg(r, off, e, IF set.la THEN set.maxts ELSE set.ts0 + VarintDecI64(e.td),
                IF set.la THEN "append" ELSE "create", HeadersParse(e.hb))
MsgV2(r, set, e) == MsgAt(r, set, e, set.off + VarintDecI64(e.od))

MsgsV2(r, set) == FoldLeft(LAMBDA x, e : MsgV2(x, set, e), r, set.recs)

\* The codecs: "" or the error.
DecompressGzip(e) == IF e.hc = "broken" THEN BadCompr ELSE ""
DecompressSnappy(e) == IF e.hc = "broken" THEN BadCompr ELSE ""
DecompressZstd(e) == IF e.hc = "broken" THEN BadCompr ELSE ""
Lz4FixupBadFraming(e) == IF e.hc = "bad" THEN [e EXCEPT !.hc = "good"] ELSE e
DecompressLz4(e) ==
  LET f == IF e.ver >= 1 THEN e ELSE Lz4FixupBadFraming(e) IN IF f.hc # "good" THEN BadCompr ELSE ""

DecompressWith(e) ==
  CASE e.codec = "gzip" -> DecompressGzip(e)
    [] e.codec = "snappy" -> DecompressSnappy(e)
    [] e.codec = "lz4" -> DecompressLz4(e)
    [] e.codec = "zstd" -> DecompressZstd(e)
    [] OTHER -> NotImpl

\* The bytes of messages or sets.
SetBytes(es) == FoldLeft(LAMBDA n, e : n + 12 + e.size, 0, es)

RECURSIVE ReaderRun(_, _, _)

\* rd_kafka_msgset_reader_decompress of a v0 or v1 wrapper: a reader of its
\* own for the messages inside, which puts them on this reader's queue.
ReadInside(r, in) ==
  [r EXCEPT !.ops = @ \o in.ops, !.cnt = @ + in.cnt, !.fo = in.fo, !.fmax = in.fmax,
            !.err = in.err, !.stop = in.err # ""]
DecompressV01(r, e) ==
  ReadInside(r, ReaderRun(e.in, SetBytes(e.in),
                          ReaderInit(e.ver = 1, [off |-> e.off, la |-> e.ver = 1 /\ e.la, ts |-> e.ts],
                                     r.fo, r.fmax)))

Decompressed(r, e, err) ==
  IF err # "" THEN Fail(OpErr(r, err, e.off), err)
  ELSE IF e.ver <= 1 THEN DecompressV01(r, e)
  ELSE MsgsV2(r, e)
Decompress(r, e) == Decompressed(r, e, DecompressWith(e))

\* rd_kafka_msgset_reader_msg_v0_1.  A message inside a v1 wrapper has a
\* relative offset, which says nothing about the fetch offset.
MsgV01(r, e) ==
  IF ~e.crc THEN OpErr(r, BadMsg, e.off)
  ELSE IF ~(e.ver = 1 /\ e.codec = "none" /\ r.rel) /\ e.off < r.fo THEN r
  ELSE IF e.codec # "none" THEN Decompress(r, e)
  ELSE IF r.outer.la THEN FetchMsg(r, e.off, e, r.outer.ts, "append", <<>>)
  ELSE IF e.ver >= 1 /\ e.ts # 0 THEN FetchMsg(r, e.off, e, e.ts, IF e.la THEN "append" ELSE "create", <<>>)
  ELSE FetchMsg(r, e.off, e, 0, "none", <<>>)

\* The skip after a failed checksum of a v2 set: to the position, in the
\* response, that the length of the set happens to be.  A position behind
\* the reader underflows; from one inside the set the reader goes on with
\* whatever it finds there, here the end of the data.
SkipToCrcLen(r, e) ==
  IF e.size - 9 < Lead + r.pos + 21 THEN Fail(r, Uflow) ELSE [r EXCEPT !.stop = TRUE]

\* rd_kafka_msgset_reader_v2: the next offset is the one after the set.
SetDone(r, e) == IF r.err # "" THEN r ELSE [r EXCEPT !.next = e.off + e.lod + 1]
SetV2(r, e) ==
  IF ~e.crc THEN SkipToCrcLen(OpErr(r, BadMsg, e.off), e)
  ELSE IF e.off + e.lod < r.fo THEN SetDone(r, e)
  ELSE IF e.ctrl THEN SetDone([r EXCEPT !.ctrl = @ + 1], e)
  ELSE IF e.codec # "none" THEN SetDone(Decompress(r, e), e)
  ELSE SetDone(MsgsV2(r, e), e)

\* rd_kafka_msgset_reader_peek_msg_version: an unknown version is reported
\* and skipped; rd_kafka_msgset_reader then ends the response.
Unsupported(r, e, rem) ==
  LET x == IF e.off >= r.fo THEN [OpErr(r, NotImpl, e.off) EXCEPT !.fo = e.off + 1] ELSE r
  IN IF rem < 12 + e.size THEN [x EXCEPT !.stop = TRUE] ELSE Fail(x, NotImpl)

\* One round of rd_kafka_msgset_reader's loop: rem bytes are left.
ReadNext(r, e, rem) ==
  IF r.stop THEN r
  ELSE IF rem < 17 THEN [r EXCEPT !.stop = TRUE]
  ELSE IF e.ver > 2 THEN Unsupported(r, e, rem)
  ELSE IF rem < 12 + e.size THEN Fail(r, Uflow)
  ELSE [(IF e.ver = 2 THEN SetV2(r, e) ELSE MsgV01(r, e)) EXCEPT !.pos = r.pos + 12 + e.size]

Reader(es, n, r) == FoldLeft(LAMBDA x, e : ReadNext(x, e, n - x.pos), r, es)

FixOffsetsAll(ops, base, fo) ==
  FoldLeft(LAMBDA q, o : Append(q, IF o.t = "msg" THEN [o EXCEPT !.off = @ + base] ELSE o), <<>>, ops)

\* rd_kafka_msgset_reader_postproc, with rd_kafka_q_fix_offsets.
FixOffsets(ops, base, fo) ==
  SelectSeq(FoldLeft(LAMBDA q, o : Append(q, IF o.t = "msg" THEN [o EXCEPT !.off = @ + base] ELSE o), <<>>, ops),
            LAMBDA o : o.t = "msg" => o.off >= fo)

LastOffset(ops) ==
  LET m == {i \in DOMAIN ops : ops[i].t = "msg"} IN IF m = {} THEN -1 ELSE ops[Max(m)].off

PostProc(r) ==
  IF r.rel /\ LastOffset(r.ops) # -1
  THEN [r EXCEPT !.ops = FixOffsets(@, r.outer.off - LastOffset(@), r.fo)] ELSE r

NothingReadAgain(r) ==
  IF r.ctrl > 0 \/ r.fmax < FetchCap THEN r ELSE OpErr(r, TooLarge, r.fo)

\* A response without a single message: ask for more the next time.
NothingRead(r) ==
  IF r.ctrl > 0 THEN r
  ELSE IF r.fmax < FetchCap THEN [r EXCEPT !.fmax = 2 * @]
  ELSE IF r.err = "" THEN OpErr(r, TooLarge, r.fo) ELSE r

\* rd_kafka_msgset_reader_run; the offset of the last message is read before
\* it is made absolute.
Advance(r, last) ==
  [r EXCEPT !.fo = Max({IF last # -1 THEN last + 1 ELSE @, r.next})]

Ran(x) ==
  IF x.ops = <<>> THEN Advance(NothingRead(x), -1)
  ELSE Advance([PostProc(x) EXCEPT !.err = IF @ = Uflow /\ x.cnt > 0 THEN "" ELSE @], LastOffset(x.ops))

ReaderRun(es, n, r) == Ran(Reader(es, n, r))

-----------------------------------------------------------------------------
(* The broker (external): offsets, time stamps, compaction.                *)

\* The messages of a request, as the application must see them again.
Written(req, p) ==
  FoldLeft(LAMBDA q, m :
             Append(q, [id |-> m.id, key |-> m.key, val |-> m.val,
                        hdrs |-> IF req.ver = 2 THEN m.hdrs ELSE <<>>,
                        tst |-> IF req.ver = 0 THEN "none" ELSE IF p.la THEN "append" ELSE "create",
                        ts |-> IF req.ver = 0 THEN 0 ELSE IF p.la THEN AppendTime ELSE m.ts]),
           <<>>, req.batch)

Stamped(e, p) ==
  IF ~p.la \/ e.ver = 0 THEN e
  ELSE IF e.ver = 2 THEN [e EXCEPT !.la = TRUE, !.maxts = AppendTime]
  ELSE [e EXCEPT !.la = TRUE, !.ts = AppendTime]

Renumbered(es, base) ==
  FoldLeft(LAMBDA q, e : Append(q, [e EXCEPT !.off = base + Len(q)]), <<>>, es)

\* v0 and v1: a wrapper has the offset of its last message; in a v0 wrapper
\* the offsets are absolute, in a v1 wrapper relative.
Appended(e, base) ==
  IF e.ver = 2 THEN [e EXCEPT !.off = base]
  ELSE IF e.codec = "none" THEN [e EXCEPT !.off = base]
  ELSE IF e.ver = 1 THEN [e EXCEPT !.off = base + Len(e.in) - 1]
  ELSE [e EXCEPT !.off = base + Len(e.in) - 1, !.in = Renumbered(e.in, base)]

Entries(req, p, base) ==
  FoldLeft(LAMBDA q, e : Append(q, Stamped(Appended(e, base + Len(q)), p)), <<>>, req.set)

LastOf(e) == IF e.ver = 2 THEN e.off + e.lod ELSE e.off

\* What the offsets inside a wrapper are relative to.
BaseOf(e) == IF e.ver = 1 THEN e.off - Last(e.in).off ELSE 0

\* An entry of the log without the message at offset o: a v2 set keeps its
\* header, a wrapper has the offset of the last message left in it.
Kept(e, o) ==
  IF e.ver = 2
  THEN LET gone == SelectSeq(e.recs, LAMBDA m : e.off + VarintDecI64(m.od) = o) IN
       IF gone = <<>> THEN <<e>>
       ELSE <<[e EXCEPT !.recs = SelectSeq(@, LAMBDA m : m.od # gone[1].od),
                        !.size = IF e.codec = "none" THEN @ - gone[1].size ELSE @]>>
  ELSE IF e.ver < 2 /\ e.codec # "none"
  THEN LET in == SelectSeq(e.in, LAMBDA m : BaseOf(e) + m.off # o) IN
       IF in = <<>> THEN <<>> ELSE <<[e EXCEPT !.in = in, !.off = BaseOf(e) + Last(in).off]>>
  ELSE IF e.off = o /\ e.ver < 2 THEN <<>> ELSE <<e>>

-----------------------------------------------------------------------------
(* The steps.                                                              *)

Init ==
  \E p \in Plans :
    s = [mod |-> "MsgSet", plan |-> p, q |-> p.msgs, req |-> None, sent |-> <<>>, fatal |-> FALSE, abort |-> FALSE,
         log |-> <<>>, leo |-> 0, rec |-> <<>>, gone |-> {}, marks |-> 0, fo |-> p.fo, fmax |-> p.fmax,
         app |-> <<>>]

\* rd_kafka_msgset_create_ProduceRequest: a batch that cannot be put together
\* again goes back to the queue; an empty one is no request.
Request(w, z) ==
  [ver |-> w.ver, batch |-> w.batch, set |-> FinalizeSet(z), size |-> SetHeader(w.ver) + z.len,
   raw |-> w.head + w.len]
Created(x, w) ==
  IF w.bug THEN [x EXCEPT !.abort = TRUE]
  ELSE IF Inconsistent(w) THEN [x EXCEPT !.fatal = TRUE]
  ELSE IF w.batch = <<>> THEN x
  ELSE [x EXCEPT !.q = SubSeq(@, Len(w.batch) + 1, Len(@)), !.sent = @ \o w.batch,
                 !.req = Request(w, Compress(x.plan, w))]
MayCreate == s.q # <<>> /\ s.req = None /\ ~s.fatal /\ ~s.abort
AfterCreate == Created(s, WriteMsgq(s.plan, WriterInit(s.plan, s.q), s.q))
CreateProduceRequest == MayCreate /\ s' = AfterCreate

BackoffExpires ==
  /\ s.q # <<>> /\ Head(s.q).backoff
  /\ s' = FoldLeft(LAMBDA x, i : [x EXCEPT !.q[i].backoff = FALSE], s, [i \in DOMAIN s.q |-> i])

BrokerAppend ==
  /\ s.req # None
  /\ LET es == Entries(s.req, s.plan, s.leo)
         bad == IF s.log = <<>> THEN s.plan.bad ELSE "none"
     IN s' = [s EXCEPT !.req = None, !.leo = @ + Len(s.req.batch), !.rec = @ \o Written(s.req, s.plan),
                       !.log = @ \o (IF bad = "crc" THEN <<[es[1] EXCEPT !.crc = FALSE]>> \o Tail(es)
                                     ELSE IF bad = "codec" THEN <<[es[1] EXCEPT !.hc = "broken"]>> \o Tail(es)
                                     ELSE es)]

\* A transaction marker, or a set of a version this client does not know.
BrokerMark ==
  /\ s.marks < s.plan.marks /\ s.req = None
  /\ \E v \in s.plan.markver :
       s' = [s EXCEPT !.marks = @ + 1, !.leo = @ + 1, !.rec = Append(@, None),
                      !.log = Append(@, [ver |-> v, off |-> s.leo, size |-> 70, crc |-> TRUE, codec |-> "none",
                                         la |-> FALSE, ctrl |-> TRUE, lod |-> 0, ts0 |-> 0, maxts |-> 0,
                                         recs |-> <<>>, hc |-> "good"])]

BrokerCompact ==
  /\ Cardinality(s.gone) < s.plan.compact
  /\ \E o \in 0 .. s.leo - 1 :
       /\ o \notin s.gone /\ s.rec[o + 1] # None
       /\ s' = [s EXCEPT !.gone = @ \cup {o}, !.log = FoldLeft(LAMBDA q, e : q \o Kept(e, o), <<>>, @)]

\* The sets from the fetch offset on.
Left == SelectSeq(s.log, LAMBDA e : LastOf(e) >= s.fo)

\* The bytes the broker answers with: since Fetch version 3 the first set is
\* complete, before that it is cut like the others.
Answer(es) ==
  LET n == Min({SetBytes(es), s.fmax}) IN IF s.plan.have >= 3 THEN Max({n, 12 + es[1].size}) ELSE n

Parsed(w, r) == [w EXCEPT !.app = @ \o r.ops, !.fo = r.fo, !.fmax = r.fmax]

\* rd_kafka_msgset_parse, for the message set of a Fetch response.
AfterFetch ==
  Parsed(s, ReaderRun(Left, Answer(Left), ReaderInit(FALSE, [off |-> 0, la |-> FALSE, ts |-> 0], s.fo, s.fmax)))
MayFetch == Left # <<>> /\ Len(s.app) < s.plan.maxops
Fetch == MayFetch /\ s' = AfterFetch

Next ==
  \/ CreateProduceRequest
  \/ BackoffExpires
  \/ BrokerAppend
  \/ BrokerMark
  \/ BrokerCompact
  \/ Fetch

\* The state is one of this module: a run may check instances of several.
Here == s.mod = "MsgSet"

\* The broker thread serves the partition's queue and fetches again and again.
Fairness ==
  /\ []<>~(Here /\ MayCreate /\ AfterCreate # s) \/ []<><<Here /\ CreateProduceRequest>>_vars
  /\ []<>~(Here /\ s.q # <<>> /\ Head(s.q).backoff) \/ []<><<Here /\ BackoffExpires>>_vars
  /\ []<>(Here => s.req = None) \/ []<><<Here /\ BrokerAppend>>_vars
  /\ []<>~(Here /\ MayFetch /\ AfterFetch # s) \/ []<><<Here /\ Fetch>>_vars

Spec == Init /\ [][Next]_vars /\ Fairness

-----------------------------------------------------------------------------
(* Properties.                                                             *)

Msgs == SelectSeq(s.app, LAMBDA o : o.t = "msg")

Delivered(o) == \E i \in DOMAIN Msgs : Msgs[i].off = o

\* The application gets every message as it was produced: key, value, time
\* stamp and, from a v2 set, headers.
Faithful ==
  \A i \in DOMAIN Msgs :
    LET m == Msgs[i] IN
    /\ m.off \in 0 .. s.leo - 1
    /\ s.rec[m.off + 1] = [id |-> m.id, key |-> m.key, val |-> m.val, hdrs |-> m.hdrs, tst |-> m.tst, ts |-> m.ts]

\* At most once, in the order of the log, from the offset it started at.
Ordered ==
  \A i \in DOMAIN Msgs : Msgs[i].off >= s.plan.fo /\ (i > 1 => Msgs[i - 1].off < Msgs[i].off)

FirstOf(e) == IF e.ver = 2 \/ e.codec = "none" THEN e.off ELSE e.off + 1 - Len(e.in)

\* The fetch offset passes no message that was not delivered, unless the
\* broker compacted it or an error was reported for a set it could be in.
NoneSkipped ==
  \A o \in s.plan.fo .. s.fo - 1 :
    \/ o < s.leo /\ (s.rec[o + 1] = None \/ o \in s.gone \/ Delivered(o))
    \/ \E i \in DOMAIN s.app :
         /\ s.app[i].t = "err"
         /\ s.app[i].off <= o \/ \E e \in ToSet(s.log) : LastOf(e) = s.app[i].off /\ o >= FirstOf(e)

\* The requests hold the queue's messages, in order, within message.max.bytes,
\* and no assertion of the writer fails.
SentInOrder ==
  /\ ~s.abort
  /\ FoldLeft(LAMBDA q, m : Append(q, m.id), <<>>, s.sent \o s.q) = FoldLeft(LAMBDA q, m : Append(q, m.id), <<>>, s.plan.msgs)
  /\ s.req # None => /\ s.req.raw <= s.plan.max
                     /\ s.req.size = SetBytes(s.req.set)
                     /\ s.req.ver = 2 => \A i \in DOMAIN s.req.batch :
                          HeadersWritten(s.req.set[1].recs[i].hb) = HeadersSize(s.req.batch[i].hdrs)

MsgSetsSound == Faithful /\ Ordered /\ NoneSkipped /\ SentInOrder

\* In a log the client can read, every message is sent and reaches the
\* application, however tight fetch.message.max.bytes is at first.
AllRead ==
  /\ s.q = <<>> /\ s.req = None
  /\ \A o \in s.plan.fo .. s.leo - 1 : s.rec[o + 1] = None \/ o \in s.gone \/ Delivered(o)

EverythingRead == s.plan.bad # "none" \/ s.fatal \/ AllRead
MsgSetsRead == []<>EverythingRead
=============================================================================
