----------------------------- MODULE RedisAdmin -----------------------------
(***************************************************************************)
(* phpRedisAdmin: requests of several administrators, each of which runs   *)
(* its page against Redis command by command (src/phpRedisAdmin).  A page  *)
(* is a program: the command it sends where it is, and where the reply     *)
(* takes it.  What is shown is kept as the data of the page.               *)
(*                                                                         *)
(* An uncommented definition just above another one is a faulty variant of *)
(* it, under which one of the properties fails.                            *)
(***************************************************************************)
EXTENDS Integers, Sequences, FiniteSets, SequencesExt

CONSTANTS Plans,        \* databases and requests
          None,
          Parts,        \* the names in a key, between the separators
          Rank,         \* the order of sort()
          PerPage,      \* count_elements_page
          TooLong,      \* keys longer than maxkeylen
          Globs,        \* the names KEYS reads as patterns, and the paths they match
          Numbers,       \* the numerals among the words, and their numbers
          Encoded       \* what serialization makes of a value

VARIABLE s

(* s.plan       what does not change: data, reqs, login, servers, options   *)
(* s.data       the databases: a function from keys to type, value and ttl  *)
(* s.r          requests: what was asked (q), the database it is at, pc and *)
(*              locals; the database before and after it, and whether it    *)
(*              was disturbed: another request or the clock changed it; and *)
(*              whether its browser logged out while its form was open      *)
(* s.cookie     the login cookie of every browser                           *)
(* s.died       a request was cut off                                       *)
vars == <<s>>

Waiting(q) ==
  [q |-> q, at |-> None, pc |-> "new", type |-> "none", keys |-> <<>>, members |-> <<>>, i |-> 0, n |-> 0, out |-> <<>>,
   before |-> None, after |-> None, disturbed |-> FALSE, left |-> FALSE]

Init ==
  \E p \in Plans :
    s = [mod |-> "RedisAdmin", plan |-> p, data |-> p.data, r |-> [i \in DOMAIN p.reqs |-> Waiting(p.reqs[i])],
         cookie |-> p.cookies, died |-> FALSE]

-----------------------------------------------------------------------------
(* Redis: a command [c, k, ...] on a database gives the database and the   *)
(* reply, an error if the key holds another type.                          *)

Entry(type, ttl, val) == <<type, ttl, val>>
TypeOf(db, k) == IF k \in DOMAIN db THEN db[k][1] ELSE "none"
Expiring(db, k) == k \in DOMAIN db /\ db[k][2]
Get(db, k, empty) == IF k \in DOMAIN db THEN db[k][3] ELSE empty

Drop(db, k) == [x \in DOMAIN db \ {k} |-> db[x]]

\* Containers go with their last element; the time to live stays.
Store(db, k, type, val) ==
  IF val = (IF type = "set" THEN {} ELSE <<>>) THEN Drop(db, k)
  ELSE [x \in DOMAIN db \cup {k} |->
          IF x # k THEN db[x]
          ELSE Entry(type, Expiring(db, k), val)]

With(f, k, v) == [x \in DOMAIN f \cup {k} |-> IF x = k THEN v ELSE f[x]]
Without(f, k) == [x \in DOMAIN f \ {k} |-> f[x]]

NoReply == "ok"

Done(db, rep) == [db |-> db, rep |-> rep, err |-> FALSE]
RedisError(db) == [db |-> db, rep |-> NoReply, err |-> TRUE]

OnType == [GET |-> "string", HEXISTS |-> "hash", HDEL |-> "hash", HSET |-> "hash", HGET |-> "hash", HGETALL |-> "hash",
           LLEN |-> "list", RPUSH |-> "list", LPUSH |-> "list", LSET |-> "list", LREM |-> "list", LINDEX |-> "list",
           HLEN |-> "hash", SCARD |-> "set", ZCARD |-> "zset", SREM |-> "set", SADD |-> "set", SMEMBERS |-> "set", ZREM |-> "zset", ZADD |-> "zset", ZRANGE |-> "zset",
           ZSCORE |-> "zset"]

ListCommand(db, c) ==
  LET l == Get(db, c.k, <<>>)
      at == IF c.c \in {"LSET", "LINDEX"} /\ c.i # None THEN (IF c.i < 0 THEN Len(l) + c.i ELSE c.i) + 1 ELSE 0
      first == IF c.c = "LREM" THEN {j \in DOMAIN l : l[j] = c.v /\ \A h \in 1..(j - 1) : l[h] # c.v} ELSE {}
  IN CASE c.c = "LLEN" -> Done(db, Len(l))
       [] c.c = "RPUSH" -> Done(Store(db, c.k, "list", Append(l, c.v)), NoReply)
       [] c.c = "LPUSH" -> Done(Store(db, c.k, "list", <<c.v>> \o l), NoReply)
       [] c.c = "LSET" -> IF at \in DOMAIN l THEN Done(Store(db, c.k, "list", [l EXCEPT ![at] = c.v]), NoReply)
                          ELSE RedisError(db)
       [] c.c = "LREM" -> Done(IF first = {} THEN db
                               ELSE Store(db, c.k, "list", RemoveAt(l, CHOOSE j \in first : TRUE)), NoReply)
       [] c.c = "LINDEX" -> Done(db, IF at \in DOMAIN l THEN l[at] ELSE "")

\* zRange() gives the members by their scores.
ByScore(z) == SetToSortSeq(DOMAIN z, LAMBDA a, b : z[a] < z[b])

\* KEYS names*: the names of a path, with what ends them, and anything more.
\* A name that is a pattern is read as one; nothing ends the empty path.
Read(paths, name) == {p \o q : p \in paths, q \in IF name \in DOMAIN Globs THEN Globs[name] ELSE {<<name>>}}
Below(path, names) == \E n \in 1..(Len(path) - 1) : SubSeq(path, 1, n) \in FoldLeft(Read, {<<>>}, names)
Like(db, c) ==
  {k \in DOMAIN db : c.names = <<>> \/ (c.end = s.plan.seperator /\ Below(Parts[k], c.names))}

Exec(db, c) ==
  IF c.c \in DOMAIN OnType /\ TypeOf(db, c.k) \notin {"none", OnType[c.c]} THEN RedisError(db)
  ELSE CASE c.c = "SET" -> Done(With(db, c.k, Entry("string", FALSE, c.v)), NoReply)
         [] c.c = "GET" -> Done(db, Get(db, c.k, ""))
         [] c.c = "HEXISTS" -> Done(db, c.f \in DOMAIN Get(db, c.k, <<>>))
         [] c.c = "HDEL" -> Done(Store(db, c.k, "hash", Without(Get(db, c.k, <<>>), c.f)), NoReply)
         [] c.c = "HSET" -> Done(Store(db, c.k, "hash", With(Get(db, c.k, <<>>), c.f, c.v)), NoReply)
         [] c.c = "HGET" -> LET h == Get(db, c.k, <<>>) IN Done(db, IF c.f \in DOMAIN h THEN h[c.f] ELSE "")
         [] c.c = "HGETALL" -> Done(db, Get(db, c.k, <<>>))
         [] c.c \in {"LLEN", "RPUSH", "LPUSH", "LSET", "LREM", "LINDEX"} -> ListCommand(db, c)
         [] c.c \in {"HLEN", "ZCARD"} -> Done(db, Cardinality(DOMAIN Get(db, c.k, <<>>)))
         [] c.c = "SCARD" -> Done(db, Cardinality(Get(db, c.k, {})))
         [] c.c = "SREM" -> Done(Store(db, c.k, "set", Get(db, c.k, {}) \ {c.v}), NoReply)
         [] c.c = "SADD" -> Done(Store(db, c.k, "set", Get(db, c.k, {}) \cup {c.v}), NoReply)
         [] c.c = "SMEMBERS" -> Done(db, SetToSeq(Get(db, c.k, {})))
         [] c.c = "ZREM" -> Done(Store(db, c.k, "zset", Without(Get(db, c.k, <<>>), c.v)), NoReply)
         [] c.c = "ZADD" -> IF c.score = None THEN RedisError(db)
                            ELSE Done(Store(db, c.k, "zset", With(Get(db, c.k, <<>>), c.v, c.score)), NoReply)
         [] c.c = "ZRANGE" -> Done(db, ByScore(Get(db, c.k, <<>>)))
         [] c.c = "ZSCORE" -> LET z == Get(db, c.k, <<>>) IN Done(db, IF c.v \in DOMAIN z THEN z[c.v] ELSE -1)
         [] c.c = "DEL" -> Done(Drop(db, c.k), NoReply)
         [] c.c = "RENAME" -> IF c.k \notin DOMAIN db THEN RedisError(db)
                              ELSE Done(With(Drop(db, c.k), c.to, db[c.k]), NoReply)
         [] c.c = "EXPIRE" -> Done(IF c.k \notin DOMAIN db THEN db
                                   ELSE IF c.ttl <= 0 THEN Drop(db, c.k) ELSE [db EXCEPT ![c.k][2] = TRUE], NoReply)
         [] c.c = "PERSIST" -> Done(IF c.k \notin DOMAIN db THEN db ELSE [db EXCEPT ![c.k][2] = FALSE], NoReply)
         [] c.c = "TYPE" -> Done(db, TypeOf(db, c.k))
         [] c.c = "EXISTS" -> Done(db, c.k \in DOMAIN db)
         [] c.c = "TTL" -> Done(db, IF c.k \notin DOMAIN db THEN -2 ELSE IF Expiring(db, c.k) THEN 1 ELSE -1)
         [] c.c = "KEYS" -> Done(db, SetToSeq(Like(db, c)))
         [] c.c = "SCAN" -> Done(db, SetToSeq({k \in DOMAIN db : Len(Parts[k]) % 2 = c.i}))
         [] c.c = "FLUSHDB" -> Done(<<>>, NoReply)
         [] c.c = "DBSIZE" -> Done(db, Cardinality(DOMAIN db))
         [] c.c \in {"SAVE", "INFO", "OBJECT", "CONFIG"} -> Done(db, NoReply)

-----------------------------------------------------------------------------
(* includes: values are converted when they are saved and loaded.          *)

Converts == s.plan.ser

Save(v) == IF Converts THEN (IF v \in DOMAIN Encoded THEN Encoded[v] ELSE None) ELSE v

Load(v) ==
  IF ~Converts THEN v
  ELSE IF \E x \in DOMAIN Encoded : Encoded[x] = v THEN CHOOSE x \in DOMAIN Encoded : Encoded[x] = v
  ELSE "null"

LoadAll(vs) == [x \in DOMAIN vs |-> Load(vs[x])]

Ordered(vs) == SortSeq(vs, LAMBDA a, b : Rank[a] < Rank[b])

Finish(r) == [r EXCEPT !.pc = "done"]
Goto(r, pc) == [r EXCEPT !.pc = pc]

-----------------------------------------------------------------------------
(* edit.php: the form reads what is edited, then it is posted.             *)

Form == [string |-> "get", hash |-> "hget", list |-> "lindex", set |-> "form", zset |-> "form"]

EditNew(r) ==
  IF ~r.q.edit THEN Goto(r, "form")
  ELSE IF Form[r.q.type] = "form" THEN [r EXCEPT !.out = <<Load(r.q.old)>>, !.pc = "form"]
  ELSE Goto(r, Form[r.q.type])

\* The posted form.  The old value is the one the form was shown with.
EditPost(r) ==
  IF r.q.key \in TooLong \/ Save(r.q.value) = None THEN Finish(r)
  ELSE CASE r.q.type = "string" -> Goto(r, "set")
         [] r.q.type = "hash" -> IF r.q.hkey \in TooLong THEN Finish(r) ELSE Goto(r, IF r.q.edit THEN "hexists" ELSE "hset")
         [] r.q.type = "list" -> Goto(r, "llen")
         [] r.q.type = "set" -> IF r.out = <<r.q.value>> THEN Finish(r) ELSE Goto(r, "srem")
         [] r.q.type = "zset" -> Goto(r, "zrem")
         [] OTHER -> Finish(r)

Old(r) == IF r.out = <<>> THEN Save("") ELSE Save(Head(r.out))

EditCommand(r) ==
  LET k == r.q.key
      v == Save(r.q.value)
  IN CASE r.pc = "get" -> [c |-> "GET", k |-> k]
       [] r.pc = "hget" -> [c |-> "HGET", k |-> k, f |-> r.q.oldhkey]
       [] r.pc = "lindex" -> [c |-> "LINDEX", k |-> k, i |-> r.q.index]
       [] r.pc = "set" -> [c |-> "SET", k |-> k, v |-> v]
       [] r.pc = "hexists" -> [c |-> "HEXISTS", k |-> k, f |-> r.q.hkey]
       [] r.pc = "hdel" -> [c |-> "HDEL", k |-> k, f |-> r.q.oldhkey]
       [] r.pc = "hset" -> [c |-> "HSET", k |-> k, f |-> r.q.hkey, v |-> v]
       [] r.pc = "llen" -> [c |-> "LLEN", k |-> k]
       [] r.pc = "rpush" -> [c |-> "RPUSH", k |-> k, v |-> v]
       [] r.pc = "lpush" -> [c |-> "LPUSH", k |-> k, v |-> v]
       [] r.pc = "lset" -> [c |-> "LSET", k |-> k, i |-> r.q.index, v |-> v]
       [] r.pc = "srem" -> [c |-> "SREM", k |-> k, v |-> Old(r)]
       [] r.pc = "sadd" -> [c |-> "SADD", k |-> k, v |-> v]
       [] r.pc = "zrem" -> [c |-> "ZREM", k |-> k, v |-> Old(r)]
       [] r.pc = "zadd" -> [c |-> "ZADD", k |-> k, v |-> v, score |-> r.q.score]

AtEnd == -2

EditAfter(r, rep) ==
  CASE r.pc \in {"get", "hget", "lindex"} -> [r EXCEPT !.out = <<Load(rep)>>, !.pc = "form"]
    [] r.pc = "hexists" -> Goto(r, IF rep THEN "hset" ELSE "hdel")
    [] r.pc = "hdel" -> Goto(r, "hset")
    [] r.pc = "llen" -> IF r.q.index \in {AtEnd, rep} THEN Goto(r, "rpush")
                        ELSE IF r.q.index = -1 THEN Goto(r, "lpush")
                        ELSE IF r.q.index \in 0..(rep - 1) THEN Goto(r, "lset")
                        ELSE Finish(r)
    [] r.pc = "srem" -> Goto(r, "sadd")
    [] r.pc = "zrem" -> Goto(r, "zadd")
    [] OTHER -> Finish(r)

-----------------------------------------------------------------------------
(* delete.php, rename.php, ttl.php, flush.php, save.php and info.php.      *)

Marker(r) == r.q.marker

DeleteNew(r) ==
  Goto(r, CASE r.q.type \in {"none", "string"} -> "del" [] r.q.type = "hash" -> "hdel" [] r.q.type = "list" -> "lset"
            [] r.q.type = "set" -> "srem" [] r.q.type = "zset" -> "zrem" [] r.q.type = "tree" -> "keys")

\* The index links a tree with a colon at its end.
DeleteCommand(r) ==
  LET k == r.q.key IN
  CASE r.pc = "del" -> [c |-> "DEL", k |-> k]
    [] r.pc = "hdel" -> [c |-> "HDEL", k |-> k, f |-> r.q.oldhkey]
    [] r.pc = "lset" -> [c |-> "LSET", k |-> k, i |-> r.q.index, v |-> Marker(r)]
    [] r.pc = "lrem" -> [c |-> "LREM", k |-> k, v |-> Marker(r)]
    [] r.pc = "srem" -> [c |-> "SREM", k |-> k, v |-> r.q.value]
    [] r.pc = "zrem" -> [c |-> "ZREM", k |-> k, v |-> r.q.value]
    [] r.pc = "keys" -> [c |-> "KEYS", names |-> r.q.tree, end |-> ":"]
    [] r.pc = "each" -> [c |-> "DEL", k |-> Head(r.keys)]

\* A tree is deleted key by key.
DeleteAfter(r, rep) ==
  CASE r.pc = "lset" -> Goto(r, "lrem")
    [] r.pc = "keys" -> IF rep = <<>> THEN Finish(r) ELSE [r EXCEPT !.keys = rep, !.out = rep, !.pc = "each"]
    [] r.pc = "each" -> IF Len(r.keys) = 1 THEN Finish(r) ELSE [r EXCEPT !.keys = Tail(@)]
    [] OTHER -> Finish(r)

RenameCommand(r) == [c |-> "RENAME", k |-> r.q.key, to |-> r.q.to]

RenameNew(r) == IF r.q.to \in TooLong THEN Finish(r) ELSE Goto(r, "rename")

TtlCommand(r) ==
  IF r.q.ttl = -1 THEN [c |-> "PERSIST", k |-> r.q.key] ELSE [c |-> "EXPIRE", k |-> r.q.key, ttl |-> r.q.ttl]

FlushCommand(r) == [c |-> "FLUSHDB"]

SaveCommand(r) == [c |-> "SAVE"]

InfoCommand(r) == [c |-> "INFO"]

-----------------------------------------------------------------------------
(* view.php                                                                *)

Page(r) == IF r.q.page = 0 THEN 1 ELSE r.q.page

Smaller(a, b) == IF a < b THEN a ELSE b

\* array_slice() to the elements of the page.
Slice(seq, page) == SubSeq(seq, PerPage * (page - 1) + 1, Smaller(PerPage * page, Len(seq)))

ViewCommand(r) ==
  LET k == r.q.key IN
  CASE r.pc = "type" -> [c |-> "TYPE", k |-> k]
    [] r.pc = "exists" -> [c |-> "EXISTS", k |-> k]
    [] r.pc = "ttl" -> [c |-> "TTL", k |-> k]
    [] r.pc = "encoding" -> [c |-> "OBJECT", k |-> k]
    [] r.pc = "string" -> [c |-> "GET", k |-> k]
    [] r.pc = "hash" -> [c |-> "HGETALL", k |-> k]
    [] r.pc = "list" -> [c |-> "LLEN", k |-> k]
    [] r.pc = "set" -> [c |-> "SMEMBERS", k |-> k]
    [] r.pc = "zset" -> [c |-> "ZRANGE", k |-> k]
    [] r.pc = "row" -> [c |-> "LINDEX", k |-> k, i |-> r.i]
    [] r.pc = "score" -> [c |-> "ZSCORE", k |-> k, v |-> Head(r.keys)]
    [] r.pc = "link" -> [c |-> "EXISTS", k |-> Head(r.keys)]

\* The rows of a set and a zset, which are links if there is such a key.
ViewRows(r, vs) ==
  LET rows == Slice(vs, Page(r))
      x == [r EXCEPT !.n = Len(vs), !.keys = rows]
  IN IF rows = <<>> THEN Finish(x) ELSE Goto(x, IF r.type = "set" THEN "link" ELSE "score")

ViewList(r, size) ==
  LET start == PerPage * (Page(r) - 1)
      x == [r EXCEPT !.n = size, !.i = start]
  IN IF start >= Smaller(start + PerPage, size) THEN Finish(x) ELSE Goto(x, "row")

NextRow(r) ==
  IF Len(r.keys) = 1 THEN Finish(r)
  ELSE [r EXCEPT !.keys = Tail(@), !.pc = IF r.type = "set" THEN "link" ELSE "score"]

\* The type is the one at the start; the rows of a list are read one by one.
ViewAfter(r, rep) ==
  CASE r.pc = "type" -> [r EXCEPT !.type = rep, !.pc = "exists"]
    [] r.pc = "exists" -> IF rep THEN Goto(r, "ttl") ELSE Finish(r)
    [] r.pc = "ttl" -> Goto(r, "encoding")
    [] r.pc = "encoding" -> IF r.type = "none" THEN Finish(r) ELSE Goto(r, r.type)
    [] r.pc = "string" -> Finish([r EXCEPT !.out = <<Load(rep)>>])
    [] r.pc = "hash" ->
         LET fields == SetToSortSeq(DOMAIN rep, LAMBDA a, b : Rank[a] < Rank[b])
             rows == Slice(fields, Page(r))
         IN Finish([r EXCEPT !.n = Len(fields), !.out = [i \in DOMAIN rows |-> <<rows[i], Load(rep[rows[i]])>>]])
    [] r.pc = "list" -> ViewList(r, rep)
    [] r.pc = "set" -> ViewRows(r, Ordered(LoadAll(rep)))
    [] r.pc = "zset" -> ViewRows(r, LoadAll(rep))
    [] r.pc = "row" ->
         LET x == [r EXCEPT !.out = Append(@, Load(rep)), !.i = @ + 1] IN
         IF x.i >= Smaller(PerPage * Page(r), r.n) THEN Finish(x) ELSE x
    [] r.pc = "score" -> [r EXCEPT !.out = Append(@, <<rep, Head(r.keys)>>), !.pc = "link"]
    [] r.pc = "link" -> NextRow(IF r.type = "set" THEN [r EXCEPT !.out = Append(@, Head(r.keys))] ELSE r)

\* The pagination: the pages with a link or their number, and what the loop
\* that writes them leaves in $counter, which the arrow to the next one needs.
Pagination(size, page) ==
  LET last == (size + PerPage - 1) \div PerPage
      adjacents == 3
      Links(from, to, others) == [pages |-> (from..to) \cup others, counter |-> to + 1]
      links == CASE last < 7 + adjacents * 2 -> Links(1, last, {})
                 [] last >= 7 + adjacents * 2 /\ page < 1 + adjacents * 2 ->
                      Links(1, 3 + adjacents * 2, {last - 1, last})
                 [] last >= 7 + adjacents * 2 /\ page >= 1 + adjacents * 2 /\ last - adjacents * 2 > page ->
                      Links(page - adjacents, page + adjacents, {1, 2, last - 1, last})
                 [] OTHER -> Links(last - (2 + adjacents * 2), last, {1, 2})
  IN [pages |-> links.pages, prev |-> page > 1, next |-> page < links.counter - 1]

-----------------------------------------------------------------------------
(* index.php: the tree of the keys.  An array of arrays is the set of its  *)
(* paths, TRUE where there is a key.                                       *)

\* A key is a new array at its path, whatever was there.
Namespace(tree, key) ==
  LET path == Parts[key]
      above == {SubSeq(path, 1, n) : n \in 1..(Len(path) - 1)}
  IN [x \in (DOMAIN tree \ {y \in DOMAIN tree : IsPrefix(path, y)}) \cup above \cup {path} |->
        IF x = path THEN TRUE ELSE x \in DOMAIN tree /\ tree[x]]

ListedAsFound(found) ==
  LET keys == SetToSortSeq({k \in ToSet(found) : k \notin TooLong}, LAMBDA a, b : Rank[a] > Rank[b])
      tree == FoldLeft(Namespace, <<>>, keys)
  IN SelectSeq(keys, LAMBDA k : Parts[k] \in DOMAIN tree /\ tree[Parts[k]])

\* The keys the tree shows.  SCAN may find a key twice.
Listed(found) ==
  LET keys == SetToSortSeq({k \in ToSet(found) : k \notin TooLong}, LAMBDA a, b : Rank[a] < Rank[b])
      tree == FoldLeft(Namespace, <<>>, keys)
  IN SelectSeq(keys, LAMBDA k : Parts[k] \in DOMAIN tree /\ tree[Parts[k]])

CardOf == [hash |-> "HLEN", list |-> "LLEN", set |-> "SCARD", zset |-> "ZCARD"]

IndexCommand(r) ==
  CASE r.pc = "keys" -> [c |-> "KEYS", names |-> <<>>]
    [] r.pc = "scan" -> [c |-> "SCAN", i |-> r.i]
    [] r.pc = "type" -> [c |-> "TYPE", k |-> Head(r.keys)]
    [] r.pc = "len" -> [c |-> CardOf[r.type], k |-> Head(r.keys)]
    [] r.pc = "config" -> [c |-> "CONFIG"]

IndexKeys(r, found) ==
  LET x == [r EXCEPT !.keys = Listed(found), !.out = Listed(found)] IN
  Goto(x, IF x.keys = <<>> \/ s.plan.faster THEN "config" ELSE "type")

IndexNext(r) ==
  IF Len(r.keys) = 1 THEN Goto(r, "config") ELSE [r EXCEPT !.keys = Tail(@), !.pc = "type"]

IndexAfter(r, rep) ==
  CASE r.pc = "keys" -> IndexKeys(r, rep)
    [] r.pc = "scan" -> IF r.i = 1 THEN IndexKeys(r, r.keys \o rep) ELSE [r EXCEPT !.i = 1, !.keys = rep]
    [] r.pc = "type" -> IF rep \in DOMAIN CardOf THEN [r EXCEPT !.type = rep, !.pc = "len"] ELSE IndexNext(r)
    [] r.pc = "len" -> IndexNext(r)
    [] r.pc = "config" -> Finish(r)

-----------------------------------------------------------------------------
(* export.php                                                              *)

Lower(name) == IF name = "A" THEN "a" ELSE name

\* A filter is looked for in any case, and replaced in its own.
Filtered(q, found) ==
  SelectSeq(found, LAMBDA k : q.filter = None \/ \E i \in DOMAIN Parts[k] : Lower(Parts[k][i]) = Lower(q.filter))

OutputKey(q, key) ==
  IF q.filter = None \/ q.transform = None THEN key
  ELSE LET path == [i \in DOMAIN Parts[key] |-> IF Parts[key][i] = q.filter THEN q.transform ELSE Parts[key][i]]
       IN CHOOSE k \in DOMAIN Parts : Parts[k] = path

Numeral(n) == IF \E w \in DOMAIN Numbers : Numbers[w] = n THEN CHOOSE w \in DOMAIN Numbers : Numbers[w] = n ELSE ""

ExportCommand(r) ==
  LET k == IF r.pc = "keys" THEN None ELSE Head(r.keys) IN
  CASE r.pc = "keys" -> [c |-> "KEYS", names |-> <<>>]
    [] r.pc = "type" -> [c |-> "TYPE", k |-> k]
    [] r.pc = "string" -> [c |-> "GET", k |-> k]
    [] r.pc = "hash" -> [c |-> "HGETALL", k |-> k]
    [] r.pc = "list" -> [c |-> "LLEN", k |-> k]
    [] r.pc = "row" -> [c |-> "LINDEX", k |-> k, i |-> r.i]
    [] r.pc = "set" -> [c |-> "SMEMBERS", k |-> k]
    [] r.pc = "zset" -> [c |-> "ZRANGE", k |-> k]
    [] r.pc = "score" -> [c |-> "ZSCORE", k |-> k, v |-> r.members[r.i]]

\* The next key, after some words are written.
Exported(r, words) ==
  LET x == [r EXCEPT !.out = @ \o words, !.keys = Tail(@)] IN
  IF x.keys = <<>> THEN Finish(x) ELSE Goto(x, "type")

Lines(vs, Line(_)) == FlattenSeq([i \in DOMAIN vs |-> Line(vs[i])])

\* The words of the commands that make the keys anew: no time to live, and
\* the members of a zset are kept while their scores are read.  JSON is
\* only read for; what it writes is left out.
ExportAfter(r, rep) ==
  LET k == IF r.pc = "keys" THEN None ELSE OutputKey(r.q, Head(r.keys))
      json == r.q.type = "json"
      Words(w) == IF json THEN <<>> ELSE w
  IN CASE r.pc = "keys" ->
            LET x == [r EXCEPT !.keys = Filtered(r.q, rep)] IN IF x.keys = <<>> THEN Finish(x) ELSE Goto(x, "type")
       [] r.pc = "type" -> IF rep = "none" THEN Exported(r, <<>>) ELSE Goto(r, rep)
       [] r.pc = "string" -> Exported(r, Words(<<"SET", k, rep>>))
       [] r.pc = "hash" -> Exported(r, Words(Lines(SetToSeq(DOMAIN rep), LAMBDA f : <<"HSET", k, f, rep[f]>>)))
       [] r.pc = "list" -> IF rep = 0 THEN Exported(r, <<>>) ELSE [r EXCEPT !.n = rep, !.i = 0, !.pc = "row"]
       [] r.pc = "row" ->
            IF r.i + 1 = r.n THEN Exported(r, Words(<<"RPUSH", k, rep>>))
            ELSE [r EXCEPT !.i = @ + 1, !.out = @ \o Words(<<"RPUSH", k, rep>>)]
       [] r.pc = "set" -> Exported(r, Words(Lines(rep, LAMBDA v : <<"SADD", k, v>>)))
       [] r.pc = "zset" -> IF rep = <<>> \/ json THEN Exported(r, <<>>) ELSE [r EXCEPT !.members = rep, !.i = 1, !.pc = "score"]
       [] r.pc = "score" ->
            LET w == <<"ZADD", k, Numeral(rep), r.members[r.i]>> IN
            IF r.i = Len(r.members) THEN Exported([r EXCEPT !.members = <<>>], w) ELSE [r EXCEPT !.i = @ + 1, !.out = @ \o w]

-----------------------------------------------------------------------------
(* import.php: words, of which those that are no command are passed over.  *)

Arity == [SET |-> 2, HSET |-> 3, LPUSH |-> 2, RPUSH |-> 2, LSET |-> 3, SADD |-> 2, ZADD |-> 3]

\* A line break is made a space.
Unbroken(word) == IF word = "nl" THEN "sp" ELSE word

Word(r, j) == IF j \in DOMAIN r.keys THEN r.keys[j] ELSE ""

SkipTo(r, j) ==
  LET at == {h \in j..Len(r.keys) : r.keys[h] \in DOMAIN Arity} IN
  IF at = {} THEN Finish(r) ELSE [r EXCEPT !.i = CHOOSE h \in at : \A g \in at : h <= g, !.pc = "command"]

\* What is imported is typed, or was exported by another request.
ImportNew(r) ==
  LET words == IF r.q.from = None THEN r.q.words ELSE s.r[r.q.from].out IN
  SkipTo([r EXCEPT !.keys = [j \in DOMAIN words |-> Unbroken(words[j])]], 1)

NumberOf(word) == IF word \in DOMAIN Numbers THEN Numbers[word] ELSE None

ImportCommand(r) ==
  LET c == r.keys[r.i]
      a == Word(r, r.i + 1)
      b == Word(r, r.i + 2)
      d == Word(r, r.i + 3)
  IN CASE c \in {"SET", "LPUSH", "RPUSH", "SADD"} -> [c |-> c, k |-> a, v |-> b]
       [] c = "HSET" -> [c |-> c, k |-> a, f |-> b, v |-> d]
       [] c = "LSET" -> [c |-> c, k |-> a, i |-> NumberOf(b), v |-> d]
       [] c = "ZADD" -> [c |-> c, k |-> a, score |-> NumberOf(b), v |-> d]

ImportAfter(r, rep) == SkipTo(r, r.i + Arity[r.keys[r.i]] + 1)

-----------------------------------------------------------------------------
(* login.inc.php and common.inc.php: who asks, and for which database.     *)

\* The cookie of a user: it holds what no one else can compute.
CookieHash(user, browser) == <<user, browser, s.plan.login[user].password>>

Users == DOMAIN s.plan.login

\* authCookie(): the user, or None.
CookieUser(q) ==
  LET cookie == s.cookie[q.browser] IN
  IF cookie # None /\ cookie.user \in Users /\ cookie.hash = CookieHash(cookie.user, q.browser) THEN cookie.user ELSE None

Posted(q) == q.user # None /\ q.user \in Users /\ q.password = s.plan.login[q.user].password

\* authHttpDigest(): the response was made with the password.
DigestUser(q) == IF Posted(q) THEN q.user ELSE None

User(q) == IF s.plan.cookies # <<>> THEN CookieUser(q) ELSE DigestUser(q)

Restricted(user) == user # None /\ s.plan.login[user].servers # None


\* The first server of the user or the one asked for, if the user may have it.
Server(q, user) ==
  LET i == IF q.s \in s.plan.servers THEN q.s
           ELSE IF Restricted(user) THEN Head(s.plan.login[user].servers) ELSE 0
  IN IF Restricted(user) /\ i \notin ToSet(s.plan.login[user].servers) THEN None ELSE i

Allowed(r, server) ==
  LET user == IF s.plan.login = None THEN None ELSE User(r.q) IN
  Restricted(user) => server \in ToSet(s.plan.login[user].servers)

-----------------------------------------------------------------------------
(* overview.php: all servers the user may see, those that are down too.    *)

OverviewNew(r) ==
  LET seen == SetToSeq({v \in s.plan.servers : Allowed(r, v)}) IN
  IF seen = <<>> THEN Finish(r) ELSE [r EXCEPT !.keys = seen, !.pc = "info"]

OverviewCommand(r) == IF r.pc = "info" THEN [c |-> "INFO"] ELSE [c |-> "DBSIZE"]

OverviewAfter(r, rep) ==
  IF r.pc = "info" THEN Goto(r, "size")
  ELSE LET x == [r EXCEPT !.out = Append(@, <<Head(r.keys), rep>>), !.keys = Tail(@)] IN
       IF x.keys = <<>> THEN Finish(x) ELSE Goto(x, "info")

-----------------------------------------------------------------------------
(* Requests.                                                               *)

PageNew(r) ==
  CASE r.q.do = "edit" -> EditNew(r)
    [] r.q.do = "delete" -> DeleteNew(r)
    [] r.q.do = "rename" -> RenameNew(r)
    [] r.q.do \in {"ttl", "flush", "save", "info"} -> Goto(r, "run")
    [] r.q.do = "view" -> Goto(r, "type")
    [] r.q.do = "index" -> Goto(r, IF s.plan.usekeys THEN "keys" ELSE "scan")
    [] r.q.do = "export" -> IF r.q.key = None THEN Goto(r, "keys") ELSE [r EXCEPT !.keys = <<r.q.key>>, !.pc = "type"]
    [] r.q.do = "import" -> ImportNew(r)
    [] r.q.do = "overview" -> OverviewNew(r)
    [] OTHER -> Finish(r)

PageCommand(r) ==
  CASE r.q.do = "edit" -> EditCommand(r)
    [] r.q.do = "delete" -> DeleteCommand(r)
    [] r.q.do = "rename" -> RenameCommand(r)
    [] r.q.do = "ttl" -> TtlCommand(r)
    [] r.q.do = "flush" -> FlushCommand(r)
    [] r.q.do = "save" -> SaveCommand(r)
    [] r.q.do = "info" -> InfoCommand(r)
    [] r.q.do = "view" -> ViewCommand(r)
    [] r.q.do = "index" -> IndexCommand(r)
    [] r.q.do = "export" -> ExportCommand(r)
    [] r.q.do = "import" -> ImportCommand(r)
    [] r.q.do = "overview" -> OverviewCommand(r)

PageAfter(r, rep) ==
  CASE r.q.do = "edit" -> EditAfter(r, rep)
    [] r.q.do = "delete" -> DeleteAfter(r, rep)
    [] r.q.do = "view" -> ViewAfter(r, rep)
    [] r.q.do = "index" -> IndexAfter(r, rep)
    [] r.q.do = "export" -> ExportAfter(r, rep)
    [] r.q.do = "import" -> ImportAfter(r, rep)
    [] r.q.do = "overview" -> OverviewAfter(r, rep)
    [] OTHER -> Finish(r)

Over(r) == r.pc \in {"done", "failed", "refused"}

\* A request that was exported from has to be over.
MayBegin(r) == r.pc = "new" /\ (r.q.do = "import" /\ r.q.from # None => s.r[r.q.from].pc = "done")

\* Who is not logged in is sent to the login page or asked to log in.
LoggedIn(q) == s.plan.login = None \/ User(q) # None \/ (q.do = "login" /\ s.plan.cookies # <<>>)

\* The choice of a server, its connection and database: None if it is refused.
Connected(q) ==
  LET user == IF s.plan.login = None THEN None ELSE User(q)
      at == <<Server(q, user), q.d>>
  IN IF ~LoggedIn(q) \/ at[1] \in s.plan.down \cup {None} \/ at \notin DOMAIN s.data THEN None ELSE at

\* The password is posted where the cookie is not the one of a user.
LogsIn(q) == s.plan.login # None /\ s.plan.cookies # <<>> /\ CookieUser(q) = None /\ Posted(q)

\* The forms that are open in a browser when it logs out, or in again.
Forms(x, browser, left) ==
  [x EXCEPT !.r = [j \in DOMAIN x.r |-> IF x.r[j].q.browser = browser /\ x.r[j].pc = "form"
                                       THEN [x.r[j] EXCEPT !.left = left] ELSE x.r[j]]]

\* The login and the connection, then the page up to its first command.
\* logout.php takes the cookie away.
Begin(i) ==
  LET r == s.r[i]
      at == Connected(r.q)
      refused == [s EXCEPT !.r[i].pc = "refused"]
  IN /\ MayBegin(r)
     /\ s' = IF LogsIn(r.q)
             THEN Forms([refused EXCEPT !.cookie[r.q.browser] = [user |-> r.q.user, hash |-> CookieHash(r.q.user, r.q.browser)]],
                        r.q.browser, FALSE)
             ELSE IF at = None THEN refused
             ELSE LET x == [s EXCEPT !.r[i] = PageNew([r EXCEPT !.at = at, !.before = s.data[at]])] IN
                  IF r.q.do = "logout" /\ s.cookie # <<>>
                  THEN Forms([x EXCEPT !.cookie[r.q.browser] = None], r.q.browser, TRUE) ELSE x

\* The form of edit.php is posted to its own address: a request of its own,
\* with the login of now.
Submit(i) ==
  LET r == s.r[i]
      at == Connected(r.q)
  IN /\ r.pc = "form"
     /\ s' = [s EXCEPT !.r[i] = IF at = None THEN Goto(r, "refused") ELSE EditPost([r EXCEPT !.at = at])]

At(r) == IF r.q.do = "overview" THEN <<Head(r.keys), 0>> ELSE r.at

\* What others see of a change of a database.
Disturb(x, i, at, db) ==
  [x EXCEPT !.data[at] = db,
            !.r = [j \in DOMAIN x.r |->
                     IF j # i /\ x.r[j].at = at /\ ~Over(x.r[j]) /\ db # x.data[at]
                     THEN [x.r[j] EXCEPT !.disturbed = TRUE] ELSE x.r[j]]]

\* A command and what the page does until the next one.  A server that is
\* down counts as such in the overview; an error reply ends the page.
Run(i) ==
  LET r == s.r[i] IN
  /\ ~Over(r) /\ r.pc \notin {"new", "form"}
  /\ IF r.q.do = "overview" /\ Head(r.keys) \in s.plan.down
     THEN s' = [s EXCEPT !.r[i] = OverviewAfter(Goto(r, "size"), "down")]
     ELSE LET at == At(r)
              e == Exec(s.data[at], PageCommand(r))
              y == IF e.err THEN Goto(r, "failed") ELSE PageAfter(r, e.rep)
          IN s' = Disturb([s EXCEPT !.r[i] = IF Over(y) THEN [y EXCEPT !.after = e.db] ELSE y], i, at, e.db)

\* A key expires.
Expire ==
  \E at \in DOMAIN s.data : \E k \in DOMAIN s.data[at] :
    /\ Expiring(s.data[at], k) /\ s.plan.expires
    /\ s' = Disturb(s, None, at, Drop(s.data[at], k))

\* A request is cut off.
CutOff(i) ==
  /\ s.plan.cut /\ ~Over(s.r[i])
  /\ s' = [s EXCEPT !.r[i].pc = "failed", !.r[i].disturbed = TRUE, !.died = TRUE]

Next == Expire \/ \E i \in DOMAIN s.r : Begin(i) \/ Submit(i) \/ Run(i) \/ CutOff(i)

Here == s.mod = "RedisAdmin"

Busy(i) == Here /\ i \in DOMAIN s.r /\ (MayBegin(s.r[i]) \/ (~Over(s.r[i]) /\ s.r[i].pc # "new"))

\* The requests of the administrators are served, and forms posted.
Fairness ==
  \A i \in 1..3 : []<>~Busy(i) \/ []<><<Busy(i) /\ (Begin(i) \/ Submit(i) \/ Run(i))>>_s

Spec == Init /\ [][Next]_s /\ Fairness

(***************************************************************************)
(* Properties                                                               *)
(***************************************************************************)

EditContract(r) ==
  LET b == r.before
      a == r.after
      k == r.q.key
      v == Save(r.q.value)
      l == Get(b, k, <<>>)
  IN CASE r.q.type = "string" -> a[k][3] = v
       [] r.q.type = "hash" ->
            LET h == Get(b, k, <<>>)
                kept == IF r.q.edit /\ r.q.hkey \notin DOMAIN h THEN Without(h, r.q.oldhkey) ELSE h
            IN a[k][3] = With(kept, r.q.hkey, v)
       [] r.q.type = "list" ->
            Get(a, k, <<>>) = CASE r.q.index \in {AtEnd, Len(l)} -> Append(l, v)
                                [] r.q.index = -1 -> <<v>> \o l
                                [] r.q.index \in 0..(Len(l) - 1) -> [l EXCEPT ![r.q.index + 1] = v]
                                [] OTHER -> l
       [] r.q.type = "set" -> a[k][3] = (Get(b, k, {}) \ {Old(r)}) \cup {v}
       [] r.q.type = "zset" -> a[k][3] = With(Without(Get(b, k, <<>>), Old(r)), v, r.q.score)
       [] OTHER -> a = b

\* All keys under the tree and no other, if the names in it are no patterns
\* and the separator is the one of the link: none with another separator, and
\* with a pattern no key that is under nothing.
TreeGone(b, a, tree) ==
  /\ \A x \in DOMAIN a : x \in DOMAIN b /\ a[x] = b[x]
  /\ IF s.plan.seperator # ":" THEN a = b
     ELSE IF ToSet(tree) \cap DOMAIN Globs = {}
     THEN DOMAIN b \ DOMAIN a = {x \in DOMAIN b : IsPrefix(tree, Parts[x]) /\ Parts[x] # tree}
     ELSE \A x \in DOMAIN b : Len(Parts[x]) <= Len(tree) => x \in DOMAIN a

DeleteContract(r) ==
  LET b == r.before
      a == r.after
      k == r.q.key
  IN CASE r.q.type = "list" -> Get(a, k, <<>>) = RemoveAt(Get(b, k, <<>>), r.q.index + 1)
       [] r.q.type = "tree" -> TreeGone(b, a, r.q.tree)
       [] r.q.type = "set" -> Get(a, k, {}) = Get(b, k, {}) \ {r.q.value}
       [] r.q.type = "zset" -> Get(a, k, <<>>) = Without(Get(b, k, <<>>), r.q.value)
       [] r.q.type = "hash" -> Get(a, k, <<>>) = Without(Get(b, k, <<>>), r.q.oldhkey)
       [] OTHER -> a = Drop(b, k)

ViewContract(r) ==
  LET b == r.before
      k == r.q.key
      lo == PerPage * (Page(r) - 1)
  IN CASE TypeOf(b, k) = "list" -> r.out = [i \in 1..Smaller(PerPage, Len(b[k][3]) - lo) |-> Load(b[k][3][lo + i])]
       [] TypeOf(b, k) = "set" ->
            r.out = Slice(SetToSortSeq(b[k][3], LAMBDA x, y : Rank[x] < Rank[y]), Page(r))
       [] OTHER -> TRUE

(* A request that nobody disturbs does what its page says, in however many  *)
(* commands: an entry of a list goes alone, the index shows every key once, *)
(* and a tree goes with all its keys and no other.  The last is so only if  *)
(* the separator is ':', which index.php:112 writes whatever it is (with    *)
(* another one nothing goes), and if no name of the tree is a pattern to    *)
(* KEYS, which delete.php:54 passes it to as it is (then keys of others go).*)
PagesKeepWord ==
  \A i \in DOMAIN s.r :
    LET r == s.r[i] IN
    (r.pc = "done" /\ r.after # None /\ ~r.disturbed /\ ~s.plan.ser) =>
      CASE r.q.do = "edit" -> EditContract(r)
        [] r.q.do = "delete" -> DeleteContract(r)
        [] r.q.do = "rename" -> r.after = With(Drop(r.before, r.q.key), r.q.to, r.before[r.q.key])
        [] r.q.do = "view" -> r.after = r.before /\ ViewContract(r)
        [] r.q.do = "index" -> r.after = r.before /\ ToSet(r.out) = DOMAIN r.before \ TooLong
        [] OTHER -> TRUE

AllOver == \A i \in DOMAIN s.r : Over(s.r[i])

Lists == {p \in (DOMAIN s.data) \X (DOMAIN Parts) : TypeOf(s.data[p[1]], p[2]) = "list"}

Does(page) == {i \in DOMAIN s.r : s.r[i].q.do = page}

(* The value that stands for an entry which is deleted does not stay in a   *)
(* list, unless the request was cut off or the list renamed meanwhile.      *)
NoMarkerLeft ==
  (AllOver /\ ~s.died /\ Does("rename") = {}) =>
    \A p \in Lists : \A i \in Does("delete") :
      s.r[i].q.type = "list" => ~Contains(Get(s.data[p[1]], p[2], <<>>), Marker(s.r[i]))

(* However requests that delete from and add to a list interleave, no more  *)
(* entries go than requests asked for.                                      *)
DeletesOneEach ==
  (AllOver /\ s.plan.lists) =>
    \A at \in DOMAIN s.data : \A k \in DOMAIN s.plan.data[at] :
      Len(Get(s.data[at], k, <<>>)) + Cardinality({i \in Does("delete") : s.r[i].at = at /\ s.r[i].q.key = k})
        >= Len(Get(s.plan.data[at], k, <<>>))

(* What an edit put into a set, a sorted set or a hash is there, unless     *)
(* another request takes it away.                                           *)
EditsLand ==
  (AllOver /\ s.plan.adds) =>
    \A i \in Does("edit") :
      LET q == s.r[i].q IN
      s.r[i].pc = "done" =>
        CASE q.type = "set" -> Save(q.value) \in Get(s.data[s.r[i].at], q.key, {})
          [] q.type = "zset" -> Save(q.value) \in DOMAIN Get(s.data[s.r[i].at], q.key, <<>>)
          [] q.type = "hash" -> q.hkey \in DOMAIN Get(s.data[s.r[i].at], q.key, <<>>)
          [] OTHER -> TRUE

(* A page that only reads fails only if the database changed under it.      *)
ReadersFail ==
  \A i \in Does("view") \cup Does("index") \cup Does("export") \cup Does("overview") :
    s.r[i].pc = "failed" => s.r[i].disturbed

\* A value whose line breaks are spaces.
Flat(type, val) ==
  CASE type = "string" -> Unbroken(val)
    [] type = "list" -> [j \in DOMAIN val |-> Unbroken(val[j])]
    [] type = "set" -> {Unbroken(v) : v \in val}
    [] type = "zset" -> [v \in {Unbroken(w) : w \in DOMAIN val} |-> val[CHOOSE w \in DOMAIN val : Unbroken(w) = v]]
    [] type = "hash" -> [f \in {Unbroken(g) : g \in DOMAIN val} |-> Unbroken(val[CHOOSE g \in DOMAIN val : Unbroken(g) = f])]

(* What was exported whole and is imported into an empty database has the   *)
(* keys, types and values there were, but for line breaks, which are spaces *)
(* (import.php:9), and times to live, which are not exported.               *)
RoundTrip ==
  \A i \in Does("import") :
    LET r == s.r[i] IN
    (r.pc = "done" /\ r.q.from # None /\ r.before = <<>> /\ r.after # None /\ ~r.disturbed) =>
      LET e == s.r[r.q.from] IN
      (~e.disturbed /\ e.q.type = "redis" /\ e.q.filter = None /\ e.q.key = None) =>
        r.after = [k \in DOMAIN e.before |->
                     LET type == TypeOf(e.before, k) IN Entry(type, FALSE, Flat(type, e.before[k][3]))]

\* Browser b has shown the password of u, now or when its cookie was made.
Proved(b, u) ==
  \/ \E j \in DOMAIN s.r : s.r[j].q.browser = b /\ s.r[j].pc # "new" /\ s.r[j].q.user = u /\ Posted(s.r[j].q)
  \/ s.plan.cookies # <<>> /\ s.plan.cookies[b] = [user |-> u, hash |-> CookieHash(u, b)]

(* Where there are logins, a request is at a server only if its browser has *)
(* shown the password of a user who may have that server, and a form is     *)
(* posted in vain once it has logged out: a cookie made up, or made in      *)
(* another browser, opens nothing.  The login page alone is at a server     *)
(* without (it only connects).                                              *)
AccessHeld ==
  s.plan.login # None =>
    \A i \in DOMAIN s.r :
      LET r == s.r[i] IN
      /\ (r.at # None /\ r.q.do # "login") =>
           \E u \in Users : Proved(r.q.browser, u) /\ (Restricted(u) => r.at[1] \in ToSet(s.plan.login[u].servers))
      /\ r.left => r.pc \in {"form", "refused", "failed"}

(* The pages of a view: there is an arrow to the next one on all but the    *)
(* last, and every link is to a page there is.                              *)
PagesLinked ==
  \A i \in Does("view") :
    LET r == s.r[i]
        last == (r.n + PerPage - 1) \div PerPage
        p == Pagination(r.n, Page(r))
    IN (r.pc = "done" /\ r.n > PerPage /\ Page(r) \in 1..last) =>
         /\ p.next <=> Page(r) < last
         /\ p.pages \subseteq 1..last /\ {1, Page(r), last} \subseteq p.pages


(* Every request comes to an end.                                           *)
RequestsEnd == \A i \in 1..3 : []<>~Busy(i)
=============================================================================
