----------------------------- MODULE Assignment -----------------------------
(***************************************************************************)
(* What the leader of a consumer group computes (rdkafka_assignor.c and    *)
(* the range and roundrobin assignors): which topics the members are       *)
(* eligible for, and who gets which partitions.  With the list of          *)
(* assignors a client has, the patterns of its blacklist, and the lists of *)
(* partitions it all works on (rdkafka_partition.c).                       *)
(*                                                                         *)
(* An uncommented definition just above another one is a faulty variant of *)
(* it, under which one of the properties fails.                            *)
(***************************************************************************)
EXTENDS Integers, Sequences, FiniteSets, SequencesExt

CONSTANTS Plans,        \* groups, topics, configurations
          None,
          Matches,      \* the topics a valid regex matches, by regex
          Regexes,      \* subscriptions that start with '^'
          Compiled      \* the topics a valid pattern of a blacklist matches

VARIABLE s

(* s.plan      members (id and subscription, in the order of the join       *)
(*             response), topics of the metadata, conf                      *)
(* s.step      "start", "init", "mapped", "assigned", or how it ended       *)
(* s.assignors the assignors of the client, in order                        *)
(* s.black     the patterns of the blacklist                                *)
(* s.eligible  topics with the members subscribed to them                   *)
(* s.mine      the assignment of every member, a list of partitions         *)
(* s.list      a list the application edits, with its size; s.held the      *)
(*             partitions it holds and how often, s.left edits to go,       *)
(*             s.last the last one                                          *)
vars == <<s>>

-----------------------------------------------------------------------------
(* Lists of partitions.                                                    *)

Invalid == -1001

Partition(topic, partition) == [topic |-> topic, partition |-> partition, offset |-> Invalid, err |-> 0]

\* A list is elements and the room for them.
NewList(size) == [elems |-> <<>>, size |-> size]

Init ==
  \E p \in Plans :
    s = [mod |-> "Assignment", plan |-> p, step |-> "start", assignors |-> <<>>, black |-> <<>>, eligible |-> <<>>,
         mine |-> [i \in DOMAIN p.members |-> NewList(0)], list |-> NewList(p.room),
         held |-> [k \in p.keys |-> 0], left |-> p.edits, last |-> None]

list_grow(list, add_size) ==
  [list EXCEPT !.size = @ + (IF add_size < @ THEN (IF @ > 32 THEN @ ELSE 32) ELSE add_size)]

list_add(list, topic, partition) ==
  LET room == IF Len(list.elems) = list.size THEN list_grow(list, 1) ELSE list IN
  [room EXCEPT !.elems = Append(@, Partition(topic, partition))]

list_add_range(list, topic, start, stop) ==
  FoldLeft(LAMBDA l, n : list_add(l, topic, start + n - 1), list, [n \in 1..(stop - start + 1) |-> n])

\* The first element for the partition, 0 on a miss.
list_find0(elems, topic, partition) ==
  SelectInSeq(elems, LAMBDA e : e.topic = topic /\ e.partition = partition)

list_upsert(list, topic, partition) ==
  IF list_find0(list.elems, topic, partition) # 0 THEN list ELSE list_add(list, topic, partition)

list_del_by_idx(list, idx) ==
  IF idx \in DOMAIN list.elems THEN [list EXCEPT !.elems = RemoveAt(@, idx)] ELSE list

list_del(list, topic, partition) == list_del_by_idx(list, list_find0(list.elems, topic, partition))

list_set_offset(list, topic, partition, offset) ==
  LET i == list_find0(list.elems, topic, partition) IN
  IF i = 0 THEN list ELSE [list EXCEPT !.elems[i].offset = offset]

list_copy(list) ==
  FoldLeft(LAMBDA l, e : [list_add(l, e.topic, e.partition) EXCEPT !.elems[Len(l.elems) + 1] = e], NewList(list.size), list.elems)

IsLogical(offset) == offset < 0

\* set_offsets() of a default, where no offset is given.
list_set_offsets(list, def_value) ==
  [list EXCEPT !.elems = [i \in DOMAIN @ |-> [@[i] EXCEPT !.offset = IF IsLogical(@) THEN def_value ELSE @]]]

list_count_abs_offsets(list) == Len(SelectSeq(list.elems, LAMBDA e : ~IsLogical(e.offset)))

\* update(): what src knows of the partitions of dst.
list_update(dst, src) ==
  [dst EXCEPT !.elems =
     [i \in DOMAIN @ |->
        LET j == list_find0(src.elems, @[i].topic, @[i].partition) IN
        IF j = 0 THEN @[i] ELSE [@[i] EXCEPT !.offset = src.elems[j].offset, !.err = src.elems[j].err]]]

partition_cmp(a, b) == a.topic < b.topic \/ (a.topic = b.topic /\ a.partition < b.partition)

list_sort(list) == [list EXCEPT !.elems = SortSeq(@, partition_cmp)]

(* The edits of an application: add, upsert, del, set_offset, sort, copy,  *)
(* and an update from another list.                                        *)

Edited(e) ==
  CASE e.op = "add" -> list_add(s.list, e.topic, e.partition)
    [] e.op = "range" -> list_add_range(s.list, e.topic, 0, e.partition)
    [] e.op = "upsert" -> list_upsert(s.list, e.topic, e.partition)
    [] e.op = "del" -> list_del(s.list, e.topic, e.partition)
    [] e.op = "offset" -> list_set_offset(s.list, e.topic, e.partition, e.offset)
    [] e.op = "default" -> list_set_offsets(s.list, e.offset)
    [] e.op = "sort" -> list_sort(s.list)
    [] e.op = "copy" -> list_copy(s.list)
    [] e.op = "update" -> list_update(s.list, list_set_offset(list_add(NewList(1), e.topic, e.partition), e.topic, e.partition, e.offset))

\* What the edit means for the number of elements of a partition.
HeldAfter(e, k) ==
  LET n == s.held[k]
      hit == k[1] = e.topic /\ k[2] = e.partition
  IN CASE e.op = "add" -> IF hit THEN n + 1 ELSE n
       [] e.op = "range" -> IF k[1] = e.topic /\ k[2] <= e.partition THEN n + 1 ELSE n
       [] e.op = "upsert" -> IF hit /\ n = 0 THEN 1 ELSE n
       [] e.op = "del" -> IF hit /\ n > 0 THEN n - 1 ELSE n
       [] OTHER -> n

Edit ==
  /\ s.step = "start" /\ s.left > 0
  /\ \E e \in s.plan.ops :
       s' = [s EXCEPT !.list = Edited(e), !.held = [k \in DOMAIN @ |-> HeldAfter(e, k)], !.left = @ - 1, !.last = e]

-----------------------------------------------------------------------------
(* The client: its assignors, its blacklist, its subscription.             *)

\* A string is a sequence of characters.  A comma ends a pattern: the comma
\* before the one that is looked at is never part of this pattern, so that the
\* escape the parser looks for is not found.
SplitPatterns(chars) ==
  LET Step(acc, ch) == IF ch = "," THEN [acc EXCEPT !.done = Append(@, acc.cur), !.cur = <<>>]
                       ELSE [acc EXCEPT !.cur = Append(@, ch)]
      all == FoldLeft(Step, [done |-> <<>>, cur |-> <<>>], chars)
  IN IF all.cur = <<>> THEN all.done ELSE Append(all.done, all.cur)

\* rd_kafka_pattern_list_init(): a pattern that does not compile empties it.
PatternList(chars) ==
  LET ps == SplitPatterns(chars) IN
  IF \E i \in DOMAIN ps : ps[i] \notin DOMAIN Compiled THEN None ELSE ps

Blacklisted(ps, topic) == \E i \in DOMAIN ps : topic \in Compiled[ps[i]]

Builtin == {"range", "roundrobin"}

\* rd_kafka_assignor_add(): a name is taken once.
AddAssignor(as, name) == IF Contains(as, name) THEN as ELSE Append(as, name)

\* rd_kafka_assignors_init(), of the names without the blanks and commas before
\* them.  The first name that is unknown ends it: an empty one, and one with a
\* blank behind it, for rtrim() starts at the NUL, which is none.
Assignors(names) ==
  FoldLeft(LAMBDA as, name : IF as = None \/ name \notin Builtin THEN None ELSE AddAssignor(as, name), <<>>, names)

\* rd_kafka_subscribe(): no topic at all, an empty name or a bad regex.
InvalidTopic(t) == t = 0 \/ (t \in Regexes /\ t \notin DOMAIN Matches)

Subscribable(subs) == subs # <<>> /\ \A i \in DOMAIN subs : ~InvalidTopic(subs[i])

AssignorsInit ==
  /\ s.step = "start" /\ s.plan.members # <<>>
  /\ LET as == Assignors(s.plan.strategy)
         black == PatternList(s.plan.blacklist)
     IN s' = IF as = None \/ black = None \/ \E i \in DOMAIN s.plan.members : ~Subscribable(s.plan.members[i].subs)
             THEN [s EXCEPT !.step = "refused"]
             ELSE [s EXCEPT !.step = "init", !.assignors = as, !.black = black]

-----------------------------------------------------------------------------
(* rd_kafka_member_subscriptions_map()                                     *)

\* rd_kafka_topic_partition_match(): an invalid regex matches nothing.
TopicMatch(sub, topic) ==
  IF sub \in Regexes THEN sub \in DOMAIN Matches /\ topic \in Matches[sub] ELSE sub = topic

\* The subscriptions of a member that match a topic.
Matching(subs, topic) == {i \in DOMAIN subs : TopicMatch(subs[i], topic)}

\* rd_kafka_member_subscription_match(): n topics were eligible before, with
\* repetitions.  The regexes that count are those that match this topic.
AllMatched(subs, topic, n) ==
  /\ \A i \in Matching(subs, topic) : subs[i] \notin Regexes
  /\ n + Cardinality(Matching(subs, topic)) = Len(subs)

MapTopicsEager(members, topics, black) ==
  LET Step(acc, t) ==
        LET who == SelectSeq([i \in DOMAIN members |-> i], LAMBDA i : Matching(members[i].subs, t.topic) # {})
            n == [i \in DOMAIN members |-> acc.n[i] + Cardinality(Matching(members[i].subs, t.topic))]
        IN IF acc.complete \/ Blacklisted(black, t.topic) THEN acc
           ELSE IF who = <<>> THEN [acc EXCEPT !.n = n]
           ELSE [eligible |-> Append(acc.eligible, [topic |-> t.topic, cnt |-> t.cnt, members |-> who]), n |-> n,
                 complete |-> \E i \in DOMAIN members : AllMatched(members[i].subs, t.topic, acc.n[i])]
  IN FoldLeft(Step, [eligible |-> <<>>, n |-> [i \in DOMAIN members |-> 0], complete |-> FALSE], topics).eligible

\* The topics with the members subscribed to them, until all have all they
\* subscribed to.
MapTopics(members, topics, black) ==
  LET Step(acc, t) ==
        LET who == SelectSeq([i \in DOMAIN members |-> i], LAMBDA i : Matching(members[i].subs, t.topic) # {})
            n == [i \in DOMAIN members |-> acc.n[i] + Cardinality(Matching(members[i].subs, t.topic))]
        IN IF acc.complete \/ Blacklisted(black, t.topic) THEN acc
           ELSE IF who = <<>> THEN [acc EXCEPT !.n = n]
           ELSE [eligible |-> Append(acc.eligible, [topic |-> t.topic, cnt |-> t.cnt, members |-> who]), n |-> n,
                 complete |-> \A i \in DOMAIN members : AllMatched(members[i].subs, t.topic, acc.n[i])]
  IN FoldLeft(Step, [eligible |-> <<>>, n |-> [i \in DOMAIN members |-> 0], complete |-> FALSE], topics).eligible

\* rd_kafka_assignor_run(): the protocol the group agreed on has to be one of
\* ours.
Map ==
  /\ s.step = "init"
  /\ s' = IF ~Contains(s.assignors, s.plan.protocol) THEN [s EXCEPT !.step = "unsupported"]
          ELSE [s EXCEPT !.step = "mapped", !.eligible = MapTopics(s.plan.members, s.plan.topics, s.black)]

-----------------------------------------------------------------------------
(* The range assignor: of every topic, a run of partitions each.           *)

Before(members, i, j) == members[i].id < members[j].id

RangeStartFlat(i, per, extra) == per * i

\* The members before this one have one more, up to the extra ones.
RangeStart(i, per, extra) == per * i + (IF i < extra THEN i ELSE extra)

RangeLength(i, per, extra) == per + (IF i + 1 > extra THEN 0 ELSE 1)

RangeTopic(mine, e) ==
  LET sorted == SortSeq(e.members, LAMBDA i, j : Before(s.plan.members, i, j))
      per == e.cnt \div Len(sorted)
      extra == e.cnt % Len(sorted)
      Place(m) == (CHOOSE n \in DOMAIN sorted : sorted[n] = m) - 1
  IN [m \in DOMAIN mine |->
        IF ~Contains(sorted, m) \/ RangeLength(Place(m), per, extra) = 0 THEN mine[m]
        ELSE LET start == RangeStart(Place(m), per, extra) IN
             list_add_range(mine[m], e.topic, start, start + RangeLength(Place(m), per, extra) - 1)]

RangeAssign ==
  /\ s.step = "mapped" /\ s.plan.protocol = "range"
  /\ s' = [s EXCEPT !.step = "assigned", !.mine = FoldLeft(RangeTopic, s.mine, s.eligible)]

-----------------------------------------------------------------------------
(* The roundrobin assignor: the comparison of topics tells equal ones from *)
(* others only, so that they stay as they are.                             *)

\* The members by their ids, which is how they are scanned.
Sorted == SortSeq([i \in DOMAIN s.plan.members |-> i], LAMBDA i, j : Before(s.plan.members, i, j))

Subscribed(m, topic) == Matching(s.plan.members[m].subs, topic) # {}

\* One partition: the next member that is subscribed, after which the next one
\* is counted among the members of the topic.  There may be none before the
\* end of the array, beyond which the scan goes on.
RoundRobinStep(acc, e, partition) ==
  LET from == {n \in DOMAIN Sorted : n > acc.next /\ Subscribed(Sorted[n], e.topic)} IN
  IF acc.beyond \/ from = {} THEN [acc EXCEPT !.beyond = TRUE]
  ELSE LET n == CHOOSE x \in from : \A y \in from : x <= y IN
       [mine |-> [acc.mine EXCEPT ![Sorted[n]] = list_add(@, e.topic, partition)],
        next |-> n % Len(e.members), beyond |-> FALSE]

RoundRobinTopic(acc, e) == FoldLeft(LAMBDA a, p : RoundRobinStep(a, e, p), acc, [n \in 1..e.cnt |-> n - 1])

RoundRobin ==
  /\ s.step = "mapped" /\ s.plan.protocol = "roundrobin"
  /\ LET r == FoldLeft(RoundRobinTopic, [mine |-> s.mine, next |-> 0, beyond |-> FALSE], s.eligible) IN
     s' = [s EXCEPT !.step = IF r.beyond THEN "beyond" ELSE "assigned", !.mine = r.mine]

Next == AssignorsInit \/ Map \/ RangeAssign \/ RoundRobin \/ Edit

Spec == Init /\ [][Next]_s

(***************************************************************************)
(* Properties                                                               *)
(***************************************************************************)

Elems(m) == s.mine[m].elems

Owns(m, topic, p) == list_find0(Elems(m), topic, p) # 0

WantedBy(topic) == {m \in DOMAIN s.plan.members : Subscribed(m, topic)}

Uniform == \A i, j \in DOMAIN s.plan.members : s.plan.members[i].subs = s.plan.members[j].subs

NoRegexes == \A i \in DOMAIN s.plan.members : \A j \in DOMAIN s.plan.members[i].subs : s.plan.members[i].subs[j] \notin Regexes

(* Every partition of the topics that were mapped goes to one member, which *)
(* is subscribed to it, and no partition goes to anyone else, if the        *)
(* assignor comes to an end within its arrays (see StaysWithin).            *)
OneOwnerEach ==
  s.step = "assigned" =>
    /\ \A k \in DOMAIN s.eligible : \A p \in 0..(s.eligible[k].cnt - 1) :
         Cardinality({m \in DOMAIN s.mine : Owns(m, s.eligible[k].topic, p)}) = 1
    /\ \A m \in DOMAIN s.mine : \A i \in DOMAIN Elems(m) :
         /\ m \in WantedBy(Elems(m)[i].topic)
         /\ list_find0(Elems(m), Elems(m)[i].topic, Elems(m)[i].partition) = i

(* If all subscribe to topics by their names, no topic that someone wants   *)
(* and that is not blacklisted is left out, although the map ends early.    *)
NoTopicLeftOut ==
  (s.step = "assigned" /\ NoRegexes) =>
    \A k \in DOMAIN s.plan.topics :
      LET t == s.plan.topics[k].topic IN
      (WantedBy(t) # {} /\ ~Blacklisted(s.black, t)) => \E j \in DOMAIN s.eligible : s.eligible[j].topic = t

Count(m, topic) == Len(SelectSeq(Elems(m), LAMBDA e : e.topic = topic))

(* The range assignor gives the members of a topic the same number of       *)
(* partitions, or one more to the first, in the order of their ids.         *)
RangeFair ==
  (s.step = "assigned" /\ s.plan.protocol = "range") =>
    \A k \in DOMAIN s.eligible :
      LET t == s.eligible[k].topic IN
      \A m, n \in WantedBy(t) :
        Before(s.plan.members, m, n) =>
          /\ Count(m, t) - Count(n, t) \in {0, 1}
          /\ \A i \in DOMAIN Elems(m), j \in DOMAIN Elems(n) :
               (Elems(m)[i].topic = t /\ Elems(n)[j].topic = t) => Elems(m)[i].partition < Elems(n)[j].partition

(* If all members have the same subscription, they have the same number of  *)
(* partitions from the roundrobin assignor but for one.                     *)
RoundRobinFair ==
  (Uniform /\ s.plan.protocol = "roundrobin" /\ s.step = "assigned") =>
    \A m, n \in DOMAIN s.mine : Len(Elems(m)) - Len(Elems(n)) \in {-1, 0, 1}

(* The scan for the next member has no end of its own                       *)
(* (rdkafka_roundrobin_assignor.c:87).  It stays within the array if every  *)
(* topic has the last of the members, by their ids, among its subscribers,  *)
(* as it does when all subscribe to the same.  Otherwise it may go on       *)
(* beyond: what it then reads is not defined.                               *)
StaysWithin ==
  s.step = "beyond" =>
    /\ s.plan.protocol = "roundrobin" /\ ~Uniform
    /\ \E k \in DOMAIN s.eligible : ~Subscribed(Last(Sorted), s.eligible[k].topic)

CopiesOf(k) == Len(SelectSeq(s.list.elems, LAMBDA e : e.topic = k[1] /\ e.partition = k[2]))

(* However a list is edited, it has room for its elements, holds every      *)
(* partition as often as it was added and not deleted, once if it was only  *)
(* upserted, is in order after a sort and full of offsets after a default.  *)
ListsKeepCount ==
  /\ Len(s.list.elems) <= s.list.size \/ s.list.elems = <<>>
  /\ \A k \in DOMAIN s.held : CopiesOf(k) = s.held[k]
  /\ (s.last # None /\ s.last.op = "sort") =>
       \A i, j \in DOMAIN s.list.elems : i < j => ~partition_cmp(s.list.elems[j], s.list.elems[i])
  /\ (s.last # None /\ s.last.op = "default") => list_count_abs_offsets(s.list) = Len(s.list.elems)

(* What the leader computes, and the lists it computes with.                *)
AssignmentSound ==
  OneOwnerEach /\ NoTopicLeftOut /\ RangeFair /\ RoundRobinFair /\ StaysWithin /\ ListsKeepCount
=============================================================================
