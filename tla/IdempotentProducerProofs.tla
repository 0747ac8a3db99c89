---------------------- MODULE IdempotentProducerProofs ----------------------
(***************************************************************************)
(* That the idempotent producer loses and duplicates no message, for any   *)
(* number of brokers, messages, requests, retries and faults.  The         *)
(* argument follows one message: the queues of requests of the broker      *)
(* threads hold it at most once, and steps that put off, time out or purge *)
(* requests only move them from one of these queues to another.            *)
(***************************************************************************)
EXTENDS IdempotentProducer, TLAPS

-----------------------------------------------------------------------------
(* Queues.  P is what is looked for.                                       *)

Has(s, P) == \E i \in DOMAIN s : s[i] \in P

Once(s, P) == \A i, j \in DOMAIN s : s[i] \in P /\ s[j] \in P => i = j

(* Nothing is in an empty queue.                                           *)
LEMMA EmptyHas ==
    ASSUME NEW P
    PROVE  ~ Has(<< >>, P) /\ Once(<< >>, P)
  BY DEF Has, Once

(* What is in two queues put together.                                     *)
LEMMA ConcatHas ==
    ASSUME NEW S, NEW s \in Seq(S), NEW t \in Seq(S), NEW P
    PROVE  /\ s \o t \in Seq(S)
           /\ Has(s \o t, P) <=> Has(s, P) \/ Has(t, P)
           /\ Once(s \o t, P) <=> Once(s, P) /\ Once(t, P) /\ ~ (Has(s, P) /\ Has(t, P))
<1>1. s \o t \in Seq(S) /\ Len(s \o t) = Len(s) + Len(t)
      /\ DOMAIN (s \o t) = 1..(Len(s) + Len(t)) /\ DOMAIN s = 1..Len(s) /\ DOMAIN t = 1..Len(t)
      /\ Len(s) \in Nat /\ Len(t) \in Nat
  OBVIOUS
<1>2. /\ \A i \in DOMAIN s : i \in DOMAIN (s \o t) /\ (s \o t)[i] = s[i]
      /\ \A i \in DOMAIN t : Len(s) + i \in DOMAIN (s \o t) /\ (s \o t)[Len(s) + i] = t[i]
      /\ \A k \in DOMAIN (s \o t) :
           \/ k \in DOMAIN s
           \/ \E i \in DOMAIN t : k = Len(s) + i /\ (s \o t)[k] = t[i]
      /\ \A i \in DOMAIN s, j \in DOMAIN t : i # Len(s) + j
      /\ \A i, j \in DOMAIN t : Len(s) + i = Len(s) + j => i = j
  <2>1. \A i \in DOMAIN s : i \in DOMAIN (s \o t) /\ (s \o t)[i] = s[i]
    BY <1>1
  <2>2. \A i \in DOMAIN t : Len(s) + i \in DOMAIN (s \o t) /\ (s \o t)[Len(s) + i] = t[i]
    BY <1>1
  <2>3. ASSUME NEW k \in DOMAIN (s \o t), k \notin DOMAIN s
        PROVE  \E i \in DOMAIN t : k = Len(s) + i /\ (s \o t)[k] = t[i]
    <3>1. k - Len(s) \in DOMAIN t /\ k = Len(s) + (k - Len(s))
      BY <1>1, <2>3
    <3>2. (s \o t)[k] = t[k - Len(s)]
      BY <1>1, <2>3
    <3> QED
      BY <3>1, <3>2, Zenon
  <2>4. \A i \in DOMAIN s, j \in DOMAIN t : i # Len(s) + j
    BY <1>1
  <2>5. \A i, j \in DOMAIN t : Len(s) + i = Len(s) + j => i = j
    BY <1>1
  <2> QED
    BY <2>1, <2>2, <2>3, <2>4, <2>5, Zenon
<1>3. Has(s \o t, P) <=> Has(s, P) \/ Has(t, P)
  <2>1. Has(s, P) \/ Has(t, P) => Has(s \o t, P)
    BY <1>2, Zenon DEF Has
  <2>2. ASSUME NEW k \in DOMAIN (s \o t), (s \o t)[k] \in P PROVE Has(s, P) \/ Has(t, P)
    <3>1. CASE k \in DOMAIN s
      BY <1>2, <2>2, <3>1 DEF Has
    <3>2. CASE \E i \in DOMAIN t : k = Len(s) + i /\ (s \o t)[k] = t[i]
      BY <2>2, <3>2 DEF Has
    <3> QED
      BY <1>2, <3>1, <3>2, Zenon
  <2> QED
    BY <2>1, <2>2, Zenon DEF Has
<1>4. ASSUME Once(s \o t, P)
      PROVE  Once(s, P) /\ Once(t, P) /\ ~ (Has(s, P) /\ Has(t, P))
  BY <1>2, <1>4, Zenon DEF Has, Once
<1>5. ASSUME Once(s, P), Once(t, P), ~ (Has(s, P) /\ Has(t, P))
      PROVE  Once(s \o t, P)
  <2> SUFFICES ASSUME NEW i \in DOMAIN (s \o t), NEW j \in DOMAIN (s \o t),
                      (s \o t)[i] \in P, (s \o t)[j] \in P
               PROVE  i = j
    BY Zenon DEF Once
  <2>1. CASE i \in DOMAIN s /\ j \in DOMAIN s
    BY <1>2, <1>5, <2>1, Zenon DEF Once
  <2>2. ASSUME NEW k \in DOMAIN s, (s \o t)[k] \in P PROVE Has(s, P)
    BY <1>2, <2>2 DEF Has
  <2>3. ASSUME NEW k \in DOMAIN (s \o t), k \notin DOMAIN s, (s \o t)[k] \in P
        PROVE  Has(t, P) /\ \E l \in DOMAIN t : k = Len(s) + l /\ t[l] \in P
    BY <1>2, <2>3 DEF Has
  <2>4. CASE i \notin DOMAIN s /\ j \notin DOMAIN s
    <3>1. PICK k \in DOMAIN t : i = Len(s) + k /\ t[k] \in P
      BY <2>3, <2>4, Zenon
    <3>2. PICK l \in DOMAIN t : j = Len(s) + l /\ t[l] \in P
      BY <2>3, <2>4, Zenon
    <3> QED
      BY <1>5, <3>1, <3>2, Zenon DEF Once
  <2> QED
    BY <1>5, <2>1, <2>2, <2>3, <2>4, Zenon
<1> QED
  BY <1>1, <1>3, <1>4, <1>5, Zenon

(* What is in a queue of one.                                              *)
LEMMA OneHas ==
    ASSUME NEW S, NEW e \in S, NEW P
    PROVE  << e >> \in Seq(S) /\ (Has(<< e >>, P) <=> e \in P) /\ Once(<< e >>, P)
  BY DEF Has, Once

(* Putting at the end.                                                     *)
LEMMA AppendHas ==
    ASSUME NEW S, NEW s \in Seq(S), NEW e \in S, NEW P
    PROVE  /\ Append(s, e) \in Seq(S)
           /\ Has(Append(s, e), P) <=> Has(s, P) \/ e \in P
           /\ Once(Append(s, e), P) <=> Once(s, P) /\ ~ (Has(s, P) /\ e \in P)
<1> DEFINE t == << e >>
<1>1. Append(s, e) = s \o t
  OBVIOUS
<1>2. t \in Seq(S) /\ (Has(t, P) <=> e \in P) /\ Once(t, P)
  BY OneHas, Zenon
<1> HIDE DEF t
<1>3. /\ s \o t \in Seq(S)
      /\ Has(s \o t, P) <=> Has(s, P) \/ Has(t, P)
      /\ Once(s \o t, P) <=> Once(s, P) /\ Once(t, P) /\ ~ (Has(s, P) /\ Has(t, P))
  BY <1>2, ConcatHas, Zenon
<1> QED
  BY <1>1, <1>2, <1>3

(* Two queues are the same if they are so place by place.                  *)
LEMMA SamePlaces ==
    ASSUME NEW S, NEW s \in Seq(S), NEW t \in Seq(S), Len(s) = Len(t),
           \A i \in 1..Len(s) : s[i] = t[i]
    PROVE  s = t
  OBVIOUS

(* Taking from the front.                                                  *)
LEMMA TailHas ==
    ASSUME NEW S, NEW s \in Seq(S), s # << >>, NEW P
    PROVE  /\ Head(s) \in S /\ Tail(s) \in Seq(S)
           /\ Has(s, P) <=> Head(s) \in P \/ Has(Tail(s), P)
           /\ Once(s, P) <=> Once(Tail(s), P) /\ ~ (Head(s) \in P /\ Has(Tail(s), P))
<1> DEFINE h == << Head(s) >>
           r == Tail(s)
<1>1. Head(s) \in S /\ r \in Seq(S) /\ s = h \o r
  OBVIOUS
<1>2. h \in Seq(S) /\ (Has(h, P) <=> Head(s) \in P) /\ Once(h, P)
  BY <1>1, OneHas, Zenon
<1> HIDE DEF h, r
<1>3. /\ Has(h \o r, P) <=> Has(h, P) \/ Has(r, P)
      /\ Once(h \o r, P) <=> Once(h, P) /\ Once(r, P) /\ ~ (Has(h, P) /\ Has(r, P))
  BY <1>1, <1>2, ConcatHas, Zenon
<1>4. /\ Has(s, P) <=> Has(h, P) \/ Has(r, P)
      /\ Once(s, P) <=> Once(h, P) /\ Once(r, P) /\ ~ (Has(h, P) /\ Has(r, P))
  BY <1>1, <1>3
<1> QED
  BY <1>1, <1>2, <1>4, Zenon DEF r

(* Cutting in two after n.                                                 *)
LEMMA SplitHas ==
    ASSUME NEW S, NEW s \in Seq(S), NEW n \in 0..Len(s), NEW P
    PROVE  LET f == SubSeq(s, 1, n)
               r == SubSeq(s, n + 1, Len(s)) IN
           /\ f \in Seq(S) /\ r \in Seq(S)
           /\ Has(s, P) <=> Has(f, P) \/ Has(r, P)
           /\ Once(s, P) <=> Once(f, P) /\ Once(r, P) /\ ~ (Has(f, P) /\ Has(r, P))
<1> DEFINE f == SubSeq(s, 1, n)
           r == SubSeq(s, n + 1, Len(s))
<1>1. f \in Seq(S) /\ r \in Seq(S)
  OBVIOUS
<1>2. s = f \o r
  <2>1. Len(f) = n /\ \A i \in 1..n : f[i] = s[i]
    OBVIOUS
  <2>2. Len(r) = Len(s) - n /\ \A i \in 1..(Len(s) - n) : r[i] = s[n + i]
    OBVIOUS
  <2>0. n \in Nat /\ Len(s) \in Nat /\ n <= Len(s)
    OBVIOUS
  <2> HIDE DEF f, r
  <2>3. f \o r \in Seq(S) /\ Len(f \o r) = Len(s)
    BY <1>1, <2>0, <2>1, <2>2
  <2>4. \A i \in 1..Len(s) : s[i] = (f \o r)[i]
    <3> TAKE i \in 1..Len(s)
    <3>1. CASE i <= n
      BY <1>1, <2>1, <2>2, <3>1
    <3>2. CASE i > n
      <4>1. i - n \in 1..(Len(s) - n) /\ n + (i - n) = i
        BY <3>2
      <4>2. (f \o r)[i] = r[i - n]
        BY <1>1, <2>1, <2>2, <3>2
      <4> QED
        BY <2>2, <4>1, <4>2
    <3>3. i <= n \/ i > n
      BY <2>0
    <3> QED
      BY <3>1, <3>2, <3>3, Zenon
  <2> QED
    BY <2>3, <2>4, SamePlaces, Zenon
<1> HIDE DEF f, r
<1>3. /\ Has(f \o r, P) <=> Has(f, P) \/ Has(r, P)
      /\ Once(f \o r, P) <=> Once(f, P) /\ Once(r, P) /\ ~ (Has(f, P) /\ Has(r, P))
  BY <1>1, ConcatHas, Zenon
<1>4. /\ Has(s, P) <=> Has(f, P) \/ Has(r, P)
      /\ Once(s, P) <=> Once(f, P) /\ Once(r, P) /\ ~ (Has(f, P) /\ Has(r, P))
  BY <1>2, <1>3
<1> QED
  BY <1>1, <1>4, Zenon DEF f, r

(* Taking out of the middle.                                               *)
LEMMA RemoveHas ==
    ASSUME NEW S, NEW s \in Seq(S), NEW i \in DOMAIN s, NEW P
    PROVE  /\ s[i] \in S /\ RemoveAt(s, i) \in Seq(S)
           /\ Has(s, P) <=> s[i] \in P \/ Has(RemoveAt(s, i), P)
           /\ Once(s, P) <=> Once(RemoveAt(s, i), P) /\ ~ (s[i] \in P /\ Has(RemoveAt(s, i), P))
<1> DEFINE f == SubSeq(s, 1, i - 1)
           r == SubSeq(s, i + 1, Len(s))
           g == SubSeq(s, i - 1 + 1, Len(s))
<1>1. f \in Seq(S) /\ r \in Seq(S) /\ g \in Seq(S) /\ s[i] \in S /\ i - 1 \in 0..Len(s)
  OBVIOUS
<1>2. RemoveAt(s, i) = f \o r
  BY Zenon DEF RemoveAt
<1>3. g # << >> /\ Head(g) = s[i]
  OBVIOUS
<1>4. Tail(g) = r
  <2>1. Len(g) = Len(s) - i + 1 /\ \A k \in 1..Len(g) : g[k] = s[i - 1 + k]
    OBVIOUS
  <2>2. Len(r) = Len(s) - i /\ \A k \in 1..(Len(s) - i) : r[k] = s[i + k]
    OBVIOUS
  <2>3. i \in Nat /\ Len(s) \in Nat /\ i <= Len(s)
    OBVIOUS
  <2> HIDE DEF r, g
  <2>4. Tail(g) \in Seq(S) /\ Len(Tail(g)) = Len(g) - 1 /\ \A k \in 1..(Len(g) - 1) : Tail(g)[k] = g[k + 1]
    BY <1>1, <1>3
  <2>5. \A k \in 1..(Len(s) - i) : Tail(g)[k] = r[k]
    <3> TAKE k \in 1..(Len(s) - i)
    <3>1. k \in 1..(Len(g) - 1) /\ k + 1 \in 1..Len(g) /\ i - 1 + (k + 1) = i + k
      BY <2>1, <2>3
    <3> QED
      BY <2>1, <2>2, <2>4, <3>1, Zenon
  <2>6. Len(Tail(g)) = Len(r)
    BY <2>1, <2>2, <2>3, <2>4
  <2> QED
    BY <1>1, <2>2, <2>4, <2>5, <2>6, SamePlaces
<1>5. /\ Has(s, P) <=> Has(f, P) \/ Has(g, P)
      /\ Once(s, P) <=> Once(f, P) /\ Once(g, P) /\ ~ (Has(f, P) /\ Has(g, P))
  BY <1>1, SplitHas, Zenon
<1> HIDE DEF f, r, g
<1>6. /\ Has(g, P) <=> s[i] \in P \/ Has(r, P)
      /\ Once(g, P) <=> Once(r, P) /\ ~ (s[i] \in P /\ Has(r, P))
  <2>1. /\ Has(g, P) <=> Head(g) \in P \/ Has(Tail(g), P)
        /\ Once(g, P) <=> Once(Tail(g), P) /\ ~ (Head(g) \in P /\ Has(Tail(g), P))
    BY <1>1, <1>3, TailHas, Zenon
  <2> QED
    BY <1>3, <1>4, <2>1, Zenon
<1>7. /\ f \o r \in Seq(S)
      /\ Has(f \o r, P) <=> Has(f, P) \/ Has(r, P)
      /\ Once(f \o r, P) <=> Once(f, P) /\ Once(r, P) /\ ~ (Has(f, P) /\ Has(r, P))
  BY <1>1, ConcatHas, Zenon
<1>8. /\ Has(s, P) <=> s[i] \in P \/ Has(f \o r, P)
      /\ Once(s, P) <=> Once(f \o r, P) /\ ~ (s[i] \in P /\ Has(f \o r, P))
  BY <1>5, <1>6, <1>7, Zenon
<1> QED
  BY <1>1, <1>2, <1>7, <1>8

-----------------------------------------------------------------------------
(* The inductive invariant.                                                *)

Rq == [id : Nat, pid : Nat, first_seq : Nat, msgs : SUBSET Msgs]
Errs == {"RETRY", "TIMED_OUT", "TIMED_OUT_QUEUE", "TRANSPORT"}
Cb == [rq : Rq, err : Errs, sent : BOOLEAN]

(* The types that matter here: of numbers, and of messages and requests.   *)
Counters ==
    /\ faults \in [msgs : 0..MaxMsgs, budget : Nat, elections : BOOLEAN, drains : BOOLEAN]
    /\ pid \in Nat /\ toppar_pid \in Nat /\ base_msgid \in Nat /\ nreq \in Nat
    /\ serve_pid \in [Brokers -> Nat]

Types ==
    /\ rktp_msgid \in Nat /\ rktp_msgid <= MaxMsgs
    /\ msgq \subseteq Msgs /\ xmit_msgq \subseteq Msgs
    /\ report \in [Msgs -> {"none", "ok", "err", "timed_out"}]
    /\ outbufs \in [Brokers -> Seq(Rq)]
    /\ waitresps \in [Brokers -> Seq(Rq)]
    /\ cbq \in [Brokers -> Seq(Cb)]

(* The requests and the callbacks with message m.                          *)
With(m) == {rq \in Rq : m \in rq.msgs}
CbWith(m) == {c \in Cb : m \in c.rq.msgs}

(* Broker thread b has a request with message m.                           *)
InRequest(b, m) ==
    Has(outbufs[b], With(m)) \/ Has(waitresps[b], With(m)) \/ Has(cbq[b], CbWith(m))

(* It has no more than one, in one of its queues.                          *)
InOneRequest(b, m) ==
    /\ Once(outbufs[b], With(m)) /\ Once(waitresps[b], With(m)) /\ Once(cbq[b], CbWith(m))
    /\ ~ (Has(outbufs[b], With(m)) /\ Has(waitresps[b], With(m)))
    /\ ~ (Has(outbufs[b], With(m)) /\ Has(cbq[b], CbWith(m)))
    /\ ~ (Has(waitresps[b], With(m)) /\ Has(cbq[b], CbWith(m)))

Flying(m) == \E b \in Brokers : InRequest(b, m)
Reported(m) == report[m] # "none"

(* Where message m is: nowhere before it is produced, then in one place.   *)
Placed(m) ==
    /\ \A b \in Brokers : InOneRequest(b, m)
    /\ \A b, c \in Brokers : InRequest(b, m) /\ InRequest(c, m) => b = c
    /\ m > rktp_msgid => m \notin msgq /\ m \notin xmit_msgq /\ ~ Reported(m) /\ ~ Flying(m)
    /\ m <= rktp_msgid => m \in msgq \/ m \in xmit_msgq \/ Reported(m) \/ Flying(m)
    /\ ~ (m \in msgq /\ m \in xmit_msgq)
    /\ ~ (m \in msgq /\ Reported(m)) /\ ~ (m \in xmit_msgq /\ Reported(m))
    /\ ~ (m \in msgq /\ Flying(m)) /\ ~ (m \in xmit_msgq /\ Flying(m))
    /\ ~ (Reported(m) /\ Flying(m))

IndInv == Counters /\ Types /\ \A m \in Msgs : Placed(m)

(* That the smallest message of a set of them is one of them.              *)
Minima == \A S \in SUBSET Msgs : S # {} => Min(S) \in S

-----------------------------------------------------------------------------
(* Moving requests from one queue to another.                              *)

(* Nothing else happens to the queues of requests than at broker b.        *)
Elsewhere(b) ==
    \A c \in Brokers \ {b} :
      outbufs'[c] = outbufs[c] /\ waitresps'[c] = waitresps[c] /\ cbq'[c] = cbq[c]

(* The callbacks of requests hold the messages the requests hold.          *)
LEMMA CallbacksHas ==
    ASSUME NEW s \in Seq(Rq), NEW e \in Errs, NEW t \in BOOLEAN, NEW m
    PROVE  /\ Callbacks(s, e, t) \in Seq(Cb)
           /\ Has(Callbacks(s, e, t), CbWith(m)) <=> Has(s, With(m))
           /\ Once(Callbacks(s, e, t), CbWith(m)) <=> Once(s, With(m))
<1> DEFINE c == Callbacks(s, e, t)
<1>1. DOMAIN c = DOMAIN s /\ \A i \in DOMAIN s : c[i] = [rq |-> s[i], err |-> e, sent |-> t]
  BY Zenon DEF Callbacks, Callback
<1>2. Len(s) \in Nat /\ DOMAIN s = 1..Len(s) /\ \A i \in DOMAIN s : s[i] \in Rq
  OBVIOUS
<1>3. c = [i \in 1..Len(s) |-> [rq |-> s[i], err |-> e, sent |-> t]]
  BY <1>2 DEF Callbacks, Callback
<1>4. \A i \in 1..Len(s) : [rq |-> s[i], err |-> e, sent |-> t] \in Cb
  BY <1>2 DEF Cb
<1>5. c \in Seq(Cb)
  BY <1>2, <1>3, <1>4
<1>6. \A i \in DOMAIN s : c[i] \in CbWith(m) <=> s[i] \in With(m)
  BY <1>1, <1>2, <1>4 DEF CbWith, With
<1> HIDE DEF c
<1>7. Has(c, CbWith(m)) <=> Has(s, With(m))
  BY <1>1, <1>6, Zenon DEF Has
<1>8. Once(c, CbWith(m)) <=> Once(s, With(m))
  BY <1>1, <1>6, Zenon DEF Once
<1> QED
  BY <1>5, <1>7, <1>8, Zenon DEF c

(* The queues hold requests and callbacks.                                 *)
LEMMA QueueTypes ==
    ASSUME Types, NEW b \in Brokers
    PROVE  outbufs[b] \in Seq(Rq) /\ waitresps[b] \in Seq(Rq) /\ cbq[b] \in Seq(Cb)
  BY Zenon DEF Types

(* Purging moves unsent requests to the callbacks.                         *)
LEMMA PurgeKeeps ==
    ASSUME Types, NEW b \in Brokers, NEW m \in Msgs, InOneRequest(b, m),
           Purge(b), UNCHANGED waitresps
    PROVE  /\ outbufs' \in [Brokers -> Seq(Rq)] /\ cbq' \in [Brokers -> Seq(Cb)] /\ Elsewhere(b)
           /\ InOneRequest(b, m)' /\ (InRequest(b, m)' <=> InRequest(b, m))
<1> DEFINE o == outbufs[b]
           c == cbq[b]
           k == Callbacks(o, "RETRY", FALSE)
<1>1. o \in Seq(Rq) /\ c \in Seq(Cb)
  BY QueueTypes, Zenon
<1>0. "RETRY" \in Errs /\ FALSE \in BOOLEAN
  BY DEF Errs
<1>2. k \in Seq(Cb) /\ (Has(k, CbWith(m)) <=> Has(o, With(m)))
      /\ (Once(k, CbWith(m)) <=> Once(o, With(m)))
  BY <1>0, <1>1, CallbacksHas, Zenon
<1>3. cbq' = [cbq EXCEPT ![b] = c \o k] /\ outbufs' = [outbufs EXCEPT ![b] = << >>]
  BY Zenon DEF Purge
<1> HIDE DEF k
<1>4. /\ c \o k \in Seq(Cb)
      /\ Has(c \o k, CbWith(m)) <=> Has(c, CbWith(m)) \/ Has(k, CbWith(m))
      /\ Once(c \o k, CbWith(m))
            <=> Once(c, CbWith(m)) /\ Once(k, CbWith(m)) /\ ~ (Has(c, CbWith(m)) /\ Has(k, CbWith(m)))
  BY <1>1, <1>2, ConcatHas, Zenon
<1>5. outbufs \in [Brokers -> Seq(Rq)] /\ cbq \in [Brokers -> Seq(Cb)] /\ << >> \in Seq(Rq)
  BY DEF Types
<1>6. outbufs' \in [Brokers -> Seq(Rq)] /\ cbq' \in [Brokers -> Seq(Cb)] /\ Elsewhere(b)
  BY <1>3, <1>4, <1>5, Zenon DEF Elsewhere
<1>7. outbufs'[b] = << >> /\ cbq'[b] = c \o k /\ waitresps'[b] = waitresps[b]
  BY <1>3, <1>5, Zenon
<1>8. ~ Has(outbufs'[b], With(m)) /\ Once(outbufs'[b], With(m))
  BY <1>7, EmptyHas
<1>9. /\ Has(cbq'[b], CbWith(m)) <=> Has(c, CbWith(m)) \/ Has(o, With(m))
      /\ Once(cbq'[b], CbWith(m))
           <=> Once(c, CbWith(m)) /\ Once(o, With(m)) /\ ~ (Has(c, CbWith(m)) /\ Has(o, With(m)))
  BY <1>2, <1>4, <1>7
<1> QED
  BY <1>6, <1>7, <1>8, <1>9 DEF InOneRequest, InRequest

(* Sending moves a request to those that wait for a response.              *)
LEMMA SendKeeps ==
    ASSUME Types, NEW b \in Brokers, NEW m \in Msgs, InOneRequest(b, m), SendRequest(b)
    PROVE  /\ outbufs' \in [Brokers -> Seq(Rq)] /\ waitresps' \in [Brokers -> Seq(Rq)] /\ Elsewhere(b)
           /\ InOneRequest(b, m)' /\ (InRequest(b, m)' <=> InRequest(b, m))
<1> DEFINE o == outbufs[b]
           w == waitresps[b]
<1>1. o \in Seq(Rq) /\ w \in Seq(Rq) /\ o # << >> /\ cbq' = cbq
  BY QueueTypes, Zenon DEF SendRequest
<1>2. waitresps' = [waitresps EXCEPT ![b] = Append(w, Head(o))] /\ outbufs' = [outbufs EXCEPT ![b] = Tail(o)]
  BY Zenon DEF SendRequest
<1>3. /\ Head(o) \in Rq /\ Tail(o) \in Seq(Rq)
      /\ Has(o, With(m)) <=> Head(o) \in With(m) \/ Has(Tail(o), With(m))
      /\ Once(o, With(m)) <=> Once(Tail(o), With(m)) /\ ~ (Head(o) \in With(m) /\ Has(Tail(o), With(m)))
  BY <1>1, TailHas, Zenon
<1>4. /\ Append(w, Head(o)) \in Seq(Rq)
      /\ Has(Append(w, Head(o)), With(m)) <=> Has(w, With(m)) \/ Head(o) \in With(m)
      /\ Once(Append(w, Head(o)), With(m))
            <=> Once(w, With(m)) /\ ~ (Has(w, With(m)) /\ Head(o) \in With(m))
  <2> DEFINE h == Head(o)
  <2> HIDE DEF h
  <2>1. h \in Rq
    BY <1>3, Zenon DEF h
  <2>2. /\ Append(w, h) \in Seq(Rq)
        /\ Has(Append(w, h), With(m)) <=> Has(w, With(m)) \/ h \in With(m)
        /\ Once(Append(w, h), With(m)) <=> Once(w, With(m)) /\ ~ (Has(w, With(m)) /\ h \in With(m))
    BY <1>1, <2>1, AppendHas, ZenonT(60)
  <2> QED
    BY <2>2, Zenon DEF h
<1>5. outbufs \in [Brokers -> Seq(Rq)] /\ waitresps \in [Brokers -> Seq(Rq)]
  BY Zenon DEF Types
<1>6. outbufs' \in [Brokers -> Seq(Rq)] /\ waitresps' \in [Brokers -> Seq(Rq)] /\ Elsewhere(b)
  BY <1>1, <1>2, <1>3, <1>4, <1>5, Zenon DEF Elsewhere
<1>7. outbufs'[b] = Tail(o) /\ waitresps'[b] = Append(w, Head(o)) /\ cbq'[b] = cbq[b]
  BY <1>1, <1>2, <1>5, Zenon
<1> QED
  BY <1>3, <1>4, <1>6, <1>7 DEF InOneRequest, InRequest

(* Three queues, one after the other, hold what each of them holds.        *)
LEMMA ThreeHas ==
    ASSUME NEW x \in Seq(Cb), NEW y \in Seq(Cb), NEW z \in Seq(Cb), NEW P
    PROVE  /\ (x \o y) \o z \in Seq(Cb)
           /\ Has((x \o y) \o z, P) <=> Has(x, P) \/ Has(y, P) \/ Has(z, P)
           /\ Once((x \o y) \o z, P) <=>
                /\ Once(x, P) /\ Once(y, P) /\ Once(z, P)
                /\ ~ (Has(x, P) /\ Has(y, P)) /\ ~ (Has(x, P) /\ Has(z, P)) /\ ~ (Has(y, P) /\ Has(z, P))
<1> DEFINE v == x \o y
<1>1. /\ v \in Seq(Cb)
      /\ Has(v, P) <=> Has(x, P) \/ Has(y, P)
      /\ Once(v, P) <=> Once(x, P) /\ Once(y, P) /\ ~ (Has(x, P) /\ Has(y, P))
  BY ConcatHas, Zenon
<1> HIDE DEF v
<1>2. /\ v \o z \in Seq(Cb)
      /\ Has(v \o z, P) <=> Has(v, P) \/ Has(z, P)
      /\ Once(v \o z, P) <=> Once(v, P) /\ Once(z, P) /\ ~ (Has(v, P) /\ Has(z, P))
  BY <1>1, ConcatHas, ZenonT(60)
<1>3. /\ v \o z \in Seq(Cb)
      /\ Has(v \o z, P) <=> Has(x, P) \/ Has(y, P) \/ Has(z, P)
      /\ Once(v \o z, P) <=>
           /\ Once(x, P) /\ Once(y, P) /\ Once(z, P)
           /\ ~ (Has(x, P) /\ Has(y, P)) /\ ~ (Has(x, P) /\ Has(z, P)) /\ ~ (Has(y, P) /\ Has(z, P))
  BY <1>1, <1>2, Zenon
<1> QED
  BY <1>3, Zenon DEF v

(* A connection that fails leaves callbacks only: those before, of the     *)
(* requests that wait and of those that were not sent.                     *)
LEMMA FailKeeps ==
    ASSUME Types, NEW b \in Brokers, NEW m \in Msgs, NEW before \in Seq(Cb),
           NEW wait \in Seq(Rq), NEW out \in Seq(Rq), NEW err \in {"TIMED_OUT", "TRANSPORT"},
           BrokerFail(b, before, wait, out, err)
    PROVE  /\ outbufs' \in [Brokers -> Seq(Rq)] /\ waitresps' \in [Brokers -> Seq(Rq)]
           /\ cbq' \in [Brokers -> Seq(Cb)] /\ Elsewhere(b)
           /\ InOneRequest(b, m)' <=>
                /\ Once(before, CbWith(m)) /\ Once(wait, With(m)) /\ Once(out, With(m))
                /\ ~ (Has(before, CbWith(m)) /\ Has(wait, With(m)))
                /\ ~ (Has(before, CbWith(m)) /\ Has(out, With(m)))
                /\ ~ (Has(wait, With(m)) /\ Has(out, With(m)))
           /\ InRequest(b, m)' <=> Has(before, CbWith(m)) \/ Has(wait, With(m)) \/ Has(out, With(m))
<1> DEFINE e == IF err = "TIMED_OUT" THEN "TIMED_OUT_QUEUE" ELSE err
           y == Callbacks(wait, err, TRUE)
           z == Callbacks(out, e, FALSE)
           v == (before \o y) \o z
<1>1. err \in Errs /\ e \in Errs /\ TRUE \in BOOLEAN /\ FALSE \in BOOLEAN
  BY DEF Errs
<1>2. cbq' = [cbq EXCEPT ![b] = v] /\ waitresps' = [waitresps EXCEPT ![b] = << >>]
      /\ outbufs' = [outbufs EXCEPT ![b] = << >>]
  BY Zenon DEF BrokerFail
<1> HIDE DEF e
<1>3. y \in Seq(Cb) /\ (Has(y, CbWith(m)) <=> Has(wait, With(m)))
      /\ (Once(y, CbWith(m)) <=> Once(wait, With(m)))
  BY <1>1, CallbacksHas, Zenon
<1>4. z \in Seq(Cb) /\ (Has(z, CbWith(m)) <=> Has(out, With(m)))
      /\ (Once(z, CbWith(m)) <=> Once(out, With(m)))
  BY <1>1, CallbacksHas, Zenon
<1> HIDE DEF y, z
<1>5. /\ v \in Seq(Cb)
      /\ Has(v, CbWith(m)) <=> Has(before, CbWith(m)) \/ Has(y, CbWith(m)) \/ Has(z, CbWith(m))
      /\ Once(v, CbWith(m)) <=>
           /\ Once(before, CbWith(m)) /\ Once(y, CbWith(m)) /\ Once(z, CbWith(m))
           /\ ~ (Has(before, CbWith(m)) /\ Has(y, CbWith(m)))
           /\ ~ (Has(before, CbWith(m)) /\ Has(z, CbWith(m)))
           /\ ~ (Has(y, CbWith(m)) /\ Has(z, CbWith(m)))
  <2> DEFINE P == CbWith(m)
  <2> HIDE DEF P
  <2>1. /\ v \in Seq(Cb)
        /\ Has(v, P) <=> Has(before, P) \/ Has(y, P) \/ Has(z, P)
        /\ Once(v, P) <=>
             /\ Once(before, P) /\ Once(y, P) /\ Once(z, P)
             /\ ~ (Has(before, P) /\ Has(y, P)) /\ ~ (Has(before, P) /\ Has(z, P)) /\ ~ (Has(y, P) /\ Has(z, P))
    BY <1>3, <1>4, ThreeHas
  <2> QED
    BY <2>1, Zenon DEF P
<1> HIDE DEF v
<1>6. outbufs \in [Brokers -> Seq(Rq)] /\ cbq \in [Brokers -> Seq(Cb)] /\ << >> \in Seq(Rq)
      /\ waitresps \in [Brokers -> Seq(Rq)]
  BY DEF Types
<1>7. outbufs' \in [Brokers -> Seq(Rq)] /\ waitresps' \in [Brokers -> Seq(Rq)]
      /\ cbq' \in [Brokers -> Seq(Cb)] /\ Elsewhere(b)
  BY <1>2, <1>5, <1>6, Zenon DEF Elsewhere
<1>8. outbufs'[b] = << >> /\ waitresps'[b] = << >> /\ cbq'[b] = v
  BY <1>2, <1>6, Zenon
<1>9. /\ ~ Has(outbufs'[b], With(m)) /\ Once(outbufs'[b], With(m))
      /\ ~ Has(waitresps'[b], With(m)) /\ Once(waitresps'[b], With(m))
  BY <1>8, EmptyHas
<1> QED
  BY <1>3, <1>4, <1>5, <1>7, <1>8, <1>9 DEF InOneRequest, InRequest

(* A lost connection.                                                      *)
LEMMA DisconnectKeeps ==
    ASSUME Types, NEW b \in Brokers, NEW m \in Msgs, InOneRequest(b, m), Disconnect(b)
    PROVE  /\ outbufs' \in [Brokers -> Seq(Rq)] /\ waitresps' \in [Brokers -> Seq(Rq)]
           /\ cbq' \in [Brokers -> Seq(Cb)] /\ Elsewhere(b)
           /\ InOneRequest(b, m)' /\ (InRequest(b, m)' <=> InRequest(b, m))
<1>1. << >> \in Seq(Cb) /\ "TRANSPORT" \in {"TIMED_OUT", "TRANSPORT"}
  OBVIOUS
<1>2. outbufs[b] \in Seq(Rq) /\ waitresps[b] \in Seq(Rq)
  BY QueueTypes, Zenon
<1>3. BrokerFail(b, << >>, waitresps[b], outbufs[b], "TRANSPORT") /\ cbq[b] = << >>
  BY Zenon DEF Disconnect, Idle
<1>4. ~ Has(<< >>, CbWith(m)) /\ Once(<< >>, CbWith(m))
  BY EmptyHas, Zenon
<1>5. ~ Has(cbq[b], CbWith(m))
  BY <1>3, <1>4
<1>6. /\ outbufs' \in [Brokers -> Seq(Rq)] /\ waitresps' \in [Brokers -> Seq(Rq)]
      /\ cbq' \in [Brokers -> Seq(Cb)] /\ Elsewhere(b)
      /\ InOneRequest(b, m)' <=>
           /\ Once(<< >>, CbWith(m)) /\ Once(waitresps[b], With(m)) /\ Once(outbufs[b], With(m))
           /\ ~ (Has(<< >>, CbWith(m)) /\ Has(waitresps[b], With(m)))
           /\ ~ (Has(<< >>, CbWith(m)) /\ Has(outbufs[b], With(m)))
           /\ ~ (Has(waitresps[b], With(m)) /\ Has(outbufs[b], With(m)))
      /\ InRequest(b, m)' <=> Has(<< >>, CbWith(m)) \/ Has(waitresps[b], With(m)) \/ Has(outbufs[b], With(m))
  BY <1>1, <1>2, <1>3, FailKeeps, Zenon
<1> QED
  BY <1>4, <1>5, <1>6, Zenon DEF InOneRequest, InRequest

(* Requests that time out, with the connection or without it.              *)
LEMMA TimeoutKeeps ==
    ASSUME Types, NEW b \in Brokers, NEW m \in Msgs, InOneRequest(b, m), RequestTimeout(b)
    PROVE  /\ outbufs' \in [Brokers -> Seq(Rq)] /\ waitresps' \in [Brokers -> Seq(Rq)]
           /\ cbq' \in [Brokers -> Seq(Cb)] /\ Elsewhere(b)
           /\ InOneRequest(b, m)' /\ (InRequest(b, m)' <=> InRequest(b, m))
<1> DEFINE o == outbufs[b]
           w == waitresps[b]
           P == With(m)
           Q == CbWith(m)
<1>1. o \in Seq(Rq) /\ w \in Seq(Rq) /\ cbq[b] = << >>
  BY QueueTypes, Zenon DEF RequestTimeout, Idle
<1>2. PICK n \in 0..Len(w), k \in 0..Len(o) :
        LET expired == Callbacks(SubSeq(w, 1, n), "TIMED_OUT", TRUE)
                         \o Callbacks(SubSeq(o, 1, k), "TIMED_OUT_QUEUE", FALSE)
            wait == SubSeq(w, n + 1, Len(w))
            out == SubSeq(o, k + 1, Len(o)) IN
        \/ BrokerFail(b, expired, wait, out, "TIMED_OUT")
        \/ /\ cbq' = [cbq EXCEPT ![b] = expired]
           /\ waitresps' = [waitresps EXCEPT ![b] = wait]
           /\ outbufs' = [outbufs EXCEPT ![b] = out]
  BY Zenon DEF RequestTimeout
<1> DEFINE w1 == SubSeq(w, 1, n)
           w2 == SubSeq(w, n + 1, Len(w))
           o1 == SubSeq(o, 1, k)
           o2 == SubSeq(o, k + 1, Len(o))
           cw == Callbacks(w1, "TIMED_OUT", TRUE)
           co1 == Callbacks(o1, "TIMED_OUT_QUEUE", FALSE)
           x == cw \o co1
<1>3. \/ BrokerFail(b, x, w2, o2, "TIMED_OUT")
      \/ /\ cbq' = [cbq EXCEPT ![b] = x]
         /\ waitresps' = [waitresps EXCEPT ![b] = w2]
         /\ outbufs' = [outbufs EXCEPT ![b] = o2]
  BY <1>2, Zenon
<1> HIDE DEF P, Q
<1>4. /\ w1 \in Seq(Rq) /\ w2 \in Seq(Rq)
      /\ Has(w, P) <=> Has(w1, P) \/ Has(w2, P)
      /\ Once(w, P) <=> Once(w1, P) /\ Once(w2, P) /\ ~ (Has(w1, P) /\ Has(w2, P))
  BY <1>1, SplitHas, Zenon
<1>5. /\ o1 \in Seq(Rq) /\ o2 \in Seq(Rq)
      /\ Has(o, P) <=> Has(o1, P) \/ Has(o2, P)
      /\ Once(o, P) <=> Once(o1, P) /\ Once(o2, P) /\ ~ (Has(o1, P) /\ Has(o2, P))
  BY <1>1, SplitHas, Zenon
<1>6. {"TIMED_OUT", "TIMED_OUT_QUEUE"} \subseteq Errs /\ "TIMED_OUT" \in {"TIMED_OUT", "TRANSPORT"}
  BY DEF Errs
<1> HIDE DEF w1, w2, o1, o2
<1>7. cw \in Seq(Cb) /\ (Has(cw, Q) <=> Has(w1, P)) /\ (Once(cw, Q) <=> Once(w1, P))
  BY <1>4, <1>6, CallbacksHas, Zenon DEF P, Q
<1>8. co1 \in Seq(Cb) /\ (Has(co1, Q) <=> Has(o1, P)) /\ (Once(co1, Q) <=> Once(o1, P))
  BY <1>5, <1>6, CallbacksHas, Zenon DEF P, Q
<1> HIDE DEF cw, co1
<1>9. /\ x \in Seq(Cb)
      /\ Has(x, Q) <=> Has(cw, Q) \/ Has(co1, Q)
      /\ Once(x, Q) <=> Once(cw, Q) /\ Once(co1, Q) /\ ~ (Has(cw, Q) /\ Has(co1, Q))
  BY <1>7, <1>8, ConcatHas, ZenonT(60)
<1> HIDE DEF x
<1>10. ~ Has(cbq[b], Q)
  BY <1>1, EmptyHas
<1>11. outbufs \in [Brokers -> Seq(Rq)] /\ waitresps \in [Brokers -> Seq(Rq)] /\ cbq \in [Brokers -> Seq(Cb)]
  BY Zenon DEF Types
<1>12. CASE BrokerFail(b, x, w2, o2, "TIMED_OUT")
  <2>1. /\ outbufs' \in [Brokers -> Seq(Rq)] /\ waitresps' \in [Brokers -> Seq(Rq)]
        /\ cbq' \in [Brokers -> Seq(Cb)] /\ Elsewhere(b)
        /\ InOneRequest(b, m)' <=>
             /\ Once(x, Q) /\ Once(w2, P) /\ Once(o2, P)
             /\ ~ (Has(x, Q) /\ Has(w2, P)) /\ ~ (Has(x, Q) /\ Has(o2, P)) /\ ~ (Has(w2, P) /\ Has(o2, P))
        /\ InRequest(b, m)' <=> Has(x, Q) \/ Has(w2, P) \/ Has(o2, P)
    BY <1>4, <1>5, <1>6, <1>9, <1>12, FailKeeps, Zenon DEF P, Q
  <2> QED
    BY <1>4, <1>5, <1>7, <1>8, <1>9, <1>10, <2>1, Zenon DEF InOneRequest, InRequest, P, Q
<1>13. CASE /\ cbq' = [cbq EXCEPT ![b] = x]
            /\ waitresps' = [waitresps EXCEPT ![b] = w2]
            /\ outbufs' = [outbufs EXCEPT ![b] = o2]
  <2>1. /\ outbufs' \in [Brokers -> Seq(Rq)] /\ waitresps' \in [Brokers -> Seq(Rq)]
        /\ cbq' \in [Brokers -> Seq(Cb)] /\ Elsewhere(b)
    BY <1>4, <1>5, <1>9, <1>11, <1>13, Zenon DEF Elsewhere
  <2>2. outbufs'[b] = o2 /\ waitresps'[b] = w2 /\ cbq'[b] = x
    BY <1>11, <1>13, Zenon
  <2> QED
    BY <1>4, <1>5, <1>7, <1>8, <1>9, <1>10, <2>1, <2>2 DEF InOneRequest, InRequest, P, Q
<1> QED
  BY <1>3, <1>12, <1>13, Zenon

-----------------------------------------------------------------------------
(* From requests to messages.                                              *)

(* What a step at broker b means for the requests of all brokers.          *)
LEMMA FlyingStep ==
    ASSUME NEW b \in Brokers, NEW m \in Msgs, Placed(m), Elsewhere(b), InOneRequest(b, m)',
           InRequest(b, m)' => InRequest(b, m) \/ ~ Flying(m)
    PROVE  /\ \A c \in Brokers : InOneRequest(c, m)'
           /\ \A c, d \in Brokers : InRequest(c, m)' /\ InRequest(d, m)' => c = d
           /\ Flying(m)' <=> InRequest(b, m)' \/ (Flying(m) /\ ~ InRequest(b, m))
<1>1. ASSUME NEW c \in Brokers, c # b
      PROVE  /\ InOneRequest(c, m)' <=> InOneRequest(c, m)
             /\ InRequest(c, m)' <=> InRequest(c, m)
  <2>1. outbufs'[c] = outbufs[c] /\ waitresps'[c] = waitresps[c] /\ cbq'[c] = cbq[c]
    BY <1>1, Zenon DEF Elsewhere
  <2> QED
    BY <2>1, Zenon DEF InOneRequest, InRequest
<1>2. \A c \in Brokers : InOneRequest(c, m)'
  BY <1>1, Zenon DEF Placed
<1>3. \A c, d \in Brokers : InRequest(c, m) /\ InRequest(d, m) => c = d
  BY Zenon DEF Placed
<1>4. \A c, d \in Brokers : InRequest(c, m)' /\ InRequest(d, m)' => c = d
  BY <1>1, <1>3, Zenon DEF Flying
<1>5. Flying(m)' <=> InRequest(b, m)' \/ (Flying(m) /\ ~ InRequest(b, m))
  BY <1>1, <1>3, Zenon DEF Flying
<1> QED
  BY <1>2, <1>4, <1>5, Zenon

(* The same without such a step.                                           *)
LEMMA FlyingSame ==
    ASSUME NEW m \in Msgs, Placed(m), UNCHANGED <<outbufs, waitresps, cbq>>
    PROVE  /\ \A c \in Brokers : InOneRequest(c, m)'
           /\ \A c, d \in Brokers : InRequest(c, m)' /\ InRequest(d, m)' => c = d
           /\ Flying(m)' <=> Flying(m)
  BY Zenon DEF Placed, Flying, InOneRequest, InRequest

(* Requests are moved about, and so are messages in the queues.            *)
LEMMA Rearranged ==
    ASSUME Types, \A m \in Msgs : Placed(m), NEW b \in Brokers,
           outbufs' \in [Brokers -> Seq(Rq)], waitresps' \in [Brokers -> Seq(Rq)],
           cbq' \in [Brokers -> Seq(Cb)], Elsewhere(b),
           \A m \in Msgs : InOneRequest(b, m)' /\ (InRequest(b, m)' <=> InRequest(b, m)),
           msgq' \cap xmit_msgq' = {}, msgq' \cup xmit_msgq' = msgq \cup xmit_msgq,
           UNCHANGED <<rktp_msgid, report>>
    PROVE  Types' /\ \A m \in Msgs : Placed(m)'
<1>1. Types'
  <2>1. msgq' \subseteq Msgs /\ xmit_msgq' \subseteq Msgs
    BY Zenon DEF Types
  <2> QED
    BY <2>1, Zenon DEF Types
<1>2. ASSUME NEW m \in Msgs PROVE Placed(m)'
  <2>1. Placed(m) /\ InOneRequest(b, m)' /\ (InRequest(b, m)' <=> InRequest(b, m))
    BY Zenon
  <2>2. /\ \A c \in Brokers : InOneRequest(c, m)'
        /\ \A c, d \in Brokers : InRequest(c, m)' /\ InRequest(d, m)' => c = d
        /\ Flying(m)' <=> InRequest(b, m)' \/ (Flying(m) /\ ~ InRequest(b, m))
    BY <2>1, FlyingStep, Zenon
  <2>3. Flying(m)' <=> Flying(m)
    BY <2>1, <2>2, Zenon DEF Flying
  <2>4. /\ m \in msgq' \/ m \in xmit_msgq' <=> m \in msgq \/ m \in xmit_msgq
        /\ ~ (m \in msgq' /\ m \in xmit_msgq')
    BY Zenon
  <2>5. (Reported(m)' <=> Reported(m)) /\ rktp_msgid' = rktp_msgid
    BY Zenon DEF Reported
  <2> QED
    BY <2>1, <2>2, <2>3, <2>4, <2>5 DEF Placed
<1> QED
  BY <1>1, <1>2, Zenon

(* The same without requests being moved.                                  *)
LEMMA Requeued ==
    ASSUME Types, \A m \in Msgs : Placed(m), UNCHANGED <<outbufs, waitresps, cbq>>,
           msgq' \cap xmit_msgq' = {}, msgq' \cup xmit_msgq' = msgq \cup xmit_msgq,
           UNCHANGED <<rktp_msgid, report>>
    PROVE  Types' /\ \A m \in Msgs : Placed(m)'
<1>1. Types'
  <2>1. msgq' \subseteq Msgs /\ xmit_msgq' \subseteq Msgs
    BY Zenon DEF Types
  <2> QED
    BY <2>1, Zenon DEF Types
<1>2. ASSUME NEW m \in Msgs PROVE Placed(m)'
  <2>1. Placed(m)
    BY Zenon
  <2>2. /\ \A c \in Brokers : InOneRequest(c, m)'
        /\ \A c, d \in Brokers : InRequest(c, m)' /\ InRequest(d, m)' => c = d
        /\ Flying(m)' <=> Flying(m)
    BY <2>1, FlyingSame, Zenon
  <2>3. /\ m \in msgq' \/ m \in xmit_msgq' <=> m \in msgq \/ m \in xmit_msgq
        /\ ~ (m \in msgq' /\ m \in xmit_msgq')
    BY Zenon
  <2>4. (Reported(m)' <=> Reported(m)) /\ rktp_msgid' = rktp_msgid
    BY Zenon DEF Reported
  <2> QED
    BY <2>1, <2>2, <2>3, <2>4 DEF Placed
<1> QED
  BY <1>1, <1>2, Zenon

(* The messages M leave the requests they are in.                          *)
Taken(M) ==
    \A m \in Msgs :
      /\ \A c \in Brokers : InOneRequest(c, m)'
      /\ \A c, d \in Brokers : InRequest(c, m)' /\ InRequest(d, m)' => c = d
      /\ m \in M => Flying(m)
      /\ Flying(m)' <=> Flying(m) /\ m \notin M

(* Some of the messages M go back to the queue, the others are reported,   *)
(* together with some that are in the queues.                              *)
Settle(M, again, acked, how) ==
    /\ acked \subseteq msgq \cup xmit_msgq /\ how \in {"ok", "err", "timed_out"}
    /\ msgq' = (msgq \ acked) \cup again /\ xmit_msgq' = xmit_msgq \ acked
    /\ report' = [m \in Msgs |-> IF m \in (M \ again) \cup acked THEN how ELSE report[m]]

(* Then every message of M is in one place again.                          *)
LEMMA Settled ==
    ASSUME Types, \A m \in Msgs : Placed(m), NEW M \in SUBSET Msgs, NEW again \in SUBSET M,
           NEW acked, NEW how, Settle(M, again, acked, how), UNCHANGED rktp_msgid,
           outbufs' \in [Brokers -> Seq(Rq)], waitresps' \in [Brokers -> Seq(Rq)],
           cbq' \in [Brokers -> Seq(Cb)],
           Taken(M)
    PROVE  Types' /\ \A m \in Msgs : Placed(m)'
<1>1. Types'
  <2>1. msgq \subseteq Msgs /\ xmit_msgq \subseteq Msgs /\ rktp_msgid' \in Nat /\ rktp_msgid' <= MaxMsgs
    BY Zenon DEF Types
  <2>2. msgq' \subseteq Msgs /\ xmit_msgq' \subseteq Msgs
    BY <2>1, Zenon DEF Settle
  <2>3. \A m \in Msgs : report[m] \in {"none", "ok", "err", "timed_out"}
    BY Zenon DEF Types
  <2>4. report' \in [Msgs -> {"none", "ok", "err", "timed_out"}]
    BY <2>3 DEF Settle
  <2> QED
    BY <2>1, <2>2, <2>4, Zenon DEF Types
<1>2. ASSUME NEW m \in Msgs PROVE Placed(m)'
  <2>1. /\ Placed(m)
        /\ \A c \in Brokers : InOneRequest(c, m)'
        /\ \A c, d \in Brokers : InRequest(c, m)' /\ InRequest(d, m)' => c = d
        /\ m \in M => Flying(m)
        /\ Flying(m)' <=> Flying(m) /\ m \notin M
    BY Zenon DEF Taken
  <2>2. report'[m] = IF m \in (M \ again) \cup acked THEN how ELSE report[m]
    BY Zenon DEF Settle
  <2>3. how # "none"
    BY DEF Settle
  <2>4. Reported(m)' <=> Reported(m) \/ m \in M \ again \/ m \in acked
    BY <2>2, <2>3, Zenon DEF Reported
  <2>5. /\ m \in msgq' <=> (m \in msgq /\ m \notin acked) \/ m \in again
        /\ m \in xmit_msgq' <=> m \in xmit_msgq /\ m \notin acked
        /\ m \in acked => m \in msgq \/ m \in xmit_msgq
        /\ m \in again => m \in M
        /\ m \in M \ again <=> m \in M /\ m \notin again
        /\ rktp_msgid' = rktp_msgid
    BY Zenon DEF Settle
  <2>6. \/ ~ (m > rktp_msgid)
        \/ m \notin msgq' /\ m \notin xmit_msgq' /\ ~ Reported(m)' /\ ~ Flying(m)'
    BY <2>1, <2>4, <2>5, Zenon DEF Placed
  <2>7. \/ ~ (m <= rktp_msgid)
        \/ m \in msgq' \/ m \in xmit_msgq' \/ Reported(m)' \/ Flying(m)'
    BY <2>1, <2>4, <2>5, Zenon DEF Placed
  <2>8. ~ (m \in msgq' /\ m \in xmit_msgq') /\ ~ (m \in msgq' /\ Reported(m)')
    BY <2>1, <2>4, <2>5, Zenon DEF Placed
  <2>9. ~ (m \in xmit_msgq' /\ Reported(m)') /\ ~ (Reported(m)' /\ Flying(m)')
    BY <2>1, <2>4, <2>5, Zenon DEF Placed
  <2>10. ~ (m \in msgq' /\ Flying(m)') /\ ~ (m \in xmit_msgq' /\ Flying(m)')
    BY <2>1, <2>5, Zenon DEF Placed
  <2> QED
    BY <2>1, <2>5, <2>6, <2>7, <2>8, <2>9, <2>10 DEF Placed
<1> QED
  BY <1>1, <1>2, Zenon

(* The result of request rq, which thread b has taken from its queues.     *)
LEMMA ResultKeeps ==
    ASSUME Types, \A m \in Msgs : Placed(m), NEW b \in Brokers, NEW rq \in Rq, NEW err, NEW sent,
           ProduceResult(rq, err, sent), UNCHANGED rktp_msgid,
           outbufs' \in [Brokers -> Seq(Rq)], waitresps' \in [Brokers -> Seq(Rq)],
           cbq' \in [Brokers -> Seq(Cb)], Elsewhere(b),
           \A m \in Msgs :
             /\ InOneRequest(b, m)'
             /\ InRequest(b, m) <=> m \in rq.msgs \/ InRequest(b, m)'
             /\ ~ (m \in rq.msgs /\ InRequest(b, m)')
    PROVE  Types' /\ \A m \in Msgs : Placed(m)'
<1>1. PICK M \in SUBSET Msgs : M = rq.msgs
  BY DEF Rq
<1>2. ASSUME NEW m \in Msgs
      PROVE  /\ \A c \in Brokers : InOneRequest(c, m)'
             /\ \A c, d \in Brokers : InRequest(c, m)' /\ InRequest(d, m)' => c = d
             /\ m \in M => Flying(m)
             /\ Flying(m)' <=> Flying(m) /\ m \notin M
  <2>1. /\ Placed(m) /\ InOneRequest(b, m)'
        /\ InRequest(b, m) <=> m \in M \/ InRequest(b, m)'
        /\ ~ (m \in M /\ InRequest(b, m)')
    BY <1>1, Zenon
  <2>2. /\ \A c \in Brokers : InOneRequest(c, m)'
        /\ \A c, d \in Brokers : InRequest(c, m)' /\ InRequest(d, m)' => c = d
        /\ Flying(m)' <=> InRequest(b, m)' \/ (Flying(m) /\ ~ InRequest(b, m))
    BY <2>1, FlyingStep, Zenon
  <2>3. InRequest(b, m) => Flying(m)
    BY Zenon DEF Flying
  <2> QED
    BY <2>1, <2>2, <2>3, Zenon
<1>3. \E again \in SUBSET M : \E acked, how : Settle(M, again, acked, how)
  <2>1. CASE err = "none"
    <3> DEFINE acked == {m \in msgq \cup xmit_msgq : acked_msgid < Min(rq.msgs) - 1 /\ m <= Max(rq.msgs)}
    <3>1. /\ msgq' = msgq \ acked /\ xmit_msgq' = xmit_msgq \ acked
          /\ report' = [m \in Msgs |-> IF m \in M \cup acked THEN "ok" ELSE report[m]]
      BY <1>1, <2>1, Zenon DEF ProduceResult, ProduceSuccess, Report
    <3>2. acked \in SUBSET (msgq \cup xmit_msgq) /\ {} \in SUBSET M
      BY Zenon
    <3> HIDE DEF acked
    <3>3. msgq \ acked = (msgq \ acked) \cup {} /\ M \cup acked = (M \ {}) \cup acked
      OBVIOUS
    <3>4. report' = [m \in Msgs |-> IF m \in (M \ {}) \cup acked THEN "ok" ELSE report[m]]
      BY <3>1, <3>3
    <3>5. msgq' = (msgq \ acked) \cup {} /\ xmit_msgq' = xmit_msgq \ acked
      BY <3>1, <3>3
    <3>6. "ok" \in {"ok", "err", "timed_out"}
      OBVIOUS
    <3>7. Settle(M, {}, acked, "ok")
      BY <3>2, <3>4, <3>5, <3>6, Zenon DEF Settle
    <3> QED
      BY <3>2, <3>7, Zenon
  <2>2. CASE err # "none"
    <3> DEFINE p == ProducePerr(rq, err, sent)
               again == RetryMsgs(rq, p)
               how == IF p.action = "none" THEN "ok" ELSE "err"
    <3>1. /\ msgq' = msgq \cup again /\ xmit_msgq' = xmit_msgq
          /\ report' = [m \in Msgs |-> IF m \notin M \ again THEN report[m] ELSE how]
      BY <1>1, <2>2, Zenon DEF ProduceResult, ProduceError
    <3>2. again \in SUBSET M /\ {} \in SUBSET (msgq \cup xmit_msgq)
      BY <1>1, Zenon DEF RetryMsgs
    <3>3. how \in {"ok", "err", "timed_out"}
      OBVIOUS
    <3> HIDE DEF again, how
    <3>4. msgq' = (msgq \ {}) \cup again /\ xmit_msgq' = xmit_msgq \ {}
      BY <3>1
    <3>5. report' = [m \in Msgs |-> IF m \in (M \ again) \cup {} THEN how ELSE report[m]]
      BY <3>1
    <3>6. Settle(M, again, {}, how)
      BY <3>2, <3>3, <3>4, <3>5, Zenon DEF Settle
    <3> QED
      BY <3>2, <3>6, Zenon
  <2> QED
    BY <2>1, <2>2, Zenon
<1>4. Taken(M)
  BY <1>2, Zenon DEF Taken
<1> QED
  BY <1>3, <1>4, Settled, Zenon

-----------------------------------------------------------------------------
(* The steps.                                                              *)

(* A callback.                                                             *)
LEMMA RunCallbackKeeps ==
    ASSUME Types, \A m \in Msgs : Placed(m), NEW b \in Brokers, RunCallback(b)
    PROVE  Types' /\ \A m \in Msgs : Placed(m)'
<1> DEFINE q == cbq[b]
           c == Head(q)
<1>1. outbufs \in [Brokers -> Seq(Rq)] /\ waitresps \in [Brokers -> Seq(Rq)] /\ cbq \in [Brokers -> Seq(Cb)]
  BY Zenon DEF Types
<1>2. /\ q \in Seq(Cb) /\ q # << >> /\ cbq' = [cbq EXCEPT ![b] = Tail(q)]
      /\ UNCHANGED <<outbufs, waitresps, rktp_msgid>> /\ ProduceResult(c.rq, c.err, c.sent)
  BY <1>1, Zenon DEF RunCallback
<1> HIDE DEF q
<1>3. \A P : /\ c \in Cb /\ Tail(q) \in Seq(Cb)
             /\ Has(q, P) <=> c \in P \/ Has(Tail(q), P)
             /\ Once(q, P) <=> Once(Tail(q), P) /\ ~ (c \in P /\ Has(Tail(q), P))
  BY <1>2, TailHas, Zenon
<1>4. c \in Cb /\ Tail(q) \in Seq(Cb)
  BY <1>3, Zenon
<1> HIDE DEF c
<1>5. c.rq \in Rq
  BY <1>4 DEF Cb
<1>6. /\ cbq' \in [Brokers -> Seq(Cb)] /\ cbq'[b] = Tail(q)
      /\ \A d \in Brokers \ {b} : cbq'[d] = cbq[d]
  BY <1>1, <1>2, <1>4
<1>7. Elsewhere(b)
  BY <1>2, <1>6, Zenon DEF Elsewhere
<1>8. ASSUME NEW m \in Msgs
      PROVE  /\ InOneRequest(b, m)'
             /\ InRequest(b, m) <=> m \in c.rq.msgs \/ InRequest(b, m)'
             /\ ~ (m \in c.rq.msgs /\ InRequest(b, m)')
  <2>1. c \in CbWith(m) <=> m \in c.rq.msgs
    BY <1>4, Zenon DEF CbWith
  <2>2. /\ Has(q, CbWith(m)) <=> m \in c.rq.msgs \/ Has(Tail(q), CbWith(m))
        /\ Once(q, CbWith(m)) <=> Once(Tail(q), CbWith(m)) /\ ~ (m \in c.rq.msgs /\ Has(Tail(q), CbWith(m)))
    BY <1>3, <2>1, Zenon
  <2>3. /\ Has(cbq'[b], CbWith(m)) <=> Has(Tail(q), CbWith(m))
        /\ Once(cbq'[b], CbWith(m)) <=> Once(Tail(q), CbWith(m))
        /\ Has(cbq[b], CbWith(m)) <=> Has(q, CbWith(m))
        /\ Once(cbq[b], CbWith(m)) <=> Once(q, CbWith(m))
    BY <1>6, Zenon DEF q
  <2>4. InOneRequest(b, m)
    BY Zenon DEF Placed
  <2>5. outbufs' = outbufs /\ waitresps' = waitresps
    BY <1>2, Zenon
  <2> QED
    BY <2>2, <2>3, <2>4, <2>5, Zenon DEF InOneRequest, InRequest
<1>9. outbufs' \in [Brokers -> Seq(Rq)] /\ waitresps' \in [Brokers -> Seq(Rq)] /\ UNCHANGED rktp_msgid
  BY <1>1, <1>2, Zenon
<1> QED
  BY <1>2, <1>5, <1>6, <1>7, <1>8, <1>9, ResultKeeps, Zenon

(* A response.                                                             *)
LEMMA ResponseKeeps ==
    ASSUME Types, \A m \in Msgs : Placed(m), NEW b \in Brokers, Response(b)
    PROVE  Types' /\ \A m \in Msgs : Placed(m)'
<1> DEFINE w == waitresps[b]
           a == Head(resp[b])
<1>1. outbufs \in [Brokers -> Seq(Rq)] /\ waitresps \in [Brokers -> Seq(Rq)] /\ cbq \in [Brokers -> Seq(Cb)]
  BY Zenon DEF Types
<1>2. w \in Seq(Rq) /\ UNCHANGED <<outbufs, cbq, rktp_msgid>>
  BY <1>1, Zenon DEF Response
<1>3. \/ UNCHANGED <<msgq, xmit_msgq, report, waitresps>>
      \/ \E i \in DOMAIN w : /\ waitresps' = [waitresps EXCEPT ![b] = RemoveAt(w, i)]
                            /\ ProduceResult(w[i], a.err, TRUE)
  BY Zenon DEF Response, msgVars
<1>4. CASE UNCHANGED <<msgq, xmit_msgq, report, waitresps>>
  <2>1. \A m \in Msgs : ~ (m \in msgq /\ m \in xmit_msgq)
    BY Zenon DEF Placed
  <2>2. msgq \subseteq Msgs
    BY Zenon DEF Types
  <2>3. msgq' \cap xmit_msgq' = {} /\ msgq' \cup xmit_msgq' = msgq \cup xmit_msgq
    BY <1>4, <2>1, <2>2
  <2>4. UNCHANGED <<outbufs, waitresps, cbq>> /\ UNCHANGED <<rktp_msgid, report>>
    BY <1>2, <1>4, ZenonT(60)
  <2> QED
    BY <2>3, <2>4, Requeued, Zenon
<1>5. ASSUME NEW i \in DOMAIN w, waitresps' = [waitresps EXCEPT ![b] = RemoveAt(w, i)],
             ProduceResult(w[i], a.err, TRUE)
      PROVE  Types' /\ \A m \in Msgs : Placed(m)'
  <2> DEFINE r == RemoveAt(w, i)
             rq == w[i]
  <2> HIDE DEF w, a
  <2>1. \A P : /\ rq \in Rq /\ r \in Seq(Rq)
               /\ Has(w, P) <=> rq \in P \/ Has(r, P)
               /\ Once(w, P) <=> Once(r, P) /\ ~ (rq \in P /\ Has(r, P))
    BY <1>2, RemoveHas, Zenon
  <2>2. rq \in Rq /\ r \in Seq(Rq)
    BY <2>1, Zenon
  <2> HIDE DEF r
  <2>3. waitresps' = [waitresps EXCEPT ![b] = r]
    BY <1>5, Zenon DEF r
  <2>4. /\ waitresps' \in [Brokers -> Seq(Rq)] /\ waitresps'[b] = r
        /\ \A d \in Brokers \ {b} : waitresps'[d] = waitresps[d]
    BY <1>1, <2>2, <2>3
  <2>5. Elsewhere(b)
    BY <1>2, <2>4, Zenon DEF Elsewhere
  <2>6. ProduceResult(rq, a.err, TRUE)
    BY <1>5, Zenon
  <2> HIDE DEF rq
  <2>7. ASSUME NEW m \in Msgs
        PROVE  /\ InOneRequest(b, m)'
               /\ InRequest(b, m) <=> m \in rq.msgs \/ InRequest(b, m)'
               /\ ~ (m \in rq.msgs /\ InRequest(b, m)')
    <3>1. rq \in With(m) <=> m \in rq.msgs
      BY <2>2, Zenon DEF With
    <3>2. /\ Has(w, With(m)) <=> m \in rq.msgs \/ Has(r, With(m))
          /\ Once(w, With(m)) <=> Once(r, With(m)) /\ ~ (m \in rq.msgs /\ Has(r, With(m)))
      BY <2>1, <3>1, Zenon
    <3>3. /\ Has(waitresps'[b], With(m)) <=> Has(r, With(m))
          /\ Once(waitresps'[b], With(m)) <=> Once(r, With(m))
          /\ Has(waitresps[b], With(m)) <=> Has(w, With(m))
          /\ Once(waitresps[b], With(m)) <=> Once(w, With(m))
      BY <2>4, Zenon DEF w
    <3>4. InOneRequest(b, m)
      BY Zenon DEF Placed
    <3>5. outbufs' = outbufs /\ cbq' = cbq
      BY <1>2, Zenon
    <3> QED
      BY <3>2, <3>3, <3>4, <3>5, Zenon DEF InOneRequest, InRequest
  <2>8. outbufs' \in [Brokers -> Seq(Rq)] /\ cbq' \in [Brokers -> Seq(Cb)] /\ UNCHANGED rktp_msgid
    BY <1>1, <1>2, Zenon
  <2> QED
    BY <2>2, <2>4, <2>5, <2>6, <2>7, <2>8, ResultKeeps, Zenon
<1> QED
  BY <1>3, <1>4, <1>5, Zenon

(* A new request.                                                          *)
LEMMA ProduceRequestKeeps ==
    ASSUME Counters, Minima, Types, \A m \in Msgs : Placed(m), NEW b \in Brokers, ProduceRequest(b)
    PROVE  Types' /\ \A m \in Msgs : Placed(m)'
<1>1. /\ outbufs \in [Brokers -> Seq(Rq)] /\ waitresps \in [Brokers -> Seq(Rq)]
      /\ cbq \in [Brokers -> Seq(Cb)] /\ xmit_msgq \subseteq Msgs /\ msgq \subseteq Msgs
  BY Zenon DEF Types
<1>2. UNCHANGED <<waitresps, cbq, rktp_msgid, msgq, report>> /\ xmit_msgq # {}
  BY Zenon DEF ProduceRequest, msgVars
<1>3. \A m \in Msgs : ~ (m \in msgq /\ m \in xmit_msgq)
  BY Zenon DEF Placed
<1>4. CASE UNCHANGED <<outbufs, xmit_msgq>>
  <2>1. msgq' \cap xmit_msgq' = {} /\ msgq' \cup xmit_msgq' = msgq \cup xmit_msgq
    BY <1>1, <1>2, <1>3, <1>4
  <2>2. UNCHANGED <<outbufs, waitresps, cbq>> /\ UNCHANGED <<rktp_msgid, report>>
    BY <1>2, <1>4, Zenon
  <2> QED
    BY <2>1, <2>2, Requeued, Zenon
<1>5. ASSUME NEW n,
             outbufs' = [outbufs EXCEPT ![b] = Append(@,
               [id |-> nreq, pid |-> toppar_pid, first_seq |-> FirstSeq(Min(xmit_msgq)), msgs |-> FirstMsgs(n)])],
             xmit_msgq' = xmit_msgq \ FirstMsgs(n)
      PROVE  Types' /\ \A m \in Msgs : Placed(m)'
  <2> DEFINE o == outbufs[b]
             M == FirstMsgs(n)
             rq == [id |-> nreq, pid |-> toppar_pid, first_seq |-> FirstSeq(Min(xmit_msgq)), msgs |-> M]
             r == Append(o, rq)
  <2>1. M \subseteq xmit_msgq
    BY Zenon DEF FirstMsgs
  <2>2. xmit_msgq' = xmit_msgq \ M
    BY <1>5, Zenon
  <2>3. o \in Seq(Rq)
    BY <1>1, Zenon
  <2>4. outbufs' = [outbufs EXCEPT ![b] = r]
    BY <1>5, Zenon
  <2> HIDE DEF M
  <2>5. FirstSeq(Min(xmit_msgq)) \in Nat
    <3>1. Min(xmit_msgq) \in Msgs
      BY <1>1, <1>2, Zenon DEF Minima
    <3>2. SeqMax \in Nat /\ base_msgid \in Nat
      BY IdempotentProducerAssumption DEF Counters
    <3> QED
      BY <3>1, <3>2 DEF FirstSeq, SeqWrap, Msgs
  <2>6. rq \in Rq /\ rq.msgs = M
    BY <1>1, <2>1, <2>5 DEF Rq, Counters
  <2> HIDE DEF o, rq
  <2>7. \A P : /\ r \in Seq(Rq)
               /\ Has(r, P) <=> Has(o, P) \/ rq \in P
               /\ Once(r, P) <=> Once(o, P) /\ ~ (Has(o, P) /\ rq \in P)
    BY <2>3, <2>6, AppendHas, Zenon
  <2>8. r \in Seq(Rq)
    BY <2>7, Zenon
  <2> HIDE DEF r
  <2>9. /\ outbufs' \in [Brokers -> Seq(Rq)] /\ outbufs'[b] = r
        /\ \A d \in Brokers \ {b} : outbufs'[d] = outbufs[d]
    BY <1>1, <2>4, <2>8
  <2>10. Elsewhere(b)
    BY <1>2, <2>9, Zenon DEF Elsewhere
  <2>11. Types'
    <3>1. xmit_msgq' \subseteq Msgs
      BY <1>1, <2>2, Zenon
    <3> QED
      BY <1>2, <2>9, <3>1, Zenon DEF Types
  <2>12. ASSUME NEW m \in Msgs PROVE Placed(m)'
    <3>1. rq \in With(m) <=> m \in M
      BY <2>6, Zenon DEF With
    <3>2. /\ Has(outbufs'[b], With(m)) <=> Has(outbufs[b], With(m)) \/ m \in M
          /\ Once(outbufs'[b], With(m)) <=>
               Once(outbufs[b], With(m)) /\ ~ (Has(outbufs[b], With(m)) /\ m \in M)
      BY <2>7, <2>9, <3>1, Zenon DEF o
    <3>3. Placed(m) /\ InOneRequest(b, m) /\ (InRequest(b, m) => Flying(m))
      BY Zenon DEF Placed, Flying
    <3>4. m \in M => m \in xmit_msgq /\ ~ Flying(m)
      BY <2>1, <3>3, Zenon DEF Placed
    <3>5. waitresps' = waitresps /\ cbq' = cbq
      BY <1>2, Zenon
    <3>6. InRequest(b, m)' <=> InRequest(b, m) \/ m \in M
      BY <3>2, <3>5, Zenon DEF InRequest
    <3>7. InOneRequest(b, m)'
      BY <3>2, <3>3, <3>4, <3>5, Zenon DEF InOneRequest, InRequest
    <3>8. /\ \A c \in Brokers : InOneRequest(c, m)'
          /\ \A c, d \in Brokers : InRequest(c, m)' /\ InRequest(d, m)' => c = d
          /\ Flying(m)' <=> InRequest(b, m)' \/ (Flying(m) /\ ~ InRequest(b, m))
      BY <2>10, <3>3, <3>4, <3>6, <3>7, FlyingStep, Zenon
    <3>9. Flying(m)' <=> Flying(m) \/ m \in M
      BY <3>3, <3>6, <3>8, Zenon
    <3>10. /\ m \in xmit_msgq' <=> m \in xmit_msgq /\ m \notin M
           /\ m \in msgq' <=> m \in msgq
           /\ Reported(m)' <=> Reported(m)
           /\ rktp_msgid' = rktp_msgid
      BY <1>2, <2>2, Zenon DEF Reported
    <3> QED
      BY <3>3, <3>4, <3>8, <3>9, <3>10 DEF Placed
  <2> QED
    BY <2>11, <2>12, Zenon
<1> QED
  BY <1>4, <1>5, Zenon DEF ProduceRequest

(* A message is produced.                                                  *)
LEMMA ProduceKeeps ==
    ASSUME Counters, Types, \A m \in Msgs : Placed(m), Produce
    PROVE  Types' /\ \A m \in Msgs : Placed(m)'
<1>1. /\ rktp_msgid \in Nat /\ rktp_msgid < faults.msgs /\ rktp_msgid' = rktp_msgid + 1
      /\ msgq' = msgq \cup {rktp_msgid'}
      /\ UNCHANGED <<xmit_msgq, report, outbufs, waitresps, cbq>>
  BY Zenon DEF Produce, Types, msgVars
<1>2. faults.msgs \in 0..MaxMsgs /\ MaxMsgs \in Nat
  BY IdempotentProducerAssumption DEF Counters
<1>3. rktp_msgid' \in Msgs /\ rktp_msgid' \in Nat /\ rktp_msgid' <= MaxMsgs
  BY <1>1, <1>2 DEF Msgs
<1>4. Types'
  BY <1>1, <1>3, Zenon DEF Types
<1>5. ASSUME NEW m \in Msgs PROVE Placed(m)'
  <2>1. Placed(m)
    BY Zenon
  <2>2. UNCHANGED <<outbufs, waitresps, cbq>>
    BY <1>1, Zenon
  <2>3. /\ \A c \in Brokers : InOneRequest(c, m)'
        /\ \A c, d \in Brokers : InRequest(c, m)' /\ InRequest(d, m)' => c = d
        /\ Flying(m)' <=> Flying(m)
    BY <2>1, <2>2, FlyingSame, Zenon
  <2>4. /\ m \in msgq' <=> m \in msgq \/ m = rktp_msgid'
        /\ xmit_msgq' = xmit_msgq /\ (Reported(m)' <=> Reported(m))
    BY <1>1, Zenon DEF Reported
  <2>5. m \in Nat
    BY <1>2 DEF Msgs
  <2>6. /\ m > rktp_msgid' => m > rktp_msgid
        /\ m > rktp_msgid' => m # rktp_msgid'
        /\ m <= rktp_msgid' => m <= rktp_msgid \/ m = rktp_msgid'
        /\ m = rktp_msgid' => m > rktp_msgid
    BY <1>1, <2>5
  <2>7. \/ ~ (m > rktp_msgid')
        \/ m \notin msgq' /\ m \notin xmit_msgq' /\ ~ Reported(m)' /\ ~ Flying(m)'
    BY <2>1, <2>3, <2>4, <2>6, Zenon DEF Placed
  <2>8. \/ ~ (m <= rktp_msgid')
        \/ m \in msgq' \/ m \in xmit_msgq' \/ Reported(m)' \/ Flying(m)'
    BY <2>1, <2>3, <2>4, <2>6, Zenon DEF Placed
  <2>9. /\ ~ (m \in msgq' /\ m \in xmit_msgq')
        /\ ~ (m \in msgq' /\ Reported(m)') /\ ~ (m \in xmit_msgq' /\ Reported(m)')
        /\ ~ (m \in msgq' /\ Flying(m)') /\ ~ (m \in xmit_msgq' /\ Flying(m)')
        /\ ~ (Reported(m)' /\ Flying(m)')
    BY <2>1, <2>3, <2>4, <2>6, Zenon DEF Placed
  <2> QED
    BY <2>3, <2>7, <2>8, <2>9, Zenon DEF Placed
<1> QED
  BY <1>4, <1>5, Zenon

(* Messages time out in the queues.                                        *)
LEMMA TimeoutScanKeeps ==
    ASSUME Types, \A m \in Msgs : Placed(m), NEW b \in Brokers, TimeoutScan(b)
    PROVE  Types' /\ \A m \in Msgs : Placed(m)'
<1>1. UNCHANGED rktp_msgid /\ UNCHANGED <<outbufs, waitresps, cbq>>
  BY Zenon DEF TimeoutScan
<1>2. PICK k : LET expired == {m \in msgq \cup xmit_msgq : m <= k} IN
        /\ msgq' = msgq \ expired /\ xmit_msgq' = xmit_msgq \ expired
        /\ report' = [m \in Msgs |-> IF m \in expired THEN "timed_out" ELSE report[m]]
  BY Zenon DEF TimeoutScan
<1> DEFINE expired == {m \in msgq \cup xmit_msgq : m <= k}
<1>3. /\ msgq' = msgq \ expired /\ xmit_msgq' = xmit_msgq \ expired
      /\ report' = [m \in Msgs |-> IF m \in expired THEN "timed_out" ELSE report[m]]
      /\ expired \subseteq msgq \cup xmit_msgq
  BY <1>2, Zenon
<1> HIDE DEF expired
<1>4. /\ msgq' = (msgq \ expired) \cup {}
      /\ report' = [m \in Msgs |-> IF m \in ({} \ {}) \cup expired THEN "timed_out" ELSE report[m]]
      /\ "timed_out" \in {"ok", "err", "timed_out"}
  BY <1>3
<1>5. Settle({}, {}, expired, "timed_out")
  BY <1>3, <1>4, Zenon DEF Settle
<1>6. ASSUME NEW m \in Msgs
      PROVE  /\ \A c \in Brokers : InOneRequest(c, m)'
             /\ \A c, d \in Brokers : InRequest(c, m)' /\ InRequest(d, m)' => c = d
             /\ Flying(m)' <=> Flying(m)
  BY <1>1, FlyingSame, Zenon
<1>7. Taken({})
  BY <1>6, Zenon DEF Taken
<1>8. /\ {} \in SUBSET Msgs /\ {} \in SUBSET {}
      /\ outbufs' \in [Brokers -> Seq(Rq)] /\ waitresps' \in [Brokers -> Seq(Rq)]
      /\ cbq' \in [Brokers -> Seq(Cb)]
  BY <1>1, Zenon DEF Types
<1> QED
  BY <1>1, <1>5, <1>7, <1>8, Settled, Zenon

(* The steps that only move messages between the queues of the partition,  *)
(* or requests between those of a broker thread, or neither.               *)
LEMMA MovesKeep ==
    ASSUME Types, \A m \in Msgs : Placed(m), NEW b \in Brokers,
           \/ ServeMove(b) \/ ServeXmit(b) \/ SendRequest(b) \/ RequestTimeout(b) \/ Disconnect(b)
           \/ PartitionLeave(b)
    PROVE  Types' /\ \A m \in Msgs : Placed(m)'
<1>1. /\ outbufs \in [Brokers -> Seq(Rq)] /\ waitresps \in [Brokers -> Seq(Rq)]
      /\ cbq \in [Brokers -> Seq(Cb)] /\ msgq \subseteq Msgs
  BY Zenon DEF Types
<1>2. \A m \in Msgs : InOneRequest(b, m) /\ ~ (m \in msgq /\ m \in xmit_msgq)
  BY Zenon DEF Placed
<1>3. UNCHANGED <<rktp_msgid, report>>
  BY Zenon DEF ServeMove, ServeXmit, SendRequest, RequestTimeout, Disconnect, PartitionLeave, msgVars
<1>4. msgq' \cap xmit_msgq' = {} /\ msgq' \cup xmit_msgq' = msgq \cup xmit_msgq
  <2>1. CASE ServeMove(b)
    <3>1. PICK S \in {msgq, {}} : msgq' = msgq \ S /\ xmit_msgq' = xmit_msgq \cup S
      BY <2>1 DEF ServeMove, ServeMoved
    <3> QED
      BY <1>1, <1>2, <3>1
  <2>2. CASE UNCHANGED <<msgq, xmit_msgq>>
    BY <1>1, <1>2, <2>2
  <2> QED
    BY <2>1, <2>2, Zenon DEF ServeXmit, SendRequest, RequestTimeout, Disconnect, PartitionLeave
<1>5. \/ UNCHANGED <<outbufs, waitresps, cbq>>
      \/ Purge(b) /\ UNCHANGED waitresps
      \/ SendRequest(b) /\ UNCHANGED cbq
      \/ RequestTimeout(b)
      \/ Disconnect(b)
  BY Zenon DEF ServeMove, ServeXmit, SendRequest, PartitionLeave
<1>6. CASE UNCHANGED <<outbufs, waitresps, cbq>>
  BY <1>3, <1>4, <1>6, Requeued, Zenon
<1>7. CASE ~ UNCHANGED <<outbufs, waitresps, cbq>>
  <2>1. ASSUME NEW m \in Msgs
        PROVE  /\ outbufs' \in [Brokers -> Seq(Rq)] /\ waitresps' \in [Brokers -> Seq(Rq)]
               /\ cbq' \in [Brokers -> Seq(Cb)] /\ Elsewhere(b)
               /\ InOneRequest(b, m)' /\ (InRequest(b, m)' <=> InRequest(b, m))
    <3>1. CASE Purge(b) /\ UNCHANGED waitresps
      BY <1>1, <1>2, <3>1, PurgeKeeps, Zenon
    <3>2. CASE SendRequest(b) /\ UNCHANGED cbq
      BY <1>1, <1>2, <3>2, SendKeeps, Zenon
    <3>3. CASE RequestTimeout(b)
      BY <1>2, <3>3, TimeoutKeeps, Zenon
    <3>4. CASE Disconnect(b)
      BY <1>2, <3>4, DisconnectKeeps, Zenon
    <3> QED
      BY <1>5, <1>7, <3>1, <3>2, <3>3, <3>4, Zenon
  <2>2. 1 \in Msgs
    BY IdempotentProducerAssumption DEF Msgs
  <2>3. /\ outbufs' \in [Brokers -> Seq(Rq)] /\ waitresps' \in [Brokers -> Seq(Rq)]
        /\ cbq' \in [Brokers -> Seq(Cb)] /\ Elsewhere(b)
    BY <2>1, <2>2, Zenon
  <2>4. \A m \in Msgs : InOneRequest(b, m)' /\ (InRequest(b, m)' <=> InRequest(b, m))
    BY <2>1, Zenon
  <2> QED
    BY <1>3, <1>4, <2>3, <2>4, Rearranged, Zenon
<1> QED
  BY <1>6, <1>7, Zenon

(* The other steps.                                                        *)
LEMMA OthersKeep ==
    ASSUME Types, \A m \in Msgs : Placed(m), NEW b,
           \/ DrainDone \/ OtherDrain \/ Migrate \/ Election \/ BrokerHandle(b) \/ ZombieHandle(b)
           \/ ProduceEnd(b) \/ PartitionLeft(b) \/ PartitionJoin(b)
           \/ UNCHANGED vars
    PROVE  Types' /\ \A m \in Msgs : Placed(m)'
<1>1. \A m \in Msgs : ~ (m \in msgq /\ m \in xmit_msgq)
  BY Zenon DEF Placed
<1>2. msgq \subseteq Msgs
  BY Zenon DEF Types
<1>3. UNCHANGED <<outbufs, waitresps, cbq>> /\ UNCHANGED <<rktp_msgid, report>>
  BY Zenon DEF DrainDone, OtherDrain, Migrate, Election, BrokerHandle, ZombieHandle, ProduceEnd,
       PartitionLeft, PartitionJoin, vars, msgVars, clientVars
<1>4. UNCHANGED <<msgq, xmit_msgq>> \/ (msgq' = msgq \cup xmit_msgq /\ xmit_msgq' = {})
  BY Zenon DEF DrainDone, OtherDrain, Migrate, Election, BrokerHandle, ZombieHandle, ProduceEnd,
       PartitionLeft, PartitionJoin, vars, msgVars, clientVars
<1>5. msgq' \cap xmit_msgq' = {} /\ msgq' \cup xmit_msgq' = msgq \cup xmit_msgq
  BY <1>1, <1>2, <1>4
<1> QED
  BY <1>3, <1>5, Requeued, Zenon

(* How a step changes the counters.                                        *)
Counted ==
    /\ UNCHANGED faults \/ Fault
    /\ pid' = pid \/ pid' = pid + 1
    /\ nreq' = nreq \/ nreq' = nreq + 1
    /\ \/ UNCHANGED serve_pid
       \/ \E b \in Brokers, p \in {0, pid} : serve_pid' = [serve_pid EXCEPT ![b] = p]
    /\ \/ UNCHANGED <<toppar_pid, base_msgid>>
       \/ \E b \in Brokers : toppar_pid' = serve_pid[b] /\ base_msgid' = Min(xmit_msgq) /\ xmit_msgq # {}

(* Every step changes them like that.                                      *)
LEMMA StepCounted ==
    ASSUME [Next]_vars
    PROVE  Counted
<1>1. CASE Produce
  BY <1>1, Zenon DEF Produce, rkVars, epochVars, Counted
<1>2. CASE DrainDone
  BY <1>2, Zenon DEF DrainDone, rkVars, epochVars, Counted
<1>3. CASE OtherDrain
  BY <1>3, Zenon DEF OtherDrain, rkVars, epochVars, Counted
<1>4. CASE Migrate
  BY <1>4, Zenon DEF Migrate, rkVars, epochVars, Counted
<1>5. CASE Election
  BY <1>5, Zenon DEF Election, clientVars, rkVars, epochVars, Counted
<1>6. CASE UNCHANGED vars
  BY <1>6, Zenon DEF vars, rkVars, epochVars, Counted
<1>7. ASSUME NEW b \in Brokers, Thread(b) PROVE Counted
  <2>1. CASE TimeoutScan(b)
    BY <2>1, Zenon DEF TimeoutScan, rkVars, epochVars, Counted
  <2>2. CASE ServeMove(b)
    BY <2>2, Zenon DEF ServeMove, rkVars, epochVars, Counted
  <2>3. CASE ServeXmit(b)
    BY <2>3, Zenon DEF ServeXmit, PidChange, rkVars, epochVars, Counted
  <2>4. CASE ProduceRequest(b)
    BY <2>4, Zenon DEF ProduceRequest, rkVars, epochVars, Counted
  <2>5. CASE ProduceEnd(b)
    BY <2>5, Zenon DEF ProduceEnd, rkVars, epochVars, Counted
  <2>6. CASE SendRequest(b)
    BY <2>6, Zenon DEF SendRequest, rkVars, epochVars, Counted
  <2>7. CASE RunCallback(b)
    BY <2>7, Zenon DEF RunCallback, rkVars, epochVars, Counted
  <2>8. CASE Response(b)
    BY <2>8, Zenon DEF Response, rkVars, epochVars, Counted
  <2>9. CASE RequestTimeout(b)
    BY <2>9, Zenon DEF RequestTimeout, rkVars, epochVars, Counted
  <2>10. CASE Disconnect(b)
    BY <2>10, Zenon DEF Disconnect, rkVars, epochVars, Counted
  <2>11. CASE PartitionLeave(b)
    BY <2>11, Zenon DEF PartitionLeave, rkVars, epochVars, Counted
  <2>12. CASE PartitionLeft(b)
    BY <2>12, Zenon DEF PartitionLeft, rkVars, epochVars, Counted
  <2>13. CASE PartitionJoin(b)
    BY <2>13, Zenon DEF PartitionJoin, rkVars, epochVars, Counted
  <2> QED
    BY <1>7, <2>1, <2>2, <2>3, <2>4, <2>5, <2>6, <2>7, <2>8, <2>9, <2>10, <2>11, <2>12, <2>13, Zenon DEF Thread
<1>8. ASSUME NEW b \in Brokers, BrokerHandle(b) PROVE Counted
  BY <1>8, Zenon DEF BrokerHandle, KafkaHandle, clientVars, rkVars, epochVars, Counted
<1>9. ASSUME NEW b \in Brokers, ZombieHandle(b) PROVE Counted
  BY <1>9, Zenon DEF ZombieHandle, KafkaHandle, clientVars, rkVars, epochVars, Counted
<1> QED
  BY <1>1, <1>2, <1>3, <1>4, <1>5, <1>6, <1>7, <1>8, <1>9, Zenon DEF Next

(* The counters keep their types.                                          *)
LEMMA CountersKeep ==
    ASSUME Counters, Types, Minima, [Next]_vars
    PROVE  Counters'
<1>1. Counted
  BY StepCounted, Zenon
<1>2. faults' \in [msgs : 0..MaxMsgs, budget : Nat, elections : BOOLEAN, drains : BOOLEAN]
  <2>1. ASSUME Fault PROVE faults' \in [msgs : 0..MaxMsgs, budget : Nat, elections : BOOLEAN, drains : BOOLEAN]
    BY <2>1 DEF Fault, Counters
  <2> QED
    BY <1>1, <2>1, Zenon DEF Counters, Counted
<1>3. pid' \in Nat /\ nreq' \in Nat
  BY <1>1 DEF Counters, Counted
<1>4. serve_pid' \in [Brokers -> Nat]
  BY <1>1 DEF Counters, Counted
<1>5. xmit_msgq # {} => Min(xmit_msgq) \in Nat
  <2>1. xmit_msgq # {} => Min(xmit_msgq) \in Msgs
    BY Zenon DEF Minima, Types
  <2>2. MaxMsgs \in Nat
    BY IdempotentProducerAssumption
  <2> QED
    BY <2>1, <2>2 DEF Msgs
<1>6. toppar_pid' \in Nat /\ base_msgid' \in Nat
  BY <1>1, <1>5, Zenon DEF Counters, Counted
<1> QED
  BY <1>2, <1>3, <1>4, <1>6, Zenon DEF Counters

(* The invariant is inductive.                                             *)
LEMMA Inductive ==
    ASSUME IndInv, Minima, [Next]_vars
    PROVE  IndInv'
<1>1. Counters'
  BY CountersKeep, Zenon DEF IndInv
<1>2. Counters /\ Types /\ \A m \in Msgs : Placed(m)
  BY Zenon DEF IndInv
<1>3. Types' /\ \A m \in Msgs : Placed(m)'
  <2>1. CASE Produce
    BY <1>2, <2>1, ProduceKeeps, Zenon
  <2>2. CASE DrainDone \/ OtherDrain \/ Migrate \/ Election \/ UNCHANGED vars
    BY <1>2, <2>2, OthersKeep, Zenon
  <2>3. ASSUME NEW b \in Brokers, Thread(b) PROVE Types' /\ \A m \in Msgs : Placed(m)'
    <3>1. CASE TimeoutScan(b)
      BY <1>2, <3>1, TimeoutScanKeeps, Zenon
    <3>2. CASE ProduceRequest(b)
      BY <1>2, <3>2, ProduceRequestKeeps, Zenon
    <3>3. CASE RunCallback(b)
      BY <1>2, <3>3, RunCallbackKeeps, Zenon
    <3>4. CASE Response(b)
      BY <1>2, <3>4, ResponseKeeps, Zenon
    <3>5. CASE \/ ServeMove(b) \/ ServeXmit(b) \/ SendRequest(b) \/ RequestTimeout(b) \/ Disconnect(b)
               \/ PartitionLeave(b)
      BY <1>2, <3>5, MovesKeep, Zenon
    <3>6. CASE ProduceEnd(b) \/ PartitionLeft(b) \/ PartitionJoin(b)
      BY <1>2, <3>6, OthersKeep, Zenon
    <3> QED
      BY <2>3, <3>1, <3>2, <3>3, <3>4, <3>5, <3>6, Zenon DEF Thread
  <2>4. ASSUME NEW b \in Brokers, BrokerHandle(b) \/ ZombieHandle(b)
        PROVE  Types' /\ \A m \in Msgs : Placed(m)'
    BY <1>2, <2>4, OthersKeep, Zenon
  <2> QED
    BY <2>1, <2>2, <2>3, <2>4, Zenon DEF Next
<1> QED
  BY <1>1, <1>3, Zenon DEF IndInv

(* It holds at the start.                                                  *)
LEMMA Initially ==
    ASSUME Init
    PROVE  IndInv
<1>1. Counters
  <2>1. faults \in [msgs : 0..MaxMsgs, budget : Nat, elections : BOOLEAN, drains : BOOLEAN]
    BY IdempotentProducerAssumption, Zenon DEF Init
  <2>2. pid = 1 /\ toppar_pid = 0 /\ base_msgid = 0 /\ nreq = 0 /\ serve_pid = [b \in Brokers |-> 0]
    BY Zenon DEF Init, Each
  <2> QED
    BY <2>1, <2>2 DEF Counters
<1>2. /\ outbufs = [b \in Brokers |-> << >>] /\ waitresps = [b \in Brokers |-> << >>]
      /\ cbq = [b \in Brokers |-> << >>]
      /\ rktp_msgid = 0 /\ msgq = {} /\ xmit_msgq = {} /\ report = [m \in Msgs |-> "none"]
  BY Zenon DEF Init, Each
<1>3. << >> \in Seq(Rq) /\ << >> \in Seq(Cb) /\ MaxMsgs \in Nat
  BY IdempotentProducerAssumption
<1>4. Types
  BY <1>2, <1>3 DEF Types
<1>5. ASSUME NEW m \in Msgs PROVE Placed(m)
  <2>1. \A b \in Brokers : outbufs[b] = << >> /\ waitresps[b] = << >> /\ cbq[b] = << >>
    BY <1>2, Zenon
  <2>2. ASSUME NEW b \in Brokers PROVE InOneRequest(b, m) /\ ~ InRequest(b, m)
    BY <2>1, EmptyHas, Zenon DEF InOneRequest, InRequest
  <2>3. ~ Flying(m)
    BY <2>2, Zenon DEF Flying
  <2>4. m \notin msgq /\ m \notin xmit_msgq /\ ~ Reported(m)
    BY <1>2, Zenon DEF Reported
  <2>5. ~ (m <= rktp_msgid)
    BY <1>2, <1>3 DEF Msgs
  <2> QED
    BY <2>2, <2>3, <2>4, <2>5, Zenon DEF Placed
<1> QED
  BY <1>1, <1>4, <1>5, Zenon DEF IndInv

-----------------------------------------------------------------------------
(* What the invariant says of MessageConserved.                            *)

(* Where thread b may have a request.                                      *)
InOut(b, rq) == \E i \in DOMAIN outbufs[b] : rq = outbufs[b][i]
InWait(b, rq) == \E i \in DOMAIN waitresps[b] : rq = waitresps[b][i]
InCb(b, rq) == \E i \in DOMAIN cbq[b] : rq = cbq[b][i].rq

(* A request whose callback has not run is in a queue of a broker thread.  *)
LEMMA OutstandingPlaces ==
    ASSUME NEW rq
    PROVE  rq \in Outstanding <=> \E b \in Brokers : InOut(b, rq) \/ InWait(b, rq) \/ InCb(b, rq)
<1>1. \A b : rq \in Range(outbufs[b]) <=> InOut(b, rq)
  BY Zenon DEF Range, InOut
<1>2. \A b : rq \in Range(waitresps[b]) <=> InWait(b, rq)
  BY Zenon DEF Range, InWait
<1>3. \A b : rq \in {c.rq : c \in Range(cbq[b])} <=> InCb(b, rq)
  BY Zenon DEF Range, InCb
<1> DEFINE C(b) == {c.rq : c \in Range(cbq[b])}
           Q(b) == Range(outbufs[b]) \cup Range(waitresps[b]) \cup C(b)
<1>4. Outstanding = UNION {Q(b) : b \in Brokers}
  BY Zenon DEF Outstanding
<1> HIDE DEF C
<1>5. \A b : rq \in Q(b) <=> InOut(b, rq) \/ InWait(b, rq) \/ InCb(b, rq)
  <2>1. \A b : rq \in C(b) <=> InCb(b, rq)
    BY <1>3, Zenon DEF C
  <2> QED
    BY <1>1, <1>2, <2>1, Zenon
<1> HIDE DEF Q
<1>6. rq \in Outstanding <=> \E b \in Brokers : rq \in Q(b)
  BY <1>4, Zenon
<1> QED
  BY <1>5, <1>6, Zenon

(* One with message m means the message is in flight, and there is one.    *)
LEMMA OneOutstanding ==
    ASSUME Types, NEW m \in Msgs, Placed(m)
    PROVE  LET reqs == {rq \in Outstanding : m \in rq.msgs} IN
           /\ ~ Flying(m) => reqs = {}
           /\ Flying(m) => \E rq : reqs = {rq}
<1> DEFINE reqs == {rq \in Outstanding : m \in rq.msgs}
<1>1. \A rq : rq \in reqs <=> m \in rq.msgs /\ \E b \in Brokers : InOut(b, rq) \/ InWait(b, rq) \/ InCb(b, rq)
  BY OutstandingPlaces, Zenon
<1>2. ASSUME NEW b \in Brokers
      PROVE  /\ \A i \in DOMAIN outbufs[b] : outbufs[b][i] \in With(m) <=> m \in outbufs[b][i].msgs
             /\ \A i \in DOMAIN waitresps[b] : waitresps[b][i] \in With(m) <=> m \in waitresps[b][i].msgs
             /\ \A i \in DOMAIN cbq[b] : cbq[b][i] \in CbWith(m) <=> m \in cbq[b][i].rq.msgs
  <2>1. outbufs[b] \in Seq(Rq) /\ waitresps[b] \in Seq(Rq) /\ cbq[b] \in Seq(Cb)
    BY QueueTypes, Zenon
  <2>2. /\ \A i \in DOMAIN outbufs[b] : outbufs[b][i] \in Rq
        /\ \A i \in DOMAIN waitresps[b] : waitresps[b][i] \in Rq
        /\ \A i \in DOMAIN cbq[b] : cbq[b][i] \in Cb
    BY <2>1
  <2> QED
    BY <2>2, Zenon DEF With, CbWith
<1>3. ASSUME NEW b \in Brokers, NEW rq, m \in rq.msgs
      PROVE  /\ InOut(b, rq) => Has(outbufs[b], With(m))
             /\ InWait(b, rq) => Has(waitresps[b], With(m))
             /\ InCb(b, rq) => Has(cbq[b], CbWith(m))
  BY <1>2, <1>3, Zenon DEF Has, InOut, InWait, InCb
<1>4. ASSUME NEW b \in Brokers, NEW r1, NEW r2, m \in r1.msgs, m \in r2.msgs
      PROVE  /\ InOut(b, r1) /\ InOut(b, r2) => r1 = r2
             /\ InWait(b, r1) /\ InWait(b, r2) => r1 = r2
             /\ InCb(b, r1) /\ InCb(b, r2) => r1 = r2
  <2>1. Once(outbufs[b], With(m)) /\ Once(waitresps[b], With(m)) /\ Once(cbq[b], CbWith(m))
    BY Zenon DEF Placed, InOneRequest
  <2>2. InOut(b, r1) /\ InOut(b, r2) => r1 = r2
    BY <1>2, <1>4, <2>1, Zenon DEF Once, InOut
  <2>3. InWait(b, r1) /\ InWait(b, r2) => r1 = r2
    BY <1>2, <1>4, <2>1, Zenon DEF Once, InWait
  <2>4. InCb(b, r1) /\ InCb(b, r2) => r1 = r2
    BY <1>2, <1>4, <2>1, Zenon DEF Once, InCb
  <2> QED
    BY <2>2, <2>3, <2>4, Zenon
<1>5. ASSUME NEW b \in Brokers, InRequest(b, m)
      PROVE  \E rq : m \in rq.msgs /\ (InOut(b, rq) \/ InWait(b, rq) \/ InCb(b, rq))
  BY <1>2, <1>5, Zenon DEF InRequest, Has, InOut, InWait, InCb
<1>6. ASSUME NEW b \in Brokers, NEW rq, m \in rq.msgs, InOut(b, rq) \/ InWait(b, rq) \/ InCb(b, rq)
      PROVE  InRequest(b, m)
  BY <1>3, <1>6, Zenon DEF InRequest
<1>7. ASSUME NEW r1 \in reqs, NEW r2 \in reqs PROVE r1 = r2
  <2>1. PICK b \in Brokers : m \in r1.msgs /\ (InOut(b, r1) \/ InWait(b, r1) \/ InCb(b, r1))
    BY <1>1, Zenon
  <2>2. PICK c \in Brokers : m \in r2.msgs /\ (InOut(c, r2) \/ InWait(c, r2) \/ InCb(c, r2))
    BY <1>1, Zenon
  <2>3. InRequest(b, m) /\ InRequest(c, m)
    BY <1>6, <2>1, <2>2, Zenon
  <2>4. b = c
    BY <2>3, Zenon DEF Placed
  <2>5. InOneRequest(b, m)
    BY Zenon DEF Placed
  <2>6. m \in r2.msgs /\ (InOut(b, r2) \/ InWait(b, r2) \/ InCb(b, r2))
    BY <2>2, <2>4, Zenon
  <2>7. /\ InOut(b, r1) => Has(outbufs[b], With(m))
        /\ InWait(b, r1) => Has(waitresps[b], With(m))
        /\ InCb(b, r1) => Has(cbq[b], CbWith(m))
        /\ InOut(b, r2) => Has(outbufs[b], With(m))
        /\ InWait(b, r2) => Has(waitresps[b], With(m))
        /\ InCb(b, r2) => Has(cbq[b], CbWith(m))
    BY <1>3, <2>1, <2>6, Zenon
  <2>8. /\ InOut(b, r1) /\ InOut(b, r2) => r1 = r2
        /\ InWait(b, r1) /\ InWait(b, r2) => r1 = r2
        /\ InCb(b, r1) /\ InCb(b, r2) => r1 = r2
    BY <1>4, <2>1, <2>6, Zenon
  <2> QED
    BY <2>1, <2>5, <2>6, <2>7, <2>8, Zenon DEF InOneRequest
<1>8. ~ Flying(m) => reqs = {}
  <2>1. \A rq : rq \in reqs => Flying(m)
    BY <1>1, <1>6, Zenon DEF Flying
  <2> HIDE DEF reqs
  <2> QED
    BY <2>1
<1>9. Flying(m) => \E rq : reqs = {rq}
  <2>1. Flying(m) => \E rq : rq \in reqs
    BY <1>1, <1>5, Zenon DEF Flying
  <2> HIDE DEF reqs
  <2>2. ASSUME NEW rq \in reqs PROVE reqs = {rq}
    BY <1>7
  <2> QED
    BY <2>1, <2>2, Zenon
<1> QED
  BY <1>8, <1>9, Zenon

INSTANCE FiniteSetTheorems

(* A message that was produced is in one place.                            *)
LEMMA Conserved ==
    ASSUME IndInv
    PROVE  MessageConserved
<1>1. SUFFICES ASSUME NEW m \in 1..rktp_msgid
               PROVE  1 = Cardinality({rq \in Outstanding : m \in rq.msgs})
                            + Cardinality({q \in {1} : m \in msgq})
                            + Cardinality({q \in {1} : m \in xmit_msgq})
                            + Cardinality({q \in {1} : report[m] # "none"})
  BY Zenon DEF MessageConserved
<1>2. m \in Msgs /\ m <= rktp_msgid /\ Types
  BY IdempotentProducerAssumption DEF IndInv, Types, Msgs
<1>3. Placed(m)
  BY <1>2, Zenon DEF IndInv
<1> DEFINE reqs == {rq \in Outstanding : m \in rq.msgs}
<1>4. (~ Flying(m) => reqs = {}) /\ (Flying(m) => \E rq : reqs = {rq})
  BY <1>2, <1>3, OneOutstanding, Zenon
<1>5. Cardinality({}) = 0 /\ \A x : Cardinality({x}) = 1
  BY FS_EmptySet, FS_Singleton, Zenon
<1> HIDE DEF reqs
<1>6. Cardinality(reqs) = IF Flying(m) THEN 1 ELSE 0
  BY <1>4, <1>5, Zenon
<1>7. Cardinality({q \in {1} : m \in msgq}) = IF m \in msgq THEN 1 ELSE 0
  <2>1. {q \in {1} : m \in msgq} = IF m \in msgq THEN {1} ELSE {}
    OBVIOUS
  <2> QED
    BY <1>5, <2>1, Zenon
<1>8. Cardinality({q \in {1} : m \in xmit_msgq}) = IF m \in xmit_msgq THEN 1 ELSE 0
  <2>1. {q \in {1} : m \in xmit_msgq} = IF m \in xmit_msgq THEN {1} ELSE {}
    OBVIOUS
  <2> QED
    BY <1>5, <2>1, Zenon
<1>9. Cardinality({q \in {1} : report[m] # "none"}) = IF Reported(m) THEN 1 ELSE 0
  <2>1. {q \in {1} : report[m] # "none"} = IF Reported(m) THEN {1} ELSE {}
    BY DEF Reported
  <2> QED
    BY <1>5, <2>1, Zenon
<1>10. /\ m \in msgq \/ m \in xmit_msgq \/ Reported(m) \/ Flying(m)
       /\ ~ (m \in msgq /\ m \in xmit_msgq)
       /\ ~ (m \in msgq /\ Reported(m)) /\ ~ (m \in xmit_msgq /\ Reported(m))
       /\ ~ (m \in msgq /\ Flying(m)) /\ ~ (m \in xmit_msgq /\ Flying(m))
       /\ ~ (Reported(m) /\ Flying(m))
  BY <1>2, <1>3, Zenon DEF Placed
<1>11. 1 = Cardinality(reqs) + Cardinality({q \in {1} : m \in msgq})
             + Cardinality({q \in {1} : m \in xmit_msgq})
             + Cardinality({q \in {1} : report[m] # "none"})
  BY <1>6, <1>7, <1>8, <1>9, <1>10
<1> QED
  BY <1>11, Zenon DEF reqs

-----------------------------------------------------------------------------
INSTANCE WellFoundedInduction

(* A set of messages has a smallest one.                                   *)
LEMMA MinimaExist == Minima
<1>1. SUFFICES ASSUME NEW S \in SUBSET Msgs, S # {} PROVE Min(S) \in S
  BY Zenon DEF Minima
<1>2. MaxMsgs \in Nat
  BY IdempotentProducerAssumption
<1>3. S \subseteq Nat
  BY <1>2 DEF Msgs
<1>4. PICK x \in S : \A y \in S : ~ (<<y, x>> \in OpToRel(<, Nat))
  BY <1>1, <1>3, WFMin, NatLessThanWellFounded, Zenon
<1>5. ASSUME NEW y \in S PROVE x <= y
  <2>1. x \in Nat /\ y \in Nat
    BY <1>3, Zenon
  <2>2. y < x => <<y, x>> \in OpToRel(<, Nat)
    BY <2>1, Zenon DEF OpToRel
  <2>3. ~ (y < x)
    BY <1>4, <2>2, Zenon
  <2> QED
    BY <2>1, <2>3
<1> QED
  BY <1>5, Zenon DEF Min

(* The invariant always holds.                                             *)
LEMMA AlwaysIndInv == Spec => []IndInv
<1>1. Init => IndInv
  BY Initially, Zenon
<1>2. IndInv /\ [Next]_vars => IndInv'
  BY Inductive, MinimaExist, Zenon
<1> QED
  BY <1>1, <1>2, PTL DEF Spec

(* Every message that was produced is in exactly one place: in one of the  *)
(* two queues of the partition, in one ProduceRequest whose callback has   *)
(* not run, or reported to the application.  Whatever is disconnected,     *)
(* timed out, purged, retried or acknowledged by implication, whatever the *)
(* brokers answer and however often the leader changes, no message is lost *)
(* and none is in two requests, or reported while it may still be sent.    *)
THEOREM MessagesConserved == Spec => []MessageConserved
<1>1. IndInv => MessageConserved
  BY Conserved, Zenon
<1> QED
  BY <1>1, AlwaysIndInv, PTL

=============================================================================
