------------------------------- MODULE Timers -------------------------------
(***************************************************************************)
(* The timers of librdkafka (rdkafka_timer.c): a list ordered by the next  *)
(* firing, which the main thread serves once in every round of its loop,   *)
(* and which other threads and the callbacks themselves change: the lock   *)
(* is not held while a callback runs.  Times are relative to the clock, so *)
(* that a timer is due when its time is 0 or less.                         *)
(*                                                                         *)
(* An uncommented definition just above another one is a faulty variant of *)
(* it, under which one of the properties fails.                            *)
(***************************************************************************)
EXTENDS Integers, Sequences, FiniteSets, SequencesExt, FiniteSetsExt

CONSTANTS Timers,
          None,
          Intervals,    \* of rd_kafka_timer_start(), in ticks
          Backoffs,     \* of rd_kafka_timer_backoff()
          Cap,          \* the main thread sleeps no longer than this
          Wrap          \* the values of an int, 2^32 in the code

VARIABLE s

(* s.iv[t], s.one[t]  rtmr_interval, 0 if not started; rtmr_oneshot         *)
(* s.nx[t]            rtmr_next, None if not scheduled                      *)
(* s.list, s.on       rkts_timers; rkts_enabled                             *)
(* s.pc, s.cur        the main thread; the timer whose callback it runs     *)
(* s.wake             when the main thread wakes up                         *)
(* s.term             the client terminates                                 *)
(* s.ref[t]           what the callers of oneshot timers handed over to the *)
(*                    callback and did not get back                         *)
vars == <<s>>

Init ==
  s = [mod |-> "Timers", iv |-> [t \in Timers |-> 0], one |-> [t \in Timers |-> FALSE],
       nx |-> [t \in Timers |-> None], list |-> <<>>, on |-> TRUE,
       pc |-> "loop", cur |-> None, wake |-> 0, term |-> FALSE,
       ref |-> [t \in Timers |-> 0]]

Started(x, t) == x.iv[t] # 0

Scheduled(x, t) == x.nx[t] # None

-----------------------------------------------------------------------------
(* The list.                                                               *)

\* rd_kafka_timer_cmp(): the difference as an int.
TimerCmp(a, b) == ((a - b + Wrap \div 2) % Wrap) - Wrap \div 2

Unschedule(x, t) ==
  [x EXCEPT !.list = SelectSeq(@, LAMBDA u : u # t), !.nx[t] = None]

\* TAILQ_INSERT_SORTED: before the first timer that compares greater.
InsertSorted(x, t) ==
  LET after == {i \in DOMAIN x.list : TimerCmp(x.nx[t], x.nx[x.list[i]]) < 0}
      at == IF after = {} THEN Len(x.list) + 1 ELSE Min(after)
  IN [x EXCEPT !.list = InsertAt(@, at, t)]

\* An earlier timer than all others goes to the head, whatever TimerCmp says.
Schedule(x, t, extra) ==
  LET y == [x EXCEPT !.nx[t] = x.iv[t] + extra] IN
  CASE x.iv[t] = 0 \/ ~x.on -> x
    [] x.iv[t] # 0 /\ x.on /\ x.list # <<>> /\ x.nx[Head(x.list)] <= y.nx[t] -> InsertSorted(y, t)
    [] OTHER -> [y EXCEPT !.list = <<t>> \o @]

Stop(x, t) ==
  IF ~Started(x, t) THEN x
  ELSE [IF Scheduled(x, t) THEN Unschedule(x, t) ELSE x EXCEPT !.iv[t] = 0]

-----------------------------------------------------------------------------
(* Calls of other threads, and of callbacks.                               *)

\* A oneshot timer's callback gets what its starter hands over; who stops a
\* started one keeps it.
TimerStart(t, interval, oneshot) ==
  /\ ~s.term
  /\ LET x == Stop(s, t)
         y == [x EXCEPT !.iv[t] = interval, !.one[t] = oneshot,
                        !.ref[t] = @ - (IF s.one[t] /\ Started(s, t) THEN 1 ELSE 0)
                                     + (IF oneshot THEN 1 ELSE 0)]
     IN s' = Schedule(y, t, 0)

TimerStop(t) ==
  /\ s' = [Stop(s, t) EXCEPT !.ref[t] = @ - (IF s.one[t] /\ Started(s, t) THEN 1 ELSE 0)]

TimerBackoff(t, backoff) ==
  s' = Schedule(IF Scheduled(s, t) THEN Unschedule(s, t) ELSE s, t, backoff)

\* rd_kafka_destroy().
Terminate == ~s.term /\ s' = [s EXCEPT !.term = TRUE]

-----------------------------------------------------------------------------
(* The main thread.                                                        *)

\* rd_kafka_timers_next().
TimersNext(x) ==
  CASE x.list = <<>> -> Cap
    [] x.list # <<>> /\ x.nx[Head(x.list)] < 0 -> 0
    [] OTHER -> Min({x.nx[Head(x.list)], Cap})

\* The loop of rd_kafka_thread_main(): serve ops until the next timer is due,
Sleep ==
  /\ s.pc = "loop"
  /\ s' = IF s.term THEN [s EXCEPT !.pc = "left"]
          ELSE [s EXCEPT !.pc = "serve", !.wake = TimersNext(s)]

\* then run the timers; an op may come earlier.
Served == s.pc = "serve" /\ s' = [s EXCEPT !.pc = "run"]

\* rd_kafka_timers_run(): the first timer, if due; its callback is not locked.
TimersRun ==
  /\ s.pc = "run"
  /\ LET t == Head(s.list) IN
     s' = IF s.term \/ s.list = <<>> THEN [s EXCEPT !.pc = "loop", !.wake = 0]
          ELSE IF s.nx[t] > 0 THEN [s EXCEPT !.pc = "loop", !.wake = 0]
          ELSE [Unschedule(s, t) EXCEPT
                  !.iv[t] = IF s.one[t] THEN 0 ELSE @,
                  !.pc = IF s.one[t] THEN "oneshot" ELSE "callback", !.cur = t]

CallbackOnce ==
  /\ s.pc \in {"oneshot", "callback"}
  /\ LET t == s.cur
         x == [s EXCEPT !.pc = "run", !.cur = None,
                        !.ref[t] = @ - (IF s.pc = "oneshot" THEN 1 ELSE 0)]
     IN s' = IF Started(x, t) /\ s.pc = "callback" THEN Schedule(x, t, 0) ELSE x

\* The callback returns; a timer still started is scheduled unless it is.
Callback ==
  /\ s.pc \in {"oneshot", "callback"}
  /\ LET t == s.cur
         x == [s EXCEPT !.pc = "run", !.cur = None,
                        !.ref[t] = @ - (IF s.pc = "oneshot" THEN 1 ELSE 0)]
     IN s' = IF Started(x, t) /\ ~Scheduled(x, t) THEN Schedule(x, t, 0) ELSE x

\* rd_kafka_timers_destroy(), once the main thread has left.
TimersDestroy ==
  /\ s.pc = "left" /\ s.on
  /\ s' = FoldLeft(LAMBDA x, t : [Stop(x, t) EXCEPT !.ref[t] = @ - (IF s.one[t] THEN 1 ELSE 0)],
                   [s EXCEPT !.on = FALSE], s.list)

\* Time passes while the main thread sleeps; ops and callbacks take no time.
Tick ==
  /\ s.pc = "serve" /\ s.wake > 0
  /\ s' = [s EXCEPT !.wake = @ - 1,
                    !.nx = [t \in Timers |-> IF Scheduled(s, t) THEN s.nx[t] - 1 ELSE None]]

Next ==
  \/ \E t \in Timers, i \in Intervals, o \in BOOLEAN : TimerStart(t, i, o)
  \/ \E t \in Timers : TimerStop(t)
  \/ \E t \in Timers, b \in Backoffs : TimerBackoff(t, b)
  \/ Terminate \/ Sleep \/ Served \/ TimersRun \/ Callback \/ TimersDestroy \/ Tick

Spec == Init /\ [][Next]_vars

-----------------------------------------------------------------------------
(* Properties.                                                             *)

\* The list holds the scheduled timers, once each and in the order of their
\* next firing: rd_kafka_timers_run() looks no further than the first.
ListOrdered ==
  /\ \A i, j \in DOMAIN s.list : i < j => s.list[i] # s.list[j] /\ s.nx[s.list[i]] <= s.nx[s.list[j]]
  /\ ToSet(s.list) = {t \in Timers : Scheduled(s, t)}

\* No started timer is forgotten, whatever was done to it while its callback
\* ran without the lock: it is scheduled, or the callback's end will do it.
NoneForgotten ==
  \A t \in Timers : s.on /\ Started(s, t) => Scheduled(s, t) \/ t = s.cur

\* No timer is late by more than the main thread may sleep, although starting
\* an earlier one does not wake it.
Punctual == \A t \in Timers : Scheduled(s, t) /\ ~s.term => s.nx[t] >= -Cap

\* Of a oneshot timer, either the callback runs or rd_kafka_timer_stop() says
\* that it was started, never both and never neither.
OneshotOnce ==
  \A t \in Timers : s.ref[t] = Cardinality({x \in {"started", "running"} :
                       IF x = "started" THEN s.one[t] /\ Started(s, t)
                       ELSE s.pc = "oneshot" /\ s.cur = t})

TimersSafe == ListOrdered /\ NoneForgotten /\ Punctual /\ OneshotOnce
=============================================================================
