------------------------------ MODULE OffsetFile ------------------------------
(***************************************************************************)
(* The offset file of a partition (rdkafka_offset.c): the application      *)
(* stores offsets, the main thread writes the last one over the file with  *)
(* stdio, truncates and syncs it, and a client that starts reads where to  *)
(* go on.  Each of those calls may fail, and the process or the system may *)
(* crash between any two of them.                                          *)
(*                                                                         *)
(* An uncommented definition just above another one is a faulty variant of *)
(* it, under which one of the properties fails.                            *)
(***************************************************************************)
EXTENDS Integers, Sequences

CONSTANT Plans

VARIABLE s

(* s.plan    offsets: what the application stores; sync: the sync interval, *)
(*           0 for every commit, -1 for never; eof: the end of the          *)
(*           partition, where it was reached; faults, crashes, stores, runs: *)
(*           bounds                                                         *)
(* s.file    the file's characters, as the system holds them                *)
(* s.disk    contents of which the disk holds one                           *)
(* s.fp      the file is open; s.buf its unwritten characters               *)
(* s.path    the name of the file is set                                    *)
(* s.stored, s.committed  offsets of the partition                          *)
(* s.pc, s.offset, s.attempt, s.after  the main thread in a commit          *)
(* s.since   offsets in the file when it was synced, or stored since        *)
(* s.failed  a flush failed: "short" of a text shorter than the file's      *)
vars == <<s>>

Invalid == -1001
Newline == 10
Nul == 11

Init ==
  \E p \in Plans :
    s = [mod |-> "OffsetFile", plan |-> p, file |-> <<>>, disk |-> {<<>>}, fp |-> FALSE, buf |-> <<>>,
         path |-> FALSE,
         stored |-> Invalid, committed |-> Invalid, pc |-> "down", offset |-> Invalid, attempt |-> 0,
           after |-> "idle",
         since |-> {Invalid}, failed |-> "none"]

-----------------------------------------------------------------------------
(* The file                                                                *)

Digits[n \in Nat] == IF n < 10 THEN <<n>> ELSE Append(Digits[n \div 10], n % 10)

FormatBare(offset) == Digits[offset]
Format(offset) == Append(Digits[offset], Newline)

\* strtoull() of what was read: the digits at the start.
Number[text \in Seq(0..Nul)] ==
  IF text = <<>> THEN 0 ELSE 10 * Number[SubSeq(text, 1, Len(text) - 1)] + text[Len(text)]
Leading(text) == CHOOSE n \in 0..Len(text) : /\ \A i \in 1..n : text[i] < Newline
                                             /\ n < Len(text) => text[n + 1] >= Newline
FileRead(text) == IF Leading(text) = 0 THEN Invalid ELSE Number[SubSeq(text, 1, Leading(text))]

Overwritten(file, text) == text \o SubSeq(file, Len(text) + 1, Len(file))
Resized(file, len) == [i \in 1..len |-> IF i <= Len(file) THEN file[i] ELSE Nul]

Written(t, content) == [t EXCEPT !.file = content, !.disk = @ \cup {content}]

\* What stdio holds is written.
Flushed(t) == [Written(t, Overwritten(t.file, t.buf)) EXCEPT !.buf = <<>>]

FileSync(t) ==
  LET f == Flushed(t)
  IN IF ~t.fp THEN t
     ELSE [f EXCEPT !.disk = {f.file},
                    !.since = {FileRead(f.file)} \cup ({f.stored, f.offset} \ {Invalid})]

\* fclose() writes what it can.
FileClose(t, ok) == [(IF t.fp /\ ok THEN Flushed(t) ELSE t) EXCEPT !.fp = FALSE, !.buf = <<>>]

Faulty == s.plan.faults > 0
Fault(t) == [t EXCEPT !.plan.faults = @ - 1]

-----------------------------------------------------------------------------
(* Starting and storing                                                    *)

\* rd_kafka_offset_store_init() and rd_kafka_offset_file_init().
Read(t, offset) ==
  [t EXCEPT !.pc = "idle", !.path = TRUE, !.committed = offset,
            !.stored = IF offset = Invalid THEN @ ELSE offset]
FileInit ==
  /\ s.pc \in {"down", "stopped"} /\ s.plan.runs > 0
  /\ LET t == [s EXCEPT !.plan.runs = @ - 1]
     IN \/ s' = Read([t EXCEPT !.fp = TRUE], FileRead(s.file))
        \/ Faulty /\ s' = Fault(Read(t, Invalid))

\* rd_kafka_offset_store0(), by a thread of the application at any time.
OffsetStore(offset) ==
  /\ s.pc # "down" /\ s.plan.stores > 0
  /\ s' = [s EXCEPT !.stored = offset, !.since = @ \cup {offset}, !.plan.stores = @ - 1]

-----------------------------------------------------------------------------
(* Committing                                                              *)

\* rd_kafka_offset_file_term(), and the end of the commit before it.
FileTerm(t, ok) ==
  [FileClose(IF t.plan.sync > 0 THEN FileSync(t) ELSE t, ok) EXCEPT !.path = FALSE, !.pc = "stopped"]
Ended(t, ok) ==
  LET e == [t EXCEPT !.offset = Invalid, !.attempt = 0]
  IN IF t.after = "term" THEN FileTerm(e, ok) ELSE [e EXCEPT !.pc = "idle"]

\* rd_kafka_offset_commit(): the check is not made under the lock the stored
\* offset is set under, and rd_kafka_offset_file_commit() reads it again.
Commit(t, after) == [t EXCEPT !.pc = "commit", !.after = after]
AutoCommit ==
  /\ s.pc = "idle" /\ s.stored > s.committed
  /\ s' = Commit(s, "idle")

OffsetStoreStop ==
  /\ s.pc \in {"idle", "stopped"} /\ s.plan.stops > 0
  /\ LET t == [s EXCEPT !.plan.stops = @ - 1,
                        !.stored = IF @ = Invalid /\ s.plan.eof > 0 THEN s.plan.eof ELSE @,
                        !.since = IF s.stored = Invalid /\ s.plan.eof > 0 THEN @ \cup {s.plan.eof} ELSE @]
     IN IF t.stored > t.committed THEN s' = Commit(t, "term")
        ELSE \E ok \in {TRUE} \cup {~Faulty} : s' = FileTerm(t, ok)

\* The next of the two attempts.
NextAttempt(t) ==
  IF t.attempt = 1 THEN Ended(t, TRUE) ELSE [t EXCEPT !.attempt = 1, !.pc = "open"]

FileCommit == s.pc = "commit" /\ s' = [s EXCEPT !.offset = s.stored, !.pc = "open"]

FileOpen ==
  /\ s.pc = "open"
  /\ \/ (s.fp \/ s.path) /\ s' = [s EXCEPT !.fp = TRUE, !.pc = "seek"]
     \/ ~s.fp /\ (s.path => Faulty) /\ s' = NextAttempt(IF s.path THEN Fault(s) ELSE s)

\* fseek() writes what an earlier flush could not.
FileSeek ==
  /\ s.pc = "seek"
  /\ \/ s' = [Flushed(s) EXCEPT !.pc = "write"]
     \/ Faulty /\ \E ok \in BOOLEAN : s' = NextAttempt(FileClose(Fault(s), ok))

FileWrite ==
  /\ s.pc = "write"
  /\ \/ s' = [s EXCEPT !.buf = Format(s.offset), !.pc = "flush"]
     \/ Faulty /\ s' = NextAttempt(FileClose(Fault(s), TRUE))

\* The result of fflush() is not looked at.
FileFlush ==
  /\ s.pc = "flush"
  /\ \/ s' = [Flushed(s) EXCEPT !.pc = "truncate"]
     \/ /\ Faulty
        /\ s' = [Fault(s) EXCEPT !.failed = IF @ = "short" \/ Len(s.buf) < Len(s.file) THEN "short" ELSE "long",
                                 !.pc = "truncate"]

\* Nor the one of ftruncate().
FileTruncate ==
  /\ s.pc = "truncate"
  /\ \E cut \in {TRUE} \cup {~Faulty} :
       LET t == IF cut THEN Written(s, Resized(s.file, Len(Format(s.offset)))) ELSE Fault(s)
       IN s' = [t EXCEPT !.committed = s.offset, !.pc = "synced"]

FileCommitted ==
  /\ s.pc = "synced"
  /\ s' = Ended(IF s.plan.sync = 0 THEN FileSync(s) ELSE s, TRUE)

SyncTimer == s.pc = "idle" /\ s.plan.sync > 0 /\ s' = FileSync(s)

-----------------------------------------------------------------------------
(* Crashes: of the process, which loses what stdio holds, and of the       *)
(* system, after which the file is what some write made of it.             *)

Down(t) ==
  [t EXCEPT !.fp = FALSE, !.buf = <<>>, !.path = FALSE, !.stored = Invalid, !.committed = Invalid,
   !.pc = "down",
            !.offset = Invalid, !.attempt = 0, !.after = "idle", !.plan.crashes = @ - 1]
Crash ==
  /\ s.pc # "down" /\ s.plan.crashes > 0
  /\ \/ s' = Down(s)
     \/ \E content \in s.disk : s' = Down([s EXCEPT !.file = content, !.disk = {content}])

Next ==
  \/ FileInit \/ AutoCommit \/ OffsetStoreStop \/ FileCommit \/ FileOpen \/ FileSeek \/ FileWrite
  \/ FileFlush \/ FileTruncate \/ FileCommitted \/ SyncTimer \/ Crash
  \/ \E offset \in s.plan.offsets : OffsetStore(offset)

Spec == Init /\ [][Next]_vars

-----------------------------------------------------------------------------
(* Properties                                                              *)

\* Whatever fails, a client that starts after a crash goes on at the offset the
\* file had when it was last synced or at one stored since, and never at a
\* mixture of two: a shorter number written over a longer one ends at its
\* newline before the file is cut.  Only where that write failed, which the
\* code does not notice, is the longer one cut.
GoesOnWhereStored == s.failed # "short" => \A content \in s.disk : FileRead(content) \in s.since

\* Between commits the committed offset is the one in the file, unless a flush
\* failed.
CommittedInFile ==
  s.pc \in {"idle", "stopped"} /\ s.committed # Invalid /\ s.failed = "none" => FileRead(s.file) = s.committed

\* Both, which what a client starts from rests on.
OffsetFileSound == GoesOnWhereStored /\ CommittedInFile

=============================================================================
