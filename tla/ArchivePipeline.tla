--------------------------- MODULE ArchivePipeline ---------------------------
(***************************************************************************)
(* One build of a backup archive inside its runner: the thread that writes *)
(* the inner ZIP, the thread that encrypts full frames, the thread that    *)
(* reports progress on a connection of its own, the cancel that the report *)
(* notices, and whoever opens the container afterwards                     *)
(* (dlux/backup/crypto.py, reporters.py, create.py).                       *)
(***************************************************************************)
EXTENDS Integers, Sequences

CONSTANTS
  Size,        \* what the inner ZIP consists of: units 1..Size, the last its end record
  Frame,       \* units in a full frame
  MaxReports   \* bound on the reports before the last one

End == Size
Whole == [i \in 1..Size |-> i]
QueueSize == 2
Stop == <<>>        \* what ends the encrypting thread

VARIABLES
  written,    \* units the ZIP has written
  buffer,     \* DlbPayloadWriter's buffer
  queue,      \* frames on their way to the encrypting thread
  payload,    \* the frames it appended
  builder,    \* where the building thread is
  encryptor,  \* where the encrypting thread is, and whether a frame failed
  reporter,   \* the progress thread
  row,        \* the backup's status, and whether it was cancelled before the last report
  file,       \* the container
  opened      \* what opening it yielded

pipeline == <<written, buffer, queue, payload, builder, encryptor, reporter, row, file, opened>>

Ended == {"done", "failed", "cancelled"}
Reports == {"tick", "checkpoint", "seal"}
NoReport == "none"

Init ==
  /\ written = 0 /\ buffer = <<>> /\ queue = <<>> /\ payload = <<>>
  /\ builder = [at |-> "building", frame |-> <<>>, reports |-> 0, sealed |-> FALSE, failing |-> FALSE]
  /\ encryptor = [at |-> "waiting", frame |-> <<>>, failed |-> FALSE]
  /\ reporter = [at |-> "waiting", pending |-> NoReport, item |-> NoReport,
                 stopping |-> FALSE, cancelled |-> FALSE, unheard |-> FALSE]
  /\ row = [status |-> "running", early |-> FALSE]
  /\ file = <<>> /\ opened = <<>>

At(step) == builder.at = step
Go(step) == builder' = [builder EXCEPT !.at = step]

(* An exception: the ZIP is closed on the way out of its block, the writer *)
(* is aborted.                                                             *)
Raise == builder' = [builder EXCEPT !.at = IF written = Size THEN "closing" ELSE "unwinding",
                                    !.failing = TRUE]

-----------------------------------------------------------------------------
(* write_system_backup: write to the ZIP, hand over full frames, report.   *)
Write ==
  /\ At("building") /\ Len(buffer) < Frame /\ written < Size
  /\ \E n \in 1..(Size - written) :
       /\ buffer' = buffer \o [i \in 1..n |-> written + i]
       /\ written' = written + n
  /\ UNCHANGED <<queue, payload, builder, encryptor, reporter, row, file, opened>>

(* DlbPayloadWriter._submit: look for an error, then put, which may block. *)
Submit ==
  /\ builder.at \in {"building", "unwinding"} /\ Len(buffer) >= Frame
  /\ buffer' = SubSeq(buffer, Frame + 1, Len(buffer))
  /\ IF encryptor.failed
     THEN IF At("unwinding") THEN Go("closing") ELSE Raise
     ELSE builder' = [builder EXCEPT !.at = "offering", !.frame = SubSeq(buffer, 1, Frame)]
  /\ UNCHANGED <<written, queue, payload, encryptor, reporter, row, file, opened>>

Put(frame) == Len(queue) < QueueSize /\ queue' = Append(queue, frame)

Offer ==
  /\ At("offering") /\ Put(builder.frame)
  /\ Go(IF builder.failing THEN "unwinding" ELSE "building")
  /\ UNCHANGED <<written, buffer, payload, encryptor, reporter, row, file, opened>>

(* _ThreadedReporter._post: the newest report wins, but a tick does not    *)
(* displace a milestone.                                                   *)
Post(report) ==
  /\ At("building") /\ Len(buffer) < Frame
  /\ IF report = "seal" THEN written = Size ELSE written < Size /\ builder.reports < MaxReports
  /\ IF reporter.cancelled
     THEN Raise /\ UNCHANGED reporter
     ELSE /\ builder' = [builder EXCEPT !.at = "posted", !.sealed = (report = "seal"),
                                        !.reports = IF report = "seal" THEN @ ELSE @ + 1]
          /\ IF report = "tick" /\ reporter.pending = "checkpoint"
             THEN UNCHANGED reporter
             ELSE reporter' = [reporter EXCEPT !.pending = report]
  /\ UNCHANGED <<written, buffer, queue, payload, encryptor, row, file, opened>>

Posted ==
  /\ At("posted")
  /\ IF reporter.cancelled THEN Raise ELSE Go(IF builder.sealed THEN "closing" ELSE "building")
  /\ UNCHANGED <<written, buffer, queue, payload, encryptor, reporter, row, file, opened>>

(* Reading a model or a file raises.                                       *)
BuildFails ==
  /\ At("building") /\ written < Size /\ Len(buffer) < Frame /\ Raise
  /\ UNCHANGED <<written, buffer, queue, payload, encryptor, reporter, row, file, opened>>

(* ZipFile.__exit__ writes the end record of what there is, if it can.     *)
Unwind ==
  /\ At("unwinding") /\ Len(buffer) < Frame
  /\ \/ written < Size /\ written' = Size /\ buffer' = Append(buffer, End) /\ UNCHANGED builder
     \/ Go("closing") /\ UNCHANGED <<written, buffer>>
  /\ UNCHANGED <<queue, payload, encryptor, reporter, row, file, opened>>

-----------------------------------------------------------------------------
(* _close_worker, for finish() and for abort(): the rest of the buffer     *)
(* unless a frame has failed, the stop, the join.                          *)
CloseBuffer ==
  /\ At("closing")
  /\ IF buffer # <<>> /\ ~encryptor.failed
     THEN builder' = [builder EXCEPT !.at = "flushing", !.frame = buffer] /\ buffer' = <<>>
     ELSE Go("stopping") /\ UNCHANGED buffer
  /\ UNCHANGED <<written, queue, payload, encryptor, reporter, row, file, opened>>

Flush ==
  /\ At("flushing") /\ Put(builder.frame) /\ Go("stopping")
  /\ UNCHANGED <<written, buffer, payload, encryptor, reporter, row, file, opened>>

SendStop ==
  /\ At("stopping") /\ Put(Stop) /\ Go("joining")
  /\ UNCHANGED <<written, buffer, payload, encryptor, reporter, row, file, opened>>

Header(encrypted) == IF encrypted THEN 0 ELSE -1
Prefix(frame) == Size + Len(frame)
Framed(frame, encrypted) == IF encrypted THEN <<Prefix(frame)>> \o frame ELSE frame
Contents(frames, encrypted) ==
  LET From[i \in 1..(Len(frames) + 1)] ==
        IF i > Len(frames) THEN <<>> ELSE Framed(frames[i], encrypted) \o From[i + 1]
  IN From[1]

(* finish(): raise the failed frame's error or copy header and payload.    *)
Finish ==
  /\ At("joining") /\ encryptor.at = "gone"
  /\ IF builder.failing \/ encryptor.failed
     THEN builder' = [builder EXCEPT !.at = "hushing", !.failing = TRUE] /\ UNCHANGED file
     ELSE \/ /\ \E encrypted \in BOOLEAN :
                  file' = <<Header(encrypted)>> \o Contents(payload, encrypted)
             /\ Go("hushing")
          \/ builder' = [builder EXCEPT !.at = "hushing", !.failing = TRUE] /\ UNCHANGED file
  /\ UNCHANGED <<written, buffer, queue, payload, encryptor, reporter, row, opened>>

(* _ThreadedReporter.close(), which raises what the thread has noticed.    *)
Hush ==
  /\ At("hushing") /\ Go("leaving")
  /\ reporter' = [reporter EXCEPT !.stopping = TRUE]
  /\ UNCHANGED <<written, buffer, queue, payload, encryptor, row, file, opened>>

Leave ==
  /\ At("leaving") /\ reporter.at = "gone"
  /\ Go(IF reporter.cancelled THEN "cancelled" ELSE IF builder.failing THEN "failed" ELSE "done")
  /\ UNCHANGED <<written, buffer, queue, payload, encryptor, reporter, row, file, opened>>

-----------------------------------------------------------------------------
(* DlbPayloadWriter._drain: after a failed frame the rest is discarded, so *)
(* that the builder never blocks.                                          *)
Take ==
  /\ encryptor.at = "waiting" /\ queue # <<>>
  /\ queue' = Tail(queue)
  /\ encryptor' = IF Head(queue) = Stop THEN [encryptor EXCEPT !.at = "gone"]
                  ELSE IF encryptor.failed THEN encryptor
                  ELSE [encryptor EXCEPT !.at = "busy", !.frame = Head(queue)]
  /\ UNCHANGED <<written, buffer, payload, builder, reporter, row, file, opened>>

Encrypt ==
  /\ encryptor.at = "busy"
  /\ \/ payload' = Append(payload, encryptor.frame) /\ encryptor' = [encryptor EXCEPT !.at = "waiting"]
     \/ encryptor' = [encryptor EXCEPT !.at = "waiting", !.failed = TRUE] /\ UNCHANGED payload
  /\ UNCHANGED <<written, buffer, queue, builder, reporter, row, file, opened>>

(* Mutant: the thread ends although a report is pending.                   *)
WakeToStop ==
  /\ reporter.at = "waiting" /\ (reporter.pending # NoReport \/ reporter.stopping)
  /\ reporter' = IF reporter.stopping THEN [reporter EXCEPT !.at = "gone"]
                 ELSE [reporter EXCEPT !.at = "reporting", !.item = reporter.pending, !.pending = NoReport]
  /\ UNCHANGED <<written, buffer, queue, payload, builder, encryptor, row, file, opened>>

(* _ThreadedReporter._run.                                                 *)
Wake ==
  /\ reporter.at = "waiting" /\ (reporter.pending # NoReport \/ reporter.stopping)
  /\ reporter' = IF reporter.pending = NoReport THEN [reporter EXCEPT !.at = "gone"]
                 ELSE [reporter EXCEPT !.at = "reporting", !.item = reporter.pending, !.pending = NoReport]
  /\ UNCHANGED <<written, buffer, queue, payload, builder, encryptor, row, file, opened>>

(* A report writes while the row runs, and else notices the cancel; a tick *)
(* may be skipped; an error of the write is kept and looked at by no one.  *)
Report ==
  /\ reporter.at = "reporting"
  /\ \/ reporter' = [reporter EXCEPT !.at = "waiting", !.cancelled = @ \/ row.status = "cancelled"]
     \/ reporter.item = "tick" /\ reporter' = [reporter EXCEPT !.at = "waiting"]
     \/ reporter' = [reporter EXCEPT !.at = "waiting", !.unheard = (reporter.item = "seal")]
  /\ UNCHANGED <<written, buffer, queue, payload, builder, encryptor, row, file, opened>>

Cancel ==
  /\ row.status = "running" /\ builder.at \notin Ended
  /\ row' = [status |-> "cancelled", early |-> ~builder.sealed]
  /\ UNCHANGED <<written, buffer, queue, payload, builder, encryptor, reporter, file, opened>>

-----------------------------------------------------------------------------
(* decrypt_dlb_to_tempfile and the ZIP's end record decide what a copy cut *)
(* anywhere, or the wrong key, yields; a frame of nothing is no token.     *)
Refused == <<0>>

Deciphered(frames) ==
  LET From[i \in 1..(Len(frames) + 1)] ==
        IF i > Len(frames) THEN <<>>
        ELSE LET last == i + frames[i] - Size
             IN IF last <= i \/ last > Len(frames) \/ From[last + 1] = Refused THEN Refused
                ELSE SubSeq(frames, i + 1, last) \o From[last + 1]
  IN From[1]

Opened(copy, rightKey) ==
  LET inner == IF copy = <<>> THEN Refused
               ELSE IF Head(copy) # Header(TRUE) THEN Tail(copy)
               ELSE IF rightKey \/ Len(copy) = 1 THEN Deciphered(Tail(copy)) ELSE Refused
  IN IF inner # <<>> /\ inner[Len(inner)] = End THEN inner ELSE Refused

Open ==
  /\ At("done") /\ opened = <<>>
  /\ \E n \in 0..Len(file), rightKey \in BOOLEAN : opened' = Opened(SubSeq(file, 1, n), rightKey)
  /\ UNCHANGED <<written, buffer, queue, payload, builder, encryptor, reporter, row, file>>

-----------------------------------------------------------------------------
Build ==
  \/ Write \/ Submit \/ Offer \/ Posted \/ BuildFails \/ Unwind
  \/ \E report \in Reports : Post(report)
  \/ CloseBuffer \/ Flush \/ SendStop \/ Finish \/ Hush \/ Leave
Threads == Take \/ Encrypt \/ Wake \/ Report
Next == Build \/ Threads \/ Cancel \/ Open

PipelineTypeOK ==
  /\ written \in 0..Size
  /\ Len(buffer) <= Size /\ Len(queue) <= QueueSize /\ Len(payload) <= Size
  /\ builder.at \in Ended \cup {"building", "posted", "offering", "unwinding", "closing", "flushing",
                                "stopping", "joining", "hushing", "leaving"}
  /\ encryptor.at \in {"waiting", "busy", "gone"}
  /\ reporter.at \in {"waiting", "reporting", "gone"}
  /\ reporter.pending \in Reports \cup {NoReport}
  /\ row.status \in {"running", "cancelled"}

(* A finished container holds everything the ZIP was, in order, although   *)
(* another thread wrote it; a copy of it that is cut short, or opened with *)
(* another key, is refused and never taken for a smaller backup.           *)
FinishedIsWhole ==
  /\ At("done") => Opened(file, TRUE) = Whole
  /\ opened \in {<<>>, Refused, Whole}

(* A cancel made before the last report stops the build, although another  *)
(* thread notices it, unless that report could not be made.                *)
CancelIsNoticed == At("done") /\ row.early => reporter.unheard

ArchivesAreWhole == FinishedIsWhole /\ CancelIsNoticed

(* The threads never wait for each other for ever.                         *)
BuildEnds == builder.at \in Ended
=============================================================================
