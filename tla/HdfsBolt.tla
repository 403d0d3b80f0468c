------------------------------- MODULE HdfsBolt -------------------------------
(***************************************************************************)
(* HdfsBolt and SequenceFileBolt (AbstractHdfsBolt): a tuple is written to *)
(* the current file, synced every Count tuples and acked; a rotation       *)
(* closes the file, creates the next one and performs the rotation actions *)
(* (MoveFileAction) on the one before.  The executor rotates when          *)
(* FileSizeRotationPolicy says so, a timer thread when the policy is       *)
(* TimedRotationPolicy.                                                    *)
(*                                                                         *)
(* What happens under writeLock is one step.  A record counts as one byte. *)
(***************************************************************************)
EXTENDS Integers, Sequences, FiniteSets

CONSTANTS
  Tuples,
  Kinds,      \* which of the two bolts: "hdfs", "sequence"
  Policies,   \* their rotation policies: "size", "timed", "none"
  Count,      \* of CountSyncPolicy
  maxBytes,   \* of FileSizeRotationPolicy
  MaxFaults   \* bound: IOExceptions, refused renames and worker crashes

ASSUME BoltAssumption == /\ Kinds \subseteq {"hdfs", "sequence"}
                         /\ Policies \subseteq {"size", "timed", "none"}
                         /\ Count \in Nat \ {0}
                         /\ maxBytes \in Nat \ {0}
                         /\ MaxFaults \in Nat

VARIABLES
  kind,         \* the bolt and its rotation policy, as the topology was built
  rotation,
  files,        \* per file created: its records, how many are on disk, moved?
  open,         \* the stream to the last of them is open
  currentFile,  \* what the next rotation's actions are performed on
  pc,           \* where the executor is
  tuple,        \* the tuple it executes
  tuples,       \* what has become of each tuple
  executeCount, \* of CountSyncPolicy
  offset,       \* bytes written as the bolt counts them
  bytes, last,  \* FileSizeRotationPolicy.currentBytesWritten and lastOffset
  faults

config == <<kind, rotation>>
stream == <<files, open, currentFile>>
policy == <<offset, bytes, last>>
vars   == <<config, stream, pc, tuple, tuples, executeCount, policy, faults>>

NewFile == [held |-> <<>>, synced |-> 0, moved |-> FALSE]

TypeOK ==
  /\ kind \in Kinds /\ rotation \in Policies
  /\ files \in Seq([held : Seq(Tuples), synced : Nat, moved : BOOLEAN])
  /\ \A k \in DOMAIN files : files[k].synced <= Len(files[k].held)
  /\ open \in BOOLEAN
  /\ currentFile \in DOMAIN files
  /\ pc \in {"idle", "written", "rotate"}
  /\ tuple \in Tuples
  /\ tuples \in [Tuples -> {"waiting", "acked", "failed"}]
  /\ executeCount \in Nat
  /\ offset \in Nat /\ bytes \in Nat /\ last \in Nat
  /\ faults \in 0..MaxFaults

Out == Len(files)

Init ==
  /\ kind \in Kinds /\ rotation \in Policies
  /\ files = <<NewFile>> /\ open = TRUE /\ currentFile = 1
  /\ pc = "idle" /\ tuple \in Tuples
  /\ tuples = [t \in Tuples |-> "waiting"]
  /\ executeCount = 0
  /\ offset = 0 /\ bytes = 0 /\ last = 0
  /\ faults = 0

Fault == faults < MaxFaults /\ faults' = faults + 1

-----------------------------------------------------------------------------
(* execute: write, sync *)

Appended(t) == [files EXCEPT ![Out].held = Append(@, t)]
Synced(fs)  == [fs EXCEPT ![Out].synced = Len(fs[Out].held)]

NewOffset == IF kind = "hdfs" THEN offset + 1 ELSE Len(files[Out].held) + 1

\* A CountSyncPolicy that syncs one tuple late.
MarkSyncLate == executeCount + 1 > Count

MarkSync == executeCount + 1 >= Count

Fail(t) ==
  /\ tuples' = [tuples EXCEPT ![t] = "failed"]
  /\ pc' = "idle"

\* Write, and sync when the policy asks for it.
WriteTuple(t) ==
  /\ pc = "idle" /\ tuples[t] # "acked" /\ open
  /\ offset' = NewOffset
  /\ IF MarkSync THEN files' = Synced(Appended(t)) /\ executeCount' = 0
                 ELSE files' = Appended(t) /\ executeCount' = executeCount + 1
  /\ tuple' = t /\ pc' = "written"
  /\ UNCHANGED <<config, open, currentFile, tuples, bytes, last, faults>>

\* write raises: on a closed stream, or when a full buffer cannot be sent.
WriteFails(t) ==
  /\ pc = "idle" /\ tuples[t] # "acked"
  /\ IF open THEN Fault ELSE kind = "hdfs" /\ UNCHANGED faults
  /\ Fail(t) /\ tuple' = t
  /\ UNCHANGED <<config, stream, executeCount, policy>>

\* hsync raises: the record may reach the disk later, and the count goes on.
SyncFails(t) ==
  /\ pc = "idle" /\ tuples[t] # "acked" /\ open /\ MarkSync /\ Fault
  /\ files' = Appended(t)
  /\ executeCount' = executeCount + 1
  /\ offset' = NewOffset
  /\ Fail(t) /\ tuple' = t
  /\ UNCHANGED <<config, open, currentFile, bytes, last>>

MarkRotation(total) == total >= maxBytes

\* Ack, then ask the rotation policy.
AckTuple ==
  LET total == bytes + offset - last IN
  /\ pc = "written"
  /\ tuples' = [tuples EXCEPT ![tuple] = "acked"]
  /\ IF rotation = "size"
       THEN /\ bytes' = total /\ last' = offset
            /\ pc' = IF MarkRotation(total) THEN "rotate" ELSE "idle"
       ELSE pc' = "idle" /\ UNCHANGED <<bytes, last>>
  /\ UNCHANGED <<config, stream, tuple, executeCount, offset, faults>>

-----------------------------------------------------------------------------
(* rotateOutputFile, as its parts leave the stream *)

\* Closing sends what the stream still holds.
ClosedFiles == IF open THEN Synced(files) ELSE files

\* A rotation whose actions move the file it has just created.
RotatedMovesNew ==
  /\ files' = Append(ClosedFiles, [NewFile EXCEPT !.moved = TRUE])
  /\ open' = TRUE
  /\ currentFile' = Out + 1
  /\ UNCHANGED faults

\* A rotation that forgets which file is current.
RotatedKeepsCurrent ==
  /\ files' = Append([ClosedFiles EXCEPT ![currentFile].moved = TRUE], NewFile)
  /\ open' = TRUE
  /\ UNCHANGED <<currentFile, faults>>

Rotated ==
  /\ files' = Append([ClosedFiles EXCEPT ![currentFile].moved = TRUE], NewFile)
  /\ open' = TRUE
  /\ currentFile' = Out + 1
  /\ UNCHANGED faults

\* rename returns false: the action ignores it, and the file stays where it is.
RenameRefused ==
  /\ Fault
  /\ files' = Append(ClosedFiles, NewFile)
  /\ open' = TRUE
  /\ currentFile' = Out + 1

\* A rotation that raises nothing.
Rotates == Rotated \/ RenameRefused

\* close raises: nothing else has happened; the stream may or may not be closed.
CloseRaises ==
  /\ open /\ Fault
  /\ open' \in BOOLEAN
  /\ UNCHANGED <<files, currentFile>>

\* create raises: the bolt keeps a stream that is closed.
CreateRaises ==
  /\ Fault
  /\ files' = ClosedFiles
  /\ open' = FALSE
  /\ UNCHANGED currentFile

\* A rotation action raises: the bolt writes to the new file and takes the one
\* before for the current one.
ActionRaises ==
  /\ Fault
  /\ files' = Append(ClosedFiles, NewFile)
  /\ open' = TRUE
  /\ UNCHANGED currentFile

RotationRaises == CloseRaises \/ CreateRaises \/ ActionRaises

\* FileSizeRotationPolicy.reset
ResetPolicy == bytes' = 0 /\ last' = 0

\* The executor rotates and resets what it counted.
ExecutorRotates ==
  /\ pc = "rotate" /\ pc' = "idle"
  /\ Rotates
  /\ offset' = IF kind = "hdfs" THEN 0 ELSE offset
  /\ ResetPolicy
  /\ UNCHANGED <<config, tuple, tuples, executeCount>>

\* It raises: the tuple that was acked is failed, and nothing is reset.  The
\* acker ignores a fail after an ack.
ExecutorRotationFails ==
  /\ pc = "rotate" /\ pc' = "idle"
  /\ RotationRaises
  /\ UNCHANGED <<config, tuple, tuples, executeCount, policy>>

\* A timer that gives up once a rotation has failed.
TimerRotatesOpen ==
  /\ rotation = "timed"
  /\ open /\ files[Out].held # <<>>
  /\ Rotates
  /\ UNCHANGED <<config, pc, tuple, tuples, executeCount, policy>>

\* The timer rotates, between any two steps of the executor.  Bound: not a file
\* that is open and empty.
TimerRotates ==
  /\ rotation = "timed"
  /\ ~open \/ files[Out].held # <<>>
  /\ Rotates
  /\ UNCHANGED <<config, pc, tuple, tuples, executeCount, policy>>

\* It raises: the exception is logged and the timer goes on.
TimerRotationFails ==
  /\ rotation = "timed"
  /\ ~open \/ files[Out].held # <<>>
  /\ RotationRaises
  /\ UNCHANGED <<config, pc, tuple, tuples, executeCount, policy>>

-----------------------------------------------------------------------------
\* The worker dies and prepare creates a file: what was not synced is gone, and
\* what was not acked will be replayed.
Restart ==
  /\ files' = Append([files EXCEPT ![Out].held = SubSeq(@, 1, files[Out].synced)], NewFile)
  /\ open' = TRUE /\ currentFile' = Out + 1
  /\ pc' = "idle"
  /\ executeCount' = 0
  /\ offset' = 0 /\ bytes' = 0 /\ last' = 0
  /\ UNCHANGED <<config, tuple, tuples>>

Crash == Fault /\ Restart

\* append on a closed SequenceFile.Writer is no IOException but a null pointer:
\* nothing catches it, and the worker dies.
AppendKills ==
  /\ pc = "idle" /\ kind = "sequence" /\ ~open
  /\ \E t \in Tuples : tuples[t] # "acked"
  /\ Restart
  /\ UNCHANGED faults

Execute == AckTuple \/ ExecutorRotates \/ ExecutorRotationFails

Next ==
  \/ \E t \in Tuples : WriteTuple(t) \/ WriteFails(t) \/ SyncFails(t)
  \/ Execute \/ TimerRotates \/ TimerRotationFails
  \/ Crash \/ AppendKills

\* The spout replays what failed, the executor runs, and so does the timer.
Fairness ==
  /\ \A t \in Tuples : SF_vars(WriteTuple(t))
  /\ WF_vars(Execute) /\ WF_vars(TimerRotates)

Spec     == Init /\ [][Next]_vars
FairSpec == Spec /\ Fairness

-----------------------------------------------------------------------------
OnDisk(t) == \E k \in DOMAIN files : \E i \in 1..files[k].synced : files[k].held[i] = t

\* Acked tuples a crash loses, or a file abandoned by a failing close: fewer than
\* Count for each, and fewer than Count in the file that is open.
FewAckedUnsynced ==
  Cardinality({t \in Tuples : tuples[t] = "acked" /\ ~OnDisk(t)})
    <= (Count - 1) * (faults + 1)

\* No record is written to a file after a rotation action moved it.
MovedFilesRest ==
  [][\A k \in DOMAIN files : files[k].moved => files'[k] = files[k]]_vars

\* Every file but the open one is moved, except at most one for each fault: a
\* failing action leaves the next file behind, a crash the one it ended, and a
\* refused rename, which no exception tells of, its own.
FewFilesLeft ==
  Cardinality({k \in 1..(Out - 1) : ~files[k].moved}) <= faults

\* A file of the size policy exceeds maxBytes by at most the records written
\* after rotations that raised.
FilesBounded ==
  rotation = "size" =>
    \A k \in DOMAIN files : Len(files[k].held) <= maxBytes + faults

\* The files a bolt leaves: of their types, few unmoved and none too long.
FilesSound == TypeOK /\ FewFilesLeft /\ FilesBounded

\* With the timer, every tuple is acked in the end: a rotation that raised leaves
\* a closed stream, on which tuples fail, until the timer rotates again.
AllAcked == rotation = "timed" => \A t \in Tuples : <>(tuples[t] = "acked")
===============================================================================
