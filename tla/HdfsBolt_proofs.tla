---------------------------- MODULE HdfsBolt_proofs ----------------------------
(***************************************************************************)
(* Proofs about HdfsBolt, for any tuples, policies, limits and number of   *)
(* faults: the types, what becomes of the files, and how many acked tuples *)
(* a crash may lose.                                                       *)
(***************************************************************************)
EXTENDS HdfsBolt, FiniteSetTheorems, SequenceTheorems, TLAPS

File == [held : Seq(Tuples), synced : Nat, moved : BOOLEAN]

\* What TypeOK says of the files.
Filed(fs) == fs \in Seq(File) /\ \A k \in DOMAIN fs : fs[k].synced <= Len(fs[k].held)

\* What FileSizeRotationPolicy has counted is where it counted last.
Typed == TypeOK /\ bytes = last

-----------------------------------------------------------------------------
(* What the operators on files return. *)

\* The files there are.
LEMMA FilesTyped ==
  ASSUME TypeOK
  PROVE  /\ Filed(files) /\ files \in Seq(File)
         /\ Out \in Nat /\ Out >= 1 /\ DOMAIN files = 1..Out /\ currentFile \in 1..Out
         /\ \A k \in 1..Out : /\ files[k] \in File /\ Len(files[k].held) \in Nat
                              /\ files[k].synced <= Len(files[k].held)
<1>1. files \in Seq(File) /\ Filed(files)
  BY DEF TypeOK, File, Filed
<1>2. Out \in Nat /\ DOMAIN files = 1..Out
  BY <1>1, LenProperties DEF Out
<1>3. currentFile \in 1..Out /\ Out >= 1
  BY <1>2 DEF TypeOK
<1>4. \A k \in 1..Out : files[k] \in File
  BY <1>1, <1>2, ElementOfSeq DEF Out
<1>5. \A k \in 1..Out : Len(files[k].held) \in Nat
  BY <1>4, LenProperties DEF File
<1>6. QED
  BY <1>1, <1>2, <1>3, <1>4, <1>5 DEF TypeOK

\* A file with one of its fields changed.
LEMMA FileExcept ==
  ASSUME NEW f \in File, NEW x
  PROVE  /\ [f EXCEPT !.held = x] = [held |-> x, synced |-> f.synced, moved |-> f.moved]
         /\ [f EXCEPT !.synced = x] = [held |-> f.held, synced |-> x, moved |-> f.moved]
         /\ [f EXCEPT !.moved = x] = [held |-> f.held, synced |-> f.synced, moved |-> x]
  BY DEF File

\* A file is written to.
LEMMA AppendedIs ==
  ASSUME TypeOK, NEW t \in Tuples
  PROVE  /\ Appended(t) \in Seq(File) /\ Len(Appended(t)) = Out
         /\ \A k \in 1..Out : k # Out => Appended(t)[k] = files[k]
         /\ Appended(t)[Out] = [held |-> Append(files[Out].held, t),
                                synced |-> files[Out].synced, moved |-> files[Out].moved]
         /\ Len(Append(files[Out].held, t)) = Len(files[Out].held) + 1
<1> DEFINE e == [held |-> Append(files[Out].held, t),
                 synced |-> files[Out].synced, moved |-> files[Out].moved]
<1>1. files \in Seq(File) /\ Out \in 1..Len(files) /\ files[Out] \in File
  BY FilesTyped DEF Out
<1>2. files[Out].held \in Seq(Tuples)
  BY <1>1 DEF File
<1>3. e \in File /\ Len(Append(files[Out].held, t)) = Len(files[Out].held) + 1
  BY <1>1, <1>2, AppendProperties DEF File
<1>4. [files[Out] EXCEPT !.held = Append(files[Out].held, t)] = e
  BY <1>1, FileExcept
<1>5. Appended(t) = [files EXCEPT ![Out] = e]
  BY <1>4 DEF Appended
<1>6. /\ Appended(t) \in Seq(File) /\ Len(Appended(t)) = Len(files)
      /\ \A k \in 1..Len(files) : Appended(t)[k] = IF k = Out THEN e ELSE files[k]
  BY <1>1, <1>3, <1>5, ExceptSeq
<1> HIDE DEF e
<1>7. \A k \in 1..Out : k # Out => Appended(t)[k] = files[k]
  BY <1>6 DEF Out
<1>8. Appended(t)[Out] = e
  BY <1>1, <1>6
<1>9. QED
  BY <1>3, <1>6, <1>7, <1>8 DEF e, Out

\* The file that is open is synced.
LEMMA SyncedIs ==
  ASSUME TypeOK, NEW fs \in Seq(File), Len(fs) = Out
  PROVE  /\ Synced(fs) \in Seq(File) /\ Len(Synced(fs)) = Out
         /\ \A k \in 1..Out : k # Out => Synced(fs)[k] = fs[k]
         /\ Synced(fs)[Out] = [held |-> fs[Out].held,
                               synced |-> Len(fs[Out].held), moved |-> fs[Out].moved]
<1> DEFINE e == [held |-> fs[Out].held, synced |-> Len(fs[Out].held), moved |-> fs[Out].moved]
<1>1. Out \in 1..Len(fs) /\ fs[Out] \in File
  BY FilesTyped, ElementOfSeq
<1>2. e \in File
  BY <1>1, LenProperties DEF File
<1>3. [fs[Out] EXCEPT !.synced = Len(fs[Out].held)] = e
  BY <1>1, FileExcept
<1>4. Synced(fs) = [fs EXCEPT ![Out] = e]
  BY <1>3 DEF Synced
<1>5. QED
  BY <1>1, <1>2, <1>4, ExceptSeq

\* A file is closed; one that was closed before stays as it is.
LEMMA ClosedIs ==
  ASSUME TypeOK
  PROVE  /\ ClosedFiles \in Seq(File) /\ Len(ClosedFiles) = Out /\ Filed(ClosedFiles)
         /\ \A k \in 1..Out : k # Out => ClosedFiles[k] = files[k]
         /\ ClosedFiles[Out].held = files[Out].held
         /\ ClosedFiles[Out].moved = files[Out].moved
         /\ ClosedFiles[Out].synced = IF open THEN Len(files[Out].held) ELSE files[Out].synced
<1>1. CASE open
  <2>1. /\ ClosedFiles \in Seq(File) /\ Len(ClosedFiles) = Out
        /\ \A k \in 1..Out : k # Out => ClosedFiles[k] = files[k]
        /\ ClosedFiles[Out] = [held |-> files[Out].held,
                               synced |-> Len(files[Out].held), moved |-> files[Out].moved]
    BY <1>1, SyncedIs, FilesTyped DEF ClosedFiles, Out
  <2>2. DOMAIN ClosedFiles = 1..Out
    BY <2>1, LenProperties
  <2>3. Filed(ClosedFiles)
    BY <2>1, <2>2, FilesTyped DEF Filed
  <2>4. QED
    BY <1>1, <2>1, <2>3
<1>2. CASE ~open
  BY <1>2, FilesTyped DEF ClosedFiles, Out
<1>3. QED
  BY <1>1, <1>2

\* A new file is created.
LEMMA CreatedIs ==
  ASSUME NEW fs \in Seq(File), Filed(fs)
  PROVE  /\ Append(fs, NewFile) \in Seq(File) /\ Filed(Append(fs, NewFile))
         /\ Len(Append(fs, NewFile)) = Len(fs) + 1 /\ Len(fs) \in Nat
         /\ \A k \in 1..Len(fs) : Append(fs, NewFile)[k] = fs[k]
         /\ Append(fs, NewFile)[Len(fs) + 1] = NewFile
         /\ NewFile.synced = 0 /\ NewFile.moved = FALSE /\ NewFile.held = <<>> /\ Len(NewFile.held) = 0
<1>1. NewFile \in File /\ NewFile.synced = 0 /\ NewFile.held = <<>> /\ Len(NewFile.held) = 0
      /\ NewFile.moved = FALSE
  BY EmptySeq DEF NewFile, File
<1>2. /\ Append(fs, NewFile) \in Seq(File) /\ Len(fs) \in Nat
      /\ Len(Append(fs, NewFile)) = Len(fs) + 1
      /\ \A k \in 1..Len(fs) : Append(fs, NewFile)[k] = fs[k]
      /\ Append(fs, NewFile)[Len(fs) + 1] = NewFile
  BY <1>1, AppendProperties, LenProperties
<1>3. DOMAIN Append(fs, NewFile) = 1..(Len(fs) + 1) /\ DOMAIN fs = 1..Len(fs)
  BY <1>2, LenProperties
<1>4. \A k \in 1..(Len(fs) + 1) : Append(fs, NewFile)[k].synced <= Len(Append(fs, NewFile)[k].held)
  BY <1>1, <1>2, <1>3 DEF Filed
<1>5. QED
  BY <1>1, <1>2, <1>3, <1>4 DEF Filed

\* A file is moved.
LEMMA MovedIs ==
  ASSUME NEW fs \in Seq(File), Filed(fs), NEW c \in 1..Len(fs)
  PROVE  LET gs == [fs EXCEPT ![c].moved = TRUE]
         IN  /\ gs \in Seq(File) /\ Len(gs) = Len(fs) /\ Filed(gs)
             /\ \A k \in 1..Len(fs) : k # c => gs[k] = fs[k]
             /\ gs[c] = [held |-> fs[c].held, synced |-> fs[c].synced, moved |-> TRUE]
<1> DEFINE e == [held |-> fs[c].held, synced |-> fs[c].synced, moved |-> TRUE]
           gs == [fs EXCEPT ![c] = e]
<1>1. fs[c] \in File /\ DOMAIN fs = 1..Len(fs)
  BY ElementOfSeq, LenProperties
<1>2. e \in File /\ [fs[c] EXCEPT !.moved = TRUE] = e
  <2>1. e \in File
    BY <1>1 DEF File
  <2>2. QED
    BY <1>1, <2>1, FileExcept
<1>3. [fs EXCEPT ![c].moved = TRUE] = gs
  BY <1>2
<1>4. /\ gs \in Seq(File) /\ Len(gs) = Len(fs)
      /\ \A k \in 1..Len(fs) : gs[k] = IF k = c THEN e ELSE fs[k]
  BY <1>2, ExceptSeq
<1>5. DOMAIN gs = 1..Len(fs)
  BY <1>4, LenProperties
<1>6. Filed(gs)
  BY <1>1, <1>4, <1>5 DEF Filed
<1> HIDE DEF gs
<1>7. QED
  BY <1>3, <1>4, <1>6

-----------------------------------------------------------------------------
(* What the steps do to the files. *)

\* What a write may do: append to the file that is open, sync it.
LEMMA WriteIs ==
  ASSUME TypeOK, NEW t \in Tuples, files' \in {Appended(t), Synced(Appended(t))}
  PROVE  /\ Filed(files') /\ files' \in Seq(File) /\ Len(files') = Out /\ DOMAIN files' = 1..Out
         /\ \A k \in 1..Out : k # Out => files'[k] = files[k]
         /\ files'[Out].held = Append(files[Out].held, t)
         /\ files'[Out].moved = files[Out].moved
         /\ Len(files'[Out].held) = Len(files[Out].held) + 1
         /\ files' = Appended(t) => files'[Out].synced = files[Out].synced
         /\ files' = Synced(Appended(t)) => files'[Out].synced = Len(files'[Out].held)
<1>1. /\ Out \in 1..Out /\ files[Out].synced <= Len(files[Out].held) /\ Len(files[Out].held) \in Nat
      /\ files[Out].synced \in Nat /\ \A k \in 1..Out : files[k].synced <= Len(files[k].held)
  BY FilesTyped DEF File
<1> DEFINE fs == Appended(t)
<1>2. /\ fs \in Seq(File) /\ Len(fs) = Out
      /\ \A k \in 1..Out : k # Out => fs[k] = files[k]
      /\ fs[Out].held = Append(files[Out].held, t)
      /\ fs[Out].moved = files[Out].moved
      /\ fs[Out].synced = files[Out].synced
      /\ Len(fs[Out].held) = Len(files[Out].held) + 1
  <2> DEFINE h == Append(files[Out].held, t)
  <2>1. /\ fs \in Seq(File) /\ Len(fs) = Out
        /\ \A k \in 1..Out : k # Out => fs[k] = files[k]
        /\ fs[Out] = [held |-> h, synced |-> files[Out].synced, moved |-> files[Out].moved]
        /\ Len(h) = Len(files[Out].held) + 1
    BY AppendedIs
  <2> HIDE DEF fs, h
  <2>2. fs[Out].held = h /\ fs[Out].synced = files[Out].synced /\ fs[Out].moved = files[Out].moved
    BY <2>1
  <2>3. QED
    BY <2>1, <2>2 DEF h
<1> HIDE DEF fs
<1>3. /\ Synced(fs) \in Seq(File) /\ Len(Synced(fs)) = Out
      /\ \A k \in 1..Out : k # Out => Synced(fs)[k] = fs[k]
      /\ Synced(fs)[Out].held = fs[Out].held
      /\ Synced(fs)[Out].moved = fs[Out].moved
      /\ Synced(fs)[Out].synced = Len(fs[Out].held)
  <2> DEFINE ss == Synced(fs)
  <2>1. /\ ss \in Seq(File) /\ Len(ss) = Out
        /\ \A k \in 1..Out : k # Out => ss[k] = fs[k]
        /\ ss[Out] = [held |-> fs[Out].held, synced |-> Len(fs[Out].held), moved |-> fs[Out].moved]
    BY <1>2, SyncedIs
  <2> HIDE DEF ss
  <2>2. ss[Out].held = fs[Out].held /\ ss[Out].moved = fs[Out].moved
        /\ ss[Out].synced = Len(fs[Out].held)
    BY <2>1
  <2>3. QED
    BY <2>1, <2>2 DEF ss
<1>4. /\ files' \in Seq(File) /\ Len(files') = Out
      /\ \A k \in 1..Out : k # Out => files'[k] = files[k]
      /\ files'[Out].held = Append(files[Out].held, t)
      /\ files'[Out].moved = files[Out].moved
      /\ Len(files'[Out].held) = Len(files[Out].held) + 1
  BY <1>2, <1>3 DEF fs
<1>5. DOMAIN files' = 1..Out
  BY <1>4, LenProperties
<1>6. /\ files' = fs => files'[Out].synced = files[Out].synced
      /\ files' = Synced(fs) => files'[Out].synced = Len(files'[Out].held)
      /\ files' \in {fs, Synced(fs)}
  BY <1>2, <1>3 DEF fs
<1>7. files'[Out].synced <= Len(files'[Out].held)
  BY <1>1, <1>4, <1>6
<1>8. Filed(files')
  BY <1>1, <1>4, <1>5, <1>7 DEF Filed
<1>9. QED
  BY <1>4, <1>5, <1>6, <1>8 DEF fs

\* What a rotation does, and one whose action raises, which moves no file.
LEMMA RotateIs ==
  ASSUME TypeOK,
         files' \in {Append([ClosedFiles EXCEPT ![currentFile].moved = TRUE], NewFile),
                     Append(ClosedFiles, NewFile)}
  PROVE  /\ Filed(files') /\ files' \in Seq(File) /\ Len(files') = Out + 1
         /\ DOMAIN files' = 1..(Out + 1)
         /\ \A k \in 1..Out : /\ files'[k].held = files[k].held
                              /\ files'[k].synced = IF k = Out /\ open THEN Len(files[k].held)
                                                                     ELSE files[k].synced
         /\ files'[Out + 1] = NewFile
         /\ \A k \in 1..(Out - 1) : k # currentFile => files'[k] = files[k]
         /\ Out # currentFile => files'[Out].moved = files[Out].moved
         /\ files' = Append([ClosedFiles EXCEPT ![currentFile].moved = TRUE], NewFile)
              => files'[currentFile].moved = TRUE
         /\ files' = Append(ClosedFiles, NewFile)
              => files'[currentFile].moved = files[currentFile].moved
<1> DEFINE fs == ClosedFiles
           gs == [fs EXCEPT ![currentFile].moved = TRUE]
<1>1. Out \in Nat /\ currentFile \in 1..Out /\ Out \in 1..Out
  BY FilesTyped
<1>2. /\ fs \in Seq(File) /\ Len(fs) = Out /\ Filed(fs)
      /\ \A k \in 1..Out : k # Out => fs[k] = files[k]
      /\ fs[Out].held = files[Out].held
      /\ fs[Out].moved = files[Out].moved
      /\ fs[Out].synced = IF open THEN Len(files[Out].held) ELSE files[Out].synced
  BY ClosedIs
<1> HIDE DEF fs
<1>3. /\ gs \in Seq(File) /\ Len(gs) = Out /\ Filed(gs)
      /\ \A k \in 1..Out : k # currentFile => gs[k] = fs[k]
      /\ gs[currentFile].held = fs[currentFile].held
      /\ gs[currentFile].synced = fs[currentFile].synced
      /\ gs[currentFile].moved = TRUE
  <2>1. /\ gs \in Seq(File) /\ Len(gs) = Len(fs) /\ Filed(gs)
        /\ \A k \in 1..Len(fs) : k # currentFile => gs[k] = fs[k]
        /\ gs[currentFile] = [held |-> fs[currentFile].held, synced |-> fs[currentFile].synced,
                               moved |-> TRUE]
    BY <1>1, <1>2, MovedIs
  <2> HIDE DEF gs
  <2>2. QED
    BY <1>2, <2>1
<1> HIDE DEF gs
<1>4. PICK hs \in {fs, gs} : files' = Append(hs, NewFile)
  BY DEF fs, gs
<1>5. hs \in Seq(File) /\ Len(hs) = Out /\ Filed(hs)
  BY <1>2, <1>3, <1>4
<1>6. /\ Filed(files') /\ files' \in Seq(File) /\ Len(files') = Out + 1
      /\ \A k \in 1..Out : files'[k] = hs[k]
      /\ files'[Out + 1] = NewFile
  BY <1>4, <1>5, CreatedIs
<1>7. DOMAIN files' = 1..(Out + 1)
  BY <1>6, LenProperties
<1>8. \A k \in 1..Out : hs[k].held = fs[k].held /\ hs[k].synced = fs[k].synced
  BY <1>3, <1>4
<1>9. \A k \in 1..Out : k # currentFile => hs[k] = fs[k]
  BY <1>3, <1>4
<1>10. \A k \in 1..Out : /\ files'[k].held = files[k].held
                         /\ files'[k].synced = IF k = Out /\ open THEN Len(files[k].held)
                                                                ELSE files[k].synced
  BY <1>2, <1>6, <1>8
<1>11. \A k \in 1..(Out - 1) : k # currentFile => files'[k] = files[k]
  <2>1. \A k \in 1..(Out - 1) : k \in 1..Out /\ k # Out
    BY <1>1
  <2>2. QED
    BY <1>2, <1>6, <1>9, <2>1
<1>12. Out # currentFile => files'[Out].moved = files[Out].moved
  BY <1>1, <1>2, <1>6, <1>9
<1>13. /\ files' = Append(gs, NewFile) => files'[currentFile].moved = TRUE
       /\ files' = Append(fs, NewFile) => files'[currentFile].moved = files[currentFile].moved
  <2>1. /\ files' = Append(gs, NewFile) => files'[currentFile] = gs[currentFile]
        /\ files' = Append(fs, NewFile) => files'[currentFile] = fs[currentFile]
    BY <1>1, <1>2, <1>3, CreatedIs
  <2>2. fs[currentFile].moved = files[currentFile].moved
    BY <1>1, <1>2
  <2>3. QED
    BY <1>3, <2>1, <2>2
<1>14. QED
  BY <1>6, <1>7, <1>10, <1>11, <1>12, <1>13 DEF fs, gs

\* What a crash leaves: of the file that was open, what was synced.
LEMMA RestartIs ==
  ASSUME TypeOK, Restart
  PROVE  /\ Filed(files') /\ files' \in Seq(File) /\ Len(files') = Out + 1
         /\ DOMAIN files' = 1..(Out + 1)
         /\ \A k \in 1..(Out - 1) : files'[k] = files[k]
         /\ files'[Out].synced = files[Out].synced /\ files'[Out].moved = files[Out].moved
         /\ Len(files'[Out].held) = files[Out].synced
         /\ \A i \in 1..files[Out].synced : files'[Out].held[i] = files[Out].held[i]
         /\ files'[Out + 1] = NewFile
<1> DEFINE h == SubSeq(files[Out].held, 1, files[Out].synced)
           e == [held |-> h, synced |-> files[Out].synced, moved |-> files[Out].moved]
           fs == [files EXCEPT ![Out] = e]
<1>1. /\ Out \in Nat /\ Out \in 1..Out /\ files \in Seq(File) /\ Filed(files) /\ files[Out] \in File
      /\ files[Out].synced <= Len(files[Out].held)
      /\ \A k \in 1..Out : files[k].synced <= Len(files[k].held)
  BY FilesTyped
<1>2. files[Out].held \in Seq(Tuples) /\ files[Out].synced \in Nat /\ Len(files[Out].held) \in Nat
      /\ files[Out].moved \in BOOLEAN
  BY <1>1, LenProperties DEF File
<1>3. \A i \in 1..files[Out].synced : i \in 1..Len(files[Out].held) /\ files[Out].held[i] \in Tuples
  <2>1. \A i \in 1..files[Out].synced : i \in 1..Len(files[Out].held)
    BY <1>1, <1>2
  <2>2. QED
    BY <1>2, <2>1, ElementOfSeq
<1>4. /\ h \in Seq(Tuples) /\ Len(h) = files[Out].synced
      /\ \A i \in 1..files[Out].synced : h[i] = files[Out].held[i]
  <2> DEFINE n == files[Out].synced
             q == files[Out].held
  <2>1. n \in Nat /\ \A i \in 1..n : q[i] \in Tuples
    BY <1>2, <1>3
  <2> HIDE DEF n, q
  <2>2. /\ SubSeq(q, 1, n) \in Seq(Tuples)
        /\ Len(SubSeq(q, 1, n)) = IF 1 <= n THEN n - 1 + 1 ELSE 0
        /\ \A i \in 1..(n - 1 + 1) : SubSeq(q, 1, n)[i] = q[1 + i - 1]
    BY <2>1, SubSeqProperties
  <2>3. Len(SubSeq(q, 1, n)) = n
    BY <2>1, <2>2
  <2>4. \A i \in 1..n : SubSeq(q, 1, n)[i] = q[i]
    BY <2>1, <2>2
  <2>5. QED
    BY <2>2, <2>3, <2>4 DEF n, q
<1> HIDE DEF h
<1>5. e \in File
  BY <1>2, <1>4 DEF File
<1>6. [files EXCEPT ![Out].held = SubSeq(files[Out].held, 1, files[Out].synced)] = fs
  BY <1>1, FileExcept DEF h
<1>7. /\ fs \in Seq(File) /\ Len(fs) = Out
      /\ \A k \in 1..Out : fs[k] = IF k = Out THEN e ELSE files[k]
  <2>1. Len(files) = Out
    BY DEF Out
  <2>2. QED
    BY <1>1, <1>5, <2>1, ExceptSeq
<1> HIDE DEF fs
<1>8. DOMAIN fs = 1..Out
  BY <1>7, LenProperties
<1>9. Filed(fs)
  BY <1>1, <1>4, <1>7, <1>8 DEF Filed
<1>10. files' = Append(fs, NewFile)
  BY <1>6 DEF Restart
<1>11. /\ Filed(files') /\ files' \in Seq(File) /\ Len(files') = Out + 1
       /\ \A k \in 1..Out : files'[k] = fs[k]
       /\ files'[Out + 1] = NewFile
  BY <1>7, <1>9, <1>10, CreatedIs
<1>12. DOMAIN files' = 1..(Out + 1)
  BY <1>11, LenProperties
<1>13. \A k \in 1..(Out - 1) : files'[k] = files[k]
  <2>1. \A k \in 1..(Out - 1) : k \in 1..Out /\ k # Out
    BY <1>1
  <2>2. QED
    BY <1>7, <1>11, <2>1
<1>14. files'[Out] = e
  BY <1>1, <1>7, <1>11
<1>15. QED
  BY <1>4, <1>11, <1>12, <1>13, <1>14

-----------------------------------------------------------------------------
(* Types. *)

\* A fault is counted within its bound.
LEMMA FaultIs ==
  ASSUME TypeOK, Fault
  PROVE  faults' \in 0..MaxFaults /\ faults' = faults + 1 /\ faults \in Nat
  BY BoltAssumption DEF TypeOK, Fault

\* The offset counts on.
LEMMA OffsetTypes ==
  ASSUME TypeOK
  PROVE  NewOffset \in Nat
<1>1. Len(files[Out].held) \in Nat /\ offset \in Nat
  BY FilesTyped DEF TypeOK
<1>2. QED
  BY <1>1 DEF NewOffset

\* The files of a rotation that raises are files.
LEMMA RaiseTypes ==
  ASSUME TypeOK, RotationRaises
  PROVE  /\ Filed(files') /\ currentFile' \in DOMAIN files' /\ open' \in BOOLEAN
         /\ faults' \in 0..MaxFaults
<1>1. CASE CloseRaises
  BY <1>1, FilesTyped, FaultIs DEF CloseRaises, TypeOK
<1>2. CASE CreateRaises
  <2>1. Filed(files') /\ DOMAIN files' = 1..Out
    <3>1. files' = ClosedFiles
      BY <1>2 DEF CreateRaises
    <3>2. ClosedFiles \in Seq(File) /\ Len(ClosedFiles) = Out /\ Filed(ClosedFiles)
      BY ClosedIs
    <3>3. QED
      BY <3>1, <3>2, LenProperties
  <2>2. QED
    BY <1>2, <2>1, FilesTyped, FaultIs DEF CreateRaises
<1>3. CASE ActionRaises
  <2>1. Filed(files') /\ DOMAIN files' = 1..(Out + 1)
    BY <1>3, RotateIs DEF ActionRaises
  <2>2. currentFile \in 1..(Out + 1)
    BY FilesTyped
  <2>3. QED
    BY <1>3, <2>1, <2>2, FaultIs DEF ActionRaises
<1>4. QED
  BY <1>1, <1>2, <1>3 DEF RotationRaises

\* The files of a rotation, and of a restart, are files.
LEMMA RotatedTypes ==
  ASSUME TypeOK, Rotates \/ Restart
  PROVE  Filed(files') /\ currentFile' \in DOMAIN files' /\ open' \in BOOLEAN
<1>1. Out + 1 \in 1..(Out + 1)
  BY FilesTyped
<1>2. Filed(files') /\ DOMAIN files' = 1..(Out + 1)
  BY RotateIs, RestartIs DEF Rotates, Rotated, RenameRefused
<1>3. QED
  BY <1>1, <1>2 DEF Rotates, Rotated, RenameRefused, Restart

\* A rotation that raises nothing counts as a fault when its rename is refused.
LEMMA RotatesFaults ==
  ASSUME TypeOK, Rotates
  PROVE  faults' \in 0..MaxFaults /\ faults' \in {faults, faults + 1}
<1>1. CASE Rotated
  BY <1>1 DEF Rotated, TypeOK
<1>2. CASE RenameRefused
  BY <1>2, FaultIs DEF RenameRefused, Fault
<1>3. QED
  BY <1>1, <1>2 DEF Rotates

\* Every step keeps the types.
LEMMA TypeStep ==
  ASSUME Typed, [Next]_vars
  PROVE  Typed'
<1> USE DEF Typed
<1>1. /\ Filed(files) /\ currentFile \in DOMAIN files /\ open \in BOOLEAN
      /\ tuples \in [Tuples -> {"waiting", "acked", "failed"}]
      /\ kind \in Kinds /\ rotation \in Policies /\ tuple \in Tuples
      /\ pc \in {"idle", "written", "rotate"} /\ executeCount \in Nat
      /\ offset \in Nat /\ bytes \in Nat /\ last \in Nat /\ faults \in 0..MaxFaults
      /\ bytes = last
  BY FilesTyped DEF TypeOK
<1>2. ASSUME Filed(files'), currentFile' \in DOMAIN files', open' \in BOOLEAN,
             tuples' \in [Tuples -> {"waiting", "acked", "failed"}],
             UNCHANGED config, tuple' \in Tuples,
             pc' \in {"idle", "written", "rotate"}, executeCount' \in Nat,
             offset' \in Nat, bytes' \in Nat, last' \in Nat, faults' \in 0..MaxFaults,
             bytes' = last'
      PROVE  Typed'
  BY <1>1, <1>2 DEF TypeOK, Filed, File, config
<1>3. ASSUME NEW t \in Tuples, WriteTuple(t) PROVE Typed'
  <2>1. Filed(files') /\ DOMAIN files' = 1..Out
    BY <1>3, WriteIs DEF WriteTuple
  <2>2. executeCount' \in Nat
    BY <1>1, <1>3 DEF WriteTuple
  <2>3. currentFile' \in DOMAIN files'
    BY <1>3, <2>1, FilesTyped DEF WriteTuple
  <2>4. QED
    BY <1>1, <1>2, <1>3, <2>1, <2>2, <2>3, OffsetTypes DEF WriteTuple
<1>4. ASSUME NEW t \in Tuples, WriteFails(t) PROVE Typed'
  <2>1. faults' \in 0..MaxFaults
    BY <1>1, <1>4, FaultIs DEF WriteFails
  <2>2. tuples' \in [Tuples -> {"waiting", "acked", "failed"}] /\ pc' = "idle"
    BY <1>1, <1>4 DEF WriteFails, Fail
  <2>3. QED
    BY <1>1, <1>2, <1>4, <2>1, <2>2 DEF WriteFails, stream, policy
<1>5. ASSUME NEW t \in Tuples, SyncFails(t) PROVE Typed'
  <2>1. Filed(files') /\ DOMAIN files' = 1..Out
    BY <1>5, WriteIs DEF SyncFails
  <2>2. tuples' \in [Tuples -> {"waiting", "acked", "failed"}] /\ pc' = "idle"
    BY <1>1, <1>5 DEF SyncFails, Fail
  <2>3. currentFile' \in DOMAIN files' /\ executeCount' \in Nat /\ faults' \in 0..MaxFaults
    BY <1>1, <1>5, <2>1, FilesTyped, FaultIs DEF SyncFails
  <2>4. QED
    BY <1>1, <1>2, <1>5, <2>1, <2>2, <2>3, OffsetTypes DEF SyncFails
<1>6. CASE AckTuple
  <2>1. bytes + offset - last = offset
    BY <1>1
  <2>2. bytes' = last' /\ bytes' \in Nat /\ pc' \in {"idle", "rotate"}
    BY <1>1, <1>6, <2>1 DEF AckTuple
  <2>3. tuples' \in [Tuples -> {"waiting", "acked", "failed"}]
    BY <1>1, <1>6 DEF AckTuple
  <2>4. QED
    BY <1>1, <1>2, <1>6, <2>2, <2>3 DEF AckTuple, stream
<1>7. CASE ExecutorRotates
  BY <1>1, <1>2, <1>7, RotatedTypes, RotatesFaults DEF ExecutorRotates, ResetPolicy
<1>8. CASE ExecutorRotationFails
  BY <1>1, <1>2, <1>8, RaiseTypes DEF ExecutorRotationFails, policy
<1>9. CASE TimerRotates
  BY <1>1, <1>2, <1>9, RotatedTypes, RotatesFaults DEF TimerRotates, policy
<1>10. CASE TimerRotationFails
  BY <1>1, <1>2, <1>10, RaiseTypes DEF TimerRotationFails, policy
<1>11. CASE Crash
  BY <1>1, <1>2, <1>11, RotatedTypes, FaultIs DEF Crash, Restart
<1>12. CASE AppendKills
  BY <1>1, <1>2, <1>12, RotatedTypes DEF AppendKills, Restart
<1>13. CASE UNCHANGED vars
  BY <1>1, <1>2, <1>13 DEF vars, stream, policy
<1>14. QED
  BY <1>3, <1>4, <1>5, <1>6, <1>7, <1>8, <1>9, <1>10, <1>11, <1>12, <1>13 DEF Next, Execute

\* The initial state has its types.
LEMMA InitTypes ==
  ASSUME Init
  PROVE  /\ Typed /\ files \in Seq(File) /\ Out = 1 /\ files[1] = NewFile /\ DOMAIN files = 1..1
         /\ files[1].moved = FALSE /\ Len(files[1].held) = 0 /\ files[1].held = <<>>
<1>1. NewFile \in File /\ NewFile.synced = 0 /\ NewFile.held = <<>> /\ Len(NewFile.held) = 0
      /\ NewFile.moved = FALSE
  BY EmptySeq DEF NewFile, File
<1>2. files = <<NewFile>>
  BY DEF Init
<1>3. files \in Seq(File) /\ Len(files) = 1 /\ files[1] = NewFile
  BY <1>1, <1>2
<1>4. DOMAIN files = 1..1
  BY <1>3, LenProperties
<1>5. faults \in 0..MaxFaults
  BY BoltAssumption DEF Init
<1>6. tuples \in [Tuples -> {"waiting", "acked", "failed"}]
  BY DEF Init
<1>7. \A k \in DOMAIN files : files[k].synced <= Len(files[k].held)
  BY <1>1, <1>3, <1>4
<1>8. Typed
  BY <1>3, <1>4, <1>5, <1>6, <1>7 DEF Init, Typed, TypeOK, File
<1>9. QED
  BY <1>1, <1>3, <1>4, <1>8 DEF Out

-----------------------------------------------------------------------------
(* The files a bolt leaves. *)

\* Files that were closed and not moved.
Unmoved == {k \in 1..(Out - 1) : files[k].moved = FALSE}

\* The file written to, and the one the next rotation moves, have not been moved;
\* every file left behind, and a stream that is closed, was paid by a fault.
FilesInv ==
  /\ files[Out].moved = FALSE
  /\ files[currentFile].moved = FALSE
  /\ Cardinality(Unmoved) + (IF open THEN 0 ELSE 1) <= faults

LEMMA UnmovedFinite == TypeOK => IsFiniteSet(Unmoved) /\ Cardinality(Unmoved) \in Nat
<1> SUFFICES ASSUME TypeOK PROVE IsFiniteSet(Unmoved) /\ Cardinality(Unmoved) \in Nat
  OBVIOUS
<1>1. IsFiniteSet(1..(Out - 1))
  <2>1. Out - 1 \in Nat
    BY FilesTyped
  <2>2. QED
    BY <2>1, FS_Interval
<1>2. QED
  BY <1>1, FS_Subset, FS_CardinalityType DEF Unmoved

\* The files but the last are as they were.
LEMMA SameUnmoved ==
  ASSUME TypeOK, Len(files') = Out, \A k \in 1..Out : k # Out => files'[k] = files[k]
  PROVE  Unmoved' = Unmoved
<1>1. Out' = Out /\ \A k \in 1..(Out - 1) : files'[k] = files[k]
  BY FilesTyped DEF Out
<1>2. QED
  BY <1>1 DEF Unmoved

\* A file is created before the one that was open has been moved.
LEMMA OneMoreUnmoved ==
  ASSUME TypeOK, FilesInv, Len(files') = Out + 1,
         \A k \in 1..Out : files'[k].moved = files[k].moved
  PROVE  Cardinality(Unmoved') = Cardinality(Unmoved) + 1
<1>1. Out' = Out + 1 /\ Out \in Nat /\ Out >= 1
  BY FilesTyped DEF Out
<1>2. files[Out].moved = FALSE
  BY DEF FilesInv
<1>3. Unmoved' = Unmoved \union {Out}
  <2>1. Unmoved' = {k \in 1..Out : files'[k].moved = FALSE}
    BY <1>1 DEF Unmoved
  <2>2. 1..Out = 1..(Out - 1) \union {Out}
    BY <1>1
  <2>3. QED
    BY <1>2, <2>1, <2>2 DEF Unmoved
<1>4. Out \notin Unmoved
  BY <1>1 DEF Unmoved
<1>5. QED
  BY <1>3, <1>4, UnmovedFinite, FS_AddElement

\* A rotation moves the current file and leaves the one it closed, if that is
\* another.
LEMMA RotatedUnmoved ==
  ASSUME TypeOK, FilesInv, Rotated
  PROVE  Cardinality(Unmoved') = Cardinality(Unmoved)
<1> DEFINE c == currentFile
<1>1. Out \in Nat /\ Out >= 1 /\ c \in 1..Out
  BY FilesTyped
<1>2. /\ Len(files') = Out + 1
      /\ \A k \in 1..(Out - 1) : k # c => files'[k] = files[k]
      /\ Out # c => files'[Out].moved = files[Out].moved
      /\ files'[c].moved = TRUE
  BY RotateIs DEF Rotated
<1>3. Out' = Out + 1
  BY <1>2 DEF Out
<1>4. Unmoved' = {k \in 1..Out : files'[k].moved = FALSE}
  BY <1>1, <1>3 DEF Unmoved
<1>5. CASE c = Out
  <2>1. Unmoved' = Unmoved
    <3>1. 1..Out = 1..(Out - 1) \union {Out} /\ \A k \in 1..(Out - 1) : k # Out
      BY <1>1
    <3>2. QED
      BY <1>2, <1>4, <1>5, <3>1 DEF Unmoved
  <2>2. QED
    BY <2>1
<1>6. CASE c # Out
  <2>1. 1..Out = 1..(Out - 1) \union {Out} /\ c \in 1..(Out - 1) /\ Out \notin 1..(Out - 1)
    BY <1>1, <1>6
  <2>2. files[Out].moved = FALSE /\ files[c].moved = FALSE
    BY DEF FilesInv
  <2>3. Unmoved' = (Unmoved \ {c}) \union {Out}
    BY <1>2, <1>4, <1>6, <2>1, <2>2 DEF Unmoved
  <2>4. c \in Unmoved /\ Out \notin Unmoved \ {c}
    BY <2>1, <2>2 DEF Unmoved
  <2>5. IsFiniteSet(Unmoved \ {c}) /\ Cardinality(Unmoved \ {c}) = Cardinality(Unmoved) - 1
    BY <2>4, UnmovedFinite, FS_RemoveElement
  <2>6. Cardinality((Unmoved \ {c}) \union {Out}) = Cardinality(Unmoved \ {c}) + 1
    BY <2>4, <2>5, FS_AddElement
  <2>7. Cardinality(Unmoved) \in Nat
    BY UnmovedFinite
  <2>8. QED
    BY <2>3, <2>5, <2>6, <2>7
<1>7. QED
  BY <1>5, <1>6

\* Each step keeps what is said of the files; the last conjunct is what a
\* moved file needs.
LEMMA FilesStep ==
  ASSUME TypeOK, FilesInv, [Next]_vars
  PROVE  FilesInv' /\ \A k \in 1..Out : files[k].moved = TRUE => files'[k] = files[k]
<1> DEFINE Rest == \A k \in 1..Out : files[k].moved = TRUE => files'[k] = files[k]
<1>1. /\ Out \in Nat /\ Out >= 1 /\ Out \in 1..Out /\ currentFile \in 1..Out
      /\ files[Out].moved = FALSE /\ files[currentFile].moved = FALSE
      /\ Cardinality(Unmoved) + (IF open THEN 0 ELSE 1) <= faults
      /\ Cardinality(Unmoved) \in Nat /\ faults \in Nat
      /\ NewFile.moved = FALSE
  BY FilesTyped, UnmovedFinite, BoltAssumption DEF FilesInv, TypeOK, NewFile
\* What is written to stays in its place.
<1>2. ASSUME Len(files') = Out, \A k \in 1..Out : k # Out => files'[k] = files[k],
             files'[Out].moved = files[Out].moved, currentFile' = currentFile,
             \/ UNCHANGED open /\ (faults' = faults \/ faults' = faults + 1)
             \/ open' \in BOOLEAN /\ faults' = faults + 1
      PROVE  FilesInv' /\ Rest
  <2>1. Unmoved' = Unmoved /\ Out' = Out
    BY <1>2, SameUnmoved DEF Out
  <2>2. files'[Out'].moved = FALSE /\ files'[currentFile'].moved = FALSE
    BY <1>1, <1>2, <2>1
  <2>3. Cardinality(Unmoved)' + (IF open' THEN 0 ELSE 1) <= faults'
    BY <1>1, <1>2, <2>1
  <2>4. Rest
    BY <1>1, <1>2
  <2>5. QED
    BY <2>2, <2>3, <2>4 DEF FilesInv
<1>3. ASSUME files' = files, currentFile' = currentFile,
             \/ UNCHANGED open /\ (faults' = faults \/ faults' = faults + 1)
             \/ open' \in BOOLEAN /\ faults' = faults + 1
      PROVE  FilesInv' /\ Rest
  BY <1>2, <1>3 DEF Out
<1>4. ASSUME NEW t \in Tuples, WriteTuple(t) \/ SyncFails(t)
      PROVE  FilesInv' /\ Rest
  <2>1. files' \in {Appended(t), Synced(Appended(t))}
    BY <1>4 DEF WriteTuple, SyncFails
  <2>2. UNCHANGED <<open, currentFile>> /\ (faults' = faults \/ faults' = faults + 1)
    BY <1>4 DEF WriteTuple, SyncFails, Fault
  <2>3. /\ Len(files') = Out /\ \A k \in 1..Out : k # Out => files'[k] = files[k]
        /\ files'[Out].moved = files[Out].moved
    BY <2>1, WriteIs
  <2>4. QED
    BY <1>2, <2>2, <2>3
<1>5. ASSUME Rotated PROVE FilesInv' /\ Rest
  <2>1. /\ Out' = Out + 1 /\ files'[Out + 1] = NewFile /\ currentFile' = Out + 1 /\ open' = TRUE
        /\ \A k \in 1..(Out - 1) : k # currentFile => files'[k] = files[k]
    BY <1>5, RotateIs DEF Rotated, Out
  <2>2. Cardinality(Unmoved)' = Cardinality(Unmoved)
    BY <1>5, RotatedUnmoved
  <2>3. FilesInv'
    <3>1. faults' = faults
      BY <1>5 DEF Rotated
    <3>2. QED
      BY <1>1, <2>1, <2>2, <3>1 DEF FilesInv
  <2>4. Rest
    BY <1>1, <2>1
  <2>5. QED
    BY <2>3, <2>4
<1>6. ASSUME ActionRaises \/ RenameRefused PROVE FilesInv' /\ Rest
  <2>1. /\ Len(files') = Out + 1 /\ files'[Out + 1] = NewFile
        /\ \A k \in 1..(Out - 1) : k # currentFile => files'[k] = files[k]
        /\ Out # currentFile => files'[Out].moved = files[Out].moved
        /\ files'[currentFile].moved = files[currentFile].moved
    BY <1>6, RotateIs DEF ActionRaises, RenameRefused
  <2>2. /\ currentFile' \in {currentFile, Out + 1} /\ open' = TRUE
        /\ faults' = faults + 1 /\ Out' = Out + 1
    BY <1>6, <2>1 DEF ActionRaises, RenameRefused, Fault, Out
  <2>3. \A k \in 1..Out : files'[k].moved = files[k].moved
    <3>1. \A k \in 1..Out : k \in 1..(Out - 1) \/ k = Out
      BY <1>1
    <3>2. QED
      BY <2>1, <3>1
  <2>4. Cardinality(Unmoved)' = Cardinality(Unmoved) + 1
    BY <2>1, <2>3, OneMoreUnmoved
  <2>5. FilesInv'
    BY <1>1, <2>1, <2>2, <2>4 DEF FilesInv
  <2>6. Rest
    BY <1>1, <2>1
  <2>7. QED
    BY <2>5, <2>6
<1>7. ASSUME Restart, faults' = faults + 1 \/ (open = FALSE /\ faults' = faults)
      PROVE  FilesInv' /\ Rest
  <2>1. /\ Len(files') = Out + 1 /\ files'[Out + 1] = NewFile
        /\ \A k \in 1..(Out - 1) : files'[k] = files[k]
        /\ files'[Out].moved = files[Out].moved
    BY <1>7, RestartIs
  <2>2. currentFile' = Out + 1 /\ open' = TRUE /\ Out' = Out + 1
    BY <1>7, <2>1 DEF Restart, Out
  <2>3. \A k \in 1..Out : files'[k].moved = files[k].moved
    <3>1. \A k \in 1..Out : k \in 1..(Out - 1) \/ k = Out
      BY <1>1
    <3>2. QED
      BY <2>1, <3>1
  <2>4. Cardinality(Unmoved)' = Cardinality(Unmoved) + 1
    BY <2>1, <2>3, OneMoreUnmoved
  <2>5. Cardinality(Unmoved)' <= faults'
    BY <1>1, <1>7, <2>4
  <2>6. FilesInv'
    BY <1>1, <2>1, <2>2, <2>5, <2>4 DEF FilesInv
  <2>7. Rest
    BY <1>1, <2>1
  <2>8. QED
    BY <2>6, <2>7
<1>8. ASSUME RotationRaises PROVE FilesInv' /\ Rest
  <2>1. CASE CloseRaises
    BY <1>3, <2>1 DEF CloseRaises, Fault
  <2>2. CASE CreateRaises
    <3>1. files' = ClosedFiles /\ open' = FALSE /\ currentFile' = currentFile /\ faults' = faults + 1
      BY <2>2 DEF CreateRaises, Fault
    <3>2. QED
      BY <1>2, <3>1, ClosedIs
  <2>3. QED
    BY <1>6, <1>8, <2>1, <2>2 DEF RotationRaises
<1>9. CASE Crash
  BY <1>7, <1>9 DEF Crash, Fault
<1>10. CASE AppendKills
  BY <1>7, <1>10 DEF AppendKills, TypeOK
<1>11. ASSUME NEW t \in Tuples, WriteFails(t) PROVE FilesInv' /\ Rest
  <2>1. UNCHANGED stream /\ (faults' = faults \/ faults' = faults + 1)
    BY <1>11 DEF WriteFails, Fault
  <2>2. QED
    BY <1>3, <2>1 DEF stream
<1>12. CASE AckTuple
  BY <1>3, <1>12 DEF AckTuple, stream
<1>13. CASE UNCHANGED vars
  BY <1>3, <1>13 DEF vars, stream
<1>14. CASE ExecutorRotates \/ TimerRotates
  BY <1>5, <1>6, <1>14 DEF ExecutorRotates, TimerRotates, Rotates
<1>15. CASE ExecutorRotationFails \/ TimerRotationFails
  BY <1>8, <1>15 DEF ExecutorRotationFails, TimerRotationFails
<1>16. QED
  BY <1>4, <1>9, <1>10, <1>11, <1>12, <1>13, <1>14, <1>15 DEF Next, Execute

-----------------------------------------------------------------------------
(* How long a file gets. *)

\* Between two tuples a file of the size policy is below the limit, but for the
\* records of failed executions; what the policy is about to see of it is at least
\* what it holds.
SizeInv ==
  rotation = "size" =>
    /\ \A k \in 1..Out : Len(files[k].held) <= maxBytes + faults
    /\ pc = "idle" => Len(files[Out].held) <= maxBytes - 1 + faults
    /\ kind = "hdfs" \/ pc = "written" => offset >= Len(files[Out].held)

LEMMA SizeStep ==
  ASSUME Typed, SizeInv, [Next]_vars
  PROVE  SizeInv'
<1> SUFFICES ASSUME rotation' = "size" PROVE SizeInv'
  BY DEF SizeInv
<1>1. rotation = "size" /\ kind' = kind /\ rotation' = rotation
  BY DEF Next, vars, config, Execute, WriteTuple, WriteFails, SyncFails, AckTuple, ExecutorRotates,
     ExecutorRotationFails, TimerRotates, TimerRotationFails, Crash, AppendKills, Restart
<1>2. /\ \A k \in 1..Out : Len(files[k].held) <= maxBytes + faults
      /\ pc = "idle" => Len(files[Out].held) <= maxBytes - 1 + faults
      /\ kind = "hdfs" \/ pc = "written" => offset >= Len(files[Out].held)
  BY <1>1 DEF SizeInv
<1>3. /\ Out \in Nat /\ Out >= 1 /\ Out \in 1..Out
      /\ \A k \in 1..Out : Len(files[k].held) \in Nat
      /\ maxBytes \in Nat /\ maxBytes >= 1 /\ faults \in Nat /\ offset \in Nat
      /\ bytes = last /\ bytes \in Nat /\ Len(NewFile.held) = 0 /\ TypeOK
      /\ kind \in {"hdfs", "sequence"}
  <2>1. Out \in Nat /\ Out >= 1 /\ Out \in 1..Out /\ \A k \in 1..Out : Len(files[k].held) \in Nat
    BY FilesTyped DEF Typed
  <2>2. maxBytes \in Nat /\ maxBytes >= 1 /\ faults \in Nat
    BY BoltAssumption DEF Typed, TypeOK
  <2>3. offset \in Nat /\ bytes = last /\ bytes \in Nat /\ TypeOK
    BY DEF Typed, TypeOK
  <2>4. Len(NewFile.held) = 0
    BY EmptySeq DEF NewFile
  <2>5. kind \in {"hdfs", "sequence"}
    BY BoltAssumption DEF Typed, TypeOK
  <2>6. QED
    BY <2>1, <2>2, <2>3, <2>4, <2>5
\* The files stay.
<1>4. ASSUME Len(files') = Out, \A k \in 1..Out : files'[k].held = files[k].held,
             faults' \in {faults, faults + 1},
             pc' = "idle" => pc = "idle" \/ faults' = faults + 1 \/ Len(files[Out].held) < maxBytes,
             pc' = "written" => pc = "written",
             offset' = offset
      PROVE  SizeInv'
  <2>1. Out' = Out /\ \A k \in 1..Out : Len(files'[k].held) <= maxBytes + faults'
    BY <1>2, <1>3, <1>4 DEF Out
  <2>2. pc' = "idle" => Len(files'[Out].held) <= maxBytes - 1 + faults'
    BY <1>2, <1>3, <1>4
  <2>3. kind' = "hdfs" \/ pc' = "written" => offset' >= Len(files'[Out].held)
    BY <1>1, <1>2, <1>3, <1>4
  <2>4. QED
    BY <2>1, <2>2, <2>3 DEF SizeInv
\* A new file is added to what was there, or what was synced of it.
<1>5. ASSUME Len(files') = Out + 1, files'[Out + 1] = NewFile, pc' = "idle", offset' \in Nat,
             faults' \in {faults, faults + 1},
             \A k \in 1..Out : Len(files'[k].held) <= Len(files[k].held)
                              /\ Len(files'[k].held) \in Nat
      PROVE  SizeInv'
  <2>1. Out' = Out + 1
    BY <1>5 DEF Out
  <2>2. ASSUME NEW k \in 1..Out PROVE Len(files'[k].held) <= maxBytes + faults'
    <3>1. Len(files[k].held) \in Nat /\ Len(files[k].held) <= maxBytes + faults
      BY <1>2, <1>3
    <3>2. Len(files'[k].held) \in Nat /\ Len(files'[k].held) <= Len(files[k].held)
      BY <1>5
    <3>3. maxBytes + faults <= maxBytes + faults' /\ maxBytes + faults' \in Nat
      <4>1. maxBytes \in Nat /\ faults \in Nat /\ (faults' = faults \/ faults' = faults + 1)
        BY <1>3, <1>5
      <4>2. QED
        BY <4>1
    <3>4. QED
      BY <1>3, <3>1, <3>2, <3>3
  <2>3. \A k \in 1..(Out + 1) : Len(files'[k].held) <= maxBytes + faults'
    <3>1. \A k \in 1..(Out + 1) : k \in 1..Out \/ k = Out + 1
      BY <1>3
    <3>2. Len(files'[Out + 1].held) <= maxBytes + faults'
      BY <1>3, <1>5
    <3>3. QED
      BY <2>2, <3>1, <3>2
  <2>4. Len(files'[Out + 1].held) <= maxBytes - 1 + faults'
    BY <1>3, <1>5
  <2>5. offset' >= Len(files'[Out + 1].held)
    BY <1>3, <1>5
  <2>6. QED
    BY <2>1, <2>3, <2>4, <2>5 DEF SizeInv
<1>6. ASSUME NEW t \in Tuples, WriteTuple(t) \/ SyncFails(t) PROVE SizeInv'
  <2>1. pc = "idle" /\ files' \in {Appended(t), Synced(Appended(t))} /\ offset' = NewOffset
        /\ \/ pc' = "written" /\ faults' = faults
           \/ pc' = "idle" /\ faults' = faults + 1
    BY <1>6 DEF WriteTuple, SyncFails, Fault, Fail
  <2>2. /\ Len(files') = Out /\ \A k \in 1..Out : k # Out => files'[k] = files[k]
        /\ Len(files'[Out].held) = Len(files[Out].held) + 1
    BY <1>3, <2>1, WriteIs
  <2>3. Out' = Out /\ Len(files[Out].held) <= maxBytes - 1 + faults
    BY <1>2, <2>1, <2>2 DEF Out
  <2>4. ASSUME NEW k \in 1..Out PROVE Len(files'[k].held) <= maxBytes + faults'
    <3>1. faults' \in Nat /\ faults' >= faults
      BY <1>3, <2>1
    <3>2. CASE k = Out
      BY <1>3, <2>2, <2>3, <3>1, <3>2
    <3>3. CASE k # Out
      <4>1. files'[k] = files[k] /\ Len(files[k].held) <= maxBytes + faults /\ Len(files[k].held) \in Nat
        BY <1>2, <1>3, <2>2, <3>3
      <4>2. QED
        BY <1>3, <3>1, <4>1
    <3>4. QED
      BY <3>2, <3>3
  <2>5. pc' = "idle" => Len(files'[Out].held) <= maxBytes - 1 + faults'
    BY <1>3, <2>1, <2>2, <2>3
  <2>6. offset' >= Len(files'[Out].held)
    BY <1>2, <1>3, <2>1, <2>2 DEF NewOffset
  <2>7. QED
    BY <2>3, <2>4, <2>5, <2>6 DEF SizeInv
<1>7. ASSUME NEW t \in Tuples, WriteFails(t) PROVE SizeInv'
  <2>1. /\ files' = files /\ offset' = offset /\ pc = "idle" /\ pc' = "idle"
        /\ faults' \in {faults, faults + 1}
    BY <1>7 DEF WriteFails, Fault, Fail, stream, policy
  <2>2. QED
    BY <1>4, <2>1 DEF Out
<1>8. CASE AckTuple
  <2>1. bytes + offset - last = offset
    BY <1>3
  <2>2. /\ files' = files /\ offset' = offset /\ faults' = faults /\ pc = "written"
        /\ pc' = IF MarkRotation(offset) THEN "rotate" ELSE "idle"
    BY <1>1, <1>8, <2>1 DEF AckTuple, stream
  <2>3. pc' = "idle" => Len(files[Out].held) < maxBytes
    BY <1>2, <1>3, <2>2 DEF MarkRotation
  <2>4. QED
    BY <1>4, <2>2, <2>3 DEF Out
<1>9. CASE ExecutorRotates
  <2>1. /\ Len(files') = Out + 1 /\ files'[Out + 1] = NewFile
        /\ \A k \in 1..Out : files'[k].held = files[k].held
    BY <1>3, <1>9, RotateIs DEF ExecutorRotates, Rotates, Rotated, RenameRefused
  <2>2. pc' = "idle" /\ offset' \in Nat /\ faults' \in {faults, faults + 1}
    BY <1>3, <1>9, RotatesFaults DEF ExecutorRotates
  <2>3. \A k \in 1..Out : Len(files'[k].held) <= Len(files[k].held) /\ Len(files'[k].held) \in Nat
    BY <1>3, <2>1
  <2>4. QED
    BY <1>3, <1>5, <2>1, <2>2, <2>3
<1>10. CASE ExecutorRotationFails
  <2>1. pc' = "idle" /\ offset' = offset /\ RotationRaises
    BY <1>10 DEF ExecutorRotationFails, policy
  <2>2. CASE CloseRaises
    BY <1>4, <2>1, <2>2 DEF CloseRaises, Fault, Out
  <2>3. CASE CreateRaises
    <3>1. files' = ClosedFiles /\ faults' = faults + 1
      BY <2>3 DEF CreateRaises, Fault
    <3>2. Len(files') = Out /\ \A k \in 1..Out : files'[k].held = files[k].held
      BY <1>3, <3>1, ClosedIs
    <3>3. QED
      BY <1>4, <2>1, <3>1, <3>2
  <2>4. CASE ActionRaises
    <3>1. /\ Len(files') = Out + 1 /\ files'[Out + 1] = NewFile
          /\ \A k \in 1..Out : files'[k].held = files[k].held
      BY <1>3, <2>4, RotateIs DEF ActionRaises
    <3>2. \A k \in 1..Out : Len(files'[k].held) <= Len(files[k].held) /\ Len(files'[k].held) \in Nat
      BY <1>3, <3>1
    <3>3. faults' = faults + 1
      BY <2>4 DEF ActionRaises, Fault
    <3>4. QED
      BY <1>3, <1>5, <2>1, <3>1, <3>2, <3>3
  <2>5. QED
    BY <2>1, <2>2, <2>3, <2>4 DEF RotationRaises
<1>11. CASE Crash \/ AppendKills
  <2>1. Restart /\ faults' \in {faults, faults + 1}
    BY <1>11 DEF Crash, AppendKills, Fault
  <2>2. /\ Len(files') = Out + 1 /\ files'[Out + 1] = NewFile
        /\ \A k \in 1..(Out - 1) : files'[k] = files[k]
        /\ Len(files'[Out].held) = files[Out].synced
    BY <1>3, <2>1, RestartIs
  <2>3. files[Out].synced \in Nat /\ files[Out].synced <= Len(files[Out].held)
    BY <1>3, FilesTyped DEF File
  <2>4. \A k \in 1..Out : Len(files'[k].held) <= Len(files[k].held) /\ Len(files'[k].held) \in Nat
    <3>1. \A k \in 1..Out : k \in 1..(Out - 1) \/ k = Out
      BY <1>3
    <3>2. QED
      BY <1>3, <2>2, <2>3, <3>1
  <2>5. QED
    BY <1>5, <2>1, <2>2, <2>4 DEF Restart
<1>12. CASE UNCHANGED vars
  BY <1>4, <1>12 DEF vars, stream, policy, Out
<1>13. QED
  BY <1>1, <1>6, <1>7, <1>8, <1>9, <1>10, <1>11, <1>12
     DEF Next, Execute, TimerRotates, TimerRotationFails

\* Files are of their types; all but one for each fault are moved, and with the
\* size policy none is longer than the limit by more than the executions that
\* failed, for every limit, bolt and number of faults.
THEOREM FilesAreSound == Spec => []FilesSound
<1> DEFINE Inv == Typed /\ FilesInv /\ SizeInv
<1>1. Init => Inv
  <2> SUFFICES ASSUME Init PROVE Inv
    OBVIOUS
  <2>1. /\ Typed /\ Out = 1 /\ files[1].moved = FALSE /\ Len(files[1].held) = 0
        /\ open = TRUE /\ faults = 0 /\ currentFile = 1 /\ offset = 0
    BY InitTypes DEF Init
  <2>2. Unmoved = {}
    BY <2>1 DEF Unmoved
  <2>3. FilesInv
    BY <2>1, <2>2, FS_EmptySet DEF FilesInv
  <2>4. SizeInv
    BY <2>1, BoltAssumption DEF SizeInv
  <2>5. QED
    BY <2>1, <2>3, <2>4
<1>2. Inv /\ [Next]_vars => Inv'
  BY TypeStep, FilesStep, SizeStep DEF Typed
<1>3. Inv => FilesSound
  <2> SUFFICES ASSUME Inv PROVE FewFilesLeft /\ FilesBounded
    BY DEF FilesSound, Typed
  <2>1. /\ Out \in Nat /\ Out >= 1 /\ DOMAIN files = 1..Out /\ faults \in Nat
        /\ Cardinality(Unmoved) \in Nat /\ \A k \in 1..Out : files[k] \in File
    BY FilesTyped, UnmovedFinite, BoltAssumption DEF Typed, TypeOK
  <2>2. {k \in 1..(Out - 1) : ~files[k].moved} = Unmoved
    <3>1. \A k \in 1..(Out - 1) : files[k].moved \in BOOLEAN
      <4>1. \A k \in 1..(Out - 1) : k \in 1..Out
        BY <2>1
      <4>2. QED
        BY <2>1, <4>1 DEF File
    <3>2. \A k \in 1..(Out - 1) : ~files[k].moved <=> files[k].moved = FALSE
      BY <3>1, Zenon
    <3>3. QED
      BY <3>2, Zenon DEF Unmoved
  <2>3. Cardinality(Unmoved) <= faults
    BY <2>1 DEF FilesInv
  <2>4. QED
    BY <2>1, <2>2, <2>3 DEF FewFilesLeft, FilesBounded, SizeInv
<1>4. QED
  BY <1>1, <1>2, <1>3, PTL DEF Spec

\* A file that was moved is never written to again, whichever rotation, crash or
\* action that raised came before.
THEOREM MovedRest == Spec => MovedFilesRest
<1> DEFINE Inv == Typed /\ FilesInv
           Rest == \A k \in DOMAIN files : files[k].moved => files'[k] = files[k]
<1>1. Init => Inv
  <2> SUFFICES ASSUME Init PROVE Inv
    OBVIOUS
  <2>1. /\ Typed /\ Out = 1 /\ files[1].moved = FALSE
        /\ open = TRUE /\ faults = 0 /\ currentFile = 1
    BY InitTypes DEF Init
  <2>2. Unmoved = {}
    BY <2>1 DEF Unmoved
  <2>3. QED
    BY <2>1, <2>2, FS_EmptySet DEF FilesInv
<1>2. Inv /\ [Next]_vars => Inv' /\ [Rest]_vars
  <2> SUFFICES ASSUME Inv, [Next]_vars PROVE Inv' /\ Rest
    OBVIOUS
  <2>1. Inv' /\ \A k \in 1..Out : files[k].moved = TRUE => files'[k] = files[k]
    BY TypeStep, FilesStep DEF Typed
  <2>2. DOMAIN files = 1..Out /\ \A k \in 1..Out : files[k].moved \in BOOLEAN
    BY FilesTyped DEF Typed, File
  <2>3. \A k \in 1..Out : files[k].moved <=> files[k].moved = TRUE
    BY <2>2, Zenon
  <2>4. Rest
    BY <2>1, <2>2, <2>3
  <2>5. QED
    BY <2>1, <2>4
<1>3. QED
  BY <1>1, <1>2, PTL DEF Spec, MovedFilesRest

-----------------------------------------------------------------------------
(* Acked tuples that are not on disk. *)

K == Count - 1

\* Tuples in what the open file has not synced.
Buffered(t) == \E i \in 1..Len(files[Out].held) :
                 i > files[Out].synced /\ files[Out].held[i] = t

\* Tuples that are acked, or about to be, and not on disk; those of them a sync
\* would still save, and those it would not.
AtRisk == {t \in Tuples : (tuples[t] = "acked" \/ (pc = "written" /\ t = tuple)) /\ ~OnDisk(t)}
Savable == {t \in AtRisk : Buffered(t)}
Gone == {t \in AtRisk : ~Buffered(t)}

\* A sync is due before Count tuples are at risk; a fault, or the closed stream it
\* left, has paid for those that are gone.
LossInv ==
  /\ IsFiniteSet(Savable) /\ Cardinality(Savable) <= K /\ Cardinality(Savable) <= executeCount
  /\ IsFiniteSet(Gone) /\ Cardinality(Gone) + (IF open THEN 0 ELSE K) <= K * faults

\* What is on disk stays there.
LEMMA DiskGrows ==
  ASSUME TypeOK, Out' \in Nat, Out <= Out', DOMAIN files' = 1..Out',
         \A k \in 1..Out : /\ files'[k].synced \in Nat /\ files[k].synced <= files'[k].synced
                          /\ \A i \in 1..files[k].synced : files'[k].held[i] = files[k].held[i],
         NEW t, OnDisk(t)
  PROVE  OnDisk(t)'
<1>1. DOMAIN files = 1..Out /\ \A k \in 1..Out : files[k].synced \in Nat /\ Out \in Nat
  BY FilesTyped DEF File
<1>2. PICK k \in 1..Out : \E i \in 1..files[k].synced : files[k].held[i] = t
  BY <1>1 DEF OnDisk
<1>3. PICK i \in 1..files[k].synced : files[k].held[i] = t
  BY <1>2
<1>4. k \in 1..Out' /\ i \in 1..files'[k].synced
  BY <1>1, <1>3
<1>5. QED
  BY <1>3, <1>4 DEF OnDisk

\* A write keeps what is on disk, and buffers the tuple or syncs all.
LEMMA WriteDisk ==
  ASSUME TypeOK, NEW t \in Tuples, files' \in {Appended(t), Synced(Appended(t))}, NEW u
  PROVE  /\ OnDisk(u) => OnDisk(u)'
         /\ Buffered(u) => Buffered(u)' \/ OnDisk(u)'
         /\ Buffered(u)' => Buffered(u) \/ u = t
         /\ files' = Appended(t) => Buffered(t)'
         /\ files' = Synced(Appended(t)) => ~Buffered(u)' /\ OnDisk(t)'
<1> DEFINE h == files[Out].held
           g == files'[Out].held
<1>1. /\ Out \in Nat /\ Out \in 1..Out /\ h \in Seq(Tuples) /\ Len(h) \in Nat
      /\ files[Out].synced \in Nat /\ files[Out].synced <= Len(h)
      /\ \A k \in 1..Out : files[k].synced \in Nat
  BY FilesTyped DEF File
<1>2. /\ Len(files') = Out /\ DOMAIN files' = 1..Out
      /\ \A k \in 1..Out : k # Out => files'[k] = files[k]
      /\ g = Append(h, t) /\ Len(g) = Len(h) + 1
      /\ files' = Appended(t) => files'[Out].synced = files[Out].synced
      /\ files' = Synced(Appended(t)) => files'[Out].synced = Len(g)
  BY WriteIs
<1>3. Out' = Out
  BY <1>2 DEF Out
<1>4. (\A i \in 1..Len(h) : g[i] = h[i]) /\ g[Len(h) + 1] = t
  BY <1>1, <1>2, AppendProperties
<1> DEFINE n == files[Out].synced
           m == files'[Out].synced
<1> HIDE DEF h, g, n, m
<1>5. n \in Nat /\ n <= Len(h) /\ m \in Nat /\ (m = n \/ m = Len(h) + 1)
      /\ (files' = Appended(t) => m = n) /\ (files' = Synced(Appended(t)) => m = Len(h) + 1)
  BY <1>1, <1>2 DEF n, m
<1>6. \A v : Buffered(v) <=> \E i \in 1..Len(h) : i > n /\ h[i] = v
  BY DEF Buffered, h, n
<1>7. \A v : Buffered(v)' <=> \E i \in 1..Len(g) : i > m /\ g[i] = v
  BY <1>3 DEF Buffered, g, m
<1>8. OnDisk(u) => OnDisk(u)'
  <2>1. \A k \in 1..Out : /\ files'[k].synced \in Nat /\ files[k].synced <= files'[k].synced
                          /\ \A i \in 1..files[k].synced : files'[k].held[i] = files[k].held[i]
    <3>1. \A k \in 1..Out : k # Out => /\ files'[k].synced \in Nat
                                      /\ files[k].synced <= files'[k].synced
                                      /\ \A i \in 1..files[k].synced : files'[k].held[i] = files[k].held[i]
      BY <1>1, <1>2
    <3>2. m \in Nat /\ n <= m /\ \A i \in 1..n : g[i] = h[i]
      BY <1>1, <1>4, <1>5
    <3>3. QED
      BY <3>1, <3>2 DEF g, h, m, n
  <2>2. QED
    BY <1>1, <1>2, <1>3, <2>1, DiskGrows
<1>9. ASSUME NEW v, NEW i \in 1..Len(g), i <= m, g[i] = v PROVE OnDisk(v)'
  <2>1. i \in 1..files'[Out].synced /\ files'[Out].held[i] = v
    BY <1>1, <1>2, <1>5, <1>9 DEF m, g
  <2>2. Out \in DOMAIN files'
    BY <1>1, <1>2
  <2>3. QED
    BY <2>1, <2>2 DEF OnDisk
<1>10. Buffered(u) => Buffered(u)' \/ OnDisk(u)'
  <2>1. \A i \in 1..Len(h) : i \in 1..Len(g) /\ g[i] = h[i]
    BY <1>1, <1>2, <1>4
  <2>2. \A i \in 1..Len(g) : i > m \/ i <= m
    BY <1>1, <1>2, <1>5
  <2>3. QED
    BY <1>6, <1>7, <1>9, <2>1, <2>2
<1>11. Buffered(u)' => Buffered(u) \/ u = t
  <2>1. \A i \in 1..Len(g) : i \in 1..Len(h) \/ i = Len(h) + 1
    BY <1>1, <1>2, <1>5 DEF h
  <2>2. \A i \in 1..Len(h) : i > m => i > n
    BY <1>1, <1>5 DEF h
  <2>3. QED
    BY <1>4, <1>6, <1>7, <2>1, <2>2
<1>12. files' = Appended(t) => Buffered(t)'
  <2>1. Len(h) + 1 \in 1..Len(g) /\ (m = n => Len(h) + 1 > m)
    BY <1>1, <1>2, <1>5 DEF h
  <2>2. QED
    BY <1>4, <1>5, <1>7, <2>1
<1>13. files' = Synced(Appended(t)) => ~Buffered(u)' /\ OnDisk(t)'
  <2>1. Len(h) + 1 \in 1..Len(g) /\ (m = Len(h) + 1 => \A i \in 1..Len(g) : ~(i > m) /\ i <= m)
    BY <1>1, <1>2, <1>5 DEF h
  <2>2. QED
    BY <1>4, <1>5, <1>7, <1>9, <2>1
<1>14. QED
  BY <1>8, <1>10, <1>11, <1>12, <1>13

\* A file that is created has nothing buffered.
LEMMA NewFileDisk ==
  ASSUME Out \in Nat, Len(files') = Out + 1, files'[Out + 1] = NewFile, NEW u
  PROVE  ~Buffered(u)'
<1>1. Out' = Out + 1 /\ Len(NewFile.held) = 0
  BY EmptySeq DEF Out, NewFile
<1>2. QED
  BY <1>1 DEF Buffered

\* Closing the file that is open syncs it.
LEMMA ClosedDisk ==
  ASSUME TypeOK, open = TRUE, Out \in DOMAIN files', files'[Out].held = files[Out].held,
         files'[Out].synced = Len(files[Out].held), NEW u, Buffered(u)
  PROVE  OnDisk(u)'
<1>1. PICK i \in 1..Len(files[Out].held) : files[Out].held[i] = u
  BY DEF Buffered
<1>2. i \in 1..files'[Out].synced /\ files'[Out].held[i] = u
  BY <1>1
<1>3. QED
  BY <1>2 DEF OnDisk

\* A rotation keeps what is on disk, and saves what an open stream had buffered.
LEMMA RotateDisk ==
  ASSUME TypeOK,
         files' \in {Append([ClosedFiles EXCEPT ![currentFile].moved = TRUE], NewFile),
                     Append(ClosedFiles, NewFile)},
         NEW u
  PROVE  /\ OnDisk(u) => OnDisk(u)'
         /\ open = TRUE /\ Buffered(u) => OnDisk(u)'
         /\ ~Buffered(u)'
<1>1. /\ Out \in Nat /\ Out >= 1 /\ Out \in 1..Out
      /\ \A k \in 1..Out : /\ files[k].synced \in Nat /\ files[k].synced <= Len(files[k].held)
                           /\ Len(files[k].held) \in Nat
  BY FilesTyped DEF File
<1>2. /\ Len(files') = Out + 1 /\ DOMAIN files' = 1..(Out + 1) /\ files'[Out + 1] = NewFile
      /\ \A k \in 1..Out : /\ files'[k].held = files[k].held
                           /\ files'[k].synced = IF k = Out /\ open THEN Len(files[k].held)
                                                                  ELSE files[k].synced
  BY RotateIs
<1>3. Out' = Out + 1
  BY <1>2 DEF Out
<1>4. \A k \in 1..Out : /\ files'[k].synced \in Nat /\ files[k].synced <= files'[k].synced
                        /\ \A i \in 1..files[k].synced : files'[k].held[i] = files[k].held[i]
  BY <1>1, <1>2
<1>5. OnDisk(u) => OnDisk(u)'
  <2>1. Out' \in Nat /\ Out <= Out' /\ DOMAIN files' = 1..Out'
    BY <1>1, <1>2, <1>3
  <2>2. QED
    BY <1>4, <2>1, DiskGrows
<1>6. ~Buffered(u)'
  BY <1>1, <1>2, NewFileDisk
<1>7. open = TRUE /\ Buffered(u) => OnDisk(u)'
  <2>1. Out \in DOMAIN files'
    BY <1>1, <1>2
  <2>2. QED
    BY <1>1, <1>2, <2>1, ClosedDisk
<1>8. QED
  BY <1>5, <1>6, <1>7

\* So does a rotation that gets no further than closing.
LEMMA CreateRaisesDisk ==
  ASSUME TypeOK, files' = ClosedFiles, open = TRUE, NEW u
  PROVE  /\ OnDisk(u) => OnDisk(u)'
         /\ Buffered(u) => OnDisk(u)'
         /\ ~Buffered(u)'
<1>1. /\ Out \in Nat /\ Out >= 1 /\ Out \in 1..Out
      /\ \A k \in 1..Out : /\ files[k].synced \in Nat /\ files[k].synced <= Len(files[k].held)
                           /\ Len(files[k].held) \in Nat
  BY FilesTyped DEF File
<1>2. /\ files' \in Seq(File) /\ Len(files') = Out
      /\ \A k \in 1..Out : k # Out => files'[k] = files[k]
      /\ files'[Out].held = files[Out].held
      /\ files'[Out].synced = Len(files[Out].held)
  BY ClosedIs
<1>3. DOMAIN files' = 1..Out /\ Out' = Out
  BY <1>2, LenProperties DEF Out
<1>4. \A k \in 1..Out : /\ files'[k].synced \in Nat /\ files[k].synced <= files'[k].synced
                        /\ \A i \in 1..files[k].synced : files'[k].held[i] = files[k].held[i]
  BY <1>1, <1>2
<1>5. OnDisk(u) => OnDisk(u)'
  BY <1>1, <1>3, <1>4, DiskGrows
<1>6. Buffered(u) => OnDisk(u)'
  BY <1>1, <1>2, <1>3, ClosedDisk
<1>7. ~Buffered(u)'
  <2>1. ~\E i \in 1..Len(files'[Out].held) : i > files'[Out].synced
    BY <1>1, <1>2
  <2>2. QED
    BY <1>3, <2>1 DEF Buffered
<1>8. QED
  BY <1>5, <1>6, <1>7

\* A crash keeps what is on disk.
LEMMA RestartDisk ==
  ASSUME TypeOK, Restart, NEW u
  PROVE  (OnDisk(u) => OnDisk(u)') /\ ~Buffered(u)'
<1>1. /\ Out \in Nat /\ Out >= 1 /\ Out \in 1..Out
      /\ \A k \in 1..Out : files[k].synced \in Nat
  BY FilesTyped DEF File
<1>2. /\ Len(files') = Out + 1 /\ DOMAIN files' = 1..(Out + 1) /\ files'[Out + 1] = NewFile
      /\ \A k \in 1..(Out - 1) : files'[k] = files[k]
      /\ files'[Out].synced = files[Out].synced
      /\ \A i \in 1..files[Out].synced : files'[Out].held[i] = files[Out].held[i]
  BY RestartIs
<1>3. Out' = Out + 1
  BY <1>2 DEF Out
<1>4. \A k \in 1..Out : /\ files'[k].synced \in Nat /\ files[k].synced <= files'[k].synced
                        /\ \A i \in 1..files[k].synced : files'[k].held[i] = files[k].held[i]
  <2>1. \A k \in 1..Out : k \in 1..(Out - 1) \/ k = Out
    BY <1>1
  <2>2. QED
    BY <1>1, <1>2, <2>1
<1>5. OnDisk(u) => OnDisk(u)'
  <2>1. Out' \in Nat /\ Out <= Out' /\ DOMAIN files' = 1..Out'
    BY <1>1, <1>2, <1>3
  <2>2. QED
    BY <1>4, <2>1, DiskGrows
<1>6. QED
  BY <1>1, <1>2, <1>5, NewFileDisk

-----------------------------------------------------------------------------
(* A fault, or a stream left closed, pays for Count - 1 tuples. *)

LEMMA Product ==
  ASSUME NEW f \in Nat
  PROVE  K \in Nat /\ K * f \in Nat /\ K * (f + 1) = K * f + K
BY BoltAssumption DEF K

\* What is at risk is savable or gone.
LEMMA RiskSplit ==
  ASSUME LossInv
  PROVE  /\ IsFiniteSet(AtRisk)
         /\ Cardinality(AtRisk) <= Cardinality(Gone) + Cardinality(Savable)
         /\ Cardinality(AtRisk) \in Nat /\ Cardinality(Gone) \in Nat /\ Cardinality(Savable) \in Nat
<1>1. AtRisk = Gone \union Savable
  BY DEF Gone, Savable
<1>2. IsFiniteSet(Gone) /\ IsFiniteSet(Savable)
  BY DEF LossInv
<1>3. IsFiniteSet(Gone \intersect Savable)
  BY <1>2, FS_Subset
<1>4. /\ IsFiniteSet(Gone \union Savable)
      /\ Cardinality(Gone \union Savable)
           = Cardinality(Gone) + Cardinality(Savable) - Cardinality(Gone \intersect Savable)
  BY <1>2, FS_Union
<1>5. Cardinality(Gone \intersect Savable) \in Nat /\ Cardinality(Gone) \in Nat
      /\ Cardinality(Savable) \in Nat /\ Cardinality(Gone \union Savable) \in Nat
  BY <1>2, <1>3, <1>4, FS_CardinalityType
<1>6. Cardinality(Gone \union Savable) <= Cardinality(Gone) + Cardinality(Savable)
  BY <1>4, <1>5
<1>7. QED
  BY <1>1, <1>4, <1>5, <1>6

\* A step after which no more is gone, or after which the tuples at risk are
\* gone and a fault or the closed stream pays for them.
LEMMA LossPaid ==
  ASSUME TypeOK, LossInv,
         IsFiniteSet(Savable'), Cardinality(Savable') <= K, Cardinality(Savable') <= executeCount',
         \/ /\ Gone' \subseteq Gone
            /\ (open' = open /\ faults' = faults) \/ faults' = faults + 1
         \/ /\ Gone' \subseteq AtRisk /\ open' = TRUE
            /\ (open = FALSE /\ faults' = faults) \/ faults' = faults + 1
  PROVE  LossInv'
<1>1. faults \in Nat /\ faults + 1 \in Nat
  BY BoltAssumption DEF TypeOK
<1>2. K \in Nat /\ K * faults \in Nat /\ K * (faults + 1) = K * faults + K
  BY <1>1, Product
<1>3. /\ Cardinality(Gone) + (IF open THEN 0 ELSE K) <= K * faults
      /\ Cardinality(Savable) <= K
      /\ IsFiniteSet(Gone)
  BY DEF LossInv
<1>4. /\ IsFiniteSet(AtRisk) /\ Cardinality(AtRisk) <= Cardinality(Gone) + Cardinality(Savable)
      /\ Cardinality(AtRisk) \in Nat /\ Cardinality(Gone) \in Nat /\ Cardinality(Savable) \in Nat
  BY RiskSplit
<1> DEFINE p == K * faults
           q == K * faults'
           g == Cardinality(Gone')
<1>5. CASE Gone' \subseteq Gone /\ ((open' = open /\ faults' = faults) \/ faults' = faults + 1)
  <2>1. IsFiniteSet(Gone') /\ g \in Nat /\ g <= Cardinality(Gone)
    BY <1>3, <1>5, FS_Subset, FS_CardinalityType
  <2>2. (faults' = faults => q = p) /\ (faults' = faults + 1 => q = p + K)
    BY <1>2
  <2> HIDE DEF p, q, g
  <2>3. p \in Nat /\ Cardinality(Gone) + (IF open THEN 0 ELSE K) <= p
    BY <1>2, <1>3 DEF p
  <2>4. g + (IF open' THEN 0 ELSE K) <= q
    BY <1>2, <1>4, <1>5, <2>1, <2>2, <2>3
  <2>5. QED
    BY <2>1, <2>4 DEF LossInv, g, q, K
<1>6. CASE Gone' \subseteq AtRisk /\ open' = TRUE /\ ((open = FALSE /\ faults' = faults) \/ faults' = faults + 1)
  <2>1. IsFiniteSet(Gone') /\ g \in Nat /\ g <= Cardinality(AtRisk)
    BY <1>4, <1>6, FS_Subset, FS_CardinalityType
  <2>2. (faults' = faults => q = p) /\ (faults' = faults + 1 => q = p + K)
    BY <1>2
  <2> HIDE DEF p, q, g
  <2>3. p \in Nat /\ Cardinality(Gone) + (IF open THEN 0 ELSE K) <= p
    BY <1>2, <1>3 DEF p
  <2>4. g + (IF open' THEN 0 ELSE K) <= q
    BY <1>2, <1>3, <1>4, <1>6, <2>1, <2>2, <2>3
  <2>5. QED
    BY <2>1, <2>4 DEF LossInv, g, q, K
<1>7. QED
  BY <1>5, <1>6

\* Nothing is savable after a sync.
LEMMA NoneSavable ==
  ASSUME TypeOK, TypeOK', \A u \in Tuples : ~Buffered(u)'
  PROVE  IsFiniteSet(Savable') /\ Cardinality(Savable') <= K /\ Cardinality(Savable') <= executeCount'
<1>1. Savable' = {}
  BY DEF Savable, AtRisk
<1>2. K \in Nat
  BY BoltAssumption DEF K
<1>3. executeCount' \in Nat
  BY Zenon DEF TypeOK
<1>4. QED
  BY <1>1, <1>2, <1>3, FS_EmptySet

\* Each step keeps what is said of the tuples at risk.
LEMMA LossStep ==
  ASSUME TypeOK, TypeOK', LossInv, [Next]_vars
  PROVE  LossInv'
<1>1. /\ IsFiniteSet(Savable) /\ Cardinality(Savable) <= K /\ Cardinality(Savable) <= executeCount
      /\ Cardinality(Savable) \in Nat /\ executeCount \in Nat /\ K \in Nat /\ Count = K + 1
  BY RiskSplit, BoltAssumption DEF LossInv, TypeOK, K
\* Files and what is at risk stay as they are.
<1>2. ASSUME files' = files, \A u \in AtRisk' : u \in AtRisk, executeCount' = executeCount,
             (open' = open /\ faults' = faults) \/ faults' = faults + 1
      PROVE  LossInv'
  <2>1. \A u : (Buffered(u)' <=> Buffered(u))
    BY <1>2 DEF Buffered, Out
  <2>2. Gone' \subseteq Gone /\ Savable' \subseteq Savable
    BY <1>2, <2>1 DEF Gone, Savable
  <2>3. IsFiniteSet(Savable') /\ Cardinality(Savable') <= Cardinality(Savable) /\ Cardinality(Savable') \in Nat
    BY <1>1, <2>2, FS_Subset, FS_CardinalityType
  <2>4. Cardinality(Savable') <= K /\ Cardinality(Savable') <= executeCount'
    BY <1>1, <1>2, <2>3
  <2>5. QED
    BY <1>2, <2>2, <2>3, <2>4, LossPaid
<1>3. ASSUME NEW t \in Tuples, WriteTuple(t) PROVE LossInv'
  <2>1. /\ pc = "idle" /\ tuples[t] # "acked" /\ pc' = "written" /\ tuple' = t
        /\ tuples' = tuples /\ open' = open /\ faults' = faults
    BY <1>3 DEF WriteTuple
  <2>2. ASSUME NEW u
        PROVE  /\ OnDisk(u) => OnDisk(u)'
               /\ Buffered(u) => Buffered(u)' \/ OnDisk(u)'
               /\ Buffered(u)' => Buffered(u) \/ u = t
    <3>1. files' \in {Appended(t), Synced(Appended(t))}
      BY <1>3 DEF WriteTuple
    <3>2. QED
      BY <3>1, WriteDisk
  <2>3. ASSUME NEW u \in AtRisk', u # t PROVE u \in AtRisk
    BY <2>1, <2>2, <2>3 DEF AtRisk
  <2>4. CASE MarkSync
    <3>1. files' = Synced(Appended(t))
      BY <1>3, <2>4 DEF WriteTuple
    <3>2. ASSUME NEW u PROVE ~Buffered(u)' /\ OnDisk(t)'
      BY <3>1, WriteDisk
    <3>3. t \notin AtRisk'
      BY <3>2 DEF AtRisk
    <3>4. ASSUME NEW u \in Gone' PROVE u \in Gone
      <4>1. u \in AtRisk' /\ ~OnDisk(u)' /\ u # t
        BY <3>3 DEF Gone, AtRisk
      <4>2. u \in AtRisk /\ ~Buffered(u)
        BY <2>2, <2>3, <3>2, <4>1
      <4>3. QED
        BY <4>2 DEF Gone
    <3>5. QED
      BY <2>1, <3>2, <3>4, NoneSavable, LossPaid
  <2>5. CASE ~MarkSync
    <3>1. files' = Appended(t) /\ executeCount' = executeCount + 1 /\ executeCount + 1 <= K
      BY <1>1, <1>3, <2>5 DEF WriteTuple, MarkSync
    <3>2. Buffered(t)'
      BY <3>1, WriteDisk
    <3>3. ASSUME NEW u \in Gone' PROVE u \in Gone
      <4>1. u \in AtRisk' /\ ~OnDisk(u)' /\ ~Buffered(u)' /\ u # t
        BY <3>2 DEF Gone, AtRisk
      <4>2. u \in AtRisk /\ ~Buffered(u)
        BY <2>2, <2>3, <4>1
      <4>3. QED
        BY <4>2 DEF Gone
    <3> DEFINE more == Savable \union {t}
    <3>4. ASSUME NEW u \in Savable' PROVE u \in more
      <4>1. u \in AtRisk' /\ Buffered(u)'
        BY DEF Savable
      <4>2. u # t => u \in Savable
        BY <2>2, <2>3, <4>1 DEF Savable
      <4>3. QED
        BY <4>2
    <3>5. IsFiniteSet(more) /\ Cardinality(more) \in Nat /\ Cardinality(more) <= Cardinality(Savable) + 1
      <4>1. IsFiniteSet(more) /\ Cardinality(more) =
              IF t \in Savable THEN Cardinality(Savable) ELSE Cardinality(Savable) + 1
        BY <1>1, FS_AddElement, Zenon
      <4> HIDE DEF more
      <4>2. Cardinality(more) \in {Cardinality(Savable), Cardinality(Savable) + 1}
        BY <4>1
      <4>3. QED
        BY <1>1, <4>1, <4>2
    <3> HIDE DEF more
    <3>6. /\ IsFiniteSet(Savable') /\ Cardinality(Savable') <= Cardinality(more)
          /\ Cardinality(Savable') \in Nat
      BY <3>4, <3>5, FS_Subset, FS_CardinalityType
    <3>7. Cardinality(Savable') <= executeCount' /\ Cardinality(Savable') <= K
      BY <1>1, <3>1, <3>5, <3>6
    <3>8. QED
      BY <2>1, <3>3, <3>6, <3>7, LossPaid
  <2>6. QED
    BY <2>4, <2>5
<1>4. ASSUME NEW t \in Tuples, SyncFails(t) PROVE LossInv'
  <2>1. /\ pc = "idle" /\ tuples[t] # "acked" /\ pc' = "idle" /\ tuples' = [tuples EXCEPT ![t] = "failed"]
        /\ open' = open /\ faults' = faults + 1 /\ executeCount' = executeCount + 1
    BY <1>4 DEF SyncFails, Fail, Fault
  <2>2. ASSUME NEW u
        PROVE  /\ OnDisk(u) => OnDisk(u)'
               /\ Buffered(u) => Buffered(u)' \/ OnDisk(u)'
               /\ Buffered(u)' => Buffered(u) \/ u = t
    <3>1. files' \in {Appended(t), Synced(Appended(t))}
      BY <1>4 DEF SyncFails
    <3>2. QED
      BY <3>1, WriteDisk
  <2>3. ASSUME NEW u \in AtRisk' PROVE u \in AtRisk /\ u # t
    BY <2>1, <2>2 DEF AtRisk, TypeOK
  <2>4. ASSUME NEW u \in Gone' PROVE u \in Gone
    <3>1. u \in AtRisk' /\ ~OnDisk(u)' /\ ~Buffered(u)'
      BY DEF Gone, AtRisk
    <3>2. QED
      BY <2>2, <2>3, <3>1 DEF Gone
  <2>5. ASSUME NEW u \in Savable' PROVE u \in Savable
    <3>1. u \in AtRisk' /\ Buffered(u)'
      BY DEF Savable
    <3>2. QED
      BY <2>2, <2>3, <3>1 DEF Savable
  <2>6. IsFiniteSet(Savable') /\ Cardinality(Savable') <= Cardinality(Savable) /\ Cardinality(Savable') \in Nat
    BY <1>1, <2>5, FS_Subset, FS_CardinalityType
  <2>7. Cardinality(Savable') <= K /\ Cardinality(Savable') <= executeCount'
    BY <1>1, <2>1, <2>6
  <2>8. QED
    BY <2>1, <2>4, <2>6, <2>7, LossPaid
<1>5. ASSUME NEW t \in Tuples, WriteFails(t) PROVE LossInv'
  <2>1. /\ pc = "idle" /\ pc' = "idle" /\ tuples[t] # "acked" /\ tuples' = [tuples EXCEPT ![t] = "failed"]
        /\ files' = files /\ open' = open /\ executeCount' = executeCount
        /\ faults' = faults \/ faults' = faults + 1
    BY <1>5 DEF WriteFails, Fail, Fault, stream
  <2>2. \A u \in AtRisk' : u \in AtRisk
    BY <2>1 DEF AtRisk, OnDisk, TypeOK
  <2>3. QED
    BY <1>2, <2>1, <2>2
<1>6. CASE AckTuple
  <2>1. /\ pc = "written" /\ tuples' = [tuples EXCEPT ![tuple] = "acked"] /\ pc' # "written"
        /\ files' = files /\ open' = open /\ executeCount' = executeCount /\ faults' = faults
    BY <1>6 DEF AckTuple, stream
  <2>2. \A u \in AtRisk' : u \in AtRisk
    BY <2>1 DEF AtRisk, OnDisk, TypeOK
  <2>3. QED
    BY <1>2, <2>1, <2>2
\* The file that is open ends, synced if its stream was open.
<1>7. ASSUME \A u : (OnDisk(u) => OnDisk(u)') /\ ~Buffered(u)' /\ (open = TRUE /\ Buffered(u) => OnDisk(u)'),
             AtRisk' \subseteq AtRisk,
             \/ open' = TRUE /\ faults' = faults
             \/ open = TRUE /\ faults' = faults + 1
             \/ open' = TRUE /\ faults' = faults + 1
      PROVE  LossInv'
  <2>1. open = TRUE \/ open = FALSE
    BY DEF TypeOK
  <2>2. CASE open = TRUE
    <3>1. Gone' \subseteq Gone
      BY <1>7, <2>2 DEF Gone, AtRisk
    <3>2. QED
      BY <1>7, <2>2, <3>1, NoneSavable, LossPaid
  <2>3. CASE open = FALSE
    <3>1. Gone' \subseteq AtRisk
      BY <1>7 DEF Gone
    <3>2. QED
      BY <1>7, <2>3, <3>1, NoneSavable, LossPaid
  <2>4. QED
    BY <2>1, <2>2, <2>3
<1>8. ASSUME Rotates, UNCHANGED tuples,
             pc' = "written" => pc = "written" /\ tuple' = tuple
      PROVE  LossInv'
  <2>1. \A u : (OnDisk(u) => OnDisk(u)') /\ ~Buffered(u)' /\ (open = TRUE /\ Buffered(u) => OnDisk(u)')
    BY <1>8, RotateDisk DEF Rotates, Rotated, RenameRefused
  <2>2. AtRisk' \subseteq AtRisk
    BY <1>8, <2>1 DEF AtRisk
  <2>3. open' = TRUE /\ faults' \in {faults, faults + 1}
    BY <1>8, RotatesFaults DEF Rotates, Rotated, RenameRefused
  <2>4. QED
    BY <1>7, <1>8, <2>1, <2>2, <2>3
<1>9. ASSUME RotationRaises, UNCHANGED <<tuples, executeCount>>,
             pc' = "written" => pc = "written" /\ tuple' = tuple
      PROVE  LossInv'
  <2>1. CASE CloseRaises
    <3>1. files' = files /\ faults' = faults + 1
      BY <2>1 DEF CloseRaises, Fault
    <3>2. \A u \in AtRisk' : u \in AtRisk
      BY <1>9, <3>1 DEF AtRisk, OnDisk
    <3>3. QED
      BY <1>2, <1>9, <3>1, <3>2
  <2>2. CASE CreateRaises
    <3>1. files' = ClosedFiles /\ faults' = faults + 1 /\ open' = FALSE
      BY <2>2 DEF CreateRaises, Fault
    <3>2. CASE open = TRUE
      <4>1. \A u : (OnDisk(u) => OnDisk(u)') /\ ~Buffered(u)' /\ (open = TRUE /\ Buffered(u) => OnDisk(u)')
        BY <3>1, <3>2, CreateRaisesDisk
      <4>2. AtRisk' \subseteq AtRisk
        BY <1>9, <4>1 DEF AtRisk
      <4>3. QED
        BY <1>7, <3>1, <3>2, <4>1, <4>2
    <3>3. CASE open = FALSE
      <4>1. files' = files
        BY <3>1, <3>3 DEF ClosedFiles
      <4>2. \A u \in AtRisk' : u \in AtRisk
        BY <1>9, <4>1 DEF AtRisk, OnDisk
      <4>3. QED
        BY <1>2, <1>9, <3>1, <4>1, <4>2
    <3>4. QED
      BY <3>2, <3>3 DEF TypeOK
  <2>3. CASE ActionRaises
    <3>1. \A u : (OnDisk(u) => OnDisk(u)') /\ ~Buffered(u)' /\ (open = TRUE /\ Buffered(u) => OnDisk(u)')
      BY <2>3, RotateDisk DEF ActionRaises
    <3>2. AtRisk' \subseteq AtRisk
      BY <1>9, <3>1 DEF AtRisk
    <3>3. open' = TRUE /\ faults' = faults + 1
      BY <2>3 DEF ActionRaises, Fault
    <3>4. QED
      BY <1>7, <3>1, <3>2, <3>3
  <2>4. QED
    BY <1>9, <2>1, <2>2, <2>3 DEF RotationRaises
<1>10. ASSUME Restart, faults' = faults + 1 \/ (open = FALSE /\ faults' = faults)
       PROVE  LossInv'
  <2>1. \A u : (OnDisk(u) => OnDisk(u)') /\ ~Buffered(u)'
    BY <1>10, RestartDisk
  <2>2. tuples' = tuples /\ pc' = "idle" /\ open' = TRUE
    BY <1>10 DEF Restart
  <2>3. Gone' \subseteq AtRisk
    BY <2>1, <2>2 DEF Gone, AtRisk
  <2>4. QED
    BY <1>10, <2>1, <2>2, <2>3, NoneSavable, LossPaid
<1>11. CASE ExecutorRotates \/ TimerRotates
  BY <1>8, <1>11 DEF ExecutorRotates, TimerRotates
<1>12. CASE ExecutorRotationFails \/ TimerRotationFails
  BY <1>9, <1>12 DEF ExecutorRotationFails, TimerRotationFails
<1>13. CASE Crash
  BY <1>10, <1>13 DEF Crash, Fault
<1>14. CASE AppendKills
  BY <1>10, <1>14 DEF AppendKills, TypeOK
<1>15. CASE UNCHANGED vars
  <2>1. /\ files' = files /\ open' = open /\ executeCount' = executeCount /\ faults' = faults
        /\ tuples' = tuples /\ pc' = pc /\ tuple' = tuple
    BY <1>15 DEF vars, stream
  <2>2. \A u \in AtRisk' : u \in AtRisk
    BY <2>1 DEF AtRisk, OnDisk
  <2>3. QED
    BY <1>2, <2>1, <2>2
<1>16. QED
  BY <1>3, <1>4, <1>5, <1>6, <1>11, <1>12, <1>13, <1>14, <1>15 DEF Next, Execute

\* However often the bolt crashes, rotates or fails to, fewer than Count acked
\* tuples are missing for each fault, and fewer than Count more are not yet synced.
THEOREM FewLost == Spec => []FewAckedUnsynced
<1> DEFINE Inv == Typed /\ LossInv
<1>1. Init => Inv
  <2> SUFFICES ASSUME Init PROVE Inv
    OBVIOUS
  <2>1. Typed
    BY InitTypes
  <2>2. Savable = {} /\ Gone = {} /\ open = TRUE /\ faults = 0 /\ executeCount = 0
    BY DEF Init, Savable, Gone, AtRisk
  <2>3. K \in Nat /\ K * 0 = 0
    BY Product
  <2>4. LossInv
    BY <2>2, <2>3, FS_EmptySet DEF LossInv
  <2>5. QED
    BY <2>1, <2>4
<1>2. Inv /\ [Next]_vars => Inv'
  BY TypeStep, LossStep DEF Typed
<1>3. Inv => FewAckedUnsynced
  <2> SUFFICES ASSUME Inv PROVE FewAckedUnsynced
    OBVIOUS
  <2> DEFINE A == {t \in Tuples : tuples[t] = "acked" /\ ~OnDisk(t)}
  <2>1. A \subseteq AtRisk
    BY DEF AtRisk
  <2>2. /\ IsFiniteSet(AtRisk) /\ Cardinality(AtRisk) <= Cardinality(Gone) + Cardinality(Savable)
        /\ Cardinality(AtRisk) \in Nat /\ Cardinality(Gone) \in Nat /\ Cardinality(Savable) \in Nat
    BY RiskSplit
  <2>3. Cardinality(A) <= Cardinality(AtRisk) /\ Cardinality(A) \in Nat
    BY <2>1, <2>2, FS_Subset, FS_CardinalityType
  <2>4. faults \in Nat
    BY BoltAssumption DEF Typed, TypeOK
  <2>5. K \in Nat /\ K * faults \in Nat /\ K * (faults + 1) = K * faults + K
    BY <2>4, Product
  <2>6. Cardinality(Gone) + (IF open THEN 0 ELSE K) <= K * faults /\ Cardinality(Savable) <= K
    BY DEF LossInv
  <2>7. Cardinality(Gone) <= K * faults
    <3> DEFINE p == K * faults
    <3>1. p \in Nat /\ Cardinality(Gone) + (IF open THEN 0 ELSE K) <= p
      BY <2>5, <2>6
    <3> HIDE DEF p
    <3>2. Cardinality(Gone) <= p
      BY <2>2, <2>5, <3>1
    <3>3. QED
      BY <3>2 DEF p
  <2> HIDE DEF A
  <2>8. Cardinality(A) <= K * (faults + 1)
    <3> DEFINE p == K * faults
               q == K * (faults + 1)
    <3>1. p \in Nat /\ q = p + K /\ Cardinality(Gone) <= p
      BY <2>5, <2>7
    <3> HIDE DEF p, q
    <3>2. Cardinality(A) <= q
      BY <2>2, <2>3, <2>5, <2>6, <3>1
    <3>3. QED
      BY <3>2 DEF q
  <2>9. QED
    BY <2>8 DEF FewAckedUnsynced, A, K
<1>4. QED
  BY <1>1, <1>2, <1>3, PTL DEF Spec
================================================================================
