------------------------- MODULE CanvasFileProofs -------------------------
(***************************************************************************)
(* Saving the canvas, for every canvas size, every set of colors and every *)
(* place at which the stream splits the file: the types, that canvas.dat   *)
(* is always a whole canvas when the flush in fclose succeeds, and that    *)
(* the save then implements DurableCanvas.                                 *)
(***************************************************************************)
EXTENDS CanvasFile, SequenceTheorems, TLAPS

(* Files are sequences of colors that are not longer than a canvas.        *)
LEMMA FilesAreSeqs ==
  /\ \A s : s \in Files <=> s \in Seq(Colors) /\ Len(s) <= Cells
  /\ \A s : s \in Canvases <=> s \in Seq(Colors) /\ Len(s) = Cells
  <1> USE CanvasFileAssumption
  <1>1. ASSUME NEW s \in Files PROVE s \in Seq(Colors) /\ Len(s) <= Cells
    <2>1. PICK n \in 0 .. Cells : s \in [1 .. n -> Colors]
      BY DEF Files
    <2>2. s \in Seq(Colors)
      BY <2>1, SeqDef
    <2>3. Len(s) = n
      BY <2>1, <2>2, LenProperties
    <2> QED BY <2>2, <2>3
  <1>2. ASSUME NEW s \in Seq(Colors), Len(s) <= Cells PROVE s \in Files
    <2>1. s \in [1 .. Len(s) -> Colors] /\ Len(s) \in 0 .. Cells
      BY <1>2, LenProperties
    <2> QED BY <2>1 DEF Files
  <1>3. ASSUME NEW s \in Canvases PROVE s \in Seq(Colors) /\ Len(s) = Cells
    <2>1. s \in Seq(Colors)
      BY SeqDef DEF Canvases
    <2> QED BY <2>1, LenProperties DEF Canvases
  <1>4. ASSUME NEW s \in Seq(Colors), Len(s) = Cells PROVE s \in Canvases
    BY <1>4, LenProperties DEF Canvases
  <1> QED BY <1>1, <1>2, <1>3, <1>4

(* What a server loads is a canvas.                                        *)
LEMMA LoadedIsCanvas ==
  ASSUME NEW file \in Files \cup {NoFile}
  PROVE  Loaded(file) \in Canvases
  BY FilesAreSeqs, CanvasFileAssumption DEF Loaded, Filled, Canvases

(* A canvas split where the stream splits it, and put together again.      *)
LEMMA Split ==
  ASSUME NEW c \in Canvases, NEW n \in 0 .. Cells, NEW m \in 0 .. n
  PROVE  /\ SubSeq(c, 1, m) \in Files /\ Len(SubSeq(c, 1, m)) = m
         /\ SubSeq(c, m + 1, n) \in Files /\ Len(SubSeq(c, m + 1, n)) = n - m
         /\ n = Cells => SubSeq(c, 1, m) \o SubSeq(c, m + 1, n) = c
  <1> USE CanvasFileAssumption
  <1>1. c \in Seq(Colors) /\ Len(c) = Cells
    BY FilesAreSeqs
  <1>2. SubSeq(c, 1, m) \in Seq(Colors) /\ Len(SubSeq(c, 1, m)) = m
    BY <1>1, SubSeqProperties
  <1>3. SubSeq(c, m + 1, n) \in Seq(Colors) /\ Len(SubSeq(c, m + 1, n)) = n - m
    BY <1>1, SubSeqProperties
  <1>4. ASSUME n = Cells PROVE SubSeq(c, 1, m) \o SubSeq(c, m + 1, n) = c
    <2>1. SubSeq(c, 1, m) \o SubSeq(c, m + 1, n) = SubSeq(c, 1, n)
      BY <1>1, <1>4, ConcatAdjacentSubSeq
    <2> QED BY <1>1, <1>4, <2>1, SubSeqFull
  <1>5. Len(SubSeq(c, 1, m)) <= Cells /\ Len(SubSeq(c, m + 1, n)) <= Cells
    BY <1>2, <1>3
  <1> QED BY <1>2, <1>3, <1>4, <1>5, FilesAreSeqs, Zenon

(* An empty file, and a file with what was in the buffer added.            *)
LEMMA EmptyFile == <<>> \in Files /\ Len(<<>>) = 0
  <1>1. <<>> \in Seq(Colors) /\ Len(<<>>) = 0 /\ 0 <= Cells
    BY CanvasFileAssumption
  <1> QED BY <1>1, FilesAreSeqs, Zenon

LEMMA Added ==
  ASSUME NEW s \in Files, NEW t \in Files, Len(s) + Len(t) <= Cells
  PROVE  s \o t \in Files /\ Len(s \o t) = Len(s) + Len(t)
  <1>1. s \in Seq(Colors) /\ t \in Seq(Colors)
    BY FilesAreSeqs
  <1>2. s \o t \in Seq(Colors) /\ Len(s \o t) = Len(s) + Len(t)
    BY <1>1, ConcatProperties
  <1> QED BY <1>2, FilesAreSeqs

LEMMA AddedNothing ==
  ASSUME NEW s \in Files
  PROVE  s \o <<>> = s /\ <<>> \o s = s
  BY FilesAreSeqs, ConcatEmptySeq

(***************************************************************************)
(* The inductive invariant: how much is in canvas.tmp and in the buffer of *)
(* the stream at each point of save_canvas_to_file.                        *)
(***************************************************************************)
Accounted ==
  /\ saver = "open" => tmp = <<>>
  /\ saver = "written" => tmp \in Files /\ Len(tmp) + Len(buffer) = written
  /\ saver = "closed" => /\ tmp \in Files
                         /\ buffer = <<>>
                         /\ ~FlushFails => Len(tmp) = written

IInv == TypeOK /\ Accounted /\ (~FlushFails => SavedWhole)

LEMMA InitIInv == FileInit => IInv
  BY EmptyFile, CanvasFileAssumption
  DEF FileInit, IInv, TypeOK, Accounted, SavedWhole, Filled, Canvases

LEMMA StepIInv == IInv /\ [Next]_fileVars => IInv'
  <1> SUFFICES ASSUME IInv, [Next]_fileVars PROVE IInv'
    OBVIOUS
  <1> USE CanvasFileAssumption
  <1>1. CASE Paint
    BY <1>1 DEF Paint, SetPixel, IInv, TypeOK, Accounted, SavedWhole, Canvases
  <1>2. CASE OpenTmp
    BY <1>2, EmptyFile DEF OpenTmp, IInv, TypeOK, Accounted, SavedWhole
  <1>3. ASSUME NEW n \in 0 .. Cells, WriteTmp(n) PROVE IInv'
    <2> DEFINE m == IF n = Cells THEN Cells - InBuffer ELSE n
    <2>0. m \in 0 .. n
      OBVIOUS
    <2>1. canvas \in Canvases /\ m \in 0 .. n /\ tmp = <<>>
      BY <1>3, <2>0, Zenon DEF WriteTmp, IInv, TypeOK, Accounted
    <2>2. /\ SubSeq(canvas, 1, m) \in Files /\ Len(SubSeq(canvas, 1, m)) = m
          /\ SubSeq(canvas, m + 1, n) \in Files /\ Len(SubSeq(canvas, m + 1, n)) = n - m
      <3> HIDE DEF m
      <3> QED BY <2>1, Split
    <2>3. tmp' = SubSeq(canvas, 1, m) /\ buffer' = SubSeq(canvas, m + 1, n)
      BY <1>3, <2>1, <2>2, AddedNothing DEF WriteTmp
    <2> HIDE DEF m
    <2> QED BY <1>3, <2>1, <2>2, <2>3 DEF WriteTmp, IInv, TypeOK, Accounted, SavedWhole
  <1>4. ASSUME NEW ok \in (IF FlushFails THEN BOOLEAN ELSE {TRUE}), CloseTmp(ok) PROVE IInv'
    <2>1. /\ tmp \in Files /\ buffer \in Files /\ written \in 0 .. Cells
          /\ Len(tmp) + Len(buffer) = written
      BY <1>4 DEF CloseTmp, IInv, TypeOK, Accounted
    <2>2. tmp \o buffer \in Files /\ Len(tmp \o buffer) = written
      BY <2>1, Added
    <2> QED BY <1>4, <2>1, <2>2, EmptyFile DEF CloseTmp, IInv, TypeOK, Accounted, SavedWhole
  <1>5. CASE GiveUp
    BY <1>5 DEF GiveUp, IInv, TypeOK, Accounted, SavedWhole
  <1>6. CASE Rename
    <2>1. tmp \in Files /\ (~FlushFails => tmp \in Canvases)
      BY <1>6, FilesAreSeqs DEF Rename, IInv, Accounted
    <2> QED BY <1>6, <2>1 DEF Rename, IInv, TypeOK, Accounted, SavedWhole
  <1>7. CASE Restart
    <2>1. Loaded(dat) \in Canvases
      BY LoadedIsCanvas DEF IInv, TypeOK
    <2>2. TypeOK'
      BY <1>7, <2>1, EmptyFile DEF Restart, IInv, TypeOK
    <2>3. Accounted' /\ (~FlushFails => SavedWhole')
      BY <1>7 DEF Restart, IInv, Accounted, SavedWhole
    <2> QED BY <2>2, <2>3 DEF IInv
  <1>8. CASE UNCHANGED fileVars
    BY <1>8 DEF fileVars, IInv, TypeOK, Accounted, SavedWhole
  <1>9. ASSUME Save PROVE IInv'
    <2>1. (\E n \in (IF WriteFails THEN 0 .. Cells ELSE {Cells}) : WriteTmp(n))
            => \E n \in 0 .. Cells : WriteTmp(n)
      OBVIOUS
    <2> QED BY <1>2, <1>3, <1>4, <1>5, <1>6, <1>9, <2>1, Zenon DEF Save
  <1> QED BY <1>1, <1>7, <1>8, <1>9, Zenon DEF Next

LEMMA Invariance == Spec => []IInv
  BY InitIInv, StepIInv, PTL DEF Spec

(* Every variable keeps to its type, whatever fails: also a stream that    *)
(* cannot be flushed leaves at most a canvas's worth in canvas.tmp.        *)
THEOREM TypeCorrect == Spec => []TypeOK
  <1>1. IInv => TypeOK
    BY DEF IInv
  <1> QED BY <1>1, Invariance, PTL

(* canvas.dat is absent or a whole canvas, wherever the server is killed   *)
(* and whatever fwrite writes, when fclose can always flush.               *)
THEOREM SavedWholeAlways == ASSUME ~FlushFails PROVE Spec => []SavedWhole
  <1>1. IInv => SavedWhole
    BY DEF IInv
  <1> QED BY <1>1, Invariance, PTL

(***************************************************************************)
(* The refinement.                                                         *)
(***************************************************************************)
LEMMA DurableInit == FileInit => Durable!Init
  BY DEF FileInit, Durable!Init, Checkpoint, Loaded

LEMMA DurableStep ==
  ASSUME ~FlushFails
  PROVE  IInv /\ [Next]_fileVars => [Durable!Next]_(Durable!durableVars)
  <1> SUFFICES ASSUME IInv, [Next]_fileVars
               PROVE  Durable!Next \/ UNCHANGED Durable!durableVars
    OBVIOUS
  <1> USE CanvasFileAssumption
  <1>1. CASE Paint
    BY <1>1 DEF Paint, SetPixel, IInv, TypeOK, Canvases, Checkpoint, Durable!Next, Durable!Draw
  <1>2. CASE OpenTmp
    BY <1>2 DEF OpenTmp, Checkpoint, Durable!durableVars
  <1>3. ASSUME NEW n \in 0 .. Cells, WriteTmp(n)
        PROVE  Durable!Next \/ UNCHANGED Durable!durableVars
    <2>1. CASE n = Cells
      <3> DEFINE m == Cells - InBuffer
      <3>0. m \in 0 .. n
        BY <2>1
      <3>1. canvas \in Canvases /\ m \in 0 .. n /\ tmp = <<>>
        BY <1>3, <3>0, Zenon DEF WriteTmp, IInv, TypeOK, Accounted
      <3>2. SubSeq(canvas, 1, m) \in Files /\ SubSeq(canvas, 1, m) \o SubSeq(canvas, m + 1, n) = canvas
        BY <2>1, <3>1, Split
      <3>3. tmp' = SubSeq(canvas, 1, m) /\ buffer' = SubSeq(canvas, m + 1, n)
        BY <1>3, <2>1, <3>1, <3>2, AddedNothing DEF WriteTmp
      <3>4. Checkpoint' = canvas
        BY <1>3, <2>1, <3>2, <3>3 DEF WriteTmp, Checkpoint
      <3> QED BY <1>3, <3>4 DEF WriteTmp, Durable!Next, Durable!Snapshot
    <2>2. CASE n # Cells
      BY <1>3, <2>2 DEF WriteTmp, Checkpoint, Durable!durableVars
    <2> QED BY <2>1, <2>2
  <1>4. CASE CloseTmp(TRUE)
    <2>1. /\ tmp \in Files /\ buffer \in Files /\ written \in 0 .. Cells
          /\ Len(tmp) + Len(buffer) = written
      BY <1>4 DEF CloseTmp, IInv, TypeOK, Accounted
    <2>2. tmp' \o buffer' = tmp \o buffer
      BY <1>4, <2>1, Added, AddedNothing DEF CloseTmp
    <2> QED BY <1>4, <2>2 DEF CloseTmp, Checkpoint, Durable!durableVars
  <1>5. CASE GiveUp
    BY <1>5 DEF GiveUp, Checkpoint, Durable!Next, Durable!Abandon
  <1>6. CASE Rename
    <2>1. tmp \in Files /\ Len(tmp) = Cells /\ buffer = <<>>
      BY <1>6 DEF Rename, IInv, Accounted
    <2>2. Checkpoint = tmp /\ Loaded(dat') = tmp
      BY <1>6, <2>1, AddedNothing DEF Rename, Checkpoint, Loaded
    <2>3. Checkpoint' = tmp
      BY <1>6, <2>2 DEF Rename, Checkpoint
    <2> QED BY <1>6, <2>2, <2>3 DEF Rename, Durable!Next, Durable!Commit
  <1>7. CASE Restart
    BY <1>7 DEF Restart, Checkpoint, Durable!Next, Durable!Restart
  <1>8. CASE UNCHANGED fileVars
    BY <1>8 DEF fileVars, Checkpoint, Durable!durableVars
  <1>9. ASSUME Save PROVE Durable!Next \/ UNCHANGED Durable!durableVars
    <2>1. (\E n \in (IF WriteFails THEN 0 .. Cells ELSE {Cells}) : WriteTmp(n))
            => \E n \in 0 .. Cells : WriteTmp(n)
      OBVIOUS
    <2>2. (\E ok \in (IF FlushFails THEN BOOLEAN ELSE {TRUE}) : CloseTmp(ok)) => CloseTmp(TRUE)
      OBVIOUS
    <2> QED BY <1>2, <1>3, <1>4, <1>5, <1>6, <1>9, <2>1, <2>2, Zenon DEF Save
  <1> QED BY <1>1, <1>7, <1>8, <1>9, Zenon DEF Next

(* The save implements DurableCanvas: a server that is killed at any       *)
(* moment starts again with a canvas it once had, when fclose can flush.   *)
THEOREM Durability == ASSUME ~FlushFails PROVE Spec => ImplementsDurable
  BY DurableInit, DurableStep, Invariance, PTL DEF Spec, ImplementsDurable, Durable!Spec
=============================================================================
