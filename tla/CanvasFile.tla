----------------------------- MODULE CanvasFile -----------------------------
(***************************************************************************)
(* Saving and loading the canvas in 3.epoll_clicnt/server.c: a thread that *)
(* every SAVE_INTERVAL seconds writes the canvas to canvas.tmp, under      *)
(* canvas_mutex, and renames that file to canvas.dat; and the load when    *)
(* the server starts.  The server may be killed at any moment.             *)
(*                                                                         *)
(* fwrite hands the file to the kernel in blocks; InBuffer cells stay in   *)
(* the buffer of the stream until fclose (250000 bytes are 61 blocks of    *)
(* 4096 and 144 bytes).  The result of fclose is not looked at.            *)
(***************************************************************************)
EXTENDS Naturals, Sequences

CONSTANTS Cells,       \* WIDTH * HEIGHT
          InBuffer,    \* cells that fwrite leaves in the buffer of the stream
          Colors,
          White, Zero, \* what memset puts in: 29 at the start, 0 after a bad load
          NoFile,      \* no such file
          WriteFails,  \* fwrite may be short (disk full), rename may fail
          FlushFails   \* the flush in fclose may fail (disk full)

(* A file may hold the first cells of a canvas only. *)
Files == UNION {[1 .. n -> Colors] : n \in 0 .. Cells}

ASSUME CanvasFileAssumption ==
  /\ Cells \in Nat \ {0}
  /\ InBuffer \in 0 .. Cells
  /\ {White, Zero} \subseteq Colors
  /\ NoFile \notin Files
  /\ {WriteFails, FlushFails} \subseteq BOOLEAN

VARIABLES canvas,
          tmp, dat,    \* the contents of canvas.tmp and canvas.dat
          buffer,      \* cells in the buffer of the stream
          saver,       \* where save_canvas_to_file is
          written      \* what fwrite returned

fileVars == <<canvas, tmp, dat, buffer, saver, written>>

Canvases == [1 .. Cells -> Colors]
Filled(color) == [i \in 1 .. Cells |-> color]

(***************************************************************************)
(* load_canvas_from_file, after memset(canvas, 29): without a file the     *)
(* canvas stays as it is, a file that is too short leaves it zeroed.       *)
(***************************************************************************)
Loaded(file) == IF file = NoFile THEN Filled(White)
                ELSE IF Len(file) = Cells THEN file
                ELSE Filled(Zero)

FileInit == /\ canvas = Filled(White)
            /\ tmp = NoFile /\ dat = NoFile
            /\ buffer = <<>>
            /\ saver = "asleep"
            /\ written = 0

(* canvas[x][y] = color, under canvas_mutex.                               *)
SetPixel(i, color) == canvas' = [canvas EXCEPT ![i] = color]

(* Mutant: fopen(temp_filename, "ab").                                     *)
OpenTmp_append == /\ saver = "asleep"
                  /\ tmp' = IF tmp = NoFile THEN <<>> ELSE tmp
                  /\ saver' = "open"
                  /\ UNCHANGED <<canvas, dat, buffer, written>>

(* Mutant: writes to canvas.dat itself, which is truncated first.          *)
OpenTmp_inPlace == /\ saver = "asleep"
                   /\ tmp' = <<>> /\ dat' = <<>>
                   /\ saver' = "open"
                   /\ UNCHANGED <<canvas, buffer, written>>

(* sleep returned; fopen(temp_filename, "wb") creates or truncates.        *)
OpenTmp == /\ saver = "asleep"
           /\ tmp' = <<>>
           /\ saver' = "open"
           /\ UNCHANGED <<canvas, dat, buffer, written>>

(* fwrite, under canvas_mutex, wrote n cells.                              *)
WriteTmp(n) == /\ saver = "open"
               /\ written' = n
               /\ LET flushed == IF n = Cells THEN Cells - InBuffer ELSE n IN
                    /\ tmp' = tmp \o SubSeq(canvas, 1, flushed)
                    /\ buffer' = SubSeq(canvas, flushed + 1, n)
               /\ saver' = "written"
               /\ UNCHANGED <<canvas, dat>>

(* fclose; ok tells whether what was in the buffer reached the file.       *)
CloseTmp(ok) == /\ saver = "written"
                /\ tmp' = IF ok THEN tmp \o buffer ELSE tmp
                /\ buffer' = <<>>
                /\ saver' = "closed"
                /\ UNCHANGED <<canvas, dat, written>>

(* A short write ends here, with -1; so does a rename that fails.          *)
GiveUp == /\ saver = "closed"
          /\ written # Cells \/ WriteFails
          /\ saver' = "asleep"
          /\ UNCHANGED <<canvas, tmp, dat, buffer, written>>

(* Mutant: the result of fwrite is not looked at.                          *)
Rename_unchecked == /\ saver = "closed"
                    /\ dat' = tmp
                    /\ tmp' = NoFile
                    /\ saver' = "asleep"
                    /\ UNCHANGED <<canvas, buffer, written>>

(* Mutant: saves once and not periodically.                                *)
Rename_once == /\ saver = "closed" /\ written = Cells
               /\ dat' = tmp
               /\ tmp' = NoFile
               /\ saver' = "ended"
               /\ UNCHANGED <<canvas, buffer, written>>

(* rename(temp_filename, filename), which replaces canvas.dat at once.     *)
Rename == /\ saver = "closed"
          /\ written = Cells
          /\ dat' = tmp
          /\ tmp' = NoFile
          /\ saver' = "asleep"
          /\ UNCHANGED <<canvas, buffer, written>>

(* Mutant: starts with the default canvas, whatever canvas.dat holds.      *)
Restart_unloaded == /\ canvas' = Filled(White)
                    /\ buffer' = <<>>
                    /\ saver' = "asleep"
                    /\ written' = 0
                    /\ UNCHANGED <<tmp, dat>>

(* The server is killed and started again: main loads canvas.dat.          *)
Restart == /\ canvas' = Loaded(dat)
           /\ buffer' = <<>>
           /\ saver' = "asleep"
           /\ written' = 0
           /\ UNCHANGED <<tmp, dat>>

Paint == /\ \E i \in 1 .. Cells, color \in Colors : SetPixel(i, color)
         /\ UNCHANGED <<tmp, dat, buffer, saver, written>>

Save == \/ OpenTmp
        \/ \E n \in (IF WriteFails THEN 0 .. Cells ELSE {Cells}) : WriteTmp(n)
        \/ \E ok \in (IF FlushFails THEN BOOLEAN ELSE {TRUE}) : CloseTmp(ok)
        \/ GiveUp
        \/ Rename

Next == Paint \/ Save \/ Restart

Spec == FileInit /\ [][Next]_fileVars

(* The saving thread goes on, and when it tries again and again, the disk  *)
(* will have room; nothing makes users draw or the server die.             *)
FairSpec == /\ Spec
            /\ WF_fileVars(Save)
            /\ SF_fileVars(WriteTmp(Cells)) /\ SF_fileVars(Rename)
-----------------------------------------------------------------------------
TypeOK == /\ canvas \in Canvases
          /\ tmp \in Files \cup {NoFile}
          /\ dat \in Files \cup {NoFile}
          /\ buffer \in Files
          /\ saver \in {"asleep", "open", "written", "closed"}
          /\ written \in 0 .. Cells

(***************************************************************************)
(* canvas.dat is never a part of a canvas: the write goes to another file, *)
(* which takes its place when it is complete.  ("Replace the real file by  *)
(* the temporary file, prevents data loss", line 75.)                      *)
(***************************************************************************)
SavedWhole == dat = NoFile \/ dat \in Canvases

(***************************************************************************)
(* The abstract canvas: on disk is what a server that starts now would     *)
(* load, and the checkpoint under way is what fwrite was given.            *)
(***************************************************************************)
Checkpoint == IF saver \in {"written", "closed"} /\ written = Cells
              THEN tmp \o buffer
              ELSE Loaded(dat)

Durable == INSTANCE DurableCanvas WITH Blank <- Filled(White), mem <- canvas,
                                       snap <- Checkpoint, disk <- Loaded(dat)

(* Every state a restart can lead to is a canvas as it was at one moment   *)
(* of an earlier save, wherever in a save the server is killed.            *)
ImplementsDurable == Durable!Spec

(***************************************************************************)
(* When nobody draws any more, what was drawn gets saved: the save under   *)
(* way may have missed it, but the next one has it, and a server that is   *)
(* killed while nothing is lost comes back with it.                        *)
(***************************************************************************)
LastDrawingSaved ==
  \A drawing \in Canvases : <>[](canvas = drawing) => <>(Loaded(dat) = drawing)

(***************************************************************************)
(* "Failed to read complete canvas data. Initializing with default         *)
(* values." (line 157): after a load that failed the server starts with    *)
(* the canvas it starts with when there is no file.                        *)
(***************************************************************************)
DefaultAfterBadLoad ==
  [][Restart /\ dat # NoFile /\ dat \notin Canvases => canvas' = Filled(White)]_fileVars
=============================================================================
