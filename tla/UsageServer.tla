---------------------------- MODULE UsageServer ----------------------------
(***************************************************************************)
(* eunhye_files/epoll_usage/server.c: the server of SlotServer with a      *)
(* larger canvas, together with the thread that saves it (CanvasFile).     *)
(* The two share the canvas, and the descriptor numbers of the process:    *)
(* the stream of canvas.tmp has a number that a socket had before.  The    *)
(* server may be killed and started again.                                 *)
(*                                                                         *)
(* The handlers are those of SlotServer; what differs from                 *)
(* eunhye_files/server.c are the sizes of the messages.  In a world that   *)
(* neither saves nor kills this is eunhye_files/server.c.                  *)
(***************************************************************************)
EXTENDS SlotServer

CONSTANTS InBuffer,    \* cells fwrite leaves in the buffer of the stream
          NoFile

VARIABLES tmp, dat, buffer, saver, written,   \* as in CanvasFile
          file                                \* descriptor of the stream

savedVars == <<tmp, dat, buffer, saver, written, file>>
usageVars == <<slotVars, savedVars>>

(* memset(canvas, 0): the blank canvas is the zeroed one.                  *)
File == INSTANCE CanvasFile WITH White <- Blank, Zero <- Blank,
                                 WriteFails <- FALSE, FlushFails <- FALSE

ASSUME UsageServerAssumption == InBuffer \in 0 .. Cells /\ NoFile \notin File!Files

(* main, without a canvas.dat.                                             *)
UsageInit == SlotInit /\ File!FileInit /\ file = 0

(* More of a world: the saving thread runs, the server may be killed.      *)
Saves == Worlds[world].saves
Kills == Worlds[world].kills

(***************************************************************************)
(* The event thread: its functions, and the parts of the loop of main.     *)
(* They are SlotServer's, statement by statement, but for the 64-bit       *)
(* length of a frame that is sent (broadcast_to_clients and greeting),     *)
(* which the initial canvas of 500 * 500 * 5 bytes needs.                  *)
(***************************************************************************)
rounds == EpollWait \/ NextEvent \/ Dispatch
accepting == AcceptEnds \/ Accept
websocket_handshake == Handshake
greeting == Initial
reading == Recv \/ Hangup
process_websocket_frame == ProcessFrame \/ FramesEnd
broadcast_to_clients == Send \/ SendEnds

EventThread == /\ \/ rounds \/ accepting \/ websocket_handshake \/ greeting
                  \/ reading \/ process_websocket_frame \/ broadcast_to_clients
               /\ UNCHANGED <<world, savedVars>>

(***************************************************************************)
(* The saving thread.  When the event thread has closed the number of the  *)
(* stream, fwrite and fclose reach what the number refers to by then.      *)
(***************************************************************************)
FopenTmp == /\ Available # {}
            /\ File!OpenTmp
            /\ file' = Lowest
            /\ fds' = [fds EXCEPT ![Lowest] = TmpFile]
            /\ UNCHANGED <<ready, wire, pc>>

FwriteTmp == \/ /\ File!WriteTmp(Cells)
                /\ fds[file] = TmpFile
                /\ UNCHANGED <<fds, ready, wire, file, pc>>
             \/ /\ saver = "open" /\ fds[file] # TmpFile
                /\ \E result \in SendResults(file) :
                     /\ written' = IF result = "all" THEN Cells ELSE 0
                     /\ wire' = IF result \in {"error", "killed"} THEN wire
                                ELSE [wire EXCEPT ![fds[file]] = "broken"]
                     /\ pc' = IF result = "killed" THEN "dead" ELSE pc
                /\ saver' = "written"
                /\ UNCHANGED <<canvas, tmp, dat, buffer, fds, ready, file>>

(* Mutant: close(fileno(file)), what is in the buffer of the stream stays. *)
FcloseTmp_unflushed == /\ File!CloseTmp(FALSE)
                       /\ CloseFd(file)
                       /\ file' = 0
                       /\ UNCHANGED <<wire, pc>>

FcloseTmp == /\ File!CloseTmp(fds[file] = TmpFile)
             /\ CloseFd(file)
             /\ file' = 0
             /\ UNCHANGED <<wire, pc>>

ReplaceDat == (File!GiveUp \/ File!Rename) /\ UNCHANGED <<fds, ready, wire, file, pc>>

SavingThread == /\ Saves /\ pc # "dead"
                /\ FopenTmp \/ FwriteTmp \/ FcloseTmp \/ ReplaceDat
                /\ UNCHANGED <<world, peer, sent, backlog, rx, slots, buffers, batch, cur, call, screen>>

(***************************************************************************)
(* The server is killed, or has died of SIGPIPE, and is started again: the *)
(* kernel closes what was open, main loads the canvas.                     *)
(***************************************************************************)
Emptied == /\ Kills
           /\ peer' = [c \in Conns |-> IF peer[c] = "new" THEN "new" ELSE "rst"]
           /\ backlog' = <<>> /\ ready' = <<>>
           /\ fds' = [f \in Fds |-> Closed]
           /\ rx' = [c \in Conns |-> <<>>]
           /\ slots' = [i \in Slots |-> Free]
           /\ buffers' = [i \in Slots |-> <<>>]
           /\ pc' = "wait" /\ batch' = <<>> /\ cur' = 1
           /\ call' = [cell |-> 1, at |-> 1]
           /\ file' = 0
           /\ UNCHANGED <<world, sent, wire, screen>>

ServerRestart == Emptied /\ File!Restart

Pages == Clients /\ UNCHANGED savedVars

UsageNext == EventThread \/ SavingThread \/ ServerRestart \/ Pages

UsageSpec == UsageInit /\ [][UsageNext]_usageVars
UsageFairSpec == UsageSpec /\ WF_usageVars(EventThread) /\ WF_usageVars(Pages)
-----------------------------------------------------------------------------
(***************************************************************************)
(* The whole server, with its sockets, its pages and its saving thread,    *)
(* keeps the promise of DurableCanvas: it comes back with a canvas it once *)
(* had.                                                                    *)
(***************************************************************************)
UsageDurable == File!Durable!Spec

(***************************************************************************)
(* Between fopen and fclose the descriptor of canvas.tmp is the saving     *)
(* thread's: the event thread does not close it, unless a connection is    *)
(* reset or a page sends a close frame, whose descriptor is closed twice.  *)
(***************************************************************************)
ClosedOnce == /\ Aborting \cup Slow = {}
              /\ \A c \in Conns : \A k \in DOMAIN Script[c] : Script[c][k].kind # "close"
StreamKeepsDescriptor ==
  ClosedOnce /\ saver \in {"open", "written"} => fds[file] = TmpFile

(* Every descriptor number in use is its user's, a slot's or the stream's. *)
NumbersOwned == TableMatchesSockets /\ StreamKeepsDescriptor

(***************************************************************************)
(* When no page goes away and the server is not killed, everything a page  *)
(* draws ends up on the canvas and all pages show the same: an             *)
(* edge-triggered event is never lost.                                     *)
(***************************************************************************)
AllSettle == Quiet /\ ~Kills => <>[]Settled

(***************************************************************************)
(* "Replaces the real file by the temporary file, prevents data loss"      *)
(* (line 65): canvas.dat is never a part of a canvas.                      *)
(***************************************************************************)
UsageSavedWhole == File!SavedWhole
=============================================================================
