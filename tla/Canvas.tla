------------------------------- MODULE Canvas -------------------------------
(***************************************************************************)
(* canvas.c and parsing_json.c (1.2v): the thread that owns the pixels.    *)
(* It pops a task, handles it, and then looks at the clock: the broadcast  *)
(* of what was modified happens there and only there.                      *)
(***************************************************************************)
EXTENDS Queues, Network

VARIABLES pixels,           \* canvas->pixels: color of every pixel
          modified_pixels,  \* the hash map: colors of the pixels not broadcast
          canvas_pc,        \* "pop" or "timers"
          due,              \* 500 ms have passed since last_broadcast
          lost              \* pixels whose last broadcast was dropped unsent

canvasVars == <<pixels, modified_pixels, canvas_pc, due, lost>>

CanvasInit == /\ pixels = [k \in Keys |-> White]
              /\ modified_pixels = <<>>
              /\ canvas_pc = "pop"
              /\ due = FALSE
              /\ lost = {}

CanvasTask == Head(canvas_queue)

TakeCanvas(type) == /\ canvas_pc = "pop"
                    /\ canvas_queue # <<>>
                    /\ CanvasTask.type = type
                    /\ canvas_queue' = Tail(canvas_queue)
                    /\ canvas_pc' = "timers"

(***************************************************************************)
(* process_json scans for balanced braces.  A first fragment opens braces  *)
(* that are never closed, so that it swallows every object after it.  An   *)
(* object with an invalid coordinate or color is skipped.                  *)
(***************************************************************************)
Objects(message) == {j \in DOMAIN message : \A l \in 1 .. j : Kind(message[l]) # "frag"}

(* mutant: is_valid_hex_color is not called *)
Setting_m(message, k) == {j \in Objects(message) : /\ Kind(message[j]) = "pixel"
                                                   /\ Content(message[j]).key = k}
(* The objects of a message that set pixel k. *)
Setting(message, k) == {j \in Objects(message) : /\ Kind(message[j]) = "pixel"
                                                 /\ Content(message[j]).key = k
                                                 /\ Content(message[j]).val \in Colors}

(* The pixels a message sets, with the color it leaves them. *)
Changes(message) ==
  [k \in {key \in Keys : Setting(message, key) # {}} |->
     LET last == CHOOSE j \in Setting(message, k) : \A l \in Setting(message, k) : l <= j
     IN  Content(message[last]).val]

(* HASH_ADD_INT or strcpy into the entry that is there. *)
Overlaid(f, g) == [k \in DOMAIN f \cup DOMAIN g |-> IF k \in DOMAIN g THEN g[k] ELSE f[k]]

(* mutant: an entry that is already in the hash map keeps its color *)
PixelUpdate_m == /\ TakeCanvas("PIXEL_UPDATE")
                 /\ pixels' = Overlaid(pixels, Changes(CanvasTask.data))
                 /\ modified_pixels' = Overlaid(Changes(CanvasTask.data), modified_pixels)
                 /\ UNCHANGED <<cm_queue, due, lost>>
(* mutant: the hash map is not updated *)
PixelUpdate_m2 == /\ TakeCanvas("PIXEL_UPDATE")
                  /\ pixels' = Overlaid(pixels, Changes(CanvasTask.data))
                  /\ UNCHANGED <<modified_pixels, cm_queue, due, lost>>
(* TASK_PIXEL_UPDATE *)
PixelUpdate == /\ TakeCanvas("PIXEL_UPDATE")
               /\ pixels' = Overlaid(pixels, Changes(CanvasTask.data))
               /\ modified_pixels' = Overlaid(modified_pixels, Changes(CanvasTask.data))
               /\ UNCHANGED <<cm_queue, due, lost>>

(* The color of every pixel, in the order of the array. *)
trans_canvas_as_json == pixels

(* mutant: what was modified is forgotten because the snapshot contains it *)
SendCanvas_m ==
  /\ TakeCanvas("NEW_CLIENT")
  /\ cm_queue' = Pushed(cm_queue, [type |-> "INIT_CANAVAS", fd |-> CanvasTask.fd, data |-> trans_canvas_as_json])
  /\ modified_pixels' = <<>>
  /\ UNCHANGED <<pixels, due, lost>>
(* TASK_NEW_CLIENT: the whole canvas goes to the new client. *)
SendCanvas ==
  /\ TakeCanvas("NEW_CLIENT")
  /\ cm_queue' = Pushed(cm_queue, [type |-> "INIT_CANAVAS", fd |-> CanvasTask.fd, data |-> trans_canvas_as_json])
  /\ UNCHANGED <<pixels, modified_pixels, due, lost>>

(* broadcast_updates: push what was modified, whether or not there is room *)
(* for it, and forget it.                                                  *)
BroadcastUpdates ==
  LET message == [type |-> "BROADCAST", fd |-> 0, data |-> modified_pixels] IN
  /\ cm_queue' = Pushed(cm_queue, message)
  /\ lost' = IF HasRoom(cm_queue) THEN lost \ DOMAIN modified_pixels
                                  ELSE lost \cup DOMAIN modified_pixels
  /\ modified_pixels' = <<>>

(* The end of the loop body. *)
Timers == /\ canvas_pc = "timers"
          /\ canvas_pc' = "pop"
          /\ due' = FALSE
          /\ IF due /\ DOMAIN modified_pixels # {}
             THEN BroadcastUpdates
             ELSE UNCHANGED <<cm_queue, lost, modified_pixels>>
          /\ UNCHANGED <<canvas_queue, pixels>>

CanvasStep == PixelUpdate \/ SendCanvas \/ Timers

(* 500 ms have passed since the last broadcast. *)
Tick == /\ ~due
        /\ due' = TRUE
        /\ UNCHANGED <<pixels, modified_pixels, canvas_pc, lost, cm_queue, canvas_queue>>
=============================================================================
