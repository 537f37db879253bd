----------------------------- MODULE LwsServer -----------------------------
(***************************************************************************)
(* The prototype 1.libwebsocket (server.c, client.html): one thread serves *)
(* all websockets through the callbacks of libwebsockets, whose order is   *)
(* the library's choice.  Every session has a node in a doubly linked list *)
(* and one buffer for what is to be written to it.                         *)
(*                                                                         *)
(* A message is a sequence of pixels [at, color].  What clients send is a  *)
(* record [len, at, color]; only those of three bytes are looked at, and a *)
(* cell outside the canvas is no member of 1 .. Cells.                     *)
(***************************************************************************)
EXTENDS Naturals, Sequences, FiniteSets

CONSTANTS Sessions,    \* the sessions, each established at most once
          Null,        \* no node
          Cells, Colors, White,
          Scripts,     \* what each page sends
          LeavingPages, \* pages that may go away
          Failures     \* the sets of allocations of a session that may fail:
                       \* "buffer" (server.c:67), "message" (server.c:86)

Draws == [len : Nat, at : Nat, color : Colors]

ASSUME LwsAssumption == /\ Null \notin Sessions /\ LeavingPages \subseteq Sessions
                        /\ Cells \in Nat \ {0} /\ White \in Colors
                        /\ Failures \subseteq SUBSET {"buffer", "message"}
                        /\ Scripts \in [Sessions -> Seq(Draws)]

VARIABLES failing,   \* the allocations that may fail in this run
          session,   \* "new", "open", "ending" (a callback returned -1), "closed"
          head,      \* clients_list
          next, prev,
          buf,       \* the message to be written to the session; empty: len = 0
          writable,  \* whether a writable callback was asked for
          canvas,
          gone,      \* the pages that went away
          clicked,   \* how much of its script each page sent
          inbox,     \* what arrived from the page
          outbox,    \* what was written and is on its way to the page
          picture,   \* what the page shows
          last       \* the last cell that was drawn, 0: none

listVars == <<failing, session, head, next, prev>>
pageVars == <<gone, clicked, inbox, outbox, picture>>
lwsVars == <<listVars, buf, writable, canvas, pageVars, last>>

Pixel == [at : 1 .. Cells, color : Colors]

LwsInit == /\ failing \in Failures
           /\ session = [c \in Sessions |-> "new"]
           /\ head = Null
           /\ next = [c \in Sessions |-> Null] /\ prev = [c \in Sessions |-> Null]
           /\ buf = [c \in Sessions |-> <<>>]
           /\ writable = [c \in Sessions |-> FALSE]
           /\ canvas = [k \in 1 .. Cells |-> White]
           /\ gone = {}
           /\ clicked = [c \in Sessions |-> 0]
           /\ inbox = [c \in Sessions |-> <<>>] /\ outbox = [c \in Sessions |-> <<>>]
           /\ picture = [c \in Sessions |-> [k \in 1 .. Cells |-> White]]
           /\ last = 0

(***************************************************************************)
(* LWS_CALLBACK_ESTABLISHED: a buffer, a node at the head of the list, the *)
(* whole canvas as first message.  Either malloc may fail, and the library *)
(* then ends the session.                                                  *)
(***************************************************************************)
(* Mutant: the old head does not learn of its predecessor.                 *)
Linked_oneway(c) == /\ next' = [next EXCEPT ![c] = head]
                    /\ prev' = [prev EXCEPT ![c] = Null]
                    /\ head' = c
Linked(c) == /\ next' = [next EXCEPT ![c] = head]
             /\ prev' = [k \in Sessions |-> CASE k = c -> Null
                                           [] k # c /\ k = head -> c
                                           [] k # c /\ k # head -> prev[k]]
             /\ head' = c

WholeCanvas == [k \in 1 .. Cells |-> [at |-> k, color |-> canvas[k]]]

Established(c) ==
  /\ session[c] = "new"
  /\ session' = [session EXCEPT ![c] = "open"]
  /\ Linked(c)
  /\ buf' = [buf EXCEPT ![c] = WholeCanvas]
  /\ writable' = [writable EXCEPT ![c] = TRUE]
  /\ UNCHANGED <<failing, canvas, pageVars, last>>

NoBuffer(c) ==
  /\ "buffer" \in failing /\ session[c] = "new"
  /\ session' = [session EXCEPT ![c] = "ending"]
  /\ UNCHANGED <<failing, head, next, prev, buf, writable, canvas, pageVars, last>>

NoMessage(c) ==
  /\ "message" \in failing /\ session[c] = "new"
  /\ session' = [session EXCEPT ![c] = "ending"]
  /\ Linked(c)
  /\ UNCHANGED <<failing, buf, writable, canvas, pageVars, last>>

(***************************************************************************)
(* LWS_CALLBACK_RECEIVE: the pixel is drawn and put in the buffer of every *)
(* session of the list, over what is there.  All buffers are large enough. *)
(***************************************************************************)
Walk[n \in Nat] == IF n = 0 THEN head
                   ELSE IF Walk[n - 1] = Null THEN Null ELSE next[Walk[n - 1]]
Listed == {Walk[n] : n \in 0 .. Cardinality(Sessions)} \ {Null}

(* Mutant: the callback is asked for only when the buffer was empty, but   *)
(* then what is in the buffer is kept.                                     *)
broadcast_to_clients_kept(message) ==
  /\ buf' = [c \in Sessions |-> IF c \in Listed /\ buf[c] = <<>> THEN message ELSE buf[c]]
  /\ writable' = [c \in Sessions |-> writable[c] \/ c \in Listed]
broadcast_to_clients(message) ==
  /\ buf' = [c \in Sessions |-> IF c \in Listed THEN message ELSE buf[c]]
  /\ writable' = [c \in Sessions |-> writable[c] \/ c \in Listed]

Receive(c) ==
  LET m == Head(inbox[c]) IN
  /\ session[c] = "open" /\ inbox[c] # <<>>
  /\ inbox' = [inbox EXCEPT ![c] = Tail(@)]
  /\ \/ /\ m.len = 3 /\ m.at \in 1 .. Cells
        /\ canvas' = [canvas EXCEPT ![m.at] = m.color]
        /\ last' = m.at
        /\ broadcast_to_clients(<<[at |-> m.at, color |-> m.color]>>)
     \/ /\ ~(m.len = 3 /\ m.at \in 1 .. Cells)
        /\ UNCHANGED <<canvas, last, buf, writable>>
  /\ UNCHANGED <<listVars, gone, clicked, outbox, picture>>

(***************************************************************************)
(* LWS_CALLBACK_SERVER_WRITEABLE: the message is written; writing to a     *)
(* page that is gone may fail.                                             *)
(***************************************************************************)
Writeable(c) ==
  /\ session[c] = "open" /\ writable[c]
  /\ writable' = [writable EXCEPT ![c] = FALSE]
  /\ \/ /\ outbox' = IF buf[c] = <<>> THEN outbox ELSE [outbox EXCEPT ![c] = Append(@, buf[c])]
        /\ buf' = [buf EXCEPT ![c] = <<>>]
        /\ UNCHANGED session
     \/ /\ c \in gone /\ buf[c] # <<>>
        /\ session' = [session EXCEPT ![c] = "ending"]
        /\ UNCHANGED <<buf, outbox>>
  /\ UNCHANGED <<failing, head, next, prev, canvas, gone, clicked, inbox, picture, last>>

(***************************************************************************)
(* LWS_CALLBACK_CLOSED: the node is unlinked.                              *)
(***************************************************************************)
(* Mutant: the successor keeps its predecessor.                            *)
Unlinked_oneway(c) ==
  /\ next' = [k \in Sessions |-> IF k = prev[c] THEN next[c] ELSE next[k]]
  /\ head' = IF prev[c] = Null THEN next[c] ELSE head
  /\ UNCHANGED prev
Unlinked(c) ==
  /\ next' = [k \in Sessions |-> IF k = prev[c] THEN next[c] ELSE next[k]]
  /\ head' = IF prev[c] = Null THEN next[c] ELSE head
  /\ prev' = [k \in Sessions |-> IF k = next[c] THEN prev[c] ELSE prev[k]]

SessionClosed(c) ==
  /\ session[c] = "ending" \/ (session[c] = "open" /\ c \in gone)
  /\ session' = [session EXCEPT ![c] = "closed"]
  /\ Unlinked(c)
  /\ buf' = [buf EXCEPT ![c] = <<>>]
  /\ UNCHANGED <<failing, writable, canvas, pageVars, last>>

(* lws_service: one callback after the other.                              *)
Service(c) == \/ Established(c) \/ NoBuffer(c) \/ NoMessage(c) \/ Receive(c)
              \/ Writeable(c) \/ SessionClosed(c)

(***************************************************************************)
(* The pages: a click sends a pixel; ws.onmessage applies what arrives.    *)
(***************************************************************************)
Click(c) ==
  /\ session[c] = "open" /\ c \notin gone /\ clicked[c] < Len(Scripts[c])
  /\ clicked' = [clicked EXCEPT ![c] = @ + 1]
  /\ inbox' = [inbox EXCEPT ![c] = Append(@, Scripts[c][clicked[c] + 1])]
  /\ UNCHANGED <<listVars, buf, writable, canvas, gone, outbox, picture, last>>

Colored(old, message, k) ==
  LET hits == {i \in DOMAIN message : message[i].at = k}
  IN  IF hits = {} THEN old ELSE message[CHOOSE i \in hits : \A j \in hits : j <= i].color

OnMessage(c) ==
  /\ c \notin gone /\ outbox[c] # <<>>
  /\ picture' = [picture EXCEPT ![c] = [k \in 1 .. Cells |-> Colored(@[k], Head(outbox[c]), k)]]
  /\ outbox' = [outbox EXCEPT ![c] = Tail(@)]
  /\ UNCHANGED <<listVars, buf, writable, canvas, gone, clicked, inbox, last>>

Leave(c) == /\ c \in LeavingPages \ gone /\ session[c] = "open"
            /\ gone' = gone \cup {c}
            /\ UNCHANGED <<listVars, buf, writable, canvas, clicked, inbox, outbox, picture, last>>

Page(c) == Click(c) \/ OnMessage(c) \/ Leave(c)

LwsNext == \E c \in Sessions : Service(c) \/ Page(c)

LwsSpec == LwsInit /\ [][LwsNext]_lwsVars

(* The library serves every session that has something to be served, and   *)
(* messages arrive.                                                        *)
LwsFairSpec ==
  LwsSpec /\ \A c \in Sessions : /\ WF_lwsVars(Receive(c)) /\ WF_lwsVars(Writeable(c))
                                 /\ WF_lwsVars(SessionClosed(c)) /\ WF_lwsVars(OnMessage(c))
-----------------------------------------------------------------------------
TypeOK == /\ failing \in Failures
          /\ session \in [Sessions -> {"new", "open", "ending", "closed"}]
          /\ head \in Sessions \cup {Null}
          /\ next \in [Sessions -> Sessions \cup {Null}]
          /\ prev \in [Sessions -> Sessions \cup {Null}]
          /\ writable \in [Sessions -> BOOLEAN]
          /\ canvas \in [1 .. Cells -> Colors]
          /\ buf \in [Sessions -> Seq(Pixel)]
          /\ gone \in SUBSET Sessions
          /\ clicked \in [Sessions -> Nat] /\ inbox \in [Sessions -> Seq(Draws)]
          /\ outbox \in [Sessions -> Seq(Seq(Pixel))]
          /\ last \in 0 .. Cells

(* Every session that is closed has a node (otherwise line 173 drops the   *)
(* whole list).                                                            *)
ListKept == "buffer" \notin failing

(***************************************************************************)
(* server.c unlinks a node from both sides without looking at the list:    *)
(* that works only while the links of all nodes agree.  The nodes in the   *)
(* list are those of the live sessions, and following next and following   *)
(* prev are inverse to each other.                                         *)
(***************************************************************************)
Live == {c \in Sessions : session[c] \in {"open", "ending"}}
ListLinked ==
  ListKept =>
    /\ head # Null => head \in Live /\ prev[head] = Null
    /\ \A c \in Live :
         /\ next[c] # Null => next[c] \in Live /\ prev[next[c]] = c
         /\ prev[c] # Null => prev[c] \in Live /\ next[prev[c]] = c
         /\ prev[c] = Null => head = c

(***************************************************************************)
(* Messages can be lost, but not the last one: in the end every page that  *)
(* stays shows the color of the cell that was drawn last.                  *)
(***************************************************************************)
LastDrawnShown ==
  ListKept =>
    <>[](\A c \in Sessions : session[c] = "open" /\ c \notin gone /\ last # 0 => picture[c][last] = canvas[last])

(***************************************************************************)
(* "The list of all clients connected" (server.c:24): a broadcast walks    *)
(* all of them.                                                            *)
(***************************************************************************)
ListsEverySession == {c \in Sessions : session[c] = "open"} \subseteq Listed

(***************************************************************************)
(* "Sends the current state of the canvas" (server.c:82): a page that was  *)
(* sent everything there was to send shows the canvas.                     *)
(***************************************************************************)
PicturesCurrent ==
  \A c \in Sessions : session[c] = "open" /\ buf[c] = <<>> /\ outbox[c] = <<>> => picture[c] = canvas
=============================================================================
