----------------------------- MODULE PollServer -----------------------------
(***************************************************************************)
(* chaeyoung_files (server.c, main.c): one thread answers an HTTP request  *)
(* per connection.  The page is served, a click POSTs a pixel, which is    *)
(* appended to a JSON file, and pages poll the whole file.  The server may *)
(* be killed and started again; the file stays.                            *)
(*                                                                         *)
(* More kinds of what a connection sends (EpollSockets):                   *)
(*   "page"      GET / or /index.html                                      *)
(*   "pixels"    GET /get-existing-pixels                                  *)
(*   "post"      POST /update-pixel with its body, `pixel`                 *)
(*   "postline"  the start of such a request, cut before the empty line    *)
(*   "posthead"  one cut behind the empty line                             *)
(*   "postpart"  one cut in its body                                       *)
(*   "body"      the rest of a request that was cut; its body is `pixel`   *)
(* and `kills` and `ctlFails` are more fields of a world.                  *)
(*                                                                         *)
(* The worker threads of main wait in pop_task for ever, nothing calls     *)
(* push_task; http_request calls send_json_response, which is nowhere      *)
(* defined: send_cli_json is taken for it.                                 *)
(***************************************************************************)
EXTENDS EpollSockets

CONSTANTS Pixels,     \* bodies, a different one for each click
          Nothing,    \* the empty body
          Part        \* the beginning of a body

ASSUME PixelsAssumption ==
  /\ Nothing # Part /\ {Nothing, Part} \cap Pixels = {}
  /\ (Pixels \cup {Nothing, Part}) \cap {"open", "close", "comma", "newline"} = {}

HasBody(chunk) == chunk.kind \in {"post", "body"}
CutKinds == {"postline", "posthead", "postpart"}
PostKinds == {"post"} \cup CutKinds

(* The pages: one request per connection (the answer closes it), in one    *)
(* piece or two, and no two clicks are the same.                           *)
ASSUME RequestsAssumption ==
  \A w \in DOMAIN Worlds : LET script == Worlds[w].script IN
    /\ \A c \in Conns : \/ Len(script[c]) <= 1
                       \/ /\ Len(script[c]) = 2
                          /\ script[c][1].kind \in CutKinds /\ script[c][2].kind = "body"
    /\ \A c \in Conns : \A i \in DOMAIN script[c] : HasBody(script[c][i]) =>
         /\ script[c][i].pixel \in Pixels
         /\ \A d \in Conns : \A j \in DOMAIN script[d] :
              HasBody(script[d][j]) /\ script[d][j].pixel = script[c][i].pixel => d = c /\ j = i

VARIABLES file,       \* the JSON file: <<>> where it does not exist either, a
                      \* sequence of the characters "open", "close", "comma", "newline"
                      \* and of bodies
          batch,      \* events of epoll_wait not handled yet
          pc,         \* "events", or where the handler of a request is
          request,    \* what it has read
          answered,   \* pixels whose POST was answered with success, in order
          running     \* the process exists

pollVars == <<file, batch, pc, request, answered, running>>
vars == <<netVars, pollVars>>

Kills == Worlds[world].kills
CtlFails == Worlds[world].ctlFails

(* init_server.  A file that does not exist differs from an empty one only *)
(* in the call that opens it.                                              *)
Init == /\ NetInit
        /\ file = <<>>
        /\ batch = <<>>
        /\ pc = "events"
        /\ request = <<>>
        /\ answered = <<>>
        /\ running = TRUE

(***************************************************************************)
(* server_event_loop                                                       *)
(***************************************************************************)
(* The listening socket is edge-triggered too: it is reported once for all *)
(* the connections that have arrived.                                      *)
EpollWait == /\ pc = "events" /\ batch = <<>>
             /\ Reported # <<>>
             /\ batch' = [i \in DOMAIN Reported |-> Event(Reported[i]).fd]
             /\ ready' = <<>>
             /\ UNCHANGED <<peer, sent, backlog, fds, rx, wire, file, pc, request, answered, running>>

AtEvent == pc = "events" /\ batch # <<>>

(* accept_new_client takes one connection, or none if there is no number   *)
(* for it, and closes it again if it cannot be registered.                 *)
AcceptNewClient ==
  /\ AtEvent /\ Head(batch) = 0
  /\ batch' = Tail(batch)
  /\ \/ /\ Available = {} \/ backlog = <<>>
        /\ UNCHANGED <<fds, backlog, ready>>
     \/ /\ Available # {} /\ backlog # <<>>
        /\ fds' = [fds EXCEPT ![Lowest] = Head(backlog)]
        /\ backlog' = Tail(backlog)
        /\ ready' = IF CanRead(Head(backlog)) THEN Append(ready, Head(backlog)) ELSE ready
     \/ /\ Available # {} /\ backlog # <<>> /\ CtlFails
        /\ backlog' = Tail(backlog)
        /\ UNCHANGED <<fds, ready>>
  /\ UNCHANGED <<peer, sent, rx, wire, file, pc, request, answered, running>>

Fd == Head(batch)

(* close, and the end of the loop body. *)
CloseClient == /\ CloseFd(Fd)
               /\ batch' = Tail(batch)
               /\ pc' = "events"
               /\ request' = <<>>

(* read returns what has arrived, which is less than the buffer. *)
Read == /\ AtEvent /\ Fd # 0
        /\ RecvResult(Fd) = "data"
        /\ request' = rx[fds[Fd]]
        /\ rx' = [rx EXCEPT ![fds[Fd]] = <<>>]
        /\ pc' = IF Head(request').kind \in PostKinds THEN "append" ELSE "answer"
        /\ UNCHANGED <<peer, sent, backlog, fds, ready, wire, file, batch, answered, running>>

(* The stream has ended or was reset. *)
ReadNothing == /\ AtEvent /\ Fd # 0
               /\ RecvResult(Fd) # "data"
               /\ CloseClient
               /\ UNCHANGED <<peer, sent, backlog, rx, wire, file, answered, running>>

(***************************************************************************)
(* pixel_update                                                            *)
(***************************************************************************)
(* strstr finds the empty line; the body is what was read behind it. *)
HeaderEnds == Head(request).kind # "postline" \/ Len(request) > 1
Body == IF Head(request).kind = "post" THEN Head(request).pixel
        ELSE IF Len(request) > 1 THEN request[2].pixel
        ELSE IF Head(request).kind = "postpart" THEN Part ELSE Nothing

(* Mutant: only the last byte is written over *)
Appended_m(f, data) ==
  IF f = <<>> THEN <<"open", "newline", data, "newline", "close", "newline">>
  ELSE SubSeq(f, 1, Len(f) - 1) \o <<"comma", "newline", data, "newline", "close">>
(* append_json_file: an array in a file of its own, or over the last two   *)
(* bytes, which are the bracket and a newline in one of the two orders.    *)
Appended(f, data) ==
  IF f = <<>> THEN <<"open", "newline", data, "newline", "close", "newline">>
  ELSE SubSeq(f, 1, Len(f) - 2) \o <<"comma", "newline", data, "newline", "close">>

(* With no number for the file, neither fopen succeeds, and fprintf to the *)
(* null stream ends the process.  The text reaches the file in fclose.     *)
AppendJsonFile == /\ pc = "append" /\ HeaderEnds
                  /\ IF Available = {}
                     THEN running' = FALSE /\ UNCHANGED <<file, pc>>
                     ELSE file' = Appended(file, Body) /\ pc' = "answer" /\ UNCHANGED running
                  /\ UNCHANGED <<netVars, batch, request, answered>>

(* Without the empty line nothing is written and nothing answered. *)
IgnorePost == /\ pc = "append" /\ ~HeaderEnds
              /\ CloseClient
              /\ UNCHANGED <<peer, sent, backlog, rx, wire, file, answered, running>>

Posted == Head(request).kind \in PostKinds

(* One send answers a POST. *)
AnswerPost ==
  /\ pc = "answer" /\ Posted
  /\ \E result \in SendResults(Fd) :
       answered' = IF result = "all" THEN Append(answered, Body) ELSE answered
  /\ CloseClient
  /\ UNCHANGED <<peer, sent, backlog, rx, wire, file, running>>

(* send_file_content, send_cli_json, or the answer 404. *)
AnswerGet == /\ pc = "answer" /\ ~Posted
             /\ CloseClient
             /\ UNCHANGED <<peer, sent, backlog, rx, wire, file, answered, running>>

(* A file is sent after its header.  When the header met a reset, or made  *)
(* a page that has gone answer with one, the next send raises SIGPIPE.     *)
SendsToReset == /\ pc = "answer"
                /\ Head(request).kind \in {"page", "pixels"}
                /\ Available # {}
                /\ \/ peer[fds[Fd]] = "rst"
                   \/ peer[fds[Fd]] = "fin" /\ fds[Fd] \in Aborting
                /\ running' = FALSE
                /\ UNCHANGED <<netVars, file, batch, pc, request, answered>>

HttpRequest == AppendJsonFile \/ IgnorePost \/ AnswerPost \/ AnswerGet \/ SendsToReset

(***************************************************************************)
(* The server is killed, and started again: main.                          *)
(***************************************************************************)
Kill == /\ Kills
        /\ running' = FALSE
        /\ UNCHANGED <<netVars, file, batch, pc, request, answered>>

Restart == /\ ~running
           /\ running' = TRUE
           /\ fds' = [f \in Fds |-> Closed]
           /\ rx' = [c \in Conns |-> <<>>]
           /\ peer' = [c \in Conns |-> IF peer[c] = "new" THEN "new" ELSE "rst"]
           /\ backlog' = <<>> /\ ready' = <<>> /\ batch' = <<>>
           /\ pc' = "events" /\ request' = <<>>
           /\ UNCHANGED <<sent, wire, file, answered>>

Server == /\ running
          /\ EpollWait \/ AcceptNewClient \/ Read \/ ReadNothing \/ HttpRequest \/ Kill

Pages == running /\ \E c \in Conns : Client(c) /\ UNCHANGED pollVars

Next == (Server \/ Restart \/ Pages) /\ UNCHANGED world

Spec == Init /\ [][Next]_vars

(***************************************************************************)
(* Properties                                                              *)
(***************************************************************************)
(* What JSON.parse makes of the file: white space does not count, and the  *)
(* text is an array of pixels or is refused.                               *)
WhiteSpace == {"newline", Nothing}
TokensOf(f) == Picked(f, {k \in DOMAIN f : f[k] \notin WhiteSpace})
Tokens == TokensOf(file)

IsArray(t) == /\ Len(t) = 2 \/ (Len(t) >= 3 /\ Len(t) % 2 = 1)
              /\ t[1] = "open" /\ t[Len(t)] = "close"
              /\ \A i \in 2 .. Len(t) - 1 : IF i % 2 = 0 THEN t[i] \in Pixels ELSE t[i] = "comma"

(* The comment of send_cli_json: it "returns the pixel data in JSON form"  *)
(* (lines 108, 109).                                                       *)
FileParses == file # <<>> => IsArray(Tokens)

(* No body came too late, as a whole or in part.                           *)
BodiesWhole == \A k \in DOMAIN file : file[k] \notin {Nothing, Part}

(* The i-th answer was for the pixel that the file has at place k.         *)
Records(k, i) == answered[i] \in Pixels /\ file[k] = answered[i]

(* append_json_file, through kills at any point, requests cut anywhere and *)
(* both of the endings it leaves: the file holds no pixel twice, and every *)
(* pixel that was answered with success, in the order of the answers; and  *)
(* as long as all bodies came whole it is an array of pixels.              *)
FileMatchesAnswers ==
  /\ BodiesWhole => FileParses
  /\ \A k, l \in DOMAIN file : file[k] = file[l] /\ file[k] \in Pixels => k = l
  /\ \A i \in DOMAIN answered : answered[i] \in Pixels => \E k \in DOMAIN file : Records(k, i)
  /\ \A i, j \in DOMAIN answered : \A k, l \in DOMAIN file :
       Records(k, i) /\ Records(l, j) /\ i < j => k < l
=============================================================================
