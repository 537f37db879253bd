------------------------------ MODULE Requests ------------------------------
(***************************************************************************)
(* What http_handler.c and http_parser.c (1.2v) see in received bytes.     *)
(* The event loop asks it of one recv, the client manager of the buffer of *)
(* a client.  Both scan all the bytes they have: a request is not told     *)
(* from the one behind it.                                                 *)
(***************************************************************************)
EXTENDS Network

Beginnings == {"get", "upgrade", "ghead", "uhead"}  \* hold a request line
Endings == {"get", "upgrade", "gtail", "utail"}     \* hold an empty line

(* A method at the start, or "HTTP/1." anywhere. *)
is_http_request(bytes) == \E j \in DOMAIN bytes : Kind(bytes[j]) \in Beginnings

is_complete_http_request(bytes) == \E j \in DOMAIN bytes : Kind(bytes[j]) \in Endings

(* http_parsing: the method from the first line, a header from any other,  *)
(* since strtok skips the empty line; the body is not used.                *)
http_parsing(bytes) ==
  [method |-> IF Kind(Head(bytes)) \in Beginnings THEN "GET" ELSE "none",
   upgrade |-> \E j \in DOMAIN bytes : Kind(bytes[j]) \in {"upgrade", "utail"}]

(* handle_http_request: GET, with the header "Upgrade: websocket".         *)
IsUpgrade(req) == http_parsing(req).method = "GET" /\ http_parsing(req).upgrade
=============================================================================
