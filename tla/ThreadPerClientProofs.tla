----------------------- MODULE ThreadPerClientProofs -----------------------
(***************************************************************************)
(* 2.multithreading, for every set of connections, any number of slots and *)
(* descriptors and whatever the pages send.                                *)
(*                                                                         *)
(* No slot is lost (SlotsKept): an active slot has a thread that will give *)
(* it back.  The thread of a slot is overwritten only when its connection  *)
(* is placed a second time.  Newcomers says that this does not happen: a   *)
(* connection is accepted once, and has no thread until it is placed.      *)
(*                                                                         *)
(* Pages are sent the pixels in one order (PixelsInOrder), although the    *)
(* threads do not keep to their own sockets: what each drawing passes      *)
(* through, from the page that sends it to the pages that are sent it, is  *)
(* followed instead of the sockets.                                        *)
(***************************************************************************)
EXTENDS ThreadPerClient, SequenceTheorems, TLAPS

Shapes == /\ DOMAIN slots = Slots
          /\ \A i \in Slots : {"fd", "active"} \subseteq DOMAIN slots[i]
          /\ DOMAIN thread = Conns
          /\ \A t \in Conns : {"pc", "cli"} \subseteq DOMAIN thread[t]
          /\ DOMAIN peer = Conns

Queued(c) == \E i \in DOMAIN backlog : backlog[i] = c
Placing(c) == new # <<>> /\ new[2] = c

Newcomers == /\ backlog \in Seq(Conns)
             /\ \A i, j \in DOMAIN backlog : backlog[i] = backlog[j] => i = j
             /\ \A c \in Conns : Placing(c) => ~Queued(c)
             /\ \A c \in Conns : peer[c] = "new" => ~Queued(c) /\ ~Placing(c)
             /\ \A c \in Conns : peer[c] = "new" \/ Queued(c) \/ Placing(c)
                                 => thread[c].pc = "unborn"
             /\ new # <<>> => new[2] \in Conns

IInv == Shapes /\ Newcomers /\ SlotsHaveThreads

LEMMA InitIInv == Init => IInv
<1> SUFFICES ASSUME Init PROVE IInv
  OBVIOUS
<1>1. backlog = <<>> /\ backlog \in Seq(Conns) /\ DOMAIN backlog = {}
  BY EmptySeq DEF Init, setup_server
<1>2. Shapes
  BY DEF Init, Shapes, NoSlot, Unborn
<1>3. Newcomers
  BY <1>1 DEF Init, Newcomers, Queued, Placing, Unborn
<1>4. SlotsHaveThreads
  BY DEF Init, SlotsHaveThreads, NoSlot
<1> QED BY <1>2, <1>3, <1>4 DEF IInv

-----------------------------------------------------------------------------
(* What any step of the thread of t leaves alone.                          *)
Moved(t) == /\ thread[t].pc \notin {"unborn", "ended"} /\ thread'[t].pc # "unborn"
            /\ thread'[t].cli = thread[t].cli
            /\ \A u \in Conns \ {t} : thread'[u] = thread[u]
            /\ \A i \in Slots : slots'[i].active =>
                 slots[i].active /\ (thread'[t].pc = "ended" => i # thread[t].cli)
            /\ Shapes'
            /\ UNCHANGED <<peer, backlog, new>>

LEMMA MovedKeeps == ASSUME IInv, NEW t \in Conns, Moved(t) PROVE IInv'
<1>1. Newcomers'
  BY DEF IInv, Newcomers, Moved, Queued, Placing
<1>2. SlotsHaveThreads'
  <2> SUFFICES ASSUME NEW i \in Slots, slots'[i].active
               PROVE  \E u \in Conns : thread'[u].cli = i /\ thread'[u].pc \notin {"unborn", "ended"}
    BY DEF SlotsHaveThreads
  <2>1. PICK u \in Conns : thread[u].cli = i /\ thread[u].pc \notin {"unborn", "ended"}
    BY DEF IInv, SlotsHaveThreads, Moved
  <2>2. CASE u = t
    BY <2>1, <2>2 DEF Moved
  <2>3. CASE u # t
    BY <2>1, <2>3 DEF Moved
  <2> QED BY <2>2, <2>3
<1> QED BY <1>1, <1>2 DEF IInv, Moved

(* Steps that give back no slot. *)
LEMMA WalkedMoves ==
  ASSUME IInv, NEW t \in Conns, thread[t].pc \notin {"unborn", "ended"},
         DOMAIN thread' = Conns, {"pc", "cli"} \subseteq DOMAIN thread'[t],
         thread'[t].pc \notin {"unborn", "ended"}, thread'[t].cli = thread[t].cli,
         \A u \in Conns \ {t} : thread'[u] = thread[u],
         slots' = slots \/ \E i : slots' = [slots EXCEPT ![i].active = FALSE],
         UNCHANGED <<peer, backlog, new>>
  PROVE  Moved(t)
BY DEF IInv, Shapes, Moved

LEMMA HandleClientKeeps == ASSUME IInv, NEW t \in Conns, HandleClient(t) PROVE IInv'
<1> USE DEF At, Goto, pageVars
<1>1. DOMAIN thread = Conns /\ {"pc", "cli"} \subseteq DOMAIN thread[t]
  BY DEF IInv, Shapes
<1>2. CASE CallRecv(t, "handshake", "handshake recv") \/ CallRecv(t, "read", "read recv")
  <2>1. /\ DOMAIN thread' = Conns /\ {"pc", "cli"} \subseteq DOMAIN thread'[t]
        /\ thread[t].pc \notin {"unborn", "ended"}
        /\ thread'[t].pc \notin {"unborn", "ended"} /\ thread'[t].cli = thread[t].cli
        /\ \A u \in Conns \ {t} : thread'[u] = thread[u]
    BY <1>1, <1>2 DEF CallRecv
  <2>2. /\ slots' = slots \/ \E i : slots' = [slots EXCEPT ![i].active = FALSE]
        /\ UNCHANGED <<peer, backlog, new>>
    BY <1>2 DEF CallRecv
  <2> QED BY <2>1, <2>2, WalkedMoves, MovedKeeps
<1>3. CASE HandshakeRecv(t)
  <2>1. /\ DOMAIN thread' = Conns /\ {"pc", "cli"} \subseteq DOMAIN thread'[t]
        /\ thread[t].pc \notin {"unborn", "ended"}
        /\ thread'[t].pc \notin {"unborn", "ended"} /\ thread'[t].cli = thread[t].cli
        /\ \A u \in Conns \ {t} : thread'[u] = thread[u]
    BY <1>1, <1>3 DEF HandshakeRecv
  <2>2. /\ slots' = slots \/ \E i : slots' = [slots EXCEPT ![i].active = FALSE]
        /\ UNCHANGED <<peer, backlog, new>>
    BY <1>3 DEF HandshakeRecv
  <2> QED BY <2>1, <2>2, WalkedMoves, MovedKeeps
<1>4. CASE Respond(t)
  BY <1>1, <1>4, WalkedMoves, MovedKeeps DEF Respond, Killed
<1>5. CASE CopyCanvas(t)
  BY <1>1, <1>5, WalkedMoves, MovedKeeps DEF CopyCanvas
<1>6. CASE SendInitial(t)
  BY <1>1, <1>6, WalkedMoves, MovedKeeps DEF SendInitial, Killed
<1>7. CASE ReadFrame(t)
  <2>1. /\ DOMAIN thread' = Conns /\ {"pc", "cli"} \subseteq DOMAIN thread'[t]
        /\ thread[t].pc \notin {"unborn", "ended"}
        /\ thread'[t].pc \notin {"unborn", "ended"} /\ thread'[t].cli = thread[t].cli
        /\ \A u \in Conns \ {t} : thread'[u] = thread[u]
    BY <1>1, <1>7 DEF ReadFrame
  <2>2. /\ slots' = slots \/ \E i : slots' = [slots EXCEPT ![i].active = FALSE]
        /\ UNCHANGED <<peer, backlog, new>>
    BY <1>7 DEF ReadFrame
  <2> QED BY <2>1, <2>2, WalkedMoves, MovedKeeps
<1>8. CASE LockClients(t)
  BY <1>1, <1>8, WalkedMoves, MovedKeeps DEF LockClients
<1>9. CASE SendHeader(t)
  BY <1>1, <1>9, WalkedMoves, MovedKeeps DEF SendHeader, SendFailed, Killed
<1>10. CASE SendPayload(t)
  <2>1. /\ DOMAIN thread' = Conns /\ {"pc", "cli"} \subseteq DOMAIN thread'[t]
        /\ thread[t].pc \notin {"unborn", "ended"}
        /\ thread'[t].pc \notin {"unborn", "ended"} /\ thread'[t].cli = thread[t].cli
        /\ \A u \in Conns \ {t} : thread'[u] = thread[u]
    BY <1>1, <1>10 DEF SendPayload, SendFailed, Killed
  <2>2. /\ slots' = slots \/ \E i : slots' = [slots EXCEPT ![i].active = FALSE]
        /\ UNCHANGED <<peer, backlog, new>>
    BY <1>10 DEF SendPayload, SendFailed, Killed
  <2> QED BY <2>1, <2>2, WalkedMoves, MovedKeeps
<1>11. CASE UnlockClients(t)
  BY <1>1, <1>11, WalkedMoves, MovedKeeps DEF UnlockClients
<1>12. CASE FreeInit(t)
  BY <1>1, <1>12, WalkedMoves, MovedKeeps DEF FreeInit
<1>13. CASE CloseSocket(t)
  BY <1>1, <1>13, WalkedMoves, MovedKeeps DEF CloseSocket
<1>14. CASE ReleaseSlot(t)
  <2>1. Moved(t)
    BY <1>14 DEF ReleaseSlot, Moved, IInv, Shapes
  <2> QED BY <2>1, MovedKeeps
<1> QED BY <1>2, <1>3, <1>4, <1>5, <1>6, <1>7, <1>8, <1>9, <1>10, <1>11, <1>12, <1>13, <1>14
        DEF HandleClient

-----------------------------------------------------------------------------
LEMMA AcceptClientKeeps == ASSUME IInv, AcceptClient PROVE IInv'
<1>1. /\ backlog' = Tail(backlog) /\ backlog # <<>> /\ backlog \in Seq(Conns)
      /\ new = <<>> /\ new' = <<new'[1], Head(backlog)>> /\ UNCHANGED <<peer, slots, thread>>
  <2>1. new' = <<Least(Available), Head(backlog)>>
    BY DEF AcceptClient
  <2> QED BY <2>1 DEF AcceptClient, pageVars, IInv, Newcomers
<1>2. /\ Head(backlog) \in Conns /\ Head(backlog) = backlog[1]
      /\ backlog' \in Seq(Conns) /\ Len(backlog) \in Nat \ {0}
      /\ DOMAIN backlog = 1 .. Len(backlog) /\ DOMAIN backlog' = 1 .. Len(backlog) - 1
      /\ \A i \in 1 .. Len(backlog) - 1 : backlog'[i] = backlog[i + 1]
  BY <1>1, HeadTailProperties, LenProperties, EmptySeq
<1>3. \A c : Queued(c)' => Queued(c) /\ c # backlog[1]
  <2> SUFFICES ASSUME NEW c, NEW i \in DOMAIN backlog', backlog'[i] = c
               PROVE  Queued(c) /\ c # backlog[1]
    BY DEF Queued
  <2>1. i + 1 \in DOMAIN backlog /\ 1 \in DOMAIN backlog /\ i + 1 # 1 /\ backlog[i + 1] = c
    BY <1>2
  <2> QED BY <2>1 DEF Queued, IInv, Newcomers
<1>4. \A c : Placing(c)' => c = backlog[1] /\ Queued(c)
  BY <1>1, <1>2 DEF Placing, Queued
<1>5. ASSUME NEW i \in DOMAIN backlog', NEW j \in DOMAIN backlog', backlog'[i] = backlog'[j]
      PROVE  i = j
  <2>1. i \in 1 .. Len(backlog) - 1 /\ j \in 1 .. Len(backlog) - 1
    BY <1>2
  <2>2. i + 1 \in DOMAIN backlog /\ j + 1 \in DOMAIN backlog
    BY <1>2, <2>1
  <2>3. backlog[i + 1] = backlog[j + 1]
    BY <1>2, <1>5, <2>1
  <2>4. i + 1 = j + 1
    BY <2>2, <2>3 DEF IInv, Newcomers
  <2> QED BY <2>1, <2>4
<1>6. Newcomers'
  BY <1>1, <1>2, <1>3, <1>4, <1>5 DEF IInv, Newcomers
<1>7. Shapes' /\ SlotsHaveThreads'
  BY <1>1 DEF IInv, Shapes, SlotsHaveThreads
<1> QED BY <1>6, <1>7 DEF IInv

LEMMA PlaceClientKeeps == ASSUME IInv, PlaceClient PROVE IInv'
<1> DEFINE i == Least(Inactive)
<1>1. new # <<>> /\ new' = <<>> /\ UNCHANGED <<peer, backlog>>
  BY DEF PlaceClient, pageVars
<1>2. new[2] \in Conns /\ thread[new[2]].pc = "unborn"
  BY <1>1 DEF IInv, Newcomers, Placing
<1>3. \A c : ~Placing(c)'
  BY <1>1 DEF Placing
<1> HIDE DEF i
<1>4. CASE /\ slots' = [slots EXCEPT ![i] = [fd |-> new[1], active |-> TRUE]]
           /\ thread' = [thread EXCEPT ![new[2]] = [Unborn EXCEPT !.pc = "handshake", !.cli = i]]
  <2>1. /\ thread'[new[2]].cli = i /\ thread'[new[2]].pc = "handshake"
        /\ \A u \in Conns \ {new[2]} : thread'[u] = thread[u]
    BY <1>2, <1>4 DEF IInv, Shapes, Unborn
  <2>2. Shapes'
    BY <1>1, <1>2, <1>4 DEF IInv, Shapes, Unborn
  <2>3. Newcomers'
    BY <1>1, <1>2, <1>3, <2>1 DEF IInv, Newcomers, Queued, Placing
  <2>4. SlotsHaveThreads'
    <3> SUFFICES ASSUME NEW s \in Slots, slots'[s].active
                 PROVE  \E u \in Conns : thread'[u].cli = s /\ thread'[u].pc \notin {"unborn", "ended"}
      BY DEF SlotsHaveThreads
    <3>1. CASE s = i
      BY <1>2, <2>1, <3>1
    <3>2. CASE s # i
      <4>1. slots[s].active
        BY <1>4, <3>2 DEF IInv, Shapes
      <4>2. PICK u \in Conns : thread[u].cli = s /\ thread[u].pc \notin {"unborn", "ended"}
        BY <4>1 DEF IInv, SlotsHaveThreads
      <4> QED BY <1>2, <2>1, <4>2
    <3> QED BY <3>1, <3>2
  <2> QED BY <2>2, <2>3, <2>4 DEF IInv
<1>5. CASE thread' = thread /\ (slots' = slots \/ Unplaced(i))
  <2>1. Shapes'
    BY <1>1, <1>5 DEF IInv, Shapes, Unplaced
  <2>2. Newcomers'
    BY <1>1, <1>3, <1>5 DEF IInv, Newcomers, Queued
  <2>3. \A s \in Slots : slots'[s].active => slots[s].active
    BY <1>5 DEF IInv, Shapes, Unplaced
  <2>4. SlotsHaveThreads'
    BY <1>5, <2>3 DEF IInv, SlotsHaveThreads
  <2> QED BY <2>1, <2>2, <2>4 DEF IInv
<1> QED BY <1>4, <1>5 DEF PlaceClient, i

LEMMA PageKeeps == ASSUME IInv, NEW c \in Conns, Page(c) PROVE IInv'
<1>1. UNCHANGED <<slots, new, thread>>
  BY DEF Page
<1>2. SlotsHaveThreads'
  BY <1>1 DEF IInv, SlotsHaveThreads
<1>3. CASE Connect(c)
  <2>1. /\ peer[c] = "new" /\ peer' = [peer EXCEPT ![c] = "up"]
        /\ backlog' = Append(backlog, c) /\ backlog \in Seq(Conns)
    BY <1>3 DEF Connect, IInv, Newcomers
  <2>2. /\ backlog' \in Seq(Conns) /\ Len(backlog) \in Nat
        /\ DOMAIN backlog = 1 .. Len(backlog) /\ DOMAIN backlog' = 1 .. Len(backlog) + 1
        /\ \A i \in 1 .. Len(backlog) : backlog'[i] = backlog[i]
        /\ backlog'[Len(backlog) + 1] = c
    BY <2>1, AppendProperties, LenProperties
  <2>3. \A d : Queued(d)' => Queued(d) \/ d = c
    BY <2>2 DEF Queued
  <2>4. ~Queued(c) /\ ~Placing(c) /\ thread[c].pc = "unborn"
    BY <2>1 DEF IInv, Newcomers
  <2>5. \A i, j \in DOMAIN backlog' : backlog'[i] = backlog'[j] => i = j
    BY <2>2, <2>4 DEF IInv, Newcomers, Queued
  <2>6. \A d \in Conns : peer'[d] = "new" => d # c /\ peer[d] = "new"
    BY <2>1 DEF IInv, Shapes
  <2>7. \A d : Placing(d)' = Placing(d)
    BY <1>1 DEF Placing
  <2>8. Newcomers'
    BY <1>1, <2>2, <2>3, <2>4, <2>5, <2>6, <2>7 DEF IInv, Newcomers
  <2>9. Shapes'
    BY <1>1, <2>1 DEF IInv, Shapes
  <2> QED BY <1>2, <2>8, <2>9 DEF IInv
<1>4. CASE PageSends(c) \/ PageEnds(c)
  <2>1. backlog' = backlog /\ DOMAIN peer' = Conns /\ \A d \in Conns : peer'[d] = "new" => peer[d] = "new"
    BY <1>4 DEF PageSends, PageEnds, IInv, Shapes
  <2>2. Shapes' /\ Newcomers'
    BY <1>1, <2>1 DEF IInv, Shapes, Newcomers, Queued, Placing
  <2> QED BY <1>2, <2>2 DEF IInv
<1> QED BY <1>3, <1>4 DEF Page

LEMMA StepKeeps == IInv /\ [Next]_vars => IInv'
<1> SUFFICES ASSUME IInv, [Next]_vars PROVE IInv'
  OBVIOUS
<1>1. CASE UNCHANGED vars
  BY <1>1 DEF vars, IInv, Shapes, Newcomers, Queued, Placing, SlotsHaveThreads
<1> QED BY <1>1, HandleClientKeeps, AcceptClientKeeps, PlaceClientKeeps, PageKeeps
        DEF Next, MainThread

(***************************************************************************)
(* Each active slot has a thread that will give it back.                   *)
(***************************************************************************)
THEOREM SlotsKept == Spec => []SlotsHaveThreads
<1>1. Spec => []IInv
  BY InitIInv, StepKeeps, PTL DEF Spec
<1>2. IInv => SlotsHaveThreads
  BY DEF IInv
<1> QED BY <1>1, <1>2, PTL

-----------------------------------------------------------------------------
(***************************************************************************)
(* The order of the pixels.  A drawing is first unread, then carried by    *)
(* the thread that read it, and is then sent under the mutex: until the    *)
(* mutex is taken no page was sent it, and while the mutex is held it is   *)
(* the last thing that pages were sent.                                    *)
(***************************************************************************)
IsSequence(s) == \E S : s \in Seq(S)

(* How much of what c sends has been read, and what has not.               *)
Consumed(c) == sent[c] - Len(rx[c])
Unread(c, i) == i \in DOMAIN Script[c] /\ i > Consumed(c)
Waits(x) == \E c \in Conns : \E i \in DOMAIN Script[c] :
              Unread(c, i) /\ Script[c][i].kind = "draw" /\ PixelOf(Script[c][i]) = x
Shown(x) == \E c \in Conns : \E i \in DOMAIN seen[c] : seen[c][i] = x

Sends(t) == thread[t].pc \in {"header", "payload"}
Carries(t) == thread[t].pc = "lock" \/ Sends(t)

Streams ==
  /\ world \in DOMAIN Worlds
  /\ DOMAIN rx = Conns /\ DOMAIN sent = Conns /\ DOMAIN seen = Conns
  /\ \A t \in Conns : "msg" \in DOMAIN thread[t]
  /\ \A c \in Conns : IsSequence(rx[c]) /\ IsSequence(seen[c]) /\ IsSequence(Script[c])
  /\ \A c \in Conns : sent[c] \in Nat /\ sent[c] <= Len(Script[c]) /\ Len(rx[c]) <= sent[c]
  /\ \A c \in Conns : \A i \in 1 .. Len(rx[c]) : rx[c][i] = Script[c][Consumed(c) + i]

(* Each drawing is in one place.                                           *)
OnePlace ==
  /\ \A x : Waits(x) => ~Shown(x) /\ \A t \in Conns : Carries(t) => thread[t].msg # x
  /\ \A t, u \in Conns : Carries(t) /\ Carries(u) /\ thread[t].msg = thread[u].msg => t = u
  /\ \A t \in Conns : thread[t].pc = "lock" => ~Shown(thread[t].msg)

(* What is being sent comes last.                                          *)
ComesLast(s, x) == \A i, j \in DOMAIN s : i <= j /\ s[i] = x => s[j] = x
OneSender == \A t \in Conns : Sends(t) => mutex = t
Newest == \A t \in Conns : Sends(t) => \A c \in Conns : ComesLast(seen[c], thread[t].msg)

Agree == \A c, d \in Conns : \A x, y : x # y /\ Before(seen[c], x, y) => ~Before(seen[d], y, x)

Ordered == Streams /\ OneSender /\ (DrawnOnce => OnePlace /\ Newest /\ Agree)

-----------------------------------------------------------------------------
LEMMA SequenceFacts ==
  ASSUME NEW s, IsSequence(s)
  PROVE  Len(s) \in Nat /\ DOMAIN s = 1 .. Len(s)
BY LenProperties DEF IsSequence

LEMMA Appended ==
  ASSUME NEW s, NEW msg, IsSequence(s)
  PROVE  /\ IsSequence(Append(s, msg)) /\ Len(s) \in Nat /\ DOMAIN s = 1 .. Len(s)
         /\ Len(Append(s, msg)) = Len(s) + 1 /\ DOMAIN Append(s, msg) = 1 .. Len(s) + 1
         /\ \A i \in 1 .. Len(s) : Append(s, msg)[i] = s[i]
         /\ Append(s, msg)[Len(s) + 1] = msg
<1>1. PICK A : s \in Seq(A)
  BY DEF IsSequence
<1> DEFINE S == A \cup {msg}
<1>2. s \in Seq(S) /\ msg \in S
  BY <1>1, SeqMonotonic
<1> HIDE DEF S
<1>3. /\ Append(s, msg) \in Seq(S) /\ Len(Append(s, msg)) = Len(s) + 1
      /\ \A i \in 1 .. Len(s) : Append(s, msg)[i] = s[i]
      /\ Append(s, msg)[Len(s) + 1] = msg
  BY <1>2, AppendProperties
<1>4. Len(s) \in Nat /\ DOMAIN s = 1 .. Len(s) /\ DOMAIN Append(s, msg) = 1 .. Len(Append(s, msg))
  BY <1>2, <1>3, LenProperties
<1> QED BY <1>3, <1>4 DEF IsSequence

LEMMA Shortened ==
  ASSUME NEW s, IsSequence(s), s # <<>>
  PROVE  /\ IsSequence(Tail(s)) /\ Head(s) = s[1] /\ Len(s) \in Nat \ {0}
         /\ Len(Tail(s)) = Len(s) - 1
         /\ \A i \in 1 .. Len(s) - 1 : Tail(s)[i] = s[i + 1]
<1>1. PICK A : s \in Seq(A)
  BY DEF IsSequence
<1>2. Tail(s) \in Seq(A) /\ Head(s) = s[1] /\ Len(Tail(s)) = Len(s) - 1
      /\ \A i \in 1 .. Len(s) - 1 : Tail(s)[i] = s[i + 1]
  BY <1>1, HeadTailProperties
<1>3. Len(s) \in Nat \ {0}
  BY <1>1, EmptySeq, LenProperties
<1> QED BY <1>2, <1>3 DEF IsSequence

LEMMA ScriptIsSequence ==
  ASSUME world \in DOMAIN Worlds, NEW c \in Conns
  PROVE  IsSequence(Script[c])
BY ThreadPerClientAssumption DEF IsSequence, Script

LEMMA AppendBefore ==
  ASSUME NEW s, NEW msg, NEW x, NEW y, IsSequence(s), Before(Append(s, msg), x, y)
  PROVE  Before(s, x, y) \/ (y = msg /\ \E i \in DOMAIN s : s[i] = x)
<1>1. /\ Len(s) \in Nat /\ DOMAIN s = 1 .. Len(s) /\ DOMAIN Append(s, msg) = 1 .. Len(s) + 1
      /\ \A i \in 1 .. Len(s) : Append(s, msg)[i] = s[i]
      /\ Append(s, msg)[Len(s) + 1] = msg
  BY Appended
<1>2. PICK i \in 1 .. Len(s) + 1, j \in 1 .. Len(s) + 1 :
         i < j /\ Append(s, msg)[i] = x /\ Append(s, msg)[j] = y
  BY <1>1 DEF Before
<1>3. i \in 1 .. Len(s) /\ s[i] = x
  BY <1>1, <1>2
<1>4. CASE j = Len(s) + 1
  BY <1>1, <1>2, <1>3, <1>4
<1>5. CASE j # Len(s) + 1
  <2>1. j \in 1 .. Len(s) /\ s[j] = y
    BY <1>1, <1>2, <1>5
  <2> QED BY <1>1, <1>2, <1>3, <2>1 DEF Before
<1> QED BY <1>4, <1>5

LEMMA LastAppend ==
  ASSUME NEW s, NEW msg, IsSequence(s), ComesLast(s, msg)
  PROVE  ComesLast(Append(s, msg), msg)
<1>1. /\ Len(s) \in Nat /\ DOMAIN s = 1 .. Len(s) /\ DOMAIN Append(s, msg) = 1 .. Len(s) + 1
      /\ \A i \in 1 .. Len(s) : Append(s, msg)[i] = s[i]
      /\ Append(s, msg)[Len(s) + 1] = msg
  BY Appended
<1> SUFFICES ASSUME NEW i \in 1 .. Len(s) + 1, NEW j \in 1 .. Len(s) + 1, i <= j,
                    Append(s, msg)[i] = msg
             PROVE  Append(s, msg)[j] = msg
  BY <1>1 DEF ComesLast
<1>2. CASE j = Len(s) + 1
  BY <1>1, <1>2
<1>3. CASE j # Len(s) + 1
  <2>1. i \in 1 .. Len(s) /\ j \in 1 .. Len(s)
    BY <1>1, <1>3
  <2>2. s[i] = msg
    BY <1>1, <2>1
  <2>3. s[j] = msg
    BY <1>1, <2>1, <2>2 DEF ComesLast
  <2> QED BY <1>1, <2>1, <2>3
<1> QED BY <1>2, <1>3

(* What comes last comes before nothing else.                              *)
LEMMA LastNotBefore ==
  ASSUME NEW s, NEW x, NEW y, IsSequence(s), ComesLast(s, x), x # y
  PROVE  ~Before(s, x, y)
<1> SUFFICES ASSUME NEW i \in DOMAIN s, NEW j \in DOMAIN s, i < j, s[i] = x, s[j] = y
             PROVE  FALSE
  BY DEF Before
<1>1. i <= j
  <2>1. i \in 1 .. Len(s) /\ j \in 1 .. Len(s) /\ Len(s) \in Nat
    BY SequenceFacts
  <2> QED BY <2>1
<1> QED BY <1>1 DEF ComesLast

LEMMA InitOrdered == Init => Ordered
<1> SUFFICES ASSUME Init PROVE Ordered
  OBVIOUS
<1> USE DEF Init, setup_server
<1>1. /\ IsSequence(<<>>) /\ Len(<<>>) = 0 /\ DOMAIN <<>> = {}
  BY EmptySeq DEF IsSequence
<1>2. ASSUME NEW c \in Conns
      PROVE  /\ rx[c] = <<>> /\ seen[c] = <<>> /\ sent[c] = 0
             /\ IsSequence(Script[c]) /\ Len(Script[c]) \in Nat
  BY ScriptIsSequence, SequenceFacts
<1>3. Streams
  <2>1. ASSUME NEW c \in Conns
        PROVE  /\ IsSequence(rx[c]) /\ IsSequence(seen[c]) /\ IsSequence(Script[c])
               /\ sent[c] \in Nat /\ sent[c] <= Len(Script[c]) /\ Len(rx[c]) <= sent[c]
               /\ \A i \in 1 .. Len(rx[c]) : rx[c][i] = Script[c][Consumed(c) + i]
    BY <1>1, <1>2
  <2> QED BY <2>1 DEF Streams, Unborn
<1>4. \A t \in Conns : ~Carries(t) /\ ~Sends(t) /\ thread[t].pc # "lock"
  BY DEF Carries, Sends, Unborn
<1>5. (\A x : ~Shown(x)) /\ (\A c \in Conns : \A x, y : ~Before(seen[c], x, y))
  BY <1>1, <1>2 DEF Shown, Before
<1> QED BY <1>3, <1>4, <1>5 DEF Ordered, OneSender, OnePlace, Newest, Agree

-----------------------------------------------------------------------------
LEMMA SameScript == ASSUME UNCHANGED world PROVE Script' = Script /\ (DrawnOnce' <=> DrawnOnce)
BY DEF Script, DrawnOnce

(* Nothing is read, nothing sent.                                          *)
LEMMA StreamsRest ==
  ASSUME Streams, UNCHANGED <<world, rx, sent, seen>>,
         \A t \in Conns : "msg" \in DOMAIN thread'[t]
  PROVE  Streams' /\ \A x : Waits(x)' => Waits(x)
<1>1. Script' = Script
  BY SameScript
<1>2. \A c : Consumed(c)' = Consumed(c)
  BY DEF Consumed
<1>3. Streams'
  BY <1>1, <1>2 DEF Streams
<1>4. \A x : Waits(x)' => Waits(x)
  BY <1>1, <1>2 DEF Waits, Unread
<1> QED BY <1>3, <1>4

(* The next of what s sends is read.                                       *)
LEMMA StreamsRead ==
  ASSUME Streams, NEW s \in Conns, rx[s] # <<>>, rx' = [rx EXCEPT ![s] = Tail(@)],
         UNCHANGED <<world, sent, seen>>,
         \A t \in Conns : "msg" \in DOMAIN thread'[t]
  PROVE  /\ Streams' /\ Unread(s, Consumed(s) + 1)
         /\ Head(rx[s]) = Script[s][Consumed(s) + 1]
         /\ \A c \in Conns : \A i : Unread(c, i)' => Unread(c, i) /\ ~(c = s /\ i = Consumed(s) + 1)
<1> DEFINE k == Consumed(s) + 1
<1>1. Script' = Script
  BY SameScript
<1>2. /\ IsSequence(rx[s]) /\ IsSequence(Script[s])
      /\ sent[s] \in Nat /\ sent[s] <= Len(Script[s]) /\ Len(rx[s]) <= sent[s]
      /\ \A i \in 1 .. Len(rx[s]) : rx[s][i] = Script[s][Consumed(s) + i]
  BY DEF Streams
<1>3. /\ IsSequence(Tail(rx[s])) /\ Head(rx[s]) = rx[s][1] /\ Len(rx[s]) \in Nat \ {0}
      /\ Len(Tail(rx[s])) = Len(rx[s]) - 1
      /\ \A i \in 1 .. Len(rx[s]) - 1 : Tail(rx[s])[i] = rx[s][i + 1]
  BY <1>2, Shortened
<1>4. /\ rx'[s] = Tail(rx[s]) /\ DOMAIN rx' = Conns
      /\ \A c \in Conns \ {s} : rx'[c] = rx[c]
  BY DEF Streams
<1>5. Consumed(s) \in Nat /\ Consumed(s)' = k
  <2>1. sent'[s] = sent[s] /\ Len(rx'[s]) = Len(rx[s]) - 1
    BY <1>3, <1>4
  <2> QED BY <1>2, <1>3, <2>1 DEF Consumed
<1>6. \A c \in Conns \ {s} : Consumed(c)' = Consumed(c)
  BY <1>4 DEF Consumed
<1>7. k \in DOMAIN Script[s] /\ Head(rx[s]) = Script[s][k]
  <2>1. Len(Script[s]) \in Nat /\ DOMAIN Script[s] = 1 .. Len(Script[s])
    BY <1>2, SequenceFacts
  <2>2. k \in 1 .. Len(Script[s])
    BY <1>2, <1>3, <1>5, <2>1 DEF Consumed
  <2>3. 1 \in 1 .. Len(rx[s])
    BY <1>3
  <2> QED BY <1>2, <1>3, <2>1, <2>2, <2>3
<1>8. ASSUME NEW i \in 1 .. Len(rx'[s]) PROVE rx'[s][i] = Script[s][k + i]
  <2>1. i \in 1 .. Len(rx[s]) - 1 /\ i + 1 \in 1 .. Len(rx[s])
    BY <1>3, <1>4
  <2>2. rx'[s][i] = rx[s][i + 1]
    BY <1>3, <1>4, <2>1
  <2>3. rx[s][i + 1] = Script[s][Consumed(s) + (i + 1)]
    BY <1>2, <2>1
  <2>4. Consumed(s) + (i + 1) = k + i
    BY <1>5, <2>1
  <2> QED BY <2>2, <2>3, <2>4
<1> HIDE DEF k
<1>9. Streams'
  <2>1. ASSUME NEW c \in Conns
        PROVE  /\ IsSequence(rx'[c]) /\ IsSequence(seen'[c]) /\ IsSequence(Script'[c])
               /\ sent'[c] \in Nat /\ sent'[c] <= Len(Script'[c]) /\ Len(rx'[c]) <= sent'[c]
               /\ \A i \in 1 .. Len(rx'[c]) : rx'[c][i] = Script'[c][Consumed(c)' + i]
    <3>1. CASE c = s
      <4>1. IsSequence(seen[s]) /\ sent'[s] = sent[s] /\ seen'[s] = seen[s]
        BY DEF Streams
      <4>2. Len(rx'[s]) = Len(rx[s]) - 1 /\ IsSequence(rx'[s])
        BY <1>3, <1>4
      <4>3. Len(rx'[s]) <= sent[s]
        BY <1>2, <1>3, <4>2
      <4> QED BY <1>1, <1>2, <1>5, <1>8, <3>1, <4>1, <4>2, <4>3
    <3>2. CASE c # s
      BY <1>1, <1>4, <1>6, <3>2 DEF Streams
    <3> QED BY <3>1, <3>2
  <2> QED BY <1>4, <2>1 DEF Streams
<1>10. ASSUME NEW c \in Conns, NEW i, Unread(c, i)'
       PROVE  Unread(c, i) /\ ~(c = s /\ i = k)
  <2>1. i \in DOMAIN Script[c] /\ i > Consumed(c)'
    BY <1>1, <1>10 DEF Unread
  <2>2. CASE c = s
    <3>1. Len(Script[s]) \in Nat /\ DOMAIN Script[s] = 1 .. Len(Script[s])
      BY <1>2, SequenceFacts
    <3>2. i > k /\ i \in Nat
      BY <1>5, <2>1, <2>2, <3>1
    <3> QED BY <1>5, <2>1, <2>2, <3>2 DEF Unread, k
  <2>3. CASE c # s
    BY <1>6, <2>1, <2>3 DEF Unread
  <2> QED BY <2>2, <2>3
<1>11. Unread(s, k)
  <2>1. k > Consumed(s)
    BY <1>5 DEF k
  <2> QED BY <1>7, <2>1 DEF Unread
<1> QED BY <1>7, <1>9, <1>10, <1>11 DEF k

(* c sends the next of what it has to send.                                *)
LEMMA StreamsSend ==
  ASSUME Streams, NEW c \in Conns, PageSends(c), UNCHANGED <<world, seen, thread>>
  PROVE  Streams' /\ \A x : Waits(x)' => Waits(x)
<1> DEFINE next == Script[c][sent[c] + 1]
<1>1. /\ sent[c] < Len(Script[c]) /\ rx' = [rx EXCEPT ![c] = Append(@, next)]
      /\ sent' = [sent EXCEPT ![c] = @ + 1]
  BY DEF PageSends
<1>2. Script' = Script
  BY SameScript
<1>3. /\ IsSequence(rx[c]) /\ IsSequence(Script[c]) /\ sent[c] \in Nat /\ Len(rx[c]) <= sent[c]
      /\ \A i \in 1 .. Len(rx[c]) : rx[c][i] = Script[c][Consumed(c) + i]
  BY DEF Streams
<1>4. /\ IsSequence(Append(rx[c], next)) /\ Len(rx[c]) \in Nat
      /\ Len(Append(rx[c], next)) = Len(rx[c]) + 1
      /\ \A i \in 1 .. Len(rx[c]) : Append(rx[c], next)[i] = rx[c][i]
      /\ Append(rx[c], next)[Len(rx[c]) + 1] = next
  BY <1>3, Appended
<1>5. /\ rx'[c] = Append(rx[c], next) /\ sent'[c] = sent[c] + 1
      /\ DOMAIN rx' = Conns /\ DOMAIN sent' = Conns
      /\ \A d \in Conns \ {c} : rx'[d] = rx[d] /\ sent'[d] = sent[d]
  BY <1>1 DEF Streams
<1>6. Consumed(c)' = Consumed(c)
  <2>1. Len(rx'[c]) = Len(rx[c]) + 1
    BY <1>4, <1>5
  <2> QED BY <1>3, <1>4, <1>5, <2>1 DEF Consumed
<1>7. \A d \in Conns : Consumed(d)' = Consumed(d)
  <2>1. \A d \in Conns \ {c} : Consumed(d)' = Consumed(d)
    BY <1>5 DEF Consumed
  <2> QED BY <1>6, <2>1
<1>8. ASSUME NEW i \in 1 .. Len(rx'[c]) PROVE rx'[c][i] = Script[c][Consumed(c) + i]
  <2>1. CASE i = Len(rx[c]) + 1
    <3>1. Consumed(c) + i = sent[c] + 1
      BY <1>3, <1>4, <2>1 DEF Consumed
    <3> QED BY <1>4, <1>5, <2>1, <3>1
  <2>2. CASE i # Len(rx[c]) + 1
    <3>1. i \in 1 .. Len(rx[c])
      BY <1>4, <1>5, <2>2
    <3> QED BY <1>3, <1>4, <1>5, <3>1
  <2> QED BY <2>1, <2>2
<1>9. ASSUME NEW d \in Conns
      PROVE  /\ IsSequence(rx'[d]) /\ IsSequence(seen'[d]) /\ IsSequence(Script'[d])
             /\ sent'[d] \in Nat /\ sent'[d] <= Len(Script'[d]) /\ Len(rx'[d]) <= sent'[d]
             /\ \A i \in 1 .. Len(rx'[d]) : rx'[d][i] = Script'[d][Consumed(d)' + i]
  <2>1. CASE d = c
    <3>1. Len(Script[c]) \in Nat
      BY <1>3, SequenceFacts
    <3>2. Len(rx'[c]) = Len(rx[c]) + 1 /\ IsSequence(rx'[c])
      BY <1>4, <1>5
    <3>3. sent'[c] \in Nat /\ sent'[c] <= Len(Script[c]) /\ Len(rx'[c]) <= sent'[c]
      BY <1>1, <1>3, <1>4, <1>5, <3>1, <3>2
    <3>4. IsSequence(seen'[c])
      BY DEF Streams
    <3> QED BY <1>2, <1>3, <1>7, <1>8, <2>1, <3>2, <3>3, <3>4
  <2>2. CASE d # c
    BY <1>2, <1>5, <1>7, <2>2 DEF Streams
  <2> QED BY <2>1, <2>2
<1>10. Streams'
  BY <1>5, <1>9 DEF Streams
<1>11. \A x : Waits(x)' => Waits(x)
  BY <1>2, <1>7 DEF Waits, Unread
<1> QED BY <1>10, <1>11

(* No drawing is taken up, and none sent.                                  *)
Onward ==
  /\ UNCHANGED <<world, seen>>
  /\ Streams' /\ \A x : Waits(x)' => Waits(x)
  /\ \A t \in Conns : Carries(t)' => /\ Carries(t) /\ thread'[t].msg = thread[t].msg
                                     /\ thread'[t].pc = "lock" => thread[t].pc = "lock"
  /\ \A t \in Conns : Sends(t)' => Sends(t) /\ mutex' = t

LEMMA OnwardKeeps == ASSUME Ordered, Onward PROVE Ordered'
<1>1. Streams' /\ OneSender'
  BY DEF Onward, OneSender
<1>2. \A x : Shown(x)' <=> Shown(x)
  BY DEF Onward, Shown
<1>3. ASSUME DrawnOnce' PROVE OnePlace' /\ Newest' /\ Agree'
  <2>1. OnePlace /\ Newest /\ Agree
    BY <1>3, SameScript DEF Ordered, Onward
  <2>2. \A x : Waits(x)' => ~Shown(x)' /\ \A t \in Conns : Carries(t)' => thread'[t].msg # x
    BY <1>2, <2>1 DEF Onward, OnePlace
  <2>3. \A t, u \in Conns : Carries(t)' /\ Carries(u)' /\ thread'[t].msg = thread'[u].msg => t = u
    BY <2>1 DEF Onward, OnePlace
  <2>4. \A t \in Conns : thread'[t].pc = "lock" => Carries(t)'
    BY DEF Carries
  <2>5. \A t \in Conns : thread'[t].pc = "lock" => ~Shown(thread[t].msg) /\ thread'[t].msg = thread[t].msg
    BY <2>1, <2>4 DEF Onward, OnePlace
  <2>6. OnePlace'
    <3>1. \A t \in Conns : thread'[t].pc = "lock" => ~Shown(thread[t].msg)'
      <4> SUFFICES ASSUME NEW t \in Conns, thread'[t].pc = "lock" PROVE ~Shown(thread[t].msg)'
        OBVIOUS
      <4>1. ~Shown(thread[t].msg) /\ thread'[t].msg = thread[t].msg
        BY <2>5
      <4> QED BY <4>1 DEF Shown, Onward
    <3> QED BY <2>2, <2>3, <3>1 DEF OnePlace
  <2>7. Newest'
    <3> SUFFICES ASSUME NEW t \in Conns, Sends(t)', NEW c \in Conns
                 PROVE  ComesLast(seen[c], thread[t].msg)'
      BY DEF Newest
    <3>1. Sends(t) /\ Carries(t)'
      BY DEF Onward, Carries
    <3>2. seen' = seen /\ thread'[t].msg = thread[t].msg
      BY <3>1 DEF Onward
    <3>3. ComesLast(seen[c], thread[t].msg)
      BY <2>1, <3>1 DEF Newest
    <3> QED BY <3>2, <3>3 DEF ComesLast
  <2>8. Agree'
    BY <2>1 DEF Onward, Agree, Before
  <2> QED BY <2>6, <2>7, <2>8
<1> QED BY <1>1, <1>3 DEF Ordered

(* A thread that carries nothing afterwards, or is sending and goes on.    *)
LEMMA Walks ==
  ASSUME Ordered, NEW t \in Conns, UNCHANGED <<world, seen, sent>>,
         rx' = rx \/ \E s \in Conns : rx[s] # <<>> /\ rx' = [rx EXCEPT ![s] = Tail(@)],
         \A u \in Conns \ {t} : thread'[u] = thread[u],
         "msg" \in DOMAIN thread'[t],
         \/ ~Carries(t)' /\ (mutex' = mutex \/ mutex = t)
         \/ Sends(t) /\ Sends(t)' /\ thread'[t].msg = thread[t].msg /\ mutex' = mutex
  PROVE  Ordered'
<1>1. Streams /\ OneSender
  BY DEF Ordered
<1>2. \A u \in Conns : "msg" \in DOMAIN thread'[u]
  BY <1>1 DEF Streams
<1>3. Streams' /\ \A x : Waits(x)' => Waits(x)
  <2>1. CASE rx' = rx
    BY <1>1, <1>2, <2>1, StreamsRest
  <2>2. ASSUME NEW s \in Conns, rx[s] # <<>>, rx' = [rx EXCEPT ![s] = Tail(@)]
        PROVE  Streams' /\ \A x : Waits(x)' => Waits(x)
    <3>1. Streams' /\ \A c \in Conns : \A i : Unread(c, i)' => Unread(c, i)
      BY <1>1, <1>2, <2>2, StreamsRead
    <3>2. Script' = Script
      BY SameScript
    <3> QED BY <3>1, <3>2 DEF Waits
  <2> QED BY <2>1, <2>2
<1>4. ASSUME NEW u \in Conns, Carries(u)'
      PROVE  /\ Carries(u) /\ thread'[u].msg = thread[u].msg
             /\ thread'[u].pc = "lock" => thread[u].pc = "lock"
  <2>1. CASE u = t
    <3>1. Sends(t) /\ Sends(t)' /\ thread'[t].msg = thread[t].msg
      BY <1>4, <2>1
    <3> QED BY <2>1, <3>1 DEF Carries, Sends
  <2>2. CASE u # t
    BY <1>4, <2>2 DEF Carries, Sends
  <2> QED BY <2>1, <2>2
<1>5. ASSUME NEW u \in Conns, Sends(u)' PROVE Sends(u) /\ mutex' = u
  <2>1. CASE u = t
    <3>1. Carries(t)'
      BY <1>5, <2>1 DEF Carries
    <3> QED BY <1>1, <2>1, <3>1 DEF OneSender
  <2>2. CASE u # t
    <3>1. Sends(u) /\ mutex = u
      BY <1>1, <1>5, <2>2 DEF OneSender, Sends
    <3> QED BY <2>2, <3>1
  <2> QED BY <2>1, <2>2
<1>6. Onward
  BY <1>3, <1>4, <1>5 DEF Onward
<1> QED BY <1>6, OnwardKeeps

-----------------------------------------------------------------------------
(* A drawing is taken up by the thread that read it.                       *)
LEMMA TakesUp ==
  ASSUME Ordered, NEW t \in Conns, NEW s \in Conns, rx[s] # <<>>, ~Carries(t),
         rx' = [rx EXCEPT ![s] = Tail(@)], Head(rx[s]).kind = "draw",
         UNCHANGED <<world, seen, sent, mutex>>,
         \A u \in Conns \ {t} : thread'[u] = thread[u],
         "msg" \in DOMAIN thread'[t], thread'[t].pc = "lock",
         thread'[t].msg = PixelOf(Head(rx[s]))
  PROVE  Ordered'
<1> DEFINE m == PixelOf(Head(rx[s]))
           k == Consumed(s) + 1
<1>1. Streams /\ OneSender
  BY DEF Ordered
<1>2. /\ Streams' /\ Unread(s, k) /\ Head(rx[s]) = Script[s][k]
      /\ \A c \in Conns : \A i : Unread(c, i)' => Unread(c, i) /\ ~(c = s /\ i = k)
  <2>1. \A u \in Conns : "msg" \in DOMAIN thread'[u]
    BY <1>1 DEF Streams
  <2> QED BY <1>1, <2>1, StreamsRead
<1>3. Script' = Script /\ (DrawnOnce' <=> DrawnOnce)
  BY SameScript
<1>4. OneSender'
  BY <1>1 DEF OneSender, Sends
<1>5. ASSUME DrawnOnce' PROVE OnePlace' /\ Newest' /\ Agree'
  <2>0. DrawnOnce /\ OnePlace /\ Newest /\ Agree
    BY <1>3, <1>5 DEF Ordered
  <2>1. Waits(m)
    <3>1. k \in DOMAIN Script[s]
      BY <1>2 DEF Unread
    <3> QED BY <1>2, <3>1 DEF Waits
  <2>2. \A x : Waits(x)' => Waits(x) /\ x # m
    <3> SUFFICES ASSUME NEW x, NEW c \in Conns, NEW i \in DOMAIN Script[c], Unread(c, i)',
                        Script[c][i].kind = "draw", PixelOf(Script[c][i]) = x
                 PROVE  Waits(x) /\ x # m
      BY <1>3 DEF Waits
    <3>1. Unread(c, i) /\ ~(c = s /\ i = k)
      BY <1>2
    <3>2. k \in DOMAIN Script[s] /\ Script[s][k].kind = "draw" /\ PixelOf(Script[s][k]) = m
      BY <1>2 DEF Unread
    <3>3. x # m
      BY <2>0, <3>1, <3>2 DEF DrawnOnce
    <3> QED BY <3>1, <3>3 DEF Waits
  <2> HIDE DEF m, k
  <2>3. thread'[t].msg = m
    BY DEF m
  <2>4. \A x : Shown(x)' <=> Shown(x)
    BY DEF Shown
  <2>5. ~Shown(m) /\ \A u \in Conns : Carries(u) => thread[u].msg # m
    BY <2>0, <2>1 DEF OnePlace
  <2>6. \A u \in Conns \ {t} : (Carries(u)' <=> Carries(u)) /\ thread'[u] = thread[u]
    BY DEF Carries, Sends
  <2>7. \A x : Waits(x)' => ~Shown(x)' /\ \A u \in Conns : Carries(u)' => thread'[u].msg # x
    <3> SUFFICES ASSUME NEW x, Waits(x)', NEW u \in Conns, Carries(u)'
                 PROVE  ~Shown(x) /\ thread'[u].msg # x
      <4>1. \A x : Waits(x)' => ~Shown(x)'
        BY <2>0, <2>2, <2>4 DEF OnePlace
      <4> QED BY <4>1
    <3> QED BY <2>0, <2>2, <2>3, <2>6 DEF OnePlace
  <2>8. \A u, v \in Conns : Carries(u)' /\ Carries(v)' /\ thread'[u].msg = thread'[v].msg => u = v
    BY <2>0, <2>3, <2>5, <2>6 DEF OnePlace
  <2>9. \A u \in Conns : thread'[u].pc = "lock" => ~Shown(thread[u].msg)'
    <3> SUFFICES ASSUME NEW u \in Conns, thread'[u].pc = "lock" PROVE ~Shown(thread[u].msg)'
      OBVIOUS
    <3>1. ~Shown(thread'[u].msg)
      <4>1. CASE u = t
        BY <2>3, <2>5, <4>1
      <4>2. CASE u # t
        BY <2>0, <2>6, <4>2 DEF OnePlace
      <4> QED BY <4>1, <4>2
    <3> QED BY <3>1 DEF Shown
  <2>10. OnePlace'
    BY <2>7, <2>8, <2>9 DEF OnePlace
  <2>11. Newest'
    <3> SUFFICES ASSUME NEW u \in Conns, Sends(u)', NEW c \in Conns
                 PROVE  ComesLast(seen[c], thread[u].msg)'
      BY DEF Newest
    <3>1. u # t
      BY DEF Sends
    <3>2. ComesLast(seen[c], thread[u].msg) /\ thread'[u] = thread[u]
      BY <2>0, <3>1 DEF Newest, Sends
    <3> QED BY <3>2 DEF ComesLast
  <2>12. Agree'
    BY <2>0 DEF Agree, Before
  <2> QED BY <2>10, <2>11, <2>12
<1> QED BY <1>2, <1>4, <1>5 DEF Ordered

(* The mutex is taken.                                                     *)
LEMMA Locks ==
  ASSUME IInv, Ordered, NEW t \in Conns, LockClients(t), UNCHANGED world
  PROVE  Ordered'
<1>1. /\ thread[t].pc = "lock" /\ mutex = NoThread /\ mutex' = t
      /\ thread' = [thread EXCEPT ![t].pc = "header", ![t].at = 1]
      /\ UNCHANGED <<rx, sent, seen>>
  BY DEF LockClients, At, pageVars
<1>2. /\ thread'[t].pc = "header" /\ thread'[t].msg = thread[t].msg /\ "msg" \in DOMAIN thread'[t]
      /\ \A u \in Conns \ {t} : thread'[u] = thread[u]
  BY <1>1 DEF IInv, Shapes, Ordered, Streams
<1>3. \A u \in Conns : ~Sends(u)
  BY <1>1, ThreadPerClientAssumption DEF Ordered, OneSender
<1>4. \A u \in Conns : "msg" \in DOMAIN thread'[u]
  BY <1>2 DEF Ordered, Streams
<1>5. Streams' /\ \A x : Waits(x)' => Waits(x)
  BY <1>1, <1>4, StreamsRest DEF Ordered
<1>6. \A u \in Conns : Sends(u)' => u = t
  BY <1>2, <1>3 DEF Sends
<1>7. OneSender'
  BY <1>1, <1>6 DEF OneSender
<1>8. ASSUME DrawnOnce' PROVE OnePlace' /\ Newest' /\ Agree'
  <2>0. OnePlace /\ Newest /\ Agree
    BY <1>8, SameScript DEF Ordered
  <2>1. \A x : Shown(x)' <=> Shown(x)
    BY <1>1 DEF Shown
  <2>2. \A u \in Conns : Carries(u)' => Carries(u) /\ thread'[u].msg = thread[u].msg
    BY <1>1, <1>2 DEF Carries, Sends
  <2>3. \A x : Waits(x)' => ~Shown(x)' /\ \A u \in Conns : Carries(u)' => thread'[u].msg # x
    <3>1. \A x : Waits(x)' => ~Shown(x)'
      BY <1>5, <2>0, <2>1 DEF OnePlace
    <3>2. \A x : Waits(x)' => \A u \in Conns : Carries(u)' => thread'[u].msg # x
      BY <1>5, <2>0, <2>2 DEF OnePlace
    <3> QED BY <3>1, <3>2
  <2>4. \A u, v \in Conns : Carries(u)' /\ Carries(v)' /\ thread'[u].msg = thread'[v].msg => u = v
    BY <2>0, <2>2 DEF OnePlace
  <2>5. \A u \in Conns : thread'[u].pc = "lock" => ~Shown(thread[u].msg)'
    <3> SUFFICES ASSUME NEW u \in Conns, thread'[u].pc = "lock" PROVE ~Shown(thread[u].msg)'
      OBVIOUS
    <3>1. thread'[u] = thread[u] /\ ~Shown(thread[u].msg)
      BY <1>2, <2>0 DEF OnePlace
    <3> QED BY <1>1, <3>1 DEF Shown
  <2>6. OnePlace'
    BY <2>3, <2>4, <2>5 DEF OnePlace
  <2>7. Newest'
    <3> SUFFICES ASSUME NEW c \in Conns PROVE ComesLast(seen[c], thread[t].msg)'
      BY <1>6 DEF Newest
    <3>1. ~Shown(thread[t].msg)
      BY <1>1, <2>0 DEF OnePlace
    <3>2. ComesLast(seen[c], thread[t].msg)
      BY <3>1 DEF Shown, ComesLast
    <3> QED BY <1>1, <1>2, <3>2 DEF ComesLast
  <2>8. Agree'
    BY <1>1, <2>0 DEF Agree, Before
  <2> QED BY <2>6, <2>7, <2>8
<1> QED BY <1>5, <1>7, <1>8 DEF Ordered

(* Page s gets the drawing that t carries.                                 *)
LEMMA Shows ==
  ASSUME IInv, Ordered, NEW t \in Conns, NEW s \in Conns, Sends(t),
         seen' = [seen EXCEPT ![s] = Append(@, thread[t].msg)],
         \E i : thread' = [thread EXCEPT ![t].pc = "header", ![t].at = i],
         UNCHANGED <<world, rx, sent, mutex>>
  PROVE  Ordered'
<1> DEFINE m == thread[t].msg
<1>1. /\ thread'[t].pc = "header" /\ thread'[t].msg = m /\ "msg" \in DOMAIN thread'[t]
      /\ \A u \in Conns \ {t} : thread'[u] = thread[u]
  BY DEF IInv, Shapes, Ordered, Streams
<1>2. Streams /\ OneSender /\ DOMAIN seen = Conns /\ IsSequence(seen[s])
  BY DEF Ordered, Streams
<1>3. /\ seen'[s] = Append(seen[s], m) /\ DOMAIN seen' = Conns
      /\ \A c \in Conns \ {s} : seen'[c] = seen[c]
  BY <1>2
<1>4. /\ IsSequence(seen'[s]) /\ Len(seen[s]) \in Nat /\ DOMAIN seen[s] = 1 .. Len(seen[s])
      /\ DOMAIN seen'[s] = 1 .. Len(seen[s]) + 1
      /\ \A i \in 1 .. Len(seen[s]) : seen'[s][i] = seen[s][i]
      /\ seen'[s][Len(seen[s]) + 1] = m
  BY <1>2, <1>3, Appended
<1>5. Script' = Script /\ (DrawnOnce' <=> DrawnOnce)
  BY SameScript
<1>6. Streams'
  <2>1. \A c : Consumed(c)' = Consumed(c)
    BY DEF Consumed
  <2>2. \A u \in Conns : "msg" \in DOMAIN thread'[u]
    BY <1>1, <1>2 DEF Streams
  <2>3. \A c \in Conns : IsSequence(seen'[c])
    BY <1>2, <1>3, <1>4 DEF Streams
  <2>4. ASSUME NEW c \in Conns
        PROVE  /\ IsSequence(rx'[c]) /\ IsSequence(seen'[c]) /\ IsSequence(Script'[c])
               /\ sent'[c] \in Nat /\ sent'[c] <= Len(Script'[c]) /\ Len(rx'[c]) <= sent'[c]
               /\ \A i \in 1 .. Len(rx'[c]) : rx'[c][i] = Script'[c][Consumed(c)' + i]
    <3>1. /\ IsSequence(rx[c]) /\ IsSequence(Script[c])
          /\ sent[c] \in Nat /\ sent[c] <= Len(Script[c]) /\ Len(rx[c]) <= sent[c]
          /\ \A i \in 1 .. Len(rx[c]) : rx[c][i] = Script[c][Consumed(c) + i]
      BY <1>2 DEF Streams
    <3> QED BY <1>5, <2>1, <2>3, <3>1
  <2>5. /\ world' \in DOMAIN Worlds /\ DOMAIN rx' = Conns /\ DOMAIN sent' = Conns
    BY <1>2 DEF Streams
  <2> QED BY <1>3, <2>2, <2>4, <2>5 DEF Streams
<1>7. \A x : Waits(x)' => Waits(x)
  BY <1>5 DEF Waits, Unread, Consumed
<1>8. \A u \in Conns : (Sends(u)' <=> Sends(u)) /\ (Carries(u)' <=> Carries(u))
                       /\ thread'[u].msg = thread[u].msg
                       /\ (thread'[u].pc = "lock" <=> thread[u].pc = "lock")
  BY <1>1 DEF Sends, Carries
<1>9. OneSender'
  BY <1>2, <1>8 DEF OneSender
<1>10. Carries(t)
  BY DEF Carries
<1> HIDE DEF m
<1>11. ASSUME DrawnOnce' PROVE OnePlace' /\ Newest' /\ Agree'
  <2>0. OnePlace /\ Newest /\ Agree
    BY <1>5, <1>11 DEF Ordered
  <2>1. \A x : Shown(x)' => Shown(x) \/ x = m
    <3> SUFFICES ASSUME NEW x, NEW c \in Conns, NEW i \in DOMAIN seen'[c], seen'[c][i] = x
                 PROVE  Shown(x) \/ x = m
      BY DEF Shown
    <3>1. CASE c = s
      <4>1. CASE i = Len(seen[s]) + 1
        BY <1>4, <3>1, <4>1
      <4>2. CASE i # Len(seen[s]) + 1
        <5>1. i \in 1 .. Len(seen[s])
          BY <1>4, <3>1, <4>2
        <5> QED BY <1>4, <3>1, <5>1 DEF Shown
      <4> QED BY <4>1, <4>2
    <3>2. CASE c # s
      BY <1>3, <3>2 DEF Shown
    <3> QED BY <3>1, <3>2
  <2>2. \A x : Waits(x) => x # m /\ ~Shown(x)
    BY <1>10, <2>0 DEF OnePlace, m
  <2>3. \A x : Waits(x)' => ~Shown(x)' /\ \A u \in Conns : Carries(u)' => thread'[u].msg # x
    <3>1. \A x : Waits(x)' => ~Shown(x)'
      BY <1>7, <2>1, <2>2
    <3>2. \A x : Waits(x)' => \A u \in Conns : Carries(u)' => thread'[u].msg # x
      BY <1>7, <1>8, <2>0 DEF OnePlace
    <3> QED BY <3>1, <3>2
  <2>4. \A u, v \in Conns : Carries(u)' /\ Carries(v)' /\ thread'[u].msg = thread'[v].msg => u = v
    BY <1>8, <2>0 DEF OnePlace
  <2>5. \A u \in Conns : thread'[u].pc = "lock" => ~Shown(thread[u].msg)'
    <3> SUFFICES ASSUME NEW u \in Conns, thread'[u].pc = "lock" PROVE ~Shown(thread[u].msg)'
      OBVIOUS
    <3>1. thread[u].pc = "lock" /\ u # t /\ Carries(u)
      BY <1>1, <1>8 DEF Carries
    <3>2. ~Shown(thread[u].msg) /\ thread[u].msg # m
      BY <1>10, <2>0, <3>1 DEF OnePlace, m
    <3>3. PICK x : x = thread[u].msg
      OBVIOUS
    <3>4. ~Shown(x)'
      BY <2>1, <3>2, <3>3
    <3>5. thread'[u].msg = x
      BY <1>8, <3>3
    <3> QED BY <3>4, <3>5 DEF Shown
  <2>6. OnePlace'
    BY <2>3, <2>4, <2>5 DEF OnePlace
  <2>7. \A c \in Conns : ComesLast(seen[c], m)
    BY <2>0 DEF Newest, m
  <2>8. \A c \in Conns : ComesLast(seen'[c], m)
    <3>1. ComesLast(seen'[s], m)
      BY <1>2, <1>3, <2>7, LastAppend
    <3> QED BY <1>3, <2>7, <3>1
  <2>9. Newest'
    <3> SUFFICES ASSUME NEW u \in Conns, Sends(u)', NEW c \in Conns
                 PROVE  ComesLast(seen[c], thread[u].msg)'
      BY DEF Newest
    <3>1. u = t
      BY <1>2, <1>8 DEF OneSender
    <3> QED BY <1>1, <2>8, <3>1 DEF ComesLast
  <2>10. ASSUME NEW c \in Conns, NEW x, NEW y, x # y, Before(seen'[c], x, y)
         PROVE  x # m /\ (y = m \/ Before(seen[c], x, y))
    <3>1. IsSequence(seen'[c])
      BY <1>6 DEF Streams
    <3>2. x # m
      BY <2>8, <2>10, <3>1, LastNotBefore
    <3>3. CASE c = s
      BY <1>2, <1>3, <2>10, <3>2, <3>3, AppendBefore
    <3>4. CASE c # s
      BY <1>3, <2>10, <3>2, <3>4
    <3> QED BY <3>2, <3>3, <3>4
  <2>11. Agree'
    <3> SUFFICES ASSUME NEW c \in Conns, NEW d \in Conns, NEW x, NEW y, x # y,
                        Before(seen'[c], x, y), Before(seen'[d], y, x)
                 PROVE  FALSE
      BY DEF Agree, Before
    <3>1. x # m /\ y # m
      BY <2>10
    <3>2. Before(seen[c], x, y) /\ Before(seen[d], y, x)
      BY <2>10, <3>1
    <3> QED BY <2>0, <3>2 DEF Agree
  <2> QED BY <2>6, <2>9, <2>11
<1> QED BY <1>6, <1>9, <1>11 DEF Ordered

-----------------------------------------------------------------------------
LEMMA ThreadOrdered ==
  ASSUME IInv, Ordered, NEW t \in Conns, HandleClient(t) PROVE Ordered'
<1>1. UNCHANGED world
  BY DEF HandleClient
<1>2. DOMAIN thread = Conns /\ {"pc", "msg"} \subseteq DOMAIN thread[t]
  BY DEF IInv, Shapes, Ordered, Streams
<1> USE DEF At, Goto, pageVars
<1>3. ASSUME UNCHANGED <<seen, sent, rx, mutex>>, \A u \in Conns \ {t} : thread'[u] = thread[u],
             "msg" \in DOMAIN thread'[t],
             thread'[t].pc \notin {"lock", "header", "payload"}
      PROVE  Ordered'
  <2>1. ~Carries(t)'
    BY <1>3 DEF Carries, Sends
  <2> QED BY <1>1, <1>3, <2>1, Walks
<1>4. ASSUME UNCHANGED <<seen, sent, rx, mutex>>, \A u \in Conns \ {t} : thread'[u] = thread[u],
             "msg" \in DOMAIN thread'[t], thread'[t].msg = thread[t].msg,
             thread[t].pc \in {"header", "payload"}, thread'[t].pc \in {"header", "payload"}
      PROVE  Ordered'
  <2>1. Sends(t) /\ Sends(t)'
    BY <1>4 DEF Sends
  <2> QED BY <1>1, <1>4, <2>1, Walks
<1>5. ASSUME NEW s \in Conns, rx[s] # <<>>, rx' = [rx EXCEPT ![s] = Tail(@)],
             UNCHANGED <<seen, sent, mutex>>, \A u \in Conns \ {t} : thread'[u] = thread[u],
             "msg" \in DOMAIN thread'[t],
             thread'[t].pc \notin {"lock", "header", "payload"}
      PROVE  Ordered'
  <2>1. ~Carries(t)'
    BY <1>5 DEF Carries, Sends
  <2> QED BY <1>1, <1>5, <2>1, Walks
<1>6. CASE CallRecv(t, "handshake", "handshake recv") \/ CallRecv(t, "read", "read recv")
  <2>1. UNCHANGED <<seen, sent, rx, mutex>>
    BY <1>6 DEF CallRecv
  <2>2. /\ \A u \in Conns \ {t} : thread'[u] = thread[u]
        /\ "msg" \in DOMAIN thread'[t] /\ thread'[t].pc \notin {"lock", "header", "payload"}
    BY <1>2, <1>6 DEF CallRecv
  <2> QED BY <1>3, <2>1, <2>2
<1>7. CASE HandshakeRecv(t)
  <2>1. UNCHANGED <<seen, sent, mutex>>
    BY <1>7 DEF HandshakeRecv
  <2>2. /\ \A u \in Conns \ {t} : thread'[u] = thread[u]
        /\ "msg" \in DOMAIN thread'[t] /\ thread'[t].pc \notin {"lock", "header", "payload"}
    BY <1>2, <1>7 DEF HandshakeRecv
  <2>3. rx' = rx \/ \E s \in Conns : rx[s] # <<>> /\ rx' = [rx EXCEPT ![s] = Tail(@)]
    BY <1>7 DEF HandshakeRecv, RecvReturns
  <2> QED BY <1>3, <1>5, <2>1, <2>2, <2>3
<1>8. CASE Respond(t)
  <2>1. UNCHANGED <<seen, sent, rx, mutex>>
    BY <1>8 DEF Respond, Killed
  <2>2. /\ \A u \in Conns \ {t} : thread'[u] = thread[u]
        /\ "msg" \in DOMAIN thread'[t] /\ thread'[t].pc \notin {"lock", "header", "payload"}
    BY <1>2, <1>8 DEF Respond, Killed
  <2> QED BY <1>3, <2>1, <2>2
<1>9. CASE CopyCanvas(t)
  <2>1. UNCHANGED <<seen, sent, rx, mutex>>
    BY <1>9 DEF CopyCanvas
  <2>2. /\ \A u \in Conns \ {t} : thread'[u] = thread[u]
        /\ "msg" \in DOMAIN thread'[t] /\ thread'[t].pc \notin {"lock", "header", "payload"}
    BY <1>2, <1>9 DEF CopyCanvas
  <2> QED BY <1>3, <2>1, <2>2
<1>10. CASE SendInitial(t)
  <2>1. UNCHANGED <<seen, sent, rx, mutex>>
    BY <1>10 DEF SendInitial, Killed
  <2>2. /\ \A u \in Conns \ {t} : thread'[u] = thread[u]
        /\ "msg" \in DOMAIN thread'[t] /\ thread'[t].pc \notin {"lock", "header", "payload"}
    BY <1>2, <1>10 DEF SendInitial, Killed
  <2> QED BY <1>3, <2>1, <2>2
<1>11. CASE ReadFrame(t)
  <2> DEFINE s == thread[t].on
             frame == Head(rx[s])
  <2>1. UNCHANGED <<seen, sent, mutex>> /\ thread[t].pc = "read recv"
    BY <1>11 DEF ReadFrame
  <2>2. CASE RecvFails(s) /\ Goto(t, "cleanup") /\ UNCHANGED rx
    BY <1>2, <1>3, <2>1, <2>2
  <2>3. CASE /\ s \in Conns /\ rx[s] # <<>> /\ rx' = [rx EXCEPT ![s] = Tail(@)]
             /\ Goto(t, "read") \/ Goto(t, "cleanup")
    <3>1. /\ \A u \in Conns \ {t} : thread'[u] = thread[u]
          /\ "msg" \in DOMAIN thread'[t] /\ thread'[t].pc \notin {"lock", "header", "payload"}
      BY <1>2, <2>3
    <3> HIDE DEF s
    <3> QED BY <1>5, <2>1, <2>3, <3>1
  <2>4. CASE /\ s \in Conns /\ rx[s] # <<>> /\ rx' = [rx EXCEPT ![s] = Tail(@)]
             /\ frame.kind = "draw"
             /\ thread' = [thread EXCEPT ![t].pc = "lock", ![t].msg = PixelOf(frame)]
    <3>1. /\ \A u \in Conns \ {t} : thread'[u] = thread[u]
          /\ "msg" \in DOMAIN thread'[t] /\ thread'[t].pc = "lock"
          /\ thread'[t].msg = PixelOf(frame)
      BY <1>2, <2>4
    <3>2. ~Carries(t)
      BY <2>1 DEF Carries, Sends
    <3> HIDE DEF s
    <3> QED BY <1>1, <2>1, <2>4, <3>1, <3>2, TakesUp
  <2>5. \/ RecvFails(s) /\ Goto(t, "cleanup") /\ UNCHANGED rx
        \/ /\ s \in Conns /\ rx[s] # <<>> /\ rx' = [rx EXCEPT ![s] = Tail(@)]
           /\ Goto(t, "read") \/ Goto(t, "cleanup")
        \/ /\ s \in Conns /\ rx[s] # <<>> /\ rx' = [rx EXCEPT ![s] = Tail(@)]
           /\ frame.kind = "draw"
           /\ thread' = [thread EXCEPT ![t].pc = "lock", ![t].msg = PixelOf(frame)]
    BY <1>11 DEF ReadFrame, RecvReturns
  <2> QED BY <2>2, <2>3, <2>4, <2>5
<1>12. CASE LockClients(t)
  BY <1>1, <1>12, Locks
<1>13. CASE SendHeader(t)
  <2>1. UNCHANGED <<seen, sent, rx, mutex>> /\ thread[t].pc = "header"
    BY <1>13 DEF SendHeader, SendFailed, Killed
  <2>2. \/ thread' = thread \/ \E i : thread' = [thread EXCEPT ![t].pc = "header", ![t].at = i]
        \/ \E i : thread' = [thread EXCEPT ![t].pc = "payload", ![t].at = i]
    BY <1>13 DEF SendHeader, SendFailed, Killed
  <2>3. /\ \A u \in Conns \ {t} : thread'[u] = thread[u]
        /\ "msg" \in DOMAIN thread'[t] /\ thread'[t].msg = thread[t].msg
        /\ thread'[t].pc \in {"header", "payload"}
    BY <1>2, <2>1, <2>2
  <2> QED BY <1>4, <2>1, <2>3
<1>14. CASE SendPayload(t)
  <2> DEFINE s == fds[slots[thread[t].at].fd]
  <2>1. UNCHANGED <<sent, rx, mutex>> /\ thread[t].pc = "payload"
    BY <1>14 DEF SendPayload, SendFailed, Killed
  <2>2. thread' = thread \/ \E i : thread' = [thread EXCEPT ![t].pc = "header", ![t].at = i]
    BY <1>14 DEF SendPayload, SendFailed, Killed
  <2>3. CASE UNCHANGED seen
    <3>1. /\ \A u \in Conns \ {t} : thread'[u] = thread[u]
          /\ "msg" \in DOMAIN thread'[t] /\ thread'[t].msg = thread[t].msg
          /\ thread'[t].pc \in {"header", "payload"}
      BY <1>2, <2>1, <2>2
    <3> QED BY <1>4, <2>1, <2>3, <3>1
  <2>4. CASE /\ s \in Conns /\ seen' = [seen EXCEPT ![s] = Append(@, thread[t].msg)]
             /\ \E i : thread' = [thread EXCEPT ![t].pc = "header", ![t].at = i]
    <3>1. Sends(t)
      BY <2>1 DEF Sends
    <3> HIDE DEF s
    <3> QED BY <1>1, <2>1, <2>4, <3>1, Shows
  <2>5. \/ UNCHANGED seen
        \/ /\ s \in Conns /\ seen' = [seen EXCEPT ![s] = Append(@, thread[t].msg)]
           /\ \E i : thread' = [thread EXCEPT ![t].pc = "header", ![t].at = i]
    BY <1>14 DEF SendPayload, SendFailed, Killed, SendReturns
  <2> QED BY <2>3, <2>4, <2>5
<1>15. CASE UnlockClients(t)
  <2>1. /\ UNCHANGED <<seen, sent, rx>> /\ thread[t].pc = "header"
        /\ thread' = [thread EXCEPT ![t].pc = "read", ![t].msg = <<>>]
    BY <1>15 DEF UnlockClients
  <2>2. mutex = t
    BY <2>1 DEF Ordered, OneSender, Sends
  <2>3. /\ \A u \in Conns \ {t} : thread'[u] = thread[u]
        /\ "msg" \in DOMAIN thread'[t] /\ thread'[t].pc = "read"
    BY <1>2, <2>1
  <2>4. ~Carries(t)'
    BY <2>3 DEF Carries, Sends
  <2> QED BY <1>1, <2>1, <2>2, <2>3, <2>4, Walks
<1>16. CASE FreeInit(t)
  <2>1. UNCHANGED <<seen, sent, rx, mutex>>
    BY <1>16 DEF FreeInit
  <2>2. /\ \A u \in Conns \ {t} : thread'[u] = thread[u]
        /\ "msg" \in DOMAIN thread'[t] /\ thread'[t].pc \notin {"lock", "header", "payload"}
    BY <1>2, <1>16 DEF FreeInit
  <2> QED BY <1>3, <2>1, <2>2
<1>17. CASE CloseSocket(t) \/ ReleaseSlot(t)
  <2>1. UNCHANGED <<seen, sent, rx, mutex>>
    BY <1>17 DEF CloseSocket, ReleaseSlot
  <2>2. /\ \A u \in Conns \ {t} : thread'[u] = thread[u]
        /\ "msg" \in DOMAIN thread'[t] /\ thread'[t].pc \notin {"lock", "header", "payload"}
    BY <1>2, <1>17 DEF CloseSocket, ReleaseSlot
  <2> QED BY <1>3, <2>1, <2>2
<1> QED BY <1>6, <1>7, <1>8, <1>9, <1>10, <1>11, <1>12, <1>13, <1>14, <1>15, <1>16, <1>17
        DEF HandleClient

(* Steps that move no thread.                                              *)
LEMMA OthersOrdered ==
  ASSUME Ordered, UNCHANGED <<world, thread, mutex, seen>>,
         UNCHANGED <<rx, sent>> \/ \E c \in Conns : PageSends(c)
  PROVE  Ordered'
<1>1. Streams' /\ \A x : Waits(x)' => Waits(x)
  <2>1. CASE UNCHANGED <<rx, sent>>
    BY <2>1, StreamsRest DEF Ordered, Streams
  <2>2. CASE \E c \in Conns : PageSends(c)
    BY <2>2, StreamsSend DEF Ordered
  <2> QED BY <2>1, <2>2
<1>2. Onward
  BY <1>1 DEF Onward, Carries, Sends, Ordered, OneSender
<1> QED BY <1>2, OnwardKeeps

LEMMA PlaceOrdered == ASSUME IInv, Ordered, PlaceClient, UNCHANGED world PROVE Ordered'
<1>1. UNCHANGED <<seen, sent, rx, mutex>> /\ new # <<>>
  BY DEF PlaceClient, pageVars
<1>2. CASE UNCHANGED thread
  BY <1>1, <1>2, OthersOrdered
<1>3. ASSUME NEW i,
             thread' = [thread EXCEPT ![new[2]] = [Unborn EXCEPT !.pc = "handshake", !.cli = i]]
      PROVE  Ordered'
  <2>1. PICK t \in Conns : t = new[2]
    BY <1>1 DEF IInv, Newcomers
  <2>2. /\ \A u \in Conns \ {t} : thread'[u] = thread[u]
        /\ "msg" \in DOMAIN thread'[t] /\ thread'[t].pc = "handshake"
    BY <1>3, <2>1 DEF IInv, Shapes, Unborn
  <2>3. ~Carries(t)'
    BY <2>2 DEF Carries, Sends
  <2> QED BY <1>1, <2>2, <2>3, Walks
<1> QED BY <1>2, <1>3 DEF PlaceClient

LEMMA NextOrdered == IInv /\ Ordered /\ [Next]_vars => Ordered'
<1> SUFFICES ASSUME IInv, Ordered, [Next]_vars PROVE Ordered'
  OBVIOUS
<1>1. CASE AcceptClient /\ UNCHANGED world
  BY <1>1, OthersOrdered DEF AcceptClient, pageVars
<1>2. ASSUME NEW c \in Conns, Page(c) PROVE Ordered'
  <2>1. UNCHANGED <<world, thread, mutex, seen>>
    BY <1>2 DEF Page
  <2>2. UNCHANGED <<rx, sent>> \/ PageSends(c)
    BY <1>2 DEF Page, Connect, PageEnds
  <2> QED BY <2>1, <2>2, OthersOrdered
<1>3. CASE UNCHANGED vars
  BY <1>3, OthersOrdered DEF vars, pageVars
<1> QED BY <1>1, <1>2, <1>3, ThreadOrdered, PlaceOrdered DEF Next, MainThread

(***************************************************************************)
(* The threads of 2.multithreading send the pixels to all pages in one     *)
(* order, whichever threads broadcast, and although a failed send frees a  *)
(* slot under its thread, which then reads, answers and closes what is     *)
(* not its own.                                                            *)
(***************************************************************************)
THEOREM PixelsInOrder == Spec => []SameOrder
<1>1. Spec => []IInv
  BY InitIInv, StepKeeps, PTL DEF Spec
<1>2. Spec => []Ordered
  BY <1>1, InitOrdered, NextOrdered, PTL DEF Spec
<1>3. Ordered => SameOrder
  BY DEF Ordered, Agree, SameOrder
<1> QED BY <1>2, <1>3, PTL
=============================================================================
