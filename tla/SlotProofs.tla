----------------------------- MODULE SlotProofs -----------------------------
(***************************************************************************)
(* The table of clients and the descriptors of eunhye_files/server.c and   *)
(* epoll_usage/server.c agree, and the pages of their open slots show the  *)
(* canvas, for any number of slots, connections, descriptors and cells,    *)
(* whatever the pages send and whatever fails.                             *)
(*                                                                         *)
(* The server closes descriptors it has closed before.  CurrentOwns says   *)
(* why that takes no socket from another slot: while the loop is at one    *)
(* client no connection is accepted, so the number of a client that was    *)
(* dropped refers to no socket until the loop goes on.                     *)
(*                                                                         *)
(* A page is told of a pixel while the frame that drew it is processed.    *)
(* Reaches says how that goes: an open page shows the canvas, or all of it *)
(* but for the cell of the broadcast under way, which has its slot ahead.  *)
(*                                                                         *)
(* What was read of a client is on the canvas or in its buffer.  Drawing   *)
(* says how: the buffer of a slot is the last part of what was read of its *)
(* client, and of what came before that every frame has been drawn.        *)
(*                                                                         *)
(* The saving thread of epoll_usage takes a number from the same table.    *)
(* Where no connection is reset and no page sends a close frame, no number *)
(* is closed twice (Gentle), so that its file keeps the one it has, and    *)
(* the server implements what CanvasFile implements.                       *)
(***************************************************************************)
EXTENDS UsageServer, SequenceTheorems, WellFoundedInduction, TLAPS

Handling == {"handshake", "initial", "recv", "frames", "hangup", "send"}

Shapes == /\ DOMAIN fds = Fds
          /\ backlog \in Seq(Conns)
          /\ DOMAIN slots = Slots
          /\ \A i \in Slots : {"fd", "active", "done"} \subseteq DOMAIN slots[i]
          /\ \A i \in Slots : slots[i].active => slots[i].fd \in Fds

CurrentOwns == pc \in Handling => /\ cur \in Slots /\ slots[cur].fd \in Fds
                                  /\ slots[cur].active \/ fds[slots[cur].fd] \notin Conns

IInv == Shapes /\ CurrentOwns /\ TableMatchesSockets

-----------------------------------------------------------------------------
LEMMA Names == Closed \notin Conns /\ Fds \subseteq Nat /\ Slots \subseteq Nat
BY SocketsAssumption, SlotServerAssumption DEF Slots

LEMMA Minimum ==
  ASSUME NEW S \in SUBSET Nat, S # {}
  PROVE  \E i \in S : \A j \in S : i <= j
<1>1. PICK i \in S : \A j \in S : <<j, i>> \notin OpToRel(<, Nat)
  BY WFMin, NatLessThanWellFounded
<1>2. \A j \in S : ~(j < i)
  BY <1>1 DEF OpToRel
<1>3. \A j \in S : i <= j
  BY <1>2
<1> QED BY <1>3

LEMMA LeastIn == ASSUME NEW S \in SUBSET Slots, S # {} PROVE Least(S) \in S
BY Names, Minimum DEF Least

LEMMA LowestIn == ASSUME Available # {} PROVE Lowest \in Fds /\ fds[Lowest] = Closed
<1>1. Available \in SUBSET Nat
  BY Names DEF Available
<1>2. Lowest \in Available
  BY <1>1, Minimum DEF Lowest
<1> QED BY <1>2 DEF Available

LEMMA InitIInv == SlotInit => IInv
<1> SUFFICES ASSUME SlotInit PROVE IInv
  OBVIOUS
<1>1. backlog \in Seq(Conns)
  BY EmptySeq DEF SlotInit, setup_server, NetInit
<1>2. /\ fds = [f \in Fds |-> Closed] /\ slots = [i \in Slots |-> Free] /\ pc = "wait"
  BY DEF SlotInit, setup_server, NetInit
<1>3. Shapes /\ CurrentOwns
  BY <1>1, <1>2 DEF Shapes, CurrentOwns, Free, Handling
<1>4. TableMatchesSockets
  BY <1>2, Names DEF TableMatchesSockets, Active, ConnOf, Free
<1> QED BY <1>3, <1>4 DEF IInv

-----------------------------------------------------------------------------
(* Steps that neither take nor give a slot or a descriptor.                *)
SameTable == /\ DOMAIN slots' = Slots
             /\ \A i \in Slots : /\ {"fd", "active", "done"} \subseteq DOMAIN slots'[i]
                                 /\ slots'[i].fd = slots[i].fd
                                 /\ slots'[i].active = slots[i].active

LEMMA SameTableKeeps ==
  ASSUME IInv, SameTable, UNCHANGED fds, backlog' \in Seq(Conns), CurrentOwns'
  PROVE  IInv'
<1>1. Shapes'
  BY DEF IInv, Shapes, SameTable
<1>2. Active' = Active
  BY DEF SameTable, Active
<1>3. \A i \in Slots : slots'[i].fd = slots[i].fd /\ ConnOf(i)' = ConnOf(i)
  BY DEF SameTable, ConnOf
<1>4. TableMatchesSockets'
  BY <1>2, <1>3 DEF IInv, TableMatchesSockets, Active
<1> QED BY <1>1, <1>4 DEF IInv

LEMMA SameTableStays ==
  ASSUME IInv, SameTable, UNCHANGED <<fds, backlog>>,
         pc' \in Handling => pc \in Handling /\ cur' = cur
  PROVE  IInv'
<1>1. CurrentOwns'
  BY DEF IInv, CurrentOwns, SameTable
<1>2. backlog' \in Seq(Conns)
  BY DEF IInv, Shapes
<1> QED BY <1>1, <1>2, SameTableKeeps

LEMMA SameSlots ==
  ASSUME IInv, UNCHANGED <<fds, slots>>, backlog' \in Seq(Conns),
         pc' \in Handling => pc \in Handling /\ cur' = cur
  PROVE  IInv'
<1>1. SameTable
  BY DEF IInv, Shapes, SameTable
<1>2. CurrentOwns'
  BY DEF IInv, CurrentOwns
<1> QED BY <1>1, <1>2, SameTableKeeps

(* A slot is given back and its descriptor closed, once more or not.       *)
LEMMA DroppedKeeps ==
  ASSUME IInv, NEW i \in Slots, slots[i].fd \in Fds,
         slots[i].active \/ fds[slots[i].fd] \notin Conns,
         fds' = [fds EXCEPT ![slots[i].fd] = Closed],
         DOMAIN slots' = Slots, \A j \in Slots \ {i} : slots'[j] = slots[j],
         {"fd", "active", "done"} \subseteq DOMAIN slots'[i],
         slots'[i].fd = slots[i].fd, ~slots'[i].active,
         UNCHANGED backlog, pc' \in Handling => pc \in Handling /\ cur' = cur
  PROVE  IInv'
<1> DEFINE f == slots[i].fd
<1>1. DOMAIN fds' = Fds /\ fds'[f] = Closed /\ \A g \in Fds \ {f} : fds'[g] = fds[g]
  BY DEF IInv, Shapes
<1>2. Active' = Active \ {i}
  BY DEF Active
<1>3. Shapes'
  BY <1>1 DEF IInv, Shapes
<1>4. \A j \in Active \ {i} : j \in Slots /\ slots[j].fd \in Fds /\ slots[j].fd # f
  BY DEF IInv, Shapes, TableMatchesSockets, Active, ConnOf
<1>5. TableMatchesSockets'
  <2>1. \A j \in Active' : ConnOf(j)' \in Conns
    BY <1>1, <1>2, <1>4 DEF IInv, TableMatchesSockets, ConnOf, Active
  <2>2. \A j, k \in Active' : slots'[j].fd = slots'[k].fd => j = k
    BY <1>2, <1>4 DEF IInv, TableMatchesSockets, Active
  <2>3. ASSUME NEW g \in Fds, fds'[g] \in Conns
        PROVE  \E j \in Active' : slots'[j].fd = g
    <3>1. g # f /\ fds[g] \in Conns
      BY <1>1, <2>3, Names
    <3>2. PICK j \in Active : slots[j].fd = g
      BY <3>1 DEF IInv, TableMatchesSockets
    <3>3. j \in Active' /\ slots'[j].fd = g
      BY <1>2, <3>1, <3>2 DEF Active
    <3> QED BY <3>3
  <2> QED BY <2>1, <2>2, <2>3 DEF TableMatchesSockets
<1>6. CurrentOwns'
  <2> SUFFICES ASSUME pc' \in Handling
               PROVE  /\ cur' \in Slots /\ slots'[cur'].fd \in Fds
                      /\ slots'[cur'].active \/ fds'[slots'[cur'].fd] \notin Conns
    BY DEF CurrentOwns
  <2>1. cur' = cur /\ cur \in Slots /\ slots[cur].fd \in Fds
        /\ (slots[cur].active \/ fds[slots[cur].fd] \notin Conns)
    BY DEF IInv, CurrentOwns
  <2>2. CASE cur = i
    BY <1>1, <2>1, <2>2, Names
  <2>3. CASE cur # i
    BY <1>1, <2>1, <2>3, Names
  <2> QED BY <2>2, <2>3
<1> QED BY <1>3, <1>5, <1>6 DEF IInv

LEMMA DropKeeps ==
  ASSUME IInv, NEW i \in Slots, slots[i].fd \in Fds,
         slots[i].active \/ fds[slots[i].fd] \notin Conns,
         Drop(i), UNCHANGED backlog, pc' \in Handling => pc \in Handling /\ cur' = cur
  PROVE  IInv'
<1>1. /\ fds' = [fds EXCEPT ![slots[i].fd] = Closed]
      /\ DOMAIN slots' = Slots /\ \A j \in Slots \ {i} : slots'[j] = slots[j]
      /\ {"fd", "active", "done"} \subseteq DOMAIN slots'[i]
      /\ slots'[i].fd = slots[i].fd /\ ~slots'[i].active
  BY DEF Drop, CloseFd, IInv, Shapes
<1> QED BY <1>1, DroppedKeeps

LEMMA DropCurrentKeeps ==
  ASSUME IInv, pc \in Handling, Drop(cur), UNCHANGED <<backlog, cur>>
  PROVE  IInv'
BY DropKeeps DEF IInv, CurrentOwns

-----------------------------------------------------------------------------
LEMMA DispatchKeeps == ASSUME IInv, Dispatch PROVE IInv'
<1> DEFINE f == Head(batch).fd
<1>1. UNCHANGED <<backlog, slots>> /\ backlog' \in Seq(Conns)
  BY DEF Dispatch, IInv, Shapes
<1>2. CASE f = 0 /\ GoTo("accept") /\ UNCHANGED <<fds, cur>>
  BY <1>1, <1>2, SameSlots DEF GoTo, Handling
<1>3. CASE Matching(f) = {} /\ CloseFd(f) /\ GoTo("next")
  <2>1. f \in Fds => fds[f] \notin Conns
    BY <1>3 DEF IInv, TableMatchesSockets, Matching
  <2>2. DOMAIN fds' = Fds /\ \A g \in Fds : fds'[g] = IF g = f THEN Closed ELSE fds[g]
    BY <1>3 DEF CloseFd, IInv, Shapes
  <2>3. Shapes'
    BY <1>1, <2>2 DEF IInv, Shapes
  <2>4. CurrentOwns'
    BY <1>3 DEF CurrentOwns, GoTo, Handling
  <2>5. \A i \in Active : slots[i].fd \in Fds /\ fds[slots[i].fd] \in Conns
    BY DEF IInv, Shapes, TableMatchesSockets, Active, ConnOf
  <2>6. Active' = Active
    BY <1>1 DEF Active
  <2>7. \A i \in Active : ConnOf(i)' = ConnOf(i)
    BY <1>1, <2>1, <2>2, <2>5 DEF ConnOf
  <2>8. TableMatchesSockets'
    BY <1>1, <2>2, <2>6, <2>7, Names DEF IInv, TableMatchesSockets
  <2> QED BY <2>3, <2>4, <2>8 DEF IInv
<1>4. CASE Matching(f) # {} /\ cur' = Least(Matching(f)) /\ UNCHANGED fds
  <2>1. cur' \in Matching(f)
    BY <1>4, LeastIn DEF Matching, Active
  <2>2. cur' \in Slots /\ slots'[cur'].active /\ slots'[cur'].fd \in Fds
    BY <1>1, <2>1 DEF Matching, Active, IInv, Shapes
  <2>3. CurrentOwns'
    BY <2>2 DEF CurrentOwns
  <2>4. SameTable
    BY <1>1 DEF SameTable, IInv, Shapes
  <2> QED BY <1>1, <1>4, <2>3, <2>4, SameTableKeeps
<1> QED BY <1>2, <1>3, <1>4 DEF Dispatch

LEMMA AcceptKeeps == ASSUME IInv, Accept PROVE IInv'
<1> DEFINE c == Head(backlog)
           i == Least(Unused)
<1>1. pc' = "accept" /\ CurrentOwns'
  BY DEF Accept, CurrentOwns, Handling
<1>2. c \in Conns /\ backlog' \in Seq(Conns)
  BY HeadTailProperties DEF Accept, IInv, Shapes
<1>3. Lowest \in Fds /\ fds[Lowest] = Closed
  BY LowestIn DEF Accept
<1>4. Unused # {} => i \in Slots /\ ~slots[i].active
  BY LeastIn DEF Unused, Active
<1>5. CASE UNCHANGED <<fds, slots>>
  BY <1>1, <1>2, <1>5, SameSlots DEF Handling
<1>6. CASE /\ Unused # {}
           /\ slots' = [slots EXCEPT ![i] = [Taken EXCEPT !.active = FALSE]]
           /\ UNCHANGED fds
  <2>1. /\ DOMAIN slots' = Slots /\ \A j \in Slots \ {i} : slots'[j] = slots[j]
        /\ slots'[i] = [Taken EXCEPT !.active = FALSE]
    BY <1>4, <1>6 DEF IInv, Shapes
  <2>2. {"fd", "active", "done"} \subseteq DOMAIN slots'[i] /\ ~slots'[i].active
    BY <2>1 DEF Taken, Free
  <2> HIDE DEF i
  <2>3. Shapes'
    BY <1>2, <1>6, <2>1, <2>2 DEF IInv, Shapes
  <2>4. Active' = Active /\ \A j \in Active : slots'[j] = slots[j]
    BY <1>4, <1>6, <2>1, <2>2 DEF Active
  <2>5. TableMatchesSockets'
    <3>1. \A j \in Active : slots'[j].fd = slots[j].fd /\ ConnOf(j)' = ConnOf(j)
      BY <1>6, <2>4 DEF ConnOf
    <3> QED BY <1>6, <2>4, <3>1 DEF IInv, TableMatchesSockets
  <2> QED BY <1>1, <2>3, <2>5 DEF IInv
<1>7. CASE /\ Unused # {}
           /\ slots' = [slots EXCEPT ![i] = Taken]
           /\ fds' = [fds EXCEPT ![Lowest] = c]
  <2>1. /\ DOMAIN slots' = Slots /\ \A j \in Slots \ {i} : slots'[j] = slots[j]
        /\ slots'[i] = Taken
    BY <1>4, <1>7 DEF IInv, Shapes
  <2>2. /\ {"fd", "active", "done"} \subseteq DOMAIN slots'[i]
        /\ slots'[i].active /\ slots'[i].fd = Lowest
    BY <2>1 DEF Taken, Free
  <2>3. DOMAIN fds' = Fds /\ fds'[Lowest] = c /\ \A g \in Fds \ {Lowest} : fds'[g] = fds[g]
    BY <1>3, <1>7 DEF IInv, Shapes
  <2> HIDE DEF i, c
  <2>4. Shapes'
    BY <1>2, <1>3, <2>1, <2>2, <2>3 DEF IInv, Shapes
  <2>5. Active' = Active \cup {i} /\ i \in Slots /\ i \notin Active
    BY <1>4, <1>7, <2>1, <2>2 DEF Active
  <2>6. \A j \in Active : /\ slots'[j] = slots[j] /\ slots[j].fd \in Fds
                         /\ slots[j].fd # Lowest /\ fds[slots[j].fd] \in Conns
    BY <1>3, <2>1, <2>5, Names DEF IInv, Shapes, TableMatchesSockets, Active, ConnOf
  <2>7. \A j \in Active' : ConnOf(j)' \in Conns
    BY <1>2, <2>2, <2>3, <2>5, <2>6 DEF ConnOf
  <2>8. \A j, k \in Active' : slots'[j].fd = slots'[k].fd => j = k
    BY <2>2, <2>5, <2>6 DEF IInv, TableMatchesSockets
  <2>9. ASSUME NEW g \in Fds, fds'[g] \in Conns
        PROVE  \E j \in Active' : slots'[j].fd = g
    <3>1. CASE g = Lowest
      BY <2>2, <2>5, <3>1
    <3>2. CASE g # Lowest
      <4>1. PICK j \in Active : slots[j].fd = g
        BY <2>3, <2>9, <3>2 DEF IInv, TableMatchesSockets
      <4> QED BY <2>5, <2>6, <4>1
    <3> QED BY <3>1, <3>2
  <2>10. TableMatchesSockets'
    BY <2>7, <2>8, <2>9 DEF TableMatchesSockets
  <2> QED BY <1>1, <2>4, <2>10 DEF IInv
<1> QED BY <1>5, <1>6, <1>7 DEF Accept, Stay

LEMMA HandshakeKeeps == ASSUME IInv, Handshake PROVE IInv'
<1>1. pc \in Handling /\ UNCHANGED <<backlog, cur>> /\ backlog' \in Seq(Conns)
  BY DEF Handshake, Handling, IInv, Shapes
<1>2. CASE Drop(cur)
  BY <1>1, <1>2, DropCurrentKeeps
<1>3. CASE Stay
  BY <1>1, <1>3, SameSlots DEF Stay
<1> QED BY <1>2, <1>3 DEF Handshake

LEMMA InitialKeeps == ASSUME IInv, Initial PROVE IInv'
<1>1. /\ pc \in Handling /\ UNCHANGED <<backlog, cur>>
      /\ cur \in Slots /\ slots[cur].fd \in Fds
      /\ slots[cur].active \/ fds[slots[cur].fd] \notin Conns
  BY DEF Initial, Handling, IInv, CurrentOwns
<1>2. CASE /\ CloseFd(slots[cur].fd)
           /\ slots' = [slots EXCEPT ![cur].active = FALSE, ![cur].done = TRUE]
  <2>1. /\ DOMAIN slots' = Slots /\ \A j \in Slots \ {cur} : slots'[j] = slots[j]
        /\ {"fd", "active", "done"} \subseteq DOMAIN slots'[cur]
        /\ slots'[cur].fd = slots[cur].fd /\ ~slots'[cur].active
    BY <1>1, <1>2 DEF IInv, Shapes
  <2>2. fds' = [fds EXCEPT ![slots[cur].fd] = Closed]
    BY <1>2 DEF CloseFd
  <2> QED BY <1>1, <2>1, <2>2, DroppedKeeps
<1>3. CASE slots' = [slots EXCEPT ![cur].done = TRUE] /\ UNCHANGED fds
  <2>1. SameTable
    BY <1>1, <1>3 DEF SameTable, IInv, Shapes
  <2> QED BY <1>1, <1>3, <2>1, SameTableStays
<1>4. CASE Stay
  <2>1. SameTable
    BY <1>4 DEF Stay, SameTable, IInv, Shapes
  <2> QED BY <1>1, <1>4, <2>1, SameTableStays DEF Stay
<1> QED BY <1>2, <1>3, <1>4 DEF Initial

LEMMA ReadKeeps == ASSUME IInv, Recv \/ ProcessFrame \/ FramesEnd \/ Hangup PROVE IInv'
<1>1. pc \in Handling /\ UNCHANGED <<backlog, cur>> /\ backlog' \in Seq(Conns) /\ cur \in Slots
  BY DEF Recv, ProcessFrame, FramesEnd, Hangup, Handling, IInv, Shapes, CurrentOwns, netVars
<1>2. CASE Drop(cur)
  BY <1>1, <1>2, DropCurrentKeeps
<1>3. CASE UNCHANGED <<fds, slots>>
  BY <1>1, <1>3, SameSlots
<1>4. CASE Recv
  BY <1>2, <1>3, <1>4 DEF Recv, Stay
<1>5. CASE ProcessFrame
  BY <1>2, <1>3, <1>5 DEF ProcessFrame, Stay
<1>6. CASE FramesEnd
  BY <1>3, <1>6 DEF FramesEnd, netVars
<1>7. CASE Hangup
  BY <1>2, <1>3, <1>7 DEF Hangup, Stay
<1> QED BY <1>4, <1>5, <1>6, <1>7

LEMMA SendKeeps == ASSUME IInv, Send PROVE IInv'
<1> DEFINE i == Least(Rest)
<1>1. pc \in Handling /\ UNCHANGED <<backlog, cur>> /\ backlog' \in Seq(Conns)
  BY DEF Send, Handling, IInv, Shapes
<1>2. i \in Slots /\ slots[i].active /\ slots[i].fd \in Fds
  <2>1. Rest # {} /\ Rest \subseteq Slots /\ \A j \in Rest : slots[j].active
    BY DEF Send, Rest, Open, Active
  <2>2. i \in Rest
    BY <2>1, LeastIn
  <2> QED BY <2>1, <2>2 DEF IInv, Shapes
<1>3. CASE Drop(i)
  BY <1>1, <1>2, <1>3, DropKeeps
<1>4. CASE Stay
  BY <1>1, <1>4, SameSlots DEF Stay
<1> QED BY <1>3, <1>4 DEF Send, SendFails

LEMMA StepsKeep ==
  ASSUME IInv,
         \/ EpollWait \/ NextEvent \/ Dispatch \/ AcceptEnds \/ Accept \/ Handshake
         \/ Initial \/ Recv \/ ProcessFrame \/ FramesEnd \/ Hangup \/ Send \/ SendEnds
  PROVE  IInv'
<1>1. backlog \in Seq(Conns)
  BY DEF IInv, Shapes
<1>2. CASE EpollWait \/ NextEvent \/ AcceptEnds
  BY <1>1, <1>2, SameSlots DEF EpollWait, NextEvent, AcceptEnds, GoTo, netVars, Handling
<1>3. CASE SendEnds
  BY <1>1, <1>3, SameSlots DEF SendEnds, netVars, Handling
<1> QED BY <1>2, <1>3, DispatchKeeps, AcceptKeeps, HandshakeKeeps, InitialKeeps, ReadKeeps, SendKeeps

LEMMA EventThreadKeeps == ASSUME IInv, EventThread PROVE IInv'
BY StepsKeep DEF EventThread, rounds, accepting, websocket_handshake, greeting, reading,
                 process_websocket_frame, broadcast_to_clients

(* The kernel closes all descriptors of a process that ends.               *)
LEMMA RestartKeeps == ASSUME IInv, ServerRestart PROVE IInv'
<1>1. /\ fds' = [f \in Fds |-> Closed] /\ slots' = [i \in Slots |-> Free]
      /\ pc' = "wait" /\ backlog' = <<>>
  BY DEF ServerRestart, Emptied
<1>2. backlog' \in Seq(Conns)
  BY <1>1, EmptySeq
<1>3. Shapes' /\ CurrentOwns'
  BY <1>1, <1>2 DEF Shapes, CurrentOwns, Free, Handling
<1>4. TableMatchesSockets'
  BY <1>1, Names DEF TableMatchesSockets, Active, ConnOf, Free
<1> QED BY <1>3, <1>4 DEF IInv

LEMMA ClientsKeep == ASSUME IInv, Clients PROVE IInv'
<1>1. UNCHANGED <<slots, pc, cur>>
  BY DEF Clients, loopVars
<1>2. UNCHANGED fds /\ backlog' \in Seq(Conns)
  <2>1. PICK c \in Conns : Client(c)
    BY DEF Clients
  <2>2. CASE Connect(c)
    BY <2>2, AppendProperties DEF Connect, IInv, Shapes
  <2>3. CASE ClientSend(c) \/ ClientLeave(c)
    BY <2>3 DEF ClientSend, ClientLeave, Ended, IInv, Shapes
  <2> QED BY <2>1, <2>2, <2>3 DEF Client
<1> QED BY <1>1, <1>2, SameSlots

-----------------------------------------------------------------------------
(* No connection is accepted twice.                                        *)
AcceptedOnce == /\ peer \in [Conns -> {"new", "up", "fin", "rst", "finrst"}]
                /\ \A f \in Fds : fds[f] \in Conns \cup {Closed, TmpFile}
                /\ \A f, g \in Fds : fds[f] \in Conns /\ fds[g] = fds[f] => g = f
                /\ \A f \in Fds : fds[f] \in Conns => peer[fds[f]] # "new"
                /\ \A k, m \in 1 .. Len(backlog) : backlog[m] = backlog[k] => m = k
                /\ \A k \in 1 .. Len(backlog) : /\ peer[backlog[k]] # "new"
                                                /\ \A f \in Fds : fds[f] # backlog[k]

Displays == /\ DOMAIN wire = Conns /\ DOMAIN screen = Conns
            /\ \A c \in Conns : screen[c] = [k \in 1 .. Cells |-> screen[c][k]]
            /\ canvas = [k \in 1 .. Cells |-> canvas[k]]

Fresh == /\ pc = "handshake" => ~slots[cur].done
         /\ pc \in {"recv", "frames", "send"} => slots[cur].done

(* The page of slot i shows these cells of the canvas.                     *)
Shows(i, cells) == wire[ConnOf(i)] = "open" => \A k \in cells : screen[ConnOf(i)][k] = canvas[k]

(* Who does not show a cell is still to be told by the broadcast.          *)
Reaches == pc # "dead" =>
             \A i \in Open : \/ Shows(i, Whole)
                             \/ pc = "send" /\ i >= call.at /\ Shows(i, Whole \ {call.cell})

CallShape == {"cell", "at"} \subseteq DOMAIN call /\ (pc = "send" => call.cell \in 1 .. Cells)

Delivery == AcceptedOnce /\ Displays /\ Fresh /\ CallShape /\ Reaches

LEMMA InitDelivery == SlotInit => Delivery
<1> SUFFICES ASSUME SlotInit PROVE Delivery
  OBVIOUS
<1>1. AcceptedOnce
  BY Names, EmptySeq DEF SlotInit, setup_server, NetInit, AcceptedOnce
<1>2. Displays
  BY DEF SlotInit, setup_server, NetInit, Filled, Displays
<1>3. Open = {}
  BY DEF SlotInit, Open, Active, Free
<1> QED BY <1>1, <1>2, <1>3 DEF SlotInit, Delivery, Fresh, CallShape, Reaches

-----------------------------------------------------------------------------
LEMMA ClosedAcceptedOnce ==
  ASSUME IInv, AcceptedOnce, UNCHANGED <<peer, backlog>>, \A f \in Fds : fds'[f] \in {fds[f], Closed}
  PROVE  AcceptedOnce'
<1>1. \A k \in 1 .. Len(backlog) : backlog[k] \in Conns
  BY ElementOfSeq DEF IInv, Shapes
<1>2. \A f \in Fds : fds'[f] \in Conns => fds'[f] = fds[f]
  BY Names
<1>3. \A k \in 1 .. Len(backlog) : \A f \in Fds : fds'[f] # backlog[k]
  BY <1>1, <1>2 DEF AcceptedOnce
<1>4. \A f, g \in Fds : fds'[f] \in Conns /\ fds'[g] = fds'[f] => g = f
  BY <1>2 DEF AcceptedOnce
<1>5. \A f \in Fds : fds'[f] \in Conns \cup {Closed, TmpFile}
  BY DEF AcceptedOnce
<1> QED BY <1>2, <1>3, <1>4, <1>5 DEF AcceptedOnce

LEMMA AcceptAcceptedOnce == ASSUME IInv, AcceptedOnce, Accept PROVE AcceptedOnce'
<1> DEFINE c == Head(backlog)
<1>1. /\ backlog \in Seq(Conns) /\ backlog # <<>> /\ UNCHANGED peer
      /\ Len(backlog) \in Nat /\ Len(backlog) >= 1 /\ Len(backlog') = Len(backlog) - 1 /\ c = backlog[1]
      /\ \A k \in 1 .. Len(backlog') : backlog'[k] = backlog[k + 1] /\ k + 1 \in 1 .. Len(backlog)
  BY HeadTailProperties DEF Accept, IInv, Shapes
<1>2. c \in Conns /\ peer[c] # "new" /\ \A f \in Fds : fds[f] # c
  BY <1>1 DEF AcceptedOnce
<1>3. \A k \in 1 .. Len(backlog') : backlog'[k] # c
  BY <1>1 DEF AcceptedOnce
<1>4. \A k, m \in 1 .. Len(backlog') : backlog'[m] = backlog'[k] => m = k
  <2> SUFFICES ASSUME NEW k \in 1 .. Len(backlog'), NEW m \in 1 .. Len(backlog'), backlog'[m] = backlog'[k]
               PROVE  m = k
    OBVIOUS
  <2>1. m + 1 = k + 1
    BY <1>1 DEF AcceptedOnce
  <2> QED BY <1>1, <2>1
<1>5. \A k \in 1 .. Len(backlog') : peer'[backlog'[k]] # "new" /\ \A f \in Fds : fds[f] # backlog'[k]
  <2> SUFFICES ASSUME NEW k \in 1 .. Len(backlog')
               PROVE  peer'[backlog'[k]] # "new" /\ \A f \in Fds : fds[f] # backlog'[k]
    OBVIOUS
  <2>1. peer[backlog[k + 1]] # "new" /\ \A f \in Fds : fds[f] # backlog[k + 1]
    BY <1>1 DEF AcceptedOnce
  <2> QED BY <1>1, <2>1
<1>6. CASE UNCHANGED fds
  BY <1>1, <1>4, <1>5, <1>6 DEF AcceptedOnce
<1>7. CASE fds' = [fds EXCEPT ![Lowest] = c]
  <2>1. Lowest \in Fds
    BY LowestIn DEF Accept
  <2>2. fds'[Lowest] = c /\ \A f \in Fds \ {Lowest} : fds'[f] = fds[f]
    BY <1>7, <2>1 DEF IInv, Shapes
  <2> HIDE DEF c
  <2>3. \A f \in Fds : fds'[f] \in Conns \cup {Closed, TmpFile}
    BY <1>2, <2>1, <2>2 DEF AcceptedOnce
  <2>4. \A f, g \in Fds : fds'[f] \in Conns /\ fds'[g] = fds'[f] => g = f
    BY <1>2, <2>1, <2>2 DEF AcceptedOnce
  <2>5. \A f \in Fds : fds'[f] \in Conns => peer'[fds'[f]] # "new"
    BY <1>1, <1>2, <2>1, <2>2 DEF AcceptedOnce
  <2>6. \A k \in 1 .. Len(backlog') : \A f \in Fds : fds'[f] # backlog'[k]
    BY <1>3, <1>5, <2>1, <2>2
  <2>7. peer' \in [Conns -> {"new", "up", "fin", "rst", "finrst"}]
    BY <1>1 DEF AcceptedOnce
  <2> QED BY <1>4, <1>5, <2>3, <2>4, <2>5, <2>6, <2>7 DEF AcceptedOnce
<1> QED BY <1>6, <1>7 DEF Accept, Stay

LEMMA ClientsAcceptedOnce == ASSUME IInv, AcceptedOnce, Clients PROVE AcceptedOnce'
<1>1. PICK c \in Conns : Client(c)
  BY DEF Clients
<1>2. CASE Connect(c)
  <2>1. UNCHANGED fds /\ peer' = [peer EXCEPT ![c] = "up"] /\ peer[c] = "new"
    BY <1>2 DEF Connect
  <2>2. /\ Len(backlog) \in Nat /\ Len(backlog') = Len(backlog) + 1 /\ backlog'[Len(backlog) + 1] = c
        /\ \A k \in 1 .. Len(backlog) : backlog'[k] = backlog[k] /\ backlog[k] \in Conns
    BY <1>2, AppendProperties, ElementOfSeq DEF Connect, IInv, Shapes
  <2>3. \A k \in 1 .. Len(backlog) : backlog[k] # c
    BY <2>1 DEF AcceptedOnce
  <2>4. \A f \in Fds : fds[f] # c
    BY <2>1 DEF AcceptedOnce
  <2>5. \A k \in 1 .. Len(backlog') : k \in 1 .. Len(backlog) \/ k = Len(backlog) + 1
    BY <2>2
  <2>6. peer'[c] = "up" /\ \A d \in Conns \ {c} : peer'[d] = peer[d]
    BY <2>1 DEF AcceptedOnce
  <2>7. peer' \in [Conns -> {"new", "up", "fin", "rst", "finrst"}]
    BY <2>1 DEF AcceptedOnce
  <2> QED BY <2>1, <2>2, <2>3, <2>4, <2>5, <2>6, <2>7 DEF AcceptedOnce
<1>3. CASE ClientSend(c) \/ ClientLeave(c)
  <2>1. UNCHANGED <<fds, backlog>> /\ peer' \in [Conns -> {"new", "up", "fin", "rst", "finrst"}]
    BY <1>3 DEF ClientSend, ClientLeave, Ended, AcceptedOnce
  <2>2. \A d \in Conns : peer'[d] = "new" => peer[d] = "new"
    BY <1>3 DEF ClientSend, ClientLeave, Ended, AcceptedOnce
  <2>3. \A k \in 1 .. Len(backlog) : backlog[k] \in Conns
    BY ElementOfSeq DEF IInv, Shapes
  <2> QED BY <2>1, <2>2, <2>3 DEF AcceptedOnce
<1> QED BY <1>1, <1>2, <1>3 DEF Client

Steps == \/ EpollWait \/ NextEvent \/ Dispatch \/ AcceptEnds \/ Accept \/ Handshake
         \/ Initial \/ Recv \/ ProcessFrame \/ FramesEnd \/ Hangup \/ Send \/ SendEnds

LEMMA OnceStep == ASSUME IInv, AcceptedOnce, Steps \/ Clients PROVE AcceptedOnce'
<1> DEFINE Closing == UNCHANGED <<peer, backlog>> /\ (UNCHANGED fds \/ \E f : CloseFd(f))
<1>1. ASSUME Closing PROVE AcceptedOnce'
  <2>1. \A f \in Fds : fds'[f] \in {fds[f], Closed}
    BY <1>1 DEF CloseFd, IInv, Shapes
  <2> QED BY <1>1, <2>1, ClosedAcceptedOnce
<1>2. EpollWait \/ NextEvent \/ Dispatch \/ AcceptEnds \/ SendEnds => Closing
  BY DEF EpollWait, NextEvent, Dispatch, AcceptEnds, SendEnds, netVars
<1>3. Handshake \/ Initial => Closing
  BY DEF Handshake, Initial, Drop, Stay
<1>4. Recv \/ ProcessFrame \/ FramesEnd \/ Hangup => Closing
  BY DEF Recv, ProcessFrame, FramesEnd, Hangup, Drop, Stay, netVars
<1>5. Send => Closing
  BY DEF Send, SendFails, Drop, Stay
<1> HIDE DEF Closing
<1> QED BY <1>1, <1>2, <1>3, <1>4, <1>5, AcceptAcceptedOnce, ClientsAcceptedOnce DEF Steps

-----------------------------------------------------------------------------
LEMMA OpenOwns ==
  ASSUME IInv, NEW i \in Open
  PROVE  /\ i \in Active /\ i \in Slots /\ i \in Nat /\ slots[i].fd \in Fds /\ ConnOf(i) \in Conns
         /\ \A j \in Active : slots[j].fd = slots[i].fd => j = i
BY Names DEF Open, Active, IInv, Shapes, TableMatchesSockets

(* Who is open was open, with the same connection.                         *)
OpenKept == \A i \in Open' : i \in Open /\ ConnOf(i)' = ConnOf(i)

LEMMA SameKept == ASSUME UNCHANGED <<fds, slots>> PROVE OpenKept
BY DEF OpenKept, Open, Active, ConnOf

LEMMA CloseKept ==
  ASSUME IInv, NEW f, fds' = [fds EXCEPT ![f] = Closed],
         \A i \in Open' : i \in Open /\ slots'[i].fd = slots[i].fd /\ slots[i].fd # f
  PROVE  OpenKept
<1> SUFFICES ASSUME NEW i \in Open' PROVE i \in Open /\ ConnOf(i)' = ConnOf(i)
  BY DEF OpenKept
<1>1. i \in Open /\ slots'[i].fd = slots[i].fd /\ slots[i].fd # f /\ slots[i].fd \in Fds
  BY OpenOwns
<1>2. fds'[slots[i].fd] = fds[slots[i].fd]
  BY <1>1 DEF IInv, Shapes
<1> QED BY <1>1, <1>2 DEF ConnOf

(* Slot i is given back.                                                   *)
LEMMA BackKept ==
  ASSUME IInv, NEW i \in Slots, slots[i].active \/ fds[slots[i].fd] \notin Conns,
         CloseFd(slots[i].fd), ~slots'[i].active, \A j \in Slots \ {i} : slots'[j] = slots[j]
  PROVE  OpenKept
<1>1. \A j \in Open' : j # i /\ j \in Slots
  BY DEF Open, Active
<1>2. \A j \in Open' : j \in Open /\ slots'[j].fd = slots[j].fd
  BY <1>1 DEF Open, Active
<1>3. \A j \in Open' : slots[j].fd # slots[i].fd
  <2> SUFFICES ASSUME NEW j \in Open', slots[j].fd = slots[i].fd PROVE FALSE
    OBVIOUS
  <2>1. j \in Active /\ fds[slots[j].fd] \in Conns /\ j # i
    BY <1>1, <1>2, OpenOwns DEF ConnOf
  <2> QED BY <2>1 DEF IInv, TableMatchesSockets, Active
<1> QED BY <1>2, <1>3, CloseKept DEF CloseFd

LEMMA DropKept ==
  ASSUME IInv, NEW i \in Slots, slots[i].active \/ fds[slots[i].fd] \notin Conns, Drop(i)
  PROVE  OpenKept
<1>1. ~slots'[i].active /\ \A j \in Slots \ {i} : slots'[j] = slots[j]
  BY DEF Drop, IInv, Shapes
<1> QED BY <1>1, BackKept DEF Drop

LEMMA CurrentSlot ==
  ASSUME IInv, pc \in Handling
  PROVE  cur \in Slots /\ slots[cur].fd \in Fds /\ (slots[cur].active \/ fds[slots[cur].fd] \notin Conns)
BY DEF IInv, CurrentOwns

LEMMA AcceptKept == ASSUME IInv, Accept PROVE OpenKept
<1> DEFINE i == Least(Unused)
<1>1. CASE UNCHANGED <<fds, slots>>
  BY <1>1, SameKept
<1>2. CASE /\ Unused # {}
           /\ slots' = [slots EXCEPT ![i] = Taken] \/ slots' = [slots EXCEPT ![i] = [Taken EXCEPT !.active = FALSE]]
           /\ fds' = [fds EXCEPT ![Lowest] = Head(backlog)] \/ UNCHANGED fds
  <2>1. i \in Slots
    BY <1>2, LeastIn DEF Unused
  <2>2. ~slots'[i].done /\ \A j \in Slots \ {i} : slots'[j] = slots[j]
    BY <1>2, <2>1 DEF IInv, Shapes, Taken, Free
  <2>3. Lowest \in Fds /\ fds[Lowest] = Closed
    BY LowestIn DEF Accept
  <2> HIDE DEF i
  <2>4. \A j \in Open' : j \in Open /\ slots'[j].fd = slots[j].fd
    BY <2>2 DEF Open, Active
  <2>5. \A j \in Open' : slots[j].fd # Lowest /\ slots[j].fd \in Fds
    BY <2>3, <2>4, OpenOwns, Names DEF ConnOf
  <2>6. \A f \in Fds \ {Lowest} : fds'[f] = fds[f]
    BY <1>2, <2>3 DEF IInv, Shapes
  <2> QED BY <2>4, <2>5, <2>6 DEF OpenKept, ConnOf
<1> QED BY <1>1, <1>2 DEF Accept, Stay

-----------------------------------------------------------------------------
(* Nothing is drawn and nothing is sent.                                   *)
LEMMA QuietReaches ==
  ASSUME IInv, Reaches, pc \notin {"send", "dead"}, OpenKept, UNCHANGED <<wire, screen, canvas>>
  PROVE  Reaches'
BY DEF OpenKept, Reaches, Shows, Whole

LEMMA LoopReaches ==
  ASSUME IInv, Delivery,
         EpollWait \/ NextEvent \/ Dispatch \/ AcceptEnds \/ Accept \/ Recv \/ FramesEnd \/ Hangup
  PROVE  Reaches'
<1>1. /\ pc \notin {"send", "dead"} /\ Reaches /\ UNCHANGED <<wire, screen, canvas>>
  BY DEF EpollWait, NextEvent, Dispatch, AcceptEnds, Accept, Recv, FramesEnd, Hangup, netVars, drawVars,
         Delivery
<1>2. OpenKept
  <2>1. CASE UNCHANGED <<fds, slots>>
    BY <2>1, SameKept
  <2>2. CASE Dispatch /\ Matching(Head(batch).fd) = {} /\ CloseFd(Head(batch).fd)
    <3>1. UNCHANGED slots /\ \A i \in Open' : i \in Open /\ slots[i].fd # Head(batch).fd
      BY <2>2 DEF Dispatch, Matching, Open, Active
    <3> QED BY <2>2, <3>1, CloseKept DEF CloseFd
  <2>3. CASE Accept
    BY <2>3, AcceptKept
  <2>4. CASE (Recv \/ Hangup) /\ Drop(cur)
    BY <2>4, CurrentSlot, DropKept DEF Recv, Hangup, Handling
  <2> QED BY <2>1, <2>2, <2>3, <2>4 DEF EpollWait, NextEvent, Dispatch, AcceptEnds, Recv, FramesEnd, Hangup,
                                        Stay, netVars
<1> QED BY <1>1, <1>2, QuietReaches

LEMMA HandshakeReaches == ASSUME IInv, Delivery, Handshake PROVE Reaches'
<1>1. /\ pc = "handshake" /\ pc \in Handling /\ Reaches /\ UNCHANGED <<screen, canvas>> /\ ~slots[cur].done
  BY DEF Handshake, Handling, Delivery, Fresh, drawVars
<1>2. cur \in Slots /\ slots[cur].fd \in Fds /\ (slots[cur].active \/ fds[slots[cur].fd] \notin Conns)
  BY <1>1, CurrentSlot
<1>3. CASE Drop(cur) /\ UNCHANGED wire
  <2>1. OpenKept
    BY <1>2, <1>3, DropKept
  <2> QED BY <1>1, <1>3, <2>1, QuietReaches
<1>4. CASE Stay /\ UNCHANGED wire
  <2>1. OpenKept
    BY <1>4, SameKept DEF Stay
  <2> QED BY <1>1, <1>4, <2>1, QuietReaches
<1>5. ASSUME Request, NEW w, wire' = [wire EXCEPT ![ConnOf(cur)] = w], Stay PROVE Reaches'
  <2>1. cur \in Active /\ ConnOf(cur) \in Conns
    BY <1>2, <1>5 DEF Request, Active, ConnOf
  <2>2. \A i \in Open : ConnOf(i) # ConnOf(cur)
    <3> SUFFICES ASSUME NEW i \in Open, ConnOf(i) = ConnOf(cur) PROVE FALSE
      OBVIOUS
    <3>1. slots[i].fd = slots[cur].fd
      BY <1>2, <2>1, OpenOwns DEF Delivery, AcceptedOnce, ConnOf
    <3>2. i = cur
      BY <2>1, <3>1, OpenOwns
    <3> QED BY <1>1, <3>2 DEF Open
  <2>3. OpenKept
    BY <1>5, SameKept DEF Stay
  <2>4. \A i \in Open' : i \in Open /\ ConnOf(i)' = ConnOf(i) /\ wire'[ConnOf(i)] = wire[ConnOf(i)]
    BY <1>5, <2>2, <2>3, OpenOwns DEF OpenKept, Delivery, Displays
  <2> QED BY <1>1, <2>4 DEF Reaches, Shows, Whole
<1> QED BY <1>3, <1>4, <1>5 DEF Handshake

(* The page that opens is sent the whole canvas.                           *)
LEMMA InitialReaches == ASSUME IInv, Delivery, Initial PROVE Reaches'
<1> DEFINE c == ConnOf(cur)
<1>1. pc = "initial" /\ pc \in Handling /\ Reaches /\ UNCHANGED canvas
  BY DEF Initial, Handling, Delivery
<1>2. cur \in Slots /\ slots[cur].fd \in Fds /\ (slots[cur].active \/ fds[slots[cur].fd] \notin Conns)
  BY <1>1, CurrentSlot
<1>3. CASE Stay /\ UNCHANGED <<wire, screen>>
  <2>1. OpenKept
    BY <1>3, SameKept DEF Stay
  <2> QED BY <1>1, <1>3, <2>1, QuietReaches
<1>4. CASE /\ CloseFd(slots[cur].fd) /\ slots' = [slots EXCEPT ![cur].active = FALSE, ![cur].done = TRUE]
           /\ UNCHANGED <<wire, screen>>
  <2>1. ~slots'[cur].active /\ \A j \in Slots \ {cur} : slots'[j] = slots[j]
    BY <1>2, <1>4 DEF IInv, Shapes
  <2>2. OpenKept
    BY <1>2, <1>4, <2>1, BackKept
  <2> QED BY <1>1, <1>4, <2>2, QuietReaches
<1>5. CASE /\ "file" \in SendResults(slots[cur].fd)
           /\ slots' = [slots EXCEPT ![cur].done = TRUE] /\ UNCHANGED <<fds, wire, screen>>
  <2>1. ConnOf(cur) \notin Conns
    <3>1. SUFFICES ASSUME ConnOf(cur) \in Conns PROVE FALSE
      OBVIOUS
    <3>2. peer[ConnOf(cur)] \in {"up", "fin", "rst", "finrst"}
      BY <1>2, <3>1 DEF Delivery, AcceptedOnce, ConnOf
    <3> QED BY <1>2, <1>5, <3>1, <3>2, SocketsAssumption DEF SendResults, ConnOf
  <2>2. cur \notin Active
    BY <2>1 DEF IInv, TableMatchesSockets
  <2>3. /\ \A j \in Slots \ {cur} : slots'[j] = slots[j]
        /\ slots'[cur].fd = slots[cur].fd /\ slots'[cur].active = slots[cur].active
    BY <1>2, <1>5 DEF IInv, Shapes
  <2>4. OpenKept
    BY <1>5, <2>2, <2>3 DEF OpenKept, Open, Active, ConnOf
  <2> QED BY <1>1, <1>5, <2>4, QuietReaches
<1>6. ASSUME NEW result \in SendResults(slots[cur].fd), result \in {"all", "short"},
             slots' = [slots EXCEPT ![cur].done = TRUE], Told(c, Whole, result), UNCHANGED fds
      PROVE  Reaches'
  <2>1. c \in Conns
    BY <1>2, <1>6 DEF SendResults, ConnOf, Delivery, AcceptedOnce
  <2>2. \A i \in Open' : (i \in Open \/ i = cur) /\ ConnOf(i)' = ConnOf(i)
    <3>1. \A j \in Slots \ {cur} : slots'[j] = slots[j]
      BY <1>2, <1>6 DEF IInv, Shapes
    <3>2. slots'[cur].fd = slots[cur].fd
      BY <1>2, <1>6 DEF IInv, Shapes
    <3> QED BY <1>6, <3>1, <3>2 DEF Open, Active, ConnOf
  <2>3. \A i \in Open' : ConnOf(i) \in Conns
    BY <2>1, <2>2, OpenOwns
  <2>4. \A d \in Conns \ {c} : wire'[d] = wire[d] /\ screen'[d] = screen[d]
    BY <1>6, <2>1 DEF Told, Delivery, Displays
  <2>5. wire'[c] = "open" => \A k \in Whole : screen'[c][k] = canvas[k]
    <3> SUFFICES ASSUME wire'[c] = "open" PROVE \A k \in Whole : screen'[c][k] = canvas[k]
      OBVIOUS
    <3>1. result = "all" /\ wire[c] = "open"
      BY <1>6, <2>1 DEF Told, Delivery, Displays
    <3>2. screen'[c] = [k \in 1 .. Cells |-> IF k \in Whole THEN canvas[k] ELSE screen[c][k]]
      BY <1>6, <2>1, <3>1 DEF Told, Delivery, Displays
    <3> QED BY <3>2 DEF Whole
  <2> HIDE DEF c
  <2> SUFFICES ASSUME NEW i \in Open', wire'[ConnOf(i)] = "open"
               PROVE  \A k \in Whole : screen'[ConnOf(i)][k] = canvas[k]
    BY <1>1, <2>2 DEF Reaches, Shows, Whole
  <2>6. CASE ConnOf(i) = c
    BY <2>5, <2>6
  <2>7. CASE ConnOf(i) # c
    <3>1. i \in Open
      BY <2>2, <2>7 DEF c
    <3> QED BY <1>1, <2>3, <2>4, <2>7, <3>1 DEF Reaches, Shows
  <2> QED BY <2>6, <2>7
<1> QED BY <1>3, <1>4, <1>5, <1>6 DEF Initial

(* A pixel is drawn: the open pages show the canvas but for its cell.      *)
LEMMA FrameReaches == ASSUME IInv, Delivery, ProcessFrame PROVE Reaches'
<1>1. pc = "frames" /\ pc \in Handling /\ Reaches /\ UNCHANGED <<wire, screen>>
  BY DEF ProcessFrame, Handling, Delivery
<1>2. cur \in Slots /\ slots[cur].fd \in Fds /\ (slots[cur].active \/ fds[slots[cur].fd] \notin Conns)
  BY <1>1, CurrentSlot
<1>3. OpenKept
  BY <1>2, DropKept, SameKept DEF ProcessFrame, Stay
<1>4. CASE UNCHANGED canvas
  BY <1>1, <1>3, <1>4, QuietReaches
<1>5. ASSUME NEW at \in 1 .. Cells, NEW color, canvas' = [canvas EXCEPT ![at] = color],
             call' = [cell |-> at, at |-> 1], GoTo("send")
      PROVE  Reaches'
  <2>1. \A k \in Whole \ {at} : canvas'[k] = canvas[k]
    BY <1>5 DEF Delivery, Displays, Whole
  <2>2. \A i \in Open' : i \in Open /\ ConnOf(i)' = ConnOf(i) /\ Shows(i, Whole) /\ i >= 1
    BY <1>1, <1>3, OpenOwns DEF OpenKept, Reaches, Open, Active, Slots
  <2> QED BY <1>1, <1>5, <2>1, <2>2 DEF GoTo, Reaches, Shows, Whole
<1> QED BY <1>4, <1>5 DEF ProcessFrame, InRange

(* One writev of the broadcast.                                            *)
LEMMA SendReaches == ASSUME IInv, Delivery, Send PROVE Reaches'
<1> DEFINE n == Least(Rest)
           c == ConnOf(n)
<1>1. pc = "send" /\ Rest # {} /\ Reaches /\ UNCHANGED canvas
  BY DEF Send, Delivery
<1>2. n \in Rest /\ n \in Open /\ n \in Slots /\ n \in Nat /\ slots[n].fd \in Fds /\ c \in Conns
  <2>1. Rest \in SUBSET Slots /\ Rest \in SUBSET Open
    BY DEF Rest, Open, Active
  <2> QED BY <1>1, <2>1, LeastIn, OpenOwns
<1>3. \A i \in Open : i >= call.at => i = n \/ i >= n + 1
  <2> SUFFICES ASSUME NEW i \in Open, i >= call.at PROVE i = n \/ i >= n + 1
    OBVIOUS
  <2>1. Rest \subseteq Nat /\ i \in Rest /\ i \in Nat
    BY OpenOwns DEF Rest
  <2>2. PICK m \in Rest : \A j \in Rest : m <= j
    BY <1>1, <2>1, Minimum
  <2>3. \A j \in Rest : n <= j
    BY <2>2 DEF Least
  <2> QED BY <1>2, <2>1, <2>3
<1>4. "file" \notin SendResults(slots[n].fd)
  <2>1. peer[fds[slots[n].fd]] \in {"up", "fin", "rst", "finrst"}
    BY <1>2 DEF Delivery, AcceptedOnce, ConnOf
  <2> QED BY <1>2, <2>1, SocketsAssumption DEF SendResults, ConnOf
<1>5. CASE GoTo("dead")
  BY <1>5 DEF GoTo, Reaches
<1>6. ASSUME call' = [call EXCEPT !.at = n + 1]
      PROVE  call'.at = n + 1 /\ call'.cell = call.cell
  BY <1>6 DEF Delivery, CallShape
<1> HIDE DEF n
<1>7. CASE Drop(n) /\ call' = [call EXCEPT !.at = n + 1] /\ UNCHANGED <<pc, wire, screen>>
  <2>1. OpenKept /\ n \notin Open'
    BY <1>2, <1>7, DropKept DEF Drop, Open, Active, IInv, Shapes
  <2>2. \A i \in Open' : i \in Open /\ ConnOf(i)' = ConnOf(i) /\ (i >= call.at => i >= n + 1)
    BY <1>3, <2>1 DEF OpenKept
  <2> QED BY <1>1, <1>6, <1>7, <2>2 DEF Reaches, Shows, Whole
<1>8. ASSUME NEW result, result \in {"all", "short"}, Told(c, {call.cell}, result), Stay, UNCHANGED pc,
             call' = [call EXCEPT !.at = n + 1]
      PROVE  Reaches'
  <2>1. \A d \in Conns \ {c} : wire'[d] = wire[d] /\ screen'[d] = screen[d]
    BY <1>2, <1>8 DEF Told, Delivery, Displays
  <2>2. ASSUME wire'[c] = "open"
        PROVE  /\ wire[c] = "open" /\ screen'[c][call.cell] = canvas[call.cell]
               /\ \A k \in Whole \ {call.cell} : screen'[c][k] = screen[c][k]
    <3>1. wire[c] = "open" /\ result = "all"
      BY <1>2, <1>8, <2>2 DEF Told, Delivery, Displays
    <3>2. screen'[c] = [k \in 1 .. Cells |-> IF k \in {call.cell} THEN canvas[k] ELSE screen[c][k]]
      BY <1>2, <1>8, <3>1 DEF Told, Delivery, Displays
    <3>3. call.cell \in 1 .. Cells
      BY <1>1 DEF Delivery, CallShape
    <3> QED BY <3>1, <3>2, <3>3 DEF Whole
  <2>3. \A i \in Open' : i \in Open /\ ConnOf(i)' = ConnOf(i) /\ ConnOf(i) \in Conns
    BY <1>8, SameKept, OpenOwns DEF Stay, OpenKept
  <2> SUFFICES ASSUME NEW i \in Open'
               PROVE  \/ Shows(i, Whole)'
                      \/ pc' = "send" /\ i >= call'.at /\ Shows(i, Whole \ {call.cell})'
    BY DEF Reaches
  <2>4. Shows(i, Whole) \/ (i >= call.at /\ Shows(i, Whole \ {call.cell}))
    BY <1>1, <2>3 DEF Reaches
  <2>5. Shows(i, Whole) => Shows(i, Whole \ {call.cell})
    BY DEF Shows
  <2> HIDE DEF c
  <2>6. CASE ConnOf(i) = c
    <3>1. ASSUME wire'[c] = "open", NEW k \in Whole
          PROVE  screen'[c][k] = canvas'[k]
      <4>1. CASE k = call.cell
        BY <1>1, <2>2, <3>1, <4>1
      <4>2. CASE k # call.cell
        BY <1>1, <2>2, <2>4, <2>5, <2>6, <3>1, <4>2 DEF Shows
      <4> QED BY <4>1, <4>2
    <3>2. Whole' = Whole
      BY DEF Whole
    <3> QED BY <2>3, <2>6, <3>1, <3>2 DEF Shows
  <2>7. CASE ConnOf(i) # c
    <3>1. i >= call.at => i >= n + 1
      BY <1>3, <2>3, <2>7 DEF c
    <3> QED BY <1>1, <1>6, <1>8, <2>1, <2>3, <2>4, <2>7, <3>1 DEF Shows, Whole
  <2> QED BY <2>6, <2>7
<1> QED BY <1>4, <1>5, <1>7, <1>8 DEF Send, SendFails, n

LEMMA StillReaches ==
  ASSUME Reaches, UNCHANGED <<fds, slots, pc, call, drawVars, wire>>
  PROVE  Reaches'
BY DEF Reaches, Shows, Whole, Open, Active, ConnOf, drawVars

LEMMA ReachesStep == ASSUME IInv, Delivery, Steps \/ Clients PROVE Reaches'
<1>1. CASE SendEnds
  <2>1. /\ pc = "send" /\ Rest = {} /\ Reaches
        /\ UNCHANGED <<fds, slots, wire, screen, canvas>> /\ pc' # "dead"
    BY <1>1 DEF SendEnds, netVars, drawVars, Delivery, GoTo
  <2>2. OpenKept
    BY <2>1, SameKept
  <2>3. \A i \in Open : Shows(i, Whole)
    BY <2>1 DEF Reaches, Rest
  <2> QED BY <2>1, <2>2, <2>3 DEF OpenKept, Reaches, Shows, Whole
<1>2. CASE Clients
  <2>1. UNCHANGED <<fds, slots, pc, call, drawVars, wire>>
    BY <1>2 DEF Clients, Client, Connect, ClientSend, ClientLeave, Ended, loopVars
  <2> QED BY <2>1, StillReaches DEF Delivery
<1>3. CASE Steps /\ ~SendEnds
  BY <1>3, LoopReaches, HandshakeReaches, InitialReaches, FrameReaches, SendReaches DEF Steps
<1> QED BY <1>1, <1>2, <1>3

-----------------------------------------------------------------------------
LEMMA FreshStep == ASSUME IInv, Fresh, Steps \/ Clients PROVE Fresh'
<1>1. CASE Dispatch
  BY <1>1 DEF Dispatch, GoTo, Fresh
<1>2. CASE Clients
  BY <1>2 DEF Clients, loopVars, Fresh
<1>3. CASE EpollWait \/ NextEvent \/ AcceptEnds \/ Accept \/ Handshake \/ Initial \/ Hangup
  <2>1. pc' \notin {"handshake", "recv", "frames", "send"}
    BY <1>3 DEF EpollWait, NextEvent, AcceptEnds, Accept, Handshake, Initial, Hangup, GoTo
  <2> QED BY <2>1 DEF Fresh
<1>4. CASE Recv \/ ProcessFrame \/ FramesEnd \/ SendEnds \/ Send
  <2>1. /\ pc \in {"recv", "frames", "send"} /\ pc' # "handshake" /\ UNCHANGED cur
        /\ cur \in Slots /\ slots[cur].done
    <3>1. pc \in {"recv", "frames", "send"} /\ pc' # "handshake" /\ UNCHANGED cur
      BY <1>4 DEF Recv, ProcessFrame, FramesEnd, SendEnds, Send, GoTo
    <3> QED BY <3>1, CurrentSlot DEF Fresh, Handling
  <2>2. \A i \in Slots : Drop(i) => slots'[cur].done
    BY <2>1 DEF Drop, IInv, Shapes
  <2>3. Send => UNCHANGED slots \/ \E i \in Slots : Drop(i)
    <3>1. Send => Least(Rest) \in Slots
      BY LeastIn DEF Send, Rest, Open, Active
    <3> QED BY <3>1 DEF Send, SendFails, Stay
  <2>4. UNCHANGED slots \/ \E i \in Slots : Drop(i)
    BY <1>4, <2>1, <2>3 DEF Recv, ProcessFrame, FramesEnd, SendEnds, Stay
  <2>5. slots'[cur].done
    BY <2>1, <2>2, <2>4
  <2> QED BY <2>1, <2>5 DEF Fresh
<1> QED BY <1>1, <1>2, <1>3, <1>4 DEF Steps

LEMMA CallStep == ASSUME CallShape, Steps \/ Clients PROVE CallShape'
<1>1. CASE UNCHANGED call /\ (pc' = "send" => pc = "send")
  BY <1>1 DEF CallShape
<1>2. CASE Send
  BY <1>2 DEF Send, Stay, GoTo, CallShape
<1>3. CASE ProcessFrame
  <2>1. ASSUME NEW at \in 1 .. Cells, call' = [cell |-> at, at |-> 1]
        PROVE  CallShape'
    BY <2>1 DEF CallShape
  <2>2. CASE UNCHANGED call /\ GoTo("frames")
    BY <2>2 DEF GoTo, CallShape
  <2> QED BY <1>3, <2>1, <2>2 DEF ProcessFrame, InRange
<1>4. CASE Clients
  BY <1>1, <1>4 DEF Clients, loopVars
<1>5. CASE EpollWait \/ NextEvent \/ Dispatch \/ AcceptEnds \/ Accept
  BY <1>1, <1>5 DEF EpollWait, NextEvent, Dispatch, AcceptEnds, Accept, GoTo
<1>6. CASE Handshake \/ Initial \/ Recv \/ FramesEnd \/ Hangup \/ SendEnds
  BY <1>1, <1>6 DEF Handshake, Initial, Recv, FramesEnd, Hangup, SendEnds, GoTo
<1> QED BY <1>2, <1>3, <1>4, <1>5, <1>6 DEF Steps

LEMMA ToldDisplays ==
  ASSUME Displays, NEW c, NEW cells, NEW result, Told(c, cells, result), UNCHANGED canvas
  PROVE  Displays'
<1>1. DOMAIN wire' = Conns
  BY DEF Told, Displays
<1>2. CASE UNCHANGED screen
  BY <1>1, <1>2 DEF Displays
<1>3. CASE screen' = [screen EXCEPT ![c] = [k \in 1 .. Cells |-> IF k \in cells THEN canvas[k] ELSE @[k]]]
  <2>1. DOMAIN screen' = Conns /\ \A d \in Conns \ {c} : screen'[d] = screen[d]
    BY <1>3 DEF Displays
  <2>2. c \in Conns => screen'[c] = [k \in 1 .. Cells |-> IF k \in cells THEN canvas[k] ELSE screen[c][k]]
    BY <1>3 DEF Displays
  <2>3. c \in Conns => screen'[c] = [k \in 1 .. Cells |-> screen'[c][k]]
    BY <2>2
  <2> QED BY <1>1, <2>1, <2>3 DEF Displays
<1> QED BY <1>2, <1>3 DEF Told

LEMMA DisplaysStep == ASSUME Displays, Steps \/ Clients PROVE Displays'
<1>1. CASE UNCHANGED <<screen, canvas>> /\ DOMAIN wire' = DOMAIN wire
  BY <1>1 DEF Displays
<1>2. CASE Initial \/ Send
  BY <1>1, <1>2, ToldDisplays DEF Initial, Send, Stay
<1>3. CASE ProcessFrame
  <2>1. UNCHANGED <<screen, wire>>
    BY <1>3 DEF ProcessFrame
  <2>2. canvas' = [k \in 1 .. Cells |-> canvas'[k]]
    <3>1. CASE UNCHANGED canvas
      BY <3>1 DEF Displays
    <3>2. ASSUME NEW at, NEW color, canvas' = [canvas EXCEPT ![at] = color]
          PROVE  canvas' = [k \in 1 .. Cells |-> canvas'[k]]
      BY <3>2 DEF Displays
    <3> QED BY <1>3, <3>1, <3>2 DEF ProcessFrame
  <2> QED BY <2>1, <2>2 DEF Displays
<1>4. CASE Clients
  BY <1>1, <1>4 DEF Clients, Client, Connect, ClientSend, ClientLeave, Ended, drawVars
<1>5. CASE Handshake
  BY <1>1, <1>5 DEF Handshake, drawVars
<1>6. CASE EpollWait \/ NextEvent \/ Dispatch \/ AcceptEnds \/ Accept
  BY <1>1, <1>6 DEF EpollWait, NextEvent, Dispatch, AcceptEnds, Accept, drawVars, netVars
<1>7. CASE Recv \/ FramesEnd \/ Hangup \/ SendEnds
  BY <1>1, <1>7 DEF Recv, FramesEnd, Hangup, SendEnds, drawVars, netVars
<1> QED BY <1>2, <1>3, <1>4, <1>5, <1>6, <1>7 DEF Steps

LEMMA DeliveryStep == ASSUME IInv, Delivery, Steps \/ Clients PROVE Delivery'
<1>1. AcceptedOnce' /\ Displays' /\ Fresh'
  BY OnceStep, DisplaysStep, FreshStep DEF Delivery
<1>2. CallShape'
  BY CallStep DEF Delivery
<1> QED BY <1>1, <1>2, ReachesStep DEF Delivery

LEMMA SameDelivery == ASSUME Delivery, UNCHANGED slotVars PROVE Delivery'
<1>1. AcceptedOnce' /\ Displays' /\ Fresh'
  BY DEF Delivery, AcceptedOnce, Displays, Fresh, slotVars, netVars, loopVars, drawVars
<1>2. Reaches'
  BY StillReaches DEF Delivery, slotVars, netVars, loopVars, drawVars
<1> QED BY <1>1, <1>2 DEF Delivery, CallShape, slotVars, loopVars

LEMMA InSync == ASSUME IInv, Delivery PROVE OpenPagesInSync
<1> SUFFICES ASSUME Idle, NEW i \in Open, wire[ConnOf(i)] = "open" PROVE screen[ConnOf(i)] = canvas
  BY DEF OpenPagesInSync
<1>1. \A k \in 1 .. Cells : screen[ConnOf(i)][k] = canvas[k]
  BY DEF Idle, Delivery, Reaches, Shows, Whole
<1>2. ConnOf(i) \in Conns
  BY OpenOwns
<1>3. /\ screen[ConnOf(i)] = [k \in 1 .. Cells |-> screen[ConnOf(i)][k]]
      /\ canvas = [k \in 1 .. Cells |-> canvas[k]]
  BY <1>2 DEF Delivery, Displays
<1> QED BY <1>1, <1>3

-----------------------------------------------------------------------------
LEMMA SlotInvariance == SlotSpec => [](IInv /\ Delivery)
<1>1. IInv /\ Delivery /\ [SlotNext]_slotVars => (IInv /\ Delivery)'
  <2> SUFFICES ASSUME IInv, Delivery, [SlotNext]_slotVars PROVE IInv' /\ Delivery'
    OBVIOUS
  <2>1. CASE Main
    BY <2>1, StepsKeep, DeliveryStep DEF Main, Steps
  <2>2. CASE Clients
    BY <2>2, ClientsKeep, DeliveryStep
  <2>3. CASE UNCHANGED slotVars
    BY <2>3, SameSlots, SameDelivery DEF slotVars, netVars, loopVars, IInv, Shapes
  <2> QED BY <2>1, <2>2, <2>3 DEF SlotNext
<1> QED BY InitIInv, InitDelivery, <1>1, PTL DEF SlotSpec

-----------------------------------------------------------------------------
(* Picked: what it returns are the elements at the places asked for, in    *)
(* their order.                                                            *)
LEMMA Induction ==
  ASSUME NEW S, 0 \in S, \A n \in Nat : n \in S => n + 1 \in S
  PROVE  Nat \subseteq S
<1> SUFFICES ASSUME Nat \ S # {} PROVE FALSE
  OBVIOUS
<1>1. PICK m \in Nat \ S : \A x \in Nat \ S : m <= x
  <2>1. Nat \ S \in SUBSET Nat
    OBVIOUS
  <2> QED BY <2>1, Minimum
<1>2. m # 0 /\ m - 1 \in Nat /\ m - 1 \in S
  BY <1>1
<1> QED BY <1>1, <1>2

(* f is the function that Picked defines, up to N. *)
Picks(s, P, f, N) ==
  f = [n \in 0 .. N |-> IF n = 0 THEN <<>>
                        ELSE IF n \in P THEN Append(f[n - 1], s[n]) ELSE f[n - 1]]

LEMMA PicksExists ==
  ASSUME NEW s, NEW P, NEW N \in Nat
  PROVE  \E f : Picks(s, P, f, N)
<1> DEFINE S == {m \in Nat : \E f : Picks(s, P, f, m)}
<1>1. 0 \in S
  <2> DEFINE f == [n \in 0 .. 0 |-> <<>>]
  <2>1. Picks(s, P, f, 0)
    BY DEF Picks
  <2> QED BY <2>1
<1>2. ASSUME NEW m \in Nat, m \in S PROVE m + 1 \in S
  <2>1. PICK f : Picks(s, P, f, m)
    BY <1>2
  <2> DEFINE g == [n \in 0 .. m + 1 |-> IF n <= m THEN f[n]
                      ELSE IF m + 1 \in P THEN Append(f[m], s[m + 1]) ELSE f[m]]
  <2>2. \A n \in 0 .. m : g[n] = f[n]
    OBVIOUS
  <2>3. ASSUME NEW n \in 0 .. m + 1
        PROVE  g[n] = IF n = 0 THEN <<>>
                      ELSE IF n \in P THEN Append(g[n - 1], s[n]) ELSE g[n - 1]
    <3>1. \A i \in 0 .. m : f[i] = IF i = 0 THEN <<>>
                        ELSE IF i \in P THEN Append(f[i - 1], s[i]) ELSE f[i - 1]
      BY <2>1 DEF Picks
    <3>2. CASE n = m + 1
      <4>1. n # 0 /\ n - 1 = m /\ g[m] = f[m]
        BY <3>2, <2>2
      <4> QED BY <4>1, <3>2
    <3>3. CASE n # m + 1
      <4>1. n \in 0 .. m /\ g[n] = f[n]
        BY <3>3, <2>2
      <4>2. n # 0 => n - 1 \in 0 .. m /\ g[n - 1] = f[n - 1]
        BY <4>1, <2>2
      <4> HIDE DEF g
      <4> QED BY <3>1, <4>1, <4>2
    <3> QED BY <3>2, <3>3
  <2>4. Picks(s, P, g, m + 1)
    <3>1. g = [n \in 0 .. m + 1 |-> g[n]]
      OBVIOUS
    <3> HIDE DEF g
    <3> QED BY <2>3, <3>1 DEF Picks
  <2> HIDE DEF g
  <2> QED BY <2>4
<1> QED BY <1>1, <1>2, Induction

(* t holds the elements of s at the places Q, in their order: e[j] is the  *)
(* place the j-th of them had.                                             *)
Embeds(t, s, Q, e) ==
  /\ e \in [1 .. Len(t) -> Q]
  /\ \A j \in 1 .. Len(t) : t[j] = s[e[j]]
  /\ \A j, k \in 1 .. Len(t) : j < k => e[j] < e[k]
  /\ \A i \in Q : \E j \in 1 .. Len(t) : e[j] = i

EmbedsFirst(t, S, s, P, n) == t \in Seq(S) /\ \E e : Embeds(t, s, P \cap (1 .. n), e)

LEMMA PickedElements ==
  ASSUME NEW S, NEW s \in Seq(S), NEW P \in SUBSET DOMAIN s
  PROVE  Picked(s, P) \in Seq(S) /\ \E e : Embeds(Picked(s, P), s, P, e)
<1>1. Len(s) \in Nat /\ DOMAIN s = 1 .. Len(s) /\ \A i \in 1 .. Len(s) : s[i] \in S
  BY LenProperties, ElementOfSeq
<1> DEFINE first[n \in 0 .. Len(s)] ==
        IF n = 0 THEN <<>>
        ELSE IF n \in P THEN Append(first[n - 1], s[n]) ELSE first[n - 1]
<1>2. Picked(s, P) = first[Len(s)]
  BY DEF Picked
<1>3. Picks(s, P, first, Len(s))
  <2>1. \E f : Picks(s, P, f, Len(s))
    BY <1>1, PicksExists
  <2>2. \E f : f = [n \in 0 .. Len(s) |-> IF n = 0 THEN <<>>
                        ELSE IF n \in P THEN Append(f[n - 1], s[n]) ELSE f[n - 1]]
    BY <2>1 DEF Picks
  <2> QED BY <2>2 DEF Picks
<1> HIDE DEF first
<1>4. \A n \in 0 .. Len(s) : first[n] = IF n = 0 THEN <<>>
                        ELSE IF n \in P THEN Append(first[n - 1], s[n]) ELSE first[n - 1]
  BY <1>3 DEF Picks
<1> DEFINE G == {n \in Nat : n <= Len(s) => EmbedsFirst(first[n], S, s, P, n)}
<1>5. 0 \in G
  <2>1. first[0] = <<>>
    BY <1>1, <1>4
  <2> DEFINE e == [j \in 1 .. 0 |-> 0]
  <2>2. <<>> \in Seq(S) /\ Len(<<>>) = 0
    BY EmptySeq
  <2>3. e \in [1 .. 0 -> P \cap (1 .. 0)]
    OBVIOUS
  <2> HIDE DEF e
  <2>4. Embeds(<<>>, s, P \cap (1 .. 0), e)
    BY <2>2, <2>3 DEF Embeds
  <2>5. EmbedsFirst(first[0], S, s, P, 0)
    BY <2>1, <2>2, <2>4 DEF EmbedsFirst
  <2> QED BY <2>5
<1>6. ASSUME NEW n \in Nat, n \in G PROVE n + 1 \in G
  <2> SUFFICES ASSUME n + 1 <= Len(s)
               PROVE  EmbedsFirst(first[n + 1], S, s, P, n + 1)
    OBVIOUS
  <2> DEFINE t == first[n]
  <2>0. EmbedsFirst(t, S, s, P, n)
    BY <1>1, <1>6
  <2>1. t \in Seq(S) /\ \E e : Embeds(t, s, P \cap (1 .. n), e)
    BY <2>0 DEF EmbedsFirst
  <2>2. PICK e : Embeds(t, s, P \cap (1 .. n), e)
    BY <2>1
  <2>3. first[n + 1] = IF n + 1 \in P THEN Append(t, s[n + 1]) ELSE t
    <3>1. n + 1 \in 0 .. Len(s) /\ n + 1 # 0 /\ (n + 1) - 1 = n
      BY <1>1
    <3> QED BY <1>4, <3>1
  <2> HIDE DEF t
  <2>4. Len(t) \in Nat
    BY <2>1, LenProperties
  <2>5. CASE n + 1 \notin P
    <3>1. P \cap (1 .. n + 1) = P \cap (1 .. n)
      BY <2>5
    <3> QED BY <2>1, <2>2, <2>3, <2>5, <3>1 DEF EmbedsFirst
  <2>6. CASE n + 1 \in P
    <3> DEFINE u == Append(t, s[n + 1])
               d == [j \in 1 .. Len(t) + 1 |-> IF j = Len(t) + 1 THEN n + 1 ELSE e[j]]
    <3>1. /\ u \in Seq(S)
          /\ Len(u) = Len(t) + 1
          /\ \A j \in 1 .. Len(t) : u[j] = t[j]
          /\ u[Len(t) + 1] = s[n + 1]
      <4>1. s[n + 1] \in S
        BY <1>1
      <4> QED BY <2>1, <4>1, AppendProperties
    <3>2. d[Len(t) + 1] = n + 1 /\ \A j \in 1 .. Len(t) : d[j] = e[j]
      BY <2>4
    <3>3. \A j \in 1 .. Len(t) : e[j] \in P /\ e[j] \in 1 .. n
      BY <2>2 DEF Embeds
    <3>4. d \in [1 .. Len(t) + 1 -> P \cap (1 .. n + 1)]
      BY <2>4, <2>6, <3>3
    <3> HIDE DEF u, d
    <3>5. \A j \in 1 .. Len(u) : u[j] = s[d[j]]
      BY <2>2, <2>4, <3>1, <3>2 DEF Embeds
    <3>6. ASSUME NEW j \in 1 .. Len(u), NEW k \in 1 .. Len(u), j < k PROVE d[j] < d[k]
      <4>1. j \in 1 .. Len(t) /\ d[j] = e[j] /\ e[j] \in 1 .. n
        BY <2>4, <3>1, <3>2, <3>3, <3>6
      <4>2. CASE k = Len(t) + 1
        BY <3>2, <4>1, <4>2
      <4>3. CASE k # Len(t) + 1
        <5>1. k \in 1 .. Len(t)
          BY <2>4, <3>1, <4>3
        <5> QED BY <2>2, <3>2, <3>6, <4>1, <5>1 DEF Embeds
      <4> QED BY <4>2, <4>3
    <3>7. ASSUME NEW i \in P \cap (1 .. n + 1) PROVE \E j \in 1 .. Len(u) : d[j] = i
      <4>1. CASE i = n + 1
        BY <2>4, <3>1, <3>2, <4>1
      <4>2. CASE i # n + 1
        <5>1. i \in P \cap (1 .. n)
          BY <4>2
        <5>2. PICK j \in 1 .. Len(t) : e[j] = i
          BY <2>2, <5>1 DEF Embeds
        <5>3. j \in 1 .. Len(u) /\ d[j] = i
          BY <2>4, <3>1, <3>2, <5>2
        <5> QED BY <5>3
      <4> QED BY <4>1, <4>2
    <3>8. Embeds(u, s, P \cap (1 .. n + 1), d)
      BY <3>1, <3>4, <3>5, <3>6, <3>7 DEF Embeds
    <3>9. EmbedsFirst(u, S, s, P, n + 1)
      BY <3>1, <3>8 DEF EmbedsFirst
    <3> QED BY <2>3, <2>6, <3>9 DEF u
  <2> QED BY <2>5, <2>6
<1>7. Len(s) \in G
  <2> HIDE DEF G
  <2> QED BY <1>1, <1>5, <1>6, Induction
<1>8. EmbedsFirst(first[Len(s)], S, s, P, Len(s))
  BY <1>1, <1>7
<1>9. P \cap (1 .. Len(s)) = P
  BY <1>1
<1> QED BY <1>2, <1>8, <1>9 DEF EmbedsFirst


LEMMA PickedOnce ==
  ASSUME NEW S, NEW s \in Seq(S), NEW P \in SUBSET DOMAIN s,
         \A j, k \in 1 .. Len(s) : s[j] = s[k] => j = k
  PROVE  LET t == Picked(s, P) IN
         /\ t \in Seq(S)
         /\ \A j, k \in 1 .. Len(t) : t[j] = t[k] => j = k
         /\ \A j \in 1 .. Len(t) : \E i \in P : i \in 1 .. Len(s) /\ t[j] = s[i]
<1> DEFINE t == Picked(s, P)
<1>1. Len(s) \in Nat /\ DOMAIN s = 1 .. Len(s)
  BY LenProperties
<1>2. t \in Seq(S) /\ \E e : Embeds(t, s, P, e)
  BY PickedElements
<1>3. PICK e : Embeds(t, s, P, e)
  BY <1>2
<1> HIDE DEF t
<1>4. Len(t) \in Nat
  BY <1>2, LenProperties
<1>5. \A j \in 1 .. Len(t) : e[j] \in P /\ e[j] \in 1 .. Len(s) /\ t[j] = s[e[j]]
  BY <1>1, <1>3 DEF Embeds
<1>6. ASSUME NEW j \in 1 .. Len(t), NEW k \in 1 .. Len(t), t[j] = t[k] PROVE j = k
  <2>1. e[j] = e[k]
    BY <1>5, <1>6
  <2>2. ~(j < k) /\ ~(k < j)
    BY <1>3, <1>5, <2>1 DEF Embeds
  <2> QED BY <1>4, <2>2
<1> QED BY <1>2, <1>5, <1>6 DEF t

-----------------------------------------------------------------------------
(* What has arrived of a connection and what is in a buffer is of a        *)
(* script.                                                                 *)
Chunks == UNION {Range(Script[c]) : c \in Conns}
Arrivals == /\ world \in DOMAIN Worlds
            /\ sent \in [Conns -> Nat]
            /\ DOMAIN rx = Conns
            /\ \A c \in Conns : rx[c] \in Seq(Range(Script[c]))
            /\ DOMAIN buffers = Slots
            /\ \A i \in Slots : buffers[i] \in Seq(Chunks)

LEMMA Scripts ==
  ASSUME Arrivals, NEW c \in Conns
  PROVE  /\ Script[c] \in Seq(Range(Script[c]))
         /\ \A chunk \in Range(Script[c]) : chunk.kind \in {"draw", "tail"} => chunk.color \in Colors
BY SocketsAssumption, SlotServerAssumption DEF Arrivals, Script

LEMMA ArrivalsClients == ASSUME Arrivals, Clients PROVE Arrivals'
<1>1. PICK c \in Conns : Client(c)
  BY DEF Clients
<1>2. UNCHANGED <<world, buffers>> /\ Script' = Script /\ Chunks' = Chunks
  BY DEF Clients, loopVars, Script, Chunks
<1>3. CASE Connect(c) \/ ClientLeave(c)
  BY <1>2, <1>3 DEF Connect, ClientLeave, Ended, Arrivals
<1>4. CASE ClientSend(c)
  <2>1. sent[c] \in Nat /\ sent[c] < Len(Script[c]) /\ Script[c] \in Seq(Range(Script[c]))
    BY <1>4, Scripts DEF ClientSend, Arrivals
  <2>2. Len(Script[c]) \in Nat /\ sent[c] + 1 \in 1 .. Len(Script[c])
    BY <2>1, LenProperties
  <2>3. Script[c][sent[c] + 1] \in Range(Script[c])
    BY <2>1, <2>2, ElementOfSeq
  <2>4. Append(rx[c], Script[c][sent[c] + 1]) \in Seq(Range(Script[c]))
    BY <2>3, AppendProperties DEF Arrivals
  <2>5. rx' = [rx EXCEPT ![c] = Append(rx[c], Script[c][sent[c] + 1])] /\ sent' = [sent EXCEPT ![c] = sent[c] + 1]
    BY <1>4 DEF ClientSend
  <2>6. sent' \in [Conns -> Nat] /\ DOMAIN rx' = Conns
    BY <2>1, <2>5 DEF Arrivals
  <2>7. \A d \in Conns : rx'[d] \in Seq(Range(Script[d]))
    BY <2>4, <2>5 DEF Arrivals
  <2> QED BY <1>2, <2>6, <2>7 DEF Arrivals
<1> QED BY <1>1, <1>3, <1>4 DEF Client

LEMMA RoomForSome ==
  ASSUME NEW S, NEW s \in Seq(S), s # <<>>
  PROVE  /\ RoomFor(s) \in 1 .. Len(s)
         /\ \A k \in Fills(s) : RoomFor(s) <= k
<1>1. Len(s) \in Nat /\ Len(s) # 0 /\ DOMAIN s = 1 .. Len(s)
  BY LenProperties, EmptySeq
<1>2. CASE Fills(s) # {}
  <2>1. Fills(s) \in SUBSET Nat /\ Fills(s) \subseteq 1 .. Len(s)
    BY <1>1 DEF Fills
  <2>2. \E k \in Fills(s) : \A j \in Fills(s) : k <= j
    BY <1>2, <2>1, Minimum
  <2>3. RoomFor(s) \in Fills(s) /\ \A j \in Fills(s) : RoomFor(s) <= j
    BY <1>2, <2>2 DEF RoomFor
  <2> QED BY <2>1, <2>3
<1> QED BY <1>1, <1>2 DEF RoomFor

(* recv appends to the buffer b what it has room for, n, of what has       *)
(* arrived, s, for the client c that is served.                            *)
Read(c, n, s, b) ==
  /\ c = ConnOf(cur) /\ n = RoomFor(rx[c]) /\ s = rx[c] /\ b = buffers[cur]
  /\ c \in Conns /\ cur \in Slots /\ cur \in Active
  /\ s \in Seq(Range(Script[c])) /\ s # <<>> /\ n \in 1 .. Len(s) /\ Len(s) \in Nat
  /\ DOMAIN rx' = Conns /\ \A d \in Conns \ {c} : rx'[d] = rx[d]
  /\ rx'[c] \in Seq(Range(Script[c])) /\ Len(rx'[c]) = Len(s) - n
  /\ \A k \in 1 .. Len(s) - n : rx'[c][k] = s[n + k]
  /\ Len(b) \in Nat
  /\ DOMAIN buffers' = Slots /\ \A i \in Slots \ {cur} : buffers'[i] = buffers[i]
  /\ buffers'[cur] \in Seq(Chunks) /\ Len(buffers'[cur]) = Len(b) + n
  /\ \A k \in 1 .. Len(b) : buffers'[cur][k] = b[k]
  /\ \A k \in 1 .. n : buffers'[cur][Len(b) + k] = s[k]

LEMMA DataRead ==
  ASSUME IInv, AcceptedOnce, Arrivals, Recv, Received = "data"
  PROVE  \E c, n, s, b : Read(c, n, s, b)
<1> PICK c, n, s, b : c = ConnOf(cur) /\ n = RoomFor(rx[c]) /\ s = rx[c] /\ b = buffers[cur]
  OBVIOUS
<1> DEFINE x == SubSeq(s, 1, n)
           y == SubSeq(s, n + 1, Len(s))
<1>1. /\ pc = "recv" /\ cur \in Slots /\ slots[cur].fd \in Fds
      /\ slots[cur].active \/ fds[slots[cur].fd] \notin Conns
  BY CurrentSlot DEF Recv, Handling
<1>2. buffers' = [buffers EXCEPT ![cur] = b \o x] /\ rx' = [rx EXCEPT ![c] = y]
  BY DEF Recv
<1>3. c \in Conns /\ s # <<>> /\ cur \in Active
  <2>1. RecvResult(slots[cur].fd) = "data"
    BY DEF Received
  <2>2. c \in Conns
    BY <2>1 DEF RecvResult, ConnOf
  <2>3. peer[c] \in {"up", "fin", "rst", "finrst"}
    BY <1>1, <2>2 DEF AcceptedOnce, ConnOf
  <2>4. s # <<>>
    BY <2>1, <2>2, <2>3 DEF RecvResult, ConnOf
  <2> QED BY <1>1, <2>2, <2>4 DEF ConnOf, Active
<1>4. s \in Seq(Range(Script[c])) /\ b \in Seq(Chunks) /\ Range(Script[c]) \subseteq Chunks
  BY <1>1, <1>3 DEF Arrivals, Chunks
<1>5. Len(s) \in Nat /\ Len(b) \in Nat /\ n \in 1 .. Len(s) /\ s \in Seq(Chunks)
  <2>1. Len(s) \in Nat /\ Len(b) \in Nat /\ n \in 1 .. Len(s)
    BY <1>3, <1>4, LenProperties, RoomForSome
  <2>2. s \in Seq(Chunks)
    BY <1>4
  <2> QED BY <2>1, <2>2
<1>6. x \in Seq(Chunks) /\ Len(x) = n /\ \A k \in 1 .. n : x[k] = s[k]
  BY <1>5, SubSeqProperties
<1>7. y \in Seq(Range(Script[c])) /\ Len(y) = Len(s) - n /\ \A k \in 1 .. Len(s) - n : y[k] = s[n + k]
  BY <1>4, <1>5, SubSeqProperties
<1> HIDE DEF x, y
<1>8. /\ b \o x \in Seq(Chunks) /\ Len(b \o x) = Len(b) + Len(x)
      /\ \A k \in 1 .. Len(b) + Len(x) : (b \o x)[k] = IF k <= Len(b) THEN b[k] ELSE x[k - Len(b)]
  <2>1. b \in Seq(Chunks) /\ x \in Seq(Chunks)
    BY <1>4, <1>6
  <2> QED BY <2>1, ConcatProperties
<1>9. \A k \in 1 .. Len(b) : (b \o x)[k] = b[k]
  BY <1>5, <1>6, <1>8
<1>10. \A k \in 1 .. n : (b \o x)[Len(b) + k] = s[k]
  <2> SUFFICES ASSUME NEW k \in 1 .. n PROVE (b \o x)[Len(b) + k] = s[k]
    OBVIOUS
  <2>1. Len(b) + k \in 1 .. Len(b) + Len(x) /\ ~(Len(b) + k <= Len(b)) /\ (Len(b) + k) - Len(b) = k
    BY <1>5, <1>6
  <2> QED BY <1>6, <1>8, <2>1
<1>11. /\ DOMAIN rx' = Conns /\ (\A d \in Conns \ {c} : rx'[d] = rx[d]) /\ rx'[c] = y
       /\ DOMAIN buffers' = Slots /\ (\A i \in Slots \ {cur} : buffers'[i] = buffers[i])
       /\ buffers'[cur] = b \o x
  BY <1>1, <1>2, <1>3 DEF Arrivals
<1>12. /\ cur \in Slots /\ cur \in Active /\ c \in Conns /\ s # <<>> /\ n \in 1 .. Len(s)
       /\ s \in Seq(Range(Script[c])) /\ Len(s) \in Nat /\ Len(b) \in Nat
  BY <1>1, <1>3, <1>4, <1>5
<1>13. /\ rx'[c] \in Seq(Range(Script[c])) /\ Len(rx'[c]) = Len(s) - n
       /\ \A k \in 1 .. Len(s) - n : rx'[c][k] = s[n + k]
  BY <1>7, <1>11
<1>14. /\ buffers'[cur] \in Seq(Chunks) /\ Len(buffers'[cur]) = Len(b) + n
       /\ \A k \in 1 .. Len(b) : buffers'[cur][k] = b[k]
       /\ \A k \in 1 .. n : buffers'[cur][Len(b) + k] = s[k]
  BY <1>6, <1>8, <1>9, <1>10, <1>11
<1>15. c = ConnOf(cur) /\ n = RoomFor(rx[c]) /\ s = rx[c] /\ b = buffers[cur]
  OBVIOUS
<1>16. Read(c, n, s, b)
  BY <1>11, <1>12, <1>13, <1>14, <1>15 DEF Read
<1> QED BY <1>16

(* The first frame is taken out of the buffer.                             *)
LEMMA FrameTaken ==
  ASSUME IInv, Arrivals, ProcessFrame, NEW b, b = buffers[cur], NEW m, m = Segments(b)
  PROVE  /\ cur \in Slots /\ b \in Seq(Chunks) /\ Len(b) \in Nat /\ DOMAIN b = 1 .. Len(b)
         /\ m \in 1 .. Len(b) /\ m \in {1, 2} /\ (m = 2 => b[1].kind = "head")
         /\ FirstFrame(b) = b[m] /\ b[m] \in Chunks
         /\ DOMAIN buffers' = Slots /\ \A i \in Slots \ {cur} : buffers'[i] = buffers[i]
         /\ buffers'[cur] \in Seq(Chunks) /\ Len(buffers'[cur]) = Len(b) - m
         /\ \A k \in 1 .. Len(b) - m : buffers'[cur][k] = b[m + k]
<1>1. /\ pc = "frames" /\ WholeFrame(b) /\ buffers' = [buffers EXCEPT ![cur] = Leftover(b)]
      /\ cur \in Slots
  BY CurrentSlot DEF ProcessFrame, Handling
<1>2. b \in Seq(Chunks) /\ Len(b) \in Nat /\ DOMAIN b = 1 .. Len(b)
  BY <1>1, LenProperties DEF Arrivals
<1>3. b # <<>> /\ m <= Len(b) /\ m \in {1, 2} /\ (m = 2 => Head(b).kind = "head")
  BY <1>1 DEF WholeFrame, Segments
<1>4. Head(b) = b[1] /\ m \in 1 .. Len(b)
  BY <1>2, <1>3, HeadTailProperties
<1>5. FirstFrame(b) = b[m] /\ b[m] \in Chunks
  BY <1>2, <1>4, ElementOfSeq DEF FirstFrame
<1> DEFINE y == SubSeq(b, m + 1, Len(b))
<1>6. y \in Seq(Chunks) /\ Len(y) = Len(b) - m /\ \A k \in 1 .. Len(b) - m : y[k] = b[m + k]
  BY <1>2, <1>4, SubSeqProperties
<1>7. Leftover(b) = y
  BY DEF Leftover
<1> HIDE DEF y
<1>8. DOMAIN buffers' = Slots /\ (\A i \in Slots \ {cur} : buffers'[i] = buffers[i]) /\ buffers'[cur] = y
  BY <1>1, <1>7 DEF Arrivals
<1> QED BY <1>1, <1>2, <1>3, <1>4, <1>5, <1>6, <1>8

LEMMA ArrivalsSteps == ASSUME IInv, AcceptedOnce, Arrivals, Steps, UNCHANGED world PROVE Arrivals'
<1>1. Script' = Script /\ Chunks' = Chunks
  BY DEF Script, Chunks
<1>2. CASE UNCHANGED <<rx, sent, buffers>>
  BY <1>1, <1>2 DEF Arrivals
<1>3. CASE Handshake
  <2>1. \A d \in Conns : rx'[d] = rx[d] \/ rx'[d] = <<>>
    BY <1>3 DEF Handshake, Arrivals
  <2>2. DOMAIN rx' = Conns /\ UNCHANGED <<sent, buffers>>
    BY <1>3 DEF Handshake, Arrivals
  <2> QED BY <1>1, <2>1, <2>2, EmptySeq DEF Arrivals
<1>4. CASE Recv /\ Received = "data"
  <2>0. PICK c, n, s, b : Read(c, n, s, b)
    BY <1>4, DataRead
  <2>1. /\ c \in Conns
        /\ DOMAIN rx' = Conns /\ \A d \in Conns \ {c} : rx'[d] = rx[d]
        /\ rx'[c] \in Seq(Range(Script[c])) /\ DOMAIN buffers' = Slots
        /\ \A i \in Slots \ {cur} : buffers'[i] = buffers[i]
        /\ buffers'[cur] \in Seq(Chunks)
    BY <2>0 DEF Read
  <2>2. UNCHANGED sent
    BY <1>4 DEF Recv
  <2> QED BY <1>1, <2>1, <2>2 DEF Arrivals
<1>5. CASE Recv /\ Received # "data"
  BY <1>2, <1>5 DEF Recv
<1>6. CASE ProcessFrame
  <2>1. /\ DOMAIN buffers' = Slots /\ (\A i \in Slots \ {cur} : buffers'[i] = buffers[i])
        /\ buffers'[cur] \in Seq(Chunks)
    BY <1>6, FrameTaken
  <2>2. UNCHANGED <<rx, sent>>
    BY <1>6 DEF ProcessFrame
  <2> QED BY <1>1, <2>1, <2>2 DEF Arrivals
<1>7. CASE Accept
  <2>1. DOMAIN buffers' = Slots /\ \A i \in Slots : buffers'[i] = buffers[i] \/ buffers'[i] = <<>>
    BY <1>7 DEF Accept, Arrivals
  <2>2. UNCHANGED <<rx, sent>>
    BY <1>7 DEF Accept
  <2> QED BY <1>1, <2>1, <2>2, EmptySeq DEF Arrivals
<1>8. CASE EpollWait \/ NextEvent \/ Dispatch \/ AcceptEnds
  BY <1>2, <1>8 DEF EpollWait, NextEvent, Dispatch, AcceptEnds, netVars
<1>9. CASE Initial \/ FramesEnd \/ Hangup \/ Send \/ SendEnds
  BY <1>2, <1>9 DEF Initial, FramesEnd, Hangup, Send, SendEnds, netVars
<1> QED BY <1>3, <1>4, <1>5, <1>6, <1>7, <1>8, <1>9 DEF Steps

(* What a page draws is a color, in a cell of the canvas.                  *)
LEMMA DrawingStep ==
  ASSUME IInv, AcceptedOnce, Arrivals, Steps
  PROVE  \/ UNCHANGED canvas
         \/ \E at \in 1 .. Cells, color \in Colors : canvas' = [canvas EXCEPT ![at] = color]
<1>1. CASE ProcessFrame
  <2> DEFINE frame == FirstFrame(buffers[cur])
  <2>1. CASE UNCHANGED canvas
    BY <2>1
  <2>2. CASE /\ frame.kind \in {"draw", "tail"} /\ InRange(frame)
             /\ canvas' = [canvas EXCEPT ![frame.at] = frame.color]
    <3>1. frame \in Chunks
      BY <1>1, FrameTaken
    <3> HIDE DEF frame
    <3>2. frame.color \in Colors
      BY <2>2, <3>1, Scripts DEF Chunks
    <3> QED BY <2>2, <3>2 DEF InRange
  <2> QED BY <1>1, <2>1, <2>2 DEF ProcessFrame
<1>2. CASE EpollWait \/ NextEvent \/ Dispatch \/ AcceptEnds \/ Accept
  BY <1>2 DEF EpollWait, NextEvent, Dispatch, AcceptEnds, Accept, drawVars
<1>3. CASE Handshake \/ Initial \/ Recv \/ FramesEnd \/ Hangup \/ Send \/ SendEnds
  BY <1>3 DEF Handshake, Initial, Recv, FramesEnd, Hangup, Send, SendEnds, drawVars
<1> QED BY <1>1, <1>2, <1>3 DEF Steps

-----------------------------------------------------------------------------
(***************************************************************************)
(* Worlds in which no descriptor is closed twice.                          *)
(***************************************************************************)
(* The ready list r is one of the sockets of the descriptors F.            *)
Listed(r, F) == /\ r \in Seq(Conns \cup {Listener})
                /\ \A j, k \in 1 .. Len(r) : r[j] = r[k] => j = k
                /\ \A k \in 1 .. Len(r) : r[k] # Listener => \E f \in Fds : F[f] = r[k]

(* Nobody's connection was reset.                                          *)
Live == \A c \in Conns : Registered(c) \/ Contains(backlog, c) => peer[c] \in {"up", "fin"}

Events == [fd : Fds \cup {0}, in : BOOLEAN, hup : {FALSE}]

(* Each event left is that of an active slot.                              *)
Expected == /\ batch \in Seq(Events)
            /\ pc \in Handling \cup {"dispatch", "accept", "next"} => batch # <<>>
            /\ \A j, k \in 1 .. Len(batch) : batch[j].fd = batch[k].fd => j = k
            /\ \A k \in 1 .. Len(batch) : batch[k].fd # 0 /\ (k > 1 \/ pc = "dispatch") =>
                                            \E i \in Active : slots[i].fd = batch[k].fd

InHand == /\ pc \in Handling => slots[cur].fd = Head(batch).fd
          /\ pc \in Handling \ {"hangup"} => cur \in Active

Gentle == ClosedOnce /\ Listed(ready, fds) /\ Live /\ Expected /\ InHand

(* The number of the stream stays its.                                     *)
StreamLeft == \A f \in Fds : fds[f] = TmpFile => fds'[f] = TmpFile

LEMMA OnceAlways == ASSUME ClosedOnce, UNCHANGED world PROVE ClosedOnce'
BY DEF ClosedOnce, Aborting, Slow, Script

LEMMA InitGentle == ASSUME SlotInit, ClosedOnce PROVE Gentle
<1>1. /\ ready = <<>> /\ batch = <<>> /\ backlog = <<>> /\ pc = "wait"
      /\ fds = [f \in Fds |-> Closed]
  BY DEF SlotInit, setup_server, NetInit
<1>2. Listed(ready, fds)
  BY <1>1, EmptySeq DEF Listed
<1>3. Live
  BY <1>1, Names, EmptySeq DEF Live, Registered, Contains
<1>4. Expected
  BY <1>1, EmptySeq DEF Expected, Handling
<1> QED BY <1>1, <1>2, <1>3, <1>4 DEF Gentle, InHand, Handling

(* Arrivals and closing keep the list.                                     *)
LEMMA NotifiedListed ==
  ASSUME NEW r, NEW F, Listed(r, F), NEW s \in Conns \cup {Listener},
         s # Listener => \E f \in Fds : F[f] = s
  PROVE  Listed(IF Contains(r, s) THEN r ELSE Append(r, s), F)
<1> SUFFICES ASSUME ~Contains(r, s) PROVE Listed(Append(r, s), F)
  OBVIOUS
<1>1. r \in Seq(Conns \cup {Listener}) /\ Len(r) \in Nat /\ \A k \in 1 .. Len(r) : r[k] # s
  BY LenProperties DEF Listed, Contains
<1>2. /\ Append(r, s) \in Seq(Conns \cup {Listener}) /\ Len(Append(r, s)) = Len(r) + 1
      /\ \A k \in 1 .. Len(r) : Append(r, s)[k] = r[k]
      /\ Append(r, s)[Len(r) + 1] = s
  BY <1>1, AppendProperties
<1>3. \A k \in 1 .. Len(r) + 1 : k \in 1 .. Len(r) \/ k = Len(r) + 1
  BY <1>1
<1>4. \A j, k \in 1 .. Len(r) + 1 : Append(r, s)[j] = Append(r, s)[k] => j = k
  BY <1>1, <1>2, <1>3 DEF Listed
<1>5. \A k \in 1 .. Len(r) + 1 : Append(r, s)[k] # Listener => \E f \in Fds : F[f] = Append(r, s)[k]
  BY <1>2, <1>3 DEF Listed
<1> QED BY <1>2, <1>4, <1>5 DEF Listed

LEMMA CloseListed ==
  ASSUME IInv, AcceptedOnce, Listed(ready, fds), NEW f \in Fds, CloseFd(f)
  PROVE  Listed(ready', fds')
<1>1. DOMAIN fds' = Fds /\ fds'[f] = Closed /\ \A g \in Fds \ {f} : fds'[g] = fds[g]
  BY DEF CloseFd, IInv, Shapes
<1>2. CASE fds[f] \notin Conns
  <2>1. ready' = ready
    BY <1>2 DEF CloseFd
  <2>2. ASSUME NEW k \in 1 .. Len(ready), ready[k] # Listener PROVE \E g \in Fds : fds'[g] = ready[k]
    <3>1. PICK g \in Fds : fds[g] = ready[k]
      BY <2>2 DEF Listed
    <3>2. ready[k] \in Conns
      BY <2>2, ElementOfSeq DEF Listed
    <3> QED BY <1>1, <1>2, <3>1, <3>2
  <2> QED BY <2>1, <2>2 DEF Listed
<1>3. CASE fds[f] \in Conns
  <2> DEFINE P == {k \in DOMAIN ready : ready[k] # fds[f]}
  <2>1. ready' = Picked(ready, P) /\ P \in SUBSET DOMAIN ready
    BY <1>3 DEF CloseFd, Without
  <2> HIDE DEF P
  <2>2. /\ ready' \in Seq(Conns \cup {Listener})
        /\ \A j, k \in 1 .. Len(ready') : ready'[j] = ready'[k] => j = k
        /\ \A j \in 1 .. Len(ready') : \E i \in P : i \in 1 .. Len(ready) /\ ready'[j] = ready[i]
    BY <2>1, PickedOnce DEF Listed
  <2>3. ASSUME NEW k \in 1 .. Len(ready'), ready'[k] # Listener PROVE \E g \in Fds : fds'[g] = ready'[k]
    <3>1. PICK i \in P : i \in 1 .. Len(ready) /\ ready'[k] = ready[i]
      BY <2>2
    <3>2. ready[i] # fds[f]
      BY DEF P
    <3>3. PICK g \in Fds : fds[g] = ready[i]
      BY <2>3, <3>1 DEF Listed
    <3> QED BY <1>1, <3>1, <3>2, <3>3
  <2> QED BY <2>2, <2>3 DEF Listed
<1> QED BY <1>2, <1>3

(* Registered connections are those of before, or fewer.                   *)
LEMMA LiveKept ==
  ASSUME Live, UNCHANGED <<peer, backlog>>, \A c \in Conns : Registered(c)' => Registered(c)
  PROVE  Live'
BY DEF Live

(* A socket that is sent something takes it.                               *)
LEMMA SendAll ==
  ASSUME IInv, AcceptedOnce, Gentle, NEW i \in Active
  PROVE  SendResults(slots[i].fd) = {"all"}
<1>1. slots[i].fd \in Fds /\ fds[slots[i].fd] \in Conns
  BY DEF IInv, Shapes, TableMatchesSockets, Active, ConnOf
<1>2. peer[fds[slots[i].fd]] \in {"up", "fin"}
  BY <1>1 DEF Gentle, Live, Registered
<1>3. Slow = {}
  BY DEF Gentle, ClosedOnce
<1> QED BY <1>1, <1>2, <1>3, SocketsAssumption DEF SendResults

LEMMA NoHup == ASSUME Gentle, batch # <<>> PROVE Head(batch) \in Events /\ ~Head(batch).hup
<1>1. Head(batch) \in Events
  BY HeadTailProperties DEF Gentle, Expected
<1> QED BY <1>1 DEF Events

-----------------------------------------------------------------------------
(* Steps that leave the table, the sockets and the events alone.           *)
LEMMA StayGentle ==
  ASSUME IInv, Gentle, SameTable, UNCHANGED <<world, fds, ready, peer, backlog, batch>>,
         pc' \in Handling \cup {"dispatch", "accept", "next"} => pc \in Handling \cup {"dispatch", "accept", "next"},
         pc' # "dispatch",
         pc' \in Handling => pc \in Handling /\ cur' = cur,
         pc' \in Handling \ {"hangup"} => pc \in Handling \ {"hangup"}
  PROVE  Gentle' /\ StreamLeft
<1>1. Listed(ready, fds)' /\ Live'
  BY DEF Gentle, Listed, Live, Registered
<1>2. Active' = Active /\ \A i \in Slots : slots'[i].fd = slots[i].fd
  BY DEF SameTable, Active
<1>3. Expected'
  <2>1. \A i \in Active : slots'[i].fd = slots[i].fd
    BY <1>2 DEF Active
  <2> QED BY <1>2, <2>1 DEF Gentle, Expected
<1>4. InHand'
  BY <1>2 DEF Gentle, InHand, IInv, CurrentOwns
<1> QED BY <1>1, <1>3, <1>4, OnceAlways DEF Gentle, StreamLeft

(* The client in hand is dropped.                                          *)
LEMMA DropGentle ==
  ASSUME IInv, AcceptedOnce, Gentle, pc \in Handling, cur \in Active, Drop(cur), pc' = "hangup",
         UNCHANGED <<world, peer, backlog, batch, cur>>
  PROVE  Gentle' /\ StreamLeft
<1>1. cur \in Slots /\ slots[cur].fd \in Fds /\ fds[slots[cur].fd] \in Conns /\ CloseFd(slots[cur].fd)
  BY DEF IInv, Shapes, TableMatchesSockets, Active, ConnOf, Drop
<1> DEFINE f == slots[cur].fd
<1>2. \A g \in Fds : fds'[g] = IF g = f THEN Closed ELSE fds[g]
  BY <1>1 DEF CloseFd, IInv, Shapes
<1>3. StreamLeft
  BY <1>1, <1>2, SocketsAssumption DEF StreamLeft
<1>4. Listed(ready, fds)'
  BY <1>1, CloseListed DEF Gentle
<1>5. Live'
  <2>1. \A c \in Conns : Registered(c)' => Registered(c)
    BY <1>2, Names DEF Registered
  <2> QED BY <2>1, LiveKept DEF Gentle
<1>6. /\ Active' = Active \ {cur} /\ slots'[cur].fd = f
      /\ \A i \in Slots \ {cur} : slots'[i] = slots[i]
  BY <1>1 DEF Drop, Active, IInv, Shapes
<1>7. Expected'
  <2>1. Len(batch) \in Nat /\ Len(batch) >= 1 /\ batch[1].fd = f
    BY LenProperties, EmptySeq DEF Gentle, Expected, InHand
  <2>2. ASSUME NEW k \in 1 .. Len(batch), batch[k].fd # 0, k > 1
        PROVE  \E i \in Active' : slots'[i].fd = batch[k].fd
    <3>1. PICK i \in Active : slots[i].fd = batch[k].fd
      BY <2>2 DEF Gentle, Expected
    <3>2. batch[k].fd # batch[1].fd
      BY <2>1, <2>2 DEF Gentle, Expected
    <3> QED BY <1>6, <2>1, <3>1, <3>2 DEF Active
  <2> QED BY <2>2 DEF Gentle, Expected
<1>8. InHand'
  BY <1>6 DEF Gentle, InHand
<1> QED BY <1>3, <1>4, <1>5, <1>7, <1>8, OnceAlways DEF Gentle

LEMMA WaitGentle == ASSUME IInv, AcceptedOnce, Gentle, EpollWait, UNCHANGED world PROVE Gentle' /\ StreamLeft
<1>1. UNCHANGED <<fds, peer, backlog, slots, cur>> /\ ready' = Relisted /\ pc = "wait"
  BY DEF EpollWait
<1>2. Listed(ready', fds') /\ Live' /\ StreamLeft
  <2>1. Relisted = <<>> \/ Relisted = <<Listener>>
    BY DEF Relisted
  <2>2. Listed(<<>>, fds)
    BY EmptySeq DEF Listed
  <2>3. Listed(<<Listener>>, fds)
    <3>1. <<Listener>> \in Seq(Conns \cup {Listener}) /\ Len(<<Listener>>) = 1 /\ <<Listener>>[1] = Listener
      OBVIOUS
    <3> QED BY <3>1 DEF Listed
  <2>4. Live'
    BY <1>1 DEF Gentle, Live, Registered
  <2> QED BY <1>1, <2>1, <2>2, <2>3, <2>4 DEF StreamLeft
<1>3. Active' = Active
  BY <1>1 DEF Active
<1>4. CASE UNCHANGED <<batch, pc>>
  <2>1. Expected' /\ InHand'
    BY <1>1, <1>3, <1>4 DEF Gentle, Expected, InHand, Handling
  <2> QED BY <1>2, <2>1, OnceAlways DEF Gentle
<1>5. CASE /\ Reported # <<>>
           /\ batch' = [k \in DOMAIN Reported |-> Event(Reported[k])]
           /\ GoTo("dispatch")
  <2> DEFINE P == {k \in DOMAIN ready : Reportable(ready[k])}
             t == Reported
  <2>1. t = Picked(ready, P) /\ P \in SUBSET DOMAIN ready
    BY DEF Reported
  <2> HIDE DEF P, t
  <2>2. /\ t \in Seq(Conns \cup {Listener})
        /\ \A j, k \in 1 .. Len(t) : t[j] = t[k] => j = k
        /\ \A j \in 1 .. Len(t) : \E i \in P : i \in 1 .. Len(ready) /\ t[j] = ready[i]
    BY <2>1, PickedOnce DEF Gentle, Listed
  <2>3. Len(t) \in Nat /\ DOMAIN t = 1 .. Len(t) /\ t # <<>>
    BY <1>5, <2>2, LenProperties DEF t
  <2>4. ASSUME NEW k \in 1 .. Len(t), t[k] # Listener
        PROVE  /\ t[k] \in Conns /\ \E f \in Fds : fds[f] = t[k] /\ Event(t[k]).fd = f
               /\ ~Hup(t[k])
    <3>1. t[k] \in Conns
      BY <2>2, <2>4, ElementOfSeq
    <3>2. \E f \in Fds : fds[f] = t[k]
      BY <2>2, <2>4 DEF Gentle, Listed
    <3>3. Event(t[k]).fd = CHOOSE f \in Fds : fds[f] = t[k]
      BY <2>4 DEF Event
    <3>4. Event(t[k]).fd \in Fds /\ fds[Event(t[k]).fd] = t[k]
      BY <3>2, <3>3
    <3>5. peer[t[k]] \in {"up", "fin"}
      BY <3>1, <3>2 DEF Gentle, Live, Registered
    <3> QED BY <3>1, <3>4, <3>5 DEF Hup
  <2>5. \A k \in 1 .. Len(t) : t[k] = Listener => Event(t[k]).fd = 0
    BY DEF Event
  <2>6. \A k \in 1 .. Len(t) : Event(t[k]) \in Events
    <3> SUFFICES ASSUME NEW k \in 1 .. Len(t) PROVE Event(t[k]) \in Events
      OBVIOUS
    <3>1. Event(t[k]).fd \in Fds \cup {0}
      BY <2>4, <2>5
    <3>2. (t[k] # Listener /\ Hup(t[k])) = FALSE
      BY <2>4
    <3>3. (t[k] = Listener \/ CanRead(t[k])) \in BOOLEAN
      BY DEF CanRead
    <3> QED BY <3>1, <3>2, <3>3 DEF Event, Events
  <2>7. batch' = [k \in 1 .. Len(t) |-> Event(t[k])]
    BY <1>5, <2>3 DEF t
  <2>8. batch' \in Seq(Events) /\ Len(batch') = Len(t) /\ batch' # <<>>
    <3>1. batch' \in [1 .. Len(t) -> Events]
      BY <2>6, <2>7
    <3>2. batch' \in Seq(Events) /\ Len(batch') = Len(t)
      BY <2>3, <3>1, SeqDef, LenProperties
    <3>3. Len(t) # 0
      BY <2>2, <2>3, EmptySeq
    <3> QED BY <3>2, <3>3
  <2>9. ASSUME NEW j \in 1 .. Len(t), NEW k \in 1 .. Len(t), batch'[j].fd = batch'[k].fd PROVE j = k
    <3>1. Event(t[j]).fd = Event(t[k]).fd
      BY <2>7, <2>9
    <3>2. t[j] = t[k]
      BY <2>4, <2>5, <3>1, Names, SocketsAssumption
    <3> QED BY <2>2, <3>2
  <2>10. ASSUME NEW k \in 1 .. Len(t), batch'[k].fd # 0 PROVE \E i \in Active : slots[i].fd = batch'[k].fd
    <3>1. t[k] # Listener /\ batch'[k].fd = Event(t[k]).fd
      BY <2>5, <2>7, <2>10
    <3>2. batch'[k].fd \in Fds /\ fds[batch'[k].fd] \in Conns
      BY <2>4, <3>1
    <3> QED BY <3>2 DEF IInv, TableMatchesSockets
  <2>11. Expected'
    BY <1>1, <1>3, <2>8, <2>9, <2>10 DEF Expected
  <2>12. InHand'
    BY <1>5 DEF GoTo, InHand, Handling
  <2> QED BY <1>2, <2>11, <2>12, OnceAlways DEF Gentle
<1> QED BY <1>4, <1>5 DEF EpollWait

LEMMA NextGentle == ASSUME IInv, Gentle, NextEvent, UNCHANGED world PROVE Gentle' /\ StreamLeft
<1>1. UNCHANGED <<netVars, slots, cur>> /\ pc = "next" /\ batch' = Tail(batch) /\ batch # <<>>
  BY DEF NextEvent, Gentle, Expected
<1>2. /\ batch \in Seq(Events) /\ Len(batch) \in Nat /\ Len(batch) >= 1
      /\ Tail(batch) \in Seq(Events) /\ Len(Tail(batch)) = Len(batch) - 1
      /\ \A k \in 1 .. Len(Tail(batch)) : Tail(batch)[k] = batch[k + 1] /\ k + 1 \in 1 .. Len(batch) /\ k + 1 > 1
  BY <1>1, HeadTailProperties, LenProperties, EmptySeq DEF Gentle, Expected
<1>3. Listed(ready, fds)' /\ Live' /\ StreamLeft
  BY <1>1 DEF Gentle, Listed, Live, Registered, StreamLeft, netVars
<1>4. pc' = IF Len(batch) = 1 THEN "wait" ELSE "dispatch"
  BY DEF NextEvent, GoTo
<1>5. Expected'
  <2>1. Active' = Active
    BY <1>1 DEF Active
  <2>2. pc' \in Handling \cup {"dispatch", "accept", "next"} => batch' # <<>>
    <3>1. SUFFICES ASSUME Len(batch) # 1 PROVE Tail(batch) # <<>>
      BY <1>1, <1>4 DEF Handling
    <3>2. Len(Tail(batch)) # 0
      BY <1>2, <3>1
    <3> QED BY <3>2
  <2>3. \A j, k \in 1 .. Len(Tail(batch)) : Tail(batch)[j].fd = Tail(batch)[k].fd => j = k
    <3> SUFFICES ASSUME NEW j \in 1 .. Len(Tail(batch)), NEW k \in 1 .. Len(Tail(batch)),
                        Tail(batch)[j].fd = Tail(batch)[k].fd
                 PROVE  j = k
      OBVIOUS
    <3>1. j + 1 = k + 1
      BY <1>2 DEF Gentle, Expected
    <3> QED BY <1>2, <3>1
  <2>4. \A k \in 1 .. Len(Tail(batch)) : Tail(batch)[k].fd # 0 => \E i \in Active : slots[i].fd = Tail(batch)[k].fd
    BY <1>2 DEF Gentle, Expected
  <2> QED BY <1>1, <1>2, <2>1, <2>2, <2>3, <2>4 DEF Expected
<1>6. InHand'
  BY <1>4 DEF InHand, Handling
<1> QED BY <1>3, <1>5, <1>6, OnceAlways DEF Gentle

LEMMA DispatchGentle == ASSUME IInv, Gentle, Dispatch, UNCHANGED world PROVE Gentle' /\ StreamLeft
<1> DEFINE f == Head(batch).fd
<1>1. pc = "dispatch" /\ batch # <<>> /\ UNCHANGED <<slots, batch, peer, backlog>>
  BY DEF Dispatch, Gentle, Expected
<1>2. Len(batch) \in Nat /\ Len(batch) >= 1 /\ Head(batch) = batch[1]
  BY <1>1, LenProperties, EmptySeq, HeadTailProperties DEF Gentle, Expected
<1>3. f # 0 => Matching(f) # {}
  BY <1>1, <1>2 DEF Gentle, Expected, Matching
<1>4. UNCHANGED <<fds, ready>>
  BY <1>3 DEF Dispatch
<1>5. Listed(ready, fds)' /\ Live' /\ StreamLeft
  BY <1>1, <1>4 DEF Gentle, Listed, Live, Registered, StreamLeft
<1>6. Active' = Active /\ pc' # "dispatch"
  BY <1>1, <1>3 DEF Dispatch, Active, GoTo
<1>7. Expected'
  BY <1>1, <1>6 DEF Gentle, Expected
<1>8. InHand'
  <2>1. CASE pc' = "accept"
    BY <2>1 DEF InHand, Handling
  <2>2. CASE f # 0 /\ cur' = Least(Matching(f))
    <3>1. cur' \in Matching(f)
      BY <1>3, <2>2, LeastIn DEF Matching, Active
    <3> QED BY <1>1, <1>6, <3>1 DEF InHand, Matching
  <2> QED BY <1>3, <2>1, <2>2 DEF Dispatch, GoTo
<1> QED BY <1>5, <1>7, <1>8, OnceAlways DEF Gentle

LEMMA AcceptGentle ==
  ASSUME IInv, AcceptedOnce, Gentle, Accept, UNCHANGED world
  PROVE  Gentle' /\ StreamLeft
<1> DEFINE c == Head(backlog)
           i == Least(Unused)
<1>1. /\ pc = "accept" /\ UNCHANGED <<pc, peer, batch, cur>> /\ backlog' = Tail(backlog)
      /\ Lowest \in Fds /\ fds[Lowest] = Closed
  BY LowestIn DEF Accept
<1>2. /\ c \in Conns /\ c = backlog[1] /\ 1 \in 1 .. Len(backlog) /\ Len(backlog) \in Nat
      /\ Len(backlog') = Len(backlog) - 1
      /\ \A k \in 1 .. Len(backlog') : backlog'[k] = backlog[k + 1] /\ k + 1 \in 1 .. Len(backlog)
  BY HeadTailProperties, LenProperties, EmptySeq DEF Accept, IInv, Shapes
<1>3. Contains(backlog, c)
  BY <1>2 DEF Contains
<1>4. \A d \in Conns : Contains(backlog', d) => Contains(backlog, d)
  BY <1>2 DEF Contains
<1>5. InHand'
  BY <1>1 DEF InHand, Handling
<1>6. CASE UNCHANGED <<fds, ready>> /\ (\A j \in Active : j \in Active' /\ slots'[j] = slots[j])
  <2>1. Listed(ready, fds)' /\ StreamLeft
    BY <1>6 DEF Gentle, Listed, StreamLeft
  <2>2. \A d \in Conns : Registered(d)' => Registered(d)
    BY <1>6 DEF Registered
  <2>3. Live'
    BY <1>1, <1>4, <2>2 DEF Gentle, Live
  <2>4. Expected'
    <3>1. \A k \in 1 .. Len(batch) : (\E j \in Active : slots[j].fd = batch[k].fd)
                                       => \E j \in Active' : slots'[j].fd = batch[k].fd
      BY <1>6
    <3> QED BY <1>1, <3>1 DEF Gentle, Expected
  <2> QED BY <1>5, <2>1, <2>3, <2>4, OnceAlways DEF Gentle
<1>7. CASE /\ Unused # {} /\ fds' = [fds EXCEPT ![Lowest] = c]
           /\ slots' = [slots EXCEPT ![i] = Taken]
           /\ ready' = IF CanRead(c) THEN Notified(c) ELSE ready
  <2>1. fds'[Lowest] = c /\ \A g \in Fds \ {Lowest} : fds'[g] = fds[g]
    BY <1>1, <1>7 DEF IInv, Shapes
  <2>2. StreamLeft
    BY <1>1, <2>1, SocketsAssumption DEF StreamLeft
  <2>3. i \in Slots /\ i \notin Active /\ \A j \in Slots \ {i} : slots'[j] = slots[j]
    BY <1>7, LeastIn DEF Unused, IInv, Shapes
  <2>4. \A j \in Active : j \in Active' /\ slots'[j] = slots[j]
    BY <2>3 DEF Active
  <2> HIDE DEF i
  <2>5. \A g \in Fds : fds[g] \in Conns => fds'[g] = fds[g]
    BY <1>1, <2>1, Names
  <2>6. Listed(ready, fds')
    <3>1. ASSUME NEW k \in 1 .. Len(ready), ready[k] # Listener PROVE \E g \in Fds : fds'[g] = ready[k]
      <4>1. PICK g \in Fds : fds[g] = ready[k]
        BY <3>1 DEF Gentle, Listed
      <4>2. ready[k] \in Conns
        BY <3>1, ElementOfSeq DEF Gentle, Listed
      <4> QED BY <2>5, <4>1, <4>2
    <3> QED BY <3>1 DEF Gentle, Listed
  <2>7. Listed(ready', fds')
    <3>1. Listed(IF Contains(ready, c) THEN ready ELSE Append(ready, c), fds')
      BY <1>1, <1>2, <2>1, <2>6, NotifiedListed
    <3>2. ready' = ready \/ ready' = IF Contains(ready, c) THEN ready ELSE Append(ready, c)
      BY <1>7 DEF Notified
    <3> QED BY <2>6, <3>1, <3>2
  <2>8. \A d \in Conns : Registered(d)' => Registered(d) \/ d = c
    BY <2>1 DEF Registered
  <2>9. Live'
    BY <1>1, <1>2, <1>3, <1>4, <2>8 DEF Gentle, Live
  <2>10. Expected'
    <3>1. \A k \in 1 .. Len(batch) : (\E j \in Active : slots[j].fd = batch[k].fd)
                                       => \E j \in Active' : slots'[j].fd = batch[k].fd
      BY <2>4
    <3> QED BY <1>1, <3>1 DEF Gentle, Expected
  <2> QED BY <1>5, <2>2, <2>7, <2>9, <2>10, OnceAlways DEF Gentle
<1>8. CASE /\ Unused # {} /\ UNCHANGED <<fds, ready>>
           /\ slots' = [slots EXCEPT ![i] = [Taken EXCEPT !.active = FALSE]]
  <2>1. i \in Slots /\ i \notin Active /\ \A j \in Slots \ {i} : slots'[j] = slots[j]
    BY <1>8, LeastIn DEF Unused, IInv, Shapes
  <2>2. \A j \in Active : j \in Active' /\ slots'[j] = slots[j]
    BY <2>1 DEF Active
  <2> QED BY <1>6, <1>8, <2>2
<1>9. CASE Stay
  BY <1>6, <1>9 DEF Stay, Active
<1> QED BY <1>7, <1>8, <1>9 DEF Accept

(* A handler sends, reads or drops its client; nothing is reset.           *)
LEMMA HandlerGentle ==
  ASSUME IInv, Delivery, Arrivals, Gentle, UNCHANGED world,
         \/ AcceptEnds \/ Handshake \/ Initial \/ Recv \/ ProcessFrame \/ FramesEnd
         \/ Hangup \/ Send \/ SendEnds
  PROVE  Gentle' /\ StreamLeft
<1>1. AcceptedOnce
  BY DEF Delivery
<1>2. ASSUME UNCHANGED <<fds, ready, slots, peer, backlog, batch, cur>>, pc \in Handling \cup {"accept"},
             pc' \in {"next", "dead"} \/ (pc \in Handling \ {"hangup"} /\ pc' \in Handling)
      PROVE  Gentle' /\ StreamLeft
  <2>1. SameTable
    BY <1>2 DEF SameTable, IInv, Shapes
  <2> QED BY <1>2, <2>1, StayGentle DEF Handling
<1>3. CASE AcceptEnds \/ FramesEnd \/ SendEnds
  BY <1>2, <1>3 DEF AcceptEnds, FramesEnd, SendEnds, GoTo, netVars, Handling
<1>4. CASE Handshake
  <2>1. pc = "handshake" /\ cur \in Active /\ UNCHANGED <<peer, backlog, batch, cur>>
    BY <1>4 DEF Handshake, Gentle, InHand, Handling
  <2>2. SendResults(slots[cur].fd) = {"all"}
    BY <1>1, <2>1, SendAll
  <2>3. \/ Drop(cur) /\ GoTo("hangup")
        \/ Stay /\ GoTo("initial")
    BY <1>4, <2>2 DEF Handshake
  <2>4. CASE Drop(cur) /\ GoTo("hangup")
    BY <1>1, <2>1, <2>4, DropGentle DEF GoTo, Handling
  <2>5. CASE Stay /\ GoTo("initial")
    BY <1>2, <2>1, <2>5 DEF Stay, GoTo, Handling
  <2> QED BY <2>3, <2>4, <2>5
<1>5. CASE Initial
  <2>1. pc = "initial" /\ cur \in Active /\ UNCHANGED <<peer, backlog, batch, cur>>
    BY <1>5 DEF Initial, Gentle, InHand, Handling
  <2>2. SendResults(slots[cur].fd) = {"all"}
    BY <1>1, <2>1, SendAll
  <2>3. slots' = [slots EXCEPT ![cur].done = TRUE] /\ GoTo("hangup") /\ UNCHANGED <<fds, ready>>
    BY <1>5, <2>2 DEF Initial
  <2>4. SameTable
    BY <2>1, <2>3 DEF SameTable, IInv, Shapes, Active
  <2> QED BY <2>1, <2>3, <2>4, StayGentle DEF GoTo, Handling
<1>6. CASE Recv
  <2>1. pc = "recv" /\ cur \in Active /\ UNCHANGED <<peer, backlog, batch, cur>>
    BY <1>6 DEF Recv, Gentle, InHand, Handling
  <2>2. CASE Drop(cur) /\ GoTo("hangup")
    BY <1>1, <2>1, <2>2, DropGentle DEF GoTo, Handling
  <2>3. CASE Stay /\ (GoTo("hangup") \/ GoTo("frames"))
    BY <1>2, <2>1, <2>3 DEF Stay, GoTo, Handling
  <2> QED BY <1>6, <2>2, <2>3 DEF Recv
<1>7. CASE ProcessFrame
  <2>1. pc = "frames" /\ cur \in Active /\ UNCHANGED <<peer, backlog, batch, cur>>
    BY <1>7 DEF ProcessFrame, Gentle, InHand, Handling
  <2>2. FirstFrame(buffers[cur]).kind # "close"
    <3>1. FirstFrame(buffers[cur]) \in Chunks
      BY <1>7, FrameTaken
    <3> QED BY <3>1 DEF Gentle, ClosedOnce, Chunks, Range
  <2>3. pc' \in {"send", "frames"} /\ Stay
    BY <1>7, <2>2 DEF ProcessFrame, GoTo
  <2> QED BY <1>2, <2>1, <2>3 DEF Stay, Handling
<1>8. CASE Hangup
  <2>1. pc = "hangup" /\ UNCHANGED <<peer, backlog, batch, cur>> /\ GoTo("next")
    BY <1>8 DEF Hangup
  <2>2. ~Head(batch).hup
    BY <2>1, NoHup DEF Gentle, Expected, Handling
  <2>3. Stay
    BY <1>8, <2>2 DEF Hangup
  <2> QED BY <1>2, <2>1, <2>3 DEF Stay, GoTo, Handling
<1>9. CASE Send
  <2>1. pc = "send" /\ UNCHANGED <<peer, backlog, batch, cur>> /\ Rest # {}
    BY <1>9 DEF Send
  <2>2. Least(Rest) \in Active
    BY <2>1, LeastIn DEF Rest, Open, Active
  <2>3. SendResults(slots[Least(Rest)].fd) = {"all"}
    BY <1>1, <2>2, SendAll
  <2>4. Stay /\ UNCHANGED pc
    BY <1>9, <2>3 DEF Send
  <2> QED BY <1>2, <2>1, <2>4 DEF Stay, Handling
<1> QED BY <1>3, <1>4, <1>5, <1>6, <1>7, <1>8, <1>9

LEMMA StepsGentle ==
  ASSUME IInv, Delivery, Arrivals, Gentle, Steps, UNCHANGED world
  PROVE  Gentle' /\ StreamLeft
BY WaitGentle, NextGentle, DispatchGentle, AcceptGentle, HandlerGentle DEF Steps, Delivery

LEMMA ClientsGentle == ASSUME IInv, AcceptedOnce, Gentle, Clients PROVE Gentle' /\ StreamLeft
<1>1. PICK c \in Conns : Client(c)
  BY DEF Clients
<1>2. UNCHANGED <<world, slots, pc, batch, cur, fds>>
  BY <1>1 DEF Clients, loopVars, Client, Connect, ClientSend, ClientLeave, Ended
<1>3. Active' = Active /\ StreamLeft /\ \A d : Registered(d)' = Registered(d)
  BY <1>2 DEF Active, StreamLeft, Registered
<1>4. Expected' /\ InHand'
  BY <1>2, <1>3 DEF Gentle, Expected, InHand
<1>5. ready' = Notified(Listener) \/ (ready' = NotifiedOf(c))
  BY <1>1 DEF Client, Connect, ClientSend, ClientLeave, Ended
<1>6. Listed(ready', fds')
  <2>1. Listed(Notified(Listener), fds)
    BY NotifiedListed DEF Gentle, Notified
  <2>2. Registered(c) => Listed(Notified(c), fds)
    BY NotifiedListed DEF Gentle, Notified, Registered
  <2> QED BY <1>2, <1>5, <2>1, <2>2 DEF NotifiedOf, Gentle
<1>7. Live'
  <2>1. CASE Connect(c)
    <3>1. peer' = [peer EXCEPT ![c] = "up"] /\ backlog' = Append(backlog, c)
      BY <2>1 DEF Connect
    <3>2. \A d \in Conns \ {c} : Contains(backlog', d) => Contains(backlog, d)
      <4>1. /\ Len(backlog) \in Nat /\ Len(backlog') = Len(backlog) + 1 /\ backlog'[Len(backlog) + 1] = c
            /\ \A k \in 1 .. Len(backlog) : backlog'[k] = backlog[k]
        BY <3>1, AppendProperties, LenProperties DEF IInv, Shapes
      <4>2. \A k \in 1 .. Len(backlog') : k \in 1 .. Len(backlog) \/ k = Len(backlog) + 1
        BY <4>1
      <4> QED BY <4>1, <4>2 DEF Contains
    <3>3. peer'[c] = "up" /\ \A d \in Conns \ {c} : peer'[d] = peer[d]
      BY <3>1 DEF AcceptedOnce
    <3> QED BY <1>3, <3>2, <3>3 DEF Gentle, Live
  <2>2. CASE ClientSend(c)
    <3>1. UNCHANGED <<peer, backlog>>
      BY <2>2 DEF ClientSend
    <3> QED BY <1>3, <3>1 DEF Gentle, Live
  <2>3. CASE ClientLeave(c)
    <3>1. UNCHANGED backlog /\ peer' = [peer EXCEPT ![c] = "fin"]
      BY <2>3 DEF ClientLeave, Ended, Gentle, ClosedOnce
    <3>2. \A d \in Conns : peer'[d] = peer[d] \/ peer'[d] = "fin"
      BY <3>1 DEF AcceptedOnce
    <3> QED BY <1>3, <3>1, <3>2 DEF Gentle, Live
  <2> QED BY <1>1, <2>1, <2>2, <2>3 DEF Client
<1> QED BY <1>2, <1>3, <1>4, <1>6, <1>7, OnceAlways DEF Gentle

-----------------------------------------------------------------------------
(***************************************************************************)
(* What the pages draw.                                                    *)
(***************************************************************************)
(* How much of what c sent was read, and that what was not is in its       *)
(* socket.                                                                 *)
Consumed(c) == sent[c] - Len(rx[c])
Streamed == \A c \in Conns :
              /\ sent[c] <= Len(Script[c]) /\ Len(rx[c]) <= sent[c]
              /\ \A k \in 1 .. Len(rx[c]) : rx[c][k] = Script[c][Consumed(c) + k]

(* A connection is no websocket, and sends no frames, before its           *)
(* handshake.                                                              *)
Unframed == /\ \A c \in Conns : wire[c] = "http" =>
                 \A k \in 1 .. sent[c] : Script[c][k].kind \notin FrameKinds
            /\ \A c \in Conns : peer[c] = "new" \/ Contains(backlog, c) => wire[c] = "http"
            /\ \A i \in Active : \A c \in Conns :
                 ConnOf(i) = c /\ ~slots[i].done =>
                   wire[c] = "http" \/ pc = "dead" \/ (pc = "initial" /\ cur = i)

(* The buffer of a slot is the last part of what was read of its client.   *)
Processed(i, c) == Consumed(c) - Len(buffers[i])
Kept == \A i \in Active : \A c \in Conns : ConnOf(i) = c =>
          /\ Len(buffers[i]) <= Consumed(c)
          /\ \A k \in 1 .. Len(buffers[i]) : buffers[i][k] = Script[c][Processed(i, c) + k]
          /\ slots[i].done \/ buffers[i] = <<>>

(* What has left the buffer is on the canvas.                              *)
Applied == \A i \in Active : \A c \in Conns : ConnOf(i) = c =>
             \A k \in DrawnBy(c) : k <= Processed(i, c) /\ Alone(c, k) =>
                                     canvas[Cell(c, k)] = Script[c][k].color

(* Only the slot the loop is at has frames to be processed, and what fills *)
(* a buffer is the last thing in it.                                       *)
Processing == {"frames", "send", "dead"}
Partial == \A i \in Active :
             /\ WholeFrame(buffers[i]) => i = cur /\ pc \in Processing
             /\ \A k \in 1 .. Len(buffers[i]) : buffers[i][k].kind = "big" => k = Len(buffers[i])

(* The frames that are processed after the slot was given back are of a    *)
(* connection that has none.                                               *)
From(d, n) == /\ n + Len(buffers[cur]) <= sent[d]
              /\ \A k \in 1 .. Len(buffers[cur]) : buffers[cur][k] = Script[d][n + k]
              /\ \A i \in Active : ConnOf(i) # d
Whose == pc \in {"frames", "send"} /\ cur \notin Active => \E d \in Conns, n \in Nat : From(d, n)

Buffered == Kept /\ Applied /\ Partial /\ Whose
Drawing == Streamed /\ Unframed /\ Buffered

LEMMA Lengths ==
  ASSUME Arrivals, Streamed, NEW c \in Conns
  PROVE  /\ sent[c] \in Nat /\ Len(rx[c]) \in Nat /\ Len(Script[c]) \in Nat
         /\ sent[c] <= Len(Script[c]) /\ Len(rx[c]) <= sent[c]
         /\ Consumed(c) \in 0 .. sent[c]
         /\ DOMAIN Script[c] = 1 .. Len(Script[c])
<1>1. rx[c] \in Seq(Range(Script[c])) /\ Script[c] \in Seq(Range(Script[c])) /\ sent[c] \in Nat
  BY Scripts DEF Arrivals
<1>2. Len(rx[c]) \in Nat /\ Len(Script[c]) \in Nat /\ DOMAIN Script[c] = 1 .. Len(Script[c])
  BY <1>1, LenProperties
<1> QED BY <1>1, <1>2 DEF Streamed, Consumed

LEMMA BufferLengths ==
  ASSUME IInv, AcceptedOnce, Arrivals, Streamed, Kept, NEW i \in Active
  PROVE  /\ i \in Slots /\ ConnOf(i) \in Conns
         /\ Len(buffers[i]) \in Nat /\ Consumed(ConnOf(i)) \in Nat /\ Processed(i, ConnOf(i)) \in Nat
         /\ sent[ConnOf(i)] \in Nat
         /\ Processed(i, ConnOf(i)) + Len(buffers[i]) = Consumed(ConnOf(i))
         /\ Consumed(ConnOf(i)) <= sent[ConnOf(i)]
<1>1. i \in Slots /\ ConnOf(i) \in Conns
  BY DEF Active, IInv, TableMatchesSockets
<1>2. Len(buffers[i]) \in Nat
  BY <1>1, LenProperties DEF Arrivals
<1>3. Consumed(ConnOf(i)) \in 0 .. sent[ConnOf(i)] /\ sent[ConnOf(i)] \in Nat
  BY <1>1, Lengths
<1>4. Len(buffers[i]) <= Consumed(ConnOf(i))
  BY <1>1 DEF Kept
<1> QED BY <1>1, <1>2, <1>3, <1>4 DEF Processed

LEMMA InitDrawing == SlotInit => Drawing
<1> SUFFICES ASSUME SlotInit PROVE Drawing
  OBVIOUS
<1>1. /\ sent = [c \in Conns |-> 0] /\ rx = [c \in Conns |-> <<>>] /\ backlog = <<>>
      /\ wire = [c \in Conns |-> "http"] /\ world \in DOMAIN Worlds /\ Active = {}
  BY DEF SlotInit, setup_server, NetInit, Active, Free
<1>2. \A c \in Conns : Len(Script[c]) \in Nat
  BY <1>1, SocketsAssumption, LenProperties DEF Script
<1>3. Streamed
  BY <1>1, <1>2, EmptySeq DEF Streamed
<1>4. Unframed
  BY <1>1 DEF Unframed
<1>5. pc = "wait"
  BY DEF SlotInit
<1> QED BY <1>1, <1>3, <1>4, <1>5 DEF Drawing, Buffered, Kept, Applied, Partial, Whose

-----------------------------------------------------------------------------
(* Who is active was, with the same connection.                            *)
Remain == \A i \in Active' : /\ i \in Active /\ ConnOf(i)' = ConnOf(i)
                             /\ slots[i].done => slots'[i].done

LEMMA ActiveOwns ==
  ASSUME IInv, AcceptedOnce, NEW i \in Active
  PROVE  /\ i \in Slots /\ slots[i].fd \in Fds /\ ConnOf(i) \in Conns
         /\ \A j \in Active : ConnOf(j) = ConnOf(i) => j = i
         /\ peer[ConnOf(i)] # "new" /\ ~Contains(backlog, ConnOf(i))
<1>1. \A j \in Active : j \in Slots /\ slots[j].fd \in Fds /\ fds[slots[j].fd] \in Conns
  BY DEF Active, IInv, Shapes, TableMatchesSockets, ConnOf
<1>2. \A j \in Active : ConnOf(j) = ConnOf(i) => j = i
  <2> SUFFICES ASSUME NEW j \in Active, ConnOf(j) = ConnOf(i) PROVE j = i
    OBVIOUS
  <2>1. slots[j].fd = slots[i].fd
    BY <1>1 DEF ConnOf, AcceptedOnce
  <2> QED BY <2>1 DEF IInv, TableMatchesSockets
<1>3. ~Contains(backlog, ConnOf(i))
  BY <1>1 DEF AcceptedOnce, Contains, ConnOf
<1>4. peer[ConnOf(i)] # "new"
  BY <1>1 DEF AcceptedOnce, ConnOf
<1> QED BY <1>1, <1>2, <1>3, <1>4 DEF ConnOf

LEMMA StayRemain ==
  ASSUME UNCHANGED fds,
         \A i \in Active' : /\ i \in Active /\ slots'[i].fd = slots[i].fd
                            /\ slots[i].done => slots'[i].done
  PROVE  Remain
BY DEF Remain, ConnOf

(* The number f is nobody's.                                               *)
LEMMA CloseRemain ==
  ASSUME IInv, NEW f, fds' = [fds EXCEPT ![f] = Closed],
         \A i \in Active' : /\ i \in Active /\ slots'[i].fd = slots[i].fd /\ slots[i].fd # f
                            /\ slots[i].done => slots'[i].done
  PROVE  Remain
<1> SUFFICES ASSUME NEW i \in Active'
             PROVE  i \in Active /\ ConnOf(i)' = ConnOf(i) /\ (slots[i].done => slots'[i].done)
  BY DEF Remain
<1>1. i \in Active /\ slots'[i].fd = slots[i].fd /\ slots[i].fd # f /\ slots[i].fd \in Fds
  BY DEF Active, IInv, Shapes
<1>2. fds'[slots[i].fd] = fds[slots[i].fd]
  BY <1>1 DEF IInv, Shapes
<1> QED BY <1>1, <1>2 DEF ConnOf

(* Slot i is given back.                                                   *)
LEMMA BackRemain ==
  ASSUME IInv, NEW i \in Slots, slots[i].active \/ fds[slots[i].fd] \notin Conns,
         CloseFd(slots[i].fd), ~slots'[i].active, \A j \in Slots \ {i} : slots'[j] = slots[j]
  PROVE  Remain
<1>1. \A j \in Active' : j # i /\ j \in Slots
  BY DEF Active
<1>2. \A j \in Active' : j \in Active /\ slots'[j] = slots[j]
  BY <1>1 DEF Active
<1>3. \A j \in Active' : slots[j].fd # slots[i].fd
  <2> SUFFICES ASSUME NEW j \in Active', slots[j].fd = slots[i].fd PROVE FALSE
    OBVIOUS
  <2>1. j \in Active /\ fds[slots[j].fd] \in Conns /\ j # i
    BY <1>1, <1>2 DEF IInv, TableMatchesSockets, ConnOf
  <2> QED BY <2>1 DEF IInv, TableMatchesSockets, Active
<1> QED BY <1>2, <1>3, CloseRemain DEF CloseFd

LEMMA DropRemain ==
  ASSUME IInv, NEW i \in Slots, slots[i].active \/ fds[slots[i].fd] \notin Conns, Drop(i)
  PROVE  Remain
<1>1. ~slots'[i].active /\ \A j \in Slots \ {i} : slots'[j] = slots[j]
  BY DEF Drop, IInv, Shapes
<1> QED BY <1>1, BackRemain DEF Drop

LEMMA SameRemain == ASSUME UNCHANGED <<fds, slots>> PROVE Remain
BY DEF Remain, Active, ConnOf

LEMMA InitialRemain == ASSUME IInv, Initial PROVE Remain
<1>1. cur \in Slots /\ (slots[cur].active \/ fds[slots[cur].fd] \notin Conns)
  BY CurrentSlot DEF Initial, Handling
<1>2. CASE UNCHANGED <<fds, slots>>
  BY <1>2, SameRemain
<1>3. CASE CloseFd(slots[cur].fd) /\ slots' = [slots EXCEPT ![cur].active = FALSE, ![cur].done = TRUE]
  <2>1. ~slots'[cur].active /\ \A j \in Slots \ {cur} : slots'[j] = slots[j]
    BY <1>1, <1>3 DEF IInv, Shapes
  <2> QED BY <1>1, <1>3, <2>1, BackRemain
<1>4. CASE slots' = [slots EXCEPT ![cur].done = TRUE] /\ UNCHANGED fds
  <2>1. /\ slots'[cur].active = slots[cur].active /\ slots'[cur].fd = slots[cur].fd /\ slots'[cur].done
        /\ \A j \in Slots \ {cur} : slots'[j] = slots[j]
    BY <1>1, <1>4 DEF IInv, Shapes
  <2>2. \A j \in Active' : /\ j \in Active /\ slots'[j].fd = slots[j].fd
                           /\ slots[j].done => slots'[j].done
    BY <2>1 DEF Active
  <2> QED BY <1>4, <2>2, StayRemain
<1> QED BY <1>2, <1>3, <1>4 DEF Initial, Stay

LEMMA RemainStep ==
  ASSUME IInv, Steps, ~Accept PROVE Remain
<1>1. CASE EpollWait \/ NextEvent \/ AcceptEnds \/ FramesEnd \/ SendEnds
  BY <1>1, SameRemain DEF EpollWait, NextEvent, AcceptEnds, FramesEnd, SendEnds, netVars
<1>2. CASE Dispatch
  <2>1. CASE UNCHANGED fds
    BY <1>2, <2>1, SameRemain DEF Dispatch
  <2>2. CASE Matching(Head(batch).fd) = {} /\ CloseFd(Head(batch).fd)
    <3>1. UNCHANGED slots
      BY <1>2 DEF Dispatch
    <3>2. \A i \in Active' : i \in Active /\ slots[i].fd # Head(batch).fd
      BY <2>2, <3>1 DEF Active, Matching
    <3> QED BY <2>2, <3>1, <3>2, CloseRemain DEF CloseFd
  <2> QED BY <1>2, <2>1, <2>2 DEF Dispatch
<1>3. CASE Handshake \/ Recv \/ ProcessFrame \/ Hangup
  <2>1. cur \in Slots /\ (slots[cur].active \/ fds[slots[cur].fd] \notin Conns)
    BY <1>3, CurrentSlot DEF Handshake, Recv, ProcessFrame, Hangup, Handling
  <2>2. Drop(cur) \/ Stay
    BY <1>3 DEF Handshake, Recv, ProcessFrame, Hangup
  <2> QED BY <2>1, <2>2, DropRemain, SameRemain DEF Stay
<1>4. CASE Send
  <2> DEFINE i == Least(Rest)
  <2>1. i \in Rest
    BY <1>4, LeastIn DEF Send, Rest, Open, Active
  <2> HIDE DEF i
  <2>2. i \in Slots /\ slots[i].active
    BY <2>1 DEF Rest, Open, Active
  <2>3. Drop(i) \/ Stay
    BY <1>4 DEF Send, SendFails, i
  <2> QED BY <2>2, <2>3, DropRemain, SameRemain DEF Stay
<1> QED BY <1>1, <1>2, <1>3, <1>4, InitialRemain DEF Steps

-----------------------------------------------------------------------------
(* Only the loop tells a page of a connection it serves.                   *)
WireStep == \A c \in Conns :
  wire'[c] # wire[c] =>
    /\ wire'[c] # "http"
    /\ \E i \in Active : /\ ConnOf(i) = c
                         /\ \/ slots[i].done
                            \/ i = cur /\ pc = "initial"
                            \/ i = cur /\ pc = "handshake" /\ pc' = "initial" /\ cur' = cur

LEMMA ToldWire ==
  ASSUME Displays, NEW d, NEW cells, NEW result, Told(d, cells, result)
  PROVE  \A c \in Conns : wire'[c] # wire[c] => wire'[c] # "http" /\ c = d
BY DEF Told, Displays

(* A page is told only through a socket.                                   *)
LEMMA SocketTold ==
  ASSUME AcceptedOnce, NEW f \in Fds, NEW result \in SendResults(f), result \in {"all", "short"}
  PROVE  fds[f] \in Conns
BY DEF AcceptedOnce, SendResults

LEMMA WireSteps == ASSUME IInv, AcceptedOnce, Displays, Steps PROVE WireStep
<1>1. CASE UNCHANGED wire
  BY <1>1 DEF WireStep
<1>2. CASE Handshake
  <2>1. cur \in Slots /\ (slots[cur].active \/ fds[slots[cur].fd] \notin Conns)
    BY <1>2, CurrentSlot DEF Handshake, Handling
  <2>2. CASE /\ Request /\ GoTo("initial")
             /\ \E w \in {"open", "broken"} : wire' = [wire EXCEPT ![ConnOf(cur)] = w]
    <3>1. cur \in Active
      BY <2>1, <2>2 DEF Request, ConnOf, Active
    <3>2. \A c \in Conns : wire'[c] # wire[c] => c = ConnOf(cur) /\ wire'[c] # "http"
      BY <2>2 DEF Displays
    <3> QED BY <1>2, <2>2, <3>1, <3>2 DEF Handshake, GoTo, WireStep
  <2> QED BY <1>1, <1>2, <2>2 DEF Handshake
<1>3. CASE Initial
  <2>1. cur \in Slots /\ slots[cur].fd \in Fds /\ (slots[cur].active \/ fds[slots[cur].fd] \notin Conns)
    BY <1>3, CurrentSlot DEF Initial, Handling
  <2>2. ASSUME NEW result \in SendResults(slots[cur].fd), result \in {"all", "short"},
               Told(ConnOf(cur), Whole, result)
        PROVE  WireStep
    <3>1. cur \in Active
      BY <2>1, <2>2, SocketTold DEF Active
    <3> QED BY <1>3, <2>2, <3>1, ToldWire DEF Initial, WireStep
  <2> QED BY <1>1, <1>3, <2>2 DEF Initial
<1>4. CASE Send
  <2> DEFINE i == Least(Rest)
  <2>1. i \in Rest
    BY <1>4, LeastIn DEF Send, Rest, Open, Active
  <2> HIDE DEF i
  <2>2. i \in Active /\ slots[i].done
    BY <2>1 DEF Rest, Open
  <2>3. CASE \E result : Told(ConnOf(i), {call.cell}, result)
    BY <2>2, <2>3, ToldWire DEF WireStep
  <2>4. CASE UNCHANGED wire
    BY <1>1, <2>4
  <2> QED BY <1>4, <2>3, <2>4 DEF Send, i
<1>5. CASE EpollWait \/ NextEvent \/ Dispatch \/ AcceptEnds \/ Accept \/ SendEnds
  BY <1>1, <1>5 DEF EpollWait, NextEvent, Dispatch, AcceptEnds, Accept, SendEnds, netVars
<1>6. CASE Recv \/ ProcessFrame \/ FramesEnd \/ Hangup
  BY <1>1, <1>6 DEF Recv, ProcessFrame, FramesEnd, Hangup, netVars
<1> QED BY <1>2, <1>3, <1>4, <1>5, <1>6 DEF Steps

LEMMA InBacklog ==
  ASSUME IInv, Steps, NEW c \in Conns, Contains(backlog', c)
  PROVE  Contains(backlog, c)
<1>1. CASE UNCHANGED backlog
  BY <1>1
<1>2. CASE Accept
  <2>1. /\ backlog' = Tail(backlog) /\ Len(backlog) \in Nat
        /\ Len(backlog') = Len(backlog) - 1
        /\ \A k \in 1 .. Len(backlog') : backlog'[k] = backlog[k + 1]
    BY <1>2, HeadTailProperties DEF Accept, IInv, Shapes
  <2>2. PICK k \in 1 .. Len(backlog') : backlog'[k] = c
    BY DEF Contains
  <2>3. k + 1 \in 1 .. Len(backlog) /\ backlog[k + 1] = c
    BY <2>1, <2>2
  <2> QED BY <2>3 DEF Contains
<1>3. CASE EpollWait \/ NextEvent \/ Dispatch \/ AcceptEnds \/ Handshake \/ Initial
  BY <1>1, <1>3 DEF EpollWait, NextEvent, Dispatch, AcceptEnds, Handshake, Initial, netVars
<1>4. CASE Recv \/ ProcessFrame \/ FramesEnd \/ Hangup \/ Send \/ SendEnds
  BY <1>1, <1>4 DEF Recv, ProcessFrame, FramesEnd, Hangup, Send, SendEnds, netVars
<1> QED BY <1>2, <1>3, <1>4 DEF Steps

LEMMA SamePeer == ASSUME Steps PROVE UNCHANGED <<peer, sent>> /\ pc # "dead"
BY DEF Steps, EpollWait, NextEvent, Dispatch, AcceptEnds, Accept, Handshake, Initial, Recv, ProcessFrame,
       FramesEnd, Hangup, Send, SendEnds, netVars

(* The slot of a connection that is taken from the backlog.                *)
LEMMA AcceptedSlot ==
  ASSUME IInv, Accept, NEW i \in Active'
  PROVE  \/ i \in Active /\ slots'[i] = slots[i] /\ ConnOf(i)' = ConnOf(i)
         \/ /\ i = Least(Unused) /\ i \in Slots /\ Unused # {} /\ ~slots'[i].done
            /\ ConnOf(i)' = Head(backlog) /\ Contains(backlog, Head(backlog))
<1> DEFINE n == Least(Unused)
<1>1. CASE UNCHANGED <<fds, slots>>
  BY <1>1 DEF Active, ConnOf
<1>2. CASE Unused # {} /\ UNCHANGED fds /\ slots' = [slots EXCEPT ![n] = [Taken EXCEPT !.active = FALSE]]
  <2>1. n \in Slots
    BY <1>2, LeastIn DEF Unused
  <2>2. ~slots'[n].active /\ \A j \in Slots \ {n} : slots'[j] = slots[j]
    BY <1>2, <2>1 DEF IInv, Shapes, Taken, Free
  <2> QED BY <1>2, <2>2 DEF Active, ConnOf
<1>3. CASE /\ Unused # {} /\ slots' = [slots EXCEPT ![n] = Taken]
           /\ fds' = [fds EXCEPT ![Lowest] = Head(backlog)]
  <2>1. n \in Slots
    BY <1>3, LeastIn DEF Unused
  <2>2. Lowest \in Fds /\ fds[Lowest] = Closed
    BY LowestIn DEF Accept
  <2>3. /\ slots'[n].fd = Lowest /\ ~slots'[n].done
        /\ \A j \in Slots \ {n} : slots'[j] = slots[j]
    BY <1>3, <2>1 DEF IInv, Shapes, Taken, Free
  <2>4. fds'[Lowest] = Head(backlog) /\ \A f \in Fds \ {Lowest} : fds'[f] = fds[f]
    BY <1>3, <2>2 DEF IInv, Shapes
  <2>5. Contains(backlog, Head(backlog))
    <3>1. Len(backlog) \in Nat /\ 1 \in 1 .. Len(backlog) /\ backlog[1] = Head(backlog)
      BY HeadTailProperties, LenProperties, EmptySeq DEF Accept, IInv, Shapes
    <3> QED BY <3>1 DEF Contains
  <2>6. CASE i = n
    BY <1>3, <2>1, <2>3, <2>4, <2>5, <2>6 DEF ConnOf
  <2>7. CASE i # n
    <3>1. i \in Active /\ slots'[i] = slots[i]
      BY <2>3, <2>7 DEF Active
    <3>2. slots[i].fd \in Fds /\ fds[slots[i].fd] \in Conns
      BY <3>1 DEF Active, IInv, Shapes, TableMatchesSockets, ConnOf
    <3>3. slots[i].fd # Lowest
      BY <2>2, <3>2, Names
    <3> QED BY <2>4, <3>1, <3>2, <3>3 DEF ConnOf
  <2> QED BY <2>6, <2>7
<1> QED BY <1>1, <1>2, <1>3 DEF Accept, Stay

LEMMA UnframedStep ==
  ASSUME IInv, AcceptedOnce, Displays, Unframed, Steps, UNCHANGED world PROVE Unframed'
<1> USE SamePeer
<1>1. WireStep /\ Script' = Script
  BY WireSteps DEF Script
<1>2. \A c \in Conns : wire'[c] = "http" => wire[c] = "http"
  BY <1>1 DEF WireStep
<1>3. \A c \in Conns : wire'[c] = "http" => \A k \in 1 .. sent'[c] : Script'[c][k].kind \notin FrameKinds
  BY <1>1, <1>2 DEF Unframed
<1>4. ASSUME NEW c \in Conns, peer'[c] = "new" \/ Contains(backlog', c) PROVE wire'[c] = "http"
  <2>1. peer[c] = "new" \/ Contains(backlog, c)
    BY <1>4, InBacklog
  <2>2. wire'[c] = wire[c]
    BY <1>1, <2>1, ActiveOwns DEF WireStep
  <2> QED BY <2>1, <2>2 DEF Unframed
<1>5. ASSUME NEW i \in Active', NEW c \in Conns, ConnOf(i)' = c, ~slots'[i].done
      PROVE  wire'[c] = "http" \/ pc' = "dead" \/ (pc' = "initial" /\ cur' = i)
  <2>1. CASE Accept
    <3>1. pc = "accept" /\ UNCHANGED wire
      BY <2>1 DEF Accept
    <3>2. CASE i \in Active /\ slots'[i] = slots[i] /\ ConnOf(i)' = ConnOf(i)
      BY <1>5, <3>1, <3>2 DEF Unframed
    <3>3. CASE ConnOf(i)' = Head(backlog) /\ Contains(backlog, Head(backlog))
      BY <1>5, <3>1, <3>3 DEF Unframed
    <3> QED BY <2>1, <3>2, <3>3, AcceptedSlot
  <2>2. CASE ~Accept
    <3>1. i \in Active /\ ConnOf(i) = c /\ ~slots[i].done
      BY <1>5, <2>2, RemainStep DEF Remain
    <3>2. CASE pc = "initial" /\ cur = i
      <4>1. Initial
        BY <3>2 DEF Steps, EpollWait, NextEvent, Dispatch, AcceptEnds, Accept, Handshake, Recv, ProcessFrame,
                    FramesEnd, Hangup, Send, SendEnds
      <4>2. i \in Slots
        BY <3>1 DEF Active
      <4>3. CASE pc' = "dead"
        BY <4>3
      <4>4. CASE slots' = [slots EXCEPT ![cur].active = FALSE, ![cur].done = TRUE]
        BY <1>5, <3>2, <4>2, <4>4 DEF IInv, Shapes
      <4>5. CASE slots' = [slots EXCEPT ![cur].done = TRUE]
        BY <1>5, <3>2, <4>2, <4>5 DEF IInv, Shapes
      <4> QED BY <4>1, <4>3, <4>4, <4>5 DEF Initial, GoTo
    <3>3. CASE ~(pc = "initial" /\ cur = i)
      <4>1. wire[c] = "http"
        BY <3>1, <3>3 DEF Unframed
      <4>2. CASE wire'[c] # wire[c]
        <5>1. PICK j \in Active : /\ ConnOf(j) = c
                                  /\ \/ slots[j].done
                                     \/ j = cur /\ pc = "initial"
                                     \/ j = cur /\ pc = "handshake" /\ pc' = "initial" /\ cur' = cur
          BY <1>1, <4>2 DEF WireStep
        <5>2. j = i
          BY <3>1, <5>1, ActiveOwns
        <5> QED BY <3>1, <3>3, <5>1, <5>2
      <4> QED BY <4>1, <4>2
    <3> QED BY <3>2, <3>3
  <2> QED BY <2>1, <2>2
<1> QED BY <1>3, <1>4, <1>5 DEF Unframed

-----------------------------------------------------------------------------
(* The frames of a slot that has just been given back are its client's.    *)
LEMMA WhoseStays ==
  ASSUME IInv, AcceptedOnce, Arrivals, Streamed, Kept, Whose, Remain, UNCHANGED <<world, buffers>>,
         \A c \in Conns : sent[c] <= sent'[c] /\ sent'[c] \in Nat,
         pc' \in {"frames", "send"} => pc \in {"frames", "send"} /\ cur' = cur
  PROVE  Whose'
<1> SUFFICES ASSUME pc' \in {"frames", "send"}, cur' \notin Active'
             PROVE  \E d \in Conns, n \in Nat : From(d, n)'
  BY DEF Whose
<1>1. pc \in {"frames", "send"} /\ cur' = cur /\ cur \in Slots /\ Script' = Script /\ cur \notin Active'
  BY CurrentSlot DEF Handling, Script
<1>2. Len(buffers[cur]) \in Nat
  BY <1>1, LenProperties DEF Arrivals
<1>3. PICK d \in Conns, n \in Nat :
        /\ n + Len(buffers[cur]) <= sent[d] /\ sent[d] \in Nat
        /\ \A k \in 1 .. Len(buffers[cur]) : buffers[cur][k] = Script[d][n + k]
        /\ \A i \in Active \ {cur} : ConnOf(i) # d
  <2>1. CASE cur \in Active
    <3>1. /\ ConnOf(cur) \in Conns /\ Processed(cur, ConnOf(cur)) \in Nat
          /\ Processed(cur, ConnOf(cur)) + Len(buffers[cur]) <= sent[ConnOf(cur)] /\ sent[ConnOf(cur)] \in Nat
      BY <2>1, BufferLengths
    <3>2. \A k \in 1 .. Len(buffers[cur]) :
            buffers[cur][k] = Script[ConnOf(cur)][Processed(cur, ConnOf(cur)) + k]
      BY <2>1, <3>1 DEF Kept
    <3>3. \A i \in Active \ {cur} : ConnOf(i) # ConnOf(cur)
      BY <2>1, ActiveOwns
    <3> QED BY <3>1, <3>2, <3>3
  <2>2. CASE cur \notin Active
    <3>1. PICK d \in Conns, n \in Nat : From(d, n)
      BY <1>1, <2>2 DEF Whose
    <3>2. sent[d] \in Nat
      BY DEF Arrivals
    <3> QED BY <3>1, <3>2 DEF From
  <2> QED BY <2>1, <2>2
<1>4. \A i \in Active' : ConnOf(i)' # d
  BY <1>1, <1>3 DEF Remain
<1>5. n + Len(buffers[cur]) <= sent'[d]
  BY <1>2, <1>3
<1> QED BY <1>1, <1>3, <1>4, <1>5 DEF From

(* Nothing is read or drawn.                                               *)
LEMMA AsBefore ==
  ASSUME IInv, AcceptedOnce, Arrivals, Streamed, Buffered, Remain, UNCHANGED <<world, canvas, buffers>>,
         \A c \in Conns : /\ sent[c] <= sent'[c] /\ sent'[c] \in Nat
                          /\ sent'[c] - Len(rx'[c]) = sent[c] - Len(rx[c]),
         pc' \in {"frames", "send"} => pc \in {"frames", "send"} /\ cur' = cur,
         pc \in Processing /\ WholeFrame(buffers[cur]) => pc' \in Processing /\ cur' = cur
  PROVE  Buffered'
<1>1. Script' = Script /\ \A c \in Conns : Consumed(c)' = Consumed(c)
  BY DEF Script, Consumed
<1>2. \A i \in Slots, c \in Conns : Processed(i, c)' = Processed(i, c)
  BY <1>1 DEF Processed
<1>3. \A i \in Active' : i \in Active /\ i \in Slots /\ ConnOf(i)' = ConnOf(i) /\ (slots[i].done => slots'[i].done)
  BY DEF Remain, Active
<1>4. Kept'
  <2> SUFFICES ASSUME NEW i \in Active', NEW c \in Conns, ConnOf(i)' = c
               PROVE  /\ Len(buffers[i]) <= Consumed(c)
                      /\ \A k \in 1 .. Len(buffers[i]) : buffers[i][k] = Script[c][Processed(i, c) + k]
                      /\ slots'[i].done \/ buffers[i] = <<>>
    BY <1>1, <1>2, <1>3 DEF Kept
  <2> QED BY <1>3 DEF Buffered, Kept
<1>5. Applied'
  <2> SUFFICES ASSUME NEW i \in Active', NEW c \in Conns, ConnOf(i)' = c,
                      NEW k \in DrawnBy(c)', k <= Processed(i, c)', Alone(c, k)'
               PROVE  canvas'[Cell(c, k)'] = Script'[c][k].color
    BY DEF Applied
  <2>1. i \in Active /\ i \in Slots /\ ConnOf(i) = c
    BY <1>3
  <2>2. \A d \in Conns : DrawnBy(d) \subseteq DrawnBy(d)'
    BY <1>1, Lengths DEF DrawnBy
  <2>3. k \in DrawnBy(c) /\ k <= Processed(i, c)
    <3>1. k \in 1 .. sent'[c] /\ Script[c][k].kind \in {"draw", "tail"}
      BY <1>1 DEF DrawnBy
    <3>2. k <= Processed(i, c)
      BY <1>2, <2>1
    <3>3. Processed(i, c) \in Nat /\ Processed(i, c) <= sent[c] /\ sent[c] \in Nat
      BY <2>1, BufferLengths DEF Buffered
    <3> QED BY <3>1, <3>2, <3>3 DEF DrawnBy
  <2>4. Alone(c, k) /\ Cell(c, k)' = Cell(c, k)
    BY <1>1, <2>2 DEF Alone, Cell
  <2> QED BY <1>1, <2>1, <2>3, <2>4 DEF Buffered, Applied
<1>6. Partial'
  BY <1>3 DEF Buffered, Partial
<1>7. Whose'
  BY WhoseStays DEF Buffered
<1> QED BY <1>4, <1>5, <1>6, <1>7 DEF Buffered

LEMMA ClientsDrawing ==
  ASSUME IInv, AcceptedOnce, Arrivals, Drawing, Clients PROVE Drawing'
<1>1. PICK c \in Conns : Client(c)
  BY DEF Clients
<1>2. UNCHANGED <<world, fds, wire, slots, buffers, pc, cur, canvas>> /\ Script' = Script
  BY <1>1 DEF Clients, loopVars, drawVars, Script, Client, Connect, ClientSend, ClientLeave, Ended
<1>3. ASSUME NEW d \in Conns
      PROVE  /\ sent'[d] <= Len(Script[d]) /\ Len(rx'[d]) <= sent'[d]
             /\ sent[d] <= sent'[d] /\ sent'[d] \in Nat
             /\ sent'[d] - Len(rx'[d]) = Consumed(d)
             /\ \A k \in 1 .. Len(rx'[d]) : rx'[d][k] = Script[d][Consumed(d) + k]
             /\ wire[d] = "http" => \A k \in 1 .. sent'[d] : Script[d][k].kind \notin FrameKinds
  <2> USE DEF Drawing
  <2>0. /\ sent[d] \in Nat /\ Len(rx[d]) \in Nat /\ Len(Script[d]) \in Nat
        /\ sent[d] <= Len(Script[d]) /\ Len(rx[d]) <= sent[d]
    BY Lengths
  <2>1. CASE sent'[d] = sent[d] /\ rx'[d] = rx[d]
    BY <2>0, <2>1 DEF Streamed, Consumed, Unframed
  <2>2. CASE ClientSend(c) /\ c = d
    <3> DEFINE chunk == Script[d][sent[d] + 1]
    <3>1. /\ sent[d] < Len(Script[d]) /\ sent'[d] = sent[d] + 1 /\ rx'[d] = Append(rx[d], chunk)
          /\ chunk.kind \in FrameKinds => wire[d] = "open"
      BY <2>2 DEF ClientSend, Arrivals
    <3>2. rx[d] \in Seq(Range(Script[d])) /\ chunk \in Range(Script[d])
      <4>1. Script[d] \in Seq(Range(Script[d])) /\ sent[d] + 1 \in 1 .. Len(Script[d])
        BY <2>0, <3>1, Scripts
      <4> QED BY <4>1, ElementOfSeq DEF Arrivals
    <3> HIDE DEF chunk
    <3>3. /\ Len(rx'[d]) = Len(rx[d]) + 1
          /\ \A k \in 1 .. Len(rx[d]) : rx'[d][k] = rx[d][k]
          /\ rx'[d][Len(rx[d]) + 1] = chunk
      BY <3>1, <3>2, AppendProperties
    <3>4. Consumed(d) + (Len(rx[d]) + 1) = sent[d] + 1
      BY <2>0 DEF Consumed
    <3>5. \A k \in 1 .. Len(rx'[d]) : rx'[d][k] = Script[d][Consumed(d) + k]
      <4> SUFFICES ASSUME NEW k \in 1 .. Len(rx'[d]) PROVE rx'[d][k] = Script[d][Consumed(d) + k]
        OBVIOUS
      <4>1. CASE k = Len(rx[d]) + 1
        BY <3>3, <3>4, <4>1 DEF chunk
      <4>2. CASE k # Len(rx[d]) + 1
        <5>1. k \in 1 .. Len(rx[d])
          BY <2>0, <3>3, <4>2
        <5> QED BY <3>3, <5>1 DEF Streamed
      <4> QED BY <4>1, <4>2
    <3>6. wire[d] = "http" => \A k \in 1 .. sent'[d] : Script[d][k].kind \notin FrameKinds
      <4> SUFFICES ASSUME wire[d] = "http", NEW k \in 1 .. sent'[d] PROVE Script[d][k].kind \notin FrameKinds
        OBVIOUS
      <4>1. CASE k = sent[d] + 1
        BY <3>1, <4>1 DEF chunk
      <4>2. CASE k # sent[d] + 1
        <5>1. k \in 1 .. sent[d]
          BY <2>0, <3>1, <4>2
        <5> QED BY <5>1 DEF Unframed
      <4> QED BY <4>1, <4>2
    <3>7. /\ sent'[d] <= Len(Script[d]) /\ Len(rx'[d]) <= sent'[d]
          /\ sent[d] <= sent'[d] /\ sent'[d] \in Nat
          /\ sent'[d] - Len(rx'[d]) = Consumed(d)
      BY <2>0, <3>1, <3>3 DEF Consumed
    <3> QED BY <3>5, <3>6, <3>7
  <2>3. CASE (ClientSend(c) /\ c # d) \/ Connect(c) \/ ClientLeave(c)
    BY <2>1, <2>3 DEF ClientSend, Connect, ClientLeave, Ended, Arrivals
  <2> QED BY <1>1, <2>2, <2>3 DEF Client
<1>4. Streamed'
  BY <1>2, <1>3 DEF Streamed, Consumed
<1>5. ASSUME NEW d \in Conns, peer'[d] = "new" \/ Contains(backlog', d) PROVE wire'[d] = "http"
  <2>1. peer[d] = "new" \/ Contains(backlog, d)
    <3>1. CASE Connect(c)
      <4>1. peer'[d] = "new" => peer[d] = "new"
        BY <3>1 DEF Connect
      <4>2. Contains(backlog', d) => Contains(backlog, d) \/ d = c
        BY <3>1 DEF Connect, Contains
      <4> QED BY <1>5, <3>1, <4>1, <4>2 DEF Connect
    <3>2. CASE ClientSend(c) \/ ClientLeave(c)
      BY <1>5, <3>2 DEF ClientSend, ClientLeave, Ended, AcceptedOnce
    <3> QED BY <1>1, <3>1, <3>2 DEF Client
  <2> QED BY <1>2, <2>1 DEF Drawing, Unframed
<1>6. Unframed'
  BY <1>2, <1>3, <1>5 DEF Drawing, Unframed, Active, ConnOf
<1>7. Buffered'
  BY <1>2, <1>3, AsBefore, SameRemain DEF Drawing, Consumed
<1> QED BY <1>4, <1>6, <1>7 DEF Drawing

LEMMA HandshakeDrawing ==
  ASSUME IInv, Delivery, Arrivals, Drawing, Handshake, UNCHANGED world
  PROVE  Streamed' /\ Buffered'
<1> USE DEF Drawing, Buffered
<1>1. /\ UNCHANGED <<canvas, sent, buffers>> /\ Script' = Script /\ Remain /\ AcceptedOnce
      /\ pc = "handshake" /\ pc' \notin {"frames", "send"} /\ ~slots[cur].done
      /\ cur \in Slots /\ (slots[cur].active \/ fds[slots[cur].fd] \notin Conns)
  <2>1. pc = "handshake" /\ UNCHANGED <<canvas, sent, buffers>> /\ pc' \notin {"frames", "send"}
    BY DEF Handshake, drawVars, GoTo
  <2>2. ~Accept
    BY <2>1 DEF Accept
  <2> QED BY <2>1, <2>2, RemainStep, CurrentSlot DEF Steps, Script, Delivery, Fresh, Handling
<1>2. CASE ConnOf(cur) \notin Conns
  <2>1. UNCHANGED rx
    BY <1>2 DEF Handshake
  <2>2. \A c \in Conns : sent[c] \in Nat
    BY DEF Arrivals
  <2>3. Buffered'
    BY <1>1, <2>1, <2>2, AsBefore DEF Processing
  <2> QED BY <1>1, <2>1, <2>3 DEF Streamed, Consumed
<1>3. CASE ConnOf(cur) \in Conns
  <2>0. PICK c \in Conns : c = ConnOf(cur)
    BY <1>3
  <2>1. cur \in Active
    BY <1>1, <1>3 DEF ConnOf, Active
  <2>2. wire[c] = "http"
    BY <1>1, <2>0, <2>1 DEF Unframed
  <2>3. rx' = [rx EXCEPT ![c] = <<>>] /\ c \in Conns
    BY <2>0 DEF Handshake
  <2>4. /\ rx'[c] = <<>> /\ Len(rx'[c]) = 0
        /\ \A d \in Conns \ {c} : rx'[d] = rx[d]
    BY <2>3, EmptySeq DEF Arrivals
  <2>5. \A d \in Conns : sent[d] \in Nat /\ sent[d] <= Len(Script[d])
    BY Lengths
  <2>6. Streamed'
    <3> SUFFICES ASSUME NEW d \in Conns
                 PROVE  /\ sent'[d] <= Len(Script'[d]) /\ Len(rx'[d]) <= sent'[d]
                        /\ \A k \in 1 .. Len(rx'[d]) : rx'[d][k] = Script'[d][Consumed(d)' + k]
      BY DEF Streamed
    <3>1. CASE d = c
      BY <1>1, <2>4, <2>5, <3>1
    <3>2. CASE d # c
      BY <1>1, <2>4, <2>5, <3>2 DEF Streamed, Consumed
    <3> QED BY <3>1, <3>2
  <2>7. \A k \in 1 .. sent[c] : Script[c][k].kind \notin FrameKinds
    BY <2>2, <2>3 DEF Unframed
  <2>8. Consumed(c)' = sent[c] /\ \A d \in Conns \ {c} : Consumed(d)' = Consumed(d)
    BY <1>1, <2>3, <2>4, <2>5 DEF Consumed
  <2>9. \A i \in Active' : /\ i \in Active /\ i \in Slots /\ ConnOf(i)' = ConnOf(i) /\ ConnOf(i) \in Conns
                           /\ slots[i].done => slots'[i].done
                           /\ ConnOf(i) = c => buffers[i] = <<>>
    <3> SUFFICES ASSUME NEW i \in Active'
                 PROVE  /\ i \in Active /\ i \in Slots /\ ConnOf(i)' = ConnOf(i) /\ ConnOf(i) \in Conns
                        /\ slots[i].done => slots'[i].done
                        /\ ConnOf(i) = c => buffers[i] = <<>>
      OBVIOUS
    <3>1. i \in Active /\ ConnOf(i)' = ConnOf(i) /\ (slots[i].done => slots'[i].done)
      BY <1>1 DEF Remain
    <3>2. i \in Slots /\ ConnOf(i) \in Conns /\ (ConnOf(i) = c => i = cur)
      BY <1>1, <2>0, <2>1, <3>1, ActiveOwns
    <3>3. ConnOf(i) = c => buffers[i] = <<>>
      BY <1>1, <2>3, <3>1, <3>2 DEF Kept
    <3> QED BY <3>1, <3>2, <3>3
  <2>10. Kept'
    <3> SUFFICES ASSUME NEW i \in Active', NEW d \in Conns, ConnOf(i)' = d
                 PROVE  /\ Len(buffers'[i]) <= Consumed(d)'
                        /\ \A k \in 1 .. Len(buffers'[i]) : buffers'[i][k] = Script'[d][Processed(i, d)' + k]
                        /\ slots'[i].done \/ buffers'[i] = <<>>
      BY DEF Kept
    <3>1. i \in Active /\ i \in Slots /\ ConnOf(i) = d /\ buffers'[i] = buffers[i]
      BY <1>1, <2>9
    <3>2. CASE d = c
      <4>1. buffers'[i] = <<>> /\ Len(buffers'[i]) = 0
        BY <2>9, <3>1, <3>2, EmptySeq
      <4>2. Consumed(d)' \in Nat
        BY <2>3, <2>5, <2>8, <3>2
      <4> QED BY <4>1, <4>2
    <3>3. CASE d # c
      <4>1. Consumed(d)' = Consumed(d) /\ Processed(i, d)' = Processed(i, d)
        BY <2>8, <3>1, <3>3 DEF Processed
      <4> QED BY <1>1, <2>9, <3>1, <4>1 DEF Kept
    <3> QED BY <3>2, <3>3
  <2>11. Applied'
    <3> SUFFICES ASSUME NEW i \in Active', NEW d \in Conns, ConnOf(i)' = d,
                        NEW k \in DrawnBy(d)', k <= Processed(i, d)', Alone(d, k)'
                 PROVE  canvas'[Cell(d, k)'] = Script'[d][k].color
      BY DEF Applied
    <3>1. i \in Active /\ i \in Slots /\ ConnOf(i) = d
      BY <2>9
    <3>2. \A e \in Conns : DrawnBy(e)' = DrawnBy(e)
      BY <1>1 DEF DrawnBy
    <3>3. d # c
      BY <2>7, <3>2 DEF DrawnBy, FrameKinds
    <3>4. Processed(i, d)' = Processed(i, d)
      BY <1>1, <2>8, <3>3 DEF Processed
    <3>5. k \in DrawnBy(d) /\ k <= Processed(i, d) /\ Alone(d, k) /\ Cell(d, k)' = Cell(d, k)
      BY <1>1, <3>2, <3>4 DEF Alone, Cell
    <3> QED BY <1>1, <3>1, <3>5 DEF Applied
  <2>12. Partial'
    BY <1>1, <2>9 DEF Partial, Processing
  <2>13. Whose'
    BY <1>1 DEF Whose
  <2> QED BY <2>6, <2>10, <2>11, <2>12, <2>13
<1> QED BY <1>2, <1>3

LEMMA AcceptDrawing ==
  ASSUME IInv, Arrivals, Drawing, Accept, UNCHANGED world
  PROVE  Streamed' /\ Buffered'
<1> USE DEF Drawing, Buffered
<1>1. UNCHANGED <<canvas, sent, rx, pc>> /\ pc = "accept" /\ Script' = Script
  BY DEF Accept, drawVars, Script
<1>2. \A c \in Conns : Consumed(c)' = Consumed(c) /\ DrawnBy(c)' = DrawnBy(c)
  BY <1>1 DEF Consumed, DrawnBy
<1>3. Streamed'
  BY <1>1 DEF Streamed, Consumed
<1>4. ASSUME NEW i \in Active'
      PROVE  \/ i \in Active /\ ConnOf(i)' = ConnOf(i) /\ slots'[i] = slots[i] /\ buffers'[i] = buffers[i]
             \/ /\ buffers'[i] = <<>>
                /\ \A c \in Conns : ConnOf(i)' = c =>
                     DrawnBy(c) = {} /\ Consumed(c) \in Nat
  <2>1. CASE i \in Active /\ slots'[i] = slots[i] /\ ConnOf(i)' = ConnOf(i)
    <3>1. Unused # {} => i # Least(Unused)
      BY <2>1, LeastIn DEF Unused
    <3>2. i \in Slots
      BY <2>1 DEF Active
    <3> QED BY <2>1, <3>1, <3>2 DEF Accept, Arrivals
  <2>2. CASE /\ i = Least(Unused) /\ i \in Slots /\ Unused # {}
             /\ ConnOf(i)' = Head(backlog) /\ Contains(backlog, Head(backlog))
    <3>1. buffers'[i] = <<>>
      BY <2>2 DEF Accept, Arrivals
    <3>2. ASSUME NEW c \in Conns, ConnOf(i)' = c PROVE DrawnBy(c) = {} /\ Consumed(c) \in Nat
      <4>1. \A k \in 1 .. sent[c] : Script[c][k].kind \notin FrameKinds
        BY <2>2, <3>2 DEF Unframed
      <4>2. Consumed(c) \in 0 .. sent[c] /\ sent[c] \in Nat
        BY Lengths
      <4>3. DrawnBy(c) = {}
        BY <4>1 DEF DrawnBy, FrameKinds
      <4> QED BY <4>2, <4>3
    <3> QED BY <3>1, <3>2
  <2> QED BY <2>1, <2>2, AcceptedSlot
<1>5. Kept'
  <2> SUFFICES ASSUME NEW i \in Active', NEW d \in Conns, ConnOf(i)' = d
               PROVE  /\ Len(buffers'[i]) <= Consumed(d)'
                      /\ \A k \in 1 .. Len(buffers'[i]) : buffers'[i][k] = Script'[d][Processed(i, d)' + k]
                      /\ slots'[i].done \/ buffers'[i] = <<>>
    BY DEF Kept
  <2>1. CASE i \in Active /\ ConnOf(i)' = ConnOf(i) /\ slots'[i] = slots[i] /\ buffers'[i] = buffers[i]
    <3>1. Processed(i, d)' = Processed(i, d)
      BY <1>2, <2>1 DEF Processed
    <3> QED BY <1>1, <1>2, <2>1, <3>1 DEF Kept
  <2>2. CASE buffers'[i] = <<>> /\ Consumed(d) \in Nat
    BY <1>2, <2>2, EmptySeq
  <2> QED BY <1>4, <2>1, <2>2
<1>6. Applied'
  <2> SUFFICES ASSUME NEW i \in Active', NEW c \in Conns, ConnOf(i)' = c,
                      NEW k \in DrawnBy(c)', k <= Processed(i, c)', Alone(c, k)'
               PROVE  canvas'[Cell(c, k)'] = Script'[c][k].color
    BY DEF Applied
  <2>1. i \in Active /\ ConnOf(i) = c /\ k \in DrawnBy(c) /\ buffers'[i] = buffers[i]
    BY <1>2, <1>4
  <2>2. Processed(i, c)' = Processed(i, c)
    BY <1>2, <2>1 DEF Processed
  <2>3. Alone(c, k) /\ Cell(c, k)' = Cell(c, k)
    BY <1>1, <1>2 DEF Alone, Cell
  <2> QED BY <1>1, <2>1, <2>2, <2>3 DEF Applied
<1>7. Partial'
  <2> SUFFICES ASSUME NEW i \in Active'
               PROVE  /\ ~WholeFrame(buffers'[i])
                      /\ \A k \in 1 .. Len(buffers'[i]) : buffers'[i][k].kind = "big" => k = Len(buffers'[i])
    BY DEF Partial
  <2>1. CASE i \in Active /\ buffers'[i] = buffers[i]
    BY <1>1, <2>1 DEF Partial, Processing
  <2>2. CASE buffers'[i] = <<>>
    BY <2>2, EmptySeq DEF WholeFrame
  <2> QED BY <1>4, <2>1, <2>2
<1>8. Whose'
  BY <1>1 DEF Whose
<1> QED BY <1>3, <1>5, <1>6, <1>7, <1>8

(* What has arrived goes from the socket to the buffer.                    *)
LEMMA RecvDrawing ==
  ASSUME IInv, Delivery, Arrivals, Drawing, Recv, Received = "data", UNCHANGED world
  PROVE  Streamed' /\ Buffered'
<1> USE DEF Drawing, Buffered
<1>1. AcceptedOnce
  BY DEF Delivery
<1>2. PICK c, n, s, b : Read(c, n, s, b)
  BY <1>1, DataRead
<1>3. /\ DOMAIN rx' = Conns /\ \A d \in Conns \ {c} : rx'[d] = rx[d]
      /\ rx'[c] \in Seq(Range(Script[c])) /\ Len(rx'[c]) = Len(s) - n
      /\ \A k \in 1 .. Len(s) - n : rx'[c][k] = s[n + k]
      /\ Len(b) \in Nat
      /\ DOMAIN buffers' = Slots /\ \A i \in Slots \ {cur} : buffers'[i] = buffers[i]
      /\ buffers'[cur] \in Seq(Chunks) /\ Len(buffers'[cur]) = Len(b) + n
      /\ \A k \in 1 .. Len(b) : buffers'[cur][k] = b[k]
      /\ \A k \in 1 .. n : buffers'[cur][Len(b) + k] = s[k]
  BY <1>2 DEF Read
<1>4. /\ c = ConnOf(cur) /\ n = RoomFor(rx[c]) /\ s = rx[c] /\ b = buffers[cur]
      /\ c \in Conns /\ cur \in Slots /\ cur \in Active
      /\ Len(s) \in Nat /\ Len(b) \in Nat /\ n \in Nat /\ n >= 1 /\ n <= Len(s)
      /\ Len(rx'[c]) = Len(s) - n /\ Len(buffers'[cur]) = Len(b) + n
  BY <1>2 DEF Read
<1>5. /\ UNCHANGED <<fds, slots, cur, canvas, sent>> /\ pc' = "frames" /\ Script' = Script
      /\ Fills(b) = {} /\ slots[cur].done
  BY <1>4 DEF Recv, Stay, GoTo, drawVars, Script, Received, Delivery, Fresh
<1>6. Active' = Active /\ \A i \in Slots : ConnOf(i)' = ConnOf(i)
  BY <1>5 DEF Active, ConnOf
<1>7. PICK u \in Nat : /\ u = Consumed(c) /\ sent[c] = u + Len(s) /\ sent[c] \in Nat
                       /\ sent[c] <= Len(Script[c])
  <2>1. sent[c] \in Nat /\ Len(rx[c]) \in Nat /\ Len(rx[c]) <= sent[c] /\ sent[c] <= Len(Script[c])
    BY <1>4, Lengths
  <2>2. Consumed(c) = sent[c] - Len(s)
    BY <1>4 DEF Consumed
  <2>3. sent[c] - Len(s) \in Nat /\ sent[c] = (sent[c] - Len(s)) + Len(s)
    BY <1>4, <2>1
  <2> QED BY <2>1, <2>2, <2>3
<1>8. Consumed(c)' = u + n /\ \A d \in Conns \ {c} : Consumed(d)' = Consumed(d)
  <2>1. Consumed(c)' = sent[c] - (Len(s) - n)
    BY <1>4, <1>5 DEF Consumed
  <2>2. \A d \in Conns \ {c} : Consumed(d)' = Consumed(d)
    BY <1>3, <1>5 DEF Consumed
  <2>3. sent[c] - (Len(s) - n) = u + n
    BY <1>4, <1>7
  <2> QED BY <2>1, <2>2, <2>3
<1>9. \A k \in 1 .. Len(s) : s[k] = Script[c][u + k]
  BY <1>4, <1>7 DEF Streamed
<1>10. Streamed'
  <2> SUFFICES ASSUME NEW d \in Conns
               PROVE  /\ sent'[d] <= Len(Script'[d]) /\ Len(rx'[d]) <= sent'[d]
                      /\ \A k \in 1 .. Len(rx'[d]) : rx'[d][k] = Script'[d][Consumed(d)' + k]
    BY DEF Streamed
  <2>1. CASE d = c
    <3>1. \A k \in 1 .. Len(s) - n : n + k \in 1 .. Len(s) /\ u + (n + k) = (u + n) + k
      BY <1>4, <1>7
    <3>2. \A k \in 1 .. Len(s) - n : rx'[c][k] = s[n + k]
      BY <1>3
    <3>3. \A k \in 1 .. Len(s) - n : rx'[c][k] = Script[c][(u + n) + k]
      BY <1>9, <3>1, <3>2
    <3>4. Len(s) - n <= sent[c] /\ Len(rx'[c]) = Len(s) - n
      BY <1>4, <1>7
    <3>5. sent' = sent /\ Script' = Script
      BY <1>5
    <3>6. sent'[c] <= Len(Script'[c]) /\ Len(rx'[c]) <= sent'[c]
      BY <1>7, <3>4, <3>5
    <3>7. \A k \in 1 .. Len(rx'[c]) : rx'[c][k] = Script'[c][Consumed(c)' + k]
      BY <1>8, <3>3, <3>4, <3>5
    <3> QED BY <2>1, <3>6, <3>7
  <2>2. CASE d # c
    <3>1. rx'[d] = rx[d] /\ Consumed(d)' = Consumed(d)
      BY <1>3, <1>8, <2>2
    <3> QED BY <1>5, <3>1 DEF Streamed
  <2> QED BY <2>1, <2>2
<1>11. ASSUME NEW i \in Active, i # cur
       PROVE  /\ i \in Slots /\ ConnOf(i) \in Conns \ {c} /\ buffers'[i] = buffers[i]
              /\ \A d \in Conns \ {c} : Processed(i, d)' = Processed(i, d)
  <2>1. i \in Slots /\ ConnOf(i) \in Conns \ {c}
    BY <1>1, <1>4, <1>11, ActiveOwns
  <2>2. buffers'[i] = buffers[i]
    BY <1>3, <1>11, <2>1
  <2> QED BY <1>8, <2>1, <2>2 DEF Processed
<1>12. /\ Len(b) <= u
       /\ \A k \in 1 .. Len(b) : b[k] = Script[c][(u - Len(b)) + k]
       /\ \A i : i = cur => Processed(i, c) = u - Len(b) /\ Processed(i, c)' = u - Len(b)
  <2>1. Processed(cur, c) = u - Len(b)
    BY <1>4, <1>7 DEF Processed
  <2>2. Len(b) <= u /\ \A k \in 1 .. Len(b) : b[k] = Script[c][(u - Len(b)) + k]
    BY <1>4, <1>7, <2>1 DEF Kept
  <2>3. \A i : i = cur => Processed(i, c)' = (u + n) - (Len(b) + n)
    BY <1>4, <1>8 DEF Processed
  <2>4. (u + n) - (Len(b) + n) = u - Len(b)
    BY <1>4, <1>7
  <2> QED BY <2>1, <2>2, <2>3, <2>4
<1>13. Kept'
  <2> SUFFICES ASSUME NEW i \in Active, NEW d \in Conns, ConnOf(i) = d
               PROVE  /\ Len(buffers'[i]) <= Consumed(d)'
                      /\ \A k \in 1 .. Len(buffers'[i]) : buffers'[i][k] = Script[d][Processed(i, d)' + k]
                      /\ slots[i].done \/ buffers'[i] = <<>>
    <3>1. \A i \in Active : i \in Slots
      BY DEF Active
    <3> QED BY <1>5, <1>6, <3>1 DEF Kept
  <2>1. CASE i = cur
    <3>1. d = c
      BY <1>4, <2>1
    <3>2. Len(b) + n <= Consumed(c)'
      BY <1>4, <1>7, <1>8, <1>12
    <3>3. \A k \in 1 .. Len(b) + n : buffers'[cur][k] = Script[c][(u - Len(b)) + k]
      <4> SUFFICES ASSUME NEW k \in 1 .. Len(b) + n
                   PROVE  buffers'[cur][k] = Script[c][(u - Len(b)) + k]
        OBVIOUS
      <4>1. CASE k \in 1 .. Len(b)
        BY <1>3, <1>12, <4>1
      <4>2. CASE k \notin 1 .. Len(b)
        <5>1. PICK j \in 1 .. n : k = Len(b) + j
          <6>1. k - Len(b) \in 1 .. n /\ k = Len(b) + (k - Len(b))
            BY <1>4, <4>2
          <6> QED BY <6>1
        <5>2. j \in 1 .. Len(s) /\ (u - Len(b)) + k = u + j
          BY <1>4, <1>7, <5>1
        <5>3. buffers'[cur][k] = s[j]
          BY <1>3, <5>1
        <5> QED BY <1>9, <5>2, <5>3
      <4> QED BY <4>1, <4>2
    <3>4. buffers'[i] = buffers'[cur] /\ Len(buffers'[i]) = Len(b) + n /\ slots[i].done
      BY <1>4, <1>5, <2>1
    <3>5. Processed(i, d)' = u - Len(b)
      BY <1>12, <2>1, <3>1
    <3> QED BY <3>1, <3>2, <3>3, <3>4, <3>5
  <2>2. CASE i # cur
    <3>1. /\ d \in Conns \ {c} /\ buffers'[i] = buffers[i]
          /\ Processed(i, d)' = Processed(i, d) /\ Consumed(d)' = Consumed(d)
      BY <1>8, <1>11, <2>2
    <3> QED BY <3>1 DEF Kept
  <2> QED BY <2>1, <2>2
<1>14. \A i \in Active, d \in Conns : ConnOf(i) = d => Processed(i, d)' = Processed(i, d)
  <2> SUFFICES ASSUME NEW i \in Active, NEW d \in Conns, ConnOf(i) = d
               PROVE  Processed(i, d)' = Processed(i, d)
    OBVIOUS
  <2>1. CASE i = cur
    BY <1>4, <1>12, <2>1
  <2>2. CASE i # cur
    BY <1>11, <2>2
  <2> QED BY <2>1, <2>2
<1>15. Applied'
  <2> SUFFICES ASSUME NEW i \in Active, NEW d \in Conns, ConnOf(i) = d,
                      NEW k \in DrawnBy(d), k <= Processed(i, d)', Alone(d, k)
               PROVE  canvas[Cell(d, k)] = Script[d][k].color
    <3>1. \A e \in Conns : DrawnBy(e)' = DrawnBy(e)
      BY <1>5 DEF DrawnBy
    <3>2. \A e \in Conns, k \in Nat : (Alone(e, k)' <=> Alone(e, k)) /\ Cell(e, k)' = Cell(e, k)
      BY <1>5, <3>1 DEF Alone, Cell
    <3>3. \A e \in Conns : DrawnBy(e) \subseteq Nat
      BY DEF DrawnBy
    <3>4. \A i \in Active : i \in Slots
      BY DEF Active
    <3> QED BY <1>5, <1>6, <3>1, <3>2, <3>3, <3>4 DEF Applied
  <2>1. Processed(i, d)' = Processed(i, d)
    BY <1>14
  <2> QED BY <2>1 DEF Applied
<1>16. Partial'
  <2> SUFFICES ASSUME NEW i \in Active
               PROVE  /\ WholeFrame(buffers'[i]) => i = cur
                      /\ \A k \in 1 .. Len(buffers'[i]) : buffers'[i][k].kind = "big" => k = Len(buffers'[i])
    BY <1>5, <1>6 DEF Partial, Processing
  <2>1. CASE i = cur
    <3> SUFFICES ASSUME NEW k \in 1 .. Len(b) + n, buffers'[cur][k].kind = "big" PROVE k = Len(b) + n
      BY <1>3, <1>4, <2>1
    <3>1. k \notin 1 .. Len(b)
      <4> SUFFICES ASSUME k \in 1 .. Len(b) PROVE FALSE
        OBVIOUS
      <4>1. b[k].kind = "big" /\ k \in DOMAIN b
        BY <1>4, <1>3, LenProperties DEF Arrivals
      <4> QED BY <1>5, <4>1 DEF Fills
    <3>2. PICK j \in 1 .. n : k = Len(b) + j
      <4>1. k - Len(b) \in 1 .. n /\ k = Len(b) + (k - Len(b))
        BY <1>4, <3>1
      <4> QED BY <4>1
    <3>3. s[j].kind = "big" /\ j \in DOMAIN s
      <4>1. j \in 1 .. Len(s) /\ DOMAIN s = 1 .. Len(s)
        BY <1>3, <1>4, LenProperties
      <4> QED BY <1>3, <1>4, <3>2, <4>1
    <3>4. n <= j
      <4>1. s \in Seq(Range(Script[c])) /\ s # <<>>
        BY <1>2 DEF Read
      <4>2. j \in Fills(s)
        BY <3>3 DEF Fills
      <4> QED BY <1>4, <4>1, <4>2, RoomForSome
    <3> QED BY <1>3, <1>4, <3>2, <3>4
  <2>2. CASE i # cur
    BY <1>5, <1>11, <2>2 DEF Partial, Processing, Recv
  <2> QED BY <2>1, <2>2
<1>17. Whose'
  BY <1>3, <1>4, <1>5, <1>6 DEF Whose
<1> QED BY <1>10, <1>13, <1>15, <1>16, <1>17

(* The first frame leaves the buffer for the canvas.                       *)
LEMMA FrameDrawing ==
  ASSUME IInv, Delivery, Arrivals, Drawing, ProcessFrame, UNCHANGED world
  PROVE  Streamed' /\ Buffered'
<1> USE DEF Drawing, Buffered
<1>1. PICK b, m : b = buffers[cur] /\ m = Segments(b)
  OBVIOUS
<1>2. /\ cur \in Slots /\ b \in Seq(Chunks) /\ Len(b) \in Nat /\ DOMAIN b = 1 .. Len(b)
      /\ m \in 1 .. Len(b) /\ m \in {1, 2} /\ (m = 2 => b[1].kind = "head")
      /\ FirstFrame(b) = b[m] /\ b[m] \in Chunks
      /\ DOMAIN buffers' = Slots /\ \A i \in Slots \ {cur} : buffers'[i] = buffers[i]
      /\ buffers'[cur] \in Seq(Chunks) /\ Len(buffers'[cur]) = Len(b) - m
      /\ \A k \in 1 .. Len(b) - m : buffers'[cur][k] = b[m + k]
  BY <1>1, FrameTaken
<1>3. Len(b) \in Nat /\ m \in Nat /\ m >= 1 /\ m <= Len(b) /\ m \in {1, 2}
  <2>1. Len(b) \in Nat /\ m \in 1 .. Len(b) /\ m \in {1, 2}
    BY <1>2, Zenon
  <2> QED BY <2>1
<1>4. /\ pc = "frames" /\ pc' \in {"frames", "send"} /\ UNCHANGED <<sent, rx, cur>>
      /\ Script' = Script /\ AcceptedOnce /\ Remain
  <2>1. pc = "frames" /\ pc' \in {"frames", "send"} /\ UNCHANGED <<sent, rx, cur>>
    BY DEF ProcessFrame, GoTo
  <2>2. Remain
    BY <2>1, RemainStep DEF Steps, Accept
  <2> QED BY <2>1, <2>2 DEF Script, Delivery
<1>5. PICK d \in Conns, n \in Nat :
        /\ n + Len(b) <= sent[d] /\ sent[d] \in Nat
        /\ \A k \in 1 .. Len(b) : b[k] = Script[d][n + k]
        /\ \A i \in Active : ConnOf(i) = d => i = cur
        /\ cur \in Active => ConnOf(cur) = d /\ n = Processed(cur, d)
  <2>1. CASE cur \in Active
    <3>1. /\ ConnOf(cur) \in Conns /\ Processed(cur, ConnOf(cur)) \in Nat
          /\ Processed(cur, ConnOf(cur)) + Len(b) <= sent[ConnOf(cur)] /\ sent[ConnOf(cur)] \in Nat
      BY <1>1, <1>4, <2>1, BufferLengths
    <3>2. \A k \in 1 .. Len(b) : b[k] = Script[ConnOf(cur)][Processed(cur, ConnOf(cur)) + k]
      BY <1>1, <2>1, <3>1 DEF Kept
    <3>3. \A i \in Active : ConnOf(i) = ConnOf(cur) => i = cur
      BY <1>4, <2>1, ActiveOwns
    <3> QED BY <3>1, <3>2, <3>3
  <2>2. CASE cur \notin Active
    <3>1. PICK d \in Conns, n \in Nat : From(d, n)
      BY <1>4, <2>2 DEF Whose
    <3>2. sent[d] \in Nat
      BY DEF Arrivals
    <3> QED BY <1>1, <2>2, <3>1, <3>2 DEF From
  <2> QED BY <2>1, <2>2
<1>6. n \in Nat /\ sent[d] \in Nat /\ n + Len(b) <= sent[d]
  BY <1>5
<1>7. \A k \in 1 .. Len(b) : b[k] = Script[d][n + k]
  BY <1>5
<1>8. /\ b[m] = Script[d][n + m] /\ n + m \in 1 .. sent[d]
      /\ m = 2 => Script[d][n + 1].kind = "head"
  <2>1. n + m \in 1 .. sent[d] /\ 1 \in 1 .. Len(b) /\ m \in 1 .. Len(b)
    BY <1>3, <1>6
  <2>2. m = 2 => b[1].kind = "head"
    BY <1>2
  <2> QED BY <1>7, <2>1, <2>2
<1>9. \A e \in Conns : Consumed(e)' = Consumed(e) /\ DrawnBy(e)' = DrawnBy(e)
  BY <1>4 DEF Consumed, DrawnBy
<1>10. Streamed'
  BY <1>4, <1>9 DEF Streamed
<1>11. ASSUME NEW i \in Active'
      PROVE  /\ i \in Active /\ i \in Slots /\ ConnOf(i) \in Conns /\ ConnOf(i)' = ConnOf(i)
             /\ slots[i].done => slots'[i].done
             /\ i # cur => buffers'[i] = buffers[i] /\ ConnOf(i) # d
             /\ i = cur => ConnOf(i) = d
             /\ \A e \in Conns : i # cur => Processed(i, e)' = Processed(i, e)
  <2>1. /\ i \in Active /\ i \in Slots /\ ConnOf(i) \in Conns /\ ConnOf(i)' = ConnOf(i)
        /\ slots[i].done => slots'[i].done
    BY <1>4, ActiveOwns DEF Remain
  <2>2. i # cur => buffers'[i] = buffers[i]
    BY <1>2, <2>1
  <2>3. \A e \in Conns : i # cur => Processed(i, e)' = Processed(i, e)
    BY <1>9, <2>2 DEF Processed
  <2> QED BY <1>5, <2>1, <2>2, <2>3
<1>12. cur \in Active => /\ Len(b) <= Consumed(d) /\ Consumed(d) \in Nat /\ n = Consumed(d) - Len(b)
                        /\ \A i : i = cur => Processed(i, d)' = n + m
  <2> SUFFICES ASSUME cur \in Active
               PROVE  /\ Len(b) <= Consumed(d) /\ Consumed(d) \in Nat /\ n = Consumed(d) - Len(b)
                      /\ \A i : i = cur => Processed(i, d)' = n + m
    OBVIOUS
  <2>1. ConnOf(cur) = d /\ n = Consumed(d) - Len(b)
    BY <1>1, <1>5 DEF Processed
  <2>2. Len(b) <= Consumed(d)
    BY <1>1, <2>1 DEF Kept
  <2>3. Consumed(d) \in Nat
    BY Lengths
  <2>4. \A i : i = cur => Processed(i, d)' = Consumed(d) - (Len(b) - m)
    BY <1>2, <1>9 DEF Processed
  <2>5. Consumed(d) - (Len(b) - m) = n + m
    BY <1>3, <2>1, <2>2, <2>3
  <2> QED BY <2>1, <2>2, <2>3, <2>4, <2>5
<1>13. \A k \in 1 .. Len(b) - m : buffers'[cur][k] = Script[d][(n + m) + k]
  <2>1. \A k \in 1 .. Len(b) - m : m + k \in 1 .. Len(b) /\ n + (m + k) = (n + m) + k
    BY <1>3, <1>6
  <2>2. \A k \in 1 .. Len(b) - m : buffers'[cur][k] = b[m + k]
    BY <1>2
  <2> QED BY <1>7, <2>1, <2>2
<1>14. Kept'
  <2> SUFFICES ASSUME NEW i \in Active', NEW e \in Conns, ConnOf(i)' = e
               PROVE  /\ Len(buffers'[i]) <= Consumed(e)'
                      /\ \A k \in 1 .. Len(buffers'[i]) : buffers'[i][k] = Script'[e][Processed(i, e)' + k]
                      /\ slots'[i].done \/ buffers'[i] = <<>>
    BY DEF Kept
  <2>1. CASE i = cur
    <3>1. e = d /\ cur \in Active /\ slots'[cur].done
      <4>1. e = d /\ cur \in Active
        BY <1>11, <2>1
      <4>2. slots[cur].done
        BY <1>4 DEF Delivery, Fresh
      <4> QED BY <1>11, <2>1, <4>1, <4>2
    <3>2. Len(b) - m <= Consumed(d)
      BY <1>3, <1>12, <3>1
    <3>3. buffers'[i] = buffers'[cur] /\ Len(buffers'[i]) = Len(b) - m
      BY <1>2, <2>1
    <3>4. Processed(i, d)' = n + m
      BY <1>12, <2>1, <3>1
    <3> QED BY <1>4, <1>9, <1>13, <2>1, <3>1, <3>2, <3>3, <3>4
  <2>2. CASE i # cur
    <3>1. /\ i \in Active /\ ConnOf(i) = e /\ buffers'[i] = buffers[i] /\ (slots[i].done => slots'[i].done)
          /\ Processed(i, e)' = Processed(i, e)
      BY <1>11, <2>2
    <3> QED BY <1>4, <1>9, <3>1 DEF Kept
  <2> QED BY <2>1, <2>2
<1>15. Applied'
  <2> SUFFICES ASSUME NEW i \in Active', NEW e \in Conns, ConnOf(i)' = e,
                      NEW k \in DrawnBy(e), k <= Processed(i, e)', Alone(e, k)
               PROVE  canvas'[Cell(e, k)] = Script[e][k].color
    <3>1. \A x \in Conns : \A y \in DrawnBy(x) : (Alone(x, y)' <=> Alone(x, y)) /\ Cell(x, y)' = Cell(x, y)
      BY <1>4, <1>9 DEF Alone, Cell
    <3> QED BY <1>4, <1>9, <3>1 DEF Applied
  <2>1. i \in Active /\ ConnOf(i) = e /\ Cell(e, k) \in 1 .. Cells
    BY <1>11 DEF Alone
  <2>2. k \in Nat /\ Script[e][k].kind \in {"draw", "tail"}
    BY DEF DrawnBy
  <2>3. CASE e = d /\ k = n + m
    <3>1. b[m].kind \in {"draw", "tail"} /\ InRange(b[m])
      BY <1>8, <2>1, <2>2, <2>3 DEF InRange, Cell
    <3>2. canvas' = [canvas EXCEPT ![b[m].at] = b[m].color]
      BY <1>1, <1>2, <3>1 DEF ProcessFrame
    <3> QED BY <1>8, <2>1, <2>3, <3>2 DEF Cell, Delivery, Displays
  <2>4. CASE ~(e = d /\ k = n + m)
    <3>1. k <= Processed(i, e) /\ (e = d => k < n + m)
      <4>1. CASE i = cur
        <5>1. e = d /\ n = Processed(i, d) /\ Processed(i, d)' = n + m
          BY <1>5, <1>11, <1>12, <2>1, <4>1
        <5>2. k # n + m /\ k <= n + m
          BY <2>4, <5>1
        <5>3. m = 2 => k # n + 1
          BY <1>8, <2>2, <5>1
        <5>4. k <= n /\ k < n + m
          BY <1>3, <1>6, <2>2, <5>2, <5>3
        <5> QED BY <5>1, <5>4
      <4>2. CASE i # cur
        BY <1>11, <2>1, <4>2
      <4> QED BY <4>1, <4>2
    <3>2. canvas[Cell(e, k)] = Script[e][k].color
      BY <2>1, <3>1 DEF Applied
    <3>3. CASE UNCHANGED canvas
      BY <3>2, <3>3
    <3>4. CASE b[m].kind \in {"draw", "tail"} /\ canvas' = [canvas EXCEPT ![b[m].at] = b[m].color]
      <4>1. n + m \in DrawnBy(d)
        BY <1>8, <3>4 DEF DrawnBy
      <4>2. Cell(d, n + m) # Cell(e, k)
        <5> SUFFICES ASSUME Cell(d, n + m) = Cell(e, k) PROVE FALSE
          OBVIOUS
        <5>1. d = e /\ n + m <= k
          BY <4>1 DEF Alone
        <5> QED BY <1>3, <1>6, <2>2, <3>1, <5>1
      <4> QED BY <1>8, <2>1, <3>2, <3>4, <4>2 DEF Cell, Delivery, Displays
    <3> QED BY <1>1, <1>2, <3>3, <3>4 DEF ProcessFrame
  <2> QED BY <2>3, <2>4
<1>16. Partial'
  <2> SUFFICES ASSUME NEW i \in Active'
               PROVE  /\ WholeFrame(buffers'[i]) => i = cur
                      /\ \A k \in 1 .. Len(buffers'[i]) : buffers'[i][k].kind = "big" => k = Len(buffers'[i])
    BY <1>4 DEF Partial, Processing
  <2>1. CASE i = cur
    <3> SUFFICES ASSUME NEW k \in 1 .. Len(b) - m, buffers'[cur][k].kind = "big" PROVE k = Len(b) - m
      BY <1>2, <2>1
    <3>1. m + k \in 1 .. Len(b)
      BY <1>3
    <3>2. b[m + k].kind = "big"
      BY <1>2
    <3>3. m + k = Len(b)
      BY <1>1, <1>11, <2>1, <3>1, <3>2 DEF Partial
    <3> QED BY <1>3, <3>3
  <2>2. CASE i # cur
    BY <1>11, <2>2 DEF Partial
  <2> QED BY <2>1, <2>2
<1>17. Whose'
  <2> SUFFICES ASSUME cur \notin Active' PROVE \E e \in Conns, j \in Nat : From(e, j)'
    BY <1>4 DEF Whose
  <2>1. n + m \in Nat /\ (n + m) + (Len(b) - m) <= sent[d]
    BY <1>3, <1>6
  <2>2. \A i \in Active' : ConnOf(i)' # d
    BY <1>11
  <2>3. cur' = cur /\ Len(buffers'[cur]) = Len(b) - m /\ sent' = sent /\ Script' = Script
    BY <1>2, <1>4
  <2>4. From(d, n + m)'
    BY <1>13, <2>1, <2>2, <2>3 DEF From
  <2> QED BY <2>1, <2>4
<1> QED BY <1>10, <1>14, <1>15, <1>16, <1>17

LEMMA DrawingSteps ==
  ASSUME IInv, Delivery, Arrivals, Drawing, Steps, UNCHANGED world PROVE Drawing'
<1>1. Unframed' /\ AcceptedOnce
  BY UnframedStep DEF Delivery, Drawing
<1>2. CASE Accept \/ Handshake \/ ProcessFrame \/ (Recv /\ Received = "data")
  BY <1>1, <1>2, AcceptDrawing, HandshakeDrawing, FrameDrawing, RecvDrawing DEF Drawing
<1>3. CASE ~(Accept \/ Handshake \/ ProcessFrame \/ (Recv /\ Received = "data"))
  <2>1. Remain
    BY <1>3, RemainStep
  <2>2. UNCHANGED <<sent, rx, canvas, buffers>>
    <3>1. CASE EpollWait \/ NextEvent \/ Dispatch \/ AcceptEnds
      BY <3>1 DEF EpollWait, NextEvent, Dispatch, AcceptEnds, netVars, drawVars
    <3>2. CASE Initial \/ FramesEnd \/ Hangup \/ Send \/ SendEnds
      BY <3>2 DEF Initial, FramesEnd, Hangup, Send, SendEnds, netVars, drawVars
    <3>3. CASE Recv
      BY <1>3, <3>3 DEF Recv, drawVars
    <3> QED BY <1>3, <3>1, <3>2, <3>3 DEF Steps
  <2>3. /\ pc' \in {"frames", "send"} => pc \in {"frames", "send"} /\ cur' = cur
        /\ pc \in Processing /\ WholeFrame(buffers[cur]) => pc' \in Processing /\ cur' = cur
    <3>1. CASE EpollWait \/ NextEvent \/ Dispatch \/ AcceptEnds
      BY <3>1 DEF EpollWait, NextEvent, Dispatch, AcceptEnds, GoTo, Processing
    <3>2. CASE Initial \/ Hangup
      BY <3>2 DEF Initial, Hangup, GoTo, Processing
    <3>3. CASE FramesEnd \/ Send \/ SendEnds
      BY <3>3 DEF FramesEnd, Send, SendEnds, GoTo, Processing
    <3>4. CASE Recv
      BY <1>3, <3>4 DEF Recv, GoTo, Processing
    <3> QED BY <1>3, <3>1, <3>2, <3>3, <3>4 DEF Steps
  <2>4. \A c \in Conns : sent[c] \in Nat
    BY DEF Arrivals
  <2>5. Buffered'
    BY <1>1, <2>1, <2>2, <2>3, <2>4, AsBefore DEF Drawing
  <2>6. Streamed'
    BY <2>2 DEF Drawing, Streamed, Consumed, Script
  <2> QED BY <1>1, <2>5, <2>6 DEF Drawing
<1> QED BY <1>2, <1>3

LEMMA AllDrawn == ASSUME IInv, AcceptedOnce, Arrivals, Drawing PROVE DrawingsApplied
<1> USE DEF Drawing, Buffered
<1> SUFFICES ASSUME Idle, NEW i \in Open, NEW c \in Conns, c = ConnOf(i), rx[c] = <<>>,
                    NEW k \in DrawnBy(c), Alone(c, k)
             PROVE  canvas[Cell(c, k)] = Script[c][k].color
  BY OpenOwns DEF DrawingsApplied
<1> DEFINE b == buffers[i]
<1>1. i \in Active /\ i \in Slots /\ pc = "wait"
  BY DEF Idle, Open, Active
<1>2. Consumed(c) = sent[c] /\ sent[c] \in Nat /\ Len(b) \in Nat /\ b \in Seq(Chunks)
      /\ Processed(i, c) \in Nat /\ Processed(i, c) + Len(b) = sent[c]
  <2>1. Consumed(c) = sent[c] /\ sent[c] \in Nat
    BY Lengths, EmptySeq DEF Consumed
  <2> QED BY <1>1, <2>1, BufferLengths DEF Arrivals
<1>3. b = <<>> \/ (Len(b) = 1 /\ b[1].kind \in {"head", "big"})
  <2> SUFFICES ASSUME b # <<>> PROVE Len(b) = 1 /\ b[1].kind \in {"head", "big"}
    OBVIOUS
  <2>1. Len(b) >= 1 /\ Head(b) = b[1]
    BY <1>2, HeadTailProperties
  <2>2. /\ ~WholeFrame(buffers[i])
        /\ \A j \in 1 .. Len(buffers[i]) : buffers[i][j].kind = "big" => j = Len(buffers[i])
    BY <1>1 DEF Partial, Processing
  <2>3. CASE b[1].kind = "big"
    <3>1. 1 \in 1 .. Len(b)
      BY <1>2, <2>1
    <3> QED BY <2>2, <2>3, <3>1
  <2>4. CASE b[1].kind # "big"
    <3>1. Head(b).kind = "head" /\ ~(2 <= Len(b))
      BY <2>1, <2>2, <2>4 DEF WholeFrame, Segments
    <3>2. b[1].kind = "head"
      BY <2>1, <3>1
    <3>3. PICK l : l = Len(b)
      OBVIOUS
    <3>4. l \in Nat /\ l >= 1 /\ ~(2 <= l)
      BY <1>2, <2>1, <3>1, <3>3
    <3>5. l = 1
      BY <3>4
    <3> QED BY <3>2, <3>3, <3>5
  <2> QED BY <2>3, <2>4
<1>4. k <= Processed(i, c)
  <2>1. k \in 1 .. sent[c] /\ Script[c][k].kind \in {"draw", "tail"}
    BY DEF DrawnBy
  <2>2. CASE b = <<>>
    BY <1>2, <2>1, <2>2, EmptySeq
  <2>3. CASE Len(b) = 1 /\ b[1].kind \in {"head", "big"}
    <3>1. b[1] = Script[c][Processed(i, c) + 1]
      BY <1>1, <2>3 DEF Kept
    <3> QED BY <1>2, <2>1, <2>3, <3>1
  <2> QED BY <1>3, <2>2, <2>3
<1> QED BY <1>1, <1>4 DEF Applied

-----------------------------------------------------------------------------
(***************************************************************************)
(* The saving thread.  Saving is the module of the proofs about CanvasFile *)
(* for this server.                                                        *)
(***************************************************************************)
Saving == INSTANCE CanvasFileProofs WITH White <- Blank, Zero <- Blank,
                                         WriteFails <- FALSE, FlushFails <- FALSE

LEMMA FileConstants == Saving!CanvasFileAssumption
BY SlotServerAssumption, UsageServerAssumption DEF Saving!CanvasFileAssumption, Saving!Files, File!Files

(* The number of the stream is the saving thread's.                        *)
Stream == saver \in {"open", "written"} => file \in Fds /\ fds[file] = TmpFile

(* A number that is no connection's changes hands.                         *)
LEMMA NumberKeeps ==
  ASSUME IInv, Delivery, NEW f \in Fds, fds[f] \notin Conns, NEW v \in {Closed, TmpFile},
         fds' = [fds EXCEPT ![f] = v],
         UNCHANGED <<peer, backlog, slots, pc, cur, call, wire, screen, canvas>>
  PROVE  IInv' /\ Delivery' /\ \A i \in Active : slots[i].fd \in Fds /\ slots[i].fd # f
<1>1. v \notin Conns
  BY SocketsAssumption
<1>2. DOMAIN fds' = Fds /\ fds'[f] = v /\ \A g \in Fds \ {f} : fds'[g] = fds[g]
  BY DEF IInv, Shapes
<1>3. \A i \in Active : slots[i].fd \in Fds /\ slots[i].fd # f
  BY DEF IInv, Shapes, TableMatchesSockets, Active, ConnOf
<1>4. Active' = Active /\ Open' = Open /\ \A i \in Active : ConnOf(i)' = ConnOf(i)
  BY <1>2, <1>3 DEF Active, Open, ConnOf
<1>5. IInv'
  <2>1. Shapes'
    BY <1>2 DEF IInv, Shapes
  <2>2. CurrentOwns'
    BY <1>1, <1>2 DEF IInv, CurrentOwns
  <2>3. TableMatchesSockets'
    BY <1>1, <1>2, <1>4 DEF IInv, TableMatchesSockets
  <2> QED BY <2>1, <2>2, <2>3 DEF IInv
<1>6. AcceptedOnce'
  <2>1. \A g \in Fds : fds'[g] \in Conns => fds'[g] = fds[g]
    BY <1>1, <1>2
  <2>2. \A k \in 1 .. Len(backlog) : backlog[k] \in Conns
    BY ElementOfSeq DEF IInv, Shapes
  <2>3. \A g \in Fds : fds'[g] \in Conns \cup {Closed, TmpFile}
    BY <1>2 DEF Delivery, AcceptedOnce
  <2>4. \A g, h \in Fds : fds'[g] \in Conns /\ fds'[h] = fds'[g] => h = g
    BY <2>1 DEF Delivery, AcceptedOnce
  <2>5. \A k \in 1 .. Len(backlog) : \A g \in Fds : fds'[g] # backlog[k]
    BY <2>1, <2>2 DEF Delivery, AcceptedOnce
  <2> QED BY <2>1, <2>3, <2>4, <2>5 DEF Delivery, AcceptedOnce
<1>7. Reaches'
  <2>1. \A i \in Open : i \in Active
    BY DEF Open
  <2> QED BY <1>4, <2>1 DEF Delivery, Reaches, Shows, Whole
<1>8. Displays' /\ Fresh' /\ CallShape'
  BY DEF Delivery, Displays, Fresh, CallShape
<1> QED BY <1>3, <1>5, <1>6, <1>7, <1>8 DEF Delivery

LEMMA NumberRemain ==
  ASSUME IInv, NEW f \in Fds, fds[f] \notin Conns, NEW v, fds' = [fds EXCEPT ![f] = v], UNCHANGED slots
  PROVE  Remain
<1>1. Active' = Active /\ \A i \in Active : slots[i].fd \in Fds /\ slots[i].fd # f
  BY DEF IInv, Shapes, TableMatchesSockets, Active, ConnOf
<1>2. \A i \in Active : ConnOf(i)' = ConnOf(i)
  BY <1>1 DEF ConnOf, IInv, Shapes
<1> QED BY <1>1, <1>2 DEF Remain

(* Neither the loop nor a page does anything.                              *)
LEMMA StillDrawing ==
  ASSUME IInv, AcceptedOnce, Arrivals, Drawing, Remain,
         UNCHANGED <<world, peer, sent, backlog, rx, wire, slots, buffers, pc, cur, canvas>>
  PROVE  Drawing'
<1>1. \A c \in Conns : sent[c] \in Nat
  BY DEF Arrivals
<1>2. Buffered'
  BY <1>1, AsBefore DEF Drawing
<1>3. Streamed'
  BY DEF Drawing, Streamed, Consumed, Script
<1>4. Unframed'
  BY DEF Drawing, Unframed, Remain, Contains, Script
<1> QED BY <1>2, <1>3, <1>4 DEF Drawing

LEMMA NumberGentle ==
  ASSUME IInv, Delivery, Gentle, NEW f \in Fds, fds[f] \notin Conns, NEW v \in {Closed, TmpFile},
         fds' = [fds EXCEPT ![f] = v],
         UNCHANGED <<world, ready, batch, peer, backlog, slots, pc, cur>>
  PROVE  Gentle'
<1>1. v \notin Conns /\ \A g \in Fds \ {f} : fds'[g] = fds[g]
  BY SocketsAssumption DEF IInv, Shapes
<1>2. \A c \in Conns : Registered(c)' => Registered(c)
  <2>1. fds'[f] = v
    BY DEF IInv, Shapes
  <2> QED BY <1>1, <2>1 DEF Registered
<1>3. Live'
  BY <1>2, LiveKept DEF Gentle
<1>4. Listed(ready, fds)'
  <2>1. ASSUME NEW k \in 1 .. Len(ready), ready[k] # Listener PROVE \E g \in Fds : fds'[g] = ready[k]
    <3>1. PICK g \in Fds : fds[g] = ready[k]
      BY <2>1 DEF Gentle, Listed
    <3>2. ready[k] \in Conns
      BY <2>1, ElementOfSeq DEF Gentle, Listed
    <3> QED BY <1>1, <3>1, <3>2
  <2> QED BY <2>1 DEF Gentle, Listed
<1>5. Expected' /\ InHand'
  BY DEF Gentle, Expected, InHand, Active
<1> QED BY <1>3, <1>4, <1>5, OnceAlways DEF Gentle

(* The invariant, of worlds without a saving thread or without double      *)
(* closes; the world never changes.                                        *)
Tame == ~Saves \/ ClosedOnce
Consistent == /\ Tame /\ IInv /\ Delivery /\ Arrivals /\ Drawing
              /\ Saving!IInv /\ Stream
              /\ ClosedOnce => Gentle
              /\ ~Saves => saver = "asleep"

LEMMA TameAlways == ASSUME Tame, UNCHANGED world PROVE Tame'
BY OnceAlways DEF Tame, Saves

LEMMA InitConsistent == ASSUME UsageInit, Tame PROVE Consistent
<1>1. IInv /\ Delivery /\ (ClosedOnce => Gentle)
  BY InitIInv, InitDelivery, InitGentle DEF UsageInit
<1>2. Arrivals /\ Drawing
  BY EmptySeq, InitDrawing DEF UsageInit, SlotInit, setup_server, NetInit, Arrivals
<1>3. Saving!FileInit /\ saver = "asleep"
  BY DEF UsageInit, File!FileInit, Saving!FileInit, File!Filled, Saving!Filled
<1>4. Saving!IInv
  BY <1>3, FileConstants, Saving!InitIInv DEF Saving!InitIInv
<1> QED BY <1>1, <1>2, <1>3, <1>4 DEF Consistent, Stream

(* What each part of the server does to the file, as a step of CanvasFile. *)
FileStep == Saving!Next \/ UNCHANGED Saving!fileVars

LEMMA FileKept == ASSUME Saving!IInv, FileStep PROVE Saving!IInv'
BY FileConstants, Saving!StepIInv DEF Saving!StepIInv, FileStep

LEMMA EventFile ==
  ASSUME IInv, AcceptedOnce, Arrivals, Steps, UNCHANGED savedVars PROVE FileStep
<1>1. UNCHANGED <<tmp, dat, buffer, saver, written>>
  BY DEF savedVars
<1>2. CASE UNCHANGED canvas
  BY <1>1, <1>2 DEF FileStep, Saving!fileVars
<1>3. CASE \E at \in 1 .. Cells, color \in Colors : canvas' = [canvas EXCEPT ![at] = color]
  BY <1>1, <1>3 DEF FileStep, Saving!Next, Saving!Paint, Saving!SetPixel
<1> QED BY <1>2, <1>3, DrawingStep

LEMMA EventConsistent ==
  ASSUME Consistent, EventThread PROVE Consistent' /\ FileStep
<1>1. Steps /\ UNCHANGED <<world, savedVars>>
  BY DEF EventThread, rounds, accepting, websocket_handshake, greeting, reading,
         process_websocket_frame, broadcast_to_clients, Steps
<1>2. IInv' /\ Delivery' /\ Arrivals' /\ Drawing'
  BY <1>1, StepsKeep, DeliveryStep, ArrivalsSteps, DrawingSteps DEF Consistent, Delivery, Steps
<1>3. FileStep /\ Saving!IInv'
  BY <1>1, EventFile, FileKept DEF Consistent, Delivery
<1>4. UNCHANGED <<saver, file>>
  BY <1>1 DEF savedVars
<1>5. ASSUME ClosedOnce' PROVE Gentle' /\ Stream'
  <2>1. ClosedOnce
    BY <1>1, <1>5 DEF ClosedOnce, Aborting, Slow, Script
  <2>2. Gentle' /\ StreamLeft
    BY <1>1, <2>1, StepsGentle DEF Consistent
  <2> QED BY <1>4, <2>2 DEF Consistent, Stream, StreamLeft
<1>6. Tame' /\ (~Saves' => saver' = "asleep")
  BY <1>1, <1>4, TameAlways DEF Consistent, Saves
<1>7. Stream'
  BY <1>5, <1>6 DEF Tame, Stream
<1> QED BY <1>2, <1>3, <1>5, <1>6, <1>7 DEF Consistent

LEMMA PagesConsistent ==
  ASSUME Consistent, Pages PROVE Consistent' /\ FileStep
<1>1. Clients /\ UNCHANGED <<world, savedVars, canvas, fds>>
  <2>1. PICK c \in Conns : Client(c)
    BY DEF Pages, Clients
  <2>2. UNCHANGED fds
    BY <2>1 DEF Client, Connect, ClientSend, ClientLeave, Ended
  <2> QED BY <2>2 DEF Pages, Clients, drawVars
<1>2. IInv' /\ Delivery' /\ Arrivals' /\ Drawing'
  BY <1>1, ClientsKeep, DeliveryStep, ArrivalsClients, ClientsDrawing DEF Consistent, Delivery
<1>3. FileStep /\ Saving!IInv'
  BY <1>1, FileKept DEF Consistent, FileStep, Saving!fileVars, savedVars
<1>4. Stream' /\ Tame' /\ (~Saves' => saver' = "asleep")
  BY <1>1, TameAlways DEF Consistent, Saves, Stream, savedVars
<1>5. ASSUME ClosedOnce' PROVE Gentle'
  <2>1. ClosedOnce
    BY <1>1, <1>5 DEF ClosedOnce, Aborting, Slow, Script
  <2> QED BY <1>1, <2>1, ClientsGentle DEF Consistent, Delivery
<1> QED BY <1>2, <1>3, <1>4, <1>5 DEF Consistent

LEMMA SavingConsistent ==
  ASSUME Consistent, SavingThread PROVE Consistent' /\ FileStep
<1>1. /\ Saves /\ ClosedOnce /\ Gentle
      /\ UNCHANGED <<world, peer, sent, backlog, rx, slots, buffers, batch, cur, call, screen>>
  BY DEF SavingThread, Consistent, Tame
<1>2. Arrivals' /\ Tame' /\ Saves'
  BY <1>1, TameAlways DEF Consistent, Arrivals, Chunks, Script, Saves
<1>3. ASSUME FileStep, IInv', Delivery', Gentle', Stream',
             Remain, UNCHANGED <<canvas, wire, pc>>
      PROVE  Consistent' /\ FileStep
  <2>1. Saving!IInv'
    BY <1>3, FileKept DEF Consistent
  <2>2. Drawing'
    BY <1>1, <1>3, StillDrawing DEF Consistent, Delivery
  <2> QED BY <1>2, <1>3, <2>1, <2>2 DEF Consistent
<1>4. ASSUME UNCHANGED <<fds, ready, wire, canvas, pc>> PROVE IInv' /\ Delivery' /\ Gentle' /\ Remain
  <2>1. IInv' /\ Delivery'
    <3>1. IInv'
      BY <1>1, <1>4, SameSlots DEF Consistent, IInv, Shapes
    <3>2. Reaches'
      BY <1>1, <1>4, StillReaches DEF Consistent, Delivery, drawVars
    <3>3. AcceptedOnce' /\ Displays' /\ Fresh' /\ CallShape'
      BY <1>1, <1>4 DEF Consistent, Delivery, AcceptedOnce, Displays, Fresh, CallShape
    <3> QED BY <3>1, <3>2, <3>3 DEF Delivery
  <2>2. Gentle'
    BY <1>1, <1>4, OnceAlways DEF Gentle, Listed, Live, Registered, Expected, InHand, Active
  <2> QED BY <1>1, <1>4, <2>1, <2>2, SameRemain
<1>5. CASE FopenTmp
  <2>1. Lowest \in Fds /\ fds[Lowest] = Closed
    BY <1>5, LowestIn DEF FopenTmp
  <2>2. /\ fds' = [fds EXCEPT ![Lowest] = TmpFile] /\ file' = Lowest /\ UNCHANGED <<ready, wire, pc, canvas>>
        /\ Saving!OpenTmp
    BY <1>5 DEF FopenTmp, File!OpenTmp, Saving!OpenTmp
  <2>3. IInv' /\ Delivery' /\ Gentle'
    BY <1>1, <2>1, <2>2, Names, NumberKeeps, NumberGentle DEF Consistent
  <2>5. Remain
    BY <1>1, <2>1, <2>2, Names, NumberRemain DEF Consistent
  <2>4. Stream'
    BY <2>1, <2>2 DEF Stream, Consistent, IInv, Shapes
  <2>6. FileStep /\ UNCHANGED <<canvas, wire, pc>>
    BY <2>2 DEF FileStep, Saving!Next, Saving!Save
  <2> QED BY <1>3, <2>3, <2>4, <2>5, <2>6
<1>6. CASE FwriteTmp
  <2>1. saver = "open" /\ file \in Fds /\ fds[file] = TmpFile
    BY <1>6 DEF FwriteTmp, File!WriteTmp, Consistent, Stream
  <2>2. File!WriteTmp(Cells) /\ UNCHANGED <<fds, ready, wire, file, pc>>
    BY <1>6, <2>1 DEF FwriteTmp
  <2>3. Saving!WriteTmp(Cells) /\ UNCHANGED canvas
    BY <2>2 DEF File!WriteTmp, Saving!WriteTmp
  <2>4. FileStep
    BY <2>3 DEF FileStep, Saving!Next, Saving!Save
  <2>5. Stream'
    BY <2>1, <2>2 DEF Stream
  <2> QED BY <1>3, <1>4, <2>2, <2>3, <2>4, <2>5
<1>7. CASE FcloseTmp
  <2>1. saver = "written" /\ file \in Fds /\ fds[file] = TmpFile
    BY <1>7 DEF FcloseTmp, File!CloseTmp, Consistent, Stream
  <2>2. File!CloseTmp(TRUE) /\ CloseFd(file) /\ UNCHANGED <<wire, pc>>
    BY <1>7, <2>1 DEF FcloseTmp
  <2>3. fds' = [fds EXCEPT ![file] = Closed] /\ UNCHANGED ready
    BY <2>1, <2>2, SocketsAssumption DEF CloseFd
  <2>4. Saving!CloseTmp(TRUE) /\ UNCHANGED canvas /\ saver' = "closed"
    BY <2>2 DEF File!CloseTmp, Saving!CloseTmp
  <2>5. IInv' /\ Delivery' /\ Gentle'
    BY <1>1, <2>1, <2>2, <2>3, <2>4, SocketsAssumption, NumberKeeps, NumberGentle DEF Consistent
  <2>6. Stream'
    BY <2>4 DEF Stream
  <2>7. FileStep
    BY <2>4 DEF FileStep, Saving!Next, Saving!Save
  <2>8. Remain
    BY <1>1, <2>1, <2>3, SocketsAssumption, NumberRemain DEF Consistent
  <2> QED BY <1>3, <2>2, <2>4, <2>5, <2>6, <2>7, <2>8
<1>8. CASE ReplaceDat
  <2>1. (Saving!GiveUp \/ Saving!Rename) /\ UNCHANGED <<canvas, fds, ready, wire, file, pc>> /\ saver' = "asleep"
    BY <1>8 DEF ReplaceDat, File!GiveUp, Saving!GiveUp, File!Rename, Saving!Rename
  <2>2. FileStep
    BY <2>1 DEF FileStep, Saving!Next, Saving!Save
  <2>3. Stream'
    BY <2>1 DEF Stream
  <2> QED BY <1>3, <1>4, <2>1, <2>2, <2>3
<1> QED BY <1>5, <1>6, <1>7, <1>8 DEF SavingThread

LEMMA RestartConsistent ==
  ASSUME Consistent, ServerRestart PROVE Consistent' /\ FileStep
<1>1. /\ fds' = [f \in Fds |-> Closed] /\ slots' = [i \in Slots |-> Free]
      /\ pc' = "wait" /\ backlog' = <<>> /\ ready' = <<>> /\ batch' = <<>>
      /\ call' = [cell |-> 1, at |-> 1] /\ rx' = [c \in Conns |-> <<>>]
      /\ peer' = [c \in Conns |-> IF peer[c] = "new" THEN "new" ELSE "rst"]
      /\ buffers' = [i \in Slots |-> <<>>]
      /\ saver' = "asleep" /\ UNCHANGED <<world, sent, screen, wire>>
  BY DEF ServerRestart, Emptied, File!Restart
<1>2. Saving!Restart /\ FileStep
  BY DEF ServerRestart, File!Restart, Saving!Restart, File!Loaded, Saving!Loaded,
         File!Filled, Saving!Filled, FileStep, Saving!Next
<1>3. Saving!IInv'
  BY <1>2, FileKept DEF Consistent
<1>4. IInv'
  BY RestartKeeps DEF Consistent
<1>5. AcceptedOnce'
  BY <1>1, Names, EmptySeq DEF AcceptedOnce
<1>6. Displays'
  <2>1. canvas' = [k \in 1 .. Cells |-> canvas'[k]]
    BY <1>3 DEF Saving!IInv, Saving!TypeOK, Saving!Canvases
  <2> QED BY <1>1, <2>1 DEF Consistent, Delivery, Displays
<1>7. Open' = {}
  BY <1>1 DEF Open, Active, Free
<1>8. Delivery'
  BY <1>1, <1>5, <1>6, <1>7 DEF Delivery, Fresh, CallShape, Reaches
<1>9. Arrivals'
  BY <1>1, EmptySeq DEF Consistent, Arrivals, Chunks, Script
<1>10. Drawing'
  <2>1. Active' = {}
    BY <1>1 DEF Active, Free
  <2>2. Streamed'
    <3>1. \A c \in Conns : sent[c] \in Nat /\ sent[c] <= Len(Script[c])
      BY Lengths DEF Consistent, Drawing
    <3> QED BY <1>1, <3>1, EmptySeq DEF Streamed, Script
  <2>3. Unframed'
    BY <1>1, <2>1, EmptySeq DEF Consistent, Drawing, Unframed, Contains, Script
  <2> QED BY <1>1, <2>1, <2>2, <2>3 DEF Drawing, Buffered, Kept, Applied, Partial, Whose
<1>11. ASSUME ClosedOnce' PROVE Gentle'
  <2>1. Listed(ready, fds)'
    BY <1>1, EmptySeq DEF Listed
  <2>2. Live'
    BY <1>1, Names, EmptySeq DEF Live, Registered, Contains
  <2>3. Expected' /\ InHand'
    BY <1>1, EmptySeq DEF Expected, InHand, Handling
  <2> QED BY <1>11, <2>1, <2>2, <2>3 DEF Gentle
<1> QED BY <1>1, <1>2, <1>3, <1>4, <1>8, <1>9, <1>10, <1>11, TameAlways DEF Consistent, Stream

LEMMA ConsistentStep ==
  ASSUME Consistent, UsageNext \/ UNCHANGED usageVars PROVE Consistent' /\ FileStep
<1>1. CASE UNCHANGED usageVars
  <2>1. /\ UNCHANGED <<slotVars, savedVars>>
        /\ UNCHANGED <<world, peer, sent, backlog, fds, rx, ready, wire, slots, buffers, pc, batch, cur, call>>
        /\ UNCHANGED <<canvas, screen, tmp, dat, buffer, saver, written, file>>
    BY <1>1 DEF usageVars, slotVars, netVars, loopVars, drawVars, savedVars
  <2>2. FileStep /\ Saving!IInv'
    BY <2>1, FileKept DEF Consistent, FileStep, Saving!fileVars
  <2>3. IInv'
    BY <2>1, SameSlots DEF Consistent, IInv, Shapes
  <2>4. Delivery'
    BY <2>1, SameDelivery DEF Consistent
  <2>5. Arrivals' /\ Stream' /\ Tame' /\ (~Saves' => saver' = "asleep")
    BY <2>1, TameAlways DEF Consistent, Arrivals, Chunks, Script, Stream, Saves
  <2>6. Drawing'
    BY <2>1, SameRemain, StillDrawing DEF Consistent, Delivery
  <2>7. ClosedOnce' => Gentle'
    <3>1. ClosedOnce' => ClosedOnce
      BY <2>1 DEF ClosedOnce, Aborting, Slow, Script
    <3>2. Gentle => Gentle'
      BY <2>1, OnceAlways DEF Gentle, Listed, Live, Registered, Expected, InHand, Active
    <3> QED BY <3>1, <3>2 DEF Consistent
  <2> QED BY <2>2, <2>3, <2>4, <2>5, <2>6, <2>7 DEF Consistent
<1> QED BY <1>1, EventConsistent, SavingConsistent, RestartConsistent, PagesConsistent DEF UsageNext

LEMMA UsageInvariance == UsageSpec /\ Tame => []Consistent
<1>1. UsageInit /\ Tame => Consistent
  BY InitConsistent
<1>2. Consistent /\ [UsageNext]_usageVars => Consistent'
  BY ConsistentStep
<1> QED BY <1>1, <1>2, PTL DEF UsageSpec

LEMMA OtherWorlds == UsageSpec /\ ~Tame => []~Tame
<1>1. ~Tame /\ [UsageNext]_usageVars => ~Tame'
  <2>1. [UsageNext]_usageVars => UNCHANGED world
    BY DEF UsageNext, EventThread, SavingThread, ServerRestart, Emptied, Pages, Clients,
           usageVars, slotVars, netVars
  <2> QED BY <2>1 DEF Tame, Saves, ClosedOnce, Aborting, Slow, Script
<1> QED BY <1>1, PTL DEF UsageSpec

(* A step of CanvasFile is one of DurableCanvas.                           *)
LEMMA DurableStep ==
  ASSUME Saving!IInv, FileStep
  PROVE  File!Durable!Next \/ UNCHANGED File!Durable!durableVars
<1>1. Saving!Durable!Next \/ UNCHANGED Saving!Durable!durableVars
  BY FileConstants, Saving!DurableStep DEF Saving!DurableStep, FileStep
<1>2. /\ Saving!Canvases = File!Canvases /\ Saving!Checkpoint = File!Checkpoint
      /\ Saving!Loaded(dat) = File!Loaded(dat)
      /\ (Saving!Checkpoint)' = (File!Checkpoint)' /\ (Saving!Loaded(dat))' = (File!Loaded(dat))'
  BY DEF Saving!Canvases, File!Canvases, Saving!Checkpoint, File!Checkpoint, Saving!Loaded, File!Loaded,
         Saving!Filled, File!Filled
<1>3. CASE UNCHANGED Saving!Durable!durableVars
  BY <1>2, <1>3 DEF Saving!Durable!durableVars, File!Durable!durableVars
<1>4. CASE Saving!Durable!Next
  BY <1>2, <1>4 DEF Saving!Durable!Next, File!Durable!Next,
    Saving!Durable!Draw, File!Durable!Draw, Saving!Durable!Snapshot, File!Durable!Snapshot,
    Saving!Durable!Commit, File!Durable!Commit, Saving!Durable!Abandon, File!Durable!Abandon,
    Saving!Durable!Restart, File!Durable!Restart
<1> QED BY <1>1, <1>3, <1>4

(***************************************************************************)
(* eunhye_files/server.c: each active slot has an open socket of its own   *)
(* and each open socket a slot, in spite of double closes and of events    *)
(* that outlive their sockets.                                             *)
(***************************************************************************)
THEOREM TableAgrees == SlotSpec => []TableMatchesSockets
<1>1. IInv => TableMatchesSockets
  BY DEF IInv
<1> QED BY <1>1, SlotInvariance, PTL

(***************************************************************************)
(* eunhye_files/server.c: when the loop waits, the page of each open slot  *)
(* shows the canvas, unless a message to it was cut short.                 *)
(***************************************************************************)
THEOREM PagesAgree == SlotSpec => []OpenPagesInSync
BY SlotInvariance, InSync, PTL

(***************************************************************************)
(* epoll_usage/server.c: every number is its user's, a slot's or the       *)
(* stream's, and after every restart, in a world without a saving thread   *)
(* whatever else happens in it, and with one as long as no connection is   *)
(* reset, stops reading or sends a close frame.  With both, a number       *)
(* closed twice may be that of the thread's file, and fclose then closes a *)
(* client's socket.                                                        *)
(***************************************************************************)
THEOREM UsageNumbersOwned == UsageSpec => [](Tame => NumbersOwned)
<1>1. Consistent => NumbersOwned
  BY DEF Consistent, IInv, NumbersOwned, StreamKeepsDescriptor, Stream
<1> QED BY <1>1, OtherWorlds, UsageInvariance, PTL

(***************************************************************************)
(* epoll_usage/server.c: and the pages show the canvas.                    *)
(***************************************************************************)
THEOREM UsagePagesAgree == UsageSpec => [](Tame => OpenPagesInSync)
<1>1. Consistent => OpenPagesInSync
  BY InSync DEF Consistent
<1> QED BY <1>1, OtherWorlds, UsageInvariance, PTL

(***************************************************************************)
(* epoll_usage/server.c: and, whenever the loop waits, what a page that is *)
(* connected has drawn and nobody drew over is on the canvas, if all it    *)
(* sent was read: whether it came in one segment or two, and whatever the  *)
(* slot held of an earlier client.                                         *)
(***************************************************************************)
THEOREM DrawingsArrive == UsageSpec => [](Tame => DrawingsApplied)
<1>1. Consistent => DrawingsApplied
  BY AllDrawn DEF Consistent, Delivery
<1> QED BY <1>1, OtherWorlds, UsageInvariance, PTL

(***************************************************************************)
(* epoll_usage/server.c: in these worlds the server comes back from a kill *)
(* with a canvas it once had, as a whole.                                  *)
(***************************************************************************)
THEOREM UsageDurability == UsageSpec /\ Tame => UsageDurable
<1>1. UsageInit => File!Durable!Init
  BY DEF UsageInit, File!FileInit, File!Durable!Init, File!Checkpoint, File!Loaded
<1>2. Consistent /\ [UsageNext]_usageVars => [File!Durable!Next]_(File!Durable!durableVars)
  BY ConsistentStep, DurableStep DEF Consistent
<1> QED BY <1>1, <1>2, UsageInvariance, PTL DEF UsageSpec, UsageDurable, File!Durable!Spec
=============================================================================
